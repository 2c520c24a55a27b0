------------------------- MODULE CloudSessionProofs -------------------------
(***************************************************************************)
(* For every number of calls and of faults: the types of CloudSession, that *)
(* the session in memory is the one on disk, that no token is used twice,   *)
(* and when a session is renewed and its token forgotten.                  *)
(***************************************************************************)
EXTENDS CloudSession, TLAPS

-----------------------------------------------------------------------------
(* Types *)

\* The numbers of tokens stay numbers of tokens while the server issues more.
LEMMA TokensGrow ==
    ASSUME issued \in Nat, issued' \in {issued, issued + 1}
    PROVE  /\ issued' \in Nat
           /\ Tokens \subseteq Tokens' /\ None \notin Tokens /\ None \notin Tokens'
           /\ issued' = issued + 1 => issued' \in Tokens' /\ issued' \notin Tokens
BY DEF Tokens, None

\* The part of TypeOK about the calls.
JobsOK == /\ job \in [Callers -> Jobs]
          /\ \A c \in Callers : job[c].at \in Fetching => job[c].token # None

\* A job is well formed when it is made of a place and a token, one that sends a
\* request of a token there is.
LEMMA JobType ==
    ASSUME NEW at \in Waiting \cup {"idle", "logging in", "logging out", "returned"} \cup Fetching,
           NEW token \in Tokens \cup {None}, at \in Fetching => token # None
    PROVE  /\ Job(at, token) \in Jobs
           /\ Job(at, token).at = at /\ Job(at, token).token = token
BY DEF Job, Jobs

\* A step that gives one call such a job keeps the calls well formed.
LEMMA OneJob ==
    ASSUME TypeOK, Tokens \subseteq Tokens', NEW c \in Callers,
           NEW at \in Waiting \cup {"idle", "logging in", "logging out", "returned"} \cup Fetching,
           NEW token \in Tokens \cup {None}, at \in Fetching => token # None,
           job' = [job EXCEPT ![c] = Job(at, token)]
    PROVE  JobsOK'
<1>1. Job(at, token) \in Jobs /\ (Job(at, token).at \in Fetching => Job(at, token).token # None)
  BY JobType
<1>2. Jobs \subseteq Jobs'
  BY DEF Jobs
<1>3. job' \in [Callers -> Jobs]
  BY <1>1 DEF TypeOK
<1>4. \A d \in Callers : job'[d].at \in Fetching => job'[d].token # None
  <2> TAKE d \in Callers
  <2>1. CASE d = c
    BY <1>1, <2>1 DEF TypeOK
  <2>2. CASE d # c
    BY <2>2 DEF TypeOK
  <2> QED BY <2>1, <2>2
<1> QED BY <1>2, <1>3, <1>4 DEF JobsOK

\* So does one that leaves the calls alone.
LEMMA NoJob ==
    ASSUME TypeOK, Tokens \subseteq Tokens', UNCHANGED job
    PROVE  JobsOK'
BY DEF TypeOK, JobsOK, Jobs

\* Waking the calls that wait keeps them well formed: only a session sends requests.
LEMMA WokenJobs ==
    ASSUME TypeOK, Tokens \subseteq Tokens', NEW session \in Tokens \cup {None},
           job' = Woken(session)
    PROVE  JobsOK'
<1>1. Jobs \subseteq Jobs'
  BY DEF Jobs
<1>2. ASSUME NEW c \in Callers
      PROVE  job'[c] \in Jobs /\ (job'[c].at \in Fetching => job'[c].token # None)
  <2>1. CASE job[c].at = "refreshing" /\ session # None
    <3>1. job'[c] = Job("fetching", session)
      BY <2>1 DEF Woken
    <3>2. Job("fetching", session) \in Jobs /\ Job("fetching", session).at = "fetching" /\ Job("fetching", session).token = session
      BY <2>1, JobType DEF Fetching
    <3> QED BY <2>1, <3>1, <3>2 DEF Fetching
  <2>2. CASE job[c].at = "refreshing again" /\ session # None
    <3>1. job'[c] = Job("fetching again", session)
      BY <2>2 DEF Woken
    <3>2. Job("fetching again", session) \in Jobs /\ Job("fetching again", session).at = "fetching again" /\ Job("fetching again", session).token = session
      BY <2>2, JobType DEF Fetching
    <3> QED BY <2>2, <3>1, <3>2 DEF Fetching
  <2>3. CASE job[c].at \in Waiting /\ (job[c].at = "restoring" \/ session = None)
    <3>1. job'[c] = Job("returned", None)
      BY <2>3 DEF Woken, Returned
    <3>2. Job("returned", None) \in Jobs /\ Job("returned", None).at = "returned" /\ Job("returned", None).token = None
      BY JobType DEF Fetching
    <3> QED BY <3>1, <3>2 DEF Fetching
  <2>4. CASE job[c].at \notin Waiting
    <3>1. job'[c] = job[c]
      BY <2>4 DEF Woken, Waiting
    <3> QED BY <3>1 DEF TypeOK
  <2> QED BY <2>1, <2>2, <2>3, <2>4 DEF Waiting
<1>3. DOMAIN job' = Callers
  BY DEF Woken
<1> QED BY <1>1, <1>2, <1>3 DEF JobsOK, Woken

\* The part of TypeOK about the refresh.
RefreshOK == /\ refresh \in [at : {"none", "sent", "rotated", "refused"},
                             token : Tokens \cup {None}, next : Tokens \cup {None}]
             /\ refresh.at = "sent" => refresh.token # None
             /\ refresh.at = "rotated" => refresh.next # None

\* TypeOK of the next state, put together: the tokens only grow.
LEMMA TypeOf ==
    ASSUME TypeOK, JobsOK', issued' \in {issued, issued + 1},
           auth' \in Tokens' \cup {None}, stored' \in Tokens' \cup {None},
           overwritten' \in BOOLEAN,
           refresh' \in {refresh, NoRefresh} \/ RefreshOK',
           rotated' \subseteq Tokens', revoked' \subseteq Tokens', old' \subseteq Tokens',
           faults' \in {faults, faults + 1}
    PROVE  TypeOK'
<1>1. issued' \in Nat /\ Tokens \subseteq Tokens'
  BY TokensGrow DEF TypeOK
<1>2. RefreshOK'
  <2>1. CASE refresh' = refresh
    BY <1>1, <2>1 DEF TypeOK, RefreshOK
  <2>2. CASE refresh' = NoRefresh
    BY <2>2 DEF NoRefresh, RefreshOK
  <2> QED BY <2>1, <2>2
<1>3. faults' \in Nat
  BY DEF TypeOK
<1> QED BY <1>1, <1>2, <1>3 DEF TypeOK, JobsOK, RefreshOK

\* A step of the calls leaves the server alone.
LEMMA SameServer ==
    ASSUME TypeOK, UNCHANGED server
    PROVE  /\ issued' = issued /\ Tokens' = Tokens /\ None' = None
           /\ rotated' \subseteq Tokens' /\ revoked' \subseteq Tokens' /\ old' \subseteq Tokens'
           /\ auth \in Tokens' \cup {None} /\ stored \in Tokens' \cup {None}
           /\ overwritten \in BOOLEAN
           /\ None \in Tokens' \cup {None}
BY DEF server, TypeOK, Tokens, None

\* Sharing a refresh, and failing to, keep the types.
LEMMA JoinsType ==
    ASSUME TypeOK, NEW c \in Callers, NEW at \in Waiting, Joins(c, at), UNCHANGED server
    PROVE  TypeOK'
<1>1. JobsOK'
  BY SameServer, OneJob DEF Joins, Waiting, Fetching
<1>2. RefreshOK'
  <2>1. stored \in Tokens \cup {None}
    BY DEF TypeOK
  <2>2. CASE refresh' = refresh
    BY <2>2, SameServer DEF TypeOK, RefreshOK
  <2>3. CASE stored # None /\ refresh' = Sent(stored)
    BY <2>1, <2>3, SameServer DEF Sent, RefreshOK
  <2> QED BY <2>2, <2>3 DEF Joins
<1> QED BY <1>1, <1>2, SameServer, TypeOf DEF Joins, NoFault, disk

LEMMA ReturnJobs ==
    ASSUME TypeOK, Tokens \subseteq Tokens', NEW c \in Callers, Return(c)
    PROVE  JobsOK'
BY OneJob DEF Return, Returned, Fetching

LEMMA UnreadType ==
    ASSUME TypeOK, NEW c \in Callers, Unread(c), UNCHANGED server
    PROVE  TypeOK'
BY SameServer, ReturnJobs, TypeOf DEF Unread, Fault, disk

LEMMA RefreshForType ==
    ASSUME TypeOK, NEW c \in Callers, NEW at \in Waiting, RefreshFor(c, at), UNCHANGED server
    PROVE  TypeOK'
<1>1. CASE Joins(c, at)
  BY <1>1, JoinsType
<1>2. CASE Unread(c)
  BY <1>2, UnreadType
<1>3. CASE /\ IF stored = None THEN NoFault ELSE Fault
           /\ auth' = None /\ Return(c)
           /\ UNCHANGED <<disk, refresh>>
  <2>1. faults' \in {faults, faults + 1}
    BY <1>3 DEF NoFault, Fault
  <2> QED BY <1>3, <2>1, SameServer, ReturnJobs, TypeOf DEF disk
<1> QED BY <1>1, <1>2, <1>3 DEF RefreshFor, CannotRefresh

LEMMA InitType == Init => TypeOK
<1> SUFFICES ASSUME Init PROVE TypeOK
  OBVIOUS
<1>1. issued \in {None, 1} /\ stored = issued /\ stored \in Tokens \cup {None}
  BY DEF Init, None, Tokens
<1>2. job \in [Callers -> Jobs] /\ \A c \in Callers : job[c].at = "idle"
  BY DEF Init, Job, Jobs
<1>3. RefreshOK
  BY DEF Init, NoRefresh, RefreshOK
<1>4. \A c \in Callers : job[c].at \notin Fetching
  BY <1>2 DEF Fetching
<1>5. /\ auth = None /\ overwritten \in BOOLEAN
      /\ rotated = {} /\ revoked = {} /\ old = {} /\ faults = 0
  BY DEF Init
<1> QED BY <1>1, <1>2, <1>3, <1>4, <1>5 DEF TypeOK, None, RefreshOK

\* The refresh that the calls share.
LEMMA RefreshingType ==
    ASSUME TypeOK, Refreshing \/ RefreshFails \/ Restart
    PROVE  TypeOK'
<1>1. CASE Rotate
  <2>1. issued' = issued + 1 /\ Tokens \subseteq Tokens' /\ issued' \in Tokens' /\ issued' # None
    BY <1>1, TokensGrow DEF Rotate, TypeOK
  <2>2. JobsOK'
    BY <1>1, <2>1, NoJob DEF Rotate
  <2>3. RefreshOK'
    BY <1>1, <2>1 DEF Rotate, TypeOK, RefreshOK
  <2>4. refresh.token \in Tokens
    BY <1>1 DEF Rotate, TypeOK
  <2>5. rotated' \subseteq Tokens'
    BY <1>1, <2>1, <2>4 DEF Rotate, TypeOK
  <2> QED BY <1>1, <2>1, <2>2, <2>3, <2>5, TypeOf DEF Rotate, TypeOK, disk
<1>2. CASE Refuse
  <2>1. RefreshOK'
    BY <1>2, SameServer DEF Refuse, TypeOK, RefreshOK
  <2> QED BY <1>2, <2>1, SameServer, NoJob, TypeOf DEF Refuse, disk
<1>3. CASE Renewed
  <2>1. refresh.next \in Tokens \cup {None}
    BY DEF TypeOK
  <2>2. auth' \in Tokens \cup {None} /\ stored' \in Tokens \cup {None} /\ overwritten' \in BOOLEAN
    BY <1>3, <2>1 DEF Renewed, Accepts, Writes, disk, TypeOK
  <2>3. JobsOK'
    BY <1>3, <2>2, SameServer, WokenJobs DEF Renewed, Settle
  <2> QED BY <1>3, <2>2, <2>3, SameServer, TypeOf DEF Renewed, Settle, Accepts, NoFault, Fault
<1>4. CASE Refused
  <2>1. JobsOK'
    BY <1>4, SameServer, WokenJobs DEF Refused, Settle
  <2> QED BY <1>4, <2>1, SameServer, TypeOf DEF Refused, Settle, Clears, Writes, disk, NoFault, Fault
<1>5. CASE RefreshFails
  <2>1. JobsOK'
    BY <1>5, SameServer, WokenJobs DEF RefreshFails, Settle
  <2> QED BY <1>5, <2>1, SameServer, TypeOf DEF RefreshFails, Settle, KeepsStored, disk, Fault
<1>6. CASE Restart
  <2>1. JobsOK'
    <3>1. Returned \in Jobs /\ Returned.at \notin Fetching
      BY DEF Returned, Job, Jobs, Fetching
    <3>2. job' \in [Callers -> Jobs]
      BY <1>6, <3>1 DEF Restart, TypeOK
    <3>3. ASSUME NEW c \in Callers PROVE job'[c].at \notin Fetching
      BY <1>6, <3>1 DEF Restart, Begin, Fetching
    <3> QED BY <1>6, <3>2, <3>3, SameServer DEF JobsOK, Jobs, Restart
  <2> QED BY <1>6, <2>1, SameServer, TypeOf DEF Restart, disk, Fault
<1> QED BY <1>1, <1>2, <1>3, <1>4, <1>5, <1>6 DEF Refreshing

\* The calls.
LEMMA CallType ==
    ASSUME TypeOK, NEW c \in Callers, Call(c)
    PROVE  TypeOK'
<1>1. CASE Restore(c)
  <2>1. CASE Joins(c, "restoring")
    BY <1>1, <2>1, JoinsType DEF Restore, Waiting
  <2>2. CASE Unread(c)
    BY <1>1, <2>2, UnreadType DEF Restore
  <2>3. CASE Return(c) /\ NoFault /\ UNCHANGED <<auth, disk, refresh>>
    BY <1>1, <2>3, SameServer, ReturnJobs, TypeOf DEF Restore, NoFault, disk
  <2> QED BY <1>1, <2>1, <2>2, <2>3 DEF Restore
<1>2. CASE Login(c)
  <2>1. JobsOK'
    BY <1>2, SameServer, OneJob DEF Login, Fetching
  <2>2. stored' \in {None, stored} /\ overwritten' \in BOOLEAN /\ faults' \in {faults, faults + 1}
    BY <1>2, SameServer DEF Login, GetsDeviceId, ForgetsTheToken, disk, Fault, NoFault, TypeOK
  <2> QED BY <1>2, <2>1, <2>2, SameServer, TypeOf DEF Login
<1>3. CASE Logout(c)
  <2>1. PICK token \in {None, stored} : job' = [job EXCEPT ![c] = Job("logging out", token)]
    BY <1>3 DEF Logout
  <2>2. faults' \in {faults, faults + 1}
    BY <1>3 DEF Logout, Fault, NoFault
  <2>3. JobsOK'
    BY <1>3, <2>1, SameServer, OneJob DEF Logout, Fetching
  <2> QED BY <1>3, <2>2, <2>3, SameServer, TypeOf DEF Logout, disk
<1>4. CASE Fetch(c)
  <2>1. CASE /\ auth # None
             /\ job' = [job EXCEPT ![c] = Job("fetching", auth)]
             /\ NoFault /\ UNCHANGED <<auth, disk, refresh>>
    <3>1. JobsOK'
      BY <1>4, <2>1, SameServer, OneJob DEF Fetch, Fetching
    <3> QED BY <1>4, <2>1, <3>1, SameServer, TypeOf DEF Fetch, NoFault, disk
  <2>2. CASE RefreshFor(c, "refreshing")
    BY <1>4, <2>2, RefreshForType DEF Fetch, Waiting
  <2> QED BY <1>4, <2>1, <2>2 DEF Fetch
<1>5. CASE LoggedIn(c)
  <2>1. issued' = issued + 1 /\ Tokens \subseteq Tokens' /\ issued' \in Tokens'
    BY <1>5, TokensGrow DEF LoggedIn, TypeOK
  <2>2. auth' \in Tokens' \cup {None} /\ stored' \in Tokens' \cup {None} /\ overwritten' \in BOOLEAN
    BY <1>5, <2>1 DEF LoggedIn, Accepts, Writes, disk, TypeOK
  <2>3. JobsOK'
    BY <1>5, <2>1, ReturnJobs DEF LoggedIn
  <2> QED BY <1>5, <2>1, <2>2, <2>3, TypeOf DEF LoggedIn, Accepts, Fault, NoFault, TypeOK
<1>6. CASE LoginFails(c)
  BY <1>6, SameServer, ReturnJobs, TypeOf DEF LoginFails, disk
<1>7. CASE LoggedOut(c)
  <2>1. stored' \in {None, stored} /\ overwritten' \in BOOLEAN /\ faults' \in {faults, faults + 1}
    BY <1>7 DEF LoggedOut, Clears, Writes, disk, Fault, NoFault, TypeOK
  <2> QED BY <1>7, <2>1, SameServer, ReturnJobs, TypeOf DEF LoggedOut
<1>8. CASE Fetched(c)
  BY <1>8, SameServer, ReturnJobs, TypeOf DEF Fetched, disk
<1>9. CASE Unauthorized(c)
  <2>1. CASE RefreshFor(c, "refreshing again")
    BY <1>9, <2>1, RefreshForType DEF Unauthorized, Waiting
  <2>2. CASE /\ ~MustRenew(c)
             /\ job' = [job EXCEPT ![c] = Job("fetching again", auth)]
             /\ NoFault /\ UNCHANGED <<auth, disk, refresh>>
    <3>1. JobsOK'
      BY <1>9, <2>2, SameServer, OneJob DEF Unauthorized, MustRenew, Fetching
    <3> QED BY <1>9, <2>2, <3>1, SameServer, TypeOf DEF Unauthorized, NoFault, disk
  <2> QED BY <1>9, <2>1, <2>2 DEF Unauthorized
<1>10. CASE Revoke(c)
  <2>1. issued' = issued /\ Tokens' = Tokens
    BY <1>10 DEF Revoke, Tokens
  <2> QED BY <1>10, <2>1, NoJob, TypeOf DEF Revoke, client, disk, TypeOK
<1> QED BY <1>1, <1>2, <1>3, <1>4, <1>5, <1>6, <1>7, <1>8, <1>9, <1>10 DEF Call, Answered

LEMMA ExpireType ==
    ASSUME TypeOK, NEW n \in Tokens, Expire(n)
    PROVE  TypeOK'
<1>1. issued' = issued /\ Tokens' = Tokens
  BY DEF Expire, Tokens
<1> QED BY <1>1, NoJob, TypeOf DEF Expire, client, disk, TypeOK

\* Every variable of CloudSession keeps its type.
THEOREM TypeCorrect == Spec => []TypeOK
<1>1. ASSUME TypeOK, [Next]_vars PROVE TypeOK'
  <2>1. CASE UNCHANGED vars
    BY <1>1, <2>1, SameServer, NoJob, TypeOf DEF vars, client, disk
  <2>2. CASE Next
    BY <1>1, <2>2, RefreshingType, CallType, ExpireType DEF Next
  <2> QED BY <1>1, <2>1, <2>2
<1> QED BY <1>1, InitType, PTL DEF Spec

-----------------------------------------------------------------------------
(* The session in memory and the one on disk *)

\* What each operation does to both: it sets them together, drops the one in memory,
\* leaves both as they were, or (a login) forgets the one on disk and marks it.
LEMMA SessionsTogether ==
    ASSUME Next, SessionIsStored
    PROVE  SessionIsStored'
<1>1. \/ auth' = None
      \/ auth' = stored'
      \/ UNCHANGED <<auth, disk>>
      \/ stored' = None /\ overwritten'
  <2>1. CASE Refreshing
    BY <2>1 DEF Refreshing, Rotate, Refuse, Renewed, Refused, Accepts, Writes
  <2>2. CASE RefreshFails \/ Restart
    BY <2>2 DEF RefreshFails, Restart
  <2>3. ASSUME NEW c \in Callers, Call(c)
        PROVE  \/ auth' = None \/ auth' = stored' \/ UNCHANGED <<auth, disk>>
               \/ stored' = None /\ overwritten'
    <3>1. CASE Login(c)
      BY <3>1 DEF Login, GetsDeviceId, ForgetsTheToken
    <3> QED BY <2>3, <3>1 DEF Call, Answered, Restore, Logout, Fetch, LoggedIn, LoginFails,
         LoggedOut, Fetched, Unauthorized, Revoke, client, Accepts, Writes, RefreshFor,
         CannotRefresh, Unread, Joins
  <2>4. ASSUME NEW n \in Tokens, Expire(n) PROVE UNCHANGED <<auth, disk>>
    BY <2>4 DEF Expire, client
  <2> QED BY <2>1, <2>2, <2>3, <2>4 DEF Next
<1> QED BY <1>1 DEF SessionIsStored, disk

\* The session in memory can be continued after a restart, unless a login could not read
\* the file and nothing was saved since.
THEOREM SessionsAreStored == Spec => []SessionIsStored
<1>1. Init => SessionIsStored
  BY DEF Init, SessionIsStored
<1>2. ASSUME SessionIsStored, [Next]_vars PROVE SessionIsStored'
  BY <1>2, SessionsTogether DEF vars, client, disk, SessionIsStored
<1> QED BY <1>1, <1>2, PTL DEF Spec

-----------------------------------------------------------------------------
(* Tokens are used once *)

\* As long as nothing failed, the stored token is a new one, or the one whose
\* successor is on its way; and that is a new one.
SpentTokensAreReplaced ==
    faults = 0 /\ stored \in rotated => refresh.at = "rotated" /\ refresh.token = stored
SuccessorsAreNew == refresh.at = "rotated" => refresh.next \notin rotated

TokenInv == NoTokenIsUsedTwice /\ SpentTokensAreReplaced /\ SuccessorsAreNew

\* A step that leaves the server and the refresh alone stores no spent token.
LEMMA SameRefresh ==
    ASSUME TypeOK, TokenInv, UNCHANGED <<refresh, rotated>>, faults' \in {faults, faults + 1},
           stored' = stored \/ stored' \notin rotated
    PROVE  TokenInv'
<1>1. faults' = 0 => faults = 0
  BY DEF TypeOK
<1> QED BY <1>1 DEF TokenInv, NoTokenIsUsedTwice, SpentTokensAreReplaced, SuccessorsAreNew

\* Nor does one that ends the refresh.
LEMMA EndedRefresh ==
    ASSUME TypeOK, refresh' = NoRefresh, UNCHANGED rotated, faults' \in {faults, faults + 1},
           stored' \notin rotated \/ faults' # 0
    PROVE  TokenInv'
BY DEF NoRefresh, TokenInv, NoTokenIsUsedTwice, SpentTokensAreReplaced, SuccessorsAreNew

\* A refresh begins with a token that is not spent, when none is under way.
LEMMA JoinedRefresh ==
    ASSUME TypeOK, TokenInv, NEW c \in Callers, NEW at, UNCHANGED server,
           Joins(c, at) \/ Unread(c) \/ RefreshFor(c, at)
    PROVE  TokenInv'
<1>1. CASE Joins(c, at) /\ refresh.at = "none"
  <2>1. refresh'.at = "sent" /\ refresh'.token = stored
    BY <1>1 DEF Joins, Sent
  <2>2. UNCHANGED <<stored, rotated, faults>>
    BY <1>1 DEF Joins, NoFault, server, disk
  <2>3. faults = 0 => stored \notin rotated
    BY <1>1 DEF TokenInv, SpentTokensAreReplaced
  <2> QED BY <2>1, <2>2, <2>3
          DEF TokenInv, NoTokenIsUsedTwice, SpentTokensAreReplaced, SuccessorsAreNew
<1>2. CASE Joins(c, at) /\ refresh.at # "none"
  BY <1>2, SameRefresh DEF Joins, NoFault, server, disk
<1>3. CASE Unread(c)
  BY <1>3, SameRefresh DEF Unread, Fault, server, disk
<1>4. CASE CannotRefresh(c)
  BY <1>4, SameRefresh DEF CannotRefresh, Unread, Fault, NoFault, server, disk
<1> QED BY <1>1, <1>2, <1>3, <1>4 DEF RefreshFor

LEMMA RefreshingTokens ==
    ASSUME TypeOK, TokenInv, Refreshing \/ RefreshFails \/ Restart
    PROVE  TokenInv'
<1>0. None \notin rotated /\ (\A n \in rotated : n # issued + 1) /\ faults + 1 # 0
  BY DEF TypeOK, Tokens, None
<1>1. CASE Rotate
  <2>1. refresh'.at = "rotated" /\ refresh'.token = refresh.token /\ refresh'.next = issued + 1
    BY <1>1 DEF Rotate, TypeOK
  <2>2. rotated' = rotated \cup {refresh.token} /\ UNCHANGED <<stored, faults>>
    BY <1>1 DEF Rotate, disk
  <2>3. refresh.token # issued + 1
    BY DEF TypeOK, Tokens, None
  <2>4. faults = 0 => stored \notin rotated
    BY <1>1 DEF Rotate, TokenInv, SpentTokensAreReplaced
  <2> QED BY <1>0, <2>1, <2>2, <2>3, <2>4
          DEF TokenInv, NoTokenIsUsedTwice, SpentTokensAreReplaced, SuccessorsAreNew
<1>2. CASE Refuse
  <2>1. refresh.at = "sent" /\ refresh'.at = "refused" /\ UNCHANGED <<stored, rotated, faults>>
    BY <1>2 DEF Refuse, TypeOK, server, disk
  <2> QED BY <2>1
          DEF TokenInv, NoTokenIsUsedTwice, SpentTokensAreReplaced, SuccessorsAreNew
<1>3. CASE Renewed
  BY <1>0, <1>3, EndedRefresh
     DEF Renewed, Accepts, Writes, disk, Settle, TokenInv, SuccessorsAreNew, NoFault, Fault, server, TypeOK
<1>4. CASE Refused
  BY <1>0, <1>4, EndedRefresh DEF Refused, Clears, Writes, disk, Settle, NoFault, Fault, server
<1>5. CASE RefreshFails
  BY <1>0, <1>5, EndedRefresh DEF RefreshFails, Settle, Fault, server
<1>6. CASE Restart
  BY <1>0, <1>6, EndedRefresh DEF Restart, Fault, server
<1> QED BY <1>1, <1>2, <1>3, <1>4, <1>5, <1>6 DEF Refreshing

LEMMA CallTokens ==
    ASSUME TypeOK, TokenInv, NEW c \in Callers, Call(c)
    PROVE  TokenInv'
<1>0. None \notin rotated /\ (\A n \in rotated : n # issued + 1)
  BY DEF TypeOK, Tokens, None
<1>1. CASE Restore(c)
  <2>1. CASE Joins(c, "restoring") \/ Unread(c)
    BY <1>1, <2>1, JoinedRefresh DEF Restore
  <2>2. CASE NoFault /\ UNCHANGED <<auth, disk, refresh>>
    BY <1>1, <2>2, SameRefresh DEF Restore, NoFault, server, disk
  <2> QED BY <1>1, <2>1, <2>2 DEF Restore
<1>2. CASE LoginFails(c) \/ Fetched(c)
  BY <1>2, SameRefresh DEF LoginFails, Fetched, server, disk
<1>2a. CASE Login(c)
  BY <1>0, <1>2a, SameRefresh DEF Login, GetsDeviceId, ForgetsTheToken, Fault, NoFault, server, disk
<1>3. CASE Logout(c)
  BY <1>3, SameRefresh DEF Logout, Fault, NoFault, server, disk
<1>4. CASE Fetch(c)
  <2>1. CASE RefreshFor(c, "refreshing")
    BY <1>4, <2>1, JoinedRefresh DEF Fetch
  <2>2. CASE NoFault /\ UNCHANGED <<auth, disk, refresh>>
    BY <1>4, <2>2, SameRefresh DEF Fetch, NoFault, server, disk
  <2> QED BY <1>4, <2>1, <2>2 DEF Fetch
<1>5. CASE LoggedIn(c)
  BY <1>0, <1>5, SameRefresh DEF LoggedIn, Accepts, Writes, disk, Fault, NoFault
<1>6. CASE LoggedOut(c)
  BY <1>0, <1>6, SameRefresh DEF LoggedOut, Clears, Writes, disk, Fault, NoFault, server
<1>7. CASE Unauthorized(c)
  <2>1. CASE RefreshFor(c, "refreshing again")
    BY <1>7, <2>1, JoinedRefresh DEF Unauthorized
  <2>2. CASE NoFault /\ UNCHANGED <<auth, disk, refresh>>
    BY <1>7, <2>2, SameRefresh DEF Unauthorized, NoFault, server, disk
  <2> QED BY <1>7, <2>1, <2>2 DEF Unauthorized
<1>8. CASE Revoke(c)
  BY <1>8, SameRefresh DEF Revoke, client, disk
<1> QED BY <1>1, <1>2, <1>2a, <1>3, <1>4, <1>5, <1>6, <1>7, <1>8 DEF Call, Answered

\* The server is not shown a token twice, however many calls ask for a session, as
\* long as no answer is lost and no token fails to be saved.
THEOREM TokensAreUsedOnce == Spec => []NoTokenIsUsedTwice
<1>1. Init => TokenInv
  BY DEF Init, NoRefresh, TokenInv, NoTokenIsUsedTwice, SpentTokensAreReplaced, SuccessorsAreNew
<1>2. ASSUME TypeOK, TokenInv, [Next]_vars PROVE TokenInv'
  <2>1. CASE UNCHANGED vars
    BY <1>2, <2>1, SameRefresh DEF vars, client, server, disk
  <2>2. ASSUME NEW n \in Tokens, Expire(n) PROVE TokenInv'
    BY <1>2, <2>2, SameRefresh DEF Expire, client, disk
  <2> QED BY <1>2, <2>1, <2>2, RefreshingTokens, CallTokens DEF Next
<1>3. TokenInv => NoTokenIsUsedTwice
  BY DEF TokenInv
<1> QED BY <1>1, <1>2, <1>3, TypeCorrect, PTL DEF Spec

-----------------------------------------------------------------------------
(* What a step may not do *)

\* A refresh begins only without a session, or with one whose access token is spent.
THEOREM FreshSessionsStay == Spec => FreshSessionsAreKept
<1>1. ASSUME Next, refresh.at = "none", refresh'.at = "sent" PROVE auth \in old \cup {None}
  <2>1. CASE Refreshing \/ RefreshFails \/ Restart
    BY <1>1, <2>1 DEF Refreshing, Rotate, Refuse, Renewed, Refused, RefreshFails, Restart,
       Settle, NoRefresh
  <2>2. ASSUME NEW c \in Callers, Call(c) PROVE auth \in old \cup {None}
    <3>1. CASE Restore(c)
      BY <1>1, <3>1 DEF Restore, Unread
    <3>2. CASE Fetch(c)
      BY <1>1, <3>2 DEF Fetch
    <3>3. CASE Unauthorized(c)
      BY <1>1, <3>3 DEF Unauthorized, MustRenew
    <3>4. CASE UNCHANGED refresh
      BY <1>1, <3>4
    <3> QED BY <2>2, <3>1, <3>2, <3>3, <3>4
            DEF Call, Answered, Login, Logout, LoggedIn, LoginFails, LoggedOut, Fetched, Revoke,
                client
  <2>3. ASSUME NEW n \in Tokens, Expire(n) PROVE FALSE
    BY <1>1, <2>3 DEF Expire, client
  <2> QED BY <1>1, <2>1, <2>2, <2>3 DEF Next
<1>2. [Next]_vars => [refresh.at = "none" /\ refresh'.at = "sent" => auth \in old \cup {None}]_vars
  BY <1>1
<1> QED BY <1>2, PTL DEF Spec, FreshSessionsAreKept

\* Only a logout, a refusal, or a login that cannot read the file forgets the stored token.
THEOREM OutagesForgetNothing == Spec => OutagesKeepTheToken
<1>1. ASSUME TypeOK, Next, stored # None, stored' = None
      PROVE  \/ refresh.at = "refused"
             \/ \E c \in Callers : job[c].at \in {"idle", "logging out"} /\ job'[c] = Returned
             \/ /\ \E c \in Callers : job[c].at = "idle" /\ job'[c].at = "logging in"
                /\ faults' = faults + 1
  <2>1. CASE Refreshing
    <3>1. CASE Renewed
      BY <1>1, <3>1 DEF Renewed, Accepts, Writes, disk, TypeOK
    <3> QED BY <1>1, <2>1, <3>1 DEF Refreshing, Rotate, Refuse, Refused, disk
  <2>2. CASE RefreshFails \/ Restart
    BY <1>1, <2>2 DEF RefreshFails, Restart, KeepsStored, disk
  <2>3. ASSUME NEW c \in Callers, Call(c)
        PROVE  \/ job[c].at \in {"idle", "logging out"} /\ job'[c] = Returned
               \/ job[c].at = "idle" /\ job'[c].at = "logging in" /\ faults' = faults + 1
    <3>1. CASE LoggedOut(c)
      BY <3>1, <2>3, <1>1 DEF LoggedOut, Begin, Return, TypeOK
    <3>2. CASE LoggedIn(c)
      <4>1. issued + 1 # None
        BY <1>1 DEF TypeOK, None
      <4> QED BY <3>2, <4>1, <1>1 DEF LoggedIn, Accepts, Writes, disk
    <3>3. CASE Login(c)
      <4>1. Job("logging in", None).at = "logging in"
        BY DEF Job
      <4>2. job'[c].at = "logging in"
        BY <1>1, <2>3, <3>3, <4>1 DEF Login, TypeOK
      <4> QED BY <1>1, <3>3, <4>2
              DEF Login, Begin, GetsDeviceId, ForgetsTheToken, disk, Fault
    <3> QED BY <1>1, <2>3, <3>1, <3>2, <3>3
            DEF Call, Answered, Restore, Logout, Fetch, LoginFails, Fetched,
                Unauthorized, Revoke, client, disk, RefreshFor, CannotRefresh, Unread, Joins
  <2>4. ASSUME NEW n \in Tokens, Expire(n) PROVE FALSE
    BY <1>1, <2>4 DEF Expire, client, disk
  <2> QED BY <1>1, <2>1, <2>2, <2>3, <2>4 DEF Next
<1>2. TypeOK /\ [Next]_vars
      => [stored # None /\ stored' = None
          => \/ refresh.at = "refused"
             \/ \E c \in Callers : job[c].at \in {"idle", "logging out"} /\ job'[c] = Returned
             \/ /\ \E c \in Callers : job[c].at = "idle" /\ job'[c].at = "logging in"
                /\ faults' = faults + 1]_vars
  BY <1>1
<1> QED BY <1>2, TypeCorrect, PTL DEF Spec, OutagesKeepTheToken

=============================================================================
