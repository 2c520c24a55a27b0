---------------------------- MODULE CloudSession ----------------------------
(***************************************************************************)
(* The session of the desktop with LUMORA Cloud: CloudSessionClient, the   *)
(* refresh token that CloudCredentialStore keeps, and the calls of the     *)
(* coordinator and the model proxy that share them.                        *)
(*                                                                         *)
(* An action of the client is what runs between two awaits. The server     *)
(* hands out tokens in pairs, an access and a refresh token: a pair is a   *)
(* number, and a refresh token is good for one refresh.                    *)
(***************************************************************************)
EXTENDS Naturals

CONSTANTS
    Callers,    \* the calls of the run: each is one operation of the client
    MaxFaults   \* bound on failed requests, failed reads and writes, and restarts

ASSUME FaultsAssumption == MaxFaults \in Nat

VARIABLES
    auth,       \* the session in memory, the number of its tokens
    stored,     \* the refresh token on disk
    overwritten,\* history: a login wrote the file anew, without the token it could not read
    refresh,    \* refreshPromise, and how far its request is
    job,        \* the calls
    issued,     \* the server: the tokens it has handed out
    rotated,    \* the refresh tokens it has exchanged
    revoked,    \* those it has revoked
    old,        \* the access tokens it refuses, or soon will
    faults      \* how many faults there were

disk == <<stored, overwritten>>
client == <<auth, disk, refresh, job>>
server == <<issued, rotated, revoked, old>>
vars == <<client, server, faults>>

None == 0
Tokens == 1..issued

\* token: what the server will renew. next: what it has renewed it with.
NoRefresh == [at |-> "none", token |-> None, next |-> None]
Sent(token) == [at |-> "sent", token |-> token, next |-> None]

\* token: the access token of a request, the refresh token of a logout.
Job(at, token) == [at |-> at, token |-> token]
Returned == Job("returned", None)
Waiting == {"restoring", "refreshing", "refreshing again"}

Fetching == {"fetching", "fetching again"}

Fault == faults < MaxFaults /\ faults' = faults + 1
NoFault == UNCHANGED faults

-----------------------------------------------------------------------------
(* The refresh that all calls share *)

\* refresh: a call that finds one under way waits for it, another sends the token
\* that is stored.
JoinsAlways(c, at) ==
    /\ stored # None
    /\ refresh' = Sent(stored)
    /\ job' = [job EXCEPT ![c] = Job(at, None)]
    /\ NoFault /\ UNCHANGED <<auth, disk>>
Joins(c, at) ==
    /\ refresh.at # "none" \/ stored # None
    /\ refresh' = IF refresh.at = "none" THEN Sent(stored) ELSE refresh
    /\ job' = [job EXCEPT ![c] = Job(at, None)]
    /\ NoFault /\ UNCHANGED <<auth, disk>>

Return(c) == job' = [job EXCEPT ![c] = Returned]

\* A token that cannot be decrypted fails the call and changes nothing.
Unread(c) ==
    /\ stored # None
    /\ Fault /\ Return(c)
    /\ UNCHANGED <<auth, disk, refresh>>

\* Without a token the session is over. A file that cannot be read or parsed is taken
\* for none.
CannotRefresh(c) ==
    /\ refresh.at = "none"
    /\ \/ Unread(c)
       \/ /\ IF stored = None THEN NoFault ELSE Fault
          /\ auth' = None /\ Return(c)
          /\ UNCHANGED <<disk, refresh>>

RefreshFor(c, at) == Joins(c, at) \/ CannotRefresh(c)

Writes(token) == stored' = token /\ overwritten' = FALSE

\* acceptAuth: the refresh token is saved before the session in memory changes.
AcceptsUnsaved(token, otherwise) ==
    /\ auth' = token
    /\ \/ Writes(token) /\ NoFault
       \/ UNCHANGED disk /\ Fault
Accepts(token, otherwise) ==
    \/ Writes(token) /\ auth' = token /\ NoFault
    \/ UNCHANGED disk /\ auth' = otherwise /\ Fault

\* The refresh is settled: it is forgotten, and who waits for it goes on, with the
\* session it brought or with its failure.
WokenFirst(session) ==
    LET first == CHOOSE c \in Callers : job[c].at \in Waiting
    IN  [job EXCEPT ![first] = Returned]
WokenAnyway(session) ==
    [c \in Callers |->
        CASE job[c].at = "refreshing" -> Job("fetching", session)
          [] job[c].at = "refreshing again" -> Job("fetching again", session)
          [] job[c].at = "restoring" -> Returned
          [] OTHER -> job[c]]
Woken(session) ==
    [c \in Callers |->
        CASE job[c].at = "refreshing" /\ session # None -> Job("fetching", session)
          [] job[c].at = "refreshing again" /\ session # None -> Job("fetching again", session)
          [] job[c].at \in Waiting /\ (job[c].at = "restoring" \/ session = None) -> Returned
          [] OTHER -> job[c]]
Settle == refresh' = NoRefresh /\ job' = Woken(auth')

\* The server has renewed the token.
Renewed ==
    /\ refresh.at = "rotated"
    /\ Accepts(refresh.next, None)
    /\ Settle
    /\ UNCHANGED server

\* clearRefreshToken, which may fail to write.
Clears == \/ Writes(None) /\ NoFault
          \/ UNCHANGED disk /\ Fault

\* The server has refused it: the token is worth nothing.
Refused ==
    /\ refresh.at = "refused"
    /\ auth' = None
    /\ Clears
    /\ Settle
    /\ UNCHANGED server

\* The server cannot be reached, fails, or its answer is lost.
KeepsNothing == Writes(None)
KeepsStored == UNCHANGED disk
RefreshFails ==
    /\ refresh.at # "none"
    /\ Fault
    /\ auth' = None
    /\ KeepsStored
    /\ Settle
    /\ UNCHANGED server

-----------------------------------------------------------------------------
(* The calls *)

Begin(c) == job[c].at = "idle"

Restore(c) ==
    /\ Begin(c)
    /\ \/ /\ auth # None \/ stored = None
          /\ Return(c)
          /\ NoFault /\ UNCHANGED <<auth, disk, refresh>>
       \/ /\ auth = None /\ stored # None
          /\ Joins(c, "restoring") \/ Unread(c)
    /\ UNCHANGED server

\* getDeviceId writes a file with a new device when it cannot read the one there is,
\* and the token in it is gone. (When that write fails too, so does the login.)
ForgetsTheToken == stored # None /\ stored' = None /\ overwritten' = TRUE /\ Fault
GetsDeviceId == ForgetsTheToken \/ (UNCHANGED disk /\ NoFault)

\* The request of a login. The server's answer creates a session of its own.
Login(c) ==
    /\ Begin(c)
    /\ GetsDeviceId
    /\ job' = [job EXCEPT ![c] = Job("logging in", None)]
    /\ UNCHANGED <<auth, refresh, server>>

LoggedIn(c) ==
    /\ job[c].at = "logging in"
    /\ issued' = issued + 1
    /\ Accepts(issued', auth)
    /\ Return(c)
    /\ UNCHANGED <<refresh, rotated, revoked, old>>

LoginFails(c) ==
    /\ job[c].at = "logging in"
    /\ Return(c)
    /\ UNCHANGED <<auth, disk, refresh, server, faults>>

\* logout tells the server when there is anything to tell; a token that cannot be
\* read is not told.
Logout(c) ==
    /\ Begin(c)
    /\ \E token \in {None, stored} :
        /\ IF token = stored THEN NoFault ELSE Fault
        /\ auth # None \/ token # None
        /\ job' = [job EXCEPT ![c] = Job("logging out", token)]
    /\ UNCHANGED <<auth, disk, refresh, server>>

\* Whatever comes of it, the session and the token are gone.
LoggedOut(c) ==
    /\ \/ job[c].at = "logging out" /\ Clears
       \/ Begin(c) /\ auth = None /\ stored = None /\ Clears
       \/ Begin(c) /\ auth = None /\ stored # None /\ Writes(None) /\ Fault
    /\ auth' = None
    /\ Return(c)
    /\ UNCHANGED <<refresh, server>>

\* ensureFreshAccessToken, by the client's clock.
Fetch(c) ==
    /\ Begin(c)
    /\ \/ /\ auth # None
          /\ job' = [job EXCEPT ![c] = Job("fetching", auth)]
          /\ NoFault /\ UNCHANGED <<auth, disk, refresh>>
       \/ /\ auth = None \/ auth \in old
          /\ RefreshFor(c, "refreshing")
    /\ UNCHANGED server

Fetched(c) ==
    /\ job[c].at \in Fetching
    /\ Return(c)
    /\ UNCHANGED <<auth, disk, refresh, server, faults>>

\* 401: another call may have renewed the session meanwhile.
MustRenew(c) == auth = None \/ auth = job[c].token
Unauthorized(c) ==
    /\ job[c].at = "fetching" /\ job[c].token \in old
    /\ \/ /\ MustRenew(c)
          /\ RefreshFor(c, "refreshing again")
       \/ /\ ~MustRenew(c)
          /\ job' = [job EXCEPT ![c] = Job("fetching again", auth)]
          /\ NoFault /\ UNCHANGED <<auth, disk, refresh>>
    /\ UNCHANGED server

\* The desktop is restarted: what is on disk is all that is left.
Restart ==
    /\ Fault
    /\ auth' = None
    /\ refresh' = NoRefresh
    /\ job' = [c \in Callers |-> IF Begin(c) THEN job[c] ELSE Returned]
    /\ UNCHANGED <<disk, server>>

-----------------------------------------------------------------------------
(* The server *)

Rotate ==
    /\ refresh.at = "sent"
    /\ refresh.token \notin rotated \cup revoked
    /\ issued' = issued + 1
    /\ rotated' = rotated \cup {refresh.token}
    /\ refresh' = [refresh EXCEPT !.at = "rotated", !.next = issued']
    /\ UNCHANGED <<auth, disk, job, revoked, old, faults>>

Refuse ==
    /\ refresh.at = "sent"
    /\ refresh.token \in rotated \cup revoked
    /\ refresh' = [refresh EXCEPT !.at = "refused"]
    /\ UNCHANGED <<auth, disk, job, server, faults>>

Revoke(c) ==
    /\ job[c].at = "logging out" /\ job[c].token \in Tokens \ revoked
    /\ revoked' = revoked \cup {job[c].token}
    /\ UNCHANGED <<client, issued, rotated, old, faults>>

Expire(n) ==
    /\ n \in Tokens \ old
    /\ old' = old \cup {n}
    /\ UNCHANGED <<client, issued, rotated, revoked, faults>>

-----------------------------------------------------------------------------

Init == /\ auth = None
        /\ stored \in {None, 1} /\ overwritten = FALSE
        /\ refresh = NoRefresh
        /\ job = [c \in Callers |-> Job("idle", None)]
        /\ issued = stored
        /\ rotated = {} /\ revoked = {} /\ old = {}
        /\ faults = 0

\* What a call does when it is answered, and what the shared refresh does.
Answered(c) == LoggedIn(c) \/ LoginFails(c) \/ LoggedOut(c) \/ Fetched(c) \/ Unauthorized(c)
Refreshing == Rotate \/ Refuse \/ Renewed \/ Refused
Call(c) == Restore(c) \/ Login(c) \/ Logout(c) \/ Fetch(c) \/ Answered(c) \/ Revoke(c)
Next == \/ Refreshing \/ RefreshFails \/ Restart
        \/ \E c \in Callers : Call(c)
        \/ \E n \in Tokens : Expire(n)

\* The server answers what it is asked.
Spec == /\ Init /\ [][Next]_vars
        /\ WF_vars(Refreshing)
        /\ \A c \in Callers : WF_vars(job[c].at # "idle" /\ Answered(c))

-----------------------------------------------------------------------------
(* Properties *)

Jobs == [at : Waiting \cup {"idle", "logging in", "logging out", "returned"} \cup Fetching,
         token : Tokens \cup {None}]

TypeOK ==
    /\ {auth, stored} \subseteq Tokens \cup {None} /\ overwritten \in BOOLEAN
    /\ refresh \in [at : {"none", "sent", "rotated", "refused"},
                    token : Tokens \cup {None}, next : Tokens \cup {None}]
    /\ refresh.at = "sent" => refresh.token # None
    /\ refresh.at = "rotated" => refresh.next # None
    /\ job \in [Callers -> Jobs]
    /\ \A c \in Callers : job[c].at \in Fetching => job[c].token # None
    /\ issued \in Nat /\ faults \in Nat
    /\ rotated \subseteq Tokens /\ revoked \subseteq Tokens /\ old \subseteq Tokens

\* A session in memory can be continued after a restart: its refresh token is the one
\* on disk, whatever was renewed, refused, failed to be written or overtaken by a login
\* or a logout (acceptAuth saves first). Only a login that could not read the file
\* leaves a session without its token, until a token is saved again.
SessionIsStored == auth # None => stored = auth \/ (stored = None /\ overwritten)

\* The server is never shown a token that it has exchanged already, unless an answer
\* was lost or could not be saved: calls that need a new session at the same time
\* share one refresh.
NoTokenIsUsedTwice == refresh.at = "sent" /\ faults = 0 => refresh.token \notin rotated

\* A session is renewed only when its access token is spent: a call refused with the
\* token of an earlier session takes the one that another call has brought.
FreshSessionsAreKept ==
    [][refresh.at = "none" /\ refresh'.at = "sent" => auth \in old \cup {None}]_vars

\* Only a logout, the server's refusal, and a login that cannot read the file forget
\* the stored token; a server that is down or out of reach does not, and neither does
\* any other failed read or write.
OutagesKeepTheToken ==
    [][stored # None /\ stored' = None
       => \/ refresh.at = "refused"
          \/ \E c \in Callers : job[c].at \in {"idle", "logging out"} /\ job'[c] = Returned
          \/ /\ \E c \in Callers : job[c].at = "idle" /\ job'[c].at = "logging in"
             /\ faults' = faults + 1]_vars

\* Every call returns: who waits for a shared refresh is woken by its success and by
\* its failure.
CallsReturn == \A c \in Callers : job[c].at # "idle" ~> job[c].at = "returned"

=============================================================================
