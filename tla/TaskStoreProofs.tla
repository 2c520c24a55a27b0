-------------------------- MODULE TaskStoreProofs --------------------------
(***************************************************************************)
(* Proofs about the desktop's task store, for any tasks, runs and          *)
(* subscriptions and for sessions of any length: the types; that what is   *)
(* late stays with its task, but for three answers; that only the user     *)
(* changes the task on show; that the held subscription feeds it; and that *)
(* a stopped answer is frozen.                                             *)
(***************************************************************************)
EXTENDS TaskStore, FiniteSetTheorems, SequenceTheorems, WellFoundedInduction, TLAPS

-----------------------------------------------------------------------------
(* Choices *)

LEMMA LeastOf ==
    ASSUME NEW S, S \subseteq Nat, S # {}
    PROVE  Min(S) \in S /\ \A y \in S : Min(S) <= y
<1>1. PICK n \in S : \A i \in S : ~(<<i, n>> \in OpToRel(<, Nat))
  BY WFMin, NatLessThanWellFounded, Zenon
<1>2. \A i \in S : n <= i
  <2> SUFFICES ASSUME NEW i \in S  PROVE n <= i
    OBVIOUS
  <2>1. i \in Nat /\ n \in Nat
    OBVIOUS
  <2>2. ~(i < n)
    BY <1>1, <2>1 DEF OpToRel
  <2> QED  BY <2>1, <2>2
<1> QED  BY <1>2 DEF Min

LEMMA SubscriptionIsFree ==
    ASSUME CanSubscribe
    PROVE  NewSub \in Subs /\ IsFree(NewSub)
<1> DEFINE Free == {s \in Subs : IsFree(s)}
<1>1. Free # {} /\ Free \subseteq Nat
  BY NamesAssumption DEF CanSubscribe
<1>2. Min(Free) \in Free
  <2> HIDE DEF Free
  <2> QED  BY <1>1, LeastOf
<1> QED  BY <1>2 DEF NewSub

LEMMA RunIsNew ==
    ASSUME NewRuns # {}
    PROVE  NewRun \in Runs /\ run[NewRun].status = "new"
<1>1. NewRuns \subseteq Nat
  BY NamesAssumption DEF NewRuns
<1>2. NewRun \in NewRuns
  BY <1>1, LeastOf DEF NewRun
<1> QED  BY <1>2 DEF NewRuns

LEMMA FinitelyManyValues ==
    ASSUME NEW S, IsFiniteSet(S), NEW f
    PROVE  IsFiniteSet({f[x] : x \in S})
<1> DEFINE T == {f[x] : x \in S}
           g == [x \in S |-> f[x]]
<1>1. g \in Surjection(S, T)
  BY DEF Surjection
<1> HIDE DEF T, g
<1>2. IsFiniteSet(T)
  BY <1>1, FS_Surjection
<1> QED  BY <1>2 DEF T

\* A usage that is nobody's, of finitely many.
LEMMA UsageIsFresh ==
    ASSUME IsFiniteSet(work)
    PROVE  FreshUsage \in Nat /\ FreshUsage \notin Usages
<1>1. IsFiniteSet(Usages)
  <2>1. IsFiniteSet({cache[t].usage : t \in Tasks})
    <3> DEFINE f == [t \in Tasks |-> cache[t].usage]
    <3>1. IsFiniteSet({f[t] : t \in Tasks})
      <4> HIDE DEF f
      <4> QED  BY FiniteAssumption, FinitelyManyValues
    <3>2. {f[t] : t \in Tasks} = {cache[t].usage : t \in Tasks}
      OBVIOUS
    <3> QED  BY <3>1, <3>2
  <2>2. IsFiniteSet({j \in work : j.op = "settle"})
    BY FS_Subset
  <2>3. IsFiniteSet({j.usage : j \in {j \in work : j.op = "settle"}})
    <3> DEFINE Ends == {j \in work : j.op = "settle"}
               f == [j \in Ends |-> j.usage]
    <3>1. IsFiniteSet({f[j] : j \in Ends})
      <4> HIDE DEF f
      <4> QED  BY <2>2, FinitelyManyValues
    <3>2. {f[j] : j \in Ends} = {j.usage : j \in Ends}
      OBVIOUS
    <3> QED  BY <3>1, <3>2
  <2>4. IsFiniteSet({ui.usage})
    BY FS_Singleton
  <2> QED  BY <2>1, <2>3, <2>4, FS_Union DEF Usages
<1> DEFINE size == Cardinality(Usages)
<1>2. size \in Nat
  BY <1>1, FS_CardinalityType
<1>3. ~(1..(size + 1) \subseteq Usages)
  <2> SUFFICES ASSUME 1..(size + 1) \subseteq Usages  PROVE FALSE
    OBVIOUS
  <2>1. Cardinality(1..(size + 1)) <= size
    BY <1>1, FS_Subset
  <2>2. Cardinality(1..(size + 1)) = size + 1
    BY <1>2, FS_Interval
  <2> QED  BY <1>2, <2>1, <2>2
<1>4. \E n \in 1..(size + 1) : n \notin Usages
  BY <1>3
<1>5. FreshUsage \in 1..(size + 1) /\ FreshUsage \notin Usages
  BY <1>4 DEF FreshUsage
<1> QED  BY <1>2, <1>5

-----------------------------------------------------------------------------
(* What the operators on views, subscriptions and jobs keep *)

LEMMA SnapshotsGrow ==
    ASSUME NEW S, NEW T, S \subseteq T
    PROVE  /\ Snapshots(S) \subseteq Snapshots(T) /\ RunSnapshots(S) \subseteq RunSnapshots(T)
           /\ Texts(S) \subseteq Texts(T)
<1>1. Texts(S) \subseteq Texts(T)
  BY DEF Texts
<1> QED  BY <1>1 DEF Snapshots, RunSnapshots

LEMMA MessagesGrow ==
    ASSUME NEW S, NEW T, S \subseteq T
    PROVE  SomeMessages(S) \subseteq SomeMessages(T)
BY SnapshotsGrow DEF SomeMessages

LEMMA ViewsGrow ==
    ASSUME NEW S, NEW T, S \subseteq T
    PROVE  SomeViews(S) \subseteq SomeViews(T)
BY SnapshotsGrow DEF SomeViews

LEMMA SubscriptionsGrow ==
    ASSUME NEW S, NEW T, S \subseteq T
    PROVE  Subscriptions(S) \subseteq Subscriptions(T)
BY SnapshotsGrow DEF Subscriptions

LEMMA JobsGrow ==
    ASSUME NEW S, NEW T, S \subseteq T
    PROVE  Jobs(S) \subseteq Jobs(T)
<1>1. OpenJobs(S) \subseteq OpenJobs(T) /\ SettleJobs(S) \subseteq SettleJobs(T)
  BY SnapshotsGrow, MessagesGrow DEF OpenJobs, SettleJobs
<1>2. StopJobs(S) \subseteq StopJobs(T) /\ ResumeJobs(S) \subseteq ResumeJobs(T)
  BY SnapshotsGrow, MessagesGrow DEF StopJobs, ResumeJobs
<1>3. CompactJobs(S) \subseteq CompactJobs(T) /\ ProbeJobs(S) \subseteq ProbeJobs(T)
  BY SnapshotsGrow, MessagesGrow DEF CompactJobs, ProbeJobs
<1> QED  BY <1>1, <1>2, <1>3 DEF Jobs

LEMMA NoMessagesType == ASSUME NEW S  PROVE NoMessages \in SomeMessages(S)
BY DEF NoMessages, SomeMessages, Grows, Texts

LEMMA BlankType == ASSUME NEW S  PROVE Blank \in SomeViews(S) /\ Blank.task = None
BY DEF Blank, SomeViews, Grows, Texts, Snapshots, NoRun

LEMMA MessagesType ==
    ASSUME NEW S, NEW v \in SomeViews(S)
    PROVE  Messages(v) \in SomeMessages(S)
BY DEF Messages, SomeViews, SomeMessages, Grows

LEMMA TextOfType ==
    ASSUME NEW S, NEW m, m.past \in Texts(S), m.answer \in Texts(S)
    PROVE  TextOf(m) \in Texts(S)
<1>1. ASSUME NEW T, NEW p \in Seq(T), NEW q \in Seq(T)  PROVE p \o q \in Seq(T)
  OBVIOUS
<1> QED  BY <1>1 DEF TextOf, Texts

LEMMA ShowingType ==
    ASSUME NEW S, NEW v \in SomeViews(S), NEW m \in SomeMessages(S)
    PROVE  Showing(v, m) \in SomeViews(S) /\ Showing(v, m).task = v.task
BY DEF Showing, SomeViews, SomeMessages, Grows

LEMMA WithNewAnswerType ==
    ASSUME NEW S, NEW v \in SomeViews(S)
    PROVE  WithNewAnswer(v) \in SomeViews(S) /\ WithNewAnswer(v).task = v.task
<1>1. v.past \o v.answer \in Texts(S) /\ <<>> \in Texts(S)
  <2>1. v.past \in Texts(S) /\ v.answer \in Texts(S)
    BY DEF SomeViews
  <2> QED  BY <2>1 DEF Texts
<1> QED  BY <1>1 DEF WithNewAnswer, SomeViews, Grows

LEMMA TextShownType ==
    ASSUME NEW S, NEW v \in SomeViews(S), NEW t, NEW d, v.task = t => d \in Texts(S)
    PROVE  TextShown(v, t, d) \in SomeViews(S) /\ TextShown(v, t, d).task = v.task
<1>1. CASE v.task = t /\ ~v.pausing /\ v.open
  <2>1. v.answer \o d \in Texts(S)
    <3>1. v.answer \in Texts(S) /\ d \in Texts(S)
      BY <1>1 DEF SomeViews
    <3> QED  BY <3>1 DEF Texts
  <2> QED  BY <1>1, <2>1 DEF TextShown, SomeViews, Grows
<1>2. CASE ~(v.task = t /\ ~v.pausing /\ v.open)
  BY <1>2 DEF TextShown
<1> QED  BY <1>1, <1>2

LEMMA WithStatusType ==
    ASSUME NEW S, NEW x \in Snapshots(S), NEW status \in Statuses, None \notin S
    PROVE  WithStatus(x, status) \in Snapshots(S)
BY DEF WithStatus, Snapshots, RunSnapshots, NoRun

LEMMA EndShownType ==
    ASSUME NEW S, None \notin S, NEW v \in SomeViews(S), NEW t, NEW event \in Ending
    PROVE  EndShown(v, t, event) \in SomeViews(S) /\ EndShown(v, t, event).task = v.task
<1>1. EndStatus[event] \in Statuses
  BY DEF EndStatus, Ending, Statuses, ActiveStatuses
<1>2. v.run \in Snapshots(S)
  BY DEF SomeViews
<1>3. WithStatus(v.run, EndStatus[event]) \in Snapshots(S)
  BY <1>1, <1>2, WithStatusType
<1>4. CASE v.task # t \/ event = "failed"
  BY <1>4 DEF EndShown
<1>5. CASE ~(v.task # t \/ event = "failed")
  BY <1>3, <1>5 DEF EndShown, SomeViews, Grows
<1> QED  BY <1>4, <1>5

LEMMA EnvelopedType ==
    ASSUME NEW S, NEW v \in SomeViews(S), v.run.id # None, NEW n \in Nat,
           NEW event \in {"text", "held"} \cup Closing
    PROVE  Enveloped(v, event, n) \in SomeViews(S) /\ Enveloped(v, event, n).task = v.task
<1> DEFINE status == IF event = "text" THEN v.run.status ELSE EndStatus[event]
<1>1. v.run \in RunSnapshots(S)
  BY DEF SomeViews, Snapshots, NoRun
<1>2. status \in Statuses
  BY <1>1 DEF EndStatus, Ending, Closing, Statuses, ActiveStatuses, RunSnapshots
<1>3. [v.run EXCEPT !.status = status, !.cursor = n] \in Snapshots(S)
  BY <1>1, <1>2 DEF Snapshots, RunSnapshots
<1> DEFINE pausing == event = "text" /\ v.run.status # "PAUSED"
                      /\ (v.pausing \/ v.run.status = "PAUSING")
           ended == status \in {"COMPLETED", "FAILED", "PAUSED"}
           w == [v EXCEPT !.run = [v.run EXCEPT !.status = status, !.cursor = n],
                          !.pausing = pausing,
                          !.chatting = v.chatting /\ ~ended /\ ~pausing,
                          !.stopped = (status = "PAUSED")]
<1>4. Enveloped(v, event, n) = w
  BY <1>1 DEF Enveloped, SomeViews, RunSnapshots
<1>5. pausing \in BOOLEAN /\ ended \in BOOLEAN
  BY DEF SomeViews
<1>6. w \in SomeViews(S) /\ w.task = v.task
  <2>1. v.chatting \in BOOLEAN /\ (v.chatting /\ ~ended /\ ~pausing) \in BOOLEAN
    BY DEF SomeViews
  <2> HIDE DEF status, pausing, ended
  <2> QED  BY <1>3, <1>5, <2>1 DEF SomeViews, Grows
<1> QED  BY <1>4, <1>6

LEMMA ReconciledType ==
    ASSUME NEW S, NEW v \in SomeViews(S), NEW page \in SomeMessages(S), NEW keepLive
    PROVE  /\ Reconciled(v, page, keepLive) \in SomeViews(S)
           /\ Reconciled(v, page, keepLive).task = v.task
<1> DEFINE m == [past |-> page.past, answer |-> v.answer, open |-> TRUE]
<1>1. m \in SomeMessages(S)
  BY DEF SomeMessages, SomeViews, Grows
<1> QED  BY <1>1, ShowingType DEF Reconciled

-----------------------------------------------------------------------------
(* Subscriptions: a function that fits stays so when some of it is given up *)

AllFit(f, owned) == \A s \in Subs : f[s] \in Subscriptions(owned[f[s].task])

LEMMA SubscriptionParts ==
    ASSUME NEW S, NEW x \in Subscriptions(S)
    PROVE  /\ x.run \in S \cup {None} /\ x.pos \in Nat /\ x.batch \in Texts(S)
           /\ x.task \in Tasks \cup {None}
           /\ x.posting \in BOOLEAN /\ x.listening \in BOOLEAN /\ x.calling \in BOOLEAN
           /\ x.posting \/ x.listening \/ x.calling \/ x.batch # <<>> => x.task \in Tasks
<1>1. <<>> \in Texts(S)
  BY DEF Texts
<1>2. CASE x.kind = "idle"
  <2>1. /\ x.task = None /\ x.run = None /\ x.pos = 0 /\ x.batch = <<>>
        /\ x.posting = FALSE /\ x.listening = FALSE /\ x.calling = FALSE
    BY <1>2 DEF Subscriptions, Kinds
  <2>2. x.posting \in BOOLEAN /\ x.listening \in BOOLEAN /\ x.calling \in BOOLEAN
    BY <2>1
  <2>3. ~(x.posting \/ x.listening \/ x.calling \/ x.batch # <<>>)
    BY <2>1, Zenon
  <2>4. x.run \in S \cup {None} /\ x.pos \in Nat /\ x.batch \in Texts(S) /\ x.task \in Tasks \cup {None}
    BY <1>1, <2>1
  <2> QED  BY <2>2, <2>3, <2>4, Zenon
<1>3. CASE x.kind # "idle"
  BY <1>3 DEF Subscriptions
<1> QED  BY <1>2, <1>3

LEMMA IdleSubscription == ASSUME NEW S  PROVE IdleSub \in Subscriptions(S)
BY DEF IdleSub, Subscriptions

LEMMA QuietSubscription ==
    ASSUME NEW S, NEW x \in Subscriptions(S)
    PROVE  LET y == [x EXCEPT !.listening = FALSE, !.batch = <<>>]
               z == [x EXCEPT !.batch = <<>>]
               c == [x EXCEPT !.calling = FALSE]
               p == [x EXCEPT !.posting = FALSE]
               q == [x EXCEPT !.posting = FALSE, !.listening = FALSE]
           IN  /\ y \in Subscriptions(S) /\ y.task = x.task
               /\ z \in Subscriptions(S) /\ z.task = x.task
               /\ c \in Subscriptions(S) /\ c.task = x.task
               /\ p \in Subscriptions(S) /\ p.task = x.task
               /\ q \in Subscriptions(S) /\ q.task = x.task
<1>1. <<>> \in Texts(S)
  BY DEF Texts
<1>2. CASE x.kind = "idle"
  BY <1>2 DEF Subscriptions, Kinds
<1>3. CASE x.kind # "idle"
  BY <1>1, <1>3 DEF Subscriptions
<1> QED  BY <1>2, <1>3

LEMMA GivenUpFit ==
    ASSUME NEW f, NEW owned, AllFit(f, owned), NEW x
    PROVE  /\ AllFit(Unsubscribed(f, x), owned)
           /\ AllFit(Unbatched(f, x), owned)
           /\ AllFit(Resolved(f, x), owned)
<1>1. ASSUME NEW s \in Subs
      PROVE  /\ Unsubscribed(f, x)[s] \in Subscriptions(owned[Unsubscribed(f, x)[s].task])
             /\ Unbatched(f, x)[s] \in Subscriptions(owned[Unbatched(f, x)[s].task])
             /\ Resolved(f, x)[s] \in Subscriptions(owned[Resolved(f, x)[s].task])
  <2>1. f[s] \in Subscriptions(owned[f[s].task])
    BY DEF AllFit
  <2> QED  BY <2>1, QuietSubscription DEF Unsubscribed, Unbatched, Resolved
<1> QED  BY <1>1 DEF AllFit

LEMMA TurnOfSubscription ==
    ASSUME NEW S, NEW x \in Subscriptions(S), x.kind # "idle", NEW turn \in Runs \cup {None}
    PROVE  /\ [x EXCEPT !.turn = turn] \in Subscriptions(S)
           /\ [x EXCEPT !.turn = turn].task = x.task
BY DEF Subscriptions

LEMMA NewSubscription ==
    ASSUME NEW S, NEW kind \in Kinds, NEW t \in Tasks,
           NEW r \in S \cup {None}, NEW pos \in Nat
    PROVE  /\ Subscription(kind, t, r, pos) \in Subscriptions(S)
           /\ Subscription(kind, t, r, pos).task = t
           /\ Subscription(kind, t, r, pos).kind # "idle"
<1> DEFINE posting == r = None
           calling == kind # "open"
           new == [kind |-> kind, task |-> t, run |-> r, turn |-> None, pos |-> pos,
                   batch |-> <<>>, posting |-> posting, listening |-> TRUE,
                   calling |-> calling]
<1>1. posting \in BOOLEAN /\ calling \in BOOLEAN /\ <<>> \in Texts(S)
  BY DEF Texts
<1>2. Subscription(kind, t, r, pos) = new
  BY DEF Subscription
<1>3. new \in Subscriptions(S) /\ new.task = t /\ new.kind # "idle"
  <2> HIDE DEF posting, calling
  <2> QED  BY <1>1 DEF Subscriptions, Kinds
<1> QED  BY <1>2, <1>3

LEMMA StartedSubscription ==
    ASSUME NEW S, NEW kind \in Kinds, NEW t \in Tasks,
           NEW r \in S \cup {None}, NEW pos \in Nat, NEW turn \in Runs \cup {None}
    PROVE  LET x == [Subscription(kind, t, r, pos) EXCEPT !.turn = turn]
           IN  x \in Subscriptions(S) /\ x.task = t
<1> DEFINE x == Subscription(kind, t, r, pos)
<1>1. x \in Subscriptions(S) /\ x.task = t /\ x.kind # "idle"
  BY NewSubscription
<1> HIDE DEF x
<1>2. [x EXCEPT !.turn = turn] \in Subscriptions(S) /\ [x EXCEPT !.turn = turn].task = t
  BY <1>1, TurnOfSubscription
<1> QED  BY <1>2 DEF x

-----------------------------------------------------------------------------
(* Jobs *)

LEMMA JobKinds ==
    ASSUME NEW S, NEW j \in Jobs(S)
    PROVE  /\ j.task \in Tasks
           /\ j.op = "open" => j \in OpenJobs(S)
           /\ j.op = "settle" => j \in SettleJobs(S)
           /\ j.op = "stop" => j \in StopJobs(S)
           /\ j.op = "resume" => j \in ResumeJobs(S)
           /\ j.op = "compact" => j \in CompactJobs(S)
           /\ j.op = "probe" => j \in ProbeJobs(S)
           /\ j.op = "enqueue" => j \in EnqueueJobs
           /\ j.op = "follow" => j \in FollowJobs
           /\ j.op = "create" => j \in CreateJobs
BY DEF Jobs, OpenJobs, SettleJobs, StopJobs, ResumeJobs, CompactJobs, ProbeJobs, EnqueueJobs,
       FollowJobs, CreateJobs

LEMMA NewJobs ==
    ASSUME NEW S, NEW t \in Tasks
    PROVE  /\ \A fresh \in BOOLEAN : OpenJob(t, fresh) \in Jobs(S)
           /\ ProbeJob(t) \in Jobs(S) /\ CreateJob(t) \in Jobs(S) /\ CompactJob(t) \in Jobs(S)
           /\ EnqueueJob(t) \in Jobs(S)
           /\ \A r \in Runs \cup {None}, tries \in Nat : FollowJob(t, r, tries) \in Jobs(S)
<1>1. NoMessages \in SomeMessages(S) /\ NoRun \in Snapshots(S)
  BY NoMessagesType DEF Snapshots
<1>2. \A fresh \in BOOLEAN : OpenJob(t, fresh) \in OpenJobs(S)
  BY <1>1 DEF OpenJob, OpenJobs
<1>3. ProbeJob(t) \in ProbeJobs(S) /\ CompactJob(t) \in CompactJobs(S)
  BY <1>1 DEF ProbeJob, ProbeJobs, CompactJob, CompactJobs
<1>4. CreateJob(t) \in CreateJobs /\ EnqueueJob(t) \in EnqueueJobs
  BY DEF CreateJob, CreateJobs, EnqueueJob, EnqueueJobs
<1>5. \A r \in Runs \cup {None}, tries \in Nat : FollowJob(t, r, tries) \in FollowJobs
  BY DEF FollowJob, FollowJobs
<1> QED  BY <1>2, <1>3, <1>4, <1>5 DEF Jobs

LEMMA NewStopJob ==
    ASSUME NEW S, NEW t \in Tasks, NEW x \in Snapshots(S)
    PROVE  /\ StopJob(t, "finding", x) \in Jobs(S)
           /\ x # NoRun => StopJob(t, "pausing", x) \in Jobs(S)
<1>1. NoMessages \in SomeMessages(S)
  BY NoMessagesType
<1>2. StopJob(t, "finding", x) \in StopJobs(S)
  BY <1>1 DEF StopJob, StopJobs
<1>3. ASSUME x # NoRun  PROVE StopJob(t, "pausing", x) \in StopJobs(S)
  <2>1. x \in RunSnapshots(S)
    BY <1>3 DEF Snapshots
  <2> QED  BY <1>1, <2>1 DEF StopJob, StopJobs
<1> QED  BY <1>2, <1>3 DEF Jobs

LEMMA NewSettleJob ==
    ASSUME NEW S, NEW t \in Tasks, NEW v \in SomeViews(S), NEW s \in Subs, NEW event \in Ending
    PROVE  SettleJob(s, t, event, v) \in Jobs(S)
<1>1. NoMessages \in SomeMessages(S)
  BY NoMessagesType
<1>2. v.run \in Snapshots(S) /\ v.usage \in Nat
  BY DEF SomeViews
<1>3. SettleJob(s, t, event, v) \in SettleJobs(S)
  BY <1>1, <1>2 DEF SettleJob, SettleJobs
<1> QED  BY <1>3 DEF Jobs

-----------------------------------------------------------------------------
(* The types of what is not a view, a message, a subscription or a job *)

Logs == Seq({"text", "held"} \cup Closing)

RunsTyped ==
    /\ run \in [Runs -> [task : Tasks \cup {None}, status : Statuses \cup {"new"},
                         log : Logs, text : Texts(Runs), replay : Nat]]
    /\ \A r \in Runs : /\ run[r].status = "new" <=> run[r].task = None
                       /\ run[r].text \in Texts({r})
CoreTyped == /\ RunsTyped
             /\ queued \in [Tasks -> Nat] /\ existing \subseteq Tasks
             /\ DOMAIN saved = Tasks
StoreTyped == /\ DOMAIN cache = Tasks /\ DOMAIN sub = Subs
              /\ {current, resolver} \subseteq Subs \cup {None}
              /\ asked \in Sessions \cup {<<>>}
              /\ IsFiniteSet(work)
Plain == CoreTyped /\ StoreTyped

LEMMA TypesAreParts == TypeOK /\ IsFiniteSet(work) <=> Plain /\ Fits(AnyRuns)
BY DEF TypeOK, Plain, CoreTyped, RunsTyped, StoreTyped, Logs

\* owned[t]: runs that have begun, and all of t's.
Family(owned) == /\ owned \in [Tasks \cup {None} -> SUBSET Started]
                 /\ \A t \in Tasks : RunsOf(t) \subseteq owned[t]
Within(F, G) == \A t \in Tasks \cup {None} : F[t] \subseteq G[t]

LEMMA FamilyTypes ==
    ASSUME Plain, NEW F, Family(F), NEW t \in Tasks \cup {None}
    PROVE  F[t] \subseteq Runs /\ None \notin F[t] /\ F[t] \subseteq Started
<1>1. F[t] \subseteq Started
  BY DEF Family
<1> QED  BY <1>1, NoneAssumption DEF Started

LEMMA RunTypes ==
    ASSUME Plain, NEW r \in Runs
    PROVE  /\ run[r].task \in Tasks \cup {None} /\ run[r].status \in Statuses \cup {"new"}
           /\ run[r].log \in Logs /\ run[r].text \in Texts({r}) /\ run[r].replay \in Nat
           /\ Len(run[r].log) \in Nat
           /\ run[r].status = "new" <=> run[r].task = None
<1>1. run[r] \in [task : Tasks \cup {None}, status : Statuses \cup {"new"},
                 log : Logs, text : Texts(Runs), replay : Nat]
  BY DEF Plain, CoreTyped, RunsTyped
<1>2. run[r].log \in Logs
  BY <1>1
<1>3. Len(run[r].log) \in Nat
  BY <1>2 DEF Logs
<1>4. run[r].text \in Texts({r}) /\ (run[r].status = "new" <=> run[r].task = None)
  BY DEF Plain, CoreTyped, RunsTyped
<1> QED  BY <1>1, <1>3, <1>4

LEMMA SnapshotType ==
    ASSUME Plain, NEW r \in Started
    PROVE  Snapshot(r) \in RunSnapshots({r})
<1>1. r \in Runs /\ run[r].status # "new"
  BY DEF Started
<1>2. run[r].status \in Statuses /\ Len(run[r].log) \in Nat /\ run[r].replay \in Nat
  BY <1>1, RunTypes
<1> QED  BY <1>2 DEF Snapshot, RunSnapshots

LEMMA ActiveRunType ==
    ASSUME Plain, NEW F, Family(F), NEW t \in Tasks
    PROVE  /\ ActiveRun(t) \in Snapshots(F[t])
           /\ IsPausableRun(ActiveRun(t)) => ActiveRun(t) \in RunSnapshots(F[t])
<1>1. CASE ActiveRuns(t) = {}
  <2>1. ActiveRun(t) = NoRun
    BY <1>1 DEF ActiveRun
  <2> QED  BY <2>1 DEF Snapshots, IsPausableRun, NoRun
<1>2. CASE ActiveRuns(t) # {}
  <2>1. PICK r \in ActiveRuns(t) : ActiveRun(t) = Snapshot(r)
    BY <1>2 DEF ActiveRun
  <2>2. r \in Runs /\ run[r].task = t /\ run[r].status # "new"
    BY <2>1 DEF ActiveRuns, IsActive, ActiveStatuses
  <2>3. r \in F[t] /\ r \in Started
    BY <2>2 DEF Family, RunsOf, Started
  <2>4. Snapshot(r) \in RunSnapshots(F[t])
    BY <2>3, SnapshotType, SnapshotsGrow
  <2> QED  BY <2>1, <2>4 DEF Snapshots
<1> QED  BY <1>1, <1>2

-----------------------------------------------------------------------------
(* The Core's steps keep their types, and the runs of each task only grow *)

\* A run that has begun keeps its task.
RunsKeepTasks ==
    \A r \in Runs : run[r].status # "new"
                    => run'[r].status # "new" /\ run'[r].task = run[r].task

LEMMA FamiliesGrow ==
    ASSUME Plain, RunsKeepTasks
    PROVE  /\ Started \subseteq Started'
           /\ \A t \in Tasks : RunsOf(t) \subseteq RunsOf(t)'
<1>1. \A t \in Tasks : RunsOf(t) \subseteq Started
  <2> SUFFICES ASSUME NEW t \in Tasks, NEW r \in RunsOf(t)  PROVE r \in Started
    OBVIOUS
  <2>1. r \in Runs /\ run[r].task = t /\ t # None
    BY NoneAssumption DEF RunsOf
  <2> QED  BY <2>1, RunTypes DEF Started
<1> QED  BY <1>1 DEF RunsKeepTasks, Started, RunsOf

\* Of one run something changes, but not its task.
LEMMA RunChanges ==
    ASSUME Plain, NEW r \in Started, run' = [x \in Runs |-> run'[x]],
           run'[r] \in [task : {run[r].task}, status : Statuses, log : Logs,
                       text : Texts({r}), replay : Nat],
           \A x \in Runs \ {r} : run'[x] = run[x]
    PROVE  RunsTyped' /\ RunsKeepTasks
<1> DEFINE Record == [task : Tasks \cup {None}, status : Statuses \cup {"new"},
                      log : Logs, text : Texts(Runs), replay : Nat]
<1>1. r \in Runs /\ run[r].status # "new" /\ run[r].task \in Tasks /\ run[r].task # None
  BY RunTypes, NoneAssumption DEF Started
<1>2. Texts({r}) \subseteq Texts(Runs)
  BY <1>1, SnapshotsGrow
<1>3. \A status \in Statuses : status # "new"
  BY DEF Statuses, ActiveStatuses
<1>4. run'[r] \in Record
  BY <1>1, <1>2
<1>5. \A x \in Runs : run'[x] \in Record
  <2>1. \A x \in Runs : run[x] \in Record
    BY DEF Plain, CoreTyped, RunsTyped
  <2> HIDE DEF Record
  <2> QED  BY <1>4, <2>1
<1>6. run' \in [Runs -> Record]
  <2> HIDE DEF Record
  <2> QED  BY <1>5
<1>7. \A x \in Runs : /\ run'[x].status = "new" <=> run'[x].task = None
                     /\ run'[x].text \in Texts({x})
  <2> SUFFICES ASSUME NEW x \in Runs
               PROVE  /\ run'[x].status = "new" <=> run'[x].task = None
                      /\ run'[x].text \in Texts({x})
    OBVIOUS
  <2>1. CASE x = r
    <3>1. run'[r].task = run[r].task /\ run'[r].status \in Statuses /\ run'[r].text \in Texts({r})
      OBVIOUS
    <3> QED  BY <1>1, <1>3, <2>1, <3>1
  <2>2. CASE x # r
    BY <2>2, RunTypes
  <2> QED  BY <2>1, <2>2
<1>8. RunsKeepTasks
  <2>1. run'[r].task = run[r].task /\ run'[r].status \in Statuses
    OBVIOUS
  <2> QED  BY <1>1, <1>3, <2>1 DEF RunsKeepTasks
<1> QED  BY <1>6, <1>7, <1>8 DEF RunsTyped

LEMMA RunRecord ==
    ASSUME Plain, NEW r \in Started
    PROVE  /\ r \in Runs /\ DOMAIN run = Runs
           /\ run[r] \in [task : {run[r].task}, status : Statuses, log : Logs,
                          text : Texts({r}), replay : Nat]
<1>1. r \in Runs /\ run[r].status # "new"
  BY DEF Started
<1>2. run[r] \in [task : Tasks \cup {None}, status : Statuses \cup {"new"},
                log : Logs, text : Texts(Runs), replay : Nat]
      /\ DOMAIN run = Runs
  BY <1>1 DEF Plain, CoreTyped, RunsTyped
<1>3. run[r].text \in Texts({r})
  BY <1>1, RunTypes
<1> QED  BY <1>1, <1>2, <1>3

LEMMA RunEndsTyped ==
    ASSUME Plain, NEW r \in Started, NEW event \in {"text", "held"} \cup Closing,
           NEW status \in Statuses, RunEnds(r, event, status)
    PROVE  RunsTyped' /\ RunsKeepTasks
<1>1. Append(run[r].log, event) \in Logs
  <2>1. run[r].log \in Logs
    BY RunRecord
  <2> QED  BY <2>1 DEF Logs
<1>2. run'[r] \in [task : {run[r].task}, status : Statuses, log : Logs,
                 text : Texts({r}), replay : Nat]
  <2> DEFINE x == run[r]
             y == [x EXCEPT !.status = status, !.log = Append(@, event)]
  <2>1. run'[r] = y
    BY RunRecord DEF RunEnds
  <2>2. x.log = run[r].log /\ x \in [task : {x.task}, status : Statuses, log : Logs,
                                    text : Texts({r}), replay : Nat]
    BY RunRecord
  <2> HIDE DEF x
  <2>3. y \in [task : {x.task}, status : Statuses, log : Logs,
               text : Texts({r}), replay : Nat]
    BY <1>1, <2>2
  <2> QED  BY <2>1, <2>3 DEF x
<1>3. run' = [x \in Runs |-> run'[x]] /\ \A x \in Runs \ {r} : run'[x] = run[x]
  BY RunRecord DEF RunEnds
<1> QED  BY <1>2, <1>3, RunChanges

LEMMA RunBeginsTyped ==
    ASSUME Plain, NEW t \in Tasks, NEW texts, RunBeginsAfter(t, texts)
    PROVE  /\ RunsTyped' /\ RunsKeepTasks /\ DOMAIN saved' = Tasks
           /\ NewRun \in Runs /\ NewRun \in RunsOf(t)'
           /\ saved' = [saved EXCEPT ![t] = [past |-> texts, answer |-> <<>>, open |-> FALSE]]
<1> DEFINE new == [task |-> t, status |-> "RUNNING", log |-> <<>>, text |-> <<>>, replay |-> 0]
           Record == [task : Tasks \cup {None}, status : Statuses \cup {"new"},
                      log : Logs, text : Texts(Runs), replay : Nat]
<1>1. NewRun \in Runs /\ run[NewRun].status = "new"
  BY RunIsNew DEF RunBeginsAfter
<1>2. run \in [Runs -> Record] /\ DOMAIN saved = Tasks
  BY DEF Plain, CoreTyped, RunsTyped
<1>3. run' = [run EXCEPT ![NewRun] = new]
      /\ saved' = [saved EXCEPT ![t] = [past |-> texts, answer |-> <<>>, open |-> FALSE]]
  BY DEF RunBeginsAfter
<1>4. new \in Record
  BY DEF Logs, Texts, Statuses, ActiveStatuses
<1>5. run' \in [Runs -> Record]
  <2> HIDE DEF new, Record
  <2> QED  BY <1>1, <1>2, <1>3, <1>4
<1>6. run'[NewRun] = new /\ \A x \in Runs \ {NewRun} : run'[x] = run[x]
  <2> HIDE DEF new, Record
  <2> QED  BY <1>1, <1>2, <1>3
<1>7. \A x \in Runs : /\ run'[x].status = "new" <=> run'[x].task = None
                     /\ run'[x].text \in Texts({x})
  <2> SUFFICES ASSUME NEW x \in Runs
               PROVE  /\ run'[x].status = "new" <=> run'[x].task = None
                      /\ run'[x].text \in Texts({x})
    OBVIOUS
  <2>1. CASE x = NewRun
    <3>1. new.status # "new" /\ new.task # None /\ new.text \in Texts({x})
      BY NoneAssumption DEF Texts
    <3> HIDE DEF new
    <3> QED  BY <1>6, <2>1, <3>1
  <2>2. CASE x # NewRun
    BY <1>6, <2>2, RunTypes
  <2> QED  BY <2>1, <2>2
<1>8. RunsKeepTasks
  <2> HIDE DEF new
  <2> QED  BY <1>1, <1>6 DEF RunsKeepTasks
<1>9. NewRun \in RunsOf(t)'
  <2>1. run'[NewRun].task = t
    BY <1>6
  <2> QED  BY <1>1, <2>1 DEF RunsOf
<1> QED  BY <1>1, <1>2, <1>3, <1>5, <1>7, <1>8, <1>9 DEF RunsTyped

LEMMA EmitTextTyped ==
    ASSUME Plain, NEW r \in Runs, EmitText(r)
    PROVE  RunsTyped' /\ RunsKeepTasks
<1>1. r \in Started
  BY DEF EmitText, Started
<1> DEFINE n == Len(run[r].log) + 1
           x == run[r]
<1>2. Append(x.log, "text") \in Logs /\ n \in Nat
  <2>1. run[r].log \in Logs /\ Len(run[r].log) \in Nat
    BY RunTypes
  <2> QED  BY <2>1 DEF Logs
<1>3. Append(x.text, <<r, n>>) \in Texts({r})
  <2>1. run[r].text \in Texts({r})
    BY RunTypes
  <2> QED  BY <1>2, <2>1 DEF Texts
<1>4. run' = [run EXCEPT ![r].log = Append(@, "text"), ![r].text = Append(@, <<r, n>>)]
  BY DEF EmitText
<1>5. run'[r] = [x EXCEPT !.log = Append(@, "text"), !.text = Append(@, <<r, n>>)]
  BY <1>1, <1>4, RunRecord
<1>6. x \in [task : {x.task}, status : Statuses, log : Logs, text : Texts({r}), replay : Nat]
  BY <1>1, RunRecord
<1>7. run'[r] \in [task : {x.task}, status : Statuses, log : Logs, text : Texts({r}),
                 replay : Nat]
  <2> HIDE DEF x, n
  <2> QED  BY <1>2, <1>3, <1>5, <1>6
<1>8. run' = [y \in Runs |-> run'[y]] /\ \A y \in Runs \ {r} : run'[y] = run[y]
  BY <1>1, <1>4, RunRecord
<1> QED  BY <1>1, <1>7, <1>8, RunChanges

-----------------------------------------------------------------------------
(* Every step keeps these types *)

LEMMA CoreStays ==
    ASSUME Plain, UNCHANGED core
    PROVE  CoreTyped' /\ RunsKeepTasks
BY DEF Plain, CoreTyped, RunsTyped, RunsKeepTasks, core

LEMMA FiniteJobs ==
    /\ \A condition, job : IsFiniteSet(When(condition, job))
    /\ \A s : IsFiniteSet(Tails(s))
    /\ \A jobs : IsFiniteSet(jobs) => IsFiniteSet(Outdated(jobs))
<1>1. ASSUME NEW condition, NEW job  PROVE IsFiniteSet(When(condition, job))
  BY FS_Singleton, FS_EmptySet DEF When
<1>2. ASSUME NEW s  PROVE IsFiniteSet(Tails(s))
  <2>1. Tails(s) \subseteq {FollowJob(sub[s].task, None, 0)}
    BY DEF Tails
  <2>2. IsFiniteSet({FollowJob(sub[s].task, None, 0)})
    BY FS_Singleton
  <2> QED  BY <2>1, <2>2, FS_Subset
<1>3. ASSUME NEW jobs, IsFiniteSet(jobs)  PROVE IsFiniteSet(Outdated(jobs))
  <2> DEFINE f == [j \in jobs |-> IF j.op = "open" THEN [j EXCEPT !.latest = FALSE] ELSE j]
  <2>1. IsFiniteSet({f[j] : j \in jobs})
    <3> HIDE DEF f
    <3> QED  BY <1>3, FinitelyManyValues
  <2>2. {f[j] : j \in jobs} = Outdated(jobs)
    BY DEF Outdated
  <2> QED  BY <2>1, <2>2
<1> QED  BY <1>1, <1>2, <1>3

LEMMA FinitelyMany ==
    ASSUME NEW jobs, IsFiniteSet(jobs)
    PROVE  /\ \A more : IsFiniteSet(more) => IsFiniteSet(jobs \cup more)
           /\ \A j, more : IsFiniteSet(more) => IsFiniteSet((jobs \ {j}) \cup more)
           /\ \A j : IsFiniteSet(jobs \ {j}) /\ IsFiniteSet(jobs \cup {j})
<1>1. ASSUME NEW more, IsFiniteSet(more)  PROVE IsFiniteSet(jobs \cup more)
  BY <1>1, FS_Union
<1>2. ASSUME NEW j  PROVE IsFiniteSet(jobs \ {j}) /\ IsFiniteSet(jobs \cup {j})
  BY FS_RemoveElement, FS_AddElement
<1>3. ASSUME NEW j, NEW more, IsFiniteSet(more)  PROVE IsFiniteSet((jobs \ {j}) \cup more)
  BY <1>2, <1>3, FS_Union
<1> QED  BY <1>1, <1>2, <1>3

LEMMA BecomesFinite ==
    ASSUME Plain, NEW j, NEW next, IsFiniteSet(next), Becomes(j, next)
    PROVE  IsFiniteSet(work')
BY FinitelyMany DEF Plain, StoreTyped, Becomes

\* The view changes, the subscriptions do not.
LEMMA StoreStays ==
    ASSUME Plain, UNCHANGED <<cache, subs>>, asked' = asked \/ asked' \in Sessions,
           IsFiniteSet(work')
    PROVE  StoreTyped'
BY DEF Plain, StoreTyped, subs

\* The subscriptions change.
LEMMA StoreChanges ==
    ASSUME Plain, NEW f, SubsBecome(f), cache' = cache \/ DOMAIN cache' = Tasks,
           current' \in {current, None} \/ current' \in Subs,
           resolver' \in {resolver, None} \/ resolver' \in Subs,
           asked' = asked \/ asked' \in Sessions, IsFiniteSet(work')
    PROVE  StoreTyped'
BY DEF Plain, StoreTyped, SubsBecome

LEMMA OpenTaskTyped ==
    ASSUME Plain, NEW t, NEW jobs, IsFiniteSet(jobs), OpenTask(t, jobs),
           asked' = asked \/ asked' \in Sessions
    PROVE  StoreTyped'
<1>1. DOMAIN cache' = Tasks
  BY DEF OpenTask, Remembered, Plain, StoreTyped
<1>2. IsFiniteSet(work')
  <2> DEFINE new == {OpenJob(t, Remembered[t].task = None)}
  <2>1. work' = Outdated(jobs) \cup Tails(resolver) \cup new
    BY DEF OpenTask
  <2>2. IsFiniteSet(new)
    BY FS_Singleton
  <2> HIDE DEF new
  <2> QED  BY <2>1, <2>2, FiniteJobs, FS_Union
<1>3. SubsBecome(Resolved(Unsubscribed(sub, current), resolver)) /\ current' = None /\ resolver' = None
  BY DEF OpenTask, Unhook
<1> QED  BY <1>1, <1>2, <1>3, StoreChanges

LEMMA StreamTyped ==
    ASSUME Plain, NEW v, NEW jobs, IsFiniteSet(jobs), NEW kind, NEW turn,
           Stream(v, jobs, kind, turn), UNCHANGED cache, asked' = asked \/ asked' \in Sessions
    PROVE  StoreTyped'
<1>1. NewSub \in Subs /\ current' = NewSub /\ resolver' = NewSub
  BY SubscriptionIsFree DEF Stream
<1>2. IsFiniteSet(work')
  BY FinitelyMany DEF Stream
<1>3. PICK f : SubsBecome(f)
  BY DEF Stream
<1> QED  BY <1>1, <1>2, <1>3, StoreChanges

LEMMA SettlePauseTyped ==
    ASSUME Plain, NEW v, NEW j, NEW snapshot, SettlePause(v, j, snapshot),
           UNCHANGED <<cache, asked>>
    PROVE  StoreTyped'
<1>1. IsFiniteSet(work')
  BY BecomesFinite, FS_Singleton DEF SettlePause
<1>2. SubsBecome(Unsubscribed(sub, current)) /\ current' = None /\ resolver' = resolver
  BY DEF SettlePause
<1> QED  BY <1>1, <1>2, StoreChanges

LEMMA UserStoreTyped ==
    ASSUME Plain, User
    PROVE  StoreTyped'
<1> USE FinitelyMany, FiniteJobs
<1>0. IsFiniteSet(work) /\ asked' \in Sessions
  BY DEF Plain, StoreTyped, User, Open, CreateTask, SendMessage, RegenerateMessage, EnqueueInput,
         StopChat, ResumeChat, CompactContext, ClearActiveTask, ArchiveTask, Asks
<1>1. CASE \E t \in Tasks : Open(t)
  BY <1>0, <1>1, OpenTaskTyped DEF Open
<1>2. CASE \E t \in Tasks : CreateTask(t)
  <2>1. IsFiniteSet(work')
    <3>1. IsFiniteSet(Outdated(work))
      BY <1>0
    <3>2. PICK t : work' = Outdated(work) \cup {CreateJob(t)}
      BY <1>2 DEF CreateTask
    <3> QED  BY <3>1, <3>2, FS_AddElement
  <2> QED  BY <1>0, <1>2, <2>1, StoreStays DEF CreateTask, view
<1>3. CASE SendMessage
  BY <1>0, <1>3, StreamTyped DEF SendMessage
<1>4. CASE RegenerateMessage
  BY <1>0, <1>4, StreamTyped DEF RegenerateMessage
<1>5. CASE EnqueueInput
  <2>1. IsFiniteSet(work')
    BY <1>0, <1>5 DEF EnqueueInput
  <2> QED  BY <1>0, <1>5, <2>1, StoreStays DEF EnqueueInput, view
<1>6. CASE StopChat
  <2>1. IsFiniteSet(work')
    BY <1>0, <1>6 DEF StopChat
  <2> QED  BY <1>0, <1>6, <2>1, StoreStays DEF StopChat
<1>7. CASE ResumeChat
  <2>1. IsFiniteSet(work')
    BY <1>0, <1>7 DEF ResumeChat
  <2> QED  BY <1>0, <1>7, <2>1, StoreStays DEF ResumeChat
<1>8. CASE CompactContext
  <2>1. IsFiniteSet(work')
    BY <1>0, <1>8 DEF CompactContext
  <2> QED  BY <1>0, <1>8, <2>1, StoreStays DEF CompactContext
<1>9. CASE ClearActiveTask
  <2>1. IsFiniteSet(work')
    <3>1. IsFiniteSet(Outdated(work)) /\ IsFiniteSet(Tails(resolver))
      BY <1>0
    <3> QED  BY <1>9, <3>1, FS_Union DEF ClearActiveTask
  <2> QED  BY <1>0, <1>9, <2>1, StoreChanges DEF ClearActiveTask, Unhook
<1>10. CASE ArchiveTask
  <2>1. IsFiniteSet(work')
    BY <1>0, <1>10 DEF ArchiveTask
  <2> QED  BY <1>0, <1>10, <2>1, StoreChanges DEF ArchiveTask, Unhook
<1> QED  BY <1>1, <1>2, <1>3, <1>4, <1>5, <1>6, <1>7, <1>8, <1>9, <1>10 DEF User

LEMMA StreamsStoreTyped ==
    ASSUME Plain, Streams
    PROVE  StoreTyped'
<1>0. IsFiniteSet(work) /\ asked' = asked
  BY DEF Plain, StoreTyped, Streams, Deliver, Flush, Submit, Refuse, Abort
<1> SUFFICES ASSUME NEW s \in Subs, Deliver(s) \/ Flush(s) \/ Submit(s) \/ Refuse(s) \/ Abort(s)
             PROVE  StoreTyped'
  BY DEF Streams
<1>1. CASE Deliver(s)
  <2>1. PICK c, x, d, y : work' = work \cup When(c, x) \cup When(d, y)
    BY <1>1 DEF Deliver
  <2>2. IsFiniteSet(work')
    BY <1>0, <2>1, FiniteJobs, FS_Union
  <2>3. PICK f : SubsBecome(f)
    BY <1>1 DEF Deliver
  <2> QED  BY <1>0, <1>1, <2>2, <2>3, StoreChanges DEF Deliver
<1>2. CASE Flush(s)
  BY <1>0, <1>2, StoreChanges DEF Flush
<1>3. CASE Submit(s)
  BY <1>0, <1>3, StoreChanges DEF Submit, view
<1>4. CASE Refuse(s)
  <2>1. PICK c, x : work' = work \cup When(c, x)
    BY <1>4 DEF Refuse
  <2>2. IsFiniteSet(work')
    BY <1>0, <2>1, FiniteJobs, FS_Union
  <2>3. PICK f : SubsBecome(f)
    BY <1>4 DEF Refuse
  <2> QED  BY <1>0, <1>4, <2>2, <2>3, StoreChanges DEF Refuse, view
<1>5. CASE Abort(s)
  BY <1>0, <1>5, StoreChanges DEF Abort, view
<1> QED  BY <1>1, <1>2, <1>3, <1>4, <1>5

LEMMA LoadsStoreTyped ==
    ASSUME Plain, NEW j \in work, MessagesRead(j) \/ RunRead(j) \/ Loaded(j) \/ Hydrated(j)
    PROVE  StoreTyped'
<1>0. IsFiniteSet(work)
  BY DEF Plain, StoreTyped
<1>1. CASE MessagesRead(j)
  BY <1>1, BecomesFinite, FS_Singleton, StoreStays DEF MessagesRead, view
<1>2. CASE RunRead(j)
  BY <1>2, BecomesFinite, FS_Singleton, StoreStays DEF RunRead, view
<1>3. CASE Loaded(j)
  <2>1. DOMAIN cache' = Tasks /\ asked' = asked
    BY <1>3 DEF Loaded, Plain, StoreTyped
  <2>2. IsFiniteSet(work')
    BY <1>3, BecomesFinite, FiniteJobs, FS_EmptySet DEF Loaded
  <2>3. CASE j.latest /\ IsRunProcessing(j.run)
    <3>1. PICK f : SubsBecome(f)
      BY <1>3, <2>3 DEF Loaded
    <3>2. NewSub \in Subs /\ current' = NewSub /\ resolver' = resolver
      BY <1>3, <2>3, SubscriptionIsFree DEF Loaded
    <3> QED  BY <2>1, <2>2, <3>1, <3>2, StoreChanges
  <2>4. CASE ~(j.latest /\ IsRunProcessing(j.run))
    BY <1>3, <2>1, <2>2, <2>4 DEF Loaded, subs, Plain, StoreTyped
  <2> QED  BY <2>3, <2>4
<1>4. CASE Hydrated(j)
  BY <1>4, BecomesFinite, FS_EmptySet, StoreStays DEF Hydrated
<1> QED  BY <1>1, <1>2, <1>3, <1>4

LEMMA SettlingStoreTyped ==
    ASSUME Plain, NEW j \in work,
           SettleRead(j) \/ Settle(j) \/ ProbeRead(j) \/ Probed(j) \/ Created(j)
    PROVE  StoreTyped'
<1>0. IsFiniteSet(work)
  BY DEF Plain, StoreTyped
<1>1. CASE SettleRead(j)
  BY <1>1, BecomesFinite, FS_Singleton, StoreStays DEF SettleRead, view
<1>2. CASE Settle(j)
  <2>1. IsFiniteSet(work') /\ asked' = asked /\ cache' = cache
    BY <1>2, BecomesFinite, FiniteJobs DEF Settle
  <2>2. CASE sub[j.sub].calling
    <3>1. PICK f : SubsBecome(f)
      BY <1>2, <2>2 DEF Settle
    <3>2. current' \in {current, None} /\ resolver' \in {resolver, None}
      BY <1>2, <2>2 DEF Settle
    <3> QED  BY <2>1, <3>1, <3>2, StoreChanges
  <2>3. CASE ~sub[j.sub].calling
    BY <1>2, <2>1, <2>3, StoreStays DEF Settle
  <2> QED  BY <2>2, <2>3
<1>3. CASE ProbeRead(j)
  BY <1>3, BecomesFinite, FS_Singleton, StoreStays DEF ProbeRead, view
<1>4. CASE Probed(j)
  BY <1>4, BecomesFinite, FS_EmptySet, StoreStays DEF Probed
<1>5. CASE Created(j)
  <2>1. asked' = asked /\ cache' = cache
    BY <1>5 DEF Created
  <2>2. CASE \E v : Stream(WithNewAnswer(v), work \ {j}, "send", None)
    BY <1>0, <2>1, <2>2, FinitelyMany, StreamTyped
  <2>3. CASE Becomes(j, {}) /\ UNCHANGED subs
    BY <2>1, <2>3, BecomesFinite, FS_EmptySet, StoreStays
  <2> QED  BY <1>5, <2>2, <2>3 DEF Created
<1> QED  BY <1>1, <1>2, <1>3, <1>4, <1>5

LEMMA FollowingStoreTyped ==
    ASSUME Plain, NEW j \in work,
           FollowOpens(j) \/ FollowAgain(j) \/ InputQueued(j) \/ Enqueued(j)
    PROVE  StoreTyped'
<1>0. IsFiniteSet(work)
  BY DEF Plain, StoreTyped
<1>1. CASE FollowOpens(j)
  BY <1>0, <1>1, FinitelyMany, OpenTaskTyped DEF FollowOpens
<1>2. CASE FollowAgain(j)
  BY <1>2, BecomesFinite, FiniteJobs, StoreStays DEF FollowAgain, view
<1>3. CASE InputQueued(j)
  BY <1>3, BecomesFinite, FS_Singleton, StoreStays DEF InputQueued, view
<1>4. CASE Enqueued(j)
  BY <1>4, BecomesFinite, FiniteJobs, StoreStays DEF Enqueued, view
<1> QED  BY <1>1, <1>2, <1>3, <1>4

LEMMA StoppingStoreTyped ==
    ASSUME Plain, NEW j \in work,
           \/ StopFound(j) \/ PauseRun(j) \/ PauseAnswered(j) \/ StopGivesUp(j)
           \/ PauseRead(j) \/ PauseSettled(j)
    PROVE  StoreTyped'
<1>0. IsFiniteSet(work)
  BY DEF Plain, StoreTyped
<1>1. CASE StopFound(j)
  BY <1>1, BecomesFinite, FS_Singleton, StoreStays DEF StopFound
<1>2. CASE PauseRun(j)
  BY <1>2, BecomesFinite, FS_Singleton, StoreStays DEF PauseRun, view
<1>3. CASE PauseAnswered(j)
  <2>1. CASE Becomes(j, {}) /\ UNCHANGED subs
    BY <1>3, <2>1, BecomesFinite, FS_EmptySet, StoreStays DEF PauseAnswered
  <2>2. CASE \E v : SettlePause(v, j, j.run)
    BY <1>3, <2>2, SettlePauseTyped DEF PauseAnswered
  <2> QED  BY <1>3, <2>1, <2>2 DEF PauseAnswered
<1>4. CASE StopGivesUp(j)
  <2>1. CASE Becomes(j, {}) /\ UNCHANGED subs
    BY <1>4, <2>1, BecomesFinite, FS_EmptySet, StoreStays DEF StopGivesUp
  <2>2. CASE SettlePause(ui, j, NoRun)
    BY <1>4, <2>2, SettlePauseTyped DEF StopGivesUp
  <2> QED  BY <1>4, <2>1, <2>2 DEF StopGivesUp
<1>5. CASE PauseRead(j)
  BY <1>5, BecomesFinite, FS_Singleton, StoreStays DEF PauseRead, view
<1>6. CASE PauseSettled(j)
  BY <1>6, BecomesFinite, FiniteJobs, StoreChanges DEF PauseSettled
<1> QED  BY <1>1, <1>2, <1>3, <1>4, <1>5, <1>6

LEMMA ResumingStoreTyped ==
    ASSUME Plain, NEW j \in work,
           \/ ResumeRun(j) \/ Resumed(j) \/ ResumeRefused(j)
           \/ CompactionRead(j) \/ Compacted(j) \/ CompactionRefused(j)
    PROVE  StoreTyped'
<1>1. CASE ResumeRun(j)
  BY <1>1, BecomesFinite, FS_Singleton, StoreStays DEF ResumeRun, view
<1>2. CASE Resumed(j)
  <2>1. IsFiniteSet(work') /\ NewSub \in Subs
    BY <1>2, BecomesFinite, FS_EmptySet, SubscriptionIsFree DEF Resumed
  <2>2. PICK f : SubsBecome(f)
    BY <1>2 DEF Resumed
  <2> QED  BY <1>2, <2>1, <2>2, StoreChanges DEF Resumed
<1>3. CASE ResumeRefused(j)
  BY <1>3, BecomesFinite, FS_EmptySet, StoreStays DEF ResumeRefused
<1>4. CASE CompactionRead(j)
  BY <1>4, BecomesFinite, FS_Singleton, StoreStays DEF CompactionRead, view
<1>5. CASE Compacted(j)
  BY <1>5, BecomesFinite, FS_EmptySet, StoreStays DEF Compacted
<1>6. CASE CompactionRefused(j)
  BY <1>6, BecomesFinite, FS_EmptySet, StoreStays DEF CompactionRefused
<1> QED  BY <1>1, <1>2, <1>3, <1>4, <1>5, <1>6

LEMMA CoreCoreTyped ==
    ASSUME Plain, Core
    PROVE  CoreTyped' /\ RunsKeepTasks /\ StoreTyped'
<1>1. ASSUME NEW r \in Runs, EmitText(r)  PROVE CoreTyped' /\ RunsKeepTasks /\ StoreTyped'
  BY <1>1, EmitTextTyped DEF EmitText, Plain, CoreTyped, StoreTyped, view, subs
<1>2. ASSUME NEW r \in Runs, Complete(r) \/ Fail(r) \/ Pause(r)
      PROVE  CoreTyped' /\ RunsKeepTasks /\ StoreTyped'
  <2>1. r \in Started
    BY <1>2 DEF Complete, Fail, Pause, Started
  <2>2. RunsTyped' /\ RunsKeepTasks
    <3>1. \E event \in Closing, status \in Statuses : RunEnds(r, event, status)
      BY <1>2 DEF Complete, Fail, Pause, Ending, Closing, Statuses, ActiveStatuses
    <3> QED  BY <2>1, <3>1, RunEndsTyped
  <2>3. DOMAIN saved' = DOMAIN saved
    BY <1>2 DEF Complete, Fail, Pause, AnswerSaved
  <2> QED  BY <1>2, <2>2, <2>3
           DEF Complete, Fail, Pause, Plain, CoreTyped, StoreTyped, view, subs
<1>3. ASSUME NEW t \in Tasks, StartNext(t)  PROVE CoreTyped' /\ RunsKeepTasks /\ StoreTyped'
  <2>1. RunsTyped' /\ RunsKeepTasks /\ DOMAIN saved' = Tasks
    BY <1>3, RunBeginsTyped DEF StartNext, RunBegins
  <2>2. queued' \in [Tasks -> Nat]
    BY <1>3 DEF StartNext, Plain, CoreTyped
  <2> QED  BY <1>3, <2>1, <2>2 DEF StartNext, Plain, CoreTyped, StoreTyped, view, subs
<1> QED  BY <1>1, <1>2, <1>3 DEF Core

LEMMA SubmitCoreTyped ==
    ASSUME Plain, NEW F, Fits(F), NEW s \in Subs, Submit(s)
    PROVE  CoreTyped' /\ RunsKeepTasks
<1>1. sub[s] \in Subscriptions(F[sub[s].task]) /\ sub[s].posting
  BY DEF Fits, SubsFit, Submit
<1>2. sub[s].task \in Tasks
  BY <1>1, SubscriptionParts
<1>3. \E texts : RunBeginsAfter(sub[s].task, texts)
  BY DEF Submit, RunBegins
<1>4. RunsTyped' /\ RunsKeepTasks /\ DOMAIN saved' = Tasks
  BY <1>2, <1>3, RunBeginsTyped
<1> QED  BY <1>4 DEF Submit, Plain, CoreTyped

LEMMA InputCoreTyped ==
    ASSUME Plain, NEW F, Fits(F), NEW j \in work, InputQueued(j)
    PROVE  CoreTyped' /\ RunsKeepTasks
<1>1. j.task \in Tasks
  BY JobKinds DEF Fits, JobsFit
<1>2. CASE ActiveRuns(j.task) = {}
  <2>1. RunsTyped' /\ RunsKeepTasks /\ DOMAIN saved' = Tasks
    BY <1>1, <1>2, RunBeginsTyped DEF InputQueued, RunBegins
  <2> QED  BY <1>2, <2>1 DEF InputQueued, Plain, CoreTyped
<1>3. CASE ActiveRuns(j.task) # {}
  <2>1. UNCHANGED <<run, saved, existing>> /\ queued' = [queued EXCEPT ![j.task] = @ + 1]
    BY <1>3 DEF InputQueued
  <2>2. queued' \in [Tasks -> Nat]
    BY <1>1, <2>1 DEF Plain, CoreTyped
  <2> QED  BY <2>1, <2>2 DEF Plain, CoreTyped, RunsTyped, RunsKeepTasks
<1> QED  BY <1>2, <1>3

LEMMA PauseCoreTyped ==
    ASSUME Plain, NEW F, Family(F), Fits(F), NEW j \in work, PauseRun(j)
    PROVE  /\ CoreTyped' /\ RunsKeepTasks
           /\ j.run.id \in F[j.task] /\ j.task \in Tasks
<1> DEFINE r == j.run.id
<1>1. j.task \in Tasks /\ j \in StopJobs(F[j.task]) /\ j.at = "pausing"
  BY JobKinds DEF Fits, JobsFit, PauseRun
<1>2. r \in F[j.task]
  BY <1>1 DEF StopJobs, RunSnapshots
<1>3. r \in Started
  BY <1>1, <1>2, FamilyTypes
<1>4. UNCHANGED <<saved, queued, existing>>
  BY DEF PauseRun
<1>5. RunsTyped' /\ RunsKeepTasks
  <2>1. CASE run' = [run EXCEPT ![r].status = "PAUSING"]
    <3> DEFINE x == run[r]
    <3>1. run'[r] = [x EXCEPT !.status = "PAUSING"]
      BY <1>3, <2>1, RunRecord
    <3>2. x \in [task : {x.task}, status : Statuses, log : Logs, text : Texts({r}), replay : Nat]
      BY <1>3, RunRecord
    <3>3. run'[r] \in [task : {x.task}, status : Statuses, log : Logs, text : Texts({r}),
                     replay : Nat]
      <4> HIDE DEF x, r
      <4> QED  BY <3>1, <3>2 DEF Statuses, ActiveStatuses
    <3>4. run' = [y \in Runs |-> run'[y]] /\ \A y \in Runs \ {r} : run'[y] = run[y]
      BY <1>3, <2>1, RunRecord
    <3> QED  BY <1>3, <3>3, <3>4, RunChanges
  <2>2. CASE RunEnds(r, "held", "PAUSED")
    BY <1>3, <2>2, RunEndsTyped DEF Statuses, ActiveStatuses
  <2>3. CASE UNCHANGED run
    BY <2>3 DEF RunsTyped, RunsKeepTasks, Plain, CoreTyped
  <2> QED  BY <2>1, <2>2, <2>3 DEF PauseRun
<1> QED  BY <1>1, <1>2, <1>4, <1>5 DEF Plain, CoreTyped

LEMMA ResumeCoreTyped ==
    ASSUME Plain, NEW F, Family(F), Fits(F), NEW j \in work, ResumeRun(j)
    PROVE  /\ CoreTyped' /\ RunsKeepTasks
           /\ j.run.id \in F[j.task] /\ j.task \in Tasks
<1> DEFINE r == j.run.id
<1>1. j.task \in Tasks /\ j \in ResumeJobs(F[j.task])
  BY JobKinds DEF Fits, JobsFit, ResumeRun
<1>2. r \in F[j.task]
  BY <1>1 DEF ResumeJobs, RunSnapshots
<1>3. r \in Started
  BY <1>1, <1>2, FamilyTypes
<1>4. UNCHANGED <<saved, queued, existing>>
  BY DEF ResumeRun
<1> DEFINE x == run[r]
           n == Len(x.log)
<1>5. RunsTyped' /\ RunsKeepTasks
  <2>1. CASE run' = [run EXCEPT ![r].status = "RUNNING", ![r].replay = n]
    <3>1. run'[r] = [x EXCEPT !.status = "RUNNING", !.replay = n]
      BY <1>3, <2>1, RunRecord
    <3>2. x \in [task : {x.task}, status : Statuses, log : Logs, text : Texts({r}), replay : Nat]
          /\ n \in Nat
      BY <1>3, RunRecord, RunTypes
    <3>3. run'[r] \in [task : {x.task}, status : Statuses, log : Logs, text : Texts({r}),
                     replay : Nat]
      <4> HIDE DEF x, n, r
      <4> QED  BY <3>1, <3>2 DEF Statuses, ActiveStatuses
    <3>4. run' = [y \in Runs |-> run'[y]] /\ \A y \in Runs \ {r} : run'[y] = run[y]
      BY <1>3, <2>1, RunRecord
    <3> QED  BY <1>3, <3>3, <3>4, RunChanges
  <2>2. CASE UNCHANGED run
    BY <2>2 DEF RunsTyped, RunsKeepTasks, Plain, CoreTyped
  <2> QED  BY <2>1, <2>2 DEF ResumeRun
<1> QED  BY <1>1, <1>2, <1>4, <1>5 DEF Plain, CoreTyped

LEMMA PlainStep ==
    ASSUME Plain, NEW F, Family(F), Fits(F), Next
    PROVE  Plain' /\ RunsKeepTasks
<1>1. CASE Core
  BY <1>1, CoreCoreTyped DEF Plain
<1>2. CASE User
  <2>1. UNCHANGED core
    BY <1>2 DEF User, Open, CreateTask, SendMessage, RegenerateMessage, EnqueueInput,
                StopChat, ResumeChat, CompactContext, ClearActiveTask, ArchiveTask
  <2> QED  BY <1>2, <2>1, CoreStays, UserStoreTyped DEF Plain
<1>3. CASE Streams
  <2>1. PICK s \in Subs : Deliver(s) \/ Flush(s) \/ Submit(s) \/ Refuse(s) \/ Abort(s)
    BY <1>3 DEF Streams
  <2>2. CASE Submit(s)
    BY <1>3, <2>2, SubmitCoreTyped, StreamsStoreTyped DEF Plain
  <2>3. CASE ~Submit(s)
    <3>1. UNCHANGED core
      BY <2>1, <2>3 DEF Deliver, Flush, Refuse, Abort
    <3> QED  BY <1>3, <3>1, CoreStays, StreamsStoreTyped DEF Plain
  <2> QED  BY <2>2, <2>3
<1>4. CASE Answers
  <2> PICK j \in work : Continues(j)
    BY <1>4 DEF Answers
  <2>1. StoreTyped'
    BY LoadsStoreTyped, SettlingStoreTyped, FollowingStoreTyped, StoppingStoreTyped,
       ResumingStoreTyped DEF Continues
  <2>2. CASE InputQueued(j)
    BY <2>1, <2>2, InputCoreTyped DEF Plain
  <2>3. CASE PauseRun(j)
    BY <2>1, <2>3, PauseCoreTyped DEF Plain
  <2>4. CASE ResumeRun(j)
    BY <2>1, <2>4, ResumeCoreTyped DEF Plain
  <2>5. CASE Created(j)
    <3>1. j.task \in Tasks
      BY JobKinds DEF Fits, JobsFit
    <3>2. CoreTyped' /\ RunsKeepTasks
      BY <2>5, <3>1 DEF Created, Plain, CoreTyped, RunsTyped, RunsKeepTasks
    <3> QED  BY <2>1, <3>2 DEF Plain
  <2>6. CASE ~(InputQueued(j) \/ PauseRun(j) \/ ResumeRun(j) \/ Created(j))
    <3>1. UNCHANGED core
      BY <2>6 DEF Continues, MessagesRead, RunRead, Loaded, Hydrated, SettleRead, Settle, ProbeRead, Probed,
                  FollowOpens, FollowAgain, Enqueued, StopFound, PauseAnswered, StopGivesUp,
                  PauseRead, PauseSettled, Resumed, ResumeRefused, CompactionRead, Compacted,
                  CompactionRefused
    <3> QED  BY <2>1, <3>1, CoreStays DEF Plain
  <2> QED  BY <2>2, <2>3, <2>4, <2>5, <2>6
<1> QED  BY <1>1, <1>2, <1>3, <1>4 DEF Next

-----------------------------------------------------------------------------
(* What a step leaves alone still fits *)

\* A step that fits F is to fit G.
Step(F, G) == /\ Plain /\ Plain' /\ Family(F) /\ Family(G)' /\ Within(F, G)
              /\ Fits(F)

LEMMA StepParts ==
    ASSUME NEW F, NEW G, Step(F, G)
    PROVE  /\ ui \in SomeViews(F[ui.task]) /\ ui.task \in Tasks \cup {None}
           /\ F[ui.task] \subseteq G[ui.task] /\ ui \in SomeViews(G[ui.task])
           /\ ui.task # None => ui.task \in Tasks
           /\ \A t \in Tasks : cache[t] \in SomeViews(G[t]) /\ cache[t].task \in {None, t}
           /\ \A t \in Tasks : saved[t] \in SomeMessages(G[t])
           /\ \A s \in Subs : sub[s] \in Subscriptions(G[sub[s].task])
           /\ \A j \in work : j \in Jobs(G[j.task]) /\ j.task \in Tasks
           /\ \A t \in Tasks \cup {None} :
                 F[t] \subseteq G[t] /\ G[t] \subseteq Runs /\ None \notin G[t]
<1>1. \A t \in Tasks \cup {None} : F[t] \subseteq G[t]
  BY DEF Step, Within
<1>2. \A t \in Tasks \cup {None} : G[t] \subseteq Runs /\ None \notin G[t]
  <2>1. \A t \in Tasks \cup {None} : G[t] \subseteq Started'
    BY DEF Step, Family
  <2> QED  BY <2>1, NoneAssumption DEF Started
<1>3. ui \in SomeViews(F[ui.task]) /\ ui.task \in Tasks \cup {None}
  BY DEF Step, Fits, ViewsFit, SomeViews
<1>4. \A t \in Tasks : cache[t] \in SomeViews(G[t]) /\ cache[t].task \in {None, t}
  BY <1>1, ViewsGrow DEF Step, Fits, ViewsFit
<1>5. \A t \in Tasks : saved[t] \in SomeMessages(G[t])
  BY <1>1, MessagesGrow DEF Step, Fits, SavedFits
<1>6. ASSUME NEW s \in Subs  PROVE sub[s] \in Subscriptions(G[sub[s].task])
  <2>1. sub[s] \in Subscriptions(F[sub[s].task])
    BY DEF Step, Fits, SubsFit
  <2>2. sub[s].task \in Tasks \cup {None}
    BY <2>1, SubscriptionParts
  <2> QED  BY <1>1, <2>1, <2>2, SubscriptionsGrow
<1>7. ASSUME NEW j \in work  PROVE j \in Jobs(G[j.task]) /\ j.task \in Tasks
  <2>1. j \in Jobs(F[j.task]) /\ j.task \in Tasks
    BY JobKinds DEF Step, Fits, JobsFit
  <2> QED  BY <1>1, <2>1, JobsGrow
<1>8. ui \in SomeViews(G[ui.task])
  BY <1>1, <1>3, ViewsGrow
<1> QED  BY <1>1, <1>2, <1>3, <1>4, <1>5, <1>6, <1>7, <1>8

LEMMA ViewsStay ==
    ASSUME NEW F, NEW G, Step(F, G), UNCHANGED <<ui, cache>>
    PROVE  ViewsFit(G)'
BY StepParts DEF ViewsFit

LEMMA CacheStays ==
    ASSUME NEW F, NEW G, Step(F, G), UNCHANGED cache, ui' \in SomeViews(G[ui'.task])
    PROVE  ViewsFit(G)'
BY StepParts DEF ViewsFit

LEMMA SavedStays ==
    ASSUME NEW F, NEW G, Step(F, G), UNCHANGED saved
    PROVE  SavedFits(G)'
BY StepParts DEF SavedFits

LEMMA SubsStay ==
    ASSUME NEW F, NEW G, Step(F, G), UNCHANGED sub
    PROVE  SubsFit(G)'
BY StepParts DEF SubsFit

LEMMA JobsStay ==
    ASSUME NEW F, NEW G, Step(F, G), \A x \in work' : x \in work \/ x \in Jobs(G[x.task])
    PROVE  JobsFit(G)'
BY StepParts DEF JobsFit

LEMMA SubsChange ==
    ASSUME NEW G, NEW f, AllFit(f, G), SubsBecome(f)
    PROVE  SubsFit(G)'
<1> SUFFICES ASSUME NEW s \in Subs  PROVE sub'[s] \in Subscriptions(G[sub'[s].task])
  BY DEF SubsFit
<1>1. sub'[s] = IdleSub \/ sub'[s] = f[s]
  BY DEF SubsBecome
<1> QED  BY <1>1, IdleSubscription DEF AllFit

LEMMA SubsFitBefore ==
    ASSUME NEW F, NEW G, Step(F, G)
    PROVE  AllFit(sub, G)
BY StepParts DEF AllFit

\* What becomes of one job.
LEMMA JobsChange ==
    ASSUME NEW F, NEW G, Step(F, G), NEW j, NEW next, Becomes(j, next),
           \A x \in next : x \in Jobs(G[x.task])
    PROVE  JobsFit(G)'
<1>1. \A x \in work' : x \in work \/ x \in next
  BY DEF Becomes
<1> QED  BY <1>1, JobsStay

-----------------------------------------------------------------------------
(* The Core's steps fit *)

\* A run writes for its task.
LEMMA OwnTexts ==
    ASSUME NEW F, NEW G, Step(F, G), NEW r \in Started
    PROVE  /\ run[r].task \in Tasks /\ r \in F[run[r].task]
           /\ run[r].text \in Texts(G[run[r].task])
<1>1. r \in Runs /\ run[r].status # "new"
  BY DEF Started
<1>2. run[r].task \in Tasks /\ run[r].text \in Texts({r})
  BY <1>1, RunTypes DEF Step
<1>3. r \in RunsOf(run[r].task)
  BY <1>1 DEF RunsOf
<1>4. r \in F[run[r].task]
  BY <1>2, <1>3 DEF Step, Family
<1>5. {r} \subseteq G[run[r].task]
  BY <1>2, <1>4, StepParts
<1>6. Texts({r}) \subseteq Texts(G[run[r].task])
  BY <1>5, SnapshotsGrow
<1> QED  BY <1>2, <1>4, <1>6

LEMMA AnswerSavedFits ==
    ASSUME NEW F, NEW G, Step(F, G), NEW r \in Started, AnswerSaved(r)
    PROVE  SavedFits(G)'
<1> DEFINE t == run[r].task
           m == [past |-> saved[t].past, answer |-> run[r].text, open |-> TRUE]
<1>1. t \in Tasks /\ run[r].text \in Texts(G[t])
  BY OwnTexts
<1>2. saved[t] \in SomeMessages(G[t])
  BY <1>1, StepParts
<1>3. m \in SomeMessages(G[t])
  BY <1>1, <1>2 DEF SomeMessages, Grows
<1>4. saved' = [saved EXCEPT ![t] = m] /\ DOMAIN saved = Tasks
  BY DEF AnswerSaved, Step, Plain, CoreTyped
<1> SUFFICES ASSUME NEW u \in Tasks  PROVE saved'[u] \in SomeMessages(G[u])
  BY DEF SavedFits
<1>5. CASE u = t
  <2> HIDE DEF m, t
  <2> QED  BY <1>1, <1>3, <1>4, <1>5
<1>6. CASE u # t
  <2> HIDE DEF m, t
  <2> QED  BY <1>4, <1>6, StepParts
<1> QED  BY <1>5, <1>6

LEMMA RunBeginsFits ==
    ASSUME NEW F, NEW G, Step(F, G), NEW t \in Tasks, NEW texts \in Texts(G[t]),
           RunBeginsAfter(t, texts)
    PROVE  SavedFits(G)' /\ NewRun \in G[t]
<1> DEFINE m == [past |-> texts, answer |-> <<>>, open |-> FALSE]
<1>1. saved' = [saved EXCEPT ![t] = m] /\ DOMAIN saved = Tasks /\ NewRun \in RunsOf(t)'
  BY RunBeginsTyped DEF Step, Plain, CoreTyped
<1>2. m \in SomeMessages(G[t])
  BY DEF SomeMessages, Grows, Texts
<1>3. SavedFits(G)'
  <2> HIDE DEF m
  <2> QED  BY <1>1, <1>2, StepParts DEF SavedFits
<1>4. RunsOf(t)' \subseteq G[t]
  BY DEF Step, Family
<1> QED  BY <1>1, <1>3, <1>4

LEMMA CoreFits ==
    ASSUME NEW F, NEW G, Step(F, G), Core
    PROVE  Fits(G)'
<1>1. UNCHANGED <<view, subs, work>>
  BY DEF Core, EmitText, Complete, Fail, Pause, StartNext
<1>2. ViewsFit(G)' /\ SubsFit(G)' /\ JobsFit(G)'
  BY <1>1, ViewsStay, SubsStay, JobsStay DEF view, subs
<1>3. SavedFits(G)'
  <2>1. ASSUME NEW r \in Runs, EmitText(r) \/ (Fail(r) /\ UNCHANGED saved)
        PROVE  SavedFits(G)'
    BY <2>1, SavedStays DEF EmitText
  <2>2. ASSUME NEW r \in Runs, Complete(r) \/ Pause(r) \/ (Fail(r) /\ AnswerSaved(r))
        PROVE  SavedFits(G)'
    <3>1. r \in Started
      BY <2>2 DEF Complete, Pause, Fail, Started
    <3> QED  BY <2>2, <3>1, AnswerSavedFits DEF Complete, Pause
  <2>3. ASSUME NEW t \in Tasks, StartNext(t)  PROVE SavedFits(G)'
    <3>1. TextOf(saved[t]) \in Texts(G[t])
      BY StepParts, TextOfType DEF SomeMessages
    <3> QED  BY <2>3, <3>1, RunBeginsFits DEF StartNext, RunBegins
  <2>4. \A r \in Runs : Fail(r) => UNCHANGED saved \/ AnswerSaved(r)
    BY DEF Fail
  <2> QED  BY <2>1, <2>2, <2>3, <2>4 DEF Core
<1> QED  BY <1>2, <1>3 DEF Fits

-----------------------------------------------------------------------------
(* A task is shown as it was left *)

LEMMA RememberedFits ==
    ASSUME NEW F, NEW G, Step(F, G), NEW t \in Tasks
    PROVE  Remembered[t] \in SomeViews(G[t]) /\ Remembered[t].task \in {None, t}
<1>1. CASE ui.task = None \/ t # ui.task
  <2>1. Remembered[t] = cache[t]
    BY <1>1 DEF Remembered, Step, Plain, StoreTyped
  <2> QED  BY <2>1, StepParts
<1>2. CASE ui.task # None /\ t = ui.task
  <2> DEFINE m == IF ui.hydrating /\ IsCached(ui.task) THEN Messages(cache[ui.task])
                  ELSE Messages(ui)
             w == Showing(ui, m)
  <2>1. Remembered[t] = [w EXCEPT !.hydrating = FALSE, !.compacting = FALSE]
    BY <1>2 DEF Remembered, CacheEntry, Step, Plain, StoreTyped
  <2>2. m \in SomeMessages(G[t])
    BY <1>2, StepParts, MessagesType
  <2>3. w \in SomeViews(G[t]) /\ w.task = t
    <3> HIDE DEF m
    <3> QED  BY <1>2, <2>2, StepParts, ShowingType
  <2> HIDE DEF w
  <2> QED  BY <2>1, <2>3 DEF SomeViews, Grows
<1> QED  BY <1>1, <1>2

LEMMA TailsFit ==
    ASSUME NEW F, NEW G, Step(F, G), NEW s
    PROVE  \A x \in Tails(s) : x \in Jobs(G[x.task]) /\ x.op = "follow"
<1> SUFFICES ASSUME NEW x \in Tails(s)  PROVE x \in Jobs(G[x.task]) /\ x.op = "follow"
  OBVIOUS
<1>1. s \in Subs /\ sub[s].calling /\ x = FollowJob(sub[s].task, None, 0)
  BY DEF Tails
<1>2. sub[s].task \in Tasks
  BY <1>1, StepParts, SubscriptionParts
<1>3. x.task = sub[s].task /\ x.op = "follow"
  BY <1>1 DEF FollowJob
<1> QED  BY <1>1, <1>2, <1>3, NewJobs

LEMMA OutdatedFit ==
    ASSUME NEW F, NEW G, Step(F, G), NEW jobs \in SUBSET work
    PROVE  \A x \in Outdated(jobs) : x \in Jobs(G[x.task])
<1> SUFFICES ASSUME NEW j \in jobs,
                    NEW x, x = IF j.op = "open" THEN [j EXCEPT !.latest = FALSE] ELSE j
             PROVE  x \in Jobs(G[x.task])
  BY DEF Outdated
<1>1. j \in Jobs(G[j.task])
  BY StepParts
<1>2. CASE j.op = "open"
  <2>1. j \in OpenJobs(G[j.task])
    BY <1>1, <1>2, JobKinds
  <2>2. x \in OpenJobs(G[j.task]) /\ x.task = j.task
    BY <1>2, <2>1 DEF OpenJobs
  <2> QED  BY <2>2 DEF Jobs
<1> QED  BY <1>1, <1>2

LEMMA UnhookFits ==
    ASSUME NEW F, NEW G, Step(F, G), Unhook
    PROVE  SubsFit(G)'
BY SubsFitBefore, GivenUpFit, SubsChange DEF Unhook

LEMMA OpenTaskFits ==
    ASSUME NEW F, NEW G, Step(F, G), NEW t \in Tasks, NEW jobs \in SUBSET work,
           OpenTask(t, jobs)
    PROVE  ViewsFit(G)' /\ SubsFit(G)' /\ JobsFit(G)' /\ ui'.task = t
<1>1. SubsFit(G)'
  BY UnhookFits DEF OpenTask
<1>2. \A x \in work' : x \in work \/ x \in Jobs(G[x.task])
  <2> SUFFICES ASSUME NEW x \in work'  PROVE x \in work \/ x \in Jobs(G[x.task])
    OBVIOUS
  <2>1. \/ x \in Outdated(jobs) \/ x \in Tails(resolver)
        \/ x = OpenJob(t, Remembered[t].task = None)
    BY DEF OpenTask
  <2>2. CASE x = OpenJob(t, Remembered[t].task = None)
    <3>1. (Remembered[t].task = None) \in BOOLEAN
      OBVIOUS
    <3>2. x.task = t
      BY <2>2 DEF OpenJob
    <3> QED  BY <2>2, <3>1, <3>2, NewJobs
  <2> QED  BY <2>1, <2>2, OutdatedFit, TailsFit
<1>3. JobsFit(G)'
  BY <1>2, JobsStay
<1>4. ui' \in SomeViews(G[t]) /\ ui'.task = t
  <2>1. CASE Remembered[t].task # None
    <3>1. ui' = Remembered[t]
      BY <2>1 DEF OpenTask
    <3> QED  BY <2>1, <3>1, RememberedFits
  <2>2. CASE Remembered[t].task = None
    <3>1. ui' = [Blank EXCEPT !.task = t, !.usage = FreshUsage] /\ FreshUsage \in Nat
      BY <2>2, UsageIsFresh DEF OpenTask, Step, Plain, StoreTyped
    <3>2. Blank \in SomeViews(G[t])
      BY BlankType
    <3> HIDE DEF Blank
    <3> QED  BY <3>1, <3>2 DEF SomeViews, Grows
  <2> QED  BY <2>1, <2>2
<1>5. ViewsFit(G)'
  BY <1>4, RememberedFits DEF OpenTask, ViewsFit
<1> QED  BY <1>1, <1>3, <1>4, <1>5

-----------------------------------------------------------------------------
(* The user's steps fit *)

\* A subscription is begun, or changes.
LEMMA OneChangesFits ==
    ASSUME NEW f, NEW owned, AllFit(f, owned), DOMAIN f = Subs, NEW s, NEW y,
           y \in Subscriptions(owned[y.task])
    PROVE  AllFit([f EXCEPT ![s] = y], owned)
<1> DEFINE g == [f EXCEPT ![s] = y]
<1>1. ASSUME NEW x \in Subs  PROVE g[x] = y \/ g[x] = f[x]
  OBVIOUS
<1> HIDE DEF g
<1>2. AllFit(g, owned)
  BY <1>1 DEF AllFit
<1> QED  BY <1>2 DEF g

LEMMA StreamFits ==
    ASSUME NEW F, NEW G, Step(F, G), NEW v, v.task \in Tasks, v \in SomeViews(G[v.task]),
           NEW jobs \in SUBSET work, NEW kind \in {"send", "regenerate"},
           NEW turn \in Runs \cup {None}, Stream(v, jobs, kind, turn)
    PROVE  /\ ui' \in SomeViews(G[ui'.task]) /\ ui'.task = v.task
           /\ SubsFit(G)' /\ JobsFit(G)'
<1>1. ui' \in SomeViews(G[v.task]) /\ ui'.task = v.task
  <2>1. FreshUsage \in Nat /\ NoRun \in Snapshots(G[v.task])
    BY UsageIsFresh DEF Step, Plain, StoreTyped, Snapshots
  <2>2. ui' = [v EXCEPT !.run = NoRun, !.usage = FreshUsage, !.chatting = TRUE,
                        !.pausing = FALSE, !.stopped = FALSE]
    BY DEF Stream
  <2> QED  BY <2>1, <2>2 DEF SomeViews, Grows
<1>2. SubsFit(G)'
  <2> DEFINE f == Unsubscribed(sub, current)
             y == [Subscription(kind, v.task, None, 0) EXCEPT !.turn = turn]
  <2>1. AllFit(f, G) /\ DOMAIN f = Subs
    BY SubsFitBefore, GivenUpFit DEF Unsubscribed
  <2>2. y \in Subscriptions(G[y.task])
    BY StartedSubscription DEF Kinds
  <2>3. SubsBecome([f EXCEPT ![NewSub] = y])
    BY DEF Stream
  <2> HIDE DEF f, y
  <2> QED  BY <2>1, <2>2, <2>3, OneChangesFits, SubsChange
<1>3. JobsFit(G)'
  <2>1. ProbeJob(v.task) \in Jobs(G[v.task]) /\ ProbeJob(v.task).task = v.task
    BY NewJobs DEF ProbeJob
  <2>2. work' = jobs \cup {ProbeJob(v.task)}
    BY DEF Stream
  <2> QED  BY <2>1, <2>2, JobsStay
<1> QED  BY <1>1, <1>2, <1>3

LEMMA OpenFits ==
    ASSUME NEW F, NEW G, Step(F, G), NEW t \in Tasks, Open(t)
    PROVE  Fits(G)'
<1>1. ViewsFit(G)' /\ SubsFit(G)' /\ JobsFit(G)'
  BY OpenTaskFits DEF Open
<1> QED  BY <1>1, SavedStays DEF Open, core, Fits

LEMMA CreateTaskFits ==
    ASSUME NEW F, NEW G, Step(F, G), NEW t \in Tasks, CreateTask(t)
    PROVE  Fits(G)'
<1>1. ViewsFit(G)' /\ SavedFits(G)' /\ SubsFit(G)'
  BY ViewsStay, SavedStays, SubsStay DEF CreateTask, core, view, subs
<1>2. JobsFit(G)'
  <2>1. work' = Outdated(work) \cup {CreateJob(t)}
    BY DEF CreateTask
  <2>2. \A x \in Outdated(work) : x \in Jobs(G[x.task])
    BY OutdatedFit
  <2>3. CreateJob(t) \in Jobs(G[t]) /\ CreateJob(t).task = t
    BY NewJobs DEF CreateJob
  <2> QED  BY <2>1, <2>2, <2>3, JobsStay
<1> QED  BY <1>1, <1>2 DEF Fits

LEMMA SendMessageFits ==
    ASSUME NEW F, NEW G, Step(F, G), SendMessage
    PROVE  Fits(G)'
<1>1. ui.task \in Tasks /\ ui \in SomeViews(G[ui.task])
  BY StepParts DEF SendMessage, MayAsk
<1>2. WithNewAnswer(ui) \in SomeViews(G[ui.task]) /\ WithNewAnswer(ui).task = ui.task
  BY <1>1, WithNewAnswerType
<1>3. ui' \in SomeViews(G[ui'.task]) /\ SubsFit(G)' /\ JobsFit(G)'
  BY <1>1, <1>2, StreamFits DEF SendMessage
<1> QED  BY <1>3, CacheStays, SavedStays DEF SendMessage, core, Fits

LEMMA RegenerateMessageFits ==
    ASSUME NEW F, NEW G, Step(F, G), RegenerateMessage
    PROVE  Fits(G)'
<1> DEFINE m == [past |-> ui.past, answer |-> <<>>, open |-> TRUE]
           v == Showing(ui, m)
<1>1. ui.task \in Tasks /\ ui \in SomeViews(G[ui.task])
  BY StepParts DEF RegenerateMessage
<1>2. m \in SomeMessages(G[ui.task])
  BY <1>1 DEF SomeMessages, SomeViews, Grows, Texts
<1>3. v \in SomeViews(G[ui.task]) /\ v.task = ui.task
  <2> HIDE DEF m
  <2> QED  BY <1>1, <1>2, ShowingType
<1>4. LastTurn(ui) \in Runs \cup {None}
  <2>1. ui.answer \in Seq(G[ui.task] \X Nat) /\ ui.answer # <<>>
    BY <1>1 DEF SomeViews, Texts, RegenerateMessage
  <2>2. ui.answer[Len(ui.answer)] \in G[ui.task] \X Nat
    BY <2>1
  <2>3. G[ui.task] \subseteq Runs
    BY StepParts
  <2> QED  BY <2>1, <2>2, <2>3 DEF LastTurn, Last
<1>5. Stream(v, work, "regenerate", LastTurn(ui))
  BY DEF RegenerateMessage, BeforeLastTurn
<1>6. ui' \in SomeViews(G[ui'.task]) /\ SubsFit(G)' /\ JobsFit(G)'
  <2> HIDE DEF v
  <2> QED  BY <1>1, <1>3, <1>4, <1>5, StreamFits
<1> QED  BY <1>6, CacheStays, SavedStays DEF RegenerateMessage, core, Fits

LEMMA EnqueueInputFits ==
    ASSUME NEW F, NEW G, Step(F, G), EnqueueInput
    PROVE  Fits(G)'
<1>1. ViewsFit(G)' /\ SavedFits(G)' /\ SubsFit(G)'
  BY ViewsStay, SavedStays, SubsStay DEF EnqueueInput, core, view, subs
<1>2. JobsFit(G)'
  <2>1. ui.task \in Tasks /\ work' = work \cup {EnqueueJob(ui.task)}
    BY StepParts DEF EnqueueInput
  <2>2. EnqueueJob(ui.task) \in Jobs(G[ui.task]) /\ EnqueueJob(ui.task).task = ui.task
    BY <2>1, NewJobs DEF EnqueueJob
  <2> QED  BY <2>1, <2>2, JobsStay
<1> QED  BY <1>1, <1>2 DEF Fits

LEMMA StopChatFits ==
    ASSUME NEW F, NEW G, Step(F, G), StopChat
    PROVE  Fits(G)'
<1>1. ui.task \in Tasks /\ ui \in SomeViews(G[ui.task]) /\ ui.run \in Snapshots(G[ui.task])
      /\ None \notin G[ui.task]
  BY StepParts DEF StopChat, SomeViews
<1>2. SavedFits(G)' /\ SubsFit(G)'
  BY SavedStays, SubsStay DEF StopChat, core, subs
<1>3. ViewsFit(G)'
  <2> DEFINE shown == IF IsPausableRun(ui.run) THEN WithStatus(ui.run, "PAUSING") ELSE ui.run
  <2>1. shown \in Snapshots(G[ui.task])
    BY <1>1, WithStatusType DEF Statuses, ActiveStatuses
  <2>2. ui' = [ui EXCEPT !.pausing = TRUE, !.chatting = FALSE, !.stopped = FALSE, !.run = shown]
    BY <1>1 DEF StopChat, SomeViews
  <2> HIDE DEF shown
  <2>3. ui' \in SomeViews(G[ui.task]) /\ ui'.task = ui.task
    BY <1>1, <2>1, <2>2 DEF SomeViews, Grows
  <2> QED  BY <2>3, CacheStays DEF StopChat
<1>4. JobsFit(G)'
  <2> DEFINE next == StopJob(ui.task, IF IsPausableRun(ui.run) THEN "pausing" ELSE "finding",
                             IF IsPausableRun(ui.run) THEN ui.run ELSE NoRun)
  <2>1. work' = work \cup {next}
    BY DEF StopChat
  <2>2. next.task = ui.task
    BY DEF StopJob
  <2>3. next \in Jobs(G[ui.task])
    <3>1. CASE IsPausableRun(ui.run)
      <4>1. ui.run # NoRun /\ next = StopJob(ui.task, "pausing", ui.run)
        BY <3>1 DEF IsPausableRun, NoRun
      <4> QED  BY <1>1, <4>1, NewStopJob
    <3>2. CASE ~IsPausableRun(ui.run)
      <4>1. next = StopJob(ui.task, "finding", NoRun) /\ NoRun \in Snapshots(G[ui.task])
        BY <3>2 DEF Snapshots
      <4> QED  BY <1>1, <4>1, NewStopJob
    <3> QED  BY <3>1, <3>2
  <2> HIDE DEF next
  <2> QED  BY <2>1, <2>2, <2>3, JobsStay
<1> QED  BY <1>2, <1>3, <1>4 DEF Fits

LEMMA ResumeChatFits ==
    ASSUME NEW F, NEW G, Step(F, G), ResumeChat
    PROVE  Fits(G)'
<1>1. ui.task \in Tasks /\ ui \in SomeViews(G[ui.task])
  BY StepParts DEF ResumeChat
<1>2. SavedFits(G)' /\ SubsFit(G)'
  BY SavedStays, SubsStay DEF ResumeChat, core, subs
<1>3. ViewsFit(G)'
  <2> DEFINE w == WithNewAnswer(ui)
  <2>1. w \in SomeViews(G[ui.task]) /\ w.task = ui.task
    BY <1>1, WithNewAnswerType
  <2>2. ui' = [w EXCEPT !.usage = FreshUsage, !.chatting = TRUE, !.pausing = FALSE,
                        !.stopped = FALSE] /\ FreshUsage \in Nat
    BY UsageIsFresh DEF ResumeChat, Step, Plain, StoreTyped
  <2> HIDE DEF w
  <2>3. ui' \in SomeViews(G[ui.task]) /\ ui'.task = ui.task
    BY <2>1, <2>2 DEF SomeViews, Grows
  <2> QED  BY <2>3, CacheStays DEF ResumeChat
<1>4. JobsFit(G)'
  <2>1. work' = work \cup {ResumeJob(ui)} /\ ResumeJob(ui).task = ui.task
    BY DEF ResumeChat, ResumeJob
  <2>2. ui.run \in RunSnapshots(G[ui.task])
    BY <1>1 DEF ResumeChat, SomeViews, Snapshots, NoRun
  <2>3. Messages(ui) \in SomeMessages(G[ui.task])
    BY <1>1, MessagesType
  <2>4. ResumeJob(ui) \in Jobs(G[ui.task])
    BY <1>1, <2>2, <2>3 DEF ResumeJob, ResumeJobs, Jobs
  <2> QED  BY <2>1, <2>4, JobsStay
<1> QED  BY <1>2, <1>3, <1>4 DEF Fits

LEMMA CompactContextFits ==
    ASSUME NEW F, NEW G, Step(F, G), CompactContext
    PROVE  Fits(G)'
<1>1. ui.task \in Tasks /\ ui \in SomeViews(G[ui.task])
  BY StepParts DEF CompactContext, MayAsk
<1>2. SavedFits(G)' /\ SubsFit(G)'
  BY SavedStays, SubsStay DEF CompactContext, core, subs
<1>3. ViewsFit(G)'
  <2> DEFINE w == WithNewAnswer(ui)
  <2>1. w \in SomeViews(G[ui.task]) /\ w.task = ui.task
    BY <1>1, WithNewAnswerType
  <2>2. ui' = [w EXCEPT !.compacting = TRUE]
    BY DEF CompactContext
  <2> HIDE DEF w
  <2>3. ui' \in SomeViews(G[ui.task]) /\ ui'.task = ui.task
    BY <2>1, <2>2 DEF SomeViews, Grows
  <2> QED  BY <2>3, CacheStays DEF CompactContext
<1>4. JobsFit(G)'
  <2>1. work' = work \cup {CompactJob(ui.task)} /\ CompactJob(ui.task).task = ui.task
    BY DEF CompactContext, CompactJob
  <2> QED  BY <1>1, <2>1, NewJobs, JobsStay
<1> QED  BY <1>2, <1>3, <1>4 DEF Fits

LEMMA ClearActiveTaskFits ==
    ASSUME NEW F, NEW G, Step(F, G), ClearActiveTask
    PROVE  Fits(G)'
<1>1. SavedFits(G)' /\ SubsFit(G)'
  BY SavedStays, UnhookFits DEF ClearActiveTask, core
<1>2. ViewsFit(G)'
  BY BlankType, CacheStays DEF ClearActiveTask
<1>3. JobsFit(G)'
  <2>1. work' = Outdated(work) \cup Tails(resolver)
    BY DEF ClearActiveTask
  <2> QED  BY <2>1, OutdatedFit, TailsFit, JobsStay
<1> QED  BY <1>1, <1>2, <1>3 DEF Fits

LEMMA ArchiveTaskFits ==
    ASSUME NEW F, NEW G, Step(F, G), ArchiveTask
    PROVE  Fits(G)'
<1>1. SavedFits(G)' /\ SubsFit(G)'
  BY SavedStays, UnhookFits DEF ArchiveTask, core
<1>2. ViewsFit(G)'
  <2>1. ui.usage \in Nat /\ ui.hydrating \in BOOLEAN
    BY StepParts DEF SomeViews
  <2>2. ui' = [Blank EXCEPT !.usage = ui.usage, !.hydrating = ui.hydrating]
    BY DEF ArchiveTask
  <2>3. Blank \in SomeViews(G[None]) /\ Blank.task = None
    BY BlankType
  <2>4. ui' \in SomeViews(G[None]) /\ ui'.task = None
    <3> HIDE DEF Blank
    <3> QED  BY <2>1, <2>2, <2>3 DEF SomeViews, Grows
  <2> QED  BY <2>4, CacheStays DEF ArchiveTask
<1>3. JobsFit(G)'
  <2>1. work' = work \cup Tails(resolver)
    BY DEF ArchiveTask
  <2> QED  BY <2>1, TailsFit, JobsStay
<1> QED  BY <1>1, <1>2, <1>3 DEF Fits

LEMMA UserFits ==
    ASSUME NEW F, NEW G, Step(F, G), User
    PROVE  Fits(G)'
BY OpenFits, CreateTaskFits, SendMessageFits, RegenerateMessageFits, EnqueueInputFits,
   StopChatFits, ResumeChatFits, CompactContextFits, ClearActiveTaskFits, ArchiveTaskFits
   DEF User

-----------------------------------------------------------------------------
(* The streams' steps fit *)

\* The event a stream brings, and the view it tells.
LEMMA DeliveredEvent ==
    ASSUME NEW F, NEW G, Step(F, G), NEW s \in Subs, Deliver(s),
           NEW e, e = sub[s], NEW t, t = e.task, NEW k, k = e.pos + 1, NEW r, r = e.run
    PROVE  /\ e \in Subscriptions(G[t]) /\ e.listening /\ r # None
           /\ t \in Tasks /\ e.kind # "idle" /\ r \in G[t] /\ r \in Runs /\ k \in Nat \ {0}
           /\ e.batch \in Texts(G[t])
           /\ run[r].log[k] \in {"text", "held"} \cup Closing
<1>1. e \in Subscriptions(G[t]) /\ e.listening /\ r # None /\ k <= Len(run[r].log)
  BY StepParts DEF Deliver
<1>2. t \in Tasks /\ e.kind # "idle" /\ r \in G[t] /\ r \in Runs /\ k \in Nat \ {0}
      /\ e.batch \in Texts(G[t])
  <2>1. t \in Tasks /\ r \in G[t] /\ e.pos \in Nat /\ e.batch \in Texts(G[t])
    BY <1>1, SubscriptionParts, Zenon
  <2>2. e.kind # "idle"
    BY <1>1 DEF Subscriptions, Kinds
  <2>3. G[t] \subseteq Runs
    BY <2>1, StepParts
  <2> QED  BY <2>1, <2>2, <2>3
<1>3. run[r].log[k] \in {"text", "held"} \cup Closing
  <2> DEFINE log == run[r].log
  <2>1. log \in Seq({"text", "held"} \cup Closing)
    BY <1>2, RunTypes DEF Step, Logs
  <2>2. k \in 1..Len(log)
    BY <1>1, <1>2, <2>1
  <2> HIDE DEF log
  <2>3. log[k] \in {"text", "held"} \cup Closing
    BY <2>1, <2>2
  <2> QED  BY <2>3 DEF log
<1> QED  BY <1>1, <1>2, <1>3

LEMMA ToldType ==
    ASSUME NEW F, NEW G, Step(F, G), NEW s \in Subs, Deliver(s), NEW event,
           event = run[sub[s].run].log[sub[s].pos + 1], NEW n, n = sub[s].pos + 1,
           IsNews(sub[s].run, n)
    PROVE  /\ Enveloped(ui, event, n) \in SomeViews(G[ui.task])
           /\ Enveloped(ui, event, n).task = ui.task
<1>1. PICK e, t, k, r : e = sub[s] /\ t = e.task /\ k = e.pos + 1 /\ r = e.run
  OBVIOUS
<1>2. r # None /\ n \in Nat /\ event \in {"text", "held"} \cup Closing
  BY <1>1, DeliveredEvent
<1>3. ui.run.id # None
  BY <1>1, <1>2 DEF IsNews
<1>4. ui \in SomeViews(G[ui.task])
  BY StepParts
<1>5. n \in Nat /\ event \in {"text", "held"} \cup Closing
  BY <1>2
<1>6. ASSUME NEW S, ui \in SomeViews(S), ui.run.id # None
      PROVE  Enveloped(ui, event, n) \in SomeViews(S) /\ Enveloped(ui, event, n).task = ui.task
  BY <1>5, <1>6, EnvelopedType
<1> QED  BY <1>3, <1>4, <1>6

\* What a stream brings to the view, its batch and the jobs.
LEMMA DeliverFits ==
    ASSUME NEW F, NEW G, Step(F, G), NEW s \in Subs, Deliver(s)
    PROVE  Fits(G)' /\ ui'.task = ui.task
<1> DEFINE e == sub[s]
           t == e.task
           k == e.pos + 1
           r == e.run
           ev == run[r].log[k]
           news == IsRaw(e) \/ (ui.task = t /\ IsNews(r, k))
           v == IF ~IsRaw(e) /\ news THEN Enveloped(ui, ev, k) ELSE ui
           w == TextShown(v, t, e.batch)
           texts == IF ~news THEN e.batch
                    ELSE IF ev = "text" THEN Append(e.batch, <<r, k>>) ELSE <<>>
           goesOn == ev \notin Closing
           y == [e EXCEPT !.pos = k, !.listening = goesOn, !.batch = texts]
<1>1. e \in Subscriptions(G[t]) /\ e.listening /\ r # None
  BY DeliveredEvent
<1>2. t \in Tasks /\ e.kind # "idle" /\ r \in G[t] /\ r \in Runs /\ k \in Nat \ {0}
      /\ e.batch \in Texts(G[t])
  BY DeliveredEvent
<1>3. ev \in {"text", "held"} \cup Closing
  BY DeliveredEvent
<1>4. ui \in SomeViews(G[ui.task])
  BY StepParts
<1>5. v \in SomeViews(G[ui.task]) /\ v.task = ui.task
  BY <1>4, ToldType
<1>6. w \in SomeViews(G[ui.task]) /\ w.task = ui.task
  <2> HIDE DEF v, t, e
  <2> QED  BY <1>2, <1>5, TextShownType
<1>7. ViewsFit(G)' /\ ui'.task = ui.task
  <2>1. \/ ui' = ui \/ ui' = v \/ ui' = w
        \/ ev \in Ending /\ ui' = EndShown(w, t, ev)
    BY DEF Deliver
  <2>2. None \notin G[ui.task]
    BY StepParts
  <2>3. ui' \in SomeViews(G[ui.task]) /\ ui'.task = ui.task
    <3> HIDE DEF v, w, ev
    <3> QED  BY <1>4, <1>5, <1>6, <2>1, <2>2, EndShownType
  <2> QED  BY <2>3, CacheStays DEF Deliver
<1>8. SubsFit(G)'
  <2>1. texts \in Texts(G[t])
    <3>1. <<r, k>> \in G[t] \X Nat
      BY <1>2
    <3>2. Append(e.batch, <<r, k>>) \in Texts(G[t]) /\ <<>> \in Texts(G[t])
      <4> HIDE DEF e, t, r, k
      <4> QED  BY <1>2, <3>1 DEF Texts
    <3> QED  BY <1>2, <3>2
  <2>2. y \in Subscriptions(G[t]) /\ y.task = t
    <3>1. goesOn \in BOOLEAN
      OBVIOUS
    <3> HIDE DEF texts, goesOn, k
    <3> QED  BY <1>1, <1>2, <2>1, <3>1 DEF Subscriptions
  <2>3. AllFit(sub, G) /\ DOMAIN sub = Subs
    BY SubsFitBefore DEF Step, Plain, StoreTyped
  <2>4. SubsBecome([sub EXCEPT ![s] = y])
    BY DEF Deliver
  <2> HIDE DEF y, t
  <2>5. AllFit([sub EXCEPT ![s] = y], G)
    BY <2>2, <2>3, OneChangesFits
  <2> QED  BY <2>4, <2>5, SubsChange
<1>9. JobsFit(G)'
  <2>1. \A x \in work' : \/ x \in work
                         \/ ui.task = t /\ ev \in Ending /\ x = SettleJob(s, t, ev, w)
                         \/ x = FollowJob(t, r, 0)
    BY DEF Deliver, When
  <2> SUFFICES ASSUME NEW x \in work'  PROVE x \in work \/ x \in Jobs(G[x.task])
    BY JobsStay
  <2>2. CASE ui.task = t /\ ev \in Ending /\ x = SettleJob(s, t, ev, w)
    <3>1. x.task = t
      BY <2>2 DEF SettleJob
    <3> HIDE DEF w, ev, t
    <3> QED  BY <1>2, <1>6, <2>2, <3>1, NewSettleJob
  <2>3. CASE x = FollowJob(t, r, 0)
    <3>1. x.task = t
      BY <2>3 DEF FollowJob
    <3> QED  BY <1>2, <2>3, <3>1, NewJobs
  <2> QED  BY <2>1, <2>2, <2>3
<1> QED  BY <1>7, <1>8, <1>9, SavedStays DEF Deliver, core, Fits

LEMMA FlushFits ==
    ASSUME NEW F, NEW G, Step(F, G), NEW s \in Subs, Flush(s)
    PROVE  Fits(G)' /\ ui'.task = ui.task
<1>1. SavedFits(G)' /\ JobsFit(G)'
  BY SavedStays, JobsStay DEF Flush, core
<1>2. SubsFit(G)'
  BY SubsFitBefore, GivenUpFit, SubsChange DEF Flush
<1>3. ViewsFit(G)' /\ ui'.task = ui.task
  <2>1. sub[s] \in Subscriptions(G[sub[s].task])
    BY StepParts
  <2>2. sub[s].batch \in Texts(G[sub[s].task])
    BY <2>1, SubscriptionParts
  <2>3. ui' = TextShown(ui, sub[s].task, sub[s].batch)
    BY DEF Flush
  <2>4. ui' \in SomeViews(G[ui.task]) /\ ui'.task = ui.task
    BY <2>2, <2>3, StepParts, TextShownType
  <2> QED  BY <2>4, CacheStays DEF Flush
<1> QED  BY <1>1, <1>2, <1>3 DEF Fits

LEMMA SubmitFits ==
    ASSUME NEW F, NEW G, Step(F, G), NEW s \in Subs, Submit(s)
    PROVE  Fits(G)'
<1> DEFINE e == sub[s]
           t == e.task
           y == [e EXCEPT !.posting = FALSE, !.run = NewRun]
<1>1. e \in Subscriptions(G[t]) /\ e.posting
  BY StepParts DEF Submit
<1>2. t \in Tasks /\ e.kind # "idle"
  <2>1. t \in Tasks
    BY <1>1, SubscriptionParts, Zenon
  <2>2. e.kind # "idle"
    BY <1>1 DEF Subscriptions, Kinds
  <2> QED  BY <2>1, <2>2
<1>3. SavedFits(G)' /\ NewRun \in G[t]
  <2>1. saved[t] \in SomeMessages(G[t])
    BY <1>2, StepParts
  <2>2. TextOf(saved[t]) \in Texts(G[t]) /\ BeforeLastTurn(saved[t]) \in Texts(G[t])
    BY <2>1, TextOfType DEF SomeMessages, BeforeLastTurn
  <2> QED  BY <1>2, <2>2, RunBeginsFits DEF Submit, RunBegins
<1>4. SubsFit(G)'
  <2>1. y \in Subscriptions(G[t]) /\ y.task = t
    BY <1>1, <1>2, <1>3 DEF Subscriptions
  <2>2. AllFit(sub, G) /\ DOMAIN sub = Subs
    BY SubsFitBefore DEF Step, Plain, StoreTyped
  <2>3. SubsBecome([sub EXCEPT ![s] = y])
    <3>1. [sub EXCEPT ![s].posting = FALSE, ![s].run = NewRun] = [sub EXCEPT ![s] = y]
      BY <2>2
    <3> QED  BY <3>1 DEF Submit
  <2> HIDE DEF y, t
  <2>4. AllFit([sub EXCEPT ![s] = y], G)
    BY <2>1, <2>2, OneChangesFits
  <2> QED  BY <2>3, <2>4, SubsChange
<1>5. ViewsFit(G)' /\ JobsFit(G)'
  BY ViewsStay, JobsStay DEF Submit, view
<1> QED  BY <1>3, <1>4, <1>5 DEF Fits

LEMMA RefuseFits ==
    ASSUME NEW F, NEW G, Step(F, G), NEW s \in Subs, Refuse(s)
    PROVE  Fits(G)'
<1> DEFINE e == sub[s]
           t == e.task
           y == [e EXCEPT !.posting = FALSE, !.listening = FALSE]
<1>1. e \in Subscriptions(G[t]) /\ e.posting
  BY StepParts DEF Refuse
<1>2. t \in Tasks
  BY <1>1, SubscriptionParts, Zenon
<1>3. ViewsFit(G)' /\ SavedFits(G)'
  BY ViewsStay, SavedStays DEF Refuse, view, core
<1>4. SubsFit(G)'
  <2>1. y \in Subscriptions(G[t]) /\ y.task = t
    BY <1>1, QuietSubscription
  <2>2. AllFit(sub, G) /\ DOMAIN sub = Subs
    BY SubsFitBefore DEF Step, Plain, StoreTyped
  <2>3. SubsBecome([sub EXCEPT ![s] = y])
    <3>1. [sub EXCEPT ![s].posting = FALSE, ![s].listening = FALSE] = [sub EXCEPT ![s] = y]
      BY <2>2
    <3> QED  BY <3>1 DEF Refuse
  <2> HIDE DEF y, t
  <2>4. AllFit([sub EXCEPT ![s] = y], G)
    BY <2>1, <2>2, OneChangesFits
  <2> QED  BY <2>3, <2>4, SubsChange
<1>5. JobsFit(G)'
  <2>1. \A x \in work' : \/ x \in work
                         \/ ui.task = t /\ x = SettleJob(s, t, "failed", ui)
    BY DEF Refuse, When
  <2> SUFFICES ASSUME NEW x \in work'  PROVE x \in work \/ x \in Jobs(G[x.task])
    BY JobsStay
  <2>2. CASE ui.task = t /\ x = SettleJob(s, t, "failed", ui)
    <3>1. x.task = t
      BY <2>2 DEF SettleJob
    <3>2. ui \in SomeViews(G[t])
      BY <2>2, StepParts
    <3> HIDE DEF t
    <3> QED  BY <1>2, <2>2, <3>1, <3>2, NewSettleJob DEF Ending
  <2> QED  BY <2>1, <2>2
<1> QED  BY <1>3, <1>4, <1>5 DEF Fits

LEMMA AbortFits ==
    ASSUME NEW F, NEW G, Step(F, G), NEW s \in Subs, Abort(s)
    PROVE  Fits(G)'
<1> DEFINE e == sub[s]
           t == e.task
           y == [e EXCEPT !.posting = FALSE]
<1>1. e \in Subscriptions(G[t])
  BY StepParts
<1>2. y \in Subscriptions(G[t]) /\ y.task = t
  BY <1>1, QuietSubscription
<1>3. AllFit(sub, G) /\ DOMAIN sub = Subs
  BY SubsFitBefore DEF Step, Plain, StoreTyped
<1>4. SubsBecome([sub EXCEPT ![s] = y])
  <2>1. [sub EXCEPT ![s].posting = FALSE] = [sub EXCEPT ![s] = y]
    BY <1>3
  <2> QED  BY <2>1 DEF Abort
<1>5. SubsFit(G)'
  <2> HIDE DEF y, t
  <2>1. AllFit([sub EXCEPT ![s] = y], G)
    BY <1>2, <1>3, OneChangesFits
  <2> QED  BY <1>4, <2>1, SubsChange
<1>6. ViewsFit(G)' /\ SavedFits(G)' /\ JobsFit(G)'
  BY ViewsStay, SavedStays, JobsStay DEF Abort, view, core
<1> QED  BY <1>5, <1>6 DEF Fits

LEMMA StreamsFit ==
    ASSUME NEW F, NEW G, Step(F, G), Streams
    PROVE  Fits(G)'
BY DeliverFits, FlushFits, SubmitFits, RefuseFits, AbortFits DEF Streams

-----------------------------------------------------------------------------
(* The answers fit *)

LEMMA MessagesReadFits ==
    ASSUME NEW F, NEW G, Step(F, G), NEW j \in work, MessagesRead(j)
    PROVE  Fits(G)'
<1> DEFINE at == IF j.at = "sent" THEN "pageRead" ELSE "read"
           y == [j EXCEPT !.page = saved[j.task], !.at = at]
<1>1. j \in OpenJobs(G[j.task]) /\ saved[j.task] \in SomeMessages(G[j.task])
  BY StepParts, JobKinds DEF MessagesRead
<1>2. y \in OpenJobs(G[j.task]) /\ y.task = j.task
  BY <1>1 DEF OpenJobs
<1>3. Becomes(j, {y})
  BY DEF MessagesRead
<1>4. JobsFit(G)'
  <2> HIDE DEF y
  <2> QED  BY <1>2, <1>3, JobsChange DEF Jobs
<1> QED  BY <1>4, ViewsStay, SavedStays, SubsStay DEF MessagesRead, core, view, subs, Fits

LEMMA RunReadFits ==
    ASSUME NEW F, NEW G, Step(F, G), NEW j \in work, RunRead(j)
    PROVE  Fits(G)'
<1> DEFINE at == IF j.at = "sent" THEN "runRead" ELSE "read"
           y == [j EXCEPT !.run = ActiveRun(j.task), !.at = at]
<1>1. j \in OpenJobs(G[j.task])
  BY StepParts, JobKinds DEF RunRead
<1>2. ActiveRun(j.task) \in Snapshots(G[j.task])
  BY StepParts, ActiveRunType, SnapshotsGrow DEF Step
<1>3. y \in OpenJobs(G[j.task]) /\ y.task = j.task
  BY <1>1, <1>2 DEF OpenJobs
<1>4. Becomes(j, {y})
  BY DEF RunRead
<1>5. JobsFit(G)'
  <2> HIDE DEF y
  <2> QED  BY <1>3, <1>4, JobsChange DEF Jobs
<1> QED  BY <1>5, ViewsStay, SavedStays, SubsStay DEF RunRead, core, view, subs, Fits

\* What is loaded is the task's.
LEMMA LoadedViewFits ==
    ASSUME NEW F, NEW G, Step(F, G), NEW j \in work, j.op = "open"
    PROVE  /\ LoadedView(j) \in SomeViews(G[j.task]) /\ LoadedView(j).task = j.task
           /\ ResumeFrom(j) \in Nat /\ j.task \in Tasks
           /\ IsRunProcessing(j.run) => j.run.id \in G[j.task]
<1> DEFINE S == G[j.task]
           processes == IsRunProcessing(j.run)
           m == IF ResumesCached(j) THEN Messages(cache[j.task]) ELSE j.page
           snapshot == IF processes THEN [j.run EXCEPT !.cursor = ResumeFrom(j)] ELSE j.run
           n == IF ResumesCached(j) THEN cache[j.task].usage ELSE FreshUsage
           w == Showing(Blank, m)
           pauses == j.run.status = "PAUSING"
           stops == j.run.status = "PAUSED"
           v == [w EXCEPT !.task = j.task, !.run = snapshot, !.usage = n,
                          !.chatting = processes, !.pausing = pauses, !.stopped = stops]
<1>1. j \in OpenJobs(S) /\ j.task \in Tasks /\ cache[j.task] \in SomeViews(S)
  BY StepParts, JobKinds
<1>2. j.run \in Snapshots(S) /\ j.page \in SomeMessages(S)
  BY <1>1 DEF OpenJobs
<1>3. processes => j.run \in RunSnapshots(S)
  BY <1>2 DEF IsRunProcessing, Snapshots, NoRun
<1>4. ResumeFrom(j) \in Nat
  <2>1. cache[j.task].run \in Snapshots(S)
    BY <1>1 DEF SomeViews
  <2>2. cache[j.task].run.cursor \in Nat /\ j.run.replay \in Nat
    BY <1>2, <2>1 DEF Snapshots, RunSnapshots, NoRun
  <2> QED  BY <2>2 DEF ResumeFrom
<1>5. snapshot \in Snapshots(S)
  BY <1>2, <1>3, <1>4 DEF Snapshots, RunSnapshots
<1>6. n \in Nat
  BY <1>1, UsageIsFresh DEF SomeViews, Step, Plain, StoreTyped
<1>7. w \in SomeViews(S)
  <2>1. m \in SomeMessages(S)
    BY <1>1, <1>2, MessagesType
  <2>2. Blank \in SomeViews(S)
    BY BlankType
  <2> HIDE DEF m, S
  <2> QED  BY <2>1, <2>2, ShowingType
<1>8. v \in SomeViews(S) /\ v.task = j.task
  <2>1. processes \in BOOLEAN /\ pauses \in BOOLEAN /\ stops \in BOOLEAN
    BY DEF IsRunProcessing
  <2> HIDE DEF w, snapshot, n, processes, pauses, stops, S
  <2> QED  BY <1>1, <1>5, <1>6, <1>7, <2>1 DEF SomeViews, Grows
<1>9. LoadedView(j) = IF processes /\ ~v.open THEN WithNewAnswer(v) ELSE v
  BY DEF LoadedView, WithRunAssistant
<1>10. LoadedView(j) \in SomeViews(S) /\ LoadedView(j).task = j.task
  <2> HIDE DEF v, S
  <2> QED  BY <1>8, <1>9, WithNewAnswerType
<1>11. processes => j.run.id \in S
  BY <1>3 DEF RunSnapshots
<1> QED  BY <1>1, <1>4, <1>10, <1>11

LEMMA LoadedFits ==
    ASSUME NEW F, NEW G, Step(F, G), NEW j \in work, Loaded(j)
    PROVE  Fits(G)'
<1> DEFINE own == G[j.task]
           v == LoadedView(j)
           chunked == InChunks(j)
           w == [v EXCEPT !.hydrating = chunked]
           y == [j EXCEPT !.at = "chunk", !.run = NoRun, !.page = Messages(v)]
<1>1. /\ v \in SomeViews(own) /\ v.task = j.task /\ ResumeFrom(j) \in Nat /\ j.task \in Tasks
      /\ IsRunProcessing(j.run) => j.run.id \in own
  BY LoadedViewFits DEF Loaded
<1>2. w \in SomeViews(own) /\ w.task = j.task
  <2>1. chunked \in BOOLEAN
    BY DEF InChunks
  <2> HIDE DEF v, chunked
  <2> QED  BY <1>1, <2>1 DEF SomeViews, Grows
<1>3. ViewsFit(G)'
  <2>1. ui' = ui \/ ui' = w
    BY DEF Loaded
  <2>2. ui' \in SomeViews(G[ui'.task])
    <3> HIDE DEF w
    <3> QED  BY <1>2, <2>1, StepParts
  <2>3. cache' = [cache EXCEPT ![j.task] = v] /\ DOMAIN cache = Tasks
    BY DEF Loaded, Step, Plain, StoreTyped
  <2>4. \A t \in Tasks : cache'[t] \in SomeViews(G[t]) /\ cache'[t].task \in {None, t}
    <3> HIDE DEF v
    <3> QED  BY <1>1, <2>3, StepParts
  <2> QED  BY <2>2, <2>4 DEF ViewsFit
<1>4. SubsFit(G)'
  <2>1. CASE UNCHANGED subs
    BY <2>1, SubsStay DEF subs
  <2>2. CASE IsRunProcessing(j.run) /\ j.latest
    <3> DEFINE f == Unbatched(sub, current)
               x == Subscription("open", j.task, j.run.id, ResumeFrom(j))
    <3>1. AllFit(f, G) /\ DOMAIN f = Subs
      BY SubsFitBefore, GivenUpFit DEF Unbatched
    <3>2. x \in Subscriptions(own) /\ x.task = j.task
      <4>1. j.run.id \in own \cup {None} /\ j.task \in Tasks /\ ResumeFrom(j) \in Nat
        BY <1>1, <2>2
      <4>2. "open" \in Kinds
        BY DEF Kinds
      <4> HIDE DEF own
      <4>3. x \in Subscriptions(own)
        BY <4>1, <4>2, NewSubscription
      <4> QED  BY <4>3 DEF Subscription
    <3>3. SubsBecome([f EXCEPT ![NewSub] = x])
      BY <2>2 DEF Loaded
    <3> HIDE DEF f, x
    <3> QED  BY <3>1, <3>2, <3>3, OneChangesFits, SubsChange
  <2> QED  BY <2>1, <2>2 DEF Loaded
<1>5. JobsFit(G)'
  <2>1. j \in OpenJobs(own)
    BY StepParts, JobKinds DEF Loaded
  <2>2. y \in OpenJobs(own) /\ y.task = j.task
    <3>1. Messages(v) \in SomeMessages(own)
      BY <1>1, MessagesType
    <3> HIDE DEF v
    <3> QED  BY <2>1, <3>1 DEF OpenJobs, Snapshots
  <2>3. \A x \in work' : x \in work \/ x = y
    BY DEF Loaded, Becomes, When
  <2> HIDE DEF y
  <2> QED  BY <2>2, <2>3, JobsStay DEF Jobs
<1> QED  BY <1>3, <1>4, <1>5, SavedStays DEF Loaded, core, Fits

\* The job's runs may be shown where its answer is.
MayShow(G, j) == G[j.task] \subseteq G[ui.task]

LEMMA HydratedFits ==
    ASSUME NEW F, NEW G, Step(F, G), NEW j \in work, Hydrated(j), MayShow(G, j) \/ ~j.latest
    PROVE  Fits(G)' /\ ui'.task = ui.task
<1>1. ViewsFit(G)' /\ ui'.task = ui.task
  <2>1. CASE ~j.latest
    BY <2>1, ViewsStay DEF Hydrated
  <2>2. CASE j.latest
    <3> DEFINE w == Showing(ui, j.page)
    <3>1. j.page \in SomeMessages(G[j.task])
      BY StepParts, JobKinds DEF Hydrated, OpenJobs
    <3>2. j.page \in SomeMessages(G[ui.task])
      BY <2>2, <3>1, MessagesGrow DEF MayShow
    <3>3. w \in SomeViews(G[ui.task]) /\ w.task = ui.task
      BY <3>2, StepParts, ShowingType
    <3>4. ui' = [w EXCEPT !.hydrating = FALSE]
      BY <2>2 DEF Hydrated
    <3> HIDE DEF w
    <3>5. ui' \in SomeViews(G[ui.task]) /\ ui'.task = ui.task
      BY <3>3, <3>4 DEF SomeViews, Grows
    <3> QED  BY <3>5, CacheStays DEF Hydrated
  <2> QED  BY <2>1, <2>2
<1>2. JobsFit(G)'
  BY JobsChange DEF Hydrated
<1> QED  BY <1>1, <1>2, SavedStays, SubsStay DEF Hydrated, core, subs, Fits

LEMMA SettleReadFits ==
    ASSUME NEW F, NEW G, Step(F, G), NEW j \in work, SettleRead(j)
    PROVE  Fits(G)'
<1> DEFINE y == [j EXCEPT !.page = saved[j.task], !.at = "read"]
<1>1. j \in SettleJobs(G[j.task]) /\ saved[j.task] \in SomeMessages(G[j.task])
  BY StepParts, JobKinds DEF SettleRead
<1>2. y \in SettleJobs(G[j.task]) /\ y.task = j.task
  BY <1>1 DEF SettleJobs
<1>3. Becomes(j, {y})
  BY DEF SettleRead
<1>4. JobsFit(G)'
  <2> HIDE DEF y
  <2> QED  BY <1>2, <1>3, JobsChange DEF Jobs
<1> QED  BY <1>4, ViewsStay, SavedStays, SubsStay DEF SettleRead, core, view, subs, Fits

LEMMA SettleFits ==
    ASSUME NEW F, NEW G, Step(F, G), NEW j \in work, Settle(j)
    PROVE  Fits(G)' /\ ui'.task = ui.task
<1> DEFINE c == Reconciled(ui, j.page, j.event = "failed")
           v == [c EXCEPT !.usage = FreshUsage]
           lost == WithStatus(j.run, "FAILED")
           w == [v EXCEPT !.run = lost, !.chatting = FALSE, !.pausing = FALSE, !.stopped = FALSE]
<1>1. j \in SettleJobs(G[j.task])
  BY StepParts, JobKinds DEF Settle
<1>2. ViewsFit(G)' /\ ui'.task = ui.task
  <2>1. CASE ~IsCurrentSettlement(j)
    BY <2>1, ViewsStay DEF Settle
  <2>2. CASE IsCurrentSettlement(j)
    <3>1. ui.task = j.task /\ ui \in SomeViews(G[j.task])
      BY <2>2, StepParts DEF IsCurrentSettlement
    <3>2. c \in SomeViews(G[j.task]) /\ c.task = j.task
      BY <1>1, <3>1, ReconciledType DEF SettleJobs
    <3>3. FreshUsage \in Nat
      BY UsageIsFresh DEF Step, Plain, StoreTyped
    <3>4. v \in SomeViews(G[j.task]) /\ v.task = j.task
      <4> HIDE DEF c
      <4> QED  BY <3>2, <3>3 DEF SomeViews, Grows
    <3>5. lost \in Snapshots(G[j.task])
      <4>1. j.run \in Snapshots(G[j.task]) /\ None \notin G[j.task]
        BY <1>1, StepParts DEF SettleJobs
      <4> QED  BY <4>1, WithStatusType DEF Statuses
    <3>6. w \in SomeViews(G[j.task]) /\ w.task = j.task
      <4> HIDE DEF v, lost
      <4> QED  BY <3>4, <3>5 DEF SomeViews, Grows
    <3>7. ui' = v \/ ui' = w
      BY <2>2 DEF Settle
    <3>8. ui' \in SomeViews(G[ui'.task]) /\ ui'.task = j.task
      <4> HIDE DEF v, w
      <4> QED  BY <3>4, <3>6, <3>7
    <3> QED  BY <3>1, <3>8, CacheStays DEF Settle
  <2> QED  BY <2>1, <2>2
<1>3. SubsFit(G)'
  <2>1. CASE UNCHANGED subs
    BY <2>1, SubsStay DEF subs
  <2>2. CASE \E f \in {sub, Unsubscribed(sub, j.sub)} : SubsBecome(Resolved(f, j.sub))
    BY <2>2, SubsFitBefore, GivenUpFit, SubsChange
  <2> QED  BY <2>1, <2>2 DEF Settle
<1>4. JobsFit(G)'
  BY TailsFit, JobsChange DEF Settle
<1> QED  BY <1>2, <1>3, <1>4, SavedStays DEF Settle, core, Fits

LEMMA ProbeReadFits ==
    ASSUME NEW F, NEW G, Step(F, G), NEW j \in work, ProbeRead(j)
    PROVE  Fits(G)'
<1> DEFINE y == [j EXCEPT !.run = ActiveRun(j.task), !.at = "read"]
<1>1. j \in ProbeJobs(G[j.task]) /\ ActiveRun(j.task) \in Snapshots(G[j.task])
  BY StepParts, JobKinds, ActiveRunType, SnapshotsGrow DEF Step, ProbeRead
<1>2. y \in ProbeJobs(G[j.task]) /\ y.task = j.task
  BY <1>1 DEF ProbeJobs
<1>3. Becomes(j, {y})
  BY DEF ProbeRead
<1>4. JobsFit(G)'
  <2> HIDE DEF y
  <2> QED  BY <1>2, <1>3, JobsChange DEF Jobs
<1> QED  BY <1>4, ViewsStay, SavedStays, SubsStay DEF ProbeRead, core, view, subs, Fits

LEMMA ProbedFits ==
    ASSUME NEW F, NEW G, Step(F, G), NEW j \in work, Probed(j)
    PROVE  Fits(G)' /\ ui'.task = ui.task
<1>1. j.run \in Snapshots(G[j.task])
  BY StepParts, JobKinds DEF Probed, ProbeJobs
<1>2. ui' \in SomeViews(G[ui.task]) /\ ui'.task = ui.task
  BY <1>1, StepParts DEF Probed, SomeViews, Grows
<1>3. ViewsFit(G)' /\ ui'.task = ui.task
  BY <1>2, CacheStays DEF Probed
<1>4. JobsFit(G)'
  BY JobsChange DEF Probed
<1> QED  BY <1>3, <1>4, SavedStays, SubsStay DEF Probed, core, subs, Fits

\* A new task begins with nothing of what was on show.
CreatedView(j) ==
    [Showing(ui, NoMessages) EXCEPT !.task = j.task, !.run = NoRun,
        !.usage = FreshUsage, !.pausing = FALSE, !.hydrating = FALSE]

LEMMA CreatedViewFits ==
    ASSUME NEW F, NEW G, Step(F, G), NEW j \in work, NEW v, v = CreatedView(j)
    PROVE  /\ v \in SomeViews(G[j.task]) /\ v.task = j.task /\ j.task \in Tasks
           /\ WithNewAnswer(v) \in SomeViews(G[j.task]) /\ WithNewAnswer(v).task = j.task
<1> DEFINE w == Showing(ui, NoMessages)
<1>1. j.task \in Tasks /\ ui \in SomeViews(G[ui.task])
  BY StepParts
<1>2. w \in SomeViews(G[ui.task]) /\ w.past = <<>> /\ w.answer = <<>>
  <2>1. NoMessages \in SomeMessages(G[ui.task])
    BY NoMessagesType
  <2>2. w \in SomeViews(G[ui.task])
    BY <1>1, <2>1, ShowingType
  <2>3. w.past = <<>> /\ w.answer = <<>>
    BY <1>1 DEF Showing, NoMessages, SomeViews
  <2> QED  BY <2>2, <2>3
<1>3. v \in SomeViews(G[j.task]) /\ v.task = j.task
  <2>1. FreshUsage \in Nat /\ NoRun \in Snapshots(G[j.task]) /\ <<>> \in Texts(G[j.task])
    BY UsageIsFresh DEF Step, Plain, StoreTyped, Snapshots, Texts
  <2> DEFINE y == [w EXCEPT !.task = j.task, !.run = NoRun, !.usage = FreshUsage,
                            !.pausing = FALSE, !.hydrating = FALSE]
  <2>2. v = y
    BY DEF CreatedView
  <2>3. y \in SomeViews(G[j.task]) /\ y.task = j.task
    <3> HIDE DEF w
    <3> QED  BY <1>1, <1>2, <2>1 DEF SomeViews, Grows
  <2> HIDE DEF y
  <2> QED  BY <2>2, <2>3
<1>4. WithNewAnswer(v) \in SomeViews(G[j.task]) /\ WithNewAnswer(v).task = j.task
  BY <1>3, WithNewAnswerType
<1> QED  BY <1>1, <1>3, <1>4

LEMMA CreatedIs ==
    ASSUME NEW j \in work, NEW v, v = CreatedView(j), Created(j)
    PROVE  \/ Stream(WithNewAnswer(v), work \ {j}, "send", None)
           \/ ui' = v /\ Becomes(j, {}) /\ UNCHANGED subs
BY DEF Created, CreatedView

LEMMA CreatedFits ==
    ASSUME NEW F, NEW G, Step(F, G), NEW j \in work, Created(j)
    PROVE  Fits(G)' /\ ui'.task = j.task
<1>1. PICK v : v = CreatedView(j)
  OBVIOUS
<1>2. ui' \in SomeViews(G[ui'.task]) /\ SubsFit(G)' /\ JobsFit(G)' /\ ui'.task = j.task
  <2>1. CASE Stream(WithNewAnswer(v), work \ {j}, "send", None)
    BY <1>1, <2>1, CreatedViewFits, StreamFits
  <2>2. CASE ui' = v /\ Becomes(j, {}) /\ UNCHANGED subs
    <3>1. SubsFit(G)' /\ JobsFit(G)'
      BY <2>2, SubsStay, JobsChange DEF subs
    <3> QED  BY <1>1, <2>2, <3>1, CreatedViewFits
  <2> QED  BY <1>1, <2>1, <2>2, CreatedIs
<1> QED  BY <1>2, CacheStays, SavedStays DEF Created, Fits

LEMMA FollowOpensFits ==
    ASSUME NEW F, NEW G, Step(F, G), NEW j \in work, FollowOpens(j)
    PROVE  Fits(G)'
<1>1. ViewsFit(G)' /\ SubsFit(G)' /\ JobsFit(G)'
  BY StepParts, OpenTaskFits DEF FollowOpens
<1> QED  BY <1>1, SavedStays DEF FollowOpens, core, Fits

LEMMA FollowAgainFits ==
    ASSUME NEW F, NEW G, Step(F, G), NEW j \in work, FollowAgain(j)
    PROVE  Fits(G)'
<1>1. \A x \in work' : x \in work \/ x = FollowJob(j.task, j.finished, j.tries + 1)
  BY DEF FollowAgain, Becomes, When
<1>2. j \in FollowJobs
  BY StepParts, JobKinds DEF FollowAgain
<1>3. FollowJob(j.task, j.finished, j.tries + 1) \in FollowJobs
  BY <1>2 DEF FollowJob, FollowJobs
<1>4. JobsFit(G)'
  BY <1>1, <1>3, JobsStay DEF Jobs
<1> QED  BY <1>4, ViewsStay, SavedStays, SubsStay DEF FollowAgain, core, view, subs, Fits

LEMMA InputQueuedFits ==
    ASSUME NEW F, NEW G, Step(F, G), NEW j \in work, InputQueued(j)
    PROVE  Fits(G)'
<1>1. j \in EnqueueJobs /\ j.task \in Tasks
  BY StepParts, JobKinds DEF InputQueued
<1>2. SavedFits(G)'
  <2>1. CASE RunBegins(j.task)
    <3>1. TextOf(saved[j.task]) \in Texts(G[j.task])
      BY <1>1, StepParts, TextOfType DEF SomeMessages
    <3> QED  BY <1>1, <2>1, <3>1, RunBeginsFits DEF RunBegins
  <2>2. CASE UNCHANGED saved
    BY <2>2, SavedStays
  <2> QED  BY <2>1, <2>2 DEF InputQueued
<1>3. JobsFit(G)'
  <2> DEFINE y == [j EXCEPT !.claimed = TRUE, !.at = "answered"]
             z == [j EXCEPT !.at = "answered"]
  <2>1. y \in EnqueueJobs /\ z \in EnqueueJobs
    BY <1>1 DEF EnqueueJobs
  <2>2. Becomes(j, {y}) \/ Becomes(j, {z})
    BY DEF InputQueued
  <2> HIDE DEF y, z
  <2> QED  BY <2>1, <2>2, JobsChange DEF Jobs
<1> QED  BY <1>2, <1>3, ViewsStay, SubsStay DEF InputQueued, view, subs, Fits

LEMMA EnqueuedFits ==
    ASSUME NEW F, NEW G, Step(F, G), NEW j \in work, Enqueued(j)
    PROVE  Fits(G)'
<1>1. \A x \in work' : x \in work \/ x = FollowJob(j.task, ui.run.id, 0)
  BY DEF Enqueued, Becomes, When
<1>2. j.task \in Tasks /\ ui.run \in Snapshots(G[ui.task]) /\ G[ui.task] \subseteq Runs
  BY StepParts DEF SomeViews
<1>3. ui.run.id \in Runs \cup {None}
  BY <1>2 DEF Snapshots, RunSnapshots, NoRun
<1>4. FollowJob(j.task, ui.run.id, 0) \in FollowJobs
  BY <1>2, <1>3 DEF FollowJob, FollowJobs
<1>5. JobsFit(G)'
  BY <1>1, <1>4, JobsStay DEF Jobs
<1> QED  BY <1>5, ViewsStay, SavedStays, SubsStay DEF Enqueued, core, view, subs, Fits

LEMMA StopFoundFits ==
    ASSUME NEW F, NEW G, Step(F, G), NEW j \in work, StopFound(j)
    PROVE  Fits(G)' /\ ui'.task = ui.task
<1> DEFINE x == ActiveRun(j.task)
           y == [j EXCEPT !.run = x, !.at = "pausing"]
           lost == WithStatus(x, "PAUSING")
<1>1. j \in StopJobs(G[j.task]) /\ x \in RunSnapshots(G[j.task]) /\ None \notin G[j.task]
  <2>1. x \in RunSnapshots(F[j.task])
    BY StepParts, ActiveRunType DEF Step, StopFound
  <2> QED  BY <2>1, StepParts, JobKinds, SnapshotsGrow DEF StopFound
<1>2. y \in StopJobs(G[j.task]) /\ y.task = j.task
  <2> HIDE DEF x
  <2> QED  BY <1>1 DEF StopJobs
<1>3. ViewsFit(G)' /\ ui'.task = ui.task
  <2>1. lost \in Snapshots(G[j.task])
    <3> HIDE DEF x
    <3> QED  BY <1>1, WithStatusType DEF Snapshots, Statuses, ActiveStatuses
  <2>2. ui' = ui \/ (ui.task = j.task /\ ui' = [ui EXCEPT !.run = lost])
    BY DEF StopFound
  <2> HIDE DEF lost
  <2>3. ui' \in SomeViews(G[ui.task]) /\ ui'.task = ui.task
    BY <2>1, <2>2, StepParts DEF SomeViews, Grows
  <2> QED  BY <2>3, CacheStays DEF StopFound
<1>4. JobsFit(G)'
  <2>1. Becomes(j, {y})
    BY DEF StopFound
  <2> HIDE DEF y
  <2> QED  BY <1>2, <2>1, JobsChange DEF Jobs
<1> QED  BY <1>3, <1>4, SavedStays, SubsStay DEF StopFound, core, subs, Fits

LEMMA PauseRunFits ==
    ASSUME NEW F, NEW G, Step(F, G), NEW j \in work, PauseRun(j)
    PROVE  Fits(G)'
<1> DEFINE r == j.run.id
           x == [id |-> r, status |-> run'[r].status,
                 cursor |-> Len(run'[r].log), replay |-> run'[r].replay]
           y == [j EXCEPT !.run = x, !.at = "answered"]
<1>1. j \in StopJobs(G[j.task])
  BY StepParts, JobKinds DEF PauseRun
<1>2. r \in F[j.task] /\ j.task \in Tasks /\ RunsKeepTasks
  BY PauseCoreTyped DEF Step
<1>3. r \in Runs /\ run[r].status # "new" /\ r \in G[j.task]
  BY <1>2, FamilyTypes, StepParts DEF Step, Started
<1>4. run'[r].status \in Statuses /\ run'[r].replay \in Nat /\ Len(run'[r].log) \in Nat
  <2>1. run'[r].status # "new"
    BY <1>2, <1>3 DEF RunsKeepTasks
  <2>2. run'[r] \in [task : Tasks \cup {None}, status : Statuses \cup {"new"}, log : Logs,
                     text : Texts(Runs), replay : Nat]
    BY <1>3 DEF Step, Plain, CoreTyped, RunsTyped
  <2>3. run'[r].log \in Logs
    BY <2>2
  <2>4. Len(run'[r].log) \in Nat
    BY <2>3 DEF Logs
  <2> QED  BY <2>1, <2>2, <2>4
<1>5. x \in RunSnapshots(G[j.task])
  BY <1>3, <1>4 DEF RunSnapshots
<1>6. y \in StopJobs(G[j.task]) /\ y.task = j.task
  <2> HIDE DEF x
  <2> QED  BY <1>1, <1>5 DEF StopJobs, Snapshots
<1>7. JobsFit(G)'
  <2>1. Becomes(j, {y})
    BY DEF PauseRun
  <2> HIDE DEF y
  <2> QED  BY <1>6, <2>1, JobsChange DEF Jobs
<1>8. SavedFits(G)'
  BY SavedStays DEF PauseRun
<1> QED  BY <1>7, <1>8, ViewsStay, SubsStay DEF PauseRun, view, subs, Fits

LEMMA SettlePauseFits ==
    ASSUME NEW F, NEW G, Step(F, G), NEW j \in work, j \in StopJobs(G[j.task]),
           NEW v \in SomeViews(G[ui.task]), v.task = ui.task,
           NEW snapshot \in Snapshots(G[j.task]), SettlePause(v, j, snapshot)
    PROVE  ui' \in SomeViews(G[ui.task]) /\ ui'.task = ui.task /\ SubsFit(G)' /\ JobsFit(G)'
<1> DEFINE shown == IF current = None THEN v
                    ELSE TextShown(v, sub[current].task, sub[current].batch)
           paused == snapshot.status = "PAUSED"
           w == [shown EXCEPT !.run = snapshot, !.chatting = FALSE, !.pausing = FALSE,
                              !.stopped = paused]
           y == [j EXCEPT !.run = snapshot, !.at = "settling"]
<1>1. shown \in SomeViews(G[ui.task]) /\ shown.task = ui.task
  <2>1. CASE current = None
    BY <2>1
  <2>2. CASE current # None
    <3>1. current \in Subs
      BY <2>2 DEF Step, Plain, StoreTyped
    <3>2. sub[current] \in Subscriptions(G[sub[current].task])
      BY <3>1, StepParts
    <3>3. sub[current].batch \in Texts(G[sub[current].task])
      BY <3>2, SubscriptionParts
    <3> QED  BY <2>2, <3>3, TextShownType
  <2> QED  BY <2>1, <2>2
<1>2. ui' = shown \/ (ui.task = j.task /\ ui' = w)
  BY DEF SettlePause
<1>3. ui' \in SomeViews(G[ui.task]) /\ ui'.task = ui.task
  <2>1. paused \in BOOLEAN
    OBVIOUS
  <2> HIDE DEF shown, paused
  <2> QED  BY <1>1, <1>2, <2>1 DEF SomeViews, Grows
<1>4. SubsFit(G)'
  BY SubsFitBefore, GivenUpFit, SubsChange DEF SettlePause
<1>5. JobsFit(G)'
  <2>1. y \in StopJobs(G[j.task]) /\ y.task = j.task
    BY DEF StopJobs
  <2>2. Becomes(j, {y})
    BY DEF SettlePause
  <2> HIDE DEF y
  <2> QED  BY <2>1, <2>2, JobsChange DEF Jobs
<1> QED  BY <1>3, <1>4, <1>5

LEMMA PauseAnsweredFits ==
    ASSUME NEW F, NEW G, Step(F, G), NEW j \in work, PauseAnswered(j)
    PROVE  Fits(G)' /\ ui'.task = ui.task
<1> DEFINE pauses == j.run.status = "PAUSING"
           v == IF ui.task = j.task THEN [ui EXCEPT !.run = j.run, !.pausing = pauses] ELSE ui
<1>1. j \in StopJobs(G[j.task]) /\ j.run \in Snapshots(G[j.task])
  BY StepParts, JobKinds DEF PauseAnswered, StopJobs, Snapshots
<1>2. v \in SomeViews(G[ui.task]) /\ v.task = ui.task
  <2>1. pauses \in BOOLEAN
    OBVIOUS
  <2> HIDE DEF pauses
  <2> QED  BY <1>1, <2>1, StepParts DEF SomeViews, Grows
<1>3. ui' \in SomeViews(G[ui.task]) /\ ui'.task = ui.task /\ SubsFit(G)' /\ JobsFit(G)'
  <2>1. CASE ui' = v /\ Becomes(j, {}) /\ UNCHANGED subs
    BY <1>2, <2>1, SubsStay, JobsChange DEF subs
  <2>2. CASE SettlePause(v, j, j.run)
    <3> HIDE DEF v
    <3> QED  BY <1>1, <1>2, <2>2, SettlePauseFits
  <2> QED  BY <2>1, <2>2 DEF PauseAnswered
<1>4. ViewsFit(G)' /\ ui'.task = ui.task
  BY <1>3, CacheStays DEF PauseAnswered
<1> QED  BY <1>3, <1>4, SavedStays DEF PauseAnswered, core, Fits

LEMMA StopGivesUpFits ==
    ASSUME NEW F, NEW G, Step(F, G), NEW j \in work, StopGivesUp(j)
    PROVE  Fits(G)' /\ ui'.task = ui.task
<1> DEFINE v == IF ui.task = j.task
                THEN [ui EXCEPT !.run = NoRun, !.chatting = FALSE, !.pausing = FALSE] ELSE ui
<1>1. j \in StopJobs(G[j.task]) /\ NoRun \in Snapshots(G[j.task])
      /\ NoRun \in Snapshots(G[ui.task])
  BY StepParts, JobKinds DEF StopGivesUp, Snapshots
<1>2. v \in SomeViews(G[ui.task]) /\ v.task = ui.task
  BY <1>1, StepParts DEF SomeViews, Grows
<1>3. ui' \in SomeViews(G[ui.task]) /\ ui'.task = ui.task /\ SubsFit(G)' /\ JobsFit(G)'
  <2>1. CASE ui' = v /\ Becomes(j, {}) /\ UNCHANGED subs
    BY <1>2, <2>1, SubsStay, JobsChange DEF subs
  <2>2. CASE SettlePause(ui, j, NoRun)
    BY <1>1, <2>2, StepParts, SettlePauseFits
  <2> QED  BY <2>1, <2>2 DEF StopGivesUp
<1>4. ViewsFit(G)' /\ ui'.task = ui.task
  BY <1>3, CacheStays DEF StopGivesUp
<1> QED  BY <1>3, <1>4, SavedStays DEF StopGivesUp, core, Fits

LEMMA PauseReadFits ==
    ASSUME NEW F, NEW G, Step(F, G), NEW j \in work, PauseRead(j)
    PROVE  Fits(G)'
<1> DEFINE y == [j EXCEPT !.page = saved[j.task], !.at = "read"]
<1>1. j \in StopJobs(G[j.task]) /\ saved[j.task] \in SomeMessages(G[j.task])
  BY StepParts, JobKinds DEF PauseRead
<1>2. y \in StopJobs(G[j.task]) /\ y.task = j.task
  BY <1>1 DEF StopJobs, Snapshots
<1>3. Becomes(j, {y})
  BY DEF PauseRead
<1>4. JobsFit(G)'
  <2> HIDE DEF y
  <2> QED  BY <1>2, <1>3, JobsChange DEF Jobs
<1> QED  BY <1>4, ViewsStay, SavedStays, SubsStay DEF PauseRead, core, view, subs, Fits

LEMMA PauseSettledFits ==
    ASSUME NEW F, NEW G, Step(F, G), NEW j \in work, PauseSettled(j)
    PROVE  Fits(G)' /\ ui'.task = ui.task
<1> DEFINE v == IF ui.task = j.task
                THEN [Reconciled(ui, j.page, j.run.status = "PAUSED") EXCEPT
                         !.usage = FreshUsage]
                ELSE ui
           held == resolver # None /\ current = resolver
           w == TextShown(v, sub[resolver].task, sub[resolver].batch)
<1>1. v \in SomeViews(G[ui.task]) /\ v.task = ui.task
  <2>1. CASE ui.task # j.task
    BY <2>1, StepParts
  <2>2. CASE ui.task = j.task
    <3> DEFINE x == Reconciled(ui, j.page, j.run.status = "PAUSED")
    <3>1. j.page \in SomeMessages(G[j.task]) /\ ui \in SomeViews(G[j.task])
      BY <2>2, StepParts, JobKinds DEF PauseSettled, StopJobs
    <3>2. x \in SomeViews(G[j.task]) /\ x.task = j.task
      BY <2>2, <3>1, ReconciledType
    <3>3. v = [x EXCEPT !.usage = FreshUsage] /\ FreshUsage \in Nat
      BY <2>2, UsageIsFresh DEF Step, Plain, StoreTyped
    <3> HIDE DEF x, v
    <3>4. v \in SomeViews(G[j.task]) /\ v.task = j.task
      BY <3>2, <3>3 DEF SomeViews, Grows
    <3> QED  BY <2>2, <3>4
  <2> QED  BY <2>1, <2>2
<1>2. held => w \in SomeViews(G[ui.task]) /\ w.task = ui.task
  <2> HAVE held
  <2>1. resolver \in Subs
    BY DEF Step, Plain, StoreTyped
  <2>2. sub[resolver] \in Subscriptions(G[sub[resolver].task])
    BY <2>1, StepParts
  <2>3. sub[resolver].batch \in Texts(G[sub[resolver].task])
    BY <2>2, SubscriptionParts
  <2> HIDE DEF v
  <2> QED  BY <1>1, <2>3, TextShownType
<1>3. ViewsFit(G)' /\ ui'.task = ui.task
  <2>1. ui' = IF held THEN w ELSE v
    BY DEF PauseSettled
  <2> HIDE DEF v, w, held
  <2>2. ui' \in SomeViews(G[ui.task]) /\ ui'.task = ui.task
    BY <1>1, <1>2, <2>1
  <2> QED  BY <2>2, CacheStays DEF PauseSettled
<1>4. SubsFit(G)'
  <2>1. PICK f \in {sub, Unsubscribed(sub, resolver)} : SubsBecome(Resolved(f, resolver))
    BY DEF PauseSettled
  <2>2. AllFit(f, G)
    BY SubsFitBefore, GivenUpFit
  <2> QED  BY <2>1, <2>2, GivenUpFit, SubsChange
<1>5. JobsFit(G)'
  BY TailsFit, JobsChange DEF PauseSettled
<1> QED  BY <1>3, <1>4, <1>5, SavedStays DEF PauseSettled, core, Fits

LEMMA ResumeRunFits ==
    ASSUME NEW F, NEW G, Step(F, G), NEW j \in work, ResumeRun(j)
    PROVE  Fits(G)'
<1> DEFINE r == j.run.id
           x == [id |-> r, status |-> "RUNNING",
                 cursor |-> Len(run[r].log), replay |-> run'[r].replay]
           y == [j EXCEPT !.run = x, !.at = "accepted"]
<1>1. j \in ResumeJobs(G[j.task]) /\ r \in G[j.task] /\ r \in Runs
  <2>1. j \in ResumeJobs(G[j.task]) /\ j.task \in Tasks
    BY StepParts, JobKinds DEF ResumeRun
  <2>2. r \in G[j.task]
    BY <2>1 DEF ResumeJobs, RunSnapshots
  <2> QED  BY <2>1, <2>2, StepParts
<1>2. x \in RunSnapshots(G[j.task])
  <2>1. run'[r].replay \in Nat
    BY <1>1 DEF Step, Plain, CoreTyped, RunsTyped
  <2> QED  BY <1>1, <2>1, RunTypes DEF RunSnapshots, Statuses, ActiveStatuses, Step
<1>3. y \in ResumeJobs(G[j.task]) /\ y.task = j.task
  <2> HIDE DEF x
  <2> QED  BY <1>1, <1>2 DEF ResumeJobs
<1>4. JobsFit(G)'
  <2>1. Becomes(j, {y})
    BY DEF ResumeRun
  <2> HIDE DEF y
  <2> QED  BY <1>3, <2>1, JobsChange DEF Jobs
<1> QED  BY <1>4, ViewsStay, SavedStays, SubsStay DEF ResumeRun, view, subs, Fits

LEMMA ResumedFits ==
    ASSUME NEW F, NEW G, Step(F, G), NEW j \in work, Resumed(j), MayShow(G, j)
    PROVE  Fits(G)' /\ ui'.task = ui.task
<1>1. j \in ResumeJobs(G[j.task]) /\ j.task \in Tasks
  BY StepParts, JobKinds DEF Resumed
<1>2. /\ j.run \in RunSnapshots(G[j.task]) /\ j.run.id \in G[j.task] \cup {None}
      /\ j.run.replay \in Nat
  BY <1>1 DEF ResumeJobs, RunSnapshots
<1>3. ViewsFit(G)' /\ ui'.task = ui.task
  <2> DEFINE x == [j.run EXCEPT !.cursor = j.run.replay]
  <2>1. x \in Snapshots(G[ui.task])
    <3>1. x \in RunSnapshots(G[j.task])
      BY <1>2 DEF RunSnapshots
    <3> HIDE DEF x
    <3> QED  BY <3>1, SnapshotsGrow DEF MayShow, Snapshots
  <2>2. ui' = [ui EXCEPT !.run = x]
    BY DEF Resumed
  <2>3. ui' \in SomeViews(G[ui.task]) /\ ui'.task = ui.task
    <3> HIDE DEF x
    <3> QED  BY <2>1, <2>2, StepParts DEF SomeViews, Grows
  <2> QED  BY <2>3, CacheStays DEF Resumed
<1>4. SubsFit(G)'
  <2> DEFINE f == Unbatched(sub, current)
             x == Subscription("resume", j.task, j.run.id, j.run.replay)
  <2>1. AllFit(f, G) /\ DOMAIN f = Subs
    BY SubsFitBefore, GivenUpFit DEF Unbatched
  <2>2. x \in Subscriptions(G[j.task])
    <3>1. "resume" \in Kinds
      BY DEF Kinds
    <3> QED  BY <1>1, <1>2, <3>1, NewSubscription
  <2>3. x.task = j.task
    BY DEF Subscription
  <2>4. SubsBecome([f EXCEPT ![NewSub] = x])
    BY DEF Resumed
  <2> HIDE DEF f, x
  <2> QED  BY <2>1, <2>2, <2>3, <2>4, OneChangesFits, SubsChange
<1>5. JobsFit(G)'
  BY JobsChange DEF Resumed
<1> QED  BY <1>3, <1>4, <1>5, SavedStays DEF Resumed, core, Fits

LEMMA ResumeRefusedFits ==
    ASSUME NEW F, NEW G, Step(F, G), NEW j \in work, ResumeRefused(j)
    PROVE  Fits(G)' /\ ui'.task = ui.task
<1> DEFINE w == Showing(ui, j.page)
<1>1. j \in ResumeJobs(G[j.task])
  BY StepParts, JobKinds DEF ResumeRefused
<1>2. ViewsFit(G)' /\ ui'.task = ui.task
  <2>1. CASE ui.task # j.task
    BY <2>1, ViewsStay DEF ResumeRefused
  <2>2. CASE ui.task = j.task
    <3>1. j.page \in SomeMessages(G[j.task]) /\ j.run \in Snapshots(G[j.task])
      BY <1>1 DEF ResumeJobs, Snapshots
    <3>2. w \in SomeViews(G[j.task]) /\ w.task = j.task
      BY <2>2, <3>1, StepParts, ShowingType
    <3>3. ui' = [w EXCEPT !.run = j.run, !.chatting = FALSE, !.stopped = TRUE]
      BY <2>2 DEF ResumeRefused
    <3> HIDE DEF w
    <3>4. ui' \in SomeViews(G[j.task]) /\ ui'.task = j.task
      BY <3>1, <3>2, <3>3 DEF SomeViews, Grows
    <3> QED  BY <3>4, CacheStays DEF ResumeRefused
  <2> QED  BY <2>1, <2>2
<1>3. JobsFit(G)'
  BY JobsChange DEF ResumeRefused
<1> QED  BY <1>2, <1>3, SavedStays, SubsStay DEF ResumeRefused, core, subs, Fits

LEMMA CompactionReadFits ==
    ASSUME NEW F, NEW G, Step(F, G), NEW j \in work, CompactionRead(j)
    PROVE  Fits(G)'
<1> DEFINE y == [j EXCEPT !.page = saved[j.task], !.at = "read"]
<1>1. j \in CompactJobs(G[j.task]) /\ saved[j.task] \in SomeMessages(G[j.task])
  BY StepParts, JobKinds DEF CompactionRead
<1>2. y \in CompactJobs(G[j.task]) /\ y.task = j.task
  BY <1>1 DEF CompactJobs
<1>3. Becomes(j, {y})
  BY DEF CompactionRead
<1>4. JobsFit(G)'
  <2> HIDE DEF y
  <2> QED  BY <1>2, <1>3, JobsChange DEF Jobs
<1> QED  BY <1>4, ViewsStay, SavedStays, SubsStay DEF CompactionRead, core, view, subs, Fits

LEMMA CompactedFits ==
    ASSUME NEW F, NEW G, Step(F, G), NEW j \in work, Compacted(j), MayShow(G, j)
    PROVE  Fits(G)' /\ ui'.task = ui.task
<1> DEFINE w == Showing(ui, j.page)
<1>1. j.page \in SomeMessages(G[ui.task])
  <2>1. j.page \in SomeMessages(G[j.task])
    BY StepParts, JobKinds DEF Compacted, CompactJobs
  <2> QED  BY <2>1, MessagesGrow DEF MayShow
<1>2. w \in SomeViews(G[ui.task]) /\ w.task = ui.task
  <2>1. ui \in SomeViews(G[ui.task])
    BY StepParts
  <2> QED  BY <1>1, <2>1, ShowingType
<1>3. ui' = [w EXCEPT !.compacting = FALSE, !.usage = FreshUsage] /\ FreshUsage \in Nat
  BY UsageIsFresh DEF Compacted, Step, Plain, StoreTyped
<1>4. ui' \in SomeViews(G[ui.task]) /\ ui'.task = ui.task
  <2> HIDE DEF w
  <2> QED  BY <1>2, <1>3 DEF SomeViews, Grows
<1>5. ViewsFit(G)' /\ JobsFit(G)' /\ ui'.task = ui.task
  BY <1>4, CacheStays, JobsChange DEF Compacted
<1> QED  BY <1>5, SavedStays, SubsStay DEF Compacted, core, subs, Fits

LEMMA CompactionRefusedFits ==
    ASSUME NEW F, NEW G, Step(F, G), NEW j \in work, CompactionRefused(j)
    PROVE  Fits(G)' /\ ui'.task = ui.task
<1>1. PICK w \in {ui, WithNewAnswer(ui)} : ui' = [w EXCEPT !.compacting = FALSE]
  BY DEF CompactionRefused, When
<1>2. w \in SomeViews(G[ui.task]) /\ w.task = ui.task
  BY StepParts, WithNewAnswerType
<1>3. ui' \in SomeViews(G[ui.task]) /\ ui'.task = ui.task
  BY <1>1, <1>2 DEF SomeViews, Grows
<1>4. ViewsFit(G)' /\ ui'.task = ui.task
  BY <1>3, CacheStays DEF CompactionRefused
<1>5. JobsFit(G)'
  BY JobsChange DEF CompactionRefused
<1> QED  BY <1>4, <1>5, SavedStays, SubsStay DEF CompactionRefused, core, subs, Fits

\* The answers that do not look at the task again.
ShowsAnyway(j) == (Hydrated(j) /\ j.latest) \/ Resumed(j) \/ Compacted(j)

LEMMA AnswersFit ==
    ASSUME NEW F, NEW G, Step(F, G), NEW j \in work, Continues(j),
           ShowsAnyway(j) => MayShow(G, j)
    PROVE  Fits(G)'
<1>1. CASE ShowsAnyway(j)
  BY <1>1, HydratedFits, ResumedFits, CompactedFits DEF ShowsAnyway
<1>2. CASE ~ShowsAnyway(j)
  <2>1. CASE MessagesRead(j) \/ RunRead(j) \/ Loaded(j) \/ Hydrated(j)
    BY <1>2, <2>1, MessagesReadFits, RunReadFits, LoadedFits, HydratedFits DEF ShowsAnyway
  <2>2. CASE SettleRead(j) \/ Settle(j) \/ ProbeRead(j) \/ Probed(j) \/ Created(j)
    BY <2>2, SettleReadFits, SettleFits, ProbeReadFits, ProbedFits, CreatedFits
  <2>3. CASE FollowOpens(j) \/ FollowAgain(j) \/ InputQueued(j) \/ Enqueued(j)
    BY <2>3, FollowOpensFits, FollowAgainFits, InputQueuedFits, EnqueuedFits
  <2>4. CASE \/ StopFound(j) \/ PauseRun(j) \/ PauseAnswered(j) \/ StopGivesUp(j)
             \/ PauseRead(j) \/ PauseSettled(j)
    BY <2>4, StopFoundFits, PauseRunFits, PauseAnsweredFits, StopGivesUpFits, PauseReadFits,
       PauseSettledFits
  <2>5. CASE ResumeRun(j) \/ ResumeRefused(j) \/ CompactionRead(j) \/ CompactionRefused(j)
    BY <2>5, ResumeRunFits, ResumeRefusedFits, CompactionReadFits, CompactionRefusedFits
  <2> QED  BY <1>2, <2>1, <2>2, <2>3, <2>4, <2>5 DEF Continues, ShowsAnyway
<1> QED  BY <1>1, <1>2

LEMMA StepFits ==
    ASSUME NEW F, NEW G, Step(F, G), Next,
           \A j \in work : ShowsAnyway(j) => MayShow(G, j)
    PROVE  Fits(G)'
BY CoreFits, UserFits, StreamsFit, AnswersFit DEF Next, Answers

-----------------------------------------------------------------------------
(* The types *)

LEMMA OwnHaveBegun ==
    ASSUME NEW t \in Tasks
    PROVE  (Plain => RunsOf(t) \subseteq Started) /\ (Plain' => RunsOf(t)' \subseteq Started')
<1>1. t # None
  BY NoneAssumption
<1>2. ASSUME Plain  PROVE RunsOf(t) \subseteq Started
  <2>1. \A r \in Runs : run[r].status = "new" => run[r].task = None
    BY <1>2 DEF Plain, CoreTyped, RunsTyped
  <2> QED  BY <1>1, <2>1 DEF RunsOf, Started
<1>3. ASSUME Plain'  PROVE RunsOf(t)' \subseteq Started'
  <2>1. \A r \in Runs : run'[r].status = "new" => run'[r].task = None
    BY <1>3 DEF Plain, CoreTyped, RunsTyped
  <2> QED  BY <1>1, <2>1 DEF RunsOf, Started
<1> QED  BY <1>2, <1>3

LEMMA FamiliesAre ==
    /\ Plain => Family(AnyRuns) /\ Family(OwnRuns)
    /\ Plain' => Family(AnyRuns)' /\ Family(OwnRuns)'
BY OwnHaveBegun, NoneAssumption DEF Family, AnyRuns, OwnRuns

LEMMA StepOfAny ==
    ASSUME Plain, Plain', RunsKeepTasks, Fits(AnyRuns),
           NEW F, F = AnyRuns, NEW G, G = AnyRuns'
    PROVE  Step(F, G)
<1>1. Within(F, G)
  BY FamiliesGrow DEF Within, AnyRuns
<1> QED  BY <1>1, FamiliesAre DEF Step

LEMMA StepOfOwn ==
    ASSUME Plain, Plain', RunsKeepTasks, Fits(OwnRuns),
           NEW F, F = OwnRuns, NEW G, G = OwnRuns'
    PROVE  Step(F, G)
<1>1. Within(F, G)
  BY FamiliesGrow DEF Within, OwnRuns
<1> QED  BY <1>1, FamiliesAre DEF Step

LEMMA TypesStep ==
    ASSUME TypeOK, IsFiniteSet(work), [Next]_vars
    PROVE  (TypeOK /\ IsFiniteSet(work))' /\ Plain /\ Plain' /\ (Next => RunsKeepTasks)
<1>1. Plain /\ Fits(AnyRuns)
  BY TypesAreParts
<1>2. CASE Next
  <2>1. PICK F : F = AnyRuns
    OBVIOUS
  <2>2. PICK G : G = AnyRuns'
    OBVIOUS
  <2>3. Plain' /\ RunsKeepTasks
    BY <1>1, <1>2, <2>1, FamiliesAre, PlainStep
  <2>4. Step(F, G)
    BY <1>1, <2>1, <2>2, <2>3, StepOfAny
  <2>5. \A j \in work : MayShow(G, j)
    BY <2>2, <2>4, StepParts DEF MayShow, AnyRuns
  <2>6. Fits(G)'
    BY <1>2, <2>4, <2>5, StepFits
  <2>7. Fits(AnyRuns)'
    BY <2>2, <2>6 DEF Fits, ViewsFit, SavedFits, SubsFit, JobsFit
  <2> QED  BY <1>1, <2>3, <2>7 DEF TypeOK, Plain, CoreTyped, RunsTyped, StoreTyped, Logs
<1>3. CASE UNCHANGED vars /\ ~Next
  <2>1. UNCHANGED <<run, saved, queued, existing, ui, cache, sub, current, resolver, work, asked>>
    BY <1>3 DEF vars
  <2>2. (TypeOK /\ IsFiniteSet(work))'
    BY <2>1 DEF TypeOK, Fits, ViewsFit, SavedFits, SubsFit, JobsFit, AnyRuns, Started
  <2>3. Plain'
    BY <1>1, <2>1 DEF Plain, CoreTyped, RunsTyped, StoreTyped
  <2> QED  BY <1>1, <1>3, <2>2, <2>3
<1> QED  BY <1>2, <1>3

\* A view that may be on show first, and the subscription that may feed it.
FirstView(v) == v.task \in Tasks \cup {None} /\ \A S : Started \subseteq S => v \in SomeViews(S)
FirstSub(v, s) == s = None \/ (s \in Subs /\ v.task \in Tasks /\ v.run.id \in Started)
FirstRun(t, r) == (t = None /\ r = None) \/ (t \in Tasks /\ r \in Runs)

LEMMA InitCoreTyped ==
    ASSUME NEW t, NEW r, FirstRun(t, r), InitCore(t, r)
    PROVE  CoreTyped /\ r \in Started \cup {None} /\ \A x \in Tasks : saved[x] = NoMessages
<1> DEFINE new == [IdleRun EXCEPT !.task = t, !.status = "RUNNING"]
           Record == [task : Tasks \cup {None}, status : Statuses \cup {"new"},
                      log : Logs, text : Texts(Runs), replay : Nat]
<1>1. \A x \in Runs : x # None
  BY NoneAssumption
<1>2. IdleRun \in Record /\ IdleRun.status = "new" /\ IdleRun.task = None /\ IdleRun.text = <<>>
  BY DEF IdleRun, Logs, Texts
<1>3. ASSUME t # None
      PROVE  new \in Record /\ new.status = "RUNNING" /\ new.task = t /\ new.text = <<>>
  <2>1. t \in Tasks /\ "RUNNING" \in Statuses
    BY <1>3 DEF FirstRun, Statuses, ActiveStatuses
  <2> HIDE DEF IdleRun
  <2> QED  BY <1>2, <2>1
<1>4. /\ run = [x \in Runs |-> IF x = r THEN new ELSE IdleRun]
      /\ saved = [x \in Tasks |-> NoMessages] /\ queued = [x \in Tasks |-> 0]
      /\ existing = Existing
  BY DEF InitCore
<1>5. (t # None <=> r # None) /\ (t = None \/ t \in Tasks) /\ (r = None \/ r \in Runs)
  BY NoneAssumption DEF FirstRun
<1>6. \A x \in Runs : <<>> \in Texts({x})
  BY DEF Texts
<1>7. RunsTyped /\ r \in Started \cup {None}
  <2> HIDE DEF new, Record
  <2>1. run \in [Runs -> Record]
    BY <1>1, <1>2, <1>3, <1>4, <1>5
  <2>2. \A x \in Runs : /\ run[x].status = "new" <=> run[x].task = None
                        /\ run[x].text \in Texts({x})
    BY <1>1, <1>2, <1>3, <1>4, <1>5, <1>6
  <2>3. r # None => r \in Started
    BY <1>1, <1>3, <1>4, <1>5 DEF Started
  <2> QED  BY <2>1, <2>2, <2>3 DEF RunsTyped, Record
<1>8. queued \in [Tasks -> Nat] /\ existing \subseteq Tasks /\ DOMAIN saved = Tasks
      /\ \A x \in Tasks : saved[x] = NoMessages
  BY <1>4, ExistingAssumption
<1> QED  BY <1>7, <1>8 DEF CoreTyped

LEMMA InitViewTyped ==
    ASSUME NEW v, FirstView(v), NEW s, FirstSub(v, s), InitView(v, s)
    PROVE  StoreTyped /\ ViewsFit(AnyRuns) /\ SubsFit(AnyRuns) /\ JobsFit(AnyRuns)
<1>1. \A t \in Tasks \cup {None} : AnyRuns[t] = Started
  BY DEF AnyRuns
<1>2. v \in SomeViews(Started) /\ v.task \in Tasks \cup {None}
  BY DEF FirstView
<1>3. StoreTyped
  BY FS_EmptySet DEF InitView, StoreTyped, FirstSub
<1>4. ViewsFit(AnyRuns)
  <2>1. ui = v /\ \A t \in Tasks : cache[t] = IF t = v.task THEN v ELSE Blank
    BY DEF InitView
  <2>2. \A t \in Tasks : cache[t] \in SomeViews(Started) /\ cache[t].task \in {None, t}
    BY <1>2, <2>1, BlankType
  <2> QED  BY <1>1, <1>2, <2>1, <2>2 DEF ViewsFit
<1>5. SubsFit(AnyRuns)
  <2> SUFFICES ASSUME NEW x \in Subs  PROVE sub[x] \in Subscriptions(AnyRuns[sub[x].task])
    BY DEF SubsFit
  <2>1. sub[x] = IF x = s THEN Subscription("open", v.task, v.run.id, 0) ELSE IdleSub
    BY DEF InitView
  <2>2. CASE x = s
    <3>1. s # None
      BY <2>2, NoneAssumption
    <3>2. sub[x] \in Subscriptions(Started)
      BY <2>1, <2>2, <3>1, NewSubscription DEF Kinds, FirstSub
    <3>3. sub[x].task = v.task
      BY <2>1, <2>2 DEF Subscription
    <3> QED  BY <1>1, <1>2, <3>2, <3>3
  <2>3. CASE x # s
    BY <2>1, <2>3, IdleSubscription
  <2> QED  BY <2>2, <2>3
<1>6. JobsFit(AnyRuns)
  BY DEF InitView, JobsFit
<1> QED  BY <1>3, <1>4, <1>5, <1>6

LEMMA InitPartsTyped ==
    ASSUME NEW t, NEW r, FirstRun(t, r), InitCore(t, r),
           NEW v, FirstView(v), NEW s, FirstSub(v, s), InitView(v, s)
    PROVE  Plain /\ Fits(AnyRuns)
<1>1. CoreTyped /\ \A x \in Tasks : saved[x] = NoMessages
  BY InitCoreTyped
<1>2. SavedFits(AnyRuns)
  BY <1>1, NoMessagesType DEF SavedFits
<1>3. StoreTyped /\ ViewsFit(AnyRuns) /\ SubsFit(AnyRuns) /\ JobsFit(AnyRuns)
  BY InitViewTyped
<1> QED  BY <1>1, <1>2, <1>3 DEF Plain, Fits

LEMMA InitTyped == Init => TypeOK /\ IsFiniteSet(work)
<1> SUFFICES ASSUME Init  PROVE Plain /\ Fits(AnyRuns)
  BY TypesAreParts
<1>1. FirstRun(None, None) /\ \A v : FirstSub(v, None)
  BY DEF FirstRun, FirstSub
<1>2. CASE InitCore(None, None) /\ InitView(Blank, None)
  <2>1. FirstView(Blank)
    BY BlankType DEF FirstView
  <2> QED  BY <1>1, <1>2, <2>1, InitPartsTyped
<1>3. ASSUME NEW t \in Tasks, NEW S  PROVE Opened(t) \in SomeViews(S) /\ Opened(t).task = t
  <2>1. Blank \in SomeViews(S)
    BY BlankType
  <2> HIDE DEF Blank
  <2> QED  BY <2>1 DEF Opened, SomeViews, Grows
<1>4. ASSUME NEW t \in Shown, InitCore(None, None), InitView(Opened(t), None)
      PROVE  Plain /\ Fits(AnyRuns)
  <2>1. FirstView(Opened(t))
    BY <1>3, ExistingAssumption DEF FirstView
  <2> QED  BY <1>1, <1>4, <2>1, InitPartsTyped
<1>5. ASSUME NEW t \in Shown, NEW r, r = Min(Runs), NEW s, s = Min(Subs),
             InitCore(t, r), InitView(Watched(t, r), s)
      PROVE  Plain /\ Fits(AnyRuns)
  <2> DEFINE x == [id |-> r, status |-> "RUNNING", cursor |-> 0, replay |-> 0]
             o == Opened(t)
  <2>1. t \in Tasks /\ r \in Runs /\ s \in Subs /\ r # None
    <3>1. Runs \subseteq Nat /\ Subs \subseteq Nat /\ Runs # {} /\ Subs # {}
      BY NamesAssumption
    <3> QED  BY <1>5, <3>1, LeastOf, ExistingAssumption, NoneAssumption
  <2>2. FirstRun(t, r)
    BY <2>1 DEF FirstRun
  <2>3. r \in Started
    BY <1>5, <2>1, <2>2, InitCoreTyped
  <2>4. Watched(t, r) = [o EXCEPT !.open = TRUE, !.chatting = TRUE, !.run = x]
    BY DEF Watched
  <2>5. ASSUME NEW S, Started \subseteq S
        PROVE  Watched(t, r) \in SomeViews(S) /\ Watched(t, r).task = t
               /\ Watched(t, r).run = x
    <3>1. x \in Snapshots(S)
      BY <2>3, <2>5 DEF Snapshots, RunSnapshots, Statuses, ActiveStatuses
    <3>2. o \in SomeViews(S) /\ o.task = t
      BY <1>3, <2>1
    <3> HIDE DEF x, o
    <3> QED  BY <2>4, <3>1, <3>2 DEF SomeViews, Grows
  <2>6. FirstView(Watched(t, r))
    BY <2>1, <2>5 DEF FirstView
  <2>7. FirstSub(Watched(t, r), s)
    <3>1. Watched(t, r).task = t /\ Watched(t, r).run = x
      BY <2>5
    <3>2. Watched(t, r).run.id = r
      BY <3>1
    <3> QED  BY <2>1, <2>3, <3>1, <3>2 DEF FirstSub
  <2> QED  BY <1>5, <2>2, <2>6, <2>7, InitPartsTyped
<1> QED  BY <1>2, <1>4, <1>5 DEF Init

\* TypeOK is an invariant, with the jobs finitely many: the usages that are in use
\* leave one for the next (FreshUsage).
THEOREM TypesHold == Spec => []TypeOK
<1>1. Init => TypeOK /\ IsFiniteSet(work)
  BY InitTyped
<1>2. (TypeOK /\ IsFiniteSet(work)) /\ [Next]_vars => (TypeOK /\ IsFiniteSet(work))'
  BY TypesStep
<1> QED  BY <1>1, <1>2, PTL DEF Spec

-----------------------------------------------------------------------------
(* The user's operations: whose answers may change the task on show *)

\* The user began it, at some time.
Asked(operation) == \E i \in DOMAIN asked : asked[i] = operation

Latest(j) == j.op = "open" /\ j.latest
Creating(j) == j.op = "create"

\* The latest load is of one task, and of the one on show.
LatestLoadAgrees ==
    \A j \in work : Latest(j) => /\ \A i \in work : Latest(i) => i.task = j.task
                                 /\ ui.task \in {None, j.task} \/ Left({"create"})

\* One task is created at a time, and nothing is shown or loaded then, unless the
\* user opened a task meanwhile.
OneIsCreated ==
    \A j \in work :
       Creating(j) => /\ Asked("create")
                      /\ \A i \in work : Creating(i) => i = j
                      /\ \/ Left({"create"})
                         \/ ui.task = None /\ \A i \in work : ~Latest(i)

\* A resume or a compaction is of the task on show, unless the user left it.
AnswersAreOfTheView ==
    \A j \in work :
       j.op \in {"resume", "compact"} => /\ Asked(j.op)
                                         /\ j.task = ui.task \/ Left({j.op, "create"})

Attended == LatestLoadAgrees /\ OneIsCreated /\ AnswersAreOfTheView

\* The user asks for one operation more, at most.
AsksOne == asked' = asked \/ \E operation \in Operations : asked' = Append(asked, operation)

LEMMA AskedSequence == ASSUME TypeOK  PROVE asked \in Seq(Operations)
<1>1. asked \in Sessions \/ asked = <<>>
  BY DEF TypeOK
<1>2. CASE asked = <<>>
  BY <1>2
<1>3. CASE asked \in Sessions
  BY <1>3, SessionsAssumption
<1> QED  BY <1>1, <1>2, <1>3

LEMMA LeftStays ==
    ASSUME asked \in Seq(Operations), AsksOne
    PROVE  /\ \A operations : Left(operations) => Left(operations)'
           /\ \A operation : Asked(operation) => Asked(operation)'
<1>1. Len(asked) \in Nat /\ DOMAIN asked = 1..Len(asked)
  OBVIOUS
<1>2. DOMAIN asked \subseteq DOMAIN asked' /\ \A i \in DOMAIN asked : asked'[i] = asked[i]
  <2>1. CASE asked' = asked
    BY <2>1
  <2>2. ASSUME NEW operation \in Operations, asked' = Append(asked, operation)
        PROVE  DOMAIN asked \subseteq DOMAIN asked' /\ \A i \in DOMAIN asked : asked'[i] = asked[i]
    BY <1>1, <2>2
  <2> QED  BY <2>1, <2>2 DEF AsksOne
<1>3. ASSUME NEW operations, Left(operations)  PROVE Left(operations)'
  <2>1. PICK i \in DOMAIN asked, k \in DOMAIN asked :
          i < k /\ asked[i] \in operations /\ asked[k] \in {"open", "clear", "archive"}
    BY <1>3 DEF Left
  <2>2. /\ i \in DOMAIN asked' /\ k \in DOMAIN asked' /\ i < k
        /\ asked'[i] \in operations /\ asked'[k] \in {"open", "clear", "archive"}
    BY <1>2, <2>1
  <2> QED  BY <2>2 DEF Left
<1>4. ASSUME NEW operation, Asked(operation)  PROVE Asked(operation)'
  BY <1>2, <1>4 DEF Asked
<1> QED  BY <1>3, <1>4

LEMMA AskedNow ==
    ASSUME asked \in Seq(Operations), NEW operation \in Operations,
           asked' = Append(asked, operation)
    PROVE  /\ Asked(operation)' /\ AsksOne
           /\ operation \in {"open", "clear", "archive"}
              => \A operations : \A o \in operations : Asked(o) => Left(operations)'
<1>1. /\ Len(asked) \in Nat /\ DOMAIN asked = 1..Len(asked)
      /\ DOMAIN asked' = 1..(Len(asked) + 1) /\ asked'[Len(asked) + 1] = operation
      /\ \A i \in DOMAIN asked : asked'[i] = asked[i]
  <2>1. Len(asked) \in Nat /\ DOMAIN asked = 1..Len(asked)
    OBVIOUS
  <2>2. Len(asked') = Len(asked) + 1 /\ asked' \in Seq(Operations)
    OBVIOUS
  <2>3. asked'[Len(asked) + 1] = operation
    OBVIOUS
  <2>4. \A i \in 1..Len(asked) : asked'[i] = asked[i]
    OBVIOUS
  <2>5. DOMAIN asked' = 1..Len(asked')
    BY <2>2
  <2> QED  BY <2>1, <2>2, <2>3, <2>4, <2>5
<1>2. Asked(operation)' /\ AsksOne
  <2>1. Len(asked) + 1 \in DOMAIN asked'
    BY <1>1
  <2>2. Asked(operation)'
    BY <1>1, <2>1 DEF Asked
  <2>3. AsksOne
    BY DEF AsksOne
  <2> QED  BY <2>2, <2>3
<1>3. ASSUME operation \in {"open", "clear", "archive"}, NEW operations, NEW o \in operations,
             Asked(o)
      PROVE  Left(operations)'
  <2>1. PICK i \in DOMAIN asked : asked[i] = o
    BY <1>3 DEF Asked
  <2> DEFINE k == Len(asked) + 1
  <2>2. /\ i \in DOMAIN asked' /\ k \in DOMAIN asked' /\ i < k
        /\ asked'[i] \in operations /\ asked'[k] \in {"open", "clear", "archive"}
    BY <1>1, <1>3, <2>1
  <2> QED  BY <2>2 DEF Left
<1> QED  BY <1>2, <1>3

LEMMA LeftWidens ==
    ASSUME NEW P, NEW Q, P \subseteq Q
    PROVE  (Left(P) => Left(Q)) /\ (Left(P)' => Left(Q)')
BY DEF Left

\* Every job whose answer may change the task on show was there before.
Errands == {"open", "create", "resume", "compact"}
ErrandsStay ==
    \A x \in work' :
       x.op \in Errands => \E y \in work : /\ y.op = x.op /\ y.task = x.task
                                           /\ Latest(x) => Latest(y)
                                           /\ Creating(x) => x = y

LEMMA ErrandsBecome ==
    ASSUME NEW j \in work, NEW next, Becomes(j, next),
           \A x \in next : x.op \in Errands => /\ x.op = j.op /\ x.task = j.task
                                               /\ Latest(x) => Latest(j)
                                               /\ ~Creating(j)
    PROVE  ErrandsStay
BY DEF Becomes, ErrandsStay, Creating

LEMMA ErrandsIncrease ==
    ASSUME \A x \in work' : x \in work \/ x.op \notin Errands
    PROVE  ErrandsStay
BY DEF ErrandsStay

LEMMA AttendedStays ==
    ASSUME Attended, asked \in Seq(Operations), AsksOne, ui'.task = ui.task, ErrandsStay
    PROVE  Attended'
<1>1. LatestLoadAgrees'
  <2> SUFFICES ASSUME NEW x \in work', Latest(x)
               PROVE  /\ \A z \in work' : Latest(z) => z.task = x.task
                      /\ ui'.task \in {None, x.task} \/ Left({"create"})'
    BY DEF LatestLoadAgrees, Latest
  <2>1. PICK y \in work : y.task = x.task /\ Latest(y)
    BY DEF ErrandsStay, Errands, Latest
  <2>2. ASSUME NEW z \in work', Latest(z)  PROVE z.task = x.task
    <3>1. PICK w \in work : w.task = z.task /\ Latest(w)
      BY <2>2 DEF ErrandsStay, Errands, Latest
    <3> QED  BY <2>1, <3>1 DEF Attended, LatestLoadAgrees
  <2>3. ui.task \in {None, x.task} \/ Left({"create"})
    BY <2>1 DEF Attended, LatestLoadAgrees
  <2> QED  BY <2>2, <2>3, LeftStays
<1>2. OneIsCreated'
  <2> SUFFICES ASSUME NEW x \in work', Creating(x)
               PROVE  /\ Asked("create")'
                      /\ \A z \in work' : Creating(z) => z = x
                      /\ \/ Left({"create"})'
                         \/ ui'.task = None /\ \A z \in work' : ~Latest(z)
    BY DEF OneIsCreated, Creating, Latest
  <2>1. \A z \in work' : Creating(z) => z \in work
    BY DEF ErrandsStay, Errands, Creating
  <2>2. \A z \in work' : Latest(z) => \E y \in work : Latest(y)
    BY DEF ErrandsStay, Errands, Latest
  <2>3. /\ Asked("create") /\ \A z \in work : Creating(z) => z = x
        /\ \/ Left({"create"})
           \/ ui.task = None /\ \A z \in work : ~Latest(z)
    BY <2>1 DEF Attended, OneIsCreated
  <2> QED  BY <2>1, <2>2, <2>3, LeftStays
<1>3. AnswersAreOfTheView'
  <2> SUFFICES ASSUME NEW x \in work', x.op \in {"resume", "compact"}
               PROVE  Asked(x.op)' /\ (x.task = ui'.task \/ Left({x.op, "create"})')
    BY DEF AnswersAreOfTheView
  <2>1. PICK y \in work : y.op = x.op /\ y.task = x.task
    BY DEF ErrandsStay, Errands
  <2>2. Asked(x.op) /\ (x.task = ui.task \/ Left({x.op, "create"}))
    BY <2>1 DEF Attended, AnswersAreOfTheView
  <2> QED  BY <2>2, LeftStays
<1> QED  BY <1>1, <1>2, <1>3 DEF Attended

-----------------------------------------------------------------------------
(* The steps that leave the task on show, and whose answers may change it *)

Quiet == ui'.task = ui.task /\ ErrandsStay /\ AsksOne

LEMMA QuietKeeps ==
    ASSUME TypeOK, Attended, Quiet  PROVE Attended'
BY AskedSequence, AttendedStays DEF Quiet

LEMMA CoreIsQuiet == ASSUME Core  PROVE Quiet
<1>1. UNCHANGED <<ui, work, asked>>
  BY DEF Core, EmitText, Complete, Fail, Pause, StartNext, view
<1> QED  BY <1>1, ErrandsIncrease DEF Quiet, AsksOne

LEMMA QuietUser ==
    ASSUME NEW F, NEW G, Step(F, G), TypeOK,
           SendMessage \/ RegenerateMessage \/ EnqueueInput \/ StopChat
    PROVE  Quiet
<1>1. ui \in SomeViews(G[ui.task])
  BY StepParts
<1>2. ui'.task = ui.task
  <2>1. CASE SendMessage
    BY <1>1, <2>1, WithNewAnswerType DEF SendMessage, Stream, SomeViews
  <2>2. CASE RegenerateMessage
    <3> DEFINE m == [past |-> BeforeLastTurn(ui), answer |-> <<>>, open |-> TRUE]
               w == Showing(ui, m)
    <3>1. w.task = ui.task /\ w \in SomeViews(G[ui.task])
      <4>1. m \in SomeMessages(G[ui.task])
        BY <1>1 DEF SomeMessages, SomeViews, BeforeLastTurn, Grows, Texts
      <4> HIDE DEF m
      <4> QED  BY <1>1, <4>1, ShowingType
    <3>2. ui' = [w EXCEPT !.run = NoRun, !.usage = FreshUsage, !.chatting = TRUE,
                          !.pausing = FALSE, !.stopped = FALSE]
      BY <2>2 DEF RegenerateMessage, Stream
    <3> HIDE DEF w
    <3> QED  BY <3>1, <3>2 DEF SomeViews
  <2>3. CASE EnqueueInput
    BY <2>3 DEF EnqueueInput, view
  <2>4. CASE StopChat
    BY <1>1, <2>4 DEF StopChat, SomeViews
  <2> QED  BY <2>1, <2>2, <2>3, <2>4
<1>3. \A x \in work' : x \in work \/ x.op \notin Errands
  BY DEF SendMessage, RegenerateMessage, EnqueueInput, StopChat, Stream, ProbeJob, EnqueueJob,
         StopJob, Errands
<1>4. AsksOne
  <2>1. \E operation \in {"send", "regenerate", "enqueue", "stop"} : Asks(operation)
    BY DEF SendMessage, RegenerateMessage, EnqueueInput, StopChat
  <2> QED  BY <2>1 DEF Asks, AsksOne, Operations
<1> QED  BY <1>2, <1>3, <1>4, ErrandsIncrease DEF Quiet

LEMMA StreamsAreQuiet ==
    ASSUME NEW F, NEW G, Step(F, G), NEW s \in Subs,
           Deliver(s) \/ Flush(s) \/ Submit(s) \/ Refuse(s) \/ Abort(s)
    PROVE  Quiet
<1>1. ui'.task = ui.task
  <2>1. CASE Deliver(s)
    BY <2>1, DeliverFits
  <2>2. CASE Flush(s)
    BY <2>2, FlushFits
  <2> QED  BY <2>1, <2>2 DEF Submit, Refuse, Abort, view
<1>2. \A x \in work' : x \in work \/ x.op \notin Errands
  <2>1. CASE Deliver(s)
    <3>1. \A x \in work' : \/ x \in work \/ x = FollowJob(sub[s].task, sub[s].run, 0)
                           \/ \E event, v : x = SettleJob(s, sub[s].task, event, v)
      BY <2>1 DEF Deliver, When
    <3>2. FollowJob(sub[s].task, sub[s].run, 0).op = "follow"
      BY DEF FollowJob
    <3>3. \A event, v : SettleJob(s, sub[s].task, event, v).op = "settle"
      BY DEF SettleJob
    <3> QED  BY <3>1, <3>2, <3>3 DEF Errands
  <2>2. CASE Refuse(s)
    BY <2>2 DEF Refuse, When, SettleJob, Errands
  <2> QED  BY <2>1, <2>2 DEF Flush, Submit, Abort
<1>3. AsksOne
  BY DEF Deliver, Flush, Submit, Refuse, Abort, AsksOne
<1> QED  BY <1>1, <1>2, <1>3, ErrandsIncrease DEF Quiet

LEMMA TailsAreNoErrands == ASSUME NEW s  PROVE \A x \in Tails(s) : x.op \notin Errands
BY DEF Tails, FollowJob, Errands

\* The answers that the user's steps wait for, beside those.
Opens(j) == (Loaded(j) /\ j.latest) \/ Created(j) \/ FollowOpens(j)

LEMMA ErrandsOfAnswers ==
    ASSUME NEW F, NEW G, Step(F, G), NEW j \in work, Continues(j), ~Opens(j)
    PROVE  ErrandsStay
<1> DEFINE Kept(x) == x.op \in Errands => /\ x.op = j.op /\ x.task = j.task
                                          /\ Latest(x) => Latest(j)
                                          /\ ~Creating(j)
<1>1. j \in Jobs(G[j.task])
  BY StepParts
<1>2. ASSUME NEW next, Becomes(j, next), \A x \in next : x.op \notin Errands
      PROVE  ErrandsStay
  BY <1>2, ErrandsBecome
<1>3. ASSUME NEW y, Becomes(j, {y}), Kept(y)
      PROVE  ErrandsStay
  BY <1>3, ErrandsBecome
<1>4. CASE MessagesRead(j) \/ RunRead(j)
  <2>1. j \in OpenJobs(G[j.task])
    BY <1>1, <1>4, JobKinds DEF MessagesRead, RunRead
  <2>2. ASSUME NEW a, NEW b
        PROVE  Kept([j EXCEPT !.page = a, !.at = b]) /\ Kept([j EXCEPT !.run = a, !.at = b])
    BY <2>1 DEF OpenJobs, Latest, Creating
  <2>3. \E a, b : \/ Becomes(j, {[j EXCEPT !.page = a, !.at = b]})
                  \/ Becomes(j, {[j EXCEPT !.run = a, !.at = b]})
    BY <1>4 DEF MessagesRead, RunRead
  <2> HIDE DEF Kept
  <2> QED  BY <1>3, <2>2, <2>3
<1>5. CASE \/ Loaded(j) \/ Hydrated(j) \/ Probed(j) \/ Resumed(j) \/ ResumeRefused(j)
           \/ Compacted(j) \/ CompactionRefused(j)
  <2>1. Becomes(j, {})
    BY <1>5 DEF Opens, Loaded, Hydrated, Probed, Resumed, ResumeRefused, Compacted, CompactionRefused
  <2> QED  BY <1>2, <2>1
<1>6. CASE Settle(j) \/ PauseSettled(j)
  BY <1>2, <1>6, TailsAreNoErrands DEF Settle, PauseSettled
<1>7. CASE FollowAgain(j) \/ Enqueued(j)
  BY <1>2, <1>7 DEF FollowAgain, Enqueued, When, FollowJob, Errands
<1>8. CASE SettleRead(j) \/ ProbeRead(j) \/ StopFound(j) \/ PauseRun(j) \/ PauseAnswered(j)
           \/ StopGivesUp(j) \/ PauseRead(j)
  <2>1. j \in SettleJobs(G[j.task]) \/ j \in ProbeJobs(G[j.task]) \/ j \in StopJobs(G[j.task])
    BY <1>1, <1>8, JobKinds
       DEF SettleRead, ProbeRead, StopFound, PauseRun, PauseAnswered, StopGivesUp, PauseRead
  <2>2. ASSUME NEW a, NEW b
        PROVE  /\ [j EXCEPT !.run = a, !.at = b].op \notin Errands
               /\ [j EXCEPT !.page = a, !.at = b].op \notin Errands
    BY <2>1 DEF SettleJobs, ProbeJobs, StopJobs, Errands
  <2>3. \/ Becomes(j, {})
        \/ \E a, b : \/ Becomes(j, {[j EXCEPT !.run = a, !.at = b]})
                     \/ Becomes(j, {[j EXCEPT !.page = a, !.at = b]})
    BY <1>8 DEF SettleRead, ProbeRead, StopFound, PauseRun, PauseAnswered, StopGivesUp,
                PauseRead, SettlePause
  <2>4. CASE Becomes(j, {})
    BY <1>2, <2>4
  <2>5. ASSUME NEW y, Becomes(j, {y}), y.op \notin Errands  PROVE ErrandsStay
    BY <1>2, <2>5
  <2> HIDE DEF Kept
  <2> QED  BY <2>2, <2>3, <2>4, <2>5
<1>9. CASE InputQueued(j)
  <2>1. j \in EnqueueJobs
    BY <1>1, <1>9, JobKinds DEF InputQueued
  <2> DEFINE y == [j EXCEPT !.claimed = TRUE, !.at = "answered"]
             z == [j EXCEPT !.at = "answered"]
  <2>2. y.op \notin Errands /\ z.op \notin Errands
    BY <2>1 DEF EnqueueJobs, Errands
  <2>3. Becomes(j, {y}) \/ Becomes(j, {z})
    BY <1>9 DEF InputQueued
  <2> HIDE DEF y, z
  <2> QED  BY <1>2, <2>2, <2>3
<1>10. CASE ResumeRun(j)
  <2>1. j \in ResumeJobs(G[j.task])
    BY <1>1, <1>10, JobKinds DEF ResumeRun
  <2>2. ASSUME NEW a, NEW b  PROVE Kept([j EXCEPT !.run = a, !.at = b])
    BY <2>1 DEF ResumeJobs, Latest, Creating
  <2>3. \E a, b : Becomes(j, {[j EXCEPT !.run = a, !.at = b]})
    BY <1>10 DEF ResumeRun
  <2> HIDE DEF Kept
  <2> QED  BY <1>3, <2>2, <2>3
<1>11. CASE CompactionRead(j)
  <2>1. j \in CompactJobs(G[j.task])
    BY <1>1, <1>11, JobKinds DEF CompactionRead
  <2>2. ASSUME NEW a, NEW b  PROVE Kept([j EXCEPT !.page = a, !.at = b])
    BY <2>1 DEF CompactJobs, Latest, Creating
  <2>3. \E a, b : Becomes(j, {[j EXCEPT !.page = a, !.at = b]})
    BY <1>11 DEF CompactionRead
  <2> HIDE DEF Kept
  <2> QED  BY <1>3, <2>2, <2>3
<1> QED  BY <1>4, <1>5, <1>6, <1>7, <1>8, <1>9, <1>10, <1>11 DEF Continues, Opens

LEMMA AnswersKeepTask ==
    ASSUME NEW F, NEW G, Step(F, G), NEW j \in work, Continues(j), ~Opens(j), MayShow(G, j)
    PROVE  ui'.task = ui.task
<1>1. CASE Settle(j) \/ Probed(j) \/ StopFound(j) \/ PauseAnswered(j) \/ StopGivesUp(j)
           \/ PauseSettled(j) \/ Hydrated(j) \/ Resumed(j) \/ ResumeRefused(j) \/ Compacted(j)
           \/ CompactionRefused(j)
  BY <1>1, SettleFits, ProbedFits, StopFoundFits, PauseAnsweredFits, StopGivesUpFits,
     PauseSettledFits, HydratedFits, ResumedFits, ResumeRefusedFits, CompactedFits,
     CompactionRefusedFits
<1>2. CASE \/ MessagesRead(j) \/ RunRead(j) \/ Loaded(j) \/ SettleRead(j) \/ ProbeRead(j)
           \/ FollowAgain(j) \/ InputQueued(j) \/ Enqueued(j) \/ PauseRun(j) \/ PauseRead(j)
           \/ ResumeRun(j) \/ CompactionRead(j)
  BY <1>2 DEF MessagesRead, RunRead, Loaded, SettleRead, ProbeRead, FollowAgain, InputQueued,
              Enqueued, PauseRun, PauseRead, ResumeRun, CompactionRead, Opens, view
<1> QED  BY <1>1, <1>2 DEF Continues, Opens

LEMMA AnswersAskNothing ==
    ASSUME NEW j \in work, Continues(j)
    PROVE  asked' = asked
BY DEF Continues, MessagesRead, RunRead, Loaded, Hydrated, SettleRead, Settle, ProbeRead, Probed,
       Created, FollowOpens, FollowAgain, InputQueued, Enqueued, StopFound, PauseRun,
       PauseAnswered, StopGivesUp, PauseRead, PauseSettled, ResumeRun, Resumed, ResumeRefused,
       CompactionRead, Compacted, CompactionRefused

LEMMA QuietAnswers ==
    ASSUME NEW F, NEW G, Step(F, G), NEW j \in work, Continues(j), ~Opens(j), MayShow(G, j)
    PROVE  Quiet
BY AnswersKeepTask, ErrandsOfAnswers, AnswersAskNothing DEF Quiet, AsksOne

LEMMA OutdatedErrands ==
    ASSUME NEW F, NEW G, Step(F, G), NEW jobs \in SUBSET work
    PROVE  \A x \in Outdated(jobs) : ~Latest(x) /\ (x.op # "open" => x \in jobs)
<1> SUFFICES ASSUME NEW j \in jobs,
                    NEW x, x = IF j.op = "open" THEN [j EXCEPT !.latest = FALSE] ELSE j
             PROVE  ~Latest(x) /\ (x.op # "open" => x \in jobs)
  BY DEF Outdated
<1>1. CASE j.op = "open"
  <2>1. j \in OpenJobs(G[j.task])
    BY <1>1, StepParts, JobKinds
  <2> QED  BY <1>1, <2>1 DEF OpenJobs, Latest
<1>2. CASE j.op # "open"
  BY <1>2 DEF Latest
<1> QED  BY <1>1, <1>2

LEMMA OpenTaskErrands ==
    ASSUME NEW F, NEW G, Step(F, G), NEW t \in Tasks, NEW jobs \in SUBSET work, OpenTask(t, jobs)
    PROVE  /\ ui'.task = t
           /\ \A x \in work' : /\ Latest(x) => x.task = t
                               /\ x.op \in Errands /\ x.op # "open" => x \in work
<1>1. ui'.task = t
  BY OpenTaskFits
<1>2. \A x \in work' : \/ x \in Outdated(jobs) \/ x \in Tails(resolver)
                       \/ x = OpenJob(t, Remembered[t].task = None)
  BY DEF OpenTask
<1>3. OpenJob(t, Remembered[t].task = None).task = t
      /\ OpenJob(t, Remembered[t].task = None).op = "open"
  BY DEF OpenJob
<1> QED  BY <1>1, <1>2, <1>3, OutdatedErrands, TailsAreNoErrands DEF Latest, Errands

LEMMA OpenAttended ==
    ASSUME NEW F, NEW G, Step(F, G), TypeOK, Attended, NEW t \in Tasks, Open(t)
    PROVE  Attended'
<1>1. asked \in Seq(Operations) /\ asked' = Append(asked, "open")
  BY AskedSequence DEF Open, Asks
<1>2. /\ AsksOne
      /\ \A operations : \A o \in operations : Asked(o) => Left(operations)'
  BY <1>1, AskedNow DEF Operations
<1>3. /\ ui'.task = t
      /\ \A x \in work' : /\ Latest(x) => x.task = t
                          /\ x.op \in Errands /\ x.op # "open" => x \in work
  BY OpenTaskErrands DEF Open
<1>4. LatestLoadAgrees'
  BY <1>3 DEF LatestLoadAgrees, Latest
<1>5. OneIsCreated'
  <2> SUFFICES ASSUME NEW x \in work', Creating(x)
               PROVE  /\ Asked("create")' /\ Left({"create"})'
                      /\ \A z \in work' : Creating(z) => z = x
    BY DEF OneIsCreated, Creating, Latest
  <2>1. \A z \in work' : Creating(z) => z \in work
    BY <1>3 DEF Creating, Errands
  <2>2. Asked("create") /\ \A z \in work : Creating(z) => z = x
    BY <2>1 DEF Attended, OneIsCreated
  <2> QED  BY <1>1, <1>2, <2>1, <2>2, LeftStays
<1>6. AnswersAreOfTheView'
  <2> SUFFICES ASSUME NEW x \in work', x.op \in {"resume", "compact"}
               PROVE  Asked(x.op)' /\ Left({x.op, "create"})'
    BY DEF AnswersAreOfTheView
  <2>1. Asked(x.op)
    BY <1>3 DEF Errands, Attended, AnswersAreOfTheView
  <2> QED  BY <1>1, <1>2, <2>1, LeftStays
<1> QED  BY <1>4, <1>5, <1>6 DEF Attended

LEMMA FollowOpensAttended ==
    ASSUME NEW F, NEW G, Step(F, G), TypeOK, Attended, NEW j \in work, FollowOpens(j)
    PROVE  Attended'
<1>1. j.task \in Tasks /\ ui.task = j.task /\ ui.task # None
  BY StepParts, NoneAssumption DEF FollowOpens, IsNextRun
<1>2. /\ ui'.task = j.task
      /\ \A x \in work' : /\ Latest(x) => x.task = j.task
                          /\ x.op \in Errands /\ x.op # "open" => x \in work
  BY <1>1, OpenTaskErrands DEF FollowOpens
<1>3. AsksOne /\ asked \in Seq(Operations)
  BY AskedSequence DEF FollowOpens, AsksOne
<1>4. LatestLoadAgrees'
  BY <1>2 DEF LatestLoadAgrees, Latest
<1>5. OneIsCreated'
  <2> SUFFICES ASSUME NEW x \in work', Creating(x)
               PROVE  /\ Asked("create")' /\ Left({"create"})'
                      /\ \A z \in work' : Creating(z) => z = x
    BY DEF OneIsCreated, Creating, Latest
  <2>1. \A z \in work' : Creating(z) => z \in work
    BY <1>2 DEF Creating, Errands
  <2>2. Asked("create") /\ Left({"create"}) /\ \A z \in work : Creating(z) => z = x
    BY <1>1, <2>1 DEF Attended, OneIsCreated
  <2> QED  BY <1>3, <2>1, <2>2, LeftStays
<1>6. AnswersAreOfTheView'
  <2> SUFFICES ASSUME NEW x \in work', x.op \in {"resume", "compact"}
               PROVE  Asked(x.op)' /\ (x.task = ui'.task \/ Left({x.op, "create"})')
    BY DEF AnswersAreOfTheView
  <2>1. Asked(x.op) /\ (x.task = ui.task \/ Left({x.op, "create"}))
    BY <1>2 DEF Errands, Attended, AnswersAreOfTheView
  <2> QED  BY <1>1, <1>2, <1>3, <2>1, LeftStays
<1> QED  BY <1>4, <1>5, <1>6 DEF Attended

\* When the view is emptied, the user leaves whatever is under way.
LEMMA LeavingAttended ==
    ASSUME TypeOK, Attended, ui'.task = None,
           NEW operation \in {"clear", "archive"}, Asks(operation),
           \A x \in work' : x.op \in Errands => x \in work \/ (x.op = "open" /\ ~Latest(x))
    PROVE  Attended'
<1>1. asked \in Seq(Operations) /\ asked' = Append(asked, operation) /\ operation \in Operations
  BY AskedSequence DEF Asks, Operations
<1>2. /\ AsksOne
      /\ \A operations : \A o \in operations : Asked(o) => Left(operations)'
  BY <1>1, AskedNow
<1>3. LatestLoadAgrees'
  <2>1. \A x \in work' : Latest(x) => x \in work
    BY DEF Latest, Errands
  <2> QED  BY <2>1 DEF Attended, LatestLoadAgrees, Latest
<1>4. OneIsCreated'
  <2> SUFFICES ASSUME NEW x \in work', Creating(x)
               PROVE  /\ Asked("create")' /\ Left({"create"})'
                      /\ \A z \in work' : Creating(z) => z = x
    BY DEF OneIsCreated, Creating, Latest
  <2>1. \A z \in work' : Creating(z) => z \in work
    BY DEF Creating, Errands
  <2>2. Asked("create") /\ \A z \in work : Creating(z) => z = x
    BY <2>1 DEF Attended, OneIsCreated
  <2> QED  BY <1>1, <1>2, <2>1, <2>2, LeftStays
<1>5. AnswersAreOfTheView'
  <2> SUFFICES ASSUME NEW x \in work', x.op \in {"resume", "compact"}
               PROVE  Asked(x.op)' /\ Left({x.op, "create"})'
    BY DEF AnswersAreOfTheView
  <2>1. Asked(x.op)
    BY DEF Errands, Attended, AnswersAreOfTheView
  <2> QED  BY <1>1, <1>2, <2>1, LeftStays
<1> QED  BY <1>3, <1>4, <1>5 DEF Attended

LEMMA ClearAttended ==
    ASSUME NEW F, NEW G, Step(F, G), TypeOK, Attended, ClearActiveTask \/ ArchiveTask
    PROVE  Attended'
<1>1. CASE ClearActiveTask
  <2>1. ui'.task = None
    BY <1>1 DEF ClearActiveTask, Blank
  <2>2. \A x \in work' : x \in Outdated(work) \/ x \in Tails(resolver)
    BY <1>1 DEF ClearActiveTask
  <2>3. \A x \in work' : x.op \in Errands => x \in work \/ (x.op = "open" /\ ~Latest(x))
    BY <2>2, OutdatedErrands, TailsAreNoErrands
  <2> QED  BY <1>1, <2>1, <2>3, LeavingAttended DEF ClearActiveTask
<1>2. CASE ArchiveTask
  <2>1. ui'.task = None
    BY <1>2 DEF ArchiveTask, Blank
  <2>2. \A x \in work' : x.op \in Errands => x \in work
    BY <1>2, TailsAreNoErrands DEF ArchiveTask
  <2> QED  BY <1>2, <2>1, <2>2, LeavingAttended DEF ArchiveTask
<1> QED  BY <1>1, <1>2

LEMMA CreateTaskAttended ==
    ASSUME NEW F, NEW G, Step(F, G), TypeOK, Attended, NEW t \in Tasks, CreateTask(t)
    PROVE  Attended'
<1>1. asked \in Seq(Operations) /\ asked' = Append(asked, "create")
  BY AskedSequence DEF CreateTask, Asks
<1>2. Asked("create")' /\ AsksOne
  BY <1>1, AskedNow DEF Operations
<1>3. ui' = ui /\ ui.task = None
  BY DEF CreateTask, view
<1>4. \A x \in work' : x \in Outdated(work) \/ x = CreateJob(t)
  BY DEF CreateTask
<1>5. CreateJob(t).op = "create" /\ \A y \in work : y.op # "create"
  BY DEF CreateJob, CreateTask
<1>6. \A x \in work' : ~Latest(x)
  BY <1>4, <1>5, OutdatedErrands DEF Latest
<1>7. \A x \in work' : Creating(x) => x = CreateJob(t)
  BY <1>4, <1>5, OutdatedErrands DEF Creating
<1>8. OneIsCreated'
  BY <1>2, <1>3, <1>6, <1>7 DEF OneIsCreated, Creating, Latest
<1>9. AnswersAreOfTheView'
  <2> SUFFICES ASSUME NEW x \in work', x.op \in {"resume", "compact"}
               PROVE  Asked(x.op)' /\ (x.task = ui'.task \/ Left({x.op, "create"})')
    BY DEF AnswersAreOfTheView
  <2>1. x \in work
    BY <1>4, <1>5, OutdatedErrands
  <2>2. Asked(x.op) /\ (x.task = ui.task \/ Left({x.op, "create"}))
    BY <2>1 DEF Attended, AnswersAreOfTheView
  <2> QED  BY <1>1, <1>2, <1>3, <2>2, LeftStays
<1> QED  BY <1>6, <1>8, <1>9 DEF Attended, LatestLoadAgrees, Latest

LEMMA AskingKeepsTask ==
    ASSUME NEW F, NEW G, Step(F, G), ResumeChat \/ CompactContext
    PROVE  ui'.task = ui.task
<1>1. ui \in SomeViews(G[ui.task])
  BY StepParts
<1>2. WithNewAnswer(ui) \in SomeViews(G[ui.task]) /\ WithNewAnswer(ui).task = ui.task
  BY <1>1, WithNewAnswerType
<1> DEFINE w == WithNewAnswer(ui)
<1>3. \/ ui' = [w EXCEPT !.compacting = TRUE]
      \/ ui' = [w EXCEPT !.usage = FreshUsage, !.chatting = TRUE,
                         !.pausing = FALSE, !.stopped = FALSE]
  BY DEF ResumeChat, CompactContext
<1> HIDE DEF w
<1>4. w \in SomeViews(G[ui.task]) /\ w.task = ui.task
  BY <1>2 DEF w
<1> QED  BY <1>1, <1>3, <1>4 DEF SomeViews

\* A resume and a compaction are of the task on show.
LEMMA AskingAttended ==
    ASSUME NEW F, NEW G, Step(F, G), TypeOK, Attended, ResumeChat \/ CompactContext
    PROVE  Attended'
<1> DEFINE Asking(operation, x) == /\ Asks(operation) /\ work' = work \cup {x}
                                   /\ x.op = operation /\ x.task = ui.task
<1>1. \/ Asking("resume", ResumeJob(ui)) \/ Asking("compact", CompactJob(ui.task))
  BY DEF ResumeChat, CompactContext, ResumeJob, CompactJob
<1>2. PICK operation, y : operation \in {"resume", "compact"} /\ Asking(operation, y)
  BY <1>1
<1>3. ui'.task = ui.task
  BY AskingKeepsTask
<1>4. asked \in Seq(Operations) /\ asked' = Append(asked, operation) /\ operation \in Operations
  BY <1>2, AskedSequence DEF Asks, Operations
<1>5. Asked(operation)' /\ AsksOne
  BY <1>4, AskedNow
<1>6. \A x \in work' : x # y => x \in work
  BY <1>2
<1>7. LatestLoadAgrees'
  <2> SUFFICES ASSUME NEW x \in work', Latest(x)
               PROVE  /\ \A z \in work' : Latest(z) => z.task = x.task
                      /\ ui'.task \in {None, x.task} \/ Left({"create"})'
    BY DEF LatestLoadAgrees, Latest
  <2>1. \A z \in work' : Latest(z) => z \in work
    BY <1>2 DEF Latest
  <2>2. /\ \A z \in work : Latest(z) => z.task = x.task
        /\ ui.task \in {None, x.task} \/ Left({"create"})
    BY <2>1 DEF Attended, LatestLoadAgrees
  <2> QED  BY <1>3, <1>4, <1>5, <2>1, <2>2, LeftStays
<1>8. OneIsCreated'
  <2> SUFFICES ASSUME NEW x \in work', Creating(x)
               PROVE  /\ Asked("create")'
                      /\ \A z \in work' : Creating(z) => z = x
                      /\ \/ Left({"create"})'
                         \/ ui'.task = None /\ \A z \in work' : ~Latest(z)
    BY DEF OneIsCreated, Creating, Latest
  <2>1. \A z \in work' : Creating(z) \/ Latest(z) => z \in work
    BY <1>2 DEF Latest, Creating
  <2>2. /\ Asked("create") /\ \A z \in work : Creating(z) => z = x
        /\ \/ Left({"create"})
           \/ ui.task = None /\ \A z \in work : ~Latest(z)
    BY <2>1 DEF Attended, OneIsCreated
  <2> QED  BY <1>3, <1>4, <1>5, <2>1, <2>2, LeftStays
<1>9. AnswersAreOfTheView'
  <2> SUFFICES ASSUME NEW x \in work', x.op \in {"resume", "compact"}
               PROVE  Asked(x.op)' /\ (x.task = ui'.task \/ Left({x.op, "create"})')
    BY DEF AnswersAreOfTheView
  <2>1. CASE x = y
    BY <1>2, <1>3, <1>5, <2>1
  <2>2. CASE x # y
    <3>1. Asked(x.op) /\ (x.task = ui.task \/ Left({x.op, "create"}))
      BY <1>6, <2>2 DEF Attended, AnswersAreOfTheView
    <3> QED  BY <1>3, <1>4, <1>5, <3>1, LeftStays
  <2> QED  BY <2>1, <2>2
<1> QED  BY <1>7, <1>8, <1>9 DEF Attended

LEMMA LoadedShows ==
    ASSUME NEW F, NEW G, Step(F, G), NEW j \in work, Loaded(j), j.latest
    PROVE  ui'.task = j.task
<1> DEFINE v == LoadedView(j)
<1>1. ui' = [v EXCEPT !.hydrating = InChunks(j)]
  BY DEF Loaded
<1>2. v \in SomeViews(G[j.task]) /\ v.task = j.task
  BY LoadedViewFits DEF Loaded
<1> HIDE DEF v
<1> QED  BY <1>1, <1>2 DEF SomeViews

LEMMA LoadedAttended ==
    ASSUME NEW F, NEW G, Step(F, G), TypeOK, Attended, NEW j \in work, Loaded(j), j.latest
    PROVE  Attended'
<1>1. LoadedView(j) \in SomeViews(G[j.task]) /\ LoadedView(j).task = j.task /\ Latest(j)
  BY LoadedViewFits DEF Loaded, Latest
<1>2. ui'.task = j.task
  BY LoadedShows
<1>3. asked' = asked
  BY DEF Loaded
<1>4. /\ \A z \in work : Latest(z) => z.task = j.task
      /\ ui.task \in {None, j.task} \/ Left({"create"})
  BY <1>1 DEF Attended, LatestLoadAgrees
<1>5. \A x \in work' : x \in work \/ (x.op = "open" /\ x.task = j.task)
  <2> DEFINE y == [j EXCEPT !.at = "chunk", !.run = NoRun, !.page = Messages(LoadedView(j))]
  <2>1. y.op = "open" /\ y.task = j.task
    <3>1. j \in OpenJobs(G[j.task])
      BY StepParts, JobKinds DEF Loaded
    <3> QED  BY <3>1 DEF OpenJobs
  <2>2. \A x \in work' : x \in work \/ x = y
    BY DEF Loaded, Becomes, When
  <2> HIDE DEF y
  <2> QED  BY <2>1, <2>2
<1>6. LatestLoadAgrees'
  <2>1. \A x \in work' : Latest(x) => x.task = j.task
    BY <1>4, <1>5
  <2> QED  BY <1>2, <2>1 DEF LatestLoadAgrees, Latest
<1>7. AsksOne /\ asked \in Seq(Operations)
  BY <1>3, AskedSequence DEF AsksOne
<1>8. OneIsCreated'
  <2> SUFFICES ASSUME NEW x \in work', Creating(x)
               PROVE  /\ Asked("create")' /\ Left({"create"})'
                      /\ \A z \in work' : Creating(z) => z = x
    BY DEF OneIsCreated, Creating, Latest
  <2>1. \A z \in work' : Creating(z) => z \in work
    BY <1>5 DEF Creating
  <2>2. Asked("create") /\ Left({"create"}) /\ \A z \in work : Creating(z) => z = x
    BY <1>1, <2>1 DEF Attended, OneIsCreated
  <2> QED  BY <1>7, <2>1, <2>2, LeftStays
<1>9. AnswersAreOfTheView'
  <2> SUFFICES ASSUME NEW x \in work', x.op \in {"resume", "compact"}
               PROVE  Asked(x.op)' /\ (x.task = ui'.task \/ Left({x.op, "create"})')
    BY DEF AnswersAreOfTheView
  <2>1. x \in work /\ x.task \in Tasks /\ x.task # None
    BY <1>5, StepParts, NoneAssumption
  <2>2. Asked(x.op) /\ (x.task = ui.task \/ Left({x.op, "create"}))
    BY <2>1 DEF Attended, AnswersAreOfTheView
  <2>3. x.task = j.task \/ Left({x.op, "create"})
    <3>1. Left({"create"}) => Left({x.op, "create"})
      BY LeftWidens
    <3> QED  BY <1>4, <2>1, <2>2, <3>1
  <2> QED  BY <1>2, <1>7, <2>2, <2>3, LeftStays
<1> QED  BY <1>6, <1>8, <1>9 DEF Attended

LEMMA CreatedAttended ==
    ASSUME NEW F, NEW G, Step(F, G), TypeOK, Attended, NEW j \in work, Created(j)
    PROVE  Attended'
<1>1. /\ Creating(j) /\ Asked("create") /\ \A z \in work : Creating(z) => z = j
      /\ \/ Left({"create"})
         \/ ui.task = None /\ \A z \in work : ~Latest(z)
  BY DEF Created, Creating, Attended, OneIsCreated
<1>2. asked' = asked
  BY DEF Created
<1>3. AsksOne /\ asked \in Seq(Operations)
  BY <1>2, AskedSequence DEF AsksOne
<1>4. \A x \in work' : (x \in work /\ x # j) \/ x.op = "probe"
  BY DEF Created, Stream, Becomes, ProbeJob
<1>5. LatestLoadAgrees'
  <2> SUFFICES ASSUME NEW x \in work', Latest(x)
               PROVE  /\ \A z \in work' : Latest(z) => z.task = x.task
                      /\ Left({"create"})'
    BY DEF LatestLoadAgrees, Latest
  <2>1. \A z \in work' : Latest(z) => z \in work
    BY <1>4 DEF Latest
  <2>2. Left({"create"}) /\ \A z \in work : Latest(z) => z.task = x.task
    BY <1>1, <2>1 DEF Attended, LatestLoadAgrees
  <2> QED  BY <1>3, <2>1, <2>2, LeftStays
<1>6. OneIsCreated'
  <2>1. \A x \in work' : ~Creating(x)
    BY <1>1, <1>4 DEF Creating
  <2> QED  BY <2>1 DEF OneIsCreated, Creating
<1>7. AnswersAreOfTheView'
  <2> SUFFICES ASSUME NEW x \in work', x.op \in {"resume", "compact"}
               PROVE  Asked(x.op)' /\ Left({x.op, "create"})'
    BY DEF AnswersAreOfTheView
  <2>1. x \in work /\ x.task \in Tasks /\ x.task # None
    BY <1>4, StepParts, NoneAssumption
  <2>2. Asked(x.op) /\ (x.task = ui.task \/ Left({x.op, "create"}))
    BY <2>1 DEF Attended, AnswersAreOfTheView
  <2>3. Left({x.op, "create"})
    <3>1. Left({"create"}) => Left({x.op, "create"})
      BY LeftWidens
    <3> QED  BY <1>1, <2>1, <2>2, <3>1
  <2> QED  BY <1>3, <2>2, <2>3, LeftStays
<1> QED  BY <1>5, <1>6, <1>7 DEF Attended

\* Any step of the store, for the types of its state.
LEMMA AnyStep ==
    ASSUME TypeOK, IsFiniteSet(work), Next
    PROVE  \E F, G : Step(F, G) /\ \A j \in work : MayShow(G, j)
<1>1. PICK F : F = AnyRuns
  OBVIOUS
<1>2. PICK G : G = AnyRuns'
  OBVIOUS
<1>3. Step(F, G)
  BY <1>1, <1>2, TypesStep, TypesAreParts, StepOfAny
<1>4. \A j \in work : MayShow(G, j)
  BY <1>2, <1>3, StepParts DEF MayShow, AnyRuns
<1> QED  BY <1>3, <1>4

LEMMA AttendedStep ==
    ASSUME TypeOK, IsFiniteSet(work), Attended, [Next]_vars
    PROVE  Attended'
<1>1. CASE Next
  <2>1. PICK F, G : Step(F, G) /\ \A j \in work : MayShow(G, j)
    BY <1>1, AnyStep
  <2>2. CASE Core
    BY <2>2, CoreIsQuiet, QuietKeeps
  <2>3. CASE User
    <3>1. CASE \E t \in Tasks : Open(t) \/ CreateTask(t)
      BY <2>1, <3>1, OpenAttended, CreateTaskAttended
    <3>2. CASE SendMessage \/ RegenerateMessage \/ EnqueueInput \/ StopChat
      BY <2>1, <3>2, QuietUser, QuietKeeps
    <3>3. CASE ResumeChat \/ CompactContext \/ ClearActiveTask \/ ArchiveTask
      BY <2>1, <3>3, AskingAttended, ClearAttended
    <3> QED  BY <2>3, <3>1, <3>2, <3>3 DEF User
  <2>4. CASE Streams
    BY <2>1, <2>4, StreamsAreQuiet, QuietKeeps DEF Streams
  <2>5. CASE Answers
    <3>1. PICK j \in work : Continues(j)
      BY <2>5 DEF Answers
    <3>2. CASE Opens(j)
      BY <2>1, <3>2, LoadedAttended, CreatedAttended, FollowOpensAttended DEF Opens
    <3>3. CASE ~Opens(j)
      BY <2>1, <3>1, <3>3, QuietAnswers, QuietKeeps
    <3> QED  BY <3>2, <3>3
  <2> QED  BY <1>1, <2>2, <2>3, <2>4, <2>5 DEF Next
<1>2. CASE UNCHANGED vars
  BY <1>2 DEF vars, Attended, LatestLoadAgrees, OneIsCreated, AnswersAreOfTheView, Asked, Left,
              Latest, Creating
<1> QED  BY <1>1, <1>2

\* The invariant the properties of the task on show rest on.
Kept == TypeOK /\ IsFiniteSet(work) /\ Attended

LEMMA InitKept == Init => Kept
<1>1. Init => work = {}
  BY DEF Init, InitView
<1>2. work = {} => Attended
  BY DEF Attended, LatestLoadAgrees, OneIsCreated, AnswersAreOfTheView
<1> QED  BY <1>1, <1>2, InitTyped DEF Kept

LEMMA KeptStep == ASSUME Kept, [Next]_vars  PROVE Kept'
BY TypesStep, AttendedStep DEF Kept

LEMMA UserAsks == ASSUME Kept, User  PROVE asked' # asked
<1>1. PICK operation \in Operations : asked' = Append(asked, operation)
  <2>1. \E operation \in Operations : Asks(operation)
    BY DEF User, Open, CreateTask, SendMessage, RegenerateMessage, EnqueueInput, StopChat,
           ResumeChat, CompactContext, ClearActiveTask, ArchiveTask, Operations
  <2> QED  BY <2>1 DEF Asks
<1>2. asked \in Seq(Operations)
  BY AskedSequence DEF Kept
<1>3. Len(asked') = Len(asked) + 1 /\ Len(asked) \in Nat
  BY <1>1, <1>2
<1> QED  BY <1>3

\* An answer changes the task on show only when nothing was shown, or when a creation
\* was overtaken.
LEMMA TaskChanges ==
    ASSUME Kept, Next, ui'.task # ui.task, ui.task # None
    PROVE  asked' # asked \/ Left({"create"})
<1>1. PICK F, G : Step(F, G) /\ \A j \in work : MayShow(G, j)
  BY AnyStep DEF Kept
<1>2. CASE Core
  BY <1>2, CoreIsQuiet DEF Quiet
<1>3. CASE User
  BY <1>3, UserAsks
<1>4. CASE Streams
  BY <1>1, <1>4, StreamsAreQuiet DEF Streams, Quiet
<1>5. CASE Answers
  <2>1. PICK j \in work : Continues(j)
    BY <1>5 DEF Answers
  <2>2. Opens(j)
    BY <1>1, <2>1, AnswersKeepTask
  <2>3. CASE Loaded(j) /\ j.latest
    <3>1. Latest(j)
      BY <2>3 DEF Loaded, Latest
    <3>2. ui.task = j.task \/ Left({"create"})
      BY <3>1 DEF Kept, Attended, LatestLoadAgrees
    <3>3. ui'.task = j.task
      BY <1>1, <2>3, LoadedShows
    <3> QED  BY <3>2, <3>3
  <2>4. CASE Created(j)
    BY <2>4 DEF Created, Creating, Kept, Attended, OneIsCreated
  <2>5. CASE FollowOpens(j)
    <3>1. ui.task = j.task /\ j.task \in Tasks
      BY <1>1, <2>5, StepParts DEF FollowOpens, IsNextRun
    <3>2. ui'.task = j.task
      BY <1>1, <2>5, <3>1, OpenTaskErrands DEF FollowOpens
    <3> QED  BY <3>1, <3>2
  <2> QED  BY <2>2, <2>3, <2>4, <2>5 DEF Opens
<1> QED  BY <1>2, <1>3, <1>4, <1>5 DEF Next

\* While a task is shown, only the user puts another in its place, or the answer to
\* a creation the user has left: loads, polls, streams and stops never do
\* (openTaskRequest, task-store.ts).
THEOREM TaskOnShowIsAlwaysTheUsers == Spec => TaskOnShowIsTheUsers
<1>1. Init => Kept
  BY InitKept
<1>2. Kept /\ [Next]_vars => Kept'
  BY KeptStep
<1>3. Kept /\ [Next]_vars
      => [ui'.task # ui.task /\ ui.task # None => asked' # asked \/ Left({"create"})]_vars
  BY TaskChanges
<1> QED  BY <1>1, <1>2, <1>3, PTL DEF Spec, TaskOnShowIsTheUsers

-----------------------------------------------------------------------------
(* The tasks stay apart *)

\* The runs that have begun first are of the task on show.
LEMMA InitRunsAreOwn == Init => Started \subseteq OwnRuns[ui.task] /\ ui.task \in Tasks \cup {None}
<1> SUFFICES ASSUME Init
             PROVE  Started \subseteq OwnRuns[ui.task] /\ ui.task \in Tasks \cup {None}
  OBVIOUS
<1>1. IdleRun.status = "new" /\ Blank.task = None
  BY DEF IdleRun, Blank
<1>2. CASE InitCore(None, None)
  <2>1. Started = {}
    BY <1>1, <1>2, NoneAssumption DEF InitCore, Started
  <2>2. ui.task \in Tasks \cup {None}
    BY InitTyped DEF TypeOK, Fits, ViewsFit, SomeViews
  <2> QED  BY <2>1, <2>2
<1>3. ASSUME NEW t \in Shown, NEW r, r = Min(Runs), NEW s, InitCore(t, r),
             InitView(Watched(t, r), s)
      PROVE  Started \subseteq OwnRuns[ui.task] /\ ui.task \in Tasks \cup {None}
  <2>1. t \in Tasks /\ t # None
    BY ExistingAssumption, NoneAssumption
  <2>2. ui.task = t
    BY <1>3 DEF InitView, Watched, Opened, Blank
  <2>3. \A x \in Started : x = r /\ run[x].task = t
    <3> DEFINE new == [IdleRun EXCEPT !.task = t, !.status = "RUNNING"]
    <3>1. new.task = t
      BY DEF IdleRun
    <3>2. run = [x \in Runs |-> IF x = r THEN new ELSE IdleRun]
      BY <1>3 DEF InitCore
    <3> HIDE DEF new, IdleRun
    <3> QED  BY <1>1, <3>1, <3>2 DEF Started
  <2> QED  BY <2>1, <2>2, <2>3 DEF OwnRuns, RunsOf, Started
<1> QED  BY <1>2, <1>3 DEF Init

LEMMA InitOwn == Init => Fits(OwnRuns)
<1> SUFFICES ASSUME Init  PROVE Fits(OwnRuns)
  OBVIOUS
<1>1. Fits(AnyRuns)
  BY InitTyped DEF TypeOK
<1>2. Started \subseteq OwnRuns[ui.task] /\ ui.task \in Tasks \cup {None}
  BY InitRunsAreOwn
<1>3. \A t \in Tasks \cup {None} : AnyRuns[t] = Started
  BY DEF AnyRuns
<1>4. PICK v, s : InitView(v, s)
  BY DEF Init
<1>5. ViewsFit(OwnRuns)
  <2>1. ui \in SomeViews(OwnRuns[ui.task])
    BY <1>1, <1>2, <1>3, ViewsGrow DEF Fits, ViewsFit
  <2>2. \A t \in Tasks : cache[t] = Blank \/ (t = ui.task /\ cache[t] = ui)
    BY <1>4 DEF InitView
  <2>3. \A t \in Tasks : cache[t].task \in {None, t}
    BY <1>1 DEF Fits, ViewsFit
  <2> QED  BY <2>1, <2>2, <2>3, BlankType DEF ViewsFit
<1>6. SavedFits(OwnRuns)
  <2>1. \A t \in Tasks : saved[t] = NoMessages
    BY DEF Init, InitCore
  <2> QED  BY <2>1, NoMessagesType DEF SavedFits
<1>7. SubsFit(OwnRuns)
  <2> SUFFICES ASSUME NEW x \in Subs  PROVE sub[x] \in Subscriptions(OwnRuns[sub[x].task])
    BY DEF SubsFit
  <2>1. sub[x] = Subscription("open", ui.task, ui.run.id, 0) \/ sub[x] = IdleSub
    BY <1>4 DEF InitView
  <2>2. CASE sub[x] = Subscription("open", ui.task, ui.run.id, 0)
    <3>1. sub[x].task = ui.task
      BY <2>2 DEF Subscription
    <3>2. sub[x] \in Subscriptions(Started)
      BY <1>1, <1>2, <1>3, <3>1 DEF Fits, SubsFit
    <3> QED  BY <1>2, <3>1, <3>2, SubscriptionsGrow
  <2>3. CASE sub[x] = IdleSub
    BY <2>3, IdleSubscription
  <2> QED  BY <2>1, <2>2, <2>3
<1>8. JobsFit(OwnRuns)
  BY <1>4 DEF InitView, JobsFit
<1> QED  BY <1>5, <1>6, <1>7, <1>8 DEF Fits

\* What an answer brings that does not look at the task again is the task's own, unless
\* it is one of those TasksStayApart names.
LEMMA OwnStep ==
    ASSUME Kept, Next, Fits(OwnRuns), ~Fits(OwnRuns)'
    PROVE  \E j \in work \ work' :
              /\ j.task # ui.task
              /\ \/ j.op \in {"compact", "resume"}
                 \/ j.op = "open" /\ Left({"create"})
<1>1. PICK F : F = OwnRuns
  OBVIOUS
<1>2. PICK G : G = OwnRuns'
  OBVIOUS
<1>3. Step(F, G)
  BY <1>1, <1>2, TypesStep, StepOfOwn DEF Kept
<1>4. ~Fits(G)'
  BY <1>2 DEF Fits, ViewsFit, SavedFits, SubsFit, JobsFit
<1>5. PICK j \in work : ShowsAnyway(j) /\ ~MayShow(G, j)
  BY <1>3, <1>4, StepFits
<1>6. j \in work \ work'
  BY <1>5 DEF ShowsAnyway, Hydrated, Resumed, Compacted, Becomes
<1>7. j.task # ui.task /\ j.task \in Tasks
  BY <1>3, <1>5, StepParts DEF MayShow
<1>8. CASE Resumed(j) \/ Compacted(j)
  BY <1>6, <1>7, <1>8 DEF Resumed, Compacted
<1>9. CASE Hydrated(j) /\ j.latest
  <2>1. Latest(j) /\ j.op = "open"
    BY <1>9 DEF Hydrated, Latest
  <2>2. ui.task = None \/ Left({"create"})
    BY <1>7, <2>1 DEF Kept, Attended, LatestLoadAgrees
  <2>3. G[j.task] \subseteq G[None]
    <3>1. G[None] = Started'
      BY <1>2 DEF OwnRuns
    <3>2. G[j.task] \subseteq Started'
      BY <1>3, <1>7 DEF Step, Family
    <3> QED  BY <3>1, <3>2
  <2>4. Left({"create"})
    BY <1>5, <2>2, <2>3 DEF MayShow
  <2> QED  BY <1>6, <1>7, <2>1, <2>4
<1> QED  BY <1>5, <1>8, <1>9 DEF ShowsAnyway

LEMMA OwnRunsStutter ==
    ASSUME Fits(OwnRuns), UNCHANGED vars  PROVE Fits(OwnRuns)'
<1>1. UNCHANGED <<run, saved, ui, cache, sub, work>>
  BY DEF vars
<1>2. OwnRuns' = OwnRuns
  BY <1>1 DEF OwnRuns, Started, RunsOf
<1>3. PICK own : own = OwnRuns
  OBVIOUS
<1>4. Fits(own)'
  BY <1>1, <1>3 DEF Fits, ViewsFit, SavedFits, SubsFit, JobsFit
<1> QED  BY <1>2, <1>3, <1>4 DEF Fits, ViewsFit, SavedFits, SubsFit, JobsFit

\* Whatever is late, it never puts anything of one task into the view, the messages, the
\* batch or the answers of another, but for three kinds of answers: a compaction's, a
\* resume's, and a chunk's when a creation was overtaken.
THEOREM TasksAlwaysStayApart == Spec => TasksStayApart
<1>1. Init => Kept
  BY InitKept
<1>2. Kept /\ [Next]_vars => Kept'
  BY KeptStep
<1>3. Kept /\ [Next]_vars
      => [~Fits(OwnRuns)'
          => \/ ~Fits(OwnRuns)
             \/ \E j \in work \ work' :
                   /\ j.task # ui.task
                   /\ \/ j.op \in {"compact", "resume"}
                      \/ j.op = "open" /\ Left({"create"})]_vars
  BY OwnStep
<1> QED  BY <1>1, <1>2, <1>3, PTL DEF Spec, TasksStayApart

LEMMA NextAsksOne == ASSUME Next  PROVE AsksOne
<1>1. CASE Core
  BY <1>1, CoreIsQuiet DEF Quiet
<1>2. CASE User
  <2>1. \E operation \in Operations : Asks(operation)
    BY <1>2 DEF User, Open, CreateTask, SendMessage, RegenerateMessage, EnqueueInput, StopChat,
                ResumeChat, CompactContext, ClearActiveTask, ArchiveTask, Operations
  <2> QED  BY <2>1 DEF Asks, AsksOne
<1>3. CASE Streams
  BY <1>3 DEF Streams, Deliver, Flush, Submit, Refuse, Abort, AsksOne
<1>4. CASE Answers
  BY <1>4, AnswersAskNothing DEF Answers, AsksOne
<1> QED  BY <1>1, <1>2, <1>3, <1>4 DEF Next

\* What all the views, messages, subscriptions and jobs hold is their task's own, unless
\* the user left a task while a compaction, a resume or a creation was under way.
HoldTheirOwn == Fits(OwnRuns) \/ Left({"resume", "create", "compact"})

LEMMA HoldTheirOwnStep ==
    ASSUME Kept, HoldTheirOwn, [Next]_vars  PROVE HoldTheirOwn'
<1>1. CASE Next
  <2>1. asked \in Seq(Operations) /\ AsksOne
    BY <1>1, AskedSequence, NextAsksOne DEF Kept
  <2>2. CASE Left({"resume", "create", "compact"})
    BY <2>1, <2>2, LeftStays DEF HoldTheirOwn
  <2>3. CASE Fits(OwnRuns) /\ ~Fits(OwnRuns)'
    <3>1. PICK j \in work \ work' :
             /\ j.task # ui.task
             /\ \/ j.op \in {"compact", "resume"}
                \/ j.op = "open" /\ Left({"create"})
      BY <1>1, <2>3, OwnStep
    <3>2. CASE j.op \in {"compact", "resume"}
      <4>1. Left({j.op, "create"})
        BY <3>1, <3>2 DEF Kept, Attended, AnswersAreOfTheView
      <4>2. {j.op, "create"} \subseteq {"resume", "create", "compact"}
        BY <3>2
      <4>3. Left({"resume", "create", "compact"})
        BY <4>1, <4>2, LeftWidens
      <4> QED  BY <2>2, <4>3
    <3>3. CASE Left({"create"})
      <4>1. Left({"resume", "create", "compact"})
        BY <3>3, LeftWidens
      <4> QED  BY <2>2, <4>1
    <3> QED  BY <3>1, <3>2, <3>3
  <2> QED  BY <2>2, <2>3 DEF HoldTheirOwn
<1>2. CASE UNCHANGED vars
  <2>1. asked' = asked
    BY <1>2 DEF vars
  <2> QED  BY <1>2, <2>1, OwnRunsStutter DEF HoldTheirOwn, Left
<1> QED  BY <1>1, <1>2

THEOREM ViewsAlwaysShowTheirOwn == Spec => []ViewsShowTheirOwn
<1>1. Init => Kept /\ HoldTheirOwn
  BY InitKept, InitOwn DEF HoldTheirOwn
<1>2. Kept /\ HoldTheirOwn /\ [Next]_vars => (Kept /\ HoldTheirOwn)'
  BY KeptStep, HoldTheirOwnStep
<1>3. Kept /\ HoldTheirOwn => ViewsShowTheirOwn
  BY DEF HoldTheirOwn, ViewsShowTheirOwn, Fits
<1> QED  BY <1>1, <1>2, <1>3, PTL DEF Spec

-----------------------------------------------------------------------------
(* The subscription that is held *)

\* No subscription begins to listen, or changes its task.
Calmer(f) == \A s \in Subs : f[s].listening => sub[s].listening /\ f[s].task = sub[s].task
Calms == current' \in {current, None} /\ Calmer(sub')

LEMMA SubsCalm ==
    ASSUME NEW f, Calmer(f), SubsBecome(f)  PROVE Calmer(sub')
BY DEF SubsBecome, Calmer, IdleSub

LEMMA QuietListening ==
    ASSUME NEW S, NEW x \in Subscriptions(S)
    PROVE  /\ [x EXCEPT !.listening = FALSE, !.batch = <<>>].listening = FALSE
           /\ [x EXCEPT !.batch = <<>>].listening = x.listening
           /\ [x EXCEPT !.batch = <<>>].task = x.task
           /\ [x EXCEPT !.calling = FALSE].listening = x.listening
           /\ [x EXCEPT !.calling = FALSE].task = x.task
BY DEF Subscriptions

LEMMA GivenUpCalm ==
    ASSUME NEW owned, NEW f, AllFit(f, owned), Calmer(f), NEW x
    PROVE  Calmer(Unsubscribed(f, x)) /\ Calmer(Unbatched(f, x)) /\ Calmer(Resolved(f, x))
<1> SUFFICES ASSUME NEW s \in Subs
             PROVE  /\ Unsubscribed(f, x)[s].listening
                       => sub[s].listening /\ Unsubscribed(f, x)[s].task = sub[s].task
                    /\ Unbatched(f, x)[s].listening
                       => sub[s].listening /\ Unbatched(f, x)[s].task = sub[s].task
                    /\ Resolved(f, x)[s].listening
                       => sub[s].listening /\ Resolved(f, x)[s].task = sub[s].task
  BY DEF Calmer
<1>1. /\ f[s] \in Subscriptions(owned[f[s].task])
      /\ f[s].listening => sub[s].listening /\ f[s].task = sub[s].task
  BY DEF AllFit, Calmer
<1>2. /\ [f[s] EXCEPT !.listening = FALSE, !.batch = <<>>].listening = FALSE
      /\ [f[s] EXCEPT !.batch = <<>>].listening = f[s].listening
      /\ [f[s] EXCEPT !.batch = <<>>].task = f[s].task
      /\ [f[s] EXCEPT !.calling = FALSE].listening = f[s].listening
      /\ [f[s] EXCEPT !.calling = FALSE].task = f[s].task
  <2>1. PICK S : f[s] \in Subscriptions(S)
    BY <1>1
  <2> QED  BY <2>1, QuietListening
<1>3. \/ Unsubscribed(f, x)[s] = f[s]
      \/ Unsubscribed(f, x)[s] = [f[s] EXCEPT !.listening = FALSE, !.batch = <<>>]
  BY DEF Unsubscribed
<1>4. Unbatched(f, x)[s] = f[s] \/ Unbatched(f, x)[s] = [f[s] EXCEPT !.batch = <<>>]
  BY DEF Unbatched
<1>5. Resolved(f, x)[s] = f[s] \/ Resolved(f, x)[s] = [f[s] EXCEPT !.calling = FALSE]
  BY DEF Resolved
<1>6. Unsubscribed(f, x)[s].listening
      => sub[s].listening /\ Unsubscribed(f, x)[s].task = sub[s].task
  BY <1>1, <1>2, <1>3
<1>7. Unbatched(f, x)[s].listening
      => sub[s].listening /\ Unbatched(f, x)[s].task = sub[s].task
  BY <1>1, <1>2, <1>4
<1>8. Resolved(f, x)[s].listening
      => sub[s].listening /\ Resolved(f, x)[s].task = sub[s].task
  BY <1>1, <1>2, <1>5
<1> QED  BY <1>6, <1>7, <1>8

LEMMA OneCalms ==
    ASSUME NEW s \in Subs, NEW y, y.listening => sub[s].listening /\ y.task = sub[s].task
    PROVE  Calmer([sub EXCEPT ![s] = y])
<1> DEFINE g == [sub EXCEPT ![s] = y]
<1>1. ASSUME NEW x \in Subs  PROVE (x = s /\ g[x] = y) \/ g[x] = sub[x]
  <2>1. CASE s \in DOMAIN sub
    BY <2>1
  <2>2. CASE s \notin DOMAIN sub
    BY <2>2
  <2> QED  BY <2>1, <2>2
<1> HIDE DEF g
<1>2. Calmer(g)
  BY <1>1 DEF Calmer
<1> QED  BY <1>2 DEF g

Held == HeldSubscriptionFeedsTheView

LEMMA HeldListens ==
    ASSUME NEW F, NEW G, Step(F, G), current # None, sub[current].listening
    PROVE  current \in Subs /\ sub[current].task \in Tasks
<1>1. current \in Subs
  BY DEF Step, Plain, StoreTyped
<1> QED  BY <1>1, StepParts, SubscriptionParts

LEMMA OvertakenStays ==
    ASSUME TypeOK, AsksOne, Overtaken  PROVE Overtaken'
BY AskedSequence, LeftStays DEF Overtaken

\* The subscription that is held stays, and the task on show unless there was none.
LEMMA HeldStays ==
    ASSUME NEW F, NEW G, Step(F, G), TypeOK, Held, AsksOne, Calms,
           ui'.task = ui.task \/ ui.task = None \/ Overtaken
    PROVE  Held'
<1> SUFFICES ASSUME current' # None, sub'[current'].listening, ~Overtaken'
             PROVE  sub'[current'].task = ui'.task
  BY DEF Held, HeldSubscriptionFeedsTheView
<1>1. current' = current /\ current \in Subs
  BY DEF Calms, Step, Plain, StoreTyped
<1>2. sub[current].listening /\ sub'[current].task = sub[current].task
  BY <1>1 DEF Calms, Calmer
<1>3. ~Overtaken
  BY OvertakenStays
<1>4. sub[current].task = ui.task /\ sub[current].task \in Tasks
  BY <1>1, <1>2, <1>3, HeldListens DEF Held, HeldSubscriptionFeedsTheView
<1> QED  BY <1>1, <1>2, <1>3, <1>4, NoneAssumption

\* A subscription of the task on show is held from now on.
LEMMA HeldBegins ==
    ASSUME NEW f, NEW y, CanSubscribe, SubsBecome([f EXCEPT ![NewSub] = y]),
           DOMAIN f = Subs, current' = NewSub,
           y.task = ui'.task \/ Overtaken'
    PROVE  Held'
<1>1. NewSub \in Subs
  BY SubscriptionIsFree
<1>2. PICK new : new = NewSub
  OBVIOUS
<1>3. sub'[new] = y \/ sub'[new] = IdleSub
  BY <1>1, <1>2 DEF SubsBecome
<1>4. sub'[current'].listening => sub'[current'].task = y.task
  BY <1>2, <1>3 DEF IdleSub
<1> QED  BY <1>4 DEF Held, HeldSubscriptionFeedsTheView

LEMMA HeldEnds == ASSUME current' = None  PROVE Held'
BY DEF Held, HeldSubscriptionFeedsTheView

LEMMA CalmsNow ==
    ASSUME NEW F, NEW G, Step(F, G)
    PROVE  AllFit(sub, G) /\ Calmer(sub) /\ DOMAIN sub = Subs
BY SubsFitBefore DEF Calmer, Step, Plain, StoreTyped

LEMMA UnchangedCalms == ASSUME UNCHANGED <<sub, current>>  PROVE Calms
BY DEF Calms, Calmer

LEMMA StreamHolds ==
    ASSUME NEW v, NEW jobs, NEW kind, NEW turn, Stream(v, jobs, kind, turn),
           ui'.task = v.task
    PROVE  Held'
<1> DEFINE f == Unsubscribed(sub, current)
           x == Subscription(kind, v.task, None, 0)
           y == [x EXCEPT !.turn = turn]
<1>1. DOMAIN f = Subs
  BY DEF Unsubscribed
<1>2. y.task = v.task
  BY DEF Subscription
<1>3. CanSubscribe /\ SubsBecome([f EXCEPT ![NewSub] = y]) /\ current' = NewSub
  BY DEF Stream
<1> HIDE DEF f, y
<1> QED  BY <1>1, <1>2, <1>3, HeldBegins

LEMMA StreamsHold ==
    ASSUME NEW F, NEW G, Step(F, G), TypeOK, Held, NEW s \in Subs,
           Deliver(s) \/ Flush(s) \/ Submit(s) \/ Refuse(s) \/ Abort(s)
    PROVE  Held'
<1>1. ui'.task = ui.task /\ AsksOne
  BY StreamsAreQuiet DEF Quiet
<1>2. AllFit(sub, G) /\ Calmer(sub) /\ DOMAIN sub = Subs /\ sub[s] \in Subscriptions(G[sub[s].task])
  BY CalmsNow, StepParts
<1>3. ASSUME NEW y, y.listening => sub[s].listening /\ y.task = sub[s].task,
             SubsBecome([sub EXCEPT ![s] = y])
      PROVE  Calmer(sub')
  BY <1>3, OneCalms, SubsCalm
<1>4. Calmer(sub')
  <2>1. CASE Deliver(s)
    <3> DEFINE e == sub[s]
               texts == IF ~(IsRaw(e) \/ (ui.task = e.task /\ IsNews(e.run, e.pos + 1)))
                        THEN e.batch
                        ELSE IF run[e.run].log[e.pos + 1] = "text"
                             THEN Append(e.batch, <<e.run, e.pos + 1>>) ELSE <<>>
               goesOn == run[e.run].log[e.pos + 1] \notin Closing
               y == [e EXCEPT !.pos = e.pos + 1, !.listening = goesOn, !.batch = texts]
    <3>1. SubsBecome([sub EXCEPT ![s] = y]) /\ e.listening
      BY <2>1 DEF Deliver
    <3>2. y.task = e.task
      <4> HIDE DEF texts, goesOn
      <4> QED  BY <1>2 DEF Subscriptions
    <3> HIDE DEF y
    <3> QED  BY <1>3, <3>1, <3>2
  <2>2. CASE Flush(s)
    BY <1>2, <2>2, GivenUpCalm, SubsCalm DEF Flush
  <2>3. CASE Submit(s)
    <3> DEFINE y == [sub[s] EXCEPT !.posting = FALSE, !.run = NewRun]
    <3>1. y.task = sub[s].task /\ y.listening = sub[s].listening
      BY <1>2 DEF Subscriptions
    <3>2. SubsBecome([sub EXCEPT ![s] = y])
      <4>1. [sub EXCEPT ![s].posting = FALSE, ![s].run = NewRun] = [sub EXCEPT ![s] = y]
        BY <1>2
      <4> QED  BY <2>3, <4>1 DEF Submit
    <3> HIDE DEF y
    <3> QED  BY <1>3, <3>1, <3>2
  <2>4. CASE Refuse(s)
    <3> DEFINE y == [sub[s] EXCEPT !.posting = FALSE, !.listening = FALSE]
    <3>1. ~y.listening
      BY <1>2 DEF Subscriptions
    <3>2. SubsBecome([sub EXCEPT ![s] = y])
      <4>1. [sub EXCEPT ![s].posting = FALSE, ![s].listening = FALSE] = [sub EXCEPT ![s] = y]
        BY <1>2
      <4> QED  BY <2>4, <4>1 DEF Refuse
    <3> HIDE DEF y
    <3> QED  BY <1>3, <3>1, <3>2
  <2>5. CASE Abort(s)
    <3> DEFINE y == [sub[s] EXCEPT !.posting = FALSE]
    <3>1. y.task = sub[s].task /\ y.listening = sub[s].listening
      BY <1>2 DEF Subscriptions
    <3>2. SubsBecome([sub EXCEPT ![s] = y])
      <4>1. [sub EXCEPT ![s].posting = FALSE] = [sub EXCEPT ![s] = y]
        BY <1>2
      <4> QED  BY <2>5, <4>1 DEF Abort
    <3> HIDE DEF y
    <3> QED  BY <1>3, <3>1, <3>2
  <2> QED  BY <2>1, <2>2, <2>3, <2>4, <2>5
<1>5. current' = current
  BY DEF Deliver, Flush, Submit, Refuse, Abort
<1> QED  BY <1>1, <1>4, <1>5, HeldStays DEF Calms

LEMMA UserHolds ==
    ASSUME NEW F, NEW G, Step(F, G), TypeOK, Attended, Held, User
    PROVE  Held'
<1>1. AsksOne
  BY NextAsksOne DEF Next
<1>2. CASE \/ \E t \in Tasks : Open(t)
           \/ ClearActiveTask \/ ArchiveTask
  BY <1>2, HeldEnds DEF Open, OpenTask, ClearActiveTask, ArchiveTask, Unhook
<1>3. CASE SendMessage \/ RegenerateMessage
  <2>1. ui'.task = ui.task
    BY <1>3, QuietUser DEF Quiet
  <2>2. ui \in SomeViews(G[ui.task])
    BY StepParts
  <2>3. CASE SendMessage
    <3>1. WithNewAnswer(ui).task = ui.task
      BY <2>2, WithNewAnswerType
    <3> QED  BY <2>1, <2>3, <3>1, StreamHolds DEF SendMessage
  <2>4. CASE RegenerateMessage
    <3> DEFINE m == [past |-> BeforeLastTurn(ui), answer |-> <<>>, open |-> TRUE]
    <3>1. Showing(ui, m).task = ui.task
      BY <2>2 DEF Showing, SomeViews
    <3> QED  BY <2>1, <2>4, <3>1, StreamHolds DEF RegenerateMessage
  <2> QED  BY <1>3, <2>3, <2>4
<1>4. CASE \/ \E t \in Tasks : CreateTask(t)
           \/ EnqueueInput \/ StopChat \/ ResumeChat \/ CompactContext
  <2>1. UNCHANGED <<sub, current>>
    BY <1>4 DEF CreateTask, EnqueueInput, StopChat, ResumeChat, CompactContext, subs
  <2>2. ui'.task = ui.task
    <3>1. CASE \E t \in Tasks : CreateTask(t)
      BY <3>1 DEF CreateTask, view
    <3>2. CASE EnqueueInput \/ StopChat
      BY <3>2, QuietUser DEF Quiet
    <3>3. CASE ResumeChat \/ CompactContext
      BY <3>3, AskingKeepsTask
    <3> QED  BY <1>4, <3>1, <3>2, <3>3
  <2> QED  BY <1>1, <2>1, <2>2, UnchangedCalms, HeldStays
<1> QED  BY <1>2, <1>3, <1>4 DEF User

LEMMA LoadedHolds ==
    ASSUME NEW F, NEW G, Step(F, G), TypeOK, Attended, Held, NEW j \in work, Loaded(j)
    PROVE  Held'
<1>1. AsksOne /\ (Overtaken => Overtaken')
  BY OvertakenStays DEF Loaded, AsksOne
<1>2. CASE j.latest /\ IsRunProcessing(j.run)
  <2> DEFINE f == Unbatched(sub, current)
             y == Subscription("open", j.task, j.run.id, ResumeFrom(j))
  <2>1. DOMAIN f = Subs
    BY DEF Unbatched
  <2>2. y.task = ui'.task
    BY <1>2, LoadedShows DEF Subscription
  <2>3. CanSubscribe /\ SubsBecome([f EXCEPT ![NewSub] = y]) /\ current' = NewSub
    BY <1>2 DEF Loaded
  <2> HIDE DEF f, y
  <2> QED  BY <2>1, <2>2, <2>3, HeldBegins
<1>3. CASE ~(j.latest /\ IsRunProcessing(j.run))
  <2>1. UNCHANGED <<sub, current>>
    BY <1>3 DEF Loaded, subs
  <2>2. ui'.task = ui.task \/ ui.task = None \/ Overtaken
    <3>1. CASE j.latest
      <4>1. Latest(j)
        BY <3>1 DEF Loaded, Latest
      <4>2. ui'.task = j.task
        BY <3>1, LoadedShows
      <4>3. Left({"create"}) => Overtaken
        BY LeftWidens DEF Overtaken
      <4> QED  BY <4>1, <4>2, <4>3 DEF Attended, LatestLoadAgrees
    <3>2. CASE ~j.latest
      BY <3>2 DEF Loaded
    <3> QED  BY <3>1, <3>2
  <2> QED  BY <1>1, <2>1, <2>2, UnchangedCalms, HeldStays
<1> QED  BY <1>2, <1>3

LEMMA CreatedHolds ==
    ASSUME NEW F, NEW G, Step(F, G), TypeOK, Attended, Held, NEW j \in work, Created(j)
    PROVE  Held'
<1>1. Left({"create"}) \/ ui.task = None
  BY DEF Created, Creating, Attended, OneIsCreated
<1>2. CASE Left({"create"})
  <2>1. Overtaken
    BY <1>2, LeftWidens DEF Overtaken
  <2>2. AsksOne
    BY DEF Created, AsksOne
  <2> QED  BY <2>1, <2>2, OvertakenStays DEF Held, HeldSubscriptionFeedsTheView
<1>3. CASE ui.task = None
  <2>1. PICK v : v = CreatedView(j)
    OBVIOUS
  <2>2. ui'.task = WithNewAnswer(v).task
    BY <2>1, CreatedFits, CreatedViewFits
  <2>3. CASE Stream(WithNewAnswer(v), work \ {j}, "send", None)
    BY <2>2, <2>3, StreamHolds
  <2>4. CASE UNCHANGED subs
    <3>1. UNCHANGED <<sub, current>> /\ AsksOne
      BY <2>4 DEF subs, Created, AsksOne
    <3> QED  BY <1>3, <3>1, UnchangedCalms, HeldStays
  <2> QED  BY <2>1, <2>3, <2>4, CreatedIs
<1> QED  BY <1>1, <1>2, <1>3

LEMMA ResumedHolds ==
    ASSUME TypeOK, Attended, NEW j \in work, Resumed(j), ui'.task = ui.task
    PROVE  Held'
<1>1. j.task = ui'.task \/ Overtaken'
  <2>1. j.op = "resume" /\ AsksOne
    BY DEF Resumed, AsksOne
  <2>2. j.task = ui.task \/ Left({"resume", "create"})
    BY <2>1 DEF Attended, AnswersAreOfTheView
  <2>3. Left({"resume", "create"}) => Overtaken
    BY DEF Overtaken
  <2> QED  BY <2>1, <2>2, <2>3, OvertakenStays
<1> DEFINE f == Unbatched(sub, current)
           y == Subscription("resume", j.task, j.run.id, j.run.replay)
<1>2. DOMAIN f = Subs
  BY DEF Unbatched
<1>3. y.task = j.task
  BY DEF Subscription
<1>4. CanSubscribe /\ SubsBecome([f EXCEPT ![NewSub] = y]) /\ current' = NewSub
  BY DEF Resumed
<1> HIDE DEF f, y
<1> QED  BY <1>1, <1>2, <1>3, <1>4, HeldBegins

LEMMA SettleCalms ==
    ASSUME NEW F, NEW G, Step(F, G), NEW j \in work, Settle(j)
    PROVE  Calms
<1>1. AllFit(sub, G) /\ Calmer(sub)
  BY CalmsNow
<1>2. CASE UNCHANGED subs
  BY <1>2, UnchangedCalms DEF subs
<1>3. CASE sub[j.sub].calling
  <2> DEFINE f == IF current = j.sub THEN Unsubscribed(sub, j.sub) ELSE sub
  <2>1. AllFit(f, G) /\ Calmer(f)
    BY <1>1, GivenUpFit, GivenUpCalm
  <2>2. SubsBecome(Resolved(f, j.sub)) /\ current' \in {current, None}
    BY <1>3 DEF Settle
  <2> HIDE DEF f
  <2>3. Calmer(Resolved(f, j.sub))
    BY <2>1, GivenUpCalm
  <2> QED  BY <2>2, <2>3, SubsCalm DEF Calms
<1> QED  BY <1>2, <1>3 DEF Settle

LEMMA AnswersHold ==
    ASSUME NEW F, NEW G, Step(F, G), TypeOK, Attended, Held, NEW j \in work, Continues(j),
           MayShow(G, j)
    PROVE  Held'
<1>1. AsksOne
  BY AnswersAskNothing DEF AsksOne
<1>2. CASE Loaded(j) \/ Created(j) \/ FollowOpens(j)
  BY <1>2, LoadedHolds, CreatedHolds, HeldEnds DEF FollowOpens, OpenTask, Unhook
<1>3. CASE ~(Loaded(j) \/ Created(j) \/ FollowOpens(j))
  <2>1. ui'.task = ui.task
    BY <1>3, AnswersKeepTask DEF Opens
  <2>2. CASE Resumed(j)
    BY <2>1, <2>2, ResumedHolds
  <2>3. CASE Settle(j)
    BY <1>1, <2>1, <2>3, SettleCalms, HeldStays
  <2>4. CASE PauseAnswered(j) \/ StopGivesUp(j)
    <3>1. current' = None \/ UNCHANGED <<sub, current>>
      BY <2>4 DEF PauseAnswered, StopGivesUp, SettlePause, subs
    <3> QED  BY <1>1, <2>1, <3>1, HeldEnds, UnchangedCalms, HeldStays
  <2>5. CASE PauseSettled(j)
    <3>1. AllFit(sub, G) /\ Calmer(sub)
      BY CalmsNow
    <3>2. PICK f \in {sub, Unsubscribed(sub, resolver)} : SubsBecome(Resolved(f, resolver))
      BY <2>5 DEF PauseSettled
    <3>3. Calmer(Resolved(f, resolver))
      BY <3>1, GivenUpFit, GivenUpCalm
    <3>4. Calms
      BY <2>5, <3>2, <3>3, SubsCalm DEF PauseSettled, Calms
    <3> QED  BY <1>1, <2>1, <3>4, HeldStays
  <2>6. CASE ~(Resumed(j) \/ Settle(j) \/ PauseAnswered(j) \/ StopGivesUp(j) \/ PauseSettled(j))
    <3>1. UNCHANGED <<sub, current>>
      BY <1>3, <2>6 DEF Continues, MessagesRead, RunRead, Hydrated, SettleRead, ProbeRead, Probed,
                   FollowAgain, InputQueued, Enqueued, StopFound, PauseRun, PauseRead,
                   ResumeRun, ResumeRefused, CompactionRead, Compacted, CompactionRefused, subs
    <3> QED  BY <1>1, <2>1, <3>1, UnchangedCalms, HeldStays
  <2> QED  BY <2>2, <2>3, <2>4, <2>5, <2>6
<1> QED  BY <1>2, <1>3

LEMMA HeldStep ==
    ASSUME Kept, Held, [Next]_vars  PROVE Held'
<1>1. CASE Next
  <2>1. PICK F, G : Step(F, G) /\ \A j \in work : MayShow(G, j)
    BY <1>1, AnyStep DEF Kept
  <2>2. CASE Core
    <3>1. UNCHANGED <<ui, sub, current>>
      BY <2>2 DEF Core, EmitText, Complete, Fail, Pause, StartNext, view, subs
    <3>2. AsksOne
      BY <2>2, CoreIsQuiet DEF Quiet
    <3> QED  BY <2>1, <3>1, <3>2, UnchangedCalms, HeldStays DEF Kept
  <2>3. CASE User
    BY <2>1, <2>3, UserHolds DEF Kept
  <2>4. CASE Streams
    BY <2>1, <2>4, StreamsHold DEF Streams, Kept
  <2>5. CASE Answers
    BY <2>1, <2>5, AnswersHold DEF Answers, Kept
  <2> QED  BY <1>1, <2>2, <2>3, <2>4, <2>5 DEF Next
<1>2. CASE UNCHANGED vars
  BY <1>2 DEF vars, Held, HeldSubscriptionFeedsTheView, Overtaken, Left
<1> QED  BY <1>1, <1>2

\* The subscription the store holds is one of the task it shows, whichever loads, sends
\* and switches overlap, unless a resume or a creation was overtaken.
THEOREM HeldSubscriptionAlwaysFeedsTheView == Spec => []HeldSubscriptionFeedsTheView
<1>1. Init => Kept /\ Held
  <2>1. ASSUME NEW v, NEW s, InitView(v, s), s = None \/ (s \in Subs /\ s # None)  PROVE Held
    <3>1. CASE s = None
      BY <2>1, <3>1 DEF InitView, Held, HeldSubscriptionFeedsTheView
    <3>2. CASE s \in Subs
      <4>1. sub[s] = Subscription("open", v.task, v.run.id, 0) /\ current = s /\ ui = v
        BY <2>1, <3>2 DEF InitView
      <4>2. sub[s].task = v.task
        BY <4>1 DEF Subscription
      <4> QED  BY <4>1, <4>2 DEF Held, HeldSubscriptionFeedsTheView
    <3> QED  BY <2>1, <3>1, <3>2
  <2>2. Min(Subs) \in Subs /\ Min(Subs) # None
    BY LeastOf, NamesAssumption, NoneAssumption
  <2> QED  BY <2>1, <2>2, InitKept DEF Init
<1>2. Kept /\ Held /\ [Next]_vars => (Kept /\ Held)'
  BY KeptStep, HeldStep
<1>3. Held => HeldSubscriptionFeedsTheView
  BY DEF Held
<1> QED  BY <1>1, <1>2, <1>3, PTL DEF Spec

-----------------------------------------------------------------------------
(* A stopped answer is frozen *)

LEMMA TextOfNewAnswer ==
    ASSUME NEW S, NEW v \in SomeViews(S)
    PROVE  TextOf(WithNewAnswer(v)) = TextOf(v)
<1>1. v.past \in Seq(S \X Nat) /\ v.answer \in Seq(S \X Nat)
  BY DEF SomeViews, Texts
<1>2. (v.past \o v.answer) \o <<>> = v.past \o v.answer
  <2>1. v.past \o v.answer \in Seq(S \X Nat)
    BY <1>1
  <2> QED  BY <2>1, ConcatEmptySeq
<1>3. WithNewAnswer(v).past = v.past \o v.answer /\ WithNewAnswer(v).answer = <<>>
  BY DEF WithNewAnswer, SomeViews
<1> QED  BY <1>2, <1>3 DEF TextOf

LEMMA TextOfShowing ==
    ASSUME NEW S, NEW v \in SomeViews(S), NEW m
    PROVE  TextOf(Showing(v, m)) = TextOf(m)
<1>1. Showing(v, m).past = m.past /\ Showing(v, m).answer = m.answer
  BY DEF Showing, SomeViews
<1> QED  BY <1>1 DEF TextOf

LEMMA TextOfMessages == ASSUME NEW v  PROVE TextOf(Messages(v)) = TextOf(v)
BY DEF TextOf, Messages

\* A batch is not added to an answer that is being paused.
LEMMA TextShownFrozen ==
    ASSUME NEW S, NEW v \in SomeViews(S), NEW t, NEW d
    PROVE  /\ TextShown(v, t, d).pausing = v.pausing
           /\ v.pausing => TextShown(v, t, d) = v
BY DEF TextShown, SomeViews

LEMMA EndShownFrozen ==
    ASSUME NEW S, NEW v \in SomeViews(S), NEW t, NEW event, EndShown(v, t, event).pausing
    PROVE  EndShown(v, t, event) = v
BY DEF EndShown, SomeViews

LEMMA EnvelopedText ==
    ASSUME NEW S, NEW v \in SomeViews(S), NEW event, NEW n
    PROVE  TextOf(Enveloped(v, event, n)) = TextOf(v)
BY DEF Enveloped, SomeViews, TextOf

LEMMA ReconciledText ==
    ASSUME NEW S, NEW v \in SomeViews(S), NEW page, NEW keepLive
    PROVE  TextOf(Reconciled(v, page, keepLive)) \in {TextOf(page), page.past \o v.answer}
BY TextOfShowing DEF Reconciled, TextOf

Frozen == ui.pausing /\ ui'.pausing => TextOf(ui') = TextOf(ui)

LEMMA UserFreezes ==
    ASSUME NEW F, NEW G, Step(F, G), User, ui'.task = ui.task
    PROVE  Frozen
<1>1. ui \in SomeViews(G[ui.task]) /\ ui.task \in Tasks \cup {None}
  BY StepParts
<1>2. CASE \E t \in Tasks : Open(t)
  BY <1>2, OpenTaskErrands DEF Open
<1>3. CASE \/ \E t \in Tasks : CreateTask(t)
           \/ EnqueueInput
  BY <1>3 DEF CreateTask, EnqueueInput, view, Frozen
<1>4. CASE SendMessage \/ RegenerateMessage
  <2>1. PICK v : ui' = [v EXCEPT !.run = NoRun, !.usage = FreshUsage, !.chatting = TRUE,
                                 !.pausing = FALSE, !.stopped = FALSE]
                 /\ \E S : v \in SomeViews(S)
    <3>1. CASE SendMessage
      BY <1>1, <3>1, WithNewAnswerType DEF SendMessage, Stream
    <3>2. CASE RegenerateMessage
      <4> DEFINE m == [past |-> BeforeLastTurn(ui), answer |-> <<>>, open |-> TRUE]
      <4>1. m \in SomeMessages(G[ui.task])
        BY <1>1 DEF SomeMessages, SomeViews, BeforeLastTurn, Grows, Texts
      <4>2. Showing(ui, m) \in SomeViews(G[ui.task])
        <5> HIDE DEF m
        <5> QED  BY <1>1, <4>1, ShowingType
      <4> QED  BY <3>2, <4>2 DEF RegenerateMessage, Stream
    <3> QED  BY <1>4, <3>1, <3>2
  <2> QED  BY <2>1 DEF SomeViews, Frozen
<1>5. CASE StopChat
  BY <1>1, <1>5 DEF StopChat, SomeViews, TextOf, Frozen
<1>6. CASE ResumeChat
  <2>1. WithNewAnswer(ui) \in SomeViews(G[ui.task])
    BY <1>1, WithNewAnswerType
  <2> DEFINE w == WithNewAnswer(ui)
  <2>2. ui' = [w EXCEPT !.usage = FreshUsage, !.chatting = TRUE,
                        !.pausing = FALSE, !.stopped = FALSE]
    BY <1>6 DEF ResumeChat
  <2>3. w \in SomeViews(G[ui.task])
    BY <2>1
  <2> HIDE DEF w
  <2> QED  BY <2>2, <2>3 DEF SomeViews, Frozen
<1>7. CASE CompactContext
  <2>1. PICK w : ui' = [w EXCEPT !.compacting = TRUE] /\ w = WithNewAnswer(ui)
    BY <1>7 DEF CompactContext
  <2>2. w \in SomeViews(G[ui.task]) /\ TextOf(w) = TextOf(ui)
    BY <1>1, <2>1, WithNewAnswerType, TextOfNewAnswer
  <2>3. ui'.past = w.past /\ ui'.answer = w.answer
    BY <2>1, <2>2 DEF SomeViews
  <2> QED  BY <2>2, <2>3 DEF TextOf, Frozen
<1>8. CASE ClearActiveTask \/ ArchiveTask
  <2>1. ui' = Blank \/ ui' = [Blank EXCEPT !.usage = ui.usage, !.hydrating = ui.hydrating]
    BY <1>8 DEF ClearActiveTask, ArchiveTask
  <2>2. Blank \in SomeViews({}) /\ Blank.pausing = FALSE
    BY BlankType DEF Blank
  <2>3. ui'.pausing = FALSE
    <3> HIDE DEF Blank
    <3> QED  BY <2>1, <2>2 DEF SomeViews
  <2> QED  BY <2>3 DEF Frozen
<1> QED  BY <1>2, <1>3, <1>4, <1>5, <1>6, <1>7, <1>8 DEF User

LEMMA StreamsFreeze ==
    ASSUME NEW F, NEW G, Step(F, G), NEW s \in Subs,
           Deliver(s) \/ Flush(s) \/ Submit(s) \/ Refuse(s) \/ Abort(s)
    PROVE  Frozen
<1>1. ui \in SomeViews(G[ui.task])
  BY StepParts
<1>2. CASE Deliver(s)
  <2> DEFINE n == sub[s].pos + 1
             event == run[sub[s].run].log[n]
             t == sub[s].task
             d == sub[s].batch
             numbered == ~IsRaw(sub[s]) /\ ui.task = t /\ IsNews(sub[s].run, n)
             told == IF numbered THEN Enveloped(ui, event, n) ELSE ui
             flushed == TextShown(told, t, d)
  <2>1. ui' \in {ui, told, flushed, EndShown(flushed, t, event)}
    BY <1>2 DEF Deliver
  <2>2. TextOf(told) = TextOf(ui)
    BY <1>1, EnvelopedText
  <2>3. told \in SomeViews(G[ui.task])
    BY <1>1, <1>2, ToldType
  <2> HIDE DEF told
  <2>4. flushed.pausing = told.pausing /\ (told.pausing => flushed = told)
    BY <2>3, TextShownFrozen
  <2>5. EndShown(flushed, t, event).pausing => EndShown(flushed, t, event) = flushed
    <3>1. flushed = told \/ flushed = [told EXCEPT !.answer = @ \o d]
      BY DEF TextShown
    <3> HIDE DEF flushed
    <3> QED  BY <2>3, <3>1 DEF EndShown, SomeViews
  <2> HIDE DEF flushed
  <2> QED  BY <2>1, <2>2, <2>4, <2>5 DEF Frozen
<1>3. CASE Flush(s)
  BY <1>1, <1>3, TextShownFrozen DEF Flush, Frozen
<1>4. CASE Submit(s) \/ Refuse(s) \/ Abort(s)
  BY <1>4 DEF Submit, Refuse, Abort, view, Frozen
<1> QED  BY <1>2, <1>3, <1>4

\* The text that takes the place of what is shown was read from the saved messages, or
\* was remembered.
Replaces(j) ==
    /\ j \in work \ work'
    /\ \/ j.op = "open" /\ TextOf(ui') = TextOf(cache[ui.task])
       \/ /\ j.op \in {"open", "settle", "stop", "resume", "compact"}
          /\ TextOf(ui') \in {TextOf(j.page), j.page.past \o ui.answer}

LEMMA BecomesElse ==
    ASSUME NEW j, NEW next, Becomes(j, next), j \notin next  PROVE j \notin work'
BY DEF Becomes

LEMMA LoadedReplaces ==
    ASSUME NEW F, NEW G, Step(F, G), NEW j \in work, Loaded(j), ui'.task = ui.task
    PROVE  ui' = ui \/ Replaces(j)
<1>1. CASE ~j.latest
  BY <1>1 DEF Loaded
<1>2. CASE j.latest
  <2> DEFINE processing == IsRunProcessing(j.run)
             m == IF ResumesCached(j) THEN Messages(cache[j.task]) ELSE j.page
             tracked == IF processing THEN [j.run EXCEPT !.cursor = ResumeFrom(j)] ELSE j.run
             n == IF ResumesCached(j) THEN cache[j.task].usage ELSE FreshUsage
             w == Showing(Blank, m)
             v == [w EXCEPT !.task = j.task, !.run = tracked, !.usage = n, !.chatting = processing,
                            !.pausing = (j.run.status = "PAUSING"),
                            !.stopped = (j.run.status = "PAUSED")]
             l == LoadedView(j)
             y == [j EXCEPT !.at = "chunk", !.run = NoRun, !.page = Messages(l)]
  <2>1. j \in OpenJobs(G[j.task]) /\ j.at = "read" /\ j.op = "open"
    BY StepParts, JobKinds DEF Loaded
  <2>2. ui'.task = j.task
    BY <1>2, LoadedShows
  <2>3. l = v \/ l = WithNewAnswer(v)
    BY DEF LoadedView, WithRunAssistant
  <2>4. l \in SomeViews(G[j.task]) /\ ui' = [l EXCEPT !.hydrating = InChunks(j)]
    BY <1>2, <2>1, LoadedViewFits DEF Loaded
  <2>5. m.past = v.past /\ m.answer = v.answer
    <3>1. w.past = m.past /\ w.answer = m.answer
      BY DEF Showing, Blank
    <3>2. DOMAIN w = DOMAIN Blank
      BY DEF Showing, Blank
    <3>3. "past" \in DOMAIN w /\ "answer" \in DOMAIN w
      BY <3>2 DEF Blank
    <3> HIDE DEF w, m, n, tracked, processing
    <3> QED  BY <3>1, <3>3
  <2>6. m.past \in Seq(G[j.task] \X Nat) /\ m.answer \in Seq(G[j.task] \X Nat)
    <3>1. cache[j.task] \in SomeViews(G[j.task]) /\ j.page \in SomeMessages(G[j.task])
      BY <2>1, StepParts DEF OpenJobs
    <3>2. m \in SomeMessages(G[j.task])
      BY <3>1, MessagesType
    <3> HIDE DEF m
    <3> QED  BY <3>2 DEF SomeMessages, Texts
  <2>7. TextOf(ui') = TextOf(m)
    <3>1. \/ l.past = m.past /\ l.answer = m.answer
          \/ l.past = m.past \o m.answer /\ l.answer = <<>>
      <4>1. CASE l = v
        <5> HIDE DEF v, m, l
        <5> QED  BY <2>5, <4>1
      <4>2. CASE l = WithNewAnswer(v)
        <5>1. "past" \in DOMAIN v /\ "answer" \in DOMAIN v
          BY DEF Showing, Blank
        <5> HIDE DEF v, m, l
        <5> QED  BY <2>5, <4>2, <5>1 DEF WithNewAnswer
      <4> QED  BY <2>3, <4>1, <4>2
    <3>2. TextOf(l) = TextOf(m)
      <4>1. (m.past \o m.answer) \o <<>> = m.past \o m.answer
        <5>1. m.past \o m.answer \in Seq(G[j.task] \X Nat)
          <6> HIDE DEF m
          <6> QED  BY <2>6
        <5> HIDE DEF m
        <5> QED  BY <5>1, ConcatEmptySeq
      <4> HIDE DEF m, l
      <4> QED  BY <3>1, <4>1 DEF TextOf
    <3>3. ui'.past = l.past /\ ui'.answer = l.answer
      <4> HIDE DEF l
      <4> QED  BY <2>4 DEF SomeViews
    <3> HIDE DEF l, m
    <3> QED  BY <3>2, <3>3 DEF TextOf
  <2>8. j \notin work'
    <3>1. y.at = "chunk"
      BY <2>1 DEF OpenJobs
    <3>2. \A x \in work' : x \in work \ {j} \/ x = y
      BY <1>2 DEF Loaded, Becomes, When
    <3> HIDE DEF y
    <3> QED  BY <2>1, <3>1, <3>2
  <2>9. TextOf(m) = TextOf(cache[ui.task]) \/ TextOf(m) = TextOf(j.page)
    BY <2>2, TextOfMessages
  <2> HIDE DEF m
  <2> QED  BY <2>1, <2>7, <2>8, <2>9 DEF Replaces
<1> QED  BY <1>1, <1>2

LEMMA FollowOpensReplaces ==
    ASSUME NEW F, NEW G, Step(F, G), NEW j \in work, FollowOpens(j)
    PROVE  \/ TextOf(ui') = TextOf(ui)
           \/ ui.hydrating /\ TextOf(ui') = TextOf(cache[ui.task])
<1>1. ui.task = j.task /\ ui.task \in Tasks /\ ui.task # None
  BY StepParts, NoneAssumption DEF FollowOpens, IsNextRun
<1> DEFINE m == IF ui.hydrating /\ IsCached(ui.task) THEN Messages(cache[ui.task])
                ELSE Messages(ui)
           w == Showing(ui, m)
           entry == [w EXCEPT !.hydrating = FALSE, !.compacting = FALSE]
<1>2. ui \in SomeViews(G[ui.task]) /\ DOMAIN cache = Tasks
  BY StepParts DEF Step, Plain, StoreTyped
<1>3. CacheEntry = entry
  BY DEF CacheEntry
<1>4. w.past = m.past /\ w.answer = m.answer /\ w.task = ui.task
      /\ DOMAIN w = DOMAIN ui
  BY <1>2 DEF Showing, SomeViews
<1>5. entry.past = m.past /\ entry.answer = m.answer /\ entry.task = ui.task
  <2>1. "past" \in DOMAIN w /\ "answer" \in DOMAIN w /\ "task" \in DOMAIN w
    BY <1>2, <1>4 DEF SomeViews
  <2> HIDE DEF w, m
  <2> QED  BY <1>4, <2>1
<1>6. ui' = entry
  <2>1. Remembered[j.task] = entry
    <3> HIDE DEF entry
    <3> QED  BY <1>1, <1>2, <1>3 DEF Remembered
  <2> HIDE DEF entry
  <2> QED  BY <1>1, <1>5, <2>1 DEF FollowOpens, OpenTask
<1>7. TextOf(ui') = TextOf(m)
  <2> HIDE DEF entry, m
  <2> QED  BY <1>5, <1>6 DEF TextOf
<1> QED  BY <1>7, TextOfMessages

LEMMA TailsLeave ==
    ASSUME NEW j, NEW s, Becomes(j, Tails(s)), j.op # "follow"  PROVE j \notin work'
BY DEF Becomes, Tails, FollowJob

LEMMA SettlingReplaces ==
    ASSUME NEW F, NEW G, Step(F, G), NEW j \in work, Settle(j) \/ PauseSettled(j)
    PROVE  Frozen \/ Replaces(j)
<1> SUFFICES ASSUME ui'.pausing  PROVE TextOf(ui') = TextOf(ui) \/ Replaces(j)
  BY DEF Frozen
<1>1. ui \in SomeViews(G[ui.task])
  BY StepParts
<1>2. j \notin work' /\ j.op \in {"settle", "stop"}
  BY TailsLeave DEF Settle, PauseSettled
<1>3. PICK c, keepLive : c = Reconciled(ui, j.page, keepLive)
                         /\ \/ ui' = ui
                            \/ ui' = [c EXCEPT !.usage = FreshUsage]
                            \/ ui' = [c EXCEPT !.usage = FreshUsage,
                                         !.run = WithStatus(j.run, "FAILED"),
                                         !.chatting = FALSE, !.pausing = FALSE,
                                         !.stopped = FALSE]
  <2>1. CASE Settle(j)
    <3> DEFINE c == Reconciled(ui, j.page, j.event = "failed")
               d == [c EXCEPT !.usage = FreshUsage]
    <3>1. \/ ui' = ui \/ ui' = d
          \/ ui' = [d EXCEPT !.run = WithStatus(j.run, "FAILED"),
                             !.chatting = FALSE, !.pausing = FALSE, !.stopped = FALSE]
      BY <2>1 DEF Settle
    <3> HIDE DEF c
    <3>2. [d EXCEPT !.run = WithStatus(j.run, "FAILED"),
                    !.chatting = FALSE, !.pausing = FALSE, !.stopped = FALSE]
          = [c EXCEPT !.usage = FreshUsage, !.run = WithStatus(j.run, "FAILED"),
                      !.chatting = FALSE, !.pausing = FALSE, !.stopped = FALSE]
      OBVIOUS
    <3>3. ui' = ui \/ ui' = d
          \/ ui' = [c EXCEPT !.usage = FreshUsage, !.run = WithStatus(j.run, "FAILED"),
                             !.chatting = FALSE, !.pausing = FALSE, !.stopped = FALSE]
      BY <3>1, <3>2
    <3> QED  BY <3>3 DEF c
  <2>2. CASE PauseSettled(j)
    <3> DEFINE c == Reconciled(ui, j.page, j.run.status = "PAUSED")
    <3>1. PICK v : (v = ui \/ v = [c EXCEPT !.usage = FreshUsage])
                   /\ (ui' = v \/ \E t, d : ui' = TextShown(v, t, d))
      BY <2>2 DEF PauseSettled
    <3>2. "pausing" \in DOMAIN v
      BY <1>1, <3>1 DEF Reconciled, Showing, SomeViews
    <3> HIDE DEF c
    <3>3. ui' = v
      BY <3>1, <3>2 DEF TextShown
    <3> QED  BY <3>1, <3>3 DEF c
  <2> QED  BY <2>1, <2>2
<1>4. DOMAIN c = DOMAIN ui
  BY <1>1, <1>3 DEF Reconciled, Showing
<1>5. ui' = ui \/ (ui'.past = c.past /\ ui'.answer = c.answer)
  <2>1. "past" \in DOMAIN c /\ "answer" \in DOMAIN c
    BY <1>1, <1>4 DEF SomeViews
  <2> QED  BY <1>3, <2>1
<1>6. TextOf(c) \in {TextOf(j.page), j.page.past \o ui.answer}
  BY <1>1, <1>3, ReconciledText
<1> QED  BY <1>2, <1>5, <1>6 DEF TextOf, Replaces

LEMMA ReadReplaces ==
    ASSUME NEW F, NEW G, Step(F, G), NEW j \in work,
           Hydrated(j) \/ ResumeRefused(j) \/ Compacted(j)
    PROVE  TextOf(ui') = TextOf(ui) \/ Replaces(j)
<1>1. ui \in SomeViews(G[ui.task])
  BY StepParts
<1>2. j \notin work' /\ j.op \in {"open", "resume", "compact"}
  BY DEF Hydrated, ResumeRefused, Compacted, Becomes
<1>3. PICK w : w = Showing(ui, j.page)
  OBVIOUS
<1>4. TextOf(w) = TextOf(j.page) /\ DOMAIN w = DOMAIN ui
  BY <1>1, <1>3, TextOfShowing DEF Showing
<1>5. "past" \in DOMAIN w /\ "answer" \in DOMAIN w
  BY <1>1, <1>4 DEF SomeViews
<1>6. \/ ui' = ui
      \/ ui' = [w EXCEPT !.hydrating = FALSE]
      \/ ui' = [w EXCEPT !.run = j.run, !.chatting = FALSE, !.stopped = TRUE]
      \/ ui' = [w EXCEPT !.compacting = FALSE, !.usage = FreshUsage]
  BY <1>3 DEF Hydrated, ResumeRefused, Compacted
<1>7. ui' = ui \/ (ui'.past = w.past /\ ui'.answer = w.answer)
  BY <1>5, <1>6
<1> QED  BY <1>2, <1>4, <1>7 DEF TextOf, Replaces

LEMMA SettlePauseFreezes ==
    ASSUME NEW F, NEW G, Step(F, G), NEW v \in SomeViews(G[ui.task]), NEW j, NEW snapshot,
           TextOf(v) = TextOf(ui), SettlePause(v, j, snapshot), ui'.pausing
    PROVE  TextOf(ui') = TextOf(ui)
<1> DEFINE flushed == IF current = None THEN v
                      ELSE TextShown(v, sub[current].task, sub[current].batch)
           w == [flushed EXCEPT !.run = snapshot, !.chatting = FALSE, !.pausing = FALSE,
                                !.stopped = (snapshot.status = "PAUSED")]
<1>1. flushed.pausing = v.pausing /\ (v.pausing => flushed = v)
  BY TextShownFrozen
<1>2. ui' = flushed \/ ui' = w
  BY DEF SettlePause
<1>3. DOMAIN flushed = DOMAIN v
  BY DEF TextShown
<1>4. w.pausing = FALSE
  <2>1. "pausing" \in DOMAIN flushed
    BY <1>3 DEF SomeViews
  <2> HIDE DEF flushed
  <2> QED  BY <2>1
<1> HIDE DEF flushed, w
<1> QED  BY <1>1, <1>2, <1>4

LEMMA StoppingFreezes ==
    ASSUME NEW F, NEW G, Step(F, G), NEW j \in work,
           StopFound(j) \/ PauseAnswered(j) \/ StopGivesUp(j) \/ Probed(j) \/ Resumed(j)
           \/ CompactionRefused(j)
    PROVE  Frozen
<1>1. ui \in SomeViews(G[ui.task])
  BY StepParts
<1>2. CASE StopFound(j) \/ Probed(j) \/ Resumed(j)
  BY <1>1, <1>2 DEF StopFound, Probed, Resumed, SomeViews, TextOf, Frozen
<1>3. CASE PauseAnswered(j)
  <2> DEFINE x == [ui EXCEPT !.run = j.run, !.pausing = (j.run.status = "PAUSING")]
             v == IF ui.task = j.task THEN x ELSE ui
  <2>1. TextOf(v) = TextOf(ui)
    BY <1>1 DEF SomeViews, TextOf
  <2>2. v \in SomeViews(G[ui.task])
    <3>1. ASSUME ui.task = j.task  PROVE x \in SomeViews(G[ui.task])
      <4>1. j \in StopJobs(G[ui.task])
        BY <1>3, <3>1, StepParts, JobKinds DEF PauseAnswered
      <4>2. j.run \in Snapshots(G[ui.task])
        BY <4>1 DEF StopJobs, Snapshots
      <4>3. (j.run.status = "PAUSING") \in BOOLEAN
        OBVIOUS
      <4> QED  BY <1>1, <4>2, <4>3 DEF SomeViews, Grows
    <3> HIDE DEF x
    <3> QED  BY <1>1, <3>1
  <2>3. ui' = v \/ SettlePause(v, j, j.run)
    BY <1>3 DEF PauseAnswered
  <2> HIDE DEF v
  <2> QED  BY <2>1, <2>2, <2>3, SettlePauseFreezes DEF Frozen
<1>4. CASE StopGivesUp(j)
  <2>1. CASE SettlePause(ui, j, NoRun)
    BY <1>1, <2>1, SettlePauseFreezes DEF Frozen
  <2>2. CASE ~SettlePause(ui, j, NoRun)
    BY <1>1, <1>4, <2>2 DEF StopGivesUp, SomeViews, Frozen
  <2> QED  BY <2>1, <2>2
<1>5. CASE CompactionRefused(j)
  <2>1. PICK w : ui' = [w EXCEPT !.compacting = FALSE] /\ (w = ui \/ w = WithNewAnswer(ui))
    BY <1>5 DEF CompactionRefused, When
  <2>2. w \in SomeViews(G[ui.task]) /\ TextOf(w) = TextOf(ui)
    BY <1>1, <2>1, WithNewAnswerType, TextOfNewAnswer
  <2>3. ui'.past = w.past /\ ui'.answer = w.answer
    BY <2>1, <2>2 DEF SomeViews
  <2> QED  BY <2>2, <2>3 DEF TextOf, Frozen
<1> QED  BY <1>2, <1>3, <1>4, <1>5

LEMMA CreatedFreezes ==
    ASSUME NEW F, NEW G, Step(F, G), NEW j \in work, Created(j)
    PROVE  Frozen
<1>1. PICK v : v = CreatedView(j)
  OBVIOUS
<1>2. v \in SomeViews(G[j.task]) /\ WithNewAnswer(v) \in SomeViews(G[j.task])
  BY <1>1, CreatedViewFits
<1>3. CASE Stream(WithNewAnswer(v), work \ {j}, "send", None)
  <2>1. PICK w : w = WithNewAnswer(v)
    OBVIOUS
  <2>2. ui' = [w EXCEPT !.run = NoRun, !.usage = FreshUsage, !.chatting = TRUE,
                        !.pausing = FALSE, !.stopped = FALSE]
    BY <1>3, <2>1 DEF Stream
  <2> QED  BY <1>2, <2>1, <2>2 DEF SomeViews, Frozen
<1>4. CASE ui' = v
  <2>1. PICK w : w = Showing(ui, NoMessages)
    OBVIOUS
  <2>2. DOMAIN w = DOMAIN ui
    BY <2>1 DEF Showing
  <2>3. v = [w EXCEPT !.task = j.task, !.run = NoRun, !.usage = FreshUsage,
                      !.pausing = FALSE, !.hydrating = FALSE]
    BY <1>1, <2>1 DEF CreatedView
  <2>4. "pausing" \in DOMAIN w
    BY <2>2, StepParts DEF SomeViews
  <2> QED  BY <1>4, <2>3, <2>4 DEF Frozen
<1> QED  BY <1>1, <1>3, <1>4, CreatedIs

LEMMA AnswersFreeze ==
    ASSUME NEW F, NEW G, Step(F, G), NEW j \in work, Continues(j), ui'.task = ui.task,
           ui.pausing, ui'.pausing, TextOf(ui') # TextOf(ui)
    PROVE  Replaces(j) \/ (ui.hydrating /\ TextOf(ui') = TextOf(cache[ui.task]))
<1>1. CASE Loaded(j)
  BY <1>1, LoadedReplaces
<1>2. CASE FollowOpens(j)
  BY <1>2, FollowOpensReplaces
<1>3. CASE Settle(j) \/ PauseSettled(j)
  BY <1>3, SettlingReplaces DEF Frozen
<1>4. CASE Hydrated(j) \/ ResumeRefused(j) \/ Compacted(j)
  BY <1>4, ReadReplaces
<1>5. CASE StopFound(j) \/ PauseAnswered(j) \/ StopGivesUp(j) \/ Probed(j) \/ Resumed(j)
           \/ CompactionRefused(j)
  BY <1>5, StoppingFreezes DEF Frozen
<1>6. CASE Created(j)
  BY <1>6, CreatedFreezes DEF Frozen
<1>7. CASE \/ MessagesRead(j) \/ RunRead(j) \/ SettleRead(j) \/ ProbeRead(j) \/ FollowAgain(j)
           \/ InputQueued(j) \/ Enqueued(j) \/ PauseRun(j) \/ PauseRead(j) \/ ResumeRun(j)
           \/ CompactionRead(j)
  BY <1>7 DEF MessagesRead, RunRead, SettleRead, ProbeRead, FollowAgain, InputQueued, Enqueued,
              PauseRun, PauseRead, ResumeRun, CompactionRead, view
<1> QED  BY <1>1, <1>2, <1>3, <1>4, <1>5, <1>6, <1>7 DEF Continues

LEMMA FrozenStep ==
    ASSUME TypeOK, IsFiniteSet(work), Next, ui'.task = ui.task, ui.pausing, ui'.pausing,
           TextOf(ui') # TextOf(ui)
    PROVE  \/ ui.hydrating /\ TextOf(ui') = TextOf(cache[ui.task])
           \/ \E j \in work \ work' : Replaces(j)
<1>1. PICK F, G : Step(F, G)
  BY AnyStep
<1>2. CASE Core
  BY <1>2 DEF Core, EmitText, Complete, Fail, Pause, StartNext, view
<1>3. CASE User
  BY <1>1, <1>3, UserFreezes DEF Frozen
<1>4. CASE Streams
  BY <1>1, <1>4, StreamsFreeze DEF Streams, Frozen
<1>5. CASE Answers
  BY <1>1, <1>5, AnswersFreeze DEF Answers, Replaces
<1> QED  BY <1>2, <1>3, <1>4, <1>5 DEF Next

\* From the click that stops it until the pause is over, the answer that is shown is
\* frozen: nothing that streams adds to it, and what takes its place was read from the
\* saved messages, or was remembered (stopChat, chat-event-handler.ts).
THEOREM StoppedAnswerIsAlwaysFrozen == Spec => StoppedAnswerIsFrozen
<1>1. Init => TypeOK /\ IsFiniteSet(work)
  BY InitTyped
<1>2. (TypeOK /\ IsFiniteSet(work)) /\ [Next]_vars => (TypeOK /\ IsFiniteSet(work))'
  BY TypesStep
<1>3. (TypeOK /\ IsFiniteSet(work)) /\ [Next]_vars
      => [ui'.task = ui.task /\ ui.pausing /\ ui'.pausing /\ TextOf(ui') # TextOf(ui)
          => \/ ui.hydrating /\ TextOf(ui') = TextOf(cache[ui.task])
             \/ \E j \in work \ work' :
                   \/ j.op = "open" /\ TextOf(ui') = TextOf(cache[ui.task])
                   \/ /\ j.op \in {"open", "settle", "stop", "resume", "compact"}
                      /\ TextOf(ui') \in {TextOf(j.page), j.page.past \o ui.answer}]_vars
  BY FrozenStep DEF Replaces
<1> QED  BY <1>1, <1>2, <1>3, PTL DEF Spec, StoppedAnswerIsFrozen

=============================================================================
