------------------------ MODULE RunCoordinatorProofs ------------------------
(***************************************************************************)
(* Proofs about RunCoordinator, for every set of tasks, runs, inputs and   *)
(* clients, every bound on the slots and with or without faults: its       *)
(* types, and the slots: no more than lumora.runs.max-concurrent are       *)
(* handed out, a run at work holds one, and none is left with a run that   *)
(* is not at work.                                                         *)
(***************************************************************************)
EXTENDS RunCoordinator, FiniteSetTheorems, SequenceTheorems, TLAPS

-----------------------------------------------------------------------------
(* The queue *)

\* The tail drainQueue leaves of a queue of runs is one.
LEMMA SubSeqType ==
    ASSUME NEW q \in Seq(Runs), NEW m \in Nat \ {0}, NEW n \in Int, n <= Len(q)
    PROVE  SubSeq(q, m, n) \in Seq(Runs)
<1>1. q \in [1..Len(q) -> Runs] /\ Len(q) \in Nat
  BY LenProperties
<1>2. \A i \in m..n : q[i] \in Runs
  BY <1>1
<1> QED BY <1>2, SubSeqProperties

\* enqueue keeps the queue a queue of runs.
LEMMA EnqueueType ==
    ASSUME NEW q \in Seq(Runs), NEW r \in Runs
    PROVE  Enqueue(q, r) \in Seq(Runs)
BY AppendProperties DEF Enqueue

\* queuedRunIds.remove keeps the queue a queue of runs.
LEMMA DequeueType ==
    ASSUME NEW q \in Seq(Runs), NEW r
    PROVE  Dequeue(q, r) \in Seq(Runs)
<1>1. CASE r \notin Range(q)
  BY <1>1 DEF Dequeue
<1>2. CASE r \in Range(q)
  <2> DEFINE k == CHOOSE j \in DOMAIN q : q[j] = r
  <2>1. k \in DOMAIN q
    BY <1>2 DEF Range
  <2>2. k \in 1..Len(q) /\ Len(q) \in Nat
    BY <2>1, LenProperties
  <2> HIDE DEF k
  <2>3. SubSeq(q, 1, k - 1) \in Seq(Runs) /\ SubSeq(q, k + 1, Len(q)) \in Seq(Runs)
    <3>1. k - 1 \in Int /\ k - 1 <= Len(q) /\ k + 1 \in Nat \ {0} /\ Len(q) \in Int
      BY <2>2
    <3> QED BY <3>1, SubSeqType
  <2>4. Dequeue(q, r) = SubSeq(q, 1, k - 1) \o SubSeq(q, k + 1, Len(q))
    BY <1>2 DEF Dequeue, RemoveAt, k
  <2> QED BY <2>3, <2>4, ConcatProperties
<1> QED BY <1>1, <1>2

\* The runs drainQueue starts come from the queue and were QUEUED.
LEMMA StartedRuns ==
    ASSUME NEW st, NEW q \in Seq(Runs), NEW bad
    PROVE  /\ Range(q) \subseteq Runs
           /\ \A k \in 0..Len(q) : /\ Started(st, q, bad, k) \subseteq Runs \ bad
                                   /\ \A r \in Started(st, q, bad, k) : st[r] = "QUEUED"
           /\ Started(st, q, bad, 0) = {}
<1>1. q \in [1..Len(q) -> Runs] /\ Len(q) \in Nat
  BY LenProperties
<1>2. Started(st, q, bad, 0) = {}
  BY DEF Started
<1> QED BY <1>1, <1>2 DEF Range, Started

\* Popping one more entry starts one more run at most.
LEMMA StartedOneMore ==
    ASSUME NEW st, NEW q \in Seq(Runs), NEW bad, NEW n \in 1..Len(q)
    PROVE  Started(st, q, bad, n) \subseteq Started(st, q, bad, n - 1) \cup {q[n]}
<1>1. n \in Nat /\ \A j \in 1..n : j = n \/ j \in 1..(n - 1)
  BY LenProperties
<1> QED BY <1>1 DEF Started

-----------------------------------------------------------------------------
(* Next turns *)

\* The choices of enqueueNextTurn create runs that did not exist, one for each
\* task it is due for.
LEMMA NextTurnsCreate ==
    ASSUME TypeOK, NEW ts \in SUBSET Tasks, NEW st \in [Runs -> Status],
           NEW inp \in [Inputs -> Input], NEW pick \in NextTurns(ts, st, inp)
    PROVE  /\ DOMAIN pick \subseteq ts
           /\ \A t \in DOMAIN pick : /\ FreshRun(t, st) \in Runs
                                     /\ st[FreshRun(t, st)] = "NEW"
                                     /\ TaskOf[FreshRun(t, st)] = t
                                     /\ ActiveRuns(t, st) = {}
           /\ Created(pick, st) \subseteq {r \in Runs : st[r] = "NEW"}
           /\ WithCreated(pick, st) \in [Runs -> Status]
           /\ WithTaken(pick, st, inp) \in [Inputs -> Input]
<1>1. DOMAIN pick \subseteq {t \in ts : ActiveRuns(t, st) = {} /\ Unused(t, st) # {}}
  BY DEF NextTurns
<1>2. \A t \in DOMAIN pick : FreshRun(t, st) \in Unused(t, st)
  BY <1>1 DEF FreshRun
<1>3. \A t \in DOMAIN pick : /\ FreshRun(t, st) \in Runs
                             /\ st[FreshRun(t, st)] = "NEW"
                             /\ TaskOf[FreshRun(t, st)] = t
                             /\ ActiveRuns(t, st) = {}
  BY <1>1, <1>2 DEF Unused, RunsOf
<1>4. Created(pick, st) \subseteq {r \in Runs : st[r] = "NEW"}
  BY <1>3 DEF Created
<1>5. WithCreated(pick, st) \in [Runs -> Status]
  BY DEF WithCreated, Status, Active
<1>6. WithTaken(pick, st, inp) \in [Inputs -> Input]
  BY <1>3 DEF WithTaken, Input
<1> QED BY <1>1, <1>3, <1>4, <1>5, <1>6

\* The runs enqueueNextTurn creates, in any order, are a queue of runs.
LEMMA NewIsSeq ==
    ASSUME NEW S \in SUBSET Runs, NEW new \in SetToSeqs(S)
    PROVE  new \in Seq(Runs)
<1>1. Cardinality(S) \in Nat
  BY FiniteAssumption, FS_Subset, FS_CardinalityType
<1>2. new \in [1..Cardinality(S) -> Runs]
  BY DEF SetToSeqs
<1> QED BY <1>1, <1>2, SeqDef

-----------------------------------------------------------------------------
(* drainQueue *)

\* What drainQueue does to statuses and slots: some QUEUED runs start and take a
\* slot, some fail to, and no other run moves.
Drained(st, ex, start, bad) ==
    /\ start \subseteq Runs /\ bad \subseteq Runs
    /\ \A r \in start \cup bad : st[r] = "QUEUED"
    /\ executing' = ex \cup start
    /\ status' = [r \in Runs |-> IF r \in start THEN "RUNNING"
                                 ELSE IF r \in bad THEN "FAILED" ELSE st[r]]

\* What drainQueue changes, with its choices named: the entries popped, the
\* failed starts and the runs started.
LEMMA DrainQueueMoves ==
    ASSUME NEW st, NEW q \in Seq(Runs), NEW ex, NEW wk, NEW inp,
           DrainQueue(st, q, ex, wk, inp)
    PROVE  \E start, bad : Drained(st, ex, start, bad)
<1>1. PICK n \in 0..Len(q), bad \in SUBSET {r \in Range(q) : st[r] = "QUEUED"} :
         /\ executing' = ex \cup Started(st, q, bad, n)
         /\ status' = [r \in Runs |-> IF r \in Started(st, q, bad, n) THEN "RUNNING"
                                      ELSE IF r \in bad THEN "FAILED" ELSE st[r]]
  BY DEF DrainQueue
<1> DEFINE start == Started(st, q, bad, n)
<1>2. start \subseteq Runs /\ \A r \in start : st[r] = "QUEUED"
  BY StartedRuns
<1>3. bad \subseteq Runs /\ \A r \in bad : st[r] = "QUEUED"
  BY StartedRuns
<1>4. Drained(st, ex, start, bad)
  BY <1>1, <1>2, <1>3 DEF Drained
<1> QED BY <1>4

\* A run started while a slot is free leaves the slots within their bound.
LEMMA OneMoreFits ==
    ASSUME NEW S \in SUBSET Runs, NEW T, NEW x, T \subseteq S \cup {x},
           Cardinality(S) < MaxConcurrentRuns
    PROVE  Cardinality(T) <= MaxConcurrentRuns
<1>1. IsFiniteSet(S)
  BY FiniteAssumption, FS_Subset
<1>2. Cardinality(S) \in Nat
  BY <1>1, FS_CardinalityType
<1>3. IsFiniteSet(S \cup {x}) /\ Cardinality(S \cup {x}) <= Cardinality(S) + 1
  BY <1>1, <1>2, FS_AddElement
<1>4. Cardinality(T) <= Cardinality(S \cup {x}) /\ IsFiniteSet(T)
  BY <1>3, FS_Subset
<1>5. Cardinality(T) \in Nat /\ Cardinality(S \cup {x}) \in Nat
  BY <1>3, <1>4, FS_CardinalityType
<1> QED BY <1>2, <1>3, <1>4, <1>5, MaxConcurrentRunsAssumption

\* The loop only pops while a slot is free, so that the last run it starts takes
\* the last free slot at most.
LEMMA DrainQueueKeepsSlotBound ==
    ASSUME NEW st, NEW q \in Seq(Runs), NEW ex \in SUBSET Runs, NEW wk, NEW inp,
           DrainQueue(st, q, ex, wk, inp), Cardinality(ex) <= MaxConcurrentRuns
    PROVE  Cardinality(executing') <= MaxConcurrentRuns
<1>1. PICK n \in 0..Len(q), bad \in SUBSET {r \in Range(q) : st[r] = "QUEUED"} :
         /\ PopsThrough(n, st, q, ex, bad)
         /\ executing' = ex \cup Started(st, q, bad, n)
  BY DEF DrainQueue
<1> DEFINE before == ex \cup Started(st, q, bad, n - 1)
           after  == ex \cup Started(st, q, bad, n)
<1>2. CASE n = 0
  <2>1. after = ex
    BY <1>2, StartedRuns
  <2> QED BY <1>1, <2>1
<1>3. CASE n # 0
  <2>1. n \in 1..Len(q) /\ n - 1 \in 0..Len(q)
    BY <1>3, LenProperties
  <2>2. before \subseteq Runs
    <3>1. \A k \in 0..Len(q) : Started(st, q, bad, k) \subseteq Runs
      BY StartedRuns
    <3> QED BY <2>1, <3>1
  <2>3. after \subseteq before \cup {q[n]}
    <3>1. Started(st, q, bad, n) \subseteq Started(st, q, bad, n - 1) \cup {q[n]}
      BY <2>1, StartedOneMore
    <3> QED BY <3>1
  <2>4. Cardinality(before) < MaxConcurrentRuns
    BY <1>1, <1>3 DEF PopsThrough, SlotFree
  <2> HIDE DEF before, after
  <2>5. Cardinality(after) <= MaxConcurrentRuns
    BY <2>2, <2>3, <2>4, OneMoreFits
  <2> QED BY <1>1, <2>5 DEF after
<1> QED BY <1>2, <1>3

\* The steers deliverPendingSteers is called for, and what becomes of each: it is
\* delivered, turned down or left. The runtime holds some of them.
PendingSteers(start, inp) == {i \in Inputs : /\ inp[i].status = "PENDING"
                                             /\ inp[i].target = "NEXT_STEP"
                                             /\ inp[i].run \in start}

AfterDelivery(inp, accepted, rejected) ==
    [i \in Inputs |-> IF i \in accepted THEN [inp[i] EXCEPT !.status = "DELIVERED"]
                      ELSE IF i \in rejected THEN Detached ELSE inp[i]]

HeldSteers(start, inp, held) ==
    [r \in Runs |-> IF r \in start THEN {i \in held : inp[i].run = r} ELSE steers[r]]

LEMMA SteersDelivered ==
    ASSUME NEW start, NEW inp, DeliverPendingSteers(start, inp)
    PROVE  /\ \E accepted, rejected \in SUBSET PendingSteers(start, inp) :
                 input' = AfterDelivery(inp, accepted, rejected)
           /\ \E held \in SUBSET Inputs : steers' = HeldSteers(start, inp, held)
<1> DEFINE pending == PendingSteers(start, inp)
<1>1. \E accepted \in SUBSET pending : \E rejected \in SUBSET (pending \ accepted) :
      \E lost \in SUBSET (pending \ (accepted \cup rejected)) :
        /\ input' = AfterDelivery(inp, accepted, rejected)
        /\ steers' = HeldSteers(start, inp, accepted \cup lost)
  BY DEF DeliverPendingSteers, PendingSteers, AfterDelivery, HeldSteers
<1>2. pending \subseteq Inputs
  BY DEF PendingSteers
<1> HIDE DEF pending
<1>3. /\ \E accepted, rejected \in SUBSET pending :
            input' = AfterDelivery(inp, accepted, rejected)
      /\ \E held \in SUBSET Inputs : steers' = HeldSteers(start, inp, held)
  BY <1>1, <1>2
<1> QED BY <1>3 DEF pending

\* drainQueue, called with values in their types, leaves every variable in its own.
LEMMA DrainQueueType ==
    ASSUME TypeOK, NEW st \in [Runs -> Status], NEW q \in Seq(Runs),
           NEW ex \in SUBSET Runs, NEW wk \in [Runs -> Worker],
           NEW inp \in [Inputs -> Input], DrainQueue(st, q, ex, wk, inp)
    PROVE  /\ status' \in [Runs -> Status]
           /\ queue' \in Seq(Runs)
           /\ executing' \subseteq Runs
           /\ worker' \in [Runs -> Worker]
           /\ activeRun' \in [Tasks -> Runs \cup {NoRun}]
           /\ input' \in [Inputs -> Input]
           /\ steers' \in [Runs -> SUBSET Inputs]
<1>1. PICK n \in 0..Len(q), bad \in SUBSET {r \in Range(q) : st[r] = "QUEUED"} :
         /\ queue' = SubSeq(q, n + 1, Len(q))
         /\ StartWorkers(Started(st, q, bad, n), wk)
         /\ DeliverPendingSteers(Started(st, q, bad, n), MoveOpenSteersToNextTurn(inp, bad))
  BY DEF DrainQueue
<1> DEFINE start == Started(st, q, bad, n)
           moved == MoveOpenSteersToNextTurn(inp, bad)
<1>2. start \subseteq Runs
  BY StartedRuns
<1>3. status' \in [Runs -> Status] /\ executing' \subseteq Runs
  BY DrainQueueMoves DEF Drained, Status, Active, Working, Terminal
<1>4. queue' \in Seq(Runs)
  <2>1. n + 1 \in Nat \ {0} /\ Len(q) \in Int /\ Len(q) <= Len(q)
    BY LenProperties
  <2> QED BY <1>1, <2>1, SubSeqType
<1>5. worker' \in [Runs -> Worker]
  BY <1>1 DEF StartWorkers, NoWorker, Worker
<1>6. activeRun' \in [Tasks -> Runs \cup {NoRun}]
  <2>1. \A t \in Tasks : (\E r \in start : TaskOf[r] = t) =>
           (CHOOSE r \in start : TaskOf[r] = t) \in Runs
    BY <1>2
  <2> QED BY <1>1, <2>1 DEF StartWorkers, TypeOK
<1>7. moved \in [Inputs -> Input]
  BY DEF MoveOpenSteersToNextTurn, Detached, Input, Editable
<1>8. input' \in [Inputs -> Input] /\ steers' \in [Runs -> SUBSET Inputs]
  <2>1. DeliverPendingSteers(start, moved)
    BY <1>1
  <2> HIDE DEF moved, start
  <2>2. PICK accepted, rejected \in SUBSET PendingSteers(start, moved) :
           input' = AfterDelivery(moved, accepted, rejected)
    BY <2>1, SteersDelivered
  <2>3. PICK held \in SUBSET Inputs : steers' = HeldSteers(start, moved, held)
    BY <2>1, SteersDelivered
  <2>4. input' \in [Inputs -> Input]
    <3>1. \A i \in Inputs : [moved[i] EXCEPT !.status = "DELIVERED"] \in Input
      BY <1>7 DEF Input, Editable
    <3>2. Detached \in Input
      BY DEF Detached, Input, Editable
    <3> QED BY <1>7, <2>2, <3>1, <3>2 DEF AfterDelivery
  <2>5. steers' \in [Runs -> SUBSET Inputs]
    BY <2>3 DEF TypeOK, HeldSteers
  <2> QED BY <2>4, <2>5
<1> QED BY <1>3, <1>4, <1>5, <1>6, <1>8

-----------------------------------------------------------------------------
(* Types *)

\* The assumptions on the constants, under one name.
LEMMA Constants ==
    /\ NoWorker \in Worker
    /\ Idle \in Client
    /\ Detached \in Input
    /\ NoRun \notin Runs
BY RunsAssumption DEF NoWorker, Worker, Idle, Client, Detached, Input, Editable

\* The helpers on inputs keep every input in its type.
LEMMA InputsType ==
    ASSUME NEW inp \in [Inputs -> Input]
    PROVE  /\ \A rs : MoveOpenSteersToNextTurn(inp, rs) \in [Inputs -> Input]
           /\ \A rs : ResetDelivered(inp, rs) \in [Inputs -> Input]
           /\ \A t : CancelOpenForTask(inp, t) \in [Inputs -> Input]
<1>1. \A rs : MoveOpenSteersToNextTurn(inp, rs) \in [Inputs -> Input]
  BY Constants DEF MoveOpenSteersToNextTurn
<1>2. \A i \in Inputs : /\ [inp[i] EXCEPT !.status = "CANCELLED"] \in Input
                        /\ [inp[i] EXCEPT !.status = "PENDING"] \in Input
  BY DEF Input, Editable
<1>3. \A rs : ResetDelivered(inp, rs) \in [Inputs -> Input]
  BY <1>2 DEF ResetDelivered
<1>4. \A t : CancelOpenForTask(inp, t) \in [Inputs -> Input]
  BY <1>2 DEF CancelOpenForTask
<1> QED BY <1>1, <1>3, <1>4

\* The process starts with every variable in its type.
LEMMA TypeInit == Init => TypeOK
<1> SUFFICES ASSUME Init PROVE TypeOK
  OBVIOUS
<1>1. [Detached EXCEPT !.status = "NONE"] \in Input
  BY DEF Detached, Input, Editable
<1>2. queue \in Seq(Runs)
  BY EmptySeq DEF Init
<1> QED BY <1>1, <1>2, Constants DEF Init, TypeOK, Status, Client, Worker

\* A handler that ends in enqueueNextTurn and drainQueue.
LEMMA NextTurnAndDrainType ==
    ASSUME TypeOK, NEW ts \in SUBSET Tasks, NEW st \in [Runs -> Status],
           NEW inp \in [Inputs -> Input], NEW pick \in NextTurns(ts, st, inp),
           NEW new \in SetToSeqs(Created(pick, st)), NEW q \in Seq(Runs)
    PROVE  /\ WithCreated(pick, st) \in [Runs -> Status]
           /\ q \o new \in Seq(Runs)
           /\ WithTaken(pick, st, inp) \in [Inputs -> Input]
<1>1. Created(pick, st) \in SUBSET Runs
  BY NextTurnsCreate
<1>2. new \in Seq(Runs)
  BY <1>1, NewIsSeq
<1> QED BY <1>2, NextTurnsCreate, ConcatProperties

\* The run startMessage creates did not exist, and its task has no active run.
LEMMA StartMessageIsFresh ==
    ASSUME NEW t, StartMessage(t)
    PROVE  /\ FreshRun(t, status) \in Runs
           /\ status[FreshRun(t, status)] = "NEW"
           /\ TaskOf[FreshRun(t, status)] = t
<1> DEFINE open == {i \in InputsOf(t) : input[i].status \in Editable \cup {"NONE"}}
<1>1. Cardinality(open) < Cardinality(Unused(t, status))
  BY DEF StartMessage
<1>2. IsFiniteSet(open)
  BY FiniteAssumption, FS_Subset DEF InputsOf
<1>3. Cardinality(open) \in Nat
  BY <1>2, FS_CardinalityType
<1>4. Unused(t, status) # {}
  BY <1>1, <1>3, FS_EmptySet
<1>5. FreshRun(t, status) \in Unused(t, status)
  BY <1>4 DEF FreshRun
<1> QED BY <1>5 DEF Unused, RunsOf

\* The Desktop's requests keep the types.
LEMMA TypeRequest == TypeOK /\ Request => TypeOK'
<1> SUFFICES ASSUME TypeOK, Request PROVE TypeOK'
  OBVIOUS
<1>0. ready' \in BOOLEAN
  BY DEF Request, TypeOK
<1>1. ASSUME NEW t \in Tasks, StartMessage(t) PROVE TypeOK'
  <2> DEFINE r == FreshRun(t, status)
  <2>1. r \in Runs
    BY <1>1, StartMessageIsFresh
  <2>2. Enqueue(queue, r) \in Seq(Runs)
    BY <2>1, EnqueueType DEF TypeOK
  <2>3. [status EXCEPT ![r] = "QUEUED"] \in [Runs -> Status]
    BY DEF TypeOK, Status, Active
  <2>4. DrainQueue([status EXCEPT ![r] = "QUEUED"], Enqueue(queue, r), executing, worker, input)
    BY <1>1 DEF StartMessage
  <2> HIDE DEF r
  <2> QED BY <1>0, <1>1, <2>2, <2>3, <2>4, DrainQueueType DEF StartMessage, TypeOK
<1>2. ASSUME NEW r \in Runs, Resume(r) PROVE TypeOK'
  <2>1. Enqueue(queue, r) \in Seq(Runs)
    BY EnqueueType DEF TypeOK
  <2>2. [status EXCEPT ![r] = "QUEUED"] \in [Runs -> Status]
    BY DEF TypeOK, Status, Active
  <2> QED BY <1>0, <1>2, <2>1, <2>2, DrainQueueType DEF Resume, TypeOK
<1>3. ASSUME NEW i \in Inputs, NEW x \in Input, DeliverSteer(i, x), InputsOnly
      PROVE  TypeOK'
  <2>1. \A y \in Input : [input EXCEPT ![i] = y] \in [Inputs -> Input]
    BY DEF TypeOK
  <2>2. [x EXCEPT !.status = "DELIVERED"] \in Input
    BY DEF Input, Editable
  <2>3. \/ input' = [input EXCEPT ![i] = x]
        \/ input' = [[input EXCEPT ![i] = x] EXCEPT ![i] = Detached]
        \/ input' = [[input EXCEPT ![i] = x] EXCEPT ![i].status = "DELIVERED"]
    BY <1>3 DEF DeliverSteer
  <2>4. input' \in [Inputs -> Input]
    BY <2>1, <2>2, <2>3, Constants DEF TypeOK
  <2>5. \/ steers' = steers
        \/ steers' = [steers EXCEPT ![activeRun[TaskOf[i]]] = @ \cup {i}]
    BY <1>3 DEF DeliverSteer
  <2>6. steers' \in [Runs -> SUBSET Inputs]
    BY <2>5 DEF TypeOK
  <2> QED BY <1>0, <1>3, <2>4, <2>6 DEF InputsOnly, TypeOK
<1>4. \A r \in Runs : [status |-> "PENDING", target |-> "NEXT_STEP", run |-> r] \in Input
  BY DEF Input, Editable
<1>5. ASSUME NEW t \in Tasks, NEW inp \in [Inputs -> Input], NextTurnAndDrain(t, inp)
      PROVE  TypeOK'
  <2>1. PICK pick \in NextTurns({t}, status, inp) :
        \E new \in SetToSeqs(Created(pick, status)) :
          DrainQueue(WithCreated(pick, status), queue \o new, executing, worker,
                     WithTaken(pick, status, inp))
    BY <1>5 DEF NextTurnAndDrain
  <2>2. PICK new \in SetToSeqs(Created(pick, status)) :
          DrainQueue(WithCreated(pick, status), queue \o new, executing, worker,
                     WithTaken(pick, status, inp))
    BY <2>1
  <2>3. /\ WithCreated(pick, status) \in [Runs -> Status]
        /\ queue \o new \in Seq(Runs)
        /\ WithTaken(pick, status, inp) \in [Inputs -> Input]
    BY NextTurnAndDrainType DEF TypeOK
  <2> QED BY <1>0, <1>5, <2>2, <2>3, DrainQueueType DEF NextTurnAndDrain, TypeOK
<1>6. ASSUME NEW i \in Inputs, EnqueueSteer(i) \/ UpdateToSteer(i) PROVE TypeOK'
  <2>1. PICK r \in Runs :
          DeliverSteer(i, [status |-> "PENDING", target |-> "NEXT_STEP", run |-> r])
    BY <1>6 DEF EnqueueSteer, UpdateToSteer, ActiveRuns, RunsOf
  <2>2. InputsOnly
    BY <1>6 DEF EnqueueSteer, UpdateToSteer
  <2> QED BY <1>3, <1>4, <2>1, <2>2
<1>7. ASSUME NEW inp \in [Inputs -> Input], input' = inp, InputsOnly,
             steers' \in [Runs -> SUBSET Inputs]
      PROVE  TypeOK'
  BY <1>0, <1>7 DEF InputsOnly, TypeOK
<1>8. \A i \in Inputs : /\ TaskOf[i] \in Tasks
                        /\ [input EXCEPT ![i] = Detached] \in [Inputs -> Input]
                        /\ [input EXCEPT ![i].status = "CLAIMED"] \in [Inputs -> Input]
                        /\ [input EXCEPT ![i].status = "CANCELLED"] \in [Inputs -> Input]
  <2>1. \A i \in Inputs : /\ [input[i] EXCEPT !.status = "CLAIMED"] \in Input
                          /\ [input[i] EXCEPT !.status = "CANCELLED"] \in Input
    BY DEF TypeOK, Input, Editable
  <2> QED BY <2>1, Constants, TaskOfAssumption DEF TypeOK
<1>9. ASSUME NEW i \in Inputs, EnqueueNextTurnInput(i) PROVE TypeOK'
  BY <1>5, <1>7, <1>8, <1>9 DEF EnqueueNextTurnInput, TypeOK
<1>10. \A i \in Inputs : TakeBack(i) => steers' \in [Runs -> SUBSET Inputs]
  BY DEF TakeBack, TypeOK
<1>11. ASSUME NEW i \in Inputs, MarkClaimed(i) \/ UpdateToNextTurn(i) \/ DeleteInput(i)
       PROVE  TypeOK'
  <2>1. steers \in [Runs -> SUBSET Inputs]
    BY DEF TypeOK
  <2>2. CASE MarkClaimed(i)
    BY <1>7, <1>8, <2>1, <2>2 DEF MarkClaimed
  <2>3. CASE UpdateToNextTurn(i)
    BY <1>5, <1>7, <1>8, <1>10, <2>1, <2>3 DEF UpdateToNextTurn
  <2>4. CASE DeleteInput(i)
    BY <1>7, <1>8, <1>10, <2>1, <2>4 DEF DeleteInput
  <2> QED BY <1>11, <2>2, <2>3, <2>4
<1>12. ASSUME NEW c \in Clients, NEW r \in Runs, PauseBegin(c, r) PROVE TypeOK'
  <2>1. status' \in [Runs -> Status]
    BY <1>12 DEF PauseBegin, PauseStatus, TypeOK, Status, Active, Working
  <2>2. queue' \in Seq(Runs)
    BY <1>12, DequeueType DEF PauseBegin, TypeOK
  <2>3. client' \in [Clients -> Client]
    <3>1. \A pc \in {"forward", "finishPause"} :
            [pc |-> pc, run |-> r,
             prev |-> IF status[r] = "PAUSING" THEN "none" ELSE status[r]] \in Client
          \/ status[r] = "QUEUED"
      BY <1>12 DEF PauseBegin, Pausable, Working, Client
    <3> QED BY <1>12, <3>1 DEF PauseBegin, TypeOK
  <2> QED BY <1>0, <1>12, <2>1, <2>2, <2>3 DEF PauseBegin, TypeOK
<1>13. ASSUME NEW c \in Clients, NEW r \in Runs, CancelBegin(c, r) PROVE TypeOK'
  <2>1. queue' \in Seq(Runs)
    BY <1>13, DequeueType DEF CancelBegin, TypeOK
  <2>2. client' \in [Clients -> Client]
    <3>1. \A pc \in {"kill", "cancel"} : [pc |-> pc, run |-> r, prev |-> "none"] \in Client
      BY DEF Client
    <3> QED BY <1>13, <3>1 DEF CancelBegin, TypeOK
  <2> QED BY <1>0, <1>13, <2>1, <2>2 DEF CancelBegin, TypeOK
<1> QED BY <1>1, <1>2, <1>6, <1>9, <1>11, <1>12, <1>13 DEF Request

\* The later sections of pause() and cancel() keep the types.
LEMMA TypeClientStep ==
    ASSUME TypeOK, NEW c \in Clients, ClientStep(c)
    PROVE  TypeOK'
<1> DEFINE r == client[c].run
           w == activeRun[TaskOf[r]]
<1>0. ready' \in BOOLEAN
  BY DEF ClientStep, TypeOK
<1>1. client[c].pc # "idle"
  BY DEF ClientStep, PauseForward, PauseRollback, PauseFinish, CancelKill,
         CancelAwait, CancelSettle, CancelThrows
<1>2. /\ client[c] \in Client /\ client[c] # Idle
      /\ r \in Runs
      /\ TaskOf[r] \in Tasks
      /\ w \in Runs \cup {NoRun}
      /\ client[c].prev \in {"none", "RUNNING", "WAITING_APPROVAL"}
  BY <1>1, TaskOfAssumption DEF TypeOK, Client, Idle
<1>3. [client EXCEPT ![c] = Idle] \in [Clients -> Client]
  BY Constants DEF TypeOK
<1>4. \A pc \in {"await", "cancel", "rollback"} :
         /\ [client[c] EXCEPT !.pc = pc] \in Client
         /\ [client EXCEPT ![c].pc = pc] \in [Clients -> Client]
         /\ [client EXCEPT ![c] = [@ EXCEPT !.pc = pc]] \in [Clients -> Client]
  <2>1. ASSUME NEW pc \in {"await", "cancel", "rollback"}
        PROVE  [client[c] EXCEPT !.pc = pc] \in Client
    BY <1>2 DEF Client
  <2> QED BY <2>1 DEF TypeOK
<1>5. [status EXCEPT ![r] = "CANCELLED"] \in [Runs -> Status]
  BY DEF TypeOK, Status, Terminal
<1>6. CancelOpenForTask(input, TaskOf[r]) \in [Inputs -> Input]
  BY InputsType DEF TypeOK
<1>7. CASE PauseForward(c)
  <2>1. ASSUME w \in Runs PROVE [worker EXCEPT ![w] = RequestPause(@)] \in [Runs -> Worker]
    <3>1. \A v \in Worker : [v EXCEPT !.pause = TRUE] \in Worker
      BY DEF Worker
    <3> QED BY <3>1 DEF RequestPause, TypeOK
  <2>2. worker' \in [Runs -> Worker]
    BY <1>2, <1>7, <2>1 DEF PauseForward, TypeOK
  <2>3. client' \in [Clients -> Client]
    BY <1>3, <1>4, <1>7 DEF PauseForward
  <2> QED BY <1>0, <1>2, <1>7, <2>2, <2>3 DEF PauseForward, TypeOK
<1>8. CASE PauseRollback(c)
  <2>1. RolledBack(status[r], client[c].prev) \in Status
    BY <1>2 DEF RolledBack, TypeOK, Status, Active, Working
  <2>2. status' \in [Runs -> Status]
    BY <1>8, <2>1 DEF PauseRollback, TypeOK
  <2> QED BY <1>0, <1>3, <1>8, <2>2 DEF PauseRollback, TypeOK
<1>9. CASE PauseFinish(c)
  <2>1. status' \in [Runs -> Status]
    BY <1>9 DEF PauseFinish, TypeOK, Status, Active
  <2> QED BY <1>0, <1>2, <1>3, <1>9, <2>1 DEF PauseFinish, TypeOK
<1>10. CASE CancelKill(c)
  <2>1. ASSUME w \in Runs PROVE [worker EXCEPT ![w].killed = TRUE] \in [Runs -> Worker]
    <3>1. \A v \in Worker : [v EXCEPT !.killed = TRUE] \in Worker
      BY DEF Worker
    <3> QED BY <3>1 DEF TypeOK
  <2>2. worker' \in [Runs -> Worker] /\ client' \in [Clients -> Client]
    BY <1>2, <1>4, <1>10, <2>1 DEF CancelKill, TypeOK
  <2> QED BY <1>0, <1>10, <2>2 DEF CancelKill, TypeOK
<1>11. CASE CancelAwait(c)
  BY <1>0, <1>4, <1>11 DEF CancelAwait, TypeOK
<1>12. CASE CancelSettle(c)
  <2>1. ReleaseExecution(executing, r) \in SUBSET Runs
    BY DEF ReleaseExecution, TypeOK
  <2>2. DrainQueue([status EXCEPT ![r] = "CANCELLED"], queue, ReleaseExecution(executing, r),
                   worker, CancelOpenForTask(input, TaskOf[r]))
    BY <1>12 DEF CancelSettle
  <2>3. queue \in Seq(Runs) /\ worker \in [Runs -> Worker]
    BY DEF TypeOK
  <2> HIDE DEF r
  <2>4. /\ status' \in [Runs -> Status] /\ queue' \in Seq(Runs)
        /\ executing' \subseteq Runs /\ worker' \in [Runs -> Worker]
        /\ activeRun' \in [Tasks -> Runs \cup {NoRun}]
        /\ input' \in [Inputs -> Input] /\ steers' \in [Runs -> SUBSET Inputs]
    BY <1>5, <1>6, <2>1, <2>2, <2>3, DrainQueueType
  <2> QED BY <1>0, <1>3, <1>12, <2>4 DEF CancelSettle, TypeOK
<1>13. CASE CancelThrows(c)
  <2>1. status' \in [Runs -> Status] /\ input' \in [Inputs -> Input]
    BY <1>5, <1>6, <1>13 DEF CancelThrows, TypeOK
  <2> QED BY <1>0, <1>2, <1>3, <1>13, <2>1 DEF CancelThrows, TypeOK
<1> QED BY <1>7, <1>8, <1>9, <1>10, <1>11, <1>12, <1>13 DEF ClientStep

\* The steps of a worker and its turn that settle nothing.
LEMMA TypeTurn ==
    ASSUME TypeOK, NEW r \in Runs, ready' = ready,
           \/ StartRuntime(r)
           \/ ClaimSteers(r)
           \/ \E i \in Inputs : OnSteerClaimed(r, i)
           \/ \E outcome \in {"completed", "paused", "failed"} : TurnEnds(r, outcome)
           \/ OnTerminalEvent(r)
           \/ WorkerFinally(r)
           \/ WorkerKilled(r)
           \/ OnApprovalRequested(r)
           \/ OnApprovalResolved(r)
           \/ SteersExpire(r)
    PROVE  TypeOK'
<1>1. \A stage \in {"awaiting", "streaming", "settled", "callback"} :
         [worker EXCEPT ![r].stage = stage] \in [Runs -> Worker]
  <2>1. \A stage \in {"awaiting", "streaming", "settled", "callback"} :
          \A v \in Worker : [v EXCEPT !.stage = stage] \in Worker
    BY DEF Worker
  <2> QED BY <2>1 DEF TypeOK
<1>2. ASSUME NEW stage \in {"ended", "streaming"},
             NEW outcome \in {"none", "completed", "paused", "failed"}
      PROVE  [worker EXCEPT ![r].stage = stage, ![r].outcome = outcome] \in [Runs -> Worker]
  <2>1. \A v \in Worker : [v EXCEPT !.stage = stage] \in Worker
    BY DEF Worker
  <2>2. \A v \in Worker : [v EXCEPT !.outcome = outcome] \in Worker
    BY DEF Worker
  <2> QED BY <2>1, <2>2 DEF TypeOK
<1>3. Unlink(r) \in [Tasks -> Runs \cup {NoRun}]
  BY DEF Unlink, TypeOK
<1>4. /\ [steers EXCEPT ![r] = {}] \in [Runs -> SUBSET Inputs]
      /\ [claims EXCEPT ![r] = {}] \in [Runs -> SUBSET Inputs]
  BY DEF TypeOK
<1>5. CASE StartRuntime(r)
  BY <1>2, <1>5 DEF StartRuntime, WorkerOnly, TypeOK
<1>6. CASE ClaimSteers(r)
  BY <1>4, <1>6 DEF ClaimSteers, WorkerOnly, TypeOK
<1>7. ASSUME NEW i \in Inputs, OnSteerClaimed(r, i) PROVE TypeOK'
  <2>1. Claim(input[i]) \in Input
    <3>1. \A x \in Input : [x EXCEPT !.status = "CLAIMED"] \in Input
      BY DEF Input
    <3> QED BY <3>1 DEF Claim, TypeOK
  <2> QED BY <1>7, <2>1 DEF OnSteerClaimed, WorkerOnly, TypeOK
<1>8. ASSUME NEW outcome \in {"completed", "paused", "failed"}, TurnEnds(r, outcome)
      PROVE  TypeOK'
  <2>1. worker' \in [Runs -> Worker]
    BY <1>2, <1>8 DEF TurnEnds
  <2>2. steers' \in [Runs -> SUBSET Inputs] /\ claims' \in [Runs -> SUBSET Inputs]
    BY <1>4, <1>8 DEF TurnEnds, TypeOK
  <2> QED BY <1>8, <2>1, <2>2 DEF TurnEnds, WorkerOnly, TypeOK
<1>9. CASE OnTerminalEvent(r)
  BY <1>1, <1>9 DEF OnTerminalEvent, WorkerOnly, TypeOK
<1>10. CASE WorkerFinally(r)
  BY <1>1, <1>3, <1>4, <1>10 DEF WorkerFinally, WorkerOnly, TypeOK
<1>11. CASE WorkerKilled(r)
  BY <1>3, <1>4, <1>11, Constants DEF WorkerKilled, WorkerOnly, TypeOK
<1>12. CASE OnApprovalRequested(r) \/ OnApprovalResolved(r)
  <2>1. status' \in [Runs -> Status]
    BY <1>12 DEF OnApprovalRequested, OnApprovalResolved, TypeOK, Status, Active, Working
  <2> QED BY <1>1, <1>12, <2>1
      DEF OnApprovalRequested, OnApprovalResolved, WorkerOnly, TypeOK
<1>13. CASE SteersExpire(r)
  BY <1>4, <1>13 DEF SteersExpire, WorkerOnly, TypeOK
<1> QED BY <1>5, <1>6, <1>7, <1>8, <1>9, <1>10, <1>11, <1>12, <1>13

\* The callbacks, which settle a run and hand its slot on.
LEMMA TypeSettle ==
    ASSUME TypeOK, NEW r \in Runs, ready' = ready,
           Complete(r) \/ Fail(r) \/ SettleThrows(r)
    PROVE  TypeOK'
<1>1. /\ status \in [Runs -> Status] /\ queue \in Seq(Runs)
      /\ input \in [Inputs -> Input] /\ TaskOf[r] \in Tasks
      /\ [worker EXCEPT ![r] = NoWorker] \in [Runs -> Worker]
      /\ ReleaseExecution(executing, r) \in SUBSET Runs
  BY Constants, TaskOfAssumption DEF TypeOK, ReleaseExecution
<1>2. MoveOpenSteersToNextTurn(input, {r}) \in [Inputs -> Input]
  BY <1>1, InputsType
<1>3. CASE Complete(r)
  <2> DEFINE paused == r \in pausedTurns
             st == [status EXCEPT ![r] = AfterCompletion(@, paused)]
             inp == IF st[r] # status[r] /\ ~paused
                    THEN MoveOpenSteersToNextTurn(input, {r}) ELSE input
  <2>1. st \in [Runs -> Status] /\ inp \in [Inputs -> Input]
    BY <1>1, <1>2 DEF AfterCompletion, Status, Active, Terminal
  <2>2. MovesOn(r, st[r], paused) \in SUBSET Tasks
    BY <1>1 DEF MovesOn
  <2>3. PICK pick \in NextTurns(MovesOn(r, st[r], paused), st, inp) :
        \E new \in SetToSeqs(Created(pick, st)) :
          DrainQueue(WithCreated(pick, st), queue \o new, ReleaseExecution(executing, r),
                     [worker EXCEPT ![r] = NoWorker], WithTaken(pick, st, inp))
    BY <1>3 DEF Complete
  <2>4. PICK new \in SetToSeqs(Created(pick, st)) :
          DrainQueue(WithCreated(pick, st), queue \o new, ReleaseExecution(executing, r),
                     [worker EXCEPT ![r] = NoWorker], WithTaken(pick, st, inp))
    BY <2>3
  <2> HIDE DEF st, inp, paused
  <2>5. /\ WithCreated(pick, st) \in [Runs -> Status]
        /\ queue \o new \in Seq(Runs)
        /\ WithTaken(pick, st, inp) \in [Inputs -> Input]
    BY <1>1, <2>1, <2>2, NextTurnAndDrainType
  <2> QED BY <1>1, <1>3, <2>4, <2>5, DrainQueueType DEF Complete, TypeOK
<1>4. CASE Fail(r)
  <2> DEFINE st == [status EXCEPT ![r] = AfterFailure(@, r \in pausedTurns)]
             inp == IF st[r] = "FAILED" THEN MoveOpenSteersToNextTurn(input, {r}) ELSE input
  <2>1. st \in [Runs -> Status] /\ inp \in [Inputs -> Input]
    BY <1>1, <1>2 DEF AfterFailure, Status, Active, Terminal
  <2>2. DrainQueue(st, queue, ReleaseExecution(executing, r),
                   [worker EXCEPT ![r] = NoWorker], inp)
    BY <1>4 DEF Fail
  <2>3. repairable' \subseteq Runs
    BY <1>4 DEF Fail, TypeOK
  <2> HIDE DEF st, inp
  <2> QED BY <1>1, <1>4, <2>1, <2>2, <2>3, DrainQueueType DEF Fail, TypeOK
<1>5. CASE SettleThrows(r)
  <2>1. PICK s \in {status[r], Settlement(r)},
             inp \in {input, MoveOpenSteersToNextTurn(input, {r})} :
          DrainQueue([status EXCEPT ![r] = s], queue, ReleaseExecution(executing, r),
                     [worker EXCEPT ![r] = NoWorker], inp)
    BY <1>5 DEF SettleThrows
  <2>2. s \in Status
    BY <1>1 DEF Settlement, AfterCompletion, AfterFailure, Status, Active, Terminal
  <2>3. [status EXCEPT ![r] = s] \in [Runs -> Status] /\ inp \in [Inputs -> Input]
    BY <1>1, <1>2, <2>2
  <2> QED BY <1>1, <1>5, <2>1, <2>3, DrainQueueType DEF SettleThrows, TypeOK
<1> QED BY <1>3, <1>4, <1>5

\* A crash leaves every variable in its type.
LEMMA TypeCrash == TypeOK /\ Crash => TypeOK'
<1> SUFFICES ASSUME TypeOK, Crash PROVE TypeOK'
  OBVIOUS
<1>1. queue' \in Seq(Runs)
  BY EmptySeq DEF Crash
<1> QED BY <1>1, Constants DEF Crash, durable, TypeOK

\* Recovery at start-up keeps the types.
LEMMA TypeRecover == TypeOK /\ Recover => TypeOK'
<1> SUFFICES ASSUME TypeOK, Recover PROVE TypeOK'
  OBVIOUS
<1> DEFINE broken == {r \in repairable : status[r] = "FAILED" /\ r \in pausingLog}
           back == {r \in Runs : status[r] \in Recoverable} \cup broken
           st == [r \in Runs |-> IF r \in back THEN "PAUSED" ELSE status[r]]
           inp == ResetDelivered(input, back)
<1>1. st \in [Runs -> Status] /\ inp \in [Inputs -> Input]
  BY InputsType DEF TypeOK, Status, Active
<1>2. PICK pick \in NextTurns(Tasks, st, inp) :
      \E new \in SetToSeqs(Created(pick, st)) :
        DrainQueue(WithCreated(pick, st), queue \o new, executing, worker,
                   WithTaken(pick, st, inp))
  BY DEF Recover
<1>3. PICK new \in SetToSeqs(Created(pick, st)) :
        DrainQueue(WithCreated(pick, st), queue \o new, executing, worker,
                   WithTaken(pick, st, inp))
  BY <1>2
<1>4. repairable' \subseteq Runs /\ ready' \in BOOLEAN
  BY DEF Recover, TypeOK
<1> HIDE DEF st, inp, back, broken
<1>5. /\ WithCreated(pick, st) \in [Runs -> Status]
      /\ queue \o new \in Seq(Runs)
      /\ WithTaken(pick, st, inp) \in [Inputs -> Input]
  BY <1>1, NextTurnAndDrainType DEF TypeOK
<1> QED BY <1>3, <1>4, <1>5, DrainQueueType DEF Recover, TypeOK

\* Every step of the coordinator keeps the types.
LEMMA TypeNext == TypeOK /\ [Next]_vars => TypeOK'
<1> SUFFICES ASSUME TypeOK, [Next]_vars PROVE TypeOK'
  OBVIOUS
<1>1. CASE Request
  BY <1>1, TypeRequest
<1>2. CASE \E c \in Clients : ClientStep(c)
  BY <1>2, TypeClientStep
<1>3. ASSUME NEW r \in Runs, Converge(r) \/ Elsewhere(r) PROVE TypeOK'
  BY <1>3, TypeTurn, TypeSettle DEF Converge, Elsewhere
<1>4. CASE Crash
  BY <1>4, TypeCrash
<1>5. CASE Recover
  BY <1>5, TypeRecover
<1>6. CASE UNCHANGED vars
  BY <1>6 DEF vars, TypeOK
<1> QED BY <1>1, <1>2, <1>3, <1>4, <1>5, <1>6 DEF Next

\* No handler writes a status, a slot, an input or a client step the code does
\* not have, for any number of runs, inputs and API threads.
THEOREM TypeCorrect == Spec => []TypeOK
<1> QED BY TypeInit, TypeNext, PTL DEF Spec

-----------------------------------------------------------------------------
(* The inductive invariant *)

\* pause() only takes the way without a slot for a run whose settlement failed,
\* so that the PAUSED it then writes takes no run at work off its slot.
SlotlessPausesAreUnsettled ==
    \A c \in Clients : client[c].pc = "finishPause" => client[c].run \in unsettled

\* Nothing runs between a restart and its recovery: what recovery pauses holds
\* no slot.
NothingRunsBeforeRecovery ==
    ~ready => /\ executing = {}
              /\ \A r \in Runs : worker[r] = NoWorker
              /\ \A c \in Clients : client[c] = Idle

SlotInv ==
    /\ SlotBound
    /\ WorkingRunsHoldSlots
    /\ SlotsAreWorked
    /\ SlotlessPausesAreUnsettled
    /\ NothingRunsBeforeRecovery

\* The process starts with every slot free and nothing at work.
LEMMA SlotInit == Init => SlotInv
<1> SUFFICES ASSUME Init PROVE SlotInv
  OBVIOUS
<1>1. SlotBound
  BY FS_EmptySet, MaxConcurrentRunsAssumption DEF Init, SlotBound
<1>2. \A r \in Runs : status[r] \notin Working
  BY DEF Init, Working
<1>3. \A c \in Clients : client[c] = Idle /\ Idle.pc # "finishPause"
  BY DEF Init, Idle
<1> QED BY <1>1, <1>2, <1>3 DEF Init, SlotInv, WorkingRunsHoldSlots, SlotsAreWorked,
           SlotlessPausesAreUnsettled, NothingRunsBeforeRecovery

-----------------------------------------------------------------------------
(* The steps that hand out no slot *)

\* A worker or an API thread under way shows that recovery has run.
LEMMA UnderWay ==
    ASSUME SlotInv
    PROVE  /\ \A r \in Runs : worker[r].stage # "none" => ready
           /\ \A c \in Clients : client[c].pc # "idle" => ready
BY DEF SlotInv, NothingRunsBeforeRecovery, NoWorker, Idle

\* A step that moves no run in or out of work keeps the slots as they were.
LEMMA SlotsKept ==
    ASSUME TypeOK, SlotInv, UNCHANGED <<executing, unsettled, ready>>,
           worker' = worker \/ ready, client' = client \/ ready,
           \A c \in Clients : client'[c].pc = "finishPause" => client[c].pc = "finishPause"
                                                       /\ client'[c].run = client[c].run,
           \A r \in Runs : status'[r] \in Working <=> status[r] \in Working
    PROVE  SlotInv'
<1>1. SlotBound'
  BY DEF SlotInv, SlotBound
<1>2. WorkingRunsHoldSlots'
  BY DEF SlotInv, WorkingRunsHoldSlots
<1>3. SlotsAreWorked'
  BY DEF SlotInv, SlotsAreWorked, TypeOK
<1>4. SlotlessPausesAreUnsettled'
  BY DEF SlotInv, SlotlessPausesAreUnsettled
<1>5. NothingRunsBeforeRecovery'
  BY DEF SlotInv, NothingRunsBeforeRecovery
<1> QED BY <1>1, <1>2, <1>3, <1>4, <1>5 DEF SlotInv

\* A step of a turn that settles nothing leaves slots and statuses in agreement:
\* an approval moves a run between two statuses that both hold a slot.
LEMMA SlotTurn ==
    ASSUME TypeOK, SlotInv, NEW r \in Runs, ready' = ready,
           \/ StartRuntime(r)
           \/ ClaimSteers(r)
           \/ \E i \in Inputs : OnSteerClaimed(r, i)
           \/ \E outcome \in {"completed", "paused", "failed"} : TurnEnds(r, outcome)
           \/ OnTerminalEvent(r)
           \/ WorkerFinally(r)
           \/ WorkerKilled(r)
           \/ OnApprovalRequested(r)
           \/ OnApprovalResolved(r)
           \/ SteersExpire(r)
    PROVE  SlotInv'
<1>1. UNCHANGED <<executing, client, unsettled, ready>>
  BY DEF StartRuntime, ClaimSteers, OnSteerClaimed, TurnEnds, OnTerminalEvent,
         WorkerFinally, WorkerKilled, OnApprovalRequested, OnApprovalResolved,
         SteersExpire, WorkerOnly
<1>2. worker' = worker \/ worker[r].stage # "none"
  BY DEF StartRuntime, ClaimSteers, OnSteerClaimed, TurnEnds, OnTerminalEvent,
         WorkerFinally, WorkerKilled, OnApprovalRequested, OnApprovalResolved,
         SteersExpire, WorkerOnly
<1>3. \A s \in Runs : status'[s] \in Working <=> status[s] \in Working
  <2>1. CASE OnApprovalRequested(r) \/ OnApprovalResolved(r)
    BY <2>1 DEF OnApprovalRequested, OnApprovalResolved, TypeOK, Working
  <2>2. CASE status' = status
    BY <2>2
  <2> QED BY <2>1, <2>2
      DEF StartRuntime, ClaimSteers, OnSteerClaimed, TurnEnds, OnTerminalEvent,
          WorkerFinally, WorkerKilled, SteersExpire
<1>4. worker' = worker \/ ready
  BY <1>2, UnderWay
<1> QED BY <1>1, <1>3, <1>4, SlotsKept

\* The requests that only touch the input queue.
LEMMA SlotInputsOnly ==
    ASSUME TypeOK, SlotInv, InputsOnly, ready' = ready
    PROVE  SlotInv'
<1>1. UNCHANGED <<executing, client, unsettled, ready, worker, status>>
  BY DEF InputsOnly
<1> QED BY <1>1, SlotsKept

\* pause() moves a run at work to PAUSING and a queued one to PAUSED; only a run
\* at work that holds no slot, and so is unsettled, takes the way without one.
LEMMA SlotPauseBegin ==
    ASSUME TypeOK, SlotInv, ready, ready' = ready,
           NEW c \in Clients, NEW r \in Runs, PauseBegin(c, r)
    PROVE  SlotInv'
<1>1. UNCHANGED <<executing, unsettled, worker>>
  BY DEF PauseBegin
<1>2. \A s \in Runs : status'[s] \in Working <=> status[s] \in Working
  BY DEF PauseBegin, Pausable, PauseStatus, Working, TypeOK
<1>3. SlotlessPausesAreUnsettled'
  <2>1. \/ client' = client
        \/ /\ status[r] \in Working
           /\ client' = [client EXCEPT ![c] =
                [pc   |-> IF r \in executing THEN "forward" ELSE "finishPause",
                 run  |-> r,
                 prev |-> IF status[r] = "PAUSING" THEN "none" ELSE status[r]]]
    BY DEF PauseBegin, Pausable
  <2>2. status[r] \in Working => r \in executing \cup unsettled
    BY DEF SlotInv, WorkingRunsHoldSlots
  <2>3. ASSUME NEW d \in Clients, client'[d].pc = "finishPause"
        PROVE  client'[d].run \in unsettled
    <3>1. CASE client'[d] = client[d]
      BY <2>3, <3>1 DEF SlotInv, SlotlessPausesAreUnsettled
    <3>2. CASE d = c /\ client' # client
      BY <2>1, <2>2, <2>3, <3>2 DEF TypeOK
    <3> QED BY <2>1, <3>1, <3>2 DEF TypeOK
  <2> QED BY <1>1, <2>3 DEF SlotlessPausesAreUnsettled
<1>4. SlotBound' /\ WorkingRunsHoldSlots' /\ SlotsAreWorked'
  BY <1>1, <1>2 DEF SlotInv, SlotBound, WorkingRunsHoldSlots, SlotsAreWorked, TypeOK
<1> QED BY <1>3, <1>4 DEF SlotInv, NothingRunsBeforeRecovery

\* The first section of cancel() moves no run.
LEMMA SlotCancelBegin ==
    ASSUME TypeOK, SlotInv, ready, ready' = ready,
           NEW c \in Clients, NEW r \in Runs, CancelBegin(c, r)
    PROVE  SlotInv'
<1>1. UNCHANGED <<executing, unsettled, worker, status>>
  BY DEF CancelBegin
<1>2. \A d \in Clients : client'[d].pc = "finishPause" =>
          client[d].pc = "finishPause" /\ client'[d].run = client[d].run
  BY DEF CancelBegin, TypeOK
<1> QED BY <1>1, <1>2, SlotsKept

\* A crash frees every slot; statuses need not agree until recovery.
LEMMA SlotCrash == TypeOK /\ Crash => SlotInv'
<1> SUFFICES ASSUME Crash PROVE SlotInv'
  OBVIOUS
<1>1. SlotBound'
  BY FS_EmptySet, MaxConcurrentRunsAssumption DEF Crash, SlotBound
<1>2. WorkingRunsHoldSlots' /\ SlotsAreWorked'
  BY DEF Crash, WorkingRunsHoldSlots, SlotsAreWorked
<1>3. SlotlessPausesAreUnsettled' /\ NothingRunsBeforeRecovery'
  BY DEF Crash, SlotlessPausesAreUnsettled, NothingRunsBeforeRecovery, Idle
<1> QED BY <1>1, <1>2, <1>3 DEF SlotInv

-----------------------------------------------------------------------------
(* The steps that end in drainQueue *)

\* Releasing a slot never breaks the bound.
LEMMA ReleaseKeepsSlotBound ==
    ASSUME TypeOK, SlotInv, NEW r
    PROVE  /\ ReleaseExecution(executing, r) \in SUBSET Runs
           /\ Cardinality(ReleaseExecution(executing, r)) <= MaxConcurrentRuns
<1>1. IsFiniteSet(executing)
  BY FiniteAssumption, FS_Subset DEF TypeOK
<1>2. /\ Cardinality(executing \ {r}) <= Cardinality(executing)
      /\ Cardinality(executing) \in Nat
      /\ Cardinality(executing \ {r}) \in Nat
  BY <1>1, FS_Subset, FS_CardinalityType
<1> QED BY <1>2, MaxConcurrentRunsAssumption DEF ReleaseExecution, SlotInv, SlotBound, TypeOK

\* The slots after drainQueue, from statuses st and slots ex that fit each other.
LEMMA SlotsDrained ==
    ASSUME TypeOK, NEW st, NEW q \in Seq(Runs), NEW ex \in SUBSET Runs, NEW wk, NEW inp,
           DrainQueue(st, q, ex, wk, inp), ready', Cardinality(ex) <= MaxConcurrentRuns,
           \A r \in Runs : st[r] \in Working => r \in ex \cup unsettled',
           \A r \in ex : st[r] \in Working \/ r \in unsettled',
           SlotlessPausesAreUnsettled'
    PROVE  SlotInv'
<1>1. SlotBound'
  BY DrainQueueKeepsSlotBound DEF SlotBound
<1>2. PICK start, bad : Drained(st, ex, start, bad)
  BY DrainQueueMoves
<1>3. WorkingRunsHoldSlots'
  BY <1>2 DEF Drained, WorkingRunsHoldSlots, Working
<1>4. SlotsAreWorked'
  <2> SUFFICES ASSUME NEW r \in executing'
               PROVE  status'[r] \in Working \/ r \in unsettled'
    BY DEF SlotsAreWorked
  <2>1. CASE r \in start
    BY <1>2, <2>1 DEF Drained, Working
  <2>2. CASE r \notin start /\ st[r] \in Working
    BY <1>2, <2>2 DEF Drained, Working
  <2>3. CASE r \notin start /\ st[r] \notin Working
    BY <1>2, <2>3 DEF Drained
  <2> QED BY <2>1, <2>2, <2>3
<1>5. NothingRunsBeforeRecovery'
  BY DEF NothingRunsBeforeRecovery
<1> QED BY <1>1, <1>3, <1>4, <1>5 DEF SlotInv

\* The runs enqueueNextTurn creates are not at work.
LEMMA CreatedRunsHoldNoSlots ==
    ASSUME TypeOK, NEW ts \in SUBSET Tasks, NEW st \in [Runs -> Status],
           NEW inp \in [Inputs -> Input], NEW pick \in NextTurns(ts, st, inp)
    PROVE  \A r \in Runs : WithCreated(pick, st)[r] \in Working <=> st[r] \in Working
<1>1. Created(pick, st) \subseteq {r \in Runs : st[r] = "NEW"}
  BY NextTurnsCreate
<1> QED BY <1>1 DEF WithCreated, Working

\* enqueueNextTurn and drainQueue, from slots and statuses that agree, leave them so.
LEMMA SlotNextTurnAndDrain ==
    ASSUME TypeOK, SlotInv, ready, ready' = ready,
           NEW t \in Tasks, NEW inp \in [Inputs -> Input], NextTurnAndDrain(t, inp)
    PROVE  SlotInv'
<1>1. PICK pick \in NextTurns({t}, status, inp) :
      \E new \in SetToSeqs(Created(pick, status)) :
        DrainQueue(WithCreated(pick, status), queue \o new, executing, worker,
                   WithTaken(pick, status, inp))
  BY DEF NextTurnAndDrain
<1>2. PICK new \in SetToSeqs(Created(pick, status)) :
        DrainQueue(WithCreated(pick, status), queue \o new, executing, worker,
                   WithTaken(pick, status, inp))
  BY <1>1
<1>3. queue \o new \in Seq(Runs)
  BY NextTurnAndDrainType DEF TypeOK
<1>4. \A r \in Runs : WithCreated(pick, status)[r] \in Working <=> status[r] \in Working
  <2>1. {t} \in SUBSET Tasks /\ status \in [Runs -> Status]
    BY DEF TypeOK
  <2> QED BY <2>1, CreatedRunsHoldNoSlots
<1>5. UNCHANGED <<client, unsettled>>
  BY DEF NextTurnAndDrain
<1>6. SlotlessPausesAreUnsettled'
  BY <1>5 DEF SlotInv, SlotlessPausesAreUnsettled
<1>7. /\ \A r \in Runs : WithCreated(pick, status)[r] \in Working => r \in executing \cup unsettled'
      /\ \A r \in executing : WithCreated(pick, status)[r] \in Working \/ r \in unsettled'
      /\ Cardinality(executing) <= MaxConcurrentRuns
  BY <1>4, <1>5 DEF SlotInv, SlotBound, WorkingRunsHoldSlots, SlotsAreWorked, TypeOK
<1> QED BY <1>2, <1>3, <1>6, <1>7, SlotsDrained DEF TypeOK

\* startMessage and resume make one run QUEUED that was not at work.
LEMMA SlotQueued ==
    ASSUME TypeOK, SlotInv, ready, ready' = ready, NEW r \in Runs,
           UNCHANGED <<client, unsettled>>, status[r] \notin Working,
           DrainQueue([status EXCEPT ![r] = "QUEUED"], Enqueue(queue, r),
                      executing, worker, input)
    PROVE  SlotInv'
<1> DEFINE st == [status EXCEPT ![r] = "QUEUED"]
<1>1. \A s \in Runs : st[s] \in Working <=> status[s] \in Working
  BY DEF TypeOK, Working
<1>2. Enqueue(queue, r) \in Seq(Runs) /\ executing \in SUBSET Runs
  BY EnqueueType DEF TypeOK
<1>3. SlotlessPausesAreUnsettled'
  BY DEF SlotInv, SlotlessPausesAreUnsettled
<1>4. DrainQueue(st, Enqueue(queue, r), executing, worker, input)
  OBVIOUS
<1> HIDE DEF st
<1>5. /\ \A s \in Runs : st[s] \in Working => s \in executing \cup unsettled'
      /\ \A s \in executing : st[s] \in Working \/ s \in unsettled'
      /\ Cardinality(executing) <= MaxConcurrentRuns
  BY <1>1 DEF SlotInv, SlotBound, WorkingRunsHoldSlots, SlotsAreWorked, TypeOK
<1> QED BY <1>2, <1>3, <1>4, <1>5, SlotsDrained

\* The Desktop's requests keep slots and statuses in agreement.
LEMMA SlotRequest == TypeOK /\ SlotInv /\ Request => SlotInv'
<1> SUFFICES ASSUME TypeOK, SlotInv, Request PROVE SlotInv'
  OBVIOUS
<1>0. ready /\ ready' = ready
  BY DEF Request
<1>1. ASSUME NEW t \in Tasks, StartMessage(t) PROVE SlotInv'
  <2> DEFINE r == FreshRun(t, status)
  <2>1. r \in Runs /\ status[r] = "NEW"
    BY <1>1, StartMessageIsFresh
  <2>2. /\ UNCHANGED <<client, unsettled>>
        /\ DrainQueue([status EXCEPT ![r] = "QUEUED"], Enqueue(queue, r),
                      executing, worker, input)
    BY <1>1 DEF StartMessage
  <2>3. status[r] \notin Working
    BY <2>1 DEF Working
  <2> HIDE DEF r
  <2> QED BY <1>0, <2>1, <2>2, <2>3, SlotQueued
<1>2. ASSUME NEW r \in Runs, Resume(r) PROVE SlotInv'
  <2>1. status[r] \notin Working
    BY <1>2 DEF Resume, Working
  <2> QED BY <1>0, <1>2, <2>1, SlotQueued DEF Resume
<1>3. ASSUME NEW i \in Inputs,
             EnqueueSteer(i) \/ MarkClaimed(i) \/ UpdateToSteer(i) \/ DeleteInput(i)
      PROVE  SlotInv'
  <2>1. InputsOnly
    BY <1>3 DEF EnqueueSteer, MarkClaimed, UpdateToSteer, DeleteInput
  <2> QED BY <1>0, <2>1, SlotInputsOnly
<1>4. ASSUME NEW i \in Inputs, EnqueueNextTurnInput(i) \/ UpdateToNextTurn(i)
      PROVE  SlotInv'
  <2>1. [input EXCEPT ![i] = Detached] \in [Inputs -> Input] /\ TaskOf[i] \in Tasks
    BY Constants, TaskOfAssumption DEF TypeOK
  <2>2. InputsOnly \/ NextTurnAndDrain(TaskOf[i], [input EXCEPT ![i] = Detached])
    BY <1>4 DEF EnqueueNextTurnInput, UpdateToNextTurn
  <2> QED BY <1>0, <2>1, <2>2, SlotInputsOnly, SlotNextTurnAndDrain
<1>5. ASSUME NEW c \in Clients, NEW r \in Runs, PauseBegin(c, r) \/ CancelBegin(c, r)
      PROVE  SlotInv'
  BY <1>0, <1>5, SlotPauseBegin, SlotCancelBegin
<1> QED BY <1>1, <1>2, <1>3, <1>4, <1>5 DEF Request

\* So do the later sections of pause() and cancel().
LEMMA SlotClientStep ==
    ASSUME TypeOK, SlotInv, NEW c \in Clients, ClientStep(c)
    PROVE  SlotInv'
<1> DEFINE r == client[c].run
<1>0. client[c].pc # "idle" /\ ready' = ready
  BY DEF ClientStep, PauseForward, PauseRollback, PauseFinish, CancelKill,
         CancelAwait, CancelSettle, CancelThrows
<1>1. ready /\ ready'
  BY <1>0, UnderWay
<1>2. /\ r \in Runs
      /\ client[c].prev \in {"none", "RUNNING", "WAITING_APPROVAL"}
  BY <1>0 DEF TypeOK, Client, Idle
<1>3. ASSUME \/ client' = [client EXCEPT ![c] = Idle]
             \/ client' = [client EXCEPT ![c].pc = "await"]
             \/ client' = [client EXCEPT ![c].pc = "cancel"]
             \/ client' = [client EXCEPT ![c] = [@ EXCEPT !.pc = "rollback"]]
      PROVE  \A d \in Clients : client'[d].pc = "finishPause" =>
                client[d].pc = "finishPause" /\ client'[d].run = client[d].run
  BY <1>3 DEF TypeOK, Client, Idle
<1>4. ASSUME unsettled \subseteq unsettled',
             \A d \in Clients : client'[d].pc = "finishPause" =>
                client[d].pc = "finishPause" /\ client'[d].run = client[d].run
      PROVE  SlotlessPausesAreUnsettled'
  BY <1>4 DEF SlotInv, SlotlessPausesAreUnsettled
<1>5. CASE PauseForward(c) \/ CancelKill(c) \/ CancelAwait(c)
  <2>1. UNCHANGED <<executing, unsettled, status>>
    BY <1>5 DEF PauseForward, CancelKill, CancelAwait
  <2>2. \A d \in Clients : client'[d].pc = "finishPause" =>
                client[d].pc = "finishPause" /\ client'[d].run = client[d].run
    BY <1>3, <1>5 DEF PauseForward, CancelKill, CancelAwait
  <2> QED BY <1>0, <1>1, <2>1, <2>2, SlotsKept
<1>6. CASE PauseRollback(c)
  <2>1. UNCHANGED <<executing, unsettled, worker>>
    BY <1>6 DEF PauseRollback
  <2>2. \A s \in Runs : status'[s] \in Working <=> status[s] \in Working
    BY <1>2, <1>6 DEF PauseRollback, RolledBack, Working, TypeOK
  <2> QED BY <1>0, <1>1, <1>3, <1>6, <2>1, <2>2, SlotsKept DEF PauseRollback
<1>7. CASE PauseFinish(c)
  <2>1. UNCHANGED <<executing, unsettled, worker>> /\ status' = [status EXCEPT ![r] = "PAUSED"]
    BY <1>7 DEF PauseFinish
  <2>2. r \in unsettled
    BY <1>7 DEF PauseFinish, SlotInv, SlotlessPausesAreUnsettled
  <2>3. SlotlessPausesAreUnsettled'
    BY <1>3, <1>4, <1>7, <2>1 DEF PauseFinish
  <2>4. SlotBound' /\ WorkingRunsHoldSlots' /\ SlotsAreWorked'
    BY <1>1, <1>2, <2>1, <2>2
       DEF SlotInv, SlotBound, WorkingRunsHoldSlots, SlotsAreWorked, TypeOK, Working
  <2> QED BY <1>1, <2>3, <2>4 DEF SlotInv, NothingRunsBeforeRecovery
<1>8. CASE CancelSettle(c)
  <2> DEFINE st == [status EXCEPT ![r] = "CANCELLED"]
             ex == ReleaseExecution(executing, r)
             inp == CancelOpenForTask(input, TaskOf[r])
  <2>1. DrainQueue(st, queue, ex, worker, inp) /\ unsettled' = unsettled
    BY <1>8 DEF CancelSettle
  <2>2. SlotlessPausesAreUnsettled'
    BY <1>3, <1>4, <1>8, <2>1 DEF CancelSettle
  <2>3. /\ \A s \in Runs : st[s] \in Working => s \in ex \cup unsettled'
        /\ \A s \in ex : st[s] \in Working \/ s \in unsettled'
    BY <1>1, <1>2, <2>1
       DEF SlotInv, WorkingRunsHoldSlots, SlotsAreWorked, TypeOK, Working, ReleaseExecution
  <2>4. ex \in SUBSET Runs /\ Cardinality(ex) <= MaxConcurrentRuns
    BY ReleaseKeepsSlotBound
  <2>5. queue \in Seq(Runs)
    BY DEF TypeOK
  <2> HIDE DEF st, ex, inp
  <2> QED BY <1>1, <2>1, <2>2, <2>3, <2>4, <2>5, SlotsDrained
<1>9. CASE CancelThrows(c)
  <2>1. /\ UNCHANGED <<executing, worker>> /\ unsettled' = unsettled \cup {r}
        /\ \A s \in Runs : s = r \/ status'[s] = status[s]
    BY <1>9 DEF CancelThrows, TypeOK
  <2>2. SlotlessPausesAreUnsettled'
    BY <1>3, <1>4, <1>9, <2>1 DEF CancelThrows
  <2>3. SlotBound' /\ WorkingRunsHoldSlots' /\ SlotsAreWorked'
    BY <1>1, <1>2, <2>1 DEF SlotInv, SlotBound, WorkingRunsHoldSlots, SlotsAreWorked, TypeOK
  <2> QED BY <1>1, <2>2, <2>3 DEF SlotInv, NothingRunsBeforeRecovery
<1> QED BY <1>5, <1>6, <1>7, <1>8, <1>9 DEF ClientStep

\* The callbacks leave their run out of work, or unsettled, and free its slot.
LEMMA SlotSettle ==
    ASSUME TypeOK, SlotInv, NEW r \in Runs, ready' = ready,
           Complete(r) \/ Fail(r) \/ SettleThrows(r)
    PROVE  SlotInv'
<1> DEFINE ex == ReleaseExecution(executing, r)
<1>0. ready /\ ready'
  BY UnderWay DEF Complete, Fail, SettleThrows
<1>1. ex \in SUBSET Runs /\ Cardinality(ex) <= MaxConcurrentRuns
  BY ReleaseKeepsSlotBound
<1>2. queue \in Seq(Runs) /\ status \in [Runs -> Status] /\ input \in [Inputs -> Input]
  BY DEF TypeOK
<1>3. unsettled \subseteq unsettled' /\ client' = client
  BY DEF Complete, Fail, SettleThrows
<1>4. SlotlessPausesAreUnsettled'
  BY <1>3 DEF SlotInv, SlotlessPausesAreUnsettled
<1>5. ASSUME NEW st \in [Runs -> Status], NEW s \in Status \ Working,
             st = [status EXCEPT ![r] = s]
      PROVE  /\ \A x \in Runs : st[x] \in Working => x \in ex \cup unsettled'
             /\ \A x \in ex : st[x] \in Working \/ x \in unsettled'
  BY <1>0, <1>2, <1>3, <1>5
     DEF SlotInv, WorkingRunsHoldSlots, SlotsAreWorked, ReleaseExecution, TypeOK
<1>6. CASE Complete(r)
  <2> DEFINE paused == r \in pausedTurns
             s == AfterCompletion(status[r], paused)
             st == [status EXCEPT ![r] = s]
             inp == IF st[r] # status[r] /\ ~paused
                    THEN MoveOpenSteersToNextTurn(input, {r}) ELSE input
  <2>1. s \in Status \ Working
    BY <1>2 DEF AfterCompletion, Status, Active, Working, Terminal
  <2>2. st \in [Runs -> Status] /\ inp \in [Inputs -> Input]
    BY <1>2, <2>1, InputsType
  <2>3. MovesOn(r, st[r], paused) \in SUBSET Tasks
    BY TaskOfAssumption DEF MovesOn
  <2>4. st = [status EXCEPT ![r] = AfterCompletion(@, paused)]
    BY <1>2
  <2>5. PICK pick \in NextTurns(MovesOn(r, st[r], paused), st, inp) :
        \E new \in SetToSeqs(Created(pick, st)) :
          DrainQueue(WithCreated(pick, st), queue \o new, ex,
                     [worker EXCEPT ![r] = NoWorker], WithTaken(pick, st, inp))
    BY <1>6, <2>4 DEF Complete
  <2>6. PICK new \in SetToSeqs(Created(pick, st)) :
          DrainQueue(WithCreated(pick, st), queue \o new, ex,
                     [worker EXCEPT ![r] = NoWorker], WithTaken(pick, st, inp))
    BY <2>5
  <2>7. st = [status EXCEPT ![r] = s]
    OBVIOUS
  <2> HIDE DEF st, s, paused, inp, ex
  <2>8. queue \o new \in Seq(Runs)
    BY <1>2, <2>2, <2>3, NextTurnAndDrainType
  <2>9. \A x \in Runs : WithCreated(pick, st)[x] \in Working <=> st[x] \in Working
    BY <2>2, <2>3, CreatedRunsHoldNoSlots
  <2>10. /\ \A x \in Runs : st[x] \in Working => x \in ex \cup unsettled'
         /\ \A x \in ex : st[x] \in Working \/ x \in unsettled'
    BY <1>5, <2>1, <2>2, <2>7
  <2>11. /\ \A x \in Runs : WithCreated(pick, st)[x] \in Working => x \in ex \cup unsettled'
         /\ \A x \in ex : WithCreated(pick, st)[x] \in Working \/ x \in unsettled'
    BY <1>1, <2>9, <2>10
  <2> QED BY <1>0, <1>1, <1>4, <2>6, <2>8, <2>11, SlotsDrained
<1>7. CASE Fail(r)
  <2> DEFINE s == AfterFailure(status[r], r \in pausedTurns)
             st == [status EXCEPT ![r] = s]
             inp == IF st[r] = "FAILED" THEN MoveOpenSteersToNextTurn(input, {r}) ELSE input
  <2>1. s \in Status \ Working
    BY <1>2 DEF AfterFailure, Status, Active, Working, Terminal
  <2>2. st \in [Runs -> Status]
    BY <1>2, <2>1
  <2>3. DrainQueue(st, queue, ex, [worker EXCEPT ![r] = NoWorker], inp)
    <3>1. st = [status EXCEPT ![r] = AfterFailure(@, r \in pausedTurns)]
      BY <1>2
    <3> QED BY <1>7, <3>1 DEF Fail
  <2>4. /\ \A x \in Runs : st[x] \in Working => x \in ex \cup unsettled'
        /\ \A x \in ex : st[x] \in Working \/ x \in unsettled'
    BY <1>5, <2>1, <2>2
  <2> HIDE DEF st, s, inp, ex
  <2> QED BY <1>0, <1>1, <1>2, <1>4, <2>3, <2>4, SlotsDrained
<1>8. CASE SettleThrows(r)
  <2>1. PICK s \in {status[r], Settlement(r)},
             inp \in {input, MoveOpenSteersToNextTurn(input, {r})} :
          DrainQueue([status EXCEPT ![r] = s], queue, ex,
                     [worker EXCEPT ![r] = NoWorker], inp)
    BY <1>8 DEF SettleThrows
  <2> DEFINE st == [status EXCEPT ![r] = s]
  <2>2. unsettled' = unsettled \cup {r}
    BY <1>8 DEF SettleThrows
  <2>3. s \in Status
    BY <1>2 DEF Settlement, AfterCompletion, AfterFailure, Status, Active, Terminal
  <2>4. st \in [Runs -> Status]
    BY <1>2, <2>3
  <2>5. /\ \A x \in Runs : st[x] \in Working => x \in ex \cup unsettled'
        /\ \A x \in ex : st[x] \in Working \/ x \in unsettled'
    BY <1>0, <2>2 DEF SlotInv, WorkingRunsHoldSlots, SlotsAreWorked, ReleaseExecution, TypeOK
  <2> HIDE DEF ex, st
  <2> QED BY <1>0, <1>1, <1>2, <1>4, <2>1, <2>4, <2>5, SlotsDrained DEF st
<1> QED BY <1>6, <1>7, <1>8

\* Recovery pauses every run at work, and nothing holds a slot before it.
LEMMA SlotRecover ==
    ASSUME TypeOK, SlotInv, Recover
    PROVE  SlotInv'
<1> DEFINE broken == {r \in repairable : status[r] = "FAILED" /\ r \in pausingLog}
           back == {r \in Runs : status[r] \in Recoverable} \cup broken
           st == [r \in Runs |-> IF r \in back THEN "PAUSED" ELSE status[r]]
           inp == ResetDelivered(input, back)
<1>1. st \in [Runs -> Status] /\ inp \in [Inputs -> Input]
  BY InputsType DEF TypeOK, Status, Active
<1>2. \A r \in Runs : st[r] \notin Working
  BY DEF Recoverable, Working
<1>3. PICK pick \in NextTurns(Tasks, st, inp) :
      \E new \in SetToSeqs(Created(pick, st)) :
        DrainQueue(WithCreated(pick, st), queue \o new, executing, worker,
                   WithTaken(pick, st, inp))
  BY DEF Recover
<1>4. PICK new \in SetToSeqs(Created(pick, st)) :
        DrainQueue(WithCreated(pick, st), queue \o new, executing, worker,
                   WithTaken(pick, st, inp))
  BY <1>3
<1>5. executing = {} /\ ready' /\ UNCHANGED <<client, unsettled>>
  BY DEF Recover, SlotInv, NothingRunsBeforeRecovery
<1> HIDE DEF st, inp, back, broken
<1>6. queue \o new \in Seq(Runs)
  BY <1>1, NextTurnAndDrainType DEF TypeOK
<1>7. \A r \in Runs : WithCreated(pick, st)[r] \notin Working
  BY <1>1, <1>2, CreatedRunsHoldNoSlots
<1>8. SlotlessPausesAreUnsettled'
  BY <1>5 DEF SlotInv, SlotlessPausesAreUnsettled
<1>9. Cardinality(executing) <= MaxConcurrentRuns /\ executing \in SUBSET Runs
  BY DEF SlotInv, SlotBound, TypeOK
<1> QED BY <1>4, <1>5, <1>6, <1>7, <1>8, <1>9, SlotsDrained

-----------------------------------------------------------------------------
\* The slot invariant is inductive, given the types.
LEMMA SlotNext == TypeOK /\ SlotInv /\ [Next]_vars => SlotInv'
<1> SUFFICES ASSUME TypeOK, SlotInv, [Next]_vars PROVE SlotInv'
  OBVIOUS
<1>1. CASE Request
  BY <1>1, SlotRequest
<1>2. CASE \E c \in Clients : ClientStep(c)
  BY <1>2, SlotClientStep
<1>3. ASSUME NEW r \in Runs, Converge(r) \/ Elsewhere(r) PROVE SlotInv'
  BY <1>3, SlotTurn, SlotSettle DEF Converge, Elsewhere
<1>4. CASE Crash
  BY <1>4, SlotCrash
<1>5. CASE Recover
  BY <1>5, SlotRecover
<1>6. CASE UNCHANGED vars
  <2>1. UNCHANGED <<executing, unsettled, ready, worker, client, status>>
    BY <1>6 DEF vars
  <2> QED BY <2>1, SlotsKept
<1> QED BY <1>1, <1>2, <1>3, <1>4, <1>5, <1>6 DEF Next

\* It holds in every reachable state.
LEMMA SlotInvariant == Spec => []SlotInv
<1> QED BY SlotInit, SlotNext, TypeCorrect, PTL DEF Spec

\* drainQueue never hands out more slots than lumora.runs.max-concurrent, for any
\* number of runs, inputs and API threads, with crashes and faults.
THEOREM SlotsAreBounded == Spec => []SlotBound
<1>1. SlotInv => SlotBound
  BY DEF SlotInv
<1> QED BY <1>1, SlotInvariant, PTL

\* A run that is running, waiting for approval or pausing holds a slot, and no run
\* out of work keeps one, save where a fault cut a settlement short: the slots and
\* the durable statuses never drift apart.
THEOREM SlotsAgreeWithStatus == Spec => [](WorkingRunsHoldSlots /\ SlotsAreWorked)
<1>1. SlotInv => WorkingRunsHoldSlots /\ SlotsAreWorked
  BY DEF SlotInv
<1> QED BY <1>1, SlotInvariant, PTL

=============================================================================
