---------------------- MODULE RunCoordinatorRunProofs -----------------------
(***************************************************************************)
(* The runs: how a step may move one, that a task has one active run, that *)
(* a run given a new turn has nothing left of its last, the refinement of  *)
(* RunLifecycle; and the queue: every durable QUEUED run is in it, once,   *)
(* but for runs whose cancel is under way.                                 *)
(***************************************************************************)
EXTENDS RunCoordinatorProofs

-----------------------------------------------------------------------------
(* What drainQueue does to each run *)

\* A step leaves run x at a status s and a worker w, or drains it from them.
DrainedFrom(x, s, w) ==
    \/ status'[x] = s /\ worker'[x] = w
    \/ s = "QUEUED" /\ status'[x] = "RUNNING" /\ x \in executing'
    \/ s = "QUEUED" /\ status'[x] = "FAILED" /\ worker'[x] = w

\* drainQueue starts a queued run, fails to, or leaves it as it was.
LEMMA DrainQueueRuns ==
    ASSUME NEW st \in [Runs -> Status], NEW q \in Seq(Runs), NEW ex, NEW wk \in [Runs -> Worker],
           NEW inp, DrainQueue(st, q, ex, wk, inp)
    PROVE  \A x \in Runs : DrainedFrom(x, st[x], wk[x])
<1>1. PICK n \in 0..Len(q), bad \in SUBSET {r \in Range(q) : st[r] = "QUEUED"} :
         /\ executing' = ex \cup Started(st, q, bad, n)
         /\ status' = [r \in Runs |-> IF r \in Started(st, q, bad, n) THEN "RUNNING"
                                      ELSE IF r \in bad THEN "FAILED" ELSE st[r]]
         /\ StartWorkers(Started(st, q, bad, n), wk)
  BY DEF DrainQueue
<1> DEFINE start == Started(st, q, bad, n)
<1>2. /\ \A r \in start : st[r] = "QUEUED"
      /\ \A r \in bad : st[r] = "QUEUED"
  <2>1. \A k \in 0..Len(q) : /\ Started(st, q, bad, k) \subseteq Runs \ bad
                            /\ \A r \in Started(st, q, bad, k) : st[r] = "QUEUED"
    BY ONLY q \in Seq(Runs), StartedRuns
  <2> QED BY <2>1
<1>3. worker' = [r \in Runs |-> IF r \in start THEN [NoWorker EXCEPT !.stage = "starting"]
                                ELSE wk[r]]
  BY <1>1 DEF StartWorkers
<1> HIDE DEF start
<1> QED BY <1>1, <1>2, <1>3 DEF DrainedFrom, start

\* A run that a step creates, and with which its task has one active run only.
Born(x) ==
    /\ status[x] = "NEW"
    /\ status'[x] \in {"QUEUED", "RUNNING", "FAILED"}
    /\ status'[x] = "RUNNING" \/ worker'[x] = worker[x]
    /\ status'[x] = "RUNNING" => x \in executing'
    /\ \A y \in Runs \ {x} : TaskOf[y] = TaskOf[x] => status'[y] \notin Active

\* enqueueNextTurn followed by drainQueue, from statuses st in which no run is
\* new that was not, and workers wk.
LEMMA NextTurnRuns ==
    ASSUME TypeOK, NEW ts \in SUBSET Tasks, NEW st \in [Runs -> Status],
           NEW inp \in [Inputs -> Input], NEW pick \in NextTurns(ts, st, inp),
           NEW q \in Seq(Runs), NEW ex, NEW wk \in [Runs -> Worker], NEW taken,
           DrainQueue(WithCreated(pick, st), q, ex, wk, taken),
           \A x \in Runs : st[x] = "NEW" => status[x] = "NEW" /\ wk[x] = worker[x]
    PROVE  \A x \in Runs : Born(x) \/ DrainedFrom(x, st[x], wk[x])
<1> DEFINE new == Created(pick, st)
           cr == WithCreated(pick, st)
<1>1. cr \in [Runs -> Status]
  BY NextTurnsCreate
<1>2. \A x \in Runs : DrainedFrom(x, cr[x], wk[x])
  <2>1. DrainQueue(cr, q, ex, wk, taken)
    OBVIOUS
  <2> HIDE DEF cr
  <2> QED BY <1>1, <2>1, DrainQueueRuns
<1>3. \A x \in Runs : cr[x] = IF x \in new THEN "QUEUED" ELSE st[x]
  BY DEF WithCreated
<1>4. ASSUME NEW x \in new
      PROVE  /\ x \in Runs /\ st[x] = "NEW"
             /\ \A y \in Runs : TaskOf[y] = TaskOf[x] => st[y] \notin Active
             /\ \A y \in new : TaskOf[y] = TaskOf[x] => y = x
  <2>1. \A t \in DOMAIN pick : /\ FreshRun(t, st) \in Runs
                               /\ st[FreshRun(t, st)] = "NEW"
                               /\ TaskOf[FreshRun(t, st)] = t
                               /\ ActiveRuns(t, st) = {}
    BY NextTurnsCreate
  <2>2. PICK t \in DOMAIN pick : x = FreshRun(t, st)
    BY DEF Created
  <2>3. \A y \in new : \E u \in DOMAIN pick : y = FreshRun(u, st)
    BY DEF Created
  <2> QED BY <2>1, <2>2, <2>3 DEF ActiveRuns, RunsOf
<1> HIDE DEF new, cr
<1>5. ASSUME NEW x \in new PROVE Born(x)
  <2>1. cr[x] = "QUEUED" /\ status[x] = "NEW" /\ wk[x] = worker[x]
    BY <1>3, <1>4, <1>5
  <2>2. ASSUME NEW y \in Runs \ {x}, TaskOf[y] = TaskOf[x] PROVE status'[y] \notin Active
    <3>1. cr[y] \notin Active
      BY <1>3, <1>4, <1>5, <2>2
    <3> QED BY <1>2, <3>1 DEF DrainedFrom, Active
  <2> QED BY <1>2, <1>4, <1>5, <2>1, <2>2 DEF DrainedFrom, Born
<1> QED BY <1>2, <1>3, <1>5

-----------------------------------------------------------------------------
(* The steps of a run *)

\* A pause that has found its run without a slot is not overtaken: nothing fails, or
\* there is one API thread. (Where a settlement has failed, two of them may pause its
\* run twice, and the second writes PAUSED over a turn that was resumed meanwhile.)
PausesAlone == ~Faults \/ \A c, d \in Clients : c = d

\* A run that may get a turn has none, and nothing left of one.
CleanRuns == \A r \in Runs : status[r] \in {"NEW", "QUEUED", "PAUSED"} => worker[r] = NoWorker

\* What works without a slot has no turn any more.
SlotlessWorkIsOver ==
    \A r \in Runs : status[r] \in Working /\ r \notin executing => worker[r] = NoWorker

\* The run pause() will write PAUSED to is still the one it found.
FinishingPauses ==
    \A c \in Clients : client[c].pc = "finishPause" =>
        status[client[c].run] = "PAUSING" /\ worker[client[c].run] = NoWorker

ClientsKnowRuns == \A c \in Clients : client[c] # Idle => status[client[c].run] # "NEW"

\* The turn of a task is open, or closed and not yet out of activeRuns.
ActiveTurns ==
    \A t \in Tasks : activeRun[t] \in Runs =>
        worker[activeRun[t]].stage \notin {"none", "callback"}

FaultsAreSwitched == /\ unsettled # {} => Faults
                     /\ repairable # {} => SequenceConflicts

RunInv ==
    /\ CleanRuns
    /\ SlotlessWorkIsOver
    /\ FinishingPauses
    /\ ClientsKnowRuns
    /\ ActiveTurns
    /\ FaultsAreSwitched

\* How a step may move a run.
Stays(x) ==
    /\ \/ status'[x] = status[x]
       \/ /\ {status[x], status'[x]} \subseteq Working
          /\ worker[x] # NoWorker \/ client' # client
    /\ worker'[x] \in {worker[x], NoWorker} \/ worker[x] # NoWorker
Pauses(x) ==
    status[x] \in Working \cup {"QUEUED"} /\ status'[x] = "PAUSED" /\ worker'[x] = NoWorker
Queues(x) ==
    status[x] \in {"QUEUED", "PAUSED"} /\ status'[x] = "QUEUED" /\ worker'[x] = worker[x]
Starts(x) == status[x] \in {"QUEUED", "PAUSED"} /\ status'[x] = "RUNNING"
Ends(x) == status[x] # "NEW" /\ status'[x] \in Terminal
Repaired(x) ==
    SequenceConflicts /\ status[x] = "FAILED" /\ status'[x] = "PAUSED" /\ worker'[x] = NoWorker

\* A run at work that has no turn any more waits for an API thread or recovery.
Waits(x) ==
    status[x] \in Working /\ worker[x] = NoWorker /\ ready /\ client' = client
        => status'[x] = status[x] /\ worker'[x] = NoWorker

RunStep(x) ==
    /\ Stays(x) \/ Pauses(x) \/ Queues(x) \/ Starts(x) \/ Ends(x) \/ Born(x) \/ Repaired(x)
    /\ status'[x] \in Working /\ worker'[x] # NoWorker => x \in executing'
    /\ Waits(x)
    /\ status[x] = "CANCELLED" => status'[x] = "CANCELLED"

RunSteps == \A x \in Runs : RunStep(x)

\* A run at work with a turn has a slot.
LEMMA TurnsAtWork ==
    ASSUME RunInv, NEW x \in Runs, worker[x] # NoWorker, status[x] \in Working
    PROVE  x \in executing
BY DEF RunInv, SlotlessWorkIsOver

\* Steps that leave slots and statuses alone, but for runs at work that stay so.
LEMMA StepsStay ==
    ASSUME RunInv, executing' = executing,
           \A x \in Runs : Stays(x)
    PROVE  RunSteps
BY TurnsAtWork DEF Stays, RunSteps, RunStep, Waits, Working

\* A run drained from where it was, or from the queue, in a step that keeps its slot.
LEMMA StepsDrained ==
    ASSUME TypeOK, RunInv, NEW x \in Runs, DrainedFrom(x, status[x], worker[x]),
           x \in executing => x \in executing'
    PROVE  RunStep(x)
<1>1. CASE status'[x] = status[x] /\ worker'[x] = worker[x]
  BY <1>1, TurnsAtWork DEF RunStep, Waits, Stays
<1>2. CASE status[x] = "QUEUED" /\ status'[x] = "RUNNING" /\ x \in executing'
  BY <1>2 DEF RunStep, Waits, Starts, Working
<1>3. CASE status[x] = "QUEUED" /\ status'[x] = "FAILED"
  BY <1>3 DEF RunStep, Waits, Ends, Terminal, Working
<1> QED BY <1>1, <1>2, <1>3 DEF DrainedFrom

\* A born run has its slot if it works.
LEMMA StepsBorn ==
    ASSUME TypeOK, RunInv, NEW x \in Runs, Born(x)
    PROVE  RunStep(x)
<1>1. worker[x] = NoWorker
  BY DEF Born, RunInv, CleanRuns
<1> QED BY <1>1 DEF Born, RunStep, Waits, Working

\* drainQueue only adds slots.
LEMMA DrainQueueAddsSlots ==
    ASSUME NEW st, NEW q \in Seq(Runs), NEW ex, NEW wk, NEW inp, DrainQueue(st, q, ex, wk, inp)
    PROVE  ex \subseteq executing'
<1>1. PICK start, bad : Drained(st, ex, start, bad)
  BY DrainQueueMoves
<1> QED BY <1>1 DEF Drained

\* The steps of a turn that settle nothing.
LEMMA StepsTurn ==
    ASSUME TypeOK, RunInv, NEW r \in Runs,
           \/ StartRuntime(r)
           \/ ClaimSteers(r)
           \/ \E i \in Inputs : OnSteerClaimed(r, i)
           \/ \E outcome \in {"completed", "paused", "failed"} : TurnEnds(r, outcome)
           \/ OnTerminalEvent(r)
           \/ WorkerFinally(r)
           \/ WorkerKilled(r)
           \/ OnApprovalRequested(r)
           \/ OnApprovalResolved(r)
           \/ SteersExpire(r)
    PROVE  RunSteps
<1>1. executing' = executing
  BY DEF StartRuntime, ClaimSteers, OnSteerClaimed, TurnEnds, OnTerminalEvent,
         WorkerFinally, WorkerKilled, OnApprovalRequested, OnApprovalResolved,
         SteersExpire, WorkerOnly
<1>2. \/ worker' = worker
      \/ /\ worker[r].stage # "none"
         /\ \A x \in Runs \ {r} : worker'[x] = worker[x]
  BY DEF StartRuntime, ClaimSteers, OnSteerClaimed, TurnEnds, OnTerminalEvent,
         WorkerFinally, WorkerKilled, OnApprovalRequested, OnApprovalResolved,
         SteersExpire, WorkerOnly, TypeOK
<1>3. NoWorker.stage = "none"
  BY DEF NoWorker
<1>4. \A x \in Runs : worker'[x] = worker[x] \/ worker[x] # NoWorker
  BY <1>2, <1>3
<1>5. \A x \in Runs : \/ status'[x] = status[x]
                      \/ {status[x], status'[x]} \subseteq Working /\ worker[x] # NoWorker
  <2>1. CASE OnApprovalRequested(r) \/ OnApprovalResolved(r)
    BY <2>1, <1>3 DEF OnApprovalRequested, OnApprovalResolved, TypeOK, Working
  <2>2. CASE status' = status
    BY <2>2
  <2> QED BY <2>1, <2>2
      DEF StartRuntime, ClaimSteers, OnSteerClaimed, TurnEnds, OnTerminalEvent,
          WorkerFinally, WorkerKilled, SteersExpire
<1> QED BY <1>1, <1>4, <1>5, StepsStay DEF Stays

\* enqueueNextTurn and drainQueue from where everything is.
LEMMA StepsNextTurn ==
    ASSUME TypeOK, RunInv, NEW t \in Tasks, NEW inp \in [Inputs -> Input],
           NextTurnAndDrain(t, inp)
    PROVE  RunSteps
<1>1. PICK pick \in NextTurns({t}, status, inp) :
      \E new \in SetToSeqs(Created(pick, status)) :
        DrainQueue(WithCreated(pick, status), queue \o new, executing, worker,
                   WithTaken(pick, status, inp))
  BY DEF NextTurnAndDrain
<1>2. PICK new \in SetToSeqs(Created(pick, status)) :
        DrainQueue(WithCreated(pick, status), queue \o new, executing, worker,
                   WithTaken(pick, status, inp))
  BY <1>1
<1>3. /\ queue \o new \in Seq(Runs)
      /\ WithCreated(pick, status) \in [Runs -> Status]
  BY NextTurnAndDrainType DEF TypeOK
<1>4. \A x \in Runs : Born(x) \/ DrainedFrom(x, status[x], worker[x])
  <2>1. status \in [Runs -> Status] /\ worker \in [Runs -> Worker] /\ {t} \in SUBSET Tasks
    BY DEF TypeOK
  <2> QED BY <1>2, <1>3, <2>1, NextTurnRuns
<1>5. executing \subseteq executing'
  BY <1>2, <1>3, DrainQueueAddsSlots
<1> QED BY <1>4, <1>5, StepsDrained, StepsBorn DEF RunSteps

\* startMessage creates a run and its task has no other active one.
LEMMA StepsStartMessage ==
    ASSUME TypeOK, RunInv, NEW t \in Tasks, StartMessage(t)
    PROVE  RunSteps
<1> DEFINE r == FreshRun(t, status)
           st == [status EXCEPT ![r] = "QUEUED"]
<1>1. r \in Runs /\ status[r] = "NEW" /\ TaskOf[r] = t
  BY StartMessageIsFresh
<1>2. /\ DrainQueue(st, Enqueue(queue, r), executing, worker, input)
      /\ ActiveRuns(t, status) = {}
  BY DEF StartMessage
<1> HIDE DEF r
<1>3. Enqueue(queue, r) \in Seq(Runs)
  BY <1>1, EnqueueType DEF TypeOK
<1>4. st \in [Runs -> Status] /\ worker \in [Runs -> Worker]
  BY DEF TypeOK, Status, Active
<1>5. st[r] = "QUEUED" /\ \A x \in Runs \ {r} : st[x] = status[x]
  BY <1>1 DEF TypeOK
<1> HIDE DEF st
<1>6. \A x \in Runs : DrainedFrom(x, st[x], worker[x])
  BY <1>2, <1>3, <1>4, DrainQueueRuns
<1>7. executing \subseteq executing'
  BY <1>2, <1>3, DrainQueueAddsSlots
<1>8. Born(r)
  <2>1. ASSUME NEW y \in Runs \ {r}, TaskOf[y] = TaskOf[r] PROVE status'[y] \notin Active
    <3>1. st[y] \notin Active
      BY <1>1, <1>2, <1>5, <2>1 DEF ActiveRuns, RunsOf
    <3>2. DrainedFrom(y, st[y], worker[y])
      BY <1>6
    <3> QED BY <3>1, <3>2 DEF DrainedFrom, Active
  <2> QED BY <1>1, <1>5, <1>6, <2>1 DEF DrainedFrom, Born
<1>9. ASSUME NEW x \in Runs \ {r} PROVE RunStep(x)
  BY <1>5, <1>6, <1>7, StepsDrained
<1> QED BY <1>1, <1>8, <1>9, StepsBorn DEF RunSteps

\* resume puts a paused run back, or drains a queued one.
LEMMA StepsResume ==
    ASSUME TypeOK, RunInv, NEW r \in Runs, Resume(r)
    PROVE  RunSteps
<1> DEFINE st == [status EXCEPT ![r] = "QUEUED"]
<1>1. /\ DrainQueue(st, Enqueue(queue, r), executing, worker, input)
      /\ status[r] \in {"PAUSED", "QUEUED"}
  BY DEF Resume
<1>2. Enqueue(queue, r) \in Seq(Runs)
  BY EnqueueType DEF TypeOK
<1>3. st \in [Runs -> Status] /\ worker \in [Runs -> Worker]
  BY DEF TypeOK, Status, Active
<1>4. st[r] = "QUEUED" /\ \A x \in Runs \ {r} : st[x] = status[x]
  BY DEF TypeOK
<1> HIDE DEF st
<1>5. \A x \in Runs : DrainedFrom(x, st[x], worker[x])
  BY <1>1, <1>2, <1>3, DrainQueueRuns
<1>6. executing \subseteq executing'
  BY <1>1, <1>2, DrainQueueAddsSlots
<1>7. RunStep(r)
  <2>1. DrainedFrom(r, "QUEUED", worker[r])
    BY <1>4, <1>5
  <2> QED BY <1>1, <2>1
          DEF DrainedFrom, RunStep, Waits, Queues, Starts, Ends, Terminal, Working
<1>8. ASSUME NEW x \in Runs \ {r} PROVE RunStep(x)
  BY <1>4, <1>5, <1>6, StepsDrained
<1> QED BY <1>7, <1>8 DEF RunSteps

\* The requests of the Desktop.
LEMMA StepsRequest == TypeOK /\ RunInv /\ Request => RunSteps
<1> SUFFICES ASSUME TypeOK, RunInv, Request PROVE RunSteps
  OBVIOUS
<1>1. ASSUME NEW t \in Tasks, StartMessage(t) PROVE RunSteps
  BY <1>1, StepsStartMessage
<1>2. ASSUME NEW r \in Runs, Resume(r) PROVE RunSteps
  BY <1>2, StepsResume
<1>3. ASSUME UNCHANGED <<executing, status, worker>> PROVE RunSteps
  BY <1>3, StepsStay DEF Stays
<1>4. ASSUME NEW i \in Inputs,
             EnqueueSteer(i) \/ MarkClaimed(i) \/ UpdateToSteer(i) \/ DeleteInput(i)
      PROVE  RunSteps
  BY <1>3, <1>4 DEF EnqueueSteer, MarkClaimed, UpdateToSteer, DeleteInput, InputsOnly
<1>5. ASSUME NEW i \in Inputs, EnqueueNextTurnInput(i) \/ UpdateToNextTurn(i)
      PROVE  RunSteps
  <2>1. [input EXCEPT ![i] = Detached] \in [Inputs -> Input] /\ TaskOf[i] \in Tasks
    BY Constants, TaskOfAssumption DEF TypeOK
  <2>2. InputsOnly \/ NextTurnAndDrain(TaskOf[i], [input EXCEPT ![i] = Detached])
    BY <1>5 DEF EnqueueNextTurnInput, UpdateToNextTurn
  <2> QED BY <1>3, <2>1, <2>2, StepsNextTurn DEF InputsOnly
<1>6. ASSUME NEW c \in Clients, NEW r \in Runs, PauseBegin(c, r) PROVE RunSteps
  <2>1. UNCHANGED <<executing, worker>>
    BY <1>6 DEF PauseBegin
  <2>2. /\ \A x \in Runs \ {r} : status'[x] = status[x]
        /\ status'[r] = PauseStatus(status[r])
        /\ Pausable(status[r])
    BY <1>6 DEF PauseBegin, TypeOK
  <2>3. \A x \in Runs \ {r} : RunStep(x)
    BY <2>1, <2>2, TurnsAtWork DEF RunStep, Waits, Stays
  <2>4. CASE status[r] = "QUEUED"
    <3>1. worker[r] = NoWorker
      BY <2>4 DEF RunInv, CleanRuns
    <3>2. RunStep(r)
      BY <2>1, <2>2, <2>4, <3>1 DEF RunStep, Waits, Pauses, PauseStatus, Working
    <3> QED BY <2>3, <3>2 DEF RunSteps
  <2>5. CASE status[r] \in Working
    <3>1. client[c].pc = "idle" /\ client'[c].pc # "idle"
      BY <1>6, <2>5 DEF PauseBegin, Working, TypeOK
    <3>2. RunStep(r)
      BY <3>1, <2>1, <2>2, <2>5, TurnsAtWork DEF RunStep, Waits, Stays, PauseStatus, Working
    <3> QED BY <2>3, <3>2 DEF RunSteps
  <2> QED BY <2>2, <2>4, <2>5 DEF Pausable
<1>7. ASSUME NEW c \in Clients, NEW r \in Runs, CancelBegin(c, r) PROVE RunSteps
  BY <1>3, <1>7 DEF CancelBegin
<1> QED BY <1>1, <1>2, <1>4, <1>5, <1>6, <1>7 DEF Request

\* The later sections of pause() and cancel().
LEMMA StepsClient ==
    ASSUME TypeOK, RunInv, NEW c \in Clients, ClientStep(c)
    PROVE  RunSteps
<1> DEFINE r == client[c].run
<1>1. client[c].pc # "idle"
  BY DEF ClientStep, PauseForward, PauseRollback, PauseFinish, CancelKill,
         CancelAwait, CancelSettle, CancelThrows
<1>0. [client EXCEPT ![c] = Idle] # client
  BY <1>1 DEF TypeOK, Idle
<1>2. /\ r \in Runs /\ TaskOf[r] \in Tasks
      /\ client[c].prev \in {"none", "RUNNING", "WAITING_APPROVAL"}
      /\ status[r] # "NEW"
  BY <1>1, TaskOfAssumption DEF TypeOK, Client, Idle, RunInv, ClientsKnowRuns
<1>3. ASSUME UNCHANGED <<executing, status>>,
             \A x \in Runs : worker'[x] = worker[x] \/ worker[x] # NoWorker
      PROVE  RunSteps
  BY <1>3, StepsStay DEF Stays
<1>4. \A t \in Tasks : activeRun[t] \in Runs => worker[activeRun[t]] # NoWorker
  BY DEF RunInv, ActiveTurns, NoWorker
<1>5. CASE PauseForward(c)
  <2>1. \A x \in Runs : worker'[x] = worker[x] \/ worker[x] # NoWorker
    BY <1>2, <1>4, <1>5 DEF PauseForward, TypeOK
  <2> QED BY <1>3, <1>5, <2>1 DEF PauseForward
<1>6. CASE CancelKill(c)
  <2>1. \A x \in Runs : worker'[x] = worker[x] \/ worker[x] # NoWorker
    BY <1>2, <1>4, <1>6 DEF CancelKill, TypeOK
  <2> QED BY <1>3, <1>6, <2>1 DEF CancelKill
<1>7. CASE CancelAwait(c)
  BY <1>3, <1>7 DEF CancelAwait
<1>8. CASE PauseRollback(c)
  <2>1. UNCHANGED <<executing, worker>>
    BY <1>8 DEF PauseRollback
  <2>2. \A x \in Runs : status'[x] = status[x] \/ {status[x], status'[x]} \subseteq Working
    BY <1>2, <1>8 DEF PauseRollback, RolledBack, Working, TypeOK
  <2>3. client' # client
    BY <1>0, <1>8 DEF PauseRollback
  <2> QED BY <2>1, <2>2, <2>3, StepsStay DEF Stays
<1>9. CASE PauseFinish(c)
  <2>1. UNCHANGED <<executing, worker>> /\ status' = [status EXCEPT ![r] = "PAUSED"]
    BY <1>9 DEF PauseFinish
  <2>2. status[r] = "PAUSING" /\ worker[r] = NoWorker
    BY <1>9 DEF PauseFinish, RunInv, FinishingPauses
  <2>3. RunStep(r)
    BY <1>0, <1>2, <1>9, <2>1, <2>2 DEF PauseFinish, RunStep, Waits, Pauses, Working, TypeOK
  <2>4. \A x \in Runs \ {r} : RunStep(x)
    BY <1>2, <2>1, TurnsAtWork DEF RunStep, Waits, Stays, TypeOK
  <2> QED BY <2>3, <2>4 DEF RunSteps
<1>10. CASE CancelSettle(c)
  <2> DEFINE st == [status EXCEPT ![r] = "CANCELLED"]
             ex == ReleaseExecution(executing, r)
  <2>1. DrainQueue(st, queue, ex, worker, CancelOpenForTask(input, TaskOf[r]))
    BY <1>10 DEF CancelSettle
  <2>2. /\ queue \in Seq(Runs) /\ st \in [Runs -> Status]
        /\ worker \in [Runs -> Worker]
        /\ st[r] = "CANCELLED" /\ \A x \in Runs \ {r} : st[x] = status[x]
        /\ ex = executing \ {r}
    BY <1>2 DEF TypeOK, Status, Terminal, ReleaseExecution
  <2> HIDE DEF st, ex
  <2>3. \A x \in Runs : DrainedFrom(x, st[x], worker[x])
    BY <2>1, <2>2, DrainQueueRuns
  <2>4. ex \subseteq executing'
    BY <2>1, <2>2, DrainQueueAddsSlots
  <2>0. client' # client
    BY <1>0, <1>10 DEF CancelSettle
  <2>5. RunStep(r)
    BY <1>2, <2>0, <2>2, <2>3 DEF DrainedFrom, RunStep, Waits, Ends, Terminal, Working
  <2>6. \A x \in Runs \ {r} : RunStep(x)
    BY <2>2, <2>3, <2>4, StepsDrained
  <2> QED BY <2>5, <2>6 DEF RunSteps
<1>11. CASE CancelThrows(c)
  <2>1. /\ UNCHANGED <<executing, worker>>
        /\ \A x \in Runs \ {r} : status'[x] = status[x]
        /\ status'[r] \in {status[r], "CANCELLED"}
    BY <1>2, <1>11 DEF CancelThrows, TypeOK
  <2>0. client' # client
    BY <1>0, <1>11 DEF CancelThrows
  <2>2. RunStep(r)
    BY <1>2, <2>0, <2>1, TurnsAtWork DEF RunStep, Waits, Stays, Ends, Terminal, Working
  <2>3. \A x \in Runs \ {r} : RunStep(x)
    BY <2>1, TurnsAtWork DEF RunStep, Waits, Stays
  <2> QED BY <2>2, <2>3 DEF RunSteps
<1> QED BY <1>5, <1>6, <1>7, <1>8, <1>9, <1>10, <1>11 DEF ClientStep

\* A callback finds its run at work or ended, since a run that waits has no turn.
LEMMA CallbackFinds ==
    ASSUME TypeOK, RunInv, NEW r \in Runs, worker[r].stage = "callback"
    PROVE  /\ status[r] \in Working \cup Terminal
           /\ worker[r] # NoWorker
BY DEF TypeOK, RunInv, CleanRuns, Status, Active, NoWorker

\* A callback leaves its run with no turn, at a status s it may go to, and moves
\* other runs as drainQueue does.
LEMMA StepsSettled ==
    ASSUME TypeOK, RunInv, NEW r \in Runs, worker[r].stage = "callback",
           NEW s \in Status,
           \/ status[r] = s \/ (s \in Terminal /\ status[r] # "CANCELLED")
           \/ s = "PAUSED" /\ status[r] \in Working,
           NEW st, st = [status EXCEPT ![r] = s],
           NEW wk, wk = [worker EXCEPT ![r] = NoWorker],
           executing \ {r} \subseteq executing',
           \A x \in Runs : Born(x) \/ DrainedFrom(x, st[x], wk[x])
    PROVE  RunSteps
<1>1. status[r] \in Working \cup Terminal /\ worker[r] # NoWorker
  BY CallbackFinds
<1>2. /\ st[r] = s /\ wk[r] = NoWorker
      /\ \A x \in Runs \ {r} : st[x] = status[x] /\ wk[x] = worker[x]
  BY DEF TypeOK
<1>3. RunStep(r)
  <2>1. ~Born(r) /\ s # "QUEUED"
    BY <1>1 DEF Born, Working, Terminal
  <2>2. status'[r] = s /\ worker'[r] = NoWorker
    BY <1>2, <2>1 DEF DrainedFrom
  <2> QED BY <1>1, <2>2 DEF RunStep, Waits, Stays, Pauses, Ends, Terminal, Working
<1>4. ASSUME NEW x \in Runs \ {r} PROVE RunStep(x)
  <2>1. Born(x) \/ DrainedFrom(x, status[x], worker[x])
    BY <1>2
  <2> QED BY <2>1, StepsDrained, StepsBorn
<1> QED BY <1>3, <1>4 DEF RunSteps

\* The callbacks.
LEMMA StepsSettle ==
    ASSUME TypeOK, RunInv, NEW r \in Runs, Complete(r) \/ Fail(r) \/ SettleThrows(r)
    PROVE  RunSteps
<1> DEFINE ex == ReleaseExecution(executing, r)
           wk == [worker EXCEPT ![r] = NoWorker]
<1>0. worker[r].stage = "callback"
  BY DEF Complete, Fail, SettleThrows
<1>1. queue \in Seq(Runs) /\ status \in [Runs -> Status] /\ input \in [Inputs -> Input]
  BY DEF TypeOK
<1>2. wk \in [Runs -> Worker] /\ wk = [worker EXCEPT ![r] = NoWorker]
  BY Constants DEF TypeOK
<1>3. status[r] \in Working \cup Terminal
  BY <1>0, CallbackFinds
<1>4. ex = executing \ {r}
  BY DEF ReleaseExecution
<1>5. CASE Complete(r)
  <2> DEFINE paused == r \in pausedTurns
             s == AfterCompletion(status[r], paused)
             st == [status EXCEPT ![r] = s]
             inp == IF st[r] # status[r] /\ ~paused
                    THEN MoveOpenSteersToNextTurn(input, {r}) ELSE input
  <2>1. /\ s \in Status
        /\ \/ status[r] = s \/ (s \in Terminal /\ status[r] # "CANCELLED")
           \/ s = "PAUSED" /\ status[r] \in Working
    BY <1>3 DEF AfterCompletion, Status, Active, Working, Terminal
  <2>2. st \in [Runs -> Status] /\ inp \in [Inputs -> Input]
    BY <1>1, <2>1, InputsType
  <2>3. MovesOn(r, st[r], paused) \in SUBSET Tasks
    BY TaskOfAssumption DEF MovesOn
  <2>4. st = [status EXCEPT ![r] = AfterCompletion(@, paused)]
    BY <1>1
  <2>5. PICK pick \in NextTurns(MovesOn(r, st[r], paused), st, inp) :
        \E new \in SetToSeqs(Created(pick, st)) :
          DrainQueue(WithCreated(pick, st), queue \o new, ex, wk, WithTaken(pick, st, inp))
    BY <1>5, <2>4 DEF Complete
  <2>6. PICK new \in SetToSeqs(Created(pick, st)) :
          DrainQueue(WithCreated(pick, st), queue \o new, ex, wk, WithTaken(pick, st, inp))
    BY <2>5
  <2>7. /\ st = [status EXCEPT ![r] = s]
        /\ \A x \in Runs : st[x] = "NEW" => status[x] = "NEW" /\ wk[x] = worker[x]
    BY <1>1, <1>3, <2>1 DEF Terminal, Working, TypeOK
  <2> HIDE DEF st, s, paused, inp, ex, wk
  <2>8. queue \o new \in Seq(Runs) /\ WithCreated(pick, st) \in [Runs -> Status]
    BY <1>1, <2>2, <2>3, NextTurnAndDrainType
  <2>9. \A x \in Runs : Born(x) \/ DrainedFrom(x, st[x], wk[x])
    BY <1>2, <2>2, <2>3, <2>6, <2>7, <2>8, NextTurnRuns
  <2>10. executing \ {r} \subseteq executing'
    BY <1>4, <2>6, <2>8, DrainQueueAddsSlots
  <2> QED BY <1>0, <1>2, <2>1, <2>7, <2>9, <2>10, StepsSettled
<1>6. CASE Fail(r)
  <2> DEFINE s == AfterFailure(status[r], r \in pausedTurns)
             st == [status EXCEPT ![r] = s]
             inp == IF st[r] = "FAILED" THEN MoveOpenSteersToNextTurn(input, {r}) ELSE input
  <2>1. /\ s \in Status
        /\ \/ status[r] = s \/ (s \in Terminal /\ status[r] # "CANCELLED")
           \/ s = "PAUSED" /\ status[r] \in Working
    BY <1>3 DEF AfterFailure, Status, Active, Working, Terminal
  <2>2. st \in [Runs -> Status]
    BY <1>1, <2>1
  <2>3. DrainQueue(st, queue, ex, wk, inp)
    <3>1. st = [status EXCEPT ![r] = AfterFailure(@, r \in pausedTurns)]
      BY <1>1
    <3> QED BY <1>6, <3>1 DEF Fail
  <2>4. st = [status EXCEPT ![r] = s]
    OBVIOUS
  <2> HIDE DEF st, s, inp, ex, wk
  <2>5. \A x \in Runs : DrainedFrom(x, st[x], wk[x])
    BY <1>1, <1>2, <2>2, <2>3, DrainQueueRuns
  <2>6. executing \ {r} \subseteq executing'
    BY <1>1, <1>4, <2>3, DrainQueueAddsSlots
  <2> QED BY <1>0, <1>2, <2>1, <2>4, <2>5, <2>6, StepsSettled
<1>7. CASE SettleThrows(r)
  <2>0. PICK s \in {status[r], Settlement(r)},
             inp \in {input, MoveOpenSteersToNextTurn(input, {r})} :
          DrainQueue([status EXCEPT ![r] = s], queue, ex, wk, inp)
    BY <1>7 DEF SettleThrows
  <2> DEFINE st == [status EXCEPT ![r] = s]
  <2>1. DrainQueue(st, queue, ex, wk, inp)
    BY <2>0
  <2>3. /\ s \in Status
        /\ \/ status[r] = s \/ (s \in Terminal /\ status[r] # "CANCELLED")
           \/ s = "PAUSED" /\ status[r] \in Working
    BY <1>1, <1>3 DEF Settlement, AfterCompletion, AfterFailure, Status, Active, Working,
           Terminal
  <2>2. st = [status EXCEPT ![r] = s] /\ st \in [Runs -> Status] /\ s \in Status
    BY <1>1, <2>3
  <2> HIDE DEF st, ex, wk
  <2>4. \A x \in Runs : DrainedFrom(x, st[x], wk[x])
    BY <1>1, <1>2, <2>1, <2>2, DrainQueueRuns
  <2>5. executing \ {r} \subseteq executing'
    BY <1>1, <1>4, <2>1, DrainQueueAddsSlots
  <2> QED BY <1>0, <1>2, <2>2, <2>3, <2>4, <2>5, StepsSettled
<1> QED BY <1>5, <1>6, <1>7

\* A crash moves no run.
LEMMA StepsCrash == TypeOK /\ Crash => RunSteps
BY DEF Crash, durable, TypeOK, RunSteps, RunStep, Waits, Stays

\* Recovery pauses what was under way, and starts next turns.
LEMMA StepsRecover ==
    ASSUME TypeOK, SlotInv, RunInv, Recover
    PROVE  RunSteps
<1> DEFINE broken == {r \in repairable : status[r] = "FAILED" /\ r \in pausingLog}
           back == {r \in Runs : status[r] \in Recoverable} \cup broken
           st == [r \in Runs |-> IF r \in back THEN "PAUSED" ELSE status[r]]
           inp == ResetDelivered(input, back)
<1>1. st \in [Runs -> Status] /\ inp \in [Inputs -> Input]
  BY InputsType DEF TypeOK, Status, Active
<1>2. PICK pick \in NextTurns(Tasks, st, inp) :
      \E new \in SetToSeqs(Created(pick, st)) :
        DrainQueue(WithCreated(pick, st), queue \o new, executing, worker,
                   WithTaken(pick, st, inp))
  BY DEF Recover
<1>3. PICK new \in SetToSeqs(Created(pick, st)) :
        DrainQueue(WithCreated(pick, st), queue \o new, executing, worker,
                   WithTaken(pick, st, inp))
  BY <1>2
<1>4. ~ready /\ \A x \in Runs : worker[x] = NoWorker
  BY DEF Recover, SlotInv, NothingRunsBeforeRecovery
<1>5. \A x \in Runs :
        \/ st[x] = status[x] /\ status[x] \notin Recoverable
        \/ st[x] = "PAUSED" /\ status[x] \in Recoverable
        \/ st[x] = "PAUSED" /\ status[x] = "FAILED" /\ SequenceConflicts
  BY DEF RunInv, FaultsAreSwitched
<1> HIDE DEF st, inp, back, broken
<1>6. /\ queue \o new \in Seq(Runs)
      /\ WithCreated(pick, st) \in [Runs -> Status]
  BY <1>1, NextTurnAndDrainType DEF TypeOK
<1>7. \A x \in Runs : Born(x) \/ DrainedFrom(x, st[x], worker[x])
  <2>1. worker \in [Runs -> Worker] /\ Tasks \in SUBSET Tasks
    BY DEF TypeOK
  <2>2. \A x \in Runs : st[x] = "NEW" => status[x] = "NEW" /\ worker[x] = worker[x]
    BY <1>5
  <2> QED BY <1>1, <1>3, <1>6, <2>1, <2>2, NextTurnRuns
<1>8. ASSUME NEW x \in Runs, ~Born(x) PROVE RunStep(x)
  <2>1. st[x] # "QUEUED"
    BY <1>5 DEF Recoverable
  <2>2. status'[x] = st[x] /\ worker'[x] = NoWorker
    BY <1>4, <1>7, <1>8, <2>1 DEF DrainedFrom
  <2> QED BY <1>4, <1>5, <2>2 
          DEF RunStep, Waits, Stays, Pauses, Repaired, Recoverable, Working
<1> QED BY <1>8, StepsBorn DEF RunSteps

\* Every step moves every run in one of these ways.
LEMMA RunsStep == TypeOK /\ SlotInv /\ RunInv /\ [Next]_vars => RunSteps
<1> SUFFICES ASSUME TypeOK, SlotInv, RunInv, [Next]_vars PROVE RunSteps
  OBVIOUS
<1>1. CASE Request
  BY <1>1, StepsRequest
<1>2. CASE \E c \in Clients : ClientStep(c)
  BY <1>2, StepsClient
<1>3. ASSUME NEW r \in Runs, Converge(r) \/ Elsewhere(r) PROVE RunSteps
  BY <1>3, StepsTurn, StepsSettle DEF Converge, Elsewhere
<1>4. CASE Crash
  BY <1>4, StepsCrash
<1>5. CASE Recover
  BY <1>5, StepsRecover
<1>6. CASE UNCHANGED vars
  BY <1>6, StepsStay DEF vars, Stays
<1> QED BY <1>1, <1>2, <1>3, <1>4, <1>5, <1>6 DEF Next

-----------------------------------------------------------------------------
(* The inductive invariant *)

\* A client leaves its call, goes on in it, or begins one for an active run; what
\* finds its run at work without a slot will finish the pause alone.
LEMMA ClientsMove ==
    ASSUME TypeOK, [Next]_vars, NEW c \in Clients
    PROVE  \/ client'[c] \in {Idle, client[c]}
           \/ /\ client[c] # Idle /\ client'[c].run = client[c].run
              /\ client'[c].pc # "finishPause"
           \/ /\ client[c] = Idle
              /\ client'[c].run \in Runs /\ status[client'[c].run] \in Active
              /\ client'[c].pc = "finishPause" =>
                    /\ status[client'[c].run] \in Working
                    /\ client'[c].run \notin executing
                    /\ status'[client'[c].run] = "PAUSING"
                    /\ worker' = worker
<1> DEFINE Goal == \/ client'[c] \in {Idle, client[c]}
                   \/ /\ client[c] # Idle /\ client'[c].run = client[c].run
                      /\ client'[c].pc # "finishPause"
                   \/ /\ client[c] = Idle
                      /\ client'[c].run \in Runs /\ status[client'[c].run] \in Active
                      /\ client'[c].pc = "finishPause" =>
                            /\ status[client'[c].run] \in Working
                            /\ client'[c].run \notin executing
                            /\ status'[client'[c].run] = "PAUSING"
                            /\ worker' = worker
<1>0. client \in [Clients -> Client]
  BY DEF TypeOK
<1>1. CASE client' = client
  BY <1>1
<1>2. ASSUME NEW d \in Clients, NEW r \in Runs, PauseBegin(d, r) \/ CancelBegin(d, r)
      PROVE  Goal
  <2>1. client[d] = Idle
    BY <1>0, <1>2 DEF PauseBegin, CancelBegin, Client
  <2>2. CASE PauseBegin(d, r)
    BY <1>0, <2>1, <2>2 DEF PauseBegin, Pausable, PauseStatus, Active, Working, TypeOK
  <2>3. CASE CancelBegin(d, r)
    BY <1>0, <2>1, <2>3 DEF CancelBegin
  <2> QED BY <1>2, <2>2, <2>3
<1>3. ASSUME NEW d \in Clients, ClientStep(d) PROVE Goal
  <2>1. client[d].pc # "idle"
    BY <1>3 DEF ClientStep, PauseForward, PauseRollback, PauseFinish, CancelKill,
           CancelAwait, CancelSettle, CancelThrows
  <2>2. /\ client[d] # Idle
        /\ \A p \in {"rollback", "await", "cancel"} :
              /\ [client[d] EXCEPT !.pc = p].run = client[d].run
              /\ [client[d] EXCEPT !.pc = p].pc = p
    BY <1>0, <2>1 DEF Client, Idle
  <2>3. ASSUME NEW p \in {"rollback", "await", "cancel"},
               client' = [client EXCEPT ![d].pc = p]
        PROVE  Goal
    BY <1>0, <2>2, <2>3
  <2>4. ASSUME client' = [client EXCEPT ![d] = Idle] PROVE Goal
    BY <1>0, <2>4
  <2>5. CASE PauseForward(d)
    <3>1. \/ client' = [client EXCEPT ![d] = Idle]
          \/ client' = [client EXCEPT ![d].pc = "rollback"]
      BY <2>5 DEF PauseForward
    <3> QED BY <2>3, <2>4, <3>1
  <2>6. CASE CancelKill(d)
    BY <2>3, <2>6 DEF CancelKill
  <2>7. CASE CancelAwait(d)
    BY <2>3, <2>7 DEF CancelAwait
  <2>8. CASE PauseRollback(d) \/ PauseFinish(d) \/ CancelSettle(d) \/ CancelThrows(d)
    BY <2>4, <2>8 DEF PauseRollback, PauseFinish, CancelSettle, CancelThrows
  <2> QED BY <1>3, <2>5, <2>6, <2>7, <2>8 DEF ClientStep
<1>4. CASE Request
  BY <1>1, <1>2, <1>4 DEF Request, StartMessage, Resume, EnqueueSteer, EnqueueNextTurnInput,
     MarkClaimed, UpdateToSteer, UpdateToNextTurn, DeleteInput, InputsOnly, NextTurnAndDrain
<1>5. ASSUME NEW r \in Runs, Converge(r) \/ Elsewhere(r) PROVE client' = client
  BY <1>5 DEF Converge, Elsewhere, StartRuntime, ClaimSteers, OnSteerClaimed, TurnEnds,
     OnTerminalEvent, WorkerFinally, WorkerKilled, OnApprovalRequested, OnApprovalResolved,
     SteersExpire, WorkerOnly, Complete, Fail, SettleThrows
<1>6. CASE Crash
  BY <1>6 DEF Crash
<1>7. CASE Recover
  BY <1>1, <1>7 DEF Recover
<1>8. CASE UNCHANGED vars
  BY <1>1, <1>8 DEF vars
<1> QED BY <1>1, <1>3, <1>4, <1>5, <1>6, <1>7, <1>8 DEF Next

\* The process starts with no run and nothing under way.
LEMMA RunInvInit == Init => RunInv
<1> SUFFICES ASSUME Init PROVE RunInv
  OBVIOUS
<1>1. /\ \A r \in Runs : status[r] = "NEW" /\ worker[r] = NoWorker
      /\ \A c \in Clients : client[c] = Idle
      /\ \A t \in Tasks : activeRun[t] \notin Runs
      /\ unsettled = {} /\ repairable = {}
  BY RunsAssumption DEF Init
<1> QED BY <1>1 DEF RunInv, CleanRuns, SlotlessWorkIsOver, FinishingPauses,
           ClientsKnowRuns, ActiveTurns, FaultsAreSwitched, Working, Idle

\* startGeneration gives a task the turn it starts and leaves the others theirs.
LEMMA DrainQueueTurns ==
    ASSUME TypeOK, NEW st \in [Runs -> Status], NEW q \in Seq(Runs), NEW ex,
           NEW wk \in [Runs -> Worker], NEW inp, DrainQueue(st, q, ex, wk, inp),
           \A t \in Tasks : activeRun[t] \in Runs =>
               wk[activeRun[t]].stage \notin {"none", "callback"}
    PROVE  ActiveTurns'
<1>1. PICK n \in 0..Len(q), bad \in SUBSET {r \in Range(q) : st[r] = "QUEUED"} :
         StartWorkers(Started(st, q, bad, n), wk)
  BY DEF DrainQueue
<1> DEFINE start == Started(st, q, bad, n)
<1>2. start \subseteq Runs
  BY StartedRuns
<1>3. /\ worker' = [r \in Runs |-> IF r \in start THEN [NoWorker EXCEPT !.stage = "starting"]
                                   ELSE wk[r]]
      /\ activeRun' = [t \in Tasks |-> IF \E r \in start : TaskOf[r] = t
                                       THEN CHOOSE r \in start : TaskOf[r] = t
                                       ELSE activeRun[t]]
  BY <1>1 DEF StartWorkers
<1> HIDE DEF start
<1>4. \A r \in start : worker'[r].stage = "starting"
  BY <1>2, <1>3 DEF NoWorker
<1>5. ASSUME NEW t \in Tasks, activeRun'[t] \in Runs
      PROVE  worker'[activeRun'[t]].stage \notin {"none", "callback"}
  <2>1. CASE \E r \in start : TaskOf[r] = t
    BY <1>3, <1>4, <2>1
  <2>2. CASE ~\E r \in start : TaskOf[r] = t
    <3>1. activeRun'[t] = activeRun[t]
      BY <1>3, <2>2
    <3> QED BY <1>3, <1>4, <1>5, <3>1
  <2> QED BY <2>1, <2>2
<1> QED BY <1>5 DEF ActiveTurns

\* What drainQueue is called with is well formed, wherever it is called.
LEMMA ActiveTurnsNextTurn ==
    ASSUME TypeOK, ActiveTurns, NEW ts \in SUBSET Tasks, NEW st \in [Runs -> Status],
           NEW inp \in [Inputs -> Input], NEW ex, NEW wk \in [Runs -> Worker],
           \A t \in Tasks : activeRun[t] \in Runs => wk[activeRun[t]] = worker[activeRun[t]],
           \E pick \in NextTurns(ts, st, inp) :
           \E new \in SetToSeqs(Created(pick, st)) :
              DrainQueue(WithCreated(pick, st), queue \o new, ex, wk, WithTaken(pick, st, inp))
    PROVE  ActiveTurns'
<1>0. PICK pick \in NextTurns(ts, st, inp) :
      \E new \in SetToSeqs(Created(pick, st)) :
        DrainQueue(WithCreated(pick, st), queue \o new, ex, wk, WithTaken(pick, st, inp))
  OBVIOUS
<1>1. PICK new \in SetToSeqs(Created(pick, st)) :
        DrainQueue(WithCreated(pick, st), queue \o new, ex, wk, WithTaken(pick, st, inp))
  BY <1>0
<1>2. queue \o new \in Seq(Runs) /\ WithCreated(pick, st) \in [Runs -> Status]
  BY NextTurnAndDrainType DEF TypeOK
<1>3. \A t \in Tasks : activeRun[t] \in Runs =>
        wk[activeRun[t]].stage \notin {"none", "callback"}
  BY DEF ActiveTurns
<1> QED BY <1>1, <1>2, <1>3, DrainQueueTurns

\* activeRuns names open turns only: a worker leaves it before its callback runs.
LEMMA ActiveTurnsNext == TypeOK /\ RunInv /\ [Next]_vars => ActiveTurns'
<1> SUFFICES ASSUME TypeOK, RunInv, [Next]_vars PROVE ActiveTurns'
  OBVIOUS
<1>0. /\ ActiveTurns
      /\ \A t \in Tasks : activeRun[t] \in Runs =>
            worker[activeRun[t]].stage \notin {"none", "callback"}
  BY DEF RunInv, ActiveTurns
<1>a. /\ status \in [Runs -> Status] /\ worker \in [Runs -> Worker] /\ queue \in Seq(Runs)
      /\ input \in [Inputs -> Input] /\ activeRun \in [Tasks -> Runs \cup {NoRun}]
  BY DEF TypeOK
<1>1. ASSUME UNCHANGED <<activeRun, worker>> PROVE ActiveTurns'
  BY <1>0, <1>1 DEF ActiveTurns
<1>2. ASSUME NEW st \in [Runs -> Status], NEW q \in Seq(Runs), NEW ex, NEW inp,
             DrainQueue(st, q, ex, worker, inp)
      PROVE  ActiveTurns'
  BY <1>0, <1>a, <1>2, DrainQueueTurns
<1>3. ASSUME NEW i \in Inputs, EnqueueNextTurnInput(i) \/ UpdateToNextTurn(i)
      PROVE  ActiveTurns'
  <2>1. [input EXCEPT ![i] = Detached] \in [Inputs -> Input] /\ {TaskOf[i]} \in SUBSET Tasks
    BY Constants, TaskOfAssumption DEF TypeOK
  <2>2. InputsOnly \/ NextTurnAndDrain(TaskOf[i], [input EXCEPT ![i] = Detached])
    BY <1>3 DEF EnqueueNextTurnInput, UpdateToNextTurn
  <2>3. CASE NextTurnAndDrain(TaskOf[i], [input EXCEPT ![i] = Detached])
    BY <1>0, <1>a, <2>1, <2>3, ActiveTurnsNextTurn DEF NextTurnAndDrain
  <2> QED BY <1>1, <2>2, <2>3 DEF InputsOnly
<1>4. CASE Request
  <2>1. ASSUME NEW t \in Tasks, StartMessage(t) PROVE ActiveTurns'
    <3>1. /\ Enqueue(queue, FreshRun(t, status)) \in Seq(Runs)
          /\ [status EXCEPT ![FreshRun(t, status)] = "QUEUED"] \in [Runs -> Status]
      BY <1>a, <2>1, StartMessageIsFresh, EnqueueType DEF Status, Active
    <3> QED BY <1>2, <2>1, <3>1 DEF StartMessage
  <2>2. ASSUME NEW r \in Runs, Resume(r) PROVE ActiveTurns'
    <3>1. /\ Enqueue(queue, r) \in Seq(Runs)
          /\ [status EXCEPT ![r] = "QUEUED"] \in [Runs -> Status]
      BY <1>a, EnqueueType DEF Status, Active
    <3> QED BY <1>2, <2>2, <3>1 DEF Resume
  <2>3. ASSUME NEW i \in Inputs, EnqueueSteer(i) \/ MarkClaimed(i) \/ UpdateToSteer(i)
                                 \/ DeleteInput(i)
        PROVE  ActiveTurns'
    BY <1>1, <2>3 DEF EnqueueSteer, MarkClaimed, UpdateToSteer, DeleteInput, InputsOnly
  <2>4. ASSUME NEW c \in Clients, NEW r \in Runs, PauseBegin(c, r) \/ CancelBegin(c, r)
        PROVE  ActiveTurns'
    BY <1>1, <2>4 DEF PauseBegin, CancelBegin
  <2> QED BY <1>3, <1>4, <2>1, <2>2, <2>3, <2>4 DEF Request
<1>5. ASSUME NEW c \in Clients, ClientStep(c) PROVE ActiveTurns'
  <2>1. CASE PauseForward(c) \/ CancelKill(c)
    <3>1. /\ activeRun' = activeRun
          /\ \A r \in Runs : worker'[r].stage = worker[r].stage
      <4>1. \A w \in Worker : /\ [w EXCEPT !.pause = TRUE].stage = w.stage
                              /\ [w EXCEPT !.killed = TRUE].stage = w.stage
        BY DEF Worker
      <4>2. CASE PauseForward(c)
        BY <1>a, <4>1, <4>2 DEF PauseForward, RequestPause
      <4>3. CASE CancelKill(c)
        <5>1. CASE worker' = worker
          BY <4>3, <5>1 DEF CancelKill
        <5>2. ASSUME NEW w, worker' = [worker EXCEPT ![w].killed = TRUE]
              PROVE  \A r \in Runs : worker'[r].stage = worker[r].stage
          BY <1>a, <4>1, <5>2
        <5> QED BY <4>3, <5>1, <5>2 DEF CancelKill
      <4> QED BY <2>1, <4>2, <4>3
    <3> QED BY <1>0, <3>1 DEF ActiveTurns
  <2>2. CASE CancelSettle(c)
    <3>1. [status EXCEPT ![client[c].run] = "CANCELLED"] \in [Runs -> Status]
      BY <1>a DEF Status, Terminal
    <3> QED BY <1>2, <1>a, <2>2, <3>1 DEF CancelSettle
  <2>3. CASE PauseRollback(c) \/ PauseFinish(c) \/ CancelAwait(c) \/ CancelThrows(c)
    BY <1>1, <2>3 DEF PauseRollback, PauseFinish, CancelAwait, CancelThrows
  <2> QED BY <1>5, <2>1, <2>2, <2>3 DEF ClientStep
<1>6. ASSUME NEW r \in Runs, Complete(r) \/ Fail(r) \/ SettleThrows(r) PROVE ActiveTurns'
  <2> DEFINE wk == [worker EXCEPT ![r] = NoWorker]
             ex == ReleaseExecution(executing, r)
  <2>1. worker[r].stage = "callback"
    BY <1>6 DEF Complete, Fail, SettleThrows
  <2>2. /\ wk \in [Runs -> Worker]
        /\ \A t \in Tasks : activeRun[t] \in Runs => wk[activeRun[t]] = worker[activeRun[t]]
    BY <1>0, <1>a, <2>1, Constants
  <2> HIDE DEF wk
  <2>3. ASSUME NEW st \in [Runs -> Status], NEW inp, DrainQueue(st, queue, ex, wk, inp)
        PROVE  ActiveTurns'
    BY <1>0, <1>a, <2>2, <2>3, DrainQueueTurns
  <2>4. CASE Complete(r)
    <3> DEFINE paused == r \in pausedTurns
               st == [status EXCEPT ![r] = AfterCompletion(@, paused)]
               inp == IF st[r] # status[r] /\ ~paused
                      THEN MoveOpenSteersToNextTurn(input, {r}) ELSE input
    <3>1. st \in [Runs -> Status] /\ inp \in [Inputs -> Input]
      BY <1>a, InputsType DEF AfterCompletion, Status, Active, Terminal
    <3>2. MovesOn(r, st[r], paused) \in SUBSET Tasks
      BY TaskOfAssumption DEF MovesOn
    <3>3. \E pick \in NextTurns(MovesOn(r, st[r], paused), st, inp) :
          \E new \in SetToSeqs(Created(pick, st)) :
            DrainQueue(WithCreated(pick, st), queue \o new, ex, wk, WithTaken(pick, st, inp))
      BY <2>4 DEF Complete, wk
    <3> HIDE DEF st, inp, paused
    <3> QED BY <1>0, <2>2, <3>1, <3>2, <3>3, ActiveTurnsNextTurn
  <2>5. CASE Fail(r)
    <3> DEFINE st == [status EXCEPT ![r] = AfterFailure(@, r \in pausedTurns)]
    <3>1. st \in [Runs -> Status]
      BY <1>a DEF AfterFailure, Status, Active, Terminal
    <3> QED BY <2>3, <2>5, <3>1 DEF Fail, wk
  <2>6. CASE SettleThrows(r)
    <3>1. PICK s \in {status[r], Settlement(r)},
               inp \in {input, MoveOpenSteersToNextTurn(input, {r})} :
            DrainQueue([status EXCEPT ![r] = s], queue, ReleaseExecution(executing, r),
                       [worker EXCEPT ![r] = NoWorker], inp)
      BY <2>6 DEF SettleThrows
    <3>2. [status EXCEPT ![r] = s] \in [Runs -> Status]
      BY <1>a DEF Settlement, AfterCompletion, AfterFailure, Status, Active, Terminal
    <3> QED BY <2>3, <3>1, <3>2 DEF wk
  <2> QED BY <1>6, <2>4, <2>5, <2>6
<1>7. ASSUME NEW r \in Runs,
             \/ StartRuntime(r)
             \/ \E outcome \in {"completed", "paused", "failed"} : TurnEnds(r, outcome)
             \/ OnTerminalEvent(r)
             \/ OnApprovalRequested(r)
             \/ OnApprovalResolved(r)
      PROVE  ActiveTurns'
  <2>1. /\ activeRun' = activeRun
        /\ \A x \in Runs : \/ worker'[x] = worker[x]
                           \/ worker'[x].stage \in {"ended", "streaming", "settled", "awaiting"}
    BY <1>a, <1>7 DEF StartRuntime, TurnEnds, OnTerminalEvent, OnApprovalRequested,
           OnApprovalResolved, Worker
  <2> QED BY <1>0, <2>1 DEF ActiveTurns
<1>8. ASSUME NEW r \in Runs, WorkerFinally(r) \/ WorkerKilled(r) PROVE ActiveTurns'
  <2>1. /\ \A x \in Runs \ {r} : worker'[x] = worker[x]
        /\ \A t \in Tasks : activeRun'[t] # r /\ activeRun'[t] \in {activeRun[t], NoRun}
    BY <1>a, <1>8, RunsAssumption DEF WorkerFinally, WorkerKilled, Unlink
  <2> QED BY <1>0, <2>1, RunsAssumption DEF ActiveTurns
<1>9. ASSUME NEW r \in Runs, Converge(r) \/ Elsewhere(r) PROVE ActiveTurns'
  <2>1. CASE ClaimSteers(r) \/ SteersExpire(r) \/ \E i \in Inputs : OnSteerClaimed(r, i)
    BY <1>1, <2>1 DEF ClaimSteers, SteersExpire, OnSteerClaimed
  <2> QED BY <1>6, <1>7, <1>8, <1>9, <2>1 DEF Converge, Elsewhere
<1>10. CASE Crash
  BY <1>10, RunsAssumption DEF Crash, ActiveTurns
<1>11. CASE Recover
  <2> DEFINE broken == {r \in repairable : status[r] = "FAILED" /\ r \in pausingLog}
             back == {r \in Runs : status[r] \in Recoverable} \cup broken
             st == [r \in Runs |-> IF r \in back THEN "PAUSED" ELSE status[r]]
             inp == ResetDelivered(input, back)
  <2>1. st \in [Runs -> Status] /\ inp \in [Inputs -> Input] /\ Tasks \in SUBSET Tasks
    BY <1>a, InputsType DEF Status, Active
  <2>2. \E pick \in NextTurns(Tasks, st, inp) :
        \E new \in SetToSeqs(Created(pick, st)) :
          DrainQueue(WithCreated(pick, st), queue \o new, executing, worker,
                     WithTaken(pick, st, inp))
    BY <1>11 DEF Recover
  <2> HIDE DEF st, inp
  <2> QED BY <1>0, <1>a, <2>1, <2>2, ActiveTurnsNextTurn
<1>12. CASE UNCHANGED vars
  BY <1>1, <1>12 DEF vars
<1> QED BY <1>4, <1>5, <1>9, <1>10, <1>11, <1>12 DEF Next

\* Nothing fails where nothing may.
LEMMA FaultsSwitchedNext == TypeOK /\ RunInv /\ [Next]_vars => FaultsAreSwitched'
<1> SUFFICES ASSUME TypeOK, RunInv, [Next]_vars PROVE FaultsAreSwitched'
  OBVIOUS
<1>1. unsettled' \in SUBSET unsettled \/ Faults
  BY DEF Next, Request, StartMessage, Resume, EnqueueSteer, EnqueueNextTurnInput, MarkClaimed,
         UpdateToSteer, UpdateToNextTurn, DeleteInput, InputsOnly, NextTurnAndDrain, PauseBegin,
         CancelBegin, ClientStep, PauseForward, PauseRollback, PauseFinish, CancelKill,
         CancelAwait, CancelSettle, CancelThrows, Converge, Elsewhere, StartRuntime,
         ClaimSteers, OnSteerClaimed, TurnEnds, OnTerminalEvent, WorkerFinally, WorkerKilled,
         OnApprovalRequested, OnApprovalResolved, SteersExpire, WorkerOnly, Complete, Fail,
         SettleThrows, Crash, Recover, vars
<1>2. repairable' \in SUBSET repairable \/ SequenceConflicts
  BY DEF Next, Request, StartMessage, Resume, EnqueueSteer, EnqueueNextTurnInput, MarkClaimed,
         UpdateToSteer, UpdateToNextTurn, DeleteInput, InputsOnly, NextTurnAndDrain, PauseBegin,
         CancelBegin, ClientStep, PauseForward, PauseRollback, PauseFinish, CancelKill,
         CancelAwait, CancelSettle, CancelThrows, Converge, Elsewhere, StartRuntime,
         ClaimSteers, OnSteerClaimed, TurnEnds, OnTerminalEvent, WorkerFinally, WorkerKilled,
         OnApprovalRequested, OnApprovalResolved, SteersExpire, WorkerOnly, Complete, Fail,
         SettleThrows, Crash, durable, Recover, vars
<1> QED BY <1>1, <1>2 DEF RunInv, FaultsAreSwitched

\* Who pauses alone finds the run PAUSING, and with no turn, until it has written
\* PAUSED: nobody else touches a run at work that has no slot.
LEMMA FinishingPausesNext ==
    ASSUME PausesAlone, TypeOK, SlotInv, RunInv, [Next]_vars, RunSteps,
           SlotInv', FaultsAreSwitched'
    PROVE  FinishingPauses'
<1> SUFFICES ASSUME NEW c \in Clients, client'[c].pc = "finishPause"
             PROVE  /\ status'[client'[c].run] = "PAUSING"
                    /\ worker'[client'[c].run] = NoWorker
  BY DEF FinishingPauses
<1> DEFINE r == client'[c].run
<1>1. \A d \in Clients : c = d
  <2>1. r \in unsettled'
    BY DEF SlotInv, SlotlessPausesAreUnsettled
  <2> QED BY <2>1 DEF PausesAlone, FaultsAreSwitched
<1>2. client'[c] # Idle
  BY DEF Idle
<1>3. CASE client'[c] = client[c]
  <2>1. /\ r \in Runs /\ ready
        /\ status[r] = "PAUSING" /\ worker[r] = NoWorker
    BY <1>2, <1>3 DEF TypeOK, Client, RunInv, FinishingPauses, SlotInv, NothingRunsBeforeRecovery
  <2>2. client' = client
    <3>1. client' \in [Clients -> Client]
      BY TypeNext DEF TypeOK
    <3> QED BY <1>1, <1>3, <3>1 DEF TypeOK
  <2>3. Waits(r)
    BY <2>1 DEF RunSteps, RunStep
  <2> QED BY <2>1, <2>2, <2>3 DEF Waits, Working
<1>4. CASE client'[c] # client[c]
  <2>1. /\ r \in Runs /\ status[r] \in Working /\ r \notin executing
        /\ status'[r] = "PAUSING" /\ worker' = worker
    BY <1>2, <1>4, ClientsMove
  <2> QED BY <2>1 DEF RunInv, SlotlessWorkIsOver
<1> QED BY <1>3, <1>4

\* The invariant of the runs is inductive where pauses are alone.
LEMMA RunInvNext ==
    ASSUME PausesAlone, TypeOK, SlotInv, RunInv, [Next]_vars
    PROVE  RunInv'
<1>1. RunSteps
  BY RunsStep
<1>2. SlotInv' /\ FaultsAreSwitched' /\ ActiveTurns'
  BY SlotNext, FaultsSwitchedNext, ActiveTurnsNext
<1>3. CleanRuns'
  <2> SUFFICES ASSUME NEW x \in Runs, status'[x] \in {"NEW", "QUEUED", "PAUSED"}
               PROVE  worker'[x] = NoWorker
    BY DEF CleanRuns
  <2>1. RunStep(x)
    BY <1>1 DEF RunSteps
  <2>2. status[x] \in {"NEW", "QUEUED", "PAUSED"} => worker[x] = NoWorker
    BY DEF RunInv, CleanRuns
  <2> QED BY <2>1, <2>2
          DEF RunStep, Stays, Pauses, Queues, Starts, Ends, Born, Repaired, Terminal, Working
<1>4. SlotlessWorkIsOver'
  BY <1>1 DEF RunSteps, RunStep, SlotlessWorkIsOver
<1>5. ClientsKnowRuns'
  <2> SUFFICES ASSUME NEW c \in Clients, client'[c] # Idle
               PROVE  status'[client'[c].run] # "NEW"
    BY DEF ClientsKnowRuns
  <2>1. \A x \in Runs : status'[x] = "NEW" => status[x] = "NEW"
    BY <1>1 DEF RunSteps, RunStep, Stays, Pauses, Queues, Starts, Ends, Born, Repaired,
                Terminal, Working
  <2>2. client'[c].run \in Runs /\ status[client'[c].run] # "NEW"
    BY ClientsMove DEF TypeOK, Client, RunInv, ClientsKnowRuns, Active, Working
  <2> QED BY <2>1, <2>2
<1>6. FinishingPauses'
  BY <1>1, <1>2, FinishingPausesNext
<1> QED BY <1>2, <1>3, <1>4, <1>5, <1>6 DEF RunInv

\* The runs keep to their invariant through every step, where pauses are alone.
LEMMA RunInvariant == ASSUME PausesAlone PROVE Spec => [](TypeOK /\ SlotInv /\ RunInv)
<1>1. Init => TypeOK /\ SlotInv /\ RunInv
  BY TypeInit, SlotInit, RunInvInit
<1>2. TypeOK /\ SlotInv /\ RunInv /\ [Next]_vars => (TypeOK /\ SlotInv /\ RunInv)'
  BY TypeNext, SlotNext, RunInvNext
<1> QED BY <1>1, <1>2, PTL DEF Spec

\* A run that may be given a new turn has nothing left of its last one: no
\* callback, interrupt or event of the old turn can be taken for the new one's.
THEOREM NextTurnsStartClean == ASSUME PausesAlone PROVE Spec => []NextTurnStartsClean
<1>1. RunInv => NextTurnStartsClean
  BY DEF RunInv, CleanRuns, NextTurnStartsClean
<1>2. Spec => [](TypeOK /\ SlotInv /\ RunInv)
  BY RunInvariant
<1> QED BY <1>1, <1>2, PTL

-----------------------------------------------------------------------------
(* One active run per task *)

\* A run becomes active only if it is created, or repaired after a failure.
LEMMA OneActiveNext ==
    ASSUME ~SequenceConflicts, RunSteps, OneActiveRunPerTask
    PROVE  OneActiveRunPerTask'
<1> SUFFICES ASSUME NEW r \in Runs, NEW s \in Runs, TaskOf[r] = TaskOf[s],
                    status'[r] \in Active, status'[s] \in Active
             PROVE  r = s
  BY DEF OneActiveRunPerTask
<1>1. \A x \in {r, s} : status[x] \in Active \/ Born(x)
  BY DEF RunSteps, RunStep, Stays, Pauses, Queues, Starts, Ends, Repaired,
         Active, Working, Terminal
<1>2. CASE Born(r) \/ Born(s)
  BY <1>2 DEF Born
<1>3. CASE status[r] \in Active /\ status[s] \in Active
  BY <1>3 DEF OneActiveRunPerTask
<1> QED BY <1>1, <1>2, <1>3

\* A task has at most one active run, whatever pauses, cancels, crashes and
\* next turns come between (a repaired sequence conflict apart, which recovery
\* makes PAUSED without asking whether the task has moved on).
THEOREM TasksHaveOneActiveRun ==
    ASSUME PausesAlone, ~SequenceConflicts PROVE Spec => []OneActiveRunPerTask
<1>1. Init => OneActiveRunPerTask
  BY DEF Init, OneActiveRunPerTask, Active, Working
<1>2. TypeOK /\ SlotInv /\ RunInv /\ OneActiveRunPerTask /\ [Next]_vars => OneActiveRunPerTask'
  BY RunsStep, OneActiveNext
<1>3. Spec => [](TypeOK /\ SlotInv /\ RunInv)
  BY RunInvariant
<1> QED BY <1>1, <1>2, <1>3, PTL DEF Spec

-----------------------------------------------------------------------------
(* The life cycle *)

\* A run that works has a slot, or its process has ended; nothing else forgets.
BoundedWork == Cardinality({r \in Runs : status[r] \in Working}) <= MaxConcurrentRuns

\* Until recovery no status moves.
LEMMA NothingMovesBeforeRecovery ==
    ASSUME TypeOK, SlotInv, [Next]_vars, ~ready'
    PROVE  status' = status
<1>1. CASE Crash
  BY <1>1 DEF Crash, durable
<1>2. CASE Recover
  BY <1>2 DEF Recover
<1>3. CASE Request
  BY <1>3 DEF Request
<1>4. ASSUME NEW c \in Clients, ClientStep(c) PROVE FALSE
  <2>1. client[c].pc # "idle" /\ ~ready
    BY <1>4 DEF ClientStep, PauseForward, PauseRollback, PauseFinish, CancelKill,
           CancelAwait, CancelSettle, CancelThrows
  <2> QED BY <2>1, UnderWay
<1>5. ASSUME NEW r \in Runs, Converge(r) \/ Elsewhere(r) PROVE status' = status
  <2>1. ~ready
    BY <1>5 DEF Converge, Elsewhere
  <2>2. worker[r].stage = "none"
    BY <2>1, UnderWay
  <2> QED BY <1>5, <2>2 DEF Converge, Elsewhere, StartRuntime, ClaimSteers, OnSteerClaimed,
              TurnEnds, OnTerminalEvent, WorkerFinally, WorkerKilled, OnApprovalRequested,
              OnApprovalResolved, SteersExpire, Complete, Fail, SettleThrows
<1>6. CASE UNCHANGED vars
  BY <1>6 DEF vars
<1> QED BY <1>1, <1>2, <1>3, <1>4, <1>5, <1>6 DEF Next

\* The runs at work are bounded where no settlement fails: through their slots while
\* the process lives, and by what it left until recovery.
LEMMA BoundedWorkNext ==
    ASSUME ~Faults, TypeOK, SlotInv, RunInv, [Next]_vars, BoundedWork
    PROVE  BoundedWork'
<1>1. CASE ready'
  <2>1. TypeOK' /\ SlotInv' /\ FaultsAreSwitched'
    BY TypeNext, SlotNext, FaultsSwitchedNext
  <2>2. {r \in Runs : status'[r] \in Working} \subseteq executing'
    BY <1>1, <2>1 DEF FaultsAreSwitched, SlotInv, WorkingRunsHoldSlots
  <2>3. IsFiniteSet(executing') /\ Cardinality(executing') <= MaxConcurrentRuns
    BY <2>1, FiniteAssumption, FS_Subset DEF TypeOK, SlotInv, SlotBound
  <2>4. /\ Cardinality({r \in Runs : status'[r] \in Working}) <= Cardinality(executing')
        /\ Cardinality({r \in Runs : status'[r] \in Working}) \in Nat
        /\ Cardinality(executing') \in Nat
    BY <2>2, <2>3, FS_Subset, FS_CardinalityType
  <2> QED BY <2>3, <2>4, MaxConcurrentRunsAssumption DEF BoundedWork
<1>2. CASE ~ready'
  BY <1>2, NothingMovesBeforeRecovery DEF BoundedWork
<1> QED BY <1>1, <1>2

\* What a run is to the life cycle follows from its status.
LEMMA PhaseOf ==
    /\ phase = [r \in Runs |-> phase[r]]
    /\ \A r \in Runs : /\ status[r] = "NEW" <=> phase[r] = "new"
                       /\ status[r] = "QUEUED" <=> phase[r] = "waiting"
                       /\ status[r] \in Working <=> phase[r] = "active"
                       /\ status[r] = "PAUSED" <=> phase[r] = "paused"
                       /\ status[r] \in Active <=> Lifecycle!Live(r)
                       /\ phase[r] \in Lifecycle!Phases
BY DEF phase, Working, Active, Lifecycle!Live, Lifecycle!Phases

\* How a run moves is how the life cycle lets it.
LEMMA RunsFollowMoves ==
    ASSUME ~SequenceConflicts, TypeOK, TypeOK', RunSteps, NEW r \in Runs, phase'[r] # phase[r]
    PROVE  <<phase[r], phase'[r]>> \in Lifecycle!Moves
<1>1. \A x \in Terminal : x \notin Active /\ x # "NEW"
  BY DEF Terminal, Active, Working
<1>2. status[r] \in Terminal <=> phase[r] = "done"
  BY DEF TypeOK, phase, Status, Active, Working, Terminal
<1>3. status'[r] \in Terminal <=> phase'[r] = "done"
  BY DEF TypeOK, phase, Status, Active, Working, Terminal
<1>4. RunStep(r)
  BY DEF RunSteps
<1>5. /\ status[r] = "NEW" <=> phase[r] = "new"
      /\ status[r] = "QUEUED" <=> phase[r] = "waiting"
      /\ status[r] \in Working <=> phase[r] = "active"
      /\ status[r] = "PAUSED" <=> phase[r] = "paused"
  BY PhaseOf
<1>6. /\ status'[r] = "QUEUED" <=> phase'[r] = "waiting"
      /\ status'[r] \in Working <=> phase'[r] = "active"
      /\ status'[r] = "PAUSED" <=> phase'[r] = "paused"
  BY DEF phase, Working
<1>7. CASE Stays(r) \/ Pauses(r) \/ Queues(r)
  BY <1>1, <1>5, <1>6, <1>7 DEF Stays, Pauses, Queues, Lifecycle!Moves, phase
<1>8. CASE Starts(r)
  BY <1>5, <1>6, <1>8 DEF Starts, Lifecycle!Moves, Working
<1>9. CASE Ends(r)
  <2>1. phase'[r] = "done" /\ phase[r] # "done"
    BY <1>3, <1>9 DEF Ends
  <2>2. phase[r] \in {"waiting", "active", "paused"}
    BY <1>2, <1>5, <1>9, <2>1 DEF Ends, TypeOK, Status, Active
  <2> QED BY <2>1, <2>2 DEF Lifecycle!Moves
<1>10. CASE Born(r)
  BY <1>3, <1>5, <1>6, <1>10 DEF Born, Lifecycle!Moves, Working, Terminal
<1> QED BY <1>4, <1>7, <1>8, <1>9, <1>10 DEF RunStep, Repaired

\* The cardinality the life cycle speaks of is the same operator.
LEMMA SameCardinality == \A S : Lifecycle!Cardinality(S) = Cardinality(S)
BY DEF Cardinality, Lifecycle!Cardinality

\* Every step of the coordinator is one of the life cycle's, or none.
LEMMA LifecycleNext ==
    ASSUME ~Faults, ~SequenceConflicts, TypeOK, SlotInv, RunInv, OneActiveRunPerTask,
           BoundedWork, [Next]_vars
    PROVE  Lifecycle!Next
<1>1. RunSteps /\ TypeOK'
  BY RunsStep, TypeNext
<1>2. OneActiveRunPerTask' /\ BoundedWork'
  BY <1>1, OneActiveNext, BoundedWorkNext
<1>3. phase' \in [Runs -> Lifecycle!Phases]
  BY DEF phase, Lifecycle!Phases
<1>4. \A r \in Runs : phase'[r] # phase[r] => <<phase[r], phase'[r]>> \in Lifecycle!Moves
  BY <1>1, RunsFollowMoves
<1>5. \A r \in Runs : /\ status'[r] \in Active <=> Lifecycle!Live(r)'
                      /\ status'[r] \in Working <=> phase'[r] = "active"
  BY DEF phase, Working, Active, Lifecycle!Live
<1>6. Lifecycle!OneLiveRunPerTask'
  BY <1>2, <1>5 DEF OneActiveRunPerTask, Lifecycle!OneLiveRunPerTask
<1>7. Lifecycle!BoundedWork'
  <2>1. {r \in Runs : phase'[r] = "active"} = {r \in Runs : status'[r] \in Working}
    BY <1>5
  <2> QED BY <1>2, <2>1, SameCardinality DEF BoundedWork, Lifecycle!BoundedWork
<1> QED BY <1>3, <1>4, <1>6, <1>7 DEF Lifecycle!Next

\* The coordinator implements the life cycle where no fault cuts a settlement short:
\* a run that ended stays ended, one at work is paused before it waits again,
\* and no more runs work than there are slots, not even after a crash.
THEOREM CoordinatorKeepsLifecycle ==
    ASSUME ~Faults, ~SequenceConflicts PROVE Spec => LifecycleSpec
<1>0. PausesAlone
  BY DEF PausesAlone
<1>1. Init => BoundedWork /\ OneActiveRunPerTask /\ Lifecycle!Init
  <2> SUFFICES ASSUME Init PROVE BoundedWork /\ OneActiveRunPerTask /\ Lifecycle!Init
    OBVIOUS
  <2>1. {r \in Runs : status[r] \in Working} = {}
    BY DEF Init, Working
  <2>2. BoundedWork
    BY <2>1, FS_EmptySet, MaxConcurrentRunsAssumption DEF BoundedWork
  <2> QED BY <2>2 DEF Init, OneActiveRunPerTask, Active, Working, phase, Lifecycle!Init
<1>2. /\ TypeOK /\ SlotInv /\ RunInv /\ OneActiveRunPerTask /\ BoundedWork /\ [Next]_vars
      => OneActiveRunPerTask' /\ BoundedWork' /\ [Lifecycle!Next]_phase
  BY RunsStep, OneActiveNext, BoundedWorkNext, LifecycleNext
<1>3. Spec => [](TypeOK /\ SlotInv /\ RunInv)
  BY <1>0, RunInvariant
<1> QED BY <1>1, <1>2, <1>3, PTL DEF Spec, LifecycleSpec, Lifecycle!Spec

-----------------------------------------------------------------------------
(* Queues without duplicates *)

\* The queue enqueueNextTurn appends the created runs to.
LEMMA AppendedQueue ==
    ASSUME NEW q \in Seq(Runs), IsInjective(q), NEW S \in SUBSET Runs,
           NEW new \in SetToSeqs(S), S \cap Range(q) = {}
    PROVE  /\ q \o new \in Seq(Runs)
           /\ IsInjective(q \o new)
           /\ Range(q \o new) = Range(q) \cup S
<1> DEFINE n == Cardinality(S)
<1>1. IsFiniteSet(S) /\ n \in Nat
  BY FiniteAssumption, FS_Subset, FS_CardinalityType
<1>2. new \in [1..n -> S] /\ \A j, k \in 1..n : j # k => new[j] # new[k]
  BY DEF SetToSeqs
<1>3. \A x \in S : \E j \in 1..n : new[j] = x
  <2>1. new \in Injection(1..n, S)
    BY <1>2 DEF Injection, IsInjective
  <2>2. Cardinality(1..n) = n
    BY <1>1, FS_Interval
  <2>3. new \in Surjection(1..n, S)
    BY <1>1, <2>1, <2>2, FS_Injection
  <2> QED BY <2>3 DEF Surjection
<1> HIDE DEF n
<1>4. new \in Seq(Runs) /\ Len(new) = n
  <2>1. new \in [1..n -> Runs]
    BY <1>2
  <2> QED BY <1>1, <2>1, NewIsSeq, LenProperties
<1>5. /\ q \o new \in Seq(Runs)
      /\ Len(q) \in Nat /\ DOMAIN q = 1..Len(q)
      /\ DOMAIN (q \o new) = 1..Len(q) + n
      /\ \A i \in 1..Len(q) + n : (q \o new)[i] = IF i <= Len(q) THEN q[i] ELSE new[i - Len(q)]
  <2>1. /\ q \o new \in Seq(Runs)
        /\ Len(q \o new) = Len(q) + n
        /\ \A i \in 1..Len(q) + n :
              (q \o new)[i] = IF i <= Len(q) THEN q[i] ELSE new[i - Len(q)]
    BY <1>4, ConcatProperties
  <2>2. Len(q) \in Nat /\ DOMAIN q = 1..Len(q)
    BY LenProperties
  <2>3. DOMAIN (q \o new) = 1..Len(q \o new)
    BY <2>1, LenProperties
  <2> QED BY <2>1, <2>2, <2>3
<1>6. IsInjective(q \o new)
  <2> SUFFICES ASSUME NEW j \in 1..Len(q) + n, NEW k \in 1..Len(q) + n,
                      (q \o new)[j] = (q \o new)[k]
               PROVE  j = k
    BY <1>5 DEF IsInjective
  <2>1. CASE j <= Len(q) /\ k <= Len(q)
    BY <1>1, <1>5, <2>1 DEF IsInjective
  <2>2. CASE j > Len(q) /\ k > Len(q)
    BY <1>1, <1>2, <1>5, <2>2
  <2>3. \A a \in 1..Len(q), b \in 1..n : q[a] # new[b]
    BY <1>2, <1>5 DEF Range
  <2>4. ASSUME NEW a \in 1..Len(q) + n, NEW b \in 1..Len(q) + n, a <= Len(q), b > Len(q)
        PROVE  (q \o new)[a] # (q \o new)[b]
    BY <1>1, <1>5, <2>3, <2>4
  <2> QED BY <1>1, <1>5, <2>1, <2>2, <2>4
<1>7. Range(q \o new) = Range(q) \cup S
  <2>1. \A i \in 1..Len(q) + n : (q \o new)[i] \in Range(q) \cup S
    BY <1>1, <1>2, <1>5 DEF Range
  <2>2. \A i \in 1..Len(q) : i \in 1..Len(q) + n /\ (q \o new)[i] = q[i]
    BY <1>1, <1>5
  <2>3. \A j \in 1..n : Len(q) + j \in 1..Len(q) + n /\ (q \o new)[Len(q) + j] = new[j]
    BY <1>1, <1>5
  <2>4. Range(q \o new) \subseteq Range(q) \cup S
    BY <1>5, <2>1 DEF Range
  <2>5. Range(q) \subseteq Range(q \o new)
    BY <1>5, <2>2 DEF Range
  <2>6. S \subseteq Range(q \o new)
    BY <1>3, <1>5, <2>3 DEF Range
  <2> QED BY <2>4, <2>5, <2>6
<1> QED BY <1>5, <1>6, <1>7

\* queuedRunIds.add, where the run is not there yet.
LEMMA EnqueuedQueue ==
    ASSUME NEW q \in Seq(Runs), IsInjective(q), NEW r \in Runs
    PROVE  /\ IsInjective(Enqueue(q, r))
           /\ Range(Enqueue(q, r)) = Range(q) \cup {r}
<1>1. CASE r \in Range(q)
  BY <1>1 DEF Enqueue
<1>2. CASE r \notin Range(q)
  <2>1. Enqueue(q, r) = Append(q, r)
    BY <1>2 DEF Enqueue
  <2>2. /\ Append(q, r) \in Seq(Runs)
        /\ Len(q) \in Nat /\ DOMAIN q = 1..Len(q)
        /\ DOMAIN Append(q, r) = 1..Len(q) + 1
        /\ \A i \in 1..Len(q) : Append(q, r)[i] = q[i]
        /\ Append(q, r)[Len(q) + 1] = r
    BY AppendProperties, LenProperties
  <2>3. \A i \in 1..Len(q) : q[i] # r
    BY <1>2, <2>2 DEF Range
  <2>4. \A i \in 1..Len(q) + 1 : i \in 1..Len(q) \/ i = Len(q) + 1
    BY <2>2
  <2>5. IsInjective(Append(q, r))
    BY <2>2, <2>3, <2>4 DEF IsInjective
  <2>6. Range(Append(q, r)) = Range(q) \cup {r}
    BY <2>2, <2>4 DEF Range
  <2> QED BY <2>1, <2>5, <2>6
<1> QED BY <1>1, <1>2

\* queuedRunIds.remove.
LEMMA DequeuedQueue ==
    ASSUME NEW q \in Seq(Runs), IsInjective(q), NEW r
    PROVE  /\ IsInjective(Dequeue(q, r))
           /\ Range(Dequeue(q, r)) = Range(q) \ {r}
<1>1. CASE r \notin Range(q)
  BY <1>1 DEF Dequeue
<1>2. CASE r \in Range(q)
  <2> DEFINE k == CHOOSE j \in DOMAIN q : q[j] = r
             n == Len(q)
             front == SubSeq(q, 1, k - 1)
             back == SubSeq(q, k + 1, n)
  <2>1. k \in DOMAIN q /\ q[k] = r
    BY <1>2 DEF Range
  <2>2. /\ k \in 1..n /\ n \in Nat /\ DOMAIN q = 1..n
        /\ \A i \in 1..n : q[i] \in Runs
    BY <2>1, LenProperties
  <2>3. Dequeue(q, r) = front \o back
    BY <1>2 DEF Dequeue, RemoveAt
  <2> HIDE DEF k, n
  <2>4. /\ front \in Seq(Runs) /\ Len(front) = k - 1
        /\ \A i \in 1..(k - 1) : front[i] = q[i]
    <3>1. 1 \in Int /\ k - 1 \in Int /\ \A i \in 1..(k - 1) : q[i] \in Runs
      BY <2>2
    <3>2. /\ front \in Seq(Runs)
          /\ Len(front) = IF 1 <= k - 1 THEN k - 1 - 1 + 1 ELSE 0
          /\ \A i \in 1..(k - 1 - 1 + 1) : front[i] = q[1 + i - 1]
      BY <3>1, SubSeqProperties
    <3> QED BY <2>2, <3>2
  <2>5. /\ back \in Seq(Runs) /\ Len(back) = n - k
        /\ \A i \in 1..(n - k) : back[i] = q[k + i]
    <3>1. k + 1 \in Int /\ n \in Int /\ \A i \in (k + 1)..n : q[i] \in Runs
      BY <2>2
    <3>2. /\ back \in Seq(Runs)
          /\ Len(back) = IF k + 1 <= n THEN n - (k + 1) + 1 ELSE 0
          /\ \A i \in 1..(n - (k + 1) + 1) : back[i] = q[k + 1 + i - 1]
      BY <3>1, SubSeqProperties
    <3> QED BY <2>2, <3>2
  <2> HIDE DEF front, back
  <2>6. /\ DOMAIN (front \o back) = 1..(n - 1)
        /\ \A i \in 1..(n - 1) : (front \o back)[i] = IF i <= k - 1 THEN q[i] ELSE q[i + 1]
    <3>1. /\ front \o back \in Seq(Runs)
          /\ Len(front \o back) = Len(front) + Len(back)
          /\ \A i \in 1..Len(front) + Len(back) :
                (front \o back)[i] = IF i <= Len(front) THEN front[i] ELSE back[i - Len(front)]
      BY <2>4, <2>5, ConcatProperties
    <3>2. DOMAIN (front \o back) = 1..(n - 1)
      BY <2>2, <2>4, <2>5, <3>1, LenProperties
    <3>3. ASSUME NEW i \in 1..(n - 1)
          PROVE  (front \o back)[i] = IF i <= k - 1 THEN q[i] ELSE q[i + 1]
      <4>1. CASE i <= k - 1
        BY <2>2, <2>4, <2>5, <3>1, <4>1
      <4>2. CASE i > k - 1
        <5>1. i - (k - 1) \in 1..(n - k) /\ k + (i - (k - 1)) = i + 1
          BY <2>2, <4>2
        <5>2. (front \o back)[i] = back[i - (k - 1)]
          BY <2>2, <2>4, <2>5, <3>1, <4>2
        <5>3. back[i - (k - 1)] = q[i + 1]
          BY <2>5, <5>1
        <5>4. ~(i <= k - 1)
          BY <2>2, <4>2
        <5> QED BY <5>2, <5>3, <5>4
      <4>3. i <= k - 1 \/ i > k - 1
        BY <2>2
      <4> QED BY <4>1, <4>2, <4>3
    <3> QED BY <3>2, <3>3
  <2>7. IsInjective(front \o back)
    <3> SUFFICES ASSUME NEW i \in 1..(n - 1), NEW j \in 1..(n - 1),
                        (front \o back)[i] = (front \o back)[j]
                 PROVE  i = j
      BY <2>6 DEF IsInjective
    <3>1. \A a, b \in 1..n : q[a] = q[b] => a = b
      BY <2>2 DEF IsInjective
    <3>2. i \in 1..n /\ i + 1 \in 1..n /\ j \in 1..n /\ j + 1 \in 1..n
      BY <2>2
    <3> QED BY <2>2, <2>6, <3>1, <3>2
  <2>8. Range(front \o back) = Range(q) \ {r}
    <3>1. \A a, b \in 1..n : q[a] = q[b] => a = b
      BY <2>2 DEF IsInjective
    <3>2. ASSUME NEW i \in 1..(n - 1) PROVE (front \o back)[i] \in Range(q) \ {r}
      <4>1. i \in 1..n /\ i + 1 \in 1..n
        BY <2>2
      <4>2. PICK a \in {i, i + 1} : (front \o back)[i] = q[a] /\ a # k
        BY <2>2, <2>6, <4>1
      <4> QED BY <2>1, <2>2, <3>1, <4>1, <4>2 DEF Range
    <3>3. ASSUME NEW a \in 1..n, q[a] # r PROVE q[a] \in Range(front \o back)
      <4>1. a # k
        BY <2>1, <3>3
      <4>2. PICK i \in 1..(n - 1) : (front \o back)[i] = q[a]
        <5>1. CASE a <= k - 1
          <6>1. a \in 1..(n - 1)
            BY <2>2, <5>1
          <6> QED BY <2>6, <5>1, <6>1
        <5>2. CASE a > k
          <6>1. a - 1 \in 1..(n - 1) /\ ~(a - 1 <= k - 1) /\ a - 1 + 1 = a
            BY <2>2, <5>2
          <6> QED BY <2>6, <6>1
        <5>3. a <= k - 1 \/ a > k
          BY <2>2, <4>1
        <5> QED BY <5>1, <5>2, <5>3
      <4> QED BY <2>6, <4>2 DEF Range
    <3> QED BY <2>2, <2>6, <3>2, <3>3 DEF Range
  <2> QED BY <2>3, <2>7, <2>8
<1> QED BY <1>1, <1>2

\* drainQueue takes runs from the head: each is started or fails, unless it was not
\* QUEUED any more; those that stay in the queue are as they were.
LEMMA DrainedQueue ==
    ASSUME NEW st \in [Runs -> Status], NEW q \in Seq(Runs), IsInjective(q),
           NEW ex, NEW wk, NEW inp, DrainQueue(st, q, ex, wk, inp)
    PROVE  /\ IsInjective(queue')
           /\ \A r \in Range(queue') : r \in Range(q) /\ status'[r] = st[r]
           /\ \A r \in Runs : status'[r] = "QUEUED" =>
                  st[r] = "QUEUED" /\ (r \in Range(q) => r \in Range(queue'))
<1>1. PICK n \in 0..Len(q), bad \in SUBSET {r \in Range(q) : st[r] = "QUEUED"} :
         /\ PopsThrough(n, st, q, ex, bad)
         /\ queue' = SubSeq(q, n + 1, Len(q))
         /\ status' = [r \in Runs |-> IF r \in Started(st, q, bad, n) THEN "RUNNING"
                                      ELSE IF r \in bad THEN "FAILED" ELSE st[r]]
  BY DEF DrainQueue
<1> DEFINE m == Len(q)
           popped == {q[j] : j \in 1..n}
<1>2. /\ m \in Nat /\ n \in Nat /\ n <= m /\ DOMAIN q = 1..m
      /\ \A i \in 1..m : q[i] \in Runs
      /\ \A a, b \in 1..m : q[a] = q[b] => a = b
  BY <1>1, LenProperties DEF IsInjective
<1> HIDE DEF m
<1>3. /\ DOMAIN queue' = 1..(m - n)
      /\ \A i \in 1..(m - n) : queue'[i] = q[n + i]
  <2>1. n + 1 \in Int /\ m \in Int /\ \A i \in (n + 1)..m : q[i] \in Runs
    BY <1>2
  <2>2. queue' = SubSeq(q, n + 1, m)
    BY <1>1 DEF m
  <2>3. /\ queue' \in Seq(Runs)
        /\ Len(queue') = IF n + 1 <= m THEN m - (n + 1) + 1 ELSE 0
        /\ \A i \in 1..(m - (n + 1) + 1) : queue'[i] = q[n + 1 + i - 1]
    BY <2>1, <2>2, SubSeqProperties
  <2>4. /\ Len(queue') = m - n /\ m - (n + 1) + 1 = m - n
        /\ \A i \in 1..(m - n) : n + 1 + i - 1 = n + i
    BY <1>2, <2>3
  <2>5. DOMAIN queue' = 1..Len(queue')
    BY <2>3, LenProperties
  <2> QED BY <2>3, <2>4, <2>5
<1>4. /\ bad \subseteq popped
      /\ Started(st, q, bad, n) = {r \in popped \ bad : st[r] = "QUEUED"}
  BY <1>1 DEF PopsThrough, Started
<1>5. \A i \in 1..(m - n) : n + i \in 1..m /\ q[n + i] \notin popped
  <2>1. \A i \in 1..(m - n) : n + i \in 1..m
    BY <1>2
  <2>2. ASSUME NEW i \in 1..(m - n), NEW j \in 1..n PROVE q[n + i] # q[j]
    <3>1. j \in 1..m /\ j # n + i
      BY <1>2
    <3> QED BY <1>2, <2>1, <3>1
  <2> QED BY <2>1, <2>2
<1> HIDE DEF popped
<1>6. IsInjective(queue')
  <2> SUFFICES ASSUME NEW i \in 1..(m - n), NEW j \in 1..(m - n), queue'[i] = queue'[j]
               PROVE  i = j
    BY <1>3 DEF IsInjective
  <2>1. n + i \in 1..m /\ n + j \in 1..m
    BY <1>2
  <2> QED BY <1>2, <1>3, <2>1
<1>7. ASSUME NEW r \in Range(queue') PROVE r \in Range(q) /\ status'[r] = st[r]
  <2>1. PICK i \in 1..(m - n) : r = q[n + i]
    BY <1>3, <1>7 DEF Range
  <2>2. n + i \in 1..m /\ r \notin popped
    BY <1>5, <2>1
  <2>3. r \in Range(q) /\ r \in Runs
    BY <1>2, <2>1, <2>2 DEF Range
  <2> QED BY <1>1, <1>4, <2>2, <2>3
<1>8. ASSUME NEW r \in Runs, status'[r] = "QUEUED"
      PROVE  st[r] = "QUEUED" /\ (r \in Range(q) => r \in Range(queue'))
  <2>1. st[r] = "QUEUED" /\ r \notin popped
    BY <1>1, <1>4, <1>8
  <2>2. ASSUME NEW a \in 1..m, r = q[a] PROVE r \in Range(queue')
    <3>1. a \notin 1..n
      BY <2>1, <2>2 DEF popped
    <3>2. a - n \in 1..(m - n) /\ n + (a - n) = a
      BY <1>2, <3>1
    <3> QED BY <1>3, <2>2, <3>2 DEF Range
  <2> QED BY <1>2, <2>1, <2>2 DEF Range
<1> QED BY <1>6, <1>7, <1>8

-----------------------------------------------------------------------------
(* The inductive invariant *)

CancelUnderWay(r) ==
    \E c \in Clients : client[c].run = r /\ client[c].pc \in {"kill", "await", "cancel"}

\* A queued run out of the queue: its cancel took it out, or failed to end it.
Excused(r) == r \in unsettled \/ CancelUnderWay(r)

QueueInv ==
    /\ ~ready => queue = <<>>
    /\ IsInjective(queue)
    /\ \A r \in Range(queue) : status[r] \in {"QUEUED", "CANCELLED"}
    /\ ready => \A r \in Runs : status[r] = "QUEUED" /\ r \notin Range(queue) => Excused(r)

\* The empty queue has nothing in it, twice or otherwise.
LEMMA EmptyQueue == IsInjective(<<>>) /\ Range(<<>>) = {}
BY DEF IsInjective, Range

\* The process starts with an empty queue and no run.
LEMMA QueueInit == Init => QueueInv
BY EmptyQueue DEF Init, QueueInv

\* Steps that leave the queue alone and put no run into QUEUED or out of it, but
\* for cancelled ones.
LEMMA QueueKept ==
    ASSUME QueueInv, UNCHANGED <<queue, ready>>, TypeOK,
           \A r \in Runs : status[r] \in {"QUEUED", "CANCELLED"} => status'[r] \in {status[r], "CANCELLED"},
           \A r \in Runs : status'[r] = "QUEUED" => status[r] = "QUEUED",
           \A r \in Runs : Excused(r) => Excused(r)' \/ status'[r] # "QUEUED"
    PROVE  QueueInv'
<1>1. Range(queue) \subseteq Runs
  BY StartedRuns DEF TypeOK
<1>2. /\ \A r \in Range(queue) : status[r] \in {"QUEUED", "CANCELLED"}
      /\ ready => \A r \in Runs : status[r] = "QUEUED" /\ r \notin Range(queue) => Excused(r)
      /\ IsInjective(queue) /\ (~ready => queue = <<>>)
  BY DEF QueueInv
<1>3. \A r \in Range(queue) : status'[r] \in {"QUEUED", "CANCELLED"}
  BY <1>1, <1>2
<1>4. ready => \A r \in Runs : status'[r] = "QUEUED" /\ r \notin Range(queue) => Excused(r)'
  BY <1>2
<1> QED BY <1>2, <1>3, <1>4 DEF QueueInv

\* Steps that end in drainQueue, from a queue and statuses that fit each other.
LEMMA QueueDrained ==
    ASSUME TypeOK, ready', NEW st \in [Runs -> Status], NEW q \in Seq(Runs), IsInjective(q),
           NEW ex, NEW wk, NEW inp, DrainQueue(st, q, ex, wk, inp),
           \A r \in Range(q) : st[r] \in {"QUEUED", "CANCELLED"},
           \A r \in Runs : st[r] = "QUEUED" /\ r \notin Range(q) => Excused(r)'
    PROVE  QueueInv'
<1>1. /\ IsInjective(queue')
      /\ \A r \in Range(queue') : r \in Range(q) /\ status'[r] = st[r]
      /\ \A r \in Runs : status'[r] = "QUEUED" =>
             st[r] = "QUEUED" /\ (r \in Range(q) => r \in Range(queue'))
  BY DrainedQueue
<1>2. \A r \in Range(queue') : status'[r] \in {"QUEUED", "CANCELLED"}
  BY <1>1
<1>3. \A r \in Runs : status'[r] = "QUEUED" /\ r \notin Range(queue') => Excused(r)'
  BY <1>1
<1> QED BY <1>1, <1>2, <1>3 DEF QueueInv

\* enqueueNextTurn queues the runs it creates.
LEMMA QueueNextTurn ==
    ASSUME TypeOK, ready', IsInjective(queue), NEW ts \in SUBSET Tasks,
           NEW st \in [Runs -> Status], NEW inp \in [Inputs -> Input], NEW ex, NEW wk,
           \A r \in Range(queue) : st[r] \in {"QUEUED", "CANCELLED"},
           \A r \in Runs : st[r] = "QUEUED" /\ r \notin Range(queue) => Excused(r)',
           \E pick \in NextTurns(ts, st, inp) :
           \E new \in SetToSeqs(Created(pick, st)) :
              DrainQueue(WithCreated(pick, st), queue \o new, ex, wk, WithTaken(pick, st, inp))
    PROVE  QueueInv'
<1>1. PICK pick \in NextTurns(ts, st, inp) :
      \E new \in SetToSeqs(Created(pick, st)) :
        DrainQueue(WithCreated(pick, st), queue \o new, ex, wk, WithTaken(pick, st, inp))
  OBVIOUS
<1>2. PICK new \in SetToSeqs(Created(pick, st)) :
        DrainQueue(WithCreated(pick, st), queue \o new, ex, wk, WithTaken(pick, st, inp))
  BY <1>1
<1> DEFINE S == Created(pick, st)
           cr == WithCreated(pick, st)
<1>3. /\ S \subseteq {r \in Runs : st[r] = "NEW"}
      /\ cr \in [Runs -> Status]
  BY NextTurnsCreate, NextTurnAndDrainType DEF TypeOK
<1>4. \A r \in Runs : cr[r] = IF r \in S THEN "QUEUED" ELSE st[r]
  BY DEF WithCreated
<1>5. new \in SetToSeqs(S) /\ DrainQueue(cr, queue \o new, ex, wk, WithTaken(pick, st, inp))
  BY <1>2
<1>6. queue \in Seq(Runs) /\ Range(queue) \subseteq Runs
  BY StartedRuns DEF TypeOK
<1> HIDE DEF S, cr
<1>7. S \in SUBSET Runs /\ S \cap Range(queue) = {}
  BY <1>3
<1>8. /\ queue \o new \in Seq(Runs) /\ IsInjective(queue \o new)
      /\ Range(queue \o new) = Range(queue) \cup S
  BY <1>5, <1>6, <1>7, AppendedQueue
<1>9. \A r \in Range(queue \o new) : cr[r] \in {"QUEUED", "CANCELLED"}
  BY <1>4, <1>6, <1>7, <1>8
<1>10. \A r \in Runs : cr[r] = "QUEUED" /\ r \notin Range(queue \o new) => Excused(r)'
  BY <1>4, <1>8
<1> QED BY <1>3, <1>5, <1>8, <1>9, <1>10, QueueDrained

\* What the invariant says of the queue and of the runs out of it, and what stays
\* excused.
LEMMA QueueHas ==
    ASSUME TypeOK, QueueInv
    PROVE  /\ queue \in Seq(Runs) /\ Range(queue) \subseteq Runs /\ IsInjective(queue)
           /\ \A r \in Range(queue) : status[r] \in {"QUEUED", "CANCELLED"}
           /\ ready => \A r \in Runs : status[r] = "QUEUED" /\ r \notin Range(queue) => Excused(r)
           /\ unsettled \subseteq unsettled' /\ client' = client
              => \A r \in Runs : Excused(r) => Excused(r)'
<1>1. queue \in Seq(Runs) /\ Range(queue) \subseteq Runs
  BY StartedRuns DEF TypeOK
<1> QED BY <1>1 DEF QueueInv, Excused, CancelUnderWay

\* A run put into the queue.
LEMMA QueueQueued ==
    ASSUME TypeOK, QueueInv, ready, ready' = ready, NEW r \in Runs,
           UNCHANGED <<client, unsettled>>,
           DrainQueue([status EXCEPT ![r] = "QUEUED"], Enqueue(queue, r),
                      executing, worker, input)
    PROVE  QueueInv'
<1> DEFINE st == [status EXCEPT ![r] = "QUEUED"]
           q == Enqueue(queue, r)
<1>1. /\ queue \in Seq(Runs) /\ Range(queue) \subseteq Runs /\ IsInjective(queue)
      /\ \A x \in Range(queue) : status[x] \in {"QUEUED", "CANCELLED"}
      /\ \A x \in Runs : status[x] = "QUEUED" /\ x \notin Range(queue) => Excused(x)
      /\ \A x \in Runs : Excused(x) => Excused(x)'
  BY QueueHas
<1>2. q \in Seq(Runs) /\ IsInjective(q) /\ Range(q) = Range(queue) \cup {r}
  BY <1>1, EnqueueType, EnqueuedQueue
<1>3. /\ st \in [Runs -> Status]
      /\ st[r] = "QUEUED" /\ \A x \in Runs \ {r} : st[x] = status[x]
  BY DEF TypeOK, Status, Active
<1>4. DrainQueue(st, q, executing, worker, input)
  OBVIOUS
<1> HIDE DEF st, q
<1>5. \A x \in Range(q) : st[x] \in {"QUEUED", "CANCELLED"}
  BY <1>1, <1>2, <1>3
<1>6. \A x \in Runs : st[x] = "QUEUED" /\ x \notin Range(q) => Excused(x)'
  BY <1>1, <1>2, <1>3
<1> QED BY <1>2, <1>3, <1>4, <1>5, <1>6, QueueDrained

\* The requests of the Desktop.
LEMMA QueueRequest == TypeOK /\ QueueInv /\ Request => QueueInv'
<1> SUFFICES ASSUME TypeOK, QueueInv, Request PROVE QueueInv'
  OBVIOUS
<1>0. ready /\ ready' = ready
  BY DEF Request
<1>1. /\ queue \in Seq(Runs) /\ Range(queue) \subseteq Runs /\ IsInjective(queue)
      /\ \A x \in Range(queue) : status[x] \in {"QUEUED", "CANCELLED"}
      /\ \A x \in Runs : status[x] = "QUEUED" /\ x \notin Range(queue) => Excused(x)
      /\ unsettled \subseteq unsettled' /\ client' = client
         => \A x \in Runs : Excused(x) => Excused(x)'
  BY <1>0, QueueHas
<1>2. ASSUME NEW t \in Tasks, StartMessage(t) PROVE QueueInv'
  BY <1>0, <1>2, StartMessageIsFresh, QueueQueued DEF StartMessage
<1>3. ASSUME NEW r \in Runs, Resume(r) PROVE QueueInv'
  BY <1>0, <1>3, QueueQueued DEF Resume
<1>4. ASSUME InputsOnly PROVE QueueInv'
  BY <1>0, <1>1, <1>4, QueueKept DEF InputsOnly
<1>5. ASSUME NEW i \in Inputs, EnqueueNextTurnInput(i) \/ UpdateToNextTurn(i)
      PROVE  QueueInv'
  <2>1. /\ [input EXCEPT ![i] = Detached] \in [Inputs -> Input]
        /\ {TaskOf[i]} \in SUBSET Tasks /\ status \in [Runs -> Status]
    BY Constants, TaskOfAssumption DEF TypeOK
  <2>2. InputsOnly \/ NextTurnAndDrain(TaskOf[i], [input EXCEPT ![i] = Detached])
    BY <1>5 DEF EnqueueNextTurnInput, UpdateToNextTurn
  <2>3. ASSUME NextTurnAndDrain(TaskOf[i], [input EXCEPT ![i] = Detached]) PROVE QueueInv'
    BY <1>0, <1>1, <2>1, <2>3, QueueNextTurn DEF NextTurnAndDrain
  <2> QED BY <1>4, <2>2, <2>3
<1>6. ASSUME NEW c \in Clients, NEW r \in Runs, PauseBegin(c, r) PROVE QueueInv'
  <2>1. /\ \A x \in Runs \ {r} : status'[x] = status[x]
        /\ status'[r] = PauseStatus(status[r])
        /\ Pausable(status[r]) /\ unsettled' = unsettled
    BY <1>6 DEF PauseBegin, TypeOK
  <2>2. \A x \in Runs : Excused(x) => Excused(x)'
    BY <1>6 DEF PauseBegin, Excused, CancelUnderWay, TypeOK
  <2>3. CASE status[r] = "QUEUED"
    <3>1. queue' = Dequeue(queue, r) /\ status'[r] = "PAUSED"
      BY <1>6, <2>1, <2>3 DEF PauseBegin, PauseStatus
    <3>2. IsInjective(queue') /\ Range(queue') = Range(queue) \ {r}
      BY <1>1, <3>1, DequeuedQueue
    <3>3. \A x \in Range(queue') : status'[x] \in {"QUEUED", "CANCELLED"}
      BY <1>1, <2>1, <3>2
    <3>4. \A x \in Runs : status'[x] = "QUEUED" /\ x \notin Range(queue') => Excused(x)'
      BY <1>1, <2>1, <2>2, <3>1, <3>2
    <3> QED BY <1>0, <3>2, <3>3, <3>4 DEF QueueInv
  <2>4. CASE status[r] # "QUEUED"
    <3>1. queue' = queue /\ status'[r] = "PAUSING" /\ status[r] \in Working
      BY <1>6, <2>1, <2>4 DEF PauseBegin, PauseStatus, Pausable
    <3> QED BY <1>0, <2>1, <2>2, <3>1, QueueKept DEF Working
  <2> QED BY <2>3, <2>4
<1>7. ASSUME NEW c \in Clients, NEW r \in Runs, CancelBegin(c, r) PROVE QueueInv'
  <2>1. /\ status' = status /\ unsettled' = unsettled /\ queue' = Dequeue(queue, r)
        /\ client[c].pc = "idle" /\ client'[c].run = r /\ client'[c].pc \in {"kill", "cancel"}
        /\ \A d \in Clients \ {c} : client'[d] = client[d]
    BY <1>7 DEF CancelBegin, TypeOK
  <2>2. IsInjective(queue') /\ Range(queue') = Range(queue) \ {r}
    BY <1>1, <2>1, DequeuedQueue
  <2>3. \A x \in Runs : Excused(x) => Excused(x)'
    BY <2>1 DEF Excused, CancelUnderWay
  <2>4. Excused(r)'
    BY <2>1 DEF Excused, CancelUnderWay
  <2>5. \A x \in Range(queue') : status'[x] \in {"QUEUED", "CANCELLED"}
    BY <1>1, <2>1, <2>2
  <2>6. \A x \in Runs : status'[x] = "QUEUED" /\ x \notin Range(queue') => Excused(x)'
    BY <1>1, <2>1, <2>2, <2>3, <2>4
  <2> QED BY <1>0, <2>2, <2>5, <2>6 DEF QueueInv
<1>8. ASSUME NEW i \in Inputs,
             EnqueueSteer(i) \/ MarkClaimed(i) \/ UpdateToSteer(i) \/ DeleteInput(i)
      PROVE  QueueInv'
  BY <1>4, <1>8 DEF EnqueueSteer, MarkClaimed, UpdateToSteer, DeleteInput
<1> QED BY <1>2, <1>3, <1>5, <1>6, <1>7, <1>8 DEF Request

\* The later sections of pause() and cancel().
LEMMA QueueClientStep ==
    ASSUME TypeOK, SlotInv, RunInv, QueueInv, NEW c \in Clients, ClientStep(c)
    PROVE  QueueInv'
<1> DEFINE r == client[c].run
<1>0. client[c].pc # "idle" /\ ready' = ready
  BY DEF ClientStep, PauseForward, PauseRollback, PauseFinish, CancelKill,
         CancelAwait, CancelSettle, CancelThrows
<1>1. /\ ready /\ ready' /\ r \in Runs
      /\ client[c].prev \in {"none", "RUNNING", "WAITING_APPROVAL"}
  BY <1>0, UnderWay DEF TypeOK, Client, Idle
<1>2. /\ queue \in Seq(Runs) /\ Range(queue) \subseteq Runs /\ IsInjective(queue)
      /\ \A x \in Range(queue) : status[x] \in {"QUEUED", "CANCELLED"}
      /\ \A x \in Runs : status[x] = "QUEUED" /\ x \notin Range(queue) => Excused(x)
  BY <1>1, QueueHas
<1>3. CASE PauseForward(c) \/ PauseRollback(c) \/ PauseFinish(c)
  <2>1. UNCHANGED <<queue, unsettled>> /\ \A d \in Clients \ {c} : client'[d] = client[d]
    BY <1>3 DEF PauseForward, PauseRollback, PauseFinish, TypeOK
  <2>2. client[c].pc \notin {"kill", "await", "cancel"}
    BY <1>3 DEF PauseForward, PauseRollback, PauseFinish
  <2>3. \A x \in Runs : Excused(x) => Excused(x)'
    BY <2>1, <2>2 DEF Excused, CancelUnderWay
  <2>4. \A x \in Runs : \/ status'[x] = status[x]
                        \/ status[x] = "PAUSING" /\ status'[x] # "QUEUED"
    <3>1. CASE PauseForward(c)
      BY <3>1 DEF PauseForward
    <3>2. CASE PauseRollback(c)
      BY <1>1, <3>2 DEF PauseRollback, RolledBack, TypeOK
    <3>3. CASE PauseFinish(c)
      BY <1>1, <3>3 DEF PauseFinish, RunInv, FinishingPauses, TypeOK
    <3> QED BY <1>3, <3>1, <3>2, <3>3
  <2> QED BY <1>0, <2>1, <2>3, <2>4, QueueKept
<1>4. CASE CancelKill(c) \/ CancelAwait(c)
  <2>1. /\ UNCHANGED <<queue, unsettled, status>>
        /\ \A d \in Clients \ {c} : client'[d] = client[d]
        /\ client'[c].pc \in {"await", "cancel"} /\ client'[c].run = client[c].run
    <3>1. \A p : /\ [client[c] EXCEPT !.pc = p].pc = p
                 /\ [client[c] EXCEPT !.pc = p].run = client[c].run
      BY <1>0 DEF TypeOK, Client, Idle
    <3>2. /\ UNCHANGED <<queue, unsettled, status>>
          /\ \E p \in {"await", "cancel"} : client' = [client EXCEPT ![c].pc = p]
      BY <1>4 DEF CancelKill, CancelAwait
    <3> QED BY <3>1, <3>2 DEF TypeOK
  <2>2. \A x \in Runs : Excused(x) => Excused(x)'
    BY <2>1 DEF Excused, CancelUnderWay
  <2> QED BY <1>0, <2>1, <2>2, QueueKept
<1>5. ASSUME \A d \in Clients \ {c} : client'[d] = client[d], unsettled \subseteq unsettled'
      PROVE  \A x \in Runs \ {r} : Excused(x) => Excused(x)'
  BY <1>5 DEF Excused, CancelUnderWay
<1>6. CASE CancelSettle(c)
  <2> DEFINE st == [status EXCEPT ![r] = "CANCELLED"]
             ex == ReleaseExecution(executing, r)
             inp == CancelOpenForTask(input, TaskOf[r])
  <2>1. DrainQueue(st, queue, ex, worker, inp)
    BY <1>6 DEF CancelSettle
  <2>2. /\ st \in [Runs -> Status]
        /\ st[r] = "CANCELLED" /\ \A x \in Runs \ {r} : st[x] = status[x]
    BY <1>1 DEF TypeOK, Status, Terminal
  <2>3. \A x \in Runs \ {r} : Excused(x) => Excused(x)'
    BY <1>5, <1>6 DEF CancelSettle, TypeOK
  <2> HIDE DEF st, ex, inp
  <2>4. \A x \in Range(queue) : st[x] \in {"QUEUED", "CANCELLED"}
    BY <1>2, <2>2
  <2>5. \A x \in Runs : st[x] = "QUEUED" /\ x \notin Range(queue) => Excused(x)'
    BY <1>2, <2>2, <2>3
  <2> QED BY <1>1, <1>2, <2>1, <2>2, <2>4, <2>5, QueueDrained
<1>7. CASE CancelThrows(c)
  <2>1. /\ queue' = queue /\ unsettled' = unsettled \cup {r}
        /\ \A d \in Clients \ {c} : client'[d] = client[d]
        /\ \A x \in Runs \ {r} : status'[x] = status[x]
        /\ status'[r] \in {status[r], "CANCELLED"}
    BY <1>1, <1>7 DEF CancelThrows, TypeOK
  <2>2. \A x \in Runs : Excused(x) => Excused(x)'
    BY <1>5, <2>1 DEF Excused
  <2> QED BY <1>0, <2>1, <2>2, QueueKept
<1> QED BY <1>3, <1>4, <1>6, <1>7 DEF ClientStep

\* The callbacks: the run that settles is not a queued one, and a cancelled one
\* stays cancelled.
LEMMA QueueSettle ==
    ASSUME TypeOK, SlotInv, RunInv, QueueInv, NEW r \in Runs, ready' = ready,
           Complete(r) \/ Fail(r) \/ SettleThrows(r)
    PROVE  QueueInv'
<1> DEFINE ex == ReleaseExecution(executing, r)
           wk == [worker EXCEPT ![r] = NoWorker]
<1>0. /\ worker[r].stage = "callback" /\ client' = client
      /\ unsettled \subseteq unsettled'
  BY DEF Complete, Fail, SettleThrows
<1>1. /\ ready /\ ready' /\ status[r] \in Working \cup Terminal
      /\ status \in [Runs -> Status] /\ input \in [Inputs -> Input]
  BY <1>0, UnderWay, CallbackFinds DEF TypeOK
<1>2. /\ queue \in Seq(Runs) /\ Range(queue) \subseteq Runs /\ IsInjective(queue)
      /\ \A x \in Range(queue) : status[x] \in {"QUEUED", "CANCELLED"}
      /\ \A x \in Runs : status[x] = "QUEUED" /\ x \notin Range(queue) => Excused(x)'
  BY <1>0, <1>1, QueueHas
<1>3. ASSUME NEW s, s \in Terminal \cup {"PAUSED", status[r]},
             status[r] = "CANCELLED" => s = "CANCELLED",
             NEW st, st = [status EXCEPT ![r] = s]
      PROVE  /\ st \in [Runs -> Status]
             /\ \A x \in Range(queue) : st[x] \in {"QUEUED", "CANCELLED"}
             /\ \A x \in Runs : st[x] = "QUEUED" /\ x \notin Range(queue) => Excused(x)'
  <2>1. /\ st \in [Runs -> Status]
        /\ st[r] = s /\ \A x \in Runs \ {r} : st[x] = status[x]
    BY <1>1, <1>3 DEF Status, Active
  <2>2. s # "QUEUED"
    BY <1>1, <1>3 DEF Working, Terminal
  <2>3. r \in Range(queue) => s = "CANCELLED"
    BY <1>1, <1>2, <1>3 DEF Working, Terminal
  <2> QED BY <1>2, <2>1, <2>2, <2>3
<1> HIDE DEF ex, wk
<1>4. CASE Complete(r)
  <2> DEFINE paused == r \in pausedTurns
             s == AfterCompletion(status[r], paused)
             st == [status EXCEPT ![r] = s]
             inp == IF st[r] # status[r] /\ ~paused
                    THEN MoveOpenSteersToNextTurn(input, {r}) ELSE input
  <2>1. /\ s \in Terminal \cup {"PAUSED", status[r]}
        /\ status[r] = "CANCELLED" => s = "CANCELLED"
    BY DEF AfterCompletion, Terminal
  <2>2. st = [status EXCEPT ![r] = AfterCompletion(@, paused)]
    BY <1>1
  <2>3. \E pick \in NextTurns(MovesOn(r, st[r], paused), st, inp) :
        \E new \in SetToSeqs(Created(pick, st)) :
          DrainQueue(WithCreated(pick, st), queue \o new, ex, wk, WithTaken(pick, st, inp))
    BY <1>4, <2>2 DEF Complete, ex, wk
  <2>4. MovesOn(r, st[r], paused) \in SUBSET Tasks /\ inp \in [Inputs -> Input]
    BY <1>1, InputsType, TaskOfAssumption DEF MovesOn
  <2>5. st = [status EXCEPT ![r] = s]
    OBVIOUS
  <2> HIDE DEF st, s, inp, paused
  <2>6. /\ st \in [Runs -> Status]
        /\ \A x \in Range(queue) : st[x] \in {"QUEUED", "CANCELLED"}
        /\ \A x \in Runs : st[x] = "QUEUED" /\ x \notin Range(queue) => Excused(x)'
    BY <1>3, <2>1, <2>5
  <2> QED BY <1>1, <1>2, <2>3, <2>4, <2>6, QueueNextTurn
<1>5. CASE Fail(r)
  <2> DEFINE s == AfterFailure(status[r], r \in pausedTurns)
             st == [status EXCEPT ![r] = s]
             inp == IF st[r] = "FAILED" THEN MoveOpenSteersToNextTurn(input, {r}) ELSE input
  <2>1. /\ s \in Terminal \cup {"PAUSED", status[r]}
        /\ status[r] = "CANCELLED" => s = "CANCELLED"
    BY DEF AfterFailure, Terminal
  <2>2. st = [status EXCEPT ![r] = AfterFailure(@, r \in pausedTurns)]
    BY <1>1
  <2>3. DrainQueue(st, queue, ex, wk, inp)
    BY <1>5, <2>2 DEF Fail, ex, wk
  <2>4. st = [status EXCEPT ![r] = s]
    OBVIOUS
  <2> HIDE DEF st, s, inp
  <2>5. /\ st \in [Runs -> Status]
        /\ \A x \in Range(queue) : st[x] \in {"QUEUED", "CANCELLED"}
        /\ \A x \in Runs : st[x] = "QUEUED" /\ x \notin Range(queue) => Excused(x)'
    BY <1>3, <2>1, <2>4
  <2> QED BY <1>1, <1>2, <2>3, <2>5, QueueDrained
<1>6. CASE SettleThrows(r)
  <2>1. PICK s \in {status[r], Settlement(r)},
             inp \in {input, MoveOpenSteersToNextTurn(input, {r})} :
          DrainQueue([status EXCEPT ![r] = s], queue, ex, wk, inp)
    BY <1>6 DEF SettleThrows, ex, wk
  <2> DEFINE st == [status EXCEPT ![r] = s]
  <2>2. /\ s \in Terminal \cup {"PAUSED", status[r]}
        /\ status[r] = "CANCELLED" => s = "CANCELLED"
    BY DEF Settlement, AfterCompletion, AfterFailure, Terminal
  <2>3. st = [status EXCEPT ![r] = s]
    OBVIOUS
  <2> HIDE DEF st
  <2>4. /\ st \in [Runs -> Status]
        /\ \A x \in Range(queue) : st[x] \in {"QUEUED", "CANCELLED"}
        /\ \A x \in Runs : st[x] = "QUEUED" /\ x \notin Range(queue) => Excused(x)'
    BY <1>3, <2>2, <2>3
  <2>5. DrainQueue(st, queue, ex, wk, inp)
    BY <2>1, <2>3
  <2> QED BY <1>1, <1>2, <2>4, <2>5, QueueDrained
<1> QED BY <1>4, <1>5, <1>6

\* The steps of a turn that settle nothing.
LEMMA QueueTurn ==
    ASSUME TypeOK, QueueInv, NEW r \in Runs, ready' = ready,
           \/ StartRuntime(r)
           \/ ClaimSteers(r)
           \/ \E i \in Inputs : OnSteerClaimed(r, i)
           \/ \E outcome \in {"completed", "paused", "failed"} : TurnEnds(r, outcome)
           \/ OnTerminalEvent(r)
           \/ WorkerFinally(r)
           \/ WorkerKilled(r)
           \/ OnApprovalRequested(r)
           \/ OnApprovalResolved(r)
           \/ SteersExpire(r)
    PROVE  QueueInv'
<1>1. UNCHANGED <<queue, client, unsettled>>
  BY DEF StartRuntime, ClaimSteers, OnSteerClaimed, TurnEnds, OnTerminalEvent,
         WorkerFinally, WorkerKilled, OnApprovalRequested, OnApprovalResolved,
         SteersExpire, WorkerOnly
<1>2. \A x \in Runs : status'[x] = status[x] \/ {status[x], status'[x]} \subseteq Working
  <2>1. CASE OnApprovalRequested(r) \/ OnApprovalResolved(r)
    BY <2>1 DEF OnApprovalRequested, OnApprovalResolved, TypeOK, Working
  <2>2. CASE status' = status
    BY <2>2
  <2> QED BY <2>1, <2>2
      DEF StartRuntime, ClaimSteers, OnSteerClaimed, TurnEnds, OnTerminalEvent,
          WorkerFinally, WorkerKilled, SteersExpire
<1>3. \A x \in Runs : Excused(x) => Excused(x)'
  BY <1>1 DEF Excused, CancelUnderWay
<1> QED BY <1>1, <1>2, <1>3, QueueKept DEF Working

\* Recovery finds the queue empty and pauses every queued run.
LEMMA QueueRecover == TypeOK /\ QueueInv /\ Recover => QueueInv'
<1> SUFFICES ASSUME TypeOK, QueueInv, Recover PROVE QueueInv'
  OBVIOUS
<1> DEFINE broken == {r \in repairable : status[r] = "FAILED" /\ r \in pausingLog}
           back == {r \in Runs : status[r] \in Recoverable} \cup broken
           st == [r \in Runs |-> IF r \in back THEN "PAUSED" ELSE status[r]]
           inp == ResetDelivered(input, back)
<1>1. st \in [Runs -> Status] /\ inp \in [Inputs -> Input] /\ Tasks \in SUBSET Tasks
  BY InputsType DEF TypeOK, Status, Active
<1>2. \E pick \in NextTurns(Tasks, st, inp) :
      \E new \in SetToSeqs(Created(pick, st)) :
        DrainQueue(WithCreated(pick, st), queue \o new, executing, worker,
                   WithTaken(pick, st, inp))
  BY DEF Recover
<1>3. \A r \in Runs : st[r] # "QUEUED"
  BY DEF Recoverable
<1>4. /\ ready' /\ IsInjective(queue) /\ Range(queue) = {}
  BY EmptyQueue DEF Recover, QueueInv
<1> HIDE DEF st, inp
<1> QED BY <1>1, <1>2, <1>3, <1>4, QueueNextTurn

\* Every step keeps the queue and the statuses in agreement.
LEMMA QueueNext == TypeOK /\ SlotInv /\ RunInv /\ QueueInv /\ [Next]_vars => QueueInv'
<1> SUFFICES ASSUME TypeOK, SlotInv, RunInv, QueueInv, [Next]_vars PROVE QueueInv'
  OBVIOUS
<1>1. CASE Request
  BY <1>1, QueueRequest
<1>2. CASE \E c \in Clients : ClientStep(c)
  BY <1>2, QueueClientStep
<1>3. ASSUME NEW r \in Runs, Converge(r) \/ Elsewhere(r) PROVE QueueInv'
  BY <1>3, QueueTurn, QueueSettle DEF Converge, Elsewhere
<1>4. CASE Crash
  BY <1>4, EmptyQueue DEF Crash, QueueInv
<1>5. CASE Recover
  BY <1>5, QueueRecover
<1>6. CASE UNCHANGED vars
  BY <1>6 DEF vars, QueueInv, Excused, CancelUnderWay
<1> QED BY <1>1, <1>2, <1>3, <1>4, <1>5, <1>6 DEF Next

\* A queue without duplicates has as many entries as runs.
LEMMA QueueLength ==
    ASSUME NEW q \in Seq(Runs), IsInjective(q)
    PROVE  Cardinality(Range(q)) = Len(q)
<1>1. q \in [1..Len(q) -> Range(q)] /\ Len(q) \in Nat /\ DOMAIN q = 1..Len(q)
  <2>1. Len(q) \in Nat /\ DOMAIN q = 1..Len(q) /\ q \in [1..Len(q) -> Runs]
    BY LenProperties
  <2> QED BY <2>1 DEF Range
<1>2. q \in Surjection(1..Len(q), Range(q)) /\ q \in Injection(1..Len(q), Range(q))
  BY <1>1 DEF Surjection, Injection, IsInjective, Range
<1>3. IsFiniteSet(1..Len(q)) /\ Cardinality(1..Len(q)) = Len(q)
  <2>1. 1 \in Int /\ Len(q) \in Int
    BY <1>1
  <2>2. /\ IsFiniteSet(1..Len(q))
        /\ Cardinality(1..Len(q)) = IF 1 > Len(q) THEN 0 ELSE Len(q) - 1 + 1
    BY <2>1, FS_Interval
  <2> QED BY <1>1, <2>2
<1> QED BY <1>2, <1>3, FS_Surjection

\* "Every durable QUEUED run must be process-queued", except while its cancel is
\* under way or has failed; nothing is queued twice, and what is queued besides was
\* cancelled: no run waits for a slot it will not be given, and none gets two turns.
THEOREM EveryQueuedRunIsEnqueued ==
    ASSUME PausesAlone PROVE Spec => []QueuedRunsAreEnqueued
<1>1. TypeOK /\ QueueInv => QueuedRunsAreEnqueued
  BY QueueHas, QueueLength
     DEF QueueInv, QueuedRunsAreEnqueued, Excused, CancelUnderWay
<1>2. Spec => [](TypeOK /\ SlotInv /\ RunInv)
  BY RunInvariant
<1> QED BY <1>1, <1>2, QueueInit, QueueNext, PTL DEF Spec

=============================================================================
