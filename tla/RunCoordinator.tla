--------------------------- MODULE RunCoordinator ---------------------------
(***************************************************************************)
(* The Local Core's run coordinator: durable runs and queued inputs        *)
(* (SQLite), the process-local FIFO queue and execution slots, the worker  *)
(* thread that drives one runtime turn per task, the runtime's own steer   *)
(* buffer, and the API threads that pause and cancel in two phases.        *)
(*                                                                         *)
(* Every action is one critical section of the code: a method synchronized *)
(* on the coordinator, or one step a worker, the runtime or an API thread  *)
(* takes outside that monitor.                                             *)
(***************************************************************************)
EXTENDS Naturals, FiniteSets, Sequences, SequencesExt

CONSTANTS
    Tasks,              \* the tasks (conversations)
    Runs,               \* the run ids that may be drawn
    Inputs,             \* the input ids that may be drawn
    Clients,            \* the API threads that pause and cancel
    TaskOf,             \* the task a run or an input belongs to
    MaxConcurrentRuns,  \* lumora.runs.max-concurrent
    CancelAllowed,      \* whether clients cancel at all
    Faults,             \* whether the store or the journal may fail
    SequenceConflicts,  \* whether a turn may fail on the message-sequence key
    NoRun               \* null

ASSUME RunsAssumption == NoRun \notin Runs
ASSUME FiniteAssumption == IsFiniteSet(Runs) /\ IsFiniteSet(Inputs)
ASSUME TaskOfAssumption == TaskOf \in [Runs \cup Inputs -> Tasks]
ASSUME MaxConcurrentRunsAssumption == MaxConcurrentRuns \in Nat \ {0}
ASSUME SwitchesAssumption ==
    /\ CancelAllowed \in BOOLEAN
    /\ Faults \in BOOLEAN
    /\ SequenceConflicts \in BOOLEAN

VARIABLES
    status,       \* durable: the status of each run, "NEW" when not created
    input,        \* durable: the status, target and bound run of each input
    pausingLog,   \* durable: runs whose current turn logged a PAUSING event
    repairable,   \* durable: FAILED runs whose error is the sequence key's
    queue,        \* queuedRunIds
    executing,    \* executingRunIds
    pausedTurns,  \* pausedTurnRunIds
    activeRun,    \* ConversationServiceImpl.activeRuns, by task
    worker,       \* the FutureTask of each run's current turn
    steers,       \* RunControl._steers of each run's current turn
    claims,       \* steer_claimed events the worker has not consumed
    client,       \* the API threads
    unsettled,    \* history: runs whose settlement was cut short by a fault
    ready         \* whether recovery has run since the process started

durable == <<status, input, pausingLog, repairable>>
vars == <<status, input, pausingLog, repairable, queue, executing, pausedTurns,
          activeRun, worker, steers, claims, client, unsettled, ready>>

-----------------------------------------------------------------------------
Working == {"RUNNING", "WAITING_APPROVAL", "PAUSING"}
Active == Working \cup {"QUEUED", "PAUSED"}
Terminal == {"COMPLETED", "FAILED", "CANCELLED"}
Status == Active \cup Terminal \cup {"NEW"}
Recoverable == Working \cup {"QUEUED"}

Editable == {"PENDING", "DELIVERED"}
Input == [status : Editable \cup {"NONE", "CLAIMED", "CANCELLED"},
          target : {"NEXT_STEP", "NEXT_TURN"},
          run    : Runs \cup {NoRun}]

\* starting: the context is being prepared; streaming and awaiting (a tool
\* approval): the runtime turn is open; ended: it closed and its last event is
\* on the way; settled: the callable returned; callback: out of activeRuns,
\* the completion or error callback is about to run.
Worker == [stage   : {"none", "starting", "streaming", "awaiting", "ended",
                      "settled", "callback"},
           outcome : {"none", "completed", "paused", "failed"},
           pause   : BOOLEAN,
           killed  : BOOLEAN]
NoWorker == [stage |-> "none", outcome |-> "none",
             pause |-> FALSE, killed |-> FALSE]

\* Where an API thread is in pause() or cancel(), the run it was called for, and
\* the status pause() will put back if it must.
Idle == [pc |-> "idle", run |-> NoRun, prev |-> "none"]
Client == {Idle} \cup [pc   : {"kill", "await", "cancel", "forward", "rollback",
                              "finishPause"},
                       run  : Runs,
                       prev : {"none", "RUNNING", "WAITING_APPROVAL"}]

RunsOf(t) == {r \in Runs : TaskOf[r] = t}
InputsOf(t) == {i \in Inputs : TaskOf[i] = t}
PausedRunsForgotten(t, st) == {r \in RunsOf(t) : st[r] \in Active \ {"PAUSED"}}
ActiveRuns(t, st) == {r \in RunsOf(t) : st[r] \in Active}

\* A thread inside cancelGeneration holds the ConversationServiceImpl monitor
\* until the worker it interrupted is gone; starting a turn and every steer
\* call wait for it.
ServiceFree == \A c \in Clients : client[c].pc # "await"

-----------------------------------------------------------------------------
(* Inputs *)

Detached == [status |-> "PENDING", target |-> "NEXT_TURN", run |-> NoRun]

OnlyPending(x, rs) ==
    x.target = "NEXT_STEP" /\ x.status = "PENDING" /\ x.run \in rs

OpenSteer(x, rs) ==
    x.target = "NEXT_STEP" /\ x.status \in Editable /\ x.run \in rs

\* The open steers of the runs rs become next-turn inputs.
MoveOpenSteersToNextTurn(inp, rs) ==
    [i \in Inputs |-> IF OpenSteer(inp[i], rs) THEN Detached ELSE inp[i]]

CancelOpenForTask(inp, t) ==
    [i \in Inputs |-> IF TaskOf[i] = t /\ inp[i].status \in Editable
                      THEN [inp[i] EXCEPT !.status = "CANCELLED"]
                      ELSE inp[i]]

ResetDelivered(inp, rs) ==
    [i \in Inputs |-> IF inp[i].run \in rs /\ inp[i].status = "DELIVERED"
                      THEN [inp[i] EXCEPT !.status = "PENDING"]
                      ELSE inp[i]]

PendingNextTurns(t, inp) ==
    {i \in InputsOf(t) : inp[i].target = "NEXT_TURN" /\ inp[i].status = "PENDING"}

\* Run ids are fresh UUIDs: which unused one is drawn is immaterial.
Unused(t, st) == {r \in RunsOf(t) : st[r] = "NEW"}
FreshRun(t, st) == CHOOSE r \in Unused(t, st) : TRUE

\* The choices enqueueNextTurn may make for the tasks ts: for every task with no
\* active run and a pending next-turn input, the input at the head. Positions
\* are the user's to edit, so any pending one may be at the head.
NextTurns(ts, st, inp) ==
    LET due == {t \in ts : /\ ActiveRuns(t, st) = {}
                           /\ PendingNextTurns(t, inp) # {}
                           /\ Unused(t, st) # {}}
    IN  {pick \in [due -> Inputs] :
            \A t \in due : pick[t] \in PendingNextTurns(t, inp)}

Created(pick, st) == {FreshRun(t, st) : t \in DOMAIN pick}

WithCreated(pick, st) ==
    [r \in Runs |-> IF r \in Created(pick, st) THEN "QUEUED" ELSE st[r]]

WithTaken(pick, st, inp) ==
    [i \in Inputs |->
        IF TaskOf[i] \in DOMAIN pick /\ pick[TaskOf[i]] = i
        THEN [status |-> "CLAIMED", target |-> "NEXT_TURN",
              run |-> FreshRun(TaskOf[i], st)]
        ELSE inp[i]]

-----------------------------------------------------------------------------
(* The queue *)

EnqueueTwice(q, r) == Append(q, r)
Enqueue(q, r) == IF r \in Range(q) THEN q ELSE Append(q, r)

SlotFree(used) == Cardinality(used) < MaxConcurrentRuns

\* Nothing is queued twice (QueuedRunsAreEnqueued): r is at one place at most.
Dequeue(q, r) == IF r \in Range(q) THEN RemoveAt(q, CHOOSE j \in DOMAIN q : q[j] = r)
                 ELSE q

ReleaseNothing(ex, r) == ex
ReleaseExecution(ex, r) == ex \ {r}

\* What complete() makes of the status of a run whose turn ended or was paused.
AfterCompletion(s, pausedTurn) ==
    IF s \in Terminal \cup {"PAUSED"} THEN s
    ELSE IF pausedTurn THEN "PAUSED" ELSE "COMPLETED"

\* What fail() makes of the status of a run whose turn failed.
AfterFailure(s, pausedTurn) ==
    IF (pausedTurn \/ s = "PAUSING") /\ s \notin Terminal THEN "PAUSED"
    ELSE IF s \in {"PAUSED", "CANCELLED"} THEN s ELSE "FAILED"

\* Of the first k entries of the queue, the runs that find their worker: those
\* still QUEUED, unless binding the workspace or starting the generation throws.
Started(st, q, bad, k) == {r \in {q[j] : j \in 1..k} \ bad : st[r] = "QUEUED"}

\* The loop of drainQueue pops n entries: one more while a slot is free, and it
\* stops only when none is or the queue is empty.
PopsThrough(n, st, q, ex, bad) ==
    /\ bad \subseteq {q[j] : j \in 1..n}
    /\ n > 0 => SlotFree(ex \cup Started(st, q, bad, n - 1))
    /\ n < Len(q) => ~SlotFree(ex \cup Started(st, q, bad, n))

\* startGeneration for the runs of start. A task has one entry in activeRuns.
StartWorkers(start, wk) ==
    /\ start # {} => ServiceFree
    /\ \A r \in start : activeRun[TaskOf[r]] = NoRun
    /\ \A r, s \in start : TaskOf[r] = TaskOf[s] => r = s
    /\ worker' = [r \in Runs |-> IF r \in start
                                 THEN [NoWorker EXCEPT !.stage = "starting"]
                                 ELSE wk[r]]
    /\ activeRun' = [t \in Tasks |-> IF \E r \in start : TaskOf[r] = t
                                     THEN CHOOSE r \in start : TaskOf[r] = t
                                     ELSE activeRun[t]]

\* deliverPendingSteers: the runtime accepts a pending steer of a started run, or
\* rejects it (its turn has ended already), or the call fails, or it accepts one
\* and the reply is lost.
DeliverPendingSteers(start, inp) ==
    LET pending == {i \in Inputs : /\ inp[i].status = "PENDING"
                                   /\ inp[i].target = "NEXT_STEP"
                                   /\ inp[i].run \in start}
    IN  \E accepted \in SUBSET pending : \E rejected \in SUBSET (pending \ accepted) :
        \E lost \in SUBSET (pending \ (accepted \cup rejected)) :
          /\ input' = [i \in Inputs |->
                         IF i \in accepted THEN [inp[i] EXCEPT !.status = "DELIVERED"]
                         ELSE IF i \in rejected THEN Detached ELSE inp[i]]
          /\ steers' = [r \in Runs |-> IF r \in start
                                       THEN {i \in accepted \cup lost : inp[i].run = r}
                                       ELSE steers[r]]

\* drainQueue, from the values its caller has reached. A run whose start throws
\* (bad) goes to fail(), which makes it FAILED, as a QUEUED run has no paused
\* turn, and frees its slot at once.
DrainQueue(st, q, ex, wk, inp) ==
    \E n \in 0..Len(q) : \E bad \in SUBSET {r \in Range(q) : st[r] = "QUEUED"} :
        LET start == Started(st, q, bad, n)
        IN  /\ PopsThrough(n, st, q, ex, bad)
            /\ queue' = SubSeq(q, n + 1, Len(q))
            /\ executing' = ex \cup start
            /\ status' = [r \in Runs |-> IF r \in start THEN "RUNNING"
                                         ELSE IF r \in bad THEN "FAILED"
                                         ELSE st[r]]
            /\ StartWorkers(start, wk)
            /\ DeliverPendingSteers(start, MoveOpenSteersToNextTurn(inp, bad))

-----------------------------------------------------------------------------
(* Runs: the synchronized entry points *)

\* startMessage and startRegeneration. A fresh id is kept back for every input
\* that may still need a run of its own (the bound on Runs, not the code's).
StartMessage(t) ==
    /\ ActiveRuns(t, status) = {}
    /\ Cardinality({i \in InputsOf(t) : input[i].status \in Editable \cup {"NONE"}})
          < Cardinality(Unused(t, status))
    /\ LET r == FreshRun(t, status)
       IN  DrainQueue([status EXCEPT ![r] = "QUEUED"], Enqueue(queue, r),
                      executing, worker, input)
    /\ UNCHANGED <<pausingLog, repairable, pausedTurns, claims, client, unsettled>>

\* resume, which also repairs a QUEUED run missing from the queue. A resume
\* whose lifecycle event cannot be written is rolled back to PAUSED, which
\* leaves everything as it was; when the rollback fails too it is this action.
Resume(r) ==
    /\ status[r] \in {"PAUSED", "QUEUED"}
    /\ pausingLog' = pausingLog \ (IF status[r] = "PAUSED" THEN {r} ELSE {})
    /\ DrainQueue([status EXCEPT ![r] = "QUEUED"], Enqueue(queue, r),
                  executing, worker, input)
    /\ UNCHANGED <<repairable, pausedTurns, claims, client, unsettled>>

\* The tasks whose queue the completion of run r moves on.
MovesNothingOn(r, s, pausedTurn) == {}
MovesOn(r, s, pausedTurn) ==
    IF ~pausedTurn /\ s = "COMPLETED" THEN {TaskOf[r]} ELSE {}

\* complete(), the completion callback of a turn that ended or was paused.
Complete(r) ==
    /\ worker[r].stage = "callback"
    /\ worker[r].outcome \in {"completed", "paused"}
    /\ LET paused == r \in pausedTurns
           st == [status EXCEPT ![r] = AfterCompletion(@, paused)]
           inp == IF st[r] # status[r] /\ ~paused
                  THEN MoveOpenSteersToNextTurn(input, {r}) ELSE input
       IN  \E pick \in NextTurns(MovesOn(r, st[r], paused), st, inp) :
           \E new \in SetToSeqs(Created(pick, st)) :
              DrainQueue(WithCreated(pick, st), queue \o new,
                         ReleaseExecution(executing, r),
                         [worker EXCEPT ![r] = NoWorker],
                         WithTaken(pick, st, inp))
    /\ pausedTurns' = pausedTurns \ {r}
    /\ UNCHANGED <<pausingLog, repairable, claims, client, unsettled>>

\* fail(), the error callback of a turn. The error may be the message-sequence
\* key's, which recovery later looks for.
Fail(r) ==
    /\ worker[r].stage = "callback"
    /\ worker[r].outcome = "failed"
    /\ LET st == [status EXCEPT ![r] = AfterFailure(@, r \in pausedTurns)]
       IN  /\ DrainQueue(st, queue, ReleaseExecution(executing, r),
                         [worker EXCEPT ![r] = NoWorker],
                         IF st[r] = "FAILED"
                         THEN MoveOpenSteersToNextTurn(input, {r}) ELSE input)
           /\ \/ UNCHANGED repairable
              \/ /\ SequenceConflicts /\ st[r] = "FAILED"
                 /\ repairable' = repairable \cup {r}
    /\ pausedTurns' = pausedTurns \ {r}
    /\ UNCHANGED <<pausingLog, claims, client, unsettled>>

\* The status the callback of r would settle on.
Settlement(r) == IF worker[r].outcome = "failed"
                 THEN AfterFailure(status[r], r \in pausedTurns)
                 ELSE AfterCompletion(status[r], r \in pausedTurns)

\* complete() or fail() throwing: before anything is written, once the steers are
\* moved, or once the status is written too (the capture of the Git changes, the
\* next turn). The finally block still frees the slot.
SettleThrows(r) ==
    /\ Faults
    /\ worker[r].stage = "callback"
    /\ unsettled' = unsettled \cup {r}
    /\ pausedTurns' = pausedTurns \ {r}
    /\ \E s \in {status[r], Settlement(r)} :
       \E inp \in {input, MoveOpenSteersToNextTurn(input, {r})} :
          /\ inp # input => Settlement(r) \in {"COMPLETED", "FAILED"}
          /\ s # status[r] => /\ s \in {"COMPLETED", "FAILED"}
                              /\ inp = MoveOpenSteersToNextTurn(input, {r})
          /\ DrainQueue([status EXCEPT ![r] = s], queue, ReleaseExecution(executing, r),
                        [worker EXCEPT ![r] = NoWorker], inp)
    /\ UNCHANGED <<pausingLog, repairable, claims, client>>

-----------------------------------------------------------------------------
(* Queued inputs: the synchronized entry points *)

\* The runtime's answers when asked to hold steer i for the turn of w: it turns
\* down one it holds already, and any once the turn is closing.
SteerReplies(i, w) ==
    (IF i \notin steers[w] THEN {"accepted", "lost"} ELSE {})
    \cup (IF i \in steers[w] \/ worker[w].stage = "ended" THEN {"rejected"} ELSE {})
    \cup {"failed"}

\* deliverSteer for input i, saved as x (PENDING, bound to the active run).
\* A turn is looked up by task, whichever run it belongs to.
DeliverSteer(i, x) ==
    LET w == activeRun[TaskOf[i]]
        saved == [input EXCEPT ![i] = x]
    IN  IF status[x.run] \in {"PAUSED", "PAUSING", "QUEUED"}
        THEN input' = saved /\ UNCHANGED steers
        ELSE /\ ServiceFree
             /\ \E reply \in IF w = NoRun THEN {"rejected"} ELSE SteerReplies(i, w) :
                 /\ input' = CASE reply = "accepted" ->
                                    [saved EXCEPT ![i].status = "DELIVERED"]
                               [] reply = "rejected" ->
                                    [saved EXCEPT ![i] = Detached]
                               [] OTHER -> saved
                 /\ steers' = IF reply \in {"accepted", "lost"}
                              THEN [steers EXCEPT ![w] = @ \cup {i}] ELSE steers

\* What only the input queue touches.
InputsOnly == UNCHANGED <<status, pausingLog, repairable, queue, executing,
                          pausedTurns, activeRun, worker, claims, client, unsettled>>

\* enqueueNextTurn and drainQueue once the inputs are inp.
NextTurnAndDrain(t, inp) ==
    /\ \E pick \in NextTurns({t}, status, inp) :
       \E new \in SetToSeqs(Created(pick, status)) :
          DrainQueue(WithCreated(pick, status), queue \o new, executing, worker,
                     WithTaken(pick, status, inp))
    /\ UNCHANGED <<pausingLog, repairable, pausedTurns, claims, client, unsettled>>

\* enqueueInput with target NEXT_STEP.
EnqueueSteer(i) ==
    /\ input[i].status = "NONE"
    /\ \E r \in ActiveRuns(TaskOf[i], status) :
          DeliverSteer(i, [status |-> "PENDING", target |-> "NEXT_STEP", run |-> r])
    /\ InputsOnly

\* enqueueInput with target NEXT_TURN: it waits for the active run, or starts.
EnqueueNextTurnInput(i) ==
    /\ input[i].status = "NONE"
    /\ LET inp == [input EXCEPT ![i] = Detached]
       IN  IF ActiveRuns(TaskOf[i], status) # {}
           THEN input' = inp /\ UNCHANGED steers /\ InputsOnly
           ELSE NextTurnAndDrain(TaskOf[i], inp)

\* removeSteer: whether the runtime gave the steer back.
Removed(i) ==
    LET w == activeRun[TaskOf[i]] IN w # NoRun /\ i \in steers[w]

TakeBack(i) ==
    steers' = [r \in Runs |-> IF r = activeRun[TaskOf[i]] THEN steers[r] \ {i}
                              ELSE steers[r]]

\* updateInput and deleteInput on a delivered steer the runtime no longer has.
MarkClaimed(i) ==
    /\ ServiceFree
    /\ input[i].status = "DELIVERED"
    /\ ~Removed(i)
    /\ input' = [input EXCEPT ![i].status = "CLAIMED"]
    /\ UNCHANGED steers
    /\ InputsOnly

\* updateInput with target NEXT_STEP. A delivered steer is bound to the active
\* run (OpenSteersBelongToActiveRuns): the runtime then replaces its text in
\* place, which changes nothing here.
UpdateToSteer(i) ==
    /\ input[i].status = "PENDING"
    /\ \E r \in ActiveRuns(TaskOf[i], status) :
          DeliverSteer(i, [status |-> "PENDING", target |-> "NEXT_STEP", run |-> r])
    /\ InputsOnly

\* updateInput with target NEXT_TURN. The run of a delivered steer is active, so
\* the input only waits; one that was pending may start the next turn.
UpdateToNextTurn(i) ==
    LET inp == [input EXCEPT ![i] = Detached]
    IN  \/ /\ input[i].status = "DELIVERED"
           /\ ServiceFree
           /\ Removed(i)
           /\ TakeBack(i)
           /\ input' = inp
           /\ InputsOnly
        \/ /\ input[i].status = "PENDING"
           /\ ActiveRuns(TaskOf[i], status) # {}
           /\ input' = inp
           /\ UNCHANGED steers
           /\ InputsOnly
        \/ /\ input[i].status = "PENDING"
           /\ ActiveRuns(TaskOf[i], status) = {}
           /\ NextTurnAndDrain(TaskOf[i], inp)

\* deleteInput.
DeleteInput(i) ==
    /\ \/ input[i].status = "PENDING" /\ UNCHANGED steers
       \/ input[i].status = "DELIVERED" /\ ServiceFree /\ Removed(i) /\ TakeBack(i)
    /\ input' = [input EXCEPT ![i].status = "CANCELLED"]
    /\ InputsOnly

-----------------------------------------------------------------------------
(* The worker thread and the runtime turn it drives *)

\* What only a worker and its runtime turn touch.
WorkerOnly == UNCHANGED <<pausingLog, repairable, queue, client, unsettled>>

\* The context is ready. A pause latched by now ends the turn before the
\* runtime is called; preparing the context may also throw.
StartRuntime(r) ==
    /\ worker[r].stage = "starting"
    /\ worker' = [worker EXCEPT
                    ![r].stage = IF worker[r].pause THEN "ended" ELSE "streaming",
                    ![r].outcome = IF worker[r].pause THEN "paused" ELSE "none"]
    /\ WorkerOnly
    /\ UNCHANGED <<status, input, executing, pausedTurns, activeRun, steers, claims>>

\* The agent loop claims every steer it holds at a step boundary.
ClaimSteers(r) ==
    /\ worker[r].stage = "streaming"
    /\ steers[r] # {}
    /\ claims' = [claims EXCEPT ![r] = @ \cup steers[r]]
    /\ steers' = [steers EXCEPT ![r] = {}]
    /\ WorkerOnly
    /\ UNCHANGED <<status, input, executing, pausedTurns, activeRun, worker>>

ClaimAny(x) == [x EXCEPT !.status = "CLAIMED"]
Claim(x) == IF x.status \in Editable THEN [x EXCEPT !.status = "CLAIMED"] ELSE x

\* onEvent(STEER_CLAIMED); an event of a run without a slot is dropped.
OnSteerClaimed(r, i) ==
    /\ i \in claims[r]
    /\ claims' = [claims EXCEPT ![r] = @ \ {i}]
    /\ input' = IF r \in executing THEN [input EXCEPT ![i] = Claim(@)] ELSE input
    /\ WorkerOnly
    /\ UNCHANGED <<status, executing, pausedTurns, activeRun, worker, steers>>

\* onEvent(TOOL_APPROVAL_REQUESTED)
OnApprovalRequested(r) ==
    /\ worker[r].stage = "streaming"
    /\ worker' = [worker EXCEPT ![r].stage = "awaiting"]
    /\ status' = IF r \in executing /\ status[r] = "RUNNING"
                 THEN [status EXCEPT ![r] = "WAITING_APPROVAL"] ELSE status
    /\ WorkerOnly
    /\ UNCHANGED <<input, executing, pausedTurns, activeRun, steers, claims>>

\* onEvent(TOOL_APPROVAL_RESOLVED)
OnApprovalResolved(r) ==
    /\ worker[r].stage = "awaiting"
    /\ worker' = [worker EXCEPT ![r].stage = "streaming"]
    /\ status' = IF r \in executing /\ status[r] = "WAITING_APPROVAL"
                 THEN [status EXCEPT ![r] = "RUNNING"] ELSE status
    /\ WorkerOnly
    /\ UNCHANGED <<input, executing, pausedTurns, activeRun, steers, claims>>

\* The turn closes: naturally once no steer is left to claim, at a safe boundary
\* once a pause was requested, or because preparing or streaming failed (a stream
\* that an interrupt broke reports nothing). A turn that was open forgets the
\* steers nobody claimed.
TurnEnds(r, outcome) ==
    /\ \/ /\ outcome = "completed"
          /\ worker[r].stage = "streaming"
          /\ steers[r] = {}
       \/ /\ outcome = "paused"
          /\ worker[r].stage \in {"streaming", "awaiting"}
          /\ worker[r].pause
       \/ /\ outcome = "failed"
          /\ \/ worker[r].stage = "starting"
             \/ worker[r].stage \in {"streaming", "awaiting"} /\ ~worker[r].killed
    /\ worker' = [worker EXCEPT ![r].stage = "ended", ![r].outcome = outcome]
    /\ steers' = [steers EXCEPT ![r] = IF worker[r].stage = "starting" THEN @ ELSE {}]
    /\ claims' = IF outcome = "failed" THEN [claims EXCEPT ![r] = {}] ELSE claims
    /\ WorkerOnly
    /\ UNCHANGED <<status, input, executing, pausedTurns, activeRun>>

\* A steer the runtime accepted before the turn registered, or after it closed,
\* waits in a control nobody owns and expires.
SteersExpire(r) ==
    /\ worker[r].stage \in {"starting", "ended", "settled"}
    /\ steers[r] # {}
    /\ steers' = [steers EXCEPT ![r] = {}]
    /\ WorkerOnly
    /\ UNCHANGED <<status, input, executing, pausedTurns, activeRun, worker, claims>>

\* The last event of the turn, after the claims before it; onEvent(PAUSED)
\* records that this turn was paused.
OnTerminalEvent(r) ==
    /\ worker[r].stage = "ended"
    /\ claims[r] = {}
    /\ worker' = [worker EXCEPT ![r].stage = "settled"]
    /\ pausedTurns' = IF worker[r].outcome = "paused" /\ r \in executing
                      THEN pausedTurns \cup {r} ELSE pausedTurns
    /\ WorkerOnly
    /\ UNCHANGED <<status, input, executing, activeRun, steers, claims>>

Unlink(r) == [t \in Tasks |-> IF activeRun[t] = r THEN NoRun ELSE activeRun[t]]

\* The finally block of the worker: out of activeRuns before its callback.
WorkerFinally(r) ==
    /\ worker[r].stage = "settled"
    /\ worker' = [worker EXCEPT ![r].stage = "callback"]
    /\ activeRun' = Unlink(r)
    /\ steers' = [steers EXCEPT ![r] = {}]
    /\ WorkerOnly
    /\ UNCHANGED <<status, input, executing, pausedTurns, claims>>

\* An interrupted worker dies: neither callback was set, so none runs.
WorkerKilled(r) ==
    /\ worker[r].killed
    /\ worker[r].stage \in {"starting", "streaming", "awaiting", "ended"}
    /\ worker' = [worker EXCEPT ![r] = NoWorker]
    /\ activeRun' = Unlink(r)
    /\ steers' = [steers EXCEPT ![r] = {}]
    /\ claims' = [claims EXCEPT ![r] = {}]
    /\ WorkerOnly
    /\ UNCHANGED <<status, input, executing, pausedTurns>>

-----------------------------------------------------------------------------
(* pause and cancel: two critical sections with the service call between *)

\* Pausing a run that is paused or has ended does nothing.
PausesEndedRuns(s) == s \notin {"NEW", "PAUSED"}
Pausable(s) == s \in Working \cup {"QUEUED"}

PausesAtOnce(s) == "PAUSED"
PauseStatus(s) == IF s = "QUEUED" THEN "PAUSED" ELSE "PAUSING"

\* The first section of pause(): a queued run is paused at once, a working one
\* goes on to the service call when it holds a slot.
PauseBegin(c, r) ==
    /\ client[c].pc = "idle"
    /\ Pausable(status[r])
    /\ status' = [status EXCEPT ![r] = PauseStatus(@)]
    /\ IF status[r] = "QUEUED"
       THEN queue' = Dequeue(queue, r) /\ UNCHANGED client
       ELSE /\ client' = [client EXCEPT ![c] =
                  [pc   |-> IF r \in executing THEN "forward" ELSE "finishPause",
                   run  |-> r,
                   prev |-> IF status[r] = "PAUSING" THEN "none" ELSE status[r]]]
            /\ UNCHANGED queue
    /\ UNCHANGED <<input, pausingLog, repairable, executing, pausedTurns, activeRun,
                   worker, steers, claims, unsettled>>

PauseUnheard(w) == w
RequestPause(w) == [w EXCEPT !.pause = TRUE]

\* pauseGeneration(taskId) and the PAUSING event, which only recovery reads: the
\* turn of the task, if there is one, is asked to pause; otherwise the request is
\* rolled back.
PauseForward(c) ==
    LET r == client[c].run
        w == activeRun[TaskOf[r]]
    IN  /\ client[c].pc = "forward"
        /\ worker' = IF w = NoRun THEN worker
                     ELSE [worker EXCEPT ![w] = RequestPause(@)]
        /\ pausingLog' = IF client[c].prev = "none" THEN pausingLog
                         ELSE pausingLog \cup {r}
        /\ client' = [client EXCEPT ![c] =
                         IF w = NoRun THEN [@ EXCEPT !.pc = "rollback"] ELSE Idle]
        /\ UNCHANGED <<status, input, repairable, queue, executing, pausedTurns,
                       activeRun, steers, claims, unsettled>>

\* The status a refused pause goes back to: that of before, if this request
\* moved it and nothing else has moved it since.
RollbackAnyway(s, prev) == IF prev # "none" THEN prev ELSE s
RollbackToNothing(s, prev) == IF s = "PAUSING" THEN prev ELSE s
RolledBack(s, prev) == IF prev # "none" /\ s = "PAUSING" THEN prev ELSE s

PauseRollback(c) ==
    LET r == client[c].run
    IN  /\ client[c].pc = "rollback"
        /\ status' = [status EXCEPT ![r] = RolledBack(@, client[c].prev)]
        /\ client' = [client EXCEPT ![c] = Idle]
        /\ UNCHANGED <<input, pausingLog, repairable, queue, executing, pausedTurns,
                       activeRun, worker, steers, claims, unsettled>>

\* The second section of pause() for a run without a slot: whatever became of
\* the run meanwhile, it is PAUSED.
PauseFinish(c) ==
    /\ client[c].pc = "finishPause"
    /\ status' = [status EXCEPT ![client[c].run] = "PAUSED"]
    /\ pausingLog' = IF client[c].prev = "none" THEN pausingLog
                     ELSE pausingLog \cup {client[c].run}
    /\ client' = [client EXCEPT ![c] = Idle]
    /\ UNCHANGED <<input, repairable, queue, executing, pausedTurns,
                   activeRun, worker, steers, claims, unsettled>>

\* The first section of cancel().
CancelBegin(c, r) ==
    /\ CancelAllowed
    /\ client[c].pc = "idle"
    /\ status[r] \in Active
    /\ queue' = Dequeue(queue, r)
    /\ client' = [client EXCEPT ![c] =
          [pc   |-> IF r \in executing THEN "kill" ELSE "cancel",
           run  |-> r,
           prev |-> "none"]]
    /\ UNCHANGED <<status, input, pausingLog, repairable, executing, pausedTurns,
                   activeRun, worker, steers, claims, unsettled>>

\* cancelGeneration(taskId) interrupts the turn of the task, unless its callable
\* has returned.
CancelKill(c) ==
    LET w == activeRun[TaskOf[client[c].run]]
    IN  /\ client[c].pc = "kill"
        /\ ServiceFree
        /\ IF w # NoRun /\ worker[w].stage # "settled"
           THEN /\ worker' = [worker EXCEPT ![w].killed = TRUE]
                /\ client' = [client EXCEPT ![c].pc = "await"]
           ELSE /\ client' = [client EXCEPT ![c].pc = "cancel"]
                /\ UNCHANGED worker
        /\ UNCHANGED <<status, input, pausingLog, repairable, queue, executing,
                       pausedTurns, activeRun, steers, claims, unsettled>>

\* awaitTermination: the worker left activeRuns, or ten seconds passed.
CancelAwait(c) ==
    /\ client[c].pc = "await"
    /\ client' = [client EXCEPT ![c].pc = "cancel"]
    /\ UNCHANGED <<status, input, pausingLog, repairable, queue, executing,
                   pausedTurns, activeRun, worker, steers, claims, unsettled>>

\* The second section of cancel().
CancelSettle(c) ==
    LET r == client[c].run
    IN  /\ client[c].pc = "cancel"
        /\ pausedTurns' = pausedTurns \ {r}
        /\ DrainQueue([status EXCEPT ![r] = "CANCELLED"], queue, ReleaseExecution(executing, r),
                      worker, CancelOpenForTask(input, TaskOf[r]))
        /\ client' = [client EXCEPT ![c] = Idle]
        /\ UNCHANGED <<pausingLog, repairable, claims, unsettled>>

\* The same section when the journal of the run is quarantined and flush throws,
\* or the status or the CANCELLED event cannot be written: the slot is not released.
CancelThrows(c) ==
    LET r == client[c].run
    IN  /\ Faults
        /\ client[c].pc = "cancel"
        /\ pausedTurns' = pausedTurns \ {r}
        /\ \/ UNCHANGED <<status, input>>
           \/ /\ input' = CancelOpenForTask(input, TaskOf[r])
              /\ status' \in {status, [status EXCEPT ![r] = "CANCELLED"]}
        /\ client' = [client EXCEPT ![c] = Idle]
        /\ unsettled' = unsettled \cup {r}
        /\ UNCHANGED <<pausingLog, repairable, queue, executing, activeRun, worker,
                       steers, claims>>

-----------------------------------------------------------------------------
(* Restart *)

\* The process ends, wherever it is: only SQLite survives.
Crash ==
    /\ ready' = FALSE
    /\ queue' = <<>>
    /\ executing' = {}
    /\ pausedTurns' = {}
    /\ activeRun' = [t \in Tasks |-> NoRun]
    /\ worker' = [r \in Runs |-> NoWorker]
    /\ steers' = [r \in Runs |-> {}]
    /\ claims' = [r \in Runs |-> {}]
    /\ client' = [c \in Clients |-> Idle]
    /\ unsettled' = {}
    /\ UNCHANGED durable

\* recoverRunsAfterRestart pauses what was under way (and the failures it takes
\* for a broken pause), makes the steers a lost runtime held pending again, and
\* starts the pending next turns of the tasks that have no active run.
Recover ==
    LET broken == {r \in repairable : status[r] = "FAILED" /\ r \in pausingLog}
        back == {r \in Runs : status[r] \in Recoverable} \cup broken
        st == [r \in Runs |-> IF r \in back THEN "PAUSED" ELSE status[r]]
        inp == ResetDelivered(input, back)
    IN  /\ ~ready
        /\ ready' = TRUE
        /\ repairable' = repairable \ broken
        /\ \E pick \in NextTurns(Tasks, st, inp) :
           \E new \in SetToSeqs(Created(pick, st)) :
              DrainQueue(WithCreated(pick, st), queue \o new, executing, worker,
                         WithTaken(pick, st, inp))
        /\ UNCHANGED <<pausingLog, pausedTurns, claims, client, unsettled>>

-----------------------------------------------------------------------------
Init ==
    /\ status = [r \in Runs |-> "NEW"]
    /\ input = [i \in Inputs |-> [Detached EXCEPT !.status = "NONE"]]
    /\ pausingLog = {}
    /\ repairable = {}
    /\ queue = <<>>
    /\ executing = {}
    /\ pausedTurns = {}
    /\ activeRun = [t \in Tasks |-> NoRun]
    /\ worker = [r \in Runs |-> NoWorker]
    /\ steers = [r \in Runs |-> {}]
    /\ claims = [r \in Runs |-> {}]
    /\ client = [c \in Clients |-> Idle]
    /\ unsettled = {}
    /\ ready = TRUE

\* The Desktop's requests; it calls nothing until the Core has started.
Request ==
    /\ ready
    /\ \/ \E t \in Tasks : StartMessage(t)
       \/ \E r \in Runs : Resume(r)
       \/ \E i \in Inputs : \/ EnqueueSteer(i)
                            \/ EnqueueNextTurnInput(i)
                            \/ MarkClaimed(i)
                            \/ UpdateToSteer(i)
                            \/ UpdateToNextTurn(i)
                            \/ DeleteInput(i)
       \/ \E c \in Clients, r \in Runs : PauseBegin(c, r) \/ CancelBegin(c, r)
    /\ UNCHANGED ready

ClientStep(c) ==
    /\ \/ PauseForward(c)
       \/ PauseRollback(c)
       \/ PauseFinish(c)
       \/ CancelKill(c)
       \/ CancelAwait(c)
       \/ CancelSettle(c)
       \/ CancelThrows(c)
    /\ UNCHANGED ready

\* What ends a turn once it is open, and what follows.
Converge(r) ==
    /\ \/ StartRuntime(r)
       \/ ClaimSteers(r)
       \/ \E i \in Inputs : OnSteerClaimed(r, i)
       \/ \E outcome \in {"completed", "paused", "failed"} : TurnEnds(r, outcome)
       \/ OnTerminalEvent(r)
       \/ WorkerFinally(r)
       \/ WorkerKilled(r)
       \/ Complete(r)
       \/ Fail(r)
       \/ SettleThrows(r)
    /\ UNCHANGED ready

Elsewhere(r) ==
    /\ \/ OnApprovalRequested(r)
       \/ OnApprovalResolved(r)
       \/ SteersExpire(r)
    /\ UNCHANGED ready

Next ==
    \/ Request
    \/ \E c \in Clients : ClientStep(c)
    \/ \E r \in Runs : Converge(r) \/ Elsewhere(r)
    \/ Crash
    \/ Recover

Spec == Init /\ [][Next]_vars

-----------------------------------------------------------------------------
(* Properties *)

\* Every variable keeps its type: no handler writes a status, a slot or a client
\* step the code does not have.
TypeOK ==
    /\ status \in [Runs -> Status]
    /\ input \in [Inputs -> Input]
    /\ pausingLog \subseteq Runs
    /\ repairable \subseteq Runs
    /\ queue \in Seq(Runs)
    /\ executing \subseteq Runs
    /\ pausedTurns \subseteq Runs
    /\ activeRun \in [Tasks -> Runs \cup {NoRun}]
    /\ worker \in [Runs -> Worker]
    /\ steers \in [Runs -> SUBSET Inputs]
    /\ claims \in [Runs -> SUBSET Inputs]
    /\ client \in [Clients -> Client]
    /\ unsettled \subseteq Runs
    /\ ready \in BOOLEAN

\* drainQueue never hands out more slots than lumora.runs.max-concurrent, however
\* completions, failed starts, cancels and resumes follow one another.
SlotBound == Cardinality(executing) <= MaxConcurrentRuns

\* A task has at most one active run (the check createAndEnqueue and
\* enqueueNextTurn make), whatever pauses, cancels and crashes come between.
OneActiveRunPerTask ==
    \A r, s \in Runs :
        TaskOf[r] = TaskOf[s] /\ status[r] \in Active /\ status[s] \in Active
            => r = s

\* A run that is running, waiting for approval or pausing holds a slot: the
\* callback, the cancel and the rolled-back pause that move it out of these
\* statuses never leave one behind without its slot.
WorkingRunsHoldSlots ==
    ready => \A r \in Runs : status[r] \in Working => r \in executing \cup unsettled

\* Only such a run holds a slot: none is lost to a run that ended or is paused,
\* save where a settlement was cut short by a fault.
SlotsAreWorked ==
    \A r \in executing : status[r] \in Working \/ r \in unsettled

\* "Every durable QUEUED run must be process-queued", except while its cancel is
\* under way or has failed. Nothing is queued twice, and whatever else is queued
\* was cancelled since, so that drainQueue drops it.
QueuedRunsAreEnqueued ==
    ready => /\ Cardinality(Range(queue)) = Len(queue)
             /\ \A r \in Range(queue) : status[r] \in {"QUEUED", "CANCELLED"}
             /\ \A r \in Runs : status[r] = "QUEUED" /\ r \notin Range(queue) =>
                    r \in unsettled \/ \E c \in Clients : client[c].run = r

\* A run that may be given a new turn has nothing left of its last one: callbacks
\* carry the run id only and could not tell the two apart.
NextTurnStartsClean ==
    \A r \in Runs : status[r] \in {"QUEUED", "PAUSED"} => worker[r] = NoWorker

\* An open steer is bound to a run that can still take it or hand it back: no run
\* ends with steers that nothing will ever deliver.
OpenSteersBelongToActiveRuns ==
    \A i \in Inputs : input[i].target = "NEXT_STEP" /\ input[i].status \in Editable
                      => status[input[i].run] \in Active

\* A pending next-turn input of a task with no active run was left behind by a
\* run that failed or whose settlement did: complete(), cancel(), the inputs' own
\* entry points and recovery never strand one.
NextTurnsFollowOn ==
    ready => \A i \in Inputs :
        input[i].target = "NEXT_TURN" /\ input[i].status = "PENDING" =>
            \E r \in RunsOf(TaskOf[i]) :
                status[r] \in Active \cup {"FAILED"} \/ r \in unsettled

\* A claimed or cancelled input never opens again and never changes sides, not
\* even when the runtime claims a steer the user has deleted meanwhile.
ClosedInputsStayClosed ==
    [][\A i \in Inputs : input[i].status \in {"CLAIMED", "CANCELLED"} =>
          input'[i] = input[i]]_vars

\* The runs seen as the life cycle promises them.
phase == [r \in Runs |-> CASE status[r] = "NEW" -> "new"
                           [] status[r] = "QUEUED" -> "waiting"
                           [] status[r] \in Working -> "active"
                           [] status[r] = "PAUSED" -> "paused"
                           [] OTHER -> "done"]

Lifecycle == INSTANCE RunLifecycle

\* The coordinator implements the life cycle: a run that ended stays ended, one
\* that works goes back to the queue only through PAUSED, and slots are bounded.
LifecycleSpec == Lifecycle!Spec

-----------------------------------------------------------------------------
(* Progress *)

\* Workers, API threads and recovery keep going. A turn that waits for a person
\* to approve a tool is not made to end unless it was asked to pause.
Fairness ==
    /\ WF_vars(Recover)
    /\ \A c \in Clients : WF_vars(ClientStep(c))
    /\ \A r \in Runs :
         WF_vars((worker[r].stage = "awaiting" => worker[r].pause) /\ Converge(r))

FairSpec == Spec /\ Fairness

\* A pause request converges: no run stays in PAUSING.
PausesConverge ==
    \A r \in Runs : status[r] = "PAUSING" ~> status[r] # "PAUSING"

\* A queued run leaves the queue unless a run with a slot waits for a person.
QueuedRunsAreServed ==
    \A r \in Runs : status[r] = "QUEUED" ~>
        \/ status[r] # "QUEUED"
        \/ \E s \in Runs : status[s] = "WAITING_APPROVAL"

-----------------------------------------------------------------------------
(* What the documents say and the code does not keep *)

\* "A run releases its slot only once it is paused, completed, failed or cancelled
\* and has converged": no turn that nobody interrupted stays open without a slot.
SlotsOutliveTurns ==
    \A r \in Runs : /\ worker[r].stage \in {"starting", "streaming", "awaiting"}
                    /\ ~worker[r].killed
                    => r \in executing

\* "A steer bound to a paused run stays PENDING": the resumed turn is handed the
\* PENDING ones only.
PausedRunsKeepSteersPending ==
    \A i \in Inputs : /\ input[i].target = "NEXT_STEP"
                      /\ input[i].status \in Editable
                      /\ status[input[i].run] = "PAUSED"
                      => input[i].status = "PENDING"

=============================================================================
