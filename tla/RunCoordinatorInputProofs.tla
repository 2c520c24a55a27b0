--------------------- MODULE RunCoordinatorInputProofs ----------------------
(***************************************************************************)
(* The queued inputs: a closed one stays closed, an open steer belongs to  *)
(* an active run of its task, and a pending next turn is never stranded.   *)
(***************************************************************************)
EXTENDS RunCoordinatorRunProofs

-----------------------------------------------------------------------------
(* Closed inputs *)

Closed(x) == x.status \in {"CLAIMED", "CANCELLED"}

\* The inputs inp differ from the present ones in open inputs only.
KeepsClosed(inp) == \A i \in Inputs : Closed(input[i]) => inp[i] = input[i]

\* deliverPendingSteers and the failed starts of drainQueue touch open steers only.
LEMMA DrainKeepsClosed ==
    ASSUME NEW st, NEW q, NEW ex, NEW wk, NEW inp, KeepsClosed(inp),
           DrainQueue(st, q, ex, wk, inp)
    PROVE  KeepsClosed(input')
<1>1. PICK n \in 0..Len(q), bad \in SUBSET {r \in Range(q) : st[r] = "QUEUED"} :
        DeliverPendingSteers(Started(st, q, bad, n), MoveOpenSteersToNextTurn(inp, bad))
  BY DEF DrainQueue
<1> DEFINE moved == MoveOpenSteersToNextTurn(inp, bad)
           start == Started(st, q, bad, n)
<1>2. KeepsClosed(moved)
  BY DEF KeepsClosed, MoveOpenSteersToNextTurn, OpenSteer, Editable, Closed
<1> HIDE DEF moved, start
<1>3. PICK accepted, rejected \in SUBSET PendingSteers(start, moved) :
        input' = AfterDelivery(moved, accepted, rejected)
  BY <1>1, SteersDelivered DEF moved, start
<1>4. \A i \in PendingSteers(start, moved) : ~Closed(input[i])
  BY <1>2 DEF KeepsClosed, Closed, PendingSteers
<1> QED BY <1>2, <1>3, <1>4 DEF KeepsClosed, AfterDelivery

\* The input enqueueNextTurn takes was pending.
LEMMA NextTurnKeepsClosed ==
    ASSUME NEW ts, NEW st, NEW inp, KeepsClosed(inp), NEW q, NEW ex, NEW wk,
           \E pick \in NextTurns(ts, st, inp) :
           \E new \in SetToSeqs(Created(pick, st)) :
              DrainQueue(WithCreated(pick, st), q \o new, ex, wk, WithTaken(pick, st, inp))
    PROVE  KeepsClosed(input')
<1>1. PICK pick \in NextTurns(ts, st, inp) :
      \E new \in SetToSeqs(Created(pick, st)) :
        DrainQueue(WithCreated(pick, st), q \o new, ex, wk, WithTaken(pick, st, inp))
  OBVIOUS
<1>2. PICK new \in SetToSeqs(Created(pick, st)) :
        DrainQueue(WithCreated(pick, st), q \o new, ex, wk, WithTaken(pick, st, inp))
  BY <1>1
<1>3. \A t \in DOMAIN pick : pick[t] \in Inputs /\ inp[pick[t]].status = "PENDING"
  BY DEF NextTurns, PendingNextTurns, InputsOf
<1>4. KeepsClosed(WithTaken(pick, st, inp))
  BY <1>3 DEF KeepsClosed, WithTaken, Closed
<1> QED BY <1>2, <1>4, DrainKeepsClosed

\* deliverSteer saves the input it is called for, and it was open.
LEMMA DeliverKeepsClosed ==
    ASSUME TypeOK, NEW i \in Inputs, ~Closed(input[i]), NEW x, DeliverSteer(i, x)
    PROVE  KeepsClosed(input')
<1>1. \A j \in Inputs \ {i} : input'[j] = input[j]
  BY DEF DeliverSteer, TypeOK
<1> QED BY <1>1 DEF KeepsClosed

\* The requests of the Desktop.
LEMMA RequestKeepsClosed == TypeOK /\ Request => KeepsClosed(input')
<1> SUFFICES ASSUME TypeOK, Request PROVE KeepsClosed(input')
  OBVIOUS
<1>0. KeepsClosed(input)
  BY DEF KeepsClosed
<1>1. ASSUME NEW t \in Tasks, StartMessage(t) PROVE KeepsClosed(input')
  BY <1>0, <1>1, DrainKeepsClosed DEF StartMessage
<1>2. ASSUME NEW r \in Runs, Resume(r) PROVE KeepsClosed(input')
  BY <1>0, <1>2, DrainKeepsClosed DEF Resume
<1>3. ASSUME NEW i \in Inputs, ~Closed(input[i]), NEW x, input' = [input EXCEPT ![i] = x]
      PROVE  KeepsClosed(input')
  BY <1>3 DEF KeepsClosed, TypeOK
<1>4. ASSUME NEW i \in Inputs, EnqueueSteer(i) \/ UpdateToSteer(i)
      PROVE  KeepsClosed(input')
  <2>1. ~Closed(input[i])
    BY <1>4 DEF EnqueueSteer, UpdateToSteer, Closed
  <2>2. PICK x : DeliverSteer(i, x)
    BY <1>4 DEF EnqueueSteer, UpdateToSteer
  <2> QED BY <2>1, <2>2, DeliverKeepsClosed
<1>5. ASSUME NEW i \in Inputs, EnqueueNextTurnInput(i) \/ UpdateToNextTurn(i)
      PROVE  KeepsClosed(input')
  <2> DEFINE inp == [input EXCEPT ![i] = Detached]
  <2>1. ~Closed(input[i])
    BY <1>5 DEF EnqueueNextTurnInput, UpdateToNextTurn, Closed
  <2>2. KeepsClosed(inp)
    BY <2>1 DEF KeepsClosed, TypeOK
  <2>3. input' = inp \/ NextTurnAndDrain(TaskOf[i], inp)
    BY <1>5 DEF EnqueueNextTurnInput, UpdateToNextTurn
  <2> HIDE DEF inp
  <2>4. CASE NextTurnAndDrain(TaskOf[i], inp)
    BY <2>2, <2>4, NextTurnKeepsClosed DEF NextTurnAndDrain
  <2> QED BY <2>2, <2>3, <2>4
<1>6. ASSUME NEW i \in Inputs, MarkClaimed(i) \/ DeleteInput(i) PROVE KeepsClosed(input')
  <2>1. ~Closed(input[i])
    BY <1>6 DEF MarkClaimed, DeleteInput, Closed
  <2>2. \E s \in {"CLAIMED", "CANCELLED"} : input' = [input EXCEPT ![i].status = s]
    BY <1>6 DEF MarkClaimed, DeleteInput
  <2> QED BY <2>1, <2>2 DEF KeepsClosed, TypeOK
<1>7. ASSUME NEW c \in Clients, NEW r \in Runs, PauseBegin(c, r) \/ CancelBegin(c, r)
      PROVE  KeepsClosed(input')
  BY <1>0, <1>7 DEF PauseBegin, CancelBegin
<1> QED BY <1>1, <1>2, <1>4, <1>5, <1>6, <1>7 DEF Request

\* cancel() closes open inputs only; pause() touches none.
LEMMA ClientKeepsClosed ==
    ASSUME TypeOK, NEW c \in Clients, ClientStep(c)
    PROVE  KeepsClosed(input')
<1>0. KeepsClosed(input) /\ \A t : KeepsClosed(CancelOpenForTask(input, t))
  BY DEF KeepsClosed, CancelOpenForTask, Editable, Closed
<1>1. CASE CancelSettle(c)
  BY <1>0, <1>1, DrainKeepsClosed DEF CancelSettle
<1>2. CASE CancelThrows(c)
  BY <1>0, <1>2 DEF CancelThrows
<1>3. CASE input' = input
  BY <1>0, <1>3
<1> QED BY <1>1, <1>2, <1>3
        DEF ClientStep, PauseForward, PauseRollback, PauseFinish, CancelKill, CancelAwait

\* A claim event that comes late, for a steer deleted or claimed meanwhile, changes
\* nothing.
LEMMA TurnKeepsClosed ==
    ASSUME TypeOK, NEW r \in Runs, Converge(r) \/ Elsewhere(r)
    PROVE  KeepsClosed(input')
<1>0. /\ KeepsClosed(input)
      /\ \A rs : KeepsClosed(MoveOpenSteersToNextTurn(input, rs))
  BY DEF KeepsClosed, MoveOpenSteersToNextTurn, OpenSteer, Editable, Closed
<1>1. CASE Complete(r)
  <2> DEFINE paused == r \in pausedTurns
             st == [status EXCEPT ![r] = AfterCompletion(@, paused)]
             inp == IF st[r] # status[r] /\ ~paused
                    THEN MoveOpenSteersToNextTurn(input, {r}) ELSE input
             ex == ReleaseExecution(executing, r)
             wk == [worker EXCEPT ![r] = NoWorker]
  <2>1. \E pick \in NextTurns(MovesOn(r, st[r], paused), st, inp) :
        \E new \in SetToSeqs(Created(pick, st)) :
          DrainQueue(WithCreated(pick, st), queue \o new, ex, wk, WithTaken(pick, st, inp))
    BY <1>1 DEF Complete
  <2>2. KeepsClosed(inp)
    BY <1>0
  <2> HIDE DEF st, inp, paused, ex, wk
  <2> QED BY <2>1, <2>2, NextTurnKeepsClosed
<1>2. CASE Fail(r)
  <2> DEFINE st == [status EXCEPT ![r] = AfterFailure(@, r \in pausedTurns)]
             inp == IF st[r] = "FAILED" THEN MoveOpenSteersToNextTurn(input, {r}) ELSE input
             ex == ReleaseExecution(executing, r)
             wk == [worker EXCEPT ![r] = NoWorker]
  <2>1. DrainQueue(st, queue, ex, wk, inp)
    BY <1>2 DEF Fail
  <2>2. KeepsClosed(inp)
    BY <1>0
  <2> HIDE DEF st, inp, ex, wk
  <2> QED BY <2>1, <2>2, DrainKeepsClosed
<1>3. CASE SettleThrows(r)
  <2>1. PICK s \in {status[r], Settlement(r)},
             inp \in {input, MoveOpenSteersToNextTurn(input, {r})} :
          DrainQueue([status EXCEPT ![r] = s], queue, ReleaseExecution(executing, r),
                     [worker EXCEPT ![r] = NoWorker], inp)
    BY <1>3 DEF SettleThrows
  <2>2. KeepsClosed(inp)
    BY <1>0
  <2> QED BY <2>1, <2>2, DrainKeepsClosed
<1>4. CASE \E i \in Inputs : OnSteerClaimed(r, i)
  BY <1>4 DEF OnSteerClaimed, Claim, Editable, KeepsClosed, Closed, TypeOK
<1>5. CASE input' = input
  BY <1>0, <1>5
<1> QED BY <1>1, <1>2, <1>3, <1>4, <1>5
        DEF Converge, Elsewhere, StartRuntime, ClaimSteers, TurnEnds, OnTerminalEvent,
            WorkerFinally, WorkerKilled, OnApprovalRequested, OnApprovalResolved, SteersExpire

\* Recovery makes delivered steers pending again, and takes pending next turns.
LEMMA RecoverKeepsClosed == Recover => KeepsClosed(input')
<1> SUFFICES ASSUME Recover PROVE KeepsClosed(input')
  OBVIOUS
<1> DEFINE broken == {r \in repairable : status[r] = "FAILED" /\ r \in pausingLog}
           back == {r \in Runs : status[r] \in Recoverable} \cup broken
           st == [r \in Runs |-> IF r \in back THEN "PAUSED" ELSE status[r]]
           inp == ResetDelivered(input, back)
<1>1. \E pick \in NextTurns(Tasks, st, inp) :
      \E new \in SetToSeqs(Created(pick, st)) :
        DrainQueue(WithCreated(pick, st), queue \o new, executing, worker,
                   WithTaken(pick, st, inp))
  BY DEF Recover
<1>2. KeepsClosed(inp)
  BY DEF KeepsClosed, ResetDelivered, Closed
<1> HIDE DEF st, inp
<1> QED BY <1>1, <1>2, NextTurnKeepsClosed

\* No step touches a closed input.
LEMMA NextKeepsClosed == TypeOK /\ [Next]_vars => KeepsClosed(input')
<1> SUFFICES ASSUME TypeOK, [Next]_vars PROVE KeepsClosed(input')
  OBVIOUS
<1>1. ASSUME UNCHANGED input PROVE KeepsClosed(input')
  BY <1>1 DEF KeepsClosed
<1> QED BY <1>1, RequestKeepsClosed, ClientKeepsClosed, TurnKeepsClosed, RecoverKeepsClosed
        DEF Next, Crash, durable, vars

\* A claimed or cancelled input never opens again and never changes sides, not even
\* when the runtime claims a steer the user has deleted, or after a restart.
THEOREM InputsStayClosed == Spec => ClosedInputsStayClosed
<1>1. TypeOK /\ [Next]_vars =>
        [\A i \in Inputs : input[i].status \in {"CLAIMED", "CANCELLED"}
                              => input'[i] = input[i]]_vars
  BY NextKeepsClosed DEF KeepsClosed, Closed
<1> QED BY <1>1, TypeCorrect, PTL DEF Spec, ClosedInputsStayClosed

-----------------------------------------------------------------------------
(* The inductive invariant *)

\* There are run ids for every input of a task to get a turn of its own (they are
\* fresh UUIDs: the code does not run out of them).
RunsSuffice == \A t \in Tasks : Cardinality(InputsOf(t)) <= Cardinality(RunsOf(t))

Opens(x) == x.status \in Editable \cup {"NONE"}
Waiting(x) == x.target = "NEXT_TURN" /\ x.status = "PENDING"

\* An open steer is bound to an active run of its task, and only steers are
\* delivered.
SteersOK(st, inp) ==
    \A i \in Inputs :
        /\ inp[i].target = "NEXT_STEP" /\ inp[i].status \in Editable =>
              /\ inp[i].run \in Runs
              /\ TaskOf[inp[i].run] = TaskOf[i]
              /\ st[inp[i].run] \in Active
        /\ inp[i].status = "DELIVERED" => inp[i].target = "NEXT_STEP"

\* A waiting input has a run that will move it on, or has failed to. Those of the
\* tasks ts are about to be looked after.
Leads(t, st, un) == \E r \in RunsOf(t) : st[r] \in Active \cup {"FAILED"} \/ r \in un

FollowOK(ts, st, inp, un) ==
    RunsSuffice =>
        \A i \in Inputs : TaskOf[i] \notin ts /\ Waiting(inp[i]) => Leads(TaskOf[i], st, un)

\* Every open input of a task can still get a run.
OpenInputs(t, inp) == {i \in InputsOf(t) : Opens(inp[i])}

ReserveOK(st, inp) ==
    RunsSuffice =>
        \A t \in Tasks : Cardinality(OpenInputs(t, inp)) <= Cardinality(Unused(t, st))

\* A run that is new now was so before the step, and has no turn.
NewFrom(st, wk) == \A x \in Runs : st[x] = "NEW" => status[x] = "NEW" /\ wk[x].stage = "none"

InputInv ==
    /\ SteersOK(status, input)
    /\ ReserveOK(status, input)
    /\ ready => FollowOK({}, status, input, unsettled)
    /\ NewFrom(status, worker)
    /\ ClientsKnowRuns

\* What a step has to leave behind, but for the clients.
InputStep ==
    /\ SteersOK(status', input')
    /\ ReserveOK(status', input')
    /\ ready' => FollowOK({}, status', input', unsettled')
    /\ NewFrom(status', worker')

\* The process starts with no input and every run id.
LEMMA InputInit == Init => InputInv
<1> SUFFICES ASSUME Init PROVE InputInv
  OBVIOUS
<1>1. /\ \A i \in Inputs : input[i].status = "NONE"
      /\ \A r \in Runs : status[r] = "NEW" /\ worker[r] = NoWorker
      /\ \A c \in Clients : client[c] = Idle
  BY DEF Init, Detached
<1>2. SteersOK(status, input) /\ FollowOK({}, status, input, unsettled)
  BY <1>1 DEF SteersOK, FollowOK, Waiting, Editable
<1>3. ReserveOK(status, input)
  <2>1. \A t \in Tasks : OpenInputs(t, input) = InputsOf(t) /\ Unused(t, status) = RunsOf(t)
    BY <1>1 DEF OpenInputs, Opens, InputsOf, Unused, RunsOf
  <2> QED BY <2>1 DEF ReserveOK, RunsSuffice
<1>4. NewFrom(status, worker) /\ ClientsKnowRuns
  BY <1>1 DEF NewFrom, ClientsKnowRuns, NoWorker
<1> QED BY <1>2, <1>3, <1>4 DEF InputInv

\* Inputs that close and runs that do not begin leave the reserve.
LEMMA ReserveKept ==
    ASSUME NEW st0, NEW inp0, NEW st, NEW inp, ReserveOK(st0, inp0),
           \A x \in Runs : st0[x] = "NEW" => st[x] = "NEW",
           \A i \in Inputs : Opens(inp[i]) => Opens(inp0[i])
    PROVE  ReserveOK(st, inp)
<1> SUFFICES ASSUME RunsSuffice, NEW t \in Tasks
             PROVE  Cardinality(OpenInputs(t, inp)) <= Cardinality(Unused(t, st))
  BY DEF ReserveOK
<1>1. /\ OpenInputs(t, inp) \subseteq OpenInputs(t, inp0)
      /\ Unused(t, st0) \subseteq Unused(t, st)
      /\ OpenInputs(t, inp0) \subseteq Inputs /\ Unused(t, st) \subseteq Runs
  BY DEF OpenInputs, InputsOf, Unused, RunsOf
<1>2. IsFiniteSet(OpenInputs(t, inp0)) /\ IsFiniteSet(Unused(t, st))
  BY <1>1, FiniteAssumption, FS_Subset
<1>3. /\ Cardinality(OpenInputs(t, inp)) <= Cardinality(OpenInputs(t, inp0))
      /\ Cardinality(Unused(t, st0)) <= Cardinality(Unused(t, st))
      /\ IsFiniteSet(OpenInputs(t, inp)) /\ IsFiniteSet(Unused(t, st0))
  BY <1>1, <1>2, FS_Subset
<1>4. /\ Cardinality(OpenInputs(t, inp)) \in Nat /\ Cardinality(OpenInputs(t, inp0)) \in Nat
      /\ Cardinality(Unused(t, st0)) \in Nat /\ Cardinality(Unused(t, st)) \in Nat
  BY <1>2, <1>3, FS_CardinalityType
<1>5. Cardinality(OpenInputs(t, inp0)) <= Cardinality(Unused(t, st0))
  BY DEF ReserveOK
<1> QED BY <1>3, <1>4, <1>5

\* drainQueue turns the steers of a run that fails to start into next turns, which
\* that run leads; the others keep their run.
LEMMA InputDrained ==
    ASSUME TypeOK, NEW st \in [Runs -> Status], NEW q \in Seq(Runs), NEW ex,
           NEW wk \in [Runs -> Worker], NEW inp \in [Inputs -> Input],
           SteersOK(st, inp), ReserveOK(st, inp), FollowOK({}, st, inp, unsettled'),
           NewFrom(st, wk), DrainQueue(st, q, ex, wk, inp)
    PROVE  InputStep
<1>1. PICK n \in 0..Len(q), bad \in SUBSET {r \in Range(q) : st[r] = "QUEUED"} :
         /\ status' = [r \in Runs |-> IF r \in Started(st, q, bad, n) THEN "RUNNING"
                                      ELSE IF r \in bad THEN "FAILED" ELSE st[r]]
         /\ DeliverPendingSteers(Started(st, q, bad, n), MoveOpenSteersToNextTurn(inp, bad))
  BY DEF DrainQueue
<1> DEFINE moved == MoveOpenSteersToNextTurn(inp, bad)
           start == Started(st, q, bad, n)
<1>2. /\ \A x \in bad : x \in Runs /\ st[x] = "QUEUED"
      /\ \A x \in start : x \in Runs \ bad /\ st[x] = "QUEUED"
  <2>1. /\ Range(q) \subseteq Runs
        /\ \A k \in 0..Len(q) : /\ Started(st, q, bad, k) \subseteq Runs \ bad
                                /\ \A r \in Started(st, q, bad, k) : st[r] = "QUEUED"
    BY StartedRuns
  <2> QED BY <2>1
<1>3. PICK accepted, rejected \in SUBSET PendingSteers(start, moved) :
        input' = AfterDelivery(moved, accepted, rejected)
  BY <1>1, SteersDelivered
<1>4. \A i \in Inputs : \/ moved[i] = Detached /\ OpenSteer(inp[i], bad)
                        \/ moved[i] = inp[i] /\ ~OpenSteer(inp[i], bad)
  BY DEF MoveOpenSteersToNextTurn
<1> HIDE DEF moved, start
<1>5. \A x \in Runs : /\ st[x] = "NEW" <=> status'[x] = "NEW"
                      /\ st[x] \in Active => status'[x] \in Active \/ x \in bad
                      /\ st[x] = "FAILED" \/ x \in bad => status'[x] = "FAILED"
  BY <1>1, <1>2 DEF start, Active, Working
<1>6. moved \in [Inputs -> Input]
  BY InputsType DEF moved
<1>7. \A i \in Inputs :
        \/ input'[i] = moved[i]
        \/ /\ moved[i].status = "PENDING" /\ moved[i].target = "NEXT_STEP"
           /\ input'[i].status = "DELIVERED" /\ input'[i].target = moved[i].target
           /\ input'[i].run = moved[i].run
        \/ /\ moved[i].status = "PENDING" /\ moved[i].target = "NEXT_STEP"
           /\ moved[i].run \in start /\ input'[i] = Detached
  <2>1. \A x \in Input : LET y == [x EXCEPT !.status = "DELIVERED"]
                         IN  y.status = "DELIVERED" /\ y.target = x.target /\ y.run = x.run
    BY DEF Input
  <2> TAKE i \in Inputs
  <2> DEFINE y == [moved[i] EXCEPT !.status = "DELIVERED"]
  <2>2. input'[i] = IF i \in accepted THEN y ELSE IF i \in rejected THEN Detached ELSE moved[i]
    BY <1>3 DEF AfterDelivery
  <2>3. y.status = "DELIVERED" /\ y.target = moved[i].target /\ y.run = moved[i].run
    BY <1>6, <2>1
  <2>4. i \in accepted \cup rejected =>
          /\ moved[i].status = "PENDING" /\ moved[i].target = "NEXT_STEP"
          /\ moved[i].run \in start
    BY DEF PendingSteers
  <2> HIDE DEF y
  <2> QED BY <2>2, <2>3, <2>4
<1>8. Detached.target = "NEXT_TURN" /\ Detached.status = "PENDING"
  BY DEF Detached
<1>9. SteersOK(status', input')
  <2> SUFFICES ASSUME NEW i \in Inputs
               PROVE  /\ input'[i].target = "NEXT_STEP" /\ input'[i].status \in Editable =>
                            /\ input'[i].run \in Runs
                            /\ TaskOf[input'[i].run] = TaskOf[i]
                            /\ status'[input'[i].run] \in Active
                      /\ input'[i].status = "DELIVERED" => input'[i].target = "NEXT_STEP"
    BY DEF SteersOK
  <2>1. CASE input'[i] = Detached
    BY <1>8, <2>1
  <2>2. CASE input'[i] # Detached /\ input'[i].target = "NEXT_STEP" /\ moved[i] = inp[i]
    <3>1. input'[i].status \in Editable =>
            inp[i].status \in Editable /\ inp[i].target = "NEXT_STEP" /\ inp[i].run = input'[i].run
      BY <1>7, <2>2 DEF Editable
    <3>2. input'[i].status \in Editable => inp[i].run \notin bad
      BY <1>4, <2>2, <3>1, <1>8 DEF OpenSteer
    <3> QED BY <1>5, <2>2, <3>1, <3>2 DEF SteersOK
  <2>3. CASE input'[i] # Detached /\ input'[i].target # "NEXT_STEP" /\ moved[i] = inp[i]
    <3>1. input'[i] = inp[i]
      BY <1>7, <2>3
    <3> QED BY <2>3, <3>1 DEF SteersOK
  <2> QED BY <1>4, <1>7, <1>8, <2>1, <2>2, <2>3
<1>10. FollowOK({}, status', input', unsettled')
  <2> SUFFICES ASSUME RunsSuffice, NEW i \in Inputs, Waiting(input'[i])
               PROVE  Leads(TaskOf[i], status', unsettled')
    BY DEF FollowOK
  <2>1. CASE moved[i].status = "PENDING" /\ moved[i].target = "NEXT_STEP" /\ moved[i].run \in start
    <3>1. inp[i] = moved[i] /\ inp[i].status \in Editable
      BY <1>4, <1>8, <2>1 DEF Editable
    <3>2. inp[i].run \in Runs /\ TaskOf[inp[i].run] = TaskOf[i] /\ inp[i].run \in start
      BY <2>1, <3>1 DEF SteersOK
    <3>3. status'[inp[i].run] \in Active
      BY <1>1, <3>2 DEF start, Active, Working
    <3> QED BY <3>2, <3>3 DEF Leads, RunsOf
  <2>5. CASE input'[i].status = "DELIVERED"
    BY <2>5 DEF Waiting
  <2>2. CASE OpenSteer(inp[i], bad)
    <3>1. inp[i].run \in bad /\ TaskOf[inp[i].run] = TaskOf[i]
      BY <2>2 DEF OpenSteer, SteersOK
    <3> QED BY <1>2, <1>5, <3>1 DEF Leads, RunsOf
  <2>3. CASE ~OpenSteer(inp[i], bad)
    <3>1. CASE input'[i] = moved[i]
      <4>1. Leads(TaskOf[i], st, unsettled')
        BY <1>4, <2>3, <3>1 DEF FollowOK
      <4> QED BY <1>5, <4>1 DEF Leads, RunsOf
    <3> QED BY <1>7, <2>1, <2>5, <3>1
  <2> QED BY <2>2, <2>3
<1>11. ReserveOK(status', input')
  <2>1. \A i \in Inputs : Opens(input'[i]) => Opens(inp[i])
    BY <1>4, <1>7, <1>8 DEF Opens, Editable, OpenSteer
  <2> QED BY <1>5, <2>1, ReserveKept
<1>12. NewFrom(status', worker')
  <2>1. \A x \in Runs : DrainedFrom(x, st[x], wk[x])
    BY DrainQueueRuns
  <2> QED BY <1>5, <2>1 DEF NewFrom, DrainedFrom
<1> QED BY <1>9, <1>10, <1>11, <1>12 DEF InputStep

\* The run enqueueNextTurn creates for a task is new and belongs to it.
LEMMA NextTurnsAreFresh ==
    ASSUME TypeOK, NEW ts \in SUBSET Tasks, NEW st \in [Runs -> Status],
           NEW inp \in [Inputs -> Input], NEW pick \in NextTurns(ts, st, inp)
    PROVE  \A t \in DOMAIN pick : /\ FreshRun(t, st) \in Runs
                                  /\ st[FreshRun(t, st)] = "NEW"
                                  /\ TaskOf[FreshRun(t, st)] = t
<1>1. \A t \in DOMAIN pick : /\ FreshRun(t, st) \in Runs
                             /\ st[FreshRun(t, st)] = "NEW"
                             /\ TaskOf[FreshRun(t, st)] = t
                             /\ ActiveRuns(t, st) = {}
  BY NextTurnsCreate
<1> QED BY <1>1

\* enqueueNextTurn spends a run of its task on an input of it.
LEMMA ReserveTaken ==
    ASSUME TypeOK, NEW ts \in SUBSET Tasks, NEW st \in [Runs -> Status],
           NEW inp \in [Inputs -> Input], NEW pick \in NextTurns(ts, st, inp),
           ReserveOK(st, inp)
    PROVE  ReserveOK(WithCreated(pick, st), WithTaken(pick, st, inp))
<1> DEFINE cr == WithCreated(pick, st)
           taken == WithTaken(pick, st, inp)
<1> SUFFICES ASSUME RunsSuffice, NEW t \in Tasks
             PROVE  Cardinality(OpenInputs(t, taken)) <= Cardinality(Unused(t, cr))
  BY DEF ReserveOK
<1>1. \A u \in DOMAIN pick : /\ FreshRun(u, st) \in Runs /\ st[FreshRun(u, st)] = "NEW"
                             /\ TaskOf[FreshRun(u, st)] = u
                             /\ pick[u] \in Inputs /\ TaskOf[pick[u]] = u
                             /\ inp[pick[u]].status = "PENDING"
  <2>1. \A u \in DOMAIN pick : pick[u] \in PendingNextTurns(u, inp)
    BY DEF NextTurns
  <2>2. \A u \in DOMAIN pick : /\ FreshRun(u, st) \in Runs /\ st[FreshRun(u, st)] = "NEW"
                               /\ TaskOf[FreshRun(u, st)] = u
    BY NextTurnsAreFresh
  <2> QED BY <2>1, <2>2 DEF PendingNextTurns, InputsOf
<1>2. \A x \in Runs : cr[x] = "NEW" <=> /\ st[x] = "NEW"
                                       /\ \A u \in DOMAIN pick : x # FreshRun(u, st)
  BY DEF WithCreated, Created
<1>3. \A i \in Inputs : Opens(taken[i]) <=>
          Opens(inp[i]) /\ \A u \in DOMAIN pick : i # pick[u]
  <2> TAKE i \in Inputs
  <2>1. CASE TaskOf[i] \in DOMAIN pick /\ pick[TaskOf[i]] = i
    BY <2>1 DEF WithTaken, Opens, Editable
  <2>2. CASE ~(TaskOf[i] \in DOMAIN pick /\ pick[TaskOf[i]] = i)
    <3>1. \A u \in DOMAIN pick : i # pick[u]
      BY <1>1, <2>2
    <3> QED BY <2>2, <3>1 DEF WithTaken
  <2> QED BY <2>1, <2>2
<1> HIDE DEF cr, taken
<1>4. CASE t \notin DOMAIN pick
  <2>1. OpenInputs(t, taken) = OpenInputs(t, inp) /\ Unused(t, cr) = Unused(t, st)
    BY <1>1, <1>2, <1>3, <1>4 DEF OpenInputs, InputsOf, Unused, RunsOf
  <2> QED BY <2>1 DEF ReserveOK
<1>5. CASE t \in DOMAIN pick
  <2> DEFINE open == OpenInputs(t, inp)
             free == Unused(t, st)
             r == FreshRun(t, st)
  <2>1. /\ OpenInputs(t, taken) = open \ {pick[t]} /\ pick[t] \in open
        /\ Unused(t, cr) = free \ {r} /\ r \in free
    BY <1>1, <1>2, <1>3, <1>5 DEF OpenInputs, InputsOf, Unused, RunsOf, Opens, Editable
  <2>2. IsFiniteSet(open) /\ IsFiniteSet(free)
    BY FiniteAssumption, FS_Subset DEF OpenInputs, InputsOf, Unused, RunsOf
  <2>3. Cardinality(open) <= Cardinality(free)
    BY DEF ReserveOK
  <2> HIDE DEF open, free, r
  <2>4. Cardinality(OpenInputs(t, taken)) = Cardinality(open) - 1
    BY <2>1, <2>2, FS_RemoveElement
  <2>5. Cardinality(Unused(t, cr)) = Cardinality(free) - 1
    BY <2>1, <2>2, FS_RemoveElement
  <2>6. Cardinality(open) \in Nat /\ Cardinality(free) \in Nat
    BY <2>2, FS_CardinalityType
  <2> QED BY <2>3, <2>4, <2>5, <2>6
<1> QED BY <1>4, <1>5

\* A task with an open input still has a run id to give.
LEMMA ReserveGives ==
    ASSUME RunsSuffice, NEW st, NEW inp, ReserveOK(st, inp), NEW t \in Tasks,
           OpenInputs(t, inp) # {}
    PROVE  Unused(t, st) # {}
<1>1. IsFiniteSet(OpenInputs(t, inp)) /\ IsFiniteSet(Unused(t, st))
  BY FiniteAssumption, FS_Subset DEF OpenInputs, InputsOf, Unused, RunsOf
<1>2. Cardinality(OpenInputs(t, inp)) \in Nat /\ Cardinality(OpenInputs(t, inp)) # 0
  BY <1>1, FS_CardinalityType, FS_EmptySet
<1>3. Cardinality(OpenInputs(t, inp)) <= Cardinality(Unused(t, st))
  BY DEF ReserveOK
<1>4. Cardinality(Unused(t, st)) # 0
  BY <1>2, <1>3
<1> QED BY <1>1, <1>4, FS_EmptySet

\* enqueueNextTurn for the tasks ts: each of them with a waiting input has an active
\* run or is given one.
LEMMA InputNextTurn ==
    ASSUME TypeOK, NEW ts \in SUBSET Tasks, NEW st \in [Runs -> Status],
           NEW inp \in [Inputs -> Input], NEW ex, NEW wk \in [Runs -> Worker],
           SteersOK(st, inp), ReserveOK(st, inp), FollowOK(ts, st, inp, unsettled'),
           NewFrom(st, wk),
           \E pick \in NextTurns(ts, st, inp) :
           \E new \in SetToSeqs(Created(pick, st)) :
              DrainQueue(WithCreated(pick, st), queue \o new, ex, wk,
                         WithTaken(pick, st, inp))
    PROVE  InputStep
<1>1. PICK pick \in NextTurns(ts, st, inp) :
      \E new \in SetToSeqs(Created(pick, st)) :
        DrainQueue(WithCreated(pick, st), queue \o new, ex, wk, WithTaken(pick, st, inp))
  OBVIOUS
<1>2. PICK new \in SetToSeqs(Created(pick, st)) :
        DrainQueue(WithCreated(pick, st), queue \o new, ex, wk, WithTaken(pick, st, inp))
  BY <1>1
<1> DEFINE cr == WithCreated(pick, st)
           taken == WithTaken(pick, st, inp)
<1>3. /\ cr \in [Runs -> Status] /\ taken \in [Inputs -> Input]
      /\ queue \o new \in Seq(Runs)
  BY NextTurnAndDrainType DEF TypeOK
<1>4. ReserveOK(cr, taken)
  BY ReserveTaken
<1>5. \A t \in DOMAIN pick : /\ FreshRun(t, st) \in Runs /\ st[FreshRun(t, st)] = "NEW"
                             /\ TaskOf[FreshRun(t, st)] = t
                             /\ cr[FreshRun(t, st)] = "QUEUED"
  <2>1. \A t \in DOMAIN pick : /\ FreshRun(t, st) \in Runs /\ st[FreshRun(t, st)] = "NEW"
                               /\ TaskOf[FreshRun(t, st)] = t
    BY NextTurnsAreFresh
  <2>2. \A t \in DOMAIN pick : FreshRun(t, st) \in Created(pick, st)
    BY DEF Created
  <2> QED BY <2>1, <2>2 DEF WithCreated
<1>6. \A x \in Runs : cr[x] = st[x] \/ (st[x] = "NEW" /\ cr[x] = "QUEUED")
  <2>1. Created(pick, st) \subseteq {r \in Runs : st[r] = "NEW"}
    BY NextTurnsCreate
  <2> QED BY <2>1 DEF WithCreated
<1>7. \A i \in Inputs : \/ taken[i] = inp[i]
                        \/ taken[i].status = "CLAIMED" /\ taken[i].target = "NEXT_TURN"
  BY DEF WithTaken
<1>8. DOMAIN pick = {t \in ts : /\ ActiveRuns(t, st) = {}
                                /\ PendingNextTurns(t, inp) # {}
                                /\ Unused(t, st) # {}}
  BY DEF NextTurns
<1>9. DrainQueue(cr, queue \o new, ex, wk, taken)
  BY <1>2
<1> HIDE DEF cr, taken
<1>10. SteersOK(cr, taken)
  BY <1>6, <1>7 DEF SteersOK, Editable, Active, Working
<1>11. FollowOK({}, cr, taken, unsettled')
  <2> SUFFICES ASSUME RunsSuffice, NEW i \in Inputs, Waiting(taken[i])
               PROVE  Leads(TaskOf[i], cr, unsettled')
    BY DEF FollowOK
  <2> DEFINE t == TaskOf[i]
  <2>1. taken[i] = inp[i] /\ Waiting(inp[i]) /\ t \in Tasks
    BY <1>7, TaskOfAssumption DEF Waiting
  <2>2. i \in PendingNextTurns(t, inp) /\ i \in OpenInputs(t, inp)
    BY <2>1 DEF PendingNextTurns, OpenInputs, InputsOf, Waiting, Opens, Editable
  <2>3. CASE t \notin ts
    BY <1>6, <2>1, <2>3 DEF FollowOK, Leads, RunsOf, Active, Working
  <2>4. CASE ActiveRuns(t, st) # {}
    BY <1>6, <2>4 DEF ActiveRuns, Leads, RunsOf, Active, Working
  <2>5. CASE t \in ts /\ ActiveRuns(t, st) = {}
    <3>1. Unused(t, st) # {}
      BY <2>1, <2>2, ReserveGives
    <3>2. t \in DOMAIN pick
      BY <1>8, <2>2, <2>5, <3>1
    <3> QED BY <1>5, <3>2 DEF Leads, RunsOf, Active
  <2> QED BY <2>3, <2>4, <2>5
<1>12. NewFrom(cr, wk)
  BY <1>6 DEF NewFrom
<1> QED BY <1>3, <1>4, <1>9, <1>10, <1>11, <1>12, InputDrained

-----------------------------------------------------------------------------
(* The steps *)

\* Steps that leave the inputs alone, and create and end no run.
LEMMA InputsLeft ==
    ASSUME InputInv, input' = input, ready' => ready, unsettled \subseteq unsettled',
           \A x \in Runs : /\ \/ status'[x] = status[x]
                              \/ status[x] # "NEW" /\ status'[x] \in Active
                           /\ worker'[x].stage = worker[x].stage \/ status[x] # "NEW"
    PROVE  InputStep
<1>1. SteersOK(status', input')
  BY DEF InputInv, SteersOK
<1>2. ReserveOK(status', input')
  BY ReserveKept DEF InputInv, Active, Working
<1>3. FollowOK({}, status, input, unsettled) => FollowOK({}, status', input', unsettled')
  BY DEF FollowOK, Leads, RunsOf
<1>4. NewFrom(status', worker')
  BY DEF InputInv, NewFrom, Active, Working
<1> QED BY <1>1, <1>2, <1>3, <1>4 DEF InputInv, InputStep

\* Steps that move one open input, of a task with an active run or to its end.
LEMMA InputMoved ==
    ASSUME TypeOK, InputInv, ready \/ ready' = ready,
           UNCHANGED <<status, worker, unsettled>>,
           NEW i \in Inputs, Opens(input[i]), NEW x, input' = [input EXCEPT ![i] = x],
           \/ /\ x.target = "NEXT_STEP" /\ x.status \in Editable
              /\ x.run \in ActiveRuns(TaskOf[i], status)
           \/ x = Detached /\ ActiveRuns(TaskOf[i], status) # {}
           \/ x.status = "CLAIMED" \/ x.status = "CANCELLED"
    PROVE  InputStep
<1>1. input'[i] = x /\ \A j \in Inputs \ {i} : input'[j] = input[j]
  BY DEF TypeOK
<1>2. Detached.target = "NEXT_TURN" /\ Detached.status = "PENDING"
  BY DEF Detached
<1>3. SteersOK(status, input')
  BY <1>1, <1>2 DEF InputInv, SteersOK, Editable, ActiveRuns, RunsOf
<1>4. ASSUME ready PROVE FollowOK({}, status, input', unsettled)
  <2> SUFFICES ASSUME RunsSuffice, NEW j \in Inputs, Waiting(input'[j])
               PROVE  Leads(TaskOf[j], status, unsettled)
    BY DEF FollowOK
  <2>1. CASE j = i
    BY <1>1, <2>1 DEF Waiting, Leads, ActiveRuns, Editable
  <2>2. CASE j # i
    BY <1>1, <1>4, <2>2 DEF InputInv, FollowOK
  <2> QED BY <2>1, <2>2
<1>5. ReserveOK(status, input')
  <2>1. \A j \in Inputs : Opens(input'[j]) => Opens(input[j])
    BY <1>1
  <2>2. ReserveOK(status, input)
    BY DEF InputInv
  <2> QED BY <2>1, <2>2, ReserveKept
<1> QED BY <1>3, <1>4, <1>5 DEF InputInv, InputStep

\* deliverSteer: the runtime takes the steer, or it turns into a next turn of the
\* active run it was meant for.
LEMMA InputDelivered ==
    ASSUME TypeOK, InputInv, ready, InputsOnly,
           NEW i \in Inputs, Opens(input[i]), NEW r \in ActiveRuns(TaskOf[i], status),
           DeliverSteer(i, [status |-> "PENDING", target |-> "NEXT_STEP", run |-> r])
    PROVE  InputStep
<1> DEFINE x == [status |-> "PENDING", target |-> "NEXT_STEP", run |-> r]
           y == [status |-> "DELIVERED", target |-> "NEXT_STEP", run |-> r]
<1>1. \E z \in {x, y, Detached} : input' = [input EXCEPT ![i] = z]
  BY DEF DeliverSteer, TypeOK
<1>2. /\ x.target = "NEXT_STEP" /\ x.status \in Editable /\ x.run = r
      /\ y.target = "NEXT_STEP" /\ y.status \in Editable /\ y.run = r
  BY DEF Editable
<1>3. UNCHANGED <<status, worker, unsettled>>
  BY DEF InputsOnly
<1> HIDE DEF x, y
<1> QED BY <1>1, <1>2, <1>3, InputMoved

\* startMessage takes a run id that no input needs.
LEMMA InputStartMessage ==
    ASSUME TypeOK, InputInv, ready, NEW t \in Tasks, StartMessage(t)
    PROVE  InputStep
<1> DEFINE r == FreshRun(t, status)
           st == [status EXCEPT ![r] = "QUEUED"]
<1>1. r \in Runs /\ status[r] = "NEW" /\ TaskOf[r] = t
  BY StartMessageIsFresh
<1>2. /\ DrainQueue(st, Enqueue(queue, r), executing, worker, input)
      /\ Cardinality({i \in InputsOf(t) : input[i].status \in Editable \cup {"NONE"}})
            < Cardinality(Unused(t, status))
      /\ unsettled' = unsettled
  BY DEF StartMessage
<1> HIDE DEF r
<1>3. Enqueue(queue, r) \in Seq(Runs)
  BY <1>1, EnqueueType DEF TypeOK
<1>4. /\ st \in [Runs -> Status] /\ worker \in [Runs -> Worker]
      /\ input \in [Inputs -> Input]
  BY DEF TypeOK, Status, Active
<1>5. st[r] = "QUEUED" /\ \A x \in Runs \ {r} : st[x] = status[x]
  BY <1>1 DEF TypeOK
<1> HIDE DEF st
<1>6. SteersOK(st, input)
  BY <1>1, <1>5 DEF InputInv, SteersOK, Active, Working
<1>7. FollowOK({}, st, input, unsettled')
  BY <1>1, <1>2, <1>5 DEF InputInv, FollowOK, Leads, RunsOf, Active, Working
<1>8. NewFrom(st, worker)
  BY <1>5 DEF InputInv, NewFrom
<1>9. ReserveOK(st, input)
  <2> SUFFICES ASSUME RunsSuffice, NEW u \in Tasks
               PROVE  Cardinality(OpenInputs(u, input)) <= Cardinality(Unused(u, st))
    BY DEF ReserveOK
  <2>1. CASE u # t
    <3>1. Unused(u, st) = Unused(u, status)
      BY <1>1, <1>5, <2>1 DEF Unused, RunsOf
    <3> QED BY <3>1 DEF InputInv, ReserveOK
  <2>2. CASE u = t
    <3> DEFINE free == Unused(t, status)
    <3>1. Unused(u, st) = free \ {r} /\ r \in free
      BY <1>1, <1>5, <2>2 DEF Unused, RunsOf
    <3>2. IsFiniteSet(OpenInputs(t, input)) /\ IsFiniteSet(free)
      BY FiniteAssumption, FS_Subset DEF OpenInputs, InputsOf, Unused, RunsOf
    <3>3. Cardinality(OpenInputs(t, input)) < Cardinality(free)
      BY <1>2 DEF OpenInputs, Opens
    <3> HIDE DEF free
    <3>4. Cardinality(Unused(u, st)) = Cardinality(free) - 1
      BY <3>1, <3>2, FS_RemoveElement
    <3>5. Cardinality(OpenInputs(t, input)) \in Nat /\ Cardinality(free) \in Nat
      BY <3>2, FS_CardinalityType
    <3> QED BY <2>2, <3>3, <3>4, <3>5
  <2> QED BY <2>1, <2>2
<1> QED BY <1>2, <1>3, <1>4, <1>6, <1>7, <1>8, <1>9, InputDrained

\* resume leads as before.
LEMMA InputResume ==
    ASSUME TypeOK, InputInv, ready, NEW r \in Runs, Resume(r)
    PROVE  InputStep
<1> DEFINE st == [status EXCEPT ![r] = "QUEUED"]
<1>1. /\ DrainQueue(st, Enqueue(queue, r), executing, worker, input)
      /\ status[r] \in {"PAUSED", "QUEUED"}
      /\ unsettled' = unsettled
  BY DEF Resume
<1>2. Enqueue(queue, r) \in Seq(Runs)
  BY EnqueueType DEF TypeOK
<1>3. /\ st \in [Runs -> Status] /\ worker \in [Runs -> Worker]
      /\ input \in [Inputs -> Input]
  BY DEF TypeOK, Status, Active
<1>4. st[r] = "QUEUED" /\ \A x \in Runs \ {r} : st[x] = status[x]
  BY DEF TypeOK
<1> HIDE DEF st
<1>5. \A x \in Runs : st[x] = status[x] \/ {status[x], st[x]} \subseteq Active
  BY <1>1, <1>4 DEF Active
<1>6. SteersOK(st, input)
  BY <1>5 DEF InputInv, SteersOK
<1>7. FollowOK({}, st, input, unsettled')
  BY <1>1, <1>5 DEF InputInv, FollowOK, Leads, RunsOf
<1>8. NewFrom(st, worker)
  BY <1>5 DEF InputInv, NewFrom, Active, Working
<1>9. ReserveOK(st, input)
  BY <1>5, ReserveKept DEF InputInv, Active, Working
<1> QED BY <1>1, <1>2, <1>3, <1>6, <1>7, <1>8, <1>9, InputDrained

\* enqueueInput and updateInput with target NEXT_TURN: a delivered steer is bound to
\* an active run, and a task without one is looked after at once.
LEMMA InputToNextTurn ==
    ASSUME TypeOK, InputInv, ready, NEW i \in Inputs,
           EnqueueNextTurnInput(i) \/ UpdateToNextTurn(i)
    PROVE  InputStep
<1> DEFINE inp == [input EXCEPT ![i] = Detached]
           t == TaskOf[i]
<1>1. Opens(input[i])
  BY DEF EnqueueNextTurnInput, UpdateToNextTurn, Opens, Editable
<1>2. \/ input' = inp /\ InputsOnly /\ ActiveRuns(t, status) # {}
      \/ input' = inp /\ InputsOnly /\ input[i].status = "DELIVERED"
      \/ NextTurnAndDrain(t, inp)
  BY DEF EnqueueNextTurnInput, UpdateToNextTurn
<1>3. input[i].status = "DELIVERED" => ActiveRuns(t, status) # {}
  BY DEF InputInv, SteersOK, Editable, ActiveRuns, RunsOf
<1>4. CASE input' = inp /\ InputsOnly /\ ActiveRuns(t, status) # {}
  BY <1>1, <1>4, InputMoved DEF InputsOnly
<1>5. CASE NextTurnAndDrain(t, inp)
  <2>1. inp[i] = Detached /\ \A j \in Inputs \ {i} : inp[j] = input[j]
    BY DEF TypeOK
  <2>2. Detached.target = "NEXT_TURN" /\ Detached.status = "PENDING"
    BY DEF Detached
  <2>3. /\ inp \in [Inputs -> Input] /\ status \in [Runs -> Status]
        /\ worker \in [Runs -> Worker] /\ {t} \in SUBSET Tasks
    BY Constants, TaskOfAssumption DEF TypeOK
  <2>4. /\ unsettled' = unsettled
        /\ \E pick \in NextTurns({t}, status, inp) :
           \E new \in SetToSeqs(Created(pick, status)) :
             DrainQueue(WithCreated(pick, status), queue \o new, executing, worker,
                        WithTaken(pick, status, inp))
    BY <1>5 DEF NextTurnAndDrain
  <2> HIDE DEF inp
  <2>5. SteersOK(status, inp)
    BY <2>1, <2>2 DEF InputInv, SteersOK
  <2>6. ReserveOK(status, inp)
    BY <1>1, <2>1, ReserveKept DEF InputInv
  <2>7. FollowOK({t}, status, inp, unsettled')
    BY <2>1, <2>4 DEF InputInv, FollowOK
  <2>8. NewFrom(status, worker)
    BY DEF InputInv
  <2> QED BY <2>3, <2>4, <2>5, <2>6, <2>7, <2>8, InputNextTurn
<1> QED BY <1>2, <1>3, <1>4, <1>5

\* The requests of the Desktop.
LEMMA InputRequest == TypeOK /\ InputInv /\ Request => InputStep
<1> SUFFICES ASSUME TypeOK, InputInv, Request PROVE InputStep
  OBVIOUS
<1>0. ready /\ ready' = ready
  BY DEF Request
<1>1. ASSUME NEW i \in Inputs, EnqueueSteer(i) \/ UpdateToSteer(i) PROVE InputStep
  <2>1. Opens(input[i]) /\ InputsOnly
    BY <1>1 DEF EnqueueSteer, UpdateToSteer, Opens, Editable
  <2>2. PICK r \in ActiveRuns(TaskOf[i], status) :
          DeliverSteer(i, [status |-> "PENDING", target |-> "NEXT_STEP", run |-> r])
    BY <1>1 DEF EnqueueSteer, UpdateToSteer
  <2> QED BY <1>0, <2>1, <2>2, InputDelivered
<1>2. ASSUME NEW i \in Inputs, MarkClaimed(i) \/ DeleteInput(i) PROVE InputStep
  <2>1. Opens(input[i]) /\ InputsOnly
    BY <1>2 DEF MarkClaimed, DeleteInput, Opens, Editable
  <2>2. PICK s \in {"CLAIMED", "CANCELLED"} : input' = [input EXCEPT ![i].status = s]
    BY <1>2 DEF MarkClaimed, DeleteInput
  <2> DEFINE x == [input[i] EXCEPT !.status = s]
  <2>3. x.status = s /\ input' = [input EXCEPT ![i] = x]
    BY <2>2 DEF TypeOK, Input
  <2> HIDE DEF x
  <2> QED BY <1>0, <2>1, <2>3, InputMoved DEF InputsOnly
<1>3. ASSUME NEW c \in Clients, NEW r \in Runs, PauseBegin(c, r) PROVE InputStep
  BY <1>0, <1>3, InputsLeft
     DEF PauseBegin, Pausable, PauseStatus, Active, Working, TypeOK
<1>4. ASSUME NEW c \in Clients, NEW r \in Runs, CancelBegin(c, r) PROVE InputStep
  BY <1>0, <1>4, InputsLeft DEF CancelBegin
<1> QED BY <1>0, <1>1, <1>2, <1>3, <1>4, InputStartMessage, InputResume, InputToNextTurn
        DEF Request

\* A cancel closes every open input of the task it ends a run of, or fails to end.
LEMMA CancelCloses ==
    ASSUME TypeOK, InputInv, ready, NEW r \in Runs, status[r] # "NEW",
           unsettled \subseteq unsettled',
           NEW st \in {status, [status EXCEPT ![r] = "CANCELLED"]},
           NEW inp, inp = CancelOpenForTask(input, TaskOf[r])
    PROVE  /\ SteersOK(st, inp)
           /\ ReserveOK(st, inp)
           /\ FollowOK({}, st, inp, unsettled')
           /\ NewFrom(st, worker)
<1>1. st[r] \in {status[r], "CANCELLED"} /\ \A x \in Runs \ {r} : st[x] = status[x]
  BY DEF TypeOK
<1>2. \A i \in Inputs :
        \/ inp[i].status = "CANCELLED"
        \/ /\ inp[i] = input[i]
           /\ TaskOf[i] # TaskOf[r] \/ input[i].status \notin Editable
  BY DEF CancelOpenForTask, TypeOK, Input
<1>3. SteersOK(st, inp)
  BY <1>1, <1>2 DEF InputInv, SteersOK, Editable
<1>4. FollowOK({}, st, inp, unsettled')
  <2> SUFFICES ASSUME RunsSuffice, NEW i \in Inputs, Waiting(inp[i])
               PROVE  Leads(TaskOf[i], st, unsettled')
    BY DEF FollowOK
  <2>1. inp[i] = input[i] /\ TaskOf[i] # TaskOf[r]
    BY <1>2 DEF Waiting, Editable
  <2>2. Leads(TaskOf[i], status, unsettled)
    BY <2>1 DEF InputInv, FollowOK
  <2> QED BY <1>1, <2>1, <2>2 DEF Leads, RunsOf
<1>5. ReserveOK(st, inp)
  <2>1. \A i \in Inputs : Opens(inp[i]) => Opens(input[i])
    BY <1>2 DEF Opens, Editable
  <2>2. \A x \in Runs : status[x] = "NEW" => st[x] = "NEW"
    BY <1>1
  <2>3. ReserveOK(status, input)
    BY DEF InputInv
  <2> QED BY ONLY <2>1, <2>2, <2>3, ReserveKept
<1>6. NewFrom(st, worker)
  BY <1>1 DEF InputInv, NewFrom
<1> QED BY <1>3, <1>4, <1>5, <1>6

\* The later sections of pause() and cancel().
LEMMA InputClient ==
    ASSUME TypeOK, InputInv, ready, NEW c \in Clients, ClientStep(c)
    PROVE  InputStep
<1> DEFINE r == client[c].run
           st == [status EXCEPT ![r] = "CANCELLED"]
           inp == CancelOpenForTask(input, TaskOf[r])
<1>1. client[c].pc # "idle"
  BY DEF ClientStep, PauseForward, PauseRollback, PauseFinish, CancelKill,
         CancelAwait, CancelSettle, CancelThrows
<1>2. /\ r \in Runs /\ TaskOf[r] \in Tasks
      /\ client[c].prev \in {"none", "RUNNING", "WAITING_APPROVAL"}
      /\ status[r] # "NEW"
  BY <1>1, TaskOfAssumption DEF TypeOK, Client, Idle, InputInv, ClientsKnowRuns
<1>3. CASE PauseForward(c) \/ CancelKill(c) \/ CancelAwait(c)
  <2>1. UNCHANGED <<status, input, unsettled>>
    BY <1>3 DEF PauseForward, CancelKill, CancelAwait
  <2>2. \A x \in Runs : worker'[x].stage = worker[x].stage
    <3>1. \A x \in Runs : /\ RequestPause(worker[x]).stage = worker[x].stage
                          /\ [worker[x] EXCEPT !.killed = TRUE].stage = worker[x].stage
      BY DEF RequestPause, TypeOK, Worker
    <3>2. \/ worker' = worker
          \/ \E w : \/ worker' = [worker EXCEPT ![w] = RequestPause(@)]
                    \/ worker' = [worker EXCEPT ![w].killed = TRUE]
      BY <1>3 DEF PauseForward, CancelKill, CancelAwait
    <3> QED BY <3>1, <3>2 DEF TypeOK
  <2> QED BY <2>1, <2>2, InputsLeft
<1>4. CASE PauseRollback(c)
  <2>1. \A x \in Runs : \/ status'[x] = status[x]
                        \/ status[x] # "NEW" /\ status'[x] \in Active
    BY <1>2, <1>4 DEF PauseRollback, RolledBack, Active, Working, TypeOK
  <2> QED BY <1>4, <2>1, InputsLeft DEF PauseRollback
<1>5. CASE PauseFinish(c)
  <2>1. \A x \in Runs : \/ status'[x] = status[x]
                        \/ status[x] # "NEW" /\ status'[x] \in Active
    BY <1>2, <1>5 DEF PauseFinish, Active, TypeOK
  <2> QED BY <1>5, <2>1, InputsLeft DEF PauseFinish
<1>6. CASE CancelSettle(c)
  <2>1. /\ DrainQueue(st, queue, ReleaseExecution(executing, r), worker, inp)
        /\ unsettled' = unsettled
    BY <1>6 DEF CancelSettle
  <2>2. /\ queue \in Seq(Runs) /\ st \in [Runs -> Status] /\ worker \in [Runs -> Worker]
        /\ inp \in [Inputs -> Input]
    BY InputsType DEF TypeOK, Status, Terminal
  <2>3. /\ SteersOK(st, inp) /\ ReserveOK(st, inp)
        /\ FollowOK({}, st, inp, unsettled') /\ NewFrom(st, worker)
    BY <1>2, <2>1, CancelCloses
  <2> HIDE DEF st, inp
  <2> QED BY <2>1, <2>2, <2>3, InputDrained
<1>7. CASE CancelThrows(c)
  <2>1. /\ UNCHANGED worker /\ unsettled \subseteq unsettled'
        /\ \/ UNCHANGED <<status, input>>
           \/ status' \in {status, st} /\ input' = inp
    BY <1>7 DEF CancelThrows
  <2>2. CASE UNCHANGED <<status, input>>
    BY <2>1, <2>2, InputsLeft
  <2>3. CASE status' \in {status, st} /\ input' = inp
    <3>1. /\ SteersOK(status', inp) /\ ReserveOK(status', inp)
          /\ FollowOK({}, status', inp, unsettled') /\ NewFrom(status', worker)
      BY <1>2, <2>1, CancelCloses
    <3> HIDE DEF st, inp
    <3> QED BY <2>1, <2>3, <3>1 DEF InputStep
  <2> QED BY <2>1, <2>2, <2>3
<1> QED BY <1>3, <1>4, <1>5, <1>6, <1>7 DEF ClientStep

\* The steps of a turn that settle nothing: a steer the runtime claims is closed.
LEMMA InputTurn ==
    ASSUME TypeOK, InputInv, ready' = ready, NEW r \in Runs,
           \/ StartRuntime(r)
           \/ ClaimSteers(r)
           \/ \E i \in Inputs : OnSteerClaimed(r, i)
           \/ \E outcome \in {"completed", "paused", "failed"} : TurnEnds(r, outcome)
           \/ OnTerminalEvent(r)
           \/ WorkerFinally(r)
           \/ WorkerKilled(r)
           \/ OnApprovalRequested(r)
           \/ OnApprovalResolved(r)
           \/ SteersExpire(r)
    PROVE  InputStep
<1>1. CASE \E i \in Inputs : OnSteerClaimed(r, i)
  <2>1. PICK i \in Inputs : OnSteerClaimed(r, i)
    BY <1>1
  <2>2. UNCHANGED <<status, worker, unsettled>>
    BY <2>1 DEF OnSteerClaimed, WorkerOnly
  <2>3. CASE input' = input
    BY <2>2, <2>3, InputsLeft
  <2>4. CASE input' # input
    <3> DEFINE x == [input[i] EXCEPT !.status = "CLAIMED"]
    <3>1. /\ input' = [input EXCEPT ![i] = Claim(@)]
          /\ input' # input
      BY <2>1, <2>4 DEF OnSteerClaimed
    <3>2. Claim(input[i]) # input[i]
      BY <3>1 DEF TypeOK
    <3>3. Opens(input[i]) /\ Claim(input[i]) = x
      BY <3>2 DEF Claim, Opens
    <3>4. input' = [input EXCEPT ![i] = x]
      BY <3>1, <3>3
    <3>5. x.status = "CLAIMED"
      BY DEF TypeOK, Input
    <3> HIDE DEF x
    <3> QED BY <2>2, <3>3, <3>4, <3>5, InputMoved
  <2> QED BY <2>3, <2>4
<1>2. CASE ~\E i \in Inputs : OnSteerClaimed(r, i)
  <2>1. UNCHANGED <<input, unsettled>>
    BY <1>2 DEF StartRuntime, ClaimSteers, TurnEnds, OnTerminalEvent,
       WorkerFinally, WorkerKilled, OnApprovalRequested, OnApprovalResolved,
       SteersExpire, WorkerOnly
  <2>2. \/ UNCHANGED <<status, worker>>
        \/ /\ worker[r].stage # "none"
           /\ \A x \in Runs \ {r} : worker'[x] = worker[x]
           /\ \A x \in Runs : \/ status'[x] = status[x]
                              \/ status[x] # "NEW" /\ status'[x] \in Active
    <3>1. CASE OnApprovalRequested(r) \/ OnApprovalResolved(r)
      BY <3>1 DEF OnApprovalRequested, OnApprovalResolved, TypeOK, Active, Working
    <3>2. CASE UNCHANGED status
      BY <1>2, <3>2 DEF StartRuntime, ClaimSteers, TurnEnds, OnTerminalEvent,
         WorkerFinally, WorkerKilled, OnApprovalRequested, OnApprovalResolved,
         SteersExpire, WorkerOnly, TypeOK
    <3> QED BY <1>2, <3>1, <3>2 DEF StartRuntime, ClaimSteers, TurnEnds, OnTerminalEvent,
         WorkerFinally, WorkerKilled, SteersExpire
  <2>3. worker[r].stage # "none" => status[r] # "NEW"
    BY DEF InputInv, NewFrom
  <2> QED BY <2>1, <2>2, <2>3, InputsLeft
<1> QED BY <1>1, <1>2

\* complete(): what becomes COMPLETED turns its open steers into next turns, and the
\* task is moved on.
LEMMA InputComplete ==
    ASSUME TypeOK, InputInv, ready, NEW r \in Runs, Complete(r)
    PROVE  InputStep
<1> DEFINE paused == r \in pausedTurns
           st == [status EXCEPT ![r] = AfterCompletion(@, paused)]
           inp == IF st[r] # status[r] /\ ~paused
                  THEN MoveOpenSteersToNextTurn(input, {r}) ELSE input
           ts == MovesOn(r, st[r], paused)
           ex == ReleaseExecution(executing, r)
           wk == [worker EXCEPT ![r] = NoWorker]
<1>1. /\ \E pick \in NextTurns(ts, st, inp) :
         \E new \in SetToSeqs(Created(pick, st)) :
           DrainQueue(WithCreated(pick, st), queue \o new, ex, wk, WithTaken(pick, st, inp))
      /\ unsettled' = unsettled
      /\ worker[r].stage = "callback"
  BY DEF Complete
<1>2. status[r] # "NEW"
  BY <1>1 DEF InputInv, NewFrom
<1>3. /\ st \in [Runs -> Status] /\ inp \in [Inputs -> Input]
      /\ wk \in [Runs -> Worker] /\ ts \in SUBSET Tasks
  BY Constants, InputsType, TaskOfAssumption
     DEF TypeOK, AfterCompletion, MovesOn, Status, Active, Terminal
<1>4. \A x \in Runs \ {r} : st[x] = status[x]
  BY DEF TypeOK
<1>5. \/ st[r] = status[r] /\ status[r] \notin Active \ {"PAUSED"} /\ inp = input
      \/ st[r] = "PAUSED" /\ inp = input
      \/ /\ st[r] = "COMPLETED" /\ ts = {TaskOf[r]}
         /\ inp = MoveOpenSteersToNextTurn(input, {r})
  BY DEF TypeOK, AfterCompletion, MovesOn, Terminal, Active, Working
<1>6. \A i \in Inputs :
        \/ inp[i] = input[i]
        \/ /\ inp[i] = Detached /\ Opens(input[i])
           /\ TaskOf[i] \in ts
  <2>1. \A i \in Inputs : OpenSteer(input[i], {r}) => TaskOf[i] = TaskOf[r] /\ Opens(input[i])
    BY DEF InputInv, SteersOK, OpenSteer, Opens
  <2> QED BY <1>5, <2>1 DEF MoveOpenSteersToNextTurn
<1>7. Detached.target = "NEXT_TURN" /\ Detached.status = "PENDING"
  BY DEF Detached
<1> HIDE DEF st, inp, paused, wk, ex, ts
<1>8. SteersOK(st, inp)
  <2>1. CASE inp = input /\ (st[r] = status[r] \/ st[r] = "PAUSED")
    BY <1>4, <2>1 DEF InputInv, SteersOK, Active
  <2>2. CASE inp = MoveOpenSteersToNextTurn(input, {r})
    <3>1. \A i \in Inputs : inp[i].target = "NEXT_STEP" /\ inp[i].status \in Editable
                              => inp[i] = input[i] /\ input[i].run # r
      BY <1>7, <2>2 DEF MoveOpenSteersToNextTurn, OpenSteer
    <3>2. \A i \in Inputs : inp[i].status = "DELIVERED" => inp[i] = input[i]
      BY <1>6, <1>7
    <3> QED BY <1>4, <3>1, <3>2 DEF InputInv, SteersOK
  <2> QED BY <1>5, <2>1, <2>2
<1>9. FollowOK(ts, st, inp, unsettled')
  <2> SUFFICES ASSUME RunsSuffice, NEW i \in Inputs, TaskOf[i] \notin ts, Waiting(inp[i])
               PROVE  Leads(TaskOf[i], st, unsettled)
    BY <1>1 DEF FollowOK
  <2>1. Leads(TaskOf[i], status, unsettled)
    BY <1>6 DEF InputInv, FollowOK
  <2>2. PICK x \in RunsOf(TaskOf[i]) : status[x] \in Active \cup {"FAILED"} \/ x \in unsettled
    BY <2>1 DEF Leads
  <2>3. st[x] \in Active \cup {"FAILED"} \/ x \in unsettled
    BY <1>4, <1>5, <2>2 DEF RunsOf, Active
  <2> QED BY <2>2, <2>3 DEF Leads
<1>10. ReserveOK(st, inp)
  <2>1. \A i \in Inputs : Opens(inp[i]) => Opens(input[i])
    BY <1>6
  <2>2. \A x \in Runs : status[x] = "NEW" => st[x] = "NEW"
    BY <1>2, <1>4
  <2>3. ReserveOK(status, input)
    BY DEF InputInv
  <2> QED BY ONLY <2>1, <2>2, <2>3, ReserveKept
<1>11. NewFrom(st, wk)
  <2>1. \A x \in Runs \ {r} : wk[x] = worker[x]
    BY DEF TypeOK, wk
  <2>2. st[r] # "NEW"
    BY <1>2, <1>5
  <2> QED BY <1>4, <2>1, <2>2 DEF InputInv, NewFrom
<1> QED BY <1>1, <1>3, <1>8, <1>9, <1>10, <1>11, InputNextTurn

\* fail() and a settlement that throws: a run that FAILED, or was not settled, leads
\* the inputs it leaves.
LEMMA InputFail ==
    ASSUME TypeOK, InputInv, ready, NEW r \in Runs, Fail(r) \/ SettleThrows(r)
    PROVE  InputStep
<1> DEFINE ex == ReleaseExecution(executing, r)
           wk == [worker EXCEPT ![r] = NoWorker]
           moved == MoveOpenSteersToNextTurn(input, {r})
<1>0. PICK s \in Status, inp \in {input, moved} :
        /\ DrainQueue([status EXCEPT ![r] = s], queue, ex, wk, inp)
        /\ \/ inp = input /\ s \in {status[r], "PAUSED"}
           \/ /\ inp = moved /\ s \in {status[r], "COMPLETED", "FAILED"}
              /\ s = "FAILED" \/ r \in unsettled'
  <2>1. status[r] \in Status
    BY DEF TypeOK
  <2>2. CASE Fail(r)
    <3> DEFINE f == AfterFailure(status[r], r \in pausedTurns)
               inp == IF f = "FAILED" THEN moved ELSE input
    <3>1. f \in Status /\ f \in {status[r], "PAUSED", "FAILED"}
      BY <2>1 DEF AfterFailure, Status, Active, Terminal
    <3>2. DrainQueue([status EXCEPT ![r] = f], queue, ex, wk, inp)
      <4>1. /\ [status EXCEPT ![r] = f]
                 = [status EXCEPT ![r] = AfterFailure(@, r \in pausedTurns)]
            /\ [status EXCEPT ![r] = f][r] = f
        BY DEF TypeOK
      <4> QED BY <2>2, <4>1 DEF Fail
    <3> HIDE DEF f, ex, wk, moved
    <3> QED BY <3>1, <3>2
  <2>3. CASE SettleThrows(r)
    <3>1. Settlement(r) \in Status
      BY <2>1 DEF Settlement, AfterCompletion, AfterFailure, Status, Active, Terminal
    <3>2. r \in unsettled'
      BY <2>3 DEF SettleThrows
    <3>3. PICK s \in {status[r], Settlement(r)}, inp \in {input, moved} :
            /\ s # status[r] => s \in {"COMPLETED", "FAILED"} /\ inp = moved
            /\ DrainQueue([status EXCEPT ![r] = s], queue, ex, wk, inp)
      BY <2>3 DEF SettleThrows
    <3> HIDE DEF ex, wk, moved
    <3> QED BY <2>1, <3>1, <3>2, <3>3
  <2> QED BY <2>2, <2>3
<1> DEFINE st == [status EXCEPT ![r] = s]
<1>1. /\ DrainQueue(st, queue, ex, wk, inp)
      /\ unsettled \subseteq unsettled'
      /\ worker[r].stage = "callback"
  BY <1>0 DEF Fail, SettleThrows
<1>2. status[r] # "NEW"
  BY <1>1 DEF InputInv, NewFrom
<1>3. /\ st \in [Runs -> Status] /\ inp \in [Inputs -> Input]
      /\ wk \in [Runs -> Worker] /\ queue \in Seq(Runs)
  BY Constants, InputsType DEF TypeOK
<1>4. st[r] = s /\ \A x \in Runs \ {r} : st[x] = status[x]
  BY DEF TypeOK
<1>5. \/ inp = input /\ st[r] \in {status[r], "PAUSED"}
      \/ /\ inp = MoveOpenSteersToNextTurn(input, {r})
         /\ st[r] \in {status[r], "COMPLETED", "FAILED"}
         /\ st[r] = "FAILED" \/ r \in unsettled'
  BY <1>0, <1>4
<1>6. \A i \in Inputs :
        \/ inp[i] = input[i]
        \/ /\ inp[i] = Detached /\ Opens(input[i]) /\ TaskOf[i] = TaskOf[r]
           /\ st[r] = "FAILED" \/ r \in unsettled'
  <2>1. \A i \in Inputs : OpenSteer(input[i], {r}) => TaskOf[i] = TaskOf[r] /\ Opens(input[i])
    BY DEF InputInv, SteersOK, OpenSteer, Opens
  <2> QED BY <1>5, <2>1 DEF MoveOpenSteersToNextTurn
<1>7. Detached.target = "NEXT_TURN" /\ Detached.status = "PENDING"
  BY DEF Detached
<1> HIDE DEF st, wk, ex, moved
<1>8. SteersOK(st, inp)
  <2>1. CASE inp = input /\ (st[r] = status[r] \/ st[r] = "PAUSED")
    BY <1>4, <2>1 DEF InputInv, SteersOK, Active
  <2>2. CASE inp = MoveOpenSteersToNextTurn(input, {r})
    <3>1. \A i \in Inputs : inp[i].target = "NEXT_STEP" /\ inp[i].status \in Editable
                              => inp[i] = input[i] /\ input[i].run # r
      BY <1>7, <2>2 DEF MoveOpenSteersToNextTurn, OpenSteer
    <3>2. \A i \in Inputs : inp[i].status = "DELIVERED" => inp[i] = input[i]
      BY <1>6, <1>7
    <3> QED BY <1>4, <3>1, <3>2 DEF InputInv, SteersOK
  <2> QED BY <1>5, <2>1, <2>2
<1>9. FollowOK({}, st, inp, unsettled')
  <2> SUFFICES ASSUME RunsSuffice, NEW i \in Inputs, Waiting(inp[i])
               PROVE  Leads(TaskOf[i], st, unsettled')
    BY DEF FollowOK
  <2>1. CASE inp[i] = input[i]
    <3>1. Leads(TaskOf[i], status, unsettled)
      BY <2>1 DEF InputInv, FollowOK
    <3> QED BY <1>1, <1>4, <1>5, <3>1 DEF Leads, RunsOf, Active
  <2>2. CASE TaskOf[i] = TaskOf[r] /\ (st[r] = "FAILED" \/ r \in unsettled')
    BY <2>2 DEF Leads, RunsOf
  <2> QED BY <1>6, <2>1, <2>2
<1>10. ReserveOK(st, inp)
  <2>1. \A i \in Inputs : Opens(inp[i]) => Opens(input[i])
    BY <1>6
  <2>2. \A x \in Runs : status[x] = "NEW" => st[x] = "NEW"
    BY <1>2, <1>4
  <2>3. ReserveOK(status, input)
    BY DEF InputInv
  <2> QED BY ONLY <2>1, <2>2, <2>3, ReserveKept
<1>11. NewFrom(st, wk)
  <2>1. \A x \in Runs \ {r} : wk[x] = worker[x]
    BY DEF TypeOK, wk
  <2>2. st[r] # "NEW"
    BY <1>2, <1>5
  <2> QED BY <1>4, <2>1, <2>2 DEF InputInv, NewFrom
<1> QED BY <1>1, <1>3, <1>8, <1>9, <1>10, <1>11, InputDrained

\* Recovery makes the delivered steers of the runs it pauses pending, and looks after
\* every task.
LEMMA InputRecover ==
    ASSUME TypeOK, InputInv, Recover
    PROVE  InputStep
<1> DEFINE broken == {r \in repairable : status[r] = "FAILED" /\ r \in pausingLog}
           back == {r \in Runs : status[r] \in Recoverable} \cup broken
           st == [r \in Runs |-> IF r \in back THEN "PAUSED" ELSE status[r]]
           inp == ResetDelivered(input, back)
<1>1. /\ st \in [Runs -> Status] /\ inp \in [Inputs -> Input]
      /\ worker \in [Runs -> Worker] /\ Tasks \in SUBSET Tasks
  BY InputsType DEF TypeOK, Status, Active
<1>2. \E pick \in NextTurns(Tasks, st, inp) :
      \E new \in SetToSeqs(Created(pick, st)) :
        DrainQueue(WithCreated(pick, st), queue \o new, executing, worker,
                   WithTaken(pick, st, inp))
  BY DEF Recover
<1>3. \A x \in Runs : /\ status[x] \in Active => st[x] \in Active
                      /\ status[x] = "NEW" <=> st[x] = "NEW"
  BY DEF Recoverable, Active, Working
<1>4. \A i \in Inputs : /\ inp[i].target = input[i].target /\ inp[i].run = input[i].run
                        /\ inp[i].status \in Editable => input[i].status \in Editable
                        /\ Opens(inp[i]) => Opens(input[i])
                        /\ inp[i].status = "DELIVERED" => input[i].status = "DELIVERED"
  BY DEF ResetDelivered, TypeOK, Input, Editable, Opens
<1> HIDE DEF st, inp, back, broken
<1>5. SteersOK(st, inp)
  BY <1>3, <1>4 DEF InputInv, SteersOK
<1>6. ReserveOK(st, inp)
  <2>1. ReserveOK(status, input)
    BY DEF InputInv
  <2>2. \A i \in Inputs : Opens(inp[i]) => Opens(input[i])
    BY <1>4
  <2>3. \A x \in Runs : status[x] = "NEW" => st[x] = "NEW"
    BY <1>3
  <2> QED BY ONLY <2>1, <2>2, <2>3, ReserveKept
<1>7. FollowOK(Tasks, st, inp, unsettled')
  BY TaskOfAssumption DEF FollowOK
<1>8. NewFrom(st, worker)
  BY <1>3 DEF InputInv, NewFrom
<1> QED BY <1>1, <1>2, <1>5, <1>6, <1>7, <1>8, InputNextTurn

\* Every step.
LEMMA InputSteps == TypeOK /\ SlotInv /\ InputInv /\ [Next]_vars => InputStep
<1> SUFFICES ASSUME TypeOK, SlotInv, InputInv, [Next]_vars PROVE InputStep
  OBVIOUS
<1>1. CASE Request
  BY <1>1, InputRequest
<1>2. ASSUME NEW c \in Clients, ClientStep(c) PROVE InputStep
  <2>1. client[c].pc # "idle"
    BY <1>2 DEF ClientStep, PauseForward, PauseRollback, PauseFinish, CancelKill,
           CancelAwait, CancelSettle, CancelThrows
  <2> QED BY <1>2, <2>1, UnderWay, InputClient
<1>3. ASSUME NEW r \in Runs, Converge(r) \/ Elsewhere(r) PROVE InputStep
  <2>1. ready' = ready
    BY <1>3 DEF Converge, Elsewhere
  <2>2. CASE Complete(r) \/ Fail(r) \/ SettleThrows(r)
    <3>1. worker[r].stage = "callback"
      BY <2>2 DEF Complete, Fail, SettleThrows
    <3> QED BY <2>2, <3>1, UnderWay, InputComplete, InputFail
  <2>3. CASE ~(Complete(r) \/ Fail(r) \/ SettleThrows(r))
    BY <1>3, <2>1, <2>3, InputTurn DEF Converge, Elsewhere
  <2> QED BY <2>2, <2>3
<1>4. CASE Crash
  <2>1. /\ UNCHANGED <<status, input>> /\ ~ready'
        /\ \A x \in Runs : worker'[x].stage = "none"
    BY <1>4 DEF Crash, durable, NoWorker
  <2> QED BY <2>1 DEF InputInv, InputStep, NewFrom
<1>5. CASE Recover
  BY <1>5, InputRecover
<1>6. CASE UNCHANGED vars
  BY <1>6, InputsLeft DEF vars
<1> QED BY <1>1, <1>2, <1>3, <1>4, <1>5, <1>6 DEF Next

\* The invariant is inductive.
LEMMA InputInvNext == TypeOK /\ SlotInv /\ InputInv /\ [Next]_vars => InputInv'
<1> SUFFICES ASSUME TypeOK, SlotInv, InputInv, [Next]_vars PROVE InputInv'
  OBVIOUS
<1>1. InputStep
  BY InputSteps
<1>2. \A x \in Runs : status[x] # "NEW" => status'[x] # "NEW"
  BY <1>1 DEF InputStep, NewFrom
<1>3. ClientsKnowRuns'
  <2> SUFFICES ASSUME NEW c \in Clients, client'[c] # Idle
               PROVE  status'[client'[c].run] # "NEW"
    BY DEF ClientsKnowRuns
  <2>1. client[c] # Idle => client[c].run \in Runs /\ status[client[c].run] # "NEW"
    BY DEF InputInv, ClientsKnowRuns, TypeOK, Client
  <2>2. \A x \in Runs : status[x] \in Active => status[x] # "NEW"
    BY DEF Active, Working
  <2> QED BY <1>2, <2>1, <2>2, ClientsMove
<1>4. SteersOK(status, input)' /\ ReserveOK(status, input)'
  BY <1>1 DEF InputStep, SteersOK, ReserveOK, OpenInputs, Unused
<1>5. (ready => FollowOK({}, status, input, unsettled))'
  BY <1>1 DEF InputStep, FollowOK, Leads
<1>6. NewFrom(status, worker)'
  BY <1>1 DEF InputStep, NewFrom
<1> QED BY <1>3, <1>4, <1>5, <1>6 DEF InputInv

\* The invariant holds throughout.
LEMMA InputInvariant == Spec => []InputInv
<1>1. TypeOK /\ SlotInv /\ InputInv /\ [Next]_vars => InputInv'
  BY InputInvNext
<1> QED BY <1>1, InputInit, TypeCorrect, SlotInvariant, PTL DEF Spec

\* An open steer is bound to an active run of its task: a completion, a failure, a
\* failed start or a cancel that ends the run moves or closes its steers in the same
\* critical section.
THEOREM SteersHaveARun == Spec => []OpenSteersBelongToActiveRuns
<1>1. InputInv => OpenSteersBelongToActiveRuns
  BY DEF InputInv, SteersOK, OpenSteersBelongToActiveRuns
<1> QED BY <1>1, InputInvariant, PTL

\* While there are run ids to draw, no pending next turn is stranded: its task has an
\* active run, or one that failed or whose settlement did.
THEOREM NoNextTurnIsStranded ==
    ASSUME RunsSuffice
    PROVE  Spec => []NextTurnsFollowOn
<1>1. InputInv => NextTurnsFollowOn
  BY DEF InputInv, FollowOK, Waiting, Leads, NextTurnsFollowOn
<1> QED BY <1>1, InputInvariant, PTL

=============================================================================
