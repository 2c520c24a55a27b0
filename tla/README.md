# LUMORA in TLA+

LUMORA is a desktop coding agent in three processes: an Electron **Desktop**
(`src/desktop`), a Java **Local Core** (`src/core`) that owns every durable thing
in SQLite, and a Python **Agent Runtime** (`src/agent`) that runs one model and
tool loop per turn. This directory holds TLA+ models of the parts whose
correctness depends on the order in which things happen, the TLC configurations
that check them, and TLAPS proofs about them. `PROJECT.json` maps every
definition to the lines it translates, and lists the hazards, runs and findings.

## 1. Inventory

| Part | State it keeps | Operations | What is hard |
| --- | --- | --- | --- |
| Run coordinator (`ConversationRunCoordinator`, `ConversationRunStore`) | durable run statuses; process-local queue, execution slots, paused turns | start, regenerate, resume, pause, cancel, complete, fail, recover | `pause` and `cancel` let go of the monitor in the middle; callbacks race API calls; restart loses the queue and the slots and keeps the statuses |
| Queued inputs (`ConversationInputStore`) | status, target and bound run of each input | enqueue, update, delete, deliver, claim | a steer lives in SQLite and in the runtime's buffer at once; replies get lost |
| Turn worker (`ConversationServiceImpl`) | `activeRuns` by task, one `FutureTask` per turn | start, events, pause latch, interrupt, callbacks | turns are looked up by task, not by run; a worker leaves `activeRuns` before its callback |
| Runtime control (`run_control.py`, `agent_loop.py`) | steer buffer and pause flag of each turn | accept, claim, replace, remove, close, expire | closing races with accepting; controls registered early expire |
| Run event journal (`ConversationRunEventJournal`) | pending batches, attempts, quarantine, timer | append, flush, retry, quarantine, close | one writer serves a timer and callers; failed batches go back in front of newer events |
| Run event streams (`ConversationRunEventStreamRegistry`; `rest-model-gateway.ts`, `model-ipc.ts`, `preload`) | subscribers with their last sequence; the reader's cursor and its reconnections | subscribe and replay, publish, complete, remove, reconnect, unsubscribe | replay races publication; a run's row ends before its last events are out; an end of a stream is or is not the end of its run; one broken subscriber must not hurt another |
| Desktop task store (`task-store.ts`, `chat-event-*.ts`) | the conversation on show, remembered conversations, a subscription with its text batch and the promise of the call that waits for it | open, create, send, regenerate, enqueue, stop, resume, compact, clear, archive; events, settlements, history loads and polls | every operation awaits answers while the user goes on; a late answer must not touch another task's view, an answer under way, or a view that moved on |
| LUMORA Cloud session (`cloud-session-client.ts`, `cloud-credential-store.ts`) | session in memory, refresh token on disk, the refresh under way | restore, login, logout, authenticated fetch, refresh | refresh tokens are spent once; callers share a refresh; the token on disk and the session in memory may part in a fault |
| Tool calls (`tool_call_scheduler.py`, `registry.py`) | the calls of a turn that run or are settled, the next to start and to answer, the pause | start, refuse, finish, commit in order, pause, cancel | safe calls run side by side and end in any order; pause and cancellation come in the middle |
| Resource locks (`resource_locks.py`) | per key: readers, writer, waiting writers | hold, acquire, wait, release, cancel | shared by the turns of all tasks and by child agents; writers go first; a waiter may be cancelled |
| Workspace write leases (`write_intents.py`) | leases with expiry | declare, renew, verify, release | a lease may expire while its holder writes |
| MCP session pool (`session_pool.py`) | sessions, counts, pending connects | acquire, release, evict, invalidate, close | state is read before an `await` and used after it |
| Subagents and workflows (`subagent/*`, `AgentSessionStore`, `AgentWorkflowStore`) | child sessions, inboxes, activations, projections | send, activate, interrupt, report | events are projected out of order and more than once |
| Task worktrees, run changes (`TaskWorktreeService`, `GitRunChangeService`, `WorkspaceChangeLedgerService`) | worktree owner and state, change ledger | acquire, apply, discard, recover | git commands and rows can disagree after a crash |
| The rest: permissions, budgets, memory, models, MCP configuration, prompts, providers, documents, attachments, Electron main process | mostly configuration and I/O | | data transformation and I/O, little interleaving |

How they interact. The Desktop calls the Core over HTTP and reads SSE streams.
The coordinator's methods are synchronized on one monitor; it starts a worker
thread per turn, which calls back (`onEvent`, `complete`, `fail`) into the same
monitor. The worker reads the runtime's event stream; steers and pauses travel
the other way over HTTP. Events go through the journal, which persists them and
then hands them to the stream registry. In the Desktop the main process reads the
streams and forwards their events to the window, whose task store applies them; it
also keeps the session with the LUMORA Cloud. In the runtime a turn's tool calls go
through the scheduler, the executor and the registry, which runs each one under the
locks of its resources; a delegating call runs a whole turn of a child agent.

What makes each part correct: a task has at most one active run; slots are never
exceeded, lost, or held by runs that do not work; a pause converges; a queued
run is served and a queued input is not forgotten; a closed input never reopens;
events are persisted once, in order, before anybody sees them; a reader gets
every event once and learns the end; a view shows its own task's text, is fed while
it says that an answer is being written, and keeps a stopped answer as it is; a
refresh token is spent once and a session in memory can be restored; tool results
enter the history in the model's order, what the tool of one call writes no other that
runs uses, and no turn waits for ever.

## 2. Plan

| Order | Module | What it is | State |
| --- | --- | --- | --- |
| 1 | `RunLifecycle` | abstract: phases of runs, one live run per task, bounded work | done |
| 2 | `RunCoordinator` | coordinator, inputs, turn worker, runtime control | done |
| 3 | `RunCoordinatorProofs`, `RunCoordinatorRunProofs`, `RunCoordinatorInputProofs` | types and slots; runs, their life cycle and the queue; inputs | done |
| 4 | `WriteBehindLog`, `EventJournal` | abstract log with a lag; the journal that implements it | done |
| 5 | `EventJournalProofs` | types; the refinement of `WriteBehindLog`; retries, timer and flushes | done |
| 6 | `LogReaders`, `RunStream`, `RunStreamProofs` | abstract readers of a log; the registry, a settling run and reconnecting readers; types, completeness, ends and the safety of the refinement | done |
| 7 | `TaskStore`, `TaskStoreProofs` | the desktop's view of tasks over a small Core; its types, what keeps tasks apart, its subscription, stopped answers | done |
| 8 | `CloudSession`, `CloudSessionProofs` | the shared session; its types, storage and single use of tokens | done |
| 9 | `ResourceLocks` | the lock table | done |
| 10 | `ToolCalls`, `ToolCallsProofs` | the scheduler and delegation over `ResourceLocks`; the locks' exclusion and absence of deadlock for any calls, the refinement of the locks, order of answers | done |
| 11 | `CloudModels` | the model coordinator over `CloudSession`, with its proxy and preferences | next |
| 12 | `WriteLeases`, `SessionPool` | leases with expiry; the pool across awaits | then |
| 13 | `AgentInbox`, `TaskWorktree` | child inboxes and their projections; worktree ownership over restarts | then |

`RunStream` implements `LogReaders` and `EventJournal` implements `WriteBehindLog`;
`TaskStore` has its own small Core, whose runs and rows are those of
`RunCoordinator` with one run per task, and `ToolCalls` extends `ResourceLocks`.

Theorems still to be proved: two properties of `TaskStore`, of the moments when nothing is
under way, would need other statements first (section 6).

## 3. The modules and the code

### `RunCoordinator`

One action per critical section. A method that is `synchronized` on the
coordinator is one action with everything it calls while it has the monitor; a
method that lets go of it (`pause`, `cancel`) is one action per section, with the
API thread's program counter in `client`; what a worker thread or the runtime
does outside the monitor is an action of its own.

| Variable | In the code |
| --- | --- |
| `status` | `conversation_run.status`; `"NEW"` is a run id not drawn yet |
| `input` | `conversation_input`: status, target and bound run |
| `pausingLog`, `repairable` | what `recoverRunsAfterRestart` reads from the event log and the error text |
| `queue`, `executing`, `pausedTurns` | `queuedRunIds`, `executingRunIds`, `pausedTurnRunIds` |
| `activeRun`, `worker` | `ConversationServiceImpl.activeRuns` and the `FutureTask` of each turn: how far it is, how it ends, whether the pause latch is set, whether it was interrupted |
| `steers`, `claims` | the runtime's buffer (`RunControl`) and the `steer_claimed` events on their way back |
| `client` | where an API thread is inside `pause` or `cancel` |
| `ready` | whether recovery has run: the Core serves nothing before |
| `unsettled` | history: runs whose settlement a fault cut short. Slots and statuses may disagree for these and for no others |

| Action | In the code |
| --- | --- |
| `StartMessage`, `Resume` | `startMessage`/`regenerateMessage` and `resume`: checks, create or requeue, `drainQueue` |
| `EnqueueSteer` ... `DeleteInput` | `enqueueInput`, `updateInput`, `deleteInput` by target and outcome, with the runtime call they make |
| `DrainQueue` (operator) | `drainQueue`: takes queued runs while slots are free, skips cancelled ones, starts workers, delivers pending steers, lets a start that throws `fail` |
| `Complete`, `Fail`, `SettleThrows` | the callbacks, with the inputs they move on, the next turn they enqueue and the slot they release |
| `PauseBegin`, `PauseForward`, `PauseRollback`, `PauseFinish` | the sections of `pause` |
| `CancelBegin`, `CancelKill`, `CancelAwait`, `CancelSettle`, `CancelThrows` | the sections of `cancel`, with `cancelGeneration`'s wait for the worker and its timeout |
| `StartRuntime` ... `WorkerKilled` | a turn's worker and its events |
| `Crash`, `Recover` | the process dies; `recoverRunsAfterRestart` |

The runtime is modelled in as far as the Core meets it: a call may be refused or
its reply lost, a steer is claimed at a step boundary, a turn completes, pauses or
fails, a control registered early expires. Run ids are fresh, so `FreshRun` picks
any; an input's position is the user's to edit, so any pending input may be first.
A steer that is delivered again is accepted, refused (it becomes a next turn), lost on
its way back, or not taken. A settlement may throw before anything is written, when the
steers are moved, or when the status is written too; a cancel when the inputs are
cancelled and the status is not, or when both are.

### `RunLifecycle`

What a user of the Core may rely on, with none of the above: a run is new,
waiting, active, paused or done; done is final; one live run per task; bounded
work. One step may move several runs because the handler that ends a run starts
the next. `LifecycleSpec` is this module under the mapping `phase`.

### `EventJournal`, `WriteBehindLog`

`append` from any thread, `flush` from threads that wait, and a single writer
thread that serves the timer's task and theirs. An action is a critical section of
`queueMonitor`, a transaction, or one envelope handed on; so the writer's steps
(`TakeAll`, `Persist` or `PersistFails`, `Publish`, `EndBatch`, `EndJob`)
interleave with appends, interrupts, `close` and the process's end. `jobs` is the
executor's queue, `batch` what the writer has taken and not yet persisted or put
back, `attempts` and `quarantined` are the fields of these names. The writer
persists the batches of a flush of all (`writer.todo`) in any order: the code goes
through a map by insertion, and appends of different runs come in any order. Once
`close` has had its last flush, the executor refuses a later one (`FlushRejected`). The n-th event of
a run is the number n, so that an event that is skipped, repeated or overtaken
shows in `log`.

`WriteBehindLog` is the promise: a durable log with a tail of unsaved events,
which becomes durable from its front or is lost with the process. The mapping
takes the tail to be `batch \o pending \o quarantined`.

### `RunStream`, `LogReaders`

`LogReaders` is the promise: each reader has read a prefix of the log, and the log
does not change where it was read. `RunStream` is one run whose events are published to subscribers
of two kinds. A *numbered* reader (`consumeRunStream`) knows the number of the last
event it read, subscribes behind it, and after an end that is not the run's tries
again; a *raw* one (`consumeMessageStream`, the stream that a message or a
regeneration begins) gets events without numbers and does not try again.

| Variable | In the code |
| --- | --- |
| `log`, `published`, `row`, `replay` | the stored events, how many the registry has had, the run's status and `replayFromSequence` |
| `pc` | how far the Core is with ending, pausing or cancelling the run |
| `list` | the subscribers of the registry: their reader's connection, last sequence, whether the emitter is complete |
| `reader` | a subscription of the window: what is on the wire, the cursor, the reconnections, how far `consumeRunStream` is |

An action is a critical section of the registry, one of the Core's writes in the
order of the code (`Store`, `RowEnds`, `CloseStreams`; a cancellation ends the row
before it stores its event), one event read, an end of a stream, a broken
connection, or a call of `subscribe` and `unsubscribe` from the window. The run may
be paused and resumed while it is read: at work, with the worker's event or, when its
stream failed, without one; or while it is queued, before its first turn or resumed, which
leaves the streams open.

### `TaskStore`

The Core is reduced to what the window can tell apart: runs with a status and a log
of texts and endings, saved messages (`saved`, what was written before and the
answer), queued inputs. On it, `ui` is the store's state: the task on show, its
messages, its `activeRun`, the flags `isChatting`, `isPausing`, `chatWasStopped`,
`historyHydrating`, `isCompacting`, and `cache`. `sub` are the subscriptions made so
far with their event batches, `current` is `unsubscribeChat`, `resolver` is
`resolveChat`. What awaits an answer is a record of `work`: an operation, how far it
is, and what it had read before it awaited. An action is what the event loop runs
between two awaits, or a step of the Core or the network. A message may be sent when the
page would not queue it (`ShouldQueue`, `TaskPage.tsx`): `sendMessage` itself does not ask.
The Core takes a resume of a run that is paused, and of one it has resumed already; it
pauses at once a run that may still be queued (`MayBeQueued`); and a run that fails
when it was to pause is paused, its stream ending without the event of an end (`"cut"`).

| Action | In the code |
| --- | --- |
| `Open`, `MessagesRead`, `RunRead`, `Loaded`, `Hydrated` | `openTask` up to its `Promise.all`, the two reads, what follows them, and a chunk of a long history |
| `SendMessage`, `RegenerateMessage`, `Submit`, `Refuse`, `Abort`, `ProbeRead`, `Probed` | the message's view, its stream, the Core's answer, and the run asked for beside it |
| `EnqueueInput`, `InputQueued`, `Enqueued`, `FollowOpens`, `FollowAgain` | `enqueueInput`; the polls of `followNextRun` |
| `StopChat`, `StopFound`, `PauseRun`, `PauseAnswered`, `StopGivesUp`, `PauseRead`, `PauseSettled` | `stopChat`, await by await |
| `ResumeChat`, `ResumeRun`, `Resumed`, `ResumeRefused` | `resumeChat` |
| `CompactContext` ..., `CreateTask`, `Created`, `ClearActiveTask`, `ArchiveTask` | the operations of these names |
| `Deliver`, `Flush`, `SettleRead`, `Settle` | `applyRunEnvelope`/`applyChatEvent`, the batcher's timer, and the saved messages that the end of a run asks for |

The n-th text of run r is the pair of r and n, so that text of another run or task,
repeated or lost, shows; `run[r].text` is what the Core has accumulated of it. The types
(`SomeViews`, `Subscriptions`, `Jobs`, ...) take a set of runs: `Fits(owned)` says that
the views, messages, subscriptions and jobs of each task t hold only what there is of
the runs `owned[t]`. With all runs that have begun (`AnyRuns`) this is the type
invariant, with the task's own (`OwnRuns`) it is what keeps tasks apart. `usage` stands for the object whose identity
`isCurrentSettlement` compares. A text event and the batcher's flush are two steps.
`QUEUED` and `WAITING_APPROVAL` are folded into `RUNNING`; `waitForActiveRun`'s polls
inside one call are one. The list of recent tasks is assumed to hold the opened task;
a turn is regenerated from a view that shows what is saved, where messages have their
identities. The user's session is one of `Sessions`, any set of finite sequences of
operations; `Left(operations)`, `Overtaken` and `RacesItsInput` name the sessions in which
a property does not hold (section 7).

### `CloudSession`

Callers run `restore`, `login`, `logout` and `authenticatedFetch`; each is a record
in `job` that says where it awaits. `auth` is the session in memory, `stored` the
credential file, `refresh` the promise callers share (`refreshPromise`). The server is
what its answers tell: a refresh token is exchanged once, a logout revokes it, access
tokens expire (`old`). Faults, bounded by `MaxFaults`: the server does not answer, its
answer is lost after it has exchanged the token, the credential cannot be read,
decrypted, written or cleared, the desktop ends and starts again. A file that cannot be read
or parsed is taken for none (`read`): a refresh then ends the session
(`CannotRefresh`), and a login writes the file anew without the token, before it asks the
server (`GetsDeviceId`). `overwritten` remembers the latter until a token is written or
cleared.

### `ResourceLocks`, `ToolCalls`

`ResourceLocks` has one lock per key (`lock`: readers, writer, waiting writers) and
for every call its resources in order (`access`), how many it has (`acquired`) and
where it is (`at`): asleep in `Condition.wait`, woken by a `notify_all` and not yet
running, awake, leaving through the `finally` of `hold`, done. The condition's own
mutex is never held across a suspension and is left out. A cancelled writer gives
up its place and wakes those behind it; a cancelled call gives its locks back one
by one, the last first.

`ToolCalls` extends it with turns. `plan` is what the model asked for; a call is a
turn and its place. `Accesses` is the registry's choice for a tool that names no
resource, `Normalized` the order of `_normalize_accesses`. `MayStart` puts the two
loops of the scheduler together: a call that is not safe starts when everything
before it is answered, a safe one also beside the safe calls of its group. `Commit`
is `_commit_ready`, `EndTurn` the aborted answers of a pause. A delegating call ends
when its child's turn has ended (or never began: a refused delegation); the child
sees its parent's pause (`_SubagentRunControl`). Only turns of tasks are cancelled,
and a cancellation reaches the call a turn runs alone; safe calls are waited for, as
`asyncio.gather` does. From its check of permissions to `hold`, a call is one step.
A tool that is not a coroutine runs in a thread (`asyncio.to_thread`, `threaded`). A
cancellation takes the call's locks away and cannot stop the thread: `threads` are the
calls whose tool goes on (`CancelCall`) until it returns (`EndThread`). `Uses` is what a
tool that runs may read or write, whether its call still has the locks or not.

## 4. What the runs check

| Run | States | Shows |
| --- | --- | --- |
| `runs` | 938,240 | slots, queue and statuses agree (`WorkingRunsHoldSlots`, `SlotsAreWorked`, `QueuedRunsAreEnqueued`), callbacks never meet another turn of their run (`NextTurnStartsClean`), and the coordinator implements `RunLifecycle` |
| `inputs` | 889,388 | one active run per task, no steer left on a run that ended, no next-turn input forgotten, no closed input reopened, with a store that fails |
| `live` | 6,430 | a pause converges and a queued run is served |
| `journal` | 101,736 | the journal implements `WriteBehindLog`; a flush that returns has saved what its thread appended; failed batches are retried by the timer; flushes return and events settle |
| `streams` | 734,882 | subscriptions get every event once and in order up to the end, know the end from a broken stream, and end; the registry empties |
| `store` | 602,396 | the views show their own task; only the user changes the task on show; the view keeps to its subscription and is fed while it says so; stopped answers stay; settlements keep new answers; calls return |
| `cloud` | 157,895 | one refresh at a time, a token never sent twice, a token on disk for every session unless a login could not read the file, an outage forgets nothing, and every call returns |
| `tools` | 94,262 | no tool uses what another writes, but beside the thread of a cancelled turn; a turn's history is as if its calls were made in turn; every turn ends |
| `slots`, `paused_steers`, `pauses`, `delegates` | | one disagreement each between a document and the code (section 7) |

Why the bounds are enough.

* `runs`: two tasks with a run each and one slot make every conflict over slots and
  over the queue; two API threads make every pair of pause, cancel and resume on
  one run or two. A second run per task adds nothing here: the next turn of a task
  is what `inputs` is about. The sets are symmetric in the tasks (with their runs)
  and in the API threads.
* `inputs`: one task with two runs (the one that ends and the one that follows) and
  two inputs (one overtakes, one is left). One API thread, because what two of them
  do to each other does not depend on inputs. Faults are on: a store or journal
  that throws in a settlement or a cancel.
* `live`: no cancels and no inputs, so that what is checked is convergence itself.
* `journal`: two runs, because a flush of all goes on after a batch that fails; two
  events each, because one is overtaken by another; two attempts instead of five;
  one thread that flushes, which may be interrupted and may flush again after each
  answer. `MaxEvents` bounds the events of a run between restarts, and a caller that
  was interrupted calls no more: the bounds that keep `jobs` finite.
* `streams`: a numbered and a raw reader, which do not affect each other but through
  the registry's list; one text, one fault, one reconnection instead of three: the
  second reconnection begins from the state of the first. A run may be paused and
  resumed once.
* `store`: three tasks (one yet to be created, one with a history that is loaded in chunks),
  two runs, three subscriptions (the one on show, the next, and one that is late), one
  text per run, one answer of each kind of work under way (`MaxJobs`), one poll instead
  of five. Sessions are any two of the five common operations, save a message that is
  followed by a message or a stop, which regenerating stands for, and thirteen others of up
  to three, from no task, a task at rest and a task at work: a race is between an
  operation's late answer and the next operation, and a third one matters where the
  second only sets the stage (two resumes after a stop among them). Each operation that waits for an answer is left for another
  task, because a task's text can only come where it does not belong when the task was left.
* `cloud`: three calls of any kind, because a second waits for the first one's refresh
  while a third changes the session; one fault.
* `tools`: up to three calls per turn of every mix of read, write and shell that two
  tasks or a parent and its child make over one file in one workspace, two side by
  side; deeper locks are the business of the proofs about `ResourceLocks`.

## 5. Fairness

`RunCoordinator`: weak fairness of recovery, of every API thread inside a call,
and of every worker. Nothing is asked of users: a turn waiting for a tool approval
need not go on, unless it was asked to pause, which makes the runtime withdraw the
question; `QueuedRunsAreServed` says so. `live` assumes that the call that forwards
a pause gets through: a failed one is tried again only at the runtime's next event.

`EventJournal`: weak fairness of the writer inside a task; strong fairness of
starting the timer's task and the queued ones, because the executor's queue is
ordered by due time and a due task is not overtaken for ever. A persisting
transaction is not assumed to succeed: `EventsSettle` holds because a batch that
keeps failing is set aside.

`RunStream`: weak fairness of a settlement that has begun, of the removal of a completed
subscriber, and of each reader's side of the connection. A run need not end.

`TaskStore`: the runs check safety; `ChattingViewsAreFed` and `CallsReturn` speak of the
moments when nothing is under way, which needs no fairness. `pauses` has it
(`LiveSpec`): streams bring what there is, answers come and timers fire, and a run
that is asked to pause ends.

`CloudSession`: weak fairness of the refresh under way and of each call that has its
answer. Answers come: a request without one would keep its caller, and every caller
behind it, waiting; the client sets no timeout.

`ToolCalls`: weak fairness of the event loop as a whole, in which every tool returns.
It is weaker than fairness of each call and enough, because no step can be repeated.

## 6. What is proved

For every value of the constants, by TLAPS:

* `TypeCorrect`: `Spec => []TypeOK` for `RunCoordinator`
  (`RunCoordinatorProofs`). Its lemmas state the types of the operators the
  handlers share, above all of `DrainQueue` and of the choice of next turns.
* `SlotsAreBounded` and `SlotsAgreeWithStatus`: `[]SlotBound` and
  `[](WorkingRunsHoldSlots /\ SlotsAreWorked)` (`RunCoordinatorProofs`). None is inductive. The
  invariant `SlotInv` adds that only runs at work hold slots (`SlotsAreWorked`,
  needed because freeing a slot must not take it from one at work), that the branch
  of `pause` for a run without a slot is only taken by runs with a failed
  settlement (`SlotlessPausesAreUnsettled`: it writes `PAUSED` without looking),
  and that nothing is under way before recovery (`NothingRunsBeforeRecovery`:
  recovery rewrites statuses and must not meet a worker). The proof has one lemma
  per way a handler treats slots (keeps them, moves a turn, creates, queues, drains,
  settles, crashes, recovers), and `SlotsDrained` carries the induction step of
  every handler that ends in `drainQueue`.
* `NextTurnsStartClean`, `TasksHaveOneActiveRun` and `CoordinatorKeepsLifecycle`:
  `[]NextTurnStartsClean`, `[]OneActiveRunPerTask` and `Spec => LifecycleSpec`
  (`RunCoordinatorRunProofs`). `RunSteps` first says of each run what a step may do to it;
  the rest is read off it. `RunInv` says that a run at rest has an empty worker
  (`CleanRuns`), that one that works without a slot has had its turn
  (`SlotlessWorkIsOver`), and that a `pause` about to write `PAUSED` still has its run
  at `PAUSING` with no worker (`FinishingPauses`). The last is not kept when faults leave
  a run `PAUSING` without a slot and two threads pause it: see section 7. Hence the
  hypothesis `PausesAlone`, no faults or one API thread. One active run per task and the
  life cycle also need `~SequenceConflicts`, because recovery turns a repaired run back
  without asking for its task, and the life cycle needs that no fault cuts a settlement
  short. The runs `runs` and `inputs` check the two sides of `PausesAlone`.
* `EveryQueuedRunIsEnqueued`: `[]QueuedRunsAreEnqueued`, under `PausesAlone`
  (`RunCoordinatorRunProofs`). `QueueInv` adds that the queue has no run twice and which
  calls excuse a run that is not in it; `drainQueue` takes a prefix of the queue and what
  it skips was cancelled.
* `InputsStayClosed`, `SteersHaveARun` and `NoNextTurnIsStranded`:
  `ClosedInputsStayClosed`, `[]OpenSteersBelongToActiveRuns` and `[]NextTurnsFollowOn`
  (`RunCoordinatorInputProofs`), with faults and any number of threads. `InputInv` says
  that an open steer has an active run of its own task (`SteersOK`), that there are as
  many unused run ids as inputs that may want one (`ReserveOK`), and that a waiting next
  turn has a run that leads to it (`FollowOK`). Only the last needs a hypothesis,
  `RunsSuffice`: a task has no fewer run ids than inputs. The code draws fresh UUIDs,
  and a model that runs out of ids would strand an input that the code does not.

* `JournalTypeCorrect`: `[]TypeOK` for `EventJournal` (`EventJournalProofs`).
* `JournalKeepsOrder`: `Spec => LogSpec`, the journal implements `WriteBehindLog`
  (`EventJournalProofs`). The invariant `LogInv` behind it says that the log and
  the unsaved events make up all that was appended (`NothingIsLost`: the next event
  has the number the abstract log gives it), that the writer has a batch of exactly
  the runs it has still to persist (`BatchesAreTodo`, `NothingTodoElsewhere`: a batch
  taken cannot overwrite another), and that a run with events set aside has none
  elsewhere (`SetAsideWhole`: the tail's three parts are in order). One lemma per
  step that moves events; the facts on concatenation come first.
* `RetriesStop`, `NoEventIsForgotten` and `FlushSaves`: `[]RetriesAreBounded`,
  `[]WaitingEventsAreScheduled` and `[]FlushesSave` (`EventJournalProofs`), each
  from an invariant of its own on top of `LogInv`. A run whose events are published
  has none set aside (`PublishedAreNotSetAside`: its failures are forgotten next). A
  batch in the writer's hands keeps its timer as much as one that waits (`TimerInv`:
  it may come back). And a task is awaited by the threads it was queued for, each
  in one task, and as long as it has not failed what they wait for is durable or in
  the writer's batch of their run (`FlushInv`).

* `StreamTypesHold`, `OpenStreamsMissNothing`, `EndedReadersWereTold` and
  `StreamsServeReaders` (`RunStreamProofs`): `[]TypeOK`, `[]OpenStreamsAreComplete`,
  `[]EndedReadersSawTheEnd` and the refinement of `LogReaders` without its fairness, for
  any readers, events, faults and reconnections. `StreamInv` relates the two ends of a
  connection. What a reader was given and what is on its way are the events after the one
  it named, none missing (`ReaderOK`); the subscriber behind an open connection was sent
  just these (`SubscriberOK`), and there is one (`StreamOK`); a subscriber that came to a
  run that is over, whose emitter throws, stands behind all others (`CompleteAreLast`), so
  that the loop of `publish` serves every open connection before it throws; and nothing
  is stored behind the event that ends a run (`EndIsLast`), so that what follows an
  ending a reader was told of is a resumption. Publication keeps the subscribers
  at an increasing sequence of positions (`OrdersInOrder`, `ThinnedList`).

* `TypeCorrect` of `CloudSession`, `SessionsAreStored`, `TokensAreUsedOnce`,
  `FreshSessionsStay` and `OutagesForgetNothing` (`CloudSessionProofs`).
  The second excepts a session whose
  file a login has written anew without reading it (`overwritten`), the last that login.
  `TokensAreUsedOnce` needs `TokenInv`: without faults a token that is spent has been
  replaced, in memory and on disk, before anybody can read it again
  (`SpentTokensAreReplaced`), and the successor a refresh brings is new
  (`SuccessorsAreNew`).
* `LocksAgree`, `LocksTypeCorrect`, `LocksAreExclusive` and `NoDeadlock`
  (`ToolCallsProofs`), for any finite set of calls with any resources; what is exclusive
  is the lock (`LocksExclude`). `LockInv` says
  that the counters are the numbers of calls that have or await a lock, that a writer's
  flag is set for exactly one call, and that a call asleep has its reason: somebody has
  the lock, or a writer that comes first waits for it. `NoDeadlock` takes a sleeping call whose
  wanted key is greatest: whoever is in its way has or wants no greater key asleep, so
  it can go on. What it does not cover is a call whose tool waits for another call,
  which is how `delegates` comes about.
* `ToolsUseLocks`: `Spec => LocksSpec`, the calls of turns use the locks as
  `ResourceLocks` says (`ToolCallsProofs`). It needs that the sequence `Normalized` picks
  exists: a finite set of accesses of which no two have the same key can be put in the
  order of the keys (`OrderExists`, by the least size of a set that cannot, and its
  greatest key). `CallsAreExclusive`, of the tools that run, follows from it
  and `LocksAreExclusive`, and from one invariant more: a tool goes on in its thread
  without its locks only when its turn was cancelled.
* `ToolsTypeCorrect` and `TurnsAreSequential`, `[]TypeOK` and `[]HistoryIsSequential`
  of `ToolCalls`, from `CallsInv`: besides what the history shows, a call not started is
  idle, answers never run ahead of starts while a turn goes on, and of the calls started
  only the last may be unsafe and not done, with all before it answered (`TurnInv`).

* `TypesHold`, `TasksAlwaysStayApart`, `ViewsAlwaysShowTheirOwn`,
  `TaskOnShowIsAlwaysTheUsers`, `HeldSubscriptionAlwaysFeedsTheView` and
  `StoppedAnswerIsAlwaysFrozen` (`TaskStoreProofs`), for any tasks, runs and
  subscriptions and for sessions of any length: `[]TypeOK`, `TasksStayApart`,
  `[]ViewsShowTheirOwn`, `TaskOnShowIsTheUsers`, `[]HeldSubscriptionFeedsTheView` and
  `StoppedAnswerIsFrozen`. One lemma per action says that if everything fits the
  runs `F[t]` of each task t before, it fits `G[t]` afterwards, where G is F or F with the run
  that begins (`Step(F, G)`). It is used twice: for `AnyRuns` it is the step of the type
  invariant, and for `OwnRuns` that of `TasksStayApart`, where the answers of a
  compaction, a resume and a late chunk of a history are the only steps at which it
  breaks. `Attended` says what the user's counter `openTaskRequest` is good for: a load
  that is still the latest is of the task on show, or none is shown, or a creation was
  left (`LatestLoadAgrees`); at most one task is being created, with nothing else shown or
  loaded unless the creation was left (`OneIsCreated`); and a resume or a compaction
  whose task is not the one on show was left by the user (`AnswersAreOfTheView`). What
  is remembered, saved, batched or under way must be its task's own too, or it would come
  into the view later: `ViewsShowTheirOwn` is proved of `Fits(OwnRuns)` (`HoldTheirOwn`).
  The held subscription is inductive on top of these: one the store no longer holds may
  go on, the one it holds is given up or replaced whenever the task on show is. The
  frozen answer follows from the types by cases: the only steps that add text to a view
  look at `isPausing`, those that replace it show what a job has read or what is
  remembered. TLC checked these invariants before they were proved, and `TasksStayApart` on
  those sessions of `store` in which a task is left; the run keeps `ViewsShowTheirOwn`,
  because `TasksStayApart` takes long to evaluate at every step.

The assumptions are those on the constants: runs and inputs are finite sets, `NoRun`
is no run, each run and input has a task, `lumora.runs.max-concurrent` and
`MAX_PERSISTENCE_ATTEMPTS` are positive; calls and keys are finite sets, keys are
numbers in the order of their names; there are finitely many tasks, a session is a
sequence of operations, and a run and a subscription have numbers as their names.

Only model-checked: of `TaskStore`, `ChattingViewsAreFed`, `CallsReturn` and
`SettlementKeepsNewAnswers`, in the sessions of `store` (and, apart from the run, of two
messages and of a message and a stop). Each names the sessions for which it does not speak:
a message and an input queued behind it (`RacesItsInput`), a call that takes another's
place in `resolveChat` (`ReplacesResolver`), a load that leaves a stream behind
(`LeavesItsStream`); section 7 says how they break it. Whether these are all the
sessions, of any length, is what a theorem would have to show. Out of the provers' reach and left to TLC: everything under fairness
(`PausesConverge`, `QueuedRunsAreServed`, `FlushesReturn`, `EventsSettle`,
`RegistryEmpties`, `CallsReturn` of `CloudSession`, `TurnsEnd`, and of `EventsReachReaders`
that a reader comes to an end once the run is over).

## 7. Where documents and code disagree

* `slots`: `cancel` decides in its first section whether its run holds a slot and in
  its second releases the slot of whatever turn the run has by then. A resume in
  between leaves a turn at work without a slot
  (`docs/cross-task-concurrency-design.md:67` says slots outlive turns).
* `paused_steers`: a steer delivered and not yet claimed when its turn pauses stays
  `DELIVERED`; the runtime has dropped it and a resumed turn is handed `PENDING`
  ones only (`docs/conversation-input-queue-design.md:14` says `PENDING`).
* `pauses`: the answer of `pauseRun` (`PAUSING`) may come after the event that ended
  the run or its pause; `stopChat` applies it all the same, and the view says for ever
  that the run is pausing (`docs/architecture.md:234`, `:237`).
* `delegates`: `delegate_task` names no resources, so the registry runs it under a read lock of
  the workspace until its child has ended; the child's command asks for the write lock
  of the same workspace and neither goes on (`docs/architecture.md:134` says that children
  may run the shell). For the same reason a child's reads wait when another task's
  command waits behind the delegating call.

Seen while modelling, without a run. In the Core:

* editing or deleting a delivered steer that the runtime no longer holds records it as
  `CLAIMED` (`docs/conversation-input-queue-design.md:139` says that only
  `steer_claimed` does);
* a run whose settlement failed may stay `PAUSING` without a slot; when two API threads
  pause it, one may finish, the run be resumed, and the other then write `PAUSED` over
  the turn at work, which keeps its slot and may meet a second active run of its task
  (the last section of `pause` does not look at the row again);
* recovery turns a `FAILED` run back into `PAUSED` without asking whether its task has
  another active run by now (`docs/cross-task-concurrency-design.md:65`); the constant
  `SequenceConflicts` turns it on. No run does: set to `TRUE` in the instance of `inputs`,
  TLC finds `OneActiveRunPerTask` violated after a pause, a crash and a recovery.

In the streams: `terminal` is never reset while a stream is read on, so a pause followed
by a resumption is taken for the end when the connection breaks; a failed event that
the main process makes up has the number after the cursor; after a cancellation whose
event cannot be stored the streams are not completed; a reader that subscribes while
the run is being cancelled gets an early end and reconnects.

In the task store:

* `resolveChat` is one variable for all calls, and what replaces it does not resolve the
  call that was there. A paused run may be resumed twice before the first answer: the Core
  accepts both (`ConversationRunCoordinator.java:499`), the second `resumeChat` takes the
  first one's place (`task-store.ts:1128`), and the first never returns. The same
  befalls a message that is stopped before its run is found and followed by another
  (`task-store.ts:752`). The other way round, the late end of a stop resolves the call that
  has come since (`task-store.ts:1019`), whose tail gives up its own stream;
* a run that fails when it was to pause is paused and its streams end without an event that
  `applyChatEvent` takes for an end: a `resumeChat` that reads one does not return, and
  a view fed by a raw stream stays at pausing (`WasCut`);
* the events of `sendMessage`'s stream do not advance the cursor, so a switch away and
  back replays them; `openTask` drops a batch not yet flushed although the cursor has passed it;
  the chunks of a history replace text that came live;
* a load that ends after `sendMessage` on the same task overwrites `unsubscribeChat` and
  leaves the message's raw stream behind (`task-store.ts:587`). If the load found the next
  queued run at work, the end of the first run comes late on that stream; its settlement
  takes the object `isCurrentSettlement` compares from the new view, finds it unchanged,
  and puts the saved messages in the place of the answer under way, although
  `chat-event-handler.ts:198` says that a new run replaces that object. It takes a session
  that opens a task, sends and queues an input, and `SettlementKeepsNewAnswers` names it
  (`LeavesItsStream`): without that clause TLC finds it violated there;
* `resumeChat`, `createTask` and `compactContext` do not look at the task again after their
  awaits (`Overtaken`, `TasksStayApart`); the later chunks of a history look only at `openTaskRequest`, which `createTask`
  counts up when it begins and not when its answer puts the new task on show
  (`task-store.ts:430`, `:624`): opened in between, a task's history goes on coming into
  the view of the created one. No session of `store` reaches that with text to show, but the
  theorem needs the case. `stopChat`'s settlement clears a subscription without asking whose it is;
* an input queued while a message is on its way may overtake it: the probe then puts the
  input's run into the message's view (`RacesItsInput`). A message sent while a stop
  still waits may have its failed settlement taken for outdated;
* a stop answered late re-freezes a view that messages read earlier then replace;
  regenerating the turn of a paused run is refused and the view shows the run as failed;
  archiving a task that is being loaded lets the load open it again; a raw stream that
  ends without a terminal event leaves `isChatting` set; `openTask` reads the messages
  before a completion and the run after it.

In the cloud session: a refresh answered after a logout or a new login overwrites the
later state. A credential file that cannot be read is taken for one without a token: a
refresh then ends the session, and a login writes the file anew without the token, so that
a login that fails afterwards leaves the old session in memory only
(`cloud-credential-store.ts:32`). In the tool calls: a cancelled turn gives back the locks
of a synchronous tool whose thread goes on (`base.py:226`, `registry.py:322`), and
another task's tool may write beside it; `AccessIsExclusive` excepts such a thread. In the model coordinator (not modelled): two concurrent
`configureManagedModel` lose a provider's identity or create two; `restore` and `login`
set the source back to `CLOUD_MANAGED`; an activation whose preferences cannot be saved
stays active.

## 8. What is not modelled

* Of the coordinator: `revert`, which edits files and messages of a finished run;
  the texts, attachments and positions of inputs; events other than those that
  change a status or an input; `deliverPendingSteers` throwing after a worker was
  started. That `pause` forwards its request and then publishes `PAUSING` is one step:
  the event is read by recovery only, of runs that failed; a run that the process leaves
  between the two is found `PAUSING` by its row.
* Of the turn worker: messages, titles and context selection; tool approvals beyond
  the turn waiting for one.
* Of the journal: the workspace ledger's projection (idempotent by change id), an
  `Error` that is not a `RuntimeException` (it would lose a taken batch), wording.
* Of the streams: the REST calls beside them, and `text_reset`.
* Of the task store: `scheduleSupplementalUsageRefresh`, which asks for
  the saved messages again, after an answer and as long as none is under way, because
  the usage billed later is in them; `switchMessageBranch`, editing and moving of inputs, tool
  approvals, task events, preferences, failing and timed out REST calls other than the
  refusals named above.
* Of the cloud: what the server does beyond its answers; the coordinator, the proxy and
  the preferences.
* Of the tool calls: retries, approvals and reviews, write leases and the check for a stale
  workspace, budgets and delegation limits, continuable agents and workflows, what tools
  do with files. Hazards there that no model covers: a lease that expires while its
  holder writes; the MCP pool's state read before an await.
* The parts marked `not_modelled` in `PROJECT.json`, for the reasons given there:
  most are I/O or data transformation; those with interleavings are in the plan.
