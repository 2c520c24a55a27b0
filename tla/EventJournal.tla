---------------------------- MODULE EventJournal ----------------------------
(***************************************************************************)
(* ConversationRunEventJournal: the write-behind journal of run events.    *)
(* Threads append without waiting; a single writer thread serves the flush *)
(* timer and the threads that wait for a flush, persists the batch of a    *)
(* run in one transaction, and only then hands its events to the streams.  *)
(*                                                                         *)
(* An action is one critical section of queueMonitor, or one transaction,  *)
(* or one envelope handed on. The n-th event of a run is the number n.     *)
(***************************************************************************)
EXTENDS Naturals, Sequences, SequencesExt

CONSTANTS
    Runs,         \* the runs that emit events
    Callers,      \* the threads that wait for a flush
    MaxAttempts,  \* MAX_PERSISTENCE_ATTEMPTS
    MaxEvents,    \* bound on the events of a run
    Faults,       \* whether a transaction may fail
    NoRun         \* null

ASSUME MaxAttemptsAssumption == MaxAttempts \in Nat \ {0}
ASSUME MaxEventsAssumption == MaxEvents \in Nat
ASSUME NoRunAssumption == NoRun \notin Runs
ASSUME FaultsAssumption == Faults \in BOOLEAN

VARIABLES
    log,          \* durable: the events of each run, in sequence
    appended,     \* history: how many events each run has had
    pending,      \* pending
    quarantined,  \* quarantined
    attempts,     \* persistenceAttempts
    scheduled,    \* scheduledFlush is set and not done
    closed,       \* closed
    jobs,         \* the tasks waiting for the writer thread
    writer,       \* what the writer thread does
    batch,        \* the events it has taken and not persisted, by run
    published,    \* how many events of each run the streams were handed
    caller        \* the threads that flush

vars == <<log, appended, pending, quarantined, attempts, scheduled, closed, jobs,
          writer, batch, published, caller>>

-----------------------------------------------------------------------------
\* A task of the writer: the timer's, close()'s, or the flush of a run for the
\* thread that waits for it (nobody, once it was interrupted).
Timer == [kind |-> "timer", run |-> NoRun, for |-> {}]
Closing == [kind |-> "close", run |-> NoRun, for |-> {}]
FlushFor(c, r) == [kind |-> "flush", run |-> r, for |-> {c}]
Job == {j \in [kind : {"timer", "close", "flush"}, run : Runs \cup {NoRun},
               for : SUBSET Callers] : j.kind = "flush" <=> j.run # NoRun}

\* todo: the runs whose batch is still to be persisted; run: the one whose events
\* are being published. A writer at rest has no task: the one it shows is the
\* timer's.
Resting ==
    [pc |-> "resting", job |-> Timer, run |-> NoRun, todo |-> {}, failed |-> FALSE]
Writer == [pc     : {"resting", "takeAll", "persist", "publish", "finish"},
           job    : Job,
           run    : Runs \cup {NoRun},
           todo   : SUBSET Runs,
           failed : BOOLEAN]

\* The writer at step pc of its task.
Working(pc, run, todo, failed) ==
    [pc |-> pc, job |-> writer.job, run |-> run, todo |-> todo, failed |-> failed]

\* Where the writer goes with the batches todo left.
NeverDone(todo) == "persist"
Continue(todo) == IF todo = {} THEN "finish" ELSE "persist"

\* mark: how many events of the run there were when the thread asked.
Idle == [pc |-> "idle", run |-> NoRun, mark |-> 0]
Caller == [pc   : {"idle", "waiting", "returned", "thrown", "ended"},
           run  : Runs \cup {NoRun},
           mark : Nat]

\* The flush that job asked for returns, or throws.
AnswerSuccess(job, result) ==
    caller' = [c \in Callers |->
                  IF c \in job.for /\ result = "returned"
                  THEN [caller[c] EXCEPT !.pc = result] ELSE caller[c]]
Answer(job, result) ==
    caller' = [c \in Callers |->
                  IF c \in job.for THEN [caller[c] EXCEPT !.pc = result] ELSE caller[c]]

-----------------------------------------------------------------------------
(* The threads that append and flush *)

AlwaysPending(r) == FALSE
Isolated(r) == quarantined[r] # <<>>

\* append: an event of a quarantined run joins the batches set aside.
AppendEvent(r) ==
    LET e == appended[r] + 1
    IN  /\ ~closed
        /\ e <= MaxEvents
        /\ appended' = [appended EXCEPT ![r] = e]
        /\ IF Isolated(r)
           THEN /\ quarantined' = [quarantined EXCEPT ![r] = Append(@, e)]
                /\ UNCHANGED <<pending, scheduled>>
           ELSE /\ pending' = [pending EXCEPT ![r] = Append(@, e)]
                /\ scheduled' = TRUE
                /\ UNCHANGED quarantined
        /\ UNCHANGED <<log, attempts, closed, jobs, writer, batch, published, caller>>

Flushes(c) == caller[c].pc \notin {"waiting", "ended"}

\* flush(runId): the thread waits for the writer.
Flush(c, r) ==
    /\ Flushes(c)
    /\ caller' = [caller EXCEPT ![c] =
                     [pc |-> "waiting", run |-> r, mark |-> appended[r]]]
    /\ jobs' = Append(jobs, FlushFor(c, r))
    /\ UNCHANGED <<log, appended, pending, quarantined, attempts, scheduled, closed,
                   writer, batch, published>>

\* Once close() has had its last flush it shuts the executor down, which then
\* refuses tasks; Flush is the thread that was still in time.
FlushRejected(c, r) ==
    /\ closed
    /\ Closing \notin Range(jobs)
    /\ writer.job # Closing
    /\ Flushes(c)
    /\ caller' = [caller EXCEPT ![c] = [pc |-> "thrown", run |-> r, mark |-> appended[r]]]
    /\ UNCHANGED <<log, appended, pending, quarantined, attempts, scheduled, closed,
                   jobs, writer, batch, published>>

\* The thread is interrupted while it waits, and ends; its task goes on without it.
Interrupt(c) ==
    LET Leave(j) == [j EXCEPT !.for = @ \ {c}]
    IN  /\ caller[c].pc = "waiting"
        /\ caller' = [caller EXCEPT ![c].pc = "ended"]
        /\ jobs' = [n \in DOMAIN jobs |-> Leave(jobs[n])]
        /\ writer' = [writer EXCEPT !.job = Leave(@)]
        /\ UNCHANGED <<log, appended, pending, quarantined, attempts, scheduled,
                       closed, batch, published>>

\* close(): no more events, no more timer, one last flush of everything.
Close ==
    /\ ~closed
    /\ closed' = TRUE
    /\ scheduled' = FALSE
    /\ jobs' = Append(jobs, Closing)
    /\ UNCHANGED <<log, appended, pending, quarantined, attempts, writer, batch,
                   published, caller>>

-----------------------------------------------------------------------------
(* The writer thread *)

NeverRefused(r) == FALSE
Refused(r) == quarantined[r] # <<>>

\* flushRunNow: refused for a quarantined run, nothing to do without events;
\* otherwise the pending events of the run are taken.
StartFlush ==
    /\ writer.pc = "resting"
    /\ jobs # <<>>
    /\ Head(jobs).kind = "flush"
    /\ LET r == Head(jobs).run
       IN  IF Refused(r) \/ pending[r] = <<>>
           THEN /\ Answer(Head(jobs), IF Refused(r) THEN "thrown" ELSE "returned")
                /\ UNCHANGED <<pending, batch, writer>>
           ELSE /\ batch' = [batch EXCEPT ![r] = pending[r]]
                /\ pending' = [pending EXCEPT ![r] = <<>>]
                /\ writer' = [pc |-> "persist", job |-> Head(jobs), run |-> NoRun,
                              todo |-> {r}, failed |-> FALSE]
                /\ UNCHANGED caller
    /\ jobs' = Tail(jobs)
    /\ UNCHANGED <<log, appended, quarantined, attempts, scheduled, closed, published>>

\* flushAllSafely: events appended from here on need a timer of their own.
FireTimer ==
    /\ writer.pc = "resting"
    /\ scheduled
    /\ scheduled' = FALSE
    /\ writer' = [Resting EXCEPT !.pc = "takeAll"]
    /\ UNCHANGED <<log, appended, pending, quarantined, attempts, closed, jobs, batch,
                   published, caller>>

StartClosing ==
    /\ writer.pc = "resting"
    /\ jobs # <<>>
    /\ Head(jobs) = Closing
    /\ writer' = [pc |-> "takeAll", job |-> Closing, run |-> NoRun, todo |-> {},
                  failed |-> FALSE]
    /\ jobs' = Tail(jobs)
    /\ UNCHANGED <<log, appended, pending, quarantined, attempts, scheduled, closed,
                   batch, published, caller>>

\* takeAll: every pending batch.
TakeAll ==
    /\ writer.pc = "takeAll"
    /\ LET todo == {r \in Runs : pending[r] # <<>>}
       IN  writer' = Working(Continue(todo), NoRun, todo, FALSE)
    /\ batch' = pending
    /\ pending' = [r \in Runs |-> <<>>]
    /\ UNCHANGED <<log, appended, quarantined, attempts, scheduled, closed, jobs,
                   published, caller>>

\* persistAndPublish: the transaction of a batch. The order of the batches is that
\* of a map by insertion, which here is any order.
Persist(r) ==
    /\ writer.pc = "persist"
    /\ r \in writer.todo
    /\ log' = [log EXCEPT ![r] = @ \o batch[r]]
    /\ batch' = [batch EXCEPT ![r] = <<>>]
    /\ writer' = Working("publish", r, writer.todo \ {r}, writer.failed)
    /\ UNCHANGED <<appended, pending, quarantined, attempts, scheduled, closed, jobs,
                   published, caller>>

GivesUp(n) == n >= MaxAttempts

\* The transaction fails: the batch is retained in front of the events that came
\* since, or set aside with them.
PersistFails(r) ==
    LET n == attempts[r] + 1
        combined == batch[r] \o pending[r]
    IN  /\ Faults
        /\ writer.pc = "persist"
        /\ r \in writer.todo
        /\ attempts' = [attempts EXCEPT ![r] = n]
        /\ IF GivesUp(n)
           THEN /\ quarantined' = [quarantined EXCEPT ![r] = combined]
                /\ pending' = [pending EXCEPT ![r] = <<>>]
           ELSE /\ pending' = [pending EXCEPT ![r] = combined]
                /\ UNCHANGED quarantined
        /\ batch' = [batch EXCEPT ![r] = <<>>]
        /\ LET todo == writer.todo \ {r}
           IN  writer' = Working(Continue(todo), NoRun, todo, TRUE)
        /\ UNCHANGED <<log, appended, scheduled, closed, jobs, published, caller>>

\* One envelope of the committed batch is handed to the streams.
Publish ==
    /\ writer.pc = "publish"
    /\ published[writer.run] < Len(log[writer.run])
    /\ published' = [published EXCEPT ![writer.run] = @ + 1]
    /\ UNCHANGED <<log, appended, pending, quarantined, attempts, scheduled, closed,
                   jobs, writer, batch, caller>>

\* clearPersistenceAttempts, once all are.
EndBatch ==
    /\ writer.pc = "publish"
    /\ published[writer.run] = Len(log[writer.run])
    /\ attempts' = [attempts EXCEPT ![writer.run] = 0]
    /\ writer' = Working(Continue(writer.todo), NoRun, writer.todo, writer.failed)
    /\ UNCHANGED <<log, appended, pending, quarantined, scheduled, closed, jobs, batch,
                   published, caller>>

NotRescheduled(job) == scheduled
Rescheduled(job) ==
    \/ scheduled
    \/ job = Timer /\ ~closed /\ \E r \in Runs : pending[r] # <<>>

\* The task is over: a flush answers, the timer is set again if events wait.
EndJob ==
    /\ writer.pc = "finish"
    /\ Answer(writer.job, IF writer.failed THEN "thrown" ELSE "returned")
    /\ scheduled' = Rescheduled(writer.job)
    /\ writer' = Resting
    /\ UNCHANGED <<log, appended, pending, quarantined, attempts, closed, jobs, batch,
                   published>>

-----------------------------------------------------------------------------
\* The process ends, after close() or without it, and starts again.
Restart ==
    /\ appended' = [r \in Runs |-> Len(log[r])]
    /\ pending' = [r \in Runs |-> <<>>]
    /\ quarantined' = [r \in Runs |-> <<>>]
    /\ attempts' = [r \in Runs |-> 0]
    /\ scheduled' = FALSE
    /\ closed' = FALSE
    /\ jobs' = <<>>
    /\ writer' = Resting
    /\ batch' = [r \in Runs |-> <<>>]
    /\ published' = [r \in Runs |-> Len(log[r])]
    /\ caller' = [c \in Callers |-> Idle]
    /\ UNCHANGED log

Init ==
    /\ log = [r \in Runs |-> <<>>]
    /\ appended = [r \in Runs |-> 0]
    /\ pending = [r \in Runs |-> <<>>]
    /\ quarantined = [r \in Runs |-> <<>>]
    /\ attempts = [r \in Runs |-> 0]
    /\ scheduled = FALSE
    /\ closed = FALSE
    /\ jobs = <<>>
    /\ writer = Resting
    /\ batch = [r \in Runs |-> <<>>]
    /\ published = [r \in Runs |-> 0]
    /\ caller = [c \in Callers |-> Idle]

\* A task of the writer under way.
WriterStep ==
    \/ TakeAll
    \/ \E r \in Runs : Persist(r) \/ PersistFails(r)
    \/ Publish
    \/ EndBatch
    \/ EndJob

Next ==
    \/ \E r \in Runs : AppendEvent(r)
    \/ \E c \in Callers, r \in Runs : Flush(c, r) \/ FlushRejected(c, r)
    \/ \E c \in Callers : Interrupt(c)
    \/ Close
    \/ StartFlush
    \/ FireTimer
    \/ StartClosing
    \/ WriterStep
    \/ Restart

Spec == Init /\ [][Next]_vars

\* The writer thread goes on. Its tasks wait in a queue ordered by due time, so
\* neither the timer nor a waiting flush is put off for ever.
Fairness ==
    /\ WF_vars(WriterStep)
    /\ SF_vars(FireTimer)
    /\ SF_vars(StartFlush)
    /\ SF_vars(StartClosing)

FairSpec == Spec /\ Fairness

-----------------------------------------------------------------------------
(* Properties *)

\* Every variable keeps its type: batches hold event numbers, and the writer has a
\* run at hand when it publishes, and batches left when it is to persist one.
TypeOK ==
    /\ log \in [Runs -> Seq(Nat)]
    /\ appended \in [Runs -> Nat]
    /\ pending \in [Runs -> Seq(Nat)]
    /\ quarantined \in [Runs -> Seq(Nat)]
    /\ attempts \in [Runs -> Nat]
    /\ scheduled \in BOOLEAN
    /\ closed \in BOOLEAN
    /\ jobs \in Seq(Job)
    /\ writer \in Writer
    /\ writer.pc = "publish" <=> writer.run # NoRun
    /\ writer.pc = "persist" => writer.todo # {}
    /\ batch \in [Runs -> Seq(Nat)]
    /\ published \in [Runs -> Nat]
    /\ caller \in [Callers -> Caller]

\* A flush that returns has made durable every event its thread could have
\* appended before, whoever else's task took the events: terminal and lifecycle
\* boundaries rely on it.
FlushesSave ==
    \A c \in Callers :
        caller[c].pc = "returned" => caller[c].mark <= Len(log[caller[c].run])

\* Events never wait without a timer: a flush whose transaction fails puts them
\* back without setting one and relies on the one set when they were appended.
WaitingEventsAreScheduled ==
    ~closed => \A r \in Runs :
        pending[r] # <<>> => scheduled \/ (writer.pc # "resting" /\ writer.job = Timer)

\* A batch is given up after MaxAttempts failures in a row and not before, and
\* then nothing of its run is tried again: what comes later waits behind it.
RetriesAreBounded ==
    \A r \in Runs :
        /\ attempts[r] <= MaxAttempts
        /\ attempts[r] = MaxAttempts <=> quarantined[r] # <<>>
        /\ quarantined[r] # <<>> => pending[r] = <<>> /\ batch[r] = <<>>

\* The journal seen as a log that lags behind the events.
Unsaved(r) == batch[r] \o pending[r] \o quarantined[r]
Log == INSTANCE WriteBehindLog WITH unsaved <- [r \in Runs |-> Unsaved(r)]

\* The journal implements it: whatever fails, is retried, set aside or interleaved,
\* no event is skipped, repeated or overtaken by a later one.
LogSpec == Log!Spec

\* A thread that flushes is answered.
FlushesReturn ==
    \A c \in Callers : caller[c].pc = "waiting" ~> caller[c].pc # "waiting"

\* An event becomes durable without anybody flushing, unless its run is
\* quarantined or the process ends first.
EventsSettle ==
    \A r \in Runs : \A n \in 1..MaxEvents :
        appended[r] >= n ~>
            Len(log[r]) >= n \/ quarantined[r] # <<>> \/ closed \/ appended[r] < n

=============================================================================
