----------------------------- MODULE TaskStore -----------------------------
(***************************************************************************)
(* createTaskStore: the renderer's view of one conversation at a time, the *)
(* views it remembers of the others, and the subscriptions that feed them. *)
(*                                                                         *)
(* The renderer has one thread: an action is what runs between two awaits, *)
(* or an answer the Core gives. What awaits is a job of `work`; what it    *)
(* has read may be old by the time it goes on. The Core is what the store  *)
(* sees of it: runs with their event logs, saved messages, queued inputs.  *)
(* The n-th event of run r, when it is a text, shows as <<r, n>>.          *)
(***************************************************************************)
EXTENDS Naturals, Sequences, FiniteSets, SequencesExt

CONSTANTS
    Tasks,      \* the tasks
    Existing,   \* those that exist at the start
    Shown,      \* those of them that may be on show then
    Long,       \* those whose history is shown in chunks
    Runs,       \* the runs the Core may create, in this order
    Subs,       \* the subscriptions the renderer may hold at once
    MaxTexts,   \* bound on the text events of a run
    Sessions,   \* bound: what the user may start, in this order
    MaxJobs,    \* bound: it is started while no more than this awaits
    MaxTries,   \* the attempts of followNextRun
    None        \* null

ASSUME ExistingAssumption == Shown \subseteq Existing /\ Existing \subseteq Tasks
ASSUME LongAssumption == Long \subseteq Tasks
ASSUME NamesAssumption == Runs \cup Subs \subseteq Nat \ {0} /\ Runs # {} /\ Subs # {}
ASSUME FiniteAssumption == IsFiniteSet(Tasks)
ASSUME BoundsAssumption == {MaxTexts, MaxJobs, MaxTries} \subseteq Nat
ASSUME NoneAssumption == None \notin Tasks \cup Runs \cup Subs

Operations == {"open", "create", "send", "regenerate", "enqueue", "stop", "resume",
               "compact", "clear", "archive"}
ASSUME SessionsAssumption == Sessions \subseteq Seq(Operations)

VARIABLES
    run,        \* Core: the runs and their event logs
    saved,      \* Core: the saved messages of each task
    queued,     \* Core: how many inputs wait for a turn, by task
    existing,   \* Core: the tasks there are
    ui,         \* the view: the state of the store that components read
    cache,      \* conversationCache
    sub,        \* the subscriptions to event streams, each with its batcher
    current,    \* unsubscribeChat and chatEventBatcher: whose they are
    resolver,   \* resolveChat: whose call it resolves
    work,       \* what awaits an answer or a timer
    asked       \* the operations the user has started

core == <<run, saved, queued, existing>>
view == <<ui, cache>>
subs == <<sub, current, resolver>>
vars == <<run, saved, queued, existing, ui, cache, sub, current, resolver, work, asked>>

-----------------------------------------------------------------------------
(* The Core, as the store sees it *)

ActiveStatuses == {"RUNNING", "PAUSING", "PAUSED"}
Ending == {"paused", "completed", "failed"}    \* the last event of a turn
Closing == Ending \cup {"cut"}                   \* the last event of a stream

\* The messages of a conversation: the text of the last message when it is the
\* assistant's (open), and the text before it.
NoMessages == [past |-> <<>>, answer |-> <<>>, open |-> FALSE]
Messages(v) == [past |-> v.past, answer |-> v.answer, open |-> v.open]
TextOf(m) == m.past \o m.answer

IsActive(r) == run[r].status \in ActiveStatuses
ActiveRuns(t) == {r \in Runs : run[r].task = t /\ IsActive(r)}

\* ConversationRunSnapshot
NoRun == [id |-> None, status |-> "none", cursor |-> 0, replay |-> 0]
Snapshot(r) == [id |-> r, status |-> run[r].status,
                cursor |-> Len(run[r].log), replay |-> run[r].replay]
\* getActiveRun
ActiveRun(t) == IF ActiveRuns(t) = {} THEN NoRun
                ELSE Snapshot(CHOOSE r \in ActiveRuns(t) : TRUE)

IsRunProcessing(snapshot) == snapshot.status \in {"RUNNING", "PAUSING"}
IsPausableRun(snapshot) == snapshot.status = "RUNNING"

NewRuns == {r \in Runs : run[r].status = "new"}
NewRun == Min(NewRuns)

\* The turn that wrote the answer to the last message, and what was written before it.
LastTurn(m) == IF m.answer = <<>> THEN None ELSE Last(m.answer)[1]
BeforeLastTurn(m) == m.past

\* A run begins on a user message, with the texts before it.
RunBeginsAfter(t, texts) ==
    /\ NewRuns # {}
    /\ run' = [run EXCEPT ![NewRun] = [task |-> t, status |-> "RUNNING", log |-> <<>>,
                                       text |-> <<>>, replay |-> 0]]
    /\ saved' = [saved EXCEPT ![t] = [past |-> texts, answer |-> <<>>, open |-> FALSE]]

\* It is the message that was just saved.
RunBegins(t) == RunBeginsAfter(t, TextOf(saved[t]))

\* The run's answer is saved when it completes or pauses, in the place of what an
\* earlier pause saved of it.
AnswerSaved(r) ==
    saved' = [saved EXCEPT ![run[r].task] = [past |-> @.past, answer |-> run[r].text,
                                             open |-> TRUE]]

RunEnds(r, event, status) ==
    run' = [run EXCEPT ![r].status = status, ![r].log = Append(@, event)]

EmitText(r) ==
    /\ run[r].status \in {"RUNNING", "PAUSING"}
    /\ Len(run[r].text) < MaxTexts
    /\ run' = [run EXCEPT ![r].log = Append(@, "text"),
                          ![r].text = Append(@, <<r, Len(run[r].log) + 1>>)]
    /\ UNCHANGED <<saved, queued, existing, view, subs, work, asked>>

Complete(r) ==
    /\ run[r].status \in {"RUNNING", "PAUSING"}
    /\ RunEnds(r, "completed", "COMPLETED")
    /\ AnswerSaved(r)
    /\ UNCHANGED <<queued, existing, view, subs, work, asked>>

\* A run that fails when a pause was asked for is paused: its streams are told and end
\* without the last event of a turn (cut), and its answer is saved when it can be.
Fail(r) ==
    /\ \/ /\ run[r].status = "RUNNING"
          /\ RunEnds(r, "failed", "FAILED")
          /\ UNCHANGED saved
       \/ /\ run[r].status = "PAUSING"
          /\ RunEnds(r, "cut", "PAUSED")
          /\ AnswerSaved(r) \/ UNCHANGED saved
    /\ UNCHANGED <<queued, existing, view, subs, work, asked>>

Pause(r) ==
    /\ run[r].status = "PAUSING"
    /\ RunEnds(r, "paused", "PAUSED")
    /\ AnswerSaved(r)
    /\ UNCHANGED <<queued, existing, view, subs, work, asked>>

\* The next queued input gets its turn.
StartNext(t) ==
    /\ queued[t] > 0
    /\ ActiveRuns(t) = {}
    /\ RunBegins(t)
    /\ queued' = [queued EXCEPT ![t] = @ - 1]
    /\ UNCHANGED <<existing, view, subs, work, asked>>

Core == \/ \E r \in Runs : EmitText(r) \/ Complete(r) \/ Fail(r) \/ Pause(r)
        \/ \E t \in Tasks : StartNext(t)

-----------------------------------------------------------------------------
(* The view *)

\* The usage state is told apart by its identity only: see isCurrentSettlement.
Usages == {ui.usage} \cup {cache[t].usage : t \in Tasks}
          \cup {j.usage : j \in {j \in work : j.op = "settle"}}
FreshUsage == CHOOSE n \in 1..(Cardinality(Usages) + 1) : n \notin Usages

Blank == [task |-> None, run |-> NoRun, past |-> <<>>, answer |-> <<>>,
          open |-> FALSE, usage |-> 0, chatting |-> FALSE, pausing |-> FALSE,
          stopped |-> FALSE, hydrating |-> FALSE, compacting |-> FALSE]

\* The view v with the messages m.
Showing(v, m) == [v EXCEPT !.past = m.past, !.answer = m.answer, !.open = m.open]

\* The same with a new empty answer at the end.
WithNewAnswer(v) == [v EXCEPT !.past = @ \o v.answer, !.answer = <<>>, !.open = TRUE]

IsCached(t) == cache[t].task # None

\* conversationCacheEntry
CacheEntry ==
    LET messages == IF ui.hydrating /\ IsCached(ui.task)
                    THEN Messages(cache[ui.task]) ELSE Messages(ui)
    IN  [Showing(ui, messages) EXCEPT !.hydrating = FALSE, !.compacting = FALSE]
Remembered == IF ui.task = None THEN cache ELSE [cache EXCEPT ![ui.task] = CacheEntry]

TextShownWhilePausing(v, t, deltas) ==
    IF v.task = t /\ v.open THEN [v EXCEPT !.answer = @ \o deltas] ELSE v

\* applyChatEvent of a text: the answer of another task, or one that is being
\* paused, is not touched.
TextShown(v, t, deltas) ==
    IF v.task = t /\ ~v.pausing /\ v.open THEN [v EXCEPT !.answer = @ \o deltas] ELSE v

\* applyChatEvent of a terminal event: a failure waits for the saved messages.
EndStatus == [paused |-> "PAUSED", completed |-> "COMPLETED", failed |-> "FAILED",
              held |-> "PAUSED", cut |-> "PAUSED"]
WithStatusOfAny(snapshot, status) == [snapshot EXCEPT !.status = status]
WithStatus(snapshot, status) ==
    IF snapshot.id = None THEN snapshot ELSE [snapshot EXCEPT !.status = status]
EndShown(v, t, event) ==
    IF v.task # t \/ event = "failed" THEN v
    ELSE [v EXCEPT !.run = WithStatus(@, EndStatus[event]), !.chatting = FALSE,
                   !.pausing = FALSE, !.stopped = (event = "paused")]

\* applyRunEnvelope of event n, when it is new to the view.
IsNewsAfterNext(r, n) == ui.run.id = r /\ n > ui.run.cursor + 1
IsNews(r, n) == ui.run.id = r /\ n > ui.run.cursor
Enveloped(v, event, n) ==
    LET status == IF event = "text" THEN v.run.status ELSE EndStatus[event]
        pausing == event = "text" /\ v.run.status # "PAUSED"
                   /\ (v.pausing \/ v.run.status = "PAUSING")
        ended == status \in {"COMPLETED", "FAILED", "PAUSED"}
    IN  [v EXCEPT !.run.status = status, !.run.cursor = n,
                  !.pausing = pausing,
                  !.chatting = @ /\ ~ended /\ ~pausing,
                  !.stopped = (status = "PAUSED")]

-----------------------------------------------------------------------------
(* Subscriptions and jobs *)

\* kind: who subscribed. A stream begun by a message posts it first; turn: the one it
\* writes again. pos: the last event that came. batch: the texts that wait for the
\* 40 ms timer. listening: events still come. calling: the call that subscribed awaits
\* its end.
IdleSub == [kind |-> "idle", task |-> None, run |-> None, turn |-> None, pos |-> 0,
            batch |-> <<>>, posting |-> FALSE, listening |-> FALSE, calling |-> FALSE]
Subscription(kind, t, r, pos) ==
    [kind |-> kind, task |-> t, run |-> r, turn |-> None, pos |-> pos, batch |-> <<>>,
     posting |-> r = None, listening |-> TRUE, calling |-> kind # "open"]

\* The streams that a message begins bring events without their numbers.
IsRaw(x) == x.kind \in {"send", "regenerate"}

\* What awaits: at says how far it is, run and page what it has read.
\* fresh: no view of the task was remembered when it was opened. latest: its
\* request is openTaskRequest.
OpenJob(t, fresh) == [op |-> "open", task |-> t, at |-> "sent", run |-> NoRun,
                      page |-> NoMessages, fresh |-> fresh, latest |-> TRUE]
SettleJob(s, t, event, v) == [op |-> "settle", task |-> t, at |-> "sent", run |-> v.run,
                              page |-> NoMessages, sub |-> s, event |-> event,
                              usage |-> v.usage]
ProbeJob(t) == [op |-> "probe", task |-> t, at |-> "sent", run |-> NoRun]
CreateJob(t) == [op |-> "create", task |-> t]
FollowJob(t, finished, tries) ==
    [op |-> "follow", task |-> t, finished |-> finished, tries |-> tries]
StopJob(t, at, snapshot) == [op |-> "stop", task |-> t, at |-> at, run |-> snapshot,
                             page |-> NoMessages]
\* page: the messages shown before.
ResumeJob(v) == [op |-> "resume", task |-> v.task, at |-> "sent", run |-> v.run,
                 page |-> Messages(v)]
CompactJob(t) == [op |-> "compact", task |-> t, at |-> "sent", page |-> NoMessages]
\* claimed: the input got its turn at once.
EnqueueJob(t) == [op |-> "enqueue", task |-> t, at |-> "sent", claimed |-> FALSE]

\* The jobs after j: the ones it becomes, if any.
Becomes(j, next) == work' = (work \ {j}) \cup next
When(condition, job) == IF condition THEN {job} ELSE {}

\* The subscription s is nobody's any more.
IsOver(x) == ~x.posting /\ ~x.listening /\ ~x.calling /\ x.batch = <<>>
IsFree(s) == sub[s] = IdleSub /\ s # current /\ \A j \in work : j.op = "settle" => j.sub # s
NewSub == Min({s \in Subs : IsFree(s)})
CanSubscribe == \E s \in Subs : IsFree(s)
SubsBecome(f) == sub' = [s \in Subs |-> IF IsOver(f[s]) THEN IdleSub ELSE f[s]]

Unsubscribed(f, s) ==
    [x \in Subs |-> IF x = s THEN [f[x] EXCEPT !.listening = FALSE, !.batch = <<>>]
                    ELSE f[x]]
Unbatched(f, s) == [x \in Subs |-> IF x = s THEN [f[x] EXCEPT !.batch = <<>>] ELSE f[x]]
Resolved(f, s) == [x \in Subs |-> IF x = s THEN [f[x] EXCEPT !.calling = FALSE] ELSE f[x]]

\* What the call of s still does when it is resolved: sendMessage reloads the
\* recent tasks and follows the next run, the others end.
Tails(s) == {FollowJob(sub[x].task, None, 0) : x \in {x \in Subs : x = s /\ sub[x].calling
                                                          /\ sub[x].kind = "send"}}

UnhookUnsubscribed ==
    /\ SubsBecome(Resolved(sub, resolver))
    /\ resolver' = None
    /\ UNCHANGED current
UnhookUnresolved ==
    /\ SubsBecome(Unsubscribed(sub, current))
    /\ current' = None
    /\ resolver' = None

\* unsubscribeChat?.(), clearChatEventBatcher(false), resolveChat?.()
Unhook ==
    /\ SubsBecome(Resolved(Unsubscribed(sub, current), resolver))
    /\ current' = None
    /\ resolver' = None

\* The user starts an operation.
Asks(operation) ==
    /\ Cardinality(work) <= MaxJobs
    /\ asked' = Append(asked, operation)
    /\ asked' \in Sessions

StillLatest(jobs) == jobs

\* ++openTaskRequest
Outdated(jobs) == {IF j.op = "open" THEN [j EXCEPT !.latest = FALSE] ELSE j : j \in jobs}

-----------------------------------------------------------------------------
(* openTask *)

\* What openTask does before it waits: the task is shown as it was left.
OpenTask(t, jobs) ==
    LET shown == IF Remembered[t].task # None THEN Remembered[t]
                 ELSE [Blank EXCEPT !.task = t, !.usage = FreshUsage]
    IN  /\ cache' = Remembered
        /\ Unhook
        /\ ui' = shown
        /\ work' = Outdated(jobs) \cup Tails(resolver)
                   \cup {OpenJob(t, Remembered[t].task = None)}

Open(t) ==
    /\ Asks("open")
    /\ t \in existing /\ t # ui.task
    /\ OpenTask(t, work)
    /\ UNCHANGED core

\* Its requests are answered one by one.
MessagesRead(j) ==
    /\ j.op = "open" /\ j.at \in {"sent", "runRead"}
    /\ Becomes(j, {[j EXCEPT !.page = saved[j.task],
                             !.at = IF j.at = "sent" THEN "pageRead" ELSE "read"]})
    /\ UNCHANGED <<core, view, subs, asked>>

RunRead(j) ==
    /\ j.op = "open" /\ j.at \in {"sent", "pageRead"}
    /\ Becomes(j, {[j EXCEPT !.run = ActiveRun(j.task),
                             !.at = IF j.at = "sent" THEN "runRead" ELSE "read"]})
    /\ UNCHANGED <<core, view, subs, asked>>

\* The run shown goes on from the view that was remembered of it, or from where
\* the saved messages leave off.
ResumesCached(j) == /\ IsCached(j.task) /\ cache[j.task].chatting
                    /\ cache[j.task].run.id = j.run.id
                    /\ IsRunProcessing(j.run)
ResumeFrom(j) == IF ResumesCached(j) /\ cache[j.task].run.cursor > j.run.replay
                 THEN cache[j.task].run.cursor ELSE j.run.replay

\* ensureRunAssistant
WithRunAssistant(v, processing) ==
    IF processing /\ ~v.open THEN WithNewAnswer(v) ELSE v

LoadedView(j) ==
    LET processing == IsRunProcessing(j.run)
        messages == IF ResumesCached(j) THEN Messages(cache[j.task]) ELSE j.page
        tracked == IF processing THEN [j.run EXCEPT !.cursor = ResumeFrom(j)] ELSE j.run
        loaded == [Showing(Blank, messages) EXCEPT
                      !.task = j.task, !.run = tracked,
                      !.usage = IF ResumesCached(j) THEN cache[j.task].usage ELSE FreshUsage,
                      !.chatting = processing,
                      !.pausing = (j.run.status = "PAUSING"),
                      !.stopped = (j.run.status = "PAUSED")]
    IN  WithRunAssistant(loaded, processing)

\* A long history is first shown without its beginning.
InChunks(j) == ~IsCached(j.task) /\ j.task \in Long

Loaded(j) ==
    /\ j.op = "open" /\ j.at = "read"
    /\ cache' = [cache EXCEPT ![j.task] = LoadedView(j)]
    /\ IF ~j.latest
       THEN Becomes(j, {}) /\ UNCHANGED <<ui, subs>>
       ELSE /\ ui' = [LoadedView(j) EXCEPT !.hydrating = InChunks(j)]
            /\ Becomes(j, When(j.fresh /\ InChunks(j),
                   [j EXCEPT !.at = "chunk", !.run = NoRun, !.page = Messages(LoadedView(j))]))
            /\ IF IsRunProcessing(j.run)
               THEN /\ CanSubscribe
                    /\ SubsBecome([Unbatched(sub, current) EXCEPT
                           ![NewSub] = Subscription("open", j.task, j.run.id, ResumeFrom(j))])
                    /\ current' = NewSub
                    /\ UNCHANGED resolver
               ELSE UNCHANGED subs
    /\ UNCHANGED <<core, asked>>

\* hydrateHistory: the messages that were read are shown in full.
Hydrated(j) ==
    /\ j.op = "open" /\ j.at = "chunk"
    /\ ui' = IF j.latest THEN [Showing(ui, j.page) EXCEPT !.hydrating = FALSE] ELSE ui
    /\ Becomes(j, {})
    /\ UNCHANGED <<core, cache, subs, asked>>

-----------------------------------------------------------------------------
(* Events of the streams *)

\* The events come in order, each once. An ended stream brings nothing more.
Deliver(s) ==
    LET x == sub[s]
        n == x.pos + 1
        event == run[x.run].log[n]
        mine == ui.task = x.task
        heard == IsRaw(x) \/ (mine /\ IsNews(x.run, n))
        told == IF ~IsRaw(x) /\ heard THEN Enveloped(ui, event, n) ELSE ui
        flushed == TextShown(told, x.task, x.batch)
        over == event \in Ending
        settles == heard /\ mine /\ over
        follows == x.kind = "open" /\ mine /\ event \in {"completed", "failed"}
        moved == [x EXCEPT !.pos = n, !.listening = event \notin Closing,
                           !.batch = IF ~heard THEN @
                                     ELSE IF event = "text" THEN Append(@, <<x.run, n>>)
                                     ELSE <<>>]
    IN  /\ x.listening /\ x.run # None /\ n <= Len(run[x.run].log)
        /\ ui' = IF ~heard THEN ui
                 ELSE IF event = "text" THEN told
                 ELSE IF over THEN EndShown(flushed, x.task, event) ELSE flushed
        /\ SubsBecome([sub EXCEPT ![s] = moved])
        /\ work' = work
             \cup When(settles, SettleJob(s, x.task, event, flushed))
             \cup When(follows, FollowJob(x.task, x.run, 0))
        /\ UNCHANGED <<core, cache, current, resolver, asked>>

\* The batcher's timer.
Flush(s) ==
    /\ sub[s].batch # <<>>
    /\ ui' = TextShown(ui, sub[s].task, sub[s].batch)
    /\ SubsBecome(Unbatched(sub, s))
    /\ UNCHANGED <<core, cache, current, resolver, work, asked>>

\* The saved messages replace what was streamed, when the view is still the one
\* the event ended.
SettleRead(j) ==
    /\ j.op = "settle" /\ j.at = "sent"
    /\ Becomes(j, {[j EXCEPT !.page = saved[j.task], !.at = "read"]})
    /\ UNCHANGED <<core, view, subs, asked>>

SettlesItsTask(j) == ui.task = j.task
SettlesAlways(j) == TRUE
IsCurrentSettlement(j) == ui.task = j.task /\ ui.usage = j.usage

Reconciled(v, page, keepLive) ==
    IF keepLive /\ ~page.open /\ v.open
    THEN Showing(v, [past |-> page.past, answer |-> v.answer, open |-> TRUE])
    ELSE Showing(v, page)

Settle(j) ==
    LET s == j.sub
        reconciled == [Reconciled(ui, j.page, j.event = "failed") EXCEPT
                          !.usage = FreshUsage]
        failed == [reconciled EXCEPT !.run = WithStatus(j.run, "FAILED"),
                      !.chatting = FALSE, !.pausing = FALSE, !.stopped = FALSE]
    IN  /\ j.op = "settle" /\ j.at = "read"
        /\ ui' = IF ~IsCurrentSettlement(j) THEN ui
                 ELSE IF j.event = "failed" THEN failed ELSE reconciled
        /\ Becomes(j, Tails(s))
        /\ IF sub[s].calling
           THEN /\ SubsBecome(Resolved(IF current = s THEN Unsubscribed(sub, s) ELSE sub, s))
                /\ current' = IF current = s THEN None ELSE current
                /\ resolver' = IF resolver = s THEN None ELSE resolver
           ELSE UNCHANGED subs
        /\ UNCHANGED <<core, cache, asked>>

-----------------------------------------------------------------------------
(* sendMessage, regenerateMessage, createTask *)

\* The view v with an answer under way, and the stream that brings it.
Stream(v, jobs, kind, turn) ==
    /\ CanSubscribe
    /\ ui' = [v EXCEPT !.run = NoRun, !.usage = FreshUsage, !.chatting = TRUE,
                       !.pausing = FALSE, !.stopped = FALSE]
    /\ SubsBecome([Unsubscribed(sub, current) EXCEPT
           ![NewSub] = [Subscription(kind, v.task, None, 0) EXCEPT !.turn = turn]])
    /\ current' = NewSub
    /\ resolver' = NewSub
    /\ work' = jobs \cup {ProbeJob(v.task)}

MayAsk == /\ ui.task # None /\ ~ui.chatting /\ ~ui.compacting

\* The page has a new text queued while the view shows a run that is active.
ShouldQueue == ui.chatting \/ ui.run.status \in ActiveStatuses

SendMessage ==
    /\ Asks("send")
    /\ MayAsk /\ ~ShouldQueue
    /\ Stream(WithNewAnswer(ui), work, "send", None)
    /\ UNCHANGED <<core, cache>>

\* The last turn is written again, of a view that shows what is saved: its messages
\* have their identities then.
RegenerateMessage ==
    /\ Asks("regenerate")
    /\ ui.task # None /\ ~ui.chatting
    /\ ui.answer # <<>> /\ Messages(ui) = saved[ui.task]
    /\ Stream(Showing(ui, [past |-> BeforeLastTurn(ui), answer |-> <<>>, open |-> TRUE]),
              work, "regenerate", LastTurn(ui))
    /\ UNCHANGED <<core, cache>>

\* The Core takes the message, unless the task has a run already, or the turn is not
\* its last any more: the stream then answers with a failure.
Accepted(x) == /\ ActiveRuns(x.task) = {}
               /\ x.kind = "regenerate" => x.turn = LastTurn(saved[x.task])
Submit(s) ==
    LET t == sub[s].task
    IN  /\ sub[s].posting
        /\ Accepted(sub[s])
        /\ \/ sub[s].kind = "send" /\ RunBegins(t)
           \/ sub[s].kind = "regenerate" /\ RunBeginsAfter(t, BeforeLastTurn(saved[t]))
        /\ SubsBecome([sub EXCEPT ![s].posting = FALSE, ![s].run = NewRun])
        /\ UNCHANGED <<queued, existing, view, current, resolver, work, asked>>

Refuse(s) ==
    LET x == sub[s]
    IN  /\ x.posting
        /\ ~Accepted(x)
        /\ SubsBecome([sub EXCEPT ![s].posting = FALSE, ![s].listening = FALSE])
        /\ work' = work \cup When(x.listening /\ ui.task = x.task,
                                 SettleJob(s, x.task, "failed", ui))
        /\ UNCHANGED <<core, view, current, resolver, asked>>

\* A stream that is cancelled early posts nothing.
Abort(s) ==
    /\ sub[s].posting /\ ~sub[s].listening
    /\ SubsBecome([sub EXCEPT ![s].posting = FALSE])
    /\ UNCHANGED <<core, view, current, resolver, work, asked>>

\* The run the message began is asked for while the message is on its way.
ProbeRead(j) ==
    /\ j.op = "probe" /\ j.at = "sent"
    /\ Becomes(j, {[j EXCEPT !.run = ActiveRun(j.task), !.at = "read"]})
    /\ UNCHANGED <<core, view, subs, asked>>

Probed(j) ==
    /\ j.op = "probe" /\ j.at = "read"
    /\ ui' = IF j.run.id # None /\ ui.task = j.task THEN [ui EXCEPT !.run = j.run] ELSE ui
    /\ Becomes(j, {})
    /\ UNCHANGED <<core, cache, subs, asked>>

CreateTask(t) ==
    /\ Asks("create")
    /\ ui.task = None /\ t \notin existing /\ \A j \in work : j.op # "create"
    /\ work' = Outdated(work) \cup {CreateJob(t)}
    /\ UNCHANGED <<core, view, subs>>

\* Whatever is shown by then makes way, and the goal is its first message, which is
\* refused while a context is being compacted.
Created(j) ==
    LET shown == [Showing(ui, NoMessages) EXCEPT !.task = j.task, !.run = NoRun,
                     !.usage = FreshUsage, !.pausing = FALSE, !.hydrating = FALSE]
    IN  /\ j.op = "create"
        /\ existing' = existing \cup {j.task}
        /\ \/ /\ ~ui.compacting
              /\ Stream(WithNewAnswer(shown), work \ {j}, "send", None)
           \/ /\ ui.compacting
              /\ ui' = shown
              /\ Becomes(j, {})
              /\ UNCHANGED subs
        /\ UNCHANGED <<run, saved, queued, cache, asked>>

-----------------------------------------------------------------------------
(* followNextRun, enqueueInput. The polls of followNextRun and of            *)
(* waitForActiveRun are answered at once.                                  *)

IsNextRun(j, snapshot) ==
    /\ ui.task = j.task
    /\ IsPausableRun(snapshot)
    /\ snapshot.id # j.finished /\ snapshot.id # ui.run.id

FollowOpens(j) ==
    /\ j.op = "follow"
    /\ IsNextRun(j, ActiveRun(j.task))
    /\ OpenTask(j.task, work \ {j})
    /\ UNCHANGED <<core, asked>>

FollowAgain(j) ==
    /\ j.op = "follow"
    /\ ~IsNextRun(j, ActiveRun(j.task))
    /\ Becomes(j, When(/\ ui.task = j.task
                       /\ ActiveRuns(j.task) # {} \/ queued[j.task] > 0
                       /\ j.tries + 1 < MaxTries,
                       FollowJob(j.task, j.finished, j.tries + 1)))
    /\ UNCHANGED <<core, view, subs, asked>>

EnqueueInput ==
    /\ Asks("enqueue")
    /\ ui.task # None /\ ShouldQueue
    /\ work' = work \cup {EnqueueJob(ui.task)}
    /\ UNCHANGED <<core, view, subs>>

InputQueued(j) ==
    /\ j.op = "enqueue" /\ j.at = "sent"
    /\ IF ActiveRuns(j.task) = {}
       THEN /\ RunBegins(j.task)
            /\ Becomes(j, {[j EXCEPT !.claimed = TRUE, !.at = "answered"]})
            /\ UNCHANGED queued
       ELSE /\ queued' = [queued EXCEPT ![j.task] = @ + 1]
            /\ Becomes(j, {[j EXCEPT !.at = "answered"]})
            /\ UNCHANGED <<run, saved>>
    /\ UNCHANGED <<existing, view, subs, asked>>

\* A turn that was claimed is looked for, beside the run that is shown by then.
Enqueued(j) ==
    /\ j.op = "enqueue" /\ j.at = "answered"
    /\ Becomes(j, When(j.claimed, FollowJob(j.task, ui.run.id, 0)))
    /\ UNCHANGED <<core, view, subs, asked>>

-----------------------------------------------------------------------------
(* stopChat *)

\* The answer freezes at once; a run is paused that is known, or that is found.
StopChat ==
    /\ Asks("stop")
    /\ ui.task # None /\ ui.chatting
    /\ ui' = [ui EXCEPT !.pausing = TRUE, !.chatting = FALSE, !.stopped = FALSE,
                        !.run = IF IsPausableRun(@) THEN WithStatus(@, "PAUSING") ELSE @]
    /\ work' = work \cup {StopJob(ui.task, IF IsPausableRun(ui.run) THEN "pausing" ELSE "finding",
                                  IF IsPausableRun(ui.run) THEN ui.run ELSE NoRun)}
    /\ UNCHANGED <<core, cache, subs>>

\* waitForActiveRun
StopFound(j) ==
    LET found == ActiveRun(j.task)
    IN  /\ j.op = "stop" /\ j.at = "finding"
        /\ IsPausableRun(found)
        /\ ui' = IF ui.task = j.task THEN [ui EXCEPT !.run = WithStatus(found, "PAUSING")]
                 ELSE ui
        /\ Becomes(j, {[j EXCEPT !.run = found, !.at = "pausing"]})
        /\ UNCHANGED <<core, cache, subs, asked>>

\* The run may still be queued, for the first time or since it was resumed.
MayBeQueued(r) == run[r].status = "RUNNING" /\ Len(run[r].log) = run[r].replay

\* pauseRun: a run that does not work yet is paused at once, which its streams are
\* told and stay open (held); one that has ended answers as it is.
PauseRun(j) ==
    LET r == j.run.id
    IN  /\ j.op = "stop" /\ j.at = "pausing"
        /\ \/ /\ run[r].status = "RUNNING"
              /\ run' = [run EXCEPT ![r].status = "PAUSING"]
              /\ UNCHANGED saved
           \/ /\ MayBeQueued(r)
              /\ RunEnds(r, "held", "PAUSED")
              /\ UNCHANGED saved
           \/ /\ run[r].status # "RUNNING"
              /\ UNCHANGED <<run, saved>>
        /\ Becomes(j, {[j EXCEPT !.run = [id |-> r, status |-> run'[r].status,
                                          cursor |-> Len(run'[r].log), replay |-> run'[r].replay],
                                 !.at = "answered"]})
        /\ UNCHANGED <<queued, existing, view, subs, asked>>

\* settlePauseRequest: the subscription is given up, the view says how it ended.
SettlePause(v, j, snapshot) ==
    LET flushed == IF current = None THEN v ELSE TextShown(v, sub[current].task, sub[current].batch)
        paused == snapshot.status = "PAUSED"
    IN  /\ ui' = IF v.task = j.task
                 THEN [flushed EXCEPT !.run = snapshot, !.chatting = FALSE, !.pausing = FALSE,
                                      !.stopped = paused]
                 ELSE flushed
        /\ SubsBecome(Unsubscribed(sub, current))
        /\ current' = None
        /\ UNCHANGED resolver
        /\ Becomes(j, {[j EXCEPT !.run = snapshot, !.at = "settling"]})

PauseAnswered(j) ==
    LET answered == IF ui.task = j.task
                    THEN [ui EXCEPT !.run = j.run, !.pausing = (j.run.status = "PAUSING")] ELSE ui
    IN  /\ j.op = "stop" /\ j.at = "answered"
        /\ IF IsRunProcessing(j.run)
           THEN ui' = answered /\ Becomes(j, {}) /\ UNCHANGED subs
           ELSE SettlePause(answered, j, j.run)
        /\ UNCHANGED <<core, cache, asked>>

\* No run was found to pause: it has ended, or the view goes back.
StopGivesUp(j) ==
    /\ j.op = "stop" /\ j.at = "finding"
    /\ ~IsPausableRun(ActiveRun(j.task))
    /\ IF ActiveRun(j.task) = NoRun
       THEN SettlePause(ui, j, NoRun)
       ELSE /\ ui' = IF ui.task = j.task
                     THEN [ui EXCEPT !.run = NoRun, !.chatting = FALSE, !.pausing = FALSE] ELSE ui
            /\ Becomes(j, {})
            /\ UNCHANGED subs
    /\ UNCHANGED <<core, cache, asked>>

PauseRead(j) ==
    /\ j.op = "stop" /\ j.at = "settling"
    /\ Becomes(j, {[j EXCEPT !.page = saved[j.task], !.at = "read"]})
    /\ UNCHANGED <<core, view, subs, asked>>

\* Whichever call resolveChat is by then returns; one that holds its subscription,
\* as a call begun since does, gives it up.
PauseSettled(j) ==
    LET settled == IF ui.task = j.task
                   THEN [Reconciled(ui, j.page, j.run.status = "PAUSED") EXCEPT
                            !.usage = FreshUsage]
                   ELSE ui
        held == resolver # None /\ current = resolver
    IN  /\ j.op = "stop" /\ j.at = "read"
        /\ ui' = IF held THEN TextShown(settled, sub[resolver].task, sub[resolver].batch)
                 ELSE settled
        /\ SubsBecome(Resolved(IF held THEN Unsubscribed(sub, resolver) ELSE sub, resolver))
        /\ current' = IF held THEN None ELSE current
        /\ resolver' = None
        /\ Becomes(j, Tails(resolver))
        /\ UNCHANGED <<core, cache, asked>>

-----------------------------------------------------------------------------
(* resumeChat *)

ResumeChat ==
    /\ Asks("resume")
    /\ ui.task # None /\ ui.run.status = "PAUSED"
    /\ ui' = [WithNewAnswer(ui) EXCEPT !.usage = FreshUsage, !.chatting = TRUE,
                                       !.pausing = FALSE, !.stopped = FALSE]
    /\ work' = work \cup {ResumeJob(ui)}
    /\ UNCHANGED <<core, cache, subs>>

\* resumeRun: the events from here on are the ones to replay. A run that is queued or
\* at work already answers as it is.
ResumeRun(j) ==
    LET r == j.run.id
    IN  /\ j.op = "resume" /\ j.at = "sent"
        /\ \/ /\ run[r].status = "PAUSED"
              /\ run' = [run EXCEPT ![r].status = "RUNNING", ![r].replay = Len(run[r].log)]
           \/ /\ run[r].status = "RUNNING"
              /\ UNCHANGED run
        /\ Becomes(j, {[j EXCEPT !.run = [id |-> r, status |-> "RUNNING",
                                          cursor |-> Len(run[r].log), replay |-> run'[r].replay],
                                 !.at = "accepted"]})
        /\ UNCHANGED <<saved, queued, existing, view, subs, asked>>

Resumed(j) ==
    /\ j.op = "resume" /\ j.at = "accepted"
    /\ CanSubscribe
    /\ ui' = [ui EXCEPT !.run = [j.run EXCEPT !.cursor = j.run.replay]]
    /\ SubsBecome([Unbatched(sub, current) EXCEPT
           ![NewSub] = Subscription("resume", j.task, j.run.id, j.run.replay)])
    /\ current' = NewSub
    /\ resolver' = NewSub
    /\ Becomes(j, {})
    /\ UNCHANGED <<core, cache, asked>>

ResumeRefused(j) ==
    /\ j.op = "resume" /\ j.at = "sent"
    /\ run[j.run.id].status \notin {"PAUSED", "RUNNING"}
    /\ ui' = IF ui.task = j.task
             THEN [Showing(ui, j.page) EXCEPT !.run = j.run, !.chatting = FALSE, !.stopped = TRUE]
             ELSE ui
    /\ Becomes(j, {})
    /\ UNCHANGED <<core, cache, subs, asked>>

-----------------------------------------------------------------------------
(* compactContext, clearActiveTask, archiveTask *)

CompactContext ==
    /\ Asks("compact")
    /\ MayAsk
    /\ ui' = [WithNewAnswer(ui) EXCEPT !.compacting = TRUE]
    /\ work' = work \cup {CompactJob(ui.task)}
    /\ UNCHANGED <<core, cache, subs>>

CompactionRead(j) ==
    /\ j.op = "compact" /\ j.at = "sent" /\ ActiveRuns(j.task) = {}
    /\ Becomes(j, {[j EXCEPT !.page = saved[j.task], !.at = "read"]})
    /\ UNCHANGED <<core, view, subs, asked>>

Compacted(j) ==
    /\ j.op = "compact" /\ j.at = "read"
    /\ ui' = [Showing(ui, j.page) EXCEPT !.compacting = FALSE, !.usage = FreshUsage]
    /\ Becomes(j, {})
    /\ UNCHANGED <<core, cache, subs, asked>>

\* The entry of the compaction says so, in the answer it was put in or, when that is not
\* shown any more, in a new one.
CompactionRefused(j) ==
    /\ j.op = "compact" /\ j.at = "sent" /\ ActiveRuns(j.task) # {}
    /\ \E v \in {WithNewAnswer(ui)} \cup When(ui.task = j.task, ui) :
          ui' = [v EXCEPT !.compacting = FALSE]
    /\ Becomes(j, {})
    /\ UNCHANGED <<core, cache, subs, asked>>

ClearActiveTask ==
    /\ Asks("clear")
    /\ ui.task # None
    /\ Unhook
    /\ ui' = Blank
    /\ work' = Outdated(work) \cup Tails(resolver)
    /\ UNCHANGED <<core, cache>>

\* archiveTask of the task that is shown. A load that is under way stays the latest.
ArchiveTask ==
    /\ Asks("archive")
    /\ ui.task # None
    /\ Unhook
    /\ ui' = [Blank EXCEPT !.usage = ui.usage, !.hydrating = ui.hydrating]
    /\ work' = work \cup Tails(resolver)
    /\ UNCHANGED <<core, cache>>

-----------------------------------------------------------------------------

\* A task is shown, or none; the one that is shown may be at work.
IdleRun == [task |-> None, status |-> "new", log |-> <<>>, text |-> <<>>, replay |-> 0]
Opened(t) == [Blank EXCEPT !.task = t, !.usage = 1]
Watched(t, r) == [Opened(t) EXCEPT !.open = TRUE, !.chatting = TRUE,
                                   !.run = [id |-> r, status |-> "RUNNING",
                                            cursor |-> 0, replay |-> 0]]

InitCore(t, r) ==
    /\ run = [x \in Runs |-> IF x = r THEN [IdleRun EXCEPT !.task = t, !.status = "RUNNING"]
                             ELSE IdleRun]
    /\ saved = [x \in Tasks |-> NoMessages]
    /\ queued = [x \in Tasks |-> 0]
    /\ existing = Existing

InitView(v, s) ==
    /\ ui = v
    /\ cache = [t \in Tasks |-> IF t = v.task THEN v ELSE Blank]
    /\ sub = [x \in Subs |-> IF x = s THEN Subscription("open", v.task, v.run.id, 0)
                             ELSE IdleSub]
    /\ current = s
    /\ resolver = None
    /\ work = {}
    /\ asked = <<>>

Init ==
    \/ InitCore(None, None) /\ InitView(Blank, None)
    \/ \E t \in Shown : InitCore(None, None) /\ InitView(Opened(t), None)
    \/ \E t \in Shown : InitCore(t, Min(Runs)) /\ InitView(Watched(t, Min(Runs)), Min(Subs))

User == \/ \E t \in Tasks : Open(t) \/ CreateTask(t)
        \/ SendMessage \/ RegenerateMessage \/ EnqueueInput \/ StopChat \/ ResumeChat
        \/ CompactContext \/ ClearActiveTask \/ ArchiveTask

Streams == \E s \in Subs : Deliver(s) \/ Flush(s) \/ Submit(s) \/ Refuse(s) \/ Abort(s)

\* What awaited goes on.
Continues(j) ==
    \/ MessagesRead(j) \/ RunRead(j) \/ Loaded(j) \/ Hydrated(j)
    \/ SettleRead(j) \/ Settle(j) \/ ProbeRead(j) \/ Probed(j) \/ Created(j)
    \/ FollowOpens(j) \/ FollowAgain(j) \/ InputQueued(j) \/ Enqueued(j)
    \/ StopFound(j) \/ PauseRun(j) \/ PauseAnswered(j) \/ StopGivesUp(j)
    \/ PauseRead(j) \/ PauseSettled(j)
    \/ ResumeRun(j) \/ Resumed(j) \/ ResumeRefused(j)
    \/ CompactionRead(j) \/ Compacted(j) \/ CompactionRefused(j)
Answers == \E j \in work : Continues(j)

Next == Core \/ User \/ Streams \/ Answers

Spec == Init /\ [][Next]_vars

\* A run that is asked to pause ends, streams bring what there is, answers come and
\* timers fire.
LiveSpec == /\ Spec
            /\ WF_vars(Streams \/ Answers)
            /\ \A r \in Runs : WF_vars(Complete(r) \/ Fail(r) \/ Pause(r))

-----------------------------------------------------------------------------
(* Properties *)

\* What there is of the runs S: the types of the state when S is all that have begun,
\* and what a task may show when S is its own.
Started == {r \in Runs : run[r].status # "new"}
RunsOf(t) == {r \in Runs : run[r].task = t}

Statuses == ActiveStatuses \cup {"COMPLETED", "FAILED"}
RunSnapshots(S) == [id : S, status : Statuses, cursor : Nat, replay : Nat]
Snapshots(S) == {NoRun} \cup RunSnapshots(S)
Texts(S) == Seq(S \X Nat)
Grows(m) == m.answer # <<>> => m.open
SomeMessages(S) ==
    {m \in [past : Texts(S), answer : Texts(S), open : BOOLEAN] : Grows(m)}
SomeViews(S) ==
    {v \in [task : Tasks \cup {None}, run : Snapshots(S), past : Texts(S), answer : Texts(S),
            open : BOOLEAN, usage : Nat, chatting : BOOLEAN, pausing : BOOLEAN,
            stopped : BOOLEAN, hydrating : BOOLEAN, compacting : BOOLEAN] : Grows(v)}
Kinds == {"open", "send", "regenerate", "resume"}
Subscriptions(S) ==
    [kind : {"idle"}, task : {None}, run : {None}, turn : {None}, pos : {0},
     batch : {<<>>}, posting : {FALSE}, listening : {FALSE}, calling : {FALSE}]
    \cup [kind : Kinds, task : Tasks,
          run : S \cup {None}, turn : Runs \cup {None}, pos : Nat, batch : Texts(S),
          posting : BOOLEAN, listening : BOOLEAN, calling : BOOLEAN]

OpenJobs(S) == [op : {"open"}, task : Tasks,
                at : {"sent", "pageRead", "runRead", "read", "chunk"},
                run : Snapshots(S), page : SomeMessages(S), fresh : BOOLEAN, latest : BOOLEAN]
SettleJobs(S) == [op : {"settle"}, task : Tasks, at : {"sent", "read"}, run : Snapshots(S),
                  page : SomeMessages(S), sub : Subs, event : Ending, usage : Nat]
StopJobs(S) ==
    [op : {"stop"}, task : Tasks, at : {"pausing"}, run : RunSnapshots(S),
     page : SomeMessages(S)]
    \cup [op : {"stop"}, task : Tasks, at : {"finding", "answered", "settling", "read"},
          run : Snapshots(S), page : SomeMessages(S)]
ResumeJobs(S) == [op : {"resume"}, task : Tasks, at : {"sent", "accepted"},
                  run : RunSnapshots(S), page : SomeMessages(S)]
CompactJobs(S) == [op : {"compact"}, task : Tasks, at : {"sent", "read"},
                   page : SomeMessages(S)]
ProbeJobs(S) == [op : {"probe"}, task : Tasks, at : {"sent", "read"}, run : Snapshots(S)]
EnqueueJobs == [op : {"enqueue"}, task : Tasks, at : {"sent", "answered"}, claimed : BOOLEAN]
FollowJobs == [op : {"follow"}, task : Tasks, finished : Runs \cup {None}, tries : Nat]
CreateJobs == [op : {"create"}, task : Tasks]
Jobs(S) == OpenJobs(S) \cup SettleJobs(S) \cup StopJobs(S) \cup ResumeJobs(S)
           \cup CompactJobs(S) \cup ProbeJobs(S) \cup EnqueueJobs \cup FollowJobs
           \cup CreateJobs

\* The views, the messages, the subscriptions and the jobs of a task hold only what
\* there is of the runs owned[t].
ViewsFit(owned) ==
    /\ ui \in SomeViews(owned[ui.task])
    /\ \A t \in Tasks : cache[t] \in SomeViews(owned[t]) /\ cache[t].task \in {None, t}
SavedFits(owned) == \A t \in Tasks : saved[t] \in SomeMessages(owned[t])
SubsFit(owned) == \A s \in Subs : sub[s] \in Subscriptions(owned[sub[s].task])
JobsFit(owned) == \A j \in work : j \in Jobs(owned[j.task])
Fits(owned) == ViewsFit(owned) /\ SavedFits(owned) /\ SubsFit(owned) /\ JobsFit(owned)

AnyRuns == LET started == Started IN [t \in Tasks \cup {None} |-> started]
OwnRuns == [t \in Tasks \cup {None} |-> IF t = None THEN Started ELSE RunsOf(t)]

\* Every variable has the type its declaration says: a run has a task once it has
\* begun, and writes its own text; what is shown, remembered, saved, read or batched
\* is of runs that have begun; a run that is shown has an identity whenever it has a
\* status; only an assistant's message has text that still grows; what pauses or
\* resumes a run knows which.
TypeOK ==
    /\ run \in [Runs -> [task : Tasks \cup {None}, status : Statuses \cup {"new"},
                         log : Seq({"text", "held"} \cup Closing),
                         text : Texts(Runs), replay : Nat]]
    /\ \A r \in Runs : /\ run[r].status = "new" <=> run[r].task = None
                       /\ run[r].text \in Texts({r})
    /\ queued \in [Tasks -> Nat] /\ existing \subseteq Tasks
    /\ DOMAIN saved = Tasks /\ DOMAIN cache = Tasks /\ DOMAIN sub = Subs
    /\ {current, resolver} \subseteq Subs \cup {None}
    /\ asked \in Sessions \cup {<<>>}
    /\ Fits(AnyRuns)

\* The user began one of these operations, and left the task it was about since.
Left(operations) ==
    \E i, k \in DOMAIN asked : /\ i < k
                               /\ asked[i] \in operations
                               /\ asked[k] \in {"open", "clear", "archive"}

\* Neither resumeChat nor createTask looks at the view again when it is answered.
Overtaken == Left({"resume", "create"})

\* Whatever is late when the user changes the task, a stream, a batch, a load, a
\* settlement, a probe, an answer to a stop, it never puts anything of one task into
\* the view of another. Three answers do: that of a compaction and that of a resume,
\* which do not look at the task again (compactContext, resumeChat), and a chunk of a
\* history, when a task was created meanwhile (hydrateHistory looks only at
\* openTaskRequest, which createTask has counted up before the task was opened).
TasksStayApart ==
    [][~Fits(OwnRuns)'
       => \/ ~Fits(OwnRuns)
          \/ \E j \in work \ work' :
                /\ j.task # ui.task
                /\ \/ j.op \in {"compact", "resume"}
                   \/ j.op = "open" /\ Left({"create"})]_vars

\* So all the views show is their own, unless the user left a task while a
\* compaction, a resume or a creation was under way.
ViewsShowTheirOwn == ViewsFit(OwnRuns) \/ Left({"resume", "create", "compact"})

\* While a task is shown nothing but the user takes its place: an answer to an
\* earlier load or a poll that finds a next run does not (openTaskRequest). A task
\* that is created does when the answer comes, and a load begun meanwhile takes its
\* place in turn.
TaskOnShowIsTheUsers ==
    [][ui'.task # ui.task /\ ui.task # None
       => asked' # asked \/ Left({"create"})]_vars

\* The subscription the store holds is one of the task it shows, whichever loads,
\* sends and switches overlap, unless a resume or a creation was overtaken.
HeldSubscriptionFeedsTheView ==
    current # None /\ sub[current].listening => sub[current].task = ui.task \/ Overtaken

\* From the click that stops it until the pause is over, the answer that is shown
\* is frozen, though events still come and batches are still flushed: saved messages
\* that were read take its place, or the view that was remembered of the task does
\* when the task is loaded again (stopChat: freeze the answer immediately).
StoppedAnswerIsFrozen ==
    [][ui'.task = ui.task /\ ui.pausing /\ ui'.pausing /\ TextOf(ui') # TextOf(ui)
       => \/ ui.hydrating /\ TextOf(ui') = TextOf(cache[ui.task])
          \/ \E j \in work \ work' :
                \/ j.op = "open" /\ TextOf(ui') = TextOf(cache[ui.task])
                \/ /\ j.op \in {"open", "settle", "stop", "resume", "compact"}
                   /\ TextOf(ui') \in {TextOf(j.page), j.page.past \o ui.answer}]_vars

\* The user began operations of these sets, in this order.
AskedInOrder(operations) ==
    \E at \in [DOMAIN operations -> DOMAIN asked] :
        \A k \in DOMAIN operations :
            /\ asked[at[k]] \in operations[k]
            /\ k > 1 => at[k - 1] < at[k]

\* A message is sent while its task is loaded, and an input is queued behind it: the
\* load may find the input's run, and leaves the message's stream behind.
LeavesItsStream == AskedInOrder(<<{"open"}, {"send"}, {"enqueue"}>>)

\* The saved messages that a run's end asked for never take the place of an answer
\* that the held subscription brings since (isCurrentSettlement), unless a load has left
\* the stream behind whose end it was: the late end takes the view of the new run for
\* its own.
SettlementKeepsNewAnswers ==
    [][\A d \in ToSet(TextOf(ui)) \ ToSet(TextOf(ui')) :
           /\ IsActive(d[1]) /\ current # None /\ sub[current].run = d[1]
           /\ \E j \in work \ work' : j.op = "settle"
           => LeavesItsStream]_vars

\* Nothing is under way any more: no answer, timer, batch or event is still to come.
AtRest == /\ work = {}
          /\ \A s \in Subs : /\ sub[s].batch = <<>> /\ ~sub[s].posting
                             /\ sub[s].listening => sub[s].pos = Len(run[sub[s].run].log)

\* An input is queued while a message is on its way: if it gets its turn first, the
\* message is refused and the probe puts the input's run in the view of the message.
RacesItsInput == AskedInOrder(<<{"send"}, {"enqueue"}>>)

\* Then a view that says an answer is being written has a run that writes it and a
\* subscription that will bring it, whatever was opened, sent and left before. A stop
\* may leave it otherwise, whose late history takes the settlement of the next
\* message for outdated, and so may an input that overtakes a message.
ChattingViewsAreFed ==
    AtRest /\ ui.task # None /\ ui.chatting /\ "stop" \notin ToSet(asked) /\ ~RacesItsInput
    => /\ ActiveRuns(ui.task) # {}
       /\ \E s \in Subs : sub[s].listening /\ sub[s].task = ui.task

\* resolveChat is replaced while the call it resolves may still wait: a paused run is
\* resumed a second time before the first is answered (the Core accepts both), or a
\* message follows a stop that has not found a run, or whose saved messages are read.
Calls == {"create", "send", "regenerate", "resume"}
ReplacesResolver == \/ AskedInOrder(<<{"resume"}, {"resume"}>>)
                    \/ AskedInOrder(<<Calls, {"stop"}, Calls>>)

\* A stream of this run ended without the last event of a turn: the run failed when it
\* was to pause.
WasCut(r) == r # None /\ "cut" \in ToSet(run[r].log)

\* Then also a call that awaits the end of its stream still has that stream: no call
\* of sendMessage, regenerateMessage or resumeChat is left behind by a switch, a stop or
\* an end, unless the task was left before the call subscribed, another call took its
\* place in resolveChat, or its run was cut short.
CallsReturn ==
    AtRest /\ ~ReplacesResolver =>
        \A s \in Subs :
            sub[s].calling => sub[s].listening \/ Overtaken \/ WasCut(sub[s].run)

\* A pause that is asked for is over some time, however it meets the run's own end.
PausesEnd == ui.pausing ~> ~ui.pausing

=============================================================================
