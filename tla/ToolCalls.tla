----------------------------- MODULE ToolCalls -----------------------------
(***************************************************************************)
(* The tool calls of the agents' turns: ToolCallScheduler starts the calls *)
(* the model asked for, side by side where they are safe, and answers in   *)
(* the model's order; ToolRegistry runs each under the locks of its        *)
(* resources (ResourceLocks), which the turns of all tasks share.          *)
(*                                                                         *)
(* A call of delegate_task runs a turn of a child agent, with the parent's *)
(* locks, workspace and pause signal, and ends when the child has ended.   *)
(***************************************************************************)
EXTENDS ResourceLocks

CONSTANTS
    Turns,          \* the turns of the agents, children included
    Files,          \* the keys of the files
    Workspace,      \* the key of the workspace they are in
    Plans,          \* what the models may ask for: functions from Turns to calls
    MaxParallel,    \* max_parallel_tool_calls
    None

\* What a tool is to the scheduler and the registry: whether it is safe beside others and
\* only reads, whether it runs in a thread of its own (asyncio.to_thread), the resources it
\* names, and the turn it runs if it delegates.
Tool == [safe : BOOLEAN, readOnly : BOOLEAN, threaded : BOOLEAN,
         accesses : {a \in SUBSET Access : IsFiniteSet(a)}, child : Turns \cup {None}]

ASSUME PlansAssumption ==
    \A p \in Plans : /\ p \in [Turns -> Seq(Tool)]
                     /\ \A t \in Turns : \A i \in DOMAIN p[t] : <<t, i>> \in Calls
ASSUME TurnsAssumption == Calls \subseteq Turns \X (Nat \ {0})
\* "file:..." is sorted before "workspace:...".
ASSUME WorkspaceAssumption == Keys = Files \cup {Workspace} /\ \A f \in Files : f < Workspace

VARIABLES
    plan,       \* the calls of each turn, in the model's order
    phase,      \* "idle", "running", "cancelled" or "over"
    next,       \* the call that is started next
    history,    \* the answers in the conversation: <<call, "result" or "aborted">>
    asked,      \* pause_requested
    paused,     \* self.paused
    threads     \* the cancelled calls whose tool goes on in its thread

turnVars == <<plan, phase, next, history, asked, paused, threads>>
vars == <<lockVars, turnVars>>

-----------------------------------------------------------------------------
(* Tools and their resources *)

Read(k) == [key |-> k, mode |-> "read"]
Write(k) == [key |-> k, mode |-> "write"]

ReadFile(f) ==
    [safe |-> TRUE, readOnly |-> TRUE, threaded |-> TRUE,
     accesses |-> {Read(Workspace), Read(f)}, child |-> None]
WriteFile(f) ==
    [safe |-> FALSE, readOnly |-> FALSE, threaded |-> TRUE,
     accesses |-> {Read(Workspace), Write(f)}, child |-> None]
Shell ==
    [safe |-> FALSE, readOnly |-> FALSE, threaded |-> FALSE,
     accesses |-> {Write(Workspace)}, child |-> None]
Delegate(t) ==
    [safe |-> TRUE, readOnly |-> TRUE, threaded |-> FALSE, accesses |-> {}, child |-> t]

\* A tool that names no resource has the workspace.
Accesses(tool) ==
    IF tool.accesses # {} THEN tool.accesses
    ELSE IF tool.readOnly THEN {Read(Workspace)} ELSE {Write(Workspace)}

\* Each key once, to write if any access writes, in the order of the keys.
Strongest(accesses) == {a \in accesses : a.mode = "write" \/ Write(a.key) \notin accesses}
Normalized(accesses) ==
    CHOOSE s \in [1..Cardinality(Strongest(accesses)) -> Strongest(accesses)] : Sorted(s)

-----------------------------------------------------------------------------
(* Turns *)

CallsOf(t) == {<<t, i>> : i \in DOMAIN plan[t]}
ToolOf(c) == plan[c[1]][c[2]]
Safe(t, i) == plan[t][i].safe
Boss(t) == {c \in Calls : c[2] \in DOMAIN plan[c[1]] /\ ToolOf(c).child = t}
Descends(u, t) == \E c \in Boss(u) : c[1] = t

Underway(c) == at[c] \notin {"idle", "done"}
Parallel(t) == Cardinality({c \in CallsOf(t) : Underway(c)})
Answered(t) == Len(history[t])

\* The turn of a task begins; a child's when the call that delegates to it works.
BeginTurn(t) ==
    /\ phase[t] = "idle" /\ plan[t] # <<>>
    /\ \A c \in Boss(t) : Working(c)
    /\ phase' = [phase EXCEPT ![t] = "running"]
    /\ UNCHANGED <<lockVars, plan, next, history, asked, paused, threads>>

\* The call that goes next may start: one that is not safe when everything before it is
\* answered; a safe one also beside the safe calls before it, up to the limit, even if a
\* pause was asked for meanwhile.
InGroup(t) == next[t] > 1 /\ Safe(t, next[t] - 1) /\ Safe(t, next[t])
MayStartUnanswered(t) ==
    /\ phase[t] = "running" /\ ~paused[t]
    /\ next[t] \in DOMAIN plan[t]
    /\ IF InGroup(t) THEN Parallel(t) < MaxParallel ELSE Parallel(t) = 0 /\ ~asked[t]
MayStart(t) ==
    /\ phase[t] = "running" /\ ~paused[t]
    /\ next[t] \in DOMAIN plan[t]
    /\ IF InGroup(t) THEN Parallel(t) < MaxParallel
       ELSE Answered(t) = next[t] - 1 /\ ~asked[t]

Started(t) ==
    /\ next' = [next EXCEPT ![t] = @ + 1]
    /\ paused' = [paused EXCEPT ![t] = Safe(t, next[t]) /\ asked[t]]
    /\ UNCHANGED <<plan, phase, history, asked, threads>>

StartCall(t) == MayStart(t) /\ Ask(<<t, next[t]>>) /\ Started(t)

\* Its arguments, its budget or the permission is refused: it has its result.
RefuseCall(t) == MayStart(t) /\ Refuse(<<t, next[t]>>) /\ Started(t)

\* The tool returns. One that delegates has a child that has ended or was refused.
FinishCall(c) ==
    /\ Finish(c)
    /\ \A t \in Turns : c \in Boss(t) => phase[t] \in {"idle", "over"}
    /\ UNCHANGED turnVars

AcquireLock(c) == Acquire(c) /\ UNCHANGED turnVars
ReleaseLock(c) == Release(c) /\ UNCHANGED turnVars

\* The result of the first call without an answer joins the conversation.
Ready(t) == at[<<t, Answered(t) + 1>>] = "done"
Commit(t) ==
    /\ phase[t] = "running"
    /\ Answered(t) + 1 < next[t] /\ Ready(t)
    /\ history' = [history EXCEPT ![t] = Append(@, <<Answered(t) + 1, "result">>)]
    /\ UNCHANGED <<lockVars, plan, phase, next, asked, paused, threads>>

\* The pause is for the children, too.
RequestPause(t) ==
    /\ Boss(t) = {} /\ phase[t] = "running" /\ ~asked[t]
    /\ asked' = [u \in Turns |-> asked[u] \/ u = t \/ Descends(u, t)]
    /\ UNCHANGED <<lockVars, plan, phase, next, history, paused, threads>>

\* The scheduler sees the pause: at once while safe calls are under way, else after the
\* call that is.
NoticePause(t) ==
    /\ phase[t] = "running" /\ asked[t] /\ ~paused[t]
    /\ \A c \in CallsOf(t) : Underway(c) => ToolOf(c).safe
    /\ next[t] > 1 => Safe(t, next[t] - 1) \/ Answered(t) = next[t] - 1
    /\ paused' = [paused EXCEPT ![t] = TRUE]
    /\ UNCHANGED <<lockVars, plan, phase, next, history, asked, threads>>

\* Everything is answered, or what was not started is aborted.
Aborted(t) == [i \in 1..(Len(plan[t]) - next[t] + 1) |-> <<next[t] + i - 1, "aborted">>]
EndTurn(t) ==
    /\ phase[t] = "running" /\ Answered(t) = next[t] - 1
    /\ paused[t] \/ next[t] > Len(plan[t])
    /\ phase' = [phase EXCEPT ![t] = "over"]
    /\ history' = [history EXCEPT ![t] = @ \o Aborted(t)]
    /\ UNCHANGED <<lockVars, plan, next, asked, paused, threads>>

\* The call gives its locks back, but a tool that runs in a thread cannot be stopped: it
\* goes on, unless it had not begun or was over.
CancelCall(c) ==
    /\ Cancel(c)
    /\ \/ UNCHANGED threads
       \/ Working(c) /\ ToolOf(c).threaded /\ threads' = threads \cup {c}

EndThread(c) ==
    /\ c \in threads
    /\ threads' = threads \ {c}
    /\ UNCHANGED <<lockVars, plan, phase, next, history, asked, paused>>

\* The task of the turn is cancelled, and with it a call that has it alone; safe calls
\* are waited for.
CancelTurn(t) ==
    /\ Boss(t) = {} /\ phase[t] = "running"
    /\ phase' = [phase EXCEPT ![t] = "cancelled"]
    /\ LET alone == {c \in CallsOf(t) : Underway(c) /\ ~ToolOf(c).safe /\ at[c] # "leaving"} IN
       \/ alone = {} /\ UNCHANGED <<lockVars, threads>>
       \/ \E c \in alone : CancelCall(c)
    /\ UNCHANGED <<plan, next, history, asked, paused>>

EndCancelled(t) ==
    /\ phase[t] = "cancelled"
    /\ \A c \in CallsOf(t) : ~Underway(c)
    /\ phase' = [phase EXCEPT ![t] = "over"]
    /\ UNCHANGED <<lockVars, plan, next, history, asked, paused, threads>>

-----------------------------------------------------------------------------

Init ==
    /\ plan \in Plans
    /\ access = [c \in Calls |->
                   IF c[2] \in DOMAIN plan[c[1]] THEN Normalized(Accesses(ToolOf(c))) ELSE <<>>]
    /\ InitLocks
    /\ phase = [t \in Turns |-> "idle"]
    /\ next = [t \in Turns |-> 1]
    /\ history = [t \in Turns |-> <<>>]
    /\ asked = [t \in Turns |-> FALSE]
    /\ paused = [t \in Turns |-> FALSE]
    /\ threads = {}

Scheduler(t) == \/ BeginTurn(t) \/ StartCall(t) \/ RefuseCall(t) \/ Commit(t)
                \/ NoticePause(t) \/ EndTurn(t) \/ EndCancelled(t)
User(t) == RequestPause(t) \/ CancelTurn(t)
Tools(c) == AcquireLock(c) \/ FinishCall(c) \/ ReleaseLock(c) \/ EndThread(c)

System == (\E t \in Turns : Scheduler(t)) \/ (\E c \in Calls : Tools(c))

Next == System \/ (\E t \in Turns : User(t))

\* The event loop goes on as long as anything can, and every tool returns.
Spec == Init /\ [][Next]_vars /\ WF_vars(System)

-----------------------------------------------------------------------------
(* Properties *)

TypeOK ==
    /\ LocksTypeOK
    /\ phase \in [Turns -> {"idle", "running", "cancelled", "over"}]
    /\ \A t \in Turns : next[t] \in 1..(Len(plan[t]) + 1)
    /\ history \in [Turns -> Seq(Nat \X {"result", "aborted"})]
    /\ asked \in [Turns -> BOOLEAN]
    /\ paused \in [Turns -> BOOLEAN]
    /\ threads \subseteq Calls

\* What a tool that runs may use: what its call asked for.
Uses(c, k, mode) ==
    /\ Working(c) \/ c \in threads
    /\ \E i \in DOMAIN access[c] : access[c][i] = [key |-> k, mode |-> mode]

\* What the tool of one call may write no other that runs at the time may read or write,
\* however calls overtake, wake and wait for each other: except for a tool that goes on in
\* its thread after its turn was cancelled, whose locks are given away.
AccessIsExclusive ==
    \A c, d \in Calls, k \in Keys :
        c # d /\ Uses(c, k, "write") /\ (Uses(d, k, "read") \/ Uses(d, k, "write"))
            => \E x \in {c, d} : x \in threads /\ phase[x[1]] \in {"cancelled", "over"}

\* A turn goes on as if its calls had been made one after the other: the conversation has
\* one answer to each, in the model's order, a result only of a call that has ended and an
\* abortion only of one that was never started; and a call that is not safe runs when
\* everything before it is answered and nothing after it has begun.
HistoryIsSequential ==
    \A t \in Turns :
        /\ \A i \in DOMAIN history[t] :
              /\ history[t][i][1] = i
              /\ at[<<t, i>>] = IF history[t][i][2] = "result" THEN "done" ELSE "idle"
        /\ \A i \in DOMAIN plan[t] :
              Underway(<<t, i>>) /\ ~Safe(t, i) =>
                  /\ Answered(t) = i - 1
                  /\ \A j \in DOMAIN plan[t] : j > i => at[<<t, j>>] = "idle"

\* Every turn comes to its end, paused, cancelled or not: no call waits for a lock for
\* ever, and a pause does not leave a call without an answer.
TurnsEnd ==
    \A t \in Turns : phase[t] \in {"running", "cancelled"} ~> phase[t] = "over"

=============================================================================
