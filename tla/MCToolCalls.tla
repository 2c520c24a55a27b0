---------------------------- MODULE MCToolCalls ----------------------------
(* What the models ask for in the runs of ToolCalls: turns of two tasks,   *)
(* and turns that delegate.                                                *)
EXTENDS ToolCalls

CONSTANTS t1, t2, child

MCTurns == {t1, t2, child}
MCCalls == ({t1} \X (1..3)) \cup ({t2, child} \X (1..2))

Plan(first, second, third) ==
    [t \in MCTurns |-> CASE t = t1 -> first [] t = t2 -> second [] t = child -> third]

R == ReadFile(1)
W == WriteFile(1)

\* Two tasks in one workspace.
TwoTasks ==
    {Plan(first, second, <<>>) : first \in {<<R, R>>, <<W, R>>, <<R, Shell>>}, second \in {<<W>>, <<Shell>>}}
    \cup {Plan(<<R, R, Shell>>, <<W>>, <<>>), Plan(<<R, R, R>>, <<>>, <<>>)}

\* A child agent that reads, beside a task that reads.
ReadingChildren ==
    {Plan(<<Delegate(child), R>>, <<>>, <<R, R>>),
     Plan(<<R, Delegate(child), W>>, <<>>, <<R>>)}

ToolPlans == TwoTasks \cup ReadingChildren

\* A child agent that runs a command.
WorkingChild == {Plan(<<Delegate(child)>>, <<>>, <<Shell>>)}
=============================================================================
