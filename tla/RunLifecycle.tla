---------------------------- MODULE RunLifecycle ----------------------------
(***************************************************************************)
(* What the Local Core promises about runs, with no queue, thread or       *)
(* runtime: the life cycle of a run, one live run per task, and a bound on *)
(* the runs at work. One step may move several runs: the handler that ends *)
(* one run starts the next.                                                *)
(***************************************************************************)
EXTENDS Naturals, FiniteSets

CONSTANTS Runs, TaskOf, MaxConcurrentRuns

VARIABLE phase

Phases == {"new", "waiting", "active", "paused", "done"}

\* A new run may reach a slot, or fail to start, in the step that creates it. A
\* run at work never goes back to waiting: it is paused first. Done is final.
Moves == {<<"new", "waiting">>, <<"new", "active">>, <<"new", "done">>,
          <<"waiting", "active">>, <<"waiting", "paused">>, <<"waiting", "done">>,
          <<"active", "paused">>, <<"active", "done">>,
          <<"paused", "waiting">>, <<"paused", "active">>, <<"paused", "done">>}

Live(r) == phase[r] \in {"waiting", "active", "paused"}

OneLiveRunPerTask ==
    \A r, s \in Runs : TaskOf[r] = TaskOf[s] /\ Live(r) /\ Live(s) => r = s

BoundedWork == Cardinality({r \in Runs : phase[r] = "active"}) <= MaxConcurrentRuns

Init == phase = [r \in Runs |-> "new"]

Next ==
    /\ phase' \in [Runs -> Phases]
    /\ \A r \in Runs : phase'[r] # phase[r] => <<phase[r], phase'[r]>> \in Moves
    /\ OneLiveRunPerTask'
    /\ BoundedWork'

Spec == Init /\ [][Next]_phase

=============================================================================
