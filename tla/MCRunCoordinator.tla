-------------------------- MODULE MCRunCoordinator --------------------------
(* Instances of RunCoordinator for TLC: the tasks of the runs and inputs. *)
EXTENDS RunCoordinator

CONSTANTS t1, t2, r1, r2, i1, i2, c1, c2

\* Two tasks with a run each.
TwoTasks == (r1 :> t1) @@ (r2 :> t2)

\* One task with two runs.
TwoRuns == (r1 :> t1) @@ (r2 :> t1)

\* One task with two runs and two inputs.
OneTask == (r1 :> t1) @@ (r2 :> t1) @@ (i1 :> t1) @@ (i2 :> t1)

\* Swapping the tasks of TwoTasks together with their runs, and the clients.
Symmetry ==
    {tasks @@ clients :
        tasks \in {(t1 :> t1) @@ (t2 :> t2) @@ (r1 :> r1) @@ (r2 :> r2),
                  (t1 :> t2) @@ (t2 :> t1) @@ (r1 :> r2) @@ (r2 :> r1)},
        clients \in Permutations({c1, c2})}

=============================================================================
