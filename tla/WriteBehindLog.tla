--------------------------- MODULE WriteBehindLog ---------------------------
(***************************************************************************)
(* What the event journal promises: a durable log per run that lags behind *)
(* the events of the run, loses at most the events it lags by, and neither *)
(* reorders, repeats nor skips any of the others. The n-th event of a run  *)
(* is the number n.                                                        *)
(***************************************************************************)
EXTENDS Naturals, Sequences

CONSTANT Runs

VARIABLES log, unsaved

vars == <<log, unsaved>>

Init ==
    /\ log = [r \in Runs |-> <<>>]
    /\ unsaved = [r \in Runs |-> <<>>]

Happen(r) ==
    /\ unsaved' = [unsaved EXCEPT ![r] = Append(@, Len(log[r]) + Len(@) + 1)]
    /\ UNCHANGED log

\* The oldest events become durable, together.
Save(r) ==
    \E k \in 1..Len(unsaved[r]) :
        /\ log' = [log EXCEPT ![r] = @ \o SubSeq(unsaved[r], 1, k)]
        /\ unsaved' = [unsaved EXCEPT ![r] = SubSeq(@, k + 1, Len(@))]

\* The process dies.
Lose ==
    /\ unsaved' = [r \in Runs |-> <<>>]
    /\ UNCHANGED log

Next == Lose \/ \E r \in Runs : Happen(r) \/ Save(r)

Spec == Init /\ [][Next]_vars

=============================================================================
