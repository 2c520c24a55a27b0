----------------------------- MODULE LogReaders -----------------------------
(***************************************************************************)
(* What a subscription to the events of a run promises its reader: the     *)
(* events after the one it names, each once and in order, as far as it is  *)
(* read; and an end, once the run is over.                                 *)
(***************************************************************************)
EXTENDS Naturals, Sequences

CONSTANT Readers

VARIABLES
    stored,     \* how many events there are
    over,       \* no more will come
    from,       \* the event each reader starts after
    got,        \* the events it was given
    state       \* whether it reads

vars == <<stored, over, from, got, state>>

Init == /\ stored = 0
        /\ over = FALSE
        /\ from = [r \in Readers |-> 0]
        /\ got = [r \in Readers |-> <<>>]
        /\ state = [r \in Readers |-> "idle"]

\* The run goes on, with a new event, or is over.
Grow == /\ ~over
        /\ stored' \in {stored, stored + 1}
        /\ over' \in BOOLEAN
        /\ UNCHANGED <<from, got, state>>

Start(r) == /\ state[r] = "idle"
            /\ state' = [state EXCEPT ![r] = "open"]
            /\ \E n \in 0..stored : from' = [from EXCEPT ![r] = n]
            /\ UNCHANGED <<stored, over, got>>

Receive(r) == LET next == from[r] + Len(got[r]) + 1
              IN  /\ state[r] = "open"
                  /\ next <= stored
                  /\ got' = [got EXCEPT ![r] = Append(@, next)]
                  /\ UNCHANGED <<stored, over, from, state>>

Stop(r) == /\ state[r] = "open"
           /\ state' = [state EXCEPT ![r] = "done"]
           /\ UNCHANGED <<stored, over, from, got>>

Next == Grow \/ \E r \in Readers : Start(r) \/ Receive(r) \/ Stop(r)

Spec == /\ Init /\ [][Next]_vars
        /\ \A r \in Readers : WF_vars(over /\ Stop(r))

=============================================================================
