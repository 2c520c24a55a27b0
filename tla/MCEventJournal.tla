--------------------------- MODULE MCEventJournal ---------------------------
(* Names for the runs and threads of the instances TLC checks. *)
EXTENDS EventJournal

CONSTANTS r1, r2, c1

=============================================================================
