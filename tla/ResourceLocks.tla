--------------------------- MODULE ResourceLocks ---------------------------
(***************************************************************************)
(* ResourceLockManager: the locks that the tool calls of all agents share. *)
(*                                                                         *)
(* A call takes the locks of its resources one after the other, in the     *)
(* order of their keys, and gives all of them back when it ends. A lock    *)
(* has readers or one writer, and a writer that waits goes before readers  *)
(* that come. Everything is on one event loop: an action is what runs      *)
(* between two suspensions, or less; the condition of a lock is never held *)
(* over a suspension.                                                      *)
(***************************************************************************)
EXTENDS Naturals, Sequences, FiniteSets

CONSTANTS
    Calls,      \* the tool calls
    Keys        \* the keys of the resources, in their order

ASSUME CallsAssumption == IsFiniteSet(Calls)
ASSUME KeysAssumption == IsFiniteSet(Keys) /\ Keys \subseteq Nat

VARIABLES
    access,     \* the resources of each call: what it acquires, in this order
    lock,       \* _locks
    at,         \* how far each call is
    acquired    \* how many of its locks it has

lockVars == <<access, lock, at, acquired>>

Modes == {"read", "write"}
Access == [key : Keys, mode : Modes]

\* The locks are acquired in the order of their keys, each once.
Sorted(s) == \A i, j \in DOMAIN s : i < j => s[i].key < s[j].key

\* The resource that c acquires next.
Wants(c) == acquired[c] < Len(access[c])
Wanted(c) == access[c][acquired[c] + 1]

Holds(c, k, mode) == \E i \in 1..acquired[c] : access[c][i] = [key |-> k, mode |-> mode]

FreeLock == [readers |-> 0, writer |-> FALSE, waiting |-> 0]
CanRead(k) == ~lock[k].writer /\ lock[k].waiting = 0
CanWriteBesideReaders(k) == ~lock[k].writer
CanWrite(k) == ~lock[k].writer /\ lock[k].readers = 0

\* c is at status now, and the conditions of these locks wake those who wait.
Notified(c, status, keys) ==
    [x \in Calls |-> IF x = c THEN status
                     ELSE IF at[x] = "asleep" /\ Wanted(x).key \in keys THEN "woken"
                     ELSE at[x]]

-----------------------------------------------------------------------------

\* hold is entered.
Ask(c) ==
    /\ at[c] = "idle"
    /\ at' = [at EXCEPT ![c] = "awake"]
    /\ UNCHANGED <<access, lock, acquired>>

\* It never comes to hold: it was refused before.
Refuse(c) ==
    /\ at[c] = "idle"
    /\ at' = [at EXCEPT ![c] = "done"]
    /\ UNCHANGED <<access, lock, acquired>>

Awake(c) == at[c] \in {"awake", "woken"} /\ Wants(c)

AcquireRead(c) ==
    /\ Awake(c) /\ Wanted(c).mode = "read"
    /\ CanRead(Wanted(c).key)
    /\ lock' = [lock EXCEPT ![Wanted(c).key].readers = @ + 1]
    /\ acquired' = [acquired EXCEPT ![c] = @ + 1]
    /\ at' = [at EXCEPT ![c] = "awake"]
    /\ UNCHANGED access

WaitRead(c) ==
    /\ Awake(c) /\ Wanted(c).mode = "read"
    /\ ~CanRead(Wanted(c).key)
    /\ at' = [at EXCEPT ![c] = "asleep"]
    /\ UNCHANGED <<access, lock, acquired>>

\* A writer that waited is counted no more.
AcquireWrite(c) ==
    /\ Awake(c) /\ Wanted(c).mode = "write"
    /\ CanWrite(Wanted(c).key)
    /\ lock' = [lock EXCEPT ![Wanted(c).key].writer = TRUE,
                            ![Wanted(c).key].waiting = IF at[c] = "woken" THEN @ - 1 ELSE @]
    /\ acquired' = [acquired EXCEPT ![c] = @ + 1]
    /\ at' = Notified(c, "awake", {Wanted(c).key})
    /\ UNCHANGED access

WaitWrite(c) ==
    /\ Awake(c) /\ Wanted(c).mode = "write"
    /\ ~CanWrite(Wanted(c).key)
    /\ lock' = [lock EXCEPT ![Wanted(c).key].waiting = IF at[c] = "awake" THEN @ + 1 ELSE @]
    /\ at' = [at EXCEPT ![c] = "asleep"]
    /\ UNCHANGED <<access, acquired>>

Acquire(c) == AcquireRead(c) \/ WaitRead(c) \/ AcquireWrite(c) \/ WaitWrite(c)

\* With all its locks the tool runs, and ends.
Working(c) == at[c] = "awake" /\ ~Wants(c)

Finish(c) ==
    /\ Working(c)
    /\ at' = [at EXCEPT ![c] = "leaving"]
    /\ UNCHANGED <<access, lock, acquired>>

\* A call is cancelled while it waits or works: hold ends, whether the tool has stopped
\* or goes on in its thread (ToolCalls). A writer that waited is counted no more and
\* wakes those behind it.
WaitsToWrite(c, k) ==
    at[c] \in {"asleep", "woken"} /\ Wanted(c) = [key |-> k, mode |-> "write"]
WaitsFor(c, k) == at[c] \in {"asleep", "woken"} /\ Wanted(c).key = k

WaitingAfterAny(c, k) == lock[k].waiting - (IF WaitsFor(c, k) THEN 1 ELSE 0)
WaitingAfter(c, k) == lock[k].waiting - (IF WaitsToWrite(c, k) THEN 1 ELSE 0)

BehindNobody(c) == {}
Behind(c) == {k \in Keys : WaitsToWrite(c, k)}

Cancel(c) ==
    /\ at[c] \in {"awake", "asleep", "woken"}
    /\ lock' = [k \in Keys |-> [lock[k] EXCEPT !.waiting = WaitingAfter(c, k)]]
    /\ at' = Notified(c, "leaving", Behind(c))
    /\ UNCHANGED <<access, acquired>>

\* The end of hold gives the locks back, the last first.
Held(c) == access[c][acquired[c]]

ReleaseRead(c) ==
    /\ at[c] = "leaving" /\ acquired[c] > 0 /\ Held(c).mode = "read"
    /\ lock' = [lock EXCEPT ![Held(c).key].readers = @ - 1]
    /\ acquired' = [acquired EXCEPT ![c] = @ - 1]
    /\ at' = Notified(c, "leaving", IF lock[Held(c).key].readers = 1 THEN {Held(c).key} ELSE {})
    /\ UNCHANGED access

ReleaseWrite(c) ==
    /\ at[c] = "leaving" /\ acquired[c] > 0 /\ Held(c).mode = "write"
    /\ lock' = [lock EXCEPT ![Held(c).key].writer = FALSE]
    /\ acquired' = [acquired EXCEPT ![c] = @ - 1]
    /\ at' = Notified(c, "leaving", {Held(c).key})
    /\ UNCHANGED access

Leave(c) ==
    /\ at[c] = "leaving" /\ acquired[c] = 0
    /\ at' = [at EXCEPT ![c] = "done"]
    /\ UNCHANGED <<access, lock, acquired>>

Release(c) == ReleaseRead(c) \/ ReleaseWrite(c) \/ Leave(c)

-----------------------------------------------------------------------------

InitLocks ==
    /\ lock = [k \in Keys |-> FreeLock]
    /\ at = [c \in Calls |-> "idle"]
    /\ acquired = [c \in Calls |-> 0]

LocksInit ==
    /\ access \in [Calls -> {s \in Seq(Access) : Sorted(s)}]
    /\ InitLocks

LocksNext ==
    \E c \in Calls :
        Ask(c) \/ Refuse(c) \/ Acquire(c) \/ Finish(c) \/ Cancel(c) \/ Release(c)

LocksSpec == LocksInit /\ [][LocksNext]_lockVars

-----------------------------------------------------------------------------
(* Properties *)

Places == {"idle", "awake", "asleep", "woken", "leaving", "done"}

\* Counters do not go below zero, and a call has no more locks than it asked for.
LocksTypeOK ==
    /\ access \in [Calls -> Seq(Access)]
    /\ lock \in [Keys -> [readers : Nat, writer : BOOLEAN, waiting : Nat]]
    /\ at \in [Calls -> Places]
    /\ acquired \in [Calls -> Nat]
    /\ \A c \in Calls : acquired[c] <= Len(access[c])

\* Of a lock that one call has to write no other call has a part, whatever calls were
\* woken, overtaken or cancelled before: the counters and flags of the locks agree with
\* who has them.
LocksExclude ==
    \A c, d \in Calls, k \in Keys :
        Holds(c, k, "write") /\ c # d => ~Holds(d, k, "write") /\ ~Holds(d, k, "read")

\* Calls do not wait for each other, nor for a wake-up that has been lost: while any
\* call is asleep some call that is not can go on.
NoCallIsStuck ==
    (\E c \in Calls : at[c] = "asleep") =>
        \E c \in Calls : at[c] \in {"awake", "woken", "leaving"}

=============================================================================
