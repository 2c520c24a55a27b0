-------------------------- MODULE ToolCallsProofs --------------------------
(***************************************************************************)
(* Proofs about the resource locks and the tool calls that use them, for   *)
(* any number of calls, resources, turns and plans. The counters and flags *)
(* of the locks are what the calls hold and wait for (LockInv), access is  *)
(* exclusive, and calls that take their locks in the order of the keys do  *)
(* not wait for each other. The agents' calls use the locks as             *)
(* ResourceLocks has it, so that this holds of them; and a turn's history  *)
(* is that of its calls made one after the other.                          *)
(***************************************************************************)
EXTENDS ToolCalls, FiniteSetTheorems, WellFoundedInduction, TLAPS

Readers(k) == {c \in Calls : Holds(c, k, "read")}
Writers(k) == {c \in Calls : Holds(c, k, "write")}
Waiting(k) == {c \in Calls : WaitsToWrite(c, k)}

\* The lock says who has it and how many wait to write.
LockAgrees(k) ==
    /\ lock[k].readers = Cardinality(Readers(k))
    /\ lock[k].writer <=> Writers(k) # {}
    /\ lock[k].waiting = Cardinality(Waiting(k))

\* Who sleeps has a reason to.
SleepsForAReason(c) ==
    at[c] = "asleep" => IF Wanted(c).mode = "read" THEN ~CanRead(Wanted(c).key)
                        ELSE ~CanWrite(Wanted(c).key)

CallInv(c) ==
    /\ Sorted(access[c])
    /\ at[c] \in {"asleep", "woken"} => Wants(c)
    /\ at[c] \in {"idle", "done"} => acquired[c] = 0
    /\ SleepsForAReason(c)

LockInv ==
    /\ LocksTypeOK
    /\ LocksExclude
    /\ \A k \in Keys : LockAgrees(k)
    /\ \A c \in Calls : CallInv(c)

-----------------------------------------------------------------------------
(* The greatest of finitely many keys *)

LEMMA GreatestKey ==
    ASSUME NEW S, IsFiniteSet(S), S # {}, S \subseteq Nat
    PROVE  \E m \in S : \A x \in S : x <= m
<1> DEFINE Above(x) == {y \in S : y > x}
           Sizes == {Cardinality(Above(x)) : x \in S}
<1>1. \A x \in S : IsFiniteSet(Above(x)) /\ Cardinality(Above(x)) \in Nat
  BY FS_Subset, FS_CardinalityType
<1>2. Sizes \subseteq Nat /\ Sizes # {}
  BY <1>1
<1>3. PICK n \in Sizes : \A i \in Sizes : ~(<<i, n>> \in OpToRel(<, Nat))
  <2> HIDE DEF Sizes
  <2> QED  BY <1>2, WFMin, NatLessThanWellFounded, Zenon
<1>4. \A i \in Sizes : ~(i < n)
  <2> SUFFICES ASSUME NEW i \in Sizes  PROVE ~(i < n)
    OBVIOUS
  <2>1. i \in Nat /\ n \in Nat
    BY <1>2
  <2> QED  BY <1>3, <2>1 DEF OpToRel
<1>5. PICK m \in S : n = Cardinality(Above(m))
  OBVIOUS
<1>6. ASSUME NEW y \in S, y > m  PROVE FALSE
  <2>0. m \in Nat /\ y \in Nat
    OBVIOUS
  <2>1. Above(y) \subseteq Above(m)
    <3> SUFFICES ASSUME NEW z \in S, z > y  PROVE z > m
      BY <2>0
    <3>1. z \in Nat
      OBVIOUS
    <3> QED  BY <1>6, <2>0, <3>1
  <2>2. y \in Above(m) /\ y \notin Above(y)
    BY <1>6, <2>0
  <2>3. Cardinality(Above(y)) <= Cardinality(Above(m)) /\ Cardinality(Above(y)) # Cardinality(Above(m))
    <3> HIDE DEF Above
    <3> QED  BY <1>1, <2>1, <2>2, FS_Subset
  <2>4. Cardinality(Above(y)) < n
    <3> HIDE DEF Above
    <3> QED  BY <1>1, <1>5, <2>3
  <2> QED  BY <1>4, <2>4
<1> QED  BY <1>6

-----------------------------------------------------------------------------
(* What a step of one call changes *)

Resource(k, mode) == [key |-> k, mode |-> mode]

LEMMA CallTypes ==
    ASSUME LocksTypeOK, NEW c \in Calls
    PROVE  /\ access[c] \in Seq(Access) /\ Len(access[c]) \in Nat
           /\ acquired[c] \in Nat /\ acquired[c] <= Len(access[c])
           /\ at[c] \in Places
           /\ \A i \in 1..Len(access[c]) :
                 /\ access[c][i] \in Access
                 /\ access[c][i].key \in Keys /\ access[c][i].key \in Nat
                 /\ access[c][i].mode \in Modes
                 /\ access[c][i] = Resource(access[c][i].key, access[c][i].mode)
<1>1. access[c] \in Seq(Access) /\ acquired[c] \in Nat /\ acquired[c] <= Len(access[c]) /\ at[c] \in Places
  BY DEF LocksTypeOK
<1>2. Len(access[c]) \in Nat /\ \A i \in 1..Len(access[c]) : access[c][i] \in Access
  BY <1>1
<1>3. \A a \in Access : /\ a.key \in Keys /\ a.key \in Nat /\ a.mode \in Modes
                        /\ a = Resource(a.key, a.mode)
  <2> SUFFICES ASSUME NEW a \in Access
               PROVE  /\ a.key \in Keys /\ a.key \in Nat /\ a.mode \in Modes
                      /\ a = Resource(a.key, a.mode)
    OBVIOUS
  <2>1. a.key \in Keys /\ a.mode \in Modes
    BY DEF Access
  <2>2. a = Resource(a.key, a.mode)
    BY DEF Access, Resource
  <2> QED  BY <2>1, <2>2, KeysAssumption
<1> QED  BY <1>1, <1>2, <1>3

\* The resource a call wants is one it does not have yet.
LEMMA WantedIsNew ==
    ASSUME LocksTypeOK, NEW c \in Calls, Sorted(access[c]), Wants(c)
    PROVE  /\ Wanted(c).key \in Keys /\ Wanted(c).key \in Nat /\ Wanted(c).mode \in Modes
           /\ Wanted(c) = Resource(Wanted(c).key, Wanted(c).mode)
           /\ \A k, mode : Holds(c, k, mode) => k \in Nat /\ k < Wanted(c).key
<1>1. acquired[c] + 1 \in 1..Len(access[c])
  BY CallTypes DEF Wants
<1>2. \A i \in 1..acquired[c] : i \in 1..Len(access[c]) /\ i < acquired[c] + 1
  BY CallTypes
<1>3. \A i \in 1..acquired[c] : access[c][i].key < access[c][acquired[c] + 1].key
  BY <1>1, <1>2, CallTypes DEF Sorted
<1> QED  BY <1>1, <1>2, <1>3, CallTypes DEF Wanted, Holds

LEMMA Raises ==
    ASSUME LocksTypeOK, NEW c \in Calls, Wants(c),
           access' = access, acquired' = [acquired EXCEPT ![c] = @ + 1]
    PROVE  \A d \in Calls : \A k, mode :
             Holds(d, k, mode)' <=> \/ Holds(d, k, mode)
                                    \/ d = c /\ Wanted(c) = Resource(k, mode)
<1> SUFFICES ASSUME NEW d \in Calls, NEW k, NEW mode
             PROVE  Holds(d, k, mode)' <=> \/ Holds(d, k, mode)
                                           \/ d = c /\ Wanted(c) = Resource(k, mode)
  OBVIOUS
<1>1. CASE d = c
  <2>1. acquired'[c] = acquired[c] + 1 /\ acquired[c] \in Nat
    BY CallTypes DEF LocksTypeOK
  <2>2. \A i : i \in 1..acquired'[c] <=> i \in 1..acquired[c] \/ i = acquired[c] + 1
    BY <2>1
  <2> QED  BY <1>1, <2>2 DEF Holds, Wanted, Resource
<1>2. CASE d # c
  BY <1>2 DEF LocksTypeOK, Holds
<1> QED  BY <1>1, <1>2

LEMMA Lowers ==
    ASSUME LocksTypeOK, NEW c \in Calls, Sorted(access[c]), acquired[c] > 0,
           access' = access, acquired' = [acquired EXCEPT ![c] = @ - 1]
    PROVE  /\ Held(c).key \in Keys /\ Held(c).mode \in Modes
           /\ Held(c) = Resource(Held(c).key, Held(c).mode)
           /\ Holds(c, Held(c).key, Held(c).mode)
           /\ \A mode : Holds(c, Held(c).key, mode) => mode = Held(c).mode
           /\ \A d \in Calls : \A k, mode :
                Holds(d, k, mode)' <=> Holds(d, k, mode) /\ ~(d = c /\ k = Held(c).key)
<1> DEFINE n == acquired[c]
<1>1. n \in Nat /\ n \in 1..Len(access[c]) /\ n \in 1..n /\ acquired'[c] = n - 1
  BY CallTypes DEF LocksTypeOK
<1>2. /\ Held(c).key \in Keys /\ Held(c).mode \in Modes
      /\ Held(c) = Resource(Held(c).key, Held(c).mode)
  BY <1>1, CallTypes DEF Held
<1>3. \A i \in 1..n : i # n => access[c][i].key # access[c][n].key
  <2> SUFFICES ASSUME NEW i \in 1..n, i # n  PROVE access[c][i].key # access[c][n].key
    OBVIOUS
  <2>1. i \in 1..Len(access[c]) /\ i < n
    BY <1>1, CallTypes
  <2>2. access[c][i].key < access[c][n].key
    BY <1>1, <2>1, CallTypes DEF Sorted
  <2> QED  BY <1>1, <2>1, <2>2, CallTypes
<1>4. Holds(c, Held(c).key, Held(c).mode)
  BY <1>1, <1>2 DEF Held, Holds, Resource
<1>5. \A mode : Holds(c, Held(c).key, mode) => mode = Held(c).mode
  BY <1>1, <1>3 DEF Held, Holds
<1>6. ASSUME NEW d \in Calls, NEW k, NEW mode
      PROVE  Holds(d, k, mode)' <=> Holds(d, k, mode) /\ ~(d = c /\ k = Held(c).key)
  <2>1. CASE d # c
    BY <2>1 DEF LocksTypeOK, Holds
  <2>2. CASE d = c
    <3>1. \A i : i \in 1..acquired'[c] <=> i \in 1..n /\ i # n
      BY <1>1
    <3>2. Holds(c, k, mode)' <=> \E i \in 1..n : i # n /\ access[c][i] = Resource(k, mode)
      BY <3>1 DEF Holds, Resource
    <3>3. \A i \in 1..n : access[c][i] = Resource(k, mode) => (i # n <=> k # Held(c).key)
      BY <1>1, <1>3 DEF Held, Resource
    <3> QED  BY <2>2, <3>2, <3>3 DEF Holds, Resource
  <2> QED  BY <2>1, <2>2
<1> QED  BY <1>2, <1>4, <1>5, <1>6

LEMMA Counting ==
    ASSUME NEW S \in SUBSET Calls, NEW c \in Calls
    PROVE  /\ IsFiniteSet(S) /\ Cardinality(S) \in Nat
           /\ Cardinality(S) = 0 <=> S = {}
           /\ Cardinality(S \cup {c}) = IF c \in S THEN Cardinality(S) ELSE Cardinality(S) + 1
           /\ Cardinality(S \ {c}) = IF c \in S THEN Cardinality(S) - 1 ELSE Cardinality(S)
           /\ c \in S => Cardinality(S) >= 1
<1>1. IsFiniteSet(S)
  BY CallsAssumption, FS_Subset
<1>2. /\ Cardinality(S) \in Nat
      /\ Cardinality(S) = 0 <=> S = {}
      /\ Cardinality(S \cup {c}) = IF c \in S THEN Cardinality(S) ELSE Cardinality(S) + 1
      /\ Cardinality(S \ {c}) = IF c \in S THEN Cardinality(S) - 1 ELSE Cardinality(S)
  BY <1>1, FS_CardinalityType, FS_EmptySet, FS_AddElement, FS_RemoveElement
<1> QED  BY <1>1, <1>2

\* What a step of c does to the others: the conditions of the locks ks wake them.
Wakes(c, ks) ==
    /\ access' = access
    /\ \A d \in Calls \ {c} :
          /\ acquired'[d] = acquired[d]
          /\ at'[d] = IF at[d] = "asleep" /\ Wanted(d).key \in ks THEN "woken" ELSE at[d]

LEMMA OthersWait ==
    ASSUME LocksTypeOK, NEW c \in Calls, NEW ks, Wakes(c, ks)
    PROVE  /\ \A d \in Calls \ {c} : /\ Wanted(d)' = Wanted(d) /\ Wants(d)' = Wants(d)
                                    /\ \A k : WaitsToWrite(d, k)' <=> WaitsToWrite(d, k)
           /\ \A k : Waiting(k)' = IF WaitsToWrite(c, k)' THEN Waiting(k) \cup {c}
                                   ELSE Waiting(k) \ {c}
<1>1. \A d \in Calls \ {c} : Wanted(d)' = Wanted(d) /\ Wants(d)' = Wants(d)
  BY DEF Wakes, Wanted, Wants
<1>2. ASSUME NEW d \in Calls \ {c}, NEW k
      PROVE  WaitsToWrite(d, k)' <=> WaitsToWrite(d, k)
  <2>1. at'[d] \in {"asleep", "woken"} <=> at[d] \in {"asleep", "woken"}
    BY DEF Wakes
  <2> QED  BY <1>1, <2>1 DEF WaitsToWrite
<1>3. ASSUME NEW k
      PROVE  Waiting(k)' = IF WaitsToWrite(c, k)' THEN Waiting(k) \cup {c} ELSE Waiting(k) \ {c}
  BY <1>2, Zenon DEF Waiting
<1> QED  BY <1>1, <1>2, <1>3

\* Who could not have the lock cannot have it now.
StaysClosed(k) == /\ ~CanRead(k) => ~CanRead(k)'
                  /\ ~CanWrite(k) => ~CanWrite(k)'

\* The others keep their invariant if a lock that was closed is still closed, or wakes
\* those who wait for it.
LEMMA OthersKeep ==
    ASSUME LocksTypeOK, NEW c \in Calls, NEW ks, Wakes(c, ks),
           \A d \in Calls : CallInv(d),
           \A k \in Keys \ ks : StaysClosed(k)
    PROVE  \A d \in Calls \ {c} : CallInv(d)'
<1> SUFFICES ASSUME NEW d \in Calls \ {c}  PROVE CallInv(d)'
  OBVIOUS
<1>1. Wanted(d)' = Wanted(d) /\ Wants(d)' = Wants(d)
  BY OthersWait
<1>2. Sorted(access[d])'
  BY DEF CallInv, Wakes, Sorted
<1>3. at'[d] \in {"asleep", "woken"} => at[d] \in {"asleep", "woken"}
  BY DEF Wakes
<1>4. at'[d] \in {"idle", "done"} => acquired'[d] = 0
  BY DEF CallInv, Wakes
<1>5. ASSUME at'[d] = "asleep"
      PROVE  IF Wanted(d)'.mode = "read" THEN ~CanRead(Wanted(d).key)'
             ELSE ~CanWrite(Wanted(d).key)'
  <2>1. at[d] = "asleep" /\ Wanted(d).key \notin ks
    BY <1>5 DEF Wakes
  <2>2. IF Wanted(d).mode = "read" THEN ~CanRead(Wanted(d).key) ELSE ~CanWrite(Wanted(d).key)
    BY <2>1 DEF CallInv, SleepsForAReason
  <2>3. Wanted(d).key \in Keys
    BY <2>1, WantedIsNew DEF CallInv
  <2>4. Wanted(d).key' = Wanted(d).key
    BY <1>1
  <2> QED  BY <1>1, <2>1, <2>2, <2>3, <2>4 DEF StaysClosed, CanRead, CanWrite
<1> QED  BY <1>1, <1>2, <1>3, <1>4, <1>5 DEF CallInv, SleepsForAReason

LEMMA LockTypes ==
    ASSUME LocksTypeOK, NEW k \in Keys
    PROVE  /\ lock[k] \in [readers : Nat, writer : BOOLEAN, waiting : Nat]
           /\ lock[k].readers \in Nat /\ lock[k].writer \in BOOLEAN /\ lock[k].waiting \in Nat
BY DEF LocksTypeOK

LockType == [readers : Nat, writer : BOOLEAN, waiting : Nat]

LEMMA LockFields ==
    ASSUME NEW r \in LockType, NEW n \in Nat, NEW b \in BOOLEAN
    PROVE  /\ [r EXCEPT !.readers = n] \in LockType
           /\ [r EXCEPT !.readers = n].readers = n
           /\ [r EXCEPT !.readers = n].writer = r.writer
           /\ [r EXCEPT !.readers = n].waiting = r.waiting
           /\ [r EXCEPT !.writer = b] \in LockType
           /\ [r EXCEPT !.writer = b].readers = r.readers
           /\ [r EXCEPT !.writer = b].writer = b
           /\ [r EXCEPT !.writer = b].waiting = r.waiting
           /\ [r EXCEPT !.waiting = n] \in LockType
           /\ [r EXCEPT !.waiting = n].readers = r.readers
           /\ [r EXCEPT !.waiting = n].writer = r.writer
           /\ [r EXCEPT !.waiting = n].waiting = n
BY DEF LockType

LEMMA NotifiedWakes ==
    ASSUME LocksTypeOK, NEW c \in Calls, NEW ks, NEW status \in Places,
           at' = Notified(c, status, ks), access' = access,
           \A d \in Calls \ {c} : acquired'[d] = acquired[d]
    PROVE  Wakes(c, ks) /\ at'[c] = status /\ at' \in [Calls -> Places]
<1>1. \A d \in Calls : at[d] \in Places
  BY CallTypes
<1>2. at' \in [Calls -> Places]
  BY <1>1 DEF Notified, Places
<1> QED  BY <1>2 DEF Notified, Wakes

LEMMA MovesWakes ==
    ASSUME LocksTypeOK, NEW c \in Calls, NEW status \in Places,
           at' = [at EXCEPT ![c] = status], access' = access,
           \A d \in Calls \ {c} : acquired'[d] = acquired[d]
    PROVE  Wakes(c, {}) /\ at'[c] = status /\ at' \in [Calls -> Places]
BY DEF Wakes, LocksTypeOK

-----------------------------------------------------------------------------
(* Every step keeps the invariant *)

\* A step to a place where a call does not wait, with the locks it has.
LEMMA MovesKeep ==
    ASSUME LockInv, NEW c \in Calls, at[c] \notin {"asleep", "woken"},
           NEW status \in {"awake", "leaving", "done"},
           status = "done" => acquired[c] = 0,
           at' = [at EXCEPT ![c] = status], UNCHANGED <<access, lock, acquired>>
    PROVE  LockInv'
<1> USE DEF LockInv
<1>1. Wakes(c, {}) /\ at'[c] = status /\ at' \in [Calls -> Places]
  BY MovesWakes DEF Places
<1>2. LocksTypeOK'
  BY <1>1 DEF LocksTypeOK
<1>3. \A d, k, mode : Holds(d, k, mode)' <=> Holds(d, k, mode)
  BY DEF Holds
<1>4. LocksExclude'
  BY <1>3 DEF LocksExclude
<1>5. ASSUME NEW k \in Keys  PROVE LockAgrees(k)'
  <2>1. Waiting(k)' = Waiting(k)
    BY <1>1, OthersWait DEF WaitsToWrite, Waiting
  <2>2. Readers(k)' = Readers(k) /\ Writers(k)' = Writers(k)
    BY <1>3 DEF Readers, Writers
  <2> QED  BY <2>1, <2>2 DEF LockAgrees
<1>6. CallInv(c)'
  BY <1>1 DEF CallInv, SleepsForAReason, Sorted
<1>7. \A d \in Calls \ {c} : CallInv(d)'
  BY <1>1, OthersKeep DEF StaysClosed, CanRead, CanWrite
<1> QED  BY <1>2, <1>4, <1>5, <1>6, <1>7

LEMMA WaitReadKeeps ==
    ASSUME LockInv, NEW c \in Calls, WaitRead(c)
    PROVE  LockInv'
<1> USE DEF LockInv
<1>0. /\ Awake(c) /\ Wanted(c).mode = "read" /\ ~CanRead(Wanted(c).key)
      /\ at' = [at EXCEPT ![c] = "asleep"] /\ UNCHANGED <<access, lock, acquired>>
  BY DEF WaitRead
<1>1. Wakes(c, {}) /\ at'[c] = "asleep" /\ at' \in [Calls -> Places]
  BY <1>0, MovesWakes DEF Places
<1>2. LocksTypeOK'
  BY <1>0, <1>1 DEF LocksTypeOK
<1>3. \A d, k, mode : Holds(d, k, mode)' <=> Holds(d, k, mode)
  BY <1>0 DEF Holds
<1>4. LocksExclude'
  BY <1>3 DEF LocksExclude
<1>5. Wanted(c)' = Wanted(c) /\ Wants(c)' /\ Wants(c)
  BY <1>0 DEF Wanted, Wants, Awake
<1>6. ASSUME NEW k \in Keys  PROVE LockAgrees(k)'
  <2>1. ~WaitsToWrite(c, k) /\ ~WaitsToWrite(c, k)'
    BY <1>0, <1>5 DEF WaitsToWrite
  <2>2. Waiting(k)' = Waiting(k)
    BY <1>1, <2>1, OthersWait DEF Waiting
  <2>3. Readers(k)' = Readers(k) /\ Writers(k)' = Writers(k)
    BY <1>3 DEF Readers, Writers
  <2> QED  BY <1>0, <2>2, <2>3 DEF LockAgrees
<1>7. CallInv(c)'
  BY <1>0, <1>1, <1>5 DEF CallInv, SleepsForAReason, Sorted, CanRead
<1>8. \A d \in Calls \ {c} : CallInv(d)'
  BY <1>0, <1>1, OthersKeep DEF StaysClosed, CanRead, CanWrite
<1> QED  BY <1>2, <1>4, <1>6, <1>7, <1>8

LEMMA WaitWriteKeeps ==
    ASSUME LockInv, NEW c \in Calls, WaitWrite(c)
    PROVE  LockInv'
<1> USE DEF LockInv
<1> DEFINE w == Wanted(c).key
<1>0. /\ at[c] \in {"awake", "woken"} /\ Wants(c)
      /\ Wanted(c).mode = "write" /\ ~CanWrite(w)
      /\ lock' = [lock EXCEPT ![w].waiting = IF at[c] = "awake" THEN @ + 1 ELSE @]
      /\ at' = [at EXCEPT ![c] = "asleep"] /\ UNCHANGED <<access, acquired>>
  BY DEF WaitWrite, Awake
<1>1. Wakes(c, {}) /\ at'[c] = "asleep" /\ at' \in [Calls -> Places]
  BY <1>0, MovesWakes DEF Places
<1>2. w \in Keys /\ Wanted(c) = Resource(w, "write")
  BY <1>0, WantedIsNew DEF CallInv
<1>3. LocksTypeOK'
  <2> DEFINE n == IF at[c] = "awake" THEN lock[w].waiting + 1 ELSE lock[w].waiting
  <2>1. n \in Nat
    BY <1>2, LockTypes
  <2>2. [lock[w] EXCEPT !.waiting = n] \in [readers : Nat, writer : BOOLEAN, waiting : Nat]
    <3> HIDE DEF n
    <3> QED  BY <1>2, <2>1, LockTypes
  <2>3. lock' = [lock EXCEPT ![w] = [lock[w] EXCEPT !.waiting = n]]
    BY <1>0, <1>2 DEF LocksTypeOK
  <2>4. lock' \in [Keys -> [readers : Nat, writer : BOOLEAN, waiting : Nat]]
    <3> HIDE DEF n
    <3> QED  BY <1>2, <2>2, <2>3 DEF LocksTypeOK
  <2> QED  BY <1>0, <1>1, <2>4 DEF LocksTypeOK
<1>4. \A d, k, mode : Holds(d, k, mode)' <=> Holds(d, k, mode)
  BY <1>0 DEF Holds
<1>5. LocksExclude'
  BY <1>4 DEF LocksExclude
<1>6. Wanted(c)' = Wanted(c) /\ Wants(c)'
  BY <1>0 DEF Wanted, Wants
<1>7. \A k \in Keys : /\ lock'[k].readers = lock[k].readers /\ lock'[k].writer = lock[k].writer
                      /\ lock'[k].waiting = IF k = w /\ at[c] = "awake" THEN lock[k].waiting + 1
                                            ELSE lock[k].waiting
  BY <1>0, <1>2 DEF LocksTypeOK
<1>8. ASSUME NEW k \in Keys  PROVE LockAgrees(k)'
  <2>1. WaitsToWrite(c, k)' <=> k = w
    BY <1>1, <1>2, <1>6 DEF WaitsToWrite, Resource
  <2>2. WaitsToWrite(c, k) <=> k = w /\ at[c] = "woken"
    BY <1>0, <1>2 DEF WaitsToWrite, Resource
  <2>3. Waiting(k)' = IF k = w THEN Waiting(k) \cup {c} ELSE Waiting(k)
    BY <1>1, <2>1, <2>2, OthersWait DEF Waiting
  <2>4. Cardinality(Waiting(k)') = IF k = w /\ at[c] = "awake" THEN Cardinality(Waiting(k)) + 1
                                   ELSE Cardinality(Waiting(k))
    <3>1. Waiting(k) \in SUBSET Calls /\ (c \in Waiting(k) <=> k = w /\ at[c] = "woken")
      BY <2>2 DEF Waiting
    <3>2. Cardinality(Waiting(k) \cup {c}) = IF c \in Waiting(k) THEN Cardinality(Waiting(k))
                                             ELSE Cardinality(Waiting(k)) + 1
      BY <3>1, Counting
    <3>3. at[c] = "awake" <=> at[c] # "woken"
      BY <1>0
    <3> QED  BY <2>3, <3>1, <3>2, <3>3
  <2>5. Readers(k)' = Readers(k) /\ Writers(k)' = Writers(k)
    BY <1>4 DEF Readers, Writers
  <2> QED  BY <1>7, <2>4, <2>5 DEF LockAgrees
<1>9. CallInv(c)'
  BY <1>0, <1>1, <1>2, <1>6, <1>7 DEF CallInv, SleepsForAReason, Sorted, CanWrite
<1>10. \A k \in Keys : StaysClosed(k)
  BY <1>7, LockTypes DEF StaysClosed, CanRead, CanWrite
<1>11. \A d \in Calls \ {c} : CallInv(d)'
  BY <1>1, <1>10, OthersKeep
<1> QED  BY <1>3, <1>5, <1>8, <1>9, <1>11

LEMMA AcquireReadKeeps ==
    ASSUME LockInv, NEW c \in Calls, AcquireRead(c)
    PROVE  LockInv'
<1> USE DEF LockInv
<1> DEFINE w == Wanted(c).key
<1>0. /\ at[c] \in {"awake", "woken"} /\ Wants(c)
      /\ Wanted(c).mode = "read" /\ CanRead(w)
      /\ lock' = [lock EXCEPT ![w].readers = @ + 1]
      /\ acquired' = [acquired EXCEPT ![c] = @ + 1]
      /\ at' = [at EXCEPT ![c] = "awake"] /\ UNCHANGED access
  BY DEF AcquireRead, Awake
<1>1. Wakes(c, {}) /\ at'[c] = "awake" /\ at' \in [Calls -> Places]
  BY <1>0, MovesWakes DEF Places, LocksTypeOK
<1>2. /\ w \in Keys /\ Wanted(c) = Resource(w, "read")
      /\ \A mode : ~Holds(c, w, mode)
  BY <1>0, WantedIsNew DEF CallInv
<1>3. \A d \in Calls : \A k, mode :
        Holds(d, k, mode)' <=> Holds(d, k, mode) \/ (d = c /\ k = w /\ mode = "read")
  <2>1. \A d \in Calls : \A k, mode :
          Holds(d, k, mode)' <=> Holds(d, k, mode) \/ (d = c /\ Wanted(c) = Resource(k, mode))
    BY <1>0, Raises
  <2>2. \A k, mode : Wanted(c) = Resource(k, mode) <=> k = w /\ mode = "read"
    BY <1>2 DEF Resource
  <2> QED  BY <2>1, <2>2
<1>4. \A k \in Keys : /\ lock'[k].readers = IF k = w THEN lock[k].readers + 1 ELSE lock[k].readers
                      /\ lock'[k].writer = lock[k].writer /\ lock'[k].waiting = lock[k].waiting
                      /\ lock'[k] \in LockType
  <2> DEFINE n == lock[w].readers + 1
  <2>1. \A k \in Keys : lock'[k] = IF k = w THEN [lock[k] EXCEPT !.readers = n] ELSE lock[k]
    BY <1>0, <1>2 DEF LocksTypeOK
  <2>2. n \in Nat
    BY <1>2, LockTypes
  <2> HIDE DEF n
  <2>3. \A k \in Keys : lock[k] \in LockType
    BY LockTypes DEF LockType
  <2>4. lock'[w] = [lock[w] EXCEPT !.readers = n] /\ \A k \in Keys \ {w} : lock'[k] = lock[k]
    BY <1>2, <2>1
  <2>5. /\ lock'[w].readers = n /\ lock'[w].writer = lock[w].writer
        /\ lock'[w].waiting = lock[w].waiting /\ lock'[w] \in LockType
    <3> DEFINE r == lock[w]
               r1 == [r EXCEPT !.readers = n]
    <3>1. r \in LockType
      BY <1>2, <2>3
    <3> HIDE DEF r
    <3>2. r1 \in LockType /\ r1.readers = n /\ r1.writer = r.writer /\ r1.waiting = r.waiting
      BY <2>2, <3>1 DEF LockType
    <3>3. lock'[w] = r1
      BY <2>4 DEF r
    <3> QED  BY <3>2, <3>3, Zenon DEF r
  <2> QED  BY <2>3, <2>4, <2>5 DEF n
<1>5. LocksTypeOK'
  <2>1. lock' \in [Keys -> [readers : Nat, writer : BOOLEAN, waiting : Nat]]
    BY <1>0, <1>4 DEF LocksTypeOK, LockType
  <2>2. acquired' \in [Calls -> Nat] /\ \A d \in Calls : acquired'[d] <= Len(access[d])
    BY <1>0, CallTypes DEF LocksTypeOK, Wants
  <2> QED  BY <1>0, <1>1, <2>1, <2>2 DEF LocksTypeOK
<1>6. ~lock[w].writer /\ \A d \in Calls : ~Holds(d, w, "write")
  BY <1>0, <1>2 DEF CanRead, LockAgrees, Writers
<1>7. LocksExclude'
  BY <1>3, <1>6 DEF LocksExclude
<1>8. ASSUME NEW k \in Keys  PROVE LockAgrees(k)'
  <2>1. Writers(k)' = Writers(k)
    BY <1>3 DEF Writers
  <2>2. Readers(k)' = IF k = w THEN Readers(k) \cup {c} ELSE Readers(k)
    BY <1>3 DEF Readers
  <2>3. Readers(k) \in SUBSET Calls /\ (k = w => c \notin Readers(k))
    BY <1>2 DEF Readers
  <2>4. Cardinality(Readers(k)') = IF k = w THEN Cardinality(Readers(k)) + 1
                                   ELSE Cardinality(Readers(k))
    BY <2>2, <2>3, Counting
  <2>5. ~WaitsToWrite(c, k)' /\ ~WaitsToWrite(c, k)
    BY <1>0, <1>1 DEF WaitsToWrite
  <2>6. Waiting(k)' = Waiting(k)
    BY <1>1, <2>5, OthersWait DEF Waiting
  <2> QED  BY <1>4, <2>1, <2>4, <2>6 DEF LockAgrees
<1>9. CallInv(c)'
  BY <1>0, <1>1 DEF CallInv, SleepsForAReason, Sorted
<1>10. \A k \in Keys : StaysClosed(k)
  BY <1>4, LockTypes DEF StaysClosed, CanRead, CanWrite
<1>11. \A d \in Calls \ {c} : CallInv(d)'
  BY <1>1, <1>10, OthersKeep
<1> QED  BY <1>5, <1>7, <1>8, <1>9, <1>11

LEMMA AcquireWriteKeeps ==
    ASSUME LockInv, NEW c \in Calls, AcquireWrite(c)
    PROVE  LockInv'
<1> USE DEF LockInv
<1> DEFINE w == Wanted(c).key
<1>0. /\ at[c] \in {"awake", "woken"} /\ Wants(c)
      /\ Wanted(c).mode = "write" /\ CanWrite(w)
      /\ lock' = [lock EXCEPT ![w].writer = TRUE,
                              ![w].waiting = IF at[c] = "woken" THEN @ - 1 ELSE @]
      /\ acquired' = [acquired EXCEPT ![c] = @ + 1]
      /\ at' = Notified(c, "awake", {w}) /\ UNCHANGED access
  BY DEF AcquireWrite, Awake
<1>1. Wakes(c, {w}) /\ at'[c] = "awake" /\ at' \in [Calls -> Places]
  BY <1>0, NotifiedWakes DEF Places, LocksTypeOK
<1>2. /\ w \in Keys /\ Wanted(c) = Resource(w, "write")
      /\ \A mode : ~Holds(c, w, mode)
  BY <1>0, WantedIsNew DEF CallInv
<1>3. \A d \in Calls : \A k, mode :
        Holds(d, k, mode)' <=> Holds(d, k, mode) \/ (d = c /\ k = w /\ mode = "write")
  <2>1. \A d \in Calls : \A k, mode :
          Holds(d, k, mode)' <=> Holds(d, k, mode) \/ (d = c /\ Wanted(c) = Resource(k, mode))
    BY <1>0, Raises
  <2>2. \A k, mode : Wanted(c) = Resource(k, mode) <=> k = w /\ mode = "write"
    BY <1>2 DEF Resource
  <2> QED  BY <2>1, <2>2
<1>4. \A k \in Keys : c \in Waiting(k) <=> k = w /\ at[c] = "woken"
  BY <1>0, <1>2 DEF Waiting, WaitsToWrite, Resource
<1>5. at[c] = "woken" => lock[w].waiting - 1 \in Nat
  <2>1. Waiting(w) \in SUBSET Calls
    BY DEF Waiting
  <2>2. lock[w].waiting = Cardinality(Waiting(w))
    BY <1>2 DEF LockAgrees
  <2>3. at[c] = "woken" => Cardinality(Waiting(w)) \in Nat /\ Cardinality(Waiting(w)) >= 1
    BY <1>2, <1>4, <2>1, Counting
  <2> QED  BY <2>2, <2>3
<1>6. \A k \in Keys :
        /\ lock'[k].readers = lock[k].readers
        /\ lock'[k].writer = (lock[k].writer \/ k = w)
        /\ lock'[k].waiting = IF k = w /\ at[c] = "woken" THEN lock[k].waiting - 1
                              ELSE lock[k].waiting
        /\ lock'[k] \in LockType
  <2> DEFINE n == IF at[c] = "woken" THEN lock[w].waiting - 1 ELSE lock[w].waiting
             r == [lock[w] EXCEPT !.writer = TRUE]
  <2>1. \A k \in Keys \ {w} : lock'[k] = lock[k]
    BY <1>0, <1>2 DEF LocksTypeOK
  <2>2. \A k \in Keys : lock[k] \in LockType
    BY LockTypes DEF LockType
  <2>3. r \in LockType /\ r.readers = lock[w].readers /\ r.writer = TRUE /\ r.waiting = lock[w].waiting
    BY <1>2, <2>2, LockFields
  <2>4. lock'[w] = [r EXCEPT !.waiting = n]
    BY <1>0, <1>2, <2>3 DEF LocksTypeOK
  <2>5. n \in Nat
    BY <1>2, <1>5, LockTypes
  <2>7. r \in LockType
    BY <2>3
  <2> HIDE DEF n, r
  <2>6. /\ lock'[w].readers = r.readers /\ lock'[w].writer = r.writer
        /\ lock'[w].waiting = n /\ lock'[w] \in LockType
    <3> DEFINE r1 == [r EXCEPT !.waiting = n]
    <3>1. r1 \in LockType /\ r1.readers = r.readers /\ r1.writer = r.writer /\ r1.waiting = n
      BY <2>5, <2>7 DEF LockType
    <3> QED  BY <2>4, <3>1, Zenon
  <2>8. \A k \in Keys \ {w} : lock'[k].writer = (lock[k].writer \/ k = w)
    BY <2>1, <2>2 DEF LockType
  <2>9. lock'[w].writer = (lock[w].writer \/ w = w)
    BY <2>3, <2>6
  <2> QED  BY <2>1, <2>2, <2>3, <2>6, <2>8, <2>9 DEF n
<1>7. LocksTypeOK'
  <2>1. lock' \in [Keys -> [readers : Nat, writer : BOOLEAN, waiting : Nat]]
    BY <1>0, <1>6 DEF LocksTypeOK, LockType
  <2>2. acquired' \in [Calls -> Nat] /\ \A d \in Calls : acquired'[d] <= Len(access[d])
    BY <1>0, CallTypes DEF LocksTypeOK, Wants
  <2> QED  BY <1>0, <1>1, <2>1, <2>2 DEF LocksTypeOK
<1>8. \A d \in Calls : ~Holds(d, w, "write") /\ ~Holds(d, w, "read")
  <2>1. Readers(w) \in SUBSET Calls /\ Cardinality(Readers(w)) = 0 /\ Writers(w) = {}
    BY <1>0, <1>2 DEF CanWrite, LockAgrees, Readers
  <2>2. Readers(w) = {}
    BY <2>1, Counting
  <2> QED  BY <2>1, <2>2 DEF Readers, Writers
<1>9. LocksExclude'
  BY <1>3, <1>8 DEF LocksExclude
<1>10. ASSUME NEW k \in Keys  PROVE LockAgrees(k)'
  <2>1. Readers(k)' = Readers(k)
    BY <1>3 DEF Readers
  <2>2. Writers(k)' = IF k = w THEN Writers(k) \cup {c} ELSE Writers(k)
    BY <1>3 DEF Writers
  <2>3. ~WaitsToWrite(c, k)'
    BY <1>1 DEF WaitsToWrite
  <2>4. Waiting(k)' = Waiting(k) \ {c} /\ Waiting(k) \in SUBSET Calls
    BY <1>1, <2>3, OthersWait DEF Waiting
  <2>5. Cardinality(Waiting(k)') = IF k = w /\ at[c] = "woken" THEN Cardinality(Waiting(k)) - 1
                                   ELSE Cardinality(Waiting(k))
    <3>1. Cardinality(Waiting(k) \ {c}) = IF c \in Waiting(k) THEN Cardinality(Waiting(k)) - 1
                                          ELSE Cardinality(Waiting(k))
      BY <2>4, Counting
    <3> QED  BY <1>4, <2>4, <3>1
  <2>6. lock'[k].writer <=> Writers(k)' # {}
    <3>1. lock[k].writer <=> Writers(k) # {}
      BY DEF LockAgrees
    <3>2. CASE k = w
      <4>1. Writers(k)' # {}
        BY <2>2, <3>2
      <4> QED  BY <1>6, <3>2, <4>1
    <3>3. CASE k # w
      <4>1. Writers(k)' = Writers(k)
        BY <2>2, <3>3
      <4>2. lock'[k].writer = lock[k].writer
        BY <1>6, <3>3, LockTypes
      <4> QED  BY <3>1, <4>1, <4>2
    <3> QED  BY <3>2, <3>3
  <2> QED  BY <1>6, <2>1, <2>5, <2>6 DEF LockAgrees
<1>11. CallInv(c)'
  BY <1>0, <1>1 DEF CallInv, SleepsForAReason, Sorted
<1>12. \A k \in Keys \ {w} : StaysClosed(k)
  BY <1>6 DEF StaysClosed, CanRead, CanWrite
<1>13. \A d \in Calls \ {c} : CallInv(d)'
  <2> DEFINE ks == {w}
  <2>1. Wakes(c, ks) /\ \A k \in Keys \ ks : StaysClosed(k)
    BY <1>1, <1>12
  <2>2. LocksTypeOK /\ \A d \in Calls : CallInv(d)
    OBVIOUS
  <2> HIDE DEF ks, LockInv, w
  <2> QED  BY <2>1, <2>2, OthersKeep
<1> QED  BY <1>7, <1>9, <1>10, <1>11, <1>13

LEMMA CancelKeeps ==
    ASSUME LockInv, NEW c \in Calls, Cancel(c)
    PROVE  LockInv'
<1> USE DEF LockInv
<1>0. /\ at[c] \in {"awake", "asleep", "woken"}
      /\ lock' = [k \in Keys |-> [lock[k] EXCEPT !.waiting = WaitingAfter(c, k)]]
      /\ at' = Notified(c, "leaving", Behind(c)) /\ UNCHANGED <<access, acquired>>
  BY DEF Cancel
<1>1. Wakes(c, Behind(c)) /\ at'[c] = "leaving" /\ at' \in [Calls -> Places]
  BY <1>0, NotifiedWakes DEF Places
<1>2. \A d, k, mode : Holds(d, k, mode)' <=> Holds(d, k, mode)
  BY <1>0 DEF Holds
<1>3. LocksExclude'
  BY <1>2 DEF LocksExclude
<1>4. \A k \in Keys : WaitingAfter(c, k) \in Nat
                      /\ WaitingAfter(c, k) = Cardinality(Waiting(k) \ {c})
  <2> SUFFICES ASSUME NEW k \in Keys
               PROVE  WaitingAfter(c, k) \in Nat /\ WaitingAfter(c, k) = Cardinality(Waiting(k) \ {c})
    OBVIOUS
  <2>1. Waiting(k) \in SUBSET Calls /\ (c \in Waiting(k) <=> WaitsToWrite(c, k))
    BY DEF Waiting
  <2>2. /\ Cardinality(Waiting(k)) \in Nat
        /\ c \in Waiting(k) => Cardinality(Waiting(k)) >= 1
        /\ Cardinality(Waiting(k) \ {c}) = IF c \in Waiting(k) THEN Cardinality(Waiting(k)) - 1
                                           ELSE Cardinality(Waiting(k))
    BY <2>1, Counting
  <2>3. lock[k].waiting = Cardinality(Waiting(k))
    BY DEF LockAgrees
  <2> QED  BY <2>1, <2>2, <2>3 DEF WaitingAfter
<1>5. \A k \in Keys : /\ lock'[k].readers = lock[k].readers /\ lock'[k].writer = lock[k].writer
                      /\ lock'[k].waiting = WaitingAfter(c, k) /\ lock'[k] \in LockType
  <2> SUFFICES ASSUME NEW k \in Keys
               PROVE  /\ lock'[k].readers = lock[k].readers /\ lock'[k].writer = lock[k].writer
                      /\ lock'[k].waiting = WaitingAfter(c, k) /\ lock'[k] \in LockType
    OBVIOUS
  <2> DEFINE n == WaitingAfter(c, k)
  <2>1. lock'[k] = [lock[k] EXCEPT !.waiting = n] /\ n \in Nat /\ lock[k] \in LockType
    BY <1>0, <1>4, LockTypes DEF LockType
  <2> HIDE DEF n
  <2> QED  BY <2>1 DEF LockType, n
<1>6. LocksTypeOK'
  BY <1>0, <1>1, <1>5 DEF LocksTypeOK, LockType
<1>7. ASSUME NEW k \in Keys  PROVE LockAgrees(k)'
  <2>1. Readers(k)' = Readers(k) /\ Writers(k)' = Writers(k)
    BY <1>2 DEF Readers, Writers
  <2>2. ~WaitsToWrite(c, k)'
    BY <1>1 DEF WaitsToWrite
  <2>3. Waiting(k)' = Waiting(k) \ {c}
    BY <1>1, <2>2, OthersWait
  <2> QED  BY <1>4, <1>5, <2>1, <2>3 DEF LockAgrees
<1>8. CallInv(c)'
  BY <1>0, <1>1 DEF CallInv, SleepsForAReason, Sorted
<1>9. \A k \in Keys \ Behind(c) : StaysClosed(k)
  <2>1. \A k \in Keys \ Behind(c) : lock'[k].waiting = lock[k].waiting
    BY <1>5, LockTypes DEF Behind, WaitingAfter
  <2> QED  BY <1>5, <2>1 DEF StaysClosed, CanRead, CanWrite
<1>10. \A d \in Calls \ {c} : CallInv(d)'
  BY <1>1, <1>9, OthersKeep
<1> QED  BY <1>3, <1>6, <1>7, <1>8, <1>10

LEMMA ReleaseReadKeeps ==
    ASSUME LockInv, NEW c \in Calls, ReleaseRead(c)
    PROVE  LockInv'
<1> USE DEF LockInv
<1> DEFINE h == Held(c).key
           ks == IF lock[h].readers = 1 THEN {h} ELSE {}
<1>0. /\ at[c] = "leaving" /\ acquired[c] > 0 /\ Held(c).mode = "read"
      /\ lock' = [lock EXCEPT ![h].readers = @ - 1]
      /\ acquired' = [acquired EXCEPT ![c] = @ - 1]
      /\ at' = Notified(c, "leaving", ks) /\ UNCHANGED access
  BY DEF ReleaseRead
<1>1. Wakes(c, ks) /\ at'[c] = "leaving" /\ at' \in [Calls -> Places]
  <2> HIDE DEF ks
  <2> QED  BY <1>0, NotifiedWakes DEF Places, LocksTypeOK
<1>2. /\ h \in Keys /\ Holds(c, h, "read") /\ ~Holds(c, h, "write")
      /\ \A d \in Calls : \A k, mode :
            Holds(d, k, mode)' <=> Holds(d, k, mode) /\ ~(d = c /\ k = h)
  <2>1. Sorted(access[c])
    BY DEF CallInv
  <2>2. /\ h \in Keys /\ Holds(c, h, Held(c).mode)
        /\ \A mode : Holds(c, h, mode) => mode = Held(c).mode
    BY <1>0, <2>1, Lowers
  <2>3. \A d \in Calls : \A k, mode :
          Holds(d, k, mode)' <=> Holds(d, k, mode) /\ ~(d = c /\ k = h)
    BY <1>0, <2>1, Lowers
  <2> QED  BY <1>0, <2>2, <2>3
<1>3. lock[h].readers - 1 \in Nat
  <2>1. Readers(h) \in SUBSET Calls /\ c \in Readers(h) /\ lock[h].readers = Cardinality(Readers(h))
    BY <1>2 DEF Readers, LockAgrees
  <2>2. Cardinality(Readers(h)) \in Nat /\ Cardinality(Readers(h)) >= 1
    BY <2>1, Counting
  <2> QED  BY <2>1, <2>2
<1>4. \A k \in Keys : /\ lock'[k].readers = IF k = h THEN lock[k].readers - 1 ELSE lock[k].readers
                      /\ lock'[k].writer = lock[k].writer /\ lock'[k].waiting = lock[k].waiting
                      /\ lock'[k] \in LockType
  <2> DEFINE n == lock[h].readers - 1
             r == lock[h]
  <2>1. \A k \in Keys \ {h} : lock'[k] = lock[k] /\ lock[k] \in LockType
    BY <1>0, <1>2, LockTypes DEF LocksTypeOK, LockType
  <2>2. lock'[h] = [r EXCEPT !.readers = n] /\ n \in Nat /\ r \in LockType
    BY <1>0, <1>2, <1>3, LockTypes DEF LocksTypeOK, LockType
  <2> HIDE DEF n, r
  <2>3. /\ lock'[h].readers = n /\ lock'[h].writer = r.writer
        /\ lock'[h].waiting = r.waiting /\ lock'[h] \in LockType
    <3> DEFINE r1 == [r EXCEPT !.readers = n]
    <3>1. r1 \in LockType /\ r1.readers = n /\ r1.writer = r.writer /\ r1.waiting = r.waiting
      BY <2>2 DEF LockType
    <3> QED  BY <2>2, <3>1, Zenon
  <2> QED  BY <2>1, <2>3 DEF n, r
<1>5. LocksTypeOK'
  <2>1. lock' \in [Keys -> [readers : Nat, writer : BOOLEAN, waiting : Nat]]
    BY <1>0, <1>4 DEF LocksTypeOK, LockType
  <2>2. acquired' \in [Calls -> Nat] /\ \A d \in Calls : acquired'[d] <= Len(access[d])
    BY <1>0, CallTypes DEF LocksTypeOK
  <2> QED  BY <1>0, <1>1, <2>1, <2>2 DEF LocksTypeOK
<1>6. LocksExclude'
  BY <1>2 DEF LocksExclude
<1>7. ASSUME NEW k \in Keys  PROVE LockAgrees(k)'
  <2>1. Writers(k)' = Writers(k)
    BY <1>2 DEF Writers
  <2>2. Readers(k)' = IF k = h THEN Readers(k) \ {c} ELSE Readers(k)
    BY <1>2 DEF Readers
  <2>3. Readers(k) \in SUBSET Calls /\ (k = h => c \in Readers(k))
    BY <1>2 DEF Readers
  <2>4. Cardinality(Readers(k)') = IF k = h THEN Cardinality(Readers(k)) - 1
                                   ELSE Cardinality(Readers(k))
    BY <2>2, <2>3, Counting
  <2>5. ~WaitsToWrite(c, k)' /\ ~WaitsToWrite(c, k)
    BY <1>0, <1>1 DEF WaitsToWrite
  <2>6. Waiting(k)' = Waiting(k)
    BY <1>1, <2>5, OthersWait DEF Waiting
  <2> QED  BY <1>4, <2>1, <2>4, <2>6 DEF LockAgrees
<1>8. CallInv(c)'
  BY <1>0, <1>1 DEF CallInv, SleepsForAReason, Sorted
<1>9. \A k \in Keys \ ks : StaysClosed(k)
  BY <1>2, <1>3, <1>4, LockTypes DEF StaysClosed, CanRead, CanWrite
<1>10. \A d \in Calls \ {c} : CallInv(d)'
  <2> HIDE DEF ks
  <2> QED  BY <1>1, <1>9, OthersKeep
<1> QED  BY <1>5, <1>6, <1>7, <1>8, <1>10

LEMMA ReleaseWriteKeeps ==
    ASSUME LockInv, NEW c \in Calls, ReleaseWrite(c)
    PROVE  LockInv'
<1> USE DEF LockInv
<1> DEFINE h == Held(c).key
           ks == {h}
<1>0. /\ at[c] = "leaving" /\ acquired[c] > 0 /\ Held(c).mode = "write"
      /\ lock' = [lock EXCEPT ![h].writer = FALSE]
      /\ acquired' = [acquired EXCEPT ![c] = @ - 1]
      /\ at' = Notified(c, "leaving", ks) /\ UNCHANGED access
  BY DEF ReleaseWrite
<1>1. Wakes(c, ks) /\ at'[c] = "leaving" /\ at' \in [Calls -> Places]
  <2> HIDE DEF ks
  <2> QED  BY <1>0, NotifiedWakes DEF Places, LocksTypeOK
<1>2. /\ h \in Keys /\ Holds(c, h, "write") /\ ~Holds(c, h, "read")
      /\ \A d \in Calls : \A k, mode :
            Holds(d, k, mode)' <=> Holds(d, k, mode) /\ ~(d = c /\ k = h)
  <2>1. Sorted(access[c])
    BY DEF CallInv
  <2>2. /\ h \in Keys /\ Holds(c, h, Held(c).mode)
        /\ \A mode : Holds(c, h, mode) => mode = Held(c).mode
    BY <1>0, <2>1, Lowers
  <2>3. \A d \in Calls : \A k, mode :
          Holds(d, k, mode)' <=> Holds(d, k, mode) /\ ~(d = c /\ k = h)
    BY <1>0, <2>1, Lowers
  <2> QED  BY <1>0, <2>2, <2>3
<1>3. /\ \A k \in Keys \ {h} : lock'[k] = lock[k]
      /\ lock'[h].readers = lock[h].readers /\ lock'[h].writer = FALSE
      /\ lock'[h].waiting = lock[h].waiting
      /\ \A k \in Keys : lock'[k] \in LockType
  <2> DEFINE r == lock[h]
  <2>1. \A k \in Keys \ {h} : lock'[k] = lock[k] /\ lock[k] \in LockType
    BY <1>0, <1>2, LockTypes DEF LocksTypeOK, LockType
  <2>2. lock'[h] = [r EXCEPT !.writer = FALSE] /\ r \in LockType
    BY <1>0, <1>2, LockTypes DEF LocksTypeOK, LockType
  <2> HIDE DEF r
  <2>3. /\ lock'[h].readers = r.readers /\ lock'[h].writer = FALSE
        /\ lock'[h].waiting = r.waiting /\ lock'[h] \in LockType
    <3> DEFINE r1 == [r EXCEPT !.writer = FALSE]
    <3>1. r1 \in LockType /\ r1.readers = r.readers /\ r1.writer = FALSE /\ r1.waiting = r.waiting
      BY <2>2 DEF LockType
    <3> QED  BY <2>2, <3>1, Zenon
  <2> QED  BY <2>1, <2>3 DEF r
<1>4. LocksTypeOK'
  <2>1. lock' \in [Keys -> [readers : Nat, writer : BOOLEAN, waiting : Nat]]
    BY <1>0, <1>3 DEF LocksTypeOK, LockType
  <2>2. acquired' \in [Calls -> Nat] /\ \A d \in Calls : acquired'[d] <= Len(access[d])
    BY <1>0, CallTypes DEF LocksTypeOK
  <2> QED  BY <1>0, <1>1, <2>1, <2>2 DEF LocksTypeOK
<1>5. LocksExclude'
  BY <1>2 DEF LocksExclude
<1>6. ASSUME NEW k \in Keys  PROVE LockAgrees(k)'
  <2>1. Readers(k)' = Readers(k)
    BY <1>2 DEF Readers
  <2>2. Writers(k)' = IF k = h THEN {} ELSE Writers(k)
    <3>1. \A d \in Calls \ {c} : ~Holds(d, h, "write")
      BY <1>2 DEF LocksExclude
    <3> QED  BY <1>2, <3>1 DEF Writers
  <2>3. ~WaitsToWrite(c, k)' /\ ~WaitsToWrite(c, k)
    BY <1>0, <1>1 DEF WaitsToWrite
  <2>4. Waiting(k)' = Waiting(k)
    BY <1>1, <2>3, OthersWait DEF Waiting
  <2>5. lock'[k].writer <=> Writers(k)' # {}
    <3>1. CASE k = h
      BY <1>3, <2>2, <3>1
    <3>2. CASE k # h
      BY <1>3, <2>2, <3>2 DEF LockAgrees
    <3> QED  BY <3>1, <3>2
  <2> QED  BY <1>3, <2>1, <2>4, <2>5 DEF LockAgrees
<1>7. CallInv(c)'
  BY <1>0, <1>1 DEF CallInv, SleepsForAReason, Sorted
<1>8. \A k \in Keys \ ks : StaysClosed(k)
  BY <1>3 DEF StaysClosed, CanRead, CanWrite
<1>9. \A d \in Calls \ {c} : CallInv(d)'
  <2> HIDE DEF ks
  <2> QED  BY <1>1, <1>8, OthersKeep
<1> QED  BY <1>4, <1>5, <1>6, <1>7, <1>9

-----------------------------------------------------------------------------
(* The invariant and what it says *)

LEMMA InitKeeps == LocksInit => LockInv
<1> SUFFICES ASSUME LocksInit  PROVE LockInv
  OBVIOUS
<1>1. /\ lock = [k \in Keys |-> FreeLock] /\ at = [c \in Calls |-> "idle"]
      /\ acquired = [c \in Calls |-> 0]
      /\ access \in [Calls -> Seq(Access)] /\ \A c \in Calls : Sorted(access[c])
  BY DEF LocksInit, InitLocks
<1>2. LocksTypeOK
  BY <1>1 DEF LocksTypeOK, FreeLock, Places
<1>3. \A c \in Calls : \A k, mode : ~Holds(c, k, mode)
  BY <1>1 DEF Holds
<1>4. \A k \in Keys : Readers(k) = {} /\ Writers(k) = {} /\ Waiting(k) = {}
  BY <1>1, <1>3 DEF Readers, Writers, Waiting, WaitsToWrite
<1>5. \A k \in Keys : LockAgrees(k)
  BY <1>1, <1>4, FS_EmptySet DEF LockAgrees, FreeLock
<1>6. \A c \in Calls : CallInv(c)
  BY <1>1 DEF CallInv, SleepsForAReason
<1> QED  BY <1>2, <1>3, <1>5, <1>6 DEF LockInv, LocksExclude

LEMMA NextKeeps == LockInv /\ [LocksNext]_lockVars => LockInv'
<1> SUFFICES ASSUME LockInv, [LocksNext]_lockVars  PROVE LockInv'
  OBVIOUS
<1>1. ASSUME NEW c \in Calls, Ask(c)  PROVE LockInv'
  BY <1>1, MovesKeep DEF Ask
<1>2. ASSUME NEW c \in Calls, Refuse(c)  PROVE LockInv'
  <2>1. acquired[c] = 0
    BY <1>2 DEF Refuse, LockInv, CallInv
  <2> QED  BY <1>2, <2>1, MovesKeep DEF Refuse
<1>3. ASSUME NEW c \in Calls, Acquire(c)  PROVE LockInv'
  BY <1>3, AcquireReadKeeps, WaitReadKeeps, AcquireWriteKeeps, WaitWriteKeeps DEF Acquire
<1>4. ASSUME NEW c \in Calls, Finish(c)  PROVE LockInv'
  BY <1>4, MovesKeep DEF Finish, Working
<1>5. ASSUME NEW c \in Calls, Cancel(c)  PROVE LockInv'
  BY <1>5, CancelKeeps
<1>6. ASSUME NEW c \in Calls, Release(c)  PROVE LockInv'
  <2>1. CASE Leave(c)
    BY <2>1, MovesKeep DEF Leave
  <2> QED  BY <1>6, <2>1, ReleaseReadKeeps, ReleaseWriteKeeps DEF Release
<1>7. CASE UNCHANGED lockVars
  <2>1. \A d, k, mode : Holds(d, k, mode)' <=> Holds(d, k, mode)
    BY <1>7 DEF lockVars, Holds
  <2>2. \A k : Readers(k)' = Readers(k) /\ Writers(k)' = Writers(k) /\ Waiting(k)' = Waiting(k)
    BY <1>7, <2>1 DEF lockVars, Readers, Writers, Waiting, WaitsToWrite, Wanted
  <2>3. LocksTypeOK' /\ LocksExclude' /\ \A k \in Keys : LockAgrees(k)'
    BY <1>7, <2>1, <2>2 DEF lockVars, LockInv, LocksTypeOK, LocksExclude, LockAgrees
  <2>4. \A c \in Calls : CallInv(c)'
    BY <1>7 DEF lockVars, LockInv, CallInv, Sorted, SleepsForAReason, Wants, Wanted, CanRead, CanWrite
  <2> QED  BY <2>3, <2>4 DEF LockInv
<1> QED  BY <1>1, <1>2, <1>3, <1>4, <1>5, <1>6, <1>7 DEF LocksNext

\* In every state the counters and flags of the locks are what the calls hold and wait for.
THEOREM LocksAgree == LocksSpec => []LockInv
<1>1. LocksInit => LockInv
  BY InitKeeps
<1>2. LockInv /\ [LocksNext]_lockVars => LockInv'
  BY NextKeeps
<1> QED  BY <1>1, <1>2, PTL DEF LocksSpec

\* The variables keep their types; in particular no counter of readers or of waiting
\* writers falls below zero, whatever calls are cancelled (resource_locks.py release_read).
THEOREM LocksTypeCorrect == LocksSpec => []LocksTypeOK
<1>1. LockInv => LocksTypeOK
  BY DEF LockInv
<1> QED  BY <1>1, LocksAgree, PTL

\* No two calls have a lock that one of them has to write.
THEOREM LocksAreExclusive == LocksSpec => []LocksExclude
<1>1. LockInv => LocksExclude
  BY DEF LockInv
<1> QED  BY <1>1, LocksAgree, PTL

\* Whoever sleeps and wants the greatest key of all who sleep waits for a call that is
\* not asleep: one that holds a lock wants a greater key than the one it holds.
LEMMA SomeoneGoesOn == LockInv => NoCallIsStuck
<1> SUFFICES ASSUME LockInv, NEW s \in Calls, at[s] = "asleep",
                    \A c \in Calls : at[c] \notin {"awake", "woken", "leaving"}
             PROVE  FALSE
  BY Zenon DEF NoCallIsStuck
<1> USE DEF LockInv
<1> DEFINE Sleepers == {c \in Calls : at[c] = "asleep"}
           Sought == {Wanted(c).key : c \in Sleepers}
<1>1. \A c \in Sleepers : /\ Wants(c) /\ Wanted(c).key \in Keys /\ Wanted(c).key \in Nat
                         /\ Wanted(c).mode \in Modes
                         /\ Wanted(c) = Resource(Wanted(c).key, Wanted(c).mode)
                         /\ \A k, mode : Holds(c, k, mode) => k \in Nat /\ k < Wanted(c).key
  BY WantedIsNew DEF CallInv
<1>2. Sought \subseteq Keys /\ Sought # {}
  BY <1>1
<1>3. PICK m \in Sought : \A x \in Sought : x <= m
  <2>1. IsFiniteSet(Sought) /\ Sought \subseteq Nat
    BY <1>2, KeysAssumption, FS_Subset
  <2> HIDE DEF Sought
  <2> QED  BY <1>2, <2>1, GreatestKey
<1>4. m \in Keys /\ m \in Nat
  BY <1>2, KeysAssumption
<1>5. \A c \in Calls : c \in Sleepers \/ acquired[c] = 0
  <2> SUFFICES ASSUME NEW c \in Calls, at[c] # "asleep"  PROVE acquired[c] = 0
    OBVIOUS
  <2>1. at[c] \in {"idle", "done"}
    BY CallTypes DEF Places
  <2> QED  BY <2>1 DEF CallInv
<1>6. \A c \in Calls : \A mode : ~Holds(c, m, mode)
  <2> SUFFICES ASSUME NEW c \in Calls, NEW mode, Holds(c, m, mode)  PROVE FALSE
    OBVIOUS
  <2>1. c \in Sleepers
    BY <1>5 DEF Holds
  <2>2. m < Wanted(c).key /\ Wanted(c).key \in Sought /\ Wanted(c).key \in Nat
    BY <1>1, <2>1
  <2> QED  BY <1>3, <1>4, <2>2
<1>7. CanWrite(m)
  <2>1. Readers(m) = {} /\ Writers(m) = {}
    BY <1>6 DEF Readers, Writers
  <2> QED  BY <1>4, <2>1, FS_EmptySet DEF LockAgrees, CanWrite
<1>8. \A c \in Sleepers : Wanted(c).key = m => Wanted(c).mode = "read"
  BY <1>1, <1>7 DEF CallInv, SleepsForAReason
<1>9. Waiting(m) = {}
  <2> SUFFICES ASSUME NEW c \in Calls, WaitsToWrite(c, m)  PROVE FALSE
    BY DEF Waiting
  <2>1. c \in Sleepers /\ Wanted(c).key = m /\ Wanted(c).mode = "write"
    BY DEF WaitsToWrite
  <2> QED  BY <1>8, <2>1
<1>10. CanRead(m)
  BY <1>4, <1>7, <1>9, FS_EmptySet DEF LockAgrees, CanRead, CanWrite
<1>11. PICK c \in Sleepers : Wanted(c).key = m
  OBVIOUS
<1> QED  BY <1>8, <1>10, <1>11 DEF CallInv, SleepsForAReason

\* Calls that take their locks in the order of the keys never all wait for each other
\* (resource_locks.py:110 "Stable ordering prevents deadlocks"), and no wake-up is lost.
THEOREM NoDeadlock == LocksSpec => []NoCallIsStuck
<1>1. LockInv => NoCallIsStuck
  BY SomeoneGoesOn
<1> QED  BY <1>1, LocksAgree, PTL

-----------------------------------------------------------------------------
(* The order of the resources *)

\* Accesses of which no two have the same key.
Apart(S) == \A a, b \in S : a.key = b.key => a = b

LEMMA StrongestAreApart ==
    ASSUME NEW S \in SUBSET Access, IsFiniteSet(S)
    PROVE  Strongest(S) \subseteq Access /\ IsFiniteSet(Strongest(S)) /\ Apart(Strongest(S))
<1>1. Strongest(S) \subseteq S
  BY DEF Strongest
<1>2. IsFiniteSet(Strongest(S))
  BY <1>1, FS_Subset
<1>3. ASSUME NEW a \in Strongest(S), NEW b \in Strongest(S), a.key = b.key  PROVE a = b
  <2>1. a \in S /\ b \in S /\ a \in Access /\ b \in Access
    BY <1>1
  <2>2. a = Resource(a.key, a.mode) /\ b = Resource(b.key, b.mode)
    BY <2>1 DEF Access, Resource
  <2>3. a.mode \in {"read", "write"} /\ b.mode \in {"read", "write"}
    BY <2>1 DEF Access, Modes
  <2>4. a.mode = "write" => b.mode = "write"
    BY <1>3, <2>1, <2>2 DEF Strongest, Write, Resource
  <2>5. b.mode = "write" => a.mode = "write"
    BY <1>3, <2>1, <2>2 DEF Strongest, Write, Resource
  <2> QED  BY <1>3, <2>2, <2>3, <2>4, <2>5
<1> QED  BY <1>1, <1>2, <1>3 DEF Apart

\* S with n elements has an enumeration in the order of its keys.
InOrder(n, S) == \E s \in [1..n -> S] : Sorted(s)

\* The greatest comes last, and before it the others in their order.
LEMMA GreatestLast ==
    ASSUME NEW S \in SUBSET Access, IsFiniteSet(S), Apart(S), S # {},
           \A T \in SUBSET S : T # S => InOrder(Cardinality(T), T)
    PROVE  InOrder(Cardinality(S), S)
<1> DEFINE K == {a.key : a \in S}
<1>1. \A a \in S : a.key \in Nat
  BY KeysAssumption DEF Access
<1>2. IsFiniteSet(K) /\ K # {} /\ K \subseteq Nat
  <2> DEFINE f == [a \in S |-> a.key]
  <2>1. f \in Surjection(S, K)
    BY DEF Surjection
  <2>2. IsFiniteSet(K)
    BY <2>1, FS_Surjection
  <2> QED  BY <1>1, <2>2
<1>3. PICK k \in K : \A x \in K : x <= k
  <2> HIDE DEF K
  <2> QED  BY <1>2, GreatestKey
<1>4. PICK g \in S : g.key = k
  OBVIOUS
<1> DEFINE T == S \ {g}
           n == Cardinality(T)
<1>5. n \in Nat /\ Cardinality(S) = n + 1
  <2>1. IsFiniteSet(T) /\ Cardinality(T) = Cardinality(S) - 1
    BY FS_RemoveElement
  <2> QED  BY <2>1, FS_CardinalityType
<1>6. PICK s \in [1..n -> T] : Sorted(s)
  <2>1. T \in SUBSET S /\ T # S
    OBVIOUS
  <2>2. InOrder(n, T)
    <3> HIDE DEF T
    <3> QED  BY <2>1
  <2> QED  BY <2>2 DEF InOrder
<1>7. \A a \in T : a.key < g.key
  <2> SUFFICES ASSUME NEW a \in T  PROVE a.key < g.key
    OBVIOUS
  <2>1. a.key <= g.key
    BY <1>3, <1>4
  <2>2. a.key # g.key
    BY DEF Apart
  <2> QED  BY <1>1, <2>1, <2>2
<1> DEFINE e == [i \in 1..(n + 1) |-> IF i = n + 1 THEN g ELSE s[i]]
<1>8. e \in [1..(n + 1) -> S]
  <2> SUFFICES ASSUME NEW i \in 1..(n + 1)  PROVE (IF i = n + 1 THEN g ELSE s[i]) \in S
    OBVIOUS
  <2>1. i # n + 1 => i \in 1..n
    <3> HIDE DEF n
    <3> QED  BY <1>5
  <2>2. \A x \in 1..n : s[x] \in T
    <3> HIDE DEF n, T
    <3> QED  BY <1>6
  <2>3. T \subseteq S
    OBVIOUS
  <2> HIDE DEF T, n
  <2> QED  BY <2>1, <2>2, <2>3
<1>9. Sorted(e)
  <2> SUFFICES ASSUME NEW i \in 1..(n + 1), NEW j \in 1..(n + 1), i < j
               PROVE  e[i].key < e[j].key
    BY <1>8 DEF Sorted
  <2>0. i \in 1..n /\ i # n + 1
    <3> HIDE DEF n
    <3> QED  BY <1>5
  <2>1. i \in 1..n /\ e[i] = s[i] /\ s[i] \in T
    <3>1. e[i] = s[i]
      BY <2>0
    <3>2. s[i] \in T
      <4> HIDE DEF n, T
      <4> QED  BY <1>6, <2>0
    <3> QED  BY <2>0, <3>1, <3>2
  <2>2. CASE j = n + 1
    BY <1>7, <2>1, <2>2
  <2>3. CASE j # n + 1
    <3>1. j \in 1..n /\ e[j] = s[j]
      BY <1>5, <2>3
    <3> QED  BY <1>6, <2>1, <3>1 DEF Sorted
  <2> QED  BY <2>2, <2>3
<1> QED  BY <1>5, <1>8, <1>9 DEF InOrder

\* By the least number of elements of a set without one.
LEMMA OrderExists ==
    ASSUME NEW S \in SUBSET Access, IsFiniteSet(S), Apart(S)
    PROVE  InOrder(Cardinality(S), S)
<1> SUFFICES ASSUME ~InOrder(Cardinality(S), S)  PROVE FALSE
  OBVIOUS
<1> DEFINE Bad == {T \in SUBSET S : ~InOrder(Cardinality(T), T)}
           Sizes == {Cardinality(T) : T \in Bad}
<1>1. \A T \in SUBSET S : IsFiniteSet(T) /\ Cardinality(T) \in Nat
  BY FS_Subset, FS_CardinalityType
<1>2. Sizes \subseteq Nat /\ Sizes # {}
  <2>1. S \in Bad
    OBVIOUS
  <2> QED  BY <1>1, <2>1
<1>3. PICK n \in Sizes : \A i \in Sizes : ~(<<i, n>> \in OpToRel(<, Nat))
  <2> HIDE DEF Sizes
  <2> QED  BY <1>2, WFMin, NatLessThanWellFounded, Zenon
<1>4. \A i \in Sizes : ~(i < n)
  <2> SUFFICES ASSUME NEW i \in Sizes  PROVE ~(i < n)
    OBVIOUS
  <2>1. i \in Nat /\ n \in Nat
    BY <1>2
  <2> QED  BY <1>3, <2>1 DEF OpToRel
<1>5. PICK T \in Bad : n = Cardinality(T)
  OBVIOUS
<1>6. \A U \in SUBSET T : U # T => InOrder(Cardinality(U), U)
  <2> SUFFICES ASSUME NEW U \in SUBSET T, U # T, ~InOrder(Cardinality(U), U)  PROVE FALSE
    OBVIOUS
  <2>1. U \in Bad
    OBVIOUS
  <2>2. Cardinality(U) < Cardinality(T)
    <3>1. IsFiniteSet(T) /\ Cardinality(U) <= Cardinality(T) /\ Cardinality(U) # Cardinality(T)
      BY <1>1, FS_Subset
    <3> QED  BY <1>1, <3>1
  <2> QED  BY <1>4, <1>5, <2>1, <2>2
<1>7. T # {}
  <2> SUFFICES ASSUME T = {}  PROVE InOrder(Cardinality(T), T)
    OBVIOUS
  <2>1. Cardinality(T) = 0
    BY FS_EmptySet
  <2>2. <<>> \in [1..0 -> T] /\ Sorted(<<>>)
    BY DEF Sorted
  <2> QED  BY <2>1, <2>2 DEF InOrder
<1>8. T \subseteq Access /\ IsFiniteSet(T) /\ Apart(T)
  BY <1>1 DEF Apart
<1>9. InOrder(Cardinality(T), T)
  <2> HIDE DEF Bad
  <2> QED  BY <1>6, <1>7, <1>8, GreatestLast
<1> QED  BY <1>9

LEMMA NormalizedIsSorted ==
    ASSUME NEW S \in SUBSET Access, IsFiniteSet(S)
    PROVE  Normalized(S) \in Seq(Access) /\ Sorted(Normalized(S))
<1> DEFINE T == Strongest(S)
           n == Cardinality(T)
<1>1. T \subseteq Access /\ IsFiniteSet(T) /\ Apart(T)
  BY StrongestAreApart
<1>2. InOrder(n, T)
  <2> HIDE DEF T
  <2> QED  BY <1>1, OrderExists
<1>3. Normalized(S) \in [1..n -> T] /\ Sorted(Normalized(S))
  BY <1>2 DEF InOrder, Normalized
<1>4. n \in Nat
  BY <1>1, FS_CardinalityType
<1> QED  BY <1>1, <1>3, <1>4

-----------------------------------------------------------------------------
(* The calls of the turns are calls of ResourceLocks *)

PlanInv == plan \in Plans

LEMMA PlanTypes ==
    ASSUME PlanInv, NEW t \in Turns
    PROVE  /\ plan[t] \in Seq(Tool) /\ Len(plan[t]) \in Nat /\ DOMAIN plan[t] = 1..Len(plan[t])
           /\ \A i \in 1..Len(plan[t]) : <<t, i>> \in Calls /\ plan[t][i] \in Tool
           /\ CallsOf(t) \subseteq Calls
<1>1. plan \in [Turns -> Seq(Tool)] /\ \A i \in DOMAIN plan[t] : <<t, i>> \in Calls
  BY PlansAssumption DEF PlanInv
<1>2. plan[t] \in Seq(Tool)
  BY <1>1
<1>3. Len(plan[t]) \in Nat /\ DOMAIN plan[t] = 1..Len(plan[t])
      /\ \A i \in 1..Len(plan[t]) : plan[t][i] \in Tool
  BY <1>2
<1> QED  BY <1>1, <1>2, <1>3 DEF CallsOf

LEMMA AccessesAreFinite ==
    ASSUME NEW tool \in Tool
    PROVE  Accesses(tool) \in SUBSET Access /\ IsFiniteSet(Accesses(tool))
<1>1. tool.accesses \in SUBSET Access /\ IsFiniteSet(tool.accesses)
  BY DEF Tool
<1>2. Read(Workspace) \in Access /\ Write(Workspace) \in Access
  BY WorkspaceAssumption DEF Read, Write, Access, Modes
<1>3. IsFiniteSet({Read(Workspace)}) /\ IsFiniteSet({Write(Workspace)})
  BY FS_Singleton
<1> QED  BY <1>1, <1>2, <1>3 DEF Accesses

LEMMA InitIsLocks == Init => LocksInit /\ PlanInv
<1> SUFFICES ASSUME Init  PROVE LocksInit /\ PlanInv
  OBVIOUS
<1>1. PlanInv
  BY DEF Init, PlanInv
<1>2. access = [c \in Calls |-> IF c[2] \in DOMAIN plan[c[1]]
                                THEN Normalized(Accesses(ToolOf(c))) ELSE <<>>]
  BY DEF Init
<1>3. ASSUME NEW c \in Calls
      PROVE  access[c] \in {s \in Seq(Access) : Sorted(s)}
  <2>1. CASE c[2] \in DOMAIN plan[c[1]]
    <3>1. c[1] \in Turns
      BY TurnsAssumption
    <3>2. ToolOf(c) \in Tool
      BY <1>1, <2>1, <3>1, PlanTypes DEF ToolOf
    <3>3. access[c] = Normalized(Accesses(ToolOf(c)))
      BY <1>2, <2>1
    <3>4. Normalized(Accesses(ToolOf(c))) \in Seq(Access) /\ Sorted(Normalized(Accesses(ToolOf(c))))
      BY <3>2, AccessesAreFinite, NormalizedIsSorted
    <3> QED  BY <3>3, <3>4
  <2>2. CASE c[2] \notin DOMAIN plan[c[1]]
    <3>1. access[c] = <<>>
      BY <1>2, <2>2
    <3>2. <<>> \in Seq(Access) /\ Sorted(<<>>)
      BY DEF Sorted
    <3> QED  BY <3>1, <3>2
  <2> QED  BY <2>1, <2>2
<1>4. access \in [Calls -> {s \in Seq(Access) : Sorted(s)}]
  BY <1>2, <1>3
<1> QED  BY <1>1, <1>4 DEF LocksInit, Init

\* The call that a turn starts next is one.
LEMMA NextCall ==
    ASSUME PlanInv, NEW t \in Turns, MayStart(t)
    PROVE  <<t, next[t]>> \in Calls
BY PlanTypes DEF MayStart

LEMMA NextIsLocks == PlanInv /\ [Next]_vars => [LocksNext]_lockVars /\ PlanInv'
<1> SUFFICES ASSUME PlanInv, [Next]_vars  PROVE [LocksNext]_lockVars /\ PlanInv'
  OBVIOUS
<1>1. PlanInv'
  <2>1. plan' = plan
    BY DEF Next, System, Scheduler, Tools, User, BeginTurn, StartCall, RefuseCall, Started,
           Commit, NoticePause, EndTurn, EndCancelled, RequestPause, CancelTurn, AcquireLock,
           FinishCall, ReleaseLock, EndThread, vars, turnVars
  <2> QED  BY <2>1 DEF PlanInv
<1>2. ASSUME NEW t \in Turns, BeginTurn(t) \/ Commit(t) \/ NoticePause(t) \/ EndTurn(t)
                              \/ EndCancelled(t) \/ RequestPause(t)
      PROVE  UNCHANGED lockVars
  BY <1>2 DEF BeginTurn, Commit, NoticePause, EndTurn, EndCancelled, RequestPause
<1>3. ASSUME NEW t \in Turns, StartCall(t) \/ RefuseCall(t)  PROVE LocksNext
  <2>1. <<t, next[t]>> \in Calls
    BY <1>3, NextCall DEF StartCall, RefuseCall
  <2> QED  BY <1>3, <2>1 DEF StartCall, RefuseCall, LocksNext
<1>4. ASSUME NEW t \in Turns, CancelTurn(t)  PROVE LocksNext \/ UNCHANGED lockVars
  BY <1>4, PlanTypes DEF CancelTurn, CancelCall, LocksNext
<1>5. ASSUME NEW c \in Calls, Tools(c)  PROVE LocksNext \/ UNCHANGED lockVars
  BY <1>5 DEF Tools, AcquireLock, FinishCall, ReleaseLock, EndThread, LocksNext
<1>6. CASE UNCHANGED vars
  BY <1>1, <1>6 DEF vars
<1> QED  BY <1>1, <1>2, <1>3, <1>4, <1>5, <1>6 DEF Next, System, Scheduler, User

\* The calls of all turns use the locks as ResourceLocks says: each begins once, with its
\* resources in the order of their keys, whatever the tools name (ToolRegistry.execute).
THEOREM ToolsUseLocks == Spec => LocksSpec
<1>1. Init => LocksInit /\ PlanInv
  BY InitIsLocks
<1>2. PlanInv /\ [Next]_vars => [LocksNext]_lockVars /\ PlanInv'
  BY NextIsLocks
<1> QED  BY <1>1, <1>2, PTL DEF Spec, LocksSpec

-----------------------------------------------------------------------------
(* The history of a turn *)

\* Calls are answered in their order with what they came to, those that have not been
\* started are idle, and of those that have all but the last are safe or done, and the
\* last, if it is not, has all others answered.
TurnInv(t) ==
    /\ Len(history[t]) <= Len(plan[t])
    /\ phase[t] # "over" => Len(history[t]) < next[t]
    /\ \A i \in 1..Len(history[t]) :
          /\ history[t][i] = <<i, IF i < next[t] THEN "result" ELSE "aborted">>
          /\ i < next[t] => at[<<t, i>>] = "done"
    /\ \A i \in 1..Len(plan[t]) : i >= next[t] => at[<<t, i>>] = "idle"
    /\ \A i \in 1..Len(plan[t]) :
          i < next[t] /\ ~Safe(t, i) /\ at[<<t, i>>] # "done" =>
              i = next[t] - 1 /\ Len(history[t]) = i - 1

TurnTypes ==
    /\ phase \in [Turns -> {"idle", "running", "cancelled", "over"}]
    /\ next \in [Turns -> Nat]
    /\ \A t \in Turns : next[t] \in 1..(Len(plan[t]) + 1)
    /\ history \in [Turns -> Seq(Nat \X {"result", "aborted"})]
    /\ asked \in [Turns -> BOOLEAN]
    /\ paused \in [Turns -> BOOLEAN]
    /\ threads \subseteq Calls

CallsInv ==
    /\ LocksTypeOK
    /\ PlanInv
    /\ TurnTypes
    /\ \A t \in Turns : TurnInv(t)

\* A call goes on, or ends, and no other begins or ends.
GoesOn ==
    \A x \in Calls : /\ at'[x] = "idle" <=> at[x] = "idle"
                     /\ at[x] = "done" => at'[x] = "done"

LEMMA LockStepsGoOn ==
    ASSUME LocksTypeOK, NEW c \in Calls, Acquire(c) \/ Finish(c) \/ Cancel(c) \/ Release(c)
    PROVE  GoesOn
<1>1. at[c] \notin {"idle", "done"} /\ at \in [Calls -> Places]
  BY DEF Acquire, AcquireRead, AcquireWrite, WaitRead, WaitWrite, Awake, Finish, Working, Cancel,
         Release, ReleaseRead, ReleaseWrite, Leave, LocksTypeOK
<1>2. PICK status \in Places \ {"idle"} :
        at' = [at EXCEPT ![c] = status] \/ \E keys : at' = Notified(c, status, keys)
  BY DEF Acquire, AcquireRead, AcquireWrite, WaitRead, WaitWrite, Finish, Cancel,
         Release, ReleaseRead, ReleaseWrite, Leave, Places
<1>3. ASSUME NEW x \in Calls
      PROVE  IF x = c THEN at'[x] = status
             ELSE at'[x] = at[x] \/ (at[x] = "asleep" /\ at'[x] = "woken")
  BY <1>1, <1>2 DEF Notified
<1> QED  BY <1>1, <1>2, <1>3 DEF GoesOn, Places

LEMMA CallsInvInit == Init => CallsInv
<1> SUFFICES ASSUME Init  PROVE CallsInv
  OBVIOUS
<1>1. LocksInit /\ PlanInv
  BY InitIsLocks
<1>2. LocksTypeOK
  BY <1>1, InitKeeps DEF LockInv
<1>3. /\ phase = [t \in Turns |-> "idle"] /\ next = [t \in Turns |-> 1]
      /\ history = [t \in Turns |-> <<>>] /\ asked = [t \in Turns |-> FALSE]
      /\ paused = [t \in Turns |-> FALSE] /\ at = [c \in Calls |-> "idle"] /\ threads = {}
  BY DEF Init, InitLocks
<1>4. \A t \in Turns : Len(plan[t]) \in Nat /\ \A i \in 1..Len(plan[t]) : <<t, i>> \in Calls
  BY <1>1, PlanTypes
<1>5. TurnTypes
  BY <1>3, <1>4 DEF TurnTypes
<1>6. ASSUME NEW t \in Turns  PROVE TurnInv(t)
  BY <1>3, <1>4 DEF TurnInv
<1> QED  BY <1>1, <1>2, <1>5, <1>6 DEF CallsInv

\* What is known of a turn, from CallsInv.
LEMMA TurnFacts ==
    ASSUME CallsInv, NEW t \in Turns
    PROVE  /\ next[t] \in Nat /\ next[t] >= 1 /\ next[t] <= Len(plan[t]) + 1
           /\ Len(plan[t]) \in Nat /\ DOMAIN plan[t] = 1..Len(plan[t])
           /\ \A i \in 1..Len(plan[t]) : <<t, i>> \in Calls /\ Safe(t, i) \in BOOLEAN
           /\ history[t] \in Seq(Nat \X {"result", "aborted"}) /\ Len(history[t]) \in Nat
           /\ DOMAIN history[t] = 1..Len(history[t])
           /\ TurnInv(t)
<1>1. \A i \in 1..Len(plan[t]) : plan[t][i].safe \in BOOLEAN
  BY PlanTypes DEF CallsInv, Tool
<1>2. history[t] \in Seq(Nat \X {"result", "aborted"})
  BY DEF CallsInv, TurnTypes
<1> QED  BY <1>1, <1>2, PlanTypes DEF CallsInv, TurnTypes, Safe

\* Steps of the locks leave the turns as they are.
LEMMA GoingOnKeeps ==
    ASSUME CallsInv, GoesOn, UNCHANGED <<plan, next, history>>,
           NEW t \in Turns, phase'[t] # "over" => phase[t] # "over"
    PROVE  TurnInv(t)'
BY TurnFacts DEF TurnInv, GoesOn, Safe, CallsInv, PlanInv

\* So do steps of the turns that start no call and answer none.
LEMMA QuietKeeps ==
    ASSUME CallsInv, UNCHANGED <<at, plan, next, history>>,
           NEW t \in Turns, phase'[t] # "over" => phase[t] # "over"
    PROVE  TurnInv(t)'
BY DEF TurnInv, Safe, CallsInv

\* The call of c starts or is refused.
LEMMA StartKeeps ==
    ASSUME CallsInv, NEW u \in Turns, MayStart(u), Started(u),
           NEW status \in {"awake", "done"}, at' = [at EXCEPT ![<<u, next[u]>>] = status],
           NEW t \in Turns
    PROVE  TurnInv(t)'
<1> DEFINE n == next[u]
<1>1. /\ n \in 1..Len(plan[u]) /\ <<u, n>> \in Calls /\ phase[u] = "running"
      /\ Answered(u) = n - 1 \/ InGroup(u)
  BY TurnFacts DEF MayStart
<1>2. next' = [next EXCEPT ![u] = @ + 1] /\ UNCHANGED <<plan, phase, history>>
  BY DEF Started
<1>3. /\ at'[<<u, n>>] = status
      /\ \A x \in Calls : x # <<u, n>> => at'[x] = at[x]
  BY <1>1 DEF CallsInv, LocksTypeOK
<1>4. CASE t # u
  <2>1. next'[t] = next[t]
    BY <1>2, <1>4 DEF CallsInv, TurnTypes
  <2>2. \A i \in 1..Len(plan[t]) : at'[<<t, i>>] = at[<<t, i>>]
    BY <1>3, <1>4, TurnFacts
  <2>3. Len(history[t]) <= Len(plan[t]) /\ TurnInv(t)
    BY TurnFacts DEF TurnInv
  <2> QED  BY <1>2, <2>1, <2>2, <2>3, TurnFacts DEF TurnInv, Safe
<1>5. CASE t = u
  <2>1. next'[u] = n + 1
    BY <1>2 DEF CallsInv, TurnTypes
  <2>2. /\ Len(history[u]) < n /\ n \in Nat /\ Len(history[u]) \in Nat
        /\ \A i \in 1..Len(history[u]) : i < n /\ history[u][i] = <<i, "result">>
                                        /\ at[<<u, i>>] = "done"
    BY <1>1, TurnFacts DEF TurnInv
  <2>3. \A i \in 1..Len(plan[u]) : i # n => at'[<<u, i>>] = at[<<u, i>>]
    BY <1>3, TurnFacts
  <2>4. \A i \in 1..Len(plan[u]) : i < n /\ ~Safe(u, i) => at[<<u, i>>] = "done"
    <3> SUFFICES ASSUME NEW i \in 1..Len(plan[u]), i < n, ~Safe(u, i), at[<<u, i>>] # "done"
                 PROVE  FALSE
      OBVIOUS
    <3>1. i = n - 1 /\ Len(history[u]) = i - 1
      BY TurnFacts DEF TurnInv
    <3> QED  BY <1>1, <2>2, <3>1 DEF Answered, InGroup
  <2>5. ~Safe(u, n) => Len(history[u]) = n - 1
    BY <1>1 DEF InGroup, Answered
  <2>6. \A i \in 1..Len(plan[u]) : i >= n + 1 => at'[<<u, i>>] = "idle"
    BY <2>2, <2>3, TurnFacts DEF TurnInv
  <2>7. \A i \in 1..Len(history[u]) :
           history[u][i] = <<i, IF i < n + 1 THEN "result" ELSE "aborted">>
           /\ at'[<<u, i>>] = "done"
    BY <1>1, <2>2, <2>3, TurnFacts
  <2>8. \A i \in 1..Len(plan[u]) :
          i < n + 1 /\ ~Safe(u, i) /\ at'[<<u, i>>] # "done" => i = n /\ Len(history[u]) = i - 1
    BY <2>2, <2>3, <2>4, <2>5
  <2>9. plan' = plan /\ history' = history /\ phase'[u] = "running" /\ Len(history[u]) <= Len(plan[u])
    BY <1>1, <1>2, <2>2
  <2>10. TurnInv(u)'
    BY <2>1, <2>2, <2>6, <2>7, <2>8, <2>9 DEF TurnInv, Safe
  <2> QED  BY <1>5, <2>10
<1> QED  BY <1>4, <1>5

LEMMA CommitKeeps ==
    ASSUME CallsInv, NEW u \in Turns, Commit(u), NEW t \in Turns
    PROVE  TurnInv(t)'
<1> DEFINE m == Len(history[u]) + 1
<1>1. /\ m < next[u] /\ at[<<u, m>>] = "done"
      /\ history' = [history EXCEPT ![u] = Append(@, <<m, "result">>)]
      /\ UNCHANGED <<at, plan, phase, next>>
  BY DEF Commit, Ready, Answered, lockVars
<1>2. CASE t # u
  <2>1. history'[t] = history[t]
    BY <1>1, <1>2 DEF CallsInv, TurnTypes
  <2>2. TurnInv(t)
    BY TurnFacts
  <2>3. UNCHANGED <<at, plan, phase, next>>
    BY <1>1
  <2> QED  BY <2>1, <2>2, <2>3 DEF TurnInv, Safe
<1>3. CASE t = u
  <2>1. history'[u] = Append(history[u], <<m, "result">>)
    BY <1>1 DEF CallsInv, TurnTypes
  <2>2. /\ Len(history'[u]) = m /\ m \in Nat
        /\ \A i \in 1..m : history'[u][i] = IF i = m THEN <<m, "result">> ELSE history[u][i]
    BY <2>1, TurnFacts
  <2>3. m <= Len(plan[u]) /\ next[u] \in Nat
    BY <1>1, TurnFacts
  <2>4. \A i \in 1..m : /\ history'[u][i] = <<i, IF i < next[u] THEN "result" ELSE "aborted">>
                        /\ at[<<u, i>>] = "done"
    <3> SUFFICES ASSUME NEW i \in 1..m
                 PROVE  /\ history'[u][i] = <<i, IF i < next[u] THEN "result" ELSE "aborted">>
                        /\ at[<<u, i>>] = "done"
      OBVIOUS
    <3>1. CASE i = m
      BY <1>1, <2>2, <3>1
    <3>2. CASE i # m
      <4>1. i \in 1..Len(history[u]) /\ i < next[u]
        BY <1>1, <2>2, <2>3, <3>2, TurnFacts
      <4> QED  BY <2>2, <3>2, <4>1, TurnFacts DEF TurnInv
    <3> QED  BY <3>1, <3>2
  <2>5. \A i \in 1..Len(plan[u]) : i < next[u] /\ ~Safe(u, i) => at[<<u, i>>] = "done"
    <3> SUFFICES ASSUME NEW i \in 1..Len(plan[u]), i < next[u], ~Safe(u, i), at[<<u, i>>] # "done"
                 PROVE  FALSE
      OBVIOUS
    <3>1. Len(history[u]) = i - 1
      BY TurnFacts DEF TurnInv
    <3> QED  BY <1>1, <3>1, TurnFacts
  <2>6. TurnInv(u)'
    BY <1>1, <2>2, <2>3, <2>4, <2>5, TurnFacts DEF TurnInv, Safe
  <2> QED  BY <1>3, <2>6
<1> QED  BY <1>2, <1>3

LEMMA Concatenation ==
    ASSUME NEW S, NEW a \in Seq(S), NEW b \in Seq(S)
    PROVE  /\ a \o b \in Seq(S) /\ Len(a \o b) = Len(a) + Len(b)
           /\ \A i \in 1..Len(a) : (a \o b)[i] = a[i]
           /\ \A i \in 1..Len(b) : (a \o b)[Len(a) + i] = b[i]
OBVIOUS

LEMMA EndKeeps ==
    ASSUME CallsInv, NEW u \in Turns, EndTurn(u), NEW t \in Turns
    PROVE  /\ TurnInv(t)'
           /\ history'[t] \in Seq(Nat \X {"result", "aborted"})
<1> DEFINE n == next[u]
           l == Len(plan[u])
<1>1. /\ phase[u] = "running" /\ Len(history[u]) = n - 1
      /\ phase' = [phase EXCEPT ![u] = "over"]
      /\ history' = [history EXCEPT ![u] = @ \o Aborted(u)]
      /\ UNCHANGED <<at, plan, next>>
  BY DEF EndTurn, Answered, lockVars
<1>2. CASE t # u
  <2>1. history'[t] = history[t] /\ phase'[t] = phase[t]
    BY <1>1, <1>2 DEF CallsInv, TurnTypes
  <2>2. TurnInv(t) /\ history[t] \in Seq(Nat \X {"result", "aborted"})
    BY TurnFacts
  <2>3. UNCHANGED <<at, plan, next>>
    BY <1>1
  <2> QED  BY <2>1, <2>2, <2>3 DEF TurnInv, Safe
<1>3. CASE t = u
  <2>1. history'[u] = history[u] \o Aborted(u) /\ phase'[u] = "over"
    BY <1>1 DEF CallsInv, TurnTypes
  <2>2. n \in Nat /\ n >= 1 /\ n <= l + 1 /\ l \in Nat
        /\ history[u] \in Seq(Nat \X {"result", "aborted"})
    BY TurnFacts
  <2>3. /\ Aborted(u) \in Seq(Nat \X {"result", "aborted"}) /\ Len(Aborted(u)) = l - n + 1
        /\ \A i \in 1..(l - n + 1) : Aborted(u)[i] = <<n + i - 1, "aborted">>
    <3>1. l - n + 1 \in Nat
      BY <2>2
    <3>2. Aborted(u) = [i \in 1..(l - n + 1) |-> <<n + i - 1, "aborted">>]
      BY DEF Aborted
    <3>3. \A i \in 1..(l - n + 1) : <<n + i - 1, "aborted">> \in Nat \X {"result", "aborted"}
      BY <2>2
    <3> HIDE DEF n, l
    <3> QED  BY <3>1, <3>2, <3>3
  <2>4. /\ history'[u] \in Seq(Nat \X {"result", "aborted"}) /\ Len(history'[u]) = l
        /\ \A i \in 1..l : history'[u][i] = IF i < n THEN history[u][i] ELSE <<i, "aborted">>
    <3>1. /\ history'[u] \in Seq(Nat \X {"result", "aborted"})
          /\ Len(history'[u]) = Len(history[u]) + Len(Aborted(u))
          /\ \A i \in 1..Len(history[u]) : history'[u][i] = history[u][i]
          /\ \A i \in 1..Len(Aborted(u)) : history'[u][Len(history[u]) + i] = Aborted(u)[i]
      <4> DEFINE Answers == Nat \X {"result", "aborted"}
      <4>1. history[u] \in Seq(Answers) /\ Aborted(u) \in Seq(Answers)
        BY <2>2, <2>3
      <4> HIDE DEF Answers
      <4>2. /\ history[u] \o Aborted(u) \in Seq(Answers)
            /\ Len(history[u] \o Aborted(u)) = Len(history[u]) + Len(Aborted(u))
            /\ \A i \in 1..Len(history[u]) : (history[u] \o Aborted(u))[i] = history[u][i]
            /\ \A i \in 1..Len(Aborted(u)) :
                  (history[u] \o Aborted(u))[Len(history[u]) + i] = Aborted(u)[i]
        BY <4>1, Concatenation
      <4> QED  BY <2>1, <4>2, Zenon DEF Answers
    <3>2. ASSUME NEW i \in 1..l
          PROVE  history'[u][i] = IF i < n THEN history[u][i] ELSE <<i, "aborted">>
      <4>1. CASE i < n
        <5>1. i \in 1..Len(history[u])
          BY <1>1, <2>2, <4>1
        <5> QED  BY <3>1, <4>1, <5>1
      <4>2. CASE ~(i < n)
        <5> DEFINE j == i - n + 1
        <5>1. j \in 1..(l - n + 1) /\ n + j - 1 = i /\ (n - 1) + j = i
          <6> HIDE DEF n, l
          <6> QED  BY <2>2, <4>2
        <5>2. history'[u][Len(history[u]) + j] = <<n + j - 1, "aborted">>
          <6> HIDE DEF n, l, j
          <6> QED  BY <2>3, <3>1, <5>1
        <5>3. Len(history[u]) + j = i
          <6> HIDE DEF n, l, j
          <6> QED  BY <1>1, <5>1
        <5> HIDE DEF n, l, j
        <5> QED  BY <4>2, <5>1, <5>2, <5>3
      <4> QED  BY <4>1, <4>2
    <3>3. Len(history'[u]) = l
      <4>1. Len(history[u]) = n - 1 /\ Len(Aborted(u)) = l - n + 1 /\ n \in Nat /\ l \in Nat
        BY <1>1, <2>2, <2>3
      <4>2. Len(history'[u]) = Len(history[u]) + Len(Aborted(u))
        BY <3>1
      <4> HIDE DEF n, l
      <4> QED  BY <4>1, <4>2
    <3> QED  BY <3>1, <3>2, <3>3
  <2>5. \A i \in 1..l : i < n => history[u][i] = <<i, "result">> /\ at[<<u, i>>] = "done"
    <3> SUFFICES ASSUME NEW i \in 1..l, i < n
                 PROVE  history[u][i] = <<i, "result">> /\ at[<<u, i>>] = "done"
      OBVIOUS
    <3>1. i \in 1..Len(history[u])
      BY <1>1, <2>2
    <3> QED  BY <3>1, TurnFacts DEF TurnInv
  <2>6. \A i \in 1..l : i >= n => at[<<u, i>>] = "idle"
    BY TurnFacts DEF TurnInv
  <2>7. UNCHANGED <<at, plan, next>>
    BY <1>1
  <2>8. TurnInv(u)'
    <3>1. \A i \in 1..l : /\ history'[u][i] = <<i, IF i < n THEN "result" ELSE "aborted">>
                          /\ i < n => at[<<u, i>>] = "done"
      BY <2>4, <2>5
    <3>2. \A i \in 1..l : i < n => ~(~Safe(u, i) /\ at[<<u, i>>] # "done")
      BY <2>5
    <3>3. /\ Len(history'[u]) = l /\ phase'[u] = "over"
          /\ next'[u] = n /\ Len(plan'[u]) = l /\ at' = at
          /\ \A i \in 1..l : Safe(u, i)' = Safe(u, i)
      BY <2>1, <2>4, <2>7 DEF Safe
    <3> HIDE DEF n, l
    <3> QED  BY <2>2, <2>6, <3>1, <3>2, <3>3 DEF TurnInv
  <2> QED  BY <1>3, <2>4, <2>8
<1> QED  BY <1>2, <1>3

\* What is recorded of the turns keeps its types.
LEMMA TypesKeep == CallsInv /\ [Next]_vars => TurnTypes'
<1> SUFFICES ASSUME CallsInv, [Next]_vars  PROVE TurnTypes'
  OBVIOUS
<1> USE DEF TurnTypes
<1>0. TurnTypes /\ PlanInv
  BY DEF CallsInv
<1>1. ASSUME NEW u \in Turns, BeginTurn(u) \/ NoticePause(u) \/ EndCancelled(u) \/ CancelTurn(u)
      PROVE  TurnTypes'
  <2>1. threads' \subseteq Calls
    BY <1>0, <1>1, PlanTypes DEF BeginTurn, NoticePause, EndCancelled, CancelTurn, CancelCall
  <2> QED  BY <1>0, <1>1, <2>1 DEF BeginTurn, NoticePause, EndCancelled, CancelTurn
<1>2. ASSUME NEW u \in Turns, StartCall(u) \/ RefuseCall(u)
      PROVE  TurnTypes'
  <2>1. Started(u) /\ next[u] \in 1..Len(plan[u])
    BY <1>2, TurnFacts DEF StartCall, RefuseCall, MayStart
  <2>2. \A t \in Turns : next[t] \in Nat /\ Len(plan[t]) \in Nat
    BY TurnFacts
  <2>3. next' \in [Turns -> Nat] /\ \A t \in Turns : next'[t] \in 1..(Len(plan[t]) + 1)
    BY <1>0, <2>1, <2>2 DEF Started
  <2>4. paused' \in [Turns -> BOOLEAN]
    BY <1>0, <2>1 DEF Started
  <2> QED  BY <1>0, <2>1, <2>3, <2>4 DEF Started
<1>3. ASSUME NEW u \in Turns, Commit(u)  PROVE TurnTypes'
  <2>1. Len(history[u]) + 1 \in Nat /\ history[u] \in Seq(Nat \X {"result", "aborted"})
    BY TurnFacts
  <2>2. Append(history[u], <<Len(history[u]) + 1, "result">>) \in Seq(Nat \X {"result", "aborted"})
    BY <2>1
  <2>3. history' \in [Turns -> Seq(Nat \X {"result", "aborted"})]
    BY <1>0, <1>3, <2>2 DEF Commit, Answered
  <2> QED  BY <1>0, <1>3, <2>3 DEF Commit
<1>4. ASSUME NEW u \in Turns, EndTurn(u)  PROVE TurnTypes'
  <2>1. history' = [history EXCEPT ![u] = @ \o Aborted(u)]
    BY <1>4 DEF EndTurn
  <2>2. \A t \in Turns : history'[t] \in Seq(Nat \X {"result", "aborted"})
    BY <1>4, EndKeeps
  <2>3. history' \in [Turns -> Seq(Nat \X {"result", "aborted"})]
    BY <1>0, <2>1, <2>2
  <2> QED  BY <1>0, <1>4, <2>3 DEF EndTurn
<1>5. ASSUME NEW u \in Turns, RequestPause(u)  PROVE TurnTypes'
  BY <1>0, <1>5 DEF RequestPause
<1>6. ASSUME NEW c \in Calls, Tools(c)  PROVE TurnTypes'
  BY <1>0, <1>6 DEF Tools, AcquireLock, FinishCall, ReleaseLock, EndThread, turnVars
<1>7. CASE UNCHANGED vars
  BY <1>0, <1>7 DEF vars, turnVars
<1> QED  BY <1>1, <1>2, <1>3, <1>4, <1>5, <1>6, <1>7 DEF Next, System, Scheduler, User

LEMMA CallsInvNext == CallsInv /\ [Next]_vars /\ LocksTypeOK' => CallsInv'
<1> SUFFICES ASSUME CallsInv, [Next]_vars, LocksTypeOK', NEW t \in Turns
             PROVE  TurnInv(t)'
  BY TypesKeep, NextIsLocks DEF CallsInv
<1>0. LocksTypeOK /\ TurnTypes
  BY DEF CallsInv
<1>1. ASSUME NEW u \in Turns,
             BeginTurn(u) \/ NoticePause(u) \/ EndCancelled(u) \/ RequestPause(u)
      PROVE  TurnInv(t)'
  <2>1. UNCHANGED <<at, plan, next, history>>
    BY <1>1 DEF BeginTurn, NoticePause, EndCancelled, RequestPause, lockVars
  <2>2. phase'[t] # "over" => phase[t] # "over"
    BY <1>0, <1>1 DEF BeginTurn, NoticePause, EndCancelled, RequestPause, TurnTypes
  <2> QED  BY <2>1, <2>2, QuietKeeps
<1>2. ASSUME NEW u \in Turns, StartCall(u)  PROVE TurnInv(t)'
  BY <1>2, StartKeeps DEF StartCall, Ask
<1>3. ASSUME NEW u \in Turns, RefuseCall(u)  PROVE TurnInv(t)'
  BY <1>3, StartKeeps DEF RefuseCall, Refuse
<1>4. ASSUME NEW u \in Turns, CancelTurn(u)  PROVE TurnInv(t)'
  <2>1. UNCHANGED <<plan, next, history>> /\ (phase'[t] # "over" => phase[t] # "over")
    BY <1>0, <1>4 DEF CancelTurn, TurnTypes
  <2>2. CASE UNCHANGED lockVars
    <3>1. UNCHANGED <<at, plan, next, history>>
      BY <2>1, <2>2 DEF lockVars
    <3> QED  BY <2>1, <3>1, QuietKeeps
  <2>3. CASE \E c \in CallsOf(u) : CancelCall(c)
    <3>1. PICK c \in Calls : Cancel(c)
      BY <2>3, PlanTypes DEF CallsInv, CancelCall
    <3>2. GoesOn
      BY <1>0, <3>1, LockStepsGoOn
    <3> QED  BY <2>1, <3>2, GoingOnKeeps
  <2> QED  BY <1>4, <2>2, <2>3 DEF CancelTurn
<1>5. ASSUME NEW c \in Calls, Tools(c)  PROVE TurnInv(t)'
  <2>1. UNCHANGED <<plan, phase, next, history>>
    BY <1>5 DEF Tools, AcquireLock, FinishCall, ReleaseLock, EndThread, turnVars
  <2>2. CASE EndThread(c)
    <3>1. UNCHANGED at
      BY <2>2 DEF EndThread, lockVars
    <3> QED  BY <2>1, <3>1, QuietKeeps
  <2>3. CASE ~EndThread(c)
    <3>1. GoesOn
      BY <1>0, <1>5, <2>3, LockStepsGoOn DEF Tools, AcquireLock, FinishCall, ReleaseLock
    <3> QED  BY <2>1, <3>1, GoingOnKeeps
  <2> QED  BY <2>2, <2>3
<1>6. CASE UNCHANGED vars
  <2>1. UNCHANGED <<at, plan, phase, next, history>>
    BY <1>6 DEF vars, lockVars, turnVars
  <2> QED  BY <2>1, QuietKeeps
<1> QED  BY <1>1, <1>2, <1>3, <1>4, <1>5, <1>6, CommitKeeps, EndKeeps
         DEF Next, System, Scheduler, User

\* CallsInv in every state: however calls start, end and are committed, answers go to the
\* history in the order of the calls, and only the last call of a turn that was started
\* may be unsafe and not done (ToolCallScheduler).
THEOREM TurnsKeepOrder == Spec => []CallsInv
<1>1. Init => CallsInv
  BY CallsInvInit
<1>2. CallsInv /\ [Next]_vars /\ LocksTypeOK' => CallsInv'
  BY CallsInvNext
<1> QED  BY <1>1, <1>2, ToolsUseLocks, LocksTypeCorrect, PTL DEF Spec

-----------------------------------------------------------------------------
(* Tools that run at the same time *)

\* A thread is left behind only by a call whose turn was cancelled.
ThreadsInv == \A c \in threads : phase[c[1]] \in {"cancelled", "over"}

LEMMA ThreadsStay ==
    ASSUME CallsInv, ThreadsInv, [Next]_vars
    PROVE  ThreadsInv'
<1>0. threads \subseteq Calls /\ \A c \in threads : c[1] \in Turns
  BY TurnsAssumption DEF CallsInv, TurnTypes
<1>1. ASSUME \A t \in Turns : phase[t] \in {"cancelled", "over"} => phase'[t] \in {"cancelled", "over"},
             threads' \subseteq threads
      PROVE  ThreadsInv'
  BY <1>0, <1>1 DEF ThreadsInv
<1>2. ASSUME NEW u \in Turns,
             \/ BeginTurn(u) \/ StartCall(u) \/ RefuseCall(u) \/ Commit(u) \/ NoticePause(u)
             \/ EndTurn(u) \/ EndCancelled(u) \/ RequestPause(u)
      PROVE  ThreadsInv'
  <2>1. threads' = threads
    BY <1>2 DEF BeginTurn, StartCall, RefuseCall, Started, Commit, NoticePause, EndTurn,
                EndCancelled, RequestPause
  <2>2. \A t \in Turns : phase[t] \in {"cancelled", "over"} => phase'[t] \in {"cancelled", "over"}
    BY <1>2 DEF CallsInv, TurnTypes, BeginTurn, StartCall, RefuseCall, Started, Commit,
                NoticePause, EndTurn, EndCancelled, RequestPause
  <2> QED  BY <1>1, <2>1, <2>2
<1>3. ASSUME NEW u \in Turns, CancelTurn(u)  PROVE ThreadsInv'
  <2>1. phase' = [phase EXCEPT ![u] = "cancelled"] /\ phase'[u] = "cancelled"
    BY <1>3 DEF CancelTurn, CallsInv, TurnTypes
  <2>2. \A c \in threads' : c \in threads \/ c \in CallsOf(u)
    BY <1>3 DEF CancelTurn, CancelCall
  <2>3. \A c \in CallsOf(u) : c[1] = u
    BY DEF CallsOf
  <2> QED  BY <1>0, <2>1, <2>2, <2>3 DEF ThreadsInv, CallsInv, TurnTypes
<1>4. ASSUME NEW c \in Calls, Tools(c)  PROVE ThreadsInv'
  <2>1. threads' \subseteq threads /\ phase' = phase
    BY <1>4 DEF Tools, AcquireLock, FinishCall, ReleaseLock, EndThread, turnVars
  <2> QED  BY <1>1, <2>1
<1>5. CASE UNCHANGED vars
  BY <1>1, <1>5 DEF vars, turnVars
<1> QED  BY <1>2, <1>3, <1>4, <1>5 DEF Next, System, Scheduler, User

\* A tool that works has all the locks of what it uses.
LEMMA WorkingHolds ==
    ASSUME LocksTypeOK, NEW c \in Calls, NEW k, NEW mode, Working(c), Uses(c, k, mode)
    PROVE  Holds(c, k, mode)
<1>1. access[c] \in Seq(Access) /\ acquired[c] \in Nat /\ acquired[c] <= Len(access[c])
  BY CallTypes
<1>2. acquired[c] = Len(access[c]) /\ DOMAIN access[c] = 1..Len(access[c])
  BY <1>1 DEF Working, Wants
<1> QED  BY <1>2 DEF Uses, Holds

\* What the tool of one call writes no other tool reads or writes at the time, whatever the
\* models ask for and however turns are paused and cancelled, unless one of the two is a
\* thread that outlived the cancellation of its turn (BaseTool.execute, ToolRegistry.execute).
THEOREM CallsAreExclusive == Spec => []AccessIsExclusive
<1>1. Init => ThreadsInv
  BY DEF Init, ThreadsInv
<1>2. CallsInv /\ ThreadsInv /\ [Next]_vars => ThreadsInv'
  BY ThreadsStay
<1>3. LocksExclude /\ CallsInv /\ ThreadsInv => AccessIsExclusive
  <2> SUFFICES ASSUME LocksExclude, CallsInv, ThreadsInv,
                      NEW c \in Calls, NEW d \in Calls, NEW k \in Keys, c # d,
                      Uses(c, k, "write"), Uses(d, k, "read") \/ Uses(d, k, "write"),
                      c \notin threads, d \notin threads
               PROVE  FALSE
    BY DEF AccessIsExclusive, ThreadsInv
  <2>1. Working(c) /\ Working(d)
    BY DEF Uses
  <2>2. Holds(c, k, "write") /\ (Holds(d, k, "read") \/ Holds(d, k, "write"))
    BY <2>1, WorkingHolds DEF CallsInv
  <2> QED  BY <2>2 DEF LocksExclude
<1> QED  BY <1>1, <1>2, <1>3, TurnsKeepOrder, ToolsUseLocks, LocksAreExclusive, PTL DEF Spec

\* The state of the scheduler, its turns and the locks keeps its types.
THEOREM ToolsTypeCorrect == Spec => []TypeOK
<1>1. CallsInv => TypeOK
  BY DEF CallsInv, TurnTypes, TypeOK
<1> QED  BY <1>1, TurnsKeepOrder, PTL

\* A turn's history is that of its calls made one after the other, however many are under
\* way at once, refused, paused and cancelled (ToolCallScheduler).
THEOREM TurnsAreSequential == Spec => []HistoryIsSequential
<1>1. CallsInv => HistoryIsSequential
  <2> SUFFICES ASSUME CallsInv, NEW t \in Turns
               PROVE  /\ \A i \in DOMAIN history[t] :
                            /\ history[t][i][1] = i
                            /\ at[<<t, i>>] = IF history[t][i][2] = "result" THEN "done" ELSE "idle"
                      /\ \A i \in DOMAIN plan[t] :
                            Underway(<<t, i>>) /\ ~Safe(t, i) =>
                                /\ Answered(t) = i - 1
                                /\ \A j \in DOMAIN plan[t] : j > i => at[<<t, j>>] = "idle"
    BY DEF HistoryIsSequential
  <2>1. ASSUME NEW i \in DOMAIN history[t]
        PROVE  /\ history[t][i][1] = i
               /\ at[<<t, i>>] = IF history[t][i][2] = "result" THEN "done" ELSE "idle"
    <3>1. i \in 1..Len(history[t]) /\ i \in 1..Len(plan[t]) /\ next[t] \in Nat
      BY <2>1, TurnFacts DEF TurnInv
    <3>2. /\ history[t][i] = <<i, IF i < next[t] THEN "result" ELSE "aborted">>
          /\ i < next[t] => at[<<t, i>>] = "done"
          /\ i >= next[t] => at[<<t, i>>] = "idle"
      BY <3>1, TurnFacts DEF TurnInv
    <3>3. i < next[t] \/ i >= next[t]
      BY <3>1
    <3>4. CASE i < next[t]
      BY <3>2, <3>4
    <3>5. CASE ~(i < next[t])
      BY <3>2, <3>3, <3>5
    <3> QED  BY <3>4, <3>5
  <2>2. ASSUME NEW i \in DOMAIN plan[t], Underway(<<t, i>>), ~Safe(t, i)
        PROVE  /\ Answered(t) = i - 1
               /\ \A j \in DOMAIN plan[t] : j > i => at[<<t, j>>] = "idle"
    <3>1. i \in 1..Len(plan[t]) /\ at[<<t, i>>] # "done" /\ at[<<t, i>>] # "idle"
      BY <2>2, TurnFacts DEF Underway
    <3>2. i < next[t]
      BY <3>1, TurnFacts DEF TurnInv
    <3>3. i = next[t] - 1 /\ Len(history[t]) = i - 1
      BY <2>2, <3>1, <3>2, TurnFacts DEF TurnInv
    <3> QED  BY <3>3, TurnFacts DEF TurnInv, Answered
  <2> QED  BY <2>1, <2>2
<1> QED  BY <1>1, TurnsKeepOrder, PTL

=============================================================================
