-------------------------- MODULE RunStreamProofs --------------------------
(***************************************************************************)
(* The event streams of a run: their types, that an open stream carries    *)
(* every event, that a reader told of the run's end has seen it, and the   *)
(* safety part of the refinement of LogReaders.                            *)
(***************************************************************************)
EXTENDS RunStream, FiniteSetTheorems, SequenceTheorems, TLAPS

-----------------------------------------------------------------------------
(* The inductive invariant *)

SubscriberRecord == [reader : Readers, number : 1..(MaxReconnects + 1), last : Nat,
                     complete : BOOLEAN]

ReaderRecord == [phase : {"idle", "connecting", "reading", "backoff"} \cup Settled,
                 from : Nat, number : 0..(MaxReconnects + 1), wire : Seq(Nat),
                 eof : BOOLEAN, terminal : BOOLEAN, got : Seq(Nat)]

StreamTypes ==
    /\ log \in Seq({"text"} \cup Terminal)
    /\ published \in Nat /\ published <= Len(log)
    /\ replay \in Nat /\ replay <= Len(log)
    /\ list \in Seq(SubscriberRecord)
    /\ reader \in [Readers -> ReaderRecord]
    /\ faults \in 0..MaxFaults

\* What the row of the run is at each point of the run, or of its settlement.
RowsOK ==
    \/ pc \in {"queued", "running", "pausing", "ended"} /\ row = "active"
    \/ pc \in {"paused", "closing"} /\ row = "paused"
    \/ pc \in {"cancelling", "closing", "over", "abandoned"} /\ row = "terminal"

\* Nothing is stored behind the event that ends the run.
EndIsLast ==
    \A k \in 1..Len(log) : log[k] = "ended" =>
        /\ k = Len(log)
        /\ pc = "ended" \/ (pc \in {"closing", "over"} /\ row = "terminal")

\* The number of the event a reader has got to.
Reach(x) == x.from + Len(x.got)

\* A reader was told that the run ended or paused, or of a pause it went on from.
Told(x) == x.got # <<>> /\ (log[Reach(x)] \in Terminal \/ Resumed(x))

\* What a reader was given, and what is on its way, are the events after the one it
\* named, with none missing.
ReaderOK(r, x) ==
    /\ \A k \in 1..Len(x.got) : x.got[k] = x.from + k
    /\ \A k \in 1..Len(x.wire) : x.wire[k] = Reach(x) + k
    /\ Reach(x) + Len(x.wire) <= Len(log)
    /\ x.phase = "idle" => x.got = <<>> /\ x.wire = <<>>
    /\ x.phase \in {"idle"} \cup Settled => x.number = 0
    /\ x.phase \in {"connecting", "backoff"} => x.number <= MaxReconnects
    /\ x.terminal => Told(x)
    /\ x.phase = "ended" /\ r \in Numbered => Told(x)

\* Subscriber y serves the connection that its reader x has open.
Current(y, x) == x.phase = "reading" /\ x.number = y.number

\* It has been sent what the connection carries; only one that came to a run that was
\* over is complete, and its stream has ended.
SubscriberOK(y, x) ==
    /\ y.last <= Len(log)
    /\ y.complete => row = "terminal"
    /\ x.phase \in Settled \/ y.number <= x.number
    /\ Current(y, x) => x.eof = y.complete
    /\ Current(y, x) /\ ~y.complete =>
          y.last = Reach(x) + Len(x.wire) /\ published <= y.last

\* A stream that has not ended has a subscriber behind it.
StreamOK(r, x) ==
    x.phase = "reading" /\ ~x.eof =>
        \E i \in 1..Len(list) :
            list[i].reader = r /\ list[i].number = x.number /\ ~list[i].complete

\* Whoever came to a run that was over is behind all who came before.
CompleteAreLast ==
    \A i, k \in 1..Len(list) : i < k /\ list[i].complete => list[k].complete

StreamInv ==
    /\ StreamTypes
    /\ RowsOK
    /\ EndIsLast
    /\ \A r \in Readers : ReaderOK(r, reader[r]) /\ StreamOK(r, reader[r])
    /\ \A i \in 1..Len(list) : SubscriberOK(list[i], reader[list[i].reader])
    /\ CompleteAreLast

\* The run begins with no events, no subscribers and no readers.
LEMMA StreamInit == Init => StreamInv
<1> SUFFICES ASSUME Init PROVE StreamInv
  OBVIOUS
<1>1. log = <<>> /\ list = <<>> /\ published = 0 /\ replay = 0 /\ faults = 0
      /\ row = "active" /\ pc = "queued" /\ reader = [r \in Readers |-> NotStarted]
  BY DEF Init
<1>2. /\ Len(<<>>) = 0 /\ 1..0 = {} /\ <<>> \in Seq({"text"} \cup Terminal)
      /\ <<>> \in Seq(SubscriberRecord) /\ <<>> \in Seq(Nat)
  BY EmptySeq
<1>3. NotStarted \in ReaderRecord
  BY <1>2, BoundsAssumption DEF NotStarted, ReaderRecord
<1>4. StreamTypes
  BY <1>1, <1>2, <1>3, BoundsAssumption DEF StreamTypes
<1>5. ASSUME NEW r \in Readers PROVE ReaderOK(r, NotStarted) /\ StreamOK(r, NotStarted)
  <2>1. /\ NotStarted.phase = "idle" /\ NotStarted.got = <<>> /\ NotStarted.wire = <<>>
        /\ NotStarted.from = 0 /\ NotStarted.number = 0 /\ ~NotStarted.terminal
    BY DEF NotStarted
  <2> QED BY <1>1, <1>2, <2>1 DEF ReaderOK, StreamOK, Reach
<1>6. RowsOK /\ EndIsLast /\ CompleteAreLast
  BY <1>1, <1>2 DEF RowsOK, EndIsLast, CompleteAreLast
<1> QED BY <1>1, <1>2, <1>4, <1>5, <1>6 DEF StreamInv

-----------------------------------------------------------------------------
(* The log grows *)

\* A log that is the present one, or has one more event, is one for every reader.
LEMMA ToldStays ==
    ASSUME StreamInv, NEW x \in ReaderRecord, Reach(x) <= Len(log), Told(x),
           Len(log') \in Nat, Len(log) <= Len(log'), \A k \in 1..Len(log) : log'[k] = log[k]
    PROVE  Told(x)'
<1>1. /\ x.from \in Nat /\ Len(x.got) \in Nat /\ Len(log) \in Nat
      /\ x.got # <<>> => Len(x.got) >= 1
  BY LenProperties, EmptySeq DEF ReaderRecord, StreamInv, StreamTypes
<1>2. Reach(x) \in 1..Len(log)
  BY <1>1 DEF Told, Reach
<1>3. CASE log[Reach(x)] \in Terminal
  BY <1>2, <1>3 DEF Told, Reach
<1>4. CASE Resumed(x)
  <2>1. PICK k \in x.from + 1..x.from + Len(x.got) - 1 : log[k] = "paused" /\ log[k + 1] = "text"
    BY <1>4 DEF Resumed
  <2>2. k \in 1..Len(log) /\ k + 1 \in 1..Len(log)
    BY <1>1, <1>2, <2>1 DEF Reach
  <2>3. log'[k] = "paused" /\ log'[k + 1] = "text"
    BY <2>1, <2>2
  <2> QED BY <2>1, <2>3 DEF Told, Resumed
<1> QED BY <1>3, <1>4 DEF Told

\* The Core stores an event, or not, and moves the run on.
LEMMA StreamCore ==
    ASSUME StreamInv, NEW e \in {"text"} \cup Terminal,
           log' = log \/ log' = Append(log, e), UNCHANGED <<published, list, reader>>,
           RowsOK', row = "terminal" => row' = "terminal",
           faults' \in 0..MaxFaults, replay' \in Nat, replay' <= Len(log),
           e = "ended" /\ log' # log =>
               pc' = "ended" \/ (pc' \in {"closing", "over"} /\ row' = "terminal"),
           pc \in {"ended", "closing", "over"} =>
               /\ log' = log \/ row = "paused"
               /\ \/ pc' = pc
                  \/ pc' \in {"closing", "over"} /\ row' = "terminal"
                  \/ row = "paused"
    PROVE  StreamInv'
<1>1. /\ log \in Seq({"text"} \cup Terminal) /\ Len(log) \in Nat
      /\ published \in Nat /\ published <= Len(log)
  BY LenProperties DEF StreamInv, StreamTypes
<1>2. /\ log' \in Seq({"text"} \cup Terminal)
      /\ Len(log') \in Nat /\ Len(log) <= Len(log')
      /\ \A k \in 1..Len(log) : log'[k] = log[k]
      /\ \A k \in 1..Len(log') : k \in 1..Len(log) \/ (log' # log /\ k = Len(log') /\ log'[k] = e)
  <2>1. CASE log' = log
    BY <1>1, <2>1
  <2>2. CASE log' = Append(log, e)
    <3>1. /\ log' \in Seq({"text"} \cup Terminal) /\ Len(log') = Len(log) + 1
          /\ \A k \in 1..Len(log) : log'[k] = log[k]
          /\ log'[Len(log) + 1] = e
      BY <1>1, <2>2, AppendProperties
    <3> QED BY <1>1, <3>1
  <2> QED BY <2>1, <2>2
<1>3. StreamTypes'
  BY <1>1, <1>2 DEF StreamInv, StreamTypes
<1>4. EndIsLast'
  <2> SUFFICES ASSUME NEW k \in 1..Len(log'), log'[k] = "ended"
               PROVE  /\ k = Len(log')
                      /\ pc' = "ended" \/ (pc' \in {"closing", "over"} /\ row' = "terminal")
    BY DEF EndIsLast
  <2>1. CASE k \in 1..Len(log)
    <3>1. /\ k = Len(log)
          /\ pc = "ended" \/ (pc \in {"closing", "over"} /\ row = "terminal")
      BY <1>2, <2>1 DEF StreamInv, EndIsLast
    <3>2. row # "paused"
      BY <3>1 DEF StreamInv, RowsOK
    <3> QED BY <3>1, <3>2
  <2>2. CASE log' # log /\ k = Len(log') /\ log'[k] = e
    BY <2>2
  <2> QED BY <1>2, <2>1, <2>2
<1>5. ASSUME NEW r \in Readers PROVE (ReaderOK(r, reader[r]) /\ StreamOK(r, reader[r]))'
  <2>1. PICK x \in ReaderRecord : x = reader[r]
    BY DEF StreamInv, StreamTypes
  <2>2. ReaderOK(r, x) /\ StreamOK(r, x) /\ reader'[r] = x /\ list' = list
    BY <2>1 DEF StreamInv
  <2>3. x.from \in Nat /\ Len(x.got) \in Nat /\ Len(x.wire) \in Nat
    BY LenProperties DEF ReaderRecord
  <2>4. Reach(x) \in Nat /\ Reach(x) + Len(x.wire) <= Len(log)
    BY <2>2, <2>3 DEF ReaderOK, Reach
  <2>5. Reach(x) <= Len(log) /\ Reach(x) + Len(x.wire) <= Len(log')
    BY <1>1, <1>2, <2>3, <2>4
  <2>6. Told(x) => Told(x)'
    BY <1>2, <2>5, ToldStays
  <2>7. ReaderOK(r, x)' /\ StreamOK(r, x)'
    BY <2>2, <2>5, <2>6 DEF ReaderOK, StreamOK, Reach
  <2> QED BY <2>2, <2>7 DEF ReaderOK, StreamOK, Reach, Told, Resumed
<1>6. ASSUME NEW i \in 1..Len(list) PROVE SubscriberOK(list[i], reader[list[i].reader])'
  <2>1. PICK y \in SubscriberRecord : y = list[i]
    BY ElementOfSeq DEF StreamInv, StreamTypes
  <2>2. PICK x : x = reader[y.reader]
    OBVIOUS
  <2>3. SubscriberOK(y, x) /\ list'[i] = y /\ reader'[y.reader] = x
    BY <2>1, <2>2 DEF StreamInv
  <2>4. y.last \in Nat /\ y.last <= Len(log')
    BY <1>1, <1>2, <2>3 DEF SubscriberOK, SubscriberRecord
  <2>5. SubscriberOK(y, x)'
    BY <2>3, <2>4 DEF SubscriberOK, Current, Reach
  <2> QED BY <2>3, <2>5 DEF SubscriberOK, Current, Reach
<1>7. CompleteAreLast'
  BY DEF StreamInv, CompleteAreLast
<1> QED BY <1>3, <1>4, <1>5, <1>6, <1>7 DEF StreamInv

\* The steps of the run and of its settlement that store at most one event.
LEMMA StreamRunSteps ==
    ASSUME StreamInv,
           \/ BeginRun \/ Emit \/ EndRun \/ RowEnds \/ CancelRun \/ CancelTold
           \/ PauseRun \/ RowPauses \/ PauseQueued \/ ResumeRun
    PROVE  StreamInv'
<1>1. /\ RowsOK /\ faults \in 0..MaxFaults /\ MaxFaults \in Nat
      /\ replay \in Nat /\ Len(log) \in Nat /\ replay <= Len(log)
      /\ Terminal = {"paused", "ended"}
  BY BoundsAssumption, LenProperties DEF StreamInv, StreamTypes, Terminal
<1>2. Lose => log' = log /\ faults' \in 0..MaxFaults
  BY <1>1 DEF Lose
<1>3. CASE Emit
  <2>1. log' = Append(log, "text") /\ faults' \in 0..MaxFaults /\ replay' \in Nat /\ replay' <= Len(log)
    BY <1>1, <1>3 DEF Emit, Store
  <2>2. RowsOK' /\ (row = "terminal" => row' = "terminal") /\ pc \notin {"ended", "closing", "over"}
    BY <1>1, <1>3 DEF Emit, RowsOK
  <2>3. UNCHANGED <<published, list, reader>>
    BY <1>3 DEF Emit
  <2> QED BY <1>1, <2>1, <2>2, <2>3, StreamCore
<1>4. CASE EndRun
  <2>1. /\ log' = log \/ log' = Append(log, "ended")
        /\ faults' \in 0..MaxFaults /\ replay' \in Nat /\ replay' <= Len(log)
    BY <1>1, <1>2, <1>4 DEF EndRun, Store
  <2>2. /\ RowsOK' /\ (row = "terminal" => row' = "terminal")
        /\ pc \notin {"ended", "closing", "over"} /\ pc' = "ended"
    BY <1>1, <1>4 DEF EndRun, RowsOK
  <2>3. UNCHANGED <<published, list, reader>>
    BY <1>4 DEF EndRun
  <2> QED BY <1>1, <2>1, <2>2, <2>3, StreamCore
<1>5. CASE RowEnds
  <2>1. log' = log /\ faults' \in 0..MaxFaults /\ replay' \in Nat /\ replay' <= Len(log)
    BY <1>1, <1>5 DEF RowEnds
  <2>2. RowsOK' /\ row' = "terminal" /\ pc' = "closing"
    BY <1>1, <1>5 DEF RowEnds, RowsOK
  <2>3. UNCHANGED <<published, list, reader>>
    BY <1>5 DEF RowEnds
  <2> QED BY <1>1, <2>1, <2>2, <2>3, StreamCore
<1>6. CASE CancelRun
  <2>1. log' = log /\ faults' \in 0..MaxFaults /\ replay' \in Nat /\ replay' <= Len(log)
    BY <1>1, <1>6 DEF CancelRun
  <2>2. RowsOK' /\ row' = "terminal" /\ pc \notin {"ended", "closing", "over"}
    BY <1>1, <1>6 DEF CancelRun, RowsOK
  <2>3. UNCHANGED <<published, list, reader>>
    BY <1>6 DEF CancelRun
  <2> QED BY <1>1, <2>1, <2>2, <2>3, StreamCore
<1>7. CASE CancelTold
  <2>1. /\ log' = log \/ (log' = Append(log, "ended") /\ pc' = "closing")
        /\ faults' \in 0..MaxFaults /\ replay' \in Nat /\ replay' <= Len(log)
    BY <1>1, <1>2, <1>7 DEF CancelTold, Store
  <2>2. /\ RowsOK' /\ row' = row /\ row' = "terminal"
        /\ pc \notin {"ended", "closing", "over"}
    BY <1>1, <1>7 DEF CancelTold, RowsOK
  <2>3. UNCHANGED <<published, list, reader>>
    BY <1>7 DEF CancelTold
  <2> QED BY <1>1, <2>1, <2>2, <2>3, StreamCore
<1>8. CASE PauseRun
  <2>1. /\ log' = log \/ log' = Append(log, "paused")
        /\ faults' \in 0..MaxFaults /\ replay' \in Nat /\ replay' <= Len(log)
    BY <1>1, <1>8 DEF PauseRun, Store
  <2>2. RowsOK' /\ (row = "terminal" => row' = "terminal") /\ pc \notin {"ended", "closing", "over"}
    BY <1>1, <1>8 DEF PauseRun, RowsOK
  <2>3. UNCHANGED <<published, list, reader>>
    BY <1>8 DEF PauseRun
  <2> QED BY <1>1, <2>1, <2>2, <2>3, StreamCore
<1>9. CASE RowPauses
  <2>1. /\ log' = log \/ log' = Append(log, "paused")
        /\ faults' \in 0..MaxFaults /\ replay' \in Nat /\ replay' <= Len(log)
    BY <1>1, <1>2, <1>9 DEF RowPauses, Store
  <2>2. RowsOK' /\ row # "terminal" /\ pc \notin {"ended", "closing", "over"}
    BY <1>1, <1>9 DEF RowPauses, RowsOK
  <2>3. UNCHANGED <<published, list, reader>>
    BY <1>9 DEF RowPauses
  <2> QED BY <1>1, <2>1, <2>2, <2>3, StreamCore
<1>10. CASE PauseQueued
  <2>1. /\ log' = log \/ log' = Append(log, "paused")
        /\ faults' \in 0..MaxFaults /\ replay' \in Nat /\ replay' <= Len(log)
    BY <1>1, <1>2, <1>10 DEF PauseQueued, Store
  <2>2. RowsOK' /\ row # "terminal" /\ pc \notin {"ended", "closing", "over"}
    BY <1>1, <1>10 DEF PauseQueued, RowsOK
  <2>3. UNCHANGED <<published, list, reader>>
    BY <1>10 DEF PauseQueued
  <2> QED BY <1>1, <2>1, <2>2, <2>3, StreamCore
<1>11. CASE ResumeRun
  <2>1. /\ log' = log \/ log' = Append(log, "text")
        /\ faults' \in 0..MaxFaults /\ replay' \in Nat /\ replay' <= Len(log)
    BY <1>1, <1>2, <1>11 DEF ResumeRun, Store
  <2>2. RowsOK' /\ row # "terminal" /\ pc \notin {"ended", "closing", "over"}
    BY <1>1, <1>11 DEF ResumeRun, RowsOK
  <2>3. UNCHANGED <<published, list, reader>>
    BY <1>11 DEF ResumeRun
  <2> QED BY <1>1, <2>1, <2>2, <2>3, StreamCore
<1>12. CASE BeginRun
  <2>1. log' = log /\ faults' \in 0..MaxFaults /\ replay' \in Nat /\ replay' <= Len(log)
    BY <1>1, <1>12 DEF BeginRun
  <2>2. RowsOK' /\ row # "terminal" /\ pc \notin {"ended", "closing", "over"}
    BY <1>1, <1>12 DEF BeginRun, RowsOK
  <2>3. UNCHANGED <<published, list, reader>>
    BY <1>12 DEF BeginRun
  <2> QED BY <1>1, <2>1, <2>2, <2>3, StreamCore
<1> QED BY <1>3, <1>4, <1>5, <1>6, <1>7, <1>8, <1>9, <1>10, <1>11, <1>12

-----------------------------------------------------------------------------
(* The subscribers that stay *)

\* The positions of a list, in order, are an increasing sequence of all of them.
LEMMA OrdersInOrder ==
    ASSUME NEW n \in Nat, NEW S \in SUBSET (1..n), NEW at \in Orders(S)
    PROVE  /\ Cardinality(S) \in Nat
           /\ at \in [1..Cardinality(S) -> S]
           /\ \A k, l \in 1..Cardinality(S) : k < l => at[k] < at[l]
           /\ \A s \in S : \E k \in 1..Cardinality(S) : at[k] = s
<1> DEFINE c == Cardinality(S)
<1>1. IsFiniteSet(S) /\ c \in Nat
  <2>1. IsFiniteSet(1..n)
    BY FS_Interval
  <2> QED BY <2>1, FS_Subset, FS_CardinalityType
<1>2. /\ at \in [1..c -> S] /\ \A j, k \in 1..c : j # k => at[j] # at[k]
      /\ \A k, l \in DOMAIN at : k < l => at[k] < at[l]
  BY DEF Orders, SetToSeqs
<1>3. \A s \in S : \E k \in 1..c : at[k] = s
  <2>1. at \in Injection(1..c, S)
    BY <1>2 DEF Injection, IsInjective
  <2>2. Cardinality(1..c) = c
    BY <1>1, FS_Interval
  <2>3. at \in Surjection(1..c, S)
    BY <1>1, <2>1, <2>2, FS_Injection
  <2> QED BY <2>3 DEF Surjection
<1>4. \A k, l \in 1..c : k < l => at[k] < at[l]
  BY <1>2
<1> QED BY <1>1, <1>2, <1>3, <1>4

\* A list of subscribers that keeps some of them, in order, and changes none but in
\* what it was sent last, is well typed, and the complete ones are still last.
LEMMA ThinnedList ==
    ASSUME StreamInv, NEW m \in Nat, NEW at \in [1..m -> 1..Len(list)],
           \A k, l \in 1..m : k < l => at[k] < at[l],
           NEW sent \in [1..Len(list) -> SubscriberRecord],
           \A i \in 1..Len(list) : sent[i].complete = list[i].complete,
           list' = [k \in 1..m |-> sent[at[k]]]
    PROVE  list' \in Seq(SubscriberRecord) /\ Len(list') = m /\ CompleteAreLast'
<1>1. list' \in [1..m -> SubscriberRecord]
  OBVIOUS
<1>2. list' \in Seq(SubscriberRecord) /\ Len(list') = m
  <2>1. list' \in Seq(SubscriberRecord)
    BY <1>1, SeqDef
  <2> QED BY <1>1, <2>1, LenProperties
<1>3. ASSUME NEW i \in 1..m, NEW k \in 1..m, i < k, list'[i].complete
      PROVE  list'[k].complete
  <2>1. list[at[i]].complete /\ at[i] < at[k]
    BY <1>3
  <2>2. list[at[k]].complete
    BY <2>1 DEF StreamInv, CompleteAreLast
  <2> QED BY <2>2
<1> QED BY <1>2, <1>3 DEF CompleteAreLast

\* The container has completed an emitter: who is gone was complete.
LEMMA StreamRemoved ==
    ASSUME StreamInv, NEW i \in DOMAIN list, Removed(i)
    PROVE  StreamInv'
<1>1. /\ list \in Seq(SubscriberRecord) /\ Len(list) \in Nat /\ i \in 1..Len(list)
      /\ list[i].complete /\ list' = RemoveAt(list, i)
      /\ UNCHANGED <<log, published, replay, row, pc, reader, faults>>
  BY LenProperties DEF Removed, StreamInv, StreamTypes
<1> DEFINE before == SubSeq(list, 1, i - 1)
           after == SubSeq(list, i + 1, Len(list))
           from(k) == IF k < i THEN k ELSE k + 1
<1>2. /\ before \in Seq(SubscriberRecord) /\ Len(before) = i - 1
      /\ \A k \in 1..i - 1 : before[k] = list[k]
  <2>1. \A k \in 1..i - 1 : list[k] \in SubscriberRecord
    BY <1>1, ElementOfSeq
  <2>2. /\ before \in Seq(SubscriberRecord)
        /\ Len(before) = IF 1 <= i - 1 THEN i - 1 - 1 + 1 ELSE 0
        /\ \A k \in 1..i - 1 - 1 + 1 : before[k] = list[1 + k - 1]
    BY <1>1, <2>1, SubSeqProperties
  <2> QED BY <1>1, <2>2
<1>3. /\ after \in Seq(SubscriberRecord) /\ Len(after) = Len(list) - i
      /\ \A k \in 1..Len(list) - i : after[k] = list[i + k]
  <2>1. \A k \in i + 1..Len(list) : list[k] \in SubscriberRecord
    BY <1>1, ElementOfSeq
  <2>2. /\ after \in Seq(SubscriberRecord)
        /\ Len(after) = IF i + 1 <= Len(list) THEN Len(list) - (i + 1) + 1 ELSE 0
        /\ \A k \in 1..Len(list) - (i + 1) + 1 : after[k] = list[i + 1 + k - 1]
    BY <1>1, <2>1, SubSeqProperties
  <2> QED BY <1>1, <2>2
<1>4. list' = before \o after
  BY <1>1 DEF RemoveAt
<1> HIDE DEF before, after
<1>5. /\ list' \in Seq(SubscriberRecord) /\ Len(list') = Len(list) - 1
      /\ \A k \in 1..Len(list) - 1 : list'[k] = IF k <= i - 1 THEN before[k] ELSE after[k - (i - 1)]
  <2>1. /\ list' \in Seq(SubscriberRecord)
        /\ Len(list') = Len(before) + Len(after)
        /\ \A k \in 1..Len(before) + Len(after) :
              list'[k] = IF k <= Len(before) THEN before[k] ELSE after[k - Len(before)]
    BY <1>2, <1>3, <1>4, ConcatProperties
  <2>2. Len(before) + Len(after) = Len(list) - 1 /\ Len(before) = i - 1
    BY <1>1, <1>2, <1>3
  <2> QED BY <2>1, <2>2
<1>6. \A k \in 1..Len(list) - 1 : from(k) \in 1..Len(list) /\ list'[k] = list[from(k)]
  <2> SUFFICES ASSUME NEW k \in 1..Len(list) - 1
               PROVE  from(k) \in 1..Len(list) /\ list'[k] = list[from(k)]
    OBVIOUS
  <2>1. CASE k < i
    BY <1>1, <1>2, <1>5, <2>1
  <2>2. CASE k >= i
    <3>1. k - (i - 1) \in 1..Len(list) - i /\ i + (k - (i - 1)) = k + 1
      BY <1>1, <2>2
    <3> QED BY <1>1, <1>3, <1>5, <2>2, <3>1
  <2> QED BY <1>1, <2>1, <2>2
<1>7. \A k \in 1..Len(list) : k # i => \E j \in 1..Len(list) - 1 : from(j) = k
  <2> SUFFICES ASSUME NEW k \in 1..Len(list), k # i
               PROVE  \E j \in 1..Len(list) - 1 : from(j) = k
    OBVIOUS
  <2>1. CASE k < i
    BY <1>1, <2>1
  <2>2. CASE k > i
    <3>1. k - 1 \in 1..Len(list) - 1 /\ from(k - 1) = k
      BY <1>1, <2>2
    <3> QED BY <3>1
  <2> QED BY <1>1, <2>1, <2>2
<1>8. \A j, k \in 1..Len(list) - 1 : j < k => from(j) < from(k)
  BY <1>1
<1> HIDE DEF from
<1>9. StreamTypes' /\ RowsOK' /\ EndIsLast'
  BY <1>1, <1>5 DEF StreamInv, StreamTypes, RowsOK, EndIsLast
<1>10. ASSUME NEW r \in Readers PROVE ReaderOK(r, reader[r])' /\ StreamOK(r, reader[r])'
  <2>1. PICK x : x = reader[r]
    OBVIOUS
  <2>2. ReaderOK(r, x) /\ StreamOK(r, x) /\ reader'[r] = x
    BY <1>1, <2>1 DEF StreamInv
  <2>3. ReaderOK(r, x)'
    BY <1>1, <2>2 DEF ReaderOK, Reach, Told, Resumed
  <2>4. StreamOK(r, x)'
    <3> SUFFICES ASSUME x.phase = "reading", ~x.eof
                 PROVE  \E j \in 1..Len(list') : /\ list'[j].reader = r
                                                 /\ list'[j].number = x.number
                                                 /\ ~list'[j].complete
      BY DEF StreamOK
    <3>1. PICK k \in 1..Len(list) :
             list[k].reader = r /\ list[k].number = x.number /\ ~list[k].complete
      BY <2>2 DEF StreamOK
    <3>2. PICK j \in 1..Len(list) - 1 : from(j) = k
      BY <1>1, <1>7, <3>1
    <3> QED BY <1>5, <1>6, <3>1, <3>2
  <2> QED BY <2>2, <2>3, <2>4 DEF ReaderOK, StreamOK, Reach, Told, Resumed
<1>11. ASSUME NEW k \in 1..Len(list') PROVE SubscriberOK(list[k], reader[list[k].reader])'
  <2>1. PICK y : y = list'[k]
    OBVIOUS
  <2>2. PICK x : x = reader[y.reader]
    OBVIOUS
  <2>3. SubscriberOK(y, x) /\ reader'[y.reader] = x
    BY <1>1, <1>5, <1>6, <2>1, <2>2 DEF StreamInv
  <2>4. SubscriberOK(y, x)'
    BY <1>1, <2>3 DEF SubscriberOK, Current, Reach
  <2> QED BY <2>1, <2>3, <2>4 DEF SubscriberOK, Current, Reach
<1>12. CompleteAreLast'
  <2> SUFFICES ASSUME NEW j \in 1..Len(list'), NEW k \in 1..Len(list'), j < k, list'[j].complete
               PROVE  list'[k].complete
    BY DEF CompleteAreLast
  <2>1. from(j) < from(k) /\ list'[j] = list[from(j)] /\ list'[k] = list[from(k)]
        /\ from(j) \in 1..Len(list) /\ from(k) \in 1..Len(list)
    BY <1>5, <1>6, <1>8
  <2> QED BY <2>1 DEF StreamInv, CompleteAreLast
<1> QED BY <1>9, <1>10, <1>11, <1>12 DEF StreamInv

-----------------------------------------------------------------------------
(* Publication *)

\* publish: a connection that is open has a subscriber that is not behind a complete
\* one, and it has been sent every event before.
LEMMA StreamPublish ==
    ASSUME StreamInv, Publish
    PROVE  StreamInv'
<1> DEFINE n == published + 1
           throws == {i \in Due(n) : list[i].complete}
           served == {i \in Due(n) : \A k \in throws : i < k}
           sent == [i \in DOMAIN list |-> IF i \in served THEN [list[i] EXCEPT !.last = n]
                                          ELSE list[i]]
           reaches(r) == \E i \in served : Serves(list[i], r) /\ Live(list[i])
<1>1. /\ list \in Seq(SubscriberRecord) /\ Len(list) \in Nat /\ DOMAIN list = 1..Len(list)
      /\ reader \in [Readers -> ReaderRecord]
      /\ published \in Nat /\ n \in Nat /\ n <= Len(log) /\ Len(log) \in Nat
  BY LenProperties DEF Publish, StreamInv, StreamTypes
<1>2. /\ published' = n
      /\ reader' = [r \in Readers |-> IF reaches(r) THEN [reader[r] EXCEPT !.wire = Append(@, n)]
                                      ELSE reader[r]]
      /\ UNCHANGED <<log, replay, row, pc, faults>>
  BY DEF Publish
<1>3. PICK broken \in SUBSET {i \in served : ~Live(list[i])} :
         \E at \in Orders(DOMAIN list \ broken) : list' = [k \in DOMAIN at |-> sent[at[k]]]
  BY DEF Publish
<1>4. PICK at \in Orders(DOMAIN list \ broken) : list' = [k \in DOMAIN at |-> sent[at[k]]]
  BY <1>3
<1> DEFINE S == 1..Len(list) \ broken
           m == Cardinality(S)
<1>5. /\ m \in Nat
      /\ at \in [1..m -> S]
      /\ \A k, l \in 1..m : k < l => at[k] < at[l]
      /\ \A s \in S : \E k \in 1..m : at[k] = s
  <2>1. Len(list) \in Nat /\ at \in Orders(S) /\ S \in SUBSET (1..Len(list))
    BY <1>1, <1>4
  <2> QED BY ONLY <2>1, OrdersInOrder
<1> HIDE DEF m
<1>6. \A i \in 1..Len(list) : list[i] \in SubscriberRecord
  BY <1>1, ElementOfSeq
<1>7. served \subseteq 1..Len(list) /\ \A i \in served : ~list[i].complete /\ list[i].last < n
  <2>1. ASSUME NEW i \in served PROVE ~list[i].complete /\ list[i].last < n /\ i \in 1..Len(list)
    BY <1>1 DEF Due
  <2> QED BY <2>1
<1>8. \A i \in 1..Len(list) : ~list[i].complete /\ list[i].last < n => i \in served
  <2> SUFFICES ASSUME NEW i \in 1..Len(list), ~list[i].complete, list[i].last < n,
                      NEW k \in throws
               PROVE  i < k
    BY <1>1 DEF Due
  <2>1. k \in 1..Len(list) /\ list[k].complete
    BY <1>1 DEF Due
  <2>2. ~(k < i) /\ k # i
    BY <2>1 DEF StreamInv, CompleteAreLast
  <2> QED BY <2>1, <2>2
<1>9. \A i \in broken : i \in served /\ ~Live(list[i])
  OBVIOUS
<1>10. \A i \in 1..Len(list) : /\ sent[i] = IF i \in served THEN [list[i] EXCEPT !.last = n] ELSE list[i]
                               /\ sent[i] \in SubscriberRecord
                               /\ sent[i].complete = list[i].complete
                               /\ sent[i].reader = list[i].reader
                               /\ sent[i].number = list[i].number
  BY <1>1, <1>6 DEF SubscriberRecord
<1>11. \A r \in Readers : reaches(r) <=>
          \E i \in served : list[i].reader = r /\ Current(list[i], reader[r])
  BY DEF Serves, Live, Current
<1>12. sent \in [1..Len(list) -> SubscriberRecord]
  BY <1>1, <1>10
<1>13. /\ list' = [k \in 1..m |-> sent[at[k]]]
       /\ at \in [1..m -> 1..Len(list)]
  BY <1>4, <1>5
<1>14. list' \in Seq(SubscriberRecord) /\ Len(list') = m /\ CompleteAreLast'
  <2> HIDE DEF n, throws, served, sent, reaches
  <2>1. \A i \in 1..Len(list) : sent[i].complete = list[i].complete
    BY <1>10
  <2>2. list' = [k \in 1..m |-> sent[at[k]]] /\ at \in [1..m -> 1..Len(list)]
    BY <1>13
  <2>3. \A k, l \in 1..m : k < l => at[k] < at[l]
    BY <1>5
  <2>4. m \in Nat
    BY <1>5
  <2> QED BY ONLY StreamInv, <2>4, <2>1, <2>2, <2>3, <1>12, ThinnedList
<1> HIDE DEF n, throws, served, sent, reaches
\* Where the event goes.
<1>15. ASSUME NEW i \in 1..Len(list), NEW x \in ReaderRecord, x = reader[list[i].reader],
              i \in served, Current(list[i], x)
       PROVE  Reach(x) + Len(x.wire) = published
  <2>1. /\ SubscriberOK(list[i], x) /\ ~list[i].complete /\ list[i].last < n
        /\ list[i].last \in Nat
    BY <1>6, <1>7, <1>15 DEF StreamInv, SubscriberRecord
  <2>2. list[i].last = Reach(x) + Len(x.wire) /\ published <= list[i].last
    BY <1>15, <2>1 DEF SubscriberOK
  <2> QED BY <1>1, <2>1, <2>2 DEF n
<1>16. ASSUME NEW r \in Readers, NEW x \in ReaderRecord, x = reader[r]
       PROVE  LET z == reader'[r]
              IN  /\ z \in ReaderRecord
                  /\ \/ ~reaches(r) /\ z = x
                     \/ /\ reaches(r) /\ z = [x EXCEPT !.wire = Append(@, n)]
                        /\ x.phase = "reading"
                        /\ Reach(x) + Len(x.wire) = published
                        /\ Len(z.wire) = Len(x.wire) + 1
                        /\ \A k \in 1..Len(x.wire) : z.wire[k] = x.wire[k]
                        /\ z.wire[Len(x.wire) + 1] = n
  <2>1. CASE ~reaches(r)
    BY <1>2, <1>16, <2>1
  <2>2. CASE reaches(r)
    <3>1. PICK i \in served : list[i].reader = r /\ Current(list[i], reader[r])
      BY <1>11, <2>2
    <3>2. x.phase = "reading" /\ Reach(x) + Len(x.wire) = published
      BY <1>7, <1>15, <1>16, <3>1 DEF Current
    <3>3. reader'[r] = [x EXCEPT !.wire = Append(x.wire, n)]
      BY <1>2, <1>16, <2>2
    <3>4. /\ x.wire \in Seq(Nat) /\ Append(x.wire, n) \in Seq(Nat)
          /\ Len(Append(x.wire, n)) = Len(x.wire) + 1
          /\ \A k \in 1..Len(x.wire) : Append(x.wire, n)[k] = x.wire[k]
          /\ Append(x.wire, n)[Len(x.wire) + 1] = n
      BY <1>1, AppendProperties DEF ReaderRecord
    <3>5. reader'[r].wire = Append(x.wire, n) /\ reader'[r] \in ReaderRecord
      BY <3>3, <3>4 DEF ReaderRecord
    <3> QED BY <2>2, <3>2, <3>3, <3>4, <3>5
  <2> QED BY <2>1, <2>2
<1>17. reader' \in [Readers -> ReaderRecord]
  <2>1. \A r \in Readers : reader'[r] \in ReaderRecord
    BY <1>1, <1>16
  <2> QED BY <1>2, <2>1
<1>18. StreamTypes' /\ RowsOK' /\ EndIsLast'
  BY <1>1, <1>2, <1>14, <1>17 DEF StreamInv, StreamTypes, RowsOK, EndIsLast
<1>19. ASSUME NEW r \in Readers PROVE ReaderOK(r, reader[r])' /\ StreamOK(r, reader[r])'
  <2>1. PICK x \in ReaderRecord : x = reader[r]
    BY <1>1
  <2>2. PICK z \in ReaderRecord : z = reader'[r]
    BY <1>17
  <2>3. \/ ~reaches(r) /\ z = x
        \/ /\ reaches(r) /\ z = [x EXCEPT !.wire = Append(@, n)]
           /\ x.phase = "reading"
           /\ Reach(x) + Len(x.wire) = published
           /\ Len(z.wire) = Len(x.wire) + 1
           /\ \A k \in 1..Len(x.wire) : z.wire[k] = x.wire[k]
           /\ z.wire[Len(x.wire) + 1] = n
    BY <1>16, <2>1, <2>2
  <2>4. /\ ReaderOK(r, x) /\ StreamOK(r, x) /\ log' = log
        /\ Len(x.wire) \in Nat /\ Len(x.got) \in Nat /\ x.from \in Nat
    BY <1>2, <2>1, LenProperties DEF StreamInv, ReaderRecord
  <2>5. ReaderOK(r, z)'
    <3>1. CASE z = x
      BY <2>4, <3>1 DEF ReaderOK, Reach, Told, Resumed
    <3>2. CASE z = [x EXCEPT !.wire = Append(@, n)] /\ z # x
      <4>1. /\ z.got = x.got /\ z.from = x.from /\ z.phase = x.phase /\ z.number = x.number
            /\ z.terminal = x.terminal /\ Reach(z) = Reach(x) /\ Reach(x) \in Nat
        BY <2>4, <3>2 DEF ReaderRecord, Reach
      <4>2. \A k \in 1..Len(z.wire) : z.wire[k] = Reach(z) + k
        <5> SUFFICES ASSUME NEW k \in 1..Len(z.wire) PROVE z.wire[k] = Reach(z) + k
          OBVIOUS
        <5>1. CASE k \in 1..Len(x.wire)
          BY <2>3, <2>4, <3>2, <4>1, <5>1 DEF ReaderOK
        <5>2. CASE k = Len(x.wire) + 1
          BY <1>1, <2>3, <2>4, <3>2, <4>1, <5>2 DEF n
        <5> QED BY <2>3, <2>4, <3>2, <5>1, <5>2
      <4>3. Reach(z) + Len(z.wire) <= Len(log)
        BY <1>1, <2>3, <2>4, <3>2, <4>1 DEF n
      <4>4. z.phase = "reading"
        BY <2>3, <3>2, <4>1
      <4>5. z.terminal => Told(z)'
        BY <2>4, <4>1 DEF ReaderOK, Told, Resumed, Reach
      <4>6. \A k \in 1..Len(z.got) : z.got[k] = z.from + k
        BY <2>4, <4>1 DEF ReaderOK
      <4> QED BY <2>4, <4>2, <4>3, <4>4, <4>5, <4>6 DEF ReaderOK, Reach, Settled
    <3> QED BY <2>3, <3>1, <3>2
  <2>6. StreamOK(r, z)'
    <3> SUFFICES ASSUME z.phase = "reading", ~z.eof
                 PROVE  \E j \in 1..Len(list') : /\ list'[j].reader = r
                                                 /\ list'[j].number = z.number
                                                 /\ ~list'[j].complete
      BY DEF StreamOK
    <3>1. x.phase = "reading" /\ ~x.eof /\ x.number = z.number
      BY <2>3 DEF ReaderRecord
    <3>2. PICK i \in 1..Len(list) :
             list[i].reader = r /\ list[i].number = x.number /\ ~list[i].complete
      BY <2>4, <3>1 DEF StreamOK
    <3>3. i \notin broken
      BY <1>9, <2>1, <3>1, <3>2 DEF Live, Serves
    <3>4. PICK j \in 1..m : at[j] = i
      BY <1>5, <3>3
    <3>5. list'[j] = sent[i]
      BY <1>13, <3>4
    <3>6. sent[i].reader = r /\ sent[i].number = z.number /\ ~sent[i].complete
      BY <1>10, <3>1, <3>2
    <3> QED BY <1>14, <3>4, <3>5, <3>6
  <2> QED BY <2>2, <2>5, <2>6 DEF ReaderOK, StreamOK, Reach, Told, Resumed
<1>20. ASSUME NEW k \in 1..Len(list') PROVE SubscriberOK(list[k], reader[list[k].reader])'
  <2>1. PICK i \in 1..Len(list) : list'[k] = sent[i]
    BY <1>13, <1>14
  <2>2. PICK y \in SubscriberRecord : y = list[i]
    BY <1>6
  <2>3. PICK y1 \in SubscriberRecord : y1 = sent[i]
    BY <1>10
  <2>4. /\ y1 = IF i \in served THEN [y EXCEPT !.last = n] ELSE y
        /\ y1.complete = y.complete /\ y1.number = y.number /\ y1.reader = y.reader
    BY <1>10, <2>2, <2>3
  <2>5. y.reader \in Readers
    BY DEF SubscriberRecord
  <2>6. PICK x \in ReaderRecord : x = reader[y.reader]
    BY <1>1, <2>5
  <2>7. PICK z \in ReaderRecord : z = reader'[y.reader]
    BY <1>17, <2>5
  <2>8. \/ ~reaches(y.reader) /\ z = x
        \/ /\ reaches(y.reader) /\ z = [x EXCEPT !.wire = Append(@, n)]
           /\ x.phase = "reading"
           /\ Reach(x) + Len(x.wire) = published
           /\ Len(z.wire) = Len(x.wire) + 1
    <3> PICK r \in Readers : r = y.reader
      BY <2>5
    <3>1. x = reader[r] /\ z = reader'[r]
      BY <2>6, <2>7
    <3>2. \/ ~reaches(r) /\ z = x
          \/ /\ reaches(r) /\ z = [x EXCEPT !.wire = Append(@, n)]
             /\ x.phase = "reading"
             /\ Reach(x) + Len(x.wire) = published
             /\ Len(z.wire) = Len(x.wire) + 1
      BY <1>16, <3>1
    <3> QED BY <3>2
  <2>9. SubscriberOK(y, x) /\ log' = log /\ row' = row /\ published' = n
    BY <1>2, <2>2, <2>6 DEF StreamInv
  <2>10. /\ z.phase = x.phase /\ z.number = x.number /\ z.eof = x.eof
         /\ z.from = x.from /\ z.got = x.got /\ Reach(z) = Reach(x)
         /\ Len(x.wire) \in Nat /\ Reach(x) \in Nat /\ y.last \in Nat
    <3>1. /\ z.phase = x.phase /\ z.number = x.number /\ z.eof = x.eof
          /\ z.from = x.from /\ z.got = x.got
      BY <2>8 DEF ReaderRecord
    <3>2. x.wire \in Seq(Nat) /\ x.got \in Seq(Nat) /\ x.from \in Nat /\ y.last \in Nat
      BY DEF ReaderRecord, SubscriberRecord
    <3>3. Len(x.wire) \in Nat /\ Len(x.got) \in Nat
      BY <3>2, LenProperties
    <3> QED BY <3>1, <3>2, <3>3 DEF Reach
  <2>11. y1.last <= Len(log)
    BY <1>1, <2>4, <2>9 DEF SubscriberOK, SubscriberRecord
  <2>12. Current(y1, z) <=> Current(y, x)
    BY <2>4, <2>10 DEF Current
  <2>13. Current(y, x) /\ ~y.complete => y1.last = Reach(z) + Len(z.wire) /\ n <= y1.last
    <3> SUFFICES ASSUME Current(y, x), ~y.complete
                 PROVE  y1.last = Reach(z) + Len(z.wire) /\ n <= y1.last
      OBVIOUS
    <3>1. y.last = Reach(x) + Len(x.wire) /\ published <= y.last
      BY <2>9 DEF SubscriberOK
    <3>2. CASE y.last < n
      <4>1. i \in served
        BY <1>8, <2>2, <3>2
      <4>2. reaches(y.reader)
        BY <1>11, <2>2, <2>5, <2>6, <4>1
      <4>3. y1.last = n
        BY <2>4, <4>1 DEF SubscriberRecord
      <4>4. Reach(x) + Len(x.wire) = published /\ Len(z.wire) = Len(x.wire) + 1
        BY <2>8, <4>2
      <4>5. Reach(z) + Len(z.wire) = n
        BY <1>1, <2>10, <4>4 DEF n
      <4> QED BY <1>1, <4>3, <4>5
    <3>3. CASE y.last >= n
      <4>1. i \notin served
        BY <1>1, <1>7, <2>2, <2>10, <3>3
      <4>2. ~reaches(y.reader)
        BY <1>1, <2>8, <2>10, <3>1, <3>3 DEF n
      <4> QED BY <2>4, <2>8, <3>1, <3>3, <4>1, <4>2
    <3> QED BY <1>1, <2>10, <3>2, <3>3
  <2>14. SubscriberOK(y1, z)'
    BY <2>4, <2>9, <2>10, <2>11, <2>12, <2>13 DEF SubscriberOK, Current, Reach
  <2> QED BY <2>1, <2>3, <2>4, <2>7, <2>14 DEF SubscriberOK, Current, Reach
<1> QED BY <1>14, <1>18, <1>19, <1>20 DEF StreamInv

\* complete: every stream that had not ended has a subscriber, and ends.
LEMMA StreamClosed ==
    ASSUME StreamInv, CloseStreams
    PROVE  StreamInv'
<1> DEFINE served(r) == \E i \in DOMAIN list : Serves(list[i], r) /\ Live(list[i])
<1>1. /\ list \in Seq(SubscriberRecord) /\ Len(list) \in Nat /\ DOMAIN list = 1..Len(list)
      /\ reader \in [Readers -> ReaderRecord]
  BY LenProperties DEF StreamInv, StreamTypes
<1>2. /\ pc = "closing" /\ list' = <<>>
      /\ pc' = IF row = "terminal" THEN "over" ELSE "paused"
      /\ reader' = [r \in Readers |-> IF served(r) THEN [reader[r] EXCEPT !.eof = TRUE]
                                      ELSE reader[r]]
      /\ UNCHANGED <<log, published, replay, row, faults>>
  BY DEF CloseStreams
<1>3. list' \in Seq(SubscriberRecord) /\ 1..Len(list') = {}
  BY <1>2, EmptySeq
<1>4. ASSUME NEW r \in Readers, NEW x \in ReaderRecord, x = reader[r]
      PROVE  \/ reader'[r] = x
             \/ x.phase = "reading" /\ reader'[r] = [x EXCEPT !.eof = TRUE]
  BY <1>2, <1>4 DEF Serves, Live
<1>5. reader' \in [Readers -> ReaderRecord]
  <2>1. ASSUME NEW r \in Readers PROVE reader'[r] \in ReaderRecord
    <3>1. PICK x \in ReaderRecord : x = reader[r]
      BY <1>1
    <3>2. [x EXCEPT !.eof = TRUE] \in ReaderRecord
      BY DEF ReaderRecord
    <3>3. reader'[r] = x \/ reader'[r] = [x EXCEPT !.eof = TRUE]
      BY <1>4, <3>1
    <3> QED BY <3>2, <3>3
  <2> QED BY <1>2, <2>1
<1>6. StreamTypes' /\ RowsOK' /\ EndIsLast'
  BY <1>2, <1>3, <1>5 DEF StreamInv, StreamTypes, RowsOK, EndIsLast
<1>7. ASSUME NEW r \in Readers PROVE ReaderOK(r, reader[r])' /\ StreamOK(r, reader[r])'
  <2>1. PICK x \in ReaderRecord : x = reader[r]
    BY <1>1
  <2>2. PICK z \in ReaderRecord : z = reader'[r]
    BY <1>5
  <2>3. z = x \/ (x.phase = "reading" /\ z = [x EXCEPT !.eof = TRUE])
    BY <1>4, <2>1, <2>2
  <2>4. /\ z.got = x.got /\ z.from = x.from /\ z.phase = x.phase /\ z.number = x.number
        /\ z.terminal = x.terminal /\ z.wire = x.wire
    BY <2>3 DEF ReaderRecord
  <2>5. ReaderOK(r, x) /\ StreamOK(r, x) /\ log' = log
    BY <1>2, <2>1 DEF StreamInv
  <2>6. ReaderOK(r, z)'
    BY <2>4, <2>5 DEF ReaderOK, Reach, Told, Resumed
  <2>7. x.phase = "reading" /\ ~x.eof => served(r)
    <3> SUFFICES ASSUME x.phase = "reading", ~x.eof PROVE served(r)
      OBVIOUS
    <3>1. PICK i \in 1..Len(list) :
             list[i].reader = r /\ list[i].number = x.number /\ ~list[i].complete
      BY <2>5 DEF StreamOK
    <3> QED BY <1>1, <2>1, <3>1 DEF Serves, Live
  <2>8. StreamOK(r, z)'
    <3>1. ASSUME z.phase = "reading" PROVE z.eof
      <4>1. CASE x.eof
        BY <2>3, <4>1 DEF ReaderRecord
      <4>2. CASE ~x.eof
        <5>1. z = [x EXCEPT !.eof = TRUE]
          BY <1>2, <2>1, <2>2, <2>4, <2>7, <3>1, <4>2
        <5> QED BY <5>1 DEF ReaderRecord
      <4> QED BY <4>1, <4>2
    <3> QED BY <3>1 DEF StreamOK
  <2> QED BY <2>2, <2>6, <2>8 DEF ReaderOK, StreamOK, Reach, Told, Resumed
<1>8. CompleteAreLast' /\ \A i \in 1..Len(list') : SubscriberOK(list[i], reader[list[i].reader])'
  BY <1>3 DEF CompleteAreLast
<1> QED BY <1>6, <1>7, <1>8 DEF StreamInv

-----------------------------------------------------------------------------
(* The desktop *)

\* A reader changes, and the registry does not.
LEMMA StreamReaderMoves ==
    ASSUME StreamInv, NEW r \in Readers, NEW z \in ReaderRecord,
           reader' = [reader EXCEPT ![r] = z], faults' \in 0..MaxFaults,
           UNCHANGED <<log, published, replay, row, pc, list>>,
           ReaderOK(r, z), StreamOK(r, z),
           \A i \in 1..Len(list) : list[i].reader = r => SubscriberOK(list[i], z)
    PROVE  StreamInv'
<1>1. /\ list \in Seq(SubscriberRecord) /\ Len(list) \in Nat
      /\ reader \in [Readers -> ReaderRecord] /\ reader' \in [Readers -> ReaderRecord]
      /\ reader'[r] = z /\ \A q \in Readers : q # r => reader'[q] = reader[q]
      /\ \A i \in 1..Len(list) : list[i] \in SubscriberRecord
  BY LenProperties, ElementOfSeq DEF StreamInv, StreamTypes
<1>2. StreamTypes' /\ RowsOK' /\ EndIsLast' /\ CompleteAreLast'
  BY <1>1 DEF StreamInv, StreamTypes, RowsOK, EndIsLast, CompleteAreLast
<1>3. ASSUME NEW q \in Readers PROVE ReaderOK(q, reader[q])' /\ StreamOK(q, reader[q])'
  <2>1. PICK x \in ReaderRecord : x = reader'[q]
    BY <1>1
  <2>2. ReaderOK(q, x) /\ StreamOK(q, x)
    BY <1>1, <2>1 DEF StreamInv
  <2>3. ReaderOK(q, x)' /\ StreamOK(q, x)'
    BY <2>2 DEF ReaderOK, StreamOK, Reach, Told, Resumed
  <2> QED BY <2>1, <2>3 DEF ReaderOK, StreamOK, Reach, Told, Resumed
<1>4. ASSUME NEW i \in 1..Len(list') PROVE SubscriberOK(list[i], reader[list[i].reader])'
  <2>1. PICK y \in SubscriberRecord : y = list[i]
    BY <1>1
  <2>2. y.reader \in Readers
    BY DEF SubscriberRecord
  <2>3. PICK x \in ReaderRecord : x = reader'[y.reader]
    BY <1>1, <2>2
  <2>4. SubscriberOK(y, x)
    BY <1>1, <2>1, <2>2, <2>3 DEF StreamInv
  <2>5. SubscriberOK(y, x)'
    BY <2>4 DEF SubscriberOK, Current, Reach
  <2> QED BY <2>1, <2>3, <2>5 DEF SubscriberOK, Current, Reach
<1> QED BY <1>2, <1>3, <1>4 DEF StreamInv

\* A subscription that is over keeps what it was given, and has no connection.
LEMMA SettledReader ==
    ASSUME StreamInv, NEW r \in Readers, NEW x \in ReaderRecord, x = reader[r],
           NEW phase \in Settled, phase = "ended" /\ r \in Numbered => Told(x)
    PROVE  /\ Settle(x, phase) \in ReaderRecord
           /\ ReaderOK(r, Settle(x, phase)) /\ StreamOK(r, Settle(x, phase))
           /\ \A i \in 1..Len(list) : list[i].reader = r => SubscriberOK(list[i], Settle(x, phase))
<1> DEFINE z == Settle(x, phase)
<1>1. /\ z.phase = phase /\ z.from = x.from /\ z.got = x.got /\ z.number = 0
      /\ z.wire = <<>> /\ ~z.eof /\ ~z.terminal
      /\ z \in ReaderRecord
  <2>1. /\ NotStarted.number = 0 /\ NotStarted.wire = <<>> /\ ~NotStarted.eof
        /\ ~NotStarted.terminal
    BY DEF NotStarted
  <2>2. NotStarted \in ReaderRecord
    BY EmptySeq, BoundsAssumption DEF NotStarted, ReaderRecord
  <2>3. phase \in {"idle", "connecting", "reading", "backoff"} \cup Settled
    OBVIOUS
  <2>4. x.from \in Nat /\ x.got \in Seq(Nat)
    BY DEF ReaderRecord
  <2> QED BY <2>1, <2>2, <2>3, <2>4 DEF Settle, ReaderRecord
<1>2. /\ Settled = {"ended", "failed", "aborted"}
      /\ phase \notin {"idle", "connecting", "backoff", "reading"}
      /\ Len(<<>>) = 0 /\ 1..0 = {} /\ <<>> \in Seq(Nat)
  BY EmptySeq DEF Settled
<1>3. z \in ReaderRecord
  BY <1>1
<1> HIDE DEF z
<1>4. /\ ReaderOK(r, x) /\ Len(log) \in Nat
      /\ Len(x.got) \in Nat /\ Len(x.wire) \in Nat /\ x.from \in Nat
  BY LenProperties DEF StreamInv, StreamTypes, ReaderRecord
<1>5. ReaderOK(r, z)
  <2>1. Reach(z) = Reach(x) /\ Reach(x) \in Nat /\ Reach(x) + Len(x.wire) <= Len(log)
    BY <1>1, <1>4 DEF Reach, ReaderOK
  <2>2. Reach(z) + Len(z.wire) <= Len(log)
    BY <1>1, <1>2, <1>4, <2>1
  <2>3. Told(x) => Told(z)
    BY <1>1 DEF Told, Reach, Resumed
  <2> QED BY <1>1, <1>2, <1>4, <2>2, <2>3 DEF ReaderOK
<1>6. StreamOK(r, z)
  BY <1>1, <1>2 DEF StreamOK
<1>7. ASSUME NEW i \in 1..Len(list), list[i].reader = r PROVE SubscriberOK(list[i], z)
  <2>1. SubscriberOK(list[i], x)
    BY <1>7 DEF StreamInv
  <2> QED BY <1>1, <1>2, <2>1 DEF SubscriberOK, Current
<1> QED BY <1>3, <1>5, <1>6, <1>7 DEF z

\* Subscribe, Unsubscribe, Break and Reconnect.
LEMMA StreamSubscription ==
    ASSUME StreamInv, NEW r \in Readers, Subscribe(r) \/ Unsubscribe(r) \/ Break(r) \/ Reconnect(r)
    PROVE  StreamInv'
<1>1. /\ reader \in [Readers -> ReaderRecord] /\ Len(log) \in Nat /\ replay \in Nat
      /\ faults \in 0..MaxFaults /\ MaxFaults \in Nat
  BY LenProperties, BoundsAssumption DEF StreamInv, StreamTypes
<1>2. PICK x \in ReaderRecord : x = reader[r]
  BY <1>1
<1>3. /\ ReaderOK(r, x) /\ StreamOK(r, x)
      /\ \A i \in 1..Len(list) : list[i].reader = r => SubscriberOK(list[i], x)
      /\ Len(x.got) \in Nat /\ Len(x.wire) \in Nat /\ x.from \in Nat
      /\ {"failed", "aborted"} \subseteq Settled /\ "connecting" \notin Settled
      /\ "idle" \notin Settled /\ "backoff" \notin Settled
  BY <1>2, LenProperties DEF StreamInv, ReaderRecord, Settled
<1>4. CASE Subscribe(r)
  <2>1. PICK n \in IF r \in Raw THEN {0} ELSE replay..Len(log) :
           reader' = [reader EXCEPT ![r].phase = "connecting", ![r].from = n]
    BY <1>4 DEF Subscribe
  <2> DEFINE z == [x EXCEPT !.phase = "connecting", !.from = n]
  <2>2. n \in Nat /\ n <= Len(log) /\ x.phase = "idle" /\ reader' = [reader EXCEPT ![r] = z]
    <3>1. n \in Nat /\ n <= Len(log) /\ x.phase = "idle"
      <4>1. n = 0 \/ n \in replay..Len(log)
        BY <2>1
      <4>2. x.phase = "idle"
        BY <1>2, <1>4 DEF Subscribe
      <4> QED BY ONLY <1>1, <4>1, <4>2
    <3>2. /\ reader' = [q \in Readers |-> IF q = r THEN z ELSE reader[q]]
          /\ reader' = [reader EXCEPT ![r] = z]
      BY <1>1, <1>2, <2>1
    <3> QED BY <3>1, <3>2
  <2>3. /\ z \in ReaderRecord /\ z.phase = "connecting" /\ z.from = n /\ z.got = x.got
        /\ z.wire = x.wire /\ z.number = x.number /\ z.terminal = x.terminal
    BY <2>2 DEF ReaderRecord
  <2>4. x.got = <<>> /\ x.wire = <<>> /\ x.number = 0 /\ ~x.terminal /\ Len(<<>>) = 0 /\ 1..0 = {}
    BY <1>3, <2>2, EmptySeq DEF ReaderOK, Told
  <2> HIDE DEF z
  <2>5. ReaderOK(r, z) /\ StreamOK(r, z)
    BY <1>1, <1>3, <2>2, <2>3, <2>4, BoundsAssumption DEF ReaderOK, StreamOK, Reach
  <2>6. \A i \in 1..Len(list) : list[i].reader = r => SubscriberOK(list[i], z)
    BY <1>3, <2>2, <2>3 DEF SubscriberOK, Current
  <2>7. UNCHANGED <<log, published, replay, row, pc, list, faults>>
    BY <1>4 DEF Subscribe
  <2> QED BY <1>1, <2>2, <2>3, <2>5, <2>6, <2>7, StreamReaderMoves
<1>5. CASE Unsubscribe(r)
  <2>1. /\ reader' = [reader EXCEPT ![r] = Settle(x, "aborted")]
        /\ UNCHANGED <<log, published, replay, row, pc, list, faults>>
    BY <1>2, <1>5 DEF Unsubscribe
  <2> QED BY <1>1, <1>2, <1>3, <2>1, SettledReader, StreamReaderMoves
<1>6. CASE Break(r)
  <2>1. /\ reader' = [reader EXCEPT ![r] = Settle(x, "failed")]
        /\ UNCHANGED <<log, published, replay, row, pc, list>>
    BY <1>2, <1>6 DEF Break
  <2>2. faults' \in 0..MaxFaults
    BY <1>1, <1>6 DEF Break
  <2> QED BY <1>1, <1>2, <1>3, <2>1, <2>2, SettledReader, StreamReaderMoves
<1>7. CASE Reconnect(r)
  <2> DEFINE z == [x EXCEPT !.phase = "connecting"]
  <2>1. x.phase = "backoff" /\ reader' = [reader EXCEPT ![r] = z]
    BY <1>2, <1>7 DEF Reconnect
  <2>2. /\ z \in ReaderRecord /\ z.phase = "connecting" /\ z.from = x.from /\ z.got = x.got
        /\ z.wire = x.wire /\ z.number = x.number /\ z.terminal = x.terminal
    BY DEF ReaderRecord
  <2> HIDE DEF z
  <2>3. ReaderOK(r, z) /\ StreamOK(r, z)
    BY <1>3, <2>1, <2>2 DEF ReaderOK, StreamOK, Reach, Told, Resumed
  <2>4. \A i \in 1..Len(list) : list[i].reader = r => SubscriberOK(list[i], z)
    BY <1>3, <2>1, <2>2 DEF SubscriberOK, Current
  <2>5. UNCHANGED <<log, published, replay, row, pc, list, faults>>
    BY <1>7 DEF Reconnect
  <2> QED BY <1>1, <2>1, <2>2, <2>3, <2>4, <2>5, StreamReaderMoves
<1> QED BY <1>4, <1>5, <1>6, <1>7

\* AtEof: the stream has ended with nothing behind the last event read.
LEMMA StreamAtEof ==
    ASSUME StreamInv, NEW r \in Readers, AtEof(r)
    PROVE  StreamInv'
<1>1. PICK x \in ReaderRecord : x = reader[r]
  BY DEF StreamInv, StreamTypes
<1>2. /\ x.phase = "reading" /\ x.wire = <<>> /\ x.eof
      /\ reader' = [reader EXCEPT ![r] = AfterEof(r, x)]
      /\ faults' \in 0..MaxFaults
      /\ UNCHANGED <<log, published, replay, row, pc, list>>
  BY <1>1 DEF AtEof, StreamInv, StreamTypes
<1>3. /\ ReaderOK(r, x)
      /\ \A i \in 1..Len(list) : list[i].reader = r => SubscriberOK(list[i], x)
      /\ {"ended", "failed"} \subseteq Settled /\ "reading" \notin Settled
      /\ "backoff" \notin Settled /\ MaxReconnects \in Nat /\ x.number \in Nat
  BY <1>1, BoundsAssumption DEF StreamInv, ReaderRecord, Settled
<1>4. CASE r \in Raw \/ x.terminal
  <2>1. AfterEof(r, x) = Settle(x, "ended")
    BY <1>4 DEF AfterEof
  <2>2. r \in Numbered => Told(x)
    BY <1>3, <1>4, ReadersAssumption DEF ReaderOK
  <2> QED BY <1>1, <1>2, <1>3, <2>1, <2>2, SettledReader, StreamReaderMoves
<1>5. CASE ~(r \in Raw \/ x.terminal) /\ x.number > MaxReconnects
  <2>1. AfterEof(r, x) = Settle(x, "failed")
    BY <1>5 DEF AfterEof
  <2> QED BY <1>1, <1>2, <1>3, <2>1, SettledReader, StreamReaderMoves
<1>6. CASE ~(r \in Raw \/ x.terminal) /\ ~(x.number > MaxReconnects)
  <2> DEFINE z == [x EXCEPT !.phase = "backoff", !.eof = FALSE]
  <2>1. reader' = [reader EXCEPT ![r] = z]
    BY <1>2, <1>6 DEF AfterEof
  <2>2. /\ z \in ReaderRecord /\ z.phase = "backoff" /\ z.from = x.from /\ z.got = x.got
        /\ z.wire = x.wire /\ z.number = x.number /\ z.terminal = x.terminal
    BY DEF ReaderRecord
  <2> HIDE DEF z
  <2>3. x.number <= MaxReconnects
    BY <1>3, <1>6
  <2>4. ReaderOK(r, z) /\ StreamOK(r, z)
    BY <1>3, <2>2, <2>3 DEF ReaderOK, StreamOK, Reach, Told, Resumed
  <2>5. \A i \in 1..Len(list) : list[i].reader = r => SubscriberOK(list[i], z)
    BY <1>2, <1>3, <2>2 DEF SubscriberOK, Current
  <2> QED BY <1>2, <2>1, <2>2, <2>4, <2>5, StreamReaderMoves
<1> QED BY <1>4, <1>5, <1>6

\* The cursor is the number of the last event a reader was given.
LEMMA CursorIsReach ==
    ASSUME NEW x \in ReaderRecord, \A k \in 1..Len(x.got) : x.got[k] = x.from + k
    PROVE  Cursor(x) = Reach(x) /\ Reach(x) \in Nat
<1>1. x.got \in Seq(Nat) /\ Len(x.got) \in Nat /\ x.from \in Nat /\ Len(<<>>) = 0
  BY LenProperties, EmptySeq DEF ReaderRecord
<1>2. CASE x.got = <<>>
  BY <1>1, <1>2 DEF Cursor, Reach
<1>3. CASE x.got # <<>>
  <2>1. Len(x.got) \in 1..Len(x.got)
    BY <1>1, <1>3, EmptySeq
  <2> QED BY <1>1, <1>3, <2>1 DEF Cursor, Reach, Last
<1> QED BY <1>2, <1>3

\* Read: the event read is the next one, so none is skipped. One behind an ending is
\* that of a resumption.
LEMMA StreamRead ==
    ASSUME StreamInv, NEW r \in Readers, Read(r)
    PROVE  StreamInv'
<1>1. PICK x \in ReaderRecord : x = reader[r]
  BY DEF StreamInv, StreamTypes
<1> DEFINE n == Head(x.wire)
<1>2. /\ ReaderOK(r, x) /\ StreamOK(r, x)
      /\ \A i \in 1..Len(list) : list[i].reader = r => SubscriberOK(list[i], x)
      /\ Len(x.got) \in Nat /\ Len(x.wire) \in Nat /\ x.from \in Nat /\ Len(log) \in Nat
      /\ x.got \in Seq(Nat) /\ x.wire \in Seq(Nat)
  BY <1>1, LenProperties DEF StreamInv, StreamTypes, ReaderRecord
<1>3. x.phase = "reading" /\ x.wire # <<>>
  BY <1>1 DEF Read
<1>4. Cursor(x) = Reach(x) /\ Reach(x) \in Nat
  BY <1>2, CursorIsReach DEF ReaderOK
<1>5. /\ Len(x.wire) >= 1 /\ Tail(x.wire) \in Seq(Nat) /\ Len(Tail(x.wire)) = Len(x.wire) - 1
      /\ \A k \in 1..Len(x.wire) - 1 : Tail(x.wire)[k] = x.wire[k + 1]
      /\ n = x.wire[1]
  <2>1. Len(x.wire) \in Nat \ {0}
    BY <1>2, <1>3, EmptySeq
  <2> QED BY <1>2, <1>3, <2>1, HeadTailProperties
<1>6. n = Reach(x) + 1 /\ n \in 1..Len(log)
  <2>1. 1 \in 1..Len(x.wire)
    BY <1>2, <1>5
  <2>2. n = Reach(x) + 1
    BY <1>2, <1>5, <2>1 DEF ReaderOK
  <2>3. Reach(x) + Len(x.wire) <= Len(log)
    BY <1>2 DEF ReaderOK
  <2> QED BY <1>2, <1>4, <1>5, <2>2, <2>3
<1> DEFINE z == [x EXCEPT !.wire = Tail(@), !.terminal = @ \/ (TRUE /\ log[n] \in Terminal),
                          !.got = Append(@, n)]
<1>7. /\ reader' = [reader EXCEPT ![r] = z] /\ faults' \in 0..MaxFaults
      /\ UNCHANGED <<log, published, replay, row, pc, list>>
  <2>1. n > Cursor(x)
    BY <1>4, <1>6
  <2> QED BY <1>1, <2>1 DEF Read, StreamInv, StreamTypes
<1> HIDE DEF n
<1>8. /\ Append(x.got, n) \in Seq(Nat) /\ Append(x.got, n) # <<>>
      /\ Len(Append(x.got, n)) = Len(x.got) + 1
      /\ \A k \in 1..Len(x.got) : Append(x.got, n)[k] = x.got[k]
      /\ Append(x.got, n)[Len(x.got) + 1] = n
  <2>1. n \in Nat
    BY <1>2, <1>6
  <2>2. x.got \in Seq(Nat)
    BY <1>2
  <2> QED BY ONLY <2>1, <2>2, AppendProperties
<1>9. /\ z \in ReaderRecord /\ z.phase = "reading" /\ z.from = x.from /\ z.number = x.number
      /\ z.eof = x.eof /\ z.wire = Tail(x.wire) /\ z.got = Append(x.got, n)
  <2>1. z = [x EXCEPT !.wire = Tail(x.wire), !.terminal = x.terminal \/ log[n] \in Terminal,
                      !.got = Append(x.got, n)]
    OBVIOUS
  <2> QED BY <1>3, <1>5, <1>8, <2>1 DEF ReaderRecord
<1>9a. z.terminal <=> (x.terminal \/ log[n] \in Terminal)
  BY DEF ReaderRecord
<1> HIDE DEF z
<1>10. Reach(z) = Reach(x) + 1 /\ Reach(z) + Len(z.wire) = Reach(x) + Len(x.wire)
  <2>1. Len(z.got) = Len(x.got) + 1 /\ Len(z.wire) = Len(x.wire) - 1 /\ z.from = x.from
    BY <1>5, <1>8, <1>9
  <2>2. Reach(x) = x.from + Len(x.got) /\ Reach(z) = z.from + Len(z.got)
    BY DEF Reach
  <2>3. Len(x.got) \in Nat /\ Len(x.wire) \in Nat /\ x.from \in Nat
    BY <1>2
  <2> QED BY ONLY <2>1, <2>2, <2>3
<1>11. \A k \in 1..Len(z.got) : z.got[k] = z.from + k
  <2> SUFFICES ASSUME NEW k \in 1..Len(z.got) PROVE z.got[k] = z.from + k
    OBVIOUS
  <2>1. CASE k \in 1..Len(x.got)
    BY <1>2, <1>8, <1>9, <2>1 DEF ReaderOK
  <2>2. CASE k = Len(x.got) + 1
    BY <1>2, <1>6, <1>8, <1>9, <2>2 DEF Reach
  <2> QED BY <1>2, <1>8, <1>9, <2>1, <2>2
<1>12. \A k \in 1..Len(z.wire) : z.wire[k] = Reach(z) + k
  <2> SUFFICES ASSUME NEW k \in 1..Len(z.wire) PROVE z.wire[k] = Reach(z) + k
    OBVIOUS
  <2>1. z.wire[k] = x.wire[k + 1] /\ k + 1 \in 1..Len(x.wire)
    BY <1>2, <1>5, <1>9
  <2>2. x.wire[k + 1] = Reach(x) + (k + 1)
    BY <1>2, <2>1 DEF ReaderOK
  <2> QED BY <1>4, <1>10, <2>1, <2>2
<1>13. z.terminal => Told(z)
  <2>1. Reach(z) = n /\ z.got # <<>>
    BY <1>6, <1>8, <1>9, <1>10
  <2>2. CASE log[n] \in Terminal
    BY <2>1, <2>2 DEF Told
  <2>3. CASE x.terminal /\ log[n] \notin Terminal
    <3>1. x.got # <<>> /\ (log[Reach(x)] \in Terminal \/ Resumed(x))
      BY <1>2, <2>3 DEF ReaderOK, Told
    <3>2. Len(x.got) >= 1
      BY <1>2, <3>1, EmptySeq
    <3>3. Resumed(z)
      <4>1. CASE Resumed(x)
        <5>1. PICK k \in x.from + 1..x.from + Len(x.got) - 1 : log[k] = "paused" /\ log[k + 1] = "text"
          BY <4>1 DEF Resumed
        <5>2. k \in z.from + 1..z.from + Len(z.got) - 1
          BY <1>2, <1>8, <1>9, <5>1
        <5> QED BY <5>1, <5>2 DEF Resumed
      <4>2. CASE log[Reach(x)] \in Terminal
        <5>1. Reach(x) \in 1..Len(log) /\ Reach(x) # Len(log)
          BY <1>2, <1>6, <3>2 DEF Reach
        <5>2. log[Reach(x)] # "ended"
          BY <5>1 DEF StreamInv, EndIsLast
        <5>3. log[Reach(x)] = "paused"
          BY <4>2, <5>2 DEF Terminal
        <5>4. log[n] \in {"text"} \cup Terminal
          BY <1>6, ElementOfSeq DEF StreamInv, StreamTypes
        <5>5. log[Reach(x) + 1] = "text"
          BY <1>6, <2>3, <5>4
        <5>6. Reach(x) \in z.from + 1..z.from + Len(z.got) - 1
          BY <1>2, <1>8, <1>9, <3>2 DEF Reach
        <5> QED BY <5>3, <5>5, <5>6 DEF Resumed
      <4> QED BY <3>1, <4>1, <4>2
    <3> QED BY <2>1, <3>3 DEF Told
  <2> QED BY <1>9a, <2>2, <2>3
<1>14. ReaderOK(r, z) /\ StreamOK(r, z)
  <2>1. z.phase \notin {"idle", "ended", "connecting", "backoff"} \cup Settled
    BY <1>9 DEF Settled
  <2>2. Reach(z) + Len(z.wire) <= Len(log)
    BY <1>2, <1>10 DEF ReaderOK
  <2>3. ReaderOK(r, z)
    BY <1>11, <1>12, <1>13, <2>1, <2>2 DEF ReaderOK
  <2>4. StreamOK(r, z)
    BY <1>2, <1>3, <1>9 DEF StreamOK
  <2> QED BY <2>3, <2>4
<1>15. \A i \in 1..Len(list) : list[i].reader = r => SubscriberOK(list[i], z)
  BY <1>2, <1>3, <1>9, <1>10 DEF SubscriberOK, Current, Settled
<1> QED BY <1>7, <1>9, <1>14, <1>15, StreamReaderMoves

\* Connect: the replay and the subscription leave no event between them.
LEMMA StreamConnect ==
    ASSUME StreamInv, NEW r \in Readers, Connect(r)
    PROVE  StreamInv'
<1>1. /\ list \in Seq(SubscriberRecord) /\ Len(list) \in Nat
      /\ \A i \in 1..Len(list) : list[i] \in SubscriberRecord
      /\ reader \in [Readers -> ReaderRecord]
      /\ Len(log) \in Nat /\ published \in Nat /\ published <= Len(log) /\ MaxReconnects \in Nat
  BY LenProperties, ElementOfSeq, BoundsAssumption DEF StreamInv, StreamTypes
<1>2. PICK x \in ReaderRecord : x = reader[r]
  BY <1>1
<1>3. /\ ReaderOK(r, x)
      /\ Len(x.got) \in Nat /\ Len(x.wire) \in Nat /\ x.from \in Nat /\ x.number \in Nat
  BY <1>1, <1>2, LenProperties DEF StreamInv, ReaderRecord
<1>4. Cursor(x) = Reach(x) /\ Reach(x) \in Nat /\ Reach(x) <= Len(log)
  <2>1. Cursor(x) = Reach(x) /\ Reach(x) \in Nat
    BY <1>3, CursorIsReach DEF ReaderOK
  <2>2. Reach(x) + Len(x.wire) <= Len(log)
    BY <1>3 DEF ReaderOK
  <2>3. Reach(x) <= Len(log)
    BY <1>1, <1>3, <2>1, <2>2
  <2> QED BY <2>1, <2>3
<1> DEFINE over == row = "terminal"
           c == Reach(x)
           wire == [k \in 1..(Len(log) - c) |-> c + k]
           subscriber == Subscriber(r, x.number + 1, Len(log), over)
           connected == [x EXCEPT !.phase = "reading", !.number = @ + 1, !.wire = wire,
                                  !.eof = over, !.terminal = FALSE]
<1>5. /\ x.phase = "connecting" /\ list' = Append(list, subscriber)
      /\ reader' = [reader EXCEPT ![r] = connected]
      /\ UNCHANGED <<log, published, replay, row, pc, faults>>
  BY <1>2, <1>4 DEF Connect, Subscribed
<1>6. x.number <= MaxReconnects
  BY <1>3, <1>5 DEF ReaderOK
<1>7. over \in BOOLEAN /\ (over <=> row = "terminal")
  OBVIOUS
<1>8. wire \in Seq(Nat) /\ Len(wire) = Len(log) - c /\ \A k \in 1..Len(log) - c : wire[k] = c + k
  <2>1. Len(log) - c \in Nat
    BY <1>1, <1>4
  <2>2. wire \in [1..(Len(log) - c) -> Nat]
    BY <1>4
  <2>3. wire \in Seq(Nat)
    BY <2>1, <2>2, SeqDef
  <2> QED BY <2>1, <2>3, LenProperties
<1> HIDE DEF over, wire
<1>9. PICK y \in SubscriberRecord :
         /\ y = subscriber
         /\ y.reader = r /\ y.number = x.number + 1 /\ y.last = Len(log) /\ y.complete = over
  <2>1. x.number + 1 \in 1..(MaxReconnects + 1)
    BY <1>1, <1>3, <1>6
  <2>2. subscriber \in SubscriberRecord
    BY <1>1, <1>7, <2>1 DEF Subscriber, SubscriberRecord
  <2>3. /\ subscriber.reader = r /\ subscriber.number = x.number + 1
        /\ subscriber.last = Len(log) /\ subscriber.complete = over
    BY DEF Subscriber
  <2> HIDE DEF subscriber
  <2> QED BY <2>2, <2>3
<1>10. PICK z \in ReaderRecord :
          /\ z = connected
          /\ z.phase = "reading" /\ z.from = x.from /\ z.number = x.number + 1 /\ z.wire = wire
          /\ z.eof = over /\ ~z.terminal /\ z.got = x.got
  <2>1. x.number + 1 \in 0..(MaxReconnects + 1)
    BY <1>1, <1>3, <1>6
  <2>2. connected \in ReaderRecord
    BY <1>7, <1>8, <2>1 DEF ReaderRecord
  <2>3. /\ connected.phase = "reading" /\ connected.from = x.from
        /\ connected.number = x.number + 1 /\ connected.wire = wire
        /\ connected.eof = over /\ ~connected.terminal /\ connected.got = x.got
    BY DEF ReaderRecord
  <2> HIDE DEF connected
  <2> QED BY <2>2, <2>3
<1> HIDE DEF subscriber, connected, c
<1>11. /\ list' \in Seq(SubscriberRecord) /\ Len(list') = Len(list) + 1
       /\ \A i \in 1..Len(list) : list'[i] = list[i]
       /\ list'[Len(list) + 1] = y
  BY <1>1, <1>5, <1>9, AppendProperties
<1>12. /\ reader' \in [Readers -> ReaderRecord] /\ reader'[r] = z
       /\ \A q \in Readers : q # r => reader'[q] = reader[q]
  BY <1>1, <1>5, <1>10
<1>13. StreamTypes' /\ RowsOK' /\ EndIsLast'
  BY <1>5, <1>11, <1>12 DEF StreamInv, StreamTypes, RowsOK, EndIsLast
<1>14. Reach(z) = c /\ c = Reach(x) /\ Reach(z) + Len(z.wire) = Len(log)
  BY <1>1, <1>4, <1>8, <1>10 DEF Reach, c
<1>15. ReaderOK(r, z)' /\ StreamOK(r, z)'
  <2>1. z.phase \notin {"idle", "ended", "connecting", "backoff"} \cup Settled
    BY <1>10 DEF Settled
  <2>2. \A k \in 1..Len(z.wire) : z.wire[k] = Reach(z) + k
    BY <1>8, <1>10, <1>14
  <2>3. Reach(z) + Len(z.wire) <= Len(log)
    BY <1>1, <1>14
  <2>4. ReaderOK(r, z)'
    BY <1>3, <1>5, <1>10, <2>1, <2>2, <2>3 DEF ReaderOK, Reach
  <2>5. StreamOK(r, z)'
    <3> SUFFICES ASSUME ~z.eof
                 PROVE  \E j \in 1..Len(list') : /\ list'[j].reader = r
                                                 /\ list'[j].number = z.number
                                                 /\ ~list'[j].complete
      BY DEF StreamOK
    <3>1. Len(list) + 1 \in 1..Len(list')
      BY <1>1, <1>11
    <3> QED BY <1>9, <1>10, <1>11, <3>1
  <2> QED BY <2>4, <2>5
<1>16. ASSUME NEW q \in Readers PROVE ReaderOK(q, reader[q])' /\ StreamOK(q, reader[q])'
  <2>1. CASE q = r
    BY <1>12, <1>15, <2>1 DEF ReaderOK, StreamOK, Reach, Told, Resumed
  <2>2. CASE q # r
    <3>1. PICK w \in ReaderRecord : w = reader[q]
      BY <1>1
    <3>2. ReaderOK(q, w) /\ StreamOK(q, w) /\ reader'[q] = w
      BY <1>12, <2>2, <3>1 DEF StreamInv
    <3>3. ReaderOK(q, w)'
      BY <1>5, <3>2 DEF ReaderOK, Reach, Told, Resumed
    <3>4. StreamOK(q, w)'
      <4> SUFFICES ASSUME w.phase = "reading", ~w.eof
                   PROVE  \E j \in 1..Len(list') : /\ list'[j].reader = q
                                                   /\ list'[j].number = w.number
                                                   /\ ~list'[j].complete
        BY DEF StreamOK
      <4>1. PICK k \in 1..Len(list) :
               list[k].reader = q /\ list[k].number = w.number /\ ~list[k].complete
        BY <3>2 DEF StreamOK
      <4>2. k \in 1..Len(list')
        BY <1>1, <1>11
      <4> QED BY <1>11, <4>1, <4>2
    <3> QED BY <3>2, <3>3, <3>4 DEF ReaderOK, StreamOK, Reach, Told, Resumed
  <2> QED BY <2>1, <2>2
<1>17. ASSUME NEW i \in 1..Len(list') PROVE SubscriberOK(list[i], reader[list[i].reader])'
  <2>1. CASE i = Len(list) + 1
    <3>1. list'[i] = y /\ reader'[y.reader] = z /\ (over <=> row' = "terminal")
      BY <1>5, <1>7, <1>9, <1>11, <1>12, <2>1
    <3>2. y.last <= Len(log') /\ published' <= y.last
      BY <1>1, <1>5, <1>9
    <3>3. y.last = Reach(z) + Len(z.wire) /\ y.number <= z.number
      BY <1>3, <1>9, <1>10, <1>14
    <3>4. SubscriberOK(y, z)'
      BY <1>9, <1>10, <3>1, <3>2, <3>3 DEF SubscriberOK, Current, Reach
    <3> QED BY <3>1, <3>4 DEF SubscriberOK, Current, Reach
  <2>2. CASE i \in 1..Len(list)
    <3>1. PICK v \in SubscriberRecord : v = list[i]
      BY <1>1, <2>2
    <3>2. v.reader \in Readers /\ v.number \in Nat
      BY DEF SubscriberRecord
    <3>3. PICK w \in ReaderRecord : w = reader[v.reader]
      BY <1>1, <3>2
    <3>4. SubscriberOK(v, w) /\ list'[i] = v
      BY <1>11, <2>2, <3>1, <3>3 DEF StreamInv
    <3>5. CASE v.reader = r
      <4>1. w = x /\ v.number <= x.number
        BY <1>2, <1>5, <3>3, <3>4, <3>5 DEF SubscriberOK, Settled
      <4>2. v.number < z.number
        BY <1>3, <1>10, <3>2, <4>1
      <4>3. ~Current(v, z) /\ v.number <= z.number
        BY <1>3, <1>10, <3>2, <4>2 DEF Current
      <4>4. SubscriberOK(v, z)'
        BY <1>5, <3>4, <4>3 DEF SubscriberOK, Current, Reach
      <4> QED BY <1>12, <3>4, <3>5, <4>4 DEF SubscriberOK, Current, Reach
    <3>6. CASE v.reader # r
      <4>1. SubscriberOK(v, w)'
        BY <1>5, <3>4 DEF SubscriberOK, Current, Reach
      <4> QED BY <1>12, <3>2, <3>3, <3>4, <3>6, <4>1 DEF SubscriberOK, Current, Reach
    <3> QED BY <3>5, <3>6
  <2> QED BY <1>1, <1>11, <2>1, <2>2
<1>18. CompleteAreLast'
  <2> SUFFICES ASSUME NEW i \in 1..Len(list'), NEW k \in 1..Len(list'), i < k, list'[i].complete
               PROVE  list'[k].complete
    BY DEF CompleteAreLast
  <2>1. i \in 1..Len(list)
    BY <1>1, <1>11
  <2>2. CASE k \in 1..Len(list)
    BY <1>11, <2>1, <2>2 DEF StreamInv, CompleteAreLast
  <2>3. CASE k = Len(list) + 1
    <3>1. list[i].complete
      BY <1>11, <2>1
    <3>2. row = "terminal"
      BY <2>1, <3>1 DEF StreamInv, SubscriberOK
    <3> QED BY <1>7, <1>9, <1>11, <2>3, <3>2
  <2> QED BY <1>1, <1>11, <2>2, <2>3
<1> QED BY <1>13, <1>16, <1>17, <1>18 DEF StreamInv

-----------------------------------------------------------------------------
(* The theorems *)

\* The invariant is preserved by every step.
LEMMA StreamInvNext == StreamInv /\ [Next]_vars => StreamInv'
<1> SUFFICES ASSUME StreamInv, [Next]_vars PROVE StreamInv'
  OBVIOUS
<1>1. CASE UNCHANGED vars
  <2>1. UNCHANGED <<log, published, replay, row, pc, list, reader, faults>>
    BY <1>1 DEF vars
  <2>2. StreamTypes' /\ RowsOK' /\ EndIsLast' /\ CompleteAreLast'
    BY <2>1 DEF StreamInv, StreamTypes, RowsOK, EndIsLast, CompleteAreLast
  <2>3. ASSUME NEW r \in Readers PROVE ReaderOK(r, reader[r])' /\ StreamOK(r, reader[r])'
    <3>1. ReaderOK(r, reader[r]) /\ StreamOK(r, reader[r])
      BY DEF StreamInv
    <3> QED BY <2>1, <3>1 DEF ReaderOK, StreamOK, Reach, Told, Resumed
  <2>4. ASSUME NEW i \in 1..Len(list') PROVE SubscriberOK(list[i], reader[list[i].reader])'
    <3>1. SubscriberOK(list[i], reader[list[i].reader])
      BY <2>1 DEF StreamInv
    <3> QED BY <2>1, <3>1 DEF SubscriberOK, Current, Reach
  <2> QED BY <2>2, <2>3, <2>4 DEF StreamInv
<1>2. CASE Core
  <2>1. CASE \/ BeginRun \/ Emit \/ EndRun \/ RowEnds \/ CancelRun \/ CancelTold
             \/ PauseRun \/ RowPauses \/ PauseQueued \/ ResumeRun
    BY <2>1, StreamRunSteps
  <2>2. CASE Publish
    BY <2>2, StreamPublish
  <2>3. CASE CloseStreams
    BY <2>3, StreamClosed
  <2>4. CASE \E i \in DOMAIN list : Removed(i)
    BY <2>4, StreamRemoved
  <2> QED BY <1>2, <2>1, <2>2, <2>3, <2>4 DEF Core, Settlement
<1>3. ASSUME NEW r \in Readers, Subscribe(r) \/ Unsubscribe(r) \/ Break(r) \/ Desktop(r)
      PROVE  StreamInv'
  <2>1. CASE Subscribe(r) \/ Unsubscribe(r) \/ Break(r) \/ Reconnect(r)
    BY <2>1, StreamSubscription
  <2>2. CASE Connect(r)
    BY <2>2, StreamConnect
  <2>3. CASE Read(r)
    BY <2>3, StreamRead
  <2>4. CASE AtEof(r)
    BY <2>4, StreamAtEof
  <2> QED BY <1>3, <2>1, <2>2, <2>3, <2>4 DEF Desktop
<1> QED BY <1>1, <1>2, <1>3 DEF Next

\* It is an invariant of the streams.
LEMMA StreamInvariant == Spec => []StreamInv
<1> QED BY StreamInit, StreamInvNext, PTL DEF Spec

\* A sequence of numbers up to n is a sequence over 1..n.
LEMMA NumbersUpTo ==
    ASSUME NEW n \in Nat, NEW s \in Seq(Nat), \A k \in 1..Len(s) : s[k] \in 1..n
    PROVE  s \in Seq(1..n)
<1>1. s \in [1..Len(s) -> Nat] /\ Len(s) \in Nat
  BY LenProperties
<1>2. s \in [1..Len(s) -> 1..n]
  BY <1>1
<1> QED BY <1>1, <1>2, SeqDef

\* The variables keep their types: no subscriber, cursor or event on its way is ahead
\* of the stored events.
THEOREM StreamTypesHold == Spec => []TypeOK
<1>1. ASSUME StreamInv PROVE TypeOK
  <2>1. /\ log \in Seq({"text"} \cup Terminal) /\ Len(log) \in Nat
        /\ list \in Seq(SubscriberRecord) /\ DOMAIN list = 1..Len(list)
        /\ reader \in [Readers -> ReaderRecord]
        /\ {published, replay} \subseteq 0..Len(log) /\ faults \in 0..MaxFaults
    BY <1>1, LenProperties DEF StreamInv, StreamTypes
  <2>2. /\ row \in {"active", "paused", "terminal"}
        /\ pc \in {"queued", "running", "ended", "cancelling", "pausing", "closing", "paused",
                   "over", "abandoned"}
    BY <1>1 DEF StreamInv, RowsOK
  <2>3. ASSUME NEW i \in DOMAIN list
        PROVE  list[i] \in [reader : Readers, number : 1..(MaxReconnects + 1),
                            last : 0..Len(log), complete : BOOLEAN]
    <3>1. list[i] \in SubscriberRecord /\ list[i].last <= Len(log)
      BY <1>1, <2>1, ElementOfSeq DEF StreamInv, SubscriberOK
    <3> QED BY <2>1, <3>1 DEF SubscriberRecord
  <2>4. ASSUME NEW r \in Readers
        PROVE  reader[r] \in
                 [phase : {"idle", "connecting", "reading", "backoff"} \cup Settled,
                  from : 0..Len(log), number : 0..(MaxReconnects + 1),
                  wire : Seq(1..Len(log)), eof : BOOLEAN, terminal : BOOLEAN,
                  got : Seq(1..Len(log))]
    <3>1. PICK x \in ReaderRecord : x = reader[r]
      BY <2>1
    <3>2. /\ x.from \in Nat /\ x.wire \in Seq(Nat) /\ x.got \in Seq(Nat)
          /\ Len(x.wire) \in Nat /\ Len(x.got) \in Nat
      BY LenProperties DEF ReaderRecord
    <3>3. /\ x.from + Len(x.got) + Len(x.wire) <= Len(log)
          /\ \A k \in 1..Len(x.got) : x.got[k] = x.from + k
          /\ \A k \in 1..Len(x.wire) : x.wire[k] = x.from + Len(x.got) + k
      BY <1>1, <3>1 DEF StreamInv, ReaderOK, Reach
    <3>4. x.from \in 0..Len(log)
      BY <2>1, <3>2, <3>3
    <3>3a. /\ x.from \in Nat /\ Len(x.got) \in Nat /\ Len(x.wire) \in Nat /\ Len(log) \in Nat
           /\ x.from + Len(x.got) + Len(x.wire) <= Len(log)
      BY <2>1, <3>2, <3>3
    <3>5. ASSUME NEW k \in 1..Len(x.got) PROVE x.got[k] \in 1..Len(log)
      <4>1. x.got[k] = x.from + k
        BY <3>3
      <4>2. x.from + k >= 1 /\ x.from + k <= Len(log)
        BY ONLY <3>3a, k \in 1..Len(x.got)
      <4> QED BY <3>2, <4>1, <4>2
    <3>6. ASSUME NEW k \in 1..Len(x.wire) PROVE x.wire[k] \in 1..Len(log)
      <4>1. x.wire[k] = x.from + Len(x.got) + k
        BY <3>3
      <4>2. x.from + Len(x.got) + k >= 1 /\ x.from + Len(x.got) + k <= Len(log)
        BY ONLY <3>3a, k \in 1..Len(x.wire)
      <4> QED BY <3>2, <4>1, <4>2
    <3>7. x.got \in Seq(1..Len(log)) /\ x.wire \in Seq(1..Len(log))
      BY <2>1, <3>2, <3>5, <3>6, NumbersUpTo
    <3> QED BY <3>1, <3>4, <3>7 DEF ReaderRecord
  <2> QED BY <2>1, <2>2, <2>3, <2>4 DEF TypeOK
<1> QED BY <1>1, StreamInvariant, PTL

\* The stream a reader has open carries every event that was published, whatever
\* the order of replay, subscription, publication and the loss of other streams.
THEOREM OpenStreamsMissNothing == Spec => []OpenStreamsAreComplete
<1>1. ASSUME StreamInv PROVE OpenStreamsAreComplete
  <2> SUFFICES ASSUME NEW r \in Readers, reader[r].phase = "reading", ~reader[r].eof
               PROVE  published <= Cursor(reader[r]) + Len(reader[r].wire)
    BY DEF OpenStreamsAreComplete
  <2>1. PICK x \in ReaderRecord : x = reader[r]
    BY <1>1 DEF StreamInv, StreamTypes
  <2>2. ReaderOK(r, x) /\ StreamOK(r, x)
    BY <1>1, <2>1 DEF StreamInv
  <2>3. PICK i \in 1..Len(list) :
           list[i].reader = r /\ list[i].number = x.number /\ ~list[i].complete
    BY <2>1, <2>2 DEF StreamOK
  <2>4. list[i].last = Reach(x) + Len(x.wire) /\ published <= list[i].last
    BY <1>1, <2>1, <2>3 DEF StreamInv, SubscriberOK, Current
  <2>5. Cursor(x) = Reach(x)
    BY <2>2, CursorIsReach DEF ReaderOK
  <2> QED BY <2>1, <2>4, <2>5
<1> QED BY <1>1, StreamInvariant, PTL

\* A numbered subscription that ends by itself has been given the event that ended or
\* paused the run, and not merely seen its stream end.
THEOREM EndedReadersWereTold == Spec => []EndedReadersSawTheEnd
<1>1. ASSUME StreamInv PROVE EndedReadersSawTheEnd
  <2> SUFFICES ASSUME NEW r \in Numbered, reader[r].phase = "ended"
               PROVE  LET x == reader[r]
                          seen == x.from + Len(x.got)
                      IN  seen > 0 /\ (log[seen] \in Terminal \/ Resumed(x))
    BY DEF EndedReadersSawTheEnd
  <2>1. PICK x \in ReaderRecord : x = reader[r]
    BY <1>1 DEF StreamInv, StreamTypes, Readers
  <2>2. Told(x)
    BY <1>1, <2>1 DEF StreamInv, ReaderOK, Readers
  <2>3. x.from \in Nat /\ Len(x.got) \in Nat \ {0}
    BY <2>2, EmptySeq DEF ReaderRecord, Told
  <2>4. x.from + Len(x.got) > 0
    BY <2>3
  <2> QED BY <2>1, <2>2, <2>4 DEF Told, Reach
<1> QED BY <1>1, StreamInvariant, PTL

-----------------------------------------------------------------------------
(* The streams serve their readers as LogReaders says *)

\* How the desktop's phases map to the states of LogReaders.
StateOf(x) == IF x.phase = "idle" THEN "idle" ELSE IF x.phase \in Settled THEN "done" ELSE "open"
ReadersFrom == [r \in Readers |-> reader[r].from]
ReadersGot == [r \in Readers |-> reader[r].got]
ReadersState == [r \in Readers |-> IF reader[r].phase = "idle" THEN "idle"
                                   ELSE IF reader[r].phase \in Settled THEN "done"
                                   ELSE "open"]

\* A step that changes one reader changes one value of each.
LEMMA ServedReader ==
    ASSUME StreamInv, NEW r \in Readers, NEW z \in ReaderRecord,
           reader' = [reader EXCEPT ![r] = z]
    PROVE  /\ ReadersFrom' = [ReadersFrom EXCEPT ![r] = z.from]
           /\ ReadersGot' = [ReadersGot EXCEPT ![r] = z.got]
           /\ ReadersState' = [ReadersState EXCEPT ![r] = StateOf(z)]
           /\ z.from = reader[r].from => ReadersFrom' = ReadersFrom
           /\ z.got = reader[r].got => ReadersGot' = ReadersGot
           /\ StateOf(z) = StateOf(reader[r]) => ReadersState' = ReadersState
<1>1. reader \in [Readers -> ReaderRecord] /\ reader'[r] = z
      /\ \A q \in Readers : q # r => reader'[q] = reader[q]
  BY DEF StreamInv, StreamTypes
<1> QED BY <1>1 DEF ReadersFrom, ReadersGot, ReadersState, StateOf

\* A step of the Core gives no reader anything, and starts and stops none.
LEMMA ServedCore ==
    ASSUME StreamInv, Core
    PROVE  [Served!Next]_(Served!vars)
<1>1. reader \in [Readers -> ReaderRecord] /\ Len(log) \in Nat
  BY LenProperties DEF StreamInv, StreamTypes
<1>2. \A e : Store(e) => Len(log') = Len(log) + 1
  <2>1. ASSUME NEW e, Store(e) PROVE Len(log') = Len(log) + 1
    BY <2>1, AppendProperties DEF Store, StreamInv, StreamTypes
  <2> QED BY <2>1
<1>3. Lose => log' = log
  BY DEF Lose
<1>4. CASE \/ BeginRun \/ Emit \/ EndRun \/ RowEnds \/ CancelRun \/ CancelTold
           \/ PauseRun \/ RowPauses \/ PauseQueued \/ ResumeRun
  <2>1. pc # "over" /\ reader' = reader
    BY <1>4 DEF BeginRun, Emit, EndRun, RowEnds, CancelRun, CancelTold, PauseRun, RowPauses,
                PauseQueued, ResumeRun
  <2>2. Len(log') \in {Len(log), Len(log) + 1}
    BY <1>2, <1>3, <1>4
    DEF BeginRun, Emit, EndRun, RowEnds, CancelRun, CancelTold, PauseRun, RowPauses,
        PauseQueued, ResumeRun
  <2> QED BY <2>1, <2>2 DEF Served!Next, Served!Grow
<1>5. CASE Publish \/ CloseStreams
  <2>1. ASSUME NEW r \in Readers
        PROVE  /\ reader'[r].from = reader[r].from /\ reader'[r].got = reader[r].got
               /\ reader'[r].phase = reader[r].phase
    <3>1. PICK x \in ReaderRecord : x = reader[r]
      BY <1>1
    <3>2. \/ reader'[r] = x \/ \E w : reader'[r] = [x EXCEPT !.wire = w]
          \/ reader'[r] = [x EXCEPT !.eof = TRUE]
      <4>1. CASE Publish
        BY <3>1, <4>1 DEF Publish
      <4>2. CASE CloseStreams
        BY <3>1, <4>2 DEF CloseStreams
      <4> QED BY <1>5, <4>1, <4>2
    <3> QED BY <3>1, <3>2 DEF ReaderRecord
  <2>2. UNCHANGED <<ReadersFrom, ReadersGot, ReadersState>>
    BY <2>1 DEF ReadersFrom, ReadersGot, ReadersState
  <2>3. log' = log /\ (pc = "over" => pc' = pc)
    BY <1>5 DEF Publish, CloseStreams
  <2> QED BY <2>2, <2>3
      DEF Served!Next, Served!Grow, Served!vars, ReadersFrom, ReadersGot, ReadersState
<1>6. CASE \E i \in DOMAIN list : Removed(i)
  <2>1. UNCHANGED <<log, pc, reader>>
    BY <1>6 DEF Removed
  <2> QED BY <2>1 DEF Served!vars
<1> QED BY <1>4, <1>5, <1>6 DEF Core, Settlement

\* A step of the desktop starts a reader, gives it its next event, stops it, or is
\* none of its reader's business.
LEMMA ServedDesktop ==
    ASSUME StreamInv, NEW r \in Readers,
           Subscribe(r) \/ Unsubscribe(r) \/ Break(r) \/ Desktop(r)
    PROVE  [Served!Next]_(Served!vars)
<1>1. reader \in [Readers -> ReaderRecord] /\ Len(log) \in Nat /\ replay \in Nat
  BY LenProperties DEF StreamInv, StreamTypes
<1>2. PICK x \in ReaderRecord : x = reader[r]
  BY <1>1
<1>3. /\ ReaderOK(r, x)
      /\ x.got \in Seq(Nat) /\ x.from \in Nat
      /\ ReadersFrom[r] = x.from /\ ReadersGot[r] = x.got /\ ReadersState[r] = StateOf(x)
  BY <1>2 DEF StreamInv, ReadersFrom, ReadersGot, ReadersState, StateOf, ReaderRecord
<1>4. ASSUME NEW phase \in Settled, reader' = [reader EXCEPT ![r] = Settle(x, phase)],
             x.phase \in {"connecting", "reading", "backoff"}, UNCHANGED <<log, pc>>
      PROVE  [Served!Next]_(Served!vars)
  <2>1. PICK z \in ReaderRecord :
           z = Settle(x, phase) /\ z.phase = phase /\ z.from = x.from /\ z.got = x.got
    <3>1. NotStarted \in ReaderRecord
      BY EmptySeq, BoundsAssumption DEF NotStarted, ReaderRecord
    <3> DEFINE s == Settle(x, phase)
    <3>2. s \in ReaderRecord /\ s.phase = phase /\ s.from = x.from /\ s.got = x.got
      BY <3>1, <1>3 DEF Settle, ReaderRecord
    <3> HIDE DEF s
    <3>3. \E z \in ReaderRecord : z = s /\ z.phase = phase /\ z.from = x.from /\ z.got = x.got
      BY <3>2
    <3> QED BY <3>3 DEF s
  <2>2. StateOf(z) = "done" /\ StateOf(x) = "open"
    BY <1>4, <2>1 DEF StateOf, Settled
  <2>3. reader' = [reader EXCEPT ![r] = z]
    BY <1>4, <2>1
  <2>4. /\ ReadersFrom' = ReadersFrom /\ ReadersGot' = ReadersGot
        /\ ReadersState' = [ReadersState EXCEPT ![r] = "done"]
    <3>1. z \in ReaderRecord /\ z.from = reader[r].from /\ z.got = reader[r].got
      BY <1>2, <2>1
    <3>2. /\ ReadersState' = [ReadersState EXCEPT ![r] = StateOf(z)]
          /\ z.from = reader[r].from => ReadersFrom' = ReadersFrom
          /\ z.got = reader[r].got => ReadersGot' = ReadersGot
      BY <2>3, ServedReader
    <3> QED BY <2>2, <3>1, <3>2
  <2>5. Served!Stop(r)
    BY <1>3, <1>4, <2>2, <2>4 DEF Served!Stop, ReadersFrom, ReadersGot, ReadersState
  <2> QED BY <2>5 DEF Served!Next
<1>5. ASSUME NEW z \in ReaderRecord, reader' = [reader EXCEPT ![r] = z],
             z.from = x.from, z.got = x.got, StateOf(z) = StateOf(x), UNCHANGED <<log, pc>>
      PROVE  [Served!Next]_(Served!vars)
  <2>1. UNCHANGED <<ReadersFrom, ReadersGot, ReadersState>>
    BY <1>2, <1>5, ServedReader
  <2> QED BY <1>5, <2>1 DEF Served!vars, ReadersFrom, ReadersGot, ReadersState
<1>6. CASE Subscribe(r)
  <2>1. PICK n \in IF r \in Raw THEN {0} ELSE replay..Len(log) :
           reader' = [reader EXCEPT ![r].phase = "connecting", ![r].from = n]
    BY <1>6 DEF Subscribe
  <2> DEFINE z == [x EXCEPT !.phase = "connecting", !.from = n]
  <2>2. reader' = [reader EXCEPT ![r] = z]
    <3>1. /\ reader' = [q \in Readers |-> IF q = r THEN z ELSE reader[q]]
          /\ reader' = [reader EXCEPT ![r] = z]
      BY <1>1, <1>2, <2>1
    <3> QED BY <3>1
  <2>3. n \in 0..Len(log)
    <3>1. n = 0 \/ n \in replay..Len(log)
      BY <2>1
    <3> QED BY ONLY <1>1, <3>1
  <2>4. z \in ReaderRecord /\ z.phase = "connecting" /\ z.from = n /\ z.got = x.got
    <3>1. n \in Nat
      BY <1>1, <2>3
    <3> QED BY <3>1 DEF ReaderRecord
  <2>5. x.phase = "idle" /\ UNCHANGED <<log, pc>>
    BY <1>2, <1>6 DEF Subscribe
  <2> HIDE DEF z
  <2>6. StateOf(x) = "idle" /\ StateOf(z) = "open"
    BY <2>4, <2>5 DEF StateOf, Settled
  <2>7. /\ ReadersFrom' = [ReadersFrom EXCEPT ![r] = n] /\ ReadersGot' = ReadersGot
        /\ ReadersState' = [ReadersState EXCEPT ![r] = "open"]
    BY <1>2, <2>2, <2>4, <2>6, ServedReader
  <2>8. Served!Start(r)
    BY <1>3, <2>3, <2>5, <2>6, <2>7 DEF Served!Start, ReadersFrom, ReadersGot, ReadersState
  <2> QED BY <2>8 DEF Served!Next
<1>7. CASE Unsubscribe(r) \/ Break(r)
  <2>1. \E phase \in {"aborted", "failed"} : reader' = [reader EXCEPT ![r] = Settle(x, phase)]
    BY <1>2, <1>7 DEF Unsubscribe, Break
  <2>2. x.phase \in {"connecting", "reading", "backoff"} /\ UNCHANGED <<log, pc>>
    BY <1>2, <1>7 DEF Unsubscribe, Break
  <2> QED BY <1>4, <2>1, <2>2 DEF Settled
<1>8. CASE Connect(r)
  <2>1. PICK w, m, o : reader' = [reader EXCEPT ![r] =
           [x EXCEPT !.phase = "reading", !.number = m, !.wire = w, !.eof = o, !.terminal = FALSE]]
    BY <1>2, <1>8 DEF Connect
  <2> DEFINE z == [x EXCEPT !.phase = "reading", !.number = m, !.wire = w, !.eof = o,
                            !.terminal = FALSE]
  <2>2. z.phase = "reading" /\ z.from = x.from /\ z.got = x.got
    BY DEF ReaderRecord
  <2>3. x.phase = "connecting" /\ UNCHANGED <<log, pc>>
    BY <1>2, <1>8 DEF Connect
  <2>4. StateOf(z) = StateOf(x)
    BY <2>2, <2>3 DEF StateOf, Settled
  <2>5. reader'[r] = z
    BY <1>1, <2>1
  <2>6. StreamInv'
    BY <1>8, StreamConnect
  <2>7. z \in ReaderRecord
    BY <2>5, <2>6 DEF StreamInv, StreamTypes
  <2> HIDE DEF z
  <2>8. reader' = [reader EXCEPT ![r] = z]
    BY <2>1 DEF z
  <2> QED BY <1>5, <2>2, <2>3, <2>4, <2>7, <2>8
<1>9. CASE Read(r)
  <2>1. PICK z \in ReaderRecord : z = reader'[r]
    BY <1>9, StreamRead DEF StreamInv, StreamTypes
  <2>2. /\ x.phase = "reading" /\ x.wire # <<>> /\ UNCHANGED <<log, pc>>
        /\ reader' = [reader EXCEPT ![r] = z]
    BY <1>1, <1>2, <1>9, <2>1 DEF Read
  <2> DEFINE n == Head(x.wire)
  <2>3. /\ x.wire \in Seq(Nat) /\ Len(x.wire) \in Nat \ {0} /\ n = x.wire[1]
        /\ Len(x.got) \in Nat
    BY <2>2, EmptySeq, HeadTailProperties, LenProperties DEF ReaderRecord
  <2>4. n = Reach(x) + 1 /\ Cursor(x) = Reach(x) /\ Reach(x) \in Nat /\ n <= Len(log)
    <3>1. 1 \in 1..Len(x.wire)
      BY <2>3
    <3>2. n = Reach(x) + 1 /\ Reach(x) + Len(x.wire) <= Len(log)
      BY <1>3, <2>3, <3>1 DEF ReaderOK
    <3>3. Cursor(x) = Reach(x) /\ Reach(x) \in Nat
      BY <1>3, CursorIsReach DEF ReaderOK
    <3> QED BY <1>1, <2>3, <3>2, <3>3
  <2>5. n > Cursor(x)
    BY <2>4
  <2>6. z = [x EXCEPT !.wire = Tail(@), !.terminal = @ \/ (TRUE /\ log[n] \in Terminal),
                      !.got = Append(@, n)]
    BY <1>1, <1>2, <1>9, <2>1, <2>5 DEF Read
  <2>7. z.phase = x.phase /\ z.from = x.from /\ z.got = Append(x.got, n)
    BY <2>6 DEF ReaderRecord
  <2> HIDE DEF n
  <2>8. StateOf(z) = StateOf(x) /\ StateOf(x) = "open"
    BY <2>2, <2>7 DEF StateOf, Settled
  <2>9. /\ ReadersFrom' = ReadersFrom /\ ReadersState' = ReadersState
        /\ ReadersGot' = [ReadersGot EXCEPT ![r] = Append(x.got, n)]
    BY <1>2, <2>2, <2>7, <2>8, ServedReader
  <2>10. n = x.from + Len(x.got) + 1
    BY <2>4 DEF Reach
  <2>11. Served!Receive(r)
    BY <1>3, <2>2, <2>4, <2>8, <2>9, <2>10
    DEF Served!Receive, ReadersFrom, ReadersGot, ReadersState
  <2> QED BY <2>11 DEF Served!Next
<1>10. CASE AtEof(r)
  <2>1. /\ x.phase = "reading" /\ reader' = [reader EXCEPT ![r] = AfterEof(r, x)]
        /\ UNCHANGED <<log, pc>>
    BY <1>2, <1>10 DEF AtEof
  <2>2. CASE \E phase \in {"ended", "failed"} : AfterEof(r, x) = Settle(x, phase)
    BY <1>4, <2>1, <2>2 DEF Settled
  <2>3. CASE AfterEof(r, x) = [x EXCEPT !.phase = "backoff", !.eof = FALSE]
    <3> DEFINE z == [x EXCEPT !.phase = "backoff", !.eof = FALSE]
    <3>1. z \in ReaderRecord /\ z.phase = "backoff" /\ z.from = x.from /\ z.got = x.got
      BY DEF ReaderRecord
    <3>2. reader' = [reader EXCEPT ![r] = z]
      BY <2>1, <2>3
    <3> HIDE DEF z
    <3>3. StateOf(z) = StateOf(x)
      BY <2>1, <3>1 DEF StateOf, Settled
    <3> QED BY <1>5, <2>1, <3>1, <3>2, <3>3
  <2> QED BY <2>2, <2>3 DEF AfterEof
<1>11. CASE Reconnect(r)
  <2> DEFINE z == [x EXCEPT !.phase = "connecting"]
  <2>1. z \in ReaderRecord /\ z.phase = "connecting" /\ z.from = x.from /\ z.got = x.got
    BY DEF ReaderRecord
  <2>2. x.phase = "backoff" /\ reader' = [reader EXCEPT ![r] = z] /\ UNCHANGED <<log, pc>>
    BY <1>2, <1>11 DEF Reconnect
  <2> HIDE DEF z
  <2>3. StateOf(z) = StateOf(x)
    BY <2>1, <2>2 DEF StateOf, Settled
  <2> QED BY <1>5, <2>1, <2>2, <2>3
<1> QED BY <1>6, <1>7, <1>8, <1>9, <1>10, <1>11 DEF Desktop

\* The streams keep what LogReaders promises a reader: the events after the one it
\* names, each once and in order, and none once it has stopped.
THEOREM StreamsServeReaders == Spec => Served!Init /\ [][Served!Next]_(Served!vars)
<1>1. Init => Served!Init
  <2> SUFFICES ASSUME Init PROVE Served!Init
    OBVIOUS
  <2>1. /\ log = <<>> /\ pc = "queued" /\ Len(<<>>) = 0
        /\ \A r \in Readers : reader[r] = NotStarted
    BY EmptySeq DEF Init
  <2>2. NotStarted.phase = "idle" /\ NotStarted.from = 0 /\ NotStarted.got = <<>>
    BY DEF NotStarted
  <2> QED BY <2>1, <2>2 DEF Served!Init
<1>2. StreamInv /\ [Next]_vars => [Served!Next]_(Served!vars)
  <2> SUFFICES ASSUME StreamInv, [Next]_vars PROVE [Served!Next]_(Served!vars)
    OBVIOUS
  <2>1. CASE UNCHANGED vars
    BY <2>1 DEF vars, Served!vars
  <2>2. CASE Core
    BY <2>2, ServedCore
  <2>3. ASSUME NEW r \in Readers, Subscribe(r) \/ Unsubscribe(r) \/ Break(r) \/ Desktop(r)
        PROVE  [Served!Next]_(Served!vars)
    BY <2>3, ServedDesktop
  <2> QED BY <2>1, <2>2, <2>3 DEF Next
<1> QED BY <1>1, <1>2, StreamInvariant, PTL DEF Spec

=============================================================================
