------------------------- MODULE EventJournalProofs -------------------------
(***************************************************************************)
(* The event journal, for any number of runs, threads and attempts: its    *)
(* types; that it implements WriteBehindLog, so that no event is skipped,  *)
(* repeated or overtaken; and its promises to the threads that use it:     *)
(* retries stop, no event waits without a timer, and a flush that returns  *)
(* has saved what its thread appended.                                     *)
(***************************************************************************)
EXTENDS EventJournal, SequenceTheorems, TLAPS

-----------------------------------------------------------------------------
(* Types *)

\* The timer's task and close()'s are tasks, and so is a thread's flush.
LEMMA Jobs ==
    /\ Timer \in Job
    /\ Closing \in Job
    /\ \A c \in Callers, r \in Runs : FlushFor(c, r) \in Job
BY NoRunAssumption DEF Timer, Closing, FlushFor, Job

\* At rest the writer has no task.
LEMMA RestingType == Resting \in Writer
BY Jobs DEF Resting, Writer

\* Answering a flush changes nothing about a thread but where it is.
LEMMA AnswerType ==
    ASSUME TypeOK, NEW job, NEW result \in {"returned", "thrown"}, Answer(job, result)
    PROVE  caller' \in [Callers -> Caller]
<1>1. \A c \in Callers : [caller[c] EXCEPT !.pc = result] \in Caller
  BY DEF TypeOK, Caller
<1> QED BY <1>1 DEF TypeOK, Answer

\* The steps of the threads that append and flush keep the types.
LEMMA TypeThreads ==
    ASSUME TypeOK,
           \/ \E r \in Runs : AppendEvent(r)
           \/ \E c \in Callers, r \in Runs : Flush(c, r) \/ FlushRejected(c, r)
           \/ \E c \in Callers : Interrupt(c)
           \/ Close
           \/ Restart
    PROVE  TypeOK'
<1>1. ASSUME NEW r \in Runs, AppendEvent(r) PROVE TypeOK'
  <2>1. appended[r] + 1 \in Nat
    BY DEF TypeOK
  <2>2. Append(quarantined[r], appended[r] + 1) \in Seq(Nat)
    BY <2>1, AppendProperties DEF TypeOK
  <2>3. Append(pending[r], appended[r] + 1) \in Seq(Nat)
    BY <2>1, AppendProperties DEF TypeOK
  <2> QED BY <1>1, <2>1, <2>2, <2>3 DEF TypeOK, AppendEvent
<1>2. ASSUME NEW c \in Callers, NEW r \in Runs, Flush(c, r) PROVE TypeOK'
  <2>1. Append(jobs, FlushFor(c, r)) \in Seq(Job)
    BY Jobs, AppendProperties DEF TypeOK
  <2>2. caller' \in [Callers -> Caller]
    BY <1>2 DEF TypeOK, Flush, Caller
  <2> QED BY <1>2, <2>1, <2>2 DEF TypeOK, Flush
<1>3. ASSUME NEW c \in Callers, NEW r \in Runs, FlushRejected(c, r) PROVE TypeOK'
  <2>1. caller' \in [Callers -> Caller]
    BY <1>3 DEF TypeOK, FlushRejected, Caller
  <2> QED BY <1>3, <2>1 DEF TypeOK, FlushRejected
<1>4. ASSUME NEW c \in Callers, Interrupt(c) PROVE TypeOK'
  <2> DEFINE Leave(j) == [j EXCEPT !.for = @ \ {c}]
  <2>1. \A j \in Job : Leave(j) \in Job
    BY DEF Job
  <2>2. jobs' = [n \in DOMAIN jobs |-> Leave(jobs[n])] /\ writer' = [writer EXCEPT !.job = Leave(@)]
    BY <1>4 DEF Interrupt
  <2> HIDE DEF Leave
  <2>3. jobs' \in Seq(Job)
    <3>1. Len(jobs) \in Nat /\ DOMAIN jobs = 1..Len(jobs) /\ \A n \in 1..Len(jobs) : jobs[n] \in Job
      BY LenProperties, ElementOfSeq DEF TypeOK
    <3>2. jobs' \in [1..Len(jobs) -> Job]
      BY <2>1, <2>2, <3>1
    <3> QED BY <3>1, <3>2, SeqDef
  <2>4. writer' \in Writer /\ writer'.pc = writer.pc /\ writer'.run = writer.run
        /\ writer'.todo = writer.todo
    BY <2>1, <2>2 DEF TypeOK, Writer
  <2>5. caller' \in [Callers -> Caller]
    BY <1>4 DEF TypeOK, Interrupt, Caller
  <2> QED BY <1>4, <2>3, <2>4, <2>5 DEF TypeOK, Interrupt
<1>5. ASSUME Close PROVE TypeOK'
  <2>1. Append(jobs, Closing) \in Seq(Job)
    BY Jobs, AppendProperties DEF TypeOK
  <2> QED BY <1>5, <2>1 DEF TypeOK, Close
<1>6. ASSUME Restart PROVE TypeOK'
  <2>1. /\ Resting.pc = "resting" /\ Resting.run = NoRun
        /\ Idle \in Caller
        /\ \A r \in Runs : Len(log[r]) \in Nat
    BY LenProperties DEF TypeOK, Resting, Idle, Caller
  <2>2. <<>> \in Seq(Nat) /\ <<>> \in Seq(Job)
    BY EmptySeq
  <2> HIDE DEF Resting
  <2> QED BY <1>6, <2>1, <2>2, RestingType DEF TypeOK, Restart
<1> QED BY <1>1, <1>2, <1>3, <1>4, <1>5, <1>6

\* A batch of event numbers put in front of another is one.
LEMMA Concat ==
    ASSUME TypeOK, NEW r \in Runs
    PROVE  /\ log[r] \o batch[r] \in Seq(Nat)
           /\ batch[r] \o pending[r] \in Seq(Nat)
BY ConcatProperties DEF TypeOK

\* The writer's steps keep the types.
LEMMA TypeWriter ==
    ASSUME TypeOK, StartFlush \/ FireTimer \/ StartClosing \/ WriterStep
    PROVE  TypeOK'
<1> USE DEF TypeOK
<1>0. <<>> \in Seq(Nat)
  BY EmptySeq
<1>1. CASE StartFlush
  <2>1. Head(jobs) \in Job /\ Tail(jobs) \in Seq(Job)
    BY <1>1, HeadTailProperties DEF StartFlush
  <2>2. Head(jobs).run \in Runs
    BY <1>1, <2>1, NoRunAssumption DEF StartFlush, Job
  <2>3. CASE Refused(Head(jobs).run) \/ pending[Head(jobs).run] = <<>>
    <3>1. caller' \in [Callers -> Caller]
      BY <1>1, <2>3, AnswerType DEF StartFlush
    <3> QED BY <1>1, <2>1, <2>3, <3>1 DEF StartFlush
  <2>4. CASE ~(Refused(Head(jobs).run) \/ pending[Head(jobs).run] = <<>>)
    <3>0. writer' = [pc |-> "persist", job |-> Head(jobs), run |-> NoRun,
                     todo |-> {Head(jobs).run}, failed |-> FALSE]
      BY <1>1, <2>4 DEF StartFlush
    <3>1. /\ writer' \in Writer
          /\ writer'.pc = "persist" /\ writer'.run = NoRun /\ writer'.todo # {}
      BY <3>0, <2>1, <2>2 DEF Writer
    <3> QED BY <1>0, <1>1, <2>1, <2>2, <2>4, <3>1 DEF StartFlush
  <2> QED BY <2>3, <2>4
<1>2. CASE FireTimer
  <2>1. writer' \in Writer /\ writer'.pc = "takeAll" /\ writer'.run = NoRun
    BY <1>2, Jobs DEF FireTimer, Resting, Writer
  <2> QED BY <1>2, <2>1 DEF FireTimer
<1>3. CASE StartClosing
  <2>1. writer' \in Writer /\ writer'.pc = "takeAll" /\ writer'.run = NoRun
    BY <1>3, Jobs DEF StartClosing, Writer
  <2>2. Tail(jobs) \in Seq(Job)
    BY <1>3, HeadTailProperties DEF StartClosing
  <2> QED BY <1>3, <2>1, <2>2 DEF StartClosing
<1>4. CASE TakeAll
  <2>1. writer' \in Writer /\ writer'.run = NoRun /\ writer'.pc \in {"persist", "finish"}
        /\ (writer'.pc = "persist" => writer'.todo # {})
    BY <1>4 DEF TakeAll, Working, Continue, Writer
  <2> QED BY <1>0, <1>4, <2>1 DEF TakeAll
<1>5. ASSUME NEW r \in Runs, Persist(r) PROVE TypeOK'
  <2>1. writer' \in Writer /\ writer'.pc = "publish" /\ writer'.run # NoRun
    BY <1>5, NoRunAssumption DEF Persist, Working, Writer
  <2> QED BY <1>0, <1>5, <2>1, Concat DEF Persist
<1>6. ASSUME NEW r \in Runs, PersistFails(r) PROVE TypeOK'
  <2>1. writer' \in Writer /\ writer'.run = NoRun /\ writer'.pc \in {"persist", "finish"}
        /\ (writer'.pc = "persist" => writer'.todo # {})
    BY <1>6 DEF PersistFails, Working, Continue, Writer
  <2>2. pending' \in [Runs -> Seq(Nat)] /\ quarantined' \in [Runs -> Seq(Nat)]
    BY <1>0, <1>6, Concat DEF PersistFails
  <2>3. attempts' \in [Runs -> Nat] /\ batch' \in [Runs -> Seq(Nat)]
    BY <1>0, <1>6 DEF PersistFails
  <2> QED BY <1>6, <2>1, <2>2, <2>3 DEF PersistFails
<1>7. CASE Publish
  <2>1. writer.run \in Runs
    BY <1>7 DEF Publish, Writer
  <2>2. published' = [published EXCEPT ![writer.run] = published[writer.run] + 1]
    BY <1>7 DEF Publish
  <2>3. published' \in [Runs -> Nat]
    BY <2>1, <2>2
  <2> QED BY <1>7, <2>3 DEF Publish
<1>8. CASE EndBatch
  <2>1. writer' \in Writer /\ writer'.run = NoRun /\ writer'.pc \in {"persist", "finish"}
        /\ (writer'.pc = "persist" => writer'.todo # {})
    BY <1>8 DEF EndBatch, Working, Continue, Writer
  <2>2. attempts' \in [Runs -> Nat]
    BY <1>8 DEF EndBatch
  <2> QED BY <1>8, <2>1, <2>2 DEF EndBatch
<1>9. CASE EndJob
  <2>1. caller' \in [Callers -> Caller]
    BY <1>9, AnswerType DEF EndJob
  <2>2. Resting.pc = "resting" /\ Resting.run = NoRun
    BY DEF Resting
  <2>3. scheduled' \in BOOLEAN
    BY <1>9 DEF EndJob, Rescheduled
  <2> HIDE DEF Resting
  <2> QED BY <1>9, <2>1, <2>2, <2>3, RestingType DEF EndJob
<1> QED BY <1>1, <1>2, <1>3, <1>4, <1>5, <1>6, <1>7, <1>8, <1>9 DEF WriterStep

\* A new journal has its types.
LEMMA TypeInit == Init => TypeOK
<1> SUFFICES ASSUME Init PROVE TypeOK
  OBVIOUS
<1>1. <<>> \in Seq(Nat) /\ <<>> \in Seq(Job)
  BY EmptySeq
<1>2. Resting.pc = "resting" /\ Resting.run = NoRun /\ Idle \in Caller
  BY DEF Resting, Idle, Caller
<1> HIDE DEF Resting
<1> QED BY <1>1, <1>2, RestingType DEF Init, TypeOK

LEMMA TypeStep == TypeOK /\ [Next]_vars => TypeOK'
<1>1. TypeOK /\ UNCHANGED vars => TypeOK'
  BY DEF TypeOK, vars
<1> QED BY <1>1, TypeThreads, TypeWriter DEF Next

\* Every step of the journal keeps every variable in its type, and never leaves
\* the writer to persist or publish with nothing at hand (flushAllNow's loop).
THEOREM JournalTypeCorrect == Spec => []TypeOK
BY TypeInit, TypeStep, PTL DEF Spec

-----------------------------------------------------------------------------
(* Sequences *)

\* An event joins the end of three batches in a row when it joins the last one.
LEMMA AppendToLast ==
    ASSUME NEW S, NEW a \in Seq(S), NEW b \in Seq(S), NEW c \in Seq(S), NEW e \in S
    PROVE  a \o b \o Append(c, e) = Append(a \o b \o c, e)
<1>1. a \o b \in Seq(S) /\ <<e>> \in Seq(S)
  BY ConcatProperties
<1>2. Append(c, e) = c \o <<e>>
  BY AppendIsConcat
<1>3. a \o b \o c \in Seq(S)
  BY <1>1, ConcatProperties
<1>4. Append(a \o b \o c, e) = (a \o b \o c) \o <<e>>
  BY <1>3, AppendIsConcat
<1>5. (a \o b) \o (c \o <<e>>) = ((a \o b) \o c) \o <<e>>
  BY <1>1, ConcatAssociative
<1> QED BY <1>2, <1>4, <1>5

\* ... or the second, when the last is empty.
LEMMA AppendToSecond ==
    ASSUME NEW S, NEW a \in Seq(S), NEW b \in Seq(S), NEW e \in S
    PROVE  a \o Append(b, e) \o <<>> = Append(a \o b \o <<>>, e)
<1>1. /\ a \o b \in Seq(S)
      /\ Append(b, e) \in Seq(S)
      /\ <<>> \in Seq(S)
      /\ <<e>> \in Seq(S)
  BY ConcatProperties, AppendProperties, EmptySeq
<1>2. a \o Append(b, e) \in Seq(S)
  BY <1>1, ConcatProperties
<1>3. (a \o Append(b, e)) \o <<>> = a \o Append(b, e) /\ (a \o b) \o <<>> = a \o b
  BY <1>1, <1>2, ConcatEmptySeq
<1>4. Append(b, e) = b \o <<e>> /\ Append(a \o b, e) = (a \o b) \o <<e>>
  BY <1>1, AppendIsConcat
<1>5. a \o (b \o <<e>>) = (a \o b) \o <<e>>
  BY <1>1, ConcatAssociative
<1> QED BY <1>3, <1>4, <1>5

\* Taking a batch off the front leaves what is behind it.
LEMMA FrontAndRest ==
    ASSUME NEW S, NEW a \in Seq(S), NEW b \in Seq(S)
    PROVE  /\ SubSeq(a \o b, 1, Len(a)) = a
           /\ SubSeq(a \o b, Len(a) + 1, Len(a \o b)) = b
<1>1. /\ a \o b \in Seq(S)
      /\ Len(a) \in Nat /\ Len(b) \in Nat
      /\ Len(a \o b) = Len(a) + Len(b)
      /\ \A i \in 1..Len(a) : (a \o b)[i] = a[i]
      /\ \A i \in 1..Len(b) : (a \o b)[Len(a) + i] = b[i]
  BY ConcatProperties, LenProperties
<1>2. \A i \in 1..Len(a \o b) : (a \o b)[i] \in S
  BY <1>1, ElementOfSeq
<1>3. SubSeq(a \o b, 1, Len(a)) = a
  <2> DEFINE s == SubSeq(a \o b, 1, Len(a))
  <2>1. /\ s \in Seq(S) /\ Len(s) = Len(a)
        /\ \A i \in 1..Len(a) : s[i] = (a \o b)[i]
    BY <1>1, <1>2, SubSeqProperties
  <2> HIDE DEF s
  <2>2. s = a
    BY <1>1, <2>1, SeqEqual
  <2> QED BY <2>2 DEF s
<1>4. SubSeq(a \o b, Len(a) + 1, Len(a \o b)) = b
  <2> DEFINE s == SubSeq(a \o b, Len(a) + 1, Len(a \o b))
  <2>1. /\ s \in Seq(S) /\ Len(s) = Len(b)
        /\ \A i \in 1..Len(b) : s[i] = (a \o b)[Len(a) + i]
    BY <1>1, <1>2, SubSeqProperties
  <2> HIDE DEF s
  <2>2. s = b
    BY <1>1, <2>1, SeqEqual
  <2> QED BY <2>2 DEF s
<1> QED BY <1>3, <1>4

\* The same, of batches of event numbers.
LEMMA BatchesAssociate ==
    \A a, b, c \in Seq(Nat) : (a \o b) \o c = a \o (b \o c)
BY ConcatAssociative

LEMMA BatchesAppendToLast ==
    \A a, b, c \in Seq(Nat), e \in Nat : a \o b \o Append(c, e) = Append(a \o b \o c, e)
BY AppendToLast

LEMMA BatchesAppendToSecond ==
    \A a, b \in Seq(Nat), e \in Nat :
        a \o Append(b, e) \o <<>> = Append(a \o b \o <<>>, e)
BY AppendToSecond

LEMMA BatchesSplit ==
    \A a, b \in Seq(Nat) : /\ SubSeq(a \o b, 1, Len(a)) = a
                           /\ SubSeq(a \o b, Len(a) + 1, Len(a \o b)) = b
BY FrontAndRest

\* Counting one event, or a batch of k, from one side to the other.
LEMMA Count ==
    /\ \A l, u \in Nat : (l + u) + 1 = l + (u + 1)
    /\ \A l, k, m \in Nat : l + (k + m) = (l + k) + m
OBVIOUS

-----------------------------------------------------------------------------
(* The inductive invariant *)

\* The events of a run are those in the log and those on their way there.
NothingIsLost == \A r \in Runs : appended[r] = Len(log[r]) + Len(Unsaved(r))

\* The writer has a batch of the runs it has still to persist and of no other.
BatchesAreTodo == \A r \in Runs : batch[r] # <<>> <=> r \in writer.todo

\* A writer that is not persisting or publishing has none.
NothingTodoElsewhere ==
    writer.pc \in {"resting", "takeAll", "finish"} => writer.todo = {}

\* A run whose events were set aside has none anywhere else, so that none of them
\* can reach the log before those.
SetAsideWhole ==
    \A r \in Runs : quarantined[r] # <<>> => pending[r] = <<>> /\ batch[r] = <<>>

LogInv ==
    /\ NothingIsLost
    /\ BatchesAreTodo
    /\ NothingTodoElsewhere
    /\ SetAsideWhole

\* The unsaved events of a run are event numbers.
LEMMA UnsavedType ==
    ASSUME TypeOK, NEW r \in Runs
    PROVE  Unsaved(r) \in Seq(Nat) /\ Len(Unsaved(r)) \in Nat /\ Len(log[r]) \in Nat
<1>1. batch[r] \o pending[r] \in Seq(Nat) /\ quarantined[r] \in Seq(Nat)
  BY Concat DEF TypeOK
<1>2. Unsaved(r) \in Seq(Nat)
  BY <1>1, ConcatProperties DEF Unsaved
<1> QED BY <1>2, LenProperties DEF TypeOK

\* A step that leaves the log and what is on its way there is no step of the
\* abstract log.
LEMMA Stutter ==
    ASSUME UNCHANGED log, \A r \in Runs : Unsaved(r)' = Unsaved(r)
    PROVE  [Log!Next]_(Log!vars)
BY DEF Log!vars

\* Such a step keeps the count, too.
LEMMA NothingLostHere ==
    ASSUME LogInv, UNCHANGED <<log, appended>>, \A r \in Runs : Unsaved(r)' = Unsaved(r)
    PROVE  NothingIsLost'
BY DEF LogInv, NothingIsLost

-----------------------------------------------------------------------------
(* The steps *)

\* An event is appended behind all of its run.
LEMMA LogAppend ==
    ASSUME TypeOK, LogInv, NEW r \in Runs, AppendEvent(r)
    PROVE  LogInv' /\ [Log!Next]_(Log!vars)
<1> DEFINE e == appended[r] + 1
<1>1. e \in Nat /\ e = Len(log[r]) + Len(Unsaved(r)) + 1
  BY UnsavedType DEF TypeOK, LogInv, NothingIsLost
<1>2. /\ UNCHANGED <<log, writer, batch>>
      /\ appended' = [appended EXCEPT ![r] = e]
  BY DEF AppendEvent
<1>3. /\ Unsaved(r)' = Append(Unsaved(r), e)
      /\ SetAsideWhole'
      /\ \A s \in Runs : s # r => Unsaved(s)' = Unsaved(s)
  <2>1. batch[r] \in Seq(Nat) /\ pending[r] \in Seq(Nat) /\ quarantined[r] \in Seq(Nat)
    BY DEF TypeOK
  <2>2. CASE Isolated(r)
    <3>1. UNCHANGED pending /\ quarantined' = [quarantined EXCEPT ![r] = Append(@, e)]
      BY <2>2 DEF AppendEvent
    <3>2. quarantined'[r] = Append(quarantined[r], e)
          /\ \A s \in Runs : s # r => quarantined'[s] = quarantined[s]
      BY <3>1 DEF TypeOK
    <3>3. batch[r] \o pending[r] \o Append(quarantined[r], e) = Append(Unsaved(r), e)
      <4> HIDE DEF e
      <4> QED BY <1>1, <2>1, BatchesAppendToLast DEF Unsaved
    <3>4. SetAsideWhole'
      BY <1>2, <2>2, <3>1, <3>2 DEF LogInv, SetAsideWhole, Isolated
    <3> QED BY <1>2, <3>1, <3>2, <3>3, <3>4 DEF Unsaved
  <2>3. CASE ~Isolated(r)
    <3>1. UNCHANGED quarantined /\ pending' = [pending EXCEPT ![r] = Append(@, e)]
      BY <2>3 DEF AppendEvent
    <3>2. pending'[r] = Append(pending[r], e)
          /\ \A s \in Runs : s # r => pending'[s] = pending[s]
      BY <3>1 DEF TypeOK
    <3>3. batch[r] \o Append(pending[r], e) \o quarantined[r] = Append(Unsaved(r), e)
      <4> HIDE DEF e
      <4>1. quarantined[r] = <<>>
        BY <2>3 DEF Isolated
      <4>2. batch[r] \o Append(pending[r], e) \o <<>> = Append(batch[r] \o pending[r] \o <<>>, e)
        BY <1>1, <2>1, BatchesAppendToSecond
      <4> QED BY <4>1, <4>2 DEF Unsaved
    <3>4. SetAsideWhole'
      BY <1>2, <2>3, <3>1, <3>2 DEF LogInv, SetAsideWhole, Isolated
    <3> QED BY <1>2, <3>1, <3>2, <3>3, <3>4 DEF Unsaved
  <2> QED BY <2>2, <2>3
<1>4. NothingIsLost'
  <2>1. Len(Append(Unsaved(r), e)) = Len(Unsaved(r)) + 1
    BY <1>1, UnsavedType, AppendProperties
  <2>2. appended'[r] = e /\ \A s \in Runs : s # r => appended'[s] = appended[s]
    BY <1>2 DEF TypeOK
  <2>3. appended'[r] = Len(log'[r]) + Len(Unsaved(r)')
    <3>1. Len(log'[r]) = Len(log[r]) /\ Len(Unsaved(r)') = Len(Unsaved(r)) + 1
      BY <1>2, <1>3, <2>1
    <3>2. Len(log[r]) \in Nat /\ Len(Unsaved(r)) \in Nat
      BY UnsavedType
    <3> HIDE DEF e
    <3>3. e = Len(log[r]) + (Len(Unsaved(r)) + 1)
      BY <1>1, <3>2, Count, Zenon
    <3> QED BY <2>2, <3>1, <3>3, Zenon
  <2>4. \A s \in Runs : s # r => appended'[s] = Len(log'[s]) + Len(Unsaved(s)')
    BY <1>2, <1>3, <2>2 DEF LogInv, NothingIsLost
  <2> QED BY <2>3, <2>4 DEF NothingIsLost
<1>5. LogInv'
  BY <1>2, <1>3, <1>4 DEF LogInv, BatchesAreTodo, NothingTodoElsewhere
<1>6. Log!Happen(r)
  <2> HIDE DEF e
  <2>1. [s \in Runs |-> Unsaved(s)]' =
            [[s \in Runs |-> Unsaved(s)] EXCEPT ![r] = Append(Unsaved(r), e)]
    BY <1>3
  <2> QED BY <1>1, <1>2, <2>1 DEF Log!Happen
<1> QED BY <1>5, <1>6 DEF Log!Next

\* The batch of a run becomes durable: it is the oldest of what is unsaved.
LEMMA LogPersist ==
    ASSUME TypeOK, LogInv, NEW r \in Runs, Persist(r)
    PROVE  LogInv' /\ [Log!Next]_(Log!vars)
<1> DEFINE rest == pending[r] \o quarantined[r]
           k == Len(batch[r])
<1>1. /\ batch[r] \in Seq(Nat) /\ log[r] \in Seq(Nat)
      /\ pending[r] \in Seq(Nat) /\ quarantined[r] \in Seq(Nat)
      /\ rest \in Seq(Nat) /\ Len(rest) \in Nat
      /\ <<>> \in Seq(Nat)
  BY ConcatProperties, LenProperties, EmptySeq DEF TypeOK
<1>2. Unsaved(r) = batch[r] \o rest
  <2>1. (batch[r] \o pending[r]) \o quarantined[r] = batch[r] \o (pending[r] \o quarantined[r])
    <3> DEFINE b == batch[r]
               p == pending[r]
               q == quarantined[r]
    <3>1. b \in Seq(Nat) /\ p \in Seq(Nat) /\ q \in Seq(Nat)
      BY <1>1
    <3> HIDE DEF b, p, q
    <3>2. (b \o p) \o q = b \o (p \o q)
      BY <3>1, ConcatAssociative
    <3> QED BY <3>2 DEF b, p, q
  <2> QED BY <2>1 DEF Unsaved
<1>3. /\ UNCHANGED <<appended, pending, quarantined>>
      /\ log'[r] = log[r] \o batch[r] /\ \A s \in Runs : s # r => log'[s] = log[s]
      /\ batch'[r] = <<>> /\ \A s \in Runs : s # r => batch'[s] = batch[s]
  BY DEF Persist, TypeOK
<1>4. Unsaved(r)' = rest
  <2>1. <<>> \o pending[r] = pending[r]
    BY <1>1, ConcatEmptySeq
  <2> QED BY <1>3, <2>1 DEF Unsaved
<1>5. \A s \in Runs : s # r => Unsaved(s)' = Unsaved(s)
  BY <1>3 DEF Unsaved
<1>6. k \in Nat /\ k >= 1 /\ Len(Unsaved(r)) = k + Len(rest)
  <2>1. batch[r] # <<>>
    BY DEF Persist, LogInv, BatchesAreTodo
  <2>2. k \in Nat \ {0}
    BY <1>1, <2>1, EmptySeq
  <2> QED BY <1>1, <1>2, <2>2, ConcatProperties
<1>7. LogInv'
  <2>1. Len(log[r] \o batch[r]) = Len(log[r]) + k
    BY <1>1, ConcatProperties
  <2>2. appended'[r] = Len(log'[r]) + Len(Unsaved(r)')
    <3>1. appended'[r] = Len(log[r]) + Len(Unsaved(r))
      BY <1>3 DEF LogInv, NothingIsLost
    <3>2. Len(log'[r]) = Len(log[r]) + k /\ Len(Unsaved(r)') = Len(rest)
      BY <1>3, <1>4, <2>1
    <3>3. Len(log[r]) \in Nat
      BY UnsavedType
    <3> HIDE DEF k, rest
    <3>4. Len(log[r]) + Len(Unsaved(r)) = (Len(log[r]) + k) + Len(rest)
      <4>1. Len(log[r]) + (k + Len(rest)) = (Len(log[r]) + k) + Len(rest)
        BY <1>1, <1>6, <3>3, Count, Zenon
      <4> QED BY <1>6, <4>1, Zenon
    <3> QED BY <3>1, <3>2, <3>4, Zenon
  <2>3. NothingIsLost'
    BY <1>3, <1>5, <2>2 DEF LogInv, NothingIsLost
  <2>4. writer'.todo = writer.todo \ {r} /\ writer'.pc = "publish"
    BY DEF Persist, Working
  <2>5. BatchesAreTodo' /\ NothingTodoElsewhere'
    BY <1>3, <2>4 DEF LogInv, BatchesAreTodo, NothingTodoElsewhere
  <2>6. SetAsideWhole'
    BY <1>3 DEF LogInv, SetAsideWhole
  <2> QED BY <2>3, <2>5, <2>6 DEF LogInv
<1>8. Log!Save(r)
  <2>1. SubSeq(Unsaved(r), 1, k) = batch[r]
        /\ SubSeq(Unsaved(r), k + 1, Len(Unsaved(r))) = rest
    <3> HIDE DEF rest
    <3>1. SubSeq(batch[r] \o rest, 1, Len(batch[r])) = batch[r]
          /\ SubSeq(batch[r] \o rest, Len(batch[r]) + 1, Len(batch[r] \o rest)) = rest
      BY <1>1, BatchesSplit, Zenon
    <3> QED BY <1>2, <3>1, Zenon
  <2> HIDE DEF k, rest
  <2>2. k \in 1..Len(Unsaved(r))
    BY <1>1, <1>6
  <2>3. log' = [log EXCEPT ![r] = log[r] \o batch[r]]
    BY DEF Persist
  <2>4. [s \in Runs |-> Unsaved(s)]' = [[s \in Runs |-> Unsaved(s)] EXCEPT ![r] = rest]
    BY <1>4, <1>5
  <2> QED BY <2>1, <2>2, <2>3, <2>4 DEF Log!Save
<1> QED BY <1>7, <1>8 DEF Log!Next

\* A batch whose transaction fails goes back in front of what came since, or is set
\* aside with it: nothing moves.
LEMMA LogFails ==
    ASSUME TypeOK, LogInv, NEW r \in Runs, PersistFails(r)
    PROVE  LogInv' /\ [Log!Next]_(Log!vars)
<1>1. /\ batch[r] \in Seq(Nat) /\ pending[r] \in Seq(Nat) /\ quarantined[r] \in Seq(Nat)
      /\ batch[r] \o pending[r] \in Seq(Nat)
      /\ batch[r] # <<>>
      /\ quarantined[r] = <<>>
  BY Concat DEF TypeOK, PersistFails, LogInv, BatchesAreTodo, SetAsideWhole
<1>2. /\ UNCHANGED <<log, appended>>
      /\ batch'[r] = <<>> /\ \A s \in Runs : s # r => batch'[s] = batch[s]
      /\ \A s \in Runs : s # r => /\ pending'[s] = pending[s]
                                  /\ quarantined'[s] = quarantined[s]
  BY DEF PersistFails, TypeOK
<1>3. \/ /\ pending'[r] = batch[r] \o pending[r]
         /\ quarantined'[r] = <<>>
      \/ /\ pending'[r] = <<>>
         /\ quarantined'[r] = batch[r] \o pending[r]
  BY <1>1 DEF PersistFails, TypeOK
<1>4. Unsaved(r)' = Unsaved(r)
  <2> DEFINE b == batch[r] \o pending[r]
  <2> HIDE DEF b
  <2>1. b \in Seq(Nat) /\ <<>> \in Seq(Nat)
    BY <1>1, EmptySeq DEF b
  <2>2. <<>> \o b = b /\ b \o <<>> = b /\ <<>> \o <<>> = <<>>
    BY <2>1, ConcatEmptySeq
  <2>3. Unsaved(r) = b
    BY <1>1, <2>2 DEF Unsaved, b
  <2>4. Unsaved(r)' = batch'[r] \o pending'[r] \o quarantined'[r]
    BY DEF Unsaved
  <2>5. CASE pending'[r] = b /\ quarantined'[r] = <<>>
    BY <1>2, <2>2, <2>3, <2>4, <2>5
  <2>6. CASE pending'[r] = <<>> /\ quarantined'[r] = b
    BY <1>2, <2>2, <2>3, <2>4, <2>6
  <2> QED BY <1>3, <2>5, <2>6 DEF b
<1>5. \A s \in Runs : Unsaved(s)' = Unsaved(s)
  BY <1>2, <1>4 DEF Unsaved
<1>6. /\ writer.pc = "persist" /\ r \in writer.todo
      /\ writer'.todo = writer.todo \ {r}
      /\ writer'.pc = IF writer'.todo = {} THEN "finish" ELSE "persist"
  BY DEF PersistFails, Working, Continue
<1>7. BatchesAreTodo' /\ NothingTodoElsewhere'
  BY <1>2, <1>6 DEF LogInv, BatchesAreTodo, NothingTodoElsewhere
<1>8. SetAsideWhole'
  BY <1>2, <1>3 DEF LogInv, SetAsideWhole
<1> QED BY <1>2, <1>5, <1>7, <1>8, NothingLostHere, Stutter DEF LogInv

\* A flush takes the pending events of its run; the writer had no batch before.
LEMMA LogStartFlush ==
    ASSUME TypeOK, LogInv, StartFlush
    PROVE  LogInv' /\ [Log!Next]_(Log!vars)
<1>1. writer.todo = {} /\ \A s \in Runs : batch[s] = <<>>
  BY DEF StartFlush, LogInv, NothingTodoElsewhere, BatchesAreTodo
<1>2. UNCHANGED <<log, appended, quarantined>>
  BY DEF StartFlush
<1>3. CASE Refused(Head(jobs).run) \/ pending[Head(jobs).run] = <<>>
  <2>1. UNCHANGED <<pending, batch, writer>>
    BY <1>3 DEF StartFlush
  <2>2. \A s \in Runs : Unsaved(s)' = Unsaved(s)
    BY <1>2, <2>1 DEF Unsaved
  <2>3. BatchesAreTodo' /\ NothingTodoElsewhere' /\ SetAsideWhole'
    BY <1>2, <2>1 DEF LogInv, BatchesAreTodo, NothingTodoElsewhere, SetAsideWhole
  <2> QED BY <1>2, <2>2, <2>3, NothingLostHere, Stutter DEF LogInv
<1>4. ASSUME NEW r \in Runs, r = Head(jobs).run, ~(Refused(r) \/ pending[r] = <<>>)
      PROVE  LogInv' /\ [Log!Next]_(Log!vars)
  <2>1. /\ batch' = [batch EXCEPT ![r] = pending[r]]
        /\ pending' = [pending EXCEPT ![r] = <<>>]
        /\ writer' = [pc |-> "persist", job |-> Head(jobs), run |-> NoRun,
                      todo |-> {r}, failed |-> FALSE]
    BY <1>4 DEF StartFlush
  <2>2. /\ pending[r] \in Seq(Nat) /\ pending[r] # <<>>
        /\ quarantined[r] = <<>>
        /\ writer'.pc = "persist" /\ writer'.todo = {r}
    BY <1>4, <2>1 DEF Refused, TypeOK
  <2>3. /\ batch'[r] = pending[r] /\ pending'[r] = <<>>
        /\ \A s \in Runs : s # r => batch'[s] = batch[s] /\ pending'[s] = pending[s]
    BY <2>1 DEF TypeOK
  <2>4. pending[r] \o <<>> = pending[r] /\ <<>> \o pending[r] = pending[r]
    BY <2>2, ConcatEmptySeq
  <2>5. Unsaved(r)' = Unsaved(r)
    <3>1. Unsaved(r)' = pending[r] \o <<>> \o <<>>
      BY <1>2, <2>2, <2>3 DEF Unsaved
    <3>2. Unsaved(r) = <<>> \o pending[r] \o <<>>
      BY <1>1, <2>2 DEF Unsaved
    <3> QED BY <2>4, <3>1, <3>2
  <2>6. ASSUME NEW s \in Runs PROVE Unsaved(s)' = Unsaved(s)
    <3>1. CASE s = r
      BY <2>5, <3>1
    <3>2. CASE s # r
      BY <1>2, <2>3, <3>2 DEF Unsaved
    <3> QED BY <3>1, <3>2
  <2>7. BatchesAreTodo' /\ NothingTodoElsewhere' /\ SetAsideWhole'
    BY <1>1, <1>2, <2>2, <2>3 DEF LogInv, BatchesAreTodo, NothingTodoElsewhere, SetAsideWhole
  <2> QED BY <1>2, <2>6, <2>7, NothingLostHere, Stutter DEF LogInv
<1>5. Head(jobs) \in Job
  BY HeadTailProperties DEF StartFlush, TypeOK
<1>6. Head(jobs).run \in Runs
  BY <1>5 DEF StartFlush, Job
<1> QED BY <1>3, <1>4, <1>6

\* takeAll takes what is pending of every run.
LEMMA LogTakeAll ==
    ASSUME TypeOK, LogInv, TakeAll
    PROVE  LogInv' /\ [Log!Next]_(Log!vars)
<1>1. \A s \in Runs : batch[s] = <<>>
  BY DEF TakeAll, LogInv, NothingTodoElsewhere, BatchesAreTodo
<1>2. /\ UNCHANGED <<log, appended, quarantined>>
      /\ batch' = pending
      /\ \A s \in Runs : pending'[s] = <<>>
  BY DEF TakeAll
<1>3. ASSUME NEW s \in Runs PROVE Unsaved(s)' = Unsaved(s)
  <2>1. pending[s] \in Seq(Nat)
    BY DEF TypeOK
  <2>2. pending[s] \o <<>> = pending[s] /\ <<>> \o pending[s] = pending[s]
    BY <2>1, ConcatEmptySeq
  <2> QED BY <1>1, <1>2, <2>2 DEF Unsaved
<1>4. /\ writer'.todo = {s \in Runs : pending[s] # <<>>}
      /\ writer'.pc = IF writer'.todo = {} THEN "finish" ELSE "persist"
  BY DEF TakeAll, Working, Continue
<1>5. BatchesAreTodo' /\ NothingTodoElsewhere' /\ SetAsideWhole'
  BY <1>2, <1>4 DEF LogInv, BatchesAreTodo, NothingTodoElsewhere, SetAsideWhole
<1> QED BY <1>2, <1>3, <1>5, NothingLostHere, Stutter DEF LogInv

\* The process starts again with the log and nothing on its way there.
LEMMA LogRestart ==
    ASSUME TypeOK, Restart
    PROVE  LogInv' /\ [Log!Next]_(Log!vars)
<1>1. /\ UNCHANGED log
      /\ \A r \in Runs : /\ appended'[r] = Len(log[r])
                         /\ batch'[r] = <<>> /\ pending'[r] = <<>> /\ quarantined'[r] = <<>>
      /\ writer'.todo = {}
  BY DEF Restart, Resting
<1>2. <<>> \o <<>> = <<>>
  BY EmptySeq, ConcatEmptySeq
<1>3. \A r \in Runs : Unsaved(r)' = <<>>
  BY <1>1, <1>2 DEF Unsaved
<1>4. NothingIsLost'
  <2>1. ASSUME NEW r \in Runs PROVE appended'[r] = Len(log'[r]) + Len(Unsaved(r)')
    <3>1. Len(Unsaved(r)') = 0 /\ Len(log'[r]) = Len(log[r])
      BY <1>1, <1>3, EmptySeq
    <3>2. Len(log[r]) \in Nat
      BY UnsavedType
    <3> QED BY <1>1, <3>1, <3>2
  <2> QED BY <2>1 DEF NothingIsLost
<1>5. BatchesAreTodo' /\ NothingTodoElsewhere' /\ SetAsideWhole'
  BY <1>1 DEF BatchesAreTodo, NothingTodoElsewhere, SetAsideWhole
<1>6. Log!Lose
  BY <1>1, <1>3 DEF Log!Lose
<1> QED BY <1>4, <1>5, <1>6 DEF LogInv, Log!Next

\* A step that touches neither the log nor what is on its way there.
LEMMA LogElsewhere ==
    ASSUME LogInv, UNCHANGED <<log, appended, pending, quarantined, batch>>,
           writer'.todo = writer.todo,
           writer'.pc \in {"resting", "takeAll", "finish"} => writer'.todo = {}
    PROVE  LogInv' /\ [Log!Next]_(Log!vars)
<1>1. \A r \in Runs : Unsaved(r)' = Unsaved(r)
  BY DEF Unsaved
<1> QED BY <1>1, NothingLostHere, Stutter
        DEF LogInv, BatchesAreTodo, NothingTodoElsewhere, SetAsideWhole

\* Every step keeps the invariant and is one of the abstract log's, or none.
LEMMA LogStep ==
    ASSUME TypeOK, LogInv, [Next]_vars
    PROVE  LogInv' /\ [Log!Next]_(Log!vars)
<1>1. CASE UNCHANGED vars
  BY <1>1, LogElsewhere DEF vars, LogInv, NothingTodoElsewhere
<1>2. ASSUME NEW c \in Callers, NEW r \in Runs, Flush(c, r) \/ FlushRejected(c, r)
      PROVE  LogInv' /\ [Log!Next]_(Log!vars)
  BY <1>2, LogElsewhere DEF Flush, FlushRejected, LogInv, NothingTodoElsewhere
<1>3. ASSUME NEW c \in Callers, Interrupt(c) PROVE LogInv' /\ [Log!Next]_(Log!vars)
  <2>1. writer'.pc = writer.pc /\ writer'.todo = writer.todo
    BY <1>3 DEF Interrupt, TypeOK, Writer
  <2> QED BY <1>3, <2>1, LogElsewhere DEF Interrupt, LogInv, NothingTodoElsewhere
<1>4. CASE Close
  BY <1>4, LogElsewhere DEF Close, LogInv, NothingTodoElsewhere
<1>5. CASE FireTimer \/ StartClosing
  <2>1. writer'.todo = {} /\ writer.todo = {}
    BY <1>5 DEF FireTimer, StartClosing, Resting, LogInv, NothingTodoElsewhere
  <2> QED BY <1>5, <2>1, LogElsewhere DEF FireTimer, StartClosing
<1>6. CASE Publish
  BY <1>6, LogElsewhere DEF Publish, LogInv, NothingTodoElsewhere
<1>7. CASE EndBatch
  <2>1. /\ writer'.todo = writer.todo
        /\ writer'.pc = IF writer.todo = {} THEN "finish" ELSE "persist"
    BY <1>7 DEF EndBatch, Working, Continue
  <2> QED BY <1>7, <2>1, LogElsewhere DEF EndBatch
<1>8. CASE EndJob
  <2>1. writer'.todo = {} /\ writer.todo = {}
    BY <1>8 DEF EndJob, Resting, LogInv, NothingTodoElsewhere
  <2> QED BY <1>8, <2>1, LogElsewhere DEF EndJob
<1> QED BY <1>1, <1>2, <1>3, <1>4, <1>5, <1>6, <1>7, <1>8, LogAppend, LogPersist, LogFails,
           LogStartFlush, LogTakeAll, LogRestart DEF Next, WriterStep

\* A new journal is a new log with nothing on its way there.
LEMMA LogStart == Init => LogInv /\ Log!Init
<1> SUFFICES ASSUME Init PROVE LogInv /\ Log!Init
  OBVIOUS
<1>1. <<>> \o <<>> = <<>> /\ Len(<<>>) = 0
  BY EmptySeq, ConcatEmptySeq
<1>2. \A r \in Runs : Unsaved(r) = <<>>
  BY <1>1 DEF Init, Unsaved
<1>3. NothingIsLost
  BY <1>1, <1>2 DEF Init, NothingIsLost
<1>4. BatchesAreTodo /\ NothingTodoElsewhere /\ SetAsideWhole
  BY DEF Init, Resting, BatchesAreTodo, NothingTodoElsewhere, SetAsideWhole
<1>5. Log!Init
  BY <1>2 DEF Init, Log!Init
<1> QED BY <1>3, <1>4, <1>5 DEF LogInv

\* The journal implements the abstract log: whatever is appended, flushed, retried,
\* set aside, closed or lost with the process, a run's log is a prefix of its
\* events, in their order, each once.
THEOREM JournalKeepsOrder == Spec => LogSpec
<1>1. Spec => [](TypeOK /\ LogInv)
  <2>1. TypeOK /\ LogInv /\ [Next]_vars => TypeOK' /\ LogInv'
    BY TypeStep, LogStep
  <2> QED BY TypeInit, LogStart, <2>1, PTL DEF Spec
<1>2. TypeOK /\ LogInv /\ [Next]_vars => [Log!Next]_(Log!vars)
  BY LogStep
<1> QED BY <1>1, <1>2, LogStart, PTL DEF Spec, LogSpec, Log!Spec

-----------------------------------------------------------------------------
(* Retries *)

\* A run whose events are being published has none set aside: its failures may be
\* forgotten once they are.
PublishedAreNotSetAside ==
    writer.pc = "publish" => quarantined[writer.run] = <<>>

RetryInv == RetriesAreBounded /\ PublishedAreNotSetAside

\* A transaction that fails once more than allowed sets the events aside.
LEMMA RetryFails ==
    ASSUME TypeOK, LogInv, RetryInv, NEW r \in Runs, PersistFails(r)
    PROVE  RetryInv'
<1>1. /\ batch[r] \in Seq(Nat) /\ pending[r] \in Seq(Nat)
      /\ batch[r] # <<>> /\ quarantined[r] = <<>>
  BY DEF TypeOK, PersistFails, LogInv, BatchesAreTodo, SetAsideWhole
<1>2. batch[r] \o pending[r] # <<>>
  BY <1>1, ConcatEqualIffEmpty
<1>3. attempts[r] \in Nat /\ attempts[r] < MaxAttempts
  BY <1>1, MaxAttemptsAssumption DEF TypeOK, RetryInv, RetriesAreBounded
<1>4. /\ attempts'[r] = attempts[r] + 1
      /\ \A s \in Runs : s # r => /\ attempts'[s] = attempts[s]
                                  /\ quarantined'[s] = quarantined[s]
                                  /\ pending'[s] = pending[s]
                                  /\ batch'[s] = batch[s]
      /\ batch'[r] = <<>>
  BY DEF PersistFails, TypeOK
<1>5. IF attempts[r] + 1 >= MaxAttempts
      THEN quarantined'[r] = batch[r] \o pending[r] /\ pending'[r] = <<>>
      ELSE quarantined'[r] = <<>>
  BY <1>1 DEF PersistFails, GivesUp, TypeOK
<1>6. RetriesAreBounded'
  <2>1. /\ attempts'[r] <= MaxAttempts
        /\ attempts'[r] = MaxAttempts <=> quarantined'[r] # <<>>
        /\ quarantined'[r] # <<>> => pending'[r] = <<>> /\ batch'[r] = <<>>
    <3>1. CASE attempts[r] + 1 >= MaxAttempts
      <4>1. attempts[r] + 1 = MaxAttempts
        BY <1>3, <3>1, MaxAttemptsAssumption
      <4>2. quarantined'[r] # <<>> /\ pending'[r] = <<>>
        BY <1>2, <1>5, <3>1, Zenon
      <4>3. attempts'[r] = MaxAttempts /\ batch'[r] = <<>>
        BY <1>4, <4>1
      <4> QED BY <4>2, <4>3, MaxAttemptsAssumption
    <3>2. CASE ~(attempts[r] + 1 >= MaxAttempts)
      <4>1. attempts[r] + 1 < MaxAttempts
        BY <1>3, <3>2, MaxAttemptsAssumption
      <4>2. quarantined'[r] = <<>>
        BY <1>5, <3>2, Zenon
      <4>3. attempts'[r] <= MaxAttempts /\ attempts'[r] # MaxAttempts
        BY <1>3, <1>4, <4>1, MaxAttemptsAssumption
      <4> QED BY <4>2, <4>3
    <3> QED BY <3>1, <3>2
  <2> QED BY <1>4, <2>1 DEF RetryInv, RetriesAreBounded
<1>7. PublishedAreNotSetAside'
  BY DEF PersistFails, Working, Continue, PublishedAreNotSetAside
<1> QED BY <1>6, <1>7 DEF RetryInv

\* A step that sets nothing aside and counts no failure.
LEMMA RetryKept ==
    ASSUME RetryInv, UNCHANGED <<attempts, quarantined>>, LogInv',
           writer'.pc = "publish" => writer.pc = "publish" /\ writer'.run = writer.run
    PROVE  RetryInv'
BY DEF RetryInv, RetriesAreBounded, PublishedAreNotSetAside, LogInv, SetAsideWhole

\* Every step keeps the failures counted and bounded.
LEMMA RetryStep == TypeOK /\ LogInv /\ RetryInv /\ [Next]_vars => RetryInv'
<1> SUFFICES ASSUME TypeOK, LogInv, RetryInv, [Next]_vars PROVE RetryInv'
  OBVIOUS
<1>0. TypeOK' /\ LogInv'
  BY TypeStep, LogStep
<1>1. CASE UNCHANGED vars
  BY <1>0, <1>1, RetryKept DEF vars
<1>2. ASSUME NEW r \in Runs, AppendEvent(r) PROVE RetryInv'
  <2>1. appended[r] + 1 \in Nat /\ quarantined[r] \in Seq(Nat)
    BY DEF TypeOK
  <2>2. Append(quarantined[r], appended[r] + 1) # <<>>
    BY <2>1, AppendProperties
  <2>3. \A s \in Runs : quarantined'[s] # <<>> <=> quarantined[s] # <<>>
    BY <1>2, <2>2 DEF AppendEvent, Isolated, TypeOK
  <2>4. RetriesAreBounded'
    BY <1>0, <1>2, <2>3 DEF AppendEvent, RetryInv, RetriesAreBounded, LogInv, SetAsideWhole
  <2>5. writer.pc = "publish" => writer.run \in Runs
    BY DEF TypeOK, Writer
  <2>6. PublishedAreNotSetAside'
    BY <1>2, <2>3, <2>5 DEF AppendEvent, RetryInv, PublishedAreNotSetAside
  <2> QED BY <2>4, <2>6 DEF RetryInv
<1>3. ASSUME NEW c \in Callers, NEW r \in Runs, Flush(c, r) \/ FlushRejected(c, r)
      PROVE  RetryInv'
  BY <1>0, <1>3, RetryKept DEF Flush, FlushRejected
<1>4. ASSUME NEW c \in Callers, Interrupt(c) PROVE RetryInv'
  <2>1. writer'.pc = writer.pc /\ writer'.run = writer.run
    BY <1>4 DEF Interrupt, TypeOK, Writer
  <2> QED BY <1>0, <1>4, <2>1, RetryKept DEF Interrupt
<1>5. CASE Close
  BY <1>0, <1>5, RetryKept DEF Close
<1>6. CASE StartFlush
  <2>1. writer'.pc # "publish"
    BY <1>6 DEF StartFlush
  <2> QED BY <1>0, <1>6, <2>1, RetryKept DEF StartFlush
<1>7. CASE FireTimer \/ StartClosing
  <2>1. writer'.pc = "takeAll"
    BY <1>7 DEF FireTimer, StartClosing, Resting
  <2> QED BY <1>0, <1>7, <2>1, RetryKept DEF FireTimer, StartClosing
<1>8. CASE TakeAll
  <2>1. writer'.pc # "publish"
    BY <1>8 DEF TakeAll, Working, Continue
  <2> QED BY <1>0, <1>8, <2>1, RetryKept DEF TakeAll
<1>9. ASSUME NEW r \in Runs, Persist(r) PROVE RetryInv'
  <2>1. UNCHANGED <<attempts, quarantined>> /\ writer'.run = r
    BY <1>9 DEF Persist, Working
  <2>2. quarantined[r] = <<>>
    BY <1>9 DEF Persist, LogInv, BatchesAreTodo, SetAsideWhole
  <2>3. RetriesAreBounded'
    BY <1>0, <2>1 DEF RetryInv, RetriesAreBounded, LogInv, SetAsideWhole
  <2> QED BY <2>1, <2>2, <2>3 DEF RetryInv, PublishedAreNotSetAside
<1>10. CASE Publish
  BY <1>0, <1>10, RetryKept DEF Publish
<1>11. CASE EndBatch
  <2>1. writer'.pc # "publish"
    BY <1>11 DEF EndBatch, Working, Continue
  <2>2. quarantined[writer.run] = <<>>
    BY <1>11 DEF EndBatch, RetryInv, PublishedAreNotSetAside
  <2>3. UNCHANGED <<pending, batch, quarantined>>
        /\ \A s \in Runs : attempts'[s] = IF s = writer.run THEN 0 ELSE attempts[s]
    BY <1>11 DEF EndBatch, TypeOK
  <2>4. RetriesAreBounded'
    BY <2>2, <2>3, MaxAttemptsAssumption DEF RetryInv, RetriesAreBounded
  <2> QED BY <2>1, <2>4 DEF RetryInv, PublishedAreNotSetAside
<1>12. CASE EndJob
  <2>1. writer'.pc # "publish"
    BY <1>12 DEF EndJob, Resting
  <2> QED BY <1>0, <1>12, <2>1, RetryKept DEF EndJob
<1>13. CASE Restart
  BY <1>13, MaxAttemptsAssumption
     DEF Restart, Resting, RetryInv, RetriesAreBounded, PublishedAreNotSetAside
<1> QED BY <1>1, <1>2, <1>3, <1>4, <1>5, <1>6, <1>7, <1>8, <1>9, <1>10, <1>11, <1>12, <1>13,
           RetryFails DEF Next, WriterStep

\* A batch that keeps failing is tried MAX_PERSISTENCE_ATTEMPTS times and set aside,
\* never tried again and never given up before; a success starts the count anew.
THEOREM RetriesStop == Spec => []RetriesAreBounded
<1>1. Init => RetryInv
  BY MaxAttemptsAssumption
     DEF Init, Resting, RetryInv, RetriesAreBounded, PublishedAreNotSetAside
<1>2. TypeOK /\ LogInv /\ RetryInv /\ [Next]_vars => TypeOK' /\ LogInv' /\ RetryInv'
  BY TypeStep, LogStep, RetryStep
<1>3. RetryInv => RetriesAreBounded
  BY DEF RetryInv
<1> QED BY TypeInit, LogStart, <1>1, <1>2, <1>3, PTL DEF Spec

-----------------------------------------------------------------------------
(* The timer *)

\* Events that wait, or are in the writer's hands and may come back to wait.
Waiting(r) == pending[r] # <<>> \/ batch[r] # <<>>

TimerAtWork == writer.pc # "resting" /\ writer.job = Timer

\* WaitingEventsAreScheduled alone is not kept: a batch taken by a flush may be put
\* back, and its timer must still be there.
TimerInv == ~closed => \A r \in Runs : Waiting(r) => scheduled \/ TimerAtWork

\* A step that brings no new events to wait, and takes no timer away.
LEMMA TimerKept ==
    ASSUME TimerInv, closed => closed',
           \A r \in Runs : Waiting(r)' => Waiting(r),
           scheduled => scheduled', TimerAtWork => TimerAtWork'
    PROVE  TimerInv'
BY DEF TimerInv

\* Every step leaves a timer for the events that wait.
LEMMA TimerStep == TypeOK /\ LogInv /\ TimerInv /\ [Next]_vars => TimerInv'
<1> SUFFICES ASSUME TypeOK, LogInv, TimerInv, [Next]_vars PROVE TimerInv'
  OBVIOUS
<1>1. CASE UNCHANGED vars
  BY <1>1 DEF vars, TimerInv, Waiting, TimerAtWork
<1>2. ASSUME NEW r \in Runs, AppendEvent(r) PROVE TimerInv'
  <2>1. CASE Isolated(r)
    BY <1>2, <2>1, TimerKept DEF AppendEvent, Waiting, TimerAtWork
  <2>2. CASE ~Isolated(r)
    BY <1>2, <2>2 DEF AppendEvent, TimerInv
  <2> QED BY <2>1, <2>2
<1>3. ASSUME NEW c \in Callers, NEW r \in Runs, Flush(c, r) \/ FlushRejected(c, r)
      PROVE  TimerInv'
  BY <1>3, TimerKept DEF Flush, FlushRejected, Waiting, TimerAtWork
<1>4. ASSUME NEW c \in Callers, Interrupt(c) PROVE TimerInv'
  <2> DEFINE Leave(j) == [j EXCEPT !.for = @ \ {c}]
  <2>1. writer' = [writer EXCEPT !.job = Leave(@)]
        /\ UNCHANGED <<closed, scheduled, pending, batch>>
    BY <1>4 DEF Interrupt
  <2>2. Leave(Timer) = Timer
    BY DEF Timer
  <2> HIDE DEF Leave
  <2>3. writer.job = Timer => writer'.job = Timer
    BY <2>1, <2>2 DEF TypeOK, Writer
  <2>4. writer'.pc = writer.pc
    BY <2>1 DEF TypeOK, Writer
  <2> QED BY <2>1, <2>3, <2>4, TimerKept DEF Waiting, TimerAtWork
<1>5. CASE Close
  BY <1>5 DEF Close, TimerInv
<1>6. CASE StartFlush
  <2>1. \A r \in Runs : Waiting(r)' => Waiting(r)
    BY <1>6 DEF StartFlush, Waiting, TypeOK
  <2> QED BY <1>6, <2>1, TimerKept DEF StartFlush, TimerAtWork
<1>7. CASE FireTimer
  <2>1. writer'.pc = "takeAll" /\ writer'.job = Timer
    BY <1>7 DEF FireTimer, Resting
  <2> QED BY <2>1 DEF TimerInv, TimerAtWork
<1>8. CASE StartClosing
  BY <1>8, TimerKept DEF StartClosing, Waiting, TimerAtWork
<1>9. CASE TakeAll
  <2>1. \A r \in Runs : Waiting(r)' => Waiting(r)
    BY <1>9 DEF TakeAll, Waiting
  <2> QED BY <1>9, <2>1, TimerKept DEF TakeAll, Working, Continue, TimerAtWork
<1>10. ASSUME NEW r \in Runs, Persist(r) PROVE TimerInv'
  <2>1. \A s \in Runs : Waiting(s)' => Waiting(s)
    BY <1>10 DEF Persist, Waiting, TypeOK
  <2> QED BY <1>10, <2>1, TimerKept DEF Persist, Working, TimerAtWork
<1>11. ASSUME NEW r \in Runs, PersistFails(r) PROVE TimerInv'
  <2>1. Waiting(r)
    BY <1>11 DEF PersistFails, LogInv, BatchesAreTodo, Waiting
  <2>2. \A s \in Runs : s # r => pending'[s] = pending[s] /\ batch'[s] = batch[s]
    BY <1>11 DEF PersistFails, TypeOK
  <2>3. \A s \in Runs : Waiting(s)' => Waiting(s)
    BY <2>1, <2>2 DEF Waiting
  <2> QED BY <1>11, <2>3, TimerKept DEF PersistFails, Working, Continue, TimerAtWork
<1>12. CASE Publish
  BY <1>12, TimerKept DEF Publish, Waiting, TimerAtWork
<1>13. CASE EndBatch
  BY <1>13, TimerKept DEF EndBatch, Working, Continue, Waiting, TimerAtWork
<1>14. CASE EndJob
  <2>1. \A r \in Runs : batch[r] = <<>>
    BY <1>14 DEF EndJob, LogInv, NothingTodoElsewhere, BatchesAreTodo
  <2> QED BY <1>14, <2>1 DEF EndJob, Rescheduled, TimerInv, Waiting, TimerAtWork
<1>15. CASE Restart
  BY <1>15 DEF Restart, TimerInv, Waiting
<1> QED BY <1>1, <1>2, <1>3, <1>4, <1>5, <1>6, <1>7, <1>8, <1>9, <1>10, <1>11, <1>12, <1>13,
           <1>14, <1>15 DEF Next, WriterStep

\* No event waits without a timer until the journal is closed, although a flush that
\* fails puts its batch back without setting one (flushRunNow).
THEOREM NoEventIsForgotten == Spec => []WaitingEventsAreScheduled
<1>1. Init => TimerInv
  BY DEF Init, TimerInv, Waiting
<1>2. TypeOK /\ LogInv /\ TimerInv /\ [Next]_vars => TypeOK' /\ LogInv' /\ TimerInv'
  BY TypeStep, LogStep, TimerStep
<1>3. TimerInv => WaitingEventsAreScheduled
  BY DEF TimerInv, TimerAtWork, Waiting, WaitingEventsAreScheduled
<1> QED BY TypeInit, LogStart, <1>1, <1>2, <1>3, PTL DEF Spec

-----------------------------------------------------------------------------
(* Flushes *)

\* The thread waits for the flush that job is.
Awaits(c, job) == caller[c].pc = "waiting" /\ caller[c].run = job.run

\* The tasks of the queue, and the one under way, are the flushes of threads that
\* wait for them, each for one.
QueueIsAwaited == \A n \in 1..Len(jobs) : \A c \in jobs[n].for : Awaits(c, jobs[n])
TaskIsAwaited == \A c \in writer.job.for : Awaits(c, writer.job)
OneTaskEach ==
    \A n \in 1..Len(jobs) : \A c \in jobs[n].for :
        /\ c \notin writer.job.for
        /\ \A m \in 1..Len(jobs) : c \in jobs[m].for => m = n
NobodyAwaitsAll == writer.pc \in {"resting", "takeAll"} => writer.job.for = {}

\* A thread waits for events that were appended.
MarkIsPast ==
    \A c \in Callers : caller[c].pc \in {"waiting", "returned"} =>
        caller[c].run \in Runs /\ caller[c].mark <= appended[caller[c].run]

\* As long as its task has not failed they are durable, or in the writer's hands.
MarkIsAtHand ==
    \A c \in writer.job.for :
        \/ writer.failed
        \/ caller[c].mark <= Len(log[writer.job.run]) + Len(batch[writer.job.run])

FlushInv ==
    /\ QueueIsAwaited /\ TaskIsAwaited /\ OneTaskEach /\ NobodyAwaitsAll
    /\ MarkIsPast /\ MarkIsAtHand /\ FlushesSave

\* The lengths are numbers; a log never shrinks, nor do the events of a run but when
\* the process starts again.
LEMMA Lengths ==
    ASSUME TypeOK, NEW r \in Runs
    PROVE  Len(log[r]) \in Nat /\ Len(batch[r]) \in Nat /\ appended[r] \in Nat
BY LenProperties DEF TypeOK

\* The tasks are tasks, for threads that exist.
LEMMA Tasks ==
    ASSUME TypeOK
    PROVE  /\ Len(jobs) \in Nat
           /\ \A n \in 1..Len(jobs) : jobs[n] \in Job /\ jobs[n].for \subseteq Callers
           /\ writer.job \in Job /\ writer.job.for \subseteq Callers
<1>1. Len(jobs) \in Nat /\ \A n \in 1..Len(jobs) : jobs[n] \in Job
  BY LenProperties, ElementOfSeq DEF TypeOK
<1>2. writer.job \in Job
  BY DEF TypeOK, Writer
<1> QED BY <1>1, <1>2 DEF Job

LEMMA Transitive == \A a, b, c \in Nat : a <= b /\ b <= c => a <= c
OBVIOUS

LEMMA SumType == \A a, b \in Nat : a + b \in Nat
OBVIOUS

\* A step that leaves the tasks and the threads, and the events at hand.
LEMMA FlushKept ==
    ASSUME TypeOK, TypeOK', FlushInv,
           UNCHANGED <<jobs, caller>>, writer'.job = writer.job,
           writer'.pc \in {"resting", "takeAll"} => writer.job.for = {},
           \A r \in Runs : /\ appended[r] <= appended'[r]
                           /\ Len(log[r]) <= Len(log'[r])
                           /\ \/ writer.job.for = {}
                              \/ writer'.failed
                              \/ /\ writer.failed => writer'.failed
                                 /\ Len(log[r]) + Len(batch[r])
                                        <= Len(log'[r]) + Len(batch'[r])
    PROVE  FlushInv'
<1>0. \A r \in Runs : /\ Len(log[r]) \in Nat /\ Len(log'[r]) \in Nat
                      /\ Len(batch[r]) \in Nat /\ Len(batch'[r]) \in Nat
                      /\ appended[r] \in Nat /\ appended'[r] \in Nat
  <2>1. \A r \in Runs : Len(log[r]) \in Nat /\ Len(batch[r]) \in Nat /\ appended[r] \in Nat
    BY Lengths
  <2>2. \A r \in Runs : Len(log'[r]) \in Nat /\ Len(batch'[r]) \in Nat /\ appended'[r] \in Nat
    BY LenProperties DEF TypeOK
  <2> QED BY <2>1, <2>2
<1>1. \A c \in Callers : caller[c].mark \in Nat
  BY DEF TypeOK, Caller
<1>2. QueueIsAwaited' /\ TaskIsAwaited' /\ OneTaskEach' /\ NobodyAwaitsAll'
  BY DEF FlushInv, QueueIsAwaited, TaskIsAwaited, OneTaskEach, NobodyAwaitsAll, Awaits
<1>3. MarkIsPast'
  <2>1. ASSUME NEW c \in Callers, caller[c].pc \in {"waiting", "returned"}
        PROVE  caller[c].run \in Runs /\ caller[c].mark <= appended'[caller[c].run]
    <3>1. caller[c].run \in Runs /\ caller[c].mark <= appended[caller[c].run]
      BY <2>1 DEF FlushInv, MarkIsPast
    <3>2. appended[caller[c].run] <= appended'[caller[c].run]
      BY <3>1
    <3> QED BY <1>0, <1>1, <3>1, <3>2, Transitive
  <2> QED BY <2>1 DEF MarkIsPast
<1>4. FlushesSave'
  <2>1. ASSUME NEW c \in Callers, caller[c].pc = "returned"
        PROVE  caller[c].mark <= Len(log'[caller[c].run])
    <3>1. caller[c].run \in Runs /\ caller[c].mark <= Len(log[caller[c].run])
      BY <2>1 DEF FlushInv, MarkIsPast, FlushesSave
    <3>2. Len(log[caller[c].run]) <= Len(log'[caller[c].run])
      BY <3>1
    <3> QED BY <1>0, <1>1, <3>1, <3>2, Transitive
  <2> QED BY <2>1 DEF FlushesSave
<1>5. ASSUME NEW c \in writer.job.for, ~writer'.failed
      PROVE  caller[c].mark <= Len(log'[writer.job.run]) + Len(batch'[writer.job.run])
  <2>1. c \in Callers /\ writer.job.run \in Runs
    BY Tasks DEF FlushInv, TaskIsAwaited, Awaits, MarkIsPast
  <2>2. caller[c].mark <= Len(log[writer.job.run]) + Len(batch[writer.job.run])
    BY <1>5, <2>1 DEF FlushInv, MarkIsAtHand
  <2>3. Len(log[writer.job.run]) + Len(batch[writer.job.run])
            <= Len(log'[writer.job.run]) + Len(batch'[writer.job.run])
    BY <1>5, <2>1
  <2> DEFINE now == Len(log[writer.job.run]) + Len(batch[writer.job.run])
             then == Len(log'[writer.job.run]) + Len(batch'[writer.job.run])
  <2>4. now \in Nat /\ then \in Nat /\ caller[c].mark \in Nat
    BY <1>0, <1>1, <2>1, SumType, Zenon
  <2>5. caller[c].mark <= now /\ now <= then
    BY <2>2, <2>3
  <2> HIDE DEF now, then
  <2>6. caller[c].mark <= then
    BY <2>4, <2>5, Transitive
  <2> QED BY <2>6 DEF then
<1>6. MarkIsAtHand'
  BY <1>5 DEF MarkIsAtHand
<1> QED BY <1>2, <1>3, <1>4, <1>6 DEF FlushInv

\* What is at hand of a run when nothing else of it is unsaved.
LEMMA AllAtHand ==
    ASSUME TypeOK, LogInv, NEW r \in Runs, quarantined[r] = <<>>, batch[r] = <<>>
    PROVE  appended[r] = Len(log[r]) + Len(pending[r])
<1>1. pending[r] \in Seq(Nat)
  BY DEF TypeOK
<1>2. <<>> \o pending[r] \o <<>> = pending[r]
  BY <1>1, ConcatEmptySeq
<1>3. Unsaved(r) = pending[r]
  BY <1>2 DEF Unsaved
<1> QED BY <1>3 DEF LogInv, NothingIsLost

\* The tasks left when the first one is taken.
LEMMA TasksBehind ==
    ASSUME TypeOK, jobs # <<>>, jobs' = Tail(jobs)
    PROVE  /\ 1 \in 1..Len(jobs) /\ jobs[1] = Head(jobs)
           /\ \A n \in 1..Len(jobs') : /\ n + 1 \in 1..Len(jobs) /\ n + 1 # 1
                                       /\ jobs'[n] = jobs[n + 1]
<1>1. jobs \in Seq(Job) /\ Len(jobs) \in Nat /\ Len(jobs) # 0
  BY LenProperties, EmptySeq DEF TypeOK
<1>2. Len(jobs') = Len(jobs) - 1 /\ \A n \in 1..Len(jobs') : jobs'[n] = jobs[n + 1]
  BY <1>1, HeadTailProperties
<1>3. jobs[1] = Head(jobs)
  BY <1>1
<1> QED BY <1>1, <1>2, <1>3

\* A thread asks for a flush: it waited for none before.
LEMMA FlushAsked ==
    ASSUME TypeOK, FlushInv, NEW c \in Callers, NEW r \in Runs, Flush(c, r)
    PROVE  FlushInv'
<1>1. /\ UNCHANGED <<log, appended, writer, batch>>
      /\ caller[c].pc # "waiting"
      /\ caller'[c] = [pc |-> "waiting", run |-> r, mark |-> appended[r]]
      /\ \A d \in Callers : d # c => caller'[d] = caller[d]
      /\ jobs' = Append(jobs, FlushFor(c, r))
  BY DEF Flush, Flushes, TypeOK
<1>2. /\ Len(jobs) \in Nat /\ Len(jobs') = Len(jobs) + 1
      /\ \A n \in 1..Len(jobs) : jobs'[n] = jobs[n]
      /\ jobs'[Len(jobs) + 1] = FlushFor(c, r)
  BY <1>1, Jobs, AppendProperties, LenProperties DEF TypeOK
<1>3. /\ \A n \in 1..Len(jobs) : c \notin jobs[n].for
      /\ c \notin writer.job.for
  BY <1>1 DEF FlushInv, QueueIsAwaited, TaskIsAwaited, Awaits
<1>4. \A n \in 1..Len(jobs') : n \in 1..Len(jobs) \/ n = Len(jobs) + 1
  BY <1>2
<1>5. FlushFor(c, r).for = {c} /\ FlushFor(c, r).run = r
  BY DEF FlushFor
<1>6. QueueIsAwaited'
  <2>1. ASSUME NEW n \in 1..Len(jobs'), NEW d \in jobs'[n].for PROVE Awaits(d, jobs[n])'
    <3>1. CASE n = Len(jobs) + 1
      BY <1>1, <1>2, <1>5, <2>1, <3>1 DEF Awaits
    <3>2. CASE n \in 1..Len(jobs)
      BY <1>1, <1>2, <1>3, <2>1, <3>2, Tasks DEF Awaits, FlushInv, QueueIsAwaited
    <3> QED BY <1>4, <3>1, <3>2
  <2> QED BY <2>1 DEF QueueIsAwaited
<1>7. TaskIsAwaited' /\ NobodyAwaitsAll' /\ MarkIsAtHand'
  BY <1>1, <1>3, Tasks
     DEF FlushInv, TaskIsAwaited, Awaits, NobodyAwaitsAll, MarkIsAtHand
<1>8. OneTaskEach'
  <2>1. ASSUME NEW n \in 1..Len(jobs'), NEW d \in jobs'[n].for
        PROVE  /\ d \notin writer'.job.for
               /\ \A m \in 1..Len(jobs') : d \in jobs'[m].for => m = n
    <3>1. CASE n = Len(jobs) + 1
      BY <1>1, <1>2, <1>3, <1>4, <1>5, <3>1
    <3>2. CASE n \in 1..Len(jobs)
      BY <1>1, <1>2, <1>3, <1>4, <1>5, <3>2 DEF FlushInv, OneTaskEach
    <3> QED BY <1>4, <3>1, <3>2
  <2> QED BY <2>1 DEF OneTaskEach
<1>9. MarkIsPast'
  <2>1. caller'[c].run = r /\ caller'[c].mark = appended'[r] /\ appended'[r] <= appended'[r]
    BY <1>1, Lengths
  <2> QED BY <1>1, <2>1 DEF FlushInv, MarkIsPast
<1>10. FlushesSave'
  BY <1>1 DEF FlushInv, FlushesSave
<1> QED BY <1>6, <1>7, <1>8, <1>9, <1>10 DEF FlushInv

\* A thread that waits is interrupted: it leaves its task.
LEMMA FlushInterrupted ==
    ASSUME TypeOK, FlushInv, NEW c \in Callers, Interrupt(c)
    PROVE  FlushInv'
<1> DEFINE Leave(j) == [j EXCEPT !.for = @ \ {c}]
<1>1. /\ UNCHANGED <<log, appended, batch>>
      /\ caller'[c].pc = "ended"
      /\ \A d \in Callers : d # c => caller'[d] = caller[d]
      /\ jobs' = [n \in DOMAIN jobs |-> Leave(jobs[n])]
      /\ writer' = [writer EXCEPT !.job = Leave(@)]
  BY DEF Interrupt, TypeOK, Caller
<1>2. \A j \in Job : Leave(j).for = j.for \ {c} /\ Leave(j).run = j.run
  BY DEF Job
<1> HIDE DEF Leave
<1>3. /\ writer'.pc = writer.pc /\ writer'.failed = writer.failed
      /\ writer'.job.for = writer.job.for \ {c} /\ writer'.job.run = writer.job.run
  <2>1. writer'.job = Leave(writer.job) /\ writer'.pc = writer.pc
        /\ writer'.failed = writer.failed
    BY <1>1 DEF TypeOK, Writer
  <2> QED BY <1>2, <2>1, Tasks
<1>4. /\ Len(jobs') = Len(jobs)
      /\ \A n \in 1..Len(jobs) : /\ jobs'[n].for = jobs[n].for \ {c}
                                 /\ jobs'[n].run = jobs[n].run
  <2>1. Len(jobs) \in Nat /\ DOMAIN jobs = 1..Len(jobs)
    BY LenProperties DEF TypeOK
  <2>2. \A n \in 1..Len(jobs) : jobs'[n] = Leave(jobs[n])
    BY <1>1, <2>1
  <2>3. Len(jobs') = Len(jobs)
    BY <1>1, <2>1, LenProperties
  <2> QED BY <1>2, <2>2, <2>3, Tasks
<1>5. /\ QueueIsAwaited'
      /\ TaskIsAwaited'
      /\ OneTaskEach'
      /\ NobodyAwaitsAll'
  <2>1. QueueIsAwaited'
    <3>1. ASSUME NEW n \in 1..Len(jobs), NEW d \in jobs[n].for, d # c
          PROVE  caller'[d].pc = "waiting" /\ caller'[d].run = jobs'[n].run
      <4>1. d \in Callers /\ caller[d].pc = "waiting" /\ caller[d].run = jobs[n].run
        BY Tasks DEF FlushInv, QueueIsAwaited, Awaits
      <4> QED BY <1>1, <1>4, <3>1, <4>1
    <3>2. \A n \in 1..Len(jobs') : \A d \in jobs'[n].for :
              n \in 1..Len(jobs) /\ d \in jobs[n].for /\ d # c
      BY <1>4
    <3> QED BY <3>1, <3>2 DEF QueueIsAwaited, Awaits
  <2>2. TaskIsAwaited'
    BY <1>1, <1>3, Tasks DEF FlushInv, TaskIsAwaited, Awaits
  <2>3. OneTaskEach'
    BY <1>3, <1>4 DEF FlushInv, OneTaskEach
  <2>4. NobodyAwaitsAll'
    BY <1>3 DEF FlushInv, NobodyAwaitsAll
  <2> QED BY <2>1, <2>2, <2>3, <2>4
<1>6. MarkIsAtHand'
  BY <1>1, <1>3, Tasks DEF FlushInv, MarkIsAtHand
<1>7. MarkIsPast' /\ FlushesSave'
  BY <1>1 DEF FlushInv, MarkIsPast, FlushesSave
<1> QED BY <1>5, <1>6, <1>7 DEF FlushInv

\* The writer takes the first task of the queue.
LEMMA TaskStarted ==
    ASSUME TypeOK, FlushInv, writer.pc = "resting", jobs # <<>>,
           jobs' = Tail(jobs), writer'.job = Head(jobs),
           UNCHANGED <<log, appended, caller>>, NobodyAwaitsAll', MarkIsAtHand'
    PROVE  FlushInv'
<1>1. TaskIsAwaited'
  BY TasksBehind DEF FlushInv, QueueIsAwaited, TaskIsAwaited, Awaits
<1>2. QueueIsAwaited'
  BY TasksBehind DEF FlushInv, QueueIsAwaited, Awaits
<1>3. OneTaskEach'
  <2>1. \A m, n \in 1..Len(jobs') : m + 1 = n + 1 => m = n
    OBVIOUS
  <2> QED BY <2>1, TasksBehind DEF FlushInv, OneTaskEach
<1>4. MarkIsPast' /\ FlushesSave'
  BY DEF FlushInv, MarkIsPast, FlushesSave
<1> QED BY <1>1, <1>2, <1>3, <1>4 DEF FlushInv

\* A task that is over is answered: it returns only when the events its threads
\* waited for are durable.
LEMMA Answered ==
    ASSUME TypeOK, FlushInv, NEW job \in Job, NEW result \in {"returned", "thrown"},
           Answer(job, result), UNCHANGED <<log, appended>>,
           \A c \in job.for : /\ Awaits(c, job)
                              /\ result = "returned" => caller[c].mark <= Len(log[job.run])
    PROVE  /\ MarkIsPast' /\ FlushesSave'
           /\ \A c \in Callers : c \notin job.for => caller'[c] = caller[c]
<1>1. \A c \in Callers :
          /\ c \notin job.for => caller'[c] = caller[c]
          /\ c \in job.for => /\ caller'[c].pc = result
                              /\ caller'[c].run = caller[c].run
                              /\ caller'[c].mark = caller[c].mark
  BY DEF Answer, TypeOK, Caller
<1>2. MarkIsPast'
  BY <1>1 DEF FlushInv, MarkIsPast, Awaits
<1>3. FlushesSave'
  BY <1>1 DEF FlushInv, FlushesSave, Awaits
<1> QED BY <1>1, <1>2, <1>3

\* A flush is started, or answered at once: refused, or without an event to save.
LEMMA FlushStarted ==
    ASSUME TypeOK, LogInv, FlushInv, StartFlush
    PROVE  FlushInv'
<1>1. /\ writer.pc = "resting" /\ jobs # <<>> /\ jobs' = Tail(jobs)
      /\ UNCHANGED <<log, appended, quarantined>>
      /\ \A s \in Runs : batch[s] = <<>>
      /\ writer.job.for = {}
  BY DEF StartFlush, LogInv, NothingTodoElsewhere, BatchesAreTodo, FlushInv, NobodyAwaitsAll
<1>2. /\ Head(jobs) \in Job /\ Head(jobs).run \in Runs
      /\ 1 \in 1..Len(jobs) /\ jobs[1] = Head(jobs)
      /\ Head(jobs).for \subseteq Callers
  <2>1. Head(jobs) \in Job
    BY <1>1, HeadTailProperties DEF TypeOK
  <2> QED BY <1>1, <2>1, TasksBehind DEF StartFlush, Job
<1>3. \A c \in Head(jobs).for :
          /\ Awaits(c, Head(jobs))
          /\ caller[c].mark <= appended[Head(jobs).run]
  BY <1>2 DEF FlushInv, QueueIsAwaited, MarkIsPast, Awaits
<1>4. CASE Refused(Head(jobs).run) \/ pending[Head(jobs).run] = <<>>
  <2> DEFINE result == IF Refused(Head(jobs).run) THEN "thrown" ELSE "returned"
  <2>1. Answer(Head(jobs), result) /\ UNCHANGED <<batch, writer>>
    BY <1>4 DEF StartFlush
  <2>2. ~Refused(Head(jobs).run) => appended[Head(jobs).run] = Len(log[Head(jobs).run])
    <3>1. ASSUME NEW r, r = Head(jobs).run, ~Refused(r) PROVE appended[r] = Len(log[r])
      <4>1. appended[r] = Len(log[r]) + Len(pending[r]) /\ pending[r] = <<>>
        BY <1>1, <1>2, <1>4, <3>1, AllAtHand DEF Refused
      <4> QED BY <1>2, <3>1, <4>1, Lengths, EmptySeq
    <3> QED BY <3>1
  <2>3. result = "returned" =>
            \A c \in Head(jobs).for : caller[c].mark <= Len(log[Head(jobs).run])
    BY <1>3, <2>2
  <2>4. result \in {"returned", "thrown"}
    OBVIOUS
  <2> HIDE DEF result
  <2>5. /\ MarkIsPast' /\ FlushesSave'
        /\ \A c \in Callers : c \notin Head(jobs).for => caller'[c] = caller[c]
    BY <1>1, <1>2, <1>3, <2>1, <2>3, <2>4, Answered
  <2>6. \A n \in 1..Len(jobs') : /\ n + 1 \in 1..Len(jobs)
                                 /\ jobs'[n] = jobs[n + 1]
                                 /\ jobs[n + 1].for \subseteq Callers
                                 /\ \A c \in jobs[n + 1].for : c \notin Head(jobs).for
    BY <1>1, <1>2, TasksBehind, Tasks DEF FlushInv, OneTaskEach
  <2>7. QueueIsAwaited'
    BY <2>5, <2>6 DEF FlushInv, QueueIsAwaited, Awaits
  <2>8. OneTaskEach'
    <3>1. \A m, n \in 1..Len(jobs') : m + 1 = n + 1 => m = n
      OBVIOUS
    <3> QED BY <1>1, <2>1, <2>6, <3>1 DEF FlushInv, OneTaskEach
  <2>9. TaskIsAwaited' /\ NobodyAwaitsAll' /\ MarkIsAtHand'
    BY <1>1, <2>1 DEF TaskIsAwaited, NobodyAwaitsAll, MarkIsAtHand
  <2> QED BY <2>5, <2>7, <2>8, <2>9 DEF FlushInv
<1>5. ASSUME NEW r \in Runs, r = Head(jobs).run, ~(Refused(r) \/ pending[r] = <<>>)
      PROVE  FlushInv'
  <2>1. /\ batch' = [batch EXCEPT ![r] = pending[r]]
        /\ writer' = [pc |-> "persist", job |-> Head(jobs), run |-> NoRun,
                      todo |-> {r}, failed |-> FALSE]
        /\ UNCHANGED caller
    BY <1>5 DEF StartFlush
  <2>2. appended[r] = Len(log[r]) + Len(batch'[r])
    <3>1. batch'[r] = pending[r] /\ quarantined[r] = <<>> /\ batch[r] = <<>>
      BY <1>1, <1>5, <2>1 DEF Refused, TypeOK
    <3> QED BY <3>1, AllAtHand
  <2>3. writer'.job = Head(jobs) /\ writer'.pc = "persist"
    BY <2>1
  <2>4. NobodyAwaitsAll' /\ MarkIsAtHand'
    BY <1>1, <1>3, <1>5, <2>1, <2>2, <2>3 DEF NobodyAwaitsAll, MarkIsAtHand
  <2> QED BY <1>1, <2>1, <2>3, <2>4, TaskStarted
<1> QED BY <1>2, <1>4, <1>5

\* The task is over: one that did not fail has no batch left.
LEMMA FlushAnswered ==
    ASSUME TypeOK, LogInv, FlushInv, EndJob
    PROVE  FlushInv'
<1> DEFINE result == IF writer.failed THEN "thrown" ELSE "returned"
<1>1. /\ Answer(writer.job, result)
      /\ UNCHANGED <<log, appended, batch, jobs>>
      /\ writer'.job.for = {}
      /\ \A r \in Runs : batch[r] = <<>>
  BY DEF EndJob, Resting, Timer, LogInv, NothingTodoElsewhere, BatchesAreTodo
<1>2. result = "returned" =>
          \A c \in writer.job.for : caller[c].mark <= Len(log[writer.job.run])
  <2>1. ASSUME NEW c \in writer.job.for, ~writer.failed
        PROVE  caller[c].mark <= Len(log[writer.job.run])
    <3>1. c \in Callers /\ writer.job.run \in Runs
      BY Tasks DEF FlushInv, TaskIsAwaited, Awaits, MarkIsPast
    <3>2. caller[c].mark <= Len(log[writer.job.run]) + Len(batch[writer.job.run])
      BY <2>1 DEF FlushInv, MarkIsAtHand
    <3>3. Len(batch[writer.job.run]) = 0 /\ Len(log[writer.job.run]) \in Nat
      BY <1>1, <3>1, Lengths, EmptySeq
    <3> QED BY <3>2, <3>3
  <2> QED BY <2>1
<1>3. result \in {"returned", "thrown"}
  OBVIOUS
<1> HIDE DEF result
<1>4. /\ MarkIsPast' /\ FlushesSave'
      /\ \A c \in Callers : c \notin writer.job.for => caller'[c] = caller[c]
  BY <1>1, <1>2, <1>3, Tasks, Answered DEF FlushInv, TaskIsAwaited
<1>5. \A n \in 1..Len(jobs) : /\ jobs[n].for \subseteq Callers
                              /\ \A c \in jobs[n].for : c \notin writer.job.for
  BY Tasks DEF FlushInv, OneTaskEach
<1>6. QueueIsAwaited'
  BY <1>1, <1>4, <1>5 DEF FlushInv, QueueIsAwaited, Awaits
<1>7. OneTaskEach'
  BY <1>1 DEF FlushInv, OneTaskEach
<1>8. TaskIsAwaited' /\ NobodyAwaitsAll' /\ MarkIsAtHand'
  BY <1>1 DEF TaskIsAwaited, NobodyAwaitsAll, MarkIsAtHand
<1> QED BY <1>4, <1>6, <1>7, <1>8 DEF FlushInv

\* A step that queues a task nobody waits for.
LEMMA FlushClosing ==
    ASSUME TypeOK, FlushInv, Close
    PROVE  FlushInv'
<1>1. /\ UNCHANGED <<log, appended, writer, batch, caller>>
      /\ jobs' = Append(jobs, Closing)
  BY DEF Close
<1>2. /\ Len(jobs) \in Nat /\ Len(jobs') = Len(jobs) + 1
      /\ \A n \in 1..Len(jobs) : jobs'[n] = jobs[n]
      /\ jobs'[Len(jobs) + 1] = Closing
  BY <1>1, Jobs, AppendProperties, LenProperties DEF TypeOK
<1>3. Closing.for = {}
  BY DEF Closing
<1>4. \A n \in 1..Len(jobs') : \A c \in jobs'[n].for : n \in 1..Len(jobs)
  BY <1>2, <1>3
<1>5. QueueIsAwaited' /\ OneTaskEach'
  BY <1>1, <1>2, <1>4 DEF FlushInv, QueueIsAwaited, OneTaskEach, Awaits
<1>6. TaskIsAwaited' /\ NobodyAwaitsAll' /\ MarkIsPast' /\ MarkIsAtHand' /\ FlushesSave'
  BY <1>1 DEF FlushInv, TaskIsAwaited, NobodyAwaitsAll, MarkIsPast, MarkIsAtHand,
              FlushesSave, Awaits
<1> QED BY <1>5, <1>6 DEF FlushInv

\* A closed journal refuses the task of a thread that waits for none.
LEMMA FlushRefused ==
    ASSUME TypeOK, FlushInv, NEW c \in Callers, NEW r \in Runs, FlushRejected(c, r)
    PROVE  FlushInv'
<1>1. /\ UNCHANGED <<log, appended, jobs, writer, batch>>
      /\ caller[c].pc # "waiting"
      /\ caller'[c].pc = "thrown"
      /\ \A d \in Callers : d # c => caller'[d] = caller[d]
  BY DEF FlushRejected, Flushes, TypeOK
<1>2. /\ \A n \in 1..Len(jobs) : c \notin jobs[n].for
      /\ c \notin writer.job.for
  BY <1>1 DEF FlushInv, QueueIsAwaited, TaskIsAwaited, Awaits
<1>3. QueueIsAwaited' /\ TaskIsAwaited' /\ MarkIsAtHand'
  <2>1. QueueIsAwaited'
    BY <1>1, <1>2, Tasks DEF FlushInv, QueueIsAwaited, Awaits
  <2>2. TaskIsAwaited'
    BY <1>1, <1>2, Tasks DEF FlushInv, TaskIsAwaited, Awaits
  <2>3. MarkIsAtHand'
    BY <1>1, <1>2, Tasks DEF FlushInv, MarkIsAtHand
  <2> QED BY <2>1, <2>2, <2>3
<1>4. OneTaskEach' /\ NobodyAwaitsAll' /\ MarkIsPast' /\ FlushesSave'
  BY <1>1 DEF FlushInv, OneTaskEach, NobodyAwaitsAll, MarkIsPast, FlushesSave
<1> QED BY <1>3, <1>4 DEF FlushInv

\* The transaction of a batch moves it to the log.
LEMMA FlushPersisted ==
    ASSUME TypeOK, TypeOK', FlushInv, NEW r \in Runs, Persist(r)
    PROVE  FlushInv'
<1>1. /\ UNCHANGED <<appended, jobs, caller>>
      /\ writer'.job = writer.job /\ writer'.pc = "publish"
      /\ writer'.failed = writer.failed
      /\ \A s \in Runs : s # r => log'[s] = log[s] /\ batch'[s] = batch[s]
      /\ log'[r] = log[r] \o batch[r] /\ batch'[r] = <<>>
  BY DEF Persist, Working, TypeOK
<1>2. log[r] \in Seq(Nat) /\ batch[r] \in Seq(Nat)
  BY DEF TypeOK
<1>3. Len(log'[r]) = Len(log[r]) + Len(batch[r]) /\ Len(batch'[r]) = 0
  BY <1>1, <1>2, ConcatProperties, EmptySeq
<1>4. \A s \in Runs : /\ appended[s] <= appended'[s]
                      /\ Len(log[s]) <= Len(log'[s])
                      /\ Len(log[s]) + Len(batch[s]) <= Len(log'[s]) + Len(batch'[s])
  <2>1. ASSUME NEW s \in Runs
        PROVE  /\ appended[s] <= appended'[s]
               /\ Len(log[s]) <= Len(log'[s])
               /\ Len(log[s]) + Len(batch[s]) <= Len(log'[s]) + Len(batch'[s])
    <3>1. Len(log[s]) \in Nat /\ Len(batch[s]) \in Nat /\ appended[s] \in Nat
      BY Lengths
    <3>2. CASE s = r
      <4>1. \A l, b \in Nat : l <= l + b /\ l + b <= (l + b) + 0
        OBVIOUS
      <4>2. Len(log'[s]) = Len(log[s]) + Len(batch[s]) /\ Len(batch'[s]) = 0
        BY <1>3, <3>2
      <4>3. /\ Len(log[s]) <= Len(log[s]) + Len(batch[s])
            /\ Len(log[s]) + Len(batch[s]) <= (Len(log[s]) + Len(batch[s])) + 0
        BY <3>1, <4>1, Zenon
      <4>4. appended'[s] = appended[s] /\ appended[s] <= appended[s]
        BY <1>1, <3>1
      <4> QED BY <4>2, <4>3, <4>4, Zenon
    <3>3. CASE s # r
      <4>1. log'[s] = log[s] /\ batch'[s] = batch[s] /\ appended'[s] = appended[s]
        BY <1>1, <3>3
      <4>2. Len(log[s]) + Len(batch[s]) <= Len(log[s]) + Len(batch[s])
        BY <3>1
      <4>3. appended[s] <= appended[s] /\ Len(log[s]) <= Len(log[s])
        BY <3>1
      <4> QED BY <4>1, <4>2, <4>3, Zenon
    <3> QED BY <3>2, <3>3
  <2> QED BY <2>1
<1> QED BY <1>1, <1>4, FlushKept

\* Every step keeps the tasks awaited and the awaited events at hand.
LEMMA FlushStep == TypeOK /\ LogInv /\ FlushInv /\ [Next]_vars => FlushInv'
<1> SUFFICES ASSUME TypeOK, LogInv, FlushInv, [Next]_vars PROVE FlushInv'
  OBVIOUS
<1>0. TypeOK' /\ \A r \in Runs : /\ appended[r] <= appended[r]
                                 /\ Len(log[r]) <= Len(log[r])
                                 /\ Len(log[r]) + Len(batch[r]) <= Len(log[r]) + Len(batch[r])
  BY TypeStep, Lengths
<1>1. CASE UNCHANGED vars
  BY <1>0, <1>1, FlushKept DEF vars, FlushInv, NobodyAwaitsAll
<1>2. ASSUME NEW r \in Runs, AppendEvent(r) PROVE FlushInv'
  <2>1. \A s \in Runs : appended[s] <= appended'[s]
    BY <1>2 DEF AppendEvent, TypeOK
  <2> QED BY <1>0, <1>2, <2>1, FlushKept DEF AppendEvent, FlushInv, NobodyAwaitsAll
<1>3. CASE FireTimer
  <2>1. writer'.job = Timer /\ writer.job.for = {} /\ Timer.for = {}
    BY <1>3 DEF FireTimer, Resting, FlushInv, NobodyAwaitsAll, Timer
  <2>2. UNCHANGED <<log, appended, jobs, batch, caller>>
    BY <1>3 DEF FireTimer
  <2> QED BY <2>1, <2>2 DEF FlushInv, QueueIsAwaited, TaskIsAwaited, OneTaskEach, Awaits,
                            NobodyAwaitsAll, MarkIsPast, MarkIsAtHand, FlushesSave
<1>4. CASE StartClosing
  <2>1. writer'.job = Head(jobs) /\ writer'.job.for = {}
    BY <1>4 DEF StartClosing, Closing
  <2>2. NobodyAwaitsAll' /\ MarkIsAtHand'
    BY <2>1 DEF NobodyAwaitsAll, MarkIsAtHand
  <2> QED BY <1>4, <2>1, <2>2, TaskStarted DEF StartClosing
<1>5. CASE TakeAll
  <2>1. writer.job.for = {} /\ writer'.job = writer.job
    BY <1>5 DEF TakeAll, Working, FlushInv, NobodyAwaitsAll
  <2> QED BY <1>0, <1>5, <2>1, FlushKept DEF TakeAll
<1>6. ASSUME NEW r \in Runs, PersistFails(r) PROVE FlushInv'
  <2>1. /\ writer'.job = writer.job /\ writer'.failed
        /\ writer'.pc \in {"persist", "finish"}
    BY <1>6 DEF PersistFails, Working, Continue
  <2> QED BY <1>0, <1>6, <2>1, FlushKept DEF PersistFails
<1>7. CASE Publish
  BY <1>0, <1>7, FlushKept DEF Publish, FlushInv, NobodyAwaitsAll
<1>8. CASE EndBatch
  <2>1. /\ writer'.job = writer.job /\ writer'.failed = writer.failed
        /\ writer'.pc \in {"persist", "finish"}
    BY <1>8 DEF EndBatch, Working, Continue
  <2> QED BY <1>0, <1>8, <2>1, FlushKept DEF EndBatch
<1>9. CASE Restart
  <2>1. /\ writer'.job.for = {} /\ Len(jobs') = 0
        /\ \A c \in Callers : caller'[c].pc = "idle"
    BY <1>9, EmptySeq DEF Restart, Resting, Timer, Idle
  <2> QED BY <2>1 DEF FlushInv, QueueIsAwaited, TaskIsAwaited, OneTaskEach, NobodyAwaitsAll,
                      MarkIsPast, MarkIsAtHand, FlushesSave
<1> QED BY <1>0, <1>1, <1>2, <1>3, <1>4, <1>5, <1>6, <1>7, <1>8, <1>9, FlushAsked, FlushRefused,
           FlushInterrupted, FlushClosing, FlushStarted, FlushPersisted, FlushAnswered
        DEF Next, WriterStep

\* A flush returns only when every event its thread had appended is durable, although
\* another task of the writer may have taken them, failed and put them back (flush).
THEOREM FlushSaves == Spec => []FlushesSave
<1>1. Init => FlushInv
  <2>1. Init => /\ writer.job.for = {} /\ Len(jobs) = 0
                /\ \A c \in Callers : caller[c].pc = "idle"
    BY EmptySeq DEF Init, Resting, Timer, Idle
  <2>2. ASSUME writer.job.for = {}, Len(jobs) = 0, \A c \in Callers : caller[c].pc = "idle"
        PROVE  FlushInv
    BY <2>2 DEF FlushInv, QueueIsAwaited, TaskIsAwaited, OneTaskEach, NobodyAwaitsAll,
                MarkIsPast, MarkIsAtHand, FlushesSave
  <2> QED BY <2>1, <2>2
<1>2. TypeOK /\ LogInv /\ FlushInv /\ [Next]_vars => TypeOK' /\ LogInv' /\ FlushInv'
  BY TypeStep, LogStep, FlushStep
<1>3. FlushInv => FlushesSave
  BY DEF FlushInv
<1> QED BY TypeInit, LogStart, <1>1, <1>2, <1>3, PTL DEF Spec

=============================================================================
