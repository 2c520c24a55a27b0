----------------------------- MODULE RunStream -----------------------------
(***************************************************************************)
(* The events of one run on their way to the renderer: the Core's registry *)
(* of subscribers, the HTTP streams, the main process that reads them and  *)
(* connects again, and the preload script that hands them on.              *)
(*                                                                         *)
(* An action of the Core is what it does under the run's lock, or a step of *)
(* the run's settlement; one of the main process is what runs between two  *)
(* awaits. The n-th event of the run is the number n.                      *)
(***************************************************************************)
EXTENDS Naturals, Sequences, SequencesExt

CONSTANTS
    Numbered,       \* the subscriptions of subscribeRun
    Raw,            \* those of streamMessage and regenerateMessage
    MaxReconnects,  \* the reconnections of consumeRunStream
    MaxEvents,      \* bound: with so many events the run emits none and does not pause at
                    \* work; with more it is not paused while it is queued either
    MaxFaults       \* bound on lost connections and lost endings

Readers == Numbered \cup Raw

ASSUME ReadersAssumption == Numbered \cap Raw = {}
ASSUME BoundsAssumption == {MaxReconnects, MaxEvents, MaxFaults} \subseteq Nat

VARIABLES
    log,        \* the stored events
    published,  \* how many of them the registry was handed
    row,        \* the status of the run
    replay,     \* its replayFromSequence
    pc,         \* how far the run, or its settlement, is
    list,       \* the subscribers of the run, in order
    reader,     \* the subscriptions of the renderer
    faults      \* how many faults there were

vars == <<log, published, row, replay, pc, list, reader, faults>>

-----------------------------------------------------------------------------
(* The Core *)

Terminal == {"paused", "ended"}
AllPublished == published = Len(log)
HasRoom == Len(log) < MaxEvents

\* A subscriber is known by its reader and the reader's connection it serves.
\* complete: its emitter was completed.
Subscriber(r, number, last, complete) ==
    [reader |-> r, number |-> number, last |-> last, complete |-> complete]
Serves(x, r) == x.reader = r /\ reader[r].number = x.number
Live(x) == Serves(x, x.reader) /\ reader[x.reader].phase = "reading"

\* The journal stores an event: it may be the last that it can store.
Store(event) == log' = Append(log, event) /\ UNCHANGED faults
Lose == faults < MaxFaults /\ faults' = faults + 1 /\ UNCHANGED log

\* The run is at work. (The event that says so of a resumed run is one of Emit's.)
BeginRun ==
    /\ pc = "queued" /\ pc' = "running"
    /\ UNCHANGED <<log, published, replay, row, list, reader, faults>>

Emit ==
    /\ pc \in {"running", "cancelling"} /\ HasRoom
    /\ Store("text")
    /\ UNCHANGED <<published, replay, row, pc, list, reader>>

\* The run ends: the event first, then the row. A run may fail as it begins.
EndRun ==
    /\ pc \in {"queued", "running"}
    /\ Store("ended") \/ Lose
    /\ pc' = "ended"
    /\ UNCHANGED <<published, replay, row, list, reader>>

RowEnds ==
    /\ pc = "ended" /\ AllPublished
    /\ row' = "terminal" /\ pc' = "closing"
    /\ UNCHANGED <<log, published, replay, list, reader, faults>>

\* cancel: the row first, then the event that says so. When that event cannot be
\* stored the call ends there, and the streams stay as they are. The worker may
\* still emit.
CancelRun ==
    /\ pc \in {"queued", "running", "paused"}
    /\ row' = "terminal" /\ pc' = "cancelling"
    /\ UNCHANGED <<log, published, replay, list, reader, faults>>

CancelTold ==
    /\ pc = "cancelling"
    /\ \/ Store("ended") /\ pc' = "closing"
       \/ Lose /\ pc' = "abandoned"
    /\ UNCHANGED <<published, replay, row, list, reader>>

\* The worker's turn pauses with an event that says so. A stream that fails when a pause
\* was asked for is a pause without it (fail).
PauseRun ==
    /\ pc = "running" /\ HasRoom
    /\ Store("paused") \/ UNCHANGED <<log, faults>>
    /\ pc' = "pausing"
    /\ UNCHANGED <<published, replay, row, list, reader>>

RowPauses ==
    /\ pc = "pausing" /\ AllPublished
    /\ Store("paused") \/ Lose
    /\ row' = "paused" /\ pc' = "closing"
    /\ UNCHANGED <<published, replay, list, reader>>

\* pause of a run that is queued, for the first time or resumed: the row first, then
\* the event; the streams stay open.
PauseQueued ==
    /\ pc = "queued" /\ Len(log) <= MaxEvents
    /\ Store("paused") \/ Lose
    /\ row' = "paused" /\ pc' = "paused"
    /\ UNCHANGED <<published, replay, list, reader>>

\* resume: a resumption that cannot be told is taken back.
ResumeRun ==
    /\ pc = "paused"
    /\ replay' = Len(log)
    /\ \/ Store("text") /\ row' = "active" /\ pc' = "queued"
       \/ Lose /\ UNCHANGED <<row, pc>>
    /\ UNCHANGED <<published, list, reader>>

\* The subscribers that have not got the n-th event.
DueAgain(n) == DOMAIN list
Due(n) == {i \in DOMAIN list : list[i].last < n}

\* The positions S, in order.
Orders(S) == {at \in SetToSeqs(S) : \A k, l \in DOMAIN at : k < l => at[k] < at[l]}

\* publish: a subscriber whose emitter is complete throws, and those behind it are
\* not served. A send to a connection nobody reads may fail, and then the
\* subscriber is removed.
Publish ==
    LET n == published + 1
        throws == {i \in Due(n) : list[i].complete}
        served == {i \in Due(n) : \A k \in throws : i < k}
        sent == [i \in DOMAIN list |-> IF i \in served THEN [list[i] EXCEPT !.last = n]
                                       ELSE list[i]]
        reaches(r) == \E i \in served : Serves(list[i], r) /\ Live(list[i])
    IN  /\ n <= Len(log)
        /\ published' = n
        /\ reader' = [r \in Readers |-> IF reaches(r) THEN [reader[r] EXCEPT !.wire = Append(@, n)]
                                        ELSE reader[r]]
        /\ \E broken \in SUBSET {i \in served : ~Live(list[i])} :
           \E at \in Orders(DOMAIN list \ broken) :
              list' = [k \in DOMAIN at |-> sent[at[k]]]
        /\ UNCHANGED <<log, replay, row, pc, faults>>

\* complete: every stream ends and nobody is subscribed any more.
CloseStreams ==
    /\ pc = "closing" /\ AllPublished
    /\ list' = <<>>
    /\ reader' = [r \in Readers |->
                     IF \E i \in DOMAIN list : Serves(list[i], r) /\ Live(list[i])
                     THEN [reader[r] EXCEPT !.eof = TRUE] ELSE reader[r]]
    /\ pc' = IF row = "terminal" THEN "over" ELSE "paused"
    /\ UNCHANGED <<log, published, replay, row, faults>>

\* The container has completed an emitter: onCompletion.
Removed(i) ==
    /\ list[i].complete
    /\ list' = RemoveAt(list, i)
    /\ UNCHANGED <<log, published, replay, row, pc, reader, faults>>

-----------------------------------------------------------------------------
(* The desktop *)

\* from: the event to start after. wire: the events on the way, with nothing behind
\* them when eof. got: what the renderer's handler was given, a failure that is not
\* the run's apart.
NotStarted == [phase |-> "idle", from |-> 0, number |-> 0, wire |-> <<>>, eof |-> FALSE,
               terminal |-> FALSE, got |-> <<>>]
Settled == {"ended", "failed", "aborted"}
Cursor(x) == IF x.got = <<>> THEN x.from ELSE Last(x.got)

\* The renderer subscribes, from the event the run's turn began with or a later one
\* that it has seen.
Subscribe(r) ==
    /\ reader[r].phase = "idle"
    /\ \E n \in IF r \in Raw THEN {0} ELSE replay..Len(log) :
          reader' = [reader EXCEPT ![r].phase = "connecting", ![r].from = n]
    /\ UNCHANGED <<log, published, replay, row, pc, list, faults>>

\* The registry subscribes a connection: a run that is over ends its stream at once.
SubscribedOpen(x) == Append(list, [x EXCEPT !.complete = FALSE])
SubscribedFirst(x) == <<x>> \o list
Subscribed(x) == Append(list, x)

\* The request arrives: the stored events are replayed, and a run that is over ends
\* the stream.
Connect(r) ==
    LET x == reader[r]
        over == row = "terminal"
    IN  /\ x.phase = "connecting"
        /\ list' = Subscribed(Subscriber(r, x.number + 1, Len(log), over))
        /\ reader' = [reader EXCEPT ![r] = [x EXCEPT !.phase = "reading", !.number = @ + 1,
                         !.wire = [k \in 1..(Len(log) - Cursor(x)) |-> Cursor(x) + k],
                         !.eof = over, !.terminal = FALSE]]
        /\ UNCHANGED <<log, published, replay, row, pc, faults>>

\* A numbered event that was read before is skipped.
Read(r) ==
    LET x == reader[r]
        n == Head(x.wire)
        new == r \in Raw \/ n > Cursor(x)
        read == [x EXCEPT !.wire = Tail(@),
                          !.terminal = @ \/ (new /\ log[n] \in Terminal),
                          !.got = IF new THEN Append(@, n) ELSE @]
    IN  /\ x.phase = "reading" /\ x.wire # <<>>
        /\ reader' = [reader EXCEPT ![r] = read]
        /\ UNCHANGED <<log, published, replay, row, pc, list, faults>>

Settle(x, phase) == [NotStarted EXCEPT !.phase = phase, !.from = x.from, !.got = x.got]

\* A stream that ends is read again from the cursor on, unless a numbered reader has
\* seen the run end or has connected too often. A raw stream just ends.
AfterEofOnceMore(r, x) == IF r \in Raw \/ x.terminal THEN Settle(x, "ended")
                          ELSE IF x.number > MaxReconnects + 1 THEN Settle(x, "failed")
                          ELSE [x EXCEPT !.phase = "backoff", !.eof = FALSE]
AfterEofContent(r, x) == Settle(x, "ended")
AfterEof(r, x) == IF r \in Raw \/ x.terminal THEN Settle(x, "ended")
                  ELSE IF x.number > MaxReconnects THEN Settle(x, "failed")
                  ELSE [x EXCEPT !.phase = "backoff", !.eof = FALSE]

AtEof(r) ==
    LET x == reader[r]
    IN  /\ x.phase = "reading" /\ x.wire = <<>> /\ x.eof
        /\ reader' = [reader EXCEPT ![r] = AfterEof(r, x)]
        /\ UNCHANGED <<log, published, replay, row, pc, list, faults>>

\* waitForReconnect
Reconnect(r) ==
    /\ reader[r].phase = "backoff"
    /\ reader' = [reader EXCEPT ![r].phase = "connecting"]
    /\ UNCHANGED <<log, published, replay, row, pc, list, faults>>

\* The Core cannot be reached, or the connection breaks: that is not tried again.
Break(r) ==
    /\ reader[r].phase \in {"connecting", "reading"}
    /\ faults < MaxFaults
    /\ faults' = faults + 1
    /\ reader' = [reader EXCEPT ![r] = Settle(@, "failed")]
    /\ UNCHANGED <<log, published, replay, row, pc, list>>

\* The renderer unsubscribes: its listener is gone at once, and what the main process
\* reads before it hears of it reaches nobody.
Unsubscribe(r) ==
    /\ reader[r].phase \in {"connecting", "reading", "backoff"}
    /\ reader' = [reader EXCEPT ![r] = Settle(@, "aborted")]
    /\ UNCHANGED <<log, published, replay, row, pc, list, faults>>

-----------------------------------------------------------------------------

Init == /\ log = <<>> /\ published = 0
        /\ row = "active" /\ pc = "queued" /\ replay = 0
        /\ list = <<>>
        /\ reader = [r \in Readers |-> NotStarted]
        /\ faults = 0

Settlement == RowEnds \/ CancelTold \/ RowPauses \/ Publish \/ CloseStreams
Core == \/ BeginRun \/ Emit \/ EndRun \/ CancelRun \/ PauseRun \/ PauseQueued \/ ResumeRun
        \/ Settlement
        \/ \E i \in DOMAIN list : Removed(i)
Desktop(r) == Connect(r) \/ Read(r) \/ AtEof(r) \/ Reconnect(r)
Next == Core \/ \E r \in Readers : \/ Subscribe(r) \/ Unsubscribe(r) \/ Break(r)
                                   \/ Desktop(r)

\* A settlement that has begun is finished, connections are answered, streams are
\* read and emitters removed.
Spec == /\ Init /\ [][Next]_vars
        /\ WF_vars(Settlement)
        /\ WF_vars(\E i \in DOMAIN list : Removed(i))
        /\ \A r \in Readers : WF_vars(Desktop(r))

-----------------------------------------------------------------------------
(* Properties *)

TypeOK ==
    /\ log \in Seq({"text"} \cup Terminal)
    /\ {published, replay} \subseteq 0..Len(log)
    /\ row \in {"active", "paused", "terminal"}
    /\ pc \in {"queued", "running", "ended", "cancelling", "pausing", "closing", "paused", "over",
               "abandoned"}
    /\ \A i \in DOMAIN list : list[i] \in [reader : Readers, number : 1..(MaxReconnects + 1),
                                           last : 0..Len(log), complete : BOOLEAN]
    /\ reader \in [Readers -> [phase : {"idle", "connecting", "reading", "backoff"} \cup Settled,
                               from : 0..Len(log), number : 0..(MaxReconnects + 1),
                               wire : Seq(1..Len(log)), eof : BOOLEAN, terminal : BOOLEAN,
                               got : Seq(1..Len(log))]]
    /\ faults \in 0..MaxFaults

\* Every reader of the run gets the events after the one it named, each once and in
\* order, over the replay, the events published meanwhile and its reconnections;
\* and it comes to an end once the run is over.
Served == INSTANCE LogReaders
    WITH stored <- Len(log),
         over <- pc = "over",
         from <- [r \in Readers |-> reader[r].from],
         got <- [r \in Readers |-> reader[r].got],
         state <- [r \in Readers |-> IF reader[r].phase = "idle" THEN "idle"
                                     ELSE IF reader[r].phase \in Settled THEN "done"
                                     ELSE "open"]
EventsReachReaders == Served!Spec

\* An open stream carries every event that was published: a subscriber whose
\* emitter throws costs no live one an event, and none falls between the replay and
\* the subscription.
OpenStreamsAreComplete ==
    \A r \in Readers : LET x == reader[r]
                       IN  x.phase = "reading" /\ ~x.eof =>
                           published <= Cursor(x) + Len(x.wire)

\* A subscription that ends by itself has seen the run end or pause with the last
\* event it got: a stream that ended early, as one of a run that is being cancelled
\* does, is not taken for the run's end, not even when the ending cannot be stored. (A
\* reader given a pause and the resumption after it took the pause for an end.)
Resumed(x) == \E k \in x.from + 1..x.from + Len(x.got) - 1 :
                 log[k] = "paused" /\ log[k + 1] = "text"
EndedReadersSawTheEnd ==
    \A r \in Numbered : LET x == reader[r]
                            seen == x.from + Len(x.got)
                        IN  x.phase = "ended" =>
                            seen > 0 /\ (log[seen] \in Terminal \/ Resumed(x))

\* Nobody stays in the registry of a run that is over, the subscribers that came
\* after its streams were closed included.
RegistryEmpties == pc = "over" ~> list = <<>>

=============================================================================
