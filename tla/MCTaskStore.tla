---------------------------- MODULE MCTaskStore ----------------------------
(* What the user may do in the runs of TaskStore: any two of the common    *)
(* operations, and some sessions of up to three for the others; each       *)
(* operation that waits for an answer is left for another task.            *)
EXTENDS TaskStore

Begun(sessions) == UNION {{SubSeq(s, 1, n) : n \in 1..Len(s)} : s \in sessions}

CommonOperations == {"open", "send", "stop", "resume", "clear"}
OtherSessions == {<<"open", "open", "open">>, <<"stop", "resume", "open">>,
                  <<"stop", "resume", "stop">>, <<"stop", "resume", "resume">>,
                  <<"stop", "resume", "clear">>,
                  <<"open", "archive", "open">>, <<"open", "compact", "open">>,
                  <<"create", "open", "compact">>,
                  <<"enqueue", "open">>, <<"stop", "compact">>,
                  <<"regenerate", "open">>, <<"regenerate", "stop">>,
                  <<"stop", "regenerate">>}
\* How a message or a stop meets a message that was sent before it has too many states
\* beside the rest: it is left to the answer under way at the start, and to regenerate,
\* whose stream is of the same kind as send's.
Pairs == [1..2 -> CommonOperations] \ {<<"send", "send">>, <<"send", "stop">>}
StoreSessions == Begun(Pairs \cup OtherSessions)

StopOnce == {<<"stop">>}
=============================================================================
