---------------------------- MODULE EventStream ----------------------------
(* events.EventBus and the SSE streams of events.SSEEventHandler that read   *)
(* it.  publish, subscribe and unsubscribe hold the bus lock and have no     *)
(* await under it, so each is one step.  Events are numbered as published.   *)
EXTENDS Naturals, Sequences

CONSTANTS
    Stream,         \* SSE requests; each has a subscriber id of its own
    QueueSize,      \* max_queue_size
    MaxEvents       \* bounds the model

ASSUME EventStreamAssumption == QueueSize \in Nat \ {0} /\ MaxEvents \in Nat

VARIABLES
    published,      \* how many events were published
    busClosed,      \* _closed
    queues,         \* _queues: [Stream -> sequence, or NoQueue]
    reader,         \* [Stream -> where the request is]
    since,          \* [Stream -> events published before it subscribed]
    seen            \* [Stream -> the number of the last event written, 0 for none]

streamVars == <<published, busClosed, queues, reader, since, seen>>

NoQueue == <<0>>
Live(s) == queues[s] # NoQueue

StreamsInit ==
    /\ published = 0 /\ busClosed = FALSE
    /\ queues = [s \in Stream |-> NoQueue]
    /\ reader = [s \in Stream |-> "none"]
    /\ since = [s \in Stream |-> 0]
    /\ seen = [s \in Stream |-> 0]

(* Mutant: the oldest event stays and the new one is dropped. *)
EnqueueOrDrop(q, e) == IF Len(q) < QueueSize THEN Append(q, e) ELSE q

(* put_nowait; a full queue gives up its oldest event (DROP_OLDEST, the      *)
(* policy create_app uses).                                                  *)
Enqueue(q, e) == Append(IF Len(q) < QueueSize THEN q ELSE Tail(q), e)

Publish ==
    /\ ~busClosed /\ published < MaxEvents
    /\ published' = published + 1
    /\ queues' = [s \in Stream |-> IF Live(s) THEN Enqueue(queues[s], published') ELSE NoQueue]
    /\ UNCHANGED <<busClosed, reader, since, seen>>

(* handle_sse_stream subscribes before it prepares the response; a closed    *)
(* bus answers 503.                                                          *)
OpenStream(s) ==
    /\ reader[s] = "none" /\ ~busClosed
    /\ queues' = [queues EXCEPT ![s] = <<>>]
    /\ since' = [since EXCEPT ![s] = published]
    /\ reader' = [reader EXCEPT ![s] = "preparing"]
    /\ UNCHANGED <<published, busClosed, seen>>

(* The bus may have closed while the response was prepared: events() then    *)
(* finds no queue, and the handler ends.                                     *)
Prepared(s) ==
    /\ reader[s] = "preparing"
    /\ reader' = [reader EXCEPT ![s] = IF Live(s) THEN "reading" ELSE "ending"]
    /\ UNCHANGED <<published, busClosed, queues, since, seen>>

PrepareReset(s) ==
    /\ reader[s] = "preparing"
    /\ reader' = [reader EXCEPT ![s] = "over"]
    /\ queues' = [queues EXCEPT ![s] = NoQueue]
    /\ UNCHANGED <<published, busClosed, since, seen>>

(* The handler is cancelled while it prepares: only a reset connection is    *)
(* caught, and the queue stays on the bus without a reader.                  *)
PrepareCancelled(s) ==
    /\ reader[s] = "preparing"
    /\ reader' = [reader EXCEPT ![s] = "cancelled"]
    /\ UNCHANGED <<published, busClosed, queues, since, seen>>

(* The next event is written; a filter may leave it out.                     *)
WriteEvent(s) ==
    /\ reader[s] = "reading" /\ Live(s) /\ queues[s] # <<>>
    /\ \E passes \in BOOLEAN :
        seen' = IF passes THEN [seen EXCEPT ![s] = Head(queues[s])] ELSE seen
    /\ queues' = [queues EXCEPT ![s] = Tail(@)]
    /\ UNCHANGED <<published, busClosed, reader, since>>

(* The client is gone: writing fails, or the handler is cancelled. *)
ClientGone(s) ==
    /\ reader[s] = "reading"
    /\ reader' = [reader EXCEPT ![s] = "ending"]
    /\ UNCHANGED <<published, busClosed, queues, since, seen>>

(* events() looks at _closed once a second. *)
NoticeClosed(s) ==
    /\ reader[s] = "reading" /\ busClosed
    /\ reader' = [reader EXCEPT ![s] = "ending"]
    /\ UNCHANGED <<published, busClosed, queues, since, seen>>

(* The finally block: the heartbeat task is cancelled, then unsubscribe. *)
EndStream(s) ==
    /\ reader[s] = "ending"
    /\ reader' = [reader EXCEPT ![s] = "over"]
    /\ queues' = [queues EXCEPT ![s] = NoQueue]
    /\ UNCHANGED <<published, busClosed, since, seen>>

CloseBus ==
    /\ ~busClosed
    /\ busClosed' = TRUE
    /\ queues' = [s \in Stream |-> NoQueue]
    /\ UNCHANGED <<published, reader, since, seen>>

StreamStep(s) ==
    \/ Prepared(s) \/ PrepareReset(s) \/ PrepareCancelled(s) \/ WriteEvent(s) \/ ClientGone(s)
    \/ NoticeClosed(s) \/ EndStream(s)

StreamsNext ==
    \/ Publish \/ CloseBus
    \/ \E s \in Stream : OpenStream(s) \/ StreamStep(s)

-----------------------------------------------------------------------------
(* A queue holds the latest events and no gap: what a slow reader loses are  *)
(* always the oldest, and once it catches up it has missed nothing newer.    *)
LatestKept ==
    \A s \in Stream : Live(s) =>
        /\ Len(queues[s]) <= QueueSize
        /\ \A i \in DOMAIN queues[s] : queues[s][i] = published - Len(queues[s]) + i
        /\ published - since[s] <= QueueSize /\ reader[s] = "preparing"
             => Len(queues[s]) = published - since[s]

(* A stream writes events in the order of their publication, none twice.     *)
WrittenInOrder ==
    \A s \in Stream : Live(s) =>
        \A i \in DOMAIN queues[s] : seen[s] < queues[s][i] /\ since[s] < queues[s][i]

(* A queue on the bus belongs to a stream that is being served, or to one    *)
(* cancelled while its response was prepared: a reset, a client that goes    *)
(* away and a closing bus, in any order, leave nothing for publish to fill.  *)
NoQueueLeft ==
    \A s \in Stream :
        Live(s) => reader[s] \in {"preparing", "reading", "ending", "cancelled"}

(* Closing the bus ends every stream.                                        *)
CloseEndsStreams ==
    \A s \in Stream : reader[s] = "reading" /\ ~Live(s) ~> reader[s] = "over"
=============================================================================
