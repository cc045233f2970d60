----------------------------- MODULE EventBroker -----------------------------
(***************************************************************************)
(* EventBroker (voicebridge/api/broker.py) and the WebSocket handler of    *)
(* voicebridge/api/app.py that reads from it.  Pipeline threads publish;   *)
(* the event loop delivers each event to the history and to the queue of   *)
(* every subscriber; a handler sends a new socket the recent history and   *)
(* then what its queue brings.                                             *)
(*                                                                         *)
(* An event is its place in the order of publication: call_soon_threadsafe *)
(* is first in, first out.  What runs on the loop between two awaits is    *)
(* one step.                                                               *)
(***************************************************************************)
EXTENDS Naturals, Sequences, SequencesExt

CONSTANTS
  Sockets,        \* WebSocket connections, each opened once
  Replay,         \* 20: how much of the history a new socket is sent
  HistoryLimit,   \* _history_limit, 100
  MaxQueue,       \* _max_queue, 256
  MaxEvents       \* bound: events published

ASSUME BrokerAssumption ==
  /\ Replay \in Nat /\ HistoryLimit \in Nat \ {0} /\ MaxQueue \in Nat \ {0}
  /\ Replay <= HistoryLimit
  /\ MaxEvents \in Nat

VARIABLES
  bound,        \* _loop is set
  published,    \* events published so far
  pending,      \* _deliver callbacks waiting on the loop
  history,      \* _history
  subscribers,  \* _subscribers: the sockets whose queue is in it
  queue,        \* a subscriber's asyncio queue
  pc,           \* the handler of a socket: "new", "replay", "stream", "closed", "failed"
  outbox,       \* what the handler is about to send: rest of the replay, or one payload
  gone,         \* the client has closed its end
  joined, seen, skipped   \* history: deliveries before it subscribed, payloads
                          \* the client got, payloads its full queue refused

handlerVars == <<pc, outbox, seen>>
vars == <<bound, published, pending, history, subscribers, queue, handlerVars,
          gone, joined, skipped>>

delivered == published - Len(pending)

Init ==
  /\ bound = FALSE /\ published = 0 /\ pending = <<>> /\ history = <<>>
  /\ subscribers = {}
  /\ queue = [s \in Sockets |-> <<>>] /\ outbox = [s \in Sockets |-> <<>>]
  /\ pc = [s \in Sockets |-> "new"] /\ gone = [s \in Sockets |-> FALSE]
  /\ joined = [s \in Sockets |-> 0] /\ seen = [s \in Sockets |-> <<>>]
  /\ skipped = [s \in Sockets |-> {}]

-----------------------------------------------------------------------------
(* The broker.                                                             *)

BindLoop ==
  /\ ~bound
  /\ bound' = TRUE
  /\ UNCHANGED <<published, pending, history, subscribers, queue, handlerVars,
                 gone, joined, skipped>>

\* A ring of the HistoryLimit latest events.
Remember(event) ==
  history' = LET longer == Append(history, event)
             IN  IF Len(longer) > HistoryLimit THEN Tail(longer) ELSE longer

\* Called from pipeline threads.
Publish ==
  /\ published < MaxEvents
  /\ published' = published + 1
  /\ IF bound
     THEN pending' = Append(pending, published') /\ UNCHANGED history
     ELSE Remember(published') /\ UNCHANGED pending
  /\ UNCHANGED <<bound, subscribers, queue, handlerVars, gone, joined, skipped>>

\* Faulty variant of HasRoom: one too many.
HasRoomLate(s) == Len(queue[s]) <= MaxQueue

HasRoom(s) == Len(queue[s]) < MaxQueue

\* Faulty variant of Deliver: one full queue ends the loop over the subscribers.
DeliverUnlessFull ==
  /\ pending # <<>>
  /\ Remember(Head(pending))
  /\ pending' = Tail(pending)
  /\ queue' = IF \A s \in subscribers : HasRoom(s)
              THEN [s \in Sockets |-> IF s \in subscribers
                                      THEN Append(queue[s], Head(pending)) ELSE queue[s]]
              ELSE queue
  /\ skipped' = [s \in Sockets |-> IF s \in subscribers /\ ~HasRoom(s)
                                   THEN skipped[s] \cup {Head(pending)} ELSE skipped[s]]
  /\ UNCHANGED <<bound, published, subscribers, handlerVars, gone, joined>>

\* On the loop: a full queue drops the event for its own subscriber only.
Deliver ==
  /\ pending # <<>>
  /\ Remember(Head(pending))
  /\ pending' = Tail(pending)
  /\ queue' = [s \in Sockets |-> IF s \in subscribers /\ HasRoom(s)
                                 THEN Append(queue[s], Head(pending)) ELSE queue[s]]
  /\ skipped' = [s \in Sockets |-> IF s \in subscribers /\ ~HasRoom(s)
                                   THEN skipped[s] \cup {Head(pending)} ELSE skipped[s]]
  /\ UNCHANGED <<bound, published, subscribers, handlerVars, gone, joined>>

-----------------------------------------------------------------------------
(* The handler of a socket.                                                *)

\* Faulty variant of Recent: the wrong end of the history.
RecentOldest ==
  SubSeq(history, 1, IF Len(history) > Replay THEN Replay ELSE Len(history))

Recent == SubSeq(history, IF Len(history) > Replay THEN Len(history) - Replay + 1 ELSE 1,
                 Len(history))

\* subscribe has nothing to wait for: the snapshot of the history is taken in
\* the same step.
Connect(s) ==
  /\ bound /\ pc[s] = "new"
  /\ subscribers' = subscribers \cup {s}
  /\ outbox' = [outbox EXCEPT ![s] = Recent]
  /\ joined' = [joined EXCEPT ![s] = delivered]
  /\ pc' = [pc EXCEPT ![s] = "replay"]
  /\ UNCHANGED <<bound, published, pending, history, queue, seen, gone, skipped>>

Send(s) ==
  /\ outbox[s] # <<>> /\ ~gone[s]
  /\ seen' = [seen EXCEPT ![s] = Append(@, Head(outbox[s]))]
  /\ outbox' = [outbox EXCEPT ![s] = Tail(@)]
  /\ UNCHANGED <<bound, published, pending, history, subscribers, queue, pc, gone, joined, skipped>>

ReplayDone(s) ==
  /\ pc[s] = "replay" /\ outbox[s] = <<>>
  /\ pc' = [pc EXCEPT ![s] = "stream"]
  /\ UNCHANGED <<bound, published, pending, history, subscribers, queue, outbox, seen,
                 gone, joined, skipped>>

GetNext(s) ==
  /\ pc[s] = "stream" /\ outbox[s] = <<>> /\ queue[s] # <<>>
  /\ outbox' = [outbox EXCEPT ![s] = <<Head(queue[s])>>]
  /\ queue' = [queue EXCEPT ![s] = Tail(@)]
  /\ UNCHANGED <<bound, published, pending, history, subscribers, pc, seen, gone, joined, skipped>>

\* Faulty variant of SendFails: no finally block.
SendFailsSubscribed(s) ==
  /\ outbox[s] # <<>> /\ gone[s]
  /\ pc' = [pc EXCEPT ![s] = "closed"]
  /\ outbox' = [outbox EXCEPT ![s] = <<>>]
  /\ UNCHANGED <<bound, published, pending, history, subscribers, queue, seen, gone, joined, skipped>>

\* Only a send tells the handler that the client has left.  The replay is
\* outside of the try block: its failure leaves the subscription behind.
SendFails(s) ==
  /\ outbox[s] # <<>> /\ gone[s]
  /\ IF pc[s] = "stream"
     THEN subscribers' = subscribers \ {s} /\ pc' = [pc EXCEPT ![s] = "closed"]
     ELSE UNCHANGED subscribers /\ pc' = [pc EXCEPT ![s] = "failed"]
  /\ outbox' = [outbox EXCEPT ![s] = <<>>]
  /\ UNCHANGED <<bound, published, pending, history, queue, seen, gone, joined, skipped>>

\* The client closes the tab, or loses its connection.
Leave(s) ==
  /\ pc[s] \in {"replay", "stream"} /\ ~gone[s]
  /\ gone' = [gone EXCEPT ![s] = TRUE]
  /\ UNCHANGED <<bound, published, pending, history, subscribers, queue, handlerVars,
                 joined, skipped>>

Handle(s) == Send(s) \/ ReplayDone(s) \/ GetNext(s) \/ SendFails(s)

Next ==
  \/ BindLoop \/ Publish \/ Deliver
  \/ \E s \in Sockets : Connect(s) \/ Handle(s) \/ Leave(s)

\* The loop serves its callbacks and its ready handlers in turn.
Fairness ==
  /\ WF_vars(Deliver)
  /\ \A s \in Sockets : WF_vars(Handle(s))

Spec == Init /\ [][Next]_vars /\ Fairness

-----------------------------------------------------------------------------
(* Properties.                                                             *)

\* Type correctness of the broker and the handlers; history and queues keep to
\* their limits.
TypeOK ==
  /\ bound \in BOOLEAN
  /\ published \in 0 .. MaxEvents
  /\ pending \in Seq(1 .. published) /\ history \in Seq(1 .. published)
  /\ subscribers \subseteq Sockets
  /\ queue \in [Sockets -> Seq(1 .. published)] /\ outbox \in [Sockets -> Seq(1 .. published)]
  /\ Len(history) <= HistoryLimit /\ \A s \in Sockets : Len(queue[s]) <= MaxQueue
  /\ pc \in [Sockets -> {"new", "replay", "stream", "closed", "failed"}]
  /\ gone \in [Sockets -> BOOLEAN]
  /\ joined \in [Sockets -> 0 .. published]
  /\ seen \in [Sockets -> Seq(1 .. published)]
  /\ skipped \in [Sockets -> SUBSET (1 .. published)]

Listening(s) == pc[s] \in {"replay", "stream"}
Entitled(s) == IF joined[s] > Replay THEN joined[s] - Replay + 1 ELSE 1

\* A socket misses nothing and gets nothing twice, from the replayed history to
\* the latest event, except what came while its queue was full, though events
\* are delivered all through the replay (ws handler, subscribe, _deliver).
FeedIsComplete ==
  \A s \in Sockets : Listening(s) =>
    LET feed == seen[s] \o outbox[s] \o queue[s]
    IN  /\ \A i, j \in 1 .. Len(feed) : i < j => feed[i] < feed[j]
        /\ ToSet(feed) = (Entitled(s) .. delivered) \ skipped[s]

\* What the module promises its sockets.
Feed == INSTANCE EventFeed
          WITH first <- [s \in Sockets |-> IF pc[s] = "new" THEN 0 ELSE Entitled(s)]
ImplementsFeed == Feed!Spec

\* Once it streams, a client that has left costs its queue only until the next
\* event.
LeaverIsForgotten ==
  \A s \in Sockets :
    (pc[s] = "stream" /\ gone[s] /\ queue[s] # <<>>) ~> (s \notin subscribers)

=============================================================================
