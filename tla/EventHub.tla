------------------------------- MODULE EventHub -------------------------------
(***************************************************************************)
(* The event hub of one Session: class EventHub of app/services/events.py. *)
(*                                                                         *)
(* Events get increasing ids.  Replayable events stay in a bounded         *)
(* history; live ones (agent_event, console_live) only go to the bounded   *)
(* queues of the current subscribers.  Nothing suspends inside publish or  *)
(* between the snapshot and the subscription of stream, so each is a step. *)
(***************************************************************************)
EXTENDS Integers, Sequences

CONSTANTS
    Client,         \* the connections of browsers
    HistoryLimit,   \* history_limit
    QueueLimit,     \* subscriber_queue_limit
    WireMax         \* bound of the model: events on their way to the browser

ASSUME HubAssumption ==
    /\ HistoryLimit \in Nat \ {0}
    /\ QueueLimit \in Nat \ {0}
    /\ WireMax \in Nat \ {0}

VARIABLES
    hub,       \* _SessionEvents
    stream     \* one stream() and its response for every Client

LiveOnly == {"agent_event", "console_live"}

EventType ==
    LiveOnly \cup {"user_message", "permission_request", "turn_finished",
                  "runtime_status", "console_event", "end"}

(* An event has an id, a type, the row of a console_event and the text of  *)
(* a console_live.  no is not in the code: it numbers all events, also     *)
(* across restarts.  Not an event: the None that ends a stream.            *)
End == [id |-> 0, no |-> 0, type |-> "end", row |-> 0, text |-> <<>>]

NoHub == [next |-> 1, history |-> <<>>, evicted |-> 0]

(* open: the generator runs; listed: in subscribers; replay: what is left  *)
(* of available; wire: sent, and not yet received by the browser.          *)
NoStream ==
    [open |-> FALSE, listed |-> FALSE, cursor |-> 0,
     replay |-> <<>>, queue |-> <<>>, wire |-> <<>>]

HubInit ==
    /\ hub = NoHub
    /\ stream = [c \in Client |-> NoStream]

-----------------------------------------------------------------------------
(* _publish of the event e.  evicted is not in the code: the id of the     *)
(* last event that fell out of the history.                                *)
Kept(h, e) ==
    IF e.type \in LiveOnly THEN [h EXCEPT !.next = e.id + 1]
    ELSE IF Len(h.history) < HistoryLimit
    THEN [h EXCEPT !.next = e.id + 1, !.history = Append(@, e)]
    ELSE [next |-> e.id + 1, history |-> Append(Tail(h.history), e),
          evicted |-> Head(h.history).id]

(* Mutant: a full queue loses the event, whatever it is.                   *)
OfferOrDrop(s, e) ==
    IF s.listed /\ Len(s.queue) < QueueLimit THEN [s EXCEPT !.queue = Append(@, e)] ELSE s

(* Mutant: the slow stream is unsubscribed and never told.                 *)
OfferOrForget(s, e) ==
    IF ~s.listed THEN s
    ELSE IF Len(s.queue) < QueueLimit THEN [s EXCEPT !.queue = Append(@, e)]
    ELSE IF e.type \in LiveOnly THEN s
    ELSE [s EXCEPT !.listed = FALSE, !.queue = <<>>]

(* put_nowait: a full queue drops a live event, and a stable one ends the  *)
(* stream so that the browser reconnects with its Last-Event-ID.           *)
Offer(s, e) ==
    IF ~s.listed THEN s
    ELSE IF Len(s.queue) < QueueLimit THEN [s EXCEPT !.queue = Append(@, e)]
    ELSE IF e.type \in LiveOnly THEN s
    ELSE [s EXCEPT !.listed = FALSE, !.queue = <<End>>]

(* What one publish sends, as records of type, row and text.  total is     *)
(* how many events there were before.                                      *)
Numbered(items, total) ==
    [i \in 1..Len(items) |->
        [id |-> hub.next + i - 1, no |-> total + i, type |-> items[i].type,
         row |-> items[i].row, text |-> items[i].text]]

(* The hub and its streams, after one _publish and after several of them.  *)
State == [hub |-> hub, stream |-> stream]

Published(x, e) ==
    [hub    |-> Kept(x.hub, e),
     stream |-> [c \in Client |-> Offer(x.stream[c], e)]]

AllPublished(events) ==
    LET after[i \in 0..Len(events)] ==
          IF i = 0 THEN State ELSE Published(after[i - 1], events[i])
    IN  after[Len(events)]

Publish(items, total) ==
    LET x == AllPublished(Numbered(items, total))
    IN  hub' = x.hub /\ stream' = x.stream

(* available: what the history holds after the cursor.                     *)
After(history, cursor) ==
    LET taken[i \in 0..Len(history)] ==
          IF i = 0 THEN <<>>
          ELSE IF history[i].id > cursor THEN Append(taken[i - 1], history[i])
          ELSE taken[i - 1]
    IN  taken[Len(history)]

(* stream: the history after the cursor, and a place among the subscribers.*)
Subscribe(c, after) ==
    /\ ~stream[c].open
    /\ stream' = [stream EXCEPT ![c] =
         [open |-> TRUE, listed |-> TRUE, cursor |-> after,
          replay |-> After(hub.history, after),
          queue |-> <<>>, wire |-> <<>>]]
    /\ UNCHANGED hub

Sent(s, e) == [s EXCEPT !.cursor = e.id, !.wire = Append(@, e)]

(* The next event of available, then of the queue.                         *)
YieldReplay(c) ==
    LET s == stream[c] IN
    /\ s.open /\ s.replay # <<>> /\ Len(s.wire) < WireMax
    /\ stream' = [stream EXCEPT ![c] =
         [Sent(s, Head(s.replay)) EXCEPT !.replay = Tail(@)]]
    /\ UNCHANGED hub

YieldQueued(c) ==
    LET s == stream[c] IN
    /\ s.open /\ s.replay = <<>> /\ s.queue # <<>> /\ Head(s.queue).type # "end"
    /\ Len(s.wire) < WireMax
    /\ LET e    == Head(s.queue)
           rest == [s EXCEPT !.queue = Tail(@)]
       IN  stream' = [stream EXCEPT ![c] = IF e.id > s.cursor THEN Sent(rest, e) ELSE rest]
    /\ UNCHANGED hub

(* The generator returns, after what it has sent was received.             *)
StreamReturns(c) ==
    /\ stream[c].open /\ stream[c].replay = <<>> /\ Len(stream[c].queue) > 0
    /\ Head(stream[c].queue).type = "end"
    /\ stream[c].wire = <<>>
    /\ stream' = [stream EXCEPT ![c] = NoStream]
    /\ UNCHANGED hub

(* The connection breaks: what was on its way is lost.                     *)
Disconnect(c) ==
    /\ stream[c].open
    /\ stream' = [stream EXCEPT ![c] = NoStream]
    /\ UNCHANGED hub

(* The process ends: history and streams are gone, ids begin at 1 again.   *)
LoseHub ==
    /\ hub' = NoHub
    /\ stream' = [c \in Client |-> NoStream]

(* remove_session: the next publish or stream begins anew; the open        *)
(* streams belong to nothing and stay silent.                              *)
RemoveHub ==
    /\ hub' = NoHub
    /\ stream' = [c \in Client |-> [stream[c] EXCEPT !.listed = FALSE]]

Drained(c) ==
    /\ stream[c].open /\ stream[c].listed
    /\ stream[c].replay = <<>> /\ stream[c].queue = <<>> /\ stream[c].wire = <<>>
=============================================================================
