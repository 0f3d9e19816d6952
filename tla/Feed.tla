-------------------------------- MODULE Feed --------------------------------
(***************************************************************************)
(* What a browser sees of one Session: the event hub and the console       *)
(* recorder behind EventHub.publish, the routes that serve a page          *)
(* (app/api/routes.py), and the page itself (frontend/src/SessionApp.vue). *)
(*                                                                         *)
(* A page asks for the Session and its event_cursor, then for the stored   *)
(* console, and then listens from that cursor on; whenever its connection  *)
(* ends it reconnects with the id of the last event it received.           *)
(***************************************************************************)
EXTENDS Console, EventHub, SequencesExt

CONSTANTS
    MaxEvents,    \* bound of the model: how many events are published
    Followed,     \* bound of the model: the events StableEventSeen follows
    Env           \* "disconnect": connections break; "restart": the service
                  \* does; "delete": the Session is deleted

ASSUME FeedAssumption ==
    /\ MaxEvents \in Nat
    /\ Followed \subseteq 1..MaxEvents
    /\ Env \subseteq {"disconnect", "restart", "delete"}

VARIABLES
    turn,      \* the latest Turn
    running,   \* Core runs it
    exists,    \* the Session has a row
    total,     \* history: how many events were published
    page       \* the page of every Client

vars == <<console, said, part, hub, stream, turn, running, exists, total, page>>

Page ==
    [at     : {"closed", "booted", "loaded"},
     last   : Nat,               \* event_cursor, then Last-Event-ID
     rows   : SUBSET Nat,        \* ids of consoleEvents
     live   : Seq(Delta),        \* liveConsole
     boot   : Nat,               \* history: total when the cursor was taken
     seen   : SUBSET Nat,        \* history: the events it received
     missed : BOOLEAN,           \* history: events had left the history
     stale  : BOOLEAN]           \* history: it was open during a restart

Event == [id : Nat, no : Nat, type : EventType, row : Nat, text : Seq(Delta)]

NoPage ==
    [at |-> "closed", last |-> 0, rows |-> {}, live |-> <<>>, boot |-> 0,
     seen |-> {}, missed |-> FALSE, stale |-> FALSE]

Init ==
    /\ ConsoleInit
    /\ HubInit
    /\ turn = 0
    /\ running = FALSE
    /\ exists = TRUE
    /\ total = 0
    /\ page = [c \in Client |-> NoPage]

-----------------------------------------------------------------------------
(* EventHub.publish: the event, then what the recorder makes of it: the    *)
(* live text after an agent_event or the end of a Turn, and the new rows.  *)
Item(type) == [type |-> type, row |-> 0, text |-> <<>>]

HubType(type) == IF IsDelta(type) \/ type = "tool_call" THEN "agent_event" ELSE type

LiveItems(type, c) ==
    IF IsDelta(type) \/ type \in {"tool_call", "turn_finished"}
    THEN <<[Item("console_live") EXCEPT !.text = c.text]>> ELSE <<>>

RowItems(from, to) ==
    [i \in 1..(to - from) |-> [Item("console_event") EXCEPT !.row = from + i]]

(* Mutant: the live text is taken before the recorder has the event.       *)
ItemsLiveFirst(type, c) ==
    <<Item(HubType(type))>> \o RowItems(console.last, c.last) \o LiveItems(type, console)

Items(type, c) ==
    <<Item(HubType(type))>> \o LiveItems(type, c) \o RowItems(console.last, c.last)

PublishType(type, t) ==
    LET items == Items(type, Recorded(console, type, t))
    IN  /\ total + Len(items) <= MaxEvents
        /\ Record(type, t)
        /\ Publish(items, total)
        /\ total' = total + Len(items)

(* The manager starts a Turn, Core works on it, asks, and ends it; a stop  *)
(* ends it without a turn_finished.                                        *)
UserMessage ==
    /\ ~running /\ exists /\ turn + 1 \in Turn
    /\ turn' = turn + 1 /\ running' = TRUE
    /\ PublishType("user_message", turn + 1)
    /\ UNCHANGED <<exists, page>>

CoreSends ==
    /\ running
    /\ \E type \in {"text_delta", "line_break", "tool_call", "permission_request"} :
         PublishType(type, turn)
    /\ UNCHANGED <<turn, running, exists, page>>

TurnFinished ==
    /\ running /\ running' = FALSE
    /\ PublishType("turn_finished", turn)
    /\ UNCHANGED <<turn, exists, page>>

RuntimeStopped ==
    /\ running /\ running' = FALSE
    /\ PublishType("runtime_status", turn)
    /\ UNCHANGED <<turn, exists, page>>

-----------------------------------------------------------------------------
(* get_session: the cursor, as the first request of a page.                *)
OpenPage(c) ==
    /\ page[c].at = "closed" /\ exists
    /\ page' = [page EXCEPT ![c] =
                  [NoPage EXCEPT !.at = "booted", !.last = hub.next - 1, !.boot = total]]
    /\ UNCHANGED <<console, said, part, hub, stream, turn, running, exists, total>>

(* console_history, and loadConsole of the page.                           *)
LoadConsole(c) ==
    /\ page[c].at = "booted" /\ exists
    /\ page' = [page EXCEPT ![c].at = "loaded",
                            ![c].rows = {console.rows[i].id : i \in DOMAIN console.rows}]
    /\ UNCHANGED <<console, said, part, hub, stream, turn, running, exists, total>>

(* Mutant: every connection listens from the latest id on.                 *)
ConnectFromLatest(c) ==
    /\ page[c].at = "loaded" /\ exists
    /\ Subscribe(c, hub.next - 1)
    /\ page' = [page EXCEPT ![c].missed = @ \/ hub.evicted > page[c].last]
    /\ UNCHANGED <<console, said, part, turn, running, exists, total>>

(* session_events: the first connection and every reconnection.            *)
Connect(c) ==
    /\ page[c].at = "loaded" /\ exists
    /\ Subscribe(c, page[c].last)
    /\ page' = [page EXCEPT ![c].missed = @ \/ hub.evicted > page[c].last]
    /\ UNCHANGED <<console, said, part, turn, running, exists, total>>

(* The listeners of connectEvents.  Any new row hides the live text.       *)
Shown(p, e) ==
    CASE e.type = "console_event" -> [p EXCEPT !.rows = @ \cup {e.row}, !.live = <<>>]
      [] e.type = "console_live"  -> [p EXCEPT !.live = e.text]
      [] OTHER                    -> p

Receive(c) ==
    /\ stream[c].wire # <<>>
    /\ LET e == Head(stream[c].wire)
           p == Shown(page[c], e)
       IN  page' = [page EXCEPT ![c] = [p EXCEPT !.last = e.id, !.seen = @ \cup {e.no}]]
    /\ stream' = [stream EXCEPT ![c].wire = Tail(@)]
    /\ UNCHANGED <<console, said, part, hub, turn, running, exists, total>>

Yield(c) ==
    /\ YieldReplay(c) \/ YieldQueued(c) \/ StreamReturns(c)
    /\ UNCHANGED <<console, said, part, turn, running, exists, total, page>>

ConnectionBreaks(c) ==
    /\ "disconnect" \in Env
    /\ Disconnect(c)
    /\ UNCHANGED <<console, said, part, turn, running, exists, total, page>>

ClosePage(c) ==
    /\ page[c].at # "closed"
    /\ page' = [page EXCEPT ![c] = NoPage]
    /\ stream' = [stream EXCEPT ![c] = NoStream]
    /\ UNCHANGED <<console, said, part, hub, turn, running, exists, total>>

(* The service restarts: only SQLite survives, and the pages, which        *)
(* reconnect with the ids of the process before.                           *)
Restart ==
    /\ "restart" \in Env
    /\ LoseHub
    /\ LoseBuffer
    /\ running' = FALSE
    /\ page' = [c \in Client |-> IF page[c].at = "closed" THEN page[c]
                                  ELSE [page[c] EXCEPT !.stale = TRUE]]
    /\ UNCHANGED <<turn, exists, total>>

(* delete_session, once the Runtime has stopped.  Every later request of a *)
(* page is answered with 404.                                              *)
DeleteSession ==
    /\ "delete" \in Env
    /\ exists /\ ~running
    /\ exists' = FALSE
    /\ RemoveHub
    /\ ClearConsole
    /\ UNCHANGED <<turn, running, total, page>>

(* No more events: only so that TLC does not take the bound, or the end of *)
(* the Session, for a deadlock.                                            *)
Quiet == (total + 4 > MaxEvents \/ ~exists) /\ UNCHANGED vars

Next ==
    \/ UserMessage \/ CoreSends \/ TurnFinished \/ RuntimeStopped
    \/ \E c \in Client :
         \/ OpenPage(c) \/ LoadConsole(c) \/ Connect(c) \/ Receive(c)
         \/ Yield(c) \/ ConnectionBreaks(c) \/ ClosePage(c)
    \/ Restart \/ DeleteSession
    \/ Quiet

Spec == Init /\ [][Next]_vars

(* Browsers load and reconnect; connections break, but not every one of    *)
(* them before it has carried anything.                                    *)
FairSpec ==
    /\ Spec
    /\ \A c \in Client :
         /\ WF_vars(LoadConsole(c)) /\ WF_vars(Connect(c))
         /\ SF_vars(Yield(c)) /\ SF_vars(Receive(c))

-----------------------------------------------------------------------------
(* The state keeps its type, and every bound the code states holds: the    *)
(* history ring, the subscriber queues and the stored rows.                *)
TypeOK ==
    /\ console \in ConsoleState /\ Len(console.rows) <= StoreLimit
    /\ said \in Seq(Delta) /\ part \in Nat
    /\ hub.history \in Seq(Event) /\ Len(hub.history) <= HistoryLimit
    /\ hub.next \in 1..(MaxEvents + 1) /\ hub.evicted \in 0..MaxEvents
    /\ \A c \in Client : /\ stream[c].queue \in Seq(Event) /\ Len(stream[c].queue) <= QueueLimit
                         /\ stream[c].wire \in Seq(Event) /\ Len(stream[c].wire) <= WireMax
    /\ page \in [Client -> Page]
    /\ turn \in Turn \cup {0} /\ running \in BOOLEAN /\ exists \in BOOLEAN /\ total \in 0..MaxEvents

(* The page of c has passed no stable event of the history unreceived.     *)
NonePassed(c) ==
    \A i \in DOMAIN hub.history :
        LET e == hub.history[i]
        IN  (e.no > page[c].boot /\ e.id <= page[c].last) => e.no \in page[c].seen

(* No page gets past a stable event it has not received while the history  *)
(* still has it: the cursor of the bootstrap and the Last-Event-ID of a    *)
(* reconnection lose nothing, within one process and for every page that   *)
(* is opened after a restart.                                              *)
EventsReachPage ==
    \A c \in Client : (page[c].at # "closed" /\ ~page[c].stale) => NonePassed(c)

(* README.md:77 and :79 say so without exception: events must not be lost. *)
(* It fails for a page that was open during a restart (run FeedRestart).   *)
EventsSurviveRestart ==
    \A c \in Client : page[c].at # "closed" => NonePassed(c)

(* The page of c has received all there is, and nothing that it had yet to *)
(* receive was gone before it connected.                                   *)
UpToDate(c) == Drained(c) /\ ~page[c].missed /\ ~page[c].stale

(* A page that has received all there is shows every stored row, unless    *)
(* the event of a row had left the history before it reconnected: the rows *)
(* read by /console and those pushed after the cursor leave no gap.        *)
ConsoleReachesPage ==
    \A c \in Client : UpToDate(c) =>
        \A i \in DOMAIN console.rows : console.rows[i].id \in page[c].rows

(* A page never shows, as text that is being written, text that is already *)
(* a row: live text is the beginning of the recorder's buffer, whatever    *)
(* live events a full queue has dropped.  Line breaks alone may stay: they *)
(* make no row whose event would hide them.                                *)
LiveIsCurrent ==
    \A c \in Client : (UpToDate(c) /\ Spoken(page[c].live) # {}) =>
        IsPrefix(page[c].live, console.text)

Numbers(text) == {text[k].no : k \in DOMAIN text}

InOrder(text) == \A i, j \in DOMAIN text : i < j => text[i].no < text[j].no

Before(text, later) == \A m \in Numbers(text), n \in Numbers(later) : m < n

OneTurn(r) == \A k \in DOMAIN r.text : r.text[k].turn = r.turn

(* The k-th delta has a row of its own Turn.                               *)
Stored(k) == \E i \in DOMAIN console.rows : k \in Numbers(console.rows[i].text)

(* It belongs into one: it is no line break at an end of its passage, and  *)
(* within TextLimit of the first character of the passage.                 *)
Due(k) ==
    LET spoken == {v \in Spoken(said) : said[v].part = said[k].part}
    IN  /\ \E v, w \in spoken : v <= k /\ k <= w
        /\ \A v \in spoken : k < v + TextLimit

(* It is older than all that the rows hold, and there are StoreLimit rows. *)
Dropped(k) ==
    /\ Len(console.rows) = StoreLimit
    /\ \A i \in DOMAIN console.rows : \A n \in Numbers(console.rows[i].text) : k < n

(* Assistant text is stored once, in order and under its own Turn, also    *)
(* when a Turn ended without turn_finished.  What Core has said is in the  *)
(* buffer, or in a row if it belongs into one (append_console_event cuts   *)
(* what a passage has beyond TextLimit, and strips line breaks at its      *)
(* ends), or was dropped with the oldest rows; a restart loses the buffer. *)
TextKept ==
    /\ \A i \in DOMAIN console.rows :
         /\ OneTurn(console.rows[i]) /\ InOrder(console.rows[i].text)
         /\ Before(console.rows[i].text, console.text)
         /\ \A j \in DOMAIN console.rows :
              i < j => Before(console.rows[i].text, console.rows[j].text)
    /\ OneTurn(console) /\ InOrder(console.text)
    /\ \A k \in DOMAIN said :
         k \in Numbers(console.text) \/ Dropped(k) \/ (Stored(k) <=> Due(k))

(* Every stable event in the history reaches every page that stays open,   *)
(* also through a stream that was closed for being slow, unless newer      *)
(* events push it out first.                                               *)
StableEventSeen ==
    \A c \in Client : \A n \in Followed :
        (page[c].at # "closed" /\ page[c].boot < n
           /\ \E i \in DOMAIN hub.history : hub.history[i].no = n)
        ~> (\/ n \in page[c].seen
            \/ page[c].at = "closed" \/ page[c].stale
            \/ \A i \in DOMAIN hub.history : hub.history[i].no # n)
=============================================================================
