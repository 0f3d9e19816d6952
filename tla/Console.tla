------------------------------- MODULE Console -------------------------------
(***************************************************************************)
(* The console of one Session: ConsoleRecorder of app/services/console.py  *)
(* and append_console_event of app/db/database.py.                         *)
(*                                                                         *)
(* Assistant text arrives in deltas and is collected in a buffer until     *)
(* something else arrives; everything stored is a row of SQLite.  A delta  *)
(* stands for one character of the text, blank for a line break, and       *)
(* carries the Turn it belongs to.  Of the other kinds of row the content  *)
(* is left out.                                                            *)
(***************************************************************************)
EXTENDS Integers, Sequences, FiniteSetsExt

CONSTANTS
    Turn,         \* turn ids, in the order in which they begin
    StoreLimit,   \* CONSOLE_HISTORY_LIMIT
    TextLimit     \* CONSOLE_EVENT_MAX_CHARS

ASSUME ConsoleAssumption ==
    /\ Turn \subseteq Nat /\ 0 \notin Turn
    /\ StoreLimit \in Nat \ {0} /\ TextLimit \in Nat \ {0}

VARIABLES
    console,   \* the recorder's buffer and the rows in SQLite
    said,      \* history: the assistant text Core has sent, but what a
               \* restart lost of it
    part       \* history: the passage Core is at; a passage ends with a tool
               \* call, with the Turn, and where another Turn speaks

(* no and part are not in the code: the place in said, and the passage.    *)
Delta == [no : Nat, turn : Turn, part : Nat, blank : BOOLEAN]

Row == [id : Nat, kind : {"assistant", "user", "permission", "tool"},
        turn : Turn, text : Seq(Delta)]

ConsoleState ==
    [text : Seq(Delta),       \* _buffers
     turn : Turn \cup {0},    \* _buffer_turn_ids, 0: none
     rows : Seq(Row),
     last : Nat]              \* the highest row id given out

ConsoleInit ==
    /\ console = [text |-> <<>>, turn |-> 0, rows |-> <<>>, last |-> 0]
    /\ said = <<>>
    /\ part = 1

(* Mutant: one row too many.                                               *)
NewestAndOneMore(s, n) == SubSeq(s, IF Len(s) > n THEN Len(s) - n ELSE 1, Len(s))

Newest(s, n) == SubSeq(s, IF Len(s) > n THEN Len(s) - n + 1 ELSE 1, Len(s))

(* The cut of append_console_event.                                        *)
Cut(text) == IF Len(text) > TextLimit THEN SubSeq(text, 1, TextLimit) ELSE text

(* append_console_event: the row is stored and the oldest rows dropped.    *)
AppendRow(c, kind, turn, text) ==
    [c EXCEPT !.last = @ + 1,
              !.rows = Newest(Append(@, [id |-> c.last + 1, kind |-> kind, turn |-> turn,
                                         text |-> Cut(text)]), StoreLimit)]

Spoken(text) == {k \in DOMAIN text : ~text[k].blank}

(* Its strip("\r\n"): the line breaks at both ends are left out.           *)
Stripped(text) ==
    IF Spoken(text) = {} THEN <<>>
    ELSE SubSeq(text, Min(Spoken(text)), Max(Spoken(text)))

(* _flush_assistant; no row for nothing.                                   *)
Flush(c) ==
    LET empty == [c EXCEPT !.text = <<>>, !.turn = 0]
        text  == Stripped(c.text)
    IN  IF text = <<>> THEN empty ELSE AppendRow(empty, "assistant", c.turn, text)

(* Mutant: text of another Turn is appended to the buffer.                 *)
TakeDeltaOfAnyTurn(c, d) == [c EXCEPT !.text = Append(@, d), !.turn = d.turn]

(* A text_delta of another Turn flushes what the buffer holds.             *)
TakeDelta(c, d) ==
    LET ready == IF c.text # <<>> /\ c.turn # d.turn THEN Flush(c) ELSE c
    IN  [ready EXCEPT !.text = Append(@, d), !.turn = d.turn]

(* A text_delta is of a character or of a line break.                      *)
IsDelta(type) == type \in {"text_delta", "line_break"}

Passage(t) == IF said # <<>> /\ said[Len(said)].turn # t THEN part + 1 ELSE part

NewDelta(type, t) ==
    [no |-> Len(said) + 1, turn |-> t, part |-> Passage(t), blank |-> type = "line_break"]

(* record_event, for the types of event that reach the console.            *)
Recorded(c, type, t) ==
    CASE IsDelta(type)               -> TakeDelta(c, NewDelta(type, t))
      [] type = "tool_call"          -> AppendRow(Flush(c), "tool", t, <<>>)
      [] type = "turn_finished"      -> Flush(c)
      [] type = "user_message"       -> AppendRow(c, "user", t, <<>>)
      [] type = "permission_request" -> AppendRow(c, "permission", t, <<>>)
      [] OTHER                       -> c

Record(type, t) ==
    /\ console' = Recorded(console, type, t)
    /\ said' = IF IsDelta(type) THEN Append(said, NewDelta(type, t)) ELSE said
    /\ part' = IF IsDelta(type) THEN Passage(t)
               ELSE IF type \in {"tool_call", "turn_finished"} THEN part + 1 ELSE part

(* clear_session, after the rows went with the Session's row.              *)
ClearConsole ==
    /\ console' = [console EXCEPT !.text = <<>>, !.turn = 0, !.rows = <<>>]
    /\ said' = <<>>
    /\ UNCHANGED part

(* The process ends: the buffer is gone, the rows are not.                 *)
LoseBuffer ==
    /\ console' = [console EXCEPT !.text = <<>>, !.turn = 0]
    /\ said' = SubSeq(said, 1, Len(said) - Len(console.text))
    /\ UNCHANGED part
=============================================================================
