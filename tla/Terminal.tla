------------------------------- MODULE Terminal -------------------------------
(***************************************************************************)
(* The terminal of one Session: class TerminalManager of                   *)
(* app/services/terminal.py.  One shell per Session, started by a task     *)
(* when a client attaches, read by another, stopped with its generation.   *)
(*                                                                         *)
(* Only one _TerminalState is in use at a time: stop_session removes it,   *)
(* and attach is refused until the generation that stop_session serves has *)
(* ended.  So a removed state is the same record with stop # "none".  The  *)
(* manager's lock is never held across a suspension.  The text of the      *)
(* terminal and the window size are left out.                              *)
(***************************************************************************)
EXTENDS Integers, FiniteSets

CONSTANTS
    Client,     \* terminal connections
    MaxGen      \* bound of the model on runtime_generation

ASSUME TerminalAssumption == IsFiniteSet(Client) /\ MaxGen \in Nat

VARIABLES
    term,      \* _TerminalState
    ws,        \* the WebSocket of every Client
    leases,    \* terminal_lease_ids of the Session's Runtime
    late       \* history: who attached while a cancelled start unwound

terminalVars == <<term, ws, leases, late>>

Generation == 0..MaxGen

(* start: _start_shell, by where it is suspended: before activate, in      *)
(* activate while an earlier generation is cleaned up, in                  *)
(* wait_until_ready, in launch, failed with its leases released, or        *)
(* cancelled and not yet done.  target: the generation it launches in.     *)
(* reader: _read_output; "telling" between its release of the leases of    *)
(* left and its broadcast.  stop: stop_session, while it terminates the    *)
(* shell and then while it waits for the tasks.                            *)
TerminalState ==
    [clients : SUBSET Client,
     start   : {"none", "new", "reclaiming", "waiting", "launching", "failed",
                "cancelled"},
     target  : Generation,
     shell   : Generation,                  \* shell_generation, 0: no process
     reader  : {"none", "reading", "telling"},
     left    : SUBSET Client,
     stop    : {"none", "shell", "tasks"}]

TerminalInit ==
    /\ term = [clients |-> {}, start |-> "none", target |-> 0, shell |-> 0,
               reader |-> "none", left |-> {}, stop |-> "none"]
    /\ ws = [c \in Client |-> "away"]
    /\ leases = {}
    /\ late = {}

(* _broadcast of "closed" or "error": the sockets of the clients close.    *)
Tell(C) == [c \in Client |-> IF c \in C THEN "told" ELSE ws[c]]

Cancelled(start) == IF start = "none" THEN "none" ELSE "cancelled"

-----------------------------------------------------------------------------
(* Mutant: a client that finds a shell takes no lease.                     *)
AttachLeaseOnStart(c) ==
    /\ ws[c] = "away" /\ term.stop = "none"
    /\ ws' = [ws EXCEPT ![c] = "attached"]
    /\ leases' = IF term.shell = 0 THEN leases \cup {c} ELSE leases
    /\ late' = IF term.start = "cancelled" THEN late \cup {c} ELSE late \ {c}
    /\ term' = [term EXCEPT !.clients = @ \cup {c},
                            !.start = IF term.shell = 0 /\ @ = "none" THEN "new" ELSE @]

(* attach: takes a lease, and starts a shell unless there is one or a      *)
(* start task that is not done.                                            *)
Attach(c) ==
    /\ ws[c] = "away" /\ term.stop = "none"
    /\ ws' = [ws EXCEPT ![c] = "attached"]
    /\ leases' = leases \cup {c}
    /\ late' = IF term.start = "cancelled" THEN late \cup {c} ELSE late \ {c}
    /\ term' = [term EXCEPT !.clients = @ \cup {c},
                            !.start = IF term.shell = 0 /\ @ = "none" THEN "new" ELSE @]

(* Mutant: whether there is a lease is asked after the client is removed.  *)
DetachForgets(c) ==
    /\ ws[c] # "away"
    /\ ws' = [ws EXCEPT ![c] = "away"]
    /\ late' = late \ {c}
    /\ UNCHANGED leases
    /\ term' = IF term.stop # "none" THEN term
               ELSE [term EXCEPT !.clients = @ \ {c},
                       !.start = IF term.clients \subseteq {c} /\ term.shell = 0
                                 THEN Cancelled(@) ELSE @]

(* detach: the last client to leave cancels a start.                       *)
Detach(c) ==
    /\ ws[c] # "away"
    /\ ws' = [ws EXCEPT ![c] = "away"]
    /\ late' = late \ {c}
    /\ IF term.stop # "none" THEN UNCHANGED <<term, leases>>
       ELSE /\ leases' = leases \ ({c} \cap term.clients)
            /\ term' = [term EXCEPT !.clients = @ \ {c},
                          !.start = IF term.clients \subseteq {c} /\ term.shell = 0
                                    THEN Cancelled(@) ELSE @]

-----------------------------------------------------------------------------
(* _start_shell                                                            *)
StartActivated ==
    /\ term.start = "new"
    /\ term' = [term EXCEPT !.start = "waiting"]
    /\ UNCHANGED <<ws, leases, late>>

(* activate begins the cleanup of an earlier generation and waits for it.  *)
(* It never goes on from there: that cleanup stops this very start.        *)
StartReclaims ==
    /\ term.start = "new"
    /\ term' = [term EXCEPT !.start = "reclaiming"]
    /\ UNCHANGED <<ws, leases, late>>

TargetFound(g) ==
    /\ term.start = "waiting"
    /\ term' = [term EXCEPT !.start = IF term.clients = {} THEN "none" ELSE "launching",
                            !.target = g]
    /\ UNCHANGED <<ws, leases, late>>

(* The reader of an earlier shell is one turn of the loop from its end.    *)
LaunchReturns ==
    /\ term.start = "launching" /\ term.reader = "none"
    /\ term' = IF term.clients = {} THEN [term EXCEPT !.start = "none"]
               ELSE [term EXCEPT !.start = "none", !.shell = term.target, !.reader = "reading"]
    /\ UNCHANGED <<ws, leases, late>>

(* An exception: the leases are released, then the clients are told.       *)
StartErrs ==
    /\ term.start \in {"new", "waiting", "launching"}
    /\ term' = [term EXCEPT !.start = "failed"]
    /\ leases' = leases \ term.clients
    /\ UNCHANGED <<ws, late>>

(* Mutant: the error is broadcast to nobody.                               *)
StartFailsSilently ==
    /\ term.start = "failed"
    /\ term' = [term EXCEPT !.start = "none"]
    /\ UNCHANGED <<ws, leases, late>>

StartFailTold ==
    /\ term.start = "failed"
    /\ ws' = Tell(term.clients)
    /\ term' = [term EXCEPT !.start = "none"]
    /\ UNCHANGED <<leases, late>>

(* The finally block of a cancelled start, which may have had to wait for  *)
(* the process it was launching: it releases the leases of whoever is      *)
(* attached by then.                                                       *)
StartUnwinds ==
    /\ term.start = "cancelled"
    /\ term' = [term EXCEPT !.start = "none"]
    /\ leases' = leases \ term.clients
    /\ UNCHANGED <<ws, late>>

(* Mutant: the shell of the ended process is not forgotten.                *)
ShellExitsKept ==
    /\ term.reader = "reading" /\ term.stop = "none"
    /\ term' = [term EXCEPT !.reader = "telling", !.left = term.clients]
    /\ UNCHANGED <<ws, leases, late>>

(* _read_output: the shell has ended.                                      *)
ShellExits ==
    /\ term.reader = "reading" /\ term.stop = "none"
    /\ term' = [term EXCEPT !.shell = 0, !.reader = "telling", !.left = term.clients]
    /\ UNCHANGED <<ws, leases, late>>

ReaderTells ==
    /\ term.reader = "telling"
    /\ leases' = leases \ term.left
    /\ ws' = IF term.stop = "none" THEN Tell(term.clients) ELSE ws
    /\ term' = [term EXCEPT !.reader = "none", !.left = {}]
    /\ UNCHANGED late

-----------------------------------------------------------------------------
(* stop_session                                                            *)

(* Mutant: only the shell is stopped, the start task goes on.              *)
StopKeepsStart ==
    /\ term.stop = "none"
    /\ term' = [term EXCEPT !.stop = "shell"]
    /\ ws' = Tell(term.clients)
    /\ UNCHANGED <<leases, late>>

StopBegins ==
    /\ term.stop = "none"
    /\ term' = [term EXCEPT !.stop = "shell", !.start = Cancelled(@)]
    /\ ws' = Tell(term.clients)
    /\ UNCHANGED <<leases, late>>

ShellTerminated ==
    /\ term.stop = "shell"
    /\ term' = [term EXCEPT !.stop = "tasks", !.shell = 0,
                            !.reader = IF @ = "reading" THEN "none" ELSE @]
    /\ UNCHANGED <<ws, leases, late>>

StopEnds ==
    /\ term.stop = "tasks" /\ term.start # "cancelled" /\ term.reader # "telling"
    /\ leases' = leases \ term.clients
    /\ term' = [term EXCEPT !.stop = "none", !.clients = {}]
    /\ UNCHANGED <<ws, late>>
=============================================================================
