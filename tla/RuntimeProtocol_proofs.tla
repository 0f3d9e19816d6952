------------------------ MODULE RuntimeProtocol_proofs ------------------------
(***************************************************************************)
(* Proofs about RuntimeProtocol, for every number of Turns, requests,      *)
(* controls and messages in flight, every set of faults and every budget:  *)
(* all its invariants and both action properties that TLC checks, from one *)
(* inductive invariant, IInv.                                              *)
(*                                                                         *)
(* Messages carry no more than a type and an id, so what keeps the         *)
(* protocol in order is that one thing is under way at a time: one request *)
(* of Core between its question and the answer (Asks), one Turn or control *)
(* between its command and its reply (Works), and the end of a Turn before *)
(* whatever Core asks next (Finishes).  Clocks is what the readiness loop  *)
(* knows of time.                                                          *)
(***************************************************************************)
EXTENDS RuntimeProtocol, TLAPS

-----------------------------------------------------------------------------
(* The inductive invariant.                                                *)
UpMessage ==
    [type : {"ready", "trust", "permission", "finished", "reply", "refused",
             "closed", "garbage"}, id : Nat]

DownMessage ==
    [type : {"turn", "control", "answer", "close"}, id : Nat, for : Nat]

Queues == up \in Seq(UpMessage) /\ down \in Seq(DownMessage)

IsAsk(m) == m.type \in {"trust", "permission"}
IsAnswer(m) == m.type = "answer"
IsWork(m) == m.type \in {"turn", "control"}
IsReply(m) == m.type \in {"reply", "refused"}

Deaf == core.at \in {"closed", "gone"}

(* The status follows the finalizer; while the start waits the Runtime is  *)
(* starting or asks for trust; a Turn and a control exclude each other.    *)
Phases ==
    /\ rt.status = "stopping" <=> rt.fin \in {"waiting", "closing", "killing", "reaped"}
    /\ rt.status \in {"stopped", "error"} <=> rt.fin = "ended"
    /\ rt.fin \in {"reaped", "ended"} => ~Live
    /\ rt.fin = "ended" => /\ reader = "ended"
                           /\ rt.turn = 0 /\ rt.control = 0
                           /\ rt.perm = 0 /\ rt.trust = 0
                           /\ shown = rt.status
    /\ rt.fin \notin {"none", "waiting"} => start.at = "ended"
    /\ rt.turn <= rt.turns /\ rt.control <= Len(controls)
    /\ rt.turn # 0 => rt.control = 0
    /\ rt.fin = "none" =>
         /\ rt.perm # 0 <=> rt.status = "waiting_permission"
         /\ rt.trust # 0 <=> rt.status = "waiting_mcp_trust"
         /\ rt.trust # 0 => rt.resume \in {"starting", "idle", "running"}
         /\ start.at = "waiting" => /\ rt.status \in {"starting", "waiting_mcp_trust"}
                                    /\ rt.trust # 0 => rt.resume = "starting"
                                    /\ rt.turn = start.turn
                                    /\ rt.control = 0
         /\ start.at = "ended" /\ rt.turn # 0 => rt.busy

(* given is the time that has passed without a pause; a check that found   *)
(* the Runtime starting found no pause under way.                          *)
Clocks ==
    IF start.at = "ended"
    THEN clock = 0 /\ (rt.fin = "none" /\ rt.pause # NoTime => rt.pause = 0)
    ELSE LET since == IF rt.pause = NoTime THEN clock ELSE rt.pause IN
         /\ since <= clock
         /\ rt.paused <= since
         /\ start.given = since - rt.paused
         /\ start.seen <= rt.paused /\ start.last <= clock
         /\ start.used <= start.given
         /\ start.counted => /\ start.used <= start.last - start.seen
                             /\ rt.paused - start.seen <= since - start.last
         /\ start.counted /\ ~start.woken => rt.pause = NoTime /\ start.seen = rt.paused

(* One request at a time, unread, pending or answered.                     *)
Asks ==
    /\ \A i \in DOMAIN up : IsAsk(up[i]) =>
         /\ up[i].id \in Request
         /\ core.ask = up[i].id \/ Deaf
         /\ rt.perm = 0 /\ rt.trust = 0
         /\ \A j \in DOMAIN up : IsAsk(up[j]) => j = i
         /\ \A k \in DOMAIN down : ~IsAnswer(down[k])
    /\ \A p \in {rt.perm, rt.trust} : p # 0 =>
         /\ core.ask = p \/ Deaf
         /\ \A k \in DOMAIN down : ~IsAnswer(down[k])
    /\ rt.perm = 0 \/ rt.trust = 0
    /\ \A k \in DOMAIN down : IsAnswer(down[k]) =>
         /\ down[k].id \in Request /\ down[k].for = down[k].id
         /\ core.ask = down[k].id \/ Deaf
         /\ \A l \in DOMAIN down : IsAnswer(down[l]) => l = k
    /\ Deaf => core.ask = 0
    /\ core.ask <= core.asks

(* Of a Turn or a control that is under way.                               *)
Bound(kind, id) ==
    IF kind = "turn"
    THEN /\ id \in Turn \ core.done /\ id <= rt.turns
         /\ rt.fin = "none" => id = rt.turn
    ELSE /\ id \in 1..Len(controls)
         /\ rt.control = id \/ (rt.control = 0 /\ rt.fin # "none")

NoReply == \A i \in DOMAIN up : ~IsReply(up[i])

(* One Turn or control at a time: written, read, at work, or replied to.   *)
Works ==
    /\ \A k \in DOMAIN down : IsWork(down[k]) =>
         /\ Bound(down[k].type, down[k].id)
         /\ core.next = "none" /\ core.at \notin {"turn", "control"} /\ NoReply
         /\ \A l \in DOMAIN down : IsWork(down[l]) => l = k
    /\ core.next # "none" =>
         /\ Bound(core.next, core.id)
         /\ core.at \notin {"turn", "control"} /\ NoReply
    /\ core.at \in {"turn", "control"} => Bound(core.at, core.job) /\ NoReply
    /\ \A i \in DOMAIN up : IsReply(up[i]) =>
         /\ Bound("control", up[i].id)
         /\ \A j \in DOMAIN up : IsReply(up[j]) => j = i
    /\ core.done \subseteq 1..rt.turns

(* Before the first command Core has nothing to work at.                   *)
Unstarted ==
    start.at = "waiting" =>
        /\ \A k \in DOMAIN down : ~IsWork(down[k])
        /\ core.next = "none" /\ core.at \notin {"turn", "control"}
        /\ \A i \in DOMAIN up : up[i].type \notin {"permission", "finished"}
        /\ NoReply
        /\ core.done = {}

(* The end of the active Turn is read before what Core asks after it.      *)
Finishes ==
    /\ \A i \in DOMAIN up : up[i].type = "finished" => up[i].id \in core.done
    /\ rt.fin = "none" /\ rt.turn \in core.done =>
         /\ rt.perm = 0 /\ rt.trust = 0
         /\ \E i \in DOMAIN up :
              /\ up[i].type = "finished" /\ up[i].id = rt.turn
              /\ \A j \in 1..i : ~IsAsk(up[j])

(* A status that is not shown is about to be.                              *)
Publishing ==
    Live /\ ~Finalizing /\ shown # rt.status =>
        [turn |-> rt.turn, status |-> rt.status] \in resolving

IInv ==
    /\ TypeOK
    /\ Queues
    /\ Phases
    /\ Clocks
    /\ Asks
    /\ RequestsAnswerable
    /\ Works
    /\ Unstarted
    /\ Finishes
    /\ ControlGetsItsReply
    /\ Publishing

-----------------------------------------------------------------------------
(* The queues.                                                             *)
LEMMA Appended ==
    ASSUME NEW S, NEW q \in Seq(S), NEW e \in S
    PROVE  /\ Append(q, e) \in Seq(S) /\ Len(Append(q, e)) = Len(q) + 1
           /\ DOMAIN Append(q, e) = DOMAIN q \cup {Len(q) + 1}
           /\ Len(q) + 1 \notin DOMAIN q
           /\ Append(q, e)[Len(q) + 1] = e
           /\ \A i \in DOMAIN q : Append(q, e)[i] = q[i]
OBVIOUS

LEMMA Tailed ==
    ASSUME NEW S, NEW q \in Seq(S), q # <<>>
    PROVE  /\ Head(q) \in S /\ Head(q) = q[1] /\ 1 \in DOMAIN q
           /\ Tail(q) \in Seq(S) /\ Len(Tail(q)) = Len(q) - 1
           /\ \A i \in DOMAIN Tail(q) : i + 1 \in DOMAIN q /\ Tail(q)[i] = q[i + 1]
           /\ \A j \in DOMAIN q : j # 1 =>
                j - 1 \in DOMAIN Tail(q) /\ Tail(q)[j - 1] = q[j]
OBVIOUS

LEMMA TypeFacts ==
    ASSUME TypeOK
    PROVE  /\ rt.turn \in Nat /\ rt.turns \in Nat /\ rt.perm \in Nat
           /\ rt.trust \in Nat /\ rt.control \in Nat /\ rt.paused \in Nat
           /\ rt.pause \in Nat \cup {NoTime} /\ NoTime \in Int \ Nat
           /\ start.turn \in Nat /\ start.used \in Nat /\ start.last \in Nat
           /\ start.seen \in Nat /\ start.given \in Nat /\ clock \in Nat
           /\ core.job \in Nat /\ core.id \in Nat /\ core.ask \in Nat
           /\ core.asks \in Nat /\ core.done \subseteq Turn
           /\ MaxUp \in Nat /\ MaxTurn \in Nat /\ MaxAsk \in Nat
           /\ MaxControl \in Nat /\ MaxClock \in Nat /\ Budget \in Nat
           /\ 0 \in 0..MaxTurn /\ 0 \in 0..MaxAsk /\ 0 \in 0..MaxControl
           /\ 0 \in 0..(MaxTurn + MaxControl) /\ 0 \in Time
<1>1. /\ MaxUp \in Nat /\ MaxTurn \in Nat /\ MaxAsk \in Nat
      /\ MaxControl \in Nat /\ MaxClock \in Nat /\ Budget \in Nat
  BY ProtocolAssumption
<1>2. /\ rt.turn \in Nat /\ rt.turns \in Nat /\ rt.perm \in Nat
      /\ rt.trust \in Nat /\ rt.control \in Nat /\ rt.paused \in Nat
      /\ rt.pause \in Nat \cup {NoTime} /\ NoTime \in Int \ Nat
  BY <1>1 DEF TypeOK, Runtime, Time, NoTime
<1>3. /\ start.turn \in Nat /\ start.used \in Nat /\ start.last \in Nat
      /\ start.seen \in Nat /\ start.given \in Nat /\ clock \in Nat
  BY <1>1 DEF TypeOK, Start, Time
<1>4. /\ core.job \in Nat /\ core.id \in Nat /\ core.ask \in Nat
      /\ core.asks \in Nat /\ core.done \subseteq Turn
  BY <1>1 DEF TypeOK, Core
<1> QED
  BY <1>1, <1>2, <1>3, <1>4 DEF Time

LEMMA ControlsFacts ==
    ASSUME TypeOK
    PROVE  /\ Len(controls) \in Nat /\ Len(controls) <= MaxControl
           /\ 1..Len(controls) \subseteq 1..MaxControl
           /\ DOMAIN controls = 1..Len(controls)
<1>1. controls \in Seq(ControlCall) /\ Len(controls) <= MaxControl
  BY DEF TypeOK
<1>2. Len(controls) \in Nat /\ DOMAIN controls = 1..Len(controls)
  BY <1>1
<1>3. 1..Len(controls) \subseteq 1..MaxControl
  BY <1>1, <1>2, TypeFacts
<1> QED
  BY <1>1, <1>2, <1>3

(* A message of Core is the last one of up.                                *)
LEMMA Emitted ==
    ASSUME TypeOK, Queues, NEW id \in Nat,
           NEW type \in {"ready", "trust", "permission", "finished", "reply",
                         "refused", "closed", "garbage"},
           Emit(type, id)
    PROVE  /\ Live /\ up' \in Seq(UpMessage) /\ Len(up') <= MaxUp
           /\ Len(up) \in Nat /\ DOMAIN up = 1..Len(up)
           /\ DOMAIN up' = DOMAIN up \cup {Len(up) + 1}
           /\ Len(up) + 1 \notin DOMAIN up
           /\ up'[Len(up) + 1] = [type |-> type, id |-> id]
           /\ \A i \in DOMAIN up : up'[i] = up[i]
<1>1. [type |-> type, id |-> id] \in UpMessage
  BY DEF UpMessage
<1>2. /\ Append(up, [type |-> type, id |-> id]) \in Seq(UpMessage)
      /\ Len(Append(up, [type |-> type, id |-> id])) = Len(up) + 1
  BY <1>1, Appended DEF Queues
<1>3. Len(up') <= MaxUp
  BY <1>2, TypeFacts DEF Emit, Queues
<1> QED
  BY <1>1, <1>3, Appended DEF Emit, Queues

(* What Core does to its own state leaves the manager as it is.            *)
LEMMA CoreFrame ==
    ASSUME IInv, Live, UNCHANGED managerVars, core' \in Core,
           up' \in Seq(UpMessage), Len(up') <= MaxUp, down' \in Seq(DownMessage)
    PROVE  /\ TypeOK' /\ Queues' /\ Phases' /\ Clocks'
           /\ ControlGetsItsReply' /\ Publishing'
<1>1. TypeOK' /\ Queues'
  BY DEF IInv, TypeOK, Queues, managerVars
<1>2. Phases' /\ Clocks'
  BY DEF IInv, Phases, Clocks, managerVars, Live
<1>3. ControlGetsItsReply' /\ Publishing'
  BY DEF IInv, ControlGetsItsReply, Publishing, Finalizing, managerVars, Live
<1> QED
  BY <1>1, <1>2, <1>3

(* A message that follows the end of a Turn changes nothing of it.         *)
LEMMA FinishesKept ==
    ASSUME IInv, NEW n, n \notin DOMAIN up, DOMAIN up' = DOMAIN up \cup {n},
           \A i \in DOMAIN up : up'[i] = up[i],
           up'[n].type = "finished" => up'[n].id \in core.done,
           rt' = rt, core'.done = core.done
    PROVE  Finishes'
<1>1. \A i \in DOMAIN up : \A j \in 1..i : j \in DOMAIN up
  BY DEF IInv, Queues
<1>2. \A i \in DOMAIN up' : up'[i].type = "finished" => up'[i].id \in core.done
  BY DEF IInv, Finishes
<1>3. ASSUME rt.fin = "none", rt.turn \in core.done
      PROVE  /\ rt.perm = 0 /\ rt.trust = 0
             /\ \E i \in DOMAIN up' :
                  /\ up'[i].type = "finished" /\ up'[i].id = rt.turn
                  /\ \A j \in 1..i : ~IsAsk(up'[j])
  BY <1>1, <1>3 DEF IInv, Finishes
<1> QED
  BY <1>2, <1>3 DEF Finishes

LEMMA CoreAsksKeeps == ASSUME IInv, CoreAsks PROVE IInv'
<1>1. PICK type \in {"trust", "permission"} :
         /\ Emit(type, core.asks + 1)
         /\ type = "trust" => core.at \in {"booting", "idle"}
         /\ type = "permission" => core.at = "turn"
  BY DEF CoreAsks
<1>2. /\ core' \in Core /\ core'.ask = core.asks + 1 /\ core'.asks = core.asks + 1
      /\ core'.at = core.at /\ core'.next = core.next /\ core'.id = core.id
      /\ core'.job = core.job /\ core'.done = core.done
  <2>1. core.asks + 1 \in 0..MaxAsk
    BY TypeFacts DEF CoreAsks, IInv
  <2> QED
    BY <2>1 DEF CoreAsks, IInv, TypeOK, Core
<1>3. UNCHANGED managerVars /\ UNCHANGED down /\ core.ask = 0
  BY DEF CoreAsks
<1> DEFINE n == Len(up) + 1
<1>4. /\ Live /\ up' \in Seq(UpMessage) /\ Len(up') <= MaxUp
      /\ Len(up) \in Nat /\ DOMAIN up = 1..Len(up)
      /\ DOMAIN up' = DOMAIN up \cup {n} /\ n \notin DOMAIN up
      /\ up'[n] = [type |-> type, id |-> core.asks + 1]
      /\ \A i \in DOMAIN up : up'[i] = up[i]
  <2>1. core.asks + 1 \in Nat
    BY TypeFacts DEF IInv
  <2> QED
    BY <1>1, <2>1, Emitted DEF IInv
<1> HIDE DEF n
<1>5. TypeOK' /\ Queues' /\ Phases' /\ Clocks' /\ ControlGetsItsReply' /\ Publishing'
  BY <1>2, <1>3, <1>4, CoreFrame DEF IInv, Queues
<1>6. /\ ~Deaf /\ rt.perm = 0 /\ rt.trust = 0
      /\ \A i \in DOMAIN up : ~IsAsk(up[i])
      /\ \A k \in DOMAIN down : ~IsAnswer(down[k])
  BY <1>1, <1>3, TypeFacts DEF IInv, Asks, Request, Deaf
<1>7. Asks'
  <2>1. core.asks + 1 \in Request /\ core'.ask = core.asks + 1
    BY <1>2, <1>3, TypeFacts DEF CoreAsks, IInv, Request
  <2>2. ~Deaf' /\ rt' = rt /\ down' = down
    BY <1>2, <1>3, <1>6 DEF Deaf, managerVars
  <2>3. \A i \in DOMAIN up' : IsAsk(up'[i]) => i = n
    BY <1>4, <1>6
  <2>4. up'[n].id = core.asks + 1
    BY <1>4
  <2> QED
    BY <1>2, <1>6, <2>1, <2>2, <2>3, <2>4, TypeFacts DEF IInv, Asks, IsAnswer
<1>8. RequestsAnswerable'
  <2>1. Unread(core.ask)'
    BY <1>1, <1>2, <1>3, <1>4 DEF Unread
  <2> QED
    BY <1>2, <1>3, <1>6, <2>1 DEF IInv, RequestsAnswerable, managerVars, IsAnswer
<1>9. Works'
  BY <1>1, <1>2, <1>3, <1>4 DEF IInv, Works, Bound, NoReply, IsReply, managerVars
<1>10. Unstarted'
  BY <1>1, <1>2, <1>3, <1>4 DEF IInv, Unstarted, NoReply, IsReply, managerVars
<1>11. Finishes'
  BY <1>1, <1>2, <1>3, <1>4, FinishesKept DEF managerVars
<1> QED
  BY <1>5, <1>7, <1>8, <1>9, <1>10, <1>11 DEF IInv

LEMMA CoreReadyKeeps == ASSUME IInv, CoreReady PROVE IInv'
<1> DEFINE n == Len(up) + 1
<1>1. /\ Live /\ up' \in Seq(UpMessage) /\ Len(up') <= MaxUp
      /\ Len(up) \in Nat /\ DOMAIN up = 1..Len(up)
      /\ DOMAIN up' = DOMAIN up \cup {n} /\ n \notin DOMAIN up
      /\ up'[n] = [type |-> "ready", id |-> 0]
      /\ \A i \in DOMAIN up : up'[i] = up[i]
  <2>1. Emit("ready", 0)
    BY DEF CoreReady
  <2> QED
    BY <2>1, Emitted DEF IInv
<1> HIDE DEF n
<1>2. /\ core' \in Core /\ core.at = "booting" /\ core'.at = "idle"
      /\ core'.ask = core.ask /\ core'.asks = core.asks
      /\ core'.next = core.next /\ core'.id = core.id
      /\ core'.job = core.job /\ core'.done = core.done
  BY DEF CoreReady, IInv, TypeOK, Core
<1>3. UNCHANGED managerVars /\ UNCHANGED down
  BY DEF CoreReady
<1>4. /\ TypeOK' /\ Queues' /\ Phases' /\ Clocks'
      /\ ControlGetsItsReply' /\ Publishing'
  BY <1>1, <1>2, <1>3, CoreFrame DEF IInv, Queues
<1>5. Asks' /\ RequestsAnswerable'
  BY <1>1, <1>2, <1>3 DEF IInv, Asks, RequestsAnswerable, Unread, IsAsk, Deaf,
     managerVars
<1>6. Works' /\ Unstarted'
  <2>1. Works'
    BY <1>1, <1>2, <1>3 DEF IInv, Works, Bound, NoReply, IsReply, managerVars
  <2>2. Unstarted'
    BY <1>1, <1>2, <1>3 DEF IInv, Unstarted, NoReply, IsReply, managerVars
  <2> QED
    BY <2>1, <2>2
<1>7. Finishes'
  BY <1>1, <1>2, <1>3, FinishesKept DEF managerVars
<1> QED
  BY <1>4, <1>5, <1>6, <1>7 DEF IInv

LEMMA CoreBeginsKeeps == ASSUME IInv, CoreBegins PROVE IInv'
<1>1. /\ core' \in Core /\ core.at = "idle" /\ core.next # "none"
      /\ core'.at = core.next /\ core'.job = core.id /\ core'.next = "none"
      /\ core'.ask = core.ask /\ core'.asks = core.asks /\ core'.done = core.done
  <2>1. core.id \in 0..(MaxTurn + MaxControl) /\ 0 \in 0..(MaxTurn + MaxControl)
    BY TypeFacts DEF IInv, TypeOK, Core
  <2> QED
    BY <2>1 DEF CoreBegins, IInv, TypeOK, Core
<1>2. UNCHANGED managerVars /\ UNCHANGED <<up, down>> /\ Live
  BY <1>1 DEF CoreBegins, Live
<1>3. /\ TypeOK' /\ Queues' /\ Phases' /\ Clocks'
      /\ ControlGetsItsReply' /\ Publishing'
  BY <1>1, <1>2, CoreFrame DEF IInv, TypeOK, Queues
<1>4. core.next \in {"turn", "control"}
  BY <1>1 DEF IInv, TypeOK, Core
<1>5. Asks' /\ RequestsAnswerable'
  BY <1>1, <1>2, <1>4 DEF IInv, Asks, RequestsAnswerable, Unread, Deaf, managerVars
<1>6. Works' /\ Unstarted'
  BY <1>1, <1>2, <1>4 DEF IInv, Works, Unstarted, Bound, NoReply, managerVars
<1>7. Finishes'
  BY <1>1, <1>2 DEF IInv, Finishes, managerVars
<1> QED
  BY <1>3, <1>5, <1>6, <1>7 DEF IInv

LEMMA CoreFinishesKeeps == ASSUME IInv, CoreFinishes PROVE IInv'
<1> DEFINE n == Len(up) + 1
<1>1. /\ Live /\ up' \in Seq(UpMessage) /\ Len(up') <= MaxUp
      /\ Len(up) \in Nat /\ DOMAIN up = 1..Len(up)
      /\ DOMAIN up' = DOMAIN up \cup {n} /\ n \notin DOMAIN up
      /\ up'[n] = [type |-> "finished", id |-> core.job]
      /\ \A i \in DOMAIN up : up'[i] = up[i]
  BY Emitted, TypeFacts DEF CoreFinishes, IInv
<1>2. DOMAIN up' = 1..n /\ n \in Nat
  BY <1>1
<1> HIDE DEF n
<1>3. /\ core.at = "turn" /\ core.ask = 0
      /\ core.job \in Turn \ core.done /\ core.job <= rt.turns
      /\ rt.fin = "none" => core.job = rt.turn
  BY DEF CoreFinishes, IInv, Works, Bound
<1>4. /\ core' \in Core /\ core'.at = "idle" /\ core'.next = core.next
      /\ core'.id = core.id /\ core'.ask = core.ask /\ core'.asks = core.asks
      /\ core'.done = core.done \cup {core.job}
  <2>1. 0 \in 0..(MaxTurn + MaxControl) /\ core.done \cup {core.job} \subseteq Turn
    BY <1>3, TypeFacts DEF IInv
  <2> QED
    BY <2>1 DEF CoreFinishes, IInv, TypeOK, Core
<1>5. UNCHANGED managerVars /\ UNCHANGED down
  BY DEF CoreFinishes
<1>6. /\ TypeOK' /\ Queues' /\ Phases' /\ Clocks'
      /\ ControlGetsItsReply' /\ Publishing'
  BY <1>1, <1>4, <1>5, CoreFrame DEF IInv, Queues
<1>7. Asks' /\ RequestsAnswerable'
  BY <1>1, <1>3, <1>4, <1>5
     DEF IInv, Asks, RequestsAnswerable, Unread, IsAsk, Deaf, managerVars
<1>8. Works'
  <2>1. core.next = "none" /\ \A k \in DOMAIN down : ~IsWork(down[k])
    BY <1>3 DEF IInv, Works
  <2>2. NoReply'
    BY <1>1, <1>3 DEF IInv, Works, NoReply, IsReply
  <2>3. core'.done \subseteq 1..rt.turns
    BY <1>3, <1>4, TypeFacts DEF IInv, Works, Turn
  <2> QED
    BY <1>4, <1>5, <2>1, <2>2, <2>3 DEF Works, NoReply, managerVars
<1>9. Unstarted'
  BY <1>3, <1>5 DEF IInv, Unstarted, managerVars
<1>10. Finishes'
  <2>1. \A i \in DOMAIN up' : up'[i].type = "finished" => up'[i].id \in core'.done
    BY <1>1, <1>4 DEF IInv, Finishes
  <2>2. ASSUME rt.fin = "none", rt.turn \in core'.done
        PROVE  /\ rt.perm = 0 /\ rt.trust = 0 /\ up'[n].type = "finished"
               /\ up'[n].id = rt.turn /\ \A j \in 1..n : ~IsAsk(up'[j])
    <3>1. \A i \in DOMAIN up : ~IsAsk(up[i])
      BY <1>3, TypeFacts DEF IInv, Asks, Request, Deaf
    <3>2. \A j \in DOMAIN up' : ~IsAsk(up'[j])
      BY <1>1, <3>1 DEF IsAsk
    <3>3. rt.perm = 0 /\ rt.trust = 0
      BY <1>3 DEF IInv, Asks, Deaf
    <3> QED
      BY <1>1, <1>2, <1>3, <2>2, <3>2, <3>3
  <2> QED
    BY <1>1, <1>5, <2>1, <2>2 DEF Finishes, managerVars
<1> QED
  BY <1>6, <1>7, <1>8, <1>9, <1>10 DEF IInv

LEMMA CoreRepliesKeeps == ASSUME IInv, CoreReplies PROVE IInv'
<1> DEFINE n == Len(up) + 1
<1>1. PICK type \in {"reply", "refused"} : Emit(type, core.job)
  BY DEF CoreReplies
<1>2. /\ Live /\ up' \in Seq(UpMessage) /\ Len(up') <= MaxUp
      /\ Len(up) \in Nat /\ DOMAIN up = 1..Len(up)
      /\ DOMAIN up' = DOMAIN up \cup {n} /\ n \notin DOMAIN up
      /\ up'[n] = [type |-> type, id |-> core.job]
      /\ \A i \in DOMAIN up : up'[i] = up[i]
  BY <1>1, Emitted, TypeFacts DEF IInv
<1> HIDE DEF n
<1>3. /\ core' \in Core /\ core.at = "control" /\ core'.at = "idle"
      /\ core'.next = core.next /\ core'.id = core.id
      /\ core'.ask = core.ask /\ core'.asks = core.asks
      /\ core'.done = core.done
  <2>1. 0 \in 0..(MaxTurn + MaxControl)
    BY TypeFacts DEF IInv
  <2> QED
    BY <2>1 DEF CoreReplies, IInv, TypeOK, Core
<1>4. UNCHANGED managerVars /\ UNCHANGED down
  BY DEF CoreReplies
<1>5. /\ TypeOK' /\ Queues' /\ Phases' /\ Clocks'
      /\ ControlGetsItsReply' /\ Publishing'
  BY <1>2, <1>3, <1>4, CoreFrame DEF IInv, Queues
<1>6. Asks' /\ RequestsAnswerable'
  BY <1>2, <1>3, <1>4
     DEF IInv, Asks, RequestsAnswerable, Unread, IsAsk, Deaf, managerVars
<1>7. Works' /\ Unstarted'
  <2>1. core.next = "none" /\ \A k \in DOMAIN down : ~IsWork(down[k])
    BY <1>3 DEF IInv, Works
  <2>2. Bound("control", core.job) /\ \A i \in DOMAIN up : ~IsReply(up[i])
    BY <1>3 DEF IInv, Works, NoReply
  <2>3. \A kind, id : Bound(kind, id)' <=> Bound(kind, id)
    BY <1>3, <1>4 DEF Bound, managerVars
  <2>4. \A i \in DOMAIN up' : IsReply(up'[i]) => i = n /\ up'[i].id = core.job
    BY <1>2, <2>2 DEF IsReply
  <2>5. Works'
    BY <1>3, <1>4, <2>1, <2>2, <2>3, <2>4 DEF IInv, Works, managerVars
  <2>6. Unstarted'
    BY <1>3, <1>4 DEF IInv, Unstarted, managerVars
  <2> QED
    BY <2>5, <2>6
<1>8. Finishes'
  BY <1>2, <1>3, <1>4, FinishesKept DEF managerVars
<1> QED
  BY <1>5, <1>6, <1>7, <1>8 DEF IInv

(* Core reads a message: the queue moves up by one.                        *)
LEMMA CoreReadsKeeps == ASSUME IInv, CoreReads PROVE IInv'
<1> DEFINE m == Head(down)
<1>1. /\ core.at \notin {"closed", "gone"} /\ down # <<>> /\ down' = Tail(down)
      /\ UNCHANGED managerVars
  BY DEF CoreReads
<1>2. /\ m \in DownMessage /\ 1 \in DOMAIN down /\ m = down[1]
      /\ down' \in Seq(DownMessage)
      /\ \A k \in DOMAIN down' : k + 1 \in DOMAIN down /\ down'[k] = down[k + 1]
      /\ \A k \in DOMAIN down : k # 1 => k - 1 \in DOMAIN down' /\ down'[k - 1] = down[k]
      /\ DOMAIN down' \subseteq Nat \ {0}
  BY <1>1, Tailed DEF IInv, Queues
<1>3. Live /\ ~Deaf
  BY <1>1 DEF Live, Deaf
<1> HIDE DEF m
<1>8. /\ \A k \in DOMAIN down' : IsAnswer(down'[k]) =>
            /\ down'[k].id \in Request /\ down'[k].for = down'[k].id
            /\ core.ask = down'[k].id
            /\ rt.perm = 0 /\ rt.trust = 0
            /\ \A i \in DOMAIN up : ~IsAsk(up[i])
      /\ \A k, l \in DOMAIN down' :
            IsAnswer(down'[k]) /\ IsAnswer(down'[l]) => l = k
  <2>1. \A k \in DOMAIN down' : IsAnswer(down'[k]) =>
           k + 1 \in DOMAIN down /\ IsAnswer(down[k + 1])
    BY <1>2
  <2>2. ASSUME NEW k \in DOMAIN down', IsAnswer(down'[k])
        PROVE  /\ down'[k].id \in Request /\ down'[k].for = down'[k].id
               /\ core.ask = down'[k].id
               /\ rt.perm = 0 /\ rt.trust = 0
               /\ \A i \in DOMAIN up : ~IsAsk(up[i])
    BY <1>2, <1>3, <2>1, <2>2 DEF IInv, Asks
  <2>3. ASSUME NEW k \in DOMAIN down', NEW l \in DOMAIN down',
               IsAnswer(down'[k]), IsAnswer(down'[l])
        PROVE  l = k
    <3>1. k + 1 = l + 1
      BY <2>1, <2>3 DEF IInv, Asks
    <3> QED
      BY <1>2, <3>1
  <2> QED
    BY <2>2, <2>3
<1>4. CASE /\ m.type \in {"turn", "control"}
           /\ core' = [core EXCEPT !.next = m.type, !.id = m.id]
           /\ UNCHANGED up
  <2>1. /\ core.next = "none" /\ core.at \notin {"turn", "control"} /\ NoReply
        /\ Bound(m.type, m.id)
        /\ \A k \in DOMAIN down' : ~IsWork(down'[k])
    <3>1. IsWork(down[1]) /\ \A k \in DOMAIN down : IsWork(down[k]) => k = 1
      BY <1>2, <1>4 DEF IInv, Works, IsWork
    <3>2. \A k \in DOMAIN down' : k + 1 # 1
      BY <1>2
    <3> QED
      BY <1>2, <3>1, <3>2 DEF IInv, Works
  <2>2. m.id \in 0..(MaxTurn + MaxControl)
    <3>1. m.id \in 1..MaxTurn \/ m.id \in 1..MaxControl
      BY <1>4, <2>1, ControlsFacts DEF Bound, Turn, IInv
    <3> QED
      BY <3>1, TypeFacts DEF IInv
  <2>3. /\ core' \in Core /\ core'.next = m.type /\ core'.id = m.id
        /\ core'.at = core.at /\ core'.job = core.job /\ core'.ask = core.ask
        /\ core'.asks = core.asks /\ core'.done = core.done
    BY <1>4, <2>2 DEF IInv, TypeOK, Core
  <2>4. /\ TypeOK' /\ Queues' /\ Phases' /\ Clocks'
        /\ ControlGetsItsReply' /\ Publishing'
    BY <1>1, <1>2, <1>3, <1>4, <2>3, CoreFrame DEF IInv, TypeOK, Queues
  <2>5. Asks' /\ RequestsAnswerable'
    <3>1. \A k \in DOMAIN down : IsAnswer(down[k]) => k # 1
      BY <1>2, <1>4 DEF IsAnswer
    <3>2. \A k \in DOMAIN down : IsAnswer(down[k]) =>
             k - 1 \in DOMAIN down' /\ down'[k - 1] = down[k]
      BY <1>2, <3>1
    <3>3. /\ (\A k \in DOMAIN down : ~IsAnswer(down[k]))
               => \A k \in DOMAIN down' : ~IsAnswer(down'[k])
      BY <1>2
    <3>4. Asks'
      BY <1>1, <1>3, <1>4, <1>8, <2>3, <3>3 DEF IInv, Asks, Deaf, managerVars
    <3>5. core.ask # 0 /\ rt.fin = "none" =>
            \/ Unread(core.ask)
            \/ core.ask \in {rt.perm, rt.trust}
            \/ \E k \in DOMAIN down' : down'[k].type = "answer" /\ down'[k].id = core.ask
      BY <3>2 DEF IInv, RequestsAnswerable, IsAnswer
    <3>6. RequestsAnswerable'
      BY <1>1, <1>4, <1>8, <2>3, <3>5
         DEF IInv, RequestsAnswerable, Unread, IsAnswer, managerVars
    <3> QED
      BY <3>4, <3>6
  <2>6. Works'
    <3>1. \A kind, id : Bound(kind, id)' <=> Bound(kind, id)
      BY <1>1, <2>3 DEF Bound, managerVars
    <3> QED
      BY <1>1, <1>4, <2>1, <2>3, <3>1 DEF IInv, Works, NoReply, managerVars
  <2>7. Unstarted' /\ Finishes'
    BY <1>1, <1>2, <1>4, <2>3 DEF IInv, Unstarted, Finishes, IsWork, NoReply,
       managerVars
  <2> QED
    BY <2>4, <2>5, <2>6, <2>7 DEF IInv
<1>5. ASSUME m.type \notin {"turn", "control"}
      PROVE  /\ \A k \in DOMAIN down' : IsWork(down'[k]) => IsWork(down[k + 1])
             /\ \A k \in DOMAIN down' : IsAnswer(down'[k]) => IsAnswer(down[k + 1])
             /\ \A k, l \in DOMAIN down' : k + 1 = l + 1 => k = l
  BY <1>2
<1>6. CASE /\ m.type = "answer"
           /\ core' = [core EXCEPT !.ask = IF @ = m.id THEN 0 ELSE @]
           /\ UNCHANGED up
  <2>1. /\ core.ask = m.id /\ m.id \in Request
        /\ \A i \in DOMAIN up : ~IsAsk(up[i])
        /\ rt.perm = 0 /\ rt.trust = 0
        /\ \A k \in DOMAIN down' : ~IsAnswer(down'[k])
    <3>1. IsAnswer(down[1])
      BY <1>2, <1>6 DEF IsAnswer
    <3>2. \A k \in DOMAIN down' : k + 1 # 1
      BY <1>2
    <3>3. \A k \in DOMAIN down : IsAnswer(down[k]) => k = 1
      BY <1>2, <3>1 DEF IInv, Asks
    <3>4. core.ask = m.id /\ m.id \in Request
      BY <1>2, <1>3, <3>1 DEF IInv, Asks
    <3> QED
      BY <1>2, <1>6, <3>1, <3>2, <3>3, <3>4 DEF IInv, Asks, IsAnswer
  <2>2. /\ core' \in Core /\ core'.ask = 0
        /\ core'.at = core.at /\ core'.job = core.job /\ core'.next = core.next
        /\ core'.asks = core.asks /\ core'.done = core.done /\ core'.id = core.id
    BY <1>6, <2>1, TypeFacts DEF IInv, TypeOK, Core
  <2>3. /\ TypeOK' /\ Queues' /\ Phases' /\ Clocks'
        /\ ControlGetsItsReply' /\ Publishing'
    BY <1>1, <1>2, <1>3, <1>6, <2>2, CoreFrame DEF IInv, TypeOK, Queues
  <2>4. Asks'
    <3>1. rt' = rt /\ up' = up
      BY <1>1, <1>6 DEF managerVars
    <3>2. core'.ask <= core'.asks
      BY <2>2, TypeFacts DEF IInv
    <3> QED
      BY <2>1, <2>2, <3>1, <3>2 DEF Asks
  <2>5. RequestsAnswerable'
    BY <1>1, <2>1, <2>2 DEF IInv, RequestsAnswerable, IsAnswer, managerVars
  <2>6. Works'
    <3>1. \A kind, id : Bound(kind, id)' <=> Bound(kind, id)
      BY <1>1, <2>2 DEF Bound, managerVars
    <3>2. \A k \in DOMAIN down' : IsWork(down'[k]) =>
             \A l \in DOMAIN down' : IsWork(down'[l]) => l = k
      BY <1>2, <1>5, <1>6 DEF IInv, Works
    <3> QED
      BY <1>1, <1>2, <1>5, <1>6, <2>2, <3>1, <3>2 DEF IInv, Works, NoReply, managerVars
  <2>7. Unstarted' /\ Finishes'
    BY <1>1, <1>2, <1>6, <2>2 DEF IInv, Unstarted, Finishes, IsWork, NoReply,
       managerVars
  <2> QED
    BY <2>3, <2>4, <2>5, <2>6, <2>7 DEF IInv
<1>7. CASE /\ m.type = "close"
           /\ core' = [core EXCEPT !.at = "closed", !.ask = 0, !.job = 0,
                                   !.next = "none", !.id = 0]
           /\ Emit("closed", 0)
  <2> DEFINE n == Len(up) + 1
  <2>1. /\ up' \in Seq(UpMessage) /\ Len(up') <= MaxUp
        /\ Len(up) \in Nat /\ DOMAIN up = 1..Len(up)
        /\ DOMAIN up' = DOMAIN up \cup {n} /\ n \notin DOMAIN up
        /\ up'[n] = [type |-> "closed", id |-> 0]
        /\ \A i \in DOMAIN up : up'[i] = up[i]
    BY <1>7, Emitted DEF IInv
  <2> HIDE DEF n
  <2>2. /\ core' \in Core /\ core'.ask = 0 /\ core'.at = "closed"
        /\ core'.next = "none" /\ core'.asks = core.asks /\ core'.done = core.done
    <3>1. 0 \in 0..(MaxTurn + MaxControl) /\ 0 \in 0..MaxAsk
      BY TypeFacts DEF IInv
    <3> QED
      BY <1>7, <3>1 DEF IInv, TypeOK, Core
  <2>3. /\ TypeOK' /\ Queues' /\ Phases' /\ Clocks'
        /\ ControlGetsItsReply' /\ Publishing'
    BY <1>1, <1>2, <1>3, <2>1, <2>2, CoreFrame DEF IInv, Queues
  <2>4. /\ \A i \in DOMAIN up' : IsAsk(up'[i]) => i \in DOMAIN up /\ IsAsk(up[i])
        /\ \A i \in DOMAIN up' : IsReply(up'[i]) => i \in DOMAIN up /\ IsReply(up[i])
    BY <2>1 DEF IsAsk, IsReply
  <2>5. Asks'
    <3>1. Deaf'
      BY <2>2 DEF Deaf
    <3>2. (\A k \in DOMAIN down : ~IsAnswer(down[k]))
             => \A k \in DOMAIN down' : ~IsAnswer(down'[k])
      BY <1>2
    <3>3. rt' = rt /\ core'.ask <= core'.asks
      BY <1>1, <2>2, TypeFacts DEF IInv, managerVars
    <3> QED
      BY <1>8, <2>1, <2>2, <2>4, <3>1, <3>2, <3>3 DEF IInv, Asks
  <2>6. RequestsAnswerable'
    BY <1>1, <1>2, <2>2 DEF IInv, RequestsAnswerable, managerVars
  <2>7. Works'
    <3>1. \A kind, id : Bound(kind, id)' <=> Bound(kind, id)
      BY <1>1, <2>2 DEF Bound, managerVars
    <3>2. \A k \in DOMAIN down' : IsWork(down'[k]) =>
             \A l \in DOMAIN down' : IsWork(down'[l]) => l = k
      BY <1>2, <1>5, <1>7 DEF IInv, Works
    <3> QED
      BY <1>1, <1>2, <1>5, <1>7, <2>1, <2>2, <2>4, <3>1, <3>2
         DEF IInv, Works, NoReply, managerVars
  <2>8. Unstarted'
    BY <1>1, <1>5, <1>7, <1>2, <2>1, <2>2, <2>4
       DEF IInv, Unstarted, NoReply, managerVars
  <2>9. Finishes'
    BY <1>1, <2>1, <2>2, FinishesKept DEF managerVars
  <2> QED
    BY <2>3, <2>5, <2>6, <2>7, <2>8, <2>9 DEF IInv
<1> QED
  BY <1>4, <1>6, <1>7 DEF CoreReads, m

LEMMA CoreErrsKeeps == ASSUME IInv, CoreErrs PROVE IInv'
<1> DEFINE n == Len(up) + 1
<1>1. PICK type \in {"finished", "garbage"}, id \in Nat :
         Emit(type, id) /\ (type = "finished" => id \in core.done)
  <2>1. core.done \subseteq Nat
    BY TypeFacts DEF IInv, Turn
  <2> QED
    BY <2>1 DEF CoreErrs
<1>2. /\ Live /\ up' \in Seq(UpMessage) /\ Len(up') <= MaxUp
      /\ Len(up) \in Nat /\ DOMAIN up = 1..Len(up)
      /\ DOMAIN up' = DOMAIN up \cup {n} /\ n \notin DOMAIN up
      /\ up'[n] = [type |-> type, id |-> id]
      /\ \A i \in DOMAIN up : up'[i] = up[i]
  BY <1>1, Emitted DEF IInv
<1> HIDE DEF n
<1>3. UNCHANGED managerVars /\ UNCHANGED <<core, down>>
  BY DEF CoreErrs
<1>4. /\ TypeOK' /\ Queues' /\ Phases' /\ Clocks'
      /\ ControlGetsItsReply' /\ Publishing'
  BY <1>2, <1>3, CoreFrame DEF IInv, TypeOK, Queues
<1>5. Asks' /\ RequestsAnswerable'
  BY <1>2, <1>3 DEF IInv, Asks, RequestsAnswerable, Unread, IsAsk, Deaf, managerVars
<1>6. Works'
  BY <1>2, <1>3 DEF IInv, Works, Bound, NoReply, IsReply, managerVars
<1>7. Unstarted'
  BY <1>1, <1>2, <1>3 DEF IInv, Unstarted, NoReply, IsReply, managerVars
<1>8. Finishes'
  BY <1>1, <1>2, <1>3, FinishesKept DEF managerVars
<1> QED
  BY <1>4, <1>5, <1>6, <1>7, <1>8 DEF IInv

LEMMA CoreExitsKeeps == ASSUME IInv, CoreExits PROVE IInv'
<1>1. Live /\ UNCHANGED managerVars /\ UNCHANGED up /\ down' = <<>>
  BY DEF CoreExits, Live
<1>2. /\ core' \in Core /\ core'.at = "gone" /\ core'.ask = 0
      /\ core'.next = "none" /\ core'.asks = core.asks /\ core'.done = core.done
  <2>1. 0 \in 0..(MaxTurn + MaxControl) /\ 0 \in 0..MaxAsk
    BY TypeFacts DEF IInv
  <2> QED
    BY <2>1 DEF CoreExits, IInv, TypeOK, Core
<1>3. down' \in Seq(DownMessage) /\ DOMAIN down' = {}
  BY <1>1
<1>4. /\ TypeOK' /\ Queues' /\ Phases' /\ Clocks'
      /\ ControlGetsItsReply' /\ Publishing'
  BY <1>1, <1>2, <1>3, CoreFrame DEF IInv, TypeOK, Queues
<1>5. Asks' /\ RequestsAnswerable'
  <2>1. core'.ask <= core'.asks /\ Deaf'
    BY <1>2, TypeFacts DEF IInv, Deaf
  <2> QED
    BY <1>1, <1>2, <1>3, <2>1 DEF IInv, Asks, RequestsAnswerable, managerVars
<1>6. Works' /\ Unstarted' /\ Finishes'
  BY <1>1, <1>2, <1>3
     DEF IInv, Works, Unstarted, Finishes, Bound, NoReply, managerVars
<1> QED
  BY <1>4, <1>5, <1>6 DEF IInv

-----------------------------------------------------------------------------
(* The manager: steps after which a finalizer is at work.                  *)

(* Nobody takes up a new request, Turn or control once there is one.       *)
LEMMA EndingFrame ==
    ASSUME IInv, rt'.fin # "none", Live => Finalizing',
           UNCHANGED <<core, up, down>>,
           rt'.perm \in {0, rt.perm}, rt'.trust \in {0, rt.trust},
           rt'.control \in {0, rt.control}, rt'.turns = rt.turns,
           Len(controls') = Len(controls),
           start.at = "ended" => start'.at = "ended", start'.at \in {"waiting", "ended"}
    PROVE  /\ Queues' /\ Asks' /\ RequestsAnswerable' /\ Works' /\ Unstarted'
           /\ Finishes' /\ Publishing'
<1>1. Queues' /\ Publishing'
  BY DEF IInv, Queues, Publishing, Live
<1>2. Asks'
  BY DEF IInv, Asks, Deaf
<1>3. RequestsAnswerable'
  BY DEF IInv, RequestsAnswerable
<1>4. Works'
  <2>1. \A kind, id : Bound(kind, id) => Bound(kind, id)'
    BY DEF Bound
  <2> QED
    BY <2>1 DEF IInv, Works, NoReply
<1>5. Unstarted'
  BY DEF IInv, TypeOK, Start, Unstarted, NoReply
<1>6. Finishes'
  BY DEF IInv, Finishes
<1> QED
  BY <1>1, <1>2, <1>3, <1>4, <1>5, <1>6

LEMMA BeginFacts ==
    ASSUME NEW r \in Runtime, NEW final \in {"stopped", "error"}
    PROVE  /\ Begin(r, final) \in Runtime
           /\ r.fin # "none" => Begin(r, final) = r
           /\ r.fin = "none" => /\ Begin(r, final).status = "stopping"
                                /\ Begin(r, final).fin = "waiting"
           /\ Begin(r, final).turn = r.turn /\ Begin(r, final).turns = r.turns
           /\ Begin(r, final).perm = r.perm /\ Begin(r, final).trust = r.trust
           /\ Begin(r, final).control = r.control
           /\ Begin(r, final).pause = r.pause /\ Begin(r, final).paused = r.paused
<1>1. CASE r.fin # "none"
  BY <1>1 DEF Begin
<1>2. CASE r.fin = "none"
  <2>1. Begin(r, final) = [r EXCEPT !.status = "stopping", !.fin = "waiting", !.final = final]
    BY <1>2 DEF Begin
  <2> QED
    BY <1>2, <2>1 DEF Runtime
<1> QED
  BY <1>1, <1>2

(* The finalizer is begun, or one that runs is joined; what is pending may *)
(* have been taken away before.                                            *)
LEMMA BeginKeeps ==
    ASSUME IInv, NEW r \in Runtime, NEW final \in {"stopped", "error"},
           rt' = Begin(r, final),
           r.fin = rt.fin, r.fin # "none" => r.status = rt.status,
           r.turn = rt.turn, r.turns = rt.turns, r.perm \in {0, rt.perm},
           r.trust \in {0, rt.trust}, r.control \in {0, rt.control},
           UNCHANGED <<shown, core, up, down>>,
           rt.fin = "ended" => reader' = "ended",
           Len(controls') = Len(controls),
           start.at = "ended" => start'.at = "ended", start'.at \in {"waiting", "ended"}
    PROVE  /\ rt' \in Runtime /\ rt'.fin # "none"
           /\ rt'.trust = r.trust /\ rt'.pause = r.pause /\ rt'.paused = r.paused
           /\ Queues' /\ Phases' /\ Asks' /\ RequestsAnswerable' /\ Works'
           /\ Unstarted' /\ Finishes' /\ Publishing'
<1>1. /\ rt' \in Runtime
      /\ rt.fin = "none" => rt'.fin = "waiting" /\ rt'.status = "stopping"
      /\ rt.fin # "none" => rt'.fin = rt.fin /\ rt'.status = rt.status
      /\ rt'.turn = r.turn /\ rt'.turns = r.turns /\ rt'.perm = r.perm
      /\ rt'.trust = r.trust /\ rt'.control = r.control
      /\ rt'.pause = r.pause /\ rt'.paused = r.paused
  BY BeginFacts
<1>2. rt'.fin # "none" /\ (Live => Finalizing')
  BY <1>1 DEF IInv, TypeOK, Runtime, Phases, Finalizing, Live
<1>3. /\ Queues' /\ Asks' /\ RequestsAnswerable' /\ Works' /\ Unstarted'
      /\ Finishes' /\ Publishing'
  BY <1>1, <1>2, EndingFrame
<1>4. Phases'
  <2>1. rt'.turn <= rt'.turns /\ rt'.control <= Len(controls')
    <3>1. rt.turn <= rt.turns /\ rt.control <= Len(controls) /\ 0 <= Len(controls)
      BY ControlsFacts DEF IInv, Phases
    <3> QED
      BY <1>1, <3>1
  <2>2. rt'.turn # 0 => rt'.control = 0
    BY <1>1 DEF IInv, Phases
  <2> QED
    BY <1>1, <1>2, <2>1, <2>2 DEF IInv, Phases, Live
<1> QED
  BY <1>1, <1>2, <1>3, <1>4

(* status_changed is set: what the start knows of time is unchanged.       *)
LEMMA WokenKeeps ==
    ASSUME IInv, start' = Woken, UNCHANGED clock,
           rt'.pause = rt.pause, rt'.paused = rt.paused, rt.fin # "none" => rt'.fin # "none"
    PROVE  start' \in Start /\ start'.at = start.at /\ start'.turn = start.turn /\ Clocks'
<1>1. /\ start' \in Start /\ start'.at = start.at /\ start'.turn = start.turn
      /\ start'.woken = (start.at = "waiting")
      /\ start'.used = start.used /\ start'.last = start.last
      /\ start'.seen = start.seen /\ start'.counted = start.counted
      /\ start'.given = start.given
  BY DEF Woken, IInv, TypeOK, Start
<1>2. start.at \in {"waiting", "ended"}
  BY DEF IInv, TypeOK, Start
<1>3. Clocks'
  BY <1>1, <1>2 DEF IInv, Clocks
<1> QED
  BY <1>1, <1>3

LEMMA StopKeeps == ASSUME IInv, Stop PROVE IInv'
<1>1. /\ rt' = Begin(rt, "stopped") /\ start' = Woken /\ rt.fin = "none"
      /\ UNCHANGED <<reader, controls, resolving, shown, clock, core, up, down>>
  BY DEF Stop, coreVars
<1>2. rt \in Runtime
  BY DEF IInv, TypeOK
<1>3. start' \in Start /\ start'.at = start.at /\ Clocks'
  BY <1>1, <1>2, BeginFacts, WokenKeeps
<1>4. /\ rt' \in Runtime /\ rt'.trust = rt.trust /\ rt'.pause = rt.pause
      /\ Queues' /\ Phases' /\ Asks' /\ RequestsAnswerable' /\ Works'
      /\ Unstarted' /\ Finishes' /\ Publishing'
  BY <1>1, <1>2, <1>3, BeginKeeps DEF Start
<1>5. TypeOK' /\ ControlGetsItsReply'
  BY <1>1, <1>3, <1>4 DEF IInv, TypeOK, ControlGetsItsReply
<1> QED
  BY <1>3, <1>4, <1>5 DEF IInv

(* The start ends.                                                         *)
LEMMA StartEndedKeeps ==
    ASSUME IInv, start' = StartEnded, clock' = 0, rt'.fin = "none" => rt'.pause = NoTime
    PROVE  start' \in Start /\ start'.at = "ended" /\ clock' \in Time /\ Clocks'
<1>1. 0 \in Time /\ 0 \in 0..MaxTurn
  BY TypeFacts DEF IInv
<1>2. start' \in Start /\ start'.at = "ended" /\ clock' \in Time
  BY <1>1 DEF StartEnded, Start
<1>3. Clocks'
  BY <1>2 DEF Clocks
<1> QED
  BY <1>2, <1>3

LEMMA StartFailsKeeps ==
    ASSUME IInv, StartFails,
           UNCHANGED <<reader, controls, resolving, shown, core, up, down>>
    PROVE  IInv'
<1>1. rt \in Runtime /\ rt' = Begin(rt, "error")
  BY DEF StartFails, IInv, TypeOK
<1>2. rt'.fin # "none"
  BY <1>1, BeginFacts
<1>3. start' \in Start /\ start'.at = "ended" /\ clock' \in Time /\ Clocks'
  BY <1>2, StartEndedKeeps DEF StartFails
<1>4. /\ rt' \in Runtime /\ rt'.trust = rt.trust /\ rt'.pause = rt.pause
      /\ Queues' /\ Phases' /\ Asks' /\ RequestsAnswerable' /\ Works'
      /\ Unstarted' /\ Finishes' /\ Publishing'
  BY <1>1, <1>3, BeginKeeps DEF IInv, Phases
<1>5. TypeOK' /\ ControlGetsItsReply'
  BY <1>3, <1>4 DEF IInv, TypeOK, ControlGetsItsReply
<1> QED
  BY <1>3, <1>4, <1>5 DEF IInv

LEMMA ReaderStopsKeeps == ASSUME IInv, ReaderBreaks \/ ReaderEnds PROVE IInv'
<1>1. PICK final \in {"stopped", "error"} : rt' = Begin(rt, final)
  BY DEF ReaderBreaks, ReaderEnds
<1>2. /\ reader = "reading" /\ reader' \in Reader /\ start' = Woken
      /\ UNCHANGED <<controls, resolving, shown, clock, core, up, down>>
  BY DEF ReaderBreaks, ReaderEnds, Reader, coreVars
<1>3. rt \in Runtime /\ rt.fin # "ended"
  BY <1>2 DEF IInv, TypeOK, Phases
<1>4. start' \in Start /\ start'.at = start.at /\ Clocks'
  BY <1>1, <1>2, <1>3, BeginFacts, WokenKeeps
<1>5. /\ rt' \in Runtime /\ rt'.trust = rt.trust /\ rt'.pause = rt.pause
      /\ Queues' /\ Phases' /\ Asks' /\ RequestsAnswerable' /\ Works'
      /\ Unstarted' /\ Finishes' /\ Publishing'
  BY <1>1, <1>2, <1>3, <1>4, BeginKeeps DEF Start
<1>6. TypeOK' /\ ControlGetsItsReply'
  BY <1>2, <1>4, <1>5 DEF IInv, TypeOK, ControlGetsItsReply
<1> QED
  BY <1>4, <1>5, <1>6 DEF IInv

LEMMA ResolveFailsKeeps ==
    ASSUME IInv, NEW c \in resolving, ResolveFails(c) PROVE IInv'
<1>1. /\ rt' = Begin(rt, "stopped") /\ start' = Woken /\ resolving' \subseteq resolving
      /\ UNCHANGED <<reader, controls, shown, clock, core, up, down>>
  BY DEF ResolveFails, coreVars
<1>2. rt \in Runtime
  BY DEF IInv, TypeOK
<1>3. start' \in Start /\ start'.at = start.at /\ Clocks'
  BY <1>1, <1>2, BeginFacts, WokenKeeps
<1>4. /\ rt' \in Runtime /\ rt'.trust = rt.trust /\ rt'.pause = rt.pause
      /\ Queues' /\ Phases' /\ Asks' /\ RequestsAnswerable' /\ Works'
      /\ Unstarted' /\ Finishes' /\ Publishing'
  BY <1>1, <1>2, <1>3, BeginKeeps DEF Start, IInv, Phases
<1>5. TypeOK' /\ ControlGetsItsReply'
  BY <1>1, <1>3, <1>4 DEF IInv, TypeOK, ControlGetsItsReply
<1> QED
  BY <1>3, <1>4, <1>5 DEF IInv

LEMMA AbortedFacts ==
    ASSUME rt \in Runtime
    PROVE  /\ Aborted(rt) \in Runtime /\ Aborted(rt).control = 0
           /\ Aborted(rt).fin = rt.fin /\ Aborted(rt).status = rt.status
           /\ Aborted(rt).turn = rt.turn /\ Aborted(rt).turns = rt.turns
           /\ Aborted(rt).perm = rt.perm /\ Aborted(rt).trust = rt.trust
           /\ Aborted(rt).pause = rt.pause /\ Aborted(rt).paused = rt.paused
<1>1. 0 \in 0..MaxControl
  BY ProtocolAssumption
<1> QED
  BY <1>1 DEF Aborted, Runtime

(* A call that ends keeps what it has got.                                 *)
LEMMA CallsKept ==
    ASSUME TypeOK, NEW c \in DOMAIN controls
    PROVE  /\ CallsAfterAbort(c) \in Seq(ControlCall)
           /\ Len(CallsAfterAbort(c)) = Len(controls)
           /\ DOMAIN CallsAfterAbort(c) = DOMAIN controls
           /\ \A i \in DOMAIN controls : CallsAfterAbort(c)[i].got = controls[i].got
<1>1. controls \in Seq(ControlCall) /\ DOMAIN controls = 1..Len(controls) /\ Len(controls) \in Nat
  BY ControlsFacts DEF TypeOK
<1>2. ASSUME NEW i \in DOMAIN controls
      PROVE  /\ CallsAfterAbort(c)[i] \in ControlCall
             /\ CallsAfterAbort(c)[i].got = controls[i].got
  <2>1. controls[i] \in ControlCall
    BY <1>1
  <2>2. PICK at \in {"returned", "failed", controls[i].at} :
           CallsAfterAbort(c)[i] = [controls[i] EXCEPT !.at = at]
    <3>1. [controls[i] EXCEPT !.at = controls[i].at] = controls[i]
      BY <2>1 DEF ControlCall
    <3> QED
      BY <3>1 DEF CallsAfterAbort
  <2> QED
    BY <2>1, <2>2 DEF ControlCall
<1>3. CallsAfterAbort(c) \in [1..Len(controls) -> ControlCall]
  BY <1>1, <1>2 DEF CallsAfterAbort
<1> QED
  BY <1>1, <1>2, <1>3

LEMMA AbortKeeps ==
    ASSUME IInv, NEW c \in DOMAIN controls,
           rt' = Begin(Aborted(rt), "stopped"), controls' = CallsAfterAbort(c),
           start' = Woken,
           UNCHANGED <<reader, resolving, shown, clock, core, up, down>>
    PROVE  IInv'
<1>1. Aborted(rt) \in Runtime
  BY AbortedFacts DEF IInv, TypeOK
<1>2. /\ controls' \in Seq(ControlCall) /\ Len(controls') = Len(controls)
      /\ DOMAIN controls' = DOMAIN controls
      /\ \A i \in DOMAIN controls : controls'[i].got = controls[i].got
  BY CallsKept DEF IInv
<1>3. start' \in Start /\ start'.at = start.at /\ Clocks'
  BY <1>1, AbortedFacts, BeginFacts, WokenKeeps DEF IInv, TypeOK
<1>4. /\ rt' \in Runtime /\ rt'.trust = rt.trust /\ rt'.pause = rt.pause
      /\ Queues' /\ Phases' /\ Asks' /\ RequestsAnswerable' /\ Works'
      /\ Unstarted' /\ Finishes' /\ Publishing'
  <2>1. rt \in Runtime /\ start'.at \in {"waiting", "ended"}
    BY <1>3 DEF IInv, TypeOK, Start
  <2>2. rt.fin = "ended" => reader' = "ended"
    BY DEF IInv, Phases
  <2> QED
    BY <1>1, <1>2, <1>3, <2>1, <2>2, AbortedFacts, BeginKeeps
<1>5. TypeOK' /\ ControlGetsItsReply'
  BY <1>2, <1>3, <1>4 DEF IInv, TypeOK, ControlGetsItsReply
<1> QED
  BY <1>3, <1>4, <1>5 DEF IInv

-----------------------------------------------------------------------------
(* The other calls of _run_control.                                        *)
LEMMA CallReturnsKeeps ==
    ASSUME IInv, NEW c \in DOMAIN controls,
           controls' = [controls EXCEPT ![c].at = "returned"],
           start' = start \/ start' = Woken,
           UNCHANGED <<rt, reader, resolving, shown, clock, core, up, down>>
    PROVE  IInv'
<1>1. controls \in Seq(ControlCall) /\ c \in 1..Len(controls) /\ controls[c] \in ControlCall
  BY DEF IInv, TypeOK
<1>2. [controls[c] EXCEPT !.at = "returned"] \in ControlCall
  BY <1>1 DEF ControlCall
<1>3. /\ controls' \in Seq(ControlCall) /\ Len(controls') = Len(controls)
      /\ DOMAIN controls' = DOMAIN controls
  BY <1>1, <1>2
<1>4. \A i \in DOMAIN controls : controls'[i].got = controls[i].got
  BY <1>1, <1>2 DEF ControlCall
<1>5. start' \in Start /\ start'.at = start.at /\ start'.turn = start.turn /\ Clocks'
  <2>1. CASE start' = start
    BY <2>1 DEF IInv, TypeOK, Clocks
  <2>2. CASE start' = Woken
    BY <2>2, WokenKeeps
  <2> QED
    BY <2>1, <2>2
<1>6. TypeOK' /\ Queues' /\ ControlGetsItsReply'
  BY <1>3, <1>4, <1>5 DEF IInv, TypeOK, Queues, ControlGetsItsReply
<1>7. Phases' /\ Asks' /\ RequestsAnswerable' /\ Finishes' /\ Publishing'
  BY <1>3, <1>5 DEF IInv, Phases, Asks, RequestsAnswerable, Unread, Finishes,
     Publishing, Live, Finalizing, Deaf
<1>8. Works' /\ Unstarted'
  <2>1. \A kind, id : Bound(kind, id)' <=> Bound(kind, id)
    BY <1>3 DEF Bound
  <2> QED
    BY <1>5, <2>1 DEF IInv, Works, Unstarted, NoReply
<1> QED
  BY <1>5, <1>6, <1>7, <1>8 DEF IInv

LEMMA ControlEndsKeeps ==
    ASSUME IInv, NEW c \in DOMAIN controls,
           ControlTimesOut(c) \/ ControlReturns(c) \/ ControlFails(c)
    PROVE  IInv'
<1>1. CASE ControlTimesOut(c)
  BY <1>1, AbortKeeps DEF ControlTimesOut, coreVars
<1>2. CASE ControlReturns(c)
  BY <1>2, CallReturnsKeeps DEF ControlReturns, coreVars
<1>3. CASE ControlFails(c)
  <2>1. CASE rt' = Begin(Aborted(rt), "stopped") /\ controls' = CallsAfterAbort(c)
    BY <1>3, <2>1, AbortKeeps DEF ControlFails, coreVars
  <2>2. CASE controls' = [controls EXCEPT ![c].at = "returned"] /\ UNCHANGED rt
    BY <1>3, <2>2, CallReturnsKeeps DEF ControlFails, coreVars
  <2> QED
    BY <1>3, <2>1, <2>2 DEF ControlFails
<1> QED
  BY <1>1, <1>2, <1>3

-----------------------------------------------------------------------------
(* The finalizer.                                                          *)

(* While it is at work nothing new is asked, begun or answered.            *)
LEMMA FinalizerFrame ==
    ASSUME IInv, rt.fin # "none", rt'.fin # "none", Live' => Finalizing',
           start.at = "ended", UNCHANGED <<start, clock>>,
           rt'.perm \in {0, rt.perm}, rt'.trust \in {0, rt.trust},
           rt'.control \in {0, rt.control}, rt'.turns = rt.turns,
           Len(controls') = Len(controls),
           \/ core' = core
           \/ /\ core'.at = "gone" /\ core'.ask = 0 /\ core'.next = "none"
              /\ core'.asks = core.asks /\ core'.done = core.done,
           up' \in {up, <<>>}, down' \in Seq(DownMessage),
           \A k \in DOMAIN down' :
              (k \in DOMAIN down /\ down'[k] = down[k]) \/ down'[k].type = "close"
    PROVE  /\ Queues' /\ Clocks' /\ Asks' /\ RequestsAnswerable' /\ Works' /\ Unstarted'
           /\ Finishes' /\ Publishing'
<1>1. \A i \in DOMAIN up' : i \in DOMAIN up /\ up'[i] = up[i]
  BY DEF IInv, Queues
<1>2. /\ \A k \in DOMAIN down' : IsAnswer(down'[k]) =>
            k \in DOMAIN down /\ down'[k] = down[k] /\ IsAnswer(down[k])
      /\ \A k \in DOMAIN down' : IsWork(down'[k]) =>
            k \in DOMAIN down /\ down'[k] = down[k] /\ IsWork(down[k])
  BY DEF IsAnswer, IsWork
<1>3. Queues' /\ Clocks' /\ Publishing' /\ Unstarted'
  <2>1. Queues'
    <3>1. up \in Seq(UpMessage) /\ <<>> \in Seq(UpMessage)
      BY DEF IInv, Queues
    <3> QED
      BY <3>1 DEF Queues
  <2>2. Clocks'
    BY DEF IInv, Clocks
  <2> QED
    BY <2>1, <2>2 DEF Publishing, Unstarted
<1>4. Asks'
  <2>1. core'.ask <= core'.asks
    <3>1. core.asks \in Nat /\ core.ask <= core.asks
      BY TypeFacts DEF IInv, Asks
    <3> QED
      BY <3>1
  <2>2. Deaf => Deaf'
    BY DEF Deaf
  <2> QED
    BY <1>1, <1>2, <2>1, <2>2 DEF IInv, Asks, Deaf
<1>5. RequestsAnswerable'
  BY <1>2 DEF IInv, RequestsAnswerable, IsAnswer
<1>6. Works'
  <2>1. \A kind, id : Bound(kind, id) => Bound(kind, id)'
    BY DEF Bound
  <2>2. NoReply => NoReply'
    BY <1>1 DEF NoReply
  <2>3. /\ core'.next # "none" => core' = core
        /\ core'.at \in {"turn", "control"} => core' = core
        /\ core.at \notin {"turn", "control"} => core'.at \notin {"turn", "control"}
        /\ core.next = "none" => core'.next = "none"
        /\ core'.done = core.done
    OBVIOUS
  <2> QED
    BY <1>1, <1>2, <2>1, <2>2, <2>3 DEF IInv, Works
<1>7. Finishes'
  BY <1>1 DEF IInv, Finishes
<1> QED
  BY <1>3, <1>4, <1>5, <1>6, <1>7

LEMMA FinalizerStartsKeeps == ASSUME IInv, FinalizerStarts PROVE IInv'
<1>1. /\ rt.fin = "waiting" /\ start.at = "ended" /\ rt \in Runtime
      /\ UNCHANGED <<start, resolving, clock, reader, controls, shown, core, up>>
  BY DEF FinalizerStarts, finalVars, IInv, TypeOK
<1>2. PICK fin \in {"closing", "killing", "reaped"} :
         rt' = [rt EXCEPT !.fin = fin] /\ (fin = "reaped" => ~Live)
  BY DEF FinalizerStarts
<1>3. down' = down \/ down' = Write("close", 0, 0)
  BY DEF FinalizerStarts
<1>4. /\ down' \in Seq(DownMessage)
      /\ \A k \in DOMAIN down' :
           (k \in DOMAIN down /\ down'[k] = down[k]) \/ down'[k].type = "close"
  <2> DEFINE close == [type |-> "close", id |-> 0, for |-> 0]
  <2>1. close \in DownMessage /\ close.type = "close"
    BY DEF DownMessage
  <2>2. down \in Seq(DownMessage)
    BY DEF IInv, Queues
  <2>3. CASE down' = down
    BY <2>2, <2>3
  <2>4. CASE down' = Append(down, close)
    <3> HIDE DEF close
    <3> QED
      BY <2>1, <2>2, <2>4, Appended
  <2> QED
    BY <1>3, <2>3, <2>4 DEF Write
<1>5. /\ rt' \in Runtime /\ rt'.fin = fin
      /\ rt'.status = rt.status /\ rt'.turn = rt.turn /\ rt'.turns = rt.turns
      /\ rt'.perm = rt.perm /\ rt'.trust = rt.trust /\ rt'.control = rt.control
      /\ rt'.pause = rt.pause /\ rt'.paused = rt.paused
  BY <1>1, <1>2 DEF Runtime
<1>6. /\ Queues' /\ Clocks' /\ Asks' /\ RequestsAnswerable' /\ Works' /\ Unstarted'
      /\ Finishes' /\ Publishing'
  <2>1. Finalizing'
    BY <1>1, <1>5 DEF IInv, Phases, Finalizing
  <2> QED
    BY <1>1, <1>4, <1>5, <2>1, FinalizerFrame
<1>7. Phases'
  BY <1>1, <1>2, <1>5 DEF IInv, Phases, Live
<1>8. TypeOK' /\ ControlGetsItsReply'
  BY <1>1, <1>5 DEF IInv, TypeOK, ControlGetsItsReply
<1> QED
  BY <1>6, <1>7, <1>8 DEF IInv

LEMMA HandshakeEndsKeeps == ASSUME IInv, HandshakeEnds PROVE IInv'
<1>1. /\ rt.fin = "closing" /\ rt \in Runtime
      /\ UNCHANGED <<start, resolving, clock, reader, controls, shown, core, up, down>>
  BY DEF HandshakeEnds, finalVars, coreVars, IInv, TypeOK
<1>2. PICK fin \in {"killing", "reaped"} :
         rt' = [rt EXCEPT !.fin = fin] /\ (fin = "reaped" => ~Live)
  BY DEF HandshakeEnds
<1>3. start.at = "ended"
  BY <1>1 DEF IInv, Phases
<1>4. /\ rt' \in Runtime /\ rt'.fin = fin
      /\ rt'.status = rt.status /\ rt'.turn = rt.turn /\ rt'.turns = rt.turns
      /\ rt'.perm = rt.perm /\ rt'.trust = rt.trust /\ rt'.control = rt.control
      /\ rt'.pause = rt.pause /\ rt'.paused = rt.paused
  BY <1>1, <1>2 DEF Runtime
<1>5. /\ Queues' /\ Clocks' /\ Asks' /\ RequestsAnswerable' /\ Works' /\ Unstarted'
      /\ Finishes' /\ Publishing'
  <2>1. Finalizing'
    BY <1>1, <1>4 DEF IInv, Phases, Finalizing
  <2>2. down \in Seq(DownMessage)
    BY DEF IInv, Queues
  <2> QED
    BY <1>1, <1>3, <1>4, <2>1, <2>2, FinalizerFrame
<1>6. Phases'
  BY <1>1, <1>2, <1>4 DEF IInv, Phases, Live
<1>7. TypeOK' /\ ControlGetsItsReply'
  BY <1>1, <1>4 DEF IInv, TypeOK, ControlGetsItsReply
<1> QED
  BY <1>5, <1>6, <1>7 DEF IInv

LEMMA CoreKilledKeeps == ASSUME IInv, CoreKilled PROVE IInv'
<1>1. /\ rt.fin = "killing" /\ rt \in Runtime /\ rt' = [rt EXCEPT !.fin = "reaped"]
      /\ down' = <<>>
      /\ UNCHANGED <<start, resolving, clock, reader, controls, shown, up>>
  BY DEF CoreKilled, finalVars, IInv, TypeOK
<1>2. /\ core' \in Core /\ core'.at = "gone" /\ core'.ask = 0
      /\ core'.next = "none" /\ core'.asks = core.asks /\ core'.done = core.done
  <2>1. 0 \in 0..(MaxTurn + MaxControl) /\ 0 \in 0..MaxAsk
    BY TypeFacts DEF IInv
  <2> QED
    BY <2>1 DEF CoreKilled, IInv, TypeOK, Core
<1>3. start.at = "ended"
  BY <1>1 DEF IInv, Phases
<1>4. /\ rt' \in Runtime /\ rt'.fin = "reaped"
      /\ rt'.status = rt.status /\ rt'.turn = rt.turn /\ rt'.turns = rt.turns
      /\ rt'.perm = rt.perm /\ rt'.trust = rt.trust /\ rt'.control = rt.control
      /\ rt'.pause = rt.pause /\ rt'.paused = rt.paused
  BY <1>1 DEF Runtime
<1>5. /\ Queues' /\ Clocks' /\ Asks' /\ RequestsAnswerable' /\ Works' /\ Unstarted'
      /\ Finishes' /\ Publishing'
  <2>1. ~Live'
    BY <1>2 DEF Live
  <2>2. down' \in Seq(DownMessage) /\ DOMAIN down' = {}
    BY <1>1
  <2> QED
    BY <1>1, <1>2, <1>3, <1>4, <2>1, <2>2, FinalizerFrame
<1>6. Phases'
  BY <1>1, <1>2, <1>4 DEF IInv, Phases, Live
<1>7. TypeOK' /\ ControlGetsItsReply'
  BY <1>1, <1>2, <1>4 DEF IInv, TypeOK, ControlGetsItsReply
<1> QED
  BY <1>5, <1>6, <1>7 DEF IInv

LEMMA FinalizerConvergesKeeps == ASSUME IInv, FinalizerConverges PROVE IInv'
<1>1. /\ rt.fin = "reaped" /\ rt \in Runtime /\ reader' = "ended" /\ up' = <<>>
      /\ shown' = rt.final
      /\ UNCHANGED <<start, resolving, clock, core, down>>
  BY DEF FinalizerConverges, finalVars, IInv, TypeOK
<1>2. start.at = "ended" /\ ~Live
  BY <1>1 DEF IInv, Phases
<1>3. /\ rt' \in Runtime /\ rt'.fin = "ended" /\ rt'.status = rt.final
      /\ rt'.turn = 0 /\ rt'.turns = rt.turns /\ rt'.perm = 0 /\ rt'.trust = 0
      /\ rt'.control = 0 /\ rt'.pause = NoTime /\ rt'.paused = 0
  <2>1. 0 \in Time /\ 0 \in 0..MaxTurn /\ 0 \in 0..MaxAsk /\ 0 \in 0..MaxControl
    BY TypeFacts DEF IInv
  <2> QED
    BY <1>1, <2>1 DEF FinalizerConverges, Runtime
<1>4. /\ controls' \in Seq(ControlCall) /\ Len(controls') = Len(controls)
      /\ DOMAIN controls' = DOMAIN controls
      /\ \A i \in DOMAIN controls : controls'[i].got = controls[i].got
  <2>1. controls \in Seq(ControlCall) /\ DOMAIN controls = 1..Len(controls)
        /\ Len(controls) \in Nat
    BY ControlsFacts DEF IInv, TypeOK
  <2>2. ASSUME NEW i \in DOMAIN controls
        PROVE  controls'[i] \in ControlCall /\ controls'[i].got = controls[i].got
    <3>1. controls[i] \in ControlCall
      BY <2>1
    <3>2. controls'[i] \in {controls[i], [controls[i] EXCEPT !.at = "failed"]}
      BY DEF FinalizerConverges
    <3> QED
      BY <3>1, <3>2 DEF ControlCall
  <2>3. controls' \in [1..Len(controls) -> ControlCall]
    BY <2>1, <2>2 DEF FinalizerConverges
  <2> QED
    BY <2>1, <2>2, <2>3
<1>5. /\ Queues' /\ Clocks' /\ Asks' /\ RequestsAnswerable' /\ Works' /\ Unstarted'
      /\ Finishes' /\ Publishing'
  <2>1. ~Live'
    BY <1>1, <1>2 DEF Live
  <2>2. down' \in Seq(DownMessage)
    BY <1>1 DEF IInv, Queues
  <2> QED
    BY <1>1, <1>2, <1>3, <1>4, <2>1, <2>2, FinalizerFrame
<1>6. Phases'
  <2>1. rt.final \in {"stopped", "error"} /\ rt.turns \in Nat /\ 0 <= Len(controls')
    BY <1>1, <1>4, TypeFacts, ControlsFacts DEF Runtime, IInv
  <2> QED
    BY <1>1, <1>2, <1>3, <2>1 DEF Phases, Live
<1>7. TypeOK' /\ ControlGetsItsReply'
  <2>1. shown' \in {"stopped", "error"} /\ reader' \in Reader
    BY <1>1 DEF Runtime, Reader
  <2>2. Len(up') <= MaxUp
    BY <1>1, TypeFacts DEF IInv
  <2> QED
    BY <1>1, <1>3, <1>4, <2>1, <2>2 DEF IInv, TypeOK, ControlGetsItsReply
<1> QED
  BY <1>5, <1>6, <1>7 DEF IInv

-----------------------------------------------------------------------------
(* The manager: the start and its clock.                                   *)
LEMMA TickKeeps == ASSUME IInv, Tick PROVE IInv'
<1>1. /\ start.at = "waiting" /\ clock < MaxClock /\ clock' = clock + 1
      /\ start' = [start EXCEPT !.given = IF rt.trust = 0 THEN @ + 1 ELSE @]
      /\ UNCHANGED <<rt, reader, controls, resolving, shown, core, up, down>>
  BY DEF Tick, coreVars
<1>2. clock' \in Time /\ clock + 1 \in Time
  BY <1>1, TypeFacts DEF IInv, Time
<1>3. rt.pause # NoTime <=> rt.trust # 0
  BY DEF IInv, TypeOK
<1>4. start.given + 1 \in Time \/ rt.trust # 0
  <2>1. rt.trust = 0 => start.given = clock - rt.paused
    BY <1>1, <1>3 DEF IInv, Clocks
  <2> QED
    BY <1>1, <2>1, TypeFacts DEF IInv, Time
<1>5. /\ start' \in Start /\ start'.at = start.at /\ start'.turn = start.turn
      /\ start'.given = IF rt.trust = 0 THEN start.given + 1 ELSE start.given
      /\ start'.used = start.used /\ start'.last = start.last
      /\ start'.seen = start.seen /\ start'.counted = start.counted
      /\ start'.woken = start.woken
  BY <1>1, <1>4 DEF IInv, TypeOK, Start
<1>6. Clocks'
  <2> DEFINE since == IF rt.pause = NoTime THEN clock ELSE rt.pause
  <2>1. /\ since <= clock /\ rt.paused <= since
        /\ start.given = since - rt.paused
        /\ start.seen <= rt.paused /\ start.last <= clock
        /\ start.used <= start.given
        /\ start.counted => /\ start.used <= start.last - start.seen
                            /\ rt.paused - start.seen <= since - start.last
        /\ start.counted /\ ~start.woken => rt.pause = NoTime /\ start.seen = rt.paused
    BY <1>1 DEF IInv, Clocks
  <2> QED
    BY <1>1, <1>3, <1>5, <2>1, TypeFacts DEF Clocks, IInv
<1>7. TypeOK' /\ Queues' /\ Phases'
  BY <1>1, <1>2, <1>5 DEF IInv, TypeOK, Queues, Phases, Live
<1>8. Asks' /\ RequestsAnswerable' /\ Unstarted' /\ Finishes' /\ ControlGetsItsReply' /\ Publishing'
  BY <1>1, <1>5 DEF IInv, Asks, Deaf, RequestsAnswerable, Unread, Unstarted, NoReply,
     Finishes, ControlGetsItsReply, Publishing, Live, Finalizing
<1>9. Works'
  BY <1>1 DEF IInv, Works, Bound, NoReply
<1> QED
  BY <1>6, <1>7, <1>8, <1>9 DEF IInv

LEMMA StartTimesOutKeeps == ASSUME IInv, StartTimesOut PROVE IInv'
BY StartFailsKeeps DEF StartTimesOut, coreVars

(* What a check counts is time in which no user was asked.                 *)
LEMMA CheckedFacts ==
    ASSUME IInv, start.at = "waiting"
    PROVE  /\ Checked(start) \in Start
           /\ Checked(start).at = start.at /\ Checked(start).turn = start.turn
           /\ Checked(start).given = start.given /\ Checked(start).used <= start.given
           /\ Checked(start).last = clock /\ Checked(start).seen = rt.paused
           /\ Checked(start).counted = (rt.status = "starting")
           /\ Checked(start).counted => Checked(start).used <= clock - rt.paused
                                        /\ rt.pause = NoTime
<1> DEFINE since == IF rt.pause = NoTime THEN clock ELSE rt.pause
<1> DEFINE used == IF start.counted
                   THEN start.used + (clock - start.last) - PausedSince(start)
                   ELSE start.used
<1>1. /\ since <= clock /\ rt.paused <= since
      /\ start.given = since - rt.paused
      /\ start.seen <= rt.paused /\ start.last <= clock
      /\ start.used <= start.given
      /\ start.counted => /\ start.used <= start.last - start.seen
                          /\ rt.paused - start.seen <= since - start.last
  BY DEF IInv, Clocks
<1>2. /\ rt.paused \in Nat /\ rt.pause \in Nat \cup {NoTime} /\ NoTime \in Int \ Nat
      /\ start.used \in Nat /\ start.last \in Nat /\ start.seen \in Nat
      /\ start.given \in Nat /\ clock \in Nat
  BY TypeFacts DEF IInv
<1>3. used \in Nat /\ used <= start.given
  <2>1. CASE start.counted /\ rt.pause = NoTime
    BY <1>1, <1>2, <2>1 DEF PausedSince
  <2>2. CASE start.counted /\ rt.pause # NoTime
    <3>1. rt.pause \in Nat /\ since = rt.pause /\ start.last <= rt.pause
      BY <1>1, <1>2, <2>2
    <3>2. PausedSince(start) = (rt.paused - start.seen) + (clock - rt.pause)
      BY <1>2, <2>2, <3>1 DEF PausedSince
    <3> QED
      BY <1>1, <1>2, <2>2, <3>1, <3>2
  <2>3. CASE ~start.counted
    BY <1>1, <1>2, <2>3
  <2> QED
    BY <2>1, <2>2, <2>3
<1>4. rt.status = "starting" => rt.pause = NoTime
  <2>1. rt.status = "starting" => rt.fin = "none"
    BY DEF IInv, TypeOK, Runtime, Phases
  <2> QED
    BY <2>1 DEF IInv, TypeOK, Phases
<1>5. used \in Time /\ clock \in Time /\ rt.paused \in Time /\ start \in Start
  <2>1. start.given \in Time /\ clock \in Time /\ rt.paused \in Time /\ start \in Start
    BY DEF IInv, TypeOK, Runtime, Start
  <2> QED
    BY <1>3, <2>1, TypeFacts DEF IInv, Time
<1>6. Checked(start) = [start EXCEPT !.woken = FALSE, !.used = used, !.last = clock,
                                     !.seen = rt.paused, !.counted = (rt.status = "starting")]
  BY DEF Checked
<1> HIDE DEF used
<1>7. /\ Checked(start) \in Start
      /\ Checked(start).at = start.at /\ Checked(start).turn = start.turn
      /\ Checked(start).given = start.given /\ Checked(start).used = used
      /\ Checked(start).last = clock /\ Checked(start).seen = rt.paused
      /\ Checked(start).counted = (rt.status = "starting")
  BY <1>5, <1>6 DEF Start
<1> QED
  BY <1>1, <1>3, <1>4, <1>7

(* A turn of the loop after which the start waits on.                      *)
LEMMA CheckedKeeps ==
    ASSUME IInv, start.at = "waiting", start' = Checked(start),
           UNCHANGED <<rt, clock, reader, controls, resolving, shown, core, up, down>>
    PROVE  IInv'
<1>1. /\ start' \in Start /\ start'.at = start.at /\ start'.turn = start.turn
      /\ start'.given = start.given /\ start'.used <= start.given
      /\ start'.last = clock /\ start'.seen = rt.paused
      /\ start'.counted => start'.used <= clock - rt.paused /\ rt.pause = NoTime
  BY CheckedFacts
<1>2. Clocks'
  <2>1. /\ rt.paused \in Nat /\ clock \in Nat /\ rt.pause \in Nat \cup {NoTime}
        /\ NoTime \in Int \ Nat
    BY TypeFacts DEF IInv
  <2> QED
    BY <1>1, <2>1 DEF IInv, Clocks
<1>3. TypeOK' /\ Queues' /\ Phases'
  BY <1>1 DEF IInv, TypeOK, Queues, Phases, Live
<1>4. Asks' /\ RequestsAnswerable' /\ Unstarted' /\ Finishes' /\ ControlGetsItsReply' /\ Publishing'
  BY <1>1 DEF IInv, Asks, Deaf, RequestsAnswerable, Unread, Unstarted, NoReply,
     Finishes, ControlGetsItsReply, Publishing, Live, Finalizing
<1>5. Works'
  BY DEF IInv, Works, Bound, NoReply
<1> QED
  BY <1>2, <1>3, <1>4, <1>5 DEF IInv

(* Core is ready: the Runtime is idle, or its first Turn is written.       *)
LEMMA ReadinessKeeps ==
    ASSUME IInv, start.at = "waiting", Live, rt.status = "starting",
           rt' = [rt EXCEPT !.status = IF start.turn = 0 THEN "idle" ELSE "running",
                            !.busy = (start.turn # 0), !.ready = (start.turn = 0)],
           shown' = rt'.status,
           down' = IF start.turn = 0 THEN down ELSE Write("turn", start.turn, 0),
           start' = StartEnded, clock' = 0,
           UNCHANGED <<reader, controls, resolving, core, up>>
    PROVE  IInv'
<1>1. /\ rt \in Runtime /\ rt.fin = "none" /\ rt.turn = start.turn /\ rt.control = 0
      /\ rt.perm = 0 /\ rt.trust = 0 /\ rt.pause = NoTime
  BY DEF IInv, TypeOK, Runtime, Phases
<1>2. /\ rt' \in Runtime /\ rt'.fin = "none"
      /\ rt'.status = IF rt.turn = 0 THEN "idle" ELSE "running"
      /\ rt'.busy = (rt.turn # 0) /\ rt'.turn = rt.turn /\ rt'.turns = rt.turns
      /\ rt'.perm = 0 /\ rt'.trust = 0 /\ rt'.control = 0
      /\ rt'.pause = NoTime /\ rt'.paused = rt.paused
  <2>1. rt' \in Runtime
    BY <1>1, ZenonT(60) DEF Runtime
  <2>2. /\ rt'.fin = rt.fin /\ rt'.status = IF rt.turn = 0 THEN "idle" ELSE "running"
        /\ rt'.busy = (rt.turn # 0) /\ rt'.turn = rt.turn /\ rt'.turns = rt.turns
        /\ rt'.perm = rt.perm /\ rt'.trust = rt.trust /\ rt'.control = rt.control
        /\ rt'.pause = rt.pause /\ rt'.paused = rt.paused
    BY <1>1 DEF Runtime
  <2> QED
    BY <1>1, <2>1, <2>2
<1>3. start' \in Start /\ start'.at = "ended" /\ clock' \in Time /\ Clocks'
  BY <1>2, StartEndedKeeps
<1>4. /\ \A k \in DOMAIN down : ~IsWork(down[k])
      /\ core.next = "none" /\ core.at \notin {"turn", "control"}
      /\ NoReply /\ core.done = {}
      /\ \A i \in DOMAIN up : up[i].type \notin {"permission", "finished"}
  BY DEF IInv, Unstarted
<1>5. /\ down' \in Seq(DownMessage)
      /\ \A k \in DOMAIN down : k \in DOMAIN down' /\ down'[k] = down[k]
      /\ \A k \in DOMAIN down' : \/ k \in DOMAIN down
                                 \/ /\ rt.turn # 0 /\ k = Len(down) + 1
                                    /\ down'[k].type = "turn" /\ down'[k].id = rt.turn
  <2> DEFINE turn == [type |-> "turn", id |-> start.turn, for |-> 0]
  <2>1. turn \in DownMessage /\ turn.type = "turn" /\ turn.id = start.turn
    BY TypeFacts DEF DownMessage, IInv
  <2>2. down \in Seq(DownMessage)
    BY DEF IInv, Queues
  <2>3. CASE start.turn = 0
    BY <2>2, <2>3
  <2>4. CASE start.turn # 0
    <3>1. down' = Append(down, turn)
      BY <2>4 DEF Write
    <3> HIDE DEF turn
    <3> QED
      BY <1>1, <2>1, <2>2, <2>4, <3>1, Appended, SMTT(20)
  <2> QED
    BY <2>3, <2>4
<1>6. TypeOK' /\ Queues' /\ ControlGetsItsReply' /\ Publishing'
  <2>1. shown' \in {"idle", "running"}
    BY <1>2
  <2> QED
    BY <1>2, <1>3, <1>5, <2>1
       DEF IInv, TypeOK, Queues, ControlGetsItsReply, Publishing
<1>7. Phases'
  <2>1. rt.turn <= rt.turns /\ rt'.control <= Len(controls')
    BY <1>1, <1>2 DEF IInv, Phases
  <2>2. /\ rt'.status \in {"idle", "running"} /\ rt'.fin = "none"
        /\ rt'.turn # 0 => rt'.control = 0 /\ rt'.busy
    BY <1>2
  <2> QED
    BY <1>1, <1>2, <1>3, <2>1, <2>2 DEF Phases
<1>8. \A k \in DOMAIN down' : IsAnswer(down'[k]) => k \in DOMAIN down /\ down'[k] = down[k]
  BY <1>5 DEF IsAnswer
<1>9. Asks'
  BY <1>1, <1>2, <1>8 DEF IInv, Asks, Deaf
<1>10. RequestsAnswerable'
  BY <1>1, <1>2, <1>5, <1>8 DEF IInv, RequestsAnswerable, Unread, IsAnswer
<1>11. Works'
  <2>1. rt.turn # 0 => rt.turn \in Turn \ core.done /\ rt.turn <= rt.turns
    BY <1>4, TypeFacts DEF IInv, Phases, TypeOK, Runtime, Turn
  <2>2. rt.turn # 0 => Bound("turn", rt.turn)'
    BY <1>1, <1>2, <2>1 DEF Bound
  <2> QED
    BY <1>2, <1>4, <1>5, <2>2 DEF IInv, Works, NoReply, IsWork
<1>12. Unstarted' /\ Finishes'
  BY <1>2, <1>3, <1>4 DEF IInv, Unstarted, Finishes
<1> QED
  BY <1>3, <1>6, <1>7, <1>9, <1>10, <1>11, <1>12 DEF IInv

LEMMA StartChecksKeeps == ASSUME IInv, StartChecks PROVE IInv'
<1>1. start.at = "waiting" /\ UNCHANGED <<reader, controls, resolving, core, up>>
  BY DEF StartChecks
<1>2. CASE StartFails /\ UNCHANGED <<shown, down>>
  BY <1>1, <1>2, StartFailsKeeps
<1>3. CASE start' = Checked(start) /\ UNCHANGED <<rt, clock, shown, down>>
  BY <1>1, <1>3, CheckedKeeps
<1>4. CASE /\ Live /\ ~Finalizing /\ rt.ready /\ rt.status = "starting"
           /\ rt' = [rt EXCEPT !.status = IF start.turn = 0 THEN "idle" ELSE "running",
                               !.busy = (start.turn # 0), !.ready = (start.turn = 0)]
           /\ shown' = rt'.status
           /\ down' = IF start.turn = 0 THEN down ELSE Write("turn", start.turn, 0)
           /\ start' = StartEnded /\ clock' = 0
  BY <1>1, <1>4, ReadinessKeeps
<1> QED
  BY <1>2, <1>3, <1>4 DEF StartChecks

-----------------------------------------------------------------------------
(* The reader: the queue of messages moves up by one.                      *)
ReadStep ==
    /\ reader = "reading" /\ up # <<>> /\ up' = Tail(up)
    /\ UNCHANGED <<reader, resolving, clock, core, down>>

LEMMA ReadFacts ==
    ASSUME IInv, ReadStep
    PROVE  /\ Head(up) \in UpMessage /\ Head(up) = up[1] /\ 1 \in DOMAIN up
           /\ Queues' /\ Len(up') <= MaxUp /\ DOMAIN up' \subseteq Nat \ {0}
           /\ \A i \in DOMAIN up' : i + 1 \in DOMAIN up /\ up'[i] = up[i + 1]
           /\ \A j \in DOMAIN up : j # 1 =>
                j - 1 \in DOMAIN up' /\ up'[j - 1] = up[j]
           /\ rt.fin = "none" <=> ~Finalizing
           /\ rt.fin # "ended"
<1>1. /\ up \in Seq(UpMessage) /\ down \in Seq(DownMessage)
      /\ up # <<>> /\ up' = Tail(up) /\ down' = down /\ reader # "ended"
  BY DEF ReadStep, IInv, Queues
<1>2. /\ Head(up) \in UpMessage /\ Head(up) = up[1] /\ 1 \in DOMAIN up
      /\ up' \in Seq(UpMessage) /\ Len(up') = Len(up) - 1
      /\ \A i \in DOMAIN up' : i + 1 \in DOMAIN up /\ up'[i] = up[i + 1]
      /\ \A j \in DOMAIN up : j # 1 => j - 1 \in DOMAIN up' /\ up'[j - 1] = up[j]
  BY <1>1, Tailed
<1>3. Len(up') <= MaxUp /\ DOMAIN up' \subseteq Nat \ {0}
  <2>1. Len(up) <= MaxUp /\ MaxUp \in Nat
    BY TypeFacts DEF IInv, TypeOK
  <2> QED
    BY <1>1, <1>2, <2>1
<1>4. (rt.fin = "none" <=> ~Finalizing) /\ rt.fin # "ended"
  BY <1>1 DEF IInv, TypeOK, Runtime, Phases, Finalizing
<1> QED
  BY <1>1, <1>2, <1>3, <1>4 DEF Queues

(* The requests that are not read yet move up.                             *)
LEMMA ReadShifts ==
    ASSUME IInv, ReadStep
    PROVE  /\ \A i \in DOMAIN up' : IsAsk(up'[i]) =>
                /\ up'[i].id \in Request /\ (core.ask = up'[i].id \/ Deaf)
                /\ rt.perm = 0 /\ rt.trust = 0
                /\ \A j \in DOMAIN up' : IsAsk(up'[j]) => j = i
                /\ \A k \in DOMAIN down : ~IsAnswer(down[k])
           /\ \A i \in DOMAIN up' : IsReply(up'[i]) =>
                /\ Bound("control", up'[i].id)
                /\ \A j \in DOMAIN up' : IsReply(up'[j]) => j = i
           /\ NoReply => NoReply'
           /\ \A r : Unread(r) => Unread(r)' \/ (IsAsk(up[1]) /\ up[1].id = r)
           /\ IsAsk(up[1]) => \A i \in DOMAIN up' : ~IsAsk(up'[i])
           /\ IsReply(up[1]) => NoReply'
<1>1. /\ 1 \in DOMAIN up /\ DOMAIN up' \subseteq Nat \ {0}
      /\ \A i \in DOMAIN up' : i + 1 \in DOMAIN up /\ up'[i] = up[i + 1]
      /\ \A j \in DOMAIN up : j # 1 => j - 1 \in DOMAIN up' /\ up'[j - 1] = up[j]
  BY ReadFacts
<1>2. \A i, j \in DOMAIN up' : (i + 1 = j + 1 => i = j) /\ i + 1 # 1
  BY <1>1
<1>3. ASSUME NEW i \in DOMAIN up', IsAsk(up'[i])
      PROVE  /\ up'[i].id \in Request /\ (core.ask = up'[i].id \/ Deaf)
             /\ rt.perm = 0 /\ rt.trust = 0
             /\ \A j \in DOMAIN up' : IsAsk(up'[j]) => j = i
             /\ \A k \in DOMAIN down : ~IsAnswer(down[k])
  BY <1>1, <1>2, <1>3 DEF IInv, Asks
<1>4. ASSUME NEW i \in DOMAIN up', IsReply(up'[i])
      PROVE  /\ Bound("control", up'[i].id)
             /\ \A j \in DOMAIN up' : IsReply(up'[j]) => j = i
  BY <1>1, <1>2, <1>4 DEF IInv, Works
<1>5. NoReply => NoReply'
  BY <1>1 DEF NoReply
<1>6. ASSUME NEW r, Unread(r) PROVE Unread(r)' \/ (IsAsk(up[1]) /\ up[1].id = r)
  <2>1. PICK j \in DOMAIN up : up[j].type \in {"trust", "permission"} /\ up[j].id = r
    BY <1>6 DEF Unread
  <2> QED
    BY <1>1, <2>1 DEF Unread, IsAsk
<1>7. IsAsk(up[1]) => \A i \in DOMAIN up' : ~IsAsk(up'[i])
  BY <1>1, <1>2 DEF IInv, Asks
<1>8. IsReply(up[1]) => NoReply'
  BY <1>1, <1>2 DEF IInv, Works, NoReply
<1> QED
  BY <1>3, <1>4, <1>5, <1>6, <1>7, <1>8

(* A message that only sets a flag, or is discarded.                       *)
LEMMA DiscardKeeps ==
    ASSUME IInv, ReadStep,
           \/ rt' = rt
           \/ \E b \in BOOLEAN : rt' \in {[rt EXCEPT !.ready = b], [rt EXCEPT !.closed = b]},
           start' = start \/ start' = Woken, UNCHANGED <<controls, shown>>,
           IsAsk(up[1]) => Finalizing,
           up[1].type = "finished" => Rejected(up[1].id)
    PROVE  IInv'
<1>1. /\ up[1] \in UpMessage /\ 1 \in DOMAIN up
      /\ Queues' /\ Len(up') <= MaxUp /\ DOMAIN up' \subseteq Nat \ {0}
      /\ \A i \in DOMAIN up' : i + 1 \in DOMAIN up /\ up'[i] = up[i + 1]
      /\ \A j \in DOMAIN up : j # 1 => j - 1 \in DOMAIN up' /\ up'[j - 1] = up[j]
      /\ rt.fin = "none" <=> ~Finalizing
  BY ReadFacts
<1>2. UNCHANGED <<reader, resolving, clock, core, down>>
  BY DEF ReadStep
<1>3. /\ rt' \in Runtime /\ rt'.fin = rt.fin
      /\ rt'.status = rt.status /\ rt'.turn = rt.turn /\ rt'.turns = rt.turns
      /\ rt'.perm = rt.perm /\ rt'.trust = rt.trust /\ rt'.control = rt.control
      /\ rt'.pause = rt.pause /\ rt'.paused = rt.paused /\ rt'.resume = rt.resume
      /\ rt'.busy = rt.busy
  BY DEF IInv, TypeOK, Runtime
<1>4. start' \in Start /\ start'.at = start.at /\ start'.turn = start.turn /\ Clocks'
  <2>1. CASE start' = start
    BY <1>2, <1>3, <2>1 DEF IInv, TypeOK, Clocks
  <2>2. CASE start' = Woken
    BY <1>2, <1>3, <2>2, WokenKeeps
  <2> QED
    BY <2>1, <2>2
<1>5. TypeOK' /\ ControlGetsItsReply' /\ Publishing'
  BY <1>1, <1>2, <1>3, <1>4 DEF IInv, TypeOK, ControlGetsItsReply, Publishing, Live, Finalizing
<1>6. Phases'
  BY <1>2, <1>3, <1>4 DEF IInv, Phases, Live
<1>7. Asks'
  BY <1>2, <1>3, ReadShifts DEF IInv, Asks, Deaf
<1>8. RequestsAnswerable'
  BY <1>1, <1>2, <1>3, ReadShifts DEF IInv, RequestsAnswerable
<1>9. Works'
  <2>1. \A kind, id : Bound(kind, id)' <=> Bound(kind, id)
    BY <1>2, <1>3 DEF Bound
  <2> QED
    BY <1>2, <1>3, <2>1, ReadShifts DEF IInv, Works
<1>10. Unstarted'
  BY <1>1, <1>2, <1>4, ReadShifts DEF IInv, Unstarted
<1>11. Finishes'
  <2>1. ASSUME rt.fin = "none", rt.turn \in core.done
        PROVE  \E i \in DOMAIN up' :
                  /\ up'[i].type = "finished" /\ up'[i].id = rt.turn
                  /\ \A j \in 1..i : ~IsAsk(up'[j])
    <3>1. PICK i \in DOMAIN up : /\ up[i].type = "finished" /\ up[i].id = rt.turn
                                 /\ \A j \in 1..i : ~IsAsk(up[j])
      BY <2>1 DEF IInv, Finishes
    <3>2. rt.turn # 0 /\ rt.busy
      BY <2>1, <1>4 DEF IInv, TypeOK, Start, Turn, Core, Phases, Unstarted
    <3>3. i # 1
      BY <1>1, <2>1, <3>1, <3>2 DEF Rejected
    <3>4. i \in Nat /\ i - 1 \in DOMAIN up' /\ up'[i - 1] = up[i]
      BY <1>1, <3>3 DEF IInv, Queues
    <3>5. \A j \in 1..(i - 1) : j \in DOMAIN up' /\ j + 1 \in 1..i
      BY <1>1, <3>3, <3>4 DEF Queues
    <3> QED
      BY <1>1, <3>1, <3>4, <3>5
  <2>2. \A i \in DOMAIN up' : up'[i].type = "finished" => up'[i].id \in core.done
    BY <1>1 DEF IInv, Finishes
  <2> QED
    BY <1>2, <1>3, <2>1, <2>2 DEF IInv, Finishes
<1> QED
  BY <1>1, <1>4, <1>5, <1>6, <1>7, <1>8, <1>9, <1>10, <1>11 DEF IInv

LEMMA AskReceivedKeeps ==
    ASSUME IInv, ReadStep, IsAsk(up[1]), ~Finalizing, AskReceived(up[1])
    PROVE  IInv'
<1> DEFINE m == up[1]
<1>1. /\ m \in UpMessage /\ 1 \in DOMAIN up
      /\ Queues' /\ Len(up') <= MaxUp /\ DOMAIN up' \subseteq Nat \ {0}
      /\ \A i \in DOMAIN up' : i + 1 \in DOMAIN up /\ up'[i] = up[i + 1]
      /\ rt.fin = "none"
  BY ReadFacts
<1>2. /\ m.id \in Request /\ (core.ask = m.id \/ Deaf)
      /\ rt.perm = 0 /\ rt.trust = 0 /\ rt.pause = NoTime
      /\ \A k \in DOMAIN down : ~IsAnswer(down[k])
  BY <1>1 DEF IInv, Asks, TypeOK
<1>3. /\ shown' = rt'.status /\ start' = Woken
      /\ UNCHANGED <<reader, controls, resolving, clock, core, down>>
  BY DEF AskReceived, ReadStep
<1>4. rt.status \in {"starting", "idle", "running"}
  BY <1>1, <1>2 DEF IInv, TypeOK, Runtime, Phases
<1>5. m.id \in Nat \ {0} /\ m.id \in 0..MaxAsk /\ clock \in Time /\ clock # NoTime
  <2>1. MaxAsk \in Nat /\ clock \in Nat /\ NoTime \notin Nat /\ clock \in Time
    BY TypeFacts DEF IInv, TypeOK
  <2> HIDE DEF m
  <2> QED
    BY <1>2, <2>1 DEF Request
<1>6. /\ rt' \in Runtime /\ rt'.fin = "none" /\ (rt'.pause # NoTime <=> rt'.trust # 0)
      /\ rt'.turn = rt.turn /\ rt'.turns = rt.turns /\ rt'.control = rt.control
      /\ rt'.paused = rt.paused /\ rt'.busy = rt.busy
      /\ \/ /\ m.type = "trust" /\ rt'.trust = m.id /\ rt'.perm = 0 /\ rt'.resume = rt.status
            /\ rt'.pause = clock /\ rt'.status = "waiting_mcp_trust"
         \/ /\ m.type = "permission" /\ rt'.perm = m.id /\ rt'.trust = 0
            /\ rt'.pause = NoTime /\ rt'.status = "waiting_permission"
  <2> HIDE DEF m
  <2>1. m.type \in {"trust", "permission"} /\ AskReceived(m)
    BY DEF IsAsk, m
  <2>2. CASE m.type = "trust"
    <3>1. rt' = [rt EXCEPT !.resume = rt.status, !.trust = m.id, !.pause = clock,
                           !.status = "waiting_mcp_trust"]
      BY <2>1, <2>2 DEF AskReceived
    <3> QED
      BY <1>1, <1>2, <1>4, <1>5, <2>2, <3>1 DEF IInv, TypeOK, Runtime
  <2>3. CASE m.type = "permission"
    <3>1. rt' = [rt EXCEPT !.perm = m.id, !.status = "waiting_permission"]
      BY <2>1, <2>3 DEF AskReceived
    <3> QED
      BY <1>1, <1>2, <1>4, <1>5, <2>3, <3>1 DEF IInv, TypeOK, Runtime
  <2> QED
    BY <2>1, <2>2, <2>3
<1>7. start.at = "waiting" => m.type = "trust"
  BY <1>1 DEF IInv, Unstarted, IsAsk
<1>8. /\ start' \in Start /\ start'.at = start.at /\ start'.turn = start.turn
      /\ start'.woken = (start.at = "waiting")
      /\ start'.used = start.used /\ start'.last = start.last
      /\ start'.seen = start.seen /\ start'.counted = start.counted
      /\ start'.given = start.given /\ start.at \in {"waiting", "ended"}
  BY <1>3 DEF Woken, IInv, TypeOK, Start
<1> HIDE DEF m
<1>9. Clocks'
  <2>1. CASE start.at = "ended"
    BY <1>3, <1>6, <1>8, <2>1 DEF IInv, Clocks
  <2>2. CASE start.at = "waiting"
    <3>1. /\ clock' = clock /\ rt'.pause = clock /\ rt'.paused = rt.paused /\ start'.woken
      BY <1>3, <1>6, <1>7, <1>8, <2>2
    <3>2. /\ rt.paused <= clock /\ start.given = clock - rt.paused
          /\ start.seen <= rt.paused /\ start.last <= clock /\ start.used <= start.given
          /\ start.counted => /\ start.used <= start.last - start.seen
                              /\ rt.paused - start.seen <= clock - start.last
      BY <1>2, <2>2 DEF IInv, Clocks
    <3>3. clock \in Nat /\ clock # NoTime
      BY <1>5, TypeFacts DEF IInv
    <3> QED
      BY <1>8, <2>2, <3>1, <3>2, <3>3 DEF Clocks
  <2> QED
    BY <1>8, <2>1, <2>2
<1>10. TypeOK' /\ ControlGetsItsReply' /\ Publishing'
  BY <1>1, <1>3, <1>6, <1>8 DEF IInv, TypeOK, Queues, ControlGetsItsReply, Publishing
<1>11. Phases'
  BY <1>1, <1>2, <1>3, <1>4, <1>5, <1>6, <1>7, <1>8 DEF IInv, Phases, Live
<1>12. Asks'
  <2>1. \A i \in DOMAIN up' : ~IsAsk(up'[i])
    BY ReadShifts
  <2> QED
    BY <1>2, <1>3, <1>5, <1>6, <2>1 DEF IInv, Asks, Deaf
<1>13. RequestsAnswerable'
  <2>1. core.ask # 0 => core.ask = m.id
    BY <1>2 DEF IInv, Asks
  <2> QED
    BY <1>2, <1>3, <1>5, <1>6, <2>1 DEF IInv, RequestsAnswerable, IsAnswer
<1>14. Works'
  <2>1. \A kind, id : Bound(kind, id)' <=> Bound(kind, id)
    BY <1>1, <1>3, <1>6 DEF Bound
  <2> QED
    BY <1>3, <1>6, <2>1, ReadShifts DEF IInv, Works
<1>15. Unstarted'
  BY <1>1, <1>3, <1>8, ReadShifts DEF IInv, Unstarted
<1>16. Finishes'
  <2>1. rt.turn \notin core.done
    <3>1. ASSUME NEW i \in DOMAIN up PROVE 1 \in 1..i
      BY DEF IInv, Queues
    <3> QED
      BY <1>1, <3>1 DEF IInv, Finishes
  <2> QED
    BY <1>1, <1>3, <1>6, <2>1 DEF IInv, Finishes
<1> QED
  BY <1>1, <1>9, <1>10, <1>11, <1>12, <1>13, <1>14, <1>15, <1>16 DEF IInv

LEMMA FinishReceivedKeeps ==
    ASSUME IInv, ReadStep, up[1].type = "finished", ~Rejected(up[1].id),
           FinishReceived(up[1])
    PROVE  IInv'
<1>1. /\ 1 \in DOMAIN up /\ Queues' /\ Len(up') <= MaxUp
      /\ \A i \in DOMAIN up' : i + 1 \in DOMAIN up /\ up'[i] = up[i + 1]
      /\ rt.fin = "none"
  BY ReadFacts DEF Rejected
<1>2. /\ rt' = [rt EXCEPT !.busy = FALSE, !.perm = 0, !.status = "idle", !.turn = 0]
      /\ shown' = "idle" /\ start' = Woken
      /\ UNCHANGED <<reader, controls, resolving, clock, core, down>>
  BY DEF FinishReceived, ReadStep
<1>3. /\ rt.turn # 0 /\ rt.turn \in core.done /\ rt.perm = 0 /\ rt.trust = 0
      /\ rt.pause = NoTime /\ rt.control = 0
  BY <1>1 DEF Rejected, IInv, Finishes, TypeOK, Phases
<1>4. start.at = "ended"
  BY <1>1, <1>3 DEF IInv, TypeOK, Start, Unstarted
<1>5. /\ rt' \in Runtime /\ rt'.fin = "none" /\ rt'.status = "idle" /\ rt'.turn = 0
      /\ rt'.turns = rt.turns /\ rt'.perm = 0 /\ rt'.trust = 0 /\ rt'.control = 0
      /\ rt'.pause = NoTime /\ rt'.paused = rt.paused
  <2>1. 0 \in 0..MaxTurn /\ 0 \in 0..MaxAsk
    BY TypeFacts DEF IInv
  <2> QED
    BY <1>1, <1>2, <1>3, <2>1 DEF IInv, TypeOK, Runtime
<1>6. start' \in Start /\ start'.at = "ended" /\ Clocks'
  BY <1>1, <1>2, <1>3, <1>4, <1>5, WokenKeeps
<1>7. TypeOK' /\ ControlGetsItsReply' /\ Publishing'
  BY <1>1, <1>2, <1>5, <1>6 DEF IInv, TypeOK, Queues, ControlGetsItsReply, Publishing
<1>8. Phases'
  <2>1. 0 <= rt'.turns /\ 0 <= Len(controls')
    <3>1. rt.turns \in Nat /\ Len(controls) \in Nat
      BY TypeFacts, ControlsFacts DEF IInv
    <3> QED
      BY <1>2, <1>5, <3>1
  <2> QED
    BY <1>2, <1>5, <1>6, <2>1 DEF Phases
<1>9. Asks'
  BY <1>2, <1>3, <1>5, ReadShifts DEF IInv, Asks, Deaf
<1>10. RequestsAnswerable'
  <2>1. ~IsAsk(up[1])
    BY DEF IsAsk
  <2> QED
    BY <1>1, <1>2, <1>3, <1>5, <2>1, ReadShifts DEF IInv, RequestsAnswerable
<1>11. Works'
  <2>1. \A kind, id : Bound(kind, id) => Bound(kind, id)'
    BY <1>1, <1>2, <1>3, <1>5 DEF Bound
  <2> QED
    BY <1>2, <1>5, <2>1, ReadShifts DEF IInv, Works
<1>12. Unstarted'
  BY <1>6 DEF Unstarted
<1>13. Finishes'
  <2>1. 0 \notin core.done
    BY DEF IInv, TypeOK, Core, Turn
  <2> QED
    BY <1>1, <1>2, <1>5, <2>1 DEF IInv, Finishes
<1> QED
  BY <1>1, <1>6, <1>7, <1>8, <1>9, <1>10, <1>11, <1>12, <1>13 DEF IInv

LEMMA ReplyReceivedKeeps ==
    ASSUME IInv, ReadStep, IsReply(up[1]), rt.control # 0,
           ReplyReceived(up[1]), controls[rt.control].kind = controls[up[1].id].kind
    PROVE  IInv'
<1>1. /\ 1 \in DOMAIN up /\ Queues' /\ Len(up') <= MaxUp
      /\ \A i \in DOMAIN up' : i + 1 \in DOMAIN up /\ up'[i] = up[i + 1]
      /\ rt.fin # "ended"
  BY ReadFacts
<1>2. PICK at \in {"answered", "failed"} :
        /\ rt' = [rt EXCEPT !.control = 0, !.busy = FALSE]
        /\ controls' = [controls EXCEPT ![rt.control].at = at, ![rt.control].got = up[1].id]
  BY DEF ReplyReceived
<1>3. UNCHANGED <<start, shown, reader, resolving, clock, core, down>>
  BY DEF ReplyReceived, ReadStep
<1>4. up[1].id = rt.control /\ rt.control \in 1..Len(controls) /\ NoReply'
  BY <1>1, ReadShifts DEF IInv, Works, Bound
<1>5. /\ controls \in Seq(ControlCall) /\ DOMAIN controls = 1..Len(controls)
      /\ Len(controls) \in Nat /\ rt.control \in 0..MaxControl
  BY ControlsFacts DEF IInv, TypeOK, Runtime
<1>6. /\ controls' \in Seq(ControlCall) /\ Len(controls') = Len(controls)
      /\ DOMAIN controls' = DOMAIN controls
      /\ \A i \in DOMAIN controls : i # rt.control => controls'[i] = controls[i]
      /\ controls'[rt.control].got = rt.control
  <2> DEFINE call == [controls[rt.control] EXCEPT !.at = at, !.got = rt.control]
  <2>1. controls[rt.control] \in ControlCall
    BY <1>4, <1>5
  <2>2. call \in ControlCall /\ call.got = rt.control
    BY <1>5, <2>1 DEF ControlCall
  <2>3. controls' = [controls EXCEPT ![rt.control] = call]
    BY <1>2, <1>4, <1>5, <2>1 DEF ControlCall
  <2> HIDE DEF call
  <2> QED
    BY <1>4, <1>5, <2>2, <2>3
<1>7. /\ rt' \in Runtime /\ rt'.fin = rt.fin /\ rt'.status = rt.status
      /\ rt'.turn = rt.turn /\ rt'.turns = rt.turns /\ rt'.perm = rt.perm
      /\ rt'.trust = rt.trust /\ rt'.control = 0 /\ rt'.resume = rt.resume
      /\ rt'.pause = rt.pause /\ rt'.paused = rt.paused
  <2>1. 0 \in 0..MaxControl
    BY TypeFacts DEF IInv
  <2> QED
    BY <1>2, <2>1 DEF IInv, TypeOK, Runtime
<1>8. TypeOK' /\ Publishing'
  BY <1>1, <1>3, <1>6, <1>7 DEF IInv, TypeOK, Queues, Publishing, Live, Finalizing
<1>9. Phases' /\ Clocks'
  <2>1. 0 <= Len(controls') /\ rt.turn = 0
    BY <1>4, <1>5, <1>6 DEF IInv, Phases
  <2>2. Phases'
    BY <1>1, <1>3, <1>4, <1>7, <2>1 DEF IInv, Phases, Live
  <2>3. Clocks'
    BY <1>3, <1>7 DEF IInv, Clocks
  <2> QED
    BY <2>2, <2>3
<1>10. Asks'
  BY <1>3, <1>7, ReadShifts DEF IInv, Asks, Deaf
<1>11. RequestsAnswerable'
  <2>1. ~IsAsk(up[1])
    BY DEF IsAsk, IsReply
  <2> QED
    BY <1>1, <1>3, <1>7, <2>1, ReadShifts DEF IInv, RequestsAnswerable
<1>12. Works'
  <2>1. ~NoReply
    BY <1>1 DEF NoReply
  <2>2. /\ \A k \in DOMAIN down : ~IsWork(down[k])
        /\ core.next = "none" /\ core.at \notin {"turn", "control"}
    BY <2>1 DEF IInv, Works
  <2> QED
    BY <1>3, <1>4, <1>7, <2>2 DEF IInv, Works, NoReply
<1>13. Unstarted'
  BY <1>1, <1>3, ReadShifts DEF IInv, Unstarted
<1>14. Finishes'
  <2>1. rt.turn = 0 /\ 0 \notin core.done
    BY <1>4 DEF IInv, TypeOK, Core, Turn, Phases
  <2> QED
    BY <1>1, <1>3, <1>7, <2>1 DEF IInv, Finishes
<1>15. ControlGetsItsReply'
  BY <1>6 DEF IInv, ControlGetsItsReply
<1> QED
  BY <1>1, <1>8, <1>9, <1>10, <1>11, <1>12, <1>13, <1>14, <1>15 DEF IInv

LEMMA ReaderReadsKeeps == ASSUME IInv, ReaderReads PROVE IInv'
<1>1. ReadStep
  BY DEF ReaderReads, ReadStep
<1>2. Head(up) = up[1]
  BY <1>1, ReadFacts
<1>3. CASE up[1].type = "ready" /\ ReadyReceived
  BY <1>1, <1>3, DiscardKeeps DEF ReadyReceived, IsAsk
<1>4. CASE IsAsk(up[1]) /\ AskReceived(up[1])
  <2>1. CASE Finalizing
    <3>1. UNCHANGED <<rt, start, controls, shown>> /\ up[1].type # "finished"
      BY <1>4, <2>1 DEF AskReceived, IsAsk
    <3> QED
      BY <1>1, <2>1, <3>1, DiscardKeeps
  <2> QED
    BY <1>1, <1>4, <2>1, AskReceivedKeeps
<1>5. CASE up[1].type = "finished" /\ FinishReceived(up[1])
  <2>1. CASE Rejected(up[1].id)
    <3>1. UNCHANGED <<rt, start, controls, shown>> /\ ~IsAsk(up[1])
      BY <1>5, <2>1 DEF FinishReceived, IsAsk
    <3> QED
      BY <1>1, <2>1, <3>1, DiscardKeeps
  <2> QED
    BY <1>1, <1>5, <2>1, FinishReceivedKeeps
<1>6. CASE IsReply(up[1]) /\ ReplyReceived(up[1])
  <2>1. CASE rt.control = 0 \/ controls[rt.control].kind # controls[up[1].id].kind
    <3>1. /\ UNCHANGED <<rt, start, controls, shown>>
          /\ ~IsAsk(up[1]) /\ up[1].type # "finished"
      BY <1>6, <2>1 DEF ReplyReceived, IsAsk, IsReply
    <3> QED
      BY <1>1, <3>1, DiscardKeeps
  <2> QED
    BY <1>1, <1>6, <2>1, ReplyReceivedKeeps
<1>7. CASE up[1].type = "closed" /\ ClosedReceived
  BY <1>1, <1>7, DiscardKeeps DEF ClosedReceived, IsAsk
<1> QED
  BY <1>2, <1>3, <1>4, <1>5, <1>6, <1>7 DEF ReaderReads, IsAsk, IsReply

-----------------------------------------------------------------------------
(* The calls of the users.                                                 *)

(* A command is the last one of down.                                      *)
LEMMA Written ==
    ASSUME Queues, NEW type \in {"turn", "control", "answer", "close"},
           NEW id \in Nat, NEW for \in Nat, down' = Write(type, id, for)
    PROVE  /\ down' \in Seq(DownMessage) /\ Len(down) + 1 \notin DOMAIN down
           /\ DOMAIN down' = DOMAIN down \cup {Len(down) + 1}
           /\ down'[Len(down) + 1] = [type |-> type, id |-> id, for |-> for]
           /\ \A k \in DOMAIN down : down'[k] = down[k]
<1>1. [type |-> type, id |-> id, for |-> for] \in DownMessage
  BY DEF DownMessage
<1> QED
  BY <1>1, Appended DEF Queues, Write

(* An idle Runtime of a live Core has nothing under way.                   *)
LEMMA IdleFacts ==
    ASSUME IInv, rt.status = "idle", rt.turn = 0, rt.control = 0
    PROVE  /\ rt.fin = "none" /\ rt.perm = 0 /\ rt.trust = 0 /\ rt.pause = NoTime
           /\ start.at = "ended" /\ NoReply
           /\ \A k \in DOMAIN down : ~IsWork(down[k])
           /\ core.next = "none" /\ core.at \notin {"turn", "control"}
<1>1. rt.fin = "none" /\ start.at = "ended"
  BY DEF IInv, TypeOK, Runtime, Start, Phases
<1>2. rt.perm = 0 /\ rt.trust = 0 /\ rt.pause = NoTime
  BY <1>1 DEF IInv, TypeOK, Phases
<1>3. \A kind, id : Bound(kind, id) => FALSE
  BY <1>1, ControlsFacts DEF IInv, Bound, Turn
<1> QED
  BY <1>1, <1>2, <1>3 DEF IInv, Works, NoReply

(* A Turn or a control is written to an idle Core.                         *)
LEMMA WorkKeeps ==
    ASSUME IInv, rt.status = "idle", rt.turn = 0, rt.control = 0, Live,
           NEW type \in {"turn", "control"}, NEW id, NEW n,
           down' \in Seq(DownMessage), n \notin DOMAIN down,
           DOMAIN down' = DOMAIN down \cup {n},
           down'[n] = [type |-> type, id |-> id, for |-> 0],
           \A k \in DOMAIN down : down'[k] = down[k],
           rt' \in Runtime, rt'.fin = "none", rt'.perm = 0, rt'.trust = 0,
           rt'.turns >= rt.turns, rt'.turn \notin core.done,
           type = "turn" => id \in Turn \ core.done /\ id <= rt'.turns /\ id = rt'.turn,
           type = "control" => id \in 1..Len(controls') /\ rt'.control = id,
           rt'.status \notin {"waiting_permission", "waiting_mcp_trust"},
           start'.at = "ended", UNCHANGED <<core, up>>
    PROVE  Queues' /\ Asks' /\ RequestsAnswerable' /\ Works' /\ Unstarted' /\ Finishes'
<1>1. down'[n].type = type /\ down'[n].id = id
  OBVIOUS
<1>2. /\ rt.fin = "none" /\ rt.perm = 0 /\ rt.trust = 0
      /\ NoReply /\ (\A k \in DOMAIN down : ~IsWork(down[k]))
      /\ core.next = "none" /\ core.at \notin {"turn", "control"}
  BY IdleFacts
<1>3. \A k \in DOMAIN down' : IsAnswer(down'[k]) => k \in DOMAIN down /\ down'[k] = down[k]
  BY <1>1 DEF IsAnswer
<1>4. Queues' /\ Unstarted'
  BY <1>1 DEF IInv, Queues, Unstarted
<1>5. Asks'
  BY <1>2, <1>3 DEF IInv, Asks, Deaf
<1>6. RequestsAnswerable'
  BY <1>1, <1>2, <1>3 DEF IInv, RequestsAnswerable, Unread, IsAnswer
<1>7. Works'
  <2>1. rt.turns \in Nat /\ rt'.turns \in Nat /\ 1..rt.turns \subseteq 1..rt'.turns
    <3>1. rt'.turns \in Nat /\ rt.turns \in Nat
      BY TypeFacts, ProtocolAssumption DEF IInv, Runtime
    <3> QED
      BY <3>1
  <2>4. \A kind, b : kind = type /\ b = id => Bound(kind, b)'
    BY DEF Bound
  <2>2. \A k \in DOMAIN down' : IsWork(down'[k]) => k = n
    BY <1>1, <1>2 DEF IsWork
  <2>3. \A i \in DOMAIN up : ~IsReply(up[i])
    BY <1>2 DEF NoReply
  <2> QED
    BY <1>1, <1>2, <2>1, <2>2, <2>3, <2>4 DEF IInv, Works, NoReply
<1>8. Finishes'
  BY DEF IInv, Finishes
<1> QED
  BY <1>4, <1>5, <1>6, <1>7, <1>8

LEMMA SendTurnKeeps == ASSUME IInv, SendTurn PROVE IInv'
<1>1. /\ rt.status = "idle" /\ Live /\ rt.turn = 0 /\ rt.control = 0 /\ rt.turns < MaxTurn
      /\ rt' = [rt EXCEPT !.status = "running", !.busy = TRUE, !.ready = FALSE,
                          !.turn = rt.turns + 1, !.turns = @ + 1]
      /\ shown' = "running" /\ down' = Write("turn", rt.turns + 1, 0) /\ start' = Woken
      /\ UNCHANGED <<reader, controls, resolving, clock, core, up>>
  BY DEF SendTurn
<1>2. /\ rt.fin = "none" /\ rt.perm = 0 /\ rt.trust = 0 /\ rt.pause = NoTime
      /\ start.at = "ended"
  BY <1>1, IdleFacts
<1>3. /\ rt.turns + 1 \in 0..MaxTurn /\ rt.turns \in Nat /\ rt.turns + 1 \in Turn
      /\ rt.turns + 1 \notin core.done
  <2>1. rt.turns \in Nat /\ MaxTurn \in Nat /\ core.done \subseteq 1..rt.turns
    BY TypeFacts DEF IInv, Works
  <2> QED
    BY <1>1, <2>1 DEF Turn
<1>4. /\ rt' \in Runtime /\ rt'.fin = "none" /\ rt'.status = "running" /\ rt'.busy
      /\ rt'.turn = rt.turns + 1 /\ rt'.turns = rt.turns + 1
      /\ rt'.perm = 0 /\ rt'.trust = 0 /\ rt'.control = 0
      /\ rt'.pause = NoTime /\ rt'.paused = rt.paused
  BY <1>1, <1>2, <1>3 DEF IInv, TypeOK, Runtime
<1>5. start' \in Start /\ start'.at = "ended" /\ Clocks'
  BY <1>1, <1>2, <1>4, WokenKeeps
<1>6. Queues' /\ Asks' /\ RequestsAnswerable' /\ Works' /\ Unstarted' /\ Finishes'
  <2>1. rt'.turns >= rt.turns /\ rt.turns + 1 \in Nat
    BY <1>3, <1>4
  <2>2. /\ down' \in Seq(DownMessage) /\ Len(down) + 1 \notin DOMAIN down
        /\ DOMAIN down' = DOMAIN down \cup {Len(down) + 1}
        /\ down'[Len(down) + 1] = [type |-> "turn", id |-> rt.turns + 1, for |-> 0]
        /\ \A k \in DOMAIN down : down'[k] = down[k]
    <3>1. Queues
      BY DEF IInv
    <3> QED
      BY <1>1, <2>1, <3>1, Written
  <2> QED
    BY <1>1, <1>3, <1>4, <1>5, <2>1, <2>2, WorkKeeps
<1>7. TypeOK' /\ ControlGetsItsReply' /\ Publishing'
  BY <1>1, <1>4, <1>5 DEF IInv, TypeOK, ControlGetsItsReply, Publishing
<1>8. Phases'
  <2>1. 0 <= Len(controls') /\ rt'.turn <= rt'.turns
    BY <1>1, <1>3, <1>4, ControlsFacts DEF IInv
  <2> QED
    BY <1>4, <1>5, <2>1 DEF Phases
<1> QED
  BY <1>5, <1>6, <1>7, <1>8 DEF IInv

LEMMA ControlBeginsKeeps == ASSUME IInv, NEW k \in Kind, ControlBegins(k) PROVE IInv'
<1> DEFINE n == Len(controls) + 1
<1> DEFINE call == [kind |-> k, at |-> "waiting", got |-> 0]
<1>1. /\ rt.status = "idle" /\ Live /\ rt.turn = 0 /\ rt.control = 0
      /\ Len(controls) < MaxControl /\ controls' = Append(controls, call)
      /\ rt' = [rt EXCEPT !.control = n, !.busy = TRUE]
      /\ down' = Write("control", n, 0)
      /\ UNCHANGED <<start, reader, resolving, shown, clock, core, up>>
  BY DEF ControlBegins
<1>2. /\ rt.fin = "none" /\ rt.perm = 0 /\ rt.trust = 0 /\ rt.pause = NoTime
      /\ start.at = "ended"
  BY <1>1, IdleFacts
<1>3. call \in ControlCall /\ call.got = 0
  BY TypeFacts DEF IInv, ControlCall
<1>4. n \in 1..MaxControl /\ n \in 0..MaxControl /\ n \in Nat
  <2>1. Len(controls) \in Nat /\ MaxControl \in Nat
    BY TypeFacts, ControlsFacts DEF IInv
  <2> QED
    BY <1>1, <2>1
<1> HIDE DEF call
<1>5. /\ controls' \in Seq(ControlCall) /\ Len(controls') = n
      /\ DOMAIN controls' = DOMAIN controls \cup {n} /\ controls'[n] = call
      /\ \A i \in DOMAIN controls : controls'[i] = controls[i]
  BY <1>1, <1>3, Appended DEF IInv, TypeOK
<1> HIDE DEF n
<1>6. /\ rt' \in Runtime /\ rt'.fin = "none" /\ rt'.status = "idle" /\ rt'.busy
      /\ rt'.turn = 0 /\ rt'.turns = rt.turns /\ rt'.perm = 0 /\ rt'.trust = 0
      /\ rt'.control = n /\ rt'.pause = NoTime /\ rt'.paused = rt.paused
  BY <1>1, <1>2, <1>4 DEF IInv, TypeOK, Runtime
<1>7. Queues' /\ Asks' /\ RequestsAnswerable' /\ Works' /\ Unstarted' /\ Finishes'
  <2>1. n \in 1..Len(controls')
    BY <1>4, <1>5
  <2>2. rt'.turns >= rt.turns /\ rt'.turn \notin core.done
    BY <1>6, TypeFacts DEF IInv, Turn
  <2>3. /\ down' \in Seq(DownMessage) /\ Len(down) + 1 \notin DOMAIN down
        /\ DOMAIN down' = DOMAIN down \cup {Len(down) + 1}
        /\ down'[Len(down) + 1] = [type |-> "control", id |-> n, for |-> 0]
        /\ \A i \in DOMAIN down : down'[i] = down[i]
    <3>1. Queues
      BY DEF IInv
    <3> QED
      BY <1>1, <1>4, <3>1, Written
  <2> QED
    BY <1>1, <1>2, <1>6, <2>1, <2>2, <2>3, WorkKeeps
<1>8. TypeOK' /\ Publishing'
  <2>1. Len(controls') <= MaxControl
    BY <1>4, <1>5
  <2> QED
    BY <1>1, <1>2, <1>5, <1>6, <2>1 DEF IInv, TypeOK, Publishing, Live, Finalizing
<1>9. ControlGetsItsReply'
  BY <1>3, <1>5 DEF IInv, ControlGetsItsReply
<1>10. Phases' /\ Clocks'
  <2>1. rt'.turn <= rt'.turns /\ rt'.control <= Len(controls')
    <3>1. rt.turns \in Nat
      BY TypeFacts DEF IInv
    <3> QED
      BY <1>4, <1>5, <1>6, <3>1
  <2>2. Phases'
    BY <1>1, <1>2, <1>6, <2>1 DEF Phases
  <2>3. Clocks'
    BY <1>1, <1>2, <1>6 DEF IInv, Clocks
  <2> QED
    BY <2>2, <2>3
<1> QED
  BY <1>7, <1>8, <1>9, <1>10 DEF IInv

LEMMA ResolvePublishesKeeps ==
    ASSUME IInv, NEW c \in resolving, ResolvePublishes(c) PROVE IInv'
<1>1. /\ resolving' = resolving \ {c} /\ shown' \in {c.status, shown}
      /\ shown' = IF rt.turn = c.turn /\ rt.status = c.status /\ Live THEN c.status ELSE shown
      /\ UNCHANGED <<rt, start, reader, controls, clock, core, up, down>>
  BY DEF ResolvePublishes, coreVars
<1>2. c \in [turn : 0..MaxTurn, status : {"starting", "idle", "running"}]
  BY DEF IInv, TypeOK
<1>3. TypeOK' /\ Queues' /\ Phases' /\ Clocks'
  <2>1. c.status \in {"starting", "idle", "running"}
    BY <1>2
  <2>2. TypeOK' /\ Queues' /\ Clocks'
    BY <1>1, <2>1 DEF IInv, TypeOK, Queues, Clocks
  <2>3. Phases'
    BY <1>1 DEF IInv, Phases, Live
  <2> QED
    BY <2>2, <2>3
<1>4. Publishing'
  <2>1. ASSUME Live, ~Finalizing, shown' # rt.status
        PROVE  [turn |-> rt.turn, status |-> rt.status] \in resolving \ {c}
    <3>1. shown' = shown
      BY <1>1, <2>1
    <3>2. [turn |-> rt.turn, status |-> rt.status] \in resolving
      BY <2>1, <3>1 DEF IInv, Publishing
    <3>3. rt.turn # c.turn \/ rt.status # c.status
      BY <1>1, <2>1
    <3> QED
      BY <1>2, <3>2, <3>3
  <2> QED
    BY <1>1, <2>1 DEF Publishing, Live, Finalizing
<1>5. Asks' /\ RequestsAnswerable' /\ Unstarted' /\ Finishes' /\ ControlGetsItsReply'
  BY <1>1 DEF IInv, Asks, Deaf, RequestsAnswerable, Unread, Unstarted, NoReply,
     Finishes, ControlGetsItsReply
<1>6. Works'
  BY <1>1 DEF IInv, Works, Bound, NoReply
<1> QED
  BY <1>3, <1>4, <1>5, <1>6 DEF IInv

(* What a pause that ends adds to paused is not time of the start.         *)
LEMMA PauseEnds ==
    ASSUME IInv, rt.fin = "none", rt.trust # 0
    PROVE  /\ rt.pause \in Nat /\ rt.pause # NoTime
           /\ rt.paused + (clock - rt.pause) \in Time
           /\ start.at = "waiting" =>
                /\ rt.pause <= clock /\ rt.paused <= rt.pause
                /\ start.given = rt.pause - rt.paused
           /\ start.at = "ended" => clock = rt.pause
<1>1. /\ rt.pause # NoTime /\ rt.pause \in Nat /\ rt.paused \in Nat /\ clock \in Nat
      /\ MaxClock \in Nat /\ rt.paused \in Time /\ clock \in Time
  BY TypeFacts DEF IInv, TypeOK, Runtime
<1>2. /\ start.at = "waiting" => /\ rt.pause <= clock /\ rt.paused <= rt.pause
                                 /\ start.given = rt.pause - rt.paused
      /\ start.at = "ended" => clock = rt.pause
  BY <1>1 DEF IInv, TypeOK, Start, Clocks
<1>3. start.at \in {"waiting", "ended"}
  BY DEF IInv, TypeOK, Start
<1>4. rt.paused + (clock - rt.pause) \in Time
  <2>1. CASE start.at = "ended"
    BY <1>1, <1>2, <2>1 DEF Time
  <2>2. CASE start.at = "waiting"
    BY <1>1, <1>2, <2>2 DEF Time
  <2> QED
    BY <1>3, <2>1, <2>2
<1> QED
  BY <1>1, <1>2, <1>4

LEMMA PauseEndsClocks ==
    ASSUME IInv, rt.fin = "none", rt.trust # 0, start' = Woken, UNCHANGED clock,
           rt'.pause = NoTime, rt'.paused = rt.paused + (clock - rt.pause)
    PROVE  start' \in Start /\ start'.at = start.at /\ start'.turn = start.turn /\ Clocks'
<1>1. /\ start' \in Start /\ start'.at = start.at /\ start'.turn = start.turn
      /\ start'.woken = (start.at = "waiting")
      /\ start'.used = start.used /\ start'.last = start.last
      /\ start'.seen = start.seen /\ start'.counted = start.counted
      /\ start'.given = start.given
  BY DEF Woken, IInv, TypeOK, Start
<1>2. start.at \in {"waiting", "ended"}
  BY DEF IInv, TypeOK, Start
<1>3. CASE start.at = "ended"
  BY <1>1, <1>3 DEF IInv, Clocks
<1>4. CASE start.at = "waiting"
  <2>1. /\ rt.pause # NoTime /\ rt.pause <= clock /\ rt.paused <= rt.pause
        /\ start.given = rt.pause - rt.paused
        /\ start.seen <= rt.paused /\ start.last <= clock
        /\ start.used <= start.given
        /\ start.counted => /\ start.used <= start.last - start.seen
                            /\ rt.paused - start.seen <= rt.pause - start.last
    BY <1>4, PauseEnds DEF IInv, Clocks
  <2>2. /\ rt.pause \in Nat /\ rt.paused \in Nat /\ clock \in Nat /\ start.seen \in Nat
        /\ start.last \in Nat /\ start.used \in Nat
    BY <2>1, TypeFacts DEF IInv
  <2>3. start'.woken
    BY <1>1, <1>4
  <2> QED
    BY <1>1, <1>4, <2>1, <2>2, <2>3 DEF Clocks
<1> QED
  BY <1>1, <1>2, <1>3, <1>4

(* The answer to the pending request is written, or Core turns out to be   *)
(* gone; next is the Runtime without the request.                          *)
LEMMA AnswerKeeps ==
    ASSUME IInv, NEW r \in Request, r \in {rt.perm, rt.trust}, ~Finalizing,
           NEW next \in Runtime, Answer(r, r, next),
           next.fin = rt.fin, next.turn = rt.turn, next.turns = rt.turns,
           next.control = rt.control, next.busy = rt.busy,
           next.perm = 0, next.trust = 0, next.pause = NoTime,
           next.status \in {"starting", "idle", "running"},
           start.at = "waiting" => next.status = "starting",
           start' \in Start, start'.at = start.at, start'.turn = start.turn, Clocks'
    PROVE  IInv' /\ rt'.turn = rt.turn
<1>1. UNCHANGED <<reader, controls, shown, clock, core, up>>
  BY DEF Answer
<1>2. r \in Nat \ {0}
  BY DEF Request
<1>3. /\ rt.fin = "none"
      /\ \A k \in DOMAIN down : ~IsAnswer(down[k])
      /\ \A i \in DOMAIN up : ~IsAsk(up[i])
      /\ core.ask = r \/ (Deaf /\ core.ask = 0)
      /\ rt.turn \notin core.done
  <2>1. rt.fin # "ended"
    BY <1>2 DEF IInv, Phases
  <2>2. rt.fin = "none"
    BY <2>1 DEF IInv, TypeOK, Runtime, Phases, Finalizing
  <2> QED
    BY <1>2, <2>2 DEF IInv, Asks, Finishes
<1>4. CASE ~Live
  <2>1. rt' = Begin(next, "stopped") /\ UNCHANGED <<down, resolving>>
    BY <1>4 DEF Answer
  <2>2. /\ rt' \in Runtime /\ rt'.trust = 0 /\ rt'.pause = NoTime
        /\ Queues' /\ Phases' /\ Asks' /\ RequestsAnswerable' /\ Works'
        /\ Unstarted' /\ Finishes' /\ Publishing'
    <3>1. start'.at \in {"waiting", "ended"}
      BY DEF Start
    <3> QED
      BY <1>1, <1>3, <2>1, <3>1, BeginKeeps
  <2>3. TypeOK' /\ ControlGetsItsReply'
    BY <1>1, <2>1, <2>2 DEF IInv, TypeOK, ControlGetsItsReply
  <2> QED
    BY <2>1, <2>2, <2>3, BeginFacts DEF IInv
<1>5. CASE Live
  <2> DEFINE n == Len(down) + 1
  <2>1. /\ rt' = next /\ down' = Write("answer", r, r)
        /\ resolving' = resolving \cup {[turn |-> rt.turn, status |-> next.status]}
    BY <1>5 DEF Answer
  <2>2. /\ down' \in Seq(DownMessage) /\ n \notin DOMAIN down
        /\ DOMAIN down' = DOMAIN down \cup {n}
        /\ down'[n] = [type |-> "answer", id |-> r, for |-> r]
        /\ \A k \in DOMAIN down : down'[k] = down[k]
    <3>1. Queues
      BY DEF IInv
    <3> QED
      BY <1>2, <2>1, <3>1, Written
  <2> HIDE DEF n
  <2>3. TypeOK' /\ Queues' /\ ControlGetsItsReply' /\ Publishing'
    <3>1. rt.turn \in 0..MaxTurn
      BY DEF IInv, TypeOK, Runtime
    <3>2. [turn |-> rt.turn, status |-> next.status]
            \in [turn : 0..MaxTurn, status : {"starting", "idle", "running"}]
      BY <3>1
    <3>3. TypeOK' /\ Queues'
      BY <1>1, <2>1, <2>2, <3>2 DEF IInv, TypeOK, Queues
    <3>4. ControlGetsItsReply' /\ Publishing'
      BY <1>1, <2>1 DEF IInv, ControlGetsItsReply, Publishing
    <3> QED
      BY <3>3, <3>4
  <2>4. Phases'
    BY <1>1, <1>3, <2>1 DEF IInv, Phases, Live
  <2>5. Asks'
    <3>1. /\ down'[n].id = r /\ down'[n].for = r
          /\ \A k \in DOMAIN down' : IsAnswer(down'[k]) => k = n
      BY <1>3, <2>2 DEF IsAnswer
    <3> QED
      BY <1>1, <1>3, <2>1, <3>1 DEF IInv, Asks, Deaf
  <2>6. RequestsAnswerable'
    <3>1. \A k \in DOMAIN down' : down'[k].type = "answer" => down'[k].id = down'[k].for
      BY <2>2 DEF IInv, RequestsAnswerable
    <3>2. core.ask # 0 => \E k \in DOMAIN down' : down'[k].type = "answer" /\ down'[k].id = core.ask
      BY <1>3, <2>2
    <3> QED
      BY <1>1, <2>1, <3>1, <3>2 DEF RequestsAnswerable
  <2>7. Works'
    <3>1. \A kind, id : Bound(kind, id)' <=> Bound(kind, id)
      BY <1>1, <2>1 DEF Bound
    <3>2. \A k \in DOMAIN down' : IsWork(down'[k]) => k \in DOMAIN down /\ down'[k] = down[k]
      BY <2>2 DEF IsWork
    <3> QED
      BY <1>1, <2>1, <3>1, <3>2 DEF IInv, Works, NoReply
  <2>8. Unstarted' /\ Finishes'
    BY <1>1, <1>3, <2>1, <2>2 DEF IInv, Unstarted, IsWork, NoReply, Finishes
  <2> QED
    BY <2>1, <2>3, <2>4, <2>5, <2>6, <2>7, <2>8 DEF IInv
<1> QED
  BY <1>4, <1>5

LEMMA ResolvePermissionKeeps ==
    ASSUME IInv, NEW r \in Request, ResolvePermission(r)
    PROVE  IInv' /\ rt'.turn = rt.turn
<1> DEFINE next == [rt EXCEPT !.perm = 0, !.status = "running"]
<1>1. /\ rt.perm = r /\ r \in Nat \ {0} /\ ~Finalizing /\ Answer(r, r, next)
      /\ start' = Woken /\ UNCHANGED clock
  BY DEF ResolvePermission, Answer, Request
<1>2. rt.fin = "none" /\ rt.trust = 0 /\ rt.pause = NoTime /\ start.at = "ended"
  <2>1. rt.fin = "none" /\ rt.trust = 0
    BY <1>1 DEF IInv, TypeOK, Runtime, Phases, Finalizing, Asks
  <2> QED
    BY <1>1, <2>1 DEF IInv, TypeOK, Start, Phases
<1>3. /\ next \in Runtime /\ next.fin = rt.fin /\ next.turn = rt.turn
      /\ next.turns = rt.turns /\ next.control = rt.control /\ next.busy = rt.busy
      /\ next.perm = 0 /\ next.trust = 0 /\ next.pause = NoTime
      /\ next.paused = rt.paused /\ next.status = "running"
  <2>1. 0 \in 0..MaxAsk /\ rt \in Runtime
    BY TypeFacts DEF IInv, TypeOK
  <2>2. next \in Runtime
    BY <2>1 DEF Runtime
  <2>3. /\ next.fin = rt.fin /\ next.turn = rt.turn
        /\ next.turns = rt.turns /\ next.control = rt.control /\ next.busy = rt.busy
        /\ next.perm = 0 /\ next.trust = rt.trust /\ next.pause = rt.pause
        /\ next.paused = rt.paused /\ next.status = "running"
    BY <2>1 DEF Runtime
  <2> QED
    BY <1>2, <2>2, <2>3
<1> HIDE DEF next
<1>4. rt'.pause = rt.pause /\ rt'.paused = rt.paused
  BY <1>1, <1>2, <1>3, BeginFacts DEF Answer
<1>5. start' \in Start /\ start'.at = start.at /\ start'.turn = start.turn /\ Clocks'
  BY <1>1, <1>2, <1>4, WokenKeeps
<1> QED
  BY <1>1, <1>2, <1>3, <1>5, AnswerKeeps

LEMMA ResolveTrustKeeps ==
    ASSUME IInv, NEW r \in Request, ResolveTrust(r)
    PROVE  IInv' /\ rt'.turn = rt.turn
<1> DEFINE next == [rt EXCEPT !.trust = 0, !.status = rt.resume, !.resume = "none",
                              !.paused = IF rt.pause = NoTime THEN @ ELSE @ + (clock - rt.pause),
                              !.pause = NoTime]
<1>1. /\ rt.trust = r /\ r \in Nat \ {0} /\ ~Finalizing /\ Answer(r, r, next)
      /\ start' = Woken /\ UNCHANGED clock
  BY DEF ResolveTrust, Answer, Request
<1>2. /\ rt.fin = "none" /\ rt.perm = 0 /\ rt.trust # 0
      /\ rt.resume \in {"starting", "idle", "running"}
      /\ start.at = "waiting" => rt.resume = "starting"
  <2>1. rt.fin = "none" /\ rt.perm = 0
    BY <1>1 DEF IInv, TypeOK, Runtime, Phases, Finalizing, Asks
  <2> QED
    BY <1>1, <2>1 DEF IInv, Phases
<1>3. rt.pause # NoTime /\ rt.paused + (clock - rt.pause) \in Time
  BY <1>2, PauseEnds
<1>4. /\ next \in Runtime /\ next.fin = rt.fin /\ next.turn = rt.turn
      /\ next.turns = rt.turns /\ next.control = rt.control /\ next.busy = rt.busy
      /\ next.perm = 0 /\ next.trust = 0 /\ next.pause = NoTime
      /\ next.paused = rt.paused + (clock - rt.pause) /\ next.status = rt.resume
  <2>1. 0 \in 0..MaxAsk /\ rt \in Runtime
    BY TypeFacts DEF IInv, TypeOK
  <2>2. next = [rt EXCEPT !.trust = 0, !.status = rt.resume, !.resume = "none",
                          !.paused = rt.paused + (clock - rt.pause), !.pause = NoTime]
    BY <1>3
  <2>3. next \in Runtime
    BY <1>2, <1>3, <2>1, <2>2, ZenonT(60) DEF Runtime
  <2>4. /\ next.fin = rt.fin /\ next.turn = rt.turn
        /\ next.turns = rt.turns /\ next.control = rt.control /\ next.busy = rt.busy
        /\ next.perm = rt.perm /\ next.trust = 0 /\ next.pause = NoTime
        /\ next.paused = rt.paused + (clock - rt.pause) /\ next.status = rt.resume
    BY <2>1, <2>2 DEF Runtime
  <2> QED
    BY <1>2, <2>3, <2>4
<1> HIDE DEF next
<1>5. rt'.pause = NoTime /\ rt'.paused = rt.paused + (clock - rt.pause)
  BY <1>1, <1>2, <1>4, BeginFacts DEF Answer
<1>6. start' \in Start /\ start'.at = start.at /\ start'.turn = start.turn /\ Clocks'
  BY <1>1, <1>2, <1>5, PauseEndsClocks
<1> QED
  BY <1>1, <1>2, <1>4, <1>6, AnswerKeeps

-----------------------------------------------------------------------------
(* The theorems.                                                           *)
LEMMA InitIInv == Init => IInv
<1> SUFFICES ASSUME Init PROVE IInv
  OBVIOUS
<1>1. PICK t \in {0, 1} :
         /\ rt = [status |-> "starting", turn |-> t, turns |-> t, busy |-> FALSE,
                  perm |-> 0, trust |-> 0, resume |-> "none",
                  control |-> 0, ready |-> FALSE, closed |-> FALSE,
                  pause |-> NoTime, paused |-> 0, fin |-> "none", final |-> "stopped"]
         /\ start = [StartEnded EXCEPT !.at = "waiting", !.turn = t, !.woken = TRUE]
  BY DEF Init
<1>2. /\ reader = "reading" /\ controls = <<>> /\ resolving = {} /\ shown = "starting"
      /\ clock = 0 /\ up = <<>> /\ down = <<>>
      /\ core = [at |-> "booting", job |-> 0, next |-> "none", id |-> 0,
                 ask |-> 0, asks |-> 0, done |-> {}]
  BY DEF Init
<1>3. /\ 0 \in Time /\ 0 \in 0..MaxTurn /\ t \in 0..MaxTurn /\ 0 \in 0..MaxAsk
      /\ 0 \in 0..MaxControl /\ 0 \in 0..(MaxTurn + MaxControl) /\ 0 <= MaxUp
      /\ 0 <= MaxControl
  BY ProtocolAssumption DEF Time
<1>4. rt \in Runtime
  BY <1>1, <1>3 DEF Runtime
<1>5. /\ start \in Start /\ start.at = "waiting" /\ start.turn = t
      /\ start.used = 0 /\ start.last = 0 /\ start.seen = 0 /\ ~start.counted
      /\ start.given = 0
  BY <1>1, <1>3 DEF Start, StartEnded
<1>6. core \in Core
  BY <1>2, <1>3 DEF Core
<1>7. TypeOK /\ Queues
  BY <1>1, <1>2, <1>3, <1>4, <1>5, <1>6 DEF TypeOK, Queues, Reader
<1>8. Phases /\ Clocks
  BY <1>1, <1>2, <1>5 DEF Phases, Clocks
<1>9. Asks /\ RequestsAnswerable /\ Works /\ Unstarted /\ Finishes
  BY <1>1, <1>2 DEF Asks, Deaf, RequestsAnswerable, Works, Unstarted, NoReply, Finishes
<1>10. ControlGetsItsReply /\ Publishing
  BY <1>1, <1>2 DEF ControlGetsItsReply, Publishing
<1> QED
  BY <1>7, <1>8, <1>9, <1>10 DEF IInv

LEMMA StutterKeeps == ASSUME IInv, UNCHANGED vars PROVE IInv'
<1>1. TypeOK' /\ Queues' /\ Phases' /\ Clocks'
  BY DEF vars, IInv, TypeOK, Queues, Phases, Live, Clocks
<1>2. /\ Asks' /\ RequestsAnswerable' /\ Unstarted' /\ Finishes'
      /\ ControlGetsItsReply' /\ Publishing'
  BY DEF vars, IInv, Asks, Deaf, RequestsAnswerable, Unread, Unstarted, NoReply,
     Finishes, ControlGetsItsReply, Publishing, Live, Finalizing
<1>3. Works'
  BY DEF vars, IInv, Works, Bound, NoReply
<1> QED
  BY <1>1, <1>2, <1>3 DEF IInv

LEMMA NextIInv == IInv /\ [Next]_vars => IInv'
<1> SUFFICES ASSUME IInv, [Next]_vars PROVE IInv'
  OBVIOUS
<1>1. CASE CoreStep
  BY <1>1, CoreAsksKeeps, CoreReadyKeeps, CoreBeginsKeeps, CoreFinishesKeeps,
     CoreRepliesKeeps, CoreReadsKeeps, CoreErrsKeeps, CoreExitsKeeps DEF CoreStep
<1>2. CASE UserStep
  BY <1>2, SendTurnKeeps, StopKeeps, ResolvePermissionKeeps, ResolveTrustKeeps,
     ControlBeginsKeeps, ControlEndsKeeps DEF UserStep
<1>3. CASE TaskStep
  BY <1>3, StartChecksKeeps, StartTimesOutKeeps, ReaderReadsKeeps, ReaderStopsKeeps,
     ResolvePublishesKeeps, ResolveFailsKeeps, ControlEndsKeeps, FinalizerStartsKeeps,
     HandshakeEndsKeeps, CoreKilledKeeps, FinalizerConvergesKeeps DEF TaskStep
<1>4. CASE Tick
  BY <1>4, TickKeeps
<1>5. CASE UNCHANGED vars
  BY <1>5, StutterKeeps
<1> QED
  BY <1>1, <1>2, <1>3, <1>4, <1>5 DEF Next

LEMMA InvariantHolds == Spec => []IInv
BY InitIInv, NextIInv, PTL DEF Spec

(* Whatever the Turns, the requests, the controls and the faults: the      *)
(* state of a generation keeps its type, its indices stay in their ranges, *)
(* and the readiness pause lasts as long as the request for trust.         *)
THEOREM TypeCorrect == Spec => []TypeOK
<1>1. IInv => TypeOK
  BY DEF IInv
<1> QED
  BY <1>1, InvariantHolds, PTL

(* Core never waits for an answer nobody can give, and an answer is never  *)
(* that of a user who was shown another request (_handle_message,          *)
(* resolve_permission, resolve_mcp_trust).                                 *)
THEOREM CoreIsAlwaysAnswerable == Spec => []RequestsAnswerable
<1>1. IInv => RequestsAnswerable
  BY DEF IInv
<1> QED
  BY <1>1, InvariantHolds, PTL

(* No call of _run_control is given the reply to another, although replies *)
(* carry no request id (_complete_control, _fail_control).                 *)
THEOREM RepliesFindTheirControl == Spec => []ControlGetsItsReply
<1>1. IInv => ControlGetsItsReply
  BY DEF IInv
<1> QED
  BY <1>1, InvariantHolds, PTL

(* Whatever the order in which the handlers and the calls that wait in     *)
(* drain publish: when none is about to, users are shown the status the    *)
(* Runtime has (_publish_current_status).                                  *)
THEOREM ShownStatusIsTheStatus == Spec => []StatusShown
<1>1. IInv => StatusShown
  BY DEF IInv, Phases, Publishing, StatusShown
<1> QED
  BY <1>1, InvariantHolds, PTL

(* The position of the start changes in two steps only.                    *)
LEMMA StartMoves ==
    ASSUME IInv, Next, start'.at # start.at
    PROVE  StartChecks \/ StartTimesOut
<1>1. start \in Start /\ Woken.at = start.at
  BY DEF IInv, TypeOK, Start, Woken
<1>2. CASE CoreStep
  BY <1>2 DEF CoreStep, CoreAsks, CoreReady, CoreBegins, CoreFinishes, CoreReplies,
     CoreReads, CoreErrs, CoreExits, managerVars
<1>3. CASE UserStep
  BY <1>1, <1>3 DEF UserStep, SendTurn, Stop, ResolvePermission, ResolveTrust, Answer,
     ControlBegins, ControlTimesOut
<1>4. CASE ReaderReads
  BY <1>1, <1>4 DEF ReaderReads, ReadyReceived, AskReceived, FinishReceived, ReplyReceived,
     ClosedReceived
<1>5. CASE TaskStep /\ ~ReaderReads
  BY <1>1, <1>5 DEF TaskStep, ReaderBreaks, ReaderEnds, ResolvePublishes, ResolveFails,
     ControlReturns, ControlFails, FinalizerStarts, HandshakeEnds, CoreKilled,
     FinalizerConverges, finalVars
<1>6. CASE Tick
  BY <1>1, <1>6 DEF Tick, Start
<1> QED
  BY <1>2, <1>3, <1>4, <1>5, <1>6 DEF Next

(* A start gives Core its whole budget, wherever pauses begin and end      *)
(* between two checks (_wait_for_ready, _start_runtime).                   *)
THEOREM BudgetIsGiven == Spec => StartGivesItsTime
<1>1. ASSUME IInv, Next, rt.fin = "none", rt'.fin # "none", start'.at # start.at
      PROVE  start.given >= Budget \/ (rt.ready /\ rt.status = "waiting_mcp_trust")
  <2>1. start.at = "waiting"
    BY <1>1, StartMoves DEF StartChecks, StartTimesOut
  <2>2. rt \in Runtime /\ ~Finalizing /\ rt.status \in {"starting", "waiting_mcp_trust"}
    BY <1>1, <2>1 DEF IInv, TypeOK, Phases, Finalizing
  <2>3. CASE StartTimesOut
    <3>1. /\ start.used \in Nat /\ start.last \in Nat /\ start.seen \in Nat
          /\ start.given \in Nat /\ clock \in Nat /\ rt.paused \in Nat /\ Budget \in Nat
      BY <1>1, TypeFacts DEF IInv
    <3>2. /\ start.given = clock - rt.paused /\ start.seen = rt.paused
          /\ start.used <= start.last - start.seen
      BY <1>1, <2>1, <2>3 DEF StartTimesOut, IInv, Clocks
    <3>3. clock - start.last >= Budget - start.used
      BY <2>3 DEF StartTimesOut
    <3> QED
      BY <3>1, <3>2, <3>3
  <2>4. CASE StartChecks
    <3>1. CASE Live /\ rt.ready /\ rt.status # "starting"
      BY <2>2, <3>1
    <3>2. CASE Checked(start).used >= Budget
      <4>1. Checked(start).used <= start.given
        BY <1>1, <2>1, CheckedFacts
      <4>2. Checked(start) \in Start /\ start.given \in Nat /\ Budget \in Nat
        BY <1>1, <2>1, CheckedFacts, TypeFacts DEF IInv
      <4>3. Checked(start).used \in Nat
        BY <4>2, ProtocolAssumption DEF Start, Time
      <4> QED
        BY <3>2, <4>1, <4>2, <4>3
    <3>3. ASSUME Live, rt.ready, rt.status = "starting" PROVE FALSE
      <4>1. rt' = [rt EXCEPT !.status = IF start.turn = 0 THEN "idle" ELSE "running",
                             !.busy = (start.turn # 0), !.ready = (start.turn = 0)]
        BY <2>2, <2>4, <3>3 DEF StartChecks
      <4> QED
        BY <1>1, <2>2, <4>1 DEF Runtime
    <3>4. ASSUME ~(Live /\ rt.ready), ~(Checked(start).used >= Budget) PROVE FALSE
      <4>1. rt' = rt
        BY <2>2, <2>4, <3>4 DEF StartChecks
      <4> QED
        BY <1>1, <4>1
    <3> QED
      BY <3>1, <3>2, <3>3, <3>4
  <2> QED
    BY <1>1, <2>3, <2>4, StartMoves
<1>2. IInv /\ [Next]_vars =>
        [rt.fin = "none" /\ rt'.fin # "none" /\ start'.at # start.at =>
           start.given >= Budget \/ (rt.ready /\ rt.status = "waiting_mcp_trust")]_vars
  BY <1>1
<1> QED
  BY <1>2, InvariantHolds, PTL DEF Spec, StartGivesItsTime

(* A Turn of a Runtime ends when Core has finished this very Turn, or with *)
(* the generation, whatever it reports late or again                       *)
(* (_turn_finished_rejection_reason).                                      *)
THEOREM TurnsEndAlone == Spec => TurnEndsByItsOwnFinish
<1>1. ASSUME IInv, Next, rt.turn # 0, rt'.turn # rt.turn
      PROVE  rt.turn \in core.done \/ rt'.fin = "ended"
  <2>1. /\ rt \in Runtime /\ Aborted(rt) \in Runtime /\ Aborted(rt).turn = rt.turn
        /\ \A r \in Runtime, final \in {"stopped", "error"} : Begin(r, final).turn = r.turn
    BY <1>1, AbortedFacts, BeginFacts DEF IInv, TypeOK
  <2>2. CASE ReaderReads
    <3>1. rt'.turn = rt.turn \/ (up[1].type = "finished" /\ up[1].id = rt.turn)
      <4>1. ReadStep /\ Head(up) = up[1]
        BY <1>1, <2>2, ReadFacts DEF ReaderReads, ReadStep
      <4>2. CASE FinishReceived(up[1]) /\ up[1].type = "finished"
        BY <4>2 DEF FinishReceived, Rejected
      <4>3. CASE ReplyReceived(up[1])
        BY <2>1, <4>3 DEF ReplyReceived, Runtime
      <4>4. CASE ReadyReceived \/ ClosedReceived \/ AskReceived(up[1])
        BY <2>1, <4>4 DEF ReadyReceived, ClosedReceived, AskReceived, Runtime
      <4> QED
        BY <2>2, <4>1, <4>2, <4>3, <4>4 DEF ReaderReads
    <3>2. 1 \in DOMAIN up
      BY <1>1, <2>2, ReadFacts DEF ReaderReads, ReadStep
    <3> QED
      BY <1>1, <3>1, <3>2 DEF IInv, Finishes
  <2>3. CASE FinalizerConverges
    BY <2>1, <2>3 DEF FinalizerConverges, Runtime
  <2>4. CASE SendTurn
    BY <1>1, <2>4 DEF SendTurn
  <2>5. ASSUME NEW r \in Request, ResolvePermission(r) \/ ResolveTrust(r)
        PROVE  rt'.turn = rt.turn
    BY <1>1, <2>5, ResolvePermissionKeeps, ResolveTrustKeeps
  <2>6. CASE CoreStep \/ Tick
    BY <1>1, <2>6 DEF CoreStep, CoreAsks, CoreReady, CoreBegins, CoreFinishes, CoreReplies,
       CoreReads, CoreErrs, CoreExits, Tick, managerVars
  <2>7. CASE StartChecks \/ StartTimesOut
    <3>1. CASE rt' = rt \/ rt' = Begin(rt, "error")
      BY <1>1, <2>1, <3>1
    <3>2. CASE rt' = [rt EXCEPT !.status = IF start.turn = 0 THEN "idle" ELSE "running",
                                !.busy = (start.turn # 0), !.ready = (start.turn = 0)]
      BY <1>1, <2>1, <3>2 DEF Runtime
    <3> QED
      BY <2>7, <3>1, <3>2 DEF StartChecks, StartTimesOut, StartFails
  <2>8. CASE Stop \/ ReaderBreaks \/ ReaderEnds \/ \E c \in resolving : ResolveFails(c)
    BY <1>1, <2>1, <2>8 DEF Stop, ReaderBreaks, ReaderEnds, ResolveFails
  <2>9. ASSUME NEW c \in DOMAIN controls,
               ControlTimesOut(c) \/ ControlReturns(c) \/ ControlFails(c)
        PROVE  rt'.turn = rt.turn
    BY <2>1, <2>9 DEF ControlTimesOut, ControlReturns, ControlFails
  <2>10. ASSUME NEW k \in Kind, ControlBegins(k) PROVE rt'.turn = rt.turn
    BY <2>1, <2>10 DEF ControlBegins, Runtime
  <2>11. CASE FinalizerStarts \/ HandshakeEnds \/ CoreKilled
    BY <1>1, <2>1, <2>11 DEF FinalizerStarts, HandshakeEnds, CoreKilled, Runtime
  <2>12. ASSUME NEW c \in resolving, ResolvePublishes(c) PROVE rt'.turn = rt.turn
    BY <2>12 DEF ResolvePublishes
  <2> QED
    BY <1>1, <2>2, <2>3, <2>4, <2>5, <2>6, <2>7, <2>8, <2>9, <2>10, <2>11, <2>12
       DEF Next, UserStep, TaskStep
<1>2. IInv /\ [Next]_vars =>
        [rt.turn # 0 /\ rt'.turn # rt.turn => rt.turn \in core.done \/ rt'.fin = "ended"]_vars
  BY <1>1
<1> QED
  BY <1>2, InvariantHolds, PTL DEF Spec, TurnEndsByItsOwnFinish
=============================================================================
