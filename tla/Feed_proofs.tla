----------------------------- MODULE Feed_proofs -----------------------------
(***************************************************************************)
(* Proofs about Feed, for every set of clients, every number of events and *)
(* all limits: no page gets past an event it has not received, none misses *)
(* a row or shows old text, and assistant text is stored once, in order.   *)
(*                                                                         *)
(* One publish sends several events, and each of them goes to the history  *)
(* and to all streams, so the invariant is shown to survive one _publish   *)
(* and then, by an induction over the events of a publish, all of them.    *)
(***************************************************************************)
EXTENDS Feed, Stepwise, SequenceTheorems

-----------------------------------------------------------------------------
(* Sequences of events.                                                    *)

Elems(q) == {q[i] : i \in DOMAIN q}

Rising(q) == \A i, j \in DOMAIN q : i < j => q[i].id < q[j].id

LEMMA NoElems == <<>> \in Seq(Event) /\ Elems(<<>>) = {} /\ Rising(<<>>)
BY DEF Elems, Rising

LEMMA ElemsTold ==
    ASSUME NEW q \in Seq(Event), NEW e \in Elems(q)
    PROVE  e \in Event
BY DEF Elems

(* What is appended to a sequence comes last.                              *)
LEMMA Appended ==
    ASSUME NEW q \in Seq(Event), NEW e \in Event
    PROVE  /\ Append(q, e) \in Seq(Event) /\ Len(Append(q, e)) = Len(q) + 1
           /\ Elems(Append(q, e)) = Elems(q) \cup {e}
           /\ Rising(q) /\ (\A x \in Elems(q) : x.id < e.id) => Rising(Append(q, e))
<1> DEFINE a == Append(q, e)
<1>1. /\ a \in Seq(Event) /\ Len(a) = Len(q) + 1
      /\ DOMAIN a = 1..(Len(q) + 1) /\ DOMAIN q = 1..Len(q) /\ Len(q) \in Nat
      /\ \A i \in 1..Len(q) : a[i] = q[i]
      /\ a[Len(q) + 1] = e
  OBVIOUS
<1> HIDE DEF a
<1>2. Elems(a) = Elems(q) \cup {e}
  <2>1. ASSUME NEW i \in DOMAIN a PROVE a[i] \in Elems(q) \cup {e}
    BY <1>1 DEF Elems
  <2>2. ASSUME NEW i \in DOMAIN q PROVE q[i] \in Elems(a)
    <3>1. i \in DOMAIN a /\ a[i] = q[i]
      BY <1>1
    <3> QED
      BY <3>1 DEF Elems
  <2>3. e \in Elems(a)
    BY <1>1 DEF Elems
  <2> QED
    BY <2>1, <2>2, <2>3 DEF Elems
<1>3. ASSUME Rising(q), \A x \in Elems(q) : x.id < e.id
      PROVE  Rising(a)
  <2> SUFFICES ASSUME NEW i \in DOMAIN a, NEW j \in DOMAIN a, i < j
               PROVE  a[i].id < a[j].id
    BY DEF Rising
  <2>1. i \in DOMAIN q /\ a[i] = q[i] /\ q[i] \in Elems(q)
    BY <1>1 DEF Elems
  <2>2. CASE j \in DOMAIN q
    BY <1>1, <1>3, <2>1, <2>2 DEF Rising
  <2>3. CASE j \notin DOMAIN q
    <3>1. a[j] = e
      BY <1>1, <2>3
    <3> QED
      BY <1>3, <2>1, <3>1
  <2> QED
    BY <2>2, <2>3
<1> QED
  BY <1>1, <1>2, <1>3 DEF a

(* The head of a rising sequence is its least event.                       *)
LEMMA HeadFirst ==
    ASSUME NEW q \in Seq(Event), q # <<>>
    PROVE  /\ Head(q) \in Elems(q) /\ Tail(q) \in Seq(Event)
           /\ Len(q) \in Nat /\ Len(Tail(q)) = Len(q) - 1
           /\ Elems(q) = Elems(Tail(q)) \cup {Head(q)}
           /\ Rising(q) => /\ Rising(Tail(q))
                           /\ \A x \in Elems(Tail(q)) : Head(q).id < x.id
<1> DEFINE t == Tail(q)
<1>1. /\ t \in Seq(Event) /\ Len(t) = Len(q) - 1 /\ Len(q) \in Nat /\ Len(q) > 0
      /\ DOMAIN q = 1..Len(q) /\ DOMAIN t = 1..(Len(q) - 1)
      /\ \A i \in 1..(Len(q) - 1) : t[i] = q[i + 1]
      /\ Head(q) = q[1]
  OBVIOUS
<1> HIDE DEF t
<1>2. Head(q) \in Elems(q)
  BY <1>1 DEF Elems
<1>3. ASSUME NEW i \in DOMAIN t PROVE t[i] \in Elems(q) /\ i + 1 \in DOMAIN q
  <2>1. i + 1 \in DOMAIN q /\ t[i] = q[i + 1]
    BY <1>1
  <2> QED
    BY <2>1 DEF Elems
<1>4. ASSUME NEW i \in DOMAIN q PROVE q[i] = Head(q) \/ q[i] \in Elems(t)
  <2>1. CASE i = 1
    BY <1>1, <2>1
  <2>2. CASE i # 1
    <3>1. i - 1 \in DOMAIN t /\ t[i - 1] = q[i]
      BY <1>1, <2>2
    <3> QED
      BY <3>1 DEF Elems
  <2> QED
    BY <2>1, <2>2
<1>5. Elems(q) = Elems(t) \cup {Head(q)}
  BY <1>2, <1>3, <1>4 DEF Elems
<1>6. ASSUME Rising(q) PROVE Rising(t)
  <2> SUFFICES ASSUME NEW i \in DOMAIN t, NEW j \in DOMAIN t, i < j
               PROVE  t[i].id < t[j].id
    BY DEF Rising
  <2>1. i + 1 \in DOMAIN q /\ j + 1 \in DOMAIN q /\ i + 1 < j + 1
    BY <1>1
  <2>2. t[i] = q[i + 1] /\ t[j] = q[j + 1]
    BY <1>1
  <2> QED
    BY <1>6, <2>1, <2>2 DEF Rising
<1>7. ASSUME Rising(q), NEW i \in DOMAIN t PROVE Head(q).id < t[i].id
  <2>1. 1 \in DOMAIN q /\ i + 1 \in DOMAIN q /\ 1 < i + 1 /\ t[i] = q[i + 1]
    BY <1>1
  <2> QED
    BY <1>1, <1>7, <2>1 DEF Rising
<1>8. Rising(q) => \A x \in Elems(t) : Head(q).id < x.id
  BY <1>7 DEF Elems
<1> QED
  BY <1>1, <1>2, <1>5, <1>6, <1>8 DEF t

-----------------------------------------------------------------------------
(* The history, and what a new stream takes of it.                         *)

HubState == [next : Nat \ {0}, history : Seq(Event), evicted : Nat]

StreamState ==
    [open : BOOLEAN, listed : BOOLEAN, cursor : Nat,
     replay : Seq(Event), queue : Seq(Event), wire : Seq(Event)]

(* available is the part of the history after the cursor, in its order.    *)
LEMMA TakenAfter ==
    ASSUME NEW h \in Seq(Event), NEW cursor \in Nat
    PROVE  /\ After(h, cursor) \in Seq(Event)
           /\ Elems(After(h, cursor)) = {e \in Elems(h) : e.id > cursor}
           /\ Rising(h) => Rising(After(h, cursor))
<1> DEFINE n == Len(h)
           S == Seq(Event)
           base == <<>>
           step == [i \in 1..n |-> [q \in S |->
                      IF h[i].id > cursor THEN Append(q, h[i]) ELSE q]]
           body(f) == [i \in 0..n |->
                         IF i = 0 THEN <<>>
                         ELSE IF h[i].id > cursor THEN Append(f[i - 1], h[i])
                         ELSE f[i - 1]]
           taken == CHOOSE f : f = body(f)
<1>1. n \in Nat /\ DOMAIN h = 1..n /\ \A i \in 1..n : h[i] \in Event
  OBVIOUS
<1>2. step \in [1..n -> [S -> S]]
  <2>1. ASSUME NEW q \in S, NEW i \in 1..n
        PROVE  (IF h[i].id > cursor THEN Append(q, h[i]) ELSE q) \in S
    BY <1>1
  <2> QED
    BY <2>1
<1>3. PICK g : Runs(g, n, S, base, step)
  <2>1. base \in S
    OBVIOUS
  <2> HIDE DEF step, S, n, base, body, taken
  <2> QED
    BY <1>1, <1>2, <2>1, Iterated
<1>4. ASSUME NEW i \in 1..n
      PROVE  /\ i - 1 \in 0..n
             /\ g[i] = IF h[i].id > cursor THEN Append(g[i - 1], h[i]) ELSE g[i - 1]
  <2>1. i - 1 \in 0..n
    BY <1>1
  <2>2. g[i - 1] \in S
    BY <1>3, <2>1 DEF Runs
  <2> QED
    BY <1>3, <2>1, <2>2 DEF Runs
<1>5. g = body(g)
  <2>1. body(g) = [i \in 0..n |-> g[i]]
    <3>1. ASSUME NEW i \in 0..n PROVE body(g)[i] = g[i]
      <4>1. CASE i = 0
        BY <1>3, <4>1 DEF Runs
      <4>2. CASE i # 0
        <5>1. i \in 1..n
          BY <1>1, <4>2
        <5>2. body(g)[i] = IF h[i].id > cursor THEN Append(g[i - 1], h[i]) ELSE g[i - 1]
          BY <4>2
        <5> QED
          BY <1>4, <5>1, <5>2
      <4> QED
        BY <4>1, <4>2
    <3> QED
      BY <3>1
  <2> QED
    BY <1>3, <2>1 DEF Runs
<1>6. taken = body(taken)
  BY <1>5
<1>7. After(h, cursor) = taken[n]
  BY DEF After
<1>8. /\ taken[0] = <<>>
      /\ \A i \in 1..n :
           taken[i] = IF h[i].id > cursor THEN Append(taken[i - 1], h[i]) ELSE taken[i - 1]
  <2> HIDE DEF taken
  <2>1. \A i \in 0..n : taken[i] = body(taken)[i]
    BY <1>6
  <2>2. 0 \in 0..n /\ \A i \in 1..n : i \in 0..n /\ i # 0
    BY <1>1
  <2> QED
    BY <2>1, <2>2
<1> HIDE DEF taken, step, body
<1> DEFINE T == {i \in 0..n : /\ taken[i] \in S
                              /\ Elems(taken[i]) = {e \in {h[j] : j \in 1..i} : e.id > cursor}
                              /\ Rising(h) => Rising(taken[i])}
<1>9. 0 \in T
  <2>1. {h[j] : j \in 1..0} = {}
    OBVIOUS
  <2>2. Elems(taken[0]) = {e \in {h[j] : j \in 1..0} : e.id > cursor}
    BY <1>8, <2>1, NoElems
  <2>3. 0 \in 0..n /\ taken[0] \in S /\ Rising(taken[0])
    BY <1>1, <1>8, NoElems
  <2> QED
    BY <2>2, <2>3
<1>10. ASSUME NEW i \in 0..n, i \in T, i < n PROVE i + 1 \in T
  <2>1. i + 1 \in 1..n /\ (i + 1) - 1 = i /\ h[i + 1] \in Event
    BY <1>1, <1>10
  <2>2. {h[j] : j \in 1..(i + 1)} = {h[j] : j \in 1..i} \cup {h[i + 1]}
    <3>1. ASSUME NEW j PROVE j \in 1..(i + 1) <=> j \in 1..i \/ j = i + 1
      BY <1>1, <1>10
    <3> QED
      BY <3>1
  <2>3. CASE h[i + 1].id > cursor
    <3>1. taken[i + 1] = Append(taken[i], h[i + 1])
      BY <1>8, <2>1, <2>3
    <3>2. ASSUME Rising(h), NEW e \in Elems(taken[i]) PROVE e.id < h[i + 1].id
      <4>1. PICK j \in 1..i : e = h[j]
        BY <1>10, <3>2
      <4>2. j \in DOMAIN h /\ i + 1 \in DOMAIN h /\ j < i + 1
        BY <1>1, <1>10, <2>1
      <4> QED
        BY <3>2, <4>1, <4>2 DEF Rising
    <3>3. Elems(taken[i + 1]) = Elems(taken[i]) \cup {h[i + 1]}
      BY <1>10, <2>1, <3>1, Appended
    <3>4. Elems(taken[i + 1]) = {e \in {h[j] : j \in 1..(i + 1)} : e.id > cursor}
      BY <1>10, <2>2, <2>3, <3>3
    <3>5. taken[i + 1] \in S /\ (Rising(h) => Rising(taken[i + 1]))
      BY <1>10, <2>1, <3>1, <3>2, Appended
    <3> QED
      BY <2>1, <3>4, <3>5
  <2>4. CASE ~(h[i + 1].id > cursor)
    <3>1. taken[i + 1] = taken[i]
      BY <1>8, <2>1, <2>4
    <3>2. Elems(taken[i + 1]) = {e \in {h[j] : j \in 1..(i + 1)} : e.id > cursor}
      BY <1>10, <2>2, <2>4, <3>1
    <3> QED
      BY <1>10, <2>1, <3>1, <3>2
  <2> QED
    BY <2>3, <2>4
<1> HIDE DEF T
<1>11. n \in T
  <2> HIDE DEF n
  <2>1. \A i \in 0..n : i \in T
    BY <1>1, <1>9, <1>10, UpTo
  <2> QED
    BY <1>1, <2>1
<1>12. Elems(h) = {h[j] : j \in 1..n}
  BY <1>1 DEF Elems
<1> QED
  BY <1>7, <1>11, <1>12 DEF T

(* n: how many events there were; ids and numbers advance together.        *)
Known(e, h, n) == e.id \in 1..(h.next - 1) /\ e.no + h.next = n + e.id + 1

HubGood(h, n) ==
    /\ h.evicted < h.next /\ h.next <= n + 1
    /\ Len(h.history) <= HistoryLimit
    /\ Rising(h.history)
    /\ \A e \in Elems(h.history) :
         Known(e, h, n) /\ e.id > h.evicted /\ e.type \notin LiveOnly

(* The next event of the hub.                                              *)
Fresh(e, h, n) == e \in Event /\ e.id = h.next /\ e.no = n + 1 /\ e.type # "end"

LEMMA NextKnown ==
    ASSUME NEW x, NEW h, NEW m, NEW n \in Nat, h.next \in Nat, m.next = h.next + 1,
           x.id \in Nat, x.no \in Nat, x.id > 0, x.id <= h.next,
           x.no + h.next = n + x.id + 1
    PROVE  Known(x, m, n + 1)
<1> DEFINE id == x.id
           no == x.no
           next == h.next
<1>1. id \in Nat /\ no \in Nat /\ next \in Nat /\ id > 0 /\ id <= next
      /\ no + next = n + id + 1
  OBVIOUS
<1>2. (x.id \in 1..(m.next - 1)) = (id \in 1..((next + 1) - 1))
      /\ (x.no + m.next = (n + 1) + x.id + 1) = (no + (next + 1) = (n + 1) + id + 1)
  OBVIOUS
<1> HIDE DEF id, no, next
<1>3. id \in 1..((next + 1) - 1) /\ no + (next + 1) = (n + 1) + id + 1
  BY <1>1
<1> QED
  BY <1>2, <1>3 DEF Known

(* One _publish puts a stable event into the history, which may lose its   *)
(* oldest one.                                                             *)
LEMMA KeptGood ==
    ASSUME NEW h \in HubState, NEW n \in Nat, HubGood(h, n), NEW e, Fresh(e, h, n)
    PROVE  LET k == Kept(h, e) IN
           /\ k \in HubState /\ HubGood(k, n + 1) /\ k.next = h.next + 1
           /\ h.evicted <= k.evicted
           /\ Elems(k.history) \subseteq Elems(h.history) \cup {e}
           /\ \A x \in Elems(h.history) : x \in Elems(k.history) \/ x.id <= k.evicted
           /\ e.type \notin LiveOnly => e \in Elems(k.history)
<1> DEFINE k == Kept(h, e)
           q == h.history
           a == Append(q, e)
           r == Tail(q)
           t == Append(r, e)
<1>1. /\ q \in Seq(Event) /\ e \in Event /\ Len(q) \in Nat /\ h.next \in Nat /\ h.next > 0
      /\ e.id = h.next /\ h.evicted \in Nat /\ HistoryLimit \in Nat /\ HistoryLimit > 0
  BY HubAssumption DEF HubState, Fresh
<1>2. ASSUME NEW x \in Elems(q)
      PROVE  /\ x \in Event /\ x.id \in Nat /\ x.no \in Nat /\ x.id > 0
             /\ x.id < h.next /\ x.id > h.evicted
             /\ x.no + h.next = n + x.id + 1 /\ x.type \notin LiveOnly
  <2>1. x \in Event
    BY <1>1, ElemsTold
  <2>2. x.id \in Nat /\ x.no \in Nat
    BY <2>1 DEF Event
  <2>3. Known(x, h, n) /\ x.id > h.evicted /\ x.type \notin LiveOnly
    BY DEF HubGood
  <2> QED
    BY <1>1, <2>1, <2>2, <2>3 DEF Known
<1>3. /\ e.no = n + 1 /\ e.type # "end" /\ h.next <= n + 1 /\ h.evicted < h.next
      /\ Rising(q) /\ Len(q) <= HistoryLimit
  BY DEF Fresh, HubGood
<1>9. ASSUME NEW x, x.id \in Nat, x.no \in Nat, x.id > 0, x.id <= h.next,
             x.no + h.next = n + x.id + 1, NEW m, m.next = h.next + 1
      PROVE  Known(x, m, n + 1)
  BY <1>1, <1>9, NextKnown
<1>4. CASE e.type \in LiveOnly
  <2>1. k = [h EXCEPT !.next = e.id + 1]
    BY <1>4 DEF Kept
  <2>2. k \in HubState /\ k.next = h.next + 1 /\ k.history = q /\ k.evicted = h.evicted
    BY <1>1, <2>1 DEF HubState
  <2> HIDE DEF k
  <2>3. \A x \in Elems(q) : Known(x, k, n + 1)
    BY <1>1, <1>2, <1>9, <2>2
  <2>4. HubGood(k, n + 1)
    BY <1>1, <1>2, <1>3, <2>2, <2>3 DEF HubGood
  <2> QED
    BY <1>1, <1>4, <2>2, <2>4 DEF k
<1>5. CASE e.type \notin LiveOnly /\ Len(q) < HistoryLimit
  <2>1. k = [h EXCEPT !.next = e.id + 1, !.history = Append(@, e)]
    BY <1>5 DEF Kept
  <2>2. /\ a \in Seq(Event) /\ Len(a) = Len(q) + 1 /\ Elems(a) = Elems(q) \cup {e}
        /\ Rising(a)
    BY <1>1, <1>2, Appended DEF HubGood
  <2> HIDE DEF a
  <2>3. k \in HubState /\ k.next = h.next + 1 /\ k.history = a /\ k.evicted = h.evicted
    <3>1. k = [next |-> e.id + 1, history |-> a, evicted |-> h.evicted]
      BY <1>1, <2>1 DEF a, HubState
    <3> QED
      BY <1>1, <2>2, <3>1 DEF HubState
  <2> HIDE DEF k
  <2>4. \A x \in Elems(q) : Known(x, k, n + 1)
    BY <1>1, <1>2, <1>9, <2>3
  <2>5. Known(e, k, n + 1) /\ e.id > k.evicted
    BY <1>1, <1>3, <2>3 DEF Known
  <2>6. HubGood(k, n + 1)
    BY <1>1, <1>2, <1>3, <1>5, <2>2, <2>3, <2>4, <2>5 DEF HubGood
  <2> QED
    BY <1>1, <2>2, <2>3, <2>6 DEF k
<1>6. CASE e.type \notin LiveOnly /\ ~(Len(q) < HistoryLimit)
  <2>1. k = [next |-> e.id + 1, history |-> t, evicted |-> Head(q).id]
    BY <1>6 DEF Kept
  <2>2. q # <<>> /\ Len(q) = HistoryLimit
    BY <1>1, <1>3, <1>6
  <2>3. /\ Head(q) \in Elems(q) /\ r \in Seq(Event) /\ Len(r) = Len(q) - 1
        /\ Elems(q) = Elems(r) \cup {Head(q)}
        /\ Rising(r) /\ \A x \in Elems(r) : Head(q).id < x.id
    BY <1>1, <1>3, <2>2, HeadFirst
  <2> HIDE DEF r
  <2>4. /\ t \in Seq(Event) /\ Len(t) = Len(q) /\ Elems(t) = Elems(r) \cup {e}
        /\ Rising(t)
    <3>1. \A x \in Elems(r) : x.id < e.id
      BY <1>1, <1>2, <2>3
    <3> QED
      BY <1>1, <2>2, <2>3, <3>1, Appended
  <2>5. k \in HubState /\ k.next = h.next + 1 /\ k.history = t /\ k.evicted = Head(q).id
    BY <1>1, <1>2, <2>1, <2>3, <2>4 DEF HubState
  <2> HIDE DEF k, t
  <2>6. \A x \in Elems(r) : Known(x, k, n + 1) /\ x.id > k.evicted
    BY <1>1, <1>2, <1>9, <2>3, <2>5, SMTT(40)
  <2>7. Known(e, k, n + 1) /\ e.id > k.evicted
    BY <1>1, <1>2, <1>3, <2>3, <2>5 DEF Known
  <2>8. HubGood(k, n + 1)
    BY <1>1, <1>2, <1>3, <1>6, <2>2, <2>3, <2>4, <2>5, <2>6, <2>7 DEF HubGood
  <2>9. h.evicted <= k.evicted
    BY <1>1, <1>2, <2>3, <2>5
  <2> QED
    BY <1>1, <1>2, <2>3, <2>4, <2>5, <2>8, <2>9 DEF k
<1> QED
  BY <1>4, <1>5, <1>6

-----------------------------------------------------------------------------
(* The invariant of one page and its stream.                               *)

(* What the stream will still deliver; what a stream that was closed for   *)
(* being slow holds besides is the end.                                    *)
CarriedBy(s) ==
    Elems(s.wire) \cup Elems(s.replay) \cup (IF s.listed THEN Elems(s.queue) ELSE {})

(* Later than all that the stream has taken, but for its queue.            *)
Beyond(s, i) == s.cursor < i /\ \A r \in Elems(s.replay) : r.id < i

(* An open stream of a page that has received everything up to last: wire, *)
(* replay and queue follow each other without a gap, as far as the history *)
(* reaches.                                                                *)
StreamGood(h, n, s, last) ==
    /\ last <= s.cursor /\ s.cursor < h.next
    /\ Rising(s.wire) /\ \A e \in Elems(s.wire) : last < e.id /\ e.id <= s.cursor
    /\ Rising(s.replay) /\ \A e \in Elems(s.replay) : s.cursor < e.id
    /\ ~s.listed => s.queue = <<End>>
    /\ s.listed => /\ Rising(s.queue)
                   /\ \A e \in Elems(s.queue) : e.type # "end" /\ Beyond(s, e.id)
    /\ \A e \in CarriedBy(s) :
         /\ Known(e, h, n)
         /\ e.type \in LiveOnly \/ e \in Elems(h.history) \/ e.id <= h.evicted
    /\ \A e \in Elems(h.history) :
         /\ last < e.id /\ e.id <= s.cursor => e \in Elems(s.wire)
         /\ s.cursor < e.id => e \in CarriedBy(s) \/ (~s.listed /\ Beyond(s, e.id))

(* What the page of p can still receive, and what it can no longer: then   *)
(* its next connection will find that it has missed something.             *)
Coming(h, s) == Elems(h.history) \cup CarriedBy(s)

Lost(h, s, p) ==
    \/ p.missed
    \/ ~s.listed /\ p.last < h.evicted /\ Beyond(s, h.evicted)

(* The row r, and the text x that was current at the event q, if it is     *)
(* more than line breaks.  M are the rows whose events are being published.*)
RowKnown(h, s, p, r, M) ==
    \/ r \in p.rows \/ r \in M
    \/ Lost(h, s, p)
    \/ \E e \in Coming(h, s) : e.type = "console_event" /\ e.row = r /\ p.last < e.id

TextKnown(h, s, p, x, q, text, M) ==
    \/ IsPrefix(x, text) \/ Spoken(x) = {} \/ M # {}
    \/ Lost(h, s, p)
    \/ \E e \in Coming(h, s) : e.type = "console_event" /\ q < e.id

PageGood(h, n, s, p, c, M) ==
    /\ p.last < h.next
    /\ \A e \in Elems(h.history) : e.no > p.boot /\ e.id <= p.last => e.no \in p.seen
    /\ IF s.open THEN p.at = "loaded" /\ StreamGood(h, n, s, p.last) ELSE s = NoStream
    /\ p.at = "loaded" =>
         \A i \in DOMAIN c.rows : RowKnown(h, s, p, c.rows[i].id, M)
    /\ TextKnown(h, s, p, p.live, p.last, c.text, M)
    /\ \A e \in CarriedBy(s) :
         e.type = "console_live" => TextKnown(h, s, p, e.text, e.id, c.text, M)

(* A step of the hub and the stream of a page that loses nothing it still  *)
(* has to receive, or is found out.                                        *)
LosesNone(h, s, k, t, p) ==
    /\ Lost(h, s, p) => Lost(k, t, p)
    /\ \A e \in Coming(h, s) :
         e.type \notin LiveOnly /\ p.last < e.id => e \in Coming(k, t) \/ Lost(k, t, p)

LEMMA StableRow == \A e : e.type = "console_event" => e.type \notin LiveOnly
BY DEF LiveOnly

LEMMA RowStays ==
    ASSUME NEW h, NEW s, NEW k, NEW t, NEW p, NEW r, NEW M,
           LosesNone(h, s, k, t, p), RowKnown(h, s, p, r, M)
    PROVE  RowKnown(k, t, p, r, M)
BY StableRow DEF RowKnown, LosesNone

LEMMA TextStays ==
    ASSUME NEW h, NEW s, NEW k, NEW t, NEW p, NEW x, NEW q \in Nat, NEW text, NEW M,
           p.last \in Nat, p.last <= q, \A e \in Coming(h, s) : e.id \in Nat,
           LosesNone(h, s, k, t, p), TextKnown(h, s, p, x, q, text, M)
    PROVE  TextKnown(k, t, p, x, q, text, M)
<1>1. CASE \E e \in Coming(h, s) : e.type = "console_event" /\ q < e.id
  <2>1. PICK e \in Coming(h, s) : e.type = "console_event" /\ q < e.id
    BY <1>1
  <2>2. p.last < e.id /\ e.type \notin LiveOnly
    BY <2>1, StableRow
  <2>3. e \in Coming(k, t) \/ Lost(k, t, p)
    BY <2>1, <2>2 DEF LosesNone
  <2> QED
    BY <2>1, <2>3 DEF TextKnown
<1> QED
  BY <1>1 DEF TextKnown, LosesNone

-----------------------------------------------------------------------------
(* One _publish, for one stream.                                           *)

LEMMA StreamFields ==
    ASSUME NEW s \in StreamState
    PROVE  /\ s.open \in BOOLEAN /\ s.listed \in BOOLEAN /\ s.cursor \in Nat
           /\ s.replay \in Seq(Event) /\ s.queue \in Seq(Event) /\ s.wire \in Seq(Event)
BY DEF StreamState

LEMMA CarriedTold ==
    ASSUME NEW s \in StreamState, NEW e \in CarriedBy(s)
    PROVE  e \in Event /\ e.id \in Nat
<1>1. e \in Event
  BY StreamFields, ElemsTold DEF CarriedBy
<1> QED
  BY <1>1 DEF Event

LEMMA ComingTold ==
    ASSUME NEW s \in StreamState, NEW h \in HubState, NEW e \in Coming(h, s)
    PROVE  e \in Event /\ e.id \in Nat
<1>1. h.history \in Seq(Event)
  BY DEF HubState
<1>2. e \in Event
  BY <1>1, CarriedTold, ElemsTold DEF Coming
<1> QED
  BY <1>2 DEF Event

LEMMA EndTold == End \in Event
<1>1. <<>> \in Seq(Delta) /\ 0 \in Nat
  OBVIOUS
<1>3. "end" \in EventType
  BY DEF EventType
<1> DEFINE t == <<>>
<1> HIDE DEF t
<1>2. t \in Seq(Delta) => [id |-> 0, no |-> 0, type |-> "end", row |-> 0, text |-> t] \in Event
  BY <1>1, <1>3 DEF Event
<1> QED
  BY <1>1, <1>2 DEF End, t

(* What put_nowait does to a stream.                                       *)
LEMMA OfferCases ==
    ASSUME NEW s \in StreamState, NEW e \in Event, NEW t, t = Offer(s, e)
    PROVE  /\ t \in StreamState
           /\ t.open = s.open /\ t.cursor = s.cursor /\ t.replay = s.replay
           /\ t.wire = s.wire
           /\ \/ t = s /\ (~s.listed \/ e.type \in LiveOnly)
              \/ /\ s.listed /\ t.listed /\ t.queue = Append(s.queue, e)
                 /\ Len(s.queue) < QueueLimit
              \/ s.listed /\ ~t.listed /\ t.queue = <<End>> /\ e.type \notin LiveOnly
<1>1. CASE s.listed /\ Len(s.queue) < QueueLimit
  <2> DEFINE a == Append(s.queue, e)
  <2>1. a \in Seq(Event)
    BY StreamFields
  <2>2. t = [s EXCEPT !.queue = a]
    BY <1>1 DEF Offer
  <2> HIDE DEF a
  <2>3. /\ t \in StreamState /\ t.open = s.open /\ t.cursor = s.cursor
        /\ t.replay = s.replay /\ t.wire = s.wire /\ t.listed = s.listed /\ t.queue = a
    BY <2>1, <2>2 DEF StreamState
  <2> QED
    BY <1>1, <2>3 DEF a
<1>2. CASE s.listed /\ ~(Len(s.queue) < QueueLimit) /\ e.type \notin LiveOnly
  <2> DEFINE a == <<End>>
  <2>1. a \in Seq(Event)
    BY EndTold
  <2>2. t = [s EXCEPT !.listed = FALSE, !.queue = a]
    BY <1>2 DEF Offer
  <2> HIDE DEF a
  <2>3. t = [open |-> s.open, listed |-> FALSE, cursor |-> s.cursor,
             replay |-> s.replay, queue |-> a, wire |-> s.wire]
    BY <2>2 DEF StreamState
  <2>4. /\ t \in StreamState /\ t.open = s.open /\ t.cursor = s.cursor
        /\ t.replay = s.replay /\ t.wire = s.wire /\ ~t.listed /\ t.queue = a
    BY <2>1, <2>3, StreamFields DEF StreamState
  <2> QED
    BY <1>2, <2>4 DEF a
<1>3. CASE ~s.listed
  BY <1>3 DEF Offer
<1>4. CASE s.listed /\ ~(Len(s.queue) < QueueLimit) /\ e.type \in LiveOnly
  BY <1>4 DEF Offer
<1> QED
  BY <1>1, <1>2, <1>3, <1>4

(* What one _publish keeps of what a page can still receive.               *)
LEMMA OfferLosesNone ==
    ASSUME NEW h \in HubState, NEW n \in Nat, HubGood(h, n), NEW e, Fresh(e, h, n),
           NEW s \in StreamState, NEW p, p.last \in Nat, p.last < h.next,
           IF s.open THEN StreamGood(h, n, s, p.last) ELSE s = NoStream
    PROVE  LosesNone(h, s, Kept(h, e), Offer(s, e), p)
<1> DEFINE k == Kept(h, e)
           t == Offer(s, e)
<1>1. /\ k \in HubState /\ HubGood(k, n + 1) /\ h.evicted <= k.evicted
      /\ \A x \in Elems(h.history) : x \in Elems(k.history) \/ x.id <= k.evicted
  BY KeptGood
<1>2. e \in Event /\ h.evicted \in Nat /\ k.evicted \in Nat
  BY <1>1 DEF Fresh, HubState
<1>3. /\ t \in StreamState
      /\ t.open = s.open /\ t.cursor = s.cursor /\ t.replay = s.replay /\ t.wire = s.wire
      /\ \/ t = s /\ (~s.listed \/ e.type \in LiveOnly)
         \/ s.listed /\ t.listed /\ t.queue = Append(s.queue, e)
         \/ s.listed /\ ~t.listed /\ t.queue = <<End>> /\ e.type \notin LiveOnly
  BY <1>2, OfferCases
<1> HIDE DEF k, t
<1>4. \A i : Beyond(t, i) <=> Beyond(s, i)
  BY <1>3 DEF Beyond
<1>5. \A x \in Coming(h, s) : x.id \in Nat
  BY ComingTold
<1>6. /\ s.cursor \in Nat
      /\ \A r \in Elems(s.replay) : r.id \in Nat
  <2>1. \A r \in Elems(s.replay) : r \in Coming(h, s)
    BY DEF Coming, CarriedBy
  <2> QED
    BY <1>5, <2>1, StreamFields
<1>7. ASSUME NEW i \in Nat, NEW j \in Nat, i <= j, Beyond(s, i)
      PROVE  Beyond(s, j)
  BY <1>6, <1>7 DEF Beyond
<1>8. Lost(h, s, p) => Lost(k, t, p)
  BY <1>1, <1>2, <1>3, <1>4, <1>7 DEF Lost
<1>9. ASSUME NEW x \in Coming(h, s), x.type \notin LiveOnly, p.last < x.id,
             x \notin Coming(k, t)
      PROVE  Lost(k, t, p)
  <2>1. x.id \in Nat /\ x \notin Elems(k.history) /\ x \notin CarriedBy(t)
    BY <1>5, <1>9 DEF Coming
  <2>2. CASE ~s.open
    <3>1. s.replay = <<>> /\ s.queue = <<>> /\ s.wire = <<>> /\ ~s.listed /\ s.cursor = 0
      BY <2>2 DEF NoStream
    <3>2. x \in Elems(h.history) /\ Elems(s.replay) = {}
      BY <3>1, <1>9, NoElems DEF Coming, CarriedBy
    <3>3. x.id <= k.evicted
      BY <1>1, <2>1, <3>2
    <3>4. Beyond(s, k.evicted) /\ p.last < k.evicted
      BY <1>2, <1>9, <2>1, <3>1, <3>2, <3>3 DEF Beyond
    <3> QED
      BY <1>3, <1>4, <3>1, <3>4 DEF Lost
  <2>3. CASE s.open
    <3>1. StreamGood(h, n, s, p.last)
      BY <2>3
    <3>2. x \notin Elems(s.wire) /\ x \notin Elems(s.replay)
      BY <1>3, <2>1 DEF CarriedBy
    <3>3. ~t.listed
      <4> SUFFICES ASSUME t.listed PROVE FALSE
        OBVIOUS
      <4>1. s.listed /\ Elems(s.queue) \subseteq Elems(t.queue)
        BY <1>2, <1>3, StreamFields, Appended, ZenonT(60)
      <4>2. x \notin CarriedBy(s)
        BY <2>1, <3>2, <4>1 DEF CarriedBy
      <4>3. x \in Elems(h.history)
        BY <1>9, <4>2 DEF Coming
      <4>4. x.id <= s.cursor \/ s.cursor < x.id
        BY <1>6, <2>1
      <4> QED
        BY <1>9, <3>1, <3>2, <4>1, <4>2, <4>3, <4>4 DEF StreamGood
    <3>4. Beyond(s, x.id)
      <4>1. CASE x \in CarriedBy(s)
        <5>1. s.listed /\ x \in Elems(s.queue)
          BY <3>2, <4>1 DEF CarriedBy
        <5> QED
          BY <3>1, <5>1 DEF StreamGood
      <4>2. CASE x \notin CarriedBy(s)
        <5>1. x \in Elems(h.history)
          BY <1>9, <4>2 DEF Coming
        <5>2. x.id <= s.cursor \/ s.cursor < x.id
          BY <1>6, <2>1
        <5> QED
          BY <1>9, <3>1, <3>2, <4>2, <5>1, <5>2 DEF StreamGood
      <4> QED
        BY <4>1, <4>2
    <3>5. x.id <= k.evicted
      <4>1. x \in Elems(h.history) \/ x.id <= h.evicted
        BY <1>9, <3>1 DEF Coming, StreamGood
      <4> QED
        BY <1>1, <1>2, <2>1, <4>1
    <3>6. p.last < k.evicted
      BY <1>2, <1>9, <2>1, <3>5
    <3> QED
      BY <1>2, <1>4, <1>7, <2>1, <3>3, <3>4, <3>5, <3>6 DEF Lost
  <2> QED
    BY <2>2, <2>3
<1> QED
  BY <1>8, <1>9 DEF LosesNone, k, t

(* An open stream stays good.                                              *)
LEMMA OfferGood ==
    ASSUME NEW h \in HubState, NEW n \in Nat, HubGood(h, n), NEW e, Fresh(e, h, n),
           NEW s \in StreamState, NEW last \in Nat, StreamGood(h, n, s, last)
    PROVE  /\ StreamGood(Kept(h, e), n + 1, Offer(s, e), last)
           /\ CarriedBy(Offer(s, e)) \subseteq CarriedBy(s) \cup {e}
<1> DEFINE k == Kept(h, e)
           t == Offer(s, e)
<1>1. /\ k \in HubState /\ HubGood(k, n + 1) /\ h.evicted <= k.evicted
      /\ k.next = h.next + 1
      /\ Elems(k.history) \subseteq Elems(h.history) \cup {e}
      /\ \A x \in Elems(h.history) : x \in Elems(k.history) \/ x.id <= k.evicted
      /\ e.type \notin LiveOnly => e \in Elems(k.history)
  BY KeptGood
<1>2. /\ e \in Event /\ e.id = h.next /\ e.no = n + 1 /\ e.type # "end"
      /\ h.evicted \in Nat /\ k.evicted \in Nat /\ h.next \in Nat /\ h.next > 0
  BY <1>1 DEF Fresh, HubState
<1>3. /\ t \in StreamState
      /\ t.open = s.open /\ t.cursor = s.cursor /\ t.replay = s.replay /\ t.wire = s.wire
      /\ \/ t = s /\ (~s.listed \/ e.type \in LiveOnly)
         \/ s.listed /\ t.listed /\ t.queue = Append(s.queue, e)
         \/ s.listed /\ ~t.listed /\ t.queue = <<End>> /\ e.type \notin LiveOnly
  BY <1>2, OfferCases
<1>4. s.cursor \in Nat /\ s.queue \in Seq(Event)
  BY StreamFields
<1> HIDE DEF k, t
<1>5. \A i : Beyond(t, i) <=> Beyond(s, i)
  BY <1>3 DEF Beyond
<1>6. \A x \in CarriedBy(s) : x.id \in Nat /\ x.no \in Nat /\ x.id > 0 /\ x.id < h.next
                              /\ x.no + h.next = n + x.id + 1
  <2> SUFFICES ASSUME NEW x \in CarriedBy(s)
               PROVE  x.id \in Nat /\ x.no \in Nat /\ x.id > 0 /\ x.id < h.next
                      /\ x.no + h.next = n + x.id + 1
    OBVIOUS
  <2>1. x.id \in Nat /\ x.no \in Nat
    BY CarriedTold DEF Event
  <2>2. Known(x, h, n)
    BY DEF StreamGood
  <2> QED
    BY <1>2, <2>1, <2>2 DEF Known
<1>7. Beyond(s, e.id)
  <2>1. \A r \in Elems(s.replay) : r \in CarriedBy(s)
    BY DEF CarriedBy
  <2> QED
    BY <1>2, <1>6, <2>1 DEF Beyond, StreamGood
<1>8. CarriedBy(t) \subseteq CarriedBy(s) \cup {e}
  <2>1. CASE t.listed /\ s.listed /\ t.queue = Append(s.queue, e)
    <3>1. Elems(t.queue) = Elems(s.queue) \cup {e}
      BY <1>2, <1>4, <2>1, Appended
    <3> QED
      BY <1>3, <2>1, <3>1 DEF CarriedBy
  <2> QED
    BY <1>3, <2>1 DEF CarriedBy
<1>9. \A x \in CarriedBy(s) \cup {e} : Known(x, k, n + 1)
  <2>1. ASSUME NEW x \in CarriedBy(s) PROVE Known(x, k, n + 1)
    BY <1>1, <1>2, <1>6, NextKnown
  <2>2. Known(e, k, n + 1)
    BY <1>1, <1>2 DEF Known
  <2> QED
    BY <2>1, <2>2
<1>10. ASSUME NEW x \in CarriedBy(s) \cup {e}
       PROVE  x.type \in LiveOnly \/ x \in Elems(k.history) \/ x.id <= k.evicted
  <2>1. CASE x = e
    BY <1>1, <2>1
  <2>2. CASE x \in CarriedBy(s)
    <3>1. x.type \in LiveOnly \/ x \in Elems(h.history) \/ x.id <= h.evicted
      BY <2>2 DEF StreamGood
    <3> QED
      BY <1>1, <1>2, <1>6, <2>2, <3>1
  <2> QED
    BY <2>1, <2>2
<1>11. t.listed => /\ Rising(t.queue)
                   /\ \A x \in Elems(t.queue) : x.type # "end" /\ Beyond(t, x.id)
  <2>1. CASE t.listed /\ s.listed /\ t.queue = Append(s.queue, e)
    <3>1. Rising(s.queue) /\ \A x \in Elems(s.queue) : x.type # "end" /\ Beyond(s, x.id)
      BY <2>1 DEF StreamGood
    <3>2. \A x \in Elems(s.queue) : x.id < e.id
      <4>1. \A x \in Elems(s.queue) : x \in CarriedBy(s)
        BY <2>1 DEF CarriedBy
      <4> QED
        BY <1>2, <1>6, <4>1
    <3>3. Rising(t.queue) /\ Elems(t.queue) = Elems(s.queue) \cup {e}
      BY <1>2, <1>4, <2>1, <3>1, <3>2, Appended
    <3> QED
      BY <1>2, <1>5, <1>7, <3>1, <3>3
  <2>2. CASE t = s
    BY <1>5, <2>2 DEF StreamGood
  <2> QED
    BY <1>3, <2>1, <2>2
<1>12. ~t.listed => t.queue = <<End>>
  BY <1>3 DEF StreamGood
<1>13. ASSUME NEW x \in Elems(k.history)
       PROVE  /\ last < x.id /\ x.id <= t.cursor => x \in Elems(t.wire)
              /\ t.cursor < x.id => x \in CarriedBy(t) \/ (~t.listed /\ Beyond(t, x.id))
  <2>1. CASE x = e
    <3>1. ~(x.id <= t.cursor)
      BY <1>2, <1>3, <1>4, <2>1 DEF StreamGood
    <3>2. CASE t.listed /\ t.queue = Append(s.queue, e)
      <4>1. e \in Elems(t.queue)
        BY <1>2, <1>4, <3>2, Appended
      <4> QED
        BY <2>1, <3>1, <3>2, <4>1 DEF CarriedBy
    <3>3. CASE ~t.listed
      BY <1>5, <1>7, <2>1, <3>1, <3>3
    <3>4. CASE t = s /\ s.listed
      <4>1. e.type \in LiveOnly
        BY <1>3, <3>4
      <4> QED
        BY <1>1, <1>13, <2>1, <4>1 DEF HubGood
    <3> QED
      BY <1>3, <3>2, <3>3, <3>4
  <2>2. CASE x \in Elems(h.history)
    <3>1. /\ last < x.id /\ x.id <= s.cursor => x \in Elems(s.wire)
          /\ s.cursor < x.id => x \in CarriedBy(s) \/ (~s.listed /\ Beyond(s, x.id))
      BY <2>2 DEF StreamGood
    <3>2. CASE t = s
      BY <3>1, <3>2
    <3>3. CASE s.listed /\ t.listed /\ t.queue = Append(s.queue, e)
      <4>1. CarriedBy(s) \subseteq CarriedBy(t)
        BY <1>2, <1>3, <1>4, <3>3, Appended DEF CarriedBy
      <4> QED
        BY <1>3, <3>1, <3>3, <4>1
    <3>4. CASE s.listed /\ ~t.listed
      <4>1. ASSUME x \in CarriedBy(s) PROVE x \in CarriedBy(t) \/ Beyond(s, x.id)
                                            \/ x \in Elems(s.wire)
        BY <1>3, <3>4, <4>1 DEF CarriedBy, StreamGood
      <4>2. x \in Elems(s.wire) => x.id <= s.cursor
        BY DEF StreamGood
      <4>3. x.id \in Nat
        <5>1. h.history \in Seq(Event)
          BY DEF HubState
        <5> QED
          BY <2>2, <5>1, ElemsTold DEF Event
      <4>4. ~(s.cursor < x.id /\ x.id <= s.cursor)
        BY <1>4, <4>3
      <4> QED
        BY <1>3, <1>5, <3>1, <3>4, <4>1, <4>2, <4>4
    <3> QED
      BY <1>3, <3>2, <3>3, <3>4
  <2> QED
    BY <1>1, <2>1, <2>2
<1>14. /\ last <= t.cursor /\ t.cursor < k.next
       /\ Rising(t.wire) /\ \A x \in Elems(t.wire) : last < x.id /\ x.id <= t.cursor
       /\ Rising(t.replay) /\ \A x \in Elems(t.replay) : t.cursor < x.id
  BY <1>1, <1>2, <1>3, <1>4 DEF StreamGood
<1>15. \A x \in CarriedBy(t) : /\ Known(x, k, n + 1)
                               /\ \/ x.type \in LiveOnly \/ x \in Elems(k.history)
                                  \/ x.id <= k.evicted
  BY <1>8, <1>9, <1>10
<1>16. StreamGood(k, n + 1, t, last)
  BY <1>11, <1>12, <1>13, <1>14, <1>15 DEF StreamGood
<1> QED
  BY <1>8, <1>16 DEF k, t


LEMMA NothingCarried == CarriedBy(NoStream) = {} /\ \A i \in Nat : i > 0 => Beyond(NoStream, i)
<1>1. NoStream.replay = <<>> /\ NoStream.wire = <<>> /\ ~NoStream.listed /\ NoStream.cursor = 0
  BY DEF NoStream
<1> QED
  BY <1>1, NoElems DEF CarriedBy, Beyond

LEMMA CarriedBetween ==
    ASSUME NEW h \in HubState, NEW n, NEW s \in StreamState, NEW last \in Nat,
           StreamGood(h, n, s, last), NEW x \in CarriedBy(s)
    PROVE  x.id \in Nat /\ last < x.id /\ x.id < h.next
<1>1. x.id \in Nat
  BY CarriedTold
<1>2. h.next \in Nat /\ s.cursor \in Nat /\ last <= s.cursor
  BY StreamFields DEF HubState, StreamGood
<1>3. Known(x, h, n)
  BY DEF StreamGood
<1>4. x.id < h.next
  BY <1>1, <1>2, <1>3 DEF Known
<1>5. CASE x \in Elems(s.wire)
  BY <1>1, <1>4, <1>5 DEF StreamGood
<1>6. CASE x \in Elems(s.replay)
  BY <1>1, <1>2, <1>4, <1>6 DEF StreamGood
<1>7. CASE s.listed /\ x \in Elems(s.queue)
  BY <1>1, <1>2, <1>4, <1>7 DEF StreamGood, Beyond
<1> QED
  BY <1>5, <1>6, <1>7 DEF CarriedBy

(* One _publish, for one page: the row of a console_event is on its way.   *)
Left(M, e) == IF e.type = "console_event" THEN M \ {e.row} ELSE M

LEMMA PublishGood ==
    ASSUME NEW h \in HubState, NEW n \in Nat, HubGood(h, n), NEW e, Fresh(e, h, n),
           NEW s \in StreamState, NEW p, p.last \in Nat, NEW c, NEW M,
           PageGood(h, n, s, p, c, M),
           e.type = "console_live" => IsPrefix(e.text, c.text)
    PROVE  PageGood(Kept(h, e), n + 1, Offer(s, e), p, c, Left(M, e))
<1> DEFINE k == Kept(h, e)
           t == Offer(s, e)
           N == Left(M, e)
<1>1. /\ k \in HubState /\ k.next = h.next + 1
      /\ Elems(k.history) \subseteq Elems(h.history) \cup {e}
      /\ e.type \notin LiveOnly => e \in Elems(k.history)
  BY KeptGood
<1>2. e \in Event /\ e.id = h.next /\ h.next \in Nat /\ p.last < h.next
  BY DEF Fresh, HubState, PageGood
<1>3. IF s.open THEN StreamGood(h, n, s, p.last) ELSE s = NoStream
  BY DEF PageGood
<1>4. LosesNone(h, s, k, t, p)
  BY <1>2, <1>3, OfferLosesNone
<1>5. t \in StreamState /\ t.open = s.open /\ (~s.listed => t = s)
  BY <1>2, OfferCases
<1>6. IF t.open THEN p.at = "loaded" /\ StreamGood(k, n + 1, t, p.last) ELSE t = NoStream
  <2>1. CASE s.open
    BY <1>3, <1>5, <2>1, OfferGood DEF PageGood
  <2>2. CASE ~s.open
    <3>1. s = NoStream /\ ~s.listed
      BY <1>3, <2>2 DEF NoStream
    <3> QED
      BY <1>5, <2>2, <3>1
  <2> QED
    BY <1>5, <2>1, <2>2
<1>7. CarriedBy(t) \subseteq CarriedBy(s) \cup {e}
  <2>1. CASE s.open
    BY <1>3, <2>1, OfferGood
  <2>2. CASE ~s.open
    <3>1. ~s.listed
      BY <1>3, <2>2 DEF NoStream
    <3> QED
      BY <1>5, <3>1
  <2> QED
    BY <2>1, <2>2
<1> HIDE DEF k, t
<1>8. e.type = "console_event" => e \in Coming(k, t)
  BY <1>1, StableRow DEF Coming
<1>9. \A x \in Coming(h, s) : x.id \in Nat
  BY ComingTold
<1>10. ASSUME NEW x \in CarriedBy(s) PROVE x.id \in Nat /\ p.last <= x.id /\ x.id < h.next
  <2>1. s.open
    <3> SUFFICES ASSUME ~s.open PROVE FALSE
      OBVIOUS
    <3>1. s = NoStream
      BY <1>3
    <3> QED
      BY <3>1, NothingCarried
  <2>2. StreamGood(h, n, s, p.last)
    BY <1>3, <2>1
  <2>3. x.id \in Nat /\ p.last < x.id /\ x.id < h.next
    BY <2>2, CarriedBetween
  <2> QED
    BY <2>3
<1>11. ASSUME NEW r, RowKnown(h, s, p, r, M) PROVE RowKnown(k, t, p, r, N)
  <2>1. RowKnown(k, t, p, r, M)
    BY <1>4, <1>11, RowStays
  <2>2. CASE r \in M /\ r \notin N
    <3>1. e.type = "console_event" /\ e.row = r
      BY <2>2 DEF Left
    <3> QED
      BY <1>2, <1>8, <3>1 DEF RowKnown
  <2> QED
    BY <2>1, <2>2 DEF RowKnown
<1>12. ASSUME NEW x, NEW q \in Nat, p.last <= q, q < h.next, TextKnown(h, s, p, x, q, c.text, M)
       PROVE  TextKnown(k, t, p, x, q, c.text, N)
  <2>1. TextKnown(k, t, p, x, q, c.text, M)
    BY <1>4, <1>9, <1>12, TextStays
  <2>2. CASE M # {} /\ N = {}
    <3>1. e.type = "console_event"
      BY <2>2 DEF Left
    <3> QED
      BY <1>2, <1>8, <1>12, <3>1 DEF TextKnown
  <2> QED
    BY <2>1, <2>2 DEF TextKnown
<1> HIDE DEF N
<1>13. p.last < k.next
  BY <1>1, <1>2
<1>14. ASSUME NEW x \in Elems(k.history), x.no > p.boot, x.id <= p.last PROVE x.no \in p.seen
  <2>1. x # e
    BY <1>2, <1>14
  <2> QED
    BY <1>1, <1>14, <2>1 DEF PageGood
<1>15. p.at = "loaded" => \A i \in DOMAIN c.rows : RowKnown(k, t, p, c.rows[i].id, N)
  BY <1>11 DEF PageGood
<1>16. TextKnown(k, t, p, p.live, p.last, c.text, N)
  BY <1>2, <1>12 DEF PageGood
<1>17. ASSUME NEW x \in CarriedBy(t), x.type = "console_live"
       PROVE  TextKnown(k, t, p, x.text, x.id, c.text, N)
  <2>1. CASE x = e
    BY <1>17, <2>1 DEF TextKnown
  <2>2. CASE x \in CarriedBy(s)
    <3>1. TextKnown(h, s, p, x.text, x.id, c.text, M)
      BY <1>17, <2>2 DEF PageGood
    <3> QED
      BY <1>10, <1>12, <2>2, <3>1
  <2> QED
    BY <1>7, <2>1, <2>2
<1>18. PageGood(k, n + 1, t, p, c, N)
  BY <1>6, <1>13, <1>14, <1>15, <1>16, <1>17 DEF PageGood
<1> QED
  BY <1>18 DEF k, t, N

-----------------------------------------------------------------------------
(* All events of one publish.                                              *)

ItemState == [type : EventType \ {"end"}, row : Nat, text : Seq(Delta)]

(* The rows whose events are still to come, when i events are sent.        *)
RowsAfter(items, i) ==
    {items[j].row : j \in {m \in (i + 1)..Len(items) : items[m].type = "console_event"}}

Bounded(s) == Len(s.queue) <= QueueLimit /\ Len(s.wire) <= WireMax

(* Every live text is the beginning of the text in the buffer.             *)
LiveOf(items, d) ==
    \A i \in DOMAIN items : items[i].type = "console_live" => IsPrefix(items[i].text, d.text)

BothState == [hub : HubState, stream : [Client -> StreamState]]

LEMMA KeptType ==
    ASSUME NEW h \in HubState, NEW e \in Event
    PROVE  Kept(h, e) \in HubState
<1> DEFINE k == Kept(h, e)
           q == h.history
           a == Append(q, e)
           b == Append(Tail(q), e)
<1>1. /\ q \in Seq(Event) /\ Len(q) \in Nat /\ h.next \in Nat \ {0} /\ h.evicted \in Nat
      /\ e.id \in Nat /\ e.id + 1 \in Nat \ {0}
  BY DEF HubState, Event
<1>2. CASE e.type \in LiveOnly
  <2>1. k = [h EXCEPT !.next = e.id + 1]
    BY <1>2 DEF Kept
  <2> HIDE DEF k
  <2>2. k \in HubState
    BY <1>1, <2>1 DEF HubState
  <2> QED
    BY <2>2 DEF k
<1>3. CASE e.type \notin LiveOnly /\ Len(q) < HistoryLimit
  <2>1. a \in Seq(Event)
    BY <1>1
  <2>2. k = [h EXCEPT !.next = e.id + 1, !.history = a]
    BY <1>3 DEF Kept
  <2> HIDE DEF a, k
  <2>3. k = [next |-> e.id + 1, history |-> a, evicted |-> h.evicted]
    BY <2>2 DEF HubState
  <2>4. k \in HubState
    BY <1>1, <2>1, <2>3 DEF HubState
  <2> QED
    BY <2>4 DEF k
<1>4. CASE e.type \notin LiveOnly /\ ~(Len(q) < HistoryLimit)
  <2>1. q # <<>>
    BY <1>1, <1>4, HubAssumption
  <2>2. b \in Seq(Event) /\ Head(q).id \in Nat
    <3>1. Head(q) \in Event /\ Tail(q) \in Seq(Event)
      BY <1>1, <2>1
    <3>2. Head(q).id \in Nat
      BY <3>1 DEF Event
    <3> QED
      BY <3>1, <3>2
  <2>3. k = [next |-> e.id + 1, history |-> b, evicted |-> Head(q).id]
    BY <1>4 DEF Kept
  <2> HIDE DEF b, k
  <2>4. k \in HubState
    BY <1>1, <2>2, <2>3 DEF HubState
  <2> QED
    BY <2>4 DEF k
<1> QED
  BY <1>2, <1>3, <1>4

LEMMA OfferBounded ==
    ASSUME NEW s \in StreamState, NEW e \in Event, Bounded(s)
    PROVE  Bounded(Offer(s, e))
<1> DEFINE t == Offer(s, e)
<1>1. /\ t.wire = s.wire
      /\ \/ t = s
         \/ t.queue = Append(s.queue, e) /\ Len(s.queue) < QueueLimit
         \/ t.queue = <<End>>
  BY OfferCases
<1> HIDE DEF t
<1>2. s.queue \in Seq(Event) /\ QueueLimit \in Nat /\ QueueLimit > 0
  BY StreamFields, HubAssumption
<1>3. Len(t.queue) <= QueueLimit
  <2>1. CASE t = s
    BY <2>1 DEF Bounded
  <2>2. CASE t.queue = Append(s.queue, e) /\ Len(s.queue) < QueueLimit
    BY <1>2, <2>2
  <2>3. CASE t.queue = <<End>>
    <3>1. Len(t.queue) = 1
      BY <2>3
    <3> QED
      BY <1>2, <3>1
  <2> QED
    BY <1>1, <2>1, <2>2, <2>3
<1> QED
  BY <1>1, <1>3 DEF Bounded, t

LEMMA PageMore ==
    ASSUME NEW h, NEW n, NEW s, NEW p, NEW c, NEW M, NEW N, M \subseteq N,
           PageGood(h, n, s, p, c, M)
    PROVE  PageGood(h, n, s, p, c, N)
<1>1. \A r : RowKnown(h, s, p, r, M) => RowKnown(h, s, p, r, N)
  BY DEF RowKnown
<1>2. \A x, q, text : TextKnown(h, s, p, x, q, text, M) => TextKnown(h, s, p, x, q, text, N)
  BY DEF TextKnown
<1> QED
  BY <1>1, <1>2 DEF PageGood

LEMMA NumberedTold ==
    ASSUME hub \in HubState, NEW items \in Seq(ItemState), NEW n \in Nat
    PROVE  LET ev == Numbered(items, n) IN
           /\ Len(ev) = Len(items)
           /\ \A i \in 1..Len(items) :
                /\ ev[i] \in Event
                /\ ev[i].id = hub.next + i - 1 /\ ev[i].no = n + i
                /\ ev[i].type = items[i].type /\ ev[i].row = items[i].row
                /\ ev[i].text = items[i].text /\ ev[i].type # "end"
<1> DEFINE m == Len(items)
           ev == Numbered(items, n)
<1>1. m \in Nat /\ hub.next \in Nat /\ hub.next > 0
  BY DEF HubState
<1>2. ASSUME NEW i \in 1..m
      PROVE  /\ ev[i] \in Event
             /\ ev[i].id = hub.next + i - 1 /\ ev[i].no = n + i
             /\ ev[i].type = items[i].type /\ ev[i].row = items[i].row
             /\ ev[i].text = items[i].text /\ ev[i].type # "end"
  <2>1. items[i] \in ItemState
    OBVIOUS
  <2>2. items[i].type \in EventType \ {"end"} /\ items[i].row \in Nat /\ items[i].text \in Seq(Delta)
    BY <2>1 DEF ItemState
  <2>3. hub.next + i - 1 \in Nat /\ n + i \in Nat
    BY <1>1
  <2>4. ev[i] = [id |-> hub.next + i - 1, no |-> n + i, type |-> items[i].type,
                 row |-> items[i].row, text |-> items[i].text]
    BY DEF Numbered
  <2> HIDE DEF ev
  <2>5. ev[i] \in Event
    BY <2>2, <2>3, <2>4 DEF Event
  <2> QED
    BY <2>2, <2>4, <2>5
<1>3. Len(ev) = m
  BY <1>1 DEF Numbered
<1> QED
  BY <1>2, <1>3

(* The states that one publish goes through, one _publish after another.   *)
Through(after, ev) ==
    /\ after \in [0..Len(ev) -> BothState]
    /\ after[0] = State
    /\ \A i \in 1..Len(ev) : after[i] = Published(after[i - 1], ev[i])
    /\ AllPublished(ev) = after[Len(ev)]

LEMMA PublishedState ==
    ASSUME NEW x \in BothState, NEW e \in Event
    PROVE  /\ Published(x, e) \in BothState
           /\ Published(x, e).hub = Kept(x.hub, e)
           /\ \A c \in Client : Published(x, e).stream[c] = Offer(x.stream[c], e)
<1>1. x.hub \in HubState /\ x.stream \in [Client -> StreamState]
  BY DEF BothState
<1>2. Kept(x.hub, e) \in HubState
  BY <1>1, KeptType
<1>3. [c \in Client |-> Offer(x.stream[c], e)] \in [Client -> StreamState]
  BY <1>1, OfferCases
<1> DEFINE f == [c \in Client |-> Offer(x.stream[c], e)]
<1>4. Published(x, e) = [hub |-> Kept(x.hub, e), stream |-> f]
  BY DEF Published
<1>5. \A c \in Client : f[c] = Offer(x.stream[c], e)
  OBVIOUS
<1> HIDE DEF f
<1>6. f \in [Client -> StreamState]
  BY <1>3 DEF f
<1> QED
  BY <1>2, <1>4, <1>5, <1>6 DEF BothState

LEMMA PublishedThrough ==
    ASSUME hub \in HubState, stream \in [Client -> StreamState], NEW ev,
           Len(ev) \in Nat, \A i \in 1..Len(ev) : ev[i] \in Event
    PROVE  \E after : Through(after, ev)
<1> DEFINE n == Len(ev)
           S == BothState
           base == State
           step == [i \in 1..n |-> [x \in S |-> Published(x, ev[i])]]
           body(f) == [i \in 0..n |-> IF i = 0 THEN State ELSE Published(f[i - 1], ev[i])]
           after == CHOOSE f : f = body(f)
<1>1. n \in Nat
  OBVIOUS
<1>2. step \in [1..n -> [S -> S]]
  <2>1. ASSUME NEW x \in S, NEW i \in 1..n PROVE Published(x, ev[i]) \in S
    BY PublishedState
  <2> QED
    BY <2>1
<1>3. PICK g : Runs(g, n, S, base, step)
  <2>1. base \in S
    BY DEF State, BothState
  <2> HIDE DEF step, S, n, base, body, after
  <2> QED
    BY <1>1, <1>2, <2>1, Iterated
<1>4. ASSUME NEW i \in 1..n
      PROVE  i - 1 \in 0..n /\ g[i] = Published(g[i - 1], ev[i])
  <2>1. i - 1 \in 0..n
    BY <1>1
  <2>2. g[i - 1] \in S
    BY <1>3, <2>1 DEF Runs
  <2> QED
    BY <1>3, <2>1, <2>2 DEF Runs
<1>5. g = body(g)
  <2>1. body(g) = [i \in 0..n |-> g[i]]
    <3>1. ASSUME NEW i \in 0..n PROVE body(g)[i] = g[i]
      <4>1. CASE i = 0
        BY <1>3, <4>1 DEF Runs
      <4>2. CASE i # 0
        <5>1. i \in 1..n
          BY <1>1, <4>2
        <5>2. body(g)[i] = Published(g[i - 1], ev[i])
          BY <4>2
        <5> QED
          BY <1>4, <5>1, <5>2
      <4> QED
        BY <4>1, <4>2
    <3> QED
      BY <3>1
  <2> QED
    BY <1>3, <2>1 DEF Runs
<1>6. after = body(after)
  BY <1>5
<1>7. AllPublished(ev) = after[n]
  BY DEF AllPublished
<1>8. after[0] = State /\ \A i \in 1..n : after[i] = Published(after[i - 1], ev[i])
  <2> HIDE DEF after
  <2>1. \A i \in 0..n : after[i] = body(after)[i]
    BY <1>6
  <2>2. 0 \in 0..n /\ \A i \in 1..n : i \in 0..n /\ i # 0
    BY <1>1
  <2> QED
    BY <2>1, <2>2
<1>9. DOMAIN after = 0..n /\ after = [i \in 0..n |-> after[i]]
  <2> HIDE DEF after
  <2> QED
    BY <1>6
<1> HIDE DEF after, step, body
<1> DEFINE T == {i \in 0..n : after[i] \in S}
<1>10. 0 \in T
  BY <1>1, <1>8 DEF State, BothState
<1>11. ASSUME NEW i \in 0..n, i \in T, i < n PROVE i + 1 \in T
  <2>1. i + 1 \in 1..n /\ (i + 1) - 1 = i
    BY <1>1, <1>11
  <2>2. after[i + 1] = Published(after[i], ev[i + 1])
    BY <1>8, <2>1
  <2>3. after[i + 1] \in S
    BY <1>11, <2>1, <2>2, PublishedState
  <2> QED
    BY <2>1, <2>3
<1> HIDE DEF T
<1>12. \A i \in 0..n : i \in T
  <2> HIDE DEF n
  <2> QED
    BY <1>1, <1>10, <1>11, UpTo
<1>13. after \in [0..n -> S]
  BY <1>9, <1>12 DEF T
<1>14. Through(after, ev)
  BY <1>7, <1>8, <1>13 DEF Through
<1> QED
  BY <1>14

(* What one publish makes of the hub, the streams and the pages: what was  *)
(* in order before all of its events were sent is in order after them.     *)
Sound(x, items, n, i) ==
    /\ x.hub.next = hub.next + i /\ HubGood(x.hub, n + i)
    /\ \A c \in Client :
         /\ Bounded(x.stream[c])
         /\ stream[c] = NoStream => x.stream[c] = NoStream
         /\ \A p \in Page, d \in ConsoleState :
              /\ LiveOf(items, d)
              /\ PageGood(hub, n, stream[c], p, d, RowsAfter(items, 0))
              => PageGood(x.hub, n + i, x.stream[c], p, d, RowsAfter(items, i))

LEMMA OfferNothing ==
    ASSUME NEW e
    PROVE  Offer(NoStream, e) = NoStream
BY DEF Offer, NoStream

LEMMA SoundStep ==
    ASSUME hub \in HubState,
           NEW items \in Seq(ItemState), NEW n \in Nat, NEW i \in 0..Len(items), i < Len(items),
           NEW x \in BothState, Sound(x, items, n, i)
    PROVE  Sound(Published(x, Numbered(items, n)[i + 1]), items, n, i + 1)
<1> DEFINE m == Len(items)
           e == Numbered(items, n)[i + 1]
           y == Published(x, e)
<1>1. i + 1 \in 1..m /\ i \in Nat /\ m \in Nat /\ hub.next \in Nat
  BY DEF HubState
<1>2. /\ e \in Event /\ e.id = hub.next + i /\ e.no = n + i + 1 /\ e.type # "end"
      /\ e.type = items[i + 1].type /\ e.row = items[i + 1].row /\ e.text = items[i + 1].text
  <2> DEFINE f == Numbered(items, n)
             j == i + 1
  <2>1. j \in 1..m
    BY <1>1
  <2> HIDE DEF j
  <2>2. /\ f[j] \in Event /\ f[j].id = hub.next + j - 1 /\ f[j].no = n + j /\ f[j].type # "end"
        /\ f[j].type = items[j].type /\ f[j].row = items[j].row /\ f[j].text = items[j].text
    BY <2>1, NumberedTold
  <2>3. hub.next + j - 1 = hub.next + i /\ n + j = n + i + 1
    BY <1>1 DEF j
  <2> QED
    BY <2>2, <2>3 DEF j
<1> HIDE DEF e
<1>3. /\ y.hub = Kept(x.hub, e)
      /\ \A c \in Client : y.stream[c] = Offer(x.stream[c], e)
  BY <1>2, PublishedState
<1>4. /\ x.hub \in HubState /\ n + i \in Nat /\ HubGood(x.hub, n + i)
      /\ x.hub.next = hub.next + i /\ \A c \in Client : x.stream[c] \in StreamState
  BY <1>1 DEF BothState, Sound
<1>5. Fresh(e, x.hub, n + i)
  BY <1>2, <1>4 DEF Fresh
<1>6. HubGood(y.hub, (n + i) + 1) /\ y.hub.next = x.hub.next + 1
  BY <1>3, <1>4, <1>5, KeptGood
<1>7. (n + i) + 1 = n + (i + 1) /\ x.hub.next + 1 = hub.next + (i + 1)
  BY <1>1, <1>4
<1> HIDE DEF y
<1>8. ASSUME NEW c \in Client PROVE Bounded(y.stream[c])
  <2>1. Bounded(x.stream[c])
    BY DEF Sound
  <2> QED
    BY <1>2, <1>3, <1>4, <2>1, OfferBounded
<1>9. Left(RowsAfter(items, i), e) \subseteq RowsAfter(items, i + 1)
  <2> SUFFICES ASSUME NEW r \in Left(RowsAfter(items, i), e)
               PROVE  r \in RowsAfter(items, i + 1)
    OBVIOUS
  <2>1. r \in RowsAfter(items, i)
    BY DEF Left
  <2>2. PICK j \in (i + 1)..m : items[j].type = "console_event" /\ r = items[j].row
    BY <2>1 DEF RowsAfter
  <2>3. j # i + 1
    BY <1>2, <2>2 DEF Left
  <2>4. j \in ((i + 1) + 1)..m
    BY <1>1, <2>2, <2>3
  <2> QED
    BY <2>2, <2>4 DEF RowsAfter
<1>10. ASSUME NEW c \in Client, NEW p \in Page, NEW d \in ConsoleState, LiveOf(items, d),
              PageGood(hub, n, stream[c], p, d, RowsAfter(items, 0))
       PROVE  PageGood(y.hub, n + (i + 1), y.stream[c], p, d, RowsAfter(items, i + 1))
  <2>1. PageGood(x.hub, n + i, x.stream[c], p, d, RowsAfter(items, i))
    BY <1>10 DEF Sound
  <2>2. e.type = "console_live" => IsPrefix(e.text, d.text)
    <3>1. i + 1 \in DOMAIN items
      BY <1>1
    <3> QED
      BY <1>2, <1>10, <3>1 DEF LiveOf
  <2>3. p.last \in Nat
    BY DEF Page
  <2>4. PageGood(Kept(x.hub, e), (n + i) + 1, Offer(x.stream[c], e), p, d,
                 Left(RowsAfter(items, i), e))
    BY <1>4, <1>5, <2>1, <2>2, <2>3, PublishGood
  <2> QED
    BY <1>3, <1>7, <1>9, <2>4, PageMore
<1>11. ASSUME NEW c \in Client, stream[c] = NoStream PROVE y.stream[c] = NoStream
  <2>1. x.stream[c] = NoStream
    BY <1>11 DEF Sound
  <2> QED
    BY <1>3, <2>1, OfferNothing
<1>12. Sound(y, items, n, i + 1)
  BY <1>6, <1>7, <1>8, <1>10, <1>11 DEF Sound
<1> QED
  BY <1>12 DEF y, e

LEMMA PublishAll ==
    ASSUME hub \in HubState, stream \in [Client -> StreamState],
           \A c \in Client : Bounded(stream[c]),
           NEW items \in Seq(ItemState), NEW n \in Nat, HubGood(hub, n), Publish(items, n)
    PROVE  /\ hub' \in HubState /\ stream' \in [Client -> StreamState]
           /\ HubGood(hub', n + Len(items)) /\ hub'.next = hub.next + Len(items)
           /\ \A c \in Client :
                /\ Bounded(stream'[c])
                /\ stream[c] = NoStream => stream'[c] = NoStream
                /\ \A p \in Page, d \in ConsoleState :
                     /\ LiveOf(items, d)
                     /\ PageGood(hub, n, stream[c], p, d, RowsAfter(items, 0))
                     => PageGood(hub', n + Len(items), stream'[c], p, d, {})
<1> DEFINE m == Len(items)
           ev == Numbered(items, n)
<1>1. m \in Nat /\ Len(ev) = m /\ \A i \in 1..m : ev[i] \in Event
  BY NumberedTold
<1>2. PICK after : Through(after, ev)
  <2> HIDE DEF ev, m
  <2> QED
    BY <1>1, PublishedThrough
<1>3. /\ after \in [0..m -> BothState] /\ after[0] = State
      /\ \A i \in 1..m : after[i] = Published(after[i - 1], ev[i])
      /\ AllPublished(ev) = after[m]
  BY <1>1, <1>2 DEF Through
<1>4. hub' = after[m].hub /\ stream' = after[m].stream
  BY <1>3 DEF Publish
<1> HIDE DEF ev
<1> DEFINE T == {i \in 0..m : Sound(after[i], items, n, i)}
<1>5. 0 \in T
  <2>1. after[0].hub = hub /\ after[0].stream = stream
    BY <1>3 DEF State
  <2>2. n + 0 = n /\ hub.next + 0 = hub.next
    BY DEF HubState
  <2>3. Sound(after[0], items, n, 0)
    BY <2>1, <2>2 DEF Sound
  <2> QED
    BY <1>1, <2>3
<1>6. ASSUME NEW i \in 0..m, i \in T, i < m PROVE i + 1 \in T
  <2>1. i + 1 \in 1..m /\ (i + 1) - 1 = i
    BY <1>1, <1>6
  <2>2. after[i + 1] = Published(after[i], ev[i + 1])
    BY <1>3, <2>1
  <2>3. after[i] \in BothState /\ Sound(after[i], items, n, i)
    BY <1>3, <1>6
  <2>4. Sound(Published(after[i], ev[i + 1]), items, n, i + 1)
    BY <1>6, <2>3, SoundStep DEF ev
  <2> QED
    BY <2>1, <2>2, <2>4
<1> HIDE DEF T
<1>7. \A i \in 0..m : i \in T
  <2> HIDE DEF m
  <2> QED
    BY <1>1, <1>5, <1>6, UpTo
<1>8. Sound(after[m], items, n, m) /\ after[m] \in BothState
  BY <1>1, <1>3, <1>7 DEF T
<1>9. RowsAfter(items, m) = {}
  <2>1. (m + 1)..m = {}
    BY <1>1
  <2> QED
    BY <2>1 DEF RowsAfter
<1> QED
  BY <1>4, <1>8, <1>9 DEF Sound, BothState

-----------------------------------------------------------------------------
(* Texts.                                                                  *)

Text == Seq(Delta)

(* x is the beginning of t.                                                *)
Begins(x, t) == Len(x) <= Len(t) /\ \A i \in 1..Len(x) : x[i] = t[i]

LEMMA TextFields ==
    ASSUME NEW x \in Text
    PROVE  /\ Len(x) \in Nat /\ DOMAIN x = 1..Len(x)
           /\ \A i \in 1..Len(x) : /\ x[i] \in Delta /\ x[i].no \in Nat /\ x[i].turn \in Turn
                                   /\ x[i].part \in Nat
<1>1. /\ Len(x) \in Nat /\ DOMAIN x = 1..Len(x)
      /\ \A i \in 1..Len(x) : x[i] \in Delta
  BY DEF Text
<1>2. \A d \in Delta : d.no \in Nat /\ d.turn \in Turn /\ d.part \in Nat
  BY DEF Delta
<1> QED
  BY <1>1, <1>2

LEMMA NoText == <<>> \in Text /\ Len(<<>>) = 0 /\ DOMAIN <<>> = {} /\ Spoken(<<>>) = {}
BY DEF Text, Spoken

LEMMA PrefixBegins ==
    ASSUME NEW x \in Text, NEW t \in Text
    PROVE  IsPrefix(x, t) <=> Begins(x, t)
<1> DEFINE u == SubSeq(x, 1, Len(x))
           v == SubSeq(t, 1, Len(x))
<1>1. Len(x) \in Nat /\ Len(t) \in Nat /\ u = x
  BY SubSeqFull DEF Text
<1>2. ASSUME Len(x) <= Len(t)
      PROVE  v \in Text /\ Len(v) = Len(x) /\ \A i \in 1..Len(x) : v[i] = t[i]
  BY <1>1, <1>2 DEF Text
<1> HIDE DEF u, v
<1>3. ASSUME Len(x) <= Len(t) PROVE (x = v) <=> \A i \in 1..Len(x) : x[i] = t[i]
  <2>1. ASSUME \A i \in 1..Len(x) : x[i] = t[i] PROVE x = v
    BY <1>2, <1>3, <2>1, SeqEqual DEF Text
  <2> QED
    BY <1>2, <1>3, <2>1
<1>4. IsPrefix(x, t) <=> Len(x) <= Len(t) /\ x = v
  BY <1>1 DEF IsPrefix, u, v
<1> QED
  BY <1>3, <1>4 DEF Begins

LEMMA BeginsSelf ==
    ASSUME NEW x \in Text
    PROVE  Begins(x, x)
BY TextFields DEF Begins

LEMMA BeginsTrans ==
    ASSUME NEW x \in Text, NEW y \in Text, NEW z \in Text, Begins(x, y), Begins(y, z)
    PROVE  Begins(x, z)
<1>1. Len(x) \in Nat /\ Len(y) \in Nat /\ Len(z) \in Nat
  BY TextFields
<1> QED
  BY <1>1 DEF Begins

(* The beginning of line breaks is line breaks.                            *)
LEMMA BeginsBlank ==
    ASSUME NEW x \in Text, NEW y \in Text, Begins(x, y), Spoken(y) = {}
    PROVE  Spoken(x) = {}
<1>1. /\ Len(x) \in Nat /\ Len(y) \in Nat /\ DOMAIN x = 1..Len(x) /\ DOMAIN y = 1..Len(y)
      /\ Len(x) <= Len(y) /\ \A i \in 1..Len(x) : x[i] = y[i]
  BY TextFields DEF Begins
<1>2. \A i \in DOMAIN y : y[i].blank
  BY DEF Spoken
<1>3. ASSUME NEW i \in DOMAIN x PROVE x[i].blank
  <2>1. i \in DOMAIN y /\ x[i] = y[i]
    BY <1>1
  <2> QED
    BY <1>2, <2>1
<1> QED
  BY <1>3 DEF Spoken

(* What a delta is appended to stays, and the delta comes last.            *)
LEMMA Lengthened ==
    ASSUME NEW x \in Text, NEW d \in Delta
    PROVE  /\ Append(x, d) \in Text /\ Len(Append(x, d)) = Len(x) + 1
           /\ \A i \in 1..Len(x) : Append(x, d)[i] = x[i]
           /\ Append(x, d)[Len(x) + 1] = d
           /\ Begins(x, Append(x, d))
<1>1. /\ Append(x, d) \in Text /\ Len(Append(x, d)) = Len(x) + 1 /\ Len(x) \in Nat
      /\ \A i \in 1..Len(x) : Append(x, d)[i] = x[i]
      /\ Append(x, d)[Len(x) + 1] = d
  BY DEF Text
<1> QED
  BY <1>1 DEF Begins

-----------------------------------------------------------------------------
(* What append_console_event makes of a text.                              *)

(* The part of text from a on, up to b or to the limit.                    *)
Piece(t, text, a, b) ==
    /\ a \in Spoken(text) /\ b \in Spoken(text) /\ a <= b
    /\ \A k \in Spoken(text) : a <= k /\ k <= b
    /\ t \in Text /\ Len(t) = IF b - a + 1 > TextLimit THEN TextLimit ELSE b - a + 1
    /\ \A i \in 1..Len(t) : t[i] = text[a + i - 1]

LEMMA EndsOfSpoken ==
    ASSUME NEW text \in Text, Spoken(text) # {}
    PROVE  LET a == Min(Spoken(text)) b == Max(Spoken(text)) IN
           /\ a \in Spoken(text) /\ b \in Spoken(text) /\ a <= b
           /\ \A k \in Spoken(text) : a <= k /\ k <= b
<1> DEFINE S == Spoken(text)
           n == Len(text)
           T == {n - k : k \in S}
<1>1. n \in Nat /\ S \subseteq 1..n
  BY TextFields DEF Spoken
<1> HIDE DEF S
<1>2. S \in SUBSET Nat /\ T \in SUBSET Nat /\ S # {} /\ T # {}
  <2>1. S # {}
    BY DEF S
  <2> QED
    BY <1>1, <2>1
<1>3. PICK a \in S : \A k \in S : a <= k
  BY <1>2, LeastNat
<1>4. PICK m \in T : \A k \in T : m <= k
  <2> HIDE DEF T
  <2> QED
    BY <1>2, LeastNat
<1>5. PICK b \in S : m = n - b
  BY <1>4
<1>6. ASSUME NEW k \in S PROVE b >= k
  <2>1. n - k \in T
    OBVIOUS
  <2>2. m <= n - k
    BY <1>4, <2>1
  <2> QED
    BY <1>1, <1>5, <2>2
<1>7. Min(S) \in S /\ \A k \in S : Min(S) <= k
  BY <1>3 DEF Min
<1>8. Max(S) \in S /\ \A k \in S : Max(S) >= k
  BY <1>6 DEF Max
<1>9. \A x, y \in S : x \in Int /\ y \in Int /\ (y >= x <=> x <= y)
  BY <1>1
<1> QED
  BY <1>7, <1>8, <1>9 DEF S

LEMMA CutAndStripped ==
    ASSUME NEW text \in Text
    PROVE  /\ Spoken(text) = {} => Stripped(text) = <<>>
           /\ Spoken(text) # {} =>
                /\ Stripped(text) # <<>>
                /\ \E a, b \in 1..Len(text) : Piece(Cut(Stripped(text)), text, a, b)
<1>1. Spoken(text) = {} => Stripped(text) = <<>>
  BY DEF Stripped
<1>2. ASSUME Spoken(text) # {}
      PROVE  /\ Stripped(text) # <<>>
             /\ \E a, b \in 1..Len(text) : Piece(Cut(Stripped(text)), text, a, b)
  <2> DEFINE a == Min(Spoken(text))
             b == Max(Spoken(text))
             s == SubSeq(text, a, b)
             t == Cut(s)
  <2>1. /\ a \in Spoken(text) /\ b \in Spoken(text) /\ a <= b
        /\ \A k \in Spoken(text) : a <= k /\ k <= b
    BY <1>2, EndsOfSpoken
  <2>2. Stripped(text) = s
    BY <1>2 DEF Stripped
  <2> HIDE DEF a, b
  <2>3. a \in 1..Len(text) /\ b \in 1..Len(text) /\ Len(text) \in Nat
    BY <2>1, TextFields DEF Spoken
  <2>4. /\ s \in Text /\ Len(s) = b - a + 1 /\ b - a + 1 \in Nat /\ b - a + 1 > 0
        /\ \A i \in 1..(b - a + 1) : s[i] = text[a + i - 1]
    BY <2>1, <2>3 DEF Text
  <2>5. s # <<>>
    <3>1. Len(s) # 0
      BY <2>4
    <3> QED
      BY <3>1, NoText
  <2> HIDE DEF s
  <2>6. /\ t \in Text /\ Len(t) = IF b - a + 1 > TextLimit THEN TextLimit ELSE b - a + 1
        /\ \A i \in 1..Len(t) : t[i] = text[a + i - 1]
    <3>1. TextLimit \in Nat \ {0}
      BY ConsoleAssumption
    <3>2. CASE b - a + 1 > TextLimit
      <4>1. t = SubSeq(s, 1, TextLimit)
        BY <2>4, <3>2 DEF Cut
      <4>2. t \in Text /\ Len(t) = TextLimit /\ \A i \in 1..TextLimit : t[i] = s[i]
        BY <2>4, <3>1, <3>2, <4>1 DEF Text
      <4>3. \A i \in 1..TextLimit : i \in 1..(b - a + 1)
        BY <2>4, <3>1, <3>2
      <4> QED
        BY <2>4, <3>2, <4>2, <4>3
    <3>3. CASE ~(b - a + 1 > TextLimit)
      <4>1. t = s
        BY <2>4, <3>3 DEF Cut
      <4> QED
        BY <2>4, <3>3, <4>1
    <3> QED
      BY <3>2, <3>3
  <2>7. Piece(t, text, a, b)
    BY <2>1, <2>6 DEF Piece
  <2> QED
    BY <2>2, <2>3, <2>5, <2>7
<1> QED
  BY <1>1, <1>2

-----------------------------------------------------------------------------
(* The recorder.                                                           *)

ConsoleGood(c) ==
    /\ c \in ConsoleState /\ Len(c.rows) <= StoreLimit
    /\ OneTurn(c) /\ \A i \in DOMAIN c.rows : OneTurn(c.rows[i])

RowIds(c) == {c.rows[i].id : i \in DOMAIN c.rows}

(* c became d: its rows are old ones or new ones, and the buffer was added *)
(* to, unless there is a new row or it held only line breaks.              *)
Became(c, d) ==
    /\ ConsoleGood(d)
    /\ c.last <= d.last
    /\ RowIds(d) \subseteq RowIds(c) \cup ((c.last + 1)..d.last)
    /\ Begins(c.text, d.text) \/ c.last < d.last \/ Spoken(c.text) = {}

LEMMA ConsoleFields ==
    ASSUME NEW c \in ConsoleState
    PROVE  /\ c.text \in Text /\ c.turn \in Turn \cup {0} /\ c.rows \in Seq(Row)
           /\ c.last \in Nat
BY DEF ConsoleState, Text

LEMMA ConsoleMade ==
    ASSUME NEW text \in Text, NEW t \in Turn \cup {0}, NEW rows \in Seq(Row), NEW last \in Nat,
           NEW c, c = [text |-> text, turn |-> t, rows |-> rows, last |-> last]
    PROVE  /\ c \in ConsoleState /\ c.text = text /\ c.turn = t /\ c.rows = rows
           /\ c.last = last
BY DEF ConsoleState, Text

LEMMA WithText ==
    ASSUME NEW c \in ConsoleState, NEW text, NEW t,
           NEW d, d = [c EXCEPT !.text = text, !.turn = t]
    PROVE  d = [text |-> text, turn |-> t, rows |-> c.rows, last |-> c.last]
BY DEF ConsoleState

(* A row appended to q: the last of w, whose others are those of q, the    *)
(* oldest of which is gone when there were StoreLimit of them.             *)
Pushed(w, q, r) ==
    LET m == Len(w) IN
    /\ w \in Seq(Row) /\ m \in 1..StoreLimit /\ w[m] = r
    /\ \/ m = Len(q) + 1 /\ \A i \in 1..Len(q) : w[i] = q[i]
       \/ /\ m = Len(q) /\ m = StoreLimit
          /\ \A i \in 1..(m - 1) : w[i] = q[i + 1]

(* append_console_event keeps the newest rows.                             *)
LEMMA NewestRows ==
    ASSUME NEW q \in Seq(Row), Len(q) <= StoreLimit, NEW r \in Row
    PROVE  Pushed(Newest(Append(q, r), StoreLimit), q, r)
<1> DEFINE a == Append(q, r)
           w == Newest(a, StoreLimit)
           n == Len(q)
<1>1. /\ a \in Seq(Row) /\ Len(a) = n + 1 /\ n \in Nat /\ a # <<>>
      /\ a[n + 1] = r /\ \A i \in 1..n : a[i] = q[i]
      /\ StoreLimit \in Nat /\ StoreLimit > 0 /\ n <= StoreLimit
  BY ConsoleAssumption
<1> HIDE DEF a
<1>2. CASE n < StoreLimit
  <2>1. w = SubSeq(a, 1, Len(a))
    <3>1. ~(Len(a) > StoreLimit)
      BY <1>1, <1>2
    <3> QED
      BY <3>1 DEF Newest
  <2>2. w = a
    BY <1>1, <2>1, SubSeqFull
  <2> HIDE DEF w
  <2>3. Pushed(a, q, r)
    BY <1>1, <1>2 DEF Pushed
  <2> QED
    BY <2>2, <2>3 DEF w, a
<1>3. CASE n = StoreLimit
  <2>1. w = SubSeq(a, 2, Len(a))
    <3>1. Len(a) > StoreLimit /\ Len(a) - StoreLimit + 1 = 2
      BY <1>1, <1>3
    <3> QED
      BY <3>1 DEF Newest
  <2>2. w = Tail(a)
    BY <1>1, <2>1, TailIsSubSeq
  <2> HIDE DEF w
  <2>3. w \in Seq(Row) /\ Len(w) = n /\ \A i \in 1..n : w[i] = a[i + 1]
    BY <1>1, <2>2
  <2>4. w[n] = r /\ \A i \in 1..(n - 1) : w[i] = q[i + 1]
    <3>1. n \in 1..n
      BY <1>1, <1>3
    <3>2. \A i \in 1..(n - 1) : i \in 1..n /\ i + 1 \in 1..n
      BY <1>1
    <3> QED
      BY <1>1, <2>3, <3>1, <3>2
  <2>5. Pushed(w, q, r)
    BY <1>1, <1>3, <2>3, <2>4 DEF Pushed
  <2> QED
    BY <2>5 DEF w, a
<1> QED
  BY <1>1, <1>2, <1>3

(* Every row of w is r or one of q.                                        *)
LEMMA PushedFrom ==
    ASSUME NEW w, NEW q \in Seq(Row), NEW r, Pushed(w, q, r), NEW i \in DOMAIN w
    PROVE  (w[i] = r /\ i = Len(w)) \/ \E j \in DOMAIN q : w[i] = q[j]
<1>1. /\ Len(w) \in Nat /\ DOMAIN w = 1..Len(w) /\ Len(q) \in Nat /\ DOMAIN q = 1..Len(q)
      /\ w[Len(w)] = r
  BY DEF Pushed
<1>2. i \in 1..Len(w)
  BY <1>1
<1>3. CASE i = Len(w)
  BY <1>1, <1>3
<1>4. CASE i # Len(w) /\ Len(w) = Len(q) + 1 /\ \A k \in 1..Len(q) : w[k] = q[k]
  <2>1. i \in 1..Len(q)
    BY <1>1, <1>2, <1>4
  <2> QED
    BY <1>1, <1>4, <2>1
<1>5. CASE i # Len(w) /\ Len(w) = Len(q) /\ \A k \in 1..(Len(w) - 1) : w[k] = q[k + 1]
  <2>1. i \in 1..(Len(w) - 1) /\ i + 1 \in 1..Len(q)
    BY <1>1, <1>2, <1>5
  <2> QED
    BY <1>1, <1>5, <2>1
<1> QED
  BY <1>3, <1>4, <1>5 DEF Pushed

LEMMA AppendRowBecame ==
    ASSUME NEW c, ConsoleGood(c), NEW kind \in {"assistant", "user", "permission", "tool"},
           NEW turnid \in Turn, NEW text, Cut(text) \in Text,
           \A k \in DOMAIN Cut(text) : Cut(text)[k].turn = turnid
    PROVE  LET d == AppendRow(c, kind, turnid, text)
               r == [id |-> c.last + 1, kind |-> kind, turn |-> turnid, text |-> Cut(text)]
           IN  /\ Became(c, d) /\ c.last < d.last
               /\ d.text = c.text /\ d.turn = c.turn
               /\ Pushed(d.rows, c.rows, r) /\ r \in Row
<1> DEFINE cut == Cut(text)
           r == [id |-> c.last + 1, kind |-> kind, turn |-> turnid, text |-> cut]
           w == Newest(Append(c.rows, r), StoreLimit)
           d == AppendRow(c, kind, turnid, text)
<1>1. /\ c \in ConsoleState /\ Len(c.rows) <= StoreLimit /\ OneTurn(c)
      /\ \A i \in DOMAIN c.rows : OneTurn(c.rows[i])
  BY DEF ConsoleGood
<1>2. /\ c.text \in Text /\ c.turn \in Turn \cup {0} /\ c.rows \in Seq(Row) /\ c.last \in Nat
  BY <1>1, ConsoleFields
<1>3. cut \in Text /\ \A k \in DOMAIN cut : cut[k].turn = turnid
  OBVIOUS
<1> HIDE DEF cut
<1>14. r \in Row
  <2>1. c.last + 1 \in Nat
    BY <1>2
  <2> QED
    BY <1>3, <2>1 DEF Row, Text
<1>4. d = [c EXCEPT !.last = c.last + 1, !.rows = w]
  BY DEF AppendRow, cut
<1>5. r.id = c.last + 1 /\ OneTurn(r)
  BY <1>3 DEF OneTurn
<1> HIDE DEF r
<1>6. Pushed(w, c.rows, r)
  BY <1>1, <1>2, <1>14, NewestRows
<1>7. w \in Seq(Row) /\ Len(w) <= StoreLimit
  BY <1>6, ConsoleAssumption DEF Pushed
<1> HIDE DEF w, d
<1>8. d = [text |-> c.text, turn |-> c.turn, rows |-> w, last |-> c.last + 1]
  BY <1>1, <1>4 DEF ConsoleState
<1>9. /\ d \in ConsoleState /\ d.text = c.text /\ d.turn = c.turn /\ d.rows = w
      /\ d.last = c.last + 1
  <2>1. c.last + 1 \in Nat
    BY <1>2
  <2> QED
    BY <1>2, <1>7, <1>8, <2>1 DEF ConsoleState, Text
<1>10. \A i \in DOMAIN w : w[i] = r \/ \E j \in DOMAIN c.rows : w[i] = c.rows[j]
  BY <1>2, <1>6, PushedFrom
<1>11. ConsoleGood(d)
  <2>1. OneTurn(d)
    BY <1>1, <1>9 DEF OneTurn
  <2>2. \A i \in DOMAIN w : OneTurn(w[i])
    BY <1>1, <1>5, <1>10
  <2> QED
    BY <1>7, <1>9, <2>1, <2>2 DEF ConsoleGood
<1>12. RowIds(d) \subseteq RowIds(c) \cup ((c.last + 1)..d.last)
  <2> SUFFICES ASSUME NEW i \in DOMAIN w
               PROVE  w[i].id \in RowIds(c) \cup ((c.last + 1)..d.last)
    BY <1>9 DEF RowIds
  <2>1. CASE w[i] = r
    <3>1. c.last + 1 \in (c.last + 1)..d.last
      BY <1>2, <1>9
    <3> QED
      BY <1>5, <2>1, <3>1
  <2>2. CASE \E j \in DOMAIN c.rows : w[i] = c.rows[j]
    BY <2>2 DEF RowIds
  <2> QED
    BY <1>10, <2>1, <2>2
<1>13. c.last < d.last /\ c.last <= d.last
  BY <1>2, <1>9
<1> QED
  BY <1>6, <1>9, <1>11, <1>12, <1>13, <1>14 DEF Became, d, r, cut

LEMMA SameBecame ==
    ASSUME NEW c, ConsoleGood(c)
    PROVE  Became(c, c)
<1>1. c.last \in Nat /\ c.text \in Text
  BY ConsoleFields DEF ConsoleGood
<1>2. Begins(c.text, c.text)
  BY <1>1, BeginsSelf
<1> QED
  BY <1>1, <1>2 DEF Became

LEMMA BecameTwice ==
    ASSUME NEW c, ConsoleGood(c), NEW d, Became(c, d), NEW e, Became(d, e)
    PROVE  Became(c, e)
<1>1. ConsoleGood(d) /\ ConsoleGood(e)
  BY DEF Became
<1>2. /\ c.last \in Nat /\ d.last \in Nat /\ e.last \in Nat
      /\ c.text \in Text /\ d.text \in Text /\ e.text \in Text
  BY <1>1, ConsoleFields DEF ConsoleGood
<1>3. /\ c.last <= d.last /\ d.last <= e.last
      /\ RowIds(d) \subseteq RowIds(c) \cup ((c.last + 1)..d.last)
      /\ RowIds(e) \subseteq RowIds(d) \cup ((d.last + 1)..e.last)
      /\ Begins(c.text, d.text) \/ c.last < d.last \/ Spoken(c.text) = {}
      /\ Begins(d.text, e.text) \/ d.last < e.last \/ Spoken(d.text) = {}
  BY DEF Became
<1>4. RowIds(e) \subseteq RowIds(c) \cup ((c.last + 1)..e.last)
  <2>1. (c.last + 1)..d.last \subseteq (c.last + 1)..e.last
        /\ (d.last + 1)..e.last \subseteq (c.last + 1)..e.last
    BY <1>2, <1>3
  <2> QED
    BY <1>3, <2>1
<1>5. Begins(c.text, e.text) \/ c.last < e.last \/ Spoken(c.text) = {}
  BY <1>2, <1>3, BeginsTrans, BeginsBlank
<1>6. c.last <= e.last
  BY <1>2, <1>3
<1> QED
  BY <1>1, <1>4, <1>5, <1>6 DEF Became

LEMMA CutNothing == Cut(<<>>) = <<>>
<1>1. ~(0 > TextLimit)
  BY ConsoleAssumption
<1> QED
  BY <1>1 DEF Cut

(* The row of anything but assistant text.                                 *)
LEMMA RowOnly ==
    ASSUME NEW c, ConsoleGood(c), NEW kind \in {"user", "permission", "tool"},
           NEW turnid \in Turn
    PROVE  LET d == AppendRow(c, kind, turnid, <<>>) IN
           /\ Became(c, d) /\ d.text = c.text
           /\ \E r \in Row : Pushed(d.rows, c.rows, r) /\ r.text = <<>>
<1> DEFINE text == <<>>
           r == [id |-> c.last + 1, kind |-> kind, turn |-> turnid, text |-> Cut(text)]
           d == AppendRow(c, kind, turnid, text)
<1>1. text \in Text /\ (\A k \in DOMAIN text : text[k].turn = turnid) /\ Cut(text) = text
  BY CutNothing, NoText
<1> HIDE DEF text
<1>2. Became(c, d) /\ d.text = c.text /\ Pushed(d.rows, c.rows, r) /\ r \in Row
  BY <1>1, AppendRowBecame
<1>3. r.text = text
  BY <1>1
<1> HIDE DEF d, r
<1> QED
  BY <1>2, <1>3 DEF d, text

LEMMA FlushBecame ==
    ASSUME NEW c, ConsoleGood(c)
    PROVE  LET f == Flush(c) IN
           /\ Became(c, f) /\ f.text = <<>>
           /\ \/ Spoken(c.text) = {} /\ f.rows = c.rows
              \/ \E r \in Row, a, b \in 1..Len(c.text) :
                    Pushed(f.rows, c.rows, r) /\ Piece(r.text, c.text, a, b)
<1> DEFINE none == <<>>
           empty == [c EXCEPT !.text = none, !.turn = 0]
           text == Stripped(c.text)
<1>1. /\ c \in ConsoleState /\ Len(c.rows) <= StoreLimit /\ OneTurn(c)
      /\ \A i \in DOMAIN c.rows : OneTurn(c.rows[i])
      /\ c.text \in Text /\ c.turn \in Turn \cup {0} /\ c.rows \in Seq(Row)
      /\ c.last \in Nat
  BY ConsoleFields DEF ConsoleGood
<1>2. none \in Text /\ DOMAIN none = {}
  BY NoText
<1>3. Flush(c) = IF text = none THEN empty ELSE AppendRow(empty, "assistant", c.turn, text)
  BY DEF Flush
<1>4. /\ Spoken(c.text) = {} => text = none
      /\ Spoken(c.text) # {} =>
           text # none /\ \E a, b \in 1..Len(c.text) : Piece(Cut(text), c.text, a, b)
  BY <1>1, CutAndStripped
<1> HIDE DEF none, text
<1>5. empty = [text |-> none, turn |-> 0, rows |-> c.rows, last |-> c.last]
  BY <1>1, WithText
<1> HIDE DEF empty
<1>6. /\ empty \in ConsoleState /\ empty.text = none /\ empty.rows = c.rows
      /\ empty.last = c.last
  BY <1>1, <1>2, <1>5, ConsoleMade
<1>7. ConsoleGood(empty)
  <2>1. OneTurn(empty)
    BY <1>2, <1>6 DEF OneTurn
  <2> QED
    BY <1>1, <1>6, <2>1 DEF ConsoleGood
<1>8. RowIds(empty) = RowIds(c)
  BY <1>6 DEF RowIds
<1>9. CASE Spoken(c.text) = {}
  <2>1. Became(empty, empty)
    BY <1>7, SameBecame
  <2>2. Became(c, empty)
    BY <1>6, <1>8, <1>9, <2>1 DEF Became
  <2> QED
    BY <1>3, <1>4, <1>6, <1>9, <2>2 DEF none
<1>10. CASE Spoken(c.text) # {}
  <2> DEFINE cut == Cut(text)
             d == AppendRow(empty, "assistant", c.turn, text)
             r == [id |-> empty.last + 1, kind |-> "assistant", turn |-> c.turn, text |-> cut]
  <2>1. PICK a \in 1..Len(c.text), b \in 1..Len(c.text) : Piece(cut, c.text, a, b)
    BY <1>4, <1>10
  <2> HIDE DEF cut
  <2>2. /\ cut \in Text /\ DOMAIN cut = 1..Len(cut) /\ Len(cut) \in Nat
        /\ Len(cut) <= b - a + 1
        /\ \A i \in 1..Len(cut) : cut[i] = c.text[a + i - 1]
    <3>1. /\ cut \in Text /\ \A i \in 1..Len(cut) : cut[i] = c.text[a + i - 1]
          /\ Len(cut) = IF b - a + 1 > TextLimit THEN TextLimit ELSE b - a + 1
      BY <2>1 DEF Piece
    <3>2. Len(cut) \in Nat /\ DOMAIN cut = 1..Len(cut) /\ Len(c.text) \in Nat
      BY <1>1, <3>1, TextFields
    <3>3. TextLimit \in Nat /\ a \in Int /\ b \in Int
      BY <3>2, ConsoleAssumption
    <3>4. Len(cut) <= b - a + 1
      BY <3>1, <3>2, <3>3
    <3> QED
      BY <3>1, <3>2, <3>4
  <2>3. /\ DOMAIN c.text = 1..Len(c.text) /\ Len(c.text) \in Nat
        /\ c.text[a].turn \in Turn /\ c.text[a].turn = c.turn
    <3>1. /\ DOMAIN c.text = 1..Len(c.text) /\ Len(c.text) \in Nat
          /\ c.text[a].turn \in Turn
      BY <1>1, TextFields
    <3> QED
      BY <1>1, <3>1 DEF OneTurn
  <2>4. \A k \in DOMAIN cut : cut[k].turn = c.turn
    <3> SUFFICES ASSUME NEW k \in 1..Len(cut) PROVE cut[k].turn = c.turn
      BY <2>2
    <3>1. a + k - 1 \in DOMAIN c.text
      BY <2>2, <2>3
    <3> QED
      BY <1>1, <2>2, <3>1 DEF OneTurn
  <2>5. /\ Became(empty, d) /\ empty.last < d.last /\ d.text = empty.text
        /\ Pushed(d.rows, empty.rows, r) /\ r \in Row
    <3>1. c.turn \in Turn
      BY <2>3
    <3>2. "assistant" \in {"assistant", "user", "permission", "tool"}
      OBVIOUS
    <3>3. Cut(text) \in Text /\ \A k \in DOMAIN Cut(text) : Cut(text)[k].turn = c.turn
      BY <2>2, <2>4 DEF cut
    <3> USE DEF cut
    <3> QED
      BY <1>7, <3>1, <3>2, <3>3, AppendRowBecame
  <2>6. r.text = cut
    OBVIOUS
  <2> HIDE DEF d, r
  <2>7. Became(c, d)
    BY <1>6, <1>8, <2>5 DEF Became
  <2>8. Flush(c) = d
    BY <1>3, <1>4, <1>10 DEF d
  <2> QED
    BY <1>6, <2>1, <2>5, <2>6, <2>7, <2>8 DEF none
<1> QED
  BY <1>9, <1>10

(* The buffer before a delta of the Turn t is appended.                    *)
Readied(c, t) == IF c.text # <<>> /\ c.turn # t THEN Flush(c) ELSE c

LEMMA DeltaBecame ==
    ASSUME NEW c, ConsoleGood(c), NEW d \in Delta
    PROVE  LET ready == Readied(c, d.turn) e == TakeDelta(c, d) IN
           /\ Became(c, e) /\ ready \in ConsoleState
           /\ e.text = Append(ready.text, d) /\ e.rows = ready.rows
<1> DEFINE ready == Readied(c, d.turn)
           more == Append(ready.text, d)
           e == [ready EXCEPT !.text = more, !.turn = d.turn]
<1>1. Became(c, ready)
  BY SameBecame, FlushBecame DEF Readied
<1>2. ready.text = <<>> \/ (ready = c /\ c.turn = d.turn)
  BY FlushBecame DEF Readied
<1>3. TakeDelta(c, d) = e
  BY DEF TakeDelta, Readied
<1> HIDE DEF ready
<1>4. /\ ready \in ConsoleState /\ Len(ready.rows) <= StoreLimit /\ OneTurn(ready)
      /\ \A i \in DOMAIN ready.rows : OneTurn(ready.rows[i])
      /\ ready.text \in Text /\ ready.rows \in Seq(Row) /\ ready.last \in Nat
      /\ ConsoleGood(ready)
  <2>1. ConsoleGood(ready)
    BY <1>1 DEF Became
  <2> QED
    BY <2>1, ConsoleFields DEF ConsoleGood
<1>5. d.turn \in Turn
  BY DEF Delta
<1>6. /\ more \in Text /\ Len(more) = Len(ready.text) + 1 /\ Len(ready.text) \in Nat
      /\ DOMAIN more = 1..(Len(ready.text) + 1) /\ DOMAIN ready.text = 1..Len(ready.text)
      /\ \A i \in 1..Len(ready.text) : more[i] = ready.text[i]
      /\ more[Len(ready.text) + 1] = d
      /\ Begins(ready.text, more)
  BY <1>4, Lengthened, TextFields
<1>7. \A k \in DOMAIN more : more[k].turn = d.turn
  <2>1. \A k \in DOMAIN ready.text : ready.text[k].turn = d.turn
    <3>1. CASE ready.text = <<>>
      BY <3>1
    <3>2. CASE ready = c /\ c.turn = d.turn
      BY <1>4, <3>2 DEF OneTurn
    <3> QED
      BY <1>2, <3>1, <3>2
  <2>2. ASSUME NEW k \in DOMAIN more PROVE k \in DOMAIN ready.text \/ k = Len(ready.text) + 1
    BY <1>6
  <2> QED
    BY <1>6, <2>1, <2>2
<1> HIDE DEF more, e
<1>8. e = [text |-> more, turn |-> d.turn, rows |-> ready.rows, last |-> ready.last]
  BY <1>4, WithText DEF e
<1>9. /\ e \in ConsoleState /\ e.text = more /\ e.turn = d.turn /\ e.rows = ready.rows
      /\ e.last = ready.last
  BY <1>4, <1>5, <1>6, <1>8, ConsoleMade
<1>10. ConsoleGood(e)
  <2>1. OneTurn(e)
    BY <1>7, <1>9 DEF OneTurn
  <2> QED
    BY <1>4, <1>9, <2>1 DEF ConsoleGood
<1>11. RowIds(e) = RowIds(ready)
  BY <1>9 DEF RowIds
<1>12. Became(ready, e)
  BY <1>4, <1>6, <1>9, <1>10, <1>11 DEF Became
<1>13. Became(c, e)
  BY <1>1, <1>12, BecameTwice
<1> QED
  BY <1>3, <1>4, <1>9, <1>13 DEF e, ready, more

LEMMA NewDeltaType ==
    ASSUME said \in Text, part \in Nat, NEW type, NEW t \in Turn
    PROVE  /\ NewDelta(type, t) \in Delta /\ NewDelta(type, t).turn = t
           /\ NewDelta(type, t).no = Len(said) + 1
           /\ NewDelta(type, t).part = Passage(t) /\ Passage(t) \in Nat
<1>1. Len(said) + 1 \in Nat
  BY TextFields
<1>2. Passage(t) \in Nat
  BY DEF Passage
<1>3. (type = "line_break") \in BOOLEAN
  OBVIOUS
<1> QED
  BY <1>1, <1>2, <1>3 DEF NewDelta, Delta

(* record_event.                                                           *)
LEMMA RecordedBecame ==
    ASSUME NEW c, ConsoleGood(c), said \in Text, part \in Nat, NEW t \in Turn, NEW type
    PROVE  Became(c, Recorded(c, type, t))
<1>1. CASE IsDelta(type)
  <2> DEFINE d == NewDelta(type, t)
  <2>1. d \in Delta
    BY NewDeltaType
  <2>2. Recorded(c, type, t) = TakeDelta(c, d)
    BY <1>1 DEF Recorded, IsDelta
  <2> HIDE DEF d
  <2>3. Became(c, TakeDelta(c, d))
    BY <2>1, DeltaBecame
  <2> QED
    BY <2>2, <2>3
<1>2. CASE type = "tool_call"
  <2> DEFINE f == Flush(c)
             d == AppendRow(f, "tool", t, <<>>)
  <2>1. Became(c, f)
    BY FlushBecame
  <2>2. ConsoleGood(f)
    BY <2>1 DEF Became
  <2>3. Became(f, d)
    BY <2>2, RowOnly
  <2> HIDE DEF d, f
  <2>4. Became(c, d)
    BY <2>1, <2>3, BecameTwice
  <2> QED
    BY <1>2, <2>4 DEF Recorded, IsDelta, d, f
<1>3. CASE type = "turn_finished"
  BY <1>3, FlushBecame DEF Recorded, IsDelta
<1>4. CASE type = "user_message"
  BY <1>4, RowOnly DEF Recorded, IsDelta
<1>5. CASE type = "permission_request"
  BY <1>5, RowOnly DEF Recorded, IsDelta
<1>6. CASE ~IsDelta(type) /\ type \notin {"tool_call", "turn_finished", "user_message",
                                          "permission_request"}
  BY <1>6, SameBecame DEF Recorded
<1> QED
  BY <1>1, <1>2, <1>3, <1>4, <1>5, <1>6

-----------------------------------------------------------------------------
(* What the rows and the buffer hold of what was said.                     *)

DueIn(s, k) ==
    LET spoken == {v \in Spoken(s) : s[v].part = s[k].part}
    IN  /\ \E v, w \in spoken : v <= k /\ k <= w
        /\ \A v \in spoken : k < v + TextLimit

StoredIn(rows, k) == \E i \in DOMAIN rows : k \in Numbers(rows[i].text)

DroppedFrom(rows, k) ==
    Len(rows) = StoreLimit /\ \A i \in DOMAIN rows : \A n \in Numbers(rows[i].text) : k < n

(* The rows hold, of the first m deltas of s, those that are due.          *)
RowsHold(rows, s, m) ==
    /\ \A i \in DOMAIN rows : InOrder(rows[i].text) /\ Numbers(rows[i].text) \subseteq 1..m
    /\ \A i, j \in DOMAIN rows : i < j => Before(rows[i].text, rows[j].text)
    /\ \A k \in 1..m : DroppedFrom(rows, k) \/ (StoredIn(rows, k) <=> DueIn(s, k))

(* The buffer text is the end of s, and the passage p.                     *)
BufferIs(text, s, p) ==
    LET m == Len(s) - Len(text) IN
    /\ text \in Text /\ s \in Text /\ p \in Nat /\ Len(text) <= Len(s)
    /\ \A k \in 1..Len(s) : s[k].no = k
    /\ \A i \in 1..Len(text) : text[i] = s[m + i]
    /\ \A k \in 1..Len(s) : IF k <= m THEN s[k].part < p ELSE s[k].part = p

Filed(c, s, p) ==
    BufferIs(c.text, s, p) /\ RowsHold(c.rows, s, Len(s) - Len(c.text))

(* Whether a delta is due depends only on its passage.                     *)
LEMMA DueSame ==
    ASSUME NEW s \in Text, NEW t \in Text, NEW m \in Nat, m <= Len(s), m <= Len(t),
           \A k \in 1..m : s[k] = t[k],
           \A k \in 1..m, j \in 1..Len(s) : j > m => s[j].part # s[k].part,
           \A k \in 1..m, j \in 1..Len(t) : j > m => t[j].part # s[k].part,
           NEW k \in 1..m
    PROVE  DueIn(s, k) <=> DueIn(t, k)
<1> DEFINE S == {v \in Spoken(s) : s[v].part = s[k].part}
           T == {v \in Spoken(t) : t[v].part = t[k].part}
<1>1. /\ Len(s) \in Nat /\ Len(t) \in Nat /\ DOMAIN s = 1..Len(s) /\ DOMAIN t = 1..Len(t)
  BY TextFields
<1>2. s[k] = t[k]
  OBVIOUS
<1>3. ASSUME NEW v \in S PROVE v \in T
  <2>1. v \in 1..Len(s) /\ ~s[v].blank /\ s[v].part = s[k].part
    BY <1>1 DEF Spoken
  <2>2. v \in 1..m
    BY <1>1, <2>1
  <2>3. v \in 1..Len(t) /\ s[v] = t[v]
    BY <1>1, <2>2
  <2> QED
    BY <1>1, <1>2, <2>1, <2>3 DEF Spoken
<1>4. ASSUME NEW v \in T PROVE v \in S
  <2>1. v \in 1..Len(t) /\ ~t[v].blank /\ t[v].part = s[k].part
    BY <1>1, <1>2 DEF Spoken
  <2>2. v \in 1..m
    BY <1>1, <2>1
  <2>3. v \in 1..Len(s) /\ s[v] = t[v]
    BY <1>1, <2>2
  <2> QED
    BY <1>1, <1>2, <2>1, <2>3 DEF Spoken
<1>5. S = T
  BY <1>3, <1>4
<1> HIDE DEF S, T
<1>6. /\ DueIn(s, k) <=> (\E v, w \in S : v <= k /\ k <= w) /\ \A v \in S : k < v + TextLimit
      /\ DueIn(t, k) <=> (\E v, w \in T : v <= k /\ k <= w) /\ \A v \in T : k < v + TextLimit
  BY DEF DueIn, S, T
<1> QED
  BY <1>5, <1>6

(* The rows hold what they held when s changes behind m.                   *)
LEMMA StillHold ==
    ASSUME NEW s \in Text, NEW t \in Text, NEW m \in Nat, m <= Len(s), m <= Len(t),
           \A k \in 1..m : s[k] = t[k],
           \A k \in 1..m, j \in 1..Len(s) : j > m => s[j].part # s[k].part,
           \A k \in 1..m, j \in 1..Len(t) : j > m => t[j].part # s[k].part,
           NEW rows, RowsHold(rows, s, m)
    PROVE  RowsHold(rows, t, m)
<1>1. \A k \in 1..m : DueIn(s, k) <=> DueIn(t, k)
  BY DueSame
<1> QED
  BY <1>1 DEF RowsHold

LEMMA NothingNumbered == Numbers(<<>>) = {} /\ InOrder(<<>>)
BY DEF Numbers, InOrder

(* A row r is appended: of the deltas behind m it has those that are due.  *)
LEMMA PushedHold ==
    ASSUME NEW s, NEW m \in Nat, NEW n \in Nat, m <= n,
           NEW q \in Seq(Row), RowsHold(q, s, m),
           NEW r \in Row, InOrder(r.text), Numbers(r.text) \subseteq (m + 1)..n,
           \A k \in (m + 1)..n : k \in Numbers(r.text) <=> DueIn(s, k),
           NEW w, Pushed(w, q, r)
    PROVE  RowsHold(w, s, n)
<1>1. /\ Len(w) \in Nat /\ DOMAIN w = 1..Len(w) /\ Len(q) \in Nat /\ DOMAIN q = 1..Len(q)
      /\ w[Len(w)] = r /\ Len(w) > 0
  BY DEF Pushed
<1>2. /\ \A i \in DOMAIN q : InOrder(q[i].text) /\ Numbers(q[i].text) \subseteq 1..m
      /\ \A i, j \in DOMAIN q : i < j => Before(q[i].text, q[j].text)
      /\ \A k \in 1..m : DroppedFrom(q, k) \/ (StoredIn(q, k) <=> DueIn(s, k))
  BY DEF RowsHold
<1>3. \A i \in DOMAIN w : (w[i] = r /\ i = Len(w)) \/ \E j \in DOMAIN q : w[i] = q[j]
  BY PushedFrom
<1>4. \A i \in DOMAIN w : InOrder(w[i].text) /\ Numbers(w[i].text) \subseteq 1..n
  <2>1. 1..m \subseteq 1..n /\ (m + 1)..n \subseteq 1..n
    OBVIOUS
  <2> QED
    BY <1>2, <1>3, <2>1
(* The rows of q come before r.                                            *)
<1>5. ASSUME NEW j \in DOMAIN q PROVE Before(q[j].text, r.text)
  <2>1. \A x \in 1..m, y \in (m + 1)..n : x < y
    OBVIOUS
  <2> QED
    BY <1>2, <1>5, <2>1 DEF Before
<1>6. CASE Len(w) = Len(q) + 1 /\ \A i \in 1..Len(q) : w[i] = q[i]
  <2>1. ASSUME NEW i \in DOMAIN w, NEW j \in DOMAIN w, i < j
        PROVE  Before(w[i].text, w[j].text)
    <3>1. i \in DOMAIN q /\ w[i] = q[i]
      BY <1>1, <1>6, <2>1
    <3>2. CASE j \in DOMAIN q
      <4>1. w[j] = q[j]
        BY <1>1, <1>6, <3>2
      <4> QED
        BY <1>2, <2>1, <3>1, <3>2, <4>1
    <3>3. CASE j \notin DOMAIN q
      <4>1. j = Len(w)
        BY <1>1, <1>6, <3>3
      <4> QED
        BY <1>1, <1>5, <3>1, <4>1
    <3> QED
      BY <3>2, <3>3
  <2>2. ASSUME NEW k \in 1..m PROVE DroppedFrom(w, k) \/ (StoredIn(w, k) <=> DueIn(s, k))
    <3>1. ~DroppedFrom(q, k)
      <4>1. Len(w) \in 1..StoreLimit
        BY DEF Pushed
      <4>2. Len(q) # StoreLimit
        <5>1. Len(w) <= StoreLimit /\ Len(w) = Len(q) + 1 /\ StoreLimit \in Nat
          BY <1>6, <4>1, ConsoleAssumption
        <5>2. Len(q) \in Nat
          BY <1>1
        <5> QED
          BY <5>1, <5>2
      <4> QED
        BY <4>2 DEF DroppedFrom
    <3>2. k \notin Numbers(r.text)
      OBVIOUS
    <3>3. StoredIn(w, k) <=> StoredIn(q, k)
      <4>1. ASSUME NEW i \in DOMAIN q, k \in Numbers(q[i].text) PROVE StoredIn(w, k)
        <5>1. i \in DOMAIN w /\ w[i] = q[i]
          BY <1>1, <1>6
        <5> QED
          BY <4>1, <5>1 DEF StoredIn
      <4>2. ASSUME NEW i \in DOMAIN w, k \in Numbers(w[i].text) PROVE StoredIn(q, k)
        BY <1>3, <3>2, <4>2 DEF StoredIn
      <4> QED
        BY <4>1, <4>2 DEF StoredIn
    <3> QED
      BY <1>2, <3>1, <3>3
  <2>3. ASSUME NEW k \in (m + 1)..n PROVE StoredIn(w, k) <=> DueIn(s, k)
    <3>1. ASSUME k \in Numbers(r.text) PROVE StoredIn(w, k)
      <4>1. Len(w) \in DOMAIN w
        BY <1>1
      <4> QED
        BY <1>1, <3>1, <4>1 DEF StoredIn
    <3>2. ASSUME NEW i \in DOMAIN w, k \in Numbers(w[i].text) PROVE k \in Numbers(r.text)
      <4>1. \A j \in DOMAIN q : k \notin Numbers(q[j].text)
        <5>1. k \notin 1..m
          OBVIOUS
        <5> QED
          BY <1>2, <5>1
      <4> QED
        BY <1>3, <3>2, <4>1
    <3> QED
      BY <3>1, <3>2 DEF StoredIn
  <2>4. \A k \in 1..n : k \in 1..m \/ k \in (m + 1)..n
    OBVIOUS
  <2> QED
    BY <1>4, <2>1, <2>2, <2>3, <2>4 DEF RowsHold
<1>7. CASE /\ Len(w) = Len(q) /\ Len(w) = StoreLimit
           /\ \A i \in 1..(Len(w) - 1) : w[i] = q[i + 1]
  <2>1. ASSUME NEW i \in DOMAIN w, i # Len(w)
        PROVE  i + 1 \in DOMAIN q /\ w[i] = q[i + 1]
    BY <1>1, <1>7, <2>1
  <2>2. ASSUME NEW i \in DOMAIN w, NEW j \in DOMAIN w, i < j
        PROVE  Before(w[i].text, w[j].text)
    <3>1. i \in Int /\ j \in Int /\ i # Len(w)
      BY <1>1, <2>2
    <3>2. i + 1 \in DOMAIN q /\ w[i] = q[i + 1]
      BY <2>1, <3>1
    <3>3. CASE j # Len(w)
      <4>1. j + 1 \in DOMAIN q /\ w[j] = q[j + 1] /\ i + 1 < j + 1
        BY <2>1, <2>2, <3>1, <3>3
      <4> QED
        BY <1>2, <3>2, <4>1
    <3>4. CASE j = Len(w)
      BY <1>1, <1>5, <3>2, <3>4
    <3> QED
      BY <3>3, <3>4
  <2>3. ASSUME NEW k \in (m + 1)..n PROVE StoredIn(w, k) <=> DueIn(s, k)
    <3>1. ASSUME k \in Numbers(r.text) PROVE StoredIn(w, k)
      <4>1. Len(w) \in DOMAIN w
        BY <1>1
      <4> QED
        BY <1>1, <3>1, <4>1 DEF StoredIn
    <3>2. ASSUME NEW i \in DOMAIN w, k \in Numbers(w[i].text) PROVE k \in Numbers(r.text)
      <4>1. \A j \in DOMAIN q : k \notin Numbers(q[j].text)
        <5>1. k \notin 1..m
          OBVIOUS
        <5> QED
          BY <1>2, <5>1
      <4> QED
        BY <1>3, <3>2, <4>1
    <3> QED
      BY <3>1, <3>2 DEF StoredIn
  <2>4. ASSUME NEW k \in 1..m PROVE DroppedFrom(w, k) \/ (StoredIn(w, k) <=> DueIn(s, k))
    <3>1. \A x \in Numbers(r.text) : k < x /\ x # k
      BY <1>1
    <3>2. CASE DroppedFrom(q, k)
      <4>1. ASSUME NEW i \in DOMAIN w, NEW x \in Numbers(w[i].text) PROVE k < x
        <5>1. CASE w[i] = r
          BY <3>1, <4>1, <5>1
        <5>2. CASE \E j \in DOMAIN q : w[i] = q[j]
          BY <3>2, <4>1, <5>2 DEF DroppedFrom
        <5> QED
          BY <1>3, <5>1, <5>2
      <4> QED
        BY <1>7, <4>1 DEF DroppedFrom
    <3>3. CASE ~DroppedFrom(q, k)
      <4>1. StoredIn(q, k) <=> DueIn(s, k)
        BY <1>2, <3>3
      <4>2. 1 \in DOMAIN q
        BY <1>1, <1>7
      <4>3. CASE k \in Numbers(q[1].text)
        <5>1. ASSUME NEW i \in DOMAIN w, NEW x \in Numbers(w[i].text) PROVE k < x
          <6>1. CASE i = Len(w)
            BY <1>1, <3>1, <5>1, <6>1
          <6>2. CASE i # Len(w)
            <7>1. i + 1 \in DOMAIN q /\ w[i] = q[i + 1] /\ 1 < i + 1
              BY <1>1, <2>1, <6>2
            <7>2. Before(q[1].text, q[i + 1].text)
              BY <1>2, <4>2, <7>1
            <7> QED
              BY <4>3, <5>1, <7>1, <7>2 DEF Before
          <6> QED
            BY <6>1, <6>2
        <5> QED
          BY <1>7, <5>1 DEF DroppedFrom
      <4>4. CASE k \notin Numbers(q[1].text)
        <5>1. ASSUME NEW j \in DOMAIN q, k \in Numbers(q[j].text) PROVE StoredIn(w, k)
          <6>1. j # 1 /\ j \in 1..Len(q)
            BY <1>1, <4>4, <5>1
          <6>2. j - 1 \in 1..(Len(w) - 1) /\ j - 1 \in DOMAIN w /\ (j - 1) + 1 = j
            BY <1>1, <1>7, <6>1
          <6>3. w[j - 1] = q[j]
            BY <1>7, <6>2
          <6> QED
            BY <5>1, <6>2, <6>3 DEF StoredIn
        <5>2. ASSUME NEW i \in DOMAIN w, k \in Numbers(w[i].text) PROVE StoredIn(q, k)
          BY <1>3, <3>1, <5>2 DEF StoredIn
        <5>3. StoredIn(w, k) <=> StoredIn(q, k)
          BY <5>1, <5>2 DEF StoredIn
        <5> QED
          BY <4>1, <5>3
      <4> QED
        BY <4>3, <4>4
    <3> QED
      BY <3>2, <3>3
  <2>5. \A k \in 1..n : k \in 1..m \/ k \in (m + 1)..n
    OBVIOUS
  <2> QED
    BY <1>4, <2>2, <2>3, <2>4, <2>5 DEF RowsHold
<1> QED
  BY <1>6, <1>7 DEF Pushed

(* No row is appended where none of the deltas behind m is due.            *)
LEMMA NothingHolds ==
    ASSUME NEW s, NEW m \in Nat, NEW n \in Nat, m <= n, NEW q, RowsHold(q, s, m),
           \A k \in (m + 1)..n : ~DueIn(s, k)
    PROVE  RowsHold(q, s, n)
<1>1. /\ \A i \in DOMAIN q : InOrder(q[i].text) /\ Numbers(q[i].text) \subseteq 1..m
      /\ \A i, j \in DOMAIN q : i < j => Before(q[i].text, q[j].text)
      /\ \A k \in 1..m : DroppedFrom(q, k) \/ (StoredIn(q, k) <=> DueIn(s, k))
  BY DEF RowsHold
<1>2. \A i \in DOMAIN q : InOrder(q[i].text) /\ Numbers(q[i].text) \subseteq 1..n
  <2>1. 1..m \subseteq 1..n
    OBVIOUS
  <2> QED
    BY <1>1, <2>1
<1>3. ASSUME NEW k \in 1..n PROVE DroppedFrom(q, k) \/ (StoredIn(q, k) <=> DueIn(s, k))
  <2>1. CASE k \in 1..m
    BY <1>1, <2>1
  <2>2. CASE k \in (m + 1)..n
    <3>1. k \notin 1..m /\ ~DueIn(s, k)
      BY <2>2
    <3>2. ~StoredIn(q, k)
      BY <1>1, <3>1 DEF StoredIn
    <3> QED
      BY <3>1, <3>2
  <2> QED
    BY <2>1, <2>2
<1> QED
  BY <1>1, <1>2, <1>3 DEF RowsHold

LEMMA BufferTail ==
    ASSUME NEW text, NEW s, NEW p, BufferIs(text, s, p), NEW m, m = Len(s) - Len(text)
    PROVE  \A i \in 1..Len(text) : text[i] = s[m + i]
BY DEF BufferIs

LEMMA BufferFields ==
    ASSUME NEW text, NEW s, NEW p, BufferIs(text, s, p), NEW m, m = Len(s) - Len(text)
    PROVE  /\ text \in Text /\ s \in Text /\ p \in Nat /\ Len(text) \in Nat /\ Len(s) \in Nat
           /\ m \in Nat /\ m <= Len(s) /\ Len(s) = m + Len(text)
           /\ DOMAIN text = 1..Len(text) /\ DOMAIN s = 1..Len(s)
           /\ \A k \in 1..Len(s) : s[k].no = k
           /\ \A k \in 1..m : s[k].part < p
           /\ \A k \in (m + 1)..Len(s) : s[k].part = p
<1>1. /\ text \in Text /\ s \in Text /\ p \in Nat /\ Len(text) <= Len(s)
      /\ \A k \in 1..Len(s) : s[k].no = k
      /\ \A i \in 1..Len(text) : text[i] = s[m + i]
      /\ \A k \in 1..Len(s) : IF k <= m THEN s[k].part < p ELSE s[k].part = p
  BY DEF BufferIs
<1>2. /\ Len(text) \in Nat /\ Len(s) \in Nat
      /\ DOMAIN text = 1..Len(text) /\ DOMAIN s = 1..Len(s)
  BY <1>1, TextFields
<1>3. m \in Nat /\ m <= Len(s) /\ Len(s) = m + Len(text)
  BY <1>1, <1>2
<1>4. ASSUME NEW k \in 1..m PROVE s[k].part < p
  <2>1. k \in 1..Len(s) /\ k <= m
    BY <1>2, <1>3
  <2> QED
    BY <1>1, <2>1
<1>5. ASSUME NEW k \in (m + 1)..Len(s) PROVE s[k].part = p
  <2>1. k \in 1..Len(s) /\ ~(k <= m)
    BY <1>2, <1>3
  <2> QED
    BY <1>1, <2>1
<1> QED
  BY <1>1, <1>2, <1>3, <1>4, <1>5

(* The passage of the buffer is the buffer.                                *)
LEMMA SpokenInBuffer ==
    ASSUME NEW text, NEW s, NEW p, BufferIs(text, s, p), NEW m, m = Len(s) - Len(text),
           NEW k \in (m + 1)..Len(s)
    PROVE  {v \in Spoken(s) : s[v].part = s[k].part} = {m + i : i \in Spoken(text)}
<1> DEFINE S == {v \in Spoken(s) : s[v].part = s[k].part}
<1>0. \A i \in 1..Len(text) : text[i] = s[m + i]
  BY BufferTail
<1>1. /\ s \in Text /\ p \in Nat /\ Len(text) \in Nat /\ Len(s) \in Nat
      /\ m \in Nat /\ m <= Len(s) /\ Len(s) = m + Len(text)
      /\ DOMAIN text = 1..Len(text) /\ DOMAIN s = 1..Len(s)
  BY BufferFields
<1>2. /\ \A j \in 1..m : s[j].part < p
      /\ \A j \in (m + 1)..Len(s) : s[j].part = p
  <2>1. \A j \in 1..Len(s) : IF j <= m THEN s[j].part < p ELSE s[j].part = p
    BY DEF BufferIs
  <2>2. ASSUME NEW j \in 1..m PROVE s[j].part < p
    <3>1. j \in 1..Len(s) /\ j <= m
      BY <1>1
    <3> QED
      BY <2>1, <3>1
  <2>3. ASSUME NEW j \in (m + 1)..Len(s) PROVE s[j].part = p
    <3>1. j \in 1..Len(s) /\ ~(j <= m)
      BY <1>1
    <3> QED
      BY <2>1, <3>1
  <2> QED
    BY <2>2, <2>3
<1>3. s[k].part = p
  BY <1>2
<1>4. ASSUME NEW v \in S PROVE \E i \in Spoken(text) : v = m + i
  <2>1. v \in 1..Len(s) /\ ~s[v].blank /\ s[v].part = p
    BY <1>1, <1>3 DEF Spoken
  <2>2. v \notin 1..m
    <3>1. \A j \in 1..m : s[j].part # p
      <4>1. \A j \in 1..m : s[j].part \in Nat
        BY <1>1, TextFields
      <4> QED
        BY <1>1, <1>2, <4>1
    <3> QED
      BY <2>1, <3>1
  <2>3. v - m \in 1..Len(text) /\ m + (v - m) = v
    BY <1>1, <2>1, <2>2
  <2>4. text[v - m] = s[v]
    BY <1>0, <2>3
  <2>5. v - m \in Spoken(text)
    BY <1>1, <2>1, <2>3, <2>4 DEF Spoken
  <2> QED
    BY <2>3, <2>5
<1>5. ASSUME NEW i \in Spoken(text) PROVE m + i \in S
  <2>1. i \in 1..Len(text) /\ ~text[i].blank
    BY <1>1 DEF Spoken
  <2>2. m + i \in 1..Len(s) /\ m + i \in (m + 1)..Len(s) /\ s[m + i] = text[i]
    BY <1>0, <1>1, <2>1
  <2> QED
    BY <1>1, <1>3, <1>2, <2>1, <2>2 DEF Spoken
<1> QED
  BY <1>4, <1>5

(* The row of a flush gets what is due, and nothing else.                  *)
LEMMA FlushedIsDue ==
    ASSUME NEW text, NEW s, NEW p, BufferIs(text, s, p), NEW m, m = Len(s) - Len(text),
           NEW t, NEW a \in 1..Len(text), NEW b \in 1..Len(text), Piece(t, text, a, b)
    PROVE  /\ InOrder(t) /\ Numbers(t) \subseteq (m + 1)..Len(s)
           /\ \A k \in (m + 1)..Len(s) : k \in Numbers(t) <=> DueIn(s, k)
<1>0. \A i \in 1..Len(text) : text[i] = s[m + i]
  BY BufferTail
<1>1. /\ s \in Text /\ Len(text) \in Nat /\ Len(s) \in Nat
      /\ m \in Nat /\ Len(s) = m + Len(text) /\ DOMAIN text = 1..Len(text)
      /\ \A k \in 1..Len(s) : s[k].no = k
  BY BufferFields
<1>2. TextLimit \in Nat /\ TextLimit > 0
  BY ConsoleAssumption
<1>3. /\ a \in Spoken(text) /\ b \in Spoken(text) /\ a <= b
      /\ \A k \in Spoken(text) : a <= k /\ k <= b
      /\ t \in Text /\ \A i \in 1..Len(t) : t[i] = text[a + i - 1]
      /\ Len(t) = IF b - a + 1 > TextLimit THEN TextLimit ELSE b - a + 1
  BY DEF Piece
<1>4. Len(t) \in Nat /\ DOMAIN t = 1..Len(t)
  BY <1>3, TextFields
<1>5. Len(t) <= b - a + 1
  BY <1>1, <1>2, <1>3, <1>4
<1>6. ASSUME NEW i \in 1..Len(t) PROVE t[i].no = m + a + i - 1
  <2>1. a + i - 1 \in 1..Len(text) /\ m + (a + i - 1) \in 1..Len(s)
        /\ m + (a + i - 1) = m + a + i - 1
    BY <1>1, <1>4, <1>5
  <2>2. t[i] = s[m + (a + i - 1)]
    BY <1>0, <1>1, <1>3, <2>1
  <2> QED
    BY <1>1, <2>1, <2>2
<1>7. InOrder(t)
  <2> SUFFICES ASSUME NEW i \in 1..Len(t), NEW j \in 1..Len(t), i < j
               PROVE  t[i].no < t[j].no
    BY <1>4 DEF InOrder
  <2>1. t[i].no = m + a + i - 1 /\ t[j].no = m + a + j - 1
    BY <1>6
  <2> QED
    BY <1>1, <1>4, <2>1
<1>8. ASSUME NEW k \in Int
      PROVE  k \in Numbers(t) <=> m + a <= k /\ k < m + a + Len(t)
  <2>1. ASSUME k \in Numbers(t) PROVE m + a <= k /\ k < m + a + Len(t)
    <3>1. PICK i \in 1..Len(t) : k = t[i].no
      BY <1>4, <2>1 DEF Numbers
    <3>2. k = m + a + i - 1
      BY <1>6, <3>1
    <3> QED
      BY <1>1, <1>4, <3>2
  <2>2. ASSUME m + a <= k, k < m + a + Len(t) PROVE k \in Numbers(t)
    <3> DEFINE i == k - (m + a) + 1
    <3>1. i \in 1..Len(t) /\ m + a + i - 1 = k
      BY <1>1, <1>4, <2>2
    <3>2. t[i].no = k
      BY <1>6, <3>1
    <3> QED
      BY <1>4, <3>1, <3>2 DEF Numbers
  <2> QED
    BY <2>1, <2>2
<1>9. Numbers(t) \subseteq (m + 1)..Len(s)
  <2> SUFFICES ASSUME NEW i \in 1..Len(t) PROVE t[i].no \in (m + 1)..Len(s)
    BY <1>4 DEF Numbers
  <2>1. t[i].no = m + a + i - 1
    BY <1>6
  <2> QED
    BY <1>1, <1>4, <1>5, <2>1
<1>10. ASSUME NEW k \in (m + 1)..Len(s) PROVE k \in Numbers(t) <=> DueIn(s, k)
  <2> DEFINE S == {v \in Spoken(s) : s[v].part = s[k].part}
  <2>1. S = {m + i : i \in Spoken(text)}
    BY SpokenInBuffer, SMTT(40)
  <2>2. DueIn(s, k) <=> (\E v, w \in S : v <= k /\ k <= w) /\ \A v \in S : k < v + TextLimit
    BY DEF DueIn
  <2> HIDE DEF S
  <2>3. /\ m + a \in S /\ m + b \in S /\ k \in Int
        /\ \A v \in S : v \in Int /\ m + a <= v /\ v <= m + b
    <3>1. ASSUME NEW v \in S PROVE v \in Int /\ m + a <= v /\ v <= m + b
      <4>1. PICK i \in Spoken(text) : v = m + i
        BY <2>1
      <4>2. a <= i /\ i <= b /\ i \in 1..Len(text)
        BY <1>1, <1>3 DEF Spoken
      <4> QED
        BY <1>1, <4>1, <4>2
    <3> QED
      BY <1>1, <1>3, <2>1, <3>1
  <2>4. (\E v, w \in S : v <= k /\ k <= w) <=> m + a <= k /\ k <= m + b
    <3>1. ASSUME NEW v \in S, NEW w \in S, v <= k, k <= w PROVE m + a <= k /\ k <= m + b
      <4>1. v \in Int /\ w \in Int /\ m + a <= v /\ w <= m + b
        BY <2>3
      <4> QED
        BY <1>1, <2>3, <3>1, <4>1
    <3> QED
      BY <2>3, <3>1
  <2>5. (\A v \in S : k < v + TextLimit) <=> k < m + a + TextLimit
    <3>1. ASSUME k < m + a + TextLimit, NEW v \in S PROVE k < v + TextLimit
      <4>1. v \in Int /\ m + a <= v
        BY <2>3
      <4> QED
        BY <1>1, <1>2, <2>3, <3>1, <4>1
    <3> QED
      BY <2>3, <3>1
  <2>6. k \in Numbers(t) <=> m + a <= k /\ k < m + a + Len(t)
    BY <1>8, <2>3
  <2>7. k < m + a + Len(t) <=> k <= m + b /\ k < m + a + TextLimit
    BY <1>1, <1>2, <1>3, <1>4, <2>3, SMTT(40)
  <2> QED
    BY <2>2, <2>4, <2>5, <2>6, <2>7
<1> QED
  BY <1>7, <1>9, <1>10

LEMMA NothingIsDue ==
    ASSUME NEW text, NEW s, NEW p, BufferIs(text, s, p), NEW m, m = Len(s) - Len(text),
           Spoken(text) = {}, NEW k \in (m + 1)..Len(s)
    PROVE  ~DueIn(s, k)
<1> DEFINE S == {v \in Spoken(s) : s[v].part = s[k].part}
<1>1. S = {m + i : i \in Spoken(text)}
  BY SpokenInBuffer
<1>2. S = {}
  BY <1>1
<1>3. DueIn(s, k) => \E v, w \in S : v <= k /\ k <= w
  BY DEF DueIn
<1> QED
  BY <1>2, <1>3

(* The empty buffer: the passage that begins is a new one.                 *)
LEMMA NewPassage ==
    ASSUME NEW text, NEW s, NEW p, BufferIs(text, s, p), NEW q \in Nat,
           q > p \/ (text = <<>> /\ q = p)
    PROVE  BufferIs(<<>>, s, q)
<1> DEFINE m == Len(s) - Len(text)
           none == <<>>
<1>1. /\ s \in Text /\ p \in Nat /\ Len(text) \in Nat /\ Len(s) \in Nat
      /\ m \in Nat /\ Len(s) = m + Len(text)
      /\ \A k \in 1..Len(s) : s[k].no = k
      /\ \A k \in 1..m : s[k].part < p
      /\ \A k \in (m + 1)..Len(s) : s[k].part = p
  BY BufferFields
<1>2. none \in Text /\ Len(none) = 0 /\ (text = none => Len(text) = 0)
  BY NoText
<1>3. q > p \/ (text = none /\ q = p)
  OBVIOUS
<1> HIDE DEF none, m
<1>4. ASSUME NEW k \in 1..Len(s) PROVE s[k].part < q
  <2>1. k \in 1..m \/ k \in (m + 1)..Len(s)
    BY <1>1
  <2>2. CASE q > p
    <3>1. s[k].part <= p /\ s[k].part \in Nat
      BY <1>1, <2>1, TextFields
    <3> QED
      BY <1>1, <2>2, <3>1
  <2>3. CASE text = none /\ q = p
    <3>1. m = Len(s)
      BY <1>1, <1>2, <2>3
    <3> QED
      BY <1>1, <2>3, <3>1
  <2> QED
    BY <1>3, <2>2, <2>3
<1>5. Len(s) - Len(none) = Len(s) /\ \A k \in 1..Len(s) : k <= Len(s)
  BY <1>1, <1>2
<1>6. 1..Len(none) = {} /\ Len(none) <= Len(s)
  BY <1>1, <1>2
<1>7. BufferIs(none, s, q)
  BY <1>1, <1>2, <1>4, <1>5, <1>6 DEF BufferIs
<1> QED
  BY <1>7 DEF none

LEMMA FlushFiled ==
    ASSUME NEW c, ConsoleGood(c), NEW s, NEW p, Filed(c, s, p)
    PROVE  Filed(Flush(c), s, p + 1)
<1> DEFINE f == Flush(c)
           m == Len(s) - Len(c.text)
<1>1. BufferIs(c.text, s, p) /\ RowsHold(c.rows, s, m)
  BY DEF Filed
<1>2. p \in Nat /\ m \in Nat /\ m <= Len(s) /\ Len(s) \in Nat
  BY <1>1, BufferFields
<1>3. /\ f.text = <<>>
      /\ \/ Spoken(c.text) = {} /\ f.rows = c.rows
         \/ \E r \in Row, a, b \in 1..Len(c.text) :
               Pushed(f.rows, c.rows, r) /\ Piece(r.text, c.text, a, b)
  BY FlushBecame
<1>4. c.rows \in Seq(Row)
  BY ConsoleFields DEF ConsoleGood
<1> HIDE DEF f
<1>5. RowsHold(f.rows, s, Len(s))
  <2>1. CASE Spoken(c.text) = {} /\ f.rows = c.rows
    <3>1. \A k \in (m + 1)..Len(s) : ~DueIn(s, k)
      BY <1>1, <2>1, NothingIsDue
    <3> HIDE DEF m
    <3> QED
      BY <1>1, <1>2, <2>1, <3>1, NothingHolds
  <2>2. ASSUME NEW r \in Row, NEW a \in 1..Len(c.text), NEW b \in 1..Len(c.text),
               Pushed(f.rows, c.rows, r), Piece(r.text, c.text, a, b)
        PROVE  RowsHold(f.rows, s, Len(s))
    <3>1. /\ InOrder(r.text) /\ Numbers(r.text) \subseteq (m + 1)..Len(s)
          /\ \A k \in (m + 1)..Len(s) : k \in Numbers(r.text) <=> DueIn(s, k)
      BY <1>1, <2>2, FlushedIsDue
    <3> HIDE DEF m
    <3> QED
      BY <1>1, <1>2, <1>4, <2>2, <3>1, PushedHold
  <2> QED
    BY <1>3, <2>1, <2>2
<1>6. BufferIs(<<>>, s, p + 1)
  <2>1. p + 1 \in Nat /\ p + 1 > p
    BY <1>2
  <2> QED
    BY <1>1, <2>1, NewPassage
<1>7. Len(s) - Len(<<>>) = Len(s)
  BY <1>2, NoText
<1> QED
  BY <1>3, <1>5, <1>6, <1>7 DEF Filed, f

LEMMA RowFiled ==
    ASSUME NEW c, ConsoleGood(c), NEW s, NEW p, Filed(c, s, p),
           NEW kind \in {"user", "permission", "tool"}, NEW turnid \in Turn
    PROVE  Filed(AppendRow(c, kind, turnid, <<>>), s, p)
<1> DEFINE d == AppendRow(c, kind, turnid, <<>>)
           m == Len(s) - Len(c.text)
<1>1. BufferIs(c.text, s, p) /\ RowsHold(c.rows, s, m)
  BY DEF Filed
<1>2. m \in Nat
  BY <1>1, BufferFields
<1>3. d.text = c.text /\ \E r \in Row : Pushed(d.rows, c.rows, r) /\ r.text = <<>>
  BY RowOnly
<1>4. c.rows \in Seq(Row)
  BY ConsoleFields DEF ConsoleGood
<1> HIDE DEF d, m
<1>5. PICK r \in Row : Pushed(d.rows, c.rows, r) /\ r.text = <<>>
  BY <1>3
<1>6. InOrder(r.text) /\ Numbers(r.text) = {} /\ (m + 1)..m = {}
  BY <1>2, <1>5, NothingNumbered
<1>7. RowsHold(d.rows, s, m)
  <2>1. m <= m /\ Numbers(r.text) \subseteq (m + 1)..m
        /\ \A k \in (m + 1)..m : k \in Numbers(r.text) <=> DueIn(s, k)
    BY <1>2, <1>6
  <2> QED
    BY <1>1, <1>2, <1>4, <1>5, <1>6, <2>1, PushedHold
<1> QED
  BY <1>1, <1>3, <1>7 DEF Filed, d, m

(* A delta of the passage p comes to the buffer.                           *)
LEMMA DeltaFiled ==
    ASSUME NEW c, NEW s, NEW p, Filed(c, s, p),
           NEW d \in Delta, d.no = Len(s) + 1, d.part = p,
           NEW e, e.text = Append(c.text, d), e.rows = c.rows
    PROVE  Filed(e, Append(s, d), p)
<1> DEFINE m == Len(s) - Len(c.text)
           more == Append(c.text, d)
           t == Append(s, d)
<1>1. BufferIs(c.text, s, p) /\ RowsHold(c.rows, s, m)
  BY DEF Filed
<1>2. /\ c.text \in Text /\ s \in Text /\ p \in Nat /\ Len(c.text) \in Nat /\ Len(s) \in Nat
      /\ m \in Nat /\ m <= Len(s) /\ Len(s) = m + Len(c.text)
      /\ \A k \in 1..Len(s) : s[k].no = k
      /\ \A k \in 1..m : s[k].part < p
      /\ \A k \in (m + 1)..Len(s) : s[k].part = p
  BY <1>1, BufferFields
<1>tail. \A i \in 1..Len(c.text) : c.text[i] = s[m + i]
  <2>1. \A i \in 1..Len(c.text) : c.text[i] = s[(Len(s) - Len(c.text)) + i]
    BY <1>1 DEF BufferIs
  <2> QED
    BY <2>1
<1>3. /\ more \in Text /\ Len(more) = Len(c.text) + 1
      /\ \A i \in 1..Len(c.text) : more[i] = c.text[i]
      /\ more[Len(c.text) + 1] = d
      /\ t \in Text /\ Len(t) = Len(s) + 1
      /\ \A i \in 1..Len(s) : t[i] = s[i]
      /\ t[Len(s) + 1] = d
  BY <1>2, Lengthened
<1> HIDE DEF more, t
<1>4. Len(t) - Len(more) = m
  BY <1>2, <1>3
<1> HIDE DEF m
<1>5. BufferIs(more, t, p)
  <2>1. ASSUME NEW k \in 1..Len(t) PROVE t[k].no = k
    <3>1. k \in 1..Len(s) \/ k = Len(s) + 1
      BY <1>2, <1>3
    <3> QED
      BY <1>2, <1>3, <3>1
  <2>2. ASSUME NEW i \in 1..Len(more) PROVE more[i] = t[m + i]
    <3>1. CASE i \in 1..Len(c.text)
      <4>1. m + i \in 1..Len(s)
        BY <1>2, <3>1
      <4> QED
        BY <1>tail, <1>3, <3>1, <4>1
    <3>2. CASE i \notin 1..Len(c.text)
      <4>1. i = Len(c.text) + 1 /\ m + i = Len(s) + 1
        BY <1>2, <1>3, <3>2
      <4> QED
        BY <1>3, <4>1
    <3> QED
      BY <3>1, <3>2
  <2>3. ASSUME NEW k \in 1..Len(t) PROVE IF k <= m THEN t[k].part < p ELSE t[k].part = p
    <3>1. CASE k <= m
      <4>1. k \in 1..m /\ k \in 1..Len(s)
        BY <1>2, <1>3, <3>1
      <4> QED
        BY <1>2, <1>3, <3>1, <4>1
    <3>2. CASE ~(k <= m) /\ k \in 1..Len(s)
      <4>1. k \in (m + 1)..Len(s)
        BY <1>2, <3>2
      <4> QED
        BY <1>2, <1>3, <3>2, <4>1
    <3>3. CASE ~(k <= m) /\ k \notin 1..Len(s)
      <4>1. k = Len(s) + 1
        BY <1>2, <1>3, <3>3
      <4> QED
        BY <1>3, <3>3, <4>1
    <3> QED
      BY <3>1, <3>2, <3>3
  <2>4. Len(more) <= Len(t)
    BY <1>2, <1>3
  <2> QED
    BY <1>2, <1>3, <1>4, <2>1, <2>2, <2>3, <2>4 DEF BufferIs
<1>6. RowsHold(c.rows, t, m)
  <2>1. m <= Len(t) /\ \A k \in 1..m : s[k] = t[k]
    BY <1>2, <1>3
  <2>2. \A k \in 1..m : s[k].part # p
    <3>1. \A k \in 1..m : s[k].part \in Nat
      BY <1>2, TextFields
    <3> QED
      BY <1>2, <3>1
  <2>3. ASSUME NEW k \in 1..m, NEW j \in 1..Len(s), j > m PROVE s[j].part # s[k].part
    <3>1. j \in (m + 1)..Len(s)
      BY <1>2, <2>3
    <3> QED
      BY <1>2, <2>2, <3>1
  <2>4. ASSUME NEW k \in 1..m, NEW j \in 1..Len(t), j > m PROVE t[j].part # s[k].part
    <3>1. j \in (m + 1)..Len(s) \/ j = Len(s) + 1
      BY <1>2, <1>3, <2>4
    <3>2. t[j].part = p
      <4>1. CASE j \in (m + 1)..Len(s)
        <5>1. j \in 1..Len(s)
          BY <1>2, <4>1
        <5> QED
          BY <1>2, <1>3, <4>1, <5>1
      <4>2. CASE j = Len(s) + 1
        BY <1>3, <4>2
      <4> QED
        BY <3>1, <4>1, <4>2
    <3> QED
      BY <2>2, <3>2
  <2> QED
    BY <1>1, <1>2, <1>3, <2>1, <2>3, <2>4, StillHold
<1> QED
  BY <1>4, <1>5, <1>6 DEF Filed, more, t

(* The last delta said is in the buffer, when that is not empty.           *)
LEMMA LastSaid ==
    ASSUME NEW c, ConsoleGood(c), NEW s, NEW p, Filed(c, s, p), c.text # <<>>
    PROVE  s # <<>> /\ s[Len(s)].turn = c.turn
<1> DEFINE m == Len(s) - Len(c.text)
<1>0. BufferIs(c.text, s, p)
  BY DEF Filed
<1>1. /\ Len(c.text) \in Nat /\ Len(s) \in Nat /\ m \in Nat /\ Len(s) = m + Len(c.text)
      /\ DOMAIN c.text = 1..Len(c.text) /\ c.text \in Text /\ s \in Text
  BY <1>0, BufferFields
<1>2. Len(c.text) > 0
  <2>1. Len(c.text) # 0
    BY <1>1 DEF Text
  <2> QED
    BY <1>1, <2>1
<1>3. Len(c.text) \in 1..Len(c.text) /\ m + Len(c.text) = Len(s) /\ Len(s) # 0
  BY <1>1, <1>2
<1>4. c.text[Len(c.text)] = s[Len(s)]
  <2>1. c.text[Len(c.text)] = s[m + Len(c.text)]
    BY <1>0, <1>3, BufferTail
  <2> QED
    BY <1>3, <2>1
<1>5. c.text[Len(c.text)].turn = c.turn
  BY <1>1, <1>3 DEF ConsoleGood, OneTurn
<1> QED
  BY <1>3, <1>4, <1>5, NoText

(* record_event.                                                           *)
LEMMA RecordFiled ==
    ASSUME NEW c, NEW said0, said0 = said, NEW part0, part0 = part,
           ConsoleGood(c), Filed(c, said0, part0), NEW type, NEW t \in Turn,
           NEW s, s = IF IsDelta(type) THEN Append(said0, NewDelta(type, t)) ELSE said,
           NEW p, p = IF IsDelta(type) THEN Passage(t)
                      ELSE IF type \in {"tool_call", "turn_finished"} THEN part0 + 1 ELSE part0
    PROVE  Filed(Recorded(c, type, t), s, p)
<1> DEFINE d == NewDelta(type, t)
           ready == Readied(c, t)
<1>1. said0 \in Text /\ part0 \in Nat /\ c.text \in Text
  BY BufferFields DEF Filed
<1> DEFINE e == Recorded(c, type, t)
<1>2. /\ s = IF IsDelta(type) THEN Append(said0, d) ELSE said0
      /\ p = IF IsDelta(type) THEN Passage(t)
             ELSE IF type \in {"tool_call", "turn_finished"} THEN part0 + 1 ELSE part0
  OBVIOUS
<1>3. CASE IsDelta(type)
  <2>1. /\ d \in Delta /\ d.turn = t /\ d.no = Len(said0) + 1
        /\ d.part = Passage(t) /\ Passage(t) \in Nat
    BY <1>1, NewDeltaType
  <2>2. e = TakeDelta(c, d) /\ s = Append(said0, d) /\ p = Passage(t)
    BY <1>2, <1>3 DEF Recorded, IsDelta
  <2> HIDE DEF d
  <2>3. /\ TakeDelta(c, d).text = Append(ready.text, d) /\ TakeDelta(c, d).rows = ready.rows
    BY <2>1, DeltaBecame
  <2>4. Filed(ready, said0, Passage(t))
    <3>1. CASE c.text # <<>> /\ c.turn # t
      <4>1. Passage(t) = part0 + 1
        BY <3>1, LastSaid DEF Passage
      <4> QED
        BY <3>1, <4>1, FlushFiled DEF Readied
    <3>2. CASE c.text # <<>> /\ c.turn = t
      <4>1. Passage(t) = part0
        BY <3>2, LastSaid DEF Passage
      <4> QED
        BY <3>2, <4>1 DEF Readied
    <3>3. CASE c.text = <<>>
      <4>1. Passage(t) > part0 \/ (c.text = <<>> /\ Passage(t) = part0)
        BY <1>1, <3>3 DEF Passage
      <4>2. BufferIs(<<>>, said0, Passage(t))
        BY <2>1, <4>1, NewPassage DEF Filed
      <4> QED
        BY <3>3, <4>2 DEF Readied, Filed
    <3> QED
      BY <3>1, <3>2, <3>3
  <2> QED
    BY <2>1, <2>2, <2>3, <2>4, DeltaFiled
<1>4. CASE type = "tool_call"
  <2> DEFINE f == Flush(c)
  <2>1. Filed(f, said0, part0 + 1) /\ ConsoleGood(f)
    BY FlushFiled, FlushBecame DEF Became
  <2>2. e = AppendRow(f, "tool", t, <<>>) /\ s = said0 /\ p = part0 + 1
    BY <1>2, <1>4 DEF Recorded, IsDelta
  <2> HIDE DEF f
  <2> QED
    BY <2>1, <2>2, RowFiled
<1>5. CASE type = "turn_finished"
  <2>1. e = Flush(c) /\ s = said0 /\ p = part0 + 1
    BY <1>2, <1>5 DEF Recorded, IsDelta
  <2> QED
    BY <2>1, FlushFiled
<1>6. CASE ~IsDelta(type) /\ type \notin {"tool_call", "turn_finished"}
  <2>1. s = said0 /\ p = part0
    BY <1>2, <1>6
  <2>2. e = AppendRow(c, "user", t, <<>>) \/ e = AppendRow(c, "permission", t, <<>>) \/ e = c
    BY <1>2, <1>6 DEF Recorded
  <2> QED
    BY <2>1, <2>2, RowFiled
<1> QED
  BY <1>3, <1>4, <1>5, <1>6

(* A restart loses the buffer, and with it the end of what was said.       *)
LEMMA CutFiled ==
    ASSUME NEW c, NEW s, NEW p, Filed(c, s, p),
           NEW cut, cut = SubSeq(s, 1, Len(s) - Len(c.text)),
           NEW d, d.text = <<>>, d.rows = c.rows
    PROVE  Filed(d, cut, p)
<1> DEFINE m == Len(s) - Len(c.text)
           none == <<>>
<1>1. BufferIs(c.text, s, p) /\ RowsHold(c.rows, s, m)
  BY DEF Filed
<1>2. /\ s \in Text /\ p \in Nat /\ m \in Nat /\ m <= Len(s) /\ Len(s) \in Nat
      /\ \A k \in 1..Len(s) : s[k].no = k
      /\ \A k \in 1..m : s[k].part < p
      /\ \A k \in (m + 1)..Len(s) : s[k].part = p
  BY <1>1, BufferFields
<1>3. cut = SubSeq(s, 1, m) /\ d.text = none /\ none \in Text /\ Len(none) = 0
  BY NoText
<1> HIDE DEF m, none
<1>4. cut \in Text /\ Len(cut) = m /\ \A i \in 1..m : cut[i] = s[i]
  BY <1>2, <1>3 DEF Text
<1>5. \A k \in 1..m : k \in 1..Len(s)
  BY <1>2
<1>6. BufferIs(none, cut, p)
  <2>1. Len(none) <= Len(cut) /\ Len(cut) - Len(none) = m /\ 1..Len(none) = {}
    BY <1>2, <1>3, <1>4
  <2>2. \A k \in 1..m : cut[k].no = k /\ cut[k].part < p /\ k <= m
    BY <1>2, <1>4, <1>5
  <2> QED
    BY <1>2, <1>3, <1>4, <2>1, <2>2 DEF BufferIs
<1>7. RowsHold(c.rows, cut, m)
  <2>1. ASSUME NEW k \in 1..m, NEW j \in 1..Len(s), j > m PROVE s[j].part # s[k].part
    <3>1. j \in (m + 1)..Len(s)
      BY <1>2, <2>1
    <3>2. s[k].part < p /\ s[k].part \in Nat /\ s[j].part = p
      BY <1>2, <1>5, <3>1, TextFields
    <3> QED
      BY <1>2, <3>2
  <2>2. \A k \in 1..m, j \in 1..Len(cut) : ~(j > m)
    BY <1>2, <1>4
  <2>3. m <= Len(cut) /\ \A k \in 1..m : s[k] = cut[k]
    BY <1>2, <1>4
  <2> QED
    BY <1>1, <1>2, <1>4, <2>1, <2>2, <2>3, StillHold DEF m
<1>8. Len(cut) - Len(d.text) = m
  BY <1>2, <1>3, <1>4
<1> QED
  BY <1>3, <1>6, <1>7, <1>8 DEF Filed

LEMMA NothingFiled ==
    ASSUME NEW p \in Nat, NEW d, d.text = <<>>, d.rows = <<>>
    PROVE  Filed(d, <<>>, p)
<1> DEFINE none == <<>>
<1>1. none \in Text /\ Len(none) = 0 /\ DOMAIN none = {} /\ d.text = none /\ d.rows = none
  BY NoText
<1> HIDE DEF none
<1>2. 1..0 = {} /\ Len(none) - Len(none) = 0 /\ Len(none) <= Len(none)
  BY <1>1
<1>3. BufferIs(none, none, p)
  BY <1>1, <1>2 DEF BufferIs
<1>4. RowsHold(none, none, 0)
  BY <1>1, <1>2 DEF RowsHold
<1>5. Filed(d, none, p)
  BY <1>1, <1>2, <1>3, <1>4 DEF Filed
<1> QED
  BY <1>5 DEF none

(* The numbers of a buffer are those behind m.                             *)
LEMMA BufferNumbers ==
    ASSUME NEW text, NEW s, NEW p, BufferIs(text, s, p)
    PROVE  LET m == Len(s) - Len(text) IN
           /\ InOrder(text) /\ \A k \in Numbers(text) : k > m
           /\ \A k \in 1..Len(s) : k \in Numbers(text) \/ k \in 1..m
<1> DEFINE m == Len(s) - Len(text)
<1>1. /\ s \in Text /\ Len(text) \in Nat /\ Len(s) \in Nat
      /\ m \in Nat /\ Len(s) = m + Len(text) /\ DOMAIN text = 1..Len(text)
      /\ \A k \in 1..Len(s) : s[k].no = k
  BY BufferFields
<1>2. \A i \in 1..Len(text) : text[i] = s[m + i]
  BY BufferTail
<1> HIDE DEF m
<1>3. ASSUME NEW i \in 1..Len(text) PROVE text[i].no = m + i
  <2>1. m + i \in 1..Len(s)
    BY <1>1
  <2> QED
    BY <1>1, <1>2, <2>1
<1>4. InOrder(text)
  <2> SUFFICES ASSUME NEW i \in 1..Len(text), NEW j \in 1..Len(text), i < j
               PROVE  text[i].no < text[j].no
    BY <1>1 DEF InOrder
  <2>1. text[i].no = m + i /\ text[j].no = m + j
    BY <1>3
  <2> QED
    BY <1>1, <2>1
<1>5. ASSUME NEW k \in Numbers(text) PROVE k > m
  <2>1. PICK i \in 1..Len(text) : k = text[i].no
    BY <1>1 DEF Numbers
  <2>2. k = m + i
    BY <1>3, <2>1
  <2> QED
    BY <1>1, <2>2
<1>6. ASSUME NEW k \in 1..Len(s), k \notin 1..m PROVE k \in Numbers(text)
  <2>1. k - m \in 1..Len(text) /\ m + (k - m) = k
    BY <1>1, <1>6
  <2>2. text[k - m].no = k
    BY <1>3, <2>1
  <2> QED
    BY <1>1, <2>1, <2>2 DEF Numbers
<1> QED
  BY <1>4, <1>5, <1>6 DEF m

-----------------------------------------------------------------------------
(* The events of one publish: what is live, and the new rows.              *)

CoreType == {"user_message", "text_delta", "line_break", "tool_call",
             "permission_request", "turn_finished", "runtime_status"}

LEMMA ItemType ==
    ASSUME NEW type \in EventType \ {"end"}, NEW row \in Nat, NEW text \in Text
    PROVE  [type |-> type, row |-> row, text |-> text] \in ItemState
BY DEF ItemState, Text

LEMMA JoinItems ==
    ASSUME NEW x \in Seq(ItemState), NEW y \in Seq(ItemState)
    PROVE  /\ x \o y \in Seq(ItemState) /\ Len(x \o y) = Len(x) + Len(y)
           /\ \A i \in 1..(Len(x) + Len(y)) :
                 (x \o y)[i] = IF i <= Len(x) THEN x[i] ELSE y[i - Len(x)]
BY ConcatProperties

LEMMA LiveItem ==
    ASSUME NEW text
    PROVE  [Item("console_live") EXCEPT !.text = text]
             = [type |-> "console_live", row |-> 0, text |-> text]
BY DEF Item

LEMMA RowItem ==
    ASSUME NEW row
    PROVE  [Item("console_event") EXCEPT !.row = row]
             = [type |-> "console_event", row |-> row, text |-> <<>>]
BY DEF Item

LEMMA ItemsGood ==
    ASSUME NEW type \in CoreType, NEW d, d.text \in Text, d.last \in Nat,
           console.last \in Nat, console.last <= d.last
    PROVE  LET items == Items(type, d) IN
           /\ items \in Seq(ItemState)
           /\ LiveOf(items, d)
           /\ (console.last + 1)..d.last \subseteq RowsAfter(items, 0)
<1> DEFINE first == <<Item(HubType(type))>>
           live == LiveItems(type, d)
           rows == RowItems(console.last, d.last)
           both == first \o live
           items == Items(type, d)
           from == console.last
           n == d.last - from
<1>1. from \in Nat /\ n \in Nat
  OBVIOUS
<1>2. <<>> \in Text /\ 0 \in Nat
  BY DEF Text
<1>3. HubType(type) \in EventType \ {"end", "console_live", "console_event"}
  BY DEF HubType, IsDelta, CoreType, EventType, LiveOnly
<1>4. first \in Seq(ItemState) /\ Len(first) = 1 /\ first[1].type = HubType(type)
  <2>1. Item(HubType(type)) = [type |-> HubType(type), row |-> 0, text |-> <<>>]
    BY DEF Item
  <2> DEFINE i == Item(HubType(type))
  <2>2. i \in ItemState
    BY <1>2, <1>3, <2>1, ItemType
  <2>3. i.type = HubType(type)
    BY <2>1
  <2> HIDE DEF i
  <2>4. <<i>> \in Seq(ItemState) /\ Len(<<i>>) = 1 /\ <<i>>[1] = i
    BY <2>2
  <2> QED
    BY <2>3, <2>4 DEF i
<1>5. /\ live \in Seq(ItemState)
      /\ \A i \in 1..Len(live) : live[i].type = "console_live" /\ live[i].text = d.text
  <2> DEFINE l == [Item("console_live") EXCEPT !.text = d.text]
  <2>1. l = [type |-> "console_live", row |-> 0, text |-> d.text]
    BY LiveItem
  <2>2. "console_live" \in EventType \ {"end"}
    BY DEF EventType, LiveOnly
  <2>3. l \in ItemState
    BY <1>2, <2>1, <2>2, ItemType
  <2>4. l.type = "console_live" /\ l.text = d.text
    BY <2>1
  <2>5. live = <<l>> \/ live = <<>>
    BY DEF LiveItems
  <2> HIDE DEF l, live
  <2>6. CASE live = <<>>
    <3>1. live \in Seq(ItemState) /\ 1..Len(live) = {}
      BY <2>6
    <3> QED
      BY <3>1
  <2>7. CASE live = <<l>>
    <3>1. live \in Seq(ItemState) /\ 1..Len(live) = {1} /\ live[1] = l
      BY <2>3, <2>7
    <3> QED
      BY <2>4, <3>1
  <2> QED
    BY <2>5, <2>6, <2>7
<1>6. /\ rows \in Seq(ItemState) /\ Len(rows) = n
      /\ \A i \in 1..n : rows[i].type = "console_event" /\ rows[i].row = from + i
  <2> DEFINE r(i) == [Item("console_event") EXCEPT !.row = from + i]
  <2>1. "console_event" \in EventType \ {"end"}
    BY DEF EventType
  <2>2. ASSUME NEW i \in 1..n
        PROVE  r(i) \in ItemState /\ r(i).type = "console_event" /\ r(i).row = from + i
    <3>1. r(i) = [type |-> "console_event", row |-> from + i, text |-> <<>>]
      BY RowItem
    <3>2. from + i \in Nat
      BY <1>1
    <3>3. r(i) \in ItemState
      BY <1>2, <2>1, <3>1, <3>2, ItemType
    <3> QED
      BY <3>1, <3>3
  <2>3. rows = [i \in 1..n |-> r(i)]
    BY DEF RowItems
  <2> HIDE DEF r, rows, n
  <2>4. [i \in 1..n |-> r(i)] \in Seq(ItemState) /\ Len([i \in 1..n |-> r(i)]) = n
    BY <1>1, <2>2
  <2>5. \A i \in 1..n : rows[i] = r(i)
    BY <2>3
  <2> QED
    BY <2>2, <2>3, <2>4, <2>5
<1> HIDE DEF first, live, rows, n, from
<1> DEFINE k == Len(live)
<1>7. /\ both \in Seq(ItemState) /\ Len(both) = 1 + k /\ k \in Nat
      /\ \A i \in 1..(1 + k) : both[i] = IF i <= 1 THEN first[i] ELSE live[i - 1]
  <2>1. /\ both \in Seq(ItemState) /\ Len(both) = Len(first) + Len(live)
        /\ \A i \in 1..(Len(first) + Len(live)) :
              both[i] = IF i <= Len(first) THEN first[i] ELSE live[i - Len(first)]
    <3> HIDE DEF k
    <3> QED
      BY <1>4, <1>5, JoinItems
  <2>2. k \in Nat
    BY <1>5
  <2> HIDE DEF both
  <2> QED
    BY <1>4, <2>1, <2>2
<1>8. items = both \o rows
  BY DEF Items, first, live, rows
<1> HIDE DEF both, items, k
<1>9. /\ items \in Seq(ItemState) /\ Len(items) = 1 + k + n
      /\ \A i \in 1..(1 + k + n) :
            items[i] = IF i <= 1 + k THEN both[i] ELSE rows[i - (1 + k)]
  <2>1. /\ items \in Seq(ItemState) /\ Len(items) = Len(both) + Len(rows)
        /\ \A i \in 1..(Len(both) + Len(rows)) :
              items[i] = IF i <= Len(both) THEN both[i] ELSE rows[i - Len(both)]
    BY <1>6, <1>7, <1>8, JoinItems
  <2> QED
    BY <1>6, <1>7, <2>1
<1>10. LiveOf(items, d)
  <2> SUFFICES ASSUME NEW i \in 1..(1 + k + n), items[i].type = "console_live"
               PROVE  IsPrefix(items[i].text, d.text)
    BY <1>9 DEF LiveOf
  <2>1. CASE i = 1
    <3>1. items[i] = first[1]
      <4>1. 1 \in 1..(1 + k + n) /\ 1 \in 1..(1 + k) /\ 1 <= 1 + k /\ 1 <= 1
        BY <1>1, <1>7
      <4>2. items[1] = both[1] /\ both[1] = first[1]
        BY <1>7, <1>9, <4>1
      <4> QED
        BY <2>1, <4>2
    <3> QED
      BY <1>3, <1>4, <3>1
  <2>2. CASE i > 1 /\ i <= 1 + k
    <3>1. i \in 1..(1 + k) /\ i - 1 \in 1..k /\ ~(i <= 1)
      BY <1>1, <1>7, <2>2
    <3>2. items[i] = live[i - 1]
      BY <1>7, <1>9, <2>2, <3>1
    <3>3. items[i].text = d.text
      BY <1>5, <3>1, <3>2 DEF k
    <3>4. IsPrefix(d.text, d.text)
      BY PrefixBegins, BeginsSelf
    <3> QED
      BY <3>3, <3>4
  <2>3. CASE i > 1 + k
    <3>1. i - (1 + k) \in 1..n /\ ~(i <= 1 + k)
      BY <1>1, <1>7, <2>3
    <3>2. items[i] = rows[i - (1 + k)]
      BY <1>9, <3>1
    <3> QED
      BY <1>6, <3>1, <3>2
  <2> QED
    BY <1>1, <1>7, <2>1, <2>2, <2>3
<1>11. ASSUME NEW r \in (from + 1)..d.last PROVE r \in RowsAfter(items, 0)
  <2> DEFINE i == r - from
             j == 1 + k + i
  <2>1. i \in 1..n /\ from + i = r
    BY <1>1 DEF n, from
  <2>2. j \in 1..(1 + k + n) /\ ~(j <= 1 + k) /\ j - (1 + k) = i
    BY <1>1, <1>7, <2>1
  <2> HIDE DEF i, j
  <2>3. items[j] = rows[i]
    BY <1>9, <2>2
  <2>4. items[j].type = "console_event" /\ items[j].row = r
    BY <1>6, <2>1, <2>3
  <2>5. j \in (0 + 1)..Len(items)
    BY <1>9, <2>2
  <2> QED
    BY <2>4, <2>5 DEF RowsAfter
<1> QED
  BY <1>9, <1>10, <1>11 DEF items, from

-----------------------------------------------------------------------------
(* The inductive invariant.                                                *)

Base ==
    /\ ConsoleGood(console) /\ Filed(console, said, part)
    /\ hub \in HubState /\ HubGood(hub, total)
    /\ stream \in [Client -> StreamState] /\ \A c \in Client : Bounded(stream[c])
    /\ page \in [Client -> Page]
    /\ turn \in Turn \cup {0} /\ running \in BOOLEAN /\ exists \in BOOLEAN
    /\ total \in 0..MaxEvents
    /\ running => turn \in Turn /\ exists

(* An open page that no restart has confused.                              *)
Fair(c) == page[c].at # "closed" /\ ~page[c].stale

Pages ==
    /\ \A c \in Client : page[c].at = "closed" => stream[c] = NoStream
    /\ exists => \A c \in Client :
         Fair(c) => PageGood(hub, total, stream[c], page[c], console, {})
    /\ ~exists => /\ hub.history = <<>>
                  /\ \A c \in Client : ~stream[c].listed

FeedInv == Base /\ Pages

LEMMA BaseFacts ==
    ASSUME Base
    PROVE  /\ console \in ConsoleState /\ console.text \in Text /\ console.last \in Nat
           /\ console.rows \in Seq(Row) /\ said \in Text /\ part \in Nat
           /\ hub.next \in Nat \ {0} /\ hub.history \in Seq(Event) /\ hub.evicted \in Nat
           /\ total \in Nat /\ MaxEvents \in Nat
           /\ \A c \in Client : /\ stream[c] \in StreamState /\ page[c] \in Page
                                /\ page[c].last \in Nat /\ page[c].live \in Text
                                /\ page[c].boot \in Nat
<1>1. console \in ConsoleState /\ hub \in HubState /\ MaxEvents \in Nat /\ total \in 0..MaxEvents
  BY FeedAssumption DEF Base, ConsoleGood
<1>2. hub.next \in Nat \ {0} /\ hub.history \in Seq(Event) /\ hub.evicted \in Nat
  BY <1>1 DEF HubState
<1>3. ASSUME NEW c \in Client
      PROVE  /\ stream[c] \in StreamState /\ page[c] \in Page
             /\ page[c].last \in Nat /\ page[c].live \in Text /\ page[c].boot \in Nat
  <2>1. stream[c] \in StreamState /\ page[c] \in Page
    BY DEF Base
  <2> QED
    BY <2>1 DEF Page, Text
<1> QED
  <2>1. said \in Text /\ part \in Nat
    BY BufferFields DEF Base, Filed
  <2> QED
    BY <1>1, <1>2, <1>3, <2>1, ConsoleFields

LEMMA InitInv ==
    ASSUME Init
    PROVE  FeedInv
<1> DEFINE none == <<>>
<1>1. none \in Text /\ none \in Seq(Row) /\ none \in Seq(Event) /\ Len(none) = 0 /\ DOMAIN none = {}
  BY DEF Text
<1>3. Elems(none) = {} /\ Rising(none)
  BY NoElems
<1>4. /\ console = [text |-> none, turn |-> 0, rows |-> none, last |-> 0]
      /\ said = none /\ part = 1
      /\ hub = [next |-> 1, history |-> none, evicted |-> 0]
      /\ stream = [c \in Client |-> NoStream] /\ page = [c \in Client |-> NoPage]
      /\ turn = 0 /\ running = FALSE /\ exists = TRUE /\ total = 0
  BY DEF Init, ConsoleInit, HubInit, NoHub
<1>5. NoStream = [open |-> FALSE, listed |-> FALSE, cursor |-> 0,
                  replay |-> none, queue |-> none, wire |-> none]
  BY DEF NoStream
<1>6. NoPage = [at |-> "closed", last |-> 0, rows |-> {}, live |-> none, boot |-> 0,
                seen |-> {}, missed |-> FALSE, stale |-> FALSE]
  BY DEF NoPage
<1> HIDE DEF none
<1>7. NoStream \in StreamState /\ Bounded(NoStream)
  <2>1. NoStream \in StreamState
    BY <1>1, <1>5 DEF StreamState
  <2>2. NoStream.queue = none /\ NoStream.wire = none
    BY <1>5
  <2> QED
    BY <1>1, <2>1, <2>2, HubAssumption DEF Bounded
<1>8. NoPage \in Page
  BY <1>1, <1>6 DEF Page, Text
<1>9. ConsoleGood(console)
  <2>1. console \in ConsoleState /\ console.rows = none /\ console.text = none
    BY <1>1, <1>4 DEF ConsoleState, Text
  <2>2. OneTurn(console)
    BY <1>1, <2>1 DEF OneTurn
  <2> QED
    BY <1>1, <2>1, <2>2, ConsoleAssumption DEF ConsoleGood
<1>10. hub \in HubState /\ HubGood(hub, 0)
  <2>1. hub \in HubState /\ hub.next = 1 /\ hub.history = none /\ hub.evicted = 0
    BY <1>1, <1>4 DEF HubState
  <2> QED
    BY <1>1, <1>3, <2>1, HubAssumption DEF HubGood
<1>11. Filed(console, said, part)
  <2>1. console.text = none /\ console.rows = none /\ part \in Nat
    BY <1>4
  <2> QED
    BY <1>4, <2>1, NothingFiled DEF none
<1>12. Base
  <2>1. stream \in [Client -> StreamState] /\ \A c \in Client : Bounded(stream[c])
    BY <1>4, <1>7
  <2>2. page \in [Client -> Page]
    BY <1>4, <1>8
  <2>3. /\ turn \in Turn \cup {0} /\ running \in BOOLEAN /\ exists \in BOOLEAN
        /\ total \in 0..MaxEvents /\ ~running
    <3>1. turn = 0 /\ running = FALSE /\ exists = TRUE /\ total = 0
      BY <1>4
    <3>2. 0 \in 0..MaxEvents
      BY FeedAssumption
    <3> QED
      BY <3>1, <3>2
  <2>4. total = 0
    BY <1>4
  <2> QED
    BY <1>9, <1>10, <1>11, <2>1, <2>2, <2>3, <2>4 DEF Base
<1>13. Pages
  <2>1. \A c \in Client : stream[c] = NoStream /\ page[c].at = "closed"
    BY <1>4, <1>6
  <2> QED
    BY <1>4, <2>1 DEF Pages, Fair
<1> QED
  BY <1>12, <1>13 DEF FeedInv

-----------------------------------------------------------------------------
(* A step that publishes.                                                  *)

LEMMA PublishStep ==
    ASSUME FeedInv, exists, NEW type \in CoreType, NEW t \in Turn, PublishType(type, t)
    PROVE  /\ ConsoleGood(console') /\ Filed(console', said', part')
           /\ hub' \in HubState /\ HubGood(hub', total')
           /\ stream' \in [Client -> StreamState] /\ \A c \in Client : Bounded(stream'[c])
           /\ total' \in 0..MaxEvents
           /\ \A c \in Client :
                /\ stream[c] = NoStream => stream'[c] = NoStream
                /\ Fair(c) => PageGood(hub', total', stream'[c], page[c], console', {})
<1> DEFINE d == Recorded(console, type, t)
           items == Items(type, d)
           m == Len(items)
           M == RowsAfter(items, 0)
<1>1. Base /\ Pages
  BY DEF FeedInv
<1>2. /\ ConsoleGood(console) /\ Filed(console, said, part)
      /\ hub \in HubState /\ HubGood(hub, total)
      /\ stream \in [Client -> StreamState] /\ \A c \in Client : Bounded(stream[c])
      /\ page \in [Client -> Page] /\ total \in 0..MaxEvents
  BY <1>1 DEF Base
<1>3. /\ console \in ConsoleState /\ console.text \in Text /\ console.last \in Nat
      /\ said \in Text /\ part \in Nat /\ total \in Nat /\ MaxEvents \in Nat
      /\ \A c \in Client : stream[c] \in StreamState /\ page[c] \in Page
                           /\ page[c].live \in Text
  BY <1>1, BaseFacts
<1>4. /\ Record(type, t) /\ console' = d
      /\ total + m <= MaxEvents /\ Publish(items, total) /\ total' = total + m
  BY DEF PublishType, Record
<1>5. Became(console, d)
  BY <1>2, <1>3, RecordedBecame
<1>8. Filed(console', said', part')
  <2>1. /\ said' = IF IsDelta(type) THEN Append(said, NewDelta(type, t)) ELSE said
        /\ part' = IF IsDelta(type) THEN Passage(t)
                   ELSE IF type \in {"tool_call", "turn_finished"} THEN part + 1 ELSE part
    BY <1>4 DEF Record
  <2> QED
    BY <1>2, <1>4, <2>1, RecordFiled
<1> HIDE DEF d
<1>6. /\ ConsoleGood(d) /\ console.last <= d.last
      /\ RowIds(d) \subseteq RowIds(console) \cup ((console.last + 1)..d.last)
      /\ Begins(console.text, d.text) \/ console.last < d.last \/ Spoken(console.text) = {}
  BY <1>5 DEF Became
<1>7. d \in ConsoleState /\ d.text \in Text /\ d.last \in Nat
  BY <1>6, ConsoleFields DEF ConsoleGood
<1>9. items \in Seq(ItemState) /\ LiveOf(items, d) /\ (console.last + 1)..d.last \subseteq M
  BY <1>3, <1>6, <1>7, ItemsGood
<1> HIDE DEF items, M
<1>10. m \in Nat
  BY <1>9
<1>11. /\ hub' \in HubState /\ stream' \in [Client -> StreamState]
       /\ HubGood(hub', total + m)
       /\ \A c \in Client :
            /\ Bounded(stream'[c])
            /\ stream[c] = NoStream => stream'[c] = NoStream
            /\ \A p \in Page, x \in ConsoleState :
                 /\ LiveOf(items, x)
                 /\ PageGood(hub, total, stream[c], p, x, RowsAfter(items, 0))
                 => PageGood(hub', total + m, stream'[c], p, x, {})
  BY <1>2, <1>3, <1>4, <1>9, PublishAll
<1>12. ASSUME NEW c \in Client, Fair(c)
       PROVE  PageGood(hub', total', stream'[c], page[c], console', {})
  <2> DEFINE s == stream[c]
             p == page[c]
  <2>1. PageGood(hub, total, s, p, console, {})
    BY <1>1, <1>12 DEF Pages
  <2>2. ASSUME NEW r, RowKnown(hub, s, p, r, {}) PROVE RowKnown(hub, s, p, r, M)
    BY <2>2 DEF RowKnown
  <2>3. ASSUME NEW x \in Text, NEW q, TextKnown(hub, s, p, x, q, console.text, {})
        PROVE  TextKnown(hub, s, p, x, q, d.text, M)
    <3>1. CASE IsPrefix(x, console.text) /\ Begins(console.text, d.text)
      <4>1. IsPrefix(x, d.text)
        BY <1>3, <1>7, <3>1, PrefixBegins, BeginsTrans
      <4> QED
        BY <4>1 DEF TextKnown
    <3>2. CASE console.last < d.last
      <4>1. console.last + 1 \in M
        BY <1>3, <1>7, <1>9, <3>2
      <4> QED
        BY <4>1 DEF TextKnown
    <3>3. CASE IsPrefix(x, console.text) /\ Spoken(console.text) = {}
      <4>1. Spoken(x) = {}
        BY <1>3, <3>3, PrefixBegins, BeginsBlank
      <4> QED
        BY <4>1 DEF TextKnown
    <3> QED
      BY <1>6, <2>3, <3>1, <3>2, <3>3 DEF TextKnown
  <2>4. p.at = "loaded" => \A i \in DOMAIN d.rows : RowKnown(hub, s, p, d.rows[i].id, M)
    <3> SUFFICES ASSUME p.at = "loaded", NEW i \in DOMAIN d.rows
                 PROVE  RowKnown(hub, s, p, d.rows[i].id, M)
      OBVIOUS
    <3>1. d.rows[i].id \in RowIds(console) \/ d.rows[i].id \in M
      BY <1>6, <1>9 DEF RowIds
    <3>2. CASE d.rows[i].id \in RowIds(console)
      <4>1. PICK j \in DOMAIN console.rows : d.rows[i].id = console.rows[j].id
        BY <3>2 DEF RowIds
      <4>2. RowKnown(hub, s, p, d.rows[i].id, {})
        BY <2>1, <4>1 DEF PageGood
      <4> QED
        BY <2>2, <4>2
    <3>3. CASE d.rows[i].id \in M
      BY <3>3 DEF RowKnown
    <3> QED
      BY <3>1, <3>2, <3>3
  <2>5. TextKnown(hub, s, p, p.live, p.last, d.text, M)
    <3>1. TextKnown(hub, s, p, p.live, p.last, console.text, {})
      BY <2>1 DEF PageGood
    <3> QED
      BY <1>3, <2>3, <3>1
  <2>6. ASSUME NEW e \in CarriedBy(s), e.type = "console_live"
        PROVE  TextKnown(hub, s, p, e.text, e.id, d.text, M)
    <3>1. e.text \in Text
      <4>1. e \in Event
        BY <1>3, CarriedTold
      <4> QED
        BY <4>1 DEF Event, Text
    <3>2. TextKnown(hub, s, p, e.text, e.id, console.text, {})
      BY <2>1, <2>6 DEF PageGood
    <3> QED
      BY <2>3, <3>1, <3>2
  <2>7. PageGood(hub, total, s, p, d, M)
    BY <2>1, <2>4, <2>5, <2>6 DEF PageGood
  <2>8. p \in Page
    BY <1>3
  <2> QED
    BY <1>4, <1>7, <1>9, <1>11, <2>7, <2>8 DEF M
<1> QED
  BY <1>2, <1>4, <1>6, <1>8, <1>10, <1>11, <1>12

LEMMA PublishKeeps ==
    ASSUME FeedInv, exists, exists' = exists, page' = page,
           NEW type \in CoreType, NEW t \in Turn, PublishType(type, t),
           turn' \in Turn, running' \in BOOLEAN
    PROVE  FeedInv'
<1>1. Base /\ Pages
  BY DEF FeedInv
<1>2. /\ ConsoleGood(console') /\ Filed(console', said', part')
      /\ hub' \in HubState /\ HubGood(hub', total')
      /\ stream' \in [Client -> StreamState] /\ \A c \in Client : Bounded(stream'[c])
      /\ total' \in 0..MaxEvents
      /\ \A c \in Client :
           /\ stream[c] = NoStream => stream'[c] = NoStream
           /\ Fair(c) => PageGood(hub', total', stream'[c], page[c], console', {})
  BY PublishStep
<1>3. page' \in [Client -> Page] /\ exists' \in BOOLEAN /\ exists'
  BY <1>1 DEF Base
<1>4. Base'
  BY <1>2, <1>3 DEF Base
<1>5. Pages'
  BY <1>1, <1>2, <1>3 DEF Pages, Fair
<1> QED
  BY <1>4, <1>5 DEF FeedInv

LEMMA CoreSteps ==
    ASSUME FeedInv, UserMessage \/ CoreSends \/ TurnFinished \/ RuntimeStopped
    PROVE  FeedInv'
<1>1. running \in BOOLEAN /\ turn \in Turn \cup {0} /\ (running => turn \in Turn /\ exists)
  BY DEF FeedInv, Base
<1>2. CASE UserMessage
  <2>1. "user_message" \in CoreType
    BY DEF CoreType
  <2> QED
    BY <1>2, <2>1, PublishKeeps DEF UserMessage
<1>3. CASE CoreSends
  <2>1. PICK type \in {"text_delta", "line_break", "tool_call", "permission_request"} :
           PublishType(type, turn)
    BY <1>3 DEF CoreSends
  <2>2. type \in CoreType
    BY DEF CoreType
  <2> QED
    BY <1>1, <1>3, <2>1, <2>2, PublishKeeps DEF CoreSends
<1>4. CASE TurnFinished
  <2>1. "turn_finished" \in CoreType
    BY DEF CoreType
  <2> QED
    BY <1>1, <1>4, <2>1, PublishKeeps DEF TurnFinished
<1>5. CASE RuntimeStopped
  <2>1. "runtime_status" \in CoreType
    BY DEF CoreType
  <2> QED
    BY <1>1, <1>5, <2>1, PublishKeeps DEF RuntimeStopped
<1> QED
  BY <1>2, <1>3, <1>4, <1>5

-----------------------------------------------------------------------------
(* A stream that sends on, or that ends.                                   *)

LEMMA StreamStep ==
    ASSUME NEW h \in HubState, NEW n, NEW s \in StreamState, NEW t, NEW p, p.last \in Nat,
           NEW c, NEW M, PageGood(h, n, s, p, c, M),
           IF t.open THEN p.at = "loaded" /\ StreamGood(h, n, t, p.last) ELSE t = NoStream,
           CarriedBy(t) \subseteq CarriedBy(s), LosesNone(h, s, h, t, p)
    PROVE  PageGood(h, n, t, p, c, M)
<1>1. \A x \in Coming(h, s) : x.id \in Nat
  BY ComingTold
<1>2. ASSUME NEW x \in CarriedBy(s) PROVE x.id \in Nat /\ p.last <= x.id
  <2>1. s.open
    <3> SUFFICES ASSUME ~s.open PROVE FALSE
      OBVIOUS
    <3>1. s = NoStream
      BY DEF PageGood
    <3> QED
      BY <3>1, NothingCarried
  <2>2. StreamGood(h, n, s, p.last)
    BY <2>1 DEF PageGood
  <2>3. x.id \in Nat /\ p.last < x.id
    BY <2>2, CarriedBetween
  <2> QED
    BY <2>3
<1>3. p.at = "loaded" => \A i \in DOMAIN c.rows : RowKnown(h, t, p, c.rows[i].id, M)
  BY RowStays DEF PageGood
<1>4. TextKnown(h, t, p, p.live, p.last, c.text, M)
  <2>1. TextKnown(h, s, p, p.live, p.last, c.text, M)
    BY DEF PageGood
  <2> QED
    BY <1>1, <2>1, TextStays
<1>5. ASSUME NEW e \in CarriedBy(t), e.type = "console_live"
      PROVE  TextKnown(h, t, p, e.text, e.id, c.text, M)
  <2>1. e \in CarriedBy(s) /\ TextKnown(h, s, p, e.text, e.id, c.text, M)
    BY <1>5 DEF PageGood
  <2>2. e.id \in Nat /\ p.last <= e.id
    BY <1>2, <2>1
  <2> QED
    BY <1>1, <2>1, <2>2, TextStays
<1> QED
  BY <1>3, <1>4, <1>5 DEF PageGood

(* A connection ends: what is no longer in the history is found missing.   *)
LEMMA EndLosesNone ==
    ASSUME NEW h \in HubState, NEW n, NEW s \in StreamState, NEW p, p.last \in Nat,
           StreamGood(h, n, s, p.last)
    PROVE  LosesNone(h, s, h, NoStream, p)
<1>1. h.evicted \in Nat
  BY DEF HubState
<1>2. p.last < h.evicted => Lost(h, NoStream, p)
  <2>1. ~NoStream.listed
    BY DEF NoStream
  <2> QED
    BY <1>1, <2>1, NothingCarried DEF Lost
<1>3. Lost(h, s, p) => Lost(h, NoStream, p)
  BY <1>2 DEF Lost
<1>4. ASSUME NEW e \in Coming(h, s), e.type \notin LiveOnly, p.last < e.id
      PROVE  e \in Coming(h, NoStream) \/ Lost(h, NoStream, p)
  <2>1. CASE e \in Elems(h.history)
    BY <2>1 DEF Coming
  <2>2. CASE e \in CarriedBy(s)
    <3>1. e \in Elems(h.history) \/ e.id <= h.evicted
      BY <1>4, <2>2 DEF StreamGood
    <3>2. e.id \in Nat
      BY <2>2, CarriedTold
    <3>3. e.id <= h.evicted => p.last < h.evicted
      BY <1>1, <1>4, <3>2
    <3> QED
      BY <1>2, <3>1, <3>3 DEF Coming
  <2> QED
    BY <1>4, <2>1, <2>2 DEF Coming
<1> QED
  BY <1>3, <1>4 DEF LosesNone

LEMMA EndGood ==
    ASSUME NEW h \in HubState, NEW n, NEW s \in StreamState, NEW p, p.last \in Nat,
           NEW c, NEW M, PageGood(h, n, s, p, c, M)
    PROVE  PageGood(h, n, NoStream, p, c, M)
<1>1. CASE s.open
  <2>1. StreamGood(h, n, s, p.last)
    BY <1>1 DEF PageGood
  <2>2. ~NoStream.open
    BY DEF NoStream
  <2>3. CarriedBy(NoStream) \subseteq CarriedBy(s)
    BY NothingCarried
  <2> QED
    BY <2>1, <2>2, <2>3, EndLosesNone, StreamStep
<1>2. CASE ~s.open
  BY <1>2 DEF PageGood
<1> QED
  BY <1>1, <1>2

(* The next event of available, or of the queue when available is empty,   *)
(* goes on its way.                                                        *)
LEMMA SendGood ==
    ASSUME NEW h \in HubState, NEW n, NEW s \in StreamState, NEW p, p.last \in Nat,
           NEW c, NEW M, PageGood(h, n, s, p, c, M), s.open,
           NEW t \in StreamState, t.open, t.listed = s.listed, NEW e, e \in CarriedBy(s),
           t.cursor = e.id, t.wire = Append(s.wire, e),
           \/ /\ s.replay # <<>> /\ e = Head(s.replay)
              /\ t.replay = Tail(s.replay) /\ t.queue = s.queue
           \/ /\ s.replay = <<>> /\ s.listed /\ s.queue # <<>> /\ e = Head(s.queue)
              /\ t.replay = s.replay /\ t.queue = Tail(s.queue)
    PROVE  PageGood(h, n, t, p, c, M)
<1> DEFINE last == p.last
<1>1. /\ p.at = "loaded" /\ StreamGood(h, n, s, last)
  BY DEF PageGood
<1>2. /\ s.cursor \in Nat /\ s.replay \in Seq(Event) /\ s.queue \in Seq(Event)
      /\ s.wire \in Seq(Event) /\ e \in Event /\ e.id \in Nat /\ last \in Nat
  BY StreamFields, CarriedTold
<1>3. /\ last <= s.cursor
      /\ Rising(s.wire) /\ \A x \in Elems(s.wire) : last < x.id /\ x.id <= s.cursor
      /\ Rising(s.replay) /\ \A x \in Elems(s.replay) : s.cursor < x.id
      /\ ~s.listed => s.queue = <<End>>
      /\ s.listed => /\ Rising(s.queue)
                     /\ \A x \in Elems(s.queue) : x.type # "end" /\ Beyond(s, x.id)
  BY <1>1 DEF StreamGood
<1>4. \A x \in CarriedBy(s) : x.id \in Nat
  BY CarriedTold
<1>5. s.cursor < e.id
  <2>1. CASE s.replay # <<>> /\ e = Head(s.replay)
    <3>1. e \in Elems(s.replay)
      BY <1>2, <2>1, HeadFirst
    <3> QED
      BY <1>3, <3>1
  <2>2. CASE s.listed /\ s.queue # <<>> /\ e = Head(s.queue)
    <3>1. e \in Elems(s.queue)
      BY <1>2, <2>2, HeadFirst
    <3> QED
      BY <1>3, <2>2, <3>1 DEF Beyond
  <2> QED
    BY <2>1, <2>2
<1>6. /\ Elems(t.wire) = Elems(s.wire) \cup {e} /\ Rising(t.wire)
      /\ \A x \in Elems(t.wire) : last < x.id /\ x.id <= e.id
  <2>1. \A x \in Elems(s.wire) : x \in CarriedBy(s)
    BY DEF CarriedBy
  <2>2. \A x \in Elems(s.wire) : x.id < e.id
    BY <1>2, <1>3, <1>4, <1>5, <2>1
  <2>3. Elems(t.wire) = Elems(s.wire) \cup {e} /\ Rising(t.wire)
    BY <1>2, <1>3, <2>2, Appended
  <2>4. last < e.id
    BY <1>2, <1>3, <1>5
  <2> QED
    BY <1>2, <1>3, <1>4, <2>1, <2>2, <2>3, <2>4
(* The rest of available and of the queue comes after e.                   *)
<1>7. /\ Rising(t.replay) /\ \A x \in Elems(t.replay) : e.id < x.id
      /\ t.listed => /\ Rising(t.queue)
                     /\ \A x \in Elems(t.queue) : x.type # "end" /\ Beyond(t, x.id)
      /\ CarriedBy(t) = CarriedBy(s)
      /\ ~s.listed => \A i : Beyond(s, i) => Beyond(t, i)
  <2>1. CASE s.replay # <<>> /\ e = Head(s.replay) /\ t.replay = Tail(s.replay)
             /\ t.queue = s.queue
    <3>1. /\ e \in Elems(s.replay) /\ Elems(s.replay) = Elems(t.replay) \cup {e}
          /\ Rising(t.replay) /\ \A x \in Elems(t.replay) : e.id < x.id
      BY <1>2, <1>3, <2>1, HeadFirst
    <3>2. \A i : Beyond(s, i) => Beyond(t, i)
      BY <3>1 DEF Beyond
    <3>3. CarriedBy(t) = CarriedBy(s)
      BY <1>6, <2>1, <3>1 DEF CarriedBy
    <3>4. t.listed => /\ Rising(t.queue)
                      /\ \A x \in Elems(t.queue) : x.type # "end" /\ Beyond(t, x.id)
      BY <1>3, <2>1, <3>2
    <3> QED
      BY <3>1, <3>2, <3>3, <3>4
  <2>2. CASE s.replay = <<>> /\ s.listed /\ s.queue # <<>> /\ e = Head(s.queue)
             /\ t.replay = s.replay /\ t.queue = Tail(s.queue)
    <3>1. /\ e \in Elems(s.queue) /\ Elems(s.queue) = Elems(t.queue) \cup {e}
          /\ Rising(t.queue) /\ \A x \in Elems(t.queue) : e.id < x.id
      BY <1>2, <1>3, <2>2, HeadFirst
    <3>2. Elems(t.replay) = {} /\ Rising(t.replay)
      BY <2>2, NoElems
    <3>3. \A i : e.id < i => Beyond(t, i)
      BY <3>2 DEF Beyond
    <3>4. CarriedBy(t) = CarriedBy(s)
      BY <1>6, <2>2, <3>1 DEF CarriedBy
    <3>5. \A x \in Elems(t.queue) : x.type # "end" /\ Beyond(t, x.id)
      BY <1>3, <2>2, <3>1, <3>3
    <3> QED
      BY <2>2, <3>1, <3>2, <3>3, <3>4, <3>5
  <2> QED
    BY <2>1, <2>2
<1>8. ~s.listed => s.replay # <<>>
  OBVIOUS
<1>10. ASSUME NEW x \in Elems(h.history)
       PROVE  /\ last < x.id /\ x.id <= t.cursor => x \in Elems(t.wire)
              /\ t.cursor < x.id => x \in CarriedBy(t) \/ (~t.listed /\ Beyond(t, x.id))
  <2>1. /\ last < x.id /\ x.id <= s.cursor => x \in Elems(s.wire)
        /\ s.cursor < x.id => x \in CarriedBy(s) \/ (~s.listed /\ Beyond(s, x.id))
    BY <1>1 DEF StreamGood
  <2>2. x.id \in Nat
    <3>1. h.history \in Seq(Event)
      BY DEF HubState
    <3> QED
      BY <3>1, ElemsTold DEF Event
  <2>3. ASSUME s.cursor < x.id, x.id <= e.id PROVE x = e
    <3>1. x \in CarriedBy(s)
      <4>1. ~s.listed /\ Beyond(s, x.id) => e.id < x.id
        <5>1. ~s.listed => e \in Elems(s.replay)
          BY <1>2, <1>8, HeadFirst
        <5> QED
          BY <5>1 DEF Beyond
      <4> QED
        BY <1>2, <2>1, <2>2, <2>3, <4>1
    <3>2. x \notin Elems(s.wire)
      BY <1>2, <1>3, <2>2, <2>3
    <3>3. CASE x # e
      <4>1. x \in Elems(t.replay) \/ (t.listed /\ x \in Elems(t.queue))
        BY <1>6, <1>7, <3>1, <3>2, <3>3 DEF CarriedBy
      <4>2. e.id < x.id
        BY <1>7, <4>1 DEF Beyond
      <4> QED
        BY <1>2, <2>2, <2>3, <4>2
    <3> QED
      BY <3>3
  <2>4. ASSUME last < x.id, x.id <= t.cursor PROVE x \in Elems(t.wire)
    BY <1>2, <1>6, <2>1, <2>2, <2>3, <2>4
  <2>5. ASSUME t.cursor < x.id PROVE x \in CarriedBy(t) \/ (~t.listed /\ Beyond(t, x.id))
    <3>1. s.cursor < x.id
      BY <1>2, <1>5, <2>2, <2>5
    <3> QED
      BY <1>3, <1>7, <2>1, <3>1
  <2> QED
    BY <2>4, <2>5
<1>11. ~t.listed => t.queue = <<End>>
  BY <1>3
<1>12. last <= t.cursor /\ t.cursor < h.next
  <2>1. e.id < h.next
    BY <1>1, CarriedBetween
  <2> QED
    BY <1>2, <1>3, <1>5, <2>1
<1>13. StreamGood(h, n, t, last)
  <2>1. \A x \in CarriedBy(t) :
          /\ Known(x, h, n)
          /\ x.type \in LiveOnly \/ x \in Elems(h.history) \/ x.id <= h.evicted
    BY <1>1, <1>7 DEF StreamGood
  <2> QED
    BY <1>6, <1>7, <1>10, <1>11, <1>12, <2>1 DEF StreamGood
<1>14. LosesNone(h, s, h, t, p)
  BY <1>7 DEF LosesNone, Lost, Coming
<1>15. CarriedBy(t) \subseteq CarriedBy(s)
  BY <1>7
<1> QED
  BY <1>1, <1>13, <1>14, <1>15, StreamStep

-----------------------------------------------------------------------------
(* Steps of one page.                                                      *)

LEMMA NoStreamType == NoStream \in StreamState /\ Bounded(NoStream) /\ ~NoStream.open
<1> DEFINE none == <<>>
<1>1. none \in Seq(Event) /\ Len(none) = 0
  OBVIOUS
<1>2. NoStream = [open |-> FALSE, listed |-> FALSE, cursor |-> 0,
                  replay |-> none, queue |-> none, wire |-> none]
  BY DEF NoStream
<1> HIDE DEF none
<1>3. NoStream \in StreamState
  BY <1>1, <1>2 DEF StreamState
<1>4. NoStream.queue = none /\ NoStream.wire = none /\ ~NoStream.open
  BY <1>2
<1>5. Bounded(NoStream)
  BY <1>1, <1>4, HubAssumption DEF Bounded
<1> QED
  BY <1>3, <1>4, <1>5

(* A step that changes one page and its stream.                            *)
LEMMA OnePage ==
    ASSUME FeedInv,
           UNCHANGED <<console, said, part, hub, turn, running, exists, total>>,
           NEW c \in Client, NEW s \in StreamState, NEW p \in Page,
           stream' = [stream EXCEPT ![c] = s], page' = [page EXCEPT ![c] = p],
           Bounded(s), p.at = "closed" => s = NoStream, ~exists => ~s.listed,
           exists /\ p.at # "closed" /\ ~p.stale => PageGood(hub, total, s, p, console, {})
    PROVE  FeedInv'
<1>1. Base /\ Pages
  BY DEF FeedInv
<1>2. stream \in [Client -> StreamState] /\ page \in [Client -> Page]
  BY <1>1 DEF Base
<1>3. /\ stream' \in [Client -> StreamState] /\ page' \in [Client -> Page]
      /\ stream'[c] = s /\ page'[c] = p
      /\ \A d \in Client : d # c => stream'[d] = stream[d] /\ page'[d] = page[d]
  BY <1>2
<1>4. Base'
  <2>1. \A d \in Client : Bounded(stream'[d])
    BY <1>1, <1>3 DEF Base
  <2> QED
    BY <1>1, <1>3, <2>1 DEF Base
<1>5. \A d \in Client : page'[d].at = "closed" => stream'[d] = NoStream
  BY <1>1, <1>3 DEF Pages
<1>6. ASSUME exists, NEW d \in Client, page'[d].at # "closed", ~page'[d].stale
      PROVE  PageGood(hub, total, stream'[d], page'[d], console, {})
  BY <1>1, <1>3, <1>6 DEF Pages, Fair
<1>7. ~exists => hub.history = <<>> /\ \A d \in Client : ~stream'[d].listed
  BY <1>1, <1>3 DEF Pages
<1>8. Pages'
  BY <1>5, <1>6, <1>7 DEF Pages, Fair
<1> QED
  BY <1>4, <1>8 DEF FeedInv

LEMMA PageFields ==
    ASSUME NEW p \in Page
    PROVE  /\ p.last \in Nat /\ p.rows \in SUBSET Nat /\ p.live \in Text /\ p.boot \in Nat
           /\ p.seen \in SUBSET Nat /\ p.missed \in BOOLEAN /\ p.stale \in BOOLEAN
           /\ p.at \in {"closed", "booted", "loaded"}
BY DEF Page, Text

LEMMA OpenedPage ==
    ASSUME NEW last, NEW boot,
           NEW p, p = [NoPage EXCEPT !.at = "booted", !.last = last, !.boot = boot]
    PROVE  p = [at |-> "booted", last |-> last, rows |-> {}, live |-> <<>>, boot |-> boot,
                seen |-> {}, missed |-> FALSE, stale |-> FALSE]
BY DEF NoPage

LEMMA LoadedPage ==
    ASSUME NEW q \in Page, NEW ids, NEW p, p = [q EXCEPT !.at = "loaded", !.rows = ids]
    PROVE  p = [at |-> "loaded", last |-> q.last, rows |-> ids, live |-> q.live,
                boot |-> q.boot, seen |-> q.seen, missed |-> q.missed, stale |-> q.stale]
BY DEF Page

(* get_session.                                                            *)
LEMMA OpenPageStep ==
    ASSUME FeedInv, NEW c \in Client, OpenPage(c)
    PROVE  FeedInv'
<1> DEFINE none == <<>>
           p == [at |-> "booted", last |-> hub.next - 1, rows |-> {}, live |-> none,
                 boot |-> total, seen |-> {}, missed |-> FALSE, stale |-> FALSE]
<1>1. Base /\ Pages
  BY DEF FeedInv
<1>2. /\ hub.next \in Nat \ {0} /\ total \in Nat /\ hub \in HubState /\ HubGood(hub, total)
      /\ hub.history \in Seq(Event) /\ console.text \in Text
  BY <1>1, BaseFacts DEF Base
<1>3. [NoPage EXCEPT !.at = "booted", !.last = hub.next - 1, !.boot = total] = p
  BY OpenedPage
<1>4. none \in Text /\ hub.next - 1 \in Nat
  BY <1>2 DEF Text
<1>5. IsPrefix(none, console.text)
  BY <1>2, <1>4, PrefixBegins DEF Begins
<1> HIDE DEF none
<1>6. p \in Page
  BY <1>2, <1>4 DEF Page, Text
<1>7. /\ p.at = "booted" /\ p.last = hub.next - 1 /\ p.live = none /\ p.boot = total
  OBVIOUS
<1> HIDE DEF p
<1>8. stream[c] = NoStream
  BY <1>1 DEF Pages, OpenPage
<1>9. stream' = [stream EXCEPT ![c] = NoStream]
  <2>1. stream \in [Client -> StreamState] /\ stream' = stream
    BY <1>1 DEF Base, OpenPage
  <2> QED
    BY <1>8, <2>1
<1>10. ASSUME NEW e \in Elems(hub.history), e.no > p.boot PROVE FALSE
  <2>1. e.id \in Nat /\ e.no \in Nat
    BY <1>2, ElemsTold DEF Event
  <2>2. Known(e, hub, total)
    BY <1>2 DEF HubGood
  <2>3. e.id <= hub.next - 1 /\ e.no + hub.next = total + e.id + 1
    BY <1>2, <2>1, <2>2 DEF Known
  <2>4. e.no <= total
    BY <1>2, <2>1, <2>3
  <2> QED
    BY <1>2, <1>7, <1>10, <2>1, <2>4
<1>11. PageGood(hub, total, NoStream, p, console, {})
  <2>1. p.last < hub.next /\ p.at # "loaded"
    BY <1>2, <1>7
  <2>2. TextKnown(hub, NoStream, p, p.live, p.last, console.text, {})
    BY <1>5, <1>7 DEF TextKnown
  <2> QED
    BY <1>10, <2>1, <2>2, NoStreamType, NothingCarried DEF PageGood
<1>12. page' = [page EXCEPT ![c] = p]
  BY <1>3 DEF OpenPage
<1>13. ~NoStream.listed
  BY DEF NoStream
<1>14. UNCHANGED <<console, said, part, hub, turn, running, exists, total>>
  BY DEF OpenPage
<1> QED
  BY <1>6, <1>7, <1>9, <1>11, <1>12, <1>13, <1>14, NoStreamType, OnePage

(* console_history.                                                        *)
LEMMA LoadConsoleStep ==
    ASSUME FeedInv, NEW c \in Client, LoadConsole(c)
    PROVE  FeedInv'
<1> DEFINE q == page[c]
           s == stream[c]
           ids == {console.rows[i].id : i \in DOMAIN console.rows}
           p == [q EXCEPT !.at = "loaded", !.rows = ids]
<1>1. Base /\ Pages
  BY DEF FeedInv
<1>2. q \in Page /\ s \in StreamState /\ Bounded(s) /\ console.rows \in Seq(Row)
  BY <1>1, BaseFacts DEF Base
<1>3. ids \subseteq Nat
  <2>1. \A i \in DOMAIN console.rows : console.rows[i] \in Row
    BY <1>2
  <2> QED
    BY <2>1 DEF Row
<1>4. page' = [page EXCEPT ![c] = p]
  BY <1>1 DEF LoadConsole, Base
<1>5. \A i \in DOMAIN console.rows : console.rows[i].id \in ids
  OBVIOUS
<1> HIDE DEF ids
<1>6. p = [at |-> "loaded", last |-> q.last, rows |-> ids, live |-> q.live, boot |-> q.boot,
           seen |-> q.seen, missed |-> q.missed, stale |-> q.stale]
  BY <1>2, LoadedPage DEF p
<1> HIDE DEF p
<1>7. p \in Page
  BY <1>2, <1>3, <1>6, PageFields DEF Page, Text
<1>8. /\ p.at = "loaded" /\ p.last = q.last /\ p.rows = ids /\ p.live = q.live
      /\ p.boot = q.boot /\ p.seen = q.seen /\ p.missed = q.missed /\ p.stale = q.stale
  BY <1>6
<1>9. q.at = "booted" /\ exists
  BY DEF LoadConsole
<1>10. ASSUME ~p.stale PROVE PageGood(hub, total, s, p, console, {})
  <2>1. PageGood(hub, total, s, q, console, {})
    BY <1>1, <1>8, <1>9, <1>10 DEF Pages, Fair
  <2>2. \A i \in DOMAIN console.rows : RowKnown(hub, s, p, console.rows[i].id, {})
    BY <1>5, <1>8 DEF RowKnown
  <2>3. \A x, i : TextKnown(hub, s, q, x, i, console.text, {})
                  => TextKnown(hub, s, p, x, i, console.text, {})
    BY <1>8 DEF TextKnown, Lost
  <2>4. ~s.open /\ s = NoStream
    BY <1>9, <2>1 DEF PageGood
  <2> QED
    BY <1>8, <2>1, <2>2, <2>3, <2>4 DEF PageGood
<1>11. stream' = [stream EXCEPT ![c] = s]
  BY <1>1 DEF LoadConsole, Base
<1>12. UNCHANGED <<console, said, part, hub, turn, running, exists, total>>
  BY DEF LoadConsole
<1> HIDE DEF s
<1> QED
  BY <1>2, <1>4, <1>7, <1>8, <1>9, <1>10, <1>11, <1>12, OnePage

(* The page is closed, or its connection ends.                             *)
LEMMA ClosePageStep ==
    ASSUME FeedInv, NEW c \in Client, ClosePage(c)
    PROVE  FeedInv'
<1> DEFINE none == <<>>
<1>1. none \in Text
  BY DEF Text
<1>2. NoPage = [at |-> "closed", last |-> 0, rows |-> {}, live |-> none, boot |-> 0,
                seen |-> {}, missed |-> FALSE, stale |-> FALSE]
  BY DEF NoPage
<1> HIDE DEF none
<1>3. NoPage \in Page /\ NoPage.at = "closed"
  BY <1>1, <1>2 DEF Page, Text
<1>4. ~NoStream.listed
  BY DEF NoStream
<1> QED
  BY <1>3, <1>4, NoStreamType, OnePage DEF ClosePage

LEMMA EndStep ==
    ASSUME FeedInv, NEW c \in Client, stream' = [stream EXCEPT ![c] = NoStream],
           UNCHANGED <<console, said, part, hub, turn, running, exists, total, page>>
    PROVE  FeedInv'
<1>1. Base /\ Pages
  BY DEF FeedInv
<1>2. /\ page[c] \in Page /\ page[c].last \in Nat /\ stream[c] \in StreamState /\ hub \in HubState
      /\ page \in [Client -> Page]
  BY <1>1, BaseFacts DEF Base
<1>3. page' = [page EXCEPT ![c] = page[c]]
  BY <1>2
<1>4. exists /\ page[c].at # "closed" /\ ~page[c].stale
      => PageGood(hub, total, NoStream, page[c], console, {})
  BY <1>1, <1>2, EndGood DEF Pages, Fair
<1>5. ~NoStream.listed
  BY DEF NoStream
<1> QED
  BY <1>2, <1>3, <1>4, <1>5, NoStreamType, OnePage

LEMMA SentOn ==
    ASSUME NEW s \in StreamState, NEW e, NEW w, NEW r,
           NEW t, t = [[s EXCEPT !.cursor = e.id, !.wire = w] EXCEPT !.replay = r]
    PROVE  t = [open |-> s.open, listed |-> s.listed, cursor |-> e.id,
                replay |-> r, queue |-> s.queue, wire |-> w]
BY DEF StreamState

LEMMA SentQueued ==
    ASSUME NEW s \in StreamState, NEW e, NEW w, NEW q,
           NEW t, t = [[s EXCEPT !.queue = q] EXCEPT !.cursor = e.id, !.wire = w]
    PROVE  t = [open |-> s.open, listed |-> s.listed, cursor |-> e.id,
                replay |-> s.replay, queue |-> q, wire |-> w]
BY DEF StreamState

LEMMA YieldReplayStep ==
    ASSUME FeedInv, NEW c \in Client, YieldReplay(c),
           UNCHANGED <<console, said, part, turn, running, exists, total, page>>
    PROVE  FeedInv'
<1> DEFINE s == stream[c]
           e == Head(s.replay)
           w == Append(s.wire, e)
           r == Tail(s.replay)
           t == [Sent(s, e) EXCEPT !.replay = r]
<1>1. Base /\ Pages
  BY DEF FeedInv
<1>2. /\ page[c] \in Page /\ page[c].last \in Nat /\ s \in StreamState /\ hub \in HubState
      /\ page \in [Client -> Page] /\ Bounded(s)
  BY <1>1, BaseFacts DEF Base
<1>3. s.open /\ s.replay # <<>> /\ Len(s.wire) < WireMax /\ UNCHANGED hub
  BY DEF YieldReplay
<1>4. stream' = [stream EXCEPT ![c] = t]
  <2>1. t = [Sent(s, e) EXCEPT !.replay = Tail(@)]
    BY <1>2 DEF Sent, StreamState
  <2> QED
    BY <2>1 DEF YieldReplay
<1>5. /\ s.open \in BOOLEAN /\ s.listed \in BOOLEAN /\ s.queue \in Seq(Event)
      /\ s.replay \in Seq(Event) /\ s.wire \in Seq(Event)
  BY <1>2, StreamFields
<1>6. /\ e \in Event /\ r \in Seq(Event) /\ e \in Elems(s.replay)
      /\ w \in Seq(Event) /\ Len(w) = Len(s.wire) + 1 /\ Len(s.wire) \in Nat
  BY <1>3, <1>5, HeadFirst, ElemsTold, Appended
<1>7. t = [[s EXCEPT !.cursor = e.id, !.wire = w] EXCEPT !.replay = r]
  BY DEF Sent
<1>8. e.id \in Nat /\ e \in CarriedBy(s) /\ e = Head(s.replay) /\ r = Tail(s.replay)
      /\ w = Append(s.wire, e)
  <2>1. e.id \in Nat
    BY <1>6 DEF Event
  <2> QED
    BY <1>6, <2>1 DEF CarriedBy
<1> HIDE DEF t, w, r, e
<1>9. t = [open |-> s.open, listed |-> s.listed, cursor |-> e.id,
           replay |-> r, queue |-> s.queue, wire |-> w]
  BY <1>2, <1>7, SentOn, ZenonT(60)
<1> HIDE DEF s
<1>10. /\ t \in StreamState /\ t.open = s.open /\ t.listed = s.listed /\ t.cursor = e.id
       /\ t.replay = r /\ t.queue = s.queue /\ t.wire = w
  BY <1>5, <1>6, <1>8, <1>9 DEF StreamState
<1>11. Bounded(t)
  BY <1>2, <1>3, <1>6, <1>10, HubAssumption DEF Bounded
<1>12. ASSUME exists, page[c].at # "closed", ~page[c].stale
       PROVE  PageGood(hub, total, t, page[c], console, {})
  <2>1. PageGood(hub, total, s, page[c], console, {})
    BY <1>1, <1>12 DEF Pages, Fair, s
  <2> QED
    BY <1>2, <1>3, <1>8, <1>10, <2>1, SendGood
<1>13. page[c].at # "closed"
  BY <1>1, <1>3, NoStreamType DEF Pages, s
<1>14. ~exists => ~t.listed
  BY <1>1, <1>10 DEF Pages, s
<1>15. page' = [page EXCEPT ![c] = page[c]]
  BY <1>2
<1> QED
  BY <1>2, <1>3, <1>4, <1>10, <1>11, <1>12, <1>13, <1>14, <1>15, OnePage

LEMMA YieldQueuedStep ==
    ASSUME FeedInv, NEW c \in Client, YieldQueued(c),
           UNCHANGED <<console, said, part, turn, running, exists, total, page>>
    PROVE  FeedInv'
<1> DEFINE s == stream[c]
           e == Head(s.queue)
           w == Append(s.wire, e)
           r == Tail(s.queue)
           rest == [s EXCEPT !.queue = r]
           sent == Sent(rest, e)
           t == IF e.id > s.cursor THEN sent ELSE rest
<1>1. Base /\ Pages
  BY DEF FeedInv
<1>2. /\ page[c] \in Page /\ page[c].last \in Nat /\ s \in StreamState /\ hub \in HubState
      /\ page \in [Client -> Page] /\ Bounded(s)
  BY <1>1, BaseFacts DEF Base
<1>3. /\ s.open /\ s.replay = <<>> /\ s.queue # <<>> /\ e.type # "end"
      /\ Len(s.wire) < WireMax /\ UNCHANGED hub
  BY DEF YieldQueued
<1>4. stream' = [stream EXCEPT ![c] = t]
  BY DEF YieldQueued
<1>5. /\ s.open \in BOOLEAN /\ s.listed \in BOOLEAN /\ s.queue \in Seq(Event)
      /\ s.replay \in Seq(Event) /\ s.wire \in Seq(Event) /\ s.cursor \in Nat
  BY <1>2, StreamFields
<1>6. /\ e \in Event /\ r \in Seq(Event) /\ e \in Elems(s.queue)
      /\ Len(r) = Len(s.queue) - 1 /\ Len(s.queue) \in Nat
      /\ w \in Seq(Event) /\ Len(w) = Len(s.wire) + 1 /\ Len(s.wire) \in Nat
  BY <1>3, <1>5, HeadFirst, ElemsTold, Appended
<1>7. sent = [[s EXCEPT !.queue = r] EXCEPT !.cursor = e.id, !.wire = w]
  BY <1>2 DEF Sent, StreamState
<1>8. /\ e.id \in Nat /\ e = Head(s.queue) /\ r = Tail(s.queue) /\ w = Append(s.wire, e)
  BY <1>6 DEF Event
<1>9. /\ rest \in StreamState /\ rest.open = s.open /\ rest.listed = s.listed
      /\ rest.queue = r /\ rest.wire = s.wire
  BY <1>2, <1>6 DEF StreamState
<1> HIDE DEF t, w, r, e, rest, sent
<1>10. sent = [open |-> s.open, listed |-> s.listed, cursor |-> e.id,
               replay |-> s.replay, queue |-> r, wire |-> w]
  BY <1>2, <1>7, SentQueued
<1> HIDE DEF s
<1>11. /\ sent \in StreamState /\ sent.open = s.open /\ sent.listed = s.listed
       /\ sent.cursor = e.id
       /\ sent.replay = s.replay /\ sent.queue = r /\ sent.wire = w
  BY <1>5, <1>6, <1>8, <1>10 DEF StreamState
<1>12. t \in StreamState /\ Bounded(t) /\ t.listed = s.listed
  <2>1. Bounded(sent)
    BY <1>2, <1>3, <1>6, <1>11, HubAssumption DEF Bounded
  <2>2. Bounded(rest)
    BY <1>2, <1>6, <1>9, HubAssumption DEF Bounded
  <2> QED
    BY <1>9, <1>11, <2>1, <2>2 DEF t
<1>13. ASSUME exists, page[c].at # "closed", ~page[c].stale
       PROVE  PageGood(hub, total, t, page[c], console, {})
  <2>1. PageGood(hub, total, s, page[c], console, {})
    BY <1>1, <1>13 DEF Pages, Fair, s
  <2>2. StreamGood(hub, total, s, page[c].last)
    BY <1>3, <2>1 DEF PageGood
  <2>3. s.listed
    <3>1. s.queue = <<End>> => e = End
      BY <1>8
    <3>2. End.type = "end"
      BY DEF End
    <3> QED
      BY <1>3, <2>2, <3>1, <3>2 DEF StreamGood
  <2>4. s.cursor < e.id
    BY <1>6, <2>2, <2>3 DEF StreamGood, Beyond
  <2>5. t = sent
    BY <1>5, <1>8, <2>4 DEF t
  <2>6. e \in CarriedBy(s)
    BY <1>6, <2>3 DEF CarriedBy
  <2> QED
    BY <1>2, <1>3, <1>8, <1>11, <2>1, <2>3, <2>5, <2>6, SendGood
<1>14. page[c].at # "closed"
  BY <1>1, <1>3, NoStreamType DEF Pages, s
<1>15. ~exists => ~t.listed
  BY <1>1, <1>12 DEF Pages, s
<1>16. page' = [page EXCEPT ![c] = page[c]]
  BY <1>2
<1> QED
  BY <1>2, <1>3, <1>4, <1>12, <1>13, <1>14, <1>15, <1>16, OnePage

(* session_events.                                                         *)
LEMMA SubscribeGood ==
    ASSUME NEW h \in HubState, NEW n \in Nat, HubGood(h, n), NEW q \in Page, NEW c,
           PageGood(h, n, NoStream, q, c, {}), q.at = "loaded",
           NEW p, p.at = q.at, p.last = q.last, p.rows = q.rows, p.live = q.live,
           p.boot = q.boot, p.seen = q.seen, p.missed = (q.missed \/ h.evicted > q.last),
           NEW t \in StreamState, t.open, t.listed, t.cursor = q.last,
           t.replay = After(h.history, q.last), t.queue = <<>>, t.wire = <<>>
    PROVE  PageGood(h, n, t, p, c, {})
<1>1. /\ h.history \in Seq(Event) /\ h.evicted \in Nat /\ h.next \in Nat /\ q.last \in Nat
  BY PageFields DEF HubState
<1>2. /\ Elems(t.replay) = {e \in Elems(h.history) : e.id > q.last}
      /\ Rising(t.replay)
  BY <1>1, TakenAfter DEF HubGood
<1>3. Elems(t.wire) = {} /\ Elems(t.queue) = {} /\ Rising(t.wire) /\ Rising(t.queue)
  BY NoElems
<1>4. CarriedBy(t) = Elems(t.replay)
  BY <1>3 DEF CarriedBy
<1>5. \A e \in Elems(h.history) : e.id \in Nat /\ Known(e, h, n) /\ e.type \notin LiveOnly
  <2>1. \A e \in Elems(h.history) : e \in Event
    BY <1>1, ElemsTold
  <2> QED
    BY <2>1 DEF Event, HubGood
<1>6. q.last < h.next
  BY DEF PageGood
<1>7. StreamGood(h, n, t, p.last)
  BY <1>1, <1>2, <1>3, <1>4, <1>5, <1>6 DEF StreamGood
<1>8. Lost(h, NoStream, q) => Lost(h, t, p)
  BY <1>1 DEF Lost
<1>9. Coming(h, t) = Coming(h, NoStream)
  BY <1>2, <1>4, NothingCarried DEF Coming
<1>10. \A i \in DOMAIN c.rows : RowKnown(h, t, p, c.rows[i].id, {})
  BY <1>8, <1>9 DEF RowKnown, PageGood
<1>11. TextKnown(h, t, p, p.live, p.last, c.text, {})
  BY <1>8, <1>9 DEF TextKnown, PageGood
<1>12. \A e \in CarriedBy(t) : e.type # "console_live"
  BY <1>2, <1>4, <1>5 DEF LiveOnly
<1> QED
  BY <1>6, <1>7, <1>10, <1>11, <1>12 DEF PageGood

LEMMA ConnectStep ==
    ASSUME FeedInv, NEW c \in Client, Connect(c)
    PROVE  FeedInv'
<1> DEFINE q == page[c]
           none == <<>>
           r == After(hub.history, q.last)
           t == [open |-> TRUE, listed |-> TRUE, cursor |-> q.last,
                 replay |-> r, queue |-> none, wire |-> none]
           m == q.missed \/ hub.evicted > q.last
           p == [q EXCEPT !.missed = m]
<1>1. Base /\ Pages
  BY DEF FeedInv
<1>2. /\ q \in Page /\ q.last \in Nat /\ hub \in HubState /\ HubGood(hub, total)
      /\ total \in Nat /\ hub.history \in Seq(Event) /\ page \in [Client -> Page]
  BY <1>1, BaseFacts DEF Base
<1>3. q.at = "loaded" /\ exists /\ ~stream[c].open /\ UNCHANGED hub
  BY DEF Connect, Subscribe
<1>4. stream' = [stream EXCEPT ![c] = t]
  BY DEF Connect, Subscribe
<1>5. page' = [page EXCEPT ![c] = p]
  BY <1>2 DEF Connect
<1>6. none \in Seq(Event) /\ r \in Seq(Event) /\ Len(none) = 0 /\ none = <<>>
  <2>1. r \in Seq(Event)
    BY <1>2, TakenAfter
  <2>2. none \in Seq(Event) /\ Len(none) = 0 /\ none = <<>>
    OBVIOUS
  <2> QED
    BY <2>1, <2>2
<1>7. m \in BOOLEAN /\ m = (q.missed \/ hub.evicted > q.last) /\ r = After(hub.history, q.last)
  OBVIOUS
<1>8. UNCHANGED <<console, said, part, turn, running, exists, total>>
  BY DEF Connect
<1> HIDE DEF none, r, m
<1>9. /\ p \in Page /\ p.at = q.at /\ p.last = q.last /\ p.rows = q.rows /\ p.live = q.live
      /\ p.boot = q.boot /\ p.seen = q.seen /\ p.missed = m /\ p.stale = q.stale
  BY <1>2, <1>7 DEF Page
<1>10. /\ t \in StreamState /\ t.open /\ t.listed /\ t.cursor = q.last /\ t.replay = r
       /\ t.queue = none /\ t.wire = none
  BY <1>2, <1>6 DEF StreamState
<1> HIDE DEF t, p
<1>11. Bounded(t)
  BY <1>6, <1>10, HubAssumption DEF Bounded
<1>12. ASSUME ~q.stale PROVE PageGood(hub, total, t, p, console, {})
  <2>1. PageGood(hub, total, stream[c], q, console, {})
    BY <1>1, <1>3, <1>12 DEF Pages, Fair
  <2>2. stream[c] = NoStream
    BY <1>3, <2>1 DEF PageGood
  <2> HIDE DEF q
  <2> QED
    BY <1>2, <1>3, <1>6, <1>7, <1>9, <1>10, <2>1, <2>2, SubscribeGood
<1> QED
  BY <1>3, <1>4, <1>5, <1>8, <1>9, <1>10, <1>11, <1>12, OnePage

LEMMA YieldStep ==
    ASSUME FeedInv, NEW c \in Client, Yield(c) \/ ConnectionBreaks(c)
    PROVE  FeedInv'
<1>1. CASE Yield(c) /\ YieldReplay(c)
  BY <1>1, YieldReplayStep DEF Yield
<1>2. CASE Yield(c) /\ YieldQueued(c)
  BY <1>2, YieldQueuedStep DEF Yield
<1>3. CASE Yield(c) /\ StreamReturns(c)
  BY <1>3, EndStep DEF Yield, StreamReturns
<1>4. CASE ConnectionBreaks(c)
  BY <1>4, EndStep DEF ConnectionBreaks, Disconnect
<1> QED
  BY <1>1, <1>2, <1>3, <1>4 DEF Yield

(* The listeners of connectEvents.                                         *)
LEMMA ReceiveGood ==
    ASSUME NEW h \in HubState, NEW n, NEW s \in StreamState, NEW q \in Page, NEW c,
           PageGood(h, n, s, q, c, {}), s.wire # <<>>, NEW e, e = Head(s.wire),
           c.text \in Text,
           NEW t \in StreamState, t.open = s.open, t.listed = s.listed, t.cursor = s.cursor,
           t.replay = s.replay, t.queue = s.queue, t.wire = Tail(s.wire),
           NEW p, p.at = q.at, p.last = e.id, p.boot = q.boot, p.missed = q.missed,
           p.seen = q.seen \cup {e.no},
           p.rows = (IF e.type = "console_event" THEN q.rows \cup {e.row} ELSE q.rows),
           p.live = (IF e.type = "console_event" THEN <<>>
                     ELSE IF e.type = "console_live" THEN e.text ELSE q.live)
    PROVE  PageGood(h, n, t, p, c, {})
<1>1. s.open
  <2> SUFFICES ASSUME ~s.open PROVE FALSE
    OBVIOUS
  <2>1. s = NoStream
    BY DEF PageGood
  <2> QED
    BY <2>1 DEF NoStream
<1>2. StreamGood(h, n, s, q.last) /\ q.at = "loaded"
  BY <1>1 DEF PageGood
<1>3. /\ q.last \in Nat /\ s.wire \in Seq(Event) /\ s.cursor \in Nat /\ h.next \in Nat
      /\ h.evicted \in Nat /\ h.history \in Seq(Event)
  BY PageFields, StreamFields DEF HubState
<1>4. /\ Rising(s.wire) /\ \A x \in Elems(s.wire) : q.last < x.id /\ x.id <= s.cursor
      /\ \A x \in Elems(s.replay) : s.cursor < x.id
      /\ s.listed => \A x \in Elems(s.queue) : Beyond(s, x.id)
  BY <1>2 DEF StreamGood
<1>5. /\ e \in Elems(s.wire) /\ Elems(s.wire) = Elems(t.wire) \cup {e}
      /\ Rising(t.wire) /\ \A x \in Elems(t.wire) : e.id < x.id
  BY <1>3, <1>4, HeadFirst
<1>6. e \in Event /\ e.id \in Nat /\ q.last < e.id /\ e.id <= s.cursor
  <2>1. e \in Event
    BY <1>3, <1>5, ElemsTold
  <2> QED
    BY <1>4, <1>5, <2>1 DEF Event
<1>7. \A i : Beyond(t, i) <=> Beyond(s, i)
  BY DEF Beyond
<1>8. CarriedBy(s) = CarriedBy(t) \cup {e}
  BY <1>5 DEF CarriedBy
<1>9. \A x \in Coming(h, s) : x.id \in Nat
  BY ComingTold
<1>10. \A x \in CarriedBy(t) : e.id < x.id
  <2>1. ASSUME NEW x \in CarriedBy(t) PROVE e.id < x.id
    <3>1. x.id \in Nat
      BY <1>8, <1>9 DEF Coming
    <3>2. CASE x \in Elems(t.wire)
      BY <1>5, <3>2
    <3>3. CASE x \in Elems(s.replay)
      BY <1>3, <1>4, <1>6, <3>1, <3>3
    <3>4. CASE s.listed /\ x \in Elems(s.queue)
      BY <1>3, <1>4, <1>6, <3>1, <3>4 DEF Beyond
    <3> QED
      BY <3>2, <3>3, <3>4 DEF CarriedBy
  <2> QED
    BY <2>1
(* What is still in the history and not on its way has been received.      *)
<1>11. ASSUME NEW x \in Elems(h.history), q.last < x.id, x.id <= e.id
       PROVE  x = e
  <2>1. x.id \in Nat
    BY <1>9 DEF Coming
  <2>2. x.id <= s.cursor
    BY <1>3, <1>6, <1>11, <2>1
  <2>3. x \in Elems(s.wire)
    BY <1>2, <1>11, <2>2 DEF StreamGood
  <2>4. x \in Elems(t.wire) => e.id < x.id
    BY <1>5
  <2> QED
    BY <1>5, <1>6, <1>11, <2>1, <2>3, <2>4
<1>12. ASSUME NEW x \in Elems(h.history), x.no > p.boot, x.id <= p.last PROVE x.no \in p.seen
  <2>1. x.id \in Nat
    BY <1>9 DEF Coming
  <2>2. CASE x.id <= q.last
    BY <1>12, <2>2 DEF PageGood
  <2>3. CASE q.last < x.id
    BY <1>11, <1>12, <2>3
  <2> QED
    BY <1>3, <2>1, <2>2, <2>3
<1>13. StreamGood(h, n, t, p.last)
  <2>1. p.last <= t.cursor /\ t.cursor < h.next
    BY <1>2, <1>6 DEF StreamGood
  <2>2. /\ Rising(t.wire) /\ \A x \in Elems(t.wire) : p.last < x.id /\ x.id <= t.cursor
    BY <1>4, <1>5
  <2>3. /\ Rising(t.replay) /\ \A x \in Elems(t.replay) : t.cursor < x.id
        /\ ~t.listed => t.queue = <<End>>
        /\ t.listed => /\ Rising(t.queue)
                       /\ \A x \in Elems(t.queue) : x.type # "end" /\ Beyond(t, x.id)
    BY <1>2, <1>7 DEF StreamGood
  <2>4. \A x \in CarriedBy(t) :
          /\ Known(x, h, n)
          /\ x.type \in LiveOnly \/ x \in Elems(h.history) \/ x.id <= h.evicted
    BY <1>2, <1>8 DEF StreamGood
  <2>5. ASSUME NEW x \in Elems(h.history)
        PROVE  /\ p.last < x.id /\ x.id <= t.cursor => x \in Elems(t.wire)
               /\ t.cursor < x.id => x \in CarriedBy(t) \/ (~t.listed /\ Beyond(t, x.id))
    <3>1. x.id \in Nat
      BY <1>9 DEF Coming
    <3>2. /\ q.last < x.id /\ x.id <= s.cursor => x \in Elems(s.wire)
          /\ s.cursor < x.id => x \in CarriedBy(s) \/ (~s.listed /\ Beyond(s, x.id))
      BY <1>2 DEF StreamGood
    <3>3. e.id < x.id => x # e /\ q.last < x.id
      BY <1>3, <1>6, <3>1
    <3>4. s.cursor < x.id => x # e
      BY <1>3, <1>6, <3>1
    <3> QED
      BY <1>5, <1>7, <1>8, <3>2, <3>3, <3>4
  <2> QED
    BY <2>1, <2>2, <2>3, <2>4, <2>5 DEF StreamGood
<1>14. Lost(h, s, q) => Lost(h, t, p)
  <2>1. Beyond(s, h.evicted) => e.id < h.evicted
    BY <1>3, <1>6 DEF Beyond
  <2> QED
    BY <1>7, <2>1 DEF Lost
<1>15. \A x \in Coming(h, s) : x \in Coming(h, t) \/ x = e
  BY <1>8 DEF Coming
(* A row whose event is not e is known as before.                          *)
<1>16. ASSUME NEW x \in Coming(h, s), q.last < x.id, x # e
       PROVE  x \in Coming(h, t) /\ p.last < x.id
  <2>1. x \in Coming(h, t) /\ x.id \in Nat
    BY <1>9, <1>15, <1>16
  <2>2. e.id < x.id
    <3>1. CASE x \in CarriedBy(t)
      BY <1>10, <3>1
    <3>2. CASE x \in Elems(h.history)
      BY <1>6, <1>11, <1>16, <2>1, <3>2
    <3> QED
      BY <2>1, <3>1, <3>2 DEF Coming
  <2> QED
    BY <2>1, <2>2
<1>17. \A i \in DOMAIN c.rows : RowKnown(h, t, p, c.rows[i].id, {})
  <2> SUFFICES ASSUME NEW i \in DOMAIN c.rows PROVE RowKnown(h, t, p, c.rows[i].id, {})
    OBVIOUS
  <2> DEFINE r == c.rows[i].id
  <2>1. RowKnown(h, s, q, r, {})
    BY <1>2 DEF PageGood
  <2>2. CASE r \in q.rows \/ Lost(h, s, q)
    BY <1>14, <2>2 DEF RowKnown
  <2>3. ASSUME NEW x \in Coming(h, s), x.type = "console_event", x.row = r, q.last < x.id
        PROVE  RowKnown(h, t, p, r, {})
    <3>1. CASE x = e
      BY <2>3, <3>1 DEF RowKnown
    <3>2. CASE x # e
      BY <1>16, <2>3, <3>2 DEF RowKnown
    <3> QED
      BY <3>1, <3>2
  <2> QED
    BY <2>1, <2>2, <2>3 DEF RowKnown
(* So is a text that was not hidden by e.                                  *)
<1>18. ASSUME NEW x, NEW i \in Nat, TextKnown(h, s, q, x, i, c.text, {}), q.last <= i,
              NEW j \in Nat, i <= j, e.id <= j, e.type # "console_event" \/ e.id <= i,
              i = j \/ (i = q.last /\ j = e.id)
       PROVE  TextKnown(h, t, p, x, j, c.text, {})
  <2>1. CASE IsPrefix(x, c.text) \/ Spoken(x) = {} \/ Lost(h, s, q)
    BY <1>14, <2>1 DEF TextKnown
  <2>2. ASSUME NEW y \in Coming(h, s), y.type = "console_event", i < y.id
        PROVE  TextKnown(h, t, p, x, j, c.text, {})
    <3>1. y.id \in Nat
      BY <1>9
    <3>2. y # e
      BY <1>6, <1>18, <2>2, <3>1
    <3>3. q.last < y.id
      BY <1>3, <1>18, <2>2, <3>1
    <3>4. y \in Coming(h, t) /\ e.id < y.id
      BY <1>16, <3>2, <3>3
    <3>5. j < y.id
      BY <1>18, <2>2, <3>4
    <3> QED
      BY <2>2, <3>4, <3>5 DEF TextKnown
  <2> QED
    BY <1>18, <2>1, <2>2 DEF TextKnown
<1>19. \A x \in CarriedBy(s) : x.type = "console_live" =>
          TextKnown(h, s, q, x.text, x.id, c.text, {})
  BY DEF PageGood
<1>20. TextKnown(h, t, p, p.live, p.last, c.text, {})
  <2>1. CASE e.type = "console_event"
    <3>1. p.live = <<>>
      BY <2>1
    <3>2. <<>> \in Text /\ Len(<<>>) = 0 /\ Len(c.text) \in Nat
      BY DEF Text
    <3>3. IsPrefix(<<>>, c.text)
      BY <3>2, PrefixBegins DEF Begins
    <3> QED
      BY <3>1, <3>3 DEF TextKnown
  <2>2. CASE e.type = "console_live"
    <3>1. TextKnown(h, s, q, e.text, e.id, c.text, {})
      BY <1>8, <1>19, <2>2
    <3>2. q.last <= e.id /\ e.id <= e.id
      BY <1>3, <1>6
    <3>3. TextKnown(h, t, p, e.text, e.id, c.text, {})
      BY <1>6, <1>18, <3>1, <3>2
    <3> QED
      BY <2>2, <3>3
  <2>3. CASE e.type \notin {"console_event", "console_live"}
    <3>1. TextKnown(h, s, q, q.live, q.last, c.text, {})
      BY DEF PageGood
    <3>2. q.last <= q.last /\ q.last <= e.id /\ e.id <= e.id
      BY <1>3, <1>6
    <3>3. TextKnown(h, t, p, q.live, e.id, c.text, {})
      BY <1>3, <1>6, <1>18, <2>3, <3>1, <3>2
    <3> QED
      BY <2>3, <3>3
  <2> QED
    BY <2>1, <2>2, <2>3
<1>21. ASSUME NEW x \in CarriedBy(t), x.type = "console_live"
       PROVE  TextKnown(h, t, p, x.text, x.id, c.text, {})
  <2>1. TextKnown(h, s, q, x.text, x.id, c.text, {})
    BY <1>8, <1>19, <1>21
  <2>2. x.id \in Nat /\ e.id < x.id
    BY <1>8, <1>9, <1>10 DEF Coming
  <2>3. q.last <= x.id /\ x.id <= x.id /\ e.id <= x.id
    BY <1>3, <1>6, <2>2
  <2> QED
    BY <1>18, <2>1, <2>2, <2>3
<1>22. p.last < h.next
  BY <1>2, <1>3, <1>6 DEF StreamGood
<1> QED
  BY <1>1, <1>2, <1>12, <1>13, <1>17, <1>20, <1>21, <1>22 DEF PageGood

LEMMA WireReceived ==
    ASSUME NEW s \in StreamState, NEW w, NEW t, t = [s EXCEPT !.wire = w]
    PROVE  t = [open |-> s.open, listed |-> s.listed, cursor |-> s.cursor,
                replay |-> s.replay, queue |-> s.queue, wire |-> w]
BY DEF StreamState

LEMMA ReceiveStep ==
    ASSUME FeedInv, NEW c \in Client, Receive(c)
    PROVE  FeedInv'
<1> DEFINE q == page[c]
           s == stream[c]
           e == Head(s.wire)
           w == Tail(s.wire)
           t == [s EXCEPT !.wire = w]
           none == <<>>
           rows == IF e.type = "console_event" THEN q.rows \cup {e.row} ELSE q.rows
           live == IF e.type = "console_event" THEN none
                   ELSE IF e.type = "console_live" THEN e.text ELSE q.live
           seen == q.seen \cup {e.no}
           shown == Shown(q, e)
           p == [shown EXCEPT !.last = e.id, !.seen = seen]
<1>1. Base /\ Pages
  BY DEF FeedInv
<1>2. /\ q \in Page /\ s \in StreamState /\ Bounded(s) /\ hub \in HubState
      /\ page \in [Client -> Page] /\ stream \in [Client -> StreamState] /\ console.text \in Text
  BY <1>1, BaseFacts DEF Base
<1>3. s.wire # <<>> /\ s.wire \in Seq(Event)
  BY <1>2, StreamFields DEF Receive
<1>4. e \in Event /\ w \in Seq(Event) /\ Len(w) = Len(s.wire) - 1 /\ Len(s.wire) \in Nat
  BY <1>3, HeadFirst, ElemsTold
<1>5. stream' = [stream EXCEPT ![c] = t]
  BY <1>2 DEF Receive
<1>6. page' = [page EXCEPT ![c] = p]
  <2>1. page' = [page EXCEPT ![c] = [shown EXCEPT !.last = e.id, !.seen = @ \cup {e.no}]]
    BY DEF Receive
  <2>2. shown.seen = q.seen
    BY <1>2 DEF Shown, Page
  <2> HIDE DEF shown
  <2>3. [shown EXCEPT !.last = e.id, !.seen = @ \cup {e.no}] = p
    BY <2>2
  <2> QED
    BY <2>1, <2>3
<1>7. UNCHANGED <<console, said, part, hub, turn, running, exists, total>>
  BY DEF Receive
<1>8. none \in Text /\ none = <<>>
  BY DEF Text
<1>9. e.id \in Nat /\ e.no \in Nat /\ e.row \in Nat /\ e.text \in Text
  BY <1>4 DEF Event, Text
<1>10. /\ q.rows \in SUBSET Nat /\ q.live \in Text /\ q.seen \in SUBSET Nat /\ q.last \in Nat
       /\ q.boot \in Nat /\ q.missed \in BOOLEAN /\ q.stale \in BOOLEAN
       /\ q.at \in {"closed", "booted", "loaded"}
  BY <1>2, PageFields
<1> HIDE DEF none, w, e
<1>11. rows \in SUBSET Nat /\ live \in Text /\ seen \in SUBSET Nat
  BY <1>8, <1>9, <1>10
<1>12. shown = [q EXCEPT !.rows = rows, !.live = live]
  <2>1. q = [at |-> q.at, last |-> q.last, rows |-> q.rows, live |-> q.live, boot |-> q.boot,
             seen |-> q.seen, missed |-> q.missed, stale |-> q.stale]
    BY <1>2 DEF Page
  <2>2. CASE e.type = "console_event"
    BY <1>8, <2>2 DEF Shown
  <2>3. CASE e.type = "console_live"
    BY <2>1, <2>3 DEF Shown
  <2>4. CASE e.type \notin {"console_event", "console_live"}
    BY <2>1, <2>4 DEF Shown
  <2> QED
    BY <2>2, <2>3, <2>4
<1>13. rows = (IF e.type = "console_event" THEN q.rows \cup {e.row} ELSE q.rows)
       /\ live = (IF e.type = "console_event" THEN <<>>
                  ELSE IF e.type = "console_live" THEN e.text ELSE q.live)
       /\ seen = q.seen \cup {e.no}
  BY <1>8
<1> HIDE DEF rows, live, seen, p, t, shown
<1>14. p = [at |-> q.at, last |-> e.id, rows |-> rows, live |-> live,
            boot |-> q.boot, seen |-> seen, missed |-> q.missed, stale |-> q.stale]
  <2>1. p = [shown EXCEPT !.last = e.id, !.seen = seen]
    BY DEF p
  <2>2. q \in Page
    BY <1>2
  <2> DEFINE last == e.id
  <2>3. p = [[q EXCEPT !.rows = rows, !.live = live] EXCEPT !.last = last, !.seen = seen]
    BY <1>12, <2>1
  <2> HIDE DEF q, last
  <2>4. p = [at |-> q.at, last |-> last, rows |-> rows, live |-> live,
             boot |-> q.boot, seen |-> seen, missed |-> q.missed, stale |-> q.stale]
    BY <2>2, <2>3 DEF Page
  <2> QED
    BY <2>4 DEF last
<1>15. t = [open |-> s.open, listed |-> s.listed, cursor |-> s.cursor,
            replay |-> s.replay, queue |-> s.queue, wire |-> w]
  BY <1>2, WireReceived DEF t
<1> HIDE DEF q, s
<1>16. /\ p \in Page /\ p.at = q.at /\ p.last = e.id /\ p.rows = rows /\ p.live = live
       /\ p.boot = q.boot /\ p.seen = seen /\ p.missed = q.missed /\ p.stale = q.stale
  BY <1>9, <1>10, <1>11, <1>14 DEF Page, Text
<1>17. /\ t \in StreamState /\ t.open = s.open /\ t.listed = s.listed /\ t.cursor = s.cursor
       /\ t.replay = s.replay /\ t.queue = s.queue /\ t.wire = w
  BY <1>2, <1>4, <1>15, StreamFields DEF StreamState
<1>18. Bounded(t)
  BY <1>2, <1>4, <1>17, HubAssumption DEF Bounded
<1>19. ASSUME exists, p.at # "closed", ~p.stale
       PROVE  PageGood(hub, total, t, p, console, {})
  <2>1. PageGood(hub, total, s, q, console, {})
    BY <1>1, <1>16, <1>19 DEF Pages, Fair, q, s
  <2>2. e = Head(s.wire) /\ t.wire = Tail(s.wire)
    BY <1>17 DEF e, w, s
  <2>3. /\ p.rows = (IF e.type = "console_event" THEN q.rows \cup {e.row} ELSE q.rows)
        /\ p.live = (IF e.type = "console_event" THEN <<>>
                     ELSE IF e.type = "console_live" THEN e.text ELSE q.live)
        /\ p.seen = q.seen \cup {e.no}
    BY <1>13, <1>16
  <2>4. /\ p.at = q.at /\ p.last = e.id /\ p.boot = q.boot /\ p.missed = q.missed
        /\ t.open = s.open /\ t.listed = s.listed /\ t.cursor = s.cursor
        /\ t.replay = s.replay /\ t.queue = s.queue /\ t \in StreamState
    BY <1>16, <1>17
  <2>5. q \in Page /\ s \in StreamState /\ hub \in HubState /\ s.wire # <<>>
        /\ console.text \in Text
    BY <1>2, <1>3 DEF q, s
  <2> QED
    BY <2>1, <2>2, <2>3, <2>4, <2>5, ReceiveGood, ZenonT(60)
<1>20. p.at # "closed"
  <2>1. NoStream.wire = <<>>
    BY DEF NoStream
  <2> QED
    BY <1>1, <1>3, <1>16, <2>1 DEF Pages, q, s
<1>21. ~exists => ~t.listed
  BY <1>1, <1>17 DEF Pages, s
<1> QED
  BY <1>5, <1>6, <1>7, <1>16, <1>17, <1>18, <1>19, <1>20, <1>21, OnePage

-----------------------------------------------------------------------------
(* The service restarts, and the Session is deleted.                       *)

LEMMA NoHubGood ==
    ASSUME NEW n \in Nat
    PROVE  NoHub \in HubState /\ HubGood(NoHub, n) /\ NoHub.history = <<>>
<1> DEFINE none == <<>>
<1>1. none \in Seq(Event) /\ Len(none) = 0 /\ Elems(none) = {} /\ Rising(none)
  BY NoElems
<1>2. NoHub = [next |-> 1, history |-> none, evicted |-> 0]
  BY DEF NoHub
<1>3. none = <<>>
  OBVIOUS
<1> HIDE DEF none
<1>4. NoHub \in HubState /\ NoHub.next = 1 /\ NoHub.history = none /\ NoHub.evicted = 0
  BY <1>1, <1>2 DEF HubState
<1> QED
  BY <1>1, <1>3, <1>4, HubAssumption DEF HubGood

(* The buffer is empty, and the rows r are what is left.                   *)
LEMMA BufferLost ==
    ASSUME NEW r \in Seq(Row), Len(r) <= StoreLimit, \A i \in DOMAIN r : OneTurn(r[i]),
           NEW last \in Nat,
           NEW d, d = [text |-> <<>>, turn |-> 0, rows |-> r, last |-> last]
    PROVE  ConsoleGood(d) /\ d.text = <<>> /\ d.rows = r
<1> DEFINE none == <<>>
<1>1. none \in Text /\ DOMAIN none = {} /\ d = [text |-> none, turn |-> 0, rows |-> r, last |-> last]
  BY DEF Text
<1>2. none = <<>>
  OBVIOUS
<1> HIDE DEF none
<1>4. d.text = none /\ d.rows = r
  BY <1>1
<1>5. d \in ConsoleState
  BY <1>1 DEF ConsoleState, Text
<1>6. OneTurn(d)
  BY <1>1, <1>4 DEF OneTurn
<1> QED
  BY <1>2, <1>4, <1>5, <1>6 DEF ConsoleGood

LEMMA StaleType ==
    ASSUME NEW p \in Page
    PROVE  [p EXCEPT !.stale = TRUE] \in Page /\ [p EXCEPT !.stale = TRUE].stale
           /\ [p EXCEPT !.stale = TRUE].at = p.at
BY DEF Page

LEMMA RestartStep ==
    ASSUME FeedInv, Restart
    PROVE  FeedInv'
<1> DEFINE c == console
           text == console.text
           cut == SubSeq(said, 1, Len(said) - Len(text))
<1>1. Base /\ Pages
  BY DEF FeedInv
<1>2. /\ ConsoleGood(c) /\ Filed(c, said, part)
      /\ c \in ConsoleState /\ text \in Text /\ c.rows \in Seq(Row) /\ c.last \in Nat
      /\ Len(c.rows) <= StoreLimit /\ \A i \in DOMAIN c.rows : OneTurn(c.rows[i])
  BY <1>1, BaseFacts DEF Base, ConsoleGood
<1>3. /\ hub' = NoHub /\ stream' = [d \in Client |-> NoStream] /\ running' = FALSE
      /\ console' = [console EXCEPT !.text = <<>>, !.turn = 0] /\ said' = cut
      /\ UNCHANGED <<part, turn, exists, total>>
      /\ page' = [d \in Client |-> IF page[d].at = "closed" THEN page[d]
                                   ELSE [page[d] EXCEPT !.stale = TRUE]]
  BY DEF Restart, LoseHub, LoseBuffer
<1>4. console' = [text |-> <<>>, turn |-> 0, rows |-> c.rows, last |-> c.last]
  BY <1>2, <1>3, WithText
<1>5. ConsoleGood(console') /\ console'.text = <<>> /\ console'.rows = c.rows
  BY <1>2, <1>4, BufferLost
<1>6. Filed(console', said', part')
  BY <1>2, <1>3, <1>5, CutFiled
<1>7. \A d \in Client : page[d] \in Page
  BY <1>1, BaseFacts
<1>8. page' \in [Client -> Page]
  BY <1>3, <1>7, StaleType
<1>9. stream' \in [Client -> StreamState] /\ \A d \in Client : Bounded(stream'[d])
  BY <1>3, NoStreamType
<1>10. hub' \in HubState /\ HubGood(hub', total') /\ hub'.history = <<>>
  <2>1. total \in Nat
    BY <1>1, BaseFacts
  <2> QED
    BY <1>3, <2>1, NoHubGood
<1>11. /\ turn' \in Turn \cup {0} /\ running' \in BOOLEAN /\ exists' \in BOOLEAN
       /\ total' \in 0..MaxEvents /\ ~running'
  BY <1>1, <1>3 DEF Base
<1>12. Base'
  BY <1>3, <1>5, <1>6, <1>8, <1>9, <1>10, <1>11 DEF Base
<1>13. ASSUME NEW d \in Client PROVE page'[d].at = "closed" \/ page'[d].stale
  BY <1>3, <1>7, StaleType
<1>14. \A d \in Client : stream'[d] = NoStream /\ ~stream'[d].listed
  BY <1>3 DEF NoStream
<1>15. Pages'
  BY <1>10, <1>13, <1>14 DEF Pages, Fair
<1> QED
  BY <1>12, <1>15 DEF FeedInv

LEMMA UnlistedStream ==
    ASSUME NEW s \in StreamState, NEW t, t = [s EXCEPT !.listed = FALSE]
    PROVE  /\ t \in StreamState /\ ~t.listed /\ t.queue = s.queue /\ t.wire = s.wire
           /\ s = NoStream => t = NoStream
<1>1. t = [open |-> s.open, listed |-> FALSE, cursor |-> s.cursor,
           replay |-> s.replay, queue |-> s.queue, wire |-> s.wire]
  BY DEF StreamState
<1>2. t \in StreamState /\ ~t.listed /\ t.queue = s.queue /\ t.wire = s.wire
  BY <1>1, StreamFields DEF StreamState
<1>3. ASSUME s = NoStream PROVE t = NoStream
  <2> DEFINE none == <<>>
  <2>1. NoStream = [open |-> FALSE, listed |-> FALSE, cursor |-> 0,
                    replay |-> none, queue |-> none, wire |-> none]
    BY DEF NoStream
  <2> HIDE DEF none
  <2>2. /\ s.open = FALSE /\ s.cursor = 0
        /\ s.replay = none /\ s.queue = none /\ s.wire = none
    BY <1>3, <2>1
  <2>3. t = [open |-> FALSE, listed |-> FALSE, cursor |-> 0,
             replay |-> none, queue |-> none, wire |-> none]
    BY <1>1, <2>2
  <2> QED
    BY <2>1, <2>3
<1> QED
  BY <1>2, <1>3

LEMMA EmptiedConsole ==
    ASSUME NEW c \in ConsoleState, NEW d, d = [c EXCEPT !.text = <<>>, !.turn = 0, !.rows = <<>>]
    PROVE  d = [text |-> <<>>, turn |-> 0, rows |-> <<>>, last |-> c.last]
BY DEF ConsoleState

LEMMA DeleteStep ==
    ASSUME FeedInv, DeleteSession
    PROVE  FeedInv'
<1>1. Base /\ Pages
  BY DEF FeedInv
<1>2. /\ ConsoleGood(console) /\ console \in ConsoleState /\ console.last \in Nat
      /\ part \in Nat /\ total \in Nat /\ page \in [Client -> Page]
      /\ \A c \in Client : stream[c] \in StreamState /\ Bounded(stream[c])
  BY <1>1, BaseFacts DEF Base
<1>3. /\ hub' = NoHub /\ stream' = [c \in Client |-> [stream[c] EXCEPT !.listed = FALSE]]
      /\ exists' = FALSE /\ ~running /\ said' = <<>>
      /\ console' = [console EXCEPT !.text = <<>>, !.turn = 0, !.rows = <<>>]
      /\ UNCHANGED <<part, turn, running, total, page>>
  BY DEF DeleteSession, RemoveHub, ClearConsole
<1>4. console' = [text |-> <<>>, turn |-> 0, rows |-> <<>>, last |-> console.last]
  BY <1>2, <1>3, EmptiedConsole
<1>5. ConsoleGood(console') /\ console'.text = <<>> /\ console'.rows = <<>>
  <2> DEFINE none == <<>>
  <2>1. none \in Seq(Row) /\ Len(none) = 0 /\ \A i \in DOMAIN none : OneTurn(none[i])
    OBVIOUS
  <2>2. Len(none) <= StoreLimit
    BY <2>1, ConsoleAssumption
  <2>3. console' = [text |-> <<>>, turn |-> 0, rows |-> none, last |-> console.last]
    BY <1>4
  <2> HIDE DEF none
  <2>4. ConsoleGood(console') /\ console'.text = <<>> /\ console'.rows = none
    BY <1>2, <2>1, <2>2, <2>3, BufferLost
  <2> QED
    BY <2>4 DEF none
<1>6. Filed(console', said', part')
  BY <1>2, <1>3, <1>5, NothingFiled
<1>7. ASSUME NEW c \in Client
      PROVE  /\ stream'[c] \in StreamState /\ Bounded(stream'[c]) /\ ~stream'[c].listed
             /\ stream[c] = NoStream => stream'[c] = NoStream
  <2>1. stream'[c] = [stream[c] EXCEPT !.listed = FALSE]
    BY <1>3
  <2>2. /\ stream'[c] \in StreamState /\ ~stream'[c].listed
        /\ stream'[c].queue = stream[c].queue /\ stream'[c].wire = stream[c].wire
        /\ stream[c] = NoStream => stream'[c] = NoStream
    BY <1>2, <2>1, UnlistedStream
  <2> QED
    BY <1>2, <2>2 DEF Bounded
<1>8. stream' \in [Client -> StreamState]
  BY <1>3, <1>7
<1>9. hub' \in HubState /\ HubGood(hub', total') /\ hub'.history = <<>>
  BY <1>2, <1>3, NoHubGood
<1>10. /\ turn' \in Turn \cup {0} /\ running' \in BOOLEAN /\ exists' \in BOOLEAN
       /\ total' \in 0..MaxEvents /\ ~running' /\ page' \in [Client -> Page]
  BY <1>1, <1>3 DEF Base
<1>11. Base'
  BY <1>5, <1>6, <1>7, <1>8, <1>9, <1>10 DEF Base
<1>12. \A c \in Client : page'[c].at = "closed" => stream'[c] = NoStream
  BY <1>1, <1>3, <1>7 DEF Pages
<1>13. Pages'
  BY <1>3, <1>7, <1>9, <1>12 DEF Pages
<1> QED
  BY <1>11, <1>13 DEF FeedInv

LEMMA NothingHappens ==
    ASSUME FeedInv, UNCHANGED vars
    PROVE  FeedInv'
<1>1. Base'
  BY DEF FeedInv, Base, vars
<1>2. Pages'
  BY DEF FeedInv, Pages, Fair, vars
<1> QED
  BY <1>1, <1>2 DEF FeedInv

LEMMA NextInv ==
    ASSUME FeedInv, [Next]_vars
    PROVE  FeedInv'
<1>1. CASE UserMessage \/ CoreSends \/ TurnFinished \/ RuntimeStopped
  BY <1>1, CoreSteps
<1>2. ASSUME NEW c \in Client,
             OpenPage(c) \/ LoadConsole(c) \/ Connect(c) \/ Receive(c)
             \/ Yield(c) \/ ConnectionBreaks(c) \/ ClosePage(c)
      PROVE  FeedInv'
  <2>1. CASE OpenPage(c)
    BY <2>1, OpenPageStep
  <2>2. CASE LoadConsole(c)
    BY <2>2, LoadConsoleStep
  <2>3. CASE Connect(c)
    BY <2>3, ConnectStep
  <2>4. CASE Receive(c)
    BY <2>4, ReceiveStep
  <2>5. CASE Yield(c) \/ ConnectionBreaks(c)
    BY <2>5, YieldStep
  <2>6. CASE ClosePage(c)
    BY <2>6, ClosePageStep
  <2> QED
    BY <1>2, <2>1, <2>2, <2>3, <2>4, <2>5, <2>6
<1>3. CASE Restart
  BY <1>3, RestartStep
<1>4. CASE DeleteSession
  BY <1>4, DeleteStep
<1>5. CASE Quiet \/ UNCHANGED vars
  BY <1>5, NothingHappens DEF Quiet
<1> QED
  BY <1>1, <1>2, <1>3, <1>4, <1>5 DEF Next

(* FeedInv is inductive: what the hub keeps, what the streams carry and    *)
(* what the pages have received fit together.                              *)
THEOREM FeedInvariant == Spec => []FeedInv
<1>1. Init => FeedInv
  BY InitInv
<1>2. FeedInv /\ [Next]_vars => FeedInv'
  BY NextInv
<1> QED
  BY <1>1, <1>2, PTL DEF Spec

-----------------------------------------------------------------------------
(* What the invariant says of a page, of the console and of the state.     *)

(* The page of c has its place in the hub, and nothing is on its way.      *)
LEMMA NothingComes ==
    ASSUME FeedInv, NEW c \in Client, UpToDate(c)
    PROVE  /\ exists /\ Fair(c) /\ page[c].at = "loaded"
           /\ PageGood(hub, total, stream[c], page[c], console, {})
           /\ ~Lost(hub, stream[c], page[c])
           /\ \A e \in Coming(hub, stream[c]) : ~(page[c].last < e.id)
<1> DEFINE s == stream[c]
           last == page[c].last
<1>1. /\ s.open /\ s.listed /\ s.replay = <<>> /\ s.queue = <<>> /\ s.wire = <<>>
      /\ ~page[c].missed /\ ~page[c].stale
  BY DEF UpToDate, Drained
<1>2. Base /\ Pages
  BY DEF FeedInv
<1>3. exists /\ Fair(c)
  <2>1. s # NoStream
    BY <1>1 DEF NoStream
  <2> QED
    BY <1>1, <1>2, <2>1 DEF Pages, Fair
<1>4. PageGood(hub, total, s, page[c], console, {})
  BY <1>2, <1>3 DEF Pages
<1>5. page[c].at = "loaded" /\ StreamGood(hub, total, s, last)
  BY <1>1, <1>4 DEF PageGood
<1>6. Elems(s.wire) = {} /\ CarriedBy(s) = {}
  BY <1>1, NoElems DEF CarriedBy
<1>7. ~Lost(hub, s, page[c])
  BY <1>1 DEF Lost
<1>8. ASSUME NEW e \in Coming(hub, s), last < e.id PROVE FALSE
  <2>1. e \in Elems(hub.history)
    BY <1>6 DEF Coming
  <2>2. e.id \in Nat /\ s.cursor \in Nat
    BY <1>2, <2>1, BaseFacts, ElemsTold, StreamFields DEF Event
  <2>3. ~(e.id <= s.cursor)
    BY <1>5, <1>6, <1>8, <2>1 DEF StreamGood
  <2>4. ~(s.cursor < e.id)
    BY <1>1, <1>5, <1>6, <2>1 DEF StreamGood
  <2> QED
    BY <2>2, <2>3, <2>4
<1> QED
  BY <1>3, <1>4, <1>5, <1>7, <1>8

LEMMA FairPages ==
    ASSUME FeedInv
    PROVE  EventsReachPage
<1> SUFFICES ASSUME NEW c \in Client, page[c].at # "closed", ~page[c].stale
             PROVE  NonePassed(c)
  BY DEF EventsReachPage
<1>1. Pages
  BY DEF FeedInv
<1>2. CASE ~exists
  <2>1. hub.history = <<>>
    BY <1>1, <1>2 DEF Pages
  <2> QED
    BY <2>1 DEF NonePassed
<1>3. CASE exists
  <2>1. PageGood(hub, total, stream[c], page[c], console, {})
    BY <1>1, <1>3 DEF Pages, Fair
  <2>2. \A i \in DOMAIN hub.history : hub.history[i] \in Elems(hub.history)
    BY DEF Elems
  <2> QED
    BY <2>1, <2>2 DEF PageGood, NonePassed
<1> QED
  BY <1>2, <1>3

LEMMA CompletePages ==
    ASSUME FeedInv
    PROVE  ConsoleReachesPage /\ LiveIsCurrent
<1>1. ASSUME NEW c \in Client, UpToDate(c), NEW i \in DOMAIN console.rows
      PROVE  console.rows[i].id \in page[c].rows
  <2>1. RowKnown(hub, stream[c], page[c], console.rows[i].id, {})
    BY <1>1, NothingComes DEF PageGood
  <2> QED
    BY <1>1, <2>1, NothingComes DEF RowKnown
<1>2. ASSUME NEW c \in Client, UpToDate(c), Spoken(page[c].live) # {}
      PROVE  IsPrefix(page[c].live, console.text)
  <2>1. TextKnown(hub, stream[c], page[c], page[c].live, page[c].last, console.text, {})
    BY <1>2, NothingComes DEF PageGood
  <2> QED
    BY <1>2, <2>1, NothingComes DEF TextKnown
<1> QED
  BY <1>1, <1>2 DEF ConsoleReachesPage, LiveIsCurrent

LEMMA KeptText ==
    ASSUME FeedInv
    PROVE  TextKept
<1> DEFINE rows == console.rows
           text == console.text
           m == Len(said) - Len(text)
<1>1. /\ OneTurn(console) /\ \A i \in DOMAIN rows : OneTurn(rows[i])
      /\ BufferIs(text, said, part) /\ RowsHold(rows, said, m)
  BY DEF FeedInv, Base, ConsoleGood, Filed
<1>2. /\ InOrder(text) /\ \A k \in Numbers(text) : k > m
      /\ \A k \in 1..Len(said) : k \in Numbers(text) \/ k \in 1..m
  BY <1>1, BufferNumbers
<1>3. DOMAIN said = 1..Len(said) /\ m \in Nat
  BY <1>1, BufferFields
<1>4. \A k \in Numbers(text) : k \in Int
  BY <1>1, TextFields DEF Numbers, BufferIs
<1> HIDE DEF rows, text, m
<1>5. /\ \A i \in DOMAIN rows : InOrder(rows[i].text) /\ Numbers(rows[i].text) \subseteq 1..m
      /\ \A i, j \in DOMAIN rows : i < j => Before(rows[i].text, rows[j].text)
      /\ \A k \in 1..m : DroppedFrom(rows, k) \/ (StoredIn(rows, k) <=> DueIn(said, k))
  BY <1>1 DEF RowsHold
<1>6. ASSUME NEW i \in DOMAIN rows PROVE Before(rows[i].text, text)
  <2>1. \A x \in Numbers(rows[i].text), y \in Numbers(text) : x \in 1..m /\ y \in Int /\ y > m
    BY <1>2, <1>4, <1>5
  <2> QED
    BY <1>3, <2>1 DEF Before
<1>7. ASSUME NEW k \in DOMAIN said
      PROVE  k \in Numbers(text) \/ Dropped(k) \/ (Stored(k) <=> Due(k))
  <2>1. Dropped(k) <=> DroppedFrom(rows, k)
    BY DEF Dropped, DroppedFrom, rows
  <2>2. Stored(k) <=> StoredIn(rows, k)
    BY DEF Stored, StoredIn, rows
  <2>3. Due(k) <=> DueIn(said, k)
    BY DEF Due, DueIn
  <2> QED
    BY <1>2, <1>3, <1>5, <2>1, <2>2, <2>3
<1> QED
  BY <1>1, <1>2, <1>5, <1>6, <1>7 DEF TextKept, rows, text

LEMMA Typed ==
    ASSUME FeedInv
    PROVE  TypeOK
<1>1. Base
  BY DEF FeedInv
<1>2. MaxEvents \in Nat
  BY FeedAssumption
<1>4. /\ console \in ConsoleState /\ Len(console.rows) <= StoreLimit
      /\ said \in Seq(Delta) /\ part \in Nat
  BY <1>1, BaseFacts DEF Base, ConsoleGood, Text
<1>5. /\ hub.history \in Seq(Event) /\ Len(hub.history) <= HistoryLimit
      /\ hub.next \in 1..(MaxEvents + 1) /\ hub.evicted \in 0..MaxEvents
  <2>1. /\ hub.history \in Seq(Event) /\ hub.next \in Nat \ {0} /\ hub.evicted \in Nat
        /\ total \in 0..MaxEvents /\ HubGood(hub, total)
    BY <1>1, BaseFacts DEF Base
  <2>2. /\ hub.evicted < hub.next /\ hub.next <= total + 1 /\ Len(hub.history) <= HistoryLimit
    BY <2>1 DEF HubGood
  <2> QED
    BY <1>2, <2>1, <2>2
<1>6. ASSUME NEW c \in Client
      PROVE  /\ stream[c].queue \in Seq(Event) /\ Len(stream[c].queue) <= QueueLimit
             /\ stream[c].wire \in Seq(Event) /\ Len(stream[c].wire) <= WireMax
  <2>1. stream[c] \in StreamState /\ Bounded(stream[c])
    BY <1>1 DEF Base
  <2> QED
    BY <2>1, StreamFields DEF Bounded
<1> QED
  BY <1>1, <1>4, <1>5, <1>6 DEF TypeOK, Base

(* The state keeps its type, and the history ring, the queues of the       *)
(* subscribers and the stored rows keep the limits that _publish and       *)
(* append_console_event enforce.                                           *)
THEOREM FeedTyped == Spec => []TypeOK
<1>1. FeedInv => TypeOK
  BY Typed
<1> QED
  BY <1>1, FeedInvariant, PTL

(* No page gets past a stable event that the history still has: neither    *)
(* the cursor of get_session nor the Last-Event-ID with which stream is    *)
(* called again skips one, as long as the process lives.                   *)
THEOREM NothingIsPassed == Spec => []EventsReachPage
<1>1. FeedInv => EventsReachPage
  BY FairPages
<1> QED
  BY <1>1, FeedInvariant, PTL

(* Between the rows that /console returned and the events after the cursor *)
(* there is no gap: a page that has received everything shows every row,   *)
(* unless the history had moved on before stream was called again, or the  *)
(* process ended while the page was open.                                  *)
THEOREM PagesShowTheRows == Spec => []ConsoleReachesPage
<1>1. FeedInv => ConsoleReachesPage
  BY CompletePages
<1> QED
  BY <1>1, FeedInvariant, PTL

(* A live text that _publish dropped for a full queue leaves no page with  *)
(* the text of a row that is already stored, with the same exceptions and  *)
(* that of text which is nothing but line breaks (_flush_assistant).       *)
THEOREM LiveTextIsCurrent == Spec => []LiveIsCurrent
<1>1. FeedInv => LiveIsCurrent
  BY CompletePages
<1> QED
  BY <1>1, FeedInvariant, PTL

(* ConsoleRecorder stores assistant text once, in order and under its own  *)
(* Turn, and all of it that belongs into a row: not the line breaks at the *)
(* ends of a passage, not what append_console_event cuts, and only as long *)
(* as the row is among the newest.  A restart loses the buffer.            *)
THEOREM TextIsKept == Spec => []TextKept
<1>1. FeedInv => TextKept
  BY KeptText
<1> QED
  BY <1>1, FeedInvariant, PTL
=============================================================================
