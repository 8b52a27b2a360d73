-------------------------- MODULE SchedulerProofs --------------------------
(***************************************************************************)
(* The one-pass loop of selectScheduled computes the relation IsScheduled, *)
(* for every finite candidate set and both strategies, and so ClaimNext of *)
(* the store takes the row the loop returns.  The loop is a recursion over *)
(* the candidates passed; its invariant is proved by induction over them.  *)
(***************************************************************************)
EXTENDS SchedulerLoop, StoreProofs

(* What the loop is given: rows with ids of their own. *)
Sortable(C) ==
  /\ IsFiniteSet(C)
  /\ \A c \in C : c.id \in Nat /\ c.from \in Nat /\ c.priority \in Nat
  /\ \A c, d \in C : c.id = d.id => c = d

(* The channel of sender f in V weighs w, and h is its oldest id. *)
Weighs(V, strat, f, w) ==
  /\ \E m \in V : m.from = f /\ Weight(V, strat, m) = w
  /\ \A n \in V : n.from = f => Weight(V, strat, n) <= w

Heads(V, f, h) ==
  /\ \E m \in V : m.from = f /\ m.id = h
  /\ \A n \in V : n.from = f => h <= n.id

(* r names weight and head of the channel that goes first among V. *)
GoesFirst(V, strat, f, r) ==
  /\ Weighs(V, strat, f, r.weight) /\ Heads(V, f, r.head)
  /\ \A n \in V : n.from # f =>
       \E w, h \in Nat : /\ Weighs(V, strat, n.from, w) /\ Heads(V, n.from, h)
                         /\ r.weight > w \/ (r.weight = w /\ r.head <= h)

BestOf(V, strat, r) ==
  IF V = {} THEN r = NoBest ELSE r.found /\ \E f \in Nat : GoesFirst(V, strat, f, r)

Bests == [found : BOOLEAN, weight : Int, head : Nat]

Accs == [open : BOOLEAN, from : Int, head : Nat, weight : Nat, pos : Nat, best : Bests]

(* The invariant of the loop: the open channel is that of the last         *)
(* candidate passed, and best is right for the channels closed.            *)
LoopInv(V, strat, a) ==
  /\ a \in Accs
  /\ V = {} => a = Start
  /\ V # {} =>
       LET l == Latest(V) IN
       /\ l \in V /\ (\A d \in V : d = l \/ Before(d, l))
       /\ a.open /\ a.from = l.from
       /\ a.pos = Cardinality(ChannelOf(V, l))
       /\ Weighs(V, strat, l.from, a.weight) /\ Heads(V, l.from, a.head)
       /\ BestOf(V \ ChannelOf(V, l), strat, a.best)

-----------------------------------------------------------------------------
(* Channels *)

LEMMA SubsetSortable ==
  ASSUME NEW C, Sortable(C), NEW V \in SUBSET C
  PROVE  Sortable(V) /\ WellFormed(V)
BY FS_Subset DEF Sortable, WellFormed

(* The rows sort: a non-empty set of them has a last one. *)
LEMMA LatestExists ==
  ASSUME NEW C, Sortable(C), NEW V \in SUBSET C, V # {}
  PROVE  Latest(V) \in V /\ \A d \in V : d = Latest(V) \/ Before(d, Latest(V))
<1> DEFINE HasLast(W) == \E c \in W : \A d \in W : d = c \/ Before(d, c)
           Q == {W \in SUBSET C : W # {} => HasLast(W)}
<1>1. ASSUME NEW W \in SUBSET C, \A X \in SUBSET W : X # W => X \in Q
      PROVE  W \in Q
  <2> SUFFICES ASSUME W # {} PROVE HasLast(W)
    OBVIOUS
  <2>1. PICK e \in W : TRUE
    OBVIOUS
  <2>2. CASE W \ {e} = {}
    BY <2>2
  <2>3. CASE W \ {e} # {}
    <3>1. W \ {e} \in Q
      BY <1>1
    <3>2. PICK c \in W \ {e} : \A d \in W \ {e} : d = c \/ Before(d, c)
      BY <2>3, <3>1
    <3>3. \A d \in W : d.from \in Nat /\ d.id \in Nat
      BY DEF Sortable
    <3>4. Before(e, c) \/ Before(c, e)
      BY <3>3 DEF Before, Sortable
    <3>5. CASE Before(e, c)
      BY <3>2, <3>5
    <3>6. CASE Before(c, e)
      <4>1. \A d \in W \ {e} : Before(d, e)
        BY <3>2, <3>3, <3>6 DEF Before
      <4> QED
        BY <4>1
    <3> QED
      BY <3>4, <3>5, <3>6
  <2> QED
    BY <2>2, <2>3
<1>2. \A W \in SUBSET C : W \in Q
  <2> HIDE DEF Q
  <2> QED
    BY <1>1, SubsetInduction DEF Sortable
<1>3. HasLast(V)
  BY <1>2
<1> QED
  BY <1>3 DEF Latest

(* Weight and head of a channel depend on that channel only. *)
LEMMA ChannelLocal ==
  ASSUME NEW V, NEW W, NEW f, {d \in V : d.from = f} = {d \in W : d.from = f}, NEW strat
  PROVE  /\ \A w : Weighs(V, strat, f, w) <=> Weighs(W, strat, f, w)
         /\ \A h : Heads(V, f, h) <=> Heads(W, f, h)
<1>1. ASSUME NEW m, m \in V, m.from = f
      PROVE  m \in W /\ Weight(V, strat, m) = Weight(W, strat, m)
  <2>1. ChannelOf(V, m) = ChannelOf(W, m)
    BY <1>1 DEF ChannelOf
  <2> QED
    BY <1>1, <2>1 DEF Weight, Position
<1>2. ASSUME NEW m, m \in W, m.from = f PROVE m \in V
  BY <1>2
<1> QED
  BY <1>1, <1>2 DEF Weighs, Heads

(* Closing the open channel: the comparison of the code keeps the best of  *)
(* all channels passed, the older head winning a tie (priority.go:138).    *)
LEMMA CloseIsBest ==
  ASSUME NEW C, Sortable(C), NEW V \in SUBSET C, V # {}, NEW strat, NEW a, LoopInv(V, strat, a)
  PROVE  Close(a) \in Bests /\ BestOf(V, strat, Close(a))
<1> DEFINE l == Latest(V)
           K == ChannelOf(V, l)
           W == V \ K
           f == l.from
           r == [found |-> TRUE, weight |-> a.weight, head |-> a.head]
<1>1. /\ a \in Accs /\ a.open /\ l \in V
      /\ Weighs(V, strat, f, a.weight) /\ Heads(V, f, a.head)
      /\ BestOf(W, strat, a.best)
  BY DEF LoopInv
<1>2. /\ f \in Nat /\ \A n \in V : n.id \in Nat /\ n.from \in Nat /\ Weight(V, strat, n) \in Nat
      /\ a.weight \in Nat /\ a.head \in Nat /\ a.best \in Bests /\ a.best.weight \in Int /\ a.best.head \in Nat
  BY <1>1, SubsetSortable, WeightType DEF Sortable, Accs, Bests
<1>3. /\ \A n \in V : n.from # f <=> n \in W
      /\ \A g : g # f => {d \in V : d.from = g} = {d \in W : d.from = g}
  BY DEF ChannelOf
<1>4. ASSUME NEW g, g # f
      PROVE  /\ \A w : Weighs(V, strat, g, w) <=> Weighs(W, strat, g, w)
             /\ \A h : Heads(V, g, h) <=> Heads(W, g, h)
  BY <1>3, <1>4, ChannelLocal
<1> HIDE DEF l, K, W, f
<1>5. r \in Bests /\ r.found = TRUE /\ Close(a) \in {r, a.best}
  BY <1>1, <1>2 DEF Close, Bests
<1>6. CASE W = {}
  <2>1. ~a.best.found
    BY <1>1, <1>6 DEF BestOf, NoBest
  <2>2. Close(a) = r
    BY <1>1, <2>1 DEF Close
  <2>3. GoesFirst(V, strat, f, r)
    BY <1>1, <1>3, <1>6 DEF GoesFirst
  <2> HIDE DEF r
  <2> QED
    BY <1>2, <1>5, <2>2, <2>3 DEF BestOf
<1>7. CASE W # {}
  <2>1. a.best.found /\ \E g \in Nat : GoesFirst(W, strat, g, a.best)
    BY <1>1, <1>7 DEF BestOf
  <2>2. PICK g \in Nat : GoesFirst(W, strat, g, a.best)
    BY <2>1
  <2>3. g # f
    BY <1>3, <2>2 DEF GoesFirst, Heads, W
  <2>4. /\ Weighs(V, strat, g, a.best.weight) /\ Heads(V, g, a.best.head)
    BY <1>4, <2>2, <2>3 DEF GoesFirst
  <2>5. a.best.weight \in Nat
    BY <1>2, <2>4 DEF Weighs
  <2>6. ASSUME NEW n \in V, n.from # f, n.from # g
        PROVE  \E w, h \in Nat : /\ Weighs(V, strat, n.from, w) /\ Heads(V, n.from, h)
                                 /\ a.best.weight > w \/ (a.best.weight = w /\ a.best.head <= h)
    <3>1. PICK w, h \in Nat : /\ Weighs(W, strat, n.from, w) /\ Heads(W, n.from, h)
                              /\ a.best.weight > w \/ (a.best.weight = w /\ a.best.head <= h)
      BY <1>3, <2>2, <2>6 DEF GoesFirst
    <3> QED
      BY <1>4, <2>6, <3>1
  <2>7. CASE a.weight > a.best.weight \/ (a.weight = a.best.weight /\ a.head < a.best.head)
    <3>1. Close(a) = r
      BY <1>1, <2>7 DEF Close
    <3>2. ASSUME NEW n \in V, n.from # f
          PROVE  \E w, h \in Nat : /\ Weighs(V, strat, n.from, w) /\ Heads(V, n.from, h)
                                   /\ a.weight > w \/ (a.weight = w /\ a.head <= h)
      <4>1. CASE n.from = g
        BY <1>2, <2>4, <2>5, <2>7, <4>1
      <4>2. CASE n.from # g
        <5>1. PICK w, h \in Nat : /\ Weighs(V, strat, n.from, w) /\ Heads(V, n.from, h)
                                  /\ a.best.weight > w \/ (a.best.weight = w /\ a.best.head <= h)
          BY <2>6, <3>2, <4>2
        <5>2. a.weight > w \/ (a.weight = w /\ a.head <= h)
          BY <1>2, <2>5, <2>7, <5>1
        <5> QED
          BY <5>1, <5>2
      <4> QED
        BY <4>1, <4>2
    <3>3. GoesFirst(V, strat, f, r)
      BY <1>1, <3>2 DEF GoesFirst
    <3> HIDE DEF r
    <3> QED
      BY <1>2, <1>5, <3>1, <3>3 DEF BestOf
  <2>8. CASE ~(a.weight > a.best.weight \/ (a.weight = a.best.weight /\ a.head < a.best.head))
    <3>1. Close(a) = a.best
      BY <2>1, <2>8 DEF Close
    <3>2. ASSUME NEW n \in V, n.from # g
          PROVE  \E w, h \in Nat : /\ Weighs(V, strat, n.from, w) /\ Heads(V, n.from, h)
                                   /\ a.best.weight > w \/ (a.best.weight = w /\ a.best.head <= h)
      <4>1. CASE n.from = f
        BY <1>1, <1>2, <2>5, <2>8, <4>1
      <4> QED
        BY <2>6, <3>2, <4>1
    <3>3. GoesFirst(V, strat, g, a.best)
      BY <2>4, <3>2 DEF GoesFirst
    <3> QED
      BY <1>1, <1>2, <2>1, <3>1, <3>3 DEF BestOf
  <2> QED
    BY <2>7, <2>8
<1> QED
  BY <1>6, <1>7

(* A row in hand that starts its channel weighs its priority. *)
LEMMA FirstOfChannel ==
  ASSUME NEW C, Sortable(C), NEW V \in SUBSET C, NEW l \in V, ChannelOf(V, l) = {l}, NEW strat
  PROVE  /\ Cardinality(ChannelOf(V, l)) = 1
         /\ Weighs(V, strat, l.from, l.priority) /\ Heads(V, l.from, l.id)
<1>1. l.id \in Nat /\ l.priority \in Nat
  BY DEF Sortable
<1>2. {d \in ChannelOf(V, l) : d.id < l.id} = {}
  BY <1>1
<1>3. Position(V, l) = 0
  BY <1>2, FS_EmptySet DEF Position
<1>4. l.priority * (1 + 0) = l.priority
  BY <1>1
<1>5. Weight(V, strat, l) = l.priority
  BY <1>3, <1>4 DEF Weight
<1>6. \A n \in V : n.from = l.from => n = l
  BY DEF ChannelOf
<1>7. Cardinality({l}) = 1
  BY FS_Singleton
<1>8. l.priority <= l.priority /\ l.id <= l.id
  BY <1>1
<1> QED
  BY <1>5, <1>6, <1>7, <1>8 DEF Weighs, Heads

(* A row that follows others of its channel weighs by its place behind     *)
(* them, and changes no weight of theirs.                                  *)
LEMMA NextOfChannel ==
  ASSUME NEW V, Sortable(V), NEW l, l \in V, NEW strat,
         \A d \in V : d = l \/ Before(d, l),
         NEW U, U = V \ {l}, NEW k, k \in U, k.from = l.from
  PROVE  /\ ChannelOf(V, l) = ChannelOf(U, k) \cup {l}
         /\ l \notin ChannelOf(U, k)
         /\ Weight(V, strat, l) = IF strat = "aged" THEN l.priority * (1 + Cardinality(ChannelOf(U, k)))
                                  ELSE l.priority
         /\ \A n \in ChannelOf(U, k) : Weight(V, strat, n) = Weight(U, strat, n) /\ n.id < l.id
<1>1. \A d \in V : d.id \in Nat /\ d.from \in Nat
  BY DEF Sortable
<1>2. \A n \in ChannelOf(U, k) : n.id < l.id /\ n.from = l.from /\ n \in V /\ n # l
  BY <1>1 DEF Before, ChannelOf
<1>3. ChannelOf(V, l) = ChannelOf(U, k) \cup {l} /\ l \notin ChannelOf(U, k)
  BY DEF ChannelOf
<1>4. {d \in ChannelOf(V, l) : d.id < l.id} = ChannelOf(U, k)
  <2>1. ~(l.id < l.id)
    BY <1>1
  <2> QED
    BY <1>2, <1>3, <2>1
<1>5. ASSUME NEW n \in ChannelOf(U, k)
      PROVE  {d \in ChannelOf(V, n) : d.id < n.id} = {d \in ChannelOf(U, n) : d.id < n.id}
  <2>1. n.id < l.id /\ n.id \in Nat /\ l.id \in Nat
    BY <1>1, <1>2
  <2>2. ~(l.id < n.id)
    BY <2>1
  <2> QED
    BY <2>2 DEF ChannelOf
<1> QED
  BY <1>2, <1>3, <1>4, <1>5 DEF Weight, Position

LEMMA VisitType ==
  ASSUME NEW C, Sortable(C), NEW c \in C, NEW strat, NEW a \in Accs, Close(a) \in Bests
  PROVE  Visit(strat, a, c) \in Accs
<1>1. /\ c.id \in Nat /\ c.from \in Int /\ c.priority \in Nat
      /\ a.head \in Nat /\ a.weight \in Nat /\ a.pos \in Nat /\ a.best \in Bests
  BY DEF Sortable, Accs
<1>2. c.priority * (1 + a.pos) \in Nat /\ c.priority * (1 + 0) \in Nat
  BY <1>1
<1> QED
  BY <1>1, <1>2 DEF Visit, Accs

(* One turn of the loop keeps its invariant. *)
LEMMA VisitKeeps ==
  ASSUME NEW C, Sortable(C), NEW V \in SUBSET C, V # {}, NEW strat,
         NEW a, LoopInv(V \ {Latest(V)}, strat, a)
  PROVE  LoopInv(V, strat, Visit(strat, a, Latest(V)))
<1> DEFINE l == Latest(V)
           U == V \ {l}
           k == Latest(U)
           b == Visit(strat, a, l)
<1>1. l \in V /\ \A d \in V : d = l \/ Before(d, l)
  BY LatestExists
<1>2. a \in Accs /\ U \in SUBSET C
  BY DEF LoopInv
<1>3. Close(a) \in Bests /\ BestOf(U, strat, Close(a))
  <2>1. CASE U = {}
    <3>1. a = Start
      BY <2>1 DEF LoopInv
    <3>2. Close(Start) = NoBest /\ NoBest \in Bests
      BY DEF Start, Close, NoBest, Bests
    <3> QED
      BY <2>1, <3>1, <3>2 DEF BestOf
  <2> QED
    BY <1>2, <2>1, CloseIsBest
<1>4. b \in Accs
  BY <1>1, <1>2, <1>3, VisitType
<1>5. \A d \in V : d.id \in Nat /\ d.from \in Nat /\ d.priority \in Nat
  BY DEF Sortable
<1> HIDE DEF l
<1> SUFFICES LoopInv(V, strat, b)
  BY DEF l
<1>6. CASE a.open /\ a.from = l.from
  <2>1. U # {} /\ k \in U /\ k.from = l.from /\ a.pos = Cardinality(ChannelOf(U, k))
        /\ Weighs(U, strat, k.from, a.weight) /\ Heads(U, k.from, a.head)
        /\ BestOf(U \ ChannelOf(U, k), strat, a.best)
    BY <1>6 DEF LoopInv, Start, l
  <2> HIDE DEF k
  <2> DEFINE w == IF strat = "aged" THEN l.priority * (1 + a.pos) ELSE l.priority
  <2>2. b = [open |-> TRUE, from |-> l.from, head |-> a.head,
             weight |-> IF w > a.weight THEN w ELSE a.weight, pos |-> a.pos + 1, best |-> a.best]
    BY <1>6 DEF Visit
  <2>11. /\ b.open /\ b.from = l.from /\ b.best = a.best /\ b.head = a.head /\ b.pos = a.pos + 1
         /\ b.weight = IF w > a.weight THEN w ELSE a.weight
    BY <2>2
  <2> HIDE DEF b
  <2>3. /\ ChannelOf(V, l) = ChannelOf(U, k) \cup {l} /\ l \notin ChannelOf(U, k)
        /\ Weight(V, strat, l) = w
        /\ \A n \in ChannelOf(U, k) : Weight(V, strat, n) = Weight(U, strat, n) /\ n.id < l.id
    <3>1. Sortable(V) /\ U = V \ {l}
      BY SubsetSortable
    <3> HIDE DEF U, w
    <3>2. /\ ChannelOf(V, l) = ChannelOf(U, k) \cup {l}
          /\ l \notin ChannelOf(U, k)
          /\ Weight(V, strat, l) = IF strat = "aged" THEN l.priority * (1 + Cardinality(ChannelOf(U, k)))
                                   ELSE l.priority
          /\ \A n \in ChannelOf(U, k) : Weight(V, strat, n) = Weight(U, strat, n) /\ n.id < l.id
      BY <1>1, <2>1, <3>1, NextOfChannel
    <3> QED
      BY <2>1, <3>2 DEF w
  <2> HIDE DEF U
  <2>4. V \ ChannelOf(V, l) = U \ ChannelOf(U, k)
    BY <2>3 DEF U
  <2>5. b.pos = Cardinality(ChannelOf(V, l))
    <3>1. IsFiniteSet(ChannelOf(U, k))
      BY <1>2, FS_Subset DEF Sortable, ChannelOf
    <3>2. Cardinality(ChannelOf(U, k) \cup {l}) = Cardinality(ChannelOf(U, k)) + 1
      BY <2>3, <3>1, FS_AddElement
    <3> QED
      BY <2>1, <2>3, <2>11, <3>2
  <2>6. w \in Nat /\ a.weight \in Nat
    <3>1. Weight(V, strat, l) \in Nat
      BY <1>1, SubsetSortable, WeightType
    <3> QED
      BY <1>2, <2>3, <3>1 DEF Accs
  <2> HIDE DEF w
  <2>7. \A n \in V : n.from = l.from <=> n = l \/ n \in ChannelOf(U, k)
    BY <1>1, <2>1 DEF ChannelOf, U
  <2>8. \A n \in ChannelOf(U, k) : Weight(U, strat, n) <= a.weight /\ n \in U /\ Weight(U, strat, n) \in Nat
    BY <1>2, <2>1, SubsetSortable, WeightType DEF Weighs, ChannelOf
  <2>9. Weighs(V, strat, l.from, b.weight)
    <3>1. PICK m \in ChannelOf(U, k) : Weight(U, strat, m) = a.weight
      BY <2>1 DEF Weighs, ChannelOf
    <3>2. \A n \in V : n.from = l.from => Weight(V, strat, n) <= b.weight
      <4>1. w <= b.weight /\ a.weight <= b.weight /\ b.weight \in Nat
        BY <2>6, <2>11
      <4> QED
        BY <2>3, <2>6, <2>7, <2>8, <4>1
    <3>3. b.weight = w \/ b.weight = a.weight
      BY <2>11
    <3> QED
      BY <1>1, <2>3, <2>7, <2>8, <3>1, <3>2, <3>3 DEF Weighs, U
  <2>10. Heads(V, l.from, b.head)
    <3>1. PICK m \in ChannelOf(U, k) : m.id = a.head
      BY <2>1 DEF Heads, ChannelOf
    <3>2. \A n \in ChannelOf(U, k) : a.head <= n.id
      BY <2>1 DEF Heads, ChannelOf
    <3>3. m \in V /\ m.from = l.from /\ m.id < l.id
      BY <2>3, <2>7, <2>8 DEF U
    <3>4. a.head <= l.id
      BY <1>1, <1>5, <3>1, <3>3
    <3> QED
      BY <2>7, <2>11, <3>1, <3>2, <3>3, <3>4 DEF Heads
  <2> QED
    BY <1>1, <1>4, <2>1, <2>4, <2>5, <2>9, <2>10, <2>11 DEF LoopInv, l
<1>7. CASE ~(a.open /\ a.from = l.from)
  <2>1. \A d \in U : d.from # l.from
    <3>1. CASE U = {}
      BY <3>1
    <3>2. CASE U # {}
      <4>1. /\ k \in U /\ (\A d \in U : d = k \/ Before(d, k)) /\ k.from # l.from
        BY <1>7, <3>2 DEF LoopInv, l
      <4> HIDE DEF k
      <4>2. k.from < l.from
        BY <1>1, <1>5, <4>1 DEF Before
      <4>3. \A d \in U : d.from <= k.from
        BY <1>5, <4>1 DEF Before
      <4> QED
        BY <1>1, <1>5, <4>1, <4>2, <4>3
    <3> QED
      BY <3>1, <3>2
  <2>2. ChannelOf(V, l) = {l} /\ V \ ChannelOf(V, l) = U
    BY <1>1, <2>1 DEF ChannelOf
  <2>3. l.priority * (1 + 0) = l.priority /\ l.priority \in Nat
    BY <1>1, <1>5
  <2>4. b = [open |-> TRUE, from |-> l.from, head |-> l.id, weight |-> l.priority, pos |-> 0 + 1,
             best |-> Close(a)]
    <3>1. (IF strat = "aged" THEN l.priority * (1 + 0) ELSE l.priority) = l.priority
      BY <2>3
    <3>2. (IF l.priority > 0 THEN l.priority ELSE 0) = l.priority
      BY <2>3
    <3> QED
      BY <1>7, <3>1, <3>2 DEF Visit
  <2>5. /\ Cardinality(ChannelOf(V, l)) = 1
        /\ Weighs(V, strat, l.from, l.priority) /\ Heads(V, l.from, l.id)
    BY <1>1, <2>2, FirstOfChannel
  <2>6. /\ b.open /\ b.from = l.from /\ b.pos = 1 /\ b.weight = l.priority /\ b.head = l.id /\ b.best = Close(a)
    BY <2>4
  <2> HIDE DEF b, U
  <2> QED
    BY <1>1, <1>3, <1>4, <2>2, <2>5, <2>6 DEF LoopInv, l
<1> QED
  BY <1>6, <1>7

-----------------------------------------------------------------------------
(* The whole loop *)

LEMMA CloseType ==
  ASSUME NEW a \in Accs
  PROVE  Close(a) \in Bests
BY DEF Close, Accs, Bests

(* The loop's accumulator is the function its recursion describes. *)
LEMMA PassedStep ==
  ASSUME NEW C, Sortable(C), NEW strat
  PROVE  \A V \in SUBSET C :
           Passed(C, strat)[V] = IF V = {} THEN Start
                                 ELSE Visit(strat, Passed(C, strat)[V \ {Latest(V)}], Latest(V))
<1> DEFINE step == [V \in SUBSET C |-> [a \in Accs |-> IF V = {} THEN a ELSE Visit(strat, a, Latest(V))]]
           last == [V \in SUBSET C |-> Latest(V)]
<1>1. Start \in Accs
  BY DEF Start, Accs, NoBest, Bests
<1>2. \A V \in SUBSET C : V # {} => Latest(V) \in V
  BY LatestExists
<1>3. step \in [SUBSET C -> [Accs -> Accs]]
  <2>1. ASSUME NEW V \in SUBSET C, V # {}, NEW a \in Accs PROVE Visit(strat, a, Latest(V)) \in Accs
    BY <1>2, <2>1, CloseType, VisitType
  <2> QED
    BY <2>1
<1>4. PICK f \in [SUBSET C -> Accs] : Recurs(f, C, Start, step, last)
  <2>1. Picks(C, last)
    BY <1>2 DEF Picks
  <2>2. IsFiniteSet(C)
    BY DEF Sortable
  <2> HIDE DEF step, last
  <2> QED
    BY <1>1, <1>3, <2>1, <2>2, SubsetRecursion
<1>5. f = [V \in SUBSET C |-> IF V = {} THEN Start ELSE Visit(strat, f[V \ {Latest(V)}], Latest(V))]
  <2>1. ASSUME NEW V \in SUBSET C, V # {}
        PROVE  step[V][f[V \ {last[V]}]] = Visit(strat, f[V \ {Latest(V)}], Latest(V))
    BY <2>1
  <2> HIDE DEF step, last
  <2>2. \A V \in SUBSET C : f[V] = IF V = {} THEN Start ELSE Visit(strat, f[V \ {Latest(V)}], Latest(V))
    BY <1>4, <2>1 DEF Recurs
  <2>3. f = [V \in SUBSET C |-> f[V]]
    BY <1>4
  <2>4. [V \in SUBSET C |-> f[V]] =
        [V \in SUBSET C |-> IF V = {} THEN Start ELSE Visit(strat, f[V \ {Latest(V)}], Latest(V))]
    BY <2>2
  <2> QED
    BY <2>3, <2>4
<1> DEFINE g == CHOOSE h : h = [V \in SUBSET C |-> IF V = {} THEN Start
                                ELSE Visit(strat, h[V \ {Latest(V)}], Latest(V))]
<1>6. g = [V \in SUBSET C |-> IF V = {} THEN Start ELSE Visit(strat, g[V \ {Latest(V)}], Latest(V))]
  BY <1>5
<1>7. Passed(C, strat) = g
  BY DEF Passed
<1> HIDE DEF g
<1> QED
  BY <1>6, <1>7

(* Whatever the loop has passed, its invariant holds. *)
LEMMA PassedInv ==
  ASSUME NEW C, Sortable(C), NEW strat, NEW V \in SUBSET C
  PROVE  LoopInv(V, strat, Passed(C, strat)[V])
<1> DEFINE Q == {W \in SUBSET C : LoopInv(W, strat, Passed(C, strat)[W])}
<1>1. ASSUME NEW W \in SUBSET C, \A X \in SUBSET W : X # W => X \in Q
      PROVE  W \in Q
  <2>1. CASE W = {}
    <3>1. Passed(C, strat)[W] = Start
      BY <2>1, PassedStep
    <3>2. Start \in Accs
      BY DEF Start, Accs, NoBest, Bests
    <3> QED
      BY <2>1, <3>1, <3>2 DEF LoopInv
  <2>2. CASE W # {}
    <3> DEFINE U == W \ {Latest(W)}
    <3>1. Latest(W) \in W
      BY <2>2, LatestExists
    <3>2. LoopInv(U, strat, Passed(C, strat)[U])
      <4>1. U \in Q
        BY <1>1, <3>1
      <4> QED
        BY <4>1
    <3>3. Passed(C, strat)[W] = Visit(strat, Passed(C, strat)[U], Latest(W))
      BY <2>2, PassedStep
    <3> QED
      BY <2>2, <3>2, <3>3, VisitKeeps
  <2> QED
    BY <2>1, <2>2
<1>2. \A W \in SUBSET C : W \in Q
  <2> HIDE DEF Q
  <2> QED
    BY <1>1, SubsetInduction DEF Sortable
<1> QED
  BY <1>2

(* What the loop returns: nothing for no candidates, otherwise weight and  *)
(* head of the channel that goes first.                                    *)
LEMMA SelectIsBest ==
  ASSUME NEW C, Sortable(C), NEW strat
  PROVE  BestOf(C, strat, SelectScheduled(C, strat))
<1> DEFINE a == Passed(C, strat)[C]
<1>1. LoopInv(C, strat, a)
  BY PassedInv
<1>2. CASE C = {}
  <2>1. a = Start
    BY <1>1, <1>2 DEF LoopInv
  <2>2. Close(Start) = NoBest
    BY DEF Close, Start
  <2> QED
    BY <1>2, <2>1, <2>2 DEF SelectScheduled, BestOf
<1>3. CASE C # {}
  BY <1>1, <1>3, CloseIsBest DEF SelectScheduled
<1> QED
  BY <1>2, <1>3

(* The head of the channel that goes first is scheduled. *)
LEMMA FirstIsScheduled ==
  ASSUME NEW C, Sortable(C), NEW strat, NEW f, NEW r, GoesFirst(C, strat, f, r)
  PROVE  \E c \in C : c.id = r.head /\ IsScheduled(C, strat, c)
<1>1. \A n \in C : n.id \in Nat /\ Weight(C, strat, n) \in Nat
  BY SubsetSortable, WeightType DEF Sortable
<1>2. PICK c \in C : c.from = f /\ c.id = r.head
  BY DEF GoesFirst, Heads
<1>3. PICK m \in C : m.from = f /\ Weight(C, strat, m) = r.weight
  BY DEF GoesFirst, Weighs
<1>4. m \in ChannelOf(C, c)
  BY <1>2, <1>3 DEF ChannelOf
<1>5. ASSUME NEW d \in C, d.from = f
      PROVE  WeighsAtLeast(C, strat, c, d) /\ c.id <= d.id
  <2>1. ChannelOf(C, d) = ChannelOf(C, c)
    BY <1>2, <1>5 DEF ChannelOf
  <2>2. \A n \in ChannelOf(C, d) : Weight(C, strat, n) >= Weight(C, strat, n)
    BY <1>1 DEF ChannelOf
  <2> QED
    BY <1>2, <1>5, <2>1, <2>2 DEF WeighsAtLeast, GoesFirst, Heads
<1>6. ASSUME NEW d \in C, d.from # f
      PROVE  Outweighs(C, strat, c, d) \/ (WeighsAtLeast(C, strat, c, d) /\ c.id <= d.id)
  <2>1. PICK w, h \in Nat : /\ Weighs(C, strat, d.from, w) /\ Heads(C, d.from, h)
                            /\ r.weight > w \/ (r.weight = w /\ r.head <= h)
    BY <1>6 DEF GoesFirst
  <2>2. \A n \in ChannelOf(C, d) : Weight(C, strat, n) <= w /\ Weight(C, strat, n) \in Nat
    BY <1>1, <2>1 DEF Weighs, ChannelOf
  <2>3. h <= d.id /\ d.id \in Nat
    BY <1>1, <2>1 DEF Heads
  <2>4. r.weight \in Nat /\ r.head \in Nat
    BY <1>1, <1>2, <1>3
  <2>5. CASE r.weight > w
    <3>1. \A n \in ChannelOf(C, d) : Weight(C, strat, m) > Weight(C, strat, n)
      BY <1>3, <2>2, <2>4, <2>5
    <3> QED
      BY <1>4, <3>1 DEF Outweighs
  <2>6. CASE r.weight = w /\ r.head <= h
    <3>1. \A n \in ChannelOf(C, d) : Weight(C, strat, m) >= Weight(C, strat, n)
      BY <1>3, <2>2, <2>4, <2>6
    <3> QED
      BY <1>2, <1>4, <2>3, <2>4, <2>6, <3>1 DEF WeighsAtLeast
  <2> QED
    BY <2>1, <2>5, <2>6
<1> QED
  BY <1>2, <1>5, <1>6 DEF IsScheduled

(* At most one candidate is scheduled. *)
LEMMA ScheduledIsUnique ==
  ASSUME NEW C, Sortable(C), NEW strat,
         NEW c, IsScheduled(C, strat, c), NEW d, IsScheduled(C, strat, d)
  PROVE  c = d
<1>1. c \in C /\ d \in C
  BY DEF IsScheduled
<1>2. \A n \in C : n.id \in Nat /\ Weight(C, strat, n) \in Nat
  BY SubsetSortable, WeightType DEF Sortable
<1>3. ASSUME NEW x \in C, NEW y \in C, Outweighs(C, strat, x, y)
      PROVE  ~Outweighs(C, strat, y, x) /\ ~WeighsAtLeast(C, strat, y, x)
  <2>1. PICK m \in ChannelOf(C, x) : \A n \in ChannelOf(C, y) : Weight(C, strat, m) > Weight(C, strat, n)
    BY <1>3 DEF Outweighs
  <2>2. m \in C /\ x \in ChannelOf(C, x) /\ \A n \in ChannelOf(C, y) : n \in C
    BY DEF ChannelOf
  <2>3. ~WeighsAtLeast(C, strat, y, x)
    BY <1>2, <2>1, <2>2 DEF WeighsAtLeast
  <2>4. ~Outweighs(C, strat, y, x)
    <3> SUFFICES ASSUME NEW n \in ChannelOf(C, y),
                        \A k \in ChannelOf(C, x) : Weight(C, strat, n) > Weight(C, strat, k)
                 PROVE  FALSE
      BY DEF Outweighs
    <3>1. Weight(C, strat, n) > Weight(C, strat, m) /\ Weight(C, strat, m) > Weight(C, strat, n)
      BY <2>1
    <3> QED
      BY <1>2, <2>2, <3>1
  <2> QED
    BY <2>3, <2>4
<1>4. c.id = d.id
  BY <1>1, <1>2, <1>3 DEF IsScheduled
<1> QED
  BY <1>1, <1>4 DEF Sortable

(* For every finite set of candidates and either strategy, the code's loop *)
(* finds a message exactly when there is one, and it is the one candidate  *)
(* the relation admits, so the relation is a function (selectScheduled,    *)
(* priority.go:102).                                                       *)
THEOREM LoopComputesRelation ==
  ASSUME NEW C, Sortable(C), NEW strat
  PROVE  LET r == SelectScheduled(C, strat)
         IN IF C = {} THEN ~r.found
            ELSE r.found /\ {c.id : c \in {c \in C : IsScheduled(C, strat, c)}} = {r.head}
<1> DEFINE r == SelectScheduled(C, strat)
<1>1. BestOf(C, strat, r)
  BY SelectIsBest
<1> HIDE DEF r
<1>2. CASE C = {}
  BY <1>1, <1>2 DEF BestOf, NoBest, r
<1>3. CASE C # {}
  <2>1. r.found /\ \E f \in Nat : GoesFirst(C, strat, f, r)
    BY <1>1, <1>3 DEF BestOf
  <2>2. PICK c \in C : c.id = r.head /\ IsScheduled(C, strat, c)
    BY <2>1, FirstIsScheduled
  <2>3. {d \in C : IsScheduled(C, strat, d)} = {c}
    BY <2>2, ScheduledIsUnique
  <2>4. {d.id : d \in {d \in C : IsScheduled(C, strat, d)}} = {r.head}
    BY <2>2, <2>3
  <2> QED
    BY <1>3, <2>1, <2>4 DEF r
<1> QED
  BY <1>2, <1>3

-----------------------------------------------------------------------------
(* The queue of SchedulerLoop, and the store *)

QueueInv ==
  /\ arrived \in Nat
  /\ IsFiniteSet(queue)
  /\ \A c \in queue : c.id \in 1..arrived /\ c.from \in Senders /\ c.priority \in Priorities
  /\ \A c, d \in queue : c.id = d.id => c = d

LEMMA QueueSortable == QueueInv => Sortable(queue)
<1> SUFFICES ASSUME QueueInv PROVE Sortable(queue)
  OBVIOUS
<1>1. \A c \in queue : c.from \in Nat
  BY SendersAssumption DEF QueueInv
<1>2. \A c \in queue : c.id \in Nat /\ c.priority \in Nat
  BY DEF QueueInv, Priorities
<1> QED
  BY <1>1, <1>2 DEF QueueInv, Sortable

LEMMA QueueStep == QueueInv /\ [Next]_vars => QueueInv'
<1> SUFFICES ASSUME QueueInv, [Next]_vars PROVE QueueInv'
  OBVIOUS
<1>1. CASE Arrive
  <2>1. PICK f \in Senders, p \in Priorities : queue' = queue \cup {[id |-> arrived + 1, from |-> f, priority |-> p]}
    BY <1>1 DEF Arrive
  <2> DEFINE new == [id |-> arrived + 1, from |-> f, priority |-> p]
  <2>2. IsFiniteSet(queue \cup {new})
    BY FS_AddElement DEF QueueInv
  <2>3. new.id = arrived + 1 /\ new.from \in Senders /\ new.priority \in Priorities
    OBVIOUS
  <2>4. arrived' = arrived + 1 /\ queue' = queue \cup {new}
    BY <1>1, <2>1 DEF Arrive
  <2> HIDE DEF new
  <2>5. \A c \in queue : c.id # new.id
    BY <2>3 DEF QueueInv
  <2> QED
    BY <2>2, <2>3, <2>4, <2>5 DEF QueueInv
<1>2. CASE Serve
  <2>1. arrived' = arrived /\ queue' \in SUBSET queue
    BY <1>2 DEF Serve
  <2>2. IsFiniteSet(queue')
    BY <2>1, FS_Subset DEF QueueInv
  <2> QED
    BY <2>1, <2>2 DEF QueueInv
<1>3. CASE UNCHANGED vars
  BY <1>3 DEF QueueInv, vars
<1> QED
  BY <1>1, <1>2, <1>3 DEF Next

(* Loop and relation agree on every queue that arrivals and services       *)
(* produce, for any senders and any number of messages (selectScheduled,   *)
(* priority.go:102).                                                       *)
THEOREM LoopAgrees == Spec => []LoopAgreesWithRelation
<1>1. Init => QueueInv
  BY FS_EmptySet DEF Init, QueueInv
<1>2. QueueInv => LoopAgreesWithRelation
  <2> SUFFICES ASSUME QueueInv PROVE LoopAgreesWithRelation
    OBVIOUS
  <2>1. Sortable(queue)
    BY QueueSortable
  <2> QED
    BY <2>1, LoopComputesRelation DEF LoopAgreesWithRelation
<1> QED
  BY <1>1, <1>2, QueueStep, PTL DEF Spec

(* The store's ClaimNext, which says by relation what it takes, takes the  *)
(* row the loop returns, names of agents sorting like numbers              *)
(* (ClaimNextWithStrategy, messages.go:671).                               *)
THEOREM ClaimTakesWhatTheLoopFinds ==
  ASSUME StoreTypeOK, Agents \subseteq Nat, NEW a \in Agents, NEW i \in Ids, ClaimNext(a, i)
  PROVE  SelectScheduled(Candidates(a), Strategy).found /\ SelectScheduled(Candidates(a), Strategy).head = i
<1> DEFINE C == Candidates(a)
           r == SelectScheduled(C, Strategy)
<1>1. Sortable(C)
  <2>1. WellFormed(C)
    BY CandidatesWellFormed
  <2>2. \A k \in Ids : env[k].from \in Agents
    BY DEF StoreTypeOK, Envelopes
  <2>3. \A c \in C : c.from \in Nat
    <3> SUFFICES ASSUME NEW k \in Claimable(a) PROVE Candidate(k).from \in Nat
      BY DEF Candidates
    <3>1. k \in Ids
      BY DEF Claimable, Queued
    <3>2. env[k].from \in Nat
      BY <2>2, <3>1
    <3> QED
      BY <3>2 DEF Candidate
  <2>4. \A c, d \in C : c.id = d.id => c = d
    BY DEF Candidates, Candidate
  <2> QED
    BY <2>1, <2>3, <2>4 DEF Sortable, WellFormed
<1>2. IsScheduled(C, Strategy, Candidate(i)) /\ Candidate(i).id = i
  BY DEF ClaimNext, Candidate
<1>3. Candidate(i) \in C
  BY <1>2 DEF IsScheduled
<1> HIDE DEF C
<1>4. r.found /\ {c.id : c \in {c \in C : IsScheduled(C, Strategy, c)}} = {r.head}
  BY <1>1, <1>3, LoopComputesRelation
<1> HIDE DEF r
<1>5. i \in {c.id : c \in {c \in C : IsScheduled(C, Strategy, c)}}
  BY <1>2, <1>3
<1> QED
  BY <1>4, <1>5 DEF r, C
=============================================================================
