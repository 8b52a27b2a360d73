---------------------------- MODULE LedgerProofs ----------------------------
(***************************************************************************)
(* What a sender pays for what it sends, for any number of calls, agents   *)
(* and rows, any window and any price of breadth that grows with it:       *)
(* splitting a send makes it no cheaper, and no dearer where nothing of it *)
(* was wasted.                                                             *)
(*                                                                         *)
(* A sum over a set of calls changes by what one of them was charged; each *)
(* call keeps a phase and a trace of what it wrote; and what a sender paid *)
(* covers what it has to show and what its call has still before it.       *)
(***************************************************************************)
EXTENDS OutboxProofs

USE DEF Ids, msgVars, storeVars, columns, world, history, sendingVars, waitingVars, outboxVars

-----------------------------------------------------------------------------
(* Sums over the calls *)

Charges(k, S) == MapThenSumSet(LAMBDA c : k[c].charged, S)

(* The sum takes one call at a time out of the set, and is a number. *)
Tallies(f, k, S) ==
  \A V \in SUBSET S :
    f[V] = IF V = {} THEN 0 ELSE k[CHOOSE x \in V : TRUE].charged + f[V \ {CHOOSE x \in V : TRUE}]

LEMMA ChargesRecur ==
  ASSUME NEW S, IsFiniteSet(S), NEW k, \A c \in S : k[c].charged \in Nat
  PROVE  \E f : Tallies(f, k, S) /\ Charges(k, S) = f[S]
<1> DEFINE last == [V \in SUBSET S |-> CHOOSE x \in V : TRUE]
           step == [V \in SUBSET S |-> [n \in Nat |-> IF V = {} THEN 0 ELSE k[last[V]].charged + n]]
           g == CHOOSE g : g = [s \in SUBSET S |-> IF s = {} THEN 0 ELSE k[CHOOSE x \in s : TRUE].charged
                                                                     + g[s \ {CHOOSE x \in s : TRUE}]]
<1>1. Picks(S, last)
  BY DEF Picks
<1>2. step \in [SUBSET S -> [Nat -> Nat]]
  <2>1. \A V \in SUBSET S : V # {} => k[last[V]].charged \in Nat
    BY <1>1 DEF Picks
  <2> HIDE DEF last
  <2> QED
    BY <2>1
<1>3. PICK f \in [SUBSET S -> Nat] : Recurs(f, S, 0, step, last)
  <2> HIDE DEF step, last
  <2> QED
    BY <1>1, <1>2, SubsetRecursion
<1>4. ASSUME NEW V \in SUBSET S
      PROVE  f[V] = IF V = {} THEN 0 ELSE k[CHOOSE x \in V : TRUE].charged + f[V \ {CHOOSE x \in V : TRUE}]
  <2>1. f[V] = IF V = {} THEN 0 ELSE step[V][f[V \ {last[V]}]]
    BY <1>3 DEF Recurs
  <2>2. f[V \ {last[V]}] \in Nat
    OBVIOUS
  <2>3. last[V] = CHOOSE x \in V : TRUE
    OBVIOUS
  <2> QED
    BY <2>1, <2>2, <2>3
<1>5. f = [s \in SUBSET S |-> IF s = {} THEN 0 ELSE k[CHOOSE x \in s : TRUE].charged + f[s \ {CHOOSE x \in s : TRUE}]]
  BY <1>4
<1>6. g = [s \in SUBSET S |-> IF s = {} THEN 0 ELSE k[CHOOSE x \in s : TRUE].charged + g[s \ {CHOOSE x \in s : TRUE}]]
  BY <1>5
<1>7. Charges(k, S) = g[S]
  BY DEF Charges, MapThenSumSet, MapThenFoldSet
<1> HIDE DEF g
<1>8. Tallies(g, k, S)
  BY <1>6 DEF Tallies
<1> QED
  BY <1>7, <1>8

(* Where two tables of calls differ in one call only, their sums differ by *)
(* what that call was charged.                                             *)
LEMMA ChargesDiffer ==
  ASSUME NEW S, IsFiniteSet(S), NEW k, NEW m, NEW c,
         \A d \in S : k[d].charged \in Nat /\ m[d].charged \in Nat,
         \A d \in S \ {c} : m[d].charged = k[d].charged
  PROVE  /\ Charges(k, S) \in Nat
         /\ Charges(m, S) = Charges(k, S) + IF c \in S THEN m[c].charged - k[c].charged ELSE 0
<1>1. PICK f : Tallies(f, k, S) /\ Charges(k, S) = f[S]
  BY ChargesRecur
<1>2. PICK g : Tallies(g, m, S) /\ Charges(m, S) = g[S]
  BY ChargesRecur
<1> DEFINE Q == {V \in SUBSET S : f[V] \in Nat /\ g[V] = f[V] + IF c \in V THEN m[c].charged - k[c].charged ELSE 0}
<1>3. ASSUME NEW V \in SUBSET S, \A W \in SUBSET V : W # V => W \in Q
      PROVE  V \in Q
  <2>1. CASE V = {}
    <3>1. f[V] = 0 /\ g[V] = 0 /\ c \notin V
      BY <2>1, <1>1, <1>2 DEF Tallies
    <3> QED
      BY <3>1
  <2>2. CASE V # {}
    <3> DEFINE x == CHOOSE x \in V : TRUE
               W == V \ {x}
    <3>1. x \in V /\ x \in S
      BY <2>2
    <3>2. W \in Q
      BY <1>3, <3>1
    <3>3. f[V] = k[x].charged + f[W] /\ g[V] = m[x].charged + g[W]
      BY <1>1, <1>2, <2>2 DEF Tallies
    <3>4. k[x].charged \in Nat /\ m[x].charged \in Nat /\ (x # c => m[x].charged = k[x].charged)
      BY <3>1
    <3> HIDE DEF x
    <3>5. f[W] \in Nat /\ g[W] = f[W] + IF c \in W THEN m[c].charged - k[c].charged ELSE 0
      BY <3>2
    <3>6. f[V] \in Nat
      BY <3>3, <3>4, <3>5
    <3>7. CASE x = c
      <4>1. c \in V /\ c \notin W
        BY <3>1, <3>7
      <4> HIDE DEF W
      <4> QED
        BY <3>3, <3>4, <3>5, <3>6, <3>7, <4>1
    <3>8. CASE x # c
      <4>1. c \in V <=> c \in W
        BY <3>1, <3>8
      <4>2. c \in V => k[c].charged \in Nat /\ m[c].charged \in Nat
        OBVIOUS
      <4> HIDE DEF W
      <4> QED
        BY <3>3, <3>4, <3>5, <3>6, <3>8, <4>1, <4>2
    <3> QED
      BY <3>7, <3>8
  <2> QED
    BY <2>1, <2>2
<1>4. \A V \in SUBSET S : V \in Q
  <2> HIDE DEF Q
  <2> QED
    BY <1>3, SubsetInduction
<1>5. S \in Q
  BY <1>4
<1> QED
  BY <1>1, <1>2, <1>5

-----------------------------------------------------------------------------
(* What a sender has paid for *)

(* The price of reaching R in the window with n rows. *)
Worth(R, n) == Breadth[Cardinality(R)] + Alpha * n

Named(q) == {q.to[i] : i \in DOMAIN q.to}

(* A priced call between its charge and its end. *)
Paying(q) ==
  /\ Priced(q.req)
  /\ \/ q.pc \in {"stagger", "check", "insert", "refund", "watch", "read", "select"}
     \/ q.pc = "fresh" /\ Len(q.to) = 1

(* How many of its recipients a call has dealt with. *)
Handled(q) == IF q.pc \in {"watch", "read", "select", "refund", "done"} THEN q.k ELSE q.k - 1

(* Before its charge a call has neither paid nor written; what it wrote is *)
(* at most what it dealt with; what is refunded wrote nothing.             *)
PhaseOK(q) ==
  IF ~Priced(q.req) THEN q.charged = 0
  ELSE
    /\ q.landed <= Handled(q)
    /\ ~Paying(q) /\ q.pc # "done" => q.charged = 0 /\ q.landed = 0
    /\ q.pc = "refund" => q.landed = 0

(* In whose name a call writes. *)
Author(q) == IF q.req.op = "resend" THEN env[q.req.re].from ELSE q.req.from

(* The row a call wrote last. *)
TraceOK(q) ==
  /\ q.pc \in {"resolve", "fresh"} => q.req.op # "resend"
  /\ q.req.op = "resend" /\ q.pc = "insert" => q.req.re < nextId
  /\ q.landed > 0 =>
       /\ q.row \in Ids /\ q.row < nextId /\ env[q.row].from = Author(q)
       /\ q.req.op = "resend" => q.req.re < nextId
       /\ Priced(q.req) => env[q.row].body = q.req.body /\ st[q.row] # "refused"

(* Nobody but an overlapped sender has two priced calls under way. *)
Alone(a) ==
  \A c, d \in Calls :
    /\ Active(c) /\ Priced(call[c].req) /\ call[c].req.from = a
    /\ Active(d) /\ Priced(call[d].req) /\ call[d].req.from = a
    => c = d

PayingFor(a) == {c \in Calls : call[c].req.from = a /\ Paying(call[c])}

(* What is paid covers the recipients the call still has before it, and    *)
(* if it goes back, what is left covers the rest.                          *)
Covers(q, P, R, n) ==
  /\ P >= Worth(R \cup Named(q), n + Len(q.to) - q.landed)
  /\ q.landed = 0 => P - q.charged >= Worth(R, n)

(* The same to the hundredth, if the body is short; a call that came free  *)
(* adds nothing.                                                           *)
Matches(q, P, R, n) ==
  /\ Length[q.req.body] = 1 \/ q.charged = 0 => P = Worth(R \cup Named(q), n + Len(q.to) - q.landed)
  /\ q.landed = 0 => P - q.charged = Worth(R, n)
  /\ q.charged = 0 => Alpha = 0 /\ Breadth[Cardinality(R \cup Named(q))] = Breadth[Cardinality(R)]
  /\ q.landed = Handled(q) => \A i \in 1..Handled(q) : q.to[i] \in R

(* Nothing has come between what a sender paid and what it has to show.    *)
Settled(a) ==
  /\ clock < Window /\ ~Purged(a) /\ ~Lengthy(a)
  /\ \A c \in Calls : call[c].req.from = a /\ At(c, "done") /\ call[c].charged > 0 => call[c].landed = Len(call[c].to)

Balanced(a) ==
  LET P == Paid(a)
      R == Recipients(a)
      n == Cardinality(Landed(a))
  IN /\ P >= Worth(R, n)
     /\ \A c \in PayingFor(a) : Covers(call[c], P, R, n)
     /\ Settled(a) => /\ PayingFor(a) = {} => P = Worth(R, n)
                      /\ \A c \in PayingFor(a) : Matches(call[c], P, R, n)

LedgerInv ==
  /\ created \in [Ids -> Nat] /\ Len(Asked) < nextId
  /\ \A c \in Calls : PhaseOK(call[c]) /\ TraceOK(call[c])
  /\ \A a \in Agents \ overlapped : Alone(a) /\ (~Unpriced(a) => Balanced(a))

-----------------------------------------------------------------------------
(* How the calls move *)

(* A step of a call that neither pays nor writes a row. *)
Steady(q, p) ==
  /\ p.req = q.req /\ p.charged = q.charged /\ p.landed = q.landed /\ p.row = q.row
  /\ PhaseOK(p)
  /\ Handled(p) >= Handled(q)
  /\ Paying(p) => Paying(q)
  /\ Paying(q) => p.to = q.to /\ (p.pc = "done" \/ Paying(p))

(* A call that goes on to another step and stays as it is otherwise. *)
Hop(q, p) ==
  /\ p.req = q.req /\ p.charged = q.charged /\ p.landed = q.landed /\ p.row = q.row
  /\ p.to = q.to /\ p.k = q.k

LEMMA HopSteady ==
  ASSUME NEW q, CallOK(q), PhaseOK(q), NEW p, CallOK(p), Hop(q, p),
         q.pc \in {"watch", "read", "select", "refund"} => p.pc \in {"watch", "read", "select", "done"},
         Paying(q) => p.pc \in {"stagger", "check", "insert", "watch", "read", "select", "done"}
                      \/ (p.pc = "fresh" /\ Len(p.to) = 1),
         Paying(p) => Paying(q), q.pc # "done", p.pc # "refund"
  PROVE  Steady(q, p)
<1>1. q.k \in Nat /\ q.k >= 1 /\ q.landed \in Nat /\ q.charged \in Nat
  BY DEF CallOK, CallRows
<1>2. Handled(q) \in {q.k, q.k - 1} /\ Handled(p) \in {q.k, q.k - 1} /\ (Handled(q) = q.k => Handled(p) = q.k)
  BY DEF Handled, Hop
<1>3. Handled(p) >= Handled(q)
  BY <1>1, <1>2
<1>4. PhaseOK(p)
  <2>0. CASE ~Priced(p.req)
    BY <2>0 DEF PhaseOK, Hop
  <2> SUFFICES ASSUME Priced(p.req)
               PROVE  /\ p.landed <= Handled(p)
                      /\ ~Paying(p) /\ p.pc # "done" => p.charged = 0 /\ p.landed = 0
                      /\ p.pc = "refund" => p.landed = 0
    BY <2>0 DEF PhaseOK
  <2>1. q.landed <= Handled(q) /\ (~Paying(q) => q.charged = 0 /\ q.landed = 0)
    BY DEF PhaseOK, Hop
  <2>2. p.landed <= Handled(p)
    BY <1>1, <1>2, <2>1 DEF Hop
  <2>3. ~Paying(p) /\ p.pc # "done" => ~Paying(q)
    BY DEF Paying, Hop
  <2> QED
    BY <2>1, <2>2, <2>3 DEF Hop
<1> QED
  BY <1>3, <1>4 DEF Steady, Hop, Paying

(* Dealing with the next recipient, whatever came of the last one. *)
LEMMA OnwardSteady ==
  ASSUME NEW q, CallOK(q), PhaseOK(q), q.pc \in {"check", "insert", "read", "select"},
         NEW p, p \in CallRows, Hop(q, p), p.pc = q.pc
  PROVE  Steady(q, Onward(p))
<1> DEFINE o == Onward(p)
<1>1. q.k \in Nat /\ q.k >= 1 /\ q.k <= Len(q.to) /\ q.landed \in Nat /\ q.charged \in Nat /\ Len(q.to) \in Nat
  BY LenProperties DEF CallOK, CallRows
<1>2. \/ o = [p EXCEPT !.pc = "stagger", !.k = q.k + 1]
      \/ o = [p EXCEPT !.pc = "refund"] /\ q.landed = 0
      \/ o = [p EXCEPT !.pc = "done"]
  BY DEF Onward, Hop
<1>3. /\ o.req = q.req /\ o.charged = q.charged /\ o.landed = q.landed /\ o.row = q.row /\ o.to = q.to
      /\ \/ o.pc = "stagger" /\ o.k = q.k + 1
         \/ o.pc = "refund" /\ q.landed = 0 /\ o.k = q.k
         \/ o.pc = "done" /\ o.k = q.k
  BY <1>2 DEF CallRows, Hop
<1> HIDE DEF o
<1>4. Handled(o) = q.k
  BY <1>1, <1>3 DEF Handled
<1>5. Handled(q) <= q.k /\ Handled(q) \in Int
  BY <1>1 DEF Handled
<1>6. Paying(q) <=> Priced(q.req)
  BY DEF Paying
<1>7. o.pc # "done" => (Paying(o) <=> Priced(q.req))
  BY <1>3 DEF Paying
<1>8. PhaseOK(o)
  BY <1>1, <1>3, <1>4, <1>5, <1>7 DEF PhaseOK
<1>9. Paying(o) => Priced(q.req)
  BY <1>3 DEF Paying
<1> QED
  BY <1>3, <1>4, <1>5, <1>6, <1>7, <1>8, <1>9 DEF Steady, o

LEMMA CallNumbers ==
  ASSUME NEW q, CallOK(q)
  PROVE  /\ Len(q.to) \in Nat /\ q.k \in Nat /\ 1 <= q.k /\ q.k <= Len(q.to)
         /\ q.landed \in Nat /\ q.charged \in Nat /\ DOMAIN q.to = 1..Len(q.to)
         /\ Len(q.to) > 1 <=> Len(q.to) # 1
<1>1. q.to \in Seq(Agents \cup {Operator}) /\ q.k \in 1..Len(q.to) /\ q.landed \in Nat /\ q.charged \in Nat
  BY DEF CallOK, CallRows
<1>2. Len(q.to) \in Nat /\ DOMAIN q.to = 1..Len(q.to)
  BY <1>1, LenProperties
<1>3. \A n, k \in Nat : 1 <= k /\ k <= n => (n > 1 <=> n # 1)
  OBVIOUS
<1>4. Len(q.to) > 1 <=> Len(q.to) # 1
  <2>1. q.k \in Nat /\ 1 <= q.k /\ q.k <= Len(q.to)
    BY <1>1, <1>2
  <2> QED
    BY <1>2, <1>3, <2>1
<1> QED
  BY <1>1, <1>2, <1>4

LEMMA GotoHops ==
  ASSUME CallInv, NEW c \in Calls, NEW s, Goto(c, s)
  PROVE  Hop(call[c], call'[c]) /\ call'[c].pc = s
<1>1. call[c] \in CallRows /\ call'[c] = [call[c] EXCEPT !.pc = s]
  BY DEF CallInv, Goto
<1> QED
  BY <1>1 DEF Hop, CallRows

LEMMA QuietSteady ==
  ASSUME CallInv, NEW c \in Calls, Quiet(c), PhaseOK(call[c])
  PROVE  Steady(call[c], call'[c])
<1> DEFINE q == call[c]
           p == call'[c]
<1>0. CallOK(q) /\ q \in CallRows /\ CallOK(p)
  BY QuietCalls DEF CallInv, CallOK
<1>a. ASSUME NEW s, Goto(c, s), q.pc \notin {"watch", "read", "select", "refund", "done"}, s # "refund",
             Paying(q) => s \in {"stagger", "check", "insert", "watch", "read", "select", "done"}
                          \/ (s = "fresh" /\ Len(q.to) = 1),
             Priced(q.req) /\ ~Paying(q) => s \in {"resolve", "charge", "stop", "purge", "remove", "done"}
                                            \/ (s = "fresh" /\ Len(q.to) # 1)
      PROVE  Steady(q, p)
  <2>1. Hop(q, p) /\ p.pc = s
    BY <1>a, GotoHops
  <2>2. Paying(p) => Paying(q)
    BY <1>a, <2>1 DEF Paying, Hop
  <2> QED
    BY <1>0, <1>a, <2>1, <2>2, HopSteady DEF Hop
<1>1. CASE Begin(c)
  <2>1. Goto(c, First(q.req)) /\ q.pc = "idle"
    BY <1>1 DEF Begin, At
  <2>2. q.req.op \in Ops \ {"none"}
    BY <1>0, <2>1 DEF CallOK, WellFormedRequest, Requests
  <2>3. First(q.req) # "refund" /\ (Priced(q.req) => First(q.req) = "resolve")
    BY <2>2 DEF First, Ops, Priced
  <2> QED
    BY <1>a, <2>1, <2>3 DEF Paying
<1>2. CASE ResolveOperator(c)
  <2>0. q.pc = "resolve"
    BY <1>2 DEF ResolveOperator, At
  <2>1. Goto(c, "done") \/ \E to : Resolved(c, to)
    BY <1>2 DEF ResolveOperator
  <2>2. ASSUME NEW to, Resolved(c, to)
        PROVE  Steady(q, p)
    <3> DEFINE s == IF Len(to) > 1 THEN "fresh" ELSE "charge"
    <3>1. p = [q EXCEPT !.to = to, !.pc = s]
      BY <2>2 DEF Resolved, CallInv
    <3>2. /\ p.req = q.req /\ p.charged = q.charged /\ p.landed = q.landed /\ p.row = q.row /\ p.k = q.k
          /\ p.to = to /\ p.pc = s
      BY <1>0, <3>1 DEF CallRows
    <3>3. ~Paying(q) /\ ~Paying(p)
      <4>1. Len(p.to) > 1 <=> Len(p.to) # 1
        BY <1>0, CallNumbers
      <4>2. p.pc = "fresh" => Len(p.to) # 1
        BY <3>2, <4>1
      <4>3. p.pc \in {"fresh", "charge"}
        BY <3>2
      <4> QED
        BY <2>0, <4>2, <4>3 DEF Paying
    <3>4. Handled(p) = Handled(q) /\ Handled(q) \in Int
      BY <1>0, <2>0, <3>2 DEF Handled, CallRows
    <3>5. PhaseOK(p)
      BY <2>0, <3>2, <3>3, <3>4 DEF PhaseOK
    <3> QED
      BY <3>2, <3>3, <3>4, <3>5 DEF Steady
  <2> QED
    BY <1>a, <2>0, <2>1, <2>2 DEF Paying
<1>3. CASE Freshness(c)
  <2>1. q.pc = "fresh" /\ (Goto(c, "done") \/ (Goto(c, "charge") /\ FanOut(c)) \/ (Goto(c, "insert") /\ ~FanOut(c)))
    BY <1>3 DEF Freshness, At
  <2>2. Len(q.to) > 1 <=> Len(q.to) # 1
    BY <1>0, CallNumbers
  <2>3. FanOut(c) <=> Len(q.to) # 1
    BY <2>2 DEF FanOut
  <2> QED
    BY <1>a, <2>1, <2>3 DEF Paying
<1>4. CASE WriteBudgetQuote(c)
  BY <1>4, <1>a DEF WriteBudgetQuote, At, Paying
<1>5. CASE CheckRecipient(c)
  <2>1. q.pc = "check"
    BY <1>5 DEF CheckRecipient, At
  <2>2. CASE call' = [call EXCEPT ![c] = Onward(q)]
    <3>1. p = Onward(q)
      BY <2>2 DEF CallInv
    <3>2. Hop(q, q)
      BY DEF Hop
    <3> QED
      BY <1>0, <2>1, <3>1, <3>2, OnwardSteady
  <2>3. CASE Goto(c, "fresh") /\ ~FanOut(c)
    <3>1. Len(q.to) = 1
      <4>1. Len(q.to) > 1 <=> Len(q.to) # 1
        BY <1>0, CallNumbers
      <4> QED
        BY <2>3, <4>1 DEF FanOut
    <3>2. Paying(q) <=> Priced(q.req)
      BY <2>1 DEF Paying
    <3> QED
      BY <1>a, <2>1, <2>3, <3>1, <3>2
  <2>4. CASE Goto(c, "insert")
    BY <1>a, <2>1, <2>4 DEF Paying
  <2> QED
    BY <1>5, <2>2, <2>3, <2>4 DEF CheckRecipient, Goto
<1>6. CASE Stagger(c)
  BY <1>6, <1>a DEF Stagger, At, Paying
<1>7. CASE LeaveGuard(c)
  <2>1. q.pc = "leave" /\ (Goto(c, "stop") \/ Goto(c, "done"))
    BY <1>7 DEF LeaveGuard, At
  <2> QED
    BY <2>1, <1>a DEF Paying
<1>8. CASE StopMailman(c)
  <2>1. q.pc = "stop" /\ (Goto(c, "purge") \/ Goto(c, "remove"))
    BY <1>8 DEF StopMailman, At
  <2> QED
    BY <2>1, <1>a DEF Paying
<1> QED
  BY <1>1, <1>2, <1>3, <1>4, <1>5, <1>6, <1>7, <1>8 DEF Quiet

LEMMA SleepsSteady ==
  ASSUME CallInv, NEW c \in Calls, Sleeps(c), PhaseOK(call[c])
  PROVE  Steady(call[c], call'[c])
<1> DEFINE q == call[c]
           p == call'[c]
<1>0. CallOK(q) /\ q \in CallRows /\ CallOK(p)
  BY SleepsCalls DEF CallInv, CallOK
<1>1. q.pc \in {"watch", "read", "select"}
  BY DEF Sleeps, WaitSteps, Watch, Read, WakeByRing, WakeByPoll, Expire, At
<1>2. Paying(q) <=> Priced(q.req)
  BY <1>1 DEF Paying
<1>a. ASSUME Hop(q, p), p.pc \in {"watch", "read", "select"}
      PROVE  Steady(q, p)
  BY <1>0, <1>1, <1>2, <1>a, HopSteady DEF Hop, Paying
<1>b. ASSUME Ended(c), q.pc # "watch"
      PROVE  Steady(q, p)
  <2> DEFINE e == [q EXCEPT !.watch = "none", !.rung = FALSE]
  <2>1. p = Onward(e)
    BY <1>b DEF Ended, CallInv
  <2>2. e \in CallRows /\ Hop(q, e) /\ e.pc = q.pc
    BY <1>0 DEF CallRows, Hop
  <2> HIDE DEF e
  <2> QED
    BY <1>0, <1>1, <1>b, <2>1, <2>2, OnwardSteady
<1>3. CASE Watch(c)
  <2>1. PICK s \in {"select", "read"} :
          \/ p = [q EXCEPT !.pc = s, !.watch = "open", !.rung = FALSE]
          \/ p = [q EXCEPT !.pc = s, !.watch = "nil"]
    BY <1>3 DEF Watch, CallInv
  <2> QED
    BY <1>0, <1>a, <2>1 DEF Hop, CallRows
<1>4. CASE Read(c)
  <2>1. q.pc = "read" /\ (Ended(c) \/ Goto(c, "watch") \/ Goto(c, "select"))
    BY <1>4 DEF Read, At
  <2> QED
    BY <1>a, <1>b, <2>1, GotoHops
<1>5. CASE WakeByRing(c)
  <2>1. p = [q EXCEPT !.pc = "read", !.rung = FALSE]
    BY <1>5 DEF WakeByRing, CallInv
  <2> QED
    BY <1>0, <1>a, <2>1 DEF Hop, CallRows
<1>6. CASE WakeByPoll(c)
  BY <1>6, <1>a, GotoHops DEF WakeByPoll
<1>7. CASE Expire(c)
  BY <1>7, <1>b DEF Expire, At
<1> QED
  BY <1>3, <1>4, <1>5, <1>6, <1>7 DEF Sleeps, WaitSteps

(* Steps that take rows, not write them. *)
LEMMA TakesSteady ==
  ASSUME CallInv, StoreTypeOK, NEW c \in Calls, PhaseOK(call[c]),
         Flush(c) \/ PurgeQueue(c) \/ Reset(c) \/ Reap(c) \/ Removes(c)
  PROVE  Steady(call[c], call'[c])
<1>0. CallOK(call[c]) /\ CallOK(call'[c])
  BY WritesCalls DEF CallInv, Writes
<1>1. call[c].pc \in {"flush", "purge", "reset", "reap", "remove"} /\ (Goto(c, "done") \/ Goto(c, "remove"))
  BY DEF Flush, PurgeQueue, Reset, Reap, Removes, RemoveAgent, At
<1>2. Hop(call[c], call'[c]) /\ call'[c].pc \in {"done", "remove"}
  BY <1>1, GotoHops
<1> QED
  BY <1>0, <1>1, <1>2, HopSteady DEF Paying

LEMMA RingSteady ==
  ASSUME CallInv, NEW a \in Agents, Ring(a), NEW c \in Calls, PhaseOK(call[c])
  PROVE  Steady(call[c], call'[c])
<1>0. CallOK(call[c]) /\ call[c] \in CallRows
  BY DEF CallInv, CallOK
<1>1. call'[c] = call[c] \/ call'[c] = [call[c] EXCEPT !.rung = TRUE]
  BY DEF Ring
<1>2. Hop(call[c], call'[c]) /\ call'[c].pc = call[c].pc
  BY <1>0, <1>1 DEF Hop, CallRows
<1>3. Handled(call'[c]) = Handled(call[c]) /\ (Paying(call'[c]) <=> Paying(call[c])) /\ Handled(call[c]) \in Int
  BY <1>0, <1>2 DEF Handled, Paying, Hop, CallRows
<1>4. PhaseOK(call'[c])
  BY <1>2, <1>3 DEF PhaseOK, Hop
<1> QED
  BY <1>2, <1>3, <1>4 DEF Steady, Hop

(* A step of a call that writes a row, with id i. *)
Landing(q, p, i) ==
  /\ p.req = q.req /\ p.to = q.to /\ p.charged = q.charged /\ p.landed = q.landed + 1 /\ p.row = i
  /\ PhaseOK(p) /\ Handled(p) = q.k /\ Handled(q) = q.k - 1
  /\ Priced(q.req) => Paying(q) /\ (p.pc = "done" \/ Paying(p))

LEMMA InsertMoves ==
  ASSUME CallInv, StoreTypeOK, NEW c \in Calls, Insert(c), PhaseOK(call[c])
  PROVE  IF Dangling(c) \/ st'[nextId] = "refused" THEN Steady(call[c], call'[c])
         ELSE Landing(call[c], call'[c], nextId)
<1> DEFINE q == call[c]
           p == call'[c]
           w == [q EXCEPT !.landed = q.landed + 1, !.row = nextId]
<1>0. CallOK(q) /\ q \in CallRows /\ q.pc = "insert" /\ CallOK(p)
  BY InsertCalls DEF CallInv, CallOK, Insert, At
<1>1. Paying(q) <=> Priced(q.req)
  BY <1>0 DEF Paying
<1>2. CASE Dangling(c)
  <2>1. Hop(q, p) /\ p.pc = "done"
    BY <1>2, GotoHops DEF Insert
  <2> QED
    BY <1>0, <1>2, <2>1, HopSteady DEF Paying
<1>3. CASE ~Dangling(c) /\ st'[nextId] = "refused"
  <2>1. p = Onward(q)
    BY <1>3 DEF Insert, CallInv
  <2>2. Hop(q, q)
    BY DEF Hop
  <2> QED
    BY <1>0, <1>3, <2>1, <2>2, OnwardSteady
<1>4. CASE ~Dangling(c) /\ st'[nextId] # "refused"
  <2>1. p = [w EXCEPT !.pc = "watch", !.watch = "none"] \/ p = Onward(w)
    BY <1>4 DEF Insert, CallInv
  <2>2. /\ w.req = q.req /\ w.to = q.to /\ w.charged = q.charged /\ w.landed = q.landed + 1 /\ w.row = nextId
        /\ w.k = q.k /\ w \in CallRows
    <3>0. nextId \in Ids
      BY <1>4 DEF Insert, InsertMessagePair, InsertNotice, InsertMessage, InsertRow
    <3>1. nextId \in 0..MaxId
      BY <3>0, StoreAssumption
    <3>2. q.landed \in Nat
      BY <1>0 DEF CallRows
    <3>3. q.landed + 1 \in Nat
      BY <3>2
    <3> QED
      BY <1>0, <3>1, <3>3 DEF CallRows
  <2> HIDE DEF w
  <2>3. q.k \in Nat /\ q.landed \in Nat /\ q.charged \in Nat
    BY <1>0, CallNumbers
  <2>4. \/ Onward(w) = [w EXCEPT !.pc = "stagger", !.k = q.k + 1]
        \/ Onward(w) = [w EXCEPT !.pc = "done"]
    BY <2>2, <2>3 DEF Onward
  <2>5. /\ p.req = q.req /\ p.to = q.to /\ p.charged = q.charged /\ p.landed = q.landed + 1 /\ p.row = nextId
        /\ (p.pc \in {"watch", "done"} /\ p.k = q.k) \/ (p.pc = "stagger" /\ p.k = q.k + 1)
    <3>1. CASE p = [w EXCEPT !.pc = "watch", !.watch = "none"]
      BY <2>2, <3>1 DEF CallRows
    <3>2. CASE p = [w EXCEPT !.pc = "stagger", !.k = q.k + 1]
      BY <2>2, <3>2 DEF CallRows
    <3>3. CASE p = [w EXCEPT !.pc = "done"]
      BY <2>2, <3>3 DEF CallRows
    <3> QED
      BY <2>1, <2>4, <3>1, <3>2, <3>3
  <2>6. Handled(p) = q.k /\ Handled(q) = q.k - 1
    BY <1>0, <2>3, <2>5 DEF Handled
  <2>7. Priced(q.req) => q.landed <= q.k - 1
    BY <1>1, <2>6 DEF PhaseOK
  <2>8. Priced(q.req) => p.pc = "done" \/ Paying(p)
    BY <2>5 DEF Paying
  <2>9. PhaseOK(p)
    BY <2>3, <2>5, <2>6, <2>7, <2>8 DEF PhaseOK
  <2> QED
    BY <1>1, <1>4, <2>5, <2>6, <2>8, <2>9 DEF Landing
<1> QED
  BY <1>2, <1>3, <1>4

(* A priced call is charged, or gets its charge back. *)
Charging(q, p, cost) ==
  /\ Priced(q.req) /\ q.pc = "charge" /\ Paying(p) /\ PhaseOK(p)
  /\ p.req = q.req /\ p.to = q.to /\ p.landed = q.landed /\ p.row = q.row /\ p.charged = cost
  /\ Handled(p) = q.k - 1

Refunding(q, p) ==
  /\ Priced(q.req) /\ q.pc = "refund" /\ p.pc = "done" /\ PhaseOK(p)
  /\ p.req = q.req /\ p.to = q.to /\ p.landed = q.landed /\ p.row = q.row /\ p.charged = 0

LEMMA PaysMoves ==
  ASSUME CallInv, StoreTypeOK, clock \in Nat, NEW c \in Calls, Pays(c), PhaseOK(call[c])
  PROVE  \/ Steady(call[c], call'[c])
         \/ Charging(call[c], call'[c], Quote(call[c].req.from, call[c].to, call[c].req.body))
         \/ Refunding(call[c], call'[c])
<1> DEFINE q == call[c]
           p == call'[c]
<1>0. CallOK(q) /\ q \in CallRows /\ CallOK(p)
  BY PaysCalls DEF CallInv, CallOK
<1>n. q.k \in Nat /\ q.landed \in Nat /\ q.charged \in Nat
  BY <1>0, CallNumbers
<1>1. CASE Charge(c)
  <2> DEFINE cost == Quote(q.req.from, q.to, q.req.body)
             next == IF FanOut(c) THEN "stagger" ELSE "check"
             due == IF FanOut(c) THEN [i \in DOMAIN q.to |-> clock + Offset(q.to, i)] ELSE <<>>
  <2>1. q.pc = "charge" /\ ~Paying(q)
    BY <1>1 DEF Charge, At, Paying
  <2>2. \/ ~Priced(q.req) /\ p = [q EXCEPT !.pc = next, !.due = due]
        \/ Priced(q.req) /\ p = [q EXCEPT !.pc = next, !.charged = cost, !.due = due]
        \/ Goto(c, "done")
    BY <1>1 DEF Charge, CallInv
  <2>3. next \in {"stagger", "check"}
    OBVIOUS
  <2> HIDE DEF cost, next, due
  <2>4. CASE ~Priced(q.req) /\ p = [q EXCEPT !.pc = next, !.due = due]
    <3>1. Hop(q, p) /\ p.pc = next
      BY <1>0, <2>4 DEF Hop, CallRows
    <3>2. ~Paying(p)
      BY <2>4, <3>1 DEF Paying, Hop
    <3> QED
      BY <1>0, <2>1, <2>3, <3>1, <3>2, HopSteady
  <2>5. CASE Priced(q.req) /\ p = [q EXCEPT !.pc = next, !.charged = cost, !.due = due]
    <3>1. /\ p.req = q.req /\ p.to = q.to /\ p.landed = q.landed /\ p.row = q.row /\ p.charged = cost /\ p.k = q.k
          /\ p.pc = next
      BY <1>0, <2>5 DEF CallRows
    <3>2. Handled(p) = q.k - 1 /\ Handled(q) = q.k - 1 /\ Paying(p)
      BY <2>1, <2>3, <2>5, <3>1 DEF Handled, Paying
    <3>3. PhaseOK(p)
      BY <2>1, <2>3, <2>5, <3>1, <3>2 DEF PhaseOK
    <3> QED
      BY <2>1, <2>5, <3>1, <3>2, <3>3 DEF Charging, cost
  <2>6. CASE Goto(c, "done")
    <3>1. Hop(q, p) /\ p.pc = "done"
      BY <2>6, GotoHops
    <3> QED
      BY <1>0, <2>1, <3>1, HopSteady DEF Paying
  <2> QED
    BY <2>2, <2>4, <2>5, <2>6
<1>2. CASE Refund(c)
  <2>1. q.pc = "refund" /\ p = [q EXCEPT !.pc = "done", !.charged = 0]
    BY <1>2 DEF Refund, At, CallInv
  <2>2. /\ p.req = q.req /\ p.to = q.to /\ p.landed = q.landed /\ p.row = q.row /\ p.charged = 0 /\ p.k = q.k
        /\ p.pc = "done"
    BY <1>0, <2>1 DEF CallRows
  <2>3. Handled(p) = q.k /\ Handled(q) = q.k
    BY <2>1, <2>2 DEF Handled
  <2>4. PhaseOK(p)
    BY <1>n, <2>2, <2>3 DEF PhaseOK
  <2>5. CASE Priced(q.req)
    BY <2>1, <2>2, <2>4, <2>5 DEF Refunding
  <2>6. CASE ~Priced(q.req)
    <3>1. q.charged = 0 /\ ~Paying(q) /\ ~Paying(p)
      BY <2>2, <2>6 DEF PhaseOK, Paying
    <3> QED
      BY <1>n, <2>2, <2>3, <2>4, <3>1 DEF Steady
  <2> QED
    BY <2>5, <2>6
<1> QED
  BY <1>1, <1>2 DEF Pays

-----------------------------------------------------------------------------
(* What becomes of the rows *)

(* A row keeps its envelope and its date, what is purged stays purged, and *)
(* what was refused is never sent.                                         *)
RowsGoOn ==
  /\ nextId <= nextId' /\ clock <= clock'
  /\ \A i \in Ids : i < nextId =>
       /\ env'[i] = env[i] /\ created'[i] = created[i]
       /\ st'[i] # st[i] => IF st[i] = "refused" THEN st'[i] = "purged"
                            ELSE st[i] # "purged" /\ st'[i] \in (RowStates \ {"refused"}) \cup {"purged"}

RowsStay == RowsGoOn /\ nextId' = nextId /\ created' = created

LEMMA UntouchedRowsStay ==
  ASSUME StoreTypeOK, clock \in Nat, clock' \in Nat, clock <= clock', UNCHANGED <<msgVars, created>>
  PROVE  RowsStay
BY DEF RowsStay, RowsGoOn, StoreTypeOK

LEMMA MovedRowsStay ==
  ASSUME StoreTypeOK, clock \in Nat, clock' = clock, created' = created, NEW S, NEW s, MoveRows(S, s),
         s = "purged" \/ (s \in RowStates \ {"refused"} /\ \A i \in S : st[i] # "refused"),
         \A i \in S : st[i] # "purged"
  PROVE  RowsStay
BY DEF RowsStay, RowsGoOn, StoreTypeOK, MoveRows

LEMMA PurgedRowsStay ==
  ASSUME StoreTypeOK, clock \in Nat, clock' = clock, created' = created,
         NEW scope, NEW cutoff, NEW states \in SUBSET RowStates, Purge(scope, cutoff, states)
  PROVE  RowsStay
<1>1. CASE UNCHANGED msgVars
  BY <1>1, UntouchedRowsStay
<1>2. CASE DeleteMessagesBefore(scope, cutoff, states)
  <2> DEFINE S == {i \in Ids : i < cutoff /\ st[i] \in states /\ env[i].to \in scope}
  <2>1. MoveRows(S, "purged")
    BY <1>2 DEF DeleteMessagesBefore
  <2>2. \A i \in S : st[i] # "purged"
    BY DEF RowStates
  <2> HIDE DEF S
  <2> QED
    BY <2>1, <2>2, MovedRowsStay
<1> QED
  BY <1>1, <1>2 DEF Purge

LEMMA TakesRowsStay ==
  ASSUME CallInv, StoreTypeOK, clock \in Nat, NEW c \in Calls, Flush(c) \/ PurgeQueue(c) \/ Reset(c) \/ Reap(c)
  PROVE  RowsStay
<1>0. clock' = clock /\ created' = created
  BY DEF Flush, PurgeQueue, Reset, Reap
<1>1. CASE Flush(c)
  <2>1. PICK S : MoveRows(S, "queued") /\ \A i \in S : st[i] = "deferred"
    BY <1>1 DEF Flush, PromoteDeferred, DeferredRows
  <2> QED
    BY <1>0, <2>1, MovedRowsStay DEF RowStates
<1>2. CASE PurgeQueue(c)
  <2>1. Purge(Scope(call[c].req), nextId, {"queued"}) /\ {"queued"} \in SUBSET RowStates
    BY <1>2 DEF PurgeQueue, RowStates
  <2> QED
    BY <1>0, <2>1, PurgedRowsStay
<1>3. CASE Reset(c)
  <2> DEFINE r == call[c].req
             cutoff == IF r.age >= 0 THEN Cutoff(r.age) ELSE nextId
  <2>1. r.states \in SUBSET RowStates
    BY DEF CallInv, CallOK, WellFormedRequest, Requests
  <2>2. ResetStates(r) \in SUBSET RowStates
    BY <2>1 DEF ResetStates, RowStates
  <2>3. UNCHANGED msgVars \/ Purge(Scope(r), cutoff, ResetStates(r))
    BY <1>3 DEF Reset
  <2> HIDE DEF cutoff, r
  <2> QED
    BY <1>0, <2>2, <2>3, UntouchedRowsStay, PurgedRowsStay
<1>4. CASE Reap(c)
  <2>1. UNCHANGED msgVars \/ \E S : MoveRows(S, "failed") /\ \A i \in S : st[i] = "queued"
    BY <1>4 DEF Reap, ReapUndeliverable
  <2>2. CASE UNCHANGED msgVars
    BY <1>0, <2>2, UntouchedRowsStay
  <2>3. ASSUME NEW S, MoveRows(S, "failed"), \A i \in S : st[i] = "queued"
        PROVE  RowsStay
    BY <1>0, <2>3, MovedRowsStay DEF RowStates
  <2> QED
    BY <2>1, <2>2, <2>3
<1> QED
  BY <1>1, <1>2, <1>3, <1>4

LEMMA MailmanRowsStay ==
  ASSUME StoreTypeOK, clock \in Nat, MailmanClaims \/ MailmanMarks
  PROVE  RowsStay
<1>0. clock' = clock /\ created' = created
  BY DEF MailmanClaims, MailmanMarks
<1>1. \/ \E i \in Ids : MoveRows({i}, "delivering") /\ st[i] = "queued"
      \/ \E i \in Ids : (MoveRows({i}, "delivered") \/ MoveRows({i}, "failed")) /\ st[i] = "delivering"
  BY DEF MailmanClaims, MailmanMarks, ClaimNext, Claimable, Queued, MarkDelivered, MarkFailed
<1>2. ASSUME NEW i \in Ids, NEW s \in {"delivering", "delivered", "failed"}, MoveRows({i}, s),
             st[i] \in {"queued", "delivering"}
      PROVE  RowsStay
  BY <1>0, <1>2, MovedRowsStay DEF RowStates
<1> QED
  BY <1>1, <1>2

(* What a sender has to show only shrinks while it writes no row, and not  *)
(* at all before something expires or is purged.                           *)
LEMMA LandedStays ==
  ASSUME StoreTypeOK, StoreTypeOK', created \in [Ids -> Nat], clock \in Nat, clock' \in Nat, RowsStay, NEW a
  PROVE  /\ Landed(a)' \subseteq Landed(a) /\ Recipients(a)' \subseteq Recipients(a)
         /\ ~Purged(a)' => Landed(a)' = Landed(a)
         /\ ~Purged(a)' /\ clock' < Window => Recipients(a)' = Recipients(a)
<1>0. /\ nextId \in Nat /\ clock <= clock' /\ created' = created /\ Window \in Nat
      /\ \A i \in Ids : st[i] = "absent" <=> i >= nextId
      /\ \A i \in Ids : st'[i] = "absent" <=> i >= nextId
      /\ \A i \in Ids : i < nextId =>
           /\ env'[i] = env[i]
           /\ st'[i] # st[i] => IF st[i] = "refused" THEN st'[i] = "purged"
                                ELSE st[i] # "purged" /\ st'[i] \in (RowStates \ {"refused"}) \cup {"purged"}
  BY SendingAssumption DEF StoreTypeOK, RowsStay, RowsGoOn
<1>1. ASSUME NEW i \in Landed(a)'
      PROVE  i \in Landed(a) /\ env'[i] = env[i]
  <2>1. i \in Ids /\ st'[i] \in RowStates \ {"refused"} /\ env'[i].from = a
    BY <1>1 DEF Landed, Rows
  <2>2. i < nextId
    BY <1>0, <2>1 DEF RowStates
  <2>3. env'[i] = env[i] /\ st[i] \in States \ {"absent", "purged", "refused"}
    BY <1>0, <2>1, <2>2 DEF StoreTypeOK, RowStates
  <2> QED
    BY <2>1, <2>3 DEF Landed, Rows, States
<1>2. ASSUME NEW i \in Landed(a), ~Purged(a)'
      PROVE  i \in Landed(a)'
  <2>1. i \in Ids /\ st[i] \in RowStates \ {"refused"} /\ env[i].from = a
    BY <1>2 DEF Landed, Rows
  <2>2. i < nextId
    BY <1>0, <2>1 DEF RowStates
  <2>3. env'[i] = env[i] /\ st'[i] \in (RowStates \ {"refused"}) \cup {"purged"}
    BY <1>0, <2>1, <2>2
  <2> QED
    BY <1>2, <2>1, <2>3 DEF Landed, Rows, Purged
<1>3. Landed(a)' \subseteq Landed(a)
  BY <1>1
<1>4. ~Purged(a)' => Landed(a)' = Landed(a)
  BY <1>2, <1>3
<1>5. Recipients(a)' \subseteq Recipients(a)
  <2>1. ASSUME NEW x \in Recipients(a)'
        PROVE  x \in Recipients(a)
    <3>1. PICK i \in Landed(a)' : created'[i] > clock' - Window /\ x = env'[i].to
      BY <2>1 DEF Recipients
    <3>2. i \in Landed(a) /\ env'[i] = env[i]
      BY <1>1
    <3>3. created[i] \in Nat
      BY <3>2 DEF Landed, Rows
    <3>4. created[i] > clock - Window
      BY <1>0, <3>1, <3>3
    <3> QED
      BY <3>1, <3>2, <3>4 DEF Recipients
  <2> QED
    BY <2>1
<1>6. ASSUME ~Purged(a)', clock' < Window
      PROVE  Recipients(a)' = Recipients(a)
  <2>1. ASSUME NEW x \in Recipients(a)
        PROVE  x \in Recipients(a)'
    <3>1. PICK i \in Landed(a) : x = env[i].to
      BY <2>1 DEF Recipients
    <3>2. i \in Landed(a)'
      BY <1>2, <1>6
    <3>3. env'[i] = env[i]
      BY <1>1, <3>2
    <3>4. created[i] \in Nat
      BY <3>1 DEF Landed, Rows
    <3>5. created'[i] > clock' - Window
      BY <1>0, <1>6, <3>4
    <3> QED
      BY <3>1, <3>2, <3>3, <3>5 DEF Recipients
  <2> QED
    BY <1>5, <2>1
<1> QED
  BY <1>3, <1>4, <1>5, <1>6

(* A call writes in its author's name: two rows if it is a pair, both or   *)
(* neither refused.                                                        *)
LEMMA InsertedRows ==
  ASSUME CallInv, TableInv, clock \in Nat, NEW c \in Calls, Insert(c), ~Dangling(c),
         call[c].req.op \in {"send", "ask", "ping", "control", "resend"}
  PROVE  /\ RowsGoOn /\ nextId \in Ids /\ nextId < nextId' /\ created' = [i \in Ids |-> IF i >= nextId /\ i < nextId' THEN clock ELSE created[i]]
         /\ \A i \in Ids : nextId <= i /\ i < nextId' =>
              /\ env'[i].from = Author(call[c]) /\ st'[i] # "purged"
              /\ st'[i] = "refused" <=> st'[nextId] = "refused"
         /\ Priced(call[c].req) =>
              /\ nextId' = nextId + 1 /\ env'[nextId].body = call[c].req.body
              /\ env'[nextId].to = call[c].to[call[c].k]
<1> DEFINE q == call[c]
<1>0. /\ StoreTypeOK /\ nextId \in Nat /\ RowStep /\ nextId \in Ids /\ nextId' > nextId /\ nextId' \in Nat
      /\ st'[nextId] \in {"queued", "deferred", "refused"}
      /\ \A i \in Ids : i < nextId => st'[i] = st[i] /\ env'[i] = env[i]
  BY InsertStep DEF TableInv, StoreTypeOK, RowStep
<1>1. clock' = clock /\ Stamp(c, nextId')
  BY DEF Insert
<1>2. created' = [i \in Ids |-> IF i >= nextId /\ i < nextId' THEN clock ELSE created[i]]
  <2>1. created' = [i \in Ids |-> IF i \in nextId..(nextId' - 1) THEN clock ELSE created[i]]
    BY <1>1 DEF Stamp
  <2>2. \A i \in Ids : i \in nextId..(nextId' - 1) <=> i >= nextId /\ i < nextId'
    <3>1. \A x, n, m \in Nat : x \in n..(m - 1) <=> x >= n /\ x < m
      OBVIOUS
    <3>2. \A i \in Ids : i \in Nat
      OBVIOUS
    <3> QED
      BY <1>0, <3>1, <3>2
  <2> QED
    BY <2>1, <2>2
<1>3. RowsGoOn
  BY <1>0, <1>1, <1>2 DEF RowsGoOn
<1>4. Envelope(c).from = Author(q) /\ (Priced(q.req) => Envelope(c).body = q.req.body /\ Envelope(c).to = q.to[q.k])
  BY DEF Envelope, Author, Recipient, Priced
<1>5. Envelope(c) \in Envelopes /\ (Paired(q.req) => Second(c) \in Envelopes /\ Second(c).from = Envelope(c).from)
  <2>1. Envelope(c) \in Envelopes /\ (Paired(q.req) => Second(c) \in Envelopes)
    BY EnvelopeType DEF TableInv, Insert, At
  <2>2. Second(c).from = Envelope(c).from
    BY <2>1 DEF Second, Envelopes
  <2> QED
    BY <2>1, <2>2
<1>6. ASSUME NEW e, e \in {Envelope(c), RefusedEnvelope(Envelope(c))}, NEW s, InsertRow(e, s)
      PROVE  /\ nextId' = nextId + 1 /\ env'[nextId].from = Envelope(c).from
             /\ env'[nextId].body = Envelope(c).body /\ env'[nextId].to = Envelope(c).to
  <2>1. nextId' = nextId + 1 /\ env'[nextId] = e
    BY <1>0, <1>6 DEF InsertRow, StoreTypeOK
  <2>2. e.from = Envelope(c).from /\ e.body = Envelope(c).body /\ e.to = Envelope(c).to
    BY <1>5, <1>6 DEF RefusedEnvelope, Envelopes
  <2> QED
    BY <2>1, <2>2
<1>7. CASE InsertMessage(Envelope(c)) \/ InsertNotice(Envelope(c))
  <2>1. PICK e \in {Envelope(c), RefusedEnvelope(Envelope(c))}, s \in {"queued", "deferred", "refused"} : InsertRow(e, s)
    BY <1>7 DEF InsertMessage, InsertNotice
  <2>2. /\ nextId' = nextId + 1 /\ env'[nextId].from = Envelope(c).from
        /\ env'[nextId].body = Envelope(c).body /\ env'[nextId].to = Envelope(c).to
    BY <1>6, <2>1
  <2>3. \A i \in Ids : nextId <= i /\ i < nextId' => i = nextId
    BY <1>0, <2>2
  <2> QED
    BY <1>0, <1>2, <1>3, <1>4, <2>2, <2>3
<1>8. CASE Paired(q.req) /\ InsertMessagePair(Envelope(c), Second(c))
  <2> DEFINE ok == WithinCaps(Envelope(c), 2)
             row(e) == IF ok THEN e ELSE RefusedEnvelope(e)
             state(e) == IF ~ok THEN "refused" ELSE IF e.after = "none" THEN "queued" ELSE "deferred"
  <2>1. /\ nextId' = nextId + 2 /\ nextId \in Ids /\ nextId + 1 \in Ids
        /\ env' = [env EXCEPT ![nextId] = row(Envelope(c)), ![nextId + 1] = row(Second(c))]
        /\ st' = [st EXCEPT ![nextId] = state(Envelope(c)), ![nextId + 1] = state(Second(c))]
    BY <1>8 DEF InsertMessagePair
  <2>2. ~Priced(q.req)
    BY <1>8 DEF Paired, Priced
  <2>3. row(Envelope(c)).from = Envelope(c).from /\ row(Second(c)).from = Envelope(c).from
    BY <1>5, <1>8 DEF RefusedEnvelope, Envelopes
  <2>4. /\ state(Envelope(c)) # "purged" /\ state(Second(c)) # "purged"
        /\ state(Second(c)) = "refused" <=> state(Envelope(c)) = "refused"
    OBVIOUS
  <2> HIDE DEF ok, row, state
  <2>5. nextId # nextId + 1
    BY <1>0
  <2>6. /\ env'[nextId] = row(Envelope(c)) /\ env'[nextId + 1] = row(Second(c))
        /\ st'[nextId] = state(Envelope(c)) /\ st'[nextId + 1] = state(Second(c))
    BY <1>0, <2>1, <2>5 DEF StoreTypeOK
  <2>7. \A i \in Ids : nextId <= i /\ i < nextId' => i = nextId \/ i = nextId + 1
    BY <1>0, <2>1
  <2>8. ASSUME NEW i \in Ids, nextId <= i, i < nextId'
        PROVE  env'[i].from = Author(q) /\ st'[i] # "purged" /\ (st'[i] = "refused" <=> st'[nextId] = "refused")
    BY <1>4, <2>3, <2>4, <2>6, <2>7, <2>8
  <2> QED
    BY <1>0, <1>2, <1>3, <2>2, <2>8
<1> QED
  BY <1>7, <1>8 DEF Insert

(* What the step leaves a sender to show, if it writes no row of its own. *)
Shrinks(a) ==
  /\ Landed(a)' \subseteq Landed(a) /\ Recipients(a)' \subseteq Recipients(a)
  /\ ~Purged(a)' => Landed(a)' = Landed(a)
  /\ ~Purged(a)' /\ clock' < Window => Recipients(a)' = Recipients(a)

(* The rows of anybody else, and a refused row, do not count. *)
LEMMA LandedElsewhere ==
  ASSUME CallInv, TableInv, TableInv', clock \in Nat, created \in [Ids -> Nat], NEW c \in Calls, Insert(c), ~Dangling(c),
         call[c].req.op \in {"send", "ask", "ping", "control", "resend"},
         NEW a, st'[nextId] = "refused" \/ Author(call[c]) # a
  PROVE  Shrinks(a)
<1>0. clock' = clock
  BY DEF Insert
<1>1. /\ nextId \in Nat /\ nextId' \in Nat /\ nextId \in Ids /\ nextId < nextId'
      /\ \A i \in Ids : i >= nextId => st[i] = "absent"
      /\ \A i \in Ids : i >= nextId' => st'[i] = "absent"
  <2>1. nextId \in Ids /\ nextId < nextId'
    BY InsertedRows
  <2>2. /\ nextId \in Nat /\ nextId' \in Nat
        /\ \A i \in Ids : i >= nextId => st[i] = "absent"
        /\ \A i \in Ids : i >= nextId' => st'[i] = "absent"
    BY DEF TableInv, StoreTypeOK
  <2> QED
    BY <2>1, <2>2
<1>2. \A i \in Ids : i < nextId => env'[i] = env[i] /\ st'[i] = st[i] /\ created'[i] = created[i]
  <2>1. \A i \in Ids : i < nextId => st'[i] = st[i] /\ env'[i] = env[i]
    BY InsertStep
  <2>2. \A i \in Ids : i < nextId => created'[i] = created[i]
    BY InsertedRows DEF RowsGoOn
  <2> QED
    BY <2>1, <2>2
<1>3. \A i \in Ids : nextId <= i /\ i < nextId' => st'[i] = "refused" \/ env'[i].from # a
  BY InsertedRows
<1>4. \A i \in Ids : i >= nextId => i \notin Landed(a) /\ i \notin Landed(a)'
  <2> SUFFICES ASSUME NEW i \in Ids, i >= nextId
               PROVE  i \notin Landed(a) /\ i \notin Landed(a)'
    OBVIOUS
  <2>1. st[i] = "absent" /\ (st'[i] = "absent" \/ st'[i] = "refused" \/ env'[i].from # a)
    BY <1>1, <1>3
  <2> QED
    BY <2>1 DEF Landed, Rows, RowStates
<1>5. ASSUME NEW i \in Ids
      PROVE  /\ i \in Landed(a) <=> i \in Landed(a)'
             /\ i \in Landed(a) => env'[i] = env[i] /\ created'[i] = created[i]
  <2>1. CASE i >= nextId
    BY <1>4, <2>1
  <2>2. CASE i < nextId
    <3>1. env'[i] = env[i] /\ st'[i] = st[i] /\ created'[i] = created[i]
      BY <1>2, <2>2
    <3> QED
      BY <3>1 DEF Landed, Rows
  <2> QED
    BY <1>1, <2>1, <2>2
<1>6. Landed(a)' = Landed(a)
  BY <1>5 DEF Landed, Rows
<1>7. \A i \in Landed(a) : env'[i] = env[i] /\ created'[i] = created[i]
  BY <1>5 DEF Landed, Rows
<1>8. Recipients(a)' = Recipients(a)
  BY <1>0, <1>6, <1>7 DEF Recipients
<1> QED
  BY <1>6, <1>8 DEF Shrinks

(* The row of a priced call counts once. *)
LEMMA LandedHere ==
  ASSUME CallInv, TableInv, TableInv', clock \in Nat, created \in [Ids -> Nat], NEW c \in Calls, Insert(c), ~Dangling(c),
         Priced(call[c].req), st'[nextId] # "refused", NEW a, call[c].req.from = a
  PROVE  /\ Landed(a)' = Landed(a) \cup {nextId} /\ nextId \notin Landed(a)
         /\ Recipients(a)' \subseteq Recipients(a) \cup {call[c].to[call[c].k]}
         /\ clock < Window => Recipients(a)' = Recipients(a) \cup {call[c].to[call[c].k]}
<1> DEFINE x == call[c].to[call[c].k]
<1>o. call[c].req.op = "send" /\ Author(call[c]) = a
  BY DEF Priced, Author
<1>0. clock' = clock
  BY DEF Insert
<1>1. /\ nextId \in Nat /\ nextId' = nextId + 1 /\ nextId \in Ids
      /\ \A i \in Ids : i >= nextId => st[i] = "absent"
      /\ \A i \in Ids : i >= nextId + 1 => st'[i] = "absent"
  BY <1>o, InsertedRows DEF TableInv, StoreTypeOK
<1>2. \A i \in Ids : i < nextId => env'[i] = env[i] /\ st'[i] = st[i] /\ created'[i] = created[i]
  <2>1. \A i \in Ids : i < nextId => st'[i] = st[i] /\ env'[i] = env[i]
    BY <1>o, InsertStep
  <2>2. \A i \in Ids : i < nextId => created'[i] = created[i]
    BY <1>o, InsertedRows DEF RowsGoOn
  <2> QED
    BY <2>1, <2>2
<1>3. env'[nextId].from = a /\ env'[nextId].to = x /\ created'[nextId] = clock
  <2>1. nextId <= nextId /\ nextId < nextId'
    BY <1>1
  <2>2. env'[nextId].from = Author(call[c]) /\ env'[nextId].to = x
    BY <1>o, <1>1, <2>1, InsertedRows
  <2>3. created' = [i \in Ids |-> IF i >= nextId /\ i < nextId' THEN clock ELSE created[i]]
    BY <1>o, InsertedRows
  <2>4. created'[nextId] = clock
    BY <1>1, <2>1, <2>3
  <2> QED
    BY <1>o, <2>2, <2>4
<1>4. st'[nextId] \in RowStates \ {"refused"}
  BY <1>o, InsertStep DEF RowStates
<1>5. nextId \notin Landed(a) /\ nextId \in Landed(a)'
  BY <1>1, <1>3, <1>4 DEF Landed, Rows, RowStates
<1>6. ASSUME NEW i \in Ids, i # nextId
      PROVE  /\ i \in Landed(a) <=> i \in Landed(a)'
             /\ i \in Landed(a) => env'[i] = env[i] /\ created'[i] = created[i]
  <2>1. CASE i < nextId
    <3>1. env'[i] = env[i] /\ st'[i] = st[i] /\ created'[i] = created[i]
      BY <1>2, <2>1
    <3> QED
      BY <3>1 DEF Landed, Rows
  <2>2. CASE i >= nextId + 1
    <3>1. st[i] = "absent" /\ st'[i] = "absent"
      BY <1>1, <2>2
    <3> QED
      BY <3>1 DEF Landed, Rows, RowStates
  <2> QED
    BY <1>1, <1>6, <2>1, <2>2
<1>7. Landed(a)' = Landed(a) \cup {nextId}
  <2>1. \A i \in Landed(a) \cup Landed(a)' : i \in Ids
    BY <1>1 DEF Landed, Rows
  <2> QED
    BY <1>5, <1>6, <2>1
<1>8. \A i \in Landed(a) : env'[i] = env[i] /\ created'[i] = created[i]
  <2>1. \A i \in Landed(a) : i \in Ids /\ i # nextId
    BY <1>5 DEF Landed, Rows
  <2> QED
    BY <1>6, <2>1
<1>9. Recipients(a)' = {env'[i].to : i \in {j \in Landed(a) \cup {nextId} : created'[j] > clock - Window}}
  BY <1>0, <1>7 DEF Recipients
<1>10. Recipients(a)' \subseteq Recipients(a) \cup {x}
  <2>1. ASSUME NEW y \in Recipients(a)'
        PROVE  y \in Recipients(a) \cup {x}
    <3>1. PICK i \in Landed(a) \cup {nextId} : created'[i] > clock - Window /\ y = env'[i].to
      BY <1>9, <2>1
    <3>2. CASE i = nextId
      BY <1>3, <3>1, <3>2
    <3>3. CASE i \in Landed(a)
      BY <1>8, <3>1, <3>3 DEF Recipients
    <3> QED
      BY <3>2, <3>3
  <2> QED
    BY <2>1
<1>11. clock < Window => created'[nextId] > clock - Window
  BY <1>3, SendingAssumption
<1>12. Recipients(a) \subseteq Recipients(a)'
  BY <1>8, <1>9 DEF Recipients
<1>13. clock < Window => x \in Recipients(a)'
  BY <1>3, <1>9, <1>11
<1> QED
  BY <1>5, <1>7, <1>10, <1>12, <1>13

(* What is settled after a step was settled before. *)
LEMMA SettledBefore ==
  ASSUME CallInv, [OutboxNext]_outboxVars, StoreTypeOK, clock \in Nat, clock' \in Nat, RowsGoOn, NEW a, Settled(a)'
  PROVE  Settled(a)
<1>0. Window \in Nat /\ nextId \in Nat /\ clock <= clock'
  BY SendingAssumption DEF StoreTypeOK, RowsGoOn
<1>1. clock < Window
  BY <1>0 DEF Settled
<1>a. ASSUME NEW i \in Ids, st[i] # "absent"
      PROVE  /\ env'[i] = env[i]
             /\ st'[i] # st[i] => IF st[i] = "refused" THEN st'[i] = "purged"
                                  ELSE st[i] # "purged" /\ st'[i] \in (RowStates \ {"refused"}) \cup {"purged"}
  <2>1. i < nextId
    BY <1>0, <1>a DEF StoreTypeOK
  <2> QED
    BY <2>1 DEF RowsGoOn
<1>2. ~Purged(a)
  <2> SUFFICES ASSUME NEW i \in Ids, st[i] = "purged", env[i].from = a
               PROVE  Purged(a)'
    BY DEF Settled, Purged
  <2>1. env'[i] = env[i] /\ st'[i] = "purged"
    BY <1>a
  <2> QED
    BY <2>1 DEF Purged
<1>3. ~Lengthy(a)
  <2> SUFFICES ASSUME NEW i \in Landed(a), Length[env[i].body] > 1
               PROVE  Purged(a)' \/ Lengthy(a)'
    BY DEF Settled, Lengthy
  <2>1. i \in Ids /\ st[i] \in RowStates \ {"refused"} /\ env[i].from = a
    BY DEF Landed, Rows
  <2>2. env'[i] = env[i] /\ st'[i] \in (RowStates \ {"refused"}) \cup {"purged"}
    BY <1>a, <2>1 DEF RowStates
  <2>3. CASE st'[i] = "purged"
    BY <2>1, <2>2, <2>3 DEF Purged
  <2>4. CASE st'[i] \in RowStates \ {"refused"}
    <3>1. i \in Landed(a)'
      BY <2>1, <2>2, <2>4 DEF Landed, Rows
    <3> QED
      BY <2>2, <3>1 DEF Lengthy
  <2> QED
    BY <2>2, <2>3, <2>4
<1>4. ASSUME NEW c \in Calls, call[c].req.from = a, At(c, "done"), call[c].charged > 0
      PROVE  call[c].landed = Len(call[c].to)
  <2>1. call'[c] = call[c]
    BY <1>4, DoneStays DEF At
  <2> QED
    BY <1>4, <2>1 DEF Settled, At
<1> QED
  BY <1>1, <1>2, <1>3, <1>4 DEF Settled

-----------------------------------------------------------------------------
(* The arithmetic of breadth and rows *)

LEMMA BreadthOf ==
  ASSUME NEW R \in SUBSET Agents, NEW S \in SUBSET Agents, R \subseteq S
  PROVE  /\ Breadth[Cardinality(R)] \in Nat /\ Breadth[Cardinality(S)] \in Nat
         /\ Breadth[Cardinality(R)] <= Breadth[Cardinality(S)]
<1>1. IsFiniteSet(Agents) /\ 0..Cardinality(Agents) \subseteq DOMAIN Breadth
  BY BudgetAssumption, SendingAssumption
<1>2. IsFiniteSet(R) /\ IsFiniteSet(S) /\ Cardinality(Agents) \in Nat
  BY <1>1, FS_Subset, FS_CardinalityType
<1>3. Cardinality(R) \in Nat /\ Cardinality(S) \in Nat /\ Cardinality(R) <= Cardinality(S) /\ Cardinality(S) <= Cardinality(Agents)
  BY <1>1, <1>2, FS_Subset, FS_CardinalityType
<1>4. Cardinality(R) \in DOMAIN Breadth /\ Cardinality(S) \in DOMAIN Breadth
  <2>1. Cardinality(R) \in 0..Cardinality(Agents) /\ Cardinality(S) \in 0..Cardinality(Agents)
    BY <1>2, <1>3
  <2> QED
    BY <1>1, <2>1
<1> QED
  BY <1>3, <1>4, BudgetAssumption

LEMMA AlphaTimes ==
  ASSUME NEW n \in Int, NEW m \in Int
  PROVE  /\ Alpha \in Nat /\ Alpha * n \in Int /\ Alpha * (n + m) = Alpha * n + Alpha * m
         /\ n <= m => Alpha * n <= Alpha * m
<1>1. Alpha \in Nat
  BY BudgetAssumption
<1>2. Alpha * n \in Int /\ Alpha * (n + m) = Alpha * n + Alpha * m
  BY <1>1
<1>3. ASSUME n <= m PROVE Alpha * n <= Alpha * m
  <2>1. m - n \in Nat
    BY <1>3
  <2>2. Alpha * (m - n) \in Nat
    BY <1>1, <2>1
  <2>3. Alpha * (m - n) = Alpha * m - Alpha * n
    BY <1>1
  <2> QED
    BY <1>1, <2>2, <2>3
<1> QED
  BY <1>1, <1>2, <1>3

LEMMA WorthGrows ==
  ASSUME NEW R \in SUBSET Agents, NEW S \in SUBSET Agents, R \subseteq S, NEW n \in Int, NEW m \in Int, n <= m
  PROVE  Worth(R, n) \in Int /\ Worth(S, m) \in Int /\ Worth(R, n) <= Worth(S, m)
<1>1. /\ Breadth[Cardinality(R)] \in Nat /\ Breadth[Cardinality(S)] \in Nat
      /\ Breadth[Cardinality(R)] <= Breadth[Cardinality(S)]
  BY BreadthOf
<1>2. Alpha * n \in Int /\ Alpha * m \in Int /\ Alpha * n <= Alpha * m
  BY AlphaTimes
<1> QED
  BY <1>1, <1>2 DEF Worth

(* A call that names agents, with its numbers. *)
Sized(q) ==
  /\ Named(q) \in SUBSET Agents /\ Len(q.to) \in Nat /\ DOMAIN q.to = 1..Len(q.to)
  /\ q.k \in Nat /\ 1 <= q.k /\ q.k <= Len(q.to) /\ q.landed \in Nat /\ q.charged \in Nat
  /\ Handled(q) \in Nat /\ Handled(q) <= Len(q.to) /\ q.landed <= Handled(q)
  /\ Length[q.req.body] \in Nat /\ Length[q.req.body] >= 1

LEMMA PayingSized ==
  ASSUME NEW q, CallOK(q), PhaseOK(q), Priced(q.req), q.pc \notin {"idle", "resolve", "done"}
  PROVE  Sized(q)
<1>1. /\ Len(q.to) \in Nat /\ q.k \in Nat /\ 1 <= q.k /\ q.k <= Len(q.to)
      /\ q.landed \in Nat /\ q.charged \in Nat /\ DOMAIN q.to = 1..Len(q.to)
  BY CallNumbers
<1>2. q.to \in Seq(Agents) /\ q.req.body \in Bodies
  BY DEF CallOK, WellFormedRequest, Requests
<1>3. Named(q) \in SUBSET Agents
  BY <1>2, LenProperties DEF Named
<1>4. Handled(q) \in Nat /\ Handled(q) <= Len(q.to)
  BY <1>1 DEF Handled
<1>5. q.landed <= Handled(q)
  BY DEF PhaseOK
<1>6. Length[q.req.body] \in Nat /\ Length[q.req.body] >= 1
  <2>1. Length[q.req.body] \in Nat \ {0}
    BY <1>2, SendingAssumption
  <2> QED
    BY <2>1
<1> QED
  BY <1>1, <1>3, <1>4, <1>5, <1>6 DEF Sized

LEMMA CoversEnough ==
  ASSUME NEW q, Sized(q), NEW P \in Int, NEW R \in SUBSET Agents, NEW n \in Nat, Covers(q, P, R, n)
  PROVE  P >= Worth(R, n)
<1> DEFINE m == n + Len(q.to) - q.landed
<1>1. m \in Int /\ n <= m
  BY DEF Sized
<1>2. R \cup Named(q) \in SUBSET Agents /\ R \subseteq R \cup Named(q)
  BY DEF Sized
<1>3. P >= Worth(R \cup Named(q), m)
  BY DEF Covers
<1> HIDE DEF m
<1>4. Worth(R, n) \in Int /\ Worth(R \cup Named(q), m) \in Int /\ Worth(R, n) <= Worth(R \cup Named(q), m)
  BY <1>1, <1>2, WorthGrows
<1> QED
  BY <1>3, <1>4

(* Once all a call was charged for has landed, or nothing was charged. *)
LEMMA MatchesEnough ==
  ASSUME NEW q, Sized(q), NEW P \in Int, NEW R \in SUBSET Agents, NEW n \in Nat, Matches(q, P, R, n),
         q.charged > 0 => q.landed = Len(q.to), q.landed > 0 => Length[q.req.body] = 1
  PROVE  P = Worth(R, n)
<1>1. CASE q.charged = 0
  <2>1. /\ P = Worth(R \cup Named(q), n + Len(q.to) - q.landed) /\ Alpha = 0
        /\ Breadth[Cardinality(R \cup Named(q))] = Breadth[Cardinality(R)]
    BY <1>1 DEF Matches
  <2>2. n + Len(q.to) - q.landed \in Int
    BY DEF Sized
  <2> QED
    BY <2>1, <2>2 DEF Worth
<1>2. CASE q.charged > 0
  <2>1. q.landed = Len(q.to) /\ q.landed > 0 /\ Length[q.req.body] = 1 /\ Handled(q) = q.landed
    BY <1>2 DEF Sized
  <2>2. P = Worth(R \cup Named(q), n + Len(q.to) - q.landed) /\ \A i \in 1..Len(q.to) : q.to[i] \in R
    BY <2>1 DEF Matches
  <2>3. R \cup Named(q) = R
    BY <2>2 DEF Named, Sized
  <2>4. n + Len(q.to) - q.landed = n
    BY <2>1 DEF Sized
  <2> QED
    BY <2>2, <2>3, <2>4
<1> QED
  BY <1>1, <1>2 DEF Sized

LEMMA CoversSteady ==
  ASSUME NEW q, Sized(q), Paying(q), NEW p, Steady(q, p), NEW P \in Int, NEW R \in SUBSET Agents, NEW n \in Nat,
         NEW S, S \subseteq R, NEW m \in Nat, m <= n, Covers(q, P, R, n)
  PROVE  Covers(p, P, S, m)
<1> DEFINE x == n + Len(q.to) - q.landed
           y == m + Len(q.to) - q.landed
<1>0. p.to = q.to /\ p.landed = q.landed /\ p.charged = q.charged /\ Named(p) = Named(q) /\ q.charged \in Nat
  BY DEF Steady, Named, Sized
<1>1. x \in Int /\ y \in Int /\ y <= x
  BY DEF Sized
<1>2. R \cup Named(q) \in SUBSET Agents /\ S \cup Named(q) \in SUBSET Agents /\ S \cup Named(q) \subseteq R \cup Named(q)
  BY DEF Sized
<1>3. P >= Worth(R \cup Named(q), x) /\ (q.landed = 0 => P - q.charged >= Worth(R, n))
  BY DEF Covers
<1>4. Covers(p, P, S, m) <=> P >= Worth(S \cup Named(q), y) /\ (q.landed = 0 => P - q.charged >= Worth(S, m))
  BY <1>0 DEF Covers
<1> HIDE DEF x, y
<1>5. Worth(S \cup Named(q), y) \in Int /\ Worth(R \cup Named(q), x) \in Int /\ Worth(S \cup Named(q), y) <= Worth(R \cup Named(q), x)
  BY <1>1, <1>2, WorthGrows
<1>6. Worth(S, m) \in Int /\ Worth(R, n) \in Int /\ Worth(S, m) <= Worth(R, n)
  BY WorthGrows
<1> QED
  BY <1>0, <1>3, <1>4, <1>5, <1>6

LEMMA MatchesSteady ==
  ASSUME NEW q, Sized(q), Paying(q), NEW p, Steady(q, p), Handled(p) \in Int, NEW P, NEW R, NEW n, Matches(q, P, R, n)
  PROVE  Matches(p, P, R, n)
<1>0. /\ p.to = q.to /\ p.landed = q.landed /\ p.charged = q.charged /\ p.req = q.req /\ Named(p) = Named(q)
      /\ Handled(p) >= Handled(q)
  BY DEF Steady, Named
<1>1. p.landed = Handled(p) => Handled(p) = Handled(q) /\ q.landed = Handled(q)
  BY <1>0 DEF Sized
<1> QED
  BY <1>0, <1>1 DEF Matches

(* The price of a send is what it adds, or more (Cost, cost.go:65). *)
LEMMA QuoteAdds ==
  ASSUME NEW q, Sized(q), NEW R \in SUBSET Agents, NEW n \in Nat,
         NEW cost, cost = Cost(Cardinality(R), Cardinality(R \cup Named(q)), Len(q.to), Length[q.req.body])
  PROVE  /\ cost \in Nat
         /\ Worth(R, n) + cost >= Worth(R \cup Named(q), n + Len(q.to))
         /\ Length[q.req.body] = 1 => Worth(R, n) + cost = Worth(R \cup Named(q), n + Len(q.to))
         /\ cost = 0 => Alpha = 0 /\ Breadth[Cardinality(R \cup Named(q))] = Breadth[Cardinality(R)]
<1> DEFINE b == Breadth[Cardinality(R)]
           d == Breadth[Cardinality(R \cup Named(q))]
           z == Len(q.to)
           l == Length[q.req.body]
           base == d - b + Alpha * z
<1>1. b \in Nat /\ d \in Nat /\ b <= d
  BY BreadthOf DEF Sized
<1>2. z \in Nat /\ z >= 1 /\ l \in Nat /\ l >= 1
  BY DEF Sized
<1>3. Alpha \in Nat /\ Alpha * z \in Nat /\ Alpha * n \in Nat /\ Alpha * (n + z) = Alpha * n + Alpha * z
  <2>1. Alpha \in Nat /\ z \in Int /\ n \in Int
    BY <1>2, BudgetAssumption
  <2>2. Alpha * (n + z) = Alpha * n + Alpha * z
    BY <2>1, AlphaTimes
  <2> HIDE DEF z
  <2>3. Alpha * z \in Nat /\ Alpha * n \in Nat
    BY <1>2, <2>1
  <2> QED
    BY <2>1, <2>2, <2>3
<1>4. cost = base * l
  BY <1>1, <1>2 DEF Cost
<1>5. base \in Nat
  BY <1>1, <1>3
<1>6. Worth(R, n) = b + Alpha * n /\ Worth(R \cup Named(q), n + z) = d + Alpha * (n + z)
  BY DEF Worth
<1>7. Worth(R \cup Named(q), n + z) = Worth(R, n) + base /\ Worth(R, n) \in Nat
  BY <1>1, <1>3, <1>6
<1>8. base = 0 => d = b /\ Alpha = 0
  <2>1. Alpha # 0 => Alpha * z > 0
    BY <1>2, <1>3
  <2> QED
    BY <1>1, <1>3, <2>1
<1> HIDE DEF base, l, b, d, z
<1>9. base * l \in Nat /\ base * l >= base /\ (l = 1 => base * l = base)
  <2>1. base * l = base + base * (l - 1)
    BY <1>2, <1>5
  <2>2. base * (l - 1) \in Nat
    BY <1>2, <1>5
  <2> QED
    BY <1>2, <1>5, <2>1, <2>2
<1>10. cost = 0 => base = 0
  BY <1>4, <1>5, <1>9
<1> QED
  BY <1>4, <1>5, <1>7, <1>8, <1>9, <1>10 DEF l, z, b, d

LEMMA ChargeCovers ==
  ASSUME NEW q, Sized(q), q.landed = 0, NEW p, NEW cost, Charging(q, p, cost), NEW P \in Int,
         NEW R \in SUBSET Agents, NEW n \in Nat,
         cost = Cost(Cardinality(R), Cardinality(R \cup Named(q)), Len(q.to), Length[q.req.body]),
         P >= Worth(R, n)
  PROVE  /\ Covers(p, P + cost, R, n)
         /\ P = Worth(R, n) => Matches(p, P + cost, R, n)
<1>0. /\ p.to = q.to /\ p.landed = 0 /\ p.charged = cost /\ p.req = q.req /\ Named(p) = Named(q) /\ Handled(p) = q.k - 1
      /\ q.k \in Nat /\ Len(q.to) \in Nat
  BY DEF Charging, Named, Sized
<1>1. /\ cost \in Nat
      /\ Worth(R, n) + cost >= Worth(R \cup Named(q), n + Len(q.to))
      /\ Length[q.req.body] = 1 => Worth(R, n) + cost = Worth(R \cup Named(q), n + Len(q.to))
      /\ cost = 0 => Alpha = 0 /\ Breadth[Cardinality(R \cup Named(q))] = Breadth[Cardinality(R)]
  BY QuoteAdds
<1>2. Worth(R, n) \in Int /\ Worth(R \cup Named(q), n + Len(q.to)) \in Int
  BY <1>0, WorthGrows DEF Sized
<1>3. n + Len(p.to) - p.landed = n + Len(q.to)
  BY <1>0
<1>4. P + cost >= Worth(R \cup Named(q), n + Len(q.to)) /\ (P + cost) - cost = P
  BY <1>1, <1>2
<1>5. Covers(p, P + cost, R, n)
  BY <1>0, <1>3, <1>4 DEF Covers
<1>6. ASSUME P = Worth(R, n)
      PROVE  Matches(p, P + cost, R, n)
  <2>1. cost = 0 => P + cost = Worth(R \cup Named(q), n + Len(q.to))
    <3> SUFFICES ASSUME cost = 0 PROVE P = Worth(R \cup Named(q), n + Len(q.to))
      BY <1>1
    <3>1. Alpha = 0 /\ Breadth[Cardinality(R \cup Named(q))] = Breadth[Cardinality(R)]
      BY <1>1
    <3>2. n + Len(q.to) \in Int
      BY <1>0
    <3> QED
      BY <1>6, <3>1, <3>2 DEF Worth
  <2>2. Length[q.req.body] = 1 => P + cost = Worth(R \cup Named(q), n + Len(q.to))
    BY <1>1, <1>6
  <2>3. p.landed = Handled(p) => 1..Handled(p) = {}
    BY <1>0
  <2> QED
    BY <1>0, <1>1, <1>3, <1>4, <1>6, <2>1, <2>2, <2>3 DEF Matches
<1> QED
  BY <1>5, <1>6

LEMMA LandingCovers ==
  ASSUME NEW q, Sized(q), Priced(q.req), NEW p, NEW i, Landing(q, p, i), NEW P \in Int,
         NEW R \in SUBSET Agents, NEW n \in Nat, NEW S, S \subseteq R \cup {q.to[q.k]}, Covers(q, P, R, n)
  PROVE  Covers(p, P, S, n + 1)
<1>0. p.to = q.to /\ p.landed = q.landed + 1 /\ Named(p) = Named(q) /\ q.landed \in Nat /\ Len(q.to) \in Nat
  BY DEF Landing, Named, Sized
<1> DEFINE x == n + Len(q.to) - q.landed
<1>1. (n + 1) + Len(p.to) - p.landed = x /\ x \in Int /\ p.landed # 0
  BY <1>0
<1>2. q.to[q.k] \in Named(q)
  BY DEF Sized, Named
<1>3. S \cup Named(q) \subseteq R \cup Named(q) /\ S \cup Named(q) \in SUBSET Agents /\ R \cup Named(q) \in SUBSET Agents
  BY <1>2 DEF Sized
<1>4. P >= Worth(R \cup Named(q), x)
  BY DEF Covers
<1> HIDE DEF x
<1>5. Worth(S \cup Named(q), x) \in Int /\ Worth(R \cup Named(q), x) \in Int /\ Worth(S \cup Named(q), x) <= Worth(R \cup Named(q), x)
  BY <1>1, <1>3, WorthGrows
<1>6. P >= Worth(S \cup Named(q), x)
  BY <1>4, <1>5
<1> QED
  BY <1>0, <1>1, <1>6 DEF Covers

LEMMA LandingMatches ==
  ASSUME NEW q, Sized(q), Priced(q.req), NEW p, NEW i, Landing(q, p, i), NEW P \in Int,
         NEW R \in SUBSET Agents, NEW n \in Nat, NEW S, S = R \cup {q.to[q.k]}, Matches(q, P, R, n)
  PROVE  Matches(p, P, S, n + 1)
<1>0. /\ p.to = q.to /\ p.landed = q.landed + 1 /\ p.charged = q.charged /\ p.req = q.req /\ Named(p) = Named(q)
      /\ q.landed \in Nat /\ Len(q.to) \in Nat /\ q.k \in Nat /\ 1 <= q.k
      /\ Handled(p) = q.k /\ Handled(q) = q.k - 1
  BY DEF Landing, Named, Sized
<1>1. (n + 1) + Len(p.to) - p.landed = n + Len(q.to) - q.landed /\ p.landed # 0
  <2>1. ASSUME NEW x \in Nat, NEW y \in Nat
        PROVE  (n + 1) + x - (y + 1) = n + x - y /\ y + 1 # 0
    OBVIOUS
  <2> QED
    BY <1>0, <2>1
<1>2. q.to[q.k] \in Named(q)
  BY DEF Sized, Named
<1>3. S \cup Named(q) = R \cup Named(q)
  BY <1>2
<1>4. q.charged = 0 => Breadth[Cardinality(R \cup Named(q))] = Breadth[Cardinality(S)]
  <2> SUFFICES ASSUME q.charged = 0 PROVE Breadth[Cardinality(R \cup Named(q))] = Breadth[Cardinality(S)]
    OBVIOUS
  <2>1. Breadth[Cardinality(R \cup Named(q))] = Breadth[Cardinality(R)]
    BY DEF Matches
  <2>2. R \cup Named(q) \in SUBSET Agents /\ S \in SUBSET Agents /\ S \subseteq R \cup Named(q) /\ R \subseteq S
    BY <1>2 DEF Sized
  <2>3. /\ Breadth[Cardinality(R)] \in Nat /\ Breadth[Cardinality(S)] \in Nat /\ Breadth[Cardinality(R \cup Named(q))] \in Nat
        /\ Breadth[Cardinality(R)] <= Breadth[Cardinality(S)]
        /\ Breadth[Cardinality(S)] <= Breadth[Cardinality(R \cup Named(q))]
    BY <2>2, BreadthOf
  <2> QED
    BY <2>1, <2>3
<1>5. ASSUME p.landed = Handled(p), NEW j \in 1..Handled(p)
      PROVE  p.to[j] \in S
  <2>1. q.landed = Handled(q)
    BY <1>0, <1>5
  <2>2. \A x \in 1..(q.k - 1) : q.to[x] \in R
    BY <1>0, <2>1 DEF Matches
  <2>3. j = q.k \/ j \in 1..(q.k - 1)
    BY <1>0, <1>5
  <2> QED
    BY <1>0, <2>2, <2>3
<1> QED
  BY <1>0, <1>1, <1>3, <1>4, <1>5 DEF Matches

-----------------------------------------------------------------------------
(* The ledger, step by step *)

LEMMA PaidIs ==
  ASSUME NEW a
  PROVE  /\ Paid(a) = Charges(call, {c \in Calls : call[c].req.from = a})
         /\ Paid(a)' = Charges(call', {c \in Calls : call'[c].req.from = a})
<1>1. Paid(a) = Charges(call, {c \in Calls : call[c].req.from = a})
  BY DEF Paid, Charges
<1>2. Paid(a)' = Charges(call', {c \in Calls : call'[c].req.from = a})
  BY DEF Paid, Charges, MapThenSumSet, MapThenFoldSet
<1> QED
  BY <1>1, <1>2

LEMMA PaidStep ==
  ASSUME CallInv, CallInv', NEW c \in Calls, NEW a,
         \A d \in Calls : call'[d].req = call[d].req,
         \A d \in Calls \ {c} : call'[d].charged = call[d].charged
  PROVE  /\ Paid(a) \in Nat
         /\ Paid(a)' = Paid(a) + IF call[c].req.from = a THEN call'[c].charged - call[c].charged ELSE 0
<1> DEFINE S == {d \in Calls : call[d].req.from = a}
<1>1. IsFiniteSet(S)
  BY SendingAssumption, FS_Subset
<1>2. \A d \in Calls : call[d].charged \in Nat /\ call'[d].charged \in Nat
  BY CallNumbers DEF CallInv
<1>3. {d \in Calls : call'[d].req.from = a} = S
  OBVIOUS
<1>4. Paid(a) = Charges(call, S) /\ Paid(a)' = Charges(call', S)
  BY <1>3, PaidIs
<1>5. c \in S <=> call[c].req.from = a
  OBVIOUS
<1>6. \A d \in S : d \in Calls
  OBVIOUS
<1> HIDE DEF S
<1>7. /\ Charges(call, S) \in Nat
      /\ Charges(call', S) = Charges(call, S) + IF c \in S THEN call'[c].charged - call[c].charged ELSE 0
  BY <1>1, <1>2, <1>6, ChargesDiffer
<1> QED
  BY <1>4, <1>5, <1>7

LEMMA PaidType ==
  ASSUME CallInv, NEW a
  PROVE  Paid(a) \in Nat
<1> DEFINE S == {d \in Calls : call[d].req.from = a}
<1>1. IsFiniteSet(S)
  BY SendingAssumption, FS_Subset
<1>2. \A d \in S : call[d].charged \in Nat
  BY CallNumbers DEF CallInv
<1>3. Paid(a) = Charges(call, S)
  BY PaidIs
<1> HIDE DEF S
<1>4. Charges(call, S) \in Nat
  BY <1>1, <1>2, ChargesDiffer
<1> QED
  BY <1>3, <1>4

LEMMA PaidSame ==
  ASSUME CallInv, CallInv', NEW a, \A d \in Calls : call'[d].req = call[d].req /\ call'[d].charged = call[d].charged
  PROVE  Paid(a)' = Paid(a)
<1>1. CASE Calls = {}
  <2>1. {d \in Calls : call[d].req.from = a} = {} /\ {d \in Calls : call'[d].req.from = a} = {}
    BY <1>1
  <2>2. ASSUME NEW k PROVE Charges(k, {}) = 0
    <3>1. PICK f : Tallies(f, k, {}) /\ Charges(k, {}) = f[{}]
      BY FS_EmptySet, ChargesRecur
    <3> QED
      BY <3>1 DEF Tallies
  <2> QED
    BY <2>1, <2>2, PaidIs
<1>2. ASSUME NEW c \in Calls
      PROVE  Paid(a)' = Paid(a)
  <2>1. Paid(a) \in Nat /\ Paid(a)' = Paid(a) + IF call[c].req.from = a THEN call'[c].charged - call[c].charged ELSE 0
    BY PaidStep
  <2>2. call[c].charged \in Nat /\ call'[c].charged = call[c].charged
    BY CallNumbers DEF CallInv
  <2> QED
    BY <2>1, <2>2
<1> QED
  BY <1>1, <1>2

LEMMA Shown ==
  ASSUME StoreTypeOK, NEW a
  PROVE  IsFiniteSet(Landed(a)) /\ Cardinality(Landed(a)) \in Nat /\ Recipients(a) \in SUBSET Agents
<1>1. Landed(a) \subseteq 1..MaxId
  BY DEF Landed, Rows
<1>2. IsFiniteSet(Landed(a)) /\ Cardinality(Landed(a)) \in Nat
  <2>1. IsFiniteSet(1..MaxId)
    BY StoreAssumption, FS_Interval
  <2> QED
    BY <1>1, <2>1, FS_Subset, FS_CardinalityType
<1>3. Recipients(a) \in SUBSET Agents
  BY DEF Recipients, Landed, Rows, StoreTypeOK, Envelopes
<1> QED
  BY <1>2, <1>3

LEMMA ShownNext ==
  ASSUME StoreTypeOK', NEW a
  PROVE  IsFiniteSet(Landed(a)') /\ Cardinality(Landed(a)') \in Nat /\ Recipients(a)' \in SUBSET Agents
<1>1. Landed(a)' \subseteq 1..MaxId
  BY DEF Landed, Rows
<1>2. IsFiniteSet(Landed(a)') /\ Cardinality(Landed(a)') \in Nat
  <2>1. IsFiniteSet(1..MaxId)
    BY StoreAssumption, FS_Interval
  <2> QED
    BY <1>1, <2>1, FS_Subset, FS_CardinalityType
<1>3. Recipients(a)' \in SUBSET Agents
  BY DEF Recipients, Landed, Rows, StoreTypeOK, Envelopes
<1> QED
  BY <1>2, <1>3

(* A settled sender's rows were short. *)
LEMMA ShortBodies ==
  ASSUME CallInv, StoreTypeOK, NEW a, Settled(a), NEW c \in Calls, TraceOK(call[c]), Priced(call[c].req),
         call[c].req.from = a, call[c].landed > 0
  PROVE  Length[call[c].req.body] = 1
<1> DEFINE i == call[c].row
<1>1. i \in Ids /\ i < nextId /\ env[i].from = a /\ env[i].body = call[c].req.body /\ st[i] # "refused"
  BY DEF TraceOK, Author, Priced
<1>2. st[i] # "absent"
  BY <1>1 DEF StoreTypeOK
<1>3. st[i] # "purged"
  BY <1>1 DEF Settled, Purged
<1>4. i \in Landed(a)
  BY <1>1, <1>2, <1>3 DEF Landed, Rows, StoreTypeOK, States
<1>5. ~(Length[call[c].req.body] > 1)
  BY <1>1, <1>4 DEF Settled, Lengthy
<1>6. call[c].req.body \in Bodies
  BY DEF CallInv, CallOK, WellFormedRequest, Requests
<1>7. Length[call[c].req.body] \in Nat \ {0}
  BY <1>6, SendingAssumption
<1> QED
  BY <1>5, <1>7

-----------------------------------------------------------------------------
(* The ledger of one sender, step by step *)

LEMMA PayingActive ==
  ASSUME NEW q, Paying(q)
  PROVE  Priced(q.req) /\ q.pc \notin {"idle", "resolve", "charge", "done"}
BY DEF Paying

(* A step in which the sender pays for nothing and writes nothing.         *)
LEMMA BalancedDrift ==
  ASSUME CallInv, CallInv', StoreTypeOK, StoreTypeOK', NEW a, Balanced(a), Shrinks(a), Settled(a)' => Settled(a),
         Paid(a)' = Paid(a),
         \A d \in Calls : PhaseOK(call[d]) /\ TraceOK(call[d]) /\ call'[d].req = call[d].req,
         \A d \in Calls : Priced(call[d].req) /\ call[d].req.from = a => Steady(call[d], call'[d])
  PROVE  Balanced(a)'
<1> DEFINE P == Paid(a)
           R == Recipients(a)
           n == Cardinality(Landed(a))
           S == Recipients(a)'
           m == Cardinality(Landed(a)')
<1>0. /\ P \in Int /\ R \in SUBSET Agents /\ n \in Nat /\ S \in SUBSET Agents /\ m \in Nat
      /\ IsFiniteSet(Landed(a))
  BY PaidType, Shown, ShownNext
<1>1. S \subseteq R /\ m <= n
  BY <1>0, FS_Subset DEF Shrinks
<1>2. ASSUME NEW c \in PayingFor(a)
      PROVE  /\ c \in Calls /\ call[c].req.from = a /\ Priced(call[c].req) /\ Paying(call[c]) /\ Sized(call[c])
             /\ Steady(call[c], call'[c]) /\ Handled(call'[c]) \in Int
  <2>1. c \in Calls /\ call[c].req.from = a /\ Priced(call[c].req) /\ Paying(call[c])
    BY PayingActive DEF PayingFor
  <2>2. Sized(call[c])
    BY <2>1, PayingActive, PayingSized DEF CallInv
  <2>3. Handled(call'[c]) \in Int
    <3>1. call'[c].k \in Nat
      BY <2>1, CallNumbers DEF CallInv
    <3> QED
      BY <3>1 DEF Handled
  <2> QED
    BY <2>1, <2>2, <2>3
<1>3. ASSUME NEW c \in PayingFor(a)'
      PROVE  c \in PayingFor(a)
  <2>1. c \in Calls /\ call'[c].req.from = a /\ Paying(call'[c])
    BY <1>3 DEF PayingFor
  <2>2. Priced(call[c].req) /\ call[c].req.from = a
    BY <2>1, PayingActive
  <2>3. Paying(call[c])
    BY <2>1, <2>2 DEF Steady
  <2> QED
    BY <2>1, <2>2, <2>3 DEF PayingFor
<1>4. /\ P >= Worth(R, n)
      /\ \A c \in PayingFor(a) : Covers(call[c], P, R, n)
      /\ Settled(a) => /\ PayingFor(a) = {} => P = Worth(R, n)
                       /\ \A c \in PayingFor(a) : Matches(call[c], P, R, n)
  BY DEF Balanced
<1>a. Settled(a)' => S = R /\ Landed(a)' = Landed(a)
  BY DEF Shrinks, Settled
<1>b. Settled(a)' => S = R /\ m = n
  BY <1>a
<1> HIDE DEF P, R, n, S, m
<1>5. P >= Worth(S, m)
  BY <1>0, <1>1, <1>4, WorthGrows
<1>6. ASSUME NEW c \in PayingFor(a)'
      PROVE  Covers(call'[c], P, S, m)
  <2>1. c \in PayingFor(a)
    BY <1>3
  <2> QED
    BY <1>0, <1>1, <1>2, <1>4, <2>1, CoversSteady
<1>7. ASSUME Settled(a)', NEW c \in PayingFor(a)'
      PROVE  Matches(call'[c], P, R, n)
  <2>1. c \in PayingFor(a)
    BY <1>3
  <2> QED
    BY <1>2, <1>4, <1>7, <2>1, MatchesSteady
<1>8. ASSUME Settled(a)', PayingFor(a)' = {}
      PROVE  P = Worth(R, n)
  <2>1. CASE PayingFor(a) = {}
    BY <1>4, <1>8, <2>1
  <2>2. ASSUME NEW c \in PayingFor(a)
        PROVE  P = Worth(R, n)
    <3>1. call'[c].pc = "done" \/ Paying(call'[c])
      BY <1>2 DEF Steady
    <3>2. ~Paying(call'[c])
      BY <1>2, <1>8 DEF PayingFor
    <3>3. call'[c].charged > 0 => call'[c].landed = Len(call'[c].to)
      <4>1. c \in Calls /\ call'[c].req.from = a /\ call'[c].pc = "done"
        BY <1>2, <3>1, <3>2
      <4> QED
        BY <1>8, <4>1 DEF Settled, At
    <3>4. call[c].charged > 0 => call[c].landed = Len(call[c].to)
      BY <1>2, <3>3 DEF Steady
    <3>5. call[c].landed > 0 => Length[call[c].req.body] = 1
      BY <1>2, <1>8, ShortBodies
    <3>6. Matches(call[c], P, R, n)
      BY <1>4, <1>8
    <3> QED
      BY <1>0, <1>2, <3>4, <3>5, <3>6, MatchesEnough
  <2> QED
    BY <2>1, <2>2
<1>9. /\ P >= Worth(S, m)
      /\ \A c \in PayingFor(a)' : Covers(call'[c], P, S, m)
      /\ Settled(a)' => /\ PayingFor(a)' = {} => P = Worth(S, m)
                        /\ \A c \in PayingFor(a)' : Matches(call'[c], P, S, m)
  BY <1>b, <1>5, <1>6, <1>7, <1>8
<1> QED
  BY <1>9 DEF Balanced, P, S, m, Worth, Covers, Matches

(* The only call that can be paying is the one that is under way. *)
LEMMA OnePays ==
  ASSUME NEW a, Alone(a), NEW c \in Calls, Active(c), Priced(call[c].req), call[c].req.from = a
  PROVE  PayingFor(a) \subseteq {c}
<1>1. ASSUME NEW d \in PayingFor(a)
      PROVE  d = c
  <2>1. d \in Calls /\ call[d].req.from = a /\ Priced(call[d].req) /\ Active(d)
    BY PayingActive DEF PayingFor, Active
  <2> QED
    BY <2>1 DEF Alone
<1> QED
  BY <1>1

LEMMA OnePaysNext ==
  ASSUME NEW a, NEW c \in Calls, PayingFor(a) \subseteq {c}, \A d \in Calls \ {c} : call'[d] = call[d]
  PROVE  PayingFor(a)' \subseteq {c}
<1>1. ASSUME NEW d \in PayingFor(a)', d # c
      PROVE  FALSE
  <2>1. d \in Calls /\ call'[d].req.from = a /\ Paying(call'[d])
    BY <1>1 DEF PayingFor
  <2>2. d \in PayingFor(a)
    BY <1>1, <2>1 DEF PayingFor
  <2> QED
    BY <1>1, <2>2
<1> QED
  BY <1>1

(* A call is charged for the recipients it adds to those the window holds. *)
LEMMA BalancedCharge ==
  ASSUME CallInv, CallInv', StoreTypeOK, StoreTypeOK', NEW c \in Calls, NEW a, call[c].req.from = a,
         PhaseOK(call[c]), Alone(a), Balanced(a), Settled(a)' => Settled(a),
         Charging(call[c], call'[c], Quote(a, call[c].to, call[c].req.body)),
         \A d \in Calls \ {c} : call'[d] = call[d],
         Landed(a)' = Landed(a), Recipients(a)' = Recipients(a)
  PROVE  Balanced(a)'
<1> DEFINE q == call[c]
           P == Paid(a)
           R == Recipients(a)
           n == Cardinality(Landed(a))
           cost == Quote(a, q.to, q.req.body)
<1>0. P \in Int /\ R \in SUBSET Agents /\ n \in Nat
  BY PaidType, Shown
<1>1. Priced(q.req) /\ q.pc = "charge" /\ ~Paying(q) /\ q.charged = 0 /\ q.landed = 0
  <2>1. Priced(q.req) /\ q.pc = "charge"
    BY DEF Charging
  <2>2. ~Paying(q)
    BY <2>1, PayingActive
  <2> QED
    BY <2>1, <2>2 DEF PhaseOK
<1>2. Sized(q)
  BY <1>1, PayingSized DEF CallInv
<1>3. PayingFor(a) = {}
  <2>1. PayingFor(a) \subseteq {c}
    BY <1>1, OnePays DEF Active
  <2>2. c \notin PayingFor(a)
    BY <1>1 DEF PayingFor
  <2> QED
    BY <2>1, <2>2
<1>4. PayingFor(a)' = {c}
  <2>1. PayingFor(a)' \subseteq {c}
    BY <1>3, OnePaysNext
  <2>2. c \in PayingFor(a)'
    BY DEF PayingFor, Charging
  <2> QED
    BY <2>1, <2>2
<1>5. Reached(a) = R
  BY DEF Reached, Recipients, Landed
<1>6. cost = Cost(Cardinality(R), Cardinality(R \cup Named(q)), Len(q.to), Length[q.req.body])
  BY <1>5 DEF Quote, Named
<1>7. Paid(a)' = P + cost
  <2>1. call'[c].charged = cost /\ call'[c].req = q.req
    BY DEF Charging
  <2>2. \A d \in Calls : call'[d].req = call[d].req
    BY <2>1
  <2>3. Paid(a)' = Paid(a) + IF call[c].req.from = a THEN call'[c].charged - call[c].charged ELSE 0
    BY <2>2, PaidStep
  <2>4. cost \in Nat
    BY <2>1, CallNumbers DEF CallInv
  <2> QED
    BY <1>0, <1>1, <2>1, <2>3, <2>4
<1>8. P >= Worth(R, n) /\ (Settled(a)' => P = Worth(R, n))
  BY <1>3 DEF Balanced
<1> HIDE DEF P, R, n, cost, q
<1>9. Covers(call'[c], P + cost, R, n) /\ (Settled(a)' => Matches(call'[c], P + cost, R, n))
  BY <1>0, <1>1, <1>2, <1>6, <1>8, ChargeCovers DEF q, cost
<1>10. P + cost >= Worth(R, n)
  <2>1. cost \in Nat
    BY <1>0, <1>2, <1>6, QuoteAdds
  <2>2. Worth(R, n) \in Int
    BY <1>0, WorthGrows
  <2> QED
    BY <1>0, <1>8, <2>1, <2>2
<1> QED
  BY <1>4, <1>7, <1>9, <1>10 DEF Balanced, P, R, n, Worth, Covers, Matches

(* What is refunded was paid for nothing that is there. *)
LEMMA BalancedRefund ==
  ASSUME CallInv, CallInv', StoreTypeOK, StoreTypeOK', NEW c \in Calls, NEW a, call[c].req.from = a,
         PhaseOK(call[c]), Alone(a), Balanced(a), Settled(a)' => Settled(a),
         Refunding(call[c], call'[c]),
         \A d \in Calls \ {c} : call'[d] = call[d],
         Landed(a)' = Landed(a), Recipients(a)' = Recipients(a)
  PROVE  Balanced(a)'
<1> DEFINE q == call[c]
           P == Paid(a)
           R == Recipients(a)
           n == Cardinality(Landed(a))
<1>0. P \in Int /\ R \in SUBSET Agents /\ n \in Nat
  BY PaidType, Shown
<1>1. Priced(q.req) /\ q.pc = "refund" /\ Paying(q) /\ q.landed = 0
  BY DEF Refunding, PhaseOK, Paying
<1>2. q.charged \in Nat /\ call'[c].charged = 0 /\ call'[c].req = q.req /\ ~Paying(call'[c])
  BY CallNumbers, PayingActive DEF Refunding, CallInv
<1>3. c \in PayingFor(a)
  BY <1>1 DEF PayingFor
<1>4. PayingFor(a)' = {}
  <2>1. PayingFor(a)' \subseteq {c}
    BY <1>1, OnePays, OnePaysNext DEF Active
  <2>2. c \notin PayingFor(a)'
    BY <1>2 DEF PayingFor
  <2> QED
    BY <2>1, <2>2
<1>5. Paid(a)' = P - q.charged
  <2>2. \A d \in Calls : call'[d].req = call[d].req
    BY <1>2
  <2>3. Paid(a)' = Paid(a) + IF call[c].req.from = a THEN call'[c].charged - call[c].charged ELSE 0
    BY <1>2, <2>2, PaidStep
  <2> QED
    BY <1>0, <1>2, <2>3
<1>6. P - q.charged >= Worth(R, n) /\ (Settled(a)' => P - q.charged = Worth(R, n))
  BY <1>1, <1>3 DEF Balanced, Covers, Matches
<1> QED
  BY <1>4, <1>5, <1>6 DEF Balanced, Worth

LEMMA LandingSized ==
  ASSUME NEW q, Sized(q), Priced(q.req), NEW p, CallOK(p), NEW i, Landing(q, p, i)
  PROVE  Sized(p)
<1>1. p.to = q.to /\ p.req = q.req /\ Handled(p) = q.k /\ PhaseOK(p)
  BY DEF Landing
<1>2. Named(p) = Named(q)
  BY <1>1 DEF Named
<1>3. /\ Len(p.to) \in Nat /\ p.k \in Nat /\ 1 <= p.k /\ p.k <= Len(p.to)
      /\ p.landed \in Nat /\ p.charged \in Nat
  BY CallNumbers
<1>4. p.landed <= Handled(p)
  BY <1>1 DEF PhaseOK
<1> QED
  BY <1>1, <1>2, <1>3, <1>4 DEF Sized

(* A row that lands was paid for. *)
LEMMA BalancedLanding ==
  ASSUME CallInv, CallInv', TableInv, TableInv', clock \in Nat, created \in [Ids -> Nat], NEW c \in Calls, NEW a,
         call[c].req.from = a, PhaseOK(call[c]), Alone(a), Balanced(a), Settled(a)' => Settled(a),
         Insert(c), ~Dangling(c), Priced(call[c].req), st'[nextId] # "refused",
         Landing(call[c], call'[c], nextId), \A d \in Calls \ {c} : call'[d] = call[d]
  PROVE  Balanced(a)'
<1> DEFINE q == call[c]
           p == call'[c]
           P == Paid(a)
           R == Recipients(a)
           n == Cardinality(Landed(a))
           S == Recipients(a)'
<1>z. StoreTypeOK /\ StoreTypeOK'
  BY DEF TableInv
<1>0. P \in Int /\ R \in SUBSET Agents /\ n \in Nat /\ S \in SUBSET Agents /\ IsFiniteSet(Landed(a))
  BY <1>z, PaidType, Shown, ShownNext
<1>1. /\ Landed(a)' = Landed(a) \cup {nextId} /\ nextId \notin Landed(a)
      /\ S \subseteq R \cup {q.to[q.k]}
      /\ clock < Window => S = R \cup {q.to[q.k]}
  BY LandedHere
<1>2. Cardinality(Landed(a)') = n + 1
  BY <1>0, <1>1, FS_AddElement
<1>3. /\ p.req = q.req /\ p.charged = q.charged /\ p.to = q.to /\ Paying(q) /\ (p.pc = "done" \/ Paying(p))
  BY DEF Landing
<1>4. Sized(q) /\ Sized(p)
  BY <1>3, PayingActive, PayingSized, LandingSized DEF CallInv
<1>5. c \in PayingFor(a) /\ PayingFor(a)' \subseteq {c} /\ (~Paying(p) => PayingFor(a)' = {})
  <2>1. c \in PayingFor(a) /\ PayingFor(a) \subseteq {c}
    BY <1>3, PayingActive, OnePays DEF PayingFor, Active
  <2>2. PayingFor(a)' \subseteq {c}
    BY <2>1, OnePaysNext
  <2>3. ~Paying(p) => c \notin PayingFor(a)'
    BY DEF PayingFor
  <2> QED
    BY <2>1, <2>2, <2>3
<1>6. Paid(a)' = P
  <2>1. \A d \in Calls : call'[d].req = call[d].req /\ call'[d].charged = call[d].charged
    BY <1>3
  <2> QED
    BY <2>1, PaidSame
<1>7. Covers(q, P, R, n) /\ (Settled(a)' => Matches(q, P, R, n))
  BY <1>5 DEF Balanced
<1>8. clock' = clock
  BY DEF Insert
<1>9. Settled(a)' => Length[q.req.body] = 1
  <2> SUFFICES ASSUME Settled(a)'
               PROVE  Length[q.req.body] = 1
    OBVIOUS
  <2>1. env'[nextId].body = q.req.body
    BY InsertedRows DEF Priced
  <2>2. nextId \in Landed(a)'
    BY <1>1
  <2>3. ~(Length[q.req.body] > 1)
    BY <2>1, <2>2 DEF Settled, Lengthy
  <2> QED
    BY <1>4, <2>3 DEF Sized
<1>10. Settled(a)' /\ ~Paying(p) => (p.charged > 0 => p.landed = Len(p.to))
  BY <1>3 DEF Settled, At
<1>11. Settled(a)' => S = R \cup {q.to[q.k]}
  BY <1>1, <1>8 DEF Settled
<1>12. Priced(q.req)
  OBVIOUS
<1>13. Landing(q, p, nextId)
  OBVIOUS
<1> HIDE DEF P, R, n, S, q, p
<1>14. n + 1 \in Nat
  BY <1>0
<1>15. Covers(p, P, S, n + 1)
  BY <1>0, <1>1, <1>4, <1>7, <1>12, <1>13, LandingCovers
<1>16. P >= Worth(S, n + 1)
  BY <1>0, <1>4, <1>14, <1>15, CoversEnough
<1>17. Settled(a)' => Matches(p, P, S, n + 1)
  BY <1>0, <1>4, <1>7, <1>11, <1>12, <1>13, LandingMatches
<1>18. ASSUME Settled(a)', ~Paying(p)
       PROVE  P = Worth(S, n + 1)
  <2>1. Length[p.req.body] = 1
    BY <1>3, <1>9, <1>18
  <2>2. Matches(p, P, S, n + 1) /\ (p.charged > 0 => p.landed = Len(p.to))
    BY <1>10, <1>17, <1>18
  <2> QED
    BY <1>0, <1>4, <1>14, <2>1, <2>2, MatchesEnough
<1>19. /\ P >= Worth(S, n + 1)
       /\ \A d \in PayingFor(a)' : Covers(call'[d], P, S, n + 1)
       /\ Settled(a)' => /\ PayingFor(a)' = {} => P = Worth(S, n + 1)
                         /\ \A d \in PayingFor(a)' : Matches(call'[d], P, S, n + 1)
  <2>1. \A d \in PayingFor(a)' : call'[d] = p
    BY <1>5 DEF p
  <2>2. PayingFor(a)' = {} => ~Paying(p)
    BY <1>3, <1>5 DEF PayingFor, p, q
  <2> QED
    BY <1>15, <1>16, <1>17, <1>18, <2>1, <2>2
<1>20. /\ Paid(a)' >= Worth(S, Cardinality(Landed(a)'))
       /\ \A d \in PayingFor(a)' : Covers(call'[d], Paid(a)', S, Cardinality(Landed(a)'))
       /\ Settled(a)' => /\ PayingFor(a)' = {} => Paid(a)' = Worth(S, Cardinality(Landed(a)'))
                         /\ \A d \in PayingFor(a)' : Matches(call'[d], Paid(a)', S, Cardinality(Landed(a)'))
  BY <1>2, <1>6, <1>19
<1> QED
  BY <1>20 DEF Balanced, S, Worth, Covers, Matches

-----------------------------------------------------------------------------
(* Who has written what *)

(* A call's past outlives the step, if the step lets it alone. *)
LEMMA TraceStays ==
  ASSUME CallInv, StoreTypeOK, nextId' \in Nat, RowsGoOn, NEW c \in Calls, TraceOK(call[c]),
         call'[c].req = call[c].req, call'[c].landed = call[c].landed, call'[c].row = call[c].row,
         call'[c].pc \in {"resolve", "fresh"} => call'[c].req.op # "resend",
         call'[c].req.op = "resend" /\ call'[c].pc = "insert" => call'[c].req.re < nextId
  PROVE  TraceOK(call[c])'
<1> DEFINE q == call[c]
<1>1. nextId \in Nat /\ nextId <= nextId'
  BY DEF StoreTypeOK, RowsGoOn
<1>2. q.req.op = "resend" => q.req.re \in Ids
  BY StoreAssumption DEF CallInv, CallOK, WellFormedRequest, Requests
<1>3. q'.req.op = "resend" /\ q'.pc = "insert" => q'.req.re < nextId'
  BY <1>1, <1>2
<1>4. ASSUME q.landed > 0
      PROVE  /\ q.row \in Ids /\ q.row < nextId' /\ env'[q.row].from = Author(q)'
             /\ q.req.op = "resend" => q.req.re < nextId'
             /\ Priced(q.req) => env'[q.row].body = q.req.body /\ st'[q.row] # "refused"
  <2>1. /\ q.row \in Ids /\ q.row < nextId /\ env[q.row].from = Author(q)
        /\ q.req.op = "resend" => q.req.re < nextId
        /\ Priced(q.req) => env[q.row].body = q.req.body /\ st[q.row] # "refused"
    BY <1>4 DEF TraceOK
  <2>2. env'[q.row] = env[q.row] /\ (st[q.row] # "refused" => st'[q.row] # "refused")
    BY <2>1 DEF RowsGoOn
  <2>3. q.req.op = "resend" => env'[q.req.re] = env[q.req.re]
    BY <1>2, <2>1 DEF RowsGoOn
  <2>4. Author(q)' = Author(q)
    BY <2>3 DEF Author
  <2>5. q.row < nextId' /\ (q.req.op = "resend" => q.req.re < nextId')
    <3>1. \A x \in Ids : x < nextId => x < nextId'
      BY <1>1
    <3> QED
      BY <1>2, <2>1, <3>1
  <2> QED
    BY <2>1, <2>2, <2>4, <2>5
<1> QED
  BY <1>3, <1>4 DEF TraceOK, Author

(* Where a step of a call leads: only what may be resent is inserted. *)
LEMMA QuietTrace ==
  ASSUME CallInv, StoreTypeOK, NEW c \in Calls, TraceOK(call[c]), Quiet(c)
  PROVE  /\ call'[c].pc \in {"resolve", "fresh"} => call'[c].req.op # "resend"
         /\ call'[c].req.op = "resend" /\ call'[c].pc = "insert" => call'[c].req.re < nextId
<1> DEFINE q == call[c]
           p == call'[c]
<1>0. CallOK(q) /\ q \in CallRows
  BY DEF CallInv, CallOK
<1>1. q.pc \in {"resolve", "fresh"} => q.req.op # "resend"
  BY DEF TraceOK
<1>a. ASSUME NEW s, Goto(c, s)
      PROVE  p.req = q.req /\ p.pc = s
  BY <1>a, GotoHops DEF Hop
<1>2. CASE Begin(c)
  <2>1. Goto(c, First(q.req)) /\ q.pc = "idle"
    BY <1>2 DEF Begin, At
  <2>2. q.req.op \in Ops \ {"none"}
    BY <1>0, <2>1 DEF CallOK, WellFormedRequest, Requests
  <2>3. First(q.req) # "insert" /\ (First(q.req) \in {"resolve", "fresh"} => q.req.op # "resend")
    BY <2>2 DEF First, Ops
  <2> QED
    BY <1>a, <2>1, <2>3
<1>3. CASE ResolveOperator(c)
  <2>0. q.req.op # "resend"
    BY <1>1, <1>3 DEF ResolveOperator, At
  <2>1. p.req = q.req
    <3>1. Goto(c, "done") \/ \E to : Resolved(c, to)
      BY <1>3 DEF ResolveOperator
    <3>2. ASSUME NEW to, Resolved(c, to)
          PROVE  p.req = q.req
      BY <1>0, <3>2 DEF Resolved, CallInv, CallRows
    <3> QED
      BY <1>a, <3>1, <3>2
  <2> QED
    BY <2>0, <2>1
<1>4. CASE Freshness(c)
  <2>1. q.req.op # "resend" /\ \E s : Goto(c, s)
    BY <1>1, <1>4 DEF Freshness, At
  <2> QED
    BY <1>a, <2>1
<1>5. CASE WriteBudgetQuote(c) \/ Stagger(c) \/ LeaveGuard(c) \/ StopMailman(c)
  <2>1. \E s \in {"done", "check", "stop", "purge", "remove"} : Goto(c, s)
    BY <1>5 DEF WriteBudgetQuote, Stagger, LeaveGuard, StopMailman
  <2> QED
    BY <1>a, <2>1
<1>6. CASE CheckRecipient(c)
  <2>1. CASE call' = [call EXCEPT ![c] = Onward(q)]
    <3>1. p = Onward(q)
      BY <2>1 DEF CallInv
    <3>2. p.pc \in {"stagger", "refund", "done"}
      BY <1>0, <3>1 DEF Onward, CallRows
    <3> QED
      BY <3>2
  <2>2. CASE Goto(c, "fresh") /\ q.req.op \in {"send", "ask"}
    BY <1>a, <2>2
  <2>3. CASE Goto(c, "insert") /\ Acceptable(c)
    <3>1. p.req = q.req /\ p.pc = "insert"
      BY <1>a, <2>3
    <3>2. q.req.op = "resend" => st[q.req.re] \in {"failed", "delivered"} /\ q.req.re \in Ids
      BY <1>0, <2>3, StoreAssumption DEF Acceptable, MayResend, CallOK, WellFormedRequest, Requests
    <3>3. q.req.op = "resend" => q.req.re < nextId
      BY <3>2 DEF StoreTypeOK
    <3> QED
      BY <3>1, <3>3
  <2> QED
    BY <1>6, <2>1, <2>2, <2>3 DEF CheckRecipient, Goto
<1> QED
  BY <1>2, <1>3, <1>4, <1>5, <1>6 DEF Quiet

LEMMA OtherTrace ==
  ASSUME CallInv, NEW c \in Calls, Pays(c) \/ Writes(c) \/ Removes(c) \/ Sleeps(c)
  PROVE  call'[c].pc \notin {"resolve", "fresh", "insert"}
<1> DEFINE q == call[c]
           p == call'[c]
<1>0. q \in CallRows
  BY DEF CallInv
<1>a. ASSUME NEW s, Goto(c, s)
      PROVE  p.pc = s
  BY <1>a, GotoHops
<1>b. ASSUME NEW e \in CallRows
      PROVE  Onward(e).pc \in {"stagger", "refund", "done"}
  BY <1>b DEF Onward, CallRows
<1>1. CASE Pays(c)
  BY <1>0, <1>1, <1>a DEF Pays, Charge, Refund, CallInv, CallRows
<1>2. CASE Insert(c)
  <2> DEFINE w == [q EXCEPT !.landed = q.landed + 1, !.row = nextId]
  <2>1. \/ Goto(c, "done")
        \/ p = Onward(q)
        \/ nextId \in Ids /\ (p = [w EXCEPT !.pc = "watch", !.watch = "none"] \/ p = Onward(w))
    BY <1>2 DEF Insert, CallInv, InsertMessagePair, InsertNotice, InsertMessage, InsertRow
  <2>2. CASE nextId \in Ids /\ (p = [w EXCEPT !.pc = "watch", !.watch = "none"] \/ p = Onward(w))
    <3>1. nextId \in 0..MaxId /\ q.landed + 1 \in Nat
      BY <1>0, <2>2, StoreAssumption DEF CallRows
    <3>2. w \in CallRows
      BY <1>0, <3>1 DEF CallRows
    <3> HIDE DEF w
    <3>3. p = [w EXCEPT !.pc = "watch", !.watch = "none"] => p.pc = "watch"
      BY <3>2 DEF CallRows
    <3> QED
      BY <1>b, <2>2, <3>2, <3>3
  <2> QED
    BY <1>0, <1>a, <1>b, <2>1, <2>2
<1>3. CASE Flush(c) \/ PurgeQueue(c) \/ Reset(c) \/ Reap(c) \/ Removes(c)
  BY <1>3, <1>a DEF Flush, PurgeQueue, Reset, Reap, Removes, RemoveAgent
<1>4. CASE Sleeps(c)
  <2>1. \/ Goto(c, "watch") \/ Goto(c, "select") \/ Goto(c, "read")
        \/ Ended(c)
        \/ \E s \in {"select", "read"} : \/ p = [q EXCEPT !.pc = s, !.watch = "open", !.rung = FALSE]
                                         \/ p = [q EXCEPT !.pc = s, !.watch = "nil"]
                                         \/ p = [q EXCEPT !.pc = s, !.rung = FALSE]
    BY <1>4 DEF Sleeps, WaitSteps, Watch, Read, WakeByRing, WakeByPoll, Expire, CallInv
  <2>2. CASE Ended(c)
    <3> DEFINE e == [q EXCEPT !.watch = "none", !.rung = FALSE]
    <3>1. p = Onward(e)
      BY <2>2 DEF Ended, CallInv
    <3>2. e \in CallRows
      BY <1>0 DEF CallRows
    <3> HIDE DEF e
    <3> QED
      BY <1>b, <3>1, <3>2
  <2> QED
    BY <1>0, <1>a, <2>1, <2>2 DEF CallRows
<1> QED
  BY <1>1, <1>2, <1>3, <1>4 DEF Writes

(* The row a call has just written. *)
LEMMA TraceLands ==
  ASSUME CallInv, TableInv, nextId' \in Nat, clock \in Nat, NEW c \in Calls, Insert(c), ~Dangling(c),
         call[c].req.op \in {"send", "ask", "ping", "control", "resend"}, TraceOK(call[c]),
         st'[nextId] # "refused", Landing(call[c], call'[c], nextId), call'[c].pc \notin {"resolve", "fresh", "insert"}
  PROVE  TraceOK(call[c])' /\ env'[nextId].from = Author(call[c])
<1> DEFINE q == call[c]
           p == call'[c]
<1>0. StoreTypeOK /\ q.pc = "insert" /\ CallOK(q)
  BY DEF TableInv, Insert, At, CallInv
<1>1. /\ nextId \in Ids /\ nextId < nextId' /\ RowsGoOn /\ env'[nextId].from = Author(q)
      /\ Priced(q.req) => env'[nextId].body = q.req.body
  <2>1. nextId <= nextId /\ nextId \in Nat
    BY <1>0 DEF StoreTypeOK
  <2> QED
    BY <2>1, InsertedRows
<1>2. p.req = q.req /\ p.row = nextId
  BY DEF Landing
<1>3. q.req.op = "resend" => q.req.re \in Ids /\ q.req.re < nextId
  BY <1>0, StoreAssumption DEF TraceOK, CallOK, WellFormedRequest, Requests
<1>4. q.req.op = "resend" => env'[q.req.re] = env[q.req.re]
  BY <1>1, <1>3 DEF RowsGoOn
<1>5. Author(q)' = Author(q)
  BY <1>2, <1>4 DEF Author
<1>6. q.req.op = "resend" => q.req.re < nextId'
  <2>1. \A x \in Ids : x < nextId => x < nextId'
    BY <1>1
  <2> QED
    BY <1>3, <2>1
<1> QED
  BY <1>1, <1>2, <1>5, <1>6 DEF TraceOK, Author

(* What came for free is not forgotten. *)
LEMMA UnpricedStays ==
  ASSUME CallInv, StoreTypeOK, RowsGoOn, Len(Asked) < nextId, NEW a, Unpriced(a),
         \A d \in Calls : /\ TraceOK(call[d])
                          /\ call'[d].req = call[d].req
                          /\ \/ call'[d].landed = call[d].landed /\ call'[d].row = call[d].row
                             \/ call'[d].landed > 0 /\ env'[call'[d].row].from = Author(call[d])
  PROVE  Unpriced(a)'
<1>0. nextId \in Nat /\ Len(Asked) \in Nat /\ Len(Asked) <= MaxId
  BY OutboxAssumption, LenProperties DEF StoreTypeOK
<1>1. CASE \E i \in 1..Len(Asked) : env[i].from = a
  <2>1. PICK i \in 1..Len(Asked) : env[i].from = a
    BY <1>1
  <2>2. i \in Ids /\ i < nextId
    BY <1>0, <2>1, StoreAssumption
  <2>3. env'[i] = env[i]
    BY <2>2 DEF RowsGoOn
  <2> QED
    BY <2>1, <2>3 DEF Unpriced
<1>2. ASSUME NEW c \in Calls, ~Priced(call[c].req), call[c].landed > 0, env[call[c].row].from = a
      PROVE  Unpriced(a)'
  <2>1. call[c].row \in Ids /\ call[c].row < nextId /\ Author(call[c]) = a
    BY <1>2 DEF TraceOK
  <2>2. env'[call[c].row] = env[call[c].row]
    BY <2>1 DEF RowsGoOn
  <2>3. call'[c].landed > 0 /\ env'[call'[c].row].from = a
    BY <1>2, <2>1, <2>2
  <2> QED
    BY <1>2, <2>3 DEF Unpriced
<1> QED
  BY <1>1, <1>2 DEF Unpriced

-----------------------------------------------------------------------------
(* One at a time *)

LEMMA LeavesIdle ==
  ASSUME CallInv, NEW c \in Calls, Quiet(c) \/ Pays(c) \/ Writes(c) \/ Removes(c) \/ Sleeps(c), ~Begin(c)
  PROVE  call[c].pc # "idle" /\ overlapped' = overlapped
<1>1. CASE Quiet(c)
  BY <1>1 DEF Quiet, ResolveOperator, Freshness, WriteBudgetQuote, CheckRecipient, Stagger, LeaveGuard, StopMailman, At
<1>2. CASE Pays(c)
  BY <1>2 DEF Pays, Charge, Refund, At
<1>3. CASE Writes(c) \/ Removes(c)
  BY <1>3 DEF Writes, Removes, RemoveAgent, Insert, Flush, PurgeQueue, Reset, Reap, At
<1>4. CASE Sleeps(c)
  BY <1>4 DEF Sleeps, WaitSteps, Watch, Read, WakeByRing, WakeByPoll, Expire, At
<1> QED
  BY <1>1, <1>2, <1>3, <1>4

(* A call that begins while another of its sender's is under way says so. *)
LEMMA Overlaps ==
  ASSUME CallInv, [OutboxNext]_outboxVars
  PROVE  /\ overlapped \subseteq overlapped'
         /\ \/ \A d \in Calls : Active(d)' => Active(d)
            \/ \E c \in Calls : /\ \A d \in Calls \ {c} : call'[d] = call[d]
                                /\ (Priced(call[c].req) /\ \E d \in Calls :
                                      Active(d) /\ Priced(call[d].req) /\ call[d].req.from = call[c].req.from)
                                     => call[c].req.from \in overlapped'
<1>1. CASE UNCHANGED <<call, overlapped>>
  BY <1>1 DEF Active
<1>2. ASSUME NEW c \in Calls, Begin(c)
      PROVE  /\ overlapped \subseteq overlapped'
             /\ \A d \in Calls \ {c} : call'[d] = call[d]
             /\ (Priced(call[c].req) /\ \E d \in Calls :
                   Active(d) /\ Priced(call[d].req) /\ call[d].req.from = call[c].req.from)
                  => call[c].req.from \in overlapped'
  <2>1. \A d \in Calls \ {c} : call'[d] = call[d]
    BY <1>2, OneCall DEF Quiet
  <2> QED
    BY <1>2, <2>1 DEF Begin
<1>3. ASSUME NEW c \in Calls, Quiet(c) \/ Pays(c) \/ Writes(c) \/ Removes(c) \/ Sleeps(c), ~Begin(c)
      PROVE  overlapped' = overlapped /\ \A d \in Calls : Active(d)' => Active(d)
  <2>1. call[c].pc \notin {"idle", "done"} /\ overlapped' = overlapped /\ \A d \in Calls \ {c} : call'[d] = call[d]
    BY <1>3, OneCall, LeavesIdle
  <2> QED
    BY <2>1 DEF Active
<1>4. ASSUME NEW a \in Agents, Ring(a)
      PROVE  overlapped' = overlapped /\ \A d \in Calls : Active(d)' => Active(d)
  <2>1. overlapped' = overlapped /\ \A d \in Calls : d \in Waiters \/ call'[d] = call[d]
    BY <1>4 DEF Ring
  <2> QED
    BY <2>1 DEF Active, Waiters
<1>5. CASE OutboxNext
  <2>1. \/ \E c \in Calls : Quiet(c) \/ Pays(c) \/ Writes(c) \/ Removes(c) \/ Sleeps(c)
        \/ \E a \in Agents : Ring(a)
        \/ UNCHANGED <<call, overlapped>>
    BY <1>5, StepKinds DEF RingFails, RetentionSweep, Tick, MailmanClaims, MailmanMarks, MailmanExits, Moves
  <2> QED
    BY <1>1, <1>2, <1>3, <1>4, <2>1
<1> QED
  BY <1>1, <1>5

LEMMA AloneStays ==
  ASSUME CallInv, [OutboxNext]_outboxVars, NEW a, Alone(a), a \notin overlapped',
         \A d \in Calls : call'[d].req = call[d].req
  PROVE  Alone(a)'
<1>1. CASE \A d \in Calls : Active(d)' => Active(d)
  BY <1>1 DEF Alone
<1>2. ASSUME NEW c \in Calls, \A d \in Calls \ {c} : call'[d] = call[d],
             (Priced(call[c].req) /\ \E d \in Calls :
                Active(d) /\ Priced(call[d].req) /\ call[d].req.from = call[c].req.from)
               => call[c].req.from \in overlapped'
      PROVE  Alone(a)'
  <2>1. ASSUME NEW d \in Calls \ {c}, Active(d)', Priced(call[d].req), call[d].req.from = a,
               Priced(call[c].req), call[c].req.from = a
        PROVE  FALSE
    BY <1>2, <2>1 DEF Active
  <2>2. \A d \in Calls \ {c} : Active(d)' => Active(d)
    BY <1>2 DEF Active
  <2> QED
    BY <2>1, <2>2 DEF Alone
<1> QED
  BY <1>1, <1>2, Overlaps

-----------------------------------------------------------------------------
(* The kinds of step, as the ledger sees them *)

(* Nobody pays and nobody writes. *)
Drifting ==
  /\ \A d \in Calls : Steady(call[d], call'[d])
  /\ RowsGoOn /\ created' \in [Ids -> Nat] /\ \A a \in Agents : Shrinks(a)

(* Somebody pays, or gets its money back. *)
Settling(c) ==
  /\ \/ Charging(call[c], call'[c], Quote(call[c].req.from, call[c].to, call[c].req.body))
     \/ Refunding(call[c], call'[c])
  /\ \A d \in Calls \ {c} : call'[d] = call[d]
  /\ UNCHANGED <<msgVars, created, clock>>
  /\ call'[c].pc \notin {"resolve", "fresh", "insert"}

(* Somebody writes a row. *)
Writing(c) ==
  /\ Insert(c) /\ ~Dangling(c) /\ call[c].req.op \in {"send", "ask", "ping", "control", "resend"}
  /\ st'[nextId] # "refused" /\ Landing(call[c], call'[c], nextId)
  /\ \A d \in Calls \ {c} : call'[d] = call[d]
  /\ call'[c].pc \notin {"resolve", "fresh", "insert"}

LEMMA SteadyRefl ==
  ASSUME CallInv, NEW c \in Calls, PhaseOK(call[c]), call'[c] = call[c]
  PROVE  Steady(call[c], call'[c])
<1>1. call[c].k \in Nat
  BY CallNumbers DEF CallInv
<1>2. Handled(call[c]) \in Int
  BY <1>1 DEF Handled
<1> QED
  BY <1>2 DEF Steady

LEMMA LedgerKinds ==
  ASSUME OutboxInv, OutboxInv', LedgerInv, [OutboxNext]_outboxVars
  PROVE  Drifting \/ \E c \in Calls : Settling(c) \/ Writing(c)
<1>0. /\ CallInv /\ CallInv' /\ TableInv /\ TableInv' /\ StoreTypeOK /\ StoreTypeOK' /\ clock \in Nat /\ clock' \in Nat
      /\ created \in [Ids -> Nat] /\ \A c \in Calls : PhaseOK(call[c])
  BY DEF OutboxInv, LedgerInv, TableInv, PurseInv
<1>1. ASSUME RowsStay, \A d \in Calls : Steady(call[d], call'[d])
      PROVE  Drifting
  <2>1. \A a \in Agents : Shrinks(a)
    BY <1>0, <1>1, LandedStays DEF Shrinks
  <2> QED
    BY <1>0, <1>1, <2>1 DEF Drifting, RowsStay
<1>2. ASSUME NEW c \in Calls, \A d \in Calls \ {c} : call'[d] = call[d], Steady(call[c], call'[c])
      PROVE  \A d \in Calls : Steady(call[d], call'[d])
  BY <1>0, <1>2, SteadyRefl
<1>3. ASSUME UNCHANGED <<msgVars, created>>, clock <= clock'
      PROVE  RowsStay
  BY <1>0, <1>3, UntouchedRowsStay
<1>4. ASSUME call' = call
      PROVE  \A d \in Calls : Steady(call[d], call'[d])
  BY <1>0, <1>4, SteadyRefl
<1>5. CASE UNCHANGED outboxVars
  BY <1>0, <1>1, <1>3, <1>4, <1>5
<1>6. ASSUME NEW c \in Calls, Quiet(c) \/ Sleeps(c)
      PROVE  Drifting
  <2>1. \A d \in Calls : Steady(call[d], call'[d])
    BY <1>0, <1>2, <1>6, OneCall, QuietSteady, SleepsSteady
  <2>2. UNCHANGED <<msgVars, created, clock>>
    BY <1>6 DEF Quiet, Begin, ResolveOperator, Freshness, WriteBudgetQuote, CheckRecipient, Stagger,
                LeaveGuard, StopMailman, Sleeps, WaitSteps, Watch, Read, WakeByRing, WakeByPoll, Expire
  <2>3. clock <= clock'
    BY <1>0, <2>2
  <2> QED
    BY <1>1, <1>3, <2>1, <2>2, <2>3
<1>7. ASSUME NEW c \in Calls, Pays(c)
      PROVE  Drifting \/ Settling(c)
  <2>1. UNCHANGED <<msgVars, created, clock>>
    BY <1>7 DEF Pays, Charge, Refund
  <2>2. clock <= clock'
    BY <1>0, <2>1
  <2>3. \A d \in Calls \ {c} : call'[d] = call[d]
    BY <1>0, <1>7, OneCall
  <2>4. \/ Steady(call[c], call'[c])
        \/ Charging(call[c], call'[c], Quote(call[c].req.from, call[c].to, call[c].req.body))
        \/ Refunding(call[c], call'[c])
    BY <1>0, <1>7, PaysMoves
  <2>5. call'[c].pc \notin {"resolve", "fresh", "insert"}
    BY <1>0, <1>7, OtherTrace
  <2> QED
    BY <1>1, <1>2, <1>3, <2>1, <2>2, <2>3, <2>4, <2>5 DEF Settling
<1>8. ASSUME NEW c \in Calls, Flush(c) \/ PurgeQueue(c) \/ Reset(c) \/ Reap(c) \/ Removes(c)
      PROVE  Drifting
  <2>1. \A d \in Calls : Steady(call[d], call'[d])
    BY <1>0, <1>2, <1>8, OneCall, TakesSteady DEF Writes
  <2>2. CASE Flush(c) \/ PurgeQueue(c) \/ Reset(c) \/ Reap(c)
    BY <1>0, <1>1, <2>1, <2>2, TakesRowsStay
  <2>3. CASE Removes(c)
    <3>1. UNCHANGED <<msgVars, created, clock>>
      BY <2>3 DEF Removes, RemoveAgent
    <3>2. clock <= clock'
      BY <1>0, <3>1
    <3> QED
      BY <1>1, <1>3, <2>1, <3>1, <3>2
  <2> QED
    BY <1>8, <2>2, <2>3
<1>9. ASSUME NEW c \in Calls, Insert(c), call[c].req.op \in {"send", "ask", "ping", "control", "resend"}
      PROVE  Drifting \/ Writing(c)
  <2>0. \A d \in Calls \ {c} : call'[d] = call[d]
    BY <1>0, <1>9, OneCall DEF Writes
  <2>1. IF Dangling(c) \/ st'[nextId] = "refused" THEN Steady(call[c], call'[c])
        ELSE Landing(call[c], call'[c], nextId)
    BY <1>0, <1>9, InsertMoves
  <2>2. CASE Dangling(c)
    <3>1. UNCHANGED <<msgVars, created, clock>>
      BY <1>9, <2>2 DEF Insert
    <3>2. clock <= clock'
      BY <1>0, <3>1
    <3> QED
      BY <1>1, <1>2, <1>3, <2>0, <2>1, <2>2, <3>1, <3>2
  <2>3. CASE ~Dangling(c) /\ st'[nextId] = "refused"
    <3>1. \A a \in Agents : Shrinks(a)
      BY <1>0, <1>9, <2>3, LandedElsewhere
    <3>2. RowsGoOn /\ created' = [i \in Ids |-> IF i >= nextId /\ i < nextId' THEN clock ELSE created[i]]
      BY <1>0, <1>9, <2>3, InsertedRows
    <3>3. created' \in [Ids -> Nat]
      BY <1>0, <3>2
    <3> QED
      BY <1>2, <2>0, <2>1, <2>3, <3>1, <3>2, <3>3 DEF Drifting
  <2>4. CASE ~Dangling(c) /\ st'[nextId] # "refused"
    <3>1. call'[c].pc \notin {"resolve", "fresh", "insert"}
      BY <1>0, <1>9, OtherTrace DEF Writes
    <3> QED
      BY <1>9, <2>0, <2>1, <2>4, <3>1 DEF Writing
  <2> QED
    BY <2>2, <2>3, <2>4
<1>10. ASSUME NEW a \in Agents, Ring(a) \/ RingFails(a) \/ RetentionSweep(a)
       PROVE  Drifting
  <2>1. CASE Ring(a)
    <3>1. UNCHANGED <<msgVars, created, clock>> /\ \A d \in Calls : Steady(call[d], call'[d])
      BY <1>0, <2>1, RingSteady DEF Ring
    <3>2. clock <= clock'
      BY <1>0, <3>1
    <3> QED
      BY <1>1, <1>3, <3>1, <3>2
  <2>2. CASE RingFails(a)
    <3>1. UNCHANGED <<msgVars, created, clock, call>>
      BY <2>2 DEF RingFails
    <3>2. clock <= clock'
      BY <1>0, <3>1
    <3> QED
      BY <1>1, <1>3, <1>4, <3>1, <3>2
  <2>3. CASE RetentionSweep(a)
    <3>1. UNCHANGED <<created, clock, call>> /\ Purge({a}, Cutoff(Retention), {"delivered", "failed"})
      BY <2>3 DEF RetentionSweep
    <3>2. {"delivered", "failed"} \in SUBSET RowStates
      BY DEF RowStates
    <3>3. RowsStay
      BY <1>0, <3>1, <3>2, PurgedRowsStay
    <3> QED
      BY <1>1, <1>4, <3>1, <3>3
  <2> QED
    BY <1>10, <2>1, <2>2, <2>3
<1>11. CASE MailmanClaims \/ MailmanMarks
  <2>1. call' = call
    BY <1>11 DEF MailmanClaims, MailmanMarks
  <2> QED
    BY <1>0, <1>1, <1>4, <1>11, <2>1, MailmanRowsStay
<1>12. CASE Tick \/ MailmanExits \/ Moves
  <2>1. UNCHANGED <<msgVars, created, call>> /\ clock <= clock'
    BY <1>0, <1>12 DEF Tick, MailmanExits, Moves
  <2> QED
    BY <1>1, <1>3, <1>4, <2>1
<1> QED
  BY <1>5, <1>6, <1>7, <1>8, <1>9, <1>10, <1>11, <1>12, StepKinds DEF Writes

(* No step leaves a resend where it could write what is not there. *)
LEMMA TraceKinds ==
  ASSUME CallInv, StoreTypeOK, [OutboxNext]_outboxVars, \A d \in Calls : TraceOK(call[d]), NEW d \in Calls
  PROVE  /\ call'[d].pc \in {"resolve", "fresh"} => call'[d].req.op # "resend"
         /\ call'[d].req.op = "resend" /\ call'[d].pc = "insert" => call'[d].req.re < nextId
<1>1. CASE call'[d] = call[d]
  BY <1>1 DEF TraceOK
<1>2. ASSUME NEW c \in Calls, Quiet(c) \/ Pays(c) \/ Writes(c) \/ Removes(c) \/ Sleeps(c), call'[d] # call[d]
      PROVE  /\ call'[d].pc \in {"resolve", "fresh"} => call'[d].req.op # "resend"
             /\ call'[d].req.op = "resend" /\ call'[d].pc = "insert" => call'[d].req.re < nextId
  <2>1. d = c
    BY <1>2, OneCall
  <2> QED
    BY <1>2, <2>1, QuietTrace, OtherTrace
<1>3. ASSUME NEW a \in Agents, Ring(a), call'[d] # call[d]
      PROVE  call'[d].pc \notin {"resolve", "fresh", "insert"}
  <2>1. d \in Waiters /\ call'[d] = [call[d] EXCEPT !.rung = TRUE] /\ call[d] \in CallRows
    BY <1>3 DEF Ring, CallInv
  <2> QED
    BY <2>1 DEF Waiters, CallRows
<1>4. CASE OutboxNext
  <2>1. \/ \E c \in Calls : Quiet(c) \/ Pays(c) \/ Writes(c) \/ Removes(c) \/ Sleeps(c)
        \/ \E a \in Agents : Ring(a)
        \/ call' = call
    BY <1>4, StepKinds DEF RingFails, RetentionSweep, Tick, MailmanClaims, MailmanMarks, MailmanExits, Moves
  <2> QED
    BY <1>1, <1>2, <1>3, <2>1
<1> QED
  BY <1>1, <1>4

LEMMA SettlingRows ==
  ASSUME CallInv, CallInv', StoreTypeOK, clock \in Nat, created \in [Ids -> Nat], NEW c \in Calls, Settling(c),
         \A d \in Calls : PhaseOK(call[d])
  PROVE  /\ RowsStay /\ created' = created
         /\ \A d \in Calls : /\ call'[d].req = call[d].req /\ call'[d].landed = call[d].landed /\ call'[d].row = call[d].row
                             /\ PhaseOK(call'[d])
<1>1. UNCHANGED <<msgVars, created, clock>> /\ clock <= clock'
  BY DEF Settling
<1>2. RowsStay
  BY <1>1, UntouchedRowsStay
<1>3. /\ call'[c].req = call[c].req /\ call'[c].landed = call[c].landed /\ call'[c].row = call[c].row
      /\ PhaseOK(call'[c])
  BY DEF Settling, Charging, Refunding
<1> QED
  BY <1>1, <1>2, <1>3 DEF Settling

(* Whatever the step, who did not overlap and was never free stays         *)
(* balanced.                                                               *)
LEMMA BalancedStep ==
  ASSUME OutboxInv, OutboxInv', LedgerInv, [OutboxNext]_outboxVars, RowsGoOn,
         NEW a \in Agents, a \notin overlapped, ~Unpriced(a), ~Unpriced(a)'
  PROVE  Balanced(a)'
<1>0. /\ CallInv /\ CallInv' /\ TableInv /\ TableInv' /\ StoreTypeOK /\ StoreTypeOK' /\ clock \in Nat /\ clock' \in Nat
      /\ created \in [Ids -> Nat] /\ \A d \in Calls : PhaseOK(call[d]) /\ TraceOK(call[d])
      /\ Alone(a) /\ Balanced(a)
  BY DEF OutboxInv, LedgerInv, TableInv, PurseInv
<1>1. Settled(a)' => Settled(a)
  BY <1>0, SettledBefore
<1>2. CASE Drifting
  <2>1. \A d \in Calls : Steady(call[d], call'[d]) /\ call'[d].req = call[d].req /\ call'[d].charged = call[d].charged
    BY <1>2 DEF Drifting, Steady
  <2>2. Paid(a)' = Paid(a)
    BY <1>0, <2>1, PaidSame
  <2>3. Shrinks(a)
    BY <1>2 DEF Drifting
  <2> QED
    BY <1>0, <1>1, <2>1, <2>2, <2>3, BalancedDrift
<1>3. ASSUME NEW c \in Calls, Settling(c)
      PROVE  Balanced(a)'
  <2>1. UNCHANGED <<msgVars, created, clock>>
    BY <1>3 DEF Settling
  <2>2. Landed(a)' = Landed(a) /\ Recipients(a)' = Recipients(a)
    BY <2>1 DEF Landed, Recipients, Rows
  <2>3. \A d \in Calls \ {c} : call'[d] = call[d]
    BY <1>3 DEF Settling
  <2>4. CASE call[c].req.from = a
    <3>1. CASE Charging(call[c], call'[c], Quote(call[c].req.from, call[c].to, call[c].req.body))
      BY <1>0, <1>1, <2>2, <2>3, <2>4, <3>1, BalancedCharge
    <3>2. CASE Refunding(call[c], call'[c])
      BY <1>0, <1>1, <2>2, <2>3, <2>4, <3>2, BalancedRefund
    <3> QED
      BY <1>3, <3>1, <3>2 DEF Settling
  <2>5. CASE call[c].req.from # a
    <3>1. \A d \in Calls : call'[d].req = call[d].req
      BY <1>0, <1>3, SettlingRows
    <3>2. Paid(a) \in Nat /\ Paid(a)' = Paid(a) + 0
      <4>1. /\ Paid(a) \in Nat
            /\ Paid(a)' = Paid(a) + IF call[c].req.from = a THEN call'[c].charged - call[c].charged ELSE 0
        BY <1>0, <2>3, <3>1, PaidStep
      <4> QED
        BY <2>5, <4>1
    <3>3. \A d \in Calls : Priced(call[d].req) /\ call[d].req.from = a => Steady(call[d], call'[d])
      BY <1>0, <2>3, <2>5, SteadyRefl
    <3>4. Shrinks(a)
      BY <2>2 DEF Shrinks
    <3>5. Paid(a)' = Paid(a)
      BY <3>2
    <3> QED
      BY <1>0, <1>1, <3>1, <3>3, <3>4, <3>5, BalancedDrift
  <2> QED
    BY <2>4, <2>5
<1>4. ASSUME NEW c \in Calls, Writing(c)
      PROVE  Balanced(a)'
  <2>0. /\ Insert(c) /\ ~Dangling(c) /\ call[c].req.op \in {"send", "ask", "ping", "control", "resend"}
        /\ st'[nextId] # "refused" /\ Landing(call[c], call'[c], nextId)
        /\ \A d \in Calls \ {c} : call'[d] = call[d]
        /\ call'[c].pc \notin {"resolve", "fresh", "insert"}
    BY <1>4 DEF Writing
  <2>1. \A d \in Calls : call'[d].req = call[d].req /\ call'[d].charged = call[d].charged
    BY <2>0 DEF Landing
  <2>2. CASE Priced(call[c].req) /\ call[c].req.from = a
    BY <1>0, <1>1, <2>0, <2>2, BalancedLanding
  <2>3. CASE ~(Priced(call[c].req) /\ call[c].req.from = a)
    <3>1. Author(call[c]) # a
      <4>1. CASE Priced(call[c].req)
        BY <2>3, <4>1 DEF Author, Priced
      <4>2. CASE ~Priced(call[c].req)
        <5>1. call'[c].row = nextId /\ call'[c].landed > 0
          <6>1. call[c].landed \in Nat
            BY <1>0, CallNumbers DEF CallInv
          <6> QED
            BY <2>0, <6>1 DEF Landing
        <5>2. env'[nextId].from = Author(call[c])
          <6>1. nextId' \in Nat
            BY <1>0 DEF StoreTypeOK
          <6> QED
            BY <1>0, <2>0, <6>1, TraceLands
        <5>3. env'[nextId].from # a
          BY <2>1, <4>2, <5>1 DEF Unpriced
        <5> QED
          BY <5>2, <5>3
      <4> QED
        BY <4>1, <4>2
    <3>2. Shrinks(a)
      BY <1>0, <2>0, <3>1, LandedElsewhere
    <3>3. \A d \in Calls : Priced(call[d].req) /\ call[d].req.from = a => Steady(call[d], call'[d])
      BY <1>0, <2>0, <2>3, SteadyRefl
    <3>4. Paid(a)' = Paid(a)
      BY <1>0, <2>1, PaidSame
    <3> QED
      BY <1>0, <1>1, <2>1, <3>2, <3>3, <3>4, BalancedDrift
  <2> QED
    BY <2>2, <2>3
<1> QED
  BY <1>2, <1>3, <1>4, LedgerKinds

LEMMA LedgerStep ==
  ASSUME OutboxInv, OutboxInv', LedgerInv, [OutboxNext]_outboxVars
  PROVE  LedgerInv'
<1>0. /\ CallInv /\ CallInv' /\ TableInv /\ TableInv' /\ StoreTypeOK /\ StoreTypeOK' /\ clock \in Nat /\ clock' \in Nat
      /\ created \in [Ids -> Nat] /\ Len(Asked) < nextId
      /\ \A d \in Calls : PhaseOK(call[d]) /\ TraceOK(call[d])
  BY DEF OutboxInv, LedgerInv, TableInv, PurseInv
<1>1. nextId \in Nat /\ nextId' \in Nat /\ Len(Asked) \in Nat
  BY <1>0, OutboxAssumption, LenProperties DEF StoreTypeOK
<1>2. /\ RowsGoOn /\ created' \in [Ids -> Nat]
      /\ \A d \in Calls : call'[d].req = call[d].req /\ PhaseOK(call'[d])
      /\ \/ \A d \in Calls : call'[d].landed = call[d].landed /\ call'[d].row = call[d].row
         \/ \E c \in Calls : Writing(c)
  <2>1. CASE Drifting
    BY <2>1 DEF Drifting, Steady
  <2>2. ASSUME NEW c \in Calls, Settling(c)
        PROVE  /\ RowsStay /\ created' = created
               /\ \A d \in Calls : /\ call'[d].req = call[d].req /\ PhaseOK(call'[d])
                                   /\ call'[d].landed = call[d].landed /\ call'[d].row = call[d].row
    BY <1>0, <2>2, SettlingRows
  <2>3. ASSUME NEW c \in Calls, Writing(c)
        PROVE  /\ RowsGoOn /\ created' \in [Ids -> Nat]
               /\ \A d \in Calls : call'[d].req = call[d].req /\ PhaseOK(call'[d])
    <3>1. RowsGoOn /\ created' = [i \in Ids |-> IF i >= nextId /\ i < nextId' THEN clock ELSE created[i]]
      BY <1>0, <2>3, InsertedRows DEF Writing
    <3>2. created' \in [Ids -> Nat]
      BY <1>0, <3>1
    <3>3. call'[c].req = call[c].req /\ PhaseOK(call'[c])
      BY <2>3 DEF Writing, Landing
    <3> QED
      BY <1>0, <2>3, <3>1, <3>2, <3>3 DEF Writing
  <2> QED
    BY <1>0, <2>1, <2>2, <2>3, LedgerKinds DEF RowsStay
<1>3. Len(Asked) < nextId'
  BY <1>0, <1>1, <1>2 DEF RowsGoOn
<1>4. ASSUME NEW c \in Calls, Writing(c)
      PROVE  /\ TraceOK(call[c])' /\ env'[call'[c].row].from = Author(call[c]) /\ call'[c].landed > 0
             /\ \A d \in Calls \ {c} : call'[d] = call[d]
  <2>1. call'[c].row = nextId /\ call'[c].landed > 0
    <3>1. call[c].landed \in Nat
      BY <1>0, CallNumbers DEF CallInv
    <3> QED
      BY <1>4, <3>1 DEF Writing, Landing
  <2> QED
    BY <1>0, <1>1, <1>4, <2>1, TraceLands DEF Writing
<1>5. ASSUME NEW d \in Calls
      PROVE  /\ TraceOK(call[d])'
             /\ \/ call'[d].landed = call[d].landed /\ call'[d].row = call[d].row
                \/ call'[d].landed > 0 /\ env'[call'[d].row].from = Author(call[d])
  <2>1. /\ call'[d].pc \in {"resolve", "fresh"} => call'[d].req.op # "resend"
        /\ call'[d].req.op = "resend" /\ call'[d].pc = "insert" => call'[d].req.re < nextId
    BY <1>0, TraceKinds
  <2>2. CASE call'[d].landed = call[d].landed /\ call'[d].row = call[d].row
    BY <1>0, <1>1, <1>2, <2>1, <2>2, TraceStays
  <2>3. ASSUME NEW c \in Calls, Writing(c), ~(call'[d].landed = call[d].landed /\ call'[d].row = call[d].row)
        PROVE  TraceOK(call[d])' /\ call'[d].landed > 0 /\ env'[call'[d].row].from = Author(call[d])
    <3>1. d = c
      BY <1>4, <2>3
    <3> QED
      BY <1>4, <2>3, <3>1
  <2> QED
    BY <1>2, <2>2, <2>3
<1>6. ASSUME NEW a \in Agents, a \notin overlapped'
      PROVE  Alone(a)' /\ (~Unpriced(a)' => Balanced(a)')
  <2>1. a \notin overlapped
    BY <1>0, <1>6, Overlaps
  <2>2. Alone(a)'
    BY <1>0, <1>2, <1>6, <2>1, AloneStays DEF LedgerInv
  <2>3. Unpriced(a) => Unpriced(a)'
    BY <1>0, <1>2, <1>5, UnpricedStays
  <2>4. ~Unpriced(a)' => Balanced(a)'
    BY <1>2, <2>1, <2>3, BalancedStep
  <2> QED
    BY <2>2, <2>4
<1>7. \A d \in Calls : PhaseOK(call[d])'
  BY <1>2 DEF PhaseOK, Paying, Handled
<1>8. \A d \in Calls : (PhaseOK(call[d]) /\ TraceOK(call[d]))'
  BY <1>5, <1>7
<1>9. \A a \in Agents \ overlapped' : Alone(a)' /\ (~Unpriced(a)' => Balanced(a)')
  BY <1>6
<1> QED
  BY <1>2, <1>3, <1>8, <1>9 DEF LedgerInv

-----------------------------------------------------------------------------
(* From nothing *)

LEMMA ChargesNothing ==
  ASSUME NEW S, IsFiniteSet(S), NEW k, \A c \in S : k[c].charged = 0
  PROVE  Charges(k, S) = 0
<1>1. PICK f : Tallies(f, k, S) /\ Charges(k, S) = f[S]
  BY ChargesRecur
<1> DEFINE Q == {V \in SUBSET S : f[V] = 0}
<1>2. ASSUME NEW V \in SUBSET S, \A W \in SUBSET V : W # V => W \in Q
      PROVE  V \in Q
  <2>1. CASE V = {}
    BY <1>1, <2>1 DEF Tallies
  <2>2. CASE V # {}
    <3> DEFINE x == CHOOSE x \in V : TRUE
               W == V \ {x}
    <3>1. x \in V /\ x \in S
      BY <2>2
    <3>2. W \in Q
      BY <1>2, <3>1
    <3>3. f[V] = k[x].charged + f[W]
      BY <1>1, <2>2 DEF Tallies
    <3>4. k[x].charged = 0 /\ f[W] = 0
      BY <3>1, <3>2
    <3> QED
      BY <3>3, <3>4
  <2> QED
    BY <2>1, <2>2
<1>3. \A V \in SUBSET S : V \in Q
  <2> HIDE DEF Q
  <2> QED
    BY <1>2, SubsetInduction
<1> QED
  BY <1>1, <1>3

LEMMA LedgerInit == OutboxInit => LedgerInv
<1> SUFFICES ASSUME OutboxInit
             PROVE  LedgerInv
  OBVIOUS
<1>1. created \in [Ids -> Nat] /\ Len(Asked) < nextId
  <2>1. Len(Asked) \in Nat
    BY OutboxAssumption, LenProperties
  <2>2. created = [i \in Ids |-> 0] /\ nextId = Len(Asked) + 1
    BY DEF OutboxInit
  <2>3. created \in [Ids -> Nat]
    BY <2>2
  <2> QED
    BY <2>1, <2>2, <2>3
<1>2. PICK plan \in Plans : call = [c \in Calls |-> NewCall(plan[c])]
  BY DEF OutboxInit
<1>3. ASSUME NEW c \in Calls
      PROVE  /\ call[c].pc \in {"idle", "done"} /\ call[c].charged = 0 /\ call[c].landed = 0 /\ call[c].k = 1
             /\ ~Paying(call[c]) /\ Handled(call[c]) \in {0, 1}
  <2>1. call[c].pc \in {"idle", "done"} /\ call[c].charged = 0 /\ call[c].landed = 0 /\ call[c].k = 1
    BY <1>2 DEF NewCall
  <2> QED
    BY <2>1 DEF Paying, Handled
<1>4. \A c \in Calls : PhaseOK(call[c]) /\ TraceOK(call[c])
  BY <1>3 DEF PhaseOK, TraceOK
<1>5. ASSUME NEW a \in Agents
      PROVE  Alone(a)
  BY <1>3 DEF Alone, Active
<1>6. ASSUME NEW a \in Agents, ~Unpriced(a)
      PROVE  Balanced(a)
  <2>1. Landed(a) = {}
    <3>1. ASSUME NEW i \in Landed(a)
          PROVE  FALSE
      <4>1. i \in Ids /\ st[i] \in RowStates /\ env[i].from = a
        BY <3>1 DEF Landed, Rows
      <4>2. i <= Len(Asked)
        BY <4>1 DEF OutboxInit, RowStates
      <4>3. i \in 1..Len(Asked)
        <5>1. Len(Asked) \in Nat
          BY OutboxAssumption, LenProperties
        <5> QED
          BY <4>1, <4>2, <5>1
      <4> QED
        BY <1>6, <4>1, <4>3 DEF Unpriced
    <3> QED
      BY <3>1
  <2>2. Recipients(a) = {}
    BY <2>1 DEF Recipients
  <2>3. Cardinality({}) = 0
    BY FS_EmptySet
  <2>4. Worth({}, 0) = 0
    BY <2>3, BudgetAssumption DEF Worth
  <2>5. PayingFor(a) = {}
    BY <1>3 DEF PayingFor
  <2>6. Paid(a) = 0
    <3> DEFINE S == {c \in Calls : call[c].req.from = a}
    <3>1. IsFiniteSet(S) /\ Paid(a) = Charges(call, S) /\ \A c \in S : call[c].charged = 0
      BY <1>3, SendingAssumption, FS_Subset, PaidIs
    <3> HIDE DEF S
    <3> QED
      BY <3>1, ChargesNothing
  <2> QED
    BY <2>1, <2>2, <2>3, <2>4, <2>5, <2>6 DEF Balanced
<1> QED
  BY <1>1, <1>4, <1>5, <1>6 DEF LedgerInv

(* A sender with nothing wasted, purged, expired or long is settled, and   *)
(* then what is still under way adds nothing it has not landed.            *)
LEMMA LedgerNeutral ==
  ASSUME OutboxInv, LedgerInv
  PROVE  SplittingIsNeutral
<1>0. CallInv /\ StoreTypeOK /\ \A c \in Calls : CallOK(call[c]) /\ PhaseOK(call[c]) /\ TraceOK(call[c])
  BY DEF OutboxInv, TableInv, LedgerInv, CallInv
<1> SUFFICES ASSUME NEW a \in Agents, a \notin overlapped, ~Unpriced(a)
             PROVE  /\ Paid(a) >= Due(a)
                    /\ clock < Window /\ ~Purged(a) /\ ~Wasted(a) /\ ~Lengthy(a) => Paid(a) = Due(a)
  BY DEF SplittingIsNeutral
<1> DEFINE P == Paid(a)
           R == Recipients(a)
           n == Cardinality(Landed(a))
<1>1. P \in Int /\ R \in SUBSET Agents /\ n \in Nat
  BY <1>0, PaidType, Shown
<1>2. Balanced(a)
  BY DEF LedgerInv
<1>3. Due(a) = Worth(R, n)
  BY DEF Due, Worth
<1>4. Paid(a) >= Due(a)
  BY <1>2, <1>3 DEF Balanced
<1>5. ASSUME clock < Window, ~Purged(a), ~Wasted(a), ~Lengthy(a)
      PROVE  Paid(a) = Due(a)
  <2>1. ASSUME NEW c \in Calls, call[c].req.from = a, call[c].charged > 0
        PROVE  call[c].landed = Len(call[c].to)
    <3>1. /\ Len(call[c].to) \in Nat /\ call[c].k \in Nat /\ call[c].k <= Len(call[c].to)
          /\ call[c].landed \in Nat /\ call[c].charged \in Nat
      BY <1>0, CallNumbers
    <3>2. Priced(call[c].req)
      BY <1>0, <2>1, <3>1 DEF PhaseOK
    <3>3. call[c].landed <= Handled(call[c]) /\ Handled(call[c]) \in Int /\ Handled(call[c]) <= call[c].k
      BY <1>0, <3>1, <3>2 DEF PhaseOK, Handled
    <3>4. ~(call[c].landed < Len(call[c].to))
      BY <1>5, <2>1 DEF Wasted
    <3> QED
      BY <3>1, <3>3, <3>4
  <2>2. Settled(a)
    BY <1>5, <2>1 DEF Settled
  <2>3. /\ PayingFor(a) = {} => P = Worth(R, n)
        /\ \A c \in PayingFor(a) : Matches(call[c], P, R, n)
    BY <1>2, <2>2 DEF Balanced
  <2>4. ASSUME NEW c \in PayingFor(a)
        PROVE  P = Worth(R, n)
    <3>1. c \in Calls /\ call[c].req.from = a /\ Priced(call[c].req) /\ call[c].pc \notin {"idle", "resolve", "done"}
      BY PayingActive DEF PayingFor
    <3>2. Sized(call[c])
      BY <1>0, <3>1, PayingSized
    <3>3. call[c].landed > 0 => Length[call[c].req.body] = 1
      BY <1>0, <2>2, <3>1, ShortBodies
    <3>4. call[c].charged > 0 => call[c].landed = Len(call[c].to)
      BY <2>1, <3>1
    <3>5. Matches(call[c], P, R, n)
      BY <2>3
    <3> HIDE DEF P, R, n
    <3> QED
      BY <1>1, <3>2, <3>3, <3>4, <3>5, MatchesEnough
  <2> QED
    BY <1>3, <2>3, <2>4
<1> QED
  BY <1>4, <1>5

(* The ledger holds: along every behaviour each sender's calls are where   *)
(* the rows say they are, and what a sender paid covers what it has to     *)
(* show and what its call still has before it.                             *)
THEOREM LedgerInvariant == OutboxSpec => []LedgerInv
<1>1. OutboxInv /\ OutboxInv' /\ LedgerInv /\ [OutboxNext]_outboxVars => LedgerInv'
  BY LedgerStep
<1> QED
  BY OutboxInvariant, LedgerInit, <1>1, PTL DEF OutboxSpec

(* N sends to N people cost no less than one send to N people, whatever    *)
(* fails, is refunded, purged or expires meanwhile, and no more where      *)
(* nothing was wasted (chargeSend, sendbudget.go:81): for every number of  *)
(* calls and agents, every window and every price of breadth that grows    *)
(* with it.                                                                *)
THEOREM SplittingStaysNeutral == OutboxSpec => []SplittingIsNeutral
<1>1. OutboxInv /\ LedgerInv => SplittingIsNeutral
  BY LedgerNeutral
<1> QED
  BY OutboxInvariant, LedgerInvariant, <1>1, PTL
=============================================================================
