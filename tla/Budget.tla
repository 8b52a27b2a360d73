------------------------------- MODULE Budget -------------------------------
(***************************************************************************)
(* The communication budget (internal/budget, internal/store/budget.go):   *)
(* a bucket per sender that refills with time and that a send must be able *)
(* to pay from.                                                            *)
(*                                                                         *)
(* Amounts are hundredths, so the code's r^1.5 is a table, and a tick of   *)
(* the clock, a second, refills RefillPerTick.  Balances are exact: the    *)
(* refill rates are integers, and so are the two legs of a refill that     *)
(* crosses zero.                                                           *)
(***************************************************************************)
EXTENDS Integers, FiniteSets

CONSTANTS
  Payers,         \* who has a bucket
  Capacity,       \* BudgetParams.Capacity
  RefillPerTick,  \* BudgetParams.RefillPerHour
  Minute,         \* how many ticks make a minute
  Alpha,          \* BudgetParams.Alpha: the price of one delivery
  Breadth         \* n |-> n^BreadthExponent, in hundredths

ASSUME BudgetAssumption ==
  /\ Capacity \in Nat /\ Capacity % 4 = 0
  /\ RefillPerTick \in Nat /\ RefillPerTick % 2 = 0 /\ RefillPerTick > 0
  /\ Minute \in Nat \ {0}
  /\ Alpha \in Nat
  /\ IsFiniteSet(Payers) /\ 0..Cardinality(Payers) \subseteq DOMAIN Breadth
  /\ \A n \in DOMAIN Breadth : Breadth[n] \in Nat
  /\ Breadth[0] = 0 /\ \A m, n \in DOMAIN Breadth : m <= n => Breadth[m] <= Breadth[n]

VARIABLES
  clock,    \* the time both SQLite and the commands read
  budgets   \* sender |-> its row of the budgets table

(* The row is there once the sender was charged. *)
BudgetRows == [known : BOOLEAN, balance : Int, at : Nat]

-----------------------------------------------------------------------------

(* budget.Cost: the marginal breadth over the window, a floor per delivery, *)
(* both stretched by the length of the body.                               *)
Cost(prior, newDistinct, deliveries, length) ==
  LET marginal == Breadth[newDistinct] - Breadth[prior]
  IN IF deliveries = 0 THEN 0
     ELSE ((IF marginal < 0 THEN 0 ELSE marginal) + Alpha * deliveries) * length

Capped(b) == IF b < Capacity THEN b ELSE Capacity

RecoveryPerTick == RefillPerTick \div 2

(* Below zero the bucket refills at half the rate, above it at the full    *)
(* one: the time left after the first leg fills the second.                *)
Refilled(balance, elapsed) ==
  IF elapsed <= 0 THEN Capped(balance)
  ELSE IF balance >= 0 THEN Capped(balance + RefillPerTick * elapsed)
  ELSE IF RecoveryPerTick * elapsed <= -balance THEN balance + RecoveryPerTick * elapsed
  ELSE Capped(RefillPerTick * elapsed + 2 * balance)

Overdraft == -(Capacity \div 4)

Affordable(balance, cost) == balance - cost >= Overdraft

(* Mutation: the recovery rate is forgotten. *)
MutTimeToAfford(balance, cost) ==
  IF Affordable(balance, cost) THEN [need |-> 0, rate |-> 1]
  ELSE [need |-> cost + Overdraft - balance, rate |-> RefillPerTick]

(* How long until the cost becomes affordable: need / rate, the fraction   *)
(* the code computes.                                                      *)
TimeToAfford(balance, cost) ==
  IF Affordable(balance, cost) THEN [need |-> 0, rate |-> 1]
  ELSE [need |-> cost + Overdraft - balance,
        rate |-> IF balance < 0 THEN RecoveryPerTick ELSE RefillPerTick]

(* Waits are told in seconds below a minute and in minutes from there on,  *)
(* rounded to the nearest one, halves up.                                  *)
Unit(t) == IF t.need < Minute * t.rate THEN 1 ELSE Minute

WhenAffordable(t) ==
  Unit(t) * ((2 * t.need + Unit(t) * t.rate) \div (2 * Unit(t) * t.rate))

-----------------------------------------------------------------------------

(* What the sender has now: the row, refilled up to now, or a full bucket. *)
Balance(a) ==
  IF budgets[a].known THEN Refilled(budgets[a].balance, clock - budgets[a].at) ELSE Capacity

(* Mutation: the check is not repeated under the lock. *)
MutChargeBudget(a, cost) ==
  budgets' = [budgets EXCEPT ![a] = [known |-> TRUE, balance |-> Balance(a) - cost, at |-> clock]]

(* Mutation: the debit keeps the old timestamp, so time is refilled twice. *)
MutDebit(a, cost) ==
  /\ Affordable(Balance(a), cost)
  /\ budgets' = [budgets EXCEPT ![a] = [@ EXCEPT !.known = TRUE, !.balance = Balance(a) - cost]]

(* Check and debit in one transaction. *)
ChargeBudget(a, cost) ==
  /\ Affordable(Balance(a), cost)
  /\ budgets' = [budgets EXCEPT ![a] = [known |-> TRUE, balance |-> Balance(a) - cost, at |-> clock]]

(* The amount goes back to the stored balance, which is stamped afresh:    *)
(* what it would have refilled since its last stamp is lost.               *)
RefundBudget(a, amount) ==
  budgets' = IF amount > 0 /\ budgets[a].known
             THEN [budgets EXCEPT ![a].balance = Capped(@ + amount), ![a].at = clock]
             ELSE budgets

BudgetInit ==
  /\ clock = 0
  /\ budgets = [a \in Payers |-> [known |-> FALSE, balance |-> 0, at |-> 0]]

-----------------------------------------------------------------------------

(* No order of charges, refunds and pauses takes a stored balance below    *)
(* the overdraft or above the capacity: two senders that both found the    *)
(* balance sufficient do not both go through (store/budget.go:91).         *)
BalanceInBounds ==
  \A a \in Payers : budgets[a].known =>
    Overdraft <= budgets[a].balance /\ budgets[a].balance <= Capacity
=============================================================================
