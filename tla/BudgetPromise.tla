--------------------------- MODULE BudgetPromise ----------------------------
(***************************************************************************)
(* What the budget ledger promises to the inference router, with no        *)
(* counter in sight.                                                       *)
(*                                                                         *)
(* A call plans under the budget period it read from the project's policy  *)
(* and is then admitted or refused.  An admitted call occupies its         *)
(* estimate until it pays its real cost or gives the estimate back, and a  *)
(* call that is abandoned occupies it for the rest of the period.  For a   *)
(* blocking budget, in the running period, admission is exact: a call is   *)
(* admitted if and only if everything paid, everything occupied and its    *)
(* own estimate fit the limit together.  About a period that is over the   *)
(* promise says nothing, its counters may have expired.                    *)
(***************************************************************************)
EXTENDS Integers, FiniteSets

CONSTANTS
  Calls,         \* inference calls, each making at most one reservation
  MaxPeriod,     \* budget periods 1 .. MaxPeriod
  Limit,         \* the project's limit, the same in every period
  BlockAtLimit,  \* whether the budget blocks (`blockAtLimit`)
  Estimate,      \* what each call reserves
  Costs          \* the real costs a call may turn out to have

ASSUME CallsAssumption == IsFiniteSet(Calls)
ASSUME PeriodAssumption == MaxPeriod \in Nat \ {0}
ASSUME MoneyAssumption ==
  /\ Limit \in Nat
  /\ BlockAtLimit \in BOOLEAN
  /\ Estimate \in [Calls -> Nat]
  /\ Costs \subseteq Nat

Periods == 1 .. MaxPeriod

\* The sum of f over C, as a number of units: c owns <<c, 1>> .. <<c, f[c]>>.  (A
\* recursive sum is out of the reach of a proof.)
UnitsOf(c, f) == {c} \X (1 .. f[c])
Units(C, f) == UNION {UnitsOf(c, f) : c \in C}
SumOver(C, f) == Cardinality(Units(C, f))

\* held, committed and released are the states of a BudgetReservation.  The
\* others are what the caller knows: not planned yet, planned under a period,
\* refused at the limit, failed without an answer from Redis, served without
\* verification (and, after it, settled without the ledger), or abandoned with
\* the reservation still held.
Phases == {"idle", "planned", "refused", "failed", "unverified", "waived",
           "held", "committed", "released", "stranded"}

VARIABLES
  period,     \* the running budget period
  phase,   \* where each call's reservation is
  key,     \* the period each call planned under (0: none yet)
  paid     \* the cost each committed call was charged

promiseVars == <<period, phase, key, paid>>

Occupying(p) == {c \in Calls : phase[c] \in {"held", "stranded"} /\ key[c] = p}
Charged(p)   == {c \in Calls : phase[c] = "committed" /\ key[c] = p}

HeldTotal(p) == SumOver(Occupying(p), Estimate)
PaidTotal(p) == SumOver(Charged(p), paid)

Occupied(p) == PaidTotal(p) + HeldTotal(p)

PromiseInit ==
  /\ period = 1
  /\ phase = [c \in Calls |-> "idle"]
  /\ key = [c \in Calls |-> 0]
  /\ paid = [c \in Calls |-> 0]

Move(c, from, to) ==
  /\ phase[c] = from
  /\ phase' = [phase EXCEPT ![c] = to]

\* The period comes with the policy the call read, not from the clock at the
\* moment of the reservation.
Plan(c) ==
  /\ Move(c, "idle", "planned")
  /\ key' = [key EXCEPT ![c] = period]
  /\ UNCHANGED <<period, paid>>

Overflows(c) == Occupied(period) + Estimate[c] > Limit

Admit(c) ==
  /\ Move(c, "planned", "held")
  /\ (BlockAtLimit /\ key[c] = period) => ~Overflows(c)
  /\ UNCHANGED <<period, key, paid>>

Deny(c) ==
  /\ Move(c, "planned", "refused")
  /\ BlockAtLimit
  /\ key[c] = period => Overflows(c)
  /\ UNCHANGED <<period, key, paid>>

\* The ledger cannot be asked: the call fails, or is served unverified and
\* never enters the accounts.
Unanswered(c) ==
  /\ \/ Move(c, "planned", "failed")
     \/ Move(c, "planned", "unverified")
     \/ Move(c, "unverified", "waived")
  /\ UNCHANGED <<period, key, paid>>

Pay(c) ==
  /\ Move(c, "held", "committed")
  /\ \E actual \in Costs : paid' = [paid EXCEPT ![c] = actual]
  /\ UNCHANGED <<period, key>>

GiveBack(c) ==
  /\ Move(c, "held", "released")
  /\ UNCHANGED <<period, key, paid>>

Abandon(c) ==
  /\ Move(c, "held", "stranded")
  /\ UNCHANGED <<period, key, paid>>

NextPeriod ==
  /\ period < MaxPeriod
  /\ period' = period + 1
  /\ UNCHANGED <<phase, key, paid>>

PromiseNext ==
  \/ NextPeriod
  \/ \E c \in Calls : \/ Plan(c) \/ Admit(c) \/ Deny(c) \/ Unanswered(c)
                      \/ Pay(c) \/ GiveBack(c) \/ Abandon(c)

PromiseSpec == PromiseInit /\ [][PromiseNext]_promiseVars

-----------------------------------------------------------------------------

PromiseTypeOK ==
  /\ period \in Periods
  /\ phase \in [Calls -> Phases]
  /\ key \in [Calls -> 0 .. MaxPeriod]
  /\ paid \in [Calls -> Nat]

\* No call costs more than it reserved: the provider's bill stays below the
\* estimate of create-chat-completion.ts:341, "the worst case".
NeverDearer == \A c \in Calls, actual \in Costs : actual <= Estimate[c]

\* While calls never cost more than they reserved, the running period of a
\* blocking budget never has more paid and occupied together than its limit,
\* however many calls are in flight ("Concurrent calls do not spend the same
\* balance twice", README.md:27).
LimitRespected ==
  (BlockAtLimit /\ NeverDearer) => Occupied(period) <= Limit
=============================================================================
