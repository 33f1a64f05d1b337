---------------------------- MODULE BudgetLedger ----------------------------
(***************************************************************************)
(* RedisBudgetLedger and the BudgetReservation objects it hands out, for   *)
(* one project: every replica of the router works on the same two Redis    *)
(* counters per budget period.                                             *)
(*                                                                         *)
(* A call moves through                                                    *)
(*                                                                         *)
(*   idle -> planned -> held -> committed | released | stranded            *)
(*                   -> refused | failed | unverified -> waived            *)
(*                                                                         *)
(* where planned is the moment between reading the policy (which carries   *)
(* the period key) and reserving.  Redis can drop and come back at any     *)
(* time, keeping its data; periods roll over while calls are in flight;    *)
(* the counters of a period that is over expire; and a caller can          *)
(* disappear while it holds a reservation.                                 *)
(*                                                                         *)
(* An EVAL that Redis answers with an error here changed nothing.  The     *)
(* reply lost after the script ran belongs to InferenceSaga.      *)
(***************************************************************************)
EXTENDS BudgetPromise, BudgetScripts

VARIABLES
  up,      \* the connection: `healthy && redis.status === 'ready'`
  book,    \* the spent and reserved counters of each period key
  lapsed   \* the periods whose counters have expired at least once

ledgerVars == <<period, phase, key, paid, up, book, lapsed>>

LedgerInit ==
  /\ PromiseInit
  /\ up = TRUE
  /\ book = [p \in Periods |-> EmptyBook]
  /\ lapsed = {}

Connection ==
  /\ up' = ~up
  /\ UNCHANGED <<period, phase, key, paid, book, lapsed>>

\* The period key is STABLE: taken from the policy, kept in the reservation,
\* and used again by the commit or the release, whatever the date is by then.
PlanCall(c) == Plan(c) /\ UNCHANGED <<up, book, lapsed>>

Reserve(c) ==
  /\ Move(c, "planned", "held")
  /\ up
  /\ ~Refuses(book[key[c]], Estimate[c], Limit, BlockAtLimit)
  /\ book' = [book EXCEPT ![key[c]] = ReserveScript(@, Estimate[c])]
  /\ UNCHANGED <<period, key, paid, up, lapsed>>

\* BudgetExhaustedError: the script answered 0 and wrote nothing.
Refuse(c) ==
  /\ Move(c, "planned", "refused")
  /\ up
  /\ Refuses(book[key[c]], Estimate[c], Limit, BlockAtLimit)
  /\ UNCHANGED <<period, key, paid, up, book, lapsed>>

\* isAvailable() was still true when it was asked, the EVAL then rejected.
ReserveFails(c) ==
  /\ Move(c, "planned", "failed")
  /\ ~up
  /\ UNCHANGED <<period, key, paid, up, book, lapsed>>

\* isAvailable() is false: BudgetReservation.unverified, which is born
\* 'committed' with a zero estimate and never reaches the counters.
ServeUnverified(c) ==
  /\ Move(c, "planned", "unverified")
  /\ ~up
  /\ UNCHANGED <<period, key, paid, up, book, lapsed>>

\* commit and release of an unverified reservation stay in the process.
Waive(c) ==
  /\ Move(c, "unverified", "waived")
  /\ UNCHANGED <<period, key, paid, up, book, lapsed>>

Commit(c) ==
  /\ Move(c, "held", "committed")
  /\ up
  /\ \E actual \in Costs :
       /\ paid' = [paid EXCEPT ![c] = actual]
       /\ book' = [book EXCEPT ![key[c]] = CommitScript(@, Estimate[c], actual)]
  /\ UNCHANGED <<period, key, up, lapsed>>

Release(c) ==
  /\ Move(c, "held", "released")
  /\ up
  /\ book' = [book EXCEPT ![key[c]] = ReleaseScript(@, Estimate[c])]
  /\ UNCHANGED <<period, key, paid, up, lapsed>>

\* The process dies, the stream's consumer leaves, or the EVAL of the commit
\* and of its compensation both fail: nobody asks again, and the counter keeps
\* the estimate until the period's keys expire.
GiveUp(c) ==
  /\ Move(c, "held", "stranded")
  /\ UNCHANGED <<period, key, paid, up, book, lapsed>>

RollOver == NextPeriod /\ UNCHANGED <<up, book, lapsed>>

\* A TTL that ends before the period does (a mistake, for the mutant runs).
ExpireEarly(p) ==
  /\ p <= period
  /\ \E counter \in {"spent", "reserved"} : book' = [book EXCEPT ![p][counter] = 0]
  /\ lapsed' = lapsed \cup {p}
  /\ UNCHANGED <<period, phase, key, paid, up>>

\* The TTL of a key runs to the end of its period at least, so only the
\* counters of a period that is over expire, each at a moment of its own.
Expire(p) ==
  /\ p < period
  /\ \E counter \in {"spent", "reserved"} : book' = [book EXCEPT ![p][counter] = 0]
  /\ lapsed' = lapsed \cup {p}
  /\ UNCHANGED <<period, phase, key, paid, up>>

LedgerNext ==
  \/ Connection
  \/ RollOver
  \/ \E p \in Periods : Expire(p)
  \/ \E c \in Calls : \/ PlanCall(c) \/ Reserve(c) \/ Refuse(c) \/ ReserveFails(c)
                      \/ ServeUnverified(c) \/ Waive(c) \/ Commit(c)
                      \/ Release(c) \/ GiveUp(c)

LedgerSpec == LedgerInit /\ [][LedgerNext]_ledgerVars

-----------------------------------------------------------------------------

LedgerTypeOK ==
  /\ PromiseTypeOK
  /\ up \in BOOLEAN
  /\ book \in [Periods -> Books]
  /\ lapsed \in SUBSET Periods

\* Until the keys of a period expire, its two counters are exactly what its
\* calls were charged and what its calls still hold: no script loses, repeats
\* or misplaces an amount, across replicas, outages and roll-overs
\* (redis-budget-ledger.ts:18, "the state is two counters").
CountersExact ==
  \A p \in Periods \ lapsed :
    /\ book[p].spent = PaidTotal(p)
    /\ book[p].reserved = HeldTotal(p)

\* After an expiry the counters can only be too low: a commit that arrives
\* late clamps at zero and never invents a hold nor an expense ("guards
\* against a reservation already expired by TTL", redis-budget-ledger.ts:54).
NeverOverstated ==
  \A p \in Periods :
    /\ book[p].spent <= PaidTotal(p)
    /\ book[p].reserved <= HeldTotal(p)

\* Only the keys of a past period have expired, and no call is accounted in a
\* period that has not begun.
PeriodsInOrder ==
  /\ \A p \in lapsed : p < period
  /\ \A c \in Calls : phase[c] # "idle" => key[c] \in 1 .. period

\* What the ledger authorises from: the counters of the running period of a
\* blocking budget never exceed the limit (README.md:27, redis-budget-ledger.ts:15).
CountersWithinLimit ==
  (BlockAtLimit /\ NeverDearer) => Exposure(book[period]) <= Limit

\* The ledger keeps the promise of BudgetPromise: hiding the counters, every
\* admission and every refusal of a running period is the right one.
PromiseKept == PromiseSpec
=============================================================================
