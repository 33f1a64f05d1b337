------------------------------- MODULE MCLimits -------------------------------
(***************************************************************************)
(* Instances of BudgetLedger, ProjectPolicy and Resilience: what limits    *)
(* the calls of a project, and of a replica.  They share nothing here, so  *)
(* that in a behaviour one of them moves and the others rest.              *)
(*                                                                         *)
(* Of the ledger: three calls of different sizes against a limit that any  *)
(* two of them fit and all three overflow, over two budget periods: the    *)
(* smallest instance where a refusal depends on two other calls, and where *)
(* a call planned in one period settles in the next.                       *)
(*                                                                         *)
(* Of the policy: two requests of a replica are the least for one to       *)
(* overtake the other or to share its token, a third to be served what     *)
(* they left in the cache; two administrators race.                        *)
(*                                                                         *)
(* Of resilience: three calls of one process are the smallest instance     *)
(* where answers of earlier calls arrive after the circuit has opened and  *)
(* a probe has started, and where a caller can slip in between a released  *)
(* slot and its waiter; with a Redis bulkhead the third call is on another *)
(* replica.                                                                *)
(***************************************************************************)
EXTENDS BudgetLedger, ProjectPolicy, Resilience, TLC

CONSTANTS k1, k2, k3, ann, bob, here, there, r1, r2, r3

VARIABLE part   \* which of the three moves, for good

ThreeCalls == {k1, k2, k3}
Estimates == (k1 :> 2) @@ (k2 :> 2) @@ (k3 :> 1)

-----------------------------------------------------------------------------

TwoAdmins     == {ann, bob}
TwoReplicas   == {here, there}
ThreeRequests == {r1, r2, r3}

Existing(level) == [version |-> 1, zones |-> MaxZones(level), capture |-> FALSE,
                    rules |-> 0, concurrency |-> 20]
Stored(kind, start) == [period |-> kind, start |-> start, limit |-> 5, block |-> TRUE]

Sets(change)       == [op |-> "policy", change |-> change]
Budgeted(kind, l)  == [op |-> "budget", change |-> [period |-> kind, limit |-> l]]
Creates            == [op |-> "create", change |-> <<>>]

OneHost  == r1 :> here @@ r2 :> here @@ r3 :> here
Lagging  == r1 :> here @@ r2 :> here
TwoHosts == r1 :> here @@ r2 :> here @@ r3 :> there

\* A policy narrowed while three requests fetch and fail.
Narrowed ==
  [start |-> 0, until |-> 4, level |-> "confidential", project |-> Existing("confidential"), budget |-> NoBudget,
   asked |-> ann :> Sets([zones |-> {"br", "us"}]), host |-> OneHost, faults |-> {"governance"}]

\* Two administrators of one policy, one of them refused.
Raced ==
  [start |-> 0, until |-> 5, level |-> "restricted", project |-> Existing("restricted"), budget |-> NoBudget,
   asked |-> ann :> Sets([zones |-> {"local", "br"}, concurrency |-> 5])
          @@ bob :> Sets([capture |-> TRUE]),
   host |-> <<>>, faults |-> {}]

Rivals ==
  [start |-> 0, until |-> 5, level |-> "internal", project |-> Existing("internal"), budget |-> NoBudget,
   asked |-> ann :> Sets([rules |-> 1]) @@ bob :> Sets([capture |-> TRUE]),
   host |-> r3 :> here, faults |-> {"mongo"}]

\* A project created twice, while a request looks for it and identity is down.
Founded ==
  [start |-> 0, until |-> 5, level |-> "public", project |-> NoProject, budget |-> NoBudget,
   asked |-> ann :> Creates @@ bob :> Creates, host |-> Lagging, faults |-> {"identity"}]

\* A first budget set twice.
FirstBudget ==
  [start |-> 0, until |-> 4, level |-> "public", project |-> Existing("public"), budget |-> NoBudget,
   asked |-> ann :> Budgeted("daily", 3) @@ bob :> Budgeted("monthly", 4),
   host |-> Lagging, faults |-> {}]

\* Days and months that end.
Days ==
  [start |-> 1, until |-> 5, level |-> "public", project |-> Existing("public"), budget |-> Stored("daily", 0),
   asked |-> ann :> Budgeted("daily", 7), host |-> Lagging, faults |-> {"governance"}]

Months ==
  [start |-> 1, until |-> 7, level |-> "public", project |-> Existing("public"), budget |-> Stored("monthly", 0),
   asked |-> <<>>, host |-> TwoHosts, faults |-> {}]

AllScenarios == {Narrowed, Raced, Rivals, Founded, FirstBudget, Days, Months}

-----------------------------------------------------------------------------

ThreeExecutions   == {k1, k2, k3}
TwoProcesses == {here, there}
OneProcess == [x \in ThreeExecutions |-> here]
SplitHosts     == k1 :> here @@ k2 :> here @@ k3 :> there

Broken      == [retryable |-> TRUE, after |-> NoHint]
Busy(t)     == [retryable |-> TRUE, after |-> t]
BadRequest  == [retryable |-> FALSE, after |-> NoHint]

Situation(bulkhead, host, errors, faults) ==
  [bulkhead |-> bulkhead, host |-> host, errors |-> errors, faults |-> faults]

AllSituations ==
  { Situation("none",   OneProcess,  {Broken, Busy(3)}, {}),
    Situation("memory", OneProcess,  {Broken},          {"race"}),
    Situation("memory", OneProcess,  {Broken, BadRequest}, {"abort"}),
    Situation("redis",  SplitHosts, {Broken},          {"crash"}),
    Situation("redis",  SplitHosts, {},                {"redis", "overrun"}) }

-----------------------------------------------------------------------------

PolicyAtRest == scenario = Narrowed /\ Init
ResilienceAtRest == situation = Situation("none", OneProcess, {Broken, Busy(3)}, {}) /\ ResilienceInit

LimitsInit ==
  \/ part = "ledger" /\ LedgerInit /\ PolicyAtRest /\ ResilienceAtRest
  \/ part = "policy" /\ LedgerInit /\ Init /\ ResilienceAtRest
  \/ part = "resilience" /\ LedgerInit /\ PolicyAtRest /\ ResilienceInit

CountBudget == part = "ledger" /\ LedgerNext /\ UNCHANGED <<part, vars, resilienceVars>>
ReadPolicy == part = "policy" /\ Next /\ UNCHANGED <<part, ledgerVars, resilienceVars>>
ExecuteCalls == part = "resilience" /\ ResilienceNext /\ UNCHANGED <<part, ledgerVars, vars>>
LimitsNext == CountBudget \/ ReadPolicy \/ ExecuteCalls
LimitsSpec == LimitsInit /\ [][LimitsNext]_<<part, ledgerVars, vars, resilienceVars>>

\* Two calls of one size, and of one process; two requests of one replica.
Interchangeable == Permutations({k1, k2}) \cup Permutations({r1, r2})
=============================================================================
