---------------------------- MODULE EvaluationRun ----------------------------
(***************************************************************************)
(* RunSuite: the suites of a path, one after the other, each measured over *)
(* the cases of its dataset, stored and announced; then the response that  *)
(* lets a merge go on or stops it.                                         *)
(*                                                                         *)
(*   checking -> opening -> asking -> closing -> publishing -> (next)      *)
(*   checking -> closing: refused before a token is spent                  *)
(*                                                                         *)
(* A DomainError ends a suite with a verdict; anything else ends the       *)
(* request, and the suites that are left with it.                          *)
(***************************************************************************)
EXTENDS Integers, Sequences, SequencesExt

CONSTANTS
  Settings, \* the suites of a path (cases, minCases, evaluators, whether its dataset can
            \* be read and whether it needs a judge), and whether there is a judge
  Scores, Latencies  \* what a case may be given

VARIABLES
  setting,
  suite,     \* the index of the one that runs
  pc,
  results,   \* its cases so far
  verdict,   \* of the run in memory
  stored,    \* the status of each run in the database
  events,
  measured   \* for the properties: the cases of each suite

vars == <<setting, suite, pc, results, verdict, stored, events, measured>>

Suites == setting.suites
Now == Suites[suite]

Init ==
  /\ setting \in Settings
  /\ suite = 1
  /\ pc = "checking"
  /\ results = <<>>
  /\ verdict = "running"
  /\ stored = [s \in DOMAIN setting.suites |-> "none"]
  /\ events = <<>>
  /\ measured = [s \in DOMAIN setting.suites |-> <<>>]

-----------------------------------------------------------------------------

\* (A mistake, for the mutant runs: one rank too low.)
NearestRankLow(count, percent) == Max({1, (percent * count) \div 100})

\* The rank of a percentile: rounded up, and at least the first.
NearestRank(count, percent) == Min({count, Max({1, (percent * count + 99) \div 100})})

Percentile(values, percent) ==
  IF values = <<>> THEN 0
  ELSE SortSeq(values, LAMBDA a, b : a < b)[NearestRank(Len(values), percent)]

Total(values) == FoldLeft(LAMBDA a, b : a + b, 0, values)

\* The evaluators: the mean of the scores has a floor, the p95 of the latencies a
\* ceiling; nothing holds of a sample of nothing.
Holds(spec, answered) ==
  /\ answered # <<>>
  /\ IF spec.name = "latency_p95"
     THEN Percentile([i \in DOMAIN answered |-> answered[i].latency], 95) <= spec.maximum
     ELSE Total([i \in DOMAIN answered |-> answered[i].score]) >= spec.threshold * Len(answered)

\* (A mistake, for the mutant runs: the cases that were answered decide.)
FinishOfAnswered(cases, specs) ==
  LET answered == SelectSeq(cases, LAMBDA c : c.answered) IN
  IF \A spec \in specs : Holds(spec, answered) THEN "passed" ELSE "failed"

\* finish: a case that fell over leaves no verdict.
Finish(cases, specs) ==
  IF \E i \in DOMAIN cases : ~cases[i].answered THEN "errored"
  ELSE IF \A spec \in specs : Holds(spec, cases) THEN "passed" ELSE "failed"

-----------------------------------------------------------------------------

\* assert_runnable, and the dataset.
Check ==
  /\ pc = "checking"
  /\ IF (Now.judged /\ ~setting.hasJudge) \/ ~Now.readable \/ Now.cases < Now.minCases
     THEN verdict' = "errored" /\ pc' = "closing"
     ELSE verdict' = "running" /\ pc' = "opening"
  /\ UNCHANGED <<setting, suite, results, stored, events, measured>>

\* The first save, as running.
Open ==
  /\ pc = "opening"
  /\ stored' = [stored EXCEPT ![suite] = "running"]
  /\ pc' = "asking"
  /\ UNCHANGED <<setting, suite, results, verdict, events, measured>>

\* A case: its answer and its scores, or the DomainError of either.
Case ==
  /\ pc = "asking" /\ Len(results) < Now.cases
  /\ \E answered \in BOOLEAN, score \in Scores, latency \in Latencies :
       results' = Append(results, [answered |-> answered, score |-> score, latency |-> latency])
  /\ UNCHANGED <<setting, suite, pc, verdict, stored, events, measured>>

Conclude ==
  /\ pc = "asking" /\ Len(results) = Now.cases
  /\ verdict' = Finish(results, Now.evaluators)
  /\ measured' = [measured EXCEPT ![suite] = results]
  /\ pc' = "closing"
  /\ UNCHANGED <<setting, suite, results, stored, events>>

\* (A mistake, for the mutant runs: a verdict is not stored over a running one.)
CloseOnce ==
  /\ pc = "closing"
  /\ stored' = [stored EXCEPT ![suite] = IF @ = "none" THEN verdict ELSE @]
  /\ pc' = "publishing"
  /\ UNCHANGED <<setting, suite, results, verdict, events, measured>>

\* The second save, of the verdict.
Close ==
  /\ pc = "closing"
  /\ stored' = [stored EXCEPT ![suite] = verdict]
  /\ pc' = "publishing"
  /\ UNCHANGED <<setting, suite, results, verdict, events, measured>>

Publish ==
  /\ pc = "publishing"
  /\ events' = Append(events, [suite |-> suite, status |-> verdict])
  /\ results' = <<>>
  /\ IF suite < Len(Suites)
     THEN suite' = suite + 1 /\ pc' = "checking"
     ELSE suite' = suite /\ pc' = "answered"
  /\ UNCHANGED <<setting, verdict, stored, measured>>

\* The process dies, MongoDB or the bus rejects, or a client raises something that is
\* no DomainError.
Break ==
  /\ pc \in {"checking", "opening", "asking", "closing", "publishing"}
  /\ pc' = "broken"
  /\ results' = <<>>
  /\ UNCHANGED <<setting, suite, verdict, stored, events, measured>>

Next == Check \/ Open \/ Case \/ Conclude \/ Close \/ Publish \/ Break

Spec == Init /\ [][Next]_vars

Over == pc \in {"answered", "broken"}

-----------------------------------------------------------------------------

Gated(status) == status \in {"failed", "errored"}

\* The response is not 409 if no run is gated: then every suite of the path was measured
\* over all of its cases, all of them answered, at most one in twenty too late, no judge
\* was missing, and its verdict is the stored one (run_suite.py:93-130, entities.py:107-128).
GreenIsMeasured ==
  pc = "answered" /\ (\A i \in DOMAIN events : ~Gated(events[i].status)) =>
    \A s \in DOMAIN Suites :
      /\ stored[s] = "passed"
      /\ Len(measured[s]) = Suites[s].cases /\ Len(measured[s]) > 0 /\ Len(measured[s]) >= Suites[s].minCases
      /\ Suites[s].judged => setting.hasJudge
      /\ \A i \in DOMAIN measured[s] : measured[s][i].answered
      /\ \A spec \in Suites[s].evaluators : spec.name = "latency_p95" =>
           LET slow == {i \in DOMAIN measured[s] : measured[s][i].latency > spec.maximum} IN
           100 * Cardinality(slow) <= 5 * Len(measured[s])

\* What was announced of a run is what is stored of it, whatever broke since; and a
\* run that is neither announced nor about to be is not said to have passed, unless
\* the request broke between its last two steps (run_suite.py:86-91).
EventsTellTheStore ==
  /\ \A i \in DOMAIN events : events[i].suite = i /\ stored[i] = events[i].status
  /\ \A s \in DOMAIN Suites : s > Len(events) /\ stored[s] \in {"passed", "failed", "errored"} =>
       s = suite /\ pc \in {"publishing", "broken"}
=============================================================================
