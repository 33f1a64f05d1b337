------------------------ MODULE MCKnowledgeIngestion ------------------------
(***************************************************************************)
(* Two documents and two contents, so that documents may be twins; two     *)
(* versions, so that a document is reindexed; two workers and two requests *)
(* to interleave.                                                          *)
(***************************************************************************)
EXTENDS KnowledgeIngestion, TLC

CONSTANTS d1, d2, c1, c2, w1, w2, r1, r2

TwoDocs     == {d1, d2}
TwoContents == {c1, c2}
TwoWorkers  == {w1, w2}
TwoRequests == {r1, r2}

\* One document, reindexed and deleted while processes die.
Deaths ==
  [patient |-> TRUE, docs |-> {d1}, contents |-> TwoContents,
   workers |-> TwoWorkers, requests |-> {r1}, versions |-> 2, crashes |-> 2, outages |-> FALSE]

\* Two documents in two workers, with equal bytes or not.
Pairs == [Deaths EXCEPT !.docs = TwoDocs, !.versions = 1, !.crashes = 0]

\* Twins that are reindexed.
Twins == [Pairs EXCEPT !.contents = {c1}, !.versions = 2]

\* Requests for one document that race with each other and with its worker.
Haste ==
  [patient |-> FALSE, docs |-> {d1}, contents |-> {c1},
   workers |-> {w1}, requests |-> TwoRequests, versions |-> 1, crashes |-> 0, outages |-> FALSE]

\* Mongo away for as long as a whole attempt.
Outages == [Deaths EXCEPT !.crashes = 0, !.outages = TRUE]

\* Nothing tells one worker, or one request, from the other.
Interchangeable == Permutations(TwoWorkers) \cup Permutations(TwoRequests)

AllScenarios == {Deaths, Pairs, Twins, Haste, Outages}
OnlyOutages  == {Outages}
OnlyDeaths   == {Deaths}
=============================================================================
