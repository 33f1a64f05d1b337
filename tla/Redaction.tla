------------------------------- MODULE Redaction -------------------------------
(***************************************************************************)
(* The guardrails service: what a detector finds in a text is replaced,    *)
(* unless the text is refused.  A character is its place in the text; what *)
(* replaces a finding is one item more, which is no character.             *)
(***************************************************************************)
EXTENDS Integers, SequencesExt

Text(length) == [i \in 1 .. length |-> i]
Replacement == 0

\* Offsets are from 0, the end not included.
Overlap(f, g) == f.start < g.end /\ g.start < f.end
Span(f) == f.start + 1 .. f.end

\* Whoever comes first is kept.
Unobstructed(findings) ==
  FoldLeft(LAMBDA kept, f : IF \E k \in ToSet(kept) : Overlap(f, k) THEN kept ELSE Append(kept, f),
           <<>>, findings)

\* A sort that keeps equal elements in their order.
Sorted(findings, Key(_)) ==
  LET places == SetToSortSeq(DOMAIN findings,
                  LAMBDA i, j : \/ Key(findings[i]) < Key(findings[j])
                                \/ Key(findings[i]) = Key(findings[j]) /\ i < j)
  IN [p \in DOMAIN places |-> findings[places[p]]]

\* RegexPiiDetector: of two that overlap the one that starts first; for equal starts
\* the one with the higher score, here below ten.
Detected(findings, detector) ==
  IF detector = "regex" THEN Unobstructed(Sorted(findings, LAMBDA f : 10 * f.start - f.score)) ELSE findings

\* apply_redaction: of two that overlap the one that starts last, from back to front.
Kept(findings) == Unobstructed(Sorted(findings, LAMBDA f : 0 - f.start))

\* (A mistake, for the mutant runs: from front to back, with offsets that have moved.)
RedactedForwards(length, findings) ==
  FoldLeft(LAMBDA text, f : SubSeq(text, 1, f.start) \o <<Replacement>> \o SubSeq(text, f.end + 1, Len(text)),
           Text(length), Reverse(Kept(findings)))

Redacted(length, findings) ==
  FoldLeft(LAMBDA text, f : SubSeq(text, 1, f.start) \o <<Replacement>> \o SubSeq(text, f.end + 1, Len(text)),
           Text(length), Kept(findings))

\* The rules of InjectionHeuristics, each with its score in hundredths.
RuleScore ==
  [ignore_previous_instructions |-> 90, reveal_system_prompt |-> 85, role_override |-> 85,
   fake_system_turn |-> 60, exfiltration_via_url |-> 70]

BlockThreshold == 80
MinSignalsToBlock == 2

\* decide: one strong signal, or two of different rules; a signal is the rule that fired.
Decision(findings, signals) ==
  IF (\E s \in signals : RuleScore[s] >= BlockThreshold) \/ Cardinality(signals) >= MinSignalsToBlock
  THEN "block"
  ELSE IF findings # <<>> THEN "redact" ELSE "allow"

\* RedactContent
RedactContent(length, findings, signals) ==
  LET decision == Decision(findings, signals) IN
  [decision |-> decision,
   text     |-> IF decision = "block" THEN <<>> ELSE Redacted(length, findings),
   count    |-> IF decision = "block" THEN 0 ELSE Len(Kept(findings))]
=============================================================================
