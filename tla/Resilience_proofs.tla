-------------------------- MODULE Resilience_proofs --------------------------
(***************************************************************************)
(* Theorems about Resilience, for any number of calls and of processes and *)
(* for every policy: the slots of a bulkhead are counted and stay within   *)
(* its limit, nobody is turned away before it is reached, and the circuit  *)
(* is closed, and rests, exactly when what it was told says so.            *)
(*                                                                         *)
(* Circuit and bulkhead share only the clock, so each has an invariant of  *)
(* its own.  That of the circuit relates an entry to the log of what it    *)
(* was told, one process at a time.                                        *)
(***************************************************************************)
EXTENDS Resilience, FiniteSetTheorems, SequenceTheorems, TLAPS

Marks == [what : {"probe", "ok", "fail"}, until : Nat, asked : BOOLEAN]

\* Of a log g: the runs of failures in it, and which of them a probe has undone.
TripsIn(g) == {i \in FailureThreshold .. Len(g) : \A k \in i - FailureThreshold + 1 .. i : g[k].what = "fail"}

RecoveredIn(g, i) ==
  \E j \in i + 1 .. Len(g) - SuccessThreshold :
    /\ g[j].what = "probe"
    /\ \A k \in j + 1 .. j + SuccessThreshold : g[k].what = "ok"

\* The last m that it was told were failures; the count of failures says as much, or
\* at least no less.
EndsFailing(g, m) == m <= Len(g) /\ \A k \in Len(g) - m + 1 .. Len(g) : g[k].what = "fail"
CountsRun(e, g)   == \A m \in 0 .. FailureThreshold : e.failures >= m <=> EndsFailing(g, m)
CountsAtLeast(e, g) == \A m \in 0 .. FailureThreshold : EndsFailing(g, m) => e.failures >= m

\* The probe at j did not go well, or goes well so far.
Broken(g, j) == \E k \in j + 1 .. j + SuccessThreshold : k <= Len(g) /\ g[k].what # "ok"
Probes(e, g, j) ==
  /\ e.state = "half-open" /\ Len(g) - j = e.successes
  /\ g[j].what = "probe" /\ \A k \in j + 1 .. Len(g) : g[k].what = "ok"

LastTrip(g, i) == i \in TripsIn(g) /\ \A k \in TripsIn(g) : k <= i

\* Open, and not at rest for less than the last run of failures asked for.
RestsFor(e, g, i) ==
  /\ e.state = "open" /\ e.until >= g[i].until
  /\ \A k \in i + 1 .. Len(g) : g[k].what # "probe"
  /\ CountsRun(e, g)

\* What an entry is, when its log is g and the clock is at t.
EntryMeant(e, g, t) ==
  /\ e.state = "closed" => CountsRun(e, g) /\ \A i \in TripsIn(g) : RecoveredIn(g, i)
  /\ e.state # "closed" =>
       \E i \in TripsIn(g) : \A j \in i + 1 .. Len(g) : g[j].what = "probe" => Broken(g, j) \/ Probes(e, g, j)
  /\ e.state = "half-open" => e.successes < SuccessThreshold /\ \E j \in 1 .. Len(g) : Probes(e, g, j)
  /\ CountsAtLeast(e, g)
  /\ \A i \in TripsIn(g) : LastTrip(g, i) => t >= g[i].until \/ RestsFor(e, g, i)

LEMMA Policy ==
  FailureThreshold \in Nat \ {0} /\ SuccessThreshold \in Nat \ {0} /\ OpenTime \in Nat
BY ResilienceAssumption

\* A log h is the log g with x appended.
Grown(g, x, h) ==
  /\ Len(g) \in Nat /\ Len(h) = Len(g) + 1 /\ h[Len(g) + 1] = x
  /\ \A k \in 1 .. Len(g) : h[k] = g[k]

LEMMA LogGrows ==
  ASSUME NEW g \in Seq(Marks), NEW x \in Marks
  PROVE  /\ Append(g, x) \in Seq(Marks) /\ Grown(g, x, Append(g, x))
         /\ \A k \in 1 .. Len(g) : g[k].until \in Nat /\ (g[k].what \in {"probe", "ok", "fail"})
<1>1. \A k \in 1 .. Len(g) : g[k] \in Marks
  OBVIOUS
<1>2. QED
  BY <1>1 DEF Grown, Marks

\* A run of failures that was there is there still, and the only new one ends now.
LEMMA TripsGrow ==
  ASSUME NEW g, NEW x, NEW h, Grown(g, x, h)
  PROVE  /\ TripsIn(g) \subseteq 1 .. Len(g)
         /\ TripsIn(h) = TripsIn(g) \cup (IF EndsFailing(h, FailureThreshold) THEN {Len(g) + 1} ELSE {})
         /\ \A i \in TripsIn(g) : RecoveredIn(g, i) => RecoveredIn(h, i)
         /\ \A j \in 1 .. Len(g) : Broken(g, j) => Broken(h, j)
         /\ \A m \in Nat \ {0} : EndsFailing(h, m) <=> x.what = "fail" /\ EndsFailing(g, m - 1)
         /\ EndsFailing(h, 0) /\ EndsFailing(g, 0)
<1> USE Policy
<1>1. /\ Len(g) \in Nat /\ Len(h) = Len(g) + 1 /\ h[Len(g) + 1] = x
      /\ \A k \in 1 .. Len(g) : h[k] = g[k]
  BY DEF Grown
<1>2. TripsIn(g) \subseteq 1 .. Len(g)
  BY <1>1 DEF TripsIn
<1>3. ASSUME NEW i \in 1 .. Len(g) PROVE i \in TripsIn(g) <=> i \in TripsIn(h)
  <2>1. CASE i >= FailureThreshold
    <3>1. \A k \in i - FailureThreshold + 1 .. i : k \in 1 .. Len(g)
      BY <1>1, <2>1
    <3>2. \A k \in i - FailureThreshold + 1 .. i : h[k] = g[k]
      BY <1>1, <3>1
    <3>3. i \in FailureThreshold .. Len(g) /\ i \in FailureThreshold .. Len(h)
      BY <1>1, <2>1
    <3>4. QED
      BY <3>2, <3>3 DEF TripsIn
  <2>2. CASE ~(i >= FailureThreshold)
    BY <2>2, <1>1 DEF TripsIn
  <2>3. QED
    BY <2>1, <2>2
<1>4. Len(g) + 1 \in TripsIn(h) <=> EndsFailing(h, FailureThreshold)
  BY <1>1 DEF TripsIn, EndsFailing
<1>5. TripsIn(h) \subseteq 1 .. Len(g) + 1
  BY <1>1 DEF TripsIn
<1>6. TripsIn(h) = TripsIn(g) \cup (IF EndsFailing(h, FailureThreshold) THEN {Len(g) + 1} ELSE {})
  BY <1>1, <1>2, <1>3, <1>4, <1>5
<1>7. ASSUME NEW i \in TripsIn(g), RecoveredIn(g, i) PROVE RecoveredIn(h, i)
  <2>1. PICK j \in i + 1 .. Len(g) - SuccessThreshold :
          g[j].what = "probe" /\ \A k \in j + 1 .. j + SuccessThreshold : g[k].what = "ok"
    BY <1>7 DEF RecoveredIn
  <2>2. i \in 1 .. Len(g)
    BY <1>2
  <2>3. h[j].what = "probe" /\ \A k \in j + 1 .. j + SuccessThreshold : h[k].what = "ok"
    BY <1>1, <2>1, <2>2
  <2>4. j \in i + 1 .. Len(h) - SuccessThreshold
    BY <1>1, <2>1, <2>2
  <2>5. QED
    BY <2>3, <2>4 DEF RecoveredIn
<1>8. ASSUME NEW j \in 1 .. Len(g), Broken(g, j) PROVE Broken(h, j)
  BY <1>1, <1>8 DEF Broken
<1>9. ASSUME NEW m \in Nat \ {0} PROVE EndsFailing(h, m) <=> x.what = "fail" /\ EndsFailing(g, m - 1)
  BY <1>1 DEF EndsFailing
<1>10. EndsFailing(h, 0) /\ EndsFailing(g, 0)
  BY <1>1 DEF EndsFailing
<1>11. QED
  BY <1>2, <1>6, <1>7, <1>8, <1>9, <1>10

\* What is not a failure ends every run of failures, and is no trip.
LEMMA RunsEnd ==
  ASSUME NEW g, NEW x, NEW h, Grown(g, x, h), x.what # "fail"
  PROVE  /\ TripsIn(h) = TripsIn(g)
         /\ \A m \in 0 .. FailureThreshold : EndsFailing(h, m) <=> m = 0
<1> USE Policy
<1>1. ~EndsFailing(h, FailureThreshold)
  BY TripsGrow
<1>2. TripsIn(h) = TripsIn(g)
  BY TripsGrow, <1>1
<1>3. ASSUME NEW m \in 1 .. FailureThreshold PROVE ~EndsFailing(h, m)
  <2>1. m \in Nat \ {0}
    OBVIOUS
  <2>2. QED
    BY <2>1, TripsGrow
<1>4. EndsFailing(h, 0)
  BY TripsGrow
<1>5. QED
  BY <1>2, <1>3, <1>4

-----------------------------------------------------------------------------

LEMMA EntryFields ==
  ASSUME NEW e \in Circuits
  PROVE  e.state \in {"closed", "open", "half-open"} /\ e.failures \in Nat /\ e.successes \in Nat /\ e.until \in Nat
BY DEF Circuits

\* What a success does to an entry.
LEMMA SuccessCounts ==
  ASSUME NEW e \in Circuits, NEW f, f = AfterSuccess(e)
  PROVE  /\ f \in Circuits /\ f.failures = 0
         /\ e.state # "half-open" => f.state = e.state /\ f.until = e.until
         /\ e.state = "half-open" /\ e.successes + 1 < SuccessThreshold =>
              f.state = "half-open" /\ f.successes = e.successes + 1
         /\ e.state = "half-open" /\ e.successes + 1 >= SuccessThreshold => f.state = "closed"
<1>1. e.state \in {"closed", "open", "half-open"} /\ e.successes \in Nat
  BY EntryFields
<1>2. CASE e.state = "half-open" /\ e.successes + 1 >= SuccessThreshold
  <2>1. f = Closed
    BY <1>2 DEF AfterSuccess
  <2>2. QED
    BY Policy, <1>1, <1>2, <2>1 DEF Circuits, Closed
<1>3. CASE ~(e.state = "half-open" /\ e.successes + 1 >= SuccessThreshold)
  <2> DEFINE k == IF e.state = "half-open" THEN e.successes + 1 ELSE 0
             z == [e EXCEPT !.failures = 0]
             y == [z EXCEPT !.successes = k]
  <2>0. k \in Nat
    BY <1>1
  <2>1. f = y
    <3>1. CASE e.state = "half-open"
      BY <1>3, <3>1 DEF AfterSuccess
    <3>2. CASE e.state # "half-open"
      BY <3>2 DEF AfterSuccess
    <3>3. QED
      BY <3>1, <3>2
  <2>2. z \in Circuits /\ z.failures = 0 /\ z.state = e.state /\ z.until = e.until
    BY DEF Circuits
  <2> HIDE DEF k, z
  <2>3. y \in Circuits /\ y.failures = z.failures /\ y.successes = k /\ y.state = z.state /\ y.until = z.until
    BY <2>0, <2>2 DEF Circuits
  <2> HIDE DEF y
  <2>4. f \in Circuits /\ f.failures = 0 /\ f.successes = k /\ f.state = e.state /\ f.until = e.until
    BY <2>1, <2>2, <2>3
  <2>5. QED
    BY Policy, <1>1, <1>3, <2>4 DEF k
<1>4. QED
  BY <1>2, <1>3

\* What a failure does: it opens a circuit, or only counts.
LEMMA FailureCounts ==
  ASSUME NEW e \in Circuits, NEW hint \in {NoHint} \cup Nat, clock \in Nat, NEW f, f = AfterFailure(e, hint)
  PROVE  /\ f \in Circuits /\ f.failures = e.failures + 1 /\ OpenFor(hint) \in Nat
         /\ IF e.state = "half-open" \/ e.failures + 1 >= FailureThreshold
            THEN f.state = "open" /\ f.until = clock + OpenFor(hint)
            ELSE f.state = e.state /\ f.until = e.until
<1>1. e.state \in {"closed", "open", "half-open"} /\ e.failures \in Nat
  BY EntryFields
<1>2. OpenFor(hint) \in Nat
  BY Policy DEF OpenFor
<1> DEFINE k == e.failures + 1
           w == clock + OpenFor(hint)
           z == [e EXCEPT !.failures = k]
           y == [z EXCEPT !.successes = 0]
           x == [y EXCEPT !.state = "open"]
           v == [x EXCEPT !.until = w]
<1>3. f = (IF e.state = "half-open" \/ k >= FailureThreshold THEN v ELSE y) /\ k \in Nat /\ w \in Nat
  BY <1>1, <1>2 DEF AfterFailure
<1> HIDE DEF k, w
<1>4. z \in Circuits /\ z.failures = k /\ z.state = e.state /\ z.until = e.until
  BY <1>3 DEF Circuits
<1> HIDE DEF z
<1>5. y \in Circuits /\ y.failures = z.failures /\ y.state = z.state /\ y.until = z.until
  BY <1>4 DEF Circuits
<1> HIDE DEF y
<1>6. x \in Circuits /\ x.failures = y.failures /\ x.state = "open"
  BY <1>5 DEF Circuits
<1> HIDE DEF x
<1>7. v \in Circuits /\ v.failures = x.failures /\ v.state = x.state /\ v.until = w
  BY <1>3, <1>6 DEF Circuits
<1> HIDE DEF v
<1>8. /\ v \in Circuits /\ v.failures = k /\ v.state = "open" /\ v.until = w
      /\ y \in Circuits /\ y.failures = k /\ y.state = e.state /\ y.until = e.until
  BY <1>4, <1>5, <1>6, <1>7
<1>9. CASE e.state = "half-open" \/ k >= FailureThreshold
  <2>1. f = v
    BY <1>3, <1>9
  <2>2. QED
    BY <1>2, <1>8, <1>9, <2>1 DEF k, w
<1>10. CASE ~(e.state = "half-open" \/ k >= FailureThreshold)
  <2>1. f = y
    BY <1>3, <1>10
  <2>2. QED
    BY <1>2, <1>8, <1>10, <2>1 DEF k
<1>11. QED
  BY <1>9, <1>10

\* What an attempt does to an open entry.
LEMMA ProbeCounts ==
  ASSUME NEW e \in Circuits, e.state = "open", NEW f, f = Probing(e)
  PROVE  f \in Circuits /\ f.state = "half-open" /\ f.successes = 0 /\ f.failures = e.failures
<1> DEFINE z == [e EXCEPT !.state = "half-open"]
<1>1. z \in Circuits /\ z.state = "half-open" /\ z.failures = e.failures
  BY DEF Circuits
<1> HIDE DEF z
<1> DEFINE y == [z EXCEPT !.successes = 0]
<1>2. y \in Circuits /\ y.state = z.state /\ y.failures = z.failures /\ y.successes = 0
  BY <1>1 DEF Circuits
<1>3. y = f
  BY DEF z, Probing
<1> HIDE DEF y
<1>4. QED
  BY <1>1, <1>2, <1>3

-----------------------------------------------------------------------------

\* What a success makes of what an entry means.
LEMMA EntryAfterSuccess ==
  ASSUME NEW e \in Circuits, NEW g, NEW t \in Nat, EntryMeant(e, g, t),
         NEW x, NEW h, Grown(g, x, h), x.what = "ok", NEW f, f = AfterSuccess(e)
  PROVE  EntryMeant(f, h, t)
<1>1. e.state \in {"closed", "open", "half-open"} /\ e.successes \in Nat
  BY EntryFields
<1>2. /\ Len(g) \in Nat /\ Len(h) = Len(g) + 1 /\ h[Len(g) + 1].what = "ok"
      /\ \A k \in 1 .. Len(g) : h[k] = g[k]
  BY DEF Grown
<1>3. /\ TripsIn(g) \subseteq 1 .. Len(g)
      /\ \A i \in TripsIn(g) : RecoveredIn(g, i) => RecoveredIn(h, i)
      /\ \A j \in 1 .. Len(g) : Broken(g, j) => Broken(h, j)
  BY TripsGrow
<1>4. TripsIn(h) = TripsIn(g) /\ \A m \in 0 .. FailureThreshold : EndsFailing(h, m) <=> m = 0
  BY RunsEnd
<1>5. /\ f.failures = 0
      /\ e.state # "half-open" => f.state = e.state /\ f.until = e.until
      /\ e.state = "half-open" /\ e.successes + 1 < SuccessThreshold =>
           f.state = "half-open" /\ f.successes = e.successes + 1
      /\ e.state = "half-open" /\ e.successes + 1 >= SuccessThreshold => f.state = "closed"
  BY SuccessCounts
<1>6. CountsRun(f, h) /\ CountsAtLeast(f, h)
  <2>1. \A m \in 0 .. FailureThreshold : f.failures >= m <=> m = 0
    BY <1>5, Policy
  <2>2. QED
    BY <1>4, <2>1 DEF CountsRun, CountsAtLeast
<1>7. \A i \in TripsIn(h) : LastTrip(h, i) => t >= h[i].until \/ RestsFor(f, h, i)
  <2>1. SUFFICES ASSUME NEW i \in TripsIn(g), LastTrip(g, i)
                 PROVE  t >= h[i].until \/ RestsFor(f, h, i)
    BY <1>4 DEF LastTrip
  <2>2. i \in 1 .. Len(g)
    BY <1>3
  <2>3. h[i] = g[i]
    BY <1>2, <2>2
  <2>4. t >= g[i].until \/ RestsFor(e, g, i)
    BY <2>1 DEF EntryMeant
  <2>5. ASSUME RestsFor(e, g, i) PROVE RestsFor(f, h, i)
    <3>1. f.state = "open" /\ f.until >= h[i].until
      BY <1>5, <2>3, <2>5 DEF RestsFor
    <3>2. ASSUME NEW k \in i + 1 .. Len(h) PROVE h[k].what # "probe"
      <4>1. CASE k = Len(g) + 1
        BY <1>2, <4>1
      <4>2. CASE k # Len(g) + 1
        <5>1. k \in i + 1 .. Len(g) /\ k \in 1 .. Len(g)
          BY <1>2, <2>2, <4>2
        <5>2. QED
          BY <1>2, <2>5, <5>1 DEF RestsFor
      <4>3. QED
        BY <4>1, <4>2
    <3>3. QED
      BY <1>6, <3>1, <3>2 DEF RestsFor
  <2>6. QED
    BY <2>3, <2>4, <2>5
<1>8. CASE e.state = "closed"
  <2>1. f.state = "closed" /\ \A i \in TripsIn(h) : RecoveredIn(h, i)
    BY <1>3, <1>4, <1>5, <1>8 DEF EntryMeant
  <2>2. QED
    BY <1>6, <1>7, <2>1 DEF EntryMeant
<1>9. ASSUME NEW i \in TripsIn(g), NEW j \in i + 1 .. Len(h), h[j].what = "probe"
      PROVE  j \in i + 1 .. Len(g) /\ j \in 1 .. Len(g) /\ g[j].what = "probe"
  <2>1. i \in 1 .. Len(g)
    BY <1>3
  <2>2. j # Len(g) + 1
    BY <1>2, <1>9
  <2>3. j \in i + 1 .. Len(g) /\ j \in 1 .. Len(g)
    BY <1>2, <2>1, <2>2
  <2>4. QED
    BY <1>2, <1>9, <2>3
<1>10. CASE e.state = "open"
  <2>1. PICK i \in TripsIn(g) :
          \A j \in i + 1 .. Len(g) : g[j].what = "probe" => Broken(g, j) \/ Probes(e, g, j)
    BY <1>10 DEF EntryMeant
  <2>2. \A j \in i + 1 .. Len(h) : h[j].what = "probe" => Broken(h, j)
    BY <1>3, <1>9, <1>10, <2>1 DEF Probes
  <2>3. f.state = "open"
    BY <1>5, <1>10
  <2>4. QED
    BY <1>4, <1>6, <1>7, <2>2, <2>3 DEF EntryMeant
<1>11. CASE e.state = "half-open" /\ e.successes + 1 < SuccessThreshold
  <2>1. PICK i \in TripsIn(g) :
          \A j \in i + 1 .. Len(g) : g[j].what = "probe" => Broken(g, j) \/ Probes(e, g, j)
    BY <1>11 DEF EntryMeant
  <2>2. f.state = "half-open" /\ f.successes = e.successes + 1
    BY <1>5, <1>11
  <2>3. ASSUME NEW j \in 1 .. Len(g), Probes(e, g, j) PROVE Probes(f, h, j)
    <3>1. Len(h) - j = f.successes /\ h[j].what = "probe"
      BY <1>2, <2>2, <2>3 DEF Probes
    <3>2. ASSUME NEW k \in j + 1 .. Len(h) PROVE h[k].what = "ok"
      <4>1. k = Len(g) + 1 \/ (k \in j + 1 .. Len(g) /\ k \in 1 .. Len(g))
        BY <1>2
      <4>2. QED
        BY <1>2, <2>3, <4>1 DEF Probes
    <3>3. QED
      BY <2>2, <3>1, <3>2 DEF Probes
  <2>4. \A j \in i + 1 .. Len(h) : h[j].what = "probe" => Broken(h, j) \/ Probes(f, h, j)
    BY <1>3, <1>9, <2>1, <2>3
  <2>5. PICK j \in 1 .. Len(g) : Probes(e, g, j)
    BY <1>11 DEF EntryMeant
  <2>6. j \in 1 .. Len(h) /\ Probes(f, h, j)
    BY <1>2, <2>3, <2>5
  <2>7. f.successes < SuccessThreshold
    BY <1>11, <2>2
  <2>8. QED
    BY <1>4, <1>6, <1>7, <2>2, <2>4, <2>6, <2>7 DEF EntryMeant
<1>12. CASE e.state = "half-open" /\ e.successes + 1 >= SuccessThreshold
  <2>1. PICK j \in 1 .. Len(g) : Probes(e, g, j)
    BY <1>12 DEF EntryMeant
  <2>2. e.successes < SuccessThreshold
    BY <1>12 DEF EntryMeant
  <2>3. Len(g) - j = e.successes /\ g[j].what = "probe" /\ \A k \in j + 1 .. Len(g) : g[k].what = "ok"
    BY <2>1 DEF Probes
  <2>4. j = Len(h) - SuccessThreshold
    <3>1. e.successes + 1 = SuccessThreshold
      BY <1>1, <1>12, <2>2, Policy
    <3>2. Len(g) - j = e.successes /\ Len(h) = Len(g) + 1
      BY <1>2, <2>3
    <3>3. QED
      BY <1>1, <1>2, <3>1, <3>2
  <2>5. ASSUME NEW k \in j + 1 .. j + SuccessThreshold PROVE h[k].what = "ok"
    <3>1. k = Len(g) + 1 \/ (k \in j + 1 .. Len(g) /\ k \in 1 .. Len(g))
      BY <1>2, <2>4, Policy
    <3>2. QED
      BY <1>2, <2>3, <3>1
  <2>6. ASSUME NEW i \in TripsIn(h) PROVE RecoveredIn(h, i)
    <3>1. i \in 1 .. Len(g) /\ g[i].what = "fail"
      <4>1. i \in i - FailureThreshold + 1 .. i /\ i \in 1 .. Len(g)
        BY <1>3, <1>4, Policy
      <4>2. QED
        BY <1>4, <4>1 DEF TripsIn
    <3>2. i < j
      <4>1. i # j
        BY <2>3, <3>1
      <4>2. ~(i > j)
        <5>1. ASSUME i > j PROVE i \in j + 1 .. Len(g)
          BY <3>1, <5>1
        <5>2. QED
          BY <2>3, <3>1, <5>1
      <4>3. QED
        BY <3>1, <4>1, <4>2
    <3>3. j \in i + 1 .. Len(h) - SuccessThreshold
      BY <2>4, <3>1, <3>2
    <3>4. h[j].what = "probe"
      BY <1>2, <2>3
    <3>5. QED
      BY <2>5, <3>3, <3>4 DEF RecoveredIn
  <2>7. f.state = "closed"
    BY <1>5, <1>12
  <2>8. QED
    BY <1>6, <1>7, <2>6, <2>7 DEF EntryMeant
<1>13. QED
  BY <1>1, <1>8, <1>10, <1>11, <1>12, Policy

\* What an attempt makes of it, when the rest of an open circuit is over.
LEMMA EntryAfterProbe ==
  ASSUME NEW e \in Circuits, NEW g \in Seq(Marks), NEW t \in Nat, EntryMeant(e, g, t),
         e.state = "open", e.until <= t,
         NEW x, NEW h, Grown(g, x, h), x.what = "probe", NEW f, f = Probing(e)
  PROVE  EntryMeant(f, h, t)
<1>1. e.failures \in Nat /\ e.until \in Nat
  BY EntryFields
<1>2. /\ Len(g) \in Nat /\ Len(h) = Len(g) + 1 /\ h[Len(g) + 1].what = "probe"
      /\ \A k \in 1 .. Len(g) : h[k] = g[k]
  BY DEF Grown
<1>3. /\ TripsIn(g) \subseteq 1 .. Len(g)
      /\ \A j \in 1 .. Len(g) : Broken(g, j) => Broken(h, j)
  BY TripsGrow
<1>4. TripsIn(h) = TripsIn(g) /\ \A m \in 0 .. FailureThreshold : EndsFailing(h, m) <=> m = 0
  BY RunsEnd
<1>5. f.failures \in Nat /\ f.state = "half-open" /\ f.successes = 0
  BY <1>1, ProbeCounts
<1>6. CountsAtLeast(f, h)
  BY <1>4, <1>5 DEF CountsAtLeast
<1>7. \A i \in TripsIn(h) : LastTrip(h, i) => t >= h[i].until \/ RestsFor(f, h, i)
  <2>1. SUFFICES ASSUME NEW i \in TripsIn(g), LastTrip(g, i) PROVE t >= h[i].until
    BY <1>4 DEF LastTrip
  <2>2. i \in 1 .. Len(g)
    BY <1>3
  <2>3. h[i] = g[i] /\ g[i].until \in Nat
    <3>1. g[i] \in Marks
      BY <2>2
    <3>2. QED
      BY <1>2, <2>2, <3>1 DEF Marks
  <2>4. t >= g[i].until \/ e.until >= g[i].until
    BY <2>1 DEF EntryMeant, RestsFor
  <2>5. QED
    BY <1>1, <2>3, <2>4
<1>8. PICK i \in TripsIn(g) :
        \A j \in i + 1 .. Len(g) : g[j].what = "probe" => Broken(g, j) \/ Probes(e, g, j)
  BY DEF EntryMeant
<1>9. Len(h) \in 1 .. Len(h) /\ Probes(f, h, Len(h))
  BY <1>2, <1>5 DEF Probes
<1>10. ASSUME NEW j \in i + 1 .. Len(h), h[j].what = "probe" PROVE Broken(h, j) \/ Probes(f, h, j)
  <2>1. i \in 1 .. Len(g)
    BY <1>3
  <2>2. CASE j = Len(h)
    BY <1>9, <2>2
  <2>3. CASE j # Len(h)
    <3>1. j \in i + 1 .. Len(g) /\ j \in 1 .. Len(g)
      BY <1>2, <2>1, <2>3
    <3>2. g[j].what = "probe"
      BY <1>2, <1>10, <3>1
    <3>3. QED
      BY <1>3, <1>8, <3>1, <3>2 DEF Probes
  <2>4. QED
    BY <2>2, <2>3
<1>11. f.successes < SuccessThreshold
  BY <1>5, Policy
<1>12. QED
  BY <1>4, <1>5, <1>6, <1>7, <1>9, <1>10, <1>11 DEF EntryMeant

\* What a failure makes of it: the mark says for how long the circuit opened, if it is
\* open after it.
LEMMA EntryAfterFailure ==
  ASSUME NEW e \in Circuits, NEW g, EntryMeant(e, g, clock), clock \in Nat,
         NEW hint \in {NoHint} \cup Nat, NEW f, f = AfterFailure(e, hint),
         NEW x, NEW h, Grown(g, x, h), x.what = "fail",
         x.until = IF f.state = "open" THEN clock + OpenFor(hint) ELSE 0
  PROVE  EntryMeant(f, h, clock)
<1>1. e.state \in {"closed", "open", "half-open"} /\ e.failures \in Nat /\ e.successes \in Nat /\ e.until \in Nat
  BY EntryFields
<1>2. /\ Len(g) \in Nat /\ Len(h) = Len(g) + 1 /\ h[Len(g) + 1] = x
      /\ \A k \in 1 .. Len(g) : h[k] = g[k]
  BY DEF Grown
<1>3. /\ TripsIn(g) \subseteq 1 .. Len(g)
      /\ TripsIn(h) = TripsIn(g) \cup (IF EndsFailing(h, FailureThreshold) THEN {Len(g) + 1} ELSE {})
      /\ \A i \in TripsIn(g) : RecoveredIn(g, i) => RecoveredIn(h, i)
      /\ \A j \in 1 .. Len(g) : Broken(g, j) => Broken(h, j)
      /\ \A m \in Nat \ {0} : EndsFailing(h, m) <=> EndsFailing(g, m - 1)
      /\ EndsFailing(h, 0)
  BY TripsGrow
<1>4. /\ f.failures = e.failures + 1 /\ OpenFor(hint) \in Nat
      /\ IF e.state = "half-open" \/ e.failures + 1 >= FailureThreshold
         THEN f.state = "open" /\ f.until = clock + OpenFor(hint)
         ELSE f.state = e.state /\ f.until = e.until
  BY FailureCounts
\* The counts go on as they were.
<1>5. CountsAtLeast(f, h)
  <2>1. SUFFICES ASSUME NEW m \in 0 .. FailureThreshold, EndsFailing(h, m) PROVE f.failures >= m
    BY DEF CountsAtLeast
  <2>2. CASE m = 0
    BY <1>1, <1>4, <2>2
  <2>3. CASE m # 0
    <3>1. m \in Nat \ {0} /\ m - 1 \in 0 .. FailureThreshold
      BY <2>3, Policy
    <3>2. EndsFailing(g, m - 1)
      BY <1>3, <2>1, <3>1
    <3>3. e.failures >= m - 1
      BY <3>1, <3>2 DEF EntryMeant, CountsAtLeast
    <3>4. QED
      BY <1>1, <1>4, <3>1, <3>3
  <2>4. QED
    BY <2>2, <2>3
<1>6. ASSUME CountsRun(e, g) PROVE CountsRun(f, h)
  <2>1. SUFFICES ASSUME NEW m \in 0 .. FailureThreshold PROVE f.failures >= m <=> EndsFailing(h, m)
    BY DEF CountsRun
  <2>2. CASE m = 0
    BY <1>1, <1>3, <1>4, <2>2
  <2>3. CASE m # 0
    <3>1. m \in Nat \ {0} /\ m - 1 \in 0 .. FailureThreshold
      BY <2>3, Policy
    <3>2. EndsFailing(h, m) <=> EndsFailing(g, m - 1)
      BY <1>3, <3>1
    <3>3. e.failures >= m - 1 <=> EndsFailing(g, m - 1)
      BY <1>6, <3>1 DEF CountsRun
    <3>4. e.failures + 1 >= m <=> e.failures >= m - 1
      BY <1>1, <3>1
    <3>5. QED
      BY <1>4, <3>2, <3>3, <3>4
  <2>4. QED
    BY <2>2, <2>3
\* A run that is long enough opens the circuit, and when it just became long enough the
\* count says so.
<1>7. ASSUME EndsFailing(h, FailureThreshold) PROVE f.state = "open" /\ x.until = f.until
  <2>1. f.failures >= FailureThreshold
    BY <1>5, <1>7, Policy DEF CountsAtLeast
  <2>2. QED
    BY <1>4, <2>1
<1>8. ASSUME ~EndsFailing(h, FailureThreshold) PROVE TripsIn(h) = TripsIn(g)
  BY <1>3, <1>8
<1>9. f.state = "closed" => CountsRun(f, h) /\ \A i \in TripsIn(h) : RecoveredIn(h, i)
  <2>1. SUFFICES ASSUME f.state = "closed" PROVE CountsRun(f, h) /\ \A i \in TripsIn(h) : RecoveredIn(h, i)
    OBVIOUS
  <2>2. e.state = "closed"
    BY <1>4, <2>1
  <2>3. CountsRun(e, g) /\ \A i \in TripsIn(g) : RecoveredIn(g, i)
    BY <2>2 DEF EntryMeant
  <2>4. TripsIn(h) = TripsIn(g)
    BY <1>7, <1>8, <2>1
  <2>5. QED
    BY <1>3, <1>6, <2>3, <2>4
<1>10. f.state # "closed" =>
         \E i \in TripsIn(h) : \A j \in i + 1 .. Len(h) : h[j].what = "probe" => Broken(h, j) \/ Probes(f, h, j)
  <2>1. SUFFICES ASSUME f.state # "closed"
                 PROVE  \E i \in TripsIn(h) : \A j \in i + 1 .. Len(h) : h[j].what = "probe" => Broken(h, j)
    OBVIOUS
  <2>2. CASE EndsFailing(h, FailureThreshold)
    <3>1. Len(g) + 1 \in TripsIn(h)
      BY <1>3, <2>2
    <3>2. \A j \in (Len(g) + 1) + 1 .. Len(h) : FALSE
      BY <1>2
    <3>3. QED
      BY <3>1, <3>2
  <2>3. CASE ~EndsFailing(h, FailureThreshold)
    <3>1. e.state # "closed"
      <4>1. SUFFICES ASSUME e.state = "closed" PROVE FALSE
        OBVIOUS
      <4>2. CountsRun(f, h)
        BY <1>6, <4>1 DEF EntryMeant
      <4>3. f.failures >= FailureThreshold <=> EndsFailing(h, FailureThreshold)
        BY <4>2, Policy DEF CountsRun
      <4>4. QED
        BY <1>4, <2>1, <2>3, <4>1, <4>3
    <3>2. PICK i \in TripsIn(g) :
            \A j \in i + 1 .. Len(g) : g[j].what = "probe" => Broken(g, j) \/ Probes(e, g, j)
      BY <3>1 DEF EntryMeant
    <3>3. i \in TripsIn(h) /\ i \in 1 .. Len(g)
      BY <1>3, <1>8, <2>3
    <3>4. ASSUME NEW j \in i + 1 .. Len(h), h[j].what = "probe" PROVE Broken(h, j)
      <4>1. j # Len(g) + 1
        BY <1>2, <3>4
      <4>2. j \in i + 1 .. Len(g) /\ j \in 1 .. Len(g)
        BY <1>2, <3>3, <4>1
      <4>3. g[j].what = "probe"
        BY <1>2, <3>4, <4>2
      <4>4. CASE Broken(g, j)
        BY <1>3, <4>2, <4>4
      <4>5. CASE Probes(e, g, j)
        <5>1. Len(g) - j = e.successes /\ e.state = "half-open"
          BY <4>5 DEF Probes
        <5>2. e.successes < SuccessThreshold
          BY <5>1 DEF EntryMeant
        <5>3. Len(g) + 1 \in j + 1 .. j + SuccessThreshold /\ Len(g) + 1 <= Len(h)
          BY <1>1, <1>2, <4>2, <5>1, <5>2, Policy
        <5>4. h[Len(g) + 1].what # "ok"
          BY <1>2
        <5>5. QED
          BY <5>3, <5>4 DEF Broken
      <4>6. QED
        BY <3>2, <4>2, <4>3, <4>4, <4>5
    <3>5. QED
      BY <3>3, <3>4
  <2>4. QED
    BY <2>2, <2>3
<1>11. f.state # "half-open"
  BY <1>4
<1>12. ASSUME NEW i \in TripsIn(h), LastTrip(h, i) PROVE clock >= h[i].until \/ RestsFor(f, h, i)
  <2>1. CASE i = Len(g) + 1
    <3>1. EndsFailing(h, FailureThreshold)
      BY <1>2, <1>3, <2>1
    <3>2. f.state = "open" /\ f.until >= h[i].until
      <4>1. h[i] = x /\ f.state = "open" /\ x.until = f.until
        BY <1>2, <1>7, <2>1, <3>1
      <4>2. x.until \in Nat
        BY <1>4, <4>1
      <4>3. QED
        BY <4>1, <4>2
    <3>3. f.failures >= FailureThreshold /\ f.failures \in Nat
      BY <1>1, <1>4, <1>5, <3>1, Policy DEF CountsAtLeast
    <3>4. ASSUME NEW m \in 0 .. FailureThreshold PROVE EndsFailing(h, m) /\ f.failures >= m
      <4>1. m <= Len(h) /\ \A k \in Len(h) - m + 1 .. Len(h) : k \in Len(h) - FailureThreshold + 1 .. Len(h)
        BY <1>2, <3>1, Policy DEF EndsFailing
      <4>2. QED
        BY <3>1, <3>3, <4>1, Policy DEF EndsFailing
    <3>5. \A k \in i + 1 .. Len(h) : FALSE
      BY <1>2, <2>1
    <3>6. QED
      BY <3>2, <3>4, <3>5 DEF RestsFor, CountsRun
  <2>2. CASE i # Len(g) + 1
    <3>1. i \in TripsIn(g) /\ i \in 1 .. Len(g)
      BY <1>3, <2>2
    <3>2. ~EndsFailing(h, FailureThreshold)
      <4>1. SUFFICES ASSUME EndsFailing(h, FailureThreshold) PROVE FALSE
        OBVIOUS
      <4>2. Len(g) + 1 <= i
        BY <1>3, <1>12, <4>1 DEF LastTrip
      <4>3. QED
        BY <1>2, <3>1, <4>2
    <3>3. LastTrip(g, i)
      BY <1>8, <1>12, <3>1, <3>2 DEF LastTrip
    <3>4. h[i] = g[i]
      BY <1>2, <3>1
    <3>5. CASE RestsFor(e, g, i)
      <4>1. e.state = "open" /\ e.until >= g[i].until /\ CountsRun(f, h)
        BY <1>6, <3>5 DEF RestsFor
      <4>2. ~(f.failures >= FailureThreshold)
        BY <3>2, <4>1, Policy DEF CountsRun
      <4>3. f.state = "open" /\ f.until = e.until
        BY <1>4, <4>1, <4>2
      <4>4. ASSUME NEW k \in i + 1 .. Len(h) PROVE h[k].what # "probe"
        <5>1. k = Len(g) + 1 \/ (k \in i + 1 .. Len(g) /\ k \in 1 .. Len(g))
          BY <1>2, <3>1
        <5>2. QED
          BY <1>2, <3>5, <5>1 DEF RestsFor
      <4>5. QED
        BY <3>4, <4>1, <4>3, <4>4 DEF RestsFor
    <3>6. QED
      BY <3>1, <3>3, <3>4, <3>5 DEF EntryMeant
  <2>3. QED
    BY <2>1, <2>2
<1>13. QED
  BY <1>5, <1>9, <1>10, <1>11, <1>12 DEF EntryMeant

\* What holds of an entry goes on holding as time passes, and holds of a new process.
LEMMA EntryAges ==
  ASSUME NEW e, NEW g \in Seq(Marks), NEW t \in Nat, EntryMeant(e, g, t)
  PROVE  EntryMeant(e, g, t + 1)
<1>1. ASSUME NEW i \in TripsIn(g), LastTrip(g, i) PROVE t + 1 >= g[i].until \/ RestsFor(e, g, i)
  <2>1. t >= g[i].until \/ RestsFor(e, g, i)
    BY <1>1 DEF EntryMeant
  <2>2. i \in 1 .. Len(g)
    BY Policy DEF TripsIn
  <2>3. g[i] \in Marks
    BY <2>2
  <2>4. QED
    BY <2>1, <2>3 DEF Marks
<1>2. QED
  BY <1>1 DEF EntryMeant

LEMMA EntryStarts ==
  ASSUME NEW t \in Nat
  PROVE  EntryMeant(Closed, <<>>, t) /\ Closed \in Circuits
<1>1. Len(<<>>) = 0 /\ Closed.state = "closed" /\ Closed.failures = 0 /\ Closed \in Circuits
  BY DEF Closed, Circuits
<1>2. TripsIn(<<>>) = {}
  BY <1>1, Policy DEF TripsIn
<1>3. \A m \in 0 .. FailureThreshold : EndsFailing(<<>>, m) <=> m = 0
  BY <1>1, Policy DEF EndsFailing
<1>4. CountsRun(Closed, <<>>) /\ CountsAtLeast(Closed, <<>>)
  BY <1>1, <1>3, Policy DEF CountsRun, CountsAtLeast
<1>5. QED
  BY <1>1, <1>2, <1>4 DEF EntryMeant

-----------------------------------------------------------------------------

CircuitInv ==
  /\ situation \in Situations /\ clock \in Nat
  /\ circuit \in [Processes -> Circuits] /\ log \in [Processes -> Seq(Marks)]
  /\ \A p \in Processes : EntryMeant(circuit[p], log[p], clock)

LEMMA Scene ==
  ASSUME situation \in Situations
  PROVE  /\ ProcessOf \in [Executions -> Processes]
         /\ \A c \in Executions : ProcessOf[c] \in Processes
         /\ situation.errors \subseteq Errors /\ situation.bulkhead \in {"none", "memory", "redis"}
BY ResilienceAssumption DEF ProcessOf

\* What the calls keep of themselves.
CallsInv ==
  /\ situation \in Situations /\ clock \in 0 .. MaxClock
  /\ pc \in [Executions -> Labels]
  /\ outcome \in [Executions -> {"none", "answered", "failed"}]
  /\ attempt \in [Executions -> 0 .. MaxAttempts]
  /\ wake \in [Executions -> Nat]
  /\ aborted \in [Executions -> BOOLEAN]
  /\ \A c \in Executions : pc[c] = "releasing" => outcome[c] \in {"answered", "failed"}

LEMMA Limits ==
  /\ MaxConcurrent \in Nat \ {0} /\ AcquireTimeout \in Nat /\ LeaseTtl \in Nat \ {0}
  /\ MaxAttempts \in Nat /\ MaxDelay \in Nat /\ MaxClock \in Nat /\ IsFiniteSet(Executions)
BY ResilienceAssumption

\* A call that goes from one label to another, and leaves the rest alone.
LEMMA CallGoes ==
  ASSUME CallsInv, NEW c \in Executions, NEW label \in Labels, Moves(c, label),
         label = "releasing" => outcome'[c] \in {"answered", "failed"},
         outcome' \in [Executions -> {"none", "answered", "failed"}],
         \A d \in Executions \ {c} : outcome'[d] = outcome[d],
         attempt' \in [Executions -> 0 .. MaxAttempts], wake' \in [Executions -> Nat],
         UNCHANGED <<situation, clock, aborted>>
  PROVE  CallsInv'
<1>1. pc' \in [Executions -> Labels]
  BY DEF CallsInv, Moves
<1>2. ASSUME NEW d \in Executions, pc'[d] = "releasing" PROVE outcome'[d] \in {"answered", "failed"}
  <2>1. CASE d = c
    BY <1>2, <2>1 DEF CallsInv, Moves
  <2>2. CASE d # c
    BY <1>2, <2>2 DEF CallsInv, Moves
  <2>3. QED
    BY <2>1, <2>2
<1>3. QED
  BY <1>1, <1>2 DEF CallsInv

\* What withRetry does with an error.
LEMMA CaughtKeeps ==
  ASSUME CallsInv, NEW c \in Executions, NEW retryable \in BOOLEAN, NEW hint \in {NoHint} \cup Nat,
         Caught(c, retryable, hint), UNCHANGED <<situation, clock, aborted>>
  PROVE  CallsInv'
<1> USE Limits
<1>1. CASE Moves(c, "backoff") /\ attempt[c] < MaxAttempts /\ attempt' = [attempt EXCEPT ![c] = @ + 1]
           /\ WakesAt(c, IF hint > 0 THEN clock + Sooner(hint, MaxDelay) ELSE 0) /\ UNCHANGED outcome
  <2> DEFINE w == IF hint > 0 THEN clock + Sooner(hint, MaxDelay) ELSE 0
             n == attempt[c] + 1
  <2>1. w \in Nat
    BY DEF CallsInv, Sooner, NoHint
  <2>2. n \in 0 .. MaxAttempts
    BY <1>1 DEF CallsInv
  <2>3. wake' = [wake EXCEPT ![c] = w] /\ attempt' = [attempt EXCEPT ![c] = n]
    BY <1>1 DEF WakesAt
  <2> HIDE DEF w, n
  <2>4. wake' \in [Executions -> Nat] /\ attempt' \in [Executions -> 0 .. MaxAttempts]
    BY <2>1, <2>2, <2>3 DEF CallsInv
  <2>5. "backoff" \in Labels
    BY DEF Labels, Holding
  <2>6. UNCHANGED outcome /\ outcome \in [Executions -> {"none", "answered", "failed"}]
    BY <1>1 DEF CallsInv
  <2>7. QED
    BY <1>1, <2>4, <2>5, <2>6, CallGoes
<1>2. CASE Moves(c, "releasing") /\ outcome' = [outcome EXCEPT ![c] = "failed"] /\ UNCHANGED <<attempt, wake>>
  <2>1. "releasing" \in Labels
    BY DEF Labels, Holding
  <2>2. /\ outcome' \in [Executions -> {"none", "answered", "failed"}] /\ outcome'[c] = "failed"
        /\ \A d \in Executions \ {c} : outcome'[d] = outcome[d]
    BY <1>2 DEF CallsInv
  <2>3. attempt' \in [Executions -> 0 .. MaxAttempts] /\ wake' \in [Executions -> Nat]
    BY <1>2 DEF CallsInv
  <2>4. QED
    BY <1>2, <2>1, <2>2, <2>3, CallGoes
<1>3. QED
  BY <1>1, <1>2 DEF Caught

LEMMA CallsStep ==
  ASSUME CallsInv, [ResilienceNext]_resilienceVars
  PROVE  CallsInv'
<1> USE Limits
<1>1. ASSUME NEW c \in Executions, NEW label \in Labels \ {"releasing"}, Moves(c, label),
             UNCHANGED <<situation, clock, outcome, attempt, aborted>>, wake' \in [Executions -> Nat]
      PROVE  CallsInv'
  BY <1>1, CallGoes DEF CallsInv
<1>2. Labels = {"answered", "failed", "limited", "gone", "trying", "running", "backoff", "releasing",
                "idle", "waiting", "granted", "polling"}
  BY DEF Labels, Outcomes, Holding
<1>3. wake \in [Executions -> Nat] /\ \A c \in Executions, t \in Nat : [wake EXCEPT ![c] = t] \in [Executions -> Nat]
  BY DEF CallsInv
<1>4. clock + AcquireTimeout \in Nat /\ 0 \in Nat
  BY DEF CallsInv
<1>5. ASSUME NEW c \in Executions, Step(c) PROVE CallsInv'
  <2>1. CASE EnterFreely(c)
    BY <1>1, <1>2, <1>3, <2>1 DEF EnterFreely
  <2>2. CASE EnterInMemory(c)
    BY <1>1, <1>2, <1>3, <1>4, <2>2 DEF EnterInMemory, WakesAt
  <2>3. CASE EnterInRedis(c)
    BY <1>1, <1>2, <1>3, <1>4, <2>3 DEF EnterInRedis, WakesAt
  <2>4. CASE TakeSlot(c)
    BY <1>1, <1>2, <1>3, <1>4, <2>4 DEF TakeSlot, WakesAt
  <2>5. CASE WaitTimesOut(c)
    BY <1>1, <1>2, <1>3, <2>5 DEF WaitTimesOut
  <2>6. CASE Poll(c)
    BY <1>1, <1>2, <1>3, <1>4, <2>6 DEF Poll, WakesAt
  <2>7. CASE Attempt(c)
    <3>1. CASE Caught(c, TRUE, NoHint)
      BY <2>7, <3>1, CaughtKeeps DEF Attempt
    <3>2. CASE Moves(c, "running") /\ UNCHANGED <<outcome, attempt, wake>>
      BY <1>1, <1>2, <1>3, <2>7, <3>2 DEF Attempt
    <3>3. QED
      BY <2>7, <3>1, <3>2 DEF Attempt
  <2>8. CASE Succeed(c)
    <3>1. /\ outcome' \in [Executions -> {"none", "answered", "failed"}] /\ outcome'[c] = "answered"
          /\ \A d \in Executions \ {c} : outcome'[d] = outcome[d]
      BY <2>8 DEF Succeed, CallsInv
    <3>2. attempt' \in [Executions -> 0 .. MaxAttempts] /\ wake' \in [Executions -> Nat] /\ Moves(c, "releasing")
          /\ UNCHANGED <<situation, clock, aborted>>
      BY <2>8 DEF Succeed, CallsInv
    <3>3. QED
      BY <1>2, <3>1, <3>2, CallGoes
  <2>9. CASE Fail(c)
    <3>1. PICK a \in situation.errors \cup (IF aborted[c] THEN {[retryable |-> TRUE, after |-> NoHint]} ELSE {}) :
            Caught(c, a.retryable, a.after)
      BY <2>9 DEF Fail
    <3>2. a.retryable \in BOOLEAN /\ a.after \in {NoHint} \cup Nat
      <4>1. situation.errors \subseteq Errors
        BY Scene DEF CallsInv
      <4>2. CASE a \in Errors
        BY <4>2 DEF Errors
      <4>3. CASE a = [retryable |-> TRUE, after |-> NoHint]
        BY <4>3
      <4>4. QED
        BY <4>1, <4>2, <4>3
    <3>3. UNCHANGED <<situation, clock, aborted>>
      BY <2>9 DEF Fail
    <3>4. QED
      BY <3>1, <3>2, <3>3, CaughtKeeps
  <2>10. CASE Resume(c)
    <3>1. wake' \in [Executions -> Nat] /\ UNCHANGED <<situation, clock, attempt, aborted>>
      BY <1>3, <1>4, <2>10 DEF Resume, WakesAt
    <3>2. CASE Moves(c, "trying") /\ UNCHANGED outcome
      BY <1>1, <1>2, <3>1, <3>2
    <3>3. CASE Moves(c, "releasing") /\ outcome' = [outcome EXCEPT ![c] = "failed"]
      <4>1. /\ outcome' \in [Executions -> {"none", "answered", "failed"}] /\ outcome'[c] = "failed"
            /\ \A d \in Executions \ {c} : outcome'[d] = outcome[d]
        BY <3>3 DEF CallsInv
      <4>2. attempt' \in [Executions -> 0 .. MaxAttempts]
        BY <3>1 DEF CallsInv
      <4>3. QED
        BY <1>2, <3>1, <3>3, <4>1, <4>2, CallGoes
    <3>4. QED
      BY <2>10, <3>2, <3>3 DEF Resume
  <2>11. CASE ReleaseInMemory(c)
    <3>1. pc' \in [Executions -> Labels] /\ \A d \in Executions : pc'[d] = "releasing" => pc[d] = "releasing"
      BY <1>2, <2>11 DEF ReleaseInMemory, CallsInv, Stands
    <3>2. QED
      BY <2>11, <3>1 DEF ReleaseInMemory, CallsInv
  <2>12. CASE ReleaseInRedis(c)
    <3>1. outcome[c] \in {"answered", "failed"}
      BY <2>12 DEF ReleaseInRedis, CallsInv, Stands
    <3>2. QED
      BY <1>1, <1>2, <1>3, <2>12, <3>1 DEF ReleaseInRedis
  <2>13. CASE ReleaseNothing(c)
    <3>1. outcome[c] \in {"answered", "failed"}
      BY <2>13 DEF ReleaseNothing, CallsInv, Stands
    <3>2. QED
      BY <1>1, <1>2, <1>3, <2>13, <3>1 DEF ReleaseNothing
  <2>14. QED
    BY <1>5, <2>1, <2>2, <2>3, <2>4, <2>5, <2>6, <2>7, <2>8, <2>9, <2>10, <2>11, <2>12, <2>13 DEF Step
<1>6. ASSUME NEW c \in Executions, Abort(c) PROVE CallsInv'
  BY <1>6 DEF Abort, CallsInv
<1>7. ASSUME NEW p \in Processes, Crash(p) PROVE CallsInv'
  BY <1>2, <1>7 DEF Crash, CallsInv
<1>8. CASE Elapse
  BY <1>8 DEF Elapse, CallsInv, callVars
<1>9. CASE Settled \/ UNCHANGED resilienceVars
  BY <1>9 DEF Settled, resilienceVars, callVars, CallsInv
<1>10. QED
  BY <1>5, <1>6, <1>7, <1>8, <1>9 DEF ResilienceNext

LEMMA CallsHold == ResilienceSpec => []CallsInv
<1>1. ResilienceInit => CallsInv
  BY Limits DEF ResilienceInit, CallsInv, Labels
<1>2. QED
  BY <1>1, CallsStep, PTL DEF ResilienceSpec

-----------------------------------------------------------------------------

\* A circuit is told of one thing more.
LEMMA CircuitTold ==
  ASSUME CircuitInv, NEW p \in Processes, NEW f \in Circuits, NEW x \in Marks,
         Records(p, f, x), EntryMeant(f, Append(log[p], x), clock), UNCHANGED <<situation, clock>>
  PROVE  CircuitInv'
<1>1. log[p] \in Seq(Marks)
  BY DEF CircuitInv
<1>2. Append(log[p], x) \in Seq(Marks)
  BY <1>1, LogGrows
<1> DEFINE h == Append(log[p], x)
<1>3. circuit' = [circuit EXCEPT ![p] = f] /\ log' = [log EXCEPT ![p] = h]
  BY DEF Records
<1>4. h \in Seq(Marks) /\ EntryMeant(f, h, clock)
  BY <1>2
<1> HIDE DEF h
<1>5. circuit' \in [Processes -> Circuits] /\ log' \in [Processes -> Seq(Marks)]
  BY <1>3, <1>4 DEF CircuitInv
<1>6. ASSUME NEW q \in Processes PROVE EntryMeant(circuit'[q], log'[q], clock)
  <2>1. CASE q = p
    <3>1. circuit'[q] = f /\ log'[q] = h
      BY <1>3, <2>1 DEF CircuitInv
    <3>2. QED
      BY <1>4, <3>1
  <2>2. CASE q # p
    <3>1. circuit'[q] = circuit[q] /\ log'[q] = log[q]
      BY <1>3, <2>2 DEF CircuitInv
    <3>2. QED
      BY <3>1 DEF CircuitInv
  <2>3. QED
    BY <2>1, <2>2
<1>7. QED
  BY <1>5, <1>6 DEF CircuitInv

\* An attempt that starts its operation finds the circuit closed, half-open, or open
\* with its rest over.
LEMMA AttemptKeeps ==
  ASSUME CircuitInv, NEW c \in Executions, Attempt(c)
  PROVE  CircuitInv'
<1> DEFINE p == ProcessOf[c]  e == circuit[p]
<1>1. p \in Processes
  BY Scene DEF CircuitInv
<1>2. UNCHANGED <<situation, clock>>
  BY DEF Attempt
<1>3. CASE UNCHANGED <<circuit, log>>
  BY <1>2, <1>3 DEF CircuitInv
<1>4. CASE ~Blocks(e) /\ e.state = "open" /\ Records(p, Probing(e), Mark("probe"))
  <2>1. e \in Circuits /\ log[p] \in Seq(Marks) /\ EntryMeant(e, log[p], clock) /\ clock \in Nat
    BY <1>1 DEF CircuitInv
  <2> HIDE DEF p, e
  <2>2. Mark("probe") \in Marks /\ Mark("probe").what = "probe"
    BY DEF Mark, Marks
  <2>3. e.until <= clock
    <3>1. e.until \in Nat
      BY <2>1, EntryFields
    <3>2. QED
      BY <1>4, <2>1, <3>1 DEF Blocks
  <2>4. Grown(log[p], Mark("probe"), Append(log[p], Mark("probe")))
    BY <2>1, <2>2, LogGrows
  <2>5. EntryMeant(Probing(e), Append(log[p], Mark("probe")), clock)
    BY <1>4, <2>1, <2>2, <2>3, <2>4, EntryAfterProbe
  <2>6. Probing(e) \in Circuits
    BY <1>4, <2>1, ProbeCounts
  <2>7. QED
    BY <1>1, <1>2, <1>4, <2>2, <2>5, <2>6, CircuitTold
<1>5. UNCHANGED <<circuit, log>> \/ (~Blocks(e) /\ e.state = "open" /\ Records(p, Probing(e), Mark("probe")))
  BY DEF Attempt
<1>6. QED
  BY <1>3, <1>4, <1>5

LEMMA SucceedKeeps ==
  ASSUME CircuitInv, NEW c \in Executions, Succeed(c)
  PROVE  CircuitInv'
<1> DEFINE p == ProcessOf[c]  e == circuit[p]
<1>1. p \in Processes
  BY Scene DEF CircuitInv
<1>2. UNCHANGED <<situation, clock>> /\ Records(p, AfterSuccess(e), Mark("ok"))
  BY DEF Succeed
<1>3. e \in Circuits /\ log[p] \in Seq(Marks) /\ EntryMeant(e, log[p], clock) /\ clock \in Nat
  BY <1>1 DEF CircuitInv
<1> HIDE DEF p, e
<1>4. Mark("ok") \in Marks /\ Mark("ok").what = "ok"
  BY DEF Mark, Marks
<1>5. Grown(log[p], Mark("ok"), Append(log[p], Mark("ok")))
  BY <1>3, <1>4, LogGrows
<1>6. EntryMeant(AfterSuccess(e), Append(log[p], Mark("ok")), clock)
  BY <1>3, <1>4, <1>5, EntryAfterSuccess
<1>7. AfterSuccess(e) \in Circuits
  BY <1>3, SuccessCounts
<1>8. QED
  BY <1>1, <1>2, <1>4, <1>6, <1>7, CircuitTold

LEMMA FailKeeps ==
  ASSUME CircuitInv, NEW c \in Executions, Fail(c)
  PROVE  CircuitInv'
<1> DEFINE p == ProcessOf[c]  e == circuit[p]
<1>1. p \in Processes
  BY Scene DEF CircuitInv
<1>2. PICK a \in situation.errors \cup (IF aborted[c] THEN {[retryable |-> TRUE, after |-> NoHint]} ELSE {}) :
        Records(p, AfterFailure(e, a.after),
                [what  |-> "fail",
                 until |-> IF AfterFailure(e, a.after).state = "open" THEN clock + OpenFor(a.after) ELSE 0,
                 asked |-> a.after # NoHint])
  BY DEF Fail
<1>3. UNCHANGED <<situation, clock>>
  BY DEF Fail
<1>4. a.after \in {NoHint} \cup Nat
  BY Scene DEF CircuitInv, Errors
<1> DEFINE hint == a.after
           f == AfterFailure(e, hint)
           x == [what |-> "fail", until |-> IF f.state = "open" THEN clock + OpenFor(hint) ELSE 0,
                 asked |-> hint # NoHint]
<1>5. e \in Circuits /\ log[p] \in Seq(Marks) /\ EntryMeant(e, log[p], clock) /\ clock \in Nat
  BY <1>1 DEF CircuitInv
<1>6. Records(p, f, x)
  BY <1>2
<1>7. x.what = "fail" /\ x.until = (IF f.state = "open" THEN clock + OpenFor(hint) ELSE 0)
      /\ x.asked = (hint # NoHint) /\ x = [what |-> x.what, until |-> x.until, asked |-> x.asked]
  OBVIOUS
<1>8. hint \in {NoHint} \cup Nat
  BY <1>4
<1>9. f = AfterFailure(e, hint)
  OBVIOUS
<1> HIDE DEF p, e, hint, f, x
<1>10. f \in Circuits /\ OpenFor(hint) \in Nat
  BY <1>5, <1>8, <1>9, FailureCounts
<1>11. x \in Marks
  <2>1. x.until \in Nat
    BY <1>5, <1>7, <1>10
  <2>2. QED
    BY <1>7, <2>1 DEF Marks
<1>12. Grown(log[p], x, Append(log[p], x))
  BY <1>5, <1>11, LogGrows
<1>13. EntryMeant(f, Append(log[p], x), clock)
  BY <1>5, <1>7, <1>8, <1>9, <1>12, EntryAfterFailure
<1>14. QED
  BY <1>1, <1>3, <1>6, <1>10, <1>11, <1>13, CircuitTold

LEMMA CircuitStep ==
  ASSUME CircuitInv, [ResilienceNext]_resilienceVars
  PROVE  CircuitInv'
<1>1. ASSUME UNCHANGED <<situation, clock, circuit, log>> PROVE CircuitInv'
  BY <1>1 DEF CircuitInv
<1>2. ASSUME NEW c \in Executions, Step(c) PROVE CircuitInv'
  <2>1. CASE Attempt(c)
    BY <2>1, AttemptKeeps
  <2>2. CASE Succeed(c)
    BY <2>2, SucceedKeeps
  <2>3. CASE Fail(c)
    BY <2>3, FailKeeps
  <2>4. CASE EnterFreely(c) \/ EnterInMemory(c) \/ EnterInRedis(c) \/ TakeSlot(c) \/ WaitTimesOut(c)
    BY <1>1, <2>4 DEF EnterFreely, EnterInMemory, EnterInRedis, TakeSlot, WaitTimesOut
  <2>5. CASE Poll(c) \/ Resume(c)
    <3>1. UNCHANGED <<situation, clock, circuit, log>>
      BY <2>5 DEF Poll, Resume
    <3>2. QED
      BY <1>1, <3>1
  <2>6. CASE ReleaseInMemory(c) \/ ReleaseInRedis(c) \/ ReleaseNothing(c)
    BY <1>1, <2>6 DEF ReleaseInMemory, ReleaseInRedis, ReleaseNothing
  <2>7. QED
    BY <1>2, <2>1, <2>2, <2>3, <2>4, <2>5, <2>6 DEF Step
<1>3. ASSUME NEW c \in Executions, Abort(c) PROVE CircuitInv'
  BY <1>1, <1>3 DEF Abort
<1>4. ASSUME NEW p \in Processes, Crash(p) PROVE CircuitInv'
  <2>1. /\ circuit' = [circuit EXCEPT ![p] = Closed] /\ log' = [log EXCEPT ![p] = <<>>]
        /\ UNCHANGED <<situation, clock>>
    BY <1>4 DEF Crash
  <2>2. Closed \in Circuits /\ <<>> \in Seq(Marks)
    BY DEF Closed, Circuits
  <2>3. circuit' \in [Processes -> Circuits] /\ log' \in [Processes -> Seq(Marks)]
    BY <2>1, <2>2 DEF CircuitInv
  <2>4. ASSUME NEW q \in Processes PROVE EntryMeant(circuit'[q], log'[q], clock)
    <3>1. CASE q = p
      <4>1. circuit'[q] = Closed /\ log'[q] = <<>>
        BY <2>1, <3>1 DEF CircuitInv
      <4>2. QED
        BY <4>1, EntryStarts DEF CircuitInv
    <3>2. CASE q # p
      <4>1. circuit'[q] = circuit[q] /\ log'[q] = log[q]
        BY <2>1, <3>2 DEF CircuitInv
      <4>2. QED
        BY <4>1 DEF CircuitInv
    <3>3. QED
      BY <3>1, <3>2
  <2>5. QED
    BY <2>1, <2>3, <2>4 DEF CircuitInv
<1>5. CASE Elapse
  <2>1. clock' = clock + 1 /\ UNCHANGED <<situation, circuit, log>>
    BY <1>5 DEF Elapse
  <2>2. ASSUME NEW p \in Processes PROVE EntryMeant(circuit[p], log[p], clock + 1)
    BY EntryAges DEF CircuitInv
  <2>3. QED
    BY <2>1, <2>2 DEF CircuitInv
<1>6. CASE Settled \/ UNCHANGED resilienceVars
  BY <1>1, <1>6 DEF Settled, resilienceVars
<1>7. QED
  BY <1>2, <1>3, <1>4, <1>5, <1>6 DEF ResilienceNext

LEMMA CircuitInvHolds == ResilienceSpec => []CircuitInv
<1>1. ResilienceInit => CircuitInv
  BY EntryStarts DEF ResilienceInit, CircuitInv
<1>2. QED
  BY <1>1, CircuitStep, PTL DEF ResilienceSpec

\* No operation starts but by an attempt.
LEMMA OnlyAttemptsStart ==
  ASSUME CallsInv, [ResilienceNext]_resilienceVars, NEW c \in Executions, Starts(c)
  PROVE  Attempt(c)
<1>1. pc \in [Executions -> Labels] /\ pc[c] = "trying" /\ pc'[c] = "running"
  BY DEF CallsInv, Starts
<1>2. ASSUME NEW d \in Executions, NEW label, Moves(d, label), d # c \/ label # "running" PROVE FALSE
  BY <1>1, <1>2 DEF Moves
<1>3. ASSUME NEW d \in Executions, Step(d), ~Attempt(d) PROVE FALSE
  <2>1. CASE EnterFreely(d) \/ EnterInMemory(d) \/ EnterInRedis(d) \/ TakeSlot(d) \/ WaitTimesOut(d)
    BY <1>2, <2>1 DEF EnterFreely, EnterInMemory, EnterInRedis, TakeSlot, WaitTimesOut
  <2>2. CASE Poll(d)
    BY <1>2, <2>2 DEF Poll
  <2>3. CASE Succeed(d)
    BY <1>2, <2>3 DEF Succeed
  <2>4. CASE Fail(d)
    BY <1>2, <2>4 DEF Fail, Caught
  <2>5. CASE Resume(d)
    BY <1>2, <2>5 DEF Resume
  <2>6. CASE ReleaseInMemory(d)
    <3>1. pc'[c] = outcome[c] \/ pc'[c] = "granted" \/ pc'[c] = pc[c]
      BY <2>6 DEF ReleaseInMemory
    <3>2. QED
      BY <1>1, <3>1 DEF CallsInv
  <2>7. CASE ReleaseInRedis(d) \/ ReleaseNothing(d)
    <3>1. outcome[d] # "running"
      BY DEF CallsInv
    <3>2. QED
      BY <1>2, <2>7, <3>1 DEF ReleaseInRedis, ReleaseNothing
  <2>8. QED
    BY <1>3, <2>1, <2>2, <2>3, <2>4, <2>5, <2>6, <2>7 DEF Step
<1>4. ASSUME NEW d \in Executions, Attempt(d), d # c PROVE FALSE
  BY <1>2, <1>4 DEF Attempt, Caught
<1>5. ASSUME NEW d \in Executions, Abort(d) PROVE FALSE
  BY <1>1, <1>5 DEF Abort
<1>6. ASSUME NEW p \in Processes, Crash(p) PROVE FALSE
  BY <1>1, <1>6 DEF Crash
<1>7. CASE Elapse
  BY <1>1, <1>7 DEF Elapse, callVars
<1>8. CASE Settled \/ UNCHANGED resilienceVars
  BY <1>1, <1>8 DEF Settled, resilienceVars, callVars
<1>9. QED
  BY <1>3, <1>4, <1>5, <1>6, <1>7, <1>8 DEF ResilienceNext

\* The circuit of every process is closed exactly when each run of failures it was told
\* of was undone by a probe, and no operation starts in the time the last failure of a
\* run asked for, whatever the thresholds and the order in which answers arrive
\* (circuit-breaker.ts:55-81).
THEOREM CircuitsHold == ResilienceSpec => CircuitHolds
<1>1. ASSUME CircuitInv PROVE ClosedWhenRecovered
  <2>1. SUFFICES ASSUME NEW p \in Processes
                 PROVE  circuit[p].state = "closed" <=> \A i \in Trips(p) : Recovered(p, i)
    BY DEF ClosedWhenRecovered
  <2> DEFINE e == circuit[p]  g == log[p]
  <2>2. EntryMeant(e, g, clock) /\ e \in Circuits /\ g \in Seq(Marks)
    BY <1>1 DEF CircuitInv
  <2>3. Trips(p) = TripsIn(g) /\ \A i : Recovered(p, i) <=> RecoveredIn(g, i)
    BY DEF Trips, TripsIn, Recovered, RecoveredIn
  <2> HIDE DEF e, g
  <2>4. CASE e.state = "closed"
    BY <2>2, <2>3, <2>4 DEF EntryMeant, e
  <2>5. CASE e.state # "closed"
    <3>1. PICK i \in TripsIn(g) :
            \A j \in i + 1 .. Len(g) : g[j].what = "probe" => Broken(g, j) \/ Probes(e, g, j)
      BY <2>2, <2>5 DEF EntryMeant
    <3>2. ASSUME RecoveredIn(g, i) PROVE FALSE
      <4>1. PICK j \in i + 1 .. Len(g) - SuccessThreshold :
              g[j].what = "probe" /\ \A k \in j + 1 .. j + SuccessThreshold : g[k].what = "ok"
        BY <3>2 DEF RecoveredIn
      <4>2. i \in Int /\ Len(g) \in Nat /\ j \in i + 1 .. Len(g)
        BY <2>2, <4>1, Policy DEF TripsIn
      <4>3. ~Broken(g, j)
        BY <4>1 DEF Broken
      <4>4. Len(g) - j = e.successes /\ e.successes < SuccessThreshold
        BY <2>2, <3>1, <4>1, <4>2, <4>3 DEF Probes, EntryMeant
      <4>5. QED
        BY <4>1, <4>2, <4>4, Policy
    <3>3. QED
      BY <2>3, <2>5, <3>1, <3>2 DEF e
  <2>6. QED
    BY <2>4, <2>5
<1>2. ASSUME CircuitInv, CallsInv, [ResilienceNext]_resilienceVars, NEW c \in Executions, Starts(c),
             NEW i \in Trips(ProcessOf[c]), \A k \in Trips(ProcessOf[c]) : k <= i
      PROVE  clock >= log[ProcessOf[c]][i].until
  <2> DEFINE p == ProcessOf[c]  e == circuit[p]  g == log[p]
  <2>1. p \in Processes
    BY <1>2, Scene DEF CircuitInv
  <2>2. EntryMeant(e, g, clock) /\ e \in Circuits /\ g \in Seq(Marks) /\ clock \in Nat
    BY <1>2, <2>1 DEF CircuitInv
  <2>3. Trips(p) = TripsIn(g)
    BY DEF Trips, TripsIn
  <2>4. LastTrip(g, i)
    BY <1>2, <2>3 DEF LastTrip
  <2>5. ~Blocks(e)
    BY <1>2, OnlyAttemptsStart DEF Attempt, Caught, Moves, Starts, CallsInv
  <2> HIDE DEF e, g
  <2>6. clock >= g[i].until \/ (e.state = "open" /\ e.until >= g[i].until)
    BY <2>2, <2>3, <2>4 DEF EntryMeant, RestsFor, LastTrip
  <2>7. i \in 1 .. Len(g)
    BY <2>2, <2>4, Policy DEF LastTrip, TripsIn
  <2>8. g[i] \in Marks
    BY <2>2, <2>7
  <2>9. clock >= g[i].until
    BY <2>2, <2>5, <2>6, <2>8, EntryFields DEF Blocks, Marks
  <2>10. QED
    BY <2>9 DEF g
<1>3. CircuitInv /\ CallsInv /\ [ResilienceNext]_resilienceVars =>
        [\A c \in Executions : Starts(c) =>
           \A i \in Trips(ProcessOf[c]) :
             (\A k \in Trips(ProcessOf[c]) : k <= i) => clock >= log[ProcessOf[c]][i].until]_resilienceVars
  BY <1>2
<1>4. QED
  BY <1>1, <1>3, CircuitInvHolds, CallsHold, PTL DEF ResilienceSpec, CircuitHolds, RestsAfterTrip

-----------------------------------------------------------------------------
\* The bulkheads.

\* The calls of a process at one of some labels.
In(p, L) == {c \in Executions : ProcessOf[c] = p /\ pc[c] \in L}

Busy == Holding \cup {"granted"}

Distinct(q) == \A i, j \in DOMAIN q : q[i] = q[j] => i = j
RangeOf(q)  == {q[i] : i \in DOMAIN q}

\* Who waits in memory is in the queue of its process, once.
QueueInv ==
  /\ queue \in [Processes -> Seq(Executions)]
  /\ \A p \in Processes : Distinct(queue[p]) /\ RangeOf(queue[p]) = In(p, {"waiting"})
  /\ \A c \in Executions : pc[c] \in {"waiting", "granted"} => situation.bulkhead = "memory"

\* The slots in use are those of the holders; a slot given to a waiter is not free, and
\* nobody waits while one is.
MemoryInv ==
  /\ inFlight \in [Processes -> Nat]
  /\ situation.bulkhead = "memory" =>
       \A p \in Processes :
         /\ inFlight[p] = Cardinality(In(p, Holding))
         /\ ~Fault("race") => Cardinality(In(p, Busy)) <= MaxConcurrent
         /\ queue[p] # <<>> => Cardinality(In(p, Busy)) >= MaxConcurrent

\* No more leases than slots, one for whoever runs, and none for nobody.
LeaseInv ==
  /\ leases \subseteq [call : Executions, expires : Nat] /\ IsFiniteSet(leases)
  /\ \A c \in Executions : pc[c] = "polling" => situation.bulkhead = "redis"
  /\ situation.bulkhead = "redis" =>
       /\ Cardinality(Unexpired) <= MaxConcurrent
       /\ ~Fault("overrun") =>
            \A c \in Executions : pc[c] \in Holding => \E l \in leases : l.call = c /\ l.expires > clock
       /\ ~Fault("redis") => \A l \in leases : pc[l.call] \in Holding \cup {"gone"}

\* A queue without repetition loses its head, or one who leaves it, and gains another.
LEMMA QueueGains ==
  ASSUME NEW q \in Seq(Executions), Distinct(q), NEW c \in Executions, c \notin RangeOf(q)
  PROVE  /\ Append(q, c) \in Seq(Executions) /\ Distinct(Append(q, c)) /\ Append(q, c) # <<>>
         /\ RangeOf(Append(q, c)) = RangeOf(q) \cup {c}
<1> DEFINE h == Append(q, c)
<1>1. /\ h \in Seq(Executions) /\ Len(q) \in Nat /\ DOMAIN q = 1 .. Len(q) /\ DOMAIN h = 1 .. Len(q) + 1
      /\ h[Len(q) + 1] = c /\ \A k \in 1 .. Len(q) : h[k] = q[k]
  OBVIOUS
<1>2. h # <<>>
  <2>1. 1 \in DOMAIN h
    BY <1>1
  <2>2. 1 \notin DOMAIN <<>>
    OBVIOUS
  <2> HIDE DEF h
  <2>3. QED
    BY <2>1, <2>2
<1> HIDE DEF h
<1>3. \A k \in DOMAIN h : k \in DOMAIN q \/ k = Len(q) + 1
  BY <1>1
<1>4. Distinct(h)
  BY <1>1, <1>3 DEF Distinct, RangeOf
<1>5. RangeOf(h) = RangeOf(q) \cup {c}
  <2>1. ASSUME NEW d \in RangeOf(h) PROVE d \in RangeOf(q) \cup {c}
    BY <1>1, <1>3 DEF RangeOf
  <2>2. ASSUME NEW d \in RangeOf(q) PROVE d \in RangeOf(h)
    <3>1. PICK k \in DOMAIN q : d = q[k]
      BY DEF RangeOf
    <3>2. k \in DOMAIN h /\ h[k] = d
      BY <1>1, <3>1
    <3>3. QED
      BY <3>2 DEF RangeOf
  <2>3. c \in RangeOf(h)
    <3>1. Len(q) + 1 \in DOMAIN h /\ h[Len(q) + 1] = c
      BY <1>1
    <3>2. QED
      BY <3>1 DEF RangeOf
  <2>4. QED
    BY <2>1, <2>2, <2>3
<1>6. QED
  BY <1>1, <1>2, <1>4, <1>5 DEF h

\* The queue h is q without the one at i.
Without(q, i, h) ==
  /\ Len(h) = Len(q) - 1
  /\ \A k \in 1 .. Len(q) - 1 : h[k] = IF k < i THEN q[k] ELSE q[k + 1]

LEMMA QueueLoses ==
  ASSUME NEW q \in Seq(Executions), Distinct(q), NEW i \in DOMAIN q, NEW h \in Seq(Executions), Without(q, i, h)
  PROVE  Distinct(h) /\ RangeOf(h) = RangeOf(q) \ {q[i]}
<1> DEFINE n == Len(q)
           From(k) == IF k < i THEN k ELSE k + 1
<1>1. n \in Nat /\ DOMAIN q = 1 .. n /\ DOMAIN h = 1 .. n - 1 /\ i \in 1 .. n
  BY DEF Without
<1>2. \A k \in 1 .. n - 1 : h[k] = q[From(k)]
  BY DEF Without
<1> HIDE DEF n
<1>3. ASSUME NEW k \in 1 .. n - 1 PROVE From(k) \in 1 .. n /\ From(k) # i
  BY <1>1
<1>4. \A j, k \in 1 .. n - 1 : From(j) = From(k) => j = k
  BY <1>1
<1>5. ASSUME NEW j \in 1 .. n, j # i PROVE \E k \in 1 .. n - 1 : From(k) = j
  <2>1. CASE j < i
    <3>1. j \in 1 .. n - 1 /\ From(j) = j
      BY <1>1, <2>1
    <3>2. QED
      BY <3>1
  <2>2. CASE j > i
    <3>1. j - 1 \in 1 .. n - 1 /\ From(j - 1) = j
      BY <1>1, <2>2
    <3>2. QED
      BY <3>1
  <2>3. QED
    BY <1>1, <1>5, <2>1, <2>2
<1> HIDE DEF From
<1>6. Distinct(h)
  BY <1>1, <1>2, <1>3, <1>4 DEF Distinct
<1>7. ASSUME NEW d \in RangeOf(h) PROVE d \in RangeOf(q) \ {q[i]}
  <2>1. PICK k \in 1 .. n - 1 : d = h[k]
    BY <1>1 DEF RangeOf
  <2>2. d = q[From(k)] /\ From(k) \in 1 .. n /\ From(k) # i
    BY <1>2, <1>3, <2>1
  <2>3. QED
    BY <1>1, <2>2 DEF RangeOf, Distinct
<1>8. ASSUME NEW d \in RangeOf(q) \ {q[i]} PROVE d \in RangeOf(h)
  <2>1. PICK j \in 1 .. n : d = q[j]
    BY <1>1 DEF RangeOf
  <2>2. j # i
    BY <2>1
  <2>3. PICK k \in 1 .. n - 1 : From(k) = j
    BY <1>5, <2>2
  <2>4. h[k] = d
    BY <1>2, <2>1, <2>3
  <2>5. QED
    BY <1>1, <2>4 DEF RangeOf
<1>9. QED
  BY <1>6, <1>7, <1>8

\* shift().
Shifted(q) == IF Picked(q) = {} THEN q ELSE Tail(q)

LEMMA QueueShifts ==
  ASSUME NEW q \in Seq(Executions), Distinct(q)
  PROVE  /\ Shifted(q) \in Seq(Executions) /\ Distinct(Shifted(q)) /\ RangeOf(Shifted(q)) = RangeOf(q) \ Picked(q)
         /\ Picked(q) \subseteq RangeOf(q)
         /\ Picked(q) = {} <=> q = <<>>
         /\ q # <<>> => \E d \in Executions : Picked(q) = {d}
<1>1. CASE q = <<>>
  <2>1. Picked(q) = {}
    BY <1>1 DEF Picked
  <2>2. QED
    BY <1>1, <2>1 DEF Shifted
<1>2. CASE q # <<>>
  <2>1. 1 \in DOMAIN q /\ Head(q) = q[1] /\ Head(q) \in Executions /\ Tail(q) \in Seq(Executions) /\ Without(q, 1, Tail(q))
    BY <1>2 DEF Without
  <2>2. Picked(q) = {q[1]} /\ Shifted(q) = Tail(q)
    BY <1>2, <2>1 DEF Picked, Shifted
  <2>3. Distinct(Tail(q)) /\ RangeOf(Tail(q)) = RangeOf(q) \ {q[1]}
    BY <2>1, QueueLoses
  <2>4. q[1] \in RangeOf(q)
    BY <2>1 DEF RangeOf
  <2>5. QED
    BY <1>2, <2>1, <2>2, <2>3, <2>4
<1>3. QED
  BY <1>1, <1>2

LEMMA QueueSplices ==
  ASSUME NEW q \in Seq(Executions), Distinct(q), NEW c \in RangeOf(q)
  PROVE  /\ Spliced(q, c) \in Seq(Executions) /\ Distinct(Spliced(q, c))
         /\ RangeOf(Spliced(q, c)) = RangeOf(q) \ {c}
<1> DEFINE i == CHOOSE i \in DOMAIN q : q[i] = c
<1>1. i \in DOMAIN q /\ q[i] = c /\ Spliced(q, c) = RemoveAt(q, i)
  BY DEF RangeOf, Spliced
<1> HIDE DEF i
<1> DEFINE l == SubSeq(q, 1, i - 1)  r == SubSeq(q, i + 1, Len(q))
<1>2. i \in 1 .. Len(q) /\ Len(q) \in Nat
  BY <1>1
<1>3. l \in Seq(Executions) /\ Len(l) = i - 1 /\ \A k \in 1 .. i - 1 : l[k] = q[k]
  BY <1>2
<1>4. r \in Seq(Executions) /\ Len(r) = Len(q) - i /\ \A k \in 1 .. Len(q) - i : r[k] = q[k + i]
  BY <1>2
<1>5. RemoveAt(q, i) = l \o r
  BY DEF RemoveAt
<1> HIDE DEF l, r
<1>6. /\ l \o r \in Seq(Executions) /\ Len(l \o r) = Len(l) + Len(r)
      /\ \A k \in 1 .. Len(l) + Len(r) : (l \o r)[k] = IF k <= Len(l) THEN l[k] ELSE r[k - Len(l)]
  BY <1>3, <1>4, ConcatProperties
<1> DEFINE h == l \o r
<1>7. h \in Seq(Executions) /\ Len(h) = Len(q) - 1
  BY <1>2, <1>3, <1>4, <1>6
<1>8. ASSUME NEW k \in 1 .. Len(q) - 1 PROVE h[k] = IF k < i THEN q[k] ELSE q[k + 1]
  <2>1. k \in 1 .. Len(l) + Len(r)
    BY <1>2, <1>3, <1>4
  <2>2. h[k] = IF k <= Len(l) THEN l[k] ELSE r[k - Len(l)]
    BY <1>6, <2>1
  <2>3. CASE k < i
    <3>1. k <= Len(l) /\ k \in 1 .. i - 1
      BY <1>2, <1>3, <2>3
    <3>2. QED
      BY <1>3, <2>2, <2>3, <3>1
  <2>4. CASE ~(k < i)
    <3>1. ~(k <= Len(l)) /\ k - Len(l) \in 1 .. Len(q) - i /\ k - Len(l) + i = k + 1
      BY <1>2, <1>3, <2>4
    <3>2. r[k - Len(l)] = q[k + 1]
      BY <1>4, <3>1
    <3>3. QED
      BY <2>2, <2>4, <3>1, <3>2
  <2>5. QED
    BY <2>3, <2>4
<1>9. h = RemoveAt(q, i)
  BY <1>5
<1> HIDE DEF h
<1>10. Without(q, i, h)
  BY <1>7, <1>8 DEF Without
<1>11. Distinct(h) /\ RangeOf(h) = RangeOf(q) \ {q[i]}
  BY <1>1, <1>7, <1>10, QueueLoses
<1>12. QED
  BY <1>1, <1>7, <1>9, <1>11

\* Who is at some labels, after one call has gone to another.
LEMMA InMoves ==
  ASSUME CallsInv, NEW c \in Executions, NEW label, Moves(c, label), UNCHANGED situation, NEW p, NEW L
  PROVE  /\ In(p, L)' = IF ProcessOf[c] # p THEN In(p, L)
                        ELSE IF label \in L THEN In(p, L) \cup {c} ELSE In(p, L) \ {c}
         /\ c \in In(p, L) <=> ProcessOf[c] = p /\ pc[c] \in L
<1>1. \A d \in Executions : pc'[d] = IF d = c THEN label ELSE pc[d]
  BY DEF CallsInv, Moves
<1>2. ProcessOf' = ProcessOf
  BY DEF ProcessOf
<1>3. \A d \in Executions : d \in In(p, L)' <=> ProcessOf[d] = p /\ pc'[d] \in L
  BY <1>2 DEF In
<1>4. QED
  BY <1>1, <1>3 DEF In

LEMMA InKeeps ==
  ASSUME CallsInv, NEW c \in Executions, NEW label, Moves(c, label), UNCHANGED situation, NEW L, pc[c] \in L <=> label \in L
  PROVE  \A p : In(p, L)' = In(p, L)
<1>1. \A d \in Executions : pc'[d] \in L <=> pc[d] \in L
  BY DEF CallsInv, Moves
<1>2. ProcessOf' = ProcessOf
  BY DEF ProcessOf
<1>3. QED
  BY <1>1, <1>2 DEF In

LEMMA InStays ==
  ASSUME UNCHANGED <<pc, situation>>, NEW L
  PROVE  \A p : In(p, L)' = In(p, L)
BY DEF In, ProcessOf

LEMMA InIsFinite ==
  ASSUME NEW p, NEW L
  PROVE  IsFiniteSet(In(p, L)) /\ Cardinality(In(p, L)) \in Nat
<1>1. In(p, L) \in SUBSET Executions
  BY DEF In
<1>2. QED
  BY <1>1, Limits, FS_Subset, FS_CardinalityType

\* An execution that has its slot keeps it while it tries, runs and backs off.
LEMMA Working ==
  ASSUME NEW c \in Executions, Attempt(c) \/ Succeed(c) \/ Fail(c) \/ Resume(c)
  PROVE  /\ pc[c] \in Holding /\ UNCHANGED <<situation, clock, inFlight, queue, leases>>
         /\ \E label \in Holding : Moves(c, label)
<1>1. CASE Attempt(c)
  BY <1>1 DEF Attempt, Caught, Holding, Stands, slotVars
<1>2. CASE Succeed(c)
  BY <1>2 DEF Succeed, Holding, Stands, slotVars
<1>3. CASE Fail(c)
  BY <1>3 DEF Fail, Caught, Holding, Stands, slotVars
<1>4. CASE Resume(c)
  BY <1>4 DEF Resume, Holding, Stands, slotVars
<1>5. QED
  BY <1>1, <1>2, <1>3, <1>4

\* No call is at any of these before it has entered or after it has ended.
Active(L) == L \cap (Outcomes \cup {"idle"}) = {}

LEMMA ActiveLabels == Active({"waiting"}) /\ Active(Holding) /\ Active(Busy)
BY DEF Active, Outcomes, Holding, Busy

\* A process dies, and none of its calls is anywhere but at rest.
LEMMA Dying ==
  ASSUME CallsInv, NEW p \in Processes, Crash(p), NEW L, Active(L)
  PROVE  In(p, L)' = {} /\ \A q \in Processes \ {p} : In(q, L)' = In(q, L)
<1>1. \A c \in Executions : pc'[c] = IF ProcessOf[c] = p /\ pc[c] \notin Outcomes \cup {"idle"} THEN "gone" ELSE pc[c]
  BY DEF Crash
<1>2. ProcessOf' = ProcessOf
  BY DEF Crash, ProcessOf
<1>3. \A q, c : c \in In(q, L)' <=> c \in Executions /\ ProcessOf[c] = q /\ pc'[c] \in L
  BY <1>2 DEF In
<1>4. "gone" \in Outcomes
  BY DEF Outcomes
<1>5. QED
  BY <1>1, <1>3, <1>4 DEF In, Active

\* A release in memory ends its call and lets the first waiter, if any, have the slot.
LEMMA Releasing ==
  ASSUME CallsInv, QueueInv, NEW c \in Executions, ReleaseInMemory(c), NEW L, Active(L),
         NEW p, p = ProcessOf[c], NEW q, q = queue[p]
  PROVE  /\ \A r \in Processes \ {p} : In(r, L)' = In(r, L)
         /\ In(p, L)' = IF "granted" \in L THEN (In(p, L) \ {c}) \cup Picked(q) ELSE (In(p, L) \ {c}) \ Picked(q)
         /\ Picked(q) \subseteq In(p, {"waiting"}) /\ c \notin Picked(q)
<1>1. p \in Processes /\ q \in Seq(Executions) /\ Distinct(q) /\ RangeOf(q) = In(p, {"waiting"})
  BY Scene DEF CallsInv, QueueInv
<1>2. pc[c] = "releasing" /\ outcome[c] \in Outcomes
  BY DEF ReleaseInMemory, Stands, CallsInv, Outcomes
<1>3. ProcessOf' = ProcessOf
  BY DEF ReleaseInMemory, ProcessOf
<1>4. /\ \A r, d : d \in In(r, L)' <=> d \in Executions /\ ProcessOf[d] = r /\ pc'[d] \in L
      /\ \A r, d : d \in In(r, L) <=> d \in Executions /\ ProcessOf[d] = r /\ pc[d] \in L
  BY <1>3 DEF In
<1>5. \A d \in Executions : pc'[d] = IF d = c THEN outcome[c] ELSE IF d \in Picked(q) THEN "granted" ELSE pc[d]
  BY DEF ReleaseInMemory
<1>6. outcome[c] \notin L
  BY <1>2 DEF Active
<1>7. Picked(q) \subseteq In(p, {"waiting"})
  BY <1>1, QueueShifts
<1>8. \A d \in Picked(q) : d \in Executions /\ ProcessOf[d] = p /\ d # c
  BY <1>2, <1>7 DEF In
<1>9. \A r \in Processes \ {p} : In(r, L)' = In(r, L)
  BY <1>4, <1>5, <1>8
<1>10. CASE "granted" \in L
  <2>1. In(p, L)' = (In(p, L) \ {c}) \cup Picked(q)
    BY <1>4, <1>5, <1>6, <1>8, <1>10
  <2>2. QED
    BY <1>7, <1>8, <1>9, <1>10, <2>1
<1>11. CASE "granted" \notin L
  <2>1. In(p, L)' = (In(p, L) \ {c}) \ Picked(q)
    BY <1>4, <1>5, <1>6, <1>8, <1>11
  <2>2. QED
    BY <1>7, <1>8, <1>9, <1>11, <2>1
<1>12. QED
  BY <1>10, <1>11

LEMMA QueueStep ==
  ASSUME CallsInv, QueueInv, [ResilienceNext]_resilienceVars
  PROVE  QueueInv'
<1>1. ASSUME NEW c \in Executions, NEW label, Moves(c, label), label \notin {"waiting", "granted"},
             pc[c] # "waiting", UNCHANGED <<situation, queue>>
      PROVE  QueueInv'
  <2>1. \A p : In(p, {"waiting"})' = In(p, {"waiting"})
    BY <1>1, InKeeps
  <2>2. \A d \in Executions : pc'[d] \in {"waiting", "granted"} => pc[d] \in {"waiting", "granted"}
    BY <1>1 DEF Moves, CallsInv
  <2>3. QED
    BY <1>1, <2>1, <2>2 DEF QueueInv
<1>2. ASSUME UNCHANGED <<pc, situation, queue>> PROVE QueueInv'
  BY <1>2, InStays DEF QueueInv
<1>3. ASSUME NEW p \in Processes, NEW h \in Seq(Executions), queue' = [queue EXCEPT ![p] = h], UNCHANGED situation,
             Distinct(h), RangeOf(h) = In(p, {"waiting"})',
             \A q \in Processes \ {p} : In(q, {"waiting"})' = In(q, {"waiting"}),
             \A d \in Executions : pc'[d] \in {"waiting", "granted"} => situation.bulkhead = "memory"
      PROVE  QueueInv'
  <2>1. queue' \in [Processes -> Seq(Executions)]
    BY <1>3 DEF QueueInv
  <2>2. ASSUME NEW q \in Processes PROVE Distinct(queue'[q]) /\ RangeOf(queue'[q]) = In(q, {"waiting"})'
    <3>1. CASE q = p
      BY <1>3, <3>1 DEF QueueInv
    <3>2. CASE q # p
      <4>1. queue'[q] = queue[q]
        BY <1>3, <3>2 DEF QueueInv
      <4>2. QED
        BY <1>3, <3>2, <4>1 DEF QueueInv
    <3>3. QED
      BY <3>1, <3>2
  <2>3. QED
    BY <1>3, <2>1, <2>2 DEF QueueInv
<1>4. ASSUME NEW c \in Executions, EnterInMemory(c) PROVE QueueInv'
  <2>1. pc[c] = "idle" /\ situation.bulkhead = "memory" /\ UNCHANGED situation
    BY <1>4 DEF EnterInMemory, Stands
  <2>2. CASE Moves(c, "trying") /\ UNCHANGED queue
    BY <1>1, <2>1, <2>2
  <2>3. CASE Moves(c, "waiting") /\ queue' = [queue EXCEPT ![ProcessOf[c]] = Append(@, c)]
    <3>1. PICK p \in Processes : p = ProcessOf[c]
      BY Scene DEF CallsInv
    <3>2. In(p, {"waiting"})' = In(p, {"waiting"}) \cup {c} /\ c \notin In(p, {"waiting"})
      BY <2>1, <2>3, <3>1, InMoves
    <3>3. \A q \in Processes \ {p} : In(q, {"waiting"})' = In(q, {"waiting"})
      BY <2>1, <2>3, <3>1, InMoves
    <3>4. queue[p] \in Seq(Executions) /\ Distinct(queue[p]) /\ RangeOf(queue[p]) = In(p, {"waiting"})
      BY DEF QueueInv
    <3> DEFINE h == Append(queue[p], c)
    <3>5. h \in Seq(Executions) /\ Distinct(h) /\ RangeOf(h) = In(p, {"waiting"})'
      BY <3>2, <3>4, QueueGains
    <3>6. queue' = [queue EXCEPT ![p] = h]
      BY <2>3, <3>1
    <3> HIDE DEF h
    <3>7. QED
      BY <1>3, <2>1, <3>3, <3>5, <3>6
  <2>4. QED
    BY <1>4, <2>2, <2>3 DEF EnterInMemory
<1>5. ASSUME NEW c \in Executions, WaitTimesOut(c) PROVE QueueInv'
  <2>1. pc[c] = "waiting" /\ Moves(c, "limited") /\ UNCHANGED situation
        /\ queue' = [queue EXCEPT ![ProcessOf[c]] = Spliced(@, c)]
    BY <1>5 DEF WaitTimesOut, Stands
  <2>2. PICK p \in Processes : p = ProcessOf[c]
    BY Scene DEF CallsInv
  <2>3. In(p, {"waiting"})' = In(p, {"waiting"}) \ {c} /\ c \in In(p, {"waiting"})
    BY <2>1, <2>2, InMoves
  <2>4. \A q \in Processes \ {p} : In(q, {"waiting"})' = In(q, {"waiting"})
    BY <2>1, <2>2, InMoves
  <2>5. queue[p] \in Seq(Executions) /\ Distinct(queue[p]) /\ RangeOf(queue[p]) = In(p, {"waiting"})
    BY DEF QueueInv
  <2> DEFINE h == Spliced(queue[p], c)
  <2>6. h \in Seq(Executions) /\ Distinct(h) /\ RangeOf(h) = In(p, {"waiting"})'
    BY <2>3, <2>5, QueueSplices
  <2>7. queue' = [queue EXCEPT ![p] = h]
    BY <2>1, <2>2
  <2>8. situation.bulkhead = "memory"
    BY <2>1 DEF QueueInv
  <2> HIDE DEF h
  <2>9. QED
    BY <1>3, <2>1, <2>4, <2>6, <2>7, <2>8
<1>6. ASSUME NEW c \in Executions, ReleaseInMemory(c) PROVE QueueInv'
  <2>1. PICK p \in Processes : p = ProcessOf[c]
    BY Scene DEF CallsInv
  <2>2. PICK q \in Seq(Executions) : q = queue[p] /\ Distinct(q) /\ RangeOf(q) = In(p, {"waiting"})
    BY DEF QueueInv
  <2>3. situation.bulkhead = "memory" /\ UNCHANGED situation /\ queue' = [queue EXCEPT ![p] = Shifted(q)]
    BY <1>6, <2>1, <2>2 DEF ReleaseInMemory, Shifted
  <2>4. Active({"waiting"}) /\ "granted" \notin {"waiting"}
    BY ActiveLabels
  <2>5. c \notin In(p, {"waiting"})
    BY <1>6 DEF ReleaseInMemory, Stands, In
  <2>6. In(p, {"waiting"})' = (In(p, {"waiting"}) \ {c}) \ Picked(q)
    BY <1>6, <2>1, <2>2, <2>4, Releasing
  <2>7. Shifted(q) \in Seq(Executions) /\ Distinct(Shifted(q)) /\ RangeOf(Shifted(q)) = RangeOf(q) \ Picked(q)
    BY <2>2, QueueShifts
  <2>8. RangeOf(Shifted(q)) = In(p, {"waiting"})'
    BY <2>2, <2>5, <2>6, <2>7
  <2>9. \A r \in Processes \ {p} : In(r, {"waiting"})' = In(r, {"waiting"})
    BY <1>6, <2>1, <2>2, <2>4, Releasing
  <2>10. QED
    BY <1>3, <2>3, <2>7, <2>8, <2>9
<1>7. ASSUME NEW p \in Processes, Crash(p) PROVE QueueInv'
  <2>1. Active({"waiting"})
    BY ActiveLabels
  <2>2. In(p, {"waiting"})' = {} /\ \A q \in Processes \ {p} : In(q, {"waiting"})' = In(q, {"waiting"})
    BY <1>7, <2>1, Dying
  <2>3. <<>> \in Seq(Executions) /\ Distinct(<<>>) /\ RangeOf(<<>>) = {}
    BY DEF Distinct, RangeOf
  <2>4. queue' = [queue EXCEPT ![p] = <<>>] /\ UNCHANGED situation
    BY <1>7 DEF Crash
  <2>5. \A d \in Executions : pc'[d] \in {"waiting", "granted"} => situation.bulkhead = "memory"
    BY <1>7 DEF Crash, QueueInv
  <2>6. QED
    BY <1>3, <2>2, <2>3, <2>4, <2>5
<1>8. ASSUME NEW c \in Executions, Step(c) PROVE QueueInv'
  <2>1. CASE EnterFreely(c) \/ EnterInRedis(c) \/ TakeSlot(c)
    BY <1>1, <2>1 DEF EnterFreely, EnterInRedis, TakeSlot, Stands, slotVars
  <2>2. CASE Poll(c)
    <3>1. pc[c] = "polling" /\ UNCHANGED <<situation, queue>>
          /\ (Moves(c, "trying") \/ Moves(c, "limited") \/ Moves(c, "failed"))
      BY <2>2 DEF Poll, Stands
    <3>2. QED
      BY <1>1, <3>1
  <2>3. CASE Attempt(c) \/ Succeed(c) \/ Fail(c) \/ Resume(c)
    <3>1. PICK label \in Holding : Moves(c, label)
      BY <2>3, Working
    <3>2. pc[c] \in Holding /\ UNCHANGED <<situation, queue>>
      BY <2>3, Working
    <3>3. QED
      BY <1>1, <3>1, <3>2 DEF Holding
  <2>4. CASE ReleaseInRedis(c) \/ ReleaseNothing(c)
    <3>1. pc[c] = "releasing" /\ UNCHANGED <<situation, queue>> /\ (Moves(c, outcome[c]) \/ Moves(c, "failed"))
      BY <2>4 DEF ReleaseInRedis, ReleaseNothing, Stands, slotVars
    <3>2. outcome[c] \in {"answered", "failed"}
      BY <3>1 DEF CallsInv
    <3>3. QED
      BY <1>1, <3>1, <3>2
  <2>5. QED
    BY <1>4, <1>5, <1>6, <1>8, <2>1, <2>2, <2>3, <2>4 DEF Step
<1>9. ASSUME NEW c \in Executions, Abort(c) PROVE QueueInv'
  BY <1>2, <1>9 DEF Abort, slotVars
<1>10. CASE Elapse
  BY <1>2, <1>10 DEF Elapse, callVars, slotVars
<1>11. CASE Settled \/ UNCHANGED resilienceVars
  BY <1>2, <1>11 DEF Settled, resilienceVars, callVars, slotVars
<1>12. QED
  BY <1>7, <1>8, <1>9, <1>10, <1>11 DEF ResilienceNext

\* The slots of one process change, and how many there are.
LEMMA MemoryChanges ==
  ASSUME MemoryInv, NEW p \in Processes, NEW n \in Nat, inFlight' = [inFlight EXCEPT ![p] = n],
         UNCHANGED situation, situation.bulkhead = "memory",
         n = Cardinality(In(p, Holding)'),
         ~Fault("race") => Cardinality(In(p, Busy)') <= MaxConcurrent,
         queue'[p] # <<>> => Cardinality(In(p, Busy)') >= MaxConcurrent,
         \A q \in Processes \ {p} : In(q, Holding)' = In(q, Holding) /\ In(q, Busy)' = In(q, Busy) /\ queue'[q] = queue[q]
  PROVE  MemoryInv'
<1>1. inFlight' \in [Processes -> Nat] /\ Fault("race")' = Fault("race")
  BY DEF MemoryInv, Fault
<1>2. ASSUME NEW q \in Processes
      PROVE  /\ inFlight'[q] = Cardinality(In(q, Holding)')
             /\ ~Fault("race") => Cardinality(In(q, Busy)') <= MaxConcurrent
             /\ queue'[q] # <<>> => Cardinality(In(q, Busy)') >= MaxConcurrent
  <2>1. CASE q = p
    BY <2>1 DEF MemoryInv
  <2>2. CASE q # p
    <3>1. inFlight'[q] = inFlight[q]
      BY <2>2 DEF MemoryInv
    <3>2. In(q, Holding)' = In(q, Holding) /\ In(q, Busy)' = In(q, Busy) /\ queue'[q] = queue[q]
      BY <2>2
    <3>3. QED
      BY <3>1, <3>2 DEF MemoryInv
  <2>3. QED
    BY <2>1, <2>2
<1>3. QED
  BY <1>1, <1>2 DEF MemoryInv

LEMMA MemoryStays ==
  ASSUME MemoryInv, UNCHANGED <<situation, inFlight, queue>>,
         \A p : In(p, Holding)' = In(p, Holding) /\ In(p, Busy)' = In(p, Busy)
  PROVE  MemoryInv'
BY DEF MemoryInv, Fault

\* Who holds a slot is busy; and so many are as many elements as are put in or taken out.
LEMMA BusyHold ==
  ASSUME NEW p
  PROVE  /\ In(p, Busy) = In(p, Holding) \cup In(p, {"granted"})
         /\ Cardinality(In(p, Holding)) <= Cardinality(In(p, Busy))
<1>1. In(p, Busy) = In(p, Holding) \cup In(p, {"granted"})
  BY DEF In, Busy
<1>2. In(p, Holding) \in SUBSET In(p, Busy)
  BY <1>1
<1>3. QED
  BY <1>1, <1>2, InIsFinite, FS_Subset

LEMMA MemoryStep ==
  ASSUME CallsInv, QueueInv, MemoryInv, LeaseInv, [ResilienceNext]_resilienceVars
  PROVE  MemoryInv'
<1> USE Limits
<1>1. ASSUME NEW c \in Executions, NEW label, Moves(c, label), pc[c] \in Holding <=> label \in Holding,
             pc[c] \in Busy <=> label \in Busy, UNCHANGED <<situation, inFlight, queue>>
      PROVE  MemoryInv'
  BY <1>1, InKeeps, MemoryStays
<1>2. ASSUME UNCHANGED <<pc, situation, inFlight, queue>> PROVE MemoryInv'
  BY <1>2, InStays, MemoryStays
<1>3. ASSUME UNCHANGED <<situation, inFlight>>, situation.bulkhead # "memory" PROVE MemoryInv'
  BY <1>3 DEF MemoryInv
<1>4. ASSUME NEW c \in Executions, EnterInMemory(c) PROVE MemoryInv'
  <2>1. /\ pc[c] = "idle" /\ situation.bulkhead = "memory" /\ UNCHANGED situation
        /\ pc[c] \notin Busy /\ pc[c] \notin Holding
    BY <1>4 DEF EnterInMemory, Stands, Busy, Holding
  <2>2. PICK p \in Processes : p = ProcessOf[c]
    BY Scene DEF CallsInv
  <2>3. CASE inFlight[p] < MaxConcurrent
    <3>1. /\ Moves(c, "trying") /\ inFlight' = [inFlight EXCEPT ![p] = @ + 1] /\ UNCHANGED queue
          /\ Fault("race") \/ Granted(p) = {}
      BY <1>4, <2>2, <2>3 DEF EnterInMemory
    <3>2. "trying" \in Holding /\ "trying" \in Busy
      BY DEF Busy, Holding
    <3>3. /\ In(p, Holding)' = In(p, Holding) \cup {c} /\ c \notin In(p, Holding)
          /\ In(p, Busy)' = In(p, Busy) \cup {c} /\ c \notin In(p, Busy)
      BY <2>1, <2>2, <3>1, <3>2, InMoves
    <3>4. \A q \in Processes \ {p} : In(q, Holding)' = In(q, Holding) /\ In(q, Busy)' = In(q, Busy)
      BY <2>1, <2>2, <3>1, InMoves
    <3>5. /\ Cardinality(In(p, Holding)') = Cardinality(In(p, Holding)) + 1
          /\ Cardinality(In(p, Busy)') = Cardinality(In(p, Busy)) + 1
      BY <3>3, InIsFinite, FS_AddElement
    <3>6. inFlight[p] = Cardinality(In(p, Holding)) /\ inFlight[p] \in Nat
      BY <2>1 DEF MemoryInv
    <3>7. ~Fault("race") => Cardinality(In(p, Busy)') <= MaxConcurrent
      <4>1. SUFFICES ASSUME ~Fault("race") PROVE Cardinality(In(p, Busy)') <= MaxConcurrent
        OBVIOUS
      <4>2. In(p, {"granted"}) = {}
        BY <3>1, <4>1 DEF In, Granted, Live
      <4>3. In(p, Busy) = In(p, Holding)
        BY <4>2, BusyHold
      <4>4. QED
        BY <2>3, <3>5, <3>6, <4>3
    <3>8. queue'[p] # <<>> => Cardinality(In(p, Busy)') >= MaxConcurrent
      <4>1. Cardinality(In(p, Busy)) \in Nat
        BY InIsFinite
      <4>2. queue[p] # <<>> => Cardinality(In(p, Busy)) >= MaxConcurrent
        BY <2>1 DEF MemoryInv
      <4>3. QED
        BY <3>1, <3>5, <4>1, <4>2
    <3> DEFINE n == inFlight[p] + 1
    <3>9. n \in Nat /\ n = Cardinality(In(p, Holding)') /\ inFlight' = [inFlight EXCEPT ![p] = n]
      BY <3>1, <3>5, <3>6
    <3> HIDE DEF n
    <3>10. QED
      BY <2>1, <3>1, <3>4, <3>7, <3>8, <3>9, MemoryChanges
  <2>4. CASE ~(inFlight[p] < MaxConcurrent)
    <3>1. Moves(c, "waiting") /\ queue' = [queue EXCEPT ![p] = Append(@, c)] /\ UNCHANGED inFlight
      BY <1>4, <2>2, <2>4 DEF EnterInMemory
    <3>2. "waiting" \notin Holding /\ "waiting" \notin Busy
      BY DEF Busy, Holding
    <3>3. \A q : In(q, Holding)' = In(q, Holding) /\ In(q, Busy)' = In(q, Busy)
      BY <2>1, <3>1, <3>2, InKeeps
    <3>4. inFlight[p] = Cardinality(In(p, Holding)) /\ inFlight[p] \in Nat
      BY <2>1 DEF MemoryInv
    <3>5. Cardinality(In(p, Busy)) >= MaxConcurrent
      BY <2>4, <3>4, BusyHold, InIsFinite
    <3>6. ~Fault("race") => Cardinality(In(p, Busy)) <= MaxConcurrent
      BY <2>1 DEF MemoryInv
    <3> DEFINE n == inFlight[p]
    <3>7. inFlight' = [inFlight EXCEPT ![p] = n]
      BY <3>1 DEF MemoryInv
    <3>8. \A q \in Processes \ {p} : queue'[q] = queue[q]
      BY <3>1 DEF QueueInv
    <3>9. n \in Nat /\ n = Cardinality(In(p, Holding)')
      BY <3>3, <3>4
    <3> HIDE DEF n
    <3>10. QED
      BY <2>1, <3>3, <3>5, <3>6, <3>7, <3>8, <3>9, MemoryChanges
  <2>5. QED
    BY <2>3, <2>4
<1>5. ASSUME NEW c \in Executions, TakeSlot(c) PROVE MemoryInv'
  <2>1. /\ pc[c] = "granted" /\ Moves(c, "trying") /\ UNCHANGED <<situation, queue>>
        /\ situation.bulkhead = "memory" /\ inFlight' = [inFlight EXCEPT ![ProcessOf[c]] = @ + 1]
    BY <1>5 DEF TakeSlot, Stands, QueueInv
  <2>2. PICK p \in Processes : p = ProcessOf[c]
    BY Scene DEF CallsInv
  <2>3. "granted" \notin Holding /\ "granted" \in Busy /\ "trying" \in Holding /\ "trying" \in Busy
    BY DEF Busy, Holding
  <2>4. In(p, Holding)' = In(p, Holding) \cup {c} /\ c \notin In(p, Holding)
    BY <2>1, <2>2, <2>3, InMoves
  <2>5. \A q : In(q, Busy)' = In(q, Busy)
    BY <2>1, <2>3, InKeeps
  <2>6. \A q \in Processes \ {p} : In(q, Holding)' = In(q, Holding)
    BY <2>1, <2>2, InMoves
  <2>7. Cardinality(In(p, Holding)') = Cardinality(In(p, Holding)) + 1
    BY <2>4, InIsFinite, FS_AddElement
  <2> DEFINE n == inFlight[p] + 1
  <2>8. n \in Nat /\ n = Cardinality(In(p, Holding)') /\ inFlight' = [inFlight EXCEPT ![p] = n]
    BY <2>1, <2>2, <2>7 DEF MemoryInv
  <2> HIDE DEF n
  <2>9. /\ ~Fault("race") => Cardinality(In(p, Busy)') <= MaxConcurrent
        /\ queue'[p] # <<>> => Cardinality(In(p, Busy)') >= MaxConcurrent
    BY <2>1, <2>5 DEF MemoryInv
  <2>10. QED
    BY <2>1, <2>5, <2>6, <2>8, <2>9, MemoryChanges
<1>6. ASSUME NEW c \in Executions, WaitTimesOut(c) PROVE MemoryInv'
  <2>1. /\ pc[c] = "waiting" /\ Moves(c, "limited") /\ UNCHANGED <<situation, inFlight>>
        /\ situation.bulkhead = "memory" /\ queue' = [queue EXCEPT ![ProcessOf[c]] = Spliced(@, c)]
    BY <1>6 DEF WaitTimesOut, Stands, QueueInv
  <2>2. {"waiting", "limited"} \cap Busy = {} /\ {"waiting", "limited"} \cap Holding = {}
    BY DEF Busy, Holding
  <2>3. \A q : In(q, Holding)' = In(q, Holding) /\ In(q, Busy)' = In(q, Busy)
    BY <2>1, <2>2, InKeeps
  <2>4. PICK p \in Processes : p = ProcessOf[c]
    BY Scene DEF CallsInv
  <2>5. queue[p] # <<>>
    <3>1. c \in RangeOf(queue[p])
      BY <2>1, <2>4 DEF QueueInv, In
    <3>2. RangeOf(<<>>) = {}
      BY DEF RangeOf
    <3>3. QED
      BY <3>1, <3>2
  <2>6. \A q \in Processes \ {p} : queue'[q] = queue[q]
    BY <2>1, <2>4 DEF QueueInv
  <2>7. \A q \in Processes : queue'[q] # <<>> => queue[q] # <<>>
    BY <2>5, <2>6
  <2>8. QED
    BY <2>1, <2>3, <2>7 DEF MemoryInv, Fault
<1>7. ASSUME NEW c \in Executions, ReleaseInMemory(c) PROVE MemoryInv'
  <2>1. PICK p \in Processes : p = ProcessOf[c]
    BY Scene DEF CallsInv
  <2>2. PICK q \in Seq(Executions) : q = queue[p] /\ Distinct(q) /\ RangeOf(q) = In(p, {"waiting"})
    BY DEF QueueInv
  <2>3. /\ pc[c] = "releasing" /\ situation.bulkhead = "memory" /\ UNCHANGED situation
        /\ queue' = [queue EXCEPT ![p] = Shifted(q)] /\ inFlight' = [inFlight EXCEPT ![p] = Later(0, @ - 1)]
    BY <1>7, <2>1, <2>2 DEF ReleaseInMemory, Shifted, Stands
  <2>4. /\ Active(Holding) /\ Active(Busy) /\ "granted" \notin Holding /\ "granted" \in Busy
        /\ "releasing" \in Holding /\ "releasing" \in Busy /\ "waiting" \notin Holding /\ "waiting" \notin Busy
    BY ActiveLabels DEF Busy, Holding
  <2>5. /\ In(p, Holding)' = (In(p, Holding) \ {c}) \ Picked(q)
        /\ In(p, Busy)' = (In(p, Busy) \ {c}) \cup Picked(q)
        /\ Picked(q) \subseteq In(p, {"waiting"})
    <3>1. In(p, Holding)' = (In(p, Holding) \ {c}) \ Picked(q) /\ Picked(q) \subseteq In(p, {"waiting"})
      BY <1>7, <2>1, <2>2, <2>4, Releasing
    <3>2. In(p, Busy)' = (In(p, Busy) \ {c}) \cup Picked(q)
      BY <1>7, <2>1, <2>2, <2>4, Releasing
    <3>3. QED
      BY <3>1, <3>2
  <2>6. c \in In(p, Holding) /\ c \in In(p, Busy)
    BY <2>1, <2>3, <2>4 DEF In
  <2>7. \A d \in Picked(q) : d \notin In(p, Holding) /\ d \notin In(p, Busy)
    BY <2>4, <2>5 DEF In
  <2>8. In(p, Holding)' = In(p, Holding) \ {c}
    BY <2>5, <2>7
  <2>9. Cardinality(In(p, Holding)') = Cardinality(In(p, Holding)) - 1
    BY <2>6, <2>8, InIsFinite, FS_RemoveElement
  <2>10. Cardinality(In(p, Busy) \ {c}) = Cardinality(In(p, Busy)) - 1 /\ IsFiniteSet(In(p, Busy) \ {c})
    BY <2>6, InIsFinite, FS_RemoveElement
  <2>11. /\ ~Fault("race") => Cardinality(In(p, Busy)') <= MaxConcurrent
         /\ queue'[p] # <<>> => Cardinality(In(p, Busy)') >= MaxConcurrent
    <3>1. /\ ~Fault("race") => Cardinality(In(p, Busy)) <= MaxConcurrent
          /\ q # <<>> => Cardinality(In(p, Busy)) >= MaxConcurrent
      BY <2>2, <2>3 DEF MemoryInv
    <3>2. queue'[p] = Shifted(q)
      BY <2>3 DEF QueueInv
    <3>3. CASE q = <<>>
      <4>1. Picked(q) = {} /\ Shifted(q) = <<>>
        BY <2>2, <3>3, QueueShifts DEF Shifted
      <4>2. In(p, Busy)' = In(p, Busy) \ {c}
        BY <2>5, <4>1
      <4>3. QED
        BY <2>10, <3>1, <3>2, <4>1, <4>2, InIsFinite
    <3>4. CASE q # <<>>
      <4>1. PICK d \in Executions : Picked(q) = {d}
        BY <2>2, <3>4, QueueShifts
      <4>2. In(p, Busy)' = (In(p, Busy) \ {c}) \cup {d} /\ d \notin In(p, Busy) \ {c}
        BY <2>5, <2>7, <4>1
      <4>3. Cardinality(In(p, Busy)') = Cardinality(In(p, Busy))
        <5>1. Cardinality(In(p, Busy)') = Cardinality(In(p, Busy) \ {c}) + 1
          BY <2>10, <4>2, FS_AddElement
        <5>2. QED
          BY <2>10, <5>1, InIsFinite
      <4>4. QED
        BY <3>1, <3>4, <4>3
    <3>5. QED
      BY <3>3, <3>4
  <2> DEFINE n == Later(0, inFlight[p] - 1)
  <2>12. n \in Nat /\ n = Cardinality(In(p, Holding)')
    <3>1. inFlight[p] = Cardinality(In(p, Holding)) /\ inFlight[p] \in Nat
      BY <2>3 DEF MemoryInv
    <3>2. Cardinality(In(p, Holding)) # 0
      BY <2>6, InIsFinite, FS_EmptySet
    <3>3. QED
      BY <2>9, <3>1, <3>2 DEF Later
  <2>13. \A r \in Processes \ {p} : In(r, Holding)' = In(r, Holding) /\ In(r, Busy)' = In(r, Busy)
    BY <1>7, <2>1, <2>2, <2>4, Releasing
  <2>14. \A r \in Processes \ {p} : queue'[r] = queue[r]
    BY <2>3 DEF QueueInv
  <2>15. inFlight' = [inFlight EXCEPT ![p] = n]
    BY <2>3 DEF MemoryInv
  <2> HIDE DEF n
  <2>16. QED
    BY <2>3, <2>11, <2>12, <2>13, <2>14, <2>15, MemoryChanges
<1>8. ASSUME NEW p \in Processes, Crash(p) PROVE MemoryInv'
  <2>1. /\ UNCHANGED situation /\ inFlight' = [inFlight EXCEPT ![p] = 0] /\ queue' = [queue EXCEPT ![p] = <<>>]
    BY <1>8 DEF Crash
  <2>2. In(p, Holding)' = {} /\ In(p, Busy)' = {}
    BY <1>8, ActiveLabels, Dying
  <2>3. Cardinality({}) = 0 /\ Cardinality({}) <= MaxConcurrent
    BY FS_EmptySet
  <2>4. \A q \in Processes \ {p} : In(q, Holding)' = In(q, Holding) /\ In(q, Busy)' = In(q, Busy)
    BY <1>8, ActiveLabels, Dying
  <2>5. queue'[p] = <<>> /\ \A q \in Processes \ {p} : queue'[q] = queue[q]
    BY <2>1 DEF QueueInv
  <2>6. CASE situation.bulkhead = "memory"
    <3> DEFINE n == 0
    <3>1. n \in Nat /\ n = Cardinality(In(p, Holding)') /\ inFlight' = [inFlight EXCEPT ![p] = n]
      BY <2>1, <2>2, <2>3
    <3>2. Cardinality(In(p, Busy)') <= MaxConcurrent
      BY <2>2, <2>3
    <3> HIDE DEF n
    <3>3. QED
      BY <2>1, <2>4, <2>5, <2>6, <3>1, <3>2, MemoryChanges
  <2>7. CASE situation.bulkhead # "memory"
    BY <2>1, <2>7 DEF MemoryInv
  <2>8. QED
    BY <2>6, <2>7
<1>9. ASSUME NEW c \in Executions, Step(c) PROVE MemoryInv'
  <2>1. CASE EnterFreely(c) \/ EnterInRedis(c)
    BY <1>3, <2>1 DEF EnterFreely, EnterInRedis, slotVars
  <2>2. CASE Poll(c)
    <3>1. pc[c] = "polling" /\ UNCHANGED <<situation, inFlight, queue>>
      BY <2>2 DEF Poll, Stands
    <3>2. situation.bulkhead = "redis"
      BY <3>1 DEF LeaseInv
    <3>3. QED
      BY <1>3, <3>1, <3>2
  <2>3. CASE Attempt(c) \/ Succeed(c) \/ Fail(c) \/ Resume(c)
    <3>1. PICK label \in Holding : Moves(c, label)
      BY <2>3, Working
    <3>2. pc[c] \in Holding /\ UNCHANGED <<situation, inFlight, queue>>
      BY <2>3, Working
    <3>3. pc[c] \in Busy /\ label \in Busy
      BY <3>1, <3>2 DEF Busy
    <3>4. QED
      BY <1>1, <3>1, <3>2, <3>3
  <2>4. CASE ReleaseInRedis(c) \/ ReleaseNothing(c)
    BY <1>3, <2>4 DEF ReleaseInRedis, ReleaseNothing, slotVars
  <2>5. QED
    BY <1>4, <1>5, <1>6, <1>7, <1>9, <2>1, <2>2, <2>3, <2>4 DEF Step
<1>10. ASSUME NEW c \in Executions, Abort(c) PROVE MemoryInv'
  BY <1>2, <1>10 DEF Abort, slotVars
<1>11. CASE Elapse
  BY <1>2, <1>11 DEF Elapse, callVars, slotVars
<1>12. CASE Settled \/ UNCHANGED resilienceVars
  BY <1>2, <1>12 DEF Settled, resilienceVars, callVars, slotVars
<1>13. QED
  BY <1>8, <1>9, <1>10, <1>11, <1>12 DEF ResilienceNext

-----------------------------------------------------------------------------
\* The sorted set in Redis.

\* A lease is added to those that have not expired, if there is room.
LEMMA LeaseTaken ==
  ASSUME CallsInv, LeaseInv, NEW c \in Executions, Cardinality(Unexpired) < MaxConcurrent,
         NEW s, s = Unexpired \cup {LeaseOf(c)}
  PROVE  /\ s \subseteq [call : Executions, expires : Nat] /\ IsFiniteSet(s)
         /\ Cardinality({l \in s : l.expires > clock}) <= MaxConcurrent
         /\ LeaseOf(c) \in s /\ LeaseOf(c).call = c /\ LeaseOf(c).expires > clock
<1> USE Limits
<1>1. clock \in Nat /\ LeaseOf(c).call = c /\ LeaseOf(c).expires = clock + LeaseTtl
      /\ LeaseOf(c) \in [call : Executions, expires : Nat]
  BY DEF CallsInv, LeaseOf
<1>2. Unexpired \in SUBSET leases
  BY DEF Unexpired
<1>3. IsFiniteSet(Unexpired) /\ Cardinality(Unexpired) \in Nat
  BY <1>2, FS_Subset, FS_CardinalityType DEF LeaseInv
<1>4. IsFiniteSet(s) /\ Cardinality(s) <= MaxConcurrent
  <2>1. /\ IsFiniteSet(Unexpired \cup {LeaseOf(c)})
        /\ \/ Cardinality(Unexpired \cup {LeaseOf(c)}) = Cardinality(Unexpired)
           \/ Cardinality(Unexpired \cup {LeaseOf(c)}) = Cardinality(Unexpired) + 1
    BY <1>3, FS_AddElement
  <2>2. QED
    BY <1>3, <2>1
<1>5. {l \in s : l.expires > clock} \in SUBSET s
  OBVIOUS
<1>6. Cardinality({l \in s : l.expires > clock}) <= MaxConcurrent
  BY <1>4, <1>5, FS_Subset, FS_CardinalityType
<1>7. LeaseOf(c).expires > clock
  BY <1>1
<1>8. s \subseteq [call : Executions, expires : Nat]
  BY <1>1, <1>2 DEF LeaseInv
<1>9. QED
  BY <1>1, <1>4, <1>6, <1>7, <1>8

\* What leaves leases out leaves the rest in order.
LEMMA LeasesLeft ==
  ASSUME CallsInv, LeaseInv, NEW s, s \subseteq leases, NEW t \in Nat, t >= clock
  PROVE  /\ s \subseteq [call : Executions, expires : Nat] /\ IsFiniteSet(s)
         /\ situation.bulkhead = "redis" => Cardinality({l \in s : l.expires > t}) <= MaxConcurrent
<1> USE Limits
<1>1. IsFiniteSet(s) /\ s \subseteq [call : Executions, expires : Nat]
  BY FS_Subset DEF LeaseInv
<1>2. {l \in s : l.expires > t} \in SUBSET Unexpired
  <2>1. ASSUME NEW l \in s, l.expires > t PROVE l \in Unexpired
    <3>1. l.expires \in Nat /\ clock \in Nat
      BY <1>1 DEF CallsInv
    <3>2. QED
      BY <2>1, <3>1 DEF Unexpired
  <2>2. QED
    BY <2>1
<1>3. Unexpired \in SUBSET leases
  BY DEF Unexpired
<1>4. IsFiniteSet(Unexpired) /\ Cardinality(Unexpired) \in Nat
  BY <1>3, FS_Subset, FS_CardinalityType DEF LeaseInv
<1>5. Cardinality({l \in s : l.expires > t}) <= Cardinality(Unexpired) /\ Cardinality({l \in s : l.expires > t}) \in Nat
  BY <1>2, <1>4, FS_Subset, FS_CardinalityType
<1>6. QED
  BY <1>1, <1>4, <1>5 DEF LeaseInv

\* The parts of the invariant, of the next state.
LEMMA LeasesHold ==
  ASSUME UNCHANGED situation, leases' \subseteq [call : Executions, expires : Nat], IsFiniteSet(leases'),
         \A c \in Executions : pc'[c] = "polling" => situation.bulkhead = "redis",
         situation.bulkhead = "redis" => Cardinality({l \in leases' : l.expires > clock'}) <= MaxConcurrent,
         situation.bulkhead = "redis" /\ ~Fault("overrun") =>
           \A c \in Executions : pc'[c] \in Holding => \E l \in leases' : l.call = c /\ l.expires > clock',
         situation.bulkhead = "redis" /\ ~Fault("redis") =>
           \A l \in leases' : pc'[l.call] \in Holding \cup {"gone"}
  PROVE  LeaseInv'
<1>1. Unexpired' = {l \in leases' : l.expires > clock'}
  BY DEF Unexpired
<1>2. QED
  BY <1>1 DEF LeaseInv, Fault

LEMMA LeaseStep ==
  ASSUME CallsInv, QueueInv, LeaseInv, [ResilienceNext]_resilienceVars
  PROVE  LeaseInv'
<1> USE Limits
<1>0. clock \in Nat /\ clock >= clock
  BY DEF CallsInv
\* A call that leaves the leases alone.
<1>1. ASSUME NEW c \in Executions, NEW label, Moves(c, label), UNCHANGED <<situation, clock, leases>>,
             label = "polling" => situation.bulkhead = "redis",
             situation.bulkhead = "redis" => (pc[c] \in Holding <=> label \in Holding) /\ pc[c] # "gone"
      PROVE  LeaseInv'
  <2>1. \A d \in Executions : pc'[d] = IF d = c THEN label ELSE pc[d]
    BY <1>1 DEF CallsInv, Moves
  <2>2. \A d \in Executions : pc'[d] = "polling" => situation.bulkhead = "redis"
    BY <1>1, <2>1 DEF LeaseInv
  <2>3. situation.bulkhead = "redis" => \A d \in Executions : pc'[d] \in Holding <=> pc[d] \in Holding
    BY <1>1, <2>1
  <2>4. situation.bulkhead = "redis" => \A d \in Executions : pc[d] = "gone" => pc'[d] = "gone"
    BY <1>1, <2>1
  <2>5. leases' \subseteq [call : Executions, expires : Nat] /\ IsFiniteSet(leases')
        /\ (situation.bulkhead = "redis" => Cardinality({l \in leases' : l.expires > clock'}) <= MaxConcurrent)
    BY <1>0, <1>1, LeasesLeft
  <2>6. \A l \in leases' : l.call \in Executions
    BY <2>5
  <2>7. situation.bulkhead = "redis" /\ ~Fault("overrun") =>
          \A d \in Executions : pc'[d] \in Holding => \E l \in leases' : l.call = d /\ l.expires > clock'
    BY <1>1, <2>3 DEF LeaseInv
  <2>8. situation.bulkhead = "redis" /\ ~Fault("redis") => \A l \in leases' : pc'[l.call] \in Holding \cup {"gone"}
    BY <1>1, <2>3, <2>4, <2>6 DEF LeaseInv
  <2>9. QED
    BY <1>1, <2>2, <2>5, <2>7, <2>8, LeasesHold
<1>2. ASSUME UNCHANGED <<pc, situation, clock, leases>> PROVE LeaseInv'
  BY <1>2 DEF LeaseInv, Unexpired, Fault
<1>3. ASSUME NEW c \in Executions, Poll(c) PROVE LeaseInv'
  <2>1. pc[c] = "polling" /\ situation.bulkhead = "redis" /\ UNCHANGED <<situation, clock>>
        /\ pc[c] \notin Holding
    BY <1>3 DEF Poll, Stands, LeaseInv, Holding
  <2>2. \A d \in Executions : d # c => pc'[d] = pc[d]
    BY <1>3 DEF Poll, Moves, CallsInv
  <2>3. \A d \in Executions : pc[d] \in Holding => \A l \in leases : l.call = d /\ l.expires > clock => l \in Unexpired
    BY DEF Unexpired
  <2>4. \A d \in Executions : pc'[d] = "polling" => situation.bulkhead = "redis"
    BY <2>1
  <2>5. \A l \in leases : l.call \in Executions
    BY DEF LeaseInv
  <2>6. Unexpired \subseteq leases
    BY DEF Unexpired
  <2>7. ~Fault("overrun") => \A d \in Executions : pc[d] \in Holding => \E l \in Unexpired : l.call = d /\ l.expires > clock
    BY <2>1, <2>3 DEF LeaseInv
  \* Without a fault, nobody who polls has a lease.
  <2>8. ~Fault("redis") => \A l \in leases : l.call # c /\ pc[l.call] \in Holding \cup {"gone"}
    BY <2>1 DEF LeaseInv
  <2>9. CASE Cardinality(Unexpired) < MaxConcurrent /\ leases' = Unexpired \cup {LeaseOf(c)} /\ Moves(c, "trying")
    <3>1. /\ leases' \subseteq [call : Executions, expires : Nat] /\ IsFiniteSet(leases')
          /\ Cardinality({l \in leases' : l.expires > clock}) <= MaxConcurrent
          /\ LeaseOf(c) \in leases' /\ LeaseOf(c).call = c /\ LeaseOf(c).expires > clock
      BY <2>9, LeaseTaken
    <3>2. pc'[c] = "trying" /\ "trying" \in Holding
      BY <2>9 DEF Moves, CallsInv, Holding
    <3>3. ~Fault("overrun") => \A d \in Executions : pc'[d] \in Holding => \E l \in leases' : l.call = d /\ l.expires > clock
      BY <2>2, <2>7, <2>9, <3>1
    <3>4. ~Fault("redis") => \A l \in leases' : pc'[l.call] \in Holding \cup {"gone"}
      BY <2>2, <2>5, <2>6, <2>8, <2>9, <3>1, <3>2
    <3>5. QED
      BY <2>1, <2>4, <3>1, <3>3, <3>4, LeasesHold
  <2>10. CASE leases' = Unexpired /\ Moves(c, "limited")
    <3>1. leases' \subseteq [call : Executions, expires : Nat] /\ IsFiniteSet(leases')
          /\ Cardinality({l \in leases' : l.expires > clock}) <= MaxConcurrent
      BY <1>0, <2>1, <2>6, <2>10, LeasesLeft
    <3>2. pc'[c] = "limited" /\ "limited" \notin Holding
      BY <2>10 DEF Moves, CallsInv, Holding
    <3>3. ~Fault("overrun") => \A d \in Executions : pc'[d] \in Holding => \E l \in leases' : l.call = d /\ l.expires > clock
      BY <2>2, <2>7, <2>10, <3>2
    <3>4. ~Fault("redis") => \A l \in leases' : pc'[l.call] \in Holding \cup {"gone"}
      BY <2>2, <2>5, <2>6, <2>8, <2>10
    <3>5. QED
      BY <2>1, <2>4, <3>1, <3>3, <3>4, LeasesHold
  <2>11. CASE Fault("redis") /\ Moves(c, "failed")
              /\ (UNCHANGED leases \/ (Cardinality(Unexpired) < MaxConcurrent /\ leases' = Unexpired \cup {LeaseOf(c)}))
    <3>1. leases' \subseteq [call : Executions, expires : Nat] /\ IsFiniteSet(leases')
          /\ Cardinality({l \in leases' : l.expires > clock}) <= MaxConcurrent
      BY <1>0, <2>1, <2>11, LeasesLeft, LeaseTaken
    <3>2. pc'[c] = "failed" /\ "failed" \notin Holding
      BY <2>11 DEF Moves, CallsInv, Holding
    <3>3. \A l \in Unexpired : l \in leases'
      BY <2>6, <2>11
    <3>4. ~Fault("overrun") => \A d \in Executions : pc'[d] \in Holding => \E l \in leases' : l.call = d /\ l.expires > clock
      BY <2>2, <2>7, <3>2, <3>3
    <3>5. QED
      BY <2>1, <2>4, <2>11, <3>1, <3>4, LeasesHold
  <2>12. QED
    BY <1>3, <2>9, <2>10, <2>11 DEF Poll
<1>4. ASSUME NEW c \in Executions, ReleaseInRedis(c) PROVE LeaseInv'
  <2>1. /\ pc[c] = "releasing" /\ situation.bulkhead = "redis" /\ UNCHANGED <<situation, clock>>
        /\ leases' = {l \in leases : l.call # c} \/ (Fault("redis") /\ UNCHANGED leases)
    BY <1>4 DEF ReleaseInRedis, Stands
  <2>2. PICK label \in {"answered", "failed"} : Moves(c, label)
    BY <1>4, <2>1 DEF ReleaseInRedis, CallsInv
  <2>3. pc'[c] \notin Holding /\ \A d \in Executions : d # c => pc'[d] = pc[d]
    BY <2>2 DEF Moves, CallsInv, Holding
  <2>4. leases' \subseteq leases /\ \A l \in leases : l.call # c => l \in leases'
    BY <2>1
  <2>5. leases' \subseteq [call : Executions, expires : Nat] /\ IsFiniteSet(leases')
        /\ Cardinality({l \in leases' : l.expires > clock}) <= MaxConcurrent
    BY <1>0, <2>1, <2>4, LeasesLeft
  <2>6. \A d \in Executions : pc'[d] = "polling" => situation.bulkhead = "redis"
    BY <2>1
  <2>7. ~Fault("overrun") => \A d \in Executions : pc'[d] \in Holding => \E l \in leases' : l.call = d /\ l.expires > clock
    BY <2>1, <2>3, <2>4 DEF LeaseInv
  <2>8. ~Fault("redis") => \A l \in leases' : pc'[l.call] \in Holding \cup {"gone"}
    BY <2>1, <2>3, <2>5 DEF LeaseInv
  <2>9. QED
    BY <2>1, <2>5, <2>6, <2>7, <2>8, LeasesHold
<1>5. ASSUME NEW p \in Processes, Crash(p) PROVE LeaseInv'
  <2>1. \A c \in Executions : pc'[c] = IF ProcessOf[c] = p /\ pc[c] \notin Outcomes \cup {"idle"} THEN "gone" ELSE pc[c]
    BY <1>5 DEF Crash
  <2>2. UNCHANGED <<situation, clock, leases>>
    BY <1>5 DEF Crash
  <2>3. \A c \in Executions : pc'[c] = "gone" \/ pc'[c] = pc[c]
    BY <2>1
  <2>4. "gone" \notin Holding
    BY DEF Holding
  <2>5. \A l \in leases : l.call \in Executions
    BY DEF LeaseInv
  <2>6. leases' \subseteq [call : Executions, expires : Nat] /\ IsFiniteSet(leases')
        /\ (situation.bulkhead = "redis" => Cardinality({l \in leases' : l.expires > clock'}) <= MaxConcurrent)
    BY <1>0, <2>2, LeasesLeft
  <2>7. situation.bulkhead = "redis" /\ ~Fault("overrun") =>
          \A d \in Executions : pc'[d] \in Holding => \E l \in leases' : l.call = d /\ l.expires > clock'
    BY <2>2, <2>3, <2>4 DEF LeaseInv
  <2>8. situation.bulkhead = "redis" /\ ~Fault("redis") => \A l \in leases' : pc'[l.call] \in Holding \cup {"gone"}
    BY <2>2, <2>3, <2>5 DEF LeaseInv
  <2>9. \A d \in Executions : pc'[d] = "polling" => situation.bulkhead = "redis"
    BY <2>3 DEF LeaseInv
  <2>10. QED
    BY <2>2, <2>6, <2>7, <2>8, <2>9, LeasesHold
<1>6. CASE Elapse
  <2>1. UNCHANGED <<situation, pc, leases>> /\ clock' = clock + 1
        /\ (Fault("overrun") \/ \A l \in leases : pc[l.call] \in Holding => l.expires > clock + 1)
    BY <1>6 DEF Elapse, callVars, slotVars
  <2>2. leases' \subseteq [call : Executions, expires : Nat] /\ IsFiniteSet(leases')
        /\ (situation.bulkhead = "redis" => Cardinality({l \in leases' : l.expires > clock'}) <= MaxConcurrent)
    <3>1. clock + 1 \in Nat /\ clock + 1 >= clock
      BY <1>0
    <3>2. QED
      BY <2>1, <3>1, LeasesLeft
  <2>3. situation.bulkhead = "redis" /\ ~Fault("overrun") =>
          \A d \in Executions : pc'[d] \in Holding => \E l \in leases' : l.call = d /\ l.expires > clock'
    BY <2>1 DEF LeaseInv
  <2>4. situation.bulkhead = "redis" /\ ~Fault("redis") => \A l \in leases' : pc'[l.call] \in Holding \cup {"gone"}
    BY <2>1 DEF LeaseInv
  <2>5. \A d \in Executions : pc'[d] = "polling" => situation.bulkhead = "redis"
    BY <2>1 DEF LeaseInv
  <2>6. QED
    BY <2>1, <2>2, <2>3, <2>4, <2>5, LeasesHold
<1>7. ASSUME NEW c \in Executions, ReleaseInMemory(c) PROVE LeaseInv'
  <2>1. UNCHANGED <<situation, clock, leases>> /\ situation.bulkhead = "memory"
    BY <1>7 DEF ReleaseInMemory
  <2>2. \A d \in Executions : pc'[d] = "polling" => pc[d] = "polling"
    BY <1>7 DEF ReleaseInMemory, Stands, CallsInv
  <2>3. leases' \subseteq [call : Executions, expires : Nat] /\ IsFiniteSet(leases')
    BY <1>0, <2>1, LeasesLeft
  <2>4. QED
    BY <2>1, <2>2, <2>3, LeasesHold DEF LeaseInv
<1>8. ASSUME NEW c \in Executions, Step(c) PROVE LeaseInv'
  <2>1. CASE EnterFreely(c)
    BY <1>1, <2>1 DEF EnterFreely, slotVars
  <2>2. CASE EnterInMemory(c)
    <3>1. UNCHANGED <<situation, clock, leases>> /\ situation.bulkhead = "memory" /\ (Moves(c, "trying") \/ Moves(c, "waiting"))
      BY <2>2 DEF EnterInMemory
    <3>2. QED
      BY <1>1, <3>1
  <2>3. CASE EnterInRedis(c)
    <3>1. UNCHANGED <<situation, clock, leases>> /\ situation.bulkhead = "redis" /\ Moves(c, "polling") /\ pc[c] = "idle"
      BY <2>3 DEF EnterInRedis, slotVars, Stands
    <3>2. "idle" \notin Holding /\ "polling" \notin Holding
      BY DEF Holding
    <3>3. QED
      BY <1>1, <3>1, <3>2
  <2>4. CASE TakeSlot(c) \/ WaitTimesOut(c)
    <3>1. /\ UNCHANGED <<situation, clock, leases>> /\ (Moves(c, "trying") \/ Moves(c, "limited"))
          /\ pc[c] \in {"waiting", "granted"}
      BY <2>4 DEF TakeSlot, WaitTimesOut, Stands
    <3>2. situation.bulkhead = "memory"
      BY <3>1 DEF QueueInv
    <3>3. QED
      BY <1>1, <3>1, <3>2
  <2>5. CASE Attempt(c) \/ Succeed(c) \/ Fail(c) \/ Resume(c)
    <3>1. PICK label \in Holding : Moves(c, label)
      BY <2>5, Working
    <3>2. pc[c] \in Holding /\ UNCHANGED <<situation, clock, leases>>
      BY <2>5, Working
    <3>3. pc[c] # "gone" /\ label # "polling"
      BY <3>1, <3>2 DEF Holding
    <3>4. QED
      BY <1>1, <3>1, <3>2, <3>3
  <2>6. CASE ReleaseNothing(c)
    <3>1. /\ UNCHANGED <<situation, clock, leases>> /\ situation.bulkhead = "none" /\ Moves(c, outcome[c])
          /\ outcome[c] \in {"answered", "failed"}
      BY <2>6 DEF ReleaseNothing, slotVars, Stands, CallsInv
    <3>2. QED
      BY <1>1, <3>1
  <2>7. QED
    BY <1>3, <1>4, <1>7, <1>8, <2>1, <2>2, <2>3, <2>4, <2>5, <2>6 DEF Step
<1>9. ASSUME NEW c \in Executions, Abort(c) PROVE LeaseInv'
  BY <1>2, <1>9 DEF Abort, slotVars
<1>10. CASE Settled \/ UNCHANGED resilienceVars
  BY <1>2, <1>10 DEF Settled, resilienceVars, callVars, slotVars
<1>11. QED
  BY <1>5, <1>6, <1>8, <1>9, <1>10 DEF ResilienceNext

-----------------------------------------------------------------------------
\* What the bulkheads promise.

SlotsInv == CallsInv /\ QueueInv /\ MemoryInv /\ LeaseInv

LEMMA SlotsStart == ResilienceInit => SlotsInv
<1>1. SUFFICES ASSUME ResilienceInit PROVE SlotsInv
  OBVIOUS
<1>2. CallsInv
  BY <1>1, Limits DEF ResilienceInit, CallsInv, Labels
<1>3. \A p, L : "idle" \notin L => In(p, L) = {}
  BY <1>1 DEF ResilienceInit, In
<1>4. "idle" \notin Holding /\ "idle" \notin Busy
  BY DEF Holding, Busy
<1>5. QueueInv
  <2>1. queue = [p \in Processes |-> <<>>] /\ <<>> \in Seq(Executions)
    BY <1>1 DEF ResilienceInit
  <2>2. Distinct(<<>>) /\ RangeOf(<<>>) = {}
    BY DEF Distinct, RangeOf
  <2>3. \A p : In(p, {"waiting"}) = {}
    BY <1>3
  <2>4. QED
    BY <1>1, <2>1, <2>2, <2>3 DEF ResilienceInit, QueueInv
<1>6. MemoryInv
  <2>1. Cardinality({}) = 0 /\ MaxConcurrent >= 0
    BY Limits, FS_EmptySet
  <2>2. \A p : Cardinality(In(p, Holding)) = 0 /\ Cardinality(In(p, Busy)) = 0
    BY <1>3, <1>4, <2>1
  <2>3. QED
    BY <1>1, <2>1, <2>2 DEF ResilienceInit, MemoryInv
<1>7. LeaseInv
  <2>1. leases = {} /\ Unexpired = {} /\ IsFiniteSet({}) /\ Cardinality({}) <= MaxConcurrent
    BY <1>1, Limits, FS_EmptySet DEF ResilienceInit, Unexpired
  <2>2. \A c \in Executions : pc[c] \notin Holding /\ pc[c] # "polling"
    BY <1>1, <1>4 DEF ResilienceInit
  <2>3. QED
    BY <2>1, <2>2 DEF LeaseInv
<1>8. QED
  BY <1>2, <1>5, <1>6, <1>7 DEF SlotsInv

LEMMA SlotsHold == ResilienceSpec => []SlotsInv
<1>1. SlotsInv /\ [ResilienceNext]_resilienceVars => SlotsInv'
  BY CallsStep, QueueStep, MemoryStep, LeaseStep DEF SlotsInv
<1>2. QED
  BY <1>1, SlotsStart, PTL DEF ResilienceSpec

\* The names the properties have for the calls of a process.
LEMMA HoldersAre ==
  ASSUME NEW p
  PROVE  /\ Holders(p) = In(p, Holding) /\ Holders(p) \cup Granted(p) = In(p, Busy)
         /\ {c \in Live(p) : pc[c] = "waiting"} = In(p, {"waiting"})
<1>1. "gone" \notin Holding
  BY DEF Holding
<1>2. Holders(p) = In(p, Holding)
  BY <1>1 DEF Holders, Live, In
<1>3. Granted(p) = In(p, {"granted"}) /\ {c \in Live(p) : pc[c] = "waiting"} = In(p, {"waiting"})
  BY DEF Granted, Live, In
<1>4. QED
  BY <1>2, <1>3, BusyHold

\* Whoever runs has a lease of its own that has not expired.
LEMMA LeasesCover ==
  ASSUME CallsInv, LeaseInv, situation.bulkhead = "redis", ~Fault("overrun")
  PROVE  Cardinality(AllHolders) <= MaxConcurrent
<1> DEFINE f == [c \in AllHolders |-> CHOOSE l \in Unexpired : l.call = c]
<1>1. \A c \in AllHolders : c \in Executions /\ pc[c] \in Holding
  BY DEF AllHolders, Holders, Live
<1>2. \A c \in AllHolders : \E l \in Unexpired : l.call = c
  BY <1>1 DEF LeaseInv, Unexpired
<1>3. \A c \in AllHolders : f[c] \in Unexpired /\ f[c].call = c
  BY <1>2
<1>4. IsInjective(f) /\ f \in [AllHolders -> Unexpired]
  BY <1>3 DEF IsInjective
<1>5. f \in Injection(AllHolders, Unexpired)
  BY <1>4 DEF Injection
<1> HIDE DEF f
<1>6. Unexpired \in SUBSET leases
  BY DEF Unexpired
<1>7. IsFiniteSet(Unexpired) /\ Cardinality(Unexpired) \in Nat
  BY <1>6, FS_Subset, FS_CardinalityType DEF LeaseInv
<1>8. AllHolders \in SUBSET Executions
  BY <1>1
<1>9. IsFiniteSet(AllHolders) /\ Cardinality(AllHolders) \in Nat
  BY <1>8, Limits, FS_Subset, FS_CardinalityType
<1>10. Cardinality(AllHolders) <= Cardinality(Unexpired)
  BY <1>5, <1>7, <1>9, FS_Injection
<1>11. QED
  BY <1>7, <1>9, <1>10, Limits DEF LeaseInv

\* The bulkheads count the slots of exactly those who run, and these are within the
\* limit unless a call slipped in or outlived its lease: for any number of calls and
\* replicas, and any limits (bulkhead.ts:18-23).
THEOREM SlotsStayWithinLimit == ResilienceSpec => []SlotsWithinLimit
<1>1. ASSUME SlotsInv, CircuitInv PROVE SlotsWithinLimit
  <2>1. CallsInv /\ QueueInv /\ MemoryInv /\ LeaseInv
    BY <1>1 DEF SlotsInv
  <2>2. ResilienceTypeOK
    <3>1. \A p \in Processes :
            queue[p] \in Seq(Executions) /\ {queue[p][i] : i \in DOMAIN queue[p]} = {c \in Live(p) : pc[c] = "waiting"}
      BY <2>1, HoldersAre DEF QueueInv, RangeOf
    <3>2. circuit \in [Processes -> Circuits]
      BY <1>1 DEF CircuitInv
    <3>3. inFlight \in [Processes -> Nat] /\ leases \subseteq [call : Executions, expires : Nat]
      BY <2>1 DEF MemoryInv, LeaseInv
    <3>4. QED
      BY <2>1, <3>1, <3>2, <3>3 DEF CallsInv, ResilienceTypeOK
  <2>3. SlotsAccounted
    BY <2>1, HoldersAre DEF SlotsAccounted, MemoryInv, LeaseInv
  <2>4. WithinLimit
    <3>1. ASSUME ~Fault("race"), situation.bulkhead = "memory", NEW p \in Processes
          PROVE  Cardinality(Holders(p)) <= MaxConcurrent
      <4>1. Cardinality(In(p, Busy)) <= MaxConcurrent
        BY <2>1, <3>1 DEF MemoryInv
      <4>2. QED
        BY <4>1, HoldersAre, BusyHold, InIsFinite, Limits
    <3>2. QED
      BY <2>1, <3>1, LeasesCover DEF WithinLimit
  <2>5. QED
    BY <2>2, <2>3, <2>4 DEF SlotsWithinLimit
<1>2. QED
  BY <1>1, SlotsHold, CircuitInvHolds, PTL

\* Who is turned away, by whom: a waiter whose time is up, or one that polls.
LEMMA WhoIsTurnedAway ==
  ASSUME CallsInv, [ResilienceNext]_resilienceVars, NEW c \in Executions, pc[c] # "limited", pc'[c] = "limited"
  PROVE  WaitTimesOut(c) \/ (pc[c] = "polling" /\ Cardinality(Unexpired) >= MaxConcurrent)
<1>1. pc \in [Executions -> Labels]
  BY DEF CallsInv
<1>2. ASSUME NEW d \in Executions, NEW label, Moves(d, label), d # c \/ label # "limited" PROVE FALSE
  BY <1>1, <1>2 DEF Moves
<1>3. ASSUME NEW d \in Executions, Step(d), ~WaitTimesOut(d), ~Poll(d) PROVE FALSE
  <2>1. CASE EnterFreely(d) \/ EnterInMemory(d) \/ EnterInRedis(d) \/ TakeSlot(d)
    BY <1>2, <2>1 DEF EnterFreely, EnterInMemory, EnterInRedis, TakeSlot
  <2>2. CASE Attempt(d) \/ Succeed(d) \/ Fail(d) \/ Resume(d)
    <3>1. PICK label \in Holding : Moves(d, label)
      BY <2>2, Working
    <3>2. QED
      BY <1>2, <3>1 DEF Holding
  <2>3. CASE ReleaseInMemory(d)
    <3>1. pc[d] = "releasing" /\ pc' = [e \in Executions |-> IF e = d THEN outcome[d]
                            ELSE IF e \in Picked(queue[ProcessOf[d]]) THEN "granted" ELSE pc[e]]
      BY <2>3 DEF ReleaseInMemory, Stands
    <3>2. outcome[d] # "limited"
      BY <3>1 DEF CallsInv
    <3>3. pc'[c] # "limited"
      BY <3>1, <3>2
    <3>4. QED
      BY <3>3
  <2>4. CASE ReleaseInRedis(d) \/ ReleaseNothing(d)
    <3>1. outcome[d] # "limited"
      BY DEF CallsInv
    <3>2. QED
      BY <1>2, <2>4, <3>1 DEF ReleaseInRedis, ReleaseNothing
  <2>5. QED
    BY <1>3, <2>1, <2>2, <2>3, <2>4 DEF Step
<1>4. ASSUME NEW d \in Executions, WaitTimesOut(d) PROVE d = c
  BY <1>2, <1>4 DEF WaitTimesOut
<1>5. ASSUME NEW d \in Executions, Poll(d) PROVE pc[c] = "polling" /\ Cardinality(Unexpired) >= MaxConcurrent
  <2>1. CASE Cardinality(Unexpired) >= MaxConcurrent /\ Moves(d, "limited")
    BY <1>2, <1>5, <2>1 DEF Poll, Stands
  <2>2. CASE Moves(d, "trying") \/ Moves(d, "failed")
    BY <1>2, <2>2
  <2>3. QED
    BY <1>5, <2>1, <2>2 DEF Poll
<1>6. ASSUME NEW d \in Executions, Abort(d) PROVE FALSE
  BY <1>6 DEF Abort
<1>7. ASSUME NEW p \in Processes, Crash(p) PROVE FALSE
  BY <1>1, <1>7 DEF Crash
<1>8. CASE Elapse
  BY <1>8 DEF Elapse, callVars
<1>9. CASE Settled \/ UNCHANGED resilienceVars
  BY <1>9 DEF Settled, resilienceVars, callVars
<1>10. QED
  BY <1>3, <1>4, <1>5, <1>6, <1>7, <1>8, <1>9 DEF ResilienceNext

\* Nobody is turned away while a slot is free, whatever the releases, time-outs, aborts
\* and crashes on the way: a wake-up is never lost (bulkhead.ts:93).
THEOREM LimitedWhenFull == ResilienceSpec => LimitedOnlyWhenFull
<1>1. ASSUME SlotsInv, [ResilienceNext]_resilienceVars, NEW c \in Executions, pc[c] # "limited", pc'[c] = "limited"
      PROVE  InUse(ProcessOf[c]) >= MaxConcurrent
  <2>1. CallsInv /\ QueueInv /\ MemoryInv /\ LeaseInv
    BY <1>1 DEF SlotsInv
  <2>2. PICK p \in Processes : p = ProcessOf[c]
    BY <2>1, Scene DEF CallsInv
  <2>3. CASE WaitTimesOut(c)
    <3>1. pc[c] = "waiting" /\ situation.bulkhead = "memory"
      BY <2>1, <2>3 DEF WaitTimesOut, Stands, QueueInv
    <3>2. c \in RangeOf(queue[p])
      BY <2>1, <2>2, <3>1 DEF QueueInv, In
    <3>3. RangeOf(<<>>) = {}
      BY DEF RangeOf
    <3>4. Cardinality(In(p, Busy)) >= MaxConcurrent
      BY <2>1, <3>1, <3>2, <3>3 DEF MemoryInv
    <3>5. QED
      BY <2>2, <3>1, <3>4, HoldersAre DEF InUse
  <2>4. CASE pc[c] = "polling" /\ Cardinality(Unexpired) >= MaxConcurrent
    <3>1. situation.bulkhead = "redis"
      BY <2>1, <2>4 DEF LeaseInv
    <3>2. \A l \in Unexpired : pc[l.call] \in Holding \cup {"gone"} \/ Fault("redis")
      BY <2>1, <3>1 DEF LeaseInv, Unexpired
    <3>3. {l \in Unexpired : pc[l.call] \in Holding \cup {"gone"} \/ Fault("redis")} = Unexpired
      BY <3>2
    <3>4. QED
      BY <2>4, <3>1, <3>3 DEF InUse
  <2>5. QED
    BY <1>1, <2>1, <2>3, <2>4, WhoIsTurnedAway
<1>2. ASSUME SlotsInv, [ResilienceNext]_resilienceVars
      PROVE  [\A c \in Executions : pc[c] # "limited" /\ pc'[c] = "limited" => InUse(ProcessOf[c]) >= MaxConcurrent]_resilienceVars
  BY <1>1, <1>2
<1>3. QED
  BY <1>2, SlotsHold, PTL DEF ResilienceSpec, LimitedOnlyWhenFull
=============================================================================
