------------------------- MODULE InferenceSaga_proofs -------------------------
(***************************************************************************)
(* What InferenceSaga promises, proved for any number of calls of any      *)
(* kinds, any prices, limit and faults.                                    *)
(*                                                                         *)
(* The inductive invariant says of each call, at each label, which states  *)
(* its reservation can be in (Reserved) and what of its evidence has been  *)
(* written, is being written or is still to come (Evidenced); and of the   *)
(* ledger, that its counters are the sums over the calls (Counted).        *)
(***************************************************************************)
EXTENDS InferenceSaga, FiniteSetTheorems, TLAPS

-----------------------------------------------------------------------------
\* Sums

UnitsOf(c, f) == {c} \X (1 .. f[c])
Units(C, f) == UNION {UnitsOf(c, f) : c \in C}

\* The sum of the promise, unit by unit.
LEMMA SumIs == \A C, f : SumOver(C, f) = Cardinality(Units(C, f))
<1>1. SUFFICES ASSUME NEW C, NEW f PROVE Promise!SumOver(C, f) = Cardinality(Units(C, f))
  BY DEF SumOver
<1>2. Promise!Units(C, f) = Units(C, f)
  BY DEF Promise!Units, Promise!UnitsOf, Units, UnitsOf
<1>3. \A S : Promise!Cardinality(S) = Cardinality(S)
  BY DEF Promise!Cardinality, Cardinality
<1>4. QED
  BY <1>2, <1>3 DEF Promise!SumOver

\* The units of one member number its value.
LEMMA UnitsOfMember ==
  ASSUME NEW c, NEW f, f[c] \in Nat
  PROVE  /\ IsFiniteSet(UnitsOf(c, f))
         /\ Cardinality(UnitsOf(c, f)) = f[c]
<1>1. IsFiniteSet({c}) /\ Cardinality({c}) = 1
  BY FS_Singleton
<1>2. IsFiniteSet(1 .. f[c]) /\ Cardinality(1 .. f[c]) = f[c]
  BY FS_Interval
<1>3. /\ IsFiniteSet({c} \X (1 .. f[c]))
      /\ Cardinality({c} \X (1 .. f[c])) = Cardinality({c}) * Cardinality(1 .. f[c])
  BY <1>1, <1>2, FS_Product
<1>4. Cardinality({c}) * Cardinality(1 .. f[c]) = f[c]
  BY <1>1, <1>2
<1>5. QED
  BY <1>3, <1>4 DEF UnitsOf

\* A finite set of members has finitely many units, so a sum is a natural.
LEMMA SumNat ==
  ASSUME NEW C, IsFiniteSet(C), NEW f, \A c \in C : f[c] \in Nat
  PROVE  /\ IsFiniteSet(Units(C, f))
         /\ SumOver(C, f) \in Nat
<1> DEFINE T == {UnitsOf(c, f) : c \in C}
           g == [c \in C |-> UnitsOf(c, f)]
<1>1. g \in Surjection(C, T)
  BY DEF Surjection, IsInjective
<1>2. IsFiniteSet(T)
  BY <1>1, FS_Surjection
<1>3. \A S \in T : IsFiniteSet(S)
  BY UnitsOfMember
<1>4. IsFiniteSet(UNION T)
  BY <1>2, <1>3, FS_UNION
<1>5. QED
  BY <1>4, FS_CardinalityType, SumIs DEF Units

\* The empty sum.
LEMMA SumEmpty ==
  ASSUME NEW f
  PROVE  SumOver({}, f) = 0
BY FS_EmptySet, SumIs DEF Units

\* A sum depends on the values of its members only.
LEMMA SumCongruence ==
  ASSUME NEW C, NEW f, NEW g, \A c \in C : f[c] = g[c]
  PROVE  SumOver(C, f) = SumOver(C, g)
<1>1. \A c \in C : UnitsOf(c, f) = UnitsOf(c, g)
  BY DEF UnitsOf
<1>2. Units(C, f) = Units(C, g)
  BY <1>1 DEF Units
<1>3. QED
  BY <1>2, SumIs

\* One more member adds its value.
LEMMA SumAdd ==
  ASSUME NEW C, IsFiniteSet(C), NEW f, NEW x, x \notin C,
         \A c \in C \cup {x} : f[c] \in Nat
  PROVE  SumOver(C \cup {x}, f) = SumOver(C, f) + f[x]
<1>1. Units(C \cup {x}, f) = Units(C, f) \cup UnitsOf(x, f)
  BY DEF Units
<1>2. Units(C, f) \cap UnitsOf(x, f) = {}
  BY DEF Units, UnitsOf
<1>3. IsFiniteSet(Units(C, f)) /\ Cardinality(Units(C, f)) \in Nat
  BY SumNat, SumIs
<1>4. IsFiniteSet(UnitsOf(x, f)) /\ Cardinality(UnitsOf(x, f)) = f[x]
  BY UnitsOfMember
<1>5. Cardinality(Units(C, f) \cup UnitsOf(x, f))
        = Cardinality(Units(C, f)) + Cardinality(UnitsOf(x, f)) - Cardinality(Units(C, f) \cap UnitsOf(x, f))
  BY <1>3, <1>4, FS_Union, Zenon
<1>6. Cardinality(Units(C, f) \cap UnitsOf(x, f)) = 0
  BY <1>2, FS_EmptySet
<1>7. Cardinality(Units(C, f) \cup UnitsOf(x, f)) = Cardinality(Units(C, f)) + f[x]
  <2>1. f[x] \in Nat
    OBVIOUS
  <2>2. QED
    BY <1>3, <1>4, <1>5, <1>6, <2>1
<1>8. QED
  BY <1>1, <1>7, SumIs

-----------------------------------------------------------------------------
\* The invariant

\* The states of the reservation of a call, by what the call does next.
HoldsWhen(label) ==
  CASE label = "start"                                          -> {"idle"}
    [] label \in {"prepared", "hit", "settlingHit", "missed"}   -> {"planned"}
    [] label = "rejected"                                       -> {"idle", "failed"}
    [] label = "refused"                                        -> {"refused"}
    [] label \in {"calling", "streaming", "finishing"}          -> {"unverified", "held"}
    [] label = "catch"                                          -> {"unverified", "held", "committed"}
    [] label \in {"storing", "ready", "settling", "salvaged", "settlingPartial", "partial"}
                                                                -> {"unverified", "committed"}
    [] label \in {"compensated", "settlingFailure"}             -> {"unverified", "committed", "released"}
    [] label = "answered"                                       -> {"planned", "unverified", "committed"}
    [] label = "failed"           -> {"planned", "unverified", "held", "committed", "released"}
    [] label = "gone"                                           -> Holds

\* Where a call is that has not committed, unless a write was rejected after it had.
Failing == {"catch", "compensated", "settlingFailure", "failed"}

\* What a call holds, and what it has consumed.
Reserved(c) ==
  /\ hold[c] \in HoldsWhen(pc[c])
  /\ pc[c] \in Failing /\ hold[c] = "committed" => "mongo" \in faults
  /\ hold[c] \notin {"committed", "unverified"} => actual[c] = 0
  /\ pc[c] \in {"streaming", "finishing"} => units[c] >= 1
  /\ pc[c] = "storing" => KindOf[c] = "chat"
  /\ pc[c] \notin {"start", "rejected", "gone"} /\ KindOf[c] # "embeddings" => text[c] # "none"

WritesOf(c) == {w \in writes : w.call = c}
Write(c, s, turn, row) == [call |-> c, store |-> s, turn |-> turn, row |-> row]

\* No evidence yet.
Fresh(c) == WritesOf(c) = {} /\ audit[c] = NoRow /\ events[c] = {}

\* One row is what both stores have got, or are about to get.
Underway(c, turn, row) ==
  /\ \A w \in WritesOf(c) : \E s \in Stores(c) : w = Write(c, s, turn, row)
  /\ events[c] = IF Write(c, "usage", turn, row) \in writes THEN {} ELSE {row}
  /\ audit[c] = IF KindOf[c] = "embeddings" \/ Write(c, "audit", turn, row) \in writes THEN NoRow ELSE row

StatusAt(label) ==
  IF label \in {"settlingHit", "settling", "answered"} THEN "completed"
  ELSE IF label \in {"settlingPartial", "partial"} THEN "partial" ELSE "failed"

\* The rows a call can have at a label.
RowsAt(c, label) ==
  [status : {StatusAt(label)}, cost : {IF StatusAt(label) = "failed" THEN 0 ELSE actual[c]},
   unverified : BOOLEAN, captured : {"none", "raw", "redacted"}]

\* Labels no call reaches after a write of its own was rejected, and the others.
Sure  == {"start", "prepared", "hit", "missed", "calling", "streaming", "finishing", "storing", "ready",
          "refused", "rejected"}
Later == {"catch", "salvaged", "compensated"}

\* The evidence of a call, until a rejected write sends it elsewhere.
Evidenced(c) ==
  /\ pc[c] \in Sure => Fresh(c)
  /\ pc[c] \in {"settlingHit", "settling"} => \E row \in RowsAt(c, pc[c]) : Underway(c, pc[c], row)
  /\ pc[c] = "answered" => \E row \in RowsAt(c, "answered") : WritesOf(c) = {} /\ Underway(c, "settling", row)
  /\ "mongo" \notin faults =>
       /\ pc[c] \in Later => Fresh(c)
       /\ pc[c] \in {"settlingPartial", "settlingFailure"} => \E row \in RowsAt(c, pc[c]) : Underway(c, pc[c], row)
       /\ pc[c] = "partial" => \E row \in RowsAt(c, pc[c]) : WritesOf(c) = {} /\ Underway(c, pc[c], row)
       /\ pc[c] = "failed" =>
            Fresh(c) \/ \E row \in RowsAt(c, pc[c]) : WritesOf(c) = {} /\ Underway(c, pc[c], row)

Paid == {c \in Calls : hold[c] = "committed"}
Held == {c \in Calls : hold[c] = "held"}

\* The counters, unless a script ran unheard or a stream committed again.
Counted ==
  CommitsOnce =>
    book.spent = SumOver(Paid, actual) /\ book.reserved = Estimate * Cardinality(Held)

SagaInv == TypeOK /\ (\A c \in Calls : Reserved(c) /\ Evidenced(c)) /\ Counted

-----------------------------------------------------------------------------

LEMMA Given ==
  /\ IsFiniteSet(Calls) /\ MaxUnits \in Nat \ {0} /\ Limit \in Nat
  /\ BlockAtLimit \in BOOLEAN /\ Capture \in BOOLEAN
  /\ 1 \in Deployments /\ Len(Prices) \in Nat
  /\ \A d \in Deployments : d \in Nat /\ Prices[d] \in Nat
  /\ \A s \in Scenarios : s.kinds \in [Calls -> {"chat", "stream", "embeddings"}]
<1>1. Prices \in Seq(Nat) /\ Prices # <<>>
  BY SagaAssumption
<1>2. Len(Prices) \in Nat /\ Len(Prices) # 0 /\ \A d \in 1 .. Len(Prices) : Prices[d] \in Nat
  BY <1>1
<1>3. QED
  BY <1>2, SagaAssumption DEF Deployments

LEMMA Products == \A m, n \in Nat : m * n \in Nat
<1>1. SUFFICES ASSUME NEW m \in Nat, NEW n \in Nat PROVE m * n >= 0
  OBVIOUS
<1>2. QED
  OBVIOUS

LEMMA EstimateIsNat == Estimate \in Nat
BY Given, Products DEF Estimate

LEMMA CostIsNat ==
  ASSUME TypeOK, NEW c \in Calls
  PROVE  CostOf(c) \in Nat
<1>1. Prices[at[c]] \in Nat /\ units[c] \in Nat
  BY Given DEF TypeOK
<1>2. QED
  BY <1>1, Products DEF CostOf

\* Which parts of the state tell a call from another.
Same(c) ==
  /\ pc'[c] = pc[c] /\ text'[c] = text[c] /\ hold'[c] = hold[c] /\ actual'[c] = actual[c] /\ units'[c] = units[c]
  /\ audit'[c] = audit[c] /\ events'[c] = events[c] /\ WritesOf(c)' = WritesOf(c)

LEMMA SameKeeps ==
  ASSUME NEW c, UNCHANGED scenario, Same(c), Reserved(c), Evidenced(c)
  PROVE  Reserved(c)' /\ Evidenced(c)'
<1>1. KindOf' = KindOf /\ faults' = faults
  BY DEF KindOf, faults
<1>2. Reserved(c)'
  BY <1>1 DEF Same, Reserved
<1>3. \A s, turn, row : Write(c, s, turn, row) \in writes' <=> Write(c, s, turn, row) \in writes
  BY DEF Same, WritesOf, Write
<1>4. \A turn, row : Underway(c, turn, row)' <=> Underway(c, turn, row)
  BY <1>1, <1>3 DEF Same, Underway, Stores
<1>5. \A label : RowsAt(c, label)' = RowsAt(c, label)
  BY DEF Same, RowsAt
<1>6. Fresh(c)' <=> Fresh(c)
  BY DEF Same, Fresh
<1>7. Evidenced(c)'
  BY <1>1, <1>4, <1>5, <1>6 DEF Same, Evidenced
<1>8. QED
  BY <1>2, <1>7

-----------------------------------------------------------------------------
\* What a step of one call leaves to the others.

\* Whoever only moves, and keeps to its own text, units and reservation.
Alone(c) ==
  /\ pc' = [pc EXCEPT ![c] = pc'[c]] /\ text' = [text EXCEPT ![c] = text'[c]]
  /\ units' = [units EXCEPT ![c] = units'[c]] /\ hold' = [hold EXCEPT ![c] = hold'[c]]
  /\ actual' = [actual EXCEPT ![c] = actual'[c]]

\* The label a call has before a step, those it can have after it.
Moves(c, from, to) == pc[c] \in from /\ pc'[c] \in to

LEMMA CommitIs ==
  ASSUME TypeOK, NEW c \in Calls, NEW cost \in Nat, NEW from, NEW next, NEW thrown,
         Commit(c, cost, from, next, thrown)
  PROVE  /\ Moves(c, {from}, {next, thrown}) /\ Alone(c)
         /\ UNCHANGED <<scenario, up, cache, text, at, units, recordVars>>
         /\ \/ hold[c] = "unverified" /\ hold'[c] = hold[c] /\ actual'[c] = cost /\ pc'[c] = next
               /\ UNCHANGED <<book, hold>>
            \/ hold[c] # "unverified" /\ hold'[c] = "committed" /\ actual'[c] = cost /\ pc'[c] = next
               /\ book' = CommitScript(book, Estimate, cost)
            \/ hold[c] # "unverified" /\ UNCHANGED <<hold, actual>> /\ pc'[c] = thrown
               /\ (book' = book \/ ("lostReply" \in faults /\ book' = CommitScript(book, Estimate, cost)))
<1>1. CASE hold[c] = "unverified"
  <2>1. /\ Go(c, from, next) /\ actual' = [actual EXCEPT ![c] = cost]
        /\ UNCHANGED <<book, hold, scenario, up, cache, text, at, units, recordVars>>
    BY <1>1 DEF Commit
  <2>2. QED
    BY <1>1, <2>1 DEF Go, Moves, Alone, TypeOK
<1>2. ASSUME hold[c] # "unverified", Go(c, from, next), Holding(c, "committed"),
             actual' = [actual EXCEPT ![c] = cost], book' = CommitScript(book, Estimate, cost),
             UNCHANGED <<scenario, up, cache, text, at, units, recordVars>>
      PROVE  /\ Moves(c, {from}, {next, thrown}) /\ Alone(c) /\ hold'[c] = "committed"
             /\ actual'[c] = cost /\ pc'[c] = next
  BY <1>2 DEF Go, Holding, Moves, Alone, TypeOK
<1>3. ASSUME Go(c, from, thrown), UNCHANGED <<hold, actual>>,
             UNCHANGED <<scenario, up, cache, text, at, units, recordVars>>
      PROVE  Moves(c, {from}, {next, thrown}) /\ Alone(c) /\ pc'[c] = thrown
  BY <1>3 DEF Go, Moves, Alone, TypeOK
<1>4. QED
  BY <1>1, <1>2, <1>3 DEF Commit, EvalUnheard

LEMMA ReleaseIs ==
  ASSUME TypeOK, NEW c \in Calls, NEW from, NEW next, NEW thrown, Release(c, from, next, thrown)
  PROVE  /\ Moves(c, {from}, {next, thrown}) /\ Alone(c)
         /\ UNCHANGED <<scenario, up, actual, cache, text, at, units, recordVars>>
         /\ \/ hold[c] \in {"unverified", "committed"} /\ pc'[c] = next /\ UNCHANGED <<book, hold>>
            \/ hold[c] \notin {"unverified", "committed"} /\ hold'[c] = "released" /\ pc'[c] = next
               /\ book' = ReleaseScript(book, Estimate)
            \/ hold[c] \notin {"unverified", "committed"} /\ UNCHANGED hold /\ pc'[c] = thrown
               /\ (book' = book \/ ("lostReply" \in faults /\ book' = ReleaseScript(book, Estimate)))
<1>1. CASE hold[c] \in {"unverified", "committed"}
  <2>1. /\ Go(c, from, next)
        /\ UNCHANGED <<book, hold, scenario, up, actual, cache, text, at, units, recordVars>>
    BY <1>1 DEF Release
  <2>2. QED
    BY <1>1, <2>1 DEF Go, Moves, Alone, TypeOK
<1>2. ASSUME hold[c] \notin {"unverified", "committed"}, Go(c, from, next), Holding(c, "released"),
             UNCHANGED <<scenario, up, actual, cache, text, at, units, recordVars>>
      PROVE  Moves(c, {from}, {next, thrown}) /\ Alone(c) /\ hold'[c] = "released" /\ pc'[c] = next
  BY <1>2 DEF Go, Holding, Moves, Alone, TypeOK
<1>3. ASSUME Go(c, from, thrown), UNCHANGED hold,
             UNCHANGED <<scenario, up, actual, cache, text, at, units, recordVars>>
      PROVE  Moves(c, {from}, {next, thrown}) /\ Alone(c) /\ pc'[c] = thrown
  BY <1>3 DEF Go, Moves, Alone, TypeOK
<1>4. QED
  BY <1>1, <1>2, <1>3 DEF Release, EvalUnheard

\* A step that writes no evidence: before the first settling, on to a failure, or the end.
Works(c) ==
  /\ Alone(c) /\ UNCHANGED <<scenario, writes, audit, events>>
  /\ Moves(c, Sure, Sure) \/ Moves(c, Sure \cup Later, Later \cup {"failed"}) \/ pc'[c] = "gone"

Working(c) ==
  \/ Prepare(c) \/ Lookup(c) \/ Reserve(c) \/ Answer(c) \/ OpenStream(c) \/ Failover(c) \/ Chunk(c)
  \/ StreamEnds(c) \/ CommitAnswer(c) \/ Store(c) \/ Salvage(c) \/ Compensate(c) \/ Leave(c) \/ Crash(c)

LEMMA WorkingWorks ==
  ASSUME TypeOK, NEW c \in Calls, Reserved(c), Working(c)
  PROVE  Works(c) /\ Reserved(c)'
<1> DEFINE K == KindOf[c]
<1>1. /\ pc \in [Calls -> Labels] /\ text \in [Calls -> {"none", "raw", "redacted"}] /\ hold \in [Calls -> Holds]
      /\ actual \in [Calls -> Nat] /\ units \in [Calls -> 0 .. MaxUnits] /\ MaxUnits \in Nat \ {0}
  BY Given DEF TypeOK
\* A move that leaves the reservation alone.
<1>2. ASSUME NEW from, NEW to, pc[c] = from, pc'[c] = to, Alone(c),
             UNCHANGED <<scenario, hold, actual, text, writes, audit, events>>,
             (from \in Sure /\ to \in Sure) \/ (from \in Sure \cup Later /\ to \in Later \cup {"failed"}) \/ to = "gone",
             hold[c] \in HoldsWhen(to),
             to \in Failing => hold[c] # "committed",
             to \in {"streaming", "finishing"} => units'[c] >= 1,
             to = "storing" => KindOf[c] = "chat",
             from \notin {"start", "rejected", "gone"} \/ to = "gone"
      PROVE  Works(c) /\ Reserved(c)'
  <2>1. Works(c)
    BY <1>2 DEF Works, Moves
  <2>2. Reserved(c)'
    BY <1>2 DEF Reserved, KindOf, faults
  <2>3. QED
    BY <2>1, <2>2
<1>3. CASE Lookup(c)
  <2>1. /\ pc[c] = "prepared" /\ pc'[c] \in {"hit", "missed"} /\ Alone(c)
        /\ UNCHANGED <<scenario, hold, actual, text, writes, audit, events>>
    BY <1>1, <1>3 DEF Lookup, Go, Alone, ledgerVars, recordVars
  <2>2. hold[c] \in HoldsWhen(pc'[c])
    BY <2>1 DEF Reserved, HoldsWhen
  <2>3. QED
    BY <1>2, <2>1, <2>2 DEF Sure, Failing
<1>4. CASE Answer(c) \/ OpenStream(c)
  <2>1. /\ pc[c] = "calling" /\ pc'[c] \in {"finishing", "streaming"} /\ Alone(c) /\ units'[c] >= 1
        /\ UNCHANGED <<scenario, hold, actual, text, writes, audit, events>>
    BY <1>1, <1>4 DEF Answer, OpenStream, Go, Alone, ledgerVars, recordVars
  <2>2. hold[c] \in HoldsWhen(pc'[c])
    BY <2>1 DEF Reserved, HoldsWhen
  <2>3. QED
    BY <1>2, <2>1, <2>2 DEF Sure, Failing
<1>5. CASE Failover(c)
  <2>1. /\ pc[c] = "calling" /\ pc'[c] \in {"calling", "catch"} /\ Alone(c)
        /\ UNCHANGED <<scenario, hold, actual, text, writes, audit, events>>
    BY <1>1, <1>5 DEF Failover, Go, Alone, ledgerVars, recordVars
  <2>2. hold[c] \in HoldsWhen(pc'[c]) /\ hold[c] # "committed"
    BY <2>1 DEF Reserved, HoldsWhen
  <2>3. QED
    BY <1>2, <2>1, <2>2 DEF Sure, Later, Failing
<1>6. CASE Chunk(c) \/ StreamEnds(c)
  <2>1. /\ pc[c] = "streaming" /\ pc'[c] \in {"streaming", "finishing", "catch"} /\ Alone(c)
        /\ UNCHANGED <<scenario, hold, actual, text, writes, audit, events>>
        /\ units'[c] = units[c] \/ units'[c] = units[c] + 1
    BY <1>1, <1>6 DEF Chunk, StreamEnds, Go, Alone, ledgerVars, recordVars
  <2>2. hold[c] \in HoldsWhen(pc'[c]) /\ hold[c] # "committed"
    BY <2>1 DEF Reserved, HoldsWhen
  <2>3. units'[c] >= 1
    BY <1>1, <2>1 DEF Reserved
  <2>4. QED
    BY <1>2, <2>1, <2>2, <2>3 DEF Sure, Later, Failing
<1>7. CASE Store(c)
  <2>1. /\ pc[c] = "storing" /\ pc'[c] = "ready" /\ Alone(c)
        /\ UNCHANGED <<scenario, hold, actual, text, writes, audit, events>>
    BY <1>1, <1>7 DEF Store, Go, Alone, ledgerVars, recordVars
  <2>2. hold[c] \in HoldsWhen(pc'[c])
    BY <2>1 DEF Reserved, HoldsWhen
  <2>3. QED
    BY <1>2, <2>1, <2>2 DEF Sure, Failing
<1>8. CASE Leave(c) \/ Crash(c)
  <2>1. /\ pc'[c] = "gone" /\ Alone(c)
        /\ UNCHANGED <<scenario, hold, actual, text, writes, audit, events>>
    BY <1>1, <1>8 DEF Leave, Crash, Go, Alone, ledgerVars, recordVars
  <2>2. hold[c] \in HoldsWhen(pc'[c])
    BY <1>1, <2>1 DEF HoldsWhen
  <2>3. QED
    BY <1>2, <2>1, <2>2 DEF Failing
<1>9. CASE Prepare(c)
  <2>1. /\ pc[c] = "start" /\ pc'[c] \in {"rejected", "missed", "prepared"} /\ Alone(c)
        /\ UNCHANGED <<scenario, writes, audit, events, actual, units>>
        /\ hold'[c] = IF pc'[c] = "rejected" THEN hold[c] ELSE "planned"
        /\ pc'[c] # "rejected" /\ KindOf[c] # "embeddings" => text'[c] # "none"
    BY <1>1, <1>9 DEF Prepare, Go, Holding, Alone, GuardedTexts, recordVars
  <2>2. Works(c)
    BY <2>1 DEF Works, Moves, Sure
  <2>3. Reserved(c)'
    BY <2>1 DEF Reserved, HoldsWhen, Failing, KindOf, faults
  <2>4. QED
    BY <2>2, <2>3
<1>10. CASE Reserve(c)
  <2>1. /\ pc[c] = "missed" /\ Alone(c) /\ UNCHANGED <<scenario, writes, audit, events, actual, units, text>>
        /\ \/ pc'[c] = "calling" /\ hold'[c] \in {"unverified", "held"}
           \/ pc'[c] = "refused" /\ hold'[c] = "refused"
           \/ pc'[c] = "rejected" /\ hold'[c] = "failed"
    BY <1>1, <1>10 DEF Reserve, Go, Holding, Alone, recordVars
  <2>2. Works(c)
    BY <2>1 DEF Works, Moves, Sure
  <2>3. Reserved(c)'
    BY <2>1 DEF Reserved, HoldsWhen, Failing, KindOf, faults
  <2>4. QED
    BY <2>2, <2>3
<1>11. CASE CommitAnswer(c)
  <2>0. PICK cost \in Nat, next \in {"storing", "ready"} :
          Commit(c, cost, "finishing", next, "catch") /\ (next = "storing" => KindOf[c] = "chat")
    BY <1>11, CostIsNat DEF CommitAnswer
  <2>1. /\ Moves(c, {"finishing"}, {next, "catch"}) /\ Alone(c)
        /\ UNCHANGED <<scenario, text, units, recordVars>>
        /\ \/ hold'[c] \in {"unverified", "committed"} /\ pc'[c] = next
           \/ UNCHANGED <<hold, actual>> /\ pc'[c] = "catch"
    BY <2>0, CommitIs
  <2>2. Works(c)
    BY <2>0, <2>1 DEF Works, Moves, Sure, Later, recordVars
  <2>3. Reserved(c)'
    BY <2>0, <2>1 DEF Reserved, HoldsWhen, Failing, KindOf, faults, Moves
  <2>4. QED
    BY <2>2, <2>3
<1>12. CASE Salvage(c)
  <2>0. PICK cost \in Nat : Commit(c, cost, "catch", "salvaged", "failed")
    BY <1>12, CostIsNat DEF Salvage
  <2>1. /\ Moves(c, {"catch"}, {"salvaged", "failed"}) /\ Alone(c)
        /\ UNCHANGED <<scenario, text, units, recordVars>>
        /\ \/ hold'[c] \in {"unverified", "committed"} /\ pc'[c] = "salvaged"
           \/ UNCHANGED <<hold, actual>> /\ pc'[c] = "failed"
    BY <2>0, CommitIs
  <2>2. Works(c)
    BY <2>1 DEF Works, Moves, Sure, Later, recordVars
  <2>3. Reserved(c)'
    BY <2>1 DEF Reserved, HoldsWhen, Failing, KindOf, faults, Moves
  <2>4. QED
    BY <2>2, <2>3
<1>13. CASE Compensate(c)
  <2>1. /\ Moves(c, {"catch"}, {"compensated", "failed"}) /\ Alone(c)
        /\ UNCHANGED <<scenario, actual, text, units, recordVars>>
        /\ \/ hold[c] \in {"unverified", "committed"} /\ hold' = hold
           \/ hold[c] \notin {"unverified", "committed"} /\ hold'[c] = "released"
           \/ UNCHANGED hold /\ pc'[c] = "failed"
    BY <1>13, ReleaseIs DEF Compensate, AfterRelease, Moves
  <2>2. Works(c)
    BY <2>1 DEF Works, Moves, Sure, Later, recordVars
  <2>3. Reserved(c)'
    BY <2>1 DEF Reserved, HoldsWhen, Failing, KindOf, faults, Moves
  <2>4. QED
    BY <2>2, <2>3
<1>14. QED
  BY <1>3, <1>4, <1>5, <1>6, <1>7, <1>8, <1>9, <1>10, <1>11, <1>12, <1>13 DEF Working

-----------------------------------------------------------------------------
\* The evidence.

LEMMA WorksKeepEvidence ==
  ASSUME NEW c \in Calls, Works(c), Evidenced(c)
  PROVE  Evidenced(c)'
<1>1. faults' = faults /\ WritesOf(c)' = WritesOf(c) /\ audit'[c] = audit[c] /\ events'[c] = events[c]
  BY DEF Works, faults, WritesOf
<1>2. Fresh(c)' <=> Fresh(c)
  BY <1>1 DEF Fresh
<1>3. CASE Moves(c, Sure, Sure)
  BY <1>2, <1>3 DEF Moves, Evidenced, Sure, Later
<1>4. CASE Moves(c, Sure \cup Later, Later \cup {"failed"})
  BY <1>1, <1>2, <1>4 DEF Moves, Evidenced, Sure, Later
<1>5. CASE pc'[c] = "gone"
  BY <1>5 DEF Evidenced, Sure, Later
<1>6. QED
  BY <1>3, <1>4, <1>5 DEF Works

\* Both writes are sent at once.
LEMMA SettleIs ==
  ASSUME TypeOK, NEW c \in Calls, NEW from, NEW turn, NEW status, NEW cost, Settle(c, from, turn, status, cost)
  PROVE  /\ pc[c] = from /\ pc'[c] = turn /\ Alone(c)
         /\ UNCHANGED <<scenario, up, book, hold, actual, text, units, audit, events>>
         /\ \A w \in writes' : w \in writes \/ w.call = c
         /\ writes \subseteq writes'
         /\ Fresh(c) => \E row \in [status : {status}, cost : {cost}, unverified : BOOLEAN,
                                    captured : {"none", "raw", "redacted"}] : Underway(c, turn, row)'
<1>0. PICK row : row = [status |-> status, cost |-> cost, unverified |-> ~up,
                         captured |-> IF Capture THEN text[c] ELSE "none"]
  OBVIOUS
<1>1. /\ Go(c, from, turn) /\ writes' = writes \cup {Write(c, s, turn, row) : s \in Stores(c)}
      /\ UNCHANGED <<scenario, up, book, hold, actual, text, units, audit, events>>
  BY <1>0 DEF Settle, Write, ledgerVars
<1>2. row \in [status : {status}, cost : {cost}, unverified : BOOLEAN, captured : {"none", "raw", "redacted"}]
  BY <1>0 DEF TypeOK
<1>3. pc[c] = from /\ pc'[c] = turn /\ Alone(c)
  BY <1>1 DEF Go, Alone, TypeOK
<1>4. \A s : Write(c, s, turn, row).call = c
  BY DEF Write
<1>5. ASSUME Fresh(c) PROVE Underway(c, turn, row)'
  <2>1. WritesOf(c)' = {Write(c, s, turn, row) : s \in Stores(c)}
    BY <1>1, <1>4, <1>5 DEF WritesOf, Fresh
  <2>2. KindOf' = KindOf /\ Stores(c)' = Stores(c)
    BY <1>1 DEF KindOf, Stores
  <2>3. "usage" \in Stores(c) /\ (KindOf[c] # "embeddings" => "audit" \in Stores(c))
    BY DEF Stores
  <2>4. audit'[c] = NoRow /\ events'[c] = {}
    BY <1>1, <1>5 DEF Fresh
  <2>5. /\ Write(c, "usage", turn, row) \in writes'
        /\ KindOf[c] # "embeddings" => Write(c, "audit", turn, row) \in writes'
    BY <1>1, <2>3
  <2>6. \A w \in WritesOf(c)' : \E s \in Stores(c)' : w = Write(c, s, turn, row)
    BY <2>1, <2>2
  <2>7. events'[c] = IF Write(c, "usage", turn, row) \in writes' THEN {} ELSE {row}
    BY <2>4, <2>5
  <2>8. audit'[c] = IF KindOf'[c] = "embeddings" \/ Write(c, "audit", turn, row) \in writes' THEN NoRow ELSE row
    BY <2>2, <2>4, <2>5
  <2>9. QED
    BY <2>6, <2>7, <2>8 DEF Underway
<1>6. \A w \in writes' : w \in writes \/ w.call = c
  BY <1>1, <1>4
<1>7. Fresh(c) => \E r \in [status : {status}, cost : {cost}, unverified : BOOLEAN, captured : {"none", "raw", "redacted"}] :
                    Underway(c, turn, r)'
  BY <1>2, <1>5
<1>8. writes \subseteq writes'
  BY <1>1
<1>9. QED
  BY <1>1, <1>3, <1>6, <1>7, <1>8

Settling(c) == SettleHit(c) \/ SettleAnswer(c) \/ SettlePartial(c) \/ SettleFailure(c)

LEMMA SettlingKeeps ==
  ASSUME TypeOK, NEW c \in Calls, Reserved(c), Evidenced(c), Settling(c)
  PROVE  /\ Reserved(c)' /\ Evidenced(c)' /\ Alone(c)
         /\ UNCHANGED <<scenario, book, hold, actual, audit, events>>
         /\ \A w \in writes' : w \in writes \/ w.call = c
         /\ writes \subseteq writes'
<1> DEFINE costOf(from) == IF from \in {"ready", "salvaged"} THEN actual[c] ELSE 0
<1>1. PICK from, turn, status, cost :
        /\ Settle(c, from, turn, status, cost)
        /\ \/ from = "hit" /\ turn = "settlingHit" /\ status = "completed" /\ cost = 0
           \/ from = "ready" /\ turn = "settling" /\ status = "completed" /\ cost = actual[c]
           \/ from = "salvaged" /\ turn = "settlingPartial" /\ status = "partial" /\ cost = actual[c]
           \/ from = "compensated" /\ turn = "settlingFailure" /\ status = "failed" /\ cost = 0
  BY DEF Settling, SettleHit, SettleAnswer, SettlePartial, SettleFailure
<1>2. /\ pc[c] = from /\ pc'[c] = turn /\ Alone(c)
      /\ UNCHANGED <<scenario, up, book, hold, actual, text, units, audit, events>>
      /\ \A w \in writes' : w \in writes \/ w.call = c
      /\ writes \subseteq writes'
      /\ Fresh(c) => \E row \in [status : {status}, cost : {cost}, unverified : BOOLEAN,
                                 captured : {"none", "raw", "redacted"}] : Underway(c, turn, row)'
  BY <1>1, SettleIs
<1>3. faults' = faults /\ KindOf' = KindOf
  BY <1>2 DEF faults, KindOf
<1>4. Reserved(c)'
  BY <1>1, <1>2, <1>3 DEF Reserved, HoldsWhen, Failing
<1>5. status = StatusAt(turn) /\ cost = IF StatusAt(turn) = "failed" THEN 0 ELSE actual[c]
  <2>1. from = "hit" => actual[c] = 0
    BY <1>2 DEF Reserved, HoldsWhen
  <2>2. QED
    BY <1>1, <2>1 DEF StatusAt
<1>6. RowsAt(c, turn)' = [status : {status}, cost : {cost}, unverified : BOOLEAN, captured : {"none", "raw", "redacted"}]
  BY <1>2, <1>5 DEF RowsAt
<1>7. from \in Sure \/ "mongo" \notin faults => Fresh(c)
  BY <1>1, <1>2 DEF Evidenced, Sure, Later
<1>8. Evidenced(c)'
  <2>1. turn \in {"settlingHit", "settling"} \/ "mongo" \notin faults => \E row \in RowsAt(c, turn)' : Underway(c, turn, row)'
    BY <1>1, <1>2, <1>6, <1>7 DEF Sure
  <2>2. QED
    BY <1>1, <1>2, <1>3, <2>1 DEF Evidenced, Sure, Later
<1>9. QED
  BY <1>2, <1>4, <1>8

LEMMA WritesDiffer ==
  ASSUME NEW c, NEW turn, NEW row
  PROVE  Write(c, "usage", turn, row) # Write(c, "audit", turn, row)
<1>1. Write(c, "usage", turn, row).store = "usage" /\ Write(c, "audit", turn, row).store = "audit"
  BY DEF Write
<1>2. QED
  BY <1>1

\* One of the two writes is applied.
LEMMA AppliedStays ==
  ASSUME TypeOK, NEW c \in Calls, NEW turn, NEW row, Underway(c, turn, row), NEW w \in WritesOf(c),
         Apply(w), writes' = writes \ {w}, UNCHANGED scenario
  PROVE  Underway(c, turn, row)'
<1>1. w \in writes /\ w.call = c /\ KindOf' = KindOf /\ Stores(c)' = Stores(c)
  BY DEF WritesOf, KindOf, Stores
<1>2. PICK s \in Stores(c) : w = Write(c, s, turn, row)
  BY DEF Underway
<1>3. w.store = s /\ w.row = row /\ s \in {"audit", "usage"} /\ (s = "audit" => KindOf[c] # "embeddings")
  BY <1>2 DEF Write, Stores
<1>4. \A v \in WritesOf(c)' : \E t \in Stores(c)' : v = Write(c, t, turn, row)
  <2>1. WritesOf(c)' \subseteq WritesOf(c)
    BY DEF WritesOf
  <2>2. QED
    BY <1>1, <2>1 DEF Underway
<1>5. CASE s = "audit"
  <2>1. audit'[c] = row /\ events'[c] = events[c]
    BY <1>1, <1>3, <1>5 DEF Apply, TypeOK
  <2>2. Write(c, "usage", turn, row) \in writes' <=> Write(c, "usage", turn, row) \in writes
    BY <1>2, <1>5, WritesDiffer
  <2>3. Write(c, "audit", turn, row) \notin writes'
    BY <1>2, <1>5
  <2>4. QED
    BY <1>1, <1>3, <1>4, <1>5, <2>1, <2>2, <2>3 DEF Underway
<1>6. CASE s = "usage"
  <2>1. audit'[c] = audit[c] /\ events'[c] = {row}
    <3>1. events[c] = {}
      BY <1>1, <1>2, <1>6 DEF Underway
    <3>2. audit' = audit /\ events' = [events EXCEPT ![c] = @ \cup {row}]
      BY <1>1, <1>3, <1>6 DEF Apply
    <3>3. QED
      BY <3>1, <3>2 DEF TypeOK
  <2>2. Write(c, "audit", turn, row) \in writes' <=> Write(c, "audit", turn, row) \in writes
    BY <1>2, <1>6, WritesDiffer
  <2>3. Write(c, "usage", turn, row) \notin writes'
    BY <1>2, <1>6
  <2>4. QED
    BY <1>1, <1>3, <1>4, <2>1, <2>2, <2>3 DEF Underway
<1>7. QED
  BY <1>3, <1>5, <1>6

\* A write comes back, whoever it is of: a rejection ends the turn it belongs to, and
\* without a fault no write of a turn is rejected.
LEMMA LandIs ==
  ASSUME TypeOK, NEW c \in Calls, Evidenced(c), NEW w \in writes, w.call = c, Land(w)
  PROVE  /\ writes' = writes \ {w} /\ Alone(c)
         /\ UNCHANGED <<scenario, up, book, hold, actual, text, units>>
         /\ \/ pc' = pc /\ Apply(w)
            \/ /\ w.turn # pc[c] /\ pc' = pc
               /\ "mongo" \in faults \/ pc[c] = "gone" \/ (w.store = "audit" /\ audit[c] # NoRow)
            \/ /\ w.turn = pc[c] /\ pc'[c] = IF pc[c] = "settling" THEN "catch" ELSE "failed"
               /\ "mongo" \in faults \/ pc[c] = "gone" \/ (w.store = "audit" /\ audit[c] # NoRow)
<1>1. writes' = writes \ {w} /\ UNCHANGED <<scenario, up, book, hold, actual, text, units>>
  BY DEF Land, ledgerVars
<1>2. CASE Apply(w) /\ pc' = pc
  BY <1>1, <1>2 DEF Alone, TypeOK
<1>3. ASSUME OnReject(w), "mongo" \in faults \/ (w.store = "audit" /\ audit[c] # NoRow) \/ pc[c] = "gone"
      PROVE  /\ Alone(c)
             /\ \/ w.turn # pc[c] /\ pc' = pc
                \/ w.turn = pc[c] /\ pc'[c] = IF pc[c] = "settling" THEN "catch" ELSE "failed"
  <2>1. CASE w.turn = pc[c]
    BY <1>1, <1>3, <2>1 DEF OnReject, Alone, TypeOK
  <2>2. CASE w.turn # pc[c]
    <3>1. pc[w.call] # w.turn
      BY <2>2
    <3>2. pc' = pc
      BY <1>3, <3>1 DEF OnReject
    <3>3. QED
      BY <1>1, <2>2, <3>2 DEF Alone, TypeOK
  <2>3. QED
    BY <2>1, <2>2
<1>4. QED
  BY <1>1, <1>2, <1>3 DEF Land

LEMMA LandKeeps ==
  ASSUME TypeOK, NEW c \in Calls, Reserved(c), Evidenced(c), NEW w \in writes, w.call = c, Land(w)
  PROVE  Reserved(c)' /\ Evidenced(c)'
<1>1. /\ writes' = writes \ {w} /\ Alone(c) /\ w \in WritesOf(c)
      /\ UNCHANGED <<scenario, up, book, hold, actual, text, units>> /\ faults' = faults /\ KindOf' = KindOf
  BY LandIs DEF WritesOf, faults, KindOf
<1>2. WritesOf(c) # {} /\ ~Fresh(c) /\ pc[c] \notin Sure /\ pc[c] # "answered"
  BY <1>1 DEF Fresh, Evidenced
<1>3. "mongo" \notin faults => pc[c] \in {"settlingHit", "settling", "settlingPartial", "settlingFailure", "gone"}
  <2>1. pc[c] \in Labels
    BY DEF TypeOK
  <2>2. "mongo" \notin faults => pc[c] \notin {"partial", "failed"} /\ pc[c] \notin Later
    BY <1>2 DEF Evidenced
  <2>3. QED
    BY <1>2, <2>1, <2>2 DEF Labels, Finals, Turns, Sure, Later
\* What is under way.
<1>4. ASSUME pc[c] \in {"settlingHit", "settling"} \/ ("mongo" \notin faults /\ pc[c] # "gone")
      PROVE  \E row \in RowsAt(c, pc[c]) : Underway(c, pc[c], row)
  BY <1>3, <1>4 DEF Evidenced
<1>5. ASSUME NEW turn, NEW row, Underway(c, turn, row)
      PROVE  w.turn = turn /\ (w.store = "audit" => audit[c] = NoRow)
  <2>1. PICK s \in Stores(c) : w = Write(c, s, turn, row)
    BY <1>1, <1>5 DEF Underway
  <2>2. w.turn = turn /\ w.store = s
    BY <2>1 DEF Write
  <2>3. QED
    BY <1>1, <1>5, <2>1, <2>2 DEF Underway
<1>6. CASE pc' = pc /\ Apply(w)
  <2>1. Reserved(c)'
    BY <1>1, <1>6 DEF Reserved
  <2>2. ASSUME NEW row \in RowsAt(c, pc[c]), Underway(c, pc[c], row)
        PROVE  \E r \in RowsAt(c, pc[c])' : Underway(c, pc[c], r)'
    <3>1. PICK turn : turn = pc[c]
      OBVIOUS
    <3>2. Underway(c, turn, row)'
      BY <1>1, <1>6, <2>2, <3>1, AppliedStays
    <3>3. RowsAt(c, pc[c])' = RowsAt(c, pc[c])
      BY <1>1, <1>6 DEF RowsAt
    <3>4. QED
      BY <1>6, <2>2, <3>1, <3>2, <3>3
  <2>3. pc[c] \in {"settlingHit", "settling"} \/ ("mongo" \notin faults /\ pc[c] # "gone") =>
          \E r \in RowsAt(c, pc[c])' : Underway(c, pc[c], r)'
    BY <1>4, <2>2
  <2>4. QED
    BY <1>1, <1>2, <1>3, <1>6, <2>1, <2>3 DEF Evidenced, Later
<1>7. CASE /\ w.turn # pc[c] /\ pc' = pc
           /\ "mongo" \in faults \/ pc[c] = "gone" \/ (w.store = "audit" /\ audit[c] # NoRow)
  <2>1. Reserved(c)'
    BY <1>1, <1>7 DEF Reserved
  <2>2. ~(pc[c] \in {"settlingHit", "settling"} \/ ("mongo" \notin faults /\ pc[c] # "gone"))
    BY <1>4, <1>5, <1>7
  <2>3. QED
    BY <1>1, <1>2, <1>7, <2>1, <2>2 DEF Evidenced, Later
<1>8. CASE /\ w.turn = pc[c] /\ pc'[c] = IF pc[c] = "settling" THEN "catch" ELSE "failed"
           /\ "mongo" \in faults \/ pc[c] = "gone" \/ (w.store = "audit" /\ audit[c] # NoRow)
  <2>1. pc[c] \in Turns
    BY <1>8 DEF TypeOK
  <2>2. "mongo" \in faults
    BY <1>4, <1>5, <1>8, <2>1 DEF Turns
  <2>3. Reserved(c)'
    BY <1>1, <1>8, <2>1, <2>2 DEF Reserved, Turns, HoldsWhen, Failing
  <2>4. QED
    BY <1>1, <1>8, <2>2, <2>3 DEF Evidenced, Sure
<1>9. QED
  BY <1>6, <1>7, <1>8, LandIs

\* Both writes were acknowledged.
LEMMA SettledKeeps ==
  ASSUME TypeOK, NEW c \in Calls, Reserved(c), Evidenced(c), Settled(c)
  PROVE  Reserved(c)' /\ Evidenced(c)' /\ Alone(c) /\ UNCHANGED <<scenario, book, hold, actual, writes, audit, events>>
<1>1. PICK turn, final :
        /\ Go(c, turn, final)
        /\ \/ turn = "settlingHit" /\ final = "answered"
           \/ turn = "settling" /\ final = "answered"
           \/ turn = "settlingPartial" /\ final = "partial"
           \/ turn = "settlingFailure" /\ final = "failed"
  BY DEF Settled
<1>2. /\ UNCHANGED <<scenario, up, book, hold, actual, text, units, writes, audit, events>>
      /\ \A w \in writes : ~(w.call = c /\ w.turn = turn)
  BY <1>1 DEF Settled, ledgerVars, recordVars, Go
<1>3. pc[c] = turn /\ pc'[c] = final /\ Alone(c) /\ faults' = faults /\ KindOf' = KindOf
  BY <1>1, <1>2 DEF Go, Alone, TypeOK, faults, KindOf
<1>4. Reserved(c)'
  BY <1>1, <1>2, <1>3 DEF Reserved, HoldsWhen, Failing
<1>5. ASSUME NEW row, Underway(c, turn, row), NEW t PROVE WritesOf(c)' = {} /\ Underway(c, t, row)'
  <2>1. \A s : Write(c, s, turn, row).turn = turn /\ Write(c, s, t, row).call = c
    BY DEF Write
  <2>2. WritesOf(c) = {} /\ WritesOf(c)' = {}
    BY <1>2, <1>5, <2>1 DEF Underway, WritesOf
  <2>3. \A s : Write(c, s, t, row) \notin writes /\ Write(c, s, turn, row) \notin writes
    <3>1. \A s : Write(c, s, turn, row).call = c
      BY DEF Write
    <3>2. QED
      BY <2>1, <2>2, <3>1 DEF WritesOf
  <2>4. events[c] = {row} /\ audit[c] = IF KindOf[c] = "embeddings" THEN NoRow ELSE row
    BY <1>5, <2>3 DEF Underway
  <2>5. QED
    BY <1>2, <1>3, <2>2, <2>3, <2>4 DEF Underway
<1>6. RowsAt(c, final)' = RowsAt(c, turn)
  BY <1>1, <1>2 DEF RowsAt, StatusAt
<1>7. turn \in {"settlingHit", "settling"} \/ "mongo" \notin faults =>
        \E row \in RowsAt(c, final)' : WritesOf(c)' = {} /\ \A t : Underway(c, t, row)'
  BY <1>1, <1>3, <1>5, <1>6 DEF Evidenced
<1>8. Evidenced(c)'
  BY <1>1, <1>3, <1>7 DEF Evidenced, Sure, Later
<1>9. QED
  BY <1>2, <1>3, <1>4, <1>8

-----------------------------------------------------------------------------
\* The calls, all of them.

LEMMA AloneLeaves ==
  ASSUME TypeOK, NEW c \in Calls, Alone(c), NEW d \in Calls, d # c
  PROVE  pc'[d] = pc[d] /\ text'[d] = text[d] /\ hold'[d] = hold[d] /\ actual'[d] = actual[d] /\ units'[d] = units[d]
BY DEF Alone, TypeOK

LEMMA StepIs ==
  ASSUME NEW c \in Calls, Step(c) \/ Leave(c) \/ Crash(c)
  PROVE  Working(c) \/ Settling(c) \/ Settled(c) \/ \E w \in writes : w.call = c /\ Land(w)
BY DEF Step, Working, Settling

LEMMA CallsStep ==
  ASSUME TypeOK, \A c \in Calls : Reserved(c) /\ Evidenced(c), [Next]_vars
  PROVE  \A c \in Calls : Reserved(c)' /\ Evidenced(c)'
<1>1. ASSUME NEW c \in Calls, Step(c) \/ Leave(c) \/ Crash(c)
      PROVE  \A d \in Calls : Reserved(d)' /\ Evidenced(d)'
  <2>1. Reserved(c) /\ Evidenced(c)
    OBVIOUS
  <2>2. ASSUME Alone(c), UNCHANGED scenario, Reserved(c)' /\ Evidenced(c)', NEW d \in Calls, d # c,
               audit'[d] = audit[d], events'[d] = events[d], WritesOf(d)' = WritesOf(d)
        PROVE  Reserved(d)' /\ Evidenced(d)'
    <3>1. Same(d)
      BY <2>2, AloneLeaves DEF Same
    <3>2. QED
      BY <2>2, <3>1, SameKeeps
  <2>3. ASSUME Alone(c), UNCHANGED <<scenario, audit, events>>, Reserved(c)' /\ Evidenced(c)', writes \subseteq writes',
               \A w \in writes' : w \in writes \/ w.call = c
        PROVE  \A d \in Calls : Reserved(d)' /\ Evidenced(d)'
    <3>1. SUFFICES ASSUME NEW d \in Calls, d # c PROVE Reserved(d)' /\ Evidenced(d)'
      BY <2>3
    <3>2. WritesOf(d)' = WritesOf(d)
      BY <2>3, <3>1 DEF WritesOf
    <3>3. QED
      BY <2>2, <2>3, <3>1, <3>2
  <2>4. CASE Working(c)
    <3>1. Works(c) /\ Reserved(c)'
      BY <2>1, <2>4, WorkingWorks
    <3>2. Evidenced(c)'
      BY <2>1, <3>1, WorksKeepEvidence
    <3>3. Alone(c) /\ UNCHANGED <<scenario, writes, audit, events>>
      BY <3>1 DEF Works
    <3>4. QED
      BY <2>3, <3>1, <3>2, <3>3
  <2>5. CASE Settling(c)
    BY <2>1, <2>3, <2>5, SettlingKeeps
  <2>6. CASE Settled(c)
    BY <2>1, <2>3, <2>6, SettledKeeps
  <2>7. ASSUME NEW w \in writes, w.call = c, Land(w) PROVE \A d \in Calls : Reserved(d)' /\ Evidenced(d)'
    <3>1. Reserved(c)' /\ Evidenced(c)'
      BY <2>1, <2>7, LandKeeps
    <3>2. Alone(c) /\ UNCHANGED scenario /\ writes' = writes \ {w}
      BY <2>1, <2>7, LandIs
    <3>3. SUFFICES ASSUME NEW d \in Calls, d # c PROVE Reserved(d)' /\ Evidenced(d)'
      BY <3>1
    <3>4. WritesOf(d)' = WritesOf(d)
      BY <2>7, <3>2, <3>3 DEF WritesOf
    <3>5. audit'[d] = audit[d] /\ events'[d] = events[d]
      <4>1. CASE Apply(w)
        BY <2>7, <3>3, <4>1 DEF Apply, TypeOK
      <4>2. CASE UNCHANGED <<audit, events>>
        BY <4>2
      <4>3. QED
        BY <2>7, <4>1, <4>2 DEF Land
    <3>6. QED
      BY <2>2, <3>1, <3>2, <3>3, <3>4, <3>5
  <2>8. QED
    BY <1>1, <2>4, <2>5, <2>6, <2>7, StepIs
<1>2. ASSUME UNCHANGED <<scenario, pc, text, hold, actual, units, writes, audit, events>>, NEW d \in Calls
      PROVE  Reserved(d)' /\ Evidenced(d)'
  <2>1. Same(d)
    BY <1>2 DEF Same, WritesOf
  <2>2. QED
    BY <1>2, <2>1, SameKeeps
<1>3. CASE Connection
  BY <1>2, <1>3 DEF Connection, recordVars
<1>4. CASE Rest \/ UNCHANGED vars
  BY <1>2, <1>4 DEF Rest, vars
<1>5. QED
  BY <1>1, <1>3, <1>4 DEF Next

-----------------------------------------------------------------------------
\* The types.

LEMMA ScriptsKeepBooks ==
  ASSUME book \in Books, NEW e \in Nat, NEW n \in Nat
  PROVE  ReserveScript(book, e) \in Books /\ CommitScript(book, e, n) \in Books /\ ReleaseScript(book, e) \in Books
BY DEF Books, ReserveScript, CommitScript, ReleaseScript, Clamped

LEMMA RowIsRow ==
  ASSUME NEW s \in {"completed", "partial", "failed"}, NEW n \in Nat, NEW u \in BOOLEAN,
         NEW t \in {"none", "raw", "redacted"}
  PROVE  [status |-> s, cost |-> n, unverified |-> u, captured |-> t] \in Rows
BY DEF Rows

Cacheable == {<<PromptOf[c], t>> : c \in Calls, t \in {"raw", "redacted"}}

\* The types of what one call keeps, and of the rest.
CallTypes ==
  /\ pc \in [Calls -> Labels]
  /\ text \in [Calls -> {"none", "raw", "redacted"}]
  /\ hold \in [Calls -> Holds]
  /\ actual \in [Calls -> Nat]
  /\ units \in [Calls -> 0 .. MaxUnits]

SharedTypes == scenario \in Scenarios /\ up \in BOOLEAN /\ cache \subseteq Cacheable /\ at \in [Calls -> Deployments]

RecordTypes ==
  /\ writes \subseteq [call : Calls, store : {"audit", "usage"}, turn : Turns, row : Rows]
  /\ audit \in [Calls -> Rows \cup {NoRow}]
  /\ events \in [Calls -> SUBSET Rows]

LEMMA TypesParted ==
  /\ TypeOK <=> CallTypes /\ SharedTypes /\ RecordTypes /\ book \in Books
  /\ TypeOK' <=> CallTypes' /\ SharedTypes' /\ RecordTypes' /\ book' \in Books
BY DEF TypeOK, CallTypes, SharedTypes, RecordTypes, Cacheable

LEMMA AloneTypes ==
  ASSUME CallTypes, NEW c \in Calls, Alone(c), pc'[c] \in Labels, hold'[c] \in Holds,
         text'[c] \in {"none", "raw", "redacted"}, actual'[c] \in Nat, units'[c] \in 0 .. MaxUnits
  PROVE  CallTypes'
<1>1. ASSUME NEW S, NEW f \in [Calls -> S], NEW v \in S PROVE [f EXCEPT ![c] = v] \in [Calls -> S]
  OBVIOUS
<1>2. pc' \in [Calls -> Labels]
  BY DEF CallTypes, Alone
<1>3. hold' \in [Calls -> Holds]
  BY DEF CallTypes, Alone
<1>4. text' \in [Calls -> {"none", "raw", "redacted"}]
  BY <1>1 DEF CallTypes, Alone
<1>5. actual' \in [Calls -> Nat]
  BY DEF CallTypes, Alone
<1>6. units' \in [Calls -> 0 .. MaxUnits]
  BY <1>1 DEF CallTypes, Alone
<1>7. QED
  BY <1>2, <1>3, <1>4, <1>5, <1>6 DEF CallTypes

LEMMA WorkingTypes ==
  ASSUME TypeOK, NEW c \in Calls, Reserved(c), Working(c)
  PROVE  TypeOK'
<1>1. CallTypes /\ SharedTypes /\ RecordTypes /\ book \in Books
  BY TypesParted
<1>2. Works(c) /\ Reserved(c)'
  BY WorkingWorks
<1>3. Alone(c) /\ UNCHANGED <<scenario, writes, audit, events>>
  BY <1>2 DEF Works
<1>4. pc'[c] \in Labels /\ hold'[c] \in Holds
  <2>1. pc'[c] \in Labels
    BY <1>2 DEF Works, Moves, Sure, Later, Labels, Finals
  <2>2. HoldsWhen(pc'[c]) \subseteq Holds
    BY <2>1 DEF HoldsWhen, Holds, Labels, Finals, Turns
  <2>3. QED
    BY <1>2, <2>1, <2>2 DEF Reserved
<1>5. text'[c] \in {"none", "raw", "redacted"}
  <2>1. text[c] \in {"none", "raw", "redacted"}
    BY <1>1 DEF CallTypes
  <2>2. CASE Prepare(c)
    BY <1>1, <2>1, <2>2 DEF Prepare, GuardedTexts, CallTypes
  <2>3. CASE UNCHANGED text
    BY <2>1, <2>3
  <2>4. QED
    BY <2>2, <2>3 DEF Working, Lookup, Reserve, Answer, OpenStream, Failover, Chunk, StreamEnds,
      CommitAnswer, Commit, Store, Salvage, Compensate, Release, Leave, Crash
<1>6. units'[c] \in 0 .. MaxUnits
  <2>1. units[c] \in 0 .. MaxUnits /\ MaxUnits \in Nat \ {0}
    BY <1>1, Given DEF CallTypes
  <2>2. CASE Answer(c)
    BY <1>1, <2>1, <2>2 DEF Answer, CallTypes
  <2>3. CASE OpenStream(c)
    BY <1>1, <2>1, <2>3 DEF OpenStream, CallTypes
  <2>4. CASE Chunk(c)
    BY <1>1, <2>1, <2>4 DEF Chunk, CallTypes
  <2>5. CASE UNCHANGED units
    BY <2>1, <2>5
  <2>6. QED
    BY <2>2, <2>3, <2>4, <2>5 DEF Working, Prepare, Lookup, Reserve, Failover, StreamEnds,
      CommitAnswer, Commit, Store, Salvage, Compensate, Release, Leave, Crash
<1>7. SharedTypes'
  <2>1. CASE Failover(c)
    <3>1. at[c] \in Deployments /\ Len(Prices) \in Nat
      BY <1>1, Given DEF SharedTypes
    <3>2. at[c] < Len(Prices) => at[c] + 1 \in Deployments
      BY <3>1 DEF Deployments
    <3>3. at' \in [Calls -> Deployments]
      BY <1>1, <2>1, <3>2 DEF Failover, SharedTypes
    <3>4. QED
      BY <1>1, <2>1, <3>3 DEF Failover, SharedTypes, ledgerVars
  <2>2. CASE Store(c)
    <3>1. text[c] \in {"raw", "redacted"}
      BY <1>1, <2>2 DEF Store, Go, Reserved, CallTypes
    <3>2. cache' \subseteq Cacheable
      <4>1. <<PromptOf[c], text[c]>> \in Cacheable
        BY <3>1 DEF Cacheable
      <4>2. QED
        BY <1>1, <2>2, <4>1 DEF Store, SharedTypes
    <3>3. QED
      BY <1>1, <2>2, <3>2 DEF Store, SharedTypes, ledgerVars
  <2>3. CASE UNCHANGED <<up, cache, at>>
    BY <1>1, <1>3, <2>3 DEF SharedTypes
  <2>4. QED
    BY <2>1, <2>2, <2>3 DEF Working, Prepare, Lookup, Reserve, Answer, OpenStream, Chunk, StreamEnds,
      CommitAnswer, Commit, Salvage, Compensate, Release, Leave, Crash, ledgerVars
<1>8. actual'[c] \in Nat /\ book' \in Books
  <2>1. actual[c] \in Nat /\ Estimate \in Nat /\ CostOf(c) \in Nat
    BY <1>1, EstimateIsNat, CostIsNat DEF CallTypes
  <2>2. ReserveScript(book, Estimate) \in Books /\ ReleaseScript(book, Estimate) \in Books
        /\ CommitScript(book, Estimate, CostOf(c)) \in Books
    BY <1>1, <2>1, ScriptsKeepBooks
  <2>3. CASE Reserve(c)
    BY <1>1, <2>1, <2>2, <2>3 DEF Reserve
  <2>4. ASSUME NEW cost, cost = CostOf(c), NEW from, NEW next, NEW thrown, Commit(c, cost, from, next, thrown)
        PROVE  actual'[c] \in Nat /\ book' \in Books
    <3>1. book' = book \/ book' = CommitScript(book, Estimate, cost)
      BY <2>4 DEF Commit
    <3>2. actual' = actual \/ actual' = [actual EXCEPT ![c] = cost]
      BY <2>4 DEF Commit
    <3>3. QED
      BY <1>1, <2>1, <2>2, <2>4, <3>1, <3>2 DEF CallTypes
  <2>5. CASE CommitAnswer(c) \/ Salvage(c)
    <3>1. PICK cost, from, next, thrown : cost = CostOf(c) /\ Commit(c, cost, from, next, thrown)
      BY <2>5 DEF CommitAnswer, Salvage
    <3>2. QED
      BY <2>4, <3>1
  <2>6. CASE Compensate(c)
    BY <1>1, <2>1, <2>2, <2>6 DEF Compensate, Release
  <2>7. CASE UNCHANGED <<actual, book>>
    BY <1>1, <2>1, <2>7
  <2>8. QED
    BY <2>3, <2>5, <2>6, <2>7 DEF Working, Prepare, Lookup, Answer, OpenStream, Chunk, StreamEnds,
      Failover, Store, Leave, Crash, ledgerVars
<1>9. CallTypes'
  BY <1>1, <1>3, <1>4, <1>5, <1>6, <1>8, AloneTypes
<1>10. RecordTypes'
  BY <1>1, <1>3 DEF RecordTypes
<1>11. QED
  BY <1>7, <1>8, <1>9, <1>10, TypesParted

LEMMA TypesStep ==
  ASSUME TypeOK, \A c \in Calls : Reserved(c) /\ Evidenced(c), [Next]_vars
  PROVE  TypeOK'
<1>1. CallTypes /\ SharedTypes /\ RecordTypes /\ book \in Books
  BY TypesParted
<1>2. ASSUME NEW c \in Calls, Step(c) \/ Leave(c) \/ Crash(c) PROVE TypeOK'
  <2>1. CASE Working(c)
    BY <2>1, WorkingTypes
  <2>2. ASSUME NEW from, NEW turn \in Turns, NEW status \in {"completed", "partial", "failed"}, NEW cost \in Nat,
               Settle(c, from, turn, status, cost)
        PROVE  TypeOK'
    <3>1. PICK row \in Rows :
            writes' = writes \cup {[call |-> c, store |-> s, turn |-> turn, row |-> row] : s \in Stores(c)}
      <4>1. up \in BOOLEAN /\ text[c] \in {"none", "raw", "redacted"}
        BY <1>1 DEF SharedTypes, CallTypes
      <4>2. PICK u \in BOOLEAN, k \in {"none", "raw", "redacted"} :
              u = ~up /\ k = IF Capture THEN text[c] ELSE "none"
        BY <4>1
      <4>3. [status |-> status, cost |-> cost, unverified |-> u, captured |-> k] \in Rows
        BY RowIsRow
      <4>4. QED
        BY <2>2, <4>2, <4>3 DEF Settle
    <3>2. RecordTypes'
      <4>1. Stores(c) \subseteq {"audit", "usage"}
        BY DEF Stores
      <4>2. QED
        BY <1>1, <2>2, <3>1, <4>1 DEF RecordTypes, Settle
    <3>3. pc'[c] \in Labels /\ Alone(c) /\ UNCHANGED <<scenario, up, book, cache, at, hold, actual, text, units>>
      <4>1. pc'[c] = turn /\ Alone(c) /\ UNCHANGED <<scenario, up, book, hold, actual, text, units>>
        BY <2>2, SettleIs
      <4>2. UNCHANGED <<cache, at>>
        BY <2>2 DEF Settle
      <4>3. QED
        BY <4>1, <4>2 DEF Labels
    <3>4. CallTypes'
      BY <1>1, <3>3 DEF CallTypes, Alone
    <3>5. QED
      BY <1>1, <3>2, <3>3, <3>4, TypesParted DEF SharedTypes
  <2>3. CASE Settling(c)
    <3>1. actual[c] \in Nat
      BY <1>1 DEF CallTypes
    <3>2. "settlingHit" \in Turns /\ "settling" \in Turns /\ "settlingPartial" \in Turns /\ "settlingFailure" \in Turns
      BY DEF Turns
    <3>3. CASE SettleHit(c)
      BY <2>2, <3>2, <3>3 DEF SettleHit
    <3>4. CASE SettleAnswer(c)
      BY <2>2, <3>1, <3>2, <3>4 DEF SettleAnswer
    <3>5. CASE SettlePartial(c)
      BY <2>2, <3>1, <3>2, <3>5 DEF SettlePartial
    <3>6. CASE SettleFailure(c)
      BY <2>2, <3>2, <3>6 DEF SettleFailure
    <3>7. QED
      BY <2>3, <3>3, <3>4, <3>5, <3>6 DEF Settling
  <2>4. CASE Settled(c)
    <3>1. pc' \in [Calls -> Labels]
      <4>1. PICK final \in Finals : pc' = [pc EXCEPT ![c] = final]
        BY <2>4 DEF Settled, Go, Finals
      <4>2. QED
        BY <1>1, <4>1 DEF CallTypes, Labels
    <3>2. UNCHANGED <<scenario, up, book, cache, text, hold, actual, at, units, writes, audit, events>>
      BY <2>4 DEF Settled, ledgerVars, recordVars
    <3>3. QED
      BY <1>1, <3>1, <3>2, TypesParted DEF CallTypes, SharedTypes, RecordTypes
  <2>5. ASSUME NEW w \in writes, w.call = c, Land(w) PROVE TypeOK'
    <3>1. UNCHANGED <<scenario, up, book, cache, text, hold, actual, at, units>> /\ writes' = writes \ {w}
      BY <2>5 DEF Land, ledgerVars
    <3>2. w.row \in Rows /\ w.call \in Calls
      BY <1>1 DEF RecordTypes
    <3>3. audit' \in [Calls -> Rows \cup {NoRow}] /\ events' \in [Calls -> SUBSET Rows]
      <4>1. CASE Apply(w)
        BY <1>1, <3>2, <4>1 DEF Apply, RecordTypes
      <4>2. CASE UNCHANGED <<audit, events>>
        BY <1>1, <4>2 DEF RecordTypes
      <4>3. QED
        BY <2>5, <4>1, <4>2 DEF Land
    <3>4. pc' \in [Calls -> Labels]
      <4>1. "catch" \in Labels /\ "failed" \in Labels
        BY DEF Labels, Finals
      <4>2. CASE OnReject(w)
        BY <1>1, <3>2, <4>1, <4>2 DEF OnReject, CallTypes
      <4>3. QED
        BY <1>1, <2>5, <4>2 DEF Land, CallTypes
    <3>5. QED
      BY <1>1, <3>1, <3>3, <3>4, TypesParted DEF CallTypes, SharedTypes, RecordTypes
  <2>6. QED
    BY <1>2, <2>1, <2>3, <2>4, <2>5, StepIs
<1>3. CASE Connection
  BY <1>1, <1>3, TypesParted DEF Connection, CallTypes, SharedTypes, RecordTypes, recordVars
<1>4. CASE Rest \/ UNCHANGED vars
  BY <1>1, <1>4, TypesParted DEF Rest, vars, ledgerVars, recordVars, CallTypes, SharedTypes, RecordTypes
<1>5. QED
  BY <1>2, <1>3, <1>4 DEF Next

-----------------------------------------------------------------------------
\* What a step does to the ledger, while no script runs twice.

Turned(c, from, to) == hold[c] = from /\ hold' = [hold EXCEPT ![c] = to]

\* Nothing that the counters know of.
Untouched ==
  /\ UNCHANGED <<hold, book>>
  /\ \A d \in Calls : hold[d] # "unverified" => actual'[d] = actual[d]

Planned(c)   == Turned(c, "idle", "planned") /\ UNCHANGED <<book, actual>>
Unheard(c)   == UNCHANGED <<book, actual>> /\ (Turned(c, "planned", "unverified") \/ Turned(c, "planned", "failed"))
Denied(c)    == Turned(c, "planned", "refused") /\ Refuses(book, Estimate, Limit, BlockAtLimit) /\ UNCHANGED <<book, actual>>
Admitted(c)  == /\ Turned(c, "planned", "held") /\ ~Refuses(book, Estimate, Limit, BlockAtLimit)
                /\ book' = ReserveScript(book, Estimate) /\ UNCHANGED actual
Charged(c)   == /\ Turned(c, "held", "committed") /\ actual' = [actual EXCEPT ![c] = CostOf(c)] /\ CostOf(c) \in RealCosts
                /\ book' = CommitScript(book, Estimate, CostOf(c))
GivenBack(c) == Turned(c, "held", "released") /\ book' = ReleaseScript(book, Estimate) /\ UNCHANGED actual

Booked(c) == Planned(c) \/ Unheard(c) \/ Denied(c) \/ Admitted(c) \/ Charged(c) \/ GivenBack(c)

LEMMA CostIsReal ==
  ASSUME TypeOK, NEW c \in Calls, units[c] >= 1
  PROVE  CostOf(c) \in RealCosts
<1>1. at[c] \in Deployments /\ units[c] \in 1 .. MaxUnits
  BY Given DEF TypeOK
<1>2. QED
  BY <1>1 DEF CostOf, RealCosts

LEMMA CommitBooks ==
  ASSUME TypeOK, CommitsOnce, NEW c \in Calls, NEW from, NEW next, NEW thrown,
         Commit(c, CostOf(c), from, next, thrown), units[c] >= 1, hold[c] \in {"unverified", "held"}
  PROVE  UNCHANGED scenario /\ (Untouched \/ Booked(c))
<1>1. PICK cost \in Nat : cost = CostOf(c)
  BY CostIsNat
<1>2. /\ Alone(c) /\ UNCHANGED scenario
      /\ \/ hold[c] = "unverified" /\ UNCHANGED <<book, hold>>
         \/ /\ hold[c] # "unverified" /\ hold'[c] = "committed" /\ actual'[c] = cost
            /\ book' = CommitScript(book, Estimate, cost)
         \/ UNCHANGED <<hold, actual>> /\ (book' = book \/ "lostReply" \in faults)
  BY <1>1, CommitIs
<1>3. "lostReply" \notin faults
  BY DEF CommitsOnce
<1>4. CASE hold[c] = "unverified" /\ UNCHANGED <<book, hold>>
  <2>1. \A d \in Calls : d # c => actual'[d] = actual[d]
    BY <1>2, AloneLeaves
  <2>2. QED
    BY <1>2, <1>4, <2>1 DEF Untouched
<1>5. CASE /\ hold[c] # "unverified" /\ hold'[c] = "committed" /\ actual'[c] = cost
           /\ book' = CommitScript(book, Estimate, cost)
  <2>1. Turned(c, "held", "committed") /\ actual' = [actual EXCEPT ![c] = cost]
    BY <1>2, <1>5 DEF Turned, Alone
  <2>2. CostOf(c) \in RealCosts
    BY CostIsReal
  <2>3. Charged(c)
    BY <1>1, <1>5, <2>1, <2>2 DEF Charged
  <2>4. QED
    BY <1>2, <2>3 DEF Booked
<1>6. CASE UNCHANGED <<hold, actual>> /\ book' = book
  BY <1>2, <1>6 DEF Untouched
<1>7. QED
  BY <1>2, <1>3, <1>4, <1>5, <1>6

LEMMA LedgerMoves ==
  ASSUME TypeOK, \A c \in Calls : Reserved(c) /\ Evidenced(c), CommitsOnce, [Next]_vars
  PROVE  UNCHANGED scenario /\ (Untouched \/ \E c \in Calls : Booked(c))
<1>1. "lostReply" \notin faults /\ ("mongo" \in faults => \A c \in Calls : KindOf[c] # "stream")
  BY DEF CommitsOnce
<1>2. ASSUME NEW c \in Calls, Working(c) PROVE UNCHANGED scenario /\ (Untouched \/ Booked(c))
  <2>1. hold \in [Calls -> Holds]
    BY DEF TypeOK
  <2>2. CASE Prepare(c)
    <3>1. hold[c] = "idle" /\ UNCHANGED <<scenario, book, actual>>
      BY <2>2 DEF Prepare, Go, Reserved, HoldsWhen
    <3>2. hold' = hold \/ hold' = [hold EXCEPT ![c] = "planned"]
      BY <2>2 DEF Prepare, Holding
    <3>3. QED
      BY <3>1, <3>2 DEF Untouched, Booked, Planned, Turned
  <2>3. CASE Reserve(c)
    <3>1. hold[c] = "planned" /\ UNCHANGED <<scenario, actual>>
      BY <2>3 DEF Reserve, Go, Reserved, HoldsWhen
    <3>2. \/ hold' = [hold EXCEPT ![c] = "unverified"] /\ book' = book
          \/ /\ hold' = [hold EXCEPT ![c] = "held"] /\ ~Refuses(book, Estimate, Limit, BlockAtLimit)
             /\ book' = ReserveScript(book, Estimate)
          \/ hold' = [hold EXCEPT ![c] = "refused"] /\ Refuses(book, Estimate, Limit, BlockAtLimit) /\ book' = book
          \/ hold' = [hold EXCEPT ![c] = "failed"] /\ book' = book
      BY <1>1, <2>3 DEF Reserve, Holding, EvalUnheard
    <3>3. QED
      BY <3>1, <3>2 DEF Booked, Unheard, Denied, Admitted, Turned
  <2>4. CASE CommitAnswer(c)
    <3>1. PICK next : Commit(c, CostOf(c), "finishing", next, "catch")
      BY <2>4 DEF CommitAnswer
    <3>2. pc[c] = "finishing"
      BY <3>1 DEF Commit, Go
    <3>3. units[c] >= 1 /\ hold[c] \in {"unverified", "held"}
      BY <3>2 DEF Reserved, HoldsWhen
    <3>4. QED
      BY <3>1, <3>3, CommitBooks
  <2>5. CASE Salvage(c)
    <3>1. Commit(c, CostOf(c), "catch", "salvaged", "failed") /\ KindOf[c] = "stream" /\ units[c] > 1
      BY <2>5 DEF Salvage, Emitted
    <3>2. pc[c] = "catch"
      BY <3>1 DEF Commit, Go
    <3>3. hold[c] \in {"unverified", "held"}
      BY <1>1, <3>1, <3>2 DEF Reserved, HoldsWhen, Failing
    <3>4. units[c] >= 1
      BY <3>1 DEF TypeOK
    <3>5. QED
      BY <3>1, <3>3, <3>4, CommitBooks
  <2>6. CASE Compensate(c)
    <3>1. PICK next : Release(c, "catch", next, "failed")
      BY <2>6 DEF Compensate
    <3>2. /\ Alone(c) /\ UNCHANGED <<scenario, actual>> /\ pc[c] = "catch"
          /\ \/ UNCHANGED <<book, hold>>
             \/ hold[c] \notin {"unverified", "committed"} /\ hold'[c] = "released" /\ book' = ReleaseScript(book, Estimate)
      BY <1>1, <3>1, ReleaseIs DEF Moves
    <3>3. hold[c] \in {"unverified", "held", "committed"}
      BY <3>2 DEF Reserved, HoldsWhen
    <3>4. QED
      BY <3>2, <3>3 DEF Untouched, Booked, GivenBack, Turned, Alone
  <2>7. CASE UNCHANGED <<scenario, hold, book, actual>>
    BY <2>7 DEF Untouched
  <2>8. QED
    BY <1>2, <2>2, <2>3, <2>4, <2>5, <2>6, <2>7 DEF Working, Lookup, Answer, OpenStream, Failover, Chunk,
      StreamEnds, Store, Leave, Crash, ledgerVars
<1>3. ASSUME NEW c \in Calls, Step(c) \/ Leave(c) \/ Crash(c) PROVE UNCHANGED scenario /\ (Untouched \/ Booked(c))
  <2>1. CASE Settling(c)
    BY <2>1, SettlingKeeps DEF Untouched
  <2>2. CASE Settled(c)
    BY <2>2, SettledKeeps DEF Untouched
  <2>3. CASE \E w \in writes : w.call = c /\ Land(w)
    BY <2>3, LandIs DEF Untouched
  <2>4. QED
    BY <1>2, <1>3, <2>1, <2>2, <2>3, StepIs
<1>4. CASE Connection \/ Rest \/ UNCHANGED vars
  BY <1>4 DEF Connection, Rest, vars, ledgerVars, Untouched
<1>5. QED
  BY <1>3, <1>4 DEF Next

\* Two sizes of a product.
LEMMA OneMore == \A e, n \in Nat : e * (n + 1) = e * n + e
OBVIOUS

LEMMA Sizes ==
  ASSUME TypeOK
  PROVE  /\ IsFiniteSet(Paid) /\ IsFiniteSet(Held) /\ Cardinality(Held) \in Nat
         /\ \A c \in Paid : actual[c] \in Nat
<1>1. IsFiniteSet(Calls) /\ Paid \subseteq Calls /\ Held \subseteq Calls
  BY Given DEF Paid, Held
<1>2. QED
  BY <1>1, FS_Subset, FS_CardinalityType DEF TypeOK, Paid

LEMMA HeldGrows ==
  ASSUME TypeOK, NEW c \in Calls, c \notin Held
  PROVE  Estimate * Cardinality(Held \cup {c}) = Estimate * Cardinality(Held) + Estimate
<1>1. PICK n \in Nat : n = Cardinality(Held)
  BY Sizes
<1>2. Cardinality(Held \cup {c}) = n + 1
  BY <1>1, Sizes, FS_AddElement
<1>3. QED
  BY <1>1, <1>2, EstimateIsNat, OneMore

LEMMA HeldShrinks ==
  ASSUME TypeOK, NEW c \in Held
  PROVE  /\ Estimate * Cardinality(Held) = Estimate * Cardinality(Held \ {c}) + Estimate
         /\ Estimate * Cardinality(Held \ {c}) \in Nat
<1>1. IsFiniteSet(Held \ {c}) /\ Cardinality(Held \ {c}) = Cardinality(Held) - 1
  BY Sizes, FS_RemoveElement
<1>2. PICK n \in Nat : n = Cardinality(Held \ {c})
  BY <1>1, FS_CardinalityType
<1>3. Cardinality(Held) = n + 1
  BY <1>1, <1>2, Sizes
<1>4. QED
  BY <1>2, <1>3, EstimateIsNat, OneMore, Products

LEMMA ScenarioKept ==
  ASSUME [Next]_vars
  PROVE  UNCHANGED scenario /\ (CommitsOnce' <=> CommitsOnce)
<1>1. ASSUME NEW c \in Calls, Step(c) \/ Leave(c) \/ Crash(c) PROVE UNCHANGED scenario
  <2>1. CASE Working(c)
    BY <2>1 DEF Working, Prepare, Lookup, Reserve, Answer, OpenStream, Failover, Chunk, StreamEnds,
      CommitAnswer, Commit, Store, Salvage, Compensate, Release, Leave, Crash
  <2>2. CASE Settling(c) \/ Settled(c) \/ \E w \in writes : w.call = c /\ Land(w)
    BY <2>2 DEF Settling, SettleHit, SettleAnswer, SettlePartial, SettleFailure, Settle, Settled, Land
  <2>3. QED
    BY <1>1, <2>1, <2>2, StepIs
<1>2. UNCHANGED scenario
  BY <1>1 DEF Next, Connection, Rest, vars
<1>3. QED
  BY <1>2 DEF CommitsOnce, faults, KindOf

LEMMA CountedStep ==
  ASSUME SagaInv, [Next]_vars
  PROVE  Counted'
<1>1. SUFFICES ASSUME CommitsOnce'
               PROVE  book'.spent = SumOver(Paid', actual') /\ book'.reserved = Estimate * Cardinality(Held')
  BY DEF Counted
<1>2. /\ TypeOK /\ CommitsOnce /\ book \in Books /\ hold \in [Calls -> Holds] /\ actual \in [Calls -> Nat]
      /\ book.spent = SumOver(Paid, actual) /\ book.reserved = Estimate * Cardinality(Held)
  BY <1>1, ScenarioKept DEF SagaInv, Counted, TypeOK
<1>3. CASE Untouched
  <2>1. Paid' = Paid /\ Held' = Held /\ book' = book /\ \A c \in Paid : actual'[c] = actual[c]
    BY <1>3 DEF Untouched, Paid, Held
  <2>2. SumOver(Paid, actual') = SumOver(Paid, actual)
    BY <2>1, SumCongruence
  <2>3. QED
    BY <1>2, <2>1, <2>2
<1>4. ASSUME NEW c \in Calls, NEW from, from \notin {"held", "committed"}, NEW to, to \notin {"held", "committed"},
             Turned(c, from, to), UNCHANGED <<book, actual>>
      PROVE  book'.spent = SumOver(Paid', actual') /\ book'.reserved = Estimate * Cardinality(Held')
  <2>1. Paid' = Paid /\ Held' = Held
    BY <1>2, <1>4 DEF Turned, Paid, Held
  <2>2. QED
    BY <1>2, <1>4, <2>1
<1>5. ASSUME NEW c \in Calls, Admitted(c)
      PROVE  book'.spent = SumOver(Paid', actual') /\ book'.reserved = Estimate * Cardinality(Held')
  <2>1. Paid' = Paid /\ Held' = Held \cup {c} /\ c \notin Held /\ actual' = actual
    BY <1>2, <1>5 DEF Admitted, Turned, Paid, Held
  <2>2. book'.spent = book.spent /\ book'.reserved = book.reserved + Estimate
    BY <1>2, <1>5 DEF Admitted, ReserveScript, Books
  <2>3. QED
    BY <1>2, <2>1, <2>2, HeldGrows
<1>6. ASSUME NEW c \in Calls, Turned(c, "held", "committed") \/ Turned(c, "held", "released")
      PROVE  /\ c \in Held /\ Held' = Held \ {c}
             /\ Clamped(book.reserved - Estimate) = Estimate * Cardinality(Held')
  <2>1. c \in Held /\ Held' = Held \ {c}
    BY <1>2, <1>6 DEF Turned, Held
  <2>2. PICK n \in Nat : n = Estimate * Cardinality(Held \ {c}) /\ Estimate * Cardinality(Held) = n + Estimate
    BY <1>2, <2>1, HeldShrinks
  <2>3. Clamped(book.reserved - Estimate) = n
    BY <1>2, <2>2, EstimateIsNat DEF Clamped
  <2>4. QED
    BY <2>1, <2>2, <2>3
<1>7. ASSUME NEW c \in Calls, GivenBack(c)
      PROVE  book'.spent = SumOver(Paid', actual') /\ book'.reserved = Estimate * Cardinality(Held')
  <2>1. Paid' = Paid /\ actual' = actual
    BY <1>2, <1>7 DEF GivenBack, Turned, Paid
  <2>2. book'.spent = book.spent /\ book'.reserved = Clamped(book.reserved - Estimate)
    BY <1>2, <1>7 DEF GivenBack, ReleaseScript, Books
  <2>3. Clamped(book.reserved - Estimate) = Estimate * Cardinality(Held')
    BY <1>6, <1>7 DEF GivenBack
  <2>4. QED
    BY <1>2, <2>1, <2>2, <2>3
<1>8. ASSUME NEW c \in Calls, Charged(c)
      PROVE  book'.spent = SumOver(Paid', actual') /\ book'.reserved = Estimate * Cardinality(Held')
  <2>1. PICK cost \in Nat : cost = CostOf(c)
    BY <1>2, CostIsNat
  <2>2. /\ hold' = [hold EXCEPT ![c] = "committed"] /\ hold[c] = "held" /\ actual' = [actual EXCEPT ![c] = cost]
        /\ book' = CommitScript(book, Estimate, cost)
    BY <1>8, <2>1 DEF Charged, Turned
  <2>3. Paid' = Paid \cup {c} /\ c \notin Paid
    BY <1>2, <2>2 DEF Paid
  <2>4. actual'[c] = cost /\ \A d \in Paid : actual'[d] = actual[d]
    BY <1>2, <2>2, <2>3 DEF Paid
  <2>5. IsFiniteSet(Paid) /\ \A d \in Paid \cup {c} : actual'[d] \in Nat
    BY <1>2, <2>1, <2>4, Sizes
  <2>6. SumOver(Paid \cup {c}, actual') = SumOver(Paid, actual') + actual'[c]
    BY <2>3, <2>5, SumAdd
  <2>7. SumOver(Paid, actual') = SumOver(Paid, actual)
    BY <2>4, SumCongruence
  <2>8. book'.spent = book.spent + cost /\ book'.reserved = Clamped(book.reserved - Estimate)
    BY <2>2 DEF CommitScript
  <2>9. Clamped(book.reserved - Estimate) = Estimate * Cardinality(Held')
    BY <1>6, <1>8 DEF Charged
  <2>10. QED
    BY <1>2, <2>3, <2>4, <2>6, <2>7, <2>8, <2>9
<1>9. QED
  <2>1. CASE \E c \in Calls : Booked(c)
    <3>1. PICK c \in Calls : Booked(c)
      BY <2>1
    <3>2. CASE Planned(c) \/ Unheard(c) \/ Denied(c)
      BY <1>4, <3>2 DEF Planned, Unheard, Denied
    <3>3. QED
      BY <1>5, <1>7, <1>8, <3>1, <3>2 DEF Booked
  <2>2. QED
    BY <1>2, <1>3, <2>1, LedgerMoves DEF SagaInv

-----------------------------------------------------------------------------

LEMMA SagaStart ==
  ASSUME Init
  PROVE  SagaInv
<1>1. TypeOK
  <2>1. "start" \in Labels /\ "idle" \in Holds /\ EmptyBook \in Books /\ 0 \in 0 .. MaxUnits
    BY Given DEF Labels, Holds, EmptyBook, Books
  <2>2. CallTypes
    BY <2>1 DEF Init, CallTypes
  <2>3. SharedTypes /\ RecordTypes
    BY Given DEF Init, SharedTypes, RecordTypes
  <2>4. QED
    BY <2>1, <2>2, <2>3, TypesParted DEF Init
<1>2. ASSUME NEW c \in Calls PROVE Reserved(c) /\ Evidenced(c)
  <2>1. pc[c] = "start" /\ hold[c] = "idle" /\ actual[c] = 0
    BY DEF Init
  <2>2. Reserved(c)
    BY <2>1 DEF Reserved, HoldsWhen, Failing
  <2>3. Fresh(c)
    BY DEF Init, Fresh, WritesOf
  <2>4. QED
    BY <2>1, <2>2, <2>3 DEF Evidenced, Later
<1>3. Counted
  <2>1. Paid = {} /\ Held = {} /\ book.spent = 0 /\ book.reserved = 0
    BY DEF Init, Paid, Held, EmptyBook
  <2>2. SumOver({}, actual) = 0 /\ Cardinality({}) = 0 /\ Estimate * 0 = 0
    BY SumEmpty, FS_EmptySet, EstimateIsNat
  <2>3. QED
    BY <2>1, <2>2 DEF Counted
<1>4. QED
  BY <1>1, <1>2, <1>3 DEF SagaInv

LEMMA SagaStep ==
  ASSUME SagaInv, [Next]_vars
  PROVE  SagaInv'
<1>1. TypeOK /\ \A c \in Calls : Reserved(c) /\ Evidenced(c)
  BY DEF SagaInv
<1>2. TypeOK'
  BY <1>1, TypesStep
<1>3. \A c \in Calls : Reserved(c)' /\ Evidenced(c)'
  BY <1>1, CallsStep
<1>4. QED
  BY <1>2, <1>3, CountedStep DEF SagaInv

\* Every call is where its handler takes it to be, with what that handler has reserved,
\* recorded and answered by then, and the ledger's counters are the sums over the calls,
\* whatever fails and whoever dies (create-chat-completion.ts:109-240).
THEOREM SagaHolds == Spec => []SagaInv
BY SagaStart, SagaStep, PTL DEF Spec

\* CountersExplained: whatever fails between reserving and settling, the two
\* counters are what the reservation objects say.
THEOREM CountersStayExplained == Spec => []CountersExplained
<1>1. SagaInv => CountersExplained
  BY DEF SagaInv, Counted, Paid, Held, CountersExplained
<1>2. QED
  BY <1>1, SagaHolds, PTL

\* AnsweredIsAccounted: an answered call left both records, of the cost its
\* reservation was committed with.
THEOREM AnswersStayAccounted == Spec => []AnsweredIsAccounted
<1>1. ASSUME SagaInv PROVE AnsweredIsAccounted
  <2>1. SUFFICES ASSUME NEW c \in Calls, pc[c] = "answered"
                 PROVE  /\ hold[c] # "held"
                        /\ KindOf[c] # "embeddings" =>
                             audit[c].status = "completed" /\ audit[c].cost = actual[c]
                        /\ \E row \in events[c] : row.status = "completed" /\ row.cost = actual[c]
    BY DEF AnsweredIsAccounted
  <2>2. hold[c] # "held"
    BY <1>1, <2>1 DEF SagaInv, Reserved, HoldsWhen
  <2>3. PICK row \in RowsAt(c, "answered") : WritesOf(c) = {} /\ Underway(c, "settling", row)
    BY <1>1, <2>1 DEF SagaInv, Evidenced
  <2>4. row.status = "completed" /\ row.cost = actual[c]
    BY <2>3 DEF RowsAt, StatusAt
  <2>5. \A s : Write(c, s, "settling", row) \notin writes
    BY <2>3 DEF WritesOf, Write
  <2>6. events[c] = {row} /\ (KindOf[c] # "embeddings" => audit[c] = row)
    BY <2>3, <2>5 DEF Underway
  <2>7. QED
    BY <2>2, <2>4, <2>6
<1>2. QED
  BY <1>1, SagaHolds, PTL

\* Members that count for nothing can be left out of a sum.
LEMMA SumOfSome ==
  ASSUME NEW C, NEW D, D \subseteq C, NEW f, \A c \in C \ D : f[c] = 0
  PROVE  SumOver(C, f) = SumOver(D, f)
<1>1. \A c \in C \ D : UnitsOf(c, f) = {}
  BY DEF UnitsOf
<1>2. Units(C, f) = Units(D, f)
  BY <1>1 DEF Units
<1>3. QED
  BY <1>2, SumIs

LEMMA RecordedOnce ==
  ASSUME NEW c, NEW row, row.cost \in Nat
  PROVE  /\ events[c] = {} => RecordedCost(c) = 0
         /\ events[c] = {row} => RecordedCost(c) = row.cost
<1>1. ASSUME events[c] = {} PROVE RecordedCost(c) = 0
  BY <1>1, SumEmpty DEF RecordedCost
<1>2. ASSUME events[c] = {row} PROVE RecordedCost(c) = row.cost
  <2>1. PICK f : f = [r \in events[c] |-> r.cost]
    OBVIOUS
  <2>2. f[row] = row.cost /\ IsFiniteSet({}) /\ \A d \in {} \cup {row} : f[d] \in Nat
    BY <1>2, <2>1, FS_EmptySet
  <2>3. SumOver({} \cup {row}, f) = SumOver({}, f) + f[row]
    BY <2>2, SumAdd
  <2>4. SumOver({}, f) = 0
    BY SumEmpty
  <2>5. SumOver({row}, f) = row.cost
    BY <2>2, <2>3, <2>4
  <2>6. QED
    BY <1>2, <2>1, <2>5 DEF RecordedCost
<1>3. QED
  BY <1>1, <1>2

\* UsageMatchesLedger: at rest, the usage events of the verified calls add up
\* to what the ledger has spent.
THEOREM UsageStaysMatched == Spec => []UsageMatchesLedger
<1>1. ASSUME SagaInv PROVE UsageMatchesLedger
  <2> DEFINE verified == {c \in Calls : hold[c] # "unverified"}
             owed == [c \in verified |-> IF pc[c] = "gone" THEN actual[c] ELSE RecordedCost(c)]
  <2>1. SUFFICES ASSUME AllDone, CommitsOnce, "mongo" \notin faults
                 PROVE  book.spent = SumOver(verified, owed)
    BY DEF UsageMatchesLedger
  <2>2. book.spent = SumOver(Paid, actual) /\ CallTypes
    BY <1>1, <2>1, TypesParted DEF SagaInv, Counted
  <2>3. ASSUME NEW c \in Calls, hold[c] \notin {"committed", "unverified"} PROVE actual[c] = 0
    BY <1>1, <2>3 DEF SagaInv, Reserved
  <2>4. ASSUME NEW c \in verified PROVE owed[c] = actual[c]
    <3>1. c \in Calls /\ hold[c] # "unverified" /\ actual[c] \in Nat /\ Reserved(c) /\ Evidenced(c)
      BY <1>1, <2>2 DEF SagaInv, CallTypes
    <3>2. pc[c] \in Finals /\ writes = {}
      BY <2>1, <3>1 DEF AllDone
    <3>3. CASE pc[c] = "gone"
      BY <3>3
    <3>4. ASSUME NEW turn, NEW label, NEW row \in RowsAt(c, label), label \in {"answered", "partial", "failed"},
                 Underway(c, turn, row), label = "failed" => actual[c] = 0
          PROVE  RecordedCost(c) = actual[c]
      <4>1. row.cost = actual[c]
        BY <3>4 DEF RowsAt, StatusAt
      <4>2. events[c] = {row}
        BY <3>2, <3>4 DEF Underway
      <4>3. QED
        BY <3>1, <4>1, <4>2, RecordedOnce
    <3>5. CASE pc[c] = "answered" \/ pc[c] = "partial"
      <4>1. \E turn : \E row \in RowsAt(c, pc[c]) : Underway(c, turn, row)
        BY <2>1, <3>1, <3>5 DEF Evidenced
      <4>2. RecordedCost(c) = actual[c]
        BY <3>4, <3>5, <4>1
      <4>3. QED
        BY <3>5, <4>2
    <3>6. ASSUME actual[c] = 0, Fresh(c) PROVE RecordedCost(c) = actual[c]
      <4>1. PICK row : row = NoRow
        OBVIOUS
      <4>2. row.cost \in Nat /\ events[c] = {}
        BY <3>6, <4>1 DEF NoRow, Fresh
      <4>3. QED
        BY <3>6, <4>2, RecordedOnce
    <3>7. CASE pc[c] \in {"failed", "refused", "rejected"}
      <4>1. actual[c] = 0
        BY <2>1, <2>3, <3>1, <3>7 DEF Reserved, HoldsWhen, Failing
      <4>2. CASE Fresh(c)
        BY <3>6, <3>7, <4>1, <4>2
      <4>3. CASE ~Fresh(c)
        <5>1. pc[c] = "failed" /\ \E row \in RowsAt(c, "failed") : Underway(c, "failed", row)
          BY <2>1, <3>1, <3>7, <4>3 DEF Evidenced, Sure
        <5>2. RecordedCost(c) = actual[c]
          BY <3>4, <4>1, <5>1
        <5>3. QED
          BY <5>1, <5>2
      <4>4. QED
        BY <4>2, <4>3
    <3>8. QED
      BY <3>2, <3>3, <3>5, <3>7 DEF Finals
  <2>5. SumOver(verified, owed) = SumOver(verified, actual)
    BY <2>4, SumCongruence
  <2>6. Paid \subseteq verified /\ \A c \in verified \ Paid : actual[c] = 0
    BY <2>3 DEF Paid
  <2>7. SumOver(verified, actual) = SumOver(Paid, actual)
    BY <2>6, SumOfSome
  <2>8. QED
    BY <2>2, <2>5, <2>7
<1>2. QED
  BY <1>1, SagaHolds, PTL

-----------------------------------------------------------------------------
\* The refinement: every step of the saga is a step of BudgetPromise, or one
\* that the promise does not see.

LEMMA PromiseSums == \A C, f : Promise!SumOver(C, f) = SumOver(C, f)
BY DEF SumOver

\* A constant sum is a product.
LEMMA SumOfSame ==
  ASSUME NEW C, IsFiniteSet(C), NEW e \in Nat, NEW f, \A c \in C : f[c] = e
  PROVE  SumOver(C, f) = Cardinality(C) * e
<1>1. Units(C, f) = C \X (1 .. e)
  BY DEF Units, UnitsOf
<1>2. IsFiniteSet(1 .. e) /\ Cardinality(1 .. e) = e
  BY FS_Interval
<1>3. Cardinality(C \X (1 .. e)) = Cardinality(C) * Cardinality(1 .. e)
  BY <1>2, FS_Product
<1>4. QED
  BY <1>1, <1>2, <1>3, SumIs

LEMMA Commutes == \A m, n \in Nat : m * n = n * m
OBVIOUS

\* What the script compares is what the promise compares.
LEMMA PromiseOccupied ==
  ASSUME SagaInv, CommitsOnce
  PROVE  Promise!Occupied(1) = Exposure(book)
<1>1. /\ TypeOK /\ hold \in [Calls -> Holds] /\ book.spent = SumOver(Paid, actual)
      /\ book.reserved = Estimate * Cardinality(Held)
  BY DEF SagaInv, Counted, TypeOK
<1>2. PICK paid, estimate : /\ paid = [c \in Calls |-> IF hold[c] = "committed" THEN actual[c] ELSE 0]
                            /\ estimate = [c \in Calls |-> Estimate]
  OBVIOUS
<1>3. Promise!Charged(1) = Paid
  BY <1>1 DEF Promise!Charged, Paid
<1>4. Promise!Occupying(1) = Held
  BY <1>1 DEF Promise!Occupying, Held, Holds
<1>5. Promise!PaidTotal(1) = SumOver(Paid, paid)
  BY <1>2, <1>3, PromiseSums DEF Promise!PaidTotal
<1>6. SumOver(Paid, paid) = SumOver(Paid, actual)
  <2>1. \A c \in Paid : paid[c] = actual[c]
    BY <1>2 DEF Paid
  <2>2. QED
    BY <2>1, SumCongruence
<1>7. Promise!HeldTotal(1) = SumOver(Held, estimate)
  BY <1>2, <1>4, PromiseSums DEF Promise!HeldTotal
<1>8. SumOver(Held, estimate) = Estimate * Cardinality(Held)
  <2>1. PICK e \in Nat : e = Estimate
    BY EstimateIsNat
  <2>2. IsFiniteSet(Held) /\ Cardinality(Held) \in Nat /\ \A c \in Held : estimate[c] = e
    BY <1>1, <1>2, <2>1, Sizes DEF Held
  <2>3. SumOver(Held, estimate) = Cardinality(Held) * e
    BY <2>2, SumOfSame
  <2>4. QED
    BY <2>1, <2>2, <2>3, Commutes
<1>9. QED
  BY <1>1, <1>5, <1>6, <1>7, <1>8 DEF Promise!Occupied, Exposure

LEMMA PromiseStarts ==
  ASSUME Init
  PROVE  Promise!PromiseInit
<1>1. \A c \in Calls : hold[c] = "idle"
  BY DEF Init
<1>2. QED
  BY <1>1 DEF Init, Promise!PromiseInit

LEMMA PromiseMoves ==
  ASSUME SagaInv, CommitsOnce, [Next]_vars
  PROVE  [Promise!PromiseNext]_(Promise!promiseVars)
<1>1. TypeOK /\ hold \in [Calls -> Holds] /\ actual \in [Calls -> Nat] /\ \A c \in Calls : Reserved(c) /\ Evidenced(c)
  BY DEF SagaInv, TypeOK
<1> DEFINE Key(h) == [c \in Calls |-> IF h[c] = "idle" THEN 0 ELSE 1]
           PaidOf(h, a) == [c \in Calls |-> IF h[c] = "committed" THEN a[c] ELSE 0]
\* A reservation that has been planned and has not been committed moves.
<1>2. ASSUME NEW c \in Calls, NEW from, from \notin {"idle", "committed"}, NEW to, to \notin {"idle", "committed"},
             Turned(c, from, to), UNCHANGED actual
      PROVE  Key(hold') = Key(hold) /\ PaidOf(hold', actual') = PaidOf(hold, actual) /\ Promise!Move(c, from, to)
  <2>1. \A d \in Calls : hold'[d] = IF d = c THEN to ELSE hold[d]
    BY <1>1, <1>2 DEF Turned
  <2>2. QED
    BY <1>2, <2>1 DEF Turned, Promise!Move
<1>3. CASE Untouched
  <2>1. Key(hold') = Key(hold) /\ PaidOf(hold', actual') = PaidOf(hold, actual) /\ hold' = hold
    BY <1>3 DEF Untouched
  <2>2. QED
    BY <2>1 DEF Promise!promiseVars
<1>4. ASSUME NEW c \in Calls, Planned(c) PROVE Promise!Plan(c)
  <2>1. hold' = [hold EXCEPT ![c] = "planned"] /\ hold[c] = "idle" /\ actual' = actual
    BY <1>4 DEF Planned, Turned
  <2>2. \A d \in Calls : hold'[d] = IF d = c THEN "planned" ELSE hold[d]
    BY <1>1, <2>1
  <2>3. Key(hold') = [Key(hold) EXCEPT ![c] = 1]
    BY <2>2
  <2>4. PaidOf(hold', actual') = PaidOf(hold, actual)
    BY <2>1, <2>2
  <2>5. QED
    BY <2>1, <2>3, <2>4 DEF Promise!Plan, Promise!Move
<1>5. ASSUME NEW c \in Calls, Unheard(c) PROVE Promise!Unanswered(c)
  BY <1>2, <1>5 DEF Unheard, Promise!Unanswered
<1>6. ASSUME NEW c \in Calls, Denied(c) PROVE Promise!Deny(c)
  <2>1. BlockAtLimit /\ Promise!Overflows(c)
    BY <1>6, PromiseOccupied DEF Denied, Refuses, Promise!Overflows
  <2>2. QED
    BY <1>2, <1>6, <2>1 DEF Denied, Promise!Deny
<1>7. ASSUME NEW c \in Calls, Admitted(c) PROVE Promise!Admit(c)
  <2>1. BlockAtLimit => ~Promise!Overflows(c)
    BY <1>7, PromiseOccupied DEF Admitted, Refuses, Promise!Overflows
  <2>2. QED
    BY <1>2, <1>7, <2>1 DEF Admitted, Promise!Admit
<1>8. ASSUME NEW c \in Calls, GivenBack(c) PROVE Promise!GiveBack(c)
  BY <1>2, <1>8 DEF GivenBack, Promise!GiveBack
<1>9. ASSUME NEW c \in Calls, Charged(c) PROVE Promise!Pay(c)
  <2>1. PICK cost \in Nat : cost = CostOf(c) /\ cost \in RealCosts
    BY <1>1, <1>9, CostIsNat DEF Charged
  <2>2. hold' = [hold EXCEPT ![c] = "committed"] /\ hold[c] = "held" /\ actual' = [actual EXCEPT ![c] = cost]
    BY <1>9, <2>1 DEF Charged, Turned
  <2>3. /\ \A d \in Calls : hold'[d] = IF d = c THEN "committed" ELSE hold[d]
        /\ \A d \in Calls : actual'[d] = IF d = c THEN cost ELSE actual[d]
    BY <1>1, <2>2
  <2>4. Key(hold') = Key(hold)
    BY <2>2, <2>3
  <2>5. PaidOf(hold', actual') = [PaidOf(hold, actual) EXCEPT ![c] = cost]
    BY <2>3
  <2>6. QED
    BY <2>1, <2>2, <2>4, <2>5 DEF Promise!Pay, Promise!Move
<1>10. CASE \E c \in Calls : Booked(c)
  BY <1>4, <1>5, <1>6, <1>7, <1>8, <1>9, <1>10 DEF Booked, Promise!PromiseNext
<1>11. QED
  BY <1>1, <1>3, <1>10, LedgerMoves

\* SagaKeepsPromise: as long as no script runs twice for one call, the saga
\* implements what the ledger promises to the router: each call is admitted or
\* refused exactly, and pays or gives back at most once.
THEOREM SagaRefinesPromise == Spec /\ CommitsOnce => SagaKeepsPromise
<1>1. Init => Promise!PromiseInit
  BY PromiseStarts
<1>2. SagaInv /\ CommitsOnce /\ [Next]_vars => CommitsOnce' /\ [Promise!PromiseNext]_(Promise!promiseVars)
  BY ScenarioKept, PromiseMoves
<1>3. QED
  BY <1>1, <1>2, SagaHolds, PTL DEF Spec, SagaKeepsPromise, Promise!PromiseSpec
=============================================================================
