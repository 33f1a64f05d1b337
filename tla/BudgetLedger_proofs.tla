------------------------- MODULE BudgetLedger_proofs ------------------------
(***************************************************************************)
(* After the laws of sums, the promise: the lemmas say how each kind of step moves its two   *)
(* totals, and the theorem that it implies the limit.  Then the ledger:    *)
(* the two Redis counters tell the truth about the running period, so the  *)
(* ledger implements the promise, and with it the limit.                   *)
(***************************************************************************)
EXTENDS BudgetLedger, FiniteSetTheorems, TLAPS

-----------------------------------------------------------------------------
\* Sums

\* The units of one member number its value.
LEMMA UnitsOfMember ==
  ASSUME NEW c, NEW f, f[c] \in Nat
  PROVE  /\ IsFiniteSet(UnitsOf(c, f))
         /\ Cardinality(UnitsOf(c, f)) = f[c]
<1>1. IsFiniteSet({c}) /\ Cardinality({c}) = 1
  BY FS_Singleton
<1>2. IsFiniteSet(1 .. f[c]) /\ Cardinality(1 .. f[c]) = f[c]
  BY FS_Interval
<1>3. /\ IsFiniteSet({c} \X (1 .. f[c]))
      /\ Cardinality({c} \X (1 .. f[c])) = Cardinality({c}) * Cardinality(1 .. f[c])
  BY <1>1, <1>2, FS_Product
<1>4. Cardinality({c}) * Cardinality(1 .. f[c]) = f[c]
  BY <1>1, <1>2
<1>5. QED
  BY <1>3, <1>4 DEF UnitsOf

\* A finite set of members has finitely many units, so a sum is a natural.
LEMMA SumNat ==
  ASSUME NEW C, IsFiniteSet(C), NEW f, \A c \in C : f[c] \in Nat
  PROVE  /\ IsFiniteSet(Units(C, f))
         /\ SumOver(C, f) \in Nat
<1> DEFINE T == {UnitsOf(c, f) : c \in C}
           g == [c \in C |-> UnitsOf(c, f)]
<1>1. g \in Surjection(C, T)
  BY DEF Surjection, IsInjective
<1>2. IsFiniteSet(T)
  BY <1>1, FS_Surjection
<1>3. \A S \in T : IsFiniteSet(S)
  BY UnitsOfMember
<1>4. IsFiniteSet(UNION T)
  BY <1>2, <1>3, FS_UNION
<1>5. QED
  BY <1>4, FS_CardinalityType DEF Units, SumOver

\* The empty sum.
LEMMA SumEmpty ==
  ASSUME NEW f
  PROVE  SumOver({}, f) = 0
BY FS_EmptySet DEF SumOver, Units

\* A sum depends on the values of its members only.
LEMMA SumCongruence ==
  ASSUME NEW C, NEW f, NEW g, \A c \in C : f[c] = g[c]
  PROVE  SumOver(C, f) = SumOver(C, g)
<1>1. \A c \in C : UnitsOf(c, f) = UnitsOf(c, g)
  BY DEF UnitsOf
<1>2. Units(C, f) = Units(C, g)
  BY <1>1 DEF Units
<1>3. QED
  BY <1>2 DEF SumOver

\* One more member adds its value.
LEMMA SumAdd ==
  ASSUME NEW C, IsFiniteSet(C), NEW f, NEW x, x \notin C,
         \A c \in C \cup {x} : f[c] \in Nat
  PROVE  SumOver(C \cup {x}, f) = SumOver(C, f) + f[x]
<1>1. Units(C \cup {x}, f) = Units(C, f) \cup UnitsOf(x, f)
  BY DEF Units
<1>2. Units(C, f) \cap UnitsOf(x, f) = {}
  BY DEF Units, UnitsOf
<1>3. IsFiniteSet(Units(C, f)) /\ Cardinality(Units(C, f)) \in Nat
  BY SumNat DEF SumOver
<1>4. IsFiniteSet(UnitsOf(x, f)) /\ Cardinality(UnitsOf(x, f)) = f[x]
  BY UnitsOfMember
<1>5. Cardinality(Units(C, f) \cup UnitsOf(x, f))
        = Cardinality(Units(C, f)) + Cardinality(UnitsOf(x, f)) - Cardinality(Units(C, f) \cap UnitsOf(x, f))
  BY <1>3, <1>4, FS_Union, Zenon
<1>6. Cardinality(Units(C, f) \cap UnitsOf(x, f)) = 0
  BY <1>2, FS_EmptySet
<1>7. Cardinality(Units(C, f) \cup UnitsOf(x, f)) = Cardinality(Units(C, f)) + f[x]
  <2>1. f[x] \in Nat
    OBVIOUS
  <2>2. QED
    BY <1>3, <1>4, <1>5, <1>6, <2>1
<1>8. QED
  BY <1>1, <1>7 DEF SumOver

\* One member less takes its value away.
LEMMA SumRemove ==
  ASSUME NEW C, IsFiniteSet(C), NEW f, NEW x \in C,
         \A c \in C : f[c] \in Nat
  PROVE  /\ SumOver(C \ {x}, f) = SumOver(C, f) - f[x]
         /\ f[x] <= SumOver(C, f)
<1> DEFINE D == C \ {x}
<1>1. IsFiniteSet(D)
  BY FS_RemoveElement
<1>2. D \cup {x} = C /\ x \notin D
  OBVIOUS
<1>3. \A c \in D \cup {x} : f[c] \in Nat
  BY <1>2
<1>4. SumOver(D, f) \in Nat /\ f[x] \in Nat
  BY <1>1, <1>3, SumNat
<1> HIDE DEF D
<1>5. SumOver(D \cup {x}, f) = SumOver(D, f) + f[x]
  BY <1>1, <1>2, <1>3, SumAdd
<1>6. SumOver(C, f) = SumOver(D, f) + f[x]
  BY <1>2, <1>5
<1>7. SumOver(D, f) = SumOver(C, f) - f[x] /\ f[x] <= SumOver(C, f)
  BY <1>4, <1>6
<1>8. QED
  BY <1>7 DEF D

-----------------------------------------------------------------------------
\* The promise

\* The totals are sums over finite sets of naturals.
LEMMA TotalsNat ==
  ASSUME PromiseTypeOK
  PROVE  \A p : /\ IsFiniteSet(Occupying(p))
                /\ IsFiniteSet(Charged(p))
                /\ HeldTotal(p) \in Nat
                /\ PaidTotal(p) \in Nat
<1> TAKE p
<1>1. IsFiniteSet(Occupying(p)) /\ IsFiniteSet(Charged(p))
  BY CallsAssumption, FS_Subset DEF Occupying, Charged
<1>2. HeldTotal(p) \in Nat
  BY <1>1, SumNat, MoneyAssumption DEF HeldTotal, Occupying
<1>3. PaidTotal(p) \in Nat
  BY <1>1, SumNat DEF PaidTotal, Charged, PromiseTypeOK
<1>4. QED
  BY <1>1, <1>2, <1>3

\* A step that leaves the occupying and the charged calls alone, and what the
\* charged ones paid, moves no total.
LEMMA TotalsUnmoved ==
  ASSUME NEW p,
         Occupying(p)' = Occupying(p), Charged(p)' = Charged(p),
         \A c \in Charged(p) : paid'[c] = paid[c]
  PROVE  HeldTotal(p)' = HeldTotal(p) /\ PaidTotal(p)' = PaidTotal(p)
<1>1. HeldTotal(p)' = HeldTotal(p)
  BY DEF HeldTotal
<1>2. SumOver(Charged(p), paid') = SumOver(Charged(p), paid)
  BY SumCongruence
<1>3. QED
  BY <1>1, <1>2 DEF PaidTotal

\* Planning, refusing, failing, serving unverified and abandoning move nothing.
LEMMA QuietTotals ==
  ASSUME PromiseTypeOK, NEW c \in Calls, NEW from, NEW to,
         Move(c, from, to),
         \/ from = "held" /\ to = "stranded"
         \/ {from, to} \cap {"held", "stranded", "committed"} = {},
         \/ key' = key
         \/ from # "held" /\ key' = [key EXCEPT ![c] = period],
         paid' = paid
  PROVE  \A p : HeldTotal(p)' = HeldTotal(p) /\ PaidTotal(p)' = PaidTotal(p)
<1> TAKE p
<1>1. phase' = [phase EXCEPT ![c] = to] /\ phase[c] = from
  BY DEF Move
<1>2. \A d \in Calls : d # c => phase'[d] = phase[d] /\ key'[d] = key[d]
  BY <1>1 DEF PromiseTypeOK
<1>3. phase'[c] = to
  BY <1>1 DEF PromiseTypeOK
<1>4. Occupying(p)' = Occupying(p)
  BY <1>1, <1>2, <1>3 DEF Occupying
<1>5. Charged(p)' = Charged(p)
  BY <1>1, <1>2, <1>3 DEF Charged
<1>6. QED
  BY <1>4, <1>5, TotalsUnmoved

\* An admitted call adds its estimate to its own period, and nowhere else.
LEMMA AdmitTotals ==
  ASSUME PromiseTypeOK, NEW c \in Calls,
         Move(c, "planned", "held"), key' = key, paid' = paid
  PROVE  \A p : /\ HeldTotal(p)' = IF p = key[c] THEN HeldTotal(p) + Estimate[c]
                                               ELSE HeldTotal(p)
                /\ PaidTotal(p)' = PaidTotal(p)
<1> TAKE p
<1>1. phase' = [phase EXCEPT ![c] = "held"] /\ phase[c] = "planned"
  BY DEF Move
<1>2. \A d \in Calls : phase'[d] = IF d = c THEN "held" ELSE phase[d]
  BY <1>1 DEF PromiseTypeOK
<1>3. Charged(p)' = Charged(p)
  BY <1>1, <1>2 DEF Charged
<1>4. CASE p = key[c]
  <2>1. Occupying(p)' = Occupying(p) \cup {c}
    BY <1>1, <1>2, <1>4 DEF Occupying
  <2>2. c \notin Occupying(p)
    BY <1>1 DEF Occupying
  <2>3. \A d \in Occupying(p) \cup {c} : Estimate[d] \in Nat
    BY MoneyAssumption DEF Occupying
  <2>4. SumOver(Occupying(p) \cup {c}, Estimate) = SumOver(Occupying(p), Estimate) + Estimate[c]
    BY <2>2, <2>3, TotalsNat, SumAdd
  <2>5. QED
    BY <1>3, <1>4, <2>1, <2>4 DEF HeldTotal, PaidTotal
<1>5. CASE p # key[c]
  <2>1. Occupying(p)' = Occupying(p)
    BY <1>1, <1>2, <1>5 DEF Occupying
  <2>2. QED
    BY <1>3, <1>5, <2>1 DEF HeldTotal, PaidTotal
<1>6. QED
  BY <1>4, <1>5

\* A held call that settles takes its estimate out of its period.
LEMMA SettleHeld ==
  ASSUME PromiseTypeOK, NEW c \in Calls, NEW to \in {"committed", "released"},
         Move(c, "held", to), key' = key
  PROVE  /\ \A p : HeldTotal(p)' = IF p = key[c] THEN HeldTotal(p) - Estimate[c]
                                                 ELSE HeldTotal(p)
         /\ Estimate[c] <= HeldTotal(key[c])
<1>1. phase' = [phase EXCEPT ![c] = to] /\ phase[c] = "held"
  BY DEF Move
<1>2. \A d \in Calls : phase'[d] = IF d = c THEN to ELSE phase[d]
  BY <1>1 DEF PromiseTypeOK
<1>3. c \in Occupying(key[c]) /\ \A d \in Occupying(key[c]) : Estimate[d] \in Nat
  BY <1>1, MoneyAssumption DEF Occupying
<1>4. /\ SumOver(Occupying(key[c]) \ {c}, Estimate)
            = SumOver(Occupying(key[c]), Estimate) - Estimate[c]
      /\ Estimate[c] <= SumOver(Occupying(key[c]), Estimate)
  BY <1>3, TotalsNat, SumRemove
<1>5. Occupying(key[c])' = Occupying(key[c]) \ {c}
  BY <1>2 DEF Occupying
<1>6. \A p : p # key[c] => Occupying(p)' = Occupying(p)
  BY <1>1, <1>2 DEF Occupying
<1>7. \A p : HeldTotal(p)' = IF p = key[c] THEN HeldTotal(p) - Estimate[c] ELSE HeldTotal(p)
  BY <1>4, <1>5, <1>6 DEF HeldTotal
<1>8. QED
  BY <1>4, <1>7 DEF HeldTotal

\* A commit adds the real cost to what its period was charged.
LEMMA PayTotals ==
  ASSUME PromiseTypeOK, NEW c \in Calls, NEW actual \in Nat,
         Move(c, "held", "committed"), key' = key,
         paid' = [paid EXCEPT ![c] = actual]
  PROVE  \A p : PaidTotal(p)' = IF p = key[c] THEN PaidTotal(p) + actual
                                             ELSE PaidTotal(p)
<1> TAKE p
<1>1. phase' = [phase EXCEPT ![c] = "committed"] /\ phase[c] = "held"
  BY DEF Move
<1>2. \A d \in Calls : phase'[d] = IF d = c THEN "committed" ELSE phase[d]
  BY <1>1 DEF PromiseTypeOK
<1>3. c \notin Charged(p) /\ IsFiniteSet(Charged(p))
  BY <1>1, TotalsNat DEF Charged
<1>4. paid'[c] = actual /\ \A d \in Charged(p) : paid'[d] = paid[d] /\ paid'[d] \in Nat
  BY <1>3 DEF Charged, PromiseTypeOK
<1>5. SumOver(Charged(p), paid') = SumOver(Charged(p), paid)
  BY <1>4, SumCongruence
<1>6. CASE p = key[c]
  <2>1. Charged(p)' = Charged(p) \cup {c}
    BY <1>1, <1>2, <1>6 DEF Charged
  <2>2. \A d \in Charged(p) \cup {c} : paid'[d] \in Nat
    BY <1>4
  <2>3. ASSUME NEW f, \A d \in Charged(p) \cup {c} : f[d] \in Nat
        PROVE  SumOver(Charged(p) \cup {c}, f) = SumOver(Charged(p), f) + f[c]
    BY <1>3, <2>3, SumAdd
  <2>4. SumOver(Charged(p) \cup {c}, paid') = SumOver(Charged(p), paid') + paid'[c]
    BY <2>2, <2>3
  <2>5. QED
    BY <1>4, <1>5, <1>6, <2>1, <2>4 DEF PaidTotal
<1>7. CASE p # key[c]
  <2>1. Charged(p)' = Charged(p)
    BY <1>1, <1>2, <1>7 DEF Charged
  <2>2. QED
    BY <1>5, <1>7, <2>1 DEF PaidTotal
<1>8. QED
  BY <1>6, <1>7

\* A release charges nobody.
LEMMA GiveBackTotals ==
  ASSUME PromiseTypeOK, NEW c \in Calls,
         Move(c, "held", "released"), key' = key, paid' = paid
  PROVE  \A p : PaidTotal(p)' = PaidTotal(p)
<1> TAKE p
<1>1. \A d \in Calls : phase'[d] = IF d = c THEN "released" ELSE phase[d]
  BY DEF Move, PromiseTypeOK
<1>2. Charged(p)' = Charged(p)
  BY <1>1 DEF Move, Charged
<1>3. QED
  BY <1>2 DEF PaidTotal

-----------------------------------------------------------------------------

\* Every state is well typed.
THEOREM PromiseTypeCorrect == PromiseSpec => []PromiseTypeOK
<1>1. PromiseInit => PromiseTypeOK
  BY PeriodAssumption DEF PromiseInit, PromiseTypeOK, Periods, Phases
<1>2. PromiseTypeOK /\ [PromiseNext]_promiseVars => PromiseTypeOK'
  <2> SUFFICES ASSUME PromiseTypeOK, [PromiseNext]_promiseVars
               PROVE  PromiseTypeOK'
    OBVIOUS
  <2> USE DEF PromiseTypeOK, Phases
  <2>1. CASE NextPeriod
    BY <2>1, PeriodAssumption DEF NextPeriod, Periods
  <2>2. ASSUME NEW c \in Calls, Plan(c) PROVE PromiseTypeOK'
    BY <2>2, PeriodAssumption DEF Plan, Move, Periods
  <2>3. ASSUME NEW c \in Calls, Pay(c) PROVE PromiseTypeOK'
    BY <2>3, MoneyAssumption DEF Pay, Move
  <2>4. ASSUME NEW c \in Calls,
               Admit(c) \/ Deny(c) \/ Unanswered(c) \/ GiveBack(c) \/ Abandon(c)
        PROVE  PromiseTypeOK'
    BY <2>4 DEF Admit, Deny, Unanswered, GiveBack, Abandon, Move
  <2>5. CASE UNCHANGED promiseVars
    BY <2>5 DEF promiseVars
  <2>6. QED
    BY <2>1, <2>2, <2>3, <2>4, <2>5 DEF PromiseNext
<1>3. QED
  BY <1>1, <1>2, PTL DEF PromiseSpec

\* No call is accounted in a period that has not begun: with it, a period
\* starts with nothing paid and nothing occupied.
KeysBegun == \A c \in Calls : phase[c] # "idle" => key[c] \in 1 .. period

LimitInv == PromiseTypeOK /\ KeysBegun /\ LimitRespected

\* A period nobody planned under is empty.
LEMMA EmptyPeriod ==
  ASSUME NEW p, \A c \in Calls : phase[c] # "idle" => key[c] # p
  PROVE  Occupied(p) = 0
<1>1. Occupying(p) = {} /\ Charged(p) = {}
  BY DEF Occupying, Charged
<1>2. QED
  BY <1>1, SumEmpty DEF Occupied, HeldTotal, PaidTotal

\* A blocking budget is never exceeded in its running period, for any number
\* of calls, any estimates and any costs below them.
THEOREM PromiseRespectsLimit == PromiseSpec => []LimitRespected
<1>1. PromiseInit => LimitInv
  <2> SUFFICES ASSUME PromiseInit PROVE LimitInv
    OBVIOUS
  <2>1. PromiseTypeOK
    BY PeriodAssumption DEF PromiseInit, PromiseTypeOK, Periods, Phases
  <2>2. KeysBegun
    BY DEF PromiseInit, KeysBegun
  <2>3. Occupied(period) = 0
    BY EmptyPeriod DEF PromiseInit
  <2>4. QED
    BY <2>1, <2>2, <2>3, MoneyAssumption DEF LimitInv, LimitRespected
<1>2. LimitInv /\ PromiseTypeOK' /\ [PromiseNext]_promiseVars => LimitInv'
  <2> SUFFICES ASSUME LimitInv, PromiseTypeOK', [PromiseNext]_promiseVars
               PROVE  LimitInv'
    OBVIOUS
  <2> USE DEF LimitInv
  <2>1. \A p : HeldTotal(p) \in Nat /\ PaidTotal(p) \in Nat
    BY TotalsNat
  <2>2. CASE NextPeriod
    <3>1. KeysBegun'
      BY <2>2 DEF NextPeriod, KeysBegun, PromiseTypeOK, Periods
    <3>2. \A c \in Calls : phase'[c] # "idle" => key'[c] # period'
      BY <2>2 DEF NextPeriod, KeysBegun, PromiseTypeOK, Periods
    <3>3. Occupied(period)' = 0
      <4>1. Occupying(period)' = {} /\ Charged(period)' = {}
        BY <3>2 DEF Occupying, Charged
      <4>2. QED
        BY <4>1, SumEmpty DEF Occupied, HeldTotal, PaidTotal
    <3>4. QED
      BY <3>1, <3>3, MoneyAssumption DEF LimitRespected
  <2>3. ASSUME NEW c \in Calls, Plan(c) PROVE LimitInv'
    <3>1. KeysBegun'
      BY <2>3 DEF Plan, Move, KeysBegun, PromiseTypeOK, Periods
    <3>2. HeldTotal(period)' = HeldTotal(period) /\ PaidTotal(period)' = PaidTotal(period)
      <4>1. \A p : HeldTotal(p)' = HeldTotal(p) /\ PaidTotal(p)' = PaidTotal(p)
        BY <2>3, QuietTotals DEF Plan
      <4>2. period' = period
        BY <2>3 DEF Plan
      <4>3. QED
        BY <4>1, <4>2 DEF HeldTotal, PaidTotal, Occupying, Charged
    <3>3. QED
      BY <2>3, <3>1, <3>2 DEF Plan, LimitRespected, Occupied
  <2>4. ASSUME NEW c \in Calls, Admit(c) PROVE LimitInv'
    <3>1. KeysBegun'
      BY <2>4 DEF Admit, Move, KeysBegun, PromiseTypeOK
    <3>2. period' = period /\ Move(c, "planned", "held") /\ key' = key /\ paid' = paid
      BY <2>4 DEF Admit
    <3>3. /\ HeldTotal(period)' = IF period = key[c] THEN HeldTotal(period) + Estimate[c]
                                               ELSE HeldTotal(period)
          /\ PaidTotal(period)' = PaidTotal(period)
      <4>1. \A p : /\ HeldTotal(p)' = IF p = key[c] THEN HeldTotal(p) + Estimate[c]
                                                    ELSE HeldTotal(p)
                   /\ PaidTotal(p)' = PaidTotal(p)
        BY <3>2, AdmitTotals
      <4>2. HeldTotal(period)' = IF period = key[c] THEN HeldTotal(period) + Estimate[c]
                                              ELSE HeldTotal(period)
        BY <3>2, <4>1 DEF HeldTotal, Occupying
      <4>3. PaidTotal(period)' = PaidTotal(period)
        BY <3>2, <4>1 DEF PaidTotal, Charged
      <4>4. QED
        BY <4>2, <4>3
    <3>4. Estimate[c] \in Nat
      BY MoneyAssumption
    <3>5. QED
      BY <2>1, <2>4, <3>1, <3>2, <3>3, <3>4, MoneyAssumption
         DEF Admit, Overflows, LimitRespected, Occupied
  <2>5. ASSUME NEW c \in Calls, Deny(c) \/ Unanswered(c) \/ Abandon(c)
        PROVE  LimitInv'
    <3>1. period' = period /\ key' = key /\ paid' = paid
      BY <2>5 DEF Deny, Unanswered, Abandon
    <3>2. \E from, to : /\ Move(c, from, to)
                        /\ \/ from = "held" /\ to = "stranded"
                           \/ {from, to} \cap {"held", "stranded", "committed"} = {}
                        /\ from # "idle"
      BY <2>5 DEF Deny, Unanswered, Abandon
    <3>3. KeysBegun'
      BY <3>1, <3>2 DEF Move, KeysBegun, PromiseTypeOK
    <3>4. \A p : HeldTotal(p)' = HeldTotal(p) /\ PaidTotal(p)' = PaidTotal(p)
      BY <3>1, <3>2, QuietTotals
    <3>5. HeldTotal(period)' = HeldTotal(period) /\ PaidTotal(period)' = PaidTotal(period)
      BY <3>1, <3>4 DEF HeldTotal, PaidTotal, Occupying, Charged
    <3>6. QED
      BY <3>1, <3>3, <3>5 DEF LimitRespected, Occupied
  <2>6. ASSUME NEW c \in Calls, Pay(c) PROVE LimitInv'
    <3>1. period' = period /\ Move(c, "held", "committed") /\ key' = key
      BY <2>6 DEF Pay
    <3>2. PICK actual \in Costs : paid' = [paid EXCEPT ![c] = actual]
      BY <2>6 DEF Pay
    <3>3. actual \in Nat /\ Estimate[c] \in Nat
      BY MoneyAssumption
    <3>4. KeysBegun'
      BY <3>1 DEF Move, KeysBegun, PromiseTypeOK
    <3>5. HeldTotal(period)' = IF period = key[c] THEN HeldTotal(period) - Estimate[c]
                                            ELSE HeldTotal(period)
      <4>1. \A p : HeldTotal(p)' = IF p = key[c] THEN HeldTotal(p) - Estimate[c]
                                                 ELSE HeldTotal(p)
        BY <3>1, SettleHeld
      <4>2. QED
        BY <3>1, <4>1 DEF HeldTotal, Occupying
    <3>6. PaidTotal(period)' = IF period = key[c] THEN PaidTotal(period) + actual
                                            ELSE PaidTotal(period)
      <4>1. \A p : PaidTotal(p)' = IF p = key[c] THEN PaidTotal(p) + actual
                                                 ELSE PaidTotal(p)
        BY <3>1, <3>2, <3>3, PayTotals
      <4>2. QED
        BY <3>1, <4>1 DEF PaidTotal, Charged
    <3>7. NeverDearer => actual <= Estimate[c]
      BY DEF NeverDearer
    <3>8. NeverDearer => Occupied(period)' <= Occupied(period)
      BY <2>1, <3>3, <3>5, <3>6, <3>7 DEF Occupied
    <3>9. Occupied(period) \in Int /\ Occupied(period)' \in Int
      BY <2>1, <3>3, <3>5, <3>6 DEF Occupied
    <3>10. QED
      BY <3>4, <3>8, <3>9, MoneyAssumption DEF LimitRespected, NeverDearer
  <2>7. ASSUME NEW c \in Calls, GiveBack(c) PROVE LimitInv'
    <3>1. period' = period /\ Move(c, "held", "released") /\ key' = key /\ paid' = paid
      BY <2>7 DEF GiveBack
    <3>2. KeysBegun'
      BY <3>1 DEF Move, KeysBegun, PromiseTypeOK
    <3>3. HeldTotal(period)' = IF period = key[c] THEN HeldTotal(period) - Estimate[c]
                                            ELSE HeldTotal(period)
      <4>1. \A p : HeldTotal(p)' = IF p = key[c] THEN HeldTotal(p) - Estimate[c]
                                                 ELSE HeldTotal(p)
        BY <3>1, SettleHeld
      <4>2. QED
        BY <3>1, <4>1 DEF HeldTotal, Occupying
    <3>4. PaidTotal(period)' = PaidTotal(period)
      BY <3>1, GiveBackTotals DEF PaidTotal, Charged
    <3>5. Estimate[c] \in Nat
      BY MoneyAssumption
    <3>6. QED
      BY <2>1, <3>2, <3>3, <3>4, <3>5, MoneyAssumption DEF LimitRespected, Occupied, NeverDearer
  <2>8. CASE UNCHANGED promiseVars
    BY <2>8 DEF promiseVars, KeysBegun, LimitRespected, Occupied, HeldTotal,
                PaidTotal, Occupying, Charged
  <2>9. QED
    BY <2>2, <2>3, <2>4, <2>5, <2>6, <2>7, <2>8 DEF PromiseNext
<1>3. QED
  BY <1>1, <1>2, PromiseTypeCorrect, PTL DEF PromiseSpec, LimitInv

-----------------------------------------------------------------------------

\* Every ledger step is a step of the promise in its typed variables, so the
\* shared part of the type invariant needs no proof of its own.
LEMMA ActionsTyped ==
  ASSUME LedgerTypeOK, [LedgerNext]_ledgerVars
  PROVE  LedgerTypeOK'
<1> USE DEF LedgerTypeOK, PromiseTypeOK, Phases, Move, Books
<1>1. CASE Connection
  BY <1>1 DEF Connection
<1>2. CASE RollOver
  BY <1>2, PeriodAssumption DEF RollOver, NextPeriod, Periods
<1>3. ASSUME NEW p \in Periods, Expire(p) PROVE LedgerTypeOK'
  <2>1. PICK counter \in {"spent", "reserved"} :
          book' = [book EXCEPT ![p][counter] = 0]
    BY <1>3 DEF Expire
  <2>2. book' \in [Periods -> Books]
    BY <2>1
  <2>3. QED
    BY <1>3, <2>2 DEF Expire
<1>4. ASSUME NEW c \in Calls, PlanCall(c) PROVE LedgerTypeOK'
  BY <1>4, PeriodAssumption DEF PlanCall, Plan, Periods
<1>5. ASSUME NEW c \in Calls, Reserve(c) PROVE LedgerTypeOK'
  <2>1. Estimate[c] \in Nat
    BY MoneyAssumption
  <2>2. \A b \in Books : ReserveScript(b, Estimate[c]) \in Books
    BY <2>1 DEF ReserveScript
  <2>3. QED
    BY <1>5, <2>2 DEF Reserve
<1>6. ASSUME NEW c \in Calls, Commit(c) PROVE LedgerTypeOK'
  <2>1. PICK actual \in Costs :
          /\ paid' = [paid EXCEPT ![c] = actual]
          /\ book' = [book EXCEPT ![key[c]] = CommitScript(@, Estimate[c], actual)]
    BY <1>6 DEF Commit
  <2>2. actual \in Nat /\ Estimate[c] \in Nat
    BY MoneyAssumption
  <2>3. \A b \in Books : CommitScript(b, Estimate[c], actual) \in Books
    BY <2>2 DEF CommitScript, Clamped
  <2>4. book' \in [Periods -> Books]
    BY <2>1, <2>3
  <2>5. QED
    BY <1>6, <2>1, <2>2, <2>4 DEF Commit
<1>7. ASSUME NEW c \in Calls, Release(c) PROVE LedgerTypeOK'
  <2>1. Estimate[c] \in Nat
    BY MoneyAssumption
  <2>2. \A b \in Books : ReleaseScript(b, Estimate[c]) \in Books
    BY <2>1 DEF ReleaseScript, Clamped
  <2>3. QED
    BY <1>7, <2>2 DEF Release
<1>8. ASSUME NEW c \in Calls,
             \/ Refuse(c) \/ ReserveFails(c) \/ ServeUnverified(c)
             \/ Waive(c) \/ GiveUp(c)
      PROVE  LedgerTypeOK'
  BY <1>8 DEF Refuse, ReserveFails, ServeUnverified, Waive, GiveUp
<1>9. CASE UNCHANGED ledgerVars
  BY <1>9 DEF ledgerVars
<1>10. QED
  BY <1>1, <1>2, <1>3, <1>4, <1>5, <1>6, <1>7, <1>8, <1>9 DEF LedgerNext

\* Every state of the ledger is well typed.
THEOREM LedgerTypeCorrect == LedgerSpec => []LedgerTypeOK
<1>1. LedgerInit => LedgerTypeOK
  BY PeriodAssumption DEF LedgerInit, PromiseInit, LedgerTypeOK, PromiseTypeOK, Phases,
                          Periods, EmptyBook, Books
<1>2. LedgerTypeOK /\ [LedgerNext]_ledgerVars => LedgerTypeOK'
  BY ActionsTyped
<1>3. QED
  BY <1>1, <1>2, PTL DEF LedgerSpec

-----------------------------------------------------------------------------

(***************************************************************************)
(* The inductive invariant.  CountersExact alone is not inductive: that a  *)
(* roll-over enters a period whose counters are exact needs to know that   *)
(* no past expiry touched a period still to come, which is PeriodsInOrder; *)
(* and that a commit does not clamp in a live period follows from          *)
(* CountersExact itself, since the committing call is one of those the     *)
(* reserved counter stands for (SettleHeld).                               *)
(***************************************************************************)
LedgerInv ==
  /\ LedgerTypeOK
  /\ PeriodsInOrder
  /\ CountersExact
  /\ NeverOverstated

\* Actions that write no counter and move no amount.
LEMMA QuietStep ==
  ASSUME LedgerInv, UNCHANGED <<book, lapsed>>,
         \A p : HeldTotal(p)' = HeldTotal(p) /\ PaidTotal(p)' = PaidTotal(p)
  PROVE  CountersExact' /\ NeverOverstated'
BY DEF LedgerInv, CountersExact, NeverOverstated

\* Reserving adds the estimate to the counter and to the total alike.
LEMMA ReserveStep ==
  ASSUME LedgerInv, NEW c \in Calls, Reserve(c)
  PROVE  CountersExact' /\ NeverOverstated'
<1> USE DEF LedgerInv
<1>1. Move(c, "planned", "held") /\ key' = key /\ paid' = paid /\ lapsed' = lapsed
  BY DEF Reserve
<1>2. \A p : /\ HeldTotal(p)' = IF p = key[c] THEN HeldTotal(p) + Estimate[c]
                                              ELSE HeldTotal(p)
             /\ PaidTotal(p)' = PaidTotal(p)
  BY <1>1, AdmitTotals DEF LedgerTypeOK
<1>3. \A p \in Periods :
        book'[p] = IF p = key[c] THEN ReserveScript(book[p], Estimate[c]) ELSE book[p]
  BY DEF Reserve, LedgerTypeOK
<1>4. \A p \in Periods :
        /\ book'[p].spent = book[p].spent
        /\ book'[p].reserved = IF p = key[c] THEN book[p].reserved + Estimate[c]
                                             ELSE book[p].reserved
  BY <1>3 DEF ReserveScript, LedgerTypeOK, Books
<1>5. \A p : HeldTotal(p) \in Nat /\ PaidTotal(p) \in Nat
  BY TotalsNat DEF LedgerTypeOK
<1>6. \A p \in Periods : book[p].reserved \in Nat /\ Estimate[c] \in Nat
  BY MoneyAssumption DEF LedgerTypeOK, Books
<1>7. CountersExact'
  BY <1>1, <1>2, <1>4, <1>5, <1>6 DEF CountersExact
<1>8. NeverOverstated'
  BY <1>2, <1>4, <1>5, <1>6 DEF NeverOverstated
<1>9. QED
  BY <1>7, <1>8

\* What a settling script makes of a reserved counter r that stands for a total
\* h of holds, the settled estimate e among them: nothing is clamped away while
\* the counter is exact.
LEMMA ClampExact ==
  \A r, e, h \in Nat : e <= h => /\ r = h => Clamped(r - e) = h - e
                                 /\ r <= h => Clamped(r - e) <= h - e
BY DEF Clamped

\* Both settling scripts, in one statement: the estimate leaves the reserved
\* counter, and an amount (the real cost, or nothing) enters the spent one.
LEMMA SettleStep ==
  ASSUME LedgerInv, NEW c \in Calls, NEW amount \in Nat,
         Estimate[c] <= HeldTotal(key[c]),
         lapsed' = lapsed,
         \A p : HeldTotal(p)' = IF p = key[c] THEN HeldTotal(p) - Estimate[c]
                                              ELSE HeldTotal(p),
         \A p : PaidTotal(p)' = IF p = key[c] THEN PaidTotal(p) + amount
                                              ELSE PaidTotal(p),
         \A p \in Periods :
           /\ book'[p].spent = IF p = key[c] THEN book[p].spent + amount ELSE book[p].spent
           /\ book'[p].reserved = IF p = key[c] THEN Clamped(book[p].reserved - Estimate[c])
                                                ELSE book[p].reserved
  PROVE  CountersExact' /\ NeverOverstated'
<1>1. Estimate[c] \in Nat
  BY MoneyAssumption
<1>2. \A p \in Periods : /\ book[p].reserved \in Nat /\ book[p].spent \in Nat
                         /\ HeldTotal(p) \in Nat /\ PaidTotal(p) \in Nat
  BY TotalsNat DEF LedgerInv, LedgerTypeOK, Books
<1>3. ASSUME NEW p \in Periods
      PROVE  /\ p \notin lapsed => /\ book'[p].spent = PaidTotal(p)'
                                   /\ book'[p].reserved = HeldTotal(p)'
             /\ book'[p].spent <= PaidTotal(p)'
             /\ book'[p].reserved <= HeldTotal(p)'
  <2>1. /\ p \notin lapsed => /\ book[p].spent = PaidTotal(p)
                              /\ book[p].reserved = HeldTotal(p)
        /\ book[p].spent <= PaidTotal(p)
        /\ book[p].reserved <= HeldTotal(p)
    BY DEF LedgerInv, CountersExact, NeverOverstated
  <2>2. CASE p # key[c]
    BY <2>1, <2>2
  <2>3. CASE p = key[c]
    <3>1. /\ book[p].reserved = HeldTotal(p) =>
               Clamped(book[p].reserved - Estimate[c]) = HeldTotal(p) - Estimate[c]
          /\ Clamped(book[p].reserved - Estimate[c]) <= HeldTotal(p) - Estimate[c]
      <4>1. /\ book[p].reserved \in Nat /\ HeldTotal(p) \in Nat
            /\ Estimate[c] <= HeldTotal(p)
            /\ book[p].reserved <= HeldTotal(p)
        BY <1>2, <2>1, <2>3
      <4>2. \A r, h \in Nat : Estimate[c] <= h =>
              /\ r = h => Clamped(r - Estimate[c]) = h - Estimate[c]
              /\ r <= h => Clamped(r - Estimate[c]) <= h - Estimate[c]
        BY <1>1, ClampExact
      <4>3. QED
        BY <4>1, <4>2
    <3>2. /\ book'[p].spent = book[p].spent + amount
          /\ book'[p].reserved = Clamped(book[p].reserved - Estimate[c])
          /\ PaidTotal(p)' = PaidTotal(p) + amount
          /\ HeldTotal(p)' = HeldTotal(p) - Estimate[c]
      BY <2>3
    <3>3. QED
      BY <1>2, <2>1, <3>1, <3>2
  <2>4. QED
    BY <2>2, <2>3
<1>4. CountersExact'
  <2>1. \A p \in Periods \ lapsed' : /\ book'[p].spent = PaidTotal(p)'
                                     /\ book'[p].reserved = HeldTotal(p)'
    BY <1>3
  <2>2. QED
    BY <2>1 DEF CountersExact
<1>5. NeverOverstated'
  BY <1>3 DEF NeverOverstated
<1>6. QED
  BY <1>4, <1>5

\* Committing takes the estimate out and puts the real cost in.
LEMMA CommitStep ==
  ASSUME LedgerInv, NEW c \in Calls, Commit(c)
  PROVE  CountersExact' /\ NeverOverstated'
<1>1. LedgerTypeOK /\ PromiseTypeOK
  BY DEF LedgerInv, LedgerTypeOK
<1>2. Move(c, "held", "committed") /\ key' = key /\ lapsed' = lapsed
  BY DEF Commit
<1>3. PICK actual \in Costs :
        /\ paid' = [paid EXCEPT ![c] = actual]
        /\ book' = [book EXCEPT ![key[c]] = CommitScript(@, Estimate[c], actual)]
  BY DEF Commit
<1>4. actual \in Nat
  BY MoneyAssumption
<1>5. /\ \A p : HeldTotal(p)' = IF p = key[c] THEN HeldTotal(p) - Estimate[c]
                                              ELSE HeldTotal(p)
      /\ Estimate[c] <= HeldTotal(key[c])
  BY <1>1, <1>2, SettleHeld
<1>6. \A p : PaidTotal(p)' = IF p = key[c] THEN PaidTotal(p) + actual ELSE PaidTotal(p)
  BY <1>1, <1>2, <1>3, <1>4, PayTotals
<1>7. \A p \in Periods :
        /\ book'[p].spent = IF p = key[c] THEN book[p].spent + actual ELSE book[p].spent
        /\ book'[p].reserved = IF p = key[c] THEN Clamped(book[p].reserved - Estimate[c])
                                             ELSE book[p].reserved
  BY <1>1, <1>3 DEF CommitScript, LedgerTypeOK, Books
<1>8. QED
  BY <1>2, <1>4, <1>5, <1>6, <1>7, SettleStep

\* Releasing takes the estimate out and charges nobody.
LEMMA ReleaseStep ==
  ASSUME LedgerInv, NEW c \in Calls, Release(c)
  PROVE  CountersExact' /\ NeverOverstated'
<1>1. LedgerTypeOK /\ PromiseTypeOK
  BY DEF LedgerInv, LedgerTypeOK
<1>2. Move(c, "held", "released") /\ key' = key /\ paid' = paid /\ lapsed' = lapsed
  BY DEF Release
<1>3. /\ \A p : HeldTotal(p)' = IF p = key[c] THEN HeldTotal(p) - Estimate[c]
                                              ELSE HeldTotal(p)
      /\ Estimate[c] <= HeldTotal(key[c])
  BY <1>1, <1>2, SettleHeld
<1>4. \A p : PaidTotal(p)' = PaidTotal(p) /\ PaidTotal(p) \in Nat
  BY <1>1, <1>2, GiveBackTotals, TotalsNat
<1>5. \A p : PaidTotal(p)' = IF p = key[c] THEN PaidTotal(p) + 0 ELSE PaidTotal(p)
  BY <1>4
<1>6. \A p \in Periods : book[p].spent \in Nat
  BY <1>1 DEF LedgerTypeOK, Books
<1>7. \A p \in Periods :
        /\ book'[p].spent = book[p].spent
        /\ book'[p].reserved = IF p = key[c] THEN Clamped(book[p].reserved - Estimate[c])
                                             ELSE book[p].reserved
  BY <1>1 DEF Release, ReleaseScript, LedgerTypeOK, Books
<1>8. \A p \in Periods :
        /\ book'[p].spent = IF p = key[c] THEN book[p].spent + 0 ELSE book[p].spent
        /\ book'[p].reserved = IF p = key[c] THEN Clamped(book[p].reserved - Estimate[c])
                                             ELSE book[p].reserved
  BY <1>6, <1>7
<1>9. QED
  BY <1>2, <1>3, <1>5, <1>8, SettleStep

\* The order of periods is kept by every step.
LEMMA PeriodsStep ==
  ASSUME LedgerInv, [LedgerNext]_ledgerVars
  PROVE  PeriodsInOrder'
<1> USE DEF LedgerInv, PeriodsInOrder, LedgerTypeOK, PromiseTypeOK, Periods
<1>1. CASE Connection
  BY <1>1 DEF Connection
<1>2. CASE RollOver
  BY <1>2, PeriodAssumption DEF RollOver, NextPeriod
<1>3. ASSUME NEW p \in Periods, Expire(p) PROVE PeriodsInOrder'
  BY <1>3 DEF Expire
<1>4. ASSUME NEW c \in Calls, PlanCall(c) PROVE PeriodsInOrder'
  BY <1>4 DEF PlanCall, Plan, Move
<1>5. ASSUME NEW c \in Calls,
             \/ Reserve(c) \/ Refuse(c) \/ ReserveFails(c) \/ ServeUnverified(c)
             \/ Waive(c) \/ Commit(c) \/ Release(c) \/ GiveUp(c)
      PROVE  PeriodsInOrder'
  <2>1. key' = key /\ period' = period /\ lapsed' = lapsed
    BY <1>5 DEF Reserve, Refuse, ReserveFails, ServeUnverified, Waive, Commit,
                Release, GiveUp
  <2>2. \A d \in Calls : phase'[d] # "idle" => phase[d] # "idle"
    BY <1>5 DEF Reserve, Refuse, ReserveFails, ServeUnverified, Waive, Commit,
                Release, GiveUp, Move
  <2>3. QED
    BY <2>1, <2>2
<1>6. CASE UNCHANGED ledgerVars
  BY <1>6 DEF ledgerVars
<1>7. QED
  BY <1>1, <1>2, <1>3, <1>4, <1>5, <1>6 DEF LedgerNext

\* A stutter of everything the totals and the counters depend on.
LEMMA StillTotals ==
  ASSUME UNCHANGED <<phase, key, paid>>
  PROVE  \A p : HeldTotal(p)' = HeldTotal(p) /\ PaidTotal(p)' = PaidTotal(p)
BY DEF HeldTotal, PaidTotal, Occupying, Charged

\* Every step of the ledger keeps the counters exact in the live periods and
\* never overstated in the others.
LEMMA CountersStep ==
  ASSUME LedgerInv, [LedgerNext]_ledgerVars
  PROVE  CountersExact' /\ NeverOverstated'
<1>0. LedgerTypeOK /\ PromiseTypeOK
  BY DEF LedgerInv, LedgerTypeOK
<1>1. CASE Connection \/ RollOver \/ UNCHANGED ledgerVars
  BY <1>1, StillTotals, QuietStep DEF Connection, RollOver, NextPeriod, ledgerVars
<1>2. ASSUME NEW p \in Periods, Expire(p) PROVE CountersExact' /\ NeverOverstated'
  <2>1. \A q : HeldTotal(q)' = HeldTotal(q) /\ PaidTotal(q)' = PaidTotal(q)
    BY <1>2, StillTotals DEF Expire
  <2>2. \A q : HeldTotal(q) \in Nat /\ PaidTotal(q) \in Nat
    BY <1>0, TotalsNat
  <2>3. \A q \in Periods :
          /\ q # p => book'[q] = book[q]
          /\ book'[q].spent \in {0, book[q].spent}
          /\ book'[q].reserved \in {0, book[q].reserved}
    BY <1>0, <1>2 DEF Expire, LedgerTypeOK, Books
  <2>4. lapsed' = lapsed \cup {p}
    BY <1>2 DEF Expire
  <2>5. CountersExact'
    BY <2>1, <2>3, <2>4 DEF LedgerInv, CountersExact
  <2>6. NeverOverstated'
    BY <2>1, <2>2, <2>3 DEF LedgerInv, NeverOverstated
  <2>7. QED
    BY <2>5, <2>6
<1>3. ASSUME NEW c \in Calls,
             \/ PlanCall(c) \/ Refuse(c) \/ ReserveFails(c) \/ ServeUnverified(c)
             \/ Waive(c) \/ GiveUp(c)
      PROVE  CountersExact' /\ NeverOverstated'
  <2>1. UNCHANGED <<book, lapsed, paid>>
    BY <1>3 DEF PlanCall, Plan, Refuse, ReserveFails, ServeUnverified, Waive, GiveUp
  <2>2. \E from, to :
          /\ Move(c, from, to)
          /\ \/ from = "held" /\ to = "stranded"
             \/ {from, to} \cap {"held", "stranded", "committed"} = {}
          /\ \/ key' = key
             \/ from # "held" /\ key' = [key EXCEPT ![c] = period]
    BY <1>3 DEF PlanCall, Plan, Refuse, ReserveFails, ServeUnverified, Waive, GiveUp
  <2>3. \A p : HeldTotal(p)' = HeldTotal(p) /\ PaidTotal(p)' = PaidTotal(p)
    BY <1>0, <2>1, <2>2, QuietTotals
  <2>4. QED
    BY <2>1, <2>3, QuietStep
<1>4. QED
  BY <1>1, <1>2, <1>3, ReserveStep, CommitStep, ReleaseStep DEF LedgerNext

\* An untouched ledger is exact: nobody holds or paid anything.
LEMMA LedgerInvInit ==
  ASSUME LedgerInit
  PROVE  LedgerInv
<1>1. LedgerTypeOK
  BY PeriodAssumption DEF LedgerInit, PromiseInit, LedgerTypeOK, PromiseTypeOK, Phases,
                          Periods, EmptyBook, Books
<1>2. \A p : Occupying(p) = {} /\ Charged(p) = {}
  BY DEF LedgerInit, PromiseInit, Occupying, Charged
<1>3. \A p : HeldTotal(p) = 0 /\ PaidTotal(p) = 0
  BY <1>2, SumEmpty DEF HeldTotal, PaidTotal
<1>4. CountersExact /\ NeverOverstated
  BY <1>3 DEF LedgerInit, CountersExact, NeverOverstated, EmptyBook
<1>5. PeriodsInOrder
  BY DEF LedgerInit, PromiseInit, PeriodsInOrder
<1>6. QED
  BY <1>1, <1>4, <1>5 DEF LedgerInv

LEMMA LedgerInvStep ==
  ASSUME LedgerInv, [LedgerNext]_ledgerVars
  PROVE  LedgerInv'
<1>1. LedgerTypeOK'
  BY ActionsTyped DEF LedgerInv
<1>2. QED
  BY <1>1, PeriodsStep, CountersStep DEF LedgerInv

\* The inductive invariant holds in every reachable state.
THEOREM LedgerInvariant == LedgerSpec => []LedgerInv
<1>1. LedgerInit => LedgerInv
  BY LedgerInvInit
<1>2. LedgerInv /\ [LedgerNext]_ledgerVars => LedgerInv'
  BY LedgerInvStep
<1>3. QED
  BY <1>1, <1>2, PTL DEF LedgerSpec

\* Until a period's keys expire its counters are exactly what its calls were
\* charged and still hold, for any number of calls and periods.
THEOREM LedgerCountersExact == LedgerSpec => []CountersExact
<1>1. LedgerInv => CountersExact
  BY DEF LedgerInv
<1>2. QED
  BY <1>1, LedgerInvariant, PTL

\* After an expiry the counters are too low at worst, never too high.
THEOREM LedgerNeverOverstated == LedgerSpec => []NeverOverstated
<1>1. LedgerInv => NeverOverstated
  BY DEF LedgerInv
<1>2. QED
  BY <1>1, LedgerInvariant, PTL

-----------------------------------------------------------------------------

(***************************************************************************)
(* The refinement.  What makes a script's verdict the promise's verdict is *)
(* that the running period has not lapsed, so that the exposure the script *)
(* reads is the occupation the promise speaks of.                          *)
(***************************************************************************)
LEMMA ExposureOfNow ==
  ASSUME LedgerInv
  PROVE  Exposure(book[period]) = Occupied(period)
<1>1. period \in Periods \ lapsed
  BY DEF LedgerInv, LedgerTypeOK, PromiseTypeOK, PeriodsInOrder, Periods
<1>2. book[period].spent = PaidTotal(period) /\ book[period].reserved = HeldTotal(period)
  BY <1>1 DEF LedgerInv, CountersExact
<1>3. QED
  BY <1>2 DEF Exposure, Occupied

LEMMA StepRefines ==
  ASSUME LedgerInv, [LedgerNext]_ledgerVars
  PROVE  [PromiseNext]_promiseVars
<1>1. CASE Connection \/ UNCHANGED ledgerVars
  BY <1>1 DEF Connection, ledgerVars, promiseVars
<1>2. CASE RollOver
  BY <1>2 DEF RollOver, PromiseNext
<1>3. ASSUME NEW p \in Periods, Expire(p) PROVE UNCHANGED promiseVars
  BY <1>3 DEF Expire, promiseVars
<1>4. ASSUME NEW c \in Calls, PlanCall(c) PROVE Plan(c)
  BY <1>4 DEF PlanCall
<1>5. ASSUME NEW c \in Calls, Reserve(c) PROVE Admit(c)
  <2>1. key[c] = period /\ BlockAtLimit => ~Overflows(c)
    BY <1>5, ExposureOfNow DEF Reserve, Refuses, Overflows
  <2>2. QED
    BY <1>5, <2>1 DEF Reserve, Admit
<1>6. ASSUME NEW c \in Calls, Refuse(c) PROVE Deny(c)
  <2>1. BlockAtLimit /\ (key[c] = period => Overflows(c))
    BY <1>6, ExposureOfNow DEF Refuse, Refuses, Overflows
  <2>2. QED
    BY <1>6, <2>1 DEF Refuse, Deny
<1>7. ASSUME NEW c \in Calls, ReserveFails(c) \/ ServeUnverified(c) \/ Waive(c)
      PROVE  Unanswered(c)
  BY <1>7 DEF ReserveFails, ServeUnverified, Waive, Unanswered
<1>8. ASSUME NEW c \in Calls, Commit(c) PROVE Pay(c)
  BY <1>8 DEF Commit, Pay
<1>9. ASSUME NEW c \in Calls, Release(c) PROVE GiveBack(c)
  BY <1>9 DEF Release, GiveBack
<1>10. ASSUME NEW c \in Calls, GiveUp(c) PROVE Abandon(c)
  BY <1>10 DEF GiveUp, Abandon
<1>11. QED
  BY <1>1, <1>2, <1>3, <1>4, <1>5, <1>6, <1>7, <1>8, <1>9, <1>10
     DEF LedgerNext, PromiseNext

\* The two counters and the three scripts implement the promise: every
\* admission and every refusal of the running period is the exact one.
THEOREM LedgerKeepsPromise == LedgerSpec => PromiseKept
<1>1. LedgerInit => PromiseInit
  BY DEF LedgerInit
<1>2. LedgerInv /\ [LedgerNext]_ledgerVars => [PromiseNext]_promiseVars
  BY StepRefines
<1>3. QED
  BY <1>1, <1>2, LedgerInvariant, PTL DEF LedgerSpec, PromiseKept, PromiseSpec

\* So the counters the ledger authorises from stay within the limit, while
\* calls cost no more than they reserved.
THEOREM LedgerWithinLimit == LedgerSpec => []CountersWithinLimit
<1>1. LedgerInv /\ LimitRespected => CountersWithinLimit
  BY ExposureOfNow DEF LimitRespected, CountersWithinLimit
<1>2. QED
  BY <1>1, LedgerInvariant, LedgerKeepsPromise, PromiseRespectsLimit, PTL
     DEF PromiseKept
=============================================================================
