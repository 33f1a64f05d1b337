---------------------------- MODULE Messaging_proofs ----------------------------
(***************************************************************************)
(* What Messaging promises, proved for any number of events, relays and    *)
(* replicas of a subscriber, any sizes of batches and any faults.          *)
(*                                                                         *)
(* The inductive invariant has two halves.  Of the outbox: what a relay    *)
(* holds at each label (Working) and, without slow relays, that nobody     *)
(* else can lease it (Leased).  Of the bus: what each replica holds was    *)
(* read once and is nobody else's (Holding), and how far the handlers are  *)
(* with it (Handling).                                                     *)
(***************************************************************************)
EXTENDS Messaging, FiniteSetTheorems, SequenceTheorems, TLAPS

Injective(s) == \A i, j \in DOMAIN s : s[i] = s[j] => i = j

\* A relay holds each event once, and what it is about to mark has been sent.
Working(r) ==
  /\ Injective(batch[r])
  /\ pc[r] = "idle" => batch[r] = <<>>
  /\ pc[r] \notin {"idle", "leasing"} => batch[r] # <<>>
  /\ pc[r] = "marking" => sent[Current(r)] > 0
  /\ pc[r] = "updating" => seen[r] <= attempts[Current(r)]

\* While no lease ends under a relay, its events cannot be leased by another.
Leased ==
  "slow" \notin faults =>
    /\ \A r, s \in Relays : r # s => InBatch(r) \cap InBatch(s) = {}
    /\ \A r \in Relays : \A e \in InBatch(r) : lease[e] = "live" \/ status[e] # "pending"

Holders(e) == {r \in Relays : e \in Unsent(r)}
Bounded(e) == sent[e] + Cardinality(Holders(e)) <= attempts[e]

OutboxInv ==
  /\ TypeOK /\ (\A r \in Relays : Working(r)) /\ Leased
  /\ PublishedWasSent /\ GivenUpLate
  /\ \A e \in Events : Bounded(e)

Copies(e) == {n \in DOMAIN stream : stream[n] = e}

\* The bus never has more copies of an event than were sent.
CopiesSent == \A e \in Events : Cardinality(Copies(e)) <= sent[e]

Places == {"down", "subscribing", "reading", "handling", "counting", "acking", "ended"}
WithEntry == {"handling", "counting", "acking"}

ConsumerRecords == [pc : Places, batch : Seq(Nat), handler : Nat, running : BOOLEAN]
Outcome == [handler : Nat, what : {"done", "dead"}]

BusTypes ==
  /\ subscription \in Subscriptions
  /\ stream \in Seq(Events)
  /\ group \in [exists : BOOLEAN, from : Nat, last : Nat]
  /\ acked \subseteq 1 .. group.last
  /\ consumer \in [Consumers -> ConsumerRecords]
  /\ handled \in Seq(Seq(Outcome)) /\ Len(handled) = Len(stream)
  /\ group.from <= group.last /\ group.last <= Len(stream)
  /\ ~group.exists => group = NoGroup
  /\ restarts \in Nat

\* What a replica holds: entries that were read from the group, each once.
Holding(c) ==
  LET k == consumer[c] IN
  /\ Injective(k.batch)
  /\ \A i \in DOMAIN k.batch : group.from < k.batch[i] /\ k.batch[i] <= group.last
  /\ k.pc \in WithEntry => k.batch # <<>> /\ k.handler \in 1 .. subscription.handlers
  /\ k.pc \notin WithEntry => k.batch = <<>> /\ k.handler = 0
  /\ k.pc \in WithEntry \cup {"reading"} => group.exists
  /\ k.pc = "counting" => Can("handler")
  /\ k.pc = "acking" => k.handler = subscription.handlers

\* Entries nobody has read, and those that wait behind the first of a batch, are
\* untouched; of the first, the handlers before this one have had it.
Handling(c) ==
  LET k == consumer[c] IN
  /\ \A i \in DOMAIN k.batch : i > 1 => handled[k.batch[i]] = <<>>
  /\ k.pc \in WithEntry =>
       \A h \in 1 .. subscription.handlers :
         Outcomes(Entry(c), h) = {} <=> h >= k.handler + (IF k.pc = "acking" THEN 1 ELSE 0)

Apart == \A c, d \in Consumers : c # d => ToSet(consumer[c].batch) \cap ToSet(consumer[d].batch) = {}
Untouched == \A n \in DOMAIN stream : n > group.last => handled[n] = <<>>
OutcomesOnce ==
  \A n \in DOMAIN stream, h \in 1 .. subscription.handlers : \A i, j \in Outcomes(n, h) : i = j
AckedHandled == \A n \in acked, h \in 1 .. subscription.handlers : Outcomes(n, h) # {}
NoneForgotten ==
  subscription.faults \subseteq {"stop"} =>
    \A n \in group.from + 1 .. group.last : n \in acked \/ \E c \in Consumers : n \in ToSet(consumer[c].batch)

BusInv ==
  /\ BusTypes /\ (\A c \in Consumers : Holding(c) /\ Handling(c))
  /\ Apart /\ Untouched /\ OutcomesOnce /\ AckedHandled /\ NoneForgotten

MessagingInv == OutboxInv /\ CopiesSent /\ BusInv

-----------------------------------------------------------------------------
\* Sequences without repetitions.

LEMMA Emptied == Injective(<<>>) /\ ToSet(<<>>) = {}
BY DEF Injective, ToSet

LEMMA Appended ==
  ASSUME NEW S, NEW s \in Seq(S), NEW x \in S, Injective(s), x \notin ToSet(s)
  PROVE  /\ Append(s, x) \in Seq(S) /\ Append(s, x) # <<>> /\ Injective(Append(s, x))
         /\ ToSet(Append(s, x)) = ToSet(s) \cup {x}
<1>1. /\ Len(s) \in Nat /\ DOMAIN s = 1 .. Len(s) /\ DOMAIN Append(s, x) = 1 .. Len(s) + 1
      /\ \A i \in 1 .. Len(s) : Append(s, x)[i] = s[i]
      /\ Append(s, x)[Len(s) + 1] = x /\ Append(s, x) \in Seq(S) /\ Append(s, x) # <<>>
  OBVIOUS
<1>2. \A i \in 1 .. Len(s) : s[i] # x
  BY <1>1 DEF ToSet
<1>3. Injective(Append(s, x))
  BY <1>1, <1>2 DEF Injective
<1>4. \A y : y \in ToSet(Append(s, x)) <=> y \in ToSet(s) \cup {x}
  <2>1. Len(s) + 1 \in 1 .. Len(s) + 1 /\ \A i \in 1 .. Len(s) : i \in 1 .. Len(s) + 1
    BY <1>1
  <2>2. \A i \in 1 .. Len(s) + 1 : i \in 1 .. Len(s) \/ i = Len(s) + 1
    BY <1>1
  <2>3. QED
    BY <1>1, <2>1, <2>2 DEF ToSet
<1>5. QED
  BY <1>1, <1>3, <1>4

LEMMA Behead ==
  ASSUME NEW S, NEW s \in Seq(S), s # <<>>, Injective(s)
  PROVE  /\ Head(s) \in S /\ Head(s) \in ToSet(s) /\ Tail(s) \in Seq(S) /\ Injective(Tail(s))
         /\ ToSet(Tail(s)) = ToSet(s) \ {Head(s)}
         /\ Len(s) = 1 <=> Tail(s) = <<>>
         /\ \A i \in DOMAIN Tail(s) : i + 1 \in DOMAIN s /\ Tail(s)[i] = s[i + 1]
<1>1. /\ Len(s) \in Nat /\ Len(s) >= 1 /\ DOMAIN s = 1 .. Len(s) /\ Head(s) = s[1] /\ Head(s) \in S
      /\ Tail(s) \in Seq(S) /\ Len(Tail(s)) = Len(s) - 1 /\ DOMAIN Tail(s) = 1 .. Len(s) - 1
      /\ \A i \in 1 .. Len(s) - 1 : Tail(s)[i] = s[i + 1]
  OBVIOUS
<1>2. Len(s) = 1 <=> Tail(s) = <<>>
  <2>1. Tail(s) = <<>> <=> Len(Tail(s)) = 0
    BY <1>1, EmptySeq
  <2>2. QED
    BY <1>1, <2>1
<1>3. \A i \in 1 .. Len(s) - 1 : i + 1 \in 1 .. Len(s) /\ i + 1 # 1
  BY <1>1
<1>4. Injective(Tail(s))
  <2>1. SUFFICES ASSUME NEW i \in 1 .. Len(s) - 1, NEW j \in 1 .. Len(s) - 1, Tail(s)[i] = Tail(s)[j] PROVE i = j
    BY <1>1 DEF Injective
  <2>2. s[i + 1] = s[j + 1] /\ i + 1 \in DOMAIN s /\ j + 1 \in DOMAIN s
    BY <1>1, <1>3, <2>1
  <2>3. i + 1 = j + 1
    BY <2>2 DEF Injective
  <2>4. QED
    BY <1>1, <2>3
<1>5. \A y : y \in ToSet(Tail(s)) => y \in ToSet(s) /\ y # Head(s)
  <2>1. SUFFICES ASSUME NEW i \in 1 .. Len(s) - 1 PROVE Tail(s)[i] \in ToSet(s) /\ Tail(s)[i] # Head(s)
    BY <1>1 DEF ToSet
  <2>2. Tail(s)[i] = s[i + 1] /\ i + 1 \in DOMAIN s /\ 1 \in DOMAIN s /\ i + 1 # 1
    BY <1>1, <1>3
  <2>3. QED
    BY <1>1, <2>2 DEF Injective, ToSet
<1>6. \A y \in ToSet(s) : y # Head(s) => y \in ToSet(Tail(s))
  <2>1. SUFFICES ASSUME NEW i \in 1 .. Len(s), i # 1 PROVE s[i] \in ToSet(Tail(s))
    BY <1>1 DEF ToSet
  <2>2. i - 1 \in 1 .. Len(s) - 1 /\ (i - 1) + 1 = i
    BY <1>1, <2>1
  <2>3. Tail(s)[i - 1] = s[i]
    BY <1>1, <2>2
  <2>4. QED
    BY <1>1, <2>2, <2>3 DEF ToSet
<1>7. Head(s) \in ToSet(s)
  BY <1>1 DEF ToSet
<1>8. ToSet(Tail(s)) = ToSet(s) \ {Head(s)}
  BY <1>5, <1>6
<1>9. QED
  BY <1>1, <1>2, <1>3, <1>4, <1>7, <1>8

-----------------------------------------------------------------------------
\* What a step of one relay leaves to the others.

Alone(r) ==
  /\ pc' = [pc EXCEPT ![r] = pc'[r]] /\ batch' = [batch EXCEPT ![r] = batch'[r]]
  /\ seen' = [seen EXCEPT ![r] = seen'[r]]

\* A relay that leases an event, sends the one it comes to, or neither.
Counts(r, e) ==
  \/ sent'[e] = sent[e] /\ attempts'[e] >= attempts[e] /\ (e \in Unsent(r)' => e \in Unsent(r))
  \/ sent'[e] = sent[e] /\ attempts'[e] = attempts[e] + 1
  \/ sent'[e] \in {sent[e], sent[e] + 1} /\ attempts'[e] = attempts[e] /\ e \in Unsent(r) /\ e \notin Unsent(r)'

\* An event enters a batch only when nobody's live lease is on it; what one relay
\* marks, it drops, or has published.
Leases(r, e) ==
  /\ e \in InBatch(r)' => e \in InBatch(r) \/ (lease'[e] = "live" /\ lease[e] # "live" /\ status[e] = "pending")
  /\ \/ lease'[e] = lease[e] /\ status'[e] = status[e]
     \/ lease'[e] = "live"
     \/ e \in InBatch(r) /\ (e \in InBatch(r)' => status'[e] # "pending")

Marks(e) ==
  /\ status'[e] = "published" => status[e] = "published" \/ sent[e] > 0
  /\ status'[e] = "failed" => status[e] = "failed" \/ attempts[e] >= MaxAttempts

Effect(r) ==
  /\ Alone(r) /\ UNCHANGED faults /\ Working(r)'
  /\ \A e \in Events : sent'[e] >= sent[e] /\ attempts'[e] >= attempts[e]
  /\ \A e \in Events : Counts(r, e) /\ Leases(r, e) /\ Marks(e)

LEMMA OthersStay ==
  ASSUME TypeOK, NEW r \in Relays, Alone(r), NEW s \in Relays, s # r
  PROVE  /\ pc'[s] = pc[s] /\ batch'[s] = batch[s] /\ seen'[s] = seen[s]
         /\ InBatch(s)' = InBatch(s) /\ Unsent(s)' = Unsent(s)
<1>1. pc'[s] = pc[s] /\ batch'[s] = batch[s] /\ seen'[s] = seen[s]
  BY DEF TypeOK, Alone
<1>2. InBatch(s)' = InBatch(s) /\ Current(s)' = Current(s)
  BY <1>1 DEF InBatch, Current
<1>3. QED
  BY <1>1, <1>2 DEF Unsent

LEMMA BatchWithin ==
  /\ TypeOK => \A r \in Relays : InBatch(r) \subseteq Events
  /\ TypeOK' => \A r \in Relays : InBatch(r)' \subseteq Events
<1>1. ASSUME NEW b, b \in Seq(Events) PROVE {b[i] : i \in DOMAIN b} \subseteq Events
  BY <1>1
<1>2. ASSUME NEW r \in Relays
      PROVE  /\ TypeOK => InBatch(r) \subseteq Events
             /\ TypeOK' => InBatch(r)' \subseteq Events
  <2>1. (TypeOK => batch[r] \in Seq(Events)) /\ (TypeOK' => batch'[r] \in Seq(Events))
    BY DEF TypeOK
  <2>2. QED
    BY <1>1, <2>1 DEF InBatch
<1>3. QED
  BY <1>2

LEMMA BatchIs ==
  ASSUME TypeOK, NEW r \in Relays, batch[r] # <<>>, Working(r)
  PROVE  /\ batch[r] \in Seq(Events) /\ Current(r) \in Events /\ Current(r) \in InBatch(r)
         /\ Tail(batch[r]) \in Seq(Events) /\ Injective(Tail(batch[r]))
         /\ ToSet(Tail(batch[r])) = InBatch(r) \ {Current(r)}
         /\ Len(batch[r]) = 1 <=> Tail(batch[r]) = <<>>
<1>1. batch[r] \in Seq(Events) /\ Injective(batch[r]) /\ InBatch(r) = ToSet(batch[r])
  BY DEF TypeOK, Working, InBatch, ToSet
<1>2. QED
  BY <1>1, Behead DEF Current

LEMMA HoldersFinite ==
  ASSUME NEW e
  PROVE  IsFiniteSet(Holders(e)) /\ Cardinality(Holders(e)) \in Nat
<1>1. Holders(e) \subseteq Relays /\ IsFiniteSet(Relays)
  BY OutboxAssumption DEF Holders
<1>2. QED
  BY <1>1, FS_Subset, FS_CardinalityType

LEMMA BoundKept ==
  ASSUME TypeOK, TypeOK', NEW r \in Relays, Alone(r), NEW e \in Events, Counts(r, e), Bounded(e)
  PROVE  Bounded(e)'
<1>1. /\ sent[e] \in Nat /\ sent'[e] \in Nat /\ attempts[e] \in Nat /\ attempts'[e] \in Nat
  BY DEF TypeOK
<1>2. PICK H, I : H = Holders(e) /\ I = Holders(e)'
  OBVIOUS
<1>3. IsFiniteSet(H) /\ Cardinality(H) \in Nat /\ sent[e] + Cardinality(H) <= attempts[e]
  BY <1>2, HoldersFinite DEF Bounded
<1>4. \A s \in Relays : s # r => (e \in Unsent(s)' <=> e \in Unsent(s))
  BY OthersStay
<1>5. I \subseteq H \cup {r} /\ (r \in H <=> e \in Unsent(r)) /\ (r \in I <=> e \in Unsent(r)')
      /\ (\A s : s # r => (s \in I <=> s \in H))
  BY <1>2, <1>4 DEF Holders
<1>6. CASE sent'[e] = sent[e] /\ attempts'[e] >= attempts[e] /\ (e \in Unsent(r)' => e \in Unsent(r))
  <2>1. I \subseteq H
    BY <1>5, <1>6
  <2>2. Cardinality(I) <= Cardinality(H) /\ Cardinality(I) \in Nat
    BY <1>3, <2>1, FS_Subset, FS_CardinalityType
  <2>3. sent'[e] + Cardinality(I) <= attempts'[e]
    BY <1>1, <1>3, <1>6, <2>2
  <2>4. QED
    BY <1>2, <2>3 DEF Bounded
<1>7. CASE sent'[e] = sent[e] /\ attempts'[e] = attempts[e] + 1
  <2>1. IsFiniteSet(H \cup {r}) /\ Cardinality(H \cup {r}) <= Cardinality(H) + 1 /\ Cardinality(H \cup {r}) \in Nat
    <3>1. PICK J : J = H \cup {r}
      OBVIOUS
    <3>2. IsFiniteSet(J) /\ Cardinality(J) = IF r \in H THEN Cardinality(H) ELSE Cardinality(H) + 1
      BY <1>3, <3>1, FS_AddElement
    <3>3. QED
      BY <1>3, <3>1, <3>2
  <2>2. Cardinality(I) <= Cardinality(H \cup {r}) /\ Cardinality(I) \in Nat
    BY <1>5, <2>1, FS_Subset, FS_CardinalityType
  <2>3. sent'[e] + Cardinality(I) <= attempts'[e]
    BY <1>1, <1>3, <1>7, <2>1, <2>2
  <2>4. QED
    BY <1>2, <2>3 DEF Bounded
<1>8. CASE sent'[e] \in {sent[e], sent[e] + 1} /\ attempts'[e] = attempts[e] /\ e \in Unsent(r) /\ e \notin Unsent(r)'
  <2>1. I = H \ {r} /\ r \in H
    BY <1>5, <1>8
  <2>2. Cardinality(I) = Cardinality(H) - 1
    BY <1>3, <2>1, FS_RemoveElement
  <2>3. sent'[e] + Cardinality(I) <= attempts'[e]
    BY <1>1, <1>3, <1>8, <2>2
  <2>4. QED
    BY <1>2, <2>3 DEF Bounded
<1>9. QED
  BY <1>6, <1>7, <1>8 DEF Counts

LEMMA EffectKeeps ==
  ASSUME OutboxInv, TypeOK', NEW r \in Relays, Effect(r)
  PROVE  OutboxInv'
<1>1. TypeOK /\ Alone(r) /\ faults' = faults /\ Working(r)'
  BY DEF OutboxInv, Effect
<1>2. ASSUME NEW s \in Relays PROVE Working(s)'
  <2>1. CASE s = r
    BY <1>1, <2>1
  <2>2. CASE s # r
    <3>1. pc'[s] = pc[s] /\ batch'[s] = batch[s] /\ seen'[s] = seen[s] /\ Working(s) /\ Current(s)' = Current(s)
      BY <1>1, <2>2, OthersStay DEF OutboxInv, Current
    <3>2. batch[s] # <<>> => Current(s) \in Events
      BY <1>1, <3>1, BatchIs
    <3>3. \A e \in Events : /\ sent'[e] >= sent[e] /\ attempts'[e] >= attempts[e]
                            /\ sent[e] \in Nat /\ attempts[e] \in Nat /\ sent'[e] \in Nat /\ attempts'[e] \in Nat
      BY <1>1 DEF Effect, TypeOK
    <3>4. seen[s] \in Nat
      BY <1>1 DEF TypeOK
    <3>5. pc[s] = "marking" => sent'[Current(s)] > 0
      BY <3>1, <3>2, <3>3 DEF Working
    <3>6. pc[s] = "updating" => seen[s] <= attempts'[Current(s)]
      BY <3>1, <3>2, <3>3, <3>4 DEF Working
    <3>7. QED
      BY <3>1, <3>5, <3>6 DEF Working
  <2>3. QED
    BY <2>1, <2>2
<1>3. Leased'
  <2>1. SUFFICES ASSUME "slow" \notin faults
                 PROVE  /\ \A s, t \in Relays : s # t => InBatch(s)' \cap InBatch(t)' = {}
                        /\ \A s \in Relays : \A e \in InBatch(s)' : lease'[e] = "live" \/ status'[e] # "pending"
    BY <1>1 DEF Leased
  <2>2. /\ \A s, t \in Relays : s # t => InBatch(s) \cap InBatch(t) = {}
        /\ \A s \in Relays : \A e \in InBatch(s) : lease[e] = "live" \/ status[e] # "pending"
    BY <2>1 DEF OutboxInv, Leased
  <2>3. \A s \in Relays : s # r => InBatch(s)' = InBatch(s)
    BY <1>1, OthersStay
  <2>4. \A s \in Relays : InBatch(s) \subseteq Events /\ InBatch(s)' \subseteq Events
    BY <1>1, BatchWithin
  <2>5. \A e \in Events : Leases(r, e)
    BY DEF Effect
  <2>6. ASSUME NEW s \in Relays, s # r PROVE InBatch(s)' \cap InBatch(r)' = {}
    <3>1. SUFFICES ASSUME NEW e, e \in InBatch(s), e \in InBatch(r)' PROVE FALSE
      BY <2>3, <2>6
    <3>2. e \notin InBatch(r) /\ (lease[e] = "live" \/ status[e] # "pending")
      BY <2>2, <2>6, <3>1
    <3>3. QED
      BY <2>4, <2>5, <3>1, <3>2 DEF Leases
  <2>7. ASSUME NEW s \in Relays, NEW e \in InBatch(s)' PROVE lease'[e] = "live" \/ status'[e] # "pending"
    <3>1. e \in Events /\ Leases(r, e)
      BY <2>4, <2>5
    <3>2. CASE s = r
      BY <2>2, <2>7, <3>1, <3>2 DEF Leases
    <3>3. CASE s # r
      <4>1. e \in InBatch(s) /\ e \notin InBatch(r)
        BY <2>2, <2>3, <2>7, <3>3
      <4>2. QED
        BY <2>2, <3>1, <4>1 DEF Leases
    <3>4. QED
      BY <3>2, <3>3
  <2>8. QED
    BY <2>3, <2>2, <2>6, <2>7
<1>4. PublishedWasSent' /\ GivenUpLate'
  <2>1. SUFFICES ASSUME NEW e \in Events
                 PROVE  /\ status'[e] = "published" => sent'[e] > 0
                        /\ status'[e] = "failed" => attempts'[e] >= MaxAttempts
    BY DEF PublishedWasSent, GivenUpLate
  <2>2. /\ sent'[e] >= sent[e] /\ attempts'[e] >= attempts[e] /\ Marks(e) /\ MaxAttempts \in Nat
        /\ sent[e] \in Nat /\ attempts[e] \in Nat /\ sent'[e] \in Nat /\ attempts'[e] \in Nat
    BY <1>1, OutboxAssumption DEF Effect, TypeOK
  <2>3. (status[e] = "published" => sent[e] > 0) /\ (status[e] = "failed" => attempts[e] >= MaxAttempts)
    BY DEF OutboxInv, PublishedWasSent, GivenUpLate
  <2>4. QED
    BY <2>2, <2>3 DEF Marks
<1>5. \A e \in Events : Bounded(e)'
  BY <1>1, BoundKept DEF Effect, OutboxInv
<1>6. QED
  BY <1>2, <1>3, <1>4, <1>5 DEF OutboxInv

-----------------------------------------------------------------------------
\* The actions of a relay.

LEMMA LeaseTypes ==
  ASSUME TypeOK, NEW r \in Relays, NEW i \in DOMAIN written, LeaseOldest(r, i)
  PROVE  /\ written[i] \in Events /\ status[written[i]] = "pending" /\ lease[written[i]] # "live"
         /\ written[i] \notin InBatch(r)
         /\ lease' \in [Events -> {"none", "live", "lapsed"}] /\ attempts' \in [Events -> Nat]
         /\ \A e \in Events : lease'[e] = IF e = written[i] THEN "live" ELSE lease[e]
         /\ \A e \in Events : attempts'[e] = IF e = written[i] THEN attempts[e] + 1 ELSE attempts[e]
<1>1. written[i] \in Events /\ lease \in [Events -> {"none", "live", "lapsed"}] /\ attempts \in [Events -> Nat]
  BY DEF TypeOK
<1>2. status[written[i]] = "pending" /\ lease[written[i]] # "live" /\ written[i] \notin InBatch(r)
  BY DEF LeaseOldest, Leasable
<1>3. /\ lease' = [lease EXCEPT ![written[i]] = "live"]
      /\ attempts' = [attempts EXCEPT ![written[i]] = attempts[written[i]] + 1]
  BY DEF LeaseOldest
<1>4. QED
  BY <1>1, <1>2, <1>3

LEMMA NextKeeps ==
  ASSUME OutboxInv, NEW r \in Relays, LeaseNext(r)
  PROVE  OutboxInv'
<1>1. TypeOK /\ Working(r)
  BY DEF OutboxInv
<1>2. PICK i \in DOMAIN written : LeaseOldest(r, i) /\ batch' = [batch EXCEPT ![r] = Append(batch[r], written[i])]
  BY DEF LeaseNext
<1>3. PICK x \in Events : x = written[i]
  BY <1>1, <1>2, LeaseTypes
<1>4. /\ status[x] = "pending" /\ lease[x] # "live" /\ x \notin InBatch(r)
      /\ lease' \in [Events -> {"none", "live", "lapsed"}] /\ attempts' \in [Events -> Nat]
      /\ \A e \in Events : lease'[e] = IF e = x THEN "live" ELSE lease[e]
      /\ \A e \in Events : attempts'[e] = IF e = x THEN attempts[e] + 1 ELSE attempts[e]
  BY <1>1, <1>2, <1>3, LeaseTypes
<1>5. /\ pc[r] = "leasing" /\ pc' = pc /\ seen' = seen /\ sent' = sent /\ status' = status
      /\ faults' = faults /\ written' = written /\ crashes' = crashes
  BY <1>1 DEF LeaseNext, Go, TypeOK
<1>6. batch[r] \in Seq(Events) /\ Injective(batch[r]) /\ InBatch(r) = ToSet(batch[r])
  BY <1>1 DEF TypeOK, Working, InBatch, ToSet
<1>7. PICK b : b = Append(batch[r], x)
  OBVIOUS
<1>8. b \in Seq(Events) /\ Injective(b) /\ ToSet(b) = InBatch(r) \cup {x} /\ b # <<>>
  BY <1>4, <1>6, <1>7, Appended
<1>9. batch' = [batch EXCEPT ![r] = b] /\ batch' \in [Relays -> Seq(Events)] /\ batch'[r] = b
  BY <1>1, <1>2, <1>3, <1>7, <1>8 DEF TypeOK
<1>10. InBatch(r)' = InBatch(r) \cup {x}
  BY <1>8, <1>9 DEF InBatch, ToSet
<1>11. TypeOK'
  BY <1>1, <1>4, <1>5, <1>9 DEF TypeOK
<1>12. Working(r)'
  BY <1>5, <1>8, <1>9 DEF Working
<1>13. Alone(r)
  BY <1>1, <1>5, <1>9 DEF Alone, TypeOK
<1>14. Unsent(r) = InBatch(r) /\ Unsent(r)' = InBatch(r)'
  BY <1>5 DEF Unsent
<1>15. ASSUME NEW e \in Events
       PROVE  /\ sent'[e] >= sent[e] /\ attempts'[e] >= attempts[e]
              /\ Counts(r, e) /\ Leases(r, e) /\ Marks(e)
  <2>1. sent[e] \in Nat /\ attempts[e] \in Nat
    BY <1>1 DEF TypeOK
  <2>2. Counts(r, e)
    BY <1>4, <1>5, <1>10, <1>14, <2>1 DEF Counts
  <2>3. Leases(r, e)
    BY <1>4, <1>5, <1>10 DEF Leases
  <2>4. Marks(e)
    BY <1>5 DEF Marks
  <2>5. QED
    BY <1>4, <1>5, <2>1, <2>2, <2>3, <2>4
<1>16. Effect(r)
  BY <1>5, <1>12, <1>13, <1>15 DEF Effect
<1>17. QED
  BY <1>11, <1>16, EffectKeeps

\* A relay that gives up what it holds: the records may have been leased or marked.
LEMMA DropKeeps ==
  ASSUME OutboxInv, NEW r \in Relays, UNCHANGED <<faults, written, sent>>, crashes' \in 0 .. MaxCrashes,
         pc' = [pc EXCEPT ![r] = "idle"], batch' = [batch EXCEPT ![r] = <<>>],
         seen' = seen \/ seen' = [seen EXCEPT ![r] = 0],
         status' \in [Events -> {"pending", "published", "failed"}], attempts' \in [Events -> Nat],
         lease' \in [Events -> {"none", "live", "lapsed"}],
         \A e \in Events : attempts'[e] >= attempts[e] /\ Marks(e),
         \A e \in Events : (lease'[e] = lease[e] /\ status'[e] = status[e]) \/ lease'[e] = "live" \/ e \in InBatch(r)
  PROVE  OutboxInv'
<1>1. TypeOK
  BY DEF OutboxInv
<1>2. pc'[r] = "idle" /\ batch'[r] = <<>>
  BY <1>1 DEF TypeOK
<1>3. TypeOK'
  <2>1. "idle" \in Labels /\ <<>> \in Seq(Events) /\ 0 \in Nat
    BY DEF Labels
  <2>2. QED
    BY <1>1, <2>1 DEF TypeOK
<1>4. InBatch(r)' = {} /\ Unsent(r)' = {}
  BY <1>2 DEF InBatch, Unsent
<1>5. Working(r)'
  BY <1>2, Emptied DEF Working
<1>6. Alone(r)
  BY <1>1, <1>2 DEF Alone, TypeOK
<1>7. \A e \in Events : sent'[e] >= sent[e] /\ Counts(r, e) /\ Leases(r, e)
  BY <1>1, <1>4 DEF Counts, Leases, TypeOK
<1>8. Effect(r)
  BY <1>5, <1>6, <1>7 DEF Effect
<1>9. QED
  BY <1>3, <1>8, EffectKeeps

LEMMA RecordIs ==
  ASSUME TypeOK, NEW x \in Events, NEW new \in {"pending", "published", "failed"}, SetRecord(x, new)
  PROVE  /\ status' \in [Events -> {"pending", "published", "failed"}]
         /\ lease' \in [Events -> {"none", "live", "lapsed"}]
         /\ \A e \in Events : status'[e] = IF e = x THEN new ELSE status[e]
         /\ \A e \in Events : e # x => lease'[e] = lease[e]
BY DEF SetRecord, TypeOK

LEMMA NoMarks ==
  ASSUME TypeOK, status' = status
  PROVE  /\ status' \in [Events -> {"pending", "published", "failed"}]
         /\ \A e \in Events : Marks(e)
BY DEF Marks, TypeOK

LEMMA SameCounts ==
  ASSUME TypeOK
  PROVE  /\ attempts' = attempts => attempts' \in [Events -> Nat] /\ \A e \in Events : attempts'[e] >= attempts[e]
         /\ lease' = lease => lease' \in [Events -> {"none", "live", "lapsed"}]
         /\ crashes' = crashes => crashes' \in 0 .. MaxCrashes
BY DEF TypeOK

LEMMA RejectKeeps ==
  ASSUME OutboxInv, NEW r \in Relays, LeaseRejects(r)
  PROVE  OutboxInv'
<1>1. TypeOK
  BY DEF OutboxInv
<1>2. /\ UNCHANGED <<faults, written, sent, crashes, seen, status>>
      /\ pc' = [pc EXCEPT ![r] = "idle"] /\ batch' = [batch EXCEPT ![r] = <<>>]
  BY DEF LeaseRejects, Go
<1>3. CASE UNCHANGED <<lease, attempts>>
  BY <1>1, <1>2, <1>3, DropKeeps, NoMarks, SameCounts
<1>4. CASE \E i \in DOMAIN written : LeaseOldest(r, i)
  <2>1. PICK i \in DOMAIN written : LeaseOldest(r, i)
    BY <1>4
  <2>2. PICK x \in Events : x = written[i]
    BY <1>1, <2>1, LeaseTypes
  <2>3. /\ lease' \in [Events -> {"none", "live", "lapsed"}] /\ attempts' \in [Events -> Nat]
        /\ \A e \in Events : lease'[e] = IF e = x THEN "live" ELSE lease[e]
        /\ \A e \in Events : attempts'[e] = IF e = x THEN attempts[e] + 1 ELSE attempts[e]
    BY <1>1, <2>1, <2>2, LeaseTypes
  <2>4. \A e \in Events : attempts'[e] >= attempts[e] /\ Marks(e)
    <3>1. attempts \in [Events -> Nat] /\ \A e \in Events : Marks(e)
      BY <1>1, <1>2, NoMarks DEF TypeOK
    <3>2. QED
      BY <2>3, <3>1
  <2>5. \A e \in Events : (lease'[e] = lease[e] /\ status'[e] = status[e]) \/ lease'[e] = "live"
    BY <1>2, <2>3
  <2>6. QED
    BY <1>1, <1>2, <2>3, <2>4, <2>5, DropKeeps, NoMarks, SameCounts
<1>5. QED
  BY <1>3, <1>4 DEF LeaseRejects

LEMMA CrashKeeps ==
  ASSUME OutboxInv, NEW r \in Relays, Crash(r)
  PROVE  OutboxInv'
<1>1. TypeOK
  BY DEF OutboxInv
<1>2. /\ UNCHANGED <<faults, written, sent, status, lease, attempts>>
      /\ pc' = [pc EXCEPT ![r] = "idle"] /\ batch' = [batch EXCEPT ![r] = <<>>]
      /\ seen' = [seen EXCEPT ![r] = 0]
  BY DEF Crash
<1>3. crashes' \in 0 .. MaxCrashes
  BY <1>1, OutboxAssumption DEF Crash, TypeOK
<1>4. QED
  BY <1>1, <1>2, <1>3, DropKeeps, NoMarks, SameCounts

\* Only the label of a relay changes.
LEMMA MoveKeeps ==
  ASSUME OutboxInv, NEW r \in Relays, Tick(r) \/ LeaseDone(r)
  PROVE  OutboxInv'
<1>1. TypeOK /\ Working(r)
  BY DEF OutboxInv
<1>2. PICK to \in {"leasing", "idle", "publishing"} :
        /\ pc' = [pc EXCEPT ![r] = to] /\ UNCHANGED <<faults, written, status, attempts, lease, batch, seen, sent, crashes>>
        /\ pc[r] \in {"idle", "leasing"}
        /\ to = "idle" => batch[r] = <<>>
        /\ to = "publishing" => batch[r] # <<>> /\ pc[r] = "leasing"
        /\ to = "leasing" => pc[r] = "idle"
  BY DEF Tick, LeaseDone, Go
<1>3. pc'[r] = to /\ TypeOK'
  BY <1>1, <1>2 DEF TypeOK, Labels
<1>4. InBatch(r)' = InBatch(r)
  BY <1>2 DEF InBatch
<1>5. pc[r] = "idle" => InBatch(r) = {}
  BY <1>1 DEF Working, InBatch
<1>6. Unsent(r)' \subseteq Unsent(r)
  BY <1>2, <1>3, <1>4, <1>5 DEF Unsent
<1>7. Working(r)'
  BY <1>1, <1>2, <1>3 DEF Working
<1>8. Alone(r)
  BY <1>1, <1>2, <1>3 DEF Alone, TypeOK
<1>9. \A e \in Events : /\ sent'[e] >= sent[e] /\ attempts'[e] >= attempts[e]
                        /\ Counts(r, e) /\ Leases(r, e) /\ Marks(e)
  BY <1>1, <1>2, <1>4, <1>6 DEF Counts, Leases, Marks, TypeOK
<1>10. QED
  BY <1>2, <1>3, <1>7, <1>8, <1>9, EffectKeeps DEF Effect

LEMMA PublishKeeps ==
  ASSUME OutboxInv, NEW r \in Relays, Publish(r)
  PROVE  OutboxInv'
<1>1. TypeOK /\ Working(r)
  BY DEF OutboxInv
<1>2. /\ pc[r] = "publishing" /\ UNCHANGED <<faults, written, status, attempts, lease, batch, seen, crashes>>
      /\ \/ pc' = [pc EXCEPT ![r] = "marking"] /\ sent' = [sent EXCEPT ![Current(r)] = sent[Current(r)] + 1]
         \/ /\ pc' = [pc EXCEPT ![r] = "failing"]
            /\ sent' = sent \/ sent' = [sent EXCEPT ![Current(r)] = sent[Current(r)] + 1]
  BY DEF Publish, Go
<1>3. PICK x \in Events : x = Current(r) /\ x \in InBatch(r)
  BY <1>1, <1>2, BatchIs DEF Working
<1>4. /\ sent' \in [Events -> Nat]
      /\ \A e \in Events : sent'[e] = sent[e] \/ (e = x /\ sent'[e] = sent[e] + 1)
      /\ pc'[r] = "marking" => sent'[x] > 0
  <2>1. sent \in [Events -> Nat] /\ pc \in [Relays -> Labels] /\ sent[x] \in Nat
    BY <1>1 DEF TypeOK
  <2>2. \/ sent' = [sent EXCEPT ![x] = sent[x] + 1]
        \/ sent' = sent /\ pc'[r] = "failing"
    BY <1>2, <1>3, <2>1
  <2>3. QED
    BY <2>1, <2>2
<1>5. pc'[r] \in {"marking", "failing"} /\ TypeOK'
  BY <1>1, <1>2, <1>4 DEF TypeOK, Labels
<1>6. InBatch(r)' = InBatch(r) /\ Current(r)' = x /\ batch[r] # <<>>
  BY <1>1, <1>2, <1>3 DEF InBatch, Current, Working
<1>7. Unsent(r) = InBatch(r) /\ Unsent(r)' = InBatch(r) \ {x}
  BY <1>2, <1>5, <1>6 DEF Unsent
<1>8. Working(r)'
  BY <1>1, <1>2, <1>4, <1>5, <1>6 DEF Working
<1>9. Alone(r)
  BY <1>1, <1>2 DEF Alone, TypeOK
<1>10. ASSUME NEW e \in Events
       PROVE  sent'[e] >= sent[e] /\ attempts'[e] >= attempts[e] /\ Counts(r, e) /\ Leases(r, e) /\ Marks(e)
  <2>1. sent[e] \in Nat /\ attempts[e] \in Nat /\ attempts'[e] = attempts[e]
    BY <1>1, <1>2 DEF TypeOK
  <2>2. Counts(r, e)
    BY <1>3, <1>4, <1>7, <2>1 DEF Counts
  <2>3. Leases(r, e) /\ Marks(e)
    BY <1>2, <1>6 DEF Leases, Marks
  <2>4. QED
    BY <1>4, <2>1, <2>2, <2>3
<1>11. QED
  BY <1>2, <1>5, <1>8, <1>9, <1>10, EffectKeeps DEF Effect

\* The event a relay came to is marked, and the relay goes on to the next one.
LEMMA AdvanceKeeps ==
  ASSUME OutboxInv, NEW r \in Relays, NEW from \in {"marking", "updating"}, Advance(r, from),
         NEW new \in {"pending", "published", "failed"}, SetRecord(Current(r), new),
         UNCHANGED <<faults, written, attempts, sent, crashes>>,
         seen' = seen \/ seen' = [seen EXCEPT ![r] = 0],
         Marks(Current(r))
  PROVE  OutboxInv'
<1>1. TypeOK /\ Working(r)
  BY DEF OutboxInv
<1>2. /\ pc[r] = from /\ batch' = [batch EXCEPT ![r] = Tail(batch[r])]
      /\ pc' = [pc EXCEPT ![r] = IF Len(batch[r]) = 1 THEN "idle" ELSE "publishing"]
  BY DEF Advance, Go
<1>3. PICK x \in Events : x = Current(r) /\ x \in InBatch(r)
  BY <1>1, <1>2, BatchIs DEF Working
<1>4. PICK b : b = Tail(batch[r])
  OBVIOUS
<1>5. b \in Seq(Events) /\ Injective(b) /\ ToSet(b) = InBatch(r) \ {x} /\ (Len(batch[r]) = 1 <=> b = <<>>)
  BY <1>1, <1>2, <1>3, <1>4, BatchIs DEF Working
<1>6. batch'[r] = b /\ batch' \in [Relays -> Seq(Events)]
  BY <1>1, <1>2, <1>4, <1>5 DEF TypeOK
<1>7. pc'[r] = IF b = <<>> THEN "idle" ELSE "publishing"
  BY <1>1, <1>2, <1>5 DEF TypeOK
<1>8. InBatch(r)' = InBatch(r) \ {x}
  BY <1>5, <1>6 DEF InBatch, ToSet
<1>9. /\ status' \in [Events -> {"pending", "published", "failed"}] /\ lease' \in [Events -> {"none", "live", "lapsed"}]
      /\ \A e \in Events : e # x => status'[e] = status[e] /\ lease'[e] = lease[e]
  BY <1>1, <1>3, RecordIs
<1>10. TypeOK'
  <2>1. "idle" \in Labels /\ "publishing" \in Labels
    BY DEF Labels
  <2>2. pc' \in [Relays -> Labels] /\ seen' \in [Relays -> Nat]
    <3>1. pc \in [Relays -> Labels] /\ seen \in [Relays -> Nat]
      BY <1>1 DEF TypeOK
    <3>2. (IF Len(batch[r]) = 1 THEN "idle" ELSE "publishing") \in Labels
      BY <2>1
    <3>3. QED
      BY <1>2, <3>1, <3>2
  <2>3. QED
    BY <1>1, <1>6, <1>9, <2>2 DEF TypeOK
<1>11. Unsent(r) = InBatch(r) \ {x} /\ Unsent(r)' \subseteq InBatch(r)'
  BY <1>2, <1>3, <1>6, <1>7, <1>8 DEF Unsent
<1>12. Working(r)'
  BY <1>5, <1>6, <1>7 DEF Working
<1>13. Alone(r)
  BY <1>1, <1>2 DEF Alone, TypeOK
<1>14. ASSUME NEW e \in Events
       PROVE  sent'[e] >= sent[e] /\ attempts'[e] >= attempts[e] /\ Counts(r, e) /\ Leases(r, e) /\ Marks(e)
  <2>1. sent[e] \in Nat /\ attempts[e] \in Nat /\ sent'[e] = sent[e] /\ attempts'[e] = attempts[e]
    BY <1>1 DEF TypeOK
  <2>2. Counts(r, e)
    BY <1>8, <1>11, <2>1 DEF Counts
  <2>3. Leases(r, e)
    BY <1>3, <1>8, <1>9 DEF Leases
  <2>4. Marks(e)
    BY <1>3, <1>9 DEF Marks
  <2>5. QED
    BY <2>1, <2>2, <2>3, <2>4
<1>15. QED
  BY <1>10, <1>12, <1>13, <1>14, EffectKeeps DEF Effect

\* A relay that learns how a call went, with the same event before it.
LEMMA StaysKeeps ==
  ASSUME OutboxInv, NEW r \in Relays, pc[r] \in {"marking", "failing"}, NEW to \in {"failing", "updating"},
         pc' = [pc EXCEPT ![r] = to], UNCHANGED <<faults, written, attempts, batch, sent, crashes>>,
         seen' = seen \/ seen' = [seen EXCEPT ![r] = attempts[Current(r)]],
         to = "updating" => seen'[r] = attempts[Current(r)],
         status' \in [Events -> {"pending", "published", "failed"}],
         lease' \in [Events -> {"none", "live", "lapsed"}],
         \A e \in Events :
           \/ lease'[e] = lease[e] /\ status'[e] = status[e]
           \/ e = Current(r) /\ status'[e] = "published" /\ sent[e] > 0
  PROVE  OutboxInv'
<1>1. TypeOK /\ Working(r)
  BY DEF OutboxInv
<1>2. PICK x \in Events : x = Current(r) /\ x \in InBatch(r)
  BY <1>1, BatchIs DEF Working
<1>3. InBatch(r)' = InBatch(r) /\ Current(r)' = x /\ batch[r] # <<>> /\ batch' = batch
  BY <1>1, <1>2 DEF InBatch, Current, Working
<1>4. attempts[x] \in Nat /\ seen \in [Relays -> Nat] /\ pc \in [Relays -> Labels] /\ to \in Labels
  BY <1>1 DEF TypeOK, Labels
<1>5. pc'[r] = to /\ pc' \in [Relays -> Labels] /\ seen' \in [Relays -> Nat]
  BY <1>2, <1>4
<1>6. TypeOK'
  BY <1>1, <1>5 DEF TypeOK
<1>7. Unsent(r)' = Unsent(r)
  BY <1>2, <1>3, <1>5 DEF Unsent
<1>8. Working(r)'
  <2>1. to = "updating" => seen'[r] <= attempts'[x]
    BY <1>2, <1>4
  <2>2. QED
    BY <1>1, <1>3, <1>5, <2>1 DEF Working
<1>9. Alone(r)
  <2>1. batch' = [batch EXCEPT ![r] = batch'[r]]
    BY <1>1, <1>3 DEF TypeOK
  <2>2. seen' = [seen EXCEPT ![r] = seen'[r]]
    BY <1>4
  <2>3. QED
    BY <1>5, <2>1, <2>2 DEF Alone
<1>10. ASSUME NEW e \in Events
       PROVE  sent'[e] >= sent[e] /\ attempts'[e] >= attempts[e] /\ Counts(r, e) /\ Leases(r, e) /\ Marks(e)
  <2>1. sent[e] \in Nat /\ attempts[e] \in Nat /\ sent'[e] = sent[e] /\ attempts'[e] = attempts[e]
    BY <1>1 DEF TypeOK
  <2>2. Counts(r, e)
    BY <1>7, <2>1 DEF Counts
  <2>3. Leases(r, e)
    BY <1>2, <1>3 DEF Leases
  <2>4. Marks(e)
    BY DEF Marks
  <2>5. QED
    BY <2>1, <2>2, <2>3, <2>4
<1>11. QED
  BY <1>6, <1>8, <1>9, <1>10, EffectKeeps DEF Effect

LEMMA MarkKeeps ==
  ASSUME OutboxInv, NEW r \in Relays, MarkPublished(r)
  PROVE  OutboxInv'
<1>1. TypeOK /\ Working(r)
  BY DEF OutboxInv
<1>2. pc[r] = "marking" /\ UNCHANGED <<faults, written, attempts, seen, sent, crashes>>
  BY DEF MarkPublished, Advance, Go
<1>3. PICK x \in Events : x = Current(r) /\ sent[x] > 0
  BY <1>1, <1>2, BatchIs DEF Working
<1>4. SetRecord(x, "published") =>
        /\ status' \in [Events -> {"pending", "published", "failed"}]
        /\ lease' \in [Events -> {"none", "live", "lapsed"}]
        /\ \A e \in Events : status'[e] = IF e = x THEN "published" ELSE status[e]
        /\ \A e \in Events : e # x => lease'[e] = lease[e]
  BY <1>1, RecordIs
<1>5. CASE Advance(r, "marking") /\ SetRecord(Current(r), "published")
  <2>1. Marks(Current(r))
    BY <1>3, <1>4, <1>5 DEF Marks
  <2>2. QED
    BY <1>2, <1>5, <2>1, AdvanceKeeps
<1>6. CASE /\ pc' = [pc EXCEPT ![r] = "failing"] /\ batch' = batch
           /\ SetRecord(Current(r), "published") \/ UNCHANGED <<status, lease>>
  <2>1. status' \in [Events -> {"pending", "published", "failed"}] /\ lease' \in [Events -> {"none", "live", "lapsed"}]
    BY <1>1, <1>3, <1>4, <1>6 DEF TypeOK
  <2>2. \A e \in Events :
          \/ lease'[e] = lease[e] /\ status'[e] = status[e]
          \/ e = Current(r) /\ status'[e] = "published" /\ sent[e] > 0
    BY <1>3, <1>4, <1>6
  <2>3. QED
    BY <1>2, <1>6, <2>1, <2>2, StaysKeeps
<1>7. QED
  BY <1>5, <1>6 DEF MarkPublished, Go

LEMMA ReadKeeps ==
  ASSUME OutboxInv, NEW r \in Relays, ReadAttempts(r)
  PROVE  OutboxInv'
<1>1. TypeOK
  BY DEF OutboxInv
<1>2. UNCHANGED <<faults, written, status, attempts, lease, sent, crashes>> /\ pc[r] = "failing"
  BY DEF ReadAttempts, DrainRejects, Go
<1>3. status' \in [Events -> {"pending", "published", "failed"}] /\ lease' \in [Events -> {"none", "live", "lapsed"}]
      /\ seen \in [Relays -> Nat]
  BY <1>1, <1>2 DEF TypeOK
<1>4. CASE pc' = [pc EXCEPT ![r] = "updating"] /\ seen' = [seen EXCEPT ![r] = attempts[Current(r)]] /\ batch' = batch
  <2>1. seen'[r] = attempts[Current(r)]
    BY <1>3, <1>4
  <2>2. QED
    BY <1>2, <1>3, <1>4, <2>1, StaysKeeps
<1>5. CASE DrainRejects(r, "failing")
  <2>1. pc' = [pc EXCEPT ![r] = "idle"] /\ batch' = [batch EXCEPT ![r] = <<>>] /\ seen' = [seen EXCEPT ![r] = 0]
    BY <1>5 DEF DrainRejects, Go
  <2>2. QED
    BY <1>1, <1>2, <2>1, DropKeeps, NoMarks, SameCounts
<1>6. QED
  BY <1>4, <1>5 DEF ReadAttempts, Go

LEMMA FailKeeps ==
  ASSUME OutboxInv, NEW r \in Relays, MarkFailed(r)
  PROVE  OutboxInv'
<1>1. TypeOK /\ Working(r)
  BY DEF OutboxInv
<1>2. PICK verdict \in {"pending", "published", "failed"} :
        /\ verdict = IF seen[r] >= MaxAttempts THEN "failed" ELSE "pending"
        /\ \/ /\ Advance(r, "updating") /\ SetRecord(Current(r), verdict)
              /\ seen' = [seen EXCEPT ![r] = 0]
           \/ /\ DrainRejects(r, "updating")
              /\ SetRecord(Current(r), verdict) \/ UNCHANGED <<status, lease>>
        /\ UNCHANGED <<faults, written, attempts, sent, crashes>>
  BY DEF MarkFailed
<1>3. pc[r] = "updating"
  BY <1>2 DEF Advance, DrainRejects, Go
<1>4. PICK x \in Events : x = Current(r) /\ x \in InBatch(r) /\ seen[r] <= attempts[x]
  BY <1>1, <1>3, BatchIs DEF Working
<1>5. verdict = "failed" => attempts[x] >= MaxAttempts
  BY <1>1, <1>2, <1>4, OutboxAssumption DEF TypeOK
<1>6. SetRecord(x, verdict) =>
        /\ status' \in [Events -> {"pending", "published", "failed"}]
        /\ lease' \in [Events -> {"none", "live", "lapsed"}]
        /\ \A e \in Events : status'[e] = IF e = x THEN verdict ELSE status[e]
        /\ \A e \in Events : e # x => lease'[e] = lease[e]
  BY <1>1, RecordIs
<1>7. SetRecord(x, verdict) => \A e \in Events : Marks(e)
  BY <1>2, <1>4, <1>5, <1>6 DEF Marks
<1>8. CASE Advance(r, "updating") /\ SetRecord(Current(r), verdict) /\ seen' = [seen EXCEPT ![r] = 0]
  BY <1>2, <1>4, <1>7, <1>8, AdvanceKeeps
<1>9. CASE DrainRejects(r, "updating") /\ (SetRecord(Current(r), verdict) \/ UNCHANGED <<status, lease>>)
  <2>1. pc' = [pc EXCEPT ![r] = "idle"] /\ batch' = [batch EXCEPT ![r] = <<>>] /\ seen' = [seen EXCEPT ![r] = 0]
    BY <1>9 DEF DrainRejects, Go
  <2>2. CASE UNCHANGED <<status, lease>>
    BY <1>1, <1>2, <2>1, <2>2, DropKeeps, NoMarks, SameCounts
  <2>3. CASE SetRecord(Current(r), verdict)
    <3>1. /\ status' \in [Events -> {"pending", "published", "failed"}]
          /\ lease' \in [Events -> {"none", "live", "lapsed"}] /\ \A e \in Events : Marks(e)
          /\ \A e \in Events : (lease'[e] = lease[e] /\ status'[e] = status[e]) \/ e \in InBatch(r)
      BY <1>4, <1>6, <1>7, <2>3
    <3>2. QED
      BY <1>1, <1>2, <2>1, <3>1, DropKeeps, SameCounts
  <2>4. QED
    BY <1>9, <2>2, <2>3
<1>10. QED
  BY <1>2, <1>8, <1>9

LEMMA SettledKeeps ==
  ASSUME OutboxInv, UNCHANGED <<faults, status, attempts, pc, batch, seen, sent, crashes>>,
         written' \in Seq(Events), lease' \in [Events -> {"none", "live", "lapsed"}],
         \A e \in Events : lease'[e] = lease[e] \/ "slow" \in faults \/ \A r \in Relays : e \notin InBatch(r)
  PROVE  OutboxInv'
<1>1. TypeOK /\ TypeOK'
  BY DEF OutboxInv, TypeOK
<1>2. \A r \in Relays : InBatch(r)' = InBatch(r) /\ Current(r)' = Current(r) /\ Unsent(r)' = Unsent(r)
  BY DEF InBatch, Current, Unsent
<1>3. \A r \in Relays : Working(r)'
  BY <1>2 DEF OutboxInv, Working
<1>4. Leased'
  BY <1>1, <1>2, BatchWithin DEF OutboxInv, Leased
<1>5. PublishedWasSent' /\ GivenUpLate'
  BY DEF OutboxInv, PublishedWasSent, GivenUpLate
<1>6. ASSUME NEW e \in Events PROVE Bounded(e)'
  <2>1. Holders(e)' = Holders(e)
    BY <1>2 DEF Holders
  <2>2. QED
    BY <2>1 DEF OutboxInv, Bounded
<1>7. QED
  BY <1>1, <1>3, <1>4, <1>5, <1>6 DEF OutboxInv

LEMMA WriteKeeps ==
  ASSUME OutboxInv, NEW e \in Events, Write(e)
  PROVE  OutboxInv'
<1>1. TypeOK
  BY DEF OutboxInv
<1>2. written' \in Seq(Events) /\ lease' \in [Events -> {"none", "live", "lapsed"}]
  BY <1>1 DEF Write, TypeOK
<1>3. QED
  BY <1>2, SettledKeeps DEF Write

LEMMA LapseKeeps ==
  ASSUME OutboxInv, NEW e \in Events, Lapse(e)
  PROVE  OutboxInv'
<1>1. lease \in [Events -> {"none", "live", "lapsed"}] /\ written' \in Seq(Events)
  BY DEF OutboxInv, TypeOK, Lapse
<1>2. lease' = [lease EXCEPT ![e] = "lapsed"] /\ ("slow" \in faults \/ \A r \in Relays : e \notin InBatch(r))
  BY DEF Lapse
<1>3. lease' \in [Events -> {"none", "live", "lapsed"}] /\ \A f \in Events : f # e => lease'[f] = lease[f]
  BY <1>1, <1>2
<1>4. QED
  BY <1>1, <1>2, <1>3, SettledKeeps DEF Lapse

LEMMA WorkKeeps ==
  ASSUME OutboxInv, NEW r \in Relays, Work(r)
  PROVE  OutboxInv'
BY MoveKeeps, NextKeeps, RejectKeeps, PublishKeeps, MarkKeeps, ReadKeeps, FailKeeps DEF Work

LEMMA OutboxStarts == Init => OutboxInv
<1>1. SUFFICES ASSUME Init PROVE OutboxInv
  OBVIOUS
<1>2. TypeOK
  BY <1>1, OutboxAssumption DEF Init, TypeOK, Labels
<1>3. \A r \in Relays : InBatch(r) = {} /\ Unsent(r) = {} /\ batch[r] = <<>> /\ pc[r] = "idle"
  BY <1>1 DEF Init, InBatch, Unsent
<1>4. \A r \in Relays : Working(r)
  BY <1>3, Emptied DEF Working
<1>5. Leased /\ PublishedWasSent /\ GivenUpLate
  BY <1>1, <1>3 DEF Init, Leased, PublishedWasSent, GivenUpLate
<1>6. ASSUME NEW e \in Events PROVE Bounded(e)
  <2>1. Holders(e) = {}
    BY <1>3 DEF Holders
  <2>2. sent[e] = 0 /\ attempts[e] = 0
    BY <1>1 DEF Init
  <2>3. QED
    BY <2>1, <2>2, FS_EmptySet DEF Bounded
<1>7. QED
  BY <1>2, <1>4, <1>5, <1>6 DEF OutboxInv

-----------------------------------------------------------------------------
\* What a relay sends is what the bus gets.

LEMMA SendsOne ==
  ASSUME OutboxInv, NEW r \in Relays, Work(r), sent' # sent
  PROVE  Current(r) \in Events /\ sent' = [sent EXCEPT ![Current(r)] = sent[Current(r)] + 1]
<1>1. sent' = [sent EXCEPT ![Current(r)] = sent[Current(r)] + 1] /\ pc[r] = "publishing"
  <2>1. Publish(r)
    <3>1. Tick(r) \/ LeaseNext(r) \/ LeaseRejects(r) \/ LeaseDone(r) => sent' = sent
      BY DEF Tick, LeaseNext, LeaseRejects, LeaseDone
    <3>2. MarkPublished(r) \/ ReadAttempts(r) \/ MarkFailed(r) => sent' = sent
      BY DEF MarkPublished, ReadAttempts, MarkFailed
    <3>3. QED
      BY <3>1, <3>2 DEF Work
  <2>2. pc[r] = "publishing" /\ sent' \in {sent, [sent EXCEPT ![Current(r)] = sent[Current(r)] + 1]}
    BY <2>1 DEF Publish, Go
  <2>3. QED
    BY <2>2
<1>2. TypeOK /\ Working(r)
  BY DEF OutboxInv
<1>3. QED
  BY <1>1, <1>2, BatchIs DEF Working

LEMMA CopiesFinite ==
  ASSUME stream \in Seq(Events), NEW e
  PROVE  IsFiniteSet(Copies(e)) /\ Cardinality(Copies(e)) \in Nat
<1>1. PICK I : I = Copies(e)
  OBVIOUS
<1>2. I \subseteq 1 .. Len(stream) /\ Len(stream) \in Nat
  BY <1>1 DEF Copies
<1>3. IsFiniteSet(1 .. Len(stream))
  BY <1>2, FS_Interval
<1>4. QED
  BY <1>1, <1>2, <1>3, FS_Subset, FS_CardinalityType

LEMMA ArrivalCounts ==
  ASSUME stream \in Seq(Events), NEW x \in Events, stream' = Append(stream, x), NEW e \in Events
  PROVE  Cardinality(Copies(e)') <= Cardinality(Copies(e)) + (IF e = x THEN 1 ELSE 0)
<1>1. PICK H, I, n : H = Copies(e) /\ I = Copies(e)' /\ n = Len(stream) + 1
  OBVIOUS
<1>2. IsFiniteSet(H) /\ Cardinality(H) \in Nat
  BY <1>1, CopiesFinite
<1>3. /\ DOMAIN stream = 1 .. Len(stream) /\ DOMAIN stream' = 1 .. n /\ Len(stream) \in Nat /\ n \notin DOMAIN stream
      /\ \A i \in 1 .. Len(stream) : stream'[i] = stream[i] /\ i \in 1 .. n
      /\ stream'[n] = x /\ n \in 1 .. n
      /\ \A i \in 1 .. n : i \in 1 .. Len(stream) \/ i = n
  BY <1>1
<1>4. CASE e = x
  <2>1. \A i : i \in I <=> i \in H \/ i = n
    BY <1>1, <1>3, <1>4 DEF Copies
  <2>2. I = H \cup {n} /\ n \notin H
    BY <1>1, <1>3, <2>1 DEF Copies
  <2>3. Cardinality(I) = Cardinality(H) + 1
    BY <1>2, <2>2, FS_AddElement
  <2>4. QED
    BY <1>1, <1>2, <1>4, <2>3
<1>5. CASE e # x
  <2>1. \A i : i \in I <=> i \in H
    BY <1>1, <1>3, <1>5 DEF Copies
  <2>2. I = H
    BY <2>1
  <2>3. QED
    BY <1>1, <1>2, <1>5, <2>2
<1>6. QED
  BY <1>4, <1>5

LEMMA RelayCopies ==
  ASSUME OutboxInv, CopiesSent, stream \in Seq(Events), NEW r \in Relays, Relay(r)
  PROVE  CopiesSent'
<1>1. Work(r)
  BY DEF Relay
<1>2. sent \in [Events -> Nat]
  BY DEF OutboxInv, TypeOK
<1>3. CASE stream' = stream /\ \A e \in Events : sent'[e] >= sent[e] /\ sent'[e] \in Nat
  <2>1. ASSUME NEW e \in Events PROVE Cardinality(Copies(e)') <= sent'[e]
    <3>1. Copies(e)' = Copies(e)
      BY <1>3 DEF Copies
    <3>2. Cardinality(Copies(e)) <= sent[e] /\ Cardinality(Copies(e)) \in Nat
      BY CopiesFinite DEF CopiesSent
    <3>3. QED
      BY <1>2, <1>3, <3>1, <3>2
  <2>2. QED
    BY <2>1 DEF CopiesSent
<1>4. CASE sent' = sent
  BY <1>2, <1>3, <1>4 DEF Relay, deliveryVars
<1>5. CASE sent' # sent
  <2>1. PICK x \in Events : x = Current(r) /\ sent' = [sent EXCEPT ![x] = sent[x] + 1]
    BY <1>1, <1>5, SendsOne
  <2>2. \A e \in Events : sent'[e] = IF e = x THEN sent[e] + 1 ELSE sent[e]
    BY <1>2, <2>1
  <2>3. stream' = stream \/ stream' = Append(stream, x)
    BY <1>5, <2>1 DEF Relay, Arrives
  <2>4. CASE stream' = stream
    BY <1>2, <1>3, <2>2, <2>4
  <2>5. CASE stream' = Append(stream, x)
    <3>1. ASSUME NEW e \in Events PROVE Cardinality(Copies(e)') <= sent'[e]
      <4>1. Cardinality(Copies(e)) <= sent[e] /\ Cardinality(Copies(e)) \in Nat
        BY CopiesFinite DEF CopiesSent
      <4>2. Cardinality(Copies(e)') <= Cardinality(Copies(e)) + (IF e = x THEN 1 ELSE 0)
        BY <2>5, ArrivalCounts
      <4>3. stream' \in Seq(Events) 
        BY <2>5
      <4>4. Cardinality(Copies(e)') \in Nat
        <5>1. PICK I : I = Copies(e)'
          OBVIOUS
        <5>2. I \subseteq 1 .. Len(stream') /\ Len(stream') \in Nat
          BY <4>3, <5>1 DEF Copies
        <5>3. IsFiniteSet(1 .. Len(stream'))
          BY <5>2, FS_Interval
        <5>4. QED
          BY <5>1, <5>2, <5>3, FS_Subset, FS_CardinalityType
      <4>5. QED
        BY <1>2, <2>2, <4>1, <4>2, <4>4
    <3>2. QED
      BY <3>1 DEF CopiesSent
  <2>6. QED
    BY <2>3, <2>4, <2>5
<1>6. QED
  BY <1>4, <1>5

-----------------------------------------------------------------------------
\* What a step of one replica does to the entries: it handles the first it holds, takes
\* new ones, and loses one that is not acknowledged only by a fault.
Progress(c) ==
  /\ consumer' = [consumer EXCEPT ![c] = consumer'[c]] /\ UNCHANGED <<subscription, stream>>
  /\ group'.last >= group.last
  /\ group.exists => group'.exists /\ group'.from = group.from
  /\ \A n \in DOMAIN stream : handled'[n] = handled[n] \/ (consumer[c].batch # <<>> /\ n = Entry(c))
  /\ \A n \in DOMAIN stream, h \in 1 .. subscription.handlers :
       /\ Outcomes(n, h) # {} => Outcomes(n, h)' # {}
       /\ \A i, j \in Outcomes(n, h)' : i = j
  /\ acked \subseteq acked'
  /\ \A n \in acked' : n \in acked \/ \A h \in 1 .. subscription.handlers : Outcomes(n, h)' # {}
  /\ \A n \in ToSet(consumer'[c].batch) : n \in ToSet(consumer[c].batch) \/ n > group.last
  /\ subscription.faults \subseteq {"stop"} =>
       \A n \in group'.from + 1 .. group'.last :
         \/ n \in acked' \/ n \in ToSet(consumer'[c].batch)
         \/ group.exists /\ n <= group.last /\ n \notin ToSet(consumer[c].batch)

LEMMA EntryIs ==
  ASSUME BusTypes, NEW c \in Consumers, Holding(c), consumer[c].batch # <<>>
  PROVE  /\ Entry(c) \in ToSet(consumer[c].batch) /\ Entry(c) \in DOMAIN stream /\ Entry(c) \in DOMAIN handled
         /\ Entry(c) \in group.from + 1 .. group.last
         /\ Entry(c) = consumer[c].batch[1] /\ 1 \in DOMAIN consumer[c].batch
<1>1. PICK b \in Seq(Nat) : b = consumer[c].batch
  BY DEF BusTypes, ConsumerRecords
<1>2. b # <<>> /\ Len(b) \in Nat /\ Len(b) >= 1 /\ DOMAIN b = 1 .. Len(b) /\ Head(b) = b[1] /\ b[1] \in Nat
  BY <1>1
<1>3. \A i \in DOMAIN b : group.from < b[i] /\ b[i] <= group.last
  BY <1>1 DEF Holding
<1>4. /\ group.from \in Nat /\ group.last \in Nat /\ group.last <= Len(stream) /\ Len(handled) = Len(stream)
      /\ DOMAIN stream = 1 .. Len(stream) /\ DOMAIN handled = 1 .. Len(stream) /\ Len(stream) \in Nat
  BY DEF BusTypes
<1>5. 1 \in DOMAIN b /\ b[1] \in group.from + 1 .. group.last /\ b[1] \in 1 .. Len(stream)
  BY <1>2, <1>3, <1>4
<1>6. Entry(c) = b[1] /\ b[1] \in ToSet(b)
  BY <1>1, <1>2, <1>5 DEF Entry, ToSet
<1>7. QED
  BY <1>1, <1>4, <1>5, <1>6

LEMMA HeldRead ==
  ASSUME BusTypes, NEW c \in Consumers, Holding(c), NEW n \in ToSet(consumer[c].batch)
  PROVE  /\ n \in DOMAIN stream /\ group.from < n /\ n <= group.last /\ group.exists
         /\ \E i \in DOMAIN consumer[c].batch : n = consumer[c].batch[i]
<1>1. PICK i \in DOMAIN consumer[c].batch : n = consumer[c].batch[i]
  BY DEF ToSet
<1>2. consumer[c].batch \in Seq(Nat) /\ consumer[c].pc \in Places
  BY DEF BusTypes, ConsumerRecords
<1>3. n \in Nat /\ group.from < n /\ n <= group.last
  BY <1>1, <1>2 DEF Holding
<1>4. group.from \in Nat /\ group.last \in Nat /\ group.last <= Len(stream) /\ stream \in Seq(Events)
  BY DEF BusTypes
<1>5. n \in DOMAIN stream
  BY <1>3, <1>4
<1>6. group.exists
  BY <1>3, <1>4 DEF BusTypes, NoGroup
<1>7. QED
  BY <1>1, <1>3, <1>5, <1>6

LEMMA ProgressKeeps ==
  ASSUME BusInv, BusTypes', NEW c \in Consumers, Progress(c), Holding(c)', Handling(c)'
  PROVE  BusInv'
<1>1. BusTypes /\ \A d \in Consumers : Holding(d) /\ Handling(d)
  BY DEF BusInv
<1>2. /\ subscription' = subscription /\ stream' = stream
      /\ \A d \in Consumers : d # c => consumer'[d] = consumer[d]
  BY <1>1 DEF Progress, BusTypes
<1>3. /\ group.from \in Nat /\ group.last \in Nat /\ group'.from \in Nat /\ group'.last \in Nat
      /\ group.exists \in BOOLEAN /\ group'.last >= group.last
      /\ group.exists => group'.exists /\ group'.from = group.from
      /\ ~group.exists => group.last = 0 /\ group.from = 0
  BY <1>1 DEF Progress, BusTypes, NoGroup
<1>4. ASSUME NEW d \in Consumers, d # c, NEW n \in ToSet(consumer[d].batch)
      PROVE  handled'[n] = handled[n] /\ n \in DOMAIN stream /\ n \notin ToSet(consumer'[c].batch) /\ n <= group.last
  <2>1. n \in DOMAIN stream /\ n <= group.last /\ group.from < n
    BY <1>1, <1>4, HeldRead
  <2>2. n \notin ToSet(consumer[c].batch)
    BY <1>4 DEF BusInv, Apart
  <2>3. consumer[c].batch # <<>> => n # Entry(c)
    BY <1>1, <2>2, EntryIs
  <2>4. n \in Nat
    BY <1>1, <2>1 DEF BusTypes
  <2>5. ~(n > group.last)
    BY <1>3, <2>1, <2>4
  <2>6. QED
    BY <2>1, <2>2, <2>3, <2>5 DEF Progress
<1>5. ASSUME NEW d \in Consumers PROVE Holding(d)' /\ Handling(d)'
  <2>1. CASE d = c
    BY <2>1
  <2>2. CASE d # c
    <3>1. PICK k : k = consumer[d] /\ k = consumer'[d]
      BY <1>2, <2>2
    <3>2. Holding(d) /\ Handling(d) /\ k \in ConsumerRecords
      BY <1>1, <3>1 DEF BusTypes
    <3>3. Holding(d)'
      <4>1. k.pc \in WithEntry \cup {"reading"} => group'.exists
        BY <1>3, <3>1, <3>2 DEF Holding
      <4>2. \A i \in DOMAIN k.batch : k.batch[i] \in Nat
        BY <3>2 DEF ConsumerRecords
      <4>3. \A i \in DOMAIN k.batch : group.from < k.batch[i] /\ k.batch[i] <= group.last
        BY <3>1, <3>2 DEF Holding
      <4>4. \A i \in DOMAIN k.batch : group'.from < k.batch[i] /\ k.batch[i] <= group'.last
        BY <1>3, <4>2, <4>3
      <4>5. Can("handler")' <=> Can("handler")
        BY <1>2 DEF Can
      <4>6. QED
        BY <1>2, <3>1, <3>2, <4>1, <4>4, <4>5 DEF Holding
    <3>4. Handling(d)'
      <4>1. \A i \in DOMAIN k.batch : handled'[k.batch[i]] = handled[k.batch[i]]
        BY <1>4, <2>2, <3>1 DEF ToSet
      <4>2. \A i \in DOMAIN k.batch : i > 1 => handled'[k.batch[i]] = <<>>
        BY <3>1, <3>2, <4>1 DEF Handling
      <4>3. ASSUME k.pc \in WithEntry, NEW h \in 1 .. subscription.handlers
            PROVE  Outcomes(Entry(d), h)' = {} <=> h >= k.handler + (IF k.pc = "acking" THEN 1 ELSE 0)
        <5>1. k.batch # <<>>
          BY <3>1, <3>2, <4>3 DEF Holding
        <5>2. PICK n : n = Entry(d) /\ n = Entry(d)' /\ n \in ToSet(consumer[d].batch)
          BY <1>1, <3>1, <5>1, EntryIs DEF Entry
        <5>3. handled'[n] = handled[n]
          BY <1>4, <2>2, <5>2
        <5>4. Outcomes(n, h)' = Outcomes(n, h)
          BY <5>3 DEF Outcomes
        <5>5. Outcomes(n, h) = {} <=> h >= k.handler + (IF k.pc = "acking" THEN 1 ELSE 0)
          BY <3>1, <3>2, <4>3, <5>2 DEF Handling
        <5>6. Outcomes(Entry(d), h)' = Outcomes(n, h)'
          BY <5>2 DEF Outcomes
        <5>7. QED
          BY <5>4, <5>5, <5>6
      <4>4. QED
        BY <1>2, <3>1, <4>2, <4>3 DEF Handling
    <3>5. QED
      BY <3>3, <3>4
  <2>3. QED
    BY <2>1, <2>2
<1>6. Apart'
  <2>1. SUFFICES ASSUME NEW d \in Consumers, NEW b \in Consumers, d # b
                 PROVE  ToSet(consumer'[d].batch) \cap ToSet(consumer'[b].batch) = {}
    BY DEF Apart
  <2>2. CASE d # c /\ b # c
    BY <1>2, <2>1, <2>2 DEF BusInv, Apart
  <2>3. CASE d = c
    BY <1>2, <1>4, <2>1, <2>3
  <2>4. CASE b = c
    BY <1>2, <1>4, <2>1, <2>4
  <2>5. QED
    BY <2>2, <2>3, <2>4
<1>7. Untouched'
  <2>1. SUFFICES ASSUME NEW n \in DOMAIN stream, n > group'.last PROVE handled'[n] = <<>>
    BY <1>2 DEF Untouched
  <2>2. n \in Nat /\ n > group.last
    BY <1>1, <1>3, <2>1 DEF BusTypes
  <2>3. handled[n] = <<>>
    BY <2>2 DEF BusInv, Untouched
  <2>4. consumer[c].batch # <<>> => Entry(c) \in group.from + 1 .. group.last
    BY <1>1, EntryIs
  <2>5. consumer[c].batch # <<>> => n # Entry(c)
    BY <1>3, <2>2, <2>4
  <2>6. QED
    BY <2>3, <2>5 DEF Progress
<1>8. OutcomesOnce'
  BY <1>2 DEF Progress, OutcomesOnce
<1>9. AckedHandled'
  <2>1. SUFFICES ASSUME NEW n \in acked', NEW h \in 1 .. subscription.handlers PROVE Outcomes(n, h)' # {}
    BY <1>2 DEF AckedHandled
  <2>2. CASE n \in acked
    <3>1. n \in DOMAIN stream
      BY <1>1, <1>3, <2>2 DEF BusTypes
    <3>2. Outcomes(n, h) # {}
      BY <2>2 DEF BusInv, AckedHandled
    <3>3. QED
      BY <3>1, <3>2 DEF Progress
  <2>3. QED
    BY <2>1, <2>2 DEF Progress
<1>10. NoneForgotten'
  <2>1. SUFFICES ASSUME subscription.faults \subseteq {"stop"}, NEW n \in group'.from + 1 .. group'.last
                 PROVE  n \in acked' \/ \E d \in Consumers : n \in ToSet(consumer'[d].batch)
    BY <1>2 DEF NoneForgotten
  <2>2. CASE n \in acked' \/ n \in ToSet(consumer'[c].batch)
    BY <2>2
  <2>3. CASE group.exists /\ n <= group.last /\ n \notin ToSet(consumer[c].batch)
    <3>1. n \in group.from + 1 .. group.last
      BY <1>3, <2>1, <2>3
    <3>2. n \in acked \/ \E d \in Consumers : n \in ToSet(consumer[d].batch)
      BY <2>1, <3>1 DEF BusInv, NoneForgotten
    <3>3. CASE n \in acked
      BY <3>3 DEF Progress
    <3>4. ASSUME NEW d \in Consumers, n \in ToSet(consumer[d].batch)
          PROVE  n \in ToSet(consumer'[d].batch)
      BY <1>2, <2>3, <3>4
    <3>5. QED
      BY <3>2, <3>3, <3>4
  <2>4. QED
    BY <2>1, <2>2, <2>3 DEF Progress
<1>11. QED
  BY <1>5, <1>6, <1>7, <1>8, <1>9, <1>10 DEF BusInv

-----------------------------------------------------------------------------
\* The actions of a replica.

LEMMA OutcomesSame ==
  ASSUME BusInv, handled' = handled
  PROVE  \A n \in DOMAIN stream, h \in 1 .. subscription.handlers :
           /\ Outcomes(n, h) # {} => Outcomes(n, h)' # {}
           /\ \A i, j \in Outcomes(n, h)' : i = j
<1>1. \A n, h : Outcomes(n, h)' = Outcomes(n, h)
  BY DEF Outcomes
<1>2. QED
  BY <1>1 DEF BusInv, OutcomesOnce

LEMMA RecordsMake ==
  /\ Down \in ConsumerRecords /\ Down.batch = <<>> /\ Down.handler = 0 /\ Down.pc = "down"
  /\ \A label \in Places :
       LET d == [Down EXCEPT !.pc = label] IN
       d \in ConsumerRecords /\ d.batch = <<>> /\ d.handler = 0 /\ d.pc = label
  /\ \A k \in ConsumerRecords :
       /\ Reading(k) \in ConsumerRecords /\ Reading(k).batch = <<>> /\ Reading(k).handler = 0
       /\ Reading(k).pc \in {"reading", "ended"}
<1>1. <<>> \in Seq(Nat) /\ 0 \in Nat /\ {"down", "reading", "ended"} \subseteq Places /\ FALSE \in BOOLEAN
  BY DEF Places
<1>2. Down \in ConsumerRecords /\ Down.batch = <<>> /\ Down.handler = 0 /\ Down.pc = "down"
  BY <1>1 DEF Down, ConsumerRecords
<1>3. ASSUME NEW label \in Places, NEW d, d = [Down EXCEPT !.pc = label]
      PROVE  d \in ConsumerRecords /\ d.batch = <<>> /\ d.handler = 0 /\ d.pc = label
  BY <1>2, <1>3 DEF ConsumerRecords
<1>4. ASSUME NEW k \in ConsumerRecords
      PROVE  /\ Reading(k) \in ConsumerRecords /\ Reading(k).batch = <<>> /\ Reading(k).handler = 0
             /\ Reading(k).pc \in {"reading", "ended"}
  <2>1. CASE k.running
    <3>1. PICK d : d = [k EXCEPT !.pc = "reading", !.batch = <<>>, !.handler = 0]
      OBVIOUS
    <3>2. d \in ConsumerRecords /\ d.batch = <<>> /\ d.handler = 0 /\ d.pc = "reading"
      BY <1>1, <3>1 DEF ConsumerRecords
    <3>3. QED
      BY <2>1, <3>1, <3>2 DEF Reading
  <2>2. CASE ~k.running
    <3>1. PICK d : d = [Down EXCEPT !.pc = "ended"]
      OBVIOUS
    <3>2. QED
      BY <1>1, <1>3, <2>2, <3>1 DEF Reading
  <2>3. QED
    BY <2>1, <2>2
<1>5. QED
  BY <1>2, <1>3, <1>4

LEMMA ConsumerIs ==
  ASSUME BusInv, NEW c \in Consumers
  PROVE  /\ BusTypes /\ Holding(c) /\ Handling(c) /\ consumer[c] \in ConsumerRecords
         /\ consumer[c].pc \notin WithEntry => consumer[c].batch = <<>> /\ consumer[c].handler = 0
         /\ restarts \in Nat /\ subscription.handlers \in Nat
<1>1. BusTypes /\ Holding(c) /\ Handling(c)
  BY DEF BusInv
<1>2. QED
  BY <1>1, DeliveryAssumption DEF BusTypes, Holding

LEMMA AckingIs ==
  ASSUME BusInv, NEW c \in Consumers, consumer[c].pc = "acking"
  PROVE  /\ Entry(c) \in group.from + 1 .. group.last
         /\ \A h \in 1 .. subscription.handlers : Outcomes(Entry(c), h) # {}
<1>1. BusTypes /\ Holding(c) /\ Handling(c) /\ subscription.handlers \in Nat
  BY ConsumerIs
<1>2. consumer[c].batch # <<>> /\ consumer[c].handler = subscription.handlers
  BY <1>1 DEF Holding, WithEntry
<1>3. ASSUME NEW h \in 1 .. subscription.handlers PROVE ~(h >= consumer[c].handler + 1)
  BY <1>1, <1>2
<1>4. \A h \in 1 .. subscription.handlers : Outcomes(Entry(c), h) # {}
  BY <1>1, <1>3 DEF Handling, WithEntry
<1>5. QED
  BY <1>1, <1>2, <1>4, EntryIs

\* A replica that holds nothing after the step: only a fault makes it lose what it held.
LEMMA IdleKeeps ==
  ASSUME BusInv, NEW c \in Consumers, NEW k \in ConsumerRecords,
         k.batch = <<>>, k.handler = 0, k.pc \notin WithEntry, k.pc = "reading" => group'.exists,
         consumer' = [consumer EXCEPT ![c] = k], UNCHANGED <<subscription, stream, handled>>, restarts' \in Nat,
         group' \in [exists : BOOLEAN, from : Nat, last : Nat],
         group'.from <= group'.last, group.last <= group'.last, group'.last <= Len(stream),
         ~group'.exists => group' = NoGroup, group.exists => group'.exists /\ group'.from = group.from,
         acked' = acked \/ (consumer[c].pc = "acking" /\ acked' = acked \cup {Entry(c)}),
         subscription.faults \subseteq {"stop"} =>
           consumer[c].batch = <<>> /\ (group' = group \/ group'.from = group'.last)
  PROVE  BusInv'
<1>1. BusTypes /\ Holding(c) /\ Handling(c)
  BY DEF BusInv
<1>2. consumer'[c] = k /\ consumer' = [consumer EXCEPT ![c] = consumer'[c]] /\ consumer' \in [Consumers -> ConsumerRecords]
  BY <1>1 DEF BusTypes
<1>3. group.last \in Nat /\ group.from \in Nat /\ group'.last \in Nat /\ group'.from \in Nat /\ acked \subseteq 1 .. group.last
      /\ (~group.exists => group.last = 0)
  BY <1>1 DEF BusTypes, NoGroup
<1>4. consumer[c].pc = "acking" =>
        /\ Entry(c) \in group.from + 1 .. group.last
        /\ \A h \in 1 .. subscription.handlers : Outcomes(Entry(c), h) # {}
  BY AckingIs
<1>5. acked' \subseteq 1 .. group'.last
  <2>1. acked \subseteq 1 .. group'.last
    BY <1>3
  <2>2. consumer[c].pc = "acking" => Entry(c) \in 1 .. group'.last
    BY <1>3, <1>4
  <2>3. QED
    BY <2>1, <2>2
<1>6. BusTypes'
  BY <1>1, <1>2, <1>5 DEF BusTypes
<1>7. Holding(c)' /\ Handling(c)'
  <2>1. DOMAIN k.batch = {} /\ k.pc \notin {"handling", "counting", "acking"} /\ ToSet(k.batch) = {} /\ Injective(k.batch)
    BY Emptied DEF WithEntry
  <2>2. QED
    BY <1>2, <2>1 DEF Holding, Handling, WithEntry
<1>8. \A n \in acked' : n \in acked \/ \A h \in 1 .. subscription.handlers : Outcomes(n, h)' # {}
  <2>1. \A n, h : Outcomes(n, h)' = Outcomes(n, h)
    BY DEF Outcomes
  <2>2. PICK n : n = Entry(c)
    OBVIOUS
  <2>3. QED
    BY <1>4, <2>1, <2>2
<1>9. subscription.faults \subseteq {"stop"} =>
        \A n \in group'.from + 1 .. group'.last : group.exists /\ n <= group.last /\ n \notin ToSet(consumer[c].batch)
  <2>1. SUFFICES ASSUME subscription.faults \subseteq {"stop"}, NEW n \in group'.from + 1 .. group'.last
                 PROVE  group.exists /\ n <= group.last /\ n \notin ToSet(consumer[c].batch)
    OBVIOUS
  <2>2. group' = group
    BY <1>3, <2>1
  <2>3. group.exists /\ n <= group.last
    BY <1>3, <2>1, <2>2
  <2>4. consumer[c].batch = <<>>
    BY <2>1
  <2>5. QED
    BY <2>3, <2>4, Emptied
<1>10. ToSet(consumer'[c].batch) = {} /\ acked \subseteq acked' /\ group'.last >= group.last
  BY <1>2, <1>3, Emptied
<1>11. Progress(c)
  BY <1>2, <1>8, <1>9, <1>10, OutcomesSame DEF Progress
<1>12. QED
  BY <1>6, <1>7, <1>11, ProgressKeeps

\* A replica whose batch and handler stay: it is told to stop, or a handler has failed.
LEMMA HeldKeeps ==
  ASSUME BusInv, NEW c \in Consumers, NEW k \in ConsumerRecords,
         k.batch = consumer[c].batch, k.handler = consumer[c].handler,
         k.pc = consumer[c].pc \/ (Can("handler") /\ consumer[c].pc = "handling" /\ k.pc = "counting"),
         consumer' = [consumer EXCEPT ![c] = k], UNCHANGED <<subscription, stream, group, acked, handled, restarts>>
  PROVE  BusInv'
<1>1. BusTypes /\ Holding(c) /\ Handling(c)
  BY DEF BusInv
<1>2. consumer'[c] = k /\ consumer' = [consumer EXCEPT ![c] = consumer'[c]] /\ consumer' \in [Consumers -> ConsumerRecords]
  BY <1>1 DEF BusTypes
<1>3. BusTypes'
  BY <1>1, <1>2 DEF BusTypes
<1>4. PICK m : m = consumer[c]
  OBVIOUS
<1>5. m.pc \in WithEntry <=> k.pc \in WithEntry
  BY <1>4 DEF WithEntry
<1>6. (m.pc = "acking" <=> k.pc = "acking") /\ (m.pc = "reading" <=> k.pc = "reading")
      /\ (k.pc = "counting" => m.pc = "counting" \/ Can("handler"))
  BY <1>4
<1>7. Holding(c)'
  BY <1>1, <1>2, <1>4, <1>5, <1>6 DEF Holding, Can
<1>8. Entry(c)' = Entry(c)
  BY <1>2 DEF Entry
<1>9. \A h : Outcomes(Entry(c), h)' = Outcomes(Entry(c), h)
  BY <1>8 DEF Outcomes
<1>10. Handling(c)'
  BY <1>1, <1>2, <1>4, <1>5, <1>6, <1>9 DEF Handling
<1>11. group.last \in Nat /\ group.from \in Nat /\ (~group.exists => group.last = 0 /\ group.from = 0)
  BY <1>1 DEF BusTypes, NoGroup
<1>12. \A n \in group.from + 1 .. group.last : group.exists /\ n <= group.last
  BY <1>11
<1>13. Progress(c)
  BY <1>2, <1>11, <1>12, OutcomesSame DEF Progress
<1>14. QED
  BY <1>3, <1>7, <1>10, <1>13, ProgressKeeps

LEMMA EndsIs ==
  ASSUME NEW c \in Consumers, Ends(c)
  PROVE  \E k \in ConsumerRecords :
           /\ k.batch = <<>> /\ k.handler = 0 /\ k.pc = "ended" /\ k.pc \notin WithEntry
           /\ consumer' = [consumer EXCEPT ![c] = k]
<1>1. PICK k : k = [Down EXCEPT !.pc = "ended"]
  OBVIOUS
<1>2. "ended" \in Places /\ "ended" \notin WithEntry
  BY DEF Places, WithEntry
<1>3. k \in ConsumerRecords /\ k.batch = <<>> /\ k.handler = 0 /\ k.pc = "ended"
  BY <1>1, <1>2, RecordsMake
<1>4. QED
  BY <1>1, <1>2, <1>3 DEF Ends, Moves

LEMMA GroupStays ==
  ASSUME BusTypes, group' = group
  PROVE  /\ group' \in [exists : BOOLEAN, from : Nat, last : Nat]
         /\ group'.from <= group'.last /\ group.last <= group'.last /\ group'.last <= Len(stream)
         /\ ~group'.exists => group' = NoGroup
         /\ group.exists => group'.exists /\ group'.from = group.from
BY DEF BusTypes

\* A loop that ends without a fault of its own held nothing.
LEMMA EndsKeep ==
  ASSUME BusInv, NEW c \in Consumers, Ends(c), UNCHANGED <<subscription, stream, group, handled, restarts>>,
         acked' = acked \/ (consumer[c].pc = "acking" /\ acked' = acked \cup {Entry(c)}),
         Can("redis") \/ consumer[c].batch = <<>>
  PROVE  BusInv'
<1>1. PICK k \in ConsumerRecords :
        /\ k.batch = <<>> /\ k.handler = 0 /\ k.pc = "ended" /\ k.pc \notin WithEntry
        /\ consumer' = [consumer EXCEPT ![c] = k]
  BY EndsIs
<1>2. BusTypes /\ restarts' \in Nat
  BY ConsumerIs
<1>3. subscription.faults \subseteq {"stop"} => consumer[c].batch = <<>>
  BY DEF Can
<1>4. QED
  BY <1>1, <1>2, <1>3, GroupStays, IdleKeeps

LEMMA BootKeeps ==
  ASSUME BusInv, NEW c \in Consumers, Boot(c)
  PROVE  BusInv'
<1>1. PICK k : k = [Down EXCEPT !.pc = "subscribing"]
  OBVIOUS
<1>2. "subscribing" \in Places /\ "subscribing" \notin WithEntry /\ "down" \notin WithEntry
  BY DEF Places, WithEntry
<1>3. k \in ConsumerRecords /\ k.batch = <<>> /\ k.handler = 0 /\ k.pc = "subscribing"
  BY <1>1, <1>2, RecordsMake
<1>4. BusTypes /\ restarts \in Nat /\ consumer[c].batch = <<>>
  BY <1>2, ConsumerIs DEF Boot, In
<1>5. QED
  BY <1>1, <1>2, <1>3, <1>4, GroupStays, IdleKeeps DEF Boot, Moves

LEMMA RestartKeeps ==
  ASSUME BusInv, NEW c \in Consumers, Restart(c)
  PROVE  BusInv'
<1>1. BusTypes /\ restarts \in Nat /\ (consumer[c].pc = "ended" => consumer[c].batch = <<>>)
  BY ConsumerIs DEF WithEntry
<1>2. restarts' \in Nat
  BY <1>1 DEF Restart
<1>3. subscription.faults \subseteq {"stop"} => consumer[c].batch = <<>>
  BY <1>1 DEF Restart, In, Can
<1>4. "down" \notin WithEntry
  BY DEF WithEntry
<1>5. QED
  BY <1>1, <1>2, <1>3, <1>4, RecordsMake, GroupStays, IdleKeeps DEF Restart, Moves

LEMMA SubscribeKeeps ==
  ASSUME BusInv, NEW c \in Consumers, Subscribe(c)
  PROVE  BusInv'
<1>1. /\ BusTypes /\ restarts \in Nat /\ consumer[c] \in ConsumerRecords /\ consumer[c].batch = <<>>
  BY ConsumerIs DEF Subscribe, In, WithEntry
<1>2. UNCHANGED <<subscription, stream, acked, handled, restarts>>
  BY DEF Subscribe
<1>3. /\ Created \in [exists : BOOLEAN, from : Nat, last : Nat] /\ Created.exists
      /\ Created.from <= Created.last /\ group.last <= Created.last /\ Created.last <= Len(stream)
      /\ group.exists => Created = group
      /\ Created = group \/ Created.from = Created.last
  <2>1. CASE group.exists
    BY <1>1, <2>1 DEF Created, BusTypes
  <2>2. CASE ~group.exists
    <3>1. Len(stream) \in Nat /\ group.last <= Len(stream)
      BY <1>1 DEF BusTypes
    <3>2. QED
      BY <2>2, <3>1 DEF Created
  <2>3. QED
    BY <2>1, <2>2
<1>4. CASE group' = Created /\ Moves(c, Reading([consumer[c] EXCEPT !.running = TRUE]))
  <2>1. PICK k : k = Reading([consumer[c] EXCEPT !.running = TRUE])
    OBVIOUS
  <2>2. [consumer[c] EXCEPT !.running = TRUE] \in ConsumerRecords
    BY <1>1 DEF ConsumerRecords
  <2>3. k \in ConsumerRecords /\ k.batch = <<>> /\ k.handler = 0 /\ k.pc \in {"reading", "ended"}
    BY <2>1, <2>2, RecordsMake
  <2>4. k.pc \notin WithEntry
    BY <2>3 DEF WithEntry
  <2>5. consumer' = [consumer EXCEPT ![c] = k]
    BY <1>4, <2>1 DEF Moves
  <2>6. QED
    BY <1>1, <1>2, <1>3, <1>4, <2>3, <2>4, <2>5, IdleKeeps
<1>5. CASE group' \in {group, Created} /\ Ends(c)
  <2>1. PICK k \in ConsumerRecords :
          /\ k.batch = <<>> /\ k.handler = 0 /\ k.pc = "ended" /\ k.pc \notin WithEntry
          /\ consumer' = [consumer EXCEPT ![c] = k]
    BY <1>5, EndsIs
  <2>2. CASE group' = group
    BY <1>1, <1>2, <2>1, <2>2, GroupStays, IdleKeeps
  <2>3. CASE group' = Created
    BY <1>1, <1>2, <1>3, <2>1, <2>3, IdleKeeps
  <2>4. QED
    BY <1>5, <2>2, <2>3
<1>6. QED
  BY <1>4, <1>5 DEF Subscribe

LEMMA TakenIs ==
  ASSUME BusTypes, Taken # <<>>, NEW t, t = Taken
  PROVE  /\ t \in Seq(Nat) /\ t # <<>> /\ Injective(t) /\ 1 \in DOMAIN t
         /\ Last(t) \in Nat /\ Last(t) <= Len(stream) /\ group.last < Last(t)
         /\ \A i \in DOMAIN t : t[i] \in Nat /\ t[i] = group.last + i /\ t[i] <= Last(t)
         /\ \A n \in group.last + 1 .. Last(t) : n \in ToSet(t)
         /\ \A n \in ToSet(t) : n > group.last /\ n \in Nat
<1>1. group.last \in Nat /\ Len(stream) \in Nat /\ group.last <= Len(stream) /\ ReadCount \in Nat
  BY DeliveryAssumption DEF BusTypes
<1>2. PICK m \in Nat : /\ m = (IF Len(stream) - group.last < ReadCount THEN Len(stream) - group.last ELSE ReadCount)
                       /\ m <= Len(stream) - group.last
  BY <1>1
<1>3. t = [i \in 1 .. m |-> group.last + i]
  BY <1>2 DEF Taken
<1>4. t \in Seq(Nat) /\ Len(t) = m /\ DOMAIN t = 1 .. m /\ \A i \in 1 .. m : t[i] = group.last + i
  BY <1>1, <1>3
<1>5. m >= 1
  <2>1. m = 0 => t = <<>>
    BY <1>4, EmptySeq
  <2>2. QED
    BY <1>2, <2>1
<1>6. Last(t) = group.last + m
  BY <1>1, <1>4, <1>5 DEF Last
<1>7. Injective(t)
  BY <1>1, <1>4 DEF Injective
<1>8. ASSUME NEW n \in group.last + 1 .. Last(t) PROVE n \in ToSet(t)
  <2>1. n - group.last \in 1 .. m /\ n = group.last + (n - group.last)
    BY <1>1, <1>2, <1>6
  <2>2. t[n - group.last] = n
    BY <1>4, <2>1
  <2>3. QED
    BY <1>4, <2>1, <2>2 DEF ToSet
<1>9. \A n \in ToSet(t) : n > group.last /\ n \in Nat
  BY <1>1, <1>4 DEF ToSet
<1>10. QED
  BY <1>1, <1>2, <1>4, <1>5, <1>6, <1>7, <1>8, <1>9

LEMMA TakeKeeps ==
  ASSUME BusInv, NEW c \in Consumers, subscription.handlers > 0, Read(c)
  PROVE  BusInv'
<1>1. /\ BusTypes /\ restarts \in Nat /\ consumer[c] \in ConsumerRecords /\ consumer[c].batch = <<>> /\ Holding(c)
      /\ subscription.handlers \in Nat
  BY ConsumerIs DEF Read, In, WithEntry
<1>2. consumer[c].pc = "reading" /\ UNCHANGED <<subscription, stream, acked, handled, restarts>>
  BY DEF Read, In
<1>3. PICK t : t = Taken
  OBVIOUS
<1>4. /\ t \in Seq(Nat) /\ t # <<>> /\ Injective(t) /\ 1 \in DOMAIN t
      /\ Last(t) \in Nat /\ Last(t) <= Len(stream) /\ group.last < Last(t)
      /\ \A i \in DOMAIN t : t[i] \in Nat /\ t[i] = group.last + i /\ t[i] <= Last(t)
      /\ \A n \in group.last + 1 .. Last(t) : n \in ToSet(t)
      /\ \A n \in ToSet(t) : n > group.last /\ n \in Nat
  BY <1>1, <1>3, TakenIs DEF Read
<1>5. /\ group.exists /\ group.from \in Nat /\ group.last \in Nat /\ group.from <= group.last
      /\ group \in [exists : BOOLEAN, from : Nat, last : Nat]
  BY <1>1, <1>2 DEF Holding, BusTypes
<1>6. group' = [group EXCEPT !.last = Last(t)]
  BY <1>3 DEF Read
<1>7. /\ group' \in [exists : BOOLEAN, from : Nat, last : Nat]
      /\ group'.exists /\ group'.from = group.from /\ group'.last = Last(t)
  BY <1>4, <1>5, <1>6
<1>8. CASE Can("redis") /\ Ends(c)
  <2>1. PICK k \in ConsumerRecords :
          /\ k.batch = <<>> /\ k.handler = 0 /\ k.pc = "ended" /\ k.pc \notin WithEntry
          /\ consumer' = [consumer EXCEPT ![c] = k]
    BY <1>8, EndsIs
  <2>2. ~(subscription.faults \subseteq {"stop"})
    BY <1>8 DEF Can
  <2>3. group'.from <= group'.last /\ group.last <= group'.last /\ group'.last <= Len(stream)
    BY <1>4, <1>5, <1>7
  <2>4. QED
    BY <1>1, <1>2, <1>7, <2>1, <2>2, <2>3, IdleKeeps
<1>9. CASE Moves(c, [consumer[c] EXCEPT !.pc = "handling", !.handler = 1, !.batch = Taken])
  <2>1. PICK k : k = [consumer[c] EXCEPT !.pc = "handling", !.handler = 1, !.batch = t]
    OBVIOUS
  <2>2. k \in ConsumerRecords /\ k.pc = "handling" /\ k.handler = 1 /\ k.batch = t
    <3>1. "handling" \in Places /\ 1 \in Nat
      BY DEF Places
    <3>2. QED
      BY <1>1, <1>4, <2>1, <3>1 DEF ConsumerRecords
  <2>3. consumer' = [consumer EXCEPT ![c] = k]
    BY <1>3, <1>9, <2>1 DEF Moves
  <2>4. consumer'[c] = k /\ consumer' = [consumer EXCEPT ![c] = consumer'[c]] /\ consumer' \in [Consumers -> ConsumerRecords]
    BY <1>1, <2>2, <2>3 DEF BusTypes
  <2>5. BusTypes'
    <3>1. acked' \subseteq 1 .. group'.last
      BY <1>1, <1>2, <1>4, <1>5, <1>7 DEF BusTypes
    <3>2. group'.from <= group'.last /\ group'.last <= Len(stream)
      BY <1>4, <1>5, <1>7
    <3>3. QED
      BY <1>1, <1>2, <1>7, <2>4, <3>1, <3>2 DEF BusTypes
  <2>6. Holding(c)'
    <3>1. \A i \in DOMAIN t : group'.from < t[i] /\ t[i] <= group'.last
      <4>1. SUFFICES ASSUME NEW i \in DOMAIN t PROVE group'.from < t[i] /\ t[i] <= group'.last
        OBVIOUS
      <4>2. i \in Nat /\ i >= 1 /\ t[i] = group.last + i /\ t[i] <= Last(t)
        BY <1>4
      <4>3. QED
        BY <1>5, <1>7, <4>2
    <3>2. 1 \in 1 .. subscription'.handlers
      BY <1>1, <1>2
    <3>3. QED
      BY <1>4, <1>7, <2>2, <2>4, <3>1, <3>2 DEF Holding, WithEntry
  <2>7. \A i \in DOMAIN t : handled'[t[i]] = <<>> /\ t[i] \in DOMAIN stream
    <3>1. SUFFICES ASSUME NEW i \in DOMAIN t PROVE handled[t[i]] = <<>> /\ t[i] \in DOMAIN stream
      BY <1>2
    <3>2. i \in Nat /\ i >= 1 /\ t[i] = group.last + i /\ t[i] <= Last(t)
      BY <1>4
    <3>3. t[i] \in DOMAIN stream /\ t[i] > group.last
      <4>1. DOMAIN stream = 1 .. Len(stream) /\ Len(stream) \in Nat
        BY <1>1 DEF BusTypes
      <4>2. Last(t) \in Nat /\ Last(t) <= Len(stream) /\ t[i] \in Nat
        BY <1>4
      <4>3. QED
        BY <1>5, <3>2, <4>1, <4>2
    <3>4. QED
      BY <3>3 DEF BusInv, Untouched
  <2>8. Handling(c)'
    <3>1. ASSUME NEW h \in 1 .. subscription.handlers PROVE Outcomes(Entry(c), h)' = {} /\ h >= 1
      <4>1. PICK n : n = t[1]
        OBVIOUS
      <4>2. Entry(c)' = n
        BY <1>4, <2>2, <2>4, <4>1 DEF Entry
      <4>3. handled'[n] = <<>>
        BY <1>4, <2>7, <4>1
      <4>4. QED
        BY <1>1, <4>2, <4>3 DEF Outcomes
    <3>2. k.handler + (IF k.pc = "acking" THEN 1 ELSE 0) = 1
      BY <2>2
    <3>3. QED
      BY <1>2, <2>2, <2>4, <2>7, <3>1, <3>2 DEF Handling
  <2>9. \A n \in group'.from + 1 .. group'.last :
          n \in ToSet(consumer'[c].batch) \/ (n <= group.last /\ n \notin ToSet(consumer[c].batch))
    <3>1. SUFFICES ASSUME NEW n \in group'.from + 1 .. group'.last, ~(n <= group.last) PROVE n \in ToSet(t)
      BY <1>1, <2>2, <2>4, Emptied
    <3>2. n \in group.last + 1 .. Last(t)
      BY <1>5, <1>7, <3>1
    <3>3. QED
      BY <1>4, <3>2
  <2>10. group'.last >= group.last
    BY <1>4, <1>5, <1>7
  <2>11. \A n \in ToSet(consumer'[c].batch) : n > group.last
    BY <1>4, <2>2, <2>4
  <2>12. Progress(c)
    BY <1>2, <1>5, <1>7, <2>4, <2>9, <2>10, <2>11, OutcomesSame DEF Progress
  <2>13. QED
    BY <2>5, <2>6, <2>8, <2>12, ProgressKeeps
<1>10. QED
  BY <1>8, <1>9 DEF Read

LEMMA StopKeeps ==
  ASSUME BusInv, NEW c \in Consumers, Stop(c)
  PROVE  BusInv'
<1>1. PICK k : k = [consumer[c] EXCEPT !.running = FALSE]
  OBVIOUS
<1>2. k \in ConsumerRecords /\ k.batch = consumer[c].batch /\ k.handler = consumer[c].handler /\ k.pc = consumer[c].pc
  BY <1>1, ConsumerIs DEF ConsumerRecords
<1>3. QED
  BY <1>1, <1>2, HeldKeeps DEF Stop, Moves

LEMMA FailedKeeps ==
  ASSUME BusInv, NEW c \in Consumers, consumer[c].pc = "handling", Can("handler"),
         Moves(c, [consumer[c] EXCEPT !.pc = "counting"]),
         UNCHANGED <<subscription, stream, group, acked, handled, restarts>>
  PROVE  BusInv'
<1>1. PICK k : k = [consumer[c] EXCEPT !.pc = "counting"]
  OBVIOUS
<1>2. "counting" \in Places
  BY DEF Places
<1>3. k \in ConsumerRecords /\ k.batch = consumer[c].batch /\ k.handler = consumer[c].handler /\ k.pc = "counting"
  BY <1>1, <1>2, ConsumerIs DEF ConsumerRecords
<1>4. QED
  BY <1>1, <1>3, HeldKeeps DEF Moves

-----------------------------------------------------------------------------
\* A handler has had its entry: one outcome more, of this handler.

LEMMA OutcomeAdded ==
  ASSUME handled \in Seq(Seq(Outcome)), NEW n \in DOMAIN handled, NEW o \in Outcome,
         handled' = [handled EXCEPT ![n] = Append(handled[n], o)]
  PROVE  /\ handled' \in Seq(Seq(Outcome)) /\ Len(handled') = Len(handled) /\ DOMAIN handled' = DOMAIN handled
         /\ \A m \in DOMAIN handled : m # n => handled'[m] = handled[m] /\ \A h : Outcomes(m, h)' = Outcomes(m, h)
         /\ \A h : h # o.handler => Outcomes(n, h)' = Outcomes(n, h)
         /\ Outcomes(n, o.handler)' = Outcomes(n, o.handler) \cup {Len(handled[n]) + 1}
<1>1. PICK s \in Seq(Outcome) : s = handled[n]
  <2>1. handled[n] \in Seq(Outcome)
    OBVIOUS
  <2>2. QED
    BY <2>1
<1>2. PICK s2 \in Seq(Outcome) : s2 = Append(s, o)
  <2>1. Append(s, o) \in Seq(Outcome)
    OBVIOUS
  <2>2. QED
    BY <2>1
<1>3. handled' = [handled EXCEPT ![n] = s2]
  BY <1>1, <1>2
<1>4. /\ handled' \in Seq(Seq(Outcome)) /\ Len(handled') = Len(handled) /\ DOMAIN handled' = DOMAIN handled
      /\ handled'[n] = s2 /\ \A m \in DOMAIN handled : m # n => handled'[m] = handled[m]
  BY <1>3
<1>5. \A m \in DOMAIN handled : m # n => \A h : Outcomes(m, h)' = Outcomes(m, h)
  BY <1>4 DEF Outcomes
<1>6. /\ Len(s) \in Nat /\ DOMAIN s = 1 .. Len(s) /\ DOMAIN s2 = 1 .. Len(s) + 1
      /\ \A i \in 1 .. Len(s) : s2[i] = s[i] /\ i \in 1 .. Len(s) + 1
      /\ s2[Len(s) + 1] = o /\ Len(s) + 1 \in 1 .. Len(s) + 1
      /\ \A i \in 1 .. Len(s) + 1 : i \in 1 .. Len(s) \/ i = Len(s) + 1
  BY <1>2
<1>7. ASSUME NEW h PROVE Outcomes(n, h)' = {i \in DOMAIN s2 : s2[i].handler = h} /\ Outcomes(n, h) = {i \in DOMAIN s : s[i].handler = h}
  BY <1>1, <1>4 DEF Outcomes
<1>8. ASSUME NEW h, h # o.handler PROVE Outcomes(n, h)' = Outcomes(n, h)
  <2>1. \A i : i \in {j \in DOMAIN s2 : s2[j].handler = h} <=> i \in {j \in DOMAIN s : s[j].handler = h}
    BY <1>6, <1>8
  <2>2. QED
    BY <1>7, <2>1
<1>9. Outcomes(n, o.handler)' = Outcomes(n, o.handler) \cup {Len(handled[n]) + 1}
  <2>1. PICK h : h = o.handler
    OBVIOUS
  <2>2. \A i : i \in {j \in DOMAIN s2 : s2[j].handler = h} <=> i \in {j \in DOMAIN s : s[j].handler = h} \/ i = Len(s) + 1
    BY <1>6, <2>1
  <2>3. Outcomes(n, h)' = Outcomes(n, h) \cup {Len(s) + 1}
    BY <1>7, <2>2
  <2>4. QED
    BY <1>1, <2>1, <2>3
<1>10. QED
  BY <1>4, <1>5, <1>8, <1>9

LEMMA HandledKeeps ==
  ASSUME BusInv, NEW c \in Consumers, consumer[c].pc \in {"handling", "counting"},
         NEW what \in {"done", "dead"}, Did(c, what), NextHandler(c),
         UNCHANGED <<subscription, stream, group, acked, restarts>>
  PROVE  BusInv'
<1>1. /\ BusTypes /\ Holding(c) /\ Handling(c) /\ consumer[c] \in ConsumerRecords /\ subscription.handlers \in Nat
      /\ \A d \in Consumers : Holding(d) /\ Handling(d)
  BY ConsumerIs DEF BusInv
<1>2. PICK m \in ConsumerRecords : m = consumer[c]
  BY <1>1
<1>3. m.pc \in WithEntry /\ m.pc # "acking" /\ m.batch # <<>> /\ m.handler \in 1 .. subscription.handlers /\ m.batch \in Seq(Nat)
  BY <1>1, <1>2 DEF Holding, WithEntry, ConsumerRecords
<1>4. PICK n : n = Entry(c)
  OBVIOUS
<1>5. /\ n \in DOMAIN stream /\ n \in DOMAIN handled /\ n = m.batch[1] /\ 1 \in DOMAIN m.batch
      /\ DOMAIN handled = DOMAIN stream
  BY <1>1, <1>2, <1>3, <1>4, EntryIs DEF BusTypes
<1>6. PICK o \in Outcome : o = [handler |-> m.handler, what |-> what]
  <2>1. m.handler \in Nat
    BY <1>2 DEF ConsumerRecords
  <2>2. [handler |-> m.handler, what |-> what] \in Outcome
    BY <2>1 DEF Outcome
  <2>3. QED
    BY <2>2
<1>7. handled' = [handled EXCEPT ![n] = Append(handled[n], o)] /\ o.handler = m.handler
  BY <1>2, <1>4, <1>6 DEF Did
<1>8. /\ handled' \in Seq(Seq(Outcome)) /\ Len(handled') = Len(handled)
      /\ \A i \in DOMAIN handled : i # n => handled'[i] = handled[i] /\ \A h : Outcomes(i, h)' = Outcomes(i, h)
      /\ \A h : h # m.handler => Outcomes(n, h)' = Outcomes(n, h)
      /\ Outcomes(n, m.handler)' = Outcomes(n, m.handler) \cup {Len(handled[n]) + 1}
  <2>1. handled \in Seq(Seq(Outcome))
    BY <1>1 DEF BusTypes
  <2>2. /\ handled' \in Seq(Seq(Outcome)) /\ Len(handled') = Len(handled)
        /\ \A i \in DOMAIN handled : i # n => handled'[i] = handled[i] /\ \A h : Outcomes(i, h)' = Outcomes(i, h)
        /\ \A h : h # o.handler => Outcomes(n, h)' = Outcomes(n, h)
        /\ Outcomes(n, o.handler)' = Outcomes(n, o.handler) \cup {Len(handled[n]) + 1}
    BY <1>5, <1>7, <2>1, OutcomeAdded
  <2>3. QED
    BY <1>7, <2>2
<1>9. \A h \in 1 .. subscription.handlers : Outcomes(n, h) = {} <=> h >= m.handler
  <2>1. m.handler + (IF m.pc = "acking" THEN 1 ELSE 0) = m.handler
    BY <1>3
  <2>2. QED
    BY <1>1, <1>2, <1>3, <1>4, <2>1 DEF Handling
<1>10. \A h \in 1 .. subscription.handlers : Outcomes(n, h)' = {} <=> h >= m.handler + 1
  <2>1. SUFFICES ASSUME NEW h \in 1 .. subscription.handlers PROVE Outcomes(n, h)' = {} <=> h >= m.handler + 1
    OBVIOUS
  <2>2. m.handler \in Nat /\ h \in Nat
    BY <1>1, <1>3
  <2>3. CASE h = m.handler
    <3>1. Outcomes(n, m.handler)' # {}
      BY <1>8
    <3>2. ~(h >= m.handler + 1)
      BY <2>2, <2>3
    <3>3. QED
      BY <2>3, <3>1, <3>2
  <2>4. CASE h # m.handler
    <3>1. Outcomes(n, h)' = {} <=> h >= m.handler
      BY <1>8, <1>9, <2>4
    <3>2. QED
      BY <2>2, <2>4, <3>1
  <2>5. QED
    BY <2>3, <2>4
<1>11. PICK k \in ConsumerRecords :
         /\ consumer' = [consumer EXCEPT ![c] = k] /\ k.batch = m.batch
         /\ \/ k.pc = "handling" /\ k.handler = m.handler + 1 /\ k.handler \in 1 .. subscription.handlers
            \/ k.pc = "acking" /\ k.handler = m.handler /\ k.handler = subscription.handlers
  <2>1. "handling" \in Places /\ "acking" \in Places /\ m.handler \in Nat /\ m.handler + 1 \in Nat
    BY <1>1, <1>3 DEF Places
  <2>2. CASE m.handler < subscription.handlers
    <3>1. PICK k : k = [m EXCEPT !.pc = "handling", !.handler = m.handler + 1]
      OBVIOUS
    <3>2. k \in ConsumerRecords /\ k.pc = "handling" /\ k.handler = m.handler + 1 /\ k.batch = m.batch
      BY <2>1, <3>1 DEF ConsumerRecords
    <3>3. consumer' = [consumer EXCEPT ![c] = k]
      BY <1>2, <2>2, <3>1 DEF NextHandler, Moves
    <3>4. m.handler + 1 \in 1 .. subscription.handlers
      BY <1>1, <1>3, <2>2
    <3>5. QED
      BY <3>2, <3>3, <3>4
  <2>3. CASE ~(m.handler < subscription.handlers)
    <3>1. PICK k : k = [m EXCEPT !.pc = "acking"]
      OBVIOUS
    <3>2. k \in ConsumerRecords /\ k.pc = "acking" /\ k.handler = m.handler /\ k.batch = m.batch
      BY <2>1, <3>1 DEF ConsumerRecords
    <3>3. consumer' = [consumer EXCEPT ![c] = k]
      BY <1>2, <2>3, <3>1 DEF NextHandler, Moves
    <3>4. m.handler = subscription.handlers
      BY <1>1, <1>3, <2>3
    <3>5. QED
      BY <3>2, <3>3, <3>4
  <2>4. QED
    BY <2>2, <2>3
<1>12. consumer'[c] = k /\ consumer' = [consumer EXCEPT ![c] = consumer'[c]] /\ consumer' \in [Consumers -> ConsumerRecords]
  BY <1>1, <1>11 DEF BusTypes
<1>13. BusTypes'
  BY <1>1, <1>8, <1>12 DEF BusTypes
<1>14. k.pc \in WithEntry /\ k.handler \in 1 .. subscription.handlers
       /\ k.handler + (IF k.pc = "acking" THEN 1 ELSE 0) = m.handler + 1
  BY <1>1, <1>3, <1>11 DEF WithEntry
<1>15. Holding(c)'
  <2>1. Injective(m.batch) /\ group.exists /\ \A i \in DOMAIN m.batch : group.from < m.batch[i] /\ m.batch[i] <= group.last
    BY <1>1, <1>2, <1>3 DEF Holding
  <2>2. QED
    BY <1>3, <1>11, <1>12, <1>14, <2>1 DEF Holding
<1>16. Handling(c)'
  <2>1. ASSUME NEW i \in DOMAIN m.batch, i > 1 PROVE handled'[m.batch[i]] = <<>>
    <3>1. m.batch[i] # n
      BY <1>1, <1>2, <1>5, <2>1 DEF Holding, Injective
    <3>2. m.batch[i] \in DOMAIN handled
      <4>1. m.batch[i] \in ToSet(consumer[c].batch)
        BY <1>2 DEF ToSet
      <4>2. QED
        BY <1>1, <1>5, <4>1, HeldRead
    <3>3. handled[m.batch[i]] = <<>>
      BY <1>1, <1>2, <2>1 DEF Handling
    <3>4. QED
      BY <1>8, <3>1, <3>2, <3>3
  <2>2. Entry(c)' = n
    BY <1>2, <1>4, <1>11, <1>12 DEF Entry
  <2>3. \A h : Outcomes(Entry(c), h)' = Outcomes(n, h)'
    BY <2>2 DEF Outcomes
  <2>4. QED
    BY <1>10, <1>11, <1>12, <1>14, <2>1, <2>3 DEF Handling
<1>17. ASSUME NEW i \in DOMAIN stream, NEW h \in 1 .. subscription.handlers
       PROVE  /\ Outcomes(i, h) # {} => Outcomes(i, h)' # {}
              /\ \A a, b \in Outcomes(i, h)' : a = b
  <2>1. \A a, b \in Outcomes(i, h) : a = b
    BY DEF BusInv, OutcomesOnce
  <2>2. CASE Outcomes(i, h)' = Outcomes(i, h)
    BY <2>1, <2>2
  <2>3. CASE i = n /\ h = m.handler
    <3>1. Outcomes(n, m.handler) = {}
      BY <1>3, <1>9
    <3>2. Outcomes(n, m.handler)' = {Len(handled[n]) + 1}
      BY <1>8, <3>1
    <3>3. QED
      BY <2>3, <3>1, <3>2
  <2>4. QED
    BY <1>5, <1>8, <2>2, <2>3
<1>18. \A i \in DOMAIN stream : handled'[i] = handled[i] \/ (consumer[c].batch # <<>> /\ i = Entry(c))
  BY <1>2, <1>3, <1>4, <1>5, <1>8
<1>19. \A i \in group.from + 1 .. group.last : group.exists /\ i <= group.last
  BY <1>1 DEF BusTypes, NoGroup
<1>20. ToSet(consumer'[c].batch) = ToSet(consumer[c].batch) /\ group'.last >= group.last
  BY <1>1, <1>2, <1>11, <1>12 DEF BusTypes
<1>21. Progress(c)
  BY <1>12, <1>17, <1>18, <1>19, <1>20 DEF Progress
<1>22. QED
  BY <1>13, <1>15, <1>16, <1>21, ProgressKeeps

LEMMA PassedKeeps ==
  ASSUME BusInv, NEW c \in Consumers, consumer[c].batch # <<>>,
         UNCHANGED <<subscription, stream, group, handled, restarts>>,
         \/ consumer[c].pc = "acking" /\ acked' = acked \cup {Entry(c)}
         \/ acked' = acked /\ Can("handler"),
         \E j \in ConsumerRecords :
           /\ consumer' = [consumer EXCEPT ![c] = j] /\ Holding(c)' /\ Handling(c)'
           /\ ToSet(consumer'[c].batch) = ToSet(consumer[c].batch) \ {Entry(c)}
  PROVE  BusInv'
<1>1. BusTypes /\ Holding(c) /\ restarts \in Nat
  BY ConsumerIs
<1>2. PICK k \in ConsumerRecords :
        /\ consumer' = [consumer EXCEPT ![c] = k] /\ Holding(c)' /\ Handling(c)'
        /\ ToSet(consumer'[c].batch) = ToSet(consumer[c].batch) \ {Entry(c)}
  OBVIOUS
<1>3. consumer' = [consumer EXCEPT ![c] = consumer'[c]] /\ consumer' \in [Consumers -> ConsumerRecords]
  BY <1>1, <1>2 DEF BusTypes
<1>4. group.from \in Nat /\ group.last \in Nat /\ acked \subseteq 1 .. group.last /\ (~group.exists => group.last = 0)
  BY <1>1 DEF BusTypes, NoGroup
<1>5. acked' \subseteq 1 .. group.last
  <2>1. consumer[c].pc = "acking" => Entry(c) \in 1 .. group.last
    BY <1>4, AckingIs
  <2>2. QED
    BY <1>4, <2>1
<1>6. BusTypes'
  BY <1>1, <1>3, <1>5 DEF BusTypes
<1>7. \A n \in acked' : n \in acked \/ \A h \in 1 .. subscription.handlers : Outcomes(n, h)' # {}
  <2>1. \A n, h : Outcomes(n, h)' = Outcomes(n, h)
    BY DEF Outcomes
  <2>2. PICK n : n = Entry(c)
    OBVIOUS
  <2>3. QED
    BY <2>1, <2>2, AckingIs
<1>8. subscription.faults \subseteq {"stop"} =>
        \A n \in group'.from + 1 .. group'.last :
          \/ n \in acked' \/ n \in ToSet(consumer'[c].batch)
          \/ group.exists /\ n <= group.last /\ n \notin ToSet(consumer[c].batch)
  <2>1. subscription.faults \subseteq {"stop"} => Entry(c) \in acked'
    BY DEF Can
  <2>2. \A n \in group.from + 1 .. group.last : group.exists /\ n <= group.last
    BY <1>4
  <2>3. QED
    BY <1>2, <2>1, <2>2
<1>9. acked \subseteq acked' /\ group'.last >= group.last
  BY <1>4
<1>10. \A n \in ToSet(consumer'[c].batch) : n \in ToSet(consumer[c].batch)
  BY <1>2
<1>11. Progress(c)
  BY <1>3, <1>7, <1>8, <1>9, <1>10, OutcomesSame DEF Progress
<1>12. QED
  BY <1>2, <1>6, <1>11, ProgressKeeps

\* The entry is done with, or left as it is after a failure: on to the next one.
LEMMA PassKeeps ==
  ASSUME BusInv, NEW c \in Consumers, consumer[c].pc \in WithEntry, NextEntry(c),
         UNCHANGED <<subscription, stream, group, handled, restarts>>,
         \/ consumer[c].pc = "acking" /\ acked' = acked \cup {Entry(c)}
         \/ acked' = acked /\ Can("handler")
  PROVE  BusInv'
<1>1. /\ BusTypes /\ Holding(c) /\ Handling(c) /\ consumer[c] \in ConsumerRecords /\ subscription.handlers \in Nat
      /\ restarts \in Nat
  BY ConsumerIs
<1>2. PICK m \in ConsumerRecords : m = consumer[c]
  BY <1>1
<1>3. m.pc \in WithEntry /\ m.batch # <<>> /\ m.handler \in 1 .. subscription.handlers /\ m.batch \in Seq(Nat) /\ Injective(m.batch)
      /\ group.exists
  BY <1>1, <1>2 DEF Holding, ConsumerRecords
<1>4. PICK b : b = Tail(m.batch)
  OBVIOUS
<1>5. /\ b \in Seq(Nat) /\ Injective(b) /\ ToSet(b) = ToSet(m.batch) \ {Entry(c)} /\ (Len(m.batch) = 1 <=> b = <<>>)
      /\ \A i \in DOMAIN b : i + 1 \in DOMAIN m.batch /\ b[i] = m.batch[i + 1]
  BY <1>2, <1>3, <1>4, Behead DEF Entry
<1>6. CASE Len(m.batch) = 1
  <2>1. PICK k : k = Reading(m)
    OBVIOUS
  <2>2. k \in ConsumerRecords /\ k.batch = <<>> /\ k.handler = 0 /\ k.pc \in {"reading", "ended"}
    BY <2>1, RecordsMake
  <2>3. consumer' = [consumer EXCEPT ![c] = k]
    BY <1>2, <1>6, <2>1 DEF NextEntry, Moves
  <2>4. consumer'[c] = k /\ consumer' = [consumer EXCEPT ![c] = consumer'[c]] /\ consumer' \in [Consumers -> ConsumerRecords]
    BY <1>1, <2>2, <2>3 DEF BusTypes
  <2>5. k.pc \notin WithEntry /\ ToSet(k.batch) = {} /\ DOMAIN k.batch = {} /\ Injective(k.batch) /\ k.pc \notin {"counting", "acking"}
    BY <2>2, Emptied DEF WithEntry
  <2>6. Holding(c)' /\ Handling(c)'
    BY <1>3, <2>2, <2>4, <2>5 DEF Holding, Handling
  <2>7. ToSet(consumer'[c].batch) = ToSet(b)
    BY <1>5, <1>6, <2>2, <2>4
  <2>8. \E j \in ConsumerRecords : /\ consumer' = [consumer EXCEPT ![c] = j] /\ Holding(c)' /\ Handling(c)'
                                   /\ ToSet(consumer'[c].batch) = ToSet(b)
    BY <2>2, <2>3, <2>6, <2>7
  <2>9. QED
    BY <1>1, <1>2, <1>3, <1>5, <2>8, PassedKeeps
<1>7. CASE Len(m.batch) # 1
  <2>1. PICK k : k = [m EXCEPT !.pc = "handling", !.batch = b, !.handler = 1]
    OBVIOUS
  <2>2. k \in ConsumerRecords /\ k.batch = b /\ k.handler = 1 /\ k.pc = "handling"
    <3>1. "handling" \in Places /\ 1 \in Nat
      BY DEF Places
    <3>2. QED
      BY <1>5, <2>1, <3>1 DEF ConsumerRecords
  <2>3. consumer' = [consumer EXCEPT ![c] = k]
    BY <1>2, <1>4, <1>7, <2>1 DEF NextEntry, Moves
  <2>4. consumer'[c] = k
    BY <1>1, <2>3 DEF BusTypes
  <2>5. b # <<>> /\ k.pc \in WithEntry /\ 1 \in 1 .. subscription.handlers
    BY <1>1, <1>3, <1>5, <1>7, <2>2 DEF WithEntry
  <2>6. Holding(c)'
    <3>1. \A i \in DOMAIN b : group.from < b[i] /\ b[i] <= group.last
      BY <1>1, <1>2, <1>5 DEF Holding
    <3>2. QED
      BY <1>3, <1>5, <2>2, <2>4, <2>5, <3>1 DEF Holding
  <2>7. \A i \in DOMAIN b : handled[b[i]] = <<>>
    <3>1. SUFFICES ASSUME NEW i \in DOMAIN b PROVE handled[b[i]] = <<>>
      OBVIOUS
    <3>2. i \in Nat /\ i >= 1 /\ i + 1 \in DOMAIN m.batch /\ b[i] = m.batch[i + 1]
      BY <1>5
    <3>3. i + 1 > 1
      BY <3>2
    <3>4. QED
      BY <1>1, <1>2, <3>2, <3>3 DEF Handling
  <2>8. Handling(c)'
    <3>1. PICK n : n = b[1]
      OBVIOUS
    <3>2. Entry(c)' = n /\ 1 \in DOMAIN b
      BY <1>5, <2>2, <2>4, <2>5, <3>1 DEF Entry
    <3>3. handled'[n] = <<>>
      BY <2>7, <3>1, <3>2
    <3>4. \A h : Outcomes(Entry(c), h)' = {}
      BY <3>2, <3>3 DEF Outcomes
    <3>5. k.handler + (IF k.pc = "acking" THEN 1 ELSE 0) = 1 /\ \A h \in 1 .. subscription.handlers : h >= 1
      BY <2>2
    <3>6. QED
      BY <2>2, <2>4, <2>7, <3>4, <3>5 DEF Handling
  <2>9. \E j \in ConsumerRecords : /\ consumer' = [consumer EXCEPT ![c] = j] /\ Holding(c)' /\ Handling(c)'
                                   /\ ToSet(consumer'[c].batch) = ToSet(b)
    BY <2>2, <2>3, <2>4, <2>6, <2>8
  <2>10. QED
    BY <1>1, <1>2, <1>3, <1>5, <2>9, PassedKeeps
<1>8. QED
  BY <1>6, <1>7

LEMMA HandleKeeps ==
  ASSUME BusInv, NEW c \in Consumers, Handle(c)
  PROVE  BusInv'
<1>1. consumer[c].pc = "handling" /\ UNCHANGED <<subscription, stream, group, acked, restarts>>
  BY DEF Handle, In
<1>2. CASE Did(c, "done") /\ NextHandler(c)
  BY <1>1, <1>2, HandledKeeps
<1>3. CASE Can("handler") /\ Moves(c, [consumer[c] EXCEPT !.pc = "counting"]) /\ UNCHANGED handled
  BY <1>1, <1>3, FailedKeeps
<1>4. QED
  BY <1>2, <1>3 DEF Handle

LEMMA CountKeeps ==
  ASSUME BusInv, NEW c \in Consumers, Count(c)
  PROVE  BusInv'
<1>1. consumer[c].pc = "counting" /\ UNCHANGED <<subscription, stream, group, acked, restarts>>
  BY DEF Count, In
<1>2. Can("handler") /\ consumer[c].pc \in WithEntry
  BY <1>1, ConsumerIs DEF Holding, WithEntry
<1>3. CASE NextEntry(c) /\ UNCHANGED handled
  BY <1>1, <1>2, <1>3, PassKeeps
<1>4. CASE Did(c, "dead") /\ NextHandler(c)
  BY <1>1, <1>4, HandledKeeps
<1>5. CASE Can("redis") /\ Ends(c) /\ UNCHANGED handled
  BY <1>1, <1>5, EndsKeep
<1>6. QED
  BY <1>3, <1>4, <1>5 DEF Count

LEMMA AckKeeps ==
  ASSUME BusInv, NEW c \in Consumers, Ack(c)
  PROVE  BusInv'
<1>1. consumer[c].pc = "acking" /\ UNCHANGED <<subscription, stream, group, handled, restarts>>
  BY DEF Ack, In
<1>2. CASE acked' = acked \cup {Entry(c)} /\ NextEntry(c)
  BY <1>1, <1>2, PassKeeps DEF WithEntry
<1>3. CASE Can("redis") /\ acked' \in {acked, acked \cup {Entry(c)}} /\ Ends(c)
  BY <1>1, <1>3, EndsKeep
<1>4. QED
  BY <1>2, <1>3 DEF Ack

LEMMA ReplicaKeeps ==
  ASSUME BusInv, NEW c \in Consumers, Deliver(c) \/ Disturb(c)
  PROVE  BusInv'
<1>1. consumer[c].pc = "reading" => consumer[c].batch = <<>>
  BY ConsumerIs DEF WithEntry
<1>2. CASE ReadFails(c) \/ Returns(c)
  BY <1>1, <1>2, EndsKeep DEF ReadFails, Returns, In
<1>3. CASE subscription.handlers > 0 /\ Read(c)
  BY <1>3, TakeKeeps
<1>4. QED
  BY <1>2, <1>3, BootKeeps, SubscribeKeeps, HandleKeeps, CountKeeps, AckKeeps, StopKeeps, RestartKeeps
     DEF Deliver, Disturb, Consume

LEMMA BusStays ==
  ASSUME BusInv, UNCHANGED deliveryVars
  PROVE  BusInv'
<1>1. UNCHANGED <<subscription, stream, group, acked, consumer, handled, restarts>>
  BY DEF deliveryVars
<1>2. BusTypes'
  BY <1>1 DEF BusInv, BusTypes
<1>3. \A n, h : Outcomes(n, h)' = Outcomes(n, h)
  BY <1>1 DEF Outcomes
<1>4. ASSUME NEW c \in Consumers PROVE Holding(c)' /\ Handling(c)'
  <2>1. Holding(c)'
    BY <1>1 DEF BusInv, Holding, Can
  <2>2. Entry(c)' = Entry(c)
    BY <1>1 DEF Entry
  <2>3. \A h : Outcomes(Entry(c), h)' = Outcomes(Entry(c), h)
    BY <1>1, <2>2 DEF Outcomes
  <2>4. Handling(c)'
    BY <1>1, <2>3 DEF BusInv, Handling
  <2>5. QED
    BY <2>1, <2>4
<1>5. Apart' /\ Untouched' /\ NoneForgotten'
  BY <1>1 DEF BusInv, Apart, Untouched, NoneForgotten
<1>6. OutcomesOnce' /\ AckedHandled'
  BY <1>1, <1>3 DEF BusInv, OutcomesOnce, AckedHandled
<1>7. QED
  BY <1>2, <1>4, <1>5, <1>6 DEF BusInv

\* A new entry is read by nobody yet.
LEMMA ArrivesKeeps ==
  ASSUME BusInv, NEW x \in Events, Arrives(x)
  PROVE  BusInv'
<1>1. UNCHANGED <<subscription, group, acked, consumer, restarts>> /\ BusTypes
  BY DEF Arrives, BusInv
<1>2. CASE subscription.handlers = 0
  BY <1>1, <1>2, BusStays DEF Arrives, deliveryVars
<1>3. CASE subscription.handlers # 0
  <2>1. stream' = Append(stream, x) /\ handled' = Append(handled, <<>>)
    BY <1>3 DEF Arrives
  <2>2. stream \in Seq(Events) /\ handled \in Seq(Seq(Outcome)) /\ Len(handled) = Len(stream) /\ <<>> \in Seq(Outcome)
    BY <1>1 DEF BusTypes
  <2>3. PICK N \in Nat : N = Len(stream)
    BY <2>2
  <2>4. /\ stream' \in Seq(Events) /\ Len(stream') = N + 1 /\ DOMAIN stream' = 1 .. N + 1 /\ DOMAIN stream = 1 .. N
        /\ handled' \in Seq(Seq(Outcome)) /\ Len(handled') = N + 1
        /\ \A n \in 1 .. N : handled'[n] = handled[n]
        /\ handled'[N + 1] = <<>>
    BY <2>1, <2>2, <2>3
  <2>5. /\ group.last <= N /\ group.last \in Nat /\ group.from \in Nat /\ acked \subseteq 1 .. group.last
        /\ \A n \in 1 .. N + 1 : n \in 1 .. N \/ n = N + 1
    <3>1. group.last <= N /\ group.last \in Nat /\ group.from \in Nat /\ acked \subseteq 1 .. group.last
      BY <1>1, <2>3 DEF BusTypes
    <3>2. \A n \in 1 .. N + 1 : n \in 1 .. N \/ n = N + 1
      BY <2>3
    <3>3. QED
      BY <3>1, <3>2
  <2>6. BusTypes'
    <3>1. group.last <= N + 1
      BY <2>3, <2>5
    <3>2. QED
      BY <1>1, <2>4, <3>1 DEF BusTypes
  <2>7. \A n \in 1 .. N : \A h : Outcomes(n, h)' = Outcomes(n, h)
    BY <2>4 DEF Outcomes
  <2>8. \A h : Outcomes(N + 1, h)' = {}
    BY <2>4 DEF Outcomes
  <2>9. ASSUME NEW c \in Consumers PROVE Holding(c)' /\ Handling(c)'
    <3>1. Holding(c) /\ Handling(c)
      BY DEF BusInv
    <3>2. Holding(c)'
      BY <1>1, <3>1 DEF Holding, Can
    <3>3. \A i \in DOMAIN consumer[c].batch : handled'[consumer[c].batch[i]] = handled[consumer[c].batch[i]]
      <4>1. SUFFICES ASSUME NEW i \in DOMAIN consumer[c].batch PROVE consumer[c].batch[i] \in 1 .. N
        BY <2>4
      <4>2. consumer[c].batch[i] \in ToSet(consumer[c].batch)
        BY DEF ToSet
      <4>3. QED
        BY <1>1, <2>4, <3>1, <4>2, HeldRead
    <3>4. ASSUME consumer[c].pc \in WithEntry, NEW h PROVE Outcomes(Entry(c), h)' = Outcomes(Entry(c), h)
      <4>1. PICK n : n = Entry(c) /\ n = Entry(c)'
        BY <1>1 DEF Entry
      <4>2. n \in 1 .. N
        BY <1>1, <2>4, <3>1, <3>4, <4>1, EntryIs DEF Holding
      <4>3. handled'[n] = handled[n]
        BY <2>4, <4>2
      <4>4. QED
        BY <4>1, <4>3 DEF Outcomes
    <3>5. Handling(c)'
      BY <1>1, <3>1, <3>3, <3>4 DEF Handling
    <3>6. QED
      BY <3>2, <3>5
  <2>10. Apart' /\ NoneForgotten'
    BY <1>1 DEF BusInv, Apart, NoneForgotten
  <2>11. Untouched'
    BY <1>1, <2>4, <2>5 DEF BusInv, Untouched
  <2>12. OutcomesOnce'
    <3>1. SUFFICES ASSUME NEW n \in 1 .. N + 1, NEW h \in 1 .. subscription.handlers
                   PROVE  \A i, j \in Outcomes(n, h)' : i = j
      BY <1>1, <2>4 DEF OutcomesOnce
    <3>2. CASE n \in 1 .. N
      BY <2>4, <2>7, <3>2 DEF BusInv, OutcomesOnce
    <3>3. CASE n = N + 1
      BY <2>8, <3>3
    <3>4. QED
      BY <2>5, <3>2, <3>3
  <2>13. AckedHandled'
    <3>1. SUFFICES ASSUME NEW n \in acked, NEW h \in 1 .. subscription.handlers PROVE Outcomes(n, h)' # {}
      BY <1>1 DEF AckedHandled
    <3>2. n \in 1 .. N /\ Outcomes(n, h) # {}
      BY <2>3, <2>5, <3>1 DEF BusInv, AckedHandled
    <3>3. QED
      BY <2>7, <3>2
  <2>14. QED
    BY <2>6, <2>9, <2>10, <2>11, <2>12, <2>13 DEF BusInv
<1>4. QED
  BY <1>2, <1>3

LEMMA BusStarts == DeliveryInit => BusInv
<1>1. SUFFICES ASSUME DeliveryInit PROVE BusInv
  OBVIOUS
<1>2. /\ subscription \in Subscriptions /\ stream = <<>> /\ group = NoGroup /\ acked = {} /\ handled = <<>> /\ restarts = 0
      /\ consumer = [c \in Consumers |-> Down]
  BY <1>1 DEF DeliveryInit
<1>3. Down \in ConsumerRecords /\ Down.batch = <<>> /\ Down.handler = 0 /\ Down.pc = "down" /\ "down" \notin WithEntry
  BY RecordsMake DEF WithEntry
<1>4. BusTypes
  <2>1. group \in [exists : BOOLEAN, from : Nat, last : Nat] /\ group.from = 0 /\ group.last = 0
    BY <1>2 DEF NoGroup
  <2>2. stream \in Seq(Events) /\ handled \in Seq(Seq(Outcome)) /\ Len(stream) = 0 /\ Len(handled) = 0
    BY <1>2
  <2>3. QED
    BY <1>2, <1>3, <2>1, <2>2 DEF BusTypes
<1>5. \A c \in Consumers : Holding(c) /\ Handling(c)
  <2>1. DOMAIN <<>> = {} /\ ToSet(<<>>) = {} /\ Injective(<<>>)
    BY Emptied
  <2>2. "down" \notin {"reading", "counting", "acking"}
    OBVIOUS
  <2>3. QED
    BY <1>2, <1>3, <2>1, <2>2 DEF Holding, Handling, WithEntry
<1>6. Apart
  BY <1>2, <1>3, Emptied DEF Apart
<1>7. Untouched /\ OutcomesOnce /\ AckedHandled
  BY <1>2 DEF Untouched, OutcomesOnce, AckedHandled
<1>8. NoneForgotten
  BY <1>2 DEF NoneForgotten, NoGroup
<1>9. QED
  BY <1>4, <1>5, <1>6, <1>7, <1>8 DEF BusInv

-----------------------------------------------------------------------------
\* The invariant holds.

LEMMA CopiesStay ==
  ASSUME CopiesSent, UNCHANGED <<stream, sent>>
  PROVE  CopiesSent'
<1>1. \A e : Copies(e)' = Copies(e)
  BY DEF Copies
<1>2. QED
  BY <1>1 DEF CopiesSent

LEMMA MessagingStarts == MessagingInit => MessagingInv
<1>1. SUFFICES ASSUME MessagingInit PROVE MessagingInv
  OBVIOUS
<1>2. OutboxInv /\ BusInv
  BY <1>1, OutboxStarts, BusStarts DEF MessagingInit
<1>3. ASSUME NEW e \in Events PROVE Cardinality(Copies(e)) <= sent[e]
  <2>1. Copies(e) = {} /\ sent[e] = 0
    BY <1>1 DEF MessagingInit, DeliveryInit, Init, Copies
  <2>2. QED
    BY <2>1, FS_EmptySet
<1>4. QED
  BY <1>2, <1>3 DEF MessagingInv, CopiesSent

LEMMA MessagingSteps == MessagingInv /\ [MessagingNext]_allVars => MessagingInv'
<1>1. SUFFICES ASSUME MessagingInv, [MessagingNext]_allVars PROVE MessagingInv'
  OBVIOUS
<1>2. OutboxInv /\ CopiesSent /\ BusInv
  BY <1>1 DEF MessagingInv
<1>3. stream \in Seq(Events) /\ TypeOK
  BY <1>2 DEF BusInv, BusTypes, OutboxInv
<1>4. CASE UNCHANGED vars
  <2>1. written' \in Seq(Events) /\ lease' \in [Events -> {"none", "live", "lapsed"}]
    BY <1>3, <1>4 DEF vars, TypeOK
  <2>2. OutboxInv'
    BY <1>2, <1>4, <2>1, SettledKeeps DEF vars
  <2>3. CASE UNCHANGED allVars
    BY <1>2, <2>2, <2>3, BusStays, CopiesStay DEF MessagingInv, allVars, vars, deliveryVars
  <2>4. ASSUME NEW c \in Consumers, Deliver(c) \/ Disturb(c) PROVE MessagingInv'
    <3>1. stream' = stream /\ sent' = sent
      BY <1>4, <2>4 DEF Deliver, Disturb, Consume, Boot, Subscribe, Read, Handle, Count, Ack, Returns, ReadFails, Stop, Restart, vars
    <3>2. QED
      BY <1>2, <2>2, <2>4, <3>1, ReplicaKeeps, CopiesStay DEF MessagingInv
  <2>5. ASSUME NEW e \in Events, WriteEvent(e) \/ LeaseLapses(e) PROVE UNCHANGED allVars
    BY <1>4, <2>5 DEF WriteEvent, LeaseLapses, allVars
  <2>6. ASSUME NEW r \in Relays, Relay(r) \/ RelayDies(r) PROVE UNCHANGED allVars
    BY <1>4, <2>6 DEF Relay, RelayDies, allVars, vars
  <2>7. QED
    BY <1>1, <2>3, <2>4, <2>5, <2>6 DEF MessagingNext
<1>5. ASSUME NEW e \in Events, WriteEvent(e) \/ LeaseLapses(e) PROVE MessagingInv'
  <2>1. UNCHANGED deliveryVars /\ sent' = sent
    BY <1>5 DEF WriteEvent, LeaseLapses, Write, Lapse
  <2>2. OutboxInv'
    BY <1>2, <1>5, WriteKeeps, LapseKeeps DEF WriteEvent, LeaseLapses
  <2>3. QED
    BY <1>2, <2>1, <2>2, BusStays, CopiesStay DEF MessagingInv, deliveryVars
<1>6. ASSUME NEW r \in Relays, Relay(r) PROVE MessagingInv'
  <2>1. Work(r)
    BY <1>6 DEF Relay
  <2>2. OutboxInv' /\ CopiesSent'
    BY <1>2, <1>3, <1>6, <2>1, WorkKeeps, RelayCopies
  <2>3. BusInv'
    <3>1. CASE sent' = sent
      BY <1>2, <1>6, <3>1, BusStays DEF Relay
    <3>2. CASE sent' # sent
      BY <1>2, <1>6, <2>1, <3>2, SendsOne, ArrivesKeeps DEF Relay
    <3>3. QED
      BY <3>1, <3>2
  <2>4. QED
    BY <2>2, <2>3 DEF MessagingInv
<1>7. ASSUME NEW r \in Relays, RelayDies(r) PROVE MessagingInv'
  <2>1. UNCHANGED deliveryVars /\ sent' = sent /\ Crash(r)
    BY <1>7 DEF RelayDies, Crash
  <2>2. QED
    BY <1>2, <2>1, CrashKeeps, BusStays, CopiesStay DEF MessagingInv, deliveryVars
<1>8. QED
  BY <1>1, <1>4, <1>5, <1>6, <1>7 DEF MessagingNext, Deliver, Disturb, allVars

\* What the parts of the invariant come to.
LEMMA OneAtMost ==
  ASSUME NEW S, \A a, b \in S : a = b
  PROVE  Cardinality(S) <= 1
<1>1. CASE S = {}
  BY <1>1, FS_EmptySet
<1>2. ASSUME NEW a \in S PROVE Cardinality(S) <= 1
  <2>1. S = {a}
    BY <1>2
  <2>2. QED
    BY <2>1, FS_Singleton
<1>3. QED
  BY <1>1, <1>2

LEMMA AccountedFrom == MessagingInv => EventsAccounted
<1>1. SUFFICES ASSUME MessagingInv PROVE EventsAccounted
  OBVIOUS
<1>2. /\ OutboxInv /\ TypeOK /\ CopiesSent /\ BusInv /\ BusTypes
      /\ \A c \in Consumers : Holding(c) /\ Handling(c)
  BY <1>1 DEF MessagingInv, OutboxInv, BusInv
<1>3. SendsAccounted
  BY <1>2 DEF SendsAccounted, OutboxInv, OneSendPerLease, Bounded, Holders
<1>4. CopiesBounded
  <2>1. SUFFICES ASSUME NEW e \in Events PROVE Cardinality(Copies(e)) <= attempts[e]
    BY DEF CopiesBounded, Copies
  <2>2. Cardinality(Copies(e)) <= sent[e] /\ Cardinality(Copies(e)) \in Nat
    BY <1>2, CopiesFinite DEF CopiesSent, BusTypes
  <2>3. Bounded(e) /\ sent[e] \in Nat /\ attempts[e] \in Nat
    BY <1>2 DEF OutboxInv, TypeOK
  <2>4. Cardinality(Holders(e)) \in Nat
    BY HoldersFinite
  <2>5. QED
    BY <2>2, <2>3, <2>4 DEF Bounded
<1>5. DeliveredOnce
  <2>1. /\ group.from <= group.last /\ group.last <= Len(stream) /\ Len(handled) = Len(stream)
        /\ stream \in Seq(Events) /\ handled \in Seq(Seq(Outcome)) /\ acked \subseteq 1 .. group.last
        /\ group.last \in Nat
    BY <1>2 DEF BusTypes
  <2>2. DOMAIN handled = DOMAIN stream /\ acked \subseteq DOMAIN stream
    BY <2>1
  <2>3. \A c \in Consumers : consumer[c].handler <= subscription.handlers
    <3>1. SUFFICES ASSUME NEW c \in Consumers PROVE consumer[c].handler <= subscription.handlers
      OBVIOUS
    <3>2. subscription.handlers \in Nat
      BY <1>2, ConsumerIs
    <3>3. consumer[c].handler \in 1 .. subscription.handlers \/ consumer[c].handler = 0
      BY <1>2 DEF Holding
    <3>4. QED
      BY <3>2, <3>3
  <2>4. ASSUME NEW n \in DOMAIN stream PROVE Cardinality(InHand(n)) <= 1
    <3>1. \A c, d \in InHand(n) : c = d
      BY <1>2 DEF BusInv, Apart, InHand
    <3>2. QED
      BY <3>1, OneAtMost
  <2>5. ASSUME NEW n \in DOMAIN stream, NEW h \in 1 .. subscription.handlers PROVE Cardinality(Outcomes(n, h)) <= 1
    <3>1. \A i, j \in Outcomes(n, h) : i = j
      BY <1>2 DEF BusInv, OutcomesOnce
    <3>2. QED
      BY <3>1, OneAtMost
  <2>6. AckedHandled
    BY <1>2 DEF BusInv
  <2>7. subscription.faults \subseteq {"stop"} =>
          \A n \in group.from + 1 .. group.last : n \in acked \/ InHand(n) # {}
    BY <1>2 DEF BusInv, NoneForgotten, InHand
  <2>8. DeliveryTypeOK
    BY <2>1, <2>2, <2>3 DEF DeliveryTypeOK
  <2>9. QED
    BY <2>4, <2>5, <2>6, <2>7, <2>8 DEF DeliveredOnce, AckedHandled
<1>6. QED
  BY <1>3, <1>4, <1>5 DEF EventsAccounted

\* The marks of the outbox, the copies the bus has got and what the handlers did with them
\* agree at every moment: an event is marked published only when it was sent, no lease
\* sends it twice, no handler gets an entry twice, and what is acknowledged was taken by
\* every handler or given up at its limit (outbox.ts:8, 94; redis-streams.ts:67-70, 147-176).
THEOREM EventsStayAccounted == MessagingSpec => []EventsAccounted
<1>1. MessagingInv /\ [MessagingNext]_allVars => MessagingInv'
  BY MessagingSteps
<1>2. MessagingSpec => []MessagingInv
  BY <1>1, MessagingStarts, PTL DEF MessagingSpec
<1>3. QED
  BY <1>2, AccountedFrom, PTL

\* Without slow relays an event is in the hands of one relay at most, however many there
\* are and whatever crashes or rejects in between (outbox.ts:21).
THEOREM RelaysStayApart == MessagingSpec => []OneRelayAtATime
<1>1. MessagingInv /\ [MessagingNext]_allVars => MessagingInv'
  BY MessagingSteps
<1>2. MessagingSpec => []MessagingInv
  BY <1>1, MessagingStarts, PTL DEF MessagingSpec
<1>3. MessagingInv => OneRelayAtATime
  BY DEF MessagingInv, OutboxInv, Leased, OneRelayAtATime
<1>4. QED
  BY <1>2, <1>3, PTL
=============================================================================
