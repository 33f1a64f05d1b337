---------------------------- MODULE Access_proofs ----------------------------
(***************************************************************************)
(* The parts of Access keep their promises for every number of requests,   *)
(* replicas and projects.  A step of Access is, for each part, a step of   *)
(* that part's own specification or a stutter; so what is proved of a part *)
(* alone holds of the whole.                                               *)
(***************************************************************************)
EXTENDS Access, TLAPS

\* A step of Access is a step of one part.
LEMMA PartSteps ==
  ASSUME [Next]_vars
  PROVE  /\ [Sharing!Next]_(Sharing!vars) /\ [Tokens!Next]_(Tokens!vars)
         /\ [Keys!Next]_(Keys!vars) /\ [Registry!Next]_(Registry!vars)
<1> USE DEF vars, decisions
<1>1. ASSUME NEW r \in Requests, Share(r) PROVE Sharing!Next /\ UNCHANGED <<tokens, keys, releases>>
  BY <1>1 DEF Share, Sharing!Next
<1>2. ASSUME IssueToken PROVE Tokens!Next /\ UNCHANGED <<sharing, keys, releases>>
  BY <1>2 DEF IssueToken, Tokens!Next
<1>3. ASSUME TimePasses PROVE Tokens!Next /\ UNCHANGED <<sharing, keys, releases>>
  BY <1>3 DEF TimePasses, Tokens!Next
<1>4. ASSUME NEW c \in Introspections \cup Revocations, UseToken(c)
      PROVE  Tokens!Next /\ UNCHANGED <<sharing, keys, releases>>
  BY <1>4 DEF UseToken, Tokens!Next, Tokens!Calls
<1>5. ASSUME NEW r \in Replicas, RunReplica(r) PROVE Keys!Next /\ UNCHANGED <<sharing, tokens, releases>>
  BY <1>5 DEF RunReplica, Keys!Next
<1>6. ASSUME NEW h \in Handlers, Release(h) PROVE Registry!Next /\ UNCHANGED <<sharing, tokens, keys>>
  BY <1>6 DEF Release, Registry!Next
<1>7. ASSUME Decide \/ Rest \/ UNCHANGED vars PROVE UNCHANGED <<sharing, tokens, keys, releases>>
  BY <1>7 DEF Decide, Rest
<1>8. /\ Sharing!Next \/ UNCHANGED sharing
      /\ Tokens!Next \/ UNCHANGED tokens
      /\ Keys!Next \/ UNCHANGED keys
      /\ Registry!Next \/ UNCHANGED releases
  BY <1>1, <1>2, <1>3, <1>4, <1>5, <1>6, <1>7 DEF Next
<1>9. QED
  BY <1>8 DEF sharing, tokens, keys, releases, Sharing!vars, Sharing!store, Tokens!vars, Keys!vars,
         Registry!vars, Registry!registry

\* A behaviour of Access is one of each part.
LEMMA PartsAlone ==
  Spec => Sharing!Spec /\ Tokens!Spec /\ Keys!Spec /\ Registry!Spec
<1>1. Init => Sharing!Init /\ Tokens!Init /\ Keys!Init /\ Registry!Init
  BY DEF Init
<1>2. QED
  BY <1>1, PartSteps, PTL DEF Spec, Sharing!Spec, Tokens!Spec, Keys!Spec, Registry!Spec

-----------------------------------------------------------------------------

\* Whoever is ready holds the one key that is stored, and only that key ever signed.
KeysSettled ==
  /\ \A r \in Replicas : Keys!On(r, "ready") => key # Keys!None /\ replica[r].pair = key
  /\ \A r \in Replicas : Keys!On(r, "inserting") => replica[r].pair # Keys!None
  /\ signed \subseteq {key} \ {Keys!None}

KeysInv == Keys!TypeOK /\ KeysSettled

\* No pair is none.
LEMMA PairsAreSome == \A pair \in Keys!Pairs : pair # Keys!None
<1>1. ASSUME NEW pair \in Replicas \X (0 .. MaxBoots) PROVE pair # << >>
  <2>1. PICK r \in Replicas, n \in 0 .. MaxBoots : pair = <<r, n>>
    OBVIOUS
  <2>2. Len(<<r, n>>) = 2 /\ Len(<< >>) = 0
    OBVIOUS
  <2>3. QED
    BY <2>1, <2>2
<1>2. QED
  BY <1>1 DEF Keys!Pairs, Keys!None

\* Everything a replica does preserves that.
LEMMA KeysStep ==
  ASSUME KeysInv, [Keys!Next]_(Keys!vars)
  PROVE  KeysInv'
<1> USE AccessAssumption DEF KeysInv, KeysSettled, Keys!TypeOK, Keys!On, Keys!Becomes
<1>1. ASSUME NEW r \in Replicas, Keys!Load(r) PROVE KeysInv'
  BY <1>1 DEF Keys!Load
<1>2. ASSUME NEW r \in Replicas, Keys!FindKey(r) PROVE KeysInv'
  <2> DEFINE pair == <<r, boots[r]>>
  <2>1. pair \in Keys!Pairs /\ pair # Keys!None
    BY PairsAreSome DEF Keys!Pairs
  <2>2. IF key # Keys!None THEN Keys!Becomes(r, "ready", key) ELSE Keys!Becomes(r, "inserting", pair)
    BY <1>2 DEF Keys!FindKey
  <2>3. replica[r].pc = "loading" /\ UNCHANGED <<key, boots, signed>>
    BY <1>2 DEF Keys!FindKey
  <2> HIDE DEF pair
  <2>4. CASE key # Keys!None
    BY <2>2, <2>3, <2>4
  <2>5. CASE key = Keys!None
    BY <2>1, <2>2, <2>3, <2>5
  <2>6. QED
    BY <2>4, <2>5
<1>3. ASSUME NEW r \in Replicas, Keys!FindRejected(r) PROVE KeysInv'
  BY <1>3 DEF Keys!FindRejected
<1>4. ASSUME NEW r \in Replicas, Keys!Insert(r) PROVE KeysInv'
  BY <1>4 DEF Keys!Insert
<1>5. ASSUME NEW r \in Replicas, Keys!InsertRejected(r) PROVE KeysInv'
  BY <1>5 DEF Keys!InsertRejected
<1>6. ASSUME NEW r \in Replicas, Keys!Sign(r) PROVE KeysInv'
  BY <1>6 DEF Keys!Sign
<1>7. ASSUME NEW r \in Replicas, Keys!Restart(r) PROVE KeysInv'
  BY <1>7 DEF Keys!Restart
<1>8. CASE UNCHANGED Keys!vars
  BY <1>8 DEF Keys!vars
<1>9. QED
  BY <1>1, <1>2, <1>3, <1>4, <1>5, <1>6, <1>7, <1>8 DEF Keys!Next, Keys!Run

\* So it holds of every behaviour.
LEMMA KeysHold == Spec => []KeysInv
<1>1. Keys!Init => KeysInv
  BY AccessAssumption DEF KeysInv, KeysSettled, Keys!Init, Keys!TypeOK, Keys!On, Keys!Down
<1>2. QED
  BY <1>1, KeysStep, PartsAlone, PTL DEF Keys!Spec

\* Whatever one replica signed, every replica's JWKS verifies, however many replicas
\* start together, fail and restart (signing-key.store.ts:18-31, 63-64).
THEOREM KeysStayValid == Spec => []SignedStaysValid
<1>1. KeysInv => SignedStaysValid
  BY DEF KeysInv, KeysSettled, SignedStaysValid, Keys!SignedStaysValid
<1>2. QED
  BY <1>1, KeysHold, PTL

-----------------------------------------------------------------------------

Labels == {"idle", "finding", "stamping", "caching", "active", "inactive", "revoking", "done", "failed"}
Documents == [issued : BOOLEAN, revoked : BOOLEAN, expires : Nat, used : Nat]

TokensTyped ==
  /\ clock \in 1 .. MaxClock /\ current \in 0 .. clock
  /\ pat \in Documents /\ pat.expires <= MaxClock + Lifetime /\ pat.used <= clock
  /\ cache \in 0 .. MaxClock + TTL
  /\ call \in [Tokens!Calls -> [pc : Labels, copy : Documents, at : Nat]]
  /\ \A c \in Tokens!Calls : call[c].copy.used <= clock

\* `current` is what it is meant to be: it is now, while the token is usable or an
\* introspection that found it so is under way; and no answer is remembered past a TTL
\* from then.
CurrentMeant ==
  /\ Tokens!UsableAt(clock) => current = clock
  /\ \A c \in Tokens!Calls : Tokens!InFlight(c) => c \in Introspections /\ current = clock
  /\ \A c \in Tokens!Calls : Tokens!On(c, "finding") => c \in Introspections
  /\ cache <= current + TTL

\* Nothing is saved over a token before it is issued.
IssuedFirst ==
  /\ \A c \in Tokens!Calls : Tokens!On(c, "stamping") \/ Tokens!On(c, "revoking") => pat.issued
  /\ pat.revoked => pat.issued

TokensInv == TokensTyped /\ CurrentMeant /\ IssuedFirst /\ Tokens!ActiveIsRecent

\* What is saved is a document; it differs from the one before only by its marks, and
\* it is never the less revoked.
LEMMA SavedDocument ==
  ASSUME pat \in Documents, NEW copy \in Documents
  PROVE  LET saved == Tokens!Saved(copy) IN
         /\ saved \in Documents
         /\ saved.issued = pat.issued /\ saved.expires = pat.expires
         /\ pat.revoked => saved.revoked
         /\ saved.used \in {pat.used, copy.used}
BY DEF Documents, Tokens!Saved

\* Every step of a request, of the clock and of the issuer preserves that.
LEMMA TokensStep ==
  ASSUME TokensInv, [Tokens!Next]_(Tokens!vars)
  PROVE  TokensInv'
<1> USE AccessAssumption DEF TokensInv, TokensTyped, CurrentMeant, IssuedFirst, Tokens!ActiveIsRecent,
        Tokens!On, Tokens!InFlight, Tokens!UsableAt
<1> DEFINE Settles(c, label) == call' = [call EXCEPT ![c] = [pc |-> label, copy |-> Tokens!NoPat, at |-> clock]]
<1>0. \A c, label : Tokens!Answers(c, label) <=> Settles(c, label)
  BY DEF Tokens!Answers, Tokens!Waiting
<1>n. Tokens!NoPat \in Documents /\ Tokens!NoPat.used = 0
  BY DEF Tokens!NoPat, Documents
<1>i. Introspections \subseteq Tokens!Calls /\ Revocations \subseteq Tokens!Calls
  BY DEF Tokens!Calls
<1>s. ASSUME NEW c \in Tokens!Calls, NEW label \in Labels, Tokens!Answers(c, label), clock \in Nat
      PROVE  /\ call' \in [Tokens!Calls -> [pc : Labels, copy : Documents, at : Nat]]
             /\ call'[c].pc = label /\ call'[c].at = clock /\ call'[c].copy.used = 0
             /\ \A d \in Tokens!Calls : d # c => call'[d] = call[d]
  BY <1>s, <1>0, <1>n
<1>1. CASE Tokens!Issue
  <2>1. /\ pat' \in Documents /\ pat'.issued
        /\ pat'.expires = clock + Lifetime /\ pat'.used = 0
    BY <1>1 DEF Tokens!Issue, Documents
  <2>2. ~pat'.revoked /\ UNCHANGED <<clock, cache, call>> /\ current' = clock
    BY <1>1 DEF Tokens!Issue
  <2>3. TokensTyped'
    BY <2>1, <2>2
  <2>4. CurrentMeant' /\ IssuedFirst'
    BY <2>1, <2>2
  <2>5. Tokens!ActiveIsRecent'
    BY <2>2, <1>i
  <2>6. QED
    BY <2>3, <2>4, <2>5
<1>2. CASE Tokens!Tick
  BY <1>2, <1>i DEF Tokens!Tick, Documents
<1>3. ASSUME NEW c \in Tokens!Calls, Tokens!LookUp(c) PROVE TokensInv'
  BY <1>3, <1>0, <1>n, <1>i, SMTT(30) DEF Tokens!LookUp, Tokens!Goes, Labels
<1>4. ASSUME NEW c \in Tokens!Calls, Tokens!FindByHash(c) PROVE TokensInv'
  <2>1. CASE Tokens!UsableAt(clock)
    <3>1. PICK copy \in Documents :
            copy.used = clock /\ call' = [call EXCEPT ![c].pc = "stamping", ![c].copy = copy]
      <4>1. [pat EXCEPT !.used = clock] \in Documents /\ [pat EXCEPT !.used = clock].used = clock
        BY DEF Documents
      <4>2. QED
        BY <1>4, <2>1, <4>1 DEF Tokens!FindByHash
    <3>2. UNCHANGED <<clock, pat, cache, current>> /\ c \in Introspections /\ pat.issued /\ current = clock
      BY <1>4, <2>1 DEF Tokens!FindByHash
    <3>3. /\ call' \in [Tokens!Calls -> [pc : Labels, copy : Documents, at : Nat]]
          /\ call'[c].pc = "stamping" /\ call'[c].copy.used = clock
          /\ \A d \in Tokens!Calls : d # c => call'[d] = call[d]
      BY <3>1 DEF Labels
    <3>4. TokensTyped' /\ CurrentMeant' /\ IssuedFirst'
      BY <3>2, <3>3, SMTT(30)
    <3>5. Tokens!ActiveIsRecent'
      BY <3>2, <3>3, <1>i
    <3>6. QED
      BY <3>4, <3>5
  <2>2. CASE ~Tokens!UsableAt(clock)
    BY <1>4, <2>2, <1>0, <1>n, <1>i DEF Tokens!FindByHash, Labels
  <2>3. QED
    BY <2>1, <2>2
<1>5. ASSUME NEW c \in Tokens!Calls, Tokens!Stamp(c) PROVE TokensInv'
  BY <1>5, SavedDocument, <1>i DEF Tokens!Stamp, Tokens!Goes, Labels
<1>6. ASSUME NEW c \in Tokens!Calls, Tokens!Remember(c) PROVE TokensInv'
  <2>1. /\ call[c].pc = "caching" /\ cache' = clock + TTL /\ UNCHANGED <<clock, pat, current>>
        /\ Tokens!Answers(c, "active") /\ clock \in Nat /\ "active" \in Labels
    BY <1>6 DEF Tokens!Remember, Labels
  <2>2. /\ call' \in [Tokens!Calls -> [pc : Labels, copy : Documents, at : Nat]]
        /\ call'[c].pc = "active" /\ call'[c].at = clock /\ call'[c].copy.used = 0
        /\ \A d \in Tokens!Calls : d # c => call'[d] = call[d]
    BY <2>1, <1>s
  <2>3. current = clock
    BY <2>1
  <2>4. TokensTyped' /\ CurrentMeant' /\ IssuedFirst'
    BY <2>1, <2>2, <2>3
  <2>5. Tokens!ActiveIsRecent'
    BY <2>1, <2>2, <2>3, <1>i
  <2>6. QED
    BY <2>4, <2>5
<1>7. ASSUME NEW c \in Tokens!Calls, Tokens!FindById(c) PROVE TokensInv'
  <2>1. PICK copy \in Documents : copy.used = pat.used /\ call' = [call EXCEPT ![c].pc = "revoking", ![c].copy = copy]
    <3>1. [pat EXCEPT !.revoked = TRUE] \in Documents /\ [pat EXCEPT !.revoked = TRUE].used = pat.used
      BY DEF Documents
    <3>2. QED
      BY <1>7, <3>1 DEF Tokens!FindById
  <2>2. UNCHANGED <<clock, pat, cache, current>> /\ pat.issued /\ call[c].pc = "idle"
    BY <1>7 DEF Tokens!FindById
  <2>3. /\ call' \in [Tokens!Calls -> [pc : Labels, copy : Documents, at : Nat]]
        /\ call'[c].pc = "revoking" /\ call'[c].copy.used <= clock
        /\ \A d \in Tokens!Calls : d # c => call'[d] = call[d]
    BY <2>1 DEF Labels
  <2>4. TokensTyped' /\ CurrentMeant' /\ IssuedFirst'
    BY <2>2, <2>3
  <2>5. Tokens!ActiveIsRecent'
    BY <2>2, <2>3, <1>i
  <2>6. QED
    BY <2>4, <2>5
<1>8. ASSUME NEW c \in Tokens!Calls, Tokens!Revoke(c) PROVE TokensInv'
  BY <1>8, SavedDocument, <1>0, <1>n, <1>i DEF Tokens!Revoke, Labels
<1>9. ASSUME NEW c \in Tokens!Calls, Tokens!Fail(c) PROVE TokensInv'
  BY <1>9, <1>0, <1>n, <1>i DEF Tokens!Fail, Labels
<1>10. CASE UNCHANGED Tokens!vars
  BY <1>10, <1>i DEF Tokens!vars
<1>11. QED
  BY <1>1, <1>2, <1>3, <1>4, <1>5, <1>6, <1>7, <1>8, <1>9, <1>10 DEF Tokens!Next, Tokens!Handle

\* No step takes a revocation back, whichever copy of the token it saves.
LEMMA RevokedStays ==
  ASSUME TokensInv, [Next]_vars
  PROVE  pat.revoked => pat'.revoked
<1>1. CASE Tokens!Issue
  BY <1>1 DEF Tokens!Issue, TokensInv, IssuedFirst
<1>2. ASSUME NEW c \in Tokens!Calls, Tokens!Stamp(c) \/ Tokens!Revoke(c) PROVE pat.revoked => pat'.revoked
  BY <1>2, SavedDocument DEF Tokens!Stamp, Tokens!Revoke, TokensInv, TokensTyped
<1>3. CASE UNCHANGED pat
  BY <1>3
<1>4. QED
  <2>1. [Tokens!Next]_(Tokens!vars)
    BY PartSteps
  <2>2. Tokens!Issue \/ (\E c \in Tokens!Calls : Tokens!Stamp(c) \/ Tokens!Revoke(c)) \/ UNCHANGED pat
    BY <2>1 DEF Tokens!Next, Tokens!Handle, Tokens!vars, Tokens!Tick, Tokens!LookUp, Tokens!FindByHash,
                Tokens!Remember, Tokens!FindById, Tokens!Fail
  <2>3. QED
    BY <1>1, <1>2, <1>3, <2>2

\* So it holds of every behaviour.
LEMMA TokensHold == Spec => []TokensInv
<1>1. Tokens!Init => TokensInv
  <2> SUFFICES ASSUME Tokens!Init PROVE TokensInv
    OBVIOUS
  <2> USE AccessAssumption DEF Tokens!Init, Tokens!NoPat, Tokens!Waiting
  <2>1. pat \in Documents /\ ~pat.issued /\ ~pat.revoked /\ pat.used = 0 /\ pat.expires = 0
    BY DEF Documents
  <2>2. /\ call \in [Tokens!Calls -> [pc : Labels, copy : Documents, at : Nat]]
        /\ \A c \in Tokens!Calls : call[c].pc = "idle" /\ call[c].copy.used = 0
    BY <2>1 DEF Labels
  <2>3. TokensTyped
    BY <2>1, <2>2 DEF TokensTyped
  <2>4. CurrentMeant /\ IssuedFirst
    BY <2>1, <2>2 DEF CurrentMeant, IssuedFirst, Tokens!On, Tokens!InFlight, Tokens!UsableAt
  <2>5. Tokens!ActiveIsRecent
    BY <2>2 DEF Tokens!ActiveIsRecent, Tokens!On, Tokens!Calls
  <2>6. QED
    BY <2>3, <2>4, <2>5 DEF TokensInv
<1>2. QED
  BY <1>1, TokensStep, PartsAlone, PTL DEF Tokens!Spec

\* An answer "active" is less than a TTL older than the last moment the token was good,
\* and no save brings a revoked token back, for any number of introspections and of
\* revocations, whichever of them fail (introspect-token.ts:15, 48,
\* pat.repository.ts:108-116).
THEOREM TokensRevocable == Spec => RevocationHolds
<1>1. TokensInv => Tokens!ActiveIsRecent
  BY DEF TokensInv
<1>2. TokensInv /\ [Next]_vars => [pat.revoked => pat'.revoked]_vars
  BY RevokedStays
<1>3. QED
  BY <1>1, <1>2, TokensHold, PTL DEF Spec, RevocationHolds

-----------------------------------------------------------------------------

Stages == {"idle", "probing", "accepting", "dropping", "asking", "searching", "served", "done", "refused", "gone"}

\* What a request holds when the store has been offered n times.
Held(n) ==
  [pc : Stages, offer : 0 .. n, public : BOOLEAN, consent : 0 .. n,
   candidates : SUBSET Sharing!Documents, hits : SUBSET Sharing!Documents]

SharingTyped ==
  /\ scenario \in Scenarios
  /\ visibility \in {"private", "public"}
  /\ subscriptions \subseteq Projects \ {Owner}
  /\ offer \in Nat
  /\ accepted \in [Projects -> 0 .. offer]
  /\ request \in [Requests -> Held(offer)]

Public == {d \in Sharing!Documents : Acl[d].public}

\* Who is where, and what of the store it may have seen there.
StagesMeant ==
  /\ visibility = "public" => offer > 0
  /\ \A r \in Requests : request[r].pc # "idle" => r \in DOMAIN scenario.does
  /\ \A r \in DOMAIN scenario.does :
       /\ request[r].pc \in {"probing", "accepting"} => Sharing!Asks(r, {"subscribe"}) /\ Sharing!ProjectOf(r) # Owner
       /\ request[r].pc = "dropping" => Sharing!Asks(r, {"withdraw"})
       /\ request[r].pc \in {"asking", "searching", "served"} => Sharing!Asks(r, {"search", "list"})
       /\ request[r].pc = "asking" => Sharing!Crosses(r) /\ (request[r].public => request[r].offer > 0)
       /\ request[r].pc \in {"searching", "served"} /\ Sharing!Crosses(r) => request[r].offer > 0

Serene == scenario.patient /\ "crash" \notin scenario.faults
Acting(r) == request[r].pc \in {"probing", "accepting", "dropping"}

\* Where the two sides wait for each other and nothing dies: only one of them acts; a
\* store that is not offered has no subscription left, but for those that are being
\* dropped; and whoever has one, or is about to, has accepted the offer that stands.
ConsentsStand ==
  Serene =>
    /\ \A r, s \in DOMAIN scenario.does : Acting(r) /\ Acting(s) => r = s
    /\ visibility = "private" =>
         subscriptions = {} \/ \E r \in DOMAIN scenario.does : request[r].pc = "dropping"
    /\ \A r \in DOMAIN scenario.does :
         request[r].pc \in {"probing", "accepting"} => visibility = "public" /\ request[r].offer = offer
    /\ \A p \in subscriptions : accepted[p] = offer
    /\ \A r \in DOMAIN scenario.does :
         request[r].pc \in {"searching", "served"} /\ Sharing!Crosses(r) => request[r].consent >= request[r].offer

SharingInv == SharingTyped /\ StagesMeant /\ ConsentsStand /\ Sharing!OnlyPublicCrosses

\* Where one request moves, and nothing else but the store.
Moves(r) ==
  /\ UNCHANGED scenario
  /\ request' \in [Requests -> Held(offer')]
  /\ \A s \in Requests : s # r => request'[s] = request[s]

\* What a reader holds after its first read, and after its last.
LEMMA HeldLooked ==
  ASSUME NEW n \in Nat, NEW q \in Held(n), NEW label \in Stages, NEW public \in BOOLEAN
  PROVE  [q EXCEPT !.pc = label, !.public = public, !.offer = n] \in Held(n)
<1>1. [q EXCEPT !.pc = label, !.public = public] \in Held(n)
  BY DEF Held
<1>2. \A z \in Held(n) : [z EXCEPT !.offer = n] \in Held(n)
  BY DEF Held
<1>3. QED
  BY <1>1, <1>2

ServedWith(q, hits) == [q EXCEPT !.pc = "served", !.candidates = hits, !.hits = hits]

LEMMA HeldServed ==
  ASSUME NEW n \in Nat, NEW q \in Held(n), NEW hits \in SUBSET Sharing!Documents
  PROVE  ServedWith(q, hits) \in Held(n)
BY DEF Held, Stages, ServedWith

\* Every step of a request preserves the invariant.
LEMMA SharingStep ==
  ASSUME SharingInv, [Sharing!Next]_(Sharing!vars)
  PROVE  SharingInv'
<1> USE ScenarioAssumption, AccessAssumption
    DEF SharingInv, SharingTyped, StagesMeant, ConsentsStand, Sharing!OnlyPublicCrosses, Acting, Serene, Moves,
        Sharing!On, Sharing!Goes, Sharing!Asks, Sharing!ProjectOf, Sharing!Crosses, Sharing!Served, Sharing!store,
        Held
<1>a. /\ DOMAIN scenario.does \subseteq Requests
      /\ \A r \in DOMAIN scenario.does : Sharing!ProjectOf(r) \in Projects
  OBVIOUS
<1>b. ASSUME Sharing!AtRest PROVE \A r \in DOMAIN scenario.does : ~Acting(r)
  BY <1>a, <1>b DEF Sharing!AtRest, Sharing!Writers, Sharing!Ended
<1>1. ASSUME NEW r \in Requests, Sharing!ChangeVisibility(r) PROVE SharingInv'
  <2>1. /\ r \in DOMAIN scenario.does /\ request[r].pc = "idle"
        /\ scenario.does[r].op \in {"publish", "withdraw"}
        /\ scenario.patient => Sharing!AtRest
    BY <1>1 DEF Sharing!ChangeVisibility, Sharing!Starts, Sharing!Writers
  <2>2. /\ UNCHANGED <<scenario, subscriptions, accepted>>
        /\ \/ /\ scenario.does[r].op = "publish" /\ visibility' = "public"
              /\ offer' = IF visibility = "private" THEN offer + 1 ELSE offer
              /\ request' = [request EXCEPT ![r].pc = "done"]
           \/ /\ scenario.does[r].op = "withdraw" /\ visibility' = "private" /\ offer' = offer
              /\ request' = [request EXCEPT ![r].pc = "dropping"]
    BY <1>1, <2>1 DEF Sharing!ChangeVisibility
  <2>3. offer' \in {offer, offer + 1} /\ Moves(r)
    BY <2>2 DEF Stages
  <2>4. SharingTyped'
    BY <2>2, <2>3
  <2>5. StagesMeant'
    BY <2>1, <2>2, <1>a
  <2>6. ConsentsStand'
    BY <2>1, <2>2, <2>3, <1>a, <1>b, SMTT(30)
  <2>7. Sharing!OnlyPublicCrosses'
    BY <2>1, <2>2, <1>a
  <2>8. QED
    BY <2>4, <2>5, <2>6, <2>7
<1>2. ASSUME NEW r \in Requests, Sharing!DropSubscriptions(r) PROVE SharingInv'
  <2>1. /\ request[r].pc = "dropping" /\ request' = [request EXCEPT ![r].pc = "done"]
        /\ subscriptions' = {} /\ UNCHANGED <<scenario, visibility, offer, accepted>>
    BY <1>2 DEF Sharing!DropSubscriptions
  <2>2. Moves(r)
    BY <2>1 DEF Stages
  <2>3. SharingTyped' /\ StagesMeant'
    BY <2>1, <2>2, <1>a
  <2>4. ConsentsStand' /\ Sharing!OnlyPublicCrosses'
    BY <2>1, <1>a
  <2>5. QED
    BY <2>3, <2>4
<1>3. ASSUME NEW r \in Requests, Sharing!FindOffered(r) PROVE SharingInv'
  <2>1. /\ r \in DOMAIN scenario.does /\ request[r].pc = "idle" /\ scenario.does[r].op = "subscribe"
        /\ scenario.patient => Sharing!AtRest
        /\ UNCHANGED <<scenario, visibility, subscriptions, offer, accepted>>
    BY <1>3 DEF Sharing!FindOffered, Sharing!Starts, Sharing!Writers
  <2>2. \/ /\ visibility = "public" /\ Sharing!ProjectOf(r) # Owner
           /\ request' = [request EXCEPT ![r].pc = "probing", ![r].offer = offer]
        \/ request' = [request EXCEPT ![r].pc = "refused"]
    BY <1>3 DEF Sharing!FindOffered
  <2>3. Moves(r)
    <3>1. offer \in 0 .. offer
      OBVIOUS
    <3>2. QED
      BY <2>1, <2>2, <3>1 DEF Stages
  <2>4. SharingTyped' /\ StagesMeant'
    BY <2>1, <2>2, <2>3, <1>a
  <2>5. ConsentsStand'
    BY <2>1, <2>2, <1>a, <1>b, SMTT(30)
  <2>6. Sharing!OnlyPublicCrosses'
    BY <2>1, <2>2, <1>a
  <2>7. QED
    BY <2>4, <2>5, <2>6
<1>4. ASSUME NEW r \in Requests, Sharing!Probe(r) PROVE SharingInv'
  <2>1. /\ request[r].pc = "probing" /\ UNCHANGED <<scenario, visibility, subscriptions, offer, accepted>>
        /\ \E label \in {"accepting", "refused"} : request' = [request EXCEPT ![r].pc = label]
    BY <1>4 DEF Sharing!Probe
  <2>2. Moves(r)
    BY <2>1 DEF Stages
  <2>3. SharingTyped' /\ StagesMeant'
    BY <2>1, <2>2, <1>a
  <2>4. ConsentsStand' /\ Sharing!OnlyPublicCrosses'
    BY <2>1, <1>a
  <2>5. QED
    BY <2>3, <2>4
<1>5. ASSUME NEW r \in Requests, Sharing!Accept(r) PROVE SharingInv'
  <2>1. /\ request[r].pc = "accepting" /\ request' = [request EXCEPT ![r].pc = "done"]
        /\ subscriptions' = subscriptions \cup {Sharing!ProjectOf(r)}
        /\ accepted' = [accepted EXCEPT ![Sharing!ProjectOf(r)] = request[r].offer]
        /\ UNCHANGED <<scenario, visibility, offer>>
    BY <1>5 DEF Sharing!Accept
  <2>2. Moves(r) /\ Sharing!ProjectOf(r) \in Projects \ {Owner}
    BY <2>1, <1>a DEF Stages
  <2>3. SharingTyped' /\ StagesMeant'
    BY <2>1, <2>2, <1>a, SMTT(30)
  <2>4. ConsentsStand' /\ Sharing!OnlyPublicCrosses'
    BY <2>1, <2>2, <1>a
  <2>5. QED
    BY <2>3, <2>4
<1>6. ASSUME NEW r \in Requests, Sharing!Unsubscribe(r) PROVE SharingInv'
  <2>1. /\ r \in DOMAIN scenario.does /\ request[r].pc = "idle"
        /\ request' = [request EXCEPT ![r].pc = "done"]
        /\ subscriptions' \subseteq subscriptions
        /\ UNCHANGED <<scenario, visibility, offer, accepted>>
    BY <1>6 DEF Sharing!Unsubscribe, Sharing!Starts
  <2>2. Moves(r)
    BY <2>1 DEF Stages
  <2>3. SharingTyped' /\ StagesMeant'
    BY <2>1, <2>2, <1>a
  <2>4. ConsentsStand' /\ Sharing!OnlyPublicCrosses'
    BY <2>1, <1>a
  <2>5. QED
    BY <2>3, <2>4
<1>7. ASSUME NEW r \in Requests, Sharing!FindStore(r) PROVE SharingInv'
  <2>1. /\ r \in DOMAIN scenario.does /\ request[r].pc = "idle" /\ scenario.does[r].op \in {"search", "list"}
        /\ UNCHANGED <<scenario, visibility, subscriptions, offer, accepted>>
    BY <1>7 DEF Sharing!FindStore, Sharing!Starts
  <2>2. PICK label \in {"asking", "searching"}, public \in BOOLEAN :
          /\ label = "searching" <=> Sharing!ProjectOf(r) = Owner
          /\ public => visibility = "public"
          /\ request' = [request EXCEPT ![r].pc = label, ![r].public = public, ![r].offer = offer]
    BY <1>7 DEF Sharing!FindStore
  <2>3. Moves(r)
    <3> DEFINE looked == [request[r] EXCEPT !.pc = label, !.public = public, !.offer = offer]
    <3>1. looked \in Held(offer)
      <4>1. label \in Stages /\ offer \in Nat /\ request[r] \in Held(offer)
        BY <2>2 DEF Stages
      <4>2. QED
        BY <4>1, HeldLooked
    <3>2. request' = [request EXCEPT ![r] = looked]
      BY <2>2
    <3> HIDE DEF looked
    <3>3. QED
      BY <2>1, <3>1, <3>2
  <2>4. SharingTyped' /\ StagesMeant'
    BY <2>1, <2>2, <2>3, <1>a
  <2>5. ConsentsStand' /\ Sharing!OnlyPublicCrosses'
    BY <2>1, <2>2, <1>a
  <2>6. QED
    BY <2>4, <2>5
<1>8. ASSUME NEW r \in Requests, Sharing!AskConsent(r) PROVE SharingInv'
  <2>1. /\ request[r].pc = "asking" /\ UNCHANGED <<scenario, visibility, subscriptions, offer, accepted>>
        /\ \/ /\ request[r].public /\ Sharing!ProjectOf(r) \in subscriptions
              /\ request' = [request EXCEPT ![r].pc = "searching", ![r].consent = accepted[Sharing!ProjectOf(r)]]
           \/ request' = [request EXCEPT ![r].pc = "refused"]
    BY <1>8 DEF Sharing!AskConsent, Sharing!MayRead
  <2>2. Moves(r)
    BY <2>1, <1>a DEF Stages
  <2>3. SharingTyped' /\ StagesMeant'
    BY <2>1, <2>2, <1>a, SMTT(30)
  <2>4. ConsentsStand'
    <3>1. CASE request' = [request EXCEPT ![r].pc = "refused"]
      BY <2>1, <3>1, <1>a
    <3>2. CASE /\ Sharing!ProjectOf(r) \in subscriptions
               /\ request' = [request EXCEPT ![r].pc = "searching", ![r].consent = accepted[Sharing!ProjectOf(r)]]
      <4>1. Serene => request'[r].consent = offer
        BY <3>2
      <4>2. request'[r].offer = request[r].offer /\ request'[r].pc = "searching" /\ request[r].offer <= offer
        BY <3>2, <2>2
      <4>3. \A s \in Requests : s # r => request'[s] = request[s]
        BY <3>2
      <4>4. QED
        BY <2>1, <4>1, <4>2, <4>3, <1>a
    <3>3. QED
      BY <2>1, <3>1, <3>2
  <2>5. Sharing!OnlyPublicCrosses'
    BY <2>1, <1>a
  <2>6. QED
    BY <2>3, <2>4, <2>5
<1>9. ASSUME NEW r \in Requests, Sharing!Search(r) \/ Sharing!ListDocuments(r) PROVE SharingInv'
  <2>1. request[r].pc = "searching" /\ UNCHANGED <<scenario, visibility, subscriptions, offer, accepted>>
    BY <1>9 DEF Sharing!Search, Sharing!ListDocuments
  <2>2. ASSUME request' = [request EXCEPT ![r].pc = "refused"] PROVE SharingInv'
    <3>1. Moves(r)
      BY <2>1, <2>2 DEF Stages
    <3>2. SharingTyped' /\ StagesMeant'
      BY <2>1, <2>2, <3>1, <1>a
    <3>3. ConsentsStand' /\ Sharing!OnlyPublicCrosses'
      BY <2>1, <2>2, <1>a
    <3>4. QED
      BY <3>2, <3>3
  <2>3. ASSUME NEW hits \in SUBSET Sharing!Documents, Sharing!Crosses(r) => hits = Public,
               request' = [request EXCEPT ![r].pc = "served", ![r].candidates = hits, ![r].hits = hits]
        PROVE  SharingInv'
    <3>1. Moves(r)
      <4> DEFINE served == ServedWith(request[r], hits)
      <4>1. served \in Held(offer)
        BY HeldServed
      <4>2. request' = [request EXCEPT ![r] = served]
        BY <2>3 DEF ServedWith
      <4> HIDE DEF served
      <4>3. QED
        BY <2>1, <4>1, <4>2
    <3>2. SharingTyped' /\ StagesMeant'
      BY <2>1, <2>3, <3>1, <1>a
    <3>3. ConsentsStand'
      BY <2>1, <2>3, <1>a
    <3>4. Sharing!OnlyPublicCrosses'
      BY <2>1, <2>3, <1>a DEF Public
    <3>5. QED
      BY <3>2, <3>3, <3>4
  <2>4. CASE Sharing!Search(r)
    <3> DEFINE candidates == Sharing!Filtered(Sharing!TrimmingSpec(r))
    <3>1. candidates \in SUBSET Sharing!Documents /\ (Sharing!Crosses(r) => candidates = Public)
      BY DEF Sharing!Filtered, Sharing!TrimmingSpec, Public
    <3>2. candidates \cap Sharing!Allowed(r) = candidates
      BY DEF Sharing!Filtered, Sharing!TrimmingSpec, Sharing!Allowed
    <3>3. \/ request' = [request EXCEPT ![r].pc = "served", ![r].candidates = candidates, ![r].hits = candidates]
          \/ request' = [request EXCEPT ![r].pc = "refused"]
      BY <2>4, <3>2 DEF Sharing!Search
    <3> HIDE DEF candidates
    <3>4. QED
      BY <3>1, <3>3, <2>2, <2>3
  <2>5. CASE Sharing!ListDocuments(r)
    <3> DEFINE shown == {d \in Sharing!Documents : Sharing!Crosses(r) => Acl[d].public}
    <3>1. shown \in SUBSET Sharing!Documents /\ (Sharing!Crosses(r) => shown = Public)
      BY DEF Public
    <3>2. request' = [request EXCEPT ![r].pc = "served", ![r].candidates = shown, ![r].hits = shown]
      BY <2>5 DEF Sharing!ListDocuments
    <3> HIDE DEF shown
    <3>3. QED
      BY <3>1, <3>2, <2>3
  <2>6. QED
    BY <1>9, <2>4, <2>5
<1>10. ASSUME NEW r \in Requests, Sharing!Fail(r) PROVE SharingInv'
  <2>1. /\ ~Serene /\ request[r].pc \in {"dropping", "accepting"} /\ request' = [request EXCEPT ![r].pc = "gone"]
        /\ UNCHANGED <<scenario, visibility, subscriptions, offer, accepted>>
    BY <1>10 DEF Sharing!Fail
  <2>2. Moves(r)
    BY <2>1 DEF Stages
  <2>3. SharingTyped' /\ StagesMeant'
    BY <2>1, <2>2, <1>a
  <2>4. ConsentsStand' /\ Sharing!OnlyPublicCrosses'
    BY <2>1, <1>a
  <2>5. QED
    BY <2>3, <2>4
<1>11. CASE UNCHANGED Sharing!vars
  BY <1>11 DEF Sharing!vars
<1>12. QED
  BY <1>1, <1>2, <1>3, <1>4, <1>5, <1>6, <1>7, <1>8, <1>9, <1>10, <1>11 DEF Sharing!Next, Sharing!Handle

\* So it holds of every behaviour.
LEMMA SharingHolds == Spec => []SharingInv
<1>1. Sharing!Init => SharingInv
  <2> SUFFICES ASSUME Sharing!Init PROVE SharingInv
    OBVIOUS
  <2> USE AccessAssumption, ScenarioAssumption DEF Sharing!Init, Sharing!Waiting
  <2>1. SharingTyped
    BY DEF SharingTyped, Stages, Held
  <2>2. \A r \in DOMAIN scenario.does : r \in Requests /\ request[r].pc = "idle"
    OBVIOUS
  <2>3. StagesMeant
    BY <2>2 DEF StagesMeant
  <2>4. ConsentsStand
    BY <2>2 DEF ConsentsStand, Acting
  <2>5. Sharing!OnlyPublicCrosses
    BY <2>2 DEF Sharing!OnlyPublicCrosses, Sharing!Served, Sharing!On
  <2>6. QED
    BY <2>3, <2>1, <2>4, <2>5 DEF SharingInv
<1>2. QED
  BY <1>1, SharingStep, PartsAlone, PTL DEF Sharing!Spec

-----------------------------------------------------------------------------

Stands == {"idle", "asset", "saving", "closing", "creating", "done", "refused", "gone"}
Numbered == 0 .. MaxVersions
Pointed == [exists : BOOLEAN, published : Numbered, draft : Numbered, latest : Numbered]
Pointers ==
  {a \in Pointed :
     a.published <= a.latest /\ a.draft <= a.latest /\ (a.exists \/ a.latest = 0)}
Copies == [status : {"absent", "draft", "published", "deprecated"}, definition : SUBSET Handlers, revision : Nat]
Forms == [version : Numbered, revision : Nat, definition : SUBSET Handlers]
Working == [pc : Stands, seen : Forms, asset : Pointers, live : BOOLEAN, number : Numbered, version : Copies]

RegistryTyped ==
  /\ history \in Histories
  /\ asset \in Pointers
  /\ versions \in [Registry!Numbers -> Copies]
  /\ handler \in [Handlers -> Working]
  /\ announced \in Seq({"published", "deprecated"} \X Numbered)
  /\ released \in [Registry!Numbers -> SUBSET Handlers]

IsAnnounced(n) == <<"published", n>> \in ToSet(announced)
Changing(r, w) == r \in DOMAIN history.does /\ ~Registry!Does(r, "run") /\ w.pc \in {"asset", "saving", "closing"}

\* Whoever is at work, w, has found an asset, which points at what was announced, or
\* will point at what it announces itself.
WorkFits(r, w) ==
  /\ w.pc \in {"asset", "saving", "closing"} => r \in DOMAIN history.does /\ w.asset.exists
  /\ w.pc \in {"saving", "closing"} =>
       /\ w.number \in Registry!Numbers
       /\ Registry!Does(r, "edit") \/ Registry!Does(r, "publish") \/ Registry!Does(r, "deprecate")
       /\ Registry!Does(r, "publish") => w.asset.published = w.number
  /\ w.pc = "creating" => Registry!Does(r, "create")
  /\ w.asset.published # 0 =>
       IsAnnounced(w.asset.published) \/ (w.pc \in {"saving", "closing"} /\ Registry!Does(r, "publish"))

WorkMeant ==
  /\ asset.published # 0 => IsAnnounced(asset.published)
  /\ \A r \in Handlers : WorkFits(r, handler[r])

OneWriter == \A r, s \in Handlers : Changing(r, handler[r]) /\ Changing(s, handler[s]) => r = s

\* What is released is frozen, has a number, and is all that the asset points at.
ReleasedMeant ==
  /\ \A n \in Registry!Numbers : Registry!Released(versions[n]) =>
       asset.exists /\ n <= asset.latest /\ versions[n].definition = released[n]
  /\ asset.published # 0 => Registry!Released(versions[asset.published])

\* What an edit, a publication and a withdrawal are about to save, and have left to save.
EditFits(w) ==
  /\ w.pc = "saving" =>
       /\ w.version.status = "draft"
       /\ \/ w.number = asset.latest + 1 /\ w.asset = Registry!Reopened(asset)
          \/ /\ w.number <= asset.latest /\ w.asset = asset /\ versions[w.number].status = "draft"
             /\ w.version.revision = versions[w.number].revision + 1
             /\ w.seen.version = w.number => versions[w.number].definition \subseteq w.version.definition
  /\ w.pc = "closing" =>
       \/ w.asset = asset
       \/ w.number = asset.latest + 1 /\ w.asset = Registry!Reopened(asset)

PublicationFits(w) ==
  /\ w.pc \in {"saving", "closing"} => w.number <= asset.latest /\ w.asset = Registry!PublishedAs(asset, w.number)
  /\ w.pc = "saving" =>
       versions[w.number].status = "draft" /\ w.version = [versions[w.number] EXCEPT !.status = "published"]
  /\ w.pc = "closing" => versions[w.number].status = "published"

WithdrawalFits(w) ==
  /\ w.pc \in {"saving", "closing"} => w.asset = Registry!Withdrawn(asset, w.number)
  /\ w.pc = "saving" =>
       /\ versions[w.number].status = "published" /\ w.version = [versions[w.number] EXCEPT !.status = "deprecated"]
       /\ w.live <=> asset.published = w.number
  /\ w.pc = "closing" => asset.published = w.number

ChangeFits(r, w) ==
  Changing(r, w) =>
    /\ asset.exists
    /\ w.pc = "asset" => w.asset = asset
    /\ Registry!Does(r, "edit") => EditFits(w)
    /\ Registry!Does(r, "publish") => PublicationFits(w)
    /\ Registry!Does(r, "deprecate") => WithdrawalFits(w)

\* A run that has found the asset, and one that has its version.
RunFits(r, w) ==
  Registry!Does(r, "run") =>
    /\ w.pc = "asset" /\ w.asset.published # 0 => Registry!Released(versions[w.asset.published])
    /\ w.pc = "done" =>
         /\ w.number \in Registry!Numbers /\ IsAnnounced(w.number) /\ Registry!Released(versions[w.number])
         /\ w.version.status # "draft" /\ w.version.definition = released[w.number]

\* A form shows what the version was at the revision that the form has.
FormFits(w) ==
  w.seen.version # 0 =>
    /\ w.seen.version <= asset.latest /\ w.seen.revision <= versions[w.seen.version].revision
    /\ w.seen.revision = versions[w.seen.version].revision => w.seen.definition = versions[w.seen.version].definition

Withdrawing(r, w) == Changing(r, w) /\ Registry!Does(r, "deprecate") /\ w.pc = "closing"

\* What the asset points at is published, or is being withdrawn.
PointerMeant ==
  "crash" \notin history.faults /\ asset.published # 0 =>
    versions[asset.published].status = "published" \/ \E r \in Handlers : Withdrawing(r, handler[r])

PatientInv ==
  /\ OneWriter /\ ReleasedMeant /\ PointerMeant
  /\ \A r \in Handlers : ChangeFits(r, handler[r]) /\ RunFits(r, handler[r]) /\ FormFits(handler[r])

RegistryInv == RegistryTyped /\ WorkMeant /\ (history.patient => PatientInv)

\* A step in which nothing is saved: what is asked of the request, asked of all, is
\* enough.
LEMMA QuietStep ==
  ASSUME RegistryInv, NEW r \in Handlers, NEW w \in Working,
         UNCHANGED <<history, asset, versions, announced, released>>,
         handler' = [handler EXCEPT ![r] = w],
         WorkFits(r, w),
         history.patient =>
           /\ ChangeFits(r, w) /\ RunFits(r, w) /\ FormFits(w)
           /\ Changing(r, w) => Registry!AtRest \/ Changing(r, handler[r])
           /\ Withdrawing(r, handler[r]) => "crash" \in history.faults
  PROVE  RegistryInv'
<1> USE DEF RegistryInv
<1>1. /\ handler' \in [Handlers -> Working] /\ handler'[r] = w
      /\ \A s \in Handlers : s # r => handler'[s] = handler[s]
  BY DEF RegistryTyped
<1>2. RegistryTyped'
  BY <1>1 DEF RegistryTyped
<1>3. \A s \in Handlers : WorkFits(s, handler[s])'
  BY <1>1 DEF WorkMeant, WorkFits, IsAnnounced, Registry!Does
<1>4. WorkMeant'
  BY <1>3 DEF WorkMeant, IsAnnounced
<1>5. ASSUME history.patient PROVE PatientInv'
  <2> USE <1>5 DEF PatientInv
  <2>1. OneWriter'
    <3>1. ASSUME Registry!AtRest PROVE \A s \in Handlers : ~Changing(s, handler[s])
      BY <3>1 DEF Registry!AtRest, Registry!Writers, Changing
    <3>2. \A s \in Handlers : Changing(s, handler[s])' <=> Changing(s, handler'[s])
      BY DEF Changing, Registry!Does
    <3>3. QED
      BY <1>1, <3>1, <3>2 DEF OneWriter
  <2>2. ReleasedMeant'
    BY DEF ReleasedMeant
  <2>3. PointerMeant'
    <3>1. \A s \in Handlers : Withdrawing(s, handler[s])' <=> Withdrawing(s, handler'[s])
      BY DEF Withdrawing, Changing, Registry!Does
    <3>2. QED
      BY <1>1, <3>1 DEF PointerMeant
  <2>4. \A s \in Handlers : ChangeFits(s, handler[s])'
    <3>1. ASSUME NEW s \in Handlers PROVE ChangeFits(s, handler[s])' <=> ChangeFits(s, handler'[s])
      BY DEF ChangeFits, Changing, EditFits, PublicationFits, WithdrawalFits, Registry!Does
    <3>2. QED
      BY <1>1, <3>1
  <2>5. \A s \in Handlers : RunFits(s, handler[s])'
    <3>1. ASSUME NEW s \in Handlers PROVE RunFits(s, handler[s])' <=> RunFits(s, handler'[s])
      BY DEF RunFits, IsAnnounced, Registry!Does
    <3>2. QED
      BY <1>1, <3>1
  <2>6. \A s \in Handlers : FormFits(handler[s])'
    <3>1. ASSUME NEW s \in Handlers PROVE FormFits(handler[s])' <=> FormFits(handler'[s])
      BY DEF FormFits
    <3>2. QED
      BY <1>1, <3>1
  <2>7. QED
    BY <2>1, <2>2, <2>3, <2>4, <2>5, <2>6
<1>6. QED
  BY <1>2, <1>4, <1>5

LEMMA WaitingWorks == Registry!Waiting \in Working
BY AccessAssumption DEF Registry!Waiting, Registry!NoAsset, Registry!NoVersion, Registry!Blank, Working, Pointers, Pointed,
   Copies, Forms, Stands, Numbered

\* Whoever gives up, or is done, holds nothing any more.
LEMMA EndsQuietly ==
  ASSUME RegistryInv, NEW r \in Handlers, NEW label \in {"refused", "gone", "done"}, Registry!Ends(r, label),
         UNCHANGED <<history, asset, versions, announced, released>>,
         label = "done" => ~Registry!Does(r, "run"),
         history.patient /\ Withdrawing(r, handler[r]) => "crash" \in history.faults
  PROVE  RegistryInv'
<1> DEFINE w == [Registry!Waiting EXCEPT !.pc = label, !.number = handler[r].number, !.version = handler[r].version]
<1>1. handler' = [handler EXCEPT ![r] = w]
  BY DEF Registry!Ends, Registry!Becomes
<1>2. /\ w.pc = label /\ w.asset.published = 0 /\ w.seen.version = 0
      /\ w \in Working
  <2>1. label \in Stands /\ handler[r].number \in Numbered /\ handler[r].version \in Copies
    BY DEF RegistryInv, RegistryTyped, Working, Stands
  <2>2. w \in Working
    BY <2>1, WaitingWorks DEF Working
  <2>3. w.pc = label /\ w.asset = Registry!NoAsset /\ w.seen = Registry!Blank
    BY DEF Registry!Waiting
  <2>4. QED
    BY <2>2, <2>3 DEF Registry!NoAsset, Registry!Blank
<1> HIDE DEF w
<1>3. /\ WorkFits(r, w) /\ ChangeFits(r, w) /\ RunFits(r, w) /\ FormFits(w) /\ ~Changing(r, w)
  BY <1>2 DEF WorkFits, ChangeFits, RunFits, FormFits, Changing
<1>4. QED
  BY <1>1, <1>2, <1>3, QuietStep

LEMMA LookStep ==
  ASSUME RegistryInv, NEW r \in Handlers, Registry!Look(r)
  PROVE  RegistryInv'
<1> DEFINE form ==
      IF asset.draft # 0
      THEN [version |-> asset.draft, revision |-> versions[asset.draft].revision,
            definition |-> versions[asset.draft].definition]
      ELSE [version |-> 0, revision |-> 1,
            definition |-> IF asset.published = 0 THEN {} ELSE versions[asset.published].definition]
    w == [Registry!Waiting EXCEPT !.seen = form]
<1>1. /\ handler' = [handler EXCEPT ![r] = w] /\ Registry!Does(r, "edit") /\ handler[r].pc = "idle"
      /\ UNCHANGED <<history, asset, versions, announced, released>>
  BY DEF Registry!Look, Registry!Becomes, Registry!On, Registry!registry
<1>2. form \in Forms
  BY AccessAssumption DEF RegistryInv, RegistryTyped, Pointers, Pointed, Forms, Copies, Numbered, Registry!Numbers
<1>3. form.version # 0 => /\ form.version = asset.draft /\ form.revision = versions[form.version].revision
                          /\ form.definition = versions[form.version].definition
  OBVIOUS
<1> HIDE DEF form
<1>4. w \in Working /\ w.pc = "idle" /\ w.asset.published = 0 /\ w.seen = form
  <2>1. w \in Working
    BY <1>2, WaitingWorks DEF Working
  <2>2. w.pc = "idle" /\ w.asset = Registry!NoAsset /\ w.seen = form
    BY DEF Registry!Waiting
  <2>3. QED
    BY <2>1, <2>2 DEF Registry!NoAsset
<1> HIDE DEF w
<1>5. form.version # 0 => form.version <= asset.latest /\ form.revision <= versions[form.version].revision
  BY <1>2, <1>3 DEF RegistryInv, RegistryTyped, Pointers, Forms
<1>6. WorkFits(r, w) /\ ChangeFits(r, w) /\ RunFits(r, w) /\ FormFits(w) /\ ~Changing(r, w)
  BY <1>3, <1>4, <1>5 DEF WorkFits, ChangeFits, RunFits, FormFits, Changing
<1>7. ~Withdrawing(r, handler[r])
  BY <1>1 DEF Withdrawing
<1>8. QED
  BY <1>1, <1>4, <1>6, <1>7, QuietStep

LEMMA FindAssetStep ==
  ASSUME RegistryInv, NEW r \in Handlers, Registry!FindAsset(r)
  PROVE  RegistryInv'
<1>1. /\ r \in DOMAIN history.does /\ handler[r].pc = "idle" /\ ~Registry!Does(r, "create")
      /\ history.patient /\ ~Registry!Does(r, "run") => Registry!AtRest
      /\ UNCHANGED <<history, asset, versions, announced, released>>
  BY DEF Registry!FindAsset, Registry!On, Registry!registry, Registry!Writers
<1>2. ~Withdrawing(r, handler[r])
  BY <1>1 DEF Withdrawing
<1>3. CASE asset.exists
  <2> DEFINE w == [handler[r] EXCEPT !.pc = "asset", !.asset = asset]
  <2>1. handler' = [handler EXCEPT ![r] = w]
    BY <1>3 DEF Registry!FindAsset, Registry!Becomes
  <2>2. w \in Working /\ w.pc = "asset" /\ w.asset = asset /\ w.seen = handler[r].seen
    BY DEF RegistryInv, RegistryTyped, Working, Stands
  <2> HIDE DEF w
  <2>3. WorkFits(r, w)
    BY <1>1, <1>3, <2>2 DEF WorkFits, RegistryInv, WorkMeant
  <2>4. ASSUME history.patient PROVE ChangeFits(r, w) /\ RunFits(r, w) /\ FormFits(w)
    <3>1. ReleasedMeant /\ FormFits(handler[r])
      BY <2>4 DEF RegistryInv, PatientInv
    <3>2. ChangeFits(r, w)
      BY <1>3, <2>2 DEF ChangeFits, EditFits, PublicationFits, WithdrawalFits
    <3>3. RunFits(r, w) /\ FormFits(w)
      BY <2>2, <3>1 DEF RunFits, FormFits, ReleasedMeant
    <3>4. QED
      BY <3>2, <3>3
  <2>5. Changing(r, w) /\ history.patient => Registry!AtRest
    BY <1>1 DEF Changing
  <2>6. QED
    BY <1>1, <1>2, <2>1, <2>2, <2>3, <2>4, <2>5, QuietStep
<1>4. CASE ~asset.exists
  BY <1>1, <1>2, <1>4, EndsQuietly DEF Registry!FindAsset
<1>5. QED
  BY <1>3, <1>4

\* What the asset will point at, once a draft is reopened, published or withdrawn.
LEMMA ReopenedPointers ==
  ASSUME NEW a \in Pointers, a.exists, Registry!Reopened(a).draft <= MaxVersions
  PROVE  LET b == Registry!Reopened(a) IN
         b \in Pointers /\ b.exists /\ b.published = a.published /\ b.draft = a.latest + 1 /\ b.latest = a.latest + 1
<1>1. Registry!Larger(a.latest, a.published) = a.latest
  BY DEF Pointers, Pointed, Numbered, Registry!Larger
<1>2. Registry!Reopened(a) = [a EXCEPT !.draft = a.latest + 1, !.latest = a.latest + 1]
  BY <1>1 DEF Registry!Reopened
<1>3. a \in Pointed /\ Registry!Reopened(a).draft = a.latest + 1
  BY <1>2 DEF Pointers, Pointed
<1>4. a.latest + 1 \in Numbered
  BY <1>3, AccessAssumption DEF Pointed, Numbered
<1> DEFINE b == Registry!Reopened(a)
<1>5. b \in Pointed /\ (b.exists <=> a.exists) /\ b.published = a.published /\ b.draft = a.latest + 1 /\ b.latest = a.latest + 1
  <2>1. b = [a EXCEPT !.draft = a.latest + 1, !.latest = a.latest + 1]
    BY <1>2
  <2> HIDE DEF b
  <2>2. QED
    BY <2>1, <1>3, <1>4 DEF Pointed
<1>6. QED
  BY <1>5 DEF Pointers, Pointed, Numbered

LEMMA PublishedPointers ==
  ASSUME NEW a \in Pointers, a.exists, NEW n \in Numbered
  PROVE  LET b == Registry!PublishedAs(a, n) IN
         b \in Pointers /\ b.exists /\ b.published = n /\ b.latest >= a.latest /\ (n <= a.latest => b.latest = a.latest)
<1> DEFINE l == Registry!Larger(a.latest, n)
           p == [a EXCEPT !.published = n]
<1>1. a \in Pointed /\ l \in Numbered /\ l >= n /\ l >= a.latest /\ (n <= a.latest => l = a.latest)
  BY DEF Pointers, Pointed, Numbered, Registry!Larger
<1>2. Registry!PublishedAs(a, n) = [p EXCEPT !.draft = 0, !.latest = l]
  BY DEF Registry!PublishedAs
<1>3. p \in Pointed /\ (p.exists <=> a.exists) /\ p.published = n
  BY <1>1 DEF Pointed
<1> HIDE DEF l, p
<1> DEFINE b == Registry!PublishedAs(a, n)
<1>4. b \in Pointed /\ (b.exists <=> a.exists) /\ b.published = n /\ b.draft = 0 /\ b.latest = l
  <2>1. b = [p EXCEPT !.draft = 0, !.latest = l] /\ 0 \in Numbered
    BY <1>2, AccessAssumption DEF Numbered
  <2> HIDE DEF b
  <2>2. QED
    BY <2>1, <1>1, <1>3 DEF Pointed
<1>5. QED
  BY <1>1, <1>4, AccessAssumption DEF Pointers, Pointed, Numbered

LEMMA WithdrawnPointers ==
  ASSUME NEW a \in Pointers, NEW n
  PROVE  LET b == Registry!Withdrawn(a, n) IN
         /\ b \in Pointers /\ (b.exists <=> a.exists) /\ b.latest = a.latest
         /\ b.published = IF a.published = n THEN 0 ELSE a.published
BY AccessAssumption DEF Pointers, Pointed, Numbered, Registry!Withdrawn

\* Whoever is about to save a version, and then the asset, has all that it is to save.
SavingAs(q, n, v, a) ==
  [q EXCEPT !.pc = "saving", !.number = n, !.version = v, !.asset = a, !.live = q.asset.published = n]

LEMMA SavingWorks ==
  ASSUME NEW q \in Working, NEW n \in Numbered, NEW v \in Copies, NEW a \in Pointers
  PROVE  /\ SavingAs(q, n, v, a) \in Working
         /\ SavingAs(q, n, v, a).pc = "saving" /\ SavingAs(q, n, v, a).number = n
         /\ SavingAs(q, n, v, a).version = v /\ SavingAs(q, n, v, a).asset = a
         /\ SavingAs(q, n, v, a).live <=> q.asset.published = n
         /\ SavingAs(q, n, v, a).seen = q.seen
<1>1. [q EXCEPT !.pc = "saving", !.number = n, !.version = v] \in Working
  BY DEF Working, Stands
<1>2. \A z \in Working, l \in BOOLEAN : [z EXCEPT !.asset = a, !.live = l] \in Working
  BY DEF Working
<1>3. QED
  BY <1>1, <1>2 DEF Working, SavingAs

\* The copy of a draft to which an edit was added.
EditedAs(v, definition) == [v EXCEPT !.definition = definition, !.revision = @ + 1]

LEMMA EditedCopies ==
  ASSUME NEW v \in Copies, NEW definition \in SUBSET Handlers
  PROVE  /\ EditedAs(v, definition) \in Copies /\ EditedAs(v, definition).status = v.status
         /\ EditedAs(v, definition).definition = definition /\ EditedAs(v, definition).revision = v.revision + 1
<1> DEFINE z == [v EXCEPT !.definition = definition]
           e == EditedAs(v, definition)
           k == v.revision + 1
<1>1. z \in Copies /\ z.status = v.status /\ z.definition = definition /\ k \in Nat
  BY DEF Copies
<1>2. e = [z EXCEPT !.revision = k]
  BY DEF EditedAs
<1> HIDE DEF z, e, k
<1>3. e \in Copies /\ e.status = z.status /\ e.definition = z.definition /\ e.revision = k
  BY <1>1, <1>2 DEF Copies
<1>4. QED
  BY <1>1, <1>3 DEF e, k

LEMMA FindSlugStep ==
  ASSUME RegistryInv, NEW r \in Handlers, Registry!FindSlug(r)
  PROVE  RegistryInv'
<1>1. /\ Registry!Does(r, "create") /\ handler[r].pc = "idle"
      /\ UNCHANGED <<history, asset, versions, announced, released>>
  BY DEF Registry!FindSlug, Registry!On, Registry!registry
<1>2. ~Withdrawing(r, handler[r])
  BY <1>1 DEF Withdrawing
<1>3. CASE ~asset.exists
  <2> DEFINE w == [Registry!Waiting EXCEPT !.pc = "creating"]
  <2>1. handler' = [handler EXCEPT ![r] = w]
    BY <1>3 DEF Registry!FindSlug, Registry!Becomes
  <2>2. w \in Working
    BY WaitingWorks DEF Working, Stands
  <2>3. w.pc = "creating" /\ w.asset.published = 0 /\ w.seen.version = 0
    BY DEF Registry!Waiting, Registry!NoAsset, Registry!Blank
  <2> HIDE DEF w
  <2>4. WorkFits(r, w) /\ ChangeFits(r, w) /\ RunFits(r, w) /\ FormFits(w) /\ ~Changing(r, w)
    BY <1>1, <2>3 DEF WorkFits, ChangeFits, RunFits, FormFits, Changing
  <2>5. QED
    BY <1>1, <1>2, <2>1, <2>2, <2>4, QuietStep
<1>4. CASE asset.exists
  BY <1>1, <1>2, <1>4, EndsQuietly DEF Registry!FindSlug
<1>5. QED
  BY <1>3, <1>4

LEMMA RegistryFailStep ==
  ASSUME RegistryInv, NEW r \in Handlers, Registry!Fail(r)
  PROVE  RegistryInv'
BY EndsQuietly DEF Registry!Fail, Registry!registry

LEMMA ResolveStep ==
  ASSUME RegistryInv, NEW r \in Handlers, Registry!Resolve(r)
  PROVE  RegistryInv'
<1> DEFINE n == Registry!Resolved(handler[r].asset)
<1>1. /\ Registry!Does(r, "run") /\ handler[r].pc = "asset" /\ r \in DOMAIN history.does
      /\ UNCHANGED <<history, asset, versions, announced, released>>
  BY DEF Registry!Resolve, Registry!On, Registry!registry, Registry!Does
<1>2. ~Withdrawing(r, handler[r])
  BY <1>1 DEF Withdrawing
<1>3. n = handler[r].asset.published /\ n \in Numbered
  BY DEF Registry!Resolved, RegistryInv, RegistryTyped, Working, Pointers, Pointed
<1>4. CASE Registry!Ends(r, "refused")
  BY <1>1, <1>2, <1>4, EndsQuietly
<1>5. CASE ~Registry!Ends(r, "refused")
  <2> DEFINE w == [Registry!Waiting EXCEPT !.pc = "done", !.number = n, !.version = versions[n]]
  <2>1. n # 0 /\ handler' = [handler EXCEPT ![r] = w]
    BY <1>5, <1>3 DEF Registry!Resolve, Registry!Becomes
  <2>2. n \in Registry!Numbers /\ versions[n] \in Copies
    BY <1>3, <2>1 DEF RegistryInv, RegistryTyped, Numbered, Registry!Numbers
  <2>3. w \in Working
    BY WaitingWorks, <1>3, <2>2 DEF Working, Stands
  <2>4. /\ w.pc = "done" /\ w.asset.published = 0 /\ w.seen.version = 0
        /\ w.number = n /\ w.version = versions[n]
    BY DEF Registry!Waiting, Registry!NoAsset, Registry!Blank
  <2> HIDE DEF w
  <2>5. WorkFits(r, w) /\ ChangeFits(r, w) /\ FormFits(w) /\ ~Changing(r, w)
    BY <2>4 DEF WorkFits, ChangeFits, FormFits, Changing
  <2>6. IsAnnounced(n)
    BY <1>1, <1>3, <2>1 DEF RegistryInv, WorkMeant, WorkFits
  <2>7. ASSUME history.patient PROVE RunFits(r, w)
    <3>1. Registry!Released(versions[n])
      BY <2>7, <1>1, <1>3, <2>1 DEF RegistryInv, PatientInv, RunFits
    <3>2. versions[n].definition = released[n] /\ versions[n].status # "draft"
      BY <2>7, <3>1, <2>2 DEF RegistryInv, PatientInv, ReleasedMeant, Registry!Released
    <3>3. QED
      BY <2>2, <2>4, <2>6, <3>1, <3>2 DEF RunFits
  <2>8. QED
    BY <1>1, <1>2, <2>1, <2>3, <2>5, <2>7, QuietStep
<1>6. QED
  BY <1>4, <1>5

LEMMA FindPublishableStep ==
  ASSUME RegistryInv, NEW r \in Handlers, Registry!FindPublishable(r)
  PROVE  RegistryInv'
<1> DEFINE q == handler[r]
           n == q.asset.draft
<1>1. /\ Registry!Does(r, "publish") /\ q.pc = "asset" /\ r \in DOMAIN history.does
      /\ UNCHANGED <<history, asset, versions, announced, released>>
      /\ ~Registry!Does(r, "edit") /\ ~Registry!Does(r, "deprecate") /\ ~Registry!Does(r, "run")
  BY DEF Registry!FindPublishable, Registry!On, Registry!registry, Registry!Does
<1>2. ~Withdrawing(r, q)
  BY <1>1 DEF Withdrawing
<1>3. CASE Registry!Ends(r, "refused")
  BY <1>1, <1>2, <1>3, EndsQuietly
<1>4. CASE ~Registry!Ends(r, "refused")
  <2> DEFINE v == [versions[n] EXCEPT !.status = "published"]
             b == Registry!PublishedAs(q.asset, n)
             w == SavingAs(q, n, v, b)
  <2>1. n # 0 /\ versions[n].status = "draft" /\ handler' = [handler EXCEPT ![r] = w]
    BY <1>4 DEF Registry!FindPublishable, Registry!IsDraft, Registry!Saving, Registry!Becomes, SavingAs
  <2>2. q \in Working /\ q.asset \in Pointers /\ q.asset.exists /\ n \in Registry!Numbers /\ n \in Numbered
    BY <1>1, <2>1 DEF RegistryInv, RegistryTyped, WorkMeant, WorkFits, Working, Pointers, Pointed, Numbered, Registry!Numbers
  <2>3. n <= q.asset.latest
    BY <2>2 DEF Pointers
  <2>4. v \in Copies
    BY <2>2 DEF RegistryInv, RegistryTyped, Copies
  <2>5. b \in Pointers /\ b.exists /\ b.published = n
    BY <2>2, PublishedPointers
  <2> HIDE DEF b, n, q, v
  <2> HIDE DEF w
  <2>6. w \in Working /\ w.pc = "saving" /\ w.number = n /\ w.version = v /\ w.asset = b /\ w.seen = q.seen
    BY <2>2, <2>4, <2>5, SavingWorks DEF w
  <2>7. WorkFits(r, w)
    BY <1>1, <2>2, <2>5, <2>6 DEF WorkFits
  <2>8. Changing(r, q) /\ RunFits(r, w)
    BY <1>1 DEF Changing, RunFits
  <2>9. ASSUME history.patient PROVE ChangeFits(r, w) /\ FormFits(w)
    <3>1. ChangeFits(r, q) /\ FormFits(q)
      BY <2>9 DEF RegistryInv, PatientInv, q
    <3>2. FormFits(w)
      BY <3>1, <2>6 DEF FormFits
    <3>3. asset.exists /\ q.asset = asset
      BY <3>1, <2>8, <1>1 DEF ChangeFits
    <3>4. PublicationFits(w)
      BY <3>3, <2>1, <2>3, <2>6 DEF PublicationFits, b, v
    <3>5. QED
      BY <1>1, <2>6, <3>2, <3>3, <3>4 DEF ChangeFits
  <2>10. QED
    BY <1>1, <1>2, <2>1, <2>6, <2>7, <2>8, <2>9, QuietStep DEF q
<1>5. QED
  BY <1>3, <1>4

LEMMA FindDeprecatedStep ==
  ASSUME RegistryInv, NEW r \in Handlers, Registry!FindDeprecated(r)
  PROVE  RegistryInv'
<1> DEFINE q == handler[r]
           n == history.does[r].number
<1>1. /\ Registry!Does(r, "deprecate") /\ q.pc = "asset" /\ r \in DOMAIN history.does
      /\ UNCHANGED <<history, asset, versions, announced, released>>
      /\ ~Registry!Does(r, "edit") /\ ~Registry!Does(r, "publish") /\ ~Registry!Does(r, "run")
  BY DEF Registry!FindDeprecated, Registry!On, Registry!registry, Registry!Does
<1>2. ~Withdrawing(r, q)
  BY <1>1 DEF Withdrawing
<1>3. CASE Registry!Ends(r, "refused")
  BY <1>1, <1>2, <1>3, EndsQuietly
<1>4. CASE ~Registry!Ends(r, "refused")
  <2> DEFINE v == [versions[n] EXCEPT !.status = "deprecated"]
             b == Registry!Withdrawn(q.asset, n)
             w == SavingAs(q, n, v, b)
  <2>1. versions[n].status = "published" /\ handler' = [handler EXCEPT ![r] = w]
    BY <1>4 DEF Registry!FindDeprecated, Registry!Saving, Registry!Becomes, SavingAs
  <2>2. n \in Registry!Numbers
    BY <1>1, HistoryAssumption DEF RegistryInv, RegistryTyped, Registry!Does, Registry!Numbers
  <2>3. q \in Working /\ q.asset \in Pointers /\ q.asset.exists /\ n \in Numbered
    BY <1>1, <2>2 DEF RegistryInv, RegistryTyped, WorkMeant, WorkFits, Working, Numbered, Registry!Numbers
  <2>4. v \in Copies
    BY <2>2 DEF RegistryInv, RegistryTyped, Copies
  <2>5. /\ b \in Pointers /\ b.exists /\ b.published = IF q.asset.published = n THEN 0 ELSE q.asset.published
    BY <2>3, WithdrawnPointers
  <2>6. q.asset.published # 0 => IsAnnounced(q.asset.published)
    BY <1>1 DEF RegistryInv, WorkMeant, WorkFits
  <2> HIDE DEF b, n, q, v
  <2> HIDE DEF w
  <2>7. /\ w \in Working /\ w.pc = "saving" /\ w.number = n /\ w.version = v /\ w.asset = b /\ w.seen = q.seen
        /\ w.live <=> q.asset.published = n
    BY <2>3, <2>4, <2>5, SavingWorks DEF w
  <2>8. WorkFits(r, w)
    BY <1>1, <2>2, <2>5, <2>6, <2>7 DEF WorkFits
  <2>9. Changing(r, q) /\ RunFits(r, w)
    BY <1>1 DEF Changing, RunFits
  <2>10. ASSUME history.patient PROVE ChangeFits(r, w) /\ FormFits(w)
    <3>1. ChangeFits(r, q) /\ FormFits(q)
      BY <2>10 DEF RegistryInv, PatientInv, q
    <3>2. FormFits(w)
      BY <3>1, <2>7 DEF FormFits
    <3>3. asset.exists /\ q.asset = asset
      BY <3>1, <2>9, <1>1 DEF ChangeFits
    <3>4. WithdrawalFits(w)
      BY <3>3, <2>1, <2>7 DEF WithdrawalFits, b, v
    <3>5. QED
      BY <1>1, <2>7, <3>2, <3>3, <3>4 DEF ChangeFits
  <2>11. QED
    BY <1>1, <1>2, <2>1, <2>7, <2>8, <2>9, <2>10, QuietStep DEF q
<1>5. QED
  BY <1>3, <1>4

LEMMA FindDraftStep ==
  ASSUME RegistryInv, NEW r \in Handlers, Registry!FindDraft(r)
  PROVE  RegistryInv'
<1> DEFINE q == handler[r]
           d == q.asset.draft
           edited == q.seen.definition \cup {r}
           Saves(n, v, b) == handler' = [handler EXCEPT ![r] = SavingAs(q, n, v, b)]
<1>1. /\ Registry!Does(r, "edit") /\ q.pc = "asset" /\ r \in DOMAIN history.does
      /\ UNCHANGED <<history, asset, versions, announced, released>>
      /\ ~Registry!Does(r, "publish") /\ ~Registry!Does(r, "deprecate") /\ ~Registry!Does(r, "run")
  BY DEF Registry!FindDraft, Registry!On, Registry!registry, Registry!Does
<1>2. ~Withdrawing(r, q)
  BY <1>1 DEF Withdrawing
<1>3. /\ q \in Working /\ q.asset \in Pointers /\ q.asset.exists /\ edited \subseteq Handlers
      /\ d \in Numbered /\ q.asset.latest \in Numbered /\ q.asset.published \in Numbered /\ d <= q.asset.latest
  BY <1>1 DEF RegistryInv, RegistryTyped, WorkMeant, WorkFits, Working, Forms, Pointers, Pointed
<1>4. q.asset.published # 0 => IsAnnounced(q.asset.published)
  BY <1>1 DEF RegistryInv, WorkMeant, WorkFits
<1>5. Changing(r, q) /\ \A w : RunFits(r, w)
  BY <1>1 DEF Changing, RunFits
<1>6. history.patient => asset.exists /\ q.asset = asset /\ FormFits(q)
  BY <1>1, <1>5 DEF RegistryInv, PatientInv, ChangeFits
<1>7. ASSUME NEW n \in Registry!Numbers, NEW v \in Copies, NEW b \in Pointers, Saves(n, v, b),
             b.exists, b.published = q.asset.published, v.status = "draft",
             \/ n = q.asset.latest + 1 /\ b = Registry!Reopened(q.asset)
             \/ /\ n <= q.asset.latest /\ b = q.asset /\ versions[n].status = "draft"
                /\ v.revision = versions[n].revision + 1 /\ q.seen.revision = versions[n].revision
                /\ v.definition = edited
      PROVE  RegistryInv'
  <2> DEFINE w == SavingAs(q, n, v, b)
  <2>1. n \in Numbered
    BY DEF Numbered, Registry!Numbers
  <2> HIDE DEF q
  <2>3. handler' = [handler EXCEPT ![r] = w]
    BY <1>7
  <2> HIDE DEF w
  <2>2. /\ w \in Working /\ w.pc = "saving" /\ w.number = n /\ w.version = v /\ w.asset = b /\ w.seen = q.seen
    BY <1>3, <2>1, SavingWorks DEF w
  <2>4. WorkFits(r, w)
    BY <1>1, <1>4, <1>7, <2>2 DEF WorkFits
  <2>5. ASSUME history.patient PROVE ChangeFits(r, w) /\ FormFits(w)
    <3>1. FormFits(w)
      BY <2>5, <1>6, <2>2 DEF FormFits
    <3>2. n <= asset.latest /\ q.seen.revision = versions[n].revision /\ q.seen.version = n
            => q.seen.definition = versions[n].definition
      BY <2>5, <1>6 DEF FormFits, Registry!Numbers
    <3>3. EditFits(w)
      BY <2>5, <1>6, <1>7, <2>2, <3>2 DEF EditFits
    <3>4. QED
      BY <2>5, <1>1, <1>6, <2>2, <3>1, <3>3 DEF ChangeFits
  <2>6. QED
    BY <1>1, <1>2, <1>5, <2>2, <2>3, <2>4, <2>5, QuietStep DEF q
<1>8. CASE ~Registry!IsDraft(d)
  <2> DEFINE b == Registry!Reopened(q.asset)
             v == Registry!Draft(edited)
  <2>1. b.draft <= MaxVersions /\ Saves(b.draft, v, b)
    BY <1>8 DEF Registry!FindDraft, Registry!Saving, Registry!Becomes, SavingAs
  <2>2. b \in Pointers /\ b.exists /\ b.published = q.asset.published /\ b.draft = q.asset.latest + 1
    BY <1>3, <2>1, ReopenedPointers
  <2>3. v \in Copies /\ v.status = "draft"
    BY <1>3 DEF Registry!Draft, Copies
  <2>4. b.draft \in Registry!Numbers
    BY <1>3, <2>1, <2>2, AccessAssumption DEF Numbered, Registry!Numbers
  <2> HIDE DEF q
  <2>5. b = Registry!Reopened(q.asset)
    OBVIOUS
  <2> HIDE DEF b, v
  <2>6. QED
    BY <2>1, <2>2, <2>3, <2>4, <2>5, <1>7
<1>9. CASE Registry!IsDraft(d) /\ Registry!Unseen(q.seen, versions[d])
  BY <1>1, <1>2, <1>9, EndsQuietly DEF Registry!FindDraft
<1>10. CASE Registry!IsDraft(d) /\ ~Registry!Unseen(q.seen, versions[d])
  <2> DEFINE v == EditedAs(versions[d], edited)
  <2>1. Saves(d, v, q.asset)
    BY <1>10 DEF Registry!FindDraft, Registry!Saving, Registry!Becomes, SavingAs, EditedAs
  <2>2. d \in Registry!Numbers /\ versions[d].status = "draft" /\ q.seen.revision = versions[d].revision
    BY <1>3, <1>10 DEF Registry!IsDraft, Registry!Unseen, Numbered, Registry!Numbers
  <2>3. versions[d] \in Copies
    BY <2>2 DEF RegistryInv, RegistryTyped
  <2>4. v \in Copies /\ v.status = "draft" /\ v.definition = edited /\ v.revision = versions[d].revision + 1
    BY <1>3, <2>2, <2>3, EditedCopies
  <2> HIDE DEF v, q, d
  <2>5. QED
    BY <1>3, <2>1, <2>2, <2>4, <1>7
<1>11. QED
  BY <1>8, <1>9, <1>10

LEMMA CreateStep ==
  ASSUME RegistryInv, NEW r \in Handlers, Registry!Create(r)
  PROVE  RegistryInv'
<1> DEFINE w == [Registry!Waiting EXCEPT !.pc = "done", !.number = handler[r].number, !.version = handler[r].version]
           v == Registry!Draft({r})
<1>1. handler[r].pc = "creating" /\ ~Withdrawing(r, handler[r]) /\ ~Registry!Does(r, "run")
  BY DEF Registry!Create, Registry!On, Withdrawing, RegistryInv, WorkMeant, WorkFits, Registry!Does
<1>2. CASE asset.exists
  BY <1>1, <1>2, EndsQuietly DEF Registry!Create, Registry!registry
<1>3. CASE ~asset.exists
  <2>1. /\ asset' = [exists |-> TRUE, published |-> 0, draft |-> 1, latest |-> 1]
        /\ versions' = [versions EXCEPT ![1] = v] /\ handler' = [handler EXCEPT ![r] = w]
        /\ UNCHANGED <<history, announced, released>>
    BY <1>3 DEF Registry!Create, Registry!Ends, Registry!Becomes
  <2>2. /\ v \in Copies /\ v.status = "draft" /\ 1 \in Registry!Numbers /\ 1 \in Numbered /\ 0 \in Numbered
    BY AccessAssumption DEF Registry!Draft, Copies, Registry!Numbers, Numbered
  <2>3. w \in Working /\ w.pc = "done" /\ w.asset.published = 0 /\ w.seen.version = 0
    <3>1. handler[r].number \in Numbered /\ handler[r].version \in Copies
      BY DEF RegistryInv, RegistryTyped, Working
    <3>2. w \in Working
      BY <3>1, WaitingWorks DEF Working, Stands
    <3>3. w.pc = "done" /\ w.asset = Registry!NoAsset /\ w.seen = Registry!Blank
      BY DEF Registry!Waiting
    <3>4. QED
      BY <3>2, <3>3 DEF Registry!NoAsset, Registry!Blank
  <2> HIDE DEF w, v
  <2>4. /\ versions' \in [Registry!Numbers -> Copies] /\ versions'[1] = v
        /\ \A n \in Registry!Numbers : n # 1 => versions'[n] = versions[n]
    BY <2>1, <2>2 DEF RegistryInv, RegistryTyped
  <2>5. handler' \in [Handlers -> Working] /\ handler'[r] = w /\ \A s \in Handlers : s # r => handler'[s] = handler[s]
    BY <2>1, <2>3 DEF RegistryInv, RegistryTyped
  <2>6. asset' \in Pointers
    <3>1. asset' \in Pointed
      BY <2>1, <2>2 DEF Pointed
    <3>2. QED
      BY <3>1, <2>1 DEF Pointers
  <2>7. RegistryTyped'
    BY <2>1, <2>4, <2>5, <2>6 DEF RegistryInv, RegistryTyped
  <2>8. ASSUME NEW s \in Handlers PROVE WorkFits(s, handler'[s])
    BY <2>3, <2>5 DEF RegistryInv, WorkMeant, WorkFits
  <2>9. WorkMeant'
    BY <2>1, <2>8 DEF WorkMeant, WorkFits, IsAnnounced, Registry!Does
  <2>10. ASSUME history.patient PROVE PatientInv'
    <3> USE DEF RegistryInv, PatientInv
    <3>1. \A s \in Handlers : ~Changing(s, handler'[s])
      BY <1>3, <2>3, <2>5, <2>10 DEF ChangeFits, Changing
    <3>2. \A s \in Handlers : Changing(s, handler[s])' <=> Changing(s, handler'[s])
      BY <2>1 DEF Changing, Registry!Does
    <3>3. \A n \in Registry!Numbers : ~Registry!Released(versions[n]) /\ ~Registry!Released(versions'[n])
      BY <1>3, <2>2, <2>4, <2>10 DEF ReleasedMeant, Registry!Released
    <3>4. OneWriter' /\ \A s \in Handlers : ChangeFits(s, handler[s])'
      BY <3>1, <3>2 DEF OneWriter, ChangeFits
    <3>5. asset'.published = 0
      BY <2>1
    <3>6. \A n \in Registry!Numbers : ~Registry!Released(versions[n])'
      BY <3>3 DEF Registry!Released
    <3>7. ReleasedMeant' /\ PointerMeant'
      BY <3>5, <3>6 DEF ReleasedMeant, PointerMeant
    <3>8. ASSUME NEW s \in Handlers PROVE RunFits(s, handler[s])' /\ FormFits(handler[s])'
      <4>1. CASE s = r
        BY <4>1, <1>1, <2>1, <2>3, <2>5 DEF RunFits, FormFits, Registry!Does
      <4>2. CASE s # r
        <5>1. handler[s].asset.published \in Numbered /\ handler[s].seen.version \in Numbered /\ asset.latest = 0
          BY <1>3 DEF RegistryTyped, Working, Pointers, Pointed, Forms
        <5>2. handler[s].seen.version = 0
          BY <5>1, <2>10 DEF FormFits, Numbered
        <5>3. handler[s].pc = "asset" /\ Registry!Does(s, "run") => handler[s].asset.published = 0
          BY <5>1, <2>10, <3>3 DEF RunFits, Numbered, Registry!Numbers
        <5>4. handler[s].pc = "done" => ~Registry!Does(s, "run")
          BY <2>10, <3>3 DEF RunFits
        <5>5. QED
          BY <4>2, <5>2, <5>3, <5>4, <2>1, <2>5 DEF RunFits, FormFits, Registry!Does
      <4>3. QED
        BY <4>1, <4>2
    <3>9. QED
      BY <3>4, <3>7, <3>8
  <2>11. QED
    BY <2>1, <2>7, <2>9, <2>10 DEF RegistryInv
<1>4. QED
  BY <1>2, <1>3
\* Only a request that withdraws a version saves one over what was released; and what
\* it saves says the same.  A draft that changes has a new revision.
LEMMA SavedMeant ==
  ASSUME RegistryInv, history.patient, NEW r \in Handlers, handler[r].pc = "saving",
         NEW n, n = handler[r].number, NEW v, v = handler[r].version
  PROVE  /\ n \in Registry!Numbers /\ v \in Copies /\ versions[n] \in Copies
         /\ asset.exists /\ Changing(r, handler[r]) /\ \A s \in Handlers : s # r => ~Changing(s, handler[s])
         /\ Registry!Released(versions[n]) =>
              Registry!Does(r, "deprecate") /\ Registry!Released(v) /\ v.definition = versions[n].definition
         /\ Registry!Released(v) =>
              /\ n <= asset.latest /\ v.definition = versions[n].definition
              /\ ~Registry!Does(r, "publish") => Registry!Released(versions[n])
         /\ n <= asset.latest =>
              /\ v.revision >= versions[n].revision
              /\ v.revision = versions[n].revision => v.definition = versions[n].definition
<1>1. n \in Registry!Numbers /\ v \in Copies /\ r \in DOMAIN history.does
  BY DEF RegistryInv, RegistryTyped, Working, WorkMeant, WorkFits
<1>2. Registry!Does(r, "edit") \/ Registry!Does(r, "publish") \/ Registry!Does(r, "deprecate")
  BY DEF RegistryInv, WorkMeant, WorkFits
<1>3. versions[n] \in Copies /\ asset.latest \in Nat /\ n \in Nat
  BY <1>1 DEF RegistryInv, RegistryTyped, Pointers, Pointed, Numbered, Registry!Numbers
<1>4. Changing(r, handler[r])
  BY <1>1, <1>2 DEF Changing, Registry!Does
<1>5. ChangeFits(r, handler[r]) /\ \A s \in Handlers : s # r => ~Changing(s, handler[s])
  BY <1>4 DEF RegistryInv, PatientInv, OneWriter
<1>6. asset.exists
  BY <1>4, <1>5 DEF ChangeFits
<1>7. Registry!Released(versions[n]) => n <= asset.latest
  BY <1>1 DEF RegistryInv, PatientInv, ReleasedMeant
<1>8. CASE Registry!Does(r, "edit")
  <2>1. EditFits(handler[r]) /\ ~Registry!Does(r, "publish") /\ ~Registry!Does(r, "deprecate")
    BY <1>4, <1>5, <1>8 DEF ChangeFits, Registry!Does
  <2>2. v.status = "draft" /\ ~Registry!Released(v)
    BY <2>1 DEF EditFits, Registry!Released
  <2>3. n = asset.latest + 1 \/ (versions[n].status = "draft" /\ v.revision = versions[n].revision + 1)
    BY <2>1 DEF EditFits
  <2>4. ~Registry!Released(versions[n])
    BY <2>3, <1>3, <1>7 DEF Registry!Released
  <2>5. n <= asset.latest => v.revision > versions[n].revision
    BY <2>3, <1>3 DEF Copies
  <2>6. v.revision \in Nat /\ versions[n].revision \in Nat
    BY <1>1, <1>3 DEF Copies
  <2>7. QED
    BY <1>1, <1>3, <1>4, <1>5, <1>6, <2>2, <2>4, <2>5, <2>6
<1>9. CASE Registry!Does(r, "publish")
  <2>1. PublicationFits(handler[r]) /\ ~Registry!Does(r, "edit") /\ ~Registry!Does(r, "deprecate")
    BY <1>4, <1>5, <1>9 DEF ChangeFits, Registry!Does
  <2>2. n <= asset.latest /\ versions[n].status = "draft" /\ v = [versions[n] EXCEPT !.status = "published"]
    BY <2>1 DEF PublicationFits
  <2>3. v.definition = versions[n].definition /\ v.revision = versions[n].revision /\ versions[n].revision \in Nat
    BY <1>3, <2>2 DEF Copies
  <2>4. QED
    BY <1>1, <1>3, <1>4, <1>5, <1>6, <1>9, <2>2, <2>3 DEF Registry!Released
<1>10. CASE Registry!Does(r, "deprecate")
  <2>1. WithdrawalFits(handler[r]) /\ ~Registry!Does(r, "edit") /\ ~Registry!Does(r, "publish")
    BY <1>4, <1>5, <1>10 DEF ChangeFits, Registry!Does
  <2>2. versions[n].status = "published" /\ v = [versions[n] EXCEPT !.status = "deprecated"]
    BY <2>1 DEF WithdrawalFits
  <2>3. v.definition = versions[n].definition /\ v.revision = versions[n].revision /\ versions[n].revision \in Nat
    BY <1>3, <2>2 DEF Copies
  <2>4. v.status = "deprecated"
    BY <1>3, <2>2 DEF Copies
  <2>5. QED
    BY <1>1, <1>3, <1>4, <1>5, <1>6, <1>7, <1>10, <2>2, <2>3, <2>4 DEF Registry!Released
<1>11. QED
  BY <1>2, <1>8, <1>9, <1>10

LEMMA SaveVersionStep ==
  ASSUME RegistryInv, NEW r \in Handlers, Registry!SaveVersion(r)
  PROVE  RegistryInv'
<1> DEFINE q == handler[r]
           n == q.number
           v == q.version
           w == handler'[r]
<1>1. /\ q.pc = "saving" /\ versions' = [versions EXCEPT ![n] = v]
      /\ released' = IF Registry!Does(r, "publish") THEN [released EXCEPT ![n] = v.definition] ELSE released
      /\ UNCHANGED <<history, asset, announced>>
  BY DEF Registry!SaveVersion, Registry!On
<1>2. q \in Working /\ v \in Copies /\ n \in Registry!Numbers
  BY <1>1 DEF RegistryInv, RegistryTyped, Working, WorkMeant, WorkFits
<1>3. /\ \A s \in Handlers : s # r => handler'[s] = handler[s]
      /\ handler' \in [Handlers -> Working] /\ w \in Working
      /\ \/ w.pc = "closing" /\ w.asset = q.asset /\ w.seen = q.seen /\ w.number = n /\ Registry!SavesAsset(r)
         \/ w.pc = "done" /\ w.asset.published = 0 /\ w.seen.version = 0 /\ ~Registry!SavesAsset(r)
  <2>1. CASE Registry!SavesAsset(r)
    <3> DEFINE x == [q EXCEPT !.pc = "closing"]
    <3>1. handler' = [handler EXCEPT ![r] = x]
      BY <2>1 DEF Registry!SaveVersion, Registry!Becomes
    <3>2. x \in Working /\ x.pc = "closing" /\ x.asset = q.asset /\ x.seen = q.seen /\ x.number = n
      BY <1>2 DEF Working, Stands
    <3> HIDE DEF x
    <3>3. QED
      BY <2>1, <3>1, <3>2 DEF RegistryInv, RegistryTyped
  <2>2. CASE ~Registry!SavesAsset(r)
    <3> DEFINE x == [Registry!Waiting EXCEPT !.pc = "done", !.number = n, !.version = v]
    <3>1. handler' = [handler EXCEPT ![r] = x]
      BY <2>2 DEF Registry!SaveVersion, Registry!Ends, Registry!Becomes
    <3>2. n \in Numbered
      BY <1>2 DEF Numbered, Registry!Numbers
    <3>3. x \in Working
      BY <1>2, <3>2, WaitingWorks DEF Working, Stands
    <3>4. x.pc = "done" /\ x.asset = Registry!NoAsset /\ x.seen = Registry!Blank
      BY DEF Registry!Waiting
    <3> HIDE DEF x
    <3>5. x.pc = "done" /\ x.asset.published = 0 /\ x.seen.version = 0
      BY <3>4 DEF Registry!NoAsset, Registry!Blank
    <3>6. QED
      BY <2>2, <3>1, <3>3, <3>5 DEF RegistryInv, RegistryTyped
  <2>3. QED
    BY <2>1, <2>2
<1>4. /\ versions' \in [Registry!Numbers -> Copies] /\ versions'[n] = v
      /\ \A m \in Registry!Numbers : m # n => versions'[m] = versions[m]
      /\ released' \in [Registry!Numbers -> SUBSET Handlers]
      /\ \A m \in Registry!Numbers : m # n => released'[m] = released[m]
      /\ released'[n] = IF Registry!Does(r, "publish") THEN v.definition ELSE released[n]
  BY <1>1, <1>2 DEF RegistryInv, RegistryTyped, Copies
<1> HIDE DEF w, q
<1>5. RegistryTyped'
  BY <1>1, <1>3, <1>4 DEF RegistryInv, RegistryTyped
<1>6. ASSUME NEW s \in Handlers PROVE WorkFits(s, handler'[s])
  BY <1>1, <1>3 DEF RegistryInv, WorkMeant, WorkFits, w, q
<1>7. WorkMeant'
  BY <1>1, <1>6 DEF RegistryInv, WorkMeant, WorkFits, IsAnnounced, Registry!Does
<1>8. ASSUME history.patient PROVE PatientInv'
  <2> USE DEF RegistryInv, PatientInv
  <2>1. /\ versions[n] \in Copies
        /\ asset.exists /\ Changing(r, q) /\ \A s \in Handlers : s # r => ~Changing(s, handler[s])
        /\ Registry!Released(versions[n]) =>
             Registry!Does(r, "deprecate") /\ Registry!Released(v) /\ v.definition = versions[n].definition
        /\ Registry!Released(v) =>
             /\ n <= asset.latest /\ v.definition = versions[n].definition
             /\ ~Registry!Does(r, "publish") => Registry!Released(versions[n])
        /\ n <= asset.latest =>
             /\ v.revision >= versions[n].revision
             /\ v.revision = versions[n].revision => v.definition = versions[n].definition
    BY <1>1, <1>8, SavedMeant DEF q
  <2>2. ChangeFits(r, q)
    BY <1>8 DEF q
  <2>3. \A s \in Handlers : /\ Changing(s, handler[s])' <=> Changing(s, handler'[s])
                            /\ Changing(s, handler'[s]) => s = r /\ w.pc = "closing"
    BY <1>1, <1>3, <2>1 DEF Changing, Registry!Does, w
  <2>4. OneWriter'
    BY <2>3 DEF OneWriter
  <2>5. ASSUME NEW m \in Registry!Numbers, Registry!Released(versions[m])
        PROVE  Registry!Released(versions'[m]) /\ released'[m] = released[m]
    BY <2>1, <2>5, <1>4 DEF Registry!Does
  <2>6. ReleasedMeant'
    <3>1. ASSUME NEW m \in Registry!Numbers, Registry!Released(versions'[m])
          PROVE  asset.exists /\ m <= asset.latest /\ versions'[m].definition = released'[m]
      <4>1. CASE m # n
        BY <3>1, <4>1, <1>4, <1>8 DEF ReleasedMeant
      <4>2. CASE m = n
        BY <3>1, <4>2, <1>4, <2>1, <1>8 DEF ReleasedMeant
      <4>3. QED
        BY <4>1, <4>2
    <3>2. asset.published # 0 => Registry!Released(versions'[asset.published])
      <4>1. asset.published # 0 => asset.published \in Registry!Numbers
        BY DEF RegistryTyped, Pointers, Pointed, Numbered, Registry!Numbers
      <4>2. QED
        BY <4>1, <2>5, <1>8 DEF ReleasedMeant
    <3>3. QED
      BY <1>1, <3>1, <3>2 DEF ReleasedMeant, Registry!Released
  <2>7. PointerMeant'
    <3>1. SUFFICES ASSUME "crash" \notin history.faults, asset.published # 0
                   PROVE  versions'[asset.published].status = "published" \/ Withdrawing(r, w)
      BY <1>1, <2>3 DEF PointerMeant, Withdrawing, Changing, Registry!Does, w
    <3>2. versions[asset.published].status = "published"
      BY <1>1, <1>8, <2>1, <3>1 DEF PointerMeant, Withdrawing, q
    <3>3. CASE asset.published # n
      <4>1. asset.published \in Registry!Numbers
        BY <3>1 DEF RegistryTyped, Pointers, Pointed, Numbered, Registry!Numbers
      <4>2. QED
        BY <3>2, <3>3, <1>4, <4>1
    <3>4. CASE asset.published = n
      <4>1. Registry!Does(r, "deprecate")
        BY <2>1, <3>2, <3>4 DEF Registry!Released
      <4>2. q.live
        BY <1>1, <2>1, <2>2, <3>4, <4>1 DEF ChangeFits, WithdrawalFits
      <4>3. Registry!SavesAsset(r)
        BY <4>1, <4>2 DEF Registry!SavesAsset, Registry!Does, q
      <4>4. QED
        BY <1>1, <1>3, <2>1, <4>1, <4>3 DEF Withdrawing, Changing
    <3>5. QED
      BY <3>3, <3>4
  <2>8. ASSUME NEW s \in Handlers PROVE ChangeFits(s, handler[s])'
    <3>1. SUFFICES ASSUME s = r, w.pc = "closing" PROVE ChangeFits(r, handler[r])'
      BY <2>3 DEF ChangeFits
    <3>2. w.asset = q.asset /\ w.number = n /\ Registry!SavesAsset(r)
      BY <1>3, <3>1
    <3>3. Registry!Does(r, "edit") => EditFits(handler[r])'
      <4>1. Registry!Does(r, "edit") => EditFits(q)
        BY <2>1, <2>2 DEF ChangeFits
      <4>2. Registry!Does(r, "edit") => w.asset = asset \/ (n = asset.latest + 1 /\ w.asset = Registry!Reopened(asset))
        BY <1>1, <3>2, <4>1 DEF EditFits
      <4>3. QED
        BY <1>1, <3>1, <3>2, <4>2 DEF EditFits, w
    <3>4. Registry!Does(r, "publish") => PublicationFits(handler[r])'
      <4>1. Registry!Does(r, "publish") => PublicationFits(q)
        BY <2>1, <2>2 DEF ChangeFits
      <4>2. Registry!Does(r, "publish") => v.status = "published"
        BY <1>1, <2>1, <4>1 DEF PublicationFits, Copies
      <4>3. Registry!Does(r, "publish") => n <= asset.latest /\ w.asset = Registry!PublishedAs(asset, n)
        BY <1>1, <3>2, <4>1 DEF PublicationFits
      <4>4. QED
        BY <1>1, <1>4, <3>1, <3>2, <4>2, <4>3 DEF PublicationFits, w
    <3>5. Registry!Does(r, "deprecate") => WithdrawalFits(handler[r])'
      <4>1. Registry!Does(r, "deprecate") => WithdrawalFits(q) /\ q.live
        BY <2>1, <2>2, <3>2 DEF ChangeFits, Registry!SavesAsset, Registry!Does, q
      <4>2. Registry!Does(r, "deprecate") => asset.published = n /\ w.asset = Registry!Withdrawn(asset, n)
        BY <1>1, <3>2, <4>1 DEF WithdrawalFits
      <4>3. QED
        BY <1>1, <3>1, <3>2, <4>2 DEF WithdrawalFits, w
    <3>6. QED
      BY <1>1, <2>1, <3>1, <3>3, <3>4, <3>5 DEF ChangeFits, Registry!Does, w
  <2>9. ASSUME NEW s \in Handlers PROVE RunFits(s, handler[s])'
    <3>1. CASE s = r
      BY <1>1, <2>1, <3>1 DEF RunFits, Changing, Registry!Does
    <3>2. CASE s # r
      <4>1. handler'[s] = handler[s] /\ RunFits(s, handler[s])
        BY <1>3, <1>8, <3>2
      <4>2. handler[s].asset.published # 0 => handler[s].asset.published \in Registry!Numbers
        BY DEF RegistryTyped, Working, Pointers, Pointed, Numbered, Registry!Numbers
      <4>3. QED
        BY <1>1, <2>5, <4>1, <4>2 DEF RunFits, IsAnnounced, Registry!Does, Registry!Released
    <3>3. QED
      BY <3>1, <3>2
  <2>10. ASSUME NEW s \in Handlers PROVE FormFits(handler[s])'
    <3> DEFINE k == handler[s].seen.version
    <3>1. CASE handler'[s].seen.version = 0
      BY <3>1 DEF FormFits
    <3>2. CASE handler'[s].seen.version # 0
      <4>1. handler'[s].seen = handler[s].seen /\ k # 0
        BY <1>3, <3>2 DEF w, q
      <4>2. k \in Registry!Numbers /\ handler[s].seen.revision \in Nat /\ FormFits(handler[s])
        BY <1>8, <4>1 DEF RegistryTyped, Working, Forms, Numbered, Registry!Numbers
      <4>3. k <= asset.latest /\ handler[s].seen.revision <= versions[k].revision
        BY <4>1, <4>2 DEF FormFits
      <4>4. versions[k].revision \in Nat /\ v.revision \in Nat
        BY <1>2, <4>2 DEF RegistryTyped, Copies
      <4>5. /\ handler[s].seen.revision <= versions'[k].revision
            /\ handler[s].seen.revision = versions'[k].revision
                 => handler[s].seen.definition = versions'[k].definition
        <5>1. CASE k # n
          BY <1>4, <4>1, <4>2, <5>1 DEF FormFits
        <5>2. CASE k = n
          BY <1>4, <2>1, <4>1, <4>2, <4>3, <4>4, <5>2 DEF FormFits
        <5>3. QED
          BY <5>1, <5>2
      <4>6. QED
        BY <1>1, <4>1, <4>3, <4>5 DEF FormFits
    <3>3. QED
      BY <3>1, <3>2
  <2>11. QED
    BY <2>4, <2>6, <2>7, <2>8, <2>9, <2>10
<1>9. QED
  BY <1>1, <1>5, <1>7, <1>8 DEF RegistryInv
\* What is appended is found beside what was there.
LEMMA Appended ==
  ASSUME NEW S, NEW s \in Seq(S), NEW x \in S
  PROVE  s \o <<x>> \in Seq(S) /\ ToSet(s) \subseteq ToSet(s \o <<x>>) /\ x \in ToSet(s \o <<x>>)
<1> DEFINE t == s \o <<x>>
<1>1. /\ t \in Seq(S) /\ Len(s) \in Nat /\ Len(t) = Len(s) + 1
      /\ DOMAIN s = 1 .. Len(s) /\ DOMAIN t = 1 .. Len(t)
      /\ \A i \in 1 .. Len(s) : t[i] = s[i]
      /\ t[Len(s) + 1] = x
  OBVIOUS
<1> HIDE DEF t
<1>2. Len(s) + 1 \in DOMAIN t /\ \A i \in DOMAIN s : i \in DOMAIN t
  BY <1>1
<1>3. ToSet(s) \subseteq ToSet(t) /\ x \in ToSet(t)
  BY <1>1, <1>2 DEF ToSet
<1>4. QED
  BY <1>1, <1>3 DEF t

LEMMA SaveAssetStep ==
  ASSUME RegistryInv, NEW r \in Handlers, Registry!SaveAsset(r)
  PROVE  RegistryInv'
<1> DEFINE q == handler[r]
           n == q.number
           w == [Registry!Waiting EXCEPT !.pc = "done", !.number = n, !.version = q.version]
<1>1. /\ q.pc = "closing" /\ asset' = q.asset /\ announced' = announced \o Registry!Event(r)
      /\ handler' = [handler EXCEPT ![r] = w]
      /\ UNCHANGED <<history, versions, released>>
  BY DEF Registry!SaveAsset, Registry!On, Registry!Ends, Registry!Becomes
<1>2. /\ q \in Working /\ n \in Registry!Numbers /\ n \in Numbered /\ q.version \in Copies /\ q.asset \in Pointers
      /\ WorkFits(r, q) /\ r \in DOMAIN history.does
  BY <1>1 DEF RegistryInv, RegistryTyped, Working, WorkMeant, WorkFits
<1>3. w \in Working /\ w.pc = "done" /\ w.asset.published = 0 /\ w.seen.version = 0
  <2>1. w \in Working
    BY <1>2, WaitingWorks DEF Working, Stands
  <2>2. w.pc = "done" /\ w.asset = Registry!NoAsset /\ w.seen = Registry!Blank
    BY DEF Registry!Waiting
  <2>3. QED
    BY <2>1, <2>2 DEF Registry!NoAsset, Registry!Blank
<1> HIDE DEF w
<1>4. handler' \in [Handlers -> Working] /\ handler'[r] = w /\ \A s \in Handlers : s # r => handler'[s] = handler[s]
  BY <1>1, <1>3 DEF RegistryInv, RegistryTyped
<1>5. /\ announced' \in Seq({"published", "deprecated"} \X Numbered)
      /\ ToSet(announced) \subseteq ToSet(announced')
      /\ Registry!Does(r, "publish") => <<"published", n>> \in ToSet(announced')
  <2> DEFINE S == {"published", "deprecated"} \X Numbered
  <2>1. announced \in Seq(S) /\ <<"published", n>> \in S /\ <<"deprecated", n>> \in S
    BY <1>2 DEF RegistryInv, RegistryTyped
  <2> HIDE DEF S
  <2>2. CASE Registry!Does(r, "publish")
    <3>1. announced' = announced \o <<<<"published", n>>>>
      BY <1>1, <2>2 DEF Registry!Event, Registry!Does
    <3>2. announced' \in Seq(S) /\ ToSet(announced) \subseteq ToSet(announced') /\ <<"published", n>> \in ToSet(announced')
      BY <2>1, <3>1, Appended
    <3>3. QED
      BY <3>2 DEF S
  <2>3. CASE Registry!Does(r, "deprecate")
    <3>1. announced' = announced \o <<<<"deprecated", n>>>>
      BY <1>1, <2>3 DEF Registry!Event, Registry!Does
    <3>2. ~Registry!Does(r, "publish")
      BY <2>3 DEF Registry!Does
    <3>3. QED
      BY <2>1, <3>1, <3>2, Appended DEF S
  <2>4. CASE ~Registry!Does(r, "publish") /\ ~Registry!Does(r, "deprecate")
    <3>1. announced' = announced \o <<>>
      BY <1>1, <2>4 DEF Registry!Event
    <3>2. ASSUME NEW T, NEW s \in Seq(T) PROVE s \o <<>> = s
      OBVIOUS
    <3>3. announced' = announced
      BY <2>1, <3>1, <3>2
    <3>4. QED
      BY <2>1, <2>4, <3>3 DEF S
  <2>5. QED
    BY <2>2, <2>3, <2>4
<1> HIDE DEF q
<1>6. RegistryTyped'
  BY <1>1, <1>2, <1>4, <1>5 DEF RegistryInv, RegistryTyped
<1>7. ASSUME NEW s \in Handlers PROVE WorkFits(s, handler[s])'
  <2>1. WorkFits(s, handler'[s])
    BY <1>3, <1>4 DEF RegistryInv, WorkMeant, WorkFits
  <2>2. QED
    BY <2>1, <1>1, <1>5 DEF WorkFits, IsAnnounced, Registry!Does
<1>8. asset'.published # 0 => <<"published", asset'.published>> \in ToSet(announced')
  BY <1>1, <1>2, <1>5 DEF WorkFits, IsAnnounced
<1>9. WorkMeant'
  BY <1>7, <1>8 DEF WorkMeant, IsAnnounced
<1>10. ASSUME history.patient PROVE PatientInv'
  <2> USE DEF RegistryInv, PatientInv
  <2>1. Registry!Does(r, "edit") \/ Registry!Does(r, "publish") \/ Registry!Does(r, "deprecate")
    BY <1>1, <1>2 DEF WorkFits
  <2>2. Changing(r, q)
    BY <1>1, <1>2, <2>1 DEF Changing, Registry!Does
  <2>3. \A s \in Handlers : s # r => ~Changing(s, handler[s])
    BY <1>10, <2>2 DEF OneWriter, q
  <2>4. ChangeFits(r, q) /\ asset \in Pointers
    BY <1>10 DEF q, RegistryTyped
  <2>5. /\ asset'.exists /\ asset'.latest >= asset.latest
        /\ asset'.published = asset.published \/ asset'.published = 0
             \/ (asset'.published = n /\ versions[n].status = "published")
        /\ Withdrawing(r, q) => asset'.published = 0
    <3>1. asset.exists /\ asset.latest \in Nat
      BY <2>2, <2>4 DEF ChangeFits, Pointers, Pointed, Numbered
    <3>2. CASE Registry!Does(r, "edit")
      <4>1. ~Withdrawing(r, q)
        BY <3>2 DEF Withdrawing, Registry!Does
      <4>2. asset' = asset \/ (n = asset.latest + 1 /\ asset' = Registry!Reopened(asset))
        BY <1>1, <2>2, <2>4, <3>2 DEF ChangeFits, EditFits
      <4>3. CASE asset' = asset
        BY <4>1, <4>3, <3>1
      <4>4. CASE n = asset.latest + 1 /\ asset' = Registry!Reopened(asset)
        <5>1. asset'.published = asset.published /\ asset'.exists
          BY <2>4, <3>1, <4>4 DEF Registry!Reopened, Pointers, Pointed
        <5>2. asset'.latest = asset.latest + 1
          BY <2>4, <4>4 DEF Registry!Reopened, Registry!Larger, Pointers, Pointed, Numbered
        <5>3. QED
          BY <3>1, <4>1, <5>1, <5>2
      <4>5. QED
        BY <4>2, <4>3, <4>4
    <3>3. CASE Registry!Does(r, "publish")
      <4>1. ~Withdrawing(r, q)
        BY <3>3 DEF Withdrawing, Registry!Does
      <4>2. n <= asset.latest /\ asset' = Registry!PublishedAs(asset, n) /\ versions[n].status = "published"
        BY <1>1, <2>2, <2>4, <3>3 DEF ChangeFits, PublicationFits
      <4>3. asset'.exists /\ asset'.published = n /\ asset'.latest >= asset.latest
        BY <1>2, <2>4, <3>1, <4>2, PublishedPointers
      <4>4. QED
        BY <4>1, <4>2, <4>3
    <3>4. CASE Registry!Does(r, "deprecate")
      <4>1. asset.published = n /\ asset' = Registry!Withdrawn(asset, n)
        BY <1>1, <2>2, <2>4, <3>4 DEF ChangeFits, WithdrawalFits
      <4>2. (asset'.exists <=> asset.exists) /\ asset'.published = 0 /\ asset'.latest = asset.latest
        BY <2>4, <4>1, WithdrawnPointers
      <4>3. QED
        BY <3>1, <4>2
    <3>5. QED
      BY <2>1, <3>2, <3>3, <3>4
  <2>6. \A s \in Handlers : /\ Changing(s, handler[s])' <=> Changing(s, handler'[s])
                            /\ ~Changing(s, handler'[s])
    BY <1>1, <1>3, <1>4, <2>3 DEF Changing, Registry!Does
  <2>7. OneWriter' /\ \A s \in Handlers : ChangeFits(s, handler[s])'
    BY <2>6 DEF OneWriter, ChangeFits
  <2>8. asset.latest \in Nat /\ asset'.latest \in Nat /\ asset.published \in Numbered
    BY <1>1, <1>2, <2>4 DEF Pointers, Pointed, Numbered
  <2>9. ReleasedMeant'
    <3>1. ASSUME NEW m \in Registry!Numbers, Registry!Released(versions[m])
          PROVE  m <= asset'.latest /\ versions[m].definition = released[m]
      BY <1>10, <2>5, <2>8, <3>1 DEF ReleasedMeant, Registry!Numbers
    <3>2. asset'.published # 0 => Registry!Released(versions[asset'.published])
      BY <1>10, <2>5 DEF ReleasedMeant, Registry!Released
    <3>3. QED
      BY <1>1, <2>5, <3>1, <3>2 DEF ReleasedMeant, Registry!Released
  <2>10. PointerMeant'
    <3>1. SUFFICES ASSUME "crash" \notin history.faults, asset'.published # 0
                   PROVE  versions[asset'.published].status = "published"
      BY <1>1 DEF PointerMeant
    <3>2. CASE asset'.published = asset.published
      BY <1>10, <2>3, <2>5, <3>1, <3>2 DEF PointerMeant, Withdrawing, q
    <3>3. CASE asset'.published # asset.published
      BY <2>5, <3>1, <3>3
    <3>4. QED
      BY <3>2, <3>3
  <2>11. ASSUME NEW s \in Handlers PROVE RunFits(s, handler[s])'
    <3>1. CASE s = r
      BY <1>1, <2>2, <3>1 DEF RunFits, Changing, Registry!Does
    <3>2. CASE s # r
      BY <1>1, <1>4, <1>5, <1>10, <3>2 DEF RunFits, IsAnnounced, Registry!Does, Registry!Released
    <3>3. QED
      BY <3>1, <3>2
  <2>12. ASSUME NEW s \in Handlers PROVE FormFits(handler[s])'
    <3>1. CASE s = r
      BY <1>3, <1>4, <3>1 DEF FormFits
    <3>2. CASE s # r
      <4>1. FormFits(handler[s]) /\ handler'[s] = handler[s] /\ handler[s].seen.version \in Nat
        BY <1>4, <1>10, <3>2 DEF RegistryTyped, Working, Forms, Numbered
      <4>2. QED
        BY <1>1, <2>5, <2>8, <4>1 DEF FormFits
    <3>3. QED
      BY <3>1, <3>2
  <2>13. QED
    BY <2>7, <2>9, <2>10, <2>11, <2>12
<1>11. QED
  BY <1>1, <1>6, <1>9, <1>10 DEF RegistryInv

\* The invariant holds as long as requests are handled.
LEMMA RegistryStep ==
  RegistryInv /\ [Registry!Next]_(Registry!vars) => RegistryInv'
<1> SUFFICES ASSUME RegistryInv, [Registry!Next]_(Registry!vars) PROVE RegistryInv'
  OBVIOUS
<1>1. ASSUME NEW r \in Handlers, Registry!Handle(r) PROVE RegistryInv'
  BY <1>1, LookStep, FindAssetStep, FindSlugStep, CreateStep, FindDraftStep, FindPublishableStep,
     FindDeprecatedStep, ResolveStep, SaveVersionStep, SaveAssetStep, RegistryFailStep DEF Registry!Handle
<1>2. CASE UNCHANGED Registry!vars
  <2>1. UNCHANGED <<history, asset, versions, handler, announced, released>>
    BY <1>2 DEF Registry!vars, Registry!registry
  <2>2. RegistryTyped' /\ (WorkMeant <=> WorkMeant')
    BY <2>1 DEF RegistryInv, RegistryTyped, WorkMeant, WorkFits, IsAnnounced, Registry!Does
  <2>3. (OneWriter <=> OneWriter') /\ (ReleasedMeant <=> ReleasedMeant') /\ (PointerMeant <=> PointerMeant')
    BY <2>1 DEF OneWriter, ReleasedMeant, PointerMeant, Changing, Withdrawing, Registry!Does, Registry!Released
  <2>4. ASSUME NEW s \in Handlers
        PROVE  /\ ChangeFits(s, handler[s]) <=> ChangeFits(s, handler[s])'
               /\ RunFits(s, handler[s]) <=> RunFits(s, handler[s])'
               /\ FormFits(handler[s]) <=> FormFits(handler[s])'
    BY <2>1 DEF ChangeFits, RunFits, FormFits, Changing, EditFits, PublicationFits, WithdrawalFits, IsAnnounced,
       Registry!Does, Registry!Released
  <2>5. QED
    BY <2>1, <2>2, <2>3, <2>4 DEF RegistryInv, PatientInv
<1>3. QED
  BY <1>1, <1>2 DEF Registry!Next

\* So the registry's invariant holds of every behaviour: it starts with what the
\* assumptions say of histories.
LEMMA RegistryHolds == Spec => []RegistryInv
<1>1. Registry!Init => RegistryInv
  <2> SUFFICES ASSUME Registry!Init PROVE RegistryInv
    OBVIOUS
  <2>1. /\ history \in Histories /\ asset = history.asset
        /\ asset \in Pointed /\ asset.published <= asset.latest /\ asset.draft <= asset.latest
        /\ asset.exists \/ asset.latest = 0
        /\ DOMAIN history.versions = 1 .. asset.latest
        /\ \A n \in DOMAIN history.versions :
             history.versions[n] \in [status : {"draft", "published", "deprecated"}, definition : SUBSET Handlers, revision : Nat \ {0}]
        /\ asset.published # 0 => history.versions[asset.published].status = "published"
    BY HistoryAssumption DEF Registry!Init, Pointed, Numbered
  <2>2. asset \in Pointers /\ asset.published \in Numbered /\ asset.latest \in Numbered
    BY <2>1 DEF Pointers, Pointed
  <2>3. ASSUME NEW n \in Registry!Numbers
        PROVE  /\ versions[n] \in Copies /\ released[n] = versions[n].definition
               /\ Registry!Released(versions[n]) => n \in 1 .. asset.latest
               /\ n \in 1 .. asset.latest => versions[n] = history.versions[n]
    <3>1. versions[n] = IF n \in 1 .. asset.latest THEN history.versions[n] ELSE Registry!NoVersion
      BY <2>1 DEF Registry!Init
    <3>2. released[n] = versions[n].definition
      BY DEF Registry!Init
    <3>3. CASE n \in 1 .. asset.latest
      BY <2>1, <3>1, <3>2, <3>3 DEF Copies
    <3>4. CASE n \notin 1 .. asset.latest
      BY <3>1, <3>2, <3>4 DEF Copies, Registry!NoVersion, Registry!Released
    <3>5. QED
      BY <3>3, <3>4
  <2>4. ASSUME NEW r \in Handlers
        PROVE  handler[r] \in Working /\ handler[r].pc = "idle" /\ handler[r].asset.published = 0 /\ handler[r].seen.version = 0
    <3>1. handler[r] = Registry!Waiting
      BY DEF Registry!Init
    <3>2. QED
      BY <3>1, WaitingWorks DEF Registry!Waiting, Registry!NoAsset, Registry!Blank
  <2>5. /\ announced \in Seq({"published", "deprecated"} \X Numbered)
        /\ asset.published # 0 => IsAnnounced(asset.published)
    <3>1. CASE asset.published = 0
      BY <3>1 DEF Registry!Init
    <3>2. CASE asset.published # 0
      <4> DEFINE S == {"published", "deprecated"} \X Numbered
                 e == <<"published", asset.published>>
      <4>1. announced = <<e>> /\ e \in S
        BY <2>2, <3>2 DEF Registry!Init
      <4> HIDE DEF S, e
      <4>2. announced \in Seq(S) /\ 1 \in DOMAIN announced /\ announced[1] = e
        BY <4>1
      <4>3. QED
        BY <4>2 DEF IsAnnounced, ToSet, S, e
    <3>3. QED
      BY <3>1, <3>2
  <2>6. RegistryTyped
    <3>1. versions \in [Registry!Numbers -> Copies]
      BY <2>3 DEF Registry!Init
    <3>2. released \in [Registry!Numbers -> SUBSET Handlers]
      BY <2>3 DEF Registry!Init, Copies
    <3>3. handler \in [Handlers -> Working]
      BY <2>4 DEF Registry!Init
    <3>4. QED
      BY <2>1, <2>2, <2>5, <3>1, <3>2, <3>3 DEF RegistryTyped
  <2>7. WorkMeant
    BY <2>4, <2>5 DEF WorkMeant, WorkFits
  <2>8. OneWriter /\ \A r \in Handlers : ChangeFits(r, handler[r]) /\ RunFits(r, handler[r]) /\ FormFits(handler[r])
    BY <2>4 DEF OneWriter, Changing, ChangeFits, RunFits, FormFits
  <2>9. asset.published # 0 => asset.published \in Registry!Numbers /\ versions[asset.published].status = "published"
    BY <2>1, <2>2, <2>3 DEF Registry!Numbers, Numbered
  <2>10. ReleasedMeant /\ PointerMeant
    BY <2>1, <2>2, <2>3, <2>9 DEF ReleasedMeant, PointerMeant, Registry!Released, Registry!Numbers, Numbered
  <2>11. QED
    BY <2>6, <2>7, <2>8, <2>10 DEF RegistryInv, PatientInv
<1>2. QED
  BY <1>1, RegistryStep, PartsAlone, PTL DEF Registry!Spec

\* A run gets what was released under the number that it pins, and nothing resolves
\* to a version that was not announced, or was withdrawn, whichever requests die, in
\* every history that the assumptions allow (get-published-version.ts:18-29,
\* deprecate-version.ts:26-47).
THEOREM VersionsStayResolved == Spec => []VersionsResolve
<1>1. ASSUME RegistryInv PROVE VersionsResolve
  <2>1. Registry!RunsWhatWasReleased
    <3>1. history.patient => \A r \in Handlers : RunFits(r, handler[r])
      BY <1>1 DEF RegistryInv, PatientInv
    <3>2. QED
      BY <3>1 DEF RunFits, Registry!RunsWhatWasReleased, Registry!On, IsAnnounced, ToSet, Registry!ToSet
  <2>2. asset.published # 0 => IsAnnounced(asset.published)
    BY <1>1 DEF RegistryInv, WorkMeant
  <2>3. ASSUME history.patient, Registry!AtRest PROVE \A r \in Handlers : ~Withdrawing(r, handler[r])
    BY <2>3 DEF Registry!AtRest, Registry!Writers, Withdrawing, Changing
  <2>4. Registry!PointerTellsTheTruth
    <3>1. history.patient => PointerMeant
      BY <1>1 DEF RegistryInv, PatientInv
    <3>2. QED
      BY <2>2, <2>3, <3>1 DEF PointerMeant, Registry!PointerTellsTheTruth, IsAnnounced, ToSet, Registry!ToSet
  <2>5. QED
    BY <2>1, <2>4 DEF VersionsResolve
<1>2. QED
  BY <1>1, RegistryHolds, PTL

\* Versions change only where a request saves one, or creates the asset.
LEMMA VersionsMove ==
  ASSUME [Registry!Next]_(Registry!vars)
  PROVE  \/ UNCHANGED versions
         \/ \E r \in Handlers : Registry!SaveVersion(r)
         \/ \E r \in Handlers : Registry!Create(r) /\ ~asset.exists
<1>1. ASSUME NEW r \in Handlers, Registry!Handle(r)
      PROVE  UNCHANGED versions \/ Registry!SaveVersion(r) \/ (Registry!Create(r) /\ ~asset.exists)
  BY <1>1 DEF Registry!Handle, Registry!Look, Registry!FindAsset, Registry!FindSlug, Registry!Create,
     Registry!FindDraft, Registry!FindPublishable, Registry!FindDeprecated, Registry!Resolve, Registry!SaveAsset,
     Registry!Fail, Registry!registry
<1>2. QED
  BY <1>1 DEF Registry!Next, Registry!vars, Registry!registry

\* No step changes what was released.
LEMMA FrozenStays ==
  ASSUME RegistryInv, [Registry!Next]_(Registry!vars), history.patient,
         NEW m \in DOMAIN versions, Registry!Released(versions[m])
  PROVE  versions'[m].status \in {"published", "deprecated"} /\ versions'[m].definition = versions[m].definition
<1>1. m \in Registry!Numbers /\ versions \in [Registry!Numbers -> Copies]
  BY DEF RegistryInv, RegistryTyped
<1>2. ASSUME NEW r \in Handlers, Registry!SaveVersion(r)
      PROVE  versions'[m].status \in {"published", "deprecated"} /\ versions'[m].definition = versions[m].definition
  <2> DEFINE n == handler[r].number
             v == handler[r].version
  <2>1. handler[r].pc = "saving" /\ versions' = [versions EXCEPT ![n] = v]
    BY <1>2 DEF Registry!SaveVersion, Registry!On
  <2>2. Registry!Released(versions[n]) => Registry!Released(v) /\ v.definition = versions[n].definition
    BY <2>1, SavedMeant
  <2>3. QED
    BY <1>1, <2>1, <2>2 DEF Registry!Released
<1>3. ASSUME ~asset.exists PROVE FALSE
  BY <1>1, <1>3 DEF RegistryInv, PatientInv, ReleasedMeant
<1>4. QED
  BY <1>2, <1>3, VersionsMove DEF Registry!Released

\* No save takes anything out of a draft whose editor has seen it.
LEMMA EditsStay ==
  ASSUME RegistryInv, [Registry!Next]_(Registry!vars), history.patient, NEW h \in Handlers,
         handler[h].pc = "saving", handler'[h].pc # "saving", handler[h].seen.version = handler[h].number
  PROVE  versions[handler[h].number].definition \subseteq versions'[handler[h].number].definition
<1> DEFINE n == handler[h].number
           v == handler[h].version
<1>1. ASSUME NEW r \in Handlers, Registry!SaveVersion(r) PROVE r = h /\ versions' = [versions EXCEPT ![n] = v]
  <2>1. \A s \in Handlers : s # r => handler'[s] = handler[s]
    BY <1>1 DEF Registry!SaveVersion, Registry!Ends, Registry!Becomes, RegistryInv, RegistryTyped
  <2>2. QED
    BY <1>1, <2>1 DEF Registry!SaveVersion
<1>2. ASSUME NEW r \in Handlers, Registry!Create(r) PROVE FALSE
  <2>1. handler[r].pc = "creating" /\ \A s \in Handlers : s # r => handler'[s] = handler[s]
    BY <1>2 DEF Registry!Create, Registry!On, Registry!Ends, Registry!Becomes, RegistryInv, RegistryTyped
  <2>2. QED
    BY <2>1
<1>3. ASSUME versions' = [versions EXCEPT ![n] = v] PROVE versions[n].definition \subseteq versions'[n].definition
  <2>1. n \in Registry!Numbers /\ versions'[n] = v /\ n # 0 /\ Changing(h, handler[h])
    <3>1. n \in Registry!Numbers /\ Changing(h, handler[h])
      BY SavedMeant
    <3>2. QED
      BY <1>3, <3>1 DEF RegistryInv, RegistryTyped, Registry!Numbers
  <2>2. n <= asset.latest /\ asset.latest \in Nat
    BY <2>1 DEF RegistryInv, RegistryTyped, PatientInv, FormFits, Pointers, Pointed, Numbered
  <2>3. CASE Registry!Does(h, "edit")
    <3>1. EditFits(handler[h])
      BY <2>1, <2>3 DEF RegistryInv, PatientInv, ChangeFits
    <3>2. QED
      BY <2>1, <2>2, <3>1 DEF EditFits
  <2>4. CASE Registry!Does(h, "publish")
    <3>1. v = [versions[n] EXCEPT !.status = "published"]
      BY <2>1, <2>4 DEF RegistryInv, PatientInv, ChangeFits, PublicationFits
    <3>2. v.definition = versions[n].definition
      BY <2>1, <3>1 DEF RegistryInv, RegistryTyped, Copies
    <3>3. QED
      BY <2>1, <3>2
  <2>5. CASE Registry!Does(h, "deprecate")
    <3>1. v = [versions[n] EXCEPT !.status = "deprecated"]
      BY <2>1, <2>5 DEF RegistryInv, PatientInv, ChangeFits, WithdrawalFits
    <3>2. v.definition = versions[n].definition
      BY <2>1, <3>1 DEF RegistryInv, RegistryTyped, Copies
    <3>3. QED
      BY <2>1, <3>2
  <2>6. QED
    BY <2>3, <2>4, <2>5 DEF RegistryInv, WorkMeant, WorkFits
<1>4. QED
  BY <1>1, <1>2, <1>3, VersionsMove

\* What was published is frozen, and no edit is lost, whatever requests died between
\* their two saves and whichever draft is opened next, in every history whose requests
\* come one at a time (asset-version.ts:17-23, 80-82).
THEOREM VersionsStayKept == Spec => VersionsKept
<1> DEFINE Frozen == history.patient =>
             \A n \in DOMAIN versions : Registry!Released(versions[n]) =>
               /\ versions'[n].status \in {"published", "deprecated"}
               /\ versions'[n].definition = versions[n].definition
           Kept == history.patient =>
             \A h \in Handlers :
               LET number == handler[h].number IN
               handler[h].pc = "saving" /\ handler'[h].pc # "saving" /\ handler[h].seen.version = number =>
                 versions[number].definition \subseteq versions'[number].definition
<1>1. ASSUME RegistryInv, [Next]_vars PROVE Frozen /\ Kept
  <2>1. [Registry!Next]_(Registry!vars)
    BY <1>1, PartSteps
  <2>2. QED
    BY <1>1, <2>1, FrozenStays, EditsStay
<1>2. RegistryInv /\ [Next]_vars => [Frozen]_vars
  BY <1>1
<1>3. RegistryInv /\ [Next]_vars => [Kept]_vars
  BY <1>1
<1> HIDE DEF Frozen, Kept
<1>4. Spec => [][Frozen]_vars /\ [][Kept]_vars
  BY <1>2, <1>3, RegistryHolds, PTL DEF Spec
<1>5. QED
  BY <1>4 DEF Frozen, Kept, VersionsKept, PublishedFrozen, EditsKept

-----------------------------------------------------------------------------

\* A store that was withdrawn stays so for whoever accepted it before, and only its
\* public documents cross, where the two sides wait for each other, for every
\* number of stores' readers, of projects and of offers; and every part keeps its
\* types (share-store.ts:51-53, security-trimming.ts:40-51).
THEOREM StoresStayShared == Spec => []StoresShared
<1>1. SharingInv => Sharing!TypeOK /\ Sharing!WithdrawnRevokes /\ Sharing!OnlyPublicCrosses
  BY DEF SharingInv, SharingTyped, ConsentsStand, Serene, Held, Sharing!TypeOK, Sharing!WithdrawnRevokes,
         Sharing!Served, Sharing!On
<1>2. TokensInv => Tokens!TypeOK
  BY AccessAssumption DEF TokensInv, TokensTyped, Documents, Tokens!TypeOK
<1>3. KeysInv => Keys!TypeOK
  BY DEF KeysInv
<1>4. RegistryInv => Registry!TypeOK
  BY DEF RegistryInv, RegistryTyped, Working, Stands, Copies, Pointers, Pointed, Numbered, Registry!TypeOK
<1>5. Init => part \in Parts
  BY DEF Init
<1>6. part \in Parts /\ [Next]_vars => (part \in Parts)'
  BY DEF vars, Next, Share, IssueToken, TimePasses, UseToken, RunReplica, Release, Decide, Rest
<1>7. Spec => [](part \in Parts)
  BY <1>5, <1>6, PTL DEF Spec
<1>8. part \in Parts /\ SharingInv /\ TokensInv /\ KeysInv /\ RegistryInv => StoresShared
  BY <1>1, <1>2, <1>3, <1>4 DEF StoresShared, TypeOK
<1>9. QED
  BY <1>7, <1>8, SharingHolds, TokensHold, KeysHold, RegistryHolds, PTL
=============================================================================
