--------------------------- MODULE InferenceSaga ----------------------------
(***************************************************************************)
(* The inference calls of the router: CreateChatCompletion.execute (kind   *)
(* "chat"), CreateChatCompletion.stream ("stream") and                     *)
(* CreateEmbeddings.execute ("embeddings"), all of one project and one     *)
(* budget period, against the Redis counters, the semantic cache, the      *)
(* providers, the audit collection and the outbox of usage events.         *)
(*                                                                         *)
(* A call suspends at every await, so between two of its steps any other   *)
(* call, a connection change or a failure may happen.  pc[c] names what    *)
(* the call will do when it resumes:                                       *)
(*                                                                         *)
(*   start -> prepared -> hit -> settlingHit -> answered                   *)
(*                     -> missed -> calling -> [streaming] -> finishing    *)
(*                     -> [storing] -> ready -> settling -> answered       *)
(*   catch -> salvaged -> settlingPartial -> partial                       *)
(*         -> compensated -> settlingFailure -> failed                     *)
(*                                                                         *)
(* Costs are deployment price times units, the prompt being one unit and   *)
(* each streamed chunk another; a provider's count and the local estimate  *)
(* of the same tokens agree.  Chunks without text change nothing.          *)
(***************************************************************************)
EXTENDS BudgetScripts, Sequences, FiniteSets

CONSTANTS
  Calls,         \* the inference calls; a call is its requestId
  PromptOf,      \* the prompt of each call
  ToolCalls,     \* the calls that carry tools, which the cache never serves
  Prices,        \* the unit price of each compatible deployment, in order
  MaxUnits,      \* the units a call may consume, prompt included
  Limit,
  BlockAtLimit,
  Capture,       \* the project's content capture opt-in
  Scenarios      \* what kind each call is of, and the faults that may happen
                 \* together

\* redis: the connection drops or an EVAL is rejected without effect;
\* lostReply: an EVAL is applied and its reply lost; mongo: a write is rejected,
\* applied or not; guardrail: it is down or not deployed; client: the consumer
\* of a stream leaves; crash: the process of a call dies.
AllFaults == {"redis", "lostReply", "mongo", "guardrail", "client", "crash"}

Deployments == 1 .. Len(Prices)

\* The worst case of the first deployment: what every call reserves.
Estimate == Prices[1] * MaxUnits

ASSUME SagaAssumption ==
  /\ IsFiniteSet(Calls)
  /\ ToolCalls \subseteq Calls
  /\ Prices \in Seq(Nat) /\ Prices # <<>>
  /\ MaxUnits \in Nat \ {0}
  /\ Limit \in Nat
  /\ BlockAtLimit \in BOOLEAN /\ Capture \in BOOLEAN
  /\ \A s \in Scenarios :
       /\ s.kinds \in [Calls -> {"chat", "stream", "embeddings"}]
       /\ s.faults \subseteq AllFaults

VARIABLES
  scenario,  \* the kinds and faults of this behaviour; never changes
  up,      \* isAvailable() of the ledger, on the one Redis client of the process
  book,    \* the spent and reserved counters
  cache,   \* the cached <<prompt, text>> pairs
  pc,
  text,    \* the prompt that proceeds: "raw", or "redacted" by the guardrail
  hold,    \* the reservation: idle and planned before there is one
  actual,  \* what the reservation was committed with
  at,      \* the deployment being tried, then the one that answered
  units,   \* the units consumed so far
  writes,  \* the audit and usage writes in flight
  audit,   \* the audit record of each call, NoRow if none
  events   \* the usage events of each call in the outbox

KindOf == scenario.kinds
faults == scenario.faults

ledgerVars == <<up, book, hold, actual>>
recordVars == <<writes, audit, events>>
vars == <<scenario, up, book, cache, pc, text, hold, actual, at, units,
          writes, audit, events>>

Finals == {"answered", "partial", "failed", "refused", "rejected", "gone"}

Turns == {"settlingHit", "settling", "settlingPartial", "settlingFailure"}

Labels == Finals \cup Turns \cup
  {"start", "prepared", "hit", "missed", "calling", "streaming", "finishing",
   "storing", "ready", "catch", "salvaged", "compensated"}

Holds == {"idle", "planned", "refused", "failed", "unverified", "held",
          "committed", "released"}

Rows == [status : {"completed", "partial", "failed"}, cost : Nat,
         unverified : BOOLEAN, captured : {"none", "raw", "redacted"}]

NoRow == [status |-> "none", cost |-> 0, unverified |-> FALSE, captured |-> "none"]

Init ==
  /\ scenario \in Scenarios
  /\ up = TRUE
  /\ book = EmptyBook
  /\ cache = {}
  /\ pc = [c \in Calls |-> "start"]
  /\ text = [c \in Calls |-> "none"]
  /\ hold = [c \in Calls |-> "idle"]
  /\ actual = [c \in Calls |-> 0]
  /\ at = [c \in Calls |-> 1]
  /\ units = [c \in Calls |-> 0]
  /\ writes = {}
  /\ audit = [c \in Calls |-> NoRow]
  /\ events = [c \in Calls |-> {}]

Go(c, from, to) == pc[c] = from /\ pc' = [pc EXCEPT ![c] = to]

Holding(c, state) == hold' = [hold EXCEPT ![c] = state]

-----------------------------------------------------------------------------
\* Preparation.

\* The guardrail redacts, or is down or not deployed and the prompt proceeds as
\* it is.
GuardedTexts == {"redacted"} \cup (IF "guardrail" \in faults THEN {"raw"} ELSE {})

\* Policy, alias, model selection and guardrail, each of which may reject the
\* call before anything is reserved or recorded.  Embeddings have no guardrail.
Prepare(c) ==
  /\ \/ /\ Go(c, "start", "rejected")
        /\ UNCHANGED <<text, hold>>
     \/ /\ KindOf[c] = "embeddings"
        /\ Go(c, "start", "missed")
        /\ Holding(c, "planned")
        /\ UNCHANGED text
     \/ /\ KindOf[c] # "embeddings"
        /\ Go(c, "start", "prepared")
        /\ Holding(c, "planned")
        /\ \E t \in GuardedTexts : text' = [text EXCEPT ![c] = t]
  /\ UNCHANGED <<scenario, up, book, actual, cache, at, units, recordVars>>

\* A miss is always possible: the entry has expired, or the read failed.
Lookup(c) ==
  /\ \/ /\ c \notin ToolCalls
        /\ up
        /\ <<PromptOf[c], text[c]>> \in cache
        /\ Go(c, "prepared", "hit")
     \/ Go(c, "prepared", "missed")
  /\ UNCHANGED <<scenario, ledgerVars, cache, text, at, units, recordVars>>

-----------------------------------------------------------------------------
\* The ledger, seen from a call.

EvalRejected == up => "redis" \in faults
EvalUnheard  == up /\ "lostReply" \in faults

\* isAvailable() is read in the same turn of the event loop that sends the EVAL.
\* What happens here is outside the try block: nothing compensates it.
Reserve(c) ==
  /\ \/ /\ ~up
        /\ Go(c, "missed", "calling")
        /\ Holding(c, "unverified")
        /\ UNCHANGED book
     \/ /\ up
        /\ ~Refuses(book, Estimate, Limit, BlockAtLimit)
        /\ Go(c, "missed", "calling")
        /\ Holding(c, "held")
        /\ book' = ReserveScript(book, Estimate)
     \/ /\ up
        /\ Refuses(book, Estimate, Limit, BlockAtLimit)
        /\ Go(c, "missed", "refused")
        /\ Holding(c, "refused")
        /\ UNCHANGED book
     \/ /\ up
        /\ EvalRejected
        /\ Go(c, "missed", "rejected")
        /\ Holding(c, "failed")
        /\ UNCHANGED book
     \/ /\ EvalUnheard
        /\ ~Refuses(book, Estimate, Limit, BlockAtLimit)
        /\ Go(c, "missed", "rejected")
        /\ Holding(c, "failed")
        /\ book' = ReserveScript(book, Estimate)
  /\ UNCHANGED <<scenario, up, actual, cache, text, at, units, recordVars>>

\* ledger.commit, from the label `from` to `next`, or to `thrown` when it
\* throws.  It does not look at the state of the reservation first.
Commit(c, cost, from, next, thrown) ==
  /\ \/ /\ hold[c] = "unverified"
        /\ Go(c, from, next)
        /\ actual' = [actual EXCEPT ![c] = cost]
        /\ UNCHANGED <<book, hold>>
     \/ /\ hold[c] # "unverified"
        /\ up
        /\ Go(c, from, next)
        /\ Holding(c, "committed")
        /\ actual' = [actual EXCEPT ![c] = cost]
        /\ book' = CommitScript(book, Estimate, cost)
     \/ /\ hold[c] # "unverified"
        /\ EvalRejected
        /\ Go(c, from, thrown)
        /\ UNCHANGED <<book, hold, actual>>
     \/ /\ hold[c] # "unverified"
        /\ EvalUnheard
        /\ Go(c, from, thrown)
        /\ book' = CommitScript(book, Estimate, cost)
        /\ UNCHANGED <<hold, actual>>
  /\ UNCHANGED <<scenario, up, cache, text, at, units, recordVars>>

\* (A mistake, for the mutant runs: releasing whatever the state is.)
ReleaseBlindly(c, from, next, thrown) ==
  /\ up
  /\ Go(c, from, next)
  /\ Holding(c, "released")
  /\ book' = ReleaseScript(book, Estimate)
  /\ UNCHANGED <<scenario, up, actual, cache, text, at, units, recordVars>>

\* ledger.release: nothing to do for an unverified or a committed reservation.
Release(c, from, next, thrown) ==
  /\ \/ /\ hold[c] \in {"unverified", "committed"}
        /\ Go(c, from, next)
        /\ UNCHANGED <<book, hold>>
     \/ /\ hold[c] \notin {"unverified", "committed"}
        /\ up
        /\ Go(c, from, next)
        /\ Holding(c, "released")
        /\ book' = ReleaseScript(book, Estimate)
     \/ /\ hold[c] \notin {"unverified", "committed"}
        /\ EvalRejected
        /\ Go(c, from, thrown)
        /\ UNCHANGED <<book, hold>>
     \/ /\ hold[c] \notin {"unverified", "committed"}
        /\ EvalUnheard
        /\ Go(c, from, thrown)
        /\ book' = ReleaseScript(book, Estimate)
        /\ UNCHANGED hold
  /\ UNCHANGED <<scenario, up, actual, cache, text, at, units, recordVars>>

-----------------------------------------------------------------------------
\* The provider, through the DeploymentExecutor.

\* A deployment answers a chat or an embedding.
Answer(c) ==
  /\ KindOf[c] # "stream"
  /\ Go(c, "calling", "finishing")
  /\ \E u \in 1 .. MaxUnits : units' = [units EXCEPT ![c] = u]
  /\ UNCHANGED <<scenario, ledgerVars, cache, text, at, recordVars>>

\* A stream opens when its first chunk has been read; `replay` hands that chunk
\* over later.
OpenStream(c) ==
  /\ KindOf[c] = "stream"
  /\ Go(c, "calling", "streaming")
  /\ units' = [units EXCEPT ![c] = 1]
  /\ UNCHANGED <<scenario, ledgerVars, cache, text, at, recordVars>>

\* (A mistake, for the mutant runs: one deployment too many.)
FailoverPastTheLast(c) ==
  /\ Go(c, "calling", "calling")
  /\ at' = [at EXCEPT ![c] = @ + 1]
  /\ UNCHANGED <<scenario, ledgerVars, cache, text, units, recordVars>>

\* It does not: retries, circuit and bulkhead are exhausted, or its provider is
\* not configured.  The next one is tried, or the call throws.
Failover(c) ==
  /\ \/ /\ at[c] < Len(Prices)
        /\ Go(c, "calling", "calling")
        /\ at' = [at EXCEPT ![c] = @ + 1]
     \/ /\ at[c] = Len(Prices)
        /\ Go(c, "calling", "catch")
        /\ UNCHANGED at
  /\ UNCHANGED <<scenario, ledgerVars, cache, text, units, recordVars>>

Emitted(c) == units[c] > 1

Chunk(c) ==
  /\ Go(c, "streaming", "streaming")
  /\ units[c] < MaxUnits
  /\ units' = [units EXCEPT ![c] = @ + 1]
  /\ UNCHANGED <<scenario, ledgerVars, cache, text, at, recordVars>>

StreamEnds(c) ==
  /\ \/ Go(c, "streaming", "finishing")
     \/ Go(c, "streaming", "catch")
  /\ UNCHANGED <<scenario, ledgerVars, cache, text, at, units, recordVars>>

\* The consumer is gone: the controller breaks out of its loop, which closes
\* the generator at its `yield`.  No catch block runs.
Leave(c) ==
  /\ "client" \in faults
  /\ Emitted(c)
  /\ Go(c, "streaming", "gone")
  /\ UNCHANGED <<scenario, ledgerVars, cache, text, at, units, recordVars>>

CostOf(c) == Prices[at[c]] * units[c]

RealCosts == {Prices[d] * u : d \in Deployments, u \in 1 .. MaxUnits}

CommitAnswer(c) ==
  Commit(c, CostOf(c), "finishing",
         IF KindOf[c] = "chat" THEN "storing" ELSE "ready", "catch")

\* cache.store swallows its errors.
Store(c) ==
  /\ Go(c, "storing", "ready")
  /\ \/ /\ c \notin ToolCalls
        /\ up
        /\ cache' = cache \cup {<<PromptOf[c], text[c]>>}
     \/ /\ c \in ToolCalls \/ EvalRejected
        /\ UNCHANGED cache
  /\ UNCHANGED <<scenario, ledgerVars, text, at, units, recordVars>>

\* The catch block: a stream that already delivered text commits what was
\* consumed, everything else gives its reservation back.
Salvage(c) ==
  /\ KindOf[c] = "stream" /\ Emitted(c)
  /\ Commit(c, CostOf(c), "catch", "salvaged", "failed")

\* (A mistake, for the mutant runs: a catch block that only records.)
CompensateForgets(c) ==
  /\ ~(KindOf[c] = "stream" /\ Emitted(c))
  /\ Go(c, "catch", "compensated")
  /\ UNCHANGED <<scenario, ledgerVars, cache, text, at, units, recordVars>>

\* An embedding that fails leaves no record.
AfterRelease(c) == IF KindOf[c] = "embeddings" THEN "failed" ELSE "compensated"

Compensate(c) ==
  /\ ~(KindOf[c] = "stream" /\ Emitted(c))
  /\ Release(c, "catch", AfterRelease(c), "failed")

-----------------------------------------------------------------------------
\* Audit and usage event.

\* Embeddings are not audited.
Stores(c) == IF KindOf[c] = "embeddings" THEN {"usage"} ELSE {"audit", "usage"}

\* Both writes are sent at once and race each other.  Whether the budget was
\* verified is read here, not taken from the reservation.
Settle(c, from, turn, status, cost) ==
  /\ Go(c, from, turn)
  /\ LET row == [status |-> status, cost |-> cost, unverified |-> ~up,
                 captured |-> IF Capture THEN text[c] ELSE "none"]
     IN  writes' = writes \cup {[call |-> c, store |-> s, turn |-> turn, row |-> row]
                                  : s \in Stores(c)}
  /\ UNCHANGED <<scenario, ledgerVars, cache, text, at, units, audit, events>>

\* A cache hit consumes no budget.
SettleHit(c) == Settle(c, "hit", "settlingHit", "completed", 0)

SettleAnswer(c) == Settle(c, "ready", "settling", "completed", actual[c])

\* (A mistake, for the mutant runs: an interrupted stream recorded as free.)
SettlePartialFree(c) == Settle(c, "salvaged", "settlingPartial", "partial", 0)

SettlePartial(c) == Settle(c, "salvaged", "settlingPartial", "partial", actual[c])

\* recordFailure
SettleFailure(c) == Settle(c, "compensated", "settlingFailure", "failed", 0)

\* (A mistake, for the mutant runs: an upsert.)
ApplyUpsert(w) ==
  \/ /\ w.store = "audit"
     /\ audit' = [audit EXCEPT ![w.call] = w.row]
     /\ UNCHANGED events
  \/ /\ w.store = "usage"
     /\ events' = [events EXCEPT ![w.call] = @ \cup {w.row}]
     /\ UNCHANGED audit

\* The insert is applied.  requestId is the _id of an audit record.
Apply(w) ==
  \/ /\ w.store = "audit"
     /\ audit[w.call] = NoRow
     /\ audit' = [audit EXCEPT ![w.call] = w.row]
     /\ UNCHANGED events
  \/ /\ w.store = "usage"
     /\ events' = [events EXCEPT ![w.call] = @ \cup {w.row}]
     /\ UNCHANGED audit

\* (Mistakes, for the mutant runs: rejections nobody awaits, and a failure
\* record retried without end.)
OnRejectIgnored(w) == pc' = pc

OnRejectRetried(w) ==
  pc' = IF pc[w.call] = w.turn
        THEN [pc EXCEPT ![w.call] = CASE w.turn = "settling" -> "catch"
                                      [] w.turn = "settlingFailure" -> "compensated"
                                      [] OTHER -> "failed"]
        ELSE pc

\* The first rejection rejects the Promise.all at once; the other write goes on.
\* Inside the try block the error is caught, elsewhere the call throws.
OnReject(w) ==
  pc' = IF pc[w.call] = w.turn
        THEN [pc EXCEPT ![w.call] = IF w.turn = "settling" THEN "catch" ELSE "failed"]
        ELSE pc

Land(w) ==
  /\ writes' = writes \ {w}
  /\ \/ Apply(w) /\ UNCHANGED pc
     \/ "mongo" \in faults /\ Apply(w) /\ OnReject(w)
     \/ /\ \/ "mongo" \in faults
           \/ w.store = "audit" /\ audit[w.call] # NoRow
           \/ pc[w.call] = "gone"
        /\ OnReject(w)
        /\ UNCHANGED <<audit, events>>
  /\ UNCHANGED <<scenario, ledgerVars, cache, text, at, units>>

\* (A mistake, for the mutant runs: not awaiting the writes.)
SettledAtOnce(c) ==
  /\ \/ Go(c, "settlingHit", "answered")
     \/ Go(c, "settling", "answered")
     \/ Go(c, "settlingPartial", "partial")
     \/ Go(c, "settlingFailure", "failed")
  /\ UNCHANGED <<scenario, ledgerVars, cache, text, at, units, recordVars>>

\* Both writes were acknowledged.
Settled(c) ==
  /\ \A w \in writes : ~(w.call = c /\ w.turn = pc[c])
  /\ \/ Go(c, "settlingHit", "answered")
     \/ Go(c, "settling", "answered")
     \/ Go(c, "settlingPartial", "partial")
     \/ Go(c, "settlingFailure", "failed")
  /\ UNCHANGED <<scenario, ledgerVars, cache, text, at, units, recordVars>>

-----------------------------------------------------------------------------

Crash(c) ==
  /\ "crash" \in faults
  /\ pc[c] \notin Finals
  /\ pc' = [pc EXCEPT ![c] = "gone"]
  /\ UNCHANGED <<scenario, ledgerVars, cache, text, at, units, recordVars>>

Connection ==
  /\ "redis" \in faults
  /\ up' = ~up
  /\ UNCHANGED <<scenario, book, hold, actual, cache, pc, text, at, units, recordVars>>

AllDone == writes = {} /\ \A c \in Calls : pc[c] \in Finals

Rest == AllDone /\ UNCHANGED vars

Step(c) ==
  \/ Prepare(c) \/ Lookup(c) \/ Reserve(c) \/ Answer(c) \/ OpenStream(c)
  \/ Failover(c) \/ Chunk(c) \/ StreamEnds(c) \/ CommitAnswer(c) \/ Store(c)
  \/ Salvage(c) \/ Compensate(c) \/ SettleHit(c) \/ SettleAnswer(c)
  \/ SettlePartial(c) \/ SettleFailure(c) \/ Settled(c)
  \/ \E w \in writes : w.call = c /\ Land(w)

Next ==
  \/ \E c \in Calls : Step(c) \/ Leave(c) \/ Crash(c)
  \/ Connection
  \/ Rest

Spec == Init /\ [][Next]_vars

\* A call always resumes: providers are timed out, Redis and Mongo answer or
\* reject.  Nothing obliges a fault, a departure or a reconnection to happen.
FairSpec == Spec /\ \A c \in Calls : WF_vars(Step(c))

-----------------------------------------------------------------------------
\* What the reservations of the calls are to the ledger's promise.
Promise == INSTANCE BudgetPromise WITH
  MaxPeriod <- 1,
  Estimate  <- [c \in Calls |-> Estimate],
  Costs     <- RealCosts,
  period    <- 1,
  phase     <- hold,
  key       <- [c \in Calls |-> IF hold[c] = "idle" THEN 0 ELSE 1],
  paid      <- [c \in Calls |-> IF hold[c] = "committed" THEN actual[c] ELSE 0]

SumOver(C, f) == Promise!SumOver(C, f)

-----------------------------------------------------------------------------
\* Properties.

TypeOK ==
  /\ scenario \in Scenarios
  /\ up \in BOOLEAN
  /\ book \in Books
  /\ cache \subseteq {<<PromptOf[c], t>> : c \in Calls, t \in {"raw", "redacted"}}
  /\ pc \in [Calls -> Labels]
  /\ text \in [Calls -> {"none", "raw", "redacted"}]
  /\ hold \in [Calls -> Holds]
  /\ actual \in [Calls -> Nat]
  /\ at \in [Calls -> Deployments]
  /\ units \in [Calls -> 0 .. MaxUnits]
  /\ writes \subseteq [call : Calls, store : {"audit", "usage"}, turn : Turns, row : Rows]
  /\ audit \in [Calls -> Rows \cup {NoRow}]
  /\ events \in [Calls -> SUBSET Rows]

\* The catch block of a stream commits once more when it is the settling that
\* failed, so what is said of the counters needs a Mongo that accepts the
\* writes of streams; and a script whose reply is lost is run again by nobody
\* who knows that it ran.
CommitsOnce ==
  /\ "lostReply" \notin faults
  /\ "mongo" \in faults => \A c \in Calls : KindOf[c] # "stream"

\* The counters are what the reservation objects say, stranded ones included,
\* whatever fails between reserving and settling: no path through the saga
\* charges or gives back twice (redis-budget-ledger.ts:155, "nothing depends on
\* this process's state").
CountersExplained ==
  /\ TypeOK
  /\ CommitsOnce =>
       /\ book.spent = SumOver({c \in Calls : hold[c] = "committed"}, actual)
       /\ book.reserved = Estimate * Cardinality({c \in Calls : hold[c] = "held"})

\* A caller that got its whole answer left complete evidence: an audit record
\* and a usage event, both of the very cost its reservation was committed with,
\* and no reservation open (create-chat-completion.ts:417, "Audit and event").
AnsweredIsAccounted ==
  \A c \in Calls : pc[c] = "answered" =>
    /\ hold[c] # "held"
    /\ KindOf[c] # "embeddings" =>
         audit[c].status = "completed" /\ audit[c].cost = actual[c]
    /\ \E row \in events[c] : row.status = "completed" /\ row.cost = actual[c]

RecordedCost(c) == SumOver(events[c], [row \in events[c] |-> row.cost])

\* At rest, analytics and the budget agree: the ledger has spent what the usage
\* events of the verified calls add up to, and what the calls that vanished
\* had paid before they could say so; through failovers, interrupted streams and
\* a Redis that comes and goes (create-chat-completion.ts:182, "so the budget is
\* never undercharged").
UsageMatchesLedger ==
  AllDone /\ CommitsOnce /\ "mongo" \notin faults =>
    LET verified == {c \in Calls : hold[c] # "unverified"}
        owed     == [c \in verified |-> IF pc[c] = "gone" THEN actual[c]
                                                         ELSE RecordedCost(c)]
    IN  book.spent = SumOver(verified, owed)

\* Every call ends, whatever its providers, its guardrail, Redis and Mongo do.
EveryCallEnds == \A c \in Calls : <>(pc[c] \in Finals)

Resolves(c) == hold[c] = "held" ~> hold[c] # "held"

\* While Redis answers and nobody vanishes, no reservation stays locked behind
\* a call, whatever its providers and Mongo do (create-chat-completion.ts:133,
\* "whatever was reserved must not stay locked").
HoldsResolve ==
  faults \subseteq {"mongo", "guardrail"} => \A c \in Calls : Resolves(c)

\* The saga keeps the promise of the ledger: each call plans, is admitted or
\* refused, and pays or gives back at most once, and the verdicts are exact.
\* A reservation its call has left behind still occupies its estimate.
SagaKeepsPromise == Promise!PromiseSpec

-----------------------------------------------------------------------------
\* What the documentation says and the code does not do.

\* "Concurrent calls do not spend the same balance twice" (README.md:27): what
\* was paid and what is held stay within the limit of a blocking budget.
ServedWithinLimit ==
  BlockAtLimit =>
    SumOver({c \in Calls : hold[c] = "committed"}, actual)
      + Estimate * Cardinality({c \in Calls : hold[c] = "held"}) <= Limit
=============================================================================
