# AIA Platform: verification project

TLA+ models of the AIA Platform, the runs of TLC that check them on small
instances, and proofs about the core that TLAPS checks for every value of the
constants.  Everything is translated from the code under `src/`; `PROJECT.json`
gives, for each definition, the lines it stands for.

## 1. The system

AIA is a monorepo of TypeScript (NestJS) and Python (FastAPI) services around
one inference entry point.  Its parts, the state each keeps and what makes it
correct:

| Part | State it keeps | What makes it correct | Modules |
| --- | --- | --- | --- |
| **Budget ledger** (`inference-router`, Redis) | per project and period `spent` and `reserved`; a connection flag per process | the counters are the sum of what calls were charged and hold; a blocking limit is never passed; no refusal is wrong | `BudgetLedger`, `BudgetScripts`, `BudgetPromise` |
| **Inference saga** (chat, stream, embeddings) | a reservation per call, its progress, the cache, writes in flight | a reservation resolves once; a success is fully recorded; usage and ledger agree; every call ends | `InferenceSaga` |
| **Model selection, executor** | the catalogue, the keys of the providers | sensitive data stays in its zone, a failover keeps the width, the list tells what may be used | `ModelSelection`, `InferenceSaga` |
| **Policy reader, service token** | cached policies and tokens of a replica | a policy older than its TTL is flagged; a stable period key | `ProjectPolicy` |
| **Governance** | projects with versioned policies, budgets | what is stored, announced and allowed is what was decided | `ProjectPolicy` |
| **Outbox, relay, event bus** (`packages/messaging`) | events with status, attempts, lease; a Redis stream with its groups | nothing lost, copies bounded by leases, given up late; each entry handled once | `Messaging` |
| **Resilience** (`packages/resilience`) | circuits and bulkheads, in memory or in Redis | slots neither leak nor exceed the limit; the circuit follows the dependency | `Resilience` |
| **Knowledge** | documents, job queue, chunks, vectors; visibility and subscriptions of stores | what is ingested is found, what is deleted is gone; both consents to a sharing | `KnowledgeIngestion`, `StoreSharing`, `Retrieval` |
| **Identity** | personal tokens, introspection cache, the signing key | no revoked token comes back; what one replica signs all verify | `AccessTokens`, `SigningKeys` |
| **Authorisation** (`packages/auth`, `aia_auth`) | none | both languages read a token alike | `Authorisation` |
| **Registry** | assets, versions | a published version never changes; runs get what was released | `RegistryVersions` |
| **MCP gateway** | bindings, approvals, rates, audit | an approval is used once for what was approved; effects are audited; the list tells what may be called | `ToolInvocation`, `EffectiveTools`, `Arithmetic` |
| **Agent runtime** (Python) | runs and checkpoints | calls run once, turns are complete, runs end or wait | `AgentRun`, `EventRelay` |
| **Guardrails, evaluation** (Python) | none; evaluation runs | found data is replaced; only what was measured passes | `Redaction`, `EvaluationRun` |
| **Providers' adapters** | none that is shared | tool calls as the model asked | `ToolCalls` |
| **Web console** (Next.js) | the session of a browser | events and traces shown as recorded; offers what is allowed; a form changes what was changed | `EventRelay`, `Callers` |
| **Contracts and HTTP edges** (generated from OpenAPI, `packages/nest`) | none | services serve what is written, callers are answered | `Shapes`, `Contracts`, `Services`, `Callers` |
| Telemetry, SDKs, deployment | none | not modelled | |

How they interact: a call to the router reads a *policy* (HTTP to governance,
cached), passes the *guardrail* (HTTP), may be served by the *cache* (Redis),
reserves in the *ledger* (Redis), calls *providers* through the executor, then
commits, stores, and writes *audit* (Mongo) and a *usage event* (Mongo outbox).
The *relay* of each replica moves events from the outbox to the *bus* (Redis
streams).  An agent run resolves its version in the *registry*, asks the router,
and runs tools through the *gateway*, which holds a risky call until a human
approves it in another request; what it says goes to the browser as server-sent
events.  Everything done between two awaits is atomic; at each await any other
call, a dropped connection, a rejected write or the death of the process may
intervene.

The hard behaviours are listed line by line in `PROJECT.json` under `hazards`:
concurrent reservations; replies lost after a script ran; the two racing inserts
of a settlement; errors thrown inside catch blocks; generators closed at a
`yield`; leases outlived by their holder; decisions taken from a value read
before an await; answers that overtake each other; read-modify-write without a
version; approvals and runs resumed by two people; and tables and decisions that
exist twice.

## 2. What is modelled

A module is one component; an `MC` module names its instances.  The modules that
an instance puts together are: `BudgetLedger` with its scripts and its abstract
promise; `InferenceSaga` over the same scripts; `AgentRun` over `ToolInvocation`;
and two collections of independent components, `Access` and `Texts`, of which each
behaviour moves one.  `MCLimits` (ledger, policy, resilience) and `MCAgents` (agent
runs, texts) check components that share nothing in one run: in a behaviour `part`
says which of them moves, and the others rest where they began.  A variable that
never changes (`scenario`, `situation`, `environment`, `faults`, `history`, `setting`,
`exchange`) is chosen at the start from a constant set: the situations and faults an instance covers.  A fault that
a behaviour does not have is never taken, and a property that needs a dependency
to work says so in its own premise, so that what the code survives and what it
does not can be read off the property.

### Budget ledger

| Module | What it is |
| --- | --- |
| `BudgetScripts` | the three Lua scripts as operators on the pair of counters |
| `BudgetPromise` | the abstract specification: calls that plan, are admitted or refused, pay, give back or are abandoned, and *no counter*: admission is decided from the sum over the calls (`SumOver`, as a number of units, not a recursion) |
| `BudgetLedger` | `RedisBudgetLedger` with its counters, connection, stable period keys, roll-over and expiry; extends the two above |
| `BudgetLedger_proofs` | theorems about the last two |

`book[p]` is the pair of Redis keys `aia:budget:<project>:<p>`; `phase[c]` the
state of the `BudgetReservation` of a call (`held`, `committed`, `released`) plus
what only the caller knows (refused, failed, served without verification,
abandoned); `key[c]` its `periodKey`; `up` is `isAvailable()`.  A script is one
step, since Redis runs it alone.  `Expire` removes one of the two keys of a past
period at a time: the reserve script sets a TTL that reaches the end of the
period, commit and release one of 40 days.  The project's limit is one constant
for all periods; lowering a limit while calls are in flight is outside this
model.

### Inference saga

`InferenceSaga` models `execute`, `stream` and `CreateEmbeddings.execute` from
`prepare` to `settle`, all calls of one project in one period.  `pc[c]` is the
await the call is suspended at; the header of the module draws the graph.
`hold`, `actual` are the reservation object; `text` the prompt that proceeds
(`raw` or `redacted`); `at`, `units` the deployment and the consumption; `writes`
the audit and usage inserts in flight, each with the turn that sent it, because
`Promise.all` rejects at the first rejection and leaves the other insert running;
`audit` and `events` what Mongo has.

Faults: `redis`: the connection drops, or an EVAL rejects without effect;
`lostReply`: an EVAL is applied and its reply lost; `mongo`: an insert rejects,
applied or not; `guardrail`: down or not deployed; `client`: the consumer of a
stream leaves; `crash`: the process of a call dies.  Provider failures are always
possible.

Abstractions: a cost is price times units; the provider's token count and the
local estimate of the same text agree; chunks without text change nothing; an
expired cache entry is a miss, which is always possible; every Redis client is
the one connection of the process; a router policy that rejects the call before
anything is reserved is one disjunct of `Prepare`.  Expiry of counters belongs
to `BudgetLedger`.

### Outbox, relay and event bus

`Messaging` models `MongoOutbox` and `OutboxRelay`: append, the batch lease (one
`findOneAndUpdate` at a time, oldest first), publish, the two unconditional
marks, the two-step `markFailed`, a drain that rejects, and the relay's tick.
Time is abstracted to `Lapse`: a lease whose relay is gone may lapse at any
moment, one in use only under the fault `slow` (a batch of 200 events under one
30 s lease, a long pause, clocks that differ).  The other faults are a bus that
rejects (`publish`), a collection whose updates reject (`mongo`), either applied
or not, and replicas that die (`crash`).  A drain that rejects is not caught
anywhere (outbox.ts:152); whether the process survives that depends on the Node
flags, and in both cases the relay starts again without its batch.

It also models `RedisStreamSubscriber`: the consumers of one group boot,
create the group or find it there, read with `>`, give each entry to the handlers
in turn, count its deliveries when one rejects, acknowledge, stop, die and start
again.  `Read` takes only what nobody has read, as the code does; that an entry whose
handler failed is delivered again is said of the code, is the property
`FailedReturns`, and is violated (section 3).  `MessagingSpec` puts both together: a `Publish` of a relay that reaches the
bus *is* an entry of the stream.  The stream is recorded only if somebody
subscribes; there is one stream and one event type; `MAXLEN` trimming is left
out.  No application instantiates the subscriber yet.

### Resilience

`Resilience` models `ResilienceExecutor.execute` for the calls of several
processes to one dependency: the bulkhead (in memory with its queue of waiters,
or the Redis one with its leases and its polling), the retry loop with backoff
and `Retry-After`, the circuit, the timeout as an abort that the operation need
not heed.  A call suspends where the code awaits; a resolved waiter is
`granted` until it resumes, which is when it counts itself in, so that a caller
can slip in between (fault `race`).  `overrun`: a lease expires under a call that
still runs; `redis`: a script is rejected, applied or not; `abort`: the caller
gives up; `crash`: a process dies.

### Policies and budgets of a project

`ProjectPolicy` has the two documents of a project and the administrators who
read, change and save them whole, each save with its event in one transaction and
none with a version: `CreateProject`, `SetProjectPolicy`, `SetBudget`; and the
replicas of the router that read them: the cache with its two lifetimes,
the service token shared by the requests of a replica, a fetch whose answer may
arrive after a later one, the fallback, and the period key derived from what was
read.  A day is 2 ticks and a month 6; what the code distinguishes (a TTL shorter
than a day, two days that tell a month from a day) keeps its order.

### Agent runs and tool invocation

`ToolInvocation` models `InvokeTool`, one step per await: the decision from
bindings and membership, the rate, the approval that is opened or taken (a key in
Redis), the credential, the execution and the record.  `AgentRun` models
`RunAgent`: run and checkpoint are two documents saved one after the other, and
every request works on its own copy of both.  The model may ask for any batch of
calls the situation has.  An agent's call goes through the actions of
`ToolInvocation`; people may also call the gateway themselves.  Saves that fail
with something else than a domain error are the request's death; the reading of
the catalogue and the model's answer are one step.

### Access

`StoreSharing` is the visibility of one store and the subscriptions of projects,
two documents written and read apart by offers, withdrawals, subscriptions,
searches and lists.  `AccessTokens` is one personal token from issue to
revocation and expiry with the cache of its introspections.  `SigningKeys` is the
boot of replicas that find, generate and insert the signing key.
`RegistryVersions` is one asset with its versions, edited, published, deprecated
and resolved by requests that save whole documents.

Three modules are pure decisions, evaluated by one step of `Access` for each
question: `Authorisation` (claims to principal, in both languages, and every
permission), `ModelSelection` (the deployments tried for an alias, in order, with
their token ceilings, and the list of models), `EffectiveTools` (the list of
tools, the gateway's decision on each, and which call an agent makes with which
store).

The HTTP edges are decisions too. In `Shapes` a body is a function from the path of
a field to the kinds of value it may hold (absent, null, a number, a text, one of
some texts...), so that what one side may send can be compared with what the other
takes. `Contracts` has the operations of the generated interfaces, `Services` the
routes of all nine services in the order they are declared, with guard, policy,
schema and answer, `Callers` the 56 calls that the console and the services make of
each other. Problem documents, response headers, formats, lengths and ranges are
left out. `Callers` also has the controls that a screen of the console shows, next
to who may use them, and what the form of an agent sends back of what it read.

### Texts

Functions, each evaluated for every small input: `Retrieval` (the three strategies
of chunking, and the fusion by reciprocal ranks, as exact integers), `Redaction`
(detection order, overlap, decision), the percentile of `EvaluationRun`, `ToolCalls`
(the fragments of four providers and the messages back to Anthropic), `Arithmetic`
(the parser of the calculator, its value kept as a tree), the trace view at the end of
`EventRelay` (the order and counts of the trace tree). Two are state machines: `EvaluationRun` runs a path of
suites whose cases, judge, dataset or request may fail; `EventRelay` carries what a
run or a chat says as server-sent events, with heartbeats, through the console's
server to the browser's transcript, each side reading in chunks of any size;
requests are refused, services and the console's own server die, people leave, held
runs go on in a second stream and chats in a next turn. Of a chat the model keeps what
the page keeps: the history that the next prompt replays (`historyRef`), the turns it
shows, the answer so far. `EndRead` settles a turn, also one whose stream told of an
error; `ReadRefusal` and `ReadFails` are the catch block, which drops it. In
`EventRelay` a token of the wire is a line or a break. The walk through a trace goes
to the code's own depth of 32; no input has two spans without an id, or three with the
same, for which it grows twofold with each level (section 3).

### Knowledge ingestion

`KnowledgeIngestion` models the documents of one vector store: `RegisterDocument`,
the upload, `CompleteDocumentUpload`, the BullMQ queue, `IngestDocument` in its
workers, and `DeleteDocument`.  Every await is a step, because requests and
workers each hold a copy of the document and every `save` is an upsert of all of
it: `actor[a].copy` is that copy, `record` the collection.  `text` is the chunks
collection, keyed by document and version; `points` is the vector index, keyed
as in the code by the hash of the content and not by the document.  A document
stands for its one chunk.  Uploads are the client's, the queue (`Take`, `Return`,
`Throw`, the job id that drops duplicates, the one redelivery of a stalled job, the
failure of one that stalls again) is BullMQ as the code uses it; a finished job's id
is remembered throughout (the code keeps it for an hour or a day).  Inside the try
block a parser, the embeddings, an index or MongoDB may fail at every step
(`DependencyFails`, `Finish`); a worker or a request may die.  Where
`scenario.outages`, MongoDB also rejects what the try block does not protect: the two
lookups before it (`Find`) and the save of the failure (`Catch`).

What clients do decides what holds.  `scenario.patient` says they leave a
document alone while a request or a job for it is open; the invariants about the
index assume it, since nothing in the code does what they would need otherwise:
a confirmation that overtakes the worker, or another confirmation, saves its old
copy over the new one.

### Property by property

Each property carries a comment with the code behaviour it is about; a property
named after a promise is the conjunction of the parts that keep it.

* `limits`, of the ledger: `LedgerTypeOK`, `CountersExact`, `NeverOverstated`,
  `CountersWithinLimit`, and `PromiseKept`, the refinement of `BudgetPromise`; of
  policies: `StoredAsDecided`, `CachedIsRecent` (unflagged means recent, flagged means
  a fetch failed shortly before, a token outlives the fetch it is sent with),
  `OneKeyPerPeriod`; of resilience: `SlotsWithinLimit`, `LimitedOnlyWhenFull` (nobody
  is turned away from a free slot), `CircuitHolds` (closed exactly when every run of
  failures it was told of was followed by a probe that went well, in whatever order
  answers arrive; and at rest for the time the tripping failure asked for).
* `saga`, `progress`: `CountersExplained` (no path charges or gives back twice),
  `AnsweredIsAccounted` (a caller who got its answer left both records, of the
  committed cost), `UsageMatchesLedger` (at rest the usage events add up to the
  ledger), `SagaKeepsPromise` (the saga implements `BudgetPromise`), `EveryCallEnds`,
  `HoldsResolve`.
* `outbox`: `EventsAccounted` (what is marked published was sent; sends and copies
  are bounded by leases; events are given up late; each entry goes to one replica
  and to each of its handlers at most once, which is what the code does and less than
  it promises; what is acknowledged was taken or given up; only
  a rejection or a death leaves an entry pending in nobody's hands),
  `OneRelayAtATime`, `EventsArrive` (an event that is written comes to rest, and to
  every handler of a subscriber that does not fail).
* `agents`: `ApprovalsHonoured` (used once, by who saw the call, for what was
  approved), `EffectsAudited`, `TurnsKept` (a call runs once, the model is never asked
  with half of its results or one of them twice, the ceiling holds), `RestsDecided`.
  Of texts: `DocumentsFound` (every letter is in a chunk, no phrase of the overlap is
  cut, chunks are cited where they are, fusion is fair), `RedactedAsFound`,
  `VerdictsMeasured`, `CallsAsAsked`, `EvaluatesAsWritten`, `ShownAsRecorded` (a run, a
  chat with its history, a failure and a trace are shown as they were).
* `access`: `StoresShared`, `RevocationHolds`, `SignedStaysValid`, `VersionsResolve`,
  `VersionsKept`, `DecisionsAgree` (both languages read a token alike; attempts are in
  their zones, ordered, of one width, and the list of models agrees with them; what
  the list of tools shows is what the gateway allows, and an agent's call is bound
  only to its own store; every operation of the contracts is served, as written, by a
  route of its own, and no route is missing from them; every call lands where it is
  meant to, is taken, and can be read by who made it; a member is offered the controls
  that would work; a saved form keeps what was not touched).  The exceptions are named
  in the properties, so that another one, or one less, is an error.
* `ingestion`: `JobsSettle` (work is not done twice; a job that completes leaves its
  document with a verdict, and so does one that uses up its attempts, unless MongoDB
  rejects what the try block does not protect), `IngestedIsFound`, `StaysIndexed`,
  `ErasedIsGone`.

## 3. Runs

| Run | Instance and faults | Shows |
| --- | --- | --- |
| `limits` | ledger: 3 calls (2, 2, 1) against a limit of 4, 2 periods, outages, expiry; policy: 2 administrators, 3 requests, 2 replicas, seven situations over 2 days or 1 month; resilience: 3 calls on 1 or 2 processes, 1 slot, 1 retry, thresholds of 2, five environments | the Redis ledger is exact and implements the promise; what is cached is recent or flagged, what is stored was decided; slots and circuits hold through races, aborts, crashes, overruns |
| `saga` | 2 chats of one prompt, 2 deployments (2, 1), capture on, `mongo` with `guardrail`; or a stream and an embedding, `redis` with `client` and `crash` | nothing is charged or given back twice; evidence is complete and append-only; whatever is left behind still occupies its estimate |
| `progress` | a chat and a stream; `mongo`, or `redis` with `lostReply`; fair | every call ends; no hold stays locked |
| `outbox` | 2 relays, 2 attempts, 3 leases, 1 crash with 2 events (`publish` with `crash`, with `mongo` and `crash`, or `slow`) or 1 event and every fault; 1 relay and 2 replicas with 1 or 2 handlers that reject, stop, lose Redis or die; fair | an event is sent no more than it was leased, handled once per copy, and arrives |
| `agents` | 1 run, 3 actors, 2 other callers, batches of up to 3 calls, 2 approvals, ceiling 3, six situations; documents of up to 6 characters, rankings of 3, 4 findings' places, samples of 5, 2 or 3 tool calls, expressions of three levels and texts of 4 tokens, traces of up to 4 spans, 2 suites of 2 cases, streams of a few events in chunks of every size, chats of up to 2 turns | approvals are honoured, effects audited, runs rest decided; what is computed is what its definition says, what is shown is what was said |
| `access` | 1 store with 3 documents and 2 projects; 1 token, lifetime 3, TTL 2; 3 replicas that restart once; 1 asset with up to 4 versions, 9 requests; all questions of `MCAccess`, among them every operation, every call, people with up to two memberships and their screens | consents, revocations, keys and versions hold; what is listed, written, called and offered is what is decided |
| `ingestion` | 1 or 2 documents, 2 versions, 2 contents, 2 attempts, 2 crashes, in the scenarios `Deaths`, `Pairs`, `Twins`, `Haste` and `Outages` | what is ingested is indexed, stays so, is gone when deleted; jobs end with a verdict |

Why the bounds are enough.  Two calls are needed for every interference between
reservations, a third for a refusal that depends on two others; both are there.
Two deployments give a failover with a last one.  `MaxUnits` of 2 gives a stream
a first chunk, an interruption and a natural end.  Two relays give one that
overtakes and one overtaken, two events a batch cut short; `MaxLeases` is the two
attempts that lead to `failed` and one more, for the crash or for the relay that
was overtaken.  Two replicas of a subscriber are the least for one to take what
another was given, a limit of one delivery makes the give-up happen.  Three calls
are the smallest instance where answers of earlier calls arrive after the circuit
has opened and a probe has started, and where a caller slips in between a released
slot and its waiter; one slot is then a full bulkhead.  Two requests of a replica
are the least for one answer to overtake the other, a third is served what they
left.  A batch of three has a held call with others before and after it; two
turns are the least for an approval to be late.  A token's life is longer than the
TTL of the cache, so both ends happen.  Ingestion needs two versions to be
reindexed, two contents to tell them apart, two attempts for a first and a last
one, two documents and workers for twins.  `Haste` has one document, version and
content: two requests and a worker that race are enough for each to save over the
other's copy.  A document of six characters has a window, its overlap, and what
is left, with headings and breaks anywhere; `MaxDepth` stands for 64, smaller than
the deepest input so that it is passed; `WalkDepth` is the code's 32, which a span
without an id reaches.  A chat that fails and a second turn are the least in which a
failed turn could be replayed.  In `Limits.cfg` and `KnowledgeIngestion.cfg` calls, replicas,
workers and requests that nothing tells apart are interchangeable (`SYMMETRY`); both
runs check safety only.

Deadlock is checked in every run but those of `KnowledgeIngestion`, where a store
whose documents are settled or deleted has nothing left to do within the bounds.
Elsewhere `Rest` is a stutter that requires every request to have ended; the
ledger can always change its connection, a relay can always tick.

Each property has at least one mutant, and a conjunction usually one for each
part: a mapped definition exchanged for a plausible mistake (the operators
commented "a mistake, for the mutant runs"), under which TLC must find the
property violated.

### Fairness

The saga: weak fairness of each call's own steps, since a provider call is timed
out by its policy, Redis and Mongo requests are answered or rejected by their
drivers, so an await always resumes.  The policy's timeout covers a stream up to its
first chunk; after it, that the provider goes on, ends or fails is an assumption.  No fault, departure or reconnection is ever
forced to happen.  The disjunction is per call and not per action, so nothing
obliges a provider to succeed.  Messaging: weak fairness of each relay (its timer
runs again after every drain), of the lapse of each lease (time passes) and of
each replica of the subscriber (it boots and its calls return); nothing obliges a
handler to succeed, and a replica that stopped need not start again.  The other
runs check safety only.

### Disagreements between code and documentation

Five runs check what the repository says and find it violated; each is a finding
in `PROJECT.json` with the quoted line.

| Run | What is said | What happens |
| --- | --- | --- |
| `doc_spent_twice` | the same balance is not spent twice (README.md:27) | a stream whose settlement fails commits twice and frees another call's hold |
| `doc_reindex_gap` | a search during reindexing never sees the document disappear (ingest-document.ts:148) | the confirmation raises the version, and search reads text under it, before the chunks are written |
| `doc_failure_unmarked` | every failure marks the document failed rather than leaving it stuck mid-pipeline (ingest-document.ts:43) | a lookup before the try block rejects (:63, :66), or the save of the failure does (:74), in every attempt; or the job stalls twice and BullMQ fails it without any code (worker.ts:38; the same property is violated with `Deaths` alone): the document stays as it was, and confirming it again starts nothing, since the job's id is taken |
| `doc_redelivery` | at-least-once delivery; a message whose handler failed returns on the next read (redis-streams.ts:8, :175) | reads ask for `>` (:133): the entry stays pending and is never read again, its count stays 1, and it reaches the dead letters only if the limit is one |
| `doc_failed_turn` | the failed turn is dropped from history (playground.tsx:109) | a failure that comes as an event does not reach the catch block: the turn is settled (:100-106) with what came of its answer, and the next prompt replays it |

A sixth is beyond TLC.  A cycle in a trace is not to hang the console (trace.ts:202-203,
trace.spec.ts:203-210).  The walk stops at depth 32, so it ends; but every span whose
`spanId` is the empty text is a child of the root *and* of every other such span, so
that two of them are visited 2 + 4 + ... + 2^33 times, as are three that have one id,
which is their parent's too, and hang from an orphan.  With a single span without an
id the list is longer by one entry a level, which `agents` checks (`TraceShown` bounds
it by 33 times the spans); its traces have no two such spans.

Other differences were met while modelling; they are behaviours of the models or
premises of properties, and have no run of their own.

*Router.*  Audit and usage event are two independent inserts, not one transaction
(README.md:106).  Not every reservation resolves (create-chat-completion.ts:56): a
consumer that leaves closes the generator at its `yield`, and the hold lasts until
its key expires.  A `release` that rejects inside the catch block skips the failure
record (:417).  The flag of an unverified budget is read when settling, when Redis
may be back (:412; docs/runbooks/redis-unavailable.md:13).  A failover may be dearer
than the "worst case" (:341, `NeverDearer`); the default catalogue does that, since
an estimate is priced on the first compatible deployment whether or not its provider
has a key.  With content capture the audit stores the raw prompt when the guardrail
is down (:310).  Calls that Gemini streams in two chunks are folded to the last
chunk's (:527), though ports.ts:80-85 says adapters emit them once and complete.
`GET /v1/models` lists aliases whose providers have no key.

*Policies.*  In its last two days a monthly budget is counted as a daily one
(http-policy-reader.ts:155).  A fallback overwrites a fresher entry (:80-86); nothing
listens to the event that announces a change (set-project-policy.ts:46).  The event
of a budget may carry another period than the one stored (set-budget.ts:60).  Two
administrators produce one version number for two policies (dto.ts:47-48).

*Messaging.*  A lease keeps two replicas from publishing the same event, and `failed`
from being undone, only while no relay outlives it (outbox.ts:21, 94).  What a dead
consumer had read stays pending, and a
rejected Redis command ends `start()` for good.

*Resilience.*  A late failure without `Retry-After` replaces a longer open time
(circuit-breaker.ts:79, :26); the circuit counts 4xx and caller aborts; a release
that rejects in `finally` masks the result (execute.ts:78); the lease TTL of 90 s is
shorter than three attempts of 60 s (policies.ts:17).  `aia_resilience` says it
mirrors this package but swallows a cancellation into a retry (:211), takes a
`Retry-After` of 0 for none (:187) and has no bulkhead; `aia_auth` lets the second
failure of a key lookup escape (:141-150) and takes an empty claim for a missing one.

*Knowledge.*  A delete does not stop a worker that has read the document
(manage-stores.ts:128, 151).  A document equal to another one of its store is not
ingested for free (ingest-document.ts:106): the unique index refuses the hash it is
given and it ends `failed`; if that other one is deleted in between, it ends
`ingested` with nothing indexed; two ingested at once share their points (hence
`Solo`).  A job delivered again after its end takes its document from `ingested` to
`failed`; every retry finds a failed document and replaces its error code.  A
confirmation that lags takes a document back to an earlier version.  Paragraphs
separated by three or more breaks shift a chunk's offsets (chunker.ts:76-78).  Two
versions of a chunk ranked during a reindex count twice.  A subscription in flight
over a withdrawal survives it, as do those a crash leaves (share-store.ts:51-53).

*Registry.*  An edit that overlaps a publication saves the draft over the published
version (version.repository.ts:60, asset-version.ts:20-22); a stale whole save undoes
a publication or a deprecation; a crash in deprecate leaves the pointer at a
deprecated version (deprecate-version.ts:26-28).  Hence `patient` histories.

*Identity.*  A revocation leaves the cached answer active for up to 60 s, and cached
answers outlive the expiry (introspect-token.ts:48).  A replica whose key store was
down at the first request keeps the rejection until it restarts
(jose-token-signer.ts:92-95).

*Gateway and agents.*  A tool that is not ready is listed if it comes from the
registry, and a registry tool with a built-in's id passes the zone check for want of a
zone (ADR-024:51, 96).  An approved call counts twice against the rate; a refused
approval is not audited (invoke-tool.ts:205-222, :300).  A request that dies leaves
its run `running` for good (run_agent.py:108-109, :136); a double click runs a call
twice (platform_clients.py:132-134); a crash between saving the run and its checkpoint
makes a call that ran approvable again; ids `call_<i>` repeat in every turn; the
ceiling is skipped when a run is resumed (policies.py:55-60).

*Contracts and calls.*  A budget can never be saved from the console: it sends the
micros as a text (platform-gateway.ts:135-137), which the contract and the schema of
governance (dto.schema.ts:15-23) want as a number.  A connection without a reference
to its secret is refused unless its kind is `none`.  `deleteStore` exists only in the
contract.  The services refuse what their contracts allow for `issueToken`
(`grant_type` is misnamed in the generated types), `createPat` (scopes),
`createConnection` and `runEvaluation` (no body); answer 201 where 200 is written for
`createEmbeddings` and `deprecateVersion`; leave two fields out of what
`setProjectPolicy` returns; ignore the paging of two lists.  Nobody reads
`Idempotency-Key`.

*Console.*  It offers an upload on a store that is only shared with the project
(store-workbench.tsx:119), which is always refused, and takes `platform_admin` in a
membership for an administrator, which the services take from the global roles only
(session.ts:52-55).  Saving the form of an agent drops `top_p` and
`max_output_tokens` (agent-workbench.tsx:172-186).  Its list of projects shows the
first page only.

*Guardrails, evaluation, streams.*  Of two overlapping findings the one that starts
last is kept (policy.py:67-74), the regex detector keeps the first.  A publication that
fails after its run was saved loses the event and the remaining suites.  The parser of
events normalises line ends chunk by chunk, so that a CRLF that is cut counts twice
(sse.ts:39), harmless since the platform writes LF; leaving the page does not stop an
agent run (agent-runtime-gateway.ts:9-13); ids that restart in every turn let a later
result overwrite an earlier one in the transcript (transcript.ts:175-186); a run whose
download breaks leaves its page as it was, without a word (agent-playground.tsx:151-164).

## 4. Proofs

`tlapm` checks the theorems below for every value of the constants that the named
assumptions allow: any number of calls, replicas, events, projects, documents and
workers, any limits, and every set of situations and faults.  A module
`<M>_proofs` holds the theorems about `<M>`.

| Theorem | For every instance |
| --- | --- |
| `PromiseTypeCorrect`, `PromiseRespectsLimit` | the abstract ledger respects its limit when no call costs more than its estimate (`NeverDearer`, which the code assumes and a failover to a dearer deployment breaks) |
| `LedgerTypeCorrect`, `LedgerInvariant`, `LedgerCountersExact`, `LedgerNeverOverstated` | the clamps keep the counters natural; they are the sums over the calls until a key expires, and never more after it |
| `LedgerKeepsPromise`, `LedgerWithinLimit` | the Redis ledger implements `BudgetPromise`, and so respects the limit |
| `SagaHolds`, `CountersStayExplained`, `AnswersStayAccounted`, `UsageStaysMatched` | no path of a call charges or gives back twice; an answer has both its records; at rest the usage events are the ledger |
| `SagaRefinesPromise` | while `CommitsOnce`, the saga implements `BudgetPromise` |
| `EventsStayAccounted`, `RelaysStayApart` | marks, copies, reads and handlers agree; without slow relays no event is in two hands |
| `CircuitsHold` | the circuit is closed exactly when each run of failures was undone by a probe, and rests as long as was asked |
| `SlotsStayWithinLimit`, `LimitedWhenFull` | slots neither leak nor exceed the limit, and nobody is turned away from a free one |
| `KeysStayValid`, `TokensRevocable`, `StoresStayShared` | signatures stay valid; an active answer is recent and revocation is final; consents are needed on both sides |
| `VersionsStayResolved`, `VersionsStayKept` | runs get what was released; what is published never changes |
| `PolicyHolds`, `StoredAsDecidedHolds`, `CachedIsRecentHolds`, `OneKeyPerPeriodHolds` | what is stored was allowed and is what was told; what is served unflagged is recent, and counted under the key of its period |
| `AgentsHold`, `ApprovalsStayHonoured`, `EffectsStayAudited`, `TurnsStayKept`, `RestsStayDecided` | what a human approved runs once, as it was shown; nothing is done off the record; turns are complete, calls run once; a run that nobody works on ended or waits |
| `IngestionHolds`, `JobsStaySettled`, `IngestedStaysFound`, `IndexStays`, `ErasedStaysGone` | a job that completes has its verdict, and so has one that uses up its attempts where MongoDB serves what the try block leaves out; what is ingested is found and stays, what is deleted is gone |

Each safety theorem has the same last step: `Init` implies an inductive invariant,
every step preserves it, and it implies the property.  What follows is why each
invariant is stronger than its property.

**Ledger.**  `LedgerInv` is `LedgerTypeOK /\ PeriodsInOrder /\ CountersExact /\
NeverOverstated`.  `CountersExact` alone is not inductive: that the next period
starts exact needs to know that nothing of it has expired and nobody is accounted
in it, which is `PeriodsInOrder`; that a commit does not clamp in a live period
follows from `CountersExact` itself, since the committing call is one of those the
counter stands for (`SettleHeld`); after an expiry only the inequality survives,
which is `NeverOverstated`.  In the refinement the crucial step is that the script
decides from `Exposure(book)` what the promise decides from the sums: equal in the
running period, because it has not expired.  A sum is the cardinality of a set of units (`SumOver`),
so that the library's facts about cardinalities give the laws of adding and removing
a member; the saga has its sums from its instance of the promise.

**Saga.**  `SagaInv` says, for each label a call can be at, which states its
reservation may be in (`HoldsWhen`, `Reserved`) and what of its evidence is written,
in flight or still to come (`Evidenced`: one row, the same in both stores); and that
the counters are the sums (`Counted`).  `Reserved` is needed because whether a script
may run depends on what the handler knows at its await: a commit of a call that is
not `held` would charge twice, and the only way there is a rejected write that sends
a committed call to the catch block.  That is also why `Counted`, `UsageMatchesLedger`
and the refinement are under `CommitsOnce`: with a Mongo that rejects the writes of
streams the catch block commits once more, and a script whose reply is lost ran
without its caller knowing (`doc_spent_twice` shows it).  `CommitsOnce` is a predicate
on the situation, not an assumption; the refinement mapping reads the promise's
phases off the reservation objects and the calls' labels, and the abandoned calls are
those that are `gone` while they hold.

**Messaging.**  `MessagingInv == OutboxInv /\ CopiesSent /\ BusInv`.  `OutboxInv` has
what a relay knows at each label (`Working`: what it is about to mark it has sent),
the bound of sends (`Bounded`: what was sent and what relays still hold unsent is
within the attempts; the property counts only the first) and, without the fault
`slow`, that the leases of a batch live (`Leased`), from which `RelaysStayApart`
follows.  `CopiesSent` is the link between the two.  `BusInv` relates what a replica
holds to the group's last delivered entry (`Holding`), so that two reads never give
one entry (`Apart`); how far the handlers are is a fact about the first entry of a
batch only, the rest is untouched (`Handling`, `Untouched`).

**Resilience.**  Circuit and bulkhead share only the clock.  `CircuitInv` relates an
entry to the log of what it was told (`EntryMeant`): how many failures or successes
end it, and whether a run of failures is open.  `SlotsInv == CallsInv /\ QueueInv /\
MemoryInv /\ LeaseInv`: a queue holds each waiter once and exactly those who wait; in
memory the count is the number of holders and, while somebody waits, the slots are
taken, granted ones included, which is what no wake-up being lost means; in Redis the
unexpired leases are within the limit, each holder has one unless it outlived it, and
each lease has its holder unless a script was rejected or a process died.

**Access.**  The parts share no variable, so a behaviour of `Access` is one of each
part (`PartSteps`, `PartsAlone`) and each has an invariant of its own.  `KeysInv`:
whoever is ready has the stored key, and only that one ever signed.  `TokensInv`: an
introspection that found the token good carries the moment it was so, no cached answer
outlives a TTL from there, and a document that is saved is never less revoked than the
one it replaces.  `SharingInv`: what a request has seen of the store at its stage
(`StagesMeant`) and, where the two sides wait for each other and nothing dies, that
whoever is about to subscribe saw the offer that stands (`ConsentsStand`).
`RegistryInv`, in `patient` histories: one writer at a time, what it is about to save
is what it read with its own change and no other (`ChangeFits`), what is released is
frozen with the definition it was released with, and the pointer is at a published
version or one that is being withdrawn.

**Ingestion.**  `IngestionInv == General /\ (scenario.patient => \A d : Tended(d))`.
`General` holds in every scenario: what each actor holds at each label, jobs within
their attempts, hashes only of bytes once uploaded and unique among documents.  `Tended`
says that a document has one owner, a request or the worker of its one open job
(`Owned`), and what that owner knows (`Asks`, `Knows`); the rest of the proof is that
a step of the owner of `d` leaves every other document's facts alone, although points
are shared by content.  Lookups and saves that MongoDB rejects, and workers that
die again, are steps like the others: `IngestedStaysFound`, `IndexStays` and
`ErasedStaysGone` hold in spite of them.  What they break is the verdict, and the proof
says how far.  Where MongoDB serves what the try block leaves out (`Served`), only a
first attempt gets past `parsing`: a later one finds the document `failed` and can
always save its verdict.  Without that an attempt may find the document anywhere, and
an exhausted job claims nothing; nor does one that stalled twice, in any scenario,
since nothing ran for it.  `JobsSettle` also needs a second attempt: the unique index
may refuse a hash both where an attempt finishes and in its catch block, and then the
verdict is left to the next one.  `IngestionAssumption` therefore asks for at least two `Attempts`; the
code has three (bullmq-queue.ts:18).

**Policies.**  `PolicyInv == Governed /\ Routed`.  `Governed` is about administrators:
not only what is stored is `Allowed` but also what a request is about to save, for the
save looks at nothing again, and the period of a budget has begun; the events tell
what is stored (`EventsTellTheStore` itself), to which is added that no project was
announced before there is one.  `Routed` is about readers, and is needed because a
property of what is *served* rests on what was read long before: of every answer that
is under way, of every cache entry and of every answer given, after which moment its
documents can have been saved (`Since`, `Recent`, `Answered`), and that the key was
taken off the end of the period it was read in (`Keyed`).  What is cached was read at
most a fetch ago, hence the sum of TTL and fetch; a fallback copies an entry together
with its key.  A step of an administrator leaves `Routed` alone, because whatever it
saves it saves now (`SavesGrow`), and a tick does, because no answer is later than its
timeout.  `OneKeyPerPeriod` then rests on division only: two ends of periods that are
counted as one day or month are less than a period apart (`CountedAsOne`), and starts
of periods that are less than a period apart are one (`OnePeriod`).

**Agents.**  `AgentInv` has thirteen parts, and none of the four properties is
inductive without most of them.  *Turns.*  A state is `Whole` if results belong to
calls that were made and no call has two; what it has still to do is a line
(`InLine`): each call has its result, is the one being made or held (`First`), or is
ahead, and never two of these.  This is said of every copy, of each actor and of the
checkpoint (`Lined`), for a checkpoint that one request saved is what another goes on
from.  Completeness of a turn is then that nothing is made or ahead where the model is
asked.  *Gateway.*  While an actor invokes, the request that the gateway has is for its
call, and otherwise there is none (`Placed`), unless the actor is gone: then the
request goes on alone.  Effects and records of a caller are numbered, so that counting
them is a fact about cardinalities (`Audited`); what is about to execute has its
approval taken and unspent, and no two requests the same one (`Honoured`).  *Approval.*
`Signed` follows the signature from the actor that carries it to the request with an
approval, and to the effect; `Unhindered` is the handshake of a calm gateway in its two
halves (`FirstHalf`, `SecondHalf`): whoever carries a signature is opening an approval
or was told of one, whoever does not is using one that is its own and pending.  The proof
showed that even a calm gateway may refuse an approved call, over its rate, hence the
premise `WithinRates` of `ApprovedIsDone`; a rate that was once exceeded stays so in a
calm situation, where no minute ends, so that the premise may speak of the present.
*One at a time.*  In `patient` situations one actor at a time is handling, and where it
stands tells the status of the stored run (`Alone`); a call was put to the gateway by
nobody as long as it is ahead in any copy from which someone may go on (`OnceEach`,
`Untouched`).  A crash leaves a checkpoint older than what was done, so that this fails
unless no turn holds two calls: then nothing of a stored queue is ever put to the
gateway twice, since no run stops again after its approval (`Single`).

The assumptions are the named ones of the modules (`CallsAssumption`,
`PeriodAssumption`, `MoneyAssumption`, `SagaAssumption`, `OutboxAssumption`,
`DeliveryAssumption`, `MessagingAssumption`, `ResilienceAssumption`,
`AccessAssumption`, `HistoryAssumption`, `AgentAssumption`, `ScenarioAssumption` (of
`Access` and of `AgentRun`), `IngestionAssumption`, `PolicyAssumption`,
`SituationAssumption`): finitely many calls, events and relays, natural amounts and
limits, at least one period, version, slot and attempt, a ceiling of at least one call
of a tool, situations of the right shape (a `calm` one has no faults, no changes of
bindings and no other callers, a `single` one no changes of bindings and no turn with
two calls to approve), histories that start with an asset whose pointers are at
versions it has, documents of a project that its own checks could have let through, a
month longer than two days and a margin of tokens that outlasts a fetch.  TLC evaluates them in every run.

Only model-checked: `DecisionsAgree` of `Access` (it compares finite tables, and
selections from lists, `SelectSeq`, which are recursions) and `Texts`, which is
recursive throughout: what these compute for every input is an induction over data, out
of the provers' reach, as is all liveness (`EventsArrive`, `EveryCallEnds`,
`HoldsResolve`: fairness and ENABLED).  Every other property of a passing run is stated
by a theorem.

## 5. Not modelled, and the plan

The parts with status `not_modelled` or `partly` in `PROJECT.json` give the reason.
What is left of the implementation is a generator of projects, the layout of React
pages, translation to the formats of providers and databases, configuration, wiring,
prompts and wording: code that keeps no shared state and decides nothing that a
property could be about, which is why `map` stops well short of the whole of it. Of
a body only the kinds of its fields are modelled, not which texts and numbers pass.
ioredis' own resending of commands on reconnection is part of "the EVAL rejects or
is applied".

Of what has state, these are left out: a worker of `knowledge` that outlives its
job; the login of people and service clients (stateless); the rotation of keys,
which nothing calls; the memberships of people, which only the bootstrap writes; the
calls to other MCP servers; the spend of the budget document, which nothing
increments; the Python mirror of the executor, whose differences are listed above.
