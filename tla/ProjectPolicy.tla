---------------------------- MODULE ProjectPolicy ----------------------------
(***************************************************************************)
(* A project of apps/governance: its policy and its budget, two documents  *)
(* that administrators read, change in memory and save whole, each save    *)
(* with its event in one transaction and none with a version.  And its     *)
(* reader, HttpPolicyReader (apps/inference-router): each replica caches   *)
(* the policy for a short time, fetches it with a service token that its   *)
(* requests share, and falls back on what it knew when governance cannot   *)
(* be reached.                                                             *)
(*                                                                         *)
(*   idle -> [token ->] sending -> reading -> arriving -> served           *)
(*                           ... -> failing -> served | failed             *)
(*                                                                         *)
(* GetProjectPolicy reads the project and the budget one after the other.  *)
(* The scale of time is smaller than the real one: what matters is that a  *)
(* cached policy lives shorter than a day and a day than two.              *)
(*                                                                         *)
(* Left out: what no step depends on (names, alert thresholds, currencies) *)
(* and the spend of the budget document, which nothing in the repository   *)
(* ever increments: the ledger of the router is the one that counts.       *)
(***************************************************************************)
EXTENDS Integers, Sequences, FiniteSets

CONSTANTS
  Admins,             \* the administration requests
  Day, Month,         \* the lengths of the periods of a budget
  MaxTime,            \* bound on the clock
  Scenarios,          \* the time and the documents at the start, what is asked
  Requests, Replicas,
  Ttl, StaleTtl,      \* how long a policy is cached, and a fallback
  TwoDays,            \* what tells a monthly budget from a daily one
  TokenLife, Margin,  \* of a service token
  FetchTime           \* the timeouts of a fetch, with its token and its retries

ASSUME PolicyAssumption ==
  /\ Day \in Nat \ {0} /\ TwoDays = 2 * Day /\ Month \in Nat /\ Month > TwoDays
  /\ Ttl \in Nat \ {0} /\ StaleTtl \in Nat /\ FetchTime \in Nat /\ MaxTime \in Nat
  /\ Margin \in Nat /\ TokenLife \in Nat /\ TokenLife > Margin /\ Margin >= FetchTime

\* The documents, and the administrators who change them.
VARIABLES
  scenario,  \* never changes
  now,
  project,   \* the document in `projects`
  budget,    \* the document in `budgets`
  events,    \* what the transactions appended to the outbox
  admin,     \* where each request is, and its copies
  saves      \* for the properties: when, and as what, each document was saved

stores == <<project, budget, events, saves>>

Levels == {"public", "internal", "confidential", "restricted"}
Zones == {"local", "br", "us", "eu", "global"}

\* (DataClassification.allowedZones)
MaxZones(level) ==
  CASE level \in {"public", "internal"} -> Zones
    [] level = "confidential"           -> {"local", "br"}
    [] level = "restricted"             -> {"local"}

Projects == [version : Nat, zones : SUBSET Zones, capture : BOOLEAN,
             rules : Nat, concurrency : Nat]
NoProject == [version |-> 0, zones |-> {}, capture |-> FALSE, rules |-> 0, concurrency |-> 0]

Kinds == {"daily", "monthly"}
Budgets == [period : Kinds \cup {"none"}, start : Nat, limit : Nat, block : BOOLEAN]
NoBudget == [period |-> "none", start |-> 0, limit |-> 0, block |-> FALSE]

Length(period) == IF period = "daily" THEN Day ELSE Month
StartOfPeriod(period, t) == t - (t % Length(period))
PeriodEnd(b) == b.start + Length(b.period)

\* The documents at the start are ones the platform can have saved, and what is asked
\* is what the edge lets in.
ASSUME SituationAssumption ==
  \A s \in Scenarios :
    /\ s.start \in Nat /\ s.until \in Nat /\ s.start <= s.until /\ s.until <= MaxTime
    /\ s.level \in Levels
    /\ s.project # NoProject =>
         /\ s.project \in Projects /\ s.project.version > 0
         /\ s.project.zones # {} /\ s.project.zones \subseteq MaxZones(s.level)
         /\ s.project.capture => s.level # "restricted"
    /\ s.budget # NoBudget =>
         /\ s.budget \in Budgets /\ s.budget.period \in Kinds
         /\ s.budget.start <= s.start /\ StartOfPeriod(s.budget.period, s.budget.start) = s.budget.start
    /\ DOMAIN s.host \subseteq Requests /\ \A r \in DOMAIN s.host : s.host[r] \in Replicas
    /\ DOMAIN s.asked \subseteq Admins
    /\ \A a \in DOMAIN s.asked :
         LET op == s.asked[a].op cmd == s.asked[a].change IN
         /\ op = "policy" =>
              /\ IsFiniteSet(DOMAIN cmd)
              /\ "capture" \in DOMAIN cmd => cmd.capture \in BOOLEAN
              /\ "rules" \in DOMAIN cmd => cmd.rules \in Nat
              /\ "concurrency" \in DOMAIN cmd => cmd.concurrency \in Nat
         /\ op = "budget" =>
              /\ cmd.period \in Kinds /\ cmd.limit \in Nat
              /\ "block" \in DOMAIN cmd => cmd.block \in BOOLEAN

\* isExpired and rollOver, which are always called together.
RolledOver(b) ==
  IF b # NoBudget /\ now >= PeriodEnd(b)
  THEN [b EXCEPT !.start = StartOfPeriod(b.period, now)]
  ELSE b

GovernanceInit ==
  /\ scenario \in Scenarios
  /\ now = scenario.start
  /\ project = scenario.project
  /\ budget = scenario.budget
  /\ events = <<>>
  /\ admin = [a \in Admins |-> [pc |-> "idle", project |-> NoProject, budget |-> NoBudget]]
  /\ saves = [project |-> IF project = NoProject THEN <<>> ELSE <<[at |-> now, doc |-> project]>>,
              budget  |-> IF budget = NoBudget THEN <<>> ELSE <<[at |-> now, doc |-> budget]>>]

-----------------------------------------------------------------------------

Asked(a, op) == a \in DOMAIN scenario.asked /\ scenario.asked[a].op = op
Command(a) == scenario.asked[a].change
At(a, label) == admin[a].pc = label
Goes(a, label) == admin' = [admin EXCEPT ![a].pc = label]

\* An optional field of a command, and what it stands for when it is left out.
Given(cmd, field, default) == IF field \in DOMAIN cmd THEN cmd[field] ELSE default

\* The transaction: the document and its event.
SaveProject(doc, event) ==
  /\ project' = doc
  /\ events' = Append(events, event)
  /\ saves' = [saves EXCEPT !.project = Append(@, [at |-> now, doc |-> doc])]
  /\ UNCHANGED budget

SaveBudgetDocument(doc, event) ==
  /\ budget' = doc
  /\ events' = Append(events, event)
  /\ saves' = [saves EXCEPT !.budget = Append(@, [at |-> now, doc |-> doc])]
  /\ UNCHANGED project

\* CreateProject: the lookup by slug, all requests asking for the same one.
LookUpSlug(a) ==
  /\ Asked(a, "create") /\ At(a, "idle")
  /\ Goes(a, IF project = NoProject THEN "creating" ELSE "refused")
  /\ UNCHANGED <<scenario, now, stores>>

NewProject ==
  [version |-> 1, zones |-> MaxZones(scenario.level), capture |-> FALSE,
   rules |-> 0, concurrency |-> 20]

\* The unique index on `slug` rejects the second project.
Create(a) ==
  /\ At(a, "creating")
  /\ IF project = NoProject
     THEN SaveProject(NewProject, [type |-> "created", version |-> 1]) /\ Goes(a, "done")
     ELSE Goes(a, "refused") /\ UNCHANGED stores
  /\ UNCHANGED <<scenario, now>>

\* (A mistake, for the mutant runs: a policy may widen what the level allows.)
RestrictToAsIs(requested) == requested

RestrictTo(requested) == MaxZones(scenario.level) \cap requested

\* What the setters of Project throw on.
Valid(cmd) ==
  /\ "zones" \in DOMAIN cmd => RestrictTo(cmd.zones) # {}
  /\ Given(cmd, "concurrency", 1) >= 1
  /\ Given(cmd, "capture", FALSE) => scenario.level # "restricted"

\* The setters SetProjectPolicy calls, each of which touches the version.
Changed(doc, cmd) ==
  [version     |-> doc.version + Cardinality(DOMAIN cmd),
   zones       |-> IF "zones" \in DOMAIN cmd THEN RestrictTo(cmd.zones) ELSE doc.zones,
   capture     |-> Given(cmd, "capture", doc.capture),
   rules       |-> Given(cmd, "rules", doc.rules),
   concurrency |-> Given(cmd, "concurrency", doc.concurrency)]

\* SetProjectPolicy, up to the save.
ReadForPolicy(a) ==
  /\ Asked(a, "policy") /\ At(a, "idle")
  /\ admin' = [admin EXCEPT ![a] =
       IF project = NoProject \/ ~Valid(Command(a)) THEN [@ EXCEPT !.pc = "refused"]
       ELSE [@ EXCEPT !.pc = "saving policy", !.project = Changed(project, Command(a))]]
  /\ UNCHANGED <<scenario, now, stores>>

\* (A mistake, for the mutant runs: the event takes the version that was read.)
SavePolicyOutOfStep(a) ==
  /\ At(a, "saving policy")
  /\ SaveProject(admin[a].project,
       [type |-> "policy", version |-> admin[a].project.version - Cardinality(DOMAIN Command(a))])
  /\ Goes(a, "done")
  /\ UNCHANGED <<scenario, now>>

SavePolicy(a) ==
  /\ At(a, "saving policy")
  /\ SaveProject(admin[a].project, [type |-> "policy", version |-> admin[a].project.version])
  /\ Goes(a, "done")
  /\ UNCHANGED <<scenario, now>>

\* SetBudget: the project must exist; then the budget is read.
CheckProject(a) ==
  /\ Asked(a, "budget") /\ At(a, "idle")
  /\ Goes(a, IF project = NoProject THEN "refused" ELSE "budgeting")
  /\ UNCHANGED <<scenario, now, stores>>

\* The period of an existing budget is never changed.
Updated(b, cmd) ==
  IF b = NoBudget
  THEN [period |-> cmd.period, start |-> StartOfPeriod(cmd.period, now),
        limit |-> cmd.limit, block |-> Given(cmd, "block", TRUE)]
  ELSE [RolledOver(b) EXCEPT !.limit = cmd.limit, !.block = Given(cmd, "block", @)]

ReadBudget(a) ==
  /\ At(a, "budgeting")
  /\ admin' = [admin EXCEPT ![a].pc = "saving budget", ![a].budget = Updated(budget, Command(a))]
  /\ UNCHANGED <<scenario, now, stores>>

\* The event tells the period of the command.
SaveBudget(a) ==
  LET b == admin[a].budget IN
  /\ At(a, "saving budget")
  /\ SaveBudgetDocument(b, [type |-> "budget", limit |-> b.limit, block |-> b.block,
                            period |-> Command(a).period])
  /\ Goes(a, "done")
  /\ UNCHANGED <<scenario, now>>

\* Mongo rejects a read or a transaction: nothing is written.
AdminFails(a) ==
  /\ "mongo" \in scenario.faults
  /\ admin[a].pc \notin {"idle", "done", "refused"}
  /\ Goes(a, "refused")
  /\ UNCHANGED <<scenario, now, stores>>

Administer(a) ==
  \/ LookUpSlug(a) \/ Create(a)
  \/ ReadForPolicy(a) \/ SavePolicy(a)
  \/ CheckProject(a) \/ ReadBudget(a) \/ SaveBudget(a)
  \/ AdminFails(a)

-----------------------------------------------------------------------------

\* The type invariant of the governance side.
GovernanceTypeOK ==
  /\ scenario \in Scenarios
  /\ now \in 0 .. MaxTime
  /\ project \in Projects
  /\ budget \in Budgets
  /\ \A a \in Admins : admin[a].project \in Projects /\ admin[a].budget \in Budgets

\* The last event of some types.
IsLast(i, types) ==
  events[i].type \in types /\ \A j \in i + 1 .. Len(events) : events[j].type \notin types

\* Whoever follows the outbox knows the documents: the last event about a
\* document tells what is stored of it, whichever administrators raced, and a
\* project is created once (project.repository.ts:127-133).
EventsTellTheStore ==
  \A i \in DOMAIN events :
    /\ IsLast(i, {"created", "policy"}) => events[i].version = project.version
    /\ IsLast(i, {"budget"}) => events[i].limit = budget.limit /\ events[i].block = budget.block
    /\ \A j \in DOMAIN events : events[i].type = "created" /\ events[j].type = "created" => i = j

\* A policy narrows what the level allows and never widens it, and a restricted
\* project records no content, whoever else saved in between
\* (data-classification.ts:9-14, project.ts:151-156).
PolicyWithinLevel ==
  /\ project.zones \subseteq MaxZones(scenario.level)
  /\ project # NoProject => project.zones # {}
  /\ project.capture => scenario.level # "restricted"

-----------------------------------------------------------------------------
\* The readers of the router.

VARIABLES
  cache,     \* of each replica
  token,     \* of each replica: `expiresAt`, and whether it is being fetched
  call,      \* where each request is, and what it holds
  failedAt   \* for the properties: when a fetch of the replica last failed

governance == <<stores, admin>>
router == <<cache, token, call, failedAt>>
vars == <<scenario, now, governance, router>>

NoKey == <<"no-budget", 0>>

\* A PolicyResult: the key of its counters and its flag; of the policy itself,
\* which save of each document it is (`readAt`, `kind`: for the properties).
NoPolicy == [project |-> 0, budget |-> 0, key |-> NoKey, stale |-> FALSE,
             readAt |-> 0, kind |-> "none"]
NoEntry == [value |-> NoPolicy, expires |-> 0]

Asking == [pc |-> "idle", since |-> 0, seen |-> NoEntry, token |-> 0,
           project |-> 0, budget |-> NoBudget, value |-> NoPolicy, at |-> 0]

Init ==
  /\ GovernanceInit
  /\ cache = [p \in Replicas |-> NoEntry]
  /\ token = [p \in Replicas |-> [expires |-> 0, fetching |-> FALSE]]
  /\ call = [r \in Requests |-> Asking]
  /\ failedAt = [p \in Replicas |-> 0]

HostOf(r) == scenario.host[r]
On(r, label) == call[r].pc = label
Failed == [Asking EXCEPT !.pc = "failed"]
Failing(c) == [Asking EXCEPT !.pc = "failing", !.seen = c.seen]

Serves(r, value) ==
  call' = [call EXCEPT ![r] = [Asking EXCEPT !.pc = "served", !.value = value, !.at = now]]

InFlight == {"token", "sending", "reading", "arriving"}

-----------------------------------------------------------------------------

\* (A mistake, for the mutant runs: no margin.)
TokenUsableToTheEnd(p) == now < token[p].expires + Margin

\* (ServiceTokenProvider.get)
TokenUsable(p) == now < token[p].expires

\* forProject: the cache, or the token, which is fetched once for all who wait.
LookUp(r) ==
  LET p == HostOf(r) entry == cache[p] IN
  /\ r \in DOMAIN scenario.host
  /\ On(r, "idle")
  /\ IF entry # NoEntry /\ entry.expires > now
     THEN Serves(r, entry.value) /\ UNCHANGED token
     ELSE /\ call' = [call EXCEPT ![r] =
               [@ EXCEPT !.seen = entry, !.since = now, !.token = token[p].expires + Margin,
                         !.pc = IF TokenUsable(p) THEN "sending" ELSE "token"]]
          /\ token' = [token EXCEPT ![p].fetching = @ \/ ~TokenUsable(p)]
  /\ UNCHANGED <<scenario, now, governance, cache, failedAt>>

Waiting(p) == {r \in DOMAIN scenario.host : HostOf(r) = p /\ On(r, "token")}

TokenArrives(p) ==
  /\ token[p].fetching
  /\ token' = [token EXCEPT ![p] = [expires |-> now + TokenLife - Margin, fetching |-> FALSE]]
  /\ call' = [r \in Requests |->
                IF r \in Waiting(p)
                THEN [call[r] EXCEPT !.pc = "sending", !.token = now + TokenLife] ELSE call[r]]
  /\ UNCHANGED <<scenario, now, governance, cache, failedAt>>

\* (A mistake, for the mutant runs: the fetch that failed is waited for again.)
TokenFailsForGood(p) ==
  /\ "identity" \in scenario.faults
  /\ token[p].fetching
  /\ call' = [r \in Requests |->
                IF r \in Waiting(p) THEN Failing(call[r]) ELSE call[r]]
  /\ failedAt' = [failedAt EXCEPT ![p] = now]
  /\ UNCHANGED <<scenario, now, governance, cache, token>>

\* Identity does not answer: everyone who waited fails.
TokenFails(p) ==
  /\ "identity" \in scenario.faults
  /\ token[p].fetching
  /\ token' = [token EXCEPT ![p].fetching = FALSE]
  /\ call' = [r \in Requests |->
                IF r \in Waiting(p) THEN Failing(call[r]) ELSE call[r]]
  /\ failedAt' = [failedAt EXCEPT ![p] = now]
  /\ UNCHANGED <<scenario, now, governance, cache>>

\* GetProjectPolicy: its first read; a project that does not exist is a 404.
GetProject(r) ==
  /\ On(r, "sending")
  /\ call' = [call EXCEPT ![r] =
       IF project = NoProject THEN Failed
       ELSE [@ EXCEPT !.pc = "reading", !.project = Len(saves.project), !.token = 0]]
  /\ UNCHANGED <<scenario, now, governance, cache, token, failedAt>>

\* (A mistake, for the mutant runs: the expired period is sent as it is.)
PeriodInForceStored(b) == b

\* The budget is rolled over in memory only.
PeriodInForce(b) == RolledOver(b)

\* GetProjectPolicy: its second read, and the answer.
GetBudget(r) ==
  /\ On(r, "reading")
  /\ call' = [call EXCEPT ![r] =
       [@ EXCEPT !.pc = "arriving", !.budget = PeriodInForce(budget),
                 !.value = [NoPolicy EXCEPT !.project = call[r].project, !.budget = Len(saves.budget),
                                            !.readAt = now, !.kind = budget.period]]]
  /\ UNCHANGED <<scenario, now, governance, cache, token, failedAt>>

\* periodKeyFrom: the month or the day the period ends in.  The answer tells the
\* end of the period and not its kind, which is taken from the time that is left.
PeriodKey(b) ==
  IF b = NoBudget THEN NoKey
  ELSE IF PeriodEnd(b) - now > TwoDays THEN <<"month", PeriodEnd(b) \div Month>>
  ELSE <<"day", PeriodEnd(b) \div Day>>

Cached(p, value, t) == cache' = [cache EXCEPT ![p] = [value |-> value, expires |-> now + t]]

\* toPolicyResult; the policy is cached from now on, however old it is by now.
Arrive(r) ==
  LET value == [call[r].value EXCEPT !.key = PeriodKey(call[r].budget)] IN
  /\ On(r, "arriving")
  /\ Serves(r, value)
  /\ Cached(HostOf(r), value, Ttl)
  /\ UNCHANGED <<scenario, now, governance, token, failedAt>>

\* Governance does not answer, or answers neither 200 nor 404.
FetchFails(r) ==
  /\ "governance" \in scenario.faults
  /\ call[r].pc \in {"sending", "reading", "arriving"}
  /\ call' = [call EXCEPT ![r] = Failing(@)]
  /\ failedAt' = [failedAt EXCEPT ![HostOf(r)] = now]
  /\ UNCHANGED <<scenario, now, governance, cache, token>>

\* (A mistake, for the mutant runs: the fallback is not flagged.)
FlaggedNot(value) == value

Flagged(value) == [value EXCEPT !.stale = TRUE]

\* (A mistake, for the mutant runs: the fallback does not end.)
FallBackForGood(r) ==
  /\ On(r, "failing")
  /\ IF call[r].seen = NoEntry
     THEN call' = [call EXCEPT ![r] = Failed] /\ UNCHANGED cache
     ELSE LET value == Flagged(call[r].seen.value) IN
          Serves(r, value) /\ Cached(HostOf(r), value, scenario.until)
  /\ UNCHANGED <<scenario, now, governance, token, failedAt>>

\* The fallback: what this request saw in the cache before it fetched.
FallBack(r) ==
  /\ On(r, "failing")
  /\ IF call[r].seen = NoEntry
     THEN call' = [call EXCEPT ![r] = Failed] /\ UNCHANGED cache
     ELSE LET value == Flagged(call[r].seen.value) IN
          Serves(r, value) /\ Cached(HostOf(r), value, StaleTtl)
  /\ UNCHANGED <<scenario, now, governance, token, failedAt>>

Ended(r) == r \notin DOMAIN scenario.host \/ call[r].pc \in {"served", "failed"}

\* Timeouts: no fetch takes longer than FetchTime; a fallback takes no time.
Tick ==
  /\ now < scenario.until
  /\ \A r \in Requests : ~On(r, "failing")
  /\ \A r \in Requests : call[r].pc \in InFlight => now < call[r].since + FetchTime
  /\ now' = now + 1
  /\ UNCHANGED <<scenario, governance, router>>

Ask(r) == LookUp(r) \/ GetProject(r) \/ GetBudget(r) \/ Arrive(r) \/ FetchFails(r) \/ FallBack(r)

AllDone ==
  /\ \A r \in Requests : Ended(r)
  /\ \A a \in DOMAIN scenario.asked : admin[a].pc \in {"done", "refused"}

Rest == AllDone /\ UNCHANGED vars

Next ==
  \/ \E a \in Admins : Administer(a) /\ UNCHANGED router
  \/ \E r \in Requests : Ask(r)
  \/ \E p \in Replicas : TokenArrives(p) \/ TokenFails(p)
  \/ Tick
  \/ Rest

Spec == Init /\ [][Next]_vars

-----------------------------------------------------------------------------

PolicyType == [project : Nat, budget : Nat, key : {"no-budget", "month", "day"} \X Nat,
               stale : BOOLEAN, readAt : 0 .. MaxTime, kind : Kinds \cup {"none"}]

\* The types of everything, and what a waiting request waits for: a fetch of the
\* token under way, at most one for a replica.
TypeOK ==
  /\ GovernanceTypeOK
  /\ \A p \in Replicas : cache[p].value \in PolicyType
  /\ \A p \in Replicas : token[p].fetching <=> Waiting(p) # {}
  /\ \A r \in Requests :
       /\ call[r].pc \in InFlight \cup {"idle", "failing", "served", "failed"}
       /\ call[r].value \in PolicyType

Served == {call[r].value : r \in {r \in Requests : On(r, "served")}}
Known == Served \cup {cache[p].value : p \in Replicas}

\* A policy served without the flag was in force less than a TTL and the time of
\* a fetch ago: both of its documents, whatever answers overtook each other
\* (http-policy-reader.ts:44-46).
UnflaggedIsRecent ==
  \A r \in Requests : On(r, "served") /\ ~call[r].value.stale =>
    /\ \A i \in call[r].value.project + 1 .. Len(saves.project) :
         saves.project[i].at > call[r].at - Ttl - FetchTime
    /\ \A i \in call[r].value.budget + 1 .. Len(saves.budget) :
         saves.budget[i].at > call[r].at - Ttl - FetchTime

\* Once governance answers again the flag does not linger: whoever is served a
\* flagged policy, a fetch of the same replica failed shortly before
\* (http-policy-reader.ts:84-86).
FlaggedAfterFailure ==
  \A r \in Requests : On(r, "served") /\ call[r].value.stale =>
    call[r].at - failedAt[HostOf(r)] <= StaleTtl

\* The counters of one period are not used for the next, nor exchanged for others
\* within it, whoever was late (get-project-policy.ts:33-37): policies of one kind
\* of budget have one key exactly if they were read in one period, but for the
\* last two days of a month, which the reader takes for days.
OneKeyPerPeriod ==
  \A v, w \in {v \in Known : v.kind \in Kinds} : v.kind = w.kind =>
    LET start(u) == StartOfPeriod(u.kind, u.readAt)
        clear(u) == \/ u.kind = "daily"
                    \/ start(u) + Month - u.readAt > TwoDays + FetchTime
    IN  /\ v.key = w.key => start(v) = start(w)
        /\ start(v) = start(w) /\ clear(v) /\ clear(w) => v.key = w.key

\* A token does not expire on the way: it is sent with a margin that outlasts
\* the fetch, whoever it was fetched for (service-token.ts:28-30).
TokenOutlivesFetch ==
  \A r \in Requests : On(r, "sending") => call[r].token > now

\* What a request is served from a cache is as recent as it says, the token that
\* goes with it included.
CachedIsRecent == UnflaggedIsRecent /\ FlaggedAfterFailure /\ TokenOutlivesFetch

\* What administrators decided is what is stored, announced and allowed.
StoredAsDecided == TypeOK /\ EventsTellTheStore /\ PolicyWithinLevel
=============================================================================
