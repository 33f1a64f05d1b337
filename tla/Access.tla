-------------------------------- MODULE Access --------------------------------
(***************************************************************************)
(* Who is let in, and to what: the consents to a shared store, the         *)
(* personal access tokens, the keys that every other token is signed with, *)
(* the version of an asset that runs see, and the decisions that are       *)
(* functions of what is asked: whom a token speaks for, the models and the *)
(* tools of a project, what a service makes of a call, what a screen of    *)
(* the console offers.  The five share no state; a behaviour moves one of  *)
(* them, while the others rest.                                            *)
(***************************************************************************)
EXTENDS Naturals, Sequences, SequencesExt, FiniteSets

CONSTANTS
  Parts,  \* of those that move
  Requests, Projects, Owner, Acl, Scenarios,
  Introspections, Revocations, Lifetime, TTL, MaxClock,
  Replicas, MaxBoots,
  Handlers, MaxVersions, Histories,
  Questions  \* of each kind

ASSUME AccessAssumption ==
  /\ Owner \in Projects
  /\ Lifetime \in Nat \ {0} /\ TTL \in Nat \ {0} /\ MaxClock \in Nat \ {0}
  /\ MaxBoots \in Nat /\ MaxVersions \in Nat \ {0}

\* Only projects that exist ask for anything.
ASSUME ScenarioAssumption ==
  \A s \in Scenarios :
    /\ DOMAIN s.does \subseteq Requests
    /\ \A r \in DOMAIN s.does : s.does[r].project \in Projects

\* A history starts with no asset, or with one that has versions up to its latest.
ASSUME HistoryAssumption ==
  \A h \in Histories :
    /\ h.asset \in [exists : BOOLEAN, published : 0 .. MaxVersions, draft : 0 .. MaxVersions, latest : 0 .. MaxVersions]
    /\ h.asset.published <= h.asset.latest /\ h.asset.draft <= h.asset.latest
    /\ h.asset.exists \/ h.asset.latest = 0
    /\ DOMAIN h.versions = 1 .. h.asset.latest
    /\ \A n \in DOMAIN h.versions :
         h.versions[n] \in [status : {"draft", "published", "deprecated"}, definition : SUBSET Handlers, revision : Nat \ {0}]
    /\ h.asset.published # 0 => h.versions[h.asset.published].status = "published"
    /\ DOMAIN h.does \subseteq Handlers
    /\ \A r \in DOMAIN h.does : h.does[r].op = "deprecate" => h.does[r].number \in 1 .. MaxVersions

VARIABLES
  part,
  scenario, visibility, subscriptions, request, offer, accepted,
  clock, pat, cache, call, current,
  key, replica, boots, signed,
  history, asset, versions, handler, announced, released,
  question, answer

Sharing == INSTANCE StoreSharing
Tokens == INSTANCE AccessTokens
Keys == INSTANCE SigningKeys
Registry == INSTANCE RegistryVersions
Auth == INSTANCE Authorisation
Models == INSTANCE ModelSelection
Tools == INSTANCE EffectiveTools
Written == INSTANCE Contracts
Client == INSTANCE Callers

sharing == <<scenario, visibility, subscriptions, request, offer, accepted>>
tokens == <<clock, pat, cache, call, current>>
keys == <<key, replica, boots, signed>>
releases == <<history, asset, versions, handler, announced, released>>
decisions == <<question, answer>>
vars == <<part, sharing, tokens, keys, releases, decisions>>

NotAsked == <<>>

Init ==
  /\ part \in Parts
  /\ Sharing!Init /\ Tokens!Init /\ Keys!Init /\ Registry!Init
  /\ part # "sharing" => scenario = CHOOSE s \in Scenarios : TRUE
  /\ part # "registry" => history = CHOOSE h \in Histories : TRUE
  /\ IF part = "decisions"
     THEN \E kind \in DOMAIN Questions : \E of \in Questions[kind] : question = [kind |-> kind, of |-> of]
     ELSE question = NotAsked
  /\ answer = NotAsked

Share(r) == part = "sharing" /\ Sharing!Handle(r) /\ UNCHANGED <<part, tokens, keys, releases, decisions>>
IssueToken == part = "tokens" /\ Tokens!Issue /\ UNCHANGED <<part, sharing, keys, releases, decisions>>
TimePasses == part = "tokens" /\ Tokens!Tick /\ UNCHANGED <<part, sharing, keys, releases, decisions>>
UseToken(c) == part = "tokens" /\ Tokens!Handle(c) /\ UNCHANGED <<part, sharing, keys, releases, decisions>>
RunReplica(r) == part = "keys" /\ Keys!Run(r) /\ UNCHANGED <<part, sharing, tokens, releases, decisions>>
Release(h) == part = "registry" /\ Registry!Handle(h) /\ UNCHANGED <<part, sharing, tokens, keys, decisions>>

Decided(kind, of) ==
  CASE kind = "claims" -> [language \in {"typescript", "python"} |-> Auth!Principal(language, of.claims)]
    [] kind = "models" -> Models!Selected(of)
    [] kind = "tools" -> [listed |-> Tools!Listed(of), calls |-> Tools!Calls(of)]
    [] kind = "operations" -> [kept |-> Written!Kept(of), unwritten |-> Written!Unwritten(of.service)]
    [] kind = "calls" -> Client!Served(of)
    [] kind = "screens" -> [shown |-> Client!Shown(of), taken |-> Client!Taken(of)]
    [] kind = "forms" -> Client!Saved(of)

Decide ==
  /\ part = "decisions" /\ answer = NotAsked
  /\ answer' = <<Decided(question.kind, question.of)>>
  /\ UNCHANGED <<part, sharing, tokens, keys, releases, question>>

Rest ==
  /\ \/ part = "sharing" /\ Sharing!Over
     \/ part = "tokens" /\ Tokens!Over
     \/ part = "keys" /\ Keys!Over
     \/ part = "registry" /\ Registry!Over
     \/ part = "decisions" /\ answer # NotAsked
  /\ UNCHANGED vars

Next ==
  \/ \E r \in Requests : Share(r)
  \/ IssueToken
  \/ TimePasses
  \/ \E c \in Introspections \cup Revocations : UseToken(c)
  \/ \E r \in Replicas : RunReplica(r)
  \/ \E h \in Handlers : Release(h)
  \/ Decide
  \/ Rest

Spec == Init /\ [][Next]_vars

-----------------------------------------------------------------------------

TypeOK == part \in Parts /\ Sharing!TypeOK /\ Tokens!TypeOK /\ Keys!TypeOK /\ Registry!TypeOK

\* A store that was withdrawn stays so for whoever accepted it before, though it is
\* offered again; and only its public documents cross to another project
\* (share-store.ts:51-53, security-trimming.ts:40-51).
StoresShared == TypeOK /\ Sharing!WithdrawnRevokes /\ Sharing!OnlyPublicCrosses

\* No token is said to be active a TTL after it was last usable, or found so; and an
\* introspection that read the token before its revocation, and saves its copy after
\* it, does not bring the token back (introspect-token.ts:15, 48,
\* pat.repository.ts:108-116).
RevocationHolds == []Tokens!ActiveIsRecent /\ [][pat.revoked => pat'.revoked]_vars

\* Whatever one replica signed, every replica's JWKS verifies
\* (signing-key.store.ts:18-31).
SignedStaysValid == Keys!SignedStaysValid

\* A run gets what was released under the number that it pins, and nothing resolves
\* to a version that was not announced, or was withdrawn
\* (get-published-version.ts:18-29, deprecate-version.ts:26-47).
VersionsResolve == Registry!RunsWhatWasReleased /\ Registry!PointerTellsTheTruth

\* What was published is frozen, whatever requests died between their two saves and
\* whichever draft is opened next, as long as requests come one at a time
\* (asset-version.ts:17-23).
PublishedFrozen ==
  [][history.patient =>
       \A n \in DOMAIN versions : Registry!Released(versions[n]) =>
         /\ versions'[n].status \in {"published", "deprecated"}
         /\ versions'[n].definition = versions[n].definition]_vars

\* The second of two editors of a draft does not overwrite the first, if both saw
\* the draft and their requests do not overlap (asset-version.ts:80-82).
EditsKept ==
  [][history.patient =>
       \A h \in Handlers :
         LET number == handler[h].number IN
         handler[h].pc = "saving" /\ handler'[h].pc # "saving" /\ handler[h].seen.version = number =>
           versions[number].definition \subseteq versions'[number].definition]_vars

\* No version loses what was written to it: not once it is released, nor before.
VersionsKept == PublishedFrozen /\ EditsKept

Answered(kind) == answer # NotAsked /\ question.kind = kind
Asked == question.of
Answer == answer[1]

\* Both families of services read one token alike, unless a claim is an empty text:
\* the same people are let into the same projects with the same roles, and classified
\* data reaches the same zones (aia_auth/__init__.py:31-36, authorization.ts:58-63).
VerdictsAgree ==
  Answered("claims") =>
    LET claims == Asked.claims
        given == {claims.scope} \cup UNION {{e.project_id} : e \in ToSet(claims.memberships)}
        ours == Answer["typescript"]
        theirs == Answer["python"]
        project == Asked.project
    IN Auth!Empty \notin given =>
         /\ ours.scopes = theirs.scopes
         /\ Auth!IsMember(ours, project) <=> Auth!RequireMembership(theirs, project)
         /\ Auth!RolesInProject(ours, project) = Auth!RolesIn(theirs, project)
         /\ Auth!RolesInProject(ours, project) \subseteq Auth!Roles
         /\ \A zone \in Auth!AllZones :
              zone \in Auth!ZonesByClassification(Asked.classification)
                <=> Auth!ZoneIsCompatible(Asked.classification, zone)

\* The list of models shows an alias exactly if the policy refuses none of its
\* capabilities; no provider is asked for more tokens than the request, the project and
\* the deployment allow, nor than the list says; deployments are tried by priority; and
\* vectors of one width come back, from someone whenever any deployment is usable.  With
\* no key but Ollama's, whoever allows the local zone is served
\* (model-selection-policy.ts:74-132, alias-catalog.ts:92-94).
ServedAsListed ==
  Answered("models") =>
    LET serves == {c \in {"chat", "embeddings", "tools"} : Models!Refusal(Asked, c) = "none"}
        tried == Answer.chat
        vectors == Answer.embeddings
        usable == Models!Usable(Asked, Models!Compatible(Asked, "embeddings"))
        limits == {Asked.requested, Asked.ceiling, Answer.max} \ {Models!NoLimit}
    IN /\ IF Answer.visible THEN serves = Asked.alias.capabilities ELSE serves = {}
       /\ \A i \in DOMAIN tried :
            /\ \A limit \in limits \cup {tried[i].deployment.max} : tried[i].tokens <= limit
            /\ \A j \in 1 .. i : tried[j].deployment.priority <= tried[i].deployment.priority
       /\ vectors = <<>> <=> usable = <<>>
       /\ \A i, j \in DOMAIN vectors :
            Models!NoWidth \notin {vectors[1].width, vectors[i].width, vectors[j].width} =>
              vectors[i].width = vectors[j].width
       /\ Asked.default /\ "local" \in Asked.zones /\ "ollama" \in Asked.keyed /\ Asked.allowed =>
            tried # <<>> \/ vectors # <<>>

\* A tool that is listed may be invoked, but for one of high risk by who does not own
\* the project, and only with the approval that the list says; one that may be invoked
\* and can run is listed, unless a tool of the registry has its name; and what an agent
\* calls is its own tool from this list, and searches a store of its own
\* (list-effective-tools.ts:26-33, conversation.py:62-119).
ListedIsInvocable ==
  Answered("tools") =>
    LET tools == ToSet(Asked.registry) \cup ToSet(Tools!BuiltinTools)
        decision(t) == Tools!Decision(Asked, t)
        views == ToSet(Answer.listed)
        owner == Auth!HasRole(Asked.principal, Asked.project, {"project_owner"})
    IN /\ Auth!IsMember(Asked.principal, Asked.project) =>
            \A v \in views : \E t \in tools :
              /\ v.id = t.id /\ v.approval = decision(t).approval /\ v.rate = decision(t).rate
              /\ ~decision(t).allowed => t.risk = "high" /\ ~owner
              /\ t.source = "platform" => decision(t).ready
       /\ \A t \in tools : decision(t).allowed /\ decision(t).ready =>
            \E v \in views : v.slug = t.slug /\ (v.id # t.id => t.source = "platform")
       /\ \A v, w \in views : v.slug = w.slug => v = w
       /\ \A v \in views, made \in Answer.calls :
            made.slug = v.slug =>
              /\ made.tool \in Asked.agent.tools \cup {Auth!Missing}
              /\ v.id \in Asked.agent.tools <=> made.tool = v.id
              /\ v.builtin = "file_search" /\ made.tool = v.id =>
                   made.blocked \/ made.store \in ToSet(Asked.agent.stores)

\* Every operation of the contracts but one lands on a route of its own, and no route is
\* left out of them; the project is named exactly where the guard wants it; and where a
\* service refuses what its contract allows, looks at less of it, or answers otherwise,
\* is known (packages/contracts/src/generated, auth.guard.ts:54-78).
ContractsKept ==
  Answered("operations") =>
    LET of == Asked
        operation == Written!Contracts[of.service][of.operation]
        is(those) == of.operation \in those
        lands == Answer.kept # Written!Unserved
        kept == Answer.kept[1]
    IN /\ Answer.unwritten = {}
       /\ lands <=> ~is({"deleteStore"})
       /\ lands =>
            /\ kept.route.path = operation.path
            /\ kept.route.guard = "project" <=> operation.header
            /\ kept.refused # {} <=> is({"issueToken", "createPat", "createConnection", "runEvaluation"})
            /\ kept.ignored # {} <=> is({"listEffectiveTools", "listConnections"})
            /\ kept.unannounced # {} <=> is({"deprecateVersion", "createEmbeddings"})
            /\ kept.broken # {} <=> is({"setProjectPolicy"})

\* Every call of the console, and of a service to another, lands on the route that it is
\* meant for, with the project that its guard wants; nothing of it is sent in vain; whoever
\* called can read whatever comes back; and what it sends is taken, except for a budget,
\* always, and a connection with no reference to its secret (platform-gateway.ts:135-137).
CallsAnswered ==
  Answered("calls") =>
    LET called == Client!Calls[Asked]
        served == Answer[1]
    IN /\ Answer # Client!Unserved
       /\ served.route.path = called.path
       /\ served.route.guard = "project" => called.header
       /\ served.refused # {} <=> Asked \in {"setBudget", "createConnection"}
       /\ served.ignored = {} /\ served.unread = {}

\* The console works out roles on its own, and yet offers a member of a project the very
\* controls that the services let that person use, unless a membership says what only a
\* global role can, that somebody is an administrator; except that it asks for documents
\* for a store that is only shared, where they are refused (session.ts:41-74,
\* store-workbench.tsx:119); and to join a store twice, or to leave one that was never
\* joined, would be let through as well.
OfferedIsAllowed ==
  Answered("screens") /\ Auth!IsMember(Asked.principal, Asked.project)
  /\ (\A m \in ToSet(Asked.principal.memberships) : "platform_admin" \notin m.roles) =>
    /\ Answer.shown \ Answer.taken =
         Answer.shown \cap IF Asked.store = "shared" THEN {"registerDocument", "completeUpload"} ELSE {}
    /\ Answer.taken \ Answer.shown \subseteq IF Asked.store = "shared" THEN {"subscribe"} ELSE {"unsubscribe"}

\* Saving the form of an agent changes only what the person changed: tools stay attached,
\* at their pins, though the gateway is down or a tool was switched off since; but not the
\* two settings that the form does not show, which every save loses
\* (agent-tools.ts:40-86, agent-workbench.tsx:172-186).
FormsKeep ==
  Answered("forms") =>
    LET before == ToSet(Asked.attached)
        after == ToSet(Answer.tools)
        tool(references) == {r.tool : r \in references}
        there == tool(before) \cup ToSet(Asked.attachable)
    IN /\ tool(after) = {t \in there : (t \in tool(before)) # (t \in Asked.toggled)}
       /\ \A b \in before : b.tool \in tool(after) => b \in after
       /\ Cardinality(tool(after)) = Len(Answer.tools)
       /\ Asked.settings \ Answer.settings = Asked.settings \cap {"top_p", "max_output_tokens"}

\* What is listed, shown, claimed, agreed or called is what is decided.
DecisionsAgree ==
  /\ VerdictsAgree /\ ServedAsListed /\ ListedIsInvocable
  /\ ContractsKept /\ CallsAnswered
  /\ OfferedIsAllowed /\ FormsKeep
=============================================================================
