------------------------------- MODULE Callers -------------------------------
(***************************************************************************)
(* What is called of whom over HTTP, and what is read in the answer: the   *)
(* gateways of the console, and the clients that the services have of each *)
(* other.  A field that may be missing is read with a default.             *)
(*                                                                         *)
(* Then what the console decides by itself: which of these calls it offers *)
(* to whom, from roles it works out on its own, next to who the services   *)
(* let in; and what its form for the draft of an agent sends back of what  *)
(* it read.  A screen is [principal, project, store]: a store is the       *)
(* project's "own", "shared" with it, or "offered" in the catalogue.  A    *)
(* form is [attached, attachable, toggled, settings]: references           *)
(* [tool, version], the tools on offer, the boxes the person clicks, the   *)
(* settings given.                                                         *)
(***************************************************************************)
EXTENDS Shapes, SequencesExt

Serving == INSTANCE Services
Auth == INSTANCE Authorisation

\* A call names the project in the X-Project-Id header, or not.
Call(to, method, path, header, sends, reads) ==
  [to |-> to, method |-> method, path |-> path, header |-> header, sends |-> sends, reads |-> reads]
Asks(to, path, header, reads) == Call(to, "GET", path, header, Nothing, {reads})

Items(shape) == Under("items", shape)
Anything(names) == Of(names, Others \cup {"text"})
RiskLevels == {"low", "medium", "high"}

-----------------------------------------------------------------------------

RawProject ==
  Texts({"id", "slug", "name", "data_classification", "created_at"}) @@ Maybe(Texts({"description", "legal_basis", "purpose"}))
Amount(name) == Under(name, Texts({"currency"}) @@ Of({"micros"}, {"number", "text"}))
RawBudget ==
  Texts({"project_id", "period_start", "period_end"}) @@ Amount("limit") @@ Amount("spent") @@ Maybe(Amount("reserved"))
  @@ "period" :> {"daily", "monthly"} @@ Maybe(Booleans({"block_at_limit"}))

ProjectsPath == <<"v1", "projects">>
ProjectPath == ProjectsPath \o <<Id>>

SignIn ==
  Call("identity", "POST", <<"v1", "auth", "token">>, FALSE, {"grant_type" :> {"password"} @@ Texts({"username", "password"})},
       {Texts({"access_token"}) @@ Numbers({"expires_in"})})
CurrentPrincipal ==
  Asks("identity", <<"v1", "me">>, FALSE,
       Texts({"id", "type"}) @@ Maybe(Texts({"email", "display_name", "memberships.project_id"})
                                      @@ Lists({"global_roles", "memberships.roles"})))
ListProjects == Asks("governance", ProjectsPath, FALSE, Items(RawProject))
GetProject == Asks("governance", ProjectPath, FALSE, RawProject)
CreateProject ==
  Call("governance", "POST", ProjectsPath, FALSE,
       {Texts({"slug", "name", "legal_basis", "purpose"}) @@ Maybe(Texts({"description"}))
        @@ "data_classification" :> {"public", "internal", "confidential", "restricted"}}, {RawProject})
GetBudget == Asks("governance", ProjectPath \o <<"budget">>, FALSE, RawBudget)

\* The micros travel as a text.
SetBudget ==
  Call("governance", "PUT", ProjectPath \o <<"budget">>, FALSE,
       {Texts({"limit.currency", "limit.micros"}) @@ "period" :> {"daily", "monthly"} @@ Booleans({"block_at_limit"})},
       {RawBudget})
GetPolicy ==
  Asks("governance", ProjectPath \o <<"policy">>, FALSE,
       Texts({"project_id", "data_classification"}) @@ Lists({"allowed_data_zones"}) @@ Numbers({"version"})
       @@ Maybe(Numbers({"max_concurrent_requests"}) @@ Booleans({"content_capture"})))
ListModels ==
  Asks("inference-router", <<"v1", "models">>, TRUE,
       Under("data", Texts({"id"}) @@ Maybe(Texts({"description"}) @@ Lists({"capabilities", "data_zones"})
                                            @@ Numbers({"max_output_tokens"}))))
StreamChat ==
  Call("inference-router", "POST", <<"v1", "chat", "completions">>, TRUE,
       {Texts({"model", "messages.content"}) @@ "messages.role" :> {"system", "user", "assistant"} @@ "stream" :> {"true"}
        @@ Maybe(Numbers({"max_tokens"}))}, {Events})

PlatformGateway ==
  "signIn" :> SignIn @@ "currentPrincipal" :> CurrentPrincipal @@ "listProjects" :> ListProjects @@ "getProject" :> GetProject
  @@ "createProject" :> CreateProject @@ "getBudget" :> GetBudget @@ "setBudget" :> SetBudget @@ "getPolicy" :> GetPolicy
  @@ "listModels" :> ListModels @@ "streamChat" :> StreamChat

-----------------------------------------------------------------------------

Assets == <<"v1", "assets">>
AssetKinds == {"agent", "tool", "prompt"}
ToolTypes == {"mcp", "openapi", "function", "builtin"}
RawAsset ==
  Texts({"id", "slug", "name"}) @@ "kind" :> AssetKinds @@ Maybe(Texts({"description", "updated_at"}))
  @@ Maybe(OrNull(Numbers({"published_version", "draft_version"})))

\* fromWireDefinition and toWireDefinition
ReadDefinitions ==
  {"kind" :> {"tool"} @@ "tool_type" :> ToolTypes @@ "risk_level" :> RiskLevels @@ Anything({"endpoint", "builtin_id"}),
   "kind" :> {"prompt"} @@ Anything({"template", "variables"}),
   "kind" :> {"agent"} @@ Anything({"instructions", "model_alias", "tools.asset_id", "tools.version", "knowledge.store_id",
                                    "temperature", "top_p", "max_output_tokens"})}
WrittenDefinitions ==
  {"kind" :> {"agent"} @@ Texts({"instructions", "model_alias"})
   @@ Maybe(Texts({"tools.asset_id", "knowledge.store_id"}) @@ OrNull(Numbers({"tools.version"}))
            @@ Numbers({"temperature", "top_p", "max_output_tokens"})),
   "kind" :> {"tool"} @@ "tool_type" :> ToolTypes @@ "risk_level" :> RiskLevels
   @@ Maybe(Texts({"endpoint"}) @@ "builtin_id" :> Serving!BuiltinTools),
   "kind" :> {"prompt"} @@ Texts({"template"}) @@ Lists({"variables"})}
RawVersions ==
  {Texts({"asset_id"}) @@ Numbers({"version", "revision"}) @@ "status" :> {"draft", "published", "deprecated"}
   @@ Maybe(Texts({"updated_at"}) @@ OrNull(Texts({"published_at"}))) @@ Under("definition", d) : d \in ReadDefinitions}

ListAssets == Call("registry", "GET", Assets, TRUE, {"kind" :> {"absent"} \cup AssetKinds}, {Items(RawAsset)})
GetAsset ==
  Call("registry", "GET", Assets \o <<Id>>, TRUE, Nothing, {RawAsset @@ Maybe(Under("versions", v)) : v \in RawVersions})
CreateAsset ==
  Call("registry", "POST", Assets, TRUE,
       {"kind" :> AssetKinds @@ Texts({"slug", "name"}) @@ Maybe(Texts({"description"})) @@ Under("definition", d) :
          d \in WrittenDefinitions}, RawVersions)
UpdateDraft ==
  Call("registry", "PUT", Assets \o <<Id, "draft">>, TRUE,
       {Numbers({"expected_version"}) @@ Maybe(Texts({"name"})) @@ Under("definition", d) : d \in WrittenDefinitions}, RawVersions)
Publish == Call("registry", "POST", Assets \o <<Id, "versions">>, TRUE, Nothing, RawVersions)

RegistryGateway ==
  "listAssets" :> ListAssets @@ "getAsset" :> GetAsset @@ "createAsset" :> CreateAsset @@ "updateDraft" :> UpdateDraft
  @@ "publish" :> Publish

-----------------------------------------------------------------------------

Stores == <<"v1", "stores">>
Store == Stores \o <<Id>>
RawStore ==
  Texts({"id", "project_id", "slug", "name", "embedding_alias", "embedding_model", "chunking.kind"})
  @@ Numbers({"dimensions", "document_count", "chunking.max_tokens", "chunking.overlap_tokens"})
  @@ Maybe("visibility" :> {"private", "public"} @@ "access" :> {"owner", "shared"} @@ Booleans({"subscribed"})
           @@ Texts({"description", "updated_at"}))
RawDocument ==
  Texts({"id", "store_id", "title", "mime_type", "created_at"}) @@ Numbers({"size_bytes", "chunk_count"})
  @@ OrNull(Texts({"error_code", "ingested_at"}))
  @@ "status" :> {"pending", "parsing", "chunking", "embedding", "indexing", "ingested", "failed"}
RawHit ==
  Texts({"document_id", "document_title", "text"}) @@ Numbers({"chunk_index", "score"})
  @@ Maybe("retrieval" :> {"vector", "text", "both"} @@ Numbers({"vector_score"}))

ListStores == Asks("knowledge", Stores, TRUE, Items(RawStore))
GetStore == Asks("knowledge", Store, TRUE, RawStore)
CreateStore ==
  Call("knowledge", "POST", Stores, TRUE,
       {Texts({"slug", "name", "embedding_alias"})
        @@ Maybe(Texts({"description", "chunking.kind"}) @@ Numbers({"chunking.max_tokens", "chunking.overlap_tokens"}))},
       {RawStore})
ListDocuments == Asks("knowledge", Store \o <<"documents">>, TRUE, Items(RawDocument))
RegisterDocument ==
  Call("knowledge", "POST", Store \o <<"documents">>, TRUE, {Texts({"title", "mime_type"}) @@ Numbers({"size_bytes"})},
       {Under("document", RawDocument) @@ Texts({"upload_url"})})
CompleteUpload == Call("knowledge", "POST", Store \o <<"documents", Id, "complete">>, TRUE, Nothing, {RawDocument})
DeleteDocument == Call("knowledge", "DELETE", Store \o <<"documents", Id>>, TRUE, Nothing, {Empty})
SearchStore ==
  Call("knowledge", "POST", Store \o <<"search">>, TRUE,
       {Texts({"query"}) @@ Numbers({"top_k"}) @@ Maybe("mode" :> {"vector", "hybrid"})}, {Under("results", RawHit)})
\* (A mistake, for the mutant runs: the name that the word has elsewhere.)
ListCatalog == Asks("knowledge", Stores \o <<"catalog">>, TRUE, Items(RawStore))
ListCatalogue == Asks("knowledge", Stores \o <<"catalogue">>, TRUE, Items(RawStore))
SetVisibility ==
  Call("knowledge", "PUT", Store \o <<"visibility">>, TRUE, {"visibility" :> {"private", "public"}}, {RawStore})
Subscribe == Call("knowledge", "PUT", Store \o <<"subscription">>, TRUE, Nothing, {RawStore})
Unsubscribe == Call("knowledge", "DELETE", Store \o <<"subscription">>, TRUE, Nothing, {Empty})

KnowledgeGateway ==
  "listStores" :> ListStores @@ "getStore" :> GetStore @@ "createStore" :> CreateStore @@ "listDocuments" :> ListDocuments
  @@ "registerDocument" :> RegisterDocument @@ "completeUpload" :> CompleteUpload @@ "deleteDocument" :> DeleteDocument
  @@ "search" :> SearchStore @@ "listCatalogue" :> ListCatalogue @@ "setVisibility" :> SetVisibility
  @@ "subscribe" :> Subscribe @@ "unsubscribe" :> Unsubscribe

-----------------------------------------------------------------------------

Connections == <<"v1", "connections">>
RawBinding == Texts({"tool_id"}) @@ Booleans({"enabled"}) @@ OrNull(Numbers({"rate_limit_per_minute"}) @@ Booleans({"require_approval"}))
RawTool ==
  Texts({"tool_id", "slug", "name"}) @@ "tool_type" :> ToolTypes @@ "risk_level" :> RiskLevels @@ Booleans({"requires_approval"})
  @@ OrNull(Numbers({"rate_limit_per_minute"})) @@ Maybe(Texts({"description"}) @@ "source" :> {"registry", "platform"})
RawBuiltinTool ==
  Texts({"tool_id", "slug", "name", "description", "builtin_id"}) @@ "risk_level" :> RiskLevels @@ "data_zone" :> {"local", "global"}
  @@ Booleans({"enabled", "available", "requires_approval"}) @@ Maybe(OrNull(Texts({"unavailable_reason"})))
  @@ Numbers({"rate_limit_per_minute"})
RawConnection ==
  Texts({"id", "slug", "name", "header", "secret_ref"}) @@ "kind" :> {"bearer", "api_key", "basic", "none"}
  @@ Booleans({"resolved"}) @@ Maybe(Texts({"description"}))

ListConnections == Asks("mcp-gateway", Connections, TRUE, Items(RawConnection))
\* An empty secret_ref is not sent, whatever the kind.
CreateConnection ==
  Call("mcp-gateway", "POST", Connections, TRUE,
       {Texts({"slug", "name"}) @@ "kind" :> {"bearer", "api_key", "basic", "none"}
        @@ Maybe(Texts({"description", "header", "secret_ref"}))}, {RawConnection})
DeleteConnection == Call("mcp-gateway", "DELETE", Connections \o <<Id>>, TRUE, Nothing, {Empty})
ListEffective == Asks("mcp-gateway", <<"v1", "tools">>, TRUE, Items(RawTool))
ListBuiltins == Asks("mcp-gateway", <<"v1", "tools", "builtins">>, TRUE, Items(RawBuiltinTool))
ListBindings == Asks("mcp-gateway", <<"v1", "bindings">>, TRUE, Items(RawBinding))
Bind ==
  Call("mcp-gateway", "PUT", <<"v1", "bindings", Id>>, TRUE,
       {Booleans({"enabled"}) @@ Maybe(Numbers({"rate_limit_per_minute"}) @@ Booleans({"require_approval"}))}, {RawBinding})
Unbind == Call("mcp-gateway", "DELETE", <<"v1", "bindings", Id>>, TRUE, Nothing, {Empty})

ToolsGateway ==
  "listConnections" :> ListConnections @@ "createConnection" :> CreateConnection @@ "deleteConnection" :> DeleteConnection
  @@ "listEffective" :> ListEffective @@ "listBuiltins" :> ListBuiltins @@ "listBindings" :> ListBindings
  @@ "bind" :> Bind @@ "unbind" :> Unbind

\* HttpAgentRuntimeGateway
AgentRuntimeGateway ==
  "startRun" :> Call("agent-runtime", "POST", <<"v1", "agents", Id, "runs">>, TRUE,
                     {Texts({"input"}) @@ Maybe(Texts({"thread_id"})) @@ "stream" :> {"true"}}, {Events})
  @@ "approve" :> Call("agent-runtime", "POST", <<"v1", "runs", Id, "approve">>, TRUE,
                       {Texts({"tool_call_id"}) @@ Booleans({"approved"}) @@ Maybe(Texts({"reason"})) @@ "stream" :> {"true"}},
                       {Events})

RawRun ==
  Texts({"id", "suite", "alias", "started_at"}) @@ "status" :> {"running", "passed", "failed", "errored"}
  @@ OrNull(Texts({"error_code", "finished_at"}))
  @@ Maybe(Under("metrics", Texts({"evaluator"}) @@ Numbers({"value", "sample_size"}) @@ OrNull(Numbers({"threshold", "maximum"}))
                            @@ Booleans({"passed"})))

\* HttpEvaluationGateway
EvaluationGateway ==
  "listRuns" :> Call("evaluation", "GET", <<"v1", "evaluations">>, TRUE, {Numbers({"limit"})}, {Maybe(Items(RawRun))})

-----------------------------------------------------------------------------

\* ServiceTokenProvider, and what the router asks of governance and of the guardrails.
ServiceToken ==
  Call("identity", "POST", <<"v1", "auth", "token">>, FALSE,
       {"grant_type" :> {"client_credentials"} @@ Texts({"client_id", "client_secret"}) @@ Maybe(Texts({"scope"}))},
       {Texts({"access_token"}) @@ Numbers({"expires_in"})})
FetchPolicy ==
  Asks("governance", ProjectPath \o <<"policy">>, FALSE,
       Texts({"project_id", "data_classification"}) @@ Lists({"allowed_data_zones"}) @@ Numbers({"max_concurrent_requests"})
       @@ Booleans({"content_capture"}) @@ Maybe(Under("model_rules", Texts({"alias"}) @@ Booleans({"allowed"}) @@ Numbers({"max_output_tokens"})))
       @@ Maybe(Under("budget", Texts({"currency", "period_end"}) @@ Numbers({"limit_micros"}) @@ Booleans({"block_at_limit"}))))
Inspect ==
  Call("guardrails", "POST", <<"v1", "guardrails", "redact">>, TRUE,
       {Texts({"text"}) @@ "language" :> {"pt"} @@ "check_injection" :> {"true"}},
       {Texts({"text", "findings.entity_type"}) @@ Numbers({"findings.start", "findings.end", "findings.score"})
        @@ Maybe(Numbers({"redacted_count", "injection.score"}) @@ Booleans({"injection.suspected"})
                 @@ Texts({"injection.signals.rule"}) @@ "decision" :> {"allow", "redact", "block"})})

\* HttpEmbeddingClient
Embed ==
  Call("inference-router", "POST", <<"v1", "embeddings">>, TRUE, {Texts({"model"}) @@ Lists({"input"})},
       {Maybe(Lists({"data.embedding"}) @@ Texts({"model", "aia.provider_model"}))})

\* What the tool gateway asks of governance, of the registry and of knowledge.
ClassificationOf == Asks("governance", ProjectPath \o <<"policy">>, TRUE, Texts({"data_classification"}))
FindTool == Asks("registry", Assets \o <<Id>>, TRUE, Texts({"id", "kind", "slug", "name"}) @@ Maybe(Texts({"description"})))
ToolDefinitions ==
  {Anything({"definition.kind"}),
   "definition.kind" :> {"tool"} @@ "definition.tool_type" :> ToolTypes @@ "definition.risk_level" :> RiskLevels
   @@ Maybe(Texts({"definition.endpoint", "definition.builtin_id", "definition.connection_id"}) @@ Objects({"definition.parameters"}))}
FindVersion == Call("registry", "GET", Assets \o <<Id, "published">>, TRUE, Nothing, ToolDefinitions)
ListTools ==
  Call("registry", "GET", Assets, TRUE, {"kind" :> {"tool"} @@ Numbers({"limit"})},
       {Items(Texts({"id", "kind", "slug", "name"}) @@ Maybe(Texts({"description"}) @@ OrNull(Numbers({"published_version"}))))})
SearchForTool ==
  Call("knowledge", "POST", Store \o <<"search">>, TRUE, {Texts({"query"}) @@ Numbers({"top_k"})}, {Empty})

\* HttpReferenceChecker
AliasExists == Asks("inference-router", <<"v1", "models">>, TRUE, Maybe(Texts({"data.id"})))
StoreExists == Asks("knowledge", Store, TRUE, Empty)

\* The clients of the agent runtime
ResolveAgent ==
  Asks("registry", Assets \o <<Id, "published">>, TRUE, Maybe(Numbers({"version"})) @@ Anything({"definition.kind"}))
EffectiveTools ==
  Asks("mcp-gateway", <<"v1", "tools">>, TRUE,
       Items(Texts({"tool_id", "slug"}) @@ Maybe(OrNull(Texts({"name", "description", "builtin_id"}) @@ Objects({"parameters"})
                                                        @@ Booleans({"requires_approval"}) @@ "risk_level" :> RiskLevels))))
InvokeTool ==
  Call("mcp-gateway", "POST", <<"v1", "tools", Id, "invoke">>, TRUE, {Objects({"arguments"}) @@ Maybe(Texts({"approval_id"}))},
       {Anything({"result"}) @@ Maybe(Texts({"status"}) @@ OrNull(Numbers({"duration_ms"}))), Texts({"approval_id"})})
AgentTurn ==
  Call("inference-router", "POST", <<"v1", "chat", "completions">>, TRUE,
       {Texts({"model"}) @@ "stream" :> {"true"} @@ Maybe(Numbers({"temperature", "top_p", "max_completion_tokens"}))
        @@ Under("messages", "role" :> {"system", "user", "assistant", "tool"} @@ Texts({"content"}) @@ Maybe(Texts({"tool_call_id"}))
                             @@ Maybe(Under("tool_calls", Texts({"id", "function.name", "function.arguments", "provider_state"})
                                                          @@ "type" :> {"function"})))
        @@ Maybe(Under("tools", "type" :> {"function"} @@ Texts({"function.name", "function.description"})
                                @@ Objects({"function.parameters"})))}, {Events})

\* The clients of the evaluation service
ReadAnswer == Maybe(Texts({"choices.message.content"}))
Answer ==
  Call("inference-router", "POST", <<"v1", "chat", "completions">>, TRUE,
       {Texts({"model", "messages.content"}) @@ "messages.role" :> {"system", "user"}},
       {ReadAnswer @@ Maybe(Numbers({"aia.cost.micros", "usage.prompt_tokens", "usage.completion_tokens"}))})
Judge ==
  Call("inference-router", "POST", <<"v1", "chat", "completions">>, TRUE,
       {Texts({"model", "messages.content"}) @@ "messages.role" :> {"system", "user"}
        @@ Numbers({"max_completion_tokens", "temperature"})}, {ReadAnswer})
IsSafe ==
  Call("guardrails", "POST", <<"v1", "guardrails", "analyze">>, TRUE, {Texts({"text"}) @@ "check_injection" :> {"true"}},
       {Maybe(Texts({"decision"}))})

Clients ==
  "serviceToken" :> ServiceToken @@ "fetchPolicy" :> FetchPolicy @@ "inspect" :> Inspect @@ "embed" :> Embed
  @@ "classificationOf" :> ClassificationOf @@ "findTool" :> FindTool @@ "findVersion" :> FindVersion @@ "listTools" :> ListTools
  @@ "searchForTool" :> SearchForTool @@ "aliasExists" :> AliasExists @@ "storeExists" :> StoreExists
  @@ "resolveAgent" :> ResolveAgent @@ "effectiveTools" :> EffectiveTools @@ "invokeTool" :> InvokeTool
  @@ "agentTurn" :> AgentTurn @@ "answer" :> Answer @@ "judge" :> Judge @@ "isSafe" :> IsSafe

-----------------------------------------------------------------------------

Calls ==
  PlatformGateway @@ RegistryGateway @@ KnowledgeGateway @@ ToolsGateway @@ AgentRuntimeGateway @@ EvaluationGateway @@ Clients

\* What becomes of a call: the route that it lands on, what the service refuses or
\* does not look at of what is sent, and what of the answer cannot be read.
Unserved == <<>>
Served(name) ==
  LET call == Calls[name]
      routes == Serving!Services[call.to]
      route == Serving!Handler(routes, call.method, call.path)
      taken == {p \in call.sends \X route.takes : Fits(p[1], p[2])}
  IN IF Serving!Matching(routes, call.method, call.path) = {} THEN Unserved
     ELSE <<[route |-> route,
             refused |-> {sent \in call.sends : \A t \in route.takes : ~Fits(sent, t)},
             ignored |-> UNION {InVain(p[1], p[2]) : p \in taken},
             unread |-> {given \in Answering(route.gives, call.sends) :
                           given.status < 300 /\ \A read \in call.reads : ~Fits(given.shape, read)}]>>

-----------------------------------------------------------------------------

\* rolesIn
RolesIn(principal, project) ==
  LET those == SelectSeq(principal.memberships, LAMBDA m : m.project = project)
  IN principal.roles \cup IF those = <<>> THEN {} ELSE Head(those).roles

CanCreateProject(principal) == "platform_admin" \in principal.roles
CanAdministerProject(principal, project) ==
  RolesIn(principal, project) \cap {"platform_admin", "project_owner"} # {}
\* (A mistake, for the mutant runs: a role in any project.)
EditsSomewhere(principal, project) ==
  \E i \in DOMAIN principal.memberships :
    RolesIn(principal, principal.memberships[i].project) \cap {"platform_admin", "project_owner", "project_editor"} # {}
CanEditAssets(principal, project) ==
  RolesIn(principal, project) \cap {"platform_admin", "project_owner", "project_editor"} # {}

\* The controls of a screen, named for the calls that they make.
ProjectControls(screen) == IF CanCreateProject(screen.principal) THEN {"createProject"} ELSE {}
BudgetControls(screen) == IF CanAdministerProject(screen.principal, screen.project) THEN {"setBudget"} ELSE {}
ToolControls(screen) == IF CanAdministerProject(screen.principal, screen.project) THEN {"bind", "unbind"} ELSE {}
ConnectionControls(screen) ==
  IF CanAdministerProject(screen.principal, screen.project) THEN {"createConnection", "deleteConnection"} ELSE {}
AgentControls(screen) ==
  IF CanEditAssets(screen.principal, screen.project) THEN {"createAsset", "updateDraft", "publish"} ELSE {}
StoreControls(screen) ==
  IF ~CanEditAssets(screen.principal, screen.project) THEN {}
  ELSE {"createStore"} \cup CASE screen.store = "own" -> {"registerDocument", "completeUpload", "setVisibility"}
                              [] screen.store = "shared" -> {"registerDocument", "completeUpload", "unsubscribe"}
                              [] screen.store = "offered" -> {"subscribe"}
EverybodysControls(screen) ==
  {"streamChat", "startRun", "approve"} \cup IF screen.store = "offered" THEN {} ELSE {"search"}

Shown(screen) ==
  ProjectControls(screen) \cup BudgetControls(screen) \cup ToolControls(screen) \cup ConnectionControls(screen)
  \cup AgentControls(screen) \cup StoreControls(screen) \cup EverybodysControls(screen)

\* All that there are.
Admin == [roles |-> {"platform_admin"}, memberships |-> <<>>]
Controls == UNION {Shown([principal |-> Admin, project |-> "p", store |-> s]) : s \in {"own", "shared", "offered"}}

\* Who meets the policy of a route; a person is a peer of the members only.
Meets(policy, principal, project) ==
  CASE policy = "none" -> TRUE
    [] policy \in {"member", "peer"} -> Auth!IsMember(principal, project)
    [] policy = "editor" -> Auth!HasRole(principal, project, {"project_owner", "project_editor"})
    [] policy = "owner" -> Auth!HasRole(principal, project, {"project_owner"})
    [] policy = "admin" -> Auth!IsPlatformAdmin(principal)

\* Which stores the use cases of knowledge find for a call.
Finds(control, store) ==
  CASE control \in {"registerDocument", "completeUpload", "setVisibility"} -> store = "own"
    [] control = "search" -> store \in {"own", "shared"}
    [] control = "subscribe" -> store \in {"shared", "offered"}
    [] OTHER -> TRUE

\* The policy that each call meets, and the controls that would work.
Policies ==
  [c \in Controls |->
    LET call == Calls[c]
    IN Serving!Handler(Serving!Services[call.to], call.method, call.path).policy]
Taken(screen) ==
  {c \in Controls : Meets(Policies[c], screen.principal, screen.project) /\ Finds(c, screen.store)}

-----------------------------------------------------------------------------

Unpinned == 0

\* toolChoices: what is on offer, then what is attached to the agent though it is not.
ToolChoices(attachable, attached) ==
  attachable \o SelectSeq([i \in DOMAIN attached |-> attached[i].tool], LAMBDA t : t \notin ToSet(attachable))

\* (A mistake, for the mutant runs: what was attached is saved without its pin.)
UnpinnedReferences(selected, previous) ==
  [i \in DOMAIN selected |-> [tool |-> selected[i], version |-> Unpinned]]

\* toolReferencesFor; no choice comes twice.
ToolReferencesFor(selected, previous) ==
  [i \in DOMAIN selected |->
    [tool |-> selected[i],
     version |-> IF \E r \in ToSet(previous) : r.tool = selected[i]
                 THEN (CHOOSE r \in ToSet(previous) : r.tool = selected[i]).version ELSE Unpinned]]

\* The definition that saving the form sends.
Saved(form) ==
  LET attachedTo == {r.tool : r \in ToSet(form.attached)}
      ticked(t) == (t \in attachedTo) # (t \in form.toggled)
      selected == SelectSeq(ToolChoices(form.attachable, form.attached), ticked)
  IN [tools |-> ToolReferencesFor(selected, form.attached),
      settings |-> form.settings \cap {"temperature", "knowledge"}]
=============================================================================
