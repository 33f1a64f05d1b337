------------------------------- MODULE Services -------------------------------
(***************************************************************************)
(* The HTTP edge of every service, in the order in which it declares its   *)
(* routes: who is let in, what a route takes before it refuses, and what   *)
(* it gives.  A guard is "public", "token" (@NoProject) or "project" (the  *)
(* X-Project-Id header is required); a policy is the role a member needs.  *)
(***************************************************************************)
EXTENDS Shapes

Route(method, path, guard, policy, takes, gives) ==
  [method |-> method, path |-> path, guard |-> guard, policy |-> policy, takes |-> takes, gives |-> gives]

\* (A mistake, for the mutant runs: a literal segment matches like any other.)
LooselyMatched(routes, method, path) ==
  {i \in DOMAIN routes : routes[i].method = method /\ Len(routes[i].path) = Len(path)}

\* The router of Nest and of FastAPI: the first that matches.
Matching(routes, method, path) ==
  {i \in DOMAIN routes : routes[i].method = method /\ Matches(routes[i].path, path)}
Handler(routes, method, path) ==
  routes[CHOOSE i \in Matching(routes, method, path) : \A j \in Matching(routes, method, path) : i <= j]

Paging == Maybe(Texts({"cursor"}) @@ Numbers({"limit"}))
NextPage == OrNull(Texts({"next_cursor"}))
LastPage == "next_cursor" :> {"null"}
Items(shape) == Under("items", shape)

-----------------------------------------------------------------------------

Roles == Lists({"global_roles", "memberships.roles"})

\* tokenRequestSchema
TokenRequests ==
  {"grant_type" :> {"password"} @@ Texts({"username", "password"}) @@ Maybe(Texts({"scope"})),
   "grant_type" :> {"client_credentials"} @@ Texts({"client_id", "client_secret"}) @@ Maybe(Texts({"scope"}))}

\* AuthController
AuthRoutes == <<
  Route("POST", <<"v1", "auth", "token">>, "public", "none", TokenRequests,
        {Gives(200, Texts({"access_token", "scope"}) @@ "token_type" :> {"Bearer"} @@ Numbers({"expires_in"}))}),
  Route("GET", <<".well-known", "jwks.json">>, "public", "none", Nothing, {Gives(200, Lists({"keys"}))}),
  Route("GET", <<".well-known", "openid-configuration">>, "public", "none", Nothing,
        {Gives(200, Texts({"issuer", "jwks_uri", "token_endpoint", "introspection_endpoint"}))}),
  Route("POST", <<"v1", "auth", "introspect">>, "public", "none", {Texts({"token"})},
        {Gives(200, "active" :> {"false"}),
         Gives(200, "active" :> {"true"} @@ Texts({"sub", "scope", "project_id"}) @@ Numbers({"exp"})
                    @@ "principal_type" :> {"application"})}),
  Route("GET", <<"v1", "me">>, "token", "none", Nothing,
        {Gives(200, Texts({"id", "memberships.project_id"}) @@ "type" :> {"user", "application", "service"}
                    @@ Maybe(Texts({"email", "display_name"})) @@ Roles)})>>

PatResponse == Texts({"id", "name", "project_id", "created_at", "expires_at"}) @@ Lists({"scopes"})

\* PatsController
PatRoutes == <<
  Route("POST", <<"v1", "pats">>, "token", "none",
        {Texts({"name", "project_id"}) @@ Lists({"scopes"}) @@ Maybe(Numbers({"expires_in_days"}))},
        {Gives(201, PatResponse @@ Texts({"token"}))}),
  Route("GET", <<"v1", "pats">>, "token", "none", {Paging},
        {Gives(200, Items(PatResponse @@ OrNull(Texts({"last_used_at", "revoked_at"}))) @@ NextPage)}),
  Route("DELETE", <<"v1", "pats", Id>>, "token", "none", Nothing, {Gives(204, Empty)})>>

-----------------------------------------------------------------------------

Classifications == {"public", "internal", "confidential", "restricted"}
Money(name) == Under(name, Texts({"currency"}) @@ Numbers({"micros"}))

\* serializeProject and serializeBudget
ProjectResponse ==
  Texts({"id", "slug", "name", "legal_basis", "purpose", "owner_principal_id", "created_at", "updated_at"})
  @@ "data_classification" :> Classifications @@ Maybe(Texts({"description", "cost_center"}))
BudgetResponse ==
  Texts({"project_id", "period_start", "period_end"}) @@ Money("limit") @@ Money("spent") @@ Money("reserved")
  @@ "period" :> {"daily", "monthly"} @@ Booleans({"block_at_limit"}) @@ Lists({"alert_thresholds"})
  @@ Numbers({"usage_ratio"})

\* What updatePolicy answers, and what else policy does.
PolicyUpdated ==
  Texts({"project_id"}) @@ "data_classification" :> Classifications @@ Lists({"allowed_data_zones"})
  @@ Numbers({"version"})
PolicyResponse ==
  PolicyUpdated @@ Numbers({"max_concurrent_requests"}) @@ Booleans({"content_capture"})
  @@ Texts({"model_rules.alias"}) @@ Booleans({"model_rules.allowed"})
  @@ Maybe(Numbers({"model_rules.max_output_tokens"}))
  @@ Maybe(Under("budget", Texts({"currency", "period_end"}) @@ Booleans({"block_at_limit"})
                           @@ Numbers({"limit_micros", "spent_micros", "reserved_micros"})))

\* createProjectSchema, setBudgetSchema and setPolicySchema
CreateProject ==
  Texts({"slug", "name", "legal_basis", "purpose"}) @@ "data_classification" :> Classifications
  @@ Maybe(Texts({"description", "cost_center", "owner_principal_id"}))
SetBudget ==
  Money("limit") @@ "period" :> {"daily", "monthly"}
  @@ Maybe(Booleans({"block_at_limit"}) @@ Lists({"alert_thresholds"}))
SetPolicy ==
  Maybe(Lists({"allowed_data_zones"}) @@ Texts({"model_rules.alias"}) @@ Booleans({"model_rules.allowed", "content_capture"})
        @@ Numbers({"model_rules.max_output_tokens", "max_concurrent_requests"}))

ProjectsPath == <<"v1", "projects">>
ProjectPath == ProjectsPath \o <<Id>>

\* ProjectsController, of which create and list ask for more than a policy.
ProjectRoutes == <<
  Route("POST", ProjectsPath, "token", "admin", {CreateProject}, {Gives(201, ProjectResponse)}),
  Route("GET", ProjectsPath, "token", "none", {Paging}, {Gives(200, Items(ProjectResponse) @@ NextPage)}),
  Route("GET", ProjectPath, "token", "member", Nothing, {Gives(200, ProjectResponse)}),
  Route("PUT", ProjectPath \o <<"budget">>, "token", "owner", {SetBudget}, {Gives(200, BudgetResponse)}),
  Route("GET", ProjectPath \o <<"budget">>, "token", "member", Nothing, {Gives(200, BudgetResponse)}),
  Route("GET", ProjectPath \o <<"policy">>, "token", "peer", Nothing, {Gives(200, PolicyResponse)}),
  Route("PUT", ProjectPath \o <<"policy">>, "token", "owner", {SetPolicy}, {Gives(200, PolicyUpdated)})>>

-----------------------------------------------------------------------------

ToolCallShape ==
  Texts({"tool_calls.id", "tool_calls.function.name", "tool_calls.function.arguments"})
  @@ "tool_calls.type" :> {"function"} @@ Maybe(Texts({"tool_calls.provider_state"}))
Usage == Under("usage", Numbers({"prompt_tokens", "completion_tokens", "total_tokens"}))
Zones == {"local", "br", "us", "eu", "global"}
Routing ==
  Texts({"deployment_id", "provider_model"}) @@ "provider" :> {"openai", "gemini", "anthropic", "ollama"}
  @@ "data_zone" :> Zones @@ Money("cost") @@ Numbers({"attempts"})

\* chatCompletionSchema and embeddingsSchema
ChatCompletionBody ==
  Texts({"model"}) @@ "messages.role" :> {"system", "user", "assistant", "tool"} @@ OrNull(Texts({"messages.content"}))
  @@ Maybe(Under("messages", Texts({"name", "tool_call_id"}) @@ ToolCallShape)
           @@ "tools.type" :> {"function"} @@ Texts({"tools.function.name", "tools.function.description"})
           @@ Objects({"tools.function.parameters"}) @@ "tool_choice" :> {"auto", "none", "required", "object"}
           @@ Booleans({"stream"}) @@ Numbers({"max_tokens", "max_completion_tokens", "temperature", "top_p"})
           @@ Lists({"stop"}) @@ Texts({"user"}))
EmbeddingsBody == Texts({"model"}) @@ "input" :> {"text", "list"} @@ Maybe(Numbers({"dimensions"}))

\* openai.mapper
ChatCompletionResponse ==
  Texts({"id", "model"}) @@ "object" :> {"chat.completion"} @@ Numbers({"created", "choices.index"})
  @@ "choices.message.role" :> {"assistant"} @@ Texts({"choices.message.content"})
  @@ Maybe(Under("choices.message", ToolCallShape))
  @@ "choices.finish_reason" :> {"stop", "length", "content_filter", "tool_calls", "null"}
  @@ Usage @@ Under("aia", Routing @@ Booleans({"cache_hit", "policy_stale", "budget_unverified"}))
EmbeddingsResponse ==
  "object" :> {"list"} @@ "data.object" :> {"embedding"} @@ Numbers({"data.index"}) @@ Lists({"data.embedding"})
  @@ Texts({"model"}) @@ Usage @@ Under("aia", Routing)

\* ModelAliasView
ModelAliasView ==
  Texts({"id"}) @@ "object" :> {"model"} @@ Maybe(Texts({"description"})) @@ Lists({"capabilities", "data_zones"})
  @@ Numbers({"max_output_tokens"}) @@ OrNull(Texts({"deprecated_at"}))

\* CompletionsController
CompletionRoutes == <<
  Route("POST", <<"v1", "chat", "completions">>, "project", "member", {ChatCompletionBody},
        {Streams, Gives(200, ChatCompletionResponse)}),
  Route("POST", <<"v1", "embeddings">>, "project", "member", {EmbeddingsBody}, {Gives(201, EmbeddingsResponse)}),
  Route("GET", <<"v1", "models">>, "project", "member", Nothing,
        {Gives(200, "object" :> {"list"} @@ Under("data", ModelAliasView))})>>

-----------------------------------------------------------------------------

RiskLevels == {"low", "medium", "high"}
ToolTypes == {"mcp", "openapi", "function", "builtin"}
BuiltinTools == {"file_search", "code_interpreter", "web_search", "web_fetch", "current_time", "calculator"}
AssetKinds == {"agent", "tool", "prompt"}

\* agentDefinition, toolDefinition and promptDefinition
Definitions ==
  {"kind" :> {"agent"} @@ Texts({"instructions", "model_alias"})
   @@ Maybe(Texts({"tools.asset_id", "knowledge.store_id"}) @@ OrNull(Numbers({"tools.version"}))
            @@ Numbers({"temperature", "top_p", "max_output_tokens"})),
   "kind" :> {"tool"} @@ "tool_type" :> ToolTypes @@ "risk_level" :> RiskLevels
   @@ Maybe(Texts({"endpoint", "connection_id"}) @@ "builtin_id" :> BuiltinTools @@ Objects({"parameters"})),
   "kind" :> {"prompt"} @@ Texts({"template"}) @@ Maybe(Lists({"variables"}))}

\* createAsset and updateDraft
CreateAsset ==
  {"kind" :> AssetKinds @@ Texts({"slug", "name"}) @@ Maybe(Texts({"description"})) @@ Under("definition", d) : d \in Definitions}
UpdateDraft ==
  {Numbers({"expected_version"}) @@ Maybe(Texts({"name", "description"})) @@ Under("definition", d) : d \in Definitions}

\* DEFINITION_WRITERS
DefinitionResponses ==
  {"kind" :> {"agent"} @@ Texts({"instructions", "model_alias", "tools.asset_id", "knowledge.store_id"})
   @@ OrNull(Numbers({"tools.version"})) @@ Maybe(Numbers({"temperature", "top_p", "max_output_tokens"})),
   "kind" :> {"tool"} @@ "tool_type" :> ToolTypes @@ "risk_level" :> RiskLevels
   @@ Maybe(Texts({"endpoint", "connection_id"}) @@ "builtin_id" :> BuiltinTools @@ Objects({"parameters"})),
   "kind" :> {"prompt"} @@ Texts({"template"}) @@ Lists({"variables"})}

\* toAssetResponse and toVersionResponse
AssetResponse ==
  Texts({"id", "project_id", "slug", "name", "owner_principal_id", "created_at", "updated_at"}) @@ "kind" :> AssetKinds
  @@ Maybe(Texts({"description"})) @@ OrNull(Numbers({"published_version", "draft_version"}))
VersionResponses ==
  {Texts({"asset_id", "updated_at"}) @@ Numbers({"version", "revision"}) @@ "status" :> {"draft", "published", "deprecated"}
   @@ OrNull(Texts({"published_at", "published_by"})) @@ Under("definition", d) : d \in DefinitionResponses}
GivesEach(status, shapes) == {Gives(status, s) : s \in shapes}

Assets == <<"v1", "assets">>
Asset == Assets \o <<Id>>

\* AssetsController, which sets no status of its own.
AssetRoutes == <<
  Route("POST", Assets, "project", "editor", CreateAsset, GivesEach(201, VersionResponses)),
  Route("GET", Assets, "project", "member", {Paging @@ Maybe(Texts({"kind"}))},
        {Gives(200, Items(AssetResponse) @@ NextPage)}),
  Route("GET", Asset, "project", "member", Nothing,
        GivesEach(200, {AssetResponse @@ Under("versions", v) : v \in VersionResponses})),
  Route("PUT", Asset \o <<"draft">>, "project", "editor", UpdateDraft, GivesEach(200, VersionResponses)),
  Route("POST", Asset \o <<"versions">>, "project", "editor", Nothing, GivesEach(201, VersionResponses)),
  Route("GET", Asset \o <<"published">>, "project", "member", Nothing, GivesEach(200, VersionResponses)),
  Route("POST", Asset \o <<"versions", Id, "deprecate">>, "project", "editor", Nothing, GivesEach(201, VersionResponses))>>

-----------------------------------------------------------------------------

\* createStore, registerDocument, search and visibility
CreateStore ==
  Texts({"slug", "name"})
  @@ Maybe(Texts({"description", "embedding_alias", "chunking.kind"}) @@ Numbers({"chunking.max_tokens", "chunking.overlap_tokens"}))
RegisterDocument ==
  Texts({"title", "mime_type"})
  @@ Maybe(Numbers({"size_bytes"}) @@ Booleans({"acl.public"}) @@ Lists({"acl.groups", "acl.principals"}))
Search ==
  Texts({"query"}) @@ Maybe(Numbers({"top_k", "min_score"}) @@ "mode" :> {"vector", "hybrid"})
Visibility == "visibility" :> {"private", "public"}

\* toStoreResponse, toDocumentResponse, toUploadTicketResponse and toSearchHitResponse
StoreResponse ==
  Texts({"id", "project_id", "slug", "name", "embedding_alias", "embedding_model", "created_at", "updated_at"})
  @@ Visibility @@ Numbers({"dimensions", "document_count", "chunking.max_tokens", "chunking.overlap_tokens"})
  @@ "chunking.kind" :> {"fixed", "recursive", "markdown-heading"}
  @@ Maybe("access" :> {"owner", "shared"} @@ Booleans({"subscribed"}) @@ Texts({"description"}))
DocumentResponse ==
  Texts({"id", "store_id", "title", "mime_type", "created_at"}) @@ Numbers({"size_bytes", "version", "chunk_count"})
  @@ "status" :> {"pending", "parsing", "chunking", "embedding", "indexing", "ingested", "failed"}
  @@ OrNull(Texts({"content_hash", "error_code", "ingested_at"}))
  @@ Booleans({"acl.public"}) @@ Lists({"acl.groups", "acl.principals"})
UploadTicketResponse == Under("document", DocumentResponse) @@ Texts({"upload_url", "expires_at"})
SearchHitResponse ==
  Texts({"document_id", "document_title", "text"}) @@ Numbers({"chunk_index", "score"})
  @@ "retrieval" :> {"vector", "text", "both"} @@ Maybe(Numbers({"vector_score"}))

Stores == <<"v1", "stores">>
Store == Stores \o <<Id>>

\* StoresController, which declares the catalogue before the store of an id.
StoreRoutes == <<
  Route("POST", Stores, "project", "editor", {CreateStore}, {Gives(201, StoreResponse)}),
  Route("GET", Stores, "project", "member", {Paging}, {Gives(200, Items(StoreResponse) @@ NextPage)}),
  Route("GET", Stores \o <<"catalogue">>, "project", "member", {Paging}, {Gives(200, Items(StoreResponse) @@ NextPage)}),
  Route("PUT", Store \o <<"visibility">>, "project", "editor", {Visibility}, {Gives(200, StoreResponse)}),
  Route("PUT", Store \o <<"subscription">>, "project", "editor", Nothing, {Gives(200, StoreResponse)}),
  Route("DELETE", Store \o <<"subscription">>, "project", "editor", Nothing, {Gives(204, Empty)}),
  Route("GET", Store, "project", "member", Nothing, {Gives(200, StoreResponse)})>>
DocumentRoutes == <<
  Route("POST", Store \o <<"documents">>, "project", "editor", {RegisterDocument}, {Gives(201, UploadTicketResponse)}),
  Route("POST", Store \o <<"documents", Id, "complete">>, "project", "editor", Nothing, {Gives(202, DocumentResponse)}),
  Route("GET", Store \o <<"documents">>, "project", "member", {Paging}, {Gives(200, Items(DocumentResponse) @@ NextPage)}),
  Route("DELETE", Store \o <<"documents", Id>>, "project", "editor", Nothing, {Gives(204, Empty)}),
  Route("POST", Store \o <<"search">>, "project", "member", {Search}, {Gives(200, Under("results", SearchHitResponse))})>>

-----------------------------------------------------------------------------

\* invoke, bind and createConnectionSchema with the check after it
Invoke == Maybe(Objects({"arguments"}) @@ Texts({"approval_id"}))
Bind ==
  Maybe(Booleans({"enabled"}) @@ OrNull(Numbers({"rate_limit_per_minute"}) @@ Booleans({"require_approval"})))
CreateConnection ==
  LET named == Texts({"slug", "name"}) @@ Maybe(Texts({"description", "header"}))
  IN {"kind" :> {"none"} @@ named @@ Maybe(Texts({"secret_ref"})),
      "kind" :> {"bearer", "api_key", "basic"} @@ named @@ Texts({"secret_ref"})}

\* The mappers, and the Problem Details that an ApprovalRequiredError becomes.
EffectiveToolResponse ==
  Texts({"tool_id", "slug", "name"}) @@ "tool_type" :> ToolTypes @@ "source" :> {"registry", "platform"}
  @@ "risk_level" :> RiskLevels @@ Booleans({"requires_approval"}) @@ OrNull(Numbers({"rate_limit_per_minute"}))
  @@ Maybe(Texts({"description"}) @@ "builtin_id" :> BuiltinTools @@ Objects({"parameters"}))
BuiltinToolResponse ==
  Texts({"tool_id", "slug", "name", "description"}) @@ "builtin_id" :> BuiltinTools @@ "risk_level" :> RiskLevels
  @@ "data_zone" :> {"local", "global"} @@ Booleans({"enabled", "available", "requires_approval"})
  @@ OrNull(Texts({"unavailable_reason"})) @@ Numbers({"rate_limit_per_minute"}) @@ Maybe(Objects({"parameters"}))
BindingResponse ==
  Texts({"project_id", "tool_id", "updated_at"}) @@ Booleans({"enabled"})
  @@ OrNull(Numbers({"rate_limit_per_minute"}) @@ Booleans({"require_approval"}))
ConnectionResponse ==
  Texts({"id", "project_id", "slug", "name", "header", "secret_ref", "created_at", "updated_at"})
  @@ "kind" :> {"bearer", "api_key", "basic", "none"} @@ Booleans({"resolved"}) @@ Maybe(Texts({"description"}))
InvocationResponse ==
  Texts({"tool_id"}) @@ "status" :> {"ok"} @@ "result" :> Others \cup {"text"} @@ Numbers({"duration_ms"})
ApprovalRequired ==
  Texts({"type", "title", "detail", "tool_id", "approval_id"}) @@ Numbers({"status"}) @@ "code" :> {"approval_required"}
  @@ "risk_level" :> RiskLevels

Bindings == <<"v1", "bindings">>
Connections == <<"v1", "connections">>

\* ToolsController of aia-mcp-gateway
ToolRoutes == <<
  Route("GET", <<"v1", "tools">>, "project", "member", Nothing, {Gives(200, Items(EffectiveToolResponse) @@ LastPage)}),
  Route("GET", <<"v1", "tools", "builtins">>, "project", "member", Nothing, {Gives(200, Items(BuiltinToolResponse))}),
  Route("POST", <<"v1", "tools", Id, "invoke">>, "project", "member", {Invoke},
        {Gives(200, InvocationResponse), Gives(202, ApprovalRequired)}),
  Route("GET", Bindings, "project", "member", Nothing, {Gives(200, Items(BindingResponse))}),
  Route("PUT", Bindings \o <<Id>>, "project", "owner", {Bind}, {Gives(200, BindingResponse)}),
  Route("DELETE", Bindings \o <<Id>>, "project", "owner", Nothing, {Gives(204, Empty)})>>
ConnectionRoutes == <<
  Route("GET", Connections, "project", "member", Nothing, {Gives(200, Items(ConnectionResponse) @@ LastPage)}),
  Route("POST", Connections, "project", "owner", CreateConnection, {Gives(201, ConnectionResponse)}),
  Route("DELETE", Connections \o <<Id>>, "project", "owner", Nothing, {Gives(204, Empty)})>>

-----------------------------------------------------------------------------

\* _run_response of the agent runtime, and what a person is shown of a call.
RunResponse ==
  Texts({"id", "agent_id", "thread_id", "project_id", "principal_id", "created_at"}) @@ Numbers({"agent_version", "step"})
  @@ "status" :> {"pending", "running", "waiting_approval", "completed", "failed", "cancelled"}
  @@ OrNull(Texts({"output", "error_code", "finished_at"}))
  @@ OrNull(Under("pending_call", Texts({"id", "tool_name", "tool_id"}) @@ Objects({"arguments"}) @@ "risk_level" :> RiskLevels))
StreamFlag == Maybe(Booleans({"stream"}))

\* The routers of the agent runtime
RunRoutes == <<
  Route("POST", <<"v1", "agents", Id, "runs">>, "project", "peer",
        {Texts({"input"}) @@ Maybe(OrNull(Texts({"thread_id"})) @@ Objects({"metadata"})) @@ StreamFlag},
        {Streams, Gives(201, RunResponse)}),
  Route("GET", <<"v1", "runs", Id>>, "project", "peer", Nothing, {Gives(200, RunResponse @@ Lists({"messages"}))}),
  Route("POST", <<"v1", "runs", Id, "approve">>, "project", "peer",
        {Texts({"tool_call_id"}) @@ Maybe(Booleans({"approved"}) @@ OrNull(Texts({"reason"}))) @@ StreamFlag},
        {Streams, Gives(200, RunResponse)})>>

\* _run_response of the evaluation service
Evaluators == {"groundedness", "relevance", "safety", "exact_match", "cost_per_answer", "latency_p95"}
EvaluationResponse ==
  Texts({"id", "project_id", "suite", "alias", "principal_id", "started_at"})
  @@ "status" :> {"running", "passed", "failed", "errored"} @@ OrNull(Texts({"error_code", "finished_at"}))
  @@ "metrics.evaluator" :> Evaluators @@ Numbers({"metrics.value", "metrics.sample_size"})
  @@ OrNull(Numbers({"metrics.threshold", "metrics.maximum"})) @@ Booleans({"metrics.passed"})
EvaluationCases ==
  Texts({"cases.case_id", "cases.input"}) @@ OrNull(Texts({"cases.answer", "cases.error_code"})) @@ Objects({"cases.scores"})

Evaluations == <<"v1", "evaluations">>

\* The router of the evaluation service, which will not go without a body.
EvaluationRoutes == <<
  Route("POST", Evaluations, "project", "peer", {Maybe(OrNull(Texts({"suite", "alias"}))) @@ "no body" :> {"absent"}},
        {Gives(202, Items(EvaluationResponse)), Gives(409, Items(EvaluationResponse))}),
  Route("GET", Evaluations, "project", "peer", {Maybe(Numbers({"limit"}))},
        {Gives(200, Items(EvaluationResponse) @@ LastPage)}),
  Route("GET", Evaluations \o <<Id>>, "project", "peer", Nothing, {Gives(200, EvaluationResponse @@ EvaluationCases)})>>

\* AnalyzeRequest, AnalyzeResponse and RedactResponse of the guardrails service
AnalyzeRequest ==
  Texts({"text"}) @@ Maybe("language" :> {"pt", "en"} @@ Lists({"entities"}) @@ Booleans({"check_injection"}))
AnalyzeResponse ==
  Texts({"findings.entity_type", "injection.signals.rule", "injection.signals.excerpt"})
  @@ Numbers({"findings.start", "findings.end", "findings.score", "injection.score", "injection.signals.score"})
  @@ Booleans({"injection.suspected"}) @@ "decision" :> {"allow", "redact", "block"}
RedactResponse == AnalyzeResponse @@ Texts({"text"}) @@ Numbers({"redacted_count"})

\* The router of the guardrails service
GuardrailRoutes == <<
  Route("POST", <<"v1", "guardrails", "analyze">>, "project", "peer", {AnalyzeRequest}, {Gives(200, AnalyzeResponse)}),
  Route("POST", <<"v1", "guardrails", "redact">>, "project", "peer",
        {AnalyzeRequest @@ Maybe("strategy" :> {"replace", "mask", "hash"})}, {Gives(200, RedactResponse)})>>

\* HealthController of @aia/nest
HealthRoutes == <<
  Route("GET", <<"health", "live">>, "public", "none", Nothing, {Gives(200, "status" :> {"ok"})}),
  Route("GET", <<"health", "ready">>, "public", "none", Nothing,
        {Gives(200, "status" :> {"ok", "degraded"} @@ Objects({"dependencies"}))})>>

\* Its like in the Python services
PythonHealthRoutes == <<
  Route("GET", <<"health", "live">>, "public", "none", Nothing, {Gives(200, "status" :> {"ok"})}),
  Route("GET", <<"health", "ready">>, "public", "none", Nothing, {Gives(200, "status" :> {"ok"})})>>

Services ==
  "identity" :> AuthRoutes \o PatRoutes \o HealthRoutes
  @@ "governance" :> ProjectRoutes \o HealthRoutes
  @@ "inference-router" :> CompletionRoutes \o HealthRoutes
  @@ "registry" :> AssetRoutes \o HealthRoutes
  @@ "knowledge" :> StoreRoutes \o DocumentRoutes \o HealthRoutes
  @@ "mcp-gateway" :> ToolRoutes \o ConnectionRoutes \o HealthRoutes
  @@ "agent-runtime" :> RunRoutes \o PythonHealthRoutes
  @@ "evaluation" :> EvaluationRoutes \o PythonHealthRoutes
  @@ "guardrails" :> GuardrailRoutes \o PythonHealthRoutes
=============================================================================
