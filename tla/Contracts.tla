------------------------------ MODULE Contracts ------------------------------
(***************************************************************************)
(* The types that are generated from the contracts, service by service:    *)
(* what a path and a method are called, what may be sent there, and what   *)
(* comes back.  What a field has by default is not optional in them.       *)
(***************************************************************************)
EXTENDS Shapes

Serving == INSTANCE Services

\* An operation needs the X-Project-Id header, or not.
Operation(header, takes, gives) == [header |-> header, takes |-> takes, gives |-> gives]
Returns(header, takes, status, shape) == Operation(header, takes, {Gives(status, shape)})

Paging == Maybe(Texts({"cursor"}) @@ Numbers({"limit"}))
Page(shape) == Under("items", shape) @@ Maybe(OrNull(Texts({"next_cursor"})))
DataClassification == {"public", "internal", "confidential", "restricted"}
Money(name) == Under(name, Texts({"currency"}) @@ Numbers({"micros"}))
RiskLevel == {"low", "medium", "high"}
ToolType == {"mcp", "openapi", "function", "builtin"}
BuiltinId == {"file_search", "code_interpreter", "web_search", "web_fetch", "current_time", "calculator"}

Live == At("GET", <<"health", "live">>)
Ready == At("GET", <<"health", "ready">>)
Probe == Returns(FALSE, Nothing, 200, Maybe(Texts({"status"})))

-----------------------------------------------------------------------------

IdentityPaths ==
  "issueToken" :> At("POST", <<"v1", "auth", "token">>) @@ "getJwks" :> At("GET", <<".well-known", "jwks.json">>)
  @@ "getOidcDiscovery" :> At("GET", <<".well-known", "openid-configuration">>)
  @@ "introspectToken" :> At("POST", <<"v1", "auth", "introspect">>) @@ "getCurrentPrincipal" :> At("GET", <<"v1", "me">>)
  @@ "listPats" :> At("GET", <<"v1", "pats">>) @@ "createPat" :> At("POST", <<"v1", "pats">>)
  @@ "revokePat" :> At("DELETE", <<"v1", "pats", Id>>) @@ "liveness" :> Live @@ "readiness" :> Ready

Principals == {"user", "application", "service"}

Grants ==
  {"grant_type" :> {"PasswordGrant"} @@ Texts({"username", "password"}),
   "grant_type" :> {"ClientCredentialsGrant"} @@ Texts({"client_id", "client_secret"}) @@ Maybe(Texts({"scope"}))}
TokenResponse == Texts({"access_token"}) @@ "token_type" :> {"Bearer"} @@ Numbers({"expires_in"}) @@ Maybe(Texts({"scope"}))
Introspection ==
  Booleans({"active"}) @@ Maybe(Texts({"sub", "scope"}) @@ Numbers({"exp"}) @@ "principal_type" :> Principals)
Principal ==
  Texts({"id", "memberships.project_id"}) @@ "type" :> Principals @@ Lists({"global_roles", "memberships.roles"})
  @@ Maybe(Texts({"email", "display_name"}))
Pat ==
  Texts({"id", "name", "project_id", "created_at", "expires_at"})
  @@ Maybe(Lists({"scopes"}) @@ OrNull(Texts({"last_used_at"})))

TokenOperations ==
  "issueToken" :> Returns(FALSE, Grants, 200, TokenResponse)
  @@ "getJwks" :> Returns(FALSE, Nothing, 200, Lists({"keys"}))
  @@ "getOidcDiscovery" :> Returns(FALSE, Nothing, 200, Empty)
  @@ "introspectToken" :> Returns(FALSE, {Texts({"token"})}, 200, Introspection)
  @@ "getCurrentPrincipal" :> Returns(FALSE, Nothing, 200, Principal)
PatOperations ==
  "listPats" :> Returns(FALSE, {Paging}, 200, Page(Pat))
  @@ "createPat" :> Returns(FALSE, {Texts({"name", "project_id"}) @@ Maybe(Lists({"scopes"}) @@ Numbers({"expires_in_days"}))},
                            201, Pat @@ Texts({"token"}))
  @@ "revokePat" :> Returns(FALSE, Nothing, 204, Empty) @@ "liveness" :> Probe @@ "readiness" :> Probe

-----------------------------------------------------------------------------

GovernancePaths ==
  LET project == <<"v1", "projects", Id>> IN
  "listProjects" :> At("GET", <<"v1", "projects">>) @@ "createProject" :> At("POST", <<"v1", "projects">>)
  @@ "getProject" :> At("GET", project)
  @@ "getBudget" :> At("GET", project \o <<"budget">>) @@ "setBudget" :> At("PUT", project \o <<"budget">>)
  @@ "getProjectPolicy" :> At("GET", project \o <<"policy">>) @@ "setProjectPolicy" :> At("PUT", project \o <<"policy">>)
  @@ "liveness" :> Live @@ "readiness" :> Ready

CreateProjectRequest ==
  Texts({"slug", "name", "legal_basis", "purpose"}) @@ "data_classification" :> DataClassification
  @@ Maybe(Texts({"description", "cost_center", "owner_principal_id"}))
Project ==
  Texts({"id", "slug", "name", "created_at"}) @@ "data_classification" :> DataClassification
  @@ Maybe(Texts({"description", "legal_basis", "purpose", "cost_center", "owner_principal_id", "updated_at"}))
Period == "period" :> {"daily", "monthly"}
SetBudgetRequest == Money("limit") @@ Period @@ Booleans({"block_at_limit"}) @@ Lists({"alert_thresholds"})
Budget ==
  Texts({"project_id", "period_start", "period_end"}) @@ Money("limit") @@ Money("spent") @@ Period
  @@ Maybe(Money("reserved") @@ Booleans({"block_at_limit"}) @@ Lists({"alert_thresholds"}))
ModelRules ==
  Maybe(Under("model_rules", Texts({"alias"}) @@ Booleans({"allowed"}) @@ Numbers({"max_output_tokens"})))
ProjectPolicy ==
  Texts({"project_id"}) @@ "data_classification" :> DataClassification @@ Lists({"allowed_data_zones"}) @@ ModelRules
  @@ Numbers({"max_concurrent_requests", "version"}) @@ Booleans({"content_capture"})
SetPolicyRequest ==
  Maybe(Lists({"allowed_data_zones"}) @@ Numbers({"max_concurrent_requests"}) @@ Booleans({"content_capture"})) @@ ModelRules

ProjectOperations ==
  "listProjects" :> Returns(FALSE, {Paging}, 200, Page(Project))
  @@ "createProject" :> Returns(FALSE, {CreateProjectRequest}, 201, Project)
  @@ "getProject" :> Returns(FALSE, Nothing, 200, Project)
  @@ "getBudget" :> Returns(FALSE, Nothing, 200, Budget)
PolicyOperations ==
  "setBudget" :> Returns(FALSE, {SetBudgetRequest}, 200, Budget)
  @@ "getProjectPolicy" :> Returns(FALSE, Nothing, 200, ProjectPolicy)
  @@ "setProjectPolicy" :> Returns(FALSE, {SetPolicyRequest}, 200, ProjectPolicy)
  @@ "liveness" :> Probe @@ "readiness" :> Probe

-----------------------------------------------------------------------------

RouterPaths ==
  "createChatCompletion" :> At("POST", <<"v1", "chat", "completions">>)
  @@ "createEmbeddings" :> At("POST", <<"v1", "embeddings">>) @@ "listModels" :> At("GET", <<"v1", "models">>)
  @@ "liveness" :> Live @@ "readiness" :> Ready

ToolCalls ==
  Maybe(Under("tool_calls", "type" :> {"function"} @@ Texts({"id", "function.name", "function.arguments", "provider_state"})))
ChatMessage ==
  "role" :> {"system", "user", "assistant", "tool"} @@ OrNull(Texts({"content"}))
  @@ Maybe(Texts({"name", "tool_call_id"})) @@ ToolCalls
CalledTools ==
  "type" :> {"function"} @@ Texts({"function.name", "function.description"}) @@ Objects({"function.parameters"})
ChatCompletionRequest ==
  Texts({"model"}) @@ Under("messages", ChatMessage) @@ Booleans({"stream"})
  @@ Maybe(Under("tools", CalledTools) @@ Numbers({"max_tokens", "temperature", "top_p"}) @@ Lists({"stop"}) @@ Texts({"user"})
           @@ "tool_choice" :> {"auto", "none", "required", "object"})
Usage == Maybe(Under("usage", Numbers({"prompt_tokens", "completion_tokens", "total_tokens"})))
RoutingMetadata ==
  Maybe(Under("aia", Texts({"deployment_id", "provider_model"}) @@ Money("cost") @@ Numbers({"attempts"})
                     @@ "provider" :> {"openai", "gemini", "anthropic", "ollama"}
                     @@ "data_zone" :> {"local", "br", "us", "eu", "global"}
                     @@ Booleans({"cache_hit", "policy_stale", "budget_unverified"})))
ChatCompletion ==
  Texts({"id", "model"}) @@ "object" :> {"chat.completion"} @@ Numbers({"created", "choices.index"})
  @@ Under("choices.message", ChatMessage) @@ Usage @@ RoutingMetadata
  @@ "choices.finish_reason" :> {"stop", "length", "content_filter", "tool_calls", "null"}
EmbeddingsRequest == Texts({"model"}) @@ "input" :> {"text", "list"} @@ Maybe(Numbers({"dimensions"}))
EmbeddingsResponse ==
  "object" :> {"list"} @@ "data.object" :> {"embedding"} @@ Numbers({"data.index"}) @@ Lists({"data.embedding"})
  @@ Texts({"model"}) @@ Usage @@ RoutingMetadata
ModelAlias ==
  Texts({"id"}) @@ "object" :> {"model"} @@ Lists({"capabilities"})
  @@ Maybe(Texts({"description"}) @@ Numbers({"max_output_tokens"}) @@ Lists({"data_zones"}) @@ OrNull(Texts({"deprecated_at"})))

CompletionOperations ==
  "createChatCompletion" :> Operation(TRUE, {ChatCompletionRequest}, {Gives(200, ChatCompletion), Streams})
  @@ "createEmbeddings" :> Returns(TRUE, {EmbeddingsRequest}, 200, EmbeddingsResponse)
  @@ "listModels" :> Returns(TRUE, Nothing, 200, "object" :> {"list"} @@ Under("data", ModelAlias))
RouterProbes ==
  "liveness" :> Returns(FALSE, Nothing, 200, "status" :> {"absent", "ok"})
  @@ "readiness" :> Returns(FALSE, Nothing, 200, "status" :> {"ok", "degraded"} @@ Objects({"dependencies"}))

-----------------------------------------------------------------------------

Assets == <<"v1", "assets">>
Asset == Assets \o <<Id>>
AssetPaths ==
  "listAssets" :> At("GET", Assets) @@ "createAsset" :> At("POST", Assets)
  @@ "getAsset" :> At("GET", Asset) @@ "updateDraft" :> At("PUT", Asset \o <<"draft">>)
  @@ "publishVersion" :> At("POST", Asset \o <<"versions">>)
VersionPaths ==
  "getPublishedVersion" :> At("GET", Asset \o <<"published">>)
  @@ "deprecateVersion" :> At("POST", Asset \o <<"versions", Id, "deprecate">>)
  @@ "registryLive" :> Live @@ "registryReady" :> Ready

AssetKind == {"agent", "tool", "prompt"}
AgentDefinition ==
  "kind" :> {"agent"} @@ Texts({"instructions", "model_alias"})
  @@ Maybe(Texts({"tools.asset_id", "knowledge.store_id"}) @@ OrNull(Numbers({"tools.version"}))
           @@ Numbers({"temperature", "top_p", "max_output_tokens"}))
ToolDefinition ==
  "kind" :> {"tool"} @@ "tool_type" :> ToolType @@ "risk_level" :> RiskLevel
  @@ Maybe(Texts({"endpoint", "connection_id"}) @@ "builtin_id" :> BuiltinId @@ Objects({"parameters"}))
PromptDefinition == "kind" :> {"prompt"} @@ Texts({"template"}) @@ Maybe(Lists({"variables"}))
AssetDefinitions == {AgentDefinition, ToolDefinition, PromptDefinition}
AssetFields ==
  Texts({"id", "project_id", "slug", "name", "created_at"}) @@ "kind" :> AssetKind
  @@ Maybe(Texts({"description", "owner_principal_id", "updated_at"}) @@ OrNull(Numbers({"published_version", "draft_version"})))
AssetVersions ==
  {Texts({"asset_id"}) @@ Numbers({"version"}) @@ "status" :> {"draft", "published", "deprecated"} @@ Under("definition", d)
   @@ Maybe(Texts({"updated_at"}) @@ OrNull(Texts({"published_at", "published_by"}))) : d \in AssetDefinitions}
AssetDetails == {AssetFields @@ Maybe(Under("versions", v)) : v \in AssetVersions}
CreateAssetRequests ==
  {"kind" :> AssetKind @@ Texts({"slug", "name"}) @@ Maybe(Texts({"description"})) @@ Under("definition", d) : d \in AssetDefinitions}
UpdateDraftRequests ==
  {Numbers({"expected_version"}) @@ Maybe(Texts({"name", "description"})) @@ Under("definition", d) : d \in AssetDefinitions}
AnyOf(status, shapes) == {Gives(status, s) : s \in shapes}

AssetOperations ==
  "listAssets" :> Returns(TRUE, {Paging @@ "kind" :> {"absent"} \cup AssetKind}, 200, Page(AssetFields))
  @@ "createAsset" :> Operation(TRUE, CreateAssetRequests, AnyOf(201, AssetVersions))
  @@ "getAsset" :> Operation(TRUE, Nothing, AnyOf(200, AssetDetails))
  @@ "updateDraft" :> Operation(TRUE, UpdateDraftRequests, AnyOf(200, AssetVersions))
VersionOperations ==
  "publishVersion" :> Operation(TRUE, Nothing, AnyOf(201, AssetVersions))
  @@ "getPublishedVersion" :> Operation(TRUE, Nothing, AnyOf(200, AssetVersions))
  @@ "deprecateVersion" :> Operation(TRUE, Nothing, AnyOf(200, AssetVersions))
  @@ "registryLive" :> Probe @@ "registryReady" :> Probe

-----------------------------------------------------------------------------

Store == <<"v1", "stores", Id>>
StorePaths ==
  "listStores" :> At("GET", <<"v1", "stores">>) @@ "createStore" :> At("POST", <<"v1", "stores">>)
  @@ "listStoreCatalogue" :> At("GET", <<"v1", "stores", "catalogue">>)
  @@ "setStoreVisibility" :> At("PUT", Store \o <<"visibility">>)
  @@ "subscribeToStore" :> At("PUT", Store \o <<"subscription">>)
  @@ "unsubscribeFromStore" :> At("DELETE", Store \o <<"subscription">>)
  @@ "getStore" :> At("GET", Store) @@ "deleteStore" :> At("DELETE", Store)
DocumentPaths ==
  "listDocuments" :> At("GET", Store \o <<"documents">>) @@ "requestDocumentUpload" :> At("POST", Store \o <<"documents">>)
  @@ "completeDocumentUpload" :> At("POST", Store \o <<"documents", Id, "complete">>)
  @@ "deleteDocument" :> At("DELETE", Store \o <<"documents", Id>>) @@ "searchStore" :> At("POST", Store \o <<"search">>)
  @@ "knowledgeLive" :> Live @@ "knowledgeReady" :> Ready

Chunking ==
  Maybe(Under("chunking", "kind" :> {"fixed", "recursive", "markdown-heading"} @@ Numbers({"max_tokens", "overlap_tokens"})))
DocumentAcl == Maybe(Under("acl", Booleans({"public"}) @@ Lists({"groups", "principals"})))
VectorStore ==
  Texts({"id", "project_id", "slug", "name", "embedding_alias", "created_at"}) @@ "visibility" :> {"private", "public"}
  @@ Numbers({"dimensions"}) @@ Chunking
  @@ Maybe("access" :> {"owner", "shared"} @@ Booleans({"subscribed"}) @@ Numbers({"document_count"})
           @@ Texts({"description", "embedding_model", "updated_at"}))
Document ==
  Texts({"id", "store_id", "title", "created_at"}) @@ DocumentAcl
  @@ "status" :> {"pending", "parsing", "chunking", "embedding", "indexing", "ingested", "failed"}
  @@ Maybe(Texts({"mime_type"}) @@ Numbers({"size_bytes", "version", "chunk_count"})
           @@ OrNull(Texts({"content_hash", "error_code", "ingested_at"})))
CreateStoreRequest == Texts({"slug", "name", "embedding_alias"}) @@ Maybe(Texts({"description"})) @@ Chunking
RegisterDocumentRequest == Texts({"title", "mime_type"}) @@ Maybe(Numbers({"size_bytes"})) @@ DocumentAcl
UploadTicket == Under("document", Document) @@ Texts({"upload_url", "expires_at"})
SearchRequest ==
  Texts({"query"}) @@ Numbers({"top_k"}) @@ "mode" :> {"vector", "hybrid"} @@ Maybe(Numbers({"min_score"}))
SearchResponse ==
  Under("results", Texts({"document_id", "text"}) @@ Numbers({"chunk_index", "score"}) @@ "retrieval" :> {"vector", "text", "both"}
                   @@ Maybe(Texts({"document_title"}) @@ Numbers({"vector_score"})))

StoreOperations ==
  "listStores" :> Returns(TRUE, {Paging}, 200, Page(VectorStore))
  @@ "createStore" :> Returns(TRUE, {CreateStoreRequest}, 201, VectorStore)
  @@ "listStoreCatalogue" :> Returns(TRUE, {Paging}, 200, Page(VectorStore))
SharingOperations ==
  "setStoreVisibility" :> Returns(TRUE, {"visibility" :> {"private", "public"}}, 200, VectorStore)
  @@ "subscribeToStore" :> Returns(TRUE, Nothing, 200, VectorStore)
  @@ "unsubscribeFromStore" :> Returns(TRUE, Nothing, 204, Empty)
  @@ "getStore" :> Returns(TRUE, Nothing, 200, VectorStore) @@ "deleteStore" :> Returns(TRUE, Nothing, 204, Empty)
DocumentOperations ==
  "listDocuments" :> Returns(TRUE, {Paging}, 200, Page(Document))
  @@ "requestDocumentUpload" :> Returns(TRUE, {RegisterDocumentRequest}, 201, UploadTicket)
  @@ "completeDocumentUpload" :> Returns(TRUE, Nothing, 202, Document)
  @@ "deleteDocument" :> Returns(TRUE, Nothing, 204, Empty)
SearchOperations ==
  "searchStore" :> Returns(TRUE, {SearchRequest}, 200, SearchResponse)
  @@ "knowledgeLive" :> Probe @@ "knowledgeReady" :> Probe

-----------------------------------------------------------------------------

ToolPaths ==
  "listEffectiveTools" :> At("GET", <<"v1", "tools">>) @@ "listBuiltinTools" :> At("GET", <<"v1", "tools", "builtins">>)
  @@ "invokeTool" :> At("POST", <<"v1", "tools", Id, "invoke">>) @@ "listBindings" :> At("GET", <<"v1", "bindings">>)
  @@ "bindTool" :> At("PUT", <<"v1", "bindings", Id>>) @@ "unbindTool" :> At("DELETE", <<"v1", "bindings", Id>>)
ConnectionPaths ==
  "listConnections" :> At("GET", <<"v1", "connections">>) @@ "createConnection" :> At("POST", <<"v1", "connections">>)
  @@ "deleteConnection" :> At("DELETE", <<"v1", "connections", Id>>)
  @@ "mcpGatewayLive" :> Live @@ "mcpGatewayReady" :> Ready

BuiltinTool ==
  Texts({"tool_id", "slug", "name", "description"}) @@ "builtin_id" :> BuiltinId @@ "risk_level" :> RiskLevel
  @@ "data_zone" :> {"local", "global"} @@ Booleans({"enabled", "available", "requires_approval"})
  @@ Numbers({"rate_limit_per_minute"}) @@ Maybe(OrNull(Texts({"unavailable_reason"})) @@ Objects({"parameters"}))
BindingSettings == Maybe(OrNull(Numbers({"rate_limit_per_minute"}) @@ Booleans({"require_approval"})))
ToolBinding == Texts({"project_id", "tool_id"}) @@ Booleans({"enabled"}) @@ BindingSettings @@ Maybe(Texts({"updated_at"}))
EffectiveTool ==
  Texts({"tool_id", "slug", "name"}) @@ "source" :> {"registry", "platform"} @@ "tool_type" :> ToolType
  @@ "risk_level" :> RiskLevel @@ Booleans({"requires_approval"})
  @@ Maybe(Texts({"description"}) @@ "builtin_id" :> BuiltinId @@ Objects({"parameters"}) @@ OrNull(Numbers({"rate_limit_per_minute"})))
InvokeRequest == Objects({"arguments"}) @@ Maybe(Texts({"approval_id"}))
InvocationResult ==
  Texts({"tool_id"}) @@ "status" :> {"ok", "failed"} @@ "result" :> Others \cup {"text"} @@ Maybe(Numbers({"duration_ms"}))
ApprovalRequired == Texts({"approval_id", "tool_id"}) @@ "risk_level" :> RiskLevel @@ Maybe(Texts({"reason"}))
ConnectionKind == "kind" :> {"bearer", "api_key", "basic", "none"}
Connection ==
  Texts({"id", "project_id", "slug", "name", "secret_ref"}) @@ ConnectionKind @@ Booleans({"resolved"})
  @@ Maybe(Texts({"description", "header", "created_at", "updated_at"}))
CreateConnectionRequest == Texts({"slug", "name"}) @@ ConnectionKind @@ Maybe(Texts({"description", "header", "secret_ref"}))

InvocationOperations ==
  "listEffectiveTools" :> Returns(TRUE, {Paging}, 200, Page(EffectiveTool))
  @@ "listBuiltinTools" :> Returns(TRUE, Nothing, 200, Under("items", BuiltinTool))
  @@ "invokeTool" :> Operation(TRUE, {InvokeRequest}, {Gives(200, InvocationResult), Gives(202, ApprovalRequired)})
BindingOperations ==
  "listBindings" :> Returns(TRUE, Nothing, 200, Under("items", ToolBinding))
  @@ "bindTool" :> Returns(TRUE, {Booleans({"enabled"}) @@ BindingSettings}, 200, ToolBinding)
  @@ "unbindTool" :> Returns(TRUE, Nothing, 204, Empty)
ConnectionOperations ==
  "listConnections" :> Returns(TRUE, {Paging}, 200, Page(Connection))
  @@ "createConnection" :> Returns(TRUE, {CreateConnectionRequest}, 201, Connection)
  @@ "deleteConnection" :> Returns(TRUE, Nothing, 204, Empty)
  @@ "mcpGatewayLive" :> Probe @@ "mcpGatewayReady" :> Probe

-----------------------------------------------------------------------------

RuntimePaths ==
  "startRun" :> At("POST", <<"v1", "agents", Id, "runs">>) @@ "getRun" :> At("GET", <<"v1", "runs", Id>>)
  @@ "approveToolCall" :> At("POST", <<"v1", "runs", Id, "approve">>)
  @@ "agentRuntimeLive" :> Live @@ "agentRuntimeReady" :> Ready

PendingCall == Texts({"id", "tool_name"}) @@ OrNull(Maybe(Texts({"tool_id"}))) @@ Objects({"arguments"}) @@ "risk_level" :> RiskLevel
Run ==
  Texts({"id", "agent_id", "project_id"}) @@ Numbers({"agent_version", "step"})
  @@ "status" :> {"pending", "running", "waiting_approval", "completed", "failed", "cancelled"}
  @@ Maybe(Texts({"thread_id", "principal_id", "created_at"}) @@ OrNull(Texts({"output", "error_code", "finished_at"})))
  @@ Maybe(OrNull(Under("pending_call", PendingCall)))
StartRunRequest == Texts({"input"}) @@ Maybe(Texts({"thread_id"}) @@ Objects({"metadata"}))
ApprovalRequest == Texts({"tool_call_id"}) @@ Booleans({"approved"}) @@ Maybe(Texts({"reason"}))
StreamQuery == Maybe(Booleans({"stream"}))

RunOperations ==
  "startRun" :> Operation(TRUE, {StartRunRequest @@ StreamQuery}, {Streams, Gives(201, Run)})
  @@ "getRun" :> Returns(TRUE, Nothing, 200, Run @@ Maybe(Lists({"messages"})))
ApprovalOperations ==
  "approveToolCall" :> Operation(TRUE, {ApprovalRequest @@ StreamQuery}, {Streams, Gives(200, Run)})
  @@ "agentRuntimeLive" :> Probe @@ "agentRuntimeReady" :> Probe

-----------------------------------------------------------------------------

EvaluationPaths ==
  "listEvaluations" :> At("GET", <<"v1", "evaluations">>) @@ "runEvaluation" :> At("POST", <<"v1", "evaluations">>)
  @@ "getEvaluation" :> At("GET", <<"v1", "evaluations", Id>>) @@ "evaluationLive" :> Live @@ "evaluationReady" :> Ready

RunRequest == Maybe(Texts({"suite", "alias"}))
Metric ==
  "evaluator" :> {"groundedness", "relevance", "safety", "exact_match", "cost_per_answer", "latency_p95"}
  @@ Numbers({"value", "sample_size"}) @@ Booleans({"passed"}) @@ Maybe(OrNull(Numbers({"threshold", "maximum"})))
EvaluatedRun ==
  Texts({"id", "project_id", "suite", "alias", "started_at"}) @@ "status" :> {"running", "passed", "failed", "errored"}
  @@ Under("metrics", Metric) @@ Maybe(Texts({"principal_id"}) @@ OrNull(Texts({"error_code", "finished_at"})))
CaseOutcome == Texts({"case_id", "input"}) @@ Maybe(Objects({"scores"}) @@ OrNull(Texts({"answer", "error_code"})))

EvaluationOperations ==
  "listEvaluations" :> Returns(TRUE, {Maybe(Numbers({"limit"}))}, 200, Page(EvaluatedRun))
  @@ "runEvaluation" :> Operation(TRUE, {RunRequest, NoBody}, {Gives(202, Page(EvaluatedRun)), Gives(409, Page(EvaluatedRun))})
  @@ "getEvaluation" :> Returns(TRUE, Nothing, 200, EvaluatedRun @@ Maybe(Under("cases", CaseOutcome)))
  @@ "evaluationLive" :> Probe @@ "evaluationReady" :> Probe

-----------------------------------------------------------------------------

GuardrailPaths ==
  "analyzeContent" :> At("POST", <<"v1", "guardrails", "analyze">>)
  @@ "redactContent" :> At("POST", <<"v1", "guardrails", "redact">>) @@ "liveness" :> Live @@ "readiness" :> Ready

AnalyzeRequest ==
  Texts({"text"}) @@ "language" :> {"pt", "en"} @@ Booleans({"check_injection"}) @@ Maybe(Lists({"entities"}))
RedactRequest == AnalyzeRequest @@ "strategy" :> {"replace", "mask", "hash"}
Findings == Under("findings", Texts({"entity_type"}) @@ Numbers({"start", "end", "score"}))
Verdict == "decision" :> {"allow", "redact", "block"}
InjectionSignals == Under("injection.signals", Texts({"rule"}) @@ Numbers({"score"}) @@ Maybe(Texts({"excerpt"})))
AnalyzeResponse ==
  Findings @@ Verdict @@ Under("injection", Booleans({"suspected"}) @@ Maybe(Numbers({"score"}))) @@ InjectionSignals
RedactResponse ==
  Texts({"text"}) @@ Findings @@ Verdict
  @@ Maybe(Numbers({"redacted_count", "injection.score"}) @@ Booleans({"injection.suspected"}))

GuardrailOperations ==
  "analyzeContent" :> Returns(TRUE, {AnalyzeRequest}, 200, AnalyzeResponse)
  @@ "redactContent" :> Returns(TRUE, {RedactRequest}, 200, RedactResponse)
  @@ "liveness" :> Probe @@ "readiness" :> Probe

-----------------------------------------------------------------------------

Written(paths, operations) == [id \in DOMAIN paths |-> paths[id] @@ operations[id]]

Contracts ==
  "identity" :> Written(IdentityPaths, TokenOperations @@ PatOperations)
  @@ "governance" :> Written(GovernancePaths, ProjectOperations @@ PolicyOperations)
  @@ "inference-router" :> Written(RouterPaths, CompletionOperations @@ RouterProbes)
  @@ "registry" :> Written(AssetPaths @@ VersionPaths, AssetOperations @@ VersionOperations)
  @@ "knowledge" :> Written(StorePaths @@ DocumentPaths,
                            StoreOperations @@ SharingOperations @@ DocumentOperations @@ SearchOperations)
  @@ "mcp-gateway" :> Written(ToolPaths @@ ConnectionPaths, InvocationOperations @@ BindingOperations @@ ConnectionOperations)
  @@ "agent-runtime" :> Written(RuntimePaths, RunOperations @@ ApprovalOperations)
  @@ "evaluation" :> Written(EvaluationPaths, EvaluationOperations)
  @@ "guardrails" :> Written(GuardrailPaths, GuardrailOperations)

\* What a service makes of an operation: where it lands; of what may be sent, what is
\* refused and what nobody looks at; of what comes back, what was not announced.
Unserved == <<>>
Kept(of) ==
  LET operation == Contracts[of.service][of.operation]
      routes == Serving!Services[of.service]
      route == Serving!Handler(routes, operation.method, operation.path)
      announced(g) == {a \in operation.gives : a.status = g.status /\ a.streamed = g.streamed}
  IN IF Serving!Matching(routes, operation.method, operation.path) = {} THEN Unserved
     ELSE <<[route |-> route,
             refused |-> {sent \in operation.takes : \A t \in route.takes : ~Fits(sent, t)},
             ignored |-> UNION {InVain(taken[1], taken[2]) :
                                  taken \in {p \in operation.takes \X route.takes : Fits(p[1], p[2])}},
             unannounced |-> {g \in route.gives : announced(g) = {}},
             broken |-> {g \in route.gives : announced(g) # {} /\ \A a \in announced(g) : ~Fits(g.shape, a.shape)}]>>

\* What no contract tells of.
Unwritten(service) ==
  {i \in DOMAIN Serving!Services[service] :
     LET route == Serving!Services[service][i] IN
     \A id \in DOMAIN Contracts[service] :
       Contracts[service][id].method # route.method \/ Contracts[service][id].path # route.path}
=============================================================================
