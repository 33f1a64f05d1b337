----------------------------- MODULE EffectiveTools -----------------------------
(***************************************************************************)
(* The tools a project is told it has, what the gateway decides when one   *)
(* is invoked, and what an agent makes of the list: the tools it declares  *)
(* to its model and the store a file search is bound to.                   *)
(*                                                                         *)
(* A question is [registry, bindings, ready, classification, principal,    *)
(* project, agent]: the published tools of the project, the binding of     *)
(* each, the tools that have an executor that is available, the project's  *)
(* classification, who asks, and the tools and stores of an agent.         *)
(***************************************************************************)
EXTENDS Naturals, Sequences, SequencesExt, FiniteSets

Auth == INSTANCE Authorisation

DefaultRate == 60
Unknown == "unknown"  \* a classification that could not be read
NoStore == ""
Unbound == [bound |-> FALSE, enabled |-> FALSE, approval |-> FALSE, rate |-> DefaultRate]

Tool(id, slug, source, builtin, risk, zone) ==
  [id |-> id, slug |-> slug, source |-> source, builtin |-> builtin, risk |-> risk, zone |-> zone]

\* BUILTIN_TOOLS; what a registry tool says of its zone is nothing.
BuiltinTools == <<
  Tool("builtin.web_search", "web-search", "platform", "web_search", "low", "global"),
  Tool("builtin.web_fetch", "web-fetch", "platform", "web_fetch", "medium", "global"),
  Tool("builtin.current_time", "current-time", "platform", "current_time", "low", "local"),
  Tool("builtin.calculator", "calculator", "platform", "calculator", "low", "local"),
  Tool("builtin.file_search", "file-search", "platform", "file_search", "low", "local")>>

IsAllowedInProject(tool, binding) ==
  IF binding.bound THEN binding.enabled ELSE tool.source = "platform"

RequiresApproval(tool, binding) == tool.risk = "high" \/ binding.approval

LeavesPlatform(tool) == tool.zone \notin {Auth!Missing, "local"}

ClassificationFor(question, tools) ==
  IF \E t \in ToSet(tools) : LeavesPlatform(t) THEN question.classification ELSE Unknown

\* dataZoneRefusal
ZoneRefused(tool, classification) ==
  /\ LeavesPlatform(tool)
  /\ classification = Unknown \/ tool.zone \notin Auth!ZonesByClassification(classification)

\* decideInvocation, as InvokeTool asks it, and whether the tool can run then.
Decision(question, tool) ==
  LET binding == question.bindings[tool.id] IN
  [allowed |-> /\ IsAllowedInProject(tool, binding)
               /\ Auth!IsMember(question.principal, question.project)
               /\ Auth!CanInvoke(question.principal, question.project, tool.risk)
               /\ ~ZoneRefused(tool, ClassificationFor(question, <<tool>>)),
   ready |-> tool.id \in question.ready,
   approval |-> RequiresApproval(tool, binding), rate |-> binding.rate]

View(question, tool) ==
  LET binding == question.bindings[tool.id] IN
  [id |-> tool.id, slug |-> tool.slug, builtin |-> tool.builtin, 
   approval |-> RequiresApproval(tool, binding), rate |-> binding.rate]

\* (A mistake, for the mutant runs: the zone is left to the call.)
ReadyBuiltins(question) ==
  SelectSeq(BuiltinTools, LAMBDA t :
    IsAllowedInProject(t, question.bindings[t.id]) /\ t.id \in question.ready)

UsableBuiltins(question) ==
  LET ready == SelectSeq(BuiltinTools, LAMBDA t :
                 IsAllowedInProject(t, question.bindings[t.id]) /\ t.id \in question.ready)
  IN SelectSeq(ready, LAMBDA t : ~ZoneRefused(t, ClassificationFor(question, ready)))

\* (A mistake, for the mutant runs: both tools of one name are listed.)
ListAll(question) ==
  LET bound == SelectSeq(question.registry, LAMBDA t : question.bindings[t.id].enabled)
      all == bound \o UsableBuiltins(question)
  IN [i \in DOMAIN all |-> View(question, all[i])]

\* ListEffectiveTools: a tool of the registry keeps its name.
Listed(question) ==
  LET bound == SelectSeq(question.registry, LAMBDA t : question.bindings[t.id].enabled)
      taken == {bound[i].slug : i \in DOMAIN bound}
      all == bound \o SelectSeq(UsableBuiltins(question), LAMBDA t : t.slug \notin taken)
  IN [i \in DOMAIN all |-> View(question, all[i])]

-----------------------------------------------------------------------------
\* The agent runtime.

\* allowed_tools
AllowedTools(agent, listed) == SelectSeq(listed, LAMBDA v : v.id \in agent.tools)

Blocked(call) == [call EXCEPT !.blocked = TRUE]

\* (A mistake, for the mutant runs: the model names the store.)
BindAsNamed(call, stores) ==
  IF stores = <<>> /\ call.store = NoStore THEN Blocked(call)
  ELSE IF call.store = NoStore THEN [call EXCEPT !.store = Head(stores)] ELSE call

\* bind_store, of a file search
BindStore(call, stores) ==
  IF stores = <<>> THEN Blocked(call)
  ELSE IF call.store = NoStore THEN [call EXCEPT !.store = Head(stores)]
  ELSE IF call.store \in ToSet(stores) THEN call ELSE Blocked(call)

\* resolve_calls and bind_all: the name the model gave is looked up among the declared
\* ones; a name that nothing answers to has no tool.
Resolved(agent, listed, slug, store) ==
  LET those == SelectSeq(AllowedTools(agent, listed), LAMBDA v : v.slug = slug)
      call(id) == [slug |-> slug, tool |-> id, store |-> store, blocked |-> FALSE]
  IN IF those = <<>> THEN call(Auth!Missing)
     ELSE IF Last(those).builtin = "file_search" THEN BindStore(call(Last(those).id), agent.stores)
     ELSE call(Last(those).id)

\* What comes of a call to each tool of the list, with each store that a model may name.
Calls(question) ==
  LET listed == Listed(question) IN
  {Resolved(question.agent, listed, v.slug, store) :
     v \in ToSet(listed), store \in ToSet(question.agent.stores) \cup {NoStore, "other"}}
=============================================================================
