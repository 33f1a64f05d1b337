------------------------------- MODULE MCAccess -------------------------------
(***************************************************************************)
(* An instance of Access: one store with a document of each kind, and a    *)
(* project that accepts it twice; one token; three replicas; an asset with *)
(* two editors, for one to come too late, two publishers, two that         *)
(* withdraw, and a run that resolves meanwhile.                            *)
(***************************************************************************)
EXTENDS Access, TLC

CONSTANTS o1, o2, o3, s1, s2, u1, f1, f2, l1, i1, i2, v1, v2, e1, e2, e3, p1, p2, d1, d2, run, new

AllRequests == {o1, o2, o3, s1, s2, u1, f1, f2, l1}
AllProjects == {"acme", "globex"}

\* One for all, one for a role, and one for a person.
DocumentsAcl ==
  "handbook" :> [public |-> TRUE, groups |-> {}, principals |-> {}]
  @@ "payroll" :> [public |-> FALSE, groups |-> {"admin"}, principals |-> {}]
  @@ "review" :> [public |-> FALSE, groups |-> {}, principals |-> {"ann"}]

Ask(op, project) == [op |-> op, project |-> project, principal |-> "ann", groups |-> {"admin"}]
Stranger(op, project) == [op |-> op, project |-> project, principal |-> "bob", groups |-> {"member"}]

\* The store is offered, withdrawn and offered again; a project accepts twice.
Patient ==
  [patient |-> TRUE, faults |-> {"alias"},
   does |-> o1 :> Ask("publish", "acme") @@ o2 :> Ask("withdraw", "acme") @@ o3 :> Ask("publish", "acme")
            @@ s1 :> Ask("subscribe", "globex") @@ s2 :> Ask("subscribe", "globex") @@ u1 :> Ask("unsubscribe", "globex")
            @@ f1 :> Ask("search", "globex") @@ l1 :> Ask("list", "globex")]

\* The same requests overlap, and die; the owner's people read as well.
Rushed ==
  [patient |-> FALSE, faults |-> {"crash"},
   does |-> o1 :> Ask("publish", "acme") @@ o2 :> Ask("withdraw", "acme") @@ o3 :> Ask("publish", "acme")
            @@ s1 :> Ask("subscribe", "globex") @@ s2 :> Ask("subscribe", "acme")
            @@ f1 :> Ask("search", "globex") @@ f2 :> Stranger("search", "acme")]

AllScenarios == {Patient, Rushed}
AllHandlers == {e1, e2, e3, p1, p2, d1, d2, run, new}

Edits(renames) == [op |-> "edit", renames |-> renames]
Publishes      == [op |-> "publish"]
Runs           == [op |-> "run"]
Creates        == [op |-> "create"]
Deprecates(n)  == [op |-> "deprecate", number |-> n]

Frozen == [status |-> "published", definition |-> {}, revision |-> 2]
Begun  == [status |-> "draft", definition |-> {}, revision |-> 1]
Nothing == [exists |-> FALSE, published |-> 0, draft |-> 0, latest |-> 0]
Live   == [exists |-> TRUE, published |-> 1, draft |-> 0, latest |-> 1]

\* A published asset with a draft is edited, published again and withdrawn, one
\* request at a time.
PatientRelease ==
  [patient |-> TRUE, faults |-> {}, asset |-> [Live EXCEPT !.draft = 2, !.latest = 2],
   versions |-> 1 :> Frozen @@ 2 :> Begun,
   does |-> e1 :> Edits(FALSE) @@ e2 :> Edits(TRUE) @@ p1 :> Publishes @@ p2 :> Publishes
            @@ d1 :> Deprecates(1) @@ d2 :> Deprecates(2) @@ run :> Runs]

\* A published asset, and requests that die.
DyingRelease ==
  [patient |-> TRUE, faults |-> {"crash", "references"}, asset |-> Live, versions |-> 1 :> Frozen,
   does |-> e1 :> Edits(TRUE) @@ e2 :> Edits(FALSE) @@ p1 :> Publishes @@ p2 :> Publishes
            @@ d1 :> Deprecates(1) @@ d2 :> Deprecates(2) @@ run :> Runs]

\* A new asset, created twice, and requests that do not wait for each other.
RushedRelease ==
  [patient |-> FALSE, faults |-> {}, asset |-> Nothing, versions |-> <<>>,
   does |-> new :> Creates @@ e3 :> Creates @@ e1 :> Edits(TRUE) @@ p1 :> Publishes @@ p2 :> Publishes]

AllHistories == {PatientRelease, DyingRelease, RushedRelease}

\* Tokens with roles nobody knows, with two memberships in a project, with either
\* spelling of its id, and none.
Entries ==
  [project_id : {"p", Auth!Missing, Auth!Empty}, projectId : {"p", "q", Auth!Missing},
   roles : {{"project_owner"}, {"project_viewer", "superuser"}}]
Claims ==
  [roles : {{}, {"platform_admin"}, {"auditor", "superuser"}}, memberships : SeqOf(Entries, 2),
   scope : {"inference", Auth!Missing}, scp : {"registry", Auth!Missing}]
ClaimQuestions ==
  {[claims |-> c, project |-> "p", classification |-> z] :
     c \in Claims, z \in {"public", "confidential", "restricted", "secret"}}

\* The aliases of the default catalogue, and one whose deployments are declared out of
\* their order, two with the same priority, with one that names no width.
Mixed ==
  [capabilities |-> {"chat", "embeddings"}, deployments |-> <<
     Models!Deployment("openai", "us", 1, 8192, 1536), Models!Deployment("gemini", "br", 0, 4096, 768),
     Models!Deployment("ollama", "local", 1, 2048, Models!NoWidth),
     Models!Deployment("anthropic", "us", 2, 16384, 768)>>]
Enabled(alias, those) ==
  [alias EXCEPT !.deployments = [i \in DOMAIN @ |-> [@[i] EXCEPT !.enabled = i \in those]]]
Catalog == {Models!DefaultCatalog[name] : name \in DOMAIN Models!DefaultCatalog}
Aliases ==
  {<<TRUE, alias>> : alias \in Catalog}
  \cup UNION {{<<FALSE, Enabled(alias, those)>> : those \in SUBSET DOMAIN alias.deployments} :
               alias \in Catalog \cup {Mixed}}
ModelQuestions ==
  {[default |-> a[1], alias |-> a[2], allowed |-> p, zones |-> z, keyed |-> k, requested |-> r, ceiling |-> c] :
     a \in Aliases, p \in BOOLEAN,
     z \in {Auth!ZonesByClassification(c) : c \in {"public", "confidential", "restricted"}} \cup {{"us"}},
     k \in {{"ollama"}, {"ollama", "gemini", "openai"}, {"openai", "anthropic"}},
     r \in {Models!NoLimit, 3000, 10000}, c \in {Models!NoLimit, 5000}}

\* A tool of the project's own, of any risk, and one that has the name of a built-in
\* and is a file search; bindings that allow, raise the bar, switch off or are not there.
Own(risk) == Tools!Tool("t1", "tickets", "registry", Auth!Missing, risk, Auth!Missing)
Homonym == Tools!Tool("t2", "file-search", "registry", "file_search", "low", Auth!Missing)
Bound(on, approval, rate) == [bound |-> TRUE, enabled |-> on, approval |-> approval, rate |-> rate]
On == Bound(TRUE, FALSE, 60)
Off == Bound(FALSE, FALSE, 60)
Careful == Bound(TRUE, TRUE, 5)
Builtin(name) == "builtin." \o name
BindingsOf(own, homonym, web, file) ==
  "t1" :> own @@ "t2" :> homonym @@ Builtin("web_search") :> web @@ Builtin("web_fetch") :> Tools!Unbound
  @@ Builtin("current_time") :> Off @@ Builtin("calculator") :> Careful @@ Builtin("file_search") :> file
Person(roles) == [roles |-> {}, memberships |-> <<[project |-> "p", roles |-> roles]>>]
AllTools == {"t1", "t2"} \cup {Builtin(b) : b \in {"web_search", "web_fetch", "current_time", "calculator", "file_search"}}
ToolQuestions ==
  {[registry |-> <<Own(risk), Homonym>>, bindings |-> BindingsOf(own, homonym, web, file), ready |-> ready,
    classification |-> c, principal |-> p, project |-> "p", agent |-> agent] :
     risk \in {"low", "high"}, own \in {Tools!Unbound, Off, On, Careful}, homonym \in {Tools!Unbound, On},
     web \in {Tools!Unbound, Off, On}, file \in {Tools!Unbound, Careful},
     ready \in {AllTools, AllTools \ {"t1", Builtin("web_search")}},
     c \in {"public", "restricted", Tools!Unknown},
     p \in {Person({"project_owner"}), Person({"project_viewer"}), [roles |-> {}, memberships |-> <<>>]},
     agent \in {[tools |-> AllTools, stores |-> <<"s1", "s2">>],
                [tools |-> {"t1", Builtin("file_search")}, stores |-> <<>>]}}

OperationQuestions ==
  UNION {{[service |-> s, operation |-> o] : o \in DOMAIN Written!Contracts[s]} : s \in DOMAIN Written!Contracts}

\* People with every mix of roles in two memberships, of one project or of two; agents with
\* tools that are still on offer, or no more, and one that is switched back on.
Membership == [project : {"p", "q"}, roles : {{}} \cup {{r} : r \in Auth!Roles} \cup {{"project_viewer", "project_editor"}}]
ScreenQuestions ==
  {[principal |-> [roles |-> r, memberships |-> m], project |-> "p", store |-> s] :
     r \in SUBSET {"platform_admin", "project_owner", "auditor"}, m \in SeqOf(Membership, 2), s \in {"own", "shared", "offered"}}
Attachments == {a \in SeqOf([tool : {"t1", "t2", "t3"}, version : {Client!Unpinned, 2}], 2) :
                  Len(a) = 2 => a[1].tool # a[2].tool}
FormQuestions ==
  [attached : Attachments, attachable : {<<>>, <<"t1">>, <<"t2", "t1">>}, toggled : SUBSET {"t1", "t2", "t3"},
   settings : SUBSET {"temperature", "top_p", "max_output_tokens", "knowledge"}]

AllQuestions ==
  [claims |-> ClaimQuestions, models |-> ModelQuestions, tools |-> ToolQuestions,
   operations |-> OperationQuestions, calls |-> DOMAIN Client!Calls,
   screens |-> ScreenQuestions, forms |-> FormQuestions]

AllParts == {"sharing", "tokens", "keys", "registry", "decisions"}
=============================================================================
