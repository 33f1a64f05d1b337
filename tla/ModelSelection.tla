----------------------------- MODULE ModelSelection -----------------------------
(***************************************************************************)
(* Which deployments may serve a request for an alias, in which order they *)
(* are tried, and for how many tokens each is asked: the policy of ADR-010 *)
(* with the providers that have a key, and the list of models beside it.   *)
(*                                                                         *)
(* A question is [alias, allowed, zones, keyed, requested, ceiling]: the   *)
(* alias as the catalogue has it, whether the project allows it, the zones *)
(* it allows, the providers with a key, and the tokens that the request    *)
(* and the project's rule name, NoLimit if they do not.                    *)
(***************************************************************************)
EXTENDS Integers, Sequences, SequencesExt

NoLimit == -1
NoWidth == 0

Deployment(provider, zone, priority, max, width) ==
  [provider |-> provider, zone |-> zone, priority |-> priority, max |-> max, width |-> width,
   enabled |-> TRUE]

\* defaultAliasCatalog
DefaultCatalog == [
  chat_fast |-> [capabilities |-> {"chat", "tools"}, deployments |-> <<
    Deployment("gemini", "global", 0, 8192, NoWidth), Deployment("gemini", "global", 1, 8192, NoWidth),
    Deployment("openai", "us", 2, 8192, NoWidth), Deployment("ollama", "local", 3, 4096, NoWidth)>>],
  chat_advanced |-> [capabilities |-> {"chat", "tools"}, deployments |-> <<
    Deployment("anthropic", "us", 0, 16384, NoWidth), Deployment("gemini", "global", 1, 16384, NoWidth),
    Deployment("ollama", "local", 2, 4096, NoWidth)>>],
  chat_local |-> [capabilities |-> {"chat"}, deployments |-> <<Deployment("ollama", "local", 0, 4096, NoWidth)>>],
  embedding_default |-> [capabilities |-> {"embeddings"}, deployments |-> <<
    Deployment("openai", "us", 0, 1, 1536), Deployment("gemini", "global", 1, 1, 3072),
    Deployment("ollama", "local", 2, 1, 768)>>]]

\* (A mistake, for the mutant runs: as the catalogue has them.)
AsDeclared(deployments) == deployments

\* ModelAlias.of: a stable sort.
ByPriority(deployments) ==
  LET before(i, j) == \/ deployments[i].priority < deployments[j].priority
                      \/ deployments[i].priority = deployments[j].priority /\ i < j
      order == SetToSortSeq(DOMAIN deployments, before)
  IN [i \in DOMAIN order |-> deployments[order[i]]]

Allowed(question) ==
  SelectSeq(ByPriority(question.alias.deployments),
            LAMBDA d : d.enabled /\ d.zone \in question.zones)

\* compatible: why it throws, or the chain.
Refusal(question, capability) ==
  CASE capability \notin question.alias.capabilities -> "capability_not_supported"
    [] ~question.allowed -> "alias_not_allowed"
    [] Allowed(question) = <<>> -> "no_compatible_deployment"
    [] OTHER -> "none"
Compatible(question, capability) ==
  IF Refusal(question, capability) = "none" THEN Allowed(question) ELSE <<>>

\* (A mistake, for the mutant runs: the rule of the project is passed over.)
RequestedOnly(question, deployment) ==
  Min({deployment.max} \cup ({question.requested} \ {NoLimit}))

EffectiveMaxOutputTokens(question, deployment) ==
  Min({deployment.max} \cup ({question.requested, question.ceiling} \ {NoLimit}))

Usable(question, chain) == SelectSeq(chain, LAMBDA d : d.provider \in question.keyed)

SameWidth(chain) ==
  IF chain = <<>> \/ Head(chain).width = NoWidth THEN chain
  ELSE SelectSeq(chain, LAMBDA d : d.width \in {NoWidth, Head(chain).width})

\* What the providers are asked, one after the other: the ceiling is that of the first
\* compatible deployment, and each is asked no more than its own.
ChatAttempts(question) ==
  LET chain == Compatible(question, "chat")
      tried == Usable(question, chain)
  IN [i \in DOMAIN tried |->
       [deployment |-> tried[i],
        tokens |-> Min({tried[i].max, EffectiveMaxOutputTokens(question, Head(chain))})]]

\* (A mistake, for the mutant runs: the width is that of a deployment nobody can use.)
WidthBeforeKeys(question) == Usable(question, SameWidth(Compatible(question, "embeddings")))

EmbeddingAttempts(question) == SameWidth(Usable(question, Compatible(question, "embeddings")))

\* visibleAliases, and what ListModels says of one.
Visible(question) ==
  /\ question.allowed
  /\ \E i \in DOMAIN question.alias.deployments :
       LET d == question.alias.deployments[i] IN d.enabled /\ d.zone \in question.zones
ListedMax(question) == LET shown == Allowed(question) IN Max({shown[i].max : i \in DOMAIN shown})

Selected(question) ==
  [chat |-> ChatAttempts(question), embeddings |-> EmbeddingAttempts(question),
   visible |-> Visible(question), max |-> IF Visible(question) THEN ListedMax(question) ELSE 0]
=============================================================================
