----------------------------- MODULE Authorisation -----------------------------
(***************************************************************************)
(* Whom a token speaks for and what that opens: the claims as @aia/auth    *)
(* reads them in the TypeScript services and as aia_auth does in the       *)
(* Python ones, and the zones each lets classified data reach.             *)
(*                                                                         *)
(* Claims are [roles, memberships, scope, scp]; an entry of memberships is *)
(* [project_id, projectId, roles]; what a claim does not carry is Missing. *)
(***************************************************************************)
EXTENDS Sequences, SequencesExt

Missing == "missing"
Empty == ""

Roles == {"platform_admin", "project_owner", "project_editor", "project_viewer", "auditor"}

\* (A mistake, for the mutant runs: a role nobody knows is a role.)
AcceptRoles(claimed) == claimed

\* parseRoles, _parse_roles
ParseRoles(claimed) == claimed \cap Roles

\* `??` takes an empty text for an answer, `or` does not.
ProjectOf(language, entry) ==
  LET chosen == IF language = "typescript" THEN {Missing} ELSE {Missing, Empty}
  IN IF entry.project_id \in chosen THEN entry.projectId ELSE entry.project_id

ParseMemberships(language, entries) ==
  LET named == SelectSeq(entries, LAMBDA e : ProjectOf(language, e) \notin {Missing, Empty})
  IN [i \in DOMAIN named |->
       [project |-> ProjectOf(language, named[i]), roles |-> ParseRoles(named[i].roles)]]

\* A text with one scope stands for any text.
ParseScopes(language, claims) ==
  LET chosen == IF language = "typescript" THEN {Missing} ELSE {Missing, Empty}
      text == IF claims.scope \in chosen THEN claims.scp ELSE claims.scope
  IN {text} \ {Missing, Empty}

Principal(language, claims) ==
  [roles |-> ParseRoles(claims.roles),
   memberships |-> ParseMemberships(language, claims.memberships),
   scopes |-> ParseScopes(language, claims)]

IsPlatformAdmin(principal) == "platform_admin" \in principal.roles

\* rolesInProject
RolesInProject(principal, project) ==
  LET those == SelectSeq(principal.memberships, LAMBDA m : m.project = project)
  IN principal.roles \cup IF those = <<>> THEN {} ELSE Head(those).roles

\* isMemberOfProject
IsMember(principal, project) ==
  IsPlatformAdmin(principal) \/ \E i \in DOMAIN principal.memberships : principal.memberships[i].project = project

\* HasRoleInProject
HasRole(principal, project, roles) ==
  IsPlatformAdmin(principal) \/ RolesInProject(principal, project) \cap roles # {}

\* canInvokeToolRisk
CanInvoke(principal, project, risk) == risk = "high" => HasRole(principal, project, {"project_owner"})

\* Principal.roles_in, belongs_to and require_membership of aia_auth.
RolesIn(principal, project) ==
  LET of == {i \in DOMAIN principal.memberships : principal.memberships[i].project = project}
  IN IF of = {} THEN principal.roles ELSE principal.roles \cup principal.memberships[Min(of)].roles
BelongsTo(principal, project) ==
  project \in {principal.memberships[i].project : i \in DOMAIN principal.memberships}
RequireMembership(principal, project) == IsPlatformAdmin(principal) \/ BelongsTo(principal, project)

AllZones == {"local", "br", "us", "eu", "global"}

\* ZONES_BY_CLASSIFICATION of @aia/auth; what is not classified goes nowhere.
ZonesByClassification(classification) ==
  CASE classification \in {"public", "internal"} -> AllZones
    [] classification = "confidential" -> {"local", "br"}
    [] classification = "restricted" -> {"local"}
    [] OTHER -> {}

\* zone_is_compatible of aia_auth, over a table of its own.
ZoneIsCompatible(classification, zone) ==
  \/ classification \in {"public", "internal"} /\ zone \in AllZones
  \/ classification = "confidential" /\ zone \in {"local", "br"}
  \/ classification = "restricted" /\ zone = "local"
=============================================================================
