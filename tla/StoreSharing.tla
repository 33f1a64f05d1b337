----------------------------- MODULE StoreSharing -----------------------------
(***************************************************************************)
(* A knowledge store that its owner offers to other projects and takes     *)
(* back, the projects that accept it, and what they then find in it.       *)
(*                                                                         *)
(* Reading across projects takes two consents, which are two documents:    *)
(* the visibility of the store and the subscription of the project.  A     *)
(* reader reads one, then the other; withdrawing writes one, then removes  *)
(* the others.                                                             *)
(*                                                                         *)
(*   subscribe:     idle -> probing -> accepting -> done                   *)
(*   withdraw:      idle -> dropping -> done                               *)
(*   search, list:  idle -> asking -> searching -> served                  *)
(***************************************************************************)
EXTENDS Naturals, FiniteSets

CONSTANTS
  Requests,
  Projects,   \* all the projects
  Owner,      \* the one that has the store
  Acl,        \* of each document of the store, fixed when it is registered
  Scenarios   \* what each request asks, and what may happen to it

VARIABLES
  scenario,
  visibility,     \* of the document of the store; nothing else of it ever changes
  subscriptions,  \* the projects with a document of their own
  request,
  offer,          \* for the properties: how often the store has been offered
  accepted        \* for the properties: the offer that each project accepted last

store == <<visibility, subscriptions, offer, accepted>>
vars == <<scenario, store, request>>

Documents == DOMAIN Acl
Waiting == [pc |-> "idle", offer |-> 0, public |-> FALSE, consent |-> 0, candidates |-> {}, hits |-> {}]

Init ==
  /\ scenario \in Scenarios
  /\ visibility = "private"
  /\ subscriptions = {}
  /\ request = [r \in Requests |-> Waiting]
  /\ offer = 0
  /\ accepted = [p \in Projects |-> 0]

Asks(r, what) == r \in DOMAIN scenario.does /\ scenario.does[r].op \in what
On(r, label) == request[r].pc = label
Goes(r, label) == request' = [request EXCEPT ![r].pc = label]
ProjectOf(r) == scenario.does[r].project
Writers == {r \in DOMAIN scenario.does : Asks(r, {"publish", "withdraw", "subscribe", "unsubscribe"})}
Ended == {"done", "refused", "served", "gone"}
AtRest == \A r \in Writers : request[r].pc \in Ended \cup {"idle"}

\* Patient requests of the two sides wait for each other; readers never wait.
Starts(r, what) ==
  /\ Asks(r, what) /\ On(r, "idle")
  /\ scenario.patient /\ r \in Writers => AtRest

-----------------------------------------------------------------------------

\* ChangeStoreVisibility: the store is saved, then a withdrawal has more to do.
ChangeVisibility(r) ==
  /\ Starts(r, {"publish", "withdraw"}) /\ ProjectOf(r) = Owner
  /\ LET public == Asks(r, {"publish"}) IN
     /\ visibility' = IF public THEN "public" ELSE "private"
     /\ offer' = IF public /\ visibility = "private" THEN offer + 1 ELSE offer
     /\ Goes(r, IF public THEN "done" ELSE "dropping")
  /\ UNCHANGED <<scenario, subscriptions, accepted>>

\* (A mistake, for the mutant runs: the withdrawal ends with the save.)
DropSubscriptionsNever(r) ==
  /\ On(r, "dropping") /\ Goes(r, "done")
  /\ UNCHANGED <<scenario, store>>

\* removeForStore
DropSubscriptions(r) ==
  /\ On(r, "dropping")
  /\ subscriptions' = {}
  /\ Goes(r, "done")
  /\ UNCHANGED <<scenario, visibility, offer, accepted>>

\* (A mistake, for the mutant runs: a project subscribes to its own store.)
FindOfferedOrOwn(r) ==
  /\ Starts(r, {"subscribe"})
  /\ IF visibility = "public"
     THEN request' = [request EXCEPT ![r].pc = "probing", ![r].offer = offer]
     ELSE Goes(r, "refused")
  /\ UNCHANGED <<scenario, store>>

\* SubscribeToStore: a store that is not offered is not found.
FindOffered(r) ==
  /\ Starts(r, {"subscribe"})
  /\ IF visibility = "public" /\ ProjectOf(r) # Owner
     THEN request' = [request EXCEPT ![r].pc = "probing", ![r].offer = offer]
     ELSE Goes(r, "refused")
  /\ UNCHANGED <<scenario, store>>

\* Whether the project's own alias gives vectors of the width of the store.
Probe(r) ==
  /\ On(r, "probing")
  /\ \/ Goes(r, "accepting")
     \/ "alias" \in scenario.faults /\ Goes(r, "refused")
  /\ UNCHANGED <<scenario, store>>

Accept(r) ==
  /\ On(r, "accepting")
  /\ subscriptions' = subscriptions \cup {ProjectOf(r)}
  /\ accepted' = [accepted EXCEPT ![ProjectOf(r)] = request[r].offer]
  /\ Goes(r, "done")
  /\ UNCHANGED <<scenario, visibility, offer>>

Unsubscribe(r) ==
  /\ Starts(r, {"unsubscribe"})
  /\ subscriptions' = subscriptions \ {ProjectOf(r)}
  /\ Goes(r, "done")
  /\ UNCHANGED <<scenario, visibility, offer, accepted>>

-----------------------------------------------------------------------------

\* A reader's first read.  The owner is not asked for a subscription.
FindStore(r) ==
  /\ Starts(r, {"search", "list"})
  /\ request' = [request EXCEPT ![r].pc = IF ProjectOf(r) = Owner THEN "searching" ELSE "asking",
                                ![r].public = visibility = "public", ![r].offer = offer]
  /\ UNCHANGED <<scenario, store>>

\* accessTo
MayRead(public, subscribed) == public /\ subscribed

\* isSubscribed, the second read, and what both allow.
AskConsent(r) ==
  /\ On(r, "asking")
  /\ IF MayRead(request[r].public, ProjectOf(r) \in subscriptions)
     THEN request' = [request EXCEPT ![r].pc = "searching", ![r].consent = accepted[ProjectOf(r)]]
     ELSE Goes(r, "refused")
  /\ UNCHANGED <<scenario, store>>

Crosses(r) == ProjectOf(r) # Owner

\* (A mistake, for the mutant runs: a group is taken to mean the same everywhere.)
TrimmingSpecForAll(r) == [groups |-> scenario.does[r].groups, principals |-> {scenario.does[r].principal}]

\* trimmingSpecFor: across projects the caller is nobody.
TrimmingSpec(r) ==
  [groups     |-> IF Crosses(r) THEN {} ELSE scenario.does[r].groups,
   principals |-> IF Crosses(r) THEN {} ELSE {scenario.does[r].principal}]

\* What the filters of Qdrant and of the text index let through.
Filtered(spec) ==
  {d \in Documents : Acl[d].public \/ Acl[d].groups \cap spec.groups # {} \/ Acl[d].principals \cap spec.principals # {}}

\* DocumentAcl.allows, or only what is public, on the documents of the hits.
Allowed(r) ==
  {d \in Documents : IF Crosses(r) THEN Acl[d].public
                     ELSE \/ Acl[d].public
                          \/ scenario.does[r].principal \in Acl[d].principals
                          \/ scenario.does[r].groups \cap Acl[d].groups # {}}

\* SearchStore, of a query that every chunk matches.
Search(r) ==
  /\ On(r, "searching") /\ Asks(r, {"search"})
  /\ \/ LET candidates == Filtered(TrimmingSpec(r)) IN
        request' = [request EXCEPT ![r].pc = "served", ![r].candidates = candidates,
                                   ![r].hits = candidates \cap Allowed(r)]
     \/ "alias" \in scenario.faults /\ Goes(r, "refused")
  /\ UNCHANGED <<scenario, store>>

\* ListDocuments: titles, of all of them for whoever is of the owner's project.
ListDocuments(r) ==
  /\ On(r, "searching") /\ Asks(r, {"list"})
  /\ LET shown == {d \in Documents : Crosses(r) => Acl[d].public} IN
     request' = [request EXCEPT ![r].pc = "served", ![r].candidates = shown, ![r].hits = shown]
  /\ UNCHANGED <<scenario, store>>

\* The process dies, or MongoDB rejects.
Fail(r) ==
  /\ "crash" \in scenario.faults
  /\ request[r].pc \in {"dropping", "accepting"}
  /\ Goes(r, "gone")
  /\ UNCHANGED <<scenario, store>>

Handle(r) ==
  \/ ChangeVisibility(r) \/ DropSubscriptions(r) \/ FindOffered(r) \/ Probe(r) \/ Accept(r) \/ Unsubscribe(r)
  \/ FindStore(r) \/ AskConsent(r) \/ Search(r) \/ ListDocuments(r) \/ Fail(r)

Next == \E r \in Requests : Handle(r)

Spec == Init /\ [][Next]_vars

Over == \A r \in DOMAIN scenario.does : request[r].pc \in Ended

-----------------------------------------------------------------------------

TypeOK ==
  /\ visibility \in {"private", "public"}
  /\ subscriptions \subseteq Projects \ {Owner}
  /\ \A p \in Projects : accepted[p] \in 0 .. offer
  /\ \A r \in Requests : request[r].hits \subseteq Documents

Served(r) == On(r, "served") /\ Crosses(r)

\* Withdrawing revokes: whoever is served accepted the offer that stands, or a later
\* one, and never one that was withdrawn since, though it is made again
\* (share-store.ts:51-53), provided that the two sides do not overlap and no
\* withdrawal dies half-way.
WithdrawnRevokes ==
  scenario.patient /\ "crash" \notin scenario.faults =>
    \A r \in DOMAIN scenario.does : Served(r) => request[r].consent >= request[r].offer

\* Whatever overlaps and dies, a store that was never offered is not read by others,
\* and nothing but the public documents crosses; nothing that the ACL forbids was
\* even a candidate, and a subscriber sees listed exactly what it could search
\* (security-trimming.ts:40-51, search-store.ts:184-203, manage-stores.ts:117-118).
OnlyPublicCrosses ==
  \A r \in DOMAIN scenario.does :
    /\ Served(r) => request[r].hits = {d \in Documents : Acl[d].public} /\ request[r].offer > 0
    /\ On(r, "served") => request[r].hits = request[r].candidates
=============================================================================
