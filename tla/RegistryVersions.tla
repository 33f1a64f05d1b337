--------------------------- MODULE RegistryVersions ---------------------------
(***************************************************************************)
(* An asset of apps/registry and its versions: edited as a draft, frozen   *)
(* when it is published, withdrawn when it is deprecated, and resolved by  *)
(* the agent runtime at the start of a run.                                *)
(*                                                                         *)
(* A request reads the asset, then a version, and saves the version, then  *)
(* the asset, each whole; the repository compares nothing.  The revision   *)
(* that an editor has seen is what guards a draft.                         *)
(*                                                                         *)
(*   idle -> asset -> version -> saving -> closing -> done                 *)
(*                                                                         *)
(* A definition is the set of the edits that went into it: whoever edits   *)
(* adds an edit to what the form showed.                                   *)
(***************************************************************************)
EXTENDS Naturals, Sequences, SequencesExt

CONSTANTS
  Handlers,
  MaxVersions,  \* a bound: one more than a history has editors
  Histories     \* see the MC module

VARIABLES
  history,
  asset,      \* its document: pointers, 0 for none, and the latest number
  versions,   \* their documents
  handler,    \* where each request is, and its copies of both
  announced,  \* events, appended to the outbox with the asset
  released    \* for the properties: the definition of each version when it was published

registry == <<asset, versions, announced, released>>
vars == <<history, registry, handler>>

Numbers == 1 .. MaxVersions
NoVersion == [status |-> "absent", definition |-> {}, revision |-> 0]
NoAsset == [exists |-> FALSE, published |-> 0, draft |-> 0, latest |-> 0]
Draft(definition) == [status |-> "draft", definition |-> definition, revision |-> 1]

\* What the form of an editor holds: a version, its revision and its definition.
Blank == [version |-> 0, revision |-> 0, definition |-> {}]
Waiting == [pc |-> "idle", seen |-> Blank, asset |-> NoAsset, live |-> FALSE,
            number |-> 0, version |-> NoVersion]

Init ==
  /\ history \in Histories
  /\ asset = history.asset
  /\ versions = [n \in Numbers |-> IF n \in DOMAIN history.versions THEN history.versions[n] ELSE NoVersion]
  /\ handler = [r \in Handlers |-> Waiting]
  /\ announced = IF asset.published = 0 THEN <<>> ELSE <<<<"published", asset.published>>>>
  /\ released = [n \in Numbers |-> versions[n].definition]

Does(r, what) == r \in DOMAIN history.does /\ history.does[r].op = what
On(r, label) == handler[r].pc = label
Becomes(r, held) == handler' = [handler EXCEPT ![r] = held]
Ends(r, label) == Becomes(r, [Waiting EXCEPT !.pc = label, !.number = handler[r].number,
                                             !.version = handler[r].version])
Writers == {r \in DOMAIN history.does : ~Does(r, "run")}
AtRest == \A r \in Writers : handler[r].pc \in {"idle", "done", "refused", "gone"}
Larger(m, n) == IF m > n THEN m ELSE n

-----------------------------------------------------------------------------

\* The form of the console: the draft, or what is published without a draft, whose
\* revision is not passed on and then is 1.
Look(r) ==
  /\ Does(r, "edit") /\ On(r, "idle") /\ handler[r].seen = Blank /\ asset.exists
  /\ Becomes(r, [Waiting EXCEPT !.seen =
       IF asset.draft # 0
       THEN [version |-> asset.draft, revision |-> versions[asset.draft].revision,
             definition |-> versions[asset.draft].definition]
       ELSE [version |-> 0, revision |-> 1,
             definition |-> IF asset.published = 0 THEN {} ELSE versions[asset.published].definition]])
  /\ UNCHANGED <<history, registry>>

\* Every request reads the asset first; one that is patient waits for the others.
FindAsset(r) ==
  /\ On(r, "idle") /\ r \in DOMAIN history.does /\ ~Does(r, "create")
  /\ Does(r, "edit") => handler[r].seen # Blank
  /\ history.patient /\ r \in Writers => AtRest
  /\ IF asset.exists
     THEN Becomes(r, [handler[r] EXCEPT !.pc = "asset", !.asset = asset])
     ELSE Ends(r, "refused")
  /\ UNCHANGED <<history, registry>>

\* CreateAsset: the slug is free; its first draft has an id that nobody knows before
\* the asset is saved, which the unique index of slugs may refuse.
FindSlug(r) ==
  /\ Does(r, "create") /\ On(r, "idle")
  /\ IF asset.exists THEN Ends(r, "refused") ELSE Becomes(r, [Waiting EXCEPT !.pc = "creating"])
  /\ UNCHANGED <<history, registry>>

Create(r) ==
  /\ On(r, "creating")
  /\ IF asset.exists
     THEN UNCHANGED registry /\ Ends(r, "refused")
     ELSE /\ asset' = [exists |-> TRUE, published |-> 0, draft |-> 1, latest |-> 1]
          /\ versions' = [versions EXCEPT ![1] = Draft({r})]
          /\ Ends(r, "done")
          /\ UNCHANGED <<announced, released>>
  /\ UNCHANGED history

Saving(r, held, number, version, pointers) ==
  Becomes(r, [held EXCEPT !.pc = "saving", !.number = number, !.version = version, !.asset = pointers,
                          !.live = held.asset.published = number])

\* (A mistake, for the mutant runs: the number is taken without being recorded.)
ReopenedUnrecorded(a) == [a EXCEPT !.draft = Larger(a.latest, a.published) + 1]

\* (A mistake, for the mutant runs: the draft is numbered after what is published.)
ReopenedAfterPublished(a) ==
  LET next == a.published + 1 IN [a EXCEPT !.draft = next, !.latest = next]

\* reopenDraft
Reopened(a) ==
  LET next == Larger(a.latest, a.published) + 1 IN [a EXCEPT !.draft = next, !.latest = next]

\* (A mistake, for the mutant runs: the second editor is not told.)
UnseenUnchecked(seen, version) == FALSE

\* edit: the draft has moved since the editor read it.
Unseen(seen, version) == seen.revision # version.revision

IsDraft(number) == number # 0 /\ versions[number].status = "draft"

\* UpdateDraft: the draft the asset points at, or a fresh one if it is none.
FindDraft(r) ==
  LET held == handler[r]
      number == held.asset.draft
      edited == held.seen.definition \cup {r}
  IN
  /\ Does(r, "edit") /\ On(r, "asset")
  /\ IF ~IsDraft(number)
     THEN LET pointers == Reopened(held.asset) IN
          pointers.draft <= MaxVersions /\ Saving(r, held, pointers.draft, Draft(edited), pointers)
     ELSE IF Unseen(held.seen, versions[number])
     THEN Ends(r, "refused")
     ELSE Saving(r, held, number, [versions[number] EXCEPT !.definition = edited, !.revision = @ + 1], held.asset)
  /\ UNCHANGED <<history, registry>>

\* publishDraft
PublishedAs(a, n) == [a EXCEPT !.published = n, !.draft = 0, !.latest = Larger(@, n)]

\* PublishVersion: a draft, all of whose references resolve.
FindPublishable(r) ==
  LET held == handler[r] number == held.asset.draft IN
  /\ Does(r, "publish") /\ On(r, "asset")
  /\ \/ /\ IsDraft(number)
        /\ Saving(r, held, number, [versions[number] EXCEPT !.status = "published"],
                  PublishedAs(held.asset, number))
     \/ /\ IsDraft(number) => "references" \in history.faults
        /\ Ends(r, "refused")
  /\ UNCHANGED <<history, registry>>

\* (A mistake, for the mutant runs: the pointer stays where it was.)
WithdrawnPointing(a, n) == a

\* DeprecateVersion: the live version leaves nothing to resolve.
Withdrawn(a, n) == IF a.published = n THEN [a EXCEPT !.published = 0] ELSE a

FindDeprecated(r) ==
  LET held == handler[r] number == history.does[r].number IN
  /\ Does(r, "deprecate") /\ On(r, "asset")
  /\ IF versions[number].status = "published"
     THEN Saving(r, held, number, [versions[number] EXCEPT !.status = "deprecated"], Withdrawn(held.asset, number))
     ELSE Ends(r, "refused")
  /\ UNCHANGED <<history, registry>>

\* (A mistake, for the mutant runs: an unpublished asset runs as its draft.)
ResolvedOrDraft(a) == IF a.published = 0 THEN a.draft ELSE a.published

\* The version that a run pins: none if nothing is published.
Resolved(a) == a.published

\* GetPublishedVersion: no fallback to the draft, and no look at the status.
Resolve(r) ==
  LET number == Resolved(handler[r].asset) IN
  /\ Does(r, "run") /\ On(r, "asset")
  /\ IF (IF number = 0 THEN TRUE ELSE versions[number] = NoVersion)
     THEN Ends(r, "refused")
     ELSE Becomes(r, [Waiting EXCEPT !.pc = "done", !.number = number, !.version = versions[number]])
  /\ UNCHANGED <<history, registry>>

-----------------------------------------------------------------------------

\* Whether the asset is saved after the version, and with which event.
SavesAsset(r) ==
  CASE Does(r, "edit") -> handler[r].version.revision = 1 \/ history.does[r].renames
    [] Does(r, "deprecate") -> handler[r].live
    [] OTHER -> TRUE

SaveVersion(r) ==
  LET held == handler[r] IN
  /\ On(r, "saving")
  /\ versions' = [versions EXCEPT ![held.number] = held.version]
  /\ released' = IF Does(r, "publish") THEN [released EXCEPT ![held.number] = held.version.definition] ELSE released
  /\ IF SavesAsset(r) THEN Becomes(r, [held EXCEPT !.pc = "closing"]) ELSE Ends(r, "done")
  /\ UNCHANGED <<history, asset, announced>>

Event(r) ==
  CASE Does(r, "publish")   -> <<<<"published", handler[r].number>>>>
    [] Does(r, "deprecate") -> <<<<"deprecated", handler[r].number>>>>
    [] OTHER                -> <<>>

\* The asset and its event, in one transaction.
SaveAsset(r) ==
  /\ On(r, "closing")
  /\ asset' = handler[r].asset
  /\ announced' = announced \o Event(r)
  /\ Ends(r, "done")
  /\ UNCHANGED <<history, versions, released>>

\* The process dies, or MongoDB rejects: nothing more is saved.
Fail(r) ==
  /\ "crash" \in history.faults
  /\ handler[r].pc \in {"saving", "closing", "creating"}
  /\ Ends(r, "gone")
  /\ UNCHANGED <<history, registry>>

Handle(r) ==
  \/ Look(r) \/ FindAsset(r) \/ FindSlug(r) \/ Create(r) \/ FindDraft(r) \/ FindPublishable(r)
  \/ FindDeprecated(r) \/ Resolve(r) \/ SaveVersion(r) \/ SaveAsset(r) \/ Fail(r)

Over == \A r \in DOMAIN history.does : handler[r].pc \in {"done", "refused", "gone"}

Next == \E r \in Handlers : Handle(r)

Spec == Init /\ [][Next]_vars

-----------------------------------------------------------------------------

TypeOK ==
  /\ asset.published \in 0 .. MaxVersions /\ asset.draft \in 0 .. asset.latest
  /\ asset.latest \in 0 .. MaxVersions
  /\ \A n \in Numbers : /\ versions[n].status \in {"absent", "draft", "published", "deprecated"}
                        /\ versions[n].definition \subseteq Handlers
  /\ \A r \in Handlers : handler[r].pc \in {"idle", "asset", "saving", "closing", "creating", "done",
                                            "refused", "gone"}

Released(v) == v.status \in {"published", "deprecated"}

\* Whoever runs the asset gets what was released under that number, though versions
\* are published and withdrawn between the two reads, and drafts edited and lost.
RunsWhatWasReleased ==
  history.patient =>
    \A r \in Handlers : Does(r, "run") /\ On(r, "done") =>
      /\ <<"published", handler[r].number>> \in ToSet(announced)
      /\ handler[r].version.status # "draft"
      /\ handler[r].version.definition = released[handler[r].number]

\* What can be resolved was announced; and once a version was withdrawn nothing
\* resolves to it, unless the request that did so died (deprecate-version.ts:26-28).
PointerTellsTheTruth ==
  /\ asset.published # 0 => <<"published", asset.published>> \in ToSet(announced)
  /\ history.patient /\ "crash" \notin history.faults /\ AtRest /\ asset.published # 0 =>
       versions[asset.published].status = "published"
=============================================================================
