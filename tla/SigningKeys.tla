------------------------------ MODULE SigningKeys ------------------------------
(***************************************************************************)
(* The key that replicas of apps/identity sign tokens with, when none is   *)
(* configured: the first replica generates it and stores it, the others    *)
(* load it, once, at the first token or the first request for the JWKS.    *)
(*                                                                         *)
(*   down -> loading -> ready        loading -> inserting -> ready         *)
(*   loading -> broken: the rejection is kept until the process restarts   *)
(***************************************************************************)
EXTENDS Naturals

CONSTANTS
  Replicas,
  MaxBoots   \* a bound: how often a replica restarts

VARIABLES
  key,      \* the pair of the one key of the collection, or none
  replica,  \* where each is, and the pair that it holds
  boots,
  signed    \* for the properties: the pairs that tokens were signed with

vars == <<key, replica, boots, signed>>

\* The pairs that a replica generates differ at every boot.
None == <<>>
Pairs == Replicas \X (0 .. MaxBoots)
Down == [pc |-> "down", pair |-> None]

Init ==
  /\ key = None
  /\ replica = [r \in Replicas |-> Down]
  /\ boots = [r \in Replicas |-> 0]
  /\ signed = {}

On(r, label) == replica[r].pc = label
Becomes(r, label, pair) == replica' = [replica EXCEPT ![r] = [pc |-> label, pair |-> pair]]

\* ensureReady: the first caller starts it, all wait for the same promise.
Load(r) ==
  /\ On(r, "down")
  /\ Becomes(r, "loading", None)
  /\ UNCHANGED <<key, boots, signed>>

\* loadOrCreate: what is stored, or a pair of its own.
FindKey(r) ==
  /\ On(r, "loading")
  /\ IF key # None THEN Becomes(r, "ready", key) ELSE Becomes(r, "inserting", <<r, boots[r]>>)
  /\ UNCHANGED <<key, boots, signed>>

FindRejected(r) ==
  /\ On(r, "loading")
  /\ Becomes(r, "broken", None)
  /\ UNCHANGED <<key, boots, signed>>

\* (A mistake, for the mutant runs: an upsert.)
InsertOver(r) ==
  /\ On(r, "inserting")
  /\ key' = replica[r].pair
  /\ Becomes(r, "ready", replica[r].pair)
  /\ UNCHANGED <<boots, signed>>

\* The id is taken if another replica was first: its key is loaded.
Insert(r) ==
  /\ On(r, "inserting")
  /\ IF key = None
     THEN key' = replica[r].pair /\ Becomes(r, "ready", replica[r].pair)
     ELSE UNCHANGED key /\ Becomes(r, "loading", None)
  /\ UNCHANGED <<boots, signed>>

\* Every rejection is taken for a duplicate, one whose insert did happen included.
InsertRejected(r) ==
  /\ On(r, "inserting")
  /\ key' \in {key, IF key = None THEN replica[r].pair ELSE key}
  /\ Becomes(r, "loading", None)
  /\ UNCHANGED <<boots, signed>>

Sign(r) ==
  /\ On(r, "ready")
  /\ signed' = signed \cup {replica[r].pair}
  /\ UNCHANGED <<key, replica, boots>>

Restart(r) ==
  /\ boots[r] < MaxBoots
  /\ boots' = [boots EXCEPT ![r] = @ + 1]
  /\ Becomes(r, "down", None)
  /\ UNCHANGED <<key, signed>>

Run(r) ==
  \/ Load(r) \/ FindKey(r) \/ FindRejected(r) \/ Insert(r) \/ InsertRejected(r) \/ Sign(r) \/ Restart(r)

Next == \E r \in Replicas : Run(r)

Spec == Init /\ [][Next]_vars

Over == \A r \in Replicas : On(r, "broken")

-----------------------------------------------------------------------------

TypeOK ==
  /\ key \in Pairs \cup {None}
  /\ replica \in [Replicas -> [pc   : {"down", "loading", "inserting", "ready", "broken"},
                               pair : Pairs \cup {None}]]
  /\ boots \in [Replicas -> 0 .. MaxBoots]

\* A token that any replica ever signed is verified by the JWKS of every replica
\* that has one, though they started together and restarted since
\* (signing-key.store.ts:18-31, 63-64).
SignedStaysValid ==
  \A pair \in signed : \A r \in Replicas : On(r, "ready") => replica[r].pair = pair
=============================================================================
