----------------------------- MODULE AccessTokens -----------------------------
(***************************************************************************)
(* A personal access token of apps/identity: issued, introspected by any   *)
(* number of requests, revoked, expired; and the cache of the answers.     *)
(*                                                                         *)
(* An introspection stamps the token as used and saves the copy it read,   *)
(* and then remembers its answer for TTL, whatever happened meanwhile.     *)
(*                                                                         *)
(*   introspect:  idle -> finding -> stamping -> caching -> active         *)
(*   revoke:      idle -> revoking -> done                                 *)
(***************************************************************************)
EXTENDS Naturals

CONSTANTS
  Introspections, Revocations,  \* requests
  Lifetime, TTL,                \* in ticks
  MaxClock                      \* a bound

VARIABLES
  clock,
  pat,      \* its document
  cache,    \* the time until which the answer "active" is remembered; 0 for never
  call,     \* where each request is, and its copy of the token
  current   \* for the properties: the last tick at which the token was usable, or an
            \* introspection under way had found it so

vars == <<clock, pat, cache, call, current>>

Calls == Introspections \cup Revocations
NoPat == [issued |-> FALSE, revoked |-> FALSE, expires |-> 0, used |-> 0]
Waiting == [pc |-> "idle", copy |-> NoPat, at |-> 0]

Init ==
  /\ clock = 1
  /\ pat = NoPat
  /\ cache = 0
  /\ call = [c \in Calls |-> Waiting]
  /\ current = 0

On(c, label) == call[c].pc = label
Goes(c, label) == call' = [call EXCEPT ![c].pc = label]
Answers(c, label) == call' = [call EXCEPT ![c] = [Waiting EXCEPT !.pc = label, !.at = clock]]

\* CreatePat: nobody has the secret before it is saved.
Issue ==
  /\ ~pat.issued
  /\ pat' = [issued |-> TRUE, revoked |-> FALSE, expires |-> clock + Lifetime, used |-> 0]
  /\ current' = clock
  /\ UNCHANGED <<clock, cache, call>>

\* Neither revoked nor expired.
UsableAt(time) == pat.issued /\ ~pat.revoked /\ pat.expires > time

\* IntrospectToken: the cache first.
LookUp(c) ==
  /\ c \in Introspections /\ On(c, "idle")
  /\ IF cache > clock THEN Answers(c, "active") ELSE Goes(c, "finding")
  /\ UNCHANGED <<clock, pat, cache, current>>

\* A negative answer is not remembered.
FindByHash(c) ==
  /\ On(c, "finding")
  /\ IF UsableAt(clock)
     THEN call' = [call EXCEPT ![c].pc = "stamping", ![c].copy = [pat EXCEPT !.used = clock]]
     ELSE Answers(c, "inactive")
  /\ UNCHANGED <<clock, pat, cache, current>>

\* (A mistake, for the mutant runs: the document is replaced by the copy.)
SavedWhole(copy) == copy

\* save: $set of what the copy has; a copy that is not revoked has no revokedAt, and
\* one that was never used has no lastUsedAt.
Saved(copy) ==
  [pat EXCEPT !.revoked = IF copy.revoked THEN TRUE ELSE @, !.used = IF copy.used # 0 THEN copy.used ELSE @]

Stamp(c) ==
  /\ On(c, "stamping")
  /\ pat' = Saved(call[c].copy)
  /\ Goes(c, "caching")
  /\ UNCHANGED <<clock, cache, current>>

\* (A mistake, for the mutant runs: answers are remembered twice as long.)
RememberLonger(c) ==
  /\ On(c, "caching")
  /\ cache' = clock + 2 * TTL
  /\ Answers(c, "active")
  /\ UNCHANGED <<clock, pat, current>>

Remember(c) ==
  /\ On(c, "caching")
  /\ cache' = clock + TTL
  /\ Answers(c, "active")
  /\ UNCHANGED <<clock, pat, current>>

\* The revocation of the controller leaves the cache alone.
FindById(c) ==
  /\ c \in Revocations /\ On(c, "idle") /\ pat.issued
  /\ call' = [call EXCEPT ![c].pc = "revoking", ![c].copy = [pat EXCEPT !.revoked = TRUE]]
  /\ UNCHANGED <<clock, pat, cache, current>>

Revoke(c) ==
  /\ On(c, "revoking")
  /\ pat' = Saved(call[c].copy)
  /\ Answers(c, "done")
  /\ UNCHANGED <<clock, cache, current>>

\* Redis or MongoDB rejects, or the process dies.
Fail(c) ==
  /\ call[c].pc \in {"stamping", "caching", "revoking"}
  /\ Answers(c, "failed")
  /\ UNCHANGED <<clock, pat, cache, current>>

InFlight(c) == call[c].pc \in {"stamping", "caching"}

Tick ==
  /\ clock < MaxClock
  /\ clock' = clock + 1
  /\ current' = IF UsableAt(clock + 1) \/ (\E c \in Introspections : InFlight(c)) THEN clock + 1 ELSE current
  /\ UNCHANGED <<pat, cache, call>>

Handle(c) ==
  \/ LookUp(c) \/ FindByHash(c) \/ Stamp(c) \/ Remember(c) \/ FindById(c) \/ Revoke(c) \/ Fail(c)

Next == Issue \/ Tick \/ \E c \in Calls : Handle(c)

Spec == Init /\ [][Next]_vars

Over == clock = MaxClock /\ \A c \in Calls : call[c].pc \notin {"finding", "stamping", "caching", "revoking"}

-----------------------------------------------------------------------------

TypeOK ==
  /\ clock \in 1 .. MaxClock /\ current \in 0 .. clock
  /\ pat.expires \in 0 .. MaxClock + Lifetime /\ pat.used \in 0 .. clock
  /\ cache \in 0 .. MaxClock + TTL

\* The last "active" is given less than one TTL after the token was last usable, or
\* after the end of the last introspection that found it so: revocation and expiry take effect
\* in bounded time (introspect-token.ts:15, 48).
ActiveIsRecent ==
  \A c \in Introspections : On(c, "active") => call[c].at < current + TTL
=============================================================================
