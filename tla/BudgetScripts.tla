--------------------------- MODULE BudgetScripts ----------------------------
(***************************************************************************)
(* The three Lua scripts of RedisBudgetLedger, as operators on the pair of *)
(* counters Redis keeps for one project and one period key.                *)
(*                                                                         *)
(* Redis runs a script with no interleaving, so each script is one         *)
(* operator and each EVAL is one step of the modules that use them.  A     *)
(* missing key reads as zero (`GET ... or '0'`): EmptyBook is also what an *)
(* expired pair of keys looks like.                                        *)
(***************************************************************************)
EXTENDS Integers

EmptyBook == [spent |-> 0, reserved |-> 0]

Books == [spent : Nat, reserved : Nat]

\* What the authorisation looks at: the sum of both counters.
Exposure(book) == book.spent + book.reserved

\* Plausible mistakes in the scripts; the runs show that a property of the
\* ledger breaks under each of them.
RefusesOnSpentAlone(book, estimate, limit, blocking) ==
  blocking /\ book.spent + estimate > limit

RefusesAtTheLimit(book, estimate, limit, blocking) ==
  blocking /\ Exposure(book) + estimate >= limit

CommitKeepsHold(book, estimate, actual) == [book EXCEPT !.spent = @ + actual]

ReleaseUnclamped(book, estimate) == [book EXCEPT !.reserved = @ - estimate]

ReleaseForgotten(book, estimate) == book

\* The script refuses only for a blocking budget, and only strictly above it.
Refuses(book, estimate, limit, blocking) ==
  blocking /\ Exposure(book) + estimate > limit

\* `if newReserved < 0 then newReserved = 0 end`
Clamped(n) == IF n < 0 THEN 0 ELSE n

ReserveScript(book, estimate) ==
  [book EXCEPT !.reserved = @ + estimate]

CommitScript(book, estimate, actual) ==
  [spent |-> book.spent + actual, reserved |-> Clamped(book.reserved - estimate)]

ReleaseScript(book, estimate) ==
  [book EXCEPT !.reserved = Clamped(@ - estimate)]
=============================================================================
