------------------------------- MODULE MCAgents -------------------------------
(***************************************************************************)
(* Instances of AgentRun and of Texts: what an agent's run does, and what  *)
(* becomes of the texts it reads, writes and shows.  They share nothing,   *)
(* so that in a behaviour one of them moves and the other rests.           *)
(*                                                                         *)
(* Of AgentRun: the starter may not approve, two owners may; a user calls  *)
(* the gateway itself.  Two held calls and a free one are the smallest     *)
(* batches in which a held call has others before and after it, two turns  *)
(* the least for an approval to be late.                                   *)
(*                                                                         *)
(* Of Texts: every small document and strategy, every pair of short        *)
(* rankings, every few findings in a short text, every small sample; and   *)
(* two suites of two cases.                                                *)
(***************************************************************************)
EXTENDS AgentRun, Texts, TLC

CONSTANT Movers  \* which of the two move

VARIABLE part   \* which of them does, for good

CONSTANTS sam, ann, bea, uma, vic, look, send, this, that

AllCallers == {sam, ann, bea, uma, vic}
AllActors  == {sam, ann, bea}
AllTools   == {look, send}
RiskyTools == {send}
FreeTools  == {look}
AllArgs    == {this, that}

Does(tool, args) == [tool |-> tool, args |-> args]

Clicks(m, n, k) == sam :> 0 @@ ann :> m @@ bea :> n @@ uma :> k @@ vic :> k

Open1 == look :> NoBinding @@ send :> Binding(TRUE, FALSE, 9)

Base ==
  [bindings |-> Open1, binds |-> <<>>, owners |-> {ann, bea}, outside |-> {}, approvals |-> 0,
   starter |-> sam, clicks |-> Clicks(1, 1, 0), posts |-> {},
   batches |-> {}, faults |-> {}, patient |-> TRUE, unique |-> TRUE, single |-> FALSE, calm |-> FALSE]

\* Approvals one at a time: batches with held calls among others.
Approved ==
  [Base EXCEPT !.calm = TRUE, !.clicks = Clicks(2, 2, 0),
     !.batches = {<<Does(look, this), Does(send, this), Does(look, that)>>, <<Does(send, this), Does(send, that)>>,
                  <<Does(look, this)>>}]

\* The same, but nobody waits for anybody.
Rushed ==
  [Base EXCEPT !.patient = FALSE, !.clicks = Clicks(2, 1, 0), !.batches = {<<Does(send, this)>>, <<Does(send, this), Does(send, that)>>}]

\* Requests that die, with a model that fails, and owners that retry.
Dying ==
  [Base EXCEPT !.single = TRUE, !.clicks = Clicks(2, 2, 0),
     !.batches = {<<Does(look, this), Does(send, this)>>}, !.faults = {"crash", "model", "endpoint"}]

\* A binding raises the bar, then switches a tool off, during a run.
Rebound ==
  [Base EXCEPT !.batches = {<<Does(look, this)>>, <<Does(send, this)>>},
     !.binds = <<[tool |-> look, binding |-> Binding(TRUE, TRUE, 9)],
                 [tool |-> send, binding |-> Binding(FALSE, FALSE, 9)]>>,
     !.faults = {"expiry"}, !.approvals = 2]

\* The gateway alone: owners and a member who exchange approvals.
Shared ==
  [Base EXCEPT !.starter = "nobody", !.clicks = [Clicks(0, 0, 3) EXCEPT ![vic] = 2],
     !.owners = {uma, vic}, !.posts = {Does(send, this), Does(send, that)}]

\* The same with everything failing.
Failing ==
  [Shared EXCEPT !.clicks = Clicks(0, 0, 1), !.posts = {Does(send, this), Does(look, this)}, !.owners = {uma},
     !.bindings = look :> Binding(TRUE, TRUE, 1) @@ send :> Binding(TRUE, FALSE, 9),
     !.faults = {"redis", "mongo", "secret", "endpoint", "executor", "expiry", "minute"}, !.approvals = 2]

AllScenarios == {Approved, Rushed, Dying, Rebound, Shared, Failing}
-----------------------------------------------------------------------------

Strategies ==
  [kind : {"fixed", "markdown-heading", "recursive"}, size : {3}, overlap : {0, 1, 2}]

Documents ==
  [text : SeqOf({Knowledge!Letter, Knowledge!Blank, Knowledge!Break, Knowledge!Mark}, 6), strategy : Strategies]

\* Two versions of one chunk may be ranked while its document is indexed again, so a
\* ranking may repeat a chunk; scores fall with the rank.
Rankings == SeqOf(1 .. 4, 3)
Scored == {v \in SeqOf([chunk : 1 .. 4, score : 1 .. 2], 3) :
             \A i, j \in DOMAIN v : i < j => v[i].score >= v[j].score}
Fusions == [vector : Scored, text : Rankings, limit : {2, 4}]

Findings == {f \in [start : 0 .. 3, end : 1 .. 4, score : {7, 9}] : f.start < f.end}
Signals == {{}, {"fake_system_turn"}, {"fake_system_turn", "exfiltration_via_url"}, {"role_override"}}
PromptsWith(n, signals) ==
  [length : {4}, findings : {q \in SeqOf(Findings, n) : IsInjective(q)},
   detector : {"regex", "presidio"}, signals : signals]
Prompts == PromptsWith(3, {{}}) \cup PromptsWith(2, Signals)

Samples == [values : SeqOf(1 .. 3, 5), percent : {1, 20, 50, 95, 100}]

\* Two or three calls; the pieces of the streamed ones in every order that keeps each
\* call's own, the whole ones in one chunk or in one each.
Absent == Calls!Absent
Called(id, name, args) == [id |-> id, name |-> name, args |-> args]
Given(n) == "given_" \o ToString(n)
Asked(ids, names) ==
  {<<Called(id, "search", <<"q", "x">>), Called(Absent, name, <<"y">>)>> : id \in ids, name \in names}
Fragments(call, index) ==
  <<[index |-> index, id |-> call.id, name |-> call.name, args |-> <<>>]>> \o
  [k \in DOMAIN call.args |->
    [index |-> index, id |-> Absent, name |-> Absent, args |-> <<call.args[k]>>]]
Orders(wanted) ==
  LET total == FoldLeft(LAMBDA n, call : n + Len(call.args) + 1, 0, wanted) IN
  {s \in [1 .. total -> DOMAIN wanted] :
     \A i \in DOMAIN wanted : Cardinality({k \in 1 .. total : s[k] = i}) = Len(wanted[i].args) + 1}
Wire(wanted, order, first) ==
  [k \in DOMAIN order |->
    LET i == order[k] IN
    Fragments(wanted[i], first + i)[Cardinality({j \in 1 .. k : order[j] = i})]]
Streamed ==
  UNION {{[provider |-> "openai", asked |-> wanted, wire |-> Wire(wanted, order, -1)] :
            order \in Orders(wanted)} : wanted \in Asked({Given(1), Absent}, {"lookup", "search", Absent})}
  \cup UNION {{[provider |-> "anthropic", asked |-> wanted, wire |-> Wire(wanted, order, first)] :
                 order \in Orders(wanted), first \in {-1, 0}} : wanted \in Asked({Given(1)}, {"lookup"})}
Apart(wanted) == [i \in DOMAIN wanted |-> <<wanted[i]>>]
Whole ==
  UNION {{[provider |-> provider, asked |-> wanted, wire |-> wire] :
            provider \in {"gemini", "ollama"}, wire \in {<<wanted>>, Apart(wanted)}} :
           wanted \in Asked({Given(1), Absent}, {"lookup", Absent})}

\* Every value of two levels, and of three with one operation on top of them; and every
\* text of at most five tokens.
Leaves == {Calculator!Value("1", <<>>), Calculator!Value("2", <<>>)}
Over(op, values) ==
  IF op \in {"neg", "abs"} THEN {Calculator!Value(op, <<v>>) : v \in values}
  ELSE {Calculator!Value(op, <<v, w>>) : v \in values, w \in values}
Operations == {"+", "-", "*", "^", "neg", "abs", "max"}
One == Calculator!Value("1", <<>>)
Flat == {One} \cup UNION {Over(op, {One}) : op \in Operations}
Values == Leaves \cup UNION {Over(op, Flat) : op \in Operations}
          \cup Over("neg", Over("^", Over("neg", Flat)))
Expressions ==
  {[tokens |-> Calculator!Written(v, 1, full), value |-> <<v>>,
    depth |-> 1 + Calculator!Nested(v, 1, full)] : v \in Values, full \in BOOLEAN}
  \cup {[tokens |-> t, value |-> <<>>, depth |-> 0] :
          t \in SeqOf({"1", "-", "*", "^", "(", ")", "max", ","}, 4)}

\* Spans that may form a tree, a chain, a cycle or a forest; two with one id, and one
\* without.  Two without an id, or three with the same, make 2^33 entries: see TraceShown.
SpanIds == {<<"a", "b", "c", "d">>, <<"a", "b", "a">>, <<"a", "b", Streaming!NoSpan>>}
TracesOf(ids) ==
  {[spans |-> [i \in DOMAIN ids |->
      [id |-> ids[i], parent |-> parents[i], start |-> starts[i], duration |-> 2 * (i % 2),
       framework |-> i > 1]]] :
     parents \in [DOMAIN ids -> {Streaming!NoSpan, "a", "b", "c", "x"}], starts \in {<<1, 2, 2, 1>>, <<2, 2, 1, 3>>}}
Traces == UNION {TracesOf(ids) : ids \in SpanIds}

AllInputs ==
  [chunk |-> Documents, fuse |-> Fusions, redact |-> Prompts, rank |-> Samples,
   calls |-> Streamed \cup Whole, calculate |-> Expressions, trace |-> Traces]

Answers == [name |-> "exact_match", threshold |-> 1]
Speed == [name |-> "latency_p95", maximum |-> 2]
Measurable == [cases |-> 2, minCases |-> 1, readable |-> TRUE, evaluators |-> {Answers, Speed}, judged |-> FALSE]
Judged == [cases |-> 2, minCases |-> 2, readable |-> TRUE, evaluators |-> {Speed}, judged |-> TRUE]
Small == [cases |-> 1, minCases |-> 2, readable |-> TRUE, evaluators |-> {Speed}, judged |-> FALSE]
AllSettings ==
  {[suites |-> <<Measurable, Judged>>, hasJudge |-> j] : j \in BOOLEAN}
  \cup {[suites |-> <<s, Measurable>>, hasJudge |-> TRUE] : s \in {Small, [Measurable EXCEPT !.readable = FALSE]}}

\* Runs that call a tool, that are held and approved or refused, that fail; chats
\* answered in pieces or whole, and chats that fail before or after their first piece,
\* with a turn that follows.
Delta(letters) == [name |-> "message.delta", content |-> letters]
Begin(c) == [name |-> "tool.call", call |-> c]
Outcome(c, s, r) == [name |-> "tool.result", call |-> c, status |-> s, result |-> r]
Holds(c) == [name |-> "approval.requested", call |-> c]
Finished(s) == [name |-> "run.finished", status |-> s]
Final(t) == [name |-> "run.finished", content |-> t]
Failed == [name |-> "error"]
Says(streams, raising, beats) ==
  [kind |-> "run", streams |-> streams, raises |-> raising, pings |-> beats]
Runs == {
  Says(<<<<Delta(<<"a">>), Begin("c1"), Outcome("c1", "ok", "r1"), Delta(<<"b">>), Finished("completed")>>>>, {}, 0),
  Says(<<<<Begin("c1"), Outcome("c1", "ok", "r1"), Holds("c2")>>,
         <<Begin("c2"), Outcome("c2", "ok", "r2"), Finished("completed")>>>>, {}, 0),
  Says(<<<<Holds("c1")>>, <<Outcome("c1", "denied", "none"), Failed, Finished("failed")>>>>, {}, 1),
  Says(<<<<Delta(<<"a">>)>>>>, {1}, 1) }
Chats(streams, raising, answers) ==
  [kind |-> "chat", streams |-> streams, raises |-> raising, pings |-> 1, answers |-> answers]
Pieces == <<Delta(<<"a">>), Delta(<<"b">>)>>
AllChats ==
  {Chats(<<Append(Pieces, Final(w))>>, {}, <<<<"a", "b">>>>) : w \in {<<>>, <<"a", "b">>}}
  \cup {Chats(<<first, <<Final(<<"c">>)>>>>, {1}, <<<<"a", "b">>, <<"c">>>>) :
          first \in {<<>>, <<Delta(<<"a">>)>>, Pieces}}
AllExchanges == Runs \cup AllChats

-----------------------------------------------------------------------------

AgentsAtRest == scenario = (CHOOSE s \in Scenarios : TRUE) /\ Init
TextsAtRest == task = "evaluate" /\ setting = (CHOOSE s \in Settings : TRUE) /\ TextsInit
EitherInit ==
  /\ part \in Movers
  /\ IF part = "agents" THEN Init /\ TextsAtRest ELSE TextsInit /\ AgentsAtRest

RunAgents == part = "agents" /\ Next /\ UNCHANGED <<part, texts>>
WorkOnTexts == part = "texts" /\ TextsNext /\ UNCHANGED <<part, vars>>
EitherSpec == EitherInit /\ [][RunAgents \/ WorkOnTexts]_<<part, vars, texts>>

BothParts == {"agents", "texts"}

\* Chats alone, for what the page says of its failures.
OnlyTexts == {"texts"}
NoInputs == [chunk |-> {}]
NoSettings == {CHOOSE s \in AllSettings : TRUE}

FailedTurnsDropped == task = "stream" => Streaming!FailedTurnDropped
=============================================================================
