---------------------------- MODULE AgentRun_proofs ----------------------------
(***************************************************************************)
(* What a run of an agent and the gateway its tools go through promise,    *)
(* for any number of requests and callers, any tools, situations, ceilings *)
(* and faults.                                                             *)
(*                                                                         *)
(* The inductive invariant (AgentInv) has a part for each promise, and     *)
(* each part rests on the ones before it:                                  *)
(*   Lined      what each copy of the loop's state has still to do;        *)
(*   Placed     what the gateway has of a request of the agent runtime;    *)
(*   Audited, Honoured  the gateway's own books;                           *)
(*   Signed, Unhindered what a human's approval stands for;                *)
(*   Bounded    how many steps a run has made;                             *)
(*   Alone, Single      who works on a run, and what waits in it, while    *)
(*              approvals come one at a time;                              *)
(*   OnceEach, Resting  that a call is put to the gateway once, and that a *)
(*              run that nobody works on ended or waits.                   *)
(* A lemma for each part says that every step keeps it; before it come the *)
(* lemmas about how a step moves what the part is about.                   *)
(***************************************************************************)
EXTENDS AgentRun, FiniteSetTheorems, SequenceTheorems, TLAPS

-----------------------------------------------------------------------------
\* Types

Labels == {"idle", "created", "asking", "draining", "invoking", "drained", "holding", "held", "late",
           "settling", "settled", "finding", "loading", "done", "gone"}
RequestLabels == {"idle", "deciding", "metering", "opening", "taking", "executing", "recording",
                  "answered"}
Statuses == {"none", "denied", "failed", "approval_required", "ok"}
Answers == {"none", "refused", "failed", "held", "ok", "unknown", "denied"}
RunStatuses == {"absent", "running", "waiting", "completed", "failed"}

CallRecords == [key : Nat, id : Nat, tool : Tools \cup {NoTool}, args : Args \cup {"none"},
                held : BOOLEAN]
Results == [key : Nat, answer : Answers]
States == [made : Nat, turns : Nat, calls : SUBSET Nat, results : Seq(Results),
           pending : CallRecords, queued : Seq(CallRecords)]
ActorRecords == [pc : Labels, status : RunStatuses \cup {"none"}, state : States, call : CallRecords,
                 todo : Seq(CallRecords), approved : BOOLEAN, resuming : BOOLEAN, shown : CallRecords]

AnyTool == Tools \cup {NoTool, "none"}
AnyArgs == Args \cup {"none"}
Requests == [pc : RequestLabels, tool : AnyTool, args : AnyArgs, approval : Nat, for : Nat,
             needs : BOOLEAN, limit : Nat, status : Statuses, answer : Answers]
Approvals == [tool : AnyTool, args : AnyArgs, state : {"pending", "gone"}]
Effects == [caller : Callers, nth : Nat, tool : AnyTool, args : AnyArgs, approval : Nat,
            needs : BOOLEAN, for : Nat]
Records == [caller : Callers, nth : Nat, tool : AnyTool, status : Statuses]

GatewayTypes ==
  /\ scenario \in Scenarios
  /\ bindings \in [Tools -> Bindings]
  /\ bound \in Nat
  /\ rate \in [Tools -> Nat]
  /\ approvals \in Seq(Approvals)
  /\ request \in [Callers -> Requests]
  /\ effects \subseteq Effects
  /\ audit \subseteq Records

AgentTypes ==
  /\ run \in RunStatuses
  /\ checkpoint \in States
  /\ actor \in [Actors -> ActorRecords]
  /\ clicks \in [Callers -> Nat]
  /\ asked \in Seq([held : BOOLEAN, signed : SUBSET Nat])

-----------------------------------------------------------------------------
\* The state of the loop

\* A call that the model made.
Known(call) ==
  /\ call.key \in DOMAIN asked /\ call.held = asked[call.key].held
  /\ call.args \in Args
  /\ call.held => call.tool \in Tools
  /\ scenario.unique => call.id = call.key
  /\ scenario.calm /\ call.held => AllowedInProject(call.tool) /\ RequiresApproval(call.tool)

Holding == {"holding", "held", "late", "loading"}
Between == {"idle", "done", "gone", "finding", "created"}

\* The call that is being made or waits, and the ones after it.
First(r) ==
  IF r.pc = "invoking" THEN {r.call.key} ELSE IF r.pc \in Holding THEN {r.state.pending.key} ELSE {}
Ahead(r) ==
  IF r.pc \in {"draining", "invoking"} THEN r.todo ELSE IF r.pc \in Holding THEN r.state.queued ELSE <<>>

\* Each call that was made has its result, or is in the line, and never both nor twice.
InLine(s, first, ahead) ==
  /\ \A i \in DOMAIN ahead :
       /\ Known(ahead[i]) /\ ahead[i].key \in s.calls \ first
       /\ \A j \in DOMAIN s.results : s.results[j].key # ahead[i].key
  /\ \A i, j \in DOMAIN ahead : ahead[i].key = ahead[j].key => i = j
  /\ \A k \in s.calls :
       \/ k \in first
       \/ \E i \in DOMAIN ahead : ahead[i].key = k
       \/ \E j \in DOMAIN s.results : s.results[j].key = k

Whole(s, first) ==
  /\ first \subseteq s.calls /\ s.calls \subseteq DOMAIN asked
  /\ \A j \in DOMAIN s.results : s.results[j].key \in s.calls \ first
  /\ \A i, j \in DOMAIN s.results : s.results[i].key = s.results[j].key => i = j
  /\ s.made = Len(s.results) /\ s.turns <= MaxTurns

\* A call that waits is one that the model made, and that is held.
Pends(s) ==
  IF s.pending = NoCall THEN s.queued = <<>>
  ELSE Known(s.pending) /\ s.pending.held /\ s.pending.key \in s.calls

ActorInLine(r) ==
  /\ Whole(r.state, First(r)) /\ Pends(r.state) /\ InLine(r.state, First(r), Ahead(r))
  /\ r.pc \in Between => r.state = Fresh
  /\ r.pc \in {"asking", "draining", "drained", "settling", "settled"} => r.state.pending = NoCall
  /\ r.pc \in Holding => r.state.pending # NoCall
  /\ r.pc = "invoking" =>
       Known(r.call) /\ r.call.tool \in Tools /\ r.state.pending \in {NoCall, r.call} /\ r.state.queued = <<>>
  /\ r.shown = NoCall \/ Known(r.shown)
  /\ r.pc = "loading" => r.state.pending.id = r.shown.id

Waiting(s) == IF s.pending = NoCall THEN {} ELSE {s.pending.key}
StoredInLine(s) == Whole(s, Waiting(s)) /\ Pends(s) /\ InLine(s, Waiting(s), s.queued)

Lined ==
  /\ scenario.calm \/ scenario.single => bindings = scenario.bindings
  /\ \A a \in Actors : ActorInLine(actor[a])
  /\ StoredInLine(checkpoint)

-----------------------------------------------------------------------------
\* The gateway

\* The gateway works for a request of the agent runtime only while that invokes.
PlacedActor(a) ==
  /\ On(a, "invoking") =>
       /\ ~At(a, "idle") /\ request[a].for = actor[a].call.key
       /\ request[a].tool = actor[a].call.tool /\ request[a].args = actor[a].call.args
  /\ actor[a].pc \notin {"invoking", "gone"} => At(a, "idle")

PlacedRequest(r) ==
  /\ r.pc # "idle" => r.tool \in Tools /\ r.args \in Args
  /\ r.approval \in 0 .. Len(approvals) /\ r.for \in 0 .. Len(asked)
  /\ r.pc \in {"deciding", "metering", "opening", "taking", "executing"} => r.answer = "none"

Placed ==
  /\ \A a \in Actors : PlacedActor(a)
  /\ \A c \in Callers : PlacedRequest(request[c])
  /\ \A i \in DOMAIN approvals : approvals[i].tool \in Tools /\ approvals[i].args \in Args
  /\ \A e \in effects : e.for \in 0 .. Len(asked)

\* The effects of a caller are numbered, and its records.
Numbered ==
  /\ IsFiniteSet(effects) /\ IsFiniteSet(audit)
  /\ \A e \in effects : e.nth <= Cardinality(EffectsOf(e.caller))
  /\ \A x \in audit : x.nth <= Cardinality(RecordsOf(x.caller))

Audited == Numbered /\ EffectsAudited

Matching(r, i) == approvals[i].tool = r.tool /\ approvals[i].args = r.args

\* What a request may rely on at each of its steps.
HonouredRequest(r) ==
  /\ r.pc \in {"metering", "opening", "taking", "executing"} /\ r.tool \in Risky => r.needs
  /\ r.pc \in {"opening", "taking"} => r.needs
  /\ r.pc = "taking" => r.approval # 0
  /\ r.pc = "executing" /\ r.needs =>
       /\ r.approval # 0 /\ Matching(r, r.approval) /\ approvals[r.approval].state = "gone"
       /\ \A e \in effects : e.needs => e.approval # r.approval

Honoured ==
  /\ \A c \in Callers : HonouredRequest(request[c])
  /\ \A c, d \in Callers :
       At(c, "executing") /\ request[c].needs /\ At(d, "executing") /\ request[d].needs
       /\ request[c].approval = request[d].approval => c = d
  /\ \A e \in effects :
       /\ e.tool \in Risky => e.needs
       /\ e.needs => /\ e.approval \in DOMAIN approvals /\ Matching(e, e.approval)
                     /\ approvals[e.approval].state = "gone"
                     /\ \A f \in effects : f.needs /\ f.approval = e.approval => f = e

-----------------------------------------------------------------------------
\* Approvals

Signs(k) == asked[k].signed # {}

Signed ==
  /\ \A k \in DOMAIN asked : Signs(k) => asked[k].held
  /\ scenario.unique => \A k \in DOMAIN asked : asked[k].signed \subseteq {k}
  /\ \A a \in Actors : On(a, "invoking") /\ actor[a].approved => Signs(actor[a].call.key)
  /\ \A c \in Callers : LET r == request[c] IN
       r.for # 0 /\ r.approval # 0 /\ r.pc \in {"deciding", "metering", "taking", "executing"} => Signs(r.for)
  /\ \A e \in effects : e.needs /\ e.for # 0 => Signs(e.for)

\* An approval that is about to be taken.
Ready(r) == r.approval # 0 /\ (r.pc \in {"deciding", "metering", "taking"} \/ r.answer = "held")

CalmGateway ==
  /\ \A c, d \in Callers : request[c].approval # 0 /\ request[c].approval = request[d].approval => c = d
  /\ \A c \in Callers : LET r == request[c] IN
       /\ r.pc = "metering" => r.limit = bindings[r.tool].rate
       /\ Ready(r) => Matching(r, r.approval) /\ approvals[r.approval].state = "pending"

\* The two halves of the handshake, when nothing is in its way.
FirstHalf(r) ==
  /\ r.pc \in {"deciding", "metering", "opening", "recording", "answered"}
  /\ r.pc \in {"deciding", "metering", "opening"} => r.approval = 0
  /\ r.pc \in {"recording", "answered"} => r.answer = "held" /\ r.approval # 0
SecondHalf(r) ==
  /\ r.approval # 0
  /\ r.pc \in {"deciding", "metering", "taking", "executing", "recording", "answered"}
  /\ r.pc \in {"recording", "answered"} => r.answer = "ok"

Shaken(a) ==
  LET r == request[a] IN
  /\ a \in scenario.owners
  /\ r.pc = "metering" => r.needs
  /\ IF actor[a].approved THEN FirstHalf(r) ELSE SecondHalf(r)

Satisfied(s) ==
  \A i \in DOMAIN s.results : asked[s.results[i].key].held => s.results[i].answer \in {"ok", "denied"}

Unhindered ==
  scenario.calm =>
    /\ CalmGateway
    /\ \A a \in Actors : On(a, "loading") => a \in scenario.owners
    /\ WithinRates =>
         /\ \A a \in Actors : On(a, "invoking") /\ actor[a].call.held => Shaken(a)
         /\ \A a \in Actors : Satisfied(actor[a].state)
         /\ Satisfied(checkpoint)

-----------------------------------------------------------------------------
\* The ceiling

SomeHeld == \E k \in DOMAIN asked : asked[k].held

Bounded ==
  \A a \in Actors :
    /\ actor[a].resuming => SomeHeld
    /\ On(a, "asking") => actor[a].state.made < MaxSteps \/ SomeHeld

-----------------------------------------------------------------------------
\* One at a time

Working == {"created", "asking", "draining", "invoking", "drained", "holding", "settling", "settled"}

AloneActor(r) ==
  /\ r.pc \in Working => run = "running"
  /\ r.pc \in {"held", "late", "loading"} => run = "waiting"
  /\ r.pc = "finding" => r.status = run

Alone ==
  /\ \A a \in Actors : On(a, "holding") \/ On(a, "held") => actor[a].status = "waiting"
  /\ \A a \in Actors : On(a, "settling") \/ On(a, "settled") => actor[a].status \in Terminal
  /\ run = "absent" =>
       checkpoint = Fresh /\ \A a \in Actors : actor[a].pc = "idle" /\ actor[a].shown = NoCall
  /\ OneAtATime =>
       /\ \A a, b \in Actors : Handling(a) /\ Handling(b) => a = b
       /\ \A a \in Actors : AloneActor(actor[a])

NoneHeld(calls) == \A i \in DOMAIN calls : ~calls[i].held

SingleActor(r) ==
  /\ r.pc \in {"draining", "invoking"} =>
       \A i, j \in DOMAIN r.todo : r.todo[i].held /\ r.todo[j].held => i = j
  /\ NoneHeld(r.state.queued)
  /\ r.pc \in {"draining", "invoking"} /\ r.resuming => NoneHeld(r.todo)
  /\ r.pc \in {"created", "asking", "holding", "held"} => ~r.resuming
  /\ OneAtATime =>
       /\ r.pc \in {"draining", "invoking", "holding", "held"} /\ ~r.resuming => checkpoint.pending = NoCall
       /\ r.pc = "asking" => checkpoint.pending = NoCall

Single ==
  scenario.single => NoneHeld(checkpoint.queued) /\ \A a \in Actors : SingleActor(actor[a])

\* A request that may still have its effect.
InProgress(r) == r.pc \in {"deciding", "metering", "opening", "taking", "executing"} \/ r.answer = "held"

Untouched(k) ==
  /\ \A e \in effects : e.for # k
  /\ \A c \in Callers : InProgress(request[c]) => request[c].for # k

AheadUntouched(r) ==
  /\ \A i \in DOMAIN Ahead(r) : Untouched(Ahead(r)[i].key)
  /\ r.pc \in Holding => Untouched(r.state.pending.key)

OnceEach ==
  OneAtATime /\ (NoCrash \/ scenario.single) =>
    /\ \A e, f \in effects : e.for = f.for /\ e.for # 0 => e = f
    /\ \A c \in Callers : InProgress(request[c]) /\ request[c].for # 0 =>
         \A e \in effects : e.for # request[c].for
    /\ \A c, d \in Callers : InProgress(request[c]) /\ InProgress(request[d]) /\ request[c].for # 0
                             /\ request[c].for = request[d].for => c = d
    /\ \A a \in Actors : AheadUntouched(actor[a])
    /\ run = "waiting" /\ checkpoint.pending # NoCall /\ ~(\E a \in Actors : On(a, "held")) =>
         /\ Untouched(checkpoint.pending.key)
         /\ \A i \in DOMAIN checkpoint.queued : Untouched(checkpoint.queued[i].key)

Decided ==
  \/ run = "absent"
  \/ run \in Terminal /\ checkpoint.pending = NoCall
  \/ run = "waiting" /\ checkpoint.pending # NoCall

Resting ==
  OneAtATime /\ NoCrash =>
    /\ \A a \in Actors : On(a, "settled") => checkpoint.pending = NoCall
    /\ \A a \in Actors : On(a, "late") => checkpoint.pending # NoCall
    /\ (\A a \in Actors : Handling(a) => actor[a].pc \in {"finding", "loading"}) => Decided

-----------------------------------------------------------------------------

AgentInv ==
  /\ GatewayTypes /\ AgentTypes /\ Lined /\ Placed
  /\ Audited /\ Honoured /\ Signed /\ Unhindered
  /\ Bounded /\ Alone /\ Single /\ OnceEach /\ Resting

-----------------------------------------------------------------------------
\* What the steps are built of

LEMMA ScenarioTypes ==
  ASSUME GatewayTypes
  PROVE  /\ scenario.bindings \in [Tools -> Bindings]
         /\ scenario.binds \in Seq([tool : Tools, binding : Bindings])
         /\ scenario.clicks \in [Callers -> Nat]
         /\ scenario.posts \subseteq Wishes
         /\ scenario.batches \subseteq Seq(Wishes)
         /\ scenario.calm => scenario.faults = {} /\ scenario.binds = <<>> /\ scenario.posts = {} /\ scenario.outside = {}
         /\ scenario.single =>
              /\ scenario.binds = <<>>
              /\ \A batch \in scenario.batches : \A i, j \in DOMAIN batch :
                   AlwaysApproved(scenario, batch[i].tool) /\ AlwaysApproved(scenario, batch[j].tool) => i = j
BY ScenarioAssumption DEF GatewayTypes

LEMMA ActorsCall == Actors \subseteq Callers /\ MaxSteps \in Nat \ {0} /\ MaxTurns \in Nat
BY AgentAssumption

\* The records that nothing has happened to.
LEMMA Blank ==
  /\ NoCall \in CallRecords /\ NoCall.key = 0 /\ NoCall.id = 0 /\ ~NoCall.held
  /\ Fresh \in States /\ Fresh.pending = NoCall /\ Fresh.queued = <<>> /\ Fresh.results = <<>>
  /\ Fresh.calls = {} /\ Fresh.made = 0 /\ Fresh.turns = 0
  /\ Off \in ActorRecords /\ Off.state = Fresh /\ Off.call = NoCall /\ Off.todo = <<>> /\ Off.shown = NoCall
  /\ Off.pc = "idle" /\ ~Off.resuming /\ ~Off.approved
  /\ Quiet \in Requests /\ Quiet.pc = "idle" /\ Quiet.approval = 0 /\ Quiet.for = 0 /\ Quiet.answer = "none"
<1>1. NoCall \in CallRecords
  BY DEF NoCall, CallRecords
<1>2. Fresh \in States
  BY <1>1 DEF Fresh, States
<1>3. Off \in ActorRecords
  BY <1>1, <1>2 DEF Off, ActorRecords, Labels
<1>4. Quiet \in Requests
  BY DEF Quiet, Requests, RequestLabels, Statuses, Answers, AnyTool, AnyArgs
<1>5. QED
  BY <1>1, <1>2, <1>3, <1>4 DEF NoCall, Fresh, Off, Quiet

\* A result is appended, and the pending call is over.
Gains(s, t, call, answer) ==
  /\ t \in States /\ t.made = s.made + 1 /\ t.turns = s.turns /\ t.calls = s.calls
  /\ t.results = Append(s.results, [key |-> call.key, answer |-> answer])
  /\ t.pending = NoCall

LEMMA WithResultIs ==
  ASSUME NEW s \in States, NEW call \in CallRecords, NEW answer \in Answers, NEW t,
         t = WithResult(s, call, answer)
  PROVE  Gains(s, t, call, answer) /\ t.queued = s.queued
<1>1. [key |-> call.key, answer |-> answer] \in Results
  BY DEF CallRecords, Results
<1>2. Append(s.results, [key |-> call.key, answer |-> answer]) \in Seq(Results)
  BY <1>1 DEF States
<1>3. s.made + 1 \in Nat
  BY DEF States
<1>4. QED
  BY <1>2, <1>3, Blank DEF WithResult, States, Gains

LEMMA HoldForApprovalIs ==
  ASSUME NEW s \in States, NEW call \in CallRecords, NEW rest \in Seq(CallRecords)
  PROVE  LET t == HoldForApproval(s, call, rest) IN
         /\ t \in States
         /\ t.made = s.made /\ t.turns = s.turns /\ t.calls = s.calls /\ t.queued = rest
         /\ t.pending = call /\ t.results = s.results
BY DEF HoldForApproval, States

\* The calls of a turn, as the policies of the project resolve them.
LEMMA ResolvedIs ==
  ASSUME GatewayTypes, AgentTypes, NEW batch \in scenario.batches, NEW s \in States
  PROVE  LET calls == Resolved(batch, s) IN
         /\ calls \in Seq(CallRecords) /\ Len(calls) = Len(batch)
         /\ \A i \in DOMAIN calls :
              /\ calls[i].key = Len(asked) + i
              /\ scenario.unique => calls[i].id = Len(asked) + i
              /\ calls[i].args \in Args
              /\ calls[i].held =>
                   /\ calls[i].tool = batch[i].tool /\ calls[i].tool \in Tools
                   /\ AllowedInProject(calls[i].tool) /\ RequiresApproval(calls[i].tool)
<1> DEFINE calls == Resolved(batch, s)
<1>1. batch \in Seq(Wishes)
  BY ScenarioTypes
<1>2. Len(batch) \in Nat /\ DOMAIN batch = 1 .. Len(batch) /\ \A i \in 1 .. Len(batch) : batch[i] \in Wishes
  BY <1>1
<1>3. Len(asked) \in Nat
  BY DEF AgentTypes
<1>4. DOMAIN calls = 1 .. Len(batch)
  BY DEF Resolved
<1>5. ASSUME NEW i \in 1 .. Len(batch)
      PROVE  /\ calls[i] \in CallRecords
             /\ calls[i].key = Len(asked) + i
             /\ scenario.unique => calls[i].id = Len(asked) + i
             /\ calls[i].args \in Args
             /\ calls[i].held =>
                  /\ calls[i].tool = batch[i].tool /\ calls[i].tool \in Tools
                  /\ AllowedInProject(calls[i].tool) /\ RequiresApproval(calls[i].tool)
  <2>1. batch[i].tool \in Tools /\ batch[i].args \in Args
    BY <1>2 DEF Wishes
  <2>2. PICK known \in BOOLEAN : known = (batch[i].tool \in Offered(s))
    <3>1. (batch[i].tool \in Offered(s)) \in BOOLEAN
      OBVIOUS
    <3>2. QED
      BY <3>1
  <2>3. known => AllowedInProject(batch[i].tool)
    <3>1. SUFFICES ASSUME known PROVE AllowedInProject(batch[i].tool)
      OBVIOUS
    <3>2. batch[i].tool \in Offered(s)
      BY <2>2, <3>1
    <3>3. batch[i].tool \in {t \in Tools : AllowedInProject(t)}
      BY <3>2 DEF Offered
    <3>4. QED
      BY <3>3, Zenon
  <2>4. RequiresApproval(batch[i].tool) \in BOOLEAN
    <3>1. bindings[batch[i].tool].approval \in BOOLEAN
      BY <2>1 DEF GatewayTypes, Bindings
    <3>2. QED
      BY <3>1 DEF RequiresApproval
  <2>5. calls[i] = [key |-> Len(asked) + i, id |-> IF scenario.unique THEN Len(asked) + i ELSE i,
                    tool |-> IF known THEN batch[i].tool ELSE NoTool, args |-> batch[i].args,
                    held |-> known /\ RequiresApproval(batch[i].tool)]
    BY <2>2 DEF Resolved
  <2>6. PICK k \in Nat : k = Len(asked) + i
    BY <1>3
  <2>7. PICK id \in Nat : id = (IF scenario.unique THEN k ELSE i)
    BY <2>6
  <2>8. PICK held \in BOOLEAN : held = (known /\ RequiresApproval(batch[i].tool))
    BY <2>4
  <2>9. calls[i] = [key |-> k, id |-> id, tool |-> IF known THEN batch[i].tool ELSE NoTool,
                    args |-> batch[i].args, held |-> held]
    BY <2>5, <2>6, <2>7, <2>8
  <2> HIDE DEF calls
  <2>10. calls[i] \in CallRecords
    BY <2>1, <2>9 DEF CallRecords
  <2>11. held => known /\ RequiresApproval(batch[i].tool)
    BY <2>8
  <2>12. QED
    BY <2>1, <2>3, <2>6, <2>7, <2>9, <2>10, <2>11
<1>6. calls = [i \in 1 .. Len(batch) |-> calls[i]]
  BY <1>4 DEF Resolved
<1> HIDE DEF calls
<1>7. calls \in Seq(CallRecords) /\ Len(calls) = Len(batch)
  <2>1. PICK n \in Nat : n = Len(batch)
    BY <1>2
  <2>2. calls = [i \in 1 .. n |-> calls[i]] /\ \A i \in 1 .. n : calls[i] \in CallRecords
    BY <1>5, <1>6, <2>1
  <2>3. QED
    BY <2>1, <2>2
<1>9. QED
  BY <1>4, <1>5, <1>7 DEF calls

-----------------------------------------------------------------------------
\* What a step makes of the request that takes it

Is(r, pc, status, state, call, todo, approved, resuming, shown) ==
  /\ r.pc = pc /\ r.status = status /\ r.state = state /\ r.call = call /\ r.todo = todo
  /\ r.approved = approved /\ r.resuming = resuming /\ r.shown = shown

\* The request of a step becomes r, and nobody else's changes.
Becomes(a, r) ==
  /\ r \in ActorRecords
  /\ actor' = [actor EXCEPT ![a] = r] /\ actor'[a] = r
  /\ \A b \in Actors : b # a => actor'[b] = actor[b]

LEMMA BecomeIs ==
  ASSUME AgentTypes, NEW a \in Actors, NEW r \in ActorRecords, Become(a, r)
  PROVE  Becomes(a, r) /\ actor' \in [Actors -> ActorRecords]
BY DEF Become, Becomes, AgentTypes

\* The record of a request, field by field.
LEMMA ActorIs ==
  ASSUME NEW r \in ActorRecords
  PROVE  /\ r.pc \in Labels /\ r.status \in RunStatuses \cup {"none"} /\ r.state \in States
         /\ r.call \in CallRecords /\ r.todo \in Seq(CallRecords)
         /\ r.approved \in BOOLEAN /\ r.resuming \in BOOLEAN /\ r.shown \in CallRecords
BY DEF ActorRecords

LEMMA GoIs ==
  ASSUME AgentTypes, NEW a \in Actors, NEW label \in Labels, Go(a, label)
  PROVE  LET o == actor[a] IN
         \E r : Becomes(a, r) /\ Is(r, label, o.status, o.state, o.call, o.todo, o.approved, o.resuming, o.shown)
<1> DEFINE o == actor[a]
           r == [o EXCEPT !.pc = label]
<1>1. o \in ActorRecords
  BY DEF AgentTypes
<1>2. r \in ActorRecords
  BY <1>1 DEF ActorRecords
<1>3. Is(r, label, o.status, o.state, o.call, o.todo, o.approved, o.resuming, o.shown)
  BY <1>1 DEF Is, ActorRecords
<1>4. Becomes(a, r)
  BY <1>2, BecomeIs DEF Go
<1>5. QED
  BY <1>3, <1>4

LEMMA EndedIs ==
  ASSUME AgentTypes, NEW a \in Actors, Ended(a)
  PROVE  LET o == actor[a] IN
         \E r, pc : /\ pc \in {"idle", "done"}
                    /\ Becomes(a, r) /\ Is(r, pc, "none", Fresh, NoCall, <<>>, FALSE, FALSE, o.shown)
<1> DEFINE o == actor[a]
<1>1. o.shown \in CallRecords
  BY DEF AgentTypes, ActorRecords
<1>2. PICK pc \in {"idle", "done"} : pc = IF clicks[a] > 0 THEN "idle" ELSE "done"
  OBVIOUS
<1> DEFINE r == [Off EXCEPT !.pc = pc, !.shown = o.shown]
<1>4. Become(a, r)
  BY <1>2 DEF Ended
<1>5. r \in ActorRecords
  BY <1>1, <1>2, Blank DEF ActorRecords, Labels
<1>6. Is(r, pc, "none", Fresh, NoCall, <<>>, FALSE, FALSE, o.shown)
  BY DEF Is, Off
<1> HIDE DEF r
<1>7. Becomes(a, r)
  BY <1>4, <1>5, BecomeIs
<1>8. QED
  BY <1>2, <1>6, <1>7

LEMMA StartIs ==
  ASSUME AgentTypes, NEW a \in Actors, Start(a)
  PROVE  /\ UNCHANGED <<scenario, gateway, checkpoint, clicks, asked>>
         /\ On(a, "idle") /\ run = "absent" /\ run' = "running"
         /\ \E r : /\ Becomes(a, r)
                   /\ Is(r, "created", "running", Fresh, NoCall, <<>>, FALSE, FALSE, NoCall)
<1> DEFINE r == [Off EXCEPT !.pc = "created", !.status = "running"]
<1>1. r \in ActorRecords
  BY Blank DEF ActorRecords, Labels, RunStatuses
<1>2. Is(r, "created", "running", Fresh, NoCall, <<>>, FALSE, FALSE, NoCall)
  BY DEF Is, Off
<1>3. Becomes(a, r)
  BY <1>1, BecomeIs DEF Start
<1>4. QED
  BY <1>2, <1>3 DEF Start

LEMMA OpenIs ==
  ASSUME AgentTypes, NEW a \in Actors, Open(a)
  PROVE  LET o == actor[a] IN
         /\ UNCHANGED <<scenario, gateway, run, clicks, asked>>
         /\ On(a, "created") /\ checkpoint' = o.state
         /\ \E r : Becomes(a, r) /\ Is(r, "asking", o.status, o.state, o.call, o.todo, o.approved, o.resuming, o.shown)
BY GoIs DEF Open, Labels

\* Who is asking for good, and with which calls.
Asks(a, calls) ==
  LET o == actor[a] IN
  /\ UNCHANGED <<scenario, gateway, run, checkpoint, clicks>>
  /\ calls \in Seq(CallRecords)
  /\ \A i \in DOMAIN calls :
       /\ calls[i].key = Len(asked) + i
       /\ scenario.unique => calls[i].id = Len(asked) + i
       /\ calls[i].args \in Args
       /\ calls[i].held => /\ calls[i].tool \in Tools
                           /\ AllowedInProject(calls[i].tool) /\ RequiresApproval(calls[i].tool)
  /\ \E batch \in scenario.batches :
       Len(batch) = Len(calls) /\ \A i \in DOMAIN calls : calls[i].held => calls[i].tool = batch[i].tool
  /\ asked' = asked \o [i \in DOMAIN calls |-> [held |-> calls[i].held, signed |-> {}]]
  /\ o.state.turns < MaxTurns
  /\ \E r, s : /\ Becomes(a, r)
               /\ Is(r, "draining", o.status, s, o.call, calls, o.approved, o.resuming, o.shown)
               /\ s \in States /\ s.made = o.state.made /\ s.turns = o.state.turns + 1
               /\ s.calls = o.state.calls \cup {calls[i].key : i \in DOMAIN calls}
               /\ s.results = o.state.results /\ s.pending = o.state.pending /\ s.queued = <<>>

Settles(a) ==
  LET o == actor[a] IN
  /\ UNCHANGED <<scenario, gateway, run, checkpoint, clicks, asked>>
  /\ \E r, status : /\ status \in Terminal
                    /\ Becomes(a, r)
                    /\ Is(r, "settling", status, o.state, o.call, o.todo, o.approved, o.resuming, o.shown)

LEMMA SettlingIs ==
  ASSUME NEW o \in ActorRecords, NEW status \in Terminal
  PROVE  LET r == Settling(o, status) IN
         /\ r \in ActorRecords
         /\ Is(r, "settling", status, o.state, o.call, o.todo, o.approved, o.resuming, o.shown)
BY DEF Settling, ActorRecords, Is, Terminal, Labels, RunStatuses

LEMMA AskIs ==
  ASSUME GatewayTypes, AgentTypes, NEW a \in Actors, Ask(a)
  PROVE  On(a, "asking") /\ (Settles(a) \/ \E calls : Asks(a, calls))
<1> DEFINE o == actor[a]
<1>1. o \in ActorRecords /\ o.state \in States
  BY DEF AgentTypes, ActorRecords
<1>2. On(a, "asking") /\ UNCHANGED <<scenario, gateway, run, checkpoint, clicks>>
  BY DEF Ask
<1>3. ASSUME NEW status \in Terminal, Become(a, Settling(o, status)), UNCHANGED asked
      PROVE  Settles(a)
  <2>1. PICK r : r = Settling(o, status)
    OBVIOUS
  <2>2. r \in ActorRecords /\ Is(r, "settling", status, o.state, o.call, o.todo, o.approved, o.resuming, o.shown)
    BY <1>1, <2>1, SettlingIs
  <2>3. Becomes(a, r)
    BY <1>3, <2>1, <2>2, BecomeIs
  <2>4. QED
    BY <1>2, <1>3, <2>2, <2>3 DEF Settles
<1>4. ASSUME NEW batch \in scenario.batches,
             LET calls == Resolved(batch, o.state) IN
             /\ o.state.turns < MaxTurns
             /\ asked' = asked \o [i \in DOMAIN calls |-> [held |-> calls[i].held, signed |-> {}]]
             /\ Become(a, [o EXCEPT !.pc = "draining", !.todo = calls,
                                    !.state.turns = @ + 1, !.state.queued = <<>>,
                                    !.state.calls = @ \cup {calls[i].key : i \in DOMAIN calls}])
      PROVE  \E calls : Asks(a, calls)
  <2>1. PICK calls : calls = Resolved(batch, o.state)
    OBVIOUS
  <2>2. /\ calls \in Seq(CallRecords) /\ Len(calls) = Len(batch)
        /\ \A i \in DOMAIN calls :
             /\ calls[i].key = Len(asked) + i
             /\ scenario.unique => calls[i].id = Len(asked) + i
             /\ calls[i].args \in Args
             /\ calls[i].held =>
                  /\ calls[i].tool = batch[i].tool /\ calls[i].tool \in Tools
                  /\ AllowedInProject(calls[i].tool) /\ RequiresApproval(calls[i].tool)
    BY <1>1, <2>1, ResolvedIs
  <2>3. PICK keys : keys = {calls[i].key : i \in DOMAIN calls}
    OBVIOUS
  <2>4. keys \subseteq Nat
    BY <2>2, <2>3 DEF CallRecords
  <2>5. PICK s : s = [o.state EXCEPT !.turns = @ + 1, !.queued = <<>>, !.calls = @ \cup keys]
    OBVIOUS
  <2>6. /\ s \in States /\ s.made = o.state.made /\ s.turns = o.state.turns + 1
        /\ s.calls = o.state.calls \cup keys
        /\ s.results = o.state.results /\ s.pending = o.state.pending /\ s.queued = <<>>
    <3>1. PICK old \in States : old = o.state
      BY <1>1
    <3>2. PICK n \in Nat : n = old.turns + 1
      BY DEF States
    <3>3. PICK both \in SUBSET Nat : both = old.calls \cup keys
      BY <2>4 DEF States
    <3>4. s = [old EXCEPT !.turns = n, !.queued = <<>>, !.calls = both]
      BY <2>5, <3>1, <3>2, <3>3
    <3>5. s \in States
      <4>1. <<>> \in Seq(CallRecords)
        BY EmptySeq
      <4>2. PICK none \in Seq(CallRecords) : none = <<>>
        BY <4>1
      <4>3. s = [old EXCEPT !.turns = n, !.queued = none, !.calls = both]
        BY <3>4, <4>2
      <4>4. QED
        BY <4>3 DEF States
    <3>6. s.made = old.made /\ s.turns = n /\ s.calls = both /\ s.results = old.results
          /\ s.pending = old.pending /\ s.queued = <<>>
      BY <3>4 DEF States
    <3>7. QED
      BY <3>1, <3>2, <3>3, <3>5, <3>6
  <2>7. PICK r : r = [o EXCEPT !.pc = "draining", !.todo = calls, !.state = s]
    OBVIOUS
  <2>8. r \in ActorRecords /\ Is(r, "draining", o.status, s, o.call, calls, o.approved, o.resuming, o.shown)
    BY <1>1, <2>2, <2>6, <2>7 DEF ActorRecords, Is, Labels
  <2>9. [o EXCEPT !.pc = "draining", !.todo = calls, !.state.turns = @ + 1, !.state.queued = <<>>,
                  !.state.calls = @ \cup {calls[i].key : i \in DOMAIN calls}] = r
    BY <1>1, <2>3, <2>5, <2>7 DEF ActorRecords, States
  <2>10. Becomes(a, r)
    <3>1. Become(a, [o EXCEPT !.pc = "draining", !.todo = calls, !.state.turns = @ + 1, !.state.queued = <<>>,
                              !.state.calls = @ \cup {calls[i].key : i \in DOMAIN calls}])
      BY <1>4, <2>1
    <3>2. Become(a, r)
      BY <2>9, <3>1
    <3>3. QED
      BY <1>1, <2>8, <3>2, BecomeIs
  <2>11. o.state.turns < MaxTurns
         /\ asked' = asked \o [i \in DOMAIN calls |-> [held |-> calls[i].held, signed |-> {}]]
    BY <1>4, <2>1
  <2>12. \E again \in scenario.batches :
           Len(again) = Len(calls) /\ \A i \in DOMAIN calls : calls[i].held => calls[i].tool = again[i].tool
    BY <2>2
  <2>13. Asks(a, calls)
    BY <1>2, <2>2, <2>3, <2>6, <2>8, <2>10, <2>11, <2>12 DEF Asks
  <2>14. QED
    BY <2>13
<1>5. QED
  BY <1>2, <1>3, <1>4 DEF Ask, Terminal

LEMMA PostIs ==
  ASSUME NEW tool \in AnyTool, NEW args \in AnyArgs, NEW approval \in Nat, NEW for \in Nat,
         NEW r, r = Post(tool, args, approval, for)
  PROVE  /\ r \in Requests /\ r.pc = "deciding" /\ r.tool = tool /\ r.args = args
         /\ r.approval = approval /\ r.for = for /\ ~r.needs /\ r.answer = "none" /\ r.status = "none"
BY Blank DEF Post, Quiet, Requests, RequestLabels

\* The first call of the line: it is held, answered by the runtime, or made.
Rest1(a) == Tail(actor[a].todo)

Holds(a) ==
  LET o == actor[a] IN
  /\ UNCHANGED request /\ Head(o.todo).held
  /\ \E r, s : /\ Becomes(a, r)
               /\ Is(r, "holding", "waiting", s, o.call, Rest1(a), o.approved, o.resuming, o.shown)
               /\ s \in States /\ s.made = o.state.made /\ s.turns = o.state.turns
               /\ s.calls = o.state.calls /\ s.results = o.state.results
               /\ s.pending = Head(o.todo) /\ s.queued = Rest1(a)

Answers1(a) ==
  LET o == actor[a] IN
  /\ UNCHANGED request /\ ~Head(o.todo).held
  /\ \E r, s : /\ Becomes(a, r)
               /\ Is(r, "draining", o.status, s, o.call, Rest1(a), o.approved, o.resuming, o.shown)
               /\ Gains(o.state, s, Head(o.todo), "unknown") /\ s.queued = o.state.queued

Makes(a) ==
  LET o == actor[a] call == Head(o.todo) IN
  /\ ~call.held /\ call.tool \in Tools
  /\ Step(a, Post(call.tool, call.args, 0, call.key))
  /\ \E r : /\ Becomes(a, r)
            /\ Is(r, "invoking", o.status, o.state, call, Rest1(a), FALSE, o.resuming, o.shown)

LEMMA DrainIs ==
  ASSUME AgentTypes, NEW a \in Actors, Drain(a)
  PROVE  LET o == actor[a] IN
         /\ UNCHANGED <<scenario, bindings, bound, rate, approvals, effects, audit>>
         /\ UNCHANGED <<run, checkpoint, clicks, asked>>
         /\ On(a, "draining")
         /\ \/ /\ o.todo = <<>> /\ UNCHANGED request
               /\ \E r : Becomes(a, r) /\ Is(r, "drained", o.status, o.state, o.call, o.todo, o.approved, o.resuming, o.shown)
            \/ /\ o.todo # <<>> /\ Head(o.todo) \in CallRecords /\ Rest1(a) \in Seq(CallRecords)
               /\ Holds(a) \/ Answers1(a) \/ Makes(a)
<1> DEFINE o == actor[a]
           call == Head(o.todo)
           next == [o EXCEPT !.todo = Tail(@)]
<1>1. o \in ActorRecords /\ o.state \in States /\ o.todo \in Seq(CallRecords)
  BY DEF AgentTypes, ActorRecords
<1>2. /\ UNCHANGED <<scenario, bindings, bound, rate, approvals, effects, audit>>
      /\ UNCHANGED <<run, checkpoint, clicks, asked>> /\ On(a, "draining")
  BY DEF Drain
<1>3. CASE o.todo = <<>>
  BY <1>2, <1>3, GoIs DEF Drain, Labels
<1>4. CASE o.todo # <<>>
  <2>1. call \in CallRecords /\ Tail(o.todo) \in Seq(CallRecords)
    BY <1>1, <1>4
  <2>2. next = [o EXCEPT !.todo = Rest1(a)]
    BY <1>1 DEF Rest1, ActorRecords
  <2>3. Rest1(a) \in Seq(CallRecords)
    BY <2>1 DEF Rest1
  <2>4. CASE call.held
    <3>1. PICK s : s = HoldForApproval(o.state, call, Rest1(a))
      OBVIOUS
    <3>2. s \in States /\ s.made = o.state.made /\ s.turns = o.state.turns
          /\ s.calls = o.state.calls /\ s.results = o.state.results
          /\ s.pending = call /\ s.queued = Rest1(a)
      <4>1. PICK t \in States, h \in CallRecords, rest \in Seq(CallRecords) :
              t = o.state /\ h = call /\ rest = Rest1(a)
        BY <1>1, <2>1, <2>3
      <4>2. s = HoldForApproval(t, h, rest)
        BY <3>1, <4>1
      <4>3. QED
        BY <4>1, <4>2, HoldForApprovalIs
    <3>3. PICK r : r = [o EXCEPT !.todo = Rest1(a), !.pc = "holding", !.status = "waiting", !.state = s]
      OBVIOUS
    <3>4. r \in ActorRecords
          /\ Is(r, "holding", "waiting", s, o.call, Rest1(a), o.approved, o.resuming, o.shown)
      BY <1>1, <2>3, <3>2, <3>3 DEF ActorRecords, Is, Labels, RunStatuses
    <3>5. Become(a, r) /\ UNCHANGED request
      <4>1. [next EXCEPT !.pc = "holding", !.status = "waiting",
                         !.state = HoldForApproval(o.state, call, Tail(o.todo))] = r
        BY <1>1, <2>2, <3>1, <3>3 DEF ActorRecords, Rest1
      <4>2. QED
        BY <1>4, <2>4, <4>1 DEF Drain
    <3>6. Becomes(a, r)
      BY <3>4, <3>5, BecomeIs
    <3>7. Holds(a)
      BY <2>4, <3>2, <3>4, <3>5, <3>6 DEF Holds
    <3>8. QED
      BY <1>2, <1>4, <2>1, <2>3, <3>7
  <2>5. CASE ~call.held /\ call.tool = NoTool
    <3>1. PICK s : s = WithResult(o.state, call, "unknown")
      OBVIOUS
    <3>2. Gains(o.state, s, call, "unknown") /\ s.queued = o.state.queued
      <4>1. "unknown" \in Answers
        BY DEF Answers
      <4>2. QED
        BY <1>1, <2>1, <3>1, <4>1, WithResultIs
    <3>3. s \in States
      BY <3>2 DEF Gains
    <3>4. PICK r : r = [o EXCEPT !.todo = Rest1(a), !.state = s]
      OBVIOUS
    <3>5. r \in ActorRecords
          /\ Is(r, "draining", o.status, s, o.call, Rest1(a), o.approved, o.resuming, o.shown)
      BY <1>1, <1>2, <2>3, <3>3, <3>4 DEF ActorRecords, Is, On
    <3>6. Become(a, r) /\ UNCHANGED request
      <4>1. [next EXCEPT !.state = WithResult(@, call, "unknown")] = r
        BY <1>1, <2>2, <3>1, <3>4 DEF ActorRecords
      <4>2. QED
        BY <1>4, <2>5, <4>1 DEF Drain
    <3>7. Becomes(a, r)
      BY <3>5, <3>6, BecomeIs
    <3>8. Answers1(a)
      BY <2>5, <3>2, <3>5, <3>6, <3>7 DEF Answers1
    <3>9. QED
      BY <1>2, <1>4, <2>1, <2>3, <3>8
  <2>6. CASE ~call.held /\ call.tool # NoTool
    <3>1. PICK r : r = [o EXCEPT !.todo = Rest1(a), !.pc = "invoking", !.call = call, !.approved = FALSE]
      OBVIOUS
    <3>2. r \in ActorRecords
          /\ Is(r, "invoking", o.status, o.state, call, Rest1(a), FALSE, o.resuming, o.shown)
      BY <1>1, <2>1, <2>3, <3>1 DEF ActorRecords, Is, Labels
    <3>3. Become(a, r) /\ Step(a, Post(call.tool, call.args, 0, call.key))
      <4>1. [next EXCEPT !.pc = "invoking", !.call = call, !.approved = FALSE] = r
        BY <1>1, <2>2, <3>1 DEF ActorRecords
      <4>2. QED
        BY <1>4, <2>6, <4>1 DEF Drain
    <3>4. Becomes(a, r)
      BY <3>2, <3>3, BecomeIs
    <3>5. call.tool \in Tools
      BY <2>1, <2>6 DEF CallRecords
    <3>6. Makes(a)
      BY <2>6, <3>2, <3>3, <3>4, <3>5 DEF Makes
    <3>7. QED
      BY <1>2, <1>4, <2>1, <2>3, <3>6
  <2>7. QED
    BY <2>4, <2>5, <2>6
<1>5. QED
  BY <1>3, <1>4

LEMMA HoldIs ==
  ASSUME AgentTypes, NEW a \in Actors, Hold(a)
  PROVE  LET o == actor[a] IN
         /\ UNCHANGED <<scenario, gateway, checkpoint, clicks, asked>>
         /\ On(a, "holding") /\ run' = o.status
         /\ \E r : Becomes(a, r) /\ Is(r, "held", o.status, o.state, o.call, o.todo, o.approved, o.resuming, o.shown)
BY GoIs DEF Hold, Labels

Ends(a) ==
  \E r, pc : /\ pc \in {"idle", "done"}
             /\ Becomes(a, r) /\ Is(r, pc, "none", Fresh, NoCall, <<>>, FALSE, FALSE, actor[a].shown)

LEMMA HeldIs ==
  ASSUME AgentTypes, NEW a \in Actors, Held(a)
  PROVE  LET o == actor[a] IN
         /\ UNCHANGED <<scenario, gateway, run, clicks, asked>>
         /\ On(a, "held") /\ checkpoint' = o.state
         /\ \/ Ends(a)
            \/ \E r : Becomes(a, r) /\ Is(r, "late", o.status, o.state, o.call, o.todo, o.approved, o.resuming, o.shown)
BY GoIs, EndedIs DEF Held, Labels, Ends

LEMMA SaveLateIs ==
  ASSUME AgentTypes, NEW a \in Actors, SaveLate(a)
  PROVE  /\ UNCHANGED <<scenario, gateway, run, clicks, asked>>
         /\ On(a, "late") /\ checkpoint' = actor[a].state /\ Ends(a)
BY EndedIs DEF SaveLate, Ends

LEMMA DrainedIs ==
  ASSUME AgentTypes, NEW a \in Actors, Drained(a)
  PROVE  LET o == actor[a] IN
         /\ UNCHANGED <<scenario, gateway, run, clicks, asked>>
         /\ On(a, "drained") /\ checkpoint' = o.state
         /\ \/ \E r, status : /\ status \in Terminal /\ Becomes(a, r)
                              /\ Is(r, "settling", status, o.state, o.call, o.todo, o.approved, o.resuming, o.shown)
            \/ /\ o.resuming \/ ~Exhausted(o.state.made)
               /\ \E r : Becomes(a, r) /\ Is(r, "asking", o.status, o.state, o.call, o.todo, o.approved, FALSE, o.shown)
<1> DEFINE o == actor[a]
<1>1. o \in ActorRecords
  BY DEF AgentTypes
<1>2. /\ UNCHANGED <<scenario, gateway, run, clicks, asked>>
      /\ On(a, "drained") /\ checkpoint' = o.state
  BY DEF Drained
<1>3. CASE ~o.resuming /\ Exhausted(o.state.made)
  <2>1. PICK r : r = Settling(o, "failed")
    OBVIOUS
  <2>2. "failed" \in Terminal
    BY DEF Terminal
  <2>3. r \in ActorRecords /\ Is(r, "settling", "failed", o.state, o.call, o.todo, o.approved, o.resuming, o.shown)
    BY <1>1, <2>1, <2>2, SettlingIs
  <2>4. Become(a, r)
    BY <1>3, <2>1 DEF Drained
  <2>5. Becomes(a, r)
    BY <2>3, <2>4, BecomeIs
  <2>6. QED
    BY <1>2, <2>2, <2>3, <2>5
<1>4. CASE ~(~o.resuming /\ Exhausted(o.state.made))
  <2>1. PICK r : r = [o EXCEPT !.pc = "asking", !.resuming = FALSE]
    OBVIOUS
  <2>2. r \in ActorRecords /\ Is(r, "asking", o.status, o.state, o.call, o.todo, o.approved, FALSE, o.shown)
    BY <1>1, <2>1 DEF ActorRecords, Is, Labels
  <2>3. Become(a, r)
    BY <1>4, <2>1 DEF Drained
  <2>4. Becomes(a, r)
    BY <2>2, <2>3, BecomeIs
  <2>5. o.resuming \/ ~Exhausted(o.state.made)
    BY <1>4
  <2>6. QED
    BY <1>2, <2>2, <2>4, <2>5
<1>5. QED
  BY <1>3, <1>4

LEMMA SettleIs ==
  ASSUME AgentTypes, NEW a \in Actors, Settle(a)
  PROVE  LET o == actor[a] IN
         /\ UNCHANGED <<scenario, gateway, run, clicks, asked>>
         /\ On(a, "settling") /\ checkpoint' = o.state
         /\ \E r : Becomes(a, r) /\ Is(r, "settled", o.status, o.state, o.call, o.todo, o.approved, o.resuming, o.shown)
BY GoIs DEF Settle, Labels

LEMMA FinishIs ==
  ASSUME AgentTypes, NEW a \in Actors, Finish(a)
  PROVE  /\ UNCHANGED <<scenario, gateway, checkpoint, clicks, asked>>
         /\ On(a, "settled") /\ run' = actor[a].status /\ Ends(a)
BY EndedIs DEF Finish, Ends

\* The answer of the gateway: the second half of the handshake, or a result.
Again(a) ==
  LET o == actor[a] answer == request[a] IN
  /\ o.approved /\ answer.answer = "held" /\ answer.tool = o.call.tool
  /\ Step(a, Post(o.call.tool, o.call.args, answer.approval, o.call.key))
  /\ \E r : /\ Becomes(a, r)
            /\ Is(r, "invoking", o.status, o.state, o.call, o.todo, FALSE, o.resuming, o.shown)

Reads(a) ==
  LET o == actor[a] answer == request[a] IN
  /\ ~(o.approved /\ answer.answer = "held" /\ answer.tool = o.call.tool)
  /\ Step(a, Quiet)
  /\ \E r, s : /\ Becomes(a, r)
               /\ Is(r, "draining", o.status, s, NoCall, o.todo, FALSE, o.resuming, o.shown)
               /\ Gains(o.state, s, o.call, answer.answer) /\ s.queued = o.state.queued

LEMMA InvokedIs ==
  ASSUME GatewayTypes, AgentTypes, NEW a \in Actors, Invoked(a)
  PROVE  /\ UNCHANGED <<scenario, bindings, bound, rate, approvals, effects, audit>>
         /\ UNCHANGED <<run, checkpoint, clicks, asked>>
         /\ On(a, "invoking") /\ At(a, "answered")
         /\ Again(a) \/ Reads(a)
<1> DEFINE o == actor[a]
           answer == request[a]
<1>1. o \in ActorRecords /\ o.state \in States /\ o.call \in CallRecords
  BY DEF AgentTypes, ActorRecords
<1>2. answer \in Requests /\ answer.answer \in Answers
  BY ActorsCall DEF GatewayTypes, Requests
<1>3. /\ UNCHANGED <<scenario, bindings, bound, rate, approvals, effects, audit>>
      /\ UNCHANGED <<run, checkpoint, clicks, asked>>
      /\ On(a, "invoking") /\ At(a, "answered")
  BY DEF Invoked
<1>4. CASE AnswersApproval(o, answer)
  <2>1. PICK r : r = [o EXCEPT !.approved = FALSE]
    OBVIOUS
  <2>2. r \in ActorRecords
        /\ Is(r, "invoking", o.status, o.state, o.call, o.todo, FALSE, o.resuming, o.shown)
    BY <1>1, <1>3, <2>1 DEF ActorRecords, Is, On
  <2>3. Become(a, r) /\ Step(a, Post(o.call.tool, o.call.args, answer.approval, o.call.key))
    BY <1>4, <2>1 DEF Invoked
  <2>4. Becomes(a, r)
    BY <2>2, <2>3, BecomeIs
  <2>5. QED
    BY <1>3, <1>4, <2>2, <2>3, <2>4 DEF Again, AnswersApproval
<1>5. CASE ~AnswersApproval(o, answer)
  <2>1. PICK s : s = WithResult(o.state, o.call, answer.answer)
    OBVIOUS
  <2>2. Gains(o.state, s, o.call, answer.answer) /\ s.queued = o.state.queued
    <3>1. PICK t \in States, call \in CallRecords, text \in Answers :
            t = o.state /\ call = o.call /\ text = answer.answer
      BY <1>1, <1>2
    <3>2. s = WithResult(t, call, text)
      BY <2>1, <3>1
    <3>3. QED
      BY <3>1, <3>2, WithResultIs
  <2>3. s \in States
    BY <2>2 DEF Gains
  <2>4. PICK r : r = [o EXCEPT !.pc = "draining", !.call = NoCall, !.approved = FALSE, !.state = s]
    OBVIOUS
  <2>5. r \in ActorRecords
        /\ Is(r, "draining", o.status, s, NoCall, o.todo, FALSE, o.resuming, o.shown)
    BY <1>1, <2>3, <2>4, Blank DEF ActorRecords, Is, Labels
  <2>6. Become(a, r) /\ Step(a, Quiet)
    <3>1. [o EXCEPT !.pc = "draining", !.call = NoCall, !.approved = FALSE,
                    !.state = WithResult(@, o.call, answer.answer)] = r
      BY <1>1, <2>1, <2>4 DEF ActorRecords
    <3>2. QED
      BY <1>5, <3>1 DEF Invoked
  <2>7. Becomes(a, r)
    BY <2>5, <2>6, BecomeIs
  <2>8. Reads(a)
    BY <1>5, <2>2, <2>5, <2>6, <2>7 DEF Reads, AnswersApproval
  <2>9. QED
    BY <1>3, <2>8
<1>6. QED
  BY <1>4, <1>5

LEMMA SeeIs ==
  ASSUME AgentTypes, NEW a \in Actors, See(a)
  PROVE  /\ UNCHANGED <<scenario, gateway, run, checkpoint, clicks, asked>>
         /\ On(a, "idle") /\ checkpoint.pending # NoCall
         /\ \E r : /\ Becomes(a, r)
                   /\ Is(r, "idle", "none", Fresh, NoCall, <<>>, FALSE, FALSE, checkpoint.pending)
<1> DEFINE r == [Off EXCEPT !.shown = checkpoint.pending]
<1>1. checkpoint.pending \in CallRecords
  BY DEF AgentTypes, States
<1>2. r \in ActorRecords
  BY <1>1, Blank DEF ActorRecords
<1>3. Is(r, "idle", "none", Fresh, NoCall, <<>>, FALSE, FALSE, checkpoint.pending)
  BY DEF Is, Off
<1>4. Become(a, r)
  BY DEF See
<1> HIDE DEF r
<1>5. Becomes(a, r)
  BY <1>2, <1>4, BecomeIs
<1>6. QED
  BY <1>3, <1>5 DEF See

LEMMA ApproveIs ==
  ASSUME AgentTypes, NEW a \in Actors, Approve(a)
  PROVE  LET o == actor[a] IN
         /\ UNCHANGED <<scenario, gateway, run, checkpoint, asked>>
         /\ clicks' \in [Callers -> Nat]
         /\ On(a, "idle") /\ o.shown # NoCall /\ (scenario.patient => Quiescent)
         /\ \E r : Becomes(a, r) /\ Is(r, "finding", run, o.state, o.call, o.todo, o.approved, o.resuming, o.shown)
<1> DEFINE o == actor[a]
           r == [o EXCEPT !.pc = "finding", !.status = run]
<1>1. o \in ActorRecords /\ run \in RunStatuses
  BY DEF AgentTypes
<1>2. r \in ActorRecords
  BY <1>1 DEF ActorRecords, Labels
<1>3. Is(r, "finding", run, o.state, o.call, o.todo, o.approved, o.resuming, o.shown)
  BY <1>1 DEF Is, ActorRecords
<1>4. Become(a, r)
  BY DEF Approve
<1> HIDE DEF r
<1>5. Becomes(a, r)
  BY <1>2, <1>4, BecomeIs
<1>6. clicks' \in [Callers -> Nat]
  <2>1. clicks[a] \in Nat /\ clicks[a] > 0
    BY ActorsCall DEF Approve, AgentTypes
  <2>2. clicks[a] - 1 \in Nat
    BY <2>1
  <2>3. QED
    BY <2>2 DEF Approve, AgentTypes
<1>7. QED
  BY <1>3, <1>5, <1>6 DEF Approve

LEMMA LoadIs ==
  ASSUME AgentTypes, NEW a \in Actors, Load(a)
  PROVE  LET o == actor[a] IN
         /\ UNCHANGED <<scenario, gateway, run, checkpoint, clicks, asked>>
         /\ On(a, "finding")
         /\ \/ Ends(a)
            \/ /\ MayResume(a, checkpoint.pending)
               /\ \E r : Becomes(a, r) /\ Is(r, "loading", "running", checkpoint, o.call, o.todo, o.approved, o.resuming, o.shown)
<1> DEFINE o == actor[a]
           r == [o EXCEPT !.pc = "loading", !.status = "running", !.state = checkpoint]
<1>1. o \in ActorRecords /\ checkpoint \in States
  BY DEF AgentTypes
<1>2. r \in ActorRecords
  BY <1>1 DEF ActorRecords, Labels, RunStatuses
<1>3. Is(r, "loading", "running", checkpoint, o.call, o.todo, o.approved, o.resuming, o.shown)
  BY <1>1 DEF Is, ActorRecords
<1>4. Ended(a) \/ (MayResume(a, checkpoint.pending) /\ Become(a, r))
  BY DEF Load
<1> HIDE DEF r
<1>5. Ended(a) => Ends(a)
  BY EndedIs DEF Ends
<1>6. Become(a, r) => Becomes(a, r)
  BY <1>2, BecomeIs
<1>7. QED
  BY <1>3, <1>4, <1>5, <1>6 DEF Load

\* The human says yes, or no.
Carries(a) ==
  LET o == actor[a] call == o.state.pending IN
  /\ Step(a, Post(call.tool, call.args, 0, call.key))
  /\ asked' = [asked EXCEPT ![call.key].signed = @ \cup {o.shown.key}]
  /\ \E r, s : /\ Becomes(a, r)
               /\ Is(r, "invoking", o.status, s, call, o.state.queued, TRUE, TRUE, o.shown)
               /\ s \in States /\ s.made = o.state.made /\ s.turns = o.state.turns
               /\ s.calls = o.state.calls /\ s.results = o.state.results
               /\ s.pending = call /\ s.queued = <<>>

Denies(a) ==
  LET o == actor[a] IN
  /\ UNCHANGED <<request, asked>>
  /\ \E r, s : /\ Becomes(a, r)
               /\ Is(r, "draining", o.status, s, o.call, o.state.queued, o.approved, TRUE, o.shown)
               /\ Gains(o.state, s, o.state.pending, "denied") /\ s.queued = <<>>

LEMMA ResumeIs ==
  ASSUME AgentTypes, NEW a \in Actors, Resume(a)
  PROVE  /\ UNCHANGED <<scenario, bindings, bound, rate, approvals, effects, audit>>
         /\ UNCHANGED <<checkpoint, clicks>> /\ run' = "running"
         /\ On(a, "loading")
         /\ Carries(a) \/ Denies(a)
<1> DEFINE o == actor[a]
           call == o.state.pending
           next == [o EXCEPT !.todo = o.state.queued, !.state.queued = <<>>, !.resuming = TRUE]
<1>1. o \in ActorRecords /\ o.state \in States /\ call \in CallRecords /\ o.state.queued \in Seq(CallRecords)
  BY DEF AgentTypes, ActorRecords, States
<1>2. /\ UNCHANGED <<scenario, bindings, bound, rate, approvals, effects, audit>>
      /\ UNCHANGED <<checkpoint, clicks>> /\ run' = "running" /\ On(a, "loading")
  BY DEF Resume
<1>3. PICK s : s = [o.state EXCEPT !.queued = <<>>]
  OBVIOUS
<1>4. s \in States /\ s.made = o.state.made /\ s.turns = o.state.turns
      /\ s.calls = o.state.calls /\ s.results = o.state.results
      /\ s.pending = call /\ s.queued = <<>>
  <2>1. <<>> \in Seq(CallRecords)
    BY EmptySeq
  <2>2. PICK t \in States, none \in Seq(CallRecords) : t = o.state /\ none = <<>>
    BY <1>1, <2>1
  <2>3. s = [t EXCEPT !.queued = none]
    BY <1>3, <2>2
  <2>4. s \in States
    BY <2>3 DEF States
  <2>5. QED
    BY <2>2, <2>3, <2>4 DEF States
<1>5. next = [o EXCEPT !.todo = o.state.queued, !.state = s, !.resuming = TRUE]
  BY <1>1, <1>3 DEF ActorRecords
<1>6. ASSUME Become(a, [next EXCEPT !.pc = "invoking", !.call = call, !.approved = TRUE]),
             Step(a, Post(call.tool, call.args, 0, call.key)),
             asked' = [asked EXCEPT ![call.key].signed = @ \cup {o.shown.key}]
      PROVE  Carries(a)
  <2>1. PICK r : r = [o EXCEPT !.todo = o.state.queued, !.state = s, !.resuming = TRUE,
                              !.pc = "invoking", !.call = call, !.approved = TRUE]
    OBVIOUS
  <2>2. r \in ActorRecords /\ Is(r, "invoking", o.status, s, call, o.state.queued, TRUE, TRUE, o.shown)
    BY <1>1, <1>4, <2>1 DEF ActorRecords, Is, Labels
  <2>3. [next EXCEPT !.pc = "invoking", !.call = call, !.approved = TRUE] = r
    BY <1>1, <1>5, <2>1 DEF ActorRecords
  <2>4. Becomes(a, r)
    BY <1>6, <2>2, <2>3, BecomeIs
  <2>5. QED
    BY <1>4, <1>6, <2>2, <2>4 DEF Carries
<1>7. ASSUME Become(a, [next EXCEPT !.pc = "draining", !.state = WithResult(@, call, "denied")]),
             UNCHANGED <<request, asked>>
      PROVE  Denies(a)
  <2>1. PICK t : t = WithResult(s, call, "denied")
    OBVIOUS
  <2>2. Gains(o.state, t, call, "denied") /\ t.queued = <<>>
    <3>1. "denied" \in Answers
      BY DEF Answers
    <3>2. PICK w \in CallRecords : w = call
      BY <1>1
    <3>3. t = WithResult(s, w, "denied")
      BY <2>1, <3>2
    <3>4. Gains(s, t, w, "denied") /\ t.queued = s.queued
      BY <1>4, <3>1, <3>3, WithResultIs
    <3>5. QED
      BY <1>4, <3>2, <3>4 DEF Gains
  <2>3. t \in States
    BY <2>2 DEF Gains
  <2>4. PICK r : r = [o EXCEPT !.todo = o.state.queued, !.state = t, !.resuming = TRUE, !.pc = "draining"]
    OBVIOUS
  <2>5. r \in ActorRecords /\ Is(r, "draining", o.status, t, o.call, o.state.queued, o.approved, TRUE, o.shown)
    BY <1>1, <2>3, <2>4 DEF ActorRecords, Is, Labels
  <2>6. [next EXCEPT !.pc = "draining", !.state = WithResult(@, call, "denied")] = r
    BY <1>1, <1>5, <2>1, <2>4 DEF ActorRecords
  <2>7. Becomes(a, r)
    BY <1>7, <2>5, <2>6, BecomeIs
  <2>8. QED
    BY <1>7, <2>2, <2>5, <2>7 DEF Denies
<1>8. Carries(a) \/ Denies(a)
  BY <1>6, <1>7 DEF Resume
<1>9. QED
  BY <1>2, <1>8

LEMMA CrashIs ==
  ASSUME AgentTypes, NEW a \in Actors, Crash(a)
  PROVE  /\ UNCHANGED <<scenario, gateway, run, checkpoint, clicks, asked>>
         /\ "crash" \in scenario.faults /\ Handling(a)
         /\ \E r : Becomes(a, r) /\ Is(r, "gone", "none", Fresh, NoCall, <<>>, FALSE, FALSE, NoCall)
<1> DEFINE r == [Off EXCEPT !.pc = "gone"]
<1>1. r \in ActorRecords
  BY Blank DEF ActorRecords, Labels
<1>2. Is(r, "gone", "none", Fresh, NoCall, <<>>, FALSE, FALSE, NoCall)
  BY DEF Is, Off
<1>3. Become(a, r)
  BY DEF Crash
<1> HIDE DEF r
<1>4. Becomes(a, r)
  BY <1>1, <1>3, BecomeIs
<1>5. QED
  BY <1>2, <1>4 DEF Crash

-----------------------------------------------------------------------------
\* What a step of the gateway makes of the request it serves

Serves(c, r) ==
  /\ r \in Requests
  /\ request' = [request EXCEPT ![c] = r] /\ request'[c] = r
  /\ \A d \in Callers : d # c => request'[d] = request[d]

\* What a request is about stays the same.
Same(o, r) == r.tool = o.tool /\ r.args = o.args /\ r.for = o.for

LEMMA ServesIs ==
  ASSUME GatewayTypes, NEW c \in Callers, NEW r \in Requests, Step(c, r)
  PROVE  Serves(c, r) /\ request' \in [Callers -> Requests]
BY DEF Step, Serves, GatewayTypes

LEMMA AnsweredIs ==
  ASSUME NEW o \in Requests, NEW answer \in Answers
  PROVE  LET r == Answered(o, answer) IN
         /\ r \in Requests /\ Same(o, r) /\ r.pc = "answered" /\ r.answer = answer
         /\ r.status = o.status /\ r.approval = o.approval /\ r.needs = o.needs
BY DEF Answered, Requests, RequestLabels, Same

LEMMA RecordingIs ==
  ASSUME NEW o \in Requests, NEW status \in Statuses, NEW answer \in Answers
  PROVE  LET r == Recording(o, status, answer) IN
         /\ r \in Requests /\ Same(o, r) /\ r.pc = "recording" /\ r.answer = answer
         /\ r.status = status /\ r.approval = o.approval /\ r.needs = o.needs
BY DEF Recording, Requests, RequestLabels, Same

\* A request is answered without a record, or its record is about to be made.
AnswersWith(c, answer) ==
  LET o == request[c] IN
  \E r : /\ Serves(c, r) /\ Same(o, r) /\ r.pc = "answered" /\ r.answer = answer
         /\ r.status = o.status /\ r.approval = o.approval /\ r.needs = o.needs
RecordsAs(c, status, answer) ==
  LET o == request[c] IN
  \E r : /\ Serves(c, r) /\ Same(o, r) /\ r.pc = "recording" /\ r.answer = answer
         /\ r.status = status /\ r.approval = o.approval /\ r.needs = o.needs

LEMMA StepAnswered ==
  ASSUME GatewayTypes, NEW c \in Callers, NEW answer \in Answers, Step(c, Answered(request[c], answer))
  PROVE  AnswersWith(c, answer)
<1>1. PICK o \in Requests : o = request[c]
  BY DEF GatewayTypes
<1>2. PICK r : r = Answered(o, answer)
  OBVIOUS
<1>3. /\ r \in Requests /\ Same(o, r) /\ r.pc = "answered" /\ r.answer = answer
      /\ r.status = o.status /\ r.approval = o.approval /\ r.needs = o.needs
  BY <1>2, AnsweredIs
<1>4. Serves(c, r)
  BY <1>1, <1>2, <1>3, ServesIs
<1>5. QED
  BY <1>1, <1>3, <1>4 DEF AnswersWith

LEMMA StepRecording ==
  ASSUME GatewayTypes, NEW c \in Callers, NEW status \in Statuses, NEW answer \in Answers,
         Step(c, Recording(request[c], status, answer))
  PROVE  RecordsAs(c, status, answer)
<1>1. PICK o \in Requests : o = request[c]
  BY DEF GatewayTypes
<1>2. PICK r : r = Recording(o, status, answer)
  OBVIOUS
<1>3. /\ r \in Requests /\ Same(o, r) /\ r.pc = "recording" /\ r.answer = answer
      /\ r.status = status /\ r.approval = o.approval /\ r.needs = o.needs
  BY <1>2, RecordingIs
<1>4. Serves(c, r)
  BY <1>1, <1>2, <1>3, ServesIs
<1>5. QED
  BY <1>1, <1>3, <1>4 DEF RecordsAs

\* A decision: the call goes on with what its binding asks of it.
Allows(c) ==
  LET o == request[c] IN
  \E r : /\ Serves(c, r) /\ Same(o, r) /\ r.pc = "metering" /\ r.answer = o.answer
         /\ r.status = o.status /\ r.approval = o.approval
         /\ r.needs = RequiresApproval(o.tool) /\ r.limit = bindings[o.tool].rate

LEMMA DecideIs ==
  ASSUME GatewayTypes, Placed, NEW c \in Callers, Decide(c)
  PROVE  /\ UNCHANGED <<scenario, bindings, bound, rate, approvals, effects, audit>> /\ At(c, "deciding")
         /\ \/ Allows(c)
            \/ ~MayInvoke(c, request[c].tool) /\ RecordsAs(c, "denied", "refused")
            \/ "executor" \in scenario.faults /\ RecordsAs(c, "failed", "failed")
<1>1. PICK o \in Requests : o = request[c]
  BY DEF GatewayTypes
<1>2. UNCHANGED <<scenario, bindings, bound, rate, approvals, effects, audit>> /\ At(c, "deciding")
  BY DEF Decide
<1>3. o.tool \in Tools
  BY <1>1, <1>2 DEF Placed, PlacedRequest, At
<1>4. RequiresApproval(o.tool) \in BOOLEAN /\ bindings[o.tool].rate \in Nat
  <2>1. bindings[o.tool] \in Bindings
    BY <1>3 DEF GatewayTypes
  <2>2. bindings[o.tool].approval \in BOOLEAN /\ bindings[o.tool].rate \in Nat
    BY <2>1 DEF Bindings
  <2>3. QED
    BY <2>2 DEF RequiresApproval
<1>5. "denied" \in Statuses /\ "failed" \in Statuses /\ "refused" \in Answers /\ "failed" \in Answers
  BY DEF Statuses, Answers
<1>6. PICK ready \in {TRUE} \cup {"executor" \notin scenario.faults} :
       Step(c, IF ~MayInvoke(c, o.tool) THEN Recording(o, "denied", "refused")
               ELSE IF ~ready THEN Recording(o, "failed", "failed")
               ELSE [o EXCEPT !.pc = "metering", !.needs = RequiresApproval(o.tool),
                              !.limit = bindings[o.tool].rate])
  BY <1>1 DEF Decide
<1>7. CASE ~MayInvoke(c, o.tool)
  BY <1>1, <1>2, <1>5, <1>6, <1>7, StepRecording
<1>8. CASE MayInvoke(c, o.tool) /\ ~ready
  BY <1>1, <1>2, <1>5, <1>6, <1>8, StepRecording
<1>9. CASE MayInvoke(c, o.tool) /\ ready
  <2>1. PICK needs \in BOOLEAN, limit \in Nat : needs = RequiresApproval(o.tool) /\ limit = bindings[o.tool].rate
    BY <1>4
  <2>2. PICK r : r = [o EXCEPT !.pc = "metering", !.needs = needs, !.limit = limit]
    OBVIOUS
  <2>3. /\ r \in Requests /\ Same(o, r) /\ r.pc = "metering" /\ r.answer = o.answer
        /\ r.status = o.status /\ r.approval = o.approval /\ r.needs = needs /\ r.limit = limit
    BY <2>2 DEF Requests, RequestLabels, Same
  <2>4. Step(c, r)
    BY <1>6, <1>9, <2>1, <2>2
  <2>5. Serves(c, r)
    BY <2>3, <2>4, ServesIs
  <2>6. Allows(c)
    BY <1>1, <2>1, <2>3, <2>5 DEF Allows
  <2>7. QED
    BY <1>2, <2>6
<1>10. QED
  BY <1>7, <1>8, <1>9

LEMMA DecideFailsIs ==
  ASSUME GatewayTypes, NEW c \in Callers, DecideFails(c)
  PROVE  /\ UNCHANGED <<scenario, bindings, bound, rate, approvals, effects, audit>> /\ At(c, "deciding")
         /\ "mongo" \in scenario.faults /\ AnswersWith(c, "failed")
<1>1. "failed" \in Answers
  BY DEF Answers
<1>2. QED
  BY <1>1, StepAnswered DEF DecideFails

\* Past the limiter.
Passes(c) ==
  LET o == request[c] IN
  \E r : /\ Serves(c, r) /\ Same(o, r) /\ r.answer = o.answer
         /\ r.pc = IF ~o.needs THEN "executing" ELSE IF o.approval = 0 THEN "opening" ELSE "taking"
         /\ r.status = o.status /\ r.approval = o.approval /\ r.needs = o.needs

LEMMA StepMetered ==
  ASSUME GatewayTypes, NEW c \in Callers, Step(c, Metered(request[c]))
  PROVE  Passes(c)
<1>1. PICK o \in Requests : o = request[c]
  BY DEF GatewayTypes
<1>2. PICK pc \in RequestLabels : pc = IF ~o.needs THEN "executing" ELSE IF o.approval = 0 THEN "opening" ELSE "taking"
  BY DEF RequestLabels
<1>3. PICK r : r = [o EXCEPT !.pc = pc]
  OBVIOUS
<1>4. /\ r \in Requests /\ Same(o, r) /\ r.pc = pc /\ r.answer = o.answer
      /\ r.status = o.status /\ r.approval = o.approval /\ r.needs = o.needs
  BY <1>3 DEF Requests, Same
<1>5. Metered(request[c]) = r
  BY <1>1, <1>2, <1>3 DEF Metered
<1>6. Serves(c, r)
  BY <1>4, <1>5, ServesIs
<1>7. QED
  BY <1>1, <1>2, <1>4, <1>6 DEF Passes

LEMMA MeterIs ==
  ASSUME GatewayTypes, Placed, NEW c \in Callers, Meter(c)
  PROVE  /\ UNCHANGED <<scenario, bindings, bound, approvals, effects, audit>> /\ At(c, "metering")
         /\ rate' \in [Tools -> Nat] /\ \A t \in Tools : rate'[t] >= rate[t]
         /\ \/ Passes(c)
            \/ rate'[request[c].tool] > request[c].limit /\ RecordsAs(c, "denied", "refused")
<1>1. PICK o \in Requests : o = request[c]
  BY DEF GatewayTypes
<1>2. UNCHANGED <<scenario, bindings, bound, approvals, effects, audit>> /\ At(c, "metering")
  BY DEF Meter
<1>3. o.tool \in Tools
  BY <1>1, <1>2 DEF Placed, PlacedRequest, At
<1>4. rate \in [Tools -> Nat] /\ rate' = [rate EXCEPT ![o.tool] = @ + 1]
  BY <1>1 DEF Meter, GatewayTypes
<1>5. rate[o.tool] \in Nat /\ rate'[o.tool] = rate[o.tool] + 1
  BY <1>3, <1>4
<1>6. rate' \in [Tools -> Nat] /\ \A t \in Tools : rate'[t] >= rate[t]
  BY <1>3, <1>4, <1>5
<1>7. "denied" \in Statuses /\ "refused" \in Answers
  BY DEF Statuses, Answers
<1>8. CASE rate[o.tool] + 1 > o.limit
  <2>1. Step(c, Recording(request[c], "denied", "refused"))
    BY <1>1, <1>8 DEF Meter
  <2>2. QED
    BY <1>1, <1>2, <1>5, <1>6, <1>7, <1>8, <2>1, StepRecording
<1>9. CASE ~(rate[o.tool] + 1 > o.limit)
  <2>1. Step(c, Metered(request[c]))
    BY <1>1, <1>9 DEF Meter
  <2>2. QED
    BY <1>2, <1>6, <2>1, StepMetered
<1>10. QED
  BY <1>8, <1>9

LEMMA MeterFailsIs ==
  ASSUME GatewayTypes, NEW c \in Callers, MeterFails(c)
  PROVE  /\ UNCHANGED <<scenario, bindings, bound, rate, approvals, effects, audit>> /\ At(c, "metering")
         /\ "redis" \in scenario.faults /\ Passes(c)
BY StepMetered DEF MeterFails

\* One more approval, that is pending.
LEMMA OpenApprovalIs ==
  ASSUME GatewayTypes, NEW c \in Callers, OpenApproval(c)
  PROVE  LET o == request[c] n == Len(approvals) + 1 IN
         /\ UNCHANGED <<scenario, bindings, bound, rate, effects, audit>> /\ At(c, "opening")
         /\ n \in Nat \ {0} /\ approvals' \in Seq(Approvals)
         /\ Len(approvals') = n /\ DOMAIN approvals = 1 .. Len(approvals) /\ DOMAIN approvals' = 1 .. n
         /\ \A i \in DOMAIN approvals : approvals'[i] = approvals[i]
         /\ approvals'[n] = [tool |-> o.tool, args |-> o.args, state |-> "pending"]
         /\ \E r : /\ Serves(c, r) /\ Same(o, r) /\ r.pc = "recording" /\ r.answer = "held"
                   /\ r.status = "approval_required" /\ r.approval = n /\ r.needs = o.needs
<1>1. PICK o \in Requests : o = request[c]
  BY DEF GatewayTypes
<1>2. UNCHANGED <<scenario, bindings, bound, rate, effects, audit>> /\ At(c, "opening")
  BY DEF OpenApproval
<1>3. approvals \in Seq(Approvals)
  BY DEF GatewayTypes
<1>4. PICK n \in Nat \ {0} : n = Len(approvals) + 1
  BY <1>3
<1>5. PICK new \in Approvals : new = [tool |-> o.tool, args |-> o.args, state |-> "pending"]
  <2>1. [tool |-> o.tool, args |-> o.args, state |-> "pending"] \in Approvals
    BY DEF Approvals, Requests
  <2>2. QED
    BY <2>1
<1>6. approvals' = Append(approvals, new)
  BY <1>1, <1>5 DEF OpenApproval
<1>7. /\ approvals' \in Seq(Approvals) /\ Len(approvals') = n
      /\ DOMAIN approvals = 1 .. Len(approvals) /\ DOMAIN approvals' = 1 .. n
      /\ \A i \in DOMAIN approvals : approvals'[i] = approvals[i]
      /\ approvals'[n] = new
  BY <1>3, <1>4, <1>6
<1>8. PICK s : s = Recording(o, "approval_required", "held")
  OBVIOUS
<1>9. /\ s \in Requests /\ Same(o, s) /\ s.pc = "recording" /\ s.answer = "held"
      /\ s.status = "approval_required" /\ s.needs = o.needs
  <2>1. "approval_required" \in Statuses /\ "held" \in Answers
    BY DEF Statuses, Answers
  <2>2. QED
    BY <1>8, <2>1, RecordingIs
<1>10. PICK r : r = [s EXCEPT !.approval = n]
  OBVIOUS
<1>11. /\ r \in Requests /\ Same(o, r) /\ r.pc = "recording" /\ r.answer = "held"
       /\ r.status = "approval_required" /\ r.needs = o.needs /\ r.approval = n
  BY <1>9, <1>10 DEF Requests, Same
<1>12. Serves(c, r)
  <2>1. Step(c, r)
    BY <1>1, <1>4, <1>8, <1>10 DEF OpenApproval
  <2>2. QED
    BY <1>11, <2>1, ServesIs
<1>13. QED
  BY <1>1, <1>2, <1>4, <1>5, <1>7, <1>11, <1>12

\* An approval is gone, all others are what they were.
TakenAt(i) ==
  /\ approvals' \in Seq(Approvals) /\ Len(approvals') = Len(approvals)
  /\ DOMAIN approvals' = DOMAIN approvals
  /\ \A j \in DOMAIN approvals :
       /\ approvals'[j].tool = approvals[j].tool /\ approvals'[j].args = approvals[j].args
       /\ j # i => approvals'[j] = approvals[j]
       /\ j = i => approvals'[j].state = "gone"

LEMMA TakenIs ==
  ASSUME GatewayTypes, NEW i \in Nat, Taken(i)
  PROVE  TakenAt(i)
<1>1. PICK n \in Nat : approvals \in [1 .. n -> Approvals] /\ n = Len(approvals) /\ DOMAIN approvals = 1 .. n
  BY DEF GatewayTypes
<1>2. approvals' = [approvals EXCEPT ![i].state = "gone"]
  BY DEF Taken
<1>3. \A x \in Approvals : [x EXCEPT !.state = "gone"] \in Approvals
  BY DEF Approvals
<1>4. approvals' \in [1 .. n -> Approvals]
  BY <1>1, <1>2, <1>3
<1>5. \A j \in 1 .. n : j # i => approvals'[j] = approvals[j]
  BY <1>1, <1>2
<1>6. \A j \in 1 .. n : j = i => approvals'[j] = [approvals[j] EXCEPT !.state = "gone"]
  BY <1>1, <1>2
<1>7. ASSUME NEW j \in 1 .. n
      PROVE  /\ approvals'[j].tool = approvals[j].tool /\ approvals'[j].args = approvals[j].args
             /\ j = i => approvals'[j].state = "gone"
  <2>1. approvals[j] \in Approvals
    BY <1>1
  <2>2. QED
    BY <1>5, <1>6, <2>1 DEF Approvals
<1>8. approvals' \in Seq(Approvals) /\ Len(approvals') = n /\ DOMAIN approvals' = 1 .. n
  BY <1>4
<1>9. QED
  BY <1>1, <1>5, <1>7, <1>8 DEF TakenAt

\* The approval was pending and is for this call.
Takes(c) ==
  LET o == request[c] IN
  /\ approvals[o.approval].state = "pending" /\ Matching(o, o.approval)
  /\ \E r : /\ Serves(c, r) /\ Same(o, r) /\ r.pc = "executing" /\ r.answer = o.answer
            /\ r.status = o.status /\ r.approval = o.approval /\ r.needs = o.needs

LEMMA TakeApprovalIs ==
  ASSUME GatewayTypes, NEW c \in Callers, TakeApproval(c)
  PROVE  LET o == request[c] IN
         /\ UNCHANGED <<scenario, bindings, bound, rate, effects, audit>> /\ At(c, "taking")
         /\ TakenAt(o.approval)
         /\ \/ Takes(c)
            \/ /\ ~(approvals[o.approval].state = "pending" /\ Matching(o, o.approval))
               /\ AnswersWith(c, "refused")
<1>1. PICK o \in Requests : o = request[c]
  BY DEF GatewayTypes
<1>2. UNCHANGED <<scenario, bindings, bound, rate, effects, audit>> /\ At(c, "taking")
  BY DEF TakeApproval
<1>3. TakenAt(o.approval)
  BY <1>1, TakenIs DEF TakeApproval, Requests
<1> DEFINE fits == approvals[o.approval].state = "pending" /\ Matching(o, o.approval)
<1>4. CASE fits
  <2>1. PICK r : r = [o EXCEPT !.pc = "executing"]
    OBVIOUS
  <2>2. /\ r \in Requests /\ Same(o, r) /\ r.pc = "executing" /\ r.answer = o.answer
        /\ r.status = o.status /\ r.approval = o.approval /\ r.needs = o.needs
    BY <2>1 DEF Requests, RequestLabels, Same
  <2>3. Step(c, r)
    BY <1>1, <1>4, <2>1 DEF TakeApproval, Matching
  <2>4. Serves(c, r)
    BY <2>2, <2>3, ServesIs
  <2>5. Takes(c)
    BY <1>1, <1>4, <2>2, <2>4 DEF Takes
  <2>6. QED
    BY <1>1, <1>2, <1>3, <2>5
<1>5. CASE ~fits
  <2>1. Step(c, Answered(request[c], "refused"))
    BY <1>1, <1>5 DEF TakeApproval, Matching
  <2>2. "refused" \in Answers
    BY DEF Answers
  <2>3. AnswersWith(c, "refused")
    BY <2>1, <2>2, StepAnswered
  <2>4. QED
    BY <1>1, <1>2, <1>3, <1>5, <2>3
<1>6. QED
  BY <1>4, <1>5

LEMMA ApprovalFailsIs ==
  ASSUME GatewayTypes, NEW c \in Callers, ApprovalFails(c)
  PROVE  /\ UNCHANGED <<scenario, bindings, bound, rate, effects, audit>>
         /\ At(c, "opening") \/ At(c, "taking")
         /\ "redis" \in scenario.faults /\ AnswersWith(c, "failed")
         /\ UNCHANGED approvals \/ (At(c, "taking") /\ TakenAt(request[c].approval))
<1>1. "failed" \in Answers /\ request[c].approval \in Nat
  BY DEF Answers, GatewayTypes, Requests
<1>2. UNCHANGED approvals \/ (At(c, "taking") /\ Taken(request[c].approval))
  BY DEF ApprovalFails
<1>3. AnswersWith(c, "failed")
  BY <1>1, StepAnswered DEF ApprovalFails
<1>4. QED
  BY <1>1, <1>2, <1>3, TakenIs DEF ApprovalFails

LEMMA ApprovalExpiresIs ==
  ASSUME GatewayTypes, NEW i \in 1 .. scenario.approvals, ApprovalExpires(i)
  PROVE  /\ UNCHANGED <<scenario, bindings, bound, rate, request, effects, audit>>
         /\ i \in DOMAIN approvals /\ approvals[i].state = "pending" /\ TakenAt(i)
         /\ "expiry" \in scenario.faults
<1>1. i \in Nat
  BY DEF ApprovalExpires, GatewayTypes
<1>2. QED
  BY <1>1, TakenIs DEF ApprovalExpires

LEMMA CredentialFailsIs ==
  ASSUME GatewayTypes, NEW c \in Callers, CredentialFails(c)
  PROVE  /\ UNCHANGED <<scenario, bindings, bound, rate, approvals, effects, audit>> /\ At(c, "executing")
         /\ "secret" \in scenario.faults /\ AnswersWith(c, "failed")
<1>1. "failed" \in Answers
  BY DEF Answers
<1>2. QED
  BY <1>1, StepAnswered DEF CredentialFails

LEMMA ExecuteIs ==
  ASSUME GatewayTypes, NEW c \in Callers, Execute(c)
  PROVE  /\ UNCHANGED <<scenario, bindings, bound, rate, approvals, audit>> /\ At(c, "executing")
         /\ \/ effects' = effects \cup {Effect(c)} /\ RecordsAs(c, "ok", "ok")
            \/ /\ "endpoint" \in scenario.faults /\ RecordsAs(c, "failed", "failed")
               /\ effects' = effects \cup {Effect(c)} \/ effects' = effects
<1>1. UNCHANGED <<scenario, bindings, bound, rate, approvals, audit>> /\ At(c, "executing")
  BY DEF Execute
<1>2. "ok" \in Statuses /\ "failed" \in Statuses /\ "ok" \in Answers /\ "failed" \in Answers
  BY DEF Statuses, Answers
<1>3. PICK happens \in BOOLEAN, ok \in {TRUE} \cup {"endpoint" \notin scenario.faults} :
       /\ ok => happens
       /\ effects' = IF happens THEN effects \cup {Effect(c)} ELSE effects
       /\ Step(c, IF ok THEN Recording(request[c], "ok", "ok") ELSE Recording(request[c], "failed", "failed"))
  BY DEF Execute
<1>4. CASE ok
  <2>1. RecordsAs(c, "ok", "ok")
    BY <1>2, <1>3, <1>4, StepRecording
  <2>2. QED
    BY <1>1, <1>3, <1>4, <2>1
<1>5. CASE ~ok
  <2>1. RecordsAs(c, "failed", "failed")
    BY <1>2, <1>3, <1>5, StepRecording
  <2>2. "endpoint" \in scenario.faults
    BY <1>3, <1>5
  <2>3. QED
    BY <1>1, <1>3, <2>1, <2>2
<1>6. QED
  BY <1>4, <1>5

LEMMA RecordIs ==
  ASSUME GatewayTypes, NEW c \in Callers, Record(c)
  PROVE  /\ UNCHANGED <<scenario, bindings, bound, rate, approvals, effects>> /\ At(c, "recording")
         /\ audit' = audit \cup {RecordOf(c)} /\ AnswersWith(c, request[c].answer)
<1>1. request[c].answer \in Answers
  BY DEF GatewayTypes, Requests
<1>2. QED
  BY <1>1, StepAnswered DEF Record

LEMMA RecordFailsIs ==
  ASSUME GatewayTypes, NEW c \in Callers, RecordFails(c)
  PROVE  /\ UNCHANGED <<scenario, bindings, bound, rate, approvals, effects>> /\ At(c, "recording")
         /\ "mongo" \in scenario.faults
         /\ audit' = audit \cup {RecordOf(c)} \/ audit' = audit
         /\ RecordsAs(c, "failed", "failed") \/ AnswersWith(c, "failed")
<1>1. "failed" \in Answers /\ "failed" \in Statuses
  BY DEF Answers, Statuses
<1>2. CASE request[c].status = "ok"
  BY <1>1, <1>2, StepRecording DEF RecordFails
<1>3. CASE request[c].status # "ok"
  BY <1>1, <1>3, StepAnswered DEF RecordFails
<1>4. QED
  BY <1>2, <1>3

LEMMA BindIs ==
  ASSUME GatewayTypes, Bind
  PROVE  /\ UNCHANGED <<scenario, rate, approvals, request, effects, audit>>
         /\ scenario.binds # <<>> /\ bindings' \in [Tools -> Bindings] /\ bound' \in Nat
<1>1. scenario.binds \in Seq([tool : Tools, binding : Bindings]) /\ bound \in Nat
  BY ScenarioTypes DEF GatewayTypes
<1>2. bound < Len(scenario.binds) /\ bound' = bound + 1
  BY DEF Bind
<1>3. bound + 1 \in 1 .. Len(scenario.binds)
  BY <1>1, <1>2
<1>4. PICK change \in [tool : Tools, binding : Bindings] : change = scenario.binds[bound + 1]
  <2>1. PICK binds \in Seq([tool : Tools, binding : Bindings]), n \in Nat :
          binds = scenario.binds /\ n = bound + 1 /\ n \in 1 .. Len(binds)
    BY <1>1, <1>3
  <2>2. binds[n] \in [tool : Tools, binding : Bindings]
    BY <2>1, ElementOfSeq
  <2>3. QED
    BY <2>1, <2>2
<1>5. bindings' = [bindings EXCEPT ![change.tool] = change.binding]
  BY <1>4 DEF Bind
<1>6. bindings' \in [Tools -> Bindings]
  BY <1>4, <1>5 DEF GatewayTypes
<1>7. scenario.binds # <<>>
  BY <1>1, <1>2
<1>8. QED
  BY <1>1, <1>2, <1>6, <1>7 DEF Bind

LEMMA WindowEndsIs ==
  ASSUME GatewayTypes, NEW t \in Tools, WindowEnds(t)
  PROVE  /\ UNCHANGED <<scenario, bindings, bound, approvals, request, effects, audit>>
         /\ "minute" \in scenario.faults /\ rate' \in [Tools -> Nat]
BY DEF WindowEnds, GatewayTypes

LEMMA CallIs ==
  ASSUME GatewayTypes, AgentTypes, NEW c \in Callers, Call(c)
  PROVE  /\ UNCHANGED <<scenario, bindings, bound, rate, approvals, effects, audit>>
         /\ UNCHANGED <<run, checkpoint, actor, asked>>
         /\ c \notin Actors /\ (At(c, "idle") \/ At(c, "answered")) /\ clicks' \in [Callers -> Nat]
         /\ \E p \in scenario.posts, i \in 0 .. Len(approvals) : \E r :
              /\ Serves(c, r) /\ r.pc = "deciding" /\ r.tool = p.tool /\ r.args = p.args
              /\ p.tool \in Tools /\ p.args \in Args
              /\ r.approval = i /\ r.for = 0 /\ ~r.needs /\ r.answer = "none" /\ r.status = "none"
<1>1. /\ UNCHANGED <<scenario, bindings, bound, rate, approvals, effects, audit>>
      /\ UNCHANGED <<run, checkpoint, actor, asked>>
      /\ c \notin Actors /\ (At(c, "idle") \/ At(c, "answered"))
  BY DEF Call
<1>2. clicks' \in [Callers -> Nat]
  <2>1. clicks[c] \in Nat /\ clicks[c] > 0
    BY DEF Call, AgentTypes
  <2>2. clicks[c] - 1 \in Nat
    BY <2>1
  <2>3. QED
    BY <2>2 DEF Call, AgentTypes
<1>3. PICK p \in scenario.posts, i \in 0 .. Len(approvals) : Step(c, Post(p.tool, p.args, i, 0))
  BY DEF Call
<1>4. p.tool \in Tools /\ p.args \in Args
  BY <1>3, ScenarioTypes DEF Wishes
<1>5. p.tool \in AnyTool /\ p.args \in AnyArgs /\ i \in Nat
  BY <1>3, <1>4 DEF AnyTool, AnyArgs, GatewayTypes
<1>6. PICK r : r = Post(p.tool, p.args, i, 0)
  OBVIOUS
<1>7. /\ r \in Requests /\ r.pc = "deciding" /\ r.tool = p.tool /\ r.args = p.args
      /\ r.approval = i /\ r.for = 0 /\ ~r.needs /\ r.answer = "none" /\ r.status = "none"
  BY <1>5, <1>6, PostIs
<1>8. Serves(c, r)
  BY <1>3, <1>6, <1>7, ServesIs
<1>9. QED
  BY <1>1, <1>2, <1>3, <1>4, <1>7, <1>8

-----------------------------------------------------------------------------
\* Every step

LEMMA StepCases ==
  ASSUME [Next]_vars
  PROVE  \/ \E a \in Actors : Handle(a)
         \/ \E c \in Callers : Call(c)
         \/ GatewayNext /\ UNCHANGED agent
         \/ UNCHANGED vars
BY DEF Next, Rest

\* What a call that is served can become.
ServedAs(c, r) ==
  LET o == request[c] IN
  /\ Serves(c, r) /\ Same(o, r) /\ o.pc \notin {"idle", "answered"} /\ r.pc # "idle"
  /\ r.approval = o.approval \/ (At(c, "opening") /\ r.approval = Len(approvals'))
  /\ r.pc \in {"metering", "opening", "taking", "executing"} =>
       o.pc \in {"deciding", "metering", "taking"} /\ r.approval = o.approval /\ r.answer = o.answer
  /\ r.pc # "deciding" /\ (InProgress(r) => InProgress(o))
  /\ effects' = effects \/ (At(c, "executing") /\ effects' = effects \cup {Effect(c)} /\ ~InProgress(r))

LEMMA ServeIs ==
  ASSUME GatewayTypes, Placed, NEW c \in Callers, Serve(c)
  PROVE  /\ UNCHANGED <<scenario, bindings, bound>> /\ rate' \in [Tools -> Nat]
         /\ approvals' \in Seq(Approvals) /\ Len(approvals') >= Len(approvals)
         /\ \A i \in DOMAIN approvals' :
              \/ /\ i \in DOMAIN approvals
                 /\ approvals'[i].tool = approvals[i].tool /\ approvals'[i].args = approvals[i].args
              \/ At(c, "opening") /\ approvals'[i].tool = request[c].tool /\ approvals'[i].args = request[c].args
         /\ audit' = audit \/ audit' = audit \cup {RecordOf(c)}
         /\ \E r : ServedAs(c, r)
<1> DEFINE o == request[c]
           ApprovalsGrow ==
             /\ approvals' \in Seq(Approvals) /\ Len(approvals') >= Len(approvals)
             /\ \A i \in DOMAIN approvals' :
                  \/ /\ i \in DOMAIN approvals
                     /\ approvals'[i].tool = approvals[i].tool /\ approvals'[i].args = approvals[i].args
                  \/ At(c, "opening") /\ approvals'[i].tool = request[c].tool /\ approvals'[i].args = request[c].args
<1>1. rate \in [Tools -> Nat] /\ approvals \in Seq(Approvals) /\ Len(approvals) \in Nat
  BY DEF GatewayTypes
<1>2. UNCHANGED approvals => ApprovalsGrow
  BY <1>1
<1>3. TakenAt(o.approval) => ApprovalsGrow
  BY <1>1 DEF TakenAt
<1>4. ASSUME NEW answer \in Answers, AnswersWith(c, answer), o.pc \notin {"idle", "answered"}, answer = "held" => o.answer = "held",
             effects' = effects
      PROVE  \E r : ServedAs(c, r)
  BY <1>4 DEF AnswersWith, ServedAs, InProgress
<1>5. ASSUME NEW status \in Statuses, NEW answer \in {"ok", "failed", "refused"}, RecordsAs(c, status, answer),
             o.pc \notin {"idle", "answered"},
             effects' = effects \/ (At(c, "executing") /\ effects' = effects \cup {Effect(c)})
      PROVE  \E r : ServedAs(c, r)
  BY <1>5 DEF RecordsAs, ServedAs, InProgress
<1>6. "failed" \in Answers /\ "refused" \in Answers /\ {"denied", "failed", "ok"} \subseteq Statuses
  BY DEF Answers, Statuses
<1>7. ASSUME Passes(c), At(c, "metering"), effects' = effects
      PROVE  \E r : ServedAs(c, r)
  BY <1>7 DEF Passes, ServedAs, InProgress, At
<1> HIDE DEF ApprovalsGrow
<1>8. CASE Decide(c)
  <2>1. Allows(c) /\ At(c, "deciding") /\ effects' = effects => \E r : ServedAs(c, r)
    BY DEF Allows, ServedAs, InProgress, At
  <2>2. QED
    BY <1>1, <1>2, <1>5, <1>6, <1>8, <2>1, DecideIs DEF At, ApprovalsGrow
<1>9. CASE DecideFails(c)
  BY <1>1, <1>2, <1>4, <1>6, <1>9, DecideFailsIs DEF At, ApprovalsGrow
<1>10. CASE Meter(c)
  BY <1>2, <1>5, <1>6, <1>7, <1>10, MeterIs DEF At, ApprovalsGrow
<1>11. CASE MeterFails(c)
  BY <1>1, <1>2, <1>7, <1>11, MeterFailsIs DEF At, ApprovalsGrow
<1>12. CASE OpenApproval(c)
  <2>1. /\ UNCHANGED <<scenario, bindings, bound, rate, effects, audit>> /\ At(c, "opening")
        /\ Len(approvals) + 1 \in Nat \ {0} /\ approvals' \in Seq(Approvals)
        /\ Len(approvals') = Len(approvals) + 1 /\ DOMAIN approvals = 1 .. Len(approvals)
        /\ DOMAIN approvals' = 1 .. Len(approvals) + 1
        /\ \A i \in DOMAIN approvals : approvals'[i] = approvals[i]
        /\ approvals'[Len(approvals) + 1] = [tool |-> o.tool, args |-> o.args, state |-> "pending"]
    BY <1>12, OpenApprovalIs
  <2>2. PICK r : /\ Serves(c, r) /\ Same(o, r) /\ r.pc = "recording" /\ r.answer = "held"
                 /\ r.approval = Len(approvals) + 1
    BY <1>12, OpenApprovalIs
  <2>3. ServedAs(c, r)
    BY <2>1, <2>2 DEF ServedAs, InProgress, At
  <2>4. ApprovalsGrow
    <3>1. PICK n \in Nat : n = Len(approvals)
      BY <1>1
    <3>2. \A i \in 1 .. n + 1 : i \in 1 .. n \/ i = n + 1
      BY <3>1
    <3>3. QED
      BY <2>1, <3>1, <3>2 DEF ApprovalsGrow
  <2>5. QED
    BY <1>1, <2>1, <2>3, <2>4 DEF ApprovalsGrow
<1>13. CASE TakeApproval(c)
  <2>1. Takes(c) /\ At(c, "taking") /\ effects' = effects => \E r : ServedAs(c, r)
    BY DEF Takes, ServedAs, InProgress, At
  <2>2. QED
    BY <1>1, <1>3, <1>4, <1>6, <1>13, <2>1, TakeApprovalIs DEF At, ApprovalsGrow
<1>14. CASE ApprovalFails(c)
  BY <1>1, <1>2, <1>3, <1>4, <1>6, <1>14, ApprovalFailsIs DEF At, ApprovalsGrow
<1>15. CASE CredentialFails(c)
  BY <1>1, <1>2, <1>4, <1>6, <1>15, CredentialFailsIs DEF At, ApprovalsGrow
<1>16. CASE Execute(c)
  BY <1>1, <1>2, <1>5, <1>6, <1>16, ExecuteIs DEF At, ApprovalsGrow
<1>17. CASE Record(c)
  <2>1. request[c].answer \in Answers
    BY DEF GatewayTypes, Requests
  <2>2. QED
    BY <1>1, <1>2, <1>4, <1>17, <2>1, RecordIs DEF At, ApprovalsGrow
<1>18. CASE RecordFails(c)
  BY <1>1, <1>2, <1>4, <1>5, <1>6, <1>18, RecordFailsIs DEF At, ApprovalsGrow
<1>19. QED
  BY <1>8, <1>9, <1>10, <1>11, <1>12, <1>13, <1>14, <1>15, <1>16, <1>17, <1>18 DEF Serve

\* The records that are made are records.
LEMMA NewRecords ==
  ASSUME GatewayTypes, Numbered, NEW c \in Callers
  PROVE  Effect(c) \in Effects /\ RecordOf(c) \in Records
<1>1. IsFiniteSet(EffectsOf(c)) /\ IsFiniteSet(RecordsOf(c))
  BY FS_Subset DEF Numbered, EffectsOf, RecordsOf
<1>2. PICK n \in Nat : n = Cardinality(EffectsOf(c)) + 1
  BY <1>1, FS_CardinalityType
<1>3. PICK m \in Nat : m = Cardinality(RecordsOf(c)) + 1
  BY <1>1, FS_CardinalityType
<1>4. request[c] \in Requests
  BY DEF GatewayTypes
<1>5. QED
  BY <1>2, <1>3, <1>4 DEF Effect, RecordOf, Effects, Records, Requests

\* A step of the gateway, or of a caller.
LEMMA GatewayTypesKept ==
  ASSUME GatewayTypes, Placed, Numbered, GatewayNext
  PROVE  GatewayTypes'
<1>1. ASSUME NEW c \in Callers, Serve(c) PROVE GatewayTypes'
  <2>1. PICK r : ServedAs(c, r)
    BY <1>1, ServeIs
  <2>2. request' \in [Callers -> Requests]
    BY <2>1 DEF ServedAs, Serves, GatewayTypes
  <2>3. effects' \subseteq Effects /\ audit' \subseteq Records
    BY <1>1, <2>1, ServeIs, NewRecords DEF ServedAs, GatewayTypes
  <2>4. QED
    BY <1>1, <2>2, <2>3, ServeIs DEF GatewayTypes
<1>2. ASSUME NEW i \in 1 .. scenario.approvals, ApprovalExpires(i) PROVE GatewayTypes'
  BY <1>2, ApprovalExpiresIs DEF GatewayTypes, TakenAt
<1>3. ASSUME Bind PROVE GatewayTypes'
  BY <1>3, BindIs DEF GatewayTypes
<1>4. ASSUME NEW t \in Tools, WindowEnds(t) PROVE GatewayTypes'
  BY <1>4, WindowEndsIs DEF GatewayTypes
<1>5. QED
  BY <1>1, <1>2, <1>3, <1>4 DEF GatewayNext

\* A call of the model is put to the gateway.
PostedFor(c, call, approval) ==
  \E r : /\ Serves(c, r) /\ r.pc = "deciding" /\ r.tool = call.tool /\ r.args = call.args
         /\ r.approval = approval /\ r.for = call.key /\ ~r.needs /\ r.answer = "none" /\ r.status = "none"

LEMMA PostedIs ==
  ASSUME GatewayTypes, NEW c \in Callers, NEW call \in CallRecords, NEW approval \in Nat,
         Step(c, Post(call.tool, call.args, approval, call.key))
  PROVE  PostedFor(c, call, approval) /\ request' \in [Callers -> Requests]
<1>1. call.tool \in AnyTool /\ call.args \in AnyArgs /\ call.key \in Nat
  BY DEF CallRecords, AnyTool, AnyArgs
<1>2. PICK r : r = Post(call.tool, call.args, approval, call.key)
  OBVIOUS
<1>3. /\ r \in Requests /\ r.pc = "deciding" /\ r.tool = call.tool /\ r.args = call.args
      /\ r.approval = approval /\ r.for = call.key /\ ~r.needs /\ r.answer = "none" /\ r.status = "none"
  BY <1>1, <1>2, PostIs
<1>4. Step(c, r)
  BY <1>2
<1>5. Serves(c, r) /\ request' \in [Callers -> Requests]
  BY <1>3, <1>4, ServesIs
<1>6. QED
  BY <1>3, <1>5 DEF PostedFor

QuietAgain(c) == \E r : Serves(c, r) /\ r = Quiet

LEMMA QuietIs ==
  ASSUME GatewayTypes, NEW c \in Callers, Step(c, Quiet)
  PROVE  QuietAgain(c) /\ request' \in [Callers -> Requests]
BY Blank, ServesIs DEF QuietAgain

\* The calls of the model are numbered on.
AskedMore(calls) ==
  /\ asked' \in Seq([held : BOOLEAN, signed : SUBSET Nat])
  /\ Len(asked') = Len(asked) + Len(calls)
  /\ \A k \in DOMAIN asked : k \in DOMAIN asked' /\ asked'[k] = asked[k]
  /\ \A i \in DOMAIN calls :
       /\ Len(asked) + i \in DOMAIN asked' /\ Len(asked) + i \notin DOMAIN asked
       /\ asked'[Len(asked) + i].held = calls[i].held /\ asked'[Len(asked) + i].signed = {}
  /\ \A k \in DOMAIN asked' : k \in DOMAIN asked \/ \E i \in DOMAIN calls : k = Len(asked) + i

LEMMA AsksMore ==
  ASSUME AgentTypes, NEW a \in Actors, NEW calls, Asks(a, calls)
  PROVE  AskedMore(calls)
<1> DEFINE S == [held : BOOLEAN, signed : SUBSET Nat]
<1>1. asked \in Seq(S)
  BY DEF AgentTypes
<1>2. calls \in Seq(CallRecords)
  BY DEF Asks
<1>3. PICK n \in Nat, m \in Nat : n = Len(asked) /\ m = Len(calls) /\ DOMAIN asked = 1 .. n /\ DOMAIN calls = 1 .. m
  BY <1>1, <1>2
<1>4. PICK new : new = [i \in 1 .. m |-> [held |-> calls[i].held, signed |-> {}]]
  OBVIOUS
<1>5. ASSUME NEW i \in 1 .. m PROVE new[i] \in S /\ new[i].held = calls[i].held /\ new[i].signed = {}
  <2>1. calls[i] \in CallRecords
    BY <1>2, <1>3, ElementOfSeq
  <2>2. calls[i].held \in BOOLEAN
    BY <2>1 DEF CallRecords
  <2>3. QED
    BY <1>4, <2>2
<1> HIDE DEF S
<1>6. new \in Seq(S) /\ Len(new) = m
  BY <1>4, <1>5
<1>7. asked' = asked \o new
  BY <1>3, <1>4 DEF Asks
<1>8. /\ asked' \in Seq(S) /\ Len(asked') = n + m
      /\ \A k \in 1 .. n : asked'[k] = asked[k]
      /\ \A i \in 1 .. m : asked'[n + i] = new[i]
  <2>1. Len(asked \o new) = n + m /\ asked \o new \in Seq(S)
    BY <1>1, <1>3, <1>6, ConcatProperties
  <2>2. \A k \in 1 .. n + m : (asked \o new)[k] = IF k <= n THEN asked[k] ELSE new[k - n]
    BY <1>1, <1>3, <1>6, ConcatProperties
  <2>3. \A i \in 1 .. m : n + i \in 1 .. n + m /\ ~(n + i <= n) /\ n + i - n = i
    BY <1>3
  <2>4. \A k \in 1 .. n : k \in 1 .. n + m /\ k <= n
    BY <1>3
  <2>5. ASSUME NEW i \in 1 .. m PROVE (asked \o new)[n + i] = new[i]
    <3>1. PICK k \in 1 .. n + m : k = n + i /\ ~(k <= n) /\ k - n = i
      BY <2>3
    <3>2. QED
      BY <2>2, <3>1
  <2>6. QED
    BY <1>7, <2>1, <2>2, <2>4, <2>5
<1>9. DOMAIN asked' = 1 .. n + m
  BY <1>3, <1>8
<1>10. \A k \in 1 .. n + m : k \in 1 .. n \/ \E i \in 1 .. m : k = n + i
  <2>1. ASSUME NEW k \in 1 .. n + m, k \notin 1 .. n PROVE k - n \in 1 .. m /\ k = n + (k - n)
    BY <1>3, <2>1
  <2>2. QED
    BY <2>1
<1>11. \A i \in 1 .. m : n + i \in 1 .. n + m /\ n + i \notin 1 .. n
  BY <1>3
<1>12. \A k \in 1 .. n : k \in 1 .. n + m
  BY <1>3
<1>13. QED
  BY <1>3, <1>5, <1>8, <1>9, <1>10, <1>11, <1>12 DEF AskedMore, S

\* Who approves has been shown what they were shown.
SignedBy(key, who) ==
  /\ asked' \in Seq([held : BOOLEAN, signed : SUBSET Nat])
  /\ Len(asked') = Len(asked) /\ DOMAIN asked' = DOMAIN asked
  /\ \A k \in DOMAIN asked :
       /\ asked'[k].held = asked[k].held
       /\ k # key => asked'[k].signed = asked[k].signed
       /\ k = key => asked'[k].signed = asked[k].signed \cup {who}

LEMMA CarriesSigns ==
  ASSUME AgentTypes, NEW key, NEW who \in Nat, asked' = [asked EXCEPT ![key].signed = @ \cup {who}]
  PROVE  SignedBy(key, who)
<1> DEFINE S == [held : BOOLEAN, signed : SUBSET Nat]
<1>1. PICK n \in Nat : n = Len(asked) /\ asked \in [1 .. n -> S] /\ DOMAIN asked = 1 .. n
  <2>1. asked \in Seq(S)
    BY DEF AgentTypes
  <2>2. QED
    BY <2>1, LenProperties
<1>2. ASSUME NEW k \in 1 .. n
      PROVE  /\ asked'[k] \in S /\ asked'[k].held = asked[k].held
             /\ k # key => asked'[k].signed = asked[k].signed
             /\ k = key => asked'[k].signed = asked[k].signed \cup {who}
  <2>1. asked[k] \in S
    BY <1>1
  <2>2. CASE k # key
    BY <1>1, <2>1, <2>2
  <2>3. CASE k = key
    <3>1. asked'[k] = [asked[k] EXCEPT !.signed = @ \cup {who}]
      BY <1>1, <2>3
    <3>2. QED
      BY <2>1, <2>3, <3>1
  <2>4. QED
    BY <2>2, <2>3
<1>3. DOMAIN asked' = 1 .. n /\ asked' = [k \in 1 .. n |-> asked'[k]]
  BY <1>1
<1> HIDE DEF S
<1>4. asked' \in Seq(S) /\ Len(asked') = n
  <2>1. asked' \in [1 .. n -> S]
    BY <1>2, <1>3
  <2>2. QED
    BY <1>1, <2>1
<1>5. QED
  BY <1>1, <1>2, <1>3, <1>4 DEF SignedBy, S

-----------------------------------------------------------------------------
\* What a request of the agent runtime changes

\* The model asked for more, or someone approved; nothing that was asked is forgotten.
Grown ==
  /\ asked' \in Seq([held : BOOLEAN, signed : SUBSET Nat]) /\ Len(asked') >= Len(asked)
  /\ \A k \in DOMAIN asked : k \in DOMAIN asked' /\ asked'[k].held = asked[k].held

LEMMA GrownIs ==
  ASSUME AgentTypes
  PROVE  /\ UNCHANGED asked => Grown
         /\ \A calls : AskedMore(calls) /\ calls \in Seq(CallRecords) => Grown
         /\ \A key, who : SignedBy(key, who) => Grown
<1>1. asked \in Seq([held : BOOLEAN, signed : SUBSET Nat]) /\ Len(asked) \in Nat
  BY DEF AgentTypes
<1>2. UNCHANGED asked => Grown
  BY <1>1 DEF Grown
<1>3. ASSUME NEW calls, AskedMore(calls), calls \in Seq(CallRecords) PROVE Grown
  <2>1. Len(calls) \in Nat
    BY <1>3
  <2>2. QED
    BY <1>1, <1>3, <2>1 DEF Grown, AskedMore
<1>4. ASSUME NEW key, NEW who, SignedBy(key, who) PROVE Grown
  BY <1>1, <1>4 DEF Grown, SignedBy
<1>5. QED
  BY <1>2, <1>3, <1>4

\* What is asked of the gateway for a request of the agent runtime, or nothing any more.
Posted(q) ==
  \/ q = Quiet
  \/ /\ q.pc = "deciding" /\ q.tool \in Tools /\ q.args \in Args
     /\ q.approval \in 0 .. Len(approvals) /\ q.for \in DOMAIN asked
     /\ ~q.needs /\ q.answer = "none" /\ q.status = "none"

Requested(a) ==
  \/ UNCHANGED request
  \/ /\ At(a, "idle") \/ At(a, "answered")
     /\ request' \in [Callers -> Requests]
     /\ \E q : Serves(a, q) /\ Posted(q)

\* Who saves the checkpoint.
Saving == {"created", "held", "late", "drained", "settling"}

Saved(a) == checkpoint' = checkpoint \/ (actor[a].pc \in Saving /\ checkpoint' = actor[a].state)

Handled(a) ==
  /\ UNCHANGED <<scenario, bindings, bound, rate, approvals, effects, audit>>
  /\ clicks' \in [Callers -> Nat] /\ run' \in RunStatuses
  /\ Grown /\ Requested(a) /\ Saved(a)
  /\ \E r : Becomes(a, r)

LEMMA RequestedIs ==
  ASSUME GatewayTypes, AgentTypes, NEW a \in Actors, At(a, "idle") \/ At(a, "answered")
  PROVE  /\ QuietAgain(a) => Requested(a)
         /\ \A call, approval :
              /\ PostedFor(a, call, approval) /\ call.tool \in Tools /\ call.args \in Args
              /\ call.key \in DOMAIN asked /\ approval \in 0 .. Len(approvals)
              => Requested(a)
<1>1. ASSUME NEW q, Serves(a, q) PROVE request' \in [Callers -> Requests]
  BY <1>1 DEF Serves, GatewayTypes
<1>2. QuietAgain(a) => Requested(a)
  BY <1>1 DEF QuietAgain, Requested, Posted
<1>3. ASSUME NEW call, NEW approval, PostedFor(a, call, approval), call.tool \in Tools, call.args \in Args,
             call.key \in DOMAIN asked, approval \in 0 .. Len(approvals)
      PROVE  Requested(a)
  <2>1. PICK q : /\ Serves(a, q) /\ q.pc = "deciding" /\ q.tool = call.tool /\ q.args = call.args
                 /\ q.approval = approval /\ q.for = call.key /\ ~q.needs /\ q.answer = "none" /\ q.status = "none"
    BY <1>3 DEF PostedFor
  <2>2. Posted(q)
    BY <1>3, <2>1 DEF Posted
  <2>3. QED
    BY <1>1, <2>1, <2>2 DEF Requested
<1>4. QED
  BY <1>2, <1>3

\* What the line of a request says of each of its calls.
LEMMA LineIs ==
  ASSUME AgentTypes, Lined, NEW a \in Actors
  PROVE  LET o == actor[a] IN
         /\ o \in ActorRecords /\ ActorInLine(o)
         /\ \A i \in DOMAIN Ahead(o) : Known(Ahead(o)[i])
         /\ o.pc \in Holding => Known(o.state.pending) /\ o.state.pending.held /\ o.state.pending # NoCall
<1>1. actor[a] \in ActorRecords /\ ActorInLine(actor[a])
  BY DEF AgentTypes, Lined
<1>2. QED
  BY <1>1 DEF ActorInLine, InLine, Pends

LEMMA HandleIs ==
  ASSUME GatewayTypes, AgentTypes, Lined, Placed, Alone, NEW a \in Actors, Handle(a)
  PROVE  Handled(a)
<1> DEFINE o == actor[a]
<1>1. /\ o \in ActorRecords /\ ActorInLine(o) /\ o.state \in States /\ o.status \in RunStatuses \cup {"none"}
      /\ o.todo \in Seq(CallRecords) /\ o.call \in CallRecords /\ o.shown.key \in Nat
      /\ o.state.pending \in CallRecords
  <2>1. o \in ActorRecords /\ ActorInLine(o)
    BY LineIs
  <2>2. QED
    BY <2>1, ActorIs DEF States, CallRecords
<1>2. UNCHANGED clicks => clicks' \in [Callers -> Nat]
  BY DEF AgentTypes
<1>3. run \in RunStatuses /\ "running" \in RunStatuses /\ "waiting" \in RunStatuses /\ Terminal \subseteq RunStatuses
  BY DEF AgentTypes, RunStatuses, Terminal
<1>4. UNCHANGED asked => Grown
  BY GrownIs
<1>5. UNCHANGED request => Requested(a)
  BY DEF Requested
<1>6. a \in Callers
  BY ActorsCall
<1>7. o.pc \notin {"invoking", "gone"} => At(a, "idle")
  BY DEF Placed, PlacedActor
<1>8. PlacedRequest(request[a])
  BY <1>6 DEF Placed
<1>9. CASE Start(a)
  BY <1>2, <1>3, <1>4, <1>5, <1>9, StartIs DEF Handled, Saved, gateway
<1>10. CASE Open(a)
  BY <1>2, <1>3, <1>4, <1>5, <1>10, OpenIs DEF Handled, Saved, Saving, On, gateway
<1>11. CASE Ask(a)
  <2>1. CASE Settles(a)
    BY <1>2, <1>3, <1>4, <1>5, <2>1 DEF Settles, Handled, Saved, gateway
  <2>2. ASSUME NEW calls, Asks(a, calls) PROVE Handled(a)
    <3>1. AskedMore(calls) /\ calls \in Seq(CallRecords)
      BY <2>2, AsksMore DEF Asks
    <3>2. Grown
      BY <3>1, GrownIs
    <3>3. /\ UNCHANGED <<scenario, gateway, run, checkpoint, clicks>>
          /\ \E r : Becomes(a, r)
      BY <2>2 DEF Asks
    <3>4. QED
      BY <1>2, <1>3, <1>5, <3>2, <3>3 DEF Handled, Saved, gateway
  <2>3. QED
    BY <1>11, <2>1, <2>2, AskIs
<1>12. CASE Drain(a)
  <2>1. /\ UNCHANGED <<scenario, bindings, bound, rate, approvals, effects, audit>>
        /\ UNCHANGED <<run, checkpoint, clicks, asked>> /\ On(a, "draining")
    BY <1>12, DrainIs
  <2>2. CASE o.todo = <<>> /\ UNCHANGED request /\ \E r : Becomes(a, r)
    BY <1>2, <1>3, <1>4, <1>5, <2>1, <2>2 DEF Handled, Saved
  <2>3. CASE o.todo # <<>> /\ Holds(a)
    BY <1>2, <1>3, <1>4, <1>5, <2>1, <2>3 DEF Handled, Saved, Holds
  <2>4. CASE o.todo # <<>> /\ Answers1(a)
    BY <1>2, <1>3, <1>4, <1>5, <2>1, <2>4 DEF Handled, Saved, Answers1
  <2>5. CASE o.todo # <<>> /\ Head(o.todo) \in CallRecords /\ Makes(a)
    <3>1. PICK call \in CallRecords : call = Head(o.todo)
      BY <2>5
    <3>2. Known(call)
      <4>1. Ahead(o) = o.todo
        BY <2>1 DEF Ahead, On
      <4>2. 1 \in DOMAIN o.todo /\ Head(o.todo) = o.todo[1]
        BY <1>1, <2>5
      <4>3. QED
        BY <3>1, <4>1, <4>2, LineIs
    <3>3. call.tool \in Tools /\ Step(a, Post(call.tool, call.args, 0, call.key)) /\ \E r : Becomes(a, r)
      BY <2>5, <3>1 DEF Makes
    <3>4. PostedFor(a, call, 0)
      BY <1>6, <3>3, PostedIs
    <3>5. At(a, "idle")
      BY <1>7, <2>1 DEF On
    <3>6. call.args \in Args /\ call.key \in DOMAIN asked /\ 0 \in 0 .. Len(approvals)
      BY <3>2 DEF Known, GatewayTypes
    <3>7. Requested(a)
      BY <3>3, <3>4, <3>5, <3>6, RequestedIs
    <3>8. QED
      BY <1>2, <1>3, <1>4, <2>1, <3>3, <3>7 DEF Handled, Saved
  <2>6. QED
    BY <1>12, <2>2, <2>3, <2>4, <2>5, DrainIs
<1>13. CASE Invoked(a)
  <2>1. /\ UNCHANGED <<scenario, bindings, bound, rate, approvals, effects, audit>>
        /\ UNCHANGED <<run, checkpoint, clicks, asked>> /\ On(a, "invoking") /\ At(a, "answered")
    BY <1>13, InvokedIs
  <2>2. CASE Again(a)
    <3>1. PICK call \in CallRecords : call = o.call
      BY <1>1
    <3>2. PICK approval \in 0 .. Len(approvals) : approval = request[a].approval
      BY <1>8 DEF PlacedRequest
    <3>3. Step(a, Post(call.tool, call.args, approval, call.key)) /\ \E r : Becomes(a, r)
      BY <2>2, <3>1, <3>2 DEF Again
    <3>4. approval \in Nat
      BY <3>2 DEF GatewayTypes
    <3>5. PostedFor(a, call, approval)
      BY <1>6, <3>3, <3>4, PostedIs
    <3>6. Known(call) /\ call.tool \in Tools
      BY <1>1, <2>1, <3>1 DEF ActorInLine, On
    <3>7. Requested(a)
      BY <2>1, <3>5, <3>6, RequestedIs DEF Known
    <3>8. QED
      BY <1>2, <1>3, <1>4, <2>1, <3>3, <3>7 DEF Handled, Saved
  <2>3. CASE Reads(a)
    <3>1. QuietAgain(a) /\ \E r : Becomes(a, r)
      BY <1>6, <2>3, QuietIs DEF Reads
    <3>2. Requested(a)
      BY <2>1, <3>1, RequestedIs
    <3>3. QED
      BY <1>2, <1>3, <1>4, <2>1, <3>1, <3>2 DEF Handled, Saved
  <2>4. QED
    BY <1>13, <2>2, <2>3, InvokedIs
<1>14. CASE Hold(a)
  <2>1. /\ UNCHANGED <<scenario, gateway, checkpoint, clicks, asked>>
        /\ On(a, "holding") /\ run' = o.status /\ \E r : Becomes(a, r)
    BY <1>14, HoldIs
  <2>2. run' \in RunStatuses
    BY <1>3, <2>1 DEF Alone
  <2>3. QED
    BY <1>2, <1>4, <1>5, <2>1, <2>2 DEF Handled, Saved, gateway
<1>15. CASE Held(a)
  BY <1>2, <1>3, <1>4, <1>5, <1>15, HeldIs DEF Handled, Saved, Saving, On, Ends, gateway
<1>16. CASE SaveLate(a)
  BY <1>2, <1>3, <1>4, <1>5, <1>16, SaveLateIs DEF Handled, Saved, Saving, On, Ends, gateway
<1>17. CASE Drained(a)
  BY <1>2, <1>3, <1>4, <1>5, <1>17, DrainedIs DEF Handled, Saved, Saving, On, gateway
<1>18. CASE Settle(a)
  BY <1>2, <1>3, <1>4, <1>5, <1>18, SettleIs DEF Handled, Saved, Saving, On, gateway
<1>19. CASE Finish(a)
  <2>1. /\ UNCHANGED <<scenario, gateway, checkpoint, clicks, asked>>
        /\ On(a, "settled") /\ run' = o.status /\ \E r : Becomes(a, r)
    BY <1>19, FinishIs DEF Ends
  <2>2. run' \in RunStatuses
    BY <1>3, <2>1 DEF Alone
  <2>3. QED
    BY <1>2, <1>4, <1>5, <2>1, <2>2 DEF Handled, Saved, gateway
<1>20. CASE See(a)
  BY <1>2, <1>3, <1>4, <1>5, <1>20, SeeIs DEF Handled, Saved, gateway
<1>21. CASE Approve(a)
  BY <1>3, <1>4, <1>5, <1>21, ApproveIs DEF Handled, Saved, gateway
<1>22. CASE Load(a)
  BY <1>2, <1>3, <1>4, <1>5, <1>22, LoadIs DEF Handled, Saved, Ends, gateway
<1>23. CASE Resume(a)
  <2>1. /\ UNCHANGED <<scenario, bindings, bound, rate, approvals, effects, audit>>
        /\ UNCHANGED <<checkpoint, clicks>> /\ run' = "running" /\ On(a, "loading")
    BY <1>23, ResumeIs
  <2>2. CASE Carries(a)
    <3>1. PICK call \in CallRecords : call = o.state.pending
      BY <1>1
    <3>2. PICK who \in Nat : who = o.shown.key
      BY <1>1
    <3>3. /\ Step(a, Post(call.tool, call.args, 0, call.key)) /\ \E r : Becomes(a, r)
          /\ asked' = [asked EXCEPT ![call.key].signed = @ \cup {who}]
      BY <2>2, <3>1, <3>2 DEF Carries
    <3>4. Grown
      BY <3>3, CarriesSigns, GrownIs
    <3>5. Known(call) /\ call.held
      BY <2>1, <3>1, LineIs DEF On, Holding
    <3>6. PostedFor(a, call, 0)
      BY <1>6, <3>3, PostedIs
    <3>7. call.tool \in Tools /\ call.args \in Args /\ call.key \in DOMAIN asked /\ 0 \in 0 .. Len(approvals)
      BY <3>5 DEF Known, GatewayTypes
    <3>8. At(a, "idle")
      BY <1>7, <2>1 DEF On
    <3>9. Requested(a)
      BY <3>6, <3>7, <3>8, RequestedIs
    <3>10. QED
      BY <1>2, <1>3, <2>1, <3>3, <3>4, <3>9 DEF Handled, Saved
  <2>3. CASE Denies(a)
    BY <1>2, <1>3, <1>4, <1>5, <2>1, <2>3 DEF Handled, Saved, Denies
  <2>4. QED
    BY <1>23, <2>2, <2>3, ResumeIs
<1>24. CASE Crash(a)
  BY <1>2, <1>3, <1>4, <1>5, <1>24, CrashIs DEF Handled, Saved, gateway
<1>25. QED
  BY <1>9, <1>10, <1>11, <1>12, <1>13, <1>14, <1>15, <1>16, <1>17, <1>18, <1>19, <1>20, <1>21, <1>22,
     <1>23, <1>24 DEF Handle

LEMMA TypesKept ==
  ASSUME GatewayTypes, AgentTypes, Lined, Placed, Audited, Alone, [Next]_vars
  PROVE  GatewayTypes' /\ AgentTypes' /\ Grown
<1>1. ASSUME NEW a \in Actors, Handle(a) PROVE GatewayTypes' /\ AgentTypes' /\ Grown
  <2>1. Handled(a)
    BY <1>1, HandleIs
  <2>2. GatewayTypes'
    BY <2>1 DEF Handled, Requested, GatewayTypes
  <2>3. PICK r : Becomes(a, r)
    BY <2>1 DEF Handled
  <2>4. actor' \in [Actors -> ActorRecords]
    BY <2>3 DEF Becomes, AgentTypes
  <2>5. actor[a].state \in States /\ checkpoint \in States
    BY ActorIs DEF AgentTypes
  <2>6. AgentTypes' /\ Grown
    BY <2>1, <2>4, <2>5 DEF Handled, Grown, Saved, AgentTypes
  <2>7. QED
    BY <2>2, <2>6
<1>2. ASSUME NEW c \in Callers, Call(c) PROVE GatewayTypes' /\ AgentTypes' /\ Grown
  <2>1. request' \in [Callers -> Requests]
    BY <1>2, CallIs DEF Serves, GatewayTypes
  <2>2. QED
    BY <1>2, <2>1, CallIs, GrownIs DEF GatewayTypes, AgentTypes
<1>3. CASE GatewayNext /\ UNCHANGED agent
  BY <1>3, GatewayTypesKept, GrownIs DEF Audited, AgentTypes, agent
<1>4. CASE UNCHANGED vars
  BY <1>4, GrownIs DEF vars, gateway, agent, GatewayTypes, AgentTypes
<1>5. QED
  BY <1>1, <1>2, <1>3, <1>4, StepCases

-----------------------------------------------------------------------------
\* The line of calls

\* What a policy or a turn adds does not disturb a line.
Unbound == scenario' = scenario /\ (scenario.calm => bindings' = bindings)

LEMMA KnownKept ==
  ASSUME Grown, Unbound, NEW call, Known(call)
  PROVE  Known(call)'
BY DEF Grown, Unbound, Known, AllowedInProject, RequiresApproval

LEMMA WholeKept ==
  ASSUME Grown, NEW s, NEW first, Whole(s, first)
  PROVE  Whole(s, first)'
BY DEF Grown, Whole

LEMMA InLineKept ==
  ASSUME Grown, Unbound, NEW s, NEW first, NEW ahead, InLine(s, first, ahead)
  PROVE  InLine(s, first, ahead)'
<1>1. ASSUME NEW i \in DOMAIN ahead PROVE Known(ahead[i])'
  <2>1. PICK call : call = ahead[i]
    OBVIOUS
  <2>2. Known(call)'
    BY <2>1, KnownKept DEF InLine
  <2>3. QED
    BY <2>1, <2>2
<1>2. QED
  BY <1>1 DEF InLine

LEMMA PendsKept ==
  ASSUME Grown, Unbound, NEW s, Pends(s)
  PROVE  Pends(s)'
<1>1. PICK call : call = s.pending
  OBVIOUS
<1>2. call # NoCall => Known(call)'
  BY <1>1, KnownKept DEF Pends
<1>3. QED
  BY <1>1, <1>2 DEF Pends

LEMMA ActorInLineKept ==
  ASSUME Grown, Unbound, NEW r, ActorInLine(r)
  PROVE  ActorInLine(r)'
<1>1. PICK s, first, ahead, call, shown : s = r.state /\ first = First(r) /\ ahead = Ahead(r) /\ call = r.call /\ shown = r.shown
  OBVIOUS
<1>2. Whole(s, first)' /\ Pends(s)' /\ InLine(s, first, ahead)'
  BY <1>1, WholeKept, PendsKept, InLineKept DEF ActorInLine
<1>3. (r.pc = "invoking" => Known(call)') /\ (shown = NoCall \/ Known(shown)')
  BY <1>1, KnownKept DEF ActorInLine
<1>4. first = First(r)' /\ ahead = Ahead(r)'
  BY <1>1 DEF First, Ahead
<1>5. QED
  BY <1>1, <1>2, <1>3, <1>4 DEF ActorInLine

LEMMA StoredInLineKept ==
  ASSUME Grown, Unbound, NEW s, StoredInLine(s)
  PROVE  StoredInLine(s)'
<1>1. PICK first, ahead : first = Waiting(s) /\ ahead = s.queued
  OBVIOUS
<1>2. first = Waiting(s)'
  BY <1>1 DEF Waiting
<1>3. Whole(s, first)' /\ Pends(s)' /\ InLine(s, first, ahead)'
  BY <1>1, WholeKept, PendsKept, InLineKept DEF StoredInLine
<1>4. QED
  BY <1>1, <1>2, <1>3 DEF StoredInLine

\* Nothing was made of a run that did not begin.
LEMMA FreshInLine ==
  /\ Whole(Fresh, {}) /\ Pends(Fresh) /\ InLine(Fresh, {}, <<>>) /\ StoredInLine(Fresh)
  /\ (Whole(Fresh, {}) /\ Pends(Fresh) /\ InLine(Fresh, {}, <<>>) /\ StoredInLine(Fresh))'
BY Blank, ActorsCall DEF Fresh, NoCall, Whole, Pends, InLine, StoredInLine, Waiting

\* What a request saves is in line when it is stored.
LEMMA SavedInLine ==
  ASSUME NEW r \in ActorRecords, ActorInLine(r), r.pc \in Saving
  PROVE  StoredInLine(r.state)
BY FreshInLine DEF ActorInLine, StoredInLine, Waiting, Saving, First, Ahead, Holding, Between, Pends

\* The first of the line is taken from it.
LEMMA LineTakes ==
  ASSUME NEW s \in States, NEW ahead \in Seq(CallRecords), ahead # <<>>,
         Whole(s, {}), InLine(s, {}, ahead)
  PROVE  LET call == Head(ahead) IN
         /\ Known(call) /\ call.key \in s.calls
         /\ Whole(s, {call.key}) /\ InLine(s, {call.key}, Tail(ahead))
<1>1. PICK n \in Nat \ {0} : n = Len(ahead) /\ DOMAIN ahead = 1 .. n
  BY EmptySeq
<1>2. PICK rest \in Seq(CallRecords) :
        rest = Tail(ahead) /\ Len(rest) = n - 1 /\ \A i \in 1 .. Len(rest) : rest[i] = ahead[i + 1]
  BY <1>1, HeadTailProperties
<1>3. DOMAIN rest = 1 .. n - 1 /\ \A i \in 1 .. n - 1 : rest[i] = ahead[i + 1]
  BY <1>1, <1>2
<1>4. \A i \in 1 .. n - 1 : i + 1 \in 1 .. n /\ i + 1 # 1
  BY <1>1
<1>5. \A i \in 1 .. n : i = 1 \/ (i - 1 \in 1 .. n - 1 /\ (i - 1) + 1 = i)
  BY <1>1
<1>6. PICK call : call = Head(ahead) /\ call = ahead[1] /\ 1 \in 1 .. n
  BY <1>1
<1>7. Known(call) /\ call.key \in s.calls /\ \A j \in DOMAIN s.results : s.results[j].key # call.key
  BY <1>1, <1>6 DEF InLine
<1>8. Whole(s, {call.key})
  BY <1>7 DEF Whole
<1>9. InLine(s, {call.key}, rest)
  <2>1. ASSUME NEW i \in 1 .. n - 1
        PROVE  /\ Known(rest[i]) /\ rest[i].key \in s.calls \ {call.key}
               /\ \A j \in DOMAIN s.results : s.results[j].key # rest[i].key
    BY <1>1, <1>3, <1>4, <1>6 DEF InLine
  <2>2. ASSUME NEW i \in 1 .. n - 1, NEW j \in 1 .. n - 1, rest[i].key = rest[j].key PROVE i = j
    <3>1. i + 1 = j + 1
      BY <1>1, <1>3, <1>4, <2>2 DEF InLine
    <3>2. QED
      BY <1>1, <3>1
  <2>3. ASSUME NEW k \in s.calls
        PROVE  \/ k \in {call.key}
               \/ \E i \in 1 .. n - 1 : rest[i].key = k
               \/ \E j \in DOMAIN s.results : s.results[j].key = k
    <3>1. CASE \E i \in 1 .. n : ahead[i].key = k
      <4>1. PICK i \in 1 .. n : ahead[i].key = k
        BY <3>1
      <4>2. i = 1 \/ rest[i - 1] = ahead[i]
        BY <1>3, <1>5
      <4>3. QED
        BY <1>5, <1>6, <4>1, <4>2
    <3>2. QED
      BY <1>1, <3>1 DEF InLine
  <2>4. QED
    BY <1>3, <2>1, <2>2, <2>3 DEF InLine
<1>10. QED
  BY <1>2, <1>6, <1>7, <1>8, <1>9

\* The call that is being made, or that waits, has its result.
LEMMA LineAnswers ==
  ASSUME NEW s \in States, NEW t, NEW call, NEW answer, NEW ahead,
         Gains(s, t, call, answer), call.key \in s.calls,
         Whole(s, {call.key}), InLine(s, {call.key}, ahead)
  PROVE  Whole(t, {}) /\ InLine(t, {}, ahead)
<1>1. PICK n \in Nat : n = Len(s.results) /\ DOMAIN s.results = 1 .. n
  BY DEF States
<1>2. /\ t.results = Append(s.results, [key |-> call.key, answer |-> answer])
      /\ t.made = s.made + 1 /\ t.turns = s.turns /\ t.calls = s.calls
  BY DEF Gains
<1>3. s.results \in Seq(Results)
  BY DEF States
<1>4. /\ DOMAIN t.results = 1 .. n + 1 /\ Len(t.results) = n + 1
      /\ \A j \in 1 .. n : t.results[j] = s.results[j]
      /\ t.results[n + 1].key = call.key
  BY <1>1, <1>2, <1>3
<1>5. \A j \in 1 .. n + 1 : j \in 1 .. n \/ j = n + 1
  BY <1>1
<1>6. \A j \in 1 .. n : j \in 1 .. n + 1
  BY <1>1
<1>7. n + 1 \in 1 .. n + 1
  BY <1>1
<1>8. \A j \in 1 .. n + 1 : t.results[j].key = call.key \/ (j \in 1 .. n /\ t.results[j] = s.results[j])
  BY <1>4, <1>5
<1>9. Whole(t, {})
  <2>1. \A j \in 1 .. n + 1 : t.results[j].key \in t.calls
    BY <1>1, <1>2, <1>8 DEF Whole
  <2>2. ASSUME NEW i \in 1 .. n + 1, NEW j \in 1 .. n + 1, t.results[i].key = t.results[j].key PROVE i = j
    <3>1. \A k \in 1 .. n : s.results[k].key # call.key
      BY <1>1 DEF Whole
    <3>2. CASE i \in 1 .. n /\ j \in 1 .. n
      BY <1>1, <1>4, <2>2, <3>2 DEF Whole
    <3>3. CASE i = n + 1 \/ j = n + 1
      BY <1>4, <1>5, <2>2, <3>1, <3>3
    <3>4. QED
      BY <1>5, <3>2, <3>3
  <2>3. {} \subseteq t.calls /\ t.calls \subseteq DOMAIN asked
    BY <1>2 DEF Whole
  <2>4. t.made = Len(t.results) /\ t.turns <= MaxTurns
    BY <1>1, <1>2, <1>4 DEF Whole
  <2>5. QED
    BY <1>4, <2>1, <2>2, <2>3, <2>4 DEF Whole
<1>10. InLine(t, {}, ahead)
  <2>1. ASSUME NEW i \in DOMAIN ahead
        PROVE  /\ Known(ahead[i]) /\ ahead[i].key \in t.calls
               /\ \A j \in 1 .. n + 1 : t.results[j].key # ahead[i].key
    BY <1>1, <1>2, <1>8 DEF InLine
  <2>2. ASSUME NEW k \in t.calls
        PROVE  \/ \E i \in DOMAIN ahead : ahead[i].key = k
               \/ \E j \in 1 .. n + 1 : t.results[j].key = k
    BY <1>1, <1>2, <1>4, <1>6, <1>7 DEF InLine
  <2>3. QED
    BY <1>4, <2>1, <2>2 DEF InLine
<1>11. QED
  BY <1>9, <1>10

\* The model asks for more: its calls are the line.
LEMMA LineAsks ==
  ASSUME GatewayTypes, AgentTypes, NEW a \in Actors, NEW calls, Asks(a, calls), NEW s \in States, NEW t \in States,
         t.calls = s.calls \cup {calls[i].key : i \in DOMAIN calls}, t.results = s.results,
         t.made = s.made, t.turns <= MaxTurns, t.pending = NoCall, t.queued = <<>>,
         Whole(s, {}), InLine(s, {}, <<>>)
  PROVE  Whole(t, {})' /\ Pends(t)' /\ InLine(t, {}, calls)'
<1>1. AskedMore(calls) /\ calls \in Seq(CallRecords)
  BY AsksMore DEF Asks
<1>2. PICK n \in Nat, m \in Nat :
        n = Len(asked) /\ m = Len(calls) /\ DOMAIN asked = 1 .. n /\ DOMAIN calls = 1 .. m
  <2>1. \E n \in Nat : n = Len(asked) /\ DOMAIN asked = 1 .. n
    BY DEF AgentTypes
  <2>2. \E m \in Nat : m = Len(calls) /\ DOMAIN calls = 1 .. m
    BY <1>1
  <2>3. QED
    BY <2>1, <2>2
<1>3. /\ \A k \in 1 .. n : k \in DOMAIN asked' /\ asked'[k] = asked[k]
      /\ \A i \in 1 .. m : n + i \in DOMAIN asked' /\ n + i \notin 1 .. n /\ asked'[n + i].held = calls[i].held
  BY <1>1, <1>2 DEF AskedMore
<1>4. ASSUME NEW i \in 1 .. m
      PROVE  /\ calls[i].key = n + i /\ (scenario.unique => calls[i].id = n + i) /\ calls[i].args \in Args
             /\ calls[i].held => /\ calls[i].tool \in Tools
                                 /\ AllowedInProject(calls[i].tool) /\ RequiresApproval(calls[i].tool)
  BY <1>2 DEF Asks
<1>5. bindings' = bindings /\ scenario' = scenario
  BY DEF Asks, gateway
<1>6. ASSUME NEW i \in 1 .. m PROVE Known(calls[i])'
  <2>1. PICK call : call = calls[i]
    OBVIOUS
  <2>2. AllowedInProject(call.tool)' = AllowedInProject(call.tool) /\ RequiresApproval(call.tool)' = RequiresApproval(call.tool)
    BY <1>5 DEF AllowedInProject, RequiresApproval
  <2>3. Known(call)'
    BY <1>3, <1>4, <1>5, <2>1, <2>2 DEF Known
  <2>4. QED
    BY <2>1, <2>3
<1>7. \A k \in s.calls : k \in 1 .. n
  BY <1>2 DEF Whole
<1>8. Whole(t, {})'
  <2>1. ASSUME NEW k \in t.calls PROVE k \in DOMAIN asked'
    <3>1. k \in s.calls \/ \E i \in 1 .. m : k = n + i
      BY <1>2, <1>4
    <3>2. QED
      BY <1>3, <1>7, <3>1
  <2>2. \A j \in DOMAIN t.results : t.results[j].key \in t.calls
    BY DEF Whole
  <2>3. QED
    BY <2>1, <2>2 DEF Whole
<1>9. Pends(t)'
  BY DEF Pends
<1>10. InLine(t, {}, calls)'
  <2>1. ASSUME NEW i \in 1 .. m
        PROVE  calls[i].key \in t.calls /\ \A j \in DOMAIN t.results : t.results[j].key # calls[i].key
    <3>1. \A j \in DOMAIN s.results : s.results[j].key \in 1 .. n
      BY <1>7 DEF Whole
    <3>2. QED
      BY <1>2, <1>3, <1>4, <3>1
  <2>2. \A i, j \in 1 .. m : calls[i].key = calls[j].key => i = j
    BY <1>2, <1>4
  <2>3. ASSUME NEW k \in t.calls
        PROVE  \/ \E i \in 1 .. m : calls[i].key = k
               \/ \E j \in DOMAIN t.results : t.results[j].key = k
    BY <1>2 DEF InLine
  <2>4. QED
    BY <1>2, <1>6, <2>1, <2>2, <2>3 DEF InLine
<1>11. QED
  BY <1>8, <1>9, <1>10

\* A request that only moved on has the line it had.
LEMMA MovedInLine ==
  ASSUME NEW o \in ActorRecords, NEW r \in ActorRecords, ActorInLine(o),
         r.state = o.state, r.call = o.call, r.shown = o.shown,
         First(r) = First(o), Ahead(r) = Ahead(o),
         r.pc \notin Between \cup {"invoking", "loading"},
         r.pc \in {"asking", "draining", "drained", "settling", "settled"} => r.state.pending = NoCall,
         r.pc \in Holding => o.pc \in Holding
  PROVE  ActorInLine(r)
BY DEF ActorInLine, Between, Holding

LEMMA OffInLine ==
  ASSUME NEW r \in ActorRecords, r.pc \in Between \cup {"gone"}, r.state = Fresh, r.shown = NoCall \/ Known(r.shown)
  PROVE  ActorInLine(r)
BY FreshInLine, Blank DEF ActorInLine, Between, First, Ahead, Holding

MovesInLine(a) == (\E r : Becomes(a, r) /\ ActorInLine(r)) \/ (\E r : Becomes(a, r) /\ ActorInLine(r)')

\* A step that leaves the state and its line as they are.
MovesTo(o, pc) ==
  \/ o.pc = "created" /\ pc = "asking"
  \/ o.pc = "asking" /\ pc = "settling"
  \/ o.pc = "draining" /\ o.todo = <<>> /\ pc = "drained"
  \/ o.pc = "holding" /\ pc = "held"
  \/ o.pc = "held" /\ pc = "late"
  \/ o.pc = "drained" /\ pc \in {"settling", "asking"}
  \/ o.pc = "settling" /\ pc = "settled"

LEMMA HandleInLine ==
  ASSUME GatewayTypes, AgentTypes, Lined, NEW a \in Actors, Handle(a)
  PROVE  MovesInLine(a)
<1> DEFINE o == actor[a]
<1>1. /\ o \in ActorRecords /\ ActorInLine(o) /\ o.state \in States
      /\ o.todo \in Seq(CallRecords) /\ o.call \in CallRecords
      /\ o.state.pending \in CallRecords
  <2>1. o \in ActorRecords /\ ActorInLine(o)
    BY LineIs
  <2>2. QED
    BY <2>1, ActorIs DEF States
<1>2. /\ Whole(o.state, First(o)) /\ Pends(o.state) /\ InLine(o.state, First(o), Ahead(o))
      /\ o.pc \in Between => o.state = Fresh
      /\ o.pc \in {"asking", "draining", "drained", "settling", "settled"} => o.state.pending = NoCall
      /\ o.shown = NoCall \/ Known(o.shown)
  BY <1>1 DEF ActorInLine
<1>3. StoredInLine(checkpoint) /\ checkpoint \in States
  BY DEF Lined, AgentTypes
<1>4. ASSUME NEW r, Becomes(a, r), ActorInLine(r) PROVE MovesInLine(a)
  BY <1>4 DEF MovesInLine
<1>5. ASSUME NEW r, Becomes(a, r) PROVE r \in ActorRecords
  BY <1>5 DEF Becomes
<1>6. ASSUME Ends(a) PROVE MovesInLine(a)
  <2>1. PICK r, pc : /\ pc \in {"idle", "done"} /\ Becomes(a, r)
                     /\ Is(r, pc, "none", Fresh, NoCall, <<>>, FALSE, FALSE, o.shown)
    BY <1>6 DEF Ends
  <2>2. ActorInLine(r)
    BY <1>2, <1>5, <2>1, OffInLine DEF Is, Between
  <2>3. QED
    BY <1>4, <2>1, <2>2
<1>7. ASSUME NEW pc, NEW status, NEW r, NEW resuming, Becomes(a, r),
             Is(r, pc, status, o.state, o.call, o.todo, o.approved, resuming, o.shown),
             MovesTo(o, pc)
      PROVE  MovesInLine(a)
  <2>1. r \in ActorRecords /\ r.pc = pc /\ r.state = o.state /\ r.call = o.call /\ r.shown = o.shown
    BY <1>5, <1>7 DEF Is
  <2>2. First(r) = First(o) /\ Ahead(r) = Ahead(o)
    BY <1>7, <2>1 DEF First, Ahead, Holding, MovesTo
  <2>3. pc \notin Between \cup {"invoking", "loading"} /\ (pc \in Holding => o.pc \in Holding)
    BY <1>7 DEF Between, Holding, MovesTo
  <2>4. pc \in {"asking", "draining", "drained", "settling", "settled"} => o.state.pending = NoCall
    BY <1>2, <1>7, Blank DEF Between, MovesTo
  <2>5. ActorInLine(r)
    BY <1>1, <2>1, <2>2, <2>3, <2>4, MovedInLine
  <2>6. QED
    BY <1>4, <1>7, <2>5
<1>8. CASE Start(a)
  <2>1. PICK r : Becomes(a, r) /\ Is(r, "created", "running", Fresh, NoCall, <<>>, FALSE, FALSE, NoCall)
    BY <1>8, StartIs
  <2>2. ActorInLine(r)
    BY <1>5, <2>1, OffInLine DEF Is, Between
  <2>3. QED
    BY <1>4, <2>1, <2>2
<1>9. CASE Open(a)
  BY <1>7, <1>9, OpenIs DEF On, MovesTo
<1>10. CASE Settles(a) /\ On(a, "asking")
  BY <1>7, <1>10 DEF Settles, On, MovesTo
<1>11. ASSUME NEW calls, Asks(a, calls), On(a, "asking") PROVE MovesInLine(a)
  <2>1. PICK r, s : /\ Becomes(a, r)
                    /\ Is(r, "draining", o.status, s, o.call, calls, o.approved, o.resuming, o.shown)
                    /\ s \in States /\ s.made = o.state.made /\ s.turns = o.state.turns + 1
                    /\ s.calls = o.state.calls \cup {calls[i].key : i \in DOMAIN calls}
                    /\ s.results = o.state.results /\ s.pending = o.state.pending /\ s.queued = <<>>
    BY <1>11 DEF Asks
  <2>2. s.turns <= MaxTurns
    <3>1. o.state.turns < MaxTurns /\ o.state.turns \in Nat /\ MaxTurns \in Nat
      BY <1>1, <1>11, ActorsCall DEF Asks, States
    <3>2. QED
      BY <2>1, <3>1
  <2>3. First(o) = {} /\ Ahead(o) = <<>> /\ o.state.pending = NoCall
    BY <1>2, <1>11 DEF First, Ahead, On, Holding
  <2>4. Whole(s, {})' /\ Pends(s)' /\ InLine(s, {}, calls)'
    BY <1>1, <1>2, <1>11, <2>1, <2>2, <2>3, LineAsks
  <2>5. PICK shown : shown = o.shown
    OBVIOUS
  <2>6. shown = NoCall \/ Known(shown)'
    <3>1. Grown /\ Unbound
      BY <1>11, AsksMore, GrownIs DEF Asks, Unbound, gateway
    <3>2. QED
      BY <1>2, <2>5, <3>1, KnownKept
  <2>7. /\ r.pc = "draining" /\ r.state = s /\ r.todo = calls /\ r.shown = shown
        /\ First(r)' = {} /\ Ahead(r)' = calls /\ s.pending = NoCall
    BY <2>1, <2>3, <2>5 DEF Is, First, Ahead, Holding
  <2>8. ActorInLine(r)'
    BY <2>4, <2>6, <2>7 DEF ActorInLine, Between, Holding
  <2>9. QED
    BY <2>1, <2>8 DEF MovesInLine
<1>12. CASE Drain(a) /\ On(a, "draining")
  <2>1. First(o) = {} /\ Ahead(o) = o.todo /\ o.state.pending = NoCall /\ o.state.queued = <<>>
    BY <1>2, <1>12 DEF First, Ahead, On, Holding, Pends
  <2>2. Whole(o.state, {}) /\ InLine(o.state, {}, o.todo)
    BY <1>2, <2>1
  <2>3. CASE o.todo = <<>> /\ \E r : Becomes(a, r) /\ Is(r, "drained", o.status, o.state, o.call, o.todo, o.approved, o.resuming, o.shown)
    BY <1>7, <1>12, <2>3 DEF On, MovesTo
  <2>4. ASSUME o.todo # <<>> PROVE Holds(a) \/ Answers1(a) \/ Makes(a) => MovesInLine(a)
    <3>1. PICK s \in States, call \in CallRecords, rest \in Seq(CallRecords) :
            s = o.state /\ call = Head(o.todo) /\ rest = Tail(o.todo)
      BY <1>1, <2>4, HeadTailProperties
    <3>2. Known(call) /\ call.key \in s.calls /\ Whole(s, {call.key}) /\ InLine(s, {call.key}, rest)
      BY <1>1, <2>2, <2>4, <3>1, LineTakes
    <3>3. ASSUME Holds(a) PROVE MovesInLine(a)
      <4>1. PICK r, t : /\ Becomes(a, r)
                        /\ Is(r, "holding", "waiting", t, o.call, rest, o.approved, o.resuming, o.shown)
                        /\ t \in States /\ t.made = s.made /\ t.turns = s.turns
                        /\ t.calls = s.calls /\ t.results = s.results
                        /\ t.pending = call /\ t.queued = rest
        BY <3>1, <3>3 DEF Holds, Rest1
      <4>2. call.held /\ call # NoCall
        BY <3>1, <3>3, Blank DEF Holds
      <4>3. Whole(t, {call.key}) /\ InLine(t, {call.key}, rest) /\ Pends(t)
        BY <3>2, <4>1, <4>2 DEF Whole, InLine, Pends
      <4>4. r.pc = "holding" /\ r.state = t /\ r.shown = o.shown /\ First(r) = {call.key} /\ Ahead(r) = rest
        BY <4>1 DEF Is, First, Ahead, Holding
      <4>5. ActorInLine(r)
        BY <1>2, <4>1, <4>2, <4>3, <4>4 DEF ActorInLine, Between, Holding
      <4>6. QED
        BY <1>4, <4>1, <4>5
    <3>4. ASSUME Answers1(a) PROVE MovesInLine(a)
      <4>1. PICK r, t : /\ Becomes(a, r)
                        /\ Is(r, "draining", o.status, t, o.call, rest, o.approved, o.resuming, o.shown)
                        /\ Gains(s, t, call, "unknown") /\ t.queued = s.queued
        BY <3>1, <3>4 DEF Answers1, Rest1
      <4>2. Whole(t, {}) /\ InLine(t, {}, rest)
        BY <3>2, <4>1, LineAnswers
      <4>3. Pends(t) /\ t.pending = NoCall
        BY <2>1, <3>1, <4>1 DEF Pends, Gains
      <4>4. r.pc = "draining" /\ r.state = t /\ r.shown = o.shown /\ First(r) = {} /\ Ahead(r) = rest
        BY <4>1 DEF Is, First, Ahead, Holding
      <4>5. ActorInLine(r)
        BY <1>2, <4>1, <4>2, <4>3, <4>4 DEF ActorInLine, Between, Holding
      <4>6. QED
        BY <1>4, <4>1, <4>5
    <3>5. ASSUME Makes(a) PROVE MovesInLine(a)
      <4>1. PICK r : /\ Becomes(a, r)
                     /\ Is(r, "invoking", o.status, s, call, rest, FALSE, o.resuming, o.shown)
        BY <3>1, <3>5 DEF Makes, Rest1
      <4>2. call.tool \in Tools
        BY <3>1, <3>5 DEF Makes
      <4>3. /\ r.pc = "invoking" /\ r.state = s /\ r.shown = o.shown /\ r.call = call
            /\ First(r) = {call.key} /\ Ahead(r) = rest
        BY <4>1 DEF Is, First, Ahead, Holding
      <4>4. ActorInLine(r)
        BY <1>2, <2>1, <3>1, <3>2, <4>2, <4>3 DEF ActorInLine, Between, Holding
      <4>5. QED
        BY <1>4, <4>1, <4>4
    <3>6. QED
      BY <3>3, <3>4, <3>5
  <2>5. QED
    BY <1>12, <2>3, <2>4, DrainIs
<1>13. CASE Invoked(a) /\ On(a, "invoking")
  <2>1. PICK s \in States, call \in CallRecords, ahead \in Seq(CallRecords) : s = o.state /\ call = o.call /\ ahead = o.todo
    BY <1>1
  <2>2. First(o) = {call.key} /\ Ahead(o) = ahead
    BY <1>13, <2>1 DEF First, Ahead, On
  <2>3. /\ Whole(s, {call.key}) /\ InLine(s, {call.key}, ahead) /\ Pends(s)
        /\ Known(call) /\ call.tool \in Tools /\ s.pending \in {NoCall, call} /\ s.queued = <<>>
    BY <1>1, <1>13, <2>1, <2>2 DEF ActorInLine, On
  <2>4. ASSUME Again(a) PROVE MovesInLine(a)
    <3>1. PICK r : /\ Becomes(a, r)
                   /\ Is(r, "invoking", o.status, s, call, ahead, FALSE, o.resuming, o.shown)
      BY <2>1, <2>4 DEF Again
    <3>2. /\ r.pc = "invoking" /\ r.state = s /\ r.shown = o.shown /\ r.call = call
          /\ First(r) = {call.key} /\ Ahead(r) = ahead
      BY <3>1 DEF Is, First, Ahead, Holding
    <3>3. ActorInLine(r)
      BY <1>2, <2>3, <3>2 DEF ActorInLine, Between, Holding
    <3>4. QED
      BY <1>4, <3>1, <3>3
  <2>5. ASSUME Reads(a) PROVE MovesInLine(a)
    <3>1. PICK r, t, answer : /\ Becomes(a, r)
                      /\ Is(r, "draining", o.status, t, NoCall, ahead, FALSE, o.resuming, o.shown)
                      /\ Gains(s, t, call, answer) /\ t.queued = s.queued
      BY <2>1, <2>5 DEF Reads
    <3>2. Whole(t, {}) /\ InLine(t, {}, ahead)
      BY <2>3, <3>1, LineAnswers DEF Whole
    <3>3. Pends(t) /\ t.pending = NoCall
      BY <2>3, <3>1 DEF Pends, Gains
    <3>4. r.pc = "draining" /\ r.state = t /\ r.shown = o.shown /\ First(r) = {} /\ Ahead(r) = ahead
      BY <3>1 DEF Is, First, Ahead, Holding
    <3>5. ActorInLine(r)
      BY <1>2, <3>2, <3>3, <3>4 DEF ActorInLine, Between, Holding
    <3>6. QED
      BY <1>4, <3>1, <3>5
  <2>6. QED
    BY <1>13, <2>4, <2>5, InvokedIs
<1>14. CASE Hold(a)
  BY <1>7, <1>14, HoldIs DEF On, MovesTo
<1>15. CASE Held(a)
  BY <1>6, <1>7, <1>15, HeldIs DEF On, MovesTo
<1>16. CASE SaveLate(a)
  BY <1>6, <1>16, SaveLateIs
<1>17. CASE Drained(a)
  BY <1>7, <1>17, DrainedIs DEF On, MovesTo
<1>18. CASE Settle(a)
  BY <1>7, <1>18, SettleIs DEF On, MovesTo
<1>19. CASE Finish(a)
  BY <1>6, <1>19, FinishIs
<1>20. CASE See(a)
  <2>1. PICK r : /\ Becomes(a, r)
                 /\ Is(r, "idle", "none", Fresh, NoCall, <<>>, FALSE, FALSE, checkpoint.pending)
    BY <1>20, SeeIs
  <2>2. Known(checkpoint.pending)
    BY <1>3, <1>20, SeeIs DEF StoredInLine, Pends
  <2>3. ActorInLine(r)
    BY <1>5, <2>1, <2>2, OffInLine DEF Is, Between
  <2>4. QED
    BY <1>4, <2>1, <2>3
<1>21. CASE Approve(a)
  <2>1. PICK r : Becomes(a, r) /\ Is(r, "finding", run, o.state, o.call, o.todo, o.approved, o.resuming, o.shown)
    BY <1>21, ApproveIs
  <2>2. o.state = Fresh
    BY <1>2, <1>21, ApproveIs DEF On, Between
  <2>3. ActorInLine(r)
    BY <1>2, <1>5, <2>1, <2>2, OffInLine DEF Is, Between
  <2>4. QED
    BY <1>4, <2>1, <2>3
<1>22. CASE Load(a)
  <2>1. ASSUME NEW r, Becomes(a, r),
               Is(r, "loading", "running", checkpoint, o.call, o.todo, o.approved, o.resuming, o.shown),
               MayResume(a, checkpoint.pending)
        PROVE  MovesInLine(a)
    <3>1. PICK s : s = checkpoint
      OBVIOUS
    <3>2. s.pending # NoCall /\ s.pending.id = o.shown.id
      BY <2>1, <3>1 DEF MayResume
    <3>3. r.pc = "loading" /\ r.state = s /\ r.shown = o.shown
          /\ First(r) = {s.pending.key} /\ Ahead(r) = s.queued
      BY <2>1, <3>1 DEF Is, First, Ahead, Holding
    <3>4. Whole(s, {s.pending.key}) /\ Pends(s) /\ InLine(s, {s.pending.key}, s.queued)
      BY <1>3, <3>1, <3>2 DEF StoredInLine, Waiting
    <3>5. ActorInLine(r)
      BY <1>2, <3>2, <3>3, <3>4 DEF ActorInLine, Between, Holding
    <3>6. QED
      BY <1>4, <2>1, <3>5
  <2>2. QED
    BY <1>6, <1>22, <2>1, LoadIs
<1>23. CASE Resume(a) /\ On(a, "loading")
  <2>1. PICK s \in States, call \in CallRecords, ahead \in Seq(CallRecords) : s = o.state /\ call = s.pending /\ ahead = s.queued
    BY <1>1 DEF States
  <2>2. First(o) = {call.key} /\ Ahead(o) = ahead /\ call # NoCall
    BY <1>1, <1>23, <2>1 DEF First, Ahead, On, Holding, ActorInLine
  <2>3. Whole(s, {call.key}) /\ InLine(s, {call.key}, ahead) /\ Known(call) /\ call.held /\ call.key \in s.calls
    BY <1>2, <2>1, <2>2 DEF Pends
  <2>4. ASSUME Carries(a) PROVE MovesInLine(a)
    <3>1. PICK r, t : /\ Becomes(a, r)
                      /\ Is(r, "invoking", o.status, t, call, ahead, TRUE, TRUE, o.shown)
                      /\ t \in States /\ t.made = s.made /\ t.turns = s.turns
                      /\ t.calls = s.calls /\ t.results = s.results
                      /\ t.pending = call /\ t.queued = <<>>
      BY <2>1, <2>4 DEF Carries
    <3>2. /\ r.pc = "invoking" /\ r.state = t /\ r.shown = o.shown /\ r.call = call
          /\ First(r) = {call.key} /\ Ahead(r) = ahead
      BY <3>1 DEF Is, First, Ahead, Holding
    <3>3. Whole(t, {call.key}) /\ InLine(t, {call.key}, ahead) /\ Pends(t)
      BY <2>2, <2>3, <3>1 DEF Whole, InLine, Pends
    <3>4. call.tool \in Tools
      BY <2>3 DEF Known
    <3>5. ActorInLine(r)
      BY <1>2, <2>3, <3>1, <3>2, <3>3, <3>4 DEF ActorInLine, Between, Holding
    <3>6. QED
      BY <1>4, <3>1, <3>5
  <2>5. ASSUME Denies(a) PROVE MovesInLine(a)
    <3>1. PICK r, t : /\ Becomes(a, r)
                      /\ Is(r, "draining", o.status, t, o.call, ahead, o.approved, TRUE, o.shown)
                      /\ Gains(s, t, call, "denied") /\ t.queued = <<>>
      BY <2>1, <2>5 DEF Denies
    <3>2. Whole(t, {}) /\ InLine(t, {}, ahead)
      BY <2>3, <3>1, LineAnswers
    <3>3. Pends(t) /\ t.pending = NoCall
      BY <3>1 DEF Pends, Gains
    <3>4. r.pc = "draining" /\ r.state = t /\ r.shown = o.shown /\ First(r) = {} /\ Ahead(r) = ahead
      BY <3>1 DEF Is, First, Ahead, Holding
    <3>5. ActorInLine(r)
      BY <1>2, <3>2, <3>3, <3>4 DEF ActorInLine, Between, Holding
    <3>6. QED
      BY <1>4, <3>1, <3>5
  <2>6. QED
    BY <1>23, <2>4, <2>5, ResumeIs
<1>24. CASE Crash(a)
  <2>1. PICK r : Becomes(a, r) /\ Is(r, "gone", "none", Fresh, NoCall, <<>>, FALSE, FALSE, NoCall)
    BY <1>24, CrashIs
  <2>2. ActorInLine(r)
    BY <1>5, <2>1, OffInLine DEF Is
  <2>3. QED
    BY <1>4, <2>1, <2>2
<1>25. QED
  BY <1>8, <1>9, <1>10, <1>11, <1>12, <1>13, <1>14, <1>15, <1>16, <1>17, <1>18, <1>19, <1>20, <1>21,
     <1>22, <1>23, <1>24, AskIs, DrainIs, InvokedIs, ResumeIs DEF Handle

\* While no binding is to change none does.
LEMMA BindingsKept ==
  ASSUME GatewayTypes, AgentTypes, Lined, Placed, Alone, [Next]_vars
  PROVE  scenario' = scenario /\ (scenario.calm \/ scenario.single => bindings' = bindings)
<1>1. scenario.calm \/ scenario.single => scenario.binds = <<>>
  BY ScenarioTypes
<1>2. ASSUME NEW a \in Actors, Handle(a) PROVE scenario' = scenario /\ bindings' = bindings
  BY <1>2, HandleIs DEF Handled
<1>3. ASSUME NEW c \in Callers, Call(c) PROVE scenario' = scenario /\ bindings' = bindings
  BY <1>3, CallIs
<1>4. ASSUME GatewayNext
      PROVE  scenario' = scenario /\ (scenario.calm \/ scenario.single => bindings' = bindings)
  <2>1. ASSUME NEW c \in Callers, Serve(c) PROVE scenario' = scenario /\ bindings' = bindings
    BY <2>1, ServeIs
  <2>2. ASSUME NEW i \in 1 .. scenario.approvals, ApprovalExpires(i) PROVE scenario' = scenario /\ bindings' = bindings
    BY <2>2, ApprovalExpiresIs
  <2>3. ASSUME Bind PROVE scenario' = scenario /\ (scenario.calm \/ scenario.single => bindings' = bindings)
    BY <1>1, <2>3, BindIs
  <2>4. ASSUME NEW t \in Tools, WindowEnds(t) PROVE scenario' = scenario /\ bindings' = bindings
    BY <2>4, WindowEndsIs
  <2>5. QED
    BY <1>4, <2>1, <2>2, <2>3, <2>4 DEF GatewayNext
<1>5. UNCHANGED vars => scenario' = scenario /\ bindings' = bindings
  BY DEF vars, gateway
<1>6. QED
  BY <1>2, <1>3, <1>4, <1>5, StepCases

LEMMA LinedKept ==
  ASSUME GatewayTypes, AgentTypes, Lined, Placed, Audited, Alone, [Next]_vars
  PROVE  Lined'
<1>1. Grown /\ Unbound /\ (scenario.calm \/ scenario.single => bindings' = scenario.bindings) /\ scenario' = scenario
  BY TypesKept, BindingsKept DEF Unbound, Lined
<1>2. ASSUME NEW a \in Actors, NEW r, ActorInLine(r), actor'[a] = r PROVE ActorInLine(actor[a])'
  BY <1>1, <1>2, ActorInLineKept
<1>3. ASSUME NEW s, StoredInLine(s), checkpoint' = s PROVE StoredInLine(checkpoint)'
  BY <1>1, <1>3, StoredInLineKept
<1>4. ASSUME NEW a \in Actors PROVE \E r : r = actor[a] /\ ActorInLine(r)
  BY DEF Lined
<1>5. \E s : s = checkpoint /\ StoredInLine(s)
  BY DEF Lined
<1>6. ASSUME NEW a \in Actors, Handle(a) PROVE Lined'
  <2>1. PICK r : Becomes(a, r) /\ (ActorInLine(r) \/ ActorInLine(r)')
    BY <1>6, HandleInLine DEF MovesInLine
  <2>2. ActorInLine(actor[a])'
    BY <1>2, <2>1 DEF Becomes
  <2>3. ASSUME NEW b \in Actors, b # a PROVE ActorInLine(actor[b])'
    <3>1. actor'[b] = actor[b]
      BY <2>1, <2>3 DEF Becomes
    <3>2. QED
      BY <1>2, <1>4, <3>1
  <2>4. PICK o : o = actor[a] /\ o \in ActorRecords /\ ActorInLine(o)
    BY LineIs
  <2>5. PICK s : s = o.state
    OBVIOUS
  <2>6. checkpoint' = checkpoint \/ (checkpoint' = s /\ StoredInLine(s))
    BY <1>6, <2>4, <2>5, HandleIs, SavedInLine DEF Handled, Saved
  <2>7. StoredInLine(checkpoint)'
    BY <1>3, <1>5, <2>6
  <2>8. QED
    BY <1>1, <2>2, <2>3, <2>7 DEF Lined
<1>7. ASSUME UNCHANGED <<actor, checkpoint>> PROVE Lined'
  <2>1. ASSUME NEW b \in Actors PROVE ActorInLine(actor[b])'
    BY <1>2, <1>4, <1>7
  <2>2. StoredInLine(checkpoint)'
    BY <1>3, <1>5, <1>7
  <2>3. QED
    BY <1>1, <2>1, <2>2 DEF Lined
<1>8. ASSUME NEW c \in Callers, Call(c) PROVE UNCHANGED <<actor, checkpoint>>
  BY <1>8, CallIs
<1>9. QED
  BY <1>6, <1>7, <1>8, StepCases DEF agent, vars

-----------------------------------------------------------------------------
\* What the gateway has of a request

\* A request of the runtime goes on without the gateway, dies, puts a call to the
\* gateway, or takes an answer from it.
GoesOn(a) ==
  /\ UNCHANGED request /\ actor[a].pc \notin {"invoking", "gone"}
  /\ UNCHANGED asked \/ \E calls \in Seq(CallRecords) : AskedMore(calls)
  /\ \E r : Becomes(a, r) /\ r.pc # "invoking"
Dies(a) == UNCHANGED <<request, asked>> /\ \E r : Becomes(a, r) /\ r.pc = "gone"
TakesAnswer(a) == UNCHANGED asked /\ QuietAgain(a) /\ \E r : Becomes(a, r) /\ r.pc = "draining"

\* For itself, for the second half of the handshake, or for who approved it.
PutsFor(a, call, approval, approved) ==
  /\ PostedFor(a, call, approval)
  /\ \E r : Becomes(a, r) /\ r.pc = "invoking" /\ r.call = call /\ r.approved = approved
PutsFirst(a) == UNCHANGED asked /\ \E call : ~call.held /\ PutsFor(a, call, 0, FALSE)
PutsAgain(a) ==
  /\ UNCHANGED asked /\ On(a, "invoking") /\ actor[a].approved /\ request[a].answer = "held"
  /\ PutsFor(a, actor[a].call, request[a].approval, FALSE)
PutsSigned(a) ==
  LET call == actor[a].state.pending IN
  /\ On(a, "loading") /\ PutsFor(a, call, 0, TRUE)
  /\ asked' = [asked EXCEPT ![call.key].signed = @ \cup {actor[a].shown.key}]
Puts(a) == PutsFirst(a) \/ PutsAgain(a) \/ PutsSigned(a)

LEMMA HandlePlaces ==
  ASSUME GatewayTypes, AgentTypes, Lined, Placed, NEW a \in Actors, Handle(a)
  PROVE  GoesOn(a) \/ Dies(a) \/ Puts(a) \/ TakesAnswer(a)
<1> DEFINE o == actor[a]
<1>1. /\ o.call \in CallRecords /\ o.state.pending \in CallRecords
      /\ request[a].approval \in Nat /\ a \in Callers
  BY LineIs, ActorIs, ActorsCall DEF States, GatewayTypes, Requests
<1>2. CASE Start(a)
  BY <1>2, StartIs DEF GoesOn, On, Is, gateway
<1>3. CASE Open(a)
  BY <1>3, OpenIs DEF GoesOn, On, Is, gateway
<1>4. CASE Ask(a)
  <2>1. CASE Settles(a) /\ On(a, "asking")
    BY <2>1 DEF Settles, GoesOn, On, Is, gateway
  <2>2. ASSUME NEW calls, Asks(a, calls), On(a, "asking") PROVE GoesOn(a)
    <3>1. AskedMore(calls) /\ calls \in Seq(CallRecords)
      BY <2>2, AsksMore DEF Asks
    <3>2. QED
      BY <2>2, <3>1 DEF Asks, GoesOn, On, Is, gateway
  <2>3. QED
    BY <1>4, <2>1, <2>2, AskIs
<1>5. CASE Drain(a)
  <2>1. On(a, "draining") /\ UNCHANGED asked
    BY <1>5, DrainIs
  <2>2. ASSUME UNCHANGED request, NEW r, Becomes(a, r), r.pc # "invoking" PROVE GoesOn(a)
    BY <2>1, <2>2 DEF GoesOn, On
  <2>3. CASE UNCHANGED request /\ \E r : Becomes(a, r) /\ Is(r, "drained", o.status, o.state, o.call, o.todo, o.approved, o.resuming, o.shown)
    BY <2>2, <2>3 DEF Is
  <2>4. CASE Holds(a)
    BY <2>2, <2>4 DEF Holds, Is
  <2>5. CASE Answers1(a)
    BY <2>2, <2>5 DEF Answers1, Is
  <2>6. CASE Makes(a) /\ Head(o.todo) \in CallRecords
    <3>1. PICK call \in CallRecords : call = Head(o.todo)
      BY <2>6
    <3>2. PostedFor(a, call, 0)
      BY <1>1, <2>6, <3>1, PostedIs DEF Makes
    <3>3. QED
      BY <2>1, <2>6, <3>1, <3>2 DEF Makes, Puts, PutsFirst, PutsFor, Is
  <2>7. QED
    BY <1>5, <2>3, <2>4, <2>5, <2>6, DrainIs
<1>6. CASE Invoked(a)
  <2>1. CASE Again(a)
    <3>1. PICK call \in CallRecords, approval \in Nat : call = o.call /\ approval = request[a].approval
      BY <1>1
    <3>2. PostedFor(a, call, approval)
      BY <1>1, <2>1, <3>1, PostedIs DEF Again
    <3>3. UNCHANGED asked /\ On(a, "invoking") /\ o.approved /\ request[a].answer = "held"
      BY <1>6, <2>1, InvokedIs DEF Again
    <3>4. PutsFor(a, o.call, request[a].approval, FALSE)
      BY <2>1, <3>1, <3>2 DEF Again, PutsFor, Is
    <3>5. QED
      BY <3>3, <3>4 DEF Puts, PutsAgain
  <2>2. CASE Reads(a)
    BY <1>1, <1>6, <2>2, QuietIs, InvokedIs DEF Reads, TakesAnswer, Is
  <2>3. QED
    BY <1>6, <2>1, <2>2, InvokedIs
<1>7. CASE Hold(a)
  BY <1>7, HoldIs DEF GoesOn, On, Is, gateway
<1>8. CASE Held(a)
  BY <1>8, HeldIs DEF GoesOn, On, Is, Ends, gateway
<1>9. CASE SaveLate(a)
  BY <1>9, SaveLateIs DEF GoesOn, On, Is, Ends, gateway
<1>10. CASE Drained(a)
  BY <1>10, DrainedIs DEF GoesOn, On, Is, gateway
<1>11. CASE Settle(a)
  BY <1>11, SettleIs DEF GoesOn, On, Is, gateway
<1>12. CASE Finish(a)
  BY <1>12, FinishIs DEF GoesOn, On, Is, Ends, gateway
<1>13. CASE See(a)
  BY <1>13, SeeIs DEF GoesOn, On, Is, gateway
<1>14. CASE Approve(a)
  BY <1>14, ApproveIs DEF GoesOn, On, Is, gateway
<1>15. CASE Load(a)
  <2>1. UNCHANGED request /\ UNCHANGED asked /\ On(a, "finding")
    BY <1>15, LoadIs DEF gateway
  <2>2. \E r : Becomes(a, r) /\ r.pc # "invoking"
    BY <1>15, LoadIs DEF Is, Ends
  <2>3. QED
    BY <2>1, <2>2 DEF GoesOn, On
<1>16. CASE Resume(a)
  <2>1. On(a, "loading")
    BY <1>16, ResumeIs
  <2>2. CASE Carries(a)
    <3>1. PICK call \in CallRecords : call = o.state.pending
      BY <1>1
    <3>2. PostedFor(a, call, 0)
      BY <1>1, <2>2, <3>1, PostedIs DEF Carries
    <3>3. QED
      BY <2>1, <2>2, <3>1, <3>2 DEF Carries, Puts, PutsSigned, PutsFor, Is
  <2>3. CASE Denies(a)
    BY <2>1, <2>3 DEF Denies, GoesOn, On, Is
  <2>4. QED
    BY <1>16, <2>2, <2>3, ResumeIs
<1>17. CASE Crash(a)
  BY <1>17, CrashIs DEF Dies, Is, gateway
<1>18. QED
  BY <1>2, <1>3, <1>4, <1>5, <1>6, <1>7, <1>8, <1>9, <1>10, <1>11, <1>12, <1>13, <1>14, <1>15, <1>16,
     <1>17 DEF Handle

LEMMA PlacedKept ==
  ASSUME GatewayTypes, AgentTypes, Lined, Placed, Audited, Alone, [Next]_vars
  PROVE  Placed'
<1>1. PICK n \in Nat, n1 \in Nat : n = Len(asked) /\ n1 = Len(asked') /\ n1 >= n /\ DOMAIN asked = 1 .. n
  BY TypesKept DEF AgentTypes, Grown
<1>2. PICK m \in Nat : m = Len(approvals) /\ DOMAIN approvals = 1 .. m
  BY DEF GatewayTypes
<1>3. \A k : k \in 0 .. n => k \in 0 .. n1
  BY <1>1
<1>4. \A c \in Callers : LET o == request[c] IN
        /\ o.pc # "idle" => o.tool \in Tools /\ o.args \in Args
        /\ o.approval \in 0 .. m /\ o.for \in 0 .. n
        /\ o.pc \in {"deciding", "metering", "opening", "taking", "executing"} => o.answer = "none"
  BY <1>1, <1>2 DEF Placed, PlacedRequest
<1>5. \A e \in effects : e.for \in 0 .. n
  BY <1>1 DEF Placed
<1>6. ASSUME NEW a \in Actors, Handle(a) PROVE Placed'
  <2>1. /\ UNCHANGED <<approvals, effects>> /\ Requested(a) /\ \E r : Becomes(a, r)
    BY <1>6, HandleIs DEF Handled
  <2>2. a \in Callers
    BY ActorsCall
  <2>3. ASSUME NEW c \in Callers PROVE PlacedRequest(request[c])'
    <3>1. CASE request'[c] = request[c]
      BY <1>1, <1>2, <1>3, <1>4, <2>1, <3>1 DEF PlacedRequest
    <3>2. CASE Posted(request'[c])
      <4>1. PICK q : q = request'[c]
        OBVIOUS
      <4>2. \/ q = Quiet
            \/ /\ q.tool \in Tools /\ q.args \in Args
               /\ q.approval \in 0 .. m /\ q.for \in 1 .. n /\ q.answer = "none"
        BY <1>1, <1>2, <3>2, <4>1 DEF Posted
      <4>3. q.pc # "idle" => q.tool \in Tools /\ q.args \in Args
        BY <4>2, Blank
      <4>4. q.approval \in 0 .. m /\ q.for \in 0 .. n /\ q.answer = "none"
        BY <4>2, Blank
      <4>5. QED
        BY <1>1, <1>2, <1>3, <2>1, <4>1, <4>3, <4>4 DEF PlacedRequest
    <3>3. request'[c] = request[c] \/ Posted(request'[c])
      BY <2>1, <2>2 DEF Requested, Serves
    <3>4. QED
      BY <3>1, <3>2, <3>3
  <2>4. PlacedActor(a)'
    <3>1. CASE GoesOn(a)
      BY <3>1 DEF GoesOn, Becomes, PlacedActor, Placed, On, At
    <3>2. CASE Dies(a)
      BY <3>2 DEF Dies, Becomes, PlacedActor, On, At
    <3>3. CASE Puts(a)
      <4>1. PICK call, approval, approved : PutsFor(a, call, approval, approved)
        BY <3>3 DEF Puts, PutsFirst, PutsAgain, PutsSigned
      <4>2. QED
        BY <2>2, <4>1 DEF PutsFor, PostedFor, Serves, Becomes, PlacedActor, On, At
    <3>4. CASE TakesAnswer(a)
      BY <3>4, Blank DEF TakesAnswer, QuietAgain, Serves, Becomes, PlacedActor, On, At
    <3>5. QED
      BY <1>6, <3>1, <3>2, <3>3, <3>4, HandlePlaces
  <2>5. ASSUME NEW b \in Actors, b # a PROVE PlacedActor(b)'
    <3>1. actor'[b] = actor[b] /\ request'[b] = request[b]
      BY <2>1, <2>5, ActorsCall DEF Requested, Serves, Becomes
    <3>2. QED
      BY <3>1 DEF PlacedActor, Placed, On, At
  <2>6. QED
    BY <1>1, <1>3, <1>5, <2>1, <2>3, <2>4, <2>5 DEF Placed
<1>7. ASSUME UNCHANGED <<actor, asked>>,
             \A c \in Callers : request'[c] = request[c] \/ (c \notin Actors /\ PlacedRequest(request[c])') \/ \E r : ServedAs(c, r),
             approvals' \in Seq(Approvals), Len(approvals') >= Len(approvals),
             \A i \in DOMAIN approvals' : approvals'[i].tool \in Tools /\ approvals'[i].args \in Args,
             effects' = effects \/ \E c \in Callers : effects' = effects \cup {Effect(c)}
      PROVE  Placed'
  <2>1. PICK m1 \in Nat : m1 = Len(approvals') /\ m1 >= m
    BY <1>2, <1>7
  <2>2. ASSUME NEW c \in Callers, NEW r, ServedAs(c, r) PROVE PlacedRequest(request[c])'
    <3>1. /\ request'[c] = r /\ r.tool \in Tools /\ r.args \in Args /\ r.for \in 0 .. n
          /\ r.pc \in {"deciding", "metering", "opening", "taking", "executing"} => r.answer = "none"
      BY <1>4, <2>2 DEF ServedAs, Serves, Same
    <3>2. r.approval \in 0 .. m1
      BY <1>2, <1>4, <2>1, <2>2 DEF ServedAs
    <3>3. QED
      BY <1>1, <1>7, <2>1, <3>1, <3>2 DEF PlacedRequest
  <2>3. ASSUME NEW c \in Callers, request'[c] = request[c] PROVE PlacedRequest(request[c])'
    BY <1>1, <1>2, <1>4, <1>7, <2>1, <2>3 DEF PlacedRequest
  <2>4. ASSUME NEW a \in Actors PROVE PlacedActor(a)'
    <3>1. actor'[a] = actor[a] /\ a \in Callers
      BY <1>7, ActorsCall
    <3>2. CASE request'[a] = request[a]
      BY <3>1, <3>2 DEF PlacedActor, Placed, On, At
    <3>3. CASE \E r : ServedAs(a, r)
      BY <3>1, <3>3 DEF ServedAs, Serves, Same, PlacedActor, Placed, On, At
    <3>4. QED
      BY <1>7, <3>1, <3>2, <3>3
  <2>5. \A e \in effects' : e.for \in 0 .. n
    BY <1>4, <1>5, <1>7 DEF Effect
  <2>6. QED
    BY <1>1, <1>7, <2>2, <2>3, <2>4, <2>5 DEF Placed
<1>8. ASSUME NEW c \in Callers, Call(c) PROVE Placed'
  <2>0. PICK p \in scenario.posts, i \in 0 .. Len(approvals) : \E r :
          /\ Serves(c, r) /\ r.pc = "deciding" /\ r.tool = p.tool /\ r.args = p.args
          /\ p.tool \in Tools /\ p.args \in Args /\ r.approval = i /\ r.for = 0 /\ r.answer = "none"
    BY <1>8, CallIs
  <2>1. PICK r :
          /\ Serves(c, r) /\ r.pc = "deciding" /\ r.tool = p.tool /\ r.args = p.args
          /\ p.tool \in Tools /\ p.args \in Args /\ r.approval = i /\ r.for = 0 /\ r.answer = "none"
    BY <2>0
  <2>2. c \notin Actors /\ UNCHANGED <<actor, asked, approvals, effects>>
    BY <1>8, CallIs
  <2>3. PlacedRequest(request[c])'
    BY <1>1, <2>1, <2>2 DEF Serves, PlacedRequest
  <2>4. \A d \in Callers : d # c => request'[d] = request[d]
    BY <2>1 DEF Serves
  <2>5. approvals \in Seq(Approvals) /\ Len(approvals) >= Len(approvals)
    BY <1>2 DEF GatewayTypes
  <2>6. QED
    BY <1>7, <2>2, <2>3, <2>4, <2>5 DEF Placed
<1>9. ASSUME GatewayNext, UNCHANGED agent PROVE Placed'
  <2>1. ASSUME NEW c \in Callers, Serve(c) PROVE Placed'
    <3>1. PICK r : ServedAs(c, r)
      BY <2>1, ServeIs
    <3>2. /\ approvals' \in Seq(Approvals) /\ Len(approvals') >= Len(approvals)
          /\ \A i \in DOMAIN approvals' :
               \/ /\ i \in DOMAIN approvals
                  /\ approvals'[i].tool = approvals[i].tool /\ approvals'[i].args = approvals[i].args
               \/ At(c, "opening") /\ approvals'[i].tool = request[c].tool /\ approvals'[i].args = request[c].args
      BY <2>1, ServeIs
    <3>3. \A i \in DOMAIN approvals' : approvals'[i].tool \in Tools /\ approvals'[i].args \in Args
      BY <1>4, <3>2 DEF Placed, At
    <3>4. \A d \in Callers : d # c => request'[d] = request[d]
      BY <3>1 DEF ServedAs, Serves
    <3>5. effects' = effects \/ effects' = effects \cup {Effect(c)}
      BY <3>1 DEF ServedAs
    <3>6. QED
      BY <1>7, <1>9, <3>1, <3>2, <3>3, <3>4, <3>5 DEF agent
  <2>2. ASSUME UNCHANGED <<request, effects>>, UNCHANGED approvals \/ \E i : TakenAt(i) PROVE Placed'
    <3>1. approvals \in Seq(Approvals) /\ Len(approvals) >= Len(approvals)
      BY <1>2 DEF GatewayTypes
    <3>2. approvals' \in Seq(Approvals) /\ Len(approvals') >= Len(approvals)
      BY <2>2, <3>1 DEF TakenAt
    <3>3. \A i \in DOMAIN approvals' : approvals'[i].tool \in Tools /\ approvals'[i].args \in Args
      BY <2>2 DEF TakenAt, Placed
    <3>4. QED
      BY <1>7, <1>9, <2>2, <3>2, <3>3 DEF agent
  <2>3. QED
    BY <1>9, <2>1, <2>2, ApprovalExpiresIs, BindIs, WindowEndsIs DEF GatewayNext
<1>10. CASE UNCHANGED vars
  <2>1. approvals \in Seq(Approvals) /\ Len(approvals) >= Len(approvals)
    BY <1>2 DEF GatewayTypes
  <2>2. QED
    BY <1>7, <1>10, <2>1 DEF Placed, vars, gateway, agent
<1>11. QED
  BY <1>6, <1>8, <1>9, <1>10, StepCases

-----------------------------------------------------------------------------
\* The books of the gateway

LEMMA EffectIs ==
  ASSUME NEW c
  PROVE  LET r == request[c] e == Effect(c) IN
         /\ e.caller = c /\ e.nth = Cardinality(EffectsOf(c)) + 1 /\ e.tool = r.tool /\ e.args = r.args
         /\ e.approval = r.approval /\ e.needs = r.needs /\ e.for = r.for
BY DEF Effect

LEMMA EffectAdded ==
  ASSUME GatewayTypes, Numbered, NEW c \in Callers, effects' = effects \cup {Effect(c)}
  PROVE  /\ IsFiniteSet(effects')
         /\ \A d \in Callers : /\ Cardinality(EffectsOf(d)) \in Nat
                               /\ Cardinality(EffectsOf(d))' = Cardinality(EffectsOf(d)) + (IF d = c THEN 1 ELSE 0)
         /\ \A e \in effects' : e.nth <= Cardinality(EffectsOf(e.caller))'
<1>1. PICK e0 : e0 = Effect(c) /\ e0.caller = c /\ e0.nth = Cardinality(EffectsOf(c)) + 1
  BY EffectIs
<1>2. ASSUME NEW d \in Callers PROVE IsFiniteSet(EffectsOf(d)) /\ Cardinality(EffectsOf(d)) \in Nat
  BY FS_Subset, FS_CardinalityType DEF Numbered, EffectsOf
<1>3. effects' = effects \cup {e0}
  BY <1>1
<1>4. IsFiniteSet(effects')
  BY <1>3, FS_AddElement DEF Numbered
<1>5. \A d \in Callers : d # c => EffectsOf(d)' = EffectsOf(d)
  BY <1>1, <1>3 DEF EffectsOf
<1>6. EffectsOf(c)' = EffectsOf(c) \cup {e0}
  BY <1>1, <1>3 DEF EffectsOf
<1>7. e0 \notin EffectsOf(c)
  <2>1. \A e \in effects : e.caller = c => e.nth <= Cardinality(EffectsOf(c))
    BY DEF Numbered
  <2>2. QED
    BY <1>1, <1>2, <2>1 DEF EffectsOf
<1>8. Cardinality(EffectsOf(c))' = Cardinality(EffectsOf(c)) + 1
  BY <1>2, <1>6, <1>7, FS_AddElement
<1>9. ASSUME NEW d \in Callers
      PROVE  Cardinality(EffectsOf(d))' = Cardinality(EffectsOf(d)) + (IF d = c THEN 1 ELSE 0)
  BY <1>2, <1>5, <1>8
<1>10. ASSUME NEW e \in effects' PROVE e.nth <= Cardinality(EffectsOf(e.caller))'
  <2>1. CASE e = e0
    <3>1. PICK d : d = e.caller /\ d = c
      BY <1>1, <2>1
    <3>2. Cardinality(EffectsOf(d))' = Cardinality(EffectsOf(c))'
      BY <3>1
    <3>3. e.nth <= Cardinality(EffectsOf(d))'
      BY <1>1, <1>2, <1>8, <2>1, <3>2
    <3>4. QED
      BY <3>1, <3>3
  <2>2. CASE e \in effects
    <3>1. PICK d \in Callers : d = e.caller /\ e.nth \in Nat
      BY <2>2 DEF GatewayTypes, Effects
    <3>2. e.nth <= Cardinality(EffectsOf(d))
      BY <2>2, <3>1 DEF Numbered
    <3>3. e.nth <= Cardinality(EffectsOf(d))'
      BY <1>2, <1>9, <3>1, <3>2
    <3>4. QED
      BY <3>1, <3>3
  <2>3. QED
    BY <1>3, <2>1, <2>2
<1>11. QED
  BY <1>2, <1>4, <1>9, <1>10

\* The records of a caller that have one of the statuses.
Having(c, statuses) == {x \in RecordsOf(c) : x.status \in statuses}

LEMMA RecordAdded ==
  ASSUME GatewayTypes, Numbered, NEW c \in Callers, audit' = audit \cup {RecordOf(c)}
  PROVE  /\ IsFiniteSet(audit')
         /\ \A d \in Callers : \A statuses :
              /\ Cardinality(Having(d, statuses)) \in Nat
              /\ Cardinality(Having(d, statuses))'
                 = Cardinality(Having(d, statuses)) + (IF d = c /\ request[c].status \in statuses THEN 1 ELSE 0)
         /\ \A x \in audit' : x.nth <= Cardinality(RecordsOf(x.caller))'
<1>1. PICK x0 : x0 = RecordOf(c) /\ x0.caller = c /\ x0.nth = Cardinality(RecordsOf(c)) + 1 /\ x0.status = request[c].status
  <2>1. RecordOf(c).caller = c /\ RecordOf(c).nth = Cardinality(RecordsOf(c)) + 1 /\ RecordOf(c).status = request[c].status
    BY DEF RecordOf
  <2>2. QED
    BY <2>1
<1>2. ASSUME NEW d \in Callers PROVE IsFiniteSet(RecordsOf(d)) /\ Cardinality(RecordsOf(d)) \in Nat
  BY FS_Subset, FS_CardinalityType DEF Numbered, RecordsOf
<1>3. audit' = audit \cup {x0}
  BY <1>1
<1>4. IsFiniteSet(audit')
  BY <1>3, FS_AddElement DEF Numbered
<1>5. \A d \in Callers : d # c => RecordsOf(d)' = RecordsOf(d)
  BY <1>1, <1>3 DEF RecordsOf
<1>6. RecordsOf(c)' = RecordsOf(c) \cup {x0}
  BY <1>1, <1>3 DEF RecordsOf
<1>7. x0 \notin RecordsOf(c)
  <2>1. \A x \in audit : x.caller = c => x.nth <= Cardinality(RecordsOf(c))
    BY DEF Numbered
  <2>2. QED
    BY <1>1, <1>2, <2>1 DEF RecordsOf
<1>8. Cardinality(RecordsOf(c))' = Cardinality(RecordsOf(c)) + 1
  BY <1>2, <1>6, <1>7, FS_AddElement
<1>9. ASSUME NEW d \in Callers, NEW statuses
      PROVE  /\ Cardinality(Having(d, statuses)) \in Nat
             /\ Cardinality(Having(d, statuses))'
                = Cardinality(Having(d, statuses)) + (IF d = c /\ request[c].status \in statuses THEN 1 ELSE 0)
  <2>1. IsFiniteSet(Having(d, statuses)) /\ Cardinality(Having(d, statuses)) \in Nat
    BY <1>2, FS_Subset, FS_CardinalityType DEF Having
  <2>2. CASE d = c /\ request[c].status \in statuses
    <3>1. Having(d, statuses)' = Having(d, statuses) \cup {x0}
      BY <1>1, <1>6, <2>2 DEF Having
    <3>2. x0 \notin Having(d, statuses)
      BY <1>7, <2>2 DEF Having
    <3>3. QED
      BY <2>1, <2>2, <3>1, <3>2, FS_AddElement
  <2>3. CASE ~(d = c /\ request[c].status \in statuses)
    <3>1. Having(d, statuses)' = Having(d, statuses)
      BY <1>1, <1>5, <1>6, <2>3 DEF Having
    <3>2. QED
      BY <2>1, <2>3, <3>1
  <2>4. QED
    BY <2>2, <2>3
<1>10. ASSUME NEW x \in audit' PROVE x.nth <= Cardinality(RecordsOf(x.caller))'
  <2>1. CASE x = x0
    <3>1. PICK d : d = x.caller /\ d = c
      BY <1>1, <2>1
    <3>2. Cardinality(RecordsOf(d))' = Cardinality(RecordsOf(c))'
      BY <3>1
    <3>3. x.nth <= Cardinality(RecordsOf(d))'
      BY <1>1, <1>2, <1>8, <2>1, <3>2
    <3>4. QED
      BY <3>1, <3>3
  <2>2. CASE x \in audit
    <3>1. PICK d \in Callers : d = x.caller /\ x.nth \in Nat
      BY <2>2 DEF GatewayTypes, Records
    <3>2. x.nth <= Cardinality(RecordsOf(d))
      BY <2>2, <3>1 DEF Numbered
    <3>3. x.nth <= Cardinality(RecordsOf(d))'
      BY <1>2, <1>5, <1>8, <3>1, <3>2
    <3>4. QED
      BY <3>1, <3>3
  <2>3. QED
    BY <1>3, <2>1, <2>2
<1>11. QED
  BY <1>4, <1>9, <1>10

Balanced(c) ==
  /\ Recorded(c, {"ok"}) <= Cardinality(EffectsOf(c))
  /\ Cardinality(EffectsOf(c)) <= Recorded(c, {"ok", "failed"})

\* The record that is being made counts.
Making(c, statuses) == IF At(c, "recording") /\ request[c].status \in statuses THEN 1 ELSE 0

LEMMA RecordedIs ==
  /\ \A c, statuses : Recorded(c, statuses) = Cardinality(Having(c, statuses)) + Making(c, statuses)
  /\ \A c, statuses : Recorded(c, statuses)' = Cardinality(Having(c, statuses))' + Making(c, statuses)'
BY DEF Recorded, Having, Making

\* A step that serves a call leaves the books balanced when it makes a record as it
\* has the effect, and when it writes the record that it was to make.
LEMMA BalancedKept ==
  ASSUME GatewayTypes, Numbered, NEW c \in Callers, NEW d \in Callers, Balanced(d),
         \A b \in Callers : b # c => request'[b] = request[b],
         \/ /\ UNCHANGED <<effects, audit>> /\ ~At(c, "recording")
            /\ request'[c].pc = "recording" => request'[c].status # "ok"
         \/ /\ effects' = effects \cup {Effect(c)} /\ UNCHANGED audit /\ ~At(c, "recording")
            /\ request'[c].pc = "recording" /\ request'[c].status \in {"ok", "failed"}
         \/ /\ UNCHANGED effects /\ audit' = audit \cup {RecordOf(c)} /\ At(c, "recording")
            /\ request'[c].pc # "recording"
  PROVE  Balanced(d)'
<1> DEFINE ok == {"ok"} done == {"ok", "failed"}
<1>1. /\ Cardinality(EffectsOf(d)) \in Nat
      /\ Cardinality(Having(d, ok)) \in Nat /\ Cardinality(Having(d, done)) \in Nat
  BY FS_Subset, FS_CardinalityType DEF Numbered, EffectsOf, Having, RecordsOf
<1>2. PICK e \in Nat, h \in Nat, k \in Nat :
        e = Cardinality(EffectsOf(d)) /\ h = Cardinality(Having(d, ok)) /\ k = Cardinality(Having(d, done))
  BY <1>1
<1>3. PICK p \in {0, 1}, q \in {0, 1} : p = Making(d, ok) /\ q = Making(d, done)
  BY DEF Making
<1>4. PICK p1 \in {0, 1}, q1 \in {0, 1} : p1 = Making(d, ok)' /\ q1 = Making(d, done)'
  BY DEF Making
<1>5. h + p <= e /\ e <= k + q
  BY <1>2, <1>3, RecordedIs DEF Balanced
<1>6. UNCHANGED effects => Cardinality(EffectsOf(d))' = e
  BY <1>2 DEF EffectsOf
<1>7. UNCHANGED audit => Cardinality(Having(d, ok))' = h /\ Cardinality(Having(d, done))' = k
  BY <1>2 DEF Having, RecordsOf
<1>8. d # c => p1 = p /\ q1 = q
  BY <1>3, <1>4 DEF Making, At
<1>9. effects' = effects \cup {Effect(c)} => Cardinality(EffectsOf(d))' = e + (IF d = c THEN 1 ELSE 0)
  BY <1>2, EffectAdded
<1>10. audit' = audit \cup {RecordOf(c)} =>
         /\ Cardinality(Having(d, ok))' = h + (IF d = c /\ request[c].status \in ok THEN 1 ELSE 0)
         /\ Cardinality(Having(d, done))' = k + (IF d = c /\ request[c].status \in done THEN 1 ELSE 0)
  BY <1>2, RecordAdded
<1> HIDE DEF ok, done
<1>11. PICK e1, h1, k1 : /\ e1 = Cardinality(EffectsOf(d))'
                         /\ h1 = Cardinality(Having(d, ok))' /\ k1 = Cardinality(Having(d, done))'
  OBVIOUS
<1>12. h1 + p1 <= e1 /\ e1 <= k1 + q1
  <2>1. CASE d # c
    <3>1. e1 = e /\ h1 = h /\ k1 = k
      BY <1>6, <1>7, <1>9, <1>10, <1>11, <2>1
    <3>2. QED
      BY <1>5, <1>8, <2>1, <3>1
  <2>2. CASE d = c /\ UNCHANGED <<effects, audit>> /\ ~At(c, "recording")
             /\ (request'[c].pc = "recording" => request'[c].status # "ok")
    <3>1. e1 = e /\ h1 = h /\ k1 = k
      BY <1>6, <1>7, <1>11, <2>2
    <3>2. p = 0 /\ q = 0 /\ p1 = 0
      BY <1>3, <1>4, <2>2 DEF Making, At, ok
    <3>3. QED
      BY <1>2, <1>3, <1>4, <1>5, <3>1, <3>2
  <2>3. CASE /\ d = c /\ effects' = effects \cup {Effect(c)} /\ UNCHANGED audit /\ ~At(c, "recording")
             /\ request'[c].pc = "recording" /\ request'[c].status \in {"ok", "failed"}
    <3>1. e1 = e + 1 /\ h1 = h /\ k1 = k
      BY <1>7, <1>9, <1>11, <2>3
    <3>2. p = 0 /\ q = 0 /\ q1 = 1
      BY <1>3, <1>4, <2>3 DEF Making, At, done
    <3>3. QED
      BY <1>2, <1>3, <1>4, <1>5, <3>1, <3>2
  <2>4. CASE /\ d = c /\ UNCHANGED effects /\ audit' = audit \cup {RecordOf(c)} /\ At(c, "recording")
             /\ request'[c].pc # "recording"
    <3>1. e1 = e /\ h1 = h + p /\ k1 = k + q
      BY <1>3, <1>6, <1>10, <1>11, <2>4 DEF Making
    <3>2. p1 = 0 /\ q1 = 0
      BY <1>4, <2>4 DEF Making, At
    <3>3. QED
      BY <1>2, <1>3, <1>5, <3>1, <3>2
  <2>5. QED
    BY <2>1, <2>2, <2>3, <2>4
<1>13. Recorded(d, ok)' = h1 + p1 /\ Recorded(d, done)' = k1 + q1
  BY <1>4, <1>11, RecordedIs
<1>14. QED
  BY <1>11, <1>12, <1>13 DEF Balanced, ok, done

LEMMA AuditedIs ==
  ASSUME NEW c
  PROVE  /\ Audited <=> Numbered /\ ("mongo" \notin scenario.faults => \A d \in Callers : Balanced(d))
         /\ Audited' <=> Numbered' /\ ("mongo" \notin scenario'.faults => \A d \in Callers : Balanced(d)')
BY DEF Audited, EffectsAudited, Balanced

LEMMA NumberedKept ==
  ASSUME GatewayTypes, Numbered, NEW c \in Callers,
         effects' = effects \/ effects' = effects \cup {Effect(c)},
         audit' = audit \/ audit' = audit \cup {RecordOf(c)}
  PROVE  Numbered'
<1>1. IsFiniteSet(effects') /\ \A e \in effects' : e.nth <= Cardinality(EffectsOf(e.caller))'
  <2>1. CASE effects' = effects
    BY <2>1 DEF Numbered, EffectsOf
  <2>2. QED
    BY <2>1, EffectAdded
<1>2. IsFiniteSet(audit') /\ \A x \in audit' : x.nth <= Cardinality(RecordsOf(x.caller))'
  <2>1. CASE audit' = audit
    BY <2>1 DEF Numbered, RecordsOf
  <2>2. QED
    BY <2>1, RecordAdded
<1>3. QED
  BY <1>1, <1>2 DEF Numbered

LEMMA AuditedKept ==
  ASSUME GatewayTypes, AgentTypes, Lined, Placed, Audited, Alone, [Next]_vars
  PROVE  Audited'
<1>1. Numbered /\ ("mongo" \notin scenario.faults => \A d \in Callers : Balanced(d))
  BY AuditedIs
<1>2. \A c \in Callers : request[c] \in Requests
  BY DEF GatewayTypes
<1>3. ASSUME NEW c \in Callers, UNCHANGED <<scenario, effects, audit>>,
             \A b \in Callers : b # c => request'[b] = request[b],
             request'[c] = request[c] \/ (~At(c, "recording") /\ (request'[c].pc = "recording" => request'[c].status # "ok"))
      PROVE  Audited'
  <2>1. Numbered'
    BY <1>1, <1>3, NumberedKept
  <2>2. ASSUME NEW d \in Callers, Balanced(d) PROVE Balanced(d)'
    <3>1. CASE request'[c] = request[c]
      <4>1. request'[d] = request[d]
        BY <1>3, <3>1
      <4>2. QED
        BY <1>3, <2>2, <4>1 DEF Balanced, Recorded, RecordsOf, EffectsOf, At
    <3>2. CASE ~At(c, "recording") /\ (request'[c].pc = "recording" => request'[c].status # "ok")
      BY <1>1, <1>3, <2>2, <3>2, BalancedKept
    <3>3. QED
      BY <1>3, <3>1, <3>2
  <2>3. QED
    BY <1>1, <1>3, <2>1, <2>2, AuditedIs
<1>4. ASSUME UNCHANGED <<scenario, effects, audit, request>>
      PROVE  Audited'
  <2>1. Numbered'
    BY <1>1, <1>4 DEF Numbered, EffectsOf, RecordsOf
  <2>2. ASSUME NEW d \in Callers, Balanced(d) PROVE Balanced(d)'
    BY <1>4, <2>2 DEF Balanced, Recorded, RecordsOf, EffectsOf, At
  <2>3. QED
    BY <1>1, <1>4, <2>1, <2>2, AuditedIs
<1>5. ASSUME NEW a \in Actors, Handle(a) PROVE Audited'
  <2>1. Handled(a) /\ a \in Callers
    BY <1>5, HandleIs, ActorsCall
  <2>2. CASE UNCHANGED request
    BY <1>4, <2>1, <2>2 DEF Handled
  <2>3. ASSUME At(a, "idle") \/ At(a, "answered"), NEW q, Serves(a, q), Posted(q) PROVE Audited'
    <3>1. q.pc # "recording" /\ request'[a] = q /\ \A b \in Callers : b # a => request'[b] = request[b]
      BY <2>3, Blank DEF Posted, Serves
    <3>2. QED
      BY <1>3, <2>1, <2>3, <3>1 DEF Handled, At
  <2>4. QED
    BY <2>1, <2>2, <2>3 DEF Handled, Requested
<1>6. ASSUME NEW c \in Callers, Call(c) PROVE Audited'
  <2>1. /\ UNCHANGED <<scenario, effects, audit>> /\ (At(c, "idle") \/ At(c, "answered"))
        /\ \E r : Serves(c, r) /\ r.pc = "deciding"
    BY <1>6, CallIs
  <2>2. QED
    BY <1>3, <2>1 DEF Serves, At
<1>7. ASSUME NEW c \in Callers, Serve(c) PROVE Audited'
  <2>1. UNCHANGED scenario /\ \E r : ServedAs(c, r)
    BY <1>7, ServeIs
  <2>2. \A b \in Callers : b # c => request'[b] = request[b]
    BY <2>1 DEF ServedAs, Serves
  <2>3. ASSUME NEW answer, AnswersWith(c, answer), UNCHANGED <<effects, audit>>, ~At(c, "recording") PROVE Audited'
    BY <1>3, <2>1, <2>2, <2>3 DEF AnswersWith, Serves
  <2>4. ASSUME NEW answer, NEW status, RecordsAs(c, status, answer), status # "ok",
               UNCHANGED <<effects, audit>>, ~At(c, "recording")
        PROVE  Audited'
    BY <1>3, <2>1, <2>2, <2>4 DEF RecordsAs, Serves
  <2>5. ASSUME Allows(c) \/ Passes(c) \/ Takes(c), UNCHANGED <<effects, audit>>, ~At(c, "recording") PROVE Audited'
    BY <1>3, <2>1, <2>2, <2>5 DEF Allows, Passes, Takes, Serves
  <2>6. CASE Decide(c)
    BY <2>4, <2>5, <2>6, DecideIs DEF At
  <2>7. CASE DecideFails(c)
    BY <2>3, <2>7, DecideFailsIs DEF At
  <2>8. CASE Meter(c)
    BY <2>4, <2>5, <2>8, MeterIs DEF At
  <2>9. CASE MeterFails(c)
    BY <2>5, <2>9, MeterFailsIs DEF At
  <2>10. CASE OpenApproval(c)
    <3>1. /\ UNCHANGED <<effects, audit>> /\ At(c, "opening")
          /\ \E r : Serves(c, r) /\ r.status = "approval_required"
      BY <2>10, OpenApprovalIs
    <3>2. QED
      BY <1>3, <2>1, <2>2, <3>1 DEF Serves, At
  <2>11. CASE TakeApproval(c)
    BY <2>3, <2>5, <2>11, TakeApprovalIs DEF At
  <2>12. CASE ApprovalFails(c)
    BY <2>3, <2>12, ApprovalFailsIs DEF At
  <2>13. CASE CredentialFails(c)
    BY <2>3, <2>13, CredentialFailsIs DEF At
  <2>14. CASE Execute(c)
    <3>1. /\ UNCHANGED audit /\ At(c, "executing")
          /\ \/ effects' = effects \cup {Effect(c)} /\ RecordsAs(c, "ok", "ok")
             \/ effects' = effects \cup {Effect(c)} /\ RecordsAs(c, "failed", "failed")
             \/ effects' = effects /\ RecordsAs(c, "failed", "failed")
      BY <2>14, ExecuteIs
    <3>2. CASE effects' = effects /\ RecordsAs(c, "failed", "failed")
      BY <2>4, <3>1, <3>2 DEF At
    <3>3. CASE effects' = effects \cup {Effect(c)} /\ (RecordsAs(c, "ok", "ok") \/ RecordsAs(c, "failed", "failed"))
      <4>1. Numbered'
        BY <1>1, <3>1, <3>3, NumberedKept
      <4>2. request'[c].pc = "recording" /\ request'[c].status \in {"ok", "failed"} /\ ~At(c, "recording")
        BY <3>1, <3>3 DEF RecordsAs, Serves, At
      <4>3. \A d \in Callers : Balanced(d) => Balanced(d)'
        BY <1>1, <2>2, <3>1, <3>3, <4>2, BalancedKept
      <4>4. QED
        BY <1>1, <2>1, <4>1, <4>3, AuditedIs
    <3>4. QED
      BY <3>1, <3>2, <3>3
  <2>15. CASE Record(c)
    <3>1. UNCHANGED effects /\ At(c, "recording") /\ audit' = audit \cup {RecordOf(c)} /\ AnswersWith(c, request[c].answer)
      BY <2>15, RecordIs
    <3>2. Numbered'
      BY <1>1, <3>1, NumberedKept
    <3>3. request'[c].pc # "recording"
      BY <3>1 DEF AnswersWith, Serves
    <3>4. \A d \in Callers : Balanced(d) => Balanced(d)'
      BY <1>1, <2>2, <3>1, <3>3, BalancedKept
    <3>5. QED
      BY <1>1, <2>1, <3>2, <3>4, AuditedIs
  <2>16. CASE RecordFails(c)
    <3>1. Numbered' /\ "mongo" \in scenario'.faults
      BY <1>1, <2>1, <2>16, RecordFailsIs, NumberedKept
    <3>2. QED
      BY <3>1, AuditedIs
  <2>17. QED
    BY <1>7, <2>6, <2>7, <2>8, <2>9, <2>10, <2>11, <2>12, <2>13, <2>14, <2>15, <2>16 DEF Serve
<1>8. CASE GatewayNext /\ UNCHANGED agent
  BY <1>4, <1>7, <1>8, ApprovalExpiresIs, BindIs, WindowEndsIs DEF GatewayNext
<1>9. CASE UNCHANGED vars
  BY <1>4, <1>9 DEF vars, gateway
<1>10. QED
  BY <1>5, <1>6, <1>8, <1>9, StepCases

-----------------------------------------------------------------------------
\* Approvals are for what was approved, and each is used once

Kept(i) ==
  /\ i \in DOMAIN approvals' /\ approvals'[i].tool = approvals[i].tool /\ approvals'[i].args = approvals[i].args
  /\ approvals[i].state = "gone" => approvals'[i].state = "gone"
ApprovalsKept == \A i \in DOMAIN approvals : Kept(i)

\* What is needed of a call before the tool runs.
Careful(r) ==
  /\ r.pc \in {"metering", "opening", "taking", "executing"} /\ r.tool \in Risky => r.needs
  /\ r.pc \in {"opening", "taking"} => r.needs
  /\ r.pc = "taking" => r.approval # 0

LEMMA HonouredStep ==
  ASSUME GatewayTypes, Placed, Honoured, NEW c \in Callers, ApprovalsKept,
         \A b \in Callers : b # c => request'[b] = request[b],
         Careful(request'[c]),
         \/ UNCHANGED effects /\ (request'[c].pc = "executing" => ~request'[c].needs)
         \/ /\ UNCHANGED effects /\ request'[c].approval \in DOMAIN approvals
            /\ Matching(request'[c], request'[c].approval)
            /\ approvals[request'[c].approval].state = "pending"
            /\ approvals'[request'[c].approval].state = "gone"
         \/ effects' = effects \cup {Effect(c)} /\ At(c, "executing") /\ request'[c].pc # "executing"
  PROVE  Honoured'
<1>1. DOMAIN approvals = 1 .. Len(approvals) /\ Len(approvals) \in Nat
  BY DEF GatewayTypes
<1>2. PICK r : r = request'[c]
  OBVIOUS
<1>3. ASSUME NEW b \in Callers, At(b, "executing"), request[b].needs
      PROVE  /\ request[b].approval \in DOMAIN approvals /\ Matching(request[b], request[b].approval)
             /\ approvals[request[b].approval].state = "gone"
             /\ \A e \in effects : e.needs => e.approval # request[b].approval
  <2>1. request[b].approval # 0 /\ request[b].approval \in 0 .. Len(approvals)
    BY <1>3 DEF Honoured, HonouredRequest, Placed, PlacedRequest, At
  <2>2. QED
    BY <1>1, <1>3, <2>1 DEF Honoured, HonouredRequest, At
<1>4. ASSUME NEW e \in effects
      PROVE  /\ e.tool \in Risky => e.needs
             /\ e.needs => /\ e.approval \in DOMAIN approvals /\ Matching(e, e.approval)
                           /\ approvals[e.approval].state = "gone"
                           /\ \A f \in effects : f.needs /\ f.approval = e.approval => f = e
  BY DEF Honoured
<1>5. ASSUME NEW x, NEW i \in DOMAIN approvals, Matching(x, i), approvals[i].state = "gone"
      PROVE  Matching(x, i)' /\ approvals'[i].state = "gone" /\ i \in DOMAIN approvals'
  BY <1>5 DEF Matching, ApprovalsKept, Kept
<1>6. ASSUME NEW b \in Callers, b # c, \A e \in effects' : e \in effects \/ (e.approval # request[b].approval \/ ~e.needs \/ ~At(b, "executing") \/ ~request[b].needs)
      PROVE  HonouredRequest(request[b])'
  <2>1. PICK q : q = request[b] /\ q = request'[b]
    BY <1>6
  <2>2. Careful(q) /\ (q.pc = "executing" /\ q.needs => q.approval # 0)
    BY <2>1 DEF Honoured, HonouredRequest, Careful
  <2>3. ASSUME q.pc = "executing", q.needs
        PROVE  /\ Matching(q, q.approval)' /\ approvals'[q.approval].state = "gone"
               /\ \A e \in effects' : e.needs => e.approval # q.approval
    <3>1. q.approval \in DOMAIN approvals /\ Matching(q, q.approval) /\ approvals[q.approval].state = "gone"
          /\ \A e \in effects : e.needs => e.approval # q.approval
      BY <1>3, <2>1, <2>3 DEF At
    <3>2. \A e \in effects' : e \in effects \/ e.approval # q.approval \/ ~e.needs
      BY <1>6, <2>1, <2>3 DEF At
    <3>3. PICK i : i = q.approval
      OBVIOUS
    <3>4. Matching(q, i)' /\ approvals'[i].state = "gone"
      BY <1>5, <3>1, <3>3
    <3>5. QED
      BY <3>1, <3>2, <3>3, <3>4
  <2>4. HonouredRequest(q)'
    BY <2>2, <2>3 DEF HonouredRequest, Careful
  <2>5. QED
    BY <2>1, <2>4
<1>7. ASSUME UNCHANGED effects,
             NEW e \in effects
      PROVE  /\ e.tool \in Risky => e.needs
             /\ e.needs => /\ e.approval \in DOMAIN approvals' /\ Matching(e, e.approval)'
                           /\ approvals'[e.approval].state = "gone"
                           /\ \A f \in effects' : f.needs /\ f.approval = e.approval => f = e
  <2>1. PICK i : i = e.approval
    OBVIOUS
  <2>2. e.needs => i \in DOMAIN approvals' /\ Matching(e, i)' /\ approvals'[i].state = "gone"
    BY <1>4, <1>5, <2>1
  <2>3. QED
    BY <1>4, <1>7, <2>1, <2>2
<1>8. CASE UNCHANGED effects /\ (r.pc = "executing" => ~r.needs)
  <2>1. HonouredRequest(r)'
    BY <1>2, <1>8 DEF HonouredRequest, Careful
  <2>2. HonouredRequest(request[c])'
    BY <1>2, <2>1
  <2>3. \A b \in Callers : HonouredRequest(request[b])'
    BY <1>6, <1>8, <2>2
  <2>4. \A b, d \in Callers :
          At(b, "executing")' /\ request'[b].needs /\ At(d, "executing")' /\ request'[d].needs
          /\ request'[b].approval = request'[d].approval => b = d
    BY <1>2, <1>8 DEF Honoured, At
  <2>5. QED
    BY <1>7, <1>8, <2>3, <2>4 DEF Honoured
<1>9. CASE /\ UNCHANGED effects /\ r.approval \in DOMAIN approvals
           /\ Matching(r, r.approval)
           /\ approvals[r.approval].state = "pending"
           /\ approvals'[r.approval].state = "gone"
  <2>1. PICK i : i = r.approval
    OBVIOUS
  <2>2. \A e \in effects : e.needs => e.approval # i
    BY <1>4, <1>9, <2>1
  <2>3. Matching(r, i)' /\ i # 0
    BY <1>1, <1>9, <2>1 DEF Matching, ApprovalsKept, Kept
  <2>4. HonouredRequest(r)'
    BY <1>2, <1>9, <2>1, <2>2, <2>3 DEF HonouredRequest, Careful
  <2>5. HonouredRequest(request[c])'
    BY <1>2, <2>4
  <2>6. \A b \in Callers : HonouredRequest(request[b])'
    BY <1>6, <1>9, <2>5
  <2>7. \A b \in Callers : b # c /\ At(b, "executing") /\ request[b].needs => request[b].approval # i
    BY <1>3, <1>9, <2>1
  <2>8. \A b, d \in Callers :
          At(b, "executing")' /\ request'[b].needs /\ At(d, "executing")' /\ request'[d].needs
          /\ request'[b].approval = request'[d].approval => b = d
    BY <1>2, <2>1, <2>7 DEF Honoured, At
  <2>9. QED
    BY <1>7, <1>9, <2>6, <2>8 DEF Honoured
<1>10. CASE effects' = effects \cup {Effect(c)} /\ At(c, "executing") /\ r.pc # "executing"
  <2>1. PICK e0 : /\ e0 = Effect(c) /\ e0.needs = request[c].needs /\ e0.approval = request[c].approval
                  /\ e0.tool = request[c].tool /\ e0.args = request[c].args
    BY EffectIs
  <2>2. effects' = effects \cup {e0}
    BY <1>10, <2>1
  <2>3. HonouredRequest(r)'
    BY <1>2, <1>10 DEF HonouredRequest, Careful
  <2>4. HonouredRequest(request[c])'
    BY <1>2, <2>3
  <2>5. ASSUME NEW b \in Callers, b # c PROVE HonouredRequest(request[b])'
    <3>1. At(b, "executing") /\ request[b].needs /\ e0.needs => e0.approval # request[b].approval
      BY <1>10, <2>1, <2>5 DEF Honoured
    <3>2. QED
      BY <1>6, <2>2, <2>5, <3>1
  <2>6. \A b, d \in Callers :
          At(b, "executing")' /\ request'[b].needs /\ At(d, "executing")' /\ request'[d].needs
          /\ request'[b].approval = request'[d].approval => b = d
    BY <1>2, <1>10 DEF Honoured, At
  <2>7. /\ e0.tool \in Risky => e0.needs
        /\ e0.needs => /\ e0.approval \in DOMAIN approvals /\ Matching(e0, e0.approval)
                       /\ approvals[e0.approval].state = "gone"
                       /\ \A e \in effects : e.needs => e.approval # e0.approval
    <3>1. request[c].tool \in Risky => request[c].needs
      BY <1>10 DEF Honoured, HonouredRequest, At
    <3>2. request[c].needs =>
            /\ request[c].approval \in DOMAIN approvals /\ Matching(request[c], request[c].approval)
            /\ approvals[request[c].approval].state = "gone"
            /\ \A e \in effects : e.needs => e.approval # request[c].approval
      BY <1>3, <1>10
    <3>3. Matching(e0, e0.approval) <=> Matching(request[c], request[c].approval)
      BY <2>1 DEF Matching
    <3>4. QED
      BY <2>1, <3>1, <3>2, <3>3
  <2>8. ASSUME NEW e \in effects'
        PROVE  /\ e.tool \in Risky => e.needs
               /\ e.needs => /\ e.approval \in DOMAIN approvals' /\ Matching(e, e.approval)'
                             /\ approvals'[e.approval].state = "gone"
                             /\ \A f \in effects' : f.needs /\ f.approval = e.approval => f = e
    <3>1. PICK i : i = e.approval
      OBVIOUS
    <3>2. e.needs => i \in DOMAIN approvals /\ Matching(e, i) /\ approvals[i].state = "gone"
      BY <1>4, <2>2, <2>7, <3>1
    <3>3. e.needs => i \in DOMAIN approvals' /\ Matching(e, i)' /\ approvals'[i].state = "gone"
      BY <1>5, <3>2
    <3>4. ASSUME e.needs, NEW f \in effects', f.needs, f.approval = i PROVE f = e
      <4>1. e \in effects /\ f \in effects => f = e
        BY <1>4, <3>1, <3>4
      <4>2. QED
        BY <2>2, <2>7, <3>1, <3>4, <4>1
    <3>5. e.tool \in Risky => e.needs
      BY <1>4, <2>2, <2>7
    <3>6. QED
      BY <3>1, <3>3, <3>4, <3>5
  <2>9. QED
    BY <2>4, <2>5, <2>6, <2>8 DEF Honoured
<1>11. QED
  BY <1>2, <1>8, <1>9, <1>10

LEMMA HonouredSame ==
  ASSUME GatewayTypes, Placed, Honoured, ApprovalsKept, UNCHANGED <<request, effects>>
  PROVE  Honoured'
<1>1. DOMAIN approvals = 1 .. Len(approvals) /\ Len(approvals) \in Nat
  BY DEF GatewayTypes
<1>2. ASSUME NEW x, NEW i \in DOMAIN approvals, Matching(x, i), approvals[i].state = "gone"
      PROVE  Matching(x, i)' /\ approvals'[i].state = "gone" /\ i \in DOMAIN approvals'
  BY <1>2 DEF Matching, ApprovalsKept, Kept
<1>3. ASSUME NEW b \in Callers PROVE HonouredRequest(request[b])'
  <2>1. PICK q, i : q = request[b] /\ q = request'[b] /\ i = q.approval
    OBVIOUS
  <2>2. HonouredRequest(q) /\ i \in 0 .. Len(approvals)
    BY <2>1 DEF Honoured, Placed, PlacedRequest
  <2>3. q.pc = "executing" /\ q.needs => Matching(q, i)' /\ approvals'[i].state = "gone"
    BY <1>1, <1>2, <2>1, <2>2 DEF HonouredRequest
  <2>4. HonouredRequest(q)'
    BY <2>1, <2>2, <2>3 DEF HonouredRequest
  <2>5. QED
    BY <2>1, <2>4
<1>4. ASSUME NEW e \in effects, e.needs
      PROVE  e.approval \in DOMAIN approvals' /\ Matching(e, e.approval)' /\ approvals'[e.approval].state = "gone"
  <2>1. PICK i : i = e.approval
    OBVIOUS
  <2>2. i \in DOMAIN approvals' /\ Matching(e, i)' /\ approvals'[i].state = "gone"
    BY <1>2, <1>4, <2>1 DEF Honoured
  <2>3. QED
    BY <2>1, <2>2
<1>5. QED
  BY <1>3, <1>4 DEF Honoured, At

LEMMA ApprovalsAre ==
  ASSUME GatewayTypes
  PROVE  /\ UNCHANGED approvals => ApprovalsKept
         /\ \A i : TakenAt(i) => ApprovalsKept
BY DEF GatewayTypes, ApprovalsKept, Kept, TakenAt

\* Who opens, takes and spends an approval.
LEMMA HonouredKept ==
  ASSUME GatewayTypes, AgentTypes, Lined, Placed, Honoured, Alone, [Next]_vars
  PROVE  Honoured'
<1>1. ASSUME UNCHANGED <<request, effects>>, UNCHANGED approvals \/ \E i : TakenAt(i) PROVE Honoured'
  BY <1>1, ApprovalsAre, HonouredSame
<1>2. ASSUME NEW c \in Callers, NEW r, Serves(c, r), UNCHANGED effects, ApprovalsKept,
             r.pc \notin {"metering", "opening", "taking", "executing"}
      PROVE  Honoured'
  <2>1. request'[c] = r /\ (\A b \in Callers : b # c => request'[b] = request[b]) /\ Careful(r)
    BY <1>2 DEF Serves, Careful
  <2>2. QED
    BY <1>2, <2>1, HonouredStep
<1>3. ASSUME NEW a \in Actors, Handle(a) PROVE Honoured'
  <2>1. UNCHANGED <<approvals, effects>> /\ Requested(a) /\ a \in Callers
    BY <1>3, HandleIs, ActorsCall DEF Handled
  <2>2. ASSUME NEW q, Serves(a, q), Posted(q) PROVE Honoured'
    BY <1>2, <2>1, <2>2, ApprovalsAre, Blank DEF Posted
  <2>3. QED
    BY <1>1, <2>1, <2>2 DEF Requested
<1>4. ASSUME NEW c \in Callers, Call(c) PROVE Honoured'
  <2>1. UNCHANGED <<approvals, effects>> /\ \E r : Serves(c, r) /\ r.pc = "deciding"
    BY <1>4, CallIs
  <2>2. QED
    BY <1>2, <2>1, ApprovalsAre
<1>5. ASSUME NEW c \in Callers, Serve(c) PROVE Honoured'
  <2>1. ASSUME NEW answer, AnswersWith(c, answer), UNCHANGED effects, ApprovalsKept PROVE Honoured'
    BY <1>2, <2>1 DEF AnswersWith
  <2>2. ASSUME NEW answer, NEW status, RecordsAs(c, status, answer), UNCHANGED effects, ApprovalsKept PROVE Honoured'
    BY <1>2, <2>2 DEF RecordsAs
  <2>3. HonouredRequest(request[c])
    BY DEF Honoured
  <2>4. CASE Decide(c)
    <3>1. UNCHANGED <<approvals, effects>> /\ ApprovalsKept
      BY <2>4, DecideIs, ApprovalsAre
    <3>2. CASE Allows(c)
      <4>1. PICK r : Serves(c, r) /\ Same(request[c], r) /\ r.pc = "metering" /\ r.needs = RequiresApproval(request[c].tool)
        BY <3>2 DEF Allows
      <4>2. request'[c] = r /\ (\A b \in Callers : b # c => request'[b] = request[b])
        BY <4>1 DEF Serves
      <4>3. r.tool \in Risky => r.needs
        BY <4>1 DEF RequiresApproval, Same
      <4>4. Careful(r)
        BY <4>1, <4>3 DEF Careful
      <4>5. QED
        BY <3>1, <4>1, <4>2, <4>4, HonouredStep
    <3>3. QED
      BY <2>2, <2>4, <3>1, <3>2, DecideIs
  <2>5. CASE DecideFails(c)
    BY <2>1, <2>5, DecideFailsIs, ApprovalsAre
  <2>6. ASSUME Passes(c), At(c, "metering"), UNCHANGED <<approvals, effects>> PROVE Honoured'
    <3>1. PICK r : /\ Serves(c, r) /\ Same(request[c], r)
                   /\ r.pc = IF ~request[c].needs THEN "executing" ELSE IF request[c].approval = 0 THEN "opening" ELSE "taking"
                   /\ r.approval = request[c].approval /\ r.needs = request[c].needs
      BY <2>6 DEF Passes
    <3>2. request'[c] = r /\ (\A b \in Callers : b # c => request'[b] = request[b])
      BY <3>1 DEF Serves
    <3>3. request[c].tool \in Risky => request[c].needs
      BY <2>3, <2>6 DEF HonouredRequest, At
    <3>4. Careful(r) /\ (r.pc = "executing" => ~r.needs)
      BY <3>1, <3>3 DEF Careful, Same
    <3>5. QED
      BY <2>6, <3>2, <3>4, ApprovalsAre, HonouredStep
  <2>7. CASE Meter(c)
    BY <2>2, <2>6, <2>7, MeterIs, ApprovalsAre
  <2>8. CASE MeterFails(c)
    BY <2>6, <2>8, MeterFailsIs
  <2>9. CASE OpenApproval(c)
    <3>1. /\ UNCHANGED effects /\ \A i \in DOMAIN approvals : i \in DOMAIN approvals' /\ approvals'[i] = approvals[i]
      <4>1. Len(approvals) \in Nat
        BY DEF GatewayTypes
      <4>2. PICK n \in Nat : n = Len(approvals)
        BY <4>1
      <4>3. \A i \in 1 .. n : i \in 1 .. n + 1
        BY <4>2
      <4>4. QED
        BY <2>9, <4>2, <4>3, OpenApprovalIs
    <3>2. ApprovalsKept
      BY <3>1 DEF ApprovalsKept, Kept
    <3>3. \E r : Serves(c, r) /\ r.pc = "recording"
      BY <2>9, OpenApprovalIs
    <3>4. QED
      BY <1>2, <3>1, <3>2, <3>3
  <2>10. CASE TakeApproval(c)
    <3>1. UNCHANGED effects /\ At(c, "taking") /\ TakenAt(request[c].approval)
      BY <2>10, TakeApprovalIs
    <3>2. CASE Takes(c)
      <4>1. PICK r : Serves(c, r) /\ Same(request[c], r) /\ r.pc = "executing"
                     /\ r.approval = request[c].approval /\ r.needs = request[c].needs
        BY <3>2 DEF Takes
      <4>2. request'[c] = r /\ (\A b \in Callers : b # c => request'[b] = request[b])
        BY <4>1 DEF Serves
      <4>3. request[c].needs /\ request[c].approval # 0
        BY <2>3, <3>1 DEF HonouredRequest, At
      <4>4. r.approval \in DOMAIN approvals
        <5>1. request[c].approval \in 0 .. Len(approvals)
          BY DEF Placed, PlacedRequest
        <5>2. QED
          BY <4>1, <4>3, <5>1 DEF GatewayTypes
      <4>5. /\ Matching(r, r.approval) /\ approvals[r.approval].state = "pending"
            /\ approvals'[r.approval].state = "gone"
        BY <3>1, <3>2, <4>1, <4>4 DEF Takes, Matching, Same, TakenAt
      <4>6. Careful(r)
        BY <4>1, <4>3 DEF Careful
      <4>7. QED
        BY <3>1, <4>2, <4>4, <4>5, <4>6, ApprovalsAre, HonouredStep
    <3>3. QED
      BY <2>1, <2>10, <3>1, <3>2, TakeApprovalIs, ApprovalsAre
  <2>11. CASE ApprovalFails(c)
    BY <2>1, <2>11, ApprovalFailsIs, ApprovalsAre
  <2>12. CASE CredentialFails(c)
    BY <2>1, <2>12, CredentialFailsIs, ApprovalsAre
  <2>13. CASE Execute(c)
    <3>1. /\ UNCHANGED approvals /\ At(c, "executing")
          /\ \E status, answer : RecordsAs(c, status, answer)
          /\ effects' = effects \cup {Effect(c)} \/ effects' = effects
      BY <2>13, ExecuteIs
    <3>2. ApprovalsKept
      BY <3>1, ApprovalsAre
    <3>3. PICK r : Serves(c, r) /\ r.pc = "recording"
      BY <3>1 DEF RecordsAs
    <3>4. request'[c] = r /\ (\A b \in Callers : b # c => request'[b] = request[b]) /\ Careful(r)
      BY <3>3 DEF Serves, Careful
    <3>5. QED
      BY <3>1, <3>2, <3>3, <3>4, HonouredStep
  <2>14. CASE Record(c)
    BY <2>1, <2>14, RecordIs, ApprovalsAre
  <2>15. CASE RecordFails(c)
    BY <2>1, <2>2, <2>15, RecordFailsIs, ApprovalsAre
  <2>16. QED
    BY <1>5, <2>4, <2>5, <2>7, <2>8, <2>9, <2>10, <2>11, <2>12, <2>13, <2>14, <2>15 DEF Serve
<1>6. CASE GatewayNext /\ UNCHANGED agent
  BY <1>1, <1>5, <1>6, ApprovalExpiresIs, BindIs, WindowEndsIs DEF GatewayNext
<1>7. CASE UNCHANGED vars
  BY <1>1, <1>7 DEF vars, gateway
<1>8. QED
  BY <1>3, <1>4, <1>6, <1>7, StepCases

-----------------------------------------------------------------------------
\* What a human's approval stands for

SignsGrow == \A k \in DOMAIN asked : Signs(k) => Signs(k)'
SignsFit ==
  /\ \A k \in DOMAIN asked : Signs(k) => asked[k].held
  /\ scenario.unique => \A k \in DOMAIN asked : asked[k].signed \subseteq {k}

LEMMA SignsKept ==
  ASSUME GatewayTypes, AgentTypes, SignsFit, scenario' = scenario
  PROVE  /\ UNCHANGED asked => SignsGrow /\ SignsFit'
         /\ \A calls \in Seq(CallRecords) : AskedMore(calls) => SignsGrow /\ SignsFit'
         /\ \A key, who : /\ SignedBy(key, who) /\ (scenario.unique => who = key)
                          /\ key \in DOMAIN asked => asked[key].held
                          => SignsGrow /\ SignsFit' /\ (key \in DOMAIN asked => Signs(key)')
<1>1. UNCHANGED asked => SignsGrow /\ SignsFit'
  BY DEF SignsGrow, SignsFit, Signs
<1>2. ASSUME NEW calls \in Seq(CallRecords), AskedMore(calls) PROVE SignsGrow /\ SignsFit'
  BY <1>2 DEF AskedMore, SignsGrow, SignsFit, Signs
<1>3. ASSUME NEW key, NEW who, SignedBy(key, who), scenario.unique => who = key, key \in DOMAIN asked => asked[key].held
      PROVE  SignsGrow /\ SignsFit' /\ (key \in DOMAIN asked => Signs(key)')
  <2>1. /\ DOMAIN asked' = DOMAIN asked
        /\ \A k \in DOMAIN asked :
             /\ asked'[k].held = asked[k].held
             /\ k # key => asked'[k].signed = asked[k].signed
             /\ k = key => asked'[k].signed = asked[k].signed \cup {who}
    BY <1>3 DEF SignedBy
  <2>2. SignsGrow /\ (key \in DOMAIN asked => Signs(key)')
    BY <2>1 DEF SignsGrow, Signs
  <2>3. SignsFit'
    <3>1. \A k \in DOMAIN asked : asked'[k].signed # {} => asked'[k].held
      BY <1>3, <2>1 DEF SignsFit, Signs
    <3>2. scenario.unique => \A k \in DOMAIN asked : asked'[k].signed \subseteq {k}
      BY <1>3, <2>1 DEF SignsFit
    <3>3. QED
      BY <2>1, <3>1, <3>2 DEF SignsFit, Signs
  <2>4. QED
    BY <2>2, <2>3
<1>4. QED
  BY <1>1, <1>2, <1>3

SignedActor(r) == r.pc = "invoking" /\ r.approved => Signs(r.call.key)
SignedRequest(r) ==
  r.for # 0 /\ r.approval # 0 /\ r.pc \in {"deciding", "metering", "taking", "executing"} => Signs(r.for)
SignedEffect(e) == e.needs /\ e.for # 0 => Signs(e.for)

LEMMA SignedIs ==
  /\ Signed <=> /\ SignsFit
                /\ \A a \in Actors : SignedActor(actor[a])
                /\ \A c \in Callers : SignedRequest(request[c])
                /\ \A e \in effects : SignedEffect(e)
  /\ Signed' <=> /\ SignsFit'
                 /\ \A a \in Actors : SignedActor(actor[a])'
                 /\ \A c \in Callers : SignedRequest(request[c])'
                 /\ \A e \in effects' : SignedEffect(e)'
BY DEF Signed, SignsFit, SignedActor, SignedRequest, SignedEffect, On

\* What was signed for stays signed for.
LEMMA SignedStays ==
  ASSUME GatewayTypes, AgentTypes, Lined, Placed, SignsGrow
  PROVE  /\ \A a \in Actors : SignedActor(actor[a]) /\ actor'[a] = actor[a] => SignedActor(actor[a])'
         /\ \A c \in Callers : SignedRequest(request[c]) /\ request'[c] = request[c] => SignedRequest(request[c])'
         /\ \A e \in effects : SignedEffect(e) => SignedEffect(e)'
<1>1. \A k : k \in 0 .. Len(asked) /\ k # 0 => k \in DOMAIN asked
  BY DEF AgentTypes
<1>2. ASSUME NEW k \in DOMAIN asked, Signs(k) PROVE Signs(k)'
  BY <1>2 DEF SignsGrow
<1>3. ASSUME NEW a \in Actors, SignedActor(actor[a]), actor'[a] = actor[a] PROVE SignedActor(actor[a])'
  <2>1. PICK r, k : r = actor[a] /\ r = actor'[a] /\ k = r.call.key
    BY <1>3
  <2>2. r.pc = "invoking" => k \in DOMAIN asked
    BY <2>1, LineIs DEF ActorInLine, Known
  <2>3. r.pc = "invoking" /\ r.approved => Signs(k)'
    BY <1>2, <1>3, <2>1, <2>2 DEF SignedActor
  <2>4. SignedActor(r)'
    BY <2>1, <2>3 DEF SignedActor
  <2>5. QED
    BY <2>1, <2>4
<1>4. ASSUME NEW c \in Callers, SignedRequest(request[c]), request'[c] = request[c] PROVE SignedRequest(request[c])'
  <2>1. PICK r, k : r = request[c] /\ r = request'[c] /\ k = r.for
    BY <1>4
  <2>2. k # 0 => k \in DOMAIN asked
    BY <1>1, <2>1 DEF Placed, PlacedRequest
  <2>3. k # 0 /\ Signs(k) => Signs(k)'
    BY <1>2, <2>2
  <2>4. SignedRequest(r)'
    BY <1>4, <2>1, <2>3 DEF SignedRequest
  <2>5. QED
    BY <2>1, <2>4
<1>5. ASSUME NEW e \in effects, SignedEffect(e) PROVE SignedEffect(e)'
  <2>1. PICK k : k = e.for
    OBVIOUS
  <2>2. k # 0 => k \in DOMAIN asked
    BY <1>1, <2>1 DEF Placed
  <2>3. k # 0 /\ Signs(k) => Signs(k)'
    BY <1>2, <2>2
  <2>4. QED
    BY <1>5, <2>1, <2>3 DEF SignedEffect
<1>6. QED
  BY <1>3, <1>4, <1>5

\* Who goes on with a call that waited was shown that call.
LEMMA ShownIs ==
  ASSUME GatewayTypes, AgentTypes, Lined, NEW a \in Actors, On(a, "loading")
  PROVE  LET o == actor[a] IN
         /\ o.state.pending.key \in DOMAIN asked /\ asked[o.state.pending.key].held
         /\ scenario.unique => o.shown.key = o.state.pending.key
<1>1. PICK call, shown : call = actor[a].state.pending /\ shown = actor[a].shown
  OBVIOUS
<1>2. /\ Known(call) /\ call.held /\ (shown = NoCall \/ Known(shown)) /\ call.id = shown.id
  BY <1>1, LineIs DEF ActorInLine, On, Holding
<1>3. call.key \in DOMAIN asked /\ asked[call.key].held
  BY <1>2 DEF Known
<1>4. 0 \notin DOMAIN asked
  BY DEF AgentTypes
<1>5. scenario.unique => shown.key = call.key
  BY <1>2, <1>3, <1>4, Blank DEF Known
<1>6. QED
  BY <1>1, <1>3, <1>5

LEMMA SignedKept ==
  ASSUME GatewayTypes, AgentTypes, Lined, Placed, Honoured, Signed, Alone, [Next]_vars
  PROVE  Signed'
<1>1. /\ SignsFit /\ \A a \in Actors : SignedActor(actor[a])
      /\ \A c \in Callers : SignedRequest(request[c])
      /\ \A e \in effects : SignedEffect(e)
  BY SignedIs
<1>2. ASSUME UNCHANGED <<actor, asked, scenario>>,
             \A c \in Callers : request'[c] = request[c] \/ SignedRequest(request[c])',
             \A e \in effects' : e \in effects \/ SignedEffect(e)'
      PROVE  Signed'
  <2>1. SignsGrow /\ SignsFit'
    BY <1>1, <1>2, SignsKept
  <2>2. (\A a \in Actors : SignedActor(actor[a])') /\ (\A c \in Callers : SignedRequest(request[c])')
    BY <1>1, <1>2, <2>1, SignedStays
  <2>3. \A e \in effects' : SignedEffect(e)'
    BY <1>1, <1>2, <2>1, SignedStays
  <2>4. QED
    BY <2>1, <2>2, <2>3, SignedIs
<1>3. ASSUME NEW a \in Actors, Handle(a) PROVE Signed'
  <2>1. scenario' = scenario /\ effects' = effects /\ a \in Callers
    BY <1>3, HandleIs, ActorsCall DEF Handled
  <2>2. \A b \in Actors : b # a => actor'[b] = actor[b]
    BY <1>3, HandleIs DEF Handled, Becomes
  <2>3. ASSUME SignsGrow, SignsFit', SignedActor(actor[a])',
               SignedRequest(request[a])' \/ request'[a] = request[a],
               \A c \in Callers : c # a => request'[c] = request[c]
        PROVE  Signed'
    <3>1. \A b \in Actors : SignedActor(actor[b])'
      BY <1>1, <2>2, <2>3, SignedStays
    <3>2. \A c \in Callers : SignedRequest(request[c])'
      BY <1>1, <2>1, <2>3, SignedStays
    <3>3. \A e \in effects' : SignedEffect(e)'
      BY <1>1, <2>1, <2>3, SignedStays
    <3>4. QED
      BY <2>3, <3>1, <3>2, <3>3, SignedIs
  <2>4. CASE GoesOn(a)
    <3>1. SignsGrow /\ SignsFit'
      BY <1>1, <2>1, <2>4, SignsKept DEF GoesOn
    <3>2. SignedActor(actor[a])'
      BY <2>4 DEF GoesOn, Becomes, SignedActor
    <3>3. QED
      BY <2>3, <2>4, <3>1, <3>2, ActorsCall DEF GoesOn
  <2>5. CASE Dies(a)
    <3>1. SignsGrow /\ SignsFit'
      BY <1>1, <2>1, <2>5, SignsKept DEF Dies
    <3>2. SignedActor(actor[a])'
      BY <2>5 DEF Dies, Becomes, SignedActor
    <3>3. QED
      BY <2>3, <2>5, <3>1, <3>2 DEF Dies
  <2>6. CASE TakesAnswer(a)
    <3>1. SignsGrow /\ SignsFit'
      BY <1>1, <2>1, <2>6, SignsKept DEF TakesAnswer
    <3>2. SignedActor(actor[a])'
      BY <2>6 DEF TakesAnswer, Becomes, SignedActor
    <3>3. request'[a] = Quiet /\ \A c \in Callers : c # a => request'[c] = request[c]
      BY <2>1, <2>6 DEF TakesAnswer, QuietAgain, Serves
    <3>4. SignedRequest(request[a])'
      BY <3>3, Blank DEF SignedRequest
    <3>5. QED
      BY <2>3, <3>1, <3>2, <3>3, <3>4
  <2>7. ASSUME NEW call, NEW approval, NEW approved, PutsFor(a, call, approval, approved),
               SignsGrow, SignsFit', approved \/ approval # 0 => Signs(call.key)'
        PROVE  Signed'
    <3>1. PICK r, q : /\ Becomes(a, r) /\ r.pc = "invoking" /\ r.call = call /\ r.approved = approved
                      /\ Serves(a, q) /\ q.for = call.key /\ q.approval = approval
      BY <2>7 DEF PutsFor, PostedFor
    <3>2. r = actor'[a] /\ q = request'[a] /\ \A c \in Callers : c # a => request'[c] = request[c]
      BY <3>1 DEF Becomes, Serves
    <3>3. SignedActor(r)' /\ SignedRequest(q)'
      BY <2>7, <3>1 DEF SignedActor, SignedRequest
    <3>4. SignedActor(actor[a])' /\ SignedRequest(request[a])'
      BY <3>2, <3>3
    <3>5. QED
      BY <2>3, <2>7, <3>2, <3>4
  <2>8. CASE PutsFirst(a)
    BY <1>1, <2>1, <2>7, <2>8, SignsKept DEF PutsFirst
  <2>9. CASE PutsAgain(a)
    <3>1. PICK call, k, approval : call = actor[a].call /\ k = call.key /\ approval = request[a].approval
      OBVIOUS
    <3>2. SignsGrow /\ SignsFit' /\ PutsFor(a, call, approval, FALSE)
      BY <1>1, <2>1, <2>9, <3>1, SignsKept DEF PutsAgain
    <3>3. Signs(k) /\ k \in DOMAIN asked
      BY <1>1, <2>9, <3>1, LineIs DEF PutsAgain, SignedActor, On, ActorInLine, Known
    <3>4. Signs(k)'
      BY <3>2, <3>3 DEF SignsGrow
    <3>5. QED
      BY <2>7, <3>1, <3>2, <3>4
  <2>10. CASE PutsSigned(a)
    <3>1. PICK call, k, who : call = actor[a].state.pending /\ k = call.key /\ who = actor[a].shown.key
      OBVIOUS
    <3>2. who \in Nat
      BY <3>1, LineIs, ActorIs DEF CallRecords
    <3>3. SignedBy(k, who) /\ PutsFor(a, call, 0, TRUE)
      BY <2>10, <3>1, <3>2, CarriesSigns DEF PutsSigned
    <3>4. k \in DOMAIN asked /\ asked[k].held /\ (scenario.unique => who = k)
      BY <2>10, <3>1, ShownIs DEF PutsSigned
    <3>5. SignsGrow /\ SignsFit' /\ Signs(k)'
      BY <1>1, <2>1, <3>3, <3>4, SignsKept
    <3>6. QED
      BY <2>7, <3>1, <3>3, <3>5
  <2>11. QED
    BY <1>3, <2>4, <2>5, <2>6, <2>8, <2>9, <2>10, HandlePlaces DEF Puts
<1>4. ASSUME NEW c \in Callers, Call(c) PROVE Signed'
  <2>1. PICK r : Serves(c, r) /\ r.for = 0
    BY <1>4, CallIs
  <2>2. SignedRequest(request[c])' /\ \A d \in Callers : d # c => request'[d] = request[d]
    BY <2>1 DEF Serves, SignedRequest
  <2>3. QED
    BY <1>2, <1>4, <2>2, CallIs
<1>5. ASSUME NEW c \in Callers, Serve(c), UNCHANGED agent PROVE Signed'
  <2>1. PICK r : ServedAs(c, r)
    BY <1>5, ServeIs
  <2>2. r = request'[c] /\ \A d \in Callers : d # c => request'[d] = request[d]
    BY <2>1 DEF ServedAs, Serves
  <2>3. UNCHANGED <<actor, asked, scenario>>
    BY <1>5, ServeIs DEF agent
  <2>4. PICK o : o = request[c] /\ SignedRequest(o) /\ HonouredRequest(o)
    BY <1>1 DEF Honoured
  <2>5. SignedRequest(r)
    BY <2>1, <2>4 DEF ServedAs, SignedRequest, Same
  <2>6. SignedRequest(r)'
    BY <2>3, <2>5 DEF SignedRequest, Signs
  <2>7. ASSUME NEW e \in effects', e \notin effects PROVE SignedEffect(e)'
    <3>1. e = Effect(c) /\ o.pc = "executing"
      BY <2>1, <2>4, <2>7 DEF ServedAs, At
    <3>2. e.needs = o.needs /\ e.for = o.for
      BY <2>4, <3>1, EffectIs
    <3>3. SignedEffect(e)
      BY <2>4, <3>1, <3>2 DEF SignedEffect, SignedRequest, HonouredRequest
    <3>4. QED
      BY <2>3, <3>3 DEF SignedEffect, Signs
  <2>8. SignedRequest(request[c])'
    BY <2>2, <2>6
  <2>9. QED
    BY <1>2, <2>2, <2>3, <2>7, <2>8
<1>6. CASE GatewayNext /\ UNCHANGED agent
  <2>1. ASSUME UNCHANGED <<scenario, request, effects>> PROVE Signed'
    BY <1>2, <1>6, <2>1 DEF agent
  <2>2. QED
    BY <1>5, <1>6, <2>1, ApprovalExpiresIs, BindIs, WindowEndsIs DEF GatewayNext
<1>7. CASE UNCHANGED vars
  BY <1>2, <1>7 DEF vars, gateway, agent
<1>8. QED
  BY <1>3, <1>4, <1>6, <1>7, StepCases

-----------------------------------------------------------------------------
\* What is approved is done, where nothing is in its way

LEMMA CalmIs ==
  ASSUME GatewayTypes, AgentTypes, Lined, Placed, Alone, [Next]_vars, scenario.calm
  PROVE  /\ scenario' = scenario /\ bindings' = bindings /\ scenario.faults = {} /\ scenario.outside = {}
         /\ \/ \E a \in Actors : Handle(a)
            \/ \E c \in Callers : /\ UNCHANGED agent
                                  /\ \/ Decide(c) \/ Meter(c) \/ OpenApproval(c) \/ TakeApproval(c)
                                     \/ Execute(c) \/ Record(c)
            \/ UNCHANGED vars
<1>1. scenario.faults = {} /\ scenario.binds = <<>> /\ scenario.posts = {} /\ scenario.outside = {}
  BY ScenarioTypes
<1>2. ASSUME NEW c \in Callers, Call(c) PROVE FALSE
  BY <1>1, <1>2, CallIs
<1>3. ASSUME NEW c \in Callers, Serve(c)
      PROVE  Decide(c) \/ Meter(c) \/ OpenApproval(c) \/ TakeApproval(c) \/ Execute(c) \/ Record(c)
  BY <1>1, <1>3, DecideFailsIs, MeterFailsIs, ApprovalFailsIs, CredentialFailsIs, RecordFailsIs DEF Serve
<1>4. ASSUME GatewayNext PROVE \E c \in Callers : Serve(c)
  BY <1>1, <1>4, ApprovalExpiresIs, BindIs, WindowEndsIs DEF GatewayNext
<1>5. QED
  BY <1>1, <1>2, <1>3, <1>4, BindingsKept, StepCases

\* What a request of a calm gateway can rely on.
CalmRequest(r) ==
  /\ r.pc = "metering" => r.limit = bindings[r.tool].rate
  /\ Ready(r) => Matching(r, r.approval) /\ approvals[r.approval].state = "pending"

LEMMA CalmStep ==
  ASSUME GatewayTypes, Placed, CalmGateway, NEW c \in Callers, NEW r, Serves(c, r), bindings' = bindings,
         \A i \in DOMAIN approvals : approvals'[i] = approvals[i] \/ (i = request[c].approval),
         r.approval # 0 => \A d \in Callers : d # c => request[d].approval # r.approval,
         CalmRequest(r)'
  PROVE  CalmGateway'
<1>1. request'[c] = r /\ \A d \in Callers : d # c => request'[d] = request[d]
  BY DEF Serves
<1>2. ASSUME NEW d \in Callers PROVE CalmRequest(request[d])'
  <2>1. CASE d = c
    BY <1>1, <2>1
  <2>2. CASE d # c
    <3>1. PICK q, i : q = request[d] /\ q = request'[d] /\ i = q.approval
      BY <1>1, <2>2
    <3>2. CalmRequest(q) /\ i \in 0 .. Len(approvals)
      BY <3>1 DEF CalmGateway, CalmRequest, Placed, PlacedRequest
    <3>3. Ready(q) => approvals'[i] = approvals[i]
      <4>1. Ready(q) => i \in DOMAIN approvals /\ i # 0
        BY <3>1, <3>2 DEF Ready, GatewayTypes
      <4>2. i # 0 => i # request[c].approval
        BY <2>2, <3>1 DEF CalmGateway
      <4>3. QED
        BY <4>1, <4>2
    <3>4. CalmRequest(q)'
      BY <3>1, <3>2, <3>3 DEF CalmRequest, Ready, Matching
    <3>5. QED
      BY <3>1, <3>4
  <2>3. QED
    BY <2>1, <2>2
<1>3. \A d, e \in Callers : request'[d].approval # 0 /\ request'[d].approval = request'[e].approval => d = e
  BY <1>1 DEF CalmGateway
<1>4. QED
  BY <1>2, <1>3 DEF CalmGateway, CalmRequest

LEMMA CalmSame ==
  ASSUME CalmGateway, UNCHANGED <<request, bindings, approvals>>
  PROVE  CalmGateway'
<1>1. ASSUME NEW d \in Callers PROVE CalmRequest(request[d])'
  <2>1. PICK q : q = request[d] /\ q = request'[d]
    OBVIOUS
  <2>2. CalmRequest(q)
    BY <2>1 DEF CalmGateway, CalmRequest
  <2>3. CalmRequest(q)'
    BY <2>2 DEF CalmRequest, Ready, Matching
  <2>4. QED
    BY <2>1, <2>3
<1>2. QED
  BY <1>1 DEF CalmGateway, CalmRequest

LEMMA CalmGatewayKept ==
  ASSUME GatewayTypes, AgentTypes, Lined, Placed, Alone, [Next]_vars, scenario.calm, CalmGateway
  PROVE  CalmGateway'
<1>1. bindings' = bindings
  BY CalmIs
<1>2. ASSUME NEW c \in Callers, NEW r, Serves(c, r), UNCHANGED approvals,
             r.approval # 0 => r.approval = request[c].approval /\ (Ready(r) => Matching(r, r.approval) /\ Ready(request[c])),
             r.pc = "metering" => r.limit = bindings[r.tool].rate
      PROVE  CalmGateway'
  <2>1. r.approval # 0 => \A d \in Callers : d # c => request[d].approval # r.approval
    BY <1>2 DEF CalmGateway
  <2>2. Ready(r) => Matching(r, r.approval) /\ approvals[r.approval].state = "pending"
    <3>1. Ready(r) => r.approval # 0
      BY DEF Ready
    <3>2. Ready(request[c]) => approvals[request[c].approval].state = "pending"
      BY DEF CalmGateway
    <3>3. QED
      BY <1>2, <3>1, <3>2
  <2>3. CalmRequest(r)'
    BY <1>1, <1>2, <2>2 DEF CalmRequest, Ready, Matching
  <2>4. QED
    BY <1>1, <1>2, <2>1, <2>3, CalmStep
<1>3. ASSUME NEW c \in Callers, NEW r, Serves(c, r), Same(request[c], r), UNCHANGED approvals,
             r.approval = request[c].approval, Ready(r) => Ready(request[c]),
             r.pc = "metering" => r.limit = bindings[r.tool].rate
      PROVE  CalmGateway'
  <2>1. Ready(r) => Matching(r, r.approval)
    BY <1>3 DEF CalmGateway, Matching, Same
  <2>2. QED
    BY <1>2, <1>3, <2>1
<1>4. ASSUME NEW a \in Actors, Handle(a) PROVE CalmGateway'
  <2>1. UNCHANGED approvals /\ a \in Callers
    BY <1>4, HandleIs, ActorsCall DEF Handled
  <2>2. CASE UNCHANGED request
    BY <1>1, <2>1, <2>2, CalmSame
  <2>3. CASE TakesAnswer(a)
    BY <1>2, <2>1, <2>3, Blank DEF TakesAnswer, QuietAgain
  <2>4. ASSUME NEW call, NEW approved, PutsFor(a, call, 0, approved) PROVE CalmGateway'
    BY <1>2, <2>1, <2>4 DEF PutsFor, PostedFor
  <2>5. CASE PutsAgain(a)
    <3>1. PICK r : /\ Serves(a, r) /\ r.pc = "deciding" /\ r.tool = actor[a].call.tool /\ r.args = actor[a].call.args
                   /\ r.approval = request[a].approval
      BY <2>5 DEF PutsAgain, PutsFor, PostedFor
    <3>2. r.tool = request[a].tool /\ r.args = request[a].args /\ request[a].answer = "held"
      BY <2>5, <3>1 DEF PutsAgain, Placed, PlacedActor
    <3>3. Ready(r) => Ready(request[a]) /\ Matching(r, r.approval)
      BY <2>1, <3>1, <3>2 DEF Ready, CalmGateway, Matching
    <3>4. QED
      BY <1>2, <2>1, <3>1, <3>3
  <2>6. QED
    BY <1>4, <2>2, <2>3, <2>4, <2>5, HandlePlaces DEF GoesOn, Dies, Puts, PutsFirst, PutsSigned
<1>5. ASSUME NEW c \in Callers PROVE request[c].pc \in {"deciding", "metering", "opening", "taking", "executing"} => request[c].answer = "none"
  BY DEF Placed, PlacedRequest
<1>6. ASSUME NEW c \in Callers, Decide(c) PROVE CalmGateway'
  <2>1. UNCHANGED approvals /\ At(c, "deciding")
    BY <1>6, DecideIs
  <2>2. CASE Allows(c)
    <3>1. PICK r : /\ Serves(c, r) /\ Same(request[c], r) /\ r.pc = "metering" /\ r.answer = request[c].answer
                   /\ r.approval = request[c].approval /\ r.limit = bindings[request[c].tool].rate
      BY <2>2 DEF Allows
    <3>2. Ready(r) => Ready(request[c])
      BY <2>1, <3>1 DEF Ready, At
    <3>3. QED
      BY <1>3, <2>1, <3>1, <3>2 DEF Same
  <2>3. ASSUME NEW status, NEW answer, RecordsAs(c, status, answer), answer # "held" PROVE CalmGateway'
    <3>1. PICK r : /\ Serves(c, r) /\ Same(request[c], r) /\ r.pc = "recording" /\ r.answer = answer
                   /\ r.approval = request[c].approval
      BY <2>3 DEF RecordsAs
    <3>2. ~Ready(r)
      BY <2>3, <3>1 DEF Ready
    <3>3. QED
      BY <1>3, <2>1, <3>1, <3>2
  <2>4. QED
    BY <1>6, <2>2, <2>3, DecideIs
<1>7. ASSUME NEW c \in Callers, Meter(c) PROVE CalmGateway'
  <2>1. UNCHANGED approvals /\ At(c, "metering")
    BY <1>7, MeterIs
  <2>2. CASE Passes(c)
    <3>1. PICK r : /\ Serves(c, r) /\ Same(request[c], r) /\ r.pc # "metering" /\ r.answer = request[c].answer
                   /\ r.approval = request[c].approval
      BY <2>2 DEF Passes
    <3>2. Ready(r) => Ready(request[c])
      BY <2>1, <3>1 DEF Ready, At
    <3>3. QED
      BY <1>3, <2>1, <3>1, <3>2
  <2>3. CASE RecordsAs(c, "denied", "refused")
    <3>1. PICK r : /\ Serves(c, r) /\ Same(request[c], r) /\ r.pc = "recording" /\ r.answer = "refused"
                   /\ r.approval = request[c].approval
      BY <2>3 DEF RecordsAs
    <3>2. ~Ready(r)
      BY <3>1 DEF Ready
    <3>3. QED
      BY <1>3, <2>1, <3>1, <3>2
  <2>4. QED
    BY <1>7, <2>2, <2>3, MeterIs
<1>8. ASSUME NEW c \in Callers, OpenApproval(c) PROVE CalmGateway'
  <2>1. PICK n \in Nat \ {0} :
          /\ n = Len(approvals) + 1 /\ DOMAIN approvals' = 1 .. n
          /\ \A i \in DOMAIN approvals : approvals'[i] = approvals[i]
          /\ approvals'[n] = [tool |-> request[c].tool, args |-> request[c].args, state |-> "pending"]
    BY <1>8, OpenApprovalIs
  <2>2. PICK r : Serves(c, r) /\ Same(request[c], r) /\ r.pc = "recording" /\ r.approval = n
    BY <1>8, <2>1, OpenApprovalIs
  <2>3. \A d \in Callers : request[d].approval # n
    <3>1. Len(approvals) \in Nat
      BY DEF GatewayTypes
    <3>2. \A d \in Callers : request[d].approval \in 0 .. Len(approvals)
      BY DEF Placed, PlacedRequest
    <3>3. QED
      BY <2>1, <3>1, <3>2
  <2>4. CalmRequest(r)'
    BY <2>1, <2>2 DEF CalmRequest, Matching, Same
  <2>5. QED
    BY <1>1, <2>1, <2>2, <2>3, <2>4, CalmStep
<1>9. ASSUME NEW c \in Callers, TakeApproval(c) PROVE CalmGateway'
  <2>1. TakenAt(request[c].approval) /\ At(c, "taking") /\ (Takes(c) \/ AnswersWith(c, "refused"))
    BY <1>9, TakeApprovalIs
  <2>2. PICK r : /\ Serves(c, r) /\ r.pc \in {"executing", "answered"} /\ r.answer # "held"
                 /\ r.approval = request[c].approval
    BY <1>5, <2>1 DEF Takes, AnswersWith, At
  <2>3. r.approval # 0 => \A d \in Callers : d # c => request[d].approval # r.approval
    BY <2>2 DEF CalmGateway
  <2>4. CalmRequest(r)'
    BY <2>2 DEF CalmRequest, Ready
  <2>5. QED
    BY <1>1, <2>1, <2>2, <2>3, <2>4, CalmStep DEF TakenAt
<1>10. ASSUME NEW c \in Callers, Execute(c) PROVE CalmGateway'
  <2>1. UNCHANGED approvals /\ (RecordsAs(c, "ok", "ok") \/ RecordsAs(c, "failed", "failed"))
    BY <1>10, ExecuteIs
  <2>2. PICK r : /\ Serves(c, r) /\ Same(request[c], r) /\ r.pc = "recording" /\ r.answer # "held"
                 /\ r.approval = request[c].approval
    BY <2>1 DEF RecordsAs
  <2>3. ~Ready(r)
    BY <2>2 DEF Ready
  <2>4. QED
    BY <1>3, <2>1, <2>2, <2>3
<1>11. ASSUME NEW c \in Callers, Record(c) PROVE CalmGateway'
  <2>1. UNCHANGED approvals /\ AnswersWith(c, request[c].answer)
    BY <1>11, RecordIs
  <2>2. PICK r : /\ Serves(c, r) /\ Same(request[c], r) /\ r.pc = "answered" /\ r.answer = request[c].answer
                 /\ r.approval = request[c].approval
    BY <2>1 DEF AnswersWith
  <2>3. Ready(r) => Ready(request[c])
    BY <2>2 DEF Ready
  <2>4. QED
    BY <1>3, <2>1, <2>2, <2>3
<1>12. CASE UNCHANGED vars
  BY <1>12, CalmSame DEF vars, gateway
<1>13. QED
  BY <1>4, <1>6, <1>7, <1>8, <1>9, <1>10, <1>11, <1>12, CalmIs

-----------------------------------------------------------------------------
\* The steps of a request of the runtime

\* How it goes on, and what is stored meanwhile.
Stays(o, r, pc) == Is(r, pc, o.status, o.state, o.call, o.todo, o.approved, o.resuming, o.shown)
Leaves(o, r) == r.pc \in {"idle", "done"} /\ Is(r, r.pc, "none", Fresh, NoCall, <<>>, FALSE, FALSE, o.shown)
Settled(o, r) ==
  \E status \in Terminal :
    Is(r, "settling", status, o.state, o.call, o.todo, o.approved, o.resuming, o.shown)

StoresNothing == run' = run /\ checkpoint' = checkpoint
Stores(s) == run' = run /\ checkpoint' = s

\* The state is as it was, but for what a step says of it.
SameState(s, t) == t \in States /\ t.made = s.made /\ t.turns = s.turns /\ t.calls = s.calls /\ t.results = s.results

Turns(o, r) ==
  /\ \E s : /\ Is(r, "draining", o.status, s, o.call, r.todo, o.approved, o.resuming, o.shown)
            /\ s.results = o.state.results /\ s.pending = o.state.pending /\ s.queued = <<>>
  /\ \A i \in DOMAIN r.todo : /\ r.todo[i].key = Len(asked) + i
                              /\ r.todo[i].held => RequiresApproval(r.todo[i].tool)
  /\ \E batch \in scenario.batches :
       Len(batch) = Len(r.todo) /\ \A i \in DOMAIN r.todo : r.todo[i].held => r.todo[i].tool = batch[i].tool
Drains(o, r) ==
  \/ o.todo = <<>> /\ Stays(o, r, "drained")
  \/ /\ o.todo # <<>> /\ Head(o.todo) \in CallRecords /\ Tail(o.todo) \in Seq(CallRecords)
     /\ \E s : \/ /\ Head(o.todo).held
                  /\ Is(r, "holding", "waiting", s, o.call, Tail(o.todo), o.approved, o.resuming, o.shown)
                  /\ SameState(o.state, s) /\ s.pending = Head(o.todo) /\ s.queued = Tail(o.todo)
               \/ /\ ~Head(o.todo).held
                  /\ Is(r, "draining", o.status, s, o.call, Tail(o.todo), o.approved, o.resuming, o.shown)
                  /\ Gains(o.state, s, Head(o.todo), "unknown") /\ s.queued = o.state.queued
               \/ /\ ~Head(o.todo).held /\ s = o.state
                  /\ Is(r, "invoking", o.status, s, Head(o.todo), Tail(o.todo), FALSE, o.resuming, o.shown)
GoesAgain(o, q, r) ==
  LET signed == o.approved /\ q.answer = "held" /\ q.tool = o.call.tool IN
  /\ q.pc = "answered"
  /\ \/ signed /\ Is(r, "invoking", o.status, o.state, o.call, o.todo, FALSE, o.resuming, o.shown)
     \/ \E s : /\ ~signed /\ Is(r, "draining", o.status, s, NoCall, o.todo, FALSE, o.resuming, o.shown)
               /\ Gains(o.state, s, o.call, q.answer) /\ s.queued = o.state.queued
Resumes(o, r) ==
  \E s : \/ /\ Is(r, "invoking", o.status, s, o.state.pending, o.state.queued, TRUE, TRUE, o.shown)
            /\ SameState(o.state, s) /\ s.pending = o.state.pending /\ s.queued = <<>>
         \/ /\ Is(r, "draining", o.status, s, o.call, o.state.queued, o.approved, TRUE, o.shown)
            /\ Gains(o.state, s, o.state.pending, "denied") /\ s.queued = <<>>

Begins(a, r) ==
  LET o == actor[a] IN
  /\ o.pc = "idle"
  /\ \/ /\ run = "absent" /\ run' = "running" /\ checkpoint' = checkpoint
        /\ Is(r, "created", "running", Fresh, NoCall, <<>>, FALSE, FALSE, NoCall)
     \/ /\ StoresNothing /\ checkpoint.pending # NoCall
        /\ Is(r, "idle", "none", Fresh, NoCall, <<>>, FALSE, FALSE, checkpoint.pending)
     \/ /\ StoresNothing /\ o.shown # NoCall /\ (scenario.patient => Quiescent)
        /\ Is(r, "finding", run, o.state, o.call, o.todo, o.approved, o.resuming, o.shown)

Works(a, r) ==
  LET o == actor[a] IN
  \/ o.pc = "created" /\ Stores(o.state) /\ Stays(o, r, "asking")
  \/ o.pc = "asking" /\ StoresNothing /\ (Settled(o, r) \/ Turns(o, r))
  \/ o.pc = "draining" /\ StoresNothing /\ Drains(o, r)
  \/ o.pc = "invoking" /\ StoresNothing /\ GoesAgain(o, request[a], r)
  \/ o.pc = "holding" /\ run' = o.status /\ checkpoint' = checkpoint /\ Stays(o, r, "held")
  \/ o.pc = "held" /\ Stores(o.state) /\ (Leaves(o, r) \/ Stays(o, r, "late"))
  \/ o.pc = "late" /\ Stores(o.state) /\ Leaves(o, r)
  \/ o.pc = "drained" /\ Stores(o.state) /\ Settled(o, r)
  \/ /\ o.pc = "drained" /\ Stores(o.state) /\ (o.resuming \/ ~Exhausted(o.state.made))
     /\ Is(r, "asking", o.status, o.state, o.call, o.todo, o.approved, FALSE, o.shown)
  \/ o.pc = "settling" /\ Stores(o.state) /\ Stays(o, r, "settled")
  \/ o.pc = "settled" /\ run' = o.status /\ checkpoint' = checkpoint /\ Leaves(o, r)
  \/ /\ o.pc = "finding" /\ StoresNothing
     /\ \/ Leaves(o, r)
        \/ /\ MayResume(a, checkpoint.pending)
           /\ Is(r, "loading", "running", checkpoint, o.call, o.todo, o.approved, o.resuming, o.shown)
  \/ o.pc = "loading" /\ run' = "running" /\ checkpoint' = checkpoint /\ Resumes(o, r)
  \/ /\ "crash" \in scenario.faults /\ Handling(a) /\ StoresNothing
     /\ Is(r, "gone", "none", Fresh, NoCall, <<>>, FALSE, FALSE, NoCall)

LEMMA HandleMoves ==
  ASSUME GatewayTypes, AgentTypes, NEW a \in Actors, Handle(a)
  PROVE  \E r : Becomes(a, r) /\ (Begins(a, r) \/ Works(a, r))
<1> DEFINE o == actor[a]
<1>1. ASSUME Ends(a) PROVE \E r : Becomes(a, r) /\ Leaves(o, r)
  BY <1>1 DEF Ends, Leaves, Is
<1>2. CASE Start(a)
  BY <1>2, StartIs DEF On, Begins
<1>3. CASE Open(a)
  BY <1>3, OpenIs DEF On, Works, Stores, Stays
<1>4. CASE Ask(a)
  <2>1. CASE Settles(a) /\ On(a, "asking")
    BY <2>1 DEF Settles, On, Works, StoresNothing, Settled
  <2>2. ASSUME NEW calls, Asks(a, calls), On(a, "asking") PROVE \E r : Becomes(a, r) /\ Works(a, r)
    <3>1. PICK r, s : /\ Becomes(a, r)
                      /\ Is(r, "draining", o.status, s, o.call, calls, o.approved, o.resuming, o.shown)
                      /\ s.results = o.state.results /\ s.pending = o.state.pending /\ s.queued = <<>>
      BY <2>2 DEF Asks
    <3>2. Turns(o, r)
      BY <2>2, <3>1 DEF Turns, Is, Asks
    <3>3. QED
      BY <2>2, <3>1, <3>2 DEF Asks, On, Works, StoresNothing
  <2>3. QED
    BY <1>4, <2>1, <2>2, AskIs
<1>5. CASE Drain(a)
  <2>1. On(a, "draining") /\ StoresNothing
    BY <1>5, DrainIs DEF StoresNothing
  <2>2. ASSUME NEW r, Becomes(a, r), Drains(o, r) PROVE \E q : Becomes(a, q) /\ Works(a, q)
    BY <2>1, <2>2 DEF On, Works
  <2>3. CASE o.todo = <<>> /\ \E r : Becomes(a, r) /\ Is(r, "drained", o.status, o.state, o.call, o.todo, o.approved, o.resuming, o.shown)
    BY <2>2, <2>3 DEF Drains, Stays
  <2>4. ASSUME o.todo # <<>>, Head(o.todo) \in CallRecords, Rest1(a) \in Seq(CallRecords),
               Holds(a) \/ Answers1(a) \/ Makes(a)
        PROVE  \E r : Becomes(a, r) /\ Drains(o, r)
    <3>1. CASE Holds(a)
      BY <2>4, <3>1 DEF Holds, Rest1, Drains, SameState
    <3>2. CASE Answers1(a)
      BY <2>4, <3>2 DEF Answers1, Rest1, Drains
    <3>3. CASE Makes(a)
      BY <2>4, <3>3 DEF Makes, Rest1, Drains
    <3>4. QED
      BY <2>4, <3>1, <3>2, <3>3
  <2>5. QED
    BY <1>5, <2>2, <2>3, <2>4, DrainIs
<1>6. CASE Invoked(a)
  <2>1. On(a, "invoking") /\ request[a].pc = "answered" /\ StoresNothing
    BY <1>6, InvokedIs DEF At, StoresNothing
  <2>2. CASE Again(a)
    BY <2>1, <2>2 DEF Again, GoesAgain, On, Works
  <2>3. CASE Reads(a)
    BY <2>1, <2>3 DEF Reads, GoesAgain, On, Works
  <2>4. QED
    BY <1>6, <2>2, <2>3, InvokedIs
<1>7. CASE Hold(a)
  BY <1>7, HoldIs DEF On, Works, Stays
<1>8. CASE Held(a)
  BY <1>1, <1>8, HeldIs DEF On, Works, Stays, Stores
<1>9. CASE SaveLate(a)
  BY <1>1, <1>9, SaveLateIs DEF On, Works, Stores
<1>10. CASE Drained(a)
  BY <1>10, DrainedIs DEF On, Works, Stores, Settled
<1>11. CASE Settle(a)
  BY <1>11, SettleIs DEF On, Works, Stores, Stays
<1>12. CASE Finish(a)
  BY <1>1, <1>12, FinishIs DEF On, Works
<1>13. CASE See(a)
  BY <1>13, SeeIs DEF On, Begins, StoresNothing
<1>14. CASE Approve(a)
  BY <1>14, ApproveIs DEF On, Begins, StoresNothing
<1>15. CASE Load(a)
  <2>1. On(a, "finding") /\ StoresNothing
    BY <1>15, LoadIs DEF StoresNothing
  <2>2. CASE Ends(a)
    BY <1>1, <2>1, <2>2 DEF On, Works
  <2>3. CASE ~Ends(a)
    BY <1>15, <2>1, <2>3, LoadIs DEF On, Works
  <2>4. QED
    BY <2>2, <2>3
<1>16. CASE Resume(a)
  <2>1. On(a, "loading") /\ run' = "running" /\ checkpoint' = checkpoint
    BY <1>16, ResumeIs
  <2>2. CASE Carries(a)
    <3>1. \E r : Becomes(a, r) /\ Resumes(o, r)
      BY <2>2 DEF Carries, Resumes, SameState
    <3>2. QED
      BY <2>1, <3>1 DEF On, Works
  <2>3. CASE Denies(a)
    BY <2>1, <2>3 DEF Denies, On, Works, Resumes
  <2>4. QED
    BY <1>16, <2>2, <2>3, ResumeIs
<1>17. CASE Crash(a)
  BY <1>17, CrashIs DEF Works, StoresNothing
<1>18. QED
  BY <1>2, <1>3, <1>4, <1>5, <1>6, <1>7, <1>8, <1>9, <1>10, <1>11, <1>12, <1>13, <1>14, <1>15, <1>16,
     <1>17 DEF Handle

-----------------------------------------------------------------------------
\* The rest of what is not hindered

LEMMA RatesKept ==
  ASSUME GatewayTypes, AgentTypes, Lined, Placed, Alone, [Next]_vars, scenario.calm, WithinRates'
  PROVE  WithinRates
<1>1. bindings' = bindings /\ bindings \in [Tools -> Bindings] /\ rate \in [Tools -> Nat]
  BY CalmIs DEF GatewayTypes
<1>2. rate' = rate \/ (rate' \in [Tools -> Nat] /\ \A t \in Tools : rate'[t] >= rate[t])
  <2>1. ASSUME NEW a \in Actors, Handle(a) PROVE rate' = rate
    BY <2>1, HandleIs DEF Handled
  <2>2. ASSUME NEW c \in Callers, Decide(c) \/ OpenApproval(c) \/ TakeApproval(c) \/ Execute(c) \/ Record(c)
        PROVE  rate' = rate
    BY <2>2, DecideIs, OpenApprovalIs, TakeApprovalIs, ExecuteIs, RecordIs
  <2>3. ASSUME NEW c \in Callers, Meter(c) PROVE rate' \in [Tools -> Nat] /\ \A t \in Tools : rate'[t] >= rate[t]
    BY <2>3, MeterIs
  <2>4. UNCHANGED vars => rate' = rate
    BY DEF vars, gateway
  <2>5. QED
    BY <2>1, <2>2, <2>3, <2>4, CalmIs
<1>3. ASSUME NEW t \in Tools PROVE rate[t] <= bindings[t].rate
  <2>1. PICK n \in Nat, limit \in Nat : n = rate[t] /\ limit = bindings[t].rate
    BY <1>1 DEF Bindings
  <2>2. PICK m : m = rate'[t] /\ m \in Nat /\ m >= n
    BY <1>1, <1>2, <2>1
  <2>3. m <= limit
    BY <1>1, <2>1, <2>2 DEF WithinRates
  <2>4. QED
    BY <2>1, <2>2, <2>3
<1>4. QED
  BY <1>3 DEF WithinRates

\* Only an owner goes on with a call that waited.
LEMMA OwnersKept ==
  ASSUME GatewayTypes, AgentTypes, Lined, Placed, Alone, [Next]_vars,
         \A a \in Actors : On(a, "loading") => a \in scenario.owners
  PROVE  (\A a \in Actors : On(a, "loading") => a \in scenario.owners)'
<1>1. scenario' = scenario
  BY BindingsKept
<1>2. ASSUME NEW a \in Actors, Handle(a), NEW b \in Actors, actor'[b].pc = "loading" PROVE b \in scenario.owners
  <2>1. PICK r : Becomes(a, r) /\ (Begins(a, r) \/ Works(a, r))
    BY <1>2, HandleMoves
  <2>2. CASE b = a
    <3>1. r.pc = "loading"
      BY <1>2, <2>1, <2>2 DEF Becomes
    <3>2. Works(a, r)
      BY <2>1, <3>1 DEF Begins, Is
    <3>3. MayResume(a, checkpoint.pending)
      BY <3>1, <3>2 DEF Works, Is, Stays, Leaves, Settled, Turns, Drains, GoesAgain, Resumes
    <3>4. QED
      BY <2>2, <3>3 DEF MayResume
  <2>3. CASE b # a
    BY <1>2, <2>1, <2>3 DEF Becomes, On
  <2>4. QED
    BY <2>2, <2>3
<1>3. actor' = actor => \A b \in Actors : actor'[b].pc = "loading" => b \in scenario.owners
  BY DEF On
<1>4. QED
  BY <1>1, <1>2, <1>3, StepCases, CallIs DEF On, agent, vars

\* The handshake goes on, in each of its two halves.
ShakenAs(r, a, approved) ==
  /\ a \in scenario.owners
  /\ r.pc = "metering" => r.needs
  /\ IF approved THEN FirstHalf(r) ELSE SecondHalf(r)

ShakenAll == \A a \in Actors : On(a, "invoking") /\ actor[a].call.held => Shaken(a)

LEMMA ShakenIs ==
  /\ \A a : Shaken(a) <=> ShakenAs(request[a], a, actor[a].approved)
  /\ \A a : Shaken(a)' <=> ShakenAs(request[a], a, actor[a].approved)'
BY DEF Shaken, ShakenAs

LEMMA ShakenHandled ==
  ASSUME GatewayTypes, AgentTypes, Lined, Placed, Alone, scenario.calm, scenario' = scenario,
         \A a \in Actors : On(a, "loading") => a \in scenario.owners, ShakenAll,
         NEW a \in Actors, Handle(a), NEW b \in Actors, On(b, "invoking")', actor'[b].call.held
  PROVE  Shaken(b)'
<1>1. PICK r : Becomes(a, r)
  BY HandleIs DEF Handled
<1>2. \A c \in Callers : c # a => request'[c] = request[c]
  BY HandleIs DEF Handled, Requested, Serves
<1>3. CASE b # a
  <2>1. PICK o, q : o = actor[b] /\ o = actor'[b] /\ q = request[b] /\ q = request'[b]
    BY <1>1, <1>2, <1>3, ActorsCall DEF Becomes
  <2>2. ShakenAs(q, b, o.approved)
    BY <2>1, ShakenIs DEF ShakenAll, On
  <2>3. PICK approved : approved = o.approved
    OBVIOUS
  <2>4. ShakenAs(q, b, approved)'
    BY <2>2, <2>3 DEF ShakenAs
  <2>5. ShakenAs(request[b], b, actor[b].approved)'
    BY <2>1, <2>3, <2>4
  <2>6. QED
    BY <2>5, ShakenIs
<1>4. CASE b = a
  <2>1. r = actor'[a] /\ r.pc = "invoking" /\ r.call.held
    BY <1>1, <1>4 DEF Becomes, On
  <2>2. PutsAgain(a) \/ PutsSigned(a)
    <3>1. ~GoesOn(a) /\ ~Dies(a) /\ ~TakesAnswer(a)
      BY <2>1 DEF GoesOn, Dies, TakesAnswer, Becomes
    <3>2. ~PutsFirst(a)
      BY <2>1 DEF PutsFirst, PutsFor, Becomes
    <3>3. QED
      BY <3>1, <3>2, HandlePlaces DEF Puts
  <2>3. ASSUME NEW call, NEW approval, NEW approved, PutsFor(a, call, approval, approved),
               a \in scenario.owners, approved \in BOOLEAN, approved <=> approval = 0
        PROVE  Shaken(a)'
    <3>1. PICK q : /\ Serves(a, q) /\ q.pc = "deciding" /\ q.approval = approval
      BY <2>3 DEF PutsFor, PostedFor
    <3>2. q = request'[a] /\ r.approved = approved
      BY <2>1, <2>3, <3>1 DEF Serves, PutsFor, Becomes
    <3>3. ShakenAs(q, a, approved)
      BY <2>3, <3>1 DEF ShakenAs, FirstHalf, SecondHalf
    <3>4. ShakenAs(q, a, r.approved)'
      BY <3>2, <3>3 DEF ShakenAs
    <3>5. QED
      BY <2>1, <3>2, <3>4, ShakenIs
  <2>4. CASE PutsAgain(a)
    <3>1. /\ On(a, "invoking") /\ actor[a].approved /\ request[a].answer = "held"
          /\ PutsFor(a, actor[a].call, request[a].approval, FALSE)
      BY <2>4 DEF PutsAgain
    <3>2. r.call = actor[a].call
      BY <2>1, <3>1 DEF PutsFor, Becomes
    <3>3. ShakenAs(request[a], a, TRUE)
      BY <2>1, <3>1, <3>2, ShakenIs DEF ShakenAll
    <3>4. request[a].pc \notin {"idle", "deciding", "metering", "opening", "taking", "executing"}
      BY <3>1, ActorsCall DEF Placed, PlacedActor, PlacedRequest, At
    <3>5. request[a].approval # 0 /\ a \in scenario.owners
      BY <3>3, <3>4 DEF ShakenAs, FirstHalf
    <3>6. QED
      BY <1>4, <2>3, <3>1, <3>5
  <2>5. CASE PutsSigned(a)
    <3>1. On(a, "loading") /\ PutsFor(a, actor[a].state.pending, 0, TRUE)
      BY <2>5 DEF PutsSigned
    <3>2. QED
      BY <1>4, <2>3, <3>1
  <2>6. QED
    BY <2>2, <2>4, <2>5
<1>5. QED
  BY <1>3, <1>4

\* A request of the gateway that a step of it leaves alone, or serves.
LEMMA ShakenServed ==
  ASSUME GatewayTypes, AgentTypes, Lined, Placed, Alone, [Next]_vars, scenario.calm, WithinRates',
         CalmGateway, UNCHANGED agent,
         NEW a \in Actors, On(a, "invoking"), actor[a].call.held, Shaken(a),
         Decide(a) \/ Meter(a) \/ OpenApproval(a) \/ TakeApproval(a) \/ Execute(a) \/ Record(a)
  PROVE  Shaken(a)'
<1> DEFINE o == request[a]
<1>1. PICK approved : approved = actor[a].approved /\ approved = actor'[a].approved
  BY DEF agent
<1>2. a \in Callers /\ scenario' = scenario /\ bindings' = bindings /\ scenario.faults = {} /\ scenario.outside = {}
  BY ActorsCall, CalmIs
<1>3. a \in scenario.owners /\ (o.pc = "metering" => o.needs) /\ (IF approved THEN FirstHalf(o) ELSE SecondHalf(o))
  BY <1>1 DEF Shaken
<1>4. ASSUME NEW r, Serves(a, r), ShakenAs(r, a, approved) PROVE Shaken(a)'
  <2>1. r = request'[a]
    BY <1>4 DEF Serves
  <2>2. ShakenAs(r, a, approved)'
    BY <1>2, <1>4 DEF ShakenAs
  <2>3. ShakenAs(request[a], a, actor[a].approved)'
    BY <1>1, <2>1, <2>2
  <2>4. QED
    BY <2>3, ShakenIs
<1>5. o.tool \in Tools /\ AllowedInProject(o.tool) /\ RequiresApproval(o.tool)
  <2>1. PICK call : call = actor[a].call
    OBVIOUS
  <2>2. Known(call) /\ call.tool \in Tools /\ call.held
    BY <2>1, LineIs DEF On, ActorInLine
  <2>3. o.tool = call.tool
    BY <2>1 DEF Placed, PlacedActor
  <2>4. QED
    BY <2>2, <2>3 DEF Known
<1>6. CASE Decide(a)
  <2>1. At(a, "deciding")
    BY <1>2, <1>6, DecideIs
  <2>2. MayInvoke(a, o.tool)
    BY <1>2, <1>3, <1>5 DEF MayInvoke
  <2>3. Allows(a)
    BY <1>2, <1>6, <2>2, DecideIs
  <2>4. PICK r : Serves(a, r) /\ r.pc = "metering" /\ r.approval = o.approval /\ r.needs = RequiresApproval(o.tool)
    BY <2>3 DEF Allows
  <2>5. ShakenAs(r, a, approved)
    BY <1>3, <1>5, <2>1, <2>4 DEF ShakenAs, FirstHalf, SecondHalf, At
  <2>6. QED
    BY <1>4, <2>4, <2>5
<1>7. CASE Meter(a)
  <2>1. At(a, "metering") /\ rate' \in [Tools -> Nat] /\ (Passes(a) \/ rate'[o.tool] > o.limit)
    BY <1>2, <1>7, MeterIs
  <2>2. o.limit = bindings[o.tool].rate
    BY <1>2, <2>1 DEF CalmGateway, At
  <2>3. ~(rate'[o.tool] > o.limit)
    <3>1. PICK n \in Nat, limit \in Nat : n = rate'[o.tool] /\ limit = o.limit
      BY <1>2, <1>5, <2>1 DEF GatewayTypes, Requests
    <3>2. n <= limit
      BY <1>2, <1>5, <2>2, <3>1 DEF WithinRates
    <3>3. QED
      BY <3>1, <3>2
  <2>4. PICK r : /\ Serves(a, r) /\ r.approval = o.approval
                 /\ r.pc = IF ~o.needs THEN "executing" ELSE IF o.approval = 0 THEN "opening" ELSE "taking"
    BY <2>1, <2>3 DEF Passes
  <2>5. ShakenAs(r, a, approved)
    BY <1>3, <2>1, <2>4 DEF ShakenAs, FirstHalf, SecondHalf, At
  <2>6. QED
    BY <1>4, <2>4, <2>5
<1>8. CASE OpenApproval(a)
  <2>1. PICK n \in Nat \ {0} : n = Len(approvals) + 1
    BY <1>2, <1>8, OpenApprovalIs
  <2>2. PICK r : Serves(a, r) /\ r.pc = "recording" /\ r.answer = "held" /\ r.approval = n
    BY <1>2, <1>8, <2>1, OpenApprovalIs
  <2>3. At(a, "opening")
    BY <1>2, <1>8, OpenApprovalIs
  <2>4. ShakenAs(r, a, approved)
    BY <1>3, <2>1, <2>2, <2>3 DEF ShakenAs, FirstHalf, SecondHalf, At
  <2>5. QED
    BY <1>4, <2>2, <2>4
<1>9. CASE TakeApproval(a)
  <2>1. At(a, "taking")
    BY <1>2, <1>9, TakeApprovalIs
  <2>2. Ready(o) /\ ~approved
    BY <1>3, <2>1 DEF Ready, At, FirstHalf, SecondHalf
  <2>3. Matching(o, o.approval) /\ approvals[o.approval].state = "pending"
    BY <1>2, <2>2 DEF CalmGateway
  <2>4. Takes(a)
    BY <1>2, <1>9, <2>3, TakeApprovalIs
  <2>5. PICK r : Serves(a, r) /\ r.pc = "executing" /\ r.approval = o.approval
    BY <2>4 DEF Takes
  <2>6. ShakenAs(r, a, approved)
    BY <1>3, <2>2, <2>5 DEF ShakenAs, SecondHalf
  <2>7. QED
    BY <1>4, <2>5, <2>6
<1>10. CASE Execute(a)
  <2>1. At(a, "executing") /\ RecordsAs(a, "ok", "ok")
    BY <1>2, <1>10, ExecuteIs
  <2>2. PICK r : Serves(a, r) /\ r.pc = "recording" /\ r.answer = "ok" /\ r.approval = o.approval
    BY <2>1 DEF RecordsAs
  <2>3. ShakenAs(r, a, approved)
    BY <1>3, <2>1, <2>2 DEF ShakenAs, FirstHalf, SecondHalf, At
  <2>4. QED
    BY <1>4, <2>2, <2>3
<1>11. CASE Record(a)
  <2>1. At(a, "recording") /\ AnswersWith(a, o.answer)
    BY <1>2, <1>11, RecordIs
  <2>2. PICK r : Serves(a, r) /\ r.pc = "answered" /\ r.answer = o.answer /\ r.approval = o.approval
    BY <2>1 DEF AnswersWith
  <2>3. ShakenAs(r, a, approved)
    BY <1>3, <2>1, <2>2 DEF ShakenAs, FirstHalf, SecondHalf, At
  <2>4. QED
    BY <1>4, <2>2, <2>3
<1>12. QED
  BY <1>6, <1>7, <1>8, <1>9, <1>10, <1>11

LEMMA ShakenSame ==
  ASSUME NEW a \in Actors, Shaken(a), scenario' = scenario, actor'[a] = actor[a], request'[a] = request[a]
  PROVE  Shaken(a)'
<1>1. PICK q, approved : /\ q = request[a] /\ q = request'[a]
                         /\ approved = actor[a].approved /\ approved = actor'[a].approved
  OBVIOUS
<1>2. ShakenAs(q, a, approved)
  BY <1>1, ShakenIs
<1>3. ShakenAs(q, a, approved)'
  BY <1>2 DEF ShakenAs
<1>4. ShakenAs(request[a], a, actor[a].approved)'
  BY <1>1, <1>3
<1>5. QED
  BY <1>4, ShakenIs

LEMMA ShakenKept ==
  ASSUME GatewayTypes, AgentTypes, Lined, Placed, Alone, [Next]_vars, scenario.calm, WithinRates',
         CalmGateway, \A a \in Actors : On(a, "loading") => a \in scenario.owners, ShakenAll
  PROVE  ShakenAll'
<1>1. scenario' = scenario
  BY CalmIs
<1>2. ASSUME NEW a \in Actors, Handle(a) PROVE ShakenAll'
  BY <1>1, <1>2, ShakenHandled DEF ShakenAll
<1>3. ASSUME NEW c \in Callers, UNCHANGED agent,
             Decide(c) \/ Meter(c) \/ OpenApproval(c) \/ TakeApproval(c) \/ Execute(c) \/ Record(c)
      PROVE  ShakenAll'
  <2>1. ASSUME NEW a \in Actors, On(a, "invoking")', actor'[a].call.held PROVE Shaken(a)'
    <3>1. actor'[a] = actor[a] /\ On(a, "invoking") /\ actor[a].call.held
      BY <1>3, <2>1 DEF On, agent
    <3>2. Shaken(a)
      BY <3>1 DEF ShakenAll
    <3>3. CASE a = c
      BY <1>3, <3>1, <3>2, <3>3, ShakenServed
    <3>4. CASE a # c
      <4>1. PICK r : ServedAs(c, r)
        BY <1>3, ServeIs DEF Serve
      <4>2. request'[a] = request[a]
        BY <3>4, <4>1, ActorsCall DEF ServedAs, Serves
      <4>3. QED
        BY <1>1, <3>1, <3>2, <4>2, ShakenSame
    <3>5. QED
      BY <3>3, <3>4
  <2>2. QED
    BY <2>1 DEF ShakenAll
<1>4. CASE UNCHANGED vars
  <2>1. ASSUME NEW a \in Actors, On(a, "invoking")', actor'[a].call.held PROVE Shaken(a)'
    <3>1. actor'[a] = actor[a] /\ request'[a] = request[a]
      BY <1>4 DEF vars, agent, gateway
    <3>2. Shaken(a)
      BY <2>1, <3>1 DEF ShakenAll, On
    <3>3. QED
      BY <1>1, <3>1, <3>2, ShakenSame
  <2>2. QED
    BY <2>1 DEF ShakenAll
<1>5. QED
  BY <1>2, <1>3, <1>4, CalmIs

\* Results that satisfy a human go on to, and one more that does.
LEMMA SatisfiedKept ==
  ASSUME Grown, NEW s, NEW t, NEW first, Whole(s, first), Satisfied(s), t.results = s.results
  PROVE  Satisfied(t)'
BY DEF Grown, Whole, Satisfied

LEMMA SatisfiedGains ==
  ASSUME Grown, NEW s \in States, NEW t, NEW first, NEW call, NEW answer, Whole(s, first), Satisfied(s),
         Gains(s, t, call, answer), call.key \in DOMAIN asked,
         asked[call.key].held => answer \in {"ok", "denied"}
  PROVE  Satisfied(t)'
<1>1. PICK n \in Nat : n = Len(s.results) /\ DOMAIN s.results = 1 .. n /\ s.results \in Seq(Results)
  BY DEF States
<1>2. PICK x : x = [key |-> call.key, answer |-> answer]
  OBVIOUS
<1>3. t.results = Append(s.results, x)
  BY <1>2 DEF Gains
<1>4. DOMAIN t.results = 1 .. n + 1 /\ t.results[n + 1] = x /\ \A i \in 1 .. n : t.results[i] = s.results[i]
  <2>1. t.results \in Seq({y : y \in Results \cup {x}})
    BY <1>1, <1>3, AppendProperties
  <2>2. Len(t.results) = n + 1
    BY <1>1, <1>3, AppendProperties
  <2>3. QED
    BY <1>1, <1>3, <2>1, <2>2, AppendProperties
<1>5. ASSUME NEW i \in 1 .. n + 1, asked'[t.results[i].key].held PROVE t.results[i].answer \in {"ok", "denied"}
  <2>1. CASE i = n + 1
    BY <1>2, <1>4, <1>5, <2>1 DEF Grown
  <2>2. CASE i # n + 1
    <3>1. i \in 1 .. n
      BY <1>1, <2>2
    <3>2. PICK y : y = s.results[i] /\ y = t.results[i]
      BY <1>4, <3>1
    <3>3. y.key \in DOMAIN asked
      BY <1>1, <3>1, <3>2 DEF Whole
    <3>4. asked[y.key].held
      BY <1>5, <3>2, <3>3 DEF Grown
    <3>5. QED
      BY <1>1, <3>1, <3>2, <3>4 DEF Satisfied
  <2>3. QED
    BY <2>1, <2>2
<1>6. QED
  BY <1>4, <1>5 DEF Satisfied

LEMMA SatisfiedFresh == Satisfied(Fresh)'
BY DEF Satisfied, Fresh

SatisfiedAll == (\A a \in Actors : Satisfied(actor[a].state)) /\ Satisfied(checkpoint)

\* A call that a human approved is read as done.
LEMMA ShakenReads ==
  ASSUME AgentTypes, Lined, Placed, NEW a \in Actors, ShakenAll, On(a, "invoking"), At(a, "answered"),
         asked[actor[a].call.key].held,
         ~(actor[a].approved /\ request[a].answer = "held" /\ request[a].tool = actor[a].call.tool)
  PROVE  request[a].answer = "ok"
<1>1. PICK call, q : call = actor[a].call /\ q = request[a]
  OBVIOUS
<1>2. call.held /\ q.tool = call.tool
  BY <1>1, LineIs DEF On, ActorInLine, Known, Placed, PlacedActor
<1>3. IF actor[a].approved THEN FirstHalf(q) ELSE SecondHalf(q)
  BY <1>1, <1>2 DEF ShakenAll, Shaken
<1>4. QED
  BY <1>1, <1>2, <1>3 DEF At, FirstHalf, SecondHalf

LEMMA SatisfiedHandled ==
  ASSUME GatewayTypes, AgentTypes, Lined, Placed, Alone, Grown, SatisfiedAll, ShakenAll, NEW a \in Actors, Handle(a)
  PROVE  SatisfiedAll'
<1> DEFINE o == actor[a]
<1>1. PICK r : Becomes(a, r) /\ (Begins(a, r) \/ Works(a, r))
  BY HandleMoves
<1>2. o \in ActorRecords /\ ActorInLine(o) /\ o.state \in States /\ Whole(o.state, First(o))
  BY LineIs, ActorIs DEF ActorInLine
<1>3. Satisfied(o.state) /\ Satisfied(checkpoint) /\ Whole(checkpoint, Waiting(checkpoint))
  BY DEF SatisfiedAll, Lined, StoredInLine
<1>4. \A t : t.results = o.state.results => Satisfied(t)'
  BY <1>2, <1>3, SatisfiedKept
<1>5. \A t : t = checkpoint => Satisfied(t)'
  BY <1>3, SatisfiedKept
<1>6. ASSUME NEW t, NEW call, NEW answer, Gains(o.state, t, call, answer), call.key \in DOMAIN asked,
             asked[call.key].held => answer \in {"ok", "denied"}
      PROVE  Satisfied(t)'
  BY <1>2, <1>3, <1>6, SatisfiedGains
<1>7. PICK t : t = r.state
  OBVIOUS
<1>8. Satisfied(t)'
  <2>1. CASE Begins(a, r)
    BY <1>4, <1>7, <2>1, SatisfiedFresh DEF Begins, Is
  <2>2. ASSUME Leaves(o, r) PROVE Satisfied(t)'
    BY <1>7, <2>2, SatisfiedFresh DEF Leaves, Is
  <2>3. ASSUME r.state = o.state PROVE Satisfied(t)'
    BY <1>4, <1>7, <2>3
  <2>4. CASE o.pc = "asking" /\ Turns(o, r)
    BY <1>4, <1>7, <2>4 DEF Turns, Is
  <2>5. CASE o.pc = "draining" /\ Drains(o, r)
    <3>1. CASE \E s : s = r.state /\ Gains(o.state, s, Head(o.todo), "unknown") /\ ~Head(o.todo).held /\ o.todo # <<>>
      <4>1. PICK call : call = Head(o.todo)
        OBVIOUS
      <4>2. Known(call)
        BY <1>2, <2>5, <3>1, <4>1, ActorIs, LineTakes DEF ActorInLine, First, Ahead, Holding
      <4>3. QED
        BY <1>6, <1>7, <3>1, <4>1, <4>2 DEF Known
    <3>2. QED
      BY <1>4, <1>7, <2>5, <3>1 DEF Drains, Is, Stays, SameState
  <2>6. CASE o.pc = "invoking" /\ GoesAgain(o, request[a], r)
    <3>1. CASE \E s : /\ s = r.state /\ Gains(o.state, s, o.call, request[a].answer)
                      /\ ~(o.approved /\ request[a].answer = "held" /\ request[a].tool = o.call.tool)
      <4>1. PICK call : call = o.call
        OBVIOUS
      <4>2. Known(call)
        BY <1>2, <2>6, <4>1 DEF ActorInLine
      <4>3. asked[call.key].held => request[a].answer = "ok"
        BY <2>6, <3>1, <4>1, ShakenReads DEF GoesAgain, On, At
      <4>4. QED
        BY <1>6, <1>7, <3>1, <4>1, <4>2, <4>3 DEF Known
    <3>2. QED
      BY <2>3, <2>6, <3>1 DEF GoesAgain, Is
  <2>7. CASE o.pc = "loading" /\ Resumes(o, r)
    <3>1. CASE \E s : s = r.state /\ Gains(o.state, s, o.state.pending, "denied")
      <4>1. PICK call : call = o.state.pending
        OBVIOUS
      <4>2. Known(call)
        BY <2>7, <4>1, LineIs DEF Holding
      <4>3. QED
        BY <1>6, <1>7, <3>1, <4>1, <4>2 DEF Known
    <3>2. QED
      BY <1>4, <1>7, <2>7, <3>1 DEF Resumes, Is, SameState
  <2>8. CASE Is(r, "loading", "running", checkpoint, o.call, o.todo, o.approved, o.resuming, o.shown)
    BY <1>5, <1>7, <2>8 DEF Is
  <2>9. CASE Is(r, "gone", "none", Fresh, NoCall, <<>>, FALSE, FALSE, NoCall)
    BY <1>7, <2>9, SatisfiedFresh DEF Is
  <2>10. Stays(o, r, r.pc) \/ Settled(o, r) \/ Is(r, "asking", o.status, o.state, o.call, o.todo, o.approved, FALSE, o.shown)
         => r.state = o.state
    BY DEF Stays, Settled, Is
  <2>11. ASSUME NEW pc, Stays(o, r, pc) PROVE Stays(o, r, r.pc)
    BY <2>11 DEF Stays, Is
  <2>12. QED
    BY <1>1, <2>1, <2>2, <2>3, <2>4, <2>5, <2>6, <2>7, <2>8, <2>9, <2>10, <2>11 DEF Works
<1>9. PICK u : u = checkpoint' /\ (u = checkpoint \/ u = o.state)
  BY HandleIs DEF Handled, Saved
<1>10. Satisfied(u)'
  BY <1>4, <1>5, <1>9
<1>11. ASSUME NEW b \in Actors PROVE Satisfied(actor[b].state)'
  <2>1. CASE b = a
    BY <1>1, <1>7, <1>8, <2>1 DEF Becomes
  <2>2. CASE b # a
    <3>1. PICK v : v = actor[b].state /\ v = actor'[b].state
      BY <1>1, <2>2 DEF Becomes
    <3>2. Whole(v, First(actor[b])) /\ Satisfied(v)
      BY <3>1, LineIs DEF ActorInLine, SatisfiedAll
    <3>3. Satisfied(v)'
      BY <3>2, SatisfiedKept
    <3>4. QED
      BY <3>1, <3>3
  <2>3. QED
    BY <2>1, <2>2
<1>12. Satisfied(checkpoint)'
  BY <1>9, <1>10
<1>13. QED
  BY <1>11, <1>12 DEF SatisfiedAll

LEMMA SatisfiedSame ==
  ASSUME SatisfiedAll, UNCHANGED <<actor, checkpoint, asked>>
  PROVE  SatisfiedAll'
BY DEF SatisfiedAll, Satisfied

LEMMA UnhinderedKept ==
  ASSUME GatewayTypes, AgentTypes, Lined, Placed, Audited, Alone, Unhindered, [Next]_vars
  PROVE  Unhindered'
<1>1. scenario' = scenario /\ Grown
  BY BindingsKept, TypesKept
<1>2. SUFFICES ASSUME scenario.calm
      PROVE  /\ CalmGateway'
             /\ (\A a \in Actors : On(a, "loading") => a \in scenario.owners)'
             /\ WithinRates' => ShakenAll' /\ SatisfiedAll'
  BY <1>1 DEF Unhindered, ShakenAll, SatisfiedAll
<1>3. CalmGateway /\ \A a \in Actors : On(a, "loading") => a \in scenario.owners
  BY <1>2 DEF Unhindered
<1>4. CalmGateway' /\ (\A a \in Actors : On(a, "loading") => a \in scenario.owners)'
  BY <1>2, <1>3, CalmGatewayKept, OwnersKept
<1>5. ASSUME WithinRates' PROVE ShakenAll' /\ SatisfiedAll'
  <2>1. WithinRates
    BY <1>2, <1>5, RatesKept
  <2>2. ShakenAll /\ SatisfiedAll
    BY <1>2, <2>1 DEF Unhindered, ShakenAll, SatisfiedAll
  <2>3. ShakenAll'
    BY <1>2, <1>3, <1>5, <2>2, ShakenKept
  <2>4. SatisfiedAll'
    <3>1. (\E a \in Actors : Handle(a)) \/ UNCHANGED <<actor, checkpoint, asked>>
      BY <1>2, CalmIs DEF agent, vars
    <3>2. QED
      BY <1>1, <2>2, <3>1, SatisfiedHandled, SatisfiedSame
  <2>5. QED
    BY <2>3, <2>4
<1>6. QED
  BY <1>4, <1>5

-----------------------------------------------------------------------------
\* The ceiling

LEMMA BoundedKept ==
  ASSUME GatewayTypes, AgentTypes, Lined, Placed, Audited, Alone, Bounded, [Next]_vars
  PROVE  Bounded'
<1>1. Grown
  BY TypesKept
<1>2. SomeHeld => SomeHeld'
  BY <1>1 DEF Grown, SomeHeld
<1>3. ASSUME actor' = actor PROVE Bounded'
  BY <1>2, <1>3 DEF Bounded, On
<1>4. ASSUME NEW a \in Actors, Handle(a) PROVE Bounded'
  <2> DEFINE o == actor[a]
  <2>1. PICK r : Becomes(a, r) /\ (Begins(a, r) \/ Works(a, r))
    BY <1>4, HandleMoves
  <2>2. o \in ActorRecords /\ ActorInLine(o) /\ o.state.made \in Nat /\ MaxSteps \in Nat \ {0}
    BY LineIs, ActorIs, ActorsCall DEF States
  <2>3. (o.resuming => SomeHeld) /\ (o.pc = "asking" => o.state.made < MaxSteps \/ SomeHeld)
    BY DEF Bounded, On
  <2>4. o.pc = "loading" => SomeHeld
    <3>1. PICK call : call = o.state.pending
      OBVIOUS
    <3>2. o.pc = "loading" => Known(call) /\ call.held
      BY <3>1, LineIs DEF Holding
    <3>3. QED
      BY <3>2 DEF Known, SomeHeld
  <2>5. r.resuming => o.resuming \/ o.pc = "loading"
    BY <2>1 DEF Begins, Works, Is, Stays, Leaves, Settled, Turns, Drains, GoesAgain, Resumes
  <2>6. r.pc = "asking" => r.state.made < MaxSteps \/ SomeHeld
    <3>1. ASSUME r.pc = "asking"
          PROVE  /\ r.state = o.state
                 /\ o.pc = "created" \/ (o.pc = "drained" /\ (o.resuming \/ ~Exhausted(o.state.made)))
      BY <2>1, <3>1 DEF Begins, Works, Is, Stays, Leaves, Settled, Turns, Drains, GoesAgain, Resumes
    <3>2. o.pc = "created" => o.state.made = 0
      BY <2>2 DEF ActorInLine, Between, Fresh
    <3>3. QED
      BY <2>2, <2>3, <3>1, <3>2 DEF Exhausted
  <2>7. QED
    BY <1>2, <2>1, <2>3, <2>4, <2>5, <2>6 DEF Bounded, Becomes, On
<1>5. QED
  BY <1>3, <1>4, StepCases, CallIs DEF agent, vars

-----------------------------------------------------------------------------
\* One at a time

Idle(r) == r.pc \in {"idle", "done", "gone"}

LEMMA AloneKept ==
  ASSUME GatewayTypes, AgentTypes, Lined, Placed, Alone, [Next]_vars
  PROVE  Alone'
<1>1. scenario' = scenario
  BY BindingsKept
<1>2. ASSUME UNCHANGED <<run, checkpoint, actor>> PROVE Alone'
  BY <1>1, <1>2 DEF Alone, AloneActor, OneAtATime, On, Handling
<1>3. ASSUME NEW a \in Actors, Handle(a) PROVE Alone'
  <2> DEFINE o == actor[a]
  <2>1. PICK r : Becomes(a, r) /\ (Begins(a, r) \/ Works(a, r))
    BY <1>3, HandleMoves
  <2>2. r = actor'[a] /\ \A b \in Actors : b # a => actor'[b] = actor[b]
    BY <2>1 DEF Becomes
  <2>3. /\ o.pc \in {"holding", "held"} => o.status = "waiting"
        /\ o.pc \in {"settling", "settled"} => o.status \in Terminal
        /\ run = "absent" => o.pc = "idle" /\ o.shown = NoCall /\ checkpoint.pending = NoCall
    BY DEF Alone, On, Fresh
  <2>4. /\ r.pc \in {"holding", "held"} => r.status = "waiting"
        /\ r.pc \in {"settling", "settled"} => r.status \in Terminal
    BY <2>1, <2>3 DEF Begins, Works, Is, Stays, Leaves, Settled, Turns, Drains, GoesAgain, Resumes
  <2>5. run' # "absent"
    <3>1. CASE run = "absent"
      BY <2>1, <2>3, <3>1 DEF Begins, Works, Handling
    <3>2. CASE run # "absent"
      BY <2>1, <2>3, <3>2 DEF Begins, Works, StoresNothing, Stores, Terminal
    <3>3. QED
      BY <3>1, <3>2
  <2>6. ASSUME OneAtATime
        PROVE  /\ (\A b, c \in Actors : Handling(b) /\ Handling(c) => b = c)'
               /\ (\A b \in Actors : AloneActor(actor[b]))'
    <3>1. /\ \A b, c \in Actors : Handling(b) /\ Handling(c) => b = c
          /\ \A b \in Actors : AloneActor(actor[b])
      BY <2>6 DEF Alone
    <3>2. ASSUME ~Idle(r), NEW b \in Actors, b # a PROVE Idle(actor[b])
      <4>1. CASE ~Idle(o)
        BY <3>1, <3>2, <4>1 DEF Idle, Handling
      <4>2. CASE Idle(o)
        <5>1. Begins(a, r) /\ (run = "absent" \/ Quiescent)
          BY <2>1, <2>6, <3>2, <4>2 DEF Idle, Begins, Works, Is, Handling, OneAtATime
        <5>2. QED
          BY <3>2, <5>1 DEF Alone, Quiescent, Handling, Idle
      <4>3. QED
        BY <4>1, <4>2
    <3>3. \A b, c \in Actors : ~Idle(actor'[b]) /\ ~Idle(actor'[c]) => b = c
      <4>1. \A b, c \in Actors : ~Idle(actor[b]) /\ ~Idle(actor[c]) => b = c
        BY <3>1 DEF Idle, Handling
      <4>2. QED
        BY <2>2, <3>2, <4>1
    <3>4. AloneActor(o)
      BY <3>1
    <3>5. run' = run \/ ~Idle(o) \/ r.pc = "created"
      BY <2>1 DEF Begins, Works, StoresNothing, Stores, Is, Handling, Idle
    <3>6. AloneActor(r)'
      <4>1. CASE Begins(a, r)
        BY <4>1 DEF Begins, StoresNothing, Is, AloneActor, Working
      <4>2. CASE Works(a, r)
        <5>1. r.pc \in Working => run' = "running"
          BY <2>3, <3>4, <4>2 DEF AloneActor, Works, StoresNothing, Stores, Is, Stays, Leaves, Settled, Turns, Drains,
                             GoesAgain, Resumes, Working, Handling
        <5>2. r.pc \in {"held", "late", "loading"} => run' = "waiting"
          BY <2>3, <3>4, <4>2 DEF AloneActor, Works, StoresNothing, Stores, Is, Stays, Leaves, Settled, Turns, Drains,
                             GoesAgain, Resumes, Working, MayResume
        <5>3. r.pc # "finding"
          BY <4>2 DEF Works, Is, Stays, Leaves, Settled, Turns, Drains, GoesAgain, Resumes
        <5>4. QED
          BY <5>1, <5>2, <5>3 DEF AloneActor
      <4>3. QED
        BY <2>1, <4>1, <4>2
    <3>7. ASSUME NEW b \in Actors PROVE AloneActor(actor[b])'
      <4>1. CASE b = a
        BY <2>2, <3>6, <4>1
      <4>2. CASE b # a
        <5>1. PICK q : q = actor[b] /\ q = actor'[b] /\ AloneActor(q)
          BY <2>2, <3>1, <4>2
        <5>2. Idle(q) \/ (Idle(r) /\ run' = run) \/ (Idle(r) /\ ~Idle(o))
          BY <3>2, <3>5, <4>2, <5>1 DEF Idle
        <5>3. Idle(q) \/ run' = run
          BY <3>1, <4>2, <5>1, <5>2 DEF Idle, Handling
        <5>4. AloneActor(q)'
          BY <5>1, <5>3 DEF AloneActor, Idle, Working
        <5>5. QED
          BY <5>1, <5>4
      <4>3. QED
        BY <4>1, <4>2
    <3>8. (\A b, c \in Actors : Handling(b) /\ Handling(c) => b = c)'
      BY <3>3 DEF Handling, Idle
    <3>9. QED
      BY <3>7, <3>8
  <2>7. OneAtATime' = OneAtATime
    BY <1>1 DEF OneAtATime
  <2>8. (\A b \in Actors : On(b, "holding") \/ On(b, "held") => actor[b].status = "waiting")'
    BY <2>2, <2>4 DEF Alone, On
  <2>9. (\A b \in Actors : On(b, "settling") \/ On(b, "settled") => actor[b].status \in Terminal)'
    BY <2>2, <2>4 DEF Alone, On
  <2>10. QED
    BY <2>5, <2>6, <2>7, <2>8, <2>9 DEF Alone
<1>4. QED
  BY <1>2, <1>3, StepCases, CallIs DEF agent, vars

-----------------------------------------------------------------------------
\* Turns of at most one call that a human has to approve

OneHeld(calls) == \A i, j \in DOMAIN calls : calls[i].held /\ calls[j].held => i = j

LEMMA HeldOfTail ==
  ASSUME NEW calls \in Seq(CallRecords), calls # <<>>
  PROVE  /\ OneHeld(calls) => OneHeld(Tail(calls)) /\ (Head(calls).held => NoneHeld(Tail(calls)))
         /\ NoneHeld(calls) => NoneHeld(Tail(calls)) /\ ~Head(calls).held
<1>1. PICK n \in Nat \ {0} : n = Len(calls) /\ DOMAIN calls = 1 .. n
  BY EmptySeq
<1>2. PICK rest \in Seq(CallRecords) :
        /\ rest = Tail(calls) /\ DOMAIN rest = 1 .. n - 1 /\ \A i \in 1 .. n - 1 : rest[i] = calls[i + 1]
        /\ Head(calls) = calls[1]
  <2>1. PICK rest \in Seq(CallRecords) :
          rest = Tail(calls) /\ Len(rest) = n - 1 /\ \A i \in 1 .. Len(rest) : rest[i] = calls[i + 1]
    BY <1>1, HeadTailProperties
  <2>2. DOMAIN rest = 1 .. n - 1 /\ \A i \in 1 .. n - 1 : rest[i] = calls[i + 1]
    BY <1>1, <2>1
  <2>3. Head(calls) = calls[1]
    BY <1>1
  <2>4. QED
    BY <2>1, <2>2, <2>3
<1>3. \A i \in 1 .. n - 1 : i + 1 \in 1 .. n /\ i + 1 # 1
  BY <1>1
<1>4. 1 \in 1 .. n
  BY <1>1
<1>5. ASSUME OneHeld(calls) PROVE OneHeld(rest)
  BY <1>1, <1>2, <1>3, <1>5 DEF OneHeld
<1>6. ASSUME OneHeld(calls), Head(calls).held PROVE NoneHeld(rest)
  BY <1>1, <1>2, <1>3, <1>4, <1>6 DEF OneHeld, NoneHeld
<1>7. ASSUME NoneHeld(calls) PROVE NoneHeld(rest) /\ ~Head(calls).held
  BY <1>1, <1>2, <1>3, <1>4, <1>7 DEF NoneHeld
<1>8. QED
  BY <1>2, <1>5, <1>6, <1>7

\* The policies of such a situation stay as they are, so that they are what its turns are measured by.
LEMMA TurnsOnce ==
  ASSUME GatewayTypes, AgentTypes, Lined, scenario.single, NEW a \in Actors, NEW r \in ActorRecords, Turns(actor[a], r)
  PROVE  OneHeld(r.todo)
<1>1. PICK todo \in Seq(CallRecords) : todo = r.todo
  BY ActorIs
<1>2. PICK batch \in scenario.batches :
        Len(batch) = Len(todo) /\ \A i \in DOMAIN todo : todo[i].held => todo[i].tool = batch[i].tool
  BY <1>1 DEF Turns
<1>3. \A i \in DOMAIN todo : todo[i].held => RequiresApproval(todo[i].tool)
  BY <1>1 DEF Turns
<1>4. bindings = scenario.bindings
  BY DEF Lined
<1>5. \A i \in DOMAIN todo : todo[i].held => AlwaysApproved(scenario, batch[i].tool)
  BY <1>2, <1>3, <1>4 DEF RequiresApproval, AlwaysApproved
<1>6. DOMAIN batch = DOMAIN todo
  <2>1. batch \in Seq(Wishes)
    BY ScenarioTypes
  <2>2. QED
    BY <1>1, <1>2, <2>1
<1>7. \A i, j \in DOMAIN batch :
        AlwaysApproved(scenario, batch[i].tool) /\ AlwaysApproved(scenario, batch[j].tool) => i = j
  BY ScenarioTypes
<1>8. QED
  BY <1>1, <1>5, <1>6, <1>7 DEF OneHeld

LEMMA SingleIs ==
  ASSUME NEW r
  PROVE  /\ SingleActor(r) <=>
              /\ r.pc \in {"draining", "invoking"} => OneHeld(r.todo)
              /\ NoneHeld(r.state.queued)
              /\ r.pc \in {"draining", "invoking"} /\ r.resuming => NoneHeld(r.todo)
              /\ r.pc \in {"created", "asking", "holding", "held"} => ~r.resuming
              /\ OneAtATime =>
                   /\ r.pc \in {"draining", "invoking", "holding", "held"} /\ ~r.resuming => checkpoint.pending = NoCall
                   /\ r.pc = "asking" => checkpoint.pending = NoCall
BY DEF SingleActor, OneHeld

LEMMA SingleStep ==
  ASSUME GatewayTypes, AgentTypes, Lined, Alone, Single, scenario.single, scenario' = scenario,
         NEW a \in Actors, NEW r \in ActorRecords, Begins(a, r) \/ Works(a, r)
  PROVE  SingleActor(r)' /\ NoneHeld(checkpoint'.queued)
<1> DEFINE o == actor[a]
<1>1. /\ o \in ActorRecords /\ ActorInLine(o) /\ o.todo \in Seq(CallRecords)
      /\ SingleActor(o) /\ NoneHeld(checkpoint.queued)
  BY LineIs, ActorIs DEF Single
<1>2. NoneHeld(Fresh.queued) /\ Fresh.pending = NoCall /\ NoneHeld(<<>>)
  BY DEF Fresh, NoneHeld
<1>3. /\ o.pc \in {"draining", "invoking"} => OneHeld(o.todo)
      /\ NoneHeld(o.state.queued)
      /\ o.pc \in {"draining", "invoking"} /\ o.resuming => NoneHeld(o.todo)
      /\ o.pc \in {"created", "asking", "holding", "held"} => ~o.resuming
      /\ OneAtATime =>
           /\ o.pc \in {"draining", "invoking", "holding", "held"} /\ ~o.resuming => checkpoint.pending = NoCall
           /\ o.pc = "asking" => checkpoint.pending = NoCall
  BY <1>1, SingleIs
<1>4. /\ o.pc = "created" => o.state = Fresh
      /\ o.pc \in {"asking", "draining", "drained", "settling", "settled"} => o.state.pending = NoCall
      /\ o.pc = "invoking" => o.state.queued = <<>>
  BY <1>1 DEF ActorInLine, Between
<1>5. NoneHeld(checkpoint'.queued)
  BY <1>1, <1>3 DEF Begins, Works, StoresNothing, Stores
<1>6. NoneHeld(r.state.queued) /\ (r.pc \in {"draining", "invoking"} => OneHeld(r.todo))
      /\ (r.pc \in {"draining", "invoking"} /\ r.resuming => NoneHeld(r.todo))
      /\ (r.pc \in {"created", "asking", "holding", "held"} => ~r.resuming)
  <2>1. CASE Begins(a, r)
    BY <1>2, <1>3, <2>1 DEF Begins, Is
  <2>2. CASE o.pc = "asking" /\ Turns(o, r)
    <3>1. OneHeld(r.todo)
      BY <2>2, TurnsOnce
    <3>2. QED
      BY <1>2, <1>3, <2>2, <3>1 DEF Turns, Is
  <2>3. CASE o.pc = "draining" /\ Drains(o, r)
    <3>1. CASE o.todo = <<>>
      BY <1>3, <2>3, <3>1 DEF Drains, Stays, Is
    <3>2. CASE o.todo # <<>>
      BY <1>1, <1>3, <2>3, <3>2, HeldOfTail DEF Drains, Is, Gains, SameState
    <3>3. QED
      BY <3>1, <3>2
  <2>4. CASE o.pc = "invoking" /\ GoesAgain(o, request[a], r)
    BY <1>3, <2>4 DEF GoesAgain, Is
  <2>5. CASE o.pc = "loading" /\ Resumes(o, r)
    BY <1>2, <1>3, <2>5 DEF Resumes, Is, NoneHeld, OneHeld
  <2>6. QED
    BY <1>1, <1>2, <1>3, <2>1, <2>2, <2>3, <2>4, <2>5 DEF Works, Is, Stays, Leaves, Settled
<1>7. ASSUME OneAtATime
      PROVE  /\ r.pc \in {"draining", "invoking", "holding", "held"} /\ ~r.resuming => checkpoint'.pending = NoCall
             /\ r.pc = "asking" => checkpoint'.pending = NoCall
  BY <1>2, <1>3, <1>4, <1>7 DEF Begins, Works, StoresNothing, Stores, Is, Stays, Leaves, Settled, Turns, Drains, GoesAgain, Resumes
<1>8. PICK s : s = checkpoint' /\ OneAtATime' = OneAtATime
  BY DEF OneAtATime
<1>9. QED
  BY <1>5, <1>6, <1>7, <1>8 DEF SingleActor, OneHeld

LEMMA SingleKept ==
  ASSUME GatewayTypes, AgentTypes, Lined, Placed, Alone, Single, [Next]_vars
  PROVE  Single'
<1>1. scenario' = scenario
  BY BindingsKept
<1>2. SUFFICES ASSUME scenario.single
               PROVE  NoneHeld(checkpoint'.queued) /\ (\A a \in Actors : SingleActor(actor[a]))'
  BY <1>1 DEF Single, NoneHeld
<1>3. NoneHeld(checkpoint.queued) /\ \A a \in Actors : SingleActor(actor[a])
  BY <1>2 DEF Single
<1>4. ASSUME UNCHANGED <<checkpoint, actor>>
      PROVE  NoneHeld(checkpoint'.queued) /\ (\A a \in Actors : SingleActor(actor[a]))'
  BY <1>1, <1>3, <1>4 DEF SingleActor, NoneHeld, OneAtATime
<1>5. ASSUME NEW a \in Actors, Handle(a)
      PROVE  NoneHeld(checkpoint'.queued) /\ (\A b \in Actors : SingleActor(actor[b]))'
  <2>1. PICK r : Becomes(a, r) /\ (Begins(a, r) \/ Works(a, r))
    BY <1>5, HandleMoves
  <2>2. r \in ActorRecords /\ r = actor'[a] /\ \A b \in Actors : b # a => actor'[b] = actor[b]
    BY <2>1 DEF Becomes
  <2>3. SingleActor(r)' /\ NoneHeld(checkpoint'.queued)
    BY <1>1, <1>2, <2>1, <2>2, SingleStep
  <2>4. checkpoint' = checkpoint \/ Handling(a)
    BY <2>1 DEF Begins, Works, StoresNothing, Stores, Handling
  <2>5. ASSUME NEW b \in Actors, b # a PROVE SingleActor(actor[b])'
    <3>1. PICK q : q = actor[b] /\ q = actor'[b] /\ SingleActor(q)
      BY <1>3, <2>2, <2>5
    <3>2. checkpoint' = checkpoint \/ (OneAtATime => Idle(q))
      BY <2>4, <2>5, <3>1 DEF Alone, Handling, Idle
    <3>3. SingleActor(q)'
      BY <1>1, <3>1, <3>2 DEF SingleActor, NoneHeld, OneAtATime, Idle
    <3>4. QED
      BY <3>1, <3>3
  <2>6. SingleActor(actor[a])'
    BY <2>2, <2>3
  <2>7. QED
    BY <2>3, <2>5, <2>6
<1>6. QED
  BY <1>4, <1>5, StepCases, CallIs DEF agent, vars

-----------------------------------------------------------------------------
\* At rest

LEMMA RestingKept ==
  ASSUME GatewayTypes, AgentTypes, Lined, Placed, Alone, Resting, [Next]_vars
  PROVE  Resting'
<1>1. scenario' = scenario
  BY BindingsKept
<1>2. SUFFICES ASSUME OneAtATime, NoCrash
               PROVE  /\ \A a \in Actors : On(a, "settled")' => checkpoint'.pending = NoCall
                      /\ \A a \in Actors : On(a, "late")' => checkpoint'.pending # NoCall
                      /\ (\A a \in Actors : Handling(a)' => actor'[a].pc \in {"finding", "loading"}) => Decided'
  BY <1>1 DEF Resting, OneAtATime, NoCrash
<1>3. /\ \A a \in Actors : On(a, "settled") => checkpoint.pending = NoCall
      /\ \A a \in Actors : On(a, "late") => checkpoint.pending # NoCall
      /\ (\A a \in Actors : Handling(a) => actor[a].pc \in {"finding", "loading"}) => Decided
  BY <1>2 DEF Resting
<1>4. ASSUME UNCHANGED <<run, checkpoint, actor>>
      PROVE  /\ \A a \in Actors : On(a, "settled")' => checkpoint'.pending = NoCall
             /\ \A a \in Actors : On(a, "late")' => checkpoint'.pending # NoCall
             /\ (\A a \in Actors : Handling(a)' => actor'[a].pc \in {"finding", "loading"}) => Decided'
  BY <1>3, <1>4 DEF On, Handling, Decided
<1>5. ASSUME NEW a \in Actors, Handle(a)
      PROVE  /\ \A b \in Actors : On(b, "settled")' => checkpoint'.pending = NoCall
             /\ \A b \in Actors : On(b, "late")' => checkpoint'.pending # NoCall
             /\ (\A b \in Actors : Handling(b)' => actor'[b].pc \in {"finding", "loading"}) => Decided'
  <2> DEFINE o == actor[a]
  <2>1. PICK r : Becomes(a, r) /\ (Begins(a, r) \/ Works(a, r))
    BY <1>5, HandleMoves
  <2>2. r = actor'[a] /\ \A b \in Actors : b # a => actor'[b] = actor[b]
    BY <2>1 DEF Becomes
  <2>3. /\ o.pc \in {"asking", "draining", "drained", "settling", "settled"} => o.state.pending = NoCall
        /\ o.pc \in Holding => o.state.pending # NoCall
    BY LineIs DEF ActorInLine
  <2>4. AloneActor(o) /\ \A b, c \in Actors : ~Idle(actor[b]) /\ ~Idle(actor[c]) => b = c
    BY <1>2 DEF Alone, Handling, Idle
  <2>5. ~Idle(o) \/ checkpoint' = checkpoint
    BY <2>1 DEF Begins, Works, StoresNothing, Stores, Idle
  <2>6. r.pc = "settled" => checkpoint'.pending = NoCall
    BY <2>1, <2>3 DEF Begins, Works, StoresNothing, Stores, Is, Stays, Leaves, Settled, Turns, Drains, GoesAgain, Resumes
  <2>7. r.pc = "late" => checkpoint'.pending # NoCall
    BY <2>1, <2>3 DEF Begins, Works, StoresNothing, Stores, Is, Stays, Leaves, Settled, Turns, Drains, GoesAgain, Resumes, Holding
  <2>8. ASSUME NEW b \in Actors
        PROVE  /\ On(b, "settled")' => checkpoint'.pending = NoCall
               /\ On(b, "late")' => checkpoint'.pending # NoCall
    BY <1>3, <2>2, <2>4, <2>5, <2>6, <2>7 DEF On, Idle
  <2>9. ASSUME \A b \in Actors : Handling(b)' => actor'[b].pc \in {"finding", "loading"} PROVE Decided'
    <3>1. Idle(r) \/ r.pc \in {"finding", "loading"}
      BY <2>2, <2>9 DEF Handling, Idle
    <3>2. CASE Idle(o) \/ o.pc \in {"finding", "loading"}
      <4>1. \A b \in Actors : Handling(b) => actor[b].pc \in {"finding", "loading"}
        BY <2>2, <2>9, <3>2 DEF Handling, Idle
      <4>2. run' = run /\ checkpoint' = checkpoint
        BY <1>2, <2>1, <3>1, <3>2 DEF Begins, Works, StoresNothing, Is, Resumes, Idle, NoCrash
      <4>3. QED
        BY <1>3, <4>1, <4>2 DEF Decided
    <3>3. CASE ~Idle(o) /\ o.pc \notin {"finding", "loading"}
      <4>1. /\ o.pc = "settled" /\ run' = o.status /\ checkpoint' = checkpoint
            \/ /\ o.pc \in {"held", "late"} /\ run' = run /\ checkpoint' = o.state
        BY <1>2, <2>1, <3>1, <3>3 DEF Begins, Works, StoresNothing, Stores, Is, Stays, Leaves, Settled, Turns, Drains, GoesAgain, Idle, NoCrash
      <4>2. CASE o.pc = "settled"
        <5>1. o.status \in Terminal /\ checkpoint.pending = NoCall
          BY <1>3, <4>2 DEF Alone, On
        <5>2. QED
          BY <4>1, <4>2, <5>1 DEF Decided
      <4>3. CASE o.pc \in {"held", "late"}
        <5>1. run = "waiting" /\ o.state.pending # NoCall
          BY <2>3, <2>4, <4>3 DEF AloneActor, Holding
        <5>2. QED
          BY <4>1, <4>3, <5>1 DEF Decided
      <4>4. QED
        BY <4>1, <4>2, <4>3
    <3>4. QED
      BY <3>2, <3>3
  <2>10. QED
    BY <2>8, <2>9
<1>6. QED
  BY <1>4, <1>5, StepCases, CallIs DEF agent, vars

-----------------------------------------------------------------------------
\* Once each

LEMMA OfTail ==
  ASSUME NEW calls \in Seq(CallRecords), calls # <<>>
  PROVE  /\ \A i \in DOMAIN Tail(calls) : \E j \in DOMAIN calls : Tail(calls)[i] = calls[j]
         /\ \E j \in DOMAIN calls : Head(calls) = calls[j]
<1>1. PICK n \in Nat \ {0} : n = Len(calls) /\ DOMAIN calls = 1 .. n
  BY EmptySeq
<1>2. PICK rest \in Seq(CallRecords) :
        rest = Tail(calls) /\ Len(rest) = n - 1 /\ \A i \in 1 .. Len(rest) : rest[i] = calls[i + 1]
  BY <1>1, HeadTailProperties
<1>3. DOMAIN rest = 1 .. n - 1 /\ \A i \in 1 .. n - 1 : rest[i] = calls[i + 1]
  BY <1>1, <1>2
<1>4. \A i \in 1 .. n - 1 : i + 1 \in 1 .. n
  BY <1>1
<1>5. Head(calls) = calls[1] /\ 1 \in 1 .. n
  BY <1>1
<1>6. QED
  BY <1>1, <1>2, <1>3, <1>4, <1>5

\* The parts of what runs once: what ran and runs, what is ahead, and what is stored.
Separate ==
  /\ \A e, f \in effects : e.for = f.for /\ e.for # 0 => e = f
  /\ \A c \in Callers : InProgress(request[c]) /\ request[c].for # 0 => \A e \in effects : e.for # request[c].for
  /\ \A c, d \in Callers : InProgress(request[c]) /\ InProgress(request[d]) /\ request[c].for # 0
                           /\ request[c].for = request[d].for => c = d
NobodyHeld == ~(\E a \in Actors : On(a, "held"))
StateUntouched(s) ==
  Untouched(s.pending.key) /\ \A i \in DOMAIN s.queued : Untouched(s.queued[i].key)
StoredUntouched ==
  run = "waiting" /\ checkpoint.pending # NoCall /\ NobodyHeld => StateUntouched(checkpoint)

LEMMA OnceEachIs ==
  /\ OnceEach <=> (OneAtATime /\ (NoCrash \/ scenario.single) =>
                     Separate /\ (\A a \in Actors : AheadUntouched(actor[a])) /\ StoredUntouched)
  /\ OnceEach' <=> (OneAtATime' /\ (NoCrash' \/ scenario'.single) =>
                      Separate' /\ (\A a \in Actors : AheadUntouched(actor[a])') /\ StoredUntouched')
BY DEF OnceEach, Separate, StoredUntouched, StateUntouched, NobodyHeld

\* The calls of a line after a step were in the line or stored before, or are new.
LEMMA LineFrom ==
  ASSUME GatewayTypes, AgentTypes, Lined, Placed, Alone, OneAtATime,
         \A a \in Actors : AheadUntouched(actor[a]), StoredUntouched,
         NEW a \in Actors, NEW r \in ActorRecords, Begins(a, r) \/ Works(a, r)
  PROVE  /\ AheadUntouched(r)
         /\ r.pc = "invoking" =>
              Untouched(r.call.key) \/ (On(a, "invoking") /\ r.call = actor[a].call /\ request[a].answer = "held")
<1> DEFINE o == actor[a]
<1>1. /\ o \in ActorRecords /\ ActorInLine(o) /\ o.todo \in Seq(CallRecords) /\ AheadUntouched(o)
  BY LineIs, ActorIs
<1>2. /\ o.pc \in {"draining", "invoking"} => \A i \in DOMAIN o.todo : Untouched(o.todo[i].key)
      /\ o.pc \in Holding => StateUntouched(o.state)
  BY <1>1 DEF AheadUntouched, Ahead, StateUntouched, Holding
<1>3. ASSUME r.pc \notin {"draining", "invoking"} \cup Holding PROVE AheadUntouched(r)
  BY <1>3 DEF AheadUntouched, Ahead
<1>4. ASSUME r.pc \in {"draining", "invoking"}, \A i \in DOMAIN r.todo : Untouched(r.todo[i].key)
      PROVE  AheadUntouched(r)
  BY <1>4 DEF AheadUntouched, Ahead, Holding
<1>5. ASSUME r.pc \in Holding, StateUntouched(r.state) PROVE AheadUntouched(r)
  BY <1>5 DEF AheadUntouched, Ahead, Holding, StateUntouched
<1>6. CASE Begins(a, r)
  BY <1>3, <1>6 DEF Begins, Is, Holding
<1>7. CASE o.pc = "asking" /\ Turns(o, r)
  <2>1. \A i \in DOMAIN r.todo : r.todo[i].key = Len(asked) + i /\ i \in Nat \ {0}
    <3>1. r.todo \in Seq(CallRecords)
      BY ActorIs
    <3>2. QED
      BY <1>7, <3>1 DEF Turns
  <2>2. ASSUME NEW n \in Nat \ {0} PROVE Untouched(Len(asked) + n)
    <3>1. Len(asked) \in Nat
      BY DEF AgentTypes
    <3>2. Len(asked) + n \notin 0 .. Len(asked)
      BY <3>1
    <3>3. QED
      BY <3>2 DEF Placed, PlacedRequest, Untouched
  <2>3. \A i \in DOMAIN r.todo : Untouched(r.todo[i].key)
    BY <2>1, <2>2
  <2>4. QED
    BY <1>4, <1>7, <2>3 DEF Turns, Is
<1>8. CASE o.pc = "draining" /\ Drains(o, r)
  <2>1. CASE o.todo = <<>>
    BY <1>3, <1>8, <2>1 DEF Drains, Stays, Is, Holding
  <2>2. CASE o.todo # <<>>
    <3>1. \A i \in DOMAIN Tail(o.todo) : Untouched(Tail(o.todo)[i].key)
      BY <1>1, <1>2, <1>8, <2>2, OfTail
    <3>2. Untouched(Head(o.todo).key)
      BY <1>1, <1>2, <1>8, <2>2, OfTail
    <3>3. CASE r.pc = "holding"
      <4>1. r.state.pending = Head(o.todo) /\ r.state.queued = Tail(o.todo)
        BY <1>8, <2>2, <3>3 DEF Drains, Is
      <4>2. QED
        BY <1>5, <3>1, <3>2, <3>3, <4>1 DEF StateUntouched, Holding
    <3>4. CASE r.pc # "holding"
      <4>1. r.pc \in {"draining", "invoking"} /\ r.todo = Tail(o.todo) /\ (r.pc = "invoking" => r.call = Head(o.todo))
        BY <1>8, <2>2, <3>4 DEF Drains, Is
      <4>2. QED
        BY <1>4, <3>1, <3>2, <4>1
    <3>5. QED
      BY <3>3, <3>4
  <2>3. QED
    BY <2>1, <2>2
<1>9. CASE o.pc = "invoking" /\ GoesAgain(o, request[a], r)
  <2>1. /\ r.pc \in {"draining", "invoking"} /\ r.todo = o.todo
        /\ r.pc = "invoking" => r.call = o.call /\ request[a].answer = "held"
    BY <1>9 DEF GoesAgain, Is
  <2>2. QED
    BY <1>2, <1>4, <1>9, <2>1 DEF On
<1>10. CASE o.pc \in {"holding", "held"} /\ (Stays(o, r, "held") \/ Stays(o, r, "late"))
  <2>1. r.pc \in Holding \ {"loading"} /\ r.state = o.state
    BY <1>10 DEF Stays, Is, Holding
  <2>2. QED
    BY <1>2, <1>5, <1>10, <2>1 DEF Holding
<1>11. CASE o.pc = "finding" /\ MayResume(a, checkpoint.pending)
            /\ Is(r, "loading", "running", checkpoint, o.call, o.todo, o.approved, o.resuming, o.shown)
  <2>1. run = "waiting" /\ checkpoint.pending # NoCall
    BY <1>11 DEF Alone, AloneActor, MayResume
  <2>2. NobodyHeld
    BY <1>11 DEF Alone, Handling, NobodyHeld, On
  <2>3. StateUntouched(checkpoint)
    BY <2>1, <2>2 DEF StoredUntouched
  <2>4. QED
    BY <1>5, <1>11, <2>3 DEF Is, Holding
<1>12. CASE o.pc = "loading" /\ Resumes(o, r)
  <2>1. r.pc \in {"draining", "invoking"} /\ r.todo = o.state.queued /\ (r.pc = "invoking" => r.call = o.state.pending)
    BY <1>12 DEF Resumes, Is
  <2>2. QED
    BY <1>2, <1>4, <1>12, <2>1 DEF StateUntouched, Holding
<1>13. CASE r.pc \notin {"draining", "invoking"} \cup Holding
  BY <1>3, <1>13
<1>14. QED
  BY <1>6, <1>7, <1>8, <1>9, <1>10, <1>11, <1>12, <1>13 DEF Works, Is, Stays, Leaves, Settled, Holding

\* A call that nobody put to the gateway stays so while the gateway works for others.
LEMMA UntouchedKept ==
  ASSUME NEW a \in Callers, NEW q, Serves(a, q), effects' = effects, NEW k, Untouched(k),
         InProgress(q) => q.for # k
  PROVE  Untouched(k)'
BY DEF Serves, Untouched, InProgress

LEMMA UntouchedSame ==
  ASSUME UNCHANGED <<request, effects>>
  PROVE  \A k : Untouched(k) => Untouched(k)'
BY DEF Untouched, InProgress

LEMMA SeparateKept ==
  ASSUME NEW a \in Callers, NEW q, Serves(a, q), effects' = effects, Separate,
         InProgress(q) => Untouched(q.for) \/ (InProgress(request[a]) /\ request[a].for = q.for)
  PROVE  Separate'
<1>1. request'[a] = q /\ \A c \in Callers : c # a => request'[c] = request[c]
  BY DEF Serves
<1>2. \A e, f \in effects : e.for = f.for /\ e.for # 0 => e = f
  BY DEF Separate
<1>3. InProgress(q) /\ q.for # 0 => \A e \in effects : e.for # q.for
  BY DEF Separate, Untouched
<1>4. InProgress(q) /\ q.for # 0 => \A c \in Callers : c # a /\ InProgress(request[c]) => request[c].for # q.for
  BY DEF Separate, Untouched
<1>5. ASSUME NEW c \in Callers, InProgress(request'[c]), request'[c].for # 0
      PROVE  \A e \in effects : e.for # request'[c].for
  BY <1>1, <1>3, <1>5 DEF Separate
<1>6. ASSUME NEW c \in Callers, NEW d \in Callers, InProgress(request'[c]), InProgress(request'[d]),
             request'[c].for # 0, request'[c].for = request'[d].for
      PROVE  c = d
  BY <1>1, <1>4, <1>6 DEF Separate
<1>7. QED
  BY <1>2, <1>5, <1>6 DEF Separate, InProgress

\* In a line that was not put to the gateway, nor is now, nothing is put to it.
LEMMA AheadUntouchedKept ==
  ASSUME NEW r, AheadUntouched(r),
         \A k : Untouched(k) /\ (\E i \in DOMAIN Ahead(r) : Ahead(r)[i].key = k) => Untouched(k)',
         \A k : Untouched(k) /\ r.pc \in Holding /\ r.state.pending.key = k => Untouched(k)'
  PROVE  AheadUntouched(r)'
<1>1. PICK ahead : ahead = Ahead(r) /\ ahead = Ahead(r)'
  BY DEF Ahead
<1>2. ASSUME NEW i \in DOMAIN ahead PROVE Untouched(ahead[i].key)'
  <2>1. PICK k : k = ahead[i].key
    OBVIOUS
  <2>2. Untouched(k)'
    BY <1>1, <2>1 DEF AheadUntouched
  <2>3. QED
    BY <2>1, <2>2
<1>3. ASSUME r.pc \in Holding PROVE Untouched(r.state.pending.key)'
  <2>1. PICK k : k = r.state.pending.key
    OBVIOUS
  <2>2. Untouched(k)'
    BY <1>3, <2>1 DEF AheadUntouched
  <2>3. QED
    BY <2>1, <2>2
<1>4. QED
  BY <1>1, <1>2, <1>3 DEF AheadUntouched

LEMMA StateUntouchedKept ==
  ASSUME NEW s, StateUntouched(s), \A k : Untouched(k) => Untouched(k)'
  PROVE  StateUntouched(s)'
<1>1. PICK k : k = s.pending.key
  OBVIOUS
<1>2. Untouched(k)'
  BY <1>1 DEF StateUntouched
<1>3. ASSUME NEW i \in DOMAIN s.queued PROVE Untouched(s.queued[i].key)'
  <2>1. PICK j : j = s.queued[i].key
    OBVIOUS
  <2>2. Untouched(j)'
    BY <2>1 DEF StateUntouched
  <2>3. QED
    BY <2>1, <2>2
<1>4. QED
  BY <1>1, <1>2, <1>3 DEF StateUntouched

\* A request that is not handled has no line.
LEMMA IdleUntouched ==
  ASSUME NEW r, Idle(r)
  PROVE  AheadUntouched(r) /\ AheadUntouched(r)'
BY DEF Idle, AheadUntouched, Ahead, Holding

\* What is stored after a step, while the run waits, nobody put to the gateway before it.
LEMMA StoredAfter ==
  ASSUME GatewayTypes, AgentTypes, Lined, Alone, Single, OneAtATime, NoCrash \/ scenario.single,
         \A a \in Actors : AheadUntouched(actor[a]), StoredUntouched,
         NEW a \in Actors, NEW r, Becomes(a, r), Begins(a, r) \/ Works(a, r),
         run' = "waiting", checkpoint'.pending # NoCall, NobodyHeld'
  PROVE  StateUntouched(checkpoint') /\ r.pc \notin {"draining", "invoking"}
<1> DEFINE o == actor[a]
<1>1. AloneActor(o) /\ AheadUntouched(o) /\ r.pc # "held"
  BY DEF Alone, NobodyHeld, Becomes, On
<1>2. \A b \in Actors : b # a => actor'[b] = actor[b]
  BY DEF Becomes
<1>3. o.pc \notin Working
  <2>1. SUFFICES ASSUME o.pc \in Working PROVE FALSE
    OBVIOUS
  <2>2. run = "running"
    BY <1>1, <2>1 DEF AloneActor
  <2>3. o.pc = "settled" => o.status \in Terminal
    BY DEF Alone, On
  <2>4. QED
    BY <1>1, <2>1, <2>2, <2>3 DEF Begins, Works, StoresNothing, Stores, Stays, Is, Working, Terminal
<1>4. r.pc \notin {"draining", "invoking"}
  BY <1>3 DEF Begins, Works, Is, Stays, Leaves, Settled, Resumes, Working
<1>5. CASE checkpoint' = checkpoint
  <2>1. run = "waiting"
    BY <1>3, <1>5 DEF Begins, Works, StoresNothing, Stores, Resumes, Working
  <2>2. CASE o.pc = "held" /\ scenario.single
    <3>1. SingleActor(o)
      BY <2>2 DEF Single
    <3>2. QED
      BY <1>5, <2>2, <3>1 DEF SingleActor
  <2>3. CASE o.pc = "held" /\ NoCrash
    <3>1. checkpoint' = o.state
      BY <2>3 DEF Begins, Works, NoCrash, Stores
    <3>2. StateUntouched(o.state)
      BY <1>1, <2>3 DEF AheadUntouched, StateUntouched, Ahead, Holding
    <3>3. QED
      BY <1>4, <3>1, <3>2
  <2>4. CASE o.pc # "held"
    <3>1. NobodyHeld
      BY <1>2, <2>4 DEF NobodyHeld, Becomes, On
    <3>2. QED
      BY <1>4, <1>5, <2>1, <3>1 DEF StoredUntouched
  <2>5. QED
    BY <2>2, <2>3, <2>4
<1>6. CASE checkpoint' # checkpoint
  <2>1. o.pc \in {"held", "late"} /\ checkpoint' = o.state
    BY <1>3, <1>6 DEF Begins, Works, StoresNothing, Stores, Working
  <2>2. StateUntouched(o.state)
    BY <1>1, <2>1 DEF AheadUntouched, StateUntouched, Ahead, Holding
  <2>3. QED
    BY <1>4, <2>1, <2>2
<1>7. QED
  BY <1>5, <1>6

LEMMA OnceHandled ==
  ASSUME GatewayTypes, AgentTypes, Lined, Placed, Alone, Single, scenario' = scenario,
         OneAtATime, NoCrash \/ scenario.single,
         Separate, \A a \in Actors : AheadUntouched(actor[a]), StoredUntouched,
         NEW a \in Actors, Handle(a)
  PROVE  Separate' /\ (\A b \in Actors : AheadUntouched(actor[b])') /\ StoredUntouched'
<1> DEFINE o == actor[a]
<1>1. PICK r : Becomes(a, r) /\ (Begins(a, r) \/ Works(a, r))
  BY HandleMoves
<1>2. r \in ActorRecords /\ r = actor'[a] /\ \A b \in Actors : b # a => actor'[b] = actor[b]
  BY <1>1 DEF Becomes
<1>3. /\ AheadUntouched(r)
      /\ r.pc = "invoking" =>
           Untouched(r.call.key) \/ (On(a, "invoking") /\ r.call = o.call /\ request[a].answer = "held")
  BY <1>1, <1>2, LineFrom
<1>4. effects' = effects /\ a \in Callers
  BY HandleIs, ActorsCall DEF Handled
<1>5. ASSUME run' = "waiting", checkpoint'.pending # NoCall, NobodyHeld'
      PROVE  StateUntouched(checkpoint') /\ r.pc \notin {"draining", "invoking"}
  BY <1>1, <1>5, StoredAfter
<1>6. ASSUME \A k : Untouched(k) => Untouched(k)'
      PROVE  (\A b \in Actors : AheadUntouched(actor[b])') /\ StoredUntouched'
  <2>1. ASSUME NEW q, AheadUntouched(q) PROVE AheadUntouched(q)'
    BY <1>6, <2>1, AheadUntouchedKept
  <2>2. ASSUME NEW b \in Actors PROVE AheadUntouched(actor[b])'
    <3>1. PICK q : q = actor'[b] /\ AheadUntouched(q)
      BY <1>2, <1>3
    <3>2. AheadUntouched(q)'
      BY <2>1, <3>1
    <3>3. QED
      BY <3>1, <3>2
  <2>3. PICK s : s = checkpoint'
    OBVIOUS
  <2>4. ASSUME run' = "waiting", checkpoint'.pending # NoCall, NobodyHeld' PROVE StateUntouched(s)'
    BY <1>5, <1>6, <2>3, <2>4, StateUntouchedKept
  <2>5. StoredUntouched'
    BY <2>3, <2>4 DEF StoredUntouched
  <2>6. QED
    BY <2>2, <2>5
<1>7. CASE UNCHANGED request
  <2>1. Separate'
    BY <1>4, <1>7 DEF Separate, InProgress
  <2>2. QED
    BY <1>4, <1>6, <1>7, <2>1, UntouchedSame
<1>8. CASE TakesAnswer(a)
  <2>1. PICK q : Serves(a, q) /\ q = Quiet
    BY <1>8 DEF TakesAnswer, QuietAgain
  <2>2. ~InProgress(q)
    BY <2>1 DEF InProgress, Quiet
  <2>3. Separate'
    BY <1>4, <2>1, <2>2, SeparateKept
  <2>4. \A k : Untouched(k) => Untouched(k)'
    BY <1>4, <2>1, <2>2, UntouchedKept
  <2>5. QED
    BY <1>6, <2>3, <2>4
<1>9. ASSUME NEW call, NEW approval, NEW approved, PutsFor(a, call, approval, approved)
      PROVE  Separate' /\ (\A b \in Actors : AheadUntouched(actor[b])') /\ StoredUntouched'
  <2>1. PICK q : Serves(a, q) /\ q.pc = "deciding" /\ q.for = call.key
    BY <1>9 DEF PutsFor, PostedFor
  <2>2. r.pc = "invoking" /\ r.call = call
    BY <1>2, <1>9 DEF PutsFor, Becomes
  <2>3. Untouched(q.for) \/ (InProgress(request[a]) /\ request[a].for = q.for)
    BY <1>3, <2>1, <2>2 DEF Placed, PlacedActor, InProgress
  <2>4. Separate'
    BY <1>4, <2>1, <2>3, SeparateKept
  <2>5. \A i \in DOMAIN r.todo : r.todo[i].key # q.for
    <3>1. ActorInLine(r) \/ ActorInLine(r)'
      BY <1>2, HandleInLine DEF MovesInLine, Becomes
    <3>2. ASSUME ActorInLine(r) PROVE \A i \in DOMAIN r.todo : r.todo[i].key # q.for
      BY <2>1, <2>2, <3>2 DEF ActorInLine, InLine, First, Ahead
    <3>3. ASSUME ActorInLine(r)' PROVE \A i \in DOMAIN r.todo : r.todo[i].key # q.for
      BY <2>1, <2>2, <3>3 DEF ActorInLine, InLine, First, Ahead
    <3>4. QED
      BY <3>1, <3>2, <3>3
  <2>6. AheadUntouched(r)'
    <3>1. Ahead(r) = r.todo /\ r.pc \notin Holding
      BY <2>2 DEF Ahead, Holding
    <3>2. ASSUME NEW k, Untouched(k), \E i \in DOMAIN r.todo : r.todo[i].key = k PROVE Untouched(k)'
      BY <1>4, <2>1, <2>5, <3>2, UntouchedKept
    <3>3. QED
      BY <1>3, <3>1, <3>2, AheadUntouchedKept
  <2>7. ~Idle(o)
    BY <1>1, <2>2 DEF Begins, Works, Is, Stays, Leaves, Settled, Idle
  <2>8. ASSUME NEW b \in Actors PROVE AheadUntouched(actor[b])'
    <3>1. CASE b = a
      BY <1>2, <2>6, <3>1
    <3>2. CASE b # a
      <4>1. PICK p : p = actor[b] /\ p = actor'[b]
        BY <1>2, <3>2
      <4>2. Idle(p)
        BY <2>7, <3>2, <4>1 DEF Alone, Idle, Handling
      <4>3. AheadUntouched(p)'
        BY <4>2, IdleUntouched
      <4>4. QED
        BY <4>1, <4>3
    <3>3. QED
      BY <3>1, <3>2
  <2>9. StoredUntouched'
    BY <1>5, <2>2 DEF StoredUntouched
  <2>10. QED
    BY <2>4, <2>8, <2>9
<1>10. QED
  BY <1>7, <1>8, <1>9, HandlePlaces DEF GoesOn, Dies, Puts, PutsFirst, PutsAgain, PutsSigned

\* The gateway does the one thing it was asked, and nobody else's.
LEMMA OnceServed ==
  ASSUME GatewayTypes, Separate, Numbered, NEW c \in Callers, NEW r, ServedAs(c, r)
  PROVE  Separate' /\ \A k : Untouched(k) => Untouched(k)'
<1>1. r = request'[c] /\ \A d \in Callers : d # c => request'[d] = request[d]
  BY DEF ServedAs, Serves
<1>2. PICK o : o = request[c] /\ r.for = o.for /\ (InProgress(r) => InProgress(o))
  BY DEF ServedAs, Same
<1>3. ASSUME NEW e \in effects', e \notin effects
      PROVE  /\ effects' = effects \cup {e} /\ e.for = o.for /\ InProgress(o) /\ ~InProgress(r)
  <2>1. effects' = effects \cup {Effect(c)} /\ e = Effect(c) /\ o.pc = "executing" /\ ~InProgress(r)
    BY <1>2, <1>3 DEF ServedAs, At
  <2>2. e.for = o.for
    BY <1>2, <2>1, EffectIs
  <2>3. QED
    BY <2>1, <2>2 DEF InProgress
<1>4. effects \subseteq effects'
  BY DEF ServedAs
<1>5. ASSUME NEW k, Untouched(k) PROVE Untouched(k)'
  <2>1. ASSUME NEW e \in effects' PROVE e.for # k
    BY <1>2, <1>3, <1>5, <2>1 DEF Untouched
  <2>2. ASSUME NEW d \in Callers, InProgress(request'[d]) PROVE request'[d].for # k
    BY <1>1, <1>2, <1>5, <2>2 DEF Untouched
  <2>3. QED
    BY <2>1, <2>2 DEF Untouched, InProgress
<1>6. ASSUME NEW e \in effects', NEW f \in effects', e.for = f.for, e.for # 0 PROVE e = f
  <2>1. ASSUME NEW x \in effects', NEW y \in effects, x \notin effects, x.for = y.for, x.for # 0 PROVE FALSE
    BY <1>2, <1>3, <2>1 DEF Separate
  <2>2. e \in effects /\ f \in effects => e = f
    BY <1>6 DEF Separate
  <2>3. e \notin effects /\ f \notin effects => e = f
    BY <1>3
  <2>4. QED
    BY <1>6, <2>1, <2>2, <2>3
<1>7. ASSUME NEW d \in Callers, InProgress(request'[d]), request'[d].for # 0, NEW e \in effects'
      PROVE  e.for # request'[d].for
  <2>1. CASE e \in effects
    BY <1>1, <1>2, <1>7, <2>1 DEF Separate
  <2>2. CASE e \notin effects
    BY <1>1, <1>2, <1>3, <1>7, <2>2 DEF Separate
  <2>3. QED
    BY <2>1, <2>2
<1>8. ASSUME NEW d \in Callers, NEW x \in Callers, InProgress(request'[d]), InProgress(request'[x]),
             request'[d].for # 0, request'[d].for = request'[x].for
      PROVE  d = x
  BY <1>1, <1>2, <1>8 DEF Separate
<1>9. QED
  BY <1>5, <1>6, <1>7, <1>8 DEF Separate, InProgress

LEMMA OnceEachKept ==
  ASSUME GatewayTypes, AgentTypes, Lined, Placed, Audited, Alone, Single, OnceEach, [Next]_vars
  PROVE  OnceEach'
<1>1. scenario' = scenario
  BY BindingsKept
<1>2. SUFFICES ASSUME OneAtATime, NoCrash \/ scenario.single
               PROVE  Separate' /\ (\A a \in Actors : AheadUntouched(actor[a])') /\ StoredUntouched'
  BY <1>1, OnceEachIs DEF OneAtATime, NoCrash
<1>3. Separate /\ (\A a \in Actors : AheadUntouched(actor[a])) /\ StoredUntouched
  BY <1>2, OnceEachIs
<1>4. ASSUME NEW a \in Actors, Handle(a)
      PROVE  Separate' /\ (\A b \in Actors : AheadUntouched(actor[b])') /\ StoredUntouched'
  BY <1>1, <1>2, <1>3, <1>4, OnceHandled
<1>5. ASSUME UNCHANGED <<run, checkpoint, actor>>, \A k : k # 0 /\ Untouched(k) => Untouched(k)'
      PROVE  (\A a \in Actors : AheadUntouched(actor[a])') /\ StoredUntouched'
  <2>1. 0 \notin DOMAIN asked
    BY DEF AgentTypes
  <2>2. ASSUME NEW a \in Actors PROVE AheadUntouched(actor[a])'
    <3>1. PICK q : q = actor[a] /\ q = actor'[a] /\ AheadUntouched(q)
      BY <1>3, <1>5
    <3>2. /\ \A i \in DOMAIN Ahead(q) : Ahead(q)[i].key # 0
          /\ q.pc \in Holding => q.state.pending.key # 0
      BY <2>1, <3>1, LineIs DEF Known
    <3>3. AheadUntouched(q)'
      BY <1>5, <3>1, <3>2, AheadUntouchedKept
    <3>4. QED
      BY <3>1, <3>3
  <2>3. ASSUME run = "waiting", checkpoint.pending # NoCall, NobodyHeld PROVE StateUntouched(checkpoint)'
    <3>1. PICK s, ahead, k : s = checkpoint /\ s = checkpoint' /\ ahead = s.queued /\ k = s.pending.key
      BY <1>5
    <3>2. Untouched(k) /\ \A i \in DOMAIN ahead : Untouched(ahead[i].key)
      BY <1>3, <2>3, <3>1 DEF StoredUntouched, StateUntouched
    <3>3. Known(s.pending) /\ \A i \in DOMAIN ahead : Known(ahead[i])
      BY <2>3, <3>1 DEF Lined, StoredInLine, Pends, InLine
    <3>4. k # 0 /\ \A i \in DOMAIN ahead : ahead[i].key # 0
      BY <2>1, <3>1, <3>3 DEF Known
    <3>5. Untouched(k)'
      BY <1>5, <3>2, <3>4
    <3>6. ASSUME NEW i \in DOMAIN ahead PROVE Untouched(ahead[i].key)'
      <4>1. PICK j : j = ahead[i].key
        OBVIOUS
      <4>2. Untouched(j)'
        BY <1>5, <3>2, <3>4, <4>1
      <4>3. QED
        BY <4>1, <4>2
    <3>7. QED
      BY <3>1, <3>5, <3>6 DEF StateUntouched
  <2>4. NobodyHeld' => NobodyHeld
    BY <1>5 DEF NobodyHeld, On
  <2>5. StoredUntouched'
    BY <1>5, <2>3, <2>4 DEF StoredUntouched
  <2>6. QED
    BY <2>2, <2>5
<1>6. ASSUME UNCHANGED <<run, checkpoint, actor, request, effects>>
      PROVE  Separate' /\ (\A b \in Actors : AheadUntouched(actor[b])') /\ StoredUntouched'
  <2>1. Separate'
    BY <1>3, <1>6 DEF Separate, InProgress
  <2>2. QED
    BY <1>5, <1>6, <2>1, UntouchedSame
<1>7. ASSUME NEW c \in Callers, Call(c)
      PROVE  Separate' /\ (\A b \in Actors : AheadUntouched(actor[b])') /\ StoredUntouched'
  <2>1. PICK r : Serves(c, r) /\ r.for = 0
    BY <1>7, CallIs
  <2>2. UNCHANGED <<run, checkpoint, actor, effects>>
    BY <1>7, CallIs
  <2>3. \A k : k # 0 /\ Untouched(k) => Untouched(k)'
    BY <2>1, <2>2, UntouchedKept
  <2>4. Separate'
    BY <1>3, <2>1, <2>2 DEF Separate, Serves, InProgress
  <2>5. QED
    BY <1>5, <2>2, <2>3, <2>4
<1>8. CASE GatewayNext /\ UNCHANGED agent
  <2>1. UNCHANGED <<run, checkpoint, actor>>
    BY <1>8 DEF agent
  <2>2. ASSUME NEW c \in Callers, Serve(c)
        PROVE  Separate' /\ (\A b \in Actors : AheadUntouched(actor[b])') /\ StoredUntouched'
    <3>1. PICK r : ServedAs(c, r)
      BY <2>2, ServeIs
    <3>2. Separate' /\ \A k : Untouched(k) => Untouched(k)'
      BY <1>3, <3>1, OnceServed DEF Audited
    <3>3. QED
      BY <1>5, <2>1, <3>2
  <2>3. QED
    BY <1>6, <1>8, <2>1, <2>2, ApprovalExpiresIs, BindIs, WindowEndsIs DEF GatewayNext
<1>9. CASE UNCHANGED vars
  BY <1>6, <1>9 DEF vars, gateway, agent
<1>10. QED
  BY <1>4, <1>7, <1>8, <1>9, StepCases

-----------------------------------------------------------------------------
\* The invariant holds at first, and in every step

LEMMA InitTypes ==
  ASSUME Init
  PROVE  GatewayTypes /\ AgentTypes
<1>1. scenario \in Scenarios /\ bindings = scenario.bindings
  BY DEF Init, GatewayInit
<1>2. scenario.bindings \in [Tools -> Bindings] /\ scenario.clicks \in [Callers -> Nat]
  BY <1>1, ScenarioAssumption
<1>3. rate \in [Tools -> Nat] /\ approvals \in Seq(Approvals) /\ bound \in Nat
  BY EmptySeq DEF Init, GatewayInit
<1>4. request \in [Callers -> Requests]
  BY Blank DEF Init, GatewayInit
<1>5. effects \subseteq Effects /\ audit \subseteq Records
  BY DEF Init, GatewayInit
<1>6. actor \in [Actors -> ActorRecords] /\ checkpoint \in States /\ run \in RunStatuses
  BY Blank DEF Init, RunStatuses
<1>7. asked \in Seq([held : BOOLEAN, signed : SUBSET Nat])
  BY EmptySeq DEF Init
<1>8. QED
  BY <1>1, <1>2, <1>3, <1>4, <1>5, <1>6, <1>7 DEF GatewayTypes, AgentTypes, Init

LEMMA InitInv ==
  ASSUME Init
  PROVE  AgentInv
<1>1. GatewayTypes /\ AgentTypes
  BY InitTypes
<1>2. /\ \A a \in Actors : actor[a] = Off
      /\ \A c \in Callers : request[c] = Quiet
      /\ asked = <<>> /\ approvals = <<>> /\ effects = {} /\ audit = {} /\ run = "absent"
      /\ checkpoint = Fresh /\ DOMAIN asked = {} /\ DOMAIN approvals = {}
      /\ Len(asked) = 0 /\ Len(approvals) = 0 /\ bindings = scenario.bindings
  BY DEF Init, GatewayInit
<1>3. ASSUME NEW a \in Actors PROVE On(a, "idle") /\ At(a, "idle") /\ actor[a] = Off
  BY <1>2, Blank, ActorsCall DEF On, At
<1>4. Lined
  <2>1. First(Off) = {} /\ Ahead(Off) = <<>>
    BY Blank DEF First, Ahead, Holding
  <2>2. ActorInLine(Off)
    BY <2>1, FreshInLine, Blank DEF ActorInLine, Holding
  <2>3. QED
    BY <1>2, <2>2, FreshInLine DEF Lined
<1>5. Placed
  <2>1. ASSUME NEW a \in Actors PROVE PlacedActor(a)
    BY <1>3 DEF PlacedActor, On
  <2>2. ASSUME NEW c \in Callers PROVE PlacedRequest(request[c])
    BY <1>2, Blank DEF PlacedRequest
  <2>3. QED
    BY <1>2, <2>1, <2>2 DEF Placed
<1>6. Audited
  <2>1. ASSUME NEW c \in Callers
        PROVE  /\ EffectsOf(c) = {} /\ RecordsOf(c) = {} /\ ~At(c, "recording")
    BY <1>2, Blank DEF EffectsOf, RecordsOf, At
  <2>2. IsFiniteSet({}) /\ Cardinality({}) = 0
    BY FS_EmptySet
  <2>3. Numbered
    BY <1>2, <2>2 DEF Numbered
  <2>4. ASSUME NEW c \in Callers, NEW statuses PROVE Recorded(c, statuses) = 0
    <3>1. {x \in RecordsOf(c) : x.status \in statuses} = {}
      BY <2>1
    <3>2. QED
      BY <3>1, <2>1, <2>2 DEF Recorded
  <2>5. ASSUME NEW c \in Callers
        PROVE  /\ Recorded(c, {"ok"}) <= Cardinality(EffectsOf(c))
               /\ Cardinality(EffectsOf(c)) <= Recorded(c, {"ok", "failed"})
    <3>1. Cardinality(EffectsOf(c)) = 0
      BY <2>1, <2>2
    <3>2. Recorded(c, {"ok"}) = 0 /\ Recorded(c, {"ok", "failed"}) = 0
      BY <2>4
    <3>3. QED
      BY <3>1, <3>2
  <2>6. QED
    BY <2>3, <2>5 DEF Audited, EffectsAudited
<1>7. Honoured
  BY <1>2, Blank DEF Honoured, HonouredRequest, At
<1>8. Signed
  <2>1. ASSUME NEW a \in Actors PROVE ~On(a, "invoking")
    BY <1>3 DEF On
  <2>2. QED
    BY <1>2, <2>1, Blank DEF Signed
<1>9. Unhindered
  <2>1. CalmGateway
    BY <1>2, Blank DEF CalmGateway, Ready
  <2>2. Satisfied(Fresh)
    BY Blank DEF Satisfied
  <2>3. ASSUME NEW a \in Actors PROVE ~On(a, "loading") /\ ~On(a, "invoking") /\ Satisfied(actor[a].state)
    BY <1>3, <2>2, Blank DEF On
  <2>4. QED
    BY <1>2, <2>1, <2>2, <2>3 DEF Unhindered
<1>10. Bounded
  BY <1>3, Blank DEF Bounded, On
<1>11. Alone
  <2>1. AloneActor(Off)
    BY Blank DEF AloneActor, Working
  <2>2. ASSUME NEW a \in Actors
        PROVE  /\ ~On(a, "holding") /\ ~On(a, "held") /\ ~On(a, "settling") /\ ~On(a, "settled")
               /\ ~Handling(a) /\ actor[a].pc = "idle" /\ actor[a].shown = NoCall
    BY <1>3, Blank DEF On, Handling
  <2>3. QED
    BY <1>2, <2>1, <2>2 DEF Alone
<1>12. Single
  <2>1. NoneHeld(<<>>)
    BY DEF NoneHeld
  <2>2. SingleActor(Off)
    BY <2>1, Blank DEF SingleActor
  <2>3. QED
    BY <1>2, <2>1, <2>2, Blank DEF Single
<1>13. OnceEach
  <2>1. ASSUME NEW c \in Callers PROVE ~InProgress(request[c])
    BY <1>2, Blank DEF InProgress
  <2>2. AheadUntouched(Off)
    BY Blank DEF AheadUntouched, Ahead, Holding
  <2>3. run # "waiting"
    BY <1>2
  <2>4. QED
    BY <1>2, <2>1, <2>2, <2>3 DEF OnceEach
<1>14. Resting
  BY <1>2, <1>3 DEF Resting, Decided, On
<1>15. QED
  BY <1>1, <1>4, <1>5, <1>6, <1>7, <1>8, <1>9, <1>10, <1>11, <1>12, <1>13, <1>14 DEF AgentInv

LEMMA AgentInvKept ==
  ASSUME AgentInv, [Next]_vars
  PROVE  AgentInv'
<1>1. /\ GatewayTypes /\ AgentTypes /\ Lined /\ Placed
      /\ Audited /\ Honoured /\ Signed /\ Unhindered
      /\ Bounded /\ Alone /\ Single /\ OnceEach /\ Resting
  BY DEF AgentInv
<1>2. GatewayTypes' /\ AgentTypes' /\ Lined' /\ Placed' /\ Audited'
  BY <1>1, TypesKept, LinedKept, PlacedKept, AuditedKept
<1>3. Honoured' /\ Signed' /\ Unhindered'
  BY <1>1, HonouredKept, SignedKept, UnhinderedKept
<1>4. Bounded' /\ Alone' /\ Single' /\ OnceEach' /\ Resting'
  BY <1>1, BoundedKept, AloneKept, SingleKept, OnceEachKept, RestingKept
<1>5. QED
  BY <1>2, <1>3, <1>4 DEF AgentInv

-----------------------------------------------------------------------------
\* What the invariant says of each promise

LEMMA StatesOK ==
  ASSUME AgentTypes, NEW s \in States, NEW first, Whole(s, first), Pends(s)
  PROVE  StateOK(s)
<1>1. s.made = Len(s.results) /\ s.turns \in 0 .. MaxTurns
  BY ActorsCall DEF Whole, States
<1>2. s.calls \subseteq DOMAIN asked /\ \A i \in DOMAIN s.results : s.results[i].key \in s.calls
  BY DEF Whole
<1>3. s.pending.key \in s.calls \cup {0}
  BY Blank DEF Pends
<1>4. QED
  BY <1>1, <1>2, <1>3 DEF StateOK

LEMMA TypesFollow ==
  ASSUME AgentInv
  PROVE  TypeOK
<1>1. GatewayTypes /\ AgentTypes /\ Lined /\ Placed
  BY DEF AgentInv
<1>2. GatewayTypeOK
  <2>1. ASSUME NEW t \in Tools PROVE bindings[t].kind \in {"none", "bound"} /\ bindings[t].rate \in Nat
    BY <1>1 DEF GatewayTypes, Bindings
  <2>2. ASSUME NEW i \in DOMAIN approvals
        PROVE  /\ approvals[i].tool \in Tools /\ approvals[i].args \in Args
               /\ approvals[i].state \in {"pending", "gone"}
    <3>1. approvals[i] \in Approvals
      BY <1>1 DEF GatewayTypes
    <3>2. QED
      BY <1>1, <3>1 DEF Placed, Approvals
  <2>3. ASSUME NEW c \in Callers
        PROVE  /\ request[c].pc \in {"idle", "deciding", "metering", "opening", "taking", "executing",
                                     "recording", "answered"}
               /\ request[c].approval \in 0 .. Len(approvals)
    BY <1>1 DEF GatewayTypes, Requests, RequestLabels, Placed, PlacedRequest
  <2>4. QED
    BY <2>1, <2>2, <2>3 DEF GatewayTypeOK
<1>3. StateOK(checkpoint)
  BY <1>1, StatesOK DEF Lined, StoredInLine, AgentTypes
<1>4. ASSUME NEW a \in Actors PROVE StateOK(actor[a].state)
  <2>1. actor[a].state \in States
    BY <1>1 DEF AgentTypes, ActorRecords
  <2>2. Whole(actor[a].state, First(actor[a])) /\ Pends(actor[a].state)
    BY <1>1 DEF Lined, ActorInLine
  <2>3. QED
    BY <1>1, <2>1, <2>2, StatesOK
<1>5. ASSUME NEW a \in Actors, On(a, "invoking") PROVE ~At(a, "idle") /\ request[a].for = actor[a].call.key
  BY <1>1, <1>5 DEF Placed, PlacedActor
<1>6. run \in {"absent", "running", "waiting"} \cup Terminal
  BY <1>1 DEF AgentTypes, RunStatuses, Terminal
<1>7. QED
  BY <1>2, <1>3, <1>4, <1>5, <1>6 DEF TypeOK

LEMMA ApprovalsFollow ==
  ASSUME AgentInv
  PROVE  ApprovalsHonoured
<1>1. GatewayTypes /\ AgentTypes /\ Lined /\ Placed /\ Honoured /\ Signed /\ Unhindered
  BY DEF AgentInv
<1>2. ApprovedOnce
  <2>1. DOMAIN approvals = 1 .. Len(approvals)
    BY <1>1 DEF GatewayTypes
  <2>2. ASSUME NEW e \in effects
        PROVE  /\ e.tool \in Risky => e.needs
               /\ e.needs =>
                    /\ e.approval # 0
                    /\ approvals[e.approval].tool = e.tool /\ approvals[e.approval].args = e.args
                    /\ \A f \in effects : f.needs /\ f.approval = e.approval => f = e
    <3>1. /\ e.tool \in Risky => e.needs
          /\ e.needs => /\ e.approval \in DOMAIN approvals /\ Matching(e, e.approval)
                        /\ \A f \in effects : f.needs /\ f.approval = e.approval => f = e
      BY <1>1 DEF Honoured
    <3>2. e.approval \in DOMAIN approvals => e.approval # 0
      BY <2>1
    <3>3. QED
      BY <3>1, <3>2 DEF Matching
  <2>3. QED
    BY <2>2 DEF ApprovedOnce
<1>3. SignedForWhatWasSeen
  BY <1>1 DEF Signed, Signs, SignedForWhatWasSeen
<1>4. ApprovedIsDone
  <2>1. SUFFICES ASSUME scenario.calm, WithinRates, NEW i \in DOMAIN checkpoint.results,
                        asked[checkpoint.results[i].key].signed # {}
                 PROVE  checkpoint.results[i].answer \in {"ok", "denied"}
    BY DEF ApprovedIsDone
  <2>2. checkpoint.results[i].key \in DOMAIN asked
    BY <1>1 DEF Lined, StoredInLine, Whole
  <2>3. asked[checkpoint.results[i].key].held
    BY <1>1, <2>1, <2>2 DEF Signed, Signs
  <2>4. Satisfied(checkpoint)
    BY <1>1, <2>1 DEF Unhindered
  <2>5. QED
    BY <2>3, <2>4 DEF Satisfied
<1>5. QED
  BY <1>2, <1>3, <1>4, TypesFollow DEF ApprovalsHonoured

LEMMA EffectsFollow ==
  ASSUME AgentInv
  PROVE  EffectsAudited
BY DEF AgentInv, Audited

\* What is neither made nor ahead was answered, and once.
LEMMA WholeComplete ==
  ASSUME NEW s, Whole(s, {}), InLine(s, {}, <<>>)
  PROVE  Complete(s)
BY DEF Whole, InLine, Complete

LEMMA TurnsFollow ==
  ASSUME AgentInv
  PROVE  TurnsKept
<1>1. GatewayTypes /\ AgentTypes /\ Lined /\ Bounded /\ OnceEach
  BY DEF AgentInv
<1>2. CallRunsOnce
  <2>1. ASSUME NEW k \in DOMAIN asked PROVE k # 0
    BY <1>1, <2>1 DEF AgentTypes
  <2>2. QED
    BY <1>1, <2>1 DEF OnceEach, CallRunsOnce
<1>3. TurnComplete
  <2>1. ASSUME NEW a \in Actors, On(a, "asking") PROVE Complete(actor[a].state)
    <3>1. First(actor[a]) = {} /\ Ahead(actor[a]) = <<>>
      BY <2>1 DEF On, First, Ahead, Holding
    <3>2. ActorInLine(actor[a])
      BY <1>1 DEF Lined
    <3>3. QED
      BY <3>1, <3>2, WholeComplete DEF ActorInLine
  <2>2. QED
    BY <2>1 DEF TurnComplete
<1>4. CeilingKept
  BY <1>1 DEF Bounded, SomeHeld, CeilingKept
<1>5. QED
  BY <1>2, <1>3, <1>4 DEF TurnsKept

LEMMA RestFollows ==
  ASSUME AgentInv
  PROVE  RestsDecided
<1> SUFFICES ASSUME OneAtATime, NoCrash, Quiescent
             PROVE  \/ run = "absent"
                    \/ run \in Terminal /\ checkpoint.pending = NoCall /\ Complete(checkpoint)
                    \/ /\ run = "waiting" /\ checkpoint.pending.held
                       /\ \A i \in DOMAIN checkpoint.results : checkpoint.results[i].key # checkpoint.pending.key
                       /\ \A e \in effects : e.for # checkpoint.pending.key
  BY DEF RestsDecided
<1>1. AgentTypes /\ Lined /\ Resting /\ OnceEach
  BY DEF AgentInv
<1>2. Decided
  BY <1>1 DEF Resting, Quiescent
<1>3. Whole(checkpoint, Waiting(checkpoint)) /\ Pends(checkpoint)
      /\ InLine(checkpoint, Waiting(checkpoint), checkpoint.queued)
  BY <1>1 DEF Lined, StoredInLine
<1>4. CASE run = "absent"
  BY <1>4
<1>5. CASE run \in Terminal /\ checkpoint.pending = NoCall
  <2>1. Waiting(checkpoint) = {} /\ checkpoint.queued = <<>>
    BY <1>3, <1>5 DEF Waiting, Pends
  <2>2. Complete(checkpoint)
    BY <1>3, <2>1, WholeComplete
  <2>3. QED
    BY <1>5, <2>2
<1>6. CASE run = "waiting" /\ checkpoint.pending # NoCall
  <2>1. Waiting(checkpoint) = {checkpoint.pending.key} /\ checkpoint.pending.held
    BY <1>3, <1>6 DEF Waiting, Pends
  <2>2. \A i \in DOMAIN checkpoint.results : checkpoint.results[i].key # checkpoint.pending.key
    BY <1>3, <2>1 DEF Whole
  <2>3. ~(\E a \in Actors : On(a, "held"))
    BY DEF Quiescent, Handling, On
  <2>4. Untouched(checkpoint.pending.key)
    BY <1>1, <1>6, <2>3 DEF OnceEach
  <2>5. QED
    BY <1>6, <2>1, <2>2, <2>4 DEF Untouched
<1>7. QED
  BY <1>2, <1>4, <1>5, <1>6 DEF Decided

-----------------------------------------------------------------------------
\* The theorems

\* The inductive invariant: in every state, for any number of requests to the
\* agent runtime and of callers of the gateway, whatever fails (RunAgent and
\* InvokeTool).
THEOREM AgentsHold == Spec => []AgentInv
<1>1. Init => AgentInv
  BY InitInv
<1>2. AgentInv /\ [Next]_vars => AgentInv'
  BY AgentInvKept
<1>3. QED
  BY <1>1, <1>2, PTL DEF Spec

\* What a human has to approve runs once for an approval and is what was approved;
\* whoever approved it was shown it, and where nothing is in its way it is done
\* (invoke-tool.ts:171-177, run_agent.py:138-141).
THEOREM ApprovalsStayHonoured == Spec => []ApprovalsHonoured
<1>1. AgentInv => ApprovalsHonoured
  BY ApprovalsFollow
<1>2. QED
  BY <1>1, AgentsHold, PTL

\* While MongoDB works the tools do nothing that the records do not tell, and the
\* records tell of no success that there was not (audit.repository.ts:13-18).
THEOREM EffectsStayAudited == Spec => []EffectsAudited
<1>1. AgentInv => EffectsAudited
  BY EffectsFollow
<1>2. QED
  BY <1>1, AgentsHold, PTL

\* A call of the model runs at most once, the model is asked again only with all
\* results, and never above the ceiling (platform_clients.py:132-134,
\* entities.py:76-78, policies.py:55-60).
THEOREM TurnsStayKept == Spec => []TurnsKept
<1>1. AgentInv => TurnsKept
  BY TurnsFollow
<1>2. QED
  BY <1>1, AgentsHold, PTL

\* A run that nobody works on has ended with all its results, or waits for a call
\* that can still be decided and did not run (run_agent.py:138-141).
THEOREM RestsStayDecided == Spec => []RestsDecided
<1>1. AgentInv => RestsDecided
  BY RestFollows
<1>2. QED
  BY <1>1, AgentsHold, PTL
=============================================================================
