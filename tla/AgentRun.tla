------------------------------- MODULE AgentRun -------------------------------
(***************************************************************************)
(* RunAgent of apps/agent-runtime, with the gateway of ToolInvocation: the *)
(* loop that asks the model and runs the tools it calls, holds a call that *)
(* a human has to approve, and goes on in the request of who approved it.  *)
(*                                                                         *)
(* A run is two documents, saved one after the other, whole and without a  *)
(* version: the run (its status) and the checkpoint (the state of the      *)
(* loop).  Every request works on its own copy of both (`actor`), so that  *)
(* two of them at a time, or one that dies between two saves, is what the  *)
(* module is about.  The model may ask for any batch of the scenario's.    *)
(*                                                                         *)
(*   idle -> created -> opened -> asking -> draining <-> invoking          *)
(*             draining -> drained -> asking | settling -> settled -> done *)
(*             draining -> holding -> held -> [late ->] done               *)
(*   idle -> finding -> loading -> resumed -> invoking | draining          *)
(***************************************************************************)
EXTENDS ToolInvocation

CONSTANTS
  Actors,      \* the requests to the agent runtime: Callers of the gateway too
  MaxSteps,    \* the ceiling of tool calls of a run
  MaxTurns     \* how often the model calls tools, at most (a bound of the model)

ASSUME AgentAssumption ==
  /\ Actors \subseteq Callers
  /\ MaxSteps \in Nat \ {0} /\ MaxTurns \in Nat

\* What a model asks for, and what a client posts.
Wishes == [tool : Tools, args : Args]
AlwaysApproved(s, t) == t \in Risky \/ s.bindings[t].approval

\* A situation.  In a `calm` one nothing fails and nobody else does anything; in a
\* `single` one no turn of the model has two calls that a human has to approve.
ASSUME ScenarioAssumption ==
  \A s \in Scenarios :
    /\ s.bindings \in [Tools -> Bindings]
    /\ s.binds \in Seq([tool : Tools, binding : Bindings])
    /\ s.clicks \in [Callers -> Nat]
    /\ s.posts \subseteq Wishes
    /\ s.batches \subseteq Seq(Wishes)
    /\ s.calm => s.faults = {} /\ s.binds = <<>> /\ s.posts = {} /\ s.outside = {}
    /\ s.single =>
         /\ s.binds = <<>>
         /\ \A batch \in s.batches : \A i, j \in DOMAIN batch :
              AlwaysApproved(s, batch[i].tool) /\ AlwaysApproved(s, batch[j].tool) => i = j

VARIABLES
  run,         \* the status of the stored run
  checkpoint,  \* the stored RunState
  actor,       \* what each request holds
  clicks,      \* how often each caller may still act (a bound)
  asked        \* for the properties: of all calls of the model, which were approved by
               \* someone who had been shown which

agent == <<run, checkpoint, actor, clicks, asked>>
vars == <<scenario, gateway, agent>>

NoTool == "no-tool"

\* A ToolCall: `key` tells it from all others, `id` is what the provider gave it.
NoCall == [key |-> 0, id |-> 0, tool |-> NoTool, args |-> "none", held |-> FALSE]

\* A RunState: of its messages, which calls the model made and the results it reads.
Fresh == [made |-> 0, turns |-> 0, calls |-> {}, results |-> <<>>, pending |-> NoCall, queued |-> <<>>]

Off == [pc |-> "idle", status |-> "none", state |-> Fresh, call |-> NoCall, todo |-> <<>>,
        approved |-> FALSE, resuming |-> FALSE, shown |-> NoCall]

Init ==
  /\ GatewayInit
  /\ run = "absent"
  /\ checkpoint = Fresh
  /\ actor = [a \in Actors |-> Off]
  /\ clicks = scenario.clicks
  /\ asked = <<>>

On(a, label) == actor[a].pc = label
Become(a, r) == actor' = [actor EXCEPT ![a] = r]
Go(a, label) == Become(a, [actor[a] EXCEPT !.pc = label])
Ended(a) == Become(a, [Off EXCEPT !.pc = IF clicks[a] > 0 THEN "idle" ELSE "done", !.shown = actor[a].shown])

Terminal == {"completed", "failed"}
Handling(a) == actor[a].pc \notin {"idle", "done", "gone"}
Quiescent == \A a \in Actors : ~Handling(a)

-----------------------------------------------------------------------------

\* start: the run is saved, then its checkpoint, before the model is asked.
Start(a) ==
  /\ a = scenario.starter /\ On(a, "idle") /\ run = "absent"
  /\ run' = "running"
  /\ Become(a, [Off EXCEPT !.pc = "created", !.status = "running"])
  /\ UNCHANGED <<scenario, gateway, checkpoint, clicks, asked>>

Open(a) ==
  /\ On(a, "created")
  /\ checkpoint' = actor[a].state
  /\ Go(a, "asking")
  /\ UNCHANGED <<scenario, gateway, run, clicks, asked>>

-----------------------------------------------------------------------------

LastChance(made) == made = MaxSteps - 1

\* (A mistake, for the mutant runs: one step too many.)
ExhaustedLate(made) == made > MaxSteps

Exhausted(made) == made >= MaxSteps

\* allowed_tools: what the gateway lists, for any member of the project.
Offered(state) == IF LastChance(state.made) THEN {} ELSE {t \in Tools : AllowedInProject(t)}

\* resolve_calls: a tool that was not offered resolves to nothing, and is not held.
Resolved(batch, state) ==
  [i \in 1 .. Len(batch) |->
     LET known == batch[i].tool \in Offered(state) IN
     [key |-> Len(asked) + i, id |-> IF scenario.unique THEN Len(asked) + i ELSE i,
      tool |-> IF known THEN batch[i].tool ELSE NoTool, args |-> batch[i].args,
      held |-> known /\ RequiresApproval(batch[i].tool)]]

Settling(r, status) == [r EXCEPT !.pc = "settling", !.status = status]

\* _advance: the model answers with calls, or for good, or not at all.
Ask(a) ==
  LET r == actor[a] IN
  /\ On(a, "asking")
  /\ \/ \E batch \in scenario.batches :
          LET calls == Resolved(batch, r.state) IN
          /\ r.state.turns < MaxTurns
          /\ asked' = asked \o [i \in DOMAIN calls |-> [held |-> calls[i].held, signed |-> {}]]
          /\ Become(a, [r EXCEPT !.pc = "draining", !.todo = calls,
                                 !.state.turns = @ + 1, !.state.queued = <<>>,
                                 !.state.calls = @ \cup {calls[i].key : i \in DOMAIN calls}])
     \/ Become(a, Settling(r, "completed")) /\ UNCHANGED asked
     \/ /\ "model" \in scenario.faults
        /\ Become(a, Settling(r, "failed")) /\ UNCHANGED asked
  /\ UNCHANGED <<scenario, gateway, run, checkpoint, clicks>>

\* (A mistake, for the mutant runs: the call does not count.)
WithResultUncounted(state, call, answer) ==
  [state EXCEPT !.results = Append(@, [key |-> call.key, answer |-> answer]), !.pending = NoCall]

\* record_tool_result
WithResult(state, call, answer) ==
  [state EXCEPT !.results = Append(@, [key |-> call.key, answer |-> answer]),
                !.pending = NoCall, !.made = @ + 1]

\* (A mistake, for the mutant runs: the calls after the held one are dropped.)
HoldDropsRest(state, call, rest) == [state EXCEPT !.pending = call, !.queued = <<>>]

\* hold_for_approval
HoldForApproval(state, call, rest) == [state EXCEPT !.pending = call, !.queued = rest]

\* _drain_queue: the calls in their order, up to the first that has to be held.
Drain(a) ==
  LET r == actor[a]
      call == Head(r.todo)
      next == [r EXCEPT !.todo = Tail(@)]
  IN
  /\ On(a, "draining")
  /\ IF r.todo = <<>>
     THEN Go(a, "drained") /\ UNCHANGED request
     ELSE IF call.held
     THEN /\ Become(a, [next EXCEPT !.pc = "holding", !.status = "waiting",
                                    !.state = HoldForApproval(r.state, call, Tail(r.todo))])
          /\ UNCHANGED request
     ELSE IF call.tool = NoTool
     THEN Become(a, [next EXCEPT !.state = WithResult(@, call, "unknown")]) /\ UNCHANGED request
     ELSE /\ Become(a, [next EXCEPT !.pc = "invoking", !.call = call, !.approved = FALSE])
          /\ Step(a, Post(call.tool, call.args, 0, call.key))
  /\ UNCHANGED <<scenario, bindings, bound, rate, approvals, effects, audit>>
  /\ UNCHANGED <<run, checkpoint, clicks, asked>>

\* _drain_queue holds: the run is saved, and then the checkpoint.
Hold(a) ==
  /\ On(a, "holding")
  /\ run' = actor[a].status
  /\ Go(a, "held")
  /\ UNCHANGED <<scenario, gateway, checkpoint, clicks, asked>>

\* (A mistake, for the mutant runs: the save of the checkpoint is left to _advance.)
HeldLate(a) ==
  /\ On(a, "held")
  /\ UNCHANGED checkpoint
  /\ IF actor[a].resuming THEN Ended(a) ELSE Go(a, "late")
  /\ UNCHANGED <<scenario, gateway, run, clicks, asked>>

\* The request of resume is over when the approval was published; _advance saves
\* the checkpoint once more.
Held(a) ==
  /\ On(a, "held")
  /\ checkpoint' = actor[a].state
  /\ IF actor[a].resuming THEN Ended(a) ELSE Go(a, "late")
  /\ UNCHANGED <<scenario, gateway, run, clicks, asked>>

SaveLate(a) ==
  /\ On(a, "late")
  /\ checkpoint' = actor[a].state
  /\ Ended(a)
  /\ UNCHANGED <<scenario, gateway, run, clicks, asked>>

\* _advance saves what the batch did and stops at the ceiling; resume saves it and
\* goes on with _advance.
Drained(a) ==
  LET r == actor[a] IN
  /\ On(a, "drained")
  /\ checkpoint' = r.state
  /\ Become(a, IF ~r.resuming /\ Exhausted(r.state.made) THEN Settling(r, "failed")
               ELSE [r EXCEPT !.pc = "asking", !.resuming = FALSE])
  /\ UNCHANGED <<scenario, gateway, run, clicks, asked>>

\* _settle: the checkpoint, then the run.
Settle(a) ==
  /\ On(a, "settling")
  /\ checkpoint' = actor[a].state
  /\ Go(a, "settled")
  /\ UNCHANGED <<scenario, gateway, run, clicks, asked>>

Finish(a) ==
  /\ On(a, "settled")
  /\ run' = actor[a].status
  /\ Ended(a)
  /\ UNCHANGED <<scenario, gateway, checkpoint, clicks, asked>>

-----------------------------------------------------------------------------

\* (A mistake, for the mutant runs: the decision of the human is not carried.)
AnswersNothing(r, answer) == FALSE

\* HttpToolGateway.invoke: a 202 is answered with the approval, if a human said yes.
AnswersApproval(r, answer) == r.approved /\ answer.answer = "held" /\ answer.tool = r.call.tool

\* The answer of the gateway: a second half of the handshake, or the result.
Invoked(a) ==
  LET r == actor[a] answer == request[a] IN
  /\ On(a, "invoking") /\ At(a, "answered")
  /\ IF AnswersApproval(r, answer)
     THEN /\ Step(a, Post(r.call.tool, r.call.args, answer.approval, r.call.key))
          /\ Become(a, [r EXCEPT !.approved = FALSE])
     ELSE /\ Step(a, Quiet)
          /\ Become(a, [r EXCEPT !.pc = "draining", !.call = NoCall, !.approved = FALSE,
                                 !.state = WithResult(@, r.call, answer.answer)])
  /\ UNCHANGED <<scenario, bindings, bound, rate, approvals, effects, audit>>
  /\ UNCHANGED <<run, checkpoint, clicks, asked>>

-----------------------------------------------------------------------------

\* view: someone is shown the call that waits.
See(a) ==
  /\ On(a, "idle") /\ clicks[a] > 0
  /\ checkpoint.pending \notin {NoCall, actor[a].shown}
  /\ Become(a, [Off EXCEPT !.shown = checkpoint.pending])
  /\ UNCHANGED <<scenario, gateway, run, checkpoint, clicks, asked>>

\* resume reads the run, and then the checkpoint.  (Patient: one request at a time.)
Approve(a) ==
  /\ On(a, "idle") /\ clicks[a] > 0 /\ actor[a].shown # NoCall
  /\ scenario.patient => Quiescent
  /\ clicks' = [clicks EXCEPT ![a] = @ - 1]
  /\ Become(a, [actor[a] EXCEPT !.pc = "finding", !.status = run])
  /\ UNCHANGED <<scenario, gateway, run, checkpoint, asked>>

\* (A mistake, for the mutant runs: the status of the run is not looked at.)
MayResumePending(a, call) == call.id = actor[a].shown.id

\* (A mistake, for the mutant runs: any call that waits will do.)
MayResumeAny(a, call) == actor[a].status = "waiting" /\ call # NoCall

\* is_resumable, is_waiting_approval and can_approve
MayResume(a, call) ==
  /\ actor[a].status = "waiting"
  /\ call # NoCall /\ call.id = actor[a].shown.id
  /\ a \in scenario.owners

Load(a) ==
  /\ On(a, "finding")
  /\ IF MayResume(a, checkpoint.pending)
     THEN Become(a, [actor[a] EXCEPT !.pc = "loading", !.status = "running", !.state = checkpoint])
     ELSE Ended(a)
  /\ UNCHANGED <<scenario, gateway, run, checkpoint, clicks, asked>>

\* resume: the run is saved as running, and the call runs or is answered as denied;
\* then the rest of its batch.
Resume(a) ==
  LET r == actor[a]
      call == r.state.pending
      next == [r EXCEPT !.todo = r.state.queued, !.state.queued = <<>>, !.resuming = TRUE]
  IN
  /\ On(a, "loading")
  /\ run' = "running"
  /\ \/ /\ Step(a, Post(call.tool, call.args, 0, call.key))
        /\ Become(a, [next EXCEPT !.pc = "invoking", !.call = call, !.approved = TRUE])
        /\ asked' = [asked EXCEPT ![call.key].signed = @ \cup {r.shown.key}]
     \/ /\ Become(a, [next EXCEPT !.pc = "draining", !.state = WithResult(@, call, "denied")])
        /\ UNCHANGED <<request, asked>>
  /\ UNCHANGED <<scenario, bindings, bound, rate, approvals, effects, audit>>
  /\ UNCHANGED <<checkpoint, clicks>>

\* The process dies, or whoever reads the stream leaves (sse.py): nothing more is
\* done or saved.  What was asked of the gateway goes on there.
Crash(a) ==
  /\ "crash" \in scenario.faults
  /\ Handling(a)
  /\ Become(a, [Off EXCEPT !.pc = "gone"])
  /\ UNCHANGED <<scenario, gateway, run, checkpoint, clicks, asked>>

\* Anyone may call the gateway itself, with any approval that was ever opened.
Call(c) ==
  /\ c \notin Actors /\ clicks[c] > 0
  /\ At(c, "idle") \/ At(c, "answered")
  /\ clicks' = [clicks EXCEPT ![c] = @ - 1]
  /\ \E p \in scenario.posts, i \in 0 .. Len(approvals) : Step(c, Post(p.tool, p.args, i, 0))
  /\ UNCHANGED <<scenario, bindings, bound, rate, approvals, effects, audit>>
  /\ UNCHANGED <<run, checkpoint, actor, asked>>

Handle(a) ==
  \/ Start(a) \/ Open(a) \/ Ask(a) \/ Drain(a) \/ Invoked(a) \/ Hold(a) \/ Held(a) \/ SaveLate(a)
  \/ Drained(a) \/ Settle(a) \/ Finish(a)
  \/ See(a) \/ Approve(a) \/ Load(a) \/ Resume(a) \/ Crash(a)

Rest ==
  /\ Quiescent
  /\ \A c \in Callers : At(c, "idle") \/ At(c, "answered")
  /\ UNCHANGED vars

Next ==
  \/ \E a \in Actors : Handle(a)
  \/ \E c \in Callers : Call(c)
  \/ GatewayNext /\ UNCHANGED agent
  \/ Rest

Spec == Init /\ [][Next]_vars

-----------------------------------------------------------------------------

StateOK(s) ==
  /\ s.made = Len(s.results) /\ s.turns \in 0 .. MaxTurns
  /\ s.calls \subseteq DOMAIN asked
  /\ \A i \in DOMAIN s.results : s.results[i].key \in s.calls
  /\ s.pending.key \in s.calls \cup {0}

\* The types of everything; a request is at the gateway while it waits for it.
TypeOK ==
  /\ GatewayTypeOK
  /\ run \in {"absent", "running", "waiting"} \cup Terminal
  /\ StateOK(checkpoint)
  /\ \A a \in Actors : StateOK(actor[a].state)
  /\ \A a \in Actors : On(a, "invoking") => ~At(a, "idle") /\ request[a].for = actor[a].call.key

OneAtATime == scenario.patient
NoCrash == "crash" \notin scenario.faults

\* Whoever approves a call was shown that call, though the run moved on meanwhile
\* or others were faster (run_agent.py:138-141); and what the gateway wants
\* approved runs for an agent only if a human approved it, though a binding
\* raised the bar behind the back of the run (platform_clients.py:158-163).
SignedForWhatWasSeen ==
  scenario.unique =>
    /\ \A k \in DOMAIN asked : asked[k].signed \subseteq {k}
    /\ \A e \in effects : e.needs /\ e.for # 0 => asked[e.for].signed # {}

\* A call of the model runs at most once, when approvals come one at a time; and
\* though requests die, where no turn holds two calls (platform_clients.py:132-134).
CallRunsOnce ==
  OneAtATime /\ (NoCrash \/ scenario.single) =>
    \A k \in DOMAIN asked : \A e, f \in effects : e.for = k /\ f.for = k => e = f

Complete(s) ==
  /\ \A k \in s.calls : \E i \in DOMAIN s.results : s.results[i].key = k
  /\ \A i, j \in DOMAIN s.results : s.results[i].key = s.results[j].key => i = j

\* The model is never asked again with half of the results it asked for, nor with
\* one of them twice, whoever goes on with the run (entities.py:76-78).
TurnComplete == \A a \in Actors : On(a, "asking") => Complete(actor[a].state)

\* When nobody works on it a run has ended, with all its results, or waits for a
\* decision on a call that can still be decided and did not run.
RestsDecided ==
  OneAtATime /\ NoCrash /\ Quiescent =>
    \/ run = "absent"
    \/ run \in Terminal /\ checkpoint.pending = NoCall /\ Complete(checkpoint)
    \/ /\ run = "waiting" /\ checkpoint.pending.held
       /\ \A i \in DOMAIN checkpoint.results : checkpoint.results[i].key # checkpoint.pending.key
       /\ \A e \in effects : e.for # checkpoint.pending.key

\* The model is not asked at or above the ceiling, in a run that never waited for
\* a human (policies.py:55-60).
CeilingKept ==
  \A a \in Actors : On(a, "asking") /\ (\A k \in DOMAIN asked : ~asked[k].held) =>
    actor[a].state.made < MaxSteps

WithinRates == \A t \in Tools : rate[t] <= bindings[t].rate

\* The two controls do not contradict each other: where nothing fails, no rate is
\* exceeded and nobody changes a binding, what a human approved is done
\* (platform_clients.py:136-140).
ApprovedIsDone ==
  scenario.calm /\ WithinRates =>
    \A i \in DOMAIN checkpoint.results : LET result == checkpoint.results[i] IN
      asked[result.key].signed # {} => result.answer \in {"ok", "denied"}

\* Approvals: each is used once, by who saw the call, and for what was approved.
ApprovalsHonoured == TypeOK /\ ApprovedOnce /\ SignedForWhatWasSeen /\ ApprovedIsDone

\* Turns: each call runs once, all are answered before the next, and they end.
TurnsKept == CallRunsOnce /\ TurnComplete /\ CeilingKept
=============================================================================
