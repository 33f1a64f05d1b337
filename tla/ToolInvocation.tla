---------------------------- MODULE ToolInvocation ----------------------------
(***************************************************************************)
(* InvokeTool of apps/mcp-gateway: what a project lets its members run,    *)
(* the rate, the approval a risky call waits for, the execution and its    *)
(* record.  Every step is one await of the handler:                        *)
(*                                                                         *)
(*   deciding -> metering -> opening ----------------> recording           *)
(*                        -> [taking ->] executing -> recording -> answered *)
(*                                                                         *)
(* An approval is a key in Redis that one call opens and another takes,    *)
(* while the bindings change and Redis, MongoDB, the secrets or the        *)
(* endpoint of the tool may fail.  Tools stand for their definitions; the  *)
(* ones that send data out of the project's zone are in `outside`.         *)
(***************************************************************************)
EXTENDS Naturals, Sequences, FiniteSets

CONSTANTS
  Callers, Tools, Args,
  Risky,        \* the tools of high risk
  Builtin,      \* the tools that need no binding
  DefaultRate,  \* of a tool whose binding names none, per minute
  Scenarios     \* see the MC module

VARIABLES
  scenario,
  bindings,   \* the binding of each tool
  bound,      \* how many of the scenario's changes of bindings were made
  rate,       \* calls counted in the current minute
  approvals,  \* all that were opened; Redis holds the pending ones
  request,    \* of each caller
  effects,    \* for the properties: what the tools did, numbered for each caller
  audit       \* the records, numbered like them

gateway == <<bindings, bound, rate, approvals, request, effects, audit>>

NoBinding == [kind |-> "none", enabled |-> FALSE, approval |-> FALSE, rate |-> DefaultRate]
Binding(enabled, approval, limit) ==
  [kind |-> "bound", enabled |-> enabled, approval |-> approval, rate |-> limit]
Bindings == [kind : {"none", "bound"}, enabled : BOOLEAN, approval : BOOLEAN, rate : Nat]

Quiet == [pc |-> "idle", tool |-> "none", args |-> "none", approval |-> 0, for |-> 0,
          needs |-> FALSE, limit |-> 0, status |-> "none", answer |-> "none"]

GatewayInit ==
  /\ scenario \in Scenarios
  /\ bindings = scenario.bindings
  /\ bound = 0
  /\ rate = [t \in Tools |-> 0]
  /\ approvals = <<>>
  /\ request = [c \in Callers |-> Quiet]
  /\ effects = {}
  /\ audit = {}

At(c, label) == request[c].pc = label
Post(tool, args, approval, for) ==
  [Quiet EXCEPT !.pc = "deciding", !.tool = tool, !.args = args, !.approval = approval, !.for = for]
Answered(r, answer) == [r EXCEPT !.pc = "answered", !.answer = answer]
Recording(r, status, answer) == [r EXCEPT !.pc = "recording", !.status = status, !.answer = answer]
Step(c, r) == request' = [request EXCEPT ![c] = r]

-----------------------------------------------------------------------------

\* isAllowedInProject
AllowedInProject(t) ==
  IF bindings[t] # NoBinding THEN bindings[t].enabled ELSE t \in Builtin

\* decideInvocation: membership is a precondition of every caller here.
MayInvoke(c, t) ==
  /\ AllowedInProject(t)
  /\ t \in Risky => c \in scenario.owners
  /\ t \notin scenario.outside

\* requiresApproval: a binding raises the bar and never lowers it.
RequiresApproval(t) == t \in Risky \/ bindings[t].approval

\* The binding, the decision, and whether an executor is ready.
Decide(c) ==
  LET r == request[c] IN
  /\ At(c, "deciding")
  /\ \E ready \in {TRUE} \cup {"executor" \notin scenario.faults} :
       Step(c, IF ~MayInvoke(c, r.tool) THEN Recording(r, "denied", "refused")
               ELSE IF ~ready THEN Recording(r, "failed", "failed")
               ELSE [r EXCEPT !.pc = "metering", !.needs = RequiresApproval(r.tool),
                              !.limit = bindings[r.tool].rate])
  /\ UNCHANGED <<scenario, bindings, bound, rate, approvals, effects, audit>>

\* The binding cannot be read: nothing was decided, and nothing is recorded.
DecideFails(c) ==
  /\ "mongo" \in scenario.faults
  /\ At(c, "deciding")
  /\ Step(c, Answered(request[c], "failed"))
  /\ UNCHANGED <<scenario, bindings, bound, rate, approvals, effects, audit>>

Metered(r) ==
  [r EXCEPT !.pc = IF ~r.needs THEN "executing" ELSE IF r.approval = 0 THEN "opening" ELSE "taking"]

\* RateLimiter.consume: a call over the limit is counted as well.
Meter(c) ==
  LET r == request[c] IN
  /\ At(c, "metering")
  /\ rate' = [rate EXCEPT ![r.tool] = @ + 1]
  /\ Step(c, IF rate[r.tool] + 1 > r.limit THEN Recording(r, "denied", "refused") ELSE Metered(r))
  /\ UNCHANGED <<scenario, bindings, bound, approvals, effects, audit>>

\* The limiter lets calls pass when Redis does not answer.
MeterFails(c) ==
  /\ "redis" \in scenario.faults
  /\ At(c, "metering")
  /\ Step(c, Metered(request[c]))
  /\ UNCHANGED <<scenario, bindings, bound, rate, approvals, effects, audit>>

\* assertApproved without an approval: one is opened, and the caller is told its id.
OpenApproval(c) ==
  LET r == request[c] IN
  /\ At(c, "opening")
  /\ approvals' = Append(approvals, [tool |-> r.tool, args |-> r.args, state |-> "pending"])
  /\ Step(c, [Recording(r, "approval_required", "held") EXCEPT !.approval = Len(approvals) + 1])
  /\ UNCHANGED <<scenario, bindings, bound, rate, effects, audit>>

Taken(i) == approvals' = [approvals EXCEPT ![i].state = "gone"]

\* (A mistake, for the mutant runs: the approval is read and left there.)
TakeApprovalKeeps(c) ==
  LET r == request[c] IN
  /\ At(c, "taking")
  /\ LET approval == approvals[r.approval] IN
     Step(c, IF approval.state = "pending" /\ approval.tool = r.tool /\ approval.args = r.args
             THEN [r EXCEPT !.pc = "executing"] ELSE Answered(r, "refused"))
  /\ UNCHANGED <<scenario, bindings, bound, rate, approvals, effects, audit>>

\* assertApproved: the approval is taken whatever it is for, and compared then.
TakeApproval(c) ==
  LET r == request[c] IN
  /\ At(c, "taking")
  /\ Taken(r.approval)
  /\ LET approval == approvals[r.approval] IN
     Step(c, IF approval.state = "pending" /\ approval.tool = r.tool /\ approval.args = r.args
             THEN [r EXCEPT !.pc = "executing"] ELSE Answered(r, "refused"))
  /\ UNCHANGED <<scenario, bindings, bound, rate, effects, audit>>

\* Redis does not answer, or after it did what it was told.
ApprovalFails(c) ==
  LET r == request[c] IN
  /\ "redis" \in scenario.faults
  /\ At(c, "opening") \/ At(c, "taking")
  /\ Step(c, Answered(r, "failed"))
  /\ IF At(c, "taking") THEN Taken(r.approval) \/ UNCHANGED approvals ELSE UNCHANGED approvals
  /\ UNCHANGED <<scenario, bindings, bound, rate, effects, audit>>

ApprovalExpires(i) ==
  /\ "expiry" \in scenario.faults
  /\ i \in DOMAIN approvals
  /\ approvals[i].state = "pending"
  /\ Taken(i)
  /\ UNCHANGED <<scenario, bindings, bound, rate, request, effects, audit>>

\* credentialFor: outside of the try, so there is no record.
CredentialFails(c) ==
  /\ "secret" \in scenario.faults
  /\ At(c, "executing")
  /\ Step(c, Answered(request[c], "failed"))
  /\ UNCHANGED <<scenario, bindings, bound, rate, approvals, effects, audit>>

EffectsOf(c) == {e \in effects : e.caller = c}
Effect(c) == [caller |-> c, nth |-> Cardinality(EffectsOf(c)) + 1, tool |-> request[c].tool,
              args |-> request[c].args, approval |-> request[c].approval,
              needs |-> request[c].needs, for |-> request[c].for]

\* (A mistake, for the mutant runs: a failed execution leaves no record.)
ExecuteUnrecorded(c) ==
  LET r == request[c] IN
  /\ At(c, "executing")
  /\ \E happens \in BOOLEAN, ok \in {TRUE} \cup {"endpoint" \notin scenario.faults} :
       /\ ok => happens
       /\ effects' = IF happens THEN effects \cup {Effect(c)} ELSE effects
       /\ Step(c, IF ok THEN Recording(r, "ok", "ok") ELSE Answered(r, "failed"))
  /\ UNCHANGED <<scenario, bindings, bound, rate, approvals, audit>>

\* The executor: what times out or breaks may have happened all the same.
Execute(c) ==
  LET r == request[c] IN
  /\ At(c, "executing")
  /\ \E happens \in BOOLEAN, ok \in {TRUE} \cup {"endpoint" \notin scenario.faults} :
       /\ ok => happens
       /\ effects' = IF happens THEN effects \cup {Effect(c)} ELSE effects
       /\ Step(c, IF ok THEN Recording(r, "ok", "ok") ELSE Recording(r, "failed", "failed"))
  /\ UNCHANGED <<scenario, bindings, bound, rate, approvals, audit>>

RecordsOf(c) == {x \in audit : x.caller = c}
RecordOf(c) == [caller |-> c, nth |-> Cardinality(RecordsOf(c)) + 1, tool |-> request[c].tool,
                status |-> request[c].status]

\* AuditRepository.record; an "ok" goes with its event in one transaction.
Record(c) ==
  /\ At(c, "recording")
  /\ audit' = audit \cup {RecordOf(c)}
  /\ Step(c, Answered(request[c], request[c].answer))
  /\ UNCHANGED <<scenario, bindings, bound, rate, approvals, effects>>

\* The record is rejected, whether it landed or not; that of a success is caught
\* and recorded as a failure.
RecordFails(c) ==
  LET r == request[c] IN
  /\ "mongo" \in scenario.faults
  /\ At(c, "recording")
  /\ audit' = audit \cup {RecordOf(c)} \/ audit' = audit
  /\ Step(c, IF r.status = "ok" THEN Recording(r, "failed", "failed") ELSE Answered(r, "failed"))
  /\ UNCHANGED <<scenario, bindings, bound, rate, approvals, effects>>

-----------------------------------------------------------------------------

\* BindTool and UnbindTool: the scenario's changes, in their order, at any time.
Bind ==
  /\ bound < Len(scenario.binds)
  /\ bound' = bound + 1
  /\ LET change == scenario.binds[bound + 1] IN
     bindings' = [bindings EXCEPT ![change.tool] = change.binding]
  /\ UNCHANGED <<scenario, rate, approvals, request, effects, audit>>

\* The minute of a counter ends.
WindowEnds(t) ==
  /\ "minute" \in scenario.faults
  /\ rate[t] > 0
  /\ rate' = [rate EXCEPT ![t] = 0]
  /\ UNCHANGED <<scenario, bindings, bound, approvals, request, effects, audit>>

Serve(c) ==
  \/ Decide(c) \/ DecideFails(c) \/ Meter(c) \/ MeterFails(c) \/ OpenApproval(c) \/ TakeApproval(c)
  \/ ApprovalFails(c) \/ CredentialFails(c) \/ Execute(c) \/ Record(c) \/ RecordFails(c)

GatewayNext ==
  \/ \E c \in Callers : Serve(c)
  \/ \E i \in 1 .. scenario.approvals : ApprovalExpires(i)
  \/ Bind
  \/ \E t \in Tools : WindowEnds(t)

-----------------------------------------------------------------------------

GatewayTypeOK ==
  /\ \A t \in Tools : bindings[t].kind \in {"none", "bound"} /\ bindings[t].rate \in Nat
  /\ \A i \in DOMAIN approvals : /\ approvals[i].tool \in Tools /\ approvals[i].args \in Args
                                 /\ approvals[i].state \in {"pending", "gone"}
  /\ \A c \in Callers :
       /\ request[c].pc \in {"idle", "deciding", "metering", "opening", "taking", "executing",
                             "recording", "answered"}
       /\ request[c].approval \in 0 .. Len(approvals)

\* What a human has to approve runs once for an approval, and is what was approved:
\* whoever holds the id, however many take it at a time, and whatever becomes of
\* the binding meanwhile (invoke-tool.ts:171-177, redis-approval-store.ts:26-29).
ApprovedOnce ==
  \A e \in effects :
    /\ e.tool \in Risky => e.needs
    /\ e.needs =>
         /\ e.approval # 0
         /\ approvals[e.approval].tool = e.tool /\ approvals[e.approval].args = e.args
         /\ \A f \in effects : f.needs /\ f.approval = e.approval => f = e

\* How many records of a caller have one of the statuses, with the one that is being made.
Recorded(c, statuses) ==
  Cardinality({x \in RecordsOf(c) : x.status \in statuses})
  + (IF At(c, "recording") /\ request[c].status \in statuses THEN 1 ELSE 0)

\* While MongoDB works nothing is done without a record of it, though the tool
\* only seemed to fail; and no record tells of a success that there was not
\* (audit.repository.ts:13-18).
EffectsAudited ==
  "mongo" \notin scenario.faults =>
    \A c \in Callers :
      /\ Recorded(c, {"ok"}) <= Cardinality(EffectsOf(c))
      /\ Cardinality(EffectsOf(c)) <= Recorded(c, {"ok", "failed"})
=============================================================================
