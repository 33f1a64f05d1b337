----------------------------- MODULE Resilience -----------------------------
(***************************************************************************)
(* ResilienceExecutor.execute (packages/resilience): the calls of the      *)
(* replicas of a service to one dependency, under one policy.  Layers,     *)
(* outermost first: bulkhead, retry, circuit breaker, timeout, operation.  *)
(*                                                                         *)
(*   idle -> [waiting -> granted | polling] -> trying -> running           *)
(*        trying, running -> backoff -> trying                             *)
(*        trying, running -> releasing -> answered | failed                *)
(*                                                                         *)
(* A call suspends while it waits for a slot, while its operation runs and *)
(* while it backs off.  The circuit belongs to the process; so does the    *)
(* InMemoryBulkhead, whereas the RedisBulkhead is one for all replicas.    *)
(* An operation settles when it likes: the timeout only aborts it, and     *)
(* what it answers then is one more retryable failure.                     *)
(***************************************************************************)
EXTENDS Integers, Sequences, SequencesExt, FiniteSets

CONSTANTS
  Executions, Processes,
  MaxConcurrent, AcquireTimeout, LeaseTtl,          \* BulkheadPolicy
  MaxAttempts, MaxDelay,                            \* RetryPolicy
  FailureThreshold, SuccessThreshold, OpenTime,     \* CircuitBreakerPolicy
  MaxClock,           \* bound on the clock
  Situations          \* the bulkhead, the process of each call, the errors of the
                     \* dependency, and the faults that may happen together

\* What an operation may fail with: a status the policy retries or not (none
\* counts as retryable), and the Retry-After of the dependency, if any.
NoHint  == -1
Errors == [retryable : BOOLEAN, after : {NoHint} \cup Nat]

\* race: a call comes in after a slot was freed and before its waiter resumes;
\* overrun: a lease expires under a call that still runs; redis: an EVAL is
\* rejected, applied or not; abort: the caller gives up; crash: a process dies.
AllFaults == {"race", "overrun", "redis", "abort", "crash"}

ASSUME ResilienceAssumption ==
  /\ IsFiniteSet(Executions)
  /\ MaxConcurrent \in Nat \ {0} /\ AcquireTimeout \in Nat /\ LeaseTtl \in Nat \ {0}
  /\ MaxAttempts \in Nat /\ MaxDelay \in Nat
  /\ FailureThreshold \in Nat \ {0} /\ SuccessThreshold \in Nat \ {0}
  /\ OpenTime \in Nat /\ MaxClock \in Nat
  /\ \A s \in Situations :
       /\ s.bulkhead \in {"none", "memory", "redis"}
       /\ s.host \in [Executions -> Processes]
       /\ s.errors \subseteq Errors
       /\ s.faults \subseteq AllFaults

VARIABLES
  situation,  \* never changes
  clock,
  pc, outcome,  \* what a call does next, and what it will end with
  attempt,   \* the additional attempts made so far
  wake,      \* when its timer fires: the end of a wait, a poll or a backoff
  aborted,   \* its caller's signal
  inFlight, queue,  \* InMemoryBulkhead: the slots in use, those who wait
  leases,    \* RedisBulkhead: the members of the sorted set
  circuit,   \* the CircuitEntry of each process
  log        \* what its circuit has recorded, for the properties alone

callVars == <<pc, outcome, attempt, wake, aborted>>
slotVars == <<inFlight, queue, leases>>
resilienceVars == <<situation, clock, callVars, slotVars, circuit, log>>

Outcomes   == {"answered", "failed", "limited", "gone"}
Holding == {"trying", "running", "backoff", "releasing"}
Labels  == Outcomes \cup Holding \cup {"idle", "waiting", "granted", "polling"}

Closed == [state |-> "closed", failures |-> 0, successes |-> 0, until |-> 0]

Circuits == [state : {"closed", "open", "half-open"}, failures : Nat,
             successes : Nat, until : Nat]

ResilienceInit ==
  /\ situation \in Situations
  /\ clock = 0
  /\ pc = [c \in Executions |-> "idle"]
  /\ outcome = [c \in Executions |-> "none"]
  /\ attempt = [c \in Executions |-> 0]
  /\ wake = [c \in Executions |-> 0]
  /\ aborted = [c \in Executions |-> FALSE]
  /\ inFlight = [p \in Processes |-> 0]
  /\ queue = [p \in Processes |-> <<>>]
  /\ leases = {}
  /\ circuit = [p \in Processes |-> Closed]
  /\ log = [p \in Processes |-> <<>>]

ProcessOf == situation.host

Fault(f) == f \in situation.faults

\* At the bound of the clock every timer has fired.
Due(t) == clock >= t \/ clock = MaxClock

Stands(c, label) == pc[c] = label
Moves(c, label) == pc' = [pc EXCEPT ![c] = label]
WakesAt(c, t) == wake' = [wake EXCEPT ![c] = t]

Live(p) == {c \in Executions : ProcessOf[c] = p /\ pc[c] # "gone"}
Holders(p) == {c \in Live(p) : pc[c] \in Holding}
Granted(p) == {c \in Live(p) : pc[c] = "granted"}

-----------------------------------------------------------------------------
\* Bulkhead.

\* execute() is called: without a bulkhead, the first attempt starts at once.
EnterFreely(c) ==
  /\ situation.bulkhead = "none"
  /\ Stands(c, "idle") /\ Moves(c, "trying")
  /\ UNCHANGED <<situation, clock, outcome, attempt, wake, aborted, slotVars, circuit, log>>

\* InMemoryBulkhead.acquire, up to its await.  The microtask that resumes a
\* waiter is ahead of every later task, but not of those queued before it.
EnterInMemory(c) ==
  LET p == ProcessOf[c] IN
  /\ situation.bulkhead = "memory"
  /\ Stands(c, "idle")
  /\ Fault("race") \/ Granted(p) = {}
  /\ IF inFlight[p] < MaxConcurrent
     THEN /\ Moves(c, "trying")
          /\ inFlight' = [inFlight EXCEPT ![p] = @ + 1]
          /\ UNCHANGED <<queue, wake>>
     ELSE /\ Moves(c, "waiting")
          /\ queue' = [queue EXCEPT ![p] = Append(@, c)]
          /\ WakesAt(c, clock + AcquireTimeout)
          /\ UNCHANGED inFlight
  /\ UNCHANGED <<situation, clock, outcome, attempt, aborted, leases, circuit, log>>

\* (A mistake, for the mutant runs: a slot taken without counting it.)
TakeSlotUncounted(c) ==
  /\ Stands(c, "granted") /\ Moves(c, "trying")
  /\ WakesAt(c, 0)
  /\ UNCHANGED <<situation, clock, outcome, attempt, aborted, inFlight, queue, leases, circuit, log>>

\* The waiter that a release has picked takes its slot.
TakeSlot(c) ==
  /\ Stands(c, "granted") /\ Moves(c, "trying")
  /\ inFlight' = [inFlight EXCEPT ![ProcessOf[c]] = @ + 1]
  /\ WakesAt(c, 0)
  /\ UNCHANGED <<situation, clock, outcome, attempt, aborted, queue, leases, circuit, log>>

\* (A mistake, for the mutant runs: it stays in the queue.)
WaitTimesOutQueued(c) ==
  /\ Stands(c, "waiting") /\ Due(wake[c]) /\ Moves(c, "limited")
  /\ UNCHANGED <<situation, clock, outcome, attempt, wake, aborted, slotVars, circuit, log>>

\* splice(indexOf(c), 1)
Spliced(q, c) == IF \E i \in DOMAIN q : q[i] = c THEN RemoveAt(q, CHOOSE i \in DOMAIN q : q[i] = c) ELSE q

\* The acquire timer of a waiter fires: it leaves the queue.
WaitTimesOut(c) ==
  /\ Stands(c, "waiting") /\ Due(wake[c]) /\ Moves(c, "limited")
  /\ queue' = [queue EXCEPT ![ProcessOf[c]] = Spliced(@, c)]
  /\ UNCHANGED <<situation, clock, outcome, attempt, wake, aborted, inFlight, leases, circuit, log>>

\* RedisBulkhead.acquire, up to its first EVAL.
EnterInRedis(c) ==
  /\ situation.bulkhead = "redis"
  /\ Stands(c, "idle") /\ Moves(c, "polling")
  /\ WakesAt(c, clock + AcquireTimeout)
  /\ UNCHANGED <<situation, clock, outcome, attempt, aborted, slotVars, circuit, log>>

\* (A mistake, for the mutant runs: off by one.)
UnexpiredSoon == {l \in leases : l.expires > clock + 1}

\* The ACQUIRE script: what has expired is removed before it counts.
Unexpired == {l \in leases : l.expires > clock}
LeaseOf(c) == [call |-> c, expires |-> clock + LeaseTtl]

\* One round of the loop of RedisBulkhead.acquire.
Poll(c) ==
  /\ Stands(c, "polling")
  /\ \/ /\ Cardinality(Unexpired) < MaxConcurrent
        /\ leases' = Unexpired \cup {LeaseOf(c)}
        /\ Moves(c, "trying") /\ WakesAt(c, 0)
     \/ /\ Cardinality(Unexpired) >= MaxConcurrent
        /\ Due(wake[c])
        /\ leases' = Unexpired
        /\ Moves(c, "limited") /\ UNCHANGED wake
     \/ /\ Fault("redis")
        /\ \/ UNCHANGED leases
           \/ /\ Cardinality(Unexpired) < MaxConcurrent
              /\ leases' = Unexpired \cup {LeaseOf(c)}
        /\ Moves(c, "failed") /\ UNCHANGED wake
  /\ UNCHANGED <<situation, clock, outcome, attempt, aborted, inFlight, queue, circuit, log>>

-----------------------------------------------------------------------------
\* Circuit breaker.

Later(s, t) == IF s > t THEN s ELSE t
Sooner(s, t) == IF s < t THEN s ELSE t

Blocks(e) == e.state = "open" /\ e.until > clock

\* ensureClosed, when it does not throw.
Probing(e) ==
  IF e.state = "open" THEN [e EXCEPT !.state = "half-open", !.successes = 0] ELSE e

\* (A mistake, for the mutant runs: a late success counts like a probe's.)
AfterSuccessAnyTime(e) ==
  IF e.successes + 1 >= SuccessThreshold THEN Closed
  ELSE [e EXCEPT !.failures = 0, !.successes = @ + 1]

\* recordSuccess.
AfterSuccess(e) ==
  IF e.state # "half-open" THEN [e EXCEPT !.failures = 0, !.successes = 0]
  ELSE IF e.successes + 1 >= SuccessThreshold THEN Closed
  ELSE [e EXCEPT !.failures = 0, !.successes = @ + 1]

\* How long the failure keeps the circuit open.
OpenFor(hint) == IF hint = NoHint THEN OpenTime ELSE hint

\* (A mistake, for the mutant runs: a late failure does not extend the rest.)
AfterFailureOnce(e, hint) ==
  LET opens == e.state = "half-open" \/ e.failures + 1 >= FailureThreshold
      f     == [e EXCEPT !.failures = @ + 1, !.successes = 0]
  IN  IF opens /\ e.state # "open"
      THEN [f EXCEPT !.state = "open", !.until = clock + OpenFor(hint)] ELSE f

\* recordFailure, whichever state the circuit has reached by now.
AfterFailure(e, hint) ==
  LET opens == e.state = "half-open" \/ e.failures + 1 >= FailureThreshold
      f     == [e EXCEPT !.failures = @ + 1, !.successes = 0]
  IN  IF opens THEN [f EXCEPT !.state = "open", !.until = clock + OpenFor(hint)] ELSE f

Mark(what) == [what |-> what, until |-> 0, asked |-> FALSE]

Records(p, entry, what) ==
  /\ circuit' = [circuit EXCEPT ![p] = entry]
  /\ log' = [log EXCEPT ![p] = Append(@, what)]

-----------------------------------------------------------------------------
\* Retry.

\* withRetry catches: it gives up when the attempts are exhausted, the error is
\* not worth another, or the sleep rejects because the caller has given up.
Caught(c, retryable, hint) ==
  IF attempt[c] < MaxAttempts /\ retryable /\ ~aborted[c]
  THEN /\ Moves(c, "backoff")
       /\ attempt' = [attempt EXCEPT ![c] = @ + 1]
       /\ WakesAt(c, IF hint > 0 THEN clock + Sooner(hint, MaxDelay) ELSE 0)
       /\ UNCHANGED outcome
  ELSE /\ Moves(c, "releasing")
       /\ outcome' = [outcome EXCEPT ![c] = "failed"]
       /\ UNCHANGED <<attempt, wake>>

\* An attempt reads the circuit and starts the operation in the same turn.  An
\* open circuit is a retryable error (503) that is not recorded.
Attempt(c) ==
  LET p == ProcessOf[c] e == circuit[p] IN
  /\ Stands(c, "trying")
  /\ IF Blocks(e)
     THEN Caught(c, TRUE, NoHint) /\ UNCHANGED <<circuit, log>>
     ELSE /\ Moves(c, "running")
          /\ UNCHANGED <<outcome, attempt, wake>>
          /\ IF e.state = "open"
             THEN Records(p, Probing(e), Mark("probe"))
             ELSE UNCHANGED <<circuit, log>>
  /\ UNCHANGED <<situation, clock, aborted, slotVars>>

Succeed(c) ==
  LET p == ProcessOf[c] IN
  /\ Stands(c, "running")
  /\ Moves(c, "releasing")
  /\ outcome' = [outcome EXCEPT ![c] = "answered"]
  /\ Records(p, AfterSuccess(circuit[p]), Mark("ok"))
  /\ UNCHANGED <<situation, clock, attempt, wake, aborted, slotVars>>

\* The operation fails, times out or is aborted; the circuit counts it whatever
\* it was.
Fail(c) ==
  LET p == ProcessOf[c] IN
  /\ Stands(c, "running")
  /\ \E a \in situation.errors \cup (IF aborted[c] THEN {[retryable |-> TRUE, after |-> NoHint]} ELSE {}) :
       /\ LET e == AfterFailure(circuit[p], a.after) IN
          Records(p, e, [what  |-> "fail",
                         until |-> IF e.state = "open" THEN clock + OpenFor(a.after) ELSE 0,
                         asked |-> a.after # NoHint])
       /\ Caught(c, a.retryable, a.after)
  /\ UNCHANGED <<situation, clock, aborted, slotVars>>

\* The sleep ends; an abort ends it early, and the execution with it.
Resume(c) ==
  /\ Stands(c, "backoff")
  /\ IF aborted[c]
     THEN Moves(c, "releasing") /\ outcome' = [outcome EXCEPT ![c] = "failed"]
     ELSE Due(wake[c]) /\ Moves(c, "trying") /\ UNCHANGED outcome
  /\ WakesAt(c, 0)
  /\ UNCHANGED <<situation, clock, attempt, aborted, slotVars, circuit, log>>

-----------------------------------------------------------------------------
\* The finally block.

\* (A mistake, for the mutant runs: nobody is woken.)
PickedNobody(q) == {}

\* InMemoryBulkhead: the slot is free at once, and the first waiter is picked.
Picked(q) == IF q = <<>> THEN {} ELSE {Head(q)}

ReleaseInMemory(c) ==
  LET p == ProcessOf[c] IN
  /\ situation.bulkhead = "memory"
  /\ Stands(c, "releasing")
  /\ inFlight' = [inFlight EXCEPT ![p] = Later(0, @ - 1)]
  /\ queue' = [queue EXCEPT ![p] = IF Picked(@) = {} THEN @ ELSE Tail(@)]
  /\ pc' = [d \in Executions |-> IF d = c THEN outcome[c]
                            ELSE IF d \in Picked(queue[p]) THEN "granted" ELSE pc[d]]
  /\ UNCHANGED <<situation, clock, outcome, attempt, wake, aborted, leases, circuit, log>>

\* RedisBulkhead; when the EVAL is rejected, that error replaces the result.
ReleaseInRedis(c) ==
  /\ situation.bulkhead = "redis"
  /\ Stands(c, "releasing")
  /\ \/ /\ leases' = {l \in leases : l.call # c}
        /\ Moves(c, outcome[c])
     \/ /\ Fault("redis")
        /\ leases' = {l \in leases : l.call # c} \/ UNCHANGED leases
        /\ Moves(c, "failed")
  /\ UNCHANGED <<situation, clock, outcome, attempt, wake, aborted, inFlight, queue, circuit, log>>

ReleaseNothing(c) ==
  /\ situation.bulkhead = "none"
  /\ Stands(c, "releasing") /\ Moves(c, outcome[c])
  /\ UNCHANGED <<situation, clock, outcome, attempt, wake, aborted, slotVars, circuit, log>>

-----------------------------------------------------------------------------

Abort(c) ==
  /\ Fault("abort")
  /\ pc[c] \in {"trying", "running", "backoff"} /\ ~aborted[c]
  /\ aborted' = [aborted EXCEPT ![c] = TRUE]
  /\ UNCHANGED <<situation, clock, pc, outcome, attempt, wake, slotVars, circuit, log>>

\* A replica dies: its calls are gone and its memory with them.
Crash(p) ==
  /\ Fault("crash")
  /\ \E c \in Live(p) : pc[c] \notin Outcomes \cup {"idle"}
  /\ pc' = [c \in Executions |-> IF ProcessOf[c] = p /\ pc[c] \notin Outcomes \cup {"idle"}
                            THEN "gone" ELSE pc[c]]
  /\ inFlight' = [inFlight EXCEPT ![p] = 0]
  /\ queue' = [queue EXCEPT ![p] = <<>>]
  /\ circuit' = [circuit EXCEPT ![p] = Closed]
  /\ log' = [log EXCEPT ![p] = <<>>]
  /\ UNCHANGED <<situation, clock, outcome, attempt, wake, aborted, leases>>

\* Time passes.  Unless "overrun", a lease lasts longer than its execution.
Elapse ==
  /\ clock < MaxClock
  /\ Fault("overrun") \/ \A l \in leases : pc[l.call] \in Holding => l.expires > clock + 1
  /\ clock' = clock + 1
  /\ UNCHANGED <<situation, callVars, slotVars, circuit, log>>

Step(c) ==
  \/ EnterFreely(c) \/ EnterInMemory(c) \/ EnterInRedis(c)
  \/ TakeSlot(c) \/ WaitTimesOut(c) \/ Poll(c)
  \/ Attempt(c) \/ Succeed(c) \/ Fail(c) \/ Resume(c)
  \/ ReleaseInMemory(c) \/ ReleaseInRedis(c) \/ ReleaseNothing(c)

AllEnded == \A c \in Executions : pc[c] \in Outcomes

Settled == AllEnded /\ UNCHANGED resilienceVars

ResilienceNext ==
  \/ \E c \in Executions : Step(c) \/ Abort(c)
  \/ \E p \in Processes : Crash(p)
  \/ Elapse
  \/ Settled

ResilienceSpec == ResilienceInit /\ [][ResilienceNext]_resilienceVars

-----------------------------------------------------------------------------
\* Properties.

ResilienceTypeOK ==
  /\ situation \in Situations
  /\ clock \in 0 .. MaxClock
  /\ pc \in [Executions -> Labels]
  /\ outcome \in [Executions -> {"none", "answered", "failed"}]
  /\ attempt \in [Executions -> 0 .. MaxAttempts]
  /\ wake \in [Executions -> Nat]
  /\ aborted \in [Executions -> BOOLEAN]
  /\ inFlight \in [Processes -> Nat]
  /\ \A p \in Processes :
       /\ queue[p] \in Seq(Executions)
       /\ {queue[p][i] : i \in DOMAIN queue[p]} = {c \in Live(p) : pc[c] = "waiting"}
  /\ leases \subseteq [call : Executions, expires : Nat]
  /\ circuit \in [Processes -> Circuits]

\* No slot leaks and none is counted twice, through races for a slot, waiters
\* that time out, retries and aborts: the bulkhead knows exactly who holds one.
\* In Redis the lease of a dead process, or one whose release was lost, stays.
\* (bulkhead.ts:18, "Always release it in a `finally`".)
SlotsAccounted ==
  /\ situation.bulkhead = "memory" =>
       \A p \in Processes : inFlight[p] = Cardinality(Holders(p))
  /\ situation.bulkhead = "redis" /\ ~Fault("redis") =>
       \A l \in leases : pc[l.call] \in Holding \cup {"gone"}

AllHolders == UNION {Holders(p) : p \in Processes}

\* While nobody slips in before a waiter and no lease is outlived by its
\* execution, the limit is kept: in memory per process, in Redis over all of
\* them, whichever processes die (bulkhead.ts:23, "Caps concurrency per key").
WithinLimit ==
  ~Fault("race") /\ ~Fault("overrun") =>
    /\ situation.bulkhead = "memory" =>
         \A p \in Processes : Cardinality(Holders(p)) <= MaxConcurrent
    /\ situation.bulkhead = "redis" => Cardinality(AllHolders) <= MaxConcurrent

\* The slots of a bulkhead: as many as there are holders, and no more than its limit.
SlotsWithinLimit == ResilienceTypeOK /\ SlotsAccounted /\ WithinLimit

InUse(p) ==
  IF situation.bulkhead = "memory" THEN Cardinality(Holders(p) \cup Granted(p))
  ELSE Cardinality({l \in Unexpired : pc[l.call] \in Holding \cup {"gone"} \/ Fault("redis")})

\* A call is turned away only while the limit is really in use: no release is
\* lost on its waiters, and the lease of a dead process does not outlive its
\* time (bulkhead.ts:93, "does not wedge the semaphore forever").
LimitedOnlyWhenFull ==
  [][\A c \in Executions :
       pc[c] # "limited" /\ pc'[c] = "limited" => InUse(ProcessOf[c]) >= MaxConcurrent]_resilienceVars

\* What a circuit has been told: at i the last of enough consecutive failures ...
Trips(p) ==
  {i \in FailureThreshold .. Len(log[p]) :
     \A k \in i - FailureThreshold + 1 .. i : log[p][k].what = "fail"}

\* ... and since then a probe whose first outcomes were enough successes.
Recovered(p, i) ==
  \E j \in i + 1 .. Len(log[p]) - SuccessThreshold :
    /\ log[p][j].what = "probe"
    /\ \A k \in j + 1 .. j + SuccessThreshold : log[p][k].what = "ok"

\* A circuit is closed exactly when every run of failures it has been told of
\* was followed by a probe that went well, in whatever order the answers of
\* concurrent calls arrive (circuit-breaker.ts:55-81).
ClosedWhenRecovered ==
  \A p \in Processes :
    circuit[p].state = "closed" <=> \A i \in Trips(p) : Recovered(p, i)

Starts(c) == pc[c] = "trying" /\ pc'[c] = "running"

\* After the run of failures that opened the circuit, no operation starts in the
\* time its last failure asked for, whatever late answers did to the circuit.
RestsAfterTrip ==
  [][\A c \in Executions : Starts(c) =>
       \A i \in Trips(ProcessOf[c]) :
         (\A k \in Trips(ProcessOf[c]) : k <= i) => clock >= log[ProcessOf[c]][i].until]_resilienceVars

\* The circuit: closed when it should be, at rest when it was tripped.
CircuitHolds == []ClosedWhenRecovered /\ RestsAfterTrip

=============================================================================
