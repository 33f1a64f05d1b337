------------------------------- MODULE Messaging -------------------------------
(***************************************************************************)
(* packages/messaging, the way of an event: from the outbox of the service *)
(* that wrote it, by its relays, to the bus, and from there to the         *)
(* handlers of a service that subscribed.                                  *)
(*                                                                         *)
(* MongoOutbox and OutboxRelay: events wait in a Mongo collection until a  *)
(* relay has put them on the bus.  Every replica of a service runs one     *)
(* relay, and all of them drain the same collection.  A relay leases a     *)
(* batch, one findOneAndUpdate at a time, then publishes and marks its     *)
(* events in order.  It suspends at every one of these calls, so anything  *)
(* may happen in between: the other relays, the end of its own lease, a    *)
(* crash.  Time is abstracted: a lease nobody uses may lapse at any        *)
(* moment, one in use only when relays are slow.                           *)
(*                                                                         *)
(* RedisStreamSubscriber: what a relay publishes is an entry of the        *)
(* stream; the subscriber knows nothing else of the outbox.  The replicas  *)
(* of a service read one stream as the consumers of one group, and give    *)
(* each entry to the handlers of its type, one after the other.            *)
(*                                                                         *)
(*   down -> subscribing -> reading -> handling -> counting                *)
(*                                  -> acking -> handling, or reading      *)
(*                                                                         *)
(* Every step is one await.  What a read returns is pending until it is    *)
(* acknowledged; reads ask for `>` alone, so it is not returned again.     *)
(***************************************************************************)
EXTENDS Integers, Sequences, FiniteSets, SequencesExt

CONSTANTS
  Events,       \* the events a service writes
  Relays,       \* its replicas
  BatchSize,    \* `batchSize`
  MaxAttempts,  \* `maxAttempts`
  MaxLeases,    \* bound on the leases of one event
  MaxCrashes,   \* bound on the crashes of relays
  FaultSets     \* the environments: the faults that may happen together

\* publish: XADD rejects, applied or not; mongo: so does an update of the
\* collection; slow: a lease lapses while it is in use; crash: a replica dies.
AllFaults == {"publish", "mongo", "slow", "crash"}

ASSUME OutboxAssumption ==
  /\ IsFiniteSet(Events) /\ IsFiniteSet(Relays)
  /\ BatchSize \in Nat \ {0}
  /\ MaxAttempts \in Nat \ {0}
  /\ MaxLeases \in Nat
  /\ MaxCrashes \in Nat
  /\ FaultSets \subseteq SUBSET AllFaults

VARIABLES
  faults,    \* what may go wrong in this behaviour; never changes
  written,   \* the events in the collection, in the order of createdAt
  status,    \* pending, published or failed
  attempts,
  lease,     \* none, live or lapsed: what `leasedUntil` says
  pc,        \* what each relay does next
  batch,     \* the events it leased and has not finished with
  seen,      \* the attempts its markFailed has read
  sent,      \* how many times each event was put on the bus
  crashes

vars == <<faults, written, status, attempts, lease, pc, batch, seen, sent, crashes>>

Labels == {"idle", "leasing", "publishing", "marking", "failing", "updating"}

Init ==
  /\ faults \in FaultSets
  /\ written = <<>>
  /\ status = [e \in Events |-> "pending"]
  /\ attempts = [e \in Events |-> 0]
  /\ lease = [e \in Events |-> "none"]
  /\ pc = [r \in Relays |-> "idle"]
  /\ batch = [r \in Relays |-> <<>>]
  /\ seen = [r \in Relays |-> 0]
  /\ sent = [e \in Events |-> 0]
  /\ crashes = 0

Written == {written[i] : i \in DOMAIN written}

InBatch(r) == {batch[r][i] : i \in DOMAIN batch[r]}

Go(r, from, to) == pc[r] = from /\ pc' = [pc EXCEPT ![r] = to]

\* The request that caused the event writes it.
Write(e) ==
  /\ e \notin Written
  /\ written' = Append(written, e)
  /\ UNCHANGED <<faults, status, attempts, lease, pc, batch, seen, sent, crashes>>

Tick(r) ==
  /\ Go(r, "idle", "leasing")
  /\ UNCHANGED <<faults, written, status, attempts, lease, batch, seen, sent, crashes>>

-----------------------------------------------------------------------------
\* lease()

\* (Mistakes, for the mutant runs: an expired lease is not taken over; a live
\* one is; a failed event is.)
LeasableOnce(r) ==
  {i \in DOMAIN written : /\ status[written[i]] = "pending"
                          /\ lease[written[i]] = "none"
                          /\ written[i] \notin InBatch(r)
                          /\ attempts[written[i]] < MaxLeases}

LeasableByAll(r) ==
  {i \in DOMAIN written : /\ status[written[i]] = "pending"
                          /\ written[i] \notin InBatch(r)
                          /\ attempts[written[i]] < MaxLeases}

LeasableUnpublished(r) ==
  {i \in DOMAIN written : /\ status[written[i]] # "published"
                          /\ lease[written[i]] # "live"
                          /\ written[i] \notin InBatch(r)
                          /\ attempts[written[i]] < MaxLeases}

\* Pending, with no lease or one that is over.
Leasable(r) ==
  {i \in DOMAIN written : /\ status[written[i]] = "pending"
                          /\ lease[written[i]] # "live"
                          /\ written[i] \notin InBatch(r)
                          /\ attempts[written[i]] < MaxLeases}

\* (A mistake, for the mutant runs: `$inc` forgotten.)
LeaseUncounted(r) ==
  /\ Go(r, "leasing", "leasing")
  /\ Len(batch[r]) < BatchSize
  /\ \E i \in Leasable(r) :
       /\ lease' = [lease EXCEPT ![written[i]] = "live"]
       /\ batch' = [batch EXCEPT ![r] = Append(@, written[i])]
  /\ UNCHANGED <<faults, written, status, attempts, seen, sent, crashes>>

\* The update of findOneAndUpdate: it leases the oldest one and counts the attempt.
LeaseOldest(r, i) ==
  /\ i \in Leasable(r)
  /\ \A j \in Leasable(r) : i <= j
  /\ lease' = [lease EXCEPT ![written[i]] = "live"]
  /\ attempts' = [attempts EXCEPT ![written[i]] = @ + 1]

LeaseNext(r) ==
  /\ Go(r, "leasing", "leasing")
  /\ Len(batch[r]) < BatchSize
  /\ \E i \in DOMAIN written :
       LeaseOldest(r, i) /\ batch' = [batch EXCEPT ![r] = Append(@, written[i])]
  /\ UNCHANGED <<faults, written, status, seen, sent, crashes>>

\* A rejected update, applied or not, rejects the whole drain: what was leased
\* so far stays leased and is never published by this relay.
LeaseRejects(r) ==
  /\ "mongo" \in faults
  /\ Go(r, "leasing", "idle")
  /\ Len(batch[r]) < BatchSize
  /\ batch' = [batch EXCEPT ![r] = <<>>]
  /\ \/ UNCHANGED <<lease, attempts>>
     \/ \E i \in DOMAIN written : LeaseOldest(r, i)
  /\ UNCHANGED <<faults, written, status, seen, sent, crashes>>

LeaseDone(r) ==
  /\ Len(batch[r]) = BatchSize \/ Leasable(r) = {}
  /\ Go(r, "leasing", IF batch[r] = <<>> THEN "idle" ELSE "publishing")
  /\ UNCHANGED <<faults, written, status, attempts, lease, batch, seen, sent, crashes>>

Lapse(e) ==
  /\ lease[e] = "live"
  /\ "slow" \in faults \/ \A r \in Relays : e \notin InBatch(r)
  /\ lease' = [lease EXCEPT ![e] = "lapsed"]
  /\ UNCHANGED <<faults, written, status, attempts, pc, batch, seen, sent, crashes>>

-----------------------------------------------------------------------------
\* drain()

Current(r) == Head(batch[r])

\* The event is done with: the next one, or the end of this drain.
Advance(r, from) ==
  /\ Go(r, from, IF Len(batch[r]) = 1 THEN "idle" ELSE "publishing")
  /\ batch' = [batch EXCEPT ![r] = Tail(@)]

\* (A mistake, for the mutant runs: a rejection of the bus is swallowed.)
PublishSwallows(r) ==
  /\ \/ /\ Go(r, "publishing", "marking")
        /\ sent' = [sent EXCEPT ![Current(r)] = @ + 1]
     \/ /\ "publish" \in faults
        /\ Go(r, "publishing", "marking")
        /\ UNCHANGED sent
  /\ UNCHANGED <<faults, written, status, attempts, lease, batch, seen, crashes>>

Publish(r) ==
  /\ \/ /\ Go(r, "publishing", "marking")
        /\ sent' = [sent EXCEPT ![Current(r)] = @ + 1]
     \/ /\ "publish" \in faults
        /\ Go(r, "publishing", "failing")
        /\ sent' \in {sent, [sent EXCEPT ![Current(r)] = @ + 1]}
  /\ UNCHANGED <<faults, written, status, attempts, lease, batch, seen, crashes>>

\* (A mistake, for the mutant runs: a status the rest of the code does not know.)
SetRecordSent(e, new) ==
  /\ status' = [status EXCEPT ![e] = IF new = "published" THEN "sent" ELSE new]
  /\ lease' = [lease EXCEPT ![e] = "none"]

\* Neither mark looks at the state the record is in, nor at whose lease it is.
SetRecord(e, new) ==
  /\ status' = [status EXCEPT ![e] = new]
  /\ lease' = [lease EXCEPT ![e] = "none"]

\* A rejected markPublished is caught with the failures of publish.
MarkPublished(r) ==
  /\ \/ /\ Advance(r, "marking")
        /\ SetRecord(Current(r), "published")
     \/ /\ "mongo" \in faults
        /\ Go(r, "marking", "failing")
        /\ SetRecord(Current(r), "published") \/ UNCHANGED <<status, lease>>
        /\ UNCHANGED batch
  /\ UNCHANGED <<faults, written, attempts, seen, sent, crashes>>

\* A rejection inside the catch block rejects the whole drain: what is left of
\* the batch keeps its leases until they lapse.
DrainRejects(r, from) ==
  /\ "mongo" \in faults
  /\ Go(r, from, "idle")
  /\ batch' = [batch EXCEPT ![r] = <<>>]
  /\ seen' = [seen EXCEPT ![r] = 0]

\* markFailed reads the record ...
ReadAttempts(r) ==
  /\ \/ /\ Go(r, "failing", "updating")
        /\ seen' = [seen EXCEPT ![r] = attempts[Current(r)]]
        /\ UNCHANGED batch
     \/ DrainRejects(r, "failing")
  /\ UNCHANGED <<faults, written, status, attempts, lease, sent, crashes>>

\* (A mistake, for the mutant runs: an attempt too few.)
MarkFailedEarly(r) ==
  /\ Advance(r, "updating")
  /\ SetRecord(Current(r), IF seen[r] + 1 >= MaxAttempts THEN "failed" ELSE "pending")
  /\ seen' = [seen EXCEPT ![r] = 0]
  /\ UNCHANGED <<faults, written, attempts, sent, crashes>>

\* ... and decides from what it read.
MarkFailed(r) ==
  /\ LET verdict == IF seen[r] >= MaxAttempts THEN "failed" ELSE "pending"
     IN  \/ /\ Advance(r, "updating")
            /\ SetRecord(Current(r), verdict)
            /\ seen' = [seen EXCEPT ![r] = 0]
         \/ /\ DrainRejects(r, "updating")
            /\ SetRecord(Current(r), verdict) \/ UNCHANGED <<status, lease>>
  /\ UNCHANGED <<faults, written, attempts, sent, crashes>>

Crash(r) ==
  /\ "crash" \in faults
  /\ pc[r] # "idle"
  /\ crashes < MaxCrashes
  /\ crashes' = crashes + 1
  /\ pc' = [pc EXCEPT ![r] = "idle"]
  /\ batch' = [batch EXCEPT ![r] = <<>>]
  /\ seen' = [seen EXCEPT ![r] = 0]
  /\ UNCHANGED <<faults, written, status, attempts, lease, sent>>

Work(r) ==
  \/ Tick(r) \/ LeaseNext(r) \/ LeaseRejects(r) \/ LeaseDone(r) \/ Publish(r)
  \/ MarkPublished(r) \/ ReadAttempts(r) \/ MarkFailed(r)

-----------------------------------------------------------------------------

TypeOK ==
  /\ faults \in FaultSets
  /\ written \in Seq(Events)
  /\ status \in [Events -> {"pending", "published", "failed"}]
  /\ attempts \in [Events -> Nat]
  /\ lease \in [Events -> {"none", "live", "lapsed"}]
  /\ pc \in [Relays -> Labels]
  /\ batch \in [Relays -> Seq(Events)]
  /\ seen \in [Relays -> Nat]
  /\ sent \in [Events -> Nat]
  /\ crashes \in 0 .. MaxCrashes

\* Nothing is marked published that the bus has not got, however many relays
\* mark it and in whatever order their answers come (outbox.ts:8).
PublishedWasSent == \A e \in Events : status[e] = "published" => sent[e] > 0

\* What a relay has leased and not yet sent.
Unsent(r) ==
  IF pc[r] \in {"leasing", "publishing"} THEN InBatch(r)
  ELSE IF pc[r] = "idle" THEN {} ELSE InBatch(r) \ {Current(r)}

\* Duplicates are bounded by the leases: no lease sends an event twice, not even
\* that of a relay which was overtaken.
OneSendPerLease ==
  \A e \in Events :
    sent[e] + Cardinality({r \in Relays : e \in Unsent(r)}) <= attempts[e]

\* An event is given up only after its attempts (outbox.ts:94).
GivenUpLate == \A e \in Events : status[e] = "failed" => attempts[e] >= MaxAttempts

\* What the marks say and what the bus has got agree.
SendsAccounted == TypeOK /\ PublishedWasSent /\ OneSendPerLease /\ GivenUpLate

\* While no relay outlives its lease, an event is in the hands of one relay,
\* whatever crashes or rejects in between (outbox.ts:21).
OneRelayAtATime ==
  "slow" \notin faults => \A r, s \in Relays : r # s => InBatch(r) \cap InBatch(s) = {}

-----------------------------------------------------------------------------
\* The subscriber.

CONSTANTS
  Consumers,
  Subscriptions,  \* the environments: [handlers, maxDeliveries, faults]
  ReadCount,      \* batchSize
  MaxRestarts

\* handler: one rejects; redis: a command is rejected, applied or not; crash: a
\* replica dies; stop: it is told to stop.
ASSUME DeliveryAssumption ==
  /\ ReadCount \in Nat \ {0} /\ MaxRestarts \in Nat
  /\ \A s \in Subscriptions : /\ s.handlers \in Nat /\ s.maxDeliveries \in Nat
                              /\ s.faults \subseteq {"handler", "redis", "crash", "stop"}

VARIABLES
  subscription,  \* never changes
  stream,        \* the events that were put on it; an entry is a place in it
  group,         \* NoGroup, or where it began and what it has delivered last
  acked,         \* entries
  consumer,      \* [pc, batch, handler, running]
  handled,       \* for the properties: what the handlers did with each entry
  restarts

deliveryVars == <<subscription, stream, group, acked, consumer, handled, restarts>>

NoGroup == [exists |-> FALSE, from |-> 0, last |-> 0]
Down == [pc |-> "down", batch |-> <<>>, handler |-> 0, running |-> FALSE]

DeliveryInit ==
  /\ subscription \in Subscriptions
  /\ stream = <<>> /\ group = NoGroup /\ acked = {} /\ handled = <<>> /\ restarts = 0
  /\ consumer = [c \in Consumers |-> Down]

Can(fault) == fault \in subscription.faults
In(c, label) == consumer[c].pc = label
Moves(c, to) == consumer' = [consumer EXCEPT ![c] = to]
Entry(c) == Head(consumer[c].batch)

\* The loop of start(): a rejection ends it, and nobody calls it again.
Ends(c) == Moves(c, [Down EXCEPT !.pc = "ended"])
Reading(k) == IF k.running THEN [k EXCEPT !.pc = "reading", !.batch = <<>>, !.handler = 0]
              ELSE [Down EXCEPT !.pc = "ended"]
NextEntry(c) ==
  LET k == consumer[c] IN
  Moves(c, IF Len(k.batch) = 1 THEN Reading(k)
           ELSE [k EXCEPT !.pc = "handling", !.batch = Tail(@), !.handler = 1])
NextHandler(c) ==
  LET k == consumer[c] IN
  Moves(c, IF k.handler < subscription.handlers THEN [k EXCEPT !.pc = "handling", !.handler = @ + 1]
           ELSE [k EXCEPT !.pc = "acking"])

\* XADD, of a relay.  A stream that nobody reads is not recorded.
Arrives(event) ==
  /\ stream' = IF subscription.handlers = 0 THEN stream ELSE Append(stream, event)
  /\ handled' = IF subscription.handlers = 0 THEN handled ELSE Append(handled, <<>>)
  /\ UNCHANGED <<subscription, group, acked, consumer, restarts>>

Boot(c) ==
  /\ In(c, "down") /\ Moves(c, [Down EXCEPT !.pc = "subscribing"])
  /\ UNCHANGED <<subscription, stream, group, acked, handled, restarts>>

\* (A mistake, for the mutant runs: the group is made anew.)
CreatedAgain ==
  [exists |-> TRUE, from |-> IF group.exists THEN group.from ELSE Len(stream), last |-> Len(stream)]

\* XGROUP CREATE $: the entries there are were nobody's; BUSYGROUP is no error.
Created ==
  IF group.exists THEN group ELSE [exists |-> TRUE, from |-> Len(stream), last |-> Len(stream)]

Subscribe(c) ==
  /\ In(c, "subscribing")
  /\ \/ group' = Created /\ Moves(c, Reading([consumer[c] EXCEPT !.running = TRUE]))
     \/ Can("redis") /\ group' \in {group, Created} /\ Ends(c)
  /\ UNCHANGED <<subscription, stream, acked, handled, restarts>>

\* (A mistake, for the mutant runs: from the start of the stream.)
TakenAgain == [i \in 1 .. Min({Len(stream), group.last + ReadCount}) |-> i]

\* The entries after the last one that was delivered, as many as there are, or as a
\* read takes.
Taken ==
  [i \in 1 .. (IF Len(stream) - group.last < ReadCount THEN Len(stream) - group.last ELSE ReadCount)
     |-> group.last + i]

\* XREADGROUP >: what was read is pending, though its reply be lost.  A read that
\* finds nothing is made again.
Read(c) ==
  /\ In(c, "reading") /\ Taken # <<>>
  /\ group' = [group EXCEPT !.last = Last(Taken)]
  /\ \/ Moves(c, [consumer[c] EXCEPT !.pc = "handling", !.handler = 1, !.batch = Taken])
     \/ Can("redis") /\ Ends(c)
  /\ UNCHANGED <<subscription, stream, acked, handled, restarts>>

ReadFails(c) ==
  /\ Can("redis") /\ In(c, "reading") /\ Ends(c)
  /\ UNCHANGED <<subscription, stream, group, acked, handled, restarts>>

Did(c, what) ==
  handled' = [handled EXCEPT ![Entry(c)] = Append(@, [handler |-> consumer[c].handler, what |-> what])]

Handle(c) ==
  /\ In(c, "handling")
  /\ \/ Did(c, "done") /\ NextHandler(c)
     \/ Can("handler") /\ Moves(c, [consumer[c] EXCEPT !.pc = "counting"]) /\ UNCHANGED handled
  /\ UNCHANGED <<subscription, stream, group, acked, restarts>>

\* (A mistake, for the mutant runs: what failed once is over.)
CountAsDone(c) ==
  /\ In(c, "counting") /\ NextHandler(c)
  /\ UNCHANGED <<subscription, stream, group, acked, handled, restarts>>

\* deliveryCount: with reads of `>` alone it is 1.  Below the limit the entry is left as
\* it is, and at it the dead letter goes where onDeadLetter takes it.
Count(c) ==
  /\ In(c, "counting")
  /\ \/ IF 1 < subscription.maxDeliveries THEN NextEntry(c) /\ UNCHANGED handled
        ELSE Did(c, "dead") /\ NextHandler(c)
     \/ Can("redis") /\ Ends(c) /\ UNCHANGED handled
  /\ UNCHANGED <<subscription, stream, group, acked, restarts>>

Ack(c) ==
  /\ In(c, "acking")
  /\ \/ acked' = acked \cup {Entry(c)} /\ NextEntry(c)
     \/ Can("redis") /\ acked' \in {acked, acked \cup {Entry(c)}} /\ Ends(c)
  /\ UNCHANGED <<subscription, stream, group, handled, restarts>>

\* stop(): the batch is finished; who waits for a read ends when it returns.
Stop(c) ==
  /\ Can("stop") /\ consumer[c].running
  /\ Moves(c, [consumer[c] EXCEPT !.running = FALSE])
  /\ UNCHANGED <<subscription, stream, group, acked, handled, restarts>>

\* The read of a replica that was stopped returns with nothing, and its loop ends.
Returns(c) ==
  /\ In(c, "reading") /\ ~consumer[c].running /\ Ends(c)
  /\ UNCHANGED <<subscription, stream, group, acked, handled, restarts>>

\* The replica dies, or is started again after its loop has ended.
Restart(c) ==
  /\ restarts < MaxRestarts /\ restarts' = restarts + 1
  /\ In(c, "ended") \/ (Can("crash") /\ ~In(c, "down"))
  /\ Moves(c, Down)
  /\ UNCHANGED <<subscription, stream, group, acked, handled>>

Consume(c) == Boot(c) \/ Subscribe(c) \/ Read(c) \/ Handle(c) \/ Count(c) \/ Ack(c) \/ Returns(c)

-----------------------------------------------------------------------------

DeliveryTypeOK ==
  /\ group.from <= group.last /\ group.last <= Len(stream) /\ DOMAIN handled = DOMAIN stream
  /\ acked \subseteq DOMAIN stream
  /\ \A c \in Consumers : consumer[c].handler <= subscription.handlers

InHand(n) == {c \in Consumers : n \in ToSet(consumer[c].batch)}
Outcomes(n, h) == {i \in DOMAIN handled[n] : handled[n][i].handler = h}

\* Replicas of a service, however they start, stop and die, give an entry to one of
\* them; what is acknowledged was taken by every handler, or given up by one at its
\* limit; and only a rejection or a death leaves an entry that was read pending in
\* nobody's hands (redis-streams.ts:67-70, 147-176).  No handler gets an entry twice:
\* that is what the code does, and not what it says of itself (FailedReturns).
DeliveredOnce ==
  /\ DeliveryTypeOK
  /\ \A n \in DOMAIN stream : Cardinality(InHand(n)) <= 1
  /\ \A n \in DOMAIN stream, h \in 1 .. subscription.handlers : Cardinality(Outcomes(n, h)) <= 1
  /\ \A n \in acked, h \in 1 .. subscription.handlers : Outcomes(n, h) # {}
  /\ subscription.faults \subseteq {"stop"} =>
       \A n \in group.from + 1 .. group.last : n \in acked \/ InHand(n) # {}

-----------------------------------------------------------------------------
\* The whole way.

CONSTANT Environments  \* what there is: [events, relays, faults, subscription]

ASSUME MessagingAssumption ==
  \A e \in Environments : /\ e.events \subseteq Events /\ e.relays \subseteq Relays
                          /\ e.faults \in FaultSets /\ e.subscription \in Subscriptions

VARIABLE environment  \* never changes

allVars == <<environment, vars, deliveryVars>>

MessagingInit ==
  /\ environment \in Environments
  /\ Init /\ faults = environment.faults
  /\ DeliveryInit /\ subscription = environment.subscription

WriteEvent(e) == e \in environment.events /\ Write(e) /\ UNCHANGED <<environment, deliveryVars>>
LeaseLapses(e) == e \in environment.events /\ Lapse(e) /\ UNCHANGED <<environment, deliveryVars>>
RelayDies(r) == Crash(r) /\ UNCHANGED <<environment, deliveryVars>>

Relay(r) ==
  /\ r \in environment.relays
  /\ Work(r)
  /\ IF sent' = sent THEN UNCHANGED deliveryVars ELSE Arrives(Current(r))
  /\ UNCHANGED environment

Deliver(c) == subscription.handlers > 0 /\ Consume(c) /\ UNCHANGED <<environment, vars>>
Disturb(c) == subscription.faults # {} /\ (ReadFails(c) \/ Stop(c) \/ Restart(c)) /\ UNCHANGED <<environment, vars>>

MessagingNext ==
  \/ \E e \in Events : WriteEvent(e) \/ LeaseLapses(e)
  \/ \E r \in Relays : Relay(r) \/ RelayDies(r)
  \/ \E c \in Consumers : Deliver(c) \/ Disturb(c)

\* Relays go on, leases lapse, the replicas of a subscriber start and their calls return.
MessagingSpec ==
  /\ MessagingInit /\ [][MessagingNext]_allVars
  /\ \A r \in Relays : WF_allVars(Relay(r))
  /\ \A e \in Events : WF_allVars(LeaseLapses(e))
  /\ \A c \in Consumers : WF_allVars(Deliver(c))

-----------------------------------------------------------------------------

\* Of what the bus has got of an event, a subscriber gets no more copies than it was
\* leased.
CopiesBounded ==
  \A e \in Events : Cardinality({n \in DOMAIN stream : stream[n] = e}) <= attempts[e]

\* What the marks say, what the bus has got and what was handled agree.
EventsAccounted == SendsAccounted /\ CopiesBounded /\ DeliveredOnce

\* Published or given up; and what was published has come to every handler of the
\* subscribers, if none of them failed and their group was there when it was sent.
Arrived(e) ==
  /\ status[e] \in {"published", "failed"}
  /\ status[e] = "published" /\ subscription.handlers > 0 /\ subscription.faults = {} =>
       \E n \in DOMAIN stream :
         /\ stream[n] = e
         /\ n <= group.from \/ \A h \in 1 .. subscription.handlers : Outcomes(n, h) # {}

\* Every event that was written comes to rest in the end, and to those it is for, and
\* stays so, whatever relays crash and however often the bus rejects (outbox.ts:8,
\* redis-streams.ts:8-11).
EventsArrive ==
  faults \subseteq {"publish", "crash"} => \A e \in Events : e \in Written ~> []Arrived(e)

\* An entry that was read, that nobody acknowledged and nobody has in hand.
Forsaken(n) == n \in group.from + 1 .. group.last /\ n \notin acked /\ InHand(n) = {}

\* What the comments say of an entry whose handler failed: "at-least-once delivery"
\* (redis-streams.ts:8), "No ack: the message stays pending and returns on the next read"
\* (redis-streams.ts:175).  The copies of one event are at most its leases.
FailedReturns == \A n \in 1 .. MaxLeases : Forsaken(n) ~> InHand(n) # {}
=============================================================================
