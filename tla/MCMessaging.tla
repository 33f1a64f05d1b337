------------------------------ MODULE MCMessaging ------------------------------
(***************************************************************************)
(* Two events, so that a batch has a first and a last one and a drain can  *)
(* be cut short between them; two relays, so that one can overtake the     *)
(* other; and two replicas of a subscriber, with one or two handlers, for  *)
(* the event of one relay.                                                 *)
(***************************************************************************)
EXTENDS Messaging, TLC

CONSTANTS e1, e2, r1, r2, c1, c2

TwoEvents == {e1, e2}
TwoRelays == {r1, r2}
TwoConsumers == {c1, c2}

Subscription(handlers, maxDeliveries, failing) ==
  [handlers |-> handlers, maxDeliveries |-> maxDeliveries, faults |-> failing]

Silent == Subscription(0, 5, {})
Steady == Subscription(2, 5, {})
Refusing == Subscription(1, 5, {"handler"})
AllSubscriptions ==
  {Silent, Steady, Refusing, Subscription(1, 5, {"stop"}), Subscription(2, 1, {"handler"}),
   Subscription(1, 5, {"handler", "redis", "crash"})}

AllFaultSets == {{"publish", "crash"}, {"publish", "mongo", "crash"}, {"slow"}, AllFaults, {"publish"}, {}}

\* Relays on their own: two events, and one with every fault; and the whole way, for
\* one relay.
OnlyRelays ==
  {[events |-> TwoEvents, relays |-> TwoRelays, faults |-> f, subscription |-> Silent] :
     f \in {{"publish", "crash"}, {"publish", "mongo", "crash"}, {"slow"}}}
  \cup {[events |-> {e1}, relays |-> TwoRelays, faults |-> AllFaults, subscription |-> Silent]}
WholeWay ==
  {[events |-> {e1}, relays |-> {r1}, faults |-> {"publish"}, subscription |-> s] :
          s \in AllSubscriptions \ {Silent}}
  \cup {[events |-> TwoEvents, relays |-> {r1}, faults |-> {}, subscription |-> s] :
          s \in AllSubscriptions \ {Silent}}

\* A handler that fails below the limit, and a second event to read after the first.
OnlyRefusing == {[events |-> TwoEvents, relays |-> {r1}, faults |-> {}, subscription |-> Refusing]}

AllEnvironments == OnlyRelays \cup WholeWay
=============================================================================
