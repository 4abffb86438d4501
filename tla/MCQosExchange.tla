---------------------------- MODULE MCQosExchange ----------------------------
(* Values for the constants of QosExchange.                                *)
EXTENDS QosExchange

CONSTANTS c1, c2, m1, m2, t1, x, y

(* The identifier the broker starts with too.                              *)
Colliding == [t \in Name |-> 1]

(* Nobody subscribes or unsubscribes on the way.                           *)
NoRequests == {}

=============================================================================
