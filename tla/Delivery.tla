------------------------------ MODULE Delivery ------------------------------
(***************************************************************************)
(* What a broker promises about publications, without handlers, lists,     *)
(* identifiers or acknowledgements: a PUBLISH makes one copy for every     *)
(* subscriber; a copy is in transit until it is delivered to that          *)
(* subscriber, and is lost only in a step that loses a connection.         *)
(***************************************************************************)
EXTENDS Integers

CONSTANTS Client, Name

VARIABLES
  subscribers,  (* who is subscribed to all the names                      *)
  up,           (* the clients whose connection lasts                      *)
  transit,      (* copies of each publication on the way to each client    *)
  delivered     (* copies that have reached it                             *)

vars == <<subscribers, up, transit, delivered>>

None == [c \in Client |-> [t \in Name |-> 0]]

Init ==
  /\ subscribers \subseteq Client
  /\ up = Client
  /\ transit = None
  /\ delivered = None

Send(t) ==
  /\ transit' = [c \in Client |->
       [transit[c] EXCEPT ![t] = @ + IF c \in subscribers \cap up THEN 1 ELSE 0]]
  /\ UNCHANGED <<subscribers, up, delivered>>

Deliver(c, t) ==
  /\ transit[c][t] > 0
  /\ transit' = [transit EXCEPT ![c][t] = @ - 1]
  /\ delivered' = [delivered EXCEPT ![c][t] = @ + 1]
  /\ UNCHANGED <<subscribers, up>>

(***************************************************************************)
(* The connection of c fails.  Until the client returns, copies on the way *)
(* to it may be lost; so may, as it fails, what c had published and nobody *)
(* had taken over.                                                         *)
(***************************************************************************)
Lose(c) ==
  /\ up' = up \ {c}
  /\ \A d \in Client, t \in Name : transit'[d][t] <= transit[d][t]
  /\ c \notin up => \A d \in Client \ {c} : transit'[d] = transit[d]
  /\ UNCHANGED <<subscribers, delivered>>

Return(c) ==
  /\ \A t \in Name : transit[c][t] = 0
  /\ up' = up \cup {c}
  /\ UNCHANGED <<subscribers, transit, delivered>>

(* The process ends.                                                       *)
Stop == up' = {} /\ transit' = None /\ UNCHANGED <<subscribers, delivered>>

Next ==
  \/ Stop
  \/ \E c \in Client : Lose(c) \/ Return(c)
  \/ \E t \in Name : Send(t) \/ \E c \in Client : Deliver(c, t)

Spec == Init /\ [][Next]_vars

(* No copy stays in transit for ever.                                      *)
Arrives == \A c \in Client, t \in Name : transit[c][t] > 0 ~> transit[c][t] = 0

=============================================================================
