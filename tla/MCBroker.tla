------------------------------ MODULE MCBroker ------------------------------
(* Values for the constants of Broker, and symmetry.                       *)
EXTENDS Broker

CONSTANTS c1, c2, m1, m2, t1, x, y

(* SUBSCRIBE payloads: the empty one, and one filter with each QoS.        *)
OneFilter == {<<>>} \cup {t1 :> 0, t1 :> 1, t1 :> 2}

(* The name with two QoS, and the name together with a wildcard.           *)
TwoFilters == {t1 :> 1, t1 :> 2, t1 :> 1 @@ Hash :> 1}

Symmetry == Permutations(Client) \cup Permutations(Msg) \cup Permutations(ClientId)

=============================================================================
