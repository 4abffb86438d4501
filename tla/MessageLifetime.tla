-------------------------- MODULE MessageLifetime --------------------------
(***************************************************************************)
(* What the reference counts of message.c are for, without the counts: a   *)
(* stored message has a set of holders, and it goes away in the very step  *)
(* in which its last holder lets go of it, never before and never after.   *)
(* The holders of a message of Broker are the entries of the message lists *)
(* that point to it.                                                       *)
(***************************************************************************)
CONSTANTS Msg, Holder

VARIABLES
  alive,    (* the messages whose memory may be used       *)
  holders   (* who may still use each message              *)

Init ==
  /\ alive = {}
  /\ holders = [m \in Msg |-> {}]

(* A message arrives and is handed to its first holders, maybe to none.    *)
Publish(m) ==
  /\ m \notin alive
  /\ alive' = alive \cup {m}
  /\ \A n \in Msg \ {m} : holders'[n] = holders[n]

(***************************************************************************)
(* Holders come and go for the messages that are alive; those whose last   *)
(* holder goes are freed, and a message nobody has ever held stays.        *)
(***************************************************************************)
HandOver ==
  /\ alive' = {m \in alive : holders[m] # {} => holders'[m] # {}}
  /\ \A m \in Msg \ alive' : holders'[m] = {}

(* The process ends.                                                       *)
End ==
  /\ alive' = {}
  /\ holders' = [m \in Msg |-> {}]

Next ==
  /\ holders' \in [Msg -> SUBSET Holder]
  /\ (\E m \in Msg : Publish(m)) \/ HandOver \/ End

Spec == Init /\ [][Next]_<<alive, holders>>

=============================================================================
