------------------------------ MODULE Numbering ------------------------------
(***************************************************************************)
(* Broker with a history variable: how many packet identifiers the broker  *)
(* has given to a client since a message began to wait.  send_publish      *)
(* takes the next number of a UINT16 (packet_handle.c:726) and never looks *)
(* whether an older message still waits with it, so identifiers are unique *)
(* only for a time; the history says for how long.                         *)
(***************************************************************************)
EXTENDS Broker

VARIABLE
  given    (* per list entry: the identifiers given from its own on, or    *)
           (* Around for any number above PidMod; 0 if it does not wait    *)

numberedVars == <<vars, given>>

Around == PidMod + 1
UpToAround(n) == IF n > PidMod THEN Around ELSE n

GivenTypeOK == given \in [Client -> [Rank -> 0 .. Around]]

NumberedInit == Init /\ given = [c \in Client |-> [p \in Rank |-> 0]]

(* The entries of a list that wait for the client to acknowledge them.     *)
Unanswered(q) == {p \in DOMAIN q : q[p].ps \in Waits}

(* A step numbers the entries in begun, from the newest to the oldest.     *)
Give ==
  given' = [c \in Client |-> [p \in Rank |->
    LET begun == Unanswered(mq'[c]) \ Unanswered(mq[c])
    IN  IF p \notin Unanswered(mq'[c]) THEN 0
        ELSE IF p \in begun
             THEN UpToAround(1 + Cardinality({r \in begun : r < p}))
        ELSE UpToAround(given[c][p] + Cardinality(begun))]]

NumberedSpec == NumberedInit /\ [][Next /\ Give]_numberedVars

-----------------------------------------------------------------------------

(***************************************************************************)
(* Two messages wait with one identifier, so that an acknowledgement can   *)
(* end the wrong handshake, only after every identifier has been given     *)
(* again while one of them waited: the counter is not reset, skips nothing *)
(* and gives nothing twice, through failed writes, acknowledgements in any *)
(* order and lists that are taken apart.                                   *)
(***************************************************************************)
SharedOnlyAfterRound ==
  \A c \in Client : \A p, r \in Unanswered(mq[c]) :
    p # r /\ mq[c][p].packet_id = mq[c][r].packet_id
      => given[c][p] > PidMod \/ given[c][r] > PidMod

=============================================================================
