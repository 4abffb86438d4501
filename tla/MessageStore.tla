---------------------------- MODULE MessageStore ----------------------------
(***************************************************************************)
(* The message store (message.c, message.h): one MessageStore per received *)
(* PUBLISH, shared by reference count between the message queues of the    *)
(* sessions, and the MessageQueue lists themselves.                        *)
(*                                                                         *)
(* A client's list is a function from ranks to entries.  list_add inserts  *)
(* behind the list head, so the element nearest the head is the newest and *)
(* has the greatest rank; a list_for_each walks the ranks downwards, and   *)
(* list_del only takes a rank away.  MaxRank bounds the ranks: the code    *)
(* has no limit on the length of a list.                                   *)
(***************************************************************************)
EXTENDS Integers, FiniteSets, FiniteSetsExt

CONSTANTS
  Client,   (* addresses a Client structure may be allocated at          *)
  Msg,      (* addresses a MessageStore may be allocated at              *)
  Name,     (* topic names, of one level and of at least two bytes       *)
  MaxRank,  (* greatest rank of a list: bounds the model, not the code   *)
  PidMod,   (* packet identifiers are UINT16: 2^16 in the code           *)
  NoPid     (* what malloc left in a packet_id nobody has assigned       *)

ASSUME StoreAssumption ==
  /\ IsFiniteSet(Client)
  /\ MaxRank \in Nat
  /\ PidMod \in Nat \ {0}
  /\ NoPid \notin 0 .. PidMod - 1

Qos == 0 .. 2
PacketId == 0 .. PidMod - 1

PublishState ==
  {"WAIT_TO_PUBLISH", "WAIT_FOR_PUBACK", "WAIT_FOR_PUBREL",
   "WAIT_FOR_PUBREC", "WAIT_FOR_PUBCOMP"}

(* MessageQueue: qs and resend_count are written once and never read.      *)
Entry == [ms : Msg, ps : PublishState, dir : {"MD_IN", "MD_OUT"},
          qos : Qos, packet_id : PacketId \cup {NoPid}]

(* MessageStore with the fields of its TopicPacket that anyone reads.      *)
Message == [topic : Name, qos : Qos, refer_count : Nat]

Rank == 1 .. MaxRank

EmptyList == [p \in {} |-> p]

IsList(q) == DOMAIN q \subseteq Rank /\ q \in [DOMAIN q -> Entry]

(* The rank of the element behind the list head, 0 for an empty list.      *)
Top(q) == Max(DOMAIN q \cup {0})

ListAdd(q, e) ==
  [p \in DOMAIN q \cup {Top(q) + 1} |-> IF p \in DOMAIN q THEN q[p] ELSE e]

(* Mutant: the entries stay linked.                                        *)
ListDelKeeps(q, D) == q

ListDel(q, D) == [p \in DOMAIN q \ D |-> q[p]]

(* What a walk from the head finds first.                                  *)
IsFirst(p, S) == p \in S /\ \A r \in S : r <= p

(* Mutant: an acknowledgement handler that compares the identifier only.   *)
WaitingAnyState(q, ps, pid) == {p \in DOMAIN q : q[p].packet_id = pid}

(***************************************************************************)
(* The entries of q that wait in state ps for packet pid: the test of the  *)
(* loops in handle_puback, handle_pubrec, handle_pubrel, handle_pubcomp.   *)
(***************************************************************************)
Waiting(q, ps, pid) ==
  {p \in DOMAIN q : q[p].packet_id = pid /\ q[p].ps = ps}

(* The entries of all the lists mq that refer to message m.                *)
References(mq, m) ==
  {x \in Client \X Rank : x[2] \in DOMAIN mq[x[1]] /\ mq[x[1]][x[2]].ms = m}

(* How many of the entries D of list q refer to m.                         *)
Count(q, D, m) == Cardinality({p \in D : q[p].ms = m})

(* iotbroker_message_store_insert: nobody refers to the message yet.       *)
Insert(store, m, t, q) ==
  [n \in DOMAIN store \cup {m} |->
     IF n = m THEN [topic |-> t, qos |-> q, refer_count |-> 0] ELSE store[n]]

(* Mutant: counts a publication, not its list entries.                     *)
AddOneReference(store, m, k) ==
  [store EXCEPT ![m].refer_count = @ + (IF k = 0 THEN 0 ELSE 1)]

(* refer_count++ once for every new entry.                                 *)
AddReferences(store, m, k) == [store EXCEPT ![m].refer_count = @ + k]

(* Mutants: a message is never freed; a message is freed one entry early.  *)
DerefKeeps(store, q, D) ==
  [m \in DOMAIN store |-> [store[m] EXCEPT !.refer_count = @ - Count(q, D, m)]]

DerefEarly(store, q, D) ==
  [m \in {n \in DOMAIN store :
            Count(q, D, n) > 0 => store[n].refer_count > Count(q, D, n) + 1} |->
     [store[m] EXCEPT !.refer_count = @ - Count(q, D, m)]]

(***************************************************************************)
(* iotbroker_message_store_deref, once for every entry of D: a message     *)
(* whose count reaches 0 is unlinked and freed.                            *)
(***************************************************************************)
Deref(store, q, D) ==
  [m \in {n \in DOMAIN store :
            Count(q, D, n) > 0 => store[n].refer_count > Count(q, D, n)} |->
     [store[m] EXCEPT !.refer_count = @ - Count(q, D, m)]]

=============================================================================
