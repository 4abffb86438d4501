------------------------------ MODULE Subtree ------------------------------
(***************************************************************************)
(* The subscription table (subtree.c): a hash table from topic filters to  *)
(* subscriber lists, each node holding a pointer to a Client.              *)
(*                                                                         *)
(* A table is a function from filters to sequences, nearest the list head  *)
(* first; an absent key is the empty sequence (iotbroker_subtree_unsub     *)
(* deletes a key with its last node).  ids is the client_id field of every *)
(* Client: NULL before CONNECT, and in a structure that has been freed.    *)
(***************************************************************************)
EXTENDS MessageStore, Sequences, SequencesExt

CONSTANTS
  ClientId,
  Plus, Hash,   (* the topic filters "+" and "#"      *)
  NULL,         (* the null pointer                   *)
  DEBUG         (* whether the DEBUG macro is defined *)

Filter == Name \cup {Plus, Hash}

SubNode == [client : Client, qos : Qos]

(***************************************************************************)
(* The subscriber nodes insert_pub_message visits for a published name of  *)
(* one level and two or more bytes: those of the name, of + and of #.      *)
(***************************************************************************)
Visited(tab, t) == tab[t] \o tab[Plus] \o tab[Hash]

(* The nodes of list l whose client has the client_id of c.                *)
SameId(ids, l, c) == {i \in DOMAIN l : ids[l[i].client] = ids[c]}

(* Mutant: a repeated SUBSCRIBE adds a node.                               *)
SubListAdds(ids, l, c, q) == <<[client |-> c, qos |-> q]>> \o l

(***************************************************************************)
(* iotbroker_subtree_sub on one list: the first node with the same         *)
(* client_id only changes its QoS; without one, c gets a node of its own   *)
(* behind the list head.                                                   *)
(***************************************************************************)
SubList(ids, l, c, q) ==
  LET same == SameId(ids, l, c)
  IN  IF same = {} THEN <<[client |-> c, qos |-> q]>> \o l
                   ELSE [l EXCEPT ![Min(same)].qos = q]

(* iotbroker_subtree_unsub on one list: the first node with the same id.   *)
UnsubList(ids, l, c) ==
  LET same == SameId(ids, l, c)
  IN  IF same = {} THEN l ELSE RemoveAt(l, Min(same))

(***************************************************************************)
(* The walk over l compares client ids with strcmp up to the first match:  *)
(* it has no defined result when it meets a null or freed one, its own     *)
(* included.                                                               *)
(***************************************************************************)
CompareUndefined(ids, l, c) ==
  \E i \in DOMAIN l :
    /\ ids[c] = NULL \/ ids[l[i].client] = NULL
    /\ \A j \in 1 .. i - 1 : ids[l[j].client] # ids[c]

(* display_subtree reads the address and port of every subscriber.         *)
DisplayUndefined(tab, live) ==
  DEBUG /\ \E f \in Filter : \E i \in DOMAIN tab[f] : tab[f][i].client \notin live

(***************************************************************************)
(* The table after the topics of a SUBSCRIBE, and of an UNSUBSCRIBE.  req  *)
(* gives the QoS of each filter: a payload that names a filter again finds *)
(* the node its earlier topic has changed, and changes it once more.       *)
(***************************************************************************)
Sub(ids, tab, c, req) ==
  [f \in Filter |-> IF f \in DOMAIN req THEN SubList(ids, tab[f], c, req[f])
                                        ELSE tab[f]]

Unsub(ids, tab, c, fs) ==
  [f \in Filter |-> IF f \in fs THEN UnsubList(ids, tab[f], c) ELSE tab[f]]

=============================================================================
