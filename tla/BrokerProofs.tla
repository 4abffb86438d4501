---------------------------- MODULE BrokerProofs ----------------------------
(***************************************************************************)
(* Proofs about Broker, after those about the operators of MessageStore:   *)
(* what adding and taking away list entries does to the references of a    *)
(* message, and that the counts kept by Insert, AddReferences and Deref    *)
(* stay equal to their number.                                             *)
(*                                                                         *)
(* The inductive invariant IInv is the type of the variables together with *)
(* Agree: every list entry points to a stored message, and every stored    *)
(* message counts the entries that point to it.  Neither half is inductive *)
(* alone: Deref frees by the count, so that entries keep their messages    *)
(* only if the counts are exact and the counts stay exact only if what is  *)
(* freed has no entry left.                                                *)
(***************************************************************************)
EXTENDS Broker, RecursionProofs, FunctionTheorems

(* The type of the lists of all the clients.                               *)
AreLists(ls) == DOMAIN ls = Client /\ \A c \in Client : IsList(ls[c])

IsStore(st) == DOMAIN st \subseteq Msg /\ st \in [DOMAIN st -> Message]

(***************************************************************************)
(* The lists and the store agree: every entry points to a stored message,  *)
(* and a message counts the entries that point to it.                      *)
(***************************************************************************)
Agree(ls, st) ==
  /\ AreLists(ls)
  /\ IsStore(st)
  /\ \A c \in Client : \A p \in DOMAIN ls[c] : ls[c][p].ms \in DOMAIN st
  /\ \A m \in DOMAIN st : st[m].refer_count = Cardinality(References(ls, m))

-----------------------------------------------------------------------------
(* Lists                                                                   *)

(* The top of a list is no rank below any entry, and none beyond MaxRank.  *)
LEMMA TopIsGreatest ==
  ASSUME NEW q, DOMAIN q \subseteq Rank
  PROVE  /\ Top(q) \in 0 .. MaxRank
         /\ \A p \in DOMAIN q : p <= Top(q)
<1> DEFINE S == DOMAIN q \cup {0}
<1>1. S \subseteq Nat /\ S # {} /\ \A s \in S : s <= MaxRank
  BY StoreAssumption DEF Rank
<1>2. Max(S) \in S /\ \A y \in S : y <= Max(S)
  BY <1>1, StoreAssumption, MaxIsGreatest
<1> QED BY <1>2, StoreAssumption DEF Top, Rank

(* list_del leaves a list, of the other entries.                           *)
LEMMA ListDelType ==
  ASSUME NEW q, IsList(q), NEW D
  PROVE  /\ IsList(ListDel(q, D))
         /\ DOMAIN ListDel(q, D) = DOMAIN q \ D
         /\ \A p \in DOMAIN ListDel(q, D) : ListDel(q, D)[p] = q[p]
BY DEF IsList, ListDel

-----------------------------------------------------------------------------
(* References                                                              *)

(* There are finitely many.                                                *)
LEMMA ReferencesFinite ==
  ASSUME NEW ls, NEW m
  PROVE  /\ IsFiniteSet(References(ls, m))
         /\ Cardinality(References(ls, m)) \in Nat
<1>1. IsFiniteSet(Rank)
  BY StoreAssumption, FS_Interval DEF Rank
<1>2. IsFiniteSet(Client \X Rank)
  BY <1>1, StoreAssumption, FS_Product
<1>3. References(ls, m) \in SUBSET (Client \X Rank)
  BY DEF References
<1>4. IsFiniteSet(References(ls, m))
  BY <1>2, <1>3, FS_Subset
<1> QED BY <1>4, FS_CardinalityType

(* Entries taken out of one list of D are counted by Count.                *)
LEMMA CountIsCardinality ==
  ASSUME NEW ls, NEW c \in Client, IsList(ls[c]), NEW m,
         NEW D, D \subseteq DOMAIN ls[c]
  PROVE  LET R == {x \in References(ls, m) : x[1] = c /\ x[2] \in D}
         IN  /\ IsFiniteSet(R)
             /\ Cardinality(R) = Count(ls[c], D, m)
             /\ Count(ls[c], D, m) \in Nat
<1> DEFINE R == {x \in References(ls, m) : x[1] = c /\ x[2] \in D}
           P == {p \in D : ls[c][p].ms = m}
           f == [p \in P |-> <<c, p>>]
<1>1. D \subseteq Rank
  BY DEF IsList
<1>2. IsFiniteSet(P)
  <2>1. IsFiniteSet(Rank)
    BY StoreAssumption, FS_Interval DEF Rank
  <2>2. P \in SUBSET Rank
    BY <1>1
  <2> QED BY <2>1, <2>2, FS_Subset
<1>3. f \in [P -> R]
  BY <1>1 DEF References
<1>4. \A a, b \in P : f[a] = f[b] => a = b
  OBVIOUS
<1>5. \A x \in R : \E p \in P : f[p] = x
  <2> TAKE x \in R
  <2>1. x = <<x[1], x[2]>> /\ x[1] = c /\ x[2] \in P
    BY DEF References
  <2> QED BY <2>1
<1>6. ExistsBijection(P, R)
  <2>1. f \in Bijection(P, R)
    BY <1>3, <1>4, <1>5, Fun_IsBij
  <2> QED BY <2>1 DEF ExistsBijection
<1>7. IsFiniteSet(R) /\ Cardinality(R) = Cardinality(P)
  BY <1>2, <1>6, FS_Bijection
<1>8. Cardinality(P) \in Nat
  BY <1>2, FS_CardinalityType
<1>9. Count(ls[c], D, m) = Cardinality(P)
  BY DEF Count
<1> QED BY <1>7, <1>8, <1>9

-----------------------------------------------------------------------------
(* What keeps lists and store in agreement                                 *)

(* No session and no message.                                              *)
LEMMA EmptyAgrees ==
  Agree([c \in Client |-> EmptyList], [m \in {} |-> m])
<1> DEFINE ls == [c \in Client |-> EmptyList]
           st == [m \in {} |-> m]
<1>1. DOMAIN EmptyList = {} /\ IsList(EmptyList)
  BY DEF EmptyList, IsList
<1>2. AreLists(ls) /\ \A c \in Client : DOMAIN ls[c] = {}
  BY <1>1 DEF AreLists
<1>3. DOMAIN st = {} /\ IsStore(st)
  BY DEF IsStore
<1> HIDE DEF ls, st
<1>4. Agree(ls, st)
  BY <1>2, <1>3 DEF Agree
<1> QED BY <1>4 DEF ls, st

(* A new message has no reference yet.                                     *)
LEMMA InsertAgrees ==
  ASSUME NEW ls, NEW st, Agree(ls, st),
         NEW m \in Msg \ DOMAIN st, NEW t \in Name, NEW q \in Qos
  PROVE  /\ Agree(ls, Insert(st, m, t, q))
         /\ DOMAIN Insert(st, m, t, q) = DOMAIN st \cup {m}
         /\ References(ls, m) = {}
<1> DEFINE new == Insert(st, m, t, q)
<1>1. DOMAIN new = DOMAIN st \cup {m}
  BY DEF Insert
<1>2. IsStore(new)
  BY <1>1 DEF Insert, Agree, IsStore, Message
<1>3. References(ls, m) = {}
  BY DEF References, Agree
<1>4. ASSUME NEW n \in DOMAIN new
      PROVE  new[n].refer_count = Cardinality(References(ls, n))
  <2>1. CASE n = m
    BY <2>1, <1>3, FS_EmptySet DEF Insert
  <2>2. CASE n # m
    <3>1. n \in DOMAIN st /\ new[n] = st[n]
      BY <2>2 DEF Insert
    <3> QED BY <3>1 DEF Agree
  <2> QED BY <2>1, <2>2
<1>5. \A c \in Client : \A p \in DOMAIN ls[c] : ls[c][p].ms \in DOMAIN new
  BY <1>1 DEF Agree
<1>6. AreLists(ls)
  BY DEF Agree
<1> HIDE DEF new
<1>7. Agree(ls, new)
  BY <1>2, <1>4, <1>5, <1>6 DEF Agree
<1> QED BY <1>1, <1>3, <1>7 DEF new

(* New entries for one message, which counts k of them, N all of them.     *)
LEMMA AddingAgrees ==
  ASSUME NEW ls, NEW st, Agree(ls, st), NEW m \in DOMAIN st,
         NEW new, AreLists(new), NEW N, NEW k \in Nat,
         IsFiniteSet(N), Cardinality(N) = k, N \cap References(ls, m) = {},
         References(new, m) = References(ls, m) \cup N,
         \A n \in DOMAIN st \ {m} : References(new, n) = References(ls, n),
         \A c \in Client : \A p \in DOMAIN new[c] : new[c][p].ms \in DOMAIN st
  PROVE  Agree(new, AddReferences(st, m, k))
<1> DEFINE after == AddReferences(st, m, k)
<1>1. IsStore(st) /\ m \in Msg /\ st[m] \in Message
  BY DEF Agree, IsStore
<1>2. /\ DOMAIN after = DOMAIN st
      /\ after[m] = [st[m] EXCEPT !.refer_count = @ + k]
      /\ \A n \in DOMAIN st \ {m} : after[n] = st[n]
  BY DEF AddReferences
<1>3. after[m] \in Message /\ after[m].refer_count = st[m].refer_count + k
  BY <1>1, <1>2 DEF Message
<1>4. IsStore(after)
  <2>1. after \in [DOMAIN after -> Message]
    BY <1>1, <1>2, <1>3 DEF IsStore, AddReferences
  <2> QED BY <1>1, <1>2, <2>1 DEF IsStore
<1>5. Cardinality(References(new, m)) = st[m].refer_count + k
  <2>1. Cardinality(References(ls, m)) = st[m].refer_count
    BY DEF Agree
  <2>2. /\ IsFiniteSet(References(ls, m))
        /\ Cardinality(References(ls, m)) \in Nat
    BY ReferencesFinite
  <2>3. Cardinality(References(ls, m) \cap N) = 0
    BY FS_EmptySet
  <2>4. Cardinality(References(ls, m) \cup N)
          = Cardinality(References(ls, m)) + Cardinality(N) - 0
    BY <2>2, <2>3, FS_Union
  <2> QED BY <2>1, <2>2, <2>4
<1>6. ASSUME NEW n \in DOMAIN after
      PROVE  after[n].refer_count = Cardinality(References(new, n))
  <2>1. CASE n = m
    BY <2>1, <1>3, <1>5
  <2>2. CASE n # m
    <3>1. n \in DOMAIN st \ {m}
      BY <2>2, <1>2
    <3>2. References(new, n) = References(ls, n) /\ after[n] = st[n]
      BY <3>1, <1>2
    <3> QED BY <3>1, <3>2 DEF Agree
  <2> QED BY <2>1, <2>2
<1> HIDE DEF after
<1>7. Agree(new, after)
  BY <1>2, <1>4, <1>6 DEF Agree
<1> QED BY <1>7 DEF after

(* list_add of one entry, and refer_count++.                               *)
LEMMA ListAddAgrees ==
  ASSUME NEW ls, NEW st, Agree(ls, st), NEW c \in Client,
         NEW e \in Entry, e.ms \in DOMAIN st, Top(ls[c]) + 1 \in Rank
  PROVE  Agree([ls EXCEPT ![c] = ListAdd(@, e)], AddReferences(st, e.ms, 1))
<1> DEFINE top == Top(ls[c])
           new == [ls EXCEPT ![c] = ListAdd(@, e)]
           N == {<<c, top + 1>>}
<1>1. AreLists(ls) /\ IsList(ls[c])
  BY DEF Agree, AreLists
<1>2. top \in 0 .. MaxRank /\ \A p \in DOMAIN ls[c] : p <= top
  BY <1>1, TopIsGreatest DEF IsList
<1>3. top + 1 \notin DOMAIN ls[c]
  BY <1>2
<1>4. /\ DOMAIN new = Client
      /\ DOMAIN new[c] = DOMAIN ls[c] \cup {top + 1}
      /\ new[c][top + 1] = e
      /\ \A p \in DOMAIN ls[c] : new[c][p] = ls[c][p]
      /\ \A d \in Client \ {c} : new[d] = ls[d]
  BY <1>1, <1>3 DEF ListAdd, AreLists
<1>5. IsList(new[c])
  <2>1. new[c] = [p \in DOMAIN ls[c] \cup {top + 1} |->
                    IF p \in DOMAIN ls[c] THEN ls[c][p] ELSE e]
    BY <1>1 DEF ListAdd, AreLists
  <2> QED BY <2>1, <1>1, <1>4 DEF IsList
<1>6. AreLists(new)
  BY <1>1, <1>4, <1>5 DEF AreLists
<1>7. IsFiniteSet(N) /\ Cardinality(N) = 1
  BY FS_Singleton
<1>8. N \cap References(ls, e.ms) = {}
  BY <1>3 DEF References
<1>9. References(new, e.ms) = References(ls, e.ms) \cup N
  BY <1>4 DEF References
<1>10. \A n \in DOMAIN st \ {e.ms} : References(new, n) = References(ls, n)
  BY <1>3, <1>4 DEF References
<1>11. \A d \in Client : \A p \in DOMAIN new[d] : new[d][p].ms \in DOMAIN st
  BY <1>4 DEF Agree
<1> HIDE DEF new, N
<1>12. Agree(new, AddReferences(st, e.ms, 1))
  BY <1>6, <1>7, <1>8, <1>9, <1>10, <1>11, AddingAgrees
<1> QED BY <1>12 DEF new

(***************************************************************************)
(* The entries D leave the list of c, iotbroker_message_store_deref is     *)
(* called for each; what stays there keeps its message.                    *)
(***************************************************************************)
LEMMA DerefAgrees ==
  ASSUME NEW ls, NEW st, Agree(ls, st), NEW c \in Client,
         NEW D, D \subseteq DOMAIN ls[c],
         NEW q, IsList(q), DOMAIN q = DOMAIN ls[c] \ D,
         \A p \in DOMAIN q : q[p].ms = ls[c][p].ms
  PROVE  Agree([ls EXCEPT ![c] = q], Deref(st, ls[c], D))
<1> DEFINE new == [ls EXCEPT ![c] = q]
           after == Deref(st, ls[c], D)
           Out(m) == {x \in References(ls, m) : x[1] = c /\ x[2] \in D}
<1>1. AreLists(ls) /\ IsList(ls[c]) /\ IsStore(st)
  BY DEF Agree, AreLists
<1>2. DOMAIN new = Client /\ new[c] = q /\ \A d \in Client \ {c} : new[d] = ls[d]
  BY <1>1 DEF AreLists
<1>3. AreLists(new)
  BY <1>1, <1>2 DEF AreLists
<1>4. ASSUME NEW m PROVE References(new, m) = References(ls, m) \ Out(m)
  BY <1>2 DEF References
<1>5. ASSUME NEW m
      PROVE  /\ Cardinality(References(ls, m)) \in Nat
             /\ Count(ls[c], D, m) \in Nat
             /\ Cardinality(References(new, m)) \in Nat
             /\ Cardinality(References(new, m))
                  = Cardinality(References(ls, m)) - Count(ls[c], D, m)
  <2>1. IsFiniteSet(References(ls, m)) /\ Cardinality(References(ls, m)) \in Nat
    BY ReferencesFinite
  <2>2. Cardinality(Out(m)) = Count(ls[c], D, m) /\ Count(ls[c], D, m) \in Nat
    BY <1>1, CountIsCardinality
  <2>3. References(ls, m) \cap Out(m) = Out(m)
    OBVIOUS
  <2>4. Cardinality(References(ls, m) \ Out(m))
          = Cardinality(References(ls, m)) - Cardinality(Out(m))
    BY <2>1, <2>3, FS_Difference
  <2>5. Cardinality(References(new, m)) \in Nat
    BY ReferencesFinite
  <2> QED BY <1>4, <2>1, <2>2, <2>4, <2>5
<1>6. /\ DOMAIN after = {n \in DOMAIN st :
            Count(ls[c], D, n) > 0 => st[n].refer_count > Count(ls[c], D, n)}
      /\ \A m \in DOMAIN after :
           after[m] = [st[m] EXCEPT !.refer_count = @ - Count(ls[c], D, m)]
  BY DEF Deref
<1> HIDE DEF new, after, Out
<1>7. ASSUME NEW m \in DOMAIN after
      PROVE  /\ after[m] \in Message
             /\ after[m].refer_count = Cardinality(References(new, m))
  <2>1. m \in DOMAIN st /\ st[m] \in Message
    BY <1>1, <1>6 DEF IsStore
  <2>2. st[m].refer_count = Cardinality(References(ls, m))
    BY <2>1 DEF Agree
  <2>3. st[m].refer_count - Count(ls[c], D, m) = Cardinality(References(new, m))
    BY <2>2, <1>5
  <2>4. Cardinality(References(new, m)) \in Nat
    BY <1>5
  <2> QED BY <1>6, <2>1, <2>3, <2>4 DEF Message
<1>8. IsStore(after)
  <2>1. after = [m \in DOMAIN after |-> after[m]]
    BY DEF after, Deref
  <2>2. after \in [DOMAIN after -> Message]
    BY <2>1, <1>7
  <2> QED BY <2>2, <1>1, <1>6 DEF IsStore
<1>9. ASSUME NEW d \in Client, NEW p \in DOMAIN new[d]
      PROVE  new[d][p].ms \in DOMAIN after
  <2> DEFINE m == new[d][p].ms
  <2>1. p \in Rank
    BY <1>3 DEF AreLists, IsList
  <2>2. <<d, p>> \in References(new, m)
    BY <2>1 DEF References
  <2>3. Cardinality(References(new, m)) > 0
    <3>1. IsFiniteSet(References(new, m))
      BY ReferencesFinite
    <3>2. Cardinality(References(new, m)) # 0
      BY <2>2, <3>1, FS_EmptySet
    <3> QED BY <1>5, <3>2
  <2>4. m \in DOMAIN st
    <3>1. CASE d = c
      <4>1. new[d] = q /\ p \in DOMAIN ls[c] /\ m = ls[c][p].ms
        BY <3>1, <1>2
      <4> QED BY <4>1 DEF Agree
    <3>2. CASE d # c
      <4>1. new[d] = ls[d]
        BY <3>2, <1>2
      <4> QED BY <4>1 DEF Agree
    <3> QED BY <3>1, <3>2
  <2>5. st[m].refer_count = Cardinality(References(ls, m))
    BY <2>4 DEF Agree
  <2>6. st[m].refer_count > Count(ls[c], D, m)
    BY <1>5, <2>3, <2>5
  <2> QED BY <1>6, <2>4, <2>6
<1>10. Agree(new, after)
  BY <1>3, <1>7, <1>8, <1>9 DEF Agree
<1> QED BY <1>10 DEF new, after

(* Entries of one list change, but none comes, goes or changes message.    *)
LEMMA RelabelAgrees ==
  ASSUME NEW ls, NEW st, Agree(ls, st), NEW c \in Client,
         NEW q, IsList(q), DOMAIN q = DOMAIN ls[c],
         \A p \in DOMAIN q : q[p].ms = ls[c][p].ms
  PROVE  Agree([ls EXCEPT ![c] = q], st)
<1> DEFINE new == [ls EXCEPT ![c] = q]
<1>1. DOMAIN ls = Client
  BY DEF Agree, AreLists
<1>2. DOMAIN new = Client /\ new[c] = q /\ \A d \in Client \ {c} : new[d] = ls[d]
  BY <1>1
<1>3. AreLists(new)
  BY <1>2 DEF Agree, AreLists
<1>4. ASSUME NEW m PROVE References(new, m) = References(ls, m)
  BY <1>2 DEF References
<1> HIDE DEF new
<1>5. \A d \in Client : \A p \in DOMAIN new[d] : new[d][p].ms \in DOMAIN st
  BY <1>2 DEF Agree
<1>6. Agree(new, st)
  BY <1>3, <1>4, <1>5 DEF Agree
<1> QED BY <1>6 DEF new

-----------------------------------------------------------------------------
(* The inductive invariant                                                *)

(* TypeOK without the lists and the store.                                 *)
TypeRest ==
  /\ running \in BOOLEAN
  /\ sessions \subseteq Client
  /\ client_id \in [Client -> ClientId \cup {NULL}]
  /\ packet_id_source \in [Client -> PacketId]
  /\ subtree \in [Filter -> Seq(SubNode)]
  /\ closing \in sessions \cup {NULL}

(* A Client that is not in use has an empty list: Accept gives it a new    *)
(* one, and would otherwise take references away without a count.          *)
UnusedEmpty == \A c \in Client \ sessions : DOMAIN mq[c] = {}

IInv == TypeRest /\ Agree(mq, store) /\ UnusedEmpty

LEMMA IInvImplies == IInv => TypeOK /\ RefCountExact /\ QueuedIsStored
BY DEF IInv, TypeRest, Agree, AreLists, IsStore, TypeOK, RefCountExact, QueuedIsStored

-----------------------------------------------------------------------------
(* The operators of the subscription table and of delivery                 *)

(* The nodes visited for a name form a list of subscriber nodes.           *)
LEMMA VisitedType ==
  ASSUME NEW tab \in [Filter -> Seq(SubNode)], NEW t \in Name
  PROVE  Visited(tab, t) \in Seq(SubNode)
<1>1. tab[t] \in Seq(SubNode) /\ tab[Plus] \in Seq(SubNode) /\ tab[Hash] \in Seq(SubNode)
  BY DEF Filter
<1>2. tab[t] \o tab[Plus] \in Seq(SubNode)
  BY <1>1, ConcatProperties
<1> QED BY <1>1, <1>2, ConcatProperties DEF Visited

(* Subscribing keeps the table a table.                                    *)
LEMMA SubType ==
  ASSUME NEW ids, NEW tab \in [Filter -> Seq(SubNode)], NEW c \in Client,
         NEW req \in Requests
  PROVE  Sub(ids, tab, c, req) \in [Filter -> Seq(SubNode)]
<1>1. ASSUME NEW l \in Seq(SubNode), NEW q \in Qos
      PROVE  SubList(ids, l, c, q) \in Seq(SubNode)
  <2> DEFINE same == SameId(ids, l, c)
             node == [client |-> c, qos |-> q]
  <2>1. CASE same = {}
    <3>1. <<node>> \in Seq(SubNode)
      BY DEF SubNode
    <3>2. <<node>> \o l \in Seq(SubNode)
      BY <3>1, ConcatProperties
    <3> QED BY <2>1, <3>2 DEF SubList
  <2>2. CASE same # {}
    <3>1. same \subseteq 1 .. Len(l)
      BY LenProperties DEF SameId
    <3>2. Min(same) \in 1 .. Len(l)
      <4>1. same \subseteq Nat
        BY <3>1
      <4> QED BY <2>2, <3>1, <4>1, MinIsLeast
    <3>3. l[Min(same)] \in SubNode
      BY <3>2, ElementOfSeq
    <3>4. [l[Min(same)] EXCEPT !.qos = q] \in SubNode
      BY <3>3 DEF SubNode
    <3>5. [l EXCEPT ![Min(same)] = [l[Min(same)] EXCEPT !.qos = q]] \in Seq(SubNode)
      BY <3>2, <3>4
    <3> QED BY <2>2, <3>5 DEF SubList
  <2> QED BY <2>1, <2>2
<1>2. \A f \in DOMAIN req : req[f] \in Qos
  BY BrokerAssumption
<1> QED BY <1>1, <1>2 DEF Sub

(* So does unsubscribing.                                                  *)
LEMMA UnsubType ==
  ASSUME NEW ids, NEW tab \in [Filter -> Seq(SubNode)], NEW c \in Client, NEW fs
  PROVE  Unsub(ids, tab, c, fs) \in [Filter -> Seq(SubNode)]
<1>1. ASSUME NEW l \in Seq(SubNode)
      PROVE  UnsubList(ids, l, c) \in Seq(SubNode)
  <2> DEFINE same == SameId(ids, l, c)
             i == Min(same)
  <2>1. CASE same # {}
    <3>1. Len(l) \in Nat /\ same \subseteq 1 .. Len(l)
      BY LenProperties DEF SameId
    <3>2. i \in 1 .. Len(l)
      <4>1. same \subseteq Nat
        BY <3>1
      <4> QED BY <2>1, <3>1, <4>1, MinIsLeast
    <3> HIDE DEF i
    <3>3. \A j \in 1 .. i - 1 : l[j] \in SubNode
      BY <3>1, <3>2, ElementOfSeq
    <3>4. \A j \in i + 1 .. Len(l) : l[j] \in SubNode
      BY <3>1, <3>2, ElementOfSeq
    <3>5. i \in Int /\ i - 1 \in Int /\ i + 1 \in Int /\ 1 \in Int /\ Len(l) \in Int
      BY <3>1, <3>2
    <3>6. SubSeq(l, 1, i - 1) \in Seq(SubNode)
      BY <3>3, <3>5, SubSeqProperties
    <3>7. SubSeq(l, i + 1, Len(l)) \in Seq(SubNode)
      BY <3>4, <3>5, SubSeqProperties
    <3>8. RemoveAt(l, i) \in Seq(SubNode)
      BY <3>6, <3>7, ConcatProperties DEF RemoveAt
    <3> QED BY <2>1, <3>8 DEF UnsubList, i
  <2> QED BY <2>1 DEF UnsubList
<1> QED BY <1>1 DEF Unsub

(***************************************************************************)
(* Delivering a message to the nodes H adds one entry for each of them, at *)
(* a rank of its own, and changes no entry that is there; the message      *)
(* counts Len(H) more references.                                          *)
(***************************************************************************)
LEMMA DeliverAgrees ==
  ASSUME NEW s, Agree(mq, s), NEW m \in DOMAIN s, NEW H \in Seq(SubNode),
         NEW q \in Qos, Room(H)
  PROVE  /\ Agree(Deliver(H, m, q), AddReferences(s, m, Len(H)))
         /\ \A c \in Client : \A p \in DOMAIN mq[c] :
              p \in DOMAIN Deliver(H, m, q)[c] /\ Deliver(H, m, q)[c][p] = mq[c][p]
         /\ \A c \in Client : (\A k \in DOMAIN H : H[k].client # c)
              => DOMAIN Deliver(H, m, q)[c] = DOMAIN mq[c]
<1> DEFINE new == Deliver(H, m, q)
           rank(k) == Top(mq[H[k].client]) + k
           f == [k \in 1 .. Len(H) |-> <<H[k].client, rank(k)>>]
           N == {<<H[k].client, rank(k)>> : k \in 1 .. Len(H)}
           Added(c) == {Top(mq[c]) + k : k \in {i \in DOMAIN H : H[i].client = c}}
<1>1. AreLists(mq) /\ m \in Msg /\ \A c \in Client : IsList(mq[c])
  BY DEF Agree, AreLists, IsStore
<1>2. ASSUME NEW c \in Client
      PROVE  Top(mq[c]) \in 0 .. MaxRank /\ \A p \in DOMAIN mq[c] : p <= Top(mq[c])
  BY <1>1, TopIsGreatest DEF IsList
<1>3. Len(H) \in Nat /\ DOMAIN H = 1 .. Len(H) /\ \A k \in 1 .. Len(H) : H[k] \in SubNode
  BY LenProperties, ElementOfSeq
<1>4. \A k \in 1 .. Len(H) : H[k].client \in Client /\ H[k].qos \in Qos
  BY <1>3 DEF SubNode
<1>5. \A k \in 1 .. Len(H) : rank(k) \in Rank
  BY <1>3 DEF Room
<1>6. ASSUME NEW c \in Client
      PROVE  /\ Added(c) \subseteq Rank
             /\ Added(c) \cap DOMAIN mq[c] = {}
             /\ \A r \in Added(c) : r - Top(mq[c]) \in 1 .. Len(H)
  BY <1>2, <1>3, <1>5
<1>7. /\ DOMAIN new = Client
      /\ \A c \in Client :
           new[c] = [p \in DOMAIN mq[c] \cup Added(c) |->
                       IF p \in DOMAIN mq[c] THEN mq[c][p]
                       ELSE Outgoing(m, Lesser(q, H[p - Top(mq[c])].qos))]
  BY DEF Deliver
<1> HIDE DEF new
<1>8. ASSUME NEW c \in Client
      PROVE  /\ DOMAIN new[c] = DOMAIN mq[c] \cup Added(c)
             /\ \A p \in DOMAIN mq[c] : new[c][p] = mq[c][p]
             /\ \A p \in Added(c) : new[c][p].ms = m /\ new[c][p] \in Entry
  <2>1. ASSUME NEW p \in Added(c)
        PROVE  new[c][p] = Outgoing(m, Lesser(q, H[p - Top(mq[c])].qos))
    <3>1. p \notin DOMAIN mq[c] /\ p \in DOMAIN mq[c] \cup Added(c)
      BY <1>6
    <3> HIDE DEF Added
    <3> QED BY <1>7, <3>1
  <2>2. ASSUME NEW p \in Added(c)
        PROVE  Lesser(q, H[p - Top(mq[c])].qos) \in Qos
    <3>1. H[p - Top(mq[c])].qos \in Qos
      BY <1>4, <1>6
    <3> QED BY <3>1 DEF Lesser
  <2>3. ASSUME NEW r \in Qos
        PROVE  Outgoing(m, r) \in Entry /\ Outgoing(m, r).ms = m
    BY <1>1 DEF Outgoing, Entry, PublishState
  <2>4. DOMAIN new[c] = DOMAIN mq[c] \cup Added(c)
    BY <1>7
  <2>5. \A p \in DOMAIN mq[c] : new[c][p] = mq[c][p]
    BY <1>7
  <2>6. \A p \in Added(c) : new[c][p].ms = m /\ new[c][p] \in Entry
    <3> HIDE DEF Added
    <3> QED BY <2>1, <2>2, <2>3
  <2> QED BY <2>4, <2>5, <2>6
<1>9. AreLists(new)
  <2>1. ASSUME NEW c \in Client PROVE IsList(new[c])
    <3>1. DOMAIN new[c] \subseteq Rank
      BY <1>1, <1>6, <1>8 DEF IsList
    <3>2. \A p \in DOMAIN new[c] : new[c][p] \in Entry
      BY <1>1, <1>8 DEF IsList
    <3>3. new[c] = [p \in DOMAIN new[c] |-> new[c][p]]
      BY <1>7
    <3> QED BY <3>1, <3>2, <3>3 DEF IsList
  <2> QED BY <1>7, <2>1 DEF AreLists
<1>10. IsFiniteSet(N) /\ Cardinality(N) = Len(H)
  <2>1. f \in [1 .. Len(H) -> N]
    OBVIOUS
  <2>2. \A a, b \in 1 .. Len(H) : f[a] = f[b] => a = b
    <3> TAKE a, b \in 1 .. Len(H)
    <3> HAVE f[a] = f[b]
    <3>1. H[a].client = H[b].client /\ rank(a) = rank(b)
      OBVIOUS
    <3>2. Top(mq[H[a].client]) \in Nat
      BY <1>2, <1>4, StoreAssumption
    <3> QED BY <3>1, <3>2
  <2>3. \A x \in N : \E k \in 1 .. Len(H) : f[k] = x
    OBVIOUS
  <2> HIDE DEF f, N
  <2>4. PICK S : S = 1 .. Len(H)
    OBVIOUS
  <2>5. /\ f \in [S -> N]
        /\ \A a, b \in S : f[a] = f[b] => a = b
        /\ \A x \in N : \E k \in S : f[k] = x
    BY <2>1, <2>2, <2>3, <2>4
  <2>6. f \in Bijection(S, N)
    BY ONLY <2>5, Fun_IsBij
  <2>7. ExistsBijection(S, N)
    BY <2>6 DEF ExistsBijection
  <2>8. IsFiniteSet(S) /\ Cardinality(S) = Len(H)
    <3>1. Len(H) \in Nat /\ 1 \in Int /\ Len(H) \in Int
      BY <1>3
    <3>2. /\ IsFiniteSet(1 .. Len(H))
          /\ Cardinality(1 .. Len(H)) = IF 1 > Len(H) THEN 0 ELSE Len(H) - 1 + 1
      BY ONLY <3>1, FS_Interval
    <3> QED BY <2>4, <3>1, <3>2
  <2>9. IsFiniteSet(N) /\ Cardinality(N) = Cardinality(S)
    BY ONLY <2>7, <2>8, FS_Bijection
  <2> QED BY <2>8, <2>9
<1>11. ASSUME NEW c \in Client, \A k \in DOMAIN H : H[k].client # c
       PROVE  DOMAIN new[c] = DOMAIN mq[c]
  <2>1. Added(c) = {}
    BY <1>11
  <2> HIDE DEF Added
  <2> QED BY <1>8, <2>1
<1>12. \A x \in N : x \in Client \X Rank /\ x[2] \in Added(x[1])
  BY <1>3, <1>4, <1>5
<1>13. \A c \in Client : \A r \in Added(c) : <<c, r>> \in N
  BY <1>3
<1> HIDE DEF N, Added
<1>14. N \cap References(mq, m) = {}
  BY <1>6, <1>12 DEF References
<1>15. References(new, m) = References(mq, m) \cup N
  <2>1. ASSUME NEW x \in References(new, m) PROVE x \in References(mq, m) \cup N
    <3>1. x \in Client \X Rank /\ x[2] \in DOMAIN new[x[1]] /\ new[x[1]][x[2]].ms = m
      BY DEF References
    <3>2. x[1] \in Client /\ x = <<x[1], x[2]>>
      BY <3>1
    <3>3. CASE x[2] \in DOMAIN mq[x[1]]
      BY <1>8, <3>1, <3>2, <3>3 DEF References
    <3>4. CASE x[2] \in Added(x[1])
      BY <1>13, <3>2, <3>4
    <3> QED BY <1>8, <3>1, <3>2, <3>3, <3>4
  <2>2. References(mq, m) \subseteq References(new, m)
    BY <1>8 DEF References
  <2>3. ASSUME NEW x \in N PROVE x \in References(new, m)
    <3>1. x \in Client \X Rank /\ x[1] \in Client /\ x[2] \in Added(x[1])
      BY <1>12
    <3> QED BY <1>8, <3>1 DEF References
  <2> QED BY <2>1, <2>2, <2>3
<1>16. \A n \in DOMAIN s \ {m} : References(new, n) = References(mq, n)
  BY <1>8 DEF References
<1>17. \A c \in Client : \A p \in DOMAIN new[c] : new[c][p].ms \in DOMAIN s
  BY <1>8 DEF Agree
<1>18. Agree(new, AddReferences(s, m, Len(H)))
  BY <1>3, <1>9, <1>10, <1>14, <1>15, <1>16, <1>17, AddingAgrees
<1> QED BY <1>8, <1>18, <1>11 DEF new

-----------------------------------------------------------------------------
(* The initial state and the actions of the sessions                       *)

LEMMA ResetType == 1 % PidMod \in PacketId
BY StoreAssumption DEF PacketId

(* The invariant holds initially.                                          *)
LEMMA InitIInv == Init => IInv
<1> SUFFICES ASSUME Init PROVE IInv
  OBVIOUS
<1>1. Agree(mq, store)
  BY EmptyAgrees DEF Init
<1>2. TypeRest
  BY ResetType, EmptySeq DEF Init, TypeRest
<1>3. UnusedEmpty
  BY DEF Init, UnusedEmpty, EmptyList
<1> QED BY <1>1, <1>2, <1>3 DEF IInv

(* It holds of a process that has stopped.                                 *)
LEMMA HaltIInv == Halt => IInv'
<1> SUFFICES ASSUME Halt PROVE IInv'
  OBVIOUS
<1>1. Agree(mq, store)'
  BY EmptyAgrees DEF Halt
<1>2. TypeRest'
  BY ResetType, EmptySeq DEF Halt, TypeRest
<1>3. UnusedEmpty'
  BY DEF Halt, UnusedEmpty, EmptyList
<1> QED BY <1>1, <1>2, <1>3 DEF IInv

(* A new session starts with an empty list.                                *)
LEMMA AcceptIInv ==
  ASSUME IInv, NEW c \in Client, Accept(c)
  PROVE  IInv'
<1>1. DOMAIN EmptyList = {} /\ IsList(EmptyList) /\ DOMAIN mq[c] = {}
  BY DEF EmptyList, IsList, IInv, UnusedEmpty, Accept
<1>2. Agree([mq EXCEPT ![c] = EmptyList], store)
  BY <1>1, RelabelAgrees DEF IInv
<1>3. Agree(mq, store)'
  BY <1>2 DEF Accept
<1>4. TypeRest'
  BY ResetType DEF IInv, TypeRest, Accept, Idle
<1>5. UnusedEmpty'
  BY <1>1 DEF IInv, UnusedEmpty, Accept, Agree, AreLists
<1> QED BY <1>3, <1>4, <1>5 DEF IInv

(* session_clean drops every entry of the client, and dereferences it.     *)
LEMMA DisconnectIInv ==
  ASSUME IInv, NEW c \in Client, Disconnect(c)
  PROVE  IInv'
<1>1. DOMAIN EmptyList = {} /\ IsList(EmptyList)
  BY DEF EmptyList, IsList
<1>2. Agree([mq EXCEPT ![c] = EmptyList], Deref(store, mq[c], DOMAIN mq[c]))
  BY <1>1, DerefAgrees DEF IInv
<1>3. Agree(mq, store)'
  BY <1>2 DEF Disconnect
<1>4. TypeRest'
  BY ResetType DEF IInv, TypeRest, Disconnect
<1>5. UnusedEmpty'
  BY <1>1 DEF IInv, UnusedEmpty, Disconnect, Agree, AreLists
<1> QED BY <1>3, <1>4, <1>5 DEF IInv

(* Steps that leave lists, store and sessions alone.                       *)
LEMMA QuietIInv ==
  ASSUME IInv, TypeRest', UNCHANGED <<sessions, mq, store>>
  PROVE  IInv'
BY DEF IInv, UnusedEmpty, Agree

LEMMA ReadFailsIInv ==
  ASSUME IInv, NEW c \in Client, ReadFails(c)
  PROVE  IInv'
<1>1. TypeRest'
  BY DEF IInv, TypeRest, ReadFails, Serves
<1> QED BY <1>1, QuietIInv DEF ReadFails

LEMMA HandleConnectIInv ==
  ASSUME IInv, NEW c \in Client, NEW id \in ClientId, HandleConnect(c, id)
  PROVE  IInv'
<1>1. TypeRest'
  BY DEF IInv, TypeRest, HandleConnect, Serves, Reply
<1> QED BY <1>1, QuietIInv DEF HandleConnect

-----------------------------------------------------------------------------
(* Subscribing and publishing                                              *)

LEMMA HandleSubscribeIInv ==
  ASSUME IInv, NEW c \in Client, NEW req \in Requests, NEW bad \in BOOLEAN,
         HandleSubscribe(c, req, bad)
  PROVE  IInv'
<1>1. CASE Halt
  BY <1>1, HaltIInv
<1>2. CASE /\ subtree' = Sub(client_id, subtree, c, req)
           /\ IF bad THEN closing' = c ELSE Reply(c)
           /\ UNCHANGED <<running, sessions, client_id, packet_id_source, mq, store>>
  <2>1. subtree' \in [Filter -> Seq(SubNode)]
    BY <1>2, SubType DEF IInv, TypeRest
  <2>2. TypeRest'
    BY <1>2, <2>1 DEF IInv, TypeRest, HandleSubscribe, Serves, Reply
  <2> QED BY <1>2, <2>2, QuietIInv
<1> QED BY <1>1, <1>2 DEF HandleSubscribe

LEMMA HandleUnsubscribeIInv ==
  ASSUME IInv, NEW c \in Client, NEW fs \in SUBSET Filter, HandleUnsubscribe(c, fs)
  PROVE  IInv'
<1>1. CASE Halt
  BY <1>1, HaltIInv
<1>2. CASE /\ subtree' = Unsub(client_id, subtree, c, fs)
           /\ Reply(c)
           /\ UNCHANGED <<running, sessions, client_id, packet_id_source, mq, store>>
  <2>1. subtree' \in [Filter -> Seq(SubNode)]
    BY <1>2, UnsubType DEF IInv, TypeRest
  <2>2. TypeRest'
    BY <1>2, <2>1 DEF IInv, TypeRest, HandleUnsubscribe, Serves, Reply
  <2> QED BY <1>2, <2>2, QuietIInv
<1> QED BY <1>1, <1>2 DEF HandleUnsubscribe

(* The message is inserted without references and gains one per node.      *)
LEMMA HandlePublishIInv ==
  ASSUME IInv, NEW c \in Client, NEW t \in Name, NEW q \in 0 .. 1,
         HandlePublish(c, t, q)
  PROVE  IInv'
<1> DEFINE H == Visited(subtree, t)
<1>1. CASE Halt
  BY <1>1, HaltIInv
<1>2. CASE ~ Halt
  <2>1. ~ Dangling(H) /\ Room(H) /\ Serves(c)
    BY <1>2 DEF HandlePublish
  <2>2. PICK m \in Msg \ DOMAIN store :
          /\ store' = AddReferences(Insert(store, m, t, q), m, Len(H))
          /\ mq' = Deliver(H, m, q)
    BY <1>2 DEF HandlePublish
  <2>3. /\ UNCHANGED <<running, sessions, client_id, packet_id_source, subtree>>
        /\ closing' \in {NULL, c}
    BY <1>2 DEF HandlePublish, Reply
  <2>4. H \in Seq(SubNode) /\ q \in Qos
    BY VisitedType DEF IInv, TypeRest, Qos
  <2> HIDE DEF H
  <2>5. Agree(mq, Insert(store, m, t, q)) /\ m \in DOMAIN Insert(store, m, t, q)
    <3>1. Agree(mq, store)
      BY DEF IInv
    <3>2. q \in Qos
      BY <2>4
    <3>3. /\ Agree(mq, Insert(store, m, t, q))
          /\ DOMAIN Insert(store, m, t, q) = DOMAIN store \cup {m}
      BY <3>1, <3>2, InsertAgrees
    <3> QED BY <3>3
  <2>6. /\ Agree(Deliver(H, m, q), AddReferences(Insert(store, m, t, q), m, Len(H)))
        /\ \A d \in Client : (\A k \in DOMAIN H : H[k].client # d)
             => DOMAIN Deliver(H, m, q)[d] = DOMAIN mq[d]
    BY <2>1, <2>4, <2>5, DeliverAgrees
  <2>7. Agree(mq, store)'
    BY <2>2, <2>6
  <2>8. UnusedEmpty'
    BY <2>1, <2>2, <2>3, <2>6 DEF IInv, UnusedEmpty, Dangling
  <2>9. TypeRest'
    BY <2>1, <2>3 DEF IInv, TypeRest, Serves
  <2> QED BY <2>7, <2>8, <2>9 DEF IInv
<1> QED BY <1>1, <1>2

(* The message is inserted and referred to by the publisher's own list.    *)
LEMMA HandlePublish2IInv ==
  ASSUME IInv, NEW c \in Client, NEW t \in Name, NEW pid \in InPid,
         HandlePublish2(c, t, pid)
  PROVE  IInv'
<1>1. PICK m \in Msg \ DOMAIN store :
        /\ store' = AddReferences(Insert(store, m, t, 2), m, 1)
        /\ mq' = [mq EXCEPT ![c] = ListAdd(@, Incoming(m, pid))]
  BY DEF HandlePublish2
<1>2. Agree(mq, Insert(store, m, t, 2)) /\ m \in DOMAIN Insert(store, m, t, 2)
  <2>1. Agree(mq, store) /\ 2 \in Qos
    BY DEF IInv, Qos
  <2>2. /\ Agree(mq, Insert(store, m, t, 2))
        /\ DOMAIN Insert(store, m, t, 2) = DOMAIN store \cup {m}
    BY <2>1, InsertAgrees
  <2> QED BY <2>2
<1>3. Incoming(m, pid) \in Entry /\ Incoming(m, pid).ms = m
  BY BrokerAssumption DEF Incoming, Entry, PublishState, Qos
<1>4. Agree([mq EXCEPT ![c] = ListAdd(@, Incoming(m, pid))],
            AddReferences(Insert(store, m, t, 2), m, 1))
  <2>1. Top(mq[c]) + 1 \in Rank
    BY DEF HandlePublish2
  <2>2. Agree([mq EXCEPT ![c] = ListAdd(@, Incoming(m, pid))],
              AddReferences(Insert(store, m, t, 2), Incoming(m, pid).ms, 1))
    BY <1>2, <1>3, <2>1, ListAddAgrees
  <2> QED BY <1>3, <2>2
<1>5. Agree(mq, store)'
  BY <1>1, <1>4
<1>6. TypeRest'
  BY DEF IInv, TypeRest, HandlePublish2, Serves, Reply
<1>7. UnusedEmpty'
  BY <1>1 DEF IInv, UnusedEmpty, HandlePublish2, Serves, Agree, AreLists
<1> QED BY <1>5, <1>6, <1>7 DEF IInv

(* The released message gains one reference per node, and loses its own.   *)
LEMMA HandlePubrelIInv ==
  ASSUME IInv, NEW c \in Client, NEW pid \in PacketId, HandlePubrel(c, pid)
  PROVE  IInv'
<1>1. PICK p \in Rank :
        LET m == mq[c][p].ms
            H == Visited(subtree, store[m].topic)
        IN  /\ IsFirst(p, Waiting(mq[c], "WAIT_FOR_PUBREL", pid))
            /\ \/ Dangling(H) /\ Halt
               \/ /\ ~ Dangling(H) /\ Room(H)
                  /\ store' = Deref(AddReferences(store, m, Len(H)), mq[c], {p})
                  /\ mq' = [Deliver(H, m, store[m].qos) EXCEPT ![c] = ListDel(@, {p})]
                  /\ Reply(c)
                  /\ UNCHANGED <<running, sessions, client_id, packet_id_source,
                                 subtree>>
  BY DEF HandlePubrel
<1> DEFINE m == mq[c][p].ms
           q == store[m].qos
           H == Visited(subtree, store[m].topic)
           mid == Deliver(H, m, q)
           counted == AddReferences(store, m, Len(H))
<1>2. CASE Halt
  BY <1>2, HaltIInv
<1>3. CASE ~ Halt
  <2>1. Agree(mq, store) /\ p \in DOMAIN mq[c]
    BY <1>1 DEF IInv, IsFirst, Waiting
  <2>2. m \in DOMAIN store /\ store[m] \in Message
    BY <2>1 DEF Agree, IsStore
  <2>3. H \in Seq(SubNode) /\ q \in Qos
    BY <2>2, VisitedType DEF IInv, TypeRest, Message
  <2>4. /\ ~ Dangling(H) /\ Room(H)
        /\ store' = Deref(counted, mq[c], {p})
        /\ mq' = [mid EXCEPT ![c] = ListDel(@, {p})]
        /\ closing' \in {NULL, c}
        /\ UNCHANGED <<running, sessions, client_id, packet_id_source, subtree>>
    BY <1>1, <1>3 DEF Reply
  <2>5. c \in sessions
    BY DEF HandlePubrel, Serves
  <2> HIDE DEF m, q, H
  <2>6. /\ Agree(mid, counted)
        /\ \A d \in Client : \A r \in DOMAIN mq[d] :
             r \in DOMAIN mid[d] /\ mid[d][r] = mq[d][r]
        /\ \A d \in Client : (\A k \in DOMAIN H : H[k].client # d)
             => DOMAIN mid[d] = DOMAIN mq[d]
    BY <2>1, <2>2, <2>3, <2>4, DeliverAgrees
  <2> HIDE DEF mid, counted
  <2>7. p \in DOMAIN mid[c] /\ mid[c][p] = mq[c][p]
    BY <2>1, <2>6
  <2>8. Deref(counted, mid[c], {p}) = Deref(counted, mq[c], {p})
    <3>1. ASSUME NEW n PROVE Count(mid[c], {p}, n) = Count(mq[c], {p}, n)
      BY <2>7 DEF Count
    <3> QED BY <3>1 DEF Deref
  <2>9. DOMAIN mid = Client /\ IsList(mid[c])
    BY <2>6 DEF Agree, AreLists
  <2>10. Agree([mid EXCEPT ![c] = ListDel(mid[c], {p})], Deref(counted, mid[c], {p}))
    <3>1. /\ IsList(ListDel(mid[c], {p}))
          /\ DOMAIN ListDel(mid[c], {p}) = DOMAIN mid[c] \ {p}
          /\ \A r \in DOMAIN ListDel(mid[c], {p}) :
               ListDel(mid[c], {p})[r].ms = mid[c][r].ms
      BY <2>9, ListDelType
    <3>2. {p} \subseteq DOMAIN mid[c]
      BY <2>7
    <3> QED BY <2>6, <3>1, <3>2, DerefAgrees
  <2>11. Agree(mq, store)'
    BY <2>4, <2>8, <2>10
  <2>12. UnusedEmpty'
    BY <2>4, <2>5, <2>6, <2>9 DEF IInv, UnusedEmpty, Dangling
  <2>13. TypeRest'
    BY <2>4, <2>5 DEF IInv, TypeRest
  <2> QED BY <2>11, <2>12, <2>13 DEF IInv
<1> QED BY <1>2, <1>3

-----------------------------------------------------------------------------
(* Writing and acknowledging                                               *)

(* An identifier stays an identifier, whatever is sent.                    *)
LEMMA AdvanceType ==
  ASSUME NEW id \in PacketId, NEW k \in Nat
  PROVE  Advance(id, k) \in PacketId
BY StoreAssumption DEF Advance, PacketId

(* Sending an entry keeps its message.                                     *)
LEMMA SentType ==
  ASSUME NEW e \in Entry, NEW id \in PacketId
  PROVE  Sent(e, id) \in Entry /\ Sent(e, id).ms = e.ms
BY DEF Sent, Entry, PublishState

(* Entries with QoS 0 go with their references, the others are relabelled. *)
LEMMA WritePacketIInv ==
  ASSUME IInv, NEW c \in Client, WritePacket(c)
  PROVE  IInv'
<1>1. PICK P \in SUBSET Outbound(mq[c]) :
        LET acked == {p \in P : mq[c][p].qos > 0}
            pid(p) == Advance(packet_id_source[c], Cardinality({r \in acked : r > p}))
        IN  /\ closing' = c \/ (closing' = NULL /\ P = Outbound(mq[c]))
            /\ packet_id_source' =
                 [packet_id_source EXCEPT ![c] = Advance(@, Cardinality(acked))]
            /\ store' = Deref(store, mq[c], P \ acked)
            /\ mq' = [mq EXCEPT
                 ![c] = [p \in DOMAIN @ \ (P \ acked) |->
                           IF p \in acked THEN Sent(mq[c][p], pid(p)) ELSE mq[c][p]]]
  BY DEF WritePacket
<1> DEFINE acked == {p \in P : mq[c][p].qos > 0}
           pid(p) == Advance(packet_id_source[c], Cardinality({r \in acked : r > p}))
           gone == P \ acked
           q == [p \in DOMAIN mq[c] \ gone |->
                   IF p \in acked THEN Sent(mq[c][p], pid(p)) ELSE mq[c][p]]
<1>2. /\ packet_id_source' =
           [packet_id_source EXCEPT ![c] = Advance(@, Cardinality(acked))]
      /\ store' = Deref(store, mq[c], gone)
      /\ mq' = [mq EXCEPT ![c] = q]
      /\ closing' \in {NULL, c}
      /\ UNCHANGED <<running, sessions, client_id, subtree>>
      /\ c \in sessions
  BY <1>1 DEF WritePacket, Serves
<1>3. Agree(mq, store) /\ DOMAIN mq = Client /\ IsList(mq[c])
  BY DEF IInv, Agree, AreLists
<1>4. P \subseteq DOMAIN mq[c] /\ DOMAIN mq[c] \subseteq Rank
  BY <1>3 DEF Outbound, IsList
<1>5. ASSUME NEW S, S \subseteq P PROVE Cardinality(S) \in Nat
  <2>1. IsFiniteSet(Rank)
    BY StoreAssumption, FS_Interval DEF Rank
  <2>2. S \in SUBSET Rank
    BY <1>4, <1>5
  <2> QED BY <2>1, <2>2, FS_Subset, FS_CardinalityType
<1>6. Cardinality(acked) \in Nat /\ \A p \in acked : Cardinality({r \in acked : r > p}) \in Nat
  <2>1. acked \subseteq P /\ \A p \in acked : {r \in acked : r > p} \subseteq P
    OBVIOUS
  <2> QED BY <1>5, <2>1
<1>7. packet_id_source[c] \in PacketId
  BY DEF IInv, TypeRest
<1>8. \A p \in acked : pid(p) \in PacketId
  BY <1>6, <1>7, AdvanceType
<1> HIDE DEF pid, acked
<1>9. \A p \in DOMAIN mq[c] : mq[c][p] \in Entry
  BY <1>3 DEF IsList
<1>10. DOMAIN q = DOMAIN mq[c] \ gone /\ gone \subseteq DOMAIN mq[c]
  BY <1>4
<1>11. \A p \in DOMAIN q : q[p] \in Entry /\ q[p].ms = mq[c][p].ms
  BY <1>8, <1>9, SentType
<1>12. IsList(q)
  BY <1>4, <1>10, <1>11 DEF IsList
<1> HIDE DEF q, gone
<1>13. Agree([mq EXCEPT ![c] = q], Deref(store, mq[c], gone))
  BY <1>3, <1>10, <1>11, <1>12, DerefAgrees
<1>14. Agree(mq, store)'
  BY <1>2, <1>13
<1>15. TypeRest'
  <2>1. packet_id_source' \in [Client -> PacketId]
    BY <1>2, <1>6, <1>7, AdvanceType DEF IInv, TypeRest
  <2> QED BY <1>2, <2>1 DEF IInv, TypeRest
<1>16. UnusedEmpty'
  BY <1>2, <1>3 DEF IInv, UnusedEmpty
<1> QED BY <1>14, <1>15, <1>16 DEF IInv

(* An acknowledged entry leaves with its reference.                        *)
LEMMA AcknowledgeIInv ==
  ASSUME IInv, NEW c \in Client, c \in sessions, NEW p \in DOMAIN mq[c],
         Acknowledge(c, p)
  PROVE  IInv'
<1>1. Agree(mq, store) /\ DOMAIN mq = Client /\ IsList(mq[c])
  BY DEF IInv, Agree, AreLists
<1>2. /\ IsList(ListDel(mq[c], {p}))
      /\ DOMAIN ListDel(mq[c], {p}) = DOMAIN mq[c] \ {p}
      /\ \A r \in DOMAIN ListDel(mq[c], {p}) :
           ListDel(mq[c], {p})[r].ms = mq[c][r].ms
  <2> DEFINE q == mq[c]
             r0 == ListDel(q, {p})
  <2>1. IsList(q)
    BY <1>1
  <2> HIDE DEF q
  <2>2. IsList(r0) /\ DOMAIN r0 = DOMAIN q \ {p} /\ \A r \in DOMAIN r0 : r0[r] = q[r]
    BY <2>1, ListDelType
  <2>3. \A r \in DOMAIN r0 : r0[r].ms = q[r].ms
    BY <2>2
  <2> QED BY <2>2, <2>3 DEF q
<1>3. Agree([mq EXCEPT ![c] = ListDel(mq[c], {p})], Deref(store, mq[c], {p}))
  BY <1>1, <1>2, DerefAgrees
<1>4. Agree(mq, store)'
  BY <1>3 DEF Acknowledge
<1>5. TypeRest'
  BY DEF IInv, TypeRest, Acknowledge
<1>6. UnusedEmpty'
  BY <1>1 DEF IInv, UnusedEmpty, Acknowledge
<1> QED BY <1>4, <1>5, <1>6 DEF IInv

LEMMA HandlePubackIInv ==
  ASSUME IInv, NEW c \in Client, NEW pid \in PacketId, HandlePuback(c, pid)
  PROVE  IInv'
<1>1. PICK p \in Rank : /\ IsFirst(p, Waiting(mq[c], "WAIT_FOR_PUBACK", pid))
                        /\ Acknowledge(c, p)
  BY DEF HandlePuback
<1>2. p \in DOMAIN mq[c] /\ c \in sessions
  BY <1>1 DEF IsFirst, Waiting, HandlePuback, Serves
<1> QED BY <1>1, <1>2, AcknowledgeIInv

LEMMA HandlePubcompIInv ==
  ASSUME IInv, NEW c \in Client, NEW pid \in PacketId, HandlePubcomp(c, pid)
  PROVE  IInv'
<1>1. PICK p \in Rank : /\ IsFirst(p, Waiting(mq[c], "WAIT_FOR_PUBCOMP", pid))
                        /\ Acknowledge(c, p)
  BY DEF HandlePubcomp
<1>2. p \in DOMAIN mq[c] /\ c \in sessions
  BY <1>1 DEF IsFirst, Waiting, HandlePubcomp, Serves
<1> QED BY <1>1, <1>2, AcknowledgeIInv

(* PUBREC only moves the state of an entry.                                *)
LEMMA HandlePubrecIInv ==
  ASSUME IInv, NEW c \in Client, NEW pid \in PacketId, HandlePubrec(c, pid)
  PROVE  IInv'
<1>1. PICK p \in Rank :
        /\ IsFirst(p, Waiting(mq[c], "WAIT_FOR_PUBREC", pid))
        /\ mq' = [mq EXCEPT
             ![c] = [@ EXCEPT ![p].ps = "WAIT_FOR_PUBCOMP", ![p].dir = "MD_IN"]]
  BY DEF HandlePubrec
<1> DEFINE q == [mq[c] EXCEPT ![p].ps = "WAIT_FOR_PUBCOMP", ![p].dir = "MD_IN"]
<1>2. Agree(mq, store) /\ DOMAIN mq = Client /\ IsList(mq[c])
  BY DEF IInv, Agree, AreLists
<1>3. p \in DOMAIN mq[c] /\ mq[c][p] \in Entry
  BY <1>1, <1>2 DEF IsFirst, Waiting, IsList
<1>4. DOMAIN q = DOMAIN mq[c] /\ \A r \in DOMAIN q \ {p} : q[r] = mq[c][r]
  OBVIOUS
<1>5. q[p] \in Entry /\ q[p].ms = mq[c][p].ms
  BY <1>3 DEF Entry, PublishState
<1>6. IsList(q)
  BY <1>2, <1>4, <1>5 DEF IsList
<1>7. \A r \in DOMAIN q : q[r].ms = mq[c][r].ms
  BY <1>4, <1>5
<1>8. mq' = [mq EXCEPT ![c] = q]
  BY <1>1
<1> HIDE DEF q
<1>9. Agree([mq EXCEPT ![c] = q], store)
  BY <1>2, <1>4, <1>6, <1>7, RelabelAgrees
<1>10. Agree(mq, store)'
  BY <1>8, <1>9 DEF HandlePubrec
<1>11. TypeRest'
  BY DEF IInv, TypeRest, HandlePubrec, Serves, Reply
<1>12. UnusedEmpty'
  BY <1>2, <1>4, <1>8 DEF IInv, UnusedEmpty, HandlePubrec
<1> QED BY <1>10, <1>11, <1>12 DEF IInv

-----------------------------------------------------------------------------
(* The theorems                                                            *)

(* Every step of the broker keeps the invariant.                           *)
LEMMA NextIInv == IInv /\ [Next]_vars => IInv'
<1> SUFFICES ASSUME IInv, [Next]_vars PROVE IInv'
  OBVIOUS
<1>1. CASE UNCHANGED vars
  BY <1>1 DEF IInv, TypeRest, UnusedEmpty, Agree, vars
<1>2. CASE Next
  <2>1. PICK c \in Client :
          \/ Accept(c) \/ ReadFails(c) \/ Disconnect(c) \/ Sigpipe(c)
          \/ \E id \in ClientId : HandleConnect(c, id)
          \/ \E req \in Requests, bad \in BOOLEAN : HandleSubscribe(c, req, bad)
          \/ \E fs \in SUBSET Filter : HandleUnsubscribe(c, fs)
          \/ \E t \in Name, q \in 0 .. 1 : HandlePublish(c, t, q)
          \/ \E t \in Name, pid \in InPid : HandlePublish2(c, t, pid)
          \/ WritePacket(c)
          \/ \E pid \in PacketId :
               \/ HandlePubrel(c, pid) \/ HandlePuback(c, pid)
               \/ HandlePubrec(c, pid) \/ HandlePubcomp(c, pid)
    BY <1>2 DEF Next
  <2>2. CASE Accept(c)
    BY <2>2, AcceptIInv
  <2>3. CASE ReadFails(c)
    BY <2>3, ReadFailsIInv
  <2>4. CASE Disconnect(c)
    BY <2>4, DisconnectIInv
  <2>5. CASE Sigpipe(c)
    BY <2>5, HaltIInv DEF Sigpipe
  <2>6. CASE \E id \in ClientId : HandleConnect(c, id)
    BY <2>6, HandleConnectIInv
  <2>7. CASE \E req \in Requests, bad \in BOOLEAN : HandleSubscribe(c, req, bad)
    BY <2>7, HandleSubscribeIInv
  <2>8. CASE \E fs \in SUBSET Filter : HandleUnsubscribe(c, fs)
    BY <2>8, HandleUnsubscribeIInv
  <2>9. CASE \E t \in Name, q \in 0 .. 1 : HandlePublish(c, t, q)
    BY <2>9, HandlePublishIInv
  <2>10. CASE \E t \in Name, pid \in InPid : HandlePublish2(c, t, pid)
    BY <2>10, HandlePublish2IInv
  <2>11. CASE WritePacket(c)
    BY <2>11, WritePacketIInv
  <2>12. CASE \E pid \in PacketId : HandlePubrel(c, pid)
    BY <2>12, HandlePubrelIInv
  <2>13. CASE \E pid \in PacketId : HandlePuback(c, pid)
    BY <2>13, HandlePubackIInv
  <2>14. CASE \E pid \in PacketId : HandlePubrec(c, pid)
    BY <2>14, HandlePubrecIInv
  <2>15. CASE \E pid \in PacketId : HandlePubcomp(c, pid)
    BY <2>15, HandlePubcompIInv
  <2> QED BY <2>1, <2>2, <2>3, <2>4, <2>5, <2>6, <2>7, <2>8, <2>9, <2>10, <2>11,
             <2>12, <2>13, <2>14, <2>15
<1> QED BY <1>1, <1>2

(* The inductive invariant.                                                *)
THEOREM Invariant == Spec => []IInv
<1>1. Init => IInv
  BY InitIInv
<1>2. IInv /\ [Next]_vars => IInv'
  BY NextIInv
<1> QED BY <1>1, <1>2, PTL DEF Spec

(* The variables of the broker keep their types.                           *)
THEOREM TypeCorrect == Spec => []TypeOK
<1>1. IInv => TypeOK
  BY IInvImplies
<1> QED BY <1>1, Invariant, PTL

(***************************************************************************)
(* A message counts exactly the list entries that point to it, whatever    *)
(* the clients send and whenever they leave.                               *)
(***************************************************************************)
THEOREM RefCountCorrect == Spec => []RefCountExact
<1>1. IInv => RefCountExact
  BY IInvImplies
<1> QED BY <1>1, Invariant, PTL

(* No list entry ever points to a message that has been freed.             *)
THEOREM NoEntryOfFreed == Spec => []QueuedIsStored
<1>1. IInv => QueuedIsStored
  BY IInvImplies
<1> QED BY <1>1, Invariant, PTL

-----------------------------------------------------------------------------
(***************************************************************************)
(* The subscription table: a list names a client once at most.  SUBSCRIBE  *)
(* compares client ids, so a client that has a node compares equal to      *)
(* itself, whatever its id has become; UNSUBSCRIBE only takes a node away. *)
(***************************************************************************)

(* No two nodes of a list have the same client.                            *)
OneEach(l) == \A i, j \in DOMAIN l : l[i].client = l[j].client => i = j

(* A client that has a node gets no second one, whatever its id is now.    *)
LEMMA SubListOneEach ==
  ASSUME NEW ids, NEW l \in Seq(SubNode), OneEach(l), NEW c \in Client, NEW q \in Qos
  PROVE  OneEach(SubList(ids, l, c, q))
<1> DEFINE same == SameId(ids, l, c)
           node == [client |-> c, qos |-> q]
<1>1. Len(l) \in Nat /\ DOMAIN l = 1 .. Len(l) /\ \A i \in DOMAIN l : l[i] \in SubNode
  BY LenProperties, ElementOfSeq
<1>2. CASE same = {}
  <2>1. \A i \in DOMAIN l : l[i].client # c
    BY <1>2 DEF SameId
  <2>2. <<node>> \in Seq(SubNode) /\ Len(<<node>>) = 1 /\ <<node>>[1] = node
    BY DEF SubNode
  <2> DEFINE new == <<node>> \o l
  <2>3. /\ DOMAIN new = 1 .. Len(l) + 1
        /\ new[1] = node
        /\ \A i \in 2 .. Len(l) + 1 : i - 1 \in DOMAIN l /\ new[i] = l[i - 1]
    BY <1>1, <2>2
  <2> HIDE DEF new
  <2>4. ASSUME NEW i \in DOMAIN new, NEW j \in DOMAIN new, new[i].client = new[j].client
        PROVE  i = j
    <3>1. CASE i = 1 /\ j # 1
      BY <1>1, <2>1, <2>3, <2>4, <3>1
    <3>2. CASE i # 1 /\ j = 1
      BY <1>1, <2>1, <2>3, <2>4, <3>2
    <3>3. CASE i # 1 /\ j # 1
      <4>1. /\ i \in 2 .. Len(l) + 1 /\ i - 1 \in DOMAIN l /\ new[i] = l[i - 1]
            /\ j \in 2 .. Len(l) + 1 /\ j - 1 \in DOMAIN l /\ new[j] = l[j - 1]
        BY <1>1, <2>3, <3>3
      <4>2. l[i - 1].client = l[j - 1].client
        BY <2>4, <4>1
      <4>3. i - 1 = j - 1
        BY <4>1, <4>2 DEF OneEach
      <4> QED BY <1>1, <4>1, <4>3
    <3> QED BY <3>1, <3>2, <3>3
  <2> QED BY <1>2, <2>4 DEF OneEach, SubList, new
<1>3. CASE same # {}
  <2> DEFINE new == [l EXCEPT ![Min(same)].qos = q]
  <2>1. DOMAIN new = DOMAIN l /\ \A i \in DOMAIN l : new[i].client = l[i].client
    BY <1>1 DEF SubNode
  <2> HIDE DEF new
  <2>2. OneEach(new)
    BY <2>1 DEF OneEach
  <2> QED BY <1>3, <2>2 DEF SubList, new
<1> QED BY <1>2, <1>3

LEMMA UnsubListOneEach ==
  ASSUME NEW ids, NEW l \in Seq(SubNode), OneEach(l), NEW c \in Client
  PROVE  OneEach(UnsubList(ids, l, c))
<1> DEFINE same == SameId(ids, l, c)
           i == Min(same)
<1>1. Len(l) \in Nat /\ DOMAIN l = 1 .. Len(l) /\ same \subseteq 1 .. Len(l)
  BY LenProperties DEF SameId
<1>2. CASE same # {}
  <2>1. i \in 1 .. Len(l)
    <3>1. same \subseteq Nat
      BY <1>1
    <3> QED BY <1>1, <1>2, <3>1, MinIsLeast
  <2> HIDE DEF i
  <2> DEFINE new == RemoveAt(l, i)
  <2>2. /\ DOMAIN new = 1 .. Len(l) - 1
        /\ \A j \in DOMAIN new : new[j] = IF j < i THEN l[j] ELSE l[j + 1]
    <3> DEFINE a == SubSeq(l, 1, i - 1)
               b == SubSeq(l, i + 1, Len(l))
    <3> DEFINE n == Len(l)
    <3>1. n \in Int /\ i \in Int /\ 1 <= i /\ i <= n /\ \A j \in 1 .. n : l[j] \in SubNode
      BY <1>1, <2>1, ElementOfSeq
    <3> HIDE DEF n
    <3>2. /\ a \in Seq(SubNode)
          /\ Len(a) = IF 1 <= i - 1 THEN (i - 1) - 1 + 1 ELSE 0
          /\ \A j \in 1 .. (i - 1) - 1 + 1 : a[j] = l[1 + j - 1]
      <4>1. 1 \in Int /\ i - 1 \in Int /\ \A j \in 1 .. i - 1 : l[j] \in SubNode
        BY <3>1
      <4> QED BY ONLY <4>1, SubSeqProperties DEF a
    <3>3. /\ b \in Seq(SubNode)
          /\ Len(b) = IF i + 1 <= n THEN n - (i + 1) + 1 ELSE 0
          /\ \A j \in 1 .. n - (i + 1) + 1 : b[j] = l[(i + 1) + j - 1]
      <4>1. i + 1 \in Int /\ n \in Int /\ \A j \in i + 1 .. n : l[j] \in SubNode
        BY <3>1
      <4> QED BY ONLY <4>1, SubSeqProperties DEF b, n
    <3> HIDE DEF a, b
    <3>4. /\ Len(a) = i - 1 /\ \A j \in 1 .. i - 1 : a[j] = l[j]
          /\ Len(b) = n - i /\ \A j \in 1 .. n - i : b[j] = l[i + j]
      BY <3>1, <3>2, <3>3
    <3>5. /\ a \o b \in Seq(SubNode) /\ Len(a \o b) = n - 1
          /\ \A j \in 1 .. n - 1 :
               (a \o b)[j] = IF j <= i - 1 THEN a[j] ELSE b[j - (i - 1)]
      <4>1. /\ a \o b \in Seq(SubNode)
            /\ Len(a \o b) = Len(a) + Len(b)
            /\ \A j \in 1 .. Len(a) + Len(b) :
                 (a \o b)[j] = IF j <= Len(a) THEN a[j] ELSE b[j - Len(a)]
        BY ONLY <3>2, <3>3, ConcatProperties
      <4>2. Len(a) + Len(b) = n - 1
        BY <3>1, <3>4
      <4> QED BY <3>4, <4>1, <4>2
    <3>6. ASSUME NEW j \in 1 .. n - 1
          PROVE  (a \o b)[j] = IF j < i THEN l[j] ELSE l[j + 1]
      <4>1. CASE j < i
        BY <3>1, <3>4, <3>5, <3>6, <4>1
      <4>2. CASE ~ (j < i)
        <5>1. j - (i - 1) \in 1 .. n - i /\ i + (j - (i - 1)) = j + 1
          BY <3>1, <3>6, <4>2
        <5>2. (a \o b)[j] = b[j - (i - 1)]
          BY <3>1, <3>5, <3>6, <4>2
        <5> QED BY <3>4, <4>2, <5>1, <5>2
      <4> QED BY <4>1, <4>2
    <3>7. DOMAIN (a \o b) = 1 .. n - 1
      BY <3>5, LenProperties
    <3>8. new = a \o b
      BY DEF RemoveAt, a, b, n
    <3> QED BY <3>6, <3>7, <3>8 DEF n
  <2> HIDE DEF new
  <2>3. ASSUME NEW j \in DOMAIN new, NEW k \in DOMAIN new, new[j].client = new[k].client
        PROVE  j = k
    BY <1>1, <2>1, <2>2, <2>3 DEF OneEach
  <2>4. OneEach(new)
    BY <2>3 DEF OneEach
  <2> QED BY <1>2, <2>4 DEF UnsubList, new, i
<1>3. CASE same = {}
  BY <1>3 DEF UnsubList
<1> QED BY <1>2, <1>3

(* The table is left alone, served for one client, or gone.                *)
LEMMA NextTable ==
  ASSUME Next
  PROVE  \/ subtree' = subtree
         \/ subtree' = [f \in Filter |-> <<>>]
         \/ \E c \in Client, req \in Requests : subtree' = Sub(client_id, subtree, c, req)
         \/ \E c \in Client, fs \in SUBSET Filter :
              subtree' = Unsub(client_id, subtree, c, fs)
<1> SUFFICES ASSUME ~ Halt, subtree' # subtree
             PROVE  \/ \E c \in Client, req \in Requests :
                         subtree' = Sub(client_id, subtree, c, req)
                    \/ \E c \in Client, fs \in SUBSET Filter :
                         subtree' = Unsub(client_id, subtree, c, fs)
  BY DEF Halt
<1>1. PICK c \in Client :
        \/ Accept(c) \/ ReadFails(c) \/ Disconnect(c) \/ Sigpipe(c)
        \/ \E id \in ClientId : HandleConnect(c, id)
        \/ \E req \in Requests, bad \in BOOLEAN : HandleSubscribe(c, req, bad)
        \/ \E fs \in SUBSET Filter : HandleUnsubscribe(c, fs)
        \/ \E t \in Name, q \in 0 .. 1 : HandlePublish(c, t, q)
        \/ \E t \in Name, pid \in InPid : HandlePublish2(c, t, pid)
        \/ WritePacket(c)
        \/ \E pid \in PacketId :
             \/ HandlePubrel(c, pid) \/ HandlePuback(c, pid)
             \/ HandlePubrec(c, pid) \/ HandlePubcomp(c, pid)
  BY DEF Next
<1>2. ~ Accept(c) /\ ~ ReadFails(c) /\ ~ Disconnect(c) /\ ~ Sigpipe(c)
  BY DEF Accept, ReadFails, Disconnect, Sigpipe
<1>3. \A id \in ClientId : ~ HandleConnect(c, id)
  BY DEF HandleConnect
<1>4. \A t \in Name, q \in 0 .. 1 : ~ HandlePublish(c, t, q)
  BY DEF HandlePublish
<1>5. \A t \in Name, pid \in InPid : ~ HandlePublish2(c, t, pid)
  BY DEF HandlePublish2
<1>6. ~ WritePacket(c)
  BY DEF WritePacket
<1>7. \A pid \in PacketId : ~ HandlePubrel(c, pid)
  BY DEF HandlePubrel
<1>8. \A pid \in PacketId : /\ ~ HandlePuback(c, pid) /\ ~ HandlePubrec(c, pid)
                            /\ ~ HandlePubcomp(c, pid)
  BY DEF HandlePuback, HandlePubrec, HandlePubcomp, Acknowledge
<1> QED
  BY <1>1, <1>2, <1>3, <1>4, <1>5, <1>6, <1>7, <1>8
  DEF HandleSubscribe, HandleUnsubscribe

(* A subscriber list names a client once at most.                          *)
THEOREM OneNodeEach == Spec => []OneNodePerClient
<1>1. Init => OneNodePerClient
  BY DEF Init, OneNodePerClient
<1>2. IInv /\ OneNodePerClient /\ [Next]_vars => OneNodePerClient'
  <2> SUFFICES ASSUME IInv, OneNodePerClient, [Next]_vars
               PROVE  \A f \in Filter : OneEach(subtree'[f])
    BY DEF OneNodePerClient, OneEach
  <2> TAKE f \in Filter
  <2>1. subtree[f] \in Seq(SubNode) /\ OneEach(subtree[f])
    BY DEF IInv, TypeRest, OneNodePerClient, OneEach
  <2>2. CASE subtree' = subtree
    BY <2>1, <2>2
  <2>3. CASE subtree' = [g \in Filter |-> <<>>]
    BY <2>3 DEF OneEach
  <2>4. ASSUME NEW c \in Client, NEW req \in Requests,
               subtree' = Sub(client_id, subtree, c, req)
        PROVE  OneEach(subtree'[f])
    <3>1. CASE f \in DOMAIN req
      <4>1. req[f] \in Qos
        BY <3>1, BrokerAssumption
      <4>2. subtree'[f] = SubList(client_id, subtree[f], c, req[f])
        BY <2>4, <3>1 DEF Sub
      <4> QED BY <2>1, <4>1, <4>2, SubListOneEach
    <3>2. CASE f \notin DOMAIN req
      BY <2>1, <2>4, <3>2 DEF Sub
    <3> QED BY <3>1, <3>2
  <2>5. ASSUME NEW c \in Client, NEW fs \in SUBSET Filter,
               subtree' = Unsub(client_id, subtree, c, fs)
        PROVE  OneEach(subtree'[f])
    <3>1. subtree'[f] = subtree[f] \/ subtree'[f] = UnsubList(client_id, subtree[f], c)
      BY <2>5 DEF Unsub
    <3> QED BY <2>1, <3>1, UnsubListOneEach
  <2>6. CASE UNCHANGED vars
    BY <2>2, <2>6 DEF vars
  <2> QED BY <2>2, <2>3, <2>4, <2>5, <2>6, NextTable
<1> QED BY <1>1, <1>2, Invariant, PTL DEF Spec

=============================================================================
