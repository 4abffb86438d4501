-------------------------- MODULE TopicWalkProofs ---------------------------
(***************************************************************************)
(* CallersPrefixKept, FindsGated and LiteralChain for every name and every *)
(* table.                                                                  *)
(*                                                                         *)
(* A call of insert_pub_message leaves alone what its callers have in the  *)
(* buffer: it writes from its own place on; what it has not written there  *)
(* is empty, or a separator an earlier call has left (WalkInv).            *)
(*                                                                         *)
(* What a walk has been through (Seen) follows from the steps its calls    *)
(* are about to take.  Of a regular name the separators that are left are  *)
(* those behind variants it has been through, and none is in the way of a  *)
(* string it goes on to look up (RegularInv).                              *)
(*                                                                         *)
(* Among filters without wildcards a walk goes down one level after the    *)
(* other and comes back finding nothing more (ChainInv).                   *)
(***************************************************************************)
EXTENDS TopicWalk, RecursionProofs

-----------------------------------------------------------------------------
(* Tokens and Joined are folds                                             *)

(* Levels as get_topic_tokens takes them apart, over any set of bytes.     *)
Levels(B) == Seq(Seq(B)) \ {<<>>}

TokenStep(ts, b) ==
  IF b = Sep THEN Append(ts, <<>>) ELSE [ts EXCEPT ![Len(ts)] = Append(@, b)]

TokenIter(s) ==
  CHOOSE iter : iter = [D \in SUBSET DOMAIN s |->
                          IF D = {} THEN << <<>> >> ELSE TokenStep(iter[D \ {Max(D)}], s[Max(D)])]

LEMMA TokensIs ==
  ASSUME NEW s
  PROVE  Tokens(s) = TokenIter(s)[DOMAIN s]
BY DEF Tokens, FoldLeft, MapThenFoldSet, TokenIter, TokenStep

LEMMA TokenStepType ==
  ASSUME NEW B, NEW ts \in Levels(B), NEW b \in B
  PROVE  TokenStep(ts, b) \in Levels(B)
<1>1. ts \in Seq(Seq(B)) /\ Len(ts) \in Nat /\ Len(ts) >= 1
  BY EmptySeq DEF Levels
<1>2. CASE b = Sep
  <2>1. TokenStep(ts, b) = Append(ts, <<>>)
    BY <1>2 DEF TokenStep
  <2>2. <<>> \in Seq(B)
    OBVIOUS
  <2> QED BY <1>1, <2>1, <2>2 DEF Levels
<1>3. CASE b # Sep
  <2>1. TokenStep(ts, b) = [ts EXCEPT ![Len(ts)] = Append(ts[Len(ts)], b)]
    BY <1>3 DEF TokenStep
  <2>2. ts[Len(ts)] \in Seq(B)
    BY <1>1
  <2>3. Append(ts[Len(ts)], b) \in Seq(B)
    BY <2>2
  <2>4. /\ TokenStep(ts, b) \in Seq(Seq(B))
        /\ Len(TokenStep(ts, b)) = Len(ts)
    BY <1>1, <2>1, <2>3, ExceptSeq
  <2> QED BY <1>1, <2>4 DEF Levels
<1> QED BY <1>2, <1>3

IsTokens(F, s, B) ==
  /\ F[0] = << <<>> >>
  /\ \A k \in 1 .. Len(s) : F[k] = TokenStep(F[k - 1], s[k])
  /\ \A k \in 0 .. Len(s) : F[k] \in Levels(B)
  /\ Tokens(s) = F[Len(s)]

LEMMA TokensSteps ==
  ASSUME NEW B, NEW s \in Seq(B)
  PROVE  \E F : IsTokens(F, s, B)
<1> DEFINE n == Len(s)
           Sets == SUBSET (1 .. n)
           S == Levels(B)
           empty == << <<>> >>
           op == [xi \in S \X (1 .. n) |-> TokenStep(xi[1], s[xi[2]])]
           iter == TokenIter(s)
           Step(f, D) == IF D = {} THEN empty ELSE TokenStep(f[D \ {Max(D)}], s[Max(D)])
<1>1. n \in Nat /\ DOMAIN s = 1 .. n /\ \A i \in 1 .. n : s[i] \in B
  OBVIOUS
<1>2. empty \in S
  BY DEF Levels
<1>3. op \in [S \X (1 .. n) -> S]
  <2>1. ASSUME NEW x \in S, NEW i \in 1 .. n PROVE TokenStep(x, s[i]) \in S
    BY <1>1, TokenStepType
  <2> HIDE DEF S
  <2> QED BY <2>1
<1>4. PICK f \in [Sets -> S] : IsFold(f, n, empty, op)
  <2> HIDE DEF op, n, S, empty
  <2> QED BY <1>1, <1>2, <1>3, FoldExists
<1>5. \A D \in Sets : D # {} => Max(D) \in 1 .. n
  <2> TAKE D \in Sets
  <2> HAVE D # {}
  <2>1. D \subseteq Nat /\ \A d \in D : d <= n
    BY <1>1
  <2> QED BY <1>1, <2>1, MaxIsGreatest
<1>6. \A D \in Sets : f[D] = Step(f, D)
  <2> TAKE D \in Sets
  <2>1. ASSUME D # {} PROVE op[<<f[D \ {Max(D)}], Max(D)>>] = TokenStep(f[D \ {Max(D)}], s[Max(D)])
    <3>1. Max(D) \in 1 .. n /\ f[D \ {Max(D)}] \in S
      BY <1>5, <2>1
    <3> HIDE DEF S
    <3> QED BY <3>1
  <2> HIDE DEF op, S, empty
  <2> QED BY <1>4, <2>1 DEF IsFold
<1>7. f = [D \in SUBSET DOMAIN s |-> Step(f, D)]
  <2> HIDE DEF Step, n
  <2> QED BY <1>1, <1>6
<1>8. iter = [D \in SUBSET DOMAIN s |-> Step(iter, D)]
  <2>1. \E g : g = [D \in SUBSET DOMAIN s |-> Step(g, D)]
    BY <1>7
  <2> QED BY <2>1, Zenon DEF TokenIter
<1>9. \A D \in Sets : iter[D] = Step(iter, D)
  <2> HIDE DEF Step, n, iter
  <2> QED BY <1>1, <1>8
<1> DEFINE F == [k \in 0 .. n |-> iter[1 .. k]]
<1>10. F[0] = empty
  <2>1. 1 .. 0 = {} /\ {} \in Sets /\ 0 \in 0 .. n
    BY <1>1
  <2> HIDE DEF iter
  <2> QED BY <1>9, <2>1
<1>11. \A k \in 1 .. n : F[k] = TokenStep(F[k - 1], s[k])
  <2> TAKE k \in 1 .. n
  <2>1. /\ k \in Nat \ {0} /\ 1 .. k \in Sets /\ 1 .. k # {}
        /\ k \in 0 .. n /\ k - 1 \in 0 .. n
    BY <1>1
  <2>2. Max(1 .. k) = k /\ (1 .. k) \ {k} = 1 .. k - 1
    BY <2>1, MaxOfPrefix
  <2>3. iter[1 .. k] = TokenStep(iter[1 .. k - 1], s[k])
    <3> HIDE DEF iter
    <3> QED BY <1>9, <2>1, <2>2
  <2> HIDE DEF iter
  <2> QED BY <2>1, <2>3
<1>12. Tokens(s) = F[n]
  <2>1. n \in 0 .. n
    BY <1>1
  <2> HIDE DEF iter
  <2> QED BY <1>1, <2>1, TokensIs DEF iter
<1> HIDE DEF F
<1>13. \A k \in 0 .. n : F[k] \in S
  <2> DEFINE N == {k \in Nat : k <= n => F[k] \in S}
  <2>1. 0 \in N
    BY <1>2, <1>10
  <2>2. \A k \in Nat : k \in N => k + 1 \in N
    <3> TAKE k \in Nat
    <3> HAVE k \in N
    <3> SUFFICES ASSUME k + 1 <= n PROVE F[k + 1] \in S
      OBVIOUS
    <3>1. k + 1 \in 1 .. n /\ k <= n /\ (k + 1) - 1 = k
      BY <1>1
    <3>2. F[k + 1] = TokenStep(F[k], s[k + 1])
      BY <1>11, <3>1
    <3>3. F[k] \in S /\ s[k + 1] \in B
      BY <1>1, <3>1
    <3> QED BY <3>2, <3>3, TokenStepType
  <2> HIDE DEF N
  <2>3. \A k \in Nat : k \in N
    BY <2>1, <2>2, Induction
  <2> QED BY <1>1, <2>3 DEF N
<1>14. IsTokens(F, s, B)
  BY <1>10, <1>11, <1>12, <1>13 DEF IsTokens
<1> QED BY <1>14

(* One byte more.                                                          *)
LEMMA TokensGrow ==
  ASSUME NEW B, NEW s \in Seq(B), NEW b \in B
  PROVE  Tokens(Append(s, b)) = TokenStep(Tokens(s), b)
<1> DEFINE n == Len(s)
           t == Append(s, b)
<1>1. PICK F : IsTokens(F, s, B)
  BY TokensSteps
<1>2. t \in Seq(B) /\ Len(t) = n + 1 /\ n \in Nat /\ t[n + 1] = b
      /\ \A k \in 1 .. n : t[k] = s[k]
  OBVIOUS
<1>3. PICK G : IsTokens(G, t, B)
  BY <1>2, TokensSteps
<1> DEFINE N == {k \in Nat : k <= n => F[k] = G[k]}
<1> HIDE DEF t
<1>4. 0 \in N
  BY <1>1, <1>3 DEF IsTokens
<1>5. \A k \in Nat : k \in N => k + 1 \in N
  <2> TAKE k \in Nat
  <2> HAVE k \in N
  <2> SUFFICES ASSUME k + 1 <= n PROVE F[k + 1] = G[k + 1]
    OBVIOUS
  <2>1. k + 1 \in 1 .. n /\ k + 1 \in 1 .. n + 1 /\ (k + 1) - 1 = k /\ F[k] = G[k]
    BY <1>2
  <2>2. F[k + 1] = TokenStep(F[k], s[k + 1]) /\ G[k + 1] = TokenStep(G[k], t[k + 1])
    BY <1>1, <1>2, <1>3, <2>1 DEF IsTokens
  <2> QED BY <1>2, <2>1, <2>2
<1> HIDE DEF N
<1>6. \A k \in Nat : k \in N
  BY <1>4, <1>5, Induction
<1>7. F[n] = G[n]
  BY <1>2, <1>6 DEF N
<1>8. n + 1 \in 1 .. n + 1 /\ (n + 1) - 1 = n
  BY <1>2
<1>9. G[n + 1] = TokenStep(G[n], b)
  BY <1>2, <1>3, <1>8 DEF IsTokens
<1>10. Tokens(t) = G[n + 1] /\ Tokens(s) = F[n]
  BY <1>1, <1>2, <1>3 DEF IsTokens
<1> QED BY <1>7, <1>9, <1>10 DEF t

LEMMA TokensOfNone == Tokens(<<>>) = << <<>> >>
<1>1. <<>> \in Seq({}) /\ Len(<<>>) = 0
  OBVIOUS
<1>2. PICK F : IsTokens(F, <<>>, {})
  BY <1>1, TokensSteps
<1> QED BY <1>1, <1>2 DEF IsTokens

LEMMA TokensType ==
  ASSUME NEW B, NEW s \in Seq(B)
  PROVE  Tokens(s) \in Levels(B)
<1>1. PICK F : IsTokens(F, s, B)
  BY TokensSteps
<1>2. Len(s) \in 0 .. Len(s)
  OBVIOUS
<1> QED BY <1>1, <1>2 DEF IsTokens

(* The levels behind the first are joined to it.                           *)
JoinStep(x, l) == x \o <<Sep>> \o l

JoinIter(ls) ==
  CHOOSE iter : iter = [D \in SUBSET DOMAIN Tail(ls) |->
                          IF D = {} THEN Head(ls)
                          ELSE JoinStep(iter[D \ {Max(D)}], Tail(ls)[Max(D)])]

LEMMA JoinedIs ==
  ASSUME NEW ls
  PROVE  Joined(ls) = JoinIter(ls)[DOMAIN Tail(ls)]
BY DEF Joined, FoldLeft, MapThenFoldSet, JoinIter, JoinStep

LEMMA JoinStepType ==
  ASSUME NEW B, Sep \in B, NEW x \in Seq(B), NEW l \in Seq(B)
  PROVE  /\ JoinStep(x, l) \in Seq(B)
         /\ Len(JoinStep(x, l)) = Len(x) + 1 + Len(l)
<1>1. <<Sep>> \in Seq(B) /\ Len(<<Sep>>) = 1
  OBVIOUS
<1>2. x \o <<Sep>> \in Seq(B) /\ Len(x \o <<Sep>>) = Len(x) + 1
  BY <1>1
<1>3. x \o <<Sep>> \o l \in Seq(B) /\ Len(x \o <<Sep>> \o l) = Len(x) + 1 + Len(l)
  BY <1>2
<1> QED BY <1>3 DEF JoinStep

(* The prefixes of the levels, from the second level on.                   *)
IsJoined(F, ls, B) ==
  /\ F[0] = ls[1]
  /\ \A k \in 1 .. Len(ls) - 1 : F[k] = JoinStep(F[k - 1], ls[k + 1])
  /\ \A k \in 0 .. Len(ls) - 1 : F[k] \in Seq(B)
  /\ Joined(ls) = F[Len(ls) - 1]

LEMMA JoinedSteps ==
  ASSUME NEW B, Sep \in B, NEW ls \in Levels(B)
  PROVE  \E F : IsJoined(F, ls, B)
<1> DEFINE s == Tail(ls)
           n == Len(s)
           Sets == SUBSET (1 .. n)
           S == Seq(B)
           empty == Head(ls)
           op == [xi \in S \X (1 .. n) |-> JoinStep(xi[1], s[xi[2]])]
           iter == JoinIter(ls)
           Step(f, D) == IF D = {} THEN empty ELSE JoinStep(f[D \ {Max(D)}], s[Max(D)])
<1>1. /\ ls \in Seq(S) /\ Len(ls) \in Nat /\ Len(ls) >= 1 /\ s \in Seq(S)
      /\ n = Len(ls) - 1 /\ empty = ls[1] /\ empty \in S
      /\ \A i \in 1 .. n : s[i] = ls[i + 1]
  <2>1. ls \in Seq(S) /\ Len(ls) \in Nat /\ Len(ls) >= 1 /\ ls # <<>>
    BY EmptySeq DEF Levels
  <2> HIDE DEF S
  <2> QED BY <2>1, HeadTailProperties
<1>2. n \in Nat /\ DOMAIN s = 1 .. n /\ \A i \in 1 .. n : s[i] \in S
  <2> HIDE DEF s, S
  <2> QED BY <1>1
<1>3. empty \in S
  BY <1>1
<1> HIDE DEF s
<1>4. op \in [S \X (1 .. n) -> S]
  <2>1. ASSUME NEW x \in S, NEW i \in 1 .. n PROVE JoinStep(x, s[i]) \in S
    BY <1>2, JoinStepType
  <2> HIDE DEF S
  <2> QED BY <2>1
<1>5. PICK f \in [Sets -> S] : IsFold(f, n, empty, op)
  <2> HIDE DEF op, n, S, empty
  <2> QED BY <1>2, <1>3, <1>4, FoldExists
<1>6. \A D \in Sets : D # {} => Max(D) \in 1 .. n
  <2> TAKE D \in Sets
  <2> HAVE D # {}
  <2>1. D \subseteq Nat /\ \A d \in D : d <= n
    BY <1>2
  <2> QED BY <1>2, <2>1, MaxIsGreatest
<1>7. \A D \in Sets : f[D] = Step(f, D)
  <2> TAKE D \in Sets
  <2>1. ASSUME D # {} PROVE op[<<f[D \ {Max(D)}], Max(D)>>] = JoinStep(f[D \ {Max(D)}], s[Max(D)])
    <3>1. Max(D) \in 1 .. n /\ f[D \ {Max(D)}] \in S
      BY <1>6, <2>1
    <3> HIDE DEF S
    <3> QED BY <3>1
  <2> HIDE DEF op, S, empty
  <2> QED BY <1>5, <2>1 DEF IsFold
<1>8. f = [D \in SUBSET DOMAIN s |-> Step(f, D)]
  <2> HIDE DEF Step, n
  <2> QED BY <1>2, <1>7
<1>9. iter = [D \in SUBSET DOMAIN s |-> Step(iter, D)]
  <2>1. \E g : g = [D \in SUBSET DOMAIN s |-> Step(g, D)]
    BY <1>8
  <2> QED BY <2>1, Zenon DEF JoinIter, s
<1>10. \A D \in Sets : iter[D] = Step(iter, D)
  <2> HIDE DEF Step, n, iter
  <2> QED BY <1>2, <1>9
<1> DEFINE F == [k \in 0 .. n |-> iter[1 .. k]]
<1>11. F[0] = empty
  <2>1. 1 .. 0 = {} /\ {} \in Sets /\ 0 \in 0 .. n
    BY <1>2
  <2> HIDE DEF iter
  <2> QED BY <1>10, <2>1
<1>12. \A k \in 1 .. n : F[k] = JoinStep(F[k - 1], s[k])
  <2> TAKE k \in 1 .. n
  <2>1. /\ k \in Nat \ {0} /\ 1 .. k \in Sets /\ 1 .. k # {}
        /\ k \in 0 .. n /\ k - 1 \in 0 .. n
    BY <1>2
  <2>2. Max(1 .. k) = k /\ (1 .. k) \ {k} = 1 .. k - 1
    BY <2>1, MaxOfPrefix
  <2>3. iter[1 .. k] = JoinStep(iter[1 .. k - 1], s[k])
    <3> HIDE DEF iter
    <3> QED BY <1>10, <2>1, <2>2
  <2> HIDE DEF iter
  <2> QED BY <2>1, <2>3
<1>13. Joined(ls) = F[n]
  <2>1. n \in 0 .. n
    BY <1>2
  <2> HIDE DEF iter
  <2> QED BY <1>2, <2>1, JoinedIs DEF iter, s
<1> HIDE DEF F
<1>14. \A k \in 0 .. n : F[k] \in S
  <2> DEFINE N == {k \in Nat : k <= n => F[k] \in S}
  <2>1. 0 \in N
    BY <1>3, <1>11
  <2>2. \A k \in Nat : k \in N => k + 1 \in N
    <3> TAKE k \in Nat
    <3> HAVE k \in N
    <3> SUFFICES ASSUME k + 1 <= n PROVE F[k + 1] \in S
      OBVIOUS
    <3>1. k + 1 \in 1 .. n /\ k <= n /\ (k + 1) - 1 = k
      BY <1>2
    <3>2. F[k + 1] = JoinStep(F[k], s[k + 1])
      BY <1>12, <3>1
    <3>3. F[k] \in S /\ s[k + 1] \in S
      BY <1>2, <3>1
    <3>4. JoinStep(F[k], s[k + 1]) \in S
      BY <3>3, JoinStepType
    <3> HIDE DEF S
    <3> QED BY <3>2, <3>4
  <2> HIDE DEF N
  <2>3. \A k \in Nat : k \in N
    BY <2>1, <2>2, Induction
  <2> QED BY <1>2, <2>3 DEF N
<1>15. IsJoined(F, ls, B)
  <2>1. \A k \in 1 .. n : F[k] = JoinStep(F[k - 1], ls[k + 1])
    BY <1>1, <1>12
  <2> HIDE DEF empty, n
  <2> QED BY <1>1, <1>11, <2>1, <1>13, <1>14 DEF IsJoined
<1> QED BY <1>15
(* One level more.                                                         *)
LEMMA JoinedOne ==
  ASSUME NEW B, Sep \in B, NEW l \in Seq(B)
  PROVE  Joined(<<l>>) = l
<1>1. <<l>> \in Levels(B) /\ Len(<<l>>) - 1 = 0 /\ <<l>>[1] = l
  BY DEF Levels
<1>2. PICK F : IsJoined(F, <<l>>, B)
  BY <1>1, JoinedSteps
<1> QED BY <1>1, <1>2 DEF IsJoined

LEMMA JoinedType ==
  ASSUME NEW B, Sep \in B, NEW ls \in Levels(B)
  PROVE  Joined(ls) \in Seq(B)
<1>1. PICK F : IsJoined(F, ls, B)
  BY JoinedSteps
<1>2. Len(ls) - 1 \in 0 .. Len(ls) - 1
  BY EmptySeq DEF Levels
<1> QED BY <1>1, <1>2 DEF IsJoined

LEMMA JoinedGrows ==
  ASSUME NEW B, Sep \in B, NEW ls \in Levels(B), NEW l \in Seq(B)
  PROVE  /\ Append(ls, l) \in Levels(B)
         /\ Joined(Append(ls, l)) = JoinStep(Joined(ls), l)
<1> DEFINE n == Len(ls)
           t == Append(ls, l)
<1>1. PICK F : IsJoined(F, ls, B)
  BY JoinedSteps
<1>2. /\ t \in Levels(B) /\ Len(t) = n + 1 /\ n \in Nat /\ n >= 1 /\ t[n + 1] = l
      /\ \A k \in 1 .. n : t[k] = ls[k]
  <2>1. ls \in Seq(Seq(B)) /\ ls # <<>>
    BY DEF Levels
  <2>2. n \in Nat /\ n >= 1
    BY <2>1, EmptySeq
  <2>3. /\ t \in Seq(Seq(B)) /\ Len(t) = n + 1 /\ t[n + 1] = l
        /\ \A k \in 1 .. n : t[k] = ls[k]
    BY <2>1
  <2>4. t # <<>>
    BY <2>2, <2>3, EmptySeq
  <2> QED BY <2>2, <2>3, <2>4 DEF Levels
<1>3. PICK G : IsJoined(G, t, B)
  BY <1>2, JoinedSteps
<1> DEFINE N == {k \in Nat : k <= n - 1 => F[k] = G[k]}
<1> HIDE DEF t
<1>4. 0 \in N
  <2>1. 1 \in 1 .. n
    BY <1>2
  <2> QED BY <1>1, <1>2, <1>3, <2>1 DEF IsJoined
<1>5. \A k \in Nat : k \in N => k + 1 \in N
  <2> TAKE k \in Nat
  <2> HAVE k \in N
  <2> SUFFICES ASSUME k + 1 <= n - 1 PROVE F[k + 1] = G[k + 1]
    OBVIOUS
  <2>1. /\ k + 1 \in 1 .. Len(ls) - 1 /\ k + 1 \in 1 .. Len(t) - 1 /\ (k + 1) - 1 = k
        /\ (k + 1) + 1 \in 1 .. n /\ F[k] = G[k]
    BY <1>2
  <2>2. /\ F[k + 1] = JoinStep(F[(k + 1) - 1], ls[(k + 1) + 1])
        /\ G[k + 1] = JoinStep(G[(k + 1) - 1], t[(k + 1) + 1])
    BY <1>1, <1>3, <2>1 DEF IsJoined
  <2> QED BY <1>2, <2>1, <2>2
<1> HIDE DEF N
<1>6. \A k \in Nat : k \in N
  BY <1>4, <1>5, Induction
<1>7. F[n - 1] = G[n - 1]
  <2>1. n - 1 \in Nat
    BY <1>2
  <2>2. n - 1 \in N
    BY <1>6, <2>1
  <2> QED BY <2>1, <2>2 DEF N
<1>8. n \in 1 .. Len(t) - 1 /\ Len(t) - 1 = n
  BY <1>2
<1>9. G[n] = JoinStep(G[n - 1], l)
  BY <1>2, <1>3, <1>8 DEF IsJoined
<1>10. Joined(t) = G[n] /\ Joined(ls) = F[n - 1]
  BY <1>1, <1>3, <1>8 DEF IsJoined
<1> QED BY <1>2, <1>7, <1>9, <1>10 DEF t

(* Induction over sequences, for a set of them.                            *)
LEMMA SequenceInduction ==
  ASSUME NEW B, NEW P, P \subseteq Seq(B), <<>> \in P,
         \A s \in P : \A b \in B : Append(s, b) \in P
  PROVE  P = Seq(B)
<1> DEFINE N == {k \in Nat : \A s \in Seq(B) : Len(s) = k => s \in P}
<1>1. 0 \in N
  <2> SUFFICES ASSUME NEW s \in Seq(B), Len(s) = 0 PROVE s \in P
    OBVIOUS
  <2>1. s = <<>>
    BY EmptySeq
  <2> QED BY <2>1
<1>2. \A k \in Nat : k \in N => k + 1 \in N
  <2> TAKE k \in Nat
  <2> HAVE k \in N
  <2> SUFFICES ASSUME NEW s \in Seq(B), Len(s) = k + 1 PROVE s \in P
    OBVIOUS
  <2>1. s # <<>>
    OBVIOUS
  <2>2. PICK t \in Seq(B), b \in B : s = Append(t, b)
    BY <2>1, SequenceEmptyOrAppend
  <2>3. Len(t) = k
    BY <2>2
  <2>4. t \in P
    BY <2>3
  <2> QED BY <2>2, <2>4
<1> HIDE DEF N
<1>3. \A k \in Nat : k \in N
  BY <1>1, <1>2, Induction
<1> SUFFICES ASSUME NEW s \in Seq(B) PROVE s \in P
  OBVIOUS
<1>4. Len(s) \in Nat
  OBVIOUS
<1> QED BY <1>3, <1>4 DEF N

(* A level has no separator in it.                                         *)
NoSep(l) == \A i \in 1 .. Len(l) : l[i] # Sep
Plain(ls) == \A i \in 1 .. Len(ls) : NoSep(ls[i])

LEMMA NoSepGrows ==
  ASSUME NEW B, NEW l \in Seq(B), NEW b \in B
  PROVE  NoSep(Append(l, b)) <=> NoSep(l) /\ b # Sep
<1>1. /\ Len(Append(l, b)) = Len(l) + 1 /\ Len(l) \in Nat
      /\ Append(l, b)[Len(l) + 1] = b
      /\ \A i \in 1 .. Len(l) : Append(l, b)[i] = l[i]
  OBVIOUS
<1>2. PICK n \in Nat : n = Len(l)
  BY <1>1
<1>3. n + 1 \in 1 .. n + 1 /\ \A i \in 1 .. n + 1 : i = n + 1 \/ i \in 1 .. n
  OBVIOUS
<1>4. \A i \in 1 .. n : i \in 1 .. n + 1
  OBVIOUS
<1> QED BY <1>1, <1>2, <1>3, <1>4 DEF NoSep

LEMMA PlainGrows ==
  ASSUME NEW B, NEW ls \in Seq(Seq(B)), NEW l \in Seq(B)
  PROVE  Plain(Append(ls, l)) <=> Plain(ls) /\ NoSep(l)
<1>1. /\ Len(Append(ls, l)) = Len(ls) + 1 /\ Len(ls) \in Nat
      /\ Append(ls, l)[Len(ls) + 1] = l
      /\ \A i \in 1 .. Len(ls) : Append(ls, l)[i] = ls[i]
  OBVIOUS
<1>2. PICK n \in Nat : n = Len(ls)
  BY <1>1
<1>3. n + 1 \in 1 .. n + 1 /\ \A i \in 1 .. n + 1 : i = n + 1 \/ i \in 1 .. n
  OBVIOUS
<1>4. \A i \in 1 .. n : i \in 1 .. n + 1
  OBVIOUS
<1> QED BY <1>1, <1>2, <1>3, <1>4 DEF Plain

LEMMA NoneIsPlain == NoSep(<<>>) /\ Plain(<<>>)
BY DEF NoSep, Plain

(* A byte more in the last level.                                          *)
LEMMA LastGrows ==
  ASSUME NEW B, NEW u \in Seq(Seq(B)), NEW l \in Seq(B), NEW b \in B, b # Sep
  PROVE  TokenStep(Append(u, l), b) = Append(u, Append(l, b))
<1> DEFINE S == Seq(B)
<1>1. PICK v, w, m, n : v = Append(u, l) /\ w = Append(u, m) /\ m = Append(l, b) /\ n = Len(u)
  OBVIOUS
<1>2. m \in S
  BY <1>1
<1> HIDE DEF S
<1>3. u \in Seq(S) /\ l \in S
  BY DEF S
<1>4. /\ v \in Seq(S) /\ w \in Seq(S) /\ Len(v) = n + 1 /\ Len(w) = n + 1 /\ n \in Nat
      /\ v[n + 1] = l /\ w[n + 1] = m /\ \A i \in 1 .. n : v[i] = w[i]
  BY <1>1, <1>2, <1>3
<1>5. n + 1 \in 1 .. n + 1 /\ \A i \in 1 .. n + 1 : i = n + 1 \/ i \in 1 .. n
  BY <1>4
<1>6. /\ [v EXCEPT ![n + 1] = m] \in Seq(S) /\ Len([v EXCEPT ![n + 1] = m]) = n + 1
      /\ \A i \in 1 .. n + 1 : [v EXCEPT ![n + 1] = m][i] = IF i = n + 1 THEN m ELSE v[i]
  BY <1>2, <1>4, <1>5, ExceptSeq
<1>7. \A i \in 1 .. n + 1 : [v EXCEPT ![n + 1] = m][i] = w[i]
  BY <1>4, <1>5, <1>6
<1>8. [v EXCEPT ![n + 1] = m] = w
  BY <1>4, <1>6, <1>7, SeqEqual
<1>9. TokenStep(v, b) = [v EXCEPT ![Len(v)] = Append(v[Len(v)], b)]
  BY DEF TokenStep
<1> QED BY <1>1, <1>4, <1>8, <1>9

(* get_topic_tokens loses nothing: its tokens, with separators between     *)
(* them, are what it was given, and no token has a separator in it.        *)
THEOREM JoinedTokens ==
  ASSUME NEW B, Sep \in B, NEW s \in Seq(B)
  PROVE  Plain(Tokens(s)) /\ Joined(Tokens(s)) = s
<1> DEFINE P == {t \in Seq(B) : Plain(Tokens(t)) /\ Joined(Tokens(t)) = t}
<1>1. <<>> \in P
  <2>1. <<>> \in Seq(B)
    OBVIOUS
  <2>2. Joined(<< <<>> >>) = <<>>
    BY <2>1, JoinedOne
  <2>3. Plain(<< <<>> >>)
    BY NoneIsPlain DEF Plain
  <2> QED BY <2>1, <2>2, <2>3, TokensOfNone
<1>2. ASSUME NEW t \in P, NEW b \in B PROVE Append(t, b) \in P
  <2> DEFINE ts == Tokens(t)
             new == Tokens(Append(t, b))
  <2>1. /\ t \in Seq(B) /\ ts \in Levels(B) /\ Plain(ts) /\ Joined(ts) = t
        /\ new = TokenStep(ts, b) /\ Append(t, b) \in Seq(B)
    BY TokensType, TokensGrow
  <2>2. CASE b = Sep
    <3>1. new = Append(ts, <<>>)
      BY <2>1, <2>2 DEF TokenStep
    <3>2. Joined(new) = JoinStep(t, <<>>)
      <4>1. <<>> \in Seq(B)
        OBVIOUS
      <4> QED BY <2>1, <3>1, <4>1, JoinedGrows
    <3>3. JoinStep(t, <<>>) = Append(t, b)
      BY <2>1, <2>2 DEF JoinStep
    <3>4. Plain(new)
      <4>1. ts \in Seq(Seq(B)) /\ <<>> \in Seq(B)
        BY <2>1 DEF Levels
      <4> QED BY <2>1, <3>1, <4>1, PlainGrows, NoneIsPlain
    <3> QED BY <2>1, <3>2, <3>3, <3>4
  <2>3. CASE b # Sep
    <3>1. PICK u \in Seq(Seq(B)), l \in Seq(B) : ts = Append(u, l)
      <4>1. ts \in Seq(Seq(B)) /\ ts # <<>>
        BY <2>1 DEF Levels
      <4> QED BY <4>1, SequenceEmptyOrAppend
    <3> DEFINE m == Append(l, b)
    <3>2. m \in Seq(B) /\ NoSep(l) /\ NoSep(m) /\ Plain(u)
      <4>1. Plain(u) /\ NoSep(l)
        BY <2>1, <3>1, PlainGrows
      <4>2. NoSep(m)
        BY <2>3, <4>1, NoSepGrows
      <4> QED BY <4>1, <4>2
    <3>3. new = Append(u, m)
      <4>1. new = TokenStep(Append(u, l), b)
        BY <2>1, <3>1
      <4> QED BY <2>3, <4>1, LastGrows
    <3>4. Plain(new)
      <4> HIDE DEF m
      <4> QED BY <3>2, <3>3, PlainGrows
    <3>5. Joined(new) = Append(t, b)
      <4>1. CASE u = <<>>
        <5>1. ts = <<l>> /\ new = <<m>>
          BY <3>1, <3>3, <4>1
        <5>2. Joined(<<l>>) = l
          BY JoinedOne
        <5>3. Joined(<<m>>) = m
          <6> HIDE DEF m
          <6> QED BY <3>2, JoinedOne
        <5> QED BY <2>1, <5>1, <5>2, <5>3
      <4>2. CASE u # <<>>
        <5>1. u \in Levels(B)
          BY <4>2 DEF Levels
        <5>2. Joined(ts) = JoinStep(Joined(u), l)
          BY <3>1, <5>1, JoinedGrows
        <5>3. Joined(new) = JoinStep(Joined(u), m)
          <6> HIDE DEF m
          <6> QED BY <3>2, <3>3, <5>1, JoinedGrows
        <5>4. Joined(u) \in Seq(B)
          BY <5>1, JoinedType
        <5>5. JoinStep(Joined(u), m) = Append(JoinStep(Joined(u), l), b)
          <6>1. <<Sep>> \in Seq(B)
            OBVIOUS
          <6>2. PICK x \in Seq(B) : x = Joined(u) \o <<Sep>>
            <7>1. Joined(u) \o <<Sep>> \in Seq(B)
              BY <5>4, <6>1, ConcatProperties
            <7> QED BY <7>1
          <6>3. x \o Append(l, b) = Append(x \o l, b)
            OBVIOUS
          <6> QED BY <6>2, <6>3 DEF JoinStep
        <5> QED BY <2>1, <5>2, <5>3, <5>5
      <4> QED BY <4>1, <4>2
    <3> QED BY <2>1, <3>4, <3>5
  <2> QED BY <2>2, <2>3
<1>3. P \subseteq Seq(B)
  OBVIOUS
<1> HIDE DEF P
<1>4. P = Seq(B)
  BY <1>1, <1>2, <1>3, SequenceInduction
<1> QED BY <1>4 DEF P

(* Bytes without a separator go to the last level.                         *)
LEMMA LevelGrows ==
  ASSUME NEW B, NEW x \in Seq(B), NEW u \in Seq(Seq(B)), Tokens(x) = Append(u, <<>>),
         NEW l \in Seq(B), NoSep(l)
  PROVE  Tokens(x \o l) = Append(u, l)
<1> DEFINE P == {t \in Seq(B) : NoSep(t) => Tokens(x \o t) = Append(u, t)}
<1>1. <<>> \in P
  BY ConcatEmptySeq
<1>2. ASSUME NEW t \in P, NEW b \in B PROVE Append(t, b) \in P
  <2>1. t \in Seq(B) /\ Append(t, b) \in Seq(B)
    OBVIOUS
  <2> SUFFICES ASSUME NoSep(Append(t, b)) PROVE Tokens(x \o Append(t, b)) = Append(u, Append(t, b))
    BY <2>1
  <2>2. NoSep(t) /\ b # Sep
    BY <2>1, NoSepGrows
  <2>3. Tokens(x \o t) = Append(u, t)
    BY <2>2
  <2>4. x \o t \in Seq(B) /\ x \o Append(t, b) = Append(x \o t, b)
    BY <2>1
  <2>5. Tokens(x \o Append(t, b)) = TokenStep(Append(u, t), b)
    BY <2>3, <2>4, TokensGrow
  <2> QED BY <2>1, <2>2, <2>5, LastGrows
<1>3. P \subseteq Seq(B)
  OBVIOUS
<1> HIDE DEF P
<1>4. P = Seq(B)
  BY <1>1, <1>2, <1>3, SequenceInduction
<1> QED BY <1>4 DEF P

LEMMA TokensOfLevel ==
  ASSUME NEW B, NEW l \in Seq(B), NoSep(l)
  PROVE  Tokens(l) = <<l>>
<1>1. /\ <<>> \in Seq(B) /\ <<>> \in Seq(Seq(B)) /\ << <<>> >> = Append(<<>>, <<>>)
      /\ <<>> \o l = l /\ Append(<<>>, l) = <<l>>
  BY ConcatEmptySeq
<1>2. Tokens(<<>>) = Append(<<>>, <<>>)
  BY <1>1, TokensOfNone
<1>3. PICK e : e = <<>>
  OBVIOUS
<1>4. /\ e \in Seq(B) /\ e \in Seq(Seq(B)) /\ Tokens(e) = Append(e, <<>>)
      /\ e \o l = l /\ Append(e, l) = <<l>>
  BY <1>1, <1>2, <1>3
<1>5. Tokens(e \o l) = Append(e, l)
  BY <1>4, LevelGrows
<1> QED BY <1>4, <1>5

LEMMA TokensOfJoin ==
  ASSUME NEW B, Sep \in B, NEW x \in Seq(B), NEW l \in Seq(B), NoSep(l)
  PROVE  Tokens(JoinStep(x, l)) = Append(Tokens(x), l)
<1>1. PICK y : y = Append(x, Sep)
  OBVIOUS
<1>2. y \in Seq(B) /\ x \o <<Sep>> = y
  BY <1>1, AppendIsConcat
<1>3. Tokens(x) \in Seq(Seq(B))
  BY TokensType DEF Levels
<1>4. Tokens(y) = Append(Tokens(x), <<>>)
  <2>1. Tokens(y) = TokenStep(Tokens(x), Sep)
    BY <1>1, TokensGrow
  <2> QED BY <2>1 DEF TokenStep
<1>5. Tokens(y \o l) = Append(Tokens(x), l)
  BY <1>2, <1>3, <1>4, LevelGrows
<1> QED BY <1>2, <1>5 DEF JoinStep

(* Levels that are joined are the tokens get_topic_tokens finds.           *)
THEOREM TokensJoined ==
  ASSUME NEW B, Sep \in B, NEW ls \in Levels(B), Plain(ls)
  PROVE  Tokens(Joined(ls)) = ls
<1> DEFINE S == Seq(B)
           P == {t \in Seq(S) : t # <<>> /\ Plain(t) => Tokens(Joined(t)) = t}
<1>1. <<>> \in P
  OBVIOUS
<1>2. ASSUME NEW t \in P, NEW l \in S PROVE Append(t, l) \in P
  <2>1. t \in Seq(S) /\ Append(t, l) \in Seq(S) /\ l \in Seq(B)
    OBVIOUS
  <2> SUFFICES ASSUME Plain(Append(t, l)) PROVE Tokens(Joined(Append(t, l))) = Append(t, l)
    BY <2>1
  <2>2. Plain(t) /\ NoSep(l)
    BY <2>1, PlainGrows
  <2>3. CASE t = <<>>
    <3>1. Append(t, l) = <<l>>
      BY <2>3
    <3>2. Joined(<<l>>) = l /\ Tokens(l) = <<l>>
      BY <2>1, <2>2, JoinedOne, TokensOfLevel
    <3> QED BY <3>1, <3>2
  <2>4. CASE t # <<>>
    <3>1. t \in Levels(B) /\ Tokens(Joined(t)) = t
      BY <2>1, <2>2, <2>4 DEF Levels
    <3>2. Joined(t) \in Seq(B)
      BY <3>1, JoinedType
    <3>3. Joined(Append(t, l)) = JoinStep(Joined(t), l)
      BY <2>1, <3>1, JoinedGrows
    <3> QED BY <2>1, <2>2, <3>1, <3>2, <3>3, TokensOfJoin
  <2> QED BY <2>3, <2>4
<1>3. P \subseteq Seq(S)
  OBVIOUS
<1> HIDE DEF P
<1>4. P = Seq(S)
  <2> HIDE DEF S
  <2> QED BY <1>1, <1>2, <1>3, SequenceInduction
<1>5. ls \in Seq(S) /\ ls # <<>>
  BY DEF Levels
<1> QED BY <1>4, <1>5 DEF P

Steps == {"token", "clear", "plus", "unplus", "hash"}
Frame == [token : 1 .. Len(tokens), len : 0 .. Len(name), next : Steps]

(* The bytes a call may have written, from its place on.                   *)
Width(f) ==
  IF f.next = "clear" THEN Len(tokens[f.token])
  ELSE IF f.next \in {"unplus", "hash"} THEN 1 ELSE 0

(* In front of call i the buffer is full, and ends in a separator.         *)
PrefixesKept ==
  \A i \in 1 .. Len(stack) :
    /\ \A j \in 0 .. stack[i].len - 1 : buf[j] # NUL
    /\ i > 1 => buf[stack[i].len - 1] = Sep
    /\ \A k \in 1 .. i - 1 : stack[k].len < stack[i].len

(* Behind what call i has written there are separators at most, up to what *)
(* the next call is about.                                                 *)
RestIsBlank ==
  \A i \in 1 .. Len(stack) : \A j \in 0 .. Len(name) :
    /\ stack[i].len + Width(stack[i]) <= j
    /\ i < Len(stack) => j < stack[i + 1].len
    => buf[j] \in {NUL, Sep}

Calls ==
  /\ DOMAIN buf = 0 .. Len(name)
  /\ stack \in Seq(Frame)
  /\ \A i \in 1 .. Len(stack) - 1 : stack[i].next \in {"clear", "unplus"}
  /\ PrefixesKept
  /\ RestIsBlank

WalkInv ==
  /\ name \in Text /\ tokens \in Seq(Text) \ {<<>>}
  /\ visited \in Seq(table) /\ overrun \in BOOLEAN
  /\ Calls

-----------------------------------------------------------------------------
(* The buffer                                                              *)

(* The end of a string is its first zero byte.                             *)
LEMMA StrLenIsFirst ==
  ASSUME NEW N \in Nat, NEW b, DOMAIN b = 0 .. N, Terminated(b)
  PROVE  /\ StrLen(b) \in 0 .. N /\ b[StrLen(b)] = NUL
         /\ \A j \in 0 .. StrLen(b) - 1 : b[j] # NUL
<1> DEFINE S == {i \in 0 .. N : b[i] = NUL}
<1>1. S # {} /\ S \subseteq Nat
  BY DEF Terminated
<1> HIDE DEF S
<1>2. PICK x \in S : \A y \in S : ~ (<<y, x>> \in OpToRel(<, Nat))
  BY <1>1, NatLessThanWellFounded, WFMin
<1>3. \A j \in 0 .. x - 1 : b[j] # NUL
  <2> SUFFICES ASSUME NEW j \in 0 .. x - 1, b[j] = NUL PROVE FALSE
    OBVIOUS
  <2>1. x \in 0 .. N
    BY DEF S
  <2>2. j \in S /\ <<j, x>> \in Nat \X Nat /\ j < x
    BY <2>1 DEF S
  <2>3. <<j, x>> \in OpToRel(<, Nat)
    BY <2>2 DEF OpToRel
  <2> QED BY <1>2, <2>2, <2>3
<1>4. x \in DOMAIN b /\ b[x] = NUL
  BY DEF S
<1> DEFINE first(i) == b[i] = NUL /\ \A j \in 0 .. i - 1 : b[j] # NUL
<1>5. StrLen(b) \in DOMAIN b /\ first(StrLen(b))
  <2>1. \E i \in DOMAIN b : first(i)
    BY <1>3, <1>4
  <2> HIDE DEF first
  <2>2. (CHOOSE i \in DOMAIN b : first(i)) \in DOMAIN b
        /\ first(CHOOSE i \in DOMAIN b : first(i))
    BY <2>1
  <2> QED BY <2>2 DEF StrLen, first
<1> QED BY <1>5

(* What a write of s at L changes, and what it does not.                   *)
LEMMA WriteAt ==
  ASSUME NEW N \in Nat, NEW b, DOMAIN b = 0 .. N, NEW L \in Nat,
         NEW s, Len(s) \in Nat, \A k \in 1 .. Len(s) : s[k] # NUL
  PROVE  /\ DOMAIN Write(b, L, s) = 0 .. N
         /\ \A j \in 0 .. N :
              /\ j < L => Write(b, L, s)[j] = b[j]
              /\ L + Len(s) <= j => Write(b, L, s)[j] = b[j]
              /\ L <= j /\ j < L + Len(s) => Write(b, L, s)[j] # NUL
<1>1. DOMAIN Write(b, L, s) = 0 .. N
  BY DEF Write
<1>2. ASSUME NEW j \in 0 .. N
      PROVE  /\ j < L => Write(b, L, s)[j] = b[j]
             /\ L + Len(s) <= j => Write(b, L, s)[j] = b[j]
             /\ L <= j /\ j < L + Len(s) => Write(b, L, s)[j] # NUL
  <2>1. Write(b, L, s)[j] = IF j \in L .. L + Len(s) - 1 THEN s[j - L + 1] ELSE b[j]
    BY DEF Write
  <2>2. L <= j /\ j < L + Len(s) => j - L + 1 \in 1 .. Len(s)
    OBVIOUS
  <2> QED BY <2>1, <2>2
<1> QED BY <1>1, <1>2

-----------------------------------------------------------------------------
(* The calls                                                               *)

(* What is known of n calls, the innermost of which begins at L.           *)
LEMMA CallFacts ==
  ASSUME WalkInv, stack # <<>>, NEW n, n = Len(stack), NEW L, L = frame.len
  PROVE  /\ stack \in Seq(Frame) /\ n \in Nat /\ n >= 1
         /\ Len(name) \in Nat /\ Len(tokens) \in Nat /\ L \in 0 .. Len(name)
         /\ frame = stack[n] /\ frame \in Frame /\ stack[n].len = L
         /\ \A i \in 1 .. n : stack[i] \in Frame /\ stack[i].len \in 0 .. Len(name)
         /\ \A i \in 1 .. n - 1 : stack[i].len < L
         /\ \A i \in 1 .. n - 1 : stack[i].next \in {"clear", "unplus"}
         /\ \A i \in 1 .. n : \A j \in 0 .. stack[i].len - 1 : buf[j] # NUL
         /\ \A i \in 2 .. n : buf[stack[i].len - 1] = Sep /\ stack[i].len > 0
         /\ \A i \in 1 .. n : \A k \in 1 .. i - 1 : stack[k].len < stack[i].len
         /\ \A i \in 1 .. n - 1 : \A j \in 0 .. Len(name) :
              stack[i].len + Width(stack[i]) <= j /\ j < stack[i + 1].len
                => buf[j] \in {NUL, Sep}
         /\ \A j \in 0 .. Len(name) : L + Width(frame) <= j => buf[j] \in {NUL, Sep}
<1>1. stack \in Seq(Frame) /\ n \in Nat /\ n >= 1
  <2>1. stack \in Seq(Frame)
    BY DEF WalkInv, Calls
  <2>2. n \in Nat \ {0}
    BY <2>1, EmptySeq
  <2> QED BY <2>1, <2>2
<1>2. Len(name) \in Nat /\ Len(tokens) \in Nat
  BY LenProperties DEF WalkInv, Text
<1>3. \A i \in 1 .. n : stack[i] \in Frame /\ stack[i].len \in 0 .. Len(name)
  <2> TAKE i \in 1 .. n
  <2>1. stack[i] \in Frame
    BY <1>1, ElementOfSeq
  <2> QED BY <2>1 DEF Frame
<1>4. n \in 1 .. n /\ frame = stack[n] /\ stack[n].len = L
  BY <1>1 DEF frame, Last
<1>5. /\ \A i \in 1 .. n : \A j \in 0 .. stack[i].len - 1 : buf[j] # NUL
      /\ \A i \in 1 .. n : \A k \in 1 .. i - 1 : stack[k].len < stack[i].len
      /\ \A i \in 1 .. n : i > 1 => buf[stack[i].len - 1] = Sep
  BY DEF WalkInv, Calls, PrefixesKept
<1>6. \A i \in 1 .. n - 1 : stack[i].len < L
  BY <1>4, <1>5
<1>7. \A i \in 2 .. n : buf[stack[i].len - 1] = Sep /\ stack[i].len > 0
  <2> TAKE i \in 2 .. n
  <2>1. i \in 1 .. n /\ i > 1 /\ 1 \in 1 .. n /\ 1 \in 1 .. i - 1
    BY <1>1
  <2>2. stack[1].len < stack[i].len /\ stack[1].len \in 0 .. Len(name)
    BY <1>3, <1>5, <2>1
  <2> QED BY <1>2, <1>3, <1>5, <2>1, <2>2
<1>8. \A i \in 1 .. n - 1 : stack[i].next \in {"clear", "unplus"}
  BY DEF WalkInv, Calls
<1>9. \A i \in 1 .. n : \A j \in 0 .. Len(name) :
        /\ stack[i].len + Width(stack[i]) <= j
        /\ i < n => j < stack[i + 1].len
        => buf[j] \in {NUL, Sep}
  BY DEF WalkInv, Calls, RestIsBlank
<1>10. \A i \in 1 .. n - 1 : i \in 1 .. n /\ i < n
  BY <1>1
<1>11. \A j \in 0 .. Len(name) : L + Width(frame) <= j => buf[j] \in {NUL, Sep}
  BY <1>1, <1>4, <1>9
<1>12. \A i \in 1 .. n - 1 : \A j \in 0 .. Len(name) :
         stack[i].len + Width(stack[i]) <= j /\ j < stack[i + 1].len
           => buf[j] \in {NUL, Sep}
  BY <1>9, <1>10
<1>13. frame \in Frame /\ L \in 0 .. Len(name)
  BY <1>3, <1>4
<1> QED BY <1>1, <1>2, <1>3, <1>4, <1>5, <1>6, <1>7, <1>8, <1>11, <1>12, <1>13


(***************************************************************************)
(* A step that writes nothing in front of L, where the innermost call n    *)
(* begins, keeps to the invariant if call n and the one it makes do.       *)
(***************************************************************************)
LEMMA OuterCallsKept ==
  ASSUME WalkInv, stack # <<>>, UNCHANGED <<name, tokens>>,
         NEW n, n = Len(stack), NEW L, L = frame.len, NEW m \in n - 1 .. n + 1,
         stack' \in Seq(Frame), Len(stack') = m,
         \A i \in 1 .. n - 1 : stack'[i] = stack[i],
         m >= n => stack'[n].len = L,
         m = n + 1 => /\ stack'[n].next \in {"clear", "unplus"}
                      /\ L < stack'[n + 1].len
                      /\ \A j \in 0 .. stack'[n + 1].len - 1 : buf'[j] # NUL
                      /\ buf'[stack'[n + 1].len - 1] = Sep,
         DOMAIN buf' = 0 .. Len(name),
         \A j \in 0 .. Len(name) : j < L => buf'[j] = buf[j],
         m = n - 1 => \A j \in 0 .. Len(name) : L <= j => buf'[j] \in {NUL, Sep},
         \A i \in n .. m : \A j \in 0 .. Len(name) :
           /\ stack'[i].len + Width(stack'[i]) <= j
           /\ i < m => j < stack'[i + 1].len
           => buf'[j] \in {NUL, Sep}
  PROVE  Calls'
<1> DEFINE Bound == Len(name)
<1>1. /\ n \in Nat /\ n >= 1 /\ Bound \in Nat /\ L \in 0 .. Bound
      /\ \A i \in 1 .. n : stack[i].len \in 0 .. Bound
      /\ stack[n].len = L
      /\ \A i \in 1 .. n - 1 : stack[i].len < L
      /\ \A i \in 1 .. n - 1 : stack[i].next \in {"clear", "unplus"}
      /\ \A i \in 1 .. n : \A j \in 0 .. stack[i].len - 1 : buf[j] # NUL
      /\ \A i \in 2 .. n : buf[stack[i].len - 1] = Sep /\ stack[i].len > 0
      /\ \A i \in 1 .. n : \A k \in 1 .. i - 1 : stack[k].len < stack[i].len
      /\ \A i \in 1 .. n - 1 : \A j \in 0 .. Bound :
           stack[i].len + Width(stack[i]) <= j /\ j < stack[i + 1].len
             => buf[j] \in {NUL, Sep}
  BY CallFacts
<1>2. \A i \in 1 .. m : stack'[i].len \in 0 .. Bound
  <2> TAKE i \in 1 .. m
  <2>1. stack'[i] \in Frame
    BY ElementOfSeq
  <2> QED BY <2>1 DEF Frame
<1>3. /\ \A j \in 0 .. Bound : j < L => buf'[j] = buf[j]
      /\ m = n - 1 => \A j \in 0 .. Bound : L <= j => buf'[j] \in {NUL, Sep}
      /\ \A i \in n .. m : \A j \in 0 .. Bound :
           /\ stack'[i].len + Width(stack'[i]) <= j
           /\ i < m => j < stack'[i + 1].len
           => buf'[j] \in {NUL, Sep}
  OBVIOUS
<1> HIDE DEF Bound
<1>4. \A i \in 1 .. m : i \in 1 .. n => stack'[i].len = stack[i].len /\ stack[i].len <= L
  <2> TAKE i \in 1 .. m
  <2> SUFFICES ASSUME i \in 1 .. n PROVE stack'[i].len = stack[i].len /\ stack[i].len <= L
    OBVIOUS
  <2>1. CASE i = n
    BY <1>1, <2>1
  <2>2. CASE i # n
    <3>1. i \in 1 .. n - 1
      BY <1>1, <2>2
    <3>2. stack[i].len < L /\ stack[i].len \in 0 .. Bound /\ stack'[i] = stack[i]
      BY <1>1, <3>1
    <3> QED BY <1>1, <3>2
  <2> QED BY <2>1, <2>2
<1>5. PrefixesKept'
  <2> SUFFICES ASSUME NEW i \in 1 .. m
               PROVE  /\ \A j \in 0 .. stack'[i].len - 1 : buf'[j] # NUL
                      /\ i > 1 => buf'[stack'[i].len - 1] = Sep
                      /\ \A k \in 1 .. i - 1 : stack'[k].len < stack'[i].len
    BY DEF PrefixesKept
  <2>1. CASE i \in 1 .. n
    <3>1. stack'[i].len = stack[i].len /\ stack[i].len <= L /\ stack[i].len \in 0 .. Bound
      BY <1>1, <1>4, <2>1
    <3>2. \A j \in 0 .. stack[i].len - 1 : buf'[j] = buf[j]
      <4> TAKE j \in 0 .. stack[i].len - 1
      <4>1. j \in 0 .. Bound /\ j < L
        BY <1>1, <3>1
      <4> QED BY <1>3, <4>1
    <3>3. i > 1 => /\ buf[stack[i].len - 1] = Sep
                   /\ stack[i].len - 1 \in 0 .. stack[i].len - 1
      BY <1>1, <2>1, <3>1
    <3>4. \A k \in 1 .. i - 1 : stack'[k].len < stack'[i].len
      <4> TAKE k \in 1 .. i - 1
      <4>1. k \in 1 .. m /\ k \in 1 .. n
        BY <1>1, <2>1
      <4>2. stack'[k].len = stack[k].len /\ stack[k].len < stack[i].len
        BY <1>1, <1>4, <2>1, <4>1
      <4> QED BY <3>1, <4>2
    <3> QED BY <1>1, <2>1, <3>1, <3>2, <3>3, <3>4
  <2>2. CASE i \notin 1 .. n
    <3>1. i = n + 1 /\ m = n + 1
      BY <1>1, <2>2
    <3>2. \A k \in 1 .. i - 1 : stack'[k].len < stack'[i].len
      <4> TAKE k \in 1 .. i - 1
      <4>1. k \in 1 .. m /\ k \in 1 .. n
        BY <1>1, <3>1
      <4>2. stack'[k].len <= L /\ stack'[k].len \in 0 .. Bound
        BY <1>2, <1>4, <4>1
      <4>3. L < stack'[i].len /\ stack'[i].len \in 0 .. Bound
        BY <1>2, <3>1
      <4> QED BY <1>1, <4>2, <4>3
    <3> QED BY <3>1, <3>2
  <2> QED BY <2>1, <2>2
<1>6. RestIsBlank'
  <2> SUFFICES ASSUME NEW i \in 1 .. m, NEW j \in 0 .. Bound,
                      stack'[i].len + Width(stack'[i]) <= j,
                      i < m => j < stack'[i + 1].len
               PROVE  buf'[j] \in {NUL, Sep}
    BY DEF RestIsBlank, Width, Bound
  <2>1. CASE i \in n .. m
    BY <1>3, <2>1
  <2>2. CASE i \notin n .. m
    <3>1. i \in 1 .. n - 1 /\ stack'[i] = stack[i]
      BY <1>1, <2>2
    <3>2. CASE i < m
      <4>1. i + 1 \in 1 .. m /\ i + 1 \in 1 .. n
        BY <1>1, <3>1, <3>2
      <4>2. stack'[i + 1].len = stack[i + 1].len /\ stack[i + 1].len <= L
            /\ stack[i + 1].len \in 0 .. Bound
        BY <1>1, <1>4, <4>1
      <4>3. j < stack[i + 1].len /\ j < L
        BY <1>1, <3>2, <4>2
      <4>4. buf[j] \in {NUL, Sep}
        BY <1>1, <3>1, <4>3
      <4> QED BY <1>3, <4>3, <4>4
    <3>3. CASE ~ (i < m)
      <4>1. m = n - 1 /\ i = n - 1 /\ i + 1 = n
        BY <1>1, <3>1, <3>3
      <4>2. CASE L <= j
        BY <1>3, <4>1, <4>2
      <4>3. CASE ~ (L <= j)
        <5>1. j < L
          BY <1>1, <4>3
        <5>2. buf[j] \in {NUL, Sep}
          BY <1>1, <3>1, <4>1, <5>1
        <5> QED BY <1>3, <5>1, <5>2
      <4> QED BY <4>2, <4>3
    <3> QED BY <3>2, <3>3
  <2> QED BY <2>1, <2>2
<1>7. \A i \in 1 .. m - 1 : stack'[i].next \in {"clear", "unplus"}
  <2> TAKE i \in 1 .. m - 1
  <2>1. CASE i \in 1 .. n - 1
    BY <1>1, <2>1
  <2>2. CASE i \notin 1 .. n - 1
    <3>1. i = n /\ m = n + 1
      BY <1>1, <2>2
    <3> QED BY <3>1
  <2> QED BY <2>1, <2>2
<1>8. Frame' = Frame
  BY DEF Frame
<1> QED BY <1>5, <1>6, <1>7, <1>8 DEF Calls

(* The innermost call goes on to another of its steps.                     *)
LEMMA StepKeepsCalls ==
  ASSUME WalkInv, stack # <<>>, UNCHANGED <<name, tokens>>, NEW step \in Steps,
         stack' = Then(step), DOMAIN buf' = 0 .. Len(name),
         \A j \in 0 .. Len(name) : j < frame.len => buf'[j] = buf[j],
         \A j \in 0 .. Len(name) :
           frame.len + Width([frame EXCEPT !.next = step]) <= j => buf'[j] \in {NUL, Sep}
  PROVE  Calls'
<1>1. PICK n, L : n = Len(stack) /\ L = frame.len
  OBVIOUS
<1>2. /\ stack \in Seq(Frame) /\ n \in Nat /\ n >= 1 /\ L \in 0 .. Len(name)
      /\ frame = stack[n] /\ frame \in Frame /\ Len(name) \in Nat
  BY <1>1, CallFacts
<1> DEFINE f == [frame EXCEPT !.next = step]
<1>3. f \in Frame /\ f.len = L
  BY <1>1, <1>2 DEF Frame
<1>4. stack' = [stack EXCEPT ![n] = f]
  BY <1>1, <1>2 DEF Then
<1>5. \A j \in 0 .. Len(name) : L + Width(f) <= j => buf'[j] \in {NUL, Sep}
  BY <1>1
<1> HIDE DEF f
<1>6. /\ stack' \in Seq(Frame) /\ Len(stack') = n
      /\ \A i \in 1 .. n : stack'[i] = IF i = n THEN f ELSE stack[i]
  BY <1>1, <1>2, <1>3, <1>4, ExceptSeq
<1>7. stack'[n] = f /\ \A i \in 1 .. n - 1 : stack'[i] = stack[i]
  BY <1>2, <1>6
<1>8. \A i \in n .. n : i = n
  BY <1>2
<1>9. n \in n - 1 .. n + 1 /\ n # n - 1 /\ n # n + 1
  BY <1>2
<1> QED
  BY <1>1, <1>3, <1>5, <1>6, <1>7, <1>8, <1>9, OuterCallsKept

(* It makes a call, which begins at K.                                     *)
LEMMA CallKeepsCalls ==
  ASSUME WalkInv, stack # <<>>, UNCHANGED <<name, tokens>>,
         NEW step \in {"clear", "unplus"}, NEW K \in 0 .. Len(name),
         frame.token < Len(tokens), frame.len < K,
         stack' = Append(Then(step), Call(frame.token + 1, K)),
         DOMAIN buf' = 0 .. Len(name),
         \A j \in 0 .. Len(name) : j < frame.len => buf'[j] = buf[j],
         \A j \in 0 .. K - 1 : buf'[j] # NUL,
         buf'[K - 1] = Sep,
         \A j \in 0 .. Len(name) :
           frame.len + Width([frame EXCEPT !.next = step]) <= j => buf'[j] \in {NUL, Sep},
         \A j \in 0 .. Len(name) : K <= j => buf'[j] \in {NUL, Sep}
  PROVE  Calls'
<1>1. PICK n, L : n = Len(stack) /\ L = frame.len
  OBVIOUS
<1>2. /\ stack \in Seq(Frame) /\ n \in Nat /\ n >= 1 /\ L \in 0 .. Len(name)
      /\ frame = stack[n] /\ frame \in Frame /\ Len(name) \in Nat /\ Len(tokens) \in Nat
  BY <1>1, CallFacts
<1> DEFINE f == [frame EXCEPT !.next = step]
           g == Call(frame.token + 1, K)
<1>3. f \in Frame /\ f.len = L /\ f.next = step
  BY <1>1, <1>2 DEF Frame, Steps
<1>4. g \in Frame /\ g.len = K /\ g.next = "token"
  <2>1. frame.token \in 1 .. Len(tokens)
    BY <1>2 DEF Frame
  <2>2. PICK i, T : i = frame.token /\ T = Len(tokens)
    OBVIOUS
  <2>3. i \in 1 .. T /\ i < T /\ T \in Nat
    BY <1>1, <1>2, <2>1, <2>2
  <2>4. i + 1 \in 1 .. T
    BY ONLY <2>3
  <2> QED BY <1>1, <2>2, <2>4 DEF Frame, Call, Steps
<1>5. Then(step) = [stack EXCEPT ![n] = f] /\ stack' = Append(Then(step), g)
  BY <1>1, <1>2 DEF Then
<1>6. \A j \in 0 .. Len(name) : L + Width(f) <= j => buf'[j] \in {NUL, Sep}
  BY <1>1
<1> HIDE DEF f, g
<1>7. /\ Then(step) \in Seq(Frame) /\ Len(Then(step)) = n
      /\ \A i \in 1 .. n : Then(step)[i] = IF i = n THEN f ELSE stack[i]
  BY <1>1, <1>2, <1>3, <1>5, ExceptSeq
<1>8. /\ stack' \in Seq(Frame) /\ Len(stack') = n + 1
      /\ \A i \in 1 .. n : stack'[i] = Then(step)[i]
      /\ stack'[n + 1] = g
  BY <1>2, <1>4, <1>5, <1>7
<1>9. stack'[n] = f /\ \A i \in 1 .. n - 1 : stack'[i] = stack[i]
  BY <1>2, <1>7, <1>8
<1>10. n + 1 \in n - 1 .. n + 1 /\ n + 1 # n - 1
  BY <1>2
<1>11. ASSUME NEW i \in n .. n + 1, NEW j \in 0 .. Len(name),
              stack'[i].len + Width(stack'[i]) <= j
       PROVE  buf'[j] \in {NUL, Sep}
  <2>1. CASE i = n
    BY <1>3, <1>6, <1>9, <1>11, <2>1
  <2>2. CASE i = n + 1
    <3>1. stack'[i].len + Width(stack'[i]) = K
      BY <1>4, <1>8, <2>2 DEF Width
    <3> QED BY <1>11, <3>1
  <2> QED BY <1>2, <2>1, <2>2
<1>12. /\ stack'[n].len = L /\ stack'[n].next \in {"clear", "unplus"}
       /\ stack'[n + 1].len = K /\ L < K
  BY <1>1, <1>3, <1>4, <1>8, <1>9
<1>13. /\ \A j \in 0 .. Len(name) : j < L => buf'[j] = buf[j]
       /\ \A j \in 0 .. stack'[n + 1].len - 1 : buf'[j] # NUL
       /\ buf'[stack'[n + 1].len - 1] = Sep
  BY <1>1, <1>12
<1>14. \A i \in n .. n + 1 : \A j \in 0 .. Len(name) :
         /\ stack'[i].len + Width(stack'[i]) <= j
         /\ i < n + 1 => j < stack'[i + 1].len
         => buf'[j] \in {NUL, Sep}
  BY <1>11
<1>15. PICK m : m = n + 1
  OBVIOUS
<1>16. /\ m \in n - 1 .. n + 1 /\ m # n - 1 /\ m >= n
       /\ stack' \in Seq(Frame) /\ Len(stack') = m
  BY <1>2, <1>8, <1>10, <1>15
<1>17. /\ stack'[n].next \in {"clear", "unplus"} /\ L < stack'[n + 1].len
       /\ stack'[n].len = L
  BY <1>12
<1>18. \A i \in n .. m : \A j \in 0 .. Len(name) :
         /\ stack'[i].len + Width(stack'[i]) <= j
         /\ i < m => j < stack'[i + 1].len
         => buf'[j] \in {NUL, Sep}
  BY <1>14, <1>15
<1>19. /\ m >= n => stack'[n].len = L
       /\ m = n + 1 => /\ stack'[n].next \in {"clear", "unplus"}
                       /\ L < stack'[n + 1].len
                       /\ \A j \in 0 .. stack'[n + 1].len - 1 : buf'[j] # NUL
                       /\ buf'[stack'[n + 1].len - 1] = Sep
       /\ m = n - 1 => \A j \in 0 .. Len(name) : L <= j => buf'[j] \in {NUL, Sep}
  BY <1>13, <1>16, <1>17
<1>20. \A j \in 0 .. Len(name) : j < L => buf'[j] = buf[j]
  BY <1>13
<1>21. /\ WalkInv /\ stack # <<>> /\ UNCHANGED <<name, tokens>>
       /\ DOMAIN buf' = 0 .. Len(name)
       /\ \A i \in 1 .. n - 1 : stack'[i] = stack[i]
  BY <1>9
<1> QED
  BY ONLY <1>1, <1>16, <1>18, <1>19, <1>20, <1>21, OuterCallsKept

(* It returns, having cleared its part.                                    *)
LEMMA ReturnKeepsCalls ==
  ASSUME WalkInv, stack # <<>>, UNCHANGED <<name, tokens>>, stack' = Front(stack),
         DOMAIN buf' = 0 .. Len(name),
         \A j \in 0 .. Len(name) : j < frame.len => buf'[j] = buf[j],
         \A j \in 0 .. Len(name) : frame.len <= j => buf'[j] \in {NUL, Sep}
  PROVE  Calls'
<1>1. PICK n, L : n = Len(stack) /\ L = frame.len
  OBVIOUS
<1>2. /\ stack \in Seq(Frame) /\ n \in Nat /\ n >= 1
      /\ \A i \in 1 .. n : stack[i] \in Frame
  BY <1>1, CallFacts
<1>3. /\ stack' \in Seq(Frame) /\ Len(stack') = n - 1
      /\ \A i \in 1 .. n - 1 : stack'[i] = stack[i]
  <2>1. \A i \in 1 .. n - 1 : stack[i] \in Frame
    BY <1>2
  <2>2. 1 \in Int /\ n - 1 \in Int
    BY <1>2
  <2>3. /\ SubSeq(stack, 1, n - 1) \in Seq(Frame)
        /\ Len(SubSeq(stack, 1, n - 1)) = IF 1 <= n - 1 THEN (n - 1) - 1 + 1 ELSE 0
        /\ \A i \in 1 .. (n - 1) - 1 + 1 : SubSeq(stack, 1, n - 1)[i] = stack[1 + i - 1]
    BY ONLY <2>1, <2>2, SubSeqProperties
  <2>4. stack' = SubSeq(stack, 1, n - 1)
    BY <1>1 DEF Front
  <2> QED BY <1>2, <2>3, <2>4
<1>4. /\ n - 1 \in n - 1 .. n + 1 /\ ~ (n - 1 >= n) /\ n - 1 # n + 1
      /\ \A i \in n .. n - 1 : FALSE
  BY <1>2
<1> QED BY <1>1, <1>3, <1>4, OuterCallsKept

-----------------------------------------------------------------------------
(* The steps                                                               *)

(* A string of one byte, of which no byte is zero if that one is not.      *)
LEMMA OneByte ==
  ASSUME NEW x, x # NUL
  PROVE  Len(<<x>>) = 1 /\ \A k \in 1 .. Len(<<x>>) : <<x>>[k] # NUL
<1>1. Len(<<x>>) = 1
  OBVIOUS
<1>2. ASSUME NEW k \in 1 .. 1 PROVE <<x>>[k] # NUL
  <2>1. k = 1
    OBVIOUS
  <2>2. <<x>>[1] = x
    OBVIOUS
  <2> QED BY <2>1, <2>2
<1> QED BY <1>1, <1>2

(***************************************************************************)
(* A look-up of the string that s ends, from the place of the call on, and *)
(* the call for the next token behind it: step is one in which the call    *)
(* has written s.                                                          *)
(***************************************************************************)
LEMMA FindKeepsCalls ==
  ASSUME WalkInv, stack # <<>>, UNCHANGED <<name, tokens>>,
         Width(frame) = 0, NEW s, Len(s) \in Nat, \A k \in 1 .. Len(s) : s[k] # NUL,
         NEW b, b = Write(buf, frame.len, s),
         Terminated(b), NEW c, c = Write(b, frame.len + Len(s), <<Sep>>),
         NEW step \in Steps, Width([frame EXCEPT !.next = step]) = Len(s),
         \/ buf' = b /\ stack' = Then(step)
         \/ step \in {"clear", "unplus"} /\ CanDescend(c) /\ Descend(c, step)
  PROVE  Calls'
<1>1. PICK n, L, N : n = Len(stack) /\ L = frame.len /\ N = Len(name)
  OBVIOUS
<1>2. /\ L \in 0 .. N /\ n \in Nat /\ n >= 1 /\ stack[n].len = L /\ frame \in Frame
      /\ \A j \in 0 .. stack[n].len - 1 : buf[j] # NUL
      /\ \A j \in 0 .. N : L + Width(frame) <= j => buf[j] \in {NUL, Sep}
      /\ N \in Nat /\ Len(tokens) \in Nat
  BY <1>1, CallFacts
<1>3. /\ \A j \in 0 .. L - 1 : buf[j] # NUL
      /\ \A j \in 0 .. N : L <= j => buf[j] \in {NUL, Sep}
      /\ DOMAIN buf = 0 .. N
  BY <1>1, <1>2 DEF WalkInv, Calls
<1>4. /\ DOMAIN b = 0 .. N
      /\ \A j \in 0 .. N : /\ j < L => b[j] = buf[j]
                           /\ L + Len(s) <= j => b[j] = buf[j]
                           /\ L <= j /\ j < L + Len(s) => b[j] # NUL
  <2>1. L \in Nat /\ b = Write(buf, L, s)
    BY <1>1, <1>2
  <2> QED BY <1>2, <1>3, <2>1, WriteAt
<1>5. PICK R : R = L + Len(s)
  OBVIOUS
<1>6. R \in 0 .. N
  <2>1. PICK j \in 0 .. N : b[j] = NUL
    BY <1>4 DEF Terminated
  <2>2. ~ (j < L)
    BY <1>2, <1>3, <1>4, <2>1
  <2>3. ~ (j < L + Len(s))
    BY <1>2, <1>3, <1>4, <2>1, <2>2
  <2> QED BY <1>2, <1>3, <1>5, <2>3
<1>7. \A j \in 0 .. N : /\ j < L => b[j] = buf[j]
                        /\ R <= j => b[j] \in {NUL, Sep}
                        /\ j < R => b[j] # NUL
  <2> TAKE j \in 0 .. N
  <2>1. j < L => b[j] = buf[j] /\ b[j] # NUL
    BY <1>2, <1>3, <1>4
  <2>2. R <= j => b[j] \in {NUL, Sep}
    BY <1>2, <1>3, <1>4, <1>5
  <2>3. ~ (j < L) /\ j < R => b[j] # NUL
    BY <1>2, <1>3, <1>4, <1>5
  <2> QED BY <2>1, <2>2, <2>3
<1>8. /\ DOMAIN c = 0 .. N /\ c[R] = Sep
      /\ \A j \in 0 .. N : j # R => c[j] = b[j]
  <2>1. c = [i \in 0 .. N |-> IF i \in R .. R + 1 - 1 THEN <<Sep>>[i - R + 1] ELSE b[i]]
    BY <1>1, <1>4, <1>5 DEF Write
  <2>2. \A i \in 0 .. N : i \in R .. R + 1 - 1 <=> i = R
    BY <1>6
  <2>3. R - R + 1 = 1 /\ <<Sep>>[1] = Sep
    BY <1>6
  <2> QED BY <1>6, <2>1, <2>2, <2>3
<1>9. \A j \in 0 .. N : /\ j < L => c[j] = buf[j]
                        /\ R <= j => c[j] \in {NUL, Sep}
                        /\ j <= R => c[j] # NUL
  <2> TAKE j \in 0 .. N
  <2>1. CASE j = R
    BY <1>2, <1>3, <1>5, <1>8, <2>1 DEF Sep, NUL
  <2>2. CASE j # R
    BY <1>2, <1>6, <1>7, <1>8, <2>2
  <2> QED BY <2>1, <2>2
<1>10. L + Width([frame EXCEPT !.next = step]) = R
  BY <1>5
<1>11. CASE buf' = b /\ stack' = Then(step)
  BY <1>1, <1>4, <1>7, <1>10, <1>11, StepKeepsCalls
<1>12. CASE /\ step \in {"clear", "unplus"} /\ CanDescend(c) /\ Descend(c, step)
            /\ frame.token = Len(tokens)
  <2>1. buf' = c /\ stack' = Then(step)
    BY <1>12 DEF Descend
  <2> QED BY <1>1, <1>8, <1>9, <1>10, <2>1, StepKeepsCalls
<1>13. CASE /\ step \in {"clear", "unplus"} /\ CanDescend(c) /\ Descend(c, step)
            /\ frame.token # Len(tokens)
  <2>1. Terminated(c)
    BY <1>13 DEF CanDescend
  <2>2. PICK K : K = StrLen(c)
    OBVIOUS
  <2>3. K \in 0 .. N /\ c[K] = NUL /\ \A j \in 0 .. K - 1 : c[j] # NUL
    BY <1>2, <1>8, <2>1, <2>2, StrLenIsFirst
  <2>4. R < K
    BY <1>6, <1>9, <2>3
  <2>5. c[K - 1] = Sep
    <3>1. K - 1 \in 0 .. N /\ R <= K - 1 /\ K - 1 \in 0 .. K - 1
      BY <1>2, <1>6, <2>3, <2>4
    <3> QED BY <1>9, <2>3, <3>1
  <2>6. \A j \in 0 .. N : K <= j => c[j] \in {NUL, Sep}
    <3> TAKE j \in 0 .. N
    <3>1. K <= j => R <= j
      BY <1>6, <2>3, <2>4
    <3> QED BY <1>9, <3>1
  <2>7. frame.token < Len(tokens) /\ L < K
    <3>1. frame.token \in 1 .. Len(tokens)
      BY <1>2 DEF Frame
    <3>2. L <= R
      BY <1>2, <1>3, <1>5
    <3> QED BY <1>2, <1>6, <1>13, <2>3, <2>4, <3>1, <3>2
  <2>8. buf' = c /\ stack' = Append(Then(step), Call(frame.token + 1, K))
    BY <1>13, <2>2 DEF Descend
  <2>9. /\ K \in 0 .. Len(name) /\ frame.len < K /\ DOMAIN buf' = 0 .. Len(name)
        /\ \A j \in 0 .. K - 1 : buf'[j] # NUL
        /\ buf'[K - 1] = Sep
        /\ \A j \in 0 .. Len(name) : K <= j => buf'[j] \in {NUL, Sep}
    BY <1>1, <1>8, <2>3, <2>5, <2>6, <2>7, <2>8
  <2>10. /\ \A j \in 0 .. Len(name) : j < frame.len => buf'[j] = buf[j]
         /\ \A j \in 0 .. Len(name) :
              frame.len + Width([frame EXCEPT !.next = step]) <= j => buf'[j] \in {NUL, Sep}
    BY <1>1, <1>9, <1>10, <2>8
  <2> QED BY <1>13, <2>7, <2>8, <2>9, <2>10, CallKeepsCalls
<1> QED BY <1>11, <1>12, <1>13

(* A clearing of what the call has written, from `at' on.                  *)
LEMMA ClearKeepsCalls ==
  ASSUME WalkInv, stack # <<>>, UNCHANGED <<name, tokens>>,
         NEW at \in Nat, NEW k \in Nat, buf' = Clear(buf, at, k), frame.len <= at,
         NEW step \in Steps, stack' = Then(step),
         \A j \in 0 .. Len(name) :
           frame.len + Width([frame EXCEPT !.next = step]) <= j
             => j \in at .. at + k - 1 \/ frame.len + Width(frame) <= j
  PROVE  Calls'
<1>1. /\ frame.len \in 0 .. Len(name)
      /\ \A j \in 0 .. Len(name) : frame.len + Width(frame) <= j => buf[j] \in {NUL, Sep}
  BY CallFacts
<1>2. DOMAIN buf = 0 .. Len(name)
  BY DEF WalkInv, Calls
<1>3. \A j \in 0 .. Len(name) : buf'[j] = IF j \in at .. at + k - 1 THEN NUL ELSE buf[j]
  BY <1>2 DEF Clear
<1>4. DOMAIN buf' = 0 .. Len(name)
  BY <1>2 DEF Clear
<1>5. \A j \in 0 .. Len(name) : j < frame.len => buf'[j] = buf[j]
  BY <1>1, <1>3
<1>6. \A j \in 0 .. Len(name) :
        frame.len + Width([frame EXCEPT !.next = step]) <= j => buf'[j] \in {NUL, Sep}
  BY <1>1, <1>3
<1> QED BY <1>4, <1>5, <1>6, StepKeepsCalls

(* A walk that leaves the buffer has no calls any more.                    *)
LEMMA OverrunKeepsCalls ==
  ASSUME WalkInv, Overrun
  PROVE  Calls'
<1>1. DOMAIN buf' = 0 .. Len(name') /\ stack' = <<>>
  BY DEF Overrun, WalkInv, Calls
<1>2. stack' \in Seq(Frame') /\ Len(stack') = 0
  BY <1>1, EmptySeq
<1> QED BY <1>1, <1>2 DEF Calls, PrefixesKept, RestIsBlank

(* The innermost call, and its token.                                      *)
LEMMA Innermost ==
  ASSUME WalkInv, stack # <<>>
  PROVE  /\ frame \in Frame /\ frame.len \in 0 .. Len(name) /\ Len(name) \in Nat
         /\ Len(token) \in Nat /\ \A k \in 1 .. Len(token) : token[k] # NUL
         /\ \A step \in Steps : Width([frame EXCEPT !.next = step]) =
              IF step = "clear" THEN Len(token)
              ELSE IF step \in {"unplus", "hash"} THEN 1 ELSE 0
         /\ Width(frame) = IF frame.next = "clear" THEN Len(token)
                           ELSE IF frame.next \in {"unplus", "hash"} THEN 1 ELSE 0
<1>1. frame \in Frame /\ frame.len \in 0 .. Len(name) /\ Len(name) \in Nat
  BY CallFacts
<1>2. frame.token \in 1 .. Len(tokens)
  BY <1>1 DEF Frame
<1>3. token \in Text
  <2>1. tokens \in Seq(Text)
    BY DEF WalkInv
  <2>2. tokens[frame.token] \in Text
    BY <1>2, <2>1, ElementOfSeq
  <2> QED BY <2>2 DEF token
<1>4. Len(token) \in Nat /\ \A k \in 1 .. Len(token) : token[k] # NUL
  <2>1. PICK S : S = STRING \ {NUL}
    OBVIOUS
  <2>2. token \in Seq(S)
    BY <1>3, <2>1 DEF Text
  <2>3. Len(token) \in Nat /\ \A k \in 1 .. Len(token) : token[k] \in S
    BY <2>2, LenProperties, ElementOfSeq
  <2> QED BY <2>1, <2>3
<1>5. ASSUME NEW step \in Steps
      PROVE  Width([frame EXCEPT !.next = step]) =
              IF step = "clear" THEN Len(token)
              ELSE IF step \in {"unplus", "hash"} THEN 1 ELSE 0
  <2>1. /\ [frame EXCEPT !.next = step].next = step
        /\ [frame EXCEPT !.next = step].token = frame.token
    BY <1>1 DEF Frame
  <2> QED BY <2>1 DEF Width, token
<1> QED BY <1>1, <1>4, <1>5 DEF Width, token

LEMMA FindTokenKeepsCalls ==
  ASSUME WalkInv, FindToken
  PROVE  Calls'
<1> DEFINE b == Write(buf, frame.len, token)
           c == Write(b, frame.len + Len(token), <<Sep>>)
<1>1. stack # <<>> /\ frame.next = "token"
  BY DEF FindToken, Active
<1>2. Len(token) \in Nat /\ (\A k \in 1 .. Len(token) : token[k] # NUL) /\ Width(frame) = 0
      /\ "clear" \in Steps /\ Width([frame EXCEPT !.next = "clear"]) = Len(token)
  BY <1>1, Innermost DEF Steps
<1>3. \/ Overrun
      \/ /\ Terminated(b) /\ UNCHANGED <<name, tokens>>
         /\ \/ buf' = b /\ stack' = Then("clear")
            \/ CanDescend(c) /\ Descend(c, "clear")
  BY DEF FindToken, LookUp
<1> HIDE DEF b, c
<1>4. CASE Overrun
  BY <1>4, OverrunKeepsCalls
<1>5. CASE ~ Overrun
  <2>1. /\ Terminated(b) /\ UNCHANGED <<name, tokens>>
        /\ \/ buf' = b /\ stack' = Then("clear")
           \/ CanDescend(c) /\ Descend(c, "clear")
    BY <1>3, <1>5
  <2>2. b = Write(buf, frame.len, token) /\ c = Write(b, frame.len + Len(token), <<Sep>>)
    BY DEF b, c
  <2> QED BY <1>1, <1>2, <2>1, <2>2, FindKeepsCalls
<1> QED BY <1>4, <1>5

LEMMA FindPlusKeepsCalls ==
  ASSUME WalkInv, FindPlus
  PROVE  Calls'
<1> DEFINE s == <<PlusByte>>
           b == Write(buf, frame.len, s)
           c == Write(b, frame.len + 1, <<Sep>>)
<1>1. stack # <<>> /\ frame.next = "plus"
  BY DEF FindPlus, Active
<1>2. Len(s) = 1 /\ Len(s) \in Nat /\ \A k \in 1 .. Len(s) : s[k] # NUL
  <2>1. PlusByte # NUL
    BY DEF PlusByte, NUL
  <2> QED BY <2>1, OneByte
<1>3. /\ Width(frame) = 0
      /\ "hash" \in Steps /\ Width([frame EXCEPT !.next = "hash"]) = 1
      /\ "unplus" \in Steps /\ Width([frame EXCEPT !.next = "unplus"]) = 1
  BY <1>1, Innermost DEF Steps
<1>4. \/ Overrun
      \/ /\ Terminated(b) /\ UNCHANGED <<name, tokens>>
         /\ \/ buf' = b /\ stack' = Then("hash")
            \/ CanDescend(c) /\ Descend(c, "unplus")
  BY DEF FindPlus, LookUp
<1>5. b = Write(buf, frame.len, s) /\ c = Write(b, frame.len + Len(s), <<Sep>>)
  BY <1>2
<1> HIDE DEF s, b, c
<1>6. CASE Overrun
  BY <1>6, OverrunKeepsCalls
<1>7. CASE /\ Terminated(b) /\ UNCHANGED <<name, tokens>>
           /\ buf' = b /\ stack' = Then("hash")
  BY <1>1, <1>2, <1>3, <1>5, <1>7, FindKeepsCalls
<1>8. CASE /\ Terminated(b) /\ UNCHANGED <<name, tokens>>
           /\ CanDescend(c) /\ Descend(c, "unplus")
  BY <1>1, <1>2, <1>3, <1>5, <1>8, FindKeepsCalls
<1> QED BY <1>4, <1>6, <1>7, <1>8

LEMMA ClearsKeepCalls ==
  ASSUME WalkInv, ClearToken \/ ClearPlus
  PROVE  Calls'
<1>1. CASE ClearToken
  <2>1. /\ stack # <<>> /\ frame.next = "clear" /\ UNCHANGED <<name, tokens>>
        /\ buf' = Clear(buf, frame.len, Len(token)) /\ stack' = Then("plus")
    BY <1>1 DEF ClearToken, Active
  <2>2. /\ frame.len \in Nat /\ Len(token) \in Nat /\ Len(name) \in Nat
        /\ "plus" \in Steps /\ Width([frame EXCEPT !.next = "plus"]) = 0
        /\ Width(frame) = Len(token)
    BY <2>1, Innermost DEF Steps
  <2>3. \A j \in 0 .. Len(name) :
          frame.len + Width([frame EXCEPT !.next = "plus"]) <= j
            => \/ j \in frame.len .. frame.len + Len(token) - 1
               \/ frame.len + Width(frame) <= j
    BY <2>2
  <2>4. frame.len <= frame.len
    BY <2>2
  <2> QED BY <2>1, <2>2, <2>3, <2>4, ClearKeepsCalls
<1>2. CASE ClearPlus
  <2>1. /\ stack # <<>> /\ frame.next = "unplus" /\ UNCHANGED <<name, tokens>>
        /\ buf' = Clear(buf, frame.len + 1, 1) /\ stack' = Then("hash")
    BY <1>2 DEF ClearPlus, Active
  <2>2. /\ frame.len \in Nat /\ Len(name) \in Nat
        /\ "hash" \in Steps /\ Width([frame EXCEPT !.next = "hash"]) = 1
        /\ Width(frame) = 1
    BY <2>1, Innermost DEF Steps
  <2>3. \A j \in 0 .. Len(name) :
          frame.len + Width([frame EXCEPT !.next = "hash"]) <= j
            => \/ j \in frame.len + 1 .. frame.len + 1 + 1 - 1
               \/ frame.len + Width(frame) <= j
    BY <2>2
  <2>4. frame.len + 1 \in Nat /\ 1 \in Nat /\ frame.len <= frame.len + 1
    BY <2>2
  <2> QED BY <2>1, <2>2, <2>3, <2>4, ClearKeepsCalls
<1> QED BY <1>1, <1>2

LEMMA FindHashKeepsCalls ==
  ASSUME WalkInv, FindHash
  PROVE  Calls'
<1>1. PICK b : b = Write(buf, frame.len, <<HashByte>>)
  OBVIOUS
<1>2. /\ stack # <<>> /\ frame.next = "hash" /\ UNCHANGED <<name, tokens>>
      /\ buf' = Clear(b, frame.len, 1) /\ stack' = Front(stack)
  BY <1>1 DEF FindHash, Active, LookUp
<1>3. /\ frame.len \in Nat /\ Len(name) \in Nat
      /\ \A j \in 0 .. Len(name) : frame.len + 1 <= j => buf[j] \in {NUL, Sep}
  <2>1. Width(frame) = 1 /\ frame.len \in Nat /\ Len(name) \in Nat
    BY <1>2, Innermost
  <2>2. \A j \in 0 .. Len(name) :
          frame.len + Width(frame) <= j => buf[j] \in {NUL, Sep}
    BY <1>2, CallFacts
  <2> QED BY <2>1, <2>2
<1>4. DOMAIN buf = 0 .. Len(name)
  BY DEF WalkInv, Calls
<1>5. /\ DOMAIN b = 0 .. Len(name)
      /\ \A j \in 0 .. Len(name) : /\ j < frame.len => b[j] = buf[j]
                                   /\ frame.len + 1 <= j => b[j] = buf[j]
  <2>1. PICK s, L, N : s = <<HashByte>> /\ L = frame.len /\ N = Len(name)
    OBVIOUS
  <2>2. Len(s) = 1 /\ \A k \in 1 .. Len(s) : s[k] # NUL
    <3>1. HashByte # NUL
      BY DEF HashByte, NUL
    <3> QED BY <2>1, <3>1, OneByte
  <2>3. /\ L \in Nat /\ N \in Nat /\ Len(s) \in Nat /\ DOMAIN buf = 0 .. N
        /\ b = Write(buf, L, s)
    BY <1>1, <1>3, <1>4, <2>1, <2>2
  <2>4. /\ DOMAIN b = 0 .. N
        /\ \A j \in 0 .. N : /\ j < L => b[j] = buf[j]
                             /\ L + Len(s) <= j => b[j] = buf[j]
    BY <2>2, <2>3, WriteAt, SMTT(30)
  <2> QED BY <2>1, <2>2, <2>4
<1>6. /\ DOMAIN buf' = 0 .. Len(name)
      /\ \A j \in 0 .. Len(name) : buf'[j] = IF j = frame.len THEN NUL ELSE b[j]
  <2>1. buf' = [i \in 0 .. Len(name) |->
                  IF i \in frame.len .. frame.len + 1 - 1 THEN NUL ELSE b[i]]
    BY <1>2, <1>5 DEF Clear
  <2>2. \A i \in 0 .. Len(name) : i \in frame.len .. frame.len + 1 - 1 <=> i = frame.len
    BY <1>3
  <2> QED BY <2>1, <2>2
<1>7. \A j \in 0 .. Len(name) : j < frame.len => buf'[j] = buf[j]
  BY <1>3, <1>5, <1>6
<1>8. \A j \in 0 .. Len(name) : frame.len <= j => buf'[j] \in {NUL, Sep}
  BY <1>3, <1>5, <1>6
<1> QED BY <1>2, <1>6, <1>7, <1>8, ReturnKeepsCalls

-----------------------------------------------------------------------------
(* The theorems                                                            *)

LEMMA InitWalk == Init => WalkInv
<1> SUFFICES ASSUME Init PROVE WalkInv
  OBVIOUS
<1>1. name \in Text /\ tokens \in Seq(Text) \ {<<>>}
  <2>1. name \in Text /\ tokens = Tokens(name)
    BY WalkAssumption DEF Init
  <2>2. PICK B : B = STRING \ {NUL}
    OBVIOUS
  <2>3. name \in Seq(B)
    BY <2>1, <2>2 DEF Text
  <2>4. tokens \in Levels(B)
    BY <2>1, <2>3, TokensType
  <2> QED BY <2>1, <2>2, <2>4 DEF Levels, Text
<1>2. Len(name) \in Nat /\ Len(tokens) \in Nat /\ Len(tokens) >= 1
  BY <1>1, LenProperties, EmptySeq DEF Text
<1>3. /\ stack = <<Call(1, 0)>> /\ Call(1, 0) \in Frame
      /\ Call(1, 0).len = 0 /\ Width(Call(1, 0)) = 0
  BY <1>2 DEF Init, Call, Frame, Steps, Width
<1>4. stack \in Seq(Frame) /\ Len(stack) = 1 /\ stack[1] = Call(1, 0)
  BY <1>3
<1>5. DOMAIN buf = 0 .. Len(name) /\ \A j \in 0 .. Len(name) : buf[j] = NUL
  BY DEF Init
<1>6. PrefixesKept
  BY <1>3, <1>4 DEF PrefixesKept
<1>7. RestIsBlank
  BY <1>5 DEF RestIsBlank
<1>8. \A i \in 1 .. Len(stack) - 1 : stack[i].next \in {"clear", "unplus"}
  BY <1>4
<1>9. visited \in Seq(table) /\ overrun \in BOOLEAN
  BY EmptySeq DEF Init
<1> QED BY <1>1, <1>4, <1>5, <1>6, <1>7, <1>8, <1>9 DEF WalkInv, Calls

LEMMA NextWalk ==
  ASSUME WalkInv, Next
  PROVE  WalkInv'
<1>1. Calls'
  BY FindTokenKeepsCalls, FindPlusKeepsCalls, ClearsKeepCalls, FindHashKeepsCalls DEF Next
<1>2. UNCHANGED <<name, tokens, table>> /\ overrun' \in BOOLEAN
  BY DEF WalkInv, Next, FindToken, ClearToken, FindPlus, ClearPlus, FindHash, LookUp, Overrun
<1>3. visited' = visited \/ \E f \in table : visited' = Append(visited, f)
  BY DEF Next, FindToken, ClearToken, FindPlus, ClearPlus, FindHash, LookUp, Overrun
<1>4. visited' \in Seq(table)
  BY <1>3, AppendProperties DEF WalkInv
<1> QED BY <1>1, <1>2, <1>4 DEF WalkInv

(* Every call keeps to its own part of the buffer.                         *)
THEOREM WalkInvariant == Spec => []WalkInv
<1>1. WalkInv /\ UNCHANGED vars => WalkInv'
  BY DEF vars, WalkInv, Calls, PrefixesKept, RestIsBlank, Width, Frame
<1>2. WalkInv /\ [Next]_vars => WalkInv'
  BY <1>1, NextWalk
<1> QED BY InitWalk, <1>2, PTL DEF Spec

(* The variables of the walk keep their types.                             *)
THEOREM WalkTypeCorrect == Spec => []TypeOK
<1>1. WalkInv => TypeOK
  <2> SUFFICES ASSUME WalkInv PROVE TypeOK
    OBVIOUS
  <2>1. \A i \in DOMAIN stack : stack[i] \in Frame
    BY LenProperties, ElementOfSeq DEF WalkInv, Calls
  <2>2. \A i \in DOMAIN visited : visited[i] \in table
    BY LenProperties, ElementOfSeq DEF WalkInv
  <2>3. DOMAIN tokens = 1 .. Len(tokens)
    BY LenProperties DEF WalkInv
  <2> QED BY <2>1, <2>2, <2>3 DEF WalkInv, Calls, TypeOK, Frame, Steps
<1> QED BY <1>1, WalkInvariant, PTL

(***************************************************************************)
(* A call finds in front of its part what its caller has put there, and    *)
(* nothing it does changes that, whatever was published and subscribed.    *)
(***************************************************************************)
THEOREM CallersUndisturbed == Spec => []CallersPrefixKept
<1>1. WalkInv => CallersPrefixKept
  <2> SUFFICES ASSUME WalkInv, NEW i \in 2 .. Len(stack)
               PROVE  LET prefix == [j \in 1 .. stack[i].len |-> buf[j - 1]]
                      IN  /\ NUL \notin Range(prefix)
                          /\ prefix[Len(prefix)] = Sep
                          /\ stack[i].len > stack[i - 1].len
    BY DEF CallersPrefixKept
  <2>1. stack # <<>>
    <3>1. Len(stack) \in Nat /\ Len(<<>>) = 0
      BY LenProperties DEF WalkInv, Calls
    <3> QED BY <3>1
  <2>2. PICK n, L : n = Len(stack) /\ L = frame.len
    OBVIOUS
  <2>3. /\ i \in 1 .. n /\ i - 1 \in 1 .. i - 1 /\ i - 1 \in 1 .. n
        /\ \A k \in 1 .. n : stack[k].len \in 0 .. Len(name)
        /\ buf[stack[i].len - 1] = Sep /\ stack[i].len > 0
        /\ stack[i - 1].len < stack[i].len
        /\ \A j \in 0 .. stack[i].len - 1 : buf[j] # NUL
        /\ Len(name) \in Nat
    <3>1. n \in Nat /\ i \in 1 .. n /\ i - 1 \in 1 .. i - 1 /\ i - 1 \in 1 .. n
      BY <2>1, <2>2, CallFacts
    <3> QED BY <2>1, <2>2, <3>1, CallFacts
  <2> DEFINE l == stack[i].len
             prefix == [j \in 1 .. l |-> buf[j - 1]]
  <2>4. l \in Nat /\ l > 0
    BY <2>3
  <2>5. NUL \notin Range(prefix)
    <3> SUFFICES ASSUME NEW j \in 1 .. l PROVE buf[j - 1] # NUL
      BY DEF Range
    <3>1. j - 1 \in 0 .. l - 1
      BY <2>4
    <3> QED BY <2>3, <3>1
  <2>6. prefix[Len(prefix)] = Sep
    <3>1. Len(prefix) = l
      BY <2>4
    <3>2. l \in 1 .. l
      BY <2>4
    <3> QED BY <2>3, <3>1, <3>2
  <2> QED BY <2>3, <2>5, <2>6
<1> QED BY <1>1, WalkInvariant, PTL

-----------------------------------------------------------------------------
(* Strings in the buffer                                                   *)

(* The string in front of the next level.                                  *)
Place(ls) == IF ls = <<>> THEN <<>> ELSE Append(Joined(ls), Sep)

LEMMA PlaceGrows ==
  ASSUME NEW B, Sep \in B, NEW ls \in Seq(Seq(B)), NEW l \in Seq(B)
  PROVE  /\ Place(ls) \in Seq(B) /\ Place(ls) \o l \in Seq(B)
         /\ Append(ls, l) \in Levels(B) /\ Append(ls, l) \in Seq(Seq(B))
         /\ Joined(Append(ls, l)) = Place(ls) \o l
         /\ Place(Append(ls, l)) = (Place(ls) \o l) \o <<Sep>>
         /\ Len(Place(ls)) \in Nat /\ Len(l) \in Nat
         /\ Len(Joined(Append(ls, l))) = Len(Place(ls)) + Len(l)
         /\ Len(Place(Append(ls, l))) = Len(Place(ls)) + Len(l) + 1
<1> DEFINE S == Seq(B)
<1>1. Append(ls, l) \in Seq(S) /\ Append(ls, l) # <<>>
  <2>1. ls \in Seq(S) /\ l \in S
    OBVIOUS
  <2> HIDE DEF S
  <2> QED BY <2>1, AppendProperties
<1>2. Append(ls, l) \in Levels(B)
  BY <1>1 DEF Levels
<1>3. Place(ls) \in Seq(B) /\ Joined(Append(ls, l)) = Place(ls) \o l
  <2>1. CASE ls = <<>>
    <3>1. Place(ls) = <<>> /\ <<>> \in Seq(B)
      BY <2>1 DEF Place
    <3>2. Append(ls, l) = <<l>>
      BY <2>1
    <3>3. Joined(<<l>>) = l
      BY JoinedOne
    <3>4. <<>> \o l = l
      BY ConcatEmptySeq
    <3> QED BY <3>1, <3>2, <3>3, <3>4
  <2>2. CASE ls # <<>>
    <3>1. ls \in Levels(B)
      BY <2>2 DEF Levels
    <3>2. Joined(ls) \in Seq(B)
      BY <3>1, JoinedType
    <3>3. Place(ls) = Append(Joined(ls), Sep)
      BY <2>2 DEF Place
    <3>4. Place(ls) \in Seq(B) /\ Joined(ls) \o <<Sep>> = Place(ls)
      BY <3>2, <3>3, AppendIsConcat
    <3>5. Joined(Append(ls, l)) = Joined(ls) \o <<Sep>> \o l
      BY <3>1, JoinedGrows DEF JoinStep
    <3> QED BY <3>4, <3>5
  <2> QED BY <2>1, <2>2
<1>4. PICK x \in Seq(B) : x = Place(ls)
  BY <1>3
<1>5. PICK y : y = x \o l
  OBVIOUS
<1>6. y \in Seq(B) /\ Len(y) = Len(x) + Len(l) /\ Len(x) \in Nat /\ Len(l) \in Nat
  BY <1>5, ConcatProperties
<1>7. Place(Append(ls, l)) = Append(y, Sep)
  BY <1>1, <1>3, <1>4, <1>5 DEF Place
<1>8. Append(y, Sep) = y \o <<Sep>> /\ Len(Append(y, Sep)) = Len(y) + 1
  BY <1>6, AppendIsConcat
<1>9. Len(Append(y, Sep)) = Len(x) + Len(l) + 1
  BY <1>6, <1>8
<1> QED BY <1>1, <1>2, <1>3, <1>4, <1>5, <1>6, <1>7, <1>8, <1>9

(* The string in a buffer that begins with s and a zero byte.              *)
LEMMA StrIs ==
  ASSUME NEW N \in Nat, NEW b, DOMAIN b = 0 .. N, NEW B, NUL \notin B, NEW s \in Seq(B),
         Len(s) <= N, \A j \in 0 .. Len(s) - 1 : b[j] = s[j + 1], b[Len(s)] = NUL
  PROVE  Terminated(b) /\ StrLen(b) = Len(s) /\ Str(b) = s
<1>1. PICK n \in Nat : n = Len(s)
  OBVIOUS
<1>2. n \in 0 .. N /\ \A j \in 0 .. n - 1 : b[j] # NUL
  <2>1. \A j \in 0 .. n - 1 : j + 1 \in 1 .. n
    OBVIOUS
  <2>2. \A j \in 0 .. n - 1 : s[j + 1] \in B
    BY <1>1, <2>1, ElementOfSeq
  <2> QED BY <1>1, <2>2
<1>3. Terminated(b)
  BY <1>1, <1>2 DEF Terminated
<1>4. PICK m : m = StrLen(b)
  OBVIOUS
<1>5. m \in 0 .. N /\ b[m] = NUL /\ \A j \in 0 .. m - 1 : b[j] # NUL
  BY <1>3, <1>4, StrLenIsFirst
<1>6. m = n
  <2>1. CASE m < n
    BY <1>2, <1>5, <2>1
  <2>2. CASE n < m
    <3>1. n \in 0 .. m - 1
      BY <1>2, <1>5, <2>2
    <3> QED BY <1>1, <1>5, <3>1
  <2> QED BY <1>5, <2>1, <2>2
<1>7. Str(b) = [i \in 1 .. n |-> b[i - 1]]
  BY <1>4, <1>6 DEF Str
<1>8. \A i \in 1 .. n : b[i - 1] = s[i]
  <2> TAKE i \in 1 .. n
  <2>1. i - 1 \in 0 .. n - 1 /\ (i - 1) + 1 = i
    OBVIOUS
  <2> QED BY <1>1, <2>1
<1>9. s = [i \in 1 .. n |-> s[i]]
  <2>1. s \in [1 .. n -> B]
    BY <1>1, LenProperties
  <2> QED BY <2>1
<1>10. [i \in 1 .. n |-> b[i - 1]] = [i \in 1 .. n |-> s[i]]
  BY <1>8
<1>11. Str(b) = s
  BY <1>7, <1>9, <1>10
<1> QED BY <1>1, <1>3, <1>4, <1>6, <1>11

(* A write behind x of what follows it.                                    *)
Lengthened(N, b, x, s, c) ==
  /\ DOMAIN c = 0 .. N
  /\ \A j \in 0 .. Len(x \o s) - 1 : c[j] = (x \o s)[j + 1]
  /\ \A j \in 0 .. N : Len(x \o s) <= j => c[j] = b[j]
  /\ \A j \in 0 .. N : j < Len(x) => c[j] = b[j]

LEMMA WriteBehind ==
  ASSUME NEW N \in Nat, NEW b, DOMAIN b = 0 .. N, NEW B, NEW x \in Seq(B), NEW s \in Seq(B),
         \A j \in 0 .. Len(x) - 1 : b[j] = x[j + 1], Len(x) + Len(s) <= N + 1
  PROVE  Lengthened(N, b, x, s, Write(b, Len(x), s))
<1>1. PICK n \in Nat, k \in Nat : n = Len(x) /\ k = Len(s)
  OBVIOUS
<1>2. PICK y, w : y = x \o s /\ w = Write(b, n, s)
  OBVIOUS
<1>3. /\ Len(y) = n + k /\ \A i \in 1 .. n + k : y[i] = IF i <= n THEN x[i] ELSE s[i - n]
  BY <1>1, <1>2, ConcatProperties
<1>4. /\ DOMAIN w = 0 .. N
      /\ \A j \in 0 .. N : w[j] = IF j \in n .. n + k - 1 THEN s[j - n + 1] ELSE b[j]
  BY <1>1, <1>2 DEF Write
<1>5. ASSUME NEW j \in 0 .. n + k - 1 PROVE w[j] = y[j + 1]
  <2>1. j \in 0 .. N /\ j + 1 \in 1 .. n + k
    BY <1>1
  <2>2. CASE j < n
    <3>1. j \in 0 .. n - 1 /\ j + 1 <= n /\ ~ (j \in n .. n + k - 1)
      BY <2>2
    <3> QED BY <1>1, <1>3, <1>4, <2>1, <3>1
  <2>3. CASE n <= j
    <3>1. ~ (j + 1 <= n) /\ j \in n .. n + k - 1 /\ (j + 1) - n = j - n + 1
      BY <2>3
    <3> QED BY <1>3, <1>4, <2>1, <3>1
  <2> QED BY <2>2, <2>3
<1>6. \A j \in 0 .. N : n + k <= j \/ j < n => w[j] = b[j]
  BY <1>4
<1> QED BY <1>1, <1>2, <1>3, <1>4, <1>5, <1>6 DEF Lengthened

-----------------------------------------------------------------------------
(* What the walk has been through                                          *)

Plus == <<PlusByte>>
Hash == <<HashByte>>

(* The levels that the first m calls of st are at.                         *)
Level(ts, st, i) == IF st[i].next = "unplus" THEN Plus ELSE ts[i]
Path(ts, st, m) == [i \in 1 .. m |-> Level(ts, st, i)]
Along(ts, st, ls, m) == \A i \in 1 .. m : ls[i] = Level(ts, st, i)

(* The levels of a filter that a walk for ts can come to.                  *)
Fitting(ts, ls) ==
  /\ Len(ls) <= Len(ts)
  /\ \A i \in 1 .. Len(ls) : \/ ls[i] \in {ts[i], Plus}
                             \/ ls[i] = Hash /\ i = Len(ls)

(* What the first n calls, which wait for others, have been through.       *)
Behind(ts, st, ls, m) ==
  /\ m <= Len(ls) /\ Along(ts, st, ls, m - 1)
  /\ \/ ls[m] = ts[m] /\ st[m].next = "unplus"
     \/ ls[m] = Level(ts, st, m) /\ Len(ls) = m
Earlier(ts, st, ls, n) == \E m \in 1 .. n : Behind(ts, st, ls, m)

(* What the innermost call has been through.                               *)
Latest(ts, st, ls, n) ==
  /\ n <= Len(ls) /\ Along(ts, st, ls, n - 1)
  /\ \/ ls[n] = ts[n] /\ st[n].next # "token"
     \/ ls[n] = Plus /\ st[n].next \in {"unplus", "hash"}

Seen(ts, st, ls) ==
  \/ st = <<>>
  \/ Earlier(ts, st, ls, Len(st) - 1)
  \/ Latest(ts, st, ls, Len(st))

(* The levels of the name are no wildcards.                                *)
Unmarked(ts) == \A i \in 1 .. Len(ts) : ts[i] # Plus /\ ts[i] # Hash

LEMMA PlusIsNotHash == Plus # Hash
BY DEF Plus, Hash, PlusByte, HashByte

LEMMA AlongSame ==
  ASSUME NEW ts, NEW st, NEW st2, NEW ls, NEW n \in Nat,
         \A i \in 1 .. n : st2[i].next = st[i].next
  PROVE  \A m \in 0 .. n : Along(ts, st2, ls, m) <=> Along(ts, st, ls, m)
<1>1. \A i \in 1 .. n : Level(ts, st2, i) = Level(ts, st, i)
  BY DEF Level
<1>2. ASSUME NEW m \in 0 .. n PROVE Along(ts, st2, ls, m) <=> Along(ts, st, ls, m)
  <2>1. \A i \in 1 .. m : i \in 1 .. n
    OBVIOUS
  <2>2. \A i \in 1 .. m : Level(ts, st2, i) = Level(ts, st, i)
    BY <1>1, <2>1
  <2> QED BY <2>2, Zenon DEF Along
<1> QED BY <1>2

LEMMA EarlierSame ==
  ASSUME NEW ts, NEW st, NEW st2, NEW ls, NEW n \in Nat,
         \A i \in 1 .. n : st2[i].next = st[i].next
  PROVE  Earlier(ts, st2, ls, n) <=> Earlier(ts, st, ls, n)
<1>1. \A i \in 1 .. n : Level(ts, st2, i) = Level(ts, st, i)
  BY DEF Level
<1>2. \A m \in 1 .. n : m - 1 \in 0 .. n
  OBVIOUS
<1>3. \A m \in 0 .. n : Along(ts, st2, ls, m) <=> Along(ts, st, ls, m)
  BY AlongSame
<1>4. ASSUME NEW m \in 1 .. n PROVE Behind(ts, st2, ls, m) <=> Behind(ts, st, ls, m)
  <2>1. Along(ts, st2, ls, m - 1) <=> Along(ts, st, ls, m - 1)
    BY <1>2, <1>3
  <2>2. Level(ts, st2, m) = Level(ts, st, m) /\ st2[m].next = st[m].next
    BY <1>1
  <2> QED BY <2>1, <2>2, Zenon DEF Behind
<1> QED BY <1>4, Zenon DEF Earlier

LEMMA AlongOne ==
  ASSUME NEW ts, NEW st, NEW ls, NEW n \in Nat \ {0}
  PROVE  Along(ts, st, ls, n) <=> Along(ts, st, ls, n - 1) /\ ls[n] = Level(ts, st, n)
<1>1. \A i \in 1 .. n : i = n \/ i \in 1 .. n - 1
  OBVIOUS
<1>2. n \in 1 .. n /\ \A i \in 1 .. n - 1 : i \in 1 .. n
  OBVIOUS
<1> QED BY <1>1, <1>2, Zenon DEF Along

LEMMA EarlierOne ==
  ASSUME NEW ts, NEW st, NEW ls, NEW n \in Nat \ {0}
  PROVE  Earlier(ts, st, ls, n) <=> Earlier(ts, st, ls, n - 1) \/ Behind(ts, st, ls, n)
<1>1. \A i \in 1 .. n : i = n \/ i \in 1 .. n - 1
  OBVIOUS
<1>2. n \in 1 .. n /\ \A i \in 1 .. n - 1 : i \in 1 .. n
  OBVIOUS
<1> QED BY <1>1, <1>2, Zenon DEF Earlier

LEMMA NothingEarlier ==
  ASSUME NEW ts, NEW st, NEW ls
  PROVE  Along(ts, st, ls, 0) /\ ~ Earlier(ts, st, ls, 0)
<1>1. 1 .. 0 = {}
  OBVIOUS
<1> QED BY <1>1 DEF Along, Earlier

(***************************************************************************)
(* The next fields of st and st2 are the same for the first k - 1 calls:   *)
(* the levels that the innermost call, k, has been through, in terms of    *)
(* st for both.                                                            *)
(***************************************************************************)
Through(ts, st, ls, k, x) == k <= Len(ls) /\ Along(ts, st, ls, k - 1) /\ ls[k] = x
Ending(ts, st, ls, k, x) == Len(ls) = k /\ Along(ts, st, ls, k - 1) /\ ls[k] = x

(* The innermost call goes on to another of its steps.                     *)
LEMMA SeenStays ==
  ASSUME NEW ts, NEW st, NEW st2, NEW ls, NEW k \in Nat \ {0},
         st # <<>>, Len(st) = k, st2 # <<>>, Len(st2) = k,
         \A i \in 1 .. k - 1 : st2[i].next = st[i].next
  PROVE  /\ Seen(ts, st, ls) <=>
              \/ Earlier(ts, st, ls, k - 1)
              \/ Through(ts, st, ls, k, ts[k]) /\ st[k].next # "token"
              \/ Through(ts, st, ls, k, Plus) /\ st[k].next \in {"unplus", "hash"}
         /\ Seen(ts, st2, ls) <=>
              \/ Earlier(ts, st, ls, k - 1)
              \/ Through(ts, st, ls, k, ts[k]) /\ st2[k].next # "token"
              \/ Through(ts, st, ls, k, Plus) /\ st2[k].next \in {"unplus", "hash"}
<1>1. k - 1 \in Nat /\ k - 1 \in 0 .. k - 1
  OBVIOUS
<1>2. Earlier(ts, st2, ls, k - 1) <=> Earlier(ts, st, ls, k - 1)
  BY <1>1, EarlierSame
<1>3. Along(ts, st2, ls, k - 1) <=> Along(ts, st, ls, k - 1)
  BY <1>1, AlongSame
<1> QED BY <1>2, <1>3, Zenon DEF Seen, Latest, Through

(* The innermost call makes a call.                                        *)
LEMMA SeenByCall ==
  ASSUME NEW ts, NEW st, NEW st2, NEW ls, Len(ls) \in Nat, NEW k \in Nat \ {0},
         st # <<>>, Len(st) = k, st2 # <<>>, Len(st2) = k + 1,
         \A i \in 1 .. k - 1 : st2[i].next = st[i].next,
         st2[k + 1].next = "token"
  PROVE  Seen(ts, st2, ls) <=>
           \/ Earlier(ts, st, ls, k - 1)
           \/ Through(ts, st, ls, k, ts[k]) /\ st2[k].next = "unplus"
           \/ Ending(ts, st, ls, k, Level(ts, st2, k))
<1>1. k - 1 \in Nat /\ k - 1 \in 0 .. k - 1 /\ (k + 1) - 1 = k
  OBVIOUS
<1>2. Earlier(ts, st2, ls, k - 1) <=> Earlier(ts, st, ls, k - 1)
  BY <1>1, EarlierSame
<1>3. Along(ts, st2, ls, k - 1) <=> Along(ts, st, ls, k - 1)
  BY <1>1, AlongSame
<1>4. ~ Latest(ts, st2, ls, k + 1)
  BY DEF Latest
<1>5. Earlier(ts, st2, ls, k) <=> Earlier(ts, st, ls, k - 1) \/ Behind(ts, st2, ls, k)
  BY <1>2, EarlierOne, Zenon
<1>6. Behind(ts, st2, ls, k) <=>
        \/ Through(ts, st, ls, k, ts[k]) /\ st2[k].next = "unplus"
        \/ Ending(ts, st, ls, k, Level(ts, st2, k))
  <2>1. Len(ls) = k => k <= Len(ls)
    OBVIOUS
  <2> QED BY <1>3, <2>1, Zenon DEF Behind, Through, Ending
<1>7. Seen(ts, st2, ls) <=> Earlier(ts, st2, ls, k) \/ Latest(ts, st2, ls, k + 1)
  BY <1>1, Zenon DEF Seen
<1> QED BY <1>4, <1>5, <1>6, <1>7, Zenon

(* The innermost call returns.                                             *)
LEMMA SeenOnReturn ==
  ASSUME NEW ts, NEW st, NEW st2, NEW ls, Len(ls) \in Nat \ {0}, Fitting(ts, ls),
         NEW k \in Nat \ {0}, st # <<>>, Len(st) = k, st[k].next = "hash",
         k = 1 => st2 = <<>>,
         k > 1 => /\ st2 # <<>> /\ Len(st2) = k - 1
                  /\ \A i \in 1 .. k - 1 : st2[i].next = st[i].next
                  /\ st[k - 1].next \in {"clear", "unplus"}
  PROVE  Seen(ts, st2, ls) <=> Seen(ts, st, ls) \/ Ending(ts, st, ls, k, Hash)
<1>1. PICK n \in Nat \ {0} : n = Len(ls)
  OBVIOUS
<1>2. k <= n => Through(ts, st, ls, k, ts[k]) \/ Through(ts, st, ls, k, Plus)
                \/ Ending(ts, st, ls, k, Hash) \/ ~ Along(ts, st, ls, k - 1)
  <2> SUFFICES ASSUME k <= n, Along(ts, st, ls, k - 1)
               PROVE  Through(ts, st, ls, k, ts[k]) \/ Through(ts, st, ls, k, Plus)
                      \/ Ending(ts, st, ls, k, Hash)
    OBVIOUS
  <2>1. k \in 1 .. n
    OBVIOUS
  <2>2. ls[k] = ts[k] \/ ls[k] = Plus \/ (ls[k] = Hash /\ k = n)
    BY <1>1, <2>1 DEF Fitting
  <2> QED BY <1>1, <2>2 DEF Through, Ending
<1>3. Latest(ts, st, ls, k) <=> Through(ts, st, ls, k, ts[k]) \/ Through(ts, st, ls, k, Plus)
  BY Zenon DEF Latest, Through
<1>4. CASE k = 1
  <2>1. Along(ts, st, ls, k - 1) /\ ~ Earlier(ts, st, ls, k - 1) /\ k <= n
    BY <1>4, NothingEarlier
  <2>2. Seen(ts, st2, ls)
    BY <1>4 DEF Seen
  <2>3. Latest(ts, st, ls, k) \/ Ending(ts, st, ls, k, Hash)
    BY <1>2, <1>3, <2>1, Zenon
  <2> QED BY <2>2, <2>3, Zenon DEF Seen
<1>5. CASE k > 1
  <2>1. PICK p \in Nat \ {0} : p = k - 1 /\ k = p + 1 /\ (p + 1) - 1 = p
    BY <1>5
  <2>2. /\ st2 # <<>> /\ Len(st2) = p /\ \A i \in 1 .. p : st2[i].next = st[i].next
        /\ st[p].next \in {"clear", "unplus"} /\ st2[p].next = st[p].next
        /\ p - 1 \in Nat /\ p - 1 \in 0 .. p - 1 /\ \A i \in 1 .. p - 1 : i \in 1 .. p
    BY <1>5, <2>1
  <2>3. Earlier(ts, st2, ls, p - 1) <=> Earlier(ts, st, ls, p - 1)
    BY <2>2, EarlierSame
  <2>4. Along(ts, st2, ls, p - 1) <=> Along(ts, st, ls, p - 1)
    BY <2>2, AlongSame
  <2>5. Earlier(ts, st, ls, k - 1) <=> Earlier(ts, st, ls, p - 1) \/ Behind(ts, st, ls, p)
    BY <2>1, EarlierOne, Zenon
  <2>6. Along(ts, st, ls, k - 1) <=> Along(ts, st, ls, p - 1) /\ ls[p] = Level(ts, st, p)
    BY <2>1, AlongOne, Zenon
  <2>7. /\ n = p => ~ (k <= n)
        /\ p <= n => n = p \/ k <= n
        /\ k <= n => p <= n
        /\ n = k => k <= n
        /\ n = p => p <= n
    BY <2>1
  <2>8. Seen(ts, st, ls) <=> \/ Earlier(ts, st, ls, p - 1) \/ Behind(ts, st, ls, p)
                             \/ Through(ts, st, ls, k, ts[k]) \/ Through(ts, st, ls, k, Plus)
    BY <1>3, <2>5, Zenon DEF Seen
  <2>9. Seen(ts, st2, ls) <=>
          \/ Earlier(ts, st, ls, p - 1)
          \/ p <= n /\ Along(ts, st, ls, p - 1) /\ ls[p] = ts[p]
          \/ p <= n /\ Along(ts, st, ls, p - 1) /\ ls[p] = Plus /\ st[p].next = "unplus"
    <3>1. st2[p].next # "token" /\ (st2[p].next \in {"unplus", "hash"} <=> st[p].next = "unplus")
      BY <2>2
    <3> QED BY <1>1, <2>2, <2>3, <2>4, <3>1, Zenon DEF Seen, Latest
  <2>10. Behind(ts, st, ls, p) <=>
           \/ p <= n /\ Along(ts, st, ls, p - 1) /\ ls[p] = ts[p] /\ st[p].next = "unplus"
           \/ n = p /\ Along(ts, st, ls, p - 1) /\ ls[p] = Level(ts, st, p)
    BY <1>1, <2>7, Zenon DEF Behind
  <2>11. k <= n /\ Along(ts, st, ls, k - 1) <=>
           \/ Through(ts, st, ls, k, ts[k]) \/ Through(ts, st, ls, k, Plus)
           \/ Ending(ts, st, ls, k, Hash)
    BY <1>1, <1>2, <2>7, Zenon DEF Through, Ending
  <2>12. CASE st[p].next = "unplus"
    <3>1. Level(ts, st, p) = Plus
      BY <2>12 DEF Level
    <3> QED BY <2>6, <2>7, <2>8, <2>9, <2>10, <2>11, <2>12, <3>1, Zenon
  <2>13. CASE st[p].next = "clear"
    <3>1. Level(ts, st, p) = ts[p] /\ st[p].next # "unplus"
      BY <2>13 DEF Level
    <3> QED BY <2>6, <2>7, <2>8, <2>9, <2>10, <2>11, <3>1, Zenon
  <2> QED BY <2>2, <2>12, <2>13
<1> QED BY <1>4, <1>5

(* What comes next has not been seen.                                      *)
LEMMA NextIsNotSeen ==
  ASSUME NEW ts, Unmarked(ts), NEW st, NEW k \in 1 .. Len(ts), Len(ts) \in Nat,
         st # <<>>, Len(st) = k, NEW ls, NEW x, Ending(ts, st, ls, k, x),
         \/ x = ts[k] /\ st[k].next = "token"
         \/ x = Plus /\ st[k].next = "plus"
         \/ x = Hash /\ st[k].next = "hash"
  PROVE  ~ Seen(ts, st, ls)
<1>1. Len(ls) = k /\ Along(ts, st, ls, k - 1) /\ ls[k] = x
  BY DEF Ending
<1>2. ts[k] # Plus /\ ts[k] # Hash /\ Plus # Hash
  BY PlusIsNotHash DEF Unmarked
<1>3. ~ Latest(ts, st, ls, k)
  BY <1>1, <1>2 DEF Latest
<1>4. ~ Earlier(ts, st, ls, k - 1)
  <2> SUFFICES ASSUME NEW m \in 1 .. k - 1, Behind(ts, st, ls, m) PROVE FALSE
    BY DEF Earlier
  <2>1. Len(ls) # m /\ m \in 1 .. Len(ts)
    BY <1>1
  <2>2. ls[m] = ts[m] /\ st[m].next = "unplus"
    BY <2>1, Zenon DEF Behind
  <2>3. ls[m] = Plus
    BY <1>1, <2>2 DEF Along, Level
  <2> QED BY <2>1, <2>2, <2>3 DEF Unmarked
<1> QED BY <1>3, <1>4 DEF Seen

-----------------------------------------------------------------------------
(* The published name                                                      *)

(* The bytes of names and filters.                                         *)
Byte == (STRING \ {NUL}) \cup {Sep, PlusByte, HashByte}

(* Where a level of the name begins in it.                                 *)
Start(ts, i) == Len(Place(SubSeq(ts, 1, i - 1)))

LEMMA Bytes == NUL \notin Byte /\ Sep \in Byte /\ Plus \in Seq(Byte) /\ Hash \in Seq(Byte)
               /\ Len(Plus) = 1 /\ Len(Hash) = 1 /\ NoSep(Plus) /\ NoSep(Hash)
<1>1. NUL # Sep /\ NUL # PlusByte /\ NUL # HashByte /\ PlusByte # Sep /\ HashByte # Sep
  BY DEF NUL, Sep, PlusByte, HashByte
<1>2. Sep \in Byte /\ PlusByte \in Byte /\ HashByte \in Byte
  BY DEF Byte
<1>3. NUL \notin Byte
  BY <1>1 DEF Byte
<1>4. ASSUME NEW b \in Byte, b # Sep PROVE <<b>> \in Seq(Byte) /\ Len(<<b>>) = 1 /\ NoSep(<<b>>)
  BY <1>4 DEF NoSep
<1> QED BY <1>1, <1>2, <1>3, <1>4 DEF Plus, Hash

LEMMA TextIsBytes ==
  ASSUME NEW s \in Text
  PROVE  s \in Seq(Byte)
<1>1. PICK S : S = STRING \ {NUL}
  OBVIOUS
<1>2. s \in Seq(S) /\ S \subseteq Byte
  BY <1>1 DEF Text, Byte
<1> QED BY <1>2, SeqMonotonic

(* The first levels.                                                       *)
LEMMA FirstLevels ==
  ASSUME NEW S, NEW ts \in Seq(S), NEW i \in 0 .. Len(ts)
  PROVE  /\ SubSeq(ts, 1, i) \in Seq(S) /\ Len(SubSeq(ts, 1, i)) = i
         /\ \A j \in 1 .. i : SubSeq(ts, 1, i)[j] = ts[j]
<1>1. /\ 1 \in Int /\ i \in Int /\ \A j \in 1 .. i : ts[j] \in S
      /\ IF 1 <= i THEN i - 1 + 1 = i ELSE i = 0
      /\ i - 1 + 1 = i /\ \A j \in 1 .. i : 1 + j - 1 = j
  OBVIOUS
<1> QED BY <1>1, SubSeqProperties

LEMMA NextLevel ==
  ASSUME NEW S, NEW ts \in Seq(S), NEW i \in 1 .. Len(ts)
  PROVE  SubSeq(ts, 1, i) = Append(SubSeq(ts, 1, i - 1), ts[i])
<1>1. PICK p, q : p = SubSeq(ts, 1, i - 1) /\ q = SubSeq(ts, 1, i)
  OBVIOUS
<1>2. i - 1 \in 0 .. Len(ts) /\ i \in 0 .. Len(ts) /\ ts[i] \in S /\ (i - 1) + 1 = i
  OBVIOUS
<1>3. p \in Seq(S) /\ Len(p) = i - 1 /\ \A j \in 1 .. i - 1 : p[j] = ts[j]
  BY <1>1, <1>2, FirstLevels
<1>4. q \in Seq(S) /\ Len(q) = i /\ \A j \in 1 .. i : q[j] = ts[j]
  BY <1>1, <1>2, FirstLevels
<1>5. PICK r : r = Append(p, ts[i])
  OBVIOUS
<1>6. r \in Seq(S) /\ Len(r) = i /\ r[i] = ts[i] /\ \A j \in 1 .. i - 1 : r[j] = ts[j]
  BY <1>2, <1>3, <1>5
<1>7. \A j \in 1 .. i : q[j] = r[j]
  BY <1>4, <1>6
<1>8. q = r
  BY <1>4, <1>6, <1>7, SeqEqual
<1> QED BY <1>1, <1>5, <1>8

(* How the beginnings of levels lie.                                       *)
LEMMA Starts ==
  ASSUME NEW ts \in Levels(Byte)
  PROVE  /\ Len(ts) \in Nat \ {0} /\ ts \in Seq(Seq(Byte))
         /\ \A i \in 1 .. Len(ts) : ts[i] \in Seq(Byte) /\ Len(ts[i]) \in Nat
         /\ \A i \in 1 .. Len(ts) + 1 : Start(ts, i) \in Nat
         /\ Start(ts, 1) = 0
         /\ \A i \in 1 .. Len(ts) : Start(ts, i + 1) = Start(ts, i) + Len(ts[i]) + 1
         /\ Start(ts, Len(ts) + 1) = Len(Joined(ts)) + 1
<1>1. ts \in Seq(Seq(Byte)) /\ ts # <<>>
  BY DEF Levels
<1>2. Len(ts) \in Nat \ {0}
  BY <1>1, EmptySeq
<1>3. \A i \in 1 .. Len(ts) : ts[i] \in Seq(Byte) /\ Len(ts[i]) \in Nat
  <2> TAKE i \in 1 .. Len(ts)
  <2>1. ts[i] \in Seq(Byte)
    BY <1>1, ElementOfSeq
  <2> QED BY <2>1, LenProperties
<1>4. ASSUME NEW i \in 1 .. Len(ts)
      PROVE  /\ Start(ts, i + 1) = Start(ts, i) + Len(ts[i]) + 1
             /\ Start(ts, i + 1) = Len(Joined(SubSeq(ts, 1, i))) + 1
             /\ Start(ts, i) \in Nat
  <2>1. i - 1 \in 0 .. Len(ts) /\ (i + 1) - 1 = i
    BY <1>2
  <2>2. PICK p : p = SubSeq(ts, 1, i - 1)
    OBVIOUS
  <2>3. p \in Seq(Seq(Byte))
    BY <1>1, <2>1, <2>2, FirstLevels
  <2>4. SubSeq(ts, 1, i) = Append(p, ts[i])
    BY <1>1, <2>2, NextLevel
  <2>5. PICK l \in Seq(Byte) : l = ts[i]
    BY <1>3
  <2>6. /\ Len(Place(p)) \in Nat /\ Len(l) \in Nat
        /\ Len(Joined(Append(p, l))) = Len(Place(p)) + Len(l)
        /\ Len(Place(Append(p, l))) = Len(Place(p)) + Len(l) + 1
    BY <2>3, Bytes, PlaceGrows
  <2>7. /\ Start(ts, i + 1) = Len(Place(Append(p, l)))
        /\ Start(ts, i) = Len(Place(p))
    BY <2>1, <2>2, <2>4, <2>5 DEF Start
  <2> QED BY <2>4, <2>5, <2>6, <2>7
<1>5. Start(ts, 1) = 0
  <2>1. SubSeq(ts, 1, 0) = <<>> /\ 1 - 1 = 0
    BY SubSeqEmpty
  <2>2. Place(<<>>) = <<>> /\ Len(<<>>) = 0
    BY EmptySeq DEF Place
  <2> QED BY <2>1, <2>2 DEF Start
<1>6. SubSeq(ts, 1, Len(ts)) = ts
  BY <1>1, SubSeqFull
<1>7. Start(ts, Len(ts) + 1) = Len(Joined(ts)) + 1
  <2>1. Len(ts) \in 1 .. Len(ts)
    BY <1>2
  <2> QED BY <1>4, <1>6, <2>1
<1>8. Start(ts, Len(ts) + 1) \in Nat
  <2>1. Len(ts) \in 1 .. Len(ts)
    BY <1>2
  <2>2. /\ Start(ts, Len(ts)) \in Nat /\ Len(ts[Len(ts)]) \in Nat
        /\ Start(ts, Len(ts) + 1) = Start(ts, Len(ts)) + Len(ts[Len(ts)]) + 1
    BY <1>3, <1>4, <2>1
  <2> QED BY <2>2
<1>9. \A i \in 1 .. Len(ts) + 1 : i \in 1 .. Len(ts) \/ i = Len(ts) + 1
  BY <1>2
<1> QED BY <1>1, <1>2, <1>3, <1>4, <1>5, <1>7, <1>8, <1>9

(* Levels begin one behind the other.                                      *)
LEMMA StartsAscend ==
  ASSUME NEW ts \in Levels(Byte), NEW k \in 1 .. Len(ts) + 1, NEW i \in 1 .. k
  PROVE  Start(ts, i) <= Start(ts, k)
<1>1. PICK n \in Nat \ {0} : n = Len(ts)
  BY Starts
<1>2. PICK N : N = Start(ts, k)
  OBVIOUS
<1>3. /\ \A j \in 1 .. k : Start(ts, j) \in Nat
      /\ \A j \in 1 .. k - 1 : Len(ts[j]) \in Nat
      /\ \A j \in 1 .. k - 1 : Start(ts, j + 1) = Start(ts, j) + Len(ts[j]) + 1
      /\ N \in Nat
  <2>1. /\ \A j \in 1 .. k : j \in 1 .. n + 1
        /\ \A j \in 1 .. k - 1 : j \in 1 .. n
        /\ k \in 1 .. n + 1
    BY <1>1
  <2>2. /\ \A j \in 1 .. n + 1 : Start(ts, j) \in Nat
        /\ \A j \in 1 .. n : Len(ts[j]) \in Nat
        /\ \A j \in 1 .. n : Start(ts, j + 1) = Start(ts, j) + Len(ts[j]) + 1
    BY <1>1, Starts
  <2> QED BY <1>2, <2>1, <2>2
<1> DEFINE S == {d \in Nat : d < k => Start(ts, k - d) <= N}
<1>4. 0 \in S
  <2>1. k - 0 = k
    OBVIOUS
  <2> QED BY <1>2, <1>3, <2>1
<1>5. \A d \in Nat : d \in S => d + 1 \in S
  <2> TAKE d \in Nat
  <2> HAVE d \in S
  <2> SUFFICES ASSUME d + 1 < k PROVE Start(ts, k - (d + 1)) <= N
    OBVIOUS
  <2>1. PICK j \in 1 .. k - 1 : j = k - (d + 1) /\ j + 1 = k - d /\ j \in 1 .. k
    OBVIOUS
  <2>2. Start(ts, j + 1) <= N
    BY <2>1
  <2>3. Start(ts, j + 1) = Start(ts, j) + Len(ts[j]) + 1 /\ Len(ts[j]) \in Nat /\ Start(ts, j) \in Nat
        /\ N \in Nat
    BY <1>3, <2>1
  <2>4. Start(ts, j) <= N
    BY <2>2, <2>3
  <2> QED BY <2>1, <2>4
<1> HIDE DEF S
<1>6. \A d \in Nat : d \in S
  BY <1>4, <1>5, Induction
<1>7. PICK d \in Nat : d = k - i /\ i = k - d /\ d < k
  OBVIOUS
<1>8. Start(ts, k - d) <= N
  BY <1>6, <1>7 DEF S
<1> QED BY <1>2, <1>7, <1>8

(* Every level ends in the name.                                           *)
LEMMA StartsInside ==
  ASSUME NEW ts \in Levels(Byte), NEW i \in 1 .. Len(ts) + 1
  PROVE  Start(ts, i) <= Len(Joined(ts)) + 1
<1>1. PICK n \in Nat \ {0} : n = Len(ts)
  BY Starts
<1>2. n + 1 \in 1 .. n + 1 /\ i \in 1 .. n + 1 /\ Start(ts, n + 1) = Len(Joined(ts)) + 1
  BY <1>1, Starts
<1> QED BY <1>1, <1>2, StartsAscend

(* What is known of a regular name.                                        *)
LEMMA RegularName ==
  ASSUME NEW s \in Text, Regular(s), NEW ts, ts = Tokens(s)
  PROVE  /\ ts \in Levels(Byte) /\ Plain(ts) /\ Joined(ts) = s /\ Unmarked(ts)
         /\ \A i \in 1 .. Len(ts) : Len(ts[i]) >= 2 /\ (i < Len(ts) => Len(ts[i]) >= 3)
         /\ \A i \in 1 .. Len(ts) :
              /\ Start(ts, i) + Len(ts[i]) <= Len(s)
              /\ i < Len(ts) => Start(ts, i) + Len(ts[i]) + 2 <= Len(s)
<1>1. s \in Seq(Byte)
  BY TextIsBytes
<1>2. ts \in Levels(Byte) /\ Plain(ts) /\ Joined(ts) = s
  BY <1>1, Bytes, TokensType, JoinedTokens
<1>3. PICK n \in Nat \ {0} : n = Len(ts)
  BY <1>2, Starts
<1>4. /\ \A i \in 1 .. n : ts[i] \in Seq(Byte) /\ Len(ts[i]) \in Nat
      /\ \A i \in 1 .. n + 1 : Start(ts, i) \in Nat
      /\ \A i \in 1 .. n : Start(ts, i + 1) = Start(ts, i) + Len(ts[i]) + 1
      /\ ts \in Seq(Seq(Byte))
  BY <1>2, <1>3, Starts
<1>5. \A i \in 1 .. n : Len(ts[i]) >= 2 /\ (i < n => Len(ts[i]) >= 3)
  <2> TAKE i \in 1 .. n
  <2>1. DOMAIN ts = 1 .. n
    BY <1>3, <1>4, LenProperties
  <2>2. Len(ts[i]) >= IF i < n THEN 3 ELSE 2
    BY <1>3, <2>1 DEF Regular
  <2>3. Len(ts[i]) \in Nat
    BY <1>4
  <2> QED BY <2>2, <2>3
<1>6. Unmarked(ts)
  <2>1. ASSUME NEW i \in 1 .. n PROVE ts[i] # Plus /\ ts[i] # Hash
    <3>1. Len(ts[i]) \in Nat /\ Len(ts[i]) >= 2
      BY <1>4, <1>5
    <3>2. Len(Plus) = 1 /\ Len(Hash) = 1
      BY Bytes
    <3>3. \A m \in Nat : m >= 2 => m # 1
      OBVIOUS
    <3>4. Len(ts[i]) # 1
      BY <3>1, <3>3, Zenon
    <3> QED BY <3>2, <3>4, Zenon
  <2> QED BY <1>3, <2>1 DEF Unmarked
<1>7. PICK N \in Nat : N = Len(s)
  BY <1>1
<1>8. ASSUME NEW i \in 1 .. n
      PROVE  /\ Start(ts, i) + Len(ts[i]) <= N
             /\ i < n => Start(ts, i) + Len(ts[i]) + 2 <= N
  <2>1. i + 1 \in 1 .. n + 1
    OBVIOUS
  <2>2. Start(ts, i + 1) <= N + 1
    BY <1>2, <1>3, <1>7, <2>1, StartsInside
  <2>3. PICK a \in Nat, l \in Nat : a = Start(ts, i) /\ l = Len(ts[i])
    <3>1. i \in 1 .. n + 1
      OBVIOUS
    <3> QED BY <1>4, <3>1
  <2>4. Start(ts, i + 1) = a + l + 1
    BY <1>4, <2>3
  <2>5. ASSUME i < n PROVE a + l + 2 <= N
    <3>1. i + 1 \in 1 .. n /\ (i + 1) + 1 \in 1 .. n + 1
      BY <2>5
    <3>2. Start(ts, (i + 1) + 1) <= N + 1
      BY <1>2, <1>3, <1>7, <3>1, StartsInside
    <3>3. PICK m \in Nat : m = Len(ts[i + 1])
      BY <1>4, <3>1
    <3>4. Start(ts, (i + 1) + 1) = Start(ts, i + 1) + m + 1
      BY <1>4, <3>1, <3>3
    <3>5. m >= 2
      BY <1>5, <3>1, <3>3
    <3> QED BY <2>4, <3>2, <3>3, <3>4, <3>5
  <2> QED BY <2>2, <2>3, <2>4, <2>5
<1> QED BY <1>2, <1>3, <1>5, <1>6, <1>7, <1>8

(* The variants of a name.                                                 *)
LEMMA VariantLevels ==
  ASSUME NEW ts \in Levels(Byte), NEW v \in Variants(ts)
  PROVE  v \in Levels(Byte) /\ Fitting(ts, v) /\ Len(v) \in Nat \ {0} /\ Len(Joined(v)) \in Nat
<1>1. PICK n \in Nat \ {0} : n = Len(ts)
  BY Starts
<1>2. DOMAIN ts = 1 .. n /\ \A i \in 1 .. n : ts[i] \in Seq(Byte)
  <2>1. ts \in Seq(Seq(Byte))
    BY Starts
  <2> QED BY <1>1, <2>1, LenProperties
<1>3. PICK R : /\ R \in SUBSET (1 .. n) /\ R # {}
               /\ v = [i \in 1 .. Max(R) |-> IF i \in R THEN ts[i] ELSE <<PlusByte>>]
  BY <1>2 DEF Variants
<1>4. PICK k \in 1 .. n : k = Max(R)
  <2>1. R \subseteq Nat /\ \A r \in R : r <= n
    BY <1>3
  <2>2. Max(R) \in R
    BY <1>3, <2>1, MaxIsGreatest
  <2> QED BY <1>3, <2>2
<1>5. v = [i \in 1 .. k |-> IF i \in R THEN ts[i] ELSE Plus]
  BY <1>3, <1>4 DEF Plus
<1>6. \A i \in 1 .. k : i \in 1 .. n /\ (v[i] = ts[i] \/ v[i] = Plus)
  BY <1>5
<1>7. Plus \in Seq(Byte)
  BY Bytes
<1>8. Len(v) = k /\ v \in Seq(Seq(Byte))
  <2>1. PICK S : S = Seq(Byte)
    OBVIOUS
  <2>2. v \in [1 .. k -> S]
    BY <1>2, <1>5, <1>6, <1>7, <2>1
  <2>3. v \in Seq(S)
    BY <2>2, SeqDef
  <2>4. Len(v) = k
    BY <2>2
  <2> QED BY <2>1, <2>3, <2>4
<1>9. v # <<>> /\ v \in Levels(Byte)
  <2>1. v # <<>>
    BY <1>8, EmptySeq
  <2> QED BY <1>8, <2>1 DEF Levels
<1>10. Fitting(ts, v)
  BY <1>1, <1>6, <1>8 DEF Fitting
<1>11. Joined(v) \in Seq(Byte)
  BY <1>9, Bytes, JoinedType
<1>12. Len(Joined(v)) \in Nat
  BY <1>11, LenProperties
<1> QED BY <1>8, <1>9, <1>10, <1>12

(* The path of calls.                                                      *)
LEMMA PathLevels ==
  ASSUME NEW ts \in Levels(Byte), NEW st, NEW m \in 0 .. Len(ts)
  PROVE  /\ Path(ts, st, m) \in Seq(Seq(Byte)) /\ Len(Path(ts, st, m)) = m
         /\ \A i \in 1 .. m : Path(ts, st, m)[i] = Level(ts, st, i)
         /\ \A i \in 1 .. m : Level(ts, st, i) \in {ts[i], Plus}
<1>1. PICK n \in Nat \ {0} : n = Len(ts)
  BY Starts
<1>2. m \in Nat /\ \A i \in 1 .. m : i \in 1 .. n
  BY <1>1
<1>3. PICK S : S = Seq(Byte)
  OBVIOUS
<1>4. \A i \in 1 .. n : ts[i] \in S
  BY <1>1, <1>3, Starts
<1>5. Plus \in S
  BY <1>3, Bytes
<1>6. \A i \in 1 .. m : Level(ts, st, i) \in {ts[i], Plus}
  BY DEF Level
<1>7. \A i \in 1 .. m : Level(ts, st, i) \in S
  BY <1>2, <1>4, <1>5, <1>6
<1>8. Path(ts, st, m) \in [1 .. m -> S]
  BY <1>7 DEF Path
<1>9. Path(ts, st, m) \in Seq(S) /\ Len(Path(ts, st, m)) = m
  BY <1>2, <1>8, SeqDef
<1> QED BY <1>3, <1>6, <1>9 DEF Path

LEMMA PathSame ==
  ASSUME NEW ts, NEW st, NEW st2, NEW n \in Nat, \A i \in 1 .. n : st2[i].next = st[i].next
  PROVE  \A m \in 0 .. n : Path(ts, st2, m) = Path(ts, st, m)
<1>1. \A i \in 1 .. n : Level(ts, st2, i) = Level(ts, st, i)
  BY DEF Level
<1>2. ASSUME NEW m \in 0 .. n PROVE Path(ts, st2, m) = Path(ts, st, m)
  <2>1. \A i \in 1 .. m : i \in 1 .. n
    OBVIOUS
  <2>2. \A i \in 1 .. m : Level(ts, st2, i) = Level(ts, st, i)
    BY <1>1, <2>1
  <2> QED BY <2>2 DEF Path
<1> QED BY <1>2

LEMMA PathGrows ==
  ASSUME NEW ts \in Levels(Byte), NEW st, NEW m \in 1 .. Len(ts)
  PROVE  Path(ts, st, m) = Append(Path(ts, st, m - 1), Level(ts, st, m))
<1>1. PICK n \in Nat \ {0} : n = Len(ts)
  BY Starts
<1>2. m \in 0 .. n /\ m - 1 \in 0 .. n /\ m \in 1 .. n /\ m \in Nat
  BY <1>1
<1>3. PICK S : S = Seq(Byte)
  OBVIOUS
<1>4. PICK p, q, l : p = Path(ts, st, m - 1) /\ q = Path(ts, st, m) /\ l = Level(ts, st, m)
  OBVIOUS
<1>5. /\ p \in Seq(S) /\ Len(p) = m - 1 /\ \A i \in 1 .. m - 1 : p[i] = Level(ts, st, i)
  BY <1>1, <1>2, <1>3, <1>4, PathLevels
<1>6. /\ q \in Seq(S) /\ Len(q) = m /\ \A i \in 1 .. m : q[i] = Level(ts, st, i)
  BY <1>1, <1>2, <1>3, <1>4, PathLevels
<1>7. l \in S
  BY <1>2, <1>4, <1>6, ElementOfSeq
<1>8. PICK r : r = Append(p, l)
  OBVIOUS
<1>9. r \in Seq(S) /\ Len(r) = m /\ r[m] = l /\ \A i \in 1 .. m - 1 : r[i] = p[i]
  BY <1>2, <1>5, <1>7, <1>8
<1>10. \A i \in 1 .. m : q[i] = r[i]
  <2> TAKE i \in 1 .. m
  <2>1. i = m \/ i \in 1 .. m - 1
    BY <1>2
  <2> QED BY <1>4, <1>5, <1>6, <1>9, <2>1
<1>11. q = r
  BY <1>6, <1>9, <1>10, SeqEqual
<1> QED BY <1>4, <1>8, <1>11

(* A filter that follows the path and ends behind it.                      *)
LEMMA EndIs ==
  ASSUME NEW ts \in Levels(Byte), NEW st, NEW k \in 1 .. Len(ts), NEW x \in Seq(Byte),
         NEW ls \in Levels(Byte)
  PROVE  Ending(ts, st, ls, k, x) <=> ls = Append(Path(ts, st, k - 1), x)
<1>1. PICK n \in Nat \ {0} : n = Len(ts)
  BY Starts
<1>2. k - 1 \in 0 .. n /\ k \in 1 .. n
  BY <1>1
<1>3. PICK S : S = Seq(Byte)
  OBVIOUS
<1>4. PICK p, r : p = Path(ts, st, k - 1) /\ r = Append(p, x)
  OBVIOUS
<1>5. /\ p \in Seq(S) /\ Len(p) = k - 1 /\ \A i \in 1 .. k - 1 : p[i] = Level(ts, st, i)
  BY <1>1, <1>2, <1>3, <1>4, PathLevels
<1>6. r \in Seq(S) /\ Len(r) = k /\ r[k] = x /\ \A i \in 1 .. k - 1 : r[i] = Level(ts, st, i)
  BY <1>2, <1>3, <1>4, <1>5
<1>7. ls \in Seq(S)
  BY <1>3 DEF Levels
<1>8. ASSUME Ending(ts, st, ls, k, x) PROVE ls = r
  <2>1. Len(ls) = k /\ ls[k] = x /\ \A i \in 1 .. k - 1 : ls[i] = Level(ts, st, i)
    BY <1>8 DEF Ending, Along
  <2>2. \A i \in 1 .. k : i = k \/ i \in 1 .. k - 1
    BY <1>2
  <2>3. \A i \in 1 .. k : ls[i] = r[i]
    BY <1>6, <2>1, <2>2
  <2> QED BY <1>6, <1>7, <2>1, <2>3, SeqEqual
<1>9. ASSUME ls = r PROVE Ending(ts, st, ls, k, x)
  BY <1>6, <1>9 DEF Ending, Along
<1> QED BY <1>4, <1>8, <1>9

(* The levels of a filter that goes on behind the path.                    *)
LEMMA ThroughIs ==
  ASSUME NEW ts \in Levels(Byte), NEW st, NEW k \in 1 .. Len(ts), NEW x \in Seq(Byte),
         NEW ls \in Levels(Byte), Through(ts, st, ls, k, x)
  PROVE  k <= Len(ls) /\ SubSeq(ls, 1, k) = Append(Path(ts, st, k - 1), x)
<1>1. PICK n \in Nat \ {0}, m \in Nat \ {0} : n = Len(ts) /\ m = Len(ls)
  BY Starts
<1>2. k <= m /\ Along(ts, st, ls, k - 1) /\ ls[k] = x
  BY <1>1 DEF Through
<1>3. PICK q : q = SubSeq(ls, 1, k)
  OBVIOUS
<1>4. k \in 0 .. m /\ k \in 1 .. k /\ \A i \in 1 .. k - 1 : i \in 1 .. k
  BY <1>1, <1>2
<1>5. q \in Seq(Seq(Byte)) /\ Len(q) = k /\ \A i \in 1 .. k : q[i] = ls[i]
  BY <1>1, <1>3, <1>4, FirstLevels DEF Levels
<1>6. q \in Levels(Byte)
  <2>1. q # <<>>
    BY <1>1, <1>5, EmptySeq
  <2> QED BY <1>5, <2>1 DEF Levels
<1>7. Ending(ts, st, q, k, x)
  BY <1>2, <1>4, <1>5 DEF Ending, Along
<1>8. q = Append(Path(ts, st, k - 1), x)
  BY <1>6, <1>7, EndIs
<1> QED BY <1>1, <1>2, <1>3, <1>8

(* The path with a level of the name behind it is a variant.               *)
LEMMA PathVariant ==
  ASSUME NEW ts \in Levels(Byte), NEW st, NEW k \in 1 .. Len(ts)
  PROVE  Append(Path(ts, st, k - 1), ts[k]) \in Variants(ts)
<1>1. PICK n \in Nat \ {0} : n = Len(ts)
  BY Starts
<1>2. DOMAIN ts = 1 .. n /\ \A i \in 1 .. n : ts[i] \in Seq(Byte)
  <2>1. ts \in Seq(Seq(Byte))
    BY Starts
  <2> QED BY <1>1, <2>1, LenProperties
<1>3. PICK R : R = {i \in 1 .. k - 1 : st[i].next # "unplus"} \cup {k}
  OBVIOUS
<1>4. R \in SUBSET (1 .. n) /\ R # {} /\ k \in R /\ k \in 1 .. n
  BY <1>1, <1>3
<1>5. Max(R) = k
  <2>1. R \subseteq Nat /\ \A r \in R : r <= n
    BY <1>4
  <2>2. Max(R) \in R /\ \A r \in R : r <= Max(R)
    BY <1>4, <2>1, MaxIsGreatest
  <2>3. \A r \in R : r <= k
    BY <1>3
  <2>4. PICK m \in Nat : m = Max(R) /\ m \in R /\ k <= m
    BY <1>4, <2>1, <2>2
  <2>5. m <= k
    BY <2>3, <2>4
  <2> QED BY <2>4, <2>5
<1>6. PICK v : v = [i \in 1 .. k |-> IF i \in R THEN ts[i] ELSE Plus]
  OBVIOUS
<1>7. v \in Variants(ts)
  <2>1. v = [i \in 1 .. Max(R) |-> IF i \in R THEN ts[i] ELSE <<PlusByte>>]
    BY <1>5, <1>6 DEF Plus
  <2>2. R \in (SUBSET DOMAIN ts) \ {{}}
    BY <1>2, <1>4
  <2> QED BY <2>1, <2>2, Zenon DEF Variants
<1>8. v \in Levels(Byte)
  BY <1>7, VariantLevels
<1>9. Ending(ts, st, v, k, ts[k])
  <2>1. Len(v) = k
    BY <1>1, <1>6
  <2>2. v[k] = ts[k]
    BY <1>1, <1>3, <1>6
  <2>3. \A i \in 1 .. k - 1 : v[i] = Level(ts, st, i)
    <3> TAKE i \in 1 .. k - 1
    <3>1. i \in 1 .. k /\ i # k
      BY <1>1
    <3>2. v[i] = IF i \in R THEN ts[i] ELSE Plus
      BY <1>6, <3>1
    <3>3. i \in R <=> st[i].next # "unplus"
      BY <1>3, <3>1
    <3> QED BY <3>2, <3>3 DEF Level
  <2> QED BY <2>1, <2>2, <2>3 DEF Ending, Along
<1>10. ts[k] \in Seq(Byte)
  BY <1>2, <1>4
<1>11. v = Append(Path(ts, st, k - 1), ts[k])
  BY <1>8, <1>9, <1>10, EndIs
<1> QED BY <1>7, <1>11

-----------------------------------------------------------------------------
(* What holds of the walk of a regular name                                *)

(* A separator behind this filter has been left.                           *)
Trace(ts, st, j) == \E v \in Variants(ts) : Len(Joined(v)) = j /\ Seen(ts, st, v)

Placed ==
  \A i \in 1 .. Len(stack) :
    /\ stack[i].token = i
    /\ stack[i].len = Len(Place(Path(tokens, stack, i - 1)))
    /\ stack[i].len <= Start(tokens, i)

(* In front of the innermost call are the levels that calls are at.        *)
FrontIsPath ==
  stack # <<>> =>
    \A j \in 0 .. frame.len - 1 : buf[j] = Place(Path(tokens, stack, Len(stack) - 1))[j + 1]

(* Behind what it has written are traces, but for the separator behind +.  *)
RestIsTraces ==
  stack # <<>> =>
    \A j \in 0 .. Len(name) :
      /\ frame.len + Width(frame) <= j
      /\ ~ (frame.next = "unplus" /\ j = frame.len + 1)
      => buf[j] = NUL \/ Trace(tokens, stack, j)

(* The place of a wildcard has been cleared, and what comes behind it.     *)
Cleared ==
  stack # <<>> =>
    /\ frame.next \in {"plus", "hash"} => buf[frame.len + 1] = NUL
    /\ frame.next = "plus" /\ Len(stack) < Len(tokens) => buf[frame.len + 2] = NUL

PathFound == \A m \in 1 .. Len(stack) - 1 : Joined(Path(tokens, stack, m)) \in table

Finds(ts, st, f) == f \in table /\ Gated(f) /\ Seen(ts, st, Tokens(f))
Found == \A f : f \in Range(visited) <=> Finds(tokens, stack, f)

InOrder ==
  Len(tokens) = 1 =>
    \A i, j \in DOMAIN visited : i < j => visited[j] # name /\ visited[i] # Hash

RegularInv ==
  /\ ~ overrun
  /\ Placed /\ FrontIsPath /\ RestIsTraces /\ Cleared /\ PathFound
  /\ Found /\ IsInjective(visited) /\ InOrder

FoundInv ==
  /\ WalkInv
  /\ tokens = Tokens(name) /\ table \subseteq Text
  /\ Regular(name) => RegularInv

-----------------------------------------------------------------------------
(* The innermost call                                                      *)

LEMMA Here ==
  ASSUME FoundInv, Regular(name), stack # <<>>, NEW k, k = Len(stack)
  PROVE  /\ tokens \in Levels(Byte) /\ Plain(tokens) /\ Unmarked(tokens)
         /\ Len(tokens) \in Nat \ {0} /\ Len(name) \in Nat /\ tokens = Tokens(name)
         /\ k \in 1 .. Len(tokens) /\ frame = stack[k] /\ frame.token = k /\ frame.next \in Steps
         /\ token = tokens[k] /\ token \in Seq(Byte) /\ NoSep(token)
         /\ Path(tokens, stack, k - 1) \in Seq(Seq(Byte))
         /\ Len(Path(tokens, stack, k - 1)) = k - 1
         /\ frame.len = Len(Place(Path(tokens, stack, k - 1))) /\ frame.len \in Nat
         /\ frame.len <= Start(tokens, k) /\ Start(tokens, k) \in Nat
         /\ Len(token) \in Nat /\ Len(token) >= 2 /\ (k < Len(tokens) => Len(token) >= 3)
         /\ frame.len + Len(token) <= Len(name)
         /\ k < Len(tokens) => frame.len + Len(token) + 2 <= Len(name)
         /\ DOMAIN buf = 0 .. Len(name)
         /\ \A i \in 1 .. k - 1 : stack[i].next \in {"clear", "unplus"}
<1>1. PICK ts : ts = tokens
  OBVIOUS
<1>2. /\ WalkInv /\ name \in Text /\ ts = Tokens(name) /\ RegularInv /\ Placed
      /\ DOMAIN buf = 0 .. Len(name)
  BY <1>1 DEF FoundInv, WalkInv, Calls, RegularInv
<1>3. /\ ts \in Levels(Byte) /\ Plain(ts) /\ Unmarked(ts)
      /\ \A i \in 1 .. Len(ts) : Len(ts[i]) >= 2 /\ (i < Len(ts) => Len(ts[i]) >= 3)
      /\ \A i \in 1 .. Len(ts) :
           /\ Start(ts, i) + Len(ts[i]) <= Len(name)
           /\ i < Len(ts) => Start(ts, i) + Len(ts[i]) + 2 <= Len(name)
  BY <1>2, RegularName
<1>4. PICK n \in Nat \ {0} : n = Len(ts)
  BY <1>3, Starts
<1>5. /\ stack \in Seq(Frame) /\ k \in Nat /\ k >= 1 /\ Len(name) \in Nat
      /\ frame = stack[k] /\ frame \in Frame
      /\ \A i \in 1 .. k - 1 : stack[i].next \in {"clear", "unplus"}
  <2>1. PICK L : L = frame.len
    OBVIOUS
  <2> QED BY <1>2, <2>1, CallFacts
<1>6. PICK L : L = frame.len
  OBVIOUS
<1>7. /\ frame.token = k /\ L = Len(Place(Path(ts, stack, k - 1))) /\ L <= Start(ts, k)
  BY <1>1, <1>2, <1>5, <1>6 DEF Placed
<1>8. k \in 1 .. n /\ frame.next \in Steps
  BY <1>1, <1>4, <1>5, <1>7 DEF Frame
<1>9. /\ ts[k] \in Seq(Byte) /\ Len(ts[k]) \in Nat /\ Start(ts, k) \in Nat /\ NoSep(ts[k])
  <2>1. k \in 1 .. n + 1
    BY <1>8
  <2>2. ts[k] \in Seq(Byte) /\ Len(ts[k]) \in Nat /\ Start(ts, k) \in Nat
    BY <1>3, <1>4, <1>8, <2>1, Starts
  <2> QED BY <1>3, <1>4, <1>8, <2>2 DEF Plain
<1>10. k - 1 \in 0 .. n
  BY <1>8
<1>11. /\ Path(ts, stack, k - 1) \in Seq(Seq(Byte)) /\ Len(Path(ts, stack, k - 1)) = k - 1
  BY <1>3, <1>4, <1>10, PathLevels
<1>12. L \in Nat
  <2>1. PICK p \in Seq(Seq(Byte)), l \in Seq(Byte) : p = Path(ts, stack, k - 1) /\ l = ts[k]
    BY <1>9, <1>11
  <2>2. Len(Place(p)) \in Nat
    BY Bytes, PlaceGrows
  <2> QED BY <1>7, <2>1, <2>2
<1>13. PICK a \in Nat, l \in Nat, N \in Nat : a = Start(ts, k) /\ l = Len(ts[k]) /\ N = Len(name)
  BY <1>5, <1>9
<1>14. /\ a + l <= N /\ (k < n => a + l + 2 <= N) /\ l >= 2 /\ (k < n => l >= 3)
  BY <1>3, <1>4, <1>8, <1>13
<1>15. L + l <= N /\ (k < n => L + l + 2 <= N)
  <2>1. L <= a
    BY <1>7, <1>13
  <2> QED BY <1>4, <1>12, <1>14, <2>1
<1>16. token = ts[k]
  BY <1>1, <1>7 DEF token
<1> QED BY <1>1, <1>2, <1>3, <1>4, <1>5, <1>6, <1>7, <1>8, <1>9, <1>11, <1>12, <1>13, <1>14, <1>15, <1>16

-----------------------------------------------------------------------------
(* The stack behind a step                                                 *)

LEMMA ThenShape ==
  ASSUME WalkInv, stack # <<>>, NEW k, k = Len(stack), NEW step \in Steps
  PROVE  /\ Then(step) \in Seq(Frame) /\ Len(Then(step)) = k /\ Then(step) # <<>>
         /\ \A i \in 1 .. k - 1 : Then(step)[i] = stack[i]
         /\ Then(step)[k].next = step /\ Then(step)[k].len = frame.len
         /\ Then(step)[k].token = frame.token
<1>1. PICK L : L = frame.len
  OBVIOUS
<1>2. /\ stack \in Seq(Frame) /\ k \in Nat /\ k >= 1 /\ frame = stack[k] /\ frame \in Frame
  BY <1>1, CallFacts
<1> DEFINE f == [frame EXCEPT !.next = step]
<1>3. f \in Frame /\ f.len = frame.len /\ f.next = step /\ f.token = frame.token
  BY <1>1, <1>2 DEF Frame
<1>4. Then(step) = [stack EXCEPT ![k] = f] /\ k \in 1 .. k
  BY <1>1, <1>2 DEF Then
<1> HIDE DEF f
<1>5. /\ Then(step) \in Seq(Frame) /\ Len(Then(step)) = k
      /\ \A i \in 1 .. k : Then(step)[i] = IF i = k THEN f ELSE stack[i]
  BY <1>2, <1>3, <1>4, ExceptSeq
<1>6. Then(step)[k] = f /\ \A i \in 1 .. k - 1 : Then(step)[i] = stack[i]
  BY <1>2, <1>5
<1>7. Then(step) # <<>>
  BY <1>2, <1>5, EmptySeq
<1> QED BY <1>3, <1>5, <1>6, <1>7

Calling(k, step, m, L, st) ==
  /\ Len(st) = k + 1 /\ st # <<>>
  /\ st[k + 1].token = m /\ st[k + 1].len = L /\ st[k + 1].next = "token"
  /\ \A i \in 1 .. k - 1 : st[i] = stack[i]
  /\ st[k].next = step /\ st[k].len = frame.len /\ st[k].token = frame.token

LEMMA CallShape ==
  ASSUME WalkInv, stack # <<>>, NEW k, k = Len(stack), NEW step \in Steps,
         NEW m \in Nat, NEW L \in Nat, NEW st, st = Append(Then(step), Call(m, L))
  PROVE  Calling(k, step, m, L, st)
<1>1. /\ Then(step) \in Seq(Frame) /\ Len(Then(step)) = k /\ k \in Nat /\ k >= 1
      /\ \A i \in 1 .. k - 1 : Then(step)[i] = stack[i]
      /\ Then(step)[k].next = step /\ Then(step)[k].len = frame.len
      /\ Then(step)[k].token = frame.token
  <2>1. PICK n : n = frame.len
    OBVIOUS
  <2>2. k \in Nat /\ k >= 1
    BY <2>1, CallFacts
  <2> QED BY <2>2, ThenShape
<1>2. PICK c : c = Call(m, L)
  OBVIOUS
<1>3. PICK S : S = Frame \cup {c}
  OBVIOUS
<1>4. Then(step) \in Seq(S) /\ c \in S
  <2>1. Frame \subseteq S /\ c \in S
    BY <1>3
  <2> QED BY <1>1, <2>1, SeqMonotonic
<1>5. /\ Len(st) = k + 1 /\ st # <<>> /\ st[k + 1] = c
      /\ \A i \in 1 .. k : st[i] = Then(step)[i]
  BY <1>1, <1>2, <1>4, AppendProperties
<1>6. k \in 1 .. k /\ \A i \in 1 .. k - 1 : i \in 1 .. k
  BY <1>1
<1>7. st[k + 1].token = m /\ st[k + 1].len = L /\ st[k + 1].next = "token"
  BY <1>2, <1>5 DEF Call
<1> QED BY <1>1, <1>5, <1>6, <1>7 DEF Calling

LEMMA ReturnShape ==
  ASSUME WalkInv, stack # <<>>, NEW k, k = Len(stack), NEW st, st = Front(stack)
  PROVE  /\ st \in Seq(Frame) /\ Len(st) = k - 1
         /\ k = 1 => st = <<>>
         /\ k > 1 => st # <<>>
         /\ \A i \in 1 .. k - 1 : st[i] = stack[i]
<1>1. PICK L : L = frame.len
  OBVIOUS
<1>2. /\ stack \in Seq(Frame) /\ k \in Nat /\ k >= 1
      /\ \A i \in 1 .. k : stack[i] \in Frame
  BY <1>1, CallFacts
<1>3. st = SubSeq(stack, 1, k - 1)
  BY DEF Front
<1>4. k - 1 \in 0 .. Len(stack)
  BY <1>2
<1>5. st \in Seq(Frame) /\ Len(st) = k - 1 /\ \A i \in 1 .. k - 1 : st[i] = stack[i]
  BY <1>2, <1>3, <1>4, FirstLevels
<1>6. k = 1 => st = <<>>
  BY <1>5, EmptySeq
<1>7. k > 1 => st # <<>>
  BY <1>2, <1>5, EmptySeq
<1> QED BY <1>5, <1>6, <1>7

(* A step leaves the outer calls as they are.                              *)
LEMMA PlacedKept ==
  ASSUME FoundInv, Regular(name), stack # <<>>, UNCHANGED <<name, tokens, table>>,
         NEW k, k = Len(stack), NEW n \in 0 .. k,
         \A i \in 1 .. n : stack'[i].token = stack[i].token /\ stack'[i].len = stack[i].len,
         \A i \in 1 .. n - 1 : stack'[i].next = stack[i].next
  PROVE  /\ \A m \in 0 .. n - 1 : Path(tokens', stack', m) = Path(tokens, stack, m)
         /\ \A i \in 1 .. n : /\ stack'[i].token = i
                              /\ stack'[i].len = Len(Place(Path(tokens', stack', i - 1)))
                              /\ stack'[i].len <= Start(tokens', i)
         /\ \A m \in 1 .. n - 1 : Joined(Path(tokens', stack', m)) \in table'
<1>1. k \in Nat /\ Placed /\ PathFound
  BY Here DEF FoundInv, RegularInv
<1>2. PICK ts, st : ts = tokens /\ st = stack'
  OBVIOUS
<1>3. \A m \in 0 .. n - 1 : Path(ts, st, m) = Path(ts, stack, m)
  <2>1. CASE n = 0
    <3>1. 0 .. n - 1 = {}
      BY <2>1
    <3> QED BY <3>1
  <2>2. CASE n # 0
    <3>1. n - 1 \in Nat
      BY <1>1, <2>2
    <3> QED BY <1>2, <3>1, PathSame
  <2> QED BY <2>1, <2>2
<1>4. ASSUME NEW i \in 1 .. n
      PROVE  /\ st[i].token = i /\ st[i].len = Len(Place(Path(ts, st, i - 1)))
             /\ st[i].len <= Start(ts, i)
  <2>1. i \in 1 .. k /\ i - 1 \in 0 .. n - 1
    BY <1>1
  <2> QED BY <1>1, <1>2, <1>3, <2>1 DEF Placed
<1>5. ASSUME NEW m \in 1 .. n - 1 PROVE Joined(Path(ts, st, m)) \in table
  <2>1. m \in 1 .. k - 1 /\ m \in 0 .. n - 1
    BY <1>1
  <2> QED BY <1>1, <1>2, <1>3, <2>1 DEF PathFound
<1>6. tokens' = ts /\ stack' = st /\ table' = table
  BY <1>2
<1> QED BY <1>2, <1>3, <1>4, <1>5, <1>6

LEMMA StayKeepsPath ==
  ASSUME FoundInv, Regular(name), stack # <<>>, UNCHANGED <<name, tokens, table>>,
         NEW step \in Steps, stack' = Then(step),
         \A j \in 0 .. Len(name) : j < frame.len => buf'[j] = buf[j]
  PROVE  Placed' /\ FrontIsPath' /\ PathFound'
<1>1. PICK k : k = Len(stack)
  OBVIOUS
<1>2. /\ k \in 1 .. Len(tokens) /\ Len(tokens) \in Nat /\ frame = stack[k]
      /\ frame.len \in Nat /\ frame.len <= Len(name) /\ Len(name) \in Nat /\ WalkInv
  <2>1. /\ k \in 1 .. Len(tokens) /\ Len(tokens) \in Nat /\ frame = stack[k]
        /\ frame.len \in Nat /\ Len(name) \in Nat /\ Len(token) \in Nat
        /\ frame.len + Len(token) <= Len(name)
    BY <1>1, Here
  <2>2. frame.len <= Len(name)
    BY <2>1
  <2> QED BY <2>1, <2>2 DEF FoundInv
<1>3. /\ Len(stack') = k /\ stack' # <<>>
      /\ \A i \in 1 .. k - 1 : stack'[i] = stack[i]
      /\ stack'[k].len = frame.len /\ stack'[k].token = frame.token
  BY <1>1, <1>2, ThenShape
<1>4. k \in 0 .. k /\ k \in Nat /\ k - 1 \in 0 .. k - 1
  BY <1>2
<1>5. /\ \A i \in 1 .. k : stack'[i].token = stack[i].token /\ stack'[i].len = stack[i].len
      /\ \A i \in 1 .. k - 1 : stack'[i].next = stack[i].next
  <2>1. \A i \in 1 .. k : i = k \/ i \in 1 .. k - 1
    BY <1>4
  <2> QED BY <1>2, <1>3, <2>1
<1>6. /\ \A m \in 0 .. k - 1 : Path(tokens', stack', m) = Path(tokens, stack, m)
      /\ \A i \in 1 .. k : /\ stack'[i].token = i
                           /\ stack'[i].len = Len(Place(Path(tokens', stack', i - 1)))
                           /\ stack'[i].len <= Start(tokens', i)
      /\ \A m \in 1 .. k - 1 : Joined(Path(tokens', stack', m)) \in table'
  BY <1>1, <1>4, <1>5, PlacedKept
<1>7. frame'.len = frame.len
  BY <1>3 DEF frame, Last
<1>8. \A j \in 0 .. frame.len - 1 : buf'[j] = Place(Path(tokens, stack, k - 1))[j + 1]
  <2> TAKE j \in 0 .. frame.len - 1
  <2>1. j \in 0 .. Len(name) /\ j < frame.len
    BY <1>2
  <2> QED BY <1>1, <2>1 DEF FoundInv, RegularInv, FrontIsPath
<1>9. FrontIsPath'
  BY <1>3, <1>4, <1>6, <1>7, <1>8 DEF FrontIsPath
<1> QED BY <1>3, <1>6, <1>9 DEF Placed, PathFound

(***************************************************************************)
(* A call behind the level s, which is the token or +, and w the filter    *)
(* that ends in it.                                                        *)
(***************************************************************************)
LEMMA CallKeepsPath ==
  ASSUME FoundInv, Regular(name), stack # <<>>, UNCHANGED <<name, tokens, table>>,
         NEW k, k = Len(stack), k < Len(tokens),
         NEW step \in Steps, NEW s, s = Level(tokens, Then(step), k),
         NEW w, w = Append(Path(tokens, stack, k - 1), s),
         stack' = Append(Then(step), Call(k + 1, Len(Place(w)))),
         Joined(w) \in table,
         \A j \in 0 .. Len(Place(w)) - 1 : buf'[j] = Place(w)[j + 1]
  PROVE  /\ Placed' /\ FrontIsPath' /\ PathFound'
         /\ Path(tokens', stack', k) = w
<1>1. /\ k \in 1 .. Len(tokens) /\ Len(tokens) \in Nat /\ frame = stack[k] /\ frame.token = k
      /\ tokens \in Levels(Byte) /\ token = tokens[k] /\ token \in Seq(Byte)
      /\ Path(tokens, stack, k - 1) \in Seq(Seq(Byte))
      /\ frame.len = Len(Place(Path(tokens, stack, k - 1)))
      /\ frame.len \in Nat /\ Start(tokens, k) \in Nat /\ frame.len <= Start(tokens, k)
      /\ Len(token) \in Nat /\ Len(token) >= 2
  BY Here
<1>2. WalkInv /\ k \in Nat /\ k >= 1 /\ k - 1 \in 0 .. k - 1 /\ (k + 1) - 1 = k
      /\ k + 1 \in 1 .. k + 1 /\ k \in 0 .. k /\ k \in 0 .. Len(tokens)
  BY <1>1 DEF FoundInv
<1>3. PICK p, L : p = Path(tokens, stack, k - 1) /\ L = Len(Place(w))
  OBVIOUS
<1>4. s \in {token, Plus}
  BY <1>1 DEF Level
<1>5. s \in Seq(Byte) /\ Len(s) \in Nat /\ Len(s) <= Len(token)
  <2>1. Plus \in Seq(Byte) /\ Len(Plus) = 1
    BY Bytes
  <2>2. CASE s = token
    BY <1>1, <2>2
  <2>3. CASE s = Plus
    <3>1. \A d \in Nat : d >= 2 => 1 <= d /\ 1 \in Nat
      OBVIOUS
    <3> QED BY <1>1, <2>1, <2>3, <3>1
  <2> QED BY <1>4, <2>2, <2>3
<1>6. Len(Place(w)) = frame.len + Len(s) + 1 /\ L \in Nat
  <2>1. PICK q \in Seq(Seq(Byte)), l \in Seq(Byte) : q = p /\ l = s
    BY <1>1, <1>3, <1>5
  <2>2. Sep \in Byte /\ w = Append(q, l)
    BY <1>3, <2>1, Bytes
  <2>3. Len(Place(Append(q, l))) = Len(Place(q)) + Len(l) + 1
    BY <2>2, PlaceGrows
  <2>4. Len(Place(q)) = frame.len
    BY <1>1, <1>3, <2>1
  <2>5. Len(Place(w)) = frame.len + Len(s) + 1
    BY <2>1, <2>2, <2>3, <2>4
  <2> QED BY <1>1, <1>3, <1>5, <2>5
<1>7. /\ Len(stack') = k + 1 /\ stack' # <<>>
      /\ stack'[k + 1].token = k + 1 /\ stack'[k + 1].len = L
      /\ \A i \in 1 .. k - 1 : stack'[i] = stack[i]
      /\ stack'[k].next = step /\ stack'[k].len = frame.len /\ stack'[k].token = frame.token
  <2>1. PICK st : st = stack'
    OBVIOUS
  <2>2. PICK m \in Nat : m = k + 1
    BY <1>2
  <2>3. st = Append(Then(step), Call(m, L))
    BY <1>3, <2>1, <2>2
  <2>4. /\ Len(st) = k + 1 /\ st # <<>>
        /\ st[k + 1].token = m /\ st[k + 1].len = L
        /\ \A i \in 1 .. k - 1 : st[i] = stack[i]
        /\ st[k].next = step /\ st[k].len = frame.len /\ st[k].token = frame.token
    <3>1. Calling(k, step, m, L, st)
      BY <1>2, <1>6, <2>3, CallShape
    <3> QED BY <3>1 DEF Calling
  <2> QED BY <2>1, <2>2, <2>4
<1>8. /\ \A i \in 1 .. k : stack'[i].token = stack[i].token /\ stack'[i].len = stack[i].len
      /\ \A i \in 1 .. k - 1 : stack'[i].next = stack[i].next
  <2>1. \A i \in 1 .. k : i = k \/ i \in 1 .. k - 1
    BY <1>2
  <2> QED BY <1>1, <1>7, <2>1
<1>9. /\ \A m \in 0 .. k - 1 : Path(tokens', stack', m) = Path(tokens, stack, m)
      /\ \A i \in 1 .. k : /\ stack'[i].token = i
                           /\ stack'[i].len = Len(Place(Path(tokens', stack', i - 1)))
                           /\ stack'[i].len <= Start(tokens', i)
      /\ \A m \in 1 .. k - 1 : Joined(Path(tokens', stack', m)) \in table'
  BY <1>2, <1>8, PlacedKept
<1>10. Level(tokens', stack', k) = s
  <2>1. Then(step)[k].next = step
    BY <1>2, ThenShape
  <2> QED BY <1>7, <2>1 DEF Level
<1>11. Path(tokens', stack', k) = w
  <2>1. PICK ts, st : ts = tokens' /\ st = stack'
    OBVIOUS
  <2>2. ts \in Levels(Byte) /\ k \in 1 .. Len(ts)
    BY <1>1, <2>1
  <2>3. Path(ts, st, k) = Append(Path(ts, st, k - 1), Level(ts, st, k))
    BY <2>2, PathGrows
  <2> QED BY <1>2, <1>9, <1>10, <2>1, <2>3
<1>12. Len(Place(w)) <= Start(tokens, k + 1)
  <2>1. Start(tokens, k + 1) = Start(tokens, k) + Len(tokens[k]) + 1
    BY <1>1, Starts
  <2>2. PICK a \in Nat, l \in Nat, c \in Nat, d \in Nat :
          a = Start(tokens, k) /\ l = Len(token) /\ c = frame.len /\ d = Len(s)
    BY <1>1, <1>5
  <2>3. c <= a /\ d <= l
    BY <1>1, <1>5, <2>2
  <2>4. c + d + 1 <= a + l + 1
    BY <2>3
  <2> QED BY <1>1, <1>6, <2>1, <2>2, <2>4
<1>13. /\ stack'[k + 1].token = k + 1 /\ stack'[k + 1].len = Len(Place(w))
  BY <1>3, <1>7
<1>14. Placed'
  <2>1. ASSUME NEW i \in 1 .. k + 1
        PROVE  /\ stack'[i].token = i
               /\ stack'[i].len = Len(Place(Path(tokens', stack', i - 1)))
               /\ stack'[i].len <= Start(tokens', i)
    <3>1. CASE i \in 1 .. k
      BY <1>9, <3>1
    <3>2. CASE i = k + 1
      <4>1. i - 1 = k
        BY <1>2, <3>2
      <4>2. Path(tokens', stack', i - 1) = w
        BY <1>11, <4>1
      <4> QED BY <1>12, <1>13, <3>2, <4>2
    <3>3. i \in 1 .. k \/ i = k + 1
      BY <1>2
    <3> QED BY <3>1, <3>2, <3>3
  <2> QED BY <1>7, <2>1 DEF Placed
<1>15. FrontIsPath'
  <2>1. frame' = stack'[k + 1] /\ Len(stack') - 1 = k
    BY <1>2, <1>7 DEF frame, Last
  <2>2. frame'.len = Len(Place(w)) /\ Path(tokens', stack', Len(stack') - 1) = w
    BY <1>11, <1>13, <2>1
  <2> QED BY <2>2, Zenon DEF FrontIsPath
<1>16. PathFound'
  <2>1. ASSUME NEW m \in 1 .. k PROVE Joined(Path(tokens', stack', m)) \in table'
    <3>1. m = k \/ m \in 1 .. k - 1
      BY <1>2
    <3> QED BY <1>9, <1>11, <3>1
  <2> QED BY <1>2, <1>7, <2>1 DEF PathFound
<1> QED BY <1>11, <1>14, <1>15, <1>16

(* A return.                                                               *)
LEMMA ReturnKeepsPath ==
  ASSUME FoundInv, Regular(name), stack # <<>>, UNCHANGED <<name, tokens, table>>,
         stack' = Front(stack),
         \A j \in 0 .. Len(name) : j < frame.len => buf'[j] = buf[j]
  PROVE  /\ Placed' /\ FrontIsPath' /\ PathFound'
         /\ stack' # <<>> =>
              /\ Len(stack) - 1 \in 1 .. Len(tokens) /\ Len(stack) > 1
              /\ frame' = stack[Len(stack) - 1]
              /\ frame'.token = Len(stack) - 1
              /\ frame'.next \in {"clear", "unplus"}
              /\ frame.len = frame'.len
                   + (IF frame'.next = "unplus" THEN 1 ELSE Len(tokens[Len(stack) - 1])) + 1
<1>1. PICK k : k = Len(stack)
  OBVIOUS
<1>2. /\ k \in 1 .. Len(tokens) /\ Len(tokens) \in Nat /\ frame = stack[k]
      /\ tokens \in Levels(Byte)
      /\ frame.len = Len(Place(Path(tokens, stack, k - 1)))
      /\ frame.len \in Nat /\ Len(name) \in Nat /\ frame.len <= Len(name)
      /\ \A i \in 1 .. k - 1 : stack[i].next \in {"clear", "unplus"}
      /\ WalkInv /\ FrontIsPath /\ Placed
  <2>1. /\ k \in 1 .. Len(tokens) /\ Len(tokens) \in Nat /\ frame = stack[k]
        /\ frame.len \in Nat /\ Len(name) \in Nat /\ Len(token) \in Nat
        /\ frame.len + Len(token) <= Len(name)
        /\ tokens \in Levels(Byte)
        /\ frame.len = Len(Place(Path(tokens, stack, k - 1)))
        /\ \A i \in 1 .. k - 1 : stack[i].next \in {"clear", "unplus"}
    BY <1>1, Here
  <2>2. frame.len <= Len(name)
    BY <2>1
  <2> QED BY <2>1, <2>2 DEF FoundInv, RegularInv
<1>3. k \in Nat /\ k >= 1 /\ k - 1 \in 0 .. k /\ k - 1 \in 0 .. Len(tokens)
  BY <1>2
<1>4. /\ Len(stack') = k - 1 /\ (k = 1 => stack' = <<>>) /\ (k > 1 => stack' # <<>>)
      /\ \A i \in 1 .. k - 1 : stack'[i] = stack[i]
  <2>1. PICK st : st = stack'
    OBVIOUS
  <2>2. WalkInv
    BY DEF FoundInv
  <2>3. st = Front(stack)
    BY <2>1
  <2>4. /\ Len(st) = k - 1 /\ (k = 1 => st = <<>>) /\ (k > 1 => st # <<>>)
        /\ \A i \in 1 .. k - 1 : st[i] = stack[i]
    BY <1>1, <2>3, <2>2, ReturnShape
  <2> QED BY <2>1, <2>4
<1>5. /\ \A i \in 1 .. k - 1 : stack'[i].token = stack[i].token /\ stack'[i].len = stack[i].len
      /\ \A i \in 1 .. (k - 1) - 1 : stack'[i].next = stack[i].next
  BY <1>3, <1>4
<1>6. /\ \A m \in 0 .. (k - 1) - 1 : Path(tokens', stack', m) = Path(tokens, stack, m)
      /\ \A i \in 1 .. k - 1 : /\ stack'[i].token = i
                               /\ stack'[i].len = Len(Place(Path(tokens', stack', i - 1)))
                               /\ stack'[i].len <= Start(tokens', i)
      /\ \A m \in 1 .. (k - 1) - 1 : Joined(Path(tokens', stack', m)) \in table'
  BY <1>1, <1>3, <1>5, PlacedKept
<1>7. Placed' /\ PathFound'
  BY <1>4, <1>6 DEF Placed, PathFound
<1>8. CASE k = 1
  BY <1>4, <1>7, <1>8 DEF FrontIsPath
<1>9. CASE k > 1
  <2>1. PICK i \in 1 .. Len(tokens) : i = k - 1 /\ k = i + 1 /\ i - 1 \in 0 .. (k - 1) - 1
          /\ i - 1 \in 0 .. Len(tokens)
    BY <1>2, <1>9
  <2>2. /\ frame' = stack[i] /\ i \in 1 .. k - 1 /\ i \in 1 .. k
    BY <1>3, <1>4, <2>1 DEF frame, Last
  <2>3. frame'.next \in {"clear", "unplus"} /\ frame'.token = i
        /\ frame'.len = Len(Place(Path(tokens, stack, i - 1)))
    BY <1>1, <1>2, <2>2 DEF Placed
  <2>4. PICK q, l, y : /\ q = Path(tokens, stack, i - 1) /\ l = Level(tokens, stack, i)
                       /\ y = Path(tokens, stack, i)
    OBVIOUS
  <2>5. y = Append(q, l)
    BY <1>2, <2>4, PathGrows
  <2>6. q \in Seq(Seq(Byte))
    BY <1>2, <2>1, <2>4, PathLevels
  <2>7. tokens[i] \in Seq(Byte) /\ Len(tokens[i]) \in Nat /\ Plus \in Seq(Byte) /\ Len(Plus) = 1
    BY <1>2, Bytes, Starts
  <2>8. /\ l \in Seq(Byte)
        /\ Len(l) = IF frame'.next = "unplus" THEN 1 ELSE Len(tokens[i])
    BY <2>2, <2>4, <2>7 DEF Level
  <2>9. /\ Place(q) \in Seq(Byte) /\ Place(q) \o l \in Seq(Byte)
        /\ Place(y) = (Place(q) \o l) \o <<Sep>>
        /\ Len(Place(q)) \in Nat /\ Len(l) \in Nat
        /\ Len(Place(y)) = Len(Place(q)) + Len(l) + 1
    BY <2>5, <2>6, <2>8, Bytes, PlaceGrows, Zenon
  <2>10. frame.len = Len(Place(y))
    BY <1>2, <2>1, <2>4
  <2>11. frame.len = frame'.len + (IF frame'.next = "unplus" THEN 1 ELSE Len(tokens[i])) + 1
    BY <2>3, <2>4, <2>8, <2>9, <2>10
  <2>12. FrontIsPath'
    <3>1. ASSUME NEW j \in 0 .. frame'.len - 1 PROVE buf'[j] = Place(q)[j + 1]
      <4>1. PICK a \in Seq(Byte), d \in Seq(Byte) : a = Place(q) /\ d = l
        BY <2>8, <2>9
      <4>2. PICK c \in Seq(Byte) : c = a \o d /\ c = Place(q) \o l
        BY <2>9, <4>1
      <4>3. PICK A \in Nat, C \in Nat, D \in Nat : A = Len(a) /\ D = Len(d) /\ C = Len(c)
        OBVIOUS
      <4>4. C = A + D /\ \A i1 \in 1 .. A + D : c[i1] = IF i1 <= A THEN a[i1] ELSE d[i1 - A]
        <5>1. /\ Len(a \o d) = Len(a) + Len(d)
              /\ \A i1 \in 1 .. Len(a) + Len(d) :
                   (a \o d)[i1] = IF i1 <= Len(a) THEN a[i1] ELSE d[i1 - Len(a)]
          BY ConcatProperties
        <5> QED BY <4>2, <4>3, <5>1
      <4>5. j \in 0 .. A - 1 /\ j + 1 \in 1 .. A + D /\ j + 1 <= A
        <5>1. frame'.len = A
          BY <2>3, <2>4, <4>1, <4>3
        <5> QED BY <5>1
      <4>6. c[j + 1] = a[j + 1]
        BY <4>4, <4>5
      <4>7. (c \o <<Sep>>)[j + 1] = c[j + 1]
        <5>1. Sep \in Byte
          BY Bytes
        <5>2. j + 1 \in 1 .. Len(c)
          BY <4>3, <4>4, <4>5
        <5>3. c \o <<Sep>> = Append(c, Sep)
          BY <5>1, AppendIsConcat
        <5> QED BY <5>1, <5>2, <5>3, AppendProperties
      <4>8. j \in 0 .. frame.len - 1 /\ j \in 0 .. Len(name) /\ j < frame.len
        <5>1. frame.len = A + D + 1
          BY <2>4, <2>9, <2>10, <4>1, <4>2, <4>3
        <5> QED BY <1>2, <4>5, <5>1
      <4>9. buf'[j] = buf[j] /\ buf[j] = Place(y)[j + 1]
        <5>1. Len(stack) - 1 = i
          BY <1>1, <2>1
        <5> QED BY <1>2, <2>4, <4>8, <5>1 DEF FrontIsPath
      <4> QED BY <2>9, <4>1, <4>2, <4>6, <4>7, <4>9
    <3>2. Len(stack') - 1 = i - 1 /\ Path(tokens', stack', i - 1) = q
      BY <1>4, <1>6, <2>1, <2>4
    <3> QED BY <3>1, <3>2 DEF FrontIsPath
  <2> QED BY <1>1, <1>7, <1>9, <2>1, <2>2, <2>3, <2>11, <2>12
<1> QED BY <1>3, <1>8, <1>9

-----------------------------------------------------------------------------
(* The separators that are left                                            *)

LEMMA TraceGrows ==
  ASSUME NEW ts \in Levels(Byte), NEW st, NEW st2, NEW j, Trace(ts, st, j),
         \A ls \in Levels(Byte) : Fitting(ts, ls) /\ Seen(ts, st, ls) => Seen(ts, st2, ls)
  PROVE  Trace(ts, st2, j)
<1>1. PICK v \in Variants(ts) : Len(Joined(v)) = j /\ Seen(ts, st, v)
  BY DEF Trace
<1>2. v \in Levels(Byte) /\ Fitting(ts, v)
  BY VariantLevels
<1> QED BY <1>1, <1>2, Zenon DEF Trace

(* Nothing has been left behind the filter that a call begins with, nor a  *)
(* byte further.                                                           *)
LEMMA NoTrace ==
  ASSUME NEW s \in Text, Regular(s), NEW ts, ts = Tokens(s), NEW st, NEW k \in 1 .. Len(ts),
         st # <<>>, Len(st) = k, st[k].next = "token",
         NEW w, w = Append(Path(ts, st, k - 1), ts[k])
  PROVE  ~ Trace(ts, st, Len(Joined(w))) /\ ~ Trace(ts, st, Len(Joined(w)) + 1)
<1>1. ts \in Levels(Byte) /\ Unmarked(ts)
  BY RegularName
<1>2. Len(ts) \in Nat \ {0} /\ ts[k] \in Seq(Byte)
  BY <1>1, Starts
<1>3. w \in Variants(ts)
  BY <1>1, PathVariant
<1>4. w \in Levels(Byte) /\ Len(Joined(w)) \in Nat
  BY <1>1, <1>3, VariantLevels
<1>5. Ending(ts, st, w, k, ts[k])
  BY <1>1, <1>2, <1>4, EndIs
<1>6. ~ Seen(ts, st, w)
  BY <1>1, <1>2, <1>5, NextIsNotSeen
<1>7. ASSUME NEW v \in Variants(ts), Seen(ts, st, v),
             Len(Joined(v)) = Len(Joined(w)) \/ Len(Joined(v)) = Len(Joined(w)) + 1
      PROVE  FALSE
  <2>1. v # w
    BY <1>6, <1>7
  <2>2. Len(Joined(v)) - Len(Joined(w)) \notin -1 .. 1
    BY <1>3, <2>1 DEF Regular
  <2>3. PICK a \in Nat : a = Len(Joined(w))
    BY <1>4
  <2>4. a - a = 0 /\ (a + 1) - a = 1 /\ 0 \in -1 .. 1 /\ 1 \in -1 .. 1
    OBVIOUS
  <2>5. Len(Joined(v)) - a \notin -1 .. 1 /\ (Len(Joined(v)) = a \/ Len(Joined(v)) = a + 1)
    BY <1>7, <2>2, <2>3
  <2> QED BY <2>4, <2>5
<1> QED BY <1>7, Zenon DEF Trace

-----------------------------------------------------------------------------
(* A level that is written behind the path                                 *)

(* What the buffers hold when s has been written, and a separator.         *)
Written(s, w, b, c) ==
  /\ Fits(buf, frame.len, s) /\ Terminated(b) /\ Str(b) = Joined(w)
  /\ \A j \in 0 .. Len(name) : frame.len + Len(s) <= j => b[j] = buf[j]
  /\ \A j \in 0 .. Len(name) : j < frame.len => b[j] = buf[j] /\ c[j] = buf[j]
  /\ \A j \in 0 .. Len(name) : frame.len + Len(s) + 1 <= j => c[j] = buf[j]

Separated(w, c) ==
  /\ Terminated(c) /\ StrLen(c) = Len(Place(w))
  /\ \A j \in 0 .. Len(Place(w)) - 1 : c[j] = Place(w)[j + 1]

(* The levels in front of the innermost call.                              *)
InFront(p) ==
  /\ DOMAIN buf = 0 .. Len(name) /\ Len(name) \in Nat
  /\ frame.len = Len(Place(p)) /\ \A j \in 0 .. frame.len - 1 : buf[j] = Place(p)[j + 1]

LEMMA LevelWritten ==
  ASSUME NEW p \in Seq(Seq(Byte)), InFront(p),
         NEW s \in Seq(Byte), frame.len + Len(s) <= Len(name), buf[frame.len + Len(s)] = NUL,
         NEW w, w = Append(p, s),
         NEW b, b = Write(buf, frame.len, s),
         NEW c, c = Write(b, frame.len + Len(s), <<Sep>>)
  PROVE  /\ Written(s, w, b, c)
         /\ frame.len + Len(s) + 1 <= Len(name) /\ buf[frame.len + Len(s) + 1] = NUL
            => Separated(w, c)
<1>1. PICK x \in Seq(Byte) : x = Place(p) /\ Len(x) = frame.len
  BY Bytes, PlaceGrows DEF InFront
<1>2. PICK N \in Nat, L \in Nat, d \in Nat : N = Len(name) /\ L = Len(x) /\ d = Len(s)
  BY DEF InFront
<1>3. DOMAIN buf = 0 .. N /\ \A j \in 0 .. Len(x) - 1 : buf[j] = x[j + 1]
  BY <1>1, <1>2 DEF InFront
<1>4. PICK M \in Nat : M = L + d
  BY <1>2
<1>5. M <= N /\ frame.len = L /\ buf[M] = NUL /\ L <= M
  BY <1>1, <1>2, <1>4
<1>6. PICK y \in Seq(Byte) : y = x \o s /\ Len(y) = M
  <2>1. x \o s \in Seq(Byte) /\ Len(x \o s) = Len(x) + Len(s)
    BY ConcatProperties
  <2> QED BY <1>2, <1>4, <2>1
<1>7. Joined(w) = y /\ Place(w) = y \o <<Sep>> /\ Len(Place(w)) = M + 1
  <2>1. /\ Joined(Append(p, s)) = Place(p) \o s
        /\ Place(Append(p, s)) = (Place(p) \o s) \o <<Sep>>
        /\ Len(Place(Append(p, s))) = Len(Place(p)) + Len(s) + 1
    BY Bytes, PlaceGrows, Zenon
  <2> QED BY <1>1, <1>2, <1>4, <1>6, <2>1
<1>8. /\ DOMAIN b = 0 .. N
      /\ \A j \in 0 .. Len(y) - 1 : b[j] = y[j + 1]
      /\ \A j \in 0 .. N : M <= j => b[j] = buf[j]
      /\ \A j \in 0 .. N : j < L => b[j] = buf[j]
  <2>1. b = Write(buf, Len(x), s)
    BY <1>1
  <2>2. Len(x) + Len(s) <= N + 1
    BY <1>2, <1>4, <1>5
  <2>3. Lengthened(N, buf, x, s, Write(buf, Len(x), s))
    BY <1>3, <2>2, WriteBehind
  <2> QED BY <1>2, <1>6, <2>1, <2>3 DEF Lengthened
<1>9. NUL \notin Byte /\ Sep \in Byte
  BY Bytes
<1>10. Terminated(b) /\ Str(b) = y
  <2>1. M \in 0 .. N
    BY <1>5
  <2>2. b[M] = NUL
    BY <1>5, <1>8, <2>1
  <2>3. b[Len(y)] = NUL /\ Len(y) <= N
    BY <1>5, <1>6, <2>2
  <2> QED BY <1>8, <1>9, <2>3, StrIs
<1>11. PICK z \in Seq(Byte) : z = <<Sep>> /\ Len(z) = 1
  <2>1. PICK e \in Byte : e = Sep
    BY <1>9
  <2>2. <<e>> \in Seq(Byte) /\ Len(<<e>>) = 1
    OBVIOUS
  <2> QED BY <2>1, <2>2
<1>12. PICK u \in Seq(Byte) : u = Place(w) /\ u = y \o z /\ Len(u) = M + 1
  <2>1. y \o z \in Seq(Byte)
    BY ConcatProperties
  <2> QED BY <1>7, <1>11, <2>1
<1>13. /\ DOMAIN c = 0 .. N
       /\ \A j \in 0 .. Len(u) - 1 : c[j] = u[j + 1]
       /\ \A j \in 0 .. N : M + 1 <= j => c[j] = b[j]
       /\ \A j \in 0 .. N : j < M => c[j] = b[j]
  <2>1. c = Write(b, Len(y), z)
    BY <1>2, <1>4, <1>5, <1>6, <1>11
  <2>2. Len(y) + Len(z) <= N + 1
    BY <1>5, <1>6, <1>11
  <2>3. Lengthened(N, b, y, z, Write(b, Len(y), z))
    BY <1>8, <2>2, WriteBehind
  <2> QED BY <1>6, <1>12, <2>1, <2>3 DEF Lengthened
<1>14. /\ \A j \in 0 .. N : M + 1 <= j => M <= j
       /\ \A j \in 0 .. N : j < L => j < M
  BY <1>5
<1>15. Written(s, w, b, c)
  <2>1. Fits(buf, frame.len, s)
    BY <1>2, <1>4, <1>5 DEF Fits
  <2>2. ASSUME NEW j \in 0 .. N, M + 1 <= j PROVE c[j] = buf[j]
    <3>1. M <= j
      BY <1>14, <2>2
    <3>2. c[j] = b[j] /\ b[j] = buf[j]
      BY <1>8, <1>13, <2>2, <3>1, Zenon
    <3> QED BY <3>2
  <2>3. ASSUME NEW j \in 0 .. N, j < L PROVE b[j] = buf[j] /\ c[j] = buf[j]
    <3>1. j < M
      BY <1>14, <2>3
    <3>2. c[j] = b[j] /\ b[j] = buf[j]
      BY <1>8, <1>13, <2>3, <3>1, Zenon
    <3> QED BY <3>2
  <2> QED BY <1>2, <1>4, <1>5, <1>7, <1>8, <1>10, <2>1, <2>2, <2>3 DEF Written
<1>16. ASSUME M + 1 <= N, buf[M + 1] = NUL PROVE Separated(w, c)
  <2>1. M + 1 \in 0 .. N /\ M + 1 <= M + 1 /\ M <= M + 1
    BY <1>16
  <2>2. c[M + 1] = NUL
    BY <1>8, <1>13, <1>16, <2>1
  <2>3. c[Len(u)] = NUL /\ Len(u) <= N
    BY <1>12, <1>16, <2>2
  <2>4. Terminated(c) /\ StrLen(c) = Len(u)
    BY <1>9, <1>13, <2>3, StrIs
  <2> QED BY <1>12, <1>13, <2>4 DEF Separated
<1> QED BY <1>2, <1>4, <1>5, <1>15, <1>16

LEMMA Writing ==
  ASSUME FoundInv, Regular(name), stack # <<>>, NEW k, k = Len(stack),
         NEW s \in Seq(Byte), frame.len + Len(s) <= Len(name), buf[frame.len + Len(s)] = NUL,
         NEW w, w = Append(Path(tokens, stack, k - 1), s),
         NEW b, b = Write(buf, frame.len, s),
         NEW c, c = Write(b, frame.len + Len(s), <<Sep>>)
  PROVE  /\ Written(s, w, b, c)
         /\ frame.len + Len(s) + 1 <= Len(name) /\ buf[frame.len + Len(s) + 1] = NUL
            => Separated(w, c)
<1>1. PICK p \in Seq(Seq(Byte)) : p = Path(tokens, stack, k - 1)
  BY Here
<1>2. InFront(p)
  BY <1>1, Here DEF FoundInv, RegularInv, FrontIsPath, InFront
<1>3. w = Append(p, s)
  BY <1>1
<1> QED BY <1>2, <1>3, LevelWritten

(* The step that looks w up, which ends in s.                              *)
Visits(w) ==
  /\ UNCHANGED <<name, tokens, table, overrun>>
  /\ visited' = IF Joined(w) \in table THEN Append(visited, Joined(w)) ELSE visited

Finding(k, s, w, away, back) ==
  LET b == Write(buf, frame.len, s)
      c == Write(b, frame.len + Len(s), <<Sep>>)
  IN  /\ Visits(w) /\ Written(s, w, b, c)
      /\ \/ Joined(w) \notin table /\ stack' = Then(away) /\ buf' = b
         \/ Joined(w) \in table /\ k = Len(tokens) /\ stack' = Then(back) /\ buf' = c
         \/ /\ Joined(w) \in table /\ k < Len(tokens) /\ Separated(w, c)
            /\ stack' = Append(Then(back), Call(k + 1, Len(Place(w)))) /\ buf' = c

(* A token that is found where it is written.                              *)
LEMMA TokenFound ==
  ASSUME FindToken, NEW k \in 1 .. Len(tokens), Len(tokens) \in Nat, frame.token = k,
         NEW s, s = token, NEW w,
         NEW b, b = Write(buf, frame.len, s),
         NEW c, c = Write(b, frame.len + Len(s), <<Sep>>),
         Written(s, w, b, c), k < Len(tokens) => Separated(w, c)
  PROVE  Finding(k, s, w, "clear", "clear")
<1>1. /\ b = Write(buf, frame.len, token) /\ c = Write(b, frame.len + Len(token), <<Sep>>)
      /\ Fits(buf, frame.len, token) /\ Terminated(b) /\ Str(b) = Joined(w) /\ CanDescend(c)
  <2>1. Fits(buf, frame.len, token) /\ Terminated(b) /\ Str(b) = Joined(w)
    BY DEF Written
  <2>2. k = Len(tokens) \/ Terminated(c)
    BY DEF Separated
  <2> QED BY <2>1, <2>2 DEF CanDescend
<1>2. /\ LookUp(b)
      /\ \/ Joined(w) \notin table /\ buf' = b /\ stack' = Then("clear")
         \/ Joined(w) \in table /\ Descend(c, "clear")
  BY <1>1, Zenon DEF FindToken
<1>3. Visits(w)
  BY <1>1, <1>2, Zenon DEF Visits, LookUp
<1>4. CASE Joined(w) \notin table
  BY <1>2, <1>3, <1>4, Zenon DEF Finding
<1>5. CASE Joined(w) \in table
  <2>1. Descend(c, "clear")
    BY <1>2, <1>5
  <2>2. CASE k = Len(tokens)
    <3>1. buf' = c /\ stack' = Then("clear")
      BY <2>1, <2>2 DEF Descend
    <3> QED BY <1>3, <1>5, <2>2, <3>1, Zenon DEF Finding
  <2>3. CASE k # Len(tokens)
    <3>1. k < Len(tokens) /\ frame.token # Len(tokens)
      BY <2>3
    <3>2. buf' = c /\ stack' = Append(Then("clear"), Call(k + 1, StrLen(c)))
      BY <2>1, <3>1 DEF Descend
    <3>3. Separated(w, c) /\ StrLen(c) = Len(Place(w))
      BY <3>1 DEF Separated
    <3>4. stack' = Append(Then("clear"), Call(k + 1, Len(Place(w))))
      BY <3>2, <3>3
    <3> QED BY <1>3, <1>5, <3>1, <3>2, <3>3, <3>4, Zenon DEF Finding
  <2> QED BY <2>2, <2>3
<1> QED BY <1>4, <1>5

LEMMA FindingToken ==
  ASSUME FoundInv, Regular(name), FindToken, NEW k, k = Len(stack),
         NEW w, w = Append(Path(tokens, stack, k - 1), tokens[k])
  PROVE  Finding(k, tokens[k], w, "clear", "clear")
<1>1. stack # <<>> /\ frame.next = "token"
  BY DEF FindToken, Active
<1>2. /\ k \in 1 .. Len(tokens) /\ Len(tokens) \in Nat /\ frame.token = k /\ token = tokens[k]
      /\ tokens[k] \in Seq(Byte) /\ frame = stack[k]
      /\ frame.len + Len(token) <= Len(name)
      /\ frame.len \in Nat /\ Len(token) \in Nat /\ Len(name) \in Nat
      /\ k < Len(tokens) => frame.len + Len(token) + 2 <= Len(name)
      /\ tokens = Tokens(name) /\ name \in Text
      /\ Path(tokens, stack, k - 1) \in Seq(Seq(Byte))
      /\ frame.len = Len(Place(Path(tokens, stack, k - 1)))
  BY <1>1, Here DEF FoundInv, WalkInv
<1>3. PICK s \in Seq(Byte) : s = tokens[k]
  BY <1>2
<1>4. PICK b, c : b = Write(buf, frame.len, s) /\ c = Write(b, frame.len + Len(s), <<Sep>>)
  OBVIOUS
<1>5. PICK L \in Nat, d \in Nat, N \in Nat : L = frame.len /\ d = Len(s) /\ N = Len(name)
  BY <1>2, <1>3
<1>6. L + d <= N /\ (k < Len(tokens) => L + d + 2 <= N)
  BY <1>2, <1>3, <1>5
<1>7. Len(Joined(w)) = L + d
  <2>1. PICK p \in Seq(Seq(Byte)) : p = Path(tokens, stack, k - 1)
    BY <1>2
  <2>2. Len(Joined(Append(p, s))) = Len(Place(p)) + Len(s)
    BY Bytes, PlaceGrows
  <2> QED BY <1>2, <1>3, <1>5, <2>1, <2>2
<1>8. ~ Trace(tokens, stack, L + d) /\ ~ Trace(tokens, stack, L + d + 1)
  <2>1. stack[k].next = "token"
    BY <1>1, <1>2
  <2>2. ~ Trace(tokens, stack, Len(Joined(w))) /\ ~ Trace(tokens, stack, Len(Joined(w)) + 1)
    BY <1>1, <1>2, <2>1, NoTrace
  <2> QED BY <1>7, <2>2
<1>9. \A j \in 0 .. N : L <= j => buf[j] = NUL \/ Trace(tokens, stack, j)
  <2>1. Width(frame) = 0
    BY <1>1, Innermost DEF FoundInv
  <2>2. \A j \in 0 .. N : L <= j => L + 0 <= j
    OBVIOUS
  <2> QED BY <1>1, <1>5, <2>1, <2>2 DEF FoundInv, RegularInv, RestIsTraces
<1>10. buf[L + d] = NUL /\ (k < Len(tokens) => L + d + 1 <= N /\ buf[L + d + 1] = NUL)
  <2>1. L + d \in 0 .. N /\ L <= L + d
    BY <1>6
  <2>2. k < Len(tokens) => L + d + 1 \in 0 .. N /\ L <= L + d + 1 /\ L + d + 1 <= N
    BY <1>6
  <2> QED BY <1>8, <1>9, <2>1, <2>2
<1>11. Written(s, w, b, c) /\ (k < Len(tokens) => Separated(w, c))
  <2>1. frame.len + Len(s) <= Len(name) /\ buf[frame.len + Len(s)] = NUL
        /\ w = Append(Path(tokens, stack, k - 1), s)
    BY <1>3, <1>5, <1>6, <1>10
  <2>2. /\ Written(s, w, b, c)
        /\ frame.len + Len(s) + 1 <= Len(name) /\ buf[frame.len + Len(s) + 1] = NUL
           => Separated(w, c)
    BY <1>1, <1>4, <2>1, Writing
  <2> QED BY <1>5, <1>10, <2>2
<1>12. s = token /\ frame.token = k
  BY <1>2, <1>3
<1>13. Finding(k, s, w, "clear", "clear")
  BY <1>2, <1>4, <1>11, <1>12, TokenFound
<1> QED BY <1>3, <1>13

LEMMA FindingPlus ==
  ASSUME FoundInv, Regular(name), FindPlus, NEW k, k = Len(stack),
         NEW w, w = Append(Path(tokens, stack, k - 1), Plus)
  PROVE  Finding(k, Plus, w, "hash", "unplus")
<1>1. stack # <<>> /\ frame.next = "plus"
  BY DEF FindPlus, Active
<1>2. /\ k \in 1 .. Len(tokens) /\ Len(tokens) \in Nat /\ frame.token = k
      /\ frame.len + Len(token) <= Len(name) /\ Len(token) >= 2
      /\ frame.len \in Nat /\ Len(token) \in Nat /\ Len(name) \in Nat
      /\ k < Len(tokens) => frame.len + Len(token) + 2 <= Len(name)
  BY <1>1, Here
<1>3. PICK s \in Seq(Byte) : s = Plus /\ Len(s) = 1
  BY Bytes
<1>4. PICK b, c : b = Write(buf, frame.len, s) /\ c = Write(b, frame.len + Len(s), <<Sep>>)
  OBVIOUS
<1>5. PICK L \in Nat, d \in Nat, N \in Nat : L = frame.len /\ d = Len(token) /\ N = Len(name)
  BY <1>2
<1>6. L + 1 <= N /\ (k < Len(tokens) => L + 1 + 1 <= N)
  BY <1>2, <1>5
<1>7. buf[L + 1] = NUL /\ (k < Len(tokens) => buf[L + 1 + 1] = NUL)
  <2>1. L + 1 + 1 = L + 2
    OBVIOUS
  <2> QED BY <1>1, <1>5, <2>1 DEF FoundInv, RegularInv, Cleared
<1>8. Written(s, w, b, c) /\ (k < Len(tokens) => Separated(w, c))
  <2>1. frame.len + Len(s) <= Len(name) /\ buf[frame.len + Len(s)] = NUL
        /\ w = Append(Path(tokens, stack, k - 1), s)
    BY <1>3, <1>5, <1>6, <1>7
  <2>2. /\ Written(s, w, b, c)
        /\ frame.len + Len(s) + 1 <= Len(name) /\ buf[frame.len + Len(s) + 1] = NUL
           => Separated(w, c)
    BY <1>1, <1>4, <2>1, Writing
  <2> QED BY <1>3, <1>5, <1>6, <1>7, <2>2
<1>9. /\ b = Write(buf, frame.len, <<PlusByte>>) /\ c = Write(b, frame.len + 1, <<Sep>>)
      /\ Fits(buf, frame.len, <<PlusByte>>) /\ Terminated(b) /\ Str(b) = Joined(w)
      /\ CanDescend(c)
  <2>1. b = Write(buf, frame.len, <<PlusByte>>) /\ c = Write(b, frame.len + 1, <<Sep>>)
    BY <1>3, <1>4 DEF Plus
  <2>2. Fits(buf, frame.len, <<PlusByte>>) /\ Terminated(b) /\ Str(b) = Joined(w)
    BY <1>3, <1>8 DEF Written, Plus
  <2>3. k = Len(tokens) \/ Terminated(c)
    BY <1>2, <1>8 DEF Separated
  <2> QED BY <1>2, <2>1, <2>2, <2>3 DEF CanDescend
<1>10. /\ LookUp(b)
       /\ \/ Joined(w) \notin table /\ buf' = b /\ stack' = Then("hash")
          \/ Joined(w) \in table /\ Descend(c, "unplus")
  BY <1>9, Zenon DEF FindPlus
<1>11. Visits(w)
  BY <1>9, <1>10, Zenon DEF Visits, LookUp
<1>12. CASE Joined(w) \notin table
  BY <1>3, <1>4, <1>8, <1>10, <1>11, <1>12, Zenon DEF Finding
<1>13. CASE Joined(w) \in table
  <2>1. Descend(c, "unplus")
    BY <1>10, <1>13
  <2>2. CASE k = Len(tokens)
    <3>1. buf' = c /\ stack' = Then("unplus")
      BY <1>2, <2>1, <2>2 DEF Descend
    <3> QED BY <1>3, <1>4, <1>8, <1>11, <1>13, <2>2, <3>1, Zenon DEF Finding
  <2>3. CASE k # Len(tokens)
    <3>1. k < Len(tokens) /\ frame.token # Len(tokens)
      BY <1>2, <2>3
    <3>2. buf' = c /\ stack' = Append(Then("unplus"), Call(k + 1, StrLen(c)))
      BY <1>2, <2>1, <3>1 DEF Descend
    <3>3. Separated(w, c) /\ StrLen(c) = Len(Place(w))
      BY <1>8, <3>1 DEF Separated
    <3>4. stack' = Append(Then("unplus"), Call(k + 1, Len(Place(w))))
      BY <3>2, <3>3
    <3> QED BY <1>3, <1>4, <1>8, <1>11, <1>13, <3>1, <3>2, <3>3, <3>4, Zenon DEF Finding
  <2> QED BY <2>2, <2>3
<1> QED BY <1>12, <1>13

LEMMA FindingHash ==
  ASSUME FoundInv, Regular(name), FindHash, NEW k, k = Len(stack),
         NEW w, w = Append(Path(tokens, stack, k - 1), Hash)
  PROVE  /\ Visits(w) /\ stack' = Front(stack)
         /\ \A j \in 0 .. Len(name) : j # frame.len => buf'[j] = buf[j]
         /\ buf'[frame.len] = NUL
<1>1. stack # <<>> /\ frame.next = "hash"
  BY DEF FindHash, Active
<1>2. /\ frame.len + Len(token) <= Len(name) /\ Len(token) >= 2
      /\ frame.len \in Nat /\ Len(token) \in Nat /\ Len(name) \in Nat
      /\ DOMAIN buf = 0 .. Len(name)
  BY <1>1, Here
<1>3. PICK s \in Seq(Byte) : s = Hash /\ Len(s) = 1
  BY Bytes
<1>4. PICK b, c : b = Write(buf, frame.len, s) /\ c = Write(b, frame.len + Len(s), <<Sep>>)
  OBVIOUS
<1>5. PICK L \in Nat, d \in Nat, N \in Nat : L = frame.len /\ d = Len(token) /\ N = Len(name)
  BY <1>2
<1>6. L + 1 <= N /\ L \in 0 .. N
  BY <1>2, <1>5
<1>7. buf[L + 1] = NUL
  BY <1>1, <1>5 DEF FoundInv, RegularInv, Cleared
<1>8. Written(s, w, b, c)
  <2>1. frame.len + Len(s) <= Len(name) /\ buf[frame.len + Len(s)] = NUL
        /\ w = Append(Path(tokens, stack, k - 1), s)
    BY <1>3, <1>5, <1>6, <1>7
  <2> QED BY <1>1, <1>4, <2>1, Writing
<1>9. b = Write(buf, frame.len, <<HashByte>>) /\ Str(b) = Joined(w)
  BY <1>3, <1>4, <1>8 DEF Written, Hash
<1>10. LookUp(b) /\ buf' = Clear(b, frame.len, 1) /\ stack' = Front(stack)
  BY <1>9, Zenon DEF FindHash
<1>11. Visits(w)
  BY <1>9, <1>10, Zenon DEF Visits, LookUp
<1>12. DOMAIN b = 0 .. N
  BY <1>2, <1>4, <1>5 DEF Write
<1>13. \A j \in 0 .. N : j # L => b[j] = buf[j]
  <2>1. \A j \in 0 .. N : j # L => L + 1 <= j \/ j < L
    BY <1>5
  <2> QED BY <1>3, <1>5, <1>8, <2>1 DEF Written
<1>14. \A j \in 0 .. N : buf'[j] = IF j = L THEN NUL ELSE b[j]
  <2>1. \A j \in 0 .. N : j \in L .. L + 1 - 1 <=> j = L
    BY <1>5
  <2>2. buf' = [j \in 0 .. N |-> IF j \in L .. L + 1 - 1 THEN NUL ELSE b[j]]
    BY <1>5, <1>10, <1>12 DEF Clear
  <2> QED BY <2>1, <2>2
<1> QED BY <1>5, <1>6, <1>10, <1>11, <1>13, <1>14

-----------------------------------------------------------------------------
(* What a step adds to what has been seen                                  *)

(* What Gated says of the levels of a filter.                              *)
GatedLevels(ls) ==
  /\ Fitting(tokens, ls)
  /\ \A i \in 1 .. Len(ls) - 1 : Joined(SubSeq(ls, 1, i)) \in table

SeesMore ==
  \A ls \in Levels(Byte) :
    Fitting(tokens, ls) /\ Seen(tokens, stack, ls) => Seen(tokens, stack', ls)
Sees(w) ==
  \A ls \in Levels(Byte) :
    GatedLevels(ls) => (Seen(tokens, stack', ls) <=> Seen(tokens, stack, ls) \/ ls = w)

(* The step for s, which is the name's level or +, with its next steps.    *)
Choice(k, s, away, back) ==
  \/ s = tokens[k] /\ frame.next = "token" /\ away = "clear" /\ back = "clear"
  \/ s = Plus /\ frame.next = "plus" /\ away = "hash" /\ back = "unplus"

LEMMA SeenAfterStay ==
  ASSUME FoundInv, Regular(name), stack # <<>>, NEW k, k = Len(stack),
         NEW s, NEW away, NEW back, Choice(k, s, away, back),
         NEW step \in {away, back}, stack' = Then(step), NEW ls \in Levels(Byte)
  PROVE  Seen(tokens, stack', ls) <=> Seen(tokens, stack, ls) \/ Through(tokens, stack, ls, k, s)
<1>1. WalkInv /\ k \in Nat \ {0} /\ frame = stack[k]
  <2>1. k \in 1 .. Len(tokens) /\ Len(tokens) \in Nat /\ frame = stack[k]
    BY Here
  <2> QED BY <2>1 DEF FoundInv
<1>2. step \in Steps
  BY DEF Choice, Steps
<1>3. PICK st : st = stack'
  OBVIOUS
<1>4. /\ Len(st) = k /\ st # <<>> /\ \A i \in 1 .. k - 1 : st[i].next = stack[i].next
      /\ st[k].next = step
  BY <1>1, <1>2, <1>3, ThenShape
<1>5. PICK ts : ts = tokens
  OBVIOUS
<1>6. /\ Seen(ts, stack, ls) <=>
              \/ Earlier(ts, stack, ls, k - 1)
              \/ Through(ts, stack, ls, k, ts[k]) /\ stack[k].next # "token"
              \/ Through(ts, stack, ls, k, Plus) /\ stack[k].next \in {"unplus", "hash"}
      /\ Seen(ts, st, ls) <=>
              \/ Earlier(ts, stack, ls, k - 1)
              \/ Through(ts, stack, ls, k, ts[k]) /\ st[k].next # "token"
              \/ Through(ts, stack, ls, k, Plus) /\ st[k].next \in {"unplus", "hash"}
  BY <1>1, <1>4, SeenStays
<1>7. CASE s = ts[k] /\ stack[k].next = "token" /\ step = "clear"
  BY <1>3, <1>4, <1>5, <1>6, <1>7
<1>8. CASE s = Plus /\ stack[k].next = "plus" /\ step \in {"hash", "unplus"}
  BY <1>3, <1>4, <1>5, <1>6, <1>8
<1> QED BY <1>1, <1>5, <1>7, <1>8 DEF Choice

LEMMA SeenAfterCall ==
  ASSUME FoundInv, Regular(name), stack # <<>>, NEW k, k = Len(stack),
         NEW s, NEW away, NEW back, Choice(k, s, away, back), NEW L \in Nat,
         stack' = Append(Then(back), Call(k + 1, L)), NEW ls \in Levels(Byte)
  PROVE  Seen(tokens, stack', ls) <=> Seen(tokens, stack, ls) \/ Ending(tokens, stack, ls, k, s)
<1>1. WalkInv /\ k \in Nat \ {0} /\ frame = stack[k]
  <2>1. k \in 1 .. Len(tokens) /\ Len(tokens) \in Nat /\ frame = stack[k]
    BY Here
  <2> QED BY <2>1 DEF FoundInv
<1>2. back \in Steps
  BY DEF Choice, Steps
<1>3. PICK st : st = stack'
  OBVIOUS
<1>4. /\ Len(st) = k + 1 /\ st # <<>> /\ \A i \in 1 .. k - 1 : st[i].next = stack[i].next
      /\ st[k].next = back /\ st[k + 1].next = "token"
  <2>1. PICK m \in Nat : m = k + 1
    BY <1>1
  <2>2. Calling(k, back, m, L, st)
    BY <1>1, <1>2, <1>3, <2>1, CallShape
  <2> QED BY <2>2 DEF Calling
<1>5. PICK ts : ts = tokens
  OBVIOUS
<1>6. /\ Seen(ts, stack, ls) <=>
              \/ Earlier(ts, stack, ls, k - 1)
              \/ Through(ts, stack, ls, k, ts[k]) /\ stack[k].next # "token"
              \/ Through(ts, stack, ls, k, Plus) /\ stack[k].next \in {"unplus", "hash"}
  BY <1>1, SeenStays
<1>7. Seen(ts, st, ls) <=>
           \/ Earlier(ts, stack, ls, k - 1)
           \/ Through(ts, stack, ls, k, ts[k]) /\ st[k].next = "unplus"
           \/ Ending(ts, stack, ls, k, Level(ts, st, k))
  <2>1. Len(ls) \in Nat
    BY Starts
  <2> QED BY <1>1, <1>4, <2>1, SeenByCall
<1>8. CASE s = ts[k] /\ stack[k].next = "token" /\ back = "clear"
  <2>1. Level(ts, st, k) = s /\ st[k].next # "unplus"
    BY <1>4, <1>8 DEF Level
  <2> QED BY <1>3, <1>5, <1>6, <1>7, <1>8, <2>1
<1>9. CASE s = Plus /\ stack[k].next = "plus" /\ back = "unplus"
  <2>1. Level(ts, st, k) = s /\ st[k].next = "unplus"
    BY <1>4, <1>9 DEF Level
  <2> QED BY <1>3, <1>5, <1>6, <1>7, <1>9, <2>1
<1> QED BY <1>1, <1>5, <1>8, <1>9 DEF Choice

(* The filters that go on behind s are not gated when that is not found,   *)
(* and there are none when s is for the last level.                        *)
LEMMA FindingSees ==
  ASSUME FoundInv, Regular(name), stack # <<>>, NEW k, k = Len(stack),
         NEW s, NEW away, NEW back, Choice(k, s, away, back), s \in Seq(Byte),
         NEW w, w = Append(Path(tokens, stack, k - 1), s), Finding(k, s, w, away, back)
  PROVE  SeesMore /\ Sees(w)
<1>1. /\ tokens \in Levels(Byte) /\ k \in 1 .. Len(tokens) /\ Len(tokens) \in Nat
      /\ Path(tokens, stack, k - 1) \in Seq(Seq(Byte))
  BY Here
<1>2. \A ls \in Levels(Byte) : Ending(tokens, stack, ls, k, s) <=> ls = w
  <2> TAKE ls \in Levels(Byte)
  <2> QED BY <1>1, EndIs
<1>3. \A ls \in Levels(Byte) : Ending(tokens, stack, ls, k, s) => Through(tokens, stack, ls, k, s)
  BY <1>1 DEF Ending, Through
<1>4. CASE \/ Joined(w) \notin table /\ stack' = Then(away)
           \/ k = Len(tokens) /\ stack' = Then(back)
  <2>1. ASSUME NEW ls \in Levels(Byte)
        PROVE  Seen(tokens, stack', ls)
                 <=> Seen(tokens, stack, ls) \/ Through(tokens, stack, ls, k, s)
    <3>1. away \in {away, back} /\ back \in {away, back}
      OBVIOUS
    <3>2. CASE stack' = Then(away)
      BY <3>1, <3>2, SeenAfterStay
    <3>3. CASE stack' = Then(back)
      BY <3>1, <3>3, SeenAfterStay
    <3> QED BY <1>4, <3>2, <3>3
  <2>2. ASSUME NEW ls \in Levels(Byte), GatedLevels(ls), Through(tokens, stack, ls, k, s)
        PROVE  ls = w
    <3>1. k <= Len(ls) /\ SubSeq(ls, 1, k) = w
      BY <1>1, <2>2, ThroughIs
    <3>2. /\ Len(ls) \in Nat /\ Len(ls) <= Len(tokens)
          /\ \A i \in 1 .. Len(ls) - 1 : Joined(SubSeq(ls, 1, i)) \in table
      BY <2>2 DEF GatedLevels, Fitting, Levels
    <3>3. Len(ls) = k
      <4> SUFFICES ASSUME k < Len(ls) PROVE FALSE
        BY <1>1, <3>1, <3>2
      <4>1. k \in 1 .. Len(ls) - 1 /\ k # Len(tokens)
        BY <1>1, <3>2
      <4> QED BY <1>4, <3>1, <3>2, <4>1
    <3>4. SubSeq(ls, 1, Len(ls)) = ls
      BY SubSeqFull DEF Levels
    <3> QED BY <3>1, <3>3, <3>4
  <2>3. SeesMore
    BY <2>1 DEF SeesMore
  <2>4. Sees(w)
    BY <1>2, <1>3, <2>1, <2>2 DEF Sees
  <2> QED BY <2>3, <2>4
<1>5. CASE stack' = Append(Then(back), Call(k + 1, Len(Place(w))))
  <2>1. PICK L \in Nat : L = Len(Place(w))
    <3>1. PICK p \in Seq(Seq(Byte)) : p = Path(tokens, stack, k - 1)
      BY <1>1
    <3>2. PICK t \in Seq(Byte) : t = s
      OBVIOUS
    <3>3. Len(Place(Append(p, t))) = Len(Place(p)) + Len(t) + 1
          /\ Len(Place(p)) \in Nat /\ Len(t) \in Nat
      BY Bytes, PlaceGrows
    <3>4. Len(Place(Append(p, t))) \in Nat
      BY <3>3
    <3> QED BY <3>1, <3>2, <3>4
  <2>2. ASSUME NEW ls \in Levels(Byte)
        PROVE  Seen(tokens, stack', ls)
                 <=> Seen(tokens, stack, ls) \/ Ending(tokens, stack, ls, k, s)
    BY <1>5, <2>1, SeenAfterCall
  <2>3. SeesMore
    BY <2>2 DEF SeesMore
  <2>4. Sees(w)
    BY <1>2, <2>2 DEF Sees
  <2> QED BY <2>3, <2>4
<1> QED BY <1>4, <1>5 DEF Finding

(* Clearing adds nothing.                                                  *)
LEMMA ClearingSees ==
  ASSUME FoundInv, Regular(name), stack # <<>>,
         \/ frame.next = "clear" /\ stack' = Then("plus")
         \/ frame.next = "unplus" /\ stack' = Then("hash"),
         NEW ls \in Levels(Byte)
  PROVE  Seen(tokens, stack', ls) <=> Seen(tokens, stack, ls)
<1>1. PICK k, ts, st : k = Len(stack) /\ ts = tokens /\ st = stack'
  OBVIOUS
<1>2. WalkInv /\ k \in Nat \ {0} /\ frame = stack[k]
  <2>1. k \in 1 .. Len(tokens) /\ Len(tokens) \in Nat /\ frame = stack[k]
    BY <1>1, Here
  <2> QED BY <2>1 DEF FoundInv
<1>3. PICK step \in Steps : /\ st = Then(step)
                            /\ \/ stack[k].next = "clear" /\ step = "plus"
                               \/ stack[k].next = "unplus" /\ step = "hash"
  <2>1. "plus" \in Steps /\ "hash" \in Steps
    BY DEF Steps
  <2>2. \/ stack[k].next = "clear" /\ st = Then("plus")
        \/ stack[k].next = "unplus" /\ st = Then("hash")
    BY <1>1, <1>2
  <2> QED BY <2>1, <2>2, Zenon
<1>4. /\ Len(st) = k /\ st # <<>> /\ \A i \in 1 .. k - 1 : st[i].next = stack[i].next
      /\ st[k].next = step
  BY <1>1, <1>2, <1>3, ThenShape
<1>5. /\ Seen(ts, stack, ls) <=>
              \/ Earlier(ts, stack, ls, k - 1)
              \/ Through(ts, stack, ls, k, ts[k]) /\ stack[k].next # "token"
              \/ Through(ts, stack, ls, k, Plus) /\ stack[k].next \in {"unplus", "hash"}
      /\ Seen(ts, st, ls) <=>
              \/ Earlier(ts, stack, ls, k - 1)
              \/ Through(ts, stack, ls, k, ts[k]) /\ st[k].next # "token"
              \/ Through(ts, stack, ls, k, Plus) /\ st[k].next \in {"unplus", "hash"}
  BY <1>1, <1>2, <1>4, SeenStays, Zenon
<1> QED BY <1>1, <1>3, <1>4, <1>5

(* A return adds what ends in #.                                           *)
LEMMA ReturnSees ==
  ASSUME FoundInv, Regular(name), stack # <<>>, NEW k, k = Len(stack),
         frame.next = "hash", stack' = Front(stack),
         NEW w, w = Append(Path(tokens, stack, k - 1), Hash)
  PROVE  SeesMore /\ Sees(w)
<1>1. PICK ts, st : ts = tokens /\ st = stack'
  OBVIOUS
<1>2. /\ WalkInv /\ k \in 1 .. Len(ts) /\ Len(ts) \in Nat /\ frame = stack[k] /\ ts \in Levels(Byte)
      /\ \A i \in 1 .. k - 1 : stack[i].next \in {"clear", "unplus"}
  BY <1>1, Here DEF FoundInv
<1>3. /\ Len(st) = k - 1 /\ (k = 1 => st = <<>>) /\ (k > 1 => st # <<>>)
      /\ \A i \in 1 .. k - 1 : st[i] = stack[i]
  <2>1. st = Front(stack)
    BY <1>1
  <2>2. WalkInv
    BY DEF FoundInv
  <2> QED BY <2>1, <2>2, ReturnShape
<1>4. k \in Nat \ {0} /\ (k > 1 => k - 1 \in 1 .. k - 1)
  BY <1>2
<1>5. ASSUME NEW ls \in Levels(Byte), Fitting(ts, ls)
      PROVE  Seen(ts, st, ls) <=> Seen(ts, stack, ls) \/ ls = w
  <2>1. Len(ls) \in Nat \ {0}
    BY Starts
  <2>2. Seen(ts, st, ls) <=> Seen(ts, stack, ls) \/ Ending(ts, stack, ls, k, Hash)
    BY <1>2, <1>3, <1>4, <1>5, <2>1, SeenOnReturn
  <2>3. PICK x \in Seq(Byte) : x = Hash
    BY Bytes
  <2>4. ts \in Levels(Byte) /\ k \in 1 .. Len(ts) /\ w = Append(Path(ts, stack, k - 1), x)
    BY <1>1, <1>2, <2>3
  <2>5. Ending(ts, stack, ls, k, x) <=> ls = w
    BY <2>4, EndIs
  <2> QED BY <2>2, <2>3, <2>5
<1>6. SeesMore
  BY <1>1, <1>5 DEF SeesMore
<1>7. Sees(w)
  BY <1>1, <1>5 DEF Sees, GatedLevels
<1> QED BY <1>6, <1>7

-----------------------------------------------------------------------------
(* The filters that have been found                                        *)

(* The filter that a step looks up.                                        *)
Upcoming(k, s, w) ==
  /\ w \in Levels(Byte) /\ Len(w) = k /\ w[k] = s /\ Tokens(Joined(w)) = w
  /\ GatedLevels(w) /\ ~ Seen(tokens, stack, w)

LEMMA NextFilter ==
  ASSUME FoundInv, Regular(name), stack # <<>>, NEW k, k = Len(stack),
         NEW s \in Seq(Byte), NoSep(s),
         \/ s = tokens[k] /\ frame.next = "token"
         \/ s = Plus /\ frame.next = "plus"
         \/ s = Hash /\ frame.next = "hash",
         NEW w, w = Append(Path(tokens, stack, k - 1), s)
  PROVE  Upcoming(k, s, w)
<1>1. PICK ts, n : ts = tokens /\ n = Len(ts)
  OBVIOUS
<1>2. /\ ts \in Levels(Byte) /\ Plain(ts) /\ Unmarked(ts) /\ n \in Nat \ {0} /\ k \in 1 .. n
      /\ frame = stack[k] /\ PathFound
  BY <1>1, Here DEF FoundInv, RegularInv
<1>3. k \in Nat /\ k - 1 \in 0 .. n /\ \A i \in 1 .. k : i = k \/ i \in 1 .. k - 1
  BY <1>2
<1>4. PICK p \in Seq(Seq(Byte)) :
        /\ p = Path(ts, stack, k - 1) /\ Len(p) = k - 1
        /\ \A i \in 1 .. k - 1 : p[i] = Level(ts, stack, i) /\ p[i] \in {ts[i], Plus}
  <2>1. /\ Path(ts, stack, k - 1) \in Seq(Seq(Byte)) /\ Len(Path(ts, stack, k - 1)) = k - 1
        /\ \A i \in 1 .. k - 1 : Path(ts, stack, k - 1)[i] = Level(ts, stack, i)
        /\ \A i \in 1 .. k - 1 : Level(ts, stack, i) \in {ts[i], Plus}
    BY <1>1, <1>2, <1>3, PathLevels
  <2> QED BY <2>1
<1>5. w = Append(p, s)
  BY <1>1, <1>4
<1>6. /\ w \in Levels(Byte) /\ Len(w) = k /\ w[k] = s /\ \A i \in 1 .. k - 1 : w[i] = p[i]
  <2>1. Append(p, s) \in Levels(Byte)
    BY Bytes, PlaceGrows
  <2>2. PICK S : S = Seq(Byte)
    OBVIOUS
  <2>3. p \in Seq(S) /\ s \in S /\ Len(p) = k - 1
    BY <1>4, <2>2
  <2>4. /\ Len(w) = k /\ w[k] = s /\ \A i \in 1 .. k - 1 : w[i] = p[i]
    <3>1. PICK r : r = Append(p, s)
      OBVIOUS
    <3>2. /\ Len(r) = Len(p) + 1 /\ r[Len(p) + 1] = s /\ \A i \in 1 .. Len(p) : r[i] = p[i]
      BY <2>3, <3>1, AppendProperties
    <3>3. Len(p) + 1 = k
      BY <1>3, <2>3
    <3> QED BY <1>5, <2>3, <3>1, <3>2, <3>3
  <2> QED BY <1>5, <2>1, <2>4
<1>7. Plain(w)
  <2>1. ASSUME NEW i \in 1 .. k PROVE NoSep(w[i])
    <3>1. CASE i = k
      BY <1>6, <3>1
    <3>2. CASE i \in 1 .. k - 1
      <4>1. i \in 1 .. n
        BY <1>2, <3>2
      <4>2. NoSep(ts[i]) /\ NoSep(Plus)
        BY <1>1, <1>2, <4>1, Bytes DEF Plain
      <4> QED BY <1>4, <1>6, <3>2, <4>2
    <3> QED BY <1>3, <3>1, <3>2
  <2> QED BY <1>6, <2>1 DEF Plain
<1>8. Tokens(Joined(w)) = w
  BY <1>6, <1>7, Bytes, TokensJoined
<1>9. Fitting(ts, w)
  <2>1. ASSUME NEW i \in 1 .. k
        PROVE  w[i] \in {ts[i], Plus} \/ (w[i] = Hash /\ i = k)
    <3>1. CASE i = k
      BY <1>1, <1>6, <3>1
    <3>2. CASE i \in 1 .. k - 1
      BY <1>4, <1>6, <3>2
    <3> QED BY <1>3, <3>1, <3>2
  <2>2. k <= n
    BY <1>2
  <2> QED BY <1>1, <1>6, <2>1, <2>2 DEF Fitting
<1>10. ASSUME NEW i \in 1 .. k - 1 PROVE Joined(SubSeq(w, 1, i)) \in table
  <2>1. PICK q : q = SubSeq(w, 1, i)
    OBVIOUS
  <2>2. i \in 0 .. Len(w) /\ i \in 0 .. n /\ \A j \in 1 .. i : j \in 1 .. k - 1
    BY <1>2, <1>6
  <2>3. q \in Seq(Seq(Byte)) /\ Len(q) = i /\ \A j \in 1 .. i : q[j] = w[j]
    BY <1>6, <2>1, <2>2, FirstLevels, Zenon DEF Levels
  <2>4. /\ Path(ts, stack, i) \in Seq(Seq(Byte)) /\ Len(Path(ts, stack, i)) = i
        /\ \A j \in 1 .. i : Path(ts, stack, i)[j] = Level(ts, stack, j)
    BY <1>1, <1>2, <2>2, PathLevels
  <2>5. PICK r : r = Path(ts, stack, i)
    OBVIOUS
  <2>6. \A j \in 1 .. i : q[j] = r[j]
    <3> TAKE j \in 1 .. i
    <3>1. j \in 1 .. k - 1
      BY <2>2
    <3>2. q[j] = w[j] /\ w[j] = p[j] /\ p[j] = Level(ts, stack, j)
      BY <1>4, <1>6, <2>3, <3>1
    <3>3. r[j] = Level(ts, stack, j)
      BY <2>4, <2>5
    <3> QED BY <3>2, <3>3
  <2>7. q = r
    BY <2>3, <2>4, <2>5, <2>6, SeqEqual
  <2>8. Joined(Path(tokens, stack, i)) \in table
    BY <1>2 DEF PathFound
  <2> QED BY <1>1, <2>1, <2>5, <2>7, <2>8
<1>11. GatedLevels(w)
  BY <1>1, <1>6, <1>9, <1>10 DEF GatedLevels
<1>12. ~ Seen(ts, stack, w)
  <2>1. Ending(ts, stack, w, k, s)
    BY <1>4, <1>6 DEF Ending, Along
  <2>2. k \in 1 .. Len(ts) /\ Len(ts) \in Nat
    BY <1>1, <1>2
  <2>3. \/ s = ts[k] /\ stack[k].next = "token"
        \/ s = Plus /\ stack[k].next = "plus"
        \/ s = Hash /\ stack[k].next = "hash"
    BY <1>1, <1>2
  <2> QED BY <1>2, <2>1, <2>2, <2>3, NextIsNotSeen
<1> QED BY <1>1, <1>6, <1>8, <1>11, <1>12 DEF Upcoming

(* Gated, in terms of the levels.                                          *)
LEMMA GatedIs ==
  ASSUME FoundInv, Regular(name), NEW f \in table
  PROVE  /\ Tokens(f) \in Levels(Byte) /\ Joined(Tokens(f)) = f
         /\ Gated(f) <=> GatedLevels(Tokens(f))
<1>1. f \in Seq(Byte)
  <2>1. f \in Text
    BY DEF FoundInv
  <2> QED BY <2>1, TextIsBytes
<1>2. PICK ls : ls = Tokens(f)
  OBVIOUS
<1>3. ls \in Levels(Byte) /\ Joined(ls) = f
  BY <1>1, <1>2, Bytes, TokensType, JoinedTokens
<1>4. Gated(f) <=> GatedLevels(ls)
  BY <1>2, Zenon DEF Gated, GatedLevels, Fitting, Plus, Hash
<1> QED BY <1>2, <1>3, <1>4

(* Of a name of one level, # is found last and the name first.             *)
LEMMA OneLevelFound ==
  ASSUME FoundInv, Regular(name), stack # <<>>, Len(tokens) = 1, NEW f \in Range(visited)
  PROVE  f # Hash /\ frame.next # "token"
<1>1. PICK k, ls, ts : k = Len(stack) /\ ls = Tokens(f) /\ ts = tokens
  OBVIOUS
<1>2. k \in 1 .. Len(tokens) /\ Unmarked(ts) /\ frame = stack[k]
  BY <1>1, Here
<1>3. k = 1
  BY <1>2
<1>4. Seen(ts, stack, ls)
  BY <1>1 DEF FoundInv, RegularInv, Found, Finds
<1>5. Latest(ts, stack, ls, 1)
  <2>1. 1 - 1 = 0
    OBVIOUS
  <2> QED BY <1>1, <1>3, <1>4, <2>1, NothingEarlier DEF Seen
<1>6. frame.next # "token"
  BY <1>2, <1>3, <1>5 DEF Latest
<1>7. ASSUME f = Hash PROVE FALSE
  <2>1. PICK x \in Seq(Byte) : x = Hash /\ NoSep(x)
    BY Bytes
  <2>2. PICK S : S = Seq(Byte)
    OBVIOUS
  <2>3. <<x>> \in Seq(S) /\ <<x>> # <<>> /\ Len(<<x>>) = 1 /\ <<x>>[1] = x
    BY <2>2
  <2>4. <<x>> \in Levels(Byte) /\ Plain(<<x>>)
    BY <2>1, <2>2, <2>3 DEF Levels, Plain
  <2>5. Joined(<<x>>) = x
    BY Bytes, JoinedOne
  <2>6. Tokens(x) = <<x>>
    BY <2>4, <2>5, Bytes, TokensJoined
  <2>7. ls[1] = Hash
    BY <1>1, <1>7, <2>1, <2>3, <2>6
  <2>8. ts[1] # Hash
    BY <1>1, <1>2, <1>3 DEF Unmarked
  <2> QED BY <1>5, <2>7, <2>8, PlusIsNotHash DEF Latest
<1> QED BY <1>6, <1>7

LEMMA VisitsFind ==
  ASSUME FoundInv, Regular(name), stack # <<>>, NEW k, k = Len(stack),
         NEW s \in Seq(Byte), NoSep(s),
         \/ s = tokens[k] /\ frame.next = "token"
         \/ s = Plus /\ frame.next = "plus"
         \/ s = Hash /\ frame.next = "hash",
         NEW w, w = Append(Path(tokens, stack, k - 1), s), Visits(w), Sees(w)
  PROVE  Found' /\ IsInjective(visited') /\ InOrder'
<1>1. PICK g : g = Joined(w)
  OBVIOUS
<1>2. /\ w \in Levels(Byte) /\ Len(w) = k /\ w[k] = s /\ Tokens(g) = w
      /\ GatedLevels(w) /\ ~ Seen(tokens, stack, w)
  <2>1. Upcoming(k, s, w)
    BY NextFilter
  <2> QED BY <1>1, <2>1 DEF Upcoming
<1>3. /\ Found /\ IsInjective(visited) /\ InOrder /\ visited \in Seq(table)
  BY DEF FoundInv, RegularInv, WalkInv
<1>4. /\ tokens' = tokens /\ table' = table /\ name' = name
      /\ visited' = IF g \in table THEN Append(visited, g) ELSE visited
  BY <1>1 DEF Visits
<1>5. ASSUME NEW f
      PROVE  Finds(tokens, stack, f)' <=> Finds(tokens, stack, f) \/ (f = g /\ f \in table)
  <2>1. Gated(f)' <=> Gated(f)
    BY <1>4 DEF Gated
  <2>2. CASE f \notin table
    BY <1>4, <2>2 DEF Finds
  <2>3. CASE f \in table
    <3>1. PICK ls : ls = Tokens(f)
      OBVIOUS
    <3>2. /\ ls \in Levels(Byte) /\ Joined(ls) = f /\ (Gated(f) <=> GatedLevels(ls))
      BY <2>3, <3>1, GatedIs
    <3>3. ls = w <=> f = g
      BY <1>1, <1>2, <3>1, <3>2
    <3>4. GatedLevels(ls) => (Seen(tokens, stack', ls) <=> Seen(tokens, stack, ls) \/ ls = w)
      BY <3>2, Zenon DEF Sees
    <3>5. ls = w => GatedLevels(ls)
      BY <1>2
    <3>6. Finds(tokens, stack, f)' <=> Gated(f) /\ Seen(tokens, stack', ls)
      BY <1>4, <2>1, <2>3, <3>1 DEF Finds
    <3>7. Finds(tokens, stack, f) <=> Gated(f) /\ Seen(tokens, stack, ls)
      BY <2>3, <3>1 DEF Finds
    <3> QED BY <2>3, <3>2, <3>3, <3>4, <3>5, <3>6, <3>7, Zenon
  <2> QED BY <2>2, <2>3
<1>6. ~ Finds(tokens, stack, g)
  BY <1>2 DEF Finds
<1>7. g \notin Range(visited)
  BY <1>3, <1>6 DEF Found
<1>8. PICK m \in Nat : m = Len(visited)
  BY <1>3, LenProperties
<1>9. DOMAIN visited = 1 .. m /\ (\A i \in 1 .. m : visited[i] \in Range(visited))
  BY <1>3, <1>8, LenProperties DEF Range
<1>10. CASE g \notin table
  <2>1. visited' = visited
    BY <1>4, <1>10
  <2>2. \A f : f \in Range(visited') <=> f \in Range(visited)
    BY <2>1
  <2>3. \A f : Finds(tokens, stack, f)' <=> Finds(tokens, stack, f)
    BY <1>5, <1>10
  <2>4. Found'
    BY <1>3, <2>2, <2>3, Zenon DEF Found
  <2>5. InOrder'
    BY <1>3, <1>4, <2>1 DEF InOrder
  <2> QED BY <1>3, <2>1, <2>4, <2>5
<1>11. CASE g \in table
  <2>1. PICK v : v = visited'
    OBVIOUS
  <2>2. v = Append(visited, g)
    BY <1>4, <1>11, <2>1
  <2>3. /\ DOMAIN v = 1 .. m + 1 /\ v[m + 1] = g /\ \A i \in 1 .. m : v[i] = visited[i]
    <3>1. v \in Seq(table) /\ Len(v) = m + 1 /\ v[m + 1] = g /\ \A i \in 1 .. m : v[i] = visited[i]
      BY <1>3, <1>8, <1>11, <2>2, AppendProperties
    <3> QED BY <3>1, LenProperties
  <2>4. \A i \in 1 .. m + 1 : i \in 1 .. m \/ i = m + 1
    OBVIOUS
  <2>5. \A f : f \in Range(v) <=> f \in Range(visited) \/ f = g
    <3>1. \A f : f \in Range(v) <=> \E i \in 1 .. m + 1 : f = v[i]
      BY <2>3 DEF Range
    <3>2. \A f : f \in Range(visited) <=> \E i \in 1 .. m : f = visited[i]
      BY <1>9 DEF Range
    <3>3. m + 1 \in 1 .. m + 1 /\ \A i \in 1 .. m : i \in 1 .. m + 1
      OBVIOUS
    <3>4. ASSUME NEW f, f \in Range(v) PROVE f \in Range(visited) \/ f = g
      <4>1. PICK i \in 1 .. m + 1 : f = v[i]
        BY <3>1, <3>4
      <4>2. CASE i \in 1 .. m
        <5>1. f = visited[i]
          BY <2>3, <4>1, <4>2
        <5> QED BY <3>2, <4>2, <5>1, Zenon
      <4>3. CASE i = m + 1
        BY <2>3, <4>1, <4>3
      <4> QED BY <2>4, <4>2, <4>3
    <3>5. ASSUME NEW f, f \in Range(visited) PROVE f \in Range(v)
      <4>1. PICK i \in 1 .. m : f = visited[i]
        BY <3>2, <3>5
      <4>2. f = v[i] /\ i \in 1 .. m + 1
        BY <2>3, <3>3, <4>1
      <4> QED BY <3>1, <4>2, Zenon
    <3>6. g \in Range(v)
      BY <2>3, <3>1, <3>3, Zenon
    <3> QED BY <3>4, <3>5, <3>6
  <2>6. \A f : Finds(tokens, stack, f)' <=> Finds(tokens, stack, f) \/ f = g
    BY <1>5, <1>11
  <2>7. Found'
    BY <1>3, <2>1, <2>5, <2>6, Zenon DEF Found
  <2>8. IsInjective(v)
    <3> SUFFICES ASSUME NEW a \in 1 .. m + 1, NEW c \in 1 .. m + 1, v[a] = v[c] PROVE a = c
      BY <2>3 DEF IsInjective
    <3>1. CASE a \in 1 .. m /\ c \in 1 .. m
      <4>1. visited[a] = visited[c]
        BY <2>3, <3>1
      <4> QED BY <1>3, <1>9, <3>1, <4>1 DEF IsInjective
    <3>2. CASE a = m + 1 /\ c \in 1 .. m
      BY <1>7, <1>9, <2>3, <3>2
    <3>3. CASE c = m + 1 /\ a \in 1 .. m
      BY <1>7, <1>9, <2>3, <3>3
    <3> QED BY <2>4, <3>1, <3>2, <3>3
  <2>9. InOrder'
    <3> SUFFICES ASSUME Len(tokens) = 1, NEW i \in 1 .. m + 1, NEW j \in 1 .. m + 1, i < j
                 PROVE  v[j] # name /\ v[i] # Hash
      BY <1>4, <2>1, <2>3 DEF InOrder
    <3>1. i \in 1 .. m
      OBVIOUS
    <3>2. v[i] = visited[i] /\ visited[i] \in Range(visited)
      BY <1>9, <2>3, <3>1
    <3>3. v[i] # Hash /\ frame.next # "token"
      BY <3>2, OneLevelFound
    <3>4. CASE j \in 1 .. m
      <4>1. visited[j] # name
        BY <1>3, <1>9, <3>1, <3>4 DEF InOrder
      <4>2. v[j] = visited[j]
        BY <2>3, <3>4
      <4> QED BY <3>3, <4>1, <4>2
    <3>5. CASE j = m + 1
      <4> SUFFICES ASSUME g = name PROVE FALSE
        BY <2>3, <3>3, <3>5
      <4>1. /\ tokens = Tokens(name) /\ Unmarked(tokens) /\ k \in 1 .. Len(tokens)
        BY Here
      <4>2. w[k] = tokens[k]
        BY <1>2, <4>1
      <4> QED BY <1>2, <3>3, <4>1, <4>2 DEF Unmarked
    <3> QED BY <2>4, <3>3, <3>4, <3>5
  <2> QED BY <2>1, <2>7, <2>8, <2>9
<1> QED BY <1>10, <1>11

-----------------------------------------------------------------------------
(* The bytes behind what has been written                                  *)

(* What RestIsTraces says of the innermost call, the byte j in question.   *)
Unwritten(f, j) == f.len + Width(f) <= j /\ ~ (f.next = "unplus" /\ j = f.len + 1)

LEMMA RestKept ==
  ASSUME FoundInv, Regular(name), stack # <<>>, SeesMore, tokens' = tokens, name' = name,
         NEW L, NEW W, NEW step,
         stack' # <<>> => frame'.len = L /\ frame'.next = step /\ Width(frame)' = W,
         \A j \in 0 .. Len(name) :
           L + W <= j /\ ~ (step = "unplus" /\ j = L + 1) =>
             \/ buf'[j] = NUL
             \/ Trace(tokens, stack', j)
             \/ Unwritten(frame, j) /\ buf'[j] = buf[j]
  PROVE  RestIsTraces'
<1> SUFFICES ASSUME stack' # <<>>, NEW j \in 0 .. Len(name),
                    L + W <= j, ~ (step = "unplus" /\ j = L + 1)
             PROVE  buf'[j] = NUL \/ Trace(tokens, stack', j)
  BY DEF RestIsTraces
<1>1. CASE Unwritten(frame, j) /\ buf'[j] = buf[j]
  <2>1. buf[j] = NUL \/ Trace(tokens, stack, j)
    BY <1>1 DEF FoundInv, RegularInv, RestIsTraces, Unwritten
  <2>2. ASSUME Trace(tokens, stack, j) PROVE Trace(tokens, stack', j)
    <3>1. tokens \in Levels(Byte)
      BY Here
    <3>2. PICK ts, st, st2 : ts = tokens /\ st = stack /\ st2 = stack'
      OBVIOUS
    <3>3. \A ls \in Levels(Byte) : Fitting(ts, ls) /\ Seen(ts, st, ls) => Seen(ts, st2, ls)
      BY <3>2 DEF SeesMore
    <3>4. Trace(ts, st2, j)
      BY <2>2, <3>1, <3>2, <3>3, TraceGrows
    <3> QED BY <3>2, <3>4
  <2> QED BY <1>1, <2>1, <2>2
<1> QED BY <1>1

(* The length of a filter that the innermost call writes.                  *)
LEMMA LengthHere ==
  ASSUME FoundInv, Regular(name), stack # <<>>, NEW k, k = Len(stack), NEW s \in Seq(Byte),
         NEW w, w = Append(Path(tokens, stack, k - 1), s)
  PROVE  /\ Len(Place(w)) = frame.len + Len(s) + 1 /\ Len(Joined(w)) = frame.len + Len(s)
         /\ frame.len \in Nat /\ Len(s) \in Nat /\ Len(Place(w)) \in Nat
<1>1. PICK p \in Seq(Seq(Byte)) : p = Path(tokens, stack, k - 1)
  BY Here
<1>2. PICK L \in Nat : L = frame.len /\ L = Len(Place(p))
  BY <1>1, Here
<1>3. /\ Len(Joined(Append(p, s))) = Len(Place(p)) + Len(s)
      /\ Len(Place(Append(p, s))) = Len(Place(p)) + Len(s) + 1
      /\ Len(s) \in Nat
  BY Bytes, PlaceGrows
<1>4. PICK d \in Nat : d = Len(s)
  BY <1>3
<1>5. Len(Joined(w)) = L + d /\ Len(Place(w)) = L + d + 1
  BY <1>1, <1>2, <1>3, <1>4
<1> QED BY <1>2, <1>4, <1>5

-----------------------------------------------------------------------------
(* The steps                                                               *)

LEMMA FindingStays ==
  ASSUME FoundInv, Regular(name), stack # <<>>, NEW k, k = Len(stack),
         NEW s \in Seq(Byte), NEW away, NEW back, Choice(k, s, away, back),
         NEW w, w = Append(Path(tokens, stack, k - 1), s), SeesMore, Sees(w),
         NEW b, NEW c, Written(s, w, b, c), UNCHANGED <<name, tokens, table>>,
         Upcoming(k, s, w),
         \/ stack' = Then(away) /\ buf' = b
         \/ stack' = Then(back) /\ buf' = c
  PROVE  Placed' /\ FrontIsPath' /\ PathFound' /\ RestIsTraces' /\ Cleared'
<1>1. PICK N \in Nat, L \in Nat, d \in Nat : N = Len(name) /\ L = frame.len /\ d = Len(s)
  BY Here, LengthHere
<1>2. /\ \A j \in 0 .. N : L + d <= j => b[j] = buf[j]
      /\ \A j \in 0 .. N : j < L => b[j] = buf[j] /\ c[j] = buf[j]
      /\ \A j \in 0 .. N : L + d + 1 <= j => c[j] = buf[j]
  BY <1>1 DEF Written
<1>3. /\ tokens \in Levels(Byte) /\ k \in 1 .. Len(tokens) /\ Len(tokens) \in Nat
      /\ token = tokens[k] /\ frame.token = k /\ L + Len(token) <= N
      /\ Len(token) \in Nat /\ Len(token) >= 2
      /\ WalkInv
  BY <1>1, Here DEF FoundInv
<1>4. Width(frame) = 0
  BY Innermost DEF Choice, FoundInv
<1>5. \A j \in 0 .. N : L <= j => Unwritten(frame, j)
  <2>1. \A j \in 0 .. N : L <= j => L + 0 <= j
    OBVIOUS
  <2>2. frame.next # "unplus"
    BY DEF Choice
  <2> QED BY <1>1, <1>4, <2>1, <2>2 DEF Unwritten
<1>6. PICK step : /\ stack' = Then(step)
                  /\ \/ step = away /\ buf' = b
                     \/ step = back /\ buf' = c
  <2>1. CASE stack' = Then(away) /\ buf' = b
    BY <2>1, Zenon
  <2>2. CASE stack' = Then(back) /\ buf' = c
    BY <2>2, Zenon
  <2> QED BY <2>1, <2>2
<1>7. step \in Steps /\ step \in {"clear", "hash", "unplus"}
  BY <1>6 DEF Choice, Steps
<1>8. Placed' /\ FrontIsPath' /\ PathFound'
  <2>1. \A j \in 0 .. Len(name) : j < frame.len => buf'[j] = buf[j]
    BY <1>1, <1>2, <1>6
  <2> QED BY <1>6, <1>7, <2>1, StayKeepsPath
<1>9. frame'.len = L /\ frame'.next = step /\ frame'.token = k
  <2>1. PICK st : st = stack' /\ st = Then(step)
    BY <1>6
  <2>2. Len(st) = k /\ st[k].next = step /\ st[k].len = frame.len /\ st[k].token = frame.token
    BY <1>3, <1>7, <2>1, ThenShape
  <2> QED BY <1>1, <1>3, <2>1, <2>2 DEF frame, Last
<1>10. Width(frame)' = d
  <2>1. CASE s = tokens[k] /\ step = "clear"
    BY <1>1, <1>9, <2>1 DEF Width
  <2>2. CASE s = Plus /\ step \in {"hash", "unplus"}
    <3>1. d = 1
      BY <1>1, <2>2, Bytes
    <3> QED BY <1>9, <2>2, <3>1 DEF Width
  <2> QED BY <1>6, <2>1, <2>2 DEF Choice
<1>11. RestIsTraces'
  <2>1. ASSUME NEW j \in 0 .. N, L + d <= j, ~ (step = "unplus" /\ j = L + 1)
        PROVE  \/ buf'[j] = NUL
               \/ Trace(tokens, stack', j)
               \/ Unwritten(frame, j) /\ buf'[j] = buf[j]
    <3>1. Unwritten(frame, j)
      <4>1. L <= j
        BY <2>1
      <4> QED BY <1>5, <4>1
    <3>2. CASE buf' = b
      BY <1>2, <2>1, <3>1, <3>2
    <3>3. CASE L + d + 1 <= j
      BY <1>2, <1>6, <2>1, <3>1, <3>3
    <3>4. CASE j = L + d /\ step = back /\ buf' = c
      <4>1. s # Plus \/ back # "unplus"
        <5>1. Len(Plus) = 1
          BY Bytes
        <5> QED BY <1>1, <2>1, <3>4, <5>1
      <4>2. s = tokens[k]
        BY <4>1 DEF Choice
      <4>3. w \in Variants(tokens)
        BY <1>3, <4>2, PathVariant
      <4>4. Seen(tokens, stack', w)
        BY DEF Sees, Upcoming
      <4>5. Len(Joined(w)) = j
        BY <1>1, <3>4, LengthHere
      <4> QED BY <4>3, <4>4, <4>5, Zenon DEF Trace
    <3>5. j = L + d \/ L + d + 1 <= j
      BY <2>1
    <3> QED BY <1>6, <3>2, <3>3, <3>4, <3>5
  <2> QED BY <1>1, <1>9, <1>10, <2>1, RestKept
<1>12. Cleared'
  <2>1. CASE step # "hash"
    BY <1>7, <1>9, <2>1 DEF Cleared
  <2>2. CASE step = "hash"
    <3>1. s = Plus /\ frame.next = "plus" /\ buf' = b
      BY <1>6, <2>2 DEF Choice
    <3>2. d = 1
      BY <1>1, <3>1, Bytes
    <3>3. buf[L + 1] = NUL
      BY <1>1, <3>1 DEF FoundInv, RegularInv, Cleared
    <3>4. L + 1 \in 0 .. N /\ L + d <= L + 1
      BY <1>3, <3>2
    <3>5. buf'[L + 1] = NUL
      BY <1>2, <3>1, <3>3, <3>4
    <3> QED BY <1>9, <2>2, <3>5 DEF Cleared
  <2> QED BY <2>1, <2>2
<1> QED BY <1>8, <1>11, <1>12

LEMMA FindingCalls ==
  ASSUME FoundInv, Regular(name), stack # <<>>, NEW k, k = Len(stack), k < Len(tokens),
         NEW s \in Seq(Byte), NEW away, NEW back, Choice(k, s, away, back),
         NEW w, w = Append(Path(tokens, stack, k - 1), s), SeesMore, Joined(w) \in table,
         NEW b, NEW c, Written(s, w, b, c), Separated(w, c), UNCHANGED <<name, tokens, table>>,
         stack' = Append(Then(back), Call(k + 1, Len(Place(w)))), buf' = c
  PROVE  Placed' /\ FrontIsPath' /\ PathFound' /\ RestIsTraces' /\ Cleared'
<1>1. PICK N \in Nat, L \in Nat, d \in Nat : N = Len(name) /\ L = frame.len /\ d = Len(s)
  BY Here, LengthHere
<1>2. \A j \in 0 .. N : L + d + 1 <= j => c[j] = buf[j]
  BY <1>1 DEF Written
<1>3. /\ k \in 1 .. Len(tokens) /\ Len(tokens) \in Nat /\ WalkInv
  BY Here DEF FoundInv
<1>4. Width(frame) = 0 /\ frame.next # "unplus"
  BY <1>3, Innermost DEF Choice
<1>5. back \in Steps
  BY DEF Choice, Steps
<1>6. s = Level(tokens, Then(back), k)
  <2>1. Then(back)[k].next = back
    BY <1>3, <1>5, ThenShape
  <2> QED BY <2>1 DEF Level, Choice
<1>7. Placed' /\ FrontIsPath' /\ PathFound'
  <2>1. \A j \in 0 .. Len(Place(w)) - 1 : buf'[j] = Place(w)[j + 1]
    BY DEF Separated
  <2> QED BY <1>5, <1>6, <2>1, CallKeepsPath
<1>8. PICK M \in Nat : M = Len(Place(w)) /\ M = L + d + 1
  BY <1>1, LengthHere
<1>9. frame'.len = M /\ frame'.next = "token"
  <2>1. PICK st : st = stack' /\ st = Append(Then(back), Call(k + 1, M))
    BY <1>8
  <2>2. PICK m \in Nat : m = k + 1
    BY <1>3
  <2>3. Calling(k, back, m, M, st)
    BY <1>3, <1>5, <2>1, <2>2, CallShape
  <2> QED BY <2>1, <2>2, <2>3 DEF frame, Last, Calling
<1>10. Width(frame)' = 0
  BY <1>9 DEF Width
<1>11. RestIsTraces'
  <2>1. ASSUME NEW j \in 0 .. N, M + 0 <= j
        PROVE  Unwritten(frame, j) /\ buf'[j] = buf[j]
    <3>1. L + 0 <= j /\ L + d + 1 <= j
      BY <1>8, <2>1
    <3> QED BY <1>1, <1>2, <1>4, <3>1 DEF Unwritten
  <2> QED BY <1>1, <1>9, <1>10, <2>1, RestKept
<1>12. Cleared'
  BY <1>9 DEF Cleared
<1> QED BY <1>7, <1>11, <1>12

LEMMA FindingKeeps ==
  ASSUME FoundInv, Regular(name), stack # <<>>, NEW k, k = Len(stack),
         NEW s \in Seq(Byte), NoSep(s), NEW away, NEW back, Choice(k, s, away, back),
         NEW w, w = Append(Path(tokens, stack, k - 1), s), Finding(k, s, w, away, back)
  PROVE  RegularInv'
<1>1. SeesMore /\ Sees(w)
  BY FindingSees
<1>2. \/ s = tokens[k] /\ frame.next = "token"
      \/ s = Plus /\ frame.next = "plus"
      \/ s = Hash /\ frame.next = "hash"
  BY DEF Choice
<1>3. Upcoming(k, s, w)
  BY <1>2, NextFilter
<1>4. PICK b, c : b = Write(buf, frame.len, s) /\ c = Write(b, frame.len + Len(s), <<Sep>>)
  OBVIOUS
<1>5. /\ Visits(w) /\ Written(s, w, b, c)
      /\ \/ Joined(w) \notin table /\ stack' = Then(away) /\ buf' = b
         \/ Joined(w) \in table /\ k = Len(tokens) /\ stack' = Then(back) /\ buf' = c
         \/ /\ Joined(w) \in table /\ k < Len(tokens) /\ Separated(w, c)
            /\ stack' = Append(Then(back), Call(k + 1, Len(Place(w)))) /\ buf' = c
  BY <1>4 DEF Finding
<1>6. Found' /\ IsInjective(visited') /\ InOrder'
  BY <1>1, <1>2, <1>5, VisitsFind
<1>7. UNCHANGED <<name, tokens, table>> /\ ~ overrun'
  BY <1>5 DEF Visits, FoundInv, RegularInv
<1>8. Placed' /\ FrontIsPath' /\ PathFound' /\ RestIsTraces' /\ Cleared'
  <2>1. CASE \/ stack' = Then(away) /\ buf' = b
             \/ stack' = Then(back) /\ buf' = c
    BY <1>1, <1>3, <1>5, <1>7, <2>1, FindingStays
  <2>2. CASE /\ Joined(w) \in table /\ k < Len(tokens) /\ Separated(w, c)
             /\ stack' = Append(Then(back), Call(k + 1, Len(Place(w)))) /\ buf' = c
    BY <1>1, <1>5, <1>7, <2>2, FindingCalls
  <2> QED BY <1>5, <2>1, <2>2
<1> QED BY <1>6, <1>7, <1>8 DEF RegularInv

LEMMA FindTokenFinds ==
  ASSUME FoundInv, Regular(name), FindToken
  PROVE  RegularInv'
<1>1. PICK k : k = Len(stack)
  OBVIOUS
<1>2. stack # <<>> /\ frame.next = "token"
  BY DEF FindToken, Active
<1>3. tokens[k] \in Seq(Byte) /\ NoSep(tokens[k])
  BY <1>1, <1>2, Here
<1>4. PICK s \in Seq(Byte), a \in {"clear"} : s = tokens[k] /\ a = "clear"
  BY <1>3
<1>5. PICK w : w = Append(Path(tokens, stack, k - 1), s)
  OBVIOUS
<1>6. Choice(k, s, a, a) /\ NoSep(s)
  BY <1>2, <1>3, <1>4 DEF Choice
<1>7. Finding(k, s, w, a, a)
  <2>1. w = Append(Path(tokens, stack, k - 1), tokens[k])
    BY <1>4, <1>5
  <2>2. Finding(k, tokens[k], w, "clear", "clear")
    BY <1>1, <2>1, FindingToken
  <2> QED BY <1>4, <2>2
<1> QED BY <1>1, <1>2, <1>5, <1>6, <1>7, FindingKeeps

LEMMA FindPlusFinds ==
  ASSUME FoundInv, Regular(name), FindPlus
  PROVE  RegularInv'
<1>1. PICK k : k = Len(stack)
  OBVIOUS
<1>2. stack # <<>> /\ frame.next = "plus"
  BY DEF FindPlus, Active
<1>3. PICK s \in Seq(Byte), a \in {"hash"}, b \in {"unplus"} : s = Plus /\ NoSep(s) /\ a = "hash" /\ b = "unplus"
  BY Bytes
<1>4. PICK w : w = Append(Path(tokens, stack, k - 1), s)
  OBVIOUS
<1>5. Choice(k, s, a, b)
  BY <1>2, <1>3 DEF Choice
<1>6. Finding(k, s, w, a, b)
  <2>1. w = Append(Path(tokens, stack, k - 1), Plus)
    BY <1>3, <1>4
  <2>2. Finding(k, Plus, w, "hash", "unplus")
    BY <1>1, <2>1, FindingPlus
  <2> QED BY <1>3, <2>2
<1> QED BY <1>1, <1>2, <1>3, <1>4, <1>5, <1>6, FindingKeeps

(* A step that looks nothing up.                                           *)
LEMMA ClearingFinds ==
  ASSUME FoundInv, Regular(name), stack # <<>>,
         UNCHANGED <<name, tokens, table, visited, overrun>>,
         \A ls \in Levels(Byte) : Seen(tokens, stack', ls) <=> Seen(tokens, stack, ls)
  PROVE  Found' /\ IsInjective(visited') /\ InOrder' /\ SeesMore /\ ~ overrun'
<1>1. ASSUME NEW f PROVE Finds(tokens, stack, f)' <=> Finds(tokens, stack, f)
  <2>1. Gated(f)' <=> Gated(f)
    BY DEF Gated
  <2>2. CASE f \notin table
    BY <2>2 DEF Finds
  <2>3. CASE f \in table
    <3>1. Tokens(f) \in Levels(Byte)
      BY <2>3, GatedIs
    <3>2. Seen(tokens, stack', Tokens(f)) <=> Seen(tokens, stack, Tokens(f))
      BY <3>1
    <3> QED BY <2>1, <2>3, <3>2 DEF Finds
  <2> QED BY <2>2, <2>3
<1>2. Found'
  <2>1. Found /\ visited' = visited
    BY DEF FoundInv, RegularInv
  <2> QED BY <1>1, <2>1 DEF Found
<1>3. SeesMore
  BY DEF SeesMore
<1> QED BY <1>2, <1>3 DEF FoundInv, RegularInv, InOrder

LEMMA ClearTokenFinds ==
  ASSUME FoundInv, Regular(name), ClearToken
  PROVE  RegularInv'
<1>1. /\ stack # <<>> /\ frame.next = "clear" /\ stack' = Then("plus")
      /\ buf' = Clear(buf, frame.len, Len(token))
      /\ UNCHANGED <<name, tokens, table, visited, overrun>>
  BY DEF ClearToken, Active
<1>2. Found' /\ IsInjective(visited') /\ InOrder' /\ SeesMore /\ ~ overrun'
  BY <1>1, ClearingSees, ClearingFinds
<1>3. PICK k : k = Len(stack)
  OBVIOUS
<1>4. PICK N \in Nat, L \in Nat, d \in Nat :
        k = Len(stack) /\ N = Len(name) /\ L = frame.len /\ d = Len(token)
  BY <1>1, <1>3, Here
<1>5. /\ L + d <= N /\ d >= 2 /\ DOMAIN buf = 0 .. N /\ WalkInv
      /\ k \in 1 .. Len(tokens) /\ Len(tokens) \in Nat /\ token = tokens[k] /\ frame.token = k
      /\ (k < Len(tokens) => d >= 3)
  BY <1>1, <1>4, Here DEF FoundInv
<1>6. \A j \in 0 .. N : buf'[j] = IF j \in L .. L + d - 1 THEN NUL ELSE buf[j]
  BY <1>1, <1>4, <1>5 DEF Clear
<1>7. PICK step \in Steps : step = "plus"
  BY DEF Steps
<1>8. Placed' /\ FrontIsPath' /\ PathFound'
  <2>1. \A j \in 0 .. N : j < L => buf'[j] = buf[j]
    BY <1>6
  <2> QED BY <1>1, <1>4, <1>7, <2>1, StayKeepsPath
<1>9. frame'.len = L /\ frame'.next = "plus" /\ Len(stack') = k
  <2>1. PICK st : st = stack' /\ st = Then(step)
    BY <1>1, <1>7
  <2>2. Len(st) = k /\ st[k].next = step /\ st[k].len = frame.len
    BY <1>1, <1>4, <1>5, <2>1, ThenShape
  <2> QED BY <1>4, <1>7, <2>1, <2>2 DEF frame, Last
<1>10. Width(frame)' = 0
  BY <1>9 DEF Width
<1>11. RestIsTraces'
  <2>1. Width(frame) = d
    BY <1>1, <1>4, <1>5, Innermost
  <2>2. ASSUME NEW j \in 0 .. N, L + 0 <= j
        PROVE  buf'[j] = NUL \/ (Unwritten(frame, j) /\ buf'[j] = buf[j])
    <3>1. j \in L .. L + d - 1 \/ (L + d <= j /\ j \notin L .. L + d - 1)
      BY <2>2
    <3> QED BY <1>1, <1>4, <1>6, <2>1, <3>1 DEF Unwritten
  <2> QED BY <1>1, <1>2, <1>4, <1>9, <1>10, <2>2, RestKept
<1>12. Cleared'
  <2>1. L + 1 \in 0 .. N /\ L + 1 \in L .. L + d - 1
    BY <1>5
  <2>2. k < Len(tokens) => L + 2 \in 0 .. N /\ L + 2 \in L .. L + d - 1
    BY <1>5
  <2>3. buf'[L + 1] = NUL /\ (k < Len(tokens) => buf'[L + 2] = NUL)
    BY <1>6, <2>1, <2>2
  <2> QED BY <1>1, <1>9, <2>3 DEF Cleared
<1> QED BY <1>2, <1>8, <1>11, <1>12 DEF RegularInv

LEMMA ClearPlusFinds ==
  ASSUME FoundInv, Regular(name), ClearPlus
  PROVE  RegularInv'
<1>1. /\ stack # <<>> /\ frame.next = "unplus" /\ stack' = Then("hash")
      /\ buf' = Clear(buf, frame.len + 1, 1)
      /\ UNCHANGED <<name, tokens, table, visited, overrun>>
  BY DEF ClearPlus, Active
<1>2. Found' /\ IsInjective(visited') /\ InOrder' /\ SeesMore /\ ~ overrun'
  BY <1>1, ClearingSees, ClearingFinds
<1>3. PICK k : k = Len(stack)
  OBVIOUS
<1>4. PICK N \in Nat, L \in Nat, d \in Nat :
        k = Len(stack) /\ N = Len(name) /\ L = frame.len /\ d = Len(token)
  BY <1>1, <1>3, Here
<1>5. L + d <= N /\ d >= 2 /\ DOMAIN buf = 0 .. N /\ WalkInv
  BY <1>1, <1>4, Here DEF FoundInv
<1>6. \A j \in 0 .. N : buf'[j] = IF j = L + 1 THEN NUL ELSE buf[j]
  <2>1. \A j \in 0 .. N : j \in L + 1 .. L + 1 + 1 - 1 <=> j = L + 1
    OBVIOUS
  <2>2. \A j \in 0 .. N : buf'[j] = IF j \in L + 1 .. L + 1 + 1 - 1 THEN NUL ELSE buf[j]
    BY <1>1, <1>4, <1>5 DEF Clear
  <2> QED BY <2>1, <2>2
<1>7. PICK step \in Steps : step = "hash"
  BY DEF Steps
<1>8. Placed' /\ FrontIsPath' /\ PathFound'
  <2>1. \A j \in 0 .. N : j < L => buf'[j] = buf[j]
    BY <1>6
  <2> QED BY <1>1, <1>4, <1>7, <2>1, StayKeepsPath
<1>9. frame'.len = L /\ frame'.next = "hash"
  <2>1. PICK st : st = stack' /\ st = Then(step)
    BY <1>1, <1>7
  <2>2. Len(st) = k /\ st[k].next = step /\ st[k].len = frame.len
    BY <1>1, <1>4, <1>5, <2>1, ThenShape
  <2> QED BY <1>4, <1>7, <2>1, <2>2 DEF frame, Last
<1>10. Width(frame)' = 1 /\ Width(frame) = 1
  BY <1>1, <1>9 DEF Width
<1>11. RestIsTraces'
  <2>1. ASSUME NEW j \in 0 .. N, L + 1 <= j
        PROVE  buf'[j] = NUL \/ (Unwritten(frame, j) /\ buf'[j] = buf[j])
    BY <1>1, <1>4, <1>6, <1>10, <2>1 DEF Unwritten
  <2> QED BY <1>1, <1>2, <1>4, <1>9, <1>10, <2>1, RestKept
<1>12. Cleared'
  <2>1. L + 1 \in 0 .. N
    BY <1>5
  <2>2. buf'[L + 1] = NUL
    BY <1>6, <2>1
  <2> QED BY <1>9, <2>2 DEF Cleared
<1> QED BY <1>2, <1>8, <1>11, <1>12 DEF RegularInv

LEMMA FindHashFinds ==
  ASSUME FoundInv, Regular(name), FindHash
  PROVE  RegularInv'
<1>1. stack # <<>> /\ frame.next = "hash"
  BY DEF FindHash, Active
<1>2. PICK k : k = Len(stack)
  OBVIOUS
<1>3. PICK s \in Seq(Byte) : s = Hash /\ NoSep(s)
  BY Bytes
<1>4. PICK w : w = Append(Path(tokens, stack, k - 1), Hash) /\ w = Append(Path(tokens, stack, k - 1), s)
  BY <1>3
<1>5. /\ Visits(w) /\ stack' = Front(stack)
      /\ \A j \in 0 .. Len(name) : j # frame.len => buf'[j] = buf[j]
      /\ buf'[frame.len] = NUL
  BY <1>2, <1>4, FindingHash
<1>6. SeesMore /\ Sees(w)
  BY <1>1, <1>2, <1>4, <1>5, ReturnSees
<1>7. Found' /\ IsInjective(visited') /\ InOrder'
  BY <1>1, <1>2, <1>3, <1>4, <1>5, <1>6, VisitsFind
<1>8. UNCHANGED <<name, tokens, table>> /\ ~ overrun'
  BY <1>5 DEF Visits, FoundInv, RegularInv
<1>9. PICK N \in Nat, L \in Nat : N = Len(name) /\ L = frame.len
  BY <1>1, Here
<1>10. /\ tokens \in Levels(Byte) /\ k \in 1 .. Len(tokens) /\ Len(tokens) \in Nat
       /\ L = Len(Place(Path(tokens, stack, k - 1))) /\ WalkInv /\ Width(frame) = 1
  BY <1>1, <1>2, <1>9, Here DEF FoundInv, Width
<1>11. /\ Placed' /\ FrontIsPath' /\ PathFound'
       /\ stack' # <<>> =>
            /\ k - 1 \in 1 .. Len(tokens) /\ k > 1
            /\ frame' = stack[k - 1]
            /\ frame'.token = k - 1
            /\ frame'.next \in {"clear", "unplus"}
            /\ L = frame'.len
                   + (IF frame'.next = "unplus" THEN 1 ELSE Len(tokens[k - 1])) + 1
  <2>1. \A j \in 0 .. N : j < L => buf'[j] = buf[j]
    BY <1>5, <1>9
  <2> QED BY <1>1, <1>2, <1>5, <1>8, <1>9, <2>1, ReturnKeepsPath
<1>12. CASE stack' = <<>>
  <2>1. RestIsTraces' /\ Cleared'
    BY <1>12 DEF RestIsTraces, Cleared
  <2> QED BY <1>7, <1>8, <1>11, <2>1 DEF RegularInv
<1>13. CASE stack' # <<>>
  <2>1. PICK i \in 1 .. Len(tokens) : i = k - 1 /\ k = i + 1
    BY <1>10, <1>11, <1>13
  <2>2. PICK M, W, step : M = frame'.len /\ W = Width(frame)' /\ step = frame'.next
    OBVIOUS
  <2>3. /\ frame' = stack[i] /\ frame'.token = i /\ step \in {"clear", "unplus"}
        /\ W = IF step = "unplus" THEN 1 ELSE Len(tokens[i])
    BY <1>8, <1>11, <1>13, <2>1, <2>2 DEF Width
  <2>4. M \in Nat /\ W \in Nat /\ L = M + W + 1
    <3>1. stack[i] \in Frame
      BY <1>1, <1>2, <1>10, <2>1, CallFacts
    <3>2. stack[i].len \in Nat
      BY <1>9, <3>1 DEF Frame
    <3>3. Len(tokens[i]) \in Nat
      BY <1>10, Starts
    <3> QED BY <1>11, <1>13, <2>1, <2>2, <2>3, <3>2, <3>3
  <2>5. RestIsTraces'
    <3>1. ASSUME NEW j \in 0 .. N, M + W <= j, ~ (step = "unplus" /\ j = M + 1)
          PROVE  \/ buf'[j] = NUL
                 \/ Trace(tokens, stack', j)
                 \/ Unwritten(frame, j) /\ buf'[j] = buf[j]
      <4>1. j = L - 1 \/ j = L \/ L + 1 <= j
        BY <2>4, <3>1
      <4>2. CASE L + 1 <= j
        BY <1>1, <1>5, <1>9, <1>10, <4>2 DEF Unwritten
      <4>3. CASE j = L
        BY <1>5, <1>9, <4>3
      <4>4. CASE j = L - 1
        <5>1. step = "clear"
          BY <2>3, <2>4, <3>1, <4>4
        <5>2. PICK ts, st, x : ts = tokens /\ st = stack' /\ x = Path(ts, stack, i)
          OBVIOUS
        <5>3. Level(ts, stack, i) = ts[i]
          BY <2>2, <2>3, <5>1 DEF Level
        <5>4. x = Append(Path(ts, stack, i - 1), ts[i])
          BY <1>10, <5>2, <5>3, PathGrows
        <5>5. x \in Variants(ts)
          BY <1>10, <5>2, <5>4, PathVariant
        <5>6. /\ Len(x) = i /\ \A m \in 1 .. i : x[m] = Level(ts, stack, m)
              /\ x \in Levels(Byte)
          <6>1. i \in 0 .. Len(ts)
            BY <1>10, <5>2
          <6> QED BY <1>10, <5>2, <5>5, <6>1, PathLevels, VariantLevels
        <5>7. Len(Joined(x)) = j
          <6>1. PICK p \in Seq(Seq(Byte)), l \in Seq(Byte) :
                  p = Path(ts, stack, i - 1) /\ l = ts[i]
            <7>1. i - 1 \in 0 .. Len(ts) /\ i \in 1 .. Len(ts)
              BY <1>10, <5>2
            <7> QED BY <1>10, <5>2, <7>1, PathLevels, Starts
          <6>2. /\ Len(Place(p)) \in Nat /\ Len(l) \in Nat
                /\ Len(Joined(Append(p, l))) = Len(Place(p)) + Len(l)
                /\ Len(Place(Append(p, l))) = Len(Place(p)) + Len(l) + 1
            BY Bytes, PlaceGrows
          <6>3. L = Len(Place(x))
            BY <1>10, <2>1, <5>2
          <6>4. PICK a \in Nat, d \in Nat : a = Len(Place(p)) /\ d = Len(l)
            BY <6>2
          <6>5. x = Append(p, l)
            BY <5>4, <6>1
          <6>6. Len(Joined(x)) = a + d /\ L = a + d + 1
            BY <6>2, <6>3, <6>4, <6>5
          <6>7. L - 1 = a + d
            BY <6>6
          <6> QED BY <4>4, <6>6, <6>7
        <5>8. Seen(ts, st, x)
          <6>1. /\ Len(st) = i /\ \A m \in 1 .. i : st[m] = stack[m]
            <7>1. st = Front(stack) /\ WalkInv
              BY <1>5, <1>10, <5>2
            <7>2. Len(st) = k - 1 /\ \A m \in 1 .. k - 1 : st[m] = stack[m]
              BY <1>1, <1>2, <7>1, ReturnShape
            <7> QED BY <2>1, <7>2
          <6>2. \A m \in 1 .. i : Level(ts, st, m) = Level(ts, stack, m)
            BY <6>1 DEF Level
          <6>3. Along(ts, st, x, i - 1)
            <7>1. \A m \in 1 .. i - 1 : m \in 1 .. i
              OBVIOUS
            <7> QED BY <5>6, <6>2, <7>1 DEF Along
          <6>4. x[i] = ts[i] /\ st[i].next # "token" /\ i <= Len(x)
            <7>1. i \in 1 .. i /\ i <= i
              OBVIOUS
            <7> QED BY <2>2, <2>3, <5>1, <5>3, <5>6, <6>1, <7>1
          <6>5. Latest(ts, st, x, i)
            BY <6>3, <6>4 DEF Latest
          <6> QED BY <6>1, <6>5, Zenon DEF Seen
        <5> QED BY <5>2, <5>5, <5>7, <5>8, Zenon DEF Trace
      <4> QED BY <4>1, <4>2, <4>3, <4>4
    <3> QED BY <1>1, <1>6, <1>8, <1>9, <2>2, <3>1, RestKept
  <2>6. Cleared'
    BY <2>2, <2>3 DEF Cleared
  <2> QED BY <1>7, <1>8, <1>11, <2>5, <2>6 DEF RegularInv
<1> QED BY <1>12, <1>13

LEMMA InitFound == Init => FoundInv
<1> SUFFICES ASSUME Init PROVE FoundInv
  OBVIOUS
<1>1. WalkInv
  BY InitWalk
<1>2. tokens = Tokens(name) /\ table \subseteq Text
  BY WalkAssumption DEF Init
<1>3. ASSUME Regular(name) PROVE RegularInv
  <2>1. tokens \in Levels(Byte) /\ Len(tokens) \in Nat \ {0}
    <3>1. name \in Text
      BY <1>1 DEF WalkInv
    <3>2. tokens \in Levels(Byte)
      BY <1>2, <1>3, <3>1, RegularName
    <3> QED BY <3>2, Starts
  <2>2. /\ stack = <<Call(1, 0)>> /\ Call(1, 0).len = 0 /\ Call(1, 0).token = 1
        /\ Call(1, 0).next = "token" /\ visited = <<>> /\ ~ overrun
        /\ \A j \in 0 .. Len(name) : buf[j] = NUL
    BY DEF Init, Call
  <2>3. /\ stack # <<>> /\ Len(stack) = 1 /\ stack[1] = Call(1, 0) /\ frame = Call(1, 0)
    BY <2>2 DEF frame, Last
  <2>4. Path(tokens, stack, 0) = <<>> /\ Place(<<>>) = <<>> /\ Len(<<>>) = 0
    <3>1. 0 \in 0 .. Len(tokens)
      BY <2>1
    <3>2. PICK p : p = Path(tokens, stack, 0)
      OBVIOUS
    <3>3. p \in Seq(Seq(Byte)) /\ Len(p) = 0
      BY <2>1, <3>1, <3>2, PathLevels
    <3> QED BY <3>2, <3>3, EmptySeq DEF Place
  <2>5. Placed
    <3>1. Start(tokens, 1) = 0
      BY <2>1, Starts
    <3>2. 1 - 1 = 0 /\ \A i \in 1 .. 1 : i = 1
      OBVIOUS
    <3> QED BY <2>2, <2>3, <2>4, <3>1, <3>2 DEF Placed
  <2>6. FrontIsPath /\ RestIsTraces /\ Cleared /\ PathFound
    BY <2>2, <2>3 DEF FrontIsPath, RestIsTraces, Cleared, PathFound
  <2>7. ASSUME NEW f PROVE ~ Seen(tokens, stack, Tokens(f))
    <3>1. PICK ls, ts, st : ls = Tokens(f) /\ ts = tokens /\ st = stack
      OBVIOUS
    <3>2. ~ Earlier(ts, st, ls, 0)
      BY NothingEarlier
    <3>3. ~ Latest(ts, st, ls, 1)
      BY <2>2, <2>3, <3>1 DEF Latest
    <3>4. st # <<>> /\ Len(st) = 1 /\ Len(st) - 1 = 0
      BY <2>3, <3>1
    <3> QED BY <3>1, <3>2, <3>3, <3>4 DEF Seen
  <2>8. DOMAIN visited = {}
    BY <2>2, LenProperties, EmptySeq
  <2>9. Found
    BY <2>7, <2>8 DEF Found, Finds, Range
  <2>10. IsInjective(visited) /\ InOrder
    BY <2>8 DEF IsInjective, InOrder
  <2> QED BY <2>2, <2>5, <2>6, <2>9, <2>10 DEF RegularInv
<1> QED BY <1>1, <1>2, <1>3 DEF FoundInv

LEMMA NextFound ==
  ASSUME FoundInv, Next
  PROVE  FoundInv'
<1>1. WalkInv'
  BY NextWalk DEF FoundInv
<1>2. UNCHANGED <<name, tokens, table>>
  BY DEF Next, FindToken, ClearToken, FindPlus, ClearPlus, FindHash, LookUp, Overrun
<1>3. (tokens = Tokens(name) /\ table \subseteq Text)'
  BY <1>2 DEF FoundInv
<1>4. Regular(name)' => RegularInv'
  <2> SUFFICES ASSUME Regular(name)' PROVE RegularInv'
    OBVIOUS
  <2>1. Regular(name)
    BY <1>2
  <2> QED BY <2>1, FindTokenFinds, ClearTokenFinds, FindPlusFinds, ClearPlusFinds, FindHashFinds
          DEF Next
<1> QED BY <1>1, <1>3, <1>4 DEF FoundInv

(***************************************************************************)
(* Of a regular name, whatever filters have subscribers, the walk finds    *)
(* the gated ones, all of them and each of them once, in its buffer.       *)
(***************************************************************************)
THEOREM GatedFound == Spec => []FindsGated
<1>1. FoundInv /\ UNCHANGED vars => FoundInv'
  <2> SUFFICES ASSUME FoundInv, UNCHANGED vars PROVE FoundInv'
    OBVIOUS
  <2>1. UNCHANGED <<name, tokens, table, buf, stack, key, visited, overrun>>
    BY DEF vars
  <2>2. WalkInv'
    BY <2>1 DEF FoundInv, WalkInv, Calls, PrefixesKept, RestIsBlank, Width, Frame
  <2>3. RegularInv => RegularInv'
    BY <2>1 DEF RegularInv, Placed, FrontIsPath, RestIsTraces, Cleared, PathFound, Found,
             Finds, Gated, InOrder, Width, frame
  <2> QED BY <2>1, <2>2, <2>3 DEF FoundInv
<1>2. FoundInv /\ [Next]_vars => FoundInv'
  BY <1>1, NextFound
<1>3. FoundInv => FindsGated
  <2> SUFFICES ASSUME FoundInv, stack = <<>>, Regular(name)
               PROVE  /\ ~ overrun /\ IsInjective(visited) /\ InOrder
                      /\ Range(visited) = {f \in table : Gated(f)}
    BY DEF FindsGated, Done, InOrder, Hash
  <2>1. RegularInv
    BY DEF FoundInv
  <2>2. \A f : f \in Range(visited) <=> f \in table /\ Gated(f)
    BY <2>1 DEF RegularInv, Found, Finds, Seen
  <2> QED BY <2>1, <2>2 DEF RegularInv
<1> QED BY InitFound, <1>2, <1>3, PTL DEF Spec

-----------------------------------------------------------------------------
(* Among filters without wildcards                                         *)

First(i) == Joined(SubSeq(tokens, 1, i))

Chained == Len(Last(tokens)) >= 2 /\ \A f \in table : Literal(f)

(* Each call so far has found its filter, and there is nothing behind.     *)
Down ==
  Active("token") =>
    /\ Len(visited) = Len(stack) - 1
    /\ \A j \in 0 .. frame.len - 1 : buf[j] = Place(SubSeq(tokens, 1, Len(stack) - 1))[j + 1]
    /\ \A j \in frame.len .. Len(name) : buf[j] = NUL

(* The last byte of the name is cleared, or has never been written.        *)
Back ==
  ~ Active("token") =>
    /\ Len(visited) < Len(tokens) => First(Len(visited) + 1) \notin table
    /\ \/ stack = <<>>
       \/ frame.next = "clear" /\ Len(stack) = Len(tokens)
       \/ buf[Len(name) - 1] = NUL

(* No + has been found, and no separator has been put behind one.          *)
InLine ==
  \A i \in 1 .. Len(stack) : /\ stack[i].token = i
                             /\ stack[i].len = Start(tokens, i)
                             /\ stack[i].next # "unplus"

LiteralInv ==
  /\ ~ overrun
  /\ Len(visited) <= Len(tokens) /\ \A i \in DOMAIN visited : visited[i] = First(i)
  /\ InLine /\ Down /\ Back

ChainInv ==
  /\ WalkInv
  /\ tokens = Tokens(name)
  /\ Chained => LiteralInv

(* The levels of a name whose last one has two bytes.                      *)
LEMMA NameLevels ==
  ASSUME NEW s \in Text, NEW ts, ts = Tokens(s), Len(Last(ts)) >= 2
  PROVE  /\ ts \in Levels(Byte) /\ Len(ts) \in Nat \ {0} /\ Len(s) \in Nat
         /\ Start(ts, 1) = 0
         /\ \A i \in 1 .. Len(ts) :
              /\ ts[i] \in Seq(Byte) /\ Len(ts[i]) \in Nat /\ Start(ts, i) \in Nat
              /\ SubSeq(ts, 1, i - 1) \in Seq(Seq(Byte))
              /\ SubSeq(ts, 1, i) = Append(SubSeq(ts, 1, i - 1), ts[i])
              /\ Start(ts, i) + 2 <= Len(s)
              /\ Start(ts, i) + Len(ts[i]) <= Len(s)
              /\ i < Len(ts) => /\ Start(ts, i) + Len(ts[i]) + 3 <= Len(s)
                                /\ Start(ts, i + 1) = Start(ts, i) + Len(ts[i]) + 1
              /\ i = Len(ts) => Start(ts, i) + Len(ts[i]) = Len(s)
<1>1. s \in Seq(Byte)
  BY TextIsBytes
<1>2. ts \in Levels(Byte) /\ Joined(ts) = s
  BY <1>1, Bytes, TokensType, JoinedTokens
<1>3. PICK n \in Nat \ {0} : n = Len(ts)
  BY <1>2, Starts
<1>4. PICK N \in Nat : N = Len(s)
  BY <1>1
<1>5. /\ \A i \in 1 .. n : ts[i] \in Seq(Byte) /\ Len(ts[i]) \in Nat
      /\ \A i \in 1 .. n + 1 : Start(ts, i) \in Nat
      /\ \A i \in 1 .. n : Start(ts, i + 1) = Start(ts, i) + Len(ts[i]) + 1
      /\ ts \in Seq(Seq(Byte)) /\ Start(ts, n + 1) = N + 1 /\ Start(ts, 1) = 0
  BY <1>2, <1>3, <1>4, Starts
<1>6. n \in 1 .. n /\ n \in 1 .. n + 1 /\ n + 1 \in 1 .. n + 1 /\ Last(ts) = ts[n]
  BY <1>3 DEF Last
<1>7. PICK a \in Nat, l \in Nat : a = Start(ts, n) /\ l = Len(ts[n])
  BY <1>5, <1>6
<1>8. a + l = N /\ l >= 2 /\ a + 2 <= N
  <2>1. Start(ts, n + 1) = a + l + 1
    BY <1>5, <1>6, <1>7
  <2>2. a + l + 1 = N + 1
    BY <1>5, <2>1
  <2>3. l >= 2
    BY <1>6, <1>7
  <2> QED BY <2>2, <2>3
<1>9. ASSUME NEW i \in 1 .. n
      PROVE  /\ Start(ts, i) + 2 <= N
             /\ Start(ts, i) + Len(ts[i]) <= N
             /\ i < n => Start(ts, i) + Len(ts[i]) + 3 <= N
             /\ i = n => Start(ts, i) + Len(ts[i]) = N
  <2>1. PICK c \in Nat, d \in Nat : c = Start(ts, i) /\ d = Len(ts[i])
    <3>1. i \in 1 .. n + 1
      OBVIOUS
    <3> QED BY <1>5, <3>1
  <2>2. c <= a
    BY <1>2, <1>3, <1>6, <1>7, <2>1, StartsAscend
  <2>3. ASSUME i < n PROVE c + d + 3 <= N
    <3>1. i + 1 \in 1 .. n
      BY <2>3
    <3>2. Start(ts, i + 1) <= a
      BY <1>2, <1>3, <1>6, <1>7, <3>1, StartsAscend
    <3>3. Start(ts, i + 1) = c + d + 1
      BY <1>5, <2>1
    <3>4. c + d + 1 <= a
      BY <3>2, <3>3
    <3> QED BY <1>8, <3>4
  <2>4. ASSUME i = n PROVE c + d = N
    BY <1>7, <1>8, <2>1, <2>4
  <2>5. c + 2 <= N /\ c + d <= N
    <3>1. i < n \/ i = n
      OBVIOUS
    <3> QED BY <1>8, <2>2, <2>3, <2>4, <3>1
  <2> QED BY <2>1, <2>3, <2>4, <2>5
<1>10. ASSUME NEW i \in 1 .. n
       PROVE  /\ SubSeq(ts, 1, i - 1) \in Seq(Seq(Byte))
              /\ SubSeq(ts, 1, i) = Append(SubSeq(ts, 1, i - 1), ts[i])
              /\ Start(ts, i) \in Nat
  <2>1. i - 1 \in 0 .. n /\ i \in 1 .. n + 1
    OBVIOUS
  <2> QED BY <1>3, <1>5, <2>1, FirstLevels, NextLevel
<1> QED BY <1>2, <1>3, <1>4, <1>5, <1>9, <1>10

(* The innermost call.                                                     *)
LEMMA ChainHere ==
  ASSUME ChainInv, Chained, stack # <<>>, NEW k, k = Len(stack)
  PROVE  /\ WalkInv /\ LiteralInv /\ name \in Text /\ DOMAIN buf = 0 .. Len(name)
         /\ tokens \in Levels(Byte) /\ Len(tokens) \in Nat \ {0} /\ Len(name) \in Nat
         /\ k \in 1 .. Len(tokens) /\ frame = stack[k] /\ frame.token = k /\ frame.next \in Steps
         /\ frame.next # "unplus" /\ \A i \in 1 .. k - 1 : stack[i].next = "clear"
         /\ token = tokens[k] /\ token \in Seq(Byte) /\ Len(token) \in Nat
         /\ SubSeq(tokens, 1, k - 1) \in Seq(Seq(Byte))
         /\ SubSeq(tokens, 1, k) = Append(SubSeq(tokens, 1, k - 1), token)
         /\ First(k) = Joined(Append(SubSeq(tokens, 1, k - 1), token))
         /\ frame.len = Len(Place(SubSeq(tokens, 1, k - 1))) /\ frame.len \in Nat
         /\ frame.len = Start(tokens, k)
         /\ frame.len + 2 <= Len(name) /\ frame.len + Len(token) <= Len(name)
         /\ k < Len(tokens) => /\ frame.len + Len(token) + 3 <= Len(name)
                               /\ Start(tokens, k + 1) = frame.len + Len(token) + 1
         /\ k = Len(tokens) => frame.len + Len(token) = Len(name)
<1>1. PICK ts : ts = tokens
  OBVIOUS
<1>2. /\ WalkInv /\ LiteralInv /\ name \in Text /\ DOMAIN buf = 0 .. Len(name)
      /\ ts = Tokens(name) /\ Len(Last(ts)) >= 2
  BY <1>1 DEF ChainInv, WalkInv, Calls, Chained
<1>3. /\ ts \in Levels(Byte) /\ Len(ts) \in Nat \ {0} /\ Len(name) \in Nat
      /\ \A i \in 1 .. Len(ts) :
           /\ ts[i] \in Seq(Byte) /\ Len(ts[i]) \in Nat /\ Start(ts, i) \in Nat
           /\ SubSeq(ts, 1, i - 1) \in Seq(Seq(Byte))
           /\ SubSeq(ts, 1, i) = Append(SubSeq(ts, 1, i - 1), ts[i])
           /\ Start(ts, i) + 2 <= Len(name)
           /\ Start(ts, i) + Len(ts[i]) <= Len(name)
           /\ i < Len(ts) => /\ Start(ts, i) + Len(ts[i]) + 3 <= Len(name)
                             /\ Start(ts, i + 1) = Start(ts, i) + Len(ts[i]) + 1
           /\ i = Len(ts) => Start(ts, i) + Len(ts[i]) = Len(name)
  BY <1>2, NameLevels
<1>4. /\ k \in Nat /\ k >= 1 /\ frame = stack[k] /\ frame \in Frame
      /\ \A i \in 1 .. k - 1 : stack[i].next \in {"clear", "unplus"}
  <2>1. PICK L : L = frame.len
    OBVIOUS
  <2> QED BY <1>2, <2>1, CallFacts
<1>5. /\ frame.token = k /\ frame.len = Start(ts, k) /\ frame.next # "unplus"
      /\ \A i \in 1 .. k - 1 : stack[i].next # "unplus"
  BY <1>1, <1>2, <1>4 DEF LiteralInv, InLine
<1>6. k \in 1 .. Len(ts) /\ frame.next \in Steps
  BY <1>1, <1>4, <1>5 DEF Frame
<1>7. token = ts[k]
  BY <1>1, <1>5 DEF token
<1>8. /\ SubSeq(ts, 1, k) = Append(SubSeq(ts, 1, k - 1), ts[k])
      /\ First(k) = Joined(Append(SubSeq(ts, 1, k - 1), ts[k]))
  BY <1>1, <1>3, <1>6 DEF First
<1>9. frame.len = Len(Place(SubSeq(ts, 1, k - 1)))
  BY <1>5 DEF Start
<1> QED BY <1>1, <1>2, <1>3, <1>4, <1>5, <1>6, <1>7, <1>8, <1>9

(* A string with a wildcard in it is none of the filters.                  *)
LEMMA WildcardNotFound ==
  ASSUME WalkInv, stack # <<>>, \A f \in table : Literal(f),
         NEW x \in {PlusByte, HashByte}, NEW b, b = Write(buf, frame.len, <<x>>), Terminated(b)
  PROVE  Str(b) \notin table
<1>1. PICK n, L, N : n = Len(stack) /\ L = frame.len /\ N = Len(name)
  OBVIOUS
<1>2. /\ L \in 0 .. N /\ N \in Nat /\ n \in Nat /\ n >= 1 /\ stack[n].len = L
      /\ \A i \in 1 .. n : \A j \in 0 .. stack[i].len - 1 : buf[j] # NUL
  BY <1>1, CallFacts
<1>3. \A j \in 0 .. L - 1 : buf[j] # NUL
  BY <1>2
<1>4. DOMAIN buf = 0 .. N
  BY <1>1 DEF WalkInv, Calls
<1>5. x # NUL
  BY DEF PlusByte, HashByte, NUL
<1>6. /\ DOMAIN b = 0 .. N /\ b[L] = x
      /\ \A j \in 0 .. N : j < L => b[j] = buf[j]
  <2>1. b = [i \in 0 .. N |-> IF i \in L .. L + 1 - 1 THEN <<x>>[i - L + 1] ELSE buf[i]]
    BY <1>1, <1>4 DEF Write
  <2>2. \A i \in 0 .. N : i \in L .. L + 1 - 1 <=> i = L
    BY <1>2
  <2>3. L - L + 1 = 1 /\ <<x>>[1] = x
    BY <1>2
  <2>4. b = [i \in 0 .. N |-> IF i = L THEN <<x>>[i - L + 1] ELSE buf[i]]
    BY <2>1, <2>2
  <2>5. DOMAIN b = 0 .. N /\ b[L] = <<x>>[L - L + 1]
    BY <1>2, <2>4
  <2>6. \A j \in 0 .. N : j < L => b[j] = buf[j]
    BY <1>2, <2>4
  <2> QED BY <2>3, <2>5, <2>6
<1>7. PICK m : m = StrLen(b)
  OBVIOUS
<1>8. m \in 0 .. N /\ b[m] = NUL
  BY <1>2, <1>6, <1>7, StrLenIsFirst
<1>9. L < m
  <2>1. m # L
    BY <1>5, <1>6, <1>8
  <2>2. ~ (m < L)
    BY <1>2, <1>3, <1>6, <1>8
  <2> QED BY <1>2, <1>8, <2>1, <2>2
<1>10. L + 1 \in 1 .. m /\ (L + 1) - 1 = L
  BY <1>2, <1>8, <1>9
<1>11. PICK t : t = Str(b)
  OBVIOUS
<1>12. L + 1 \in DOMAIN t /\ t[L + 1] = x
  BY <1>6, <1>7, <1>10, <1>11 DEF Str
<1>13. ~ Literal(t)
  BY <1>12 DEF Literal
<1> QED BY <1>11, <1>13

(* The walk stays on its way back.                                         *)
LEMMA StaysBack ==
  ASSUME ChainInv, Chained, stack # <<>>, frame.next # "token",
         UNCHANGED <<name, tokens, table, visited, overrun>>,
         \/ \E step \in {"plus", "hash"} : stack' = Then(step)
         \/ stack' = Front(stack),
         buf'[Len(name) - 1] = NUL
  PROVE  LiteralInv'
<1>1. PICK k : k = Len(stack)
  OBVIOUS
<1>2. /\ WalkInv /\ LiteralInv /\ k \in Nat /\ k >= 1 /\ frame = stack[k]
      /\ \A i \in 1 .. k - 1 : stack[i].next = "clear"
  <2>1. /\ WalkInv /\ LiteralInv /\ k \in 1 .. Len(tokens) /\ frame = stack[k]
        /\ \A i \in 1 .. k - 1 : stack[i].next = "clear"
    BY <1>1, ChainHere
  <2>2. Len(tokens) \in Nat
    BY <1>1, ChainHere
  <2> QED BY <2>1, <2>2
<1>3. ~ Active("token")
  BY DEF Active
<1>4. InLine' /\ ~ Active("token")'
  <2>1. CASE \E step \in {"plus", "hash"} : stack' = Then(step)
    <3>1. PICK step \in {"plus", "hash"} : stack' = Then(step)
      BY <2>1
    <3>2. step \in Steps /\ step # "token" /\ step # "unplus"
      BY DEF Steps
    <3>3. PICK st : st = Then(step)
      OBVIOUS
    <3>4. /\ Len(st) = k /\ \A i \in 1 .. k - 1 : st[i] = stack[i]
          /\ st[k].next = step /\ st[k].len = frame.len /\ st[k].token = frame.token
      BY <1>1, <1>2, <3>2, <3>3, ThenShape
    <3>5. \A i \in 1 .. k : i = k \/ i \in 1 .. k - 1
      BY <1>2
    <3>6. InLine'
      BY <1>1, <1>2, <3>1, <3>2, <3>3, <3>4, <3>5 DEF LiteralInv, InLine
    <3>7. frame' = st[k]
      BY <3>1, <3>3, <3>4 DEF frame, Last
    <3> QED BY <3>2, <3>4, <3>6, <3>7 DEF Active
  <2>2. CASE stack' = Front(stack)
    <3>1. PICK st : st = stack'
      OBVIOUS
    <3>2. /\ Len(st) = k - 1 /\ (k = 1 => st = <<>>)
          /\ \A i \in 1 .. k - 1 : st[i] = stack[i]
      <4>1. st = Front(stack)
        BY <2>2, <3>1
      <4> QED BY <1>1, <1>2, <4>1, ReturnShape
    <3>3. \A i \in 1 .. k - 1 : i \in 1 .. k
      BY <1>2
    <3>4. InLine'
      BY <1>1, <1>2, <3>1, <3>2, <3>3 DEF LiteralInv, InLine
    <3>5. ASSUME k # 1 PROVE frame'.next = "clear"
      <4>1. k - 1 \in 1 .. k - 1
        BY <1>2, <3>5
      <4>2. frame' = stack[k - 1]
        BY <3>1, <3>2, <4>1 DEF frame, Last
      <4> QED BY <1>2, <4>1, <4>2
    <3> QED BY <3>1, <3>2, <3>4, <3>5 DEF Active
  <2> QED BY <2>1, <2>2
<1>5. Down' /\ Back'
  BY <1>2, <1>3, <1>4 DEF LiteralInv, Down, Back, First
<1> QED BY <1>2, <1>4, <1>5 DEF LiteralInv, First

LEMMA ClearTokenChains ==
  ASSUME ChainInv, Chained, ClearToken
  PROVE  LiteralInv'
<1>1. /\ stack # <<>> /\ frame.next = "clear"
      /\ UNCHANGED <<name, tokens, table, visited, overrun>>
      /\ buf' = Clear(buf, frame.len, Len(token)) /\ stack' = Then("plus")
  BY DEF ClearToken, Active
<1>2. PICK k, L, d, N : k = Len(stack) /\ L = frame.len /\ d = Len(token) /\ N = Len(name)
  OBVIOUS
<1>3. /\ LiteralInv /\ DOMAIN buf = 0 .. N /\ k \in 1 .. Len(tokens) /\ Len(tokens) \in Nat
      /\ L \in Nat /\ d \in Nat /\ N \in Nat /\ L + 2 <= N
      /\ k = Len(tokens) => L + d = N
  BY <1>1, <1>2, ChainHere
<1>4. N - 1 \in 0 .. N
  BY <1>3
<1>5. buf' = [i \in 0 .. N |-> IF i \in L .. L + d - 1 THEN NUL ELSE buf[i]]
  BY <1>1, <1>2, <1>3 DEF Clear
<1>6. N - 1 \in L .. L + d - 1 \/ buf[N - 1] = NUL
  <2>1. CASE k = Len(tokens)
    BY <1>3, <2>1
  <2>2. CASE k # Len(tokens)
    BY <1>1, <1>2, <1>3, <2>2 DEF LiteralInv, Back, Active
  <2> QED BY <2>1, <2>2
<1>7. buf'[N - 1] = NUL
  BY <1>4, <1>5, <1>6
<1> QED BY <1>1, <1>2, <1>7, StaysBack

(* A look-up with a wildcard in the place of the token.                    *)
LEMMA LookUpFails ==
  ASSUME ChainInv, Chained, stack # <<>>, frame.next \in {"plus", "hash"},
         NEW x \in {PlusByte, HashByte}, NEW b, b = Write(buf, frame.len, <<x>>)
  PROVE  /\ Fits(buf, frame.len, <<x>>) /\ Terminated(b) /\ Str(b) \notin table
         /\ DOMAIN b = 0 .. Len(name) /\ b[Len(name) - 1] = NUL
         /\ Len(name) - 1 \in 0 .. Len(name) /\ Len(name) - 1 # frame.len
<1>1. PICK k, L, N : k = Len(stack) /\ L = frame.len /\ N = Len(name)
  OBVIOUS
<1>2. /\ WalkInv /\ LiteralInv /\ DOMAIN buf = 0 .. N /\ L \in Nat /\ N \in Nat /\ L + 2 <= N
  BY <1>1, ChainHere
<1>3. N - 1 \in 0 .. N /\ N - 1 # L /\ L + 1 - 1 <= N /\ ~ (N - 1 \in L .. L + 1 - 1)
  BY <1>2
<1>4. buf[N - 1] = NUL
  BY <1>1, <1>2 DEF LiteralInv, Back, Active
<1>5. Len(<<x>>) = 1
  OBVIOUS
<1>6. b = [i \in 0 .. N |-> IF i \in L .. L + 1 - 1 THEN <<x>>[i - L + 1] ELSE buf[i]]
  BY <1>1, <1>2, <1>5 DEF Write
<1>7. DOMAIN b = 0 .. N /\ b[N - 1] = NUL
  BY <1>3, <1>4, <1>6
<1>8. Terminated(b)
  BY <1>3, <1>7 DEF Terminated
<1>9. Fits(buf, frame.len, <<x>>)
  BY <1>1, <1>3, <1>5 DEF Fits
<1>10. Str(b) \notin table
  BY <1>2, <1>8, WildcardNotFound DEF Chained
<1> QED BY <1>1, <1>3, <1>7, <1>8, <1>9, <1>10

LEMMA FindPlusChains ==
  ASSUME ChainInv, Chained, FindPlus
  PROVE  LiteralInv'
<1>1. stack # <<>> /\ frame.next = "plus"
  BY DEF FindPlus, Active
<1>2. PICK b : b = Write(buf, frame.len, <<PlusByte>>)
  OBVIOUS
<1>3. /\ Fits(buf, frame.len, <<PlusByte>>) /\ Terminated(b) /\ Str(b) \notin table
      /\ b[Len(name) - 1] = NUL
  BY <1>1, <1>2, LookUpFails
<1>4. LookUp(b) /\ buf' = b /\ stack' = Then("hash")
  BY <1>2, <1>3, Zenon DEF FindPlus
<1>5. UNCHANGED <<name, tokens, table, visited, overrun>>
  BY <1>3, <1>4 DEF LookUp
<1>6. buf'[Len(name) - 1] = NUL
  BY <1>3, <1>4
<1>7. \E step \in {"plus", "hash"} : stack' = Then(step)
  BY <1>4
<1> QED BY <1>1, <1>5, <1>6, <1>7, StaysBack

LEMMA FindHashChains ==
  ASSUME ChainInv, Chained, FindHash
  PROVE  LiteralInv'
<1>1. stack # <<>> /\ frame.next = "hash"
  BY DEF FindHash, Active
<1>2. PICK b : b = Write(buf, frame.len, <<HashByte>>)
  OBVIOUS
<1>3. /\ Str(b) \notin table /\ DOMAIN b = 0 .. Len(name) /\ b[Len(name) - 1] = NUL
      /\ Len(name) - 1 \in 0 .. Len(name) /\ Len(name) - 1 # frame.len
  BY <1>1, <1>2, LookUpFails
<1>4. LookUp(b) /\ buf' = Clear(b, frame.len, 1) /\ stack' = Front(stack)
  BY <1>2, Zenon DEF FindHash
<1>5. UNCHANGED <<name, tokens, table, visited, overrun>>
  BY <1>3, <1>4 DEF LookUp
<1>6. buf'[Len(name) - 1] = NUL
  BY <1>3, <1>4 DEF Clear
<1> QED BY <1>1, <1>4, <1>5, <1>6, StaysBack

LEMMA FindTokenChains ==
  ASSUME ChainInv, Chained, FindToken
  PROVE  LiteralInv'
<1>1. stack # <<>> /\ frame.next = "token" /\ Active("token")
  BY DEF FindToken, Active
<1>2. PICK k, p, s : k = Len(stack) /\ p = SubSeq(tokens, 1, k - 1) /\ s = token
  OBVIOUS
<1>3. /\ WalkInv /\ LiteralInv /\ DOMAIN buf = 0 .. Len(name) /\ Len(tokens) \in Nat
      /\ k \in 1 .. Len(tokens) /\ frame = stack[k] /\ frame.token = k
      /\ p \in Seq(Seq(Byte)) /\ s \in Seq(Byte) /\ tokens \in Levels(Byte)
      /\ SubSeq(tokens, 1, k) = Append(p, s) /\ First(k) = Joined(Append(p, s))
      /\ frame.len = Len(Place(p))
  BY <1>1, <1>2, ChainHere
<1>4. PICK L \in Nat, d \in Nat, N \in Nat : L = frame.len /\ d = Len(s) /\ N = Len(name)
  BY <1>1, <1>2, ChainHere
<1>5. /\ L + d <= N /\ (k < Len(tokens) => L + d + 3 <= N)
      /\ k < Len(tokens) => Start(tokens, k + 1) = L + d + 1
  BY <1>1, <1>2, <1>4, ChainHere
<1>6. PICK w, b, c : /\ w = Append(p, s) /\ b = Write(buf, frame.len, s)
                     /\ c = Write(b, frame.len + Len(s), <<Sep>>)
  OBVIOUS
<1>7. /\ Len(visited) = k - 1
      /\ \A j \in 0 .. L - 1 : buf[j] = Place(p)[j + 1]
      /\ \A j \in L .. N : buf[j] = NUL
  BY <1>1, <1>2, <1>3, <1>4 DEF LiteralInv, Down
<1>8. InFront(p)
  BY <1>3, <1>4, <1>7 DEF InFront
<1>9. buf[L + d] = NUL /\ (k < Len(tokens) => buf[L + d + 1] = NUL)
  BY <1>5, <1>7
<1>10. Written(s, w, b, c) /\ (k < Len(tokens) => Separated(w, c))
  <2>1. frame.len + Len(s) <= Len(name) /\ buf[frame.len + Len(s)] = NUL
    BY <1>4, <1>5, <1>9
  <2>2. /\ Written(s, w, b, c)
        /\ frame.len + Len(s) + 1 <= Len(name) /\ buf[frame.len + Len(s) + 1] = NUL
           => Separated(w, c)
    BY <1>3, <1>6, <1>8, <2>1, LevelWritten
  <2> QED BY <1>4, <1>5, <1>9, <2>2
<1>11. Finding(k, s, w, "clear", "clear")
  BY <1>2, <1>3, <1>6, <1>10, TokenFound
<1>12. /\ UNCHANGED <<name, tokens, table, overrun>> /\ First(k) = Joined(w)
       /\ visited' = IF First(k) \in table THEN Append(visited, First(k)) ELSE visited
       /\ \/ First(k) \notin table /\ stack' = Then("clear") /\ buf' = b
          \/ First(k) \in table /\ k = Len(tokens) /\ stack' = Then("clear") /\ buf' = c
          \/ /\ First(k) \in table /\ k < Len(tokens) /\ Separated(w, c)
             /\ stack' = Append(Then("clear"), Call(k + 1, Len(Place(w)))) /\ buf' = c
  BY <1>3, <1>6, <1>11, Zenon DEF Finding, Visits
<1>13. k \in Nat /\ k >= 1 /\ \A i \in 1 .. k : i = k \/ i \in 1 .. k - 1
  BY <1>3
<1>14. /\ Len(visited') <= Len(tokens) /\ \A i \in DOMAIN visited' : visited'[i] = First(i)
       /\ Len(visited') = IF First(k) \in table THEN k ELSE k - 1
  <2>1. visited \in Seq(table) /\ \A i \in DOMAIN visited : visited[i] = First(i)
    BY <1>3 DEF WalkInv, LiteralInv
  <2>2. DOMAIN visited = 1 .. k - 1
    BY <1>7, <2>1
  <2>3. CASE First(k) \notin table
    BY <1>3, <1>7, <1>12, <2>1, <2>3
  <2>4. CASE First(k) \in table
    <3>1. PICK f \in table : f = First(k)
      BY <2>4
    <3>2. PICK v : v = Append(visited, f)
      OBVIOUS
    <3>3. /\ Len(v) = k /\ DOMAIN v = 1 .. k /\ v[k] = f
          /\ \A i \in 1 .. k - 1 : v[i] = visited[i]
      BY <1>7, <1>13, <2>1, <3>2, AppendProperties
    <3>4. \A i \in 1 .. k : v[i] = First(i)
      BY <1>13, <2>1, <2>2, <3>1, <3>3
    <3> QED BY <1>3, <1>12, <2>4, <3>1, <3>2, <3>3, <3>4
  <2> QED BY <2>3, <2>4
<1>15. CASE stack' = Then("clear") /\ (buf' = b \/ k = Len(tokens))
             /\ (First(k) \in table => k = Len(tokens))
  <2>1. PICK st : st = stack'
    OBVIOUS
  <2>2. /\ Len(st) = k /\ \A i \in 1 .. k - 1 : st[i] = stack[i]
        /\ st[k].next = "clear" /\ st[k].len = frame.len /\ st[k].token = frame.token
    BY <1>1, <1>2, <1>3, <1>15, <2>1, ThenShape DEF Steps
  <2>3. InLine'
    BY <1>2, <1>3, <1>12, <1>13, <2>1, <2>2, Zenon DEF LiteralInv, InLine
  <2>4. frame' = st[k]
    BY <2>1, <2>2 DEF frame, Last
  <2>5. ~ Active("token")' /\ frame'.next = "clear" /\ Len(stack') = k
    BY <2>1, <2>2, <2>4 DEF Active
  <2>6. k = Len(tokens) \/ buf'[N - 1] = NUL
    <3>1. ASSUME k # Len(tokens) PROVE b[N - 1] = NUL
      <4>1. L + d + 3 <= N
        BY <1>3, <1>5, <3>1
      <4>2. N - 1 \in 0 .. N /\ L + d <= N - 1 /\ N - 1 \in L .. N
        BY <4>1
      <4> QED BY <1>4, <1>7, <1>10, <4>2 DEF Written
    <3> QED BY <1>15, <3>1
  <2>7. Len(visited') < Len(tokens) => First(Len(visited') + 1) \notin table
    <3>1. CASE First(k) \in table
      BY <1>14, <1>15, <3>1
    <3>2. CASE First(k) \notin table
      <4>1. Len(visited') + 1 = k
        BY <1>13, <1>14, <3>2
      <4> QED BY <3>2, <4>1
    <3> QED BY <3>1, <3>2
  <2>8. Down' /\ Back'
    BY <1>4, <1>12, <2>5, <2>6, <2>7 DEF Down, Back, First
  <2> QED BY <1>3, <1>12, <1>14, <2>3, <2>8 DEF LiteralInv, First
<1>16. CASE /\ First(k) \in table /\ k < Len(tokens) /\ Separated(w, c)
            /\ stack' = Append(Then("clear"), Call(k + 1, Len(Place(w)))) /\ buf' = c
  <2>1. PICK st : st = stack'
    OBVIOUS
  <2>2. PICK m \in Nat, K \in Nat : m = k + 1 /\ K = L + d + 1
    BY <1>13
  <2>3. Start(tokens, m) = K /\ Len(Place(w)) = K
    <3>1. Start(tokens, k + 1) = Len(Place(SubSeq(tokens, 1, (k + 1) - 1))) /\ (k + 1) - 1 = k
      BY <1>13 DEF Start
    <3> QED BY <1>3, <1>5, <1>6, <1>16, <2>2, <3>1
  <2>4. Calling(k, "clear", m, K, st)
    <3>1. st = Append(Then("clear"), Call(m, K)) /\ "clear" \in Steps
      BY <1>16, <2>1, <2>2, <2>3 DEF Steps
    <3> QED BY <1>1, <1>2, <1>3, <3>1, CallShape
  <2>5. /\ Len(st) = m /\ st # <<>>
        /\ st[m].token = m /\ st[m].len = K /\ st[m].next = "token"
        /\ \A i \in 1 .. k - 1 : st[i] = stack[i]
        /\ st[k].next = "clear" /\ st[k].len = frame.len /\ st[k].token = frame.token
    BY <2>2, <2>4 DEF Calling
  <2>6. \A i \in 1 .. m : i = m \/ i = k \/ i \in 1 .. k - 1
    BY <1>13, <2>2
  <2>7. InLine'
    <3>1. \A i \in 1 .. k : /\ stack[i].token = i /\ stack[i].len = Start(tokens, i)
                            /\ stack[i].next # "unplus"
      BY <1>2, <1>3 DEF LiteralInv, InLine
    <3>2. ASSUME NEW i \in 1 .. m
          PROVE  st[i].token = i /\ st[i].len = Start(tokens, i) /\ st[i].next # "unplus"
      <4>1. CASE i = m
        BY <2>3, <2>5, <4>1
      <4>2. CASE i = k
        <5>1. frame.token = k /\ frame.len = Start(tokens, k)
          BY <1>3, <1>13, <3>1
        <5> QED BY <2>5, <4>2, <5>1
      <4>3. CASE i \in 1 .. k - 1
        <5>1. i \in 1 .. k /\ st[i] = stack[i]
          BY <1>13, <2>5, <4>3
        <5> QED BY <3>1, <5>1
      <4> QED BY <2>6, <4>1, <4>2, <4>3
    <3>3. Len(stack') = m /\ tokens' = tokens
      BY <1>12, <2>1, <2>5
    <3> QED BY <2>1, <3>2, <3>3 DEF InLine, Start
  <2>8. frame' = st[m] /\ Active("token")'
    BY <2>1, <2>2, <2>5 DEF frame, Last, Active
  <2>9. SubSeq(tokens', 1, Len(stack') - 1) = w
    <3>1. Len(stack') - 1 = k
      BY <1>13, <2>1, <2>2, <2>5
    <3> QED BY <1>3, <1>6, <1>12, <3>1
  <2>10. /\ \A j \in 0 .. K - 1 : c[j] = Place(w)[j + 1]
         /\ \A j \in K .. N : c[j] = NUL
    <3>1. \A j \in 0 .. K - 1 : c[j] = Place(w)[j + 1]
      BY <1>16, <2>3 DEF Separated
    <3>2. \A j \in K .. N : j \in 0 .. N /\ L + d + 1 <= j /\ j \in L .. N
      BY <2>2
    <3>3. \A j \in 0 .. N : L + d + 1 <= j => c[j] = buf[j]
      BY <1>4, <1>10 DEF Written
    <3> QED BY <1>7, <3>1, <3>2, <3>3
  <2>11. Len(visited') = Len(stack') - 1
    BY <1>13, <1>14, <1>16, <2>1, <2>2, <2>5
  <2>12. Down' /\ Back'
    BY <1>4, <1>12, <1>16, <2>1, <2>5, <2>8, <2>9, <2>10, <2>11, Zenon DEF Down, Back
  <2> QED BY <1>3, <1>12, <1>14, <2>7, <2>12 DEF LiteralInv, First
<1> QED BY <1>12, <1>15, <1>16

LEMMA InitChains == Init => ChainInv
<1> SUFFICES ASSUME Init PROVE ChainInv
  OBVIOUS
<1>1. WalkInv /\ tokens = Tokens(name)
  BY InitWalk DEF Init
<1>2. ASSUME Chained PROVE LiteralInv
  <2>1. Len(tokens) \in Nat \ {0} /\ Start(tokens, 1) = 0
    <3>1. PICK ts : ts = tokens
      OBVIOUS
    <3>2. name \in Text /\ ts = Tokens(name) /\ Len(Last(ts)) >= 2
      BY <1>1, <1>2, <3>1 DEF WalkInv, Chained
    <3>3. Len(ts) \in Nat \ {0} /\ Start(ts, 1) = 0
      BY <3>2, NameLevels
    <3> QED BY <3>1, <3>3
  <2>2. /\ stack = <<Call(1, 0)>> /\ visited = <<>> /\ ~ overrun
        /\ \A j \in 0 .. Len(name) : buf[j] = NUL
    BY DEF Init
  <2>3. /\ Len(stack) = 1 /\ stack[1] = Call(1, 0) /\ frame = Call(1, 0) /\ stack # <<>>
        /\ frame.len = 0 /\ frame.token = 1 /\ frame.next = "token"
    BY <2>2 DEF frame, Last, Call
  <2>4. DOMAIN visited = {} /\ Len(visited) = 0
    BY <2>2, LenProperties, EmptySeq
  <2>5. InLine
    BY <2>1, <2>3 DEF InLine
  <2>6. Active("token") /\ Down /\ Back
    BY <2>2, <2>3, <2>4 DEF Active, Down, Back
  <2> QED BY <2>1, <2>2, <2>4, <2>5, <2>6 DEF LiteralInv
<1> QED BY <1>1, <1>2 DEF ChainInv

LEMMA NextChains ==
  ASSUME ChainInv, Next
  PROVE  ChainInv'
<1>1. WalkInv'
  BY NextWalk DEF ChainInv
<1>2. UNCHANGED <<name, tokens, table>>
  BY DEF Next, FindToken, ClearToken, FindPlus, ClearPlus, FindHash, LookUp, Overrun
<1>3. (tokens = Tokens(name))'
  BY <1>2 DEF ChainInv
<1>4. Chained' => LiteralInv'
  <2> SUFFICES ASSUME Chained' PROVE LiteralInv'
    OBVIOUS
  <2>1. Chained
    BY <1>2 DEF Chained
  <2>2. ~ ClearPlus
    <3> SUFFICES ASSUME ClearPlus PROVE FALSE
      OBVIOUS
    <3>1. stack # <<>> /\ frame.next = "unplus"
      BY DEF ClearPlus, Active
    <3>2. PICK k : k = Len(stack)
      OBVIOUS
    <3> QED BY <2>1, <3>1, <3>2, ChainHere
  <2> QED BY <2>1, <2>2, FindTokenChains, ClearTokenChains, FindPlusChains, FindHashChains DEF Next
<1> QED BY <1>1, <1>3, <1>4 DEF ChainInv

(***************************************************************************)
(* Among filters without wildcards, a publication goes from one leading    *)
(* level to the next and stops at the first without a subscriber, in its   *)
(* buffer, for any name whose last level has two bytes or more.            *)
(***************************************************************************)
THEOREM LiteralsChained == Spec => []LiteralChain
<1>1. ChainInv /\ UNCHANGED vars => ChainInv'
  <2> SUFFICES ASSUME ChainInv, UNCHANGED vars PROVE ChainInv'
    OBVIOUS
  <2>1. UNCHANGED <<name, tokens, table, buf, stack, key, visited, overrun>>
    BY DEF vars
  <2>2. WalkInv'
    BY <2>1 DEF ChainInv, WalkInv, Calls, PrefixesKept, RestIsBlank, Width, Frame
  <2>3. LiteralInv => LiteralInv'
    BY <2>1 DEF LiteralInv, InLine, Down, Back, First, Active, frame
  <2> QED BY <2>1, <2>2, <2>3 DEF ChainInv, Chained
<1>2. ChainInv /\ [Next]_vars => ChainInv'
  BY <1>1, NextChains
<1>3. ChainInv => LiteralChain
  BY DEF ChainInv, Chained, LiteralInv, Back, Active, First, LiteralChain, Done
<1> QED BY InitChains, <1>2, <1>3, PTL DEF Spec

=============================================================================
