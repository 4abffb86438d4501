-------------------------- MODULE RecursionProofs --------------------------
(***************************************************************************)
(* Induction and recursion for the other proofs.  The theorems of the      *)
(* library take a predicate or a definition as a parameter, for which the  *)
(* provers find no instance; here these are sets and functions: that each  *)
(* set of naturals has a least element is all it takes.                    *)
(***************************************************************************)
EXTENDS Integers, FiniteSets, FiniteSetsExt, Sequences, SequenceTheorems,
        FiniteSetTheorems, WellFoundedInduction, TLAPS

-----------------------------------------------------------------------------
(* Least and greatest numbers, and induction                               *)

(* A set of naturals that is not empty has a least element.                *)
LEMMA LeastExists ==
  ASSUME NEW S, S \subseteq Nat, S # {}
  PROVE  \E x \in S : \A y \in S : x <= y
<1>1. PICK x \in S : \A y \in S : ~ (<<y, x>> \in OpToRel(<, Nat))
  BY NatLessThanWellFounded, WFMin
<1>2. ASSUME NEW y \in S PROVE x <= y
  <2>1. <<y, x>> \in Nat \X Nat
    OBVIOUS
  <2>2. ~ (y < x)
    BY <1>1, <2>1 DEF OpToRel
  <2> QED BY <2>2
<1> QED BY <1>2

(* Min finds it.                                                           *)
LEMMA MinIsLeast ==
  ASSUME NEW S, S \subseteq Nat, S # {}
  PROVE  Min(S) \in S /\ \A y \in S : Min(S) <= y
<1>1. \E x \in S : \A y \in S : x <= y
  BY LeastExists
<1> QED BY <1>1 DEF Min

(* A set of naturals with an upper bound has a greatest element: the least *)
(* of its upper bounds.                                                    *)
LEMMA MaxIsGreatest ==
  ASSUME NEW S, S \subseteq Nat, S # {}, NEW n \in Nat, \A s \in S : s <= n
  PROVE  Max(S) \in S /\ \A y \in S : y <= Max(S)
<1> DEFINE U == {u \in Nat : \A s \in S : s <= u}
<1>1. PICK u \in U : \A v \in U : u <= v
  <2>1. n \in U
    OBVIOUS
  <2>2. U \subseteq Nat
    OBVIOUS
  <2> QED BY <2>1, <2>2, LeastExists
<1>2. u \in S
  <2>1. SUFFICES ASSUME u \notin S PROVE FALSE
    OBVIOUS
  <2>2. \A s \in S : s < u
    BY <1>1, <2>1
  <2>3. PICK s \in S : TRUE
    OBVIOUS
  <2>4. u - 1 \in U
    BY <2>2, <2>3
  <2> QED BY <1>1, <2>4
<1>3. \E x \in S : \A y \in S : x >= y
  BY <1>1, <1>2
<1> QED BY <1>3 DEF Max

(* A set that has 0, and with each natural the next, has all of them.      *)
LEMMA Induction ==
  ASSUME NEW S, 0 \in S, \A n \in Nat : n \in S => n + 1 \in S
  PROVE  \A n \in Nat : n \in S
<1> SUFFICES ASSUME Nat \ S # {} PROVE FALSE
  OBVIOUS
<1>1. PICK n \in Nat \ S : \A m \in Nat \ S : n <= m
  BY LeastExists
<1>2. n - 1 \in Nat /\ n - 1 \in S
  BY <1>1
<1> QED BY <1>1, <1>2

-----------------------------------------------------------------------------
(* Recursion                                                               *)

(***************************************************************************)
(* A function of D may be defined by recursion: its value at d is a step   *)
(* from its value at down[d] while that is of a lower rank, else base[d].  *)
(***************************************************************************)
Recurs(f, D, rank, down, base, step) ==
  \A d \in D : f[d] = IF rank[down[d]] < rank[d] THEN step[<<d, f[down[d]]>>]
                      ELSE base[d]

LEMMA RecursionExists ==
  ASSUME NEW D, NEW S, NEW rank \in [D -> Nat], NEW down \in [D -> D],
         NEW base \in [D -> S], NEW step \in [D \X S -> S]
  PROVE  \E f \in [D -> S] : Recurs(f, D, rank, down, base, step)
<1> DEFINE Next(f, d) == IF rank[down[d]] < rank[d] THEN step[<<d, f[down[d]]>>]
                         ELSE base[d]
           Below(f, n) == \A d \in D : rank[d] < n => f[d] = Next(f, d)
<1>1. \A f \in [D -> S] : [d \in D |-> Next(f, d)] \in [D -> S]
  <2> TAKE f \in [D -> S]
  <2>1. \A d \in D : Next(f, d) \in S
    <3> TAKE d \in D
    <3>1. down[d] \in D /\ f[down[d]] \in S
      OBVIOUS
    <3>2. step[<<d, f[down[d]]>>] \in S
      BY <3>1
    <3> QED BY <3>2
  <2> QED BY <2>1
(* Below each rank there is such a function.                               *)
<1>2. \A n \in Nat : \E f \in [D -> S] : Below(f, n)
  <2> DEFINE N == {n \in Nat : \E f \in [D -> S] : Below(f, n)}
  <2>1. 0 \in N
    BY SMT
  <2>2. ASSUME NEW n \in Nat, n \in N PROVE n + 1 \in N
    <3>1. PICK f \in [D -> S] : Below(f, n)
      BY <2>2
    <3> DEFINE g == [d \in D |-> Next(f, d)]
    <3>2. g \in [D -> S]
      BY <1>1
    <3>3. \A d \in D : rank[d] < n => g[d] = f[d]
      BY <3>1
    <3>4. Below(g, n + 1)
      <4> SUFFICES ASSUME NEW d \in D, rank[d] < n + 1 PROVE g[d] = Next(g, d)
        OBVIOUS
      <4>1. rank[down[d]] < rank[d] => rank[down[d]] < n
        OBVIOUS
      <4>2. rank[down[d]] < rank[d] => g[down[d]] = f[down[d]]
        BY <3>3, <4>1
      <4> QED BY <4>2
    <3> HIDE DEF g, Below
    <3> QED BY <3>2, <3>4
  <2> HIDE DEF N
  <2>3. \A n \in Nat : n \in N
    BY <2>1, <2>2, Induction
  <2> QED BY <2>3 DEF N
(* Any two of them agree below that rank.                                  *)
<1>3. \A n \in Nat : \A f, g \in [D -> S] :
        Below(f, n) /\ Below(g, n) => \A d \in D : rank[d] < n => f[d] = g[d]
  <2> DEFINE N == {n \in Nat : \A f, g \in [D -> S] :
                     Below(f, n) /\ Below(g, n) => \A d \in D : rank[d] < n => f[d] = g[d]}
  <2>1. 0 \in N
    BY SMT
  <2>2. ASSUME NEW n \in Nat, n \in N PROVE n + 1 \in N
    <3> SUFFICES ASSUME NEW f \in [D -> S], NEW g \in [D -> S],
                        Below(f, n + 1), Below(g, n + 1),
                        NEW d \in D, rank[d] < n + 1
                 PROVE  f[d] = g[d]
      OBVIOUS
    <3>1. Below(f, n) /\ Below(g, n)
      OBVIOUS
    <3>2. \A e \in D : rank[e] < n => f[e] = g[e]
      BY <2>2, <3>1
    <3>3. rank[down[d]] < rank[d] => f[down[d]] = g[down[d]]
      BY <3>2
    <3> QED BY <3>3
  <2> HIDE DEF N
  <2>3. \A n \in Nat : n \in N
    BY <2>1, <2>2, Induction
  <2> QED BY <2>3 DEF N
<1> DEFINE upto == [n \in Nat |-> CHOOSE f \in [D -> S] : Below(f, n)]
           fn == [d \in D |-> upto[rank[d] + 1][d]]
<1>4. \A n \in Nat : upto[n] \in [D -> S] /\ Below(upto[n], n)
  BY <1>2
<1> HIDE DEF upto
<1>5. fn \in [D -> S]
  BY <1>4
<1>6. ASSUME NEW d \in D PROVE fn[d] = Next(fn, d)
  <2> DEFINE n == rank[d] + 1
  <2>1. fn[d] = Next(upto[n], d)
    BY <1>4
  <2>2. ASSUME rank[down[d]] < rank[d]
        PROVE  fn[down[d]] = upto[n][down[d]]
    <3> DEFINE e == down[d]
               k == rank[e] + 1
    <3>1. k \in Nat /\ n \in Nat /\ k <= n
      BY <2>2
    <3>2. Below(upto[k], k) /\ Below(upto[n], k)
      BY <1>4, <3>1
    <3>3. Below(upto[n], k)
      BY <3>1, <3>2
    <3>4. e \in D /\ rank[e] < k
      OBVIOUS
    <3>5. upto[k][e] = upto[n][e]
      <4> HIDE DEF e, k, n, Below
      <4> QED BY <1>3, <1>4, <3>1, <3>2, <3>3, <3>4
    <3> QED BY <3>5
  <2> QED BY <2>1, <2>2
<1> QED BY <1>5, <1>6 DEF Recurs

(***************************************************************************)
(* A fold over a sequence of n elements is defined by recursion over the   *)
(* sets of its indices, whose greatest is folded last.                     *)
(***************************************************************************)
IsFold(f, n, base, op) ==
  \A D \in SUBSET (1 .. n) :
    f[D] = IF D = {} THEN base ELSE op[<<f[D \ {Max(D)}], Max(D)>>]

LEMMA FoldExists ==
  ASSUME NEW S, NEW base \in S, NEW n \in Nat, NEW op \in [S \X (1 .. n) -> S]
  PROVE  \E f \in [SUBSET (1 .. n) -> S] : IsFold(f, n, base, op)
<1> DEFINE Sets == SUBSET (1 .. n)
           rank == [D \in Sets |-> Cardinality(D)]
           down == [D \in Sets |-> D \ {Max(D)}]
           first == [D \in Sets |-> base]
           step == [dx \in Sets \X S |-> IF dx[1] = {} THEN base
                                        ELSE op[<<dx[2], Max(dx[1])>>]]
<1>1. \A D \in Sets : /\ Cardinality(D) \in Nat
                      /\ D # {} => /\ Max(D) \in D
                                   /\ Cardinality(D \ {Max(D)}) < Cardinality(D)
  <2> TAKE D \in Sets
  <2>1. IsFiniteSet(D) /\ Cardinality(D) \in Nat
    <3>1. IsFiniteSet(1 .. n)
      BY FS_Interval
    <3> QED BY <3>1, FS_Subset, FS_CardinalityType
  <2>2. ASSUME D # {}
        PROVE  Max(D) \in D /\ Cardinality(D \ {Max(D)}) < Cardinality(D)
    <3>1. D \subseteq Nat /\ \A d \in D : d <= n
      OBVIOUS
    <3>2. Max(D) \in D
      BY <2>2, <3>1, MaxIsGreatest
    <3>3. Cardinality(D \ {Max(D)}) = Cardinality(D) - 1
      BY <2>1, <3>2, FS_RemoveElement
    <3> QED BY <2>1, <3>2, <3>3
  <2> QED BY <2>1, <2>2
<1>2. rank \in [Sets -> Nat] /\ down \in [Sets -> Sets] /\ first \in [Sets -> S]
  BY <1>1
<1>3. step \in [Sets \X S -> S]
  <2> SUFFICES ASSUME NEW D \in Sets, NEW x \in S, D # {}
               PROVE  op[<<x, Max(D)>>] \in S
    OBVIOUS
  <2>1. Max(D) \in 1 .. n
    BY <1>1
  <2> QED BY <2>1
<1>4. PICK f \in [Sets -> S] : Recurs(f, Sets, rank, down, first, step)
  <2> HIDE DEF Sets, rank, down, first, step
  <2> QED BY <1>2, <1>3, RecursionExists
<1>5. ASSUME NEW D \in Sets
      PROVE  f[D] = IF D = {} THEN base ELSE op[<<f[D \ {Max(D)}], Max(D)>>]
  <2>1. f[D] = IF rank[down[D]] < rank[D] THEN step[<<D, f[down[D]]>>] ELSE first[D]
    BY <1>4 DEF Recurs
  <2>2. down[D] = D \ {Max(D)} /\ down[D] \in Sets /\ f[down[D]] \in S
    BY <1>2
  <2>3. step[<<D, f[down[D]]>>] = IF D = {} THEN base ELSE op[<<f[down[D]], Max(D)>>]
    BY <2>2
  <2>4. D # {} => rank[down[D]] < rank[D]
    BY <1>1, <2>2
  <2>5. first[D] = base
    OBVIOUS
  <2> HIDE DEF rank, down, first, step
  <2> QED BY <2>1, <2>2, <2>3, <2>4, <2>5
<1> QED BY <1>5 DEF IsFold

(* The greatest index of a prefix is its last.                             *)
LEMMA MaxOfPrefix ==
  ASSUME NEW k \in Nat \ {0}
  PROVE  Max(1 .. k) = k /\ (1 .. k) \ {k} = 1 .. k - 1
<1>1. Max(1 .. k) \in 1 .. k /\ \A y \in 1 .. k : y <= Max(1 .. k)
  <2>1. 1 .. k \subseteq Nat /\ 1 .. k # {} /\ \A d \in 1 .. k : d <= k
    OBVIOUS
  <2> QED BY <2>1, MaxIsGreatest
<1> QED BY <1>1

=============================================================================
