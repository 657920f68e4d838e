------------------------------ MODULE ContentProofs ------------------------------
(***************************************************************************)
(* Theorems about RunContent.  A document is a function of the documents   *)
(* and rows before it, and a run's rows stand still once it is sealed: so  *)
(* ContentInv says of each document which function, and a theorem about a  *)
(* document is one about that function.  The functions are folds and       *)
(* recursive functions; what they compute is found by induction over the   *)
(* set of the places at which it holds (NaturalSteps, PrefixSteps,         *)
(* PickSteps), after their existence has been shown (LeftFoldExists,       *)
(* SetFoldExists).                                                         *)
(***************************************************************************)
EXTENDS RunContent, FiniteSetTheorems, SequenceTheorems, TLAPS

LEMMA NatRelation == IsWellFoundedOn({ss \in Nat \X Nat : ss[1] < ss[2]}, Nat)
BY NatLessThanWellFounded DEF OpToRel

LEMMA LeastNatural ==
    ASSUME NEW T \in SUBSET Nat, T # {}
    PROVE  \E n \in T : \A m \in T : n <= m
<1>1. PICK x \in T : \A y \in T : ~ (<<y, x>> \in {ss \in Nat \X Nat : ss[1] < ss[2]})
  BY NatRelation, WFMin
<1>2. ASSUME NEW y \in T
      PROVE  x <= y
  <2>1. <<y, x>> \in Nat \X Nat /\ x \in Nat /\ y \in Nat
    OBVIOUS
  <2>2. ~(y < x)
    <3> SUFFICES ASSUME y < x PROVE FALSE
      OBVIOUS
    <3>1. <<y, x>>[1] < <<y, x>>[2]
      OBVIOUS
    <3>2. <<y, x>> \in {ss \in Nat \X Nat : ss[1] < ss[2]}
      BY <2>1, <3>1
    <3> QED
      BY <1>1, <3>2
  <2> QED
    BY <2>1, <2>2
<1> QED
  BY <1>2

LEMMA NaturalSteps ==
    ASSUME NEW T, 0 \in T, \A n \in Nat : n \in T => n + 1 \in T
    PROVE  Nat \subseteq T
<1> DEFINE R == Nat \ T
<1> SUFFICES ASSUME R # {} PROVE FALSE
  OBVIOUS
<1>1. PICK n \in R : \A m \in R : n <= m
  BY LeastNatural
<1>2. n # 0 /\ n - 1 \in Nat /\ n - 1 \notin R
  BY <1>1
<1> QED
  BY <1>1, <1>2

(***************************************************************************)
(* A family of subsets of a finite set that holds a set whenever it holds  *)
(* all its proper subsets holds them all.                                  *)
(***************************************************************************)
LEMMA SubsetSteps ==
    ASSUME NEW S, IsFiniteSet(S), NEW T,
           \A s \in SUBSET S : (\A u \in SUBSET s : u # s => u \in T) => s \in T
    PROVE  SUBSET S \subseteq T
<1> DEFINE Bad == {s \in SUBSET S : s \notin T}
<1> DEFINE Sizes == {n \in Nat : \E s \in Bad : Cardinality(s) = n}
<1> SUFFICES ASSUME Bad # {} PROVE FALSE
  OBVIOUS
<1>1. \A s \in SUBSET S : IsFiniteSet(s) /\ Cardinality(s) \in Nat
  BY FS_Subset, FS_CardinalityType
<1>2. Sizes # {} /\ Sizes \in SUBSET Nat
  BY <1>1
<1>3. PICK n \in Sizes : \A m \in Sizes : n <= m
  <2> HIDE DEF Sizes
  <2> QED BY <1>2, LeastNatural
<1>4. PICK s \in Bad : Cardinality(s) = n
  BY <1>3
<1>5. ASSUME NEW u \in SUBSET s, u # s
      PROVE  u \in T
  <2>1. Cardinality(u) < Cardinality(s)
    BY <1>1, <1>4, <1>5, FS_Subset, FS_CardinalityType
  <2>2. u \in SUBSET S
    BY <1>4
  <2> SUFFICES ASSUME u \in Bad PROVE FALSE
    BY <2>2
  <2>3. Cardinality(u) \in Sizes
    BY <1>1, <2>2
  <2>4. Cardinality(u) \in Nat /\ Cardinality(s) \in Nat
    BY <1>1, <2>2, <1>4
  <2> HIDE DEF Sizes
  <2> QED
    BY <1>3, <1>4, <2>1, <2>3, <2>4
<1> QED
  BY <1>4, <1>5

(***************************************************************************)
(* A function on the subsets of a finite set may be defined by recursion:  *)
(* from its value for a set without the element picked.                    *)
(***************************************************************************)
IsRecursion(it, S, base, pick, step) ==
    \A s \in SUBSET S : it[s] = IF s = {} THEN base ELSE step[<<s, it[s \ {pick[s]}]>>]

LEMMA SubsetRecursion ==
    ASSUME NEW S, IsFiniteSet(S), NEW V, NEW base \in V,
           NEW pick, \A s \in SUBSET S : s # {} => pick[s] \in s,
           NEW step, \A s \in SUBSET S, v \in V : s # {} => step[<<s, v>>] \in V
    PROVE  \E it \in [SUBSET S -> V] : IsRecursion(it, S, base, pick, step)
<1> DEFINE Small(n) == {s \in SUBSET S : Cardinality(s) <= n}
           Good(it, n) == \A s \in Small(n) :
               it[s] = IF s = {} THEN base ELSE step[<<s, it[s \ {pick[s]}]>>]
           T == {n \in Nat : \E it \in [Small(n) -> V] : Good(it, n)}
<1>1. \A s \in SUBSET S : IsFiniteSet(s) /\ Cardinality(s) \in Nat /\ (Cardinality(s) = 0 <=> s = {})
  BY FS_Subset, FS_CardinalityType, FS_EmptySet
<1>2. \A s \in SUBSET S : s # {} => /\ s \ {pick[s]} \in SUBSET S
                                    /\ Cardinality(s \ {pick[s]}) = Cardinality(s) - 1
  BY <1>1, FS_RemoveElement
<1>3. 0 \in T
  <2>1. [s \in Small(0) |-> base] \in [Small(0) -> V]
    OBVIOUS
  <2>2. \A s \in Small(0) : s = {}
    BY <1>1
  <2>3. Good([s \in Small(0) |-> base], 0)
    BY <2>2
  <2> QED
    BY <2>1, <2>3
<1>4. ASSUME NEW n \in Nat, n \in T
      PROVE  n + 1 \in T
  <2>1. PICK it \in [Small(n) -> V] : Good(it, n)
    BY <1>4
  <2> DEFINE more == [s \in Small(n + 1) |->
                         IF s \in Small(n) THEN it[s] ELSE step[<<s, it[s \ {pick[s]}]>>]]
  <2>2. \A s \in Small(n + 1) : s # {} => s \ {pick[s]} \in Small(n)
    BY <1>1, <1>2
  <2>3. \A s \in Small(n + 1) \ Small(n) : s # {}
    BY <1>1
  <2>4. more \in [Small(n + 1) -> V]
    <3>1. ASSUME NEW s \in Small(n + 1)
          PROVE  more[s] \in V
      BY <2>1, <2>2, <2>3
    <3> QED
      BY <3>1
  <2>5. \A s \in Small(n) : more[s] = it[s]
    BY <1>1
  <2>6. Good(more, n + 1)
    <3> SUFFICES ASSUME NEW s \in Small(n + 1)
                 PROVE  more[s] = IF s = {} THEN base ELSE step[<<s, more[s \ {pick[s]}]>>]
      OBVIOUS
    <3>1. CASE s \in Small(n)
      <4>1. s # {} => more[s \ {pick[s]}] = it[s \ {pick[s]}]
        BY <2>2, <2>5
      <4> QED
        BY <2>1, <2>5, <3>1, <4>1
    <3>2. CASE s \notin Small(n)
      BY <2>2, <2>3, <2>5, <3>2
    <3> QED
      BY <3>1, <3>2
  <2>7. \E i \in [Small(n + 1) -> V] : Good(i, n + 1)
    <3> HIDE DEF more, Good
    <3> QED BY <2>4, <2>6
  <2> HIDE DEF Good, Small
  <2> QED
    BY <2>7
<1>5. Cardinality(S) \in T
  <2> HIDE DEF T
  <2>1. Nat \subseteq T
    BY <1>3, <1>4, NaturalSteps
  <2> QED
    BY <1>1, <2>1
<1>6. PICK it \in [Small(Cardinality(S)) -> V] : Good(it, Cardinality(S))
  BY <1>5
<1>7. Small(Cardinality(S)) = SUBSET S
  BY FS_Subset
<1> QED
  BY <1>6, <1>7 DEF IsRecursion
-----------------------------------------------------------------------------
(***************************************************************************)
(* The folds of the model: a step at a time.                               *)
(***************************************************************************)
LEMMA MaxIn ==
    ASSUME NEW n \in Nat, NEW S \in SUBSET (1 .. n), S # {}
    PROVE  Max(S) \in S /\ \A x \in S : x <= Max(S)
<1> DEFINE D == {n - x : x \in S}
<1>0. \A x \in S : x \in Int /\ 1 <= x /\ x <= n /\ n - x \in Nat
  OBVIOUS
<1>1. D \in SUBSET Nat /\ D # {}
  BY <1>0
<1>2. PICK d \in D : \A e \in D : d <= e
  <2> HIDE DEF D
  <2> QED BY <1>1, LeastNatural
<1>3. PICK x \in S : d = n - x
  BY <1>2
<1>4. ASSUME NEW y \in S
      PROVE  x >= y
  <2>1. n - y \in D
    OBVIOUS
  <2>2. d <= n - y
    <3> HIDE DEF D
    <3> QED BY <1>2, <2>1
  <2> QED
    BY <1>0, <1>3, <2>2
<1> QED
  BY <1>3, <1>4 DEF Max

LEMMA MaxInterval ==
    ASSUME NEW n \in Nat
    PROVE  /\ Max(1 .. (n + 1)) = n + 1
           /\ (1 .. (n + 1)) \ {n + 1} = 1 .. n
           /\ 1 .. (n + 1) # {}
<1>1. (1 .. (n + 1)) \in SUBSET (1 .. (n + 1)) /\ (1 .. (n + 1)) # {} /\ n + 1 \in Nat
  BY n + 1 \in 1 .. (n + 1)
<1>2. Max(1 .. (n + 1)) \in 1 .. (n + 1) /\ \A x \in 1 .. (n + 1) : x <= Max(1 .. (n + 1))
  BY <1>1, MaxIn
<1> QED
  BY <1>2

(***************************************************************************)
(* What a fold from the left does to the values of a set it never leaves.  *)
(* The step is a function of the value so far and the position.            *)
(***************************************************************************)
IsLeftFold(it, n, base, step) ==
    it = [s \in SUBSET (1 .. n) |->
             IF s = {} THEN base ELSE step[<<it[s \ {Max(s)}], Max(s)>>]]

LEMMA LeftFoldExists ==
    ASSUME NEW n \in Nat, NEW V, NEW base \in V, NEW step \in [V \X (1 .. n) -> V]
    PROVE  \E it \in [SUBSET (1 .. n) -> V] : IsLeftFold(it, n, base, step)
<1> DEFINE pick == [s \in SUBSET (1 .. n) |-> Max(s)]
           turn == [p \in (SUBSET (1 .. n)) \X V |-> step[<<p[2], Max(p[1])>>]]
<1>1. \A s \in SUBSET (1 .. n) : s # {} => Max(s) \in s /\ pick[s] \in s
  BY MaxIn
<1>2. ASSUME NEW s \in SUBSET (1 .. n), NEW v \in V, s # {}
      PROVE  turn[<<s, v>>] = step[<<v, Max(s)>>] /\ turn[<<s, v>>] \in V
  BY <1>1, <1>2
<1>3. IsFiniteSet(1 .. n)
  BY FS_Interval
<1>4. PICK it \in [SUBSET (1 .. n) -> V] : IsRecursion(it, 1 .. n, base, pick, turn)
  <2> HIDE DEF pick, turn
  <2>1. \A s \in SUBSET (1 .. n) : s # {} => pick[s] \in s
    BY <1>1
  <2>2. \A s \in SUBSET (1 .. n), v \in V : s # {} => turn[<<s, v>>] \in V
    BY <1>2
  <2> QED BY <2>1, <2>2, <1>3, SubsetRecursion
<1>5. ASSUME NEW s \in SUBSET (1 .. n)
      PROVE  it[s] = IF s = {} THEN base ELSE step[<<it[s \ {Max(s)}], Max(s)>>]
  <2>1. s \ {Max(s)} \in SUBSET (1 .. n) /\ it[s \ {Max(s)}] \in V
    BY <1>4
  <2>2. it[s] = IF s = {} THEN base ELSE turn[<<s, it[s \ {Max(s)}]>>]
    <3>1. pick[s] = Max(s)
      OBVIOUS
    <3> HIDE DEF pick, turn
    <3> QED BY <1>4, <3>1 DEF IsRecursion
  <2> HIDE DEF turn, pick
  <2> QED
    BY <1>2, <2>1, <2>2
<1>6. it = [s \in SUBSET (1 .. n) |->
               IF s = {} THEN base ELSE step[<<it[s \ {Max(s)}], Max(s)>>]]
  <2> HIDE DEF turn, pick
  <2> QED BY <1>4, <1>5
<1> QED
  BY <1>6 DEF IsLeftFold

LEMMA PrefixSteps ==
    ASSUME NEW n \in Nat, NEW it, NEW T, it[{}] \in T,
           \A k \in 0 .. (n - 1) : it[1 .. k] \in T => it[1 .. (k + 1)] \in T
    PROVE  it[1 .. n] \in T
<1> DEFINE K == {k \in Nat : k <= n => it[1 .. k] \in T}
<1>1. 0 \in K
  BY 1 .. 0 = {}
<1>2. ASSUME NEW k \in Nat, k \in K
      PROVE  k + 1 \in K
  <2> SUFFICES ASSUME k + 1 <= n
               PROVE  it[1 .. (k + 1)] \in T
    OBVIOUS
  <2>1. it[1 .. k] \in T /\ k \in 0 .. (n - 1)
    BY <1>2
  <2> QED
    BY <2>1
<1>3. Nat \subseteq K
  <2> HIDE DEF K
  <2> QED BY <1>1, <1>2, NaturalSteps
<1> QED
  BY <1>3

(***************************************************************************)
(* The folds over a set take its elements in the order CHOOSE gives them.  *)
(***************************************************************************)
IsSetFold(it, S, base, step) ==
    it = [s \in SUBSET S |->
             IF s = {} THEN base
             ELSE step[<<CHOOSE x \in s : TRUE, it[s \ {CHOOSE x \in s : TRUE}]>>]]

LEMMA SetFoldExists ==
    ASSUME NEW S, IsFiniteSet(S), NEW V, NEW base \in V, NEW step \in [S \X V -> V]
    PROVE  \E it \in [SUBSET S -> V] : IsSetFold(it, S, base, step)
<1> DEFINE pick == [s \in SUBSET S |-> CHOOSE x \in s : TRUE]
           turn == [p \in (SUBSET S) \X V |-> step[<<CHOOSE x \in p[1] : TRUE, p[2]>>]]
<1>1. \A s \in SUBSET S : s # {} => (CHOOSE x \in s : TRUE) \in s
  OBVIOUS
<1>2. \A s \in SUBSET S : s # {} => pick[s] \in s
  BY <1>1
<1>3. \A s \in SUBSET S, v \in V : s # {} => turn[<<s, v>>] \in V
  BY <1>1
<1>4. PICK it \in [SUBSET S -> V] : IsRecursion(it, S, base, pick, turn)
  <2> HIDE DEF pick, turn
  <2> QED BY <1>2, <1>3, SubsetRecursion
<1>5. ASSUME NEW s \in SUBSET S
      PROVE  it[s] = IF s = {} THEN base
                     ELSE step[<<CHOOSE x \in s : TRUE, it[s \ {CHOOSE x \in s : TRUE}]>>]
  <2>1. s \ {CHOOSE x \in s : TRUE} \in SUBSET S
    OBVIOUS
  <2>2. it[s] = IF s = {} THEN base ELSE turn[<<s, it[s \ {pick[s]}]>>]
    BY <1>4 DEF IsRecursion
  <2> QED
    BY <2>1, <2>2
<1>6. IsSetFold(it, S, base, step)
  <2> HIDE DEF turn, pick
  <2> QED BY <1>4, <1>5 DEF IsSetFold
<1> QED
  BY <1>6

LEMMA PickSteps ==
    ASSUME NEW S, IsFiniteSet(S), NEW T, {} \in T,
           \A s \in SUBSET S : s # {} /\ s \ {CHOOSE x \in s : TRUE} \in T => s \in T
    PROVE  S \in T
<1>1. ASSUME NEW s \in SUBSET S, \A u \in SUBSET s : u # s => u \in T
      PROVE  s \in T
  <2>1. CASE s = {}
    BY <2>1
  <2>2. CASE s # {}
    <3>1. (CHOOSE x \in s : TRUE) \in s
      BY <2>2
    <3>2. s \ {CHOOSE x \in s : TRUE} \in SUBSET s /\ s \ {CHOOSE x \in s : TRUE} # s
      BY <3>1
    <3> QED
      BY <1>1, <2>2, <3>2
  <2> QED
    BY <2>1, <2>2
<1> QED
  BY <1>1, SubsetSteps

(***************************************************************************)
(* The elements of a finite set, one after the other.                      *)
(***************************************************************************)
Orders(S) == {s \in Seq(S) : Len(s) = Cardinality(S) /\ ToSet(s) = S}

LEMMA OrderExists ==
    ASSUME NEW S, IsFiniteSet(S)
    PROVE  InSomeOrder(S) \in Orders(S)
<1> DEFINE it == CHOOSE iter : iter = [s \in SUBSET S |->
                     IF s = {} THEN <<>>
                     ELSE Append(iter[s \ {CHOOSE x \in s : TRUE}], CHOOSE x \in s : TRUE)]
           step == [p \in S \X Seq(S) |-> Append(p[2], p[1])]
<1>1. InSomeOrder(S) = it[S]
  BY DEF InSomeOrder, FoldSet, MapThenFoldSet
<1>2. \E iter : iter = [s \in SUBSET S |->
                     IF s = {} THEN <<>>
                     ELSE Append(iter[s \ {CHOOSE x \in s : TRUE}], CHOOSE x \in s : TRUE)]
  <2>1. step \in [S \X Seq(S) -> Seq(S)] /\ <<>> \in Seq(S)
    OBVIOUS
  <2>2. PICK iter \in [SUBSET S -> Seq(S)] : IsSetFold(iter, S, <<>>, step)
    <3> HIDE DEF step
    <3> QED BY <2>1, SetFoldExists
  <2>3. ASSUME NEW s \in SUBSET S
        PROVE  iter[s] = IF s = {} THEN <<>>
                         ELSE Append(iter[s \ {CHOOSE x \in s : TRUE}], CHOOSE x \in s : TRUE)
    <3>1. CASE s = {}
      <4> HIDE DEF step
      <4> QED BY <2>2, <3>1 DEF IsSetFold
    <3>2. CASE s # {}
      <4> DEFINE x == CHOOSE x \in s : TRUE
      <4>1. x \in S /\ s \ {x} \in SUBSET S
        BY <3>2
      <4>2. iter[s] = step[<<x, iter[s \ {x}]>>]
        <5> HIDE DEF step
        <5> QED BY <2>2, <3>2 DEF IsSetFold
      <4>3. iter[s \ {x}] \in Seq(S)
        BY <4>1
      <4> HIDE DEF x
      <4>4. step[<<x, iter[s \ {x}]>>] = Append(iter[s \ {x}], x)
        BY <4>1, <4>3
      <4> USE DEF x
      <4> QED BY <3>2, <4>2, <4>4
    <3> QED
      BY <3>1, <3>2
  <2>4. DOMAIN iter = SUBSET S /\ iter = [s \in SUBSET S |-> iter[s]]
    OBVIOUS
  <2> QED
    BY <2>3, <2>4
<1>3. it = [s \in SUBSET S |->
               IF s = {} THEN <<>>
               ELSE Append(it[s \ {CHOOSE x \in s : TRUE}], CHOOSE x \in s : TRUE)]
  BY <1>2
<1> HIDE DEF it
<1> DEFINE T == {s \in SUBSET S : it[s] \in Orders(s)}
<1>4. {} \in T
  <2>1. it[{}] = <<>>
    BY <1>3
  <2>2. <<>> \in Seq({}) /\ Len(<<>>) = 0 /\ ToSet(<<>>) = {} /\ Cardinality({}) = 0
    BY FS_EmptySet DEF ToSet
  <2> QED
    BY <2>1, <2>2 DEF Orders
<1>5. ASSUME NEW s \in SUBSET S, s # {}, s \ {CHOOSE x \in s : TRUE} \in T
      PROVE  s \in T
  <2> DEFINE x == CHOOSE x \in s : TRUE
             rest == it[s \ {x}]
  <2>1. x \in s /\ it[s] = Append(rest, x)
    BY <1>3, <1>5
  <2>2. rest \in Seq(s \ {x}) /\ Len(rest) = Cardinality(s \ {x}) /\ ToSet(rest) = s \ {x}
    BY <1>5 DEF Orders
  <2> HIDE DEF x, rest
  <2>3. Cardinality(s \ {x}) = Cardinality(s) - 1 /\ Cardinality(s) \in Nat
    BY <2>1, FS_Subset, FS_RemoveElement, FS_CardinalityType
  <2>4. Append(rest, x) \in Seq(s) /\ Len(Append(rest, x)) = Cardinality(s)
    BY <2>1, <2>2, <2>3
  <2>5. ToSet(Append(rest, x)) = s
    <3>1. DOMAIN Append(rest, x) = DOMAIN rest \cup {Len(rest) + 1}
      BY <2>2
    <3>2. \A i \in DOMAIN rest : Append(rest, x)[i] = rest[i]
      BY <2>2
    <3>3. Append(rest, x)[Len(rest) + 1] = x
      BY <2>2
    <3>4. ASSUME NEW y \in s
          PROVE  \E i \in DOMAIN Append(rest, x) : Append(rest, x)[i] = y
      <4>1. CASE y = x
        BY <3>1, <3>3, <4>1
      <4>2. CASE y # x
        <5>1. PICK i \in DOMAIN rest : rest[i] = y
          BY <2>2, <4>2 DEF ToSet
        <5> QED
          BY <3>1, <3>2, <5>1
      <4> QED
        BY <4>1, <4>2
    <3>5. \A i \in DOMAIN Append(rest, x) : Append(rest, x)[i] \in s
      BY <2>1, <2>2, <3>1, <3>2, <3>3 DEF ToSet
    <3> QED
      BY <3>4, <3>5 DEF ToSet
  <2> QED
    BY <2>1, <2>4, <2>5 DEF Orders
<1>6. S \in T
  <2> HIDE DEF T
  <2> QED BY <1>4, <1>5, PickSteps
<1> QED
  BY <1>1, <1>6

LEMMA SomeOf ==
    ASSUME NEW S, IsFiniteSet(S), NEW n \in Nat
    PROVE  /\ Some(S, n) \subseteq S
           /\ IsFiniteSet(Some(S, n)) /\ Cardinality(Some(S, n)) <= n
           /\ Cardinality(S) <= n => Some(S, n) = S
<1>1. CASE Cardinality(S) <= n
  BY <1>1 DEF Some
<1>2. CASE ~(Cardinality(S) <= n)
  <2> DEFINE s == InSomeOrder(S)
             T == {s[i] : i \in 1 .. n}
  <2>1. s \in Seq(S) /\ Len(s) = Cardinality(S) /\ Cardinality(S) \in Nat
    BY OrderExists, FS_CardinalityType DEF Orders
  <2>2. Some(S, n) = T
    BY <1>2 DEF Some
  <2> HIDE DEF s
  <2>3. \A i \in 1 .. n : s[i] \in S
    BY <1>2, <2>1
  <2>4. [i \in 1 .. n |-> s[i]] \in Surjection(1 .. n, T)
    BY DEF Surjection
  <2>5. IsFiniteSet(1 .. n) /\ Cardinality(1 .. n) = n
    BY FS_Interval
  <2>6. IsFiniteSet(T) /\ Cardinality(T) <= n
    <3> HIDE DEF T
    <3> QED BY <2>4, <2>5, FS_Surjection
  <2> QED
    BY <1>2, <2>2, <2>3, <2>6
<1> QED
  BY <1>1, <1>2

(***************************************************************************)
(* The sums of the strengths and urgencies of finitely many facts.         *)
(***************************************************************************)
LEMMA StrengthsAddUp ==
    ASSUME NEW S, IsFiniteSet(S)
    PROVE  MapThenSumSet(Strength, S) \in Nat
<1> DEFINE it == CHOOSE iter : iter = [s \in SUBSET S |->
                     IF s = {} THEN 0
                     ELSE Strength(CHOOSE x \in s : TRUE) + iter[s \ {CHOOSE x \in s : TRUE}]]
           step == [p \in S \X Nat |-> Strength(p[1]) + p[2]]
<1>0. \A x : Strength(x) \in Nat
  BY DEF Strength
<1>1. MapThenSumSet(Strength, S) = it[S]
  BY DEF MapThenSumSet, MapThenFoldSet
<1>2. \E iter : iter = [s \in SUBSET S |->
                     IF s = {} THEN 0
                     ELSE Strength(CHOOSE x \in s : TRUE) + iter[s \ {CHOOSE x \in s : TRUE}]]
  <2>1. step \in [S \X Nat -> Nat]
    BY <1>0
  <2>2. PICK iter \in [SUBSET S -> Nat] : IsSetFold(iter, S, 0, step)
    <3> HIDE DEF step
    <3> QED BY <2>1, SetFoldExists
  <2>3. ASSUME NEW s \in SUBSET S
        PROVE  iter[s] = IF s = {} THEN 0
                         ELSE Strength(CHOOSE x \in s : TRUE) + iter[s \ {CHOOSE x \in s : TRUE}]
    <3>1. CASE s = {}
      <4> HIDE DEF step
      <4> QED BY <2>2, <3>1 DEF IsSetFold
    <3>2. CASE s # {}
      <4> DEFINE x == CHOOSE x \in s : TRUE
      <4>1. x \in S /\ s \ {x} \in SUBSET S
        BY <3>2
      <4>2. iter[s] = step[<<x, iter[s \ {x}]>>]
        <5> HIDE DEF step
        <5> QED BY <2>2, <3>2 DEF IsSetFold
      <4>3. iter[s \ {x}] \in Nat
        BY <4>1
      <4> HIDE DEF x
      <4>4. step[<<x, iter[s \ {x}]>>] = Strength(x) + iter[s \ {x}]
        BY <4>1, <4>3
      <4> USE DEF x
      <4> QED BY <3>2, <4>2, <4>4
    <3> QED
      BY <3>1, <3>2
  <2>4. iter = [s \in SUBSET S |->
                     IF s = {} THEN 0
                     ELSE Strength(CHOOSE x \in s : TRUE) + iter[s \ {CHOOSE x \in s : TRUE}]]
    <3> HIDE DEF step
    <3>1. DOMAIN iter = SUBSET S /\ iter = [s \in SUBSET S |-> iter[s]]
      OBVIOUS
    <3> QED BY <2>3, <3>1
  <2> QED
    BY <2>4
<1>3. it = [s \in SUBSET S |->
               IF s = {} THEN 0
               ELSE Strength(CHOOSE x \in s : TRUE) + it[s \ {CHOOSE x \in s : TRUE}]]
  BY <1>2
<1> HIDE DEF it
<1> DEFINE T == {s \in SUBSET S : it[s] \in Nat}
<1>4. {} \in T
  BY <1>3
<1>5. ASSUME NEW s \in SUBSET S, s # {}, s \ {CHOOSE x \in s : TRUE} \in T
      PROVE  s \in T
  BY <1>0, <1>3, <1>5
<1>6. S \in T
  <2> HIDE DEF T
  <2> QED BY <1>4, <1>5, PickSteps
<1> QED
  BY <1>1, <1>6

LEMMA UrgenciesAddUp ==
    ASSUME NEW S, IsFiniteSet(S)
    PROVE  MapThenSumSet(Urgency, S) \in Nat
<1> DEFINE it == CHOOSE iter : iter = [s \in SUBSET S |->
                     IF s = {} THEN 0
                     ELSE Urgency(CHOOSE x \in s : TRUE) + iter[s \ {CHOOSE x \in s : TRUE}]]
           step == [p \in S \X Nat |-> Urgency(p[1]) + p[2]]
<1>0. \A x : Urgency(x) \in Nat
  BY DEF Urgency
<1>1. MapThenSumSet(Urgency, S) = it[S]
  BY DEF MapThenSumSet, MapThenFoldSet
<1>2. \E iter : iter = [s \in SUBSET S |->
                     IF s = {} THEN 0
                     ELSE Urgency(CHOOSE x \in s : TRUE) + iter[s \ {CHOOSE x \in s : TRUE}]]
  <2>1. step \in [S \X Nat -> Nat]
    BY <1>0
  <2>2. PICK iter \in [SUBSET S -> Nat] : IsSetFold(iter, S, 0, step)
    <3> HIDE DEF step
    <3> QED BY <2>1, SetFoldExists
  <2>3. ASSUME NEW s \in SUBSET S
        PROVE  iter[s] = IF s = {} THEN 0
                         ELSE Urgency(CHOOSE x \in s : TRUE) + iter[s \ {CHOOSE x \in s : TRUE}]
    <3>1. CASE s = {}
      <4> HIDE DEF step
      <4> QED BY <2>2, <3>1 DEF IsSetFold
    <3>2. CASE s # {}
      <4> DEFINE x == CHOOSE x \in s : TRUE
      <4>1. x \in S /\ s \ {x} \in SUBSET S
        BY <3>2
      <4>2. iter[s] = step[<<x, iter[s \ {x}]>>]
        <5> HIDE DEF step
        <5> QED BY <2>2, <3>2 DEF IsSetFold
      <4>3. iter[s \ {x}] \in Nat
        BY <4>1
      <4> HIDE DEF x
      <4>4. step[<<x, iter[s \ {x}]>>] = Urgency(x) + iter[s \ {x}]
        BY <4>1, <4>3
      <4> USE DEF x
      <4> QED BY <3>2, <4>2, <4>4
    <3> QED
      BY <3>1, <3>2
  <2>4. iter = [s \in SUBSET S |->
                     IF s = {} THEN 0
                     ELSE Urgency(CHOOSE x \in s : TRUE) + iter[s \ {CHOOSE x \in s : TRUE}]]
    <3> HIDE DEF step
    <3>1. DOMAIN iter = SUBSET S /\ iter = [s \in SUBSET S |-> iter[s]]
      OBVIOUS
    <3> QED BY <2>3, <3>1
  <2> QED
    BY <2>4
<1>3. it = [s \in SUBSET S |->
               IF s = {} THEN 0
               ELSE Urgency(CHOOSE x \in s : TRUE) + it[s \ {CHOOSE x \in s : TRUE}]]
  BY <1>2
<1> HIDE DEF it
<1> DEFINE T == {s \in SUBSET S : it[s] \in Nat}
<1>4. {} \in T
  BY <1>3
<1>5. ASSUME NEW s \in SUBSET S, s # {}, s \ {CHOOSE x \in s : TRUE} \in T
      PROVE  s \in T
  BY <1>0, <1>3, <1>5
<1>6. S \in T
  <2> HIDE DEF T
  <2> QED BY <1>4, <1>5, PickSteps
<1> QED
  BY <1>1, <1>6

-----------------------------------------------------------------------------
(***************************************************************************)
(* Each document is what its stage makes of the documents before it and of *)
(* the run's rows, which stand still once the run is sealed.               *)
(***************************************************************************)
IsSequence(s) == s \in Seq(ToSet(s))

RowsInv ==
    /\ files \in Seq(FileChanges) /\ commands \in Seq(Commands)
    /\ turnFiles \in Seq(FileChanges) \cup {None} /\ seal \in Seals \cup {None}

ChainInv ==
    /\ classification # None =>
           seal # None /\ classification = Classify(FinalReconciliation)
    /\ verification # None =>
           Made(classification) /\ verification = Extract(classification, SourceEvents)
    /\ graph # None =>
           /\ Made(verification)
           /\ graph = BuildGraph(RunRecord(verification), classification, verification)
    /\ input # None =>
           Made(graph) /\ input = PrepareInput(RunRecord(verification), graph, verification)
    /\ batch # <<>> => Made(input)
    /\ report # None => batch # <<>> /\ report = Report(batch, graph)
    /\ moments # None => Made(report) /\ moments = Project(report, batch, graph)

BatchInv ==
    /\ IsSequence(batch)
    /\ batch # <<>> => BatchIsValid(batch)
    /\ \A i \in DOMAIN batch : batch[i].length \in Nat

ContentInv == RowsInv /\ ChainInv /\ BatchInv

LEMMA ContentStart == ContentInit => ContentInv
<1> SUFFICES ASSUME ContentInit PROVE ContentInv
  OBVIOUS
<1>1. RowsInv
  BY DEF ContentInit, RowsInv
<1>2. ChainInv
  BY DEF ContentInit, ChainInv
<1>3. BatchInv
  BY DEF ContentInit, BatchInv, IsSequence, ToSet
<1> QED
  BY <1>1, <1>2, <1>3 DEF ContentInv

LEMMA RowsStand ==
    ASSUME UNCHANGED evidenceVars
    PROVE  /\ FinalReconciliation' = FinalReconciliation
           /\ SourceEvents' = SourceEvents
           /\ \A v : RunRecord(v)' = RunRecord(v)
<1>1. Reconciliations' = Reconciliations
  BY DEF evidenceVars, Reconciliations, ReconciliationOf, Entry
<1>2. FinalReconciliation' = FinalReconciliation
  BY <1>1 DEF evidenceVars, FinalReconciliation
<1>3. \A rs : FileEvents(rs)' = FileEvents(rs)
  BY DEF evidenceVars, FileEvents
<1>4. SourceEvents' = SourceEvents
  BY <1>1, <1>3 DEF evidenceVars, SourceEvents, ToolEvent
<1> QED
  BY <1>1, <1>2, <1>4 DEF evidenceVars, RunRecord

\* The documents made so far stay what they are while the rows stand.
LEMMA ChainStands ==
    ASSUME ChainInv, UNCHANGED <<evidenceVars, classification, verification, graph>>
    PROVE  /\ classification' # None =>
                  seal' # None /\ classification' = Classify(FinalReconciliation)'
           /\ verification' # None =>
                  Made(classification)' /\ verification' = Extract(classification, SourceEvents)'
           /\ graph' # None =>
                  /\ Made(verification)'
                  /\ graph' = BuildGraph(RunRecord(verification), classification, verification)'
<1>1. /\ FinalReconciliation' = FinalReconciliation
      /\ SourceEvents' = SourceEvents
      /\ \A v : RunRecord(v)' = RunRecord(v)
  BY RowsStand
<1>2. seal' = seal
  BY DEF evidenceVars
<1>3. Classify(FinalReconciliation)' = Classify(FinalReconciliation)
  BY <1>1
<1>4. Extract(classification, SourceEvents)' = Extract(classification, SourceEvents)
  BY <1>1
<1>5. RunRecord(verification)' = RunRecord(verification)
  BY <1>1
<1>6. BuildGraph(RunRecord(verification), classification, verification)'
        = BuildGraph(RunRecord(verification), classification, verification)
  BY <1>5
<1> QED
  BY <1>2, <1>3, <1>4, <1>6 DEF ChainInv, Made

LEMMA RowsStep ==
    ASSUME RowsInv, [ContentNext]_vars
    PROVE  RowsInv'
<1>1. ASSUME NEW f \in FileChanges, ChangeFile(f)
      PROVE  RowsInv'
  BY <1>1 DEF RowsInv, ChangeFile
<1>2. ASSUME NEW c \in Commands, RunCommand(c)
      PROVE  RowsInv'
  BY <1>2 DEF RowsInv, RunCommand
<1>3. CASE EndTurn
  BY <1>3 DEF RowsInv, EndTurn
<1>4. ASSUME NEW s \in Seals, SealRun(s)
      PROVE  RowsInv'
  BY <1>4 DEF RowsInv, SealRun
<1>5. ASSUME UNCHANGED evidenceVars
      PROVE  RowsInv'
  BY <1>5 DEF RowsInv, evidenceVars
<1>6. ASSUME NEW p, NEW cites, Propose(p, cites)
      PROVE  UNCHANGED evidenceVars
  BY <1>6 DEF Propose
<1> QED
  BY <1>1, <1>2, <1>3, <1>4, <1>5, <1>6
     DEF ContentNext, vars, ClassifyChanges, ExtractEvidence, BuildEvidenceGraph,
         PrepareSemanticInput, ValidateCandidates, ProjectMoments

LEMMA BatchStep ==
    ASSUME BatchInv, [ContentNext]_vars
    PROVE  BatchInv'
<1>1. ASSUME UNCHANGED batch
      PROVE  BatchInv'
  BY <1>1 DEF BatchInv, IsSequence
<1>2. ASSUME NEW p \in Proposals, NEW cites, Propose(p, cites)
      PROVE  BatchInv'
  <2> DEFINE c == Proposed(p, cites)
             longer == Append(batch, c)
  <2>1. batch' = longer /\ BatchIsValid(longer)
    BY <1>2 DEF Propose
  <2>2. c.length \in Nat
    BY ContentAssumption DEF Proposed
  <2>3. batch \in Seq(ToSet(batch))
    BY DEF BatchInv, IsSequence
  <2> HIDE DEF c
  <2>4. /\ DOMAIN longer = DOMAIN batch \cup {Len(batch) + 1}
        /\ \A i \in DOMAIN batch : longer[i] = batch[i]
        /\ longer[Len(batch) + 1] = c
    BY <2>3
  <2>5. ToSet(batch) \cup {c} \subseteq ToSet(longer)
    <3>1. ToSet(batch) \subseteq ToSet(longer)
      BY <2>4 DEF ToSet
    <3>2. c \in ToSet(longer)
      BY <2>4 DEF ToSet
    <3> QED
      BY <3>1, <3>2
  <2>6. longer \in Seq(ToSet(longer))
    <3>1. longer \in Seq(ToSet(batch) \cup {c})
      BY <2>3
    <3> HIDE DEF longer
    <3> QED BY <2>5, <3>1
  <2>7. \A i \in DOMAIN longer : longer[i].length \in Nat
    BY <2>2, <2>4 DEF BatchInv
  <2> HIDE DEF longer
  <2> QED
    BY <2>1, <2>6, <2>7 DEF BatchInv, IsSequence
<1> QED
  BY <1>1, <1>2
     DEF ContentNext, vars, ChangeFile, RunCommand, EndTurn, SealRun, ClassifyChanges,
         ExtractEvidence, BuildEvidenceGraph, PrepareSemanticInput, ValidateCandidates,
         ProjectMoments

LEMMA ChainStep ==
    ASSUME ContentInv, [ContentNext]_vars
    PROVE  ChainInv'
<1> USE DEF ContentInv
<1> DEFINE later == <<input, batch, report, moments>>
\* While the run is recorded there are no documents.
<1>1. ASSUME seal = None, UNCHANGED <<classification, verification, graph, later>>
      PROVE  ChainInv'
  BY <1>1 DEF ChainInv, Made
\* A stage that leaves the rows and the documents before its own alone.
<1>2. ASSUME UNCHANGED evidenceVars, UNCHANGED <<classification, verification, graph>>
      PROVE  /\ \A v : RunRecord(v)' = RunRecord(v)
             /\ PrepareInput(RunRecord(verification), graph, verification)'
                  = PrepareInput(RunRecord(verification), graph, verification)
  <2>1. \A v : RunRecord(v)' = RunRecord(v)
    BY <1>2, RowsStand
  <2>2. RunRecord(verification)' = RunRecord(verification)
    BY <1>2, <2>1
  <2> QED
    BY <1>2, <2>1, <2>2
<1>3. ASSUME UNCHANGED <<evidenceVars, classification, verification, graph>>
      PROVE  /\ classification' # None =>
                  seal' # None /\ classification' = Classify(FinalReconciliation)'
             /\ verification' # None =>
                  Made(classification)' /\ verification' = Extract(classification, SourceEvents)'
             /\ graph' # None =>
                  /\ Made(verification)'
                  /\ graph' = BuildGraph(RunRecord(verification), classification, verification)'
  BY <1>3, ChainStands
<1>4. CASE UNCHANGED vars
  BY <1>4, <1>2, <1>3 DEF vars, ChainInv, Made
<1>5. ASSUME NEW f \in FileChanges, ChangeFile(f)
      PROVE  ChainInv'
  BY <1>1, <1>5 DEF ChangeFile
<1>6. ASSUME NEW c \in Commands, RunCommand(c)
      PROVE  ChainInv'
  BY <1>1, <1>6 DEF RunCommand
<1>7. CASE EndTurn
  BY <1>1, <1>7 DEF EndTurn
<1>8. ASSUME NEW s \in Seals, SealRun(s)
      PROVE  ChainInv'
  BY <1>1, <1>8 DEF SealRun
<1>9. CASE ClassifyChanges
  <2>1. UNCHANGED evidenceVars /\ verification = None /\ graph = None /\ input = None
        /\ batch = <<>> /\ report = None /\ moments = None
    BY <1>9 DEF ClassifyChanges, ChainInv, Made
  <2>2. FinalReconciliation' = FinalReconciliation
    BY <2>1, RowsStand
  <2> QED
    BY <1>9, <2>1, <2>2 DEF ClassifyChanges, ChainInv, evidenceVars
<1>10. CASE ExtractEvidence
  <2>1. /\ UNCHANGED evidenceVars /\ UNCHANGED classification /\ graph = None /\ input = None
        /\ batch = <<>> /\ report = None /\ moments = None /\ Made(classification)
    BY <1>10 DEF ExtractEvidence, ChainInv, Made
  <2>2. FinalReconciliation' = FinalReconciliation /\ SourceEvents' = SourceEvents
    BY <2>1, RowsStand
  <2> QED
    BY <1>10, <2>1, <2>2 DEF ExtractEvidence, ChainInv, evidenceVars, Made
<1>11. CASE BuildEvidenceGraph
  <2>1. /\ UNCHANGED evidenceVars /\ UNCHANGED <<classification, verification>> /\ input = None
        /\ batch = <<>> /\ report = None /\ moments = None
        /\ Made(classification) /\ Made(verification)
    BY <1>11 DEF BuildEvidenceGraph, ChainInv, Made
  <2>2. /\ FinalReconciliation' = FinalReconciliation /\ SourceEvents' = SourceEvents
        /\ \A v : RunRecord(v)' = RunRecord(v)
    BY <2>1, RowsStand
  <2>3. RunRecord(verification)' = RunRecord(verification)
    BY <2>1, <2>2
  <2> QED
    BY <1>11, <2>1, <2>2, <2>3 DEF BuildEvidenceGraph, ChainInv, evidenceVars, Made
<1>12. CASE PrepareSemanticInput
  <2>1. /\ UNCHANGED evidenceVars /\ UNCHANGED <<classification, verification, graph>>
        /\ batch = <<>> /\ report = None /\ moments = None /\ Made(graph)
        /\ UNCHANGED <<batch, report, moments>>
        /\ input' = PrepareInput(RunRecord(verification), graph, verification)
    BY <1>12 DEF PrepareSemanticInput, ChainInv, Made
  <2> QED
    BY <2>1, <1>2, <1>3 DEF ChainInv, Made
<1>13. ASSUME NEW p \in Proposals, NEW cites, Propose(p, cites)
       PROVE  ChainInv'
  <2>1. /\ UNCHANGED evidenceVars /\ UNCHANGED <<classification, verification, graph, input>>
        /\ report = None /\ moments = None /\ Made(input) /\ UNCHANGED <<report, moments>>
    BY <1>13 DEF Propose, ChainInv, Made
  <2> QED
    BY <2>1, <1>2, <1>3 DEF ChainInv, Made
<1>14. CASE ValidateCandidates
  <2>1. /\ UNCHANGED evidenceVars /\ UNCHANGED <<classification, verification, graph, input, batch>>
        /\ moments = None /\ batch # <<>> /\ UNCHANGED moments
        /\ report' = Report(batch, graph)
    BY <1>14 DEF ValidateCandidates, ChainInv, Made
  <2>2. Report(batch, graph)' = Report(batch, graph)
    BY <2>1
  <2> QED
    BY <2>1, <2>2, <1>2, <1>3 DEF ChainInv, Made
<1>15. CASE ProjectMoments
  <2>1. /\ UNCHANGED evidenceVars
        /\ UNCHANGED <<classification, verification, graph, input, batch, report>>
        /\ Made(report) /\ moments' = Project(report, batch, graph)
    BY <1>15 DEF ProjectMoments
  <2>2. Report(batch, graph)' = Report(batch, graph)
        /\ Project(report, batch, graph)' = Project(report, batch, graph)
    BY <2>1
  <2> QED
    BY <2>1, <2>2, <1>2, <1>3 DEF ChainInv, Made
<1> QED
  BY <1>4, <1>5, <1>6, <1>7, <1>8, <1>9, <1>10, <1>11, <1>12, <1>13, <1>14, <1>15 DEF ContentNext

(***************************************************************************)
(* In every reachable state the documents are those of the chain.          *)
(***************************************************************************)
THEOREM ContentInvariant == ContentSpec => []ContentInv
<1>1. ContentInv /\ [ContentNext]_vars => ContentInv'
  BY RowsStep, BatchStep, ChainStep DEF ContentInv
<1> QED
  BY ContentStart, <1>1, PTL DEF ContentSpec

-----------------------------------------------------------------------------
(***************************************************************************)
(* Sequences and finite sets.                                              *)
(***************************************************************************)
LEMMA FiniteImage ==
    ASSUME NEW f, IsFiniteSet(DOMAIN f)
    PROVE  /\ IsFiniteSet(Range(f))
           /\ Cardinality(Range(f)) <= Cardinality(DOMAIN f)
<1> DEFINE g == [x \in DOMAIN f |-> f[x]]
<1>1. g \in Surjection(DOMAIN f, Range(f))
  BY DEF Surjection, Range
<1> HIDE DEF g
<1> QED
  BY <1>1, FS_Surjection

LEMMA SequenceElements ==
    ASSUME NEW s, IsSequence(s)
    PROVE  /\ Len(s) \in Nat /\ DOMAIN s = 1 .. Len(s) /\ IsFiniteSet(DOMAIN s)
           /\ IsFiniteSet(ToSet(s)) /\ Cardinality(ToSet(s)) <= Len(s)
<1>1. Len(s) \in Nat /\ DOMAIN s = 1 .. Len(s)
  BY DEF IsSequence
<1>2. IsFiniteSet(DOMAIN s) /\ Cardinality(DOMAIN s) = Len(s)
  <2>1. Len(s) \in Int /\ 1 \in Int
    BY <1>1
  <2>2. /\ IsFiniteSet(1 .. Len(s))
        /\ Cardinality(1 .. Len(s)) = IF 1 > Len(s) THEN 0 ELSE Len(s) - 1 + 1
    BY <2>1, FS_Interval
  <2>3. (IF 1 > Len(s) THEN 0 ELSE Len(s) - 1 + 1) = Len(s)
    BY <1>1
  <2> QED
    BY <1>1, <2>2, <2>3
<1>3. ToSet(s) = Range(s)
  BY DEF ToSet, Range
<1> QED
  BY <1>1, <1>2, <1>3, FiniteImage

LEMMA MappedIsSequence ==
    ASSUME NEW n \in Nat, NEW s, s = [i \in 1 .. n |-> s[i]]
    PROVE  IsSequence(s) /\ Len(s) = n
<1>1. s \in [1 .. n -> ToSet(s)]
  BY DEF ToSet
<1>2. s \in Seq(ToSet(s))
  BY <1>1
<1> QED
  BY <1>1, <1>2 DEF IsSequence

LEMMA JoinedIsSequence ==
    ASSUME NEW s, IsSequence(s), NEW t, IsSequence(t)
    PROVE  /\ IsSequence(s \o t) /\ ToSet(s \o t) = ToSet(s) \cup ToSet(t)
           /\ Len(s \o t) = Len(s) + Len(t)
           /\ \A i \in DOMAIN s : (s \o t)[i] = s[i]
           /\ \A i \in DOMAIN t : (s \o t)[Len(s) + i] = t[i]
<1> DEFINE V == ToSet(s) \cup ToSet(t)
<1>1. s \in Seq(V) /\ t \in Seq(V)
  BY DEF IsSequence
<1>2. s \o t \in Seq(V) /\ Len(s \o t) = Len(s) + Len(t)
  BY <1>1
<1>3. \A i \in DOMAIN s : i \in DOMAIN (s \o t) /\ (s \o t)[i] = s[i]
  BY <1>1
<1>4. \A i \in DOMAIN t : Len(s) + i \in DOMAIN (s \o t) /\ (s \o t)[Len(s) + i] = t[i]
  BY <1>1
<1>5. ToSet(s) \subseteq ToSet(s \o t)
  BY <1>3 DEF ToSet
<1>6. ToSet(t) \subseteq ToSet(s \o t)
  BY <1>4 DEF ToSet
<1>7. ToSet(s \o t) \subseteq V
  <2>1. \A i \in DOMAIN (s \o t) : (s \o t)[i] \in V
    BY <1>2
  <2> HIDE DEF V
  <2> QED BY <2>1 DEF ToSet
<1> QED
  BY <1>2, <1>3, <1>4, <1>5, <1>6, <1>7 DEF IsSequence

LEMMA ShortSequences ==
    /\ IsSequence(<<>>) /\ ToSet(<<>>) = {} /\ Len(<<>>) = 0
    /\ \A x : IsSequence(<<x>>) /\ ToSet(<<x>>) = {x} /\ Len(<<x>>) = 1
    /\ \A x, y : IsSequence(<<x, y>>) /\ ToSet(<<x, y>>) = {x, y} /\ Len(<<x, y>>) = 2
<1>1. IsSequence(<<>>) /\ ToSet(<<>>) = {} /\ Len(<<>>) = 0
  BY DEF IsSequence, ToSet
<1>2. ASSUME NEW x
      PROVE  IsSequence(<<x>>) /\ ToSet(<<x>>) = {x} /\ Len(<<x>>) = 1
  <2>1. ToSet(<<x>>) = {x}
    BY DEF ToSet
  <2> QED
    BY <2>1 DEF IsSequence
<1>3. ASSUME NEW x, NEW y
      PROVE  IsSequence(<<x, y>>) /\ ToSet(<<x, y>>) = {x, y} /\ Len(<<x, y>>) = 2
  <2>1. ToSet(<<x, y>>) = {x, y}
    <3>1. DOMAIN <<x, y>> = {1, 2}
      OBVIOUS
    <3> QED
      BY <3>1 DEF ToSet
  <2> QED
    BY <2>1 DEF IsSequence
<1> QED
  BY <1>1, <1>2, <1>3

(***************************************************************************)
(* FlattenSeq joins the sequences one after the other.                     *)
(***************************************************************************)
LEMMA FlattenSteps ==
    ASSUME NEW V, NEW seqs \in Seq(Seq(V))
    PROVE  \E flat \in [0 .. Len(seqs) -> Seq(V)] :
              /\ flat[0] = <<>>
              /\ \A i \in 1 .. Len(seqs) : flat[i] = flat[i - 1] \o seqs[i]
              /\ flat[Len(seqs)] = FlattenSeq(seqs)
<1> DEFINE n == Len(seqs)
<1>0. n \in Nat /\ \A i \in 1 .. n : seqs[i] \in Seq(V)
  OBVIOUS
<1>1. CASE n = 0
  <2>1. FlattenSeq(seqs) = <<>>
    BY <1>1 DEF FlattenSeq
  <2> DEFINE none == [i \in 0 .. n |-> <<>>]
  <2>2. none \in [0 .. n -> Seq(V)] /\ none[0] = <<>> /\ none[n] = <<>>
    BY <1>0
  <2>3. \A i \in 1 .. n : none[i] = none[i - 1] \o seqs[i]
    BY <1>1
  <2> HIDE DEF none
  <2> QED
    BY <2>1, <2>2, <2>3
<1>2. CASE n # 0
  <2> DEFINE step == [p \in Seq(V) \X (1 .. n) |-> p[1] \o seqs[p[2]]]
             Body(f) == [i \in 1 .. n |-> IF i = 1 THEN seqs[i] ELSE f[i - 1] \o seqs[i]]
  <2>1. step \in [Seq(V) \X (1 .. n) -> Seq(V)] /\ <<>> \in Seq(V)
    BY <1>0
  <2>2. PICK it \in [SUBSET (1 .. n) -> Seq(V)] : IsLeftFold(it, n, <<>>, step)
    <3> HIDE DEF step, n
    <3> QED BY <1>0, <2>1, LeftFoldExists
  <2> DEFINE flat == [i \in 0 .. n |-> it[1 .. i]]
  <2>3. ASSUME NEW i \in 1 .. n
        PROVE  it[1 .. i] = it[1 .. (i - 1)] \o seqs[i]
    <3>1. i - 1 \in Nat /\ (i - 1) + 1 = i
      OBVIOUS
    <3>2. Max(1 .. i) = i /\ (1 .. i) \ {i} = 1 .. (i - 1) /\ 1 .. i # {}
      BY <3>1, MaxInterval
    <3>3. 1 .. i \in SUBSET (1 .. n) /\ 1 .. (i - 1) \in SUBSET (1 .. n)
      BY <1>0
    <3>4. it[1 .. i] = step[<<it[1 .. (i - 1)], i>>]
      <4> HIDE DEF step
      <4> QED BY <2>2, <3>2, <3>3 DEF IsLeftFold
    <3>5. it[1 .. (i - 1)] \in Seq(V)
      BY <3>3
    <3> QED
      BY <3>4, <3>5
  <2>4. it[1 .. 0] = <<>>
    <3>1. 1 .. 0 = {}
      OBVIOUS
    <3> HIDE DEF step
    <3> QED BY <2>2, <3>1 DEF IsLeftFold
  <2>5. flat \in [0 .. n -> Seq(V)]
    <3>1. \A i \in 0 .. n : 1 .. i \in SUBSET (1 .. n)
      BY <1>0
    <3> QED BY <3>1
  <2>6. flat[0] = <<>> /\ \A i \in 1 .. n : flat[i] = flat[i - 1] \o seqs[i]
    <3>1. flat[0] = <<>>
      BY <1>0, <2>4
    <3>2. ASSUME NEW i \in 1 .. n
          PROVE  flat[i] = flat[i - 1] \o seqs[i]
      <4>1. i \in 0 .. n /\ i - 1 \in 0 .. n
        BY <1>0
      <4>2. flat[i] = it[1 .. i] /\ flat[i - 1] = it[1 .. (i - 1)]
        BY <4>1
      <4> HIDE DEF flat
      <4> QED BY <2>3, <4>2
    <3> HIDE DEF flat
    <3> QED BY <3>1, <3>2
  <2>7. flat[n] = FlattenSeq(seqs)
    <3> DEFINE f == CHOOSE f : f = Body(f)
               g == [i \in 1 .. n |-> flat[i]]
    <3>1. FlattenSeq(seqs) = f[n]
      BY <1>2 DEF FlattenSeq
    <3> HIDE DEF flat
    <3>2. g = Body(g)
      <4>1. ASSUME NEW i \in 1 .. n
            PROVE  g[i] = IF i = 1 THEN seqs[i] ELSE g[i - 1] \o seqs[i]
        <5>1. CASE i = 1
          <6>1. flat[1] = flat[1 - 1] \o seqs[1] /\ seqs[1] \in Seq(V) /\ g[1] = flat[1]
            BY <1>0, <2>6, <5>1
          <6>2. flat[1] = seqs[1]
            <7>1. 1 - 1 = 0
              OBVIOUS
            <7>2. flat[1] = <<>> \o seqs[1]
              BY <2>6, <6>1, <7>1
            <7>3. <<>> \o seqs[1] = seqs[1]
              BY <6>1
            <7> QED BY <7>2, <7>3
          <6> QED BY <5>1, <6>1, <6>2
        <5>2. CASE i # 1
          <6>1. i - 1 \in 1 .. n
            BY <5>2
          <6> QED BY <2>6, <5>2, <6>1
        <5> QED BY <5>1, <5>2
      <4> QED
        BY <4>1
    <3>3. f = Body(f)
      <4>1. \E h : h = Body(h)
        BY <3>2
      <4> HIDE DEF Body
      <4> QED BY <4>1
    <3>4. \A i \in 1 .. n : f[i] = IF i = 1 THEN seqs[i] ELSE f[i - 1] \o seqs[i]
      <4> HIDE DEF f
      <4> QED BY <3>3
    <3> HIDE DEF f
    <3> DEFINE K == {k \in Nat : k + 1 <= n => f[k + 1] = flat[k + 1]}
    <3>5. 0 \in K
      <4>1. 1 \in 1 .. n
        BY <1>0, <1>2
      <4>2. f[1] = seqs[1]
        BY <3>4, <4>1
      <4>3. g[1] = seqs[1] /\ g[1] = flat[1]
        BY <3>2, <4>1
      <4> HIDE DEF g
      <4> QED BY <4>2, <4>3
    <3>6. ASSUME NEW k \in Nat, k \in K
          PROVE  k + 1 \in K
      <4> SUFFICES ASSUME k + 2 <= n PROVE f[k + 2] = flat[k + 2]
        OBVIOUS
      <4>1. f[k + 1] = flat[k + 1] /\ k + 2 \in 1 .. n /\ k + 2 # 1 /\ (k + 2) - 1 = k + 1
        BY <1>0, <3>6
      <4>2. f[k + 2] = f[(k + 2) - 1] \o seqs[k + 2]
        BY <3>4, <4>1
      <4>3. flat[k + 2] = flat[(k + 2) - 1] \o seqs[k + 2]
        BY <2>6, <4>1
      <4> QED
        BY <4>1, <4>2, <4>3
    <3>7. Nat \subseteq K
      <4> HIDE DEF K
      <4> QED BY <3>5, <3>6, NaturalSteps
    <3>8. n - 1 \in Nat /\ (n - 1) + 1 = n
      BY <1>0, <1>2
    <3>9. n - 1 \in K
      <4> HIDE DEF K, n
      <4> QED BY <3>7, <3>8
    <3> QED
      BY <1>0, <3>1, <3>8, <3>9
  <2> HIDE DEF flat
  <2> QED
    BY <2>5, <2>6, <2>7
<1> QED
  BY <1>1, <1>2

Joinable(seqs, n) ==
    n \in Nat /\ seqs = [i \in 1 .. n |-> seqs[i]] /\ \A i \in 1 .. n : IsSequence(seqs[i])

JoinedBy(flat, seqs, n) ==
    /\ flat[0] = <<>> /\ flat[n] = FlattenSeq(seqs)
    /\ \A i \in 0 .. n : IsSequence(flat[i])
    /\ \A i \in 1 .. n : flat[i] = flat[i - 1] \o seqs[i]

LEMMA JoinableSteps ==
    ASSUME NEW n, NEW seqs, Joinable(seqs, n)
    PROVE  \E flat : JoinedBy(flat, seqs, n)
<1> DEFINE V == UNION {ToSet(seqs[i]) : i \in 1 .. n}
<1>0. n \in Nat /\ seqs = [i \in 1 .. n |-> seqs[i]] /\ \A i \in 1 .. n : IsSequence(seqs[i])
  BY DEF Joinable
<1>1. \A i \in 1 .. n : seqs[i] \in Seq(V)
  <2>1. ASSUME NEW i \in 1 .. n PROVE seqs[i] \in Seq(V)
    <3>1. ToSet(seqs[i]) \subseteq V
      OBVIOUS
    <3>2. seqs[i] \in Seq(ToSet(seqs[i]))
      BY <1>0 DEF IsSequence
    <3> HIDE DEF V
    <3> QED BY <3>1, <3>2
  <2> QED BY <2>1
<1> HIDE DEF V
<1>2. seqs \in Seq(Seq(V)) /\ Len(seqs) = n
  <2>1. seqs \in [1 .. n -> Seq(V)]
    BY <1>0, <1>1
  <2> QED BY <1>0, <2>1
<1>3. PICK flat \in [0 .. n -> Seq(V)] :
              /\ flat[0] = <<>>
              /\ \A i \in 1 .. n : flat[i] = flat[i - 1] \o seqs[i]
              /\ flat[n] = FlattenSeq(seqs)
  BY <1>2, FlattenSteps
<1> DEFINE K == {k \in Nat : k <= n => IsSequence(flat[k])}
<1>4. 0 \in K
  BY <1>3, ShortSequences
<1>5. ASSUME NEW k \in Nat, k \in K
      PROVE  k + 1 \in K
  <2> SUFFICES ASSUME k + 1 <= n PROVE IsSequence(flat[k + 1])
    OBVIOUS
  <2>1. k + 1 \in 1 .. n /\ (k + 1) - 1 = k /\ IsSequence(flat[k])
    BY <1>0, <1>5
  <2>2. flat[k + 1] = flat[(k + 1) - 1] \o seqs[k + 1]
    BY <1>3, <2>1
  <2> QED
    BY <1>0, <2>1, <2>2, JoinedIsSequence
<1>6. Nat \subseteq K
  <2> HIDE DEF K
  <2> QED BY <1>4, <1>5, NaturalSteps
<1>7. \A i \in 0 .. n : IsSequence(flat[i])
  BY <1>0, <1>6
<1> QED
  BY <1>3, <1>7 DEF JoinedBy

LEMMA JoinedSequences ==
    ASSUME NEW n, NEW seqs, Joinable(seqs, n)
    PROVE  /\ IsSequence(FlattenSeq(seqs))
           /\ ToSet(FlattenSeq(seqs)) = UNION {ToSet(seqs[i]) : i \in 1 .. n}
<1> DEFINE Upto(k) == UNION {ToSet(seqs[i]) : i \in 1 .. k}
<1>0. n \in Nat /\ \A i \in 1 .. n : IsSequence(seqs[i])
  BY DEF Joinable
<1>1. PICK flat : /\ flat[0] = <<>> /\ flat[n] = FlattenSeq(seqs)
                  /\ \A i \in 0 .. n : IsSequence(flat[i])
                  /\ \A i \in 1 .. n : flat[i] = flat[i - 1] \o seqs[i]
  <2>1. \E flat : JoinedBy(flat, seqs, n)
    BY JoinableSteps
  <2> QED BY <2>1 DEF JoinedBy
<1> DEFINE K == {k \in Nat : k <= n => ToSet(flat[k]) = Upto(k)}
<1>2. 0 \in K
  <2>1. Upto(0) = {}
    OBVIOUS
  <2> QED BY <1>1, <2>1, ShortSequences
<1>3. ASSUME NEW k \in Nat, k \in K
      PROVE  k + 1 \in K
  <2> SUFFICES ASSUME k + 1 <= n PROVE ToSet(flat[k + 1]) = Upto(k + 1)
    OBVIOUS
  <2>1. k + 1 \in 1 .. n /\ k \in 0 .. n /\ (k + 1) - 1 = k
    BY <1>0
  <2>2. flat[k + 1] = flat[(k + 1) - 1] \o seqs[k + 1]
    BY <1>1, <2>1
  <2>3. ToSet(flat[k + 1]) = ToSet(flat[k]) \cup ToSet(seqs[k + 1])
    BY <1>0, <1>1, <2>1, <2>2, JoinedIsSequence
  <2>4. ToSet(flat[k]) = Upto(k)
    BY <1>3, <2>1
  <2>5. 1 .. (k + 1) = (1 .. k) \cup {k + 1}
    OBVIOUS
  <2>6. Upto(k + 1) = Upto(k) \cup ToSet(seqs[k + 1])
    BY <2>5
  <2> QED
    BY <2>3, <2>4, <2>6
<1>4. n \in K
  <2> HIDE DEF K
  <2> QED BY <1>0, <1>2, <1>3, NaturalSteps
<1>5. IsSequence(flat[n])
  BY <1>0, <1>1
<1> QED
  BY <1>0, <1>1, <1>4, <1>5

-----------------------------------------------------------------------------
(***************************************************************************)
(* The graph of a run is finite.                                           *)
(***************************************************************************)
LEMMA ReconciledEntries ==
    ASSUME RowsInv, seal # None
    PROVE  /\ IsSequence(Reconciliations)
           /\ \A r \in DOMAIN Reconciliations : IsSequence(Reconciliations[r].entries)
<1>1. IsSequence(files) /\ (turnFiles # None => IsSequence(turnFiles))
  BY DEF RowsInv, IsSequence, ToSet
<1>2. ASSUME NEW r, NEW trigger, NEW fs, NEW observed, IsSequence(fs)
      PROVE  IsSequence(ReconciliationOf(r, trigger, fs, observed).entries)
  <2> DEFINE es == [i \in DOMAIN fs |->
                       Entry(r, i, fs[i], Attribution(seal.baseline, observed))]
  <2>1. DOMAIN fs = 1 .. Len(fs) /\ Len(fs) \in Nat
    BY <1>2, SequenceElements
  <2>2. ReconciliationOf(r, trigger, fs, observed).entries = es
    BY DEF ReconciliationOf
  <2>3. es = [i \in 1 .. Len(fs) |-> es[i]]
    BY <2>1
  <2> HIDE DEF es
  <2> QED BY <2>1, <2>2, <2>3, MappedIsSequence
<1> DEFINE first == IF turnFiles = None THEN <<>>
                    ELSE <<ReconciliationOf(1, 3, turnFiles, "captured")>>
           last  == IF seal.final = None THEN <<>>
                    ELSE <<ReconciliationOf(2, 4, files, seal.final)>>
<1>3. IsSequence(first) /\ \A x \in ToSet(first) : IsSequence(x.entries)
  BY <1>1, <1>2, ShortSequences
<1>4. IsSequence(last) /\ \A x \in ToSet(last) : IsSequence(x.entries)
  BY <1>1, <1>2, ShortSequences
<1>5. Reconciliations = first \o last
  BY DEF Reconciliations
<1> HIDE DEF first, last
<1>6. IsSequence(Reconciliations) /\ ToSet(Reconciliations) = ToSet(first) \cup ToSet(last)
  BY <1>3, <1>4, <1>5, JoinedIsSequence
<1>7. \A r \in DOMAIN Reconciliations : Reconciliations[r] \in ToSet(Reconciliations)
  BY DEF ToSet
<1> QED
  BY <1>3, <1>4, <1>6, <1>7

(***************************************************************************)
(* The Bash results among a run's events, collected one after the other.   *)
(***************************************************************************)
Collects(h, events) ==
    /\ h[0] = <<>> /\ h[Len(events)] = BashResults(events)
    /\ \A k \in 1 .. Len(events) :
           h[k] = IF IsBashResult(events[k]) THEN Append(h[k - 1], events[k]) ELSE h[k - 1]

LEMMA BashResultSteps ==
    ASSUME NEW events, IsSequence(events)
    PROVE  \E h : Collects(h, events)
<1> DEFINE n == Len(events)
           V == Seq(ToSet(events))
           Body(f) == [s \in SUBSET (DOMAIN events) |->
                          IF s = {} THEN <<>>
                          ELSE IF IsBashResult(events[Max(s)])
                               THEN Append(f[s \ {Max(s)}], events[Max(s)])
                               ELSE f[s \ {Max(s)}]]
           it == CHOOSE f : f = Body(f)
           step == [p \in V \X (1 .. n) |->
                       IF IsBashResult(events[p[2]]) THEN Append(p[1], events[p[2]]) ELSE p[1]]
<1>0. n \in Nat /\ DOMAIN events = 1 .. n /\ \A i \in 1 .. n : events[i] \in ToSet(events)
  BY SequenceElements DEF ToSet
<1>1. BashResults(events) = it[1 .. n]
  BY <1>0 DEF BashResults, FoldLeft, MapThenFoldSet
<1>2. \E f : f = Body(f)
  <2>1. step \in [V \X (1 .. n) -> V] /\ <<>> \in V
    BY <1>0
  <2>2. PICK f \in [SUBSET (1 .. n) -> V] : IsLeftFold(f, n, <<>>, step)
    <3> HIDE DEF step, n, V
    <3> QED BY <1>0, <2>1, LeftFoldExists
  <2>3. ASSUME NEW s \in SUBSET (1 .. n)
        PROVE  f[s] = IF s = {} THEN <<>>
                      ELSE IF IsBashResult(events[Max(s)])
                           THEN Append(f[s \ {Max(s)}], events[Max(s)])
                           ELSE f[s \ {Max(s)}]
    <3>1. CASE s = {}
      <4> HIDE DEF step
      <4> QED BY <2>2, <3>1 DEF IsLeftFold
    <3>2. CASE s # {}
      <4>1. Max(s) \in 1 .. n /\ s \ {Max(s)} \in SUBSET (1 .. n) /\ f[s \ {Max(s)}] \in V
        BY <1>0, <3>2, MaxIn
      <4>2. f[s] = step[<<f[s \ {Max(s)}], Max(s)>>]
        <5> HIDE DEF step
        <5> QED BY <2>2, <3>2 DEF IsLeftFold
      <4>3. step[<<f[s \ {Max(s)}], Max(s)>>] =
               IF IsBashResult(events[Max(s)])
               THEN Append(f[s \ {Max(s)}], events[Max(s)]) ELSE f[s \ {Max(s)}]
        <5> HIDE DEF V
        <5> QED BY <4>1
      <4> QED BY <3>2, <4>2, <4>3
    <3> QED BY <3>1, <3>2
  <2>4. f = Body(f)
    <3> HIDE DEF step
    <3>1. DOMAIN f = SUBSET (1 .. n) /\ f = [s \in SUBSET (1 .. n) |-> f[s]]
      OBVIOUS
    <3> QED BY <1>0, <2>3, <3>1
  <2> HIDE DEF Body
  <2> QED BY <2>4
<1>3. it = Body(it)
  <2> HIDE DEF Body
  <2> QED BY <1>2
<1> HIDE DEF it
<1> DEFINE h == [k \in 0 .. n |-> it[1 .. k]]
<1>4. h[0] = <<>> /\ h[n] = BashResults(events)
  <2>1. 1 .. 0 = {} /\ 0 \in 0 .. n /\ n \in 0 .. n
    BY <1>0
  <2> QED
    BY <1>1, <1>3, <2>1
<1>5. ASSUME NEW k \in 1 .. n
      PROVE  h[k] = IF IsBashResult(events[k]) THEN Append(h[k - 1], events[k]) ELSE h[k - 1]
  <2>1. k - 1 \in Nat /\ (k - 1) + 1 = k /\ k \in 0 .. n /\ k - 1 \in 0 .. n
    BY <1>0
  <2>2. Max(1 .. k) = k /\ (1 .. k) \ {k} = 1 .. (k - 1) /\ 1 .. k # {}
    BY <2>1, MaxInterval
  <2>3. 1 .. k \in SUBSET (DOMAIN events)
    BY <1>0
  <2>4. it[1 .. k] = IF IsBashResult(events[k])
                     THEN Append(it[1 .. (k - 1)], events[k]) ELSE it[1 .. (k - 1)]
    BY <1>3, <2>2, <2>3
  <2> QED
    BY <2>1, <2>4
<1> HIDE DEF h
<1> QED
  BY <1>0, <1>4, <1>5 DEF Collects

LEMMA BashResultsAreEvents ==
    ASSUME NEW events, IsSequence(events)
    PROVE  IsSequence(BashResults(events)) /\ ToSet(BashResults(events)) \subseteq ToSet(events)
<1> DEFINE n == Len(events)
           V == ToSet(events)
<1>0. n \in Nat /\ \A i \in 1 .. n : events[i] \in V
  BY SequenceElements DEF ToSet
<1>1. PICK h : Collects(h, events)
  BY BashResultSteps
<1> DEFINE K == {k \in Nat : k <= n => h[k] \in Seq(V)}
<1>2. 0 \in K
  <2>1. h[0] = <<>>
    BY <1>1 DEF Collects
  <2> HIDE DEF V
  <2>2. <<>> \in Seq(V)
    OBVIOUS
  <2> QED BY <2>1, <2>2
<1>3. ASSUME NEW k \in Nat, k \in K
      PROVE  k + 1 \in K
  <2> SUFFICES ASSUME k + 1 <= n PROVE h[k + 1] \in Seq(V)
    OBVIOUS
  <2>1. k + 1 \in 1 .. n /\ (k + 1) - 1 = k /\ h[k] \in Seq(V) /\ events[k + 1] \in V
    BY <1>0, <1>3
  <2>2. h[k + 1] = IF IsBashResult(events[k + 1])
                   THEN Append(h[k], events[k + 1]) ELSE h[k]
    BY <1>1, <2>1 DEF Collects
  <2> HIDE DEF V
  <2> QED
    BY <2>1, <2>2
<1>4. n \in K
  <2> HIDE DEF K
  <2> QED BY <1>0, <1>2, <1>3, NaturalSteps
<1>5. BashResults(events) \in Seq(V)
  BY <1>0, <1>1, <1>4 DEF Collects
<1> DEFINE b == BashResults(events)
<1> HIDE DEF V, b
<1>6. b \in Seq(V)
  BY <1>5 DEF b
<1>7. b \in Seq(ToSet(b)) /\ ToSet(b) \subseteq V
  <2>1. b \in [1 .. Len(b) -> ToSet(b)] /\ Len(b) \in Nat
    BY <1>6 DEF ToSet
  <2>2. \A i \in DOMAIN b : b[i] \in V
    BY <1>6
  <2> QED
    BY <2>1, <2>2 DEF ToSet
<1> QED
  BY <1>7 DEF IsSequence, b, V

(***************************************************************************)
(* What the stages derive from finitely many rows is finite.               *)
(***************************************************************************)
LEMMA ReconciliationEvents ==
    ASSUME RowsInv, seal # None
    PROVE  IsSequence(FileEvents(Reconciliations))
<1> DEFINE rs == Reconciliations
           part == [r \in DOMAIN rs |->
        <<Event(rs[r].trigger, IF rs[r].trigger = 3 THEN "tool.batch_completed"
                               ELSE IF seal.status = "Failed" THEN "run.stop_failed"
                               ELSE "run.stop_observed")>>
        \o [i \in DOMAIN rs[r].entries |->
               Event(rs[r].entries[i].fileEvent, "file.change_observed")]
        \o <<Event(rs[r].summary, "git.diff_computed")>>]
<1>1. IsSequence(rs) /\ \A r \in DOMAIN rs : IsSequence(rs[r].entries)
  BY ReconciledEntries
<1>2. FileEvents(rs) = FlattenSeq(part)
  BY DEF FileEvents
<1> HIDE DEF rs
<1>3. Len(rs) \in Nat /\ DOMAIN rs = 1 .. Len(rs)
  BY <1>1, SequenceElements
<1>4. ASSUME NEW r \in DOMAIN rs
      PROVE  IsSequence(part[r])
  <2> DEFINE es == [i \in DOMAIN rs[r].entries |->
                       Event(rs[r].entries[i].fileEvent, "file.change_observed")]
             a == <<Event(rs[r].trigger, IF rs[r].trigger = 3 THEN "tool.batch_completed"
                               ELSE IF seal.status = "Failed" THEN "run.stop_failed"
                               ELSE "run.stop_observed")>>
             z == <<Event(rs[r].summary, "git.diff_computed")>>
  <2>1. part[r] = a \o es \o z
    OBVIOUS
  <2>2. DOMAIN rs[r].entries = 1 .. Len(rs[r].entries) /\ Len(rs[r].entries) \in Nat
    BY <1>1, SequenceElements
  <2>3. es = [i \in 1 .. Len(rs[r].entries) |-> es[i]]
    BY <2>2
  <2>4. IsSequence(a) /\ IsSequence(z)
    BY ShortSequences
  <2> HIDE DEF a, es, z, part
  <2>5. IsSequence(es)
    BY <2>2, <2>3, MappedIsSequence
  <2>6. IsSequence(a \o es)
    BY <2>4, <2>5, JoinedIsSequence
  <2>7. IsSequence((a \o es) \o z)
    BY <2>4, <2>6, JoinedIsSequence
  <2> QED
    BY <2>1, <2>7
<1>5. part = [r \in 1 .. Len(rs) |-> part[r]]
  BY <1>3
<1> HIDE DEF part
<1>6. Joinable(part, Len(rs))
  BY <1>3, <1>4, <1>5 DEF Joinable
<1> QED
  BY <1>2, <1>6, JoinedSequences DEF rs

LEMMA SourceEventsInOrder ==
    ASSUME RowsInv, seal # None
    PROVE  IsSequence(SourceEvents)
<1> DEFINE a == <<Event(1, "run.started"), Event(2, "user.prompt_submitted")>>
           c == [i \in DOMAIN commands |-> ToolEvent(i)]
           d == FileEvents(Reconciliations)
           e == IF seal.final = None THEN <<>>
                ELSE <<Event(7, "run.finalization_started"), Event(5, "snapshot.final_captured")>>
           z == <<Event(6, TerminalEventType(seal.status))>>
<1>1. SourceEvents = a \o c \o d \o e \o z
  BY DEF SourceEvents
<1>2. IsSequence(a) /\ IsSequence(e) /\ IsSequence(z)
  BY ShortSequences
<1>3. IsSequence(d)
  BY ReconciliationEvents
<1>4. IsSequence(c)
  <2>1. DOMAIN commands = 1 .. Len(commands) /\ Len(commands) \in Nat
    BY DEF RowsInv
  <2>2. c = [i \in 1 .. Len(commands) |-> c[i]]
    BY <2>1
  <2> HIDE DEF c
  <2> QED BY <2>1, <2>2, MappedIsSequence
<1> HIDE DEF a, c, d, e, z
<1>5. IsSequence(a \o c)
  BY <1>2, <1>4, JoinedIsSequence
<1>6. IsSequence((a \o c) \o d)
  BY <1>3, <1>5, JoinedIsSequence
<1>7. IsSequence(((a \o c) \o d) \o e)
  BY <1>2, <1>6, JoinedIsSequence
<1>8. IsSequence((((a \o c) \o d) \o e) \o z)
  BY <1>2, <1>7, JoinedIsSequence
<1> QED
  BY <1>1, <1>8

LEMMA ExtractedObservations ==
    ASSUME NEW c, NEW events, IsSequence(events), Extract(c, events) # Refused
    PROVE  /\ IsSequence(Extract(c, events).observations)
           /\ Len(Extract(c, events).observations) = Len(BashResults(events))
           /\ \A i \in 1 .. Len(BashResults(events)) :
                  Extract(c, events).observations[i]
                    = Observation(AcceptedObservation(BashResults(events)[i]))
           /\ Extract(c, events).testFileChanges = TestFileChanges(c)
<1> DEFINE results == BashResults(events)
           n == Len(results)
           accepted == [i \in DOMAIN results |-> AcceptedObservation(results[i])]
           obs == [i \in DOMAIN accepted |-> Observation(accepted[i])]
<1>1. n \in Nat /\ DOMAIN results = 1 .. n
  BY BashResultsAreEvents, SequenceElements
<1>2. /\ Extract(c, events).observations = obs
      /\ Extract(c, events).testFileChanges = TestFileChanges(c)
  BY DEF Extract
<1> HIDE DEF results
<1>3. obs = [i \in 1 .. n |-> obs[i]] /\ \A i \in 1 .. n : obs[i] = Observation(AcceptedObservation(results[i]))
  BY <1>1
<1> HIDE DEF obs
<1>4. IsSequence(obs) /\ Len(obs) = n
  BY <1>1, <1>3, MappedIsSequence
<1> QED
  BY <1>2, <1>3, <1>4 DEF results

LEMMA ClassifiedEntries ==
    ASSUME NEW rec, rec # None => IsSequence(rec.entries), Classify(rec) # Refused
    PROVE  /\ IsSequence(Classify(rec).entries)
           /\ rec = None => Classify(rec).entries = <<>>
           /\ rec # None => /\ Len(Classify(rec).entries) = Len(rec.entries)
                            /\ \A i \in DOMAIN rec.entries :
                                 Classify(rec).entries[i] =
                                   [fileEvent |-> rec.entries[i].fileEvent,
                                    sensitivity |-> rec.entries[i].sensitivity,
                                    labels |-> ClassifyPath(rec.entries[i].path)]
<1>1. Classify(rec).entries = IF rec = None THEN <<>> ELSE ClassifyEntries(rec.entries)
  BY DEF Classify
<1>2. CASE rec = None
  BY <1>1, <1>2, ShortSequences
<1>3. CASE rec # None
  <2> DEFINE es == ClassifyEntries(rec.entries)
  <2>1. DOMAIN rec.entries = 1 .. Len(rec.entries) /\ Len(rec.entries) \in Nat
    BY <1>3, SequenceElements
  <2>2. es = [i \in 1 .. Len(rec.entries) |-> es[i]]
    BY <2>1 DEF ClassifyEntries
  <2>3. \A i \in DOMAIN rec.entries :
           es[i] = [fileEvent |-> rec.entries[i].fileEvent,
                    sensitivity |-> rec.entries[i].sensitivity,
                    labels |-> ClassifyPath(rec.entries[i].path)]
    BY DEF ClassifyEntries
  <2> HIDE DEF es
  <2>4. IsSequence(es) /\ Len(es) = Len(rec.entries)
    BY <2>1, <2>2, MappedIsSequence
  <2> QED
    BY <1>1, <1>3, <2>3, <2>4 DEF es
<1> QED
  BY <1>2, <1>3

LEMMA SmallSetsAreFinite ==
    /\ IsFiniteSet({})
    /\ \A x : IsFiniteSet({x})
    /\ \A x, y : IsFiniteSet({x, y})
    /\ \A x, y, z : IsFiniteSet({x, y, z})
<1>1. IsFiniteSet({}) /\ \A x : IsFiniteSet({x})
  BY FS_EmptySet, FS_Singleton
<1>2. ASSUME NEW x, NEW y PROVE IsFiniteSet({x, y})
  <2>1. {x, y} = {x} \cup {y}
    OBVIOUS
  <2>2. IsFiniteSet({x} \cup {y})
    BY <1>1, FS_Union
  <2> QED BY <2>1, <2>2
<1>3. ASSUME NEW x, NEW y, NEW z PROVE IsFiniteSet({x, y, z})
  <2>1. {x, y, z} = {x, y} \cup {z}
    OBVIOUS
  <2>2. IsFiniteSet({x, y} \cup {z})
    BY <1>1, <1>2, FS_Union
  <2> QED BY <2>1, <2>2
<1> QED BY <1>1, <1>2, <1>3

LEMMA RuleIsFinite ==
    \A id, label, confidence, kind : \A matched \in BOOLEAN :
        IsFiniteSet(Rule(id, label, confidence, kind, matched))
BY SmallSetsAreFinite DEF Rule

LEMMA JoinedIsFinite == \A S, T : IsFiniteSet(S) /\ IsFiniteSet(T) => IsFiniteSet(S \cup T)
BY FS_Union

LEMMA ManyJoinedAreFinite ==
    /\ \A a, b, c : IsFiniteSet(a) /\ IsFiniteSet(b) /\ IsFiniteSet(c)
                      => IsFiniteSet(a \cup b \cup c)
    /\ \A a, b, c, d : IsFiniteSet(a) /\ IsFiniteSet(b) /\ IsFiniteSet(c) /\ IsFiniteSet(d)
                      => IsFiniteSet(a \cup b \cup c \cup d)
    /\ \A a, b, c, d, e, f :
          IsFiniteSet(a) /\ IsFiniteSet(b) /\ IsFiniteSet(c) /\ IsFiniteSet(d) /\ IsFiniteSet(e)
          /\ IsFiniteSet(f) => IsFiniteSet(a \cup b \cup c \cup d \cup e \cup f)
BY JoinedIsFinite

LEMMA FiniteRules == ASSUME NEW p PROVE IsFiniteSet(MatchingRules(p))
<1>1. IsFiniteSet(AuthenticationRules(p))
  <2> DEFINE m1 == p.segments \cap {"auth", "authentication", "authorization", "authorisation",
                    "oauth", "oidc", "rbac", "acl", "permission", "permissions", "session", "sessions",
                    "identity", "access-control"} # {}
             m2 == "auth_prefix" \in p.patterns
  <2>1. m1 \in BOOLEAN /\ m2 \in BOOLEAN
    OBVIOUS
  <2>2. AuthenticationRules(p) =
             Rule("authentication.path_segment", "authentication_authorization", 8500, "path_segment", m1)
        \cup Rule("authentication.filename_prefix", "authentication_authorization", 7500, "path_pattern", m2)
    BY DEF AuthenticationRules
  <2> HIDE DEF m1, m2
  <2> QED BY <2>1, <2>2, RuleIsFinite, JoinedIsFinite
<1>2. IsFiniteSet(BehaviorRules(p))
  <2> DEFINE m1 == /\ p.extension \in CodeExtensions /\ "declaration" \notin p.patterns
                   /\ p.segments \cap SourceSegments # {}
                   /\ ~IsTestPath(p) /\ "configuration" \notin p.patterns
                   /\ p.segments \cap {"migrations", "migration"} = {}
  <2>1. m1 \in BOOLEAN
    OBVIOUS
  <2>2. BehaviorRules(p) =
             Rule("behavior.source_code", "behavior", 6500, "path_pattern", m1)
    BY DEF BehaviorRules
  <2> HIDE DEF m1
  <2> QED BY <2>1, <2>2, RuleIsFinite, JoinedIsFinite
<1>3. IsFiniteSet(ConfigurationRules(p))
  <2> DEFINE m1 == "workflow_prefix" \in p.patterns
             m2 == p.basename \in {"dockerfile", "compose.yml", "compose.yaml", "docker-compose.yml",
                    "docker-compose.yaml", "biome.json", "biome.jsonc", "turbo.json", "nx.json",
                    "vercel.json", "netlify.toml", "fly.toml", "wrangler.toml"}
             m3 == "configuration" \in p.patterns
             m4 == p.segments \cap {".github", "infrastructure", "infra", "terraform", "kubernetes",
                    "k8s", "helm", "deploy", "deployment", "ci"} # {}
  <2>1. m1 \in BOOLEAN /\ m2 \in BOOLEAN /\ m3 \in BOOLEAN /\ m4 \in BOOLEAN
    OBVIOUS
  <2>2. ConfigurationRules(p) =
             Rule("configuration.ci_workflow", "configuration_infrastructure", 9800, "path_pattern", m1)
        \cup Rule("configuration.exact_filename", "configuration_infrastructure", 9500, "exact_filename", m2)
        \cup Rule("configuration.filename_pattern", "configuration_infrastructure", 9000, "path_pattern", m3)
        \cup Rule("configuration.infrastructure_segment", "configuration_infrastructure", 8500, "path_segment", m4)
    BY DEF ConfigurationRules
  <2> HIDE DEF m1, m2, m3, m4
  <2>3. /\ IsFiniteSet(Rule("configuration.ci_workflow", "configuration_infrastructure", 9800, "path_pattern", m1))
        /\ IsFiniteSet(Rule("configuration.exact_filename", "configuration_infrastructure", 9500, "exact_filename", m2))
        /\ IsFiniteSet(Rule("configuration.filename_pattern", "configuration_infrastructure", 9000, "path_pattern", m3))
        /\ IsFiniteSet(Rule("configuration.infrastructure_segment", "configuration_infrastructure", 8500, "path_segment", m4))
    BY <2>1, RuleIsFinite
  <2> QED BY <2>2, <2>3, ManyJoinedAreFinite
<1>4. IsFiniteSet(DatabaseRules(p))
  <2> DEFINE m1 == p.extension \in {"sql", "prisma"}
             m2 == p.segments \cap {"database", "databases", "db", "migration", "migrations", "prisma",
                    "drizzle"} # {}
             m3 == "migration" \in p.patterns
  <2>1. m1 \in BOOLEAN /\ m2 \in BOOLEAN /\ m3 \in BOOLEAN
    OBVIOUS
  <2>2. DatabaseRules(p) =
             Rule("database.extension", "database_migration", 9500, "extension", m1)
        \cup Rule("database.path_segment", "database_migration", 8500, "path_segment", m2)
        \cup Rule("database.migration_filename", "database_migration", 9000, "path_pattern", m3)
    BY DEF DatabaseRules
  <2> HIDE DEF m1, m2, m3
  <2>3. /\ IsFiniteSet(Rule("database.extension", "database_migration", 9500, "extension", m1))
        /\ IsFiniteSet(Rule("database.path_segment", "database_migration", 8500, "path_segment", m2))
        /\ IsFiniteSet(Rule("database.migration_filename", "database_migration", 9000, "path_pattern", m3))
    BY <2>1, RuleIsFinite
  <2> QED BY <2>2, <2>3, ManyJoinedAreFinite
<1>5. IsFiniteSet(DependencyAndDocumentationRules(p))
  <2> DEFINE m1 == p.basename \in {"package.json", "package-lock.json", "npm-shrinkwrap.json",
                    "pnpm-lock.yaml", "pnpm-workspace.yaml", "yarn.lock", "bun.lock", "bun.lockb",
                    "deno.json", "deno.jsonc", "deno.lock"}
             m2 == p.extension \in {"md", "mdx", "rst", "adoc"}
             m3 == "documentation" \in p.patterns
             m4 == p.segments \cap {"docs", "doc", "documentation"} # {}
  <2>1. m1 \in BOOLEAN /\ m2 \in BOOLEAN /\ m3 \in BOOLEAN /\ m4 \in BOOLEAN
    OBVIOUS
  <2>2. DependencyAndDocumentationRules(p) =
             Rule("dependency.package_manifest", "dependency", 10000, "exact_filename", m1)
        \cup Rule("documentation.extension", "documentation", 9500, "extension", m2)
        \cup Rule("documentation.exact_filename", "documentation", 9800, "exact_filename", m3)
        \cup Rule("documentation.path_segment", "documentation", 8500, "path_segment", m4)
    BY DEF DependencyAndDocumentationRules
  <2> HIDE DEF m1, m2, m3, m4
  <2>3. /\ IsFiniteSet(Rule("dependency.package_manifest", "dependency", 10000, "exact_filename", m1))
        /\ IsFiniteSet(Rule("documentation.extension", "documentation", 9500, "extension", m2))
        /\ IsFiniteSet(Rule("documentation.exact_filename", "documentation", 9800, "exact_filename", m3))
        /\ IsFiniteSet(Rule("documentation.path_segment", "documentation", 8500, "path_segment", m4))
    BY <2>1, RuleIsFinite
  <2> QED BY <2>2, <2>3, ManyJoinedAreFinite
<1>6. IsFiniteSet(ApiTestAndUiRules(p))
  <2> DEFINE m1 == "api_definition" \in p.patterns
             m2 == "api_prefix" \in p.patterns
             m3 == p.segments \cap {"api", "apis", "route", "routes", "router", "routers",
                    "controller", "controllers", "endpoint", "endpoints", "contracts", "graphql", "rpc",
                    "openapi", "swagger"} # {}
             m4 == IsTestPath(p)
             m5 == p.segments \cap {"ui", "component", "components", "page", "pages", "view", "views",
                    "screen", "screens", "styles", "theme"} # {}
             m6 == p.extension \in {"tsx", "jsx", "css", "scss", "sass", "less", "styl"}
  <2>1. m1 \in BOOLEAN /\ m2 \in BOOLEAN /\ m3 \in BOOLEAN /\ m4 \in BOOLEAN /\ m5 \in BOOLEAN /\ m6 \in BOOLEAN
    BY DEF IsTestPath
  <2>2. ApiTestAndUiRules(p) =
             Rule("public_api.exact_definition", "public_api", 9500, "path_pattern", m1)
        \cup Rule("public_api.filename_prefix", "public_api", 7000, "path_pattern", m2)
        \cup Rule("public_api.path_segment", "public_api", 7500, "path_segment", m3)
        \cup Rule("tests.path_or_suffix", "tests", 9500, "path_pattern", m4)
        \cup Rule("ui.component_path", "ui", 8500, "path_segment", m5)
        \cup Rule("ui.frontend_extension", "ui", 8500, "extension", m6)
    BY DEF ApiTestAndUiRules
  <2> HIDE DEF m1, m2, m3, m4, m5, m6
  <2>3. /\ IsFiniteSet(Rule("public_api.exact_definition", "public_api", 9500, "path_pattern", m1))
        /\ IsFiniteSet(Rule("public_api.filename_prefix", "public_api", 7000, "path_pattern", m2))
        /\ IsFiniteSet(Rule("public_api.path_segment", "public_api", 7500, "path_segment", m3))
        /\ IsFiniteSet(Rule("tests.path_or_suffix", "tests", 9500, "path_pattern", m4))
        /\ IsFiniteSet(Rule("ui.component_path", "ui", 8500, "path_segment", m5))
        /\ IsFiniteSet(Rule("ui.frontend_extension", "ui", 8500, "extension", m6))
    BY <2>1, RuleIsFinite
  <2> QED BY <2>2, <2>3, ManyJoinedAreFinite
<1> QED
  BY <1>1, <1>2, <1>3, <1>4, <1>5, <1>6, JoinedIsFinite DEF MatchingRules

LEMMA FiniteLabels ==
    ASSUME NEW p
    PROVE  IsFiniteSet(ClassifyPath(p)) /\ \A a \in ClassifyPath(p) : IsFiniteSet(a.evidence)
<1> DEFINE rules == MatchingRules(p)
           labelled(l) == {r \in rules : r.label = l}
           made(l) == [label |-> l, confidence |-> Max({r.confidence : r \in labelled(l)}),
               evidence |-> {[ruleId |-> r.ruleId, kind |-> r.kind] : r \in labelled(l)}]
<1>1. IsFiniteSet(rules)
  BY FiniteRules
<1>2. CASE rules = {}
  <2>1. ClassifyPath(p) = {UnknownLabel}
    BY <1>2 DEF ClassifyPath
  <2> QED
    <3>1. IsFiniteSet({UnknownLabel}) /\ IsFiniteSet(UnknownLabel.evidence)
      BY SmallSetsAreFinite DEF UnknownLabel
    <3> QED BY <2>1, <3>1
<1>3. CASE rules # {}
  <2>1. ClassifyPath(p) = {made(l) : l \in {r.label : r \in rules}}
    BY <1>3 DEF ClassifyPath
  <2> HIDE DEF rules
  <2>2. IsFiniteSet({r.label : r \in rules})
    <3> DEFINE f == [r \in rules |-> r.label]
    <3>1. {r.label : r \in rules} = Range(f) /\ DOMAIN f = rules
      BY DEF Range
    <3> HIDE DEF f
    <3> QED BY <1>1, <3>1, FiniteImage
  <2>3. IsFiniteSet({made(l) : l \in {r.label : r \in rules}})
    <3> DEFINE L == {r.label : r \in rules}
               f == [l \in L |-> made(l)]
    <3> HIDE DEF L, made
    <3>1. {made(l) : l \in L} = Range(f) /\ DOMAIN f = L
      BY DEF Range
    <3> HIDE DEF f
    <3>2. IsFiniteSet({made(l) : l \in L})
      BY <2>2, <3>1, FiniteImage DEF L
    <3> QED BY <3>2 DEF L
  <2>4. ASSUME NEW l
        PROVE  IsFiniteSet({[ruleId |-> r.ruleId, kind |-> r.kind] : r \in labelled(l)})
    <3> DEFINE R == labelled(l)
               f == [r \in R |-> [ruleId |-> r.ruleId, kind |-> r.kind]]
    <3>1. IsFiniteSet(R)
      BY <1>1, FS_Subset
    <3> HIDE DEF R
    <3>2. /\ {[ruleId |-> r.ruleId, kind |-> r.kind] : r \in R} = Range(f)
          /\ DOMAIN f = R
      BY DEF Range
    <3> HIDE DEF f
    <3>3. IsFiniteSet({[ruleId |-> r.ruleId, kind |-> r.kind] : r \in R})
      BY <3>1, <3>2, FiniteImage
    <3> QED BY <3>3 DEF R
  <2>5. ASSUME NEW a \in ClassifyPath(p)
        PROVE  IsFiniteSet(a.evidence)
    <3>1. PICK l : a = made(l)
      <4> HIDE DEF made
      <4> QED BY <2>1
    <3>2. a.evidence = {[ruleId |-> r.ruleId, kind |-> r.kind] : r \in labelled(l)}
      BY <3>1
    <3> QED BY <2>4, <3>2
  <2> QED
    BY <2>1, <2>3, <2>5
<1> QED
  BY <1>2, <1>3
LEMMA FiniteFiles ==
    ASSUME NEW run, IsSequence(run.reconciliations),
           \A r \in DOMAIN run.reconciliations : IsSequence(run.reconciliations[r].entries)
    PROVE  IsFiniteSet(Files(run)) /\ IsFiniteSet(FileNodes(run))
<1> DEFINE rs == run.reconciliations
           D == DOMAIN rs
           of(r) == {<<r, i, rs[r].entries[i]>> : i \in DOMAIN rs[r].entries}
           f == [r \in D |-> of(r)]
<1>1. IsFiniteSet(D)
  BY SequenceElements
<1>2. ASSUME NEW r \in D PROVE IsFiniteSet(of(r))
  <2> DEFINE h == [i \in DOMAIN rs[r].entries |-> <<r, i, rs[r].entries[i]>>]
  <2>1. IsFiniteSet(DOMAIN h)
    BY SequenceElements
  <2>2. of(r) = Range(h)
    BY DEF Range
  <2> HIDE DEF h, of
  <2> QED BY <2>1, <2>2, FiniteImage
<1>3. Files(run) = UNION Range(f)
  <2>1. Files(run) = UNION {of(r) : r \in D}
    BY DEF Files
  <2> HIDE DEF of, D
  <2>2. Range(f) = {of(r) : r \in D}
    BY DEF Range
  <2> QED BY <2>1, <2>2
<1>4. \A x \in Range(f) : IsFiniteSet(x)
  BY <1>2 DEF Range
<1>5. IsFiniteSet(Range(f))
  <2>1. DOMAIN f = D
    OBVIOUS
  <2> HIDE DEF f, D
  <2> QED BY <1>1, <2>1, FiniteImage
<1>6. IsFiniteSet(Files(run))
  <2> HIDE DEF f
  <2> QED BY <1>3, <1>4, <1>5, FS_UNION
<1> DEFINE F == Files(run)
           a == [r \in D |-> Node(ReconciliationNode(r), [attribution |-> rs[r].attribution])]
           b == [x \in F |-> Node(FileNode(x[1], x[2], x[3].fileEvent),
                    [changeKind |-> x[3].changeKind, attribution |-> x[3].attribution])]
<1>7. FileNodes(run) = Range(a) \cup Range(b)
  <2> HIDE DEF F
  <2>1. Range(a) = {Node(ReconciliationNode(r), [attribution |-> rs[r].attribution]) : r \in D}
    BY DEF Range
  <2>2. Range(b) = {Node(FileNode(x[1], x[2], x[3].fileEvent),
                    [changeKind |-> x[3].changeKind, attribution |-> x[3].attribution]) : x \in F}
    BY DEF Range
  <2> HIDE DEF a, b
  <2> QED BY <2>1, <2>2 DEF FileNodes, F
<1>8. IsFiniteSet(Range(a)) /\ IsFiniteSet(Range(b))
  <2>1. DOMAIN a = D /\ DOMAIN b = F
    OBVIOUS
  <2>2. IsFiniteSet(F)
    BY <1>6
  <2> HIDE DEF a, b, D, F
  <2> QED BY <1>1, <2>1, <2>2, FiniteImage
<1>9. IsFiniteSet(FileNodes(run))
  <2> HIDE DEF a, b
  <2> QED BY <1>7, <1>8, JoinedIsFinite
<1> QED
  BY <1>6, <1>9

LEMMA FiniteRunNodes ==
    ASSUME NEW run, IsSequence(run.events), IsFiniteSet(run.gaps)
    PROVE  IsFiniteSet(RunNodes(run))
<1> DEFINE E == ToSet(run.events)
           G == run.gaps
           K == {"classification", "verification"} \cup (IF run.manifest THEN {"manifest"} ELSE {})
           own == {Node(RunNode, [terminalStatus |-> run.status]),
                   Node(FinalizationNode, [terminalStatus |-> run.status,
                                           diagnostic |-> run.diagnostic])}
           base == IF run.baseline = None THEN {} ELSE {Node(BaselineNode, NoMeta)}
           e == [x \in E |-> Node(EventNode(x.id), [eventType |-> x.type])]
           g == [x \in G |-> Node(GapNode(x.id), [gapCode |-> x.code])]
           k == [x \in K |-> Node(ArtifactNode(x), [artifactKind |-> x])]
<1>1. IsFiniteSet(E) /\ IsFiniteSet(G)
  BY SequenceElements
<1>2. IsFiniteSet(K)
  <2>1. K = {"classification", "verification"} \/ K = {"classification", "verification", "manifest"}
    OBVIOUS
  <2>2. IsFiniteSet({"classification", "verification"})
    BY SmallSetsAreFinite
  <2>3. IsFiniteSet({"classification", "verification", "manifest"})
    BY SmallSetsAreFinite
  <2> QED BY <2>1, <2>2, <2>3
<1>3. IsFiniteSet(own)
  BY SmallSetsAreFinite
<1>4. IsFiniteSet(base)
  <2>1. base = {} \/ base = {Node(BaselineNode, NoMeta)}
    OBVIOUS
  <2> HIDE DEF base
  <2> QED BY <2>1, SmallSetsAreFinite
<1>5. IsFiniteSet(Range(e)) /\ IsFiniteSet(Range(g)) /\ IsFiniteSet(Range(k))
  <2>1. DOMAIN e = E /\ DOMAIN g = G /\ DOMAIN k = K
    OBVIOUS
  <2> HIDE DEF e, g, k, E, G, K
  <2> QED BY <1>1, <1>2, <2>1, FiniteImage
<1>6. RunNodes(run) = own \cup Range(e) \cup base \cup Range(g) \cup Range(k)
  <2>1. Range(e) = {Node(EventNode(x.id), [eventType |-> x.type]) : x \in E}
    BY DEF Range
  <2>2. Range(g) = {Node(GapNode(x.id), [gapCode |-> x.code]) : x \in G}
    BY DEF Range
  <2>3. Range(k) = {Node(ArtifactNode(x), [artifactKind |-> x]) : x \in K}
    <3> HIDE DEF K
    <3> QED BY DEF Range
  <2> HIDE DEF e, g, k
  <2> QED BY <2>1, <2>2, <2>3 DEF RunNodes
<1> HIDE DEF own, base, e, g, k
<1>7. IsFiniteSet(own \cup Range(e) \cup base)
  BY <1>3, <1>4, <1>5, ManyJoinedAreFinite
<1> QED
  BY <1>5, <1>6, <1>7, ManyJoinedAreFinite

LEMMA FiniteClassificationNodes ==
    ASSUME NEW c, IsSequence(c.entries),
           \A i \in DOMAIN c.entries :
               \E p : c.entries[i].labels = ClassifyPath(p)
    PROVE  IsFiniteSet(ClassificationNodes(c))
<1> DEFINE es == c.entries
           D == DOMAIN es
           pairs == [i \in D |-> <<i, es[i]>>]
<1>1. IsFiniteSet(D)
  BY SequenceElements
<1>2. Entries(c) = Range(pairs)
  BY DEF Entries, Range
<1>3. IsFiniteSet(Entries(c))
  <2>1. DOMAIN pairs = D
    OBVIOUS
  <2> HIDE DEF pairs, D
  <2> QED BY <1>1, <1>2, <2>1, FiniteImage
<1>4. \A x \in Entries(c) : \E p : x[2].labels = ClassifyPath(p)
  BY DEF Entries
<1> DEFINE E == Entries(c)
           of(x) == {<<x[1], a>> : a \in x[2].labels}
           ls == [x \in E |-> of(x)]
<1>5. Labels(c) = UNION Range(ls)
  <2>1. Labels(c) = UNION {of(x) : x \in E}
    BY DEF Labels
  <2> HIDE DEF of, E
  <2>2. Range(ls) = {of(x) : x \in E}
    BY DEF Range
  <2> QED BY <2>1, <2>2
<1>6. ASSUME NEW x \in E PROVE IsFiniteSet(of(x))
  <2> DEFINE h == [a \in x[2].labels |-> <<x[1], a>>]
  <2>1. IsFiniteSet(DOMAIN h)
    <3>1. IsFiniteSet(x[2].labels)
      BY <1>4, FiniteLabels
    <3> QED BY <3>1
  <2>2. of(x) = Range(h)
    BY DEF Range
  <2> HIDE DEF h, of
  <2> QED BY <2>1, <2>2, FiniteImage
<1>7. IsFiniteSet(Range(ls))
  <2>1. DOMAIN ls = E /\ IsFiniteSet(E)
    BY <1>3
  <2> HIDE DEF ls, E
  <2> QED BY <2>1, FiniteImage
<1>8. IsFiniteSet(Labels(c))
  <2>1. \A s \in Range(ls) : IsFiniteSet(s)
    <3> HIDE DEF of
    <3> QED BY <1>6 DEF Range
  <2> HIDE DEF ls
  <2> QED BY <1>5, <1>7, <2>1, FS_UNION
<1>9. \A x \in Labels(c) : IsFiniteSet(x[2].evidence)
  <2>1. \A x \in Labels(c) : \E p : x[2] \in ClassifyPath(p)
    BY <1>4 DEF Labels
  <2> QED BY <2>1, FiniteLabels
<1> DEFINE L == Labels(c)
           by(x) == {<<x[1], x[2].label, e>> : e \in x[2].evidence}
           rs == [x \in L |-> by(x)]
<1>10. Rules(c) = UNION Range(rs)
  <2>1. Rules(c) = UNION {by(x) : x \in L}
    BY DEF Rules
  <2> HIDE DEF by, L
  <2>2. Range(rs) = {by(x) : x \in L}
    BY DEF Range
  <2> QED BY <2>1, <2>2
<1>11. ASSUME NEW x \in L PROVE IsFiniteSet(by(x))
  <2> DEFINE h == [e \in x[2].evidence |-> <<x[1], x[2].label, e>>]
  <2>1. IsFiniteSet(DOMAIN h)
    <3>1. IsFiniteSet(x[2].evidence)
      BY <1>9
    <3> QED BY <3>1
  <2>2. by(x) = Range(h)
    BY DEF Range
  <2> HIDE DEF h, by
  <2> QED BY <2>1, <2>2, FiniteImage
<1>12. IsFiniteSet(Rules(c))
  <2>1. \A s \in Range(rs) : IsFiniteSet(s)
    <3> HIDE DEF by
    <3> QED BY <1>11 DEF Range
  <2>2. DOMAIN rs = L /\ IsFiniteSet(L)
    BY <1>8
  <2> HIDE DEF rs, L
  <2>3. IsFiniteSet(Range(rs))
    BY <2>2, FiniteImage
  <2> QED BY <1>10, <2>1, <2>3, FS_UNION
<1> DEFINE R == Rules(c)
           f == [x \in E |-> Node(EntryNode(x[1], x[2].fileEvent), NoMeta)]
           g == [x \in L |-> Node(LabelNode(x[1], x[2].label),
                    [label |-> x[2].label, confidence |-> x[2].confidence])]
           h == [x \in R |-> Node(RuleNode(x[3].ruleId),
                    [ruleId |-> x[3].ruleId, evidenceKind |-> x[3].kind])]
<1>13. ClassificationNodes(c) = Range(f) \cup Range(g) \cup Range(h)
  <2>1. Range(f) = {Node(EntryNode(x[1], x[2].fileEvent), NoMeta) : x \in E}
    <3> HIDE DEF E
    <3> QED BY DEF Range
  <2>2. Range(g) = {Node(LabelNode(x[1], x[2].label),
                      [label |-> x[2].label, confidence |-> x[2].confidence]) : x \in L}
    <3> HIDE DEF L
    <3> QED BY DEF Range
  <2>3. Range(h) = {Node(RuleNode(x[3].ruleId),
                      [ruleId |-> x[3].ruleId, evidenceKind |-> x[3].kind]) : x \in R}
    <3> HIDE DEF R
    <3> QED BY DEF Range
  <2> HIDE DEF f, g, h
  <2> QED BY <2>1, <2>2, <2>3 DEF ClassificationNodes
<1>14. DOMAIN f = E /\ DOMAIN g = L /\ DOMAIN h = R
  OBVIOUS
<1>15. IsFiniteSet(E) /\ IsFiniteSet(L) /\ IsFiniteSet(R)
  BY <1>3, <1>8, <1>12
<1> HIDE DEF f, g, h, E, L, R
<1>16. IsFiniteSet(Range(f)) /\ IsFiniteSet(Range(g)) /\ IsFiniteSet(Range(h))
  BY <1>14, <1>15, FiniteImage
<1> QED
  BY <1>13, <1>16, ManyJoinedAreFinite

LEMMA FiniteVerificationNodes ==
    ASSUME NEW v, IsSequence(v.observations), IsFiniteSet(v.testFileChanges)
    PROVE  IsFiniteSet(VerificationNodes(v))
<1> DEFINE D == DOMAIN v.observations
           pairs == [i \in D |-> <<i, v.observations[i]>>]
           O == Observations(v)
           R == Recognized(v)
           T == v.testFileChanges
           f == [x \in O |-> Node(CommandNode(x[1], x[2].sourceEvent),
                    [verificationKind |-> x[2].kind, observedStatus |-> x[2].status])]
           g == [x \in R |-> Node(VerificationNode(x[1], x[2].kind),
                    [verificationKind |-> x[2].kind, observedStatus |-> x[2].status])]
           h == [t \in T |-> Node(TestFileNode(t.entry, t.fileEvent),
                                  [verificationKind |-> "test"])]
<1>1. O = Range(pairs)
  BY DEF Observations, Range
<1>2. IsFiniteSet(O)
  <2>1. DOMAIN pairs = D /\ IsFiniteSet(D)
    BY SequenceElements
  <2> HIDE DEF pairs, D
  <2> QED BY <1>1, <2>1, FiniteImage
<1>3. IsFiniteSet(R)
  <2>1. R \subseteq O
    BY DEF Recognized
  <2> QED BY <1>2, <2>1, FS_Subset
<1>4. VerificationNodes(v) = Range(f) \cup Range(g) \cup Range(h)
  <2>1. Range(f) = {Node(CommandNode(x[1], x[2].sourceEvent),
                      [verificationKind |-> x[2].kind, observedStatus |-> x[2].status]) : x \in O}
    <3> HIDE DEF O
    <3> QED BY DEF Range
  <2>2. Range(g) = {Node(VerificationNode(x[1], x[2].kind),
                      [verificationKind |-> x[2].kind, observedStatus |-> x[2].status]) : x \in R}
    <3> HIDE DEF R
    <3> QED BY DEF Range
  <2>3. Range(h) = {Node(TestFileNode(t.entry, t.fileEvent), [verificationKind |-> "test"]) : t \in T}
    <3> HIDE DEF T
    <3> QED BY DEF Range
  <2> HIDE DEF f, g, h
  <2> QED BY <2>1, <2>2, <2>3 DEF VerificationNodes
<1>5. DOMAIN f = O /\ DOMAIN g = R /\ DOMAIN h = T /\ IsFiniteSet(T)
  OBVIOUS
<1> HIDE DEF f, g, h, O, R, T
<1>6. IsFiniteSet(Range(f)) /\ IsFiniteSet(Range(g)) /\ IsFiniteSet(Range(h))
  BY <1>2, <1>3, <1>5, FiniteImage
<1> QED
  BY <1>4, <1>6, ManyJoinedAreFinite

LEMMA DerivedEventsInOrder ==
    ASSUME NEW v, IsSequence(v.observations)
    PROVE  IsSequence(DerivedEvents(v))
<1> DEFINE n == Len(v.observations)
           first(i) == <<Event(v.observations[i].commandEvent, "command.completed")>>
           second(i) == IF v.observations[i].verificationEvent = None THEN <<>>
                        ELSE <<Event(v.observations[i].verificationEvent, "test.observed")>>
           part == [i \in DOMAIN v.observations |-> first(i) \o second(i)]
<1>1. n \in Nat /\ DOMAIN v.observations = 1 .. n
  BY SequenceElements
<1>2. DerivedEvents(v) = FlattenSeq(part)
  BY DEF DerivedEvents
<1>3. ASSUME NEW i PROVE IsSequence(first(i)) /\ IsSequence(second(i))
  BY ShortSequences
<1> HIDE DEF first, second, n
<1>4. \A i \in 1 .. n : IsSequence(part[i])
  <2>1. \A i \in 1 .. n : part[i] = first(i) \o second(i)
    BY <1>1
  <2>2. \A i : IsSequence(first(i) \o second(i))
    BY <1>3, JoinedIsSequence
  <2> QED BY <2>1, <2>2
<1>5. part = [i \in 1 .. n |-> part[i]]
  BY <1>1
<1> HIDE DEF part
<1>6. Joinable(part, n)
  BY <1>1, <1>4, <1>5 DEF Joinable
<1> QED
  BY <1>2, <1>6, JoinedSequences

LEMMA FiniteTestFileChanges ==
    ASSUME NEW c, IsSequence(c.entries)
    PROVE  IsFiniteSet(TestFileChanges(c))
<1> DEFINE tested == {i \in DOMAIN c.entries : \E a \in c.entries[i].labels : a.label = "tests"}
           f == [i \in tested |-> [entry |-> i, fileEvent |-> c.entries[i].fileEvent,
                    ruleIds |-> UNION {{x.ruleId : x \in a.evidence} :
                        a \in {a \in c.entries[i].labels : a.label = "tests"}}]]
<1>1. IsFiniteSet(tested)
  BY SequenceElements, FS_Subset
<1>2. TestFileChanges(c) = Range(f) /\ DOMAIN f = tested
  BY DEF TestFileChanges, Range
<1> HIDE DEF f, tested
<1> QED
  BY <1>1, <1>2, FiniteImage

LEMMA FinalEntries ==
    ASSUME RowsInv, seal # None
    PROVE  FinalReconciliation # None => IsSequence(FinalReconciliation.entries)
<1> SUFFICES ASSUME FinalReconciliation # None PROVE IsSequence(FinalReconciliation.entries)
  OBVIOUS
<1>1. seal.final # None /\ FinalReconciliation = Reconciliations[Len(Reconciliations)]
  BY DEF FinalReconciliation
<1> DEFINE first == IF turnFiles = None THEN <<>>
                    ELSE <<ReconciliationOf(1, 3, turnFiles, "captured")>>
           last  == <<ReconciliationOf(2, 4, files, seal.final)>>
<1>2. Reconciliations = first \o last
  BY <1>1 DEF Reconciliations
<1>3. IsSequence(first) /\ IsSequence(last) /\ Len(last) = 1
  BY ShortSequences
<1> HIDE DEF first, last
<1>4. Len(Reconciliations) = Len(first) + 1 /\ Len(first) \in Nat
  <2>1. Len(first) \in Nat
    BY <1>3, SequenceElements
  <2>2. Len(first \o last) = Len(first) + Len(last)
    BY <1>3, JoinedIsSequence
  <2> QED BY <1>2, <1>3, <2>1, <2>2
<1>5. DOMAIN Reconciliations = 1 .. Len(Reconciliations)
  BY ReconciledEntries, SequenceElements
<1>6. Len(Reconciliations) \in DOMAIN Reconciliations
  BY <1>4, <1>5
<1> QED
  BY <1>1, <1>6, ReconciledEntries

LEMMA ClassifiedDocument ==
    ASSUME ContentInv, Made(classification)
    PROVE  /\ RowsInv /\ seal # None /\ IsSequence(classification.entries)
           /\ \A i \in DOMAIN classification.entries :
                  \E p : classification.entries[i].labels = ClassifyPath(p)
<1>1. /\ RowsInv /\ seal # None
      /\ classification = Classify(FinalReconciliation) /\ classification # Refused
  BY DEF ContentInv, ChainInv, Made
<1> DEFINE rec == FinalReconciliation
<1>2. rec # None => IsSequence(rec.entries)
  BY <1>1, FinalEntries
<1> HIDE DEF rec
<1>3. /\ IsSequence(Classify(rec).entries)
      /\ rec = None => Classify(rec).entries = <<>>
      /\ rec # None => /\ Len(Classify(rec).entries) = Len(rec.entries)
                       /\ \A i \in DOMAIN rec.entries :
                            Classify(rec).entries[i] =
                              [fileEvent |-> rec.entries[i].fileEvent,
                               sensitivity |-> rec.entries[i].sensitivity,
                               labels |-> ClassifyPath(rec.entries[i].path)]
  BY <1>1, <1>2, ClassifiedEntries DEF rec
<1>4. ASSUME NEW i \in DOMAIN classification.entries
      PROVE  \E p : classification.entries[i].labels = ClassifyPath(p)
  <2>1. CASE rec = None
    BY <1>1, <1>3, <2>1 DEF rec
  <2>2. CASE rec # None
    <3>1. DOMAIN classification.entries = DOMAIN rec.entries
      BY <1>1, <1>2, <1>3, <2>2, SequenceElements DEF rec
    <3>2. Classify(rec).entries[i] = [fileEvent |-> rec.entries[i].fileEvent,
               sensitivity |-> rec.entries[i].sensitivity,
               labels |-> ClassifyPath(rec.entries[i].path)]
      BY <1>3, <2>2, <3>1
    <3>3. classification.entries[i] = Classify(rec).entries[i]
      BY <1>1 DEF rec
    <3>4. classification.entries[i].labels = ClassifyPath(rec.entries[i].path)
      BY <3>2, <3>3
    <3> QED BY <3>4
  <2> QED BY <2>1, <2>2
<1> QED
  BY <1>1, <1>3, <1>4 DEF rec

LEMMA ExtractedDocument ==
    ASSUME ContentInv, Made(verification)
    PROVE  /\ Made(classification) /\ IsSequence(verification.observations)
           /\ IsFiniteSet(verification.testFileChanges)
<1>1. /\ Made(classification) /\ verification = Extract(classification, SourceEvents)
      /\ verification # Refused
  BY DEF ContentInv, ChainInv, Made
<1>2. RowsInv /\ seal # None /\ IsSequence(classification.entries)
  BY <1>1, ClassifiedDocument
<1>3. IsSequence(SourceEvents)
  BY <1>2, SourceEventsInOrder
<1>4. /\ IsSequence(Extract(classification, SourceEvents).observations)
      /\ Extract(classification, SourceEvents).testFileChanges = TestFileChanges(classification)
  BY <1>1, <1>3, ExtractedObservations
<1> QED
  BY <1>1, <1>2, <1>4, FiniteTestFileChanges

(***************************************************************************)
(* The nodes of the graph are finitely many, and one that was built keeps  *)
(* its contract.                                                           *)
(***************************************************************************)
LEMMA GraphNodesAreFinite ==
    ASSUME ContentInv, Made(verification)
    PROVE  IsFiniteSet(GraphNodes(RunRecord(verification), classification, verification))
<1> DEFINE run == RunRecord(verification)
<1>1. /\ Made(classification) /\ IsSequence(verification.observations)
      /\ IsFiniteSet(verification.testFileChanges)
  BY ExtractedDocument
<1>2. /\ RowsInv /\ seal # None /\ IsSequence(classification.entries)
      /\ \A i \in DOMAIN classification.entries :
             \E p : classification.entries[i].labels = ClassifyPath(p)
  BY <1>1, ClassifiedDocument
<1>3. IsSequence(run.events)
  <2>1. IsSequence(SourceEvents) /\ IsSequence(DerivedEvents(verification))
    BY <1>1, <1>2, SourceEventsInOrder, DerivedEventsInOrder
  <2>2. run.events = SourceEvents \o DerivedEvents(verification)
    BY DEF RunRecord
  <2> HIDE DEF run
  <2> QED BY <2>1, <2>2, JoinedIsSequence
<1>4. IsFiniteSet(run.gaps)
  <2>1. run.gaps = seal.gaps
    BY DEF RunRecord
  <2> QED BY <1>2, <2>1, ContentAssumption DEF RowsInv
<1>5. /\ IsSequence(run.reconciliations)
      /\ \A r \in DOMAIN run.reconciliations : IsSequence(run.reconciliations[r].entries)
  BY <1>2, ReconciledEntries DEF RunRecord
<1> HIDE DEF run
<1>6. IsFiniteSet(RunNodes(run)) /\ IsFiniteSet(FileNodes(run))
  BY <1>3, <1>4, <1>5, FiniteRunNodes, FiniteFiles
<1>7. IsFiniteSet(ClassificationNodes(classification))
  BY <1>2, FiniteClassificationNodes
<1>8. IsFiniteSet(VerificationNodes(verification))
  BY <1>1, FiniteVerificationNodes
<1> QED
  BY <1>6, <1>7, <1>8, ManyJoinedAreFinite DEF run, GraphNodes

LEMMA BuiltGraph ==
    ASSUME ContentInv, Made(graph)
    PROVE  /\ Made(verification)
           /\ graph = Graph(RunRecord(verification), classification, verification)
           /\ GraphIsValid(graph)
           /\ IsFiniteSet(graph.nodes)
<1> DEFINE run == RunRecord(verification)
<1>1. /\ Made(verification) /\ graph = BuildGraph(run, classification, verification)
      /\ graph # Refused
  BY DEF ContentInv, ChainInv, Made
<1>2. graph = Graph(run, classification, verification) /\ GraphIsValid(graph)
  <2> HIDE DEF run
  <2> QED BY <1>1 DEF BuildGraph
<1>3. IsFiniteSet(GraphNodes(run, classification, verification))
  BY <1>1, GraphNodesAreFinite
<1> HIDE DEF run
<1>4. graph.nodes = GraphNodes(run, classification, verification)
  BY <1>2 DEF Graph
<1> QED
  BY <1>1, <1>2, <1>3, <1>4 DEF run

-----------------------------------------------------------------------------
(***************************************************************************)
(* What the graph knows of a place is finite, so a candidate has a score.  *)
(***************************************************************************)
LEMMA FactsOfANode ==
    ASSUME NEW node
    PROVE  IsFiniteSet(FactsOf(node))
<1> DEFINE status == <<"terminal_status", node.meta["terminalStatus"]>>
           change == <<"change_kind", node.meta["changeKind"]>>
           source == <<"attribution", node.meta["attribution"]>>
           label  == <<"classification_label", node.meta["label"]>>
           gap    == <<"evidence_gap", node.meta["gapCode"]>>
           check  == <<node.meta.verificationKind, node.meta.observedStatus>>
           plan   == <<"decision_observed", node.meta.eventType>>
           p1 == {<<"terminal_status", node.meta[f]>> : f \in {"terminalStatus"} \cap DOMAIN node.meta}
           p2 == {<<"change_kind", node.meta[f]>> : f \in {"changeKind"} \cap DOMAIN node.meta}
           p3 == {<<"attribution", node.meta[f]>> : f \in {"attribution"} \cap DOMAIN node.meta}
           p4 == {<<"classification_label", node.meta[f]>> : f \in {"label"} \cap DOMAIN node.meta}
           p5 == {<<"evidence_gap", node.meta[f]>> : f \in {"gapCode"} \cap DOMAIN node.meta}
           p6 == IF Has(node, "verificationKind") /\ Has(node, "observedStatus")
                 THEN {<<node.meta.verificationKind, node.meta.observedStatus>>} ELSE {}
           p7 == {<<"decision_observed", t>> :
                    t \in IF node.id.kind = "event" THEN {node.meta.eventType} \cap DecisionTypes
                          ELSE {}}
<1>1. p1 \subseteq {status} /\ p2 \subseteq {change} /\ p3 \subseteq {source}
  OBVIOUS
<1>2. p4 \subseteq {label} /\ p5 \subseteq {gap} /\ p6 \subseteq {check}
  OBVIOUS
<1>3. p7 \subseteq {plan}
  OBVIOUS
<1>4. FactsOf(node) = p1 \cup p2 \cup p3 \cup p4 \cup p5 \cup p6 \cup p7
  BY DEF FactsOf
<1> HIDE DEF p1, p2, p3, p4, p5, p6, p7, status, change, source, label, gap, check, plan
<1>5. FactsOf(node) \subseteq {status, change, source} \cup {label, gap, check} \cup {plan}
  BY <1>1, <1>2, <1>3, <1>4
<1>6. IsFiniteSet({status, change, source} \cup {label, gap, check} \cup {plan})
  BY SmallSetsAreFinite, ManyJoinedAreFinite
<1> QED
  BY <1>5, <1>6, FS_Subset

LEMMA FiniteFacts ==
    ASSUME NEW g, IsFiniteSet(g.nodes), NEW ids
    PROVE  IsFiniteSet({f.fact : f \in Facts(ids, g)}) /\ IsFiniteSet(Facts(ids, g))
<1> DEFINE N == NodesAt(ids, g)
           each == [n \in N |-> FactsOf(n)]
           F == UNION {FactsOf(n) : n \in N}
           shown(f) == [fact |-> f, ids |-> {n.id : n \in {n \in N : f \in FactsOf(n)}}]
           h == [f \in F |-> shown(f)]
           last == IF g.outcome = "partial"
                   THEN {[fact |-> <<"source_partial", "true">>, ids |-> {}]} ELSE {}
<1>1. IsFiniteSet(N)
  BY FS_Subset DEF NodesAt
<1>2. F = UNION Range(each)
  <2> HIDE DEF N
  <2> QED BY DEF Range
<1>3. IsFiniteSet(Range(each)) /\ \A s \in Range(each) : IsFiniteSet(s)
  <2>1. \A s \in Range(each) : IsFiniteSet(s)
    BY FactsOfANode DEF Range
  <2>2. DOMAIN each = N
    OBVIOUS
  <2> HIDE DEF each, N
  <2> QED BY <1>1, <2>1, <2>2, FiniteImage
<1>4. IsFiniteSet(F)
  <2> HIDE DEF F, each
  <2> QED BY <1>2, <1>3, FS_UNION
<1>5. Facts(ids, g) = Range(h) \cup last
  <2>1. Facts(ids, g) = {shown(f) : f \in F} \cup last
    BY DEF Facts
  <2> HIDE DEF shown, F, last
  <2>2. Range(h) = {shown(f) : f \in F}
    BY DEF Range
  <2> QED BY <2>1, <2>2
<1>6. IsFiniteSet(last)
  <2>1. last \subseteq {[fact |-> <<"source_partial", "true">>, ids |-> {}]}
    OBVIOUS
  <2>2. IsFiniteSet({[fact |-> <<"source_partial", "true">>, ids |-> {}]})
    BY FS_Singleton
  <2> HIDE DEF last
  <2> QED BY <2>1, <2>2, FS_Subset
<1>7. IsFiniteSet(Facts(ids, g))
  <2>1. DOMAIN h = F
    OBVIOUS
  <2> HIDE DEF h, F, last
  <2>2. IsFiniteSet(Range(h))
    BY <1>4, <2>1, FiniteImage
  <2> QED BY <1>5, <1>6, <2>2, JoinedIsFinite
<1> DEFINE A == Facts(ids, g)
           k == [f \in A |-> f.fact]
<1>8. {f.fact : f \in A} = Range(k) /\ DOMAIN k = A
  <2> HIDE DEF A
  <2> QED BY DEF Range
<1>9. IsFiniteSet(Range(k))
  <2> HIDE DEF k
  <2> QED BY <1>7, <1>8, FiniteImage
<1> QED
  BY <1>7, <1>8, <1>9

LEMMA DivisionIsNatural == \A a \in Nat, b \in Nat \ {0} : a \div b \in Nat
OBVIOUS

LEMMA ScoresAreNumbers ==
    ASSUME NEW c, CandidateIsValid(c), c.length \in Nat,
           NEW g, NEW facts, IsFiniteSet({f.fact : f \in facts})
    PROVE  /\ Score(c, facts, g).evidenceStrength \in Int
           /\ Score(c, facts, g).urgency \in Int /\ Score(c, facts, g).completeness \in Int
           /\ Score(c, facts, g).attention \in Int
           /\ Score(c, facts, g).importance \in Int /\ Score(c, facts, g).confidence \in Int
           /\ Total(Score(c, facts, g)) \in Int
           /\ TypeOrder[c.type] \in Int
<1> DEFINE known == {f.fact : f \in facts}
           s == Score(c, facts, g)
<1>1. MapThenSumSet(Strength, known) \in Nat /\ MapThenSumSet(Urgency, known) \in Nat
  <2>1. IsFiniteSet(known)
    OBVIOUS
  <2> HIDE DEF known
  <2> QED BY <2>1, StrengthsAddUp, UrgenciesAddUp
<1>2. /\ s.evidenceStrength = MapThenSumSet(Strength, known)
      /\ s.urgency = MapThenSumSet(Urgency, known)
      /\ s.completeness = IF g.outcome = "partial" THEN -50 ELSE 0
      /\ s.importance = Signal[c.importance]
      /\ s.confidence = Least(20, c.confidence \div 500)
      /\ s.attention = Least(100, (c.length + 19) \div 20)
  BY DEF Score
<1> HIDE DEF s, known
<1>3. s.evidenceStrength \in Int /\ s.urgency \in Int
  BY <1>1, <1>2
<1>4. s.completeness \in Int
  BY <1>2
<1>5. s.importance \in Int
  <2>1. c.importance \in {"low", "medium", "high", "critical"}
    BY DEF CandidateIsValid, ImportanceLevels
  <2> QED BY <1>2, <2>1 DEF Signal
<1>6. s.confidence \in Int
  <2>1. c.confidence \in ConfidenceLevels
    BY DEF CandidateIsValid
  <2>2. \A x \in ConfidenceLevels : x \in Nat
    BY DEF ConfidenceLevels
  <2>3. c.confidence \in Nat
    BY <2>1, <2>2
  <2>4. 500 \in Nat \ {0}
    OBVIOUS
  <2>5. c.confidence \div 500 \in Nat
    BY <2>3, <2>4, DivisionIsNatural
  <2> QED BY <1>2, <2>5 DEF Least
<1>7. s.attention \in Int
  <2>1. (c.length + 19) \div 20 \in Nat
    BY DivisionIsNatural
  <2> QED BY <1>2, <2>1 DEF Least
<1>8. TypeOrder[c.type] \in Int
  <2>1. c.type \in {"change", "decision", "risk", "check"}
    BY DEF CandidateIsValid, CandidateTypes
  <2> QED BY <2>1 DEF TypeOrder
<1>9. Total(s) \in Int
  BY <1>3, <1>4, <1>5, <1>6, <1>7 DEF Total
<1> QED
  BY <1>3, <1>4, <1>5, <1>6, <1>7, <1>8, <1>9 DEF s

(***************************************************************************)
(* Candidates are compared by keys of five numbers, the last of them their *)
(* place in the batch: no two are equal, and a group has a least one.      *)
(***************************************************************************)
IsKey(k) == /\ DOMAIN k = 1 .. 5 /\ k[1] \in Int /\ k[2] \in Int /\ k[3] \in Int
            /\ k[4] \in Int /\ k[5] \in Int

LEMMA KeyOrder ==
    ASSUME NEW a, IsKey(a), NEW b, IsKey(b)
    PROVE  Precedes(a, b) <=>
               \/ a[1] < b[1]
               \/ a[1] = b[1] /\ a[2] < b[2]
               \/ a[1] = b[1] /\ a[2] = b[2] /\ a[3] < b[3]
               \/ a[1] = b[1] /\ a[2] = b[2] /\ a[3] = b[3] /\ a[4] < b[4]
               \/ a[1] = b[1] /\ a[2] = b[2] /\ a[3] = b[3] /\ a[4] = b[4] /\ a[5] < b[5]
<1>1. DOMAIN a = {1, 2, 3, 4, 5}
  BY DEF IsKey
<1>2. /\ 1 .. (1 - 1) = {} /\ 1 .. (2 - 1) = {1} /\ 1 .. (3 - 1) = {1, 2}
      /\ 1 .. (4 - 1) = {1, 2, 3} /\ 1 .. (5 - 1) = {1, 2, 3, 4}
  OBVIOUS
<1> QED
  BY <1>1, <1>2 DEF Precedes

LEMMA KeysAreOrdered ==
    /\ \A a, b : IsKey(a) /\ IsKey(b) /\ a[5] # b[5] => Precedes(a, b) \/ Precedes(b, a)
    /\ \A a, b : IsKey(a) /\ IsKey(b) /\ Precedes(a, b) => ~Precedes(b, a) /\ a[1] <= b[1]
    /\ \A a, b, c : IsKey(a) /\ IsKey(b) /\ IsKey(c) /\ Precedes(a, b) /\ Precedes(b, c)
                        => Precedes(a, c)
<1>1. ASSUME NEW a, NEW b, IsKey(a), IsKey(b)
      PROVE  /\ a[5] # b[5] => Precedes(a, b) \/ Precedes(b, a)
             /\ Precedes(a, b) => ~Precedes(b, a) /\ a[1] <= b[1]
  BY <1>1, KeyOrder DEF IsKey
<1>2. ASSUME NEW a, NEW b, NEW c, IsKey(a), IsKey(b), IsKey(c), Precedes(a, b), Precedes(b, c)
      PROVE  Precedes(a, c)
  BY <1>2, KeyOrder DEF IsKey
<1> QED
  BY <1>1, <1>2

LEMMA LeastExists ==
    ASSUME NEW S, IsFiniteSet(S), S # {}, NEW key,
           \A x \in S : IsKey(key[x]),
           \A x, y \in S : key[x][5] = key[y][5] => x = y
    PROVE  \E x \in S : \A y \in S \ {x} : Precedes(key[x], key[y])
<1> DEFINE Least1(s, x) == \A y \in s \ {x} : Precedes(key[x], key[y])
           T == {s \in SUBSET S : s # {} => \E x \in s : Least1(s, x)}
<1>1. {} \in T
  OBVIOUS
<1>2. ASSUME NEW s \in SUBSET S, s # {}, s \ {CHOOSE x \in s : TRUE} \in T
      PROVE  s \in T
  <2> DEFINE z == CHOOSE x \in s : TRUE
             rest == s \ {z}
  <2>1. z \in s
    BY <1>2
  <2>2. rest # {} => \E x \in rest : Least1(rest, x)
    BY <1>2
  <2> HIDE DEF z
  <2>3. CASE rest = {}
    <3>1. s = {z}
      BY <2>1, <2>3
    <3>2. Least1(s, z)
      BY <3>1
    <3> QED BY <2>1, <3>2
  <2>4. CASE rest # {}
    <3>1. PICK x \in rest : Least1(rest, x)
      BY <2>2, <2>4
    <3>2. IsKey(key[x]) /\ IsKey(key[z]) /\ \A y \in rest : IsKey(key[y])
      BY <2>1
    <3>3. CASE Precedes(key[x], key[z])
      <4>1. Least1(s, x)
        BY <3>1, <3>3
      <4> QED BY <4>1
    <3>4. CASE Precedes(key[z], key[x])
      <4>1. ASSUME NEW y \in rest PROVE Precedes(key[z], key[y])
        <5>1. y = x \/ Precedes(key[x], key[y])
          BY <3>1
        <5> QED BY <3>2, <3>4, <5>1, KeysAreOrdered
      <4>2. Least1(s, z)
        BY <4>1
      <4> QED BY <2>1, <4>2
    <3>5. Precedes(key[x], key[z]) \/ Precedes(key[z], key[x])
      <4>1. key[x][5] # key[z][5]
        BY <2>1
      <4> QED BY <3>2, <4>1, KeysAreOrdered
    <3> QED
      BY <3>3, <3>4, <3>5
  <2> QED
    BY <2>3, <2>4
<1>3. S \in T
  <2> HIDE DEF T
  <2> QED BY <1>1, <1>2, PickSteps
<1> QED
  BY <1>3

(***************************************************************************)
(* A set of drafts whose scores are numbers, each with a place of its own. *)
(***************************************************************************)
AreScored(ds) ==
    /\ IsFiniteSet(ds)
    /\ \A d, e \in ds : d.index = e.index => d = e
    /\ \A d \in ds : /\ d.score.evidenceStrength \in Int /\ Total(d.score) \in Int
                     /\ d.score.importance \in Int /\ d.score.confidence \in Int
                     /\ d.candidate.length \in Int /\ d.index \in Int
                     /\ TypeOrder[d.candidate.type] \in Int

LEMMA RepresentativeIsInGroup ==
    ASSUME NEW group, AreScored(group), group # {}
    PROVE  Representative(group) \in group
<1> DEFINE key == [d \in group |-> GroupKey(d)]
<1>1. \A d \in group : IsKey(key[d]) /\ key[d][5] = d.index
  <2>1. ASSUME NEW d \in group PROVE IsKey(GroupKey(d)) /\ GroupKey(d)[5] = d.index
    BY DEF IsKey, GroupKey, AreScored
  <2> QED BY <2>1
<1>2. \A x, y \in group : key[x][5] = key[y][5] => x = y
  BY <1>1 DEF AreScored
<1>3. \A d \in group : key[d] = GroupKey(d)
  OBVIOUS
<1> HIDE DEF key
<1>4. \E x \in group : \A y \in group \ {x} : Precedes(key[x], key[y])
  BY <1>1, <1>2, LeastExists DEF AreScored
<1>5. \E x \in group : \A y \in group \ {x} : Precedes(GroupKey(x), GroupKey(y))
  BY <1>3, <1>4
<1> QED
  BY <1>5 DEF Representative

(***************************************************************************)
(* The ranks of the eligible drafts are 1, 2, ..., without a gap, in the   *)
(* order of their totals.                                                  *)
(***************************************************************************)
RankIn(eligible, d) == Cardinality({e \in eligible : e = d \/ Precedes(RankKey(e), RankKey(d))})

LEMMA RankKeys ==
    ASSUME NEW ds, AreScored(ds)
    PROVE  \A d \in ds : /\ IsKey(RankKey(d)) /\ RankKey(d)[5] = d.index
                         /\ RankKey(d)[1] = -Total(d.score)
BY DEF IsKey, RankKey, AreScored

LEMMA RanksFollowTheKeys ==
    ASSUME NEW ds, AreScored(ds), NEW d \in ds, NEW e \in ds
    PROVE  /\ RankIn(ds, d) \in 1 .. Cardinality(ds)
           /\ Precedes(RankKey(d), RankKey(e)) => RankIn(ds, d) < RankIn(ds, e)
<1> DEFINE below(x) == {y \in ds : y = x \/ Precedes(RankKey(y), RankKey(x))}
<1>1. \A x \in ds : /\ IsFiniteSet(below(x)) /\ Cardinality(below(x)) \in Nat
                    /\ Cardinality(below(x)) <= Cardinality(ds)
  <2>1. \A x \in ds : below(x) \in SUBSET ds
    OBVIOUS
  <2> HIDE DEF below
  <2> QED BY <2>1, FS_Subset, FS_CardinalityType DEF AreScored
<1>2. \A x \in ds : RankIn(ds, x) = Cardinality(below(x))
  BY DEF RankIn
<1>3. RankIn(ds, d) \in 1 .. Cardinality(ds)
  <2>1. d \in below(d) /\ Cardinality(ds) \in Nat
    BY FS_CardinalityType DEF AreScored
  <2>2. below(d) # {}
    BY <2>1
  <2> HIDE DEF below
  <2>3. Cardinality(below(d)) # 0
    BY <1>1, <2>2, FS_EmptySet
  <2> QED BY <1>1, <1>2, <2>1, <2>3
<1>4. ASSUME Precedes(RankKey(d), RankKey(e)) PROVE RankIn(ds, d) < RankIn(ds, e)
  <2>1. \A x \in ds : IsKey(RankKey(x))
    BY RankKeys
  <2>2. below(d) \subseteq below(e)
    BY <1>4, <2>1, KeysAreOrdered
  <2>3. e \in below(e) /\ e \notin below(d)
    <3>1. ~Precedes(RankKey(e), RankKey(d))
      BY <1>4, <2>1, KeysAreOrdered
    <3>2. e # d
      BY <1>4, <3>1
    <3> QED BY <3>1, <3>2
  <2> HIDE DEF below
  <2>4. Cardinality(below(d)) <= Cardinality(below(e))
        /\ (Cardinality(below(e)) = Cardinality(below(d)) => below(e) = below(d))
    BY <1>1, <2>2, FS_Subset
  <2> QED BY <1>1, <1>2, <2>3, <2>4
<1> QED
  BY <1>3, <1>4

LEMMA RanksAreDistinct ==
    ASSUME NEW ds, AreScored(ds), NEW x \in ds, NEW y \in ds, x # y
    PROVE  RankIn(ds, x) # RankIn(ds, y)
<1>1. IsKey(RankKey(x)) /\ IsKey(RankKey(y)) /\ RankKey(x)[5] # RankKey(y)[5]
  BY RankKeys DEF AreScored
<1>2. Precedes(RankKey(x), RankKey(y)) \/ Precedes(RankKey(y), RankKey(x))
  BY <1>1, KeysAreOrdered
<1>3. Cardinality(ds) \in Nat
  BY FS_CardinalityType DEF AreScored
<1>4. RankIn(ds, x) \in 1 .. Cardinality(ds) /\ RankIn(ds, y) \in 1 .. Cardinality(ds)
  BY RanksFollowTheKeys
<1>5. RankIn(ds, x) < RankIn(ds, y) \/ RankIn(ds, y) < RankIn(ds, x)
  BY <1>2, RanksFollowTheKeys
<1> QED BY <1>3, <1>4, <1>5

LEMMA RanksHaveNoGap ==
    ASSUME NEW ds, AreScored(ds), NEW r \in 1 .. Cardinality(ds)
    PROVE  \E d \in ds : RankIn(ds, d) = r
<1> DEFINE n == Cardinality(ds)
           f == [d \in ds |-> RankIn(ds, d)]
<1>1. n \in Nat /\ IsFiniteSet(ds)
  BY FS_CardinalityType DEF AreScored
<1>2. f \in [ds -> 1 .. n]
  BY RanksFollowTheKeys
<1>3. ASSUME NEW x \in ds, NEW y \in ds, x # y PROVE f[x] # f[y]
  BY <1>3, RanksAreDistinct
<1>4. IsFiniteSet(1 .. n) /\ Cardinality(1 .. n) = n
  <2>1. /\ IsFiniteSet(1 .. n) /\ Cardinality(1 .. n) = IF 1 > n THEN 0 ELSE n - 1 + 1
    BY <1>1, FS_Interval
  <2>2. (IF 1 > n THEN 0 ELSE n - 1 + 1) = n
    BY <1>1
  <2> QED BY <2>1, <2>2
<1> HIDE DEF n
<1>5. f \in Injection(ds, 1 .. n)
  <2> HIDE DEF f
  <2> QED BY <1>2, <1>3 DEF Injection, IsInjective
<1>6. f \in Surjection(ds, 1 .. n)
  <2> HIDE DEF f
  <2>1. Cardinality(ds) = Cardinality(1 .. n)
    BY <1>4 DEF n
  <2> QED BY <1>4, <1>5, <2>1, FS_Injection
<1>7. \E d \in ds : f[d] = r
  <2> HIDE DEF f
  <2> QED BY <1>6 DEF Surjection, n
<1> QED
  BY <1>7

-----------------------------------------------------------------------------
(***************************************************************************)
(* The report of a batch.                                                  *)
(***************************************************************************)
DraftAt(i)  == Draft(batch[i], graph, i)
AllDrafts   == {DraftAt(i) : i \in DOMAIN batch}
ValidDrafts == {e \in AllDrafts : e.reasons = {}}
Best(e)     == Representative({f \in ValidDrafts : f.signature = e.signature})
Eligible    == {e \in ValidDrafts : Best(e) = e}

LEMMA FiniteBatch ==
    ASSUME BatchInv
    PROVE  IsFiniteSet(DOMAIN batch) /\ DOMAIN batch \subseteq Nat
BY SequenceElements DEF BatchInv

LEMMA DraftFields ==
    ASSUME NEW i
    PROVE  /\ DraftAt(i).index = i /\ DraftAt(i).candidate = batch[i]
           /\ DraftAt(i).reasons = {} =>
                 /\ DraftAt(i).score = Score(batch[i],
                        Facts(batch[i].cites \cup Expanded(batch[i].cites, graph), graph), graph)
                 /\ DraftAt(i).signature = <<batch[i].type, batch[i].cites,
                        Expanded(batch[i].cites, graph),
                        {f.fact : f \in Facts(batch[i].cites
                                              \cup Expanded(batch[i].cites, graph), graph)}>>
BY DEF DraftAt, Draft

LEMMA DraftPlaces == \A i : DraftAt(i).index = i /\ DraftAt(i).candidate = batch[i]
BY DraftFields

LEMMA ValidDraftsAreScored ==
    ASSUME ContentInv, Made(graph), batch # <<>>, NEW ds \in SUBSET ValidDrafts
    PROVE  AreScored(ds)
<1>1. IsFiniteSet(AllDrafts)
  <2> DEFINE f == [i \in DOMAIN batch |-> DraftAt(i)]
  <2>1. AllDrafts = Range(f) /\ DOMAIN f = DOMAIN batch
    BY DEF AllDrafts, Range
  <2>2. IsFiniteSet(DOMAIN batch)
    BY FiniteBatch DEF ContentInv
  <2> HIDE DEF f
  <2> QED BY <2>1, <2>2, FiniteImage
<1>2. IsFiniteSet(ds) /\ ds \subseteq AllDrafts
  BY <1>1, FS_Subset DEF ValidDrafts
<1>3. ASSUME NEW d \in ds, NEW e \in ds, d.index = e.index PROVE d = e
  <2>1. PICK i \in DOMAIN batch : d = DraftAt(i)
    BY <1>2 DEF AllDrafts
  <2>2. PICK j \in DOMAIN batch : e = DraftAt(j)
    BY <1>2 DEF AllDrafts
  <2>3. d.index = i /\ e.index = j
    BY <2>1, <2>2, DraftFields
  <2> QED BY <1>3, <2>1, <2>2, <2>3
<1>4. ASSUME NEW d \in ds
      PROVE  /\ d.score.evidenceStrength \in Int /\ Total(d.score) \in Int
             /\ d.score.importance \in Int /\ d.score.confidence \in Int
             /\ d.candidate.length \in Int /\ d.index \in Int
             /\ TypeOrder[d.candidate.type] \in Int
  <2>1. PICK i \in DOMAIN batch : d = DraftAt(i)
    BY <1>2 DEF AllDrafts
  <2>2. d.reasons = {}
    BY DEF ValidDrafts
  <2> DEFINE facts == Facts(batch[i].cites \cup Expanded(batch[i].cites, graph), graph)
  <2>3. d.index = i /\ d.candidate = batch[i] /\ d.score = Score(batch[i], facts, graph)
    BY <2>1, <2>2, DraftFields
  <2>4. i \in Nat
    BY FiniteBatch DEF ContentInv
  <2>5. CandidateIsValid(batch[i]) /\ batch[i].length \in Nat
    BY DEF ContentInv, BatchInv, BatchIsValid
  <2>6. IsFiniteSet({f.fact : f \in facts})
    BY BuiltGraph, FiniteFacts
  <2> HIDE DEF facts
  <2>7. /\ d.score.evidenceStrength \in Int /\ Total(d.score) \in Int
        /\ d.score.importance \in Int /\ d.score.confidence \in Int
        /\ TypeOrder[d.candidate.type] \in Int
    BY <2>3, <2>5, <2>6, ScoresAreNumbers
  <2> QED
    BY <2>3, <2>4, <2>5, <2>7
<1> QED
  BY <1>2, <1>3, <1>4 DEF AreScored

LEMMA BestOfADraft ==
    ASSUME ContentInv, Made(graph), batch # <<>>, NEW e \in ValidDrafts
    PROVE  Best(e) \in ValidDrafts /\ Best(e).signature = e.signature
<1> DEFINE group == {f \in ValidDrafts : f.signature = e.signature}
<1>1. group # {} /\ group \subseteq ValidDrafts
  OBVIOUS
<1>2. Best(e) = Representative(group)
  BY DEF Best
<1>3. \A f \in group : f \in ValidDrafts /\ f.signature = e.signature
  OBVIOUS
<1> HIDE DEF group
<1>4. Representative(group) \in group
  BY <1>1, ValidDraftsAreScored, RepresentativeIsInGroup
<1> QED
  BY <1>2, <1>3, <1>4

\* What the report says of a draft.
ItemOf(d, item) ==
    /\ item.index = d.index /\ item.cited = d.candidate.cites /\ item.score = d.score
    /\ item.expanded = d.expanded /\ item.facts = d.facts /\ item.fingerprint = d.candidate
    /\ d.reasons # {} => item.decision = "rejected" /\ item.rank = None
                         /\ item.reasons = d.reasons /\ item.representative = None
    /\ d.reasons = {} => item.decision # "rejected"
    /\ d.reasons = {} /\ Best(d) # d =>
           item.representative = Best(d).index /\ item.rank = None
           /\ item.decision = "valid_unselected" /\ item.reasons = {"duplicate_candidate"}
    /\ d.reasons = {} /\ Best(d) = d /\ RankIn(Eligible, d) <= MaxSelected =>
           item.rank = RankIn(Eligible, d) /\ item.decision = "valid_selected"
           /\ item.reasons = {} /\ item.representative = None
    /\ d.reasons = {} /\ Best(d) = d /\ ~(RankIn(Eligible, d) <= MaxSelected) =>
           item.rank = None /\ item.decision = "valid_unselected"
           /\ item.reasons = {"ranked_below_limit"} /\ item.representative = None

LEMMA ItemsOfDrafts ==
    ASSUME NEW d PROVE ItemOf(d, Item(d, AllDrafts))
<1> DEFINE rank == RankIn(Eligible, d)
           item(decision, reasons, representative, r) ==
            [index |-> d.index, cited |-> d.candidate.cites, expanded |-> d.expanded,
             facts |-> d.facts, decision |-> decision, reasons |-> reasons,
             representative |-> representative, score |-> d.score, rank |-> r,
             fingerprint |-> d.candidate]
<1>1. Item(d, AllDrafts) =
        IF d.reasons # {} THEN item("rejected", d.reasons, None, None)
        ELSE IF Best(d) # d
             THEN item("valid_unselected", {"duplicate_candidate"}, Best(d).index, None)
        ELSE IF rank <= MaxSelected THEN item("valid_selected", {}, None, rank)
        ELSE item("valid_unselected", {"ranked_below_limit"}, None, None)
  BY DEF Item, Eligible, Best, ValidDrafts, RankIn
<1> HIDE DEF rank
<1> QED
  BY <1>1 DEF ItemOf, rank

LEMMA JudgedDrafts ==
    /\ DOMAIN Judgement(batch, graph).items = DOMAIN batch
    /\ \A i \in DOMAIN batch : ItemOf(DraftAt(i), Judgement(batch, graph).items[i])
    /\ Judgement(batch, graph).partial <=> Judgement(batch, graph).limitations # {}
<1> DEFINE drafts == [i \in DOMAIN batch |-> Draft(batch[i], graph, i)]
<1>1. ToSet(drafts) = AllDrafts /\ \A i \in DOMAIN batch : drafts[i] = DraftAt(i)
  BY DEF ToSet, AllDrafts, DraftAt
<1>2. Judgement(batch, graph) =
        [items |-> [i \in DOMAIN batch |-> Item(drafts[i], ToSet(drafts))],
         partial |-> graph.outcome = "partial",
         limitations |-> IF graph.outcome = "partial" THEN {"source_graph_partial"} ELSE {}]
  BY DEF Judgement
<1> HIDE DEF drafts
<1>3. /\ DOMAIN Judgement(batch, graph).items = DOMAIN batch
      /\ \A i \in DOMAIN batch :
             Judgement(batch, graph).items[i] = Item(DraftAt(i), AllDrafts)
  BY <1>1, <1>2
<1>4. Judgement(batch, graph).partial <=> Judgement(batch, graph).limitations # {}
  <2>1. /\ Judgement(batch, graph).partial = (graph.outcome = "partial")
        /\ Judgement(batch, graph).limitations
             = IF graph.outcome = "partial" THEN {"source_graph_partial"} ELSE {}
    BY <1>2
  <2> QED BY <2>1
<1> QED
  BY <1>3, <1>4, ItemsOfDrafts

LEMMA ReportOfBatch ==
    ASSUME ContentInv, Made(report)
    PROVE  /\ Made(graph) /\ batch # <<>> /\ ReportIsValid(report)
           /\ DOMAIN report.items = DOMAIN batch
           /\ \A i \in DOMAIN batch : ItemOf(DraftAt(i), report.items[i])
<1>1. batch # <<>> /\ report = Report(batch, graph) /\ report # Refused /\ Made(graph)
  BY DEF ContentInv, ChainInv, Made
<1>2. report = Judgement(batch, graph) /\ ReportIsValid(report)
  BY <1>1 DEF Report
<1> QED
  BY <1>1, <1>2, JudgedDrafts

(***************************************************************************)
(* The shown items are those with the ranks 1, 2, ..., up to the limit.    *)
(***************************************************************************)
ValidItems == {i \in DOMAIN report.items : report.items[i].decision # "rejected"}
ShownItems == {i \in ValidItems : report.items[i].rank # None}
SameClaim(i, j) == /\ report.items[i].cited = report.items[j].cited
                   /\ batch[i].type = batch[j].type

LEMMA ShownDrafts ==
    ASSUME ContentInv, Made(report)
    PROVE  \A i \in DOMAIN batch :
               /\ i \in ValidItems <=> DraftAt(i) \in ValidDrafts
               /\ i \in ShownItems <=> /\ DraftAt(i) \in Eligible
                                       /\ RankIn(Eligible, DraftAt(i)) <= MaxSelected
               /\ i \in ShownItems => /\ report.items[i].rank = RankIn(Eligible, DraftAt(i))
                                      /\ report.items[i].decision = "valid_selected"
               /\ report.items[i].decision = "valid_selected" => i \in ShownItems
<1> TAKE i \in DOMAIN batch
<1>1. /\ DOMAIN report.items = DOMAIN batch /\ ItemOf(DraftAt(i), report.items[i])
      /\ Made(graph) /\ batch # <<>>
  BY ReportOfBatch
<1>2. DraftAt(i) \in AllDrafts
  BY DEF AllDrafts
<1>3. DraftAt(i) \in ValidDrafts <=> DraftAt(i).reasons = {}
  BY <1>2 DEF ValidDrafts
<1>4. DraftAt(i) \in Eligible => RankIn(Eligible, DraftAt(i)) \in Nat
  <2>1. Eligible \in SUBSET ValidDrafts
    BY DEF Eligible
  <2>2. AreScored(Eligible)
    BY <1>1, <2>1, ValidDraftsAreScored
  <2>3. Cardinality(Eligible) \in Nat
    BY <2>2, FS_CardinalityType DEF AreScored
  <2>4. DraftAt(i) \in Eligible => RankIn(Eligible, DraftAt(i)) \in 1 .. Cardinality(Eligible)
    BY <2>2, RanksFollowTheKeys
  <2> QED BY <2>3, <2>4
<1>5. DraftAt(i) \in Eligible <=> DraftAt(i) \in ValidDrafts /\ Best(DraftAt(i)) = DraftAt(i)
  BY DEF Eligible
<1> QED
  BY <1>1, <1>3, <1>4, <1>5, ContentAssumption DEF ItemOf, ValidItems, ShownItems

LEMMA DistinctClaims ==
    ASSUME ContentInv, Made(report),
           NEW i \in ShownItems, NEW j \in ShownItems, SameClaim(i, j)
    PROVE  i = j
<1>1. DOMAIN report.items = DOMAIN batch
  BY ReportOfBatch
<1>2. i \in DOMAIN batch /\ j \in DOMAIN batch
  BY <1>1 DEF ShownItems, ValidItems
<1>3. DraftAt(i) \in Eligible /\ DraftAt(j) \in Eligible
  BY <1>2, ShownDrafts
<1>4. /\ DraftAt(i) \in ValidDrafts /\ Best(DraftAt(i)) = DraftAt(i)
      /\ DraftAt(j) \in ValidDrafts /\ Best(DraftAt(j)) = DraftAt(j)
  BY <1>3 DEF Eligible
<1>5. DraftAt(i).reasons = {} /\ DraftAt(j).reasons = {}
  BY <1>4 DEF ValidDrafts
<1>6. report.items[i].cited = batch[i].cites /\ report.items[j].cited = batch[j].cites
  <2>1. ItemOf(DraftAt(i), report.items[i]) /\ ItemOf(DraftAt(j), report.items[j])
    BY <1>2, ReportOfBatch
  <2>2. /\ report.items[i].cited = DraftAt(i).candidate.cites
        /\ report.items[j].cited = DraftAt(j).candidate.cites
    BY <2>1 DEF ItemOf
  <2> QED BY <2>2, DraftPlaces
<1> DEFINE sign(k) == <<batch[k].type, batch[k].cites, Expanded(batch[k].cites, graph),
                        {f.fact : f \in Facts(batch[k].cites
                                              \cup Expanded(batch[k].cites, graph), graph)}>>
<1>7. DraftAt(i).signature = DraftAt(j).signature
  <2>1. DraftAt(i).signature = sign(i) /\ DraftAt(j).signature = sign(j)
    BY <1>5, DraftFields
  <2>2. batch[i].type = batch[j].type /\ batch[i].cites = batch[j].cites
    BY <1>6 DEF SameClaim
  <2>3. sign(i) = sign(j)
    BY <2>2
  <2> HIDE DEF sign
  <2> QED BY <2>1, <2>3
<1> HIDE DEF sign
<1>8. Best(DraftAt(i)) = Best(DraftAt(j))
  BY <1>7 DEF Best
<1>9. DraftAt(i) = DraftAt(j)
  BY <1>4, <1>8
<1>10. DraftAt(i).index = i /\ DraftAt(j).index = j
  BY DraftPlaces
<1> QED
  BY <1>9, <1>10

LEMMA TheListIsFull ==
    ASSUME ContentInv, Made(report),
           NEW i \in DOMAIN batch, DraftAt(i) \in Eligible,
           ~(RankIn(Eligible, DraftAt(i)) <= MaxSelected)
    PROVE  /\ Cardinality(ShownItems) = MaxSelected
           /\ \A j \in ShownItems : Total(report.items[j].score) >= Total(report.items[i].score)
<1>1. /\ Made(graph) /\ batch # <<>> /\ ReportIsValid(report)
      /\ DOMAIN report.items = DOMAIN batch
  BY ReportOfBatch
<1>2. AreScored(Eligible)
  <2>1. Eligible \in SUBSET ValidDrafts
    BY DEF Eligible
  <2> QED BY <1>1, <2>1, ValidDraftsAreScored
<1>3. Cardinality(Eligible) \in Nat /\ MaxSelected \in Nat
  BY <1>2, FS_CardinalityType, ValidationLimits DEF AreScored
<1>4. RankIn(Eligible, DraftAt(i)) \in 1 .. Cardinality(Eligible)
  BY <1>2, RanksFollowTheKeys
<1> DEFINE selected == ItemsWith(report.items, "valid_selected")
<1>5. selected = ShownItems
  <2>1. selected \subseteq DOMAIN batch /\ ShownItems \subseteq DOMAIN batch
    BY <1>1 DEF ItemsWith, ShownItems, ValidItems
  <2>2. \A k \in DOMAIN batch : k \in selected <=> report.items[k].decision = "valid_selected"
    BY <1>1 DEF ItemsWith
  <2>3. \A k \in DOMAIN batch : k \in selected <=> k \in ShownItems
    BY <2>2, ShownDrafts
  <2> QED BY <2>1, <2>3
<1>6. /\ {report.items[k].rank : k \in ShownItems} = 1 .. Cardinality(ShownItems)
      /\ Cardinality(ShownItems) <= MaxSelected
  BY <1>1, <1>5 DEF ReportIsValid
<1>7. Cardinality(ShownItems) \in Nat
  <2>1. ShownItems \in SUBSET DOMAIN batch
    BY <1>1 DEF ShownItems, ValidItems
  <2>2. IsFiniteSet(ShownItems)
    BY <2>1, FiniteBatch, FS_Subset DEF ContentInv
  <2> QED BY <2>2, FS_CardinalityType
<1>8. Cardinality(ShownItems) >= MaxSelected
  <2>1. CASE MaxSelected = 0
    BY <1>7, <2>1
  <2>2. CASE MaxSelected # 0
    <3>1. MaxSelected \in 1 .. Cardinality(Eligible)
      BY <1>3, <1>4, <2>2
    <3>2. PICK d \in Eligible : RankIn(Eligible, d) = MaxSelected
      BY <1>2, <3>1, RanksHaveNoGap
    <3>3. PICK k \in DOMAIN batch : d = DraftAt(k)
      BY DEF Eligible, ValidDrafts, AllDrafts
    <3>4. k \in ShownItems /\ report.items[k].rank = MaxSelected
      BY <1>3, <3>2, <3>3, ShownDrafts
    <3>5. MaxSelected \in 1 .. Cardinality(ShownItems)
      BY <1>6, <3>4
    <3> QED BY <1>3, <1>7, <3>5
  <2> QED BY <2>1, <2>2
<1>9. ASSUME NEW j \in ShownItems
      PROVE  Total(report.items[j].score) >= Total(report.items[i].score)
  <2>1. j \in DOMAIN batch
    BY <1>1 DEF ShownItems, ValidItems
  <2>2. DraftAt(j) \in Eligible /\ RankIn(Eligible, DraftAt(j)) <= MaxSelected
    BY <2>1, ShownDrafts
  <2> DEFINE a == RankKey(DraftAt(j))
             b == RankKey(DraftAt(i))
  <2>3. /\ IsKey(a) /\ IsKey(b) /\ a[5] = j /\ b[5] = i
        /\ a[1] = -Total(DraftAt(j).score) /\ b[1] = -Total(DraftAt(i).score)
    BY <1>2, <2>2, RankKeys, DraftFields
  <2>4. RankIn(Eligible, DraftAt(j)) \in 1 .. Cardinality(Eligible)
    BY <1>2, <2>2, RanksFollowTheKeys
  <2>5. i # j
    BY <2>2
  <2>6. Precedes(a, b) \/ Precedes(b, a)
    <3> HIDE DEF a, b
    <3> QED BY <2>3, <2>5, KeysAreOrdered
  <2>7. ~Precedes(b, a)
    <3>1. Precedes(b, a) => RankIn(Eligible, DraftAt(i)) < RankIn(Eligible, DraftAt(j))
      BY <1>2, <2>2, RanksFollowTheKeys
    <3> HIDE DEF a, b
    <3> QED BY <1>3, <1>4, <2>2, <2>4, <3>1
  <2>8. a[1] <= b[1]
    <3> HIDE DEF a, b
    <3> QED BY <2>3, <2>6, <2>7, KeysAreOrdered
  <2>9. Total(DraftAt(i).score) \in Int /\ Total(DraftAt(j).score) \in Int
    BY <1>2, <2>2 DEF AreScored
  <2>10. report.items[i].score = DraftAt(i).score /\ report.items[j].score = DraftAt(j).score
    BY <2>1, ReportOfBatch DEF ItemOf
  <2> HIDE DEF a, b
  <2> QED BY <2>3, <2>8, <2>9, <2>10
<1> QED
  BY <1>3, <1>6, <1>7, <1>8, <1>9

LEMMA AnotherStandsForIt ==
    ASSUME ContentInv, Made(report),
           NEW i \in DOMAIN batch, DraftAt(i) \in ValidDrafts, Best(DraftAt(i)) # DraftAt(i)
    PROVE  \E j \in ValidItems : /\ j # i /\ SameClaim(i, j)
                                 /\ report.items[j].representative = None
                                 /\ report.items[j].score.evidenceStrength
                                      >= report.items[i].score.evidenceStrength
<1>1. /\ Made(graph) /\ batch # <<>> /\ ReportIsValid(report)
      /\ DOMAIN report.items = DOMAIN batch
      /\ \A k \in DOMAIN batch : ItemOf(DraftAt(k), report.items[k])
  BY ReportOfBatch
<1>2. /\ Best(DraftAt(i)) \in ValidDrafts
      /\ Best(DraftAt(i)).signature = DraftAt(i).signature
  BY <1>1, BestOfADraft
<1>3. PICK j \in DOMAIN batch : Best(DraftAt(i)) = DraftAt(j)
  BY <1>2 DEF ValidDrafts, AllDrafts
<1>4. /\ DraftAt(i).reasons = {} /\ DraftAt(j).reasons = {} /\ DraftAt(i) # DraftAt(j)
      /\ DraftAt(j).signature = DraftAt(i).signature
  BY <1>2, <1>3 DEF ValidDrafts
<1>5. i # j
  BY <1>4
<1> DEFINE known(k) == {f.fact : f \in Facts(batch[k].cites
                                             \cup Expanded(batch[k].cites, graph), graph)}
<1>6. batch[i].type = batch[j].type /\ batch[i].cites = batch[j].cites /\ known(i) = known(j)
  <2> HIDE DEF known
  <2>1. \A k \in DOMAIN batch : DraftAt(k).reasons = {} =>
            DraftAt(k).signature = <<batch[k].type, batch[k].cites,
                                     Expanded(batch[k].cites, graph), known(k)>>
    BY DraftFields DEF known
  <2> QED BY <1>4, <2>1
<1> HIDE DEF known
<1>7. SameClaim(i, j)
  <2>1. /\ report.items[i].cited = DraftAt(i).candidate.cites
        /\ report.items[j].cited = DraftAt(j).candidate.cites
    BY <1>1 DEF ItemOf
  <2> QED BY <1>6, <2>1, DraftPlaces DEF SameClaim
<1>8. report.items[i].representative = j
  <2>1. report.items[i].representative = Best(DraftAt(i)).index
    BY <1>1, <1>3, <1>4 DEF ItemOf
  <2> QED BY <1>3, <2>1, DraftPlaces
<1>9. j # None
  BY FiniteBatch, ContentAssumption DEF ContentInv
<1>10. report.items[j].representative = None
  BY <1>1, <1>8, <1>9 DEF ReportIsValid
<1>11. j \in ValidItems
  BY <1>2, <1>3, ShownDrafts
<1>12. report.items[j].score.evidenceStrength >= report.items[i].score.evidenceStrength
  <2>1. \A k \in DOMAIN batch : DraftAt(k).reasons = {} =>
            DraftAt(k).score.evidenceStrength = MapThenSumSet(Strength, known(k))
    <3> DEFINE facts(k) == Facts(batch[k].cites \cup Expanded(batch[k].cites, graph), graph)
    <3>1. \A k \in DOMAIN batch : DraftAt(k).reasons = {} =>
              DraftAt(k).score = Score(batch[k], facts(k), graph)
      BY DraftFields
    <3>2. \A k : known(k) = {f.fact : f \in facts(k)}
      BY DEF known
    <3> HIDE DEF facts
    <3>3. \A k : Score(batch[k], facts(k), graph).evidenceStrength
                  = MapThenSumSet(Strength, {f.fact : f \in facts(k)})
      BY DEF Score
    <3> QED BY <3>1, <3>2, <3>3
  <2>2. DraftAt(i).score.evidenceStrength = DraftAt(j).score.evidenceStrength
    <3> HIDE DEF known
    <3> QED BY <1>4, <1>6, <2>1
  <2>3. AreScored(ValidDrafts)
    BY <1>1, ValidDraftsAreScored
  <2>4. DraftAt(i).score.evidenceStrength \in Int
    BY <2>3 DEF AreScored
  <2>5. report.items[i].score = DraftAt(i).score /\ report.items[j].score = DraftAt(j).score
    BY <1>1 DEF ItemOf
  <2> QED BY <2>2, <2>4, <2>5
<1> QED
  BY <1>5, <1>7, <1>10, <1>11, <1>12

(***************************************************************************)
(* What the user is not shown is not better than what is: of two valid     *)
(* candidates of one type and evidence at most one is shown; a valid one   *)
(* that is not shown gave way to another of the same type and evidence, at *)
(* least as strong, or the list is full of candidates with at least its    *)
(* total (validator.ts:740-754, 825-850).                                  *)
(***************************************************************************)
THEOREM NothingBetterIsEverHidden == ContentSpec => []NothingBetterIsHidden
<1>1. ContentInv => NothingBetterIsHidden
  <2> SUFFICES ASSUME ContentInv, Made(report) PROVE NothingBetterIsHidden
    BY DEF NothingBetterIsHidden
  <2>1. DOMAIN report.items = DOMAIN batch
    BY ReportOfBatch
  <2>2. \A i, j \in ShownItems : i # j => ~SameClaim(i, j)
    BY DistinctClaims
  <2>3. ASSUME NEW i \in ValidItems \ ShownItems
        PROVE  \/ \E j \in ValidItems : /\ j # i /\ SameClaim(i, j)
                                        /\ report.items[j].representative = None
                                        /\ report.items[j].score.evidenceStrength
                                             >= report.items[i].score.evidenceStrength
               \/ /\ Cardinality(ShownItems) = MaxSelected
                  /\ \A j \in ShownItems :
                         Total(report.items[j].score) >= Total(report.items[i].score)
    <3>1. i \in DOMAIN batch
      BY <2>1 DEF ValidItems
    <3>2. DraftAt(i) \in ValidDrafts
      BY <3>1, ShownDrafts
    <3>3. CASE Best(DraftAt(i)) # DraftAt(i)
      BY <3>1, <3>2, <3>3, AnotherStandsForIt
    <3>4. CASE Best(DraftAt(i)) = DraftAt(i)
      <4>1. DraftAt(i) \in Eligible
        BY <3>2, <3>4 DEF Eligible
      <4>2. ~(RankIn(Eligible, DraftAt(i)) <= MaxSelected)
        BY <3>1, <4>1, ShownDrafts
      <4> QED BY <3>1, <4>1, <4>2, TheListIsFull
    <3> QED BY <3>3, <3>4
  <2> QED
    BY <2>2, <2>3 DEF NothingBetterIsHidden, ValidItems, ShownItems, SameClaim
<1> QED
  BY ContentInvariant, <1>1, PTL

-----------------------------------------------------------------------------
(***************************************************************************)
(* The edges of a graph are finite: each has a type and joins two nodes.   *)
(***************************************************************************)
AllEdgeTypes ==
    {"run_contains", "normalized_with", "baseline_recorded_by", "run_has_gap",
     "run_materialized_artifact", "reconciliation_triggered_by", "reconciliation_summarized_by",
     "reconciliation_observed_file", "changed_file_emitted_event", "finalization_triggered_by",
     "finalization_uses_reconciliation", "finalization_emitted_event",
     "finalization_materialized_artifact", "changed_file_classified_by",
     "classification_assigned_label", "classification_supported_by_rule",
     "command_observed_from_event", "command_emitted_event", "command_has_verification",
     "verification_emitted_event", "test_file_change_supported_by_classification"}

IsEdge(e) == e = <<e[1], e[2], e[3]>> /\ e[1] \in AllEdgeTypes

LEMMA NewEdge == \A t \in AllEdgeTypes : \A a, b : IsEdge(<<t, a, b>>)
BY DEF IsEdge

LEMMA EdgeTypeNames ==
    /\ "run_contains" \in AllEdgeTypes /\ "normalized_with" \in AllEdgeTypes
    /\ "baseline_recorded_by" \in AllEdgeTypes /\ "run_has_gap" \in AllEdgeTypes
    /\ "run_materialized_artifact" \in AllEdgeTypes
    /\ "reconciliation_triggered_by" \in AllEdgeTypes
    /\ "reconciliation_summarized_by" \in AllEdgeTypes
    /\ "reconciliation_observed_file" \in AllEdgeTypes
    /\ "changed_file_emitted_event" \in AllEdgeTypes
    /\ "finalization_triggered_by" \in AllEdgeTypes
    /\ "finalization_uses_reconciliation" \in AllEdgeTypes
    /\ "finalization_emitted_event" \in AllEdgeTypes
    /\ "finalization_materialized_artifact" \in AllEdgeTypes
    /\ "changed_file_classified_by" \in AllEdgeTypes
    /\ "classification_assigned_label" \in AllEdgeTypes
    /\ "classification_supported_by_rule" \in AllEdgeTypes
    /\ "command_observed_from_event" \in AllEdgeTypes
    /\ "command_emitted_event" \in AllEdgeTypes /\ "command_has_verification" \in AllEdgeTypes
    /\ "verification_emitted_event" \in AllEdgeTypes
    /\ "test_file_change_supported_by_classification" \in AllEdgeTypes
BY DEF AllEdgeTypes

LEMMA RunEdgesAreEdges == ASSUME NEW run, NEW e \in RunEdges(run) PROVE IsEdge(e)
<1>1. \A x \in SiblingEdges(run.groups) : IsEdge(x)
  BY NewEdge, EdgeTypeNames DEF SiblingEdges
<1>2. \A x \in RunEdges(run) \ SiblingEdges(run.groups) : IsEdge(x)
  BY NewEdge, EdgeTypeNames DEF RunEdges
<1> QED BY <1>1, <1>2

LEMMA FileEdgesAreEdges == ASSUME NEW run, NEW e \in FileEdges(run) PROVE IsEdge(e)
<1> DEFINE of(r) == {<<"run_contains", RunNode, ReconciliationNode(r)>>,
            <<"reconciliation_triggered_by", ReconciliationNode(r),
              EventNode(run.reconciliations[r].trigger)>>,
            <<"reconciliation_summarized_by", ReconciliationNode(r),
              EventNode(run.reconciliations[r].summary)>>}
           by(f) == {<<"run_contains", RunNode, FileNode(f[1], f[2], f[3].fileEvent)>>,
                     <<"reconciliation_observed_file", ReconciliationNode(f[1]),
                       FileNode(f[1], f[2], f[3].fileEvent)>>,
                     <<"changed_file_emitted_event", FileNode(f[1], f[2], f[3].fileEvent),
                       EventNode(f[3].fileEvent)>>}
<1>1. \A r : \A x \in of(r) : IsEdge(x)
  BY NewEdge, EdgeTypeNames
<1>2. \A f : \A x \in by(f) : IsEdge(x)
  BY NewEdge, EdgeTypeNames
<1>3. FileEdges(run) = (UNION {of(r) : r \in DOMAIN run.reconciliations})
                       \cup (UNION {by(f) : f \in Files(run)})
  BY DEF FileEdges
<1> HIDE DEF of, by
<1> DEFINE U == UNION {of(r) : r \in DOMAIN run.reconciliations}
           W == UNION {by(f) : f \in Files(run)}
<1>4. (\A x \in U : IsEdge(x)) /\ \A x \in W : IsEdge(x)
  BY <1>1, <1>2
<1>5. FileEdges(run) = U \cup W
  BY <1>3
<1> HIDE DEF U, W
<1> QED BY <1>4, <1>5

LEMMA FinalizationEdgesAreEdges == ASSUME NEW run, NEW e \in FinalizationEdges(run) PROVE IsEdge(e)
BY NewEdge, EdgeTypeNames DEF FinalizationEdges

LEMMA ClassificationEdgesAreEdges ==
    ASSUME NEW run, NEW c, NEW e \in ClassificationEdges(run, c) PROVE IsEdge(e)
<1> DEFINE of(x) == {<<"run_contains", RunNode, EntryNode(x[1], x[2].fileEvent)>>}
           by(x, f) == {<<"changed_file_classified_by", FileNode(f[1], f[2], f[3].fileEvent),
                          EntryNode(x[1], x[2].fileEvent)>>}
           label(x) == {<<"classification_assigned_label",
                          EntryNode(x[1], c.entries[x[1]].fileEvent),
                          LabelNode(x[1], x[2].label)>>}
           rule(x) == {<<"classification_supported_by_rule", LabelNode(x[1], x[2]),
                         RuleNode(x[3].ruleId)>>}
<1>1. \A x : \A y \in of(x) : IsEdge(y)
  BY NewEdge, EdgeTypeNames
<1>2. \A x, f : \A y \in by(x, f) : IsEdge(y)
  BY NewEdge, EdgeTypeNames
<1>3. \A x : \A y \in label(x) : IsEdge(y)
  BY NewEdge, EdgeTypeNames
<1>4. \A x : \A y \in rule(x) : IsEdge(y)
  BY NewEdge, EdgeTypeNames
<1> DEFINE U == {<<"run_contains", RunNode, EntryNode(x[1], x[2].fileEvent)>> : x \in Entries(c)}
           V == UNION {{<<"changed_file_classified_by", FileNode(f[1], f[2], f[3].fileEvent),
                          EntryNode(x[1], x[2].fileEvent)>> :
                          f \in {f \in Files(run) : f[3].fileEvent = x[2].fileEvent}} :
                          x \in Entries(c)}
           W == {<<"classification_assigned_label", EntryNode(x[1], c.entries[x[1]].fileEvent),
                   LabelNode(x[1], x[2].label)>> : x \in Labels(c)}
           Z == {<<"classification_supported_by_rule", LabelNode(x[1], x[2]),
                   RuleNode(x[3].ruleId)>> : x \in Rules(c)}
<1>5. \A y \in U : IsEdge(y)
  BY <1>1
<1>6. \A y \in V : IsEdge(y)
  BY <1>2
<1>7. \A y \in W : IsEdge(y)
  BY <1>3
<1>8. \A y \in Z : IsEdge(y)
  BY <1>4
<1>9. ClassificationEdges(run, c) = U \cup V \cup W \cup Z
  BY DEF ClassificationEdges
<1> HIDE DEF U, V, W, Z
<1> QED BY <1>5, <1>6, <1>7, <1>8, <1>9

LEMMA VerificationEdgesAreEdges == ASSUME NEW v, NEW e \in VerificationEdges(v) PROVE IsEdge(e)
<1> DEFINE of(x) == {<<"run_contains", RunNode, CommandNode(x[1], x[2].sourceEvent)>>,
                <<"command_observed_from_event", CommandNode(x[1], x[2].sourceEvent),
                  EventNode(x[2].sourceEvent)>>,
                <<"command_emitted_event", CommandNode(x[1], x[2].sourceEvent),
                  EventNode(x[2].commandEvent)>>}
           by(x) == {<<"command_has_verification", CommandNode(x[1], x[2].sourceEvent),
                       VerificationNode(x[1], x[2].kind)>>,
                     <<"verification_emitted_event", VerificationNode(x[1], x[2].kind),
                       EventNode(x[2].verificationEvent)>>}
           for(t) == {<<"run_contains", RunNode, TestFileNode(t.entry, t.fileEvent)>>,
                     <<"test_file_change_supported_by_classification",
                       TestFileNode(t.entry, t.fileEvent), EntryNode(t.entry, t.fileEvent)>>}
<1>1. \A y : \A x \in of(y) : IsEdge(x)
  BY NewEdge, EdgeTypeNames
<1>2. \A y : \A x \in by(y) : IsEdge(x)
  BY NewEdge, EdgeTypeNames
<1>3. \A y : \A x \in for(y) : IsEdge(x)
  BY NewEdge, EdgeTypeNames
<1>4. VerificationEdges(v) = (UNION {of(x) : x \in Observations(v)})
                             \cup (UNION {by(x) : x \in Recognized(v)})
                             \cup (UNION {for(t) : t \in v.testFileChanges})
  BY DEF VerificationEdges
<1> HIDE DEF of, by, for
<1> DEFINE U == UNION {of(x) : x \in Observations(v)}
           W == UNION {by(x) : x \in Recognized(v)}
           Z == UNION {for(t) : t \in v.testFileChanges}
<1>5. (\A x \in U : IsEdge(x)) /\ (\A x \in W : IsEdge(x)) /\ \A x \in Z : IsEdge(x)
  BY <1>1, <1>2, <1>3
<1>6. VerificationEdges(v) = U \cup W \cup Z
  BY <1>4
<1> HIDE DEF U, W, Z
<1> QED BY <1>5, <1>6

LEMMA FiniteEdges ==
    ASSUME ContentInv, Made(graph)
    PROVE  IsFiniteSet(graph.edges)
<1>1. /\ graph = Graph(RunRecord(verification), classification, verification)
      /\ GraphIsValid(graph) /\ IsFiniteSet(graph.nodes)
  BY BuiltGraph
<1> DEFINE I == Ids(graph.nodes)
           f == [p \in (AllEdgeTypes \X I) \X I |-> <<p[1][1], p[1][2], p[2]>>]
<1>2. \A e \in graph.edges : IsEdge(e)
  BY <1>1, RunEdgesAreEdges, FileEdgesAreEdges, FinalizationEdgesAreEdges,
     ClassificationEdgesAreEdges, VerificationEdgesAreEdges DEF Graph, GraphEdges
<1>3. \A e \in graph.edges : e[2] \in I /\ e[3] \in I
  <2> HIDE DEF I
  <2>1. \A e \in graph.edges : {e[2], e[3]} \subseteq I
    BY <1>1 DEF GraphIsValid, I
  <2> QED BY <2>1
<1>4. IsFiniteSet(I)
  <2> DEFINE N == graph.nodes
             h == [n \in N |-> n.id]
  <2>1. I = Range(h) /\ DOMAIN h = N
    BY DEF Ids, Range
  <2> HIDE DEF h, I
  <2> QED BY <1>1, <2>1, FiniteImage
<1>5. IsFiniteSet(AllEdgeTypes)
  <2>1. AllEdgeTypes =
    {"run_contains", "normalized_with", "baseline_recorded_by"}
    \cup {"run_has_gap", "run_materialized_artifact", "reconciliation_triggered_by"}
    \cup {"reconciliation_summarized_by", "reconciliation_observed_file",
          "changed_file_emitted_event"}
    \cup ({"finalization_triggered_by", "finalization_uses_reconciliation",
          "finalization_emitted_event"}
    \cup {"finalization_materialized_artifact", "changed_file_classified_by",
          "classification_assigned_label"}
    \cup {"classification_supported_by_rule", "command_observed_from_event",
          "command_emitted_event"}
    \cup {"command_has_verification", "verification_emitted_event",
          "test_file_change_supported_by_classification"})
    BY DEF AllEdgeTypes
  <2>2. IsFiniteSet({"run_contains", "normalized_with", "baseline_recorded_by"}
    \cup {"run_has_gap", "run_materialized_artifact", "reconciliation_triggered_by"}
    \cup {"reconciliation_summarized_by", "reconciliation_observed_file",
          "changed_file_emitted_event"})
    BY SmallSetsAreFinite, ManyJoinedAreFinite
  <2>3. IsFiniteSet({"finalization_triggered_by", "finalization_uses_reconciliation",
          "finalization_emitted_event"}
    \cup {"finalization_materialized_artifact", "changed_file_classified_by",
          "classification_assigned_label"}
    \cup {"classification_supported_by_rule", "command_observed_from_event",
          "command_emitted_event"}
    \cup {"command_has_verification", "verification_emitted_event",
          "test_file_change_supported_by_classification"})
    BY SmallSetsAreFinite, ManyJoinedAreFinite
  <2> QED BY <2>1, <2>2, <2>3, JoinedIsFinite
<1>6. IsFiniteSet(DOMAIN f)
  <2>1. DOMAIN f = (AllEdgeTypes \X I) \X I
    OBVIOUS
  <2> HIDE DEF f, I
  <2>2. IsFiniteSet(AllEdgeTypes \X I)
    BY <1>4, <1>5, FS_Product
  <2>3. IsFiniteSet((AllEdgeTypes \X I) \X I)
    BY <1>4, <2>2, FS_Product
  <2> QED BY <2>1, <2>3
<1>7. graph.edges \subseteq Range(f)
  <2> HIDE DEF I
  <2>1. ASSUME NEW e \in graph.edges PROVE e \in Range(f)
    <3>1. e = <<e[1], e[2], e[3]>> /\ e[1] \in AllEdgeTypes /\ e[2] \in I /\ e[3] \in I
      BY <1>2, <1>3 DEF IsEdge
    <3>2. <<<<e[1], e[2]>>, e[3]>> \in DOMAIN f /\ f[<<<<e[1], e[2]>>, e[3]>>] = e
      BY <3>1
    <3> HIDE DEF f
    <3> QED BY <3>2 DEF Range
  <2> QED BY <2>1
<1> QED
  <2> HIDE DEF f
  <2>1. IsFiniteSet(Range(f))
    BY <1>6, FiniteImage
  <2> QED BY <1>7, <2>1, FS_Subset

-----------------------------------------------------------------------------
(***************************************************************************)
(* The Bash results among a run's events are its commands, in their order. *)
(***************************************************************************)
LEMMA NoFurtherResults ==
    ASSUME NEW s, IsSequence(s), NEW t, IsSequence(t), \A x \in ToSet(t) : ~IsBashResult(x)
    PROVE  BashResults(s \o t) = BashResults(s)
<1> DEFINE m == Len(s)
           n == Len(t)
           u == s \o t
<1>1. /\ m \in Nat /\ n \in Nat /\ DOMAIN s = 1 .. m /\ DOMAIN t = 1 .. n
  BY SequenceElements
<1>2. /\ IsSequence(u) /\ Len(u) = m + n
      /\ \A i \in 1 .. m : u[i] = s[i]
      /\ \A i \in 1 .. n : u[m + i] = t[i]
  BY <1>1, JoinedIsSequence
<1>3. \A i \in 1 .. n : ~IsBashResult(u[m + i])
  BY <1>1, <1>2 DEF ToSet
<1> HIDE DEF m, n, u
<1>4. PICK g : Collects(g, s)
  BY BashResultSteps
<1>5. PICK h : Collects(h, u)
  BY <1>2, BashResultSteps
<1>6. /\ g[0] = <<>> /\ g[m] = BashResults(s)
      /\ \A k \in 1 .. m : g[k] = IF IsBashResult(s[k]) THEN Append(g[k - 1], s[k]) ELSE g[k - 1]
  BY <1>4 DEF Collects, m
<1>7. /\ h[0] = <<>> /\ h[m + n] = BashResults(u)
      /\ \A k \in 1 .. (m + n) :
             h[k] = IF IsBashResult(u[k]) THEN Append(h[k - 1], u[k]) ELSE h[k - 1]
  BY <1>2, <1>5 DEF Collects
<1> DEFINE K == {k \in Nat : k <= m => h[k] = g[k]}
           J == {k \in Nat : k <= n => h[m + k] = g[m]}
<1>8. 0 \in K
  BY <1>6, <1>7
<1>9. ASSUME NEW k \in Nat, k \in K PROVE k + 1 \in K
  <2> SUFFICES ASSUME k + 1 <= m PROVE h[k + 1] = g[k + 1]
    OBVIOUS
  <2>1. k + 1 \in 1 .. m /\ k + 1 \in 1 .. (m + n) /\ (k + 1) - 1 = k /\ h[k] = g[k]
    BY <1>1, <1>9
  <2> QED BY <1>2, <1>6, <1>7, <2>1
<1>10. m \in K
  <2> HIDE DEF K
  <2> QED BY <1>1, <1>8, <1>9, NaturalSteps
<1>11. 0 \in J
  BY <1>1, <1>10
<1>12. ASSUME NEW k \in Nat, k \in J PROVE k + 1 \in J
  <2> SUFFICES ASSUME k + 1 <= n PROVE h[m + (k + 1)] = g[m]
    OBVIOUS
  <2>1. k + 1 \in 1 .. n /\ m + (k + 1) \in 1 .. (m + n) /\ (m + (k + 1)) - 1 = m + k
        /\ h[m + k] = g[m]
    BY <1>1, <1>12
  <2> QED BY <1>3, <1>7, <2>1
<1>13. n \in J
  <2> HIDE DEF J
  <2> QED BY <1>1, <1>11, <1>12, NaturalSteps
<1> QED
  BY <1>1, <1>6, <1>7, <1>13 DEF u

LEMMA OnlyResults ==
    ASSUME NEW a, IsSequence(a), \A x \in ToSet(a) : ~IsBashResult(x),
           NEW c, IsSequence(c), \A x \in ToSet(c) : IsBashResult(x)
    PROVE  BashResults(a \o c) = c
<1> DEFINE m == Len(a)
           n == Len(c)
           u == a \o c
           V == ToSet(c)
<1>1. m \in Nat /\ n \in Nat /\ DOMAIN a = 1 .. m /\ DOMAIN c = 1 .. n /\ c \in Seq(V)
  BY SequenceElements DEF IsSequence
<1>2. /\ IsSequence(u) /\ Len(u) = m + n
      /\ \A i \in 1 .. m : u[i] = a[i] /\ ~IsBashResult(u[i])
      /\ \A i \in 1 .. n : u[m + i] = c[i] /\ IsBashResult(u[m + i])
  <2>1. /\ IsSequence(u) /\ Len(u) = m + n
        /\ \A i \in 1 .. m : u[i] = a[i]
        /\ \A i \in 1 .. n : u[m + i] = c[i]
    BY <1>1, JoinedIsSequence
  <2>2. /\ \A i \in 1 .. m : ~IsBashResult(a[i])
        /\ \A i \in 1 .. n : IsBashResult(c[i])
    BY <1>1 DEF ToSet
  <2> HIDE DEF u, m, n
  <2> QED BY <2>1, <2>2
<1>3. PICK h : Collects(h, u)
  BY <1>2, BashResultSteps
<1> HIDE DEF m, n, u, V
<1>4. /\ h[0] = <<>> /\ h[m + n] = BashResults(u)
      /\ \A k \in 1 .. (m + n) :
             h[k] = IF IsBashResult(u[k]) THEN Append(h[k - 1], u[k]) ELSE h[k - 1]
  BY <1>2, <1>3 DEF Collects
<1> DEFINE K == {k \in Nat : k <= m => h[k] = <<>>}
           J == {k \in Nat : k <= n => h[m + k] = SubSeq(c, 1, k)}
<1>5. 0 \in K
  BY <1>4
<1>6. ASSUME NEW k \in Nat, k \in K PROVE k + 1 \in K
  <2> SUFFICES ASSUME k + 1 <= m PROVE h[k + 1] = <<>>
    OBVIOUS
  <2>1. k + 1 \in 1 .. m /\ k + 1 \in 1 .. (m + n) /\ (k + 1) - 1 = k /\ h[k] = <<>>
    BY <1>1, <1>6
  <2> QED BY <1>2, <1>4, <2>1
<1>7. m \in K
  <2> HIDE DEF K
  <2> QED BY <1>1, <1>5, <1>6, NaturalSteps
<1>8. 0 \in J
  <2>1. m + 0 = m /\ m <= m
    BY <1>1
  <2>2. SubSeq(c, 1, 0) = <<>>
    BY <1>1
  <2> QED BY <1>7, <2>1, <2>2
<1>9. ASSUME NEW k \in Nat, k \in J PROVE k + 1 \in J
  <2> SUFFICES ASSUME k + 1 <= n PROVE h[m + (k + 1)] = SubSeq(c, 1, k + 1)
    OBVIOUS
  <2>1. k + 1 \in 1 .. n /\ m + (k + 1) \in 1 .. (m + n) /\ (m + (k + 1)) - 1 = m + k
        /\ h[m + k] = SubSeq(c, 1, k)
    BY <1>1, <1>9
  <2> DEFINE p == m + (k + 1)
  <2>2. p \in 1 .. (m + n) /\ u[p] = c[k + 1] /\ IsBashResult(u[p])
        /\ h[p - 1] = SubSeq(c, 1, k)
    BY <1>2, <2>1
  <2>4. h[p] = Append(SubSeq(c, 1, k), c[k + 1])
    <3> HIDE DEF p
    <3> QED BY <1>4, <2>2
  <2>3. Append(SubSeq(c, 1, k), c[k + 1]) = SubSeq(c, 1, k + 1)
    BY <1>1, <2>1 DEF n
  <2> QED BY <2>3, <2>4
<1>10. n \in J
  <2> HIDE DEF J
  <2> QED BY <1>1, <1>8, <1>9, NaturalSteps
<1>11. SubSeq(c, 1, n) = c
  BY <1>1 DEF n
<1> QED
  BY <1>1, <1>4, <1>10, <1>11 DEF u

LEMMA OtherEvents ==
    ASSUME NEW id, NEW type, type \notin {"tool.succeeded", "tool.failed"}
    PROVE  ~IsBashResult(Event(id, type))
BY DEF IsBashResult, Event

FileEventTypes == {"tool.batch_completed", "run.stop_failed", "run.stop_observed",
                   "file.change_observed", "git.diff_computed"}

LEMMA TypesOfFileEvents ==
    ASSUME RowsInv, seal # None
    PROVE  \A x \in ToSet(FileEvents(Reconciliations)) : x.type \in FileEventTypes
<1> DEFINE rs == Reconciliations
           type(r) == IF rs[r].trigger = 3 THEN "tool.batch_completed"
                      ELSE IF seal.status = "Failed" THEN "run.stop_failed"
                      ELSE "run.stop_observed"
           head(r) == <<Event(rs[r].trigger, type(r))>>
           body(r) == [i \in DOMAIN rs[r].entries |->
                          Event(rs[r].entries[i].fileEvent, "file.change_observed")]
           tail(r) == <<Event(rs[r].summary, "git.diff_computed")>>
           part == [r \in DOMAIN rs |-> head(r) \o body(r) \o tail(r)]
           n == Len(rs)
<1>1. IsSequence(rs) /\ \A r \in DOMAIN rs : IsSequence(rs[r].entries)
  BY ReconciledEntries
<1>2. FileEvents(rs) = FlattenSeq(part)
  BY DEF FileEvents
<1>3. n \in Nat /\ DOMAIN rs = 1 .. n
  BY <1>1, SequenceElements
<1>4. ASSUME NEW r \in DOMAIN rs
      PROVE  /\ IsSequence(head(r)) /\ IsSequence(body(r)) /\ IsSequence(tail(r))
             /\ \A x \in ToSet(head(r)) : x.type \in FileEventTypes
             /\ \A x \in ToSet(body(r)) : x.type \in FileEventTypes
             /\ \A x \in ToSet(tail(r)) : x.type \in FileEventTypes
  <2>1. IsSequence(head(r)) /\ ToSet(head(r)) = {Event(rs[r].trigger, type(r))}
    BY ShortSequences
  <2>2. IsSequence(tail(r)) /\ ToSet(tail(r)) = {Event(rs[r].summary, "git.diff_computed")}
    BY ShortSequences
  <2>3. IsSequence(body(r))
    <3>1. DOMAIN rs[r].entries = 1 .. Len(rs[r].entries) /\ Len(rs[r].entries) \in Nat
      BY <1>1, SequenceElements
    <3>2. body(r) = [i \in 1 .. Len(rs[r].entries) |-> body(r)[i]]
      BY <3>1
    <3> HIDE DEF body, rs
    <3> QED BY <3>1, <3>2, MappedIsSequence
  <2>4. /\ Event(rs[r].trigger, type(r)).type \in FileEventTypes
        /\ Event(rs[r].summary, "git.diff_computed").type \in FileEventTypes
        /\ \A i : Event(rs[r].entries[i].fileEvent, "file.change_observed").type \in FileEventTypes
    BY DEF Event, FileEventTypes
  <2>5. \A x \in ToSet(body(r)) : x.type \in FileEventTypes
    BY <2>4 DEF ToSet
  <2> HIDE DEF head, body, tail, type
  <2> QED BY <2>1, <2>2, <2>3, <2>4, <2>5
<1> HIDE DEF head, body, tail, n
<1>5. ASSUME NEW r \in DOMAIN rs
      PROVE  IsSequence(part[r]) /\ \A x \in ToSet(part[r]) : x.type \in FileEventTypes
  <2>1. part[r] = (head(r) \o body(r)) \o tail(r)
    OBVIOUS
  <2>2. IsSequence(head(r) \o body(r)) /\ ToSet(head(r) \o body(r)) = ToSet(head(r)) \cup ToSet(body(r))
    BY <1>4, JoinedIsSequence
  <2>3. IsSequence((head(r) \o body(r)) \o tail(r))
        /\ ToSet((head(r) \o body(r)) \o tail(r)) = ToSet(head(r) \o body(r)) \cup ToSet(tail(r))
    BY <1>4, <2>2, JoinedIsSequence
  <2> HIDE DEF part
  <2> QED BY <1>4, <2>1, <2>2, <2>3
<1>6. part = [r \in 1 .. n |-> part[r]]
  BY <1>3
<1> HIDE DEF part, rs
<1>7. Joinable(part, n)
  BY <1>3, <1>5, <1>6 DEF Joinable
<1>8. ToSet(FlattenSeq(part)) = UNION {ToSet(part[r]) : r \in 1 .. n}
  BY <1>7, JoinedSequences
<1> QED
  BY <1>2, <1>3, <1>5, <1>8 DEF rs

LEMMA FileEventsAreNoResults ==
    ASSUME RowsInv, seal # None
    PROVE  \A x \in ToSet(FileEvents(Reconciliations)) : ~IsBashResult(x)
BY TypesOfFileEvents DEF FileEventTypes, IsBashResult

LEMMA ResultsAreCommands ==
    ASSUME RowsInv, seal # None
    PROVE  BashResults(SourceEvents) = [i \in DOMAIN commands |-> ToolEvent(i)]
<1> DEFINE a == <<Event(1, "run.started"), Event(2, "user.prompt_submitted")>>
           c == [i \in DOMAIN commands |-> ToolEvent(i)]
           d == FileEvents(Reconciliations)
           e == IF seal.final = None THEN <<>>
                ELSE <<Event(7, "run.finalization_started"), Event(5, "snapshot.final_captured")>>
           z == <<Event(6, TerminalEventType(seal.status))>>
<1>1. SourceEvents = a \o c \o d \o e \o z
  BY DEF SourceEvents
<1>2. /\ IsSequence(a) /\ IsSequence(e) /\ IsSequence(z)
      /\ \A x \in ToSet(a) \cup ToSet(e) \cup ToSet(z) : ~IsBashResult(x)
  <2>1. \A x, y : IsSequence(<<x, y>>) /\ ToSet(<<x, y>>) = {x, y}
    BY ShortSequences DEF ToSet
  <2>2. TerminalEventType(seal.status) \notin {"tool.succeeded", "tool.failed"}
    BY ContentAssumption DEF RowsInv, RunStatuses, TerminalEventType
  <2>3. /\ ~IsBashResult(Event(1, "run.started")) /\ ~IsBashResult(Event(2, "user.prompt_submitted"))
        /\ ~IsBashResult(Event(7, "run.finalization_started"))
        /\ ~IsBashResult(Event(5, "snapshot.final_captured"))
        /\ ~IsBashResult(Event(6, TerminalEventType(seal.status)))
    BY <2>2, OtherEvents
  <2>4. IsSequence(a) /\ \A x \in ToSet(a) : ~IsBashResult(x)
    BY <2>1, <2>3
  <2>5. IsSequence(e) /\ \A x \in ToSet(e) : ~IsBashResult(x)
    BY <2>1, <2>3, ShortSequences
  <2>6. IsSequence(z) /\ \A x \in ToSet(z) : ~IsBashResult(x)
    BY <2>3, ShortSequences
  <2> QED BY <2>4, <2>5, <2>6
<1>3. IsSequence(d) /\ \A x \in ToSet(d) : ~IsBashResult(x)
  BY ReconciliationEvents, FileEventsAreNoResults
<1>4. IsSequence(c) /\ \A x \in ToSet(c) : IsBashResult(x)
  <2>1. DOMAIN commands = 1 .. Len(commands) /\ Len(commands) \in Nat
        /\ \A i \in DOMAIN commands : commands[i] \in Commands
    BY DEF RowsInv
  <2>2. c = [i \in 1 .. Len(commands) |-> c[i]]
    BY <2>1
  <2>3. \A i \in DOMAIN commands : IsBashResult(ToolEvent(i))
    BY <2>1, ContentAssumption DEF ToolEvent, IsBashResult
  <2>4. \A x \in ToSet(c) : IsBashResult(x)
    BY <2>3 DEF ToSet
  <2> HIDE DEF c
  <2> QED BY <2>1, <2>2, <2>4, MappedIsSequence
<1> HIDE DEF a, c, d, e, z
<1>5. IsSequence(a \o c) /\ BashResults(a \o c) = c
  BY <1>2, <1>4, JoinedIsSequence, OnlyResults
<1>6. IsSequence((a \o c) \o d) /\ BashResults((a \o c) \o d) = c
  BY <1>3, <1>5, JoinedIsSequence, NoFurtherResults
<1>7. IsSequence(((a \o c) \o d) \o e) /\ BashResults(((a \o c) \o d) \o e) = c
  BY <1>2, <1>6, JoinedIsSequence, NoFurtherResults
<1>8. BashResults((((a \o c) \o d) \o e) \o z) = c
  BY <1>2, <1>7, NoFurtherResults
<1> QED
  BY <1>1, <1>8 DEF c

(***************************************************************************)
(* What the evidence stage made of the command at place i.                 *)
(***************************************************************************)
LEMMA ObservedCommands ==
    ASSUME ContentInv, Made(verification)
    PROVE  /\ RowsInv /\ seal # None
           /\ DOMAIN verification.observations = DOMAIN commands
           /\ \A i \in DOMAIN commands :
                  /\ verification.observations[i] = Observation(AcceptedObservation(ToolEvent(i)))
                  /\ AcceptedObservation(ToolEvent(i)) # Refused
<1>1. /\ Made(classification) /\ verification = Extract(classification, SourceEvents)
      /\ verification # Refused
  BY DEF ContentInv, ChainInv, Made
<1>2. RowsInv /\ seal # None
  BY <1>1, ClassifiedDocument
<1>3. IsSequence(SourceEvents)
  BY <1>2, SourceEventsInOrder
<1> DEFINE c == [i \in DOMAIN commands |-> ToolEvent(i)]
<1>4. BashResults(SourceEvents) = c
  BY <1>2, ResultsAreCommands
<1>5. Len(commands) \in Nat /\ DOMAIN commands = 1 .. Len(commands) /\ Len(c) = Len(commands)
  <2>1. Len(commands) \in Nat /\ DOMAIN commands = 1 .. Len(commands)
    BY <1>2 DEF RowsInv
  <2>2. c = [i \in 1 .. Len(commands) |-> c[i]]
    BY <2>1
  <2> HIDE DEF c
  <2> QED BY <2>1, <2>2, MappedIsSequence
<1>6. \A i \in DOMAIN commands : c[i] = ToolEvent(i)
  OBVIOUS
<1> HIDE DEF c
<1>7. /\ IsSequence(verification.observations)
      /\ Len(verification.observations) = Len(commands)
      /\ \A i \in 1 .. Len(commands) :
             verification.observations[i] = Observation(AcceptedObservation(c[i]))
  BY <1>1, <1>3, <1>4, <1>5, ExtractedObservations
<1>8. DOMAIN verification.observations = DOMAIN commands
  BY <1>5, <1>7, SequenceElements
<1> DEFINE accepted == [i \in DOMAIN c |-> AcceptedObservation(c[i])]
<1>9. Refused \notin ToSet(accepted)
  BY <1>1, <1>4 DEF Extract
<1>10. DOMAIN c = DOMAIN commands
  BY DEF c
<1>11. \A i \in DOMAIN commands : AcceptedObservation(ToolEvent(i)) # Refused
  BY <1>6, <1>9, <1>10 DEF ToSet
<1> QED
  BY <1>2, <1>5, <1>6, <1>7, <1>8, <1>11

-----------------------------------------------------------------------------
(***************************************************************************)
(* The reduction of the semantic input: what it drops it counts, and what  *)
(* must stay stays.  First, a sequence without the places dropped.         *)
(***************************************************************************)
KeptUpTo(i, dropped) == {j \in 1 .. i : j \notin dropped}
KeptRank(i, dropped) == Cardinality(KeptUpTo(i, dropped))

LEMMA KeptCounts ==
    ASSUME NEW dropped
    PROVE  /\ KeptRank(0, dropped) = 0
           /\ \A i \in Nat : IsFiniteSet(KeptUpTo(i, dropped)) /\ KeptRank(i, dropped) \in Nat
           /\ \A i \in Nat \ {0} :
                  KeptRank(i, dropped) = IF i \in dropped THEN KeptRank(i - 1, dropped)
                                         ELSE KeptRank(i - 1, dropped) + 1
<1>1. KeptRank(0, dropped) = 0
  <2>1. KeptUpTo(0, dropped) = {}
    BY DEF KeptUpTo
  <2> QED BY <2>1, FS_EmptySet DEF KeptRank
<1>2. ASSUME NEW i \in Nat
      PROVE  IsFiniteSet(KeptUpTo(i, dropped)) /\ KeptRank(i, dropped) \in Nat
  <2>1. IsFiniteSet(1 .. i)
    BY FS_Interval
  <2>2. KeptUpTo(i, dropped) \in SUBSET (1 .. i)
    BY DEF KeptUpTo
  <2> QED BY <2>1, <2>2, FS_Subset, FS_CardinalityType DEF KeptRank
<1>3. ASSUME NEW i \in Nat \ {0}
      PROVE  KeptRank(i, dropped) = IF i \in dropped THEN KeptRank(i - 1, dropped)
                                    ELSE KeptRank(i - 1, dropped) + 1
  <2>1. i - 1 \in Nat /\ 1 .. i = (1 .. (i - 1)) \cup {i} /\ i \notin 1 .. (i - 1)
    OBVIOUS
  <2>2. CASE i \in dropped
    <3>1. KeptUpTo(i, dropped) = KeptUpTo(i - 1, dropped)
      BY <2>1, <2>2 DEF KeptUpTo
    <3> QED BY <2>2, <3>1 DEF KeptRank
  <2>3. CASE i \notin dropped
    <3>1. KeptUpTo(i, dropped) = KeptUpTo(i - 1, dropped) \cup {i}
      BY <2>1, <2>3 DEF KeptUpTo
    <3>2. i \notin KeptUpTo(i - 1, dropped) /\ IsFiniteSet(KeptUpTo(i - 1, dropped))
      BY <1>2, <2>1 DEF KeptUpTo
    <3> QED BY <2>3, <3>1, <3>2, FS_AddElement DEF KeptRank
  <2> QED BY <2>2, <2>3
<1> QED
  BY <1>1, <1>2, <1>3

LEMMA KeptRanks ==
    ASSUME NEW n \in Nat, NEW dropped \in SUBSET (1 .. n)
    PROVE  /\ n - Cardinality(dropped) \in Nat
           /\ \A i \in (1 .. n) \ dropped :
                  KeptRank(i, dropped) \in 1 .. (n - Cardinality(dropped))
           /\ \A i, j \in (1 .. n) \ dropped :
                  KeptRank(i, dropped) = KeptRank(j, dropped) => i = j
           /\ \A k \in 1 .. (n - Cardinality(dropped)) :
                  \E i \in (1 .. n) \ dropped : KeptRank(i, dropped) = k
<1> DEFINE m == n - Cardinality(dropped)
           rank(i) == KeptRank(i, dropped)
<1>1. /\ rank(0) = 0 /\ \A i \in Nat : rank(i) \in Nat
      /\ \A i \in Nat \ {0} : rank(i) = IF i \in dropped THEN rank(i - 1) ELSE rank(i - 1) + 1
  BY KeptCounts
<1>2. rank(n) = m /\ m \in Nat
  <2>1. IsFiniteSet(1 .. n) /\ Cardinality(1 .. n) = n
    <3>1. /\ IsFiniteSet(1 .. n)
          /\ Cardinality(1 .. n) = IF 1 > n THEN 0 ELSE n - 1 + 1
      BY FS_Interval
    <3> QED BY <3>1
  <2>2. KeptUpTo(n, dropped) = (1 .. n) \ dropped /\ (1 .. n) \cap dropped = dropped
    BY DEF KeptUpTo
  <2>3. Cardinality((1 .. n) \ dropped) = Cardinality(1 .. n) - Cardinality((1 .. n) \cap dropped)
    BY <2>1, FS_Difference
  <2>4. rank(n) = n - Cardinality(dropped)
    BY <2>1, <2>2, <2>3 DEF KeptRank
  <2> QED
    BY <1>1, <2>4
<1> HIDE DEF m, rank
<1>3. \A i, j \in 0 .. n : i <= j => rank(i) <= rank(j)
  <2> SUFFICES ASSUME NEW i \in 0 .. n
               PROVE  \A j \in 0 .. n : i <= j => rank(i) <= rank(j)
    OBVIOUS
  <2> DEFINE K == {k \in Nat : rank(i) <= rank(i + k)}
  <2>1. 0 \in K
    BY <1>1
  <2>2. ASSUME NEW k \in Nat, k \in K
        PROVE  k + 1 \in K
    <3>1. i + (k + 1) \in Nat \ {0} /\ (i + (k + 1)) - 1 = i + k /\ i + k \in Nat
      OBVIOUS
    <3>2. rank(i + (k + 1)) = rank(i + k) \/ rank(i + (k + 1)) = rank(i + k) + 1
      BY <1>1, <3>1
    <3>3. rank(i + k) \in Nat /\ rank(i) \in Nat /\ rank(i) <= rank(i + k)
      BY <1>1, <2>2, <3>1
    <3>4. rank(i) <= rank(i + (k + 1))
      BY <3>2, <3>3
    <3> QED BY <3>4
  <2>3. Nat \subseteq K
    <3> HIDE DEF K
    <3> QED BY <2>1, <2>2, NaturalSteps
  <2>4. ASSUME NEW j \in 0 .. n, i <= j
        PROVE  rank(i) <= rank(j)
    <3>1. j - i \in Nat /\ i + (j - i) = j
      BY <2>4
    <3>2. j - i \in K
      <4> HIDE DEF K
      <4> QED BY <2>3, <3>1
    <3> QED BY <3>1, <3>2
  <2> QED BY <2>4
<1>4. ASSUME NEW i \in 0 .. n, NEW j \in (1 .. n) \ dropped, i < j
      PROVE  rank(i) < rank(j)
  <2>1. j \in Nat \ {0} /\ j - 1 \in 0 .. n /\ i <= j - 1
    BY <1>4
  <2>2. rank(j) = rank(j - 1) + 1 /\ rank(i) <= rank(j - 1)
    BY <1>1, <1>3, <2>1
  <2>3. rank(i) \in Nat /\ rank(j - 1) \in Nat
    BY <1>1, <2>1
  <2> QED BY <2>2, <2>3
<1>5. ASSUME NEW i \in (1 .. n) \ dropped
      PROVE  rank(i) \in 1 .. m
  <2>1. 0 \in 0 .. n /\ 0 < i /\ i \in 0 .. n /\ n \in 0 .. n /\ i <= n
    OBVIOUS
  <2>2. rank(0) < rank(i) /\ rank(i) <= rank(n)
    BY <1>3, <1>4, <2>1
  <2> QED BY <1>1, <1>2, <2>2
<1>6. ASSUME NEW i \in (1 .. n) \ dropped, NEW j \in (1 .. n) \ dropped, rank(i) = rank(j)
      PROVE  i = j
  <2>1. i \in 0 .. n /\ j \in 0 .. n /\ rank(i) \in Nat /\ rank(j) \in Nat
    BY <1>1
  <2>2. ~(i < j) /\ ~(j < i)
    BY <1>4, <1>6, <2>1
  <2> QED BY <2>1, <2>2
<1>7. ASSUME NEW k \in 1 .. m
      PROVE  \E i \in (1 .. n) \ dropped : rank(i) = k
  <2> DEFINE T == {i \in Nat : i <= n /\ k <= rank(i)}
  <2>1. n \in T
    BY <1>2
  <2>2. PICK i \in T : \A h \in T : i <= h
    <3>1. T \in SUBSET Nat /\ T # {}
      BY <2>1
    <3> HIDE DEF T
    <3> QED BY <3>1, LeastNatural
  <2>3. i \in Nat /\ i <= n /\ k <= rank(i) /\ i # 0
    BY <1>1, <1>2
  <2>4. i - 1 \in Nat /\ ~(k <= rank(i - 1))
    BY <2>2, <2>3
  <2>5. rank(i - 1) \in Nat /\ rank(i) \in Nat /\ k \in Nat
    BY <1>1, <1>2, <2>3, <2>4
  <2>6. i \notin dropped /\ rank(i) = rank(i - 1) + 1
    BY <1>1, <2>3, <2>4, <2>5
  <2>7. rank(i) = k /\ i \in (1 .. n) \ dropped
    BY <2>3, <2>4, <2>5, <2>6
  <2> QED BY <2>7
<1> QED
  BY <1>2, <1>5, <1>6, <1>7 DEF m, rank

\* Nothing is there twice.
ToldApart(s) == \A i, j \in DOMAIN s : s[i] = s[j] => i = j

\* The places of the summaries that go.
DroppedPlaces(s, priority, n) ==
    LET removable == {i \in DOMAIN s : DropPriority(s[i]) = priority}
    IN  {i \in removable : Cardinality({j \in removable : j > i}) < n}

LEMMA KeptSummaries ==
    ASSUME NEW s, IsSequence(s), NEW priority, NEW n
    PROVE  /\ IsSequence(DropSummaries(s, priority, n))
           /\ ToSet(DropSummaries(s, priority, n)) \subseteq ToSet(s)
           /\ \A i \in DOMAIN s : DropPriority(s[i]) # priority =>
                  s[i] \in ToSet(DropSummaries(s, priority, n))
           /\ ToldApart(s) => ToldApart(DropSummaries(s, priority, n))
<1> DEFINE dropped == DroppedPlaces(s, priority, n)
           m == Len(s) - Cardinality(dropped)
           place(k) == CHOOSE i \in DOMAIN s : i \notin dropped /\ KeptRank(i, dropped) = k
           rest == [k \in 1 .. m |-> s[place(k)]]
<1>1. Len(s) \in Nat /\ DOMAIN s = 1 .. Len(s)
  BY SequenceElements
<1>2. dropped \in SUBSET (1 .. Len(s))
  BY <1>1 DEF DroppedPlaces
<1>3. \A i \in dropped : DropPriority(s[i]) = priority
  BY DEF DroppedPlaces
<1>4. DropSummaries(s, priority, n) = rest
  BY DEF DropSummaries, DroppedPlaces, KeptRank, KeptUpTo
<1> HIDE DEF dropped
<1>5. /\ m \in Nat
      /\ \A i \in (1 .. Len(s)) \ dropped : KeptRank(i, dropped) \in 1 .. m
      /\ \A i, j \in (1 .. Len(s)) \ dropped :
             KeptRank(i, dropped) = KeptRank(j, dropped) => i = j
      /\ \A k \in 1 .. m : \E i \in (1 .. Len(s)) \ dropped : KeptRank(i, dropped) = k
  BY <1>1, <1>2, KeptRanks
<1> HIDE DEF m
<1>6. \A k \in 1 .. m : place(k) \in DOMAIN s /\ place(k) \notin dropped
                        /\ KeptRank(place(k), dropped) = k
  BY <1>1, <1>5
<1> HIDE DEF place
<1>7. IsSequence(rest)
  <2>1. rest = [k \in 1 .. m |-> rest[k]]
    OBVIOUS
  <2> HIDE DEF rest
  <2> QED BY <1>5, <2>1, MappedIsSequence
<1>8. ToSet(rest) \subseteq ToSet(s)
  BY <1>6 DEF ToSet
<1>9. ASSUME NEW i \in DOMAIN s, DropPriority(s[i]) # priority
      PROVE  s[i] \in ToSet(rest)
  <2>1. i \in (1 .. Len(s)) \ dropped
    BY <1>1, <1>3, <1>9
  <2> DEFINE k == KeptRank(i, dropped)
  <2>2. k \in 1 .. m
    BY <1>5, <2>1
  <2>3. place(k) \in (1 .. Len(s)) \ dropped /\ KeptRank(place(k), dropped) = k
    BY <1>1, <1>6, <2>2
  <2>4. place(k) = i
    BY <1>5, <2>1, <2>3
  <2> HIDE DEF k
  <2>5. k \in DOMAIN rest /\ rest[k] = s[i]
    BY <2>2, <2>4
  <2> QED BY <2>5 DEF ToSet
<1>10. ASSUME ToldApart(s)
       PROVE  ToldApart(rest)
  <2> SUFFICES ASSUME NEW i \in DOMAIN rest, NEW j \in DOMAIN rest, rest[i] = rest[j]
               PROVE  i = j
    BY DEF ToldApart
  <2>1. i \in 1 .. m /\ j \in 1 .. m /\ s[place(i)] = s[place(j)]
    OBVIOUS
  <2>2. place(i) = place(j)
    BY <1>6, <1>10, <2>1 DEF ToldApart
  <2>3. KeptRank(place(i), dropped) = i /\ KeptRank(place(j), dropped) = j
    BY <1>6, <2>1
  <2> QED BY <2>2, <2>3
<1> QED
  BY <1>4, <1>7, <1>8, <1>9, <1>10

(***************************************************************************)
(* The weight of a document is a number, and a chunk is never empty.       *)
(***************************************************************************)
LEMMA SupportsAddUp ==
    ASSUME NEW s, IsSequence(s), \A x \in ToSet(s) : x.support \in Nat
    PROVE  FoldLeft(LAMBDA n, x : n + x.support, 0, s) \in Nat
<1> DEFINE n == Len(s)
           Body(f) == [u \in SUBSET (DOMAIN s) |->
                          IF u = {} THEN 0 ELSE f[u \ {Max(u)}] + s[Max(u)].support]
           it == CHOOSE f : f = Body(f)
           step == [p \in Nat \X (1 .. n) |-> p[1] + s[p[2]].support]
<1>0. n \in Nat /\ DOMAIN s = 1 .. n /\ \A i \in 1 .. n : s[i].support \in Nat
  BY SequenceElements DEF ToSet
<1>1. FoldLeft(LAMBDA k, x : k + x.support, 0, s) = it[1 .. n]
  BY <1>0 DEF FoldLeft, MapThenFoldSet
<1>2. \E f : f = Body(f)
  <2>1. step \in [Nat \X (1 .. n) -> Nat]
    BY <1>0
  <2>2. PICK f \in [SUBSET (1 .. n) -> Nat] : IsLeftFold(f, n, 0, step)
    <3> HIDE DEF step, n
    <3> QED BY <1>0, <2>1, LeftFoldExists
  <2>3. ASSUME NEW u \in SUBSET (1 .. n)
        PROVE  f[u] = IF u = {} THEN 0 ELSE f[u \ {Max(u)}] + s[Max(u)].support
    <3>1. CASE u = {}
      <4> HIDE DEF step
      <4> QED BY <2>2, <3>1 DEF IsLeftFold
    <3>2. CASE u # {}
      <4>1. Max(u) \in 1 .. n /\ u \ {Max(u)} \in SUBSET (1 .. n) /\ f[u \ {Max(u)}] \in Nat
        BY <1>0, <3>2, MaxIn
      <4>2. f[u] = step[<<f[u \ {Max(u)}], Max(u)>>]
        <5> HIDE DEF step
        <5> QED BY <2>2, <3>2 DEF IsLeftFold
      <4>3. step[<<f[u \ {Max(u)}], Max(u)>>] = f[u \ {Max(u)}] + s[Max(u)].support
        BY <4>1
      <4> QED BY <3>2, <4>2, <4>3
    <3> QED BY <3>1, <3>2
  <2>4. f = Body(f)
    <3> HIDE DEF step
    <3>1. DOMAIN f = SUBSET (1 .. n) /\ f = [u \in SUBSET (1 .. n) |-> f[u]]
      OBVIOUS
    <3> QED BY <1>0, <2>3, <3>1
  <2> HIDE DEF Body
  <2> QED BY <2>4
<1>3. it = Body(it)
  <2> HIDE DEF Body
  <2> QED BY <1>2
<1> HIDE DEF it
<1>4. it[{}] = 0
  BY <1>3
<1>5. ASSUME NEW k \in 0 .. (n - 1), it[1 .. k] \in Nat
      PROVE  it[1 .. (k + 1)] \in Nat
  <2>1. k + 1 \in 1 .. n /\ (k + 1) - 1 = k
    BY <1>0
  <2>2. Max(1 .. (k + 1)) = k + 1 /\ (1 .. (k + 1)) \ {k + 1} = 1 .. k /\ 1 .. (k + 1) # {}
    <3>1. k \in Nat
      OBVIOUS
    <3> QED BY <3>1, MaxInterval
  <2>3. 1 .. (k + 1) \in SUBSET (DOMAIN s)
    BY <1>0, <2>1
  <2>4. it[1 .. (k + 1)] = it[1 .. k] + s[k + 1].support
    BY <1>3, <2>2, <2>3
  <2> QED BY <1>0, <1>5, <2>1, <2>4
<1>6. it[1 .. n] \in Nat
  <2> HIDE DEF n
  <2>1. it[{}] \in Nat
    BY <1>4
  <2> QED BY <1>0, <1>5, <2>1, PrefixSteps
<1> QED
  BY <1>1, <1>6

LEMMA DivisionIsPositive == \A a \in Nat, b \in Nat \ {0} : a >= b => a \div b >= 1
OBVIOUS

LEMMA ChunksAreNotEmpty ==
    ASSUME NEW n \in Nat, NEW w \in Nat, w # 0
    PROVE  ChunkOf(n, w) \in Nat /\ ChunkOf(n, w) >= 1
<1> DEFINE over == IF w > InputBytes THEN w - InputBytes ELSE 1
           share == n * over
<1>1. over \in Nat
  BY InputLimits
<1>2. ChunkOf(n, w) = IF share <= w THEN 1 ELSE (share + w - 1) \div w
  BY DEF ChunkOf
<1> HIDE DEF over
<1>3. share \in Nat
  BY <1>1
<1> HIDE DEF share
<1>4. CASE ~(share <= w)
  <2>1. share + w - 1 \in Nat /\ share + w - 1 >= w /\ w \in Nat \ {0}
    BY <1>3, <1>4
  <2>2. (share + w - 1) \div w \in Nat /\ (share + w - 1) \div w >= 1
    BY <2>1, DivisionIsNatural, DivisionIsPositive
  <2> QED BY <1>2, <1>4, <2>2
<1> QED
  BY <1>2, <1>4

(***************************************************************************)
(* What a document can become when it is cut down: parts of what it was,   *)
(* something counted when anything is gone, and every summary of the run,  *)
(* of its end, of a limitation and of a gap.                               *)
(***************************************************************************)
Contents(c) ==
    [summaries : Seq(ToSet(c.summaries)), relations : Seq(ToSet(c.relations)),
     excerpts : Seq(ToSet(c.excerpts)),
     droppedSummaries : Nat, droppedRelations : Nat, droppedExcerpts : Nat]

MustStay(c, x) ==
    \A i \in DOMAIN c.summaries :
        DropPriority(c.summaries[i]) = 0 => c.summaries[i] \in ToSet(x.summaries)

Reductions(c) == {x \in Contents(c) : (x = c \/ Truncated(x)) /\ MustStay(c, x)}

LEMMA ContentsHaveWeight ==
    ASSUME NEW c, \A s \in ToSet(c.summaries) : s.support \in Nat, NEW x \in Contents(c)
    PROVE  Weight(x) \in Nat
<1> DEFINE sum == FoldLeft(LAMBDA n, s : n + s.support, 0, x.summaries)
<1>1. /\ x.summaries \in Seq(ToSet(c.summaries)) /\ Len(x.summaries) \in Nat
      /\ Len(x.relations) \in Nat /\ Len(x.excerpts) \in Nat
  BY DEF Contents
<1>2. \A s \in ToSet(x.summaries) : s.support \in Nat
  BY <1>1 DEF ToSet
<1>3. IsSequence(x.summaries)
  BY <1>1 DEF IsSequence, ToSet
<1>4. sum \in Nat
  BY <1>2, <1>3, SupportsAddUp
<1>5. Weight(x) = 3 * Len(x.summaries) + sum + 3 * Len(x.relations) + 8 * Len(x.excerpts)
  BY DEF Weight
<1> DEFINE a == Len(x.summaries)
           b == Len(x.relations)
           e == Len(x.excerpts)
<1>6. a \in Nat /\ b \in Nat /\ e \in Nat
  BY <1>1
<1> HIDE DEF sum, a, b, e
<1>7. 3 * a + sum + 3 * b + 8 * e \in Nat
  BY <1>4, <1>6
<1> QED
  BY <1>5, <1>7 DEF a, b, e

LEMMA ShorterSequences ==
    ASSUME NEW V, NEW s \in Seq(V), NEW n \in Nat
    PROVE  DropLast(s, n) \in Seq(V)
<1>1. Len(s) \in Nat /\ Len(s) - Limited(n, Len(s)) \in 0 .. Len(s)
  BY DEF Limited
<1> DEFINE m == Len(s) - Limited(n, Len(s))
<1> HIDE DEF m
<1>2. m \in 0 .. Len(s) => SubSeq(s, 1, m) \in Seq(V)
  OBVIOUS
<1> QED
  BY <1>1, <1>2 DEF DropLast, m

LEMMA DroppingCounts ==
    ASSUME NEW c, \A s \in ToSet(c.summaries) : s.support \in Nat,
           NEW x \in Reductions(c), ~Fits(x)
    PROVE  DropSome(x) \in Reductions(c)
<1> DEFINE w == Weight(x)
<1>1. x \in Contents(c) /\ MustStay(c, x)
  BY DEF Reductions
<1>2. w \in Nat /\ w # 0
  <2>1. w \in Nat
    BY <1>1, ContentsHaveWeight
  <2>2. ~(w <= InputBytes) /\ InputBytes \in Nat
    BY InputLimits DEF Fits
  <2> QED BY <2>1, <2>2
<1> HIDE DEF w
<1>3. /\ x.summaries \in Seq(ToSet(c.summaries)) /\ x.relations \in Seq(ToSet(c.relations))
      /\ x.excerpts \in Seq(ToSet(c.excerpts))
      /\ x.droppedSummaries \in Nat /\ x.droppedRelations \in Nat /\ x.droppedExcerpts \in Nat
  BY <1>1 DEF Contents
<1>4. CASE x.relations # <<>>
  <2> DEFINE n == ChunkOf(Len(x.relations), w)
             y == [x EXCEPT !.relations = DropLast(@, n), !.droppedRelations = @ + n]
  <2>1. DropSome(x) = y
    BY <1>4 DEF DropSome, w
  <2>2. n \in Nat /\ n >= 1
    <3>1. Len(x.relations) \in Nat
      BY <1>3
    <3> QED BY <1>2, <3>1, ChunksAreNotEmpty
  <2> HIDE DEF n
  <2>3. /\ DropLast(x.relations, n) \in Seq(ToSet(c.relations))
        /\ x.droppedRelations + n \in Nat
    <3>1. DropLast(x.relations, n) \in Seq(ToSet(c.relations))
      BY <1>3, <2>2, ShorterSequences
    <3>2. x.droppedRelations + n \in Nat
      BY <1>3, <2>2
    <3> QED BY <3>1, <3>2
  <2>4. y \in Contents(c)
    BY <1>1, <1>3, <2>3 DEF Contents
  <2>5. /\ y.droppedSummaries = x.droppedSummaries /\ y.droppedRelations = x.droppedRelations + n
        /\ y.droppedExcerpts = x.droppedExcerpts /\ y.summaries = x.summaries
    BY <1>1 DEF Contents
  <2> HIDE DEF y
  <2>6. Truncated(y)
    BY <1>3, <2>2, <2>5 DEF Truncated
  <2>7. MustStay(c, y)
    BY <1>1, <2>5 DEF MustStay
  <2> QED BY <2>1, <2>4, <2>6, <2>7 DEF Reductions
<1>5. CASE x.relations = <<>> /\ x.excerpts # <<>>
  <2> DEFINE n == ChunkOf(Len(x.excerpts), w)
             y == [x EXCEPT !.excerpts = DropLast(@, n), !.droppedExcerpts = @ + n]
  <2>1. DropSome(x) = y
    BY <1>5 DEF DropSome, w
  <2>2. n \in Nat /\ n >= 1
    <3>1. Len(x.excerpts) \in Nat
      BY <1>3
    <3> QED BY <1>2, <3>1, ChunksAreNotEmpty
  <2> HIDE DEF n
  <2>3. /\ DropLast(x.excerpts, n) \in Seq(ToSet(c.excerpts))
        /\ x.droppedExcerpts + n \in Nat
    <3>1. DropLast(x.excerpts, n) \in Seq(ToSet(c.excerpts))
      BY <1>3, <2>2, ShorterSequences
    <3>2. x.droppedExcerpts + n \in Nat
      BY <1>3, <2>2
    <3> QED BY <3>1, <3>2
  <2>4. y \in Contents(c)
    BY <1>1, <1>3, <2>3 DEF Contents
  <2>5. /\ y.droppedSummaries = x.droppedSummaries /\ y.droppedRelations = x.droppedRelations
        /\ y.droppedExcerpts = x.droppedExcerpts + n /\ y.summaries = x.summaries
    BY <1>1 DEF Contents
  <2> HIDE DEF y
  <2>6. Truncated(y)
    BY <1>3, <2>2, <2>5 DEF Truncated
  <2>7. MustStay(c, y)
    BY <1>1, <2>5 DEF MustStay
  <2> QED BY <2>1, <2>4, <2>6, <2>7 DEF Reductions
<1>6. ASSUME NEW priority \in {1, 2}, Removable(x, priority) > 0
      PROVE  [x EXCEPT !.summaries = DropSummaries(@, priority, ChunkOf(Removable(x, priority), w)),
                       !.droppedSummaries =
                           @ + Limited(ChunkOf(Removable(x, priority), w), Removable(x, priority))]
                \in Reductions(c)
  <2> DEFINE r == Removable(x, priority)
             n == ChunkOf(r, w)
             l == Limited(n, r)
             shorter == DropSummaries(x.summaries, priority, n)
             y == [x EXCEPT !.summaries = DropSummaries(@, priority, n),
                            !.droppedSummaries = @ + l]
  <2>0. IsSequence(x.summaries)
    BY <1>3 DEF IsSequence, ToSet
  <2>1. r \in Nat
    <3>1. IsFiniteSet(DOMAIN x.summaries)
      BY <2>0, SequenceElements
    <3>2. {i \in DOMAIN x.summaries : DropPriority(x.summaries[i]) = priority}
              \in SUBSET (DOMAIN x.summaries)
      OBVIOUS
    <3> QED BY <3>1, <3>2, FS_Subset, FS_CardinalityType DEF Removable
  <2>2. n \in Nat /\ n >= 1
    BY <1>2, <2>1, ChunksAreNotEmpty
  <2> HIDE DEF n
  <2>3. l \in Nat /\ l >= 1
    BY <1>6, <2>1, <2>2 DEF Limited
  <2> HIDE DEF l, r
  <2>4. /\ IsSequence(shorter) /\ ToSet(shorter) \subseteq ToSet(x.summaries)
        /\ \A i \in DOMAIN x.summaries : DropPriority(x.summaries[i]) # priority =>
               x.summaries[i] \in ToSet(shorter)
    BY <2>0, KeptSummaries
  <2>5. shorter \in Seq(ToSet(c.summaries))
    <3>1. ToSet(x.summaries) \subseteq ToSet(c.summaries)
      BY <1>3 DEF ToSet
    <3>2. ToSet(shorter) \subseteq ToSet(c.summaries) /\ shorter \in Seq(ToSet(shorter))
      BY <2>4, <3>1 DEF IsSequence
    <3> HIDE DEF shorter
    <3> QED BY <3>2
  <2>6. /\ y \in Contents(c) /\ y.summaries = shorter
        /\ y.droppedSummaries = x.droppedSummaries + l
        /\ y.droppedRelations = x.droppedRelations /\ y.droppedExcerpts = x.droppedExcerpts
    <3>1. y.summaries = shorter /\ y.droppedSummaries = x.droppedSummaries + l
      BY <1>1 DEF Contents
    <3>2. /\ y.droppedRelations = x.droppedRelations /\ y.droppedExcerpts = x.droppedExcerpts
          /\ y.relations = x.relations /\ y.excerpts = x.excerpts
      BY <1>1 DEF Contents
    <3>3. x.droppedSummaries + l \in Nat
      BY <1>3, <2>3
    <3> HIDE DEF shorter
    <3>4. y \in Contents(c)
      BY <1>1, <1>3, <2>5, <3>3 DEF Contents, shorter
    <3> QED BY <3>1, <3>2, <3>4
  <2> HIDE DEF y, shorter
  <2>7. Truncated(y)
    BY <1>3, <2>3, <2>6 DEF Truncated
  <2>8. MustStay(c, y)
    <3>1. ASSUME NEW i \in DOMAIN c.summaries, DropPriority(c.summaries[i]) = 0
          PROVE  c.summaries[i] \in ToSet(shorter)
      <4>1. PICK j \in DOMAIN x.summaries : x.summaries[j] = c.summaries[i]
        BY <1>1, <3>1 DEF MustStay, ToSet
      <4>2. DropPriority(x.summaries[j]) # priority
        BY <3>1, <4>1
      <4> QED BY <2>4, <4>1, <4>2
    <3> QED BY <2>6, <3>1 DEF MustStay
  <2>9. y \in Reductions(c)
    BY <2>6, <2>7, <2>8 DEF Reductions
  <2> QED BY <2>9 DEF y, l, n, r
<1>7. CASE x.relations = <<>> /\ x.excerpts = <<>>
  <2>1. CASE Removable(x, 2) > 0
    <3>1. DropSome(x) = [x EXCEPT
             !.summaries = DropSummaries(@, 2, ChunkOf(Removable(x, 2), w)),
             !.droppedSummaries = @ + Limited(ChunkOf(Removable(x, 2), w), Removable(x, 2))]
      BY <1>7, <2>1 DEF DropSome, w
    <3> QED BY <1>6, <2>1, <3>1
  <2>2. CASE ~(Removable(x, 2) > 0) /\ Removable(x, 1) > 0
    <3>1. DropSome(x) = [x EXCEPT
             !.summaries = DropSummaries(@, 1, ChunkOf(Removable(x, 1), w)),
             !.droppedSummaries = @ + Limited(ChunkOf(Removable(x, 1), w), Removable(x, 1))]
      BY <1>7, <2>2 DEF DropSome, w
    <3> QED BY <1>6, <2>2, <3>1
  <2>3. CASE ~(Removable(x, 2) > 0) /\ ~(Removable(x, 1) > 0)
    BY <1>7, <2>3 DEF DropSome
  <2> QED BY <2>1, <2>2, <2>3
<1> QED
  BY <1>4, <1>5, <1>7

\* What holds of the first cut and outlives a round of the loop holds at its end.
LEMMA ReductionKeeps ==
    ASSUME NEW c, c \in Contents(c), NEW V, c \in V,
           \A x \in V : ~Fits(x) => DropSome(x) \in V
    PROVE  Reduced(c) \in V
<1> DEFINE n == Len(c.summaries) + Len(c.relations) + Len(c.excerpts) + 4
           turns == [i \in 1 .. n |-> i]
           Cut(x) == IF Fits(x) THEN x ELSE DropSome(x)
           Body(f) == [u \in SUBSET (DOMAIN turns) |-> IF u = {} THEN c ELSE Cut(f[u \ {Max(u)}])]
           it == CHOOSE f : f = Body(f)
           step == [p \in V \X (1 .. n) |-> Cut(p[1])]
<1>0. n \in Nat
  <2> DEFINE a == Len(c.summaries)
             b == Len(c.relations)
             e == Len(c.excerpts)
  <2>1. a \in Nat /\ b \in Nat /\ e \in Nat
    BY DEF Contents
  <2> HIDE DEF a, b, e
  <2>2. a + b + e + 4 \in Nat
    BY <2>1
  <2> QED BY <2>2 DEF a, b, e
<1>1. Reduced(c) = it[1 .. n]
  <2>1. DOMAIN turns = 1 .. n
    OBVIOUS
  <2> QED BY <2>1 DEF Reduced, FoldLeft, MapThenFoldSet
<1> HIDE DEF n
<1>2. \A x \in V : Cut(x) \in V
  OBVIOUS
<1>3. PICK f \in [SUBSET (1 .. n) -> V] : IsLeftFold(f, n, c, step)
  <2>1. step \in [V \X (1 .. n) -> V]
    <3> HIDE DEF Cut
    <3> QED BY <1>2
  <2> HIDE DEF step
  <2> QED BY <1>0, <2>1, LeftFoldExists
<1>4. f = Body(f)
  <2>1. ASSUME NEW u \in SUBSET (1 .. n)
        PROVE  f[u] = IF u = {} THEN c ELSE Cut(f[u \ {Max(u)}])
    <3>1. CASE u = {}
      <4> HIDE DEF step
      <4> QED BY <1>3, <3>1 DEF IsLeftFold
    <3>2. CASE u # {}
      <4>1. Max(u) \in 1 .. n /\ u \ {Max(u)} \in SUBSET (1 .. n) /\ f[u \ {Max(u)}] \in V
        BY <1>0, <1>3, <3>2, MaxIn
      <4>2. f[u] = step[<<f[u \ {Max(u)}], Max(u)>>]
        <5> HIDE DEF step
        <5> QED BY <1>3, <3>2 DEF IsLeftFold
      <4>3. step[<<f[u \ {Max(u)}], Max(u)>>] = Cut(f[u \ {Max(u)}])
        <5> HIDE DEF Cut
        <5> QED BY <4>1
      <4> QED BY <3>2, <4>2, <4>3
    <3> QED BY <3>1, <3>2
  <2> HIDE DEF step, Cut
  <2>2. DOMAIN f = SUBSET (1 .. n) /\ f = [u \in SUBSET (1 .. n) |-> f[u]]
    BY <1>3
  <2>3. DOMAIN turns = 1 .. n
    OBVIOUS
  <2> QED BY <2>1, <2>2, <2>3
<1>5. it = Body(it)
  <2> HIDE DEF Body
  <2> QED BY <1>4
<1> HIDE DEF it, Cut
<1>6. it[{}] \in V
  <2>1. it[{}] = c
    BY <1>5
  <2> QED BY <2>1
<1>7. ASSUME NEW k \in 0 .. (n - 1), it[1 .. k] \in V
      PROVE  it[1 .. (k + 1)] \in V
  <2>1. k \in Nat /\ k + 1 \in 1 .. n
    BY <1>0
  <2>2. Max(1 .. (k + 1)) = k + 1 /\ (1 .. (k + 1)) \ {k + 1} = 1 .. k /\ 1 .. (k + 1) # {}
    BY <2>1, MaxInterval
  <2>3. 1 .. (k + 1) \in SUBSET (DOMAIN turns)
    BY <1>0, <2>1
  <2>4. it[1 .. (k + 1)] = Cut(it[1 .. k])
    BY <1>5, <2>2, <2>3
  <2> QED BY <1>2, <1>7, <2>4
<1>8. it[1 .. n] \in V
  <2> QED BY <1>0, <1>6, <1>7, PrefixSteps
<1> QED
  BY <1>1, <1>8

LEMMA ReducedDocument ==
    ASSUME NEW c, c \in Reductions(c), \A s \in ToSet(c.summaries) : s.support \in Nat
    PROVE  Reduced(c) \in Reductions(c)
<1> DEFINE V == Reductions(c)
<1>1. c \in Contents(c)
  BY DEF Reductions
<1>2. \A x \in V : ~Fits(x) => DropSome(x) \in V
  BY DroppingCounts
<1> HIDE DEF V
<1>3. c \in V => Reduced(c) \in V
  BY <1>1, <1>2, ReductionKeeps
<1> QED BY <1>3 DEF V

(***************************************************************************)
(* The first cut.                                                          *)
(***************************************************************************)
LEMMA FirstParts ==
    ASSUME NEW s, IsSequence(s), NEW n \in Nat
    PROVE  /\ IsSequence(Prefix(s, n))
           /\ ToSet(Prefix(s, n)) \subseteq ToSet(s)
           /\ \A i \in DOMAIN s : i <= n => i \in DOMAIN Prefix(s, n) /\ Prefix(s, n)[i] = s[i]
           /\ Len(s) - Limited(Len(s), n) \in Nat
           /\ Len(s) - Limited(Len(s), n) = 0 => Prefix(s, n) = s
           /\ ToldApart(s) => ToldApart(Prefix(s, n))
<1> DEFINE m == Limited(Len(s), n)
           V == ToSet(s)
<1>1. Len(s) \in Nat /\ s \in Seq(V) /\ DOMAIN s = 1 .. Len(s)
  BY SequenceElements DEF IsSequence
<1> DEFINE l == Len(s)
           p == SubSeq(s, 1, m)
<1>2. /\ l \in Nat /\ m \in Nat /\ m <= l /\ l - m \in Nat
      /\ m = n \/ m = l
  <2>1. l \in Nat
    BY <1>1
  <2>2. m = IF l < n THEN l ELSE n
    BY DEF Limited
  <2> HIDE DEF l, m
  <2> QED BY <2>1, <2>2
<1>3. Prefix(s, n) = p
  BY DEF Prefix
<1> HIDE DEF m, V, l
<1>4. /\ p \in Seq(V) /\ Len(p) = m /\ DOMAIN p = 1 .. m
      /\ \A i \in 1 .. m : p[i] = s[i]
  <2>1. \A i \in 1 .. m : i \in 1 .. l /\ 1 + i - 1 = i
    BY <1>2
  <2>2. m - 1 + 1 = m /\ (IF 1 <= m THEN m - 1 + 1 ELSE 0) = m /\ m \in Int /\ 1 \in Int
    BY <1>2
  <2>3. \A i \in 1 .. m : s[i] \in V
    BY <1>1, <2>1 DEF l
  <2>4. /\ p \in Seq(V) /\ Len(p) = IF 1 <= m THEN m - 1 + 1 ELSE 0
        /\ \A i \in 1 .. (m - 1 + 1) : p[i] = s[1 + i - 1]
    BY <2>2, <2>3, SubSeqProperties
  <2> HIDE DEF p
  <2>5. DOMAIN p = 1 .. m
    BY <2>2, <2>4
  <2> QED
    BY <2>1, <2>2, <2>4, <2>5
<1> HIDE DEF p
<1>5. IsSequence(p) /\ ToSet(p) \subseteq ToSet(s)
  <2>1. \A i \in 1 .. m : i \in 1 .. l
    BY <1>2
  <2>2. ToSet(p) \subseteq ToSet(s)
    BY <1>1, <1>4, <2>1 DEF ToSet, l
  <2>3. p \in Seq(ToSet(p))
    BY <1>4 DEF ToSet
  <2> QED
    BY <2>2, <2>3 DEF IsSequence
<1>6. ASSUME NEW i \in DOMAIN s, i <= n
      PROVE  i \in DOMAIN p /\ p[i] = s[i]
  <2>1. i \in 1 .. l
    BY <1>1 DEF l
  <2>2. i \in 1 .. m
    BY <1>2, <1>6, <2>1
  <2> QED BY <1>4, <2>2
<1>7. ASSUME l - m = 0
      PROVE  p = s
  <2>1. m = l
    BY <1>2, <1>7
  <2>2. s \in [1 .. l -> V] /\ p \in [1 .. l -> V]
    BY <1>1, <1>4, <2>1 DEF l
  <2> QED BY <1>4, <2>1, <2>2
<1>8. ASSUME ToldApart(s)
      PROVE  ToldApart(p)
  <2>1. \A i \in 1 .. m : i \in DOMAIN s /\ p[i] = s[i]
    <3>1. \A i \in 1 .. m : i \in 1 .. l
      BY <1>2
    <3>2. DOMAIN s = 1 .. l
      BY <1>1 DEF l
    <3> QED BY <1>4, <3>1, <3>2
  <2> QED BY <1>4, <1>8, <2>1 DEF ToldApart
<1> QED
  BY <1>2, <1>3, <1>5, <1>6, <1>7, <1>8 DEF l, m

(***************************************************************************)
(* What an input is made of is finite.                                     *)
(***************************************************************************)
LEMMA OrderIsSequence ==
    ASSUME NEW S, IsFiniteSet(S)
    PROVE  /\ IsSequence(InSomeOrder(S)) /\ Len(InSomeOrder(S)) = Cardinality(S)
           /\ ToSet(InSomeOrder(S)) = S
BY OrderExists DEF Orders, IsSequence

LEMMA AcceptedOutputs ==
    ASSUME NEW e, IsFiniteSet(e.response.outputs), IsFiniteSet(e.error),
           AcceptedObservation(e) # Refused
    PROVE  IsFiniteSet(Observation(AcceptedObservation(e)).outputs)
<1> DEFINE A == IF e.response.form \in {"object", "text"} THEN e.response.outputs ELSE {}
           B == IF (IF e.type = "tool.succeeded" THEN "succeeded" ELSE "failed") = "failed"
                THEN e.error ELSE {}
           O == A \cup B
           f == [o \in O |-> ReduceOutput(o)]
<1>1. IsFiniteSet(O)
  <2>1. IsFiniteSet(A) /\ IsFiniteSet(B)
    BY SmallSetsAreFinite
  <2> HIDE DEF A, B
  <2> QED BY <2>1, JoinedIsFinite
<1>2. Observation(AcceptedObservation(e)).outputs = AcceptedObservation(e).outputs
  BY DEF Observation
<1>3. AcceptedObservation(e).outputs = {ReduceOutput(o) : o \in O}
  BY DEF AcceptedObservation
<1> HIDE DEF O
<1>4. Range(f) = {ReduceOutput(o) : o \in O} /\ DOMAIN f = O
  BY DEF Range
<1> HIDE DEF f
<1> QED BY <1>1, <1>2, <1>3, <1>4, FiniteImage

LEMMA FiniteExcerpts ==
    ASSUME ContentInv, Made(verification)
    PROVE  /\ IsSequence(Excerpts(verification))
           /\ \A x \in ToSet(Excerpts(verification)) :
                  /\ x.text # "secret"
                  /\ \E r \in Recognized(verification) :
                         /\ x.id = VerificationNode(r[1], r[2].kind)
                         /\ x.kind = r[2].kind /\ x.status = r[2].status
<1> DEFINE obs == verification.observations
           R == Recognized(verification)
           marked(x) == {<<x, o>> : o \in x[2].outputs}
           each == [x \in R |-> marked(x)]
           P == UNION {marked(x) : x \in R}
           Shown == {p \in P : p[2].text # "blank"}
           of(p) == [id |-> VerificationNode(p[1][1], p[1][2].kind), kind |-> p[1][2].kind,
                     status |-> p[1][2].status, field |-> p[2].field, text |-> Redact(p[2].text),
                     sourceTruncated |-> p[2].truncated]
           f == [p \in Shown |-> of(p)]
           D == DOMAIN commands
           pairs == [i \in D |-> <<i, obs[i]>>]
<1>1. /\ RowsInv /\ DOMAIN obs = D
      /\ \A i \in D : /\ obs[i] = Observation(AcceptedObservation(ToolEvent(i)))
                      /\ AcceptedObservation(ToolEvent(i)) # Refused
  BY ObservedCommands
<1>2. ASSUME NEW i \in D
      PROVE  IsFiniteSet(obs[i].outputs)
  <2>1. commands[i] \in Commands
    BY <1>1 DEF RowsInv
  <2>2. /\ DOMAIN commands[i] = {"id", "type", "tool", "command", "response", "error"}
        /\ IsFiniteSet(commands[i].response.outputs) /\ IsFiniteSet(commands[i].error)
    BY <2>1, ContentAssumption
  <2>3. ToolEvent(i).response = commands[i].response /\ ToolEvent(i).error = commands[i].error
    BY <2>2 DEF ToolEvent
  <2> QED BY <1>1, <2>2, <2>3, AcceptedOutputs
<1>3. IsFiniteSet(R) /\ \A x \in R : IsFiniteSet(x[2].outputs)
  <2>1. Observations(verification) = Range(pairs) /\ DOMAIN pairs = D
    BY <1>1 DEF Observations, Range
  <2>2. IsFiniteSet(D)
    <3>1. commands \in Seq(Commands)
      BY <1>1 DEF RowsInv
    <3>2. IsSequence(commands)
      BY <3>1 DEF IsSequence, ToSet
    <3> QED BY <3>2, SequenceElements
  <2>3. \A x \in Range(pairs) : IsFiniteSet(x[2].outputs)
    BY <1>2 DEF Range
  <2>4. R \subseteq Observations(verification)
    BY DEF Recognized
  <2> HIDE DEF R, pairs, D
  <2>5. IsFiniteSet(Range(pairs))
    BY <2>1, <2>2, FiniteImage
  <2> QED BY <2>1, <2>3, <2>4, <2>5, FS_Subset
<1>4. \A x \in R : IsFiniteSet(marked(x))
  <2> SUFFICES ASSUME NEW x \in R PROVE IsFiniteSet(marked(x))
    OBVIOUS
  <2> DEFINE U == x[2].outputs
             m == [o \in U |-> <<x, o>>]
  <2>1. IsFiniteSet(U)
    BY <1>3
  <2>2. Range(m) = marked(x) /\ DOMAIN m = U
    BY DEF Range
  <2> HIDE DEF m, marked, U
  <2> QED BY <2>1, <2>2, FiniteImage
<1>5. IsFiniteSet(P)
  <2>1. P = UNION Range(each) /\ DOMAIN each = R /\ \A s \in Range(each) : IsFiniteSet(s)
    <3> HIDE DEF R, marked
    <3> QED BY <1>4 DEF Range
  <2> HIDE DEF each, P, R
  <2> QED BY <1>3, <2>1, FiniteImage, FS_UNION
<1>6. Excerpts(verification) = InSomeOrder({of(p) : p \in Shown})
  BY DEF Excerpts
<1>7. IsFiniteSet(Shown)
  <2>1. Shown \subseteq P
    OBVIOUS
  <2> HIDE DEF Shown, P
  <2> QED BY <1>5, <2>1, FS_Subset
<1> DEFINE Sound(x) == /\ x.text # "secret"
                       /\ \E r \in R : /\ x.id = VerificationNode(r[1], r[2].kind)
                                        /\ x.kind = r[2].kind /\ x.status = r[2].status
<1>9. \A p \in Shown : Sound(of(p))
  <2> SUFFICES ASSUME NEW p \in Shown PROVE Sound(of(p))
    OBVIOUS
  <2>1. p[1] \in R
    <3>1. PICK x \in R : p \in marked(x)
      OBVIOUS
    <3>2. p[1] = x
      BY <3>1
    <3> QED BY <3>2
  <2>2. Redact(p[2].text) # "secret"
    BY DEF Redact
  <2>3. /\ of(p).id = VerificationNode(p[1][1], p[1][2].kind) /\ of(p).kind = p[1][2].kind
        /\ of(p).status = p[1][2].status /\ of(p).text = Redact(p[2].text)
    OBVIOUS
  <2> HIDE DEF of, R
  <2> QED BY <2>1, <2>2, <2>3
<1> HIDE DEF Shown, of, Sound
<1>8. Range(f) = {of(p) : p \in Shown} /\ DOMAIN f = Shown
  BY DEF Range
<1> HIDE DEF f
<1>10. IsFiniteSet({of(p) : p \in Shown})
  BY <1>7, <1>8, FiniteImage
<1>11. IsSequence(Excerpts(verification)) /\ ToSet(Excerpts(verification)) = {of(p) : p \in Shown}
  BY <1>6, <1>10, OrderIsSequence
<1>12. \A x \in ToSet(Excerpts(verification)) : Sound(x)
  BY <1>9, <1>11
<1> QED BY <1>11, <1>12 DEF Sound

LEMMA FiniteRelations ==
    ASSUME ContentInv, Made(graph)
    PROVE  IsSequence(Relations(graph))
<1>1. {e \in graph.edges : e[1] \in RelationTypes} \subseteq graph.edges
  OBVIOUS
<1>2. IsFiniteSet({e \in graph.edges : e[1] \in RelationTypes})
  BY <1>1, FiniteEdges, FS_Subset
<1> QED BY <1>2, OrderIsSequence DEF Relations

LEMMA SupportsAreNumbers ==
    ASSUME ContentInv, Made(graph), NEW id
    PROVE  Limited(Cardinality(SupportingIds(id, graph)), MaxSupport) \in Nat
<1> DEFINE E == graph.edges
           to == {e \in E : e[2] = id}
           from == {e \in E : e[3] = id}
           f == [e \in to |-> e[3]]
           g == [e \in from |-> e[2]]
<1>1. to \subseteq E /\ from \subseteq E /\ IsFiniteSet(E)
  BY FiniteEdges
<1>2. SupportingIds(id, graph) = {e[3] : e \in to} \cup {e[2] : e \in from}
  BY DEF SupportingIds
<1> HIDE DEF to, from, E
<1>3. Range(f) = {e[3] : e \in to} /\ DOMAIN f = to
  BY DEF Range
<1>4. Range(g) = {e[2] : e \in from} /\ DOMAIN g = from
  BY DEF Range
<1>5. IsFiniteSet(to) /\ IsFiniteSet(from)
  BY <1>1, FS_Subset
<1> HIDE DEF f, g
<1>6. IsFiniteSet(SupportingIds(id, graph))
  BY <1>2, <1>3, <1>4, <1>5, FiniteImage, JoinedIsFinite
<1>7. Cardinality(SupportingIds(id, graph)) \in Nat
  BY <1>6, FS_CardinalityType
<1> QED BY <1>7, InputLimits DEF Limited

LEMMA FiniteSummaries ==
    ASSUME ContentInv, Made(graph), NEW kind
    PROVE  /\ IsFiniteSet(SummariesOf(kind, graph))
           /\ \A s \in SummariesOf(kind, graph) : s.kind = kind /\ s.support \in Nat
<1>1. CASE kind = "graph_limitation"
  <2> DEFINE L == graph.limitations
             of(l) == [kind |-> kind, id |-> RunNode, meta |-> [limitation |-> l], support |-> 0]
             f == [l \in L |-> of(l)]
  <2>1. IsFiniteSet(L)
    <3>1. L \subseteq {"diff_hunks_not_retained", "final_manifest_unavailable",
                       "classification_partial"}
                      \cup {"classification_unavailable", "verification_partial",
                            "verification_unavailable"}
                      \cup {"evidence_gaps_present"}
      BY BuiltGraph DEF Graph, Limitations
    <3> QED BY <3>1, SmallSetsAreFinite, ManyJoinedAreFinite, FS_Subset
  <2>2. SummariesOf(kind, graph) = {of(l) : l \in L}
    BY <1>1 DEF SummariesOf
  <2>3. \A l : of(l).kind = kind /\ of(l).support \in Nat
    OBVIOUS
  <2> HIDE DEF L, of
  <2>4. Range(f) = {of(l) : l \in L} /\ DOMAIN f = L
    BY DEF Range
  <2> HIDE DEF f
  <2>5. IsFiniteSet(Range(f))
    BY <2>1, <2>4, FiniteImage
  <2> QED BY <2>2, <2>3, <2>4, <2>5
<1>2. CASE kind # "graph_limitation"
  <2> DEFINE N == NodesOf(graph, kind)
             f == [n \in N |-> Summary(n, graph)]
  <2>1. N \subseteq graph.nodes /\ \A n \in N : n.id.kind = kind
    BY DEF NodesOf
  <2>2. IsFiniteSet(N)
    BY <2>1, BuiltGraph, FS_Subset
  <2>3. SummariesOf(kind, graph) = {Summary(n, graph) : n \in N}
    BY <1>2 DEF SummariesOf
  <2>4. \A n \in N : Summary(n, graph).kind = kind /\ Summary(n, graph).support \in Nat
    BY <2>1, SupportsAreNumbers DEF Summary
  <2> HIDE DEF N
  <2>5. Range(f) = {Summary(n, graph) : n \in N} /\ DOMAIN f = N
    BY DEF Range
  <2> HIDE DEF f
  <2>6. IsFiniteSet(Range(f))
    BY <2>2, <2>5, FiniteImage
  <2> QED BY <2>3, <2>4, <2>5, <2>6
<1> QED BY <1>1, <1>2

(***************************************************************************)
(* The run, its end and the limitations take at most nine places.          *)
(***************************************************************************)
LEMMA AtMostOne ==
    ASSUME NEW S, IsFiniteSet(S), NEW x, S \subseteq {x}
    PROVE  Cardinality(S) \in Nat /\ Cardinality(S) <= 1
<1>1. IsFiniteSet({x}) /\ Cardinality({x}) = 1
  BY FS_Singleton
<1>2. Cardinality(S) <= Cardinality({x})
  BY <1>1, FS_Subset
<1>3. Cardinality(S) \in Nat
  BY FS_CardinalityType
<1> QED BY <1>1, <1>2, <1>3

LEMMA NodesOfTheRun ==
    ASSUME NEW run, NEW c, NEW v, NEW n \in GraphNodes(run, c, v)
    PROVE  /\ n.id.kind = "run" => n = Node(RunNode, [terminalStatus |-> run.status])
           /\ n.id.kind = "finalization" =>
                  n = Node(FinalizationNode,
                           [terminalStatus |-> run.status, diagnostic |-> run.diagnostic])
<1> DEFINE Others == {"event", "baseline", "reconciliation", "changed_file", "evidence_gap",
                      "artifact", "classification_entry", "classification_label",
                      "classification_rule", "command_observation", "verification_observation",
                      "test_file_change"}
           start == Node(RunNode, [terminalStatus |-> run.status])
           end   == Node(FinalizationNode,
                         [terminalStatus |-> run.status, diagnostic |-> run.diagnostic])
<1>1. ASSUME n \in RunNodes(run)
      PROVE  n = start \/ n = end \/ n.id.kind \in Others
  <2> DEFINE A == {Node(EventNode(e.id), [eventType |-> e.type]) : e \in ToSet(run.events)}
             B == IF run.baseline = None THEN {} ELSE {Node(BaselineNode, NoMeta)}
             G == {Node(GapNode(g.id), [gapCode |-> g.code]) : g \in run.gaps}
             roles == {"classification", "verification"}
                        \cup (IF run.manifest THEN {"manifest"} ELSE {})
             F == {Node(ArtifactNode(role), [artifactKind |-> role]) : role \in roles}
  <2>1. RunNodes(run) = {start, end} \cup A \cup B \cup G \cup F
    BY DEF RunNodes
  <2>2. \A x \in A : x.id.kind = "event"
    <3> SUFFICES ASSUME NEW e \in ToSet(run.events)
                 PROVE  Node(EventNode(e.id), [eventType |-> e.type]).id.kind = "event"
      OBVIOUS
    <3> QED BY DEF Node, Id, EventNode
  <2>3. \A x \in B : x.id.kind = "baseline"
    <3>1. Node(BaselineNode, NoMeta).id.kind = "baseline"
      BY DEF Node, Id, BaselineNode
    <3> QED BY <3>1
  <2>4. \A x \in G : x.id.kind = "evidence_gap"
    <3>1. \A g, m : Node(GapNode(g), m).id.kind = "evidence_gap"
      BY DEF Node, Id, GapNode
    <3>2. ASSUME NEW x \in G PROVE x.id.kind = "evidence_gap"
      <4>1. PICK g \in run.gaps : x = Node(GapNode(g.id), [gapCode |-> g.code])
        OBVIOUS
      <4> QED BY <3>1, <4>1
    <3> HIDE DEF G
    <3> QED BY <3>2
  <2>5. \A x \in F : x.id.kind = "artifact"
    <3> HIDE DEF roles
    <3> QED BY DEF Node, Id, ArtifactNode
  <2> HIDE DEF A, B, G, F, start, end
  <2> QED BY <1>1, <2>1, <2>2, <2>3, <2>4, <2>5
<1>2. ASSUME n \in FileNodes(run)
      PROVE  n.id.kind \in Others
  <2> DEFINE D == DOMAIN run.reconciliations
             A == {Node(ReconciliationNode(r),
                        [attribution |-> run.reconciliations[r].attribution]) : r \in D}
             B == {Node(FileNode(f[1], f[2], f[3].fileEvent),
                        [changeKind |-> f[3].changeKind, attribution |-> f[3].attribution]) :
                      f \in Files(run)}
  <2>1. FileNodes(run) = A \cup B
    BY DEF FileNodes
  <2>2. \A x \in A : x.id.kind = "reconciliation"
    <3> SUFFICES ASSUME NEW r \in D
                 PROVE  Node(ReconciliationNode(r),
                             [attribution |-> run.reconciliations[r].attribution]).id.kind = "reconciliation"
      OBVIOUS
    <3> QED BY DEF Node, Id, ReconciliationNode
  <2>3. \A x \in B : x.id.kind = "changed_file"
    <3> SUFFICES ASSUME NEW f \in Files(run)
                 PROVE  Node(FileNode(f[1], f[2], f[3].fileEvent),
                             [changeKind |-> f[3].changeKind,
                              attribution |-> f[3].attribution]).id.kind = "changed_file"
      OBVIOUS
    <3> QED BY DEF Node, Id, FileNode
  <2> HIDE DEF A, B
  <2> QED BY <1>2, <2>1, <2>2, <2>3
<1>3. ASSUME n \in ClassificationNodes(c)
      PROVE  n.id.kind \in Others
  <2> DEFINE A == {Node(EntryNode(x[1], x[2].fileEvent), NoMeta) : x \in Entries(c)}
             B == {Node(LabelNode(x[1], x[2].label),
                        [label |-> x[2].label, confidence |-> x[2].confidence]) : x \in Labels(c)}
             G == {Node(RuleNode(x[3].ruleId),
                        [ruleId |-> x[3].ruleId, evidenceKind |-> x[3].kind]) : x \in Rules(c)}
  <2>1. ClassificationNodes(c) = A \cup B \cup G
    BY DEF ClassificationNodes
  <2>2. \A x \in A : x.id.kind = "classification_entry"
    <3> SUFFICES ASSUME NEW x \in Entries(c)
                 PROVE  Node(EntryNode(x[1], x[2].fileEvent), NoMeta).id.kind = "classification_entry"
      OBVIOUS
    <3> QED BY DEF Node, Id, EntryNode
  <2>3. \A x \in B : x.id.kind = "classification_label"
    BY DEF Node, Id, LabelNode
  <2>4. \A x \in G : x.id.kind = "classification_rule"
    BY DEF Node, Id, RuleNode
  <2> HIDE DEF A, B, G
  <2> QED BY <1>3, <2>1, <2>2, <2>3, <2>4
<1>4. ASSUME n \in VerificationNodes(v)
      PROVE  n.id.kind \in Others
  <2> DEFINE A == {Node(CommandNode(x[1], x[2].sourceEvent),
                        [verificationKind |-> x[2].kind, observedStatus |-> x[2].status]) :
                      x \in Observations(v)}
             B == {Node(VerificationNode(x[1], x[2].kind),
                        [verificationKind |-> x[2].kind, observedStatus |-> x[2].status]) :
                      x \in Recognized(v)}
             G == {Node(TestFileNode(t.entry, t.fileEvent), [verificationKind |-> "test"]) :
                      t \in v.testFileChanges}
  <2>1. VerificationNodes(v) = A \cup B \cup G
    BY DEF VerificationNodes
  <2>2. \A x \in A : x.id.kind = "command_observation"
    <3> SUFFICES ASSUME NEW x \in Observations(v)
                 PROVE  Node(CommandNode(x[1], x[2].sourceEvent),
                             [verificationKind |-> x[2].kind,
                              observedStatus |-> x[2].status]).id.kind = "command_observation"
      OBVIOUS
    <3> QED BY DEF Node, Id, CommandNode
  <2>3. \A x \in B : x.id.kind = "verification_observation"
    BY DEF Node, Id, VerificationNode
  <2>4. \A x \in G : x.id.kind = "test_file_change"
    <3> SUFFICES ASSUME NEW t \in v.testFileChanges
                 PROVE  Node(TestFileNode(t.entry, t.fileEvent),
                             [verificationKind |-> "test"]).id.kind = "test_file_change"
      OBVIOUS
    <3> QED BY DEF Node, Id, TestFileNode
  <2> HIDE DEF A, B, G
  <2> QED BY <1>4, <2>1, <2>2, <2>3, <2>4
<1>5. start.id.kind = "run" /\ end.id.kind = "finalization"
  BY DEF Node, Id, RunNode, FinalizationNode
<1>6. "run" \notin Others /\ "finalization" \notin Others
  OBVIOUS
<1>7. \/ n = start \/ n = end \/ n.id.kind \in Others
  <2> HIDE DEF Others, start, end
  <2> QED BY <1>1, <1>2, <1>3, <1>4 DEF GraphNodes
<1> QED
  <2>1. (n.id.kind = "run" => n = start) /\ (n.id.kind = "finalization" => n = end)
    <3> HIDE DEF Others, start, end
    <3> QED BY <1>5, <1>6, <1>7
  <2> QED BY <2>1

LEMMA OneRunOneEnd ==
    ASSUME ContentInv, Made(graph), NEW kind \in {"run", "finalization"}
    PROVE  /\ Cardinality(SummariesOf(kind, graph)) \in Nat
           /\ Cardinality(SummariesOf(kind, graph)) <= 1
<1> DEFINE run == RunRecord(verification)
           node == IF kind = "run" THEN Node(RunNode, [terminalStatus |-> run.status])
                   ELSE Node(FinalizationNode,
                             [terminalStatus |-> run.status, diagnostic |-> run.diagnostic])
<1>1. graph.nodes = GraphNodes(run, classification, verification)
  BY BuiltGraph DEF Graph
<1> HIDE DEF run
<1>2. \A n \in NodesOf(graph, kind) : n = node
  BY <1>1, NodesOfTheRun DEF NodesOf
<1> HIDE DEF node
<1>3. SummariesOf(kind, graph) \subseteq {Summary(node, graph)}
  BY <1>2 DEF SummariesOf
<1> QED BY <1>3, FiniteSummaries, AtMostOne

LEMMA SevenLimitations ==
    ASSUME ContentInv, Made(graph)
    PROVE  /\ Cardinality(SummariesOf("graph_limitation", graph)) \in Nat
           /\ Cardinality(SummariesOf("graph_limitation", graph)) <= 7
<1> DEFINE name(i) == CASE i = 1 -> "diff_hunks_not_retained"
                        [] i = 2 -> "final_manifest_unavailable"
                        [] i = 3 -> "classification_partial"
                        [] i = 4 -> "classification_unavailable"
                        [] i = 5 -> "verification_partial"
                        [] i = 6 -> "verification_unavailable"
                        [] OTHER -> "evidence_gaps_present"
           of(l) == [kind |-> "graph_limitation", id |-> RunNode, meta |-> [limitation |-> l],
                     support |-> 0]
           f == [i \in 1 .. 7 |-> of(name(i))]
           S == SummariesOf("graph_limitation", graph)
<1>1. \A l \in graph.limitations : \E i \in 1 .. 7 : l = name(i)
  <2>1. graph.limitations \subseteq
            {"diff_hunks_not_retained", "final_manifest_unavailable", "classification_partial",
             "classification_unavailable", "verification_partial", "verification_unavailable",
             "evidence_gaps_present"}
    BY BuiltGraph DEF Graph, Limitations
  <2>2. /\ name(1) = "diff_hunks_not_retained" /\ name(2) = "final_manifest_unavailable"
        /\ name(3) = "classification_partial" /\ name(4) = "classification_unavailable"
        /\ name(5) = "verification_partial" /\ name(6) = "verification_unavailable"
        /\ name(7) = "evidence_gaps_present"
    OBVIOUS
  <2> HIDE DEF name
  <2>3. /\ 1 \in 1 .. 7 /\ 2 \in 1 .. 7 /\ 3 \in 1 .. 7 /\ 4 \in 1 .. 7
        /\ 5 \in 1 .. 7 /\ 6 \in 1 .. 7 /\ 7 \in 1 .. 7
    OBVIOUS
  <2> QED BY <2>1, <2>2, <2>3
<1>2. S = {of(l) : l \in graph.limitations}
  BY DEF SummariesOf
<1> HIDE DEF name, of, S
<1>3. S \subseteq Range(f) /\ DOMAIN f = 1 .. 7
  BY <1>1, <1>2 DEF Range
<1> HIDE DEF f
<1>4. IsFiniteSet(1 .. 7) /\ Cardinality(1 .. 7) = 7
  <2>1. 1 \in Int /\ 7 \in Int
    OBVIOUS
  <2>2. /\ IsFiniteSet(1 .. 7)
        /\ Cardinality(1 .. 7) = IF 1 > 7 THEN 0 ELSE 7 - 1 + 1
    BY <2>1, FS_Interval
  <2> QED BY <2>2
<1>5. IsFiniteSet(Range(f)) /\ Cardinality(Range(f)) <= 7
  BY <1>3, <1>4, FiniteImage
<1>6. IsFiniteSet(S) /\ Cardinality(S) <= Cardinality(Range(f))
  BY <1>3, <1>5, FS_Subset
<1>7. Cardinality(S) \in Nat /\ Cardinality(Range(f)) \in Nat
  BY <1>5, <1>6, FS_CardinalityType
<1> QED BY <1>5, <1>6, <1>7 DEF S

LEMMA GapsAreSummarized ==
    ASSUME ContentInv, Made(graph), seal.gaps # {}
    PROVE  SummariesOf("evidence_gap", graph) # {}
<1> DEFINE run == RunRecord(verification)
<1>1. graph.nodes = GraphNodes(run, classification, verification)
  BY BuiltGraph DEF Graph
<1>2. PICK g : g \in seal.gaps
  OBVIOUS
<1>3. g \in run.gaps
  BY <1>2 DEF RunRecord
<1> HIDE DEF run
<1> DEFINE gap == Node(GapNode(g.id), [gapCode |-> g.code])
<1>4. gap \in RunNodes(run)
  <2>2. gap \in {Node(GapNode(h.id), [gapCode |-> h.code]) : h \in run.gaps}
    BY <1>3
  <2> HIDE DEF gap
  <2> QED BY <2>2 DEF RunNodes
<1>5. gap.id.kind = "evidence_gap"
  BY DEF Node, GapNode, Id
<1> HIDE DEF gap
<1>6. gap \in NodesOf(graph, "evidence_gap")
  BY <1>1, <1>4, <1>5 DEF GraphNodes, NodesOf
<1>7. Summary(gap, graph) \in SummariesOf("evidence_gap", graph)
  BY <1>6 DEF SummariesOf
<1> QED BY <1>7

LEMMA FirstOfTheSecond ==
    ASSUME NEW s, IsSequence(s), NEW t, IsSequence(t), 1 \in DOMAIN t
    PROVE  (s \o t)[Len(s) + 1] = t[1]
<1> DEFINE V == ToSet(s) \cup ToSet(t)
<1>1. s \in Seq(V) /\ t \in Seq(V)
  BY DEF IsSequence
<1> HIDE DEF V
<1> QED BY <1>1

\* What was joined first keeps its places.
LEMMA EarlierPlaces ==
    ASSUME NEW n, NEW seqs, Joinable(seqs, n), NEW flat, JoinedBy(flat, seqs, n),
           NEW k \in 0 .. n, NEW i \in DOMAIN flat[k]
    PROVE  i \in DOMAIN FlattenSeq(seqs) /\ FlattenSeq(seqs)[i] = flat[k][i]
<1> DEFINE Keeps(h) == i \in DOMAIN flat[h] /\ flat[h][i] = flat[k][i]
           K == {j \in Nat : k + j <= n => Keeps(k + j)}
<1>0. /\ n \in Nat /\ \A h \in 1 .. n : IsSequence(seqs[h])
      /\ \A h \in 0 .. n : IsSequence(flat[h])
      /\ \A h \in 1 .. n : flat[h] = flat[h - 1] \o seqs[h]
      /\ flat[n] = FlattenSeq(seqs)
  BY DEF Joinable, JoinedBy
<1>1. 0 \in K
  <2>1. k + 0 = k
    OBVIOUS
  <2> QED BY <2>1
<1>2. ASSUME NEW j \in Nat, j \in K
      PROVE  j + 1 \in K
  <2> SUFFICES ASSUME k + (j + 1) <= n PROVE Keeps(k + (j + 1))
    OBVIOUS
  <2> DEFINE h == k + (j + 1)
  <2>1. h \in 1 .. n /\ h - 1 = k + j /\ k + j <= n /\ h - 1 \in 0 .. n
    BY <1>0
  <2>2. Keeps(h - 1)
    BY <1>2, <2>1
  <2> HIDE DEF h
  <2>3. flat[h] = flat[h - 1] \o seqs[h]
    BY <1>0, <2>1
  <2>4. IsSequence(flat[h - 1]) /\ IsSequence(seqs[h])
    BY <1>0, <2>1
  <2> DEFINE a == flat[h - 1]
             b == seqs[h]
  <2>5. Len(flat[h]) = Len(a) + Len(b) /\ IsSequence(flat[h]) /\ flat[h][i] = a[i]
    <3>1. IsSequence(a) /\ IsSequence(b) /\ flat[h] = a \o b /\ i \in DOMAIN a
      BY <2>2, <2>3, <2>4
    <3> HIDE DEF a, b
    <3>2. IsSequence(a \o b) /\ Len(a \o b) = Len(a) + Len(b) /\ (a \o b)[i] = a[i]
      BY <3>1, JoinedIsSequence
    <3> QED BY <3>1, <3>2
  <2>6. /\ DOMAIN flat[h] = 1 .. Len(flat[h]) /\ DOMAIN flat[h - 1] = 1 .. Len(flat[h - 1])
        /\ Len(flat[h - 1]) \in Nat /\ Len(seqs[h]) \in Nat
    BY <2>4, <2>5, SequenceElements
  <2>7. i \in DOMAIN flat[h]
    <3> DEFINE l == Len(a)
               m == Len(b)
    <3>1. i \in 1 .. l /\ l \in Nat /\ m \in Nat /\ DOMAIN flat[h] = 1 .. (l + m)
      BY <2>2, <2>5, <2>6
    <3> HIDE DEF l, m
    <3> QED BY <3>1
  <2>8. Keeps(h)
    BY <2>2, <2>5, <2>7
  <2> QED BY <2>8 DEF h
<1>3. Nat \subseteq K
  <2> HIDE DEF K
  <2> QED BY <1>1, <1>2, NaturalSteps
<1>4. n - k \in Nat /\ k + (n - k) = n /\ k + (n - k) <= n
  BY <1>0
<1>5. n - k \in K
  <2> HIDE DEF K
  <2> QED BY <1>3, <1>4
<1>6. Keeps(n)
  BY <1>4, <1>5
<1> QED BY <1>0, <1>6

LEMMA SummaryPlaces ==
    ASSUME ContentInv, Made(graph)
    PROVE  /\ IsSequence(Summaries(graph))
           /\ \A s \in ToSet(Summaries(graph)) : s.support \in Nat
           /\ seal.gaps # {} =>
                  \E i \in DOMAIN Summaries(graph) :
                      i <= 10 /\ Summaries(graph)[i].kind = "evidence_gap"
<1> DEFINE of(i) == SummariesOf(SummaryKinds[i], graph)
           seqs == [i \in DOMAIN SummaryKinds |-> InSomeOrder(of(i))]
<1>1. /\ DOMAIN SummaryKinds = 1 .. 11
      /\ SummaryKinds[1] = "run" /\ SummaryKinds[2] = "finalization"
      /\ SummaryKinds[3] = "graph_limitation" /\ SummaryKinds[4] = "evidence_gap"
  BY DEF SummaryKinds
<1>2. Summaries(graph) = FlattenSeq(seqs)
  BY DEF Summaries
<1>3. \A i \in 1 .. 11 : /\ IsFiniteSet(of(i))
                         /\ \A s \in of(i) : s.kind = SummaryKinds[i] /\ s.support \in Nat
  BY FiniteSummaries
<1>4. \A i \in 1 .. 11 : seqs[i] = InSomeOrder(of(i))
  BY <1>1
<1>5. seqs = [i \in 1 .. 11 |-> seqs[i]]
  BY <1>1
<1> HIDE DEF seqs, of
<1>6. \A i \in 1 .. 11 : /\ IsSequence(seqs[i]) /\ Len(seqs[i]) = Cardinality(of(i))
                         /\ ToSet(seqs[i]) = of(i)
  BY <1>3, <1>4, OrderIsSequence
<1>7. Joinable(seqs, 11)
  BY <1>5, <1>6 DEF Joinable
<1>8. /\ IsSequence(Summaries(graph))
      /\ ToSet(Summaries(graph)) = UNION {ToSet(seqs[i]) : i \in 1 .. 11}
  BY <1>2, <1>7, JoinedSequences
<1>9. \A s \in ToSet(Summaries(graph)) : s.support \in Nat
  BY <1>3, <1>6, <1>8
<1>10. ASSUME seal.gaps # {}
       PROVE  \E i \in DOMAIN Summaries(graph) :
                  i <= 10 /\ Summaries(graph)[i].kind = "evidence_gap"
  <2>1. PICK flat : JoinedBy(flat, seqs, 11)
    BY <1>7, JoinableSteps
  <2>2. /\ Len(seqs[1]) \in Nat /\ Len(seqs[1]) <= 1
        /\ Len(seqs[2]) \in Nat /\ Len(seqs[2]) <= 1
        /\ Len(seqs[3]) \in Nat /\ Len(seqs[3]) <= 7
    <3>1. /\ of(1) = SummariesOf("run", graph) /\ of(2) = SummariesOf("finalization", graph)
          /\ of(3) = SummariesOf("graph_limitation", graph)
      BY <1>1 DEF of
    <3>2. /\ Len(seqs[1]) = Cardinality(of(1)) /\ Len(seqs[2]) = Cardinality(of(2))
          /\ Len(seqs[3]) = Cardinality(of(3))
      BY <1>6
    <3>3. \A kind \in {"run", "finalization"} :
              /\ Cardinality(SummariesOf(kind, graph)) \in Nat
              /\ Cardinality(SummariesOf(kind, graph)) <= 1
      BY OneRunOneEnd
    <3> QED BY <3>1, <3>2, <3>3, SevenLimitations
  <2>3. /\ \A h \in 0 .. 11 : IsSequence(flat[h])
        /\ flat[0] = <<>>
        /\ flat[1] = flat[0] \o seqs[1] /\ flat[2] = flat[1] \o seqs[2]
        /\ flat[3] = flat[2] \o seqs[3] /\ flat[4] = flat[3] \o seqs[4]
    <3>1. \A h \in 0 .. 11 : IsSequence(flat[h])
      BY <2>1 DEF JoinedBy
    <3>2. flat[0] = <<>> /\ \A h \in 1 .. 11 : flat[h] = flat[h - 1] \o seqs[h]
      BY <2>1 DEF JoinedBy
    <3>3. /\ 1 \in 1 .. 11 /\ 2 \in 1 .. 11 /\ 3 \in 1 .. 11 /\ 4 \in 1 .. 11
          /\ 1 - 1 = 0 /\ 2 - 1 = 1 /\ 3 - 1 = 2 /\ 4 - 1 = 3
      OBVIOUS
    <3>4. flat[1] = flat[0] \o seqs[1]
      BY <3>2, <3>3
    <3>5. flat[2] = flat[1] \o seqs[2]
      BY <3>2, <3>3
    <3>6. flat[3] = flat[2] \o seqs[3]
      BY <3>2, <3>3
    <3>7. flat[4] = flat[3] \o seqs[4]
      BY <3>2, <3>3
    <3> QED BY <3>1, <3>2, <3>4, <3>5, <3>6, <3>7
  <2>4. /\ IsSequence(flat[0]) /\ IsSequence(flat[1]) /\ IsSequence(flat[2])
        /\ IsSequence(flat[3]) /\ IsSequence(flat[4])
        /\ IsSequence(seqs[1]) /\ IsSequence(seqs[2]) /\ IsSequence(seqs[3])
        /\ IsSequence(seqs[4])
    <3>1. /\ 0 \in 0 .. 11 /\ 1 \in 0 .. 11 /\ 2 \in 0 .. 11 /\ 3 \in 0 .. 11 /\ 4 \in 0 .. 11
          /\ 1 \in 1 .. 11 /\ 2 \in 1 .. 11 /\ 3 \in 1 .. 11 /\ 4 \in 1 .. 11
      OBVIOUS
    <3>2. /\ IsSequence(flat[0]) /\ IsSequence(flat[1]) /\ IsSequence(flat[2])
          /\ IsSequence(flat[3]) /\ IsSequence(flat[4])
      BY <2>3, <3>1
    <3> QED BY <1>6, <3>1, <3>2
  <2>5. /\ Len(flat[0]) = 0 /\ Len(flat[1]) = Len(flat[0]) + Len(seqs[1])
        /\ Len(flat[2]) = Len(flat[1]) + Len(seqs[2])
        /\ Len(flat[3]) = Len(flat[2]) + Len(seqs[3])
        /\ Len(flat[4]) = Len(flat[3]) + Len(seqs[4])
    BY <2>3, <2>4, ShortSequences, JoinedIsSequence
  <2>6. Len(flat[3]) \in Nat /\ Len(flat[3]) <= 9
    <3> DEFINE a == Len(seqs[1])
               b == Len(seqs[2])
               e == Len(seqs[3])
    <3>1. Len(flat[3]) = ((0 + a) + b) + e
      BY <2>5
    <3>2. a \in Nat /\ a <= 1 /\ b \in Nat /\ b <= 1 /\ e \in Nat /\ e <= 7
      BY <2>2
    <3> HIDE DEF a, b, e
    <3>3. ((0 + a) + b) + e \in Nat /\ ((0 + a) + b) + e <= 9
      BY <3>2
    <3> QED BY <3>1, <3>3
  <2>7. Len(seqs[4]) \in Nat /\ DOMAIN seqs[4] = 1 .. Len(seqs[4]) /\ 1 \in DOMAIN seqs[4]
    <3>1. of(4) # {}
      BY <1>1, <1>10, GapsAreSummarized DEF of
    <3>2. ToSet(seqs[4]) # {}
      BY <1>6, <3>1
    <3>3. DOMAIN seqs[4] # {}
      BY <3>2 DEF ToSet
    <3>4. Len(seqs[4]) \in Nat /\ DOMAIN seqs[4] = 1 .. Len(seqs[4])
      BY <2>4, SequenceElements
    <3> QED BY <3>3, <3>4
  <2>8. flat[4][Len(flat[3]) + 1] = seqs[4][1]
    <3>1. (flat[3] \o seqs[4])[Len(flat[3]) + 1] = seqs[4][1]
      <4> DEFINE a == flat[3]
                 b == seqs[4]
      <4>1. IsSequence(a) /\ IsSequence(b) /\ 1 \in DOMAIN b
        BY <2>4, <2>7
      <4> HIDE DEF a, b
      <4>2. (a \o b)[Len(a) + 1] = b[1]
        BY <4>1, FirstOfTheSecond
      <4> QED BY <4>2 DEF a, b
    <3> QED BY <2>3, <3>1
  <2>9. Len(flat[3]) + 1 \in DOMAIN flat[4]
    <3>1. DOMAIN flat[4] = 1 .. Len(flat[4])
      BY <2>4, SequenceElements
    <3> DEFINE a == Len(flat[3])
               b == Len(seqs[4])
    <3>2. a \in Nat /\ b \in Nat /\ 1 <= b /\ DOMAIN flat[4] = 1 .. (a + b)
      <4>1. a \in Nat /\ b \in Nat /\ DOMAIN flat[4] = 1 .. (a + b)
        BY <2>5, <2>6, <2>7, <3>1
      <4>2. DOMAIN seqs[4] = 1 .. b /\ 1 \in DOMAIN seqs[4]
        BY <2>7
      <4> HIDE DEF a, b
      <4> QED BY <4>1, <4>2
    <3> HIDE DEF a, b
    <3>3. a + 1 \in 1 .. (a + b)
      BY <3>2
    <3> QED BY <3>2, <3>3 DEF a
  <2> DEFINE i == Len(flat[3]) + 1
  <2>10. i \in DOMAIN Summaries(graph) /\ Summaries(graph)[i] = flat[4][i]
    <3>1. 4 \in 0 .. 11
      OBVIOUS
    <3> QED BY <1>2, <1>7, <2>1, <2>9, <3>1, EarlierPlaces
  <2>11. seqs[4][1].kind = "evidence_gap"
    <3>1. 4 \in 1 .. 11
      OBVIOUS
    <3>2. ToSet(seqs[4]) = of(4) /\ \A s \in of(4) : s.kind = "evidence_gap"
      BY <1>1, <1>3, <1>6, <3>1
    <3>3. seqs[4][1] \in ToSet(seqs[4])
      BY <2>7 DEF ToSet
    <3> QED BY <3>2, <3>3
  <2>12. i <= 10
    BY <2>6
  <2> QED BY <2>8, <2>10, <2>11, <2>12
<1> QED BY <1>8, <1>9, <1>10

LEMMA FirstCutIsSound ==
    ASSUME ContentInv, Made(graph), NEW c, c = FirstCut(graph, verification)
    PROVE  /\ c \in Reductions(c)
           /\ \A s \in ToSet(c.summaries) : s.support \in Nat
           /\ ~Truncated(c) => /\ c.summaries = Summaries(graph)
                               /\ c.relations = Relations(graph)
                               /\ c.excerpts = Excerpts(verification)
           /\ seal.gaps # {} =>
                  \E i \in DOMAIN c.summaries : c.summaries[i].kind = "evidence_gap"
<1> DEFINE S == Summaries(graph)
           R == Relations(graph)
           X == Excerpts(verification)
<1>0. MaxSummaries \in Nat /\ MaxRelations \in Nat /\ MaxExcerpts \in Nat /\ MaxSummaries >= 10
  BY InputLimits
<1>1. IsSequence(S) /\ IsSequence(R) /\ IsSequence(X)
  BY BuiltGraph, SummaryPlaces, FiniteRelations, FiniteExcerpts
<1>2. c = [summaries |-> Prefix(S, MaxSummaries), relations |-> Prefix(R, MaxRelations),
           excerpts |-> Prefix(X, MaxExcerpts),
           droppedSummaries |-> Len(S) - Limited(Len(S), MaxSummaries),
           droppedRelations |-> Len(R) - Limited(Len(R), MaxRelations),
           droppedExcerpts |-> Len(X) - Limited(Len(X), MaxExcerpts)]
  BY DEF FirstCut
<1> HIDE DEF S, R, X
<1>3. /\ IsSequence(c.summaries) /\ IsSequence(c.relations) /\ IsSequence(c.excerpts)
      /\ ToSet(c.summaries) \subseteq ToSet(S)
      /\ \A i \in DOMAIN S : i <= MaxSummaries =>
             i \in DOMAIN c.summaries /\ c.summaries[i] = S[i]
  <2>1. /\ c.summaries = Prefix(S, MaxSummaries) /\ c.relations = Prefix(R, MaxRelations)
        /\ c.excerpts = Prefix(X, MaxExcerpts)
    BY <1>2
  <2>2. /\ IsSequence(Prefix(S, MaxSummaries)) /\ ToSet(Prefix(S, MaxSummaries)) \subseteq ToSet(S)
        /\ \A i \in DOMAIN S : i <= MaxSummaries =>
               i \in DOMAIN Prefix(S, MaxSummaries) /\ Prefix(S, MaxSummaries)[i] = S[i]
    BY <1>0, <1>1, FirstParts
  <2>3. IsSequence(Prefix(R, MaxRelations)) /\ IsSequence(Prefix(X, MaxExcerpts))
    BY <1>0, <1>1, FirstParts
  <2> QED BY <2>1, <2>2, <2>3
<1>4. /\ c.droppedSummaries \in Nat /\ c.droppedRelations \in Nat /\ c.droppedExcerpts \in Nat
      /\ c.droppedSummaries = 0 => c.summaries = S
      /\ c.droppedRelations = 0 => c.relations = R
      /\ c.droppedExcerpts = 0 => c.excerpts = X
  <2>1. /\ c.droppedSummaries = Len(S) - Limited(Len(S), MaxSummaries)
        /\ c.summaries = Prefix(S, MaxSummaries)
        /\ c.droppedRelations = Len(R) - Limited(Len(R), MaxRelations)
        /\ c.relations = Prefix(R, MaxRelations)
        /\ c.droppedExcerpts = Len(X) - Limited(Len(X), MaxExcerpts)
        /\ c.excerpts = Prefix(X, MaxExcerpts)
    BY <1>2
  <2>2. /\ Len(S) - Limited(Len(S), MaxSummaries) \in Nat
        /\ Len(S) - Limited(Len(S), MaxSummaries) = 0 => Prefix(S, MaxSummaries) = S
    BY <1>0, <1>1, FirstParts
  <2>3. /\ Len(R) - Limited(Len(R), MaxRelations) \in Nat
        /\ Len(R) - Limited(Len(R), MaxRelations) = 0 => Prefix(R, MaxRelations) = R
    BY <1>0, <1>1, FirstParts
  <2>4. /\ Len(X) - Limited(Len(X), MaxExcerpts) \in Nat
        /\ Len(X) - Limited(Len(X), MaxExcerpts) = 0 => Prefix(X, MaxExcerpts) = X
    BY <1>0, <1>1, FirstParts
  <2> QED BY <2>1, <2>2, <2>3, <2>4
<1>5. c \in Contents(c)
  <2>1. /\ c.summaries \in Seq(ToSet(c.summaries)) /\ c.relations \in Seq(ToSet(c.relations))
        /\ c.excerpts \in Seq(ToSet(c.excerpts))
    BY <1>3 DEF IsSequence
  <2>2. c = [summaries |-> c.summaries, relations |-> c.relations, excerpts |-> c.excerpts,
             droppedSummaries |-> c.droppedSummaries, droppedRelations |-> c.droppedRelations,
             droppedExcerpts |-> c.droppedExcerpts]
    BY <1>2
  <2> QED BY <1>4, <2>1, <2>2 DEF Contents
<1>6. MustStay(c, c)
  BY DEF MustStay, ToSet
<1>7. \A s \in ToSet(c.summaries) : s.support \in Nat
  BY <1>3, SummaryPlaces DEF S
<1>8. ~Truncated(c) => c.summaries = S /\ c.relations = R /\ c.excerpts = X
  <2> SUFFICES ASSUME ~Truncated(c)
               PROVE  c.droppedSummaries = 0 /\ c.droppedRelations = 0 /\ c.droppedExcerpts = 0
    BY <1>4
  <2> QED BY <1>4 DEF Truncated
<1>9. ASSUME seal.gaps # {}
      PROVE  \E i \in DOMAIN c.summaries : c.summaries[i].kind = "evidence_gap"
  <2>1. PICK i \in DOMAIN S : i <= 10 /\ S[i].kind = "evidence_gap"
    BY <1>9, SummaryPlaces DEF S
  <2>2. i \in Nat
    BY <1>1, SequenceElements
  <2>3. i <= MaxSummaries
    BY <1>0, <2>1, <2>2
  <2> QED BY <1>3, <2>1, <2>3
<1> QED BY <1>5, <1>6, <1>7, <1>8, <1>9 DEF Reductions, S, R, X

LEMMA InputAdmits == ContentInv => TruncationIsAdmitted
<1> SUFFICES ASSUME ContentInv, Made(input), input.outcome # "unavailable"
             PROVE  LET kinds == {s.kind : s \in ToSet(input.content.summaries)}
                    IN  /\ \/ "budget_truncated" \in input.limitations
                           \/ /\ ToSet(input.content.summaries) = ToSet(Summaries(graph))
                              /\ Len(input.content.relations) = Len(Relations(graph))
                              /\ Len(input.content.excerpts) = Len(Excerpts(verification))
                        /\ {"run", "finalization"} \subseteq kinds
                        /\ seal.gaps # {} => "evidence_gap" \in kinds
  BY DEF TruncationIsAdmitted
<1> DEFINE f == FirstCut(graph, verification)
           c == Reduced(f)
           S == ToSet(input.content.summaries)
           kinds == {s.kind : s \in S}
<1>1. /\ Made(graph) /\ input = PrepareInput(RunRecord(verification), graph, verification)
      /\ input # Refused
  BY DEF ContentInv, ChainInv, Made
<1>2. input = InputDocument(graph, c) /\ InputIsValid(input)
  <2>1. Unavailable.outcome = "unavailable"
    BY DEF Unavailable
  <2> HIDE DEF c
  <2> QED BY <1>1, <2>1 DEF PrepareInput, c, f
<1>3. input.content = c
  <2> HIDE DEF c
  <2> QED BY <1>2 DEF InputDocument
<1> HIDE DEF f
<1>4. /\ f \in Reductions(f) /\ \A s \in ToSet(f.summaries) : s.support \in Nat
      /\ ~Truncated(f) => /\ f.summaries = Summaries(graph) /\ f.relations = Relations(graph)
                          /\ f.excerpts = Excerpts(verification)
      /\ seal.gaps # {} => \E i \in DOMAIN f.summaries : f.summaries[i].kind = "evidence_gap"
  BY <1>1, FirstCutIsSound DEF f
<1>5. c \in Reductions(f)
  BY <1>4, ReducedDocument
<1> HIDE DEF c
<1>6. (c = f \/ Truncated(c)) /\ MustStay(f, c) /\ c \in Contents(f)
  BY <1>5 DEF Reductions
<1>7. "budget_truncated" \in input.limitations <=> Truncated(c)
  BY <1>2, <1>3 DEF InputIsValid
<1>8. \/ "budget_truncated" \in input.limitations
      \/ /\ ToSet(input.content.summaries) = ToSet(Summaries(graph))
         /\ Len(input.content.relations) = Len(Relations(graph))
         /\ Len(input.content.excerpts) = Len(Excerpts(verification))
  BY <1>3, <1>4, <1>6, <1>7
<1>9. {"run", "finalization"} \subseteq kinds
  <2> DEFINE ofKind(k) == {s \in S : s.kind = k}
  <2>1. Cardinality(ofKind("run")) = 1 /\ Cardinality(ofKind("finalization")) = 1
    BY <1>2 DEF InputIsValid
  <2>2. Cardinality({}) = 0
    BY FS_EmptySet
  <2>3. ofKind("run") # {} /\ ofKind("finalization") # {}
    <3> HIDE DEF ofKind
    <3> QED BY <2>1, <2>2
  <2> QED BY <2>3
<1>10. ASSUME seal.gaps # {}
       PROVE  "evidence_gap" \in kinds
  <2>1. PICK i \in DOMAIN f.summaries : f.summaries[i].kind = "evidence_gap"
    BY <1>4, <1>10
  <2>2. DropPriority(f.summaries[i]) = 0
    BY <2>1 DEF DropPriority
  <2>3. f.summaries[i] \in ToSet(c.summaries)
    BY <1>6, <2>2 DEF MustStay
  <2> QED BY <1>3, <2>1, <2>3
<1> QED BY <1>8, <1>9, <1>10

(***************************************************************************)
(* A semantic input that does not say it was cut holds everything the      *)
(* graph has to show, and every input still says how the run ended and     *)
(* that it has gaps: the reduction (reducer.ts) drops only what it counts, *)
(* and never a summary of the run itself.                                  *)
(***************************************************************************)
THEOREM TruncationIsAlwaysAdmitted == ContentSpec => []TruncationIsAdmitted
BY ContentInvariant, InputAdmits, PTL

-----------------------------------------------------------------------------
(***************************************************************************)
(* The nodes of a graph, by what can be learnt from them: those of the     *)
(* run's end, of an event, a gap, a changed file, a label and a command,   *)
(* and the others, of which no fact is made but a reconciliation's.        *)
(***************************************************************************)
Form(n, kind, fields) == n.id.kind = kind /\ DOMAIN n.meta = fields

EndForm(n, run) ==
    /\ \/ Form(n, "run", {"terminalStatus"})
       \/ Form(n, "finalization", {"terminalStatus", "diagnostic"})
    /\ n.meta.terminalStatus = run.status
EventForm(n, run) ==
    Form(n, "event", {"eventType"}) /\ \E e \in ToSet(run.events) : n.meta.eventType = e.type
GapForm(n, run) == Form(n, "evidence_gap", {"gapCode"}) /\ run.gaps # {}
FileForm(n, run) ==
    /\ Form(n, "changed_file", {"changeKind", "attribution"})
    /\ \E x \in Files(run) : /\ n.id = FileNode(x[1], x[2], x[3].fileEvent)
                             /\ n.meta.changeKind = x[3].changeKind
                             /\ n.meta.attribution = x[3].attribution
LabelForm(n, c) ==
    /\ Form(n, "classification_label", {"label", "confidence"})
    /\ \E x \in Labels(c) : n.id = LabelNode(x[1], x[2].label) /\ n.meta.label = x[2].label
CommandForm(n, v) ==
    /\ Form(n, "command_observation", {"verificationKind", "observedStatus"})
    /\ \E x \in Observations(v) : /\ n.id = CommandNode(x[1], x[2].sourceEvent)
                                  /\ n.meta.verificationKind = x[2].kind
                                  /\ n.meta.observedStatus = x[2].status
CheckForm(n, v) ==
    /\ Form(n, "verification_observation", {"verificationKind", "observedStatus"})
    /\ \E x \in Recognized(v) : /\ n.id = VerificationNode(x[1], x[2].kind)
                                /\ n.meta.verificationKind = x[2].kind
                                /\ n.meta.observedStatus = x[2].status
OtherForm(n) ==
    \/ Form(n, "baseline", {"none"}) \/ Form(n, "artifact", {"artifactKind"})
    \/ Form(n, "reconciliation", {"attribution"}) \/ Form(n, "classification_entry", {"none"})
    \/ Form(n, "classification_rule", {"ruleId", "evidenceKind"})
    \/ Form(n, "test_file_change", {"verificationKind"})

LEMMA FormOfANode ==
    ASSUME NEW run, NEW c, NEW v, NEW n \in GraphNodes(run, c, v)
    PROVE  \/ EndForm(n, run) \/ EventForm(n, run) \/ GapForm(n, run) \/ FileForm(n, run)
           \/ LabelForm(n, c) \/ CommandForm(n, v) \/ CheckForm(n, v) \/ OtherForm(n)
<1>1. ASSUME n \in RunNodes(run)
      PROVE  EndForm(n, run) \/ EventForm(n, run) \/ GapForm(n, run) \/ OtherForm(n)
  <2>1. ASSUME n = Node(RunNode, [terminalStatus |-> run.status])
        PROVE  EndForm(n, run)
    BY <2>1 DEF Node, Id, RunNode, EndForm, Form
  <2>2. ASSUME n = Node(FinalizationNode, [terminalStatus |-> run.status,
                                           diagnostic |-> run.diagnostic])
        PROVE  EndForm(n, run)
    BY <2>2 DEF Node, Id, FinalizationNode, EndForm, Form
  <2>3. ASSUME NEW e \in ToSet(run.events), n = Node(EventNode(e.id), [eventType |-> e.type])
        PROVE  EventForm(n, run)
    <3>1. Form(n, "event", {"eventType"}) /\ n.meta.eventType = e.type
      BY <2>3 DEF Node, Id, EventNode, Form
    <3> QED BY <3>1 DEF EventForm
  <2>4. ASSUME n = Node(BaselineNode, NoMeta)
        PROVE  OtherForm(n)
    BY <2>4 DEF Node, Id, BaselineNode, NoMeta, OtherForm, Form
  <2>5. ASSUME NEW g \in run.gaps, n = Node(GapNode(g.id), [gapCode |-> g.code])
        PROVE  GapForm(n, run)
    BY <2>5 DEF Node, Id, GapNode, GapForm, Form
  <2>6. ASSUME NEW role, n = Node(ArtifactNode(role), [artifactKind |-> role])
        PROVE  OtherForm(n)
    BY <2>6 DEF Node, Id, ArtifactNode, OtherForm, Form
  <2> DEFINE A == {Node(EventNode(e.id), [eventType |-> e.type]) : e \in ToSet(run.events)}
             B == IF run.baseline = None THEN {} ELSE {Node(BaselineNode, NoMeta)}
             G == {Node(GapNode(g.id), [gapCode |-> g.code]) : g \in run.gaps}
             F == {Node(ArtifactNode(role), [artifactKind |-> role]) :
                     role \in {"classification", "verification"}
                              \cup (IF run.manifest THEN {"manifest"} ELSE {})}
             E == {Node(RunNode, [terminalStatus |-> run.status]),
                   Node(FinalizationNode, [terminalStatus |-> run.status,
                                           diagnostic |-> run.diagnostic])}
  <2>7. RunNodes(run) = E \cup A \cup B \cup G \cup F
    BY DEF RunNodes
  <2>8. n \in A => EventForm(n, run)
    BY <2>3
  <2>9. n \in B => OtherForm(n)
    <3>1. B \subseteq {Node(BaselineNode, NoMeta)}
      OBVIOUS
    <3> HIDE DEF B
    <3> QED BY <2>4, <3>1
  <2>10. n \in G => GapForm(n, run)
    BY <2>5
  <2>11. n \in F => OtherForm(n)
    BY <2>6
  <2>12. n \in E => EndForm(n, run)
    <3>1. n \in E => \/ n = Node(RunNode, [terminalStatus |-> run.status])
                     \/ n = Node(FinalizationNode, [terminalStatus |-> run.status,
                                                    diagnostic |-> run.diagnostic])
      OBVIOUS
    <3> HIDE DEF E
    <3> QED BY <2>1, <2>2, <3>1
  <2> HIDE DEF A, B, G, F, E
  <2> QED BY <1>1, <2>7, <2>8, <2>9, <2>10, <2>11, <2>12
<1>2. ASSUME n \in FileNodes(run)
      PROVE  FileForm(n, run) \/ OtherForm(n)
  <2>1. ASSUME NEW r, n = Node(ReconciliationNode(r),
                               [attribution |-> run.reconciliations[r].attribution])
        PROVE  OtherForm(n)
    BY <2>1 DEF Node, Id, ReconciliationNode, OtherForm, Form
  <2>2. ASSUME NEW f \in Files(run),
               n = Node(FileNode(f[1], f[2], f[3].fileEvent),
                        [changeKind |-> f[3].changeKind, attribution |-> f[3].attribution])
        PROVE  FileForm(n, run)
    <3>1. n.id = FileNode(f[1], f[2], f[3].fileEvent)
          /\ n.meta = [changeKind |-> f[3].changeKind, attribution |-> f[3].attribution]
      BY <2>2 DEF Node
    <3>2. n.id.kind = "changed_file"
      <4>1. \A a, b, e : FileNode(a, b, e).kind = "changed_file"
        BY DEF FileNode, Id
      <4> QED BY <3>1, <4>1
    <3>3. /\ DOMAIN n.meta = {"changeKind", "attribution"}
          /\ n.meta.changeKind = f[3].changeKind /\ n.meta.attribution = f[3].attribution
      BY <3>1
    <3> QED BY <3>1, <3>2, <3>3 DEF FileForm, Form
  <2> QED BY <1>2, <2>1, <2>2 DEF FileNodes
<1>3. ASSUME n \in ClassificationNodes(c)
      PROVE  LabelForm(n, c) \/ OtherForm(n)
  <2>1. ASSUME NEW x, n = Node(EntryNode(x[1], x[2].fileEvent), NoMeta)
        PROVE  OtherForm(n)
    BY <2>1 DEF Node, Id, EntryNode, NoMeta, OtherForm, Form
  <2>2. ASSUME NEW x \in Labels(c),
               n = Node(LabelNode(x[1], x[2].label),
                        [label |-> x[2].label, confidence |-> x[2].confidence])
        PROVE  LabelForm(n, c)
    <3>1. n.id = LabelNode(x[1], x[2].label)
          /\ n.meta = [label |-> x[2].label, confidence |-> x[2].confidence]
      BY <2>2 DEF Node
    <3>2. n.id.kind = "classification_label"
      BY <3>1 DEF LabelNode, Id
    <3>3. DOMAIN n.meta = {"label", "confidence"} /\ n.meta.label = x[2].label
      BY <3>1
    <3> QED BY <3>1, <3>2, <3>3 DEF LabelForm, Form
  <2>3. ASSUME NEW x, n = Node(RuleNode(x[3].ruleId),
                               [ruleId |-> x[3].ruleId, evidenceKind |-> x[3].kind])
        PROVE  OtherForm(n)
    BY <2>3 DEF Node, Id, RuleNode, OtherForm, Form
  <2> QED BY <1>3, <2>1, <2>2, <2>3 DEF ClassificationNodes
<1>4. ASSUME n \in VerificationNodes(v)
      PROVE  CommandForm(n, v) \/ CheckForm(n, v) \/ OtherForm(n)
  <2>1. ASSUME NEW x \in Observations(v),
               n = Node(CommandNode(x[1], x[2].sourceEvent),
                        [verificationKind |-> x[2].kind, observedStatus |-> x[2].status])
        PROVE  CommandForm(n, v)
    <3>1. n.id = CommandNode(x[1], x[2].sourceEvent)
          /\ n.meta = [verificationKind |-> x[2].kind, observedStatus |-> x[2].status]
      BY <2>1 DEF Node
    <3>2. n.id.kind = "command_observation"
      <4>1. \A a, b : CommandNode(a, b).kind = "command_observation"
        BY DEF CommandNode, Id
      <4> QED BY <3>1, <4>1
    <3>3. /\ DOMAIN n.meta = {"verificationKind", "observedStatus"}
          /\ n.meta.verificationKind = x[2].kind /\ n.meta.observedStatus = x[2].status
      BY <3>1
    <3> QED BY <3>1, <3>2, <3>3 DEF CommandForm, Form
  <2>2. ASSUME NEW x \in Recognized(v),
               n = Node(VerificationNode(x[1], x[2].kind),
                        [verificationKind |-> x[2].kind, observedStatus |-> x[2].status])
        PROVE  CheckForm(n, v)
    <3>1. n.id = VerificationNode(x[1], x[2].kind)
          /\ n.meta = [verificationKind |-> x[2].kind, observedStatus |-> x[2].status]
      BY <2>2 DEF Node
    <3>2. n.id.kind = "verification_observation"
      BY <3>1 DEF VerificationNode, Id
    <3>3. /\ DOMAIN n.meta = {"verificationKind", "observedStatus"}
          /\ n.meta.verificationKind = x[2].kind /\ n.meta.observedStatus = x[2].status
      BY <3>1
    <3> QED BY <3>1, <3>2, <3>3 DEF CheckForm, Form
  <2>3. ASSUME NEW t, n = Node(TestFileNode(t.entry, t.fileEvent), [verificationKind |-> "test"])
        PROVE  OtherForm(n)
    BY <2>3 DEF Node, Id, TestFileNode, OtherForm, Form
  <2> QED BY <1>4, <2>1, <2>2, <2>3 DEF VerificationNodes
<1> QED
  BY <1>1, <1>2, <1>3, <1>4 DEF GraphNodes

(***************************************************************************)
(* What facts are made of a node, and which nodes show a fact.             *)
(***************************************************************************)
Family(f, name, node, field) ==
    field \in DOMAIN node.meta /\ f = <<name, node.meta[field]>>

LEMMA FieldsOfAFact ==
    ASSUME NEW node, NEW f
    PROVE  f \in FactsOf(node) <=>
               \/ Family(f, "terminal_status", node, "terminalStatus")
               \/ Family(f, "change_kind", node, "changeKind")
               \/ Family(f, "attribution", node, "attribution")
               \/ Family(f, "classification_label", node, "label")
               \/ Family(f, "evidence_gap", node, "gapCode")
               \/ /\ {"verificationKind", "observedStatus"} \subseteq DOMAIN node.meta
                  /\ f = <<node.meta["verificationKind"], node.meta["observedStatus"]>>
               \/ /\ node.id.kind = "event" /\ node.meta["eventType"] \in DecisionTypes
                  /\ f = <<"decision_observed", node.meta["eventType"]>>
<1> DEFINE p(name, field) == {<<name, node.meta[f1]>> : f1 \in {field} \cap DOMAIN node.meta}
           p6 == IF Has(node, "verificationKind") /\ Has(node, "observedStatus")
                 THEN {<<node.meta.verificationKind, node.meta.observedStatus>>} ELSE {}
           p7 == {<<"decision_observed", t>> :
                    t \in IF node.id.kind = "event" THEN {node.meta.eventType} \cap DecisionTypes
                          ELSE {}}
<1>1. \A name, field : f \in p(name, field) <=> Family(f, name, node, field)
  BY DEF Family
<1>2. f \in p6 <=> /\ {"verificationKind", "observedStatus"} \subseteq DOMAIN node.meta
                   /\ f = <<node.meta["verificationKind"], node.meta["observedStatus"]>>
  BY DEF Has
<1>3. f \in p7 <=> /\ node.id.kind = "event" /\ node.meta["eventType"] \in DecisionTypes
                   /\ f = <<"decision_observed", node.meta["eventType"]>>
  OBVIOUS
<1>4. FactsOf(node) = p("terminal_status", "terminalStatus") \cup p("change_kind", "changeKind")
                      \cup p("attribution", "attribution") \cup p("classification_label", "label")
                      \cup p("evidence_gap", "gapCode") \cup p6 \cup p7
  BY DEF FactsOf
<1> HIDE DEF p, p6, p7
<1> QED
  BY <1>1, <1>2, <1>3, <1>4

LEMMA FactsOfAForm ==
    ASSUME NEW run, NEW c, NEW v, NEW n \in GraphNodes(run, c, v), NEW f \in FactsOf(n)
    PROVE  \/ EndForm(n, run) /\ f = <<"terminal_status", run.status>>
           \/ FileForm(n, run) /\ f = <<"change_kind", n.meta.changeKind>>
           \/ FileForm(n, run) /\ f = <<"attribution", n.meta.attribution>>
           \/ n.id.kind = "reconciliation" /\ f = <<"attribution", n.meta.attribution>>
           \/ LabelForm(n, c) /\ f = <<"classification_label", n.meta.label>>
           \/ GapForm(n, run) /\ f = <<"evidence_gap", n.meta.gapCode>>
           \/ /\ CommandForm(n, v) \/ CheckForm(n, v)
              /\ f = <<n.meta.verificationKind, n.meta.observedStatus>>
           \/ /\ f[1] = "decision_observed"
              /\ \E e \in ToSet(run.events) : e.type \in DecisionTypes
<1>1. \/ EndForm(n, run) \/ EventForm(n, run) \/ GapForm(n, run) \/ FileForm(n, run)
      \/ LabelForm(n, c) \/ CommandForm(n, v) \/ CheckForm(n, v) \/ OtherForm(n)
  BY FormOfANode
<1>2. \/ Family(f, "terminal_status", n, "terminalStatus")
      \/ Family(f, "change_kind", n, "changeKind")
      \/ Family(f, "attribution", n, "attribution")
      \/ Family(f, "classification_label", n, "label")
      \/ Family(f, "evidence_gap", n, "gapCode")
      \/ /\ {"verificationKind", "observedStatus"} \subseteq DOMAIN n.meta
         /\ f = <<n.meta["verificationKind"], n.meta["observedStatus"]>>
      \/ /\ n.id.kind = "event" /\ n.meta["eventType"] \in DecisionTypes
         /\ f = <<"decision_observed", n.meta["eventType"]>>
  BY FieldsOfAFact
<1>3. CASE Family(f, "terminal_status", n, "terminalStatus")
  <2>1. EndForm(n, run)
    BY <1>1, <1>3 DEF Family, Form, EventForm, GapForm, FileForm, LabelForm, CommandForm,
       CheckForm, OtherForm
  <2> QED BY <1>3, <2>1 DEF Family, EndForm
<1>4. CASE Family(f, "change_kind", n, "changeKind")
  <2>1. FileForm(n, run)
    BY <1>1, <1>4 DEF Family, Form, EndForm, EventForm, GapForm, LabelForm, CommandForm,
       CheckForm, OtherForm
  <2> QED BY <1>4, <2>1 DEF Family
<1>5. CASE Family(f, "attribution", n, "attribution")
  <2>1. FileForm(n, run) \/ n.id.kind = "reconciliation"
    BY <1>1, <1>5 DEF Family, Form, EndForm, EventForm, GapForm, LabelForm, CommandForm,
       CheckForm, OtherForm
  <2> QED BY <1>5, <2>1 DEF Family
<1>6. CASE Family(f, "classification_label", n, "label")
  <2>1. LabelForm(n, c)
    BY <1>1, <1>6 DEF Family, Form, EndForm, EventForm, GapForm, FileForm, CommandForm,
       CheckForm, OtherForm
  <2> QED BY <1>6, <2>1 DEF Family
<1>7. CASE Family(f, "evidence_gap", n, "gapCode")
  <2>1. GapForm(n, run)
    BY <1>1, <1>7 DEF Family, Form, EndForm, EventForm, FileForm, LabelForm, CommandForm,
       CheckForm, OtherForm
  <2> QED BY <1>7, <2>1 DEF Family
<1>8. CASE /\ {"verificationKind", "observedStatus"} \subseteq DOMAIN n.meta
           /\ f = <<n.meta["verificationKind"], n.meta["observedStatus"]>>
  <2>1. CommandForm(n, v) \/ CheckForm(n, v)
    BY <1>1, <1>8 DEF Form, EndForm, EventForm, GapForm, FileForm, LabelForm, OtherForm
  <2> QED BY <1>8, <2>1
<1>9. CASE /\ n.id.kind = "event" /\ n.meta["eventType"] \in DecisionTypes
           /\ f = <<"decision_observed", n.meta["eventType"]>>
  <2>1. EventForm(n, run)
    BY <1>1, <1>9 DEF Form, EndForm, GapForm, FileForm, LabelForm, CommandForm,
       CheckForm, OtherForm
  <2>2. f[1] = "decision_observed"
    BY <1>9
  <2> QED BY <1>9, <2>1, <2>2 DEF EventForm
<1> QED
  BY <1>2, <1>3, <1>4, <1>5, <1>6, <1>7, <1>8, <1>9

LEMMA FormsShowFacts ==
    ASSUME NEW run, NEW c, NEW v, NEW n
    PROVE  /\ FileForm(n, run) => <<"change_kind", n.meta.changeKind>> \in FactsOf(n)
           /\ LabelForm(n, c) => <<"classification_label", n.meta.label>> \in FactsOf(n)
           /\ CommandForm(n, v) \/ CheckForm(n, v) =>
                  <<n.meta.verificationKind, n.meta.observedStatus>> \in FactsOf(n)
<1>1. ASSUME FileForm(n, run)
      PROVE  <<"change_kind", n.meta.changeKind>> \in FactsOf(n)
  <2>1. Family(<<"change_kind", n.meta.changeKind>>, "change_kind", n, "changeKind")
    BY <1>1 DEF FileForm, Form, Family
  <2> QED BY <2>1, FieldsOfAFact
<1>2. ASSUME LabelForm(n, c)
      PROVE  <<"classification_label", n.meta.label>> \in FactsOf(n)
  <2>1. Family(<<"classification_label", n.meta.label>>, "classification_label", n, "label")
    BY <1>2 DEF LabelForm, Form, Family
  <2> QED BY <2>1, FieldsOfAFact
<1>3. ASSUME CommandForm(n, v) \/ CheckForm(n, v)
      PROVE  <<n.meta.verificationKind, n.meta.observedStatus>> \in FactsOf(n)
  <2>1. {"verificationKind", "observedStatus"} \subseteq DOMAIN n.meta
    BY <1>3 DEF CommandForm, CheckForm, Form
  <2> QED BY <2>1, FieldsOfAFact
<1> QED
  BY <1>1, <1>2, <1>3

-----------------------------------------------------------------------------
(***************************************************************************)
(* The edges a candidate's evidence is expanded by join the places of a    *)
(* change with each other, and a recognized command with its check.        *)
(***************************************************************************)
Joins(e, v) ==
    e[1] \in ExpansionTypes =>
        \/ e[2].kind \in ChangePlaces /\ e[3].kind \in ChangePlaces
        \/ \E x \in Recognized(v) : /\ e[2] = CommandNode(x[1], x[2].sourceEvent)
                                    /\ e[3] = VerificationNode(x[1], x[2].kind)

LEMMA OtherEdges ==
    ASSUME NEW v, NEW t, t \notin ExpansionTypes
    PROVE  \A a, b : Joins(<<t, a, b>>, v)
BY DEF Joins

LEMMA OtherEdgeTypes ==
    /\ "run_contains" \notin ExpansionTypes /\ "normalized_with" \notin ExpansionTypes
    /\ "baseline_recorded_by" \notin ExpansionTypes /\ "run_has_gap" \notin ExpansionTypes
    /\ "run_materialized_artifact" \notin ExpansionTypes
    /\ "reconciliation_triggered_by" \notin ExpansionTypes
    /\ "reconciliation_summarized_by" \notin ExpansionTypes
    /\ "reconciliation_observed_file" \notin ExpansionTypes
    /\ "changed_file_emitted_event" \notin ExpansionTypes
    /\ "finalization_triggered_by" \notin ExpansionTypes
    /\ "finalization_uses_reconciliation" \notin ExpansionTypes
    /\ "finalization_emitted_event" \notin ExpansionTypes
    /\ "finalization_materialized_artifact" \notin ExpansionTypes
    /\ "classification_supported_by_rule" \notin ExpansionTypes
    /\ "command_observed_from_event" \notin ExpansionTypes
    /\ "command_emitted_event" \notin ExpansionTypes
    /\ "verification_emitted_event" \notin ExpansionTypes
BY DEF ExpansionTypes

LEMMA ChangeEdges ==
    ASSUME NEW v, NEW t, NEW a, NEW b, a.kind \in ChangePlaces, b.kind \in ChangePlaces
    PROVE  Joins(<<t, a, b>>, v)
BY DEF Joins

LEMMA ChangeNodes ==
    /\ \A a, b, e : FileNode(a, b, e).kind \in ChangePlaces
    /\ \A a, e : EntryNode(a, e).kind \in ChangePlaces
    /\ \A a, l : LabelNode(a, l).kind \in ChangePlaces
    /\ \A a, e : TestFileNode(a, e).kind \in ChangePlaces
<1>1. \A a, b, e : FileNode(a, b, e).kind = "changed_file"
  BY DEF FileNode, Id
<1>2. \A a, e : EntryNode(a, e).kind = "classification_entry"
  BY DEF EntryNode, Id
<1>3. \A a, l : LabelNode(a, l).kind = "classification_label"
  BY DEF LabelNode, Id
<1>4. \A a, e : TestFileNode(a, e).kind = "test_file_change"
  BY DEF TestFileNode, Id
<1> QED BY <1>1, <1>2, <1>3, <1>4 DEF ChangePlaces

LEMMA RunEdgesJoin == ASSUME NEW run, NEW v, NEW e \in RunEdges(run) PROVE Joins(e, v)
<1>1. \A x \in SiblingEdges(run.groups) : Joins(x, v)
  BY OtherEdges, OtherEdgeTypes DEF SiblingEdges
<1>2. \A x \in RunEdges(run) \ SiblingEdges(run.groups) : Joins(x, v)
  BY OtherEdges, OtherEdgeTypes DEF RunEdges
<1> QED BY <1>1, <1>2

LEMMA FileEdgesJoin == ASSUME NEW run, NEW v, NEW e \in FileEdges(run) PROVE Joins(e, v)
<1> DEFINE of(r) == {<<"run_contains", RunNode, ReconciliationNode(r)>>,
            <<"reconciliation_triggered_by", ReconciliationNode(r),
              EventNode(run.reconciliations[r].trigger)>>,
            <<"reconciliation_summarized_by", ReconciliationNode(r),
              EventNode(run.reconciliations[r].summary)>>}
           by(f) == {<<"run_contains", RunNode, FileNode(f[1], f[2], f[3].fileEvent)>>,
                     <<"reconciliation_observed_file", ReconciliationNode(f[1]),
                       FileNode(f[1], f[2], f[3].fileEvent)>>,
                     <<"changed_file_emitted_event", FileNode(f[1], f[2], f[3].fileEvent),
                       EventNode(f[3].fileEvent)>>}
<1>1. \A r : \A x \in of(r) : Joins(x, v)
  BY OtherEdges, OtherEdgeTypes
<1>2. \A f : \A x \in by(f) : Joins(x, v)
  BY OtherEdges, OtherEdgeTypes
<1>3. FileEdges(run) = (UNION {of(r) : r \in DOMAIN run.reconciliations})
                       \cup (UNION {by(f) : f \in Files(run)})
  BY DEF FileEdges
<1> HIDE DEF of, by
<1> DEFINE U == UNION {of(r) : r \in DOMAIN run.reconciliations}
           W == UNION {by(f) : f \in Files(run)}
<1>4. (\A x \in U : Joins(x, v)) /\ \A x \in W : Joins(x, v)
  BY <1>1, <1>2
<1>5. FileEdges(run) = U \cup W
  BY <1>3
<1> HIDE DEF U, W
<1> QED BY <1>4, <1>5

LEMMA ClassificationEdgesJoin ==
    ASSUME NEW run, NEW c, NEW v, NEW e \in ClassificationEdges(run, c) PROVE Joins(e, v)
<1> DEFINE U == {<<"run_contains", RunNode, EntryNode(x[1], x[2].fileEvent)>> : x \in Entries(c)}
           V == UNION {{<<"changed_file_classified_by", FileNode(f[1], f[2], f[3].fileEvent),
                          EntryNode(x[1], x[2].fileEvent)>> :
                          f \in {f \in Files(run) : f[3].fileEvent = x[2].fileEvent}} :
                          x \in Entries(c)}
           W == {<<"classification_assigned_label", EntryNode(x[1], c.entries[x[1]].fileEvent),
                   LabelNode(x[1], x[2].label)>> : x \in Labels(c)}
           Z == {<<"classification_supported_by_rule", LabelNode(x[1], x[2]),
                   RuleNode(x[3].ruleId)>> : x \in Rules(c)}
<1>1. \A y \in U : Joins(y, v)
  BY OtherEdges, OtherEdgeTypes
<1>2. \A y \in V : Joins(y, v)
  BY ChangeEdges, ChangeNodes
<1>3. \A y \in W : Joins(y, v)
  BY ChangeEdges, ChangeNodes
<1>4. \A y \in Z : Joins(y, v)
  BY OtherEdges, OtherEdgeTypes
<1>5. ClassificationEdges(run, c) = U \cup V \cup W \cup Z
  BY DEF ClassificationEdges
<1> HIDE DEF U, V, W, Z
<1> QED BY <1>1, <1>2, <1>3, <1>4, <1>5

LEMMA VerificationEdgesJoin == ASSUME NEW v, NEW e \in VerificationEdges(v) PROVE Joins(e, v)
<1> DEFINE of(x) == {<<"run_contains", RunNode, CommandNode(x[1], x[2].sourceEvent)>>,
                <<"command_observed_from_event", CommandNode(x[1], x[2].sourceEvent),
                  EventNode(x[2].sourceEvent)>>,
                <<"command_emitted_event", CommandNode(x[1], x[2].sourceEvent),
                  EventNode(x[2].commandEvent)>>}
           check(x) == <<"command_has_verification", CommandNode(x[1], x[2].sourceEvent),
                         VerificationNode(x[1], x[2].kind)>>
           done(x) == <<"verification_emitted_event", VerificationNode(x[1], x[2].kind),
                        EventNode(x[2].verificationEvent)>>
           for(t) == {<<"run_contains", RunNode, TestFileNode(t.entry, t.fileEvent)>>,
                     <<"test_file_change_supported_by_classification",
                       TestFileNode(t.entry, t.fileEvent), EntryNode(t.entry, t.fileEvent)>>}
<1>1. \A y : \A x \in of(y) : Joins(x, v)
  BY OtherEdges, OtherEdgeTypes
<1>2. \A y \in Recognized(v) : Joins(check(y), v)
  BY DEF Joins
<1>3. \A y : Joins(done(y), v)
  BY OtherEdges, OtherEdgeTypes
<1>4. \A y : \A x \in for(y) : Joins(x, v)
  BY OtherEdges, OtherEdgeTypes, ChangeEdges, ChangeNodes
<1>5. VerificationEdges(v) = (UNION {of(x) : x \in Observations(v)})
                             \cup (UNION {{check(x), done(x)} : x \in Recognized(v)})
                             \cup (UNION {for(t) : t \in v.testFileChanges})
  BY DEF VerificationEdges
<1> HIDE DEF of, check, done, for
<1> DEFINE U == UNION {of(x) : x \in Observations(v)}
           W == UNION {{check(x), done(x)} : x \in Recognized(v)}
           Z == UNION {for(t) : t \in v.testFileChanges}
<1>6. (\A x \in U : Joins(x, v)) /\ (\A x \in W : Joins(x, v)) /\ \A x \in Z : Joins(x, v)
  BY <1>1, <1>2, <1>3, <1>4
<1>7. VerificationEdges(v) = U \cup W \cup Z
  BY <1>5
<1> HIDE DEF U, W, Z
<1> QED BY <1>6, <1>7

LEMMA GraphEdgesJoin ==
    ASSUME NEW run, NEW c, NEW v, NEW e \in GraphEdges(run, c, v) PROVE Joins(e, v)
<1>1. ASSUME e \in FinalizationEdges(run) PROVE Joins(e, v)
  BY <1>1, OtherEdges, OtherEdgeTypes DEF FinalizationEdges
<1> QED
  BY <1>1, RunEdgesJoin, FileEdgesJoin, ClassificationEdgesJoin, VerificationEdgesJoin DEF GraphEdges

(***************************************************************************)
(* What the evidence of a candidate is expanded to are places of the graph,*)
(* and a command is among them only with its check.                        *)
(***************************************************************************)
LEMMA SomeAreElements ==
    ASSUME NEW S, IsFiniteSet(S), NEW n \in Int
    PROVE  Some(S, n) \subseteq S
<1>1. CASE n \in Nat
  BY <1>1, SomeOf
<1>2. CASE n \notin Nat
  <2>1. 1 .. n = {}
    BY <1>2
  <2>2. {InSomeOrder(S)[i] : i \in 1 .. n} = {}
    BY <2>1
  <2> QED BY <2>2 DEF Some
<1> QED BY <1>1, <1>2

Supported(places) ==
    \A id \in places :
        /\ id.kind # "reconciliation"
        /\ id.kind = "command_observation" =>
               \E x \in Recognized(verification) :
                   /\ id = CommandNode(x[1], x[2].sourceEvent)
                   /\ VerificationNode(x[1], x[2].kind) \in places

LEMMA NeighboursAreSupported ==
    ASSUME ContentInv, Made(graph), NEW places, Supported(places), NEW more,
           more \subseteq Neighbours(places, {e \in graph.edges : e[1] \in ExpansionTypes})
    PROVE  more \subseteq Ids(graph.nodes) /\ Supported(places \cup more)
<1> DEFINE edges == {e \in graph.edges : e[1] \in ExpansionTypes}
<1>1. \A e \in graph.edges : {e[2], e[3]} \subseteq Ids(graph.nodes)
  BY BuiltGraph DEF GraphIsValid
<1>2. \A e \in graph.edges : Joins(e, verification)
  BY BuiltGraph, GraphEdgesJoin DEF Graph
<1>3. ASSUME NEW id \in more
      PROVE  \E e \in edges : (e[2] \in places /\ id = e[3]) \/ (e[3] \in places /\ id = e[2])
  <2>1. id \in Neighbours(places, edges)
    BY <1>3
  <2> HIDE DEF edges
  <2>2. \/ id \in {e[3] : e \in {e \in edges : e[2] \in places}}
        \/ id \in {e[2] : e \in {e \in edges : e[3] \in places}}
    BY <2>1 DEF Neighbours
  <2> QED BY <2>2
<1>4. more \subseteq Ids(graph.nodes)
  BY <1>1, <1>3
<1>5. ASSUME NEW id \in more
      PROVE  /\ id.kind # "reconciliation"
             /\ id.kind = "command_observation" =>
                    \E x \in Recognized(verification) :
                        /\ id = CommandNode(x[1], x[2].sourceEvent)
                        /\ VerificationNode(x[1], x[2].kind) \in places
  <2>1. PICK e \in edges : (e[2] \in places /\ id = e[3]) \/ (e[3] \in places /\ id = e[2])
    BY <1>3
  <2>2. CASE e[2].kind \in ChangePlaces /\ e[3].kind \in ChangePlaces
    BY <2>1, <2>2 DEF ChangePlaces
  <2>3. ASSUME NEW x \in Recognized(verification),
               e[2] = CommandNode(x[1], x[2].sourceEvent), e[3] = VerificationNode(x[1], x[2].kind)
        PROVE  /\ id.kind # "reconciliation"
               /\ id.kind = "command_observation" =>
                      \E y \in Recognized(verification) :
                          /\ id = CommandNode(y[1], y[2].sourceEvent)
                          /\ VerificationNode(y[1], y[2].kind) \in places
    <3>1. \A a, k : VerificationNode(a, k).kind = "verification_observation"
      BY DEF VerificationNode, Id
    <3>2. \A a, k : CommandNode(a, k).kind = "command_observation"
      BY DEF CommandNode, Id
    <3>3. CASE id = e[3]
      BY <2>3, <3>1, <3>3
    <3>4. CASE id = e[2] /\ e[3] \in places
      BY <2>3, <3>2, <3>4
    <3> QED BY <2>1, <3>3, <3>4
  <2> QED BY <1>2, <2>1, <2>2, <2>3 DEF Joins
<1> QED
  BY <1>4, <1>5 DEF Supported

Grown(cites, seen) ==
    LET edges == {e \in graph.edges : e[1] \in ExpansionTypes}
    IN  seen \cup Some(Neighbours(cites \cup seen, edges) \ (cites \cup seen),
                      MaxExpanded - Cardinality(seen))

LEMMA GraphPlacesAreFinite ==
    ASSUME ContentInv, Made(graph)
    PROVE  IsFiniteSet(Ids(graph.nodes))
<1> DEFINE f == [n \in graph.nodes |-> n.id]
<1>1. Ids(graph.nodes) = Range(f) /\ DOMAIN f = graph.nodes
  BY DEF Ids, Range
<1>2. IsFiniteSet(graph.nodes)
  BY BuiltGraph
<1> HIDE DEF f
<1> QED BY <1>1, <1>2, FiniteImage

\* The places around others are places of the graph, so finitely many.
LEMMA PlacesAround ==
    ASSUME ContentInv, Made(graph), NEW cites, NEW seen \in SUBSET Ids(graph.nodes)
    PROVE  LET edges == {e \in graph.edges : e[1] \in ExpansionTypes}
               next  == Neighbours(cites \cup seen, edges) \ (cites \cup seen)
           IN  /\ next \subseteq Ids(graph.nodes) /\ IsFiniteSet(next)
               /\ MaxExpanded - Cardinality(seen) \in Int
<1> DEFINE edges == {e \in graph.edges : e[1] \in ExpansionTypes}
           next  == Neighbours(cites \cup seen, edges) \ (cites \cup seen)
<1>1. \A e \in graph.edges : {e[2], e[3]} \subseteq Ids(graph.nodes)
  BY BuiltGraph DEF GraphIsValid
<1>2. next \subseteq Ids(graph.nodes)
  BY <1>1 DEF Neighbours
<1>3. IsFiniteSet(Ids(graph.nodes))
  BY GraphPlacesAreFinite
<1>4. IsFiniteSet(seen)
  BY <1>3, FS_Subset
<1>5. Cardinality(seen) \in Nat /\ MaxExpanded \in Nat
  BY <1>4, FS_CardinalityType, ValidationLimits
<1>6. IsFiniteSet(next)
  <2> HIDE DEF next
  <2> QED BY <1>2, <1>3, FS_Subset
<1>7. MaxExpanded - Cardinality(seen) \in Int
  BY <1>5
<1> QED
  BY <1>2, <1>6, <1>7, Zenon

LEMMA ExpansionKeeps ==
    ASSUME NEW cites, NEW V, {} \in V, \A seen \in V : Grown(cites, seen) \in V
    PROVE  Expanded(cites, graph) \in V
<1> DEFINE edges == {e \in graph.edges : e[1] \in ExpansionTypes}
           grow(seen) == seen \cup Some(Neighbours(cites \cup seen, edges) \ (cites \cup seen),
                                        MaxExpanded - Cardinality(seen))
           s == <<1, 2, 3>>
           Body(f) == [u \in SUBSET (DOMAIN s) |-> IF u = {} THEN {} ELSE grow(f[u \ {Max(u)}])]
           it == CHOOSE f : f = Body(f)
           step == [p \in V \X (1 .. 3) |-> grow(p[1])]
<1>0. DOMAIN s = 1 .. 3 /\ Len(s) = 3
  OBVIOUS
<1>1. FoldLeft(LAMBDA seen, n : grow(seen), {}, s) = it[1 .. 3]
  BY <1>0 DEF FoldLeft, MapThenFoldSet
<1>2. Expanded(cites, graph) = FoldLeft(LAMBDA seen, n : grow(seen), {}, s)
  BY DEF Expanded
<1>3. ASSUME NEW seen \in V PROVE grow(seen) \in V
  <2>1. grow(seen) = Grown(cites, seen)
    BY DEF Grown
  <2> HIDE DEF grow
  <2> QED BY <2>1
<1> HIDE DEF grow
<1>4. \E f : f = Body(f) /\ f \in [SUBSET (1 .. 3) -> V]
  <2>1. step \in [V \X (1 .. 3) -> V]
    <3> QED BY <1>3
  <2>2. PICK f \in [SUBSET (1 .. 3) -> V] : IsLeftFold(f, 3, {}, step)
    <3> HIDE DEF step
    <3> QED BY <2>1, LeftFoldExists
  <2>3. ASSUME NEW u \in SUBSET (1 .. 3)
        PROVE  f[u] = IF u = {} THEN {} ELSE grow(f[u \ {Max(u)}])
    <3>1. CASE u = {}
      <4> HIDE DEF step
      <4> QED BY <2>2, <3>1 DEF IsLeftFold
    <3>2. CASE u # {}
      <4>0. 3 \in Nat
        OBVIOUS
      <4>1. Max(u) \in 1 .. 3 /\ u \ {Max(u)} \in SUBSET (1 .. 3) /\ f[u \ {Max(u)}] \in V
        BY <4>0, <3>2, MaxIn
      <4>2. f[u] = step[<<f[u \ {Max(u)}], Max(u)>>]
        <5> HIDE DEF step
        <5> QED BY <2>2, <3>2 DEF IsLeftFold
      <4>3. step[<<f[u \ {Max(u)}], Max(u)>>] = grow(f[u \ {Max(u)}])
        BY <4>1
      <4> QED BY <3>2, <4>2, <4>3
    <3> QED BY <3>1, <3>2
  <2>4. f = Body(f)
    <3> HIDE DEF step
    <3>1. DOMAIN f = SUBSET (1 .. 3) /\ f = [u \in SUBSET (1 .. 3) |-> f[u]]
      OBVIOUS
    <3> QED BY <1>0, <2>3, <3>1
  <2> HIDE DEF Body
  <2> QED BY <2>4
<1>5. it = Body(it)
  <2> HIDE DEF Body
  <2> QED BY <1>4
<1> HIDE DEF it
<1>6. it[{}] = {}
  BY <1>5
<1>7. ASSUME NEW k \in 0 .. (3 - 1), it[1 .. k] \in V
      PROVE  it[1 .. (k + 1)] \in V
  <2>1. k + 1 \in 1 .. 3 /\ k \in Nat
    OBVIOUS
  <2>2. Max(1 .. (k + 1)) = k + 1 /\ (1 .. (k + 1)) \ {k + 1} = 1 .. k /\ 1 .. (k + 1) # {}
    BY <2>1, MaxInterval
  <2>3. 1 .. (k + 1) \in SUBSET (DOMAIN s)
    BY <1>0, <2>1
  <2>4. it[1 .. (k + 1)] = grow(it[1 .. k])
    <3> QED BY <1>5, <2>2, <2>3
  <2> QED BY <1>3, <1>7, <2>4
<1>8. it[1 .. 3] \in V
  <2> HIDE DEF s
  <2>1. it[{}] \in V /\ 3 \in Nat
    BY <1>6
  <2> QED BY <1>7, <2>1, PrefixSteps
<1> QED
  BY <1>1, <1>2, <1>8

LEMMA ExpandedPlaces ==
    ASSUME ContentInv, Made(graph), NEW cites, cites \subseteq Ids(graph.nodes), Supported(cites)
    PROVE  /\ Expanded(cites, graph) \subseteq Ids(graph.nodes)
           /\ Supported(cites \cup Expanded(cites, graph))
<1> DEFINE edges == {e \in graph.edges : e[1] \in ExpansionTypes}
           I == Ids(graph.nodes)
           V == {seen \in SUBSET I : Supported(cites \cup seen)}
<1>1. ASSUME NEW seen \in V PROVE Grown(cites, seen) \in V
  <2> DEFINE next == Neighbours(cites \cup seen, edges) \ (cites \cup seen)
             more == Some(next, MaxExpanded - Cardinality(seen))
  <2>1. next \subseteq Neighbours(cites \cup seen, edges)
    OBVIOUS
  <2>2. IsFiniteSet(next) /\ MaxExpanded - Cardinality(seen) \in Int
    BY PlacesAround
  <2>3. more \subseteq next
    <3> HIDE DEF next
    <3> QED BY <2>2, SomeAreElements
  <2>4. more \subseteq Neighbours(cites \cup seen, edges)
    BY <2>3
  <2>5. Grown(cites, seen) = seen \cup more
    BY DEF Grown
  <2> HIDE DEF more, next
  <2>6. more \subseteq I /\ Supported((cites \cup seen) \cup more)
    BY <1>1, <2>4, NeighboursAreSupported
  <2>7. (cites \cup seen) \cup more = cites \cup (seen \cup more)
    OBVIOUS
  <2> QED BY <2>5, <2>6, <2>7
<1>2. {} \in V
  <2>1. cites \cup {} = cites
    OBVIOUS
  <2> QED BY <2>1
<1>3. Expanded(cites, graph) \in V
  <2> HIDE DEF V
  <2> QED BY <1>1, <1>2, ExpansionKeeps
<1> QED
  BY <1>3

\* What is found is not what was cited, and not more than the limit.
LEMMA ExpandedIsBounded ==
    ASSUME ContentInv, Made(graph), NEW cites
    PROVE  /\ cites \cap Expanded(cites, graph) = {}
           /\ Cardinality(Expanded(cites, graph)) <= MaxExpanded
<1> DEFINE edges == {e \in graph.edges : e[1] \in ExpansionTypes}
           V == {seen \in SUBSET Ids(graph.nodes) :
                    cites \cap seen = {} /\ Cardinality(seen) <= MaxExpanded}
<1>1. ASSUME NEW seen \in V PROVE Grown(cites, seen) \in V
  <2> DEFINE next == Neighbours(cites \cup seen, edges) \ (cites \cup seen)
             n    == MaxExpanded - Cardinality(seen)
             more == Some(next, n)
  <2>1. next \subseteq Ids(graph.nodes) /\ IsFiniteSet(next)
    BY PlacesAround
  <2>2. IsFiniteSet(seen) /\ Cardinality(seen) \in Nat /\ MaxExpanded \in Nat /\ n \in Nat
    <3>1. IsFiniteSet(seen)
      BY GraphPlacesAreFinite, FS_Subset
    <3>2. Cardinality(seen) \in Nat /\ MaxExpanded \in Nat
      BY <3>1, FS_CardinalityType, ValidationLimits
    <3> QED BY <3>1, <3>2
  <2>3. next \cap cites = {} /\ next \cap seen = {}
    OBVIOUS
  <2>4. Grown(cites, seen) = seen \cup more
    BY DEF Grown
  <2> HIDE DEF next, n
  <2>5. more \subseteq next /\ IsFiniteSet(more) /\ Cardinality(more) <= n
    BY <2>1, <2>2, SomeOf
  <2>6. Cardinality(more) \in Nat
    BY <2>5, FS_CardinalityType
  <2> HIDE DEF more
  <2>7. Cardinality(seen \cup more)
          = Cardinality(seen) + Cardinality(more) - Cardinality(seen \cap more)
    BY <2>2, <2>5, FS_Union
  <2>8. seen \cap more = {} /\ Cardinality({}) = 0
    BY <2>3, <2>5, FS_EmptySet
  <2>9. Cardinality(seen \cup more) <= MaxExpanded
    BY <2>2, <2>5, <2>6, <2>7, <2>8 DEF n
  <2> QED BY <2>1, <2>3, <2>4, <2>5, <2>9
<1>2. {} \in V
  <2>1. Cardinality({}) = 0 /\ MaxExpanded \in Nat
    BY FS_EmptySet, ValidationLimits
  <2> QED BY <2>1
<1>3. Expanded(cites, graph) \in V
  <2> HIDE DEF V
  <2> QED BY <1>1, <1>2, ExpansionKeeps
<1> QED
  BY <1>3

(***************************************************************************)
(* The rows behind a place: the file of a changed file, of a label, the    *)
(* command of a check.                                                     *)
(***************************************************************************)
Named(rules) == \A r \in rules : r.label # "unknown"

LEMMA JoinedAreNamed == \A S, T : Named(S) /\ Named(T) => Named(S \cup T)
BY DEF Named

LEMMA RulesAreNamed == ASSUME NEW p PROVE Named(MatchingRules(p))
<1>1. Named(AuthenticationRules(p))
  BY DEF Named, AuthenticationRules, Rule
<1>2. Named(BehaviorRules(p))
  BY DEF Named, BehaviorRules, Rule
<1>3. Named(ConfigurationRules(p))
  BY DEF Named, ConfigurationRules, Rule
<1>4. Named(DatabaseRules(p))
  BY DEF Named, DatabaseRules, Rule
<1>5. Named(DependencyAndDocumentationRules(p))
  BY DEF Named, DependencyAndDocumentationRules, Rule
<1>6. Named(ApiTestAndUiRules(p))
  BY DEF Named, ApiTestAndUiRules, Rule
<1> QED
  BY <1>1, <1>2, <1>3, <1>4, <1>5, <1>6, JoinedAreNamed DEF MatchingRules

LEMMA PathHasItsLabels ==
    ASSUME NEW f, NEW a \in ClassifyPath(f.path)
    PROVE  HasLabel(f, a.label)
<1> DEFINE rules == MatchingRules(f.path)
           labelled(l) == {r \in rules : r.label = l}
           made(l) == [label |-> l, confidence |-> Max({r.confidence : r \in labelled(l)}),
               evidence |-> {[ruleId |-> r.ruleId, kind |-> r.kind] : r \in labelled(l)}]
<1>1. CASE rules = {}
  <2>1. a = UnknownLabel
    BY <1>1 DEF ClassifyPath
  <2>2. a.label = "unknown"
    BY <2>1 DEF UnknownLabel
  <2> QED BY <1>1, <2>2 DEF HasLabel
<1>2. CASE rules # {}
  <2>1. ClassifyPath(f.path) = {made(l) : l \in {r.label : r \in rules}}
    BY <1>2 DEF ClassifyPath
  <2>2. Named(rules)
    BY RulesAreNamed
  <2> HIDE DEF rules
  <2>3. PICK l \in {r.label : r \in rules} : a = made(l)
    <3> HIDE DEF made
    <3> QED BY <2>1
  <2>4. a.label = l
    BY <2>3
  <2>5. l # "unknown"
    BY <2>2 DEF Named
  <2> QED BY <2>4, <2>5 DEF HasLabel, rules
<1> QED BY <1>1, <1>2

LEMMA PlacesOfReconciliations ==
    ASSUME seal # None, NEW r \in DOMAIN Reconciliations
    PROVE  IF r = Len(Reconciliations) /\ seal.final # None
           THEN Reconciliations[r] = ReconciliationOf(2, 4, files, seal.final)
           ELSE /\ turnFiles # None
                /\ Reconciliations[r] = ReconciliationOf(1, 3, turnFiles, "captured")
<1> DEFINE a == ReconciliationOf(1, 3, turnFiles, "captured")
           b == ReconciliationOf(2, 4, files, seal.final)
<1>1. Reconciliations = (IF turnFiles = None THEN <<>> ELSE <<a>>)
                        \o (IF seal.final = None THEN <<>> ELSE <<b>>)
  BY DEF Reconciliations
<1> HIDE DEF a, b
<1>2. /\ <<>> \o <<>> = <<>>
      /\ <<a>> \o <<>> = <<a>>
      /\ <<>> \o <<b>> = <<b>>
      /\ LET s == <<a>> \o <<b>>
         IN  Len(s) = 2 /\ s[1] = a /\ s[2] = b /\ DOMAIN s = 1 .. 2
  <2>1. <<>> \o <<>> = <<>>
    OBVIOUS
  <2>2. <<a>> \o <<>> = <<a>>
    OBVIOUS
  <2>3. <<>> \o <<b>> = <<b>>
    <3>1. <<b>> \in Seq({b})
      OBVIOUS
    <3> QED BY <3>1, ConcatEmptySeq
  <2> DEFINE s == <<a>> \o <<b>>
  <2>4. Len(s) = 2 /\ s[1] = a /\ s[2] = b /\ DOMAIN s = 1 .. 2
    <3>1. /\ IsSequence(<<a>>) /\ Len(<<a>>) = 1 /\ DOMAIN <<a>> = {1}
          /\ IsSequence(<<b>>) /\ Len(<<b>>) = 1 /\ DOMAIN <<b>> = {1}
          /\ <<a>>[1] = a /\ <<b>>[1] = b
      BY ShortSequences
    <3>2. IsSequence(s) /\ Len(s) = 2 /\ s[1] = a /\ s[2] = b
      <4>1. /\ IsSequence(s) /\ Len(s) = Len(<<a>>) + Len(<<b>>)
            /\ \A i \in DOMAIN <<a>> : s[i] = <<a>>[i]
            /\ \A i \in DOMAIN <<b>> : s[Len(<<a>>) + i] = <<b>>[i]
        BY <3>1, JoinedIsSequence
      <4>2. s[1] = a
        BY <3>1, <4>1
      <4>3. s[Len(<<a>>) + 1] = b
        BY <3>1, <4>1
      <4> HIDE DEF s
      <4> QED BY <3>1, <4>1, <4>2, <4>3
    <3> HIDE DEF s
    <3> QED BY <3>2, SequenceElements
  <2> QED BY <2>1, <2>2, <2>3, <2>4
<1>3. \/ Reconciliations = <<>>
      \/ Reconciliations = <<a>> /\ seal.final = None /\ turnFiles # None
      \/ Reconciliations = <<b>> /\ seal.final # None
      \/ Reconciliations = <<a>> \o <<b>> /\ seal.final # None /\ turnFiles # None
  BY <1>1, <1>2
<1>4. CASE Reconciliations = <<>>
  BY <1>4
<1>5. CASE Reconciliations = <<a>> /\ seal.final = None /\ turnFiles # None
  BY <1>5 DEF a
<1>6. CASE Reconciliations = <<b>> /\ seal.final # None
  BY <1>6 DEF b
<1>7. CASE Reconciliations = <<a>> \o <<b>> /\ seal.final # None /\ turnFiles # None
  <2>1. r \in {1, 2} /\ Len(Reconciliations) = 2
    BY <1>2, <1>7
  <2> QED BY <1>2, <1>7, <2>1 DEF a, b
<1> QED BY <1>3, <1>4, <1>5, <1>6, <1>7

LEMMA EntriesOfReconciliations ==
    ASSUME NEW r, NEW trigger, NEW fs, NEW observed,
           NEW i \in DOMAIN ReconciliationOf(r, trigger, fs, observed).entries
    PROVE  /\ i \in DOMAIN fs
           /\ ReconciliationOf(r, trigger, fs, observed).entries[i]
                = Entry(r, i, fs[i], Attribution(seal.baseline, observed))
           /\ ReconciliationOf(r, trigger, fs, observed).attribution
                = Attribution(seal.baseline, observed)
BY DEF ReconciliationOf

LEMMA FileBehindAPlace ==
    ASSUME seal # None, NEW x \in Files(RunRecord(verification))
    PROVE  LET id == FileNode(x[1], x[2], x[3].fileEvent)
           IN  /\ FileAt(id).changeKind = x[3].changeKind
               /\ Reconciliations[id.at[1]].attribution = x[3].attribution
<1> DEFINE rs == Reconciliations
<1>1. RunRecord(verification).reconciliations = rs
  BY DEF RunRecord
<1>2. PICK r \in DOMAIN rs : \E i \in DOMAIN rs[r].entries : x = <<r, i, rs[r].entries[i]>>
  <2> HIDE DEF rs
  <2> QED BY <1>1 DEF Files
<1>3. PICK i \in DOMAIN rs[r].entries : x = <<r, i, rs[r].entries[i]>>
  BY <1>2
<1>4. \A a, b, e : FileNode(a, b, e).at[1] = a /\ FileNode(a, b, e).at[2] = b
  BY DEF FileNode, Id
<1> DEFINE id == FileNode(x[1], x[2], x[3].fileEvent)
<1>5. id.at[1] = r /\ id.at[2] = i /\ x[3] = rs[r].entries[i]
  BY <1>3, <1>4
<1> HIDE DEF id
<1>6. CASE r = Len(rs) /\ seal.final # None
  <2>1. rs[r] = ReconciliationOf(2, 4, files, seal.final)
    BY <1>6, PlacesOfReconciliations
  <2>2. FileAt(id) = files[i]
    BY <1>5, <1>6 DEF FileAt
  <2> HIDE DEF rs
  <2>3. /\ rs[r].entries[i] = Entry(2, i, files[i], Attribution(seal.baseline, seal.final))
        /\ rs[r].attribution = Attribution(seal.baseline, seal.final)
    BY <1>3, <2>1, EntriesOfReconciliations
  <2>4. /\ rs[r].entries[i].changeKind = files[i].changeKind
        /\ rs[r].entries[i].attribution = rs[r].attribution
    BY <2>3 DEF Entry
  <2> QED BY <1>5, <2>2, <2>4 DEF id, rs
<1>7. CASE ~(r = Len(rs) /\ seal.final # None)
  <2>1. rs[r] = ReconciliationOf(1, 3, turnFiles, "captured")
    BY <1>7, PlacesOfReconciliations
  <2>2. FileAt(id) = turnFiles[i]
    BY <1>5, <1>7 DEF FileAt
  <2> HIDE DEF rs
  <2>3. /\ rs[r].entries[i] = Entry(1, i, turnFiles[i], Attribution(seal.baseline, "captured"))
        /\ rs[r].attribution = Attribution(seal.baseline, "captured")
    BY <1>3, <2>1, EntriesOfReconciliations
  <2>4. /\ rs[r].entries[i].changeKind = turnFiles[i].changeKind
        /\ rs[r].entries[i].attribution = rs[r].attribution
    BY <2>3 DEF Entry
  <2> QED BY <1>5, <2>2, <2>4 DEF id, rs
<1> QED BY <1>6, <1>7

LEMMA LastReconciliation ==
    ASSUME ContentInv, seal # None, FinalReconciliation # None
    PROVE  /\ seal.final # None
           /\ FinalReconciliation = ReconciliationOf(2, 4, files, seal.final)
<1> DEFINE rs == Reconciliations
<1>1. seal.final # None /\ FinalReconciliation = rs[Len(rs)]
  BY DEF FinalReconciliation
<1>2. Len(rs) \in DOMAIN rs
  <2> DEFINE first == IF turnFiles = None THEN <<>>
                      ELSE <<ReconciliationOf(1, 3, turnFiles, "captured")>>
             last  == <<ReconciliationOf(2, 4, files, seal.final)>>
  <2>1. rs = first \o last
    BY <1>1 DEF Reconciliations
  <2>2. IsSequence(first) /\ IsSequence(last) /\ Len(last) = 1
    BY ShortSequences
  <2> HIDE DEF first, last, rs
  <2>3. IsSequence(first \o last) /\ Len(first \o last) = Len(first) + 1
    <3>1. IsSequence(first \o last) /\ Len(first \o last) = Len(first) + Len(last)
      BY <2>2, JoinedIsSequence
    <3> QED BY <2>2, <3>1
  <2>4. DOMAIN rs = 1 .. Len(rs) /\ Len(first) \in Nat
    BY <2>1, <2>2, <2>3, SequenceElements
  <2> QED BY <2>1, <2>3, <2>4
<1>3. Reconciliations[Len(Reconciliations)] = ReconciliationOf(2, 4, files, seal.final)
  BY <1>1, <1>2, PlacesOfReconciliations
<1> QED BY <1>1, <1>3

LEMMA FileBehindALabel ==
    ASSUME ContentInv, Made(classification), NEW x \in Labels(classification)
    PROVE  HasLabel(files[x[1]], x[2].label)
<1> DEFINE rec == FinalReconciliation
           c == classification
<1>1. /\ seal # None /\ RowsInv /\ c = Classify(rec) /\ c # Refused
  BY DEF ContentInv, ChainInv, Made
<1>2. PICK i \in DOMAIN c.entries : \E a \in c.entries[i].labels : x = <<i, a>>
  <2>1. PICK y \in Entries(c) : x \in {<<y[1], a>> : a \in y[2].labels}
    BY DEF Labels
  <2>2. PICK i \in DOMAIN c.entries : y = <<i, c.entries[i]>>
    BY <2>1 DEF Entries
  <2> QED BY <2>1, <2>2
<1>3. PICK a \in c.entries[i].labels : x = <<i, a>>
  BY <1>2
<1>4. rec # None => IsSequence(rec.entries)
  BY <1>1, FinalEntries
<1> HIDE DEF rec
<1>5. /\ IsSequence(c.entries)
      /\ rec = None => c.entries = <<>>
      /\ rec # None => /\ Len(c.entries) = Len(rec.entries)
                       /\ \A k \in DOMAIN rec.entries :
                            c.entries[k] = [fileEvent |-> rec.entries[k].fileEvent,
                                            sensitivity |-> rec.entries[k].sensitivity,
                                            labels |-> ClassifyPath(rec.entries[k].path)]
  BY <1>1, <1>4, ClassifiedEntries
<1>6. rec # None
  BY <1>5
<1>7. i \in DOMAIN rec.entries
  BY <1>4, <1>5, <1>6, SequenceElements
<1>8. c.entries[i].labels = ClassifyPath(rec.entries[i].path)
  <2>1. c.entries[i] = [fileEvent |-> rec.entries[i].fileEvent,
                        sensitivity |-> rec.entries[i].sensitivity,
                        labels |-> ClassifyPath(rec.entries[i].path)]
    BY <1>5, <1>6, <1>7
  <2> QED BY <2>1
<1>9. rec = ReconciliationOf(2, 4, files, seal.final)
  BY <1>1, <1>6, LastReconciliation DEF rec
<1>10. rec.entries[i] = Entry(2, i, files[i], Attribution(seal.baseline, seal.final))
  BY <1>7, <1>9, EntriesOfReconciliations
<1>11. rec.entries[i].path = files[i].path
  BY <1>10 DEF Entry
<1>12. a \in ClassifyPath(files[i].path)
  BY <1>3, <1>8, <1>11
<1>13. HasLabel(files[i], a.label)
  BY <1>12, PathHasItsLabels
<1> QED BY <1>3, <1>13

-----------------------------------------------------------------------------
(***************************************************************************)
(* No event of a run records a plan or a summary of the agent.             *)
(***************************************************************************)
LEMMA NoDecisions ==
    ASSUME ContentInv, Made(verification)
    PROVE  \A e \in ToSet(RunRecord(verification).events) : e.type \notin DecisionTypes
<1> DEFINE Plain(s) == IsSequence(s) /\ \A x \in ToSet(s) : x.type \notin DecisionTypes
<1>1. RowsInv /\ seal # None
  BY ObservedCommands
<1>2. \A id, type : Event(id, type).type = type
  BY DEF Event
<1>3. \A s, t : Plain(s) /\ Plain(t) => Plain(s \o t)
  BY JoinedIsSequence
<1>4. /\ Plain(<<>>)
      /\ \A x : x.type \notin DecisionTypes => Plain(<<x>>)
      /\ \A x, y : x.type \notin DecisionTypes /\ y.type \notin DecisionTypes => Plain(<<x, y>>)
  BY ShortSequences
<1>5. \A type : type \in {"run.started", "user.prompt_submitted", "run.finalization_started",
                          "snapshot.final_captured", "run.completed", "run.partial",
                          "run.failed", "run.abandoned", "tool.succeeded", "tool.failed",
                          "command.completed", "test.observed"} \cup FileEventTypes
                    => type \notin DecisionTypes
  BY DEF DecisionTypes, FileEventTypes
<1>6. Plain(SourceEvents)
  <2> DEFINE a == <<Event(1, "run.started"), Event(2, "user.prompt_submitted")>>
             c == [i \in DOMAIN commands |-> ToolEvent(i)]
             d == FileEvents(Reconciliations)
             e == IF seal.final = None THEN <<>>
                  ELSE <<Event(7, "run.finalization_started"), Event(5, "snapshot.final_captured")>>
             z == <<Event(6, TerminalEventType(seal.status))>>
  <2>1. SourceEvents = a \o c \o d \o e \o z
    BY DEF SourceEvents
  <2>2. Plain(a)
    <3> HIDE DEF Plain
    <3> QED BY <1>2, <1>4, <1>5
  <2>3. Plain(c)
    <3>1. DOMAIN commands = 1 .. Len(commands) /\ Len(commands) \in Nat
          /\ \A i \in DOMAIN commands : commands[i] \in Commands
      BY <1>1 DEF RowsInv
    <3>2. c = [i \in 1 .. Len(commands) |-> c[i]]
      BY <3>1
    <3>3. \A i \in DOMAIN commands : ToolEvent(i).type \in {"tool.succeeded", "tool.failed"}
      BY <3>1, ContentAssumption DEF ToolEvent, IsBashResult
    <3>4. \A x \in ToSet(c) : x.type \notin DecisionTypes
      BY <1>5, <3>3 DEF ToSet
    <3> HIDE DEF c
    <3>5. IsSequence(c)
      BY <3>1, <3>2, MappedIsSequence
    <3> QED BY <3>4, <3>5
  <2>4. Plain(d)
    <3>1. IsSequence(d)
      BY <1>1, ReconciliationEvents
    <3>2. \A x \in ToSet(d) : x.type \in FileEventTypes
      BY <1>1, TypesOfFileEvents
    <3> HIDE DEF d
    <3> QED BY <1>5, <3>1, <3>2
  <2>5. Plain(e)
    <3> HIDE DEF Plain
    <3> QED BY <1>2, <1>4, <1>5
  <2>6. Plain(z)
    <3>1. TerminalEventType(seal.status)
             \in {"run.completed", "run.partial", "run.failed", "run.abandoned"}
      BY <1>1, ContentAssumption DEF RowsInv, RunStatuses, TerminalEventType
    <3> HIDE DEF Plain
    <3> QED BY <1>2, <1>4, <1>5, <3>1
  <2> HIDE DEF a, c, d, e, z, Plain
  <2>7. Plain(a \o c)
    BY <1>3, <2>2, <2>3
  <2>8. Plain((a \o c) \o d)
    BY <1>3, <2>4, <2>7
  <2>9. Plain(((a \o c) \o d) \o e)
    BY <1>3, <2>5, <2>8
  <2>10. Plain((((a \o c) \o d) \o e) \o z)
    BY <1>3, <2>6, <2>9
  <2> QED BY <2>1, <2>10
<1>7. Plain(DerivedEvents(verification))
  <2> DEFINE obs == verification.observations
             n == Len(obs)
             one(i) == <<Event(obs[i].commandEvent, "command.completed")>>
             two(i) == IF obs[i].verificationEvent = None THEN <<>>
                       ELSE <<Event(obs[i].verificationEvent, "test.observed")>>
             part == [i \in DOMAIN obs |-> one(i) \o two(i)]
  <2>1. DerivedEvents(verification) = FlattenSeq(part)
    BY DEF DerivedEvents
  <2>2. n \in Nat /\ DOMAIN obs = 1 .. n
    BY ExtractedDocument, SequenceElements
  <2>3. \A i : Plain(one(i)) /\ Plain(two(i))
    <3> HIDE DEF Plain
    <3> QED BY <1>2, <1>4, <1>5
  <2>4. \A i : Plain(one(i) \o two(i))
    <3> HIDE DEF Plain, one, two
    <3> QED BY <1>3, <2>3
  <2>5. \A i \in 1 .. n : Plain(part[i])
    <3> HIDE DEF Plain, one, two, n, obs
    <3> QED BY <2>2, <2>4
  <2>6. part = [i \in 1 .. n |-> part[i]]
    BY <2>2
  <2> HIDE DEF part, n, obs
  <2>7. Joinable(part, n)
    BY <2>2, <2>5, <2>6 DEF Joinable
  <2>8. IsSequence(FlattenSeq(part)) /\ ToSet(FlattenSeq(part)) = UNION {ToSet(part[i]) : i \in 1 .. n}
    BY <2>7, JoinedSequences
  <2> QED BY <2>1, <2>5, <2>8
<1>8. RunRecord(verification).events = SourceEvents \o DerivedEvents(verification)
  BY DEF RunRecord
<1> HIDE DEF Plain
<1>9. Plain(RunRecord(verification).events)
  BY <1>3, <1>6, <1>7, <1>8
<1> QED BY <1>9 DEF Plain

(***************************************************************************)
(* The command behind a check.                                             *)
(***************************************************************************)
AKind == Kinds \cup {"unknown"}

LEMMA ScriptKinds == \A family, tokens : PackageScript(family, tokens).kind \in AKind
BY DEF PackageScript, Unrecognized, AKind

LEMMA ToolKinds == \A wrapper, tokens : DirectTool(wrapper, tokens).kind \in AKind
<1> SUFFICES ASSUME NEW wrapper, NEW tokens PROVE DirectTool(wrapper, tokens).kind \in AKind
  OBVIOUS
<1> DEFINE always == {<<t[2], t[1]>> : t \in {t \in AlwaysTools : t[1] = Head(tokens)}}
           withArgument == {<<t[3], t[4]>> : t \in {t \in ArgumentTools :
                              t[1] = Head(tokens) /\ t[2] \in ToSet(Tail(tokens))}}
           withSubcommand == {<<t[3], t[1]>> : t \in {t \in SubcommandTools :
                              IsPrefix(<<t[1], t[2]>>, tokens)}}
           found == IF tokens = <<>> THEN {} ELSE always \cup withArgument \cup withSubcommand
<1>1. DirectTool(wrapper, tokens) =
         IF found = {} THEN Unrecognized
         ELSE LET f == CHOOSE f \in found : TRUE
              IN  [kind |-> f[1], ruleId |-> <<wrapper, f[2]>>, family |-> f[2]]
  BY DEF DirectTool
<1>2. \A f \in always : f[1] \in AKind
  BY DEF AlwaysTools, AKind, Kinds
<1>3. \A f \in withArgument : f[1] \in AKind
  BY DEF ArgumentTools, AKind, Kinds
<1>4. \A f \in withSubcommand : f[1] \in AKind
  <2>1. \A f \in withSubcommand : \E t \in SubcommandTools : f = <<t[3], t[1]>>
    <3> DEFINE P(t) == IsPrefix(<<t[1], t[2]>>, tokens)
    <3>1. withSubcommand = {<<t[3], t[1]>> : t \in {t \in SubcommandTools : P(t)}}
      OBVIOUS
    <3> HIDE DEF P, withSubcommand
    <3> QED BY <3>1
  <2>2. \A t \in SubcommandTools : t[3] \in AKind
    BY DEF SubcommandTools, AKind, Kinds
  <2> HIDE DEF withSubcommand
  <2>3. ASSUME NEW f \in withSubcommand PROVE f[1] \in AKind
    <3>1. PICK t \in SubcommandTools : f = <<t[3], t[1]>>
      BY <2>1
    <3> QED BY <2>2, <3>1
  <2> QED BY <2>3
<1> HIDE DEF always, withArgument, withSubcommand
<1>5. \A f \in found : f[1] \in AKind
  BY <1>2, <1>3, <1>4
<1> HIDE DEF found
<1> QED BY <1>1, <1>5 DEF Unrecognized, AKind

LEMMA RecognizedKinds == \A tokens : Recognize(tokens).kind \in AKind
<1>1. Unrecognized.kind \in AKind
  BY DEF Unrecognized, AKind
<1> QED BY <1>1, ScriptKinds, ToolKinds DEF Recognize

LEMMA CommandBehindAPlace ==
    ASSUME ContentInv, Made(verification), NEW x \in Observations(verification)
    PROVE  LET c == commands[x[1]]
           IN  /\ x[2].kind = Recognize(c.command).kind /\ x[2].kind \in AKind
               /\ x[2].kind = "unknown" <=> x[2].verificationEvent = None
               /\ x[2].kind = "unknown" => x[2].status = "unknown"
               /\ x[2].kind # "unknown" =>
                      /\ x[2].status \in {"failed", "passed", "observed_without_exit_code"}
                      /\ x[2].status # "observed_without_exit_code" => Ended(c) = x[2].status
<1>1. PICK i \in DOMAIN verification.observations : x = <<i, verification.observations[i]>>
  BY DEF Observations
<1> DEFINE c == commands[i]
           e == ToolEvent(i)
           s == AcceptedObservation(e)
<1>2. /\ i \in DOMAIN commands /\ RowsInv
      /\ verification.observations[i] = Observation(s) /\ s # Refused
  BY ObservedCommands
<1>3. c \in Commands
  BY <1>2 DEF RowsInv
<1>4. /\ e.type = c.type /\ e.command = c.command /\ e.response = c.response /\ e.id = 10 * i
      /\ c.type \in {"tool.succeeded", "tool.failed"}
  BY <1>3, ContentAssumption DEF ToolEvent, IsBashResult
<1> HIDE DEF c, e
<1>5. /\ s.sourceEvent = e.id /\ s.recognition = Recognize(c.command)
      /\ s.outcome = IF c.type = "tool.succeeded" THEN "succeeded" ELSE "failed"
      /\ s.exitCode = ExitCodeOf(c.response)
  BY <1>2, <1>4 DEF AcceptedObservation
<1> HIDE DEF s
<1>6. /\ x[2].kind = s.recognition.kind /\ x[2].status = StatusOf(s)
      /\ x[2].verificationEvent = IF s.recognition.kind = "unknown" THEN None
                                  ELSE VerificationEventOf(s.sourceEvent)
  BY <1>1, <1>2 DEF Observation
<1>7. VerificationEventOf(s.sourceEvent) # None
  <2>1. i \in Nat
    BY <1>2 DEF RowsInv
  <2> QED BY <1>4, <1>5, <2>1, ContentAssumption DEF VerificationEventOf
<1>8. s.recognition.kind \in AKind
  BY <1>5, RecognizedKinds
<1>9. s.exitCode = 0 => c.response.form = "object" /\ 0 \in {c.response.camel, c.response.snake}
  BY <1>5, ContentAssumption DEF ExitCodeOf
<1>10. ASSUME s.recognition.kind # "unknown"
       PROVE  /\ StatusOf(s) \in {"failed", "passed", "observed_without_exit_code"}
              /\ StatusOf(s) # "observed_without_exit_code" => Ended(c) = StatusOf(s)
  BY <1>4, <1>5, <1>9, <1>10 DEF StatusOf, Ended
<1>11. s.recognition.kind = "unknown" => StatusOf(s) = "unknown"
  BY DEF StatusOf
<1>12. x[1] = i
  BY <1>1
<1> QED BY <1>5, <1>6, <1>7, <1>8, <1>10, <1>11, <1>12 DEF c

-----------------------------------------------------------------------------
(***************************************************************************)
(* A moment shown is a candidate that no check of the validation refused,  *)
(* with the places it cites and those they were expanded to.               *)
(***************************************************************************)
Support(c) == c.cites \cup Expanded(c.cites, graph)
Known(ids) == {f.fact : f \in Facts(ids, graph)}

LEMMA FactsAreShown ==
    ASSUME NEW ids
    PROVE  /\ \A f \in Facts(ids, graph) : f.ids \subseteq ids
           /\ \A a \in Known(ids) :
                  \/ a = <<"source_partial", "true">> /\ graph.outcome = "partial"
                  \/ \E n \in graph.nodes : n.id \in ids /\ a \in FactsOf(n)
           /\ \A n \in graph.nodes : n.id \in ids => FactsOf(n) \subseteq Known(ids)
<1> DEFINE N == NodesAt(ids, graph)
           F == UNION {FactsOf(n) : n \in N}
           shown(f) == [fact |-> f, ids |-> {n.id : n \in {n \in N : f \in FactsOf(n)}}]
           last == IF graph.outcome = "partial"
                   THEN {[fact |-> <<"source_partial", "true">>, ids |-> {}]} ELSE {}
<1>1. Facts(ids, graph) = {shown(f) : f \in F} \cup last
  BY DEF Facts
<1>2. \A n : n \in N <=> n \in graph.nodes /\ n.id \in ids
  BY DEF NodesAt
<1>3. \A f : shown(f).fact = f /\ shown(f).ids \subseteq ids
  BY <1>2
<1>4. \A x \in last : x.fact = <<"source_partial", "true">> /\ x.ids \subseteq ids
                      /\ graph.outcome = "partial"
  OBVIOUS
<1> HIDE DEF shown, last, N
<1>5. \A f \in Facts(ids, graph) : f.ids \subseteq ids
  BY <1>1, <1>3, <1>4
<1>6. ASSUME NEW a \in Known(ids)
      PROVE  \/ a = <<"source_partial", "true">> /\ graph.outcome = "partial"
             \/ \E n \in graph.nodes : n.id \in ids /\ a \in FactsOf(n)
  <2>1. PICK x \in Facts(ids, graph) : a = x.fact
    BY DEF Known
  <2>2. CASE x \in last
    BY <1>4, <2>1, <2>2
  <2>3. CASE x \in {shown(f) : f \in F}
    <3>1. a \in F
      BY <1>3, <2>1, <2>3
    <3> QED BY <1>2, <3>1
  <2> QED BY <1>1, <2>1, <2>2, <2>3
<1>7. ASSUME NEW n \in graph.nodes, n.id \in ids, NEW a \in FactsOf(n)
      PROVE  a \in Known(ids)
  <2>1. a \in F
    BY <1>2, <1>7
  <2>2. shown(a) \in Facts(ids, graph)
    BY <1>1, <2>1
  <2> QED BY <1>3, <2>2 DEF Known
<1> QED BY <1>5, <1>6, <1>7

LEMMA AcceptedClaim ==
    ASSUME NEW c, Reasons(c, graph) = {}
    PROVE  /\ c.cites \subseteq Ids(graph.nodes)
           /\ \A id \in c.cites : id.kind \in CitableKinds(c.type)
           /\ Assertions(c.text) # {} /\ c.text \subseteq KnownPhrases
           /\ \A a \in Assertions(c.text) : FactMatches(a, Known(Support(c)))
           /\ ~HasConflict(Assertions(c.text), Known(Support(c)))
<1> DEFINE ids      == {n.id : n \in graph.nodes}
           support  == c.cites \cup Expanded(c.cites, graph)
           facts    == Facts(support, graph)
           known    == {f.fact : f \in facts}
           said     == Assertions(c.text)
           reason(name, holds) == IF holds THEN {name} ELSE {}
           r1 == reason("missing_evidence", ~(c.cites \subseteq ids))
           r2 == reason("unsupported_evidence_kind",
                    \E id \in c.cites \cap ids : id.kind \notin CitableKinds(c.type))
           r3 == reason("disconnected_evidence", ~Connected(c.cites, graph))
           r4 == reason("evidence_limit_exceeded", Cardinality(facts) > MaxFacts)
           r5 == reason("type_evidence_mismatch",
                        ~SupportsType(c.type, NodesAt(support, graph), graph))
           r6 == reason("unsupported_absence_claim", ContainsUnsupportedAbsence(c.text))
           r7 == reason("unsupported_claim_language",
                    \/ said = {} \/ MeaningfulUnknown(c.text) # {}
                    \/ ~TypeHasAppropriateAssertion(c.type, {a[1] : a \in said}))
           r8 == reason("deterministic_contradiction", \E a \in said : ~FactMatches(a, known))
           r9 == reason("conflicting_evidence", HasConflict(said, known))
<1>1. Reasons(c, graph) = r1 \cup r2 \cup r3 \cup r4 \cup r5 \cup r6 \cup r7 \cup r8 \cup r9
  BY DEF Reasons
<1>2. r1 = {} => c.cites \subseteq ids
  OBVIOUS
<1>3. r2 = {} => \A id \in c.cites \cap ids : id.kind \in CitableKinds(c.type)
  OBVIOUS
<1>4. r7 = {} => said # {} /\ MeaningfulUnknown(c.text) = {}
  OBVIOUS
<1>5. r8 = {} => \A a \in said : FactMatches(a, known)
  OBVIOUS
<1>6. r9 = {} => ~HasConflict(said, known)
  OBVIOUS
<1>7. ids = Ids(graph.nodes) /\ known = Known(Support(c))
  BY DEF Ids, Known, Support
<1> HIDE DEF r1, r2, r3, r4, r5, r6, r7, r8, r9, ids, known, said
<1>8. r1 = {} /\ r2 = {} /\ r7 = {} /\ r8 = {} /\ r9 = {}
  BY <1>1
<1>9. c.text \subseteq KnownPhrases
  BY <1>4, <1>8 DEF MeaningfulUnknown
<1> QED BY <1>2, <1>3, <1>4, <1>5, <1>6, <1>7, <1>8, <1>9 DEF said

LEMMA AcceptedPlaces ==
    ASSUME ContentInv, Made(graph), NEW c, c.type \in CandidateTypes, Reasons(c, graph) = {}
    PROVE  Support(c) \subseteq Ids(graph.nodes) /\ Supported(Support(c))
<1>1. c.cites \subseteq Ids(graph.nodes) /\ \A id \in c.cites : id.kind \in CitableKinds(c.type)
  BY AcceptedClaim
<1>2. \A kind \in CitableKinds(c.type) : kind \notin {"reconciliation", "command_observation"}
  BY DEF CitableKinds, CandidateTypes, ChangePlaces, RiskPlaces
<1>3. Supported(c.cites)
  BY <1>1, <1>2 DEF Supported
<1> QED
  BY <1>1, <1>3, ExpandedPlaces DEF Support

LEMMA ShownMoment ==
    ASSUME ContentInv, Made(moments), NEW r \in DOMAIN moments.moments
    PROVE  /\ Made(graph) /\ Made(verification)
           /\ \E i \in DOMAIN batch :
                  /\ moments.moments[r].candidate = batch[i]
                  /\ batch[i].type \in CandidateTypes
                  /\ moments.moments[r].evidence = Support(batch[i])
                  /\ Reasons(batch[i], graph) = {}
<1> DEFINE selected == ItemsWith(report.items, "valid_selected")
           place(k) == CHOOSE i \in selected : report.items[i].rank = k
           ranked == [k \in 1 .. Cardinality(selected) |-> report.items[place(k)]]
           made == [partial |-> report.partial,
                    moments |-> [k \in DOMAIN ranked |-> Moment(ranked[k], batch)]]
<1>1. Made(report) /\ moments = Project(report, batch, graph) /\ moments # Refused
  BY DEF ContentInv, ChainInv, Made
<1>2. Made(graph) /\ batch # <<>> /\ ReportIsValid(report) /\ DOMAIN report.items = DOMAIN batch
      /\ Made(verification)
  BY <1>1, ReportOfBatch, BuiltGraph
<1>3. moments = made
  <2>1. Project(report, batch, graph) =
          IF \A i \in selected : SelectedItemAgrees(report.items[i], batch, graph)
          THEN made ELSE Refused
    BY DEF Project
  <2> HIDE DEF made, selected
  <2> QED BY <1>1, <2>1
<1>4. r \in 1 .. Cardinality(selected) /\ moments.moments[r] = Moment(report.items[place(r)], batch)
  <2> HIDE DEF selected, place
  <2> QED BY <1>3
<1>5. {report.items[i].rank : i \in selected} = 1 .. Cardinality(selected)
  BY <1>2 DEF ReportIsValid
<1> DEFINE i == place(r)
<1>6. i \in selected
  <2> HIDE DEF selected
  <2>1. \E k \in selected : report.items[k].rank = r
    BY <1>4, <1>5
  <2> QED BY <2>1
<1> HIDE DEF place
<1>7. i \in DOMAIN batch /\ report.items[i].decision = "valid_selected"
  BY <1>2, <1>6 DEF ItemsWith
<1> HIDE DEF selected, ranked, made, i
<1>8. ItemOf(DraftAt(i), report.items[i])
  BY <1>1, <1>7, ReportOfBatch
<1> DEFINE c == batch[i]
           facts == Facts(Support(c), graph)
<1>9. /\ DraftAt(i).index = i /\ DraftAt(i).expanded = Expanded(c.cites, graph)
      /\ DraftAt(i).facts = Some(facts, MaxFacts)
      /\ DraftAt(i).reasons = Reasons(c, graph)
  BY DEF DraftAt, Draft, Support
<1>10. Reasons(c, graph) = {}
  BY <1>7, <1>8, <1>9 DEF ItemOf
<1>11. report.items[i].index = i /\ report.items[i].expanded = Expanded(c.cites, graph)
       /\ report.items[i].facts = Some(facts, MaxFacts)
  BY <1>8, <1>9 DEF ItemOf
<1>12. Some(facts, MaxFacts) \subseteq facts
  <2>1. IsFiniteSet(facts)
    BY <1>2, BuiltGraph, FiniteFacts
  <2>2. MaxFacts \in Int
    BY ValidationLimits
  <2> HIDE DEF facts
  <2> QED BY <2>1, <2>2, SomeAreElements
<1>13. \A f \in facts : f.ids \subseteq Support(c)
  BY FactsAreShown
<1> HIDE DEF facts
<1>14. moments.moments[r] = Moment(report.items[i], batch)
  BY <1>4 DEF i
<1>15. /\ moments.moments[r].candidate = c
       /\ moments.moments[r].evidence
            = c.cites \cup Expanded(c.cites, graph) \cup UNION {f.ids : f \in Some(facts, MaxFacts)}
  BY <1>11, <1>14 DEF Moment
<1>16. moments.moments[r].evidence = Support(c)
  <2>1. \A x \in UNION {f.ids : f \in Some(facts, MaxFacts)} : x \in Support(c)
    BY <1>12, <1>13
  <2> QED BY <1>15, <2>1 DEF Support
<1>17. c.type \in CandidateTypes
  BY <1>2, <1>7 DEF ContentInv, BatchInv, BatchIsValid, CandidateIsValid
<1> QED BY <1>2, <1>7, <1>10, <1>15, <1>16, <1>17

-----------------------------------------------------------------------------
(***************************************************************************)
(* What a text asserts, and what is known at the places that support it.   *)
(***************************************************************************)
LEMMA AssertionFamilies ==
    ASSUME NEW text, NEW a \in Assertions(text)
    PROVE  \/ /\ a[1] \in {"change_kind", "terminal_status", "attribution", "classification_label"}
              /\ a[2] # "*" /\ a = <<a[1], a[2]>>
           \/ a[1] \in Kinds /\ a[2] \in OutcomeWords /\ a = <<a[1], a[2]>>
           \/ a = <<"evidence_gap", "*">> \/ a = <<"decision_observed", "*">>
           \/ a = <<"source_partial", "true">>
<1> DEFINE A1 == {<<"change_kind", k>> : k \in Said(text, ChangeKinds)}
           A2 == {<<"terminal_status", s>> : s \in {s \in RunStatuses : RunIs(s) \in text}}
           A3 == {<<"attribution", x>> : x \in {x \in Attributions : AttributedAs(x) \in text}}
           A4 == {<<"classification_label", l>> : l \in Said(text, LabelNames)}
           A5 == {<<"evidence_gap", "*">> : w \in Said(text, {"evidence_gap"})}
           A6 == {<<"decision_observed", "*">> : w \in Said(text, {"plan_recorded"})}
           A7 == {<<"source_partial", "true">> : w \in Said(text, {"source_partial"})}
           Plain(x) == /\ x[1] \in {"change_kind", "terminal_status", "attribution",
                                    "classification_label"}
                       /\ x[2] # "*" /\ x = <<x[1], x[2]>>
<1>1. \A x \in A1 : Plain(x)
  BY DEF Said, ChangeKinds
<1>2. \A x \in A2 : Plain(x)
  BY DEF RunStatuses
<1>3. \A x \in A3 : Plain(x)
  BY DEF Attributions
<1>4. \A x \in A4 : Plain(x)
  BY DEF Said, LabelNames, SupportedLabels
<1>5. \A x \in CheckAssertions(text) :
         x[1] \in Kinds /\ x[2] \in OutcomeWords /\ x = <<x[1], x[2]>>
  <2> DEFINE kinds == Said(text, Kinds) \cup (IF Phrase("tests") \in text THEN {"test"} ELSE {})
             outcomes == Said(text, OutcomeWords)
                         \cup (IF RunIs("Failed") \in text THEN {"failed"} ELSE {})
  <2>1. CheckAssertions(text) = kinds \X outcomes
    BY DEF CheckAssertions
  <2>2. kinds \subseteq Kinds /\ outcomes \subseteq OutcomeWords
    BY DEF Said, Kinds, OutcomeWords
  <2> HIDE DEF kinds, outcomes
  <2> QED BY <2>1, <2>2
<1>6. /\ \A x \in A5 : x = <<"evidence_gap", "*">>
      /\ \A x \in A6 : x = <<"decision_observed", "*">>
      /\ \A x \in A7 : x = <<"source_partial", "true">>
  OBVIOUS
<1>7. Assertions(text) = A1 \cup A2 \cup A3 \cup A4 \cup CheckAssertions(text) \cup A5 \cup A6 \cup A7
  BY DEF Assertions
<1> HIDE DEF A1, A2, A3, A4, A5, A6, A7
<1> QED BY <1>1, <1>2, <1>3, <1>4, <1>5, <1>6, <1>7

LEMMA OneFactOfAFamily ==
    ASSUME ContentInv, Made(graph), NEW said, NEW ids, ~HasConflict(said, Known(ids)),
           NEW a \in said, NEW f \in Known(ids), f[1] = a[1], NEW g \in Known(ids), g[1] = a[1]
    PROVE  f = g
<1> DEFINE S == {x \in Known(ids) : x[1] = a[1]}
<1>1. ~(Cardinality(S) > 1)
  BY DEF HasConflict
<1>2. IsFiniteSet(Known(ids))
  BY BuiltGraph, FiniteFacts DEF Known
<1>3. IsFiniteSet(S) /\ f \in S /\ g \in S
  <2>1. S \subseteq Known(ids)
    OBVIOUS
  <2>2. IsFiniteSet(S)
    <3> HIDE DEF S
    <3> QED BY <1>2, <2>1, FS_Subset
  <2> QED BY <2>2
<1> HIDE DEF S
<1>4. Cardinality(S) \in Nat /\ Cardinality(S) <= 1
  <2>1. Cardinality(S) \in Nat
    BY <1>3, FS_CardinalityType
  <2> QED BY <1>1, <2>1
<1> SUFFICES ASSUME f # g PROVE FALSE
  OBVIOUS
<1>5. {f, g} \subseteq S /\ Cardinality({f, g}) = 2
  <2>1. IsFiniteSet({f}) /\ Cardinality({f}) = 1
    BY FS_Singleton
  <2>2. Cardinality({f} \cup {g}) = Cardinality({f}) + 1
    BY <2>1, FS_AddElement
  <2>3. {f, g} = {f} \cup {g} /\ {f, g} \subseteq S
    BY <1>3
  <2> QED BY <2>1, <2>2, <2>3
<1>6. Cardinality({f, g}) <= Cardinality(S)
  BY <1>3, <1>5, FS_Subset
<1> QED BY <1>4, <1>5, <1>6

LEMMA FormByKind ==
    ASSUME NEW run, NEW c, NEW v, NEW n \in GraphNodes(run, c, v)
    PROVE  /\ n.id.kind = "changed_file" => FileForm(n, run)
           /\ n.id.kind = "classification_label" => LabelForm(n, c)
           /\ n.id.kind = "verification_observation" => CheckForm(n, v)
<1>1. \/ EndForm(n, run) \/ EventForm(n, run) \/ GapForm(n, run) \/ FileForm(n, run)
      \/ LabelForm(n, c) \/ CommandForm(n, v) \/ CheckForm(n, v) \/ OtherForm(n)
  BY FormOfANode
<1>2. /\ FileForm(n, run) => n.id.kind = "changed_file"
      /\ LabelForm(n, c) => n.id.kind = "classification_label"
      /\ CommandForm(n, v) => n.id.kind = "command_observation"
      /\ CheckForm(n, v) => n.id.kind = "verification_observation"
      /\ EndForm(n, run) => n.id.kind \in {"run", "finalization"}
      /\ EventForm(n, run) => n.id.kind = "event"
      /\ GapForm(n, run) => n.id.kind = "evidence_gap"
      /\ OtherForm(n) => n.id.kind \in {"baseline", "artifact", "reconciliation",
                             "classification_entry", "classification_rule", "test_file_change"}
  BY DEF FileForm, LabelForm, CommandForm, CheckForm, EndForm, EventForm, GapForm, OtherForm, Form
<1> QED BY <1>1, <1>2

Checked(n) == CommandForm(n, verification) \/ CheckForm(n, verification)

LEMMA CheckedKinds ==
    ASSUME ContentInv, Made(verification), NEW n, Checked(n)
    PROVE  n.meta.verificationKind \in AKind
<1>1. PICK x \in Observations(verification) : n.meta.verificationKind = x[2].kind
  BY DEF Checked, CommandForm, CheckForm, Recognized
<1> QED BY <1>1, CommandBehindAPlace

LEMMA WhatIsKnown ==
    ASSUME ContentInv, Made(graph), NEW ids, NEW f \in Known(ids)
    PROVE  \/ f = <<"source_partial", "true">> /\ graph.outcome = "partial"
           \/ f = <<"terminal_status", seal.status>>
           \/ f[1] = "evidence_gap" /\ seal.gaps # {}
           \/ \E n \in graph.nodes :
                 /\ n.id \in ids
                 /\ \/ /\ FileForm(n, RunRecord(verification))
                       /\ f = <<"change_kind", n.meta.changeKind>>
                    \/ /\ FileForm(n, RunRecord(verification))
                       /\ f = <<"attribution", n.meta.attribution>>
                    \/ n.id.kind = "reconciliation" /\ f[1] = "attribution"
                    \/ LabelForm(n, classification) /\ f = <<"classification_label", n.meta.label>>
                    \/ Checked(n) /\ f = <<n.meta.verificationKind, n.meta.observedStatus>>
                       /\ f[1] \in AKind
<1> DEFINE run == RunRecord(verification)
<1>1. Made(verification) /\ graph.nodes = GraphNodes(run, classification, verification)
  BY BuiltGraph DEF Graph
<1>2. run.status = seal.status /\ (run.gaps # {} => seal.gaps # {})
  BY DEF RunRecord
<1> HIDE DEF run
<1>3. CASE f = <<"source_partial", "true">> /\ graph.outcome = "partial"
  BY <1>3
<1>4. ASSUME NEW n \in graph.nodes, n.id \in ids, f \in FactsOf(n)
      PROVE  \/ f = <<"terminal_status", seal.status>>
             \/ f[1] = "evidence_gap" /\ seal.gaps # {}
             \/ FileForm(n, run) /\ f = <<"change_kind", n.meta.changeKind>>
             \/ FileForm(n, run) /\ f = <<"attribution", n.meta.attribution>>
             \/ n.id.kind = "reconciliation" /\ f[1] = "attribution"
             \/ LabelForm(n, classification) /\ f = <<"classification_label", n.meta.label>>
             \/ Checked(n) /\ f = <<n.meta.verificationKind, n.meta.observedStatus>>
                /\ f[1] \in AKind
  <2>1. \/ EndForm(n, run) /\ f = <<"terminal_status", run.status>>
        \/ FileForm(n, run) /\ f = <<"change_kind", n.meta.changeKind>>
        \/ FileForm(n, run) /\ f = <<"attribution", n.meta.attribution>>
        \/ n.id.kind = "reconciliation" /\ f = <<"attribution", n.meta.attribution>>
        \/ LabelForm(n, classification) /\ f = <<"classification_label", n.meta.label>>
        \/ GapForm(n, run) /\ f = <<"evidence_gap", n.meta.gapCode>>
        \/ /\ CommandForm(n, verification) \/ CheckForm(n, verification)
           /\ f = <<n.meta.verificationKind, n.meta.observedStatus>>
        \/ /\ f[1] = "decision_observed"
           /\ \E e \in ToSet(run.events) : e.type \in DecisionTypes
    BY <1>1, <1>4, FactsOfAForm
  <2>2. ~\E e \in ToSet(run.events) : e.type \in DecisionTypes
    BY <1>1, NoDecisions DEF run
  <2>3. GapForm(n, run) => seal.gaps # {}
    BY <1>2 DEF GapForm
  <2>4. Checked(n) => n.meta.verificationKind \in AKind
    BY <1>1, CheckedKinds
  <2>5. f = <<"evidence_gap", n.meta.gapCode>> => f[1] = "evidence_gap"
    OBVIOUS
  <2>6. f = <<"attribution", n.meta.attribution>> => f[1] = "attribution"
    OBVIOUS
  <2>7. f = <<n.meta.verificationKind, n.meta.observedStatus>> => f[1] = n.meta.verificationKind
    OBVIOUS
  <2>8. Checked(n) <=> CommandForm(n, verification) \/ CheckForm(n, verification)
    BY DEF Checked
  <2> QED BY <1>2, <2>1, <2>2, <2>3, <2>4, <2>5, <2>6, <2>7, <2>8
<1>5. \/ f = <<"source_partial", "true">> /\ graph.outcome = "partial"
      \/ \E n \in graph.nodes : n.id \in ids /\ f \in FactsOf(n)
  BY FactsAreShown
<1> QED BY <1>3, <1>4, <1>5 DEF run

-----------------------------------------------------------------------------
(***************************************************************************)
(* What holds of the rows behind the places, one family after the other.   *)
(***************************************************************************)
Sound(said, ids) ==
    /\ ids \subseteq Ids(graph.nodes) /\ Supported(ids)
    /\ \A a \in said : FactMatches(a, Known(ids))
    /\ ~HasConflict(said, Known(ids))

LEMMA ChangesHold ==
    ASSUME ContentInv, Made(graph), seal # None, NEW said, NEW ids, Sound(said, ids),
           NEW a \in said, a[1] = "change_kind", a \in Known(ids)
    PROVE  FilesAt(ids) # {} /\ \A f \in FilesAt(ids) : f.changeKind = a[2]
<1> DEFINE run == RunRecord(verification)
<1>1. graph.nodes = GraphNodes(run, classification, verification)
  BY BuiltGraph DEF Graph
<1>2. a[1] \notin {"source_partial", "terminal_status", "evidence_gap", "attribution",
                   "classification_label"} /\ a[1] \notin AKind
  BY DEF AKind, Kinds
<1>3. PICK n \in graph.nodes : /\ n.id \in ids /\ FileForm(n, run)
                               /\ a = <<"change_kind", n.meta.changeKind>>
  BY <1>2, WhatIsKnown
<1>4. \A m : FileForm(m, run) => /\ m.id.kind = "changed_file"
                                 /\ FileAt(m.id).changeKind = m.meta.changeKind
  <2> SUFFICES ASSUME NEW m, FileForm(m, run)
               PROVE  m.id.kind = "changed_file" /\ FileAt(m.id).changeKind = m.meta.changeKind
    OBVIOUS
  <2>1. PICK x \in Files(run) : /\ m.id = FileNode(x[1], x[2], x[3].fileEvent)
                                /\ m.meta.changeKind = x[3].changeKind
    BY DEF FileForm
  <2>2. FileAt(FileNode(x[1], x[2], x[3].fileEvent)).changeKind = x[3].changeKind
    BY FileBehindAPlace
  <2>3. m.id.kind = "changed_file"
    BY DEF FileForm, Form
  <2> QED BY <2>1, <2>2, <2>3
<1>5. FileAt(n.id) \in FilesAt(ids)
  BY <1>3, <1>4 DEF FilesAt
<1>6. ASSUME NEW f \in FilesAt(ids)
      PROVE  f.changeKind = a[2]
  <2>1. PICK id \in ids : id.kind = "changed_file" /\ f = FileAt(id)
    BY DEF FilesAt
  <2>2. PICK m \in graph.nodes : m.id = id
    BY DEF Sound, Ids
  <2>3. FileForm(m, run)
    BY <1>1, <2>1, <2>2, FormByKind
  <2>4. <<"change_kind", m.meta.changeKind>> \in Known(ids)
    BY <2>2, <2>3, FormsShowFacts, FactsAreShown
  <2>5. <<"change_kind", m.meta.changeKind>> = a
    <3>1. <<"change_kind", m.meta.changeKind>>[1] = a[1]
      OBVIOUS
    <3> QED BY <2>4, <3>1, OneFactOfAFamily DEF Sound
  <2>6. m.meta.changeKind = a[2]
    BY <2>5
  <2> QED BY <1>4, <2>1, <2>2, <2>3, <2>6
<1> QED BY <1>5, <1>6

LEMMA AttributionsHold ==
    ASSUME ContentInv, Made(graph), seal # None, NEW said, NEW ids, Sound(said, ids),
           NEW a \in said, a[1] = "attribution", a \in Known(ids)
    PROVE  \E f \in {id \in ids : id.kind = "changed_file"} :
               a[2] = Reconciliations[f.at[1]].attribution
<1> DEFINE run == RunRecord(verification)
<1>1. a[1] \notin {"source_partial", "terminal_status", "evidence_gap", "change_kind",
                   "classification_label"} /\ a[1] \notin AKind
  BY DEF AKind, Kinds
<1>2. PICK n \in graph.nodes : /\ n.id \in ids
                               /\ \/ FileForm(n, run) /\ a = <<"attribution", n.meta.attribution>>
                                  \/ n.id.kind = "reconciliation"
  BY <1>1, WhatIsKnown
<1>3. n.id.kind # "reconciliation"
  BY <1>2 DEF Sound, Supported
<1>4. FileForm(n, run) /\ a = <<"attribution", n.meta.attribution>>
  BY <1>2, <1>3
<1>5. PICK x \in Files(run) : /\ n.id = FileNode(x[1], x[2], x[3].fileEvent)
                              /\ n.meta.attribution = x[3].attribution
  BY <1>4 DEF FileForm
<1>6. Reconciliations[FileNode(x[1], x[2], x[3].fileEvent).at[1]].attribution = x[3].attribution
  BY FileBehindAPlace
<1>7. n.id.kind = "changed_file"
  BY <1>4 DEF FileForm, Form
<1>8. a[2] = n.meta.attribution
  BY <1>4
<1> HIDE DEF run
<1>9. a[2] = Reconciliations[n.id.at[1]].attribution
  BY <1>5, <1>6, <1>8
<1> QED BY <1>2, <1>7, <1>9

LEMMA LabelsHold ==
    ASSUME ContentInv, Made(graph), Made(classification), NEW said, NEW ids, Sound(said, ids),
           NEW a \in said, a[1] = "classification_label", a \in Known(ids)
    PROVE  LabelledAt(ids) # {} /\ \A f \in LabelledAt(ids) : HasLabel(f, a[2])
<1> DEFINE run == RunRecord(verification)
<1>1. graph.nodes = GraphNodes(run, classification, verification)
  BY BuiltGraph DEF Graph
<1>2. a[1] \notin {"source_partial", "terminal_status", "evidence_gap", "attribution",
                   "change_kind"} /\ a[1] \notin AKind
  BY DEF AKind, Kinds
<1>3. PICK n \in graph.nodes : /\ n.id \in ids /\ LabelForm(n, classification)
                               /\ a = <<"classification_label", n.meta.label>>
  BY <1>2, WhatIsKnown
<1>4. \A m : LabelForm(m, classification) => /\ m.id.kind = "classification_label"
                                             /\ HasLabel(files[m.id.at[1]], m.meta.label)
  <2> SUFFICES ASSUME NEW m, LabelForm(m, classification)
               PROVE  /\ m.id.kind = "classification_label"
                      /\ HasLabel(files[m.id.at[1]], m.meta.label)
    OBVIOUS
  <2>1. PICK x \in Labels(classification) : /\ m.id = LabelNode(x[1], x[2].label)
                                            /\ m.meta.label = x[2].label
    BY DEF LabelForm
  <2>2. HasLabel(files[x[1]], x[2].label)
    BY FileBehindALabel
  <2>3. m.id.kind = "classification_label"
    BY DEF LabelForm, Form
  <2>4. m.id.at[1] = x[1]
    BY <2>1 DEF LabelNode, Id
  <2> QED BY <2>1, <2>2, <2>3, <2>4
<1>5. files[n.id.at[1]] \in LabelledAt(ids)
  BY <1>3, <1>4 DEF LabelledAt
<1>6. ASSUME NEW f \in LabelledAt(ids)
      PROVE  HasLabel(f, a[2])
  <2>1. PICK id \in ids : id.kind = "classification_label" /\ f = files[id.at[1]]
    BY DEF LabelledAt
  <2>2. PICK m \in graph.nodes : m.id = id
    BY DEF Sound, Ids
  <2>3. LabelForm(m, classification)
    BY <1>1, <2>1, <2>2, FormByKind
  <2>4. <<"classification_label", m.meta.label>> \in Known(ids)
    BY <2>2, <2>3, FormsShowFacts, FactsAreShown
  <2>5. <<"classification_label", m.meta.label>> = a
    <3>1. <<"classification_label", m.meta.label>>[1] = a[1]
      OBVIOUS
    <3> QED BY <2>4, <3>1, OneFactOfAFamily DEF Sound
  <2>6. m.meta.label = a[2]
    BY <2>5
  <2> QED BY <1>4, <2>1, <2>2, <2>3, <2>6
<1> QED BY <1>5, <1>6

LEMMA ChecksHold ==
    ASSUME ContentInv, Made(graph), Made(verification), NEW said, NEW ids, Sound(said, ids),
           NEW a \in said, a[1] \in Kinds, a[2] \in OutcomeWords, a \in Known(ids)
    PROVE  /\ \E c \in CommandsAt(ids) : Recognize(c.command).kind = a[1]
           /\ \A c \in CommandsAt(ids) : Recognize(c.command).kind = a[1] => Ended(c) = a[2]
<1> DEFINE run == RunRecord(verification)
           IsCheck(m, x) == /\ x \in Recognized(verification)
                            /\ m.id = VerificationNode(x[1], x[2].kind)
                            /\ m.meta.verificationKind = x[2].kind
                            /\ m.meta.observedStatus = x[2].status
<1>1. graph.nodes = GraphNodes(run, classification, verification)
  BY BuiltGraph DEF Graph
<1>2. a[1] \notin {"source_partial", "terminal_status", "evidence_gap", "attribution",
                   "change_kind", "classification_label", "unknown"}
  BY DEF Kinds
<1>3. PICK n \in graph.nodes : /\ n.id \in ids /\ Checked(n)
                               /\ a = <<n.meta.verificationKind, n.meta.observedStatus>>
  BY <1>2, WhatIsKnown
<1>4. \A i, k : VerificationNode(i, k).kind = "verification_observation"
                /\ VerificationNode(i, k).at[1] = i
  BY DEF VerificationNode, Id
<1>5. \A x : x \in Recognized(verification) =>
                 x \in Observations(verification) /\ x[2].verificationEvent # None
  BY DEF Recognized
<1>6. \A x \in Recognized(verification) : VerificationNode(x[1], x[2].kind) \in ids =>
          /\ commands[x[1]] \in CommandsAt(ids)
          /\ Recognize(commands[x[1]].command).kind = x[2].kind
  BY <1>4, <1>5, CommandBehindAPlace DEF CommandsAt
<1>7. \E x \in Recognized(verification) :
          VerificationNode(x[1], x[2].kind) \in ids /\ x[2].kind = a[1]
  <2>1. CASE CheckForm(n, verification)
    BY <1>3, <2>1 DEF CheckForm
  <2>2. CASE CommandForm(n, verification)
    <3>1. PICK y \in Observations(verification) :
             /\ n.id = CommandNode(y[1], y[2].sourceEvent)
             /\ n.meta.verificationKind = y[2].kind
      BY <2>2 DEF CommandForm
    <3>2. n.id.kind = "command_observation"
      BY <2>2 DEF CommandForm, Form
    <3>3. PICK x \in Recognized(verification) :
             /\ n.id = CommandNode(x[1], x[2].sourceEvent)
             /\ VerificationNode(x[1], x[2].kind) \in ids
      BY <1>3, <3>2 DEF Sound, Supported
    <3>4. \A i, e : CommandNode(i, e).at[1] = i
      BY DEF CommandNode, Id
    <3>5. x[1] = y[1]
      <4>1. n.id.at[1] = x[1]
        BY <3>3, <3>4
      <4>2. n.id.at[1] = y[1]
        BY <3>1, <3>4
      <4> QED BY <4>1, <4>2
    <3>6. x[2] = y[2]
      BY <1>5, <3>3, <3>1, <3>5 DEF Observations
    <3>7. y[2].kind = a[1]
      BY <1>3, <3>1
    <3> QED BY <3>3, <3>6, <3>7
  <2> QED BY <1>3, <2>1, <2>2 DEF Checked
<1>8. ASSUME NEW c \in CommandsAt(ids), Recognize(c.command).kind = a[1]
      PROVE  Ended(c) = a[2]
  <2>1. PICK id \in ids : id.kind = "verification_observation" /\ c = commands[id.at[1]]
    BY DEF CommandsAt
  <2>2. PICK m \in graph.nodes : m.id = id
    BY DEF Sound, Ids
  <2>3. CheckForm(m, verification)
    BY <1>1, <2>1, <2>2, FormByKind
  <2>4. PICK x \in Recognized(verification) : IsCheck(m, x)
    BY <2>3 DEF CheckForm
  <2>5. c = commands[x[1]] /\ x \in Observations(verification)
    BY <1>4, <1>5, <2>1, <2>2, <2>4
  <2>6. x[2].kind = a[1]
    BY <1>8, <2>5, CommandBehindAPlace
  <2>7. <<m.meta.verificationKind, m.meta.observedStatus>> \in Known(ids)
    BY <2>2, <2>3, FormsShowFacts, FactsAreShown
  <2>8. <<m.meta.verificationKind, m.meta.observedStatus>> = a
    <3>1. <<m.meta.verificationKind, m.meta.observedStatus>>[1] = a[1]
      BY <2>4, <2>6
    <3> QED BY <2>7, <3>1, OneFactOfAFamily DEF Sound
  <2>9. x[2].status = a[2]
    BY <2>4, <2>8
  <2>10. a[2] # "observed_without_exit_code" /\ x[2].kind # "unknown"
    BY <1>2, <2>6 DEF OutcomeWords
  <2> QED BY <2>5, <2>9, <2>10, CommandBehindAPlace
<1> QED BY <1>6, <1>7, <1>8

LEMMA PartialSourcesHold ==
    ASSUME ContentInv, Made(graph), graph.outcome = "partial"
    PROVE  Holds(<<"source_partial", "true">>, {})
<1> DEFINE run == RunRecord(verification)
<1>1. /\ Made(verification) /\ graph = Graph(run, classification, verification)
  BY BuiltGraph
<1>2. PICK l : l \in Limitations(run, classification, verification)
  BY <1>1 DEF Graph
<1>3. /\ run.manifest = seal.manifest /\ run.reconciliations = Reconciliations
      /\ run.gaps # {} => seal.gaps # {}
  BY DEF RunRecord
<1> HIDE DEF run
<1>4. \/ Files(run) # {} \/ ~run.manifest \/ run.gaps # {}
      \/ classification.outcome \in {"partial", "unavailable"}
      \/ verification.outcome \in {"partial", "unavailable"}
  BY <1>2 DEF Limitations
<1>5. /\ Made(classification) /\ seal # None /\ RowsInv
      /\ verification = Extract(classification, SourceEvents) /\ verification # Refused
  BY <1>1, ObservedCommands DEF ContentInv, ChainInv, Made
<1>6. classification.outcome \in {"partial", "unavailable"} => verification.outcome # "extracted"
  BY <1>5 DEF Extract
<1>7. ASSUME Files(run) # {}
      PROVE  files # <<>> \/ turnFiles \notin {None, <<>>}
  <2>1. PICK r \in DOMAIN Reconciliations : \E i : i \in DOMAIN Reconciliations[r].entries
    BY <1>3, <1>7 DEF Files
  <2>2. PICK i : i \in DOMAIN Reconciliations[r].entries
    BY <2>1
  <2>3. IF r = Len(Reconciliations) /\ seal.final # None
        THEN Reconciliations[r] = ReconciliationOf(2, 4, files, seal.final)
        ELSE turnFiles # None /\ Reconciliations[r] = ReconciliationOf(1, 3, turnFiles, "captured")
    BY <1>5, PlacesOfReconciliations
  <2>4. i \in DOMAIN files \/ (turnFiles # None /\ i \in DOMAIN turnFiles)
    BY <2>2, <2>3, EntriesOfReconciliations
  <2>5. \A j : j \notin DOMAIN <<>>
    OBVIOUS
  <2> QED BY <2>4, <2>5
<1>8. \/ ~seal.manifest \/ seal.gaps # {} \/ files # <<>> \/ turnFiles \notin {None, <<>>}
      \/ verification.outcome # "extracted"
  BY <1>3, <1>4, <1>6, <1>7
<1>9. <<"source_partial", "true">>[1] = "source_partial"
  OBVIOUS
<1> QED BY <1>8, <1>9 DEF Holds

LEMMA AssertionsHold ==
    ASSUME ContentInv, Made(graph), NEW text, NEW ids, Sound(Assertions(text), ids),
           NEW a \in Assertions(text)
    PROVE  Holds(a, ids)
<1> DEFINE said == Assertions(text)
<1>1. Made(verification) /\ Made(classification) /\ seal # None
  BY BuiltGraph, ExtractedDocument, ObservedCommands
<1>2. IF a[2] = "*" THEN \E f \in Known(ids) : f[1] = a[1] ELSE a \in Known(ids)
  BY DEF Sound, FactMatches
<1>3. CASE a[1] \in {"change_kind", "terminal_status", "attribution", "classification_label"}
           /\ a[2] # "*" /\ a = <<a[1], a[2]>>
  <2>1. a \in Known(ids)
    BY <1>2, <1>3
  <2>2. CASE a[1] = "change_kind"
    BY <1>1, <2>1, <2>2, ChangesHold DEF Holds
  <2>3. CASE a[1] = "attribution"
    BY <1>1, <2>1, <2>3, AttributionsHold DEF Holds
  <2>4. CASE a[1] = "classification_label"
    BY <1>1, <2>1, <2>4, LabelsHold DEF Holds
  <2>5. CASE a[1] = "terminal_status"
    <3>1. a[1] \notin {"source_partial", "attribution", "evidence_gap", "change_kind",
                       "classification_label"} /\ a[1] \notin AKind
      BY <2>5 DEF AKind, Kinds
    <3>2. a = <<"terminal_status", seal.status>>
      BY <2>1, <3>1, WhatIsKnown
    <3>3. seal.status = a[2]
      BY <3>2
    <3> QED BY <2>5, <3>3 DEF Holds
  <2> QED BY <1>3, <2>2, <2>3, <2>4, <2>5
<1>4. CASE a[1] \in Kinds /\ a[2] \in OutcomeWords /\ a = <<a[1], a[2]>>
  <2>1. a[2] # "*"
    BY <1>4 DEF OutcomeWords
  <2>2. a \in Known(ids)
    BY <1>2, <2>1
  <2>3. /\ \E c \in CommandsAt(ids) : Recognize(c.command).kind = a[1]
        /\ \A c \in CommandsAt(ids) : Recognize(c.command).kind = a[1] => Ended(c) = a[2]
    BY <1>1, <1>4, <2>2, ChecksHold
  <2>4. a[1] \notin {"change_kind", "attribution", "classification_label", "terminal_status",
                     "evidence_gap", "decision_observed", "source_partial"}
    BY <1>4 DEF Kinds
  <2> QED BY <2>3, <2>4 DEF Holds
<1>5. CASE a = <<"evidence_gap", "*">>
  <2>1. PICK f \in Known(ids) : f[1] = "evidence_gap"
    BY <1>2, <1>5
  <2>2. f[1] \notin AKind
    BY <2>1 DEF AKind, Kinds
  <2>3. seal.gaps # {}
    BY <2>1, <2>2, WhatIsKnown
  <2>4. a[1] = "evidence_gap"
    BY <1>5
  <2> QED BY <2>3, <2>4 DEF Holds
<1>6. CASE a = <<"decision_observed", "*">>
  <2>1. PICK f \in Known(ids) : f[1] = "decision_observed"
    BY <1>2, <1>6
  <2>2. f[1] \notin AKind
    BY <2>1 DEF AKind, Kinds
  <2>3. FALSE
    BY <2>1, <2>2, WhatIsKnown
  <2> QED BY <2>3
<1>7. CASE a = <<"source_partial", "true">>
  <2>1. a \in Known(ids) /\ a[1] = "source_partial"
    BY <1>2, <1>7
  <2>2. a[1] \notin AKind
    BY <2>1 DEF AKind, Kinds
  <2>3. graph.outcome = "partial"
    BY <2>1, <2>2, WhatIsKnown
  <2>4. Holds(<<"source_partial", "true">>, {})
    BY <2>3, PartialSourcesHold
  <2>5. <<"source_partial", "true">>[1] = "source_partial"
    OBVIOUS
  <2> QED BY <1>7, <2>4, <2>5 DEF Holds
<1> QED BY <1>3, <1>4, <1>5, <1>6, <1>7, AssertionFamilies

LEMMA ShownIsTrue == ContentInv => ShownMomentsAreTrue
<1> SUFFICES ASSUME ContentInv, Made(moments), NEW r \in DOMAIN moments.moments
             PROVE  LET m == moments.moments[r]
                    IN  /\ \A a \in Assertions(m.candidate.text) : Holds(a, m.evidence)
                        /\ Assertions(m.candidate.text) # {}
                        /\ m.candidate.text \subseteq KnownPhrases
  BY DEF ShownMomentsAreTrue
<1> DEFINE m == moments.moments[r]
<1>1. Made(graph)
  BY ShownMoment
<1>2. PICK i \in DOMAIN batch :
          /\ m.candidate = batch[i] /\ batch[i].type \in CandidateTypes
          /\ m.evidence = Support(batch[i]) /\ Reasons(batch[i], graph) = {}
  BY ShownMoment
<1> DEFINE c == batch[i]
<1>3. /\ Assertions(c.text) # {} /\ c.text \subseteq KnownPhrases
      /\ \A a \in Assertions(c.text) : FactMatches(a, Known(Support(c)))
      /\ ~HasConflict(Assertions(c.text), Known(Support(c)))
  BY <1>2, AcceptedClaim
<1>4. Support(c) \subseteq Ids(graph.nodes) /\ Supported(Support(c))
  BY <1>1, <1>2, AcceptedPlaces
<1>5. Sound(Assertions(c.text), Support(c))
  BY <1>3, <1>4 DEF Sound
<1>6. \A a \in Assertions(c.text) : Holds(a, Support(c))
  BY <1>1, <1>5, AssertionsHold
<1> QED BY <1>2, <1>3, <1>6

(***************************************************************************)
(* Every moment shown is true, for every repository, every proposal and    *)
(* every limit: what its text asserts holds of the rows behind all of the  *)
(* places that support it (validator.ts:432-738, projection.ts:89-147).    *)
(***************************************************************************)
THEOREM ShownMomentsAreAlwaysTrue == ContentSpec => []ShownMomentsAreTrue
BY ContentInvariant, ShownIsTrue, PTL

-----------------------------------------------------------------------------
(***************************************************************************)
(* What the validator makes of a batch is a report its contract accepts.   *)
(***************************************************************************)
LEMMA ReasonNames ==
    ASSUME NEW c
    PROVE  Reasons(c, graph) \cap {"duplicate_candidate", "ranked_below_limit"} = {}
<1> DEFINE names == {"missing_evidence", "unsupported_evidence_kind", "disconnected_evidence",
                     "evidence_limit_exceeded", "type_evidence_mismatch",
                     "unsupported_absence_claim", "unsupported_claim_language",
                     "deterministic_contradiction", "conflicting_evidence"}
<1>1. Reasons(c, graph) \subseteq names
  BY DEF Reasons
<1>2. names \cap {"duplicate_candidate", "ranked_below_limit"} = {}
  OBVIOUS
<1> HIDE DEF names
<1> QED BY <1>1, <1>2

\* A representative stands for itself.
LEMMA BestIsEligible ==
    ASSUME ContentInv, Made(graph), batch # <<>>, NEW d \in ValidDrafts
    PROVE  Best(d) \in Eligible
<1>1. Best(d) \in ValidDrafts /\ Best(d).signature = d.signature
  BY BestOfADraft
<1>2. {f \in ValidDrafts : f.signature = Best(d).signature}
        = {f \in ValidDrafts : f.signature = d.signature}
  BY <1>1
<1>3. Best(Best(d)) = Best(d)
  BY <1>2 DEF Best
<1> QED BY <1>1, <1>3 DEF Eligible

\* A valid draft has a score, which is a record of numbers.
LEMMA DraftHasAScore ==
    ASSUME ContentInv, Made(graph), batch # <<>>, NEW i \in DOMAIN batch,
           DraftAt(i).reasons = {}
    PROVE  DraftAt(i).score # None
<1> DEFINE c == batch[i]
           facts == Facts(c.cites \cup Expanded(c.cites, graph), graph)
           s == Score(c, facts, graph)
<1>1. DraftAt(i).score = s
  BY DraftFields
<1>2. CandidateIsValid(c) /\ c.length \in Nat
  BY DEF ContentInv, BatchInv, BatchIsValid
<1>3. IsFiniteSet({f.fact : f \in facts})
  BY BuiltGraph, FiniteFacts
<1> HIDE DEF facts
<1>4. /\ s.evidenceStrength \in Int /\ s.urgency \in Int /\ s.completeness \in Int
      /\ s.importance \in Int /\ s.confidence \in Int /\ s.attention \in Int
  BY <1>2, <1>3, ScoresAreNumbers
<1>5. s = [evidenceStrength |-> s.evidenceStrength, urgency |-> s.urgency,
           completeness |-> s.completeness, importance |-> s.importance,
           confidence |-> s.confidence, attention |-> s.attention]
  BY DEF Score
<1> HIDE DEF s
<1>6. s \in [evidenceStrength : Int, urgency : Int, completeness : Int, importance : Int,
             confidence : Int, attention : Int]
  BY <1>4, <1>5
<1> QED BY <1>1, <1>6, NoneIsNoScore

LEMMA ItemIsAccepted ==
    ASSUME ContentInv, Made(graph), batch # <<>>, NEW i \in DOMAIN batch,
           NEW item, ItemOf(DraftAt(i), item)
    PROVE  ItemIsValid(item) /\ item.index = i
<1> DEFINE c == batch[i]
           d == DraftAt(i)
           facts == Facts(Support(c), graph)
<1>1. /\ d.index = i /\ d.candidate = c /\ d.expanded = Expanded(c.cites, graph)
      /\ d.facts = Some(facts, MaxFacts) /\ d.reasons = Reasons(c, graph)
      /\ d.reasons # {} => d.score = None
  BY DEF DraftAt, Draft, Support
<1>2. CandidateIsValid(c) /\ i \in Nat
  BY FiniteBatch DEF ContentInv, BatchInv, BatchIsValid
<1>3. c.cites # {}
  <2>1. Cardinality({}) = 0
    BY FS_EmptySet
  <2>2. Cardinality(c.cites) # 0
    BY <1>2 DEF CandidateIsValid
  <2> QED BY <2>1, <2>2
<1>4. c.cites \cap d.expanded = {} /\ Cardinality(d.expanded) <= MaxExpanded
  BY <1>1, ExpandedIsBounded
<1>5. \A f \in d.facts : f.ids \subseteq c.cites \cup d.expanded
  <2>1. IsFiniteSet(facts)
    BY BuiltGraph, FiniteFacts
  <2>2. MaxFacts \in Int
    BY ValidationLimits
  <2>3. \A f \in facts : f.ids \subseteq Support(c)
    BY FactsAreShown
  <2> HIDE DEF facts, d, c
  <2>4. Some(facts, MaxFacts) \subseteq facts
    BY <2>1, <2>2, SomeAreElements
  <2> QED BY <1>1, <2>3, <2>4 DEF Support
<1>6. d.reasons \cap {"duplicate_candidate", "ranked_below_limit"} = {}
  BY <1>1, ReasonNames
<1>7. d.reasons = {} => d.score # None
  BY DraftHasAScore
<1>8. d.reasons = {} => d \in ValidDrafts
  BY DEF ValidDrafts, AllDrafts
<1>9. d.reasons = {} /\ Best(d) # d => Best(d).index \in Nat /\ Best(d).index # i
  <2> SUFFICES ASSUME d.reasons = {}, Best(d) # d
               PROVE  Best(d).index \in Nat /\ Best(d).index # i
    OBVIOUS
  <2>1. PICK j \in DOMAIN batch : Best(d) = DraftAt(j)
    BY <1>8, BestOfADraft DEF ValidDrafts, AllDrafts
  <2>2. j \in Nat /\ Best(d).index = j /\ j # i
    BY <2>1, FiniteBatch, DraftPlaces DEF ContentInv
  <2> QED BY <2>2
<1>10. d.reasons = {} /\ Best(d) = d => RankIn(Eligible, d) \in Nat
  <2> SUFFICES ASSUME d.reasons = {}, Best(d) = d PROVE RankIn(Eligible, d) \in Nat
    OBVIOUS
  <2>1. d \in Eligible
    BY <1>8 DEF Eligible
  <2>2. AreScored(Eligible)
    BY ValidDraftsAreScored DEF Eligible
  <2>3. Cardinality(Eligible) \in Nat /\ RankIn(Eligible, d) \in 1 .. Cardinality(Eligible)
    BY <2>1, <2>2, FS_CardinalityType, RanksFollowTheKeys DEF AreScored
  <2> QED BY <2>3
<1>11. None \notin Nat
  BY ContentAssumption
<1> HIDE DEF d, c
<1>12. item.index = i /\ item.cited = c.cites /\ item.expanded = d.expanded /\ item.facts = d.facts
       /\ item.score = d.score
  BY <1>1 DEF ItemOf, d
<1>13. /\ item.cited # {} /\ item.cited \cap item.expanded = {}
       /\ Cardinality(item.expanded) <= MaxExpanded
       /\ \A f \in item.facts : f.ids \subseteq item.cited \cup item.expanded
  BY <1>3, <1>4, <1>5, <1>12
<1>14. CASE d.reasons # {}
  <2>1. /\ item.decision = "rejected" /\ item.reasons = d.reasons /\ item.rank = None
        /\ item.representative = None /\ item.score = None
    BY <1>1, <1>12, <1>14 DEF ItemOf, d
  <2> QED BY <1>6, <1>12, <1>13, <1>14, <2>1 DEF ItemIsValid
<1>15. CASE d.reasons = {} /\ Best(d) # d
  <2>1. /\ item.decision = "valid_unselected" /\ item.reasons = {"duplicate_candidate"}
        /\ item.rank = None /\ item.representative = Best(d).index /\ item.score # None
    BY <1>7, <1>12, <1>15 DEF ItemOf, d
  <2>2. item.representative # item.index /\ item.representative # None
    BY <1>9, <1>11, <1>12, <1>15, <2>1
  <2> QED BY <1>12, <1>13, <2>1, <2>2 DEF ItemIsValid
<1>16. CASE d.reasons = {} /\ Best(d) = d /\ RankIn(Eligible, d) <= MaxSelected
  <2>1. /\ item.decision = "valid_selected" /\ item.reasons = {}
        /\ item.rank = RankIn(Eligible, d) /\ item.representative = None /\ item.score # None
    BY <1>7, <1>12, <1>16 DEF ItemOf, d
  <2>2. item.rank # None
    BY <1>10, <1>11, <1>16, <2>1
  <2> QED BY <1>12, <1>13, <2>1, <2>2 DEF ItemIsValid
<1>17. CASE d.reasons = {} /\ Best(d) = d /\ ~(RankIn(Eligible, d) <= MaxSelected)
  <2>1. /\ item.decision = "valid_unselected" /\ item.reasons = {"ranked_below_limit"}
        /\ item.rank = None /\ item.representative = None /\ item.score # None
    BY <1>7, <1>12, <1>17 DEF ItemOf, d
  <2>2. item.representative # item.index
    BY <1>2, <1>11, <1>12, <2>1
  <2> QED BY <1>12, <1>13, <2>1, <2>2 DEF ItemIsValid
<1> QED BY <1>14, <1>15, <1>16, <1>17

LEMMA RepresentativesStand ==
    ASSUME ContentInv, Made(graph), batch # <<>>, NEW items, DOMAIN items = DOMAIN batch,
           \A k \in DOMAIN batch : ItemOf(DraftAt(k), items[k]),
           NEW i \in DOMAIN batch, items[i].representative # None
    PROVE  /\ items[items[i].representative].decision # "rejected"
           /\ items[items[i].representative].representative = None
<1>1. ItemOf(DraftAt(i), items[i])
  OBVIOUS
<1>2. /\ DraftAt(i).reasons = {}
      /\ items[i].representative = Best(DraftAt(i)).index
  BY <1>1 DEF ItemOf
<1>3. DraftAt(i) \in ValidDrafts
  BY <1>2 DEF ValidDrafts, AllDrafts
<1>4. Best(DraftAt(i)) \in Eligible
  BY <1>3, BestIsEligible
<1>5. PICK j \in DOMAIN batch : Best(DraftAt(i)) = DraftAt(j)
  BY <1>4 DEF Eligible, ValidDrafts, AllDrafts
<1>6. items[i].representative = j
  BY <1>2, <1>5, DraftPlaces
<1>7. DraftAt(j).reasons = {} /\ Best(DraftAt(j)) = DraftAt(j)
  BY <1>4, <1>5 DEF Eligible, ValidDrafts
<1>8. ItemOf(DraftAt(j), items[j])
  BY <1>5
<1>9. items[j].decision # "rejected" /\ items[j].representative = None
  BY <1>7, <1>8 DEF ItemOf
<1> QED BY <1>6, <1>9

\* The selected are the eligible with the least ranks: 1, 2, ... without a gap.
LEMMA RanksAreThoseOfAList ==
    ASSUME ContentInv, Made(graph), batch # <<>>, NEW items, DOMAIN items = DOMAIN batch,
           \A k \in DOMAIN batch : ItemOf(DraftAt(k), items[k])
    PROVE  LET selected == ItemsWith(items, "valid_selected")
           IN  /\ {items[i].rank : i \in selected} = 1 .. Cardinality(selected)
               /\ Cardinality(selected) <= MaxSelected
<1> DEFINE selected == ItemsWith(items, "valid_selected")
           n == Cardinality(Eligible)
           m == IF MaxSelected <= n THEN MaxSelected ELSE n
           rank == [i \in selected |-> items[i].rank]
<1>1. AreScored(Eligible)
  BY ValidDraftsAreScored DEF Eligible
<1>2. n \in Nat /\ MaxSelected \in Nat
  BY <1>1, FS_CardinalityType, ValidationLimits DEF AreScored
<1>3. m \in Nat /\ m <= n /\ m <= MaxSelected /\ \A r \in Nat : r <= m <=> r <= n /\ r <= MaxSelected
  <2> HIDE DEF n
  <2> QED BY <1>2
<1> HIDE DEF m
<1>4. \A i \in DOMAIN batch :
          /\ i \in selected <=> /\ DraftAt(i) \in Eligible
                                /\ RankIn(Eligible, DraftAt(i)) <= MaxSelected
          /\ i \in selected => items[i].rank = RankIn(Eligible, DraftAt(i))
  <2> TAKE i \in DOMAIN batch
  <2>1. ItemOf(DraftAt(i), items[i])
    OBVIOUS
  <2>2. DraftAt(i) \in Eligible <=> DraftAt(i).reasons = {} /\ Best(DraftAt(i)) = DraftAt(i)
    BY DEF Eligible, ValidDrafts, AllDrafts
  <2>3. i \in selected <=> items[i].decision = "valid_selected"
    BY DEF ItemsWith
  <2> HIDE DEF selected
  <2> QED BY <2>1, <2>2, <2>3 DEF ItemOf
<1>5. selected \subseteq DOMAIN batch
  BY DEF ItemsWith
<1> HIDE DEF selected
<1>6. \A i \in selected : RankIn(Eligible, DraftAt(i)) \in 1 .. n
  BY <1>1, <1>4, <1>5, RanksFollowTheKeys
<1>7. \A i \in selected : rank[i] = RankIn(Eligible, DraftAt(i)) /\ rank[i] \in 1 .. m
  <2> HIDE DEF n
  <2>1. \A i \in selected : rank[i] = RankIn(Eligible, DraftAt(i))
    BY <1>4, <1>5
  <2>2. \A i \in selected : RankIn(Eligible, DraftAt(i)) <= MaxSelected
    BY <1>4, <1>5
  <2> HIDE DEF rank
  <2>3. ASSUME NEW i \in selected PROVE rank[i] \in 1 .. m
    BY <1>2, <1>3, <1>6, <2>1, <2>2
  <2> QED BY <2>1, <2>3
<1>8. ASSUME NEW x \in selected, NEW y \in selected, x # y PROVE rank[x] # rank[y]
  <2>1. DraftAt(x) \in Eligible /\ DraftAt(y) \in Eligible
    BY <1>4, <1>5
  <2>2. DraftAt(x) # DraftAt(y)
    BY <1>8, DraftPlaces
  <2> QED BY <1>1, <1>7, <2>1, <2>2, RanksAreDistinct
<1>9. ASSUME NEW r \in 1 .. m PROVE \E i \in selected : rank[i] = r
  <2> HIDE DEF n, rank
  <2>1. r \in Nat /\ r \in 1 .. n /\ r <= MaxSelected
    BY <1>2, <1>3
  <2>2. PICK d \in Eligible : RankIn(Eligible, d) = r
    BY <1>1, <2>1, RanksHaveNoGap DEF n
  <2>3. PICK i \in DOMAIN batch : d = DraftAt(i)
    BY DEF Eligible, ValidDrafts, AllDrafts
  <2>4. i \in selected
    BY <1>4, <2>1, <2>2, <2>3
  <2> QED BY <1>7, <2>2, <2>3, <2>4
<1>10. DOMAIN rank = selected
  OBVIOUS
<1>11. \A i \in selected : rank[i] = items[i].rank
  OBVIOUS
<1>12. rank = [i \in selected |-> rank[i]]
  OBVIOUS
<1> HIDE DEF rank, n
<1>13. rank \in Injection(selected, 1 .. m) /\ rank \in Surjection(selected, 1 .. m)
  BY <1>7, <1>8, <1>9, <1>10, <1>12 DEF Injection, IsInjective, Surjection
<1>14. IsFiniteSet(selected) /\ IsFiniteSet(1 .. m) /\ Cardinality(1 .. m) = m
  <2>1. IsFiniteSet(selected)
    BY <1>5, FiniteBatch, FS_Subset DEF ContentInv
  <2>2. IsFiniteSet(1 .. m) /\ Cardinality(1 .. m) = IF 1 > m THEN 0 ELSE m - 1 + 1
    BY <1>3, FS_Interval
  <2>3. (IF 1 > m THEN 0 ELSE m - 1 + 1) = m
    BY <1>3
  <2> QED BY <2>1, <2>2, <2>3
<1>15. Cardinality(selected) = m
  <2>1. Cardinality(selected) = Cardinality(1 .. m)
    BY <1>13, <1>14, FS_Injection
  <2> QED BY <1>14, <2>1
<1>16. {items[i].rank : i \in selected} = 1 .. m
  BY <1>7, <1>9, <1>11
<1>17. /\ {items[i].rank : i \in selected} = 1 .. Cardinality(selected)
       /\ Cardinality(selected) <= MaxSelected
  BY <1>3, <1>15, <1>16
<1> QED BY <1>17 DEF selected

LEMMA JudgementIsAccepted ==
    ASSUME ContentInv, Made(graph), batch # <<>>
    PROVE  ReportIsValid(Judgement(batch, graph))
<1> DEFINE r == Judgement(batch, graph)
           selected == ItemsWith(r.items, "valid_selected")
<1>1. /\ DOMAIN r.items = DOMAIN batch
      /\ \A k \in DOMAIN batch : ItemOf(DraftAt(k), r.items[k])
      /\ r.partial <=> r.limitations # {}
  BY JudgedDrafts
<1> HIDE DEF r
<1>2. \A k \in DOMAIN r.items : ItemIsValid(r.items[k]) /\ r.items[k].index = k
  BY <1>1, ItemIsAccepted
<1>3. \A k \in DOMAIN r.items :
          r.items[k].representative # None =>
              /\ r.items[r.items[k].representative].decision # "rejected"
              /\ r.items[r.items[k].representative].representative = None
  BY <1>1, RepresentativesStand
<1>4. /\ {r.items[i].rank : i \in selected} = 1 .. Cardinality(selected)
      /\ Cardinality(selected) <= MaxSelected
  BY <1>1, RanksAreThoseOfAList
<1>5. ReportIsValid(r)
  BY <1>1, <1>2, <1>3, <1>4 DEF ReportIsValid
<1> QED BY <1>5 DEF r

LEMMA SelectedItemsAgree ==
    ASSUME ContentInv, Made(report), NEW i \in ItemsWith(report.items, "valid_selected")
    PROVE  SelectedItemAgrees(report.items[i], batch, graph)
<1> DEFINE c == batch[i]
           facts == Facts(Support(c), graph)
<1>1. /\ Made(graph) /\ batch # <<>> /\ i \in DOMAIN batch
      /\ report.items[i].decision = "valid_selected" /\ ItemOf(DraftAt(i), report.items[i])
  BY ReportOfBatch DEF ItemsWith
<1>2. /\ DraftAt(i).index = i /\ DraftAt(i).candidate = c
      /\ DraftAt(i).expanded = Expanded(c.cites, graph)
      /\ DraftAt(i).facts = Some(facts, MaxFacts) /\ DraftAt(i).reasons = Reasons(c, graph)
  BY DEF DraftAt, Draft, Support
<1>3. Reasons(c, graph) = {}
  BY <1>1, <1>2 DEF ItemOf
<1>4. /\ report.items[i].index = i /\ report.items[i].fingerprint = c
      /\ report.items[i].cited = c.cites /\ report.items[i].expanded = Expanded(c.cites, graph)
      /\ report.items[i].facts = Some(facts, MaxFacts)
  BY <1>1, <1>2 DEF ItemOf
<1>5. c.type \in CandidateTypes
  BY <1>1 DEF ContentInv, BatchInv, BatchIsValid, CandidateIsValid
<1>6. Support(c) \subseteq Ids(graph.nodes)
  BY <1>1, <1>3, <1>5, AcceptedPlaces
<1>7. \A f \in Some(facts, MaxFacts) : f.ids \subseteq Support(c)
  <2>1. IsFiniteSet(facts)
    BY <1>1, BuiltGraph, FiniteFacts
  <2>2. MaxFacts \in Int
    BY ValidationLimits
  <2>3. \A f \in facts : f.ids \subseteq Support(c)
    BY FactsAreShown
  <2> HIDE DEF facts, c
  <2>4. Some(facts, MaxFacts) \subseteq facts
    BY <2>1, <2>2, SomeAreElements
  <2> QED BY <2>3, <2>4
<1> HIDE DEF facts
<1>8. Moment(report.items[i], batch).evidence
        = c.cites \cup Expanded(c.cites, graph) \cup UNION {f.ids : f \in Some(facts, MaxFacts)}
  BY <1>4 DEF Moment
<1>9. Moment(report.items[i], batch).evidence \subseteq Support(c)
  BY <1>7, <1>8 DEF Support
<1>10. Moment(report.items[i], batch).evidence \subseteq {n.id : n \in graph.nodes}
  BY <1>6, <1>9 DEF Ids
<1> QED BY <1>1, <1>4, <1>10 DEF SelectedItemAgrees

(***************************************************************************)
(* A batch its contract accepts is always judged and always shown, for     *)
(* every repository, every proposal and every limit: the report satisfies  *)
(* the report's contract, and what it selects agrees with the batch and    *)
(* the graph (validator.ts:787-955, projection.ts:92-145).                 *)
(***************************************************************************)
THEOREM AnswersAreAlwaysJudged == ContentSpec => []AnswersAreJudged
<1>1. ContentInv => AnswersAreJudged
  <2> SUFFICES ASSUME ContentInv PROVE AnswersAreJudged
    OBVIOUS
  <2>1. report # None => ReportIsValid(Judgement(batch, graph))
    <3>1. report # None => batch # <<>> /\ Made(graph)
      BY DEF ContentInv, ChainInv, Made
    <3> QED BY <3>1, JudgementIsAccepted
  <2>2. Made(report) => \A i \in ItemsWith(report.items, "valid_selected") :
                            SelectedItemAgrees(report.items[i], batch, graph)
    BY SelectedItemsAgree
  <2> QED BY <2>1, <2>2 DEF AnswersAreJudged
<1> QED BY <1>1, ContentInvariant, PTL

=================================================================================
