--------------------------- MODULE EquityGlProofs ---------------------------
(***************************************************************************)
(* What SumSeq computes, for sequences of any length, and MapThenSumSet,   *)
(* for finite sets of any size; then "Each balances by construction"       *)
(* (equity_gl.rs), for every quantity, price, par value and dividend,      *)
(* and what each of the four journals does to the accounts it touches.     *)
(*                                                                         *)
(* The induction is done on a set rather than on a predicate: the          *)
(* library's well-founded ordering of finite sets gives SetInduction,      *)
(* which takes no operator as a parameter, and every induction below       *)
(* instantiates it with a set.                                             *)
(***************************************************************************)
EXTENDS EquityGl, FiniteSetTheorems, SequenceTheorems, TLAPS

\* A set of naturals that holds 0 and is closed under successor holds them all.
LEMMA SetInduction ==
  ASSUME NEW S, S \subseteq Nat, 0 \in S, \A n \in S : n + 1 \in S
  PROVE  Nat \subseteq S
<1> SUFFICES ASSUME NEW bad \in Nat, bad \notin S
             PROVE  FALSE
  OBVIOUS
<1> DEFINE T == {0 .. n : n \in Nat \ S}
           R == StrictSubsetOrdering(Nat)
           F == FiniteSubsetsOf(Nat)
<1>1. T \subseteq F
  <2>1. \A n \in Nat : IsFiniteSet(0 .. n)
    BY FS_Interval
  <2>2. QED BY <2>1 DEF FiniteSubsetsOf
<1>2. T # {}
  OBVIOUS
<1>3. PICK x \in T : \A y \in T : ~ (<<y, x>> \in R)
  <2>1. IsWellFoundedOn(R, F)
    BY FS_StrictSubsetOrderingWellFounded
  <2> HIDE DEF T, R, F
  <2>2. QED BY <2>1, <1>1, <1>2, WFMin
<1>4. PICK m \in Nat \ S : x = 0 .. m
  OBVIOUS
<1>5. m # 0 /\ m - 1 \in Nat
  OBVIOUS
<1>6. m - 1 \in Nat \ S
  BY <1>5
<1>7. <<0 .. (m - 1), 0 .. m>> \in R
  BY <1>5 DEF StrictSubsetOrdering
<1>8. QED BY <1>3, <1>4, <1>6, <1>7

\* r holds the running totals of s.
IsRunning(r, s) ==
  r = [n \in 0 .. Len(s) |-> IF n = 0 THEN 0 ELSE r[n - 1] + s[n]]

\* Running totals exist and are integers.
LEMMA RunningExists ==
  ASSUME NEW s \in Seq(Int)
  PROVE  \E r \in [0 .. Len(s) -> Int] : IsRunning(r, s)
<1> DEFINE Good(n, r) == r[0] = 0 /\ \A i \in 1 .. n : r[i] = r[i - 1] + s[i]
           S == {n \in Nat : n <= Len(s) => \E r \in [0 .. n -> Int] : Good(n, r)}
<1>1. 0 \in S
  <2>1. [n \in 0 .. 0 |-> 0] \in [0 .. 0 -> Int] /\ Good(0, [n \in 0 .. 0 |-> 0])
    OBVIOUS
  <2>2. QED BY <2>1
<1>2. ASSUME NEW n \in S PROVE n + 1 \in S
  <2> SUFFICES ASSUME n + 1 <= Len(s)
               PROVE  \E r \in [0 .. n + 1 -> Int] : Good(n + 1, r)
    <3>1. n + 1 \in Nat
      OBVIOUS
    <3> HIDE DEF Good
    <3>2. QED BY <3>1
  <2>1. n \in Nat /\ n + 1 <= Len(s) /\ n <= Len(s)
    OBVIOUS
  <2>2. PICK r \in [0 .. n -> Int] : Good(n, r)
    <3>1. \E r \in [0 .. n -> Int] : Good(n, r)
      <4> HIDE DEF Good
      <4>1. QED BY <2>1
    <3>2. QED BY <3>1
  <2>3. s[n + 1] \in Int /\ r[n] \in Int
    BY <2>1
  <2> DEFINE q == [i \in 0 .. n + 1 |-> IF i = n + 1 THEN r[n] + s[n + 1] ELSE r[i]]
  <2>4. q \in [0 .. n + 1 -> Int]
    BY <2>3
  <2>5. Good(n + 1, q)
    <3>1. q[0] = 0
      BY <2>2
    <3>2. ASSUME NEW i \in 1 .. n + 1 PROVE q[i] = q[i - 1] + s[i]
      <4>1. CASE i = n + 1
        BY <4>1
      <4>2. CASE i # n + 1
        <5>1. i \in 1 .. n /\ i - 1 \in 0 .. n
          BY <4>2
        <5>2. QED BY <5>1, <2>2
      <4>3. QED BY <4>1, <4>2
    <3>3. QED BY <3>1, <3>2
  <2>6. QED BY <2>4, <2>5
<1>3. Len(s) \in S
  <2>1. S \subseteq Nat
    OBVIOUS
  <2> HIDE DEF S
  <2>2. Nat \subseteq S
    BY <1>1, <1>2, <2>1, SetInduction
  <2>3. QED BY <2>2
<1>4. PICK r \in [0 .. Len(s) -> Int] : Good(Len(s), r)
  BY <1>3
<1>5. r = [n \in 0 .. Len(s) |-> IF n = 0 THEN 0 ELSE r[n - 1] + s[n]]
  BY <1>4
<1>6. QED BY <1>5 DEF IsRunning

\* ... and are unique.
LEMMA RunningUnique ==
  ASSUME NEW s \in Seq(Int), NEW q, NEW r, IsRunning(q, s), IsRunning(r, s)
  PROVE  q = r
<1> DEFINE S == {n \in Nat : n <= Len(s) => q[n] = r[n]}
<1>1. 0 \in S
  BY DEF IsRunning
<1>2. ASSUME NEW n \in S PROVE n + 1 \in S
  <2>1. SUFFICES ASSUME n + 1 <= Len(s) PROVE q[n + 1] = r[n + 1]
    OBVIOUS
  <2>2. q[n + 1] = q[n] + s[n + 1] /\ r[n + 1] = r[n] + s[n + 1]
    BY <2>1 DEF IsRunning
  <2>3. QED BY <2>1, <2>2
<1>3. \A n \in 0 .. Len(s) : q[n] = r[n]
  <2>1. S \subseteq Nat
    OBVIOUS
  <2>2. Nat \subseteq S
    <3> HIDE DEF S
    <3>1. QED BY <1>1, <1>2, <2>1, SetInduction
  <2>3. QED BY <2>2
<1>4. QED BY <1>3 DEF IsRunning

\* SumSeq returns the last running total.
LEMMA SumSeqIsRunning ==
  ASSUME NEW s \in Seq(Int), NEW r, IsRunning(r, s)
  PROVE  SumSeq(s) = r[Len(s)]
<1> DEFINE c == CHOOSE q : IsRunning(q, s)
<1>1. IsRunning(c, s)
  OBVIOUS
<1>2. c = r
  BY <1>1, RunningUnique
<1>3. SumSeq(s) = c[Len(s)]
  BY DEF SumSeq, IsRunning
<1>4. QED BY <1>2, <1>3

\* The sum of integers is an integer.
LEMMA SumSeqType ==
  ASSUME NEW s \in Seq(Int)
  PROVE  SumSeq(s) \in Int
<1>1. PICK r \in [0 .. Len(s) -> Int] : IsRunning(r, s)
  BY RunningExists
<1>2. SumSeq(s) = r[Len(s)]
  BY <1>1, SumSeqIsRunning
<1>3. QED BY <1>2

\* The sum of no numbers is 0.
LEMMA SumSeqEmpty == SumSeq(<< >>) = 0
<1>1. << >> \in Seq(Int) /\ Len(<< >>) = 0
  OBVIOUS
<1>2. PICK r \in [0 .. Len(<< >>) -> Int] : IsRunning(r, << >>)
  BY <1>1, RunningExists
<1>3. r[0] = 0
  BY <1>1, <1>2 DEF IsRunning
<1>4. QED BY <1>1, <1>2, <1>3, SumSeqIsRunning

\* One more number adds itself to the sum.
LEMMA SumSeqAppend ==
  ASSUME NEW s \in Seq(Int), NEW x \in Int
  PROVE  SumSeq(Append(s, x)) = SumSeq(s) + x
<1> DEFINE t == Append(s, x)
           m == Len(s)
<1>1. PICK r \in [0 .. m -> Int] : IsRunning(r, s)
  BY RunningExists
<1> DEFINE q == [n \in 0 .. m + 1 |-> IF n = m + 1 THEN r[m] + x ELSE r[n]]
<1>2. t \in Seq(Int) /\ Len(t) = m + 1 /\ t[m + 1] = x
      /\ \A i \in 1 .. m : t[i] = s[i]
  OBVIOUS
<1>3. r[0] = 0 /\ \A i \in 1 .. m : r[i] = r[i - 1] + s[i]
  BY <1>1 DEF IsRunning
<1>4. ASSUME NEW n \in 0 .. m + 1
      PROVE  q[n] = IF n = 0 THEN 0 ELSE q[n - 1] + t[n]
  <2>1. CASE n = 0
    BY <2>1, <1>3
  <2>2. CASE n = m + 1
    BY <2>2, <1>2
  <2>3. CASE n \in 1 .. m
    <3>1. q[n] = r[n] /\ q[n - 1] = r[n - 1]
      BY <2>3
    <3>2. QED BY <3>1, <2>3, <1>2, <1>3
  <2>4. QED BY <2>1, <2>2, <2>3
<1>5. IsRunning(q, t)
  <2>1. q = [n \in 0 .. m + 1 |-> IF n = 0 THEN 0 ELSE q[n - 1] + t[n]]
    BY <1>4
  <2> HIDE DEF q, t
  <2>2. QED BY <2>1, <1>2 DEF IsRunning
<1>6. SumSeq(t) = q[m + 1]
  <2> HIDE DEF q, t
  <2>1. QED BY <1>2, <1>5, SumSeqIsRunning
<1>7. SumSeq(s) = r[m]
  BY <1>1, SumSeqIsRunning
<1>8. QED BY <1>6, <1>7

\* The form the modules above use: e is d with one more number at the end.
LEMMA SumSeqExtend ==
  ASSUME NEW n \in Nat, NEW d \in [1 .. n -> Int], NEW e \in [1 .. n + 1 -> Int],
         \A i \in 1 .. n : e[i] = d[i]
  PROVE  SumSeq(d) \in Int /\ SumSeq(e) = SumSeq(d) + e[n + 1]
<1>1. d \in Seq(Int) /\ Len(d) = n
  BY SeqDef
<1>2. e \in Seq(Int) /\ Len(e) = n + 1 /\ e[n + 1] \in Int
  BY SeqDef
<1>3. e = Append(d, e[n + 1])
  BY <1>1, <1>2
<1>4. QED BY <1>1, <1>2, <1>3, SumSeqType, SumSeqAppend

\* Replacing one number changes the sum by what it changes that number.
LEMMA SumSeqUpdate ==
  ASSUME NEW s \in Seq(Int), NEW t \in Seq(Int), Len(t) = Len(s), NEW d \in 1 .. Len(s),
         \A i \in 1 .. Len(s) : i # d => t[i] = s[i]
  PROVE  SumSeq(t) = SumSeq(s) + t[d] - s[d]
<1>1. PICK r \in [0 .. Len(s) -> Int] : IsRunning(r, s)
  BY RunningExists
<1>2. r[0] = 0 /\ \A i \in 1 .. Len(s) : r[i] = r[i - 1] + s[i]
  <2>1. Len(s) \in Nat
    OBVIOUS
  <2>2. \A n \in 0 .. Len(s) : r[n] = IF n = 0 THEN 0 ELSE r[n - 1] + s[n]
    BY <1>1, Zenon DEF IsRunning
  <2>3. QED BY <2>1, <2>2
<1>3. s[d] \in Int /\ t[d] \in Int
  OBVIOUS
<1> DEFINE q == [n \in 0 .. Len(s) |-> IF n < d THEN r[n] ELSE r[n] + t[d] - s[d]]
<1>4. ASSUME NEW n \in 0 .. Len(s)
      PROVE  q[n] = IF n = 0 THEN 0 ELSE q[n - 1] + t[n]
  <2>1. CASE n = 0
    BY <2>1, <1>2
  <2>2. CASE n \in 1 .. Len(s)
    <3>1. /\ n - 1 \in 0 .. Len(s) /\ r[n] = r[n - 1] + s[n]
          /\ r[n - 1] \in Int /\ s[n] \in Int /\ t[n] \in Int
          /\ n # d => t[n] = s[n]
      <4>1. n - 1 \in 0 .. Len(s) /\ r[n] = r[n - 1] + s[n]
        BY <2>2, <1>2
      <4>2. r[n - 1] \in Int
        BY <4>1
      <4>3. s[n] \in Int /\ t[n] \in Int
        BY <2>2
      <4>4. QED BY <4>1, <4>2, <4>3, <2>2
    <3>2. CASE n < d
      BY <3>1, <3>2, <2>2
    <3>3. CASE n = d
      BY <3>1, <3>3, <2>2
    <3>4. CASE n > d
      <4>1. ~ (n < d) /\ ~ (n - 1 < d) /\ n # 0 /\ n # d
        BY <2>2, <3>4
      <4>2. q[n] = r[n] + t[d] - s[d] /\ q[n - 1] = r[n - 1] + t[d] - s[d]
        BY <3>1, <4>1
      <4>3. t[n] = s[n] /\ r[n] = r[n - 1] + s[n]
        BY <3>1, <4>1, Zenon
      <4>4. PICK a \in Int, b \in Int, c \in Int, e \in Int :
              a = r[n - 1] /\ b = t[d] /\ c = s[d] /\ e = t[n]
        BY <1>3, <3>1, Zenon
      <4>5. q[n] = (a + e) + b - c /\ q[n - 1] = a + b - c
        BY <4>2, <4>3, <4>4, Zenon
      <4> HIDE DEF q
      <4>6. a \in Int /\ b \in Int /\ c \in Int /\ e \in Int
        OBVIOUS
      <4>7. (a + e) + b - c = (a + b - c) + e
        BY <4>6, SMTT(30)
      <4>8. QED BY <4>1, <4>4, <4>5, <4>7
    <3>5. QED BY <3>2, <3>3, <3>4
  <2>3. QED BY <2>1, <2>2
<1>5. IsRunning(q, t)
  <2>1. q = [n \in 0 .. Len(s) |-> IF n = 0 THEN 0 ELSE q[n - 1] + t[n]]
    BY <1>4
  <2> HIDE DEF q
  <2>2. QED BY <2>1 DEF IsRunning
<1>6. SumSeq(t) = q[Len(s)] /\ SumSeq(s) = r[Len(s)]
  <2> HIDE DEF q
  <2>1. QED BY <1>1, <1>5, SumSeqIsRunning
<1>7. QED BY <1>6

\* The sum of zeros is 0.
LEMMA SumSeqZero ==
  ASSUME NEW s \in Seq(Int), \A i \in 1 .. Len(s) : s[i] = 0
  PROVE  SumSeq(s) = 0
<1> DEFINE q == [n \in 0 .. Len(s) |-> 0]
<1>1. q = [n \in 0 .. Len(s) |-> IF n = 0 THEN 0 ELSE q[n - 1] + s[n]]
  OBVIOUS
<1>2. q[Len(s)] = 0
  OBVIOUS
<1> HIDE DEF q
<1>3. QED BY <1>1, <1>2, SumSeqIsRunning DEF IsRunning

\* Multiplying every number multiplies the sum.
LEMMA SumSeqScale ==
  ASSUME NEW s \in Seq(Int), NEW t \in Seq(Int), NEW p \in Int, Len(t) = Len(s),
         \A i \in 1 .. Len(s) : t[i] = p * s[i]
  PROVE  SumSeq(t) = p * SumSeq(s)
<1>1. PICK r \in [0 .. Len(s) -> Int] : IsRunning(r, s)
  BY RunningExists
<1>2. r[0] = 0 /\ \A i \in 1 .. Len(s) : r[i] = r[i - 1] + s[i]
  <2>1. Len(s) \in Nat
    OBVIOUS
  <2>2. \A n \in 0 .. Len(s) : r[n] = IF n = 0 THEN 0 ELSE r[n - 1] + s[n]
    BY <1>1, Zenon DEF IsRunning
  <2>3. QED BY <2>1, <2>2
<1> DEFINE q == [n \in 0 .. Len(s) |-> p * r[n]]
<1>3. ASSUME NEW n \in 0 .. Len(s)
      PROVE  q[n] = IF n = 0 THEN 0 ELSE q[n - 1] + t[n]
  <2>1. CASE n = 0
    BY <2>1, <1>2
  <2>2. CASE n \in 1 .. Len(s)
    <3>1. n - 1 \in 0 .. Len(s) /\ r[n] = r[n - 1] + s[n] /\ t[n] = p * s[n]
      BY <2>2, <1>2
    <3>2. PICK a \in Int, b \in Int : a = r[n - 1] /\ b = s[n]
      <4>1. r[n - 1] \in Int
        BY <3>1
      <4>2. s[n] \in Int
        BY <2>2
      <4>3. QED BY <4>1, <4>2
    <3>3. p * (a + b) = p * a + p * b
      BY <3>2
    <3>4. q[n] = p * r[n] /\ q[n - 1] = p * r[n - 1]
      BY <3>1
    <3>5. QED BY <2>2, <3>1, <3>2, <3>3, <3>4
  <2>3. QED BY <2>1, <2>2
<1>4. IsRunning(q, t)
  <2>1. q = [n \in 0 .. Len(s) |-> IF n = 0 THEN 0 ELSE q[n - 1] + t[n]]
    BY <1>3
  <2> HIDE DEF q
  <2>2. QED BY <2>1 DEF IsRunning
<1>5. SumSeq(t) = q[Len(s)] /\ SumSeq(s) = r[Len(s)]
  <2> HIDE DEF q
  <2>1. QED BY <1>1, <1>4, SumSeqIsRunning
<1>6. QED BY <1>5

-----------------------------------------------------------------------------
(* Sums over finite sets.  MapThenSumSet takes an operator; the sum of a   *)
(* function over a set is the same thing with a first-order parameter,     *)
(* which the lemmas below can quantify over.                               *)

SetSum(f, S) == MapThenSumSet(LAMBDA x : f[x], S)

\* r holds the sum of f over every subset of S.
Pick(T) == CHOOSE x \in T : TRUE
IsSetSum(r, f, S) ==
  r = [T \in SUBSET S |-> IF T = {} THEN 0 ELSE f[Pick(T)] + r[T \ {Pick(T)}]]

\* A set of sets that holds a finite set as soon as it holds what is left of it
\* without one element, whichever element that is, holds every finite set.
LEMMA FiniteInduction ==
  ASSUME NEW S, IsFiniteSet(S), NEW G,
         \A T \in SUBSET S : (\A x \in T : T \ {x} \in G) => T \in G
  PROVE  \A T \in SUBSET S : T \in G
<1> DEFINE N == {n \in Nat : \A T \in SUBSET S : Cardinality(T) = n => T \in G}
<1>1. \A T \in SUBSET S : /\ IsFiniteSet(T) /\ Cardinality(T) \in Nat
                          /\ Cardinality(T) = 0 <=> T = {}
                          /\ \A x \in T : Cardinality(T \ {x}) = Cardinality(T) - 1
  BY FS_Subset, FS_CardinalityType, FS_EmptySet, FS_RemoveElement
<1>2. 0 \in N
  BY <1>1
<1>3. ASSUME NEW n \in N PROVE n + 1 \in N
  <2>1. ASSUME NEW T \in SUBSET S, Cardinality(T) = n + 1 PROVE T \in G
    <3>1. \A x \in T : T \ {x} \in SUBSET S /\ Cardinality(T \ {x}) = n
      BY <1>1, <2>1
    <3>2. QED BY <3>1
  <2>2. QED BY <2>1
<1>4. Nat \subseteq N
  <2> HIDE DEF N
  <2>1. N \subseteq Nat
    BY DEF N
  <2>2. QED BY <1>2, <1>3, <2>1, SetInduction
<1>5. QED BY <1>1, <1>4

\* The sums over the subsets of a finite set exist and are integers.
LEMMA SetSumExists ==
  ASSUME NEW S, IsFiniteSet(S), NEW f, \A x \in S : f[x] \in Int
  PROVE  \E r \in [SUBSET S -> Int] : IsSetSum(r, f, S)
<1> DEFINE Value(r, T) == IF T = {} THEN 0 ELSE f[Pick(T)] + r[T \ {Pick(T)}]
           Good(r, n) == \A T \in SUBSET S : Cardinality(T) <= n => r[T] = Value(r, T)
           N == {n \in Nat : \E r \in [SUBSET S -> Int] : Good(r, n)}
<1>1. \A T \in SUBSET S : /\ Cardinality(T) \in Nat
                          /\ Cardinality(T) <= Cardinality(S)
                          /\ Cardinality(T) = 0 <=> T = {}
                          /\ \A x \in T : Cardinality(T \ {x}) = Cardinality(T) - 1
  BY FS_Subset, FS_CardinalityType, FS_EmptySet, FS_RemoveElement
<1>2. \A T \in SUBSET S : T # {} => /\ Pick(T) \in T /\ f[Pick(T)] \in Int
                                    /\ T \ {Pick(T)} \in SUBSET S
  BY DEF Pick
<1>3. 0 \in N
  <2>1. [T \in SUBSET S |-> 0] \in [SUBSET S -> Int] /\ Good([T \in SUBSET S |-> 0], 0)
    BY <1>1
  <2>2. QED BY <2>1
<1>4. ASSUME NEW n \in N PROVE n + 1 \in N
  <2>1. PICK r \in [SUBSET S -> Int] : Good(r, n)
    OBVIOUS
  <2> DEFINE q == [T \in SUBSET S |-> Value(r, T)]
  <2>2. \A T \in SUBSET S : Value(r, T) \in Int
    BY <1>2, <2>1
  <2>3. q \in [SUBSET S -> Int]
    BY <2>2
  <2>4. ASSUME NEW T \in SUBSET S, Cardinality(T) <= n + 1 PROVE q[T] = Value(q, T)
    <3>1. CASE T = {}
      BY <3>1
    <3>2. CASE T # {}
      <4> DEFINE U == T \ {Pick(T)}
      <4>1. U \in SUBSET S /\ Cardinality(U) <= n
        BY <1>1, <1>2, <2>4, <3>2
      <4>2. r[U] = Value(r, U)
        BY <2>1, <4>1
      <4>3. q[U] = r[U]
        BY <4>1, <4>2
      <4>4. QED BY <3>2, <4>3
    <3>3. QED BY <3>1, <3>2
  <2>5. Good(q, n + 1)
    BY <2>4
  <2> HIDE DEF q
  <2>6. \E p \in [SUBSET S -> Int] : Good(p, n + 1)
    <3> HIDE DEF Good
    <3>1. QED BY <2>3, <2>5, Zenon
  <2>7. n + 1 \in Nat
    OBVIOUS
  <2> HIDE DEF Good
  <2>8. QED BY <2>6, <2>7
<1>5. Cardinality(S) \in N
  <2> HIDE DEF N
  <2>1. N \subseteq Nat
    BY DEF N
  <2>2. Nat \subseteq N
    BY <1>3, <1>4, <2>1, SetInduction
  <2>3. QED BY <2>2, FS_CardinalityType
<1>6. PICK r \in [SUBSET S -> Int] : Good(r, Cardinality(S))
  BY <1>5
<1>7. \A T \in SUBSET S : r[T] = Value(r, T)
  BY <1>1, <1>6
<1>8. r = [T \in SUBSET S |-> Value(r, T)]
  BY <1>7
<1>9. QED BY <1>8 DEF IsSetSum

\* Sums of functions that agree on a set agree on its subsets.
LEMMA SetSumUnique ==
  ASSUME NEW S, IsFiniteSet(S), NEW R, S \subseteq R, NEW f, NEW g,
         \A x \in S : f[x] = g[x],
         NEW q, NEW r, IsSetSum(q, f, S), IsSetSum(r, g, R)
  PROVE  \A T \in SUBSET S : q[T] = r[T]
<1> DEFINE G == {T \in SUBSET S : q[T] = r[T]}
<1>1. ASSUME NEW T \in SUBSET S, \A x \in T : T \ {x} \in G PROVE T \in G
  <2>1. /\ q[T] = IF T = {} THEN 0 ELSE f[Pick(T)] + q[T \ {Pick(T)}]
        /\ r[T] = IF T = {} THEN 0 ELSE g[Pick(T)] + r[T \ {Pick(T)}]
    BY DEF IsSetSum
  <2>2. T # {} => Pick(T) \in T
    BY DEF Pick
  <2>3. QED BY <1>1, <2>1, <2>2
<1>2. \A T \in SUBSET S : T \in G
  <2> HIDE DEF G
  <2>1. QED BY <1>1, FiniteInduction
<1>3. QED BY <1>2

\* The sum over a set is what any such r says.
LEMMA SetSumIs ==
  ASSUME NEW S, IsFiniteSet(S), NEW f, NEW r, IsSetSum(r, f, S)
  PROVE  SetSum(f, S) = r[S]
<1> DEFINE c == CHOOSE q : IsSetSum(q, f, S)
<1>1. IsSetSum(c, f, S)
  OBVIOUS
<1>2. c[S] = r[S]
  <2> HIDE DEF c
  <2>1. QED BY <1>1, SetSumUnique
<1>3. SetSum(f, S) = c[S]
  BY DEF SetSum, MapThenSumSet, MapThenFoldSet, IsSetSum, Pick
<1>4. QED BY <1>2, <1>3

\* The sum of no elements is zero.
LEMMA SetSumEmpty ==
  ASSUME NEW f
  PROVE  SetSum(f, {}) = 0
<1>1. IsFiniteSet({}) /\ \A x \in {} : f[x] \in Int
  BY FS_EmptySet
<1>2. PICK r \in [SUBSET {} -> Int] : IsSetSum(r, f, {})
  BY <1>1, SetSumExists
<1>3. r[{}] = 0
  BY <1>2 DEF IsSetSum
<1>4. QED BY <1>1, <1>2, <1>3, SetSumIs

\* The sum over a finite set is an integer.
LEMMA SetSumType ==
  ASSUME NEW S, IsFiniteSet(S), NEW f, \A x \in S : f[x] \in Int
  PROVE  SetSum(f, S) \in Int
<1>1. PICK r \in [SUBSET S -> Int] : IsSetSum(r, f, S)
  BY SetSumExists
<1>2. QED BY <1>1, SetSumIs

\* The sum of functions that agree is the same.
LEMMA SetSumSame ==
  ASSUME NEW S, IsFiniteSet(S), NEW f, NEW g,
         \A x \in S : f[x] \in Int /\ f[x] = g[x]
  PROVE  SetSum(f, S) = SetSum(g, S)
<1>1. PICK q \in [SUBSET S -> Int] : IsSetSum(q, f, S)
  BY SetSumExists
<1>2. PICK r \in [SUBSET S -> Int] : IsSetSum(r, g, S)
  BY SetSumExists
<1>3. q[S] = r[S]
  BY <1>1, <1>2, SetSumUnique
<1>4. QED BY <1>1, <1>2, <1>3, SetSumIs

\* Whatever element is taken out of the set, its value comes off the sum.
LEMMA SetSumRemove ==
  ASSUME NEW S, IsFiniteSet(S), NEW f, \A x \in S : f[x] \in Int, NEW e \in S
  PROVE  SetSum(f, S) = f[e] + SetSum(f, S \ {e})
<1>1. PICK r \in [SUBSET S -> Int] : IsSetSum(r, f, S)
  BY SetSumExists
<1> DEFINE G == {T \in SUBSET S : \A x \in T : r[T] = f[x] + r[T \ {x}]}
<1>2. ASSUME NEW T \in SUBSET S, \A x \in T : T \ {x} \in G PROVE T \in G
  <2>1. ASSUME NEW x \in T PROVE r[T] = f[x] + r[T \ {x}]
    <3> DEFINE y == Pick(T)
    <3>1. y \in T
      BY DEF Pick
    <3>2. r[T] = f[y] + r[T \ {y}]
      BY <1>1, <2>1 DEF IsSetSum
    <3> HIDE DEF y
    <3>3. CASE x = y
      BY <3>2, <3>3
    <3>4. CASE x # y
      <4> DEFINE U == (T \ {x}) \ {y}
      <4>1. U = (T \ {y}) \ {x} /\ U \in SUBSET S /\ x \in T \ {y} /\ y \in T \ {x}
        BY <3>1, <3>4
      <4> HIDE DEF U
      <4>2. r[T \ {y}] = f[x] + r[U]
        BY <1>2, <3>1, <4>1
      <4>3. r[T \ {x}] = f[y] + r[U]
        BY <1>2, <2>1, <4>1 DEF U
      <4>4. r[U] \in Int /\ f[x] \in Int /\ f[y] \in Int
        BY <1>1, <2>1, <3>1, <4>1
      <4>5. QED BY <3>2, <4>2, <4>3, <4>4
    <3>5. QED BY <3>3, <3>4
  <2>2. QED BY <2>1
<1>3. \A T \in SUBSET S : T \in G
  <2> HIDE DEF G
  <2>1. QED BY <1>2, FiniteInduction
<1>4. r[S] = f[e] + r[S \ {e}]
  BY <1>3
<1>5. IsFiniteSet(S \ {e}) /\ S \ {e} \subseteq S /\ \A x \in S \ {e} : f[x] \in Int
  BY FS_RemoveElement
<1>6. PICK q \in [SUBSET (S \ {e}) -> Int] : IsSetSum(q, f, S \ {e})
  BY <1>5, SetSumExists
<1>7. q[S \ {e}] = r[S \ {e}]
  <2>1. \A T \in SUBSET (S \ {e}) : q[T] = r[T]
    BY <1>1, <1>5, <1>6, SetSumUnique
  <2>2. QED BY <2>1
<1>8. SetSum(f, S) = r[S] /\ SetSum(f, S \ {e}) = q[S \ {e}]
  BY <1>1, <1>5, <1>6, SetSumIs
<1>9. QED BY <1>4, <1>7, <1>8

\* A new element adds its value.
LEMMA SetSumAdd ==
  ASSUME NEW S, IsFiniteSet(S), NEW f, \A x \in S : f[x] \in Int,
         NEW e, e \notin S, f[e] \in Int
  PROVE  SetSum(f, S \cup {e}) = SetSum(f, S) + f[e]
<1>1. IsFiniteSet(S \cup {e}) /\ (S \cup {e}) \ {e} = S
  BY FS_AddElement
<1>2. SetSum(f, S \cup {e}) = f[e] + SetSum(f, S)
  BY <1>1, SetSumRemove
<1>3. SetSum(f, S) \in Int
  BY SetSumType
<1>4. QED BY <1>2, <1>3

\* Changing the value of one element changes the sum by as much.
LEMMA SetSumUpdate ==
  ASSUME NEW S, IsFiniteSet(S), NEW e \in S, NEW f, NEW g,
         \A x \in S : f[x] \in Int /\ g[x] \in Int,
         \A x \in S \ {e} : g[x] = f[x]
  PROVE  /\ SetSum(f, S) \in Int
         /\ SetSum(g, S) = SetSum(f, S) + (g[e] - f[e])
<1>1. IsFiniteSet(S \ {e})
  BY FS_RemoveElement
<1>2. SetSum(f, S) = f[e] + SetSum(f, S \ {e}) /\ SetSum(g, S) = g[e] + SetSum(g, S \ {e})
  BY SetSumRemove
<1>3. SetSum(f, S \ {e}) = SetSum(g, S \ {e})
  BY <1>1, SetSumSame
<1>4. SetSum(f, S \ {e}) \in Int
  BY <1>1, SetSumType
<1>5. QED BY <1>2, <1>3, <1>4

\* A sum of zeros is zero.
LEMMA SetSumZero ==
  ASSUME NEW S, IsFiniteSet(S), NEW f, \A x \in S : f[x] = 0
  PROVE  SetSum(f, S) = 0
<1> DEFINE G == {T \in SUBSET S : SetSum(f, T) = 0}
<1>1. ASSUME NEW T \in SUBSET S, \A x \in T : T \ {x} \in G PROVE T \in G
  <2>1. CASE T = {}
    BY <2>1, SetSumEmpty
  <2>2. CASE T # {}
    <3>1. PICK x \in T : TRUE
      BY <2>2
    <3>2. IsFiniteSet(T) /\ \A y \in T : f[y] \in Int
      BY FS_Subset
    <3>3. SetSum(f, T) = f[x] + SetSum(f, T \ {x})
      BY <3>2, SetSumRemove
    <3>4. SetSum(f, T \ {x}) = 0 /\ f[x] = 0
      BY <1>1
    <3>5. QED BY <3>3, <3>4
  <2>3. QED BY <2>1, <2>2
<1>2. \A T \in SUBSET S : T \in G
  <2> HIDE DEF G
  <2>1. QED BY <1>1, FiniteInduction
<1>3. QED BY <1>2

\* The sum of numbers none of which exceeds its counterpart does not exceed the
\* sum of these.
LEMMA SetSumMonotone ==
  ASSUME NEW S, IsFiniteSet(S), NEW f, NEW g,
         \A x \in S : f[x] \in Int /\ g[x] \in Int /\ f[x] <= g[x]
  PROVE  SetSum(f, S) <= SetSum(g, S)
<1> DEFINE G == {T \in SUBSET S : SetSum(f, T) <= SetSum(g, T)}
<1>1. ASSUME NEW T \in SUBSET S, \A x \in T : T \ {x} \in G PROVE T \in G
  <2>1. CASE T = {}
    BY <2>1, SetSumEmpty
  <2>2. CASE T # {}
    <3>1. PICK x \in T : TRUE
      BY <2>2
    <3>2. IsFiniteSet(T) /\ IsFiniteSet(T \ {x})
      BY FS_Subset, FS_RemoveElement
    <3>3. /\ SetSum(f, T) = f[x] + SetSum(f, T \ {x})
          /\ SetSum(g, T) = g[x] + SetSum(g, T \ {x})
      BY <3>2, SetSumRemove
    <3>4. SetSum(f, T \ {x}) \in Int /\ SetSum(g, T \ {x}) \in Int
      BY <3>2, SetSumType
    <3>5. SetSum(f, T \ {x}) <= SetSum(g, T \ {x}) /\ f[x] <= g[x]
          /\ f[x] \in Int /\ g[x] \in Int
      BY <1>1
    <3>6. QED BY <3>3, <3>4, <3>5
  <2>3. QED BY <2>1, <2>2
<1>2. \A T \in SUBSET S : T \in G
  <2> HIDE DEF G
  <2>1. QED BY <1>1, FiniteInduction
<1>3. QED BY <1>2

\* The sum over two sets with nothing in common.
LEMMA SetSumUnion ==
  ASSUME NEW S, IsFiniteSet(S), NEW R, IsFiniteSet(R), S \cap R = {},
         NEW f, \A x \in S \cup R : f[x] \in Int
  PROVE  /\ IsFiniteSet(S \cup R)
         /\ SetSum(f, S \cup R) = SetSum(f, S) + SetSum(f, R)
<1> DEFINE G == {T \in SUBSET R : /\ IsFiniteSet(S \cup T)
                                  /\ SetSum(f, S \cup T) = SetSum(f, S) + SetSum(f, T)}
<1>1. SetSum(f, S) \in Int
  BY SetSumType
<1>2. ASSUME NEW T \in SUBSET R, \A x \in T : T \ {x} \in G PROVE T \in G
  <2>1. CASE T = {}
    <3>1. S \cup T = S /\ SetSum(f, T) = 0
      BY <2>1, SetSumEmpty
    <3>2. IsFiniteSet(S \cup T) /\ SetSum(f, S \cup T) = SetSum(f, S)
      BY <3>1
    <3>3. SetSum(f, S \cup T) = SetSum(f, S) + SetSum(f, T)
      BY <1>1, <3>1, <3>2
    <3>4. QED BY <3>2, <3>3
  <2>2. CASE T # {}
    <3>1. PICK x \in T : TRUE
      BY <2>2
    <3>2. /\ IsFiniteSet(S \cup (T \ {x}))
          /\ SetSum(f, S \cup (T \ {x})) = SetSum(f, S) + SetSum(f, T \ {x})
      BY <1>2
    <3>3. /\ IsFiniteSet(T) /\ IsFiniteSet(T \ {x})
          /\ \A y \in T : f[y] \in Int
      BY FS_Subset, FS_RemoveElement
    <3>4. SetSum(f, T) = f[x] + SetSum(f, T \ {x}) /\ SetSum(f, T \ {x}) \in Int
      BY <3>3, SetSumRemove, SetSumType
    <3> DEFINE V == S \cup (T \ {x})
    <3>5. /\ x \notin V /\ f[x] \in Int /\ \A y \in V : f[y] \in Int
          /\ V \cup {x} = S \cup T
      BY <3>1
    <3>6. IsFiniteSet(V) /\ SetSum(f, V) = SetSum(f, S) + SetSum(f, T \ {x})
      BY <3>2
    <3> HIDE DEF V
    <3>7. /\ IsFiniteSet(S \cup T)
          /\ SetSum(f, S \cup T) = SetSum(f, S) + SetSum(f, T \ {x}) + f[x]
      <4>1. IsFiniteSet(V \cup {x}) /\ SetSum(f, V \cup {x}) = SetSum(f, V) + f[x]
        BY <3>5, <3>6, FS_AddElement, SetSumAdd
      <4>2. QED BY <3>5, <3>6, <4>1
    <3>8. SetSum(f, S) + SetSum(f, T \ {x}) + f[x] = SetSum(f, S) + SetSum(f, T)
      BY <1>1, <3>4, <3>5
    <3>9. QED BY <3>7, <3>8
  <2>3. QED BY <2>1, <2>2
<1>3. \A T \in SUBSET R : T \in G
  <2> HIDE DEF G
  <2>1. QED BY <1>2, FiniteInduction
<1>4. QED BY <1>3

\* Renaming the elements one to one keeps the sum.
LEMMA SetSumReindex ==
  ASSUME NEW S, IsFiniteSet(S), NEW f, NEW g, NEW h,
         \A x \in S : f[x] \in Int /\ g[h[x]] = f[x],
         \A x, y \in S : h[x] = h[y] => x = y
  PROVE  /\ IsFiniteSet({h[x] : x \in S})
         /\ SetSum(g, {h[x] : x \in S}) = SetSum(f, S)
<1> DEFINE Im(T) == {h[x] : x \in T}
           G == {T \in SUBSET S : IsFiniteSet(Im(T)) /\ SetSum(g, Im(T)) = SetSum(f, T)}
<1>1. ASSUME NEW T \in SUBSET S, \A x \in T : T \ {x} \in G PROVE T \in G
  <2>1. CASE T = {}
    <3>1. Im(T) = {} /\ IsFiniteSet({})
      BY <2>1, FS_EmptySet
    <3>2. QED BY <2>1, <3>1, SetSumEmpty
  <2>2. CASE T # {}
    <3>1. PICK x \in T : TRUE
      BY <2>2
    <3> DEFINE V == Im(T \ {x})
    <3>2. IsFiniteSet(V) /\ SetSum(g, V) = SetSum(f, T \ {x})
      BY <1>1
    <3>3. /\ h[x] \notin V /\ V \cup {h[x]} = Im(T)
          /\ g[h[x]] = f[x] /\ f[x] \in Int /\ \A y \in V : g[y] \in Int
      BY <3>1
    <3> HIDE DEF V
    <3>4. IsFiniteSet(V \cup {h[x]}) /\ SetSum(g, V \cup {h[x]}) = SetSum(g, V) + g[h[x]]
      BY <3>2, <3>3, FS_AddElement, SetSumAdd
    <3>5. IsFiniteSet(T) /\ IsFiniteSet(T \ {x}) /\ \A y \in T : f[y] \in Int
      BY FS_Subset, FS_RemoveElement
    <3>6. SetSum(f, T) = f[x] + SetSum(f, T \ {x}) /\ SetSum(f, T \ {x}) \in Int
      BY <3>5, SetSumRemove, SetSumType
    <3> HIDE DEF Im
    <3>7. IsFiniteSet(Im(T)) /\ SetSum(g, Im(T)) = SetSum(g, V) + f[x]
      BY <3>3, <3>4, Zenon
    <3>8. SetSum(g, Im(T)) = SetSum(f, T)
      BY <3>2, <3>3, <3>6, <3>7
    <3>9. QED BY <3>7, <3>8
  <2>3. QED BY <2>1, <2>2
<1>2. \A T \in SUBSET S : T \in G
  <2> HIDE DEF G
  <2>1. QED BY <1>1, FiniteInduction
<1>3. QED BY <1>2

\* Taking away elements that are not negative does not raise the sum.
LEMMA SetSumSubset ==
  ASSUME NEW S, IsFiniteSet(S), NEW T \in SUBSET S,
         NEW f, \A x \in S : f[x] \in Int /\ f[x] >= 0
  PROVE  SetSum(f, T) <= SetSum(f, S)
<1> DEFINE R == S \ T
           zero == [x \in S |-> 0]
<1>1. IsFiniteSet(T) /\ IsFiniteSet(R) /\ T \cap R = {} /\ T \cup R = S /\ R \subseteq S
  BY FS_Subset
<1>2. \A x \in R : zero[x] \in Int /\ zero[x] = 0 /\ f[x] \in Int /\ zero[x] <= f[x]
  OBVIOUS
<1> HIDE DEF R, zero
<1>3. SetSum(zero, R) = 0 /\ SetSum(zero, R) <= SetSum(f, R)
  <2>1. SetSum(zero, R) = 0
    BY <1>1, <1>2, SetSumZero
  <2>2. SetSum(zero, R) <= SetSum(f, R)
    BY <1>1, <1>2, SetSumMonotone
  <2>3. QED BY <2>1, <2>2
<1>4. SetSum(f, T \cup R) = SetSum(f, T) + SetSum(f, R)
  BY <1>1, SetSumUnion
<1>5. SetSum(f, T) \in Int /\ SetSum(f, R) \in Int
  BY <1>1, SetSumType
<1>6. SetSum(f, S) = SetSum(f, T) + SetSum(f, R)
  BY <1>1, <1>4, Zenon
<1>7. 0 <= SetSum(f, R)
  BY <1>3
<1>8. QED BY <1>5, <1>6, <1>7

\* The sum of opposites is the opposite of the sum.
LEMMA SetSumNegate ==
  ASSUME NEW S, IsFiniteSet(S), NEW f, NEW g,
         \A x \in S : f[x] \in Int /\ g[x] = - f[x]
  PROVE  SetSum(g, S) = - SetSum(f, S)
<1> DEFINE G == {T \in SUBSET S : SetSum(g, T) = - SetSum(f, T)}
<1>1. ASSUME NEW T \in SUBSET S, \A x \in T : T \ {x} \in G PROVE T \in G
  <2>1. CASE T = {}
    BY <2>1, SetSumEmpty
  <2>2. CASE T # {}
    <3>1. PICK x \in T : TRUE
      BY <2>2
    <3>2. /\ IsFiniteSet(T) /\ IsFiniteSet(T \ {x})
          /\ \A y \in T : f[y] \in Int /\ g[y] \in Int
      BY FS_Subset, FS_RemoveElement
    <3>3. /\ SetSum(f, T) = f[x] + SetSum(f, T \ {x})
          /\ SetSum(g, T) = g[x] + SetSum(g, T \ {x})
      BY <3>2, SetSumRemove
    <3>4. SetSum(f, T \ {x}) \in Int /\ f[x] \in Int /\ g[x] = - f[x]
          /\ SetSum(g, T \ {x}) = - SetSum(f, T \ {x})
      BY <1>1, <3>2, SetSumType
    <3>5. SetSum(g, T) = - SetSum(f, T)
      BY <3>3, <3>4
    <3>6. QED BY <3>5
  <2>3. QED BY <2>1, <2>2
<1>2. \A T \in SUBSET S : T \in G
  <2> HIDE DEF G
  <2>1. QED BY <1>1, FiniteInduction
<1>3. QED BY <1>2

\* The sum of multiples is the multiple of the sum.
LEMMA SetSumScale ==
  ASSUME NEW S, IsFiniteSet(S), NEW n \in Int, NEW f, NEW g,
         \A x \in S : f[x] \in Int /\ g[x] = n * f[x]
  PROVE  SetSum(g, S) = n * SetSum(f, S)
<1> DEFINE G == {T \in SUBSET S : SetSum(g, T) = n * SetSum(f, T)}
<1>1. ASSUME NEW T \in SUBSET S, \A x \in T : T \ {x} \in G PROVE T \in G
  <2>1. CASE T = {}
    <3>1. SetSum(g, T) = 0 /\ SetSum(f, T) = 0
      BY <2>1, SetSumEmpty
    <3>2. QED BY <3>1
  <2>2. CASE T # {}
    <3>1. PICK x \in T : TRUE
      BY <2>2
    <3>2. /\ IsFiniteSet(T) /\ IsFiniteSet(T \ {x})
          /\ \A y \in T : f[y] \in Int /\ g[y] \in Int
      BY FS_Subset, FS_RemoveElement
    <3>3. /\ SetSum(f, T) = f[x] + SetSum(f, T \ {x})
          /\ SetSum(g, T) = g[x] + SetSum(g, T \ {x})
      BY <3>2, SetSumRemove
    <3>4. SetSum(f, T \ {x}) \in Int /\ f[x] \in Int /\ g[x] = n * f[x]
          /\ SetSum(g, T \ {x}) = n * SetSum(f, T \ {x})
      BY <1>1, <3>2, SetSumType
    <3>5. \A a, b \in Int : n * a + n * b = n * (a + b)
      OBVIOUS
    <3>6. SetSum(g, T) = n * SetSum(f, T)
      BY <3>3, <3>4, <3>5
    <3>7. QED BY <3>6
  <2>3. QED BY <2>1, <2>2
<1>2. \A T \in SUBSET S : T \in G
  <2> HIDE DEF G
  <2>1. QED BY <1>1, FiniteInduction
<1>3. QED BY <1>2

\* What is added to every element is added as often as there are elements.
LEMMA SetSumShift ==
  ASSUME NEW S, IsFiniteSet(S), NEW n \in Int, NEW f, NEW g,
         \A x \in S : f[x] \in Int /\ g[x] = f[x] + n
  PROVE  SetSum(g, S) = SetSum(f, S) + n * Cardinality(S)
<1> DEFINE G == {T \in SUBSET S : SetSum(g, T) = SetSum(f, T) + n * Cardinality(T)}
<1>1. ASSUME NEW T \in SUBSET S, \A x \in T : T \ {x} \in G PROVE T \in G
  <2>1. CASE T = {}
    <3>1. SetSum(g, T) = 0 /\ SetSum(f, T) = 0 /\ Cardinality(T) = 0
      BY <2>1, SetSumEmpty, FS_EmptySet
    <3>2. QED BY <3>1
  <2>2. CASE T # {}
    <3>1. PICK x \in T : TRUE
      BY <2>2
    <3>2. /\ IsFiniteSet(T) /\ IsFiniteSet(T \ {x})
          /\ \A y \in T : f[y] \in Int /\ g[y] \in Int
          /\ Cardinality(T \ {x}) = Cardinality(T) - 1
          /\ Cardinality(T) \in Nat /\ Cardinality(T \ {x}) \in Nat
      BY <3>1, FS_Subset, FS_RemoveElement, FS_CardinalityType
    <3>3. /\ SetSum(f, T) = f[x] + SetSum(f, T \ {x})
          /\ SetSum(g, T) = g[x] + SetSum(g, T \ {x})
      BY <3>2, SetSumRemove
    <3>4. SetSum(f, T \ {x}) \in Int /\ f[x] \in Int /\ g[x] = f[x] + n
          /\ SetSum(g, T \ {x}) = SetSum(f, T \ {x}) + n * Cardinality(T \ {x})
      BY <1>1, <3>2, SetSumType
    <3>5. \A c \in Int : n * (c - 1) = n * c - n /\ n * c \in Int
      OBVIOUS
    <3>6. /\ n * Cardinality(T \ {x}) = n * Cardinality(T) - n
          /\ n * Cardinality(T) \in Int
      BY <3>2, <3>5
    <3>7. SetSum(g, T) = SetSum(f, T) + n * Cardinality(T)
      BY <3>3, <3>4, <3>6
    <3>8. QED BY <3>7
  <2>3. QED BY <2>1, <2>2
<1>2. \A T \in SUBSET S : T \in G
  <2> HIDE DEF G
  <2>1. QED BY <1>1, FiniteInduction
<1>3. QED BY <1>2

\* Elements that add nothing can be left out.
LEMMA SetSumSupport ==
  ASSUME NEW S, IsFiniteSet(S), NEW T \in SUBSET S,
         NEW f, \A x \in S : f[x] \in Int, \A x \in S \ T : f[x] = 0
  PROVE  IsFiniteSet(T) /\ SetSum(f, T) = SetSum(f, S)
<1> DEFINE R == S \ T
<1>1. IsFiniteSet(T) /\ IsFiniteSet(R) /\ T \cap R = {} /\ T \cup R = S
  BY FS_Subset
<1>2. \A x \in R : f[x] = 0
  OBVIOUS
<1> HIDE DEF R
<1>3. SetSum(f, R) = 0
  BY <1>1, <1>2, SetSumZero
<1>4. SetSum(f, T \cup R) = SetSum(f, T) + SetSum(f, R)
  BY <1>1, SetSumUnion
<1>5. SetSum(f, T) \in Int
  BY <1>1, SetSumType
<1>6. SetSum(f, S) = SetSum(f, T) + SetSum(f, R)
  BY <1>1, <1>4, Zenon
<1>7. QED BY <1>1, <1>3, <1>5, <1>6

-----------------------------------------------------------------------------
(* Integer quotients.                                                      *)

\* What the integer quotient is.
LEMMA Quotient ==
  ASSUME NEW a \in Int, NEW b \in Nat \ {0}
  PROVE  /\ a \div b \in Int
         /\ (a \div b) * b <= a
         /\ a < (a \div b) * b + b
OBVIOUS

-----------------------------------------------------------------------------
(* The journals.                                                           *)

\* Appending a line adds its debit and its credit to the totals.
LEMMA TotalsAppend ==
  ASSUME NEW lines \in Seq(GlPostLine), NEW line \in GlPostLine
  PROVE  /\ Append(lines, line) \in Seq(GlPostLine)
         /\ Append(lines, line) # << >>
         /\ TotalDebit(lines) \in Int /\ TotalCredit(lines) \in Int
         /\ TotalDebit(Append(lines, line)) = TotalDebit(lines) + line.debit
         /\ TotalCredit(Append(lines, line)) = TotalCredit(lines) + line.credit
<1> DEFINE n == Len(lines)
           all == Append(lines, line)
           d == [i \in 1 .. n |-> lines[i].debit]
           c == [i \in 1 .. n |-> lines[i].credit]
           dd == [i \in 1 .. Len(all) |-> all[i].debit]
           cc == [i \in 1 .. Len(all) |-> all[i].credit]
<1>1. n \in Nat /\ all \in Seq(GlPostLine) /\ all # << >>
      /\ Len(all) = n + 1 /\ all[n + 1] = line
      /\ \A i \in 1 .. n : all[i] = lines[i]
  OBVIOUS
<1>2. \A i \in 1 .. n : lines[i].debit \in Int /\ lines[i].credit \in Int
  <2>1. \A i \in 1 .. n : lines[i] \in GlPostLine
    OBVIOUS
  <2>2. QED BY <2>1 DEF GlPostLine
<1>3. line.debit \in Int /\ line.credit \in Int
  BY DEF GlPostLine
<1> HIDE DEF all
<1>4. \A i \in 1 .. n + 1 : i \in 1 .. n \/ i = n + 1
  BY <1>1
<1>5. d \in [1 .. n -> Int] /\ c \in [1 .. n -> Int]
      /\ dd \in [1 .. n + 1 -> Int] /\ cc \in [1 .. n + 1 -> Int]
  BY <1>1, <1>2, <1>3, <1>4
<1>6. dd[n + 1] = line.debit /\ cc[n + 1] = line.credit
      /\ \A i \in 1 .. n : dd[i] = d[i] /\ cc[i] = c[i]
  BY <1>1
<1>7. n \in Nat
  BY <1>1
<1>8. SumSeq(dd) = SumSeq(d) + line.debit /\ SumSeq(cc) = SumSeq(c) + line.credit
  <2> HIDE DEF n, d, c, dd, cc
  <2>1. QED BY <1>5, <1>6, <1>7, SumSeqExtend
<1>9. SumSeq(d) \in Int /\ SumSeq(c) \in Int
  <2> HIDE DEF n, d, c, dd, cc
  <2>1. QED BY <1>5, <1>6, <1>7, SumSeqExtend
<1>10. QED BY <1>1, <1>8, <1>9 DEF TotalDebit, TotalCredit, all

\* A journal of one line totals that line.
LEMMA TotalsOne ==
  ASSUME NEW line \in GlPostLine
  PROVE  /\ << line >> \in Seq(GlPostLine)
         /\ TotalDebit(<< line >>) = line.debit
         /\ TotalCredit(<< line >>) = line.credit
<1>1. Append(<< >>, line) = << line >> /\ << >> \in Seq(GlPostLine)
  OBVIOUS
<1>2. [i \in 1 .. Len(<< >>) |-> << >>[i].debit] = << >>
      /\ [i \in 1 .. Len(<< >>) |-> << >>[i].credit] = << >>
  OBVIOUS
<1>3. TotalDebit(<< >>) = 0 /\ TotalCredit(<< >>) = 0
  BY <1>2, SumSeqEmpty DEF TotalDebit, TotalCredit
<1>4. line.debit \in Int /\ line.credit \in Int
  BY DEF GlPostLine
<1>5. /\ Append(<< >>, line) \in Seq(GlPostLine)
      /\ TotalDebit(Append(<< >>, line)) = TotalDebit(<< >>) + line.debit
      /\ TotalCredit(Append(<< >>, line)) = TotalCredit(<< >>) + line.credit
  BY <1>1, TotalsAppend
<1>6. QED BY <1>1, <1>3, <1>4, <1>5

\* Two lines are one with another appended.
LEMMA PairIsAppend ==
  ASSUME NEW first \in GlPostLine, NEW second \in GlPostLine
  PROVE  Append(<< first >>, second) = << first, second >>
<1>1. << first >> \in Seq(GlPostLine) /\ Len(<< first >>) = 1
      /\ << first >>[1] = first
  OBVIOUS
<1>2. << first, second >> \in Seq(GlPostLine) /\ Len(<< first, second >>) = 2
      /\ << first, second >>[1] = first /\ << first, second >>[2] = second
  OBVIOUS
<1>3. Append(<< first >>, second) \in Seq(GlPostLine)
      /\ Len(Append(<< first >>, second)) = 2
      /\ Append(<< first >>, second)[1] = first
      /\ Append(<< first >>, second)[2] = second
  BY <1>1
<1> DEFINE s == Append(<< first >>, second)
           t == << first, second >>
<1>4. s \in Seq(GlPostLine) /\ t \in Seq(GlPostLine) /\ Len(s) = Len(t)
      /\ \A i \in 1 .. Len(s) : s[i] = t[i]
  <2>1. \A i \in 1 .. 2 : i = 1 \/ i = 2
    OBVIOUS
  <2> HIDE DEF s, t
  <2>2. QED BY <1>2, <1>3, <2>1 DEF s, t
<1> HIDE DEF s, t
<1>5. s = t
  BY <1>4, SeqEqual
<1>6. QED BY <1>5 DEF s, t

\* A journal of two lines totals both.
LEMMA TotalsTwo ==
  ASSUME NEW first \in GlPostLine, NEW second \in GlPostLine
  PROVE  /\ << first, second >> \in Seq(GlPostLine)
         /\ TotalDebit(<< first, second >>) = first.debit + second.debit
         /\ TotalCredit(<< first, second >>) = first.credit + second.credit
<1>1. Append(<< first >>, second) = << first, second >>
  BY PairIsAppend
<1>2. << first >> \in Seq(GlPostLine)
  BY TotalsOne
<1>3. QED BY <1>1, <1>2, TotalsOne, TotalsAppend

\* The line constructors build lines.
LEMMA LineType ==
  ASSUME NEW account \in Account, NEW amount \in Int
  PROVE  /\ Debit(account, amount) \in GlPostLine
         /\ Debit(account, amount).debit = amount
         /\ Debit(account, amount).credit = 0
         /\ Credit(account, amount) \in GlPostLine
         /\ Credit(account, amount).debit = 0
         /\ Credit(account, amount).credit = amount
BY DEF Debit, Credit, GlPostLine

\* A positive number of shares priced at or above par costs at least its capital.
LEMMA PremiumNotNegative ==
  ASSUME NEW q \in Nat, NEW price \in Int, NEW par \in Int, price >= par
  PROVE  q * price - q * par >= 0
<1>1. q * price - q * par = q * (price - par)
  OBVIOUS
<1>2. price - par \in Nat
  OBVIOUS
<1>3. \A m, n \in Nat : m * n >= 0
  OBVIOUS
<1>4. QED BY <1>1, <1>2, <1>3

\* An issue priced at or above par posts a balanced journal; the guard of
\* issue_shares that refuses a lower price is what makes this true.
THEOREM IssueBalances ==
  ASSUME NEW quantity \in Nat, NEW price \in Int, NEW par \in Int, price >= par
  PROVE  IsBalanced(IssueLines(quantity, price, par))
<1> DEFINE amount  == quantity * price
           capital == quantity * par
           premium == amount - capital
           posted  == << Debit("bank", amount), Credit("share_capital", capital) >>
<1>1. amount \in Int /\ capital \in Int
  OBVIOUS
<1>2. premium >= 0
  BY PremiumNotNegative
<1>3. IssueLines(quantity, price, par) =
        IF premium > 0 THEN Append(posted, Credit("share_premium", premium)) ELSE posted
  BY DEF IssueLines
<1> HIDE DEF amount, capital
<1>4. Debit("bank", amount) \in GlPostLine /\ Credit("share_capital", capital) \in GlPostLine
      /\ Credit("share_premium", premium) \in GlPostLine
  BY <1>1, LineType DEF Account
<1>5. posted \in Seq(GlPostLine) /\ TotalDebit(posted) = amount /\ TotalCredit(posted) = capital
  BY <1>1, <1>4, TotalsTwo, LineType DEF Account
<1>6. posted # << >>
  OBVIOUS
<1> HIDE DEF posted
<1>7. CASE premium > 0
  <2> DEFINE last == Credit("share_premium", premium)
  <2>1. last.debit = 0 /\ last.credit = premium
    BY <1>1, LineType DEF Account
  <2>2. TotalDebit(Append(posted, last)) = amount + 0
        /\ TotalCredit(Append(posted, last)) = capital + premium
        /\ Append(posted, last) # << >>
    BY <2>1, <1>4, <1>5, TotalsAppend
  <2>3. QED BY <2>2, <1>1, <1>3, <1>7 DEF IsBalanced
<1>8. CASE premium = 0
  BY <1>8, <1>1, <1>3, <1>5, <1>6 DEF IsBalanced
<1>9. QED BY <1>1, <1>2, <1>7, <1>8

\* A buyback posts a balanced journal whatever the price, below par included.
THEOREM BuybackBalances ==
  ASSUME NEW quantity \in Int, NEW price \in Int, NEW par \in Int
  PROVE  IsBalanced(BuybackLines(quantity, price, par))
<1> DEFINE amount  == quantity * price
           capital == quantity * par
           excess  == amount - capital
           retired == << Debit("share_capital", capital) >>
           settled == IF excess > 0
                        THEN Append(retired, Debit("retained_earnings", excess))
                        ELSE IF excess < 0
                               THEN Append(retired, Credit("retained_earnings", -excess))
                               ELSE retired
<1>1. amount \in Int /\ capital \in Int
  OBVIOUS
<1>2. BuybackLines(quantity, price, par) = Append(settled, Credit("bank", amount))
  BY DEF BuybackLines
<1> HIDE DEF amount, capital
<1>3. excess \in Int /\ -excess \in Int
  BY <1>1
<1>4. retired \in Seq(GlPostLine) /\ TotalDebit(retired) = capital /\ TotalCredit(retired) = 0
  BY <1>1, LineType, TotalsOne DEF Account
<1> HIDE DEF retired
<1>5. /\ settled \in Seq(GlPostLine)
      /\ TotalDebit(settled) \in Int /\ TotalCredit(settled) \in Int
      /\ TotalDebit(settled) - TotalCredit(settled) = amount
  <2>1. CASE excess > 0
    <3> DEFINE line == Debit("retained_earnings", excess)
    <3>1. line \in GlPostLine /\ line.debit = excess /\ line.credit = 0
      BY <1>3, LineType DEF Account
    <3>2. settled = Append(retired, line)
      BY <2>1
    <3>3. settled \in Seq(GlPostLine)
          /\ TotalDebit(settled) = capital + excess /\ TotalCredit(settled) = 0 + 0
      <4> HIDE DEF settled, line
      <4>1. QED BY <3>1, <3>2, <1>4, TotalsAppend
    <3>4. QED BY <3>3, <1>1, <1>3
  <2>2. CASE excess < 0
    <3> DEFINE line == Credit("retained_earnings", -excess)
    <3>1. line \in GlPostLine /\ line.debit = 0 /\ line.credit = -excess
      BY <1>3, LineType DEF Account
    <3>2. settled = Append(retired, line)
      <4>1. ~ (excess > 0)
        BY <2>2, <1>3
      <4>2. QED BY <4>1, <2>2
    <3>3. settled \in Seq(GlPostLine)
          /\ TotalDebit(settled) = capital + 0 /\ TotalCredit(settled) = 0 + (-excess)
      <4> HIDE DEF settled, line
      <4>1. QED BY <3>1, <3>2, <1>4, TotalsAppend
    <3>4. QED BY <3>3, <1>1, <1>3
  <2>3. CASE excess = 0
    BY <2>3, <1>1, <1>4
  <2>4. QED BY <2>1, <2>2, <2>3, <1>3
<1> HIDE DEF settled
<1> DEFINE last == Credit("bank", amount)
<1>6. last \in GlPostLine /\ last.debit = 0 /\ last.credit = amount
  BY <1>1, LineType DEF Account
<1>7. /\ TotalDebit(Append(settled, last)) = TotalDebit(settled) + 0
      /\ TotalCredit(Append(settled, last)) = TotalCredit(settled) + amount
      /\ Append(settled, last) # << >>
  BY <1>5, <1>6, TotalsAppend
<1>8. QED BY <1>1, <1>2, <1>5, <1>7 DEF IsBalanced

\* The two legs of a dividend are balanced.
THEOREM DividendBalances ==
  ASSUME NEW total \in Int
  PROVE  IsBalanced(DeclareLines(total)) /\ IsBalanced(PayLines(total))
<1>1. DeclareLines(total) # << >> /\ PayLines(total) # << >>
  BY DEF DeclareLines, PayLines
<1>2. TotalDebit(DeclareLines(total)) = total /\ TotalCredit(DeclareLines(total)) = total
  BY LineType, TotalsTwo DEF DeclareLines, Account
<1>3. TotalDebit(PayLines(total)) = total /\ TotalCredit(PayLines(total)) = total
  BY LineType, TotalsTwo DEF PayLines, Account
<1>4. QED BY <1>1, <1>2, <1>3 DEF IsBalanced

-----------------------------------------------------------------------------
(* What each journal adds to each account.                                 *)

\* What a line adds to an account.
LineNet(line, a) == IF line.account = a THEN line.debit - line.credit ELSE 0

\* The line constructors add their amount to one account, or take it.
LEMMA LineNets ==
  ASSUME NEW account \in Account, NEW amount \in Int, NEW a \in Account
  PROVE  /\ LineNet(Debit(account, amount), a) = IF account = a THEN amount ELSE 0
         /\ LineNet(Credit(account, amount), a) = IF account = a THEN - amount ELSE 0
BY DEF LineNet, Debit, Credit

\* Appending a line adds what the line adds.
LEMMA NetAppend ==
  ASSUME NEW lines \in Seq(GlPostLine), NEW line \in GlPostLine, NEW a
  PROVE  /\ Append(lines, line) \in Seq(GlPostLine)
         /\ LineNet(line, a) \in Int
         /\ Net(lines, a) \in Int
         /\ Net(Append(lines, line), a) = Net(lines, a) + LineNet(line, a)
<1> DEFINE n == Len(lines)
           all == Append(lines, line)
           d == [i \in 1 .. n |-> LineNet(lines[i], a)]
           e == [i \in 1 .. Len(all) |-> LineNet(all[i], a)]
<1>1. n \in Nat /\ all \in Seq(GlPostLine) /\ Len(all) = n + 1 /\ all[n + 1] = line
      /\ (\A i \in 1 .. n : all[i] = lines[i])
      /\ \A i \in 1 .. n : lines[i] \in GlPostLine
  OBVIOUS
<1>2. \A l \in GlPostLine : LineNet(l, a) \in Int
  BY DEF GlPostLine, LineNet
<1>3. Net(lines, a) = SumSeq(d) /\ Net(all, a) = SumSeq(e)
  BY Zenon DEF Net, LineNet
<1> HIDE DEF all
<1>4. \A i \in 1 .. n + 1 : i \in 1 .. n \/ i = n + 1
  BY <1>1
<1>5. /\ d \in [1 .. n -> Int] /\ e \in [1 .. n + 1 -> Int]
      /\ e[n + 1] = LineNet(line, a)
      /\ \A i \in 1 .. n : e[i] = d[i]
  BY <1>1, <1>2, <1>4
<1>6. SumSeq(d) \in Int /\ SumSeq(e) = SumSeq(d) + LineNet(line, a)
  <2> HIDE DEF n, d, e
  <2>1. QED BY <1>1, <1>5, SumSeqExtend
<1>7. QED BY <1>1, <1>2, <1>3, <1>6 DEF all

\* A journal of one line adds that line.
LEMMA NetOne ==
  ASSUME NEW line \in GlPostLine, NEW a
  PROVE  << line >> \in Seq(GlPostLine) /\ Net(<< line >>, a) = LineNet(line, a)
<1>1. Append(<< >>, line) = << line >> /\ << >> \in Seq(GlPostLine)
  OBVIOUS
<1>2. [i \in 1 .. Len(<< >>) |->
         IF << >>[i].account = a THEN << >>[i].debit - << >>[i].credit ELSE 0] = << >>
  OBVIOUS
<1>3. Net(<< >>, a) = 0
  BY <1>2, SumSeqEmpty DEF Net
<1>4. /\ Append(<< >>, line) \in Seq(GlPostLine) /\ LineNet(line, a) \in Int
      /\ Net(Append(<< >>, line), a) = Net(<< >>, a) + LineNet(line, a)
  BY <1>1, NetAppend, Zenon
<1>5. Net(<< line >>, a) = Net(<< >>, a) + LineNet(line, a)
  BY <1>1, <1>4, Zenon
<1>6. QED BY <1>1, <1>3, <1>4, <1>5

\* A journal of two lines adds both.
LEMMA NetTwo ==
  ASSUME NEW first \in GlPostLine, NEW second \in GlPostLine, NEW a
  PROVE  /\ << first, second >> \in Seq(GlPostLine)
         /\ Net(<< first, second >>, a) = LineNet(first, a) + LineNet(second, a)
<1>1. Append(<< first >>, second) = << first, second >>
  BY PairIsAppend
<1>2. << first >> \in Seq(GlPostLine) /\ Net(<< first >>, a) = LineNet(first, a)
  BY NetOne
<1>3. /\ Append(<< first >>, second) \in Seq(GlPostLine)
      /\ Net(Append(<< first >>, second), a) = Net(<< first >>, a) + LineNet(second, a)
  BY <1>2, NetAppend, Zenon
<1>4. QED BY <1>1, <1>2, <1>3, Zenon

\* An issue brings its price into the bank and books par value as capital, the
\* excess as premium.
LEMMA IssueNets ==
  ASSUME NEW quantity \in Int, NEW price \in Int, NEW par \in Int, NEW a \in Account
  PROVE  LET amount  == quantity * price
             capital == quantity * par
         IN  Net(IssueLines(quantity, price, par), a) =
               IF a = "bank" THEN amount
               ELSE IF a = "share_capital" THEN - capital
               ELSE IF a = "share_premium" /\ amount > capital THEN - (amount - capital)
               ELSE 0
<1>1. PICK amount \in Int : amount = quantity * price
  OBVIOUS
<1>2. PICK capital \in Int : capital = quantity * par
  OBVIOUS
<1> DEFINE premium == amount - capital
           first  == Debit("bank", amount)
           second == Credit("share_capital", capital)
           third  == Credit("share_premium", premium)
<1>3. IssueLines(quantity, price, par) =
        IF premium > 0 THEN Append(<< first, second >>, third) ELSE << first, second >>
  BY <1>1, <1>2 DEF IssueLines
<1>4. premium \in Int /\ {"bank", "share_capital", "share_premium"} \subseteq Account
  BY DEF Account
<1>5. /\ first \in GlPostLine /\ second \in GlPostLine /\ third \in GlPostLine
      /\ LineNet(first, a) = IF a = "bank" THEN amount ELSE 0
      /\ LineNet(second, a) = IF a = "share_capital" THEN - capital ELSE 0
      /\ LineNet(third, a) = IF a = "share_premium" THEN - premium ELSE 0
  BY <1>4, LineType, LineNets
<1> HIDE DEF first, second, third
<1> DEFINE two == << first, second >>
<1>6. two \in Seq(GlPostLine) /\ Net(two, a) = LineNet(first, a) + LineNet(second, a)
  BY <1>5, NetTwo
<1> HIDE DEF two
<1>7. Net(Append(two, third), a) = Net(two, a) + LineNet(third, a)
  BY <1>5, <1>6, NetAppend
<1>8. Net(IssueLines(quantity, price, par), a) =
        IF premium > 0 THEN Net(Append(two, third), a) ELSE Net(two, a)
  BY <1>3 DEF two
<1>9. Net(IssueLines(quantity, price, par), a) =
        IF a = "bank" THEN amount
        ELSE IF a = "share_capital" THEN - capital
        ELSE IF a = "share_premium" /\ amount > capital THEN - premium
        ELSE 0
  BY <1>5, <1>6, <1>7, <1>8
<1>10. QED BY <1>1, <1>2, <1>9

\* A buyback pays its price out of the bank and retires par value, the difference
\* either way against retained earnings; premium stays as it is.
LEMMA BuybackNets ==
  ASSUME NEW quantity \in Int, NEW price \in Int, NEW par \in Int, NEW a \in Account
  PROVE  LET amount  == quantity * price
             capital == quantity * par
         IN  Net(BuybackLines(quantity, price, par), a) =
               IF a = "bank" THEN - amount
               ELSE IF a = "share_capital" THEN capital
               ELSE IF a = "retained_earnings" THEN amount - capital
               ELSE 0
<1>1. PICK amount \in Int : amount = quantity * price
  OBVIOUS
<1>2. PICK capital \in Int : capital = quantity * par
  OBVIOUS
<1> DEFINE excess  == amount - capital
           first   == Debit("share_capital", capital)
           dear    == Debit("retained_earnings", excess)
           cheap   == Credit("retained_earnings", - excess)
           last    == Credit("bank", amount)
           retired == << first >>
           settled == IF excess > 0 THEN Append(retired, dear)
                      ELSE IF excess < 0 THEN Append(retired, cheap) ELSE retired
<1>3. BuybackLines(quantity, price, par) = Append(settled, last)
  BY <1>1, <1>2 DEF BuybackLines
<1>4. /\ excess \in Int /\ - excess \in Int
      /\ {"bank", "share_capital", "retained_earnings"} \subseteq Account
  BY DEF Account
<1>5. /\ first \in GlPostLine /\ dear \in GlPostLine
      /\ cheap \in GlPostLine /\ last \in GlPostLine
      /\ LineNet(first, a) = IF a = "share_capital" THEN capital ELSE 0
      /\ LineNet(dear, a) = IF a = "retained_earnings" THEN excess ELSE 0
      /\ LineNet(cheap, a) = IF a = "retained_earnings" THEN - (- excess) ELSE 0
      /\ LineNet(last, a) = IF a = "bank" THEN - amount ELSE 0
  BY <1>4, LineType, LineNets
<1> HIDE DEF first, dear, cheap, last
<1>6. retired \in Seq(GlPostLine) /\ Net(retired, a) = LineNet(first, a)
  BY <1>5, NetOne
<1> HIDE DEF retired
<1>7. /\ Append(retired, dear) \in Seq(GlPostLine)
      /\ Append(retired, cheap) \in Seq(GlPostLine)
      /\ Net(Append(retired, dear), a) = Net(retired, a) + LineNet(dear, a)
      /\ Net(Append(retired, cheap), a) = Net(retired, a) + LineNet(cheap, a)
  BY <1>5, <1>6, NetAppend
<1>8. /\ settled \in Seq(GlPostLine)
      /\ Net(settled, a) = IF a = "share_capital" THEN capital
                           ELSE IF a = "retained_earnings" THEN excess ELSE 0
  BY <1>4, <1>5, <1>6, <1>7
<1> HIDE DEF settled
<1>9. Net(Append(settled, last), a) = Net(settled, a) + LineNet(last, a)
  BY <1>5, <1>8, NetAppend
<1>10. QED BY <1>1, <1>2, <1>3, <1>5, <1>8, <1>9

\* A declaration moves its total from retained earnings to the payable.
LEMMA DeclareNets ==
  ASSUME NEW total \in Int, NEW a \in Account
  PROVE  /\ DeclareLines(total) \in Seq(GlPostLine)
         /\ Net(DeclareLines(total), a) =
              IF a = "retained_earnings" THEN total
              ELSE IF a = "dividend_payable" THEN - total ELSE 0
<1> DEFINE first  == Debit("retained_earnings", total)
           second == Credit("dividend_payable", total)
<1>1. /\ first \in GlPostLine /\ second \in GlPostLine
      /\ LineNet(first, a) = IF a = "retained_earnings" THEN total ELSE 0
      /\ LineNet(second, a) = IF a = "dividend_payable" THEN - total ELSE 0
  <2>1. {"retained_earnings", "dividend_payable"} \subseteq Account
    BY DEF Account
  <2>2. QED BY <2>1, LineType, LineNets
<1>2. DeclareLines(total) = << first, second >>
  BY DEF DeclareLines
<1> HIDE DEF first, second
<1>3. QED BY <1>1, <1>2, NetTwo

\* A payment moves its total from the payable to the bank.
LEMMA PayNets ==
  ASSUME NEW total \in Int, NEW a \in Account
  PROVE  /\ PayLines(total) \in Seq(GlPostLine)
         /\ Net(PayLines(total), a) =
              IF a = "dividend_payable" THEN total
              ELSE IF a = "bank" THEN - total ELSE 0
<1> DEFINE first  == Debit("dividend_payable", total)
           second == Credit("bank", total)
<1>1. /\ first \in GlPostLine /\ second \in GlPostLine
      /\ LineNet(first, a) = IF a = "dividend_payable" THEN total ELSE 0
      /\ LineNet(second, a) = IF a = "bank" THEN - total ELSE 0
  <2>1. {"bank", "dividend_payable"} \subseteq Account
    BY DEF Account
  <2>2. QED BY <2>1, LineType, LineNets
<1>2. PayLines(total) = << first, second >>
  BY DEF PayLines
<1> HIDE DEF first, second
<1>3. QED BY <1>1, <1>2, NetTwo
=============================================================================
