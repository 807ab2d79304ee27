------------------------- MODULE EquityServiceProofs -------------------------
(***************************************************************************)
(* What runs around the write service, for every number of calls, readers  *)
(* and connections.                                                        *)
(*                                                                         *)
(* The cap-table reads: what a read returns adds up, although its          *)
(* statements are not in one transaction.  The register only ever grows at *)
(* its end, so what a statement saw stays a prefix of it, and every prefix *)
(* that was once the whole register has the register's invariant.          *)
(*                                                                         *)
(* The bounded connection pool: one with a connection left for a           *)
(* transaction is never stuck, and a call that is refused a connection     *)
(* leaves the service as sound as it found it.                             *)
(***************************************************************************)
EXTENDS EquityReads, EquityPool, EquityDividendProofs

-----------------------------------------------------------------------------
(* Prefixes of the register.                                               *)

\* The shares outstanding of two prefixes are the same if no row between them
\* counts for the class.
LEMMA OutstandingBetween ==
  ASSUME NEW rows \in Seq(Row), NEW c \in ShareClass,
         NEW n \in 0 .. Len(rows), NEW m \in n .. Len(rows),
         \A i \in n + 1 .. m : Counted(rows[i], c) = 0
  PROVE  shares_outstanding(SubSeq(rows, 1, m), c) = shares_outstanding(SubSeq(rows, 1, n), c)
<1> DEFINE Same(j) == shares_outstanding(SubSeq(rows, 1, n + j), c)
                        = shares_outstanding(SubSeq(rows, 1, n), c)
           S == {j \in Nat : n + j <= m => Same(j)}
<1>1. n \in Nat /\ m \in Nat /\ Len(rows) \in Nat /\ n <= m /\ m <= Len(rows)
  OBVIOUS
<1>2. 0 \in S
  BY <1>1
<1>3. ASSUME NEW j \in S PROVE j + 1 \in S
  <2>1. CASE n + (j + 1) <= m
    <3> DEFINE i == n + (j + 1)
               s == SubSeq(rows, 1, n + j)
    <3>1. i \in n + 1 .. m /\ i \in 1 .. Len(rows) /\ n + j \in 0 .. Len(rows)
      BY <1>1, <2>1
    <3>2. s \in Seq(Row) /\ rows[i] \in Row /\ SubSeq(rows, 1, i) = Append(s, rows[i])
      BY <3>1
    <3>3. Counted(rows[i], c) = 0
      BY <3>1
    <3>4. n + j <= m /\ Same(j)
      BY <1>1, <2>1
    <3> HIDE DEF s
    <3>5. shares_outstanding(Append(s, rows[i]), c) = shares_outstanding(s, c)
      BY <3>2, <3>3, OutstandingAppend
    <3>6. Same(j + 1)
      BY <3>2, <3>4, <3>5 DEF s
    <3> HIDE DEF Same
    <3>7. QED BY <3>6
  <2>2. CASE ~ (n + (j + 1) <= m)
    BY <2>2
  <2>3. QED BY <2>1, <2>2
<1>4. m - n \in S
  <2> HIDE DEF S
  <2>1. S \subseteq Nat
    BY DEF S
  <2>2. Nat \subseteq S
    BY <1>2, <1>3, <2>1, SetInduction
  <2>3. QED BY <1>1, <2>2
<1>5. n + (m - n) = m
  BY <1>1
<1>6. QED BY <1>1, <1>4, <1>5

-----------------------------------------------------------------------------
(* What positions add up to.                                               *)

\* A register that holds together: positions are not negative, and those of a
\* class add up to its shares outstanding.
Sound(rows) ==
  /\ rows \in Seq(Row)
  /\ \A c \in ShareClass : HeldTotal(rows, c) = shares_outstanding(rows, c)
  /\ \A c \in ShareClass, h \in Shareholder : holding(rows, c, h) >= 0

\* The holders with a position are those with shares, and what they hold, at
\* some factor, adds up to the shares outstanding at that factor.
LEMMA PositionsAddUp ==
  ASSUME NEW rows, Sound(rows), NEW c \in ShareClass, NEW n \in Int, NEW T,
         T = {h \in Shareholder : holding(rows, c, h) # 0}
  PROVE  /\ T = {h \in Shareholder : holding(rows, c, h) > 0}
         /\ IsFiniteSet(T)
         /\ SetSum([h \in T |-> n * holding(rows, c, h)], T)
              = n * shares_outstanding(rows, c)
<1> DEFINE f == [h \in Shareholder |-> holding(rows, c, h)]
           g == [h \in T |-> n * holding(rows, c, h)]
<1>1. \A h \in Shareholder : holding(rows, c, h) \in Int /\ holding(rows, c, h) >= 0
  BY HoldingType DEF Sound
<1>2. T = {h \in Shareholder : holding(rows, c, h) > 0} /\ T \subseteq Shareholder
  BY <1>1
<1>3. /\ \A h \in Shareholder : f[h] \in Int
      /\ \A h \in Shareholder \ T : f[h] = 0
      /\ \A h \in T : g[h] = n * f[h]
  BY <1>1, <1>2
<1>4. SetSum(f, Shareholder) = shares_outstanding(rows, c)
  BY DEF Sound, HeldTotal
<1> HIDE DEF f, g
<1>5. IsFiniteSet(T) /\ SetSum(f, T) = SetSum(f, Shareholder)
  BY <1>2, <1>3, IdsAssumption, SetSumSupport
<1>6. SetSum(g, T) = n * SetSum(f, T)
  BY <1>2, <1>3, <1>5, SetSumScale
<1>7. QED BY <1>2, <1>4, <1>5, <1>6 DEF g

\* A holder with a position has no more than is outstanding.
LEMMA PositionIsOutstanding ==
  ASSUME NEW rows, Sound(rows), NEW c \in ShareClass, NEW h \in Shareholder
  PROVE  /\ holding(rows, c, h) \in Int /\ shares_outstanding(rows, c) \in Int
         /\ holding(rows, c, h) <= shares_outstanding(rows, c)
<1> DEFINE f == [g \in Shareholder |-> holding(rows, c, g)]
<1>1. \A g \in Shareholder : f[g] \in Int /\ f[g] >= 0
  BY HoldingType DEF Sound
<1>2. SetSum(f, Shareholder) = shares_outstanding(rows, c) /\ f[h] = holding(rows, c, h)
  BY DEF Sound, HeldTotal
<1> HIDE DEF f
<1>3. SetSum(f, {h}) <= SetSum(f, Shareholder)
  BY <1>1, IdsAssumption, SetSumSubset
<1>4. IsFiniteSet({}) /\ {} \cup {h} = {h} /\ h \notin {} /\ \A x \in {} : f[x] \in Int
  BY FS_EmptySet
<1>5. SetSum(f, {} \cup {h}) = SetSum(f, {}) + f[h] /\ SetSum(f, {}) = 0
  BY <1>1, <1>4, SetSumAdd, SetSumEmpty
<1>6. SetSum(f, {h}) = f[h]
  <2>1. SetSum(f, {h}) = SetSum(f, {} \cup {h})
    BY <1>4, Zenon
  <2>2. QED BY <1>1, <1>5, <2>1
<1>7. shares_outstanding(rows, c) \in Int
  BY TotalsType DEF Sound
<1>8. QED BY <1>1, <1>2, <1>3, <1>6, <1>7

-----------------------------------------------------------------------------
(* The sums the properties speak of, as sums of functions.                 *)

\* The amounts of allocations.
LEMMA AmountsAreSetSum ==
  ASSUME NEW S, IsFiniteSet(S), \A a \in S : a.amount \in Int
  PROVE  MapThenSumSet(LAMBDA a : a.amount, S) = SetSum([a \in S |-> a.amount], S)
<1> DEFINE f == [a \in S |-> a.amount]
           Sums(r) == r = [T \in SUBSET S |->
                             IF T = {} THEN 0
                             ELSE (CHOOSE x \in T : TRUE).amount
                                    + r[T \ {CHOOSE x \in T : TRUE}]]
<1>1. \A a \in S : f[a] \in Int
  OBVIOUS
<1>2. \A r : Sums(r) <=> IsSetSum(r, f, S)
  <2>1. \A T \in SUBSET S : T # {} =>
          f[CHOOSE x \in T : TRUE] = (CHOOSE x \in T : TRUE).amount
    OBVIOUS
  <2> HIDE DEF f
  <2>2. QED BY <2>1 DEF IsSetSum, Pick
<1>3. PICK r : IsSetSum(r, f, S)
  <2> HIDE DEF f
  <2>1. QED BY <1>1, SetSumExists
<1> DEFINE q == CHOOSE s : Sums(s)
<1>4. Sums(q)
  <2>1. Sums(r)
    BY <1>2, <1>3
  <2> HIDE DEF Sums
  <2>2. QED BY <2>1
<1>5. q[S] = SetSum(f, S)
  <2>1. IsSetSum(q, f, S)
    BY <1>2, <1>4
  <2> HIDE DEF q, f
  <2>2. QED BY <2>1, SetSumIs
<1>6. MapThenSumSet(LAMBDA a : a.amount, S) = q[S]
  BY DEF MapThenSumSet, MapThenFoldSet
<1>7. QED BY <1>5, <1>6

\* Ownership percentages.
LEMMA PercentagesAreSetSum ==
  ASSUME NEW S, IsFiniteSet(S), \A g \in S : g.ownership_pct \in Int
  PROVE  MapThenSumSet(LAMBDA g : g.ownership_pct, S)
           = SetSum([g \in S |-> g.ownership_pct], S)
<1> DEFINE f == [g \in S |-> g.ownership_pct]
           Sums(r) == r = [T \in SUBSET S |->
                             IF T = {} THEN 0
                             ELSE (CHOOSE x \in T : TRUE).ownership_pct
                                    + r[T \ {CHOOSE x \in T : TRUE}]]
<1>1. \A g \in S : f[g] \in Int
  OBVIOUS
<1>2. \A r : Sums(r) <=> IsSetSum(r, f, S)
  <2>1. \A T \in SUBSET S : T # {} =>
          f[CHOOSE x \in T : TRUE] = (CHOOSE x \in T : TRUE).ownership_pct
    OBVIOUS
  <2> HIDE DEF f
  <2>2. QED BY <2>1 DEF IsSetSum, Pick
<1>3. PICK r : IsSetSum(r, f, S)
  <2> HIDE DEF f
  <2>1. QED BY <1>1, SetSumExists
<1> DEFINE q == CHOOSE s : Sums(s)
<1>4. Sums(q)
  <2>1. Sums(r)
    BY <1>2, <1>3
  <2> HIDE DEF Sums
  <2>2. QED BY <2>1
<1>5. q[S] = SetSum(f, S)
  <2>1. IsSetSum(q, f, S)
    BY <1>2, <1>4
  <2> HIDE DEF q, f
  <2>2. QED BY <2>1, SetSumIs
<1>6. MapThenSumSet(LAMBDA g : g.ownership_pct, S) = q[S]
  BY DEF MapThenSumSet, MapThenFoldSet
<1>7. QED BY <1>5, <1>6

\* What the allocations of a sound register add up to.
LEMMA AllocationsSum ==
  ASSUME NEW rows, Sound(rows), NEW c \in ShareClass, NEW per_share \in Int
  PROVE  MapThenSumSet(LAMBDA a : a.amount,
                       AllocationsAnswer(holdings(rows, c), per_share))
           = per_share * shares_outstanding(rows, c)
<1> DEFINE held == holdings(rows, c)
           T == {h \in Shareholder : holding(rows, c, h) # 0}
           f == [h \in T |-> per_share * holding(rows, c, h)]
           rec == [h \in T |-> [shareholder |-> h, quantity |-> held[h],
                                amount |-> per_share * held[h]]]
           S == {rec[h] : h \in T}
           g == [a \in S |-> a.amount]
<1>1. /\ T = {h \in Shareholder : holding(rows, c, h) > 0} /\ IsFiniteSet(T)
      /\ SetSum(f, T) = per_share * shares_outstanding(rows, c)
  BY PositionsAddUp
<1>2. DOMAIN held = T /\ \A h \in T : held[h] = holding(rows, c, h)
  BY DEF holdings
<1>3. {h \in DOMAIN held : held[h] > 0} = T
  BY <1>1, <1>2
<1>4. AllocationsAnswer(held, per_share) = S
  BY <1>3 DEF AllocationsAnswer
<1>5. \A h \in T : /\ holding(rows, c, h) \in Int
                   /\ f[h] = per_share * holding(rows, c, h)
                   /\ rec[h].shareholder = h /\ rec[h].amount = f[h] /\ rec[h] \in S
  BY <1>2, HoldingType DEF Sound
<1>6. \A h \in T : f[h] \in Int /\ g[rec[h]] = f[h]
  BY <1>5
<1>7. \A h, i \in T : rec[h] = rec[i] => h = i
  BY <1>5
<1>8. \A a \in S : a.amount \in Int
  BY <1>5, <1>6
<1> HIDE DEF f, g, rec, T, held
<1>9. IsFiniteSet(S) /\ SetSum(g, S) = SetSum(f, T)
  BY <1>1, <1>6, <1>7, SetSumReindex
<1> HIDE DEF S
<1>10. MapThenSumSet(LAMBDA a : a.amount, S) = SetSum(g, S)
  BY <1>8, <1>9, AmountsAreSetSum DEF g
<1>11. QED BY <1>1, <1>4, <1>9, <1>10, Zenon DEF held

\* A rounded quotient is within half a last digit of the exact one.
LEMMA PercentIsNear ==
  ASSUME NEW q \in Int, NEW n \in Nat \ {0}, NEW p,
         p = (2 * q * DecimalOne + n) \div (2 * n)
  PROVE  /\ p \in Int
         /\ (2 * n) * p <= (2 * DecimalOne) * q + n
         /\ (2 * DecimalOne) * q <= (2 * n) * p + n
<1> DEFINE a == 2 * q * DecimalOne + n
           b == 2 * n
<1>1. a \in Int /\ b \in Nat \ {0} /\ (2 * DecimalOne) * q \in Int
      /\ a = (2 * DecimalOne) * q + n
  BY DecimalAssumption
<1>2. p = a \div b
  OBVIOUS
<1> HIDE DEF a
<1>3. b = n + n
  OBVIOUS
<1> HIDE DEF b
<1>4. p \in Int /\ p * b <= a /\ a < p * b + b
  BY <1>1, <1>2, Quotient
<1>5. p * b \in Int /\ p * b = b * p
  BY <1>1, <1>4
<1>6. b * p <= (2 * DecimalOne) * q + n /\ (2 * DecimalOne) * q <= b * p + n
  BY <1>1, <1>3, <1>4, <1>5
<1>7. QED BY <1>4, <1>6 DEF b

\* Quotients of what the holders hold add up to one, but for half a last digit a
\* holder.
LEMMA QuotientsAddUp ==
  ASSUME NEW T, IsFiniteSet(T), NEW n \in Nat \ {0}, NEW held, NEW p,
         \A h \in T : /\ held[h] \in Int
                      /\ p[h] = (2 * held[h] * DecimalOne + n) \div (2 * n),
         SetSum(held, T) = n
  PROVE  /\ \A h \in T : p[h] \in Int
         /\ SetSum(p, T) \in Int
         /\ 2 * SetSum(p, T) <= 2 * DecimalOne + Cardinality(T)
         /\ 2 * DecimalOne <= 2 * SetSum(p, T) + Cardinality(T)
<1> DEFINE u  == 2 * DecimalOne
           b  == 2 * n
           f  == [h \in T |-> u * held[h]]
           g  == [h \in T |-> b * p[h]]
           f1 == [h \in T |-> f[h] + n]
           g1 == [h \in T |-> g[h] + n]
           N  == Cardinality(T)
           P  == SetSum(p, T)
<1>1. u \in Int /\ b \in Int /\ n \in Int /\ N \in Nat
  BY DecimalAssumption, FS_CardinalityType
<1>2. \A h \in T : /\ p[h] \in Int
                   /\ b * p[h] <= u * held[h] + n
                   /\ u * held[h] <= b * p[h] + n
  BY PercentIsNear
<1>3. \A h \in T : /\ f[h] = u * held[h] /\ g[h] = b * p[h]
                   /\ f1[h] = f[h] + n /\ g1[h] = g[h] + n
  OBVIOUS
<1> HIDE DEF u, b, f, g, f1, g1, N
<1>4. \A h \in T : f[h] \in Int /\ g[h] \in Int /\ held[h] \in Int
  BY <1>1, <1>2, <1>3
<1>5. \A h \in T : /\ f1[h] \in Int /\ g1[h] \in Int
                   /\ g[h] <= f1[h] /\ f[h] <= g1[h]
  BY <1>1, <1>2, <1>3, <1>4
<1>6. SetSum(f, T) = u * n
  BY <1>1, <1>3, <1>4, SetSumScale
<1>7. P \in Int /\ SetSum(g, T) = b * P
  BY <1>1, <1>2, <1>3, SetSumScale, SetSumType
<1>8. SetSum(f1, T) = u * n + n * N
  <2>1. SetSum(f1, T) = SetSum(f, T) + n * Cardinality(T)
    BY <1>1, <1>3, <1>4, SetSumShift
  <2>2. QED BY <1>6, <2>1 DEF N
<1>9. SetSum(g1, T) = b * P + n * N
  <2>1. SetSum(g1, T) = SetSum(g, T) + n * Cardinality(T)
    BY <1>1, <1>3, <1>4, SetSumShift
  <2>2. QED BY <1>7, <2>1 DEF N
<1>10. SetSum(g, T) <= SetSum(f1, T)
  BY <1>4, <1>5, SetSumMonotone
<1>11. SetSum(f, T) <= SetSum(g1, T)
  BY <1>4, <1>5, SetSumMonotone
<1> HIDE DEF P
<1>12. n * (2 * P) <= n * (u + N) /\ n * u <= n * (2 * P + N)
  <2>1. b * P <= u * n + n * N /\ u * n <= b * P + n * N
    BY <1>6, <1>7, <1>8, <1>9, <1>10, <1>11
  <2>2. b * P = n * (2 * P) /\ u * n = n * u
    BY <1>1, <1>7 DEF b
  <2>3. n * u + n * N = n * (u + N) /\ n * (2 * P) + n * N = n * (2 * P + N)
    <3>1. \A x, y, z \in Int : x * y + x * z = x * (y + z)
      OBVIOUS
    <3>2. 2 * P \in Int
      BY <1>7
    <3>3. QED BY <1>1, <3>1, <3>2
  <2>4. QED BY <2>1, <2>2, <2>3
<1>13. \A x, y \in Int : n * x <= n * y => x <= y
  OBVIOUS
<1>14. 2 * P <= u + N /\ u <= 2 * P + N
  <2>1. 2 * P \in Int /\ u + N \in Int /\ 2 * P + N \in Int
    BY <1>1, <1>7
  <2>2. QED BY <1>1, <1>12, <1>13, <2>1
<1>15. QED BY <1>2, <1>7, <1>14 DEF P, u, N

\* What the percentages of a sound register add up to.
LEMMA PercentagesSum ==
  ASSUME NEW rows, Sound(rows), NEW c \in ShareClass, NEW a,
         a = HoldingsAnswer(holdings(rows, c), shares_outstanding(rows, c)), a # {}
  PROVE  LET s == MapThenSumSet(LAMBDA g : g.ownership_pct, a) IN
         /\ s \in Int /\ Cardinality(a) \in Nat
         /\ 2 * s <= 200 * DecimalOne + 100 * Cardinality(a)
         /\ 200 * DecimalOne <= 2 * s + 100 * Cardinality(a)
<1> DEFINE held == holdings(rows, c)
           n == shares_outstanding(rows, c)
           T == {h \in Shareholder : holding(rows, c, h) # 0}
           q == [h \in T |-> 1 * holding(rows, c, h)]
           p == [h \in T |-> (2 * q[h] * DecimalOne + n) \div (2 * n)]
           f == [h \in T |-> 100 * p[h]]
           rec == [h \in T |-> [shareholder |-> h, quantity |-> held[h],
                                ownership_pct |-> ownership_pct(held[h], n)]]
           S == {rec[h] : h \in T}
           g == [x \in S |-> x.ownership_pct]
<1>1. /\ T = {h \in Shareholder : holding(rows, c, h) > 0} /\ IsFiniteSet(T)
      /\ SetSum(q, T) = 1 * n
  BY PositionsAddUp
<1>2. DOMAIN held = T /\ \A h \in T : held[h] = holding(rows, c, h)
  BY DEF holdings
<1>3. a = S
  BY <1>2 DEF HoldingsAnswer
<1>4. n \in Nat \ {0}
  <2>1. PICK h \in T : TRUE
    BY <1>3
  <2>2. holding(rows, c, h) > 0
    BY <1>1, <2>1
  <2> HIDE DEF T
  <2>3. h \in Shareholder
    BY <2>1 DEF T
  <2>4. n > 0
    BY <2>2, <2>3, PositionIsOutstanding
  <2>5. n \in Int
    BY TotalsType DEF Sound
  <2> HIDE DEF n
  <2>6. QED BY <2>4, <2>5
<1>5. \A h \in T : q[h] \in Int /\ q[h] = held[h]
  <2>1. \A h \in T : holding(rows, c, h) \in Int
    BY HoldingType DEF Sound
  <2>2. QED BY <1>2, <2>1
<1>6. \A h \in T : ownership_pct(held[h], n) = 100 * p[h]
  <2> HIDE DEF n, held, q, T
  <2>1. n > 0
    BY <1>4
  <2>2. QED BY <1>5, <2>1 DEF ownership_pct
<1>7. \A h \in T : /\ f[h] = 100 * p[h] /\ rec[h] \in S /\ rec[h].shareholder = h
                   /\ rec[h].ownership_pct = f[h]
  BY <1>6
<1>8. SetSum(q, T) = n
  BY <1>1, <1>4
<1>9. \A h \in T : p[h] = (2 * q[h] * DecimalOne + n) \div (2 * n)
  OBVIOUS
<1>10. \A x \in S : \E h \in T : x = rec[h]
  OBVIOUS
<1>11. \A x \in S : g[x] = x.ownership_pct
  OBVIOUS
<1>12. S = {rec[h] : h \in T} /\ g = [x \in S |-> x.ownership_pct]
  OBVIOUS
<1>13. a = HoldingsAnswer(held, n)
  OBVIOUS
<1> HIDE DEF q, p, f, rec, g, T, held, n
<1>14. /\ \A h \in T : p[h] \in Int
       /\ SetSum(p, T) \in Int
       /\ 2 * SetSum(p, T) <= 2 * DecimalOne + Cardinality(T)
       /\ 2 * DecimalOne <= 2 * SetSum(p, T) + Cardinality(T)
  BY <1>1, <1>4, <1>5, <1>8, <1>9, QuotientsAddUp
<1>15. \A h \in T : f[h] \in Int /\ g[rec[h]] = f[h]
  BY <1>7, <1>11, <1>14
<1>16. \A h, i \in T : rec[h] = rec[i] => h = i
  BY <1>7
<1>17. \A x \in S : x.ownership_pct \in Int
  BY <1>7, <1>10, <1>15
<1>18. SetSum(f, T) = 100 * SetSum(p, T)
  BY <1>1, <1>7, <1>14, SetSumScale
<1>19. IsFiniteSet(S) /\ SetSum(g, S) = SetSum(f, T)
  BY <1>1, <1>15, <1>16, SetSumReindex
<1>20. Cardinality(S) = Cardinality(T) /\ Cardinality(T) \in Nat
  <2>1. rec \in Bijection(T, S)
    BY <1>10, <1>16 DEF rec, Bijection, Injection, Surjection, IsInjective
  <2>2. ExistsBijection(T, S)
    BY <2>1 DEF ExistsBijection
  <2>3. QED BY <1>1, <2>2, FS_Bijection, FS_CardinalityType
<1> HIDE DEF S
<1>21. MapThenSumSet(LAMBDA x : x.ownership_pct, S) = SetSum(g, S)
  BY <1>12, <1>17, <1>19, PercentagesAreSetSum
<1>22. MapThenSumSet(LAMBDA x : x.ownership_pct, S) = 100 * SetSum(p, T)
  BY <1>18, <1>19, <1>21
<1>23. DecimalOne \in Nat
  BY DecimalAssumption
<1> DEFINE s == MapThenSumSet(LAMBDA x : x.ownership_pct, S)
<1>24. /\ s \in Int /\ Cardinality(S) \in Nat
       /\ 2 * s <= 200 * DecimalOne + 100 * Cardinality(S)
       /\ 200 * DecimalOne <= 2 * s + 100 * Cardinality(S)
  <2>1. s = 100 * SetSum(p, T)
    BY <1>22
  <2> HIDE DEF s
  <2>2. QED BY <1>14, <1>20, <1>23, <2>1
<1>25. QED BY <1>3, <1>24, Zenon

-----------------------------------------------------------------------------
(* The reads beside the service.                                           *)

ReadStatement == {"idle", "basis", "positions", "outstanding", "done", "not_found"}
AnyRead       == HoldingsRead \cup AllocationsRead
Basis         == [class: ShareClass \cup {"none"}, per_share: Int]

\* What a read bases its answer on: the class asked for, or the class and rate
\* of the dividend asked for.
BasisSays(q, b) ==
  IF q.read = "holdings"
    THEN q \in HoldingsRead /\ b.class = q.class
    ELSE /\ q \in AllocationsRead
         /\ Exists(q.dividend)
         /\ b.class = dividends[q.dividend].class
         /\ b.per_share = dividends[q.dividend].per_share

\* The positions a read holds are those of the first n rows.
PositionsSay(b, held, n) ==
  /\ n \in 0 .. Len(register)
  /\ Sound(At(n))
  /\ held = holdings(At(n), b.class)

\* What a read has returned, of the rows committed at its two statements.
AnswerSays(q, b, held, n, m, result) ==
  /\ m \in n .. Len(register)
  /\ result = IF q.read = "holdings"
                THEN HoldingsAnswer(held, shares_outstanding(At(m), b.class))
                ELSE AllocationsAnswer(held, b.per_share)

\* The inductive invariant.
ReadersType ==
  /\ rpc \in [Reader -> ReadStatement]
  /\ read \in [Reader -> AnyRead \cup {[read |-> "none"]}]
  /\ basis \in [Reader -> Basis]
  /\ positions = [r \in Reader |-> positions[r]]
  /\ answer = [r \in Reader |-> answer[r]]
  /\ cut \in [Reader -> [positions: Nat, outstanding: Nat]]

ReaderOK(r) ==
  /\ rpc[r] = "basis" => read[r] \in AllocationsRead
  /\ rpc[r] \in {"positions", "outstanding", "done"} => BasisSays(read[r], basis[r])
  /\ rpc[r] \in {"outstanding", "done"} =>
       PositionsSay(basis[r], positions[r], cut[r].positions)
  /\ rpc[r] = "done" =>
       AnswerSays(read[r], basis[r], positions[r], cut[r].positions, cut[r].outstanding,
                  answer[r])

ReadsInv == ServiceInv /\ ReadersType /\ \A r \in Reader : ReaderOK(r)

\* The register is sound in every state of the service.
LEMMA RegisterIsSound ==
  ASSUME ServiceInv
  PROVE  Sound(register) /\ At(Len(register)) = register /\ Len(register) \in Nat
<1>1. register \in Seq(Row)
  BY DEF ServiceInv, ServiceTypeOK, TypeOK
<1>2. Sound(register)
  BY <1>1 DEF ServiceInv, TotalsAgree, RegisterInv, NonNegative, Sound
<1>3. QED BY <1>1, <1>2 DEF At

\* What a read knows stays true while the service moves on.
LEMMA ServiceKeepsReads ==
  ASSUME ReadsInv, [ServiceNext]_serviceVars, UNCHANGED readVars
  PROVE  ReadsInv'
<1>1. ServiceInv'
  BY ServiceInvStep DEF ReadsInv
<1>2. /\ rpc' = rpc /\ read' = read /\ basis' = basis /\ positions' = positions
      /\ answer' = answer /\ cut' = cut
  BY DEF readVars
<1>3. ReadersType'
  BY <1>2 DEF ReadsInv, ReadersType
<1>4. PICK rows \in Seq(Row) : register' = register \o rows
  BY ServiceGrows DEF ReadsInv
<1>5. register \in Seq(Row) /\ Len(register') >= Len(register)
      /\ Len(register) \in Nat /\ Len(register') \in Nat
  BY <1>4 DEF ReadsInv, ServiceInv, ServiceTypeOK, TypeOK
<1>6. \A n \in 0 .. Len(register) : /\ n \in 0 .. Len(register')
                                    /\ SubSeq(register', 1, n) = SubSeq(register, 1, n)
  BY <1>4, <1>5, PrefixStays
<1>7. ASSUME NEW r \in Reader PROVE ReaderOK(r)'
  <2>1. ReaderOK(r)
    BY DEF ReadsInv
  <2>2. ASSUME rpc[r] \in {"positions", "outstanding", "done"}
        PROVE  BasisSays(read[r], basis[r])'
    <3>1. BasisSays(read[r], basis[r])
      BY <2>1, <2>2 DEF ReaderOK
    <3>2. CASE read[r].read = "holdings"
      BY <1>2, <3>1, <3>2 DEF BasisSays
    <3>3. CASE read[r].read # "holdings"
      <4>1. read[r].dividend \in Call /\ Exists(read[r].dividend)
        BY <3>1, <3>3 DEF BasisSays, AllocationsRead
      <4>2. /\ Exists(read[r].dividend)'
            /\ dividends'[read[r].dividend].class = dividends[read[r].dividend].class
            /\ dividends'[read[r].dividend].per_share = dividends[read[r].dividend].per_share
        BY <1>2, <4>1, ServiceGrows DEF ReadsInv, Exists
      <4>3. QED BY <1>2, <3>1, <3>3, <4>2 DEF BasisSays
    <3>4. QED BY <3>2, <3>3
  <2>3. ASSUME rpc[r] \in {"outstanding", "done"}
        PROVE  PositionsSay(basis[r], positions[r], cut[r].positions)'
    <3>1. PositionsSay(basis[r], positions[r], cut[r].positions)
      BY <2>1, <2>3 DEF ReaderOK
    <3>2. QED BY <1>2, <1>6, <3>1 DEF PositionsSay, At
  <2>4. ASSUME rpc[r] = "done"
        PROVE  AnswerSays(read[r], basis[r], positions[r], cut[r].positions,
                          cut[r].outstanding, answer[r])'
    <3> DEFINE n == cut[r].positions
               m == cut[r].outstanding
    <3>1. AnswerSays(read[r], basis[r], positions[r], n, m, answer[r])
      BY <2>1, <2>4 DEF ReaderOK
    <3>2. n \in Nat
      BY DEF ReadsInv, ReadersType
    <3>3. m \in 0 .. Len(register) /\ m \in n .. Len(register')
      BY <1>5, <3>1, <3>2 DEF AnswerSays
    <3>4. SubSeq(register', 1, m) = SubSeq(register, 1, m)
      BY <1>6, <3>3
    <3>5. QED BY <1>2, <3>1, <3>3, <3>4 DEF AnswerSays, At
  <2>5. QED BY <1>2, <2>1, <2>2, <2>3, <2>4 DEF ReaderOK
<1>8. QED BY <1>1, <1>3, <1>7 DEF ReadsInv

\* A statement of a read leaves it, and the other reads, with answers to what
\* was asked.
LEMMA ReadKeepsReads ==
  ASSUME ReadsInv, NEW r \in Reader, ReadStep(r), UNCHANGED serviceVars
  PROVE  ReadsInv'
<1> USE DEF ReadStatement
<1>1. /\ register' = register /\ dividends' = dividends
      /\ [ServiceNext]_serviceVars
  BY DEF serviceVars, registerVars, dividendVars
<1>2. ServiceInv'
  BY <1>1, ServiceInvStep DEF ReadsInv
<1>3. ReadersType
  BY DEF ReadsInv
<1>4. Sound(register) /\ At(Len(register)) = register /\ Len(register) \in Nat
  BY RegisterIsSound DEF ReadsInv
<1>5. /\ ReadersType'
      /\ \A i \in Reader \ {r} :
           /\ rpc'[i] = rpc[i] /\ read'[i] = read[i] /\ basis'[i] = basis[i]
           /\ positions'[i] = positions[i] /\ answer'[i] = answer[i] /\ cut'[i] = cut[i]
      /\ ReaderOK(r)'
  <2>1. CASE begin_read(r)
    <3>1. PICK q \in Reads[r] :
            /\ read' = [read EXCEPT ![r] = q]
            /\ IF q.read = "holdings"
                 THEN /\ rpc' = [rpc EXCEPT ![r] = "positions"]
                      /\ basis' = [basis EXCEPT ![r] = [class |-> q.class, per_share |-> 0]]
                 ELSE rpc' = [rpc EXCEPT ![r] = "basis"] /\ UNCHANGED basis
      BY <2>1 DEF begin_read
    <3>2. q \in AnyRead /\ (q.read = "holdings" <=> q \in HoldingsRead)
          /\ (q.read # "holdings" <=> q \in AllocationsRead)
      BY <3>1, ReadsAssumption DEF AnyRead, HoldingsRead, AllocationsRead
    <3>3. q \in HoldingsRead => [class |-> q.class, per_share |-> 0] \in Basis
      BY DEF HoldingsRead, Basis
    <3>4. ReadersType' /\ read'[r] = q
      <4>1. /\ read' \in [Reader -> AnyRead \cup {[read |-> "none"]}] /\ read'[r] = q
            /\ positions' = positions /\ answer' = answer /\ cut' = cut
        BY <1>3, <2>1, <3>1, <3>2 DEF ReadersType, begin_read
      <4>2. rpc' \in [Reader -> ReadStatement]
        BY <1>3, <3>1 DEF ReadersType, ReadStatement
      <4>3. basis' \in [Reader -> Basis]
        BY <1>3, <3>1, <3>2, <3>3 DEF ReadersType
      <4>4. QED BY <1>3, <4>1, <4>2, <4>3 DEF ReadersType
    <3>5. ReaderOK(r)'
      BY <1>3, <3>1, <3>2, <3>4 DEF ReadersType, ReaderOK, BasisSays
    <3>6. QED BY <1>3, <2>1, <3>1, <3>4, <3>5 DEF ReadersType, begin_read
  <2>2. CASE fetch_allocation_basis(r)
    <3> DEFINE row == dividends[read[r].dividend]
    <3>1. read[r] \in AllocationsRead
      BY <2>2 DEF ReadsInv, ReaderOK, fetch_allocation_basis
    <3>2. read[r].dividend \in Call /\ read[r].read # "holdings"
      BY <3>1 DEF AllocationsRead
    <3>3. CASE row.status # "absent"
      <4>1. row \in DividendRow
        BY <3>2, <3>3 DEF ReadsInv, ServiceInv, ServiceTypeOK, NoDividend
      <4>2. [class |-> row.class, per_share |-> row.per_share] \in Basis
        BY <4>1 DEF DividendRow, Basis
      <4>3. /\ basis' = [basis EXCEPT ![r] = [class |-> row.class,
                                              per_share |-> row.per_share]]
            /\ rpc' = [rpc EXCEPT ![r] = "positions"]
            /\ UNCHANGED << read, positions, answer, cut >>
        BY <2>2, <3>3 DEF fetch_allocation_basis
      <4>4. ReadersType' /\ basis'[r] = [class |-> row.class, per_share |-> row.per_share]
        BY <1>3, <4>2, <4>3 DEF ReadersType
      <4>5. BasisSays(read[r], basis[r])'
        BY <1>1, <3>1, <3>2, <3>3, <4>3, <4>4 DEF BasisSays, Exists
      <4>6. rpc'[r] = "positions"
        BY <1>3, <4>3 DEF ReadersType
      <4>7. ReaderOK(r)'
        BY <4>5, <4>6 DEF ReaderOK
      <4>8. QED BY <1>3, <4>3, <4>4, <4>7 DEF ReadersType
    <3>4. CASE row.status = "absent"
      <4>1. rpc' = [rpc EXCEPT ![r] = "not_found"]
            /\ UNCHANGED << basis, read, positions, answer, cut >>
        BY <2>2, <3>4 DEF fetch_allocation_basis
      <4>2. QED BY <1>3, <4>1 DEF ReadersType, ReaderOK
    <3>5. QED BY <3>3, <3>4
  <2>3. CASE read_positions(r)
    <3>1. /\ positions' = [positions EXCEPT ![r] = holdings(register, basis[r].class)]
          /\ cut' = [cut EXCEPT ![r].positions = Len(register)]
          /\ rpc' = [rpc EXCEPT ![r] = "outstanding"]
          /\ UNCHANGED << read, basis, answer >>
      BY <2>3 DEF read_positions
    <3>2. /\ rpc'[r] = "outstanding" /\ cut'[r].positions = Len(register)
          /\ positions'[r] = holdings(register, basis[r].class)
          /\ cut' \in [Reader -> [positions: Nat, outstanding: Nat]]
          /\ positions' = [i \in Reader |-> positions'[i]]
      BY <1>3, <1>4, <3>1 DEF ReadersType
    <3>3. ReadersType'
      BY <1>3, <3>1, <3>2 DEF ReadersType
    <3>4. BasisSays(read[r], basis[r])'
      BY <1>1, <2>3, <3>1 DEF read_positions, ReadsInv, ReaderOK, BasisSays, Exists
    <3>5. PositionsSay(basis[r], positions[r], cut[r].positions)'
      <4>1. basis'[r] = basis[r]
        BY <3>1
      <4>2. Len(register) \in 0 .. Len(register) /\ SubSeq(register, 1, Len(register)) = register
        BY <1>4 DEF At
      <4>3. /\ cut'[r].positions \in 0 .. Len(register')
            /\ Sound(SubSeq(register', 1, cut'[r].positions))
            /\ positions'[r] = holdings(SubSeq(register', 1, cut'[r].positions),
                                               basis'[r].class)
        BY <1>1, <1>4, <3>2, <4>1, <4>2, Zenon
      <4>4. QED BY <4>3, Zenon DEF PositionsSay, At
    <3>6. ReaderOK(r)'
      BY <3>2, <3>4, <3>5 DEF ReaderOK
    <3>7. QED BY <1>3, <3>1, <3>3, <3>6 DEF ReadersType
  <2>4. CASE read_class_outstanding(r)
    <3> DEFINE result == IF read[r].read = "holdings"
                           THEN HoldingsAnswer(positions[r],
                                         shares_outstanding(register, basis[r].class))
                           ELSE AllocationsAnswer(positions[r], basis[r].per_share)
    <3>1. /\ rpc[r] = "outstanding"
          /\ answer' = [answer EXCEPT ![r] = result]
          /\ cut' = [cut EXCEPT ![r].outstanding = Len(register)]
          /\ rpc' = [rpc EXCEPT ![r] = "done"]
          /\ UNCHANGED << read, basis, positions >>
      BY <2>4 DEF read_class_outstanding
    <3> HIDE DEF result
    <3>2. /\ rpc'[r] = "done" /\ answer'[r] = result
          /\ cut'[r].outstanding = Len(register)
          /\ cut'[r].positions = cut[r].positions
          /\ cut' \in [Reader -> [positions: Nat, outstanding: Nat]]
          /\ answer' = [i \in Reader |-> answer'[i]]
      BY <1>3, <1>4, <3>1 DEF ReadersType
    <3>3. ReadersType'
      BY <1>3, <3>1, <3>2 DEF ReadersType
    <3>4. /\ BasisSays(read[r], basis[r])
          /\ PositionsSay(basis[r], positions[r], cut[r].positions)
      BY <3>1 DEF ReadsInv, ReaderOK
    <3>5. BasisSays(read[r], basis[r])'
      BY <1>1, <3>1, <3>4 DEF BasisSays, Exists
    <3>6. PositionsSay(basis[r], positions[r], cut[r].positions)'
      <4>1. basis'[r] = basis[r] /\ positions'[r] = positions[r]
            /\ cut'[r].positions = cut[r].positions
        BY <3>1, <3>2
      <4> DEFINE n == cut[r].positions
      <4>2. /\ n \in 0 .. Len(register) /\ Sound(SubSeq(register, 1, n))
            /\ positions[r] = holdings(SubSeq(register, 1, n), basis[r].class)
        BY <3>4 DEF PositionsSay, At
      <4>3. /\ cut'[r].positions \in 0 .. Len(register')
            /\ Sound(SubSeq(register', 1, cut'[r].positions))
            /\ positions'[r] = holdings(SubSeq(register', 1, cut'[r].positions),
                                               basis'[r].class)
        BY <1>1, <4>1, <4>2, Zenon
      <4>4. QED BY <4>3, Zenon DEF PositionsSay, At
    <3>7. Len(register) \in cut[r].positions .. Len(register)
      BY <1>4, <3>4 DEF PositionsSay
    <3>8. AnswerSays(read[r], basis[r], positions[r], cut[r].positions,
                     cut[r].outstanding, answer[r])'
      BY <1>1, <1>4, <3>1, <3>2, <3>7 DEF AnswerSays, At, result
    <3>9. ReaderOK(r)'
      BY <3>2, <3>5, <3>6, <3>8 DEF ReaderOK
    <3>10. QED BY <1>3, <3>1, <3>3, <3>9 DEF ReadersType
  <2>5. QED BY <2>1, <2>2, <2>3, <2>4 DEF ReadStep
<1>6. ASSUME NEW i \in Reader \ {r} PROVE ReaderOK(i)'
  <2>1. ReaderOK(i)
    BY DEF ReadsInv
  <2>2. QED BY <1>1, <1>5, <2>1 DEF ReaderOK, BasisSays, Exists, PositionsSay, AnswerSays, At
<1>7. QED BY <1>2, <1>5, <1>6 DEF ReadsInv

\* Every step keeps the invariant, which holds before any read.
LEMMA ReadsInvStep ==
  ASSUME ReadsInv, [ReadsNext]_<< serviceVars, readVars >>
  PROVE  ReadsInv'
BY ServiceKeepsReads, ReadKeepsReads DEF ReadsNext

LEMMA ReadsInvInit ==
  ASSUME ReadsInit
  PROVE  ReadsInv
<1>1. ServiceInv
  BY ServiceInvInit DEF ReadsInit
<1>2. ReadersType
  BY DEF ReadsInit, ReadersType, ReadStatement, Basis
<1>3. \A r \in Reader : ReaderOK(r)
  BY DEF ReadsInit, ReaderOK
<1>4. QED BY <1>1, <1>2, <1>3 DEF ReadsInv

\* The invariant holds in every state.
LEMMA ReadsInvariant == ReadsSpec => []ReadsInv
BY ReadsInvInit, ReadsInvStep, PTL DEF ReadsSpec

-----------------------------------------------------------------------------
\* The split of a dividend adds up to its total whenever the positions were read
\* off a register with the declared number of shares outstanding, whatever moved
\* between holders since, and whatever commits between the statements.
THEOREM SplitIsTheTotal == ReadsSpec => []AllocationsAddUp
<1>1. ASSUME ReadsInv, NEW r \in Reader, Done(r, "allocations"),
             shares_outstanding(At(cut[r].positions), dividends[read[r].dividend].class)
               = dividends[read[r].dividend].shares_outstanding
      PROVE  MapThenSumSet(LAMBDA a : a.amount, answer[r])
               = dividends[read[r].dividend].total_amount
  <2> DEFINE d == read[r].dividend
             rows == At(cut[r].positions)
  <2>1. /\ BasisSays(read[r], basis[r])
        /\ PositionsSay(basis[r], positions[r], cut[r].positions)
        /\ AnswerSays(read[r], basis[r], positions[r], cut[r].positions,
                      cut[r].outstanding, answer[r])
    BY <1>1 DEF ReadsInv, ReaderOK, Done
  <2>2. /\ d \in Call /\ Exists(d)
        /\ basis[r].class = dividends[d].class
        /\ basis[r].per_share = dividends[d].per_share
    BY <1>1, <2>1 DEF BasisSays, AllocationsRead, Done
  <2>3. dividends[d] \in DividendRow
    BY <1>1, <2>2 DEF ReadsInv, ServiceInv, ServiceTypeOK, Exists, NoDividend
  <2>4. Sound(rows) /\ positions[r] = holdings(rows, dividends[d].class)
    BY <2>1, <2>2 DEF PositionsSay
  <2>5. answer[r] = AllocationsAnswer(holdings(rows, dividends[d].class),
                                dividends[d].per_share)
    BY <1>1, <2>1, <2>2, <2>4 DEF AnswerSays, Done
  <2>6. dividends[d].class \in ShareClass /\ dividends[d].per_share \in Int
    BY <2>3 DEF DividendRow
  <2>7. dividends[d].total_amount
          = dividends[d].per_share * dividends[d].shares_outstanding
    BY <1>1, <2>2 DEF ReadsInv, ServiceInv, DividendInv, RowsAreDeclared
  <2>8. MapThenSumSet(LAMBDA a : a.amount,
                      AllocationsAnswer(holdings(rows, dividends[d].class),
                                  dividends[d].per_share))
          = dividends[d].per_share * shares_outstanding(rows, dividends[d].class)
    BY <2>4, <2>6, AllocationsSum
  <2>9. QED BY <1>1, <2>5, <2>7, <2>8, Zenon
<1>2. ReadsInv => AllocationsAddUp
  BY <1>1, Zenon DEF AllocationsAddUp
<1>3. QED BY <1>2, ReadsInvariant, PTL

\* Ownership percentages add up to one hundred, but for half a last digit of each
\* quotient, unless an issue or a buyback of the class committed between the two
\* statements of the read: the transfers that did change nothing of it.
THEOREM PercentagesComeToAHundred == ReadsSpec => []PercentagesAddUp
<1>1. ASSUME ReadsInv, NEW r \in Reader, Done(r, "holdings"),
             \A i \in cut[r].positions + 1 .. cut[r].outstanding :
               Counted(register[i], read[r].class) = 0,
             answer[r] # {}
      PROVE  LET excess == MapThenSumSet(LAMBDA h : h.ownership_pct, answer[r])
                             - 100 * DecimalOne
                 most   == 100 * Cardinality(answer[r])
             IN  2 * excess <= most /\ - 2 * excess <= most
  <2> DEFINE n == cut[r].positions
             m == cut[r].outstanding
             c == read[r].class
  <2>1. /\ BasisSays(read[r], basis[r])
        /\ PositionsSay(basis[r], positions[r], n)
        /\ AnswerSays(read[r], basis[r], positions[r], n, m, answer[r])
    BY <1>1 DEF ReadsInv, ReaderOK, Done
  <2>2. c \in ShareClass /\ basis[r].class = c
    BY <1>1, <2>1 DEF BasisSays, HoldingsRead, Done
  <2>3. /\ n \in 0 .. Len(register) /\ m \in n .. Len(register) /\ Sound(At(n))
        /\ positions[r] = holdings(At(n), c)
        /\ answer[r] = HoldingsAnswer(positions[r], shares_outstanding(At(m), c))
    BY <1>1, <2>1, <2>2 DEF PositionsSay, AnswerSays, Done
  <2>4. register \in Seq(Row)
    BY <1>1 DEF ReadsInv, ServiceInv, ServiceTypeOK, TypeOK
  <2>5. \A i \in n + 1 .. m : Counted(register[i], c) = 0
    BY <1>1
  <2> HIDE DEF n, m, c
  <2>6. shares_outstanding(At(m), c) = shares_outstanding(At(n), c)
    BY <2>2, <2>3, <2>4, <2>5, OutstandingBetween DEF At
  <2>7. answer[r] = HoldingsAnswer(holdings(At(n), c), shares_outstanding(At(n), c))
    BY <2>3, <2>6
  <2> DEFINE s == MapThenSumSet(LAMBDA h : h.ownership_pct, answer[r])
             N == Cardinality(answer[r])
  <2>8. /\ s \in Int /\ N \in Nat
        /\ 2 * s <= 200 * DecimalOne + 100 * N
        /\ 200 * DecimalOne <= 2 * s + 100 * N
    BY <1>1, <2>2, <2>3, <2>7, PercentagesSum
  <2> HIDE DEF s, N
  <2>9. 2 * (s - 100 * DecimalOne) <= 100 * N /\ - 2 * (s - 100 * DecimalOne) <= 100 * N
    BY <2>8, DecimalAssumption
  <2>10. QED BY <2>9 DEF s, N
<1>2. ReadsInv => PercentagesAddUp
  BY <1>1, Zenon DEF PercentagesAddUp
<1>3. QED BY <1>2, ReadsInvariant, PTL

-----------------------------------------------------------------------------
(* The awaits of a transaction.                                            *)

\* A transaction goes on to its commit: an await inside it is followed by another
\* that waits for no lock, or is the commit; and no read on the pool is inside.
LEMMA InsideGoesOn ==
  ASSUME NEW r \in Request, NEW a \in InTransaction[r.verb]
  PROVE  /\ a # "commit" => Awaits[r.verb][a] \in InTransaction[r.verb] \ {"lock", "claim"}
         /\ a \in Await \ PoolReads /\ a # "publish"
<1>1. r.verb \in {"issue", "transfer", "buyback", "declare", "pay"}
  BY DEF Request, Movement, IssueShares, TransferShares, BuybackShares,
         DeclareDividend, PayDividend
<1>2. CASE r.verb = "issue"
  BY <1>2 DEF InTransaction, Await, PoolReads, Awaits, IssueAwaits
<1>3. CASE r.verb = "transfer"
  BY <1>3 DEF InTransaction, Await, PoolReads, Awaits, TransferAwaits
<1>4. CASE r.verb = "buyback"
  BY <1>4 DEF InTransaction, Await, PoolReads, Awaits, BuybackAwaits
<1>5. CASE r.verb = "declare"
  BY <1>5 DEF InTransaction, Await, PoolReads, Awaits, DeclareAwaits
<1>6. CASE r.verb = "pay"
  BY <1>6 DEF InTransaction, Await, PoolReads, Awaits, PayAwaits
<1>7. QED BY <1>1, <1>2, <1>3, <1>4, <1>5, <1>6

\* A lock is waited for, and a commit made, inside the transaction.
LEMMA LocksAreInside ==
  ASSUME NEW r \in Request, NEW a \in DOMAIN Awaits[r.verb],
         a \in {"lock", "claim", "commit"}
  PROVE  /\ a \in InTransaction[r.verb]
         /\ a # "commit" => Awaits[r.verb][a] \in InTransaction[r.verb] \ {"lock", "claim"}
<1>1. r.verb \in {"issue", "transfer", "buyback", "declare", "pay"}
  BY DEF Request, Movement, IssueShares, TransferShares, BuybackShares,
         DeclareDividend, PayDividend
<1>2. CASE r.verb = "issue"
  BY <1>2 DEF InTransaction, Awaits, IssueAwaits
<1>3. CASE r.verb = "transfer"
  BY <1>3 DEF InTransaction, Awaits, TransferAwaits
<1>4. CASE r.verb = "buyback"
  BY <1>4 DEF InTransaction, Awaits, BuybackAwaits
<1>5. CASE r.verb = "declare"
  BY <1>5 DEF InTransaction, Awaits, DeclareAwaits
<1>6. CASE r.verb = "pay"
  BY <1>6 DEF InTransaction, Awaits, PayAwaits
<1>7. QED BY <1>1, <1>2, <1>3, <1>4, <1>5, <1>6

-----------------------------------------------------------------------------
(* The invariant of the pool.                                              *)

\* Who has a connection: the requests only where they are pinned, and the
\* transactions while they are open.
ConnectionsOK ==
  /\ pool \in Pools
  /\ requests \subseteq Call
  /\ ~ pool.pinned => requests = {}
  /\ transactions \subseteq Call
  /\ \A k \in transactions : Inside(k)

\* A lock belongs to an open transaction, which waits for no other.
LocksAreTransacted ==
  \A l \in locks : /\ l.owner \in transactions
                   /\ pc[l.owner] \notin {"lock", "claim"}
                   /\ l.key # << >>

\* The invariant of the pool.
PoolInv == CallsOK /\ ConnectionsOK /\ LocksAreTransacted

\* The steps of a call that has begun, by what they do to its await and the locks.
GoesAlong(k) == /\ Advance(k) /\ pc[k] \notin {"lock", "claim", "commit", "publish"}
                /\ locks' = locks
GetsLock(k)  == /\ Advance(k) /\ pc[k] \in {"lock", "claim"}
                /\ \E key : key # << >> /\ Lock(k, key)
Finishes(k)  == Advance(k) /\ pc[k] = "commit" /\ locks' = Released(k)
Returns(k)   == /\ \E e \in Ended : pc' = [pc EXCEPT ![k] = e]
                /\ locks' = Released(k) \/ (pc[k] = "publish" /\ locks' = locks)

\* Every such step is of one of these kinds.
LEMMA CallShape ==
  ASSUME CallsOK, NEW k \in Call,
         \/ ServiceStep(k)
         \/ interrupt_call(k)
         \/ UnderWay(k) /\ Refuse(k) /\ req' = req
  PROVE  /\ req' = req /\ pc[k] \in Await
         /\ GoesAlong(k) \/ GetsLock(k) \/ Finishes(k) \/ Returns(k)
<1>1. {"load", "lock", "holding", "outstanding", "fetch", "claim", "post", "insert",
       "stage", "commit", "publish"} \subseteq Await
  BY DEF Await
<1>2. Refuse(k) => Returns(k)
  BY DEF Refuse, Returns, Ended
<1>3. CASE MovementStep(k) \/ interrupt_call(k)
  <2>1. \A c, h : << c, h >> # << >>
    OBVIOUS
  <2>2. CASE load_class(k)
    BY <1>1, <1>2, <2>2 DEF load_class, GoesAlong
  <2>3. CASE lock_position(k)
    BY <1>1, <2>1, <2>3 DEF lock_position, GetsLock
  <2>4. CASE check_holding(k)
    BY <1>1, <1>2, <2>4 DEF check_holding, GoesAlong
  <2>5. CASE insert_rows(k)
    BY <1>1, <1>2, <2>5 DEF insert_rows, GoesAlong
  <2>6. CASE post_movement(k)
    BY <1>1, <1>2, <2>6 DEF post_movement, Post, GoesAlong
  <2>7. CASE stage_event(k)
    BY <1>1, <1>2, <2>7 DEF stage_event, Stage, GoesAlong
  <2>8. CASE commit_movement(k)
    BY <1>1, <2>8 DEF commit_movement, CommitOutbox, Finishes
  <2>9. CASE publish_event(k)
    BY <1>1, <2>9 DEF publish_event, Publish, Returns, Ended
  <2>10. CASE interrupt_call(k)
    BY <2>10 DEF interrupt_call, Interrupt, Returns, Ended
  <2>11. QED
    BY <1>3, <2>2, <2>3, <2>4, <2>5, <2>6, <2>7, <2>8, <2>9, <2>10 DEF MovementStep
<1>4. CASE DividendStep(k)
  <2>1. << req[k].dividend >> # << >>
    OBVIOUS
  <2>2. CASE read_outstanding(k)
    BY <1>1, <1>2, <2>2 DEF read_outstanding, GoesAlong
  <2>3. CASE fetch_for_payment(k)
    BY <1>1, <1>2, <2>3 DEF fetch_for_payment, GoesAlong
  <2>4. CASE claim_payment(k)
    BY <1>1, <1>2, <2>1, <2>4 DEF claim_payment, GetsLock
  <2>5. CASE post_dividend(k)
    BY <1>1, <1>2, <2>5 DEF post_dividend, Post, GoesAlong
  <2>6. CASE insert_dividend(k)
    BY <1>1, <2>6 DEF insert_dividend, GoesAlong
  <2>7. CASE commit_dividend(k)
    BY <1>1, <2>7 DEF commit_dividend, CommitOutbox, Finishes
  <2>8. QED BY <1>4, <2>2, <2>3, <2>4, <2>5, <2>6, <2>7 DEF DividendStep
<1>5. CASE UnderWay(k) /\ Refuse(k) /\ req' = req
  BY <1>2, <1>5 DEF UnderWay
<1>6. QED BY <1>3, <1>4, <1>5 DEF ServiceStep

\* A step of a call that had the connections it needed, or that ends there, after
\* which the connections it no longer needs go back, keeps the invariant.
LEMMA ReleaseKeepsPool ==
  ASSUME PoolInv, NEW k \in Call, Release, req' = req, pc[k] \in Await,
         \/ Connected(k) /\ (GoesAlong(k) \/ GetsLock(k) \/ Finishes(k))
         \/ Returns(k)
  PROVE  PoolInv'
<1> USE DEF PoolInv
<1>1. CallsOK'
  BY CallsStep DEF GoesAlong, GetsLock, Finishes, Returns
<1>2. req[k] \in Request /\ (pc[k] # "publish" => pc[k] \in DOMAIN Awaits[req[k].verb])
  BY CallUnderWay
<1>3. \A i \in Call \ {k} : pc'[i] = pc[i]
  BY DEF GoesAlong, GetsLock, Finishes, Returns, Advance, CallsOK
<1>4. /\ requests' = {i \in requests : pc'[i] \notin Ended}
      /\ transactions' = {i \in transactions : Inside(i)'}
      /\ pool' = pool
  BY DEF Release
<1>5. ConnectionsOK'
  <2>1. requests' \subseteq requests /\ transactions' \subseteq transactions
    BY <1>4
  <2>2. \A i \in transactions' : Inside(i)'
    BY <1>4
  <2>3. QED BY <1>4, <2>1, <2>2 DEF ConnectionsOK
<1>6. \A i \in transactions \ {k} : i \in transactions'
  <2>1. \A i \in Call \ {k} : Inside(i) => Inside(i)'
    BY <1>3 DEF Inside, UnderWay
  <2>2. QED BY <1>4, <2>1 DEF ConnectionsOK
<1>7. \A l \in locks : l.owner # k =>
        /\ l.owner \in transactions' /\ pc'[l.owner] \notin {"lock", "claim"}
        /\ l.key # << >>
  BY <1>3, <1>6 DEF LocksAreTransacted, ConnectionsOK
<1>8. CASE locks' = Released(k)
  <2>1. \A l \in locks' : l \in locks /\ l.owner # k
    BY <1>8 DEF Released
  <2>2. QED BY <1>1, <1>5, <1>7, <2>1 DEF LocksAreTransacted
<1>9. CASE pc[k] = "publish" /\ locks' = locks
  <2>1. ~ Inside(k)
    BY <1>2, <1>9, InsideGoesOn DEF Inside
  <2>2. \A l \in locks : l.owner # k
    BY <2>1 DEF LocksAreTransacted, ConnectionsOK
  <2>3. QED BY <1>1, <1>5, <1>7, <1>9, <2>2 DEF LocksAreTransacted
<1>10. CASE GoesAlong(k)
  <2>1. locks' = locks /\ pc[k] \notin {"lock", "claim", "commit", "publish"}
        /\ pc'[k] = Awaits[req[k].verb][pc[k]]
    BY <1>10 DEF GoesAlong, Advance, CallsOK
  <2>2. ASSUME NEW l \in locks, l.owner = k
        PROVE  k \in transactions' /\ pc'[k] \notin {"lock", "claim"} /\ l.key # << >>
    <3>1. k \in transactions /\ Inside(k) /\ l.key # << >>
      BY <2>2 DEF LocksAreTransacted, ConnectionsOK
    <3>2. pc'[k] \in InTransaction[req[k].verb] \ {"lock", "claim"} /\ pc'[k] \in Await
      BY <1>2, <2>1, <3>1, InsideGoesOn DEF Inside
    <3>3. Inside(k)'
      BY <3>2 DEF Inside, UnderWay
    <3>4. QED BY <1>4, <3>1, <3>2, <3>3
  <2>3. QED BY <1>1, <1>5, <1>7, <2>1, <2>2 DEF LocksAreTransacted
<1>11. CASE GetsLock(k) /\ Connected(k)
  <2>1. PICK key : key # << >> /\ locks' = locks \cup {[key |-> key, owner |-> k]}
    BY <1>11 DEF GetsLock, Lock
  <2>2. pc[k] \in {"lock", "claim"} /\ pc'[k] = Awaits[req[k].verb][pc[k]]
    BY <1>11 DEF GetsLock, Advance, CallsOK
  <2>3. /\ pc[k] \in InTransaction[req[k].verb]
        /\ pc'[k] \in InTransaction[req[k].verb] \ {"lock", "claim"} /\ pc'[k] \in Await
    BY <1>2, <2>2, LocksAreInside, InsideGoesOn
  <2>4. Inside(k) /\ Inside(k)'
    BY <2>3 DEF Inside, UnderWay
  <2>5. k \in transactions'
    BY <1>4, <1>11, <2>4 DEF Connected
  <2>6. \A l \in locks : l.owner # k
    BY <2>2 DEF LocksAreTransacted
  <2>7. QED BY <1>1, <1>5, <1>7, <2>1, <2>3, <2>5, <2>6 DEF LocksAreTransacted
<1>12. QED BY <1>8, <1>9, <1>10, <1>11 DEF Finishes, Returns

\* The invariant holds of an empty service.
LEMMA PoolInvInit ==
  ASSUME PoolInit
  PROVE  PoolInv
<1>1. CallsOK
  BY DEF PoolInit, ServiceInit, RegisterInit, HubInit, CallsOK, AwaitsOf
<1>2. ConnectionsOK
  BY DEF PoolInit, ConnectionsOK
<1>3. LocksAreTransacted
  BY DEF PoolInit, ServiceInit, RegisterInit, HubInit, LocksAreTransacted
<1>4. QED BY <1>1, <1>2, <1>3 DEF PoolInv

\* Every step on the pool keeps it.
LEMMA PoolInvStep ==
  ASSUME PoolInv, [PoolNext]_poolVars
  PROVE  PoolInv'
<1> USE DEF PoolInv
<1>1. ASSUME pc' = pc, req' = req, locks' = locks, pool' = pool, requests' = requests,
             \/ transactions' = transactions
             \/ \E k \in Call : Inside(k) /\ transactions' = transactions \cup {k}
      PROVE  PoolInv'
  <2>1. CallsOK'
    BY <1>1 DEF CallsOK
  <2>2. \A k \in Call : Inside(k)' <=> Inside(k)
    BY <1>1 DEF Inside, UnderWay
  <2>3. ConnectionsOK'
    BY <1>1, <2>2 DEF ConnectionsOK
  <2>4. LocksAreTransacted'
    BY <1>1 DEF LocksAreTransacted
  <2>5. QED BY <2>1, <2>3, <2>4
<1>2. CASE change_masters \/ UNCHANGED poolVars
  BY <1>1, <1>2 DEF change_masters, Masters, register_share_class, update_share_class,
                    register_shareholder, poolVars, serviceVars, registerVars, hubVars
<1>3. ASSUME NEW k \in Call, begin_request(k)
      PROVE  PoolInv'
  <2>1. PICK r \in Requests[k] :
          /\ req' = [req EXCEPT ![k] = r]
          /\ pc' = [pc EXCEPT ![k] = IF Valid(r) THEN First[r.verb] ELSE "refused"]
    BY <1>3 DEF begin_request, begin_call, Begin
  <2>2. /\ r \in Request /\ pc[k] = "idle" /\ locks' = locks
        /\ pool' = pool /\ transactions' = transactions
        /\ requests' \in {requests, requests \cup {k}}
        /\ ~ pool.pinned => requests' = requests
    BY <1>3, <2>1, RequestsAssumption DEF begin_request, begin_call, Begin
  <2>3. \A i \in Call \ {k} : pc'[i] = pc[i] /\ req'[i] = req[i]
    BY <2>1 DEF CallsOK
  <2>4. CallsOK'
    <3>1. PICK a : a = IF Valid(r) THEN First[r.verb] ELSE "refused"
      OBVIOUS
    <3>2. a \in AwaitsOf(r) /\ a \in Await \cup Ended
      BY <2>2, <3>1, FirstAwait DEF AwaitsOf, Ended
    <3>3. req' = [req EXCEPT ![k] = r] /\ pc' = [pc EXCEPT ![k] = a]
      BY <2>1, <3>1
    <3>4. QED BY <2>2, <3>2, <3>3 DEF CallsOK
  <2>5. ~ Inside(k)
    BY <2>2 DEF Inside, UnderWay, Await
  <2>6. \A i \in transactions : i # k /\ i \in Call /\ Inside(i)'
    BY <2>3, <2>5 DEF ConnectionsOK, Inside, UnderWay
  <2>7. ConnectionsOK'
    BY <2>2, <2>6 DEF ConnectionsOK
  <2>8. LocksAreTransacted'
    BY <2>2, <2>3, <2>6 DEF LocksAreTransacted
  <2>9. QED BY <2>4, <2>7, <2>8
<1>4. ASSUME NEW k \in Call, open_transaction(k)
      PROVE  PoolInv'
  BY <1>1, <1>4 DEF open_transaction, serviceVars, registerVars, hubVars
<1>5. ASSUME NEW k \in Call, connected_step(k) \/ acquire_timeout(k) \/ interrupt_request(k)
      PROVE  PoolInv'
  <2>1. Release
    BY <1>5 DEF connected_step, acquire_timeout, interrupt_request
  <2>2. CASE connected_step(k)
    BY <2>1, <2>2, CallShape, ReleaseKeepsPool DEF connected_step
  <2>3. CASE acquire_timeout(k) \/ interrupt_request(k)
    <3>1. Returns(k) /\ req' = req /\ pc[k] \in Await
      BY <2>3 DEF acquire_timeout, Refuse, UnderWay, interrupt_request, interrupt_call,
                  Interrupt, Returns, Ended
    <3>2. QED BY <2>1, <3>1, ReleaseKeepsPool
  <2>4. QED BY <1>5, <2>2, <2>3
<1>6. QED BY <1>2, <1>3, <1>4, <1>5 DEF PoolNext, PoolStep

\* It holds in every state.
LEMMA PoolInvariant == PoolSpec => []PoolInv
BY PoolInvInit, PoolInvStep, PTL DEF PoolSpec

-----------------------------------------------------------------------------
(* No pool is stuck.                                                       *)

\* While a transaction is open, one of them waits for nothing: the one that waits
\* for a lock waits for another that has it, which waits for no lock itself.
LEMMA SomeTransactionGoesOn ==
  ASSUME PoolInv, transactions # {}
  PROVE  \E k \in transactions : ~ Waits(k)
<1> USE DEF PoolInv
<1>1. ASSUME NEW k \in transactions
      PROVE  Connected(k)
  <2>1. k \in Call /\ Inside(k)
    BY DEF ConnectionsOK
  <2>2. pc[k] \notin PoolReads
    <3>1. req[k] \in Request
      BY <2>1, CallUnderWay DEF Inside, UnderWay
    <3>2. QED BY <2>1, <3>1, InsideGoesOn DEF Inside
  <2>3. QED BY <1>1, <2>2 DEF Connected
<1>2. ASSUME NEW k \in transactions, pc[k] \notin {"lock", "claim"}
      PROVE  ~ Waits(k)
  <2>1. Wanted(k) = << >>
    BY <1>2, Zenon DEF Wanted
  <2>2. Free(<< >>)
    BY DEF Free, LocksAreTransacted
  <2>3. QED BY <1>1, <2>1, <2>2 DEF Waits
<1>3. PICK k \in transactions : TRUE
  OBVIOUS
<1>4. CASE Free(Wanted(k))
  BY <1>1, <1>4 DEF Waits
<1>5. CASE ~ Free(Wanted(k))
  <2>1. PICK l \in locks : l.key = Wanted(k)
    BY <1>5 DEF Free
  <2>2. l.owner \in transactions /\ pc[l.owner] \notin {"lock", "claim"}
    BY DEF LocksAreTransacted
  <2>3. QED BY <1>2, <2>2
<1>6. QED BY <1>4, <1>5

\* A pool is never stuck while the pinned requests leave a connection for a
\* transaction: when all are taken, a transaction has one.
THEOREM PoolGoesOn ==
  PoolSpec => [](Cardinality(requests) < pool.size => PoolIsNeverStuck)
<1>1. PoolInv => (Cardinality(requests) < pool.size => PoolIsNeverStuck)
  <2> SUFFICES ASSUME PoolInv, Cardinality(requests) < pool.size, ~ Spare
               PROVE  \E k \in requests \cup transactions : ~ Waits(k)
    BY DEF PoolIsNeverStuck
  <2>1. transactions # {}
    <3>1. SUFFICES ASSUME transactions = {} PROVE FALSE
      OBVIOUS
    <3>2. Cardinality(transactions) = 0
      BY <3>1, FS_EmptySet
    <3>3. Cardinality(requests) \in Nat
      BY IdsAssumption, FS_Subset, FS_CardinalityType DEF PoolInv, ConnectionsOK
    <3>4. QED BY <3>2, <3>3 DEF Spare
  <2>2. QED BY <2>1, SomeTransactionGoesOn
<1>2. QED BY <1>1, PoolInvariant, PTL

\* So no pool is ever stuck that has, where requests are pinned, one connection
\* more than there can be calls; where they are not, a pool of any size will do,
\* even of one connection.
THEOREM NoPoolIsStuck ==
  ASSUME \A p \in Pools : p.pinned => Cardinality(Call) < p.size
  PROVE  PoolSpec => []PoolIsNeverStuck
<1>1. PoolInv => Cardinality(requests) < pool.size
  <2> SUFFICES ASSUME PoolInv PROVE Cardinality(requests) < pool.size
    OBVIOUS
  <2>1. pool \in [size: Nat \ {0}, pinned: BOOLEAN] /\ pool \in Pools
    BY PoolAssumption DEF PoolInv, ConnectionsOK
  <2>2. CASE pool.pinned
    <3>1. /\ Cardinality(requests) \in Nat /\ Cardinality(Call) \in Nat
          /\ Cardinality(requests) <= Cardinality(Call)
      BY IdsAssumption, FS_Subset, FS_CardinalityType DEF PoolInv, ConnectionsOK
    <3>2. QED BY <2>1, <2>2, <3>1
  <2>3. CASE ~ pool.pinned
    <3>1. Cardinality(requests) = 0
      BY <2>3, FS_EmptySet DEF PoolInv, ConnectionsOK
    <3>2. QED BY <2>1, <3>1
  <2>4. QED BY <2>2, <2>3
<1>2. QED BY <1>1, PoolInvariant, PoolGoesOn, PTL
-----------------------------------------------------------------------------
(* The service on a pool that runs out.                                    *)

\* A call is refused, and nothing else changes but its locks.
IsRefused(k) ==
  /\ pc[k] \in Await \ {"publish"} /\ Refuse(k)
  /\ UNCHANGED << req, gl, clock, stamp, outbox, classes, shareholders, register,
                  par, dividendVars >>

\* A step on the pool is a step of the service, or refuses a call.
LEMMA PoolStepKinds ==
  ASSUME PoolInv, [PoolNext]_poolVars
  PROVE  [ServiceNext]_serviceVars \/ \E k \in Call : IsRefused(k)
<1>1. CASE change_masters \/ UNCHANGED poolVars
  BY <1>1 DEF change_masters, poolVars, ServiceNext, RegisterNext
<1>2. ASSUME NEW k \in Call, begin_request(k) \/ interrupt_request(k)
      PROVE  ServiceNext
  BY <1>2 DEF begin_request, interrupt_request, ServiceNext, RegisterNext
<1>3. ASSUME NEW k \in Call, PoolStep(k)
      PROVE  [ServiceNext]_serviceVars
  BY <1>3 DEF PoolStep, open_transaction, connected_step, ServiceStep, ServiceNext,
              RegisterNext
<1>4. ASSUME NEW k \in Call, acquire_timeout(k)
      PROVE  IsRefused(k)
  <2>1. /\ pc[k] \in Await /\ Refuse(k)
        /\ UNCHANGED << req, gl, clock, stamp, outbox, classes, shareholders, register,
                        par, dividendVars >>
        /\ Inside(k) \/ pc[k] \in PoolReads
    BY <1>4 DEF acquire_timeout, UnderWay, Connected
  <2>2. req[k] \in Request
    BY <2>1, CallUnderWay DEF PoolInv
  <2>3. pc[k] # "publish"
    BY <2>1, <2>2, InsideGoesOn DEF Inside, PoolReads
  <2>4. QED BY <2>1, <2>3 DEF IsRefused
<1>5. QED BY <1>1, <1>2, <1>3, <1>4 DEF PoolNext

\* Refusing a call anywhere keeps the service's invariant.
LEMMA RefusalKeepsService ==
  ASSUME ServiceInv, NEW k \in Call, IsRefused(k)
  PROVE  ServiceInv'
<1> USE DEF ServiceInv
<1>1. /\ pc[k] \in Await /\ pc' = [pc EXCEPT ![k] = "refused"]
      /\ locks' = Released(k) /\ req' = req /\ register' = register
      /\ dividends' = dividends /\ outstanding' = outstanding /\ total' = total
      /\ asOf' = asOf
  BY DEF IsRefused, Refuse, dividendVars
<1>2. TypeOK'
  <2>1. CallsOK'
    BY <1>1, CallsStep DEF ServiceTypeOK, TypeOK, CallsOK, Ended
  <2>2. locks' \subseteq locks
    BY <1>1 DEF Released
  <2>3. QED
    BY <2>1, <2>2 DEF IsRefused, ServiceTypeOK, TypeOK, CallsOK
<1>3. /\ pc'[k] = "refused"
      /\ \A i \in Call \ {k} : pc'[i] = pc[i]
  BY <1>1 DEF ServiceTypeOK, TypeOK
<1>4. RegisterInv'
  <2>1. \A i \in Call : pc'[i] \in Await => pc[i] \in Await
    BY <1>1, <1>3
  <2>2. ValidUnderWay'
    BY <1>1, <2>1, Zenon DEF RegisterInv, ValidUnderWay, Valid
  <2>3. ~ Holds(k)' /\ ~ Checked(k)'
    BY <1>3 DEF Holds, Checked
  <2>4. CheckedBoundHolds' /\ NonNegative'
    BY <1>1, <1>3, <2>3 DEF RegisterInv, CheckedBoundHolds, Checked, NonNegative, holding
  <2>5. PositionsAreLocked'
    <3>1. \A l \in locks : l.owner # k => l \in locks'
      BY <1>1 DEF Released
    <3>2. locks' \subseteq locks
      BY <1>1 DEF Released
    <3>3. \A i \in Call : Holds(i)' => i # k /\ Holds(i)
      BY <1>1, <1>3, <2>3 DEF Holds
    <3>4. QED BY <1>1, <3>1, <3>2, <3>3 DEF RegisterInv, PositionsAreLocked
  <2>6. QED BY <1>2, <2>2, <2>4, <2>5 DEF RegisterInv
<1>5. TotalsAgree'
  BY <1>1, Zenon DEF TotalsAgree, HeldTotal, shares_outstanding, holding
<1>6. ServiceTypeOK'
  BY <1>1, <1>2 DEF ServiceTypeOK
<1>7. DividendInv'
  <2>1. Stops(k)
    BY DEF IsRefused, Refuse, Stops, Ended
  <2>2. QED BY <2>1, UnpaidSteps DEF ServiceTypeOK
<1>8. QED BY <1>4, <1>5, <1>6, <1>7

\* So the service's invariant holds on every pool.
LEMMA PooledServiceInvariant == PoolSpec => []ServiceInv
<1>1. PoolInit => ServiceInv
  BY ServiceInvInit DEF PoolInit
<1>2. PoolInv /\ ServiceInv /\ [PoolNext]_poolVars => ServiceInv'
  BY PoolStepKinds, ServiceInvStep, RefusalKeepsService
<1>3. QED BY <1>1, <1>2, PoolInvariant, PTL DEF PoolSpec

\* On a pool that runs out, too, no holder goes negative and a removal stays
\* covered, wherever a call is refused its connection.
THEOREM PooledRegisterIsSound == PoolSpec => [](NonNegative /\ CheckedBoundHolds)
<1>1. ServiceInv => NonNegative /\ CheckedBoundHolds
  BY DEF ServiceInv, RegisterInv
<1>2. QED BY <1>1, PooledServiceInvariant, PTL

\* And the service still implements the cap table.
THEOREM PooledServiceImplementsCapTable == PoolSpec => ImplementsCapTable
<1>1. PoolInit => Abstract!CapTableInit
  BY PositionsInit DEF PoolInit, ServiceInit
<1>2. PoolInv /\ ServiceInv /\ [PoolNext]_poolVars => [Abstract!CapTableNext]_Positions
  <2> SUFFICES ASSUME PoolInv, ServiceInv, [PoolNext]_poolVars
               PROVE  [Abstract!CapTableNext]_Positions
    OBVIOUS
  <2>1. CASE [RegisterNext]_registerVars
    BY <2>1, PositionsStep DEF ServiceInv
  <2>2. CASE register' = register
    <3>1. Positions' = Positions
      BY <2>2, Zenon DEF Positions, holding
    <3>2. QED BY <3>1
  <2>3. \A k \in Call : DividendStep(k) => register' = register
    BY DividendShape DEF ServiceInv, ServiceTypeOK
  <2>4. QED BY <2>1, <2>2, <2>3, PoolStepKinds, ServiceStepKinds DEF IsRefused
<1>3. QED
  BY <1>1, <1>2, PoolInvariant, PooledServiceInvariant, PTL
     DEF PoolSpec, ImplementsCapTable, Abstract!CapTableSpec
=============================================================================
