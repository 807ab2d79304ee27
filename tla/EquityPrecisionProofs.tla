----------------------- MODULE EquityPrecisionProofs -----------------------
(***************************************************************************)
(* What rounding can do to the cap table, for every base, column width,    *)
(* par value and set of quantities, prices and rates, and for behaviours   *)
(* of any length: at most half a unit a row, and never an overdraft.       *)
(***************************************************************************)
EXTENDS EquityPrecision, EquityGlProofs

-----------------------------------------------------------------------------
(* Rounding.                                                               *)

\* A rounded value is a multiple of the unit, at most half a unit away.
LEMMA RoundedIs ==
  ASSUME NEW v \in Int, NEW unit \in Nat \ {0}
  PROVE  /\ Rounded(v, unit) \in Int
         /\ \E k \in Int : Rounded(v, unit) = k * unit
         /\ 2 * Rounded(v, unit) <= 2 * v + unit
         /\ 2 * v < 2 * Rounded(v, unit) + unit
<1> DEFINE b == 2 * unit
           m == (2 * v + unit) \div b
<1>1. m \in Int /\ m * b <= 2 * v + unit /\ 2 * v + unit < m * b + b
  <2>1. 2 * v + unit \in Int /\ b \in Nat \ {0}
    OBVIOUS
  <2> HIDE DEF b
  <2>2. QED BY <2>1, Quotient
<1>2. Rounded(v, unit) = m * unit
  BY DEF Rounded
<1> HIDE DEF m
<1>3. m * b = 2 * (m * unit)
  BY <1>1
<1>4. QED BY <1>1, <1>2, <1>3

\* What does not exceed a multiple of the unit does not exceed it when rounded.
LEMMA RoundedIsCovered ==
  ASSUME NEW v \in Int, NEW unit \in Nat \ {0}, NEW n \in Int, v <= n * unit
  PROVE  Rounded(v, unit) <= n * unit
<1>1. PICK k \in Int : Rounded(v, unit) = k * unit
  BY RoundedIs
<1>2. 2 * (k * unit) <= 2 * v + unit
  BY <1>1, RoundedIs
<1>3. SUFFICES ASSUME k > n PROVE FALSE
  <2>1. ASSUME k <= n PROVE k * unit <= n * unit
    BY <2>1
  <2>2. QED BY <1>1, <2>1
<1>4. k * unit >= n * unit + unit
  <2>1. k * unit = n * unit + (k - n) * unit
    OBVIOUS
  <2>2. (k - n) * unit >= unit
    BY <1>3
  <2>3. n * unit \in Int /\ k * unit \in Int /\ (k - n) * unit \in Int
    OBVIOUS
  <2>4. QED BY <2>1, <2>2, <2>3
<1>5. n * unit \in Int /\ k * unit \in Int
  OBVIOUS
<1>6. QED BY <1>2, <1>4, <1>5

\* The units, and zero is stored as zero.
LEMMA Units ==
  /\ ShareUnit \in Nat \ {0} /\ MoneyUnit \in Nat \ {0}
  /\ Rounded(0, MoneyUnit) = 0 /\ 0 * MoneyUnit = 0
<1>1. ShareUnit \in Nat \ {0} /\ MoneyUnit \in Nat \ {0}
  <2>1. Base \in Nat /\ Base > 0
    BY PrecisionAssumption
  <2>2. Base * Base \in Nat /\ Base * Base > 0
    BY <2>1
  <2>3. QED BY <2>1, <2>2 DEF ShareUnit, MoneyUnit
<1>2. Rounded(0, MoneyUnit) = 0
  <2>1. PICK k \in Int : Rounded(0, MoneyUnit) = k * MoneyUnit
    <3>1. 0 \in Int
      OBVIOUS
    <3>2. QED BY <3>1, <1>1, RoundedIs, Zenon
  <2>2. 2 * Rounded(0, MoneyUnit) <= MoneyUnit /\ 0 < 2 * Rounded(0, MoneyUnit) + MoneyUnit
    BY <1>1, RoundedIs
  <2>3. CASE k = 0
    BY <1>1, <2>1, <2>3
  <2>4. CASE k >= 1
    <3>1. k * MoneyUnit >= MoneyUnit
      BY <1>1, <2>4
    <3>2. QED BY <1>1, <2>1, <2>2, <3>1
  <2>5. CASE k <= -1
    <3>1. k * MoneyUnit <= - MoneyUnit
      BY <1>1, <2>5
    <3>2. QED BY <1>1, <2>1, <2>2, <3>1
  <2>6. QED BY <2>3, <2>4, <2>5
<1>3. QED BY <1>1, <1>2

\* A difference of so many half units grows by at most one more of them.
LEMMA HalfUnitMore ==
  ASSUME NEW unit \in Nat, NEW n \in Nat, NEW d \in Int, NEW x \in Int,
         2 * Magnitude(d) <= n * unit, 2 * x <= unit, - unit <= 2 * x
  PROVE  2 * Magnitude(d + x) <= (n + 1) * unit
<1>1. (n + 1) * unit = n * unit + unit /\ n * unit \in Int
  OBVIOUS
<1>2. QED BY <1>1 DEF Magnitude

\* More rows leave more room.
LEMMA RowsMore ==
  ASSUME NEW unit \in Nat, NEW n \in Nat, NEW m \in Nat, NEW d \in Int, n <= m,
         2 * Magnitude(d) <= n * unit
  PROVE  2 * Magnitude(d) <= m * unit
<1>1. n * unit <= m * unit /\ n * unit \in Int /\ m * unit \in Int
  OBVIOUS
<1>2. QED BY <1>1 DEF Magnitude

-----------------------------------------------------------------------------
(* What a row adds to the sums over the rows.                              *)

Row == [txn_type: {"issue", "transfer_out", "transfer_in", "buyback"}, holder: Holder,
        quantity: Int, price_per_share: Int, amount: Int]
Stored == [per_share: Int, total_amount: Int, shares: Int, status: {"declared", "paid"}]

HeldBy(row, h) ==
  IF row.holder # h THEN 0
  ELSE IF row.txn_type \in {"issue", "transfer_in"} THEN row.quantity
  ELSE - row.quantity

Adds(row) ==
  CASE row.txn_type = "issue"   -> row.quantity
    [] row.txn_type = "buyback" -> - row.quantity
    [] OTHER                    -> 0

Says(row) ==
  CASE row.txn_type = "issue"   -> row.amount
    [] row.txn_type = "buyback" -> - row.amount
    [] OTHER                    -> 0

HeldOf(rows, h)     == SumSeq([i \in 1 .. Len(rows) |-> HeldBy(rows[i], h)])
OutstandingOf(rows) == SumSeq([i \in 1 .. Len(rows) |-> Adds(rows[i])])
SaidBy(rows)        == SumSeq([i \in 1 .. Len(rows) |-> Says(rows[i])])

\* What the paid dividends took, and what the others still owe.
PaidBy(row)   == IF row.status = "paid" THEN row.total_amount ELSE 0
UnpaidBy(row) == IF row.status = "paid" THEN 0 ELSE row.total_amount
PaidOf(rows)   == SumSeq([i \in 1 .. Len(rows) |-> PaidBy(rows[i])])
UnpaidOf(rows) == SumSeq([i \in 1 .. Len(rows) |-> UnpaidBy(rows[i])])

\* A number of each row.
Each(f, rows) == [i \in 1 .. Len(rows) |-> f[rows[i]]]

\* A number of each row, summed over one row more.
LEMMA OneMore ==
  ASSUME NEW S, NEW rows \in Seq(S), NEW row \in S, NEW f, \A x \in S : f[x] \in Int
  PROVE  /\ SumSeq(Each(f, rows)) \in Int
         /\ SumSeq(Each(f, Append(rows, row))) = SumSeq(Each(f, rows)) + f[row]
<1>0. PICK all : all = Append(rows, row)
  OBVIOUS
<1> DEFINE n == Len(rows)
           d == Each(f, rows)
           e == Each(f, all)
<1>1. n \in Nat /\ all \in Seq(S) /\ Len(all) = n + 1 /\ all[n + 1] = row
      /\ (\A i \in 1 .. n : all[i] = rows[i])
      /\ \A i \in 1 .. n : rows[i] \in S
  BY <1>0
<1>2. \A i \in 1 .. n + 1 : i \in 1 .. n \/ i = n + 1
  BY <1>1
<1>3. /\ d \in [1 .. n -> Int] /\ e \in [1 .. n + 1 -> Int]
      /\ e[n + 1] = f[row]
      /\ \A i \in 1 .. n : e[i] = d[i]
  BY <1>1, <1>2 DEF Each
<1> HIDE DEF n, d, e
<1>4. SumSeq(d) \in Int /\ SumSeq(e) = SumSeq(d) + f[row]
  BY <1>1, <1>3, SumSeqExtend
<1>5. QED BY <1>0, <1>4 DEF d, e

\* A movement's row adds to a holding, to the shares outstanding and to the cash
\* that the register says came in.
LEMMA RowAdds ==
  ASSUME NEW rows \in Seq(Row), NEW row \in Row, NEW h
  PROVE  /\ HeldOf(rows, h) \in Int
         /\ HeldOf(Append(rows, row), h) = HeldOf(rows, h) + HeldBy(row, h)
         /\ OutstandingOf(rows) \in Int
         /\ OutstandingOf(Append(rows, row)) = OutstandingOf(rows) + Adds(row)
         /\ SaidBy(rows) \in Int
         /\ SaidBy(Append(rows, row)) = SaidBy(rows) + Says(row)
<1>0. PICK all : all = Append(rows, row)
  OBVIOUS
<1>1. Len(rows) \in Nat /\ Len(all) \in Nat /\ all \in Seq(Row)
      /\ (\A i \in 1 .. Len(rows) : rows[i] \in Row)
      /\ \A i \in 1 .. Len(all) : all[i] \in Row
  BY <1>0
<1>2. \A x \in Row : HeldBy(x, h) \in Int /\ Adds(x) \in Int /\ Says(x) \in Int
  BY DEF Row, HeldBy, Adds, Says
<1>3. HeldOf(rows, h) \in Int /\ HeldOf(all, h) = HeldOf(rows, h) + HeldBy(row, h)
  <2> DEFINE f == [x \in Row |-> HeldBy(x, h)]
  <2>1. (\A x \in Row : f[x] \in Int) /\ f[row] = HeldBy(row, h)
    BY <1>2
  <2>2. SumSeq(Each(f, rows)) = HeldOf(rows, h) /\ SumSeq(Each(f, all)) = HeldOf(all, h)
    BY <1>1 DEF Each, HeldOf
  <2> HIDE DEF f
  <2>3. /\ SumSeq(Each(f, rows)) \in Int
        /\ SumSeq(Each(f, Append(rows, row))) = SumSeq(Each(f, rows)) + f[row]
    BY <2>1, OneMore, Zenon
  <2>4. QED BY <1>0, <2>1, <2>2, <2>3, Zenon
<1>4. OutstandingOf(rows) \in Int /\ OutstandingOf(all) = OutstandingOf(rows) + Adds(row)
  <2> DEFINE f == [x \in Row |-> Adds(x)]
  <2>1. (\A x \in Row : f[x] \in Int) /\ f[row] = Adds(row)
    BY <1>2
  <2>2. SumSeq(Each(f, rows)) = OutstandingOf(rows) /\ SumSeq(Each(f, all)) = OutstandingOf(all)
    BY <1>1 DEF Each, OutstandingOf
  <2> HIDE DEF f
  <2>3. /\ SumSeq(Each(f, rows)) \in Int
        /\ SumSeq(Each(f, Append(rows, row))) = SumSeq(Each(f, rows)) + f[row]
    BY <2>1, OneMore, Zenon
  <2>4. QED BY <1>0, <2>1, <2>2, <2>3, Zenon
<1>5. SaidBy(rows) \in Int /\ SaidBy(all) = SaidBy(rows) + Says(row)
  <2> DEFINE f == [x \in Row |-> Says(x)]
  <2>1. (\A x \in Row : f[x] \in Int) /\ f[row] = Says(row)
    BY <1>2
  <2>2. SumSeq(Each(f, rows)) = SaidBy(rows) /\ SumSeq(Each(f, all)) = SaidBy(all)
    BY <1>1 DEF Each, SaidBy
  <2> HIDE DEF f
  <2>3. /\ SumSeq(Each(f, rows)) \in Int
        /\ SumSeq(Each(f, Append(rows, row))) = SumSeq(Each(f, rows)) + f[row]
    BY <2>1, OneMore, Zenon
  <2>4. QED BY <1>0, <2>1, <2>2, <2>3, Zenon
<1>6. QED BY <1>0, <1>3, <1>4, <1>5

\* A declaration adds its total to what is owed.
LEMMA DeclaredAdds ==
  ASSUME NEW rows \in Seq(Stored), NEW row \in Stored
  PROVE  /\ PaidOf(rows) \in Int
         /\ PaidOf(Append(rows, row)) = PaidOf(rows) + PaidBy(row)
         /\ UnpaidOf(rows) \in Int
         /\ UnpaidOf(Append(rows, row)) = UnpaidOf(rows) + UnpaidBy(row)
<1>0. PICK all : all = Append(rows, row)
  OBVIOUS
<1>1. Len(rows) \in Nat /\ Len(all) \in Nat /\ all \in Seq(Stored)
      /\ (\A i \in 1 .. Len(rows) : rows[i] \in Stored)
      /\ \A i \in 1 .. Len(all) : all[i] \in Stored
  BY <1>0
<1>2. \A x \in Stored : PaidBy(x) \in Int /\ UnpaidBy(x) \in Int
  BY DEF Stored, PaidBy, UnpaidBy
<1>3. PaidOf(rows) \in Int /\ PaidOf(all) = PaidOf(rows) + PaidBy(row)
  <2> DEFINE f == [x \in Stored |-> PaidBy(x)]
  <2>1. (\A x \in Stored : f[x] \in Int) /\ f[row] = PaidBy(row)
    BY <1>2
  <2>2. SumSeq(Each(f, rows)) = PaidOf(rows) /\ SumSeq(Each(f, all)) = PaidOf(all)
    BY <1>1 DEF Each, PaidOf
  <2> HIDE DEF f
  <2>3. /\ SumSeq(Each(f, rows)) \in Int
        /\ SumSeq(Each(f, Append(rows, row))) = SumSeq(Each(f, rows)) + f[row]
    BY <2>1, OneMore, Zenon
  <2>4. QED BY <1>0, <2>1, <2>2, <2>3, Zenon
<1>4. UnpaidOf(rows) \in Int /\ UnpaidOf(all) = UnpaidOf(rows) + UnpaidBy(row)
  <2> DEFINE f == [x \in Stored |-> UnpaidBy(x)]
  <2>1. (\A x \in Stored : f[x] \in Int) /\ f[row] = UnpaidBy(row)
    BY <1>2
  <2>2. SumSeq(Each(f, rows)) = UnpaidOf(rows) /\ SumSeq(Each(f, all)) = UnpaidOf(all)
    BY <1>1 DEF Each, UnpaidOf
  <2> HIDE DEF f
  <2>3. /\ SumSeq(Each(f, rows)) \in Int
        /\ SumSeq(Each(f, Append(rows, row))) = SumSeq(Each(f, rows)) + f[row]
    BY <2>1, OneMore, Zenon
  <2>4. QED BY <1>0, <2>1, <2>2, <2>3, Zenon
<1>5. QED BY <1>0, <1>3, <1>4

\* A payment moves the total its row stores from what is owed to what is paid.
LEMMA PaymentMoves ==
  ASSUME NEW rows \in Seq(Stored), NEW d \in 1 .. Len(rows), rows[d].status = "declared",
         NEW then, then = [rows EXCEPT ![d].status = "paid"]
  PROVE  /\ then \in Seq(Stored) /\ Len(then) = Len(rows)
         /\ PaidOf(then) = PaidOf(rows) + rows[d].total_amount
         /\ UnpaidOf(then) = UnpaidOf(rows) - rows[d].total_amount
<1> DEFINE n == Len(rows)
<1>1. /\ then \in Seq(Stored) /\ Len(then) = n /\ n \in Nat
      /\ then[d].status = "paid" /\ then[d].total_amount = rows[d].total_amount
      /\ \A i \in 1 .. n : i # d => then[i] = rows[i]
  <2>1. rows[d] \in Stored /\ n \in Nat
    OBVIOUS
  <2> DEFINE row == [rows[d] EXCEPT !.status = "paid"]
  <2>2. row \in Stored /\ row.status = "paid" /\ row.total_amount = rows[d].total_amount
    BY <2>1 DEF Stored
  <2> HIDE DEF row
  <2>3. then = [rows EXCEPT ![d] = row]
    BY DEF row
  <2>4. QED BY <2>1, <2>2, <2>3
<1>2. \A i \in 1 .. n : rows[i] \in Stored /\ then[i] \in Stored
  BY <1>1
<1>3. \A x \in Stored : PaidBy(x) \in Int /\ UnpaidBy(x) \in Int /\ x.total_amount \in Int
  BY DEF Stored, PaidBy, UnpaidBy
<1>4. PaidOf(then) = PaidOf(rows) + rows[d].total_amount
  <2> DEFINE s == [i \in 1 .. n |-> PaidBy(rows[i])]
             t == [i \in 1 .. n |-> PaidBy(then[i])]
  <2>1. s \in Seq(Int) /\ t \in Seq(Int) /\ Len(s) = n /\ Len(t) = n
        /\ \A i \in 1 .. n : i # d => t[i] = s[i]
    <3>1. \A i \in 1 .. n : PaidBy(rows[i]) \in Int /\ PaidBy(then[i]) \in Int
      BY <1>2, <1>3
    <3>2. s \in Seq(Int) /\ t \in Seq(Int)
      BY <1>1, <3>1
    <3>3. QED BY <1>1, <3>2
  <2>2. s[d] = 0 /\ t[d] = rows[d].total_amount
    BY <1>1 DEF PaidBy
  <2>3. SumSeq(s) \in Int
    BY <2>1, SumSeqType
  <2>4. PaidOf(then) = SumSeq(t) /\ PaidOf(rows) = SumSeq(s)
    BY <1>1 DEF PaidOf
  <2> HIDE DEF s, t
  <2>5. SumSeq(t) = SumSeq(s) + t[d] - s[d]
    BY <2>1, SumSeqUpdate
  <2>6. QED BY <1>2, <1>3, <2>2, <2>3, <2>4, <2>5
<1>5. UnpaidOf(then) = UnpaidOf(rows) - rows[d].total_amount
  <2> DEFINE s == [i \in 1 .. n |-> UnpaidBy(rows[i])]
             t == [i \in 1 .. n |-> UnpaidBy(then[i])]
  <2>1. s \in Seq(Int) /\ t \in Seq(Int) /\ Len(s) = n /\ Len(t) = n
        /\ \A i \in 1 .. n : i # d => t[i] = s[i]
    <3>1. \A i \in 1 .. n : UnpaidBy(rows[i]) \in Int /\ UnpaidBy(then[i]) \in Int
      BY <1>2, <1>3
    <3>2. s \in Seq(Int) /\ t \in Seq(Int)
      BY <1>1, <3>1
    <3>3. QED BY <1>1, <3>2
  <2>2. t[d] = 0 /\ s[d] = rows[d].total_amount
    BY <1>1 DEF UnpaidBy
  <2>3. SumSeq(s) \in Int
    BY <2>1, SumSeqType
  <2>4. UnpaidOf(then) = SumSeq(t) /\ UnpaidOf(rows) = SumSeq(s)
    BY <1>1 DEF UnpaidOf
  <2> HIDE DEF s, t
  <2>5. SumSeq(t) = SumSeq(s) + t[d] - s[d]
    BY <2>1, SumSeqUpdate
  <2>6. QED BY <1>2, <1>3, <2>2, <2>3, <2>4, <2>5
<1>6. QED BY <1>1, <1>4, <1>5

\* When every dividend is paid, nothing is owed.
LEMMA NothingOwed ==
  ASSUME NEW rows \in Seq(Stored), \A d \in 1 .. Len(rows) : rows[d].status = "paid"
  PROVE  UnpaidOf(rows) = 0
<1> DEFINE s == [i \in 1 .. Len(rows) |-> UnpaidBy(rows[i])]
<1>1. \A i \in 1 .. Len(rows) : UnpaidBy(rows[i]) = 0
  BY DEF UnpaidBy
<1>2. s \in Seq(Int) /\ \A i \in 1 .. Len(s) : s[i] = 0
  BY <1>1
<1>3. UnpaidOf(rows) = SumSeq(s)
  BY DEF UnpaidOf
<1> HIDE DEF s
<1>4. QED BY <1>2, <1>3, SumSeqZero

-----------------------------------------------------------------------------
(* The numbers the properties are about, and how the verbs move them.      *)

\* What is on an account, without the journals whose rows were refused.
Booked(a) == balance[a] - orphaned[a]

\* How far the bank is from the rows, the payable from what is owed, and capital
\* from the par value of the shares.
Cash    == Booked("bank") - (SaidBy(register) - PaidOf(dividends))
Owing   == Booked("dividend_payable") + UnpaidOf(dividends)
Capital == - Booked("share_capital") - par_value * OutstandingOf(register)

PrecisionTypeOK ==
  /\ par_value \in Nat
  /\ register \in Seq(Row) /\ dividends \in Seq(Stored)
  /\ balance \in [Account -> Int] /\ orphaned \in [Account -> Int]

\* The sums of the specification are those above.
LEMMA SumsAre ==
  /\ \A h : held(h) = HeldOf(register, h)
  /\ outstanding = OutstandingOf(register)
BY DEF held, HeldOf, HeldBy, outstanding, OutstandingOf, Adds

\* The numbers are numbers.
LEMMA NumbersAre ==
  ASSUME PrecisionTypeOK
  PROVE  /\ SaidBy(register) \in Int /\ OutstandingOf(register) \in Int
         /\ \A h : HeldOf(register, h) \in Int
         /\ PaidOf(dividends) \in Int /\ UnpaidOf(dividends) \in Int
         /\ \A a \in Account : balance[a] \in Int /\ orphaned[a] \in Int /\ Booked(a) \in Int
         /\ Cash \in Int /\ Owing \in Int /\ Capital \in Int
<1>1. \A rows \in Seq(Row) : /\ SaidBy(rows) \in Int /\ OutstandingOf(rows) \in Int
                             /\ \A h : HeldOf(rows, h) \in Int
  <2> SUFFICES ASSUME NEW rows \in Seq(Row), NEW h
               PROVE  SaidBy(rows) \in Int /\ OutstandingOf(rows) \in Int /\ HeldOf(rows, h) \in Int
    OBVIOUS
  <2>1. \A x \in Row : HeldBy(x, h) \in Int /\ Adds(x) \in Int /\ Says(x) \in Int
    BY DEF Row, HeldBy, Adds, Says
  <2>2. \A i \in 1 .. Len(rows) : rows[i] \in Row
    OBVIOUS
  <2>3. /\ [i \in 1 .. Len(rows) |-> HeldBy(rows[i], h)] \in Seq(Int)
        /\ [i \in 1 .. Len(rows) |-> Adds(rows[i])] \in Seq(Int)
        /\ [i \in 1 .. Len(rows) |-> Says(rows[i])] \in Seq(Int)
    BY <2>1, <2>2
  <2>4. QED BY <2>3, SumSeqType, Zenon DEF SaidBy, OutstandingOf, HeldOf
<1>2. \A rows \in Seq(Stored) : PaidOf(rows) \in Int /\ UnpaidOf(rows) \in Int
  <2> SUFFICES ASSUME NEW rows \in Seq(Stored) PROVE PaidOf(rows) \in Int /\ UnpaidOf(rows) \in Int
    OBVIOUS
  <2>1. \A x \in Stored : PaidBy(x) \in Int /\ UnpaidBy(x) \in Int
    BY DEF Stored, PaidBy, UnpaidBy
  <2>2. \A i \in 1 .. Len(rows) : rows[i] \in Stored
    OBVIOUS
  <2>3. /\ [i \in 1 .. Len(rows) |-> PaidBy(rows[i])] \in Seq(Int)
        /\ [i \in 1 .. Len(rows) |-> UnpaidBy(rows[i])] \in Seq(Int)
    BY <2>1, <2>2
  <2>4. QED BY <2>3, SumSeqType, Zenon DEF PaidOf, UnpaidOf
<1>3. \A a \in Account : balance[a] \in Int /\ orphaned[a] \in Int /\ Booked(a) \in Int
  BY DEF PrecisionTypeOK, Booked
<1>4. {"bank", "dividend_payable", "share_capital"} \subseteq Account
  BY DEF Account
<1>5. /\ SaidBy(register) \in Int /\ OutstandingOf(register) \in Int
      /\ \A h : HeldOf(register, h) \in Int
      /\ PaidOf(dividends) \in Int /\ UnpaidOf(dividends) \in Int
  BY <1>1, <1>2, Zenon DEF PrecisionTypeOK
<1>6. Cash \in Int /\ Owing \in Int
  BY <1>3, <1>4, <1>5 DEF Cash, Owing
<1>7. Capital \in Int
  <2>1. par_value * OutstandingOf(register) \in Int
    BY <1>5 DEF PrecisionTypeOK
  <2>2. QED BY <2>1, <1>3, <1>4 DEF Capital
<1>8. QED BY <1>3, <1>5, <1>6, <1>7

\* A journal adds its net to each account.
LEMMA AfterIs ==
  ASSUME NEW balances \in [Account -> Int], NEW lines, \A a \in Account : Net(lines, a) \in Int
  PROVE  /\ After(balances, lines) \in [Account -> Int]
         /\ \A a \in Account : After(balances, lines)[a] = balances[a] + Net(lines, a)
BY DEF After

\* A journal whose row is recorded moves what is booked.
LEMMA BookedMoves ==
  ASSUME PrecisionTypeOK, NEW lines, \A a \in Account : Net(lines, a) \in Int,
         balance' = After(balance, lines), orphaned' = orphaned
  PROVE  /\ balance' \in [Account -> Int]
         /\ \A a \in Account : Booked(a)' = Booked(a) + Net(lines, a)
<1>1. /\ balance' \in [Account -> Int]
      /\ \A a \in Account : balance'[a] = balance[a] + Net(lines, a)
  BY AfterIs DEF PrecisionTypeOK
<1>2. ASSUME NEW a \in Account PROVE Booked(a)' = Booked(a) + Net(lines, a)
  <2>1. balance[a] \in Int /\ orphaned[a] \in Int /\ Net(lines, a) \in Int
    BY DEF PrecisionTypeOK
  <2>2. Booked(a)' = balance'[a] - orphaned[a] /\ Booked(a) = balance[a] - orphaned[a]
    BY DEF Booked
  <2>3. QED BY <1>1, <2>1, <2>2
<1>3. QED BY <1>1, <1>2

\* A step leaves a distance as it is, or moves it by at most half a unit for the
\* row it adds.
Small(x, unit) == 2 * x <= unit /\ - unit <= 2 * x

CashDrifts ==
  \/ Cash' = Cash /\ Len(register') >= Len(register)
  \/ /\ Len(register') = Len(register) + 1
     /\ \E x \in Int : Small(x, MoneyUnit) /\ Cash' = Cash + x
CapitalDrifts ==
  \/ Capital' = Capital /\ Len(register') >= Len(register)
  \/ /\ Len(register') = Len(register) + 1
     /\ \E x \in Int : Small(x, ShareUnit) /\ Capital' = Capital + par_value * x
OwingDrifts ==
  \/ Owing' = Owing /\ Len(dividends') >= Len(dividends)
  \/ /\ Len(dividends') = Len(dividends) + 1
     /\ \E x \in Int : Small(x, MoneyUnit) /\ Owing' = Owing + x
Drifts == CashDrifts /\ CapitalDrifts /\ OwingDrifts

\* What a row stores is at most half a unit from what was asked.
LEMMA RoundingIsSmall ==
  ASSUME NEW v \in Int, NEW unit \in Nat \ {0}
  PROVE  /\ Rounded(v, unit) \in Int
         /\ Small(v - Rounded(v, unit), unit) /\ Small(Rounded(v, unit) - v, unit)
<1>1. PICK r : r = Rounded(v, unit)
  OBVIOUS
<1>2. r \in Int /\ 2 * r <= 2 * v + unit /\ 2 * v < 2 * r + unit
  BY <1>1, RoundedIs
<1>3. Small(v - r, unit) /\ Small(r - v, unit)
  BY <1>2 DEF Small
<1>4. QED BY <1>1, <1>2, <1>3

\* A refused row leaves its journal behind, and nothing else.
LEMMA OrphanDrifts ==
  ASSUME PrecisionTypeOK, NEW lines, \A a \in Account : Net(lines, a) \in Int,
         balance' = After(balance, lines), orphaned' = After(orphaned, lines),
         register' = register, dividends' = dividends, par_value' = par_value
  PROVE  PrecisionTypeOK' /\ Drifts
<1>1. /\ balance' \in [Account -> Int] /\ orphaned' \in [Account -> Int]
      /\ \A a \in Account : balance'[a] = balance[a] + Net(lines, a)
                         /\ orphaned'[a] = orphaned[a] + Net(lines, a)
  BY AfterIs DEF PrecisionTypeOK
<1>2. PrecisionTypeOK'
  BY <1>1 DEF PrecisionTypeOK
<1>3. \A a \in Account : Booked(a)' = Booked(a)
  BY <1>1, NumbersAre DEF Booked
<1>4. {"bank", "dividend_payable", "share_capital"} \subseteq Account
  BY DEF Account
<1>5. Cash' = Cash /\ Owing' = Owing /\ Capital' = Capital
  BY <1>3, <1>4 DEF Cash, Owing, Capital
<1>6. Len(register) \in Nat /\ Len(dividends) \in Nat
  BY DEF PrecisionTypeOK
<1>7. QED BY <1>2, <1>5, <1>6 DEF Drifts, CashDrifts, CapitalDrifts, OwingDrifts

\* A recorded movement leaves the bank and the capital where its row says, but for
\* what its row rounds.
LEMMA RecordDrifts ==
  ASSUME PrecisionTypeOK, NEW row \in Row, NEW lines,
         \A a \in Account : Net(lines, a) \in Int,
         register' = Append(register, row), balance' = After(balance, lines),
         orphaned' = orphaned, dividends' = dividends, par_value' = par_value,
         Small(Net(lines, "bank") - Says(row), MoneyUnit),
         NEW x \in Int, Small(x, ShareUnit),
         - Net(lines, "share_capital") - par_value * Adds(row) = par_value * x,
         Net(lines, "dividend_payable") = 0
  PROVE  PrecisionTypeOK' /\ Drifts
<1>1. /\ register' \in Seq(Row) /\ Len(register) \in Nat
      /\ Len(register') = Len(register) + 1 /\ Len(dividends) \in Nat
  BY DEF PrecisionTypeOK
<1>2. /\ balance' \in [Account -> Int]
      /\ \A a \in Account : Booked(a)' = Booked(a) + Net(lines, a)
  BY BookedMoves
<1>3. PrecisionTypeOK'
  BY <1>1, <1>2 DEF PrecisionTypeOK
<1>4. {"bank", "dividend_payable", "share_capital"} \subseteq Account
  BY DEF Account
<1>5. /\ Booked("bank")' = Booked("bank") + Net(lines, "bank")
      /\ Booked("share_capital")' = Booked("share_capital") + Net(lines, "share_capital")
      /\ Booked("dividend_payable")' = Booked("dividend_payable")
  <2>1. Booked("dividend_payable")' = Booked("dividend_payable") + 0
    BY <1>2, <1>4
  <2>2. QED BY <1>2, <1>4, <2>1, NumbersAre
<1>6. /\ SaidBy(register') = SaidBy(register) + Says(row)
      /\ OutstandingOf(register') = OutstandingOf(register) + Adds(row)
  BY RowAdds DEF PrecisionTypeOK
<1>7. Says(row) \in Int /\ Adds(row) \in Int
  BY DEF Row, Says, Adds
<1>8. Cash' = Cash + (Net(lines, "bank") - Says(row))
  <2>1. Cash' = (Booked("bank") + Net(lines, "bank"))
                  - ((SaidBy(register) + Says(row)) - PaidOf(dividends))
    BY <1>5, <1>6, Zenon DEF Cash
  <2>2. /\ Booked("bank") \in Int /\ Net(lines, "bank") \in Int
        /\ SaidBy(register) \in Int /\ PaidOf(dividends) \in Int
    BY <1>4, NumbersAre
  <2>3. QED BY <1>7, <2>1, <2>2 DEF Cash
<1>9. Owing' = Owing
  BY <1>5 DEF Owing
<1>10. Capital' = Capital + par_value * x
  <2>1. par_value * (OutstandingOf(register) + Adds(row)) =
          par_value * OutstandingOf(register) + par_value * Adds(row)
    <3>1. par_value \in Int /\ OutstandingOf(register) \in Int
      BY NumbersAre DEF PrecisionTypeOK
    <3>2. QED BY <1>7, <3>1
  <2>2. /\ par_value * OutstandingOf(register) \in Int /\ par_value * Adds(row) \in Int
        /\ par_value * x \in Int
    <3>1. par_value \in Int /\ OutstandingOf(register) \in Int
      BY NumbersAre DEF PrecisionTypeOK
    <3>2. QED BY <1>7, <3>1
  <2>3. Capital' = - (Booked("share_capital") + Net(lines, "share_capital"))
                     - (par_value * OutstandingOf(register) + par_value * Adds(row))
    BY <1>5, <1>6, <2>1 DEF Capital
  <2>4. Booked("share_capital") \in Int /\ Net(lines, "share_capital") \in Int
    BY <1>4, NumbersAre
  <2>5. QED BY <2>2, <2>3, <2>4 DEF Capital
<1>11. CashDrifts
  BY <1>1, <1>4, <1>7, <1>8 DEF CashDrifts
<1>12. CapitalDrifts
  BY <1>1, <1>10 DEF CapitalDrifts
<1>13. QED BY <1>1, <1>3, <1>9, <1>11, <1>12 DEF Drifts, OwingDrifts

\* The row of a movement.
LEMMA MovementRowIs ==
  ASSUME NEW type \in {"issue", "transfer_out", "transfer_in", "buyback"},
         NEW h \in Holder, NEW quantity \in Int, NEW price \in Int,
         NEW amount \in Int, amount = quantity * price
  PROVE  LET row == MovementRow(type, h, quantity, price)
             r   == Rounded(quantity, ShareUnit)
             s   == Rounded(amount, MoneyUnit)
         IN  /\ row \in Row /\ r \in Int /\ s \in Int
             /\ row.txn_type = type /\ row.holder = h /\ row.quantity = r
             /\ Adds(row) = IF type = "issue" THEN r ELSE IF type = "buyback" THEN - r ELSE 0
             /\ Says(row) = IF type = "issue" THEN s ELSE IF type = "buyback" THEN - s ELSE 0
<1>1. PICK r : r = Rounded(quantity, ShareUnit)
  OBVIOUS
<1>2. PICK s : s = Rounded(amount, MoneyUnit)
  OBVIOUS
<1>3. PICK t : t = Rounded(price, ShareUnit)
  OBVIOUS
<1>4. r \in Int /\ s \in Int /\ t \in Int
  BY <1>1, <1>2, <1>3, Units, RoundedIs
<1>5. MovementRow(type, h, quantity, price) =
        [txn_type |-> type, holder |-> h, quantity |-> r, price_per_share |-> t, amount |-> s]
  BY <1>1, <1>2, <1>3 DEF MovementRow
<1>6. QED BY <1>1, <1>2, <1>4, <1>5 DEF Row, Adds, Says

\* An issue.
LEMMA IssueDrifts ==
  ASSUME PrecisionTypeOK, NEW h \in Holder, NEW quantity \in Int, NEW price \in Nat,
         issue_shares(h, quantity, price)
  PROVE  PrecisionTypeOK' /\ Drifts
<1> DEFINE lines == IssueLines(quantity, price, par_value)
<1>1. PICK amount \in Int : amount = quantity * price
  OBVIOUS
<1>2. PICK row : row = MovementRow("issue", h, quantity, price)
  OBVIOUS
<1>3. par_value \in Int /\ quantity * par_value \in Int
  BY DEF PrecisionTypeOK
<1>4. /\ \A a \in Account : Net(lines, a) \in Int
      /\ Net(lines, "bank") = amount /\ Net(lines, "share_capital") = - (quantity * par_value)
      /\ Net(lines, "dividend_payable") = 0
  <2>1. \A a \in Account :
          Net(lines, a) = IF a = "bank" THEN amount
                          ELSE IF a = "share_capital" THEN - (quantity * par_value)
                          ELSE IF a = "share_premium" /\ amount > quantity * par_value
                                 THEN - (amount - quantity * par_value) ELSE 0
    BY <1>1, <1>3, IssueNets
  <2> HIDE DEF lines
  <2>2. QED BY <1>3, <2>1 DEF Account
<1>5. /\ balance' = After(balance, lines) /\ dividends' = dividends
      /\ par_value' = par_value
  BY DEF issue_shares, Verb
<1>6. CASE orphaned' = After(orphaned, lines) /\ register' = register
  <2> HIDE DEF lines
  <2>1. QED BY <1>4, <1>5, <1>6, OrphanDrifts
<1>7. CASE orphaned' = orphaned /\ register' = Append(register, row)
  <2>1. PICK r \in Int : r = Rounded(quantity, ShareUnit)
    BY Units, RoundedIs
  <2>2. PICK s \in Int : s = Rounded(amount, MoneyUnit)
    BY Units, RoundedIs
  <2>3. row \in Row /\ Adds(row) = r /\ Says(row) = s
    BY <1>1, <1>2, <2>1, <2>2, MovementRowIs
  <2>4. Small(amount - s, MoneyUnit) /\ Small(quantity - r, ShareUnit)
    BY <2>1, <2>2, Units, RoundingIsSmall
  <2>5. - (- (quantity * par_value)) - par_value * r = par_value * (quantity - r) /\ quantity - r \in Int
    BY <1>3
  <2> HIDE DEF lines
  <2>6. QED BY <1>4, <1>5, <1>7, <2>3, <2>4, <2>5, RecordDrifts
<1>8. QED BY <1>1, <1>2, <1>6, <1>7 DEF issue_shares

\* A buyback.
LEMMA BuybackDrifts ==
  ASSUME PrecisionTypeOK, NEW h \in Holder, NEW quantity \in Int, NEW price \in Nat,
         buyback_shares(h, quantity, price)
  PROVE  PrecisionTypeOK' /\ Drifts
<1> DEFINE lines == BuybackLines(quantity, price, par_value)
<1>1. PICK amount \in Int : amount = quantity * price
  OBVIOUS
<1>2. PICK row : row = MovementRow("buyback", h, quantity, price)
  OBVIOUS
<1>3. par_value \in Int /\ quantity * par_value \in Int
  BY DEF PrecisionTypeOK
<1>4. /\ \A a \in Account : Net(lines, a) \in Int
      /\ Net(lines, "bank") = - amount /\ Net(lines, "share_capital") = quantity * par_value
      /\ Net(lines, "dividend_payable") = 0
  <2>1. \A a \in Account :
          Net(lines, a) = IF a = "bank" THEN - amount
                          ELSE IF a = "share_capital" THEN quantity * par_value
                          ELSE IF a = "retained_earnings" THEN amount - quantity * par_value ELSE 0
    BY <1>1, <1>3, BuybackNets
  <2> HIDE DEF lines
  <2>2. QED BY <1>3, <2>1 DEF Account
<1>5. /\ balance' = After(balance, lines) /\ dividends' = dividends
      /\ orphaned' = orphaned /\ register' = Append(register, row)
      /\ par_value' = par_value
  BY <1>1, <1>2 DEF buyback_shares, Verb
<1>6. PICK r \in Int : r = Rounded(quantity, ShareUnit)
  BY Units, RoundedIs
<1>7. PICK s \in Int : s = Rounded(amount, MoneyUnit)
  BY Units, RoundedIs
<1>8. row \in Row /\ Adds(row) = - r /\ Says(row) = - s
  BY <1>1, <1>2, <1>6, <1>7, MovementRowIs
<1>9. Small(Net(lines, "bank") - Says(row), MoneyUnit) /\ Small(r - quantity, ShareUnit)
  <2>1. Small(s - amount, MoneyUnit) /\ Small(r - quantity, ShareUnit)
    BY <1>6, <1>7, Units, RoundingIsSmall
  <2>2. Net(lines, "bank") - Says(row) = s - amount
    BY <1>4, <1>8
  <2>3. QED BY <2>1, <2>2
<1>10. - (quantity * par_value) - par_value * (- r) = par_value * (r - quantity) /\ r - quantity \in Int
  BY <1>3
<1> HIDE DEF lines
<1>11. QED BY <1>4, <1>5, <1>8, <1>9, <1>10, RecordDrifts

\* A transfer, which books nothing.
LEMMA TransferDrifts ==
  ASSUME PrecisionTypeOK, NEW g \in Holder, NEW h \in Holder, NEW quantity \in Int,
         transfer_shares(g, h, quantity)
  PROVE  PrecisionTypeOK' /\ Drifts
<1>1. PICK out : out = MovementRow("transfer_out", g, quantity, 0)
  OBVIOUS
<1>2. PICK in : in = MovementRow("transfer_in", h, quantity, 0)
  OBVIOUS
<1>3. /\ out \in Row /\ Adds(out) = 0 /\ Says(out) = 0
      /\ in \in Row /\ Adds(in) = 0 /\ Says(in) = 0
  <2>1. quantity * 0 = 0
    OBVIOUS
  <2>2. QED BY <1>1, <1>2, <2>1, Units, MovementRowIs
<1>4. PICK once : once = Append(register, out)
  OBVIOUS
<1>5. once \in Seq(Row) /\ register' = Append(once, in)
  BY <1>1, <1>2, <1>3, <1>4 DEF transfer_shares, PrecisionTypeOK
<1>6. register' \in Seq(Row) /\ Len(register') = Len(register) + 2 /\ Len(register) \in Nat
      /\ Len(dividends) \in Nat
  BY <1>3, <1>4, <1>5 DEF PrecisionTypeOK
<1>7. /\ dividends' = dividends /\ balance' = balance /\ orphaned' = orphaned
      /\ par_value' = par_value
  BY DEF transfer_shares, Verb
<1>8. SaidBy(register') = SaidBy(register) /\ OutstandingOf(register') = OutstandingOf(register)
  <2>1. SaidBy(once) = SaidBy(register) + 0 /\ OutstandingOf(once) = OutstandingOf(register) + 0
    BY <1>3, <1>4, RowAdds DEF PrecisionTypeOK
  <2>2. /\ SaidBy(register') = SaidBy(once) + 0
        /\ OutstandingOf(register') = OutstandingOf(once) + 0
    BY <1>3, <1>5, RowAdds
  <2>3. QED BY <2>1, <2>2, NumbersAre
<1>9. Cash' = Cash /\ Owing' = Owing /\ Capital' = Capital
  BY <1>7, <1>8 DEF Cash, Owing, Capital, Booked
<1>10. PrecisionTypeOK'
  BY <1>6, <1>7 DEF PrecisionTypeOK
<1>11. QED BY <1>6, <1>7, <1>9, <1>10 DEF Drifts, CashDrifts, CapitalDrifts, OwingDrifts

\* A declaration.
LEMMA DeclareDrifts ==
  ASSUME PrecisionTypeOK, NEW rate \in Int, declare_dividend(rate)
  PROVE  PrecisionTypeOK' /\ Drifts
<1>1. outstanding \in Int
  BY SumsAre, NumbersAre
<1>2. PICK total \in Int : total = rate * outstanding
  BY <1>1
<1> DEFINE lines == DeclareLines(total)
<1>3. PICK row : row = DividendRow(rate)
  OBVIOUS
<1>4. \A a \in Account : Net(lines, a) = IF a = "retained_earnings" THEN total
                                         ELSE IF a = "dividend_payable" THEN - total ELSE 0
  BY DeclareNets
<1> HIDE DEF lines
<1>5. \A a \in Account : Net(lines, a) \in Int
  BY <1>4
<1>6. /\ balance' = After(balance, lines) /\ register' = register
      /\ par_value' = par_value
  BY <1>2 DEF declare_dividend, lines, Verb
<1>7. CASE orphaned' = After(orphaned, lines) /\ dividends' = dividends
  BY <1>5, <1>6, <1>7, OrphanDrifts
<1>8. CASE orphaned' = orphaned /\ dividends' = Append(dividends, row)
  <2>1. PICK s \in Int : s = Rounded(total, MoneyUnit)
    BY Units, RoundedIs
  <2>2. row \in Stored /\ row.total_amount = s /\ row.status = "declared"
    <3>1. Rounded(rate, ShareUnit) \in Int /\ Rounded(outstanding, ShareUnit) \in Int
      BY <1>1, Units, RoundedIs
    <3>2. QED BY <1>2, <1>3, <2>1, <3>1 DEF DividendRow, Stored
  <2>3. /\ dividends' \in Seq(Stored) /\ Len(dividends') = Len(dividends) + 1
        /\ Len(register) \in Nat
    BY <1>8, <2>2 DEF PrecisionTypeOK
  <2>4. /\ PaidOf(dividends') = PaidOf(dividends)
        /\ UnpaidOf(dividends') = UnpaidOf(dividends) + s
    <3>1. PaidBy(row) = 0 /\ UnpaidBy(row) = s
      BY <2>2 DEF PaidBy, UnpaidBy
    <3>2. /\ PaidOf(dividends') = PaidOf(dividends) + 0
          /\ UnpaidOf(dividends') = UnpaidOf(dividends) + s
      BY <1>8, <2>2, <3>1, DeclaredAdds DEF PrecisionTypeOK
    <3>3. QED BY <3>2, NumbersAre
  <2>5. /\ balance' \in [Account -> Int]
        /\ \A a \in Account : Booked(a)' = Booked(a) + Net(lines, a)
    BY <1>5, <1>6, <1>8, BookedMoves
  <2>6. {"bank", "dividend_payable", "share_capital"} \subseteq Account
    BY DEF Account
  <2>7. /\ Booked("bank")' = Booked("bank") /\ Booked("share_capital")' = Booked("share_capital")
        /\ Booked("dividend_payable")' = Booked("dividend_payable") - total
    <3>1. /\ Booked("bank")' = Booked("bank") + 0
          /\ Booked("share_capital")' = Booked("share_capital") + 0
          /\ Booked("dividend_payable")' = Booked("dividend_payable") + (- total)
      BY <1>4, <2>5, <2>6
    <3>2. QED BY <1>1, <1>2, <2>6, <3>1, NumbersAre
  <2>8. Cash' = Cash /\ Capital' = Capital
    BY <1>6, <2>4, <2>7 DEF Cash, Capital
  <2>9. Owing' = Owing + (s - total)
    BY <2>4, <2>6, <2>7, NumbersAre DEF Owing
  <2>10. Small(s - total, MoneyUnit) /\ s - total \in Int
    BY <2>1, Units, RoundingIsSmall
  <2>11. OwingDrifts
    BY <2>3, <2>9, <2>10 DEF OwingDrifts
  <2>12. PrecisionTypeOK'
    BY <1>6, <1>8, <2>3, <2>5 DEF PrecisionTypeOK
  <2>13. QED BY <1>6, <2>3, <2>8, <2>11, <2>12 DEF Drifts, CashDrifts, CapitalDrifts
<1>9. QED BY <1>2, <1>3, <1>7, <1>8 DEF declare_dividend, lines

\* A payment, which pays what the row stores.
LEMMA PayDrifts ==
  ASSUME PrecisionTypeOK, NEW d \in 1 .. Len(dividends), pay_dividend(d)
  PROVE  PrecisionTypeOK' /\ Drifts
<1>1. PICK total : total = dividends[d].total_amount
  OBVIOUS
<1>2. total \in Int
  <2>1. dividends[d] \in Stored
    BY DEF PrecisionTypeOK
  <2>2. QED BY <1>1, <2>1 DEF Stored
<1> DEFINE lines == PayLines(total)
<1>3. \A a \in Account : Net(lines, a) = IF a = "dividend_payable" THEN total
                                         ELSE IF a = "bank" THEN - total ELSE 0
  BY <1>2, PayNets
<1> HIDE DEF lines
<1>4. \A a \in Account : Net(lines, a) \in Int
  BY <1>2, <1>3
<1>5. /\ balance' = After(balance, lines) /\ register' = register /\ orphaned' = orphaned
      /\ dividends[d].status = "declared" /\ par_value' = par_value
      /\ dividends' = [dividends EXCEPT ![d].status = "paid"]
  BY <1>1 DEF pay_dividend, lines, Verb
<1>6. /\ dividends' \in Seq(Stored) /\ Len(dividends') = Len(dividends)
      /\ PaidOf(dividends') = PaidOf(dividends) + total
      /\ UnpaidOf(dividends') = UnpaidOf(dividends) - total
  BY <1>1, <1>5, PaymentMoves DEF PrecisionTypeOK
<1>7. /\ balance' \in [Account -> Int]
      /\ \A a \in Account : Booked(a)' = Booked(a) + Net(lines, a)
  BY <1>4, <1>5, BookedMoves
<1>8. {"bank", "dividend_payable", "share_capital"} \subseteq Account
  BY DEF Account
<1>9. /\ Booked("bank")' = Booked("bank") - total
      /\ Booked("share_capital")' = Booked("share_capital")
      /\ Booked("dividend_payable")' = Booked("dividend_payable") + total
  <2>1. /\ Booked("bank")' = Booked("bank") + (- total)
        /\ Booked("share_capital")' = Booked("share_capital") + 0
        /\ Booked("dividend_payable")' = Booked("dividend_payable") + total
    BY <1>3, <1>7, <1>8
  <2>2. QED BY <1>2, <1>8, <2>1, NumbersAre
<1>10. Cash' = Cash /\ Owing' = Owing
  <2>1. Cash' = (Booked("bank") - total) - (SaidBy(register) - (PaidOf(dividends) + total))
    BY <1>5, <1>6, <1>9 DEF Cash
  <2>2. Owing' = (Booked("dividend_payable") + total) + (UnpaidOf(dividends) - total)
    BY <1>6, <1>9 DEF Owing
  <2>3. /\ Booked("bank") \in Int /\ Booked("dividend_payable") \in Int
        /\ SaidBy(register) \in Int /\ PaidOf(dividends) \in Int /\ UnpaidOf(dividends) \in Int
    BY <1>8, NumbersAre
  <2>4. Cash' = Cash
    BY <1>2, <2>1, <2>3 DEF Cash
  <2>5. Owing' = Owing
    BY <1>2, <2>2, <2>3 DEF Owing
  <2>6. QED BY <2>4, <2>5
<1>11. Capital' = Capital
  BY <1>5, <1>9 DEF Capital
<1>12. PrecisionTypeOK'
  BY <1>5, <1>6, <1>7 DEF PrecisionTypeOK
<1>13. Len(register) \in Nat /\ Len(dividends) \in Nat
  BY DEF PrecisionTypeOK
<1>14. QED BY <1>5, <1>6, <1>10, <1>11, <1>12, <1>13
           DEF Drifts, CashDrifts, CapitalDrifts, OwingDrifts

-----------------------------------------------------------------------------
(* Holdings.                                                               *)

\* A holding is so many whole units, and not negative.
Whole(v) == v >= 0 /\ \E n \in Int : v = n * ShareUnit
HeldInUnits == \A h \in Holder : Whole(held(h))

\* A row that adds whole units, or takes some that are covered, keeps holdings so.
LEMMA WholeAfter ==
  ASSUME NEW rows \in Seq(Row), \A h \in Holder : Whole(HeldOf(rows, h)),
         NEW row \in Row, NEW k \in Int, row.quantity = k * ShareUnit, row.quantity > 0,
         \/ row.txn_type \in {"issue", "transfer_in"}
         \/ row.quantity <= HeldOf(rows, row.holder)
  PROVE  \A h \in Holder : Whole(HeldOf(Append(rows, row), h))
<1> SUFFICES ASSUME NEW h \in Holder PROVE Whole(HeldOf(Append(rows, row), h))
  OBVIOUS
<1>1. PICK now : now = HeldOf(rows, h)
  OBVIOUS
<1>2. PICK then : then = HeldOf(Append(rows, row), h)
  OBVIOUS
<1>3. /\ now \in Int /\ row.quantity \in Int
      /\ then = now + HeldBy(row, h)
  <2>1. row.quantity \in Int
    BY DEF Row
  <2>2. QED BY <1>1, <1>2, <2>1, RowAdds
<1>4. PICK n \in Int : now = n * ShareUnit
  BY <1>1 DEF Whole
<1>5. now >= 0
  BY <1>1 DEF Whole
<1>6. /\ n * ShareUnit + k * ShareUnit = (n + k) * ShareUnit
      /\ n * ShareUnit - k * ShareUnit = (n - k) * ShareUnit
  BY Units
<1>7. CASE row.holder # h
  <2>1. then = now
    BY <1>3, <1>7 DEF HeldBy
  <2>2. QED BY <1>1, <1>2, <2>1
<1>8. CASE row.holder = h /\ row.txn_type \in {"issue", "transfer_in"}
  <2>1. then = now + row.quantity
    BY <1>3, <1>8 DEF HeldBy
  <2>2. then = (n + k) * ShareUnit /\ n + k \in Int
    BY <1>4, <1>6, <2>1
  <2>3. then >= 0
    BY <1>3, <1>5, <2>1
  <2>4. QED BY <1>2, <2>2, <2>3 DEF Whole
<1>9. CASE row.holder = h /\ row.txn_type \notin {"issue", "transfer_in"}
  <2>1. then = now - row.quantity /\ row.quantity <= now
    BY <1>1, <1>3, <1>9 DEF HeldBy
  <2>2. then = (n - k) * ShareUnit /\ n - k \in Int
    BY <1>3, <1>4, <1>6, <2>1
  <2>3. then >= 0
    BY <1>3, <2>1
  <2>4. QED BY <1>2, <2>2, <2>3 DEF Whole
<1>10. QED BY <1>7, <1>8, <1>9

\* The bound of a removal, on the quantity as it came, covers it as it is stored.
LEMMA RemovalIsCovered ==
  ASSUME PrecisionTypeOK, HeldInUnits, NEW h \in Holder, NEW quantity \in Int,
         quantity <= held(h)
  PROVE  Rounded(quantity, ShareUnit) <= HeldOf(register, h)
<1>1. PICK n \in Int : held(h) = n * ShareUnit
  BY DEF HeldInUnits, Whole
<1>2. Rounded(quantity, ShareUnit) <= n * ShareUnit
  BY <1>1, Units, RoundedIsCovered
<1>3. QED BY <1>1, <1>2, SumsAre

\* Every verb leaves holdings whole and covered.
LEMMA HoldingsStep ==
  ASSUME PrecisionTypeOK, HeldInUnits, [PrecisionNext]_precisionVars
  PROVE  HeldInUnits'
<1>1. \A h \in Holder : Whole(HeldOf(register, h))
  BY SumsAre DEF HeldInUnits
<1>2. SUFFICES \A h \in Holder : Whole(HeldOf(register', h))
  <2>1. \A h \in Holder : held(h)' = HeldOf(register', h)
    BY DEF held, HeldOf, HeldBy
  <2>2. ASSUME \A h \in Holder : Whole(HeldOf(register', h)) PROVE HeldInUnits'
    BY <2>1, <2>2 DEF HeldInUnits, Whole
  <2>3. QED BY <2>2
<1>3. CASE register' = register
  BY <1>1, <1>3
<1>4. Quantities \subseteq Int /\ Prices \subseteq Int
  BY PrecisionAssumption
<1>5. ASSUME NEW type \in {"issue", "buyback"}, NEW h \in Holder, NEW quantity \in Int,
             NEW price \in Int, RowAccepted(quantity, price),
             type = "buyback" => quantity <= held(h),
             register' = Append(register, MovementRow(type, h, quantity, price))
      PROVE  \A g \in Holder : Whole(HeldOf(register', g))
  <2>1. PICK row : row = MovementRow(type, h, quantity, price)
    OBVIOUS
  <2>2. /\ row \in Row /\ row.txn_type = type /\ row.holder = h
        /\ row.quantity = Rounded(quantity, ShareUnit)
    <3>1. PICK amount \in Int : amount = quantity * price
      OBVIOUS
    <3>2. QED BY <2>1, <3>1, MovementRowIs
  <2>3. PICK k \in Int : row.quantity = k * ShareUnit
    BY <2>2, Units, RoundedIs
  <2>4. row.quantity > 0
    BY <1>5, <2>2 DEF RowAccepted
  <2>5. \/ row.txn_type \in {"issue", "transfer_in"}
        \/ row.quantity <= HeldOf(register, row.holder)
    BY <1>5, <2>2, RemovalIsCovered
  <2>6. \A g \in Holder : Whole(HeldOf(Append(register, row), g))
    BY <1>1, <2>2, <2>3, <2>4, <2>5, WholeAfter DEF PrecisionTypeOK
  <2>7. QED BY <1>5, <2>1, <2>6
<1>6. ASSUME NEW h \in Holder, NEW q \in Quantities, NEW p \in Prices, issue_shares(h, q, p)
      PROVE  \A g \in Holder : Whole(HeldOf(register', g))
  <2>1. q \in Int /\ p \in Int
    BY <1>4
  <2>2. \/ register' = register
        \/ /\ RowAccepted(q, p)
           /\ register' = Append(register, MovementRow("issue", h, q, p))
    BY <1>6 DEF issue_shares
  <2>3. QED BY <1>3, <1>5, <2>1, <2>2
<1>7. ASSUME NEW h \in Holder, NEW q \in Quantities, NEW p \in Prices, buyback_shares(h, q, p)
      PROVE  \A g \in Holder : Whole(HeldOf(register', g))
  <2>1. q \in Int /\ p \in Int
    BY <1>4
  <2>2. /\ RowAccepted(q, p) /\ q <= held(h)
        /\ register' = Append(register, MovementRow("buyback", h, q, p))
    BY <1>7 DEF buyback_shares
  <2>3. QED BY <1>5, <2>1, <2>2
<1>8. ASSUME NEW g \in Holder, NEW h \in Holder, NEW q \in Quantities, transfer_shares(g, h, q)
      PROVE  \A i \in Holder : Whole(HeldOf(register', i))
  <2>1. q \in Int
    BY <1>4
  <2>2. PICK out : out = MovementRow("transfer_out", g, q, 0)
    OBVIOUS
  <2>3. PICK in : in = MovementRow("transfer_in", h, q, 0)
    OBVIOUS
  <2>4. /\ out \in Row /\ out.txn_type = "transfer_out" /\ out.holder = g
        /\ out.quantity = Rounded(q, ShareUnit)
        /\ in \in Row /\ in.txn_type = "transfer_in"
        /\ in.quantity = Rounded(q, ShareUnit)
    <3>1. q * 0 = 0
      BY <2>1
    <3>2. QED BY <2>1, <2>2, <2>3, <3>1, MovementRowIs
  <2>5. PICK k \in Int : Rounded(q, ShareUnit) = k * ShareUnit
    BY <2>1, Units, RoundedIs
  <2>6. Rounded(q, ShareUnit) > 0 /\ Rounded(q, ShareUnit) <= HeldOf(register, g)
    <3>1. RowAccepted(q, 0) /\ q <= held(g)
      BY <1>8 DEF transfer_shares
    <3>2. QED BY <2>1, <3>1, RemovalIsCovered DEF RowAccepted
  <2>7. PICK once : once = Append(register, out)
    OBVIOUS
  <2>8. once \in Seq(Row) /\ register' = Append(once, in)
    BY <1>8, <2>2, <2>3, <2>4, <2>7 DEF transfer_shares, PrecisionTypeOK
  <2>9. \A i \in Holder : Whole(HeldOf(once, i))
    BY <1>1, <2>4, <2>5, <2>6, <2>7, WholeAfter DEF PrecisionTypeOK
  <2>10. QED BY <2>4, <2>5, <2>6, <2>8, <2>9, WholeAfter
<1>9. ASSUME NEW rate \in Rates, declare_dividend(rate) PROVE register' = register
  BY <1>9 DEF declare_dividend
<1>10. ASSUME NEW d \in 1 .. Len(dividends), pay_dividend(d) PROVE register' = register
  BY <1>10 DEF pay_dividend
<1>11. QED BY <1>3, <1>6, <1>7, <1>8, <1>9, <1>10 DEF PrecisionNext, precisionVars

-----------------------------------------------------------------------------
(* The ledger as a whole.                                                  *)

\* What a journal adds to all accounts together.
Together(f) == f["bank"] + f["share_capital"] + f["share_premium"]
               + f["retained_earnings"] + f["dividend_payable"]

\* What the steps may do to the ledger and to the journals without rows.
PostsBalanced(balances, then) ==
  \E lines :
    /\ \A a \in Account : Net(lines, a) \in Int
    /\ Net(lines, "bank") + Net(lines, "share_capital") + Net(lines, "share_premium")
         + Net(lines, "retained_earnings") + Net(lines, "dividend_payable") = 0
    /\ Net(lines, "share_premium") <= 0
    /\ then = After(balances, lines)

\* Every verb posts a balanced journal that takes nothing from premium, or none; and
\* what it leaves without a row brings cash and capital in.
LEMMA VerbsPost ==
  ASSUME PrecisionTypeOK, [PrecisionNext]_precisionVars
  PROVE  /\ balance' = balance \/ PostsBalanced(balance, balance')
         /\ orphaned' = orphaned \/ \E lines :
              /\ \A a \in Account : Net(lines, a) \in Int
              /\ Net(lines, "bank") >= 0 /\ Net(lines, "share_capital") <= 0
              /\ orphaned' = After(orphaned, lines)
<1> DEFINE Comes == orphaned' = orphaned \/ \E lines :
              /\ \A a \in Account : Net(lines, a) \in Int
              /\ Net(lines, "bank") >= 0 /\ Net(lines, "share_capital") <= 0
              /\ orphaned' = After(orphaned, lines)
           Posts == balance' = balance \/ PostsBalanced(balance, balance')
<1>1. Quantities \subseteq Int /\ Prices \subseteq Nat /\ Rates \subseteq Int /\ par_value \in Nat
  BY PrecisionAssumption DEF PrecisionTypeOK
<1>2. ASSUME NEW h \in Holder, NEW q \in Quantities, NEW p \in Prices, issue_shares(h, q, p)
      PROVE  Posts /\ Comes
  <2>1. PICK lines : lines = IssueLines(q, p, par_value)
    OBVIOUS
  <2>2. PICK amount \in Int : amount = q * p
    BY <1>1
  <2>3. PICK capital \in Int : capital = q * par_value
    BY <1>1
  <2>4. amount >= capital /\ capital >= 0
    <3>1. q \in Int /\ q > 0 /\ p \in Int /\ p >= par_value /\ par_value \in Int /\ par_value >= 0
      BY <1>1, <1>2 DEF issue_shares
    <3>2. q * p >= q * par_value /\ q * par_value >= 0
      BY <3>1
    <3>3. QED BY <2>2, <2>3, <3>2
  <2>5. \A a \in Account :
          Net(lines, a) = IF a = "bank" THEN amount
                          ELSE IF a = "share_capital" THEN - capital
                          ELSE IF a = "share_premium" /\ amount > capital
                                 THEN - (amount - capital) ELSE 0
    BY <1>1, <2>1, <2>2, <2>3, IssueNets
  <2>6. /\ \A a \in Account : Net(lines, a) \in Int
        /\ Net(lines, "bank") = amount /\ Net(lines, "share_capital") = - capital
        /\ Net(lines, "share_premium") = - (amount - capital)
        /\ Net(lines, "retained_earnings") = 0 /\ Net(lines, "dividend_payable") = 0
    BY <2>4, <2>5 DEF Account
  <2>7. balance' = After(balance, lines) /\ (orphaned' = orphaned \/ orphaned' = After(orphaned, lines))
    BY <1>2, <2>1 DEF issue_shares
  <2>8. PostsBalanced(balance, balance')
    BY <2>4, <2>6, <2>7 DEF PostsBalanced
  <2>9. Net(lines, "bank") >= 0 /\ Net(lines, "share_capital") <= 0
    BY <2>4, <2>6
  <2>10. QED BY <2>6, <2>7, <2>8, <2>9
<1>3. ASSUME NEW h \in Holder, NEW q \in Quantities, NEW p \in Prices, buyback_shares(h, q, p)
      PROVE  Posts /\ Comes
  <2>1. PICK lines : lines = BuybackLines(q, p, par_value)
    OBVIOUS
  <2>2. PICK amount \in Int : amount = q * p
    BY <1>1
  <2>3. PICK capital \in Int : capital = q * par_value
    BY <1>1
  <2>4. \A a \in Account :
          Net(lines, a) = IF a = "bank" THEN - amount
                          ELSE IF a = "share_capital" THEN capital
                          ELSE IF a = "retained_earnings" THEN amount - capital ELSE 0
    BY <1>1, <2>1, <2>2, <2>3, BuybackNets
  <2>5. /\ \A a \in Account : Net(lines, a) \in Int
        /\ Net(lines, "bank") = - amount /\ Net(lines, "share_capital") = capital
        /\ Net(lines, "share_premium") = 0
        /\ Net(lines, "retained_earnings") = amount - capital
        /\ Net(lines, "dividend_payable") = 0
    BY <2>4 DEF Account
  <2>6. balance' = After(balance, lines) /\ orphaned' = orphaned
    BY <1>3, <2>1 DEF buyback_shares
  <2>7. QED BY <2>5, <2>6 DEF PostsBalanced
<1>4. ASSUME NEW g \in Holder, NEW h \in Holder, NEW q \in Quantities, transfer_shares(g, h, q)
      PROVE  Posts /\ Comes
  BY <1>4 DEF transfer_shares
<1>5. ASSUME NEW rate \in Rates, declare_dividend(rate) PROVE Posts /\ Comes
  <2>1. PICK total \in Int : total = rate * outstanding
    BY <1>1, SumsAre, NumbersAre
  <2>2. PICK lines : lines = DeclareLines(total)
    OBVIOUS
  <2>3. \A a \in Account : Net(lines, a) = IF a = "retained_earnings" THEN total
                                           ELSE IF a = "dividend_payable" THEN - total ELSE 0
    BY <2>2, DeclareNets
  <2>4. /\ \A a \in Account : Net(lines, a) \in Int
        /\ Net(lines, "bank") = 0 /\ Net(lines, "share_capital") = 0
        /\ Net(lines, "share_premium") = 0 /\ Net(lines, "retained_earnings") = total
        /\ Net(lines, "dividend_payable") = - total
    BY <2>3 DEF Account
  <2>5. balance' = After(balance, lines) /\ (orphaned' = orphaned \/ orphaned' = After(orphaned, lines))
    BY <1>5, <2>1, <2>2 DEF declare_dividend
  <2>6. PostsBalanced(balance, balance')
    BY <2>4, <2>5 DEF PostsBalanced
  <2>7. QED BY <2>4, <2>5, <2>6
<1>6. ASSUME NEW d \in 1 .. Len(dividends), pay_dividend(d) PROVE Posts /\ Comes
  <2>1. dividends[d] \in Stored
    BY DEF PrecisionTypeOK
  <2>2. PICK total \in Int : total = dividends[d].total_amount
    BY <2>1 DEF Stored
  <2>3. PICK lines : lines = PayLines(total)
    OBVIOUS
  <2>4. \A a \in Account : Net(lines, a) = IF a = "dividend_payable" THEN total
                                           ELSE IF a = "bank" THEN - total ELSE 0
    BY <2>3, PayNets
  <2>5. /\ \A a \in Account : Net(lines, a) \in Int
        /\ Net(lines, "bank") = - total /\ Net(lines, "share_capital") = 0
        /\ Net(lines, "share_premium") = 0 /\ Net(lines, "retained_earnings") = 0
        /\ Net(lines, "dividend_payable") = total
    BY <2>4 DEF Account
  <2>6. balance' = After(balance, lines) /\ orphaned' = orphaned
    BY <1>6, <2>2, <2>3 DEF pay_dividend
  <2>7. QED BY <2>5, <2>6 DEF PostsBalanced
<1>7. CASE UNCHANGED precisionVars
  BY <1>7 DEF precisionVars
<1> HIDE DEF Posts, Comes
<1>8. Posts /\ Comes
  <2>1. CASE PrecisionNext
    BY <1>2, <1>3, <1>4, <1>5, <1>6, <2>1, Zenon DEF PrecisionNext
  <2>2. QED BY <1>7, <2>1 DEF Posts, Comes
<1>9. QED BY <1>8 DEF Posts, Comes

-----------------------------------------------------------------------------
(* The invariant.                                                          *)

DriftInv ==
  /\ 2 * Magnitude(Cash) <= Len(register) * MoneyUnit
  /\ 2 * Magnitude(Owing) <= Len(dividends) * MoneyUnit
  /\ 2 * Magnitude(Capital) <= Len(register) * (ShareUnit * par_value)

BooksBalance == Together(balance) = 0

PrecisionInv ==
  PrecisionTypeOK /\ DriftInv /\ HeldInUnits /\ BooksBalance /\ OrphansOnlyComeIn

\* The distances stay within half a unit a row.
LEMMA DriftStep ==
  ASSUME PrecisionTypeOK, PrecisionTypeOK', DriftInv, Drifts, par_value' = par_value
  PROVE  DriftInv'
<1>1. /\ Len(register) \in Nat /\ Len(register') \in Nat
      /\ Len(dividends) \in Nat /\ Len(dividends') \in Nat
  BY DEF PrecisionTypeOK
<1>2. /\ Cash \in Int /\ Owing \in Int /\ Capital \in Int
      /\ MoneyUnit \in Nat /\ ShareUnit \in Nat /\ par_value \in Nat
  BY NumbersAre, Units DEF PrecisionTypeOK
<1>3. ShareUnit * par_value \in Nat
  BY <1>2
<1>4. 2 * Magnitude(Cash') <= Len(register') * MoneyUnit
  <2>1. CASE Cash' = Cash /\ Len(register') >= Len(register)
    BY <1>1, <1>2, <2>1, RowsMore DEF DriftInv
  <2>2. CASE /\ Len(register') = Len(register) + 1
             /\ \E x \in Int : Small(x, MoneyUnit) /\ Cash' = Cash + x
    <3>1. PICK x \in Int : Small(x, MoneyUnit) /\ Cash' = Cash + x
      BY <2>2
    <3>2. 2 * Magnitude(Cash + x) <= (Len(register) + 1) * MoneyUnit
      BY <1>1, <1>2, <3>1, HalfUnitMore DEF DriftInv, Small
    <3>3. QED BY <2>2, <3>1, <3>2
  <2>3. QED BY <2>1, <2>2 DEF Drifts, CashDrifts
<1>5. 2 * Magnitude(Owing') <= Len(dividends') * MoneyUnit
  <2>1. CASE Owing' = Owing /\ Len(dividends') >= Len(dividends)
    BY <1>1, <1>2, <2>1, RowsMore DEF DriftInv
  <2>2. CASE /\ Len(dividends') = Len(dividends) + 1
             /\ \E x \in Int : Small(x, MoneyUnit) /\ Owing' = Owing + x
    <3>1. PICK x \in Int : Small(x, MoneyUnit) /\ Owing' = Owing + x
      BY <2>2
    <3>2. 2 * Magnitude(Owing + x) <= (Len(dividends) + 1) * MoneyUnit
      BY <1>1, <1>2, <3>1, HalfUnitMore DEF DriftInv, Small
    <3>3. QED BY <2>2, <3>1, <3>2
  <2>3. QED BY <2>1, <2>2 DEF Drifts, OwingDrifts
<1>6. 2 * Magnitude(Capital') <= Len(register') * (ShareUnit * par_value)
  <2>1. CASE Capital' = Capital /\ Len(register') >= Len(register)
    BY <1>1, <1>2, <1>3, <2>1, RowsMore DEF DriftInv
  <2>2. CASE /\ Len(register') = Len(register) + 1
             /\ \E x \in Int : Small(x, ShareUnit) /\ Capital' = Capital + par_value * x
    <3>1. PICK x \in Int : Small(x, ShareUnit) /\ Capital' = Capital + par_value * x
      BY <2>2
    <3>2. PICK y \in Int : y = par_value * x
      BY <1>2
    <3>3. 2 * y <= ShareUnit * par_value /\ - (ShareUnit * par_value) <= 2 * y
      <4>1. par_value * (2 * x) <= par_value * ShareUnit /\ par_value * (- ShareUnit) <= par_value * (2 * x)
        BY <1>2, <3>1 DEF Small
      <4>2. /\ par_value * (2 * x) = 2 * y /\ par_value * ShareUnit = ShareUnit * par_value
            /\ par_value * (- ShareUnit) = - (ShareUnit * par_value)
        BY <1>2, <3>2
      <4>3. QED BY <4>1, <4>2
    <3>4. 2 * Magnitude(Capital + y) <= (Len(register) + 1) * (ShareUnit * par_value)
      BY <1>1, <1>2, <1>3, <3>3, HalfUnitMore DEF DriftInv
    <3>5. QED BY <2>2, <3>1, <3>2, <3>4
  <2>3. QED BY <2>1, <2>2 DEF Drifts, CapitalDrifts
<1>7. QED BY <1>4, <1>5, <1>6 DEF DriftInv

\* No verb moves the par value.
LEMMA ParValueStays ==
  ASSUME [PrecisionNext]_precisionVars
  PROVE  par_value' = par_value
BY DEF PrecisionNext, precisionVars, Verb, issue_shares, buyback_shares, transfer_shares,
       declare_dividend, pay_dividend

\* Every step drifts, and leaves the state typed.
LEMMA StepDrifts ==
  ASSUME PrecisionTypeOK, [PrecisionNext]_precisionVars
  PROVE  PrecisionTypeOK' /\ Drifts
<1>1. CASE UNCHANGED precisionVars
  <2>1. /\ register' = register /\ dividends' = dividends
        /\ balance' = balance /\ orphaned' = orphaned /\ par_value' = par_value
    BY <1>1 DEF precisionVars
  <2>2. Len(register) \in Nat /\ Len(dividends) \in Nat
    BY DEF PrecisionTypeOK
  <2>3. Cash' = Cash /\ Owing' = Owing /\ Capital' = Capital
    BY <2>1 DEF Cash, Owing, Capital, Booked
  <2>4. PrecisionTypeOK'
    BY <2>1 DEF PrecisionTypeOK
  <2>5. QED BY <2>1, <2>2, <2>3, <2>4 DEF Drifts, CashDrifts, CapitalDrifts, OwingDrifts
<1>2. Quantities \subseteq Int /\ Prices \subseteq Nat /\ Rates \subseteq Int
  BY PrecisionAssumption
<1>3. CASE PrecisionNext
  BY <1>2, <1>3, IssueDrifts, BuybackDrifts, TransferDrifts, DeclareDrifts, PayDrifts
     DEF PrecisionNext
<1>4. QED BY <1>1, <1>3

\* The ledger stays in balance, and what has no row has come in.
LEMMA BooksStep ==
  ASSUME PrecisionTypeOK, BooksBalance, OrphansOnlyComeIn, [PrecisionNext]_precisionVars
  PROVE  BooksBalance' /\ OrphansOnlyComeIn'
<1>1. {"bank", "share_capital", "share_premium", "retained_earnings",
       "dividend_payable"} \subseteq Account
  BY DEF Account
<1>2. BooksBalance'
  <2>1. CASE balance' = balance
    BY <2>1 DEF BooksBalance, Together
  <2>2. CASE PostsBalanced(balance, balance')
    <3>1. PICK lines :
            /\ \A a \in Account : Net(lines, a) \in Int
            /\ Net(lines, "bank") + Net(lines, "share_capital") + Net(lines, "share_premium")
                 + Net(lines, "retained_earnings") + Net(lines, "dividend_payable") = 0
            /\ balance' = After(balance, lines)
      BY <2>2 DEF PostsBalanced
    <3>2. \A a \in Account : balance'[a] = balance[a] + Net(lines, a)
      BY <3>1, AfterIs DEF PrecisionTypeOK
    <3>3. \A a \in Account : balance[a] \in Int
      BY DEF PrecisionTypeOK
    <3>4. QED BY <1>1, <3>1, <3>2, <3>3 DEF BooksBalance, Together
  <2>3. QED BY <2>1, <2>2, VerbsPost
<1>3. OrphansOnlyComeIn'
  <2>1. CASE orphaned' = orphaned
    BY <2>1 DEF OrphansOnlyComeIn
  <2>2. CASE orphaned' # orphaned
    <3>1. PICK lines :
            /\ \A a \in Account : Net(lines, a) \in Int
            /\ Net(lines, "bank") >= 0 /\ Net(lines, "share_capital") <= 0
            /\ orphaned' = After(orphaned, lines)
      BY <2>2, VerbsPost
    <3>2. \A a \in Account : orphaned'[a] = orphaned[a] + Net(lines, a)
      BY <3>1, AfterIs DEF PrecisionTypeOK
    <3>3. \A a \in Account : orphaned[a] \in Int
      BY DEF PrecisionTypeOK
    <3>4. QED BY <1>1, <3>1, <3>2, <3>3 DEF OrphansOnlyComeIn
  <2>3. QED BY <2>1, <2>2
<1>4. QED BY <1>2, <1>3

\* The invariant holds of empty tables.
LEMMA PrecisionInvInit ==
  ASSUME PrecisionInit
  PROVE  PrecisionInv
<1>1. /\ register = << >> /\ dividends = << >>
      /\ balance = [a \in Account |-> 0] /\ orphaned = [a \in Account |-> 0]
      /\ par_value \in Nat
  BY PrecisionAssumption DEF PrecisionInit
<1>2. PrecisionTypeOK
  BY <1>1 DEF PrecisionTypeOK
<1>3. /\ \A h : HeldOf(<< >>, h) = 0
      /\ OutstandingOf(<< >>) = 0 /\ SaidBy(<< >>) = 0
      /\ PaidOf(<< >>) = 0 /\ UnpaidOf(<< >>) = 0
  <2>1. /\ \A h : [i \in 1 .. Len(<< >>) |-> HeldBy(<< >>[i], h)] = << >>
        /\ [i \in 1 .. Len(<< >>) |-> Adds(<< >>[i])] = << >>
        /\ [i \in 1 .. Len(<< >>) |-> Says(<< >>[i])] = << >>
        /\ [i \in 1 .. Len(<< >>) |-> PaidBy(<< >>[i])] = << >>
        /\ [i \in 1 .. Len(<< >>) |-> UnpaidBy(<< >>[i])] = << >>
    OBVIOUS
  <2>2. QED BY <2>1, SumSeqEmpty DEF HeldOf, OutstandingOf, SaidBy, PaidOf, UnpaidOf
<1>4. /\ \A a \in Account : balance[a] = 0 /\ orphaned[a] = 0 /\ Booked(a) = 0
      /\ {"bank", "share_capital", "share_premium", "retained_earnings",
          "dividend_payable"} \subseteq Account
  BY <1>1 DEF Booked, Account
<1>5. Cash = 0 /\ Owing = 0 /\ Capital = 0
  <2>1. par_value * 0 = 0
    BY <1>1
  <2>2. QED BY <1>1, <1>3, <1>4, <2>1 DEF Cash, Owing, Capital
<1>6. DriftInv
  <2>1. Magnitude(0) = 0 /\ Len(register) = 0 /\ Len(dividends) = 0
    BY <1>1 DEF Magnitude
  <2>2. MoneyUnit \in Nat /\ ShareUnit * par_value \in Nat
    BY <1>1, Units
  <2>3. 0 * MoneyUnit = 0 /\ 0 * (ShareUnit * par_value) = 0
    BY <2>2
  <2>4. QED BY <1>5, <2>1, <2>3 DEF DriftInv
<1>7. HeldInUnits
  <2>1. 0 = 0 * ShareUnit
    BY Units
  <2>2. QED BY <1>1, <1>3, <2>1, SumsAre DEF HeldInUnits, Whole
<1>8. BooksBalance /\ OrphansOnlyComeIn
  BY <1>4 DEF BooksBalance, Together, OrphansOnlyComeIn
<1>9. QED BY <1>2, <1>6, <1>7, <1>8 DEF PrecisionInv

\* Every verb keeps it.
LEMMA PrecisionInvStep ==
  ASSUME PrecisionInv, [PrecisionNext]_precisionVars
  PROVE  PrecisionInv'
BY StepDrifts, ParValueStays, DriftStep, HoldingsStep, BooksStep DEF PrecisionInv

LEMMA PrecisionInvariant == PrecisionSpec => []PrecisionInv
BY PrecisionInvInit, PrecisionInvStep, PTL DEF PrecisionSpec

-----------------------------------------------------------------------------
(* The theorems.                                                           *)

\* Rounding never overdraws a holding, whatever the digits of the quantities that
\* are issued, transferred and bought back.
THEOREM RoundingIsCovered == PrecisionSpec => []RoundingNeverOverdraws
<1>1. PrecisionInv => RoundingNeverOverdraws
  BY DEF PrecisionInv, HeldInUnits, Whole, RoundingNeverOverdraws
<1>2. QED BY <1>1, PrecisionInvariant, PTL

\* The bank differs from what the rows say by at most half a unit a row, however
\* many movements and dividends there were.
THEOREM CashFollowsTheRows == PrecisionSpec => []RowsFollowTheCash
<1>1. PrecisionInv => RowsFollowTheCash
  <2> SUFFICES ASSUME PrecisionInv PROVE RowsFollowTheCash
    OBVIOUS
  <2>1. /\ SaidBy(register) =
             SumSeq([i \in 1 .. Len(register) |->
               CASE register[i].txn_type = "issue"   -> register[i].amount
                 [] register[i].txn_type = "buyback" -> - register[i].amount
                 [] OTHER                            -> 0])
        /\ PaidOf(dividends) =
             SumSeq([i \in 1 .. Len(dividends) |->
               IF dividends[i].status = "paid" THEN dividends[i].total_amount ELSE 0])
    BY DEF SaidBy, Says, PaidOf, PaidBy
  <2>2. Cash = balance["bank"] - orphaned["bank"] - (SaidBy(register) - PaidOf(dividends))
    BY DEF Cash, Booked
  <2>3. 2 * Magnitude(Cash) <= Len(register) * MoneyUnit
    BY DEF PrecisionInv, DriftInv
  <2>4. QED BY <2>1, <2>2, <2>3, Zenon DEF RowsFollowTheCash
<1>2. QED BY <1>1, PrecisionInvariant, PTL

\* Paying what the rows store leaves at most half a unit a dividend on the payable
\* that was booked from the exact totals.
THEOREM ResidualIsSmall == PrecisionSpec => []PayableResidualIsSmall
<1>1. PrecisionInv => PayableResidualIsSmall
  <2> SUFFICES ASSUME PrecisionInv, \A d \in 1 .. Len(dividends) : dividends[d].status = "paid"
               PROVE  2 * Magnitude(balance["dividend_payable"] - orphaned["dividend_payable"])
                        <= Len(dividends) * MoneyUnit
    BY DEF PayableResidualIsSmall
  <2>1. UnpaidOf(dividends) = 0
    BY NothingOwed DEF PrecisionInv, PrecisionTypeOK
  <2>2. "dividend_payable" \in Account /\ Booked("dividend_payable") \in Int
    BY NumbersAre DEF PrecisionInv, Account
  <2>3. Owing = balance["dividend_payable"] - orphaned["dividend_payable"]
    BY <2>1, <2>2 DEF Owing, Booked
  <2>4. QED BY <2>3 DEF PrecisionInv, DriftInv
<1>2. QED BY <1>1, PrecisionInvariant, PTL

\* No capital is retired and nothing paid out by a journal whose row was refused.
THEOREM OrphansComeIn == PrecisionSpec => []OrphansOnlyComeIn
<1>1. PrecisionInv => OrphansOnlyComeIn
  BY DEF PrecisionInv
<1>2. QED BY <1>1, PrecisionInvariant, PTL

\* Capital is the par value of the shares outstanding, but for half a share unit at
\* par a movement.
THEOREM CapitalIsAtPar == PrecisionSpec => []CapitalFollowsTheShares
<1>1. PrecisionInv => CapitalFollowsTheShares
  <2> SUFFICES ASSUME PrecisionInv PROVE CapitalFollowsTheShares
    OBVIOUS
  <2>1. Capital = - (balance["share_capital"] - orphaned["share_capital"]) - par_value * outstanding
    BY SumsAre DEF Capital, Booked
  <2>2. Len(register) * (ShareUnit * par_value) = Len(register) * ShareUnit * par_value
    <3>1. Len(register) \in Nat /\ ShareUnit \in Nat /\ par_value \in Nat
      BY Units DEF PrecisionInv, PrecisionTypeOK
    <3>2. QED BY <3>1
  <2>3. QED BY <2>1, <2>2 DEF PrecisionInv, DriftInv, CapitalFollowsTheShares
<1>2. QED BY <1>1, PrecisionInvariant, PTL

\* The ledger is in balance whatever the verbs, the prices and the digits.
THEOREM LedgerStaysBalanced == PrecisionSpec => []NothingIsUnbalanced
<1>1. PrecisionInv => NothingIsUnbalanced
  <2> SUFFICES ASSUME PrecisionInv PROVE NothingIsUnbalanced
    OBVIOUS
  <2>1. \A a \in Account : balance[a] \in Int
    BY DEF PrecisionInv, PrecisionTypeOK
  <2> DEFINE S1 == {"bank"}
             S2 == S1 \cup {"share_capital"}
             S3 == S2 \cup {"share_premium"}
             S4 == S3 \cup {"retained_earnings"}
             S5 == S4 \cup {"dividend_payable"}
  <2>2. /\ IsFiniteSet({}) /\ IsFiniteSet(S1) /\ IsFiniteSet(S2)
        /\ IsFiniteSet(S3) /\ IsFiniteSet(S4)
    <3>1. IsFiniteSet({}) /\ IsFiniteSet(S1)
      BY FS_EmptySet, FS_Singleton
    <3> HIDE DEF S1
    <3>2. IsFiniteSet(S2)
      BY <3>1, FS_AddElement
    <3> HIDE DEF S2
    <3>3. IsFiniteSet(S3)
      BY <3>2, FS_AddElement
    <3> HIDE DEF S3
    <3>4. IsFiniteSet(S4)
      BY <3>3, FS_AddElement
    <3>5. QED BY <3>1, <3>2, <3>3, <3>4
  <2>3. S5 = Account /\ S1 = {} \cup {"bank"}
        /\ "share_capital" \notin S1 /\ "share_premium" \notin S2
        /\ "retained_earnings" \notin S3 /\ "dividend_payable" \notin S4
    BY DEF Account
  <2>4. /\ S1 \subseteq Account /\ S2 \subseteq Account /\ S3 \subseteq Account
        /\ S4 \subseteq Account /\ "bank" \in Account /\ "share_capital" \in Account
        /\ "share_premium" \in Account /\ "retained_earnings" \in Account
        /\ "dividend_payable" \in Account
    BY DEF Account
  <2>5. SetSum(balance, {}) = 0
    BY SetSumEmpty
  <2>6. SetSum(balance, S1) = 0 + balance["bank"]
    <3>1. SetSum(balance, {} \cup {"bank"}) = SetSum(balance, {}) + balance["bank"]
      BY <2>1, <2>2, <2>4, SetSumAdd
    <3>2. QED BY <2>3, <2>5, <3>1
  <2> HIDE DEF S1
  <2>7. SetSum(balance, S2) = SetSum(balance, S1) + balance["share_capital"]
    BY <2>1, <2>2, <2>3, <2>4, SetSumAdd
  <2> HIDE DEF S2
  <2>8. SetSum(balance, S3) = SetSum(balance, S2) + balance["share_premium"]
    BY <2>1, <2>2, <2>3, <2>4, SetSumAdd
  <2> HIDE DEF S3
  <2>9. SetSum(balance, S4) = SetSum(balance, S3) + balance["retained_earnings"]
    BY <2>1, <2>2, <2>3, <2>4, SetSumAdd
  <2> HIDE DEF S4
  <2>10. SetSum(balance, S5) = SetSum(balance, S4) + balance["dividend_payable"]
    BY <2>1, <2>2, <2>3, <2>4, SetSumAdd
  <2> HIDE DEF S5
  <2>11. SetSum(balance, Account) = Together(balance)
    BY <2>1, <2>3, <2>4, <2>6, <2>7, <2>8, <2>9, <2>10 DEF Together
  <2>12. SetSum(balance, Account) = 0
    BY <2>11 DEF PrecisionInv, BooksBalance
  <2>13. QED BY <2>12, Zenon DEF NothingIsUnbalanced, SetSum
<1>2. QED BY <1>1, PrecisionInvariant, PTL

\* No step takes from premium what an issue brought in: a buyback under or over par
\* is settled against retained earnings.
THEOREM PremiumStays == PrecisionSpec => PremiumIsKept
<1>1. PrecisionInv /\ [PrecisionNext]_precisionVars =>
        [balance'["share_premium"] <= balance["share_premium"]]_precisionVars
  <2> SUFFICES ASSUME PrecisionInv, [PrecisionNext]_precisionVars
               PROVE  balance'["share_premium"] <= balance["share_premium"]
    OBVIOUS
  <2>1. /\ "share_premium" \in Account /\ balance["share_premium"] \in Int
        /\ balance \in [Account -> Int] /\ PrecisionTypeOK
    BY DEF PrecisionInv, PrecisionTypeOK, Account
  <2>2. CASE balance' = balance
    BY <2>1, <2>2
  <2>3. CASE PostsBalanced(balance, balance')
    <3>1. PICK lines : /\ \A a \in Account : Net(lines, a) \in Int
                       /\ Net(lines, "share_premium") <= 0
                       /\ balance' = After(balance, lines)
      BY <2>3 DEF PostsBalanced
    <3>2. balance'["share_premium"] = balance["share_premium"] + Net(lines, "share_premium")
      BY <2>1, <3>1, AfterIs
    <3>3. QED BY <2>1, <3>1, <3>2
  <2>4. QED BY <2>1, <2>2, <2>3, VerbsPost
<1>2. QED BY <1>1, PrecisionInvariant, PTL DEF PrecisionSpec, PremiumIsKept

=============================================================================
