---------------------------- MODULE EquityPrecision ----------------------------
(***************************************************************************)
(* What the columns do to the amounts.  The verbs compute with exact       *)
(* decimals and post those; a column is NUMERIC(20,4), so that the row     *)
(* stores the nearest multiple of the column's unit, or refuses a value    *)
(* that is too large for it.  Verbs are single steps here: how their       *)
(* awaits interleave is in EquityDividend.                                 *)
(*                                                                         *)
(* A column's unit is 1/Base.  Quantities, prices and rates come one digit *)
(* finer, as integers that count 1/Base^2, and their products count        *)
(* 1/Base^4.                                                               *)
(***************************************************************************)
EXTENDS EquityGl

CONSTANTS
  Base,        \* what one digit of a fraction is worth
  MaxColumn,   \* the largest value of a column, in its units
  Holder,      \* the shareholders
  Quantities,  \* the quantities moved
  Prices,      \* the prices per share
  Rates,       \* the per-share amounts of dividends
  Pars,        \* the par values the class may have, as their column stores them
  MaxVerbs     \* bound: the verbs of one behaviour

ASSUME PrecisionAssumption ==
  /\ Base \in Nat \ {0, 1} /\ MaxColumn \in Nat /\ MaxVerbs \in Nat
  /\ Quantities \subseteq Int /\ Prices \subseteq Nat /\ Rates \subseteq Int
  /\ Pars \subseteq Nat /\ \A p \in Pars : p % Base = 0

VARIABLES
  par_value,  \* the par value of the class
  register,   \* the rows of share_transactions, as stored
  dividends,  \* the rows of dividends, as stored
  balance,    \* debits minus credits of each account, as posted
  orphaned,   \* the part of it whose row was refused
  verbs       \* how many verbs have run

precisionVars == << par_value, register, dividends, balance, orphaned, verbs >>

ShareUnit == Base                 \* a column's unit, in 1/Base^2
MoneyUnit == Base * Base * Base   \* and in 1/Base^4

-----------------------------------------------------------------------------
\* Mutant: the column cuts the digits off.
Truncated(v, unit) == (v \div unit) * unit

\* Mutant: the column always rounds up.
RoundedUp(v, unit) == ((v + unit - 1) \div unit) * unit

\* The nearest multiple of the unit, halves away from zero.
Rounded(v, unit) == ((2 * v + unit) \div (2 * unit)) * unit

Fits(v, unit) == Rounded(v, unit) <= MaxColumn * unit

\* Each of the three columns of an amount may be too small for it, and the CHECKs
\* see the rounded value: a movement of less than half a unit is one of nothing.
RowAccepted(quantity, price) ==
  /\ Rounded(quantity, ShareUnit) > 0
  /\ Fits(quantity, ShareUnit) /\ Fits(price, ShareUnit)
  /\ Fits(quantity * price, MoneyUnit)

MovementRow(type, h, quantity, price) ==
  [txn_type |-> type, holder |-> h, quantity |-> Rounded(quantity, ShareUnit),
   price_per_share |-> Rounded(price, ShareUnit),
   amount |-> Rounded(quantity * price, MoneyUnit)]

held(h) ==
  SumSeq([i \in 1 .. Len(register) |->
    IF register[i].holder # h THEN 0
    ELSE IF register[i].txn_type \in {"issue", "transfer_in"} THEN register[i].quantity
    ELSE - register[i].quantity])

outstanding ==
  SumSeq([i \in 1 .. Len(register) |->
    CASE register[i].txn_type = "issue"   -> register[i].quantity
      [] register[i].txn_type = "buyback" -> - register[i].quantity
      [] OTHER                            -> 0])

After(balances, lines) == [a \in Account |-> balances[a] + Net(lines, a)]

Verb == verbs < MaxVerbs /\ verbs' = verbs + 1 /\ UNCHANGED par_value

-----------------------------------------------------------------------------
\* The journal goes out before the row is tried.
issue_shares(h, quantity, price) ==
  LET lines == IssueLines(quantity, price, par_value) IN
  /\ Verb
  /\ quantity > 0 /\ price >= par_value
  /\ balance' = After(balance, lines)
  /\ \/ /\ RowAccepted(quantity, price)
        /\ register' = Append(register, MovementRow("issue", h, quantity, price))
        /\ UNCHANGED orphaned
     \/ /\ ~ RowAccepted(quantity, price)
        /\ orphaned' = After(orphaned, lines)
        /\ UNCHANGED register
  /\ UNCHANGED dividends

\* The bound compares the quantity as it came with the holding as it is stored.
transfer_shares(g, h, quantity) ==
  /\ Verb
  /\ quantity > 0 /\ g # h /\ quantity <= held(g)
  /\ RowAccepted(quantity, 0)
  /\ register' = register \o << MovementRow("transfer_out", g, quantity, 0),
                               MovementRow("transfer_in", h, quantity, 0) >>
  /\ UNCHANGED << dividends, balance, orphaned >>

\* Mutant: the journal goes out before the row is tried.
buyback_posted_first(h, quantity, price) ==
  LET lines == BuybackLines(quantity, price, par_value) IN
  /\ Verb
  /\ quantity > 0 /\ quantity <= held(h)
  /\ balance' = After(balance, lines)
  /\ \/ /\ RowAccepted(quantity, price)
        /\ register' = Append(register, MovementRow("buyback", h, quantity, price))
        /\ UNCHANGED orphaned
     \/ /\ ~ RowAccepted(quantity, price)
        /\ orphaned' = After(orphaned, lines)
        /\ UNCHANGED register
  /\ UNCHANGED dividends

\* Mutant: the digits the column does not have are left out of the bound.
buyback_bound_truncated(h, quantity, price) ==
  /\ Verb
  /\ quantity > 0 /\ Truncated(quantity, ShareUnit) <= held(h)
  /\ RowAccepted(quantity, price)
  /\ register' = Append(register, MovementRow("buyback", h, quantity, price))
  /\ balance' = After(balance, BuybackLines(quantity, price, par_value))
  /\ UNCHANGED << dividends, orphaned >>

\* The row is inserted before the journal goes out.
buyback_shares(h, quantity, price) ==
  /\ Verb
  /\ quantity > 0 /\ quantity <= held(h)
  /\ RowAccepted(quantity, price)
  /\ register' = Append(register, MovementRow("buyback", h, quantity, price))
  /\ balance' = After(balance, BuybackLines(quantity, price, par_value))
  /\ UNCHANGED << dividends, orphaned >>

\* So may each of a dividend's; the shares outstanding are a sum of rows, each of
\* which fitted.
DividendAccepted(rate) ==
  /\ Fits(rate, ShareUnit) /\ Fits(outstanding, ShareUnit)
  /\ Fits(rate * outstanding, MoneyUnit)

DividendRow(rate) ==
  [per_share |-> Rounded(rate, ShareUnit), shares |-> Rounded(outstanding, ShareUnit),
   total_amount |-> Rounded(rate * outstanding, MoneyUnit), status |-> "declared"]

\* The total is computed and posted from the rate as it came.
declare_dividend(rate) ==
  LET lines == DeclareLines(rate * outstanding) IN
  /\ Verb
  /\ rate > 0 /\ outstanding > 0
  /\ balance' = After(balance, lines)
  /\ \/ /\ DividendAccepted(rate)
        /\ dividends' = Append(dividends, DividendRow(rate))
        /\ UNCHANGED orphaned
     \/ /\ ~ DividendAccepted(rate)
        /\ orphaned' = After(orphaned, lines)
        /\ UNCHANGED dividends
  /\ UNCHANGED register

\* Mutant: the payment is computed anew from the stored rate.
pay_at_stored_rate(d) ==
  /\ Verb
  /\ dividends[d].status = "declared"
  /\ balance' = After(balance, PayLines(dividends[d].per_share * dividends[d].shares))
  /\ dividends' = [dividends EXCEPT ![d].status = "paid"]
  /\ UNCHANGED << register, orphaned >>

\* What is paid is the total as it is stored.
pay_dividend(d) ==
  /\ Verb
  /\ dividends[d].status = "declared"
  /\ balance' = After(balance, PayLines(dividends[d].total_amount))
  /\ dividends' = [dividends EXCEPT ![d].status = "paid"]
  /\ UNCHANGED << register, orphaned >>

PrecisionInit ==
  /\ par_value \in Pars
  /\ register = << >>
  /\ dividends = << >>
  /\ balance = [a \in Account |-> 0]
  /\ orphaned = [a \in Account |-> 0]
  /\ verbs = 0

PrecisionNext ==
  \/ \E h \in Holder, q \in Quantities, p \in Prices :
       issue_shares(h, q, p) \/ buyback_shares(h, q, p)
  \/ \E g, h \in Holder, q \in Quantities : transfer_shares(g, h, q)
  \/ \E rate \in Rates : declare_dividend(rate)
  \/ \E d \in 1 .. Len(dividends) : pay_dividend(d)

PrecisionSpec == PrecisionInit /\ [][PrecisionNext]_precisionVars

-----------------------------------------------------------------------------
(* Properties                                                              *)

Magnitude(v) == IF v < 0 THEN - v ELSE v

\* Rounding never overdraws a holding, although a removal is bounded by the
\* quantity as it came and takes away the quantity as it is stored
\* (buyback_shares, transfer_shares).
RoundingNeverOverdraws == \A h \in Holder : held(h) >= 0

\* The cash the ledger has moved and the cash the register's rows say differ by
\* at most half a unit for each row.
RowsFollowTheCash ==
  LET said == SumSeq([i \in 1 .. Len(register) |->
                 CASE register[i].txn_type = "issue"   -> register[i].amount
                   [] register[i].txn_type = "buyback" -> - register[i].amount
                   [] OTHER                            -> 0])
      paid == SumSeq([i \in 1 .. Len(dividends) |->
                 IF dividends[i].status = "paid" THEN dividends[i].total_amount ELSE 0])
  IN  2 * Magnitude(balance["bank"] - orphaned["bank"] - (said - paid))
        <= Len(register) * MoneyUnit

\* What is left on the dividend payable once every dividend is paid is at most
\* half a unit for each (pay_dividend settles the total the row stores, not the
\* one that was posted).
PayableResidualIsSmall ==
  (\A d \in 1 .. Len(dividends) : dividends[d].status = "paid") =>
    2 * Magnitude(balance["dividend_payable"] - orphaned["dividend_payable"])
      <= Len(dividends) * MoneyUnit

\* A journal without a row is an issue's or a declaration's, which go out before
\* their rows are tried: no capital is retired and nothing is paid out without a
\* row (buyback_shares inserts first).
OrphansOnlyComeIn ==
  /\ orphaned["bank"] >= 0
  /\ orphaned["share_capital"] <= 0

\* A class that holds its shares outstanding at par, less what was issued and
\* bought back in fractions: capital and par value of the shares differ by at
\* most half a share unit at par for each movement.
CapitalFollowsTheShares ==
  2 * Magnitude(- (balance["share_capital"] - orphaned["share_capital"]) - par_value * outstanding)
    <= Len(register) * ShareUnit * par_value

\* The ledger never comes out of balance, at prices under, at and over par: what
\* the verbs post, EquityWriteService::post would not refuse (equity_gl.rs, "Each
\* balances by construction").
NothingIsUnbalanced == MapThenSumSet(LAMBDA a : balance[a], Account) = 0

\* Premium is only ever earned: whatever a class is bought back for, no step takes
\* from it what an issue brought in.
PremiumIsKept == [][balance'["share_premium"] <= balance["share_premium"]]_precisionVars

=============================================================================
