------------------------------ MODULE EquityGl ------------------------------
(***************************************************************************)
(* The journals equity emits (equity_gl.rs and the line lists of the four  *)
(* money verbs).  An account is named by its role: the class's capital and *)
(* premium accounts, and the bank, retained-earnings and payable accounts  *)
(* the caller passes in.  Amounts are integers: Decimal arithmetic is      *)
(* exact, and what the database columns round is in EquityPrecision.       *)
(***************************************************************************)
EXTENDS Sums

Account == {"bank", "share_capital", "share_premium", "retained_earnings",
            "dividend_payable"}

GlPostLine == [account: Account, debit: Int, credit: Int]

Debit(account, amount)  == [account |-> account, debit |-> amount, credit |-> 0]
Credit(account, amount) == [account |-> account, debit |-> 0, credit |-> amount]

\* Dr Bank, Cr Share Capital at par, Cr Share Premium if there is an excess.
IssueLines(quantity, price, par) ==
  LET amount  == quantity * price
      capital == quantity * par
      premium == amount - capital
      posted  == << Debit("bank", amount), Credit("share_capital", capital) >>
  IN  IF premium > 0 THEN Append(posted, Credit("share_premium", premium))
                     ELSE posted

\* Mutant: capital is retired at the price paid.
BuybackLinesAtPrice(quantity, price, par) ==
  << Debit("share_capital", quantity * price), Credit("bank", quantity * price) >>

\* Mutant: a discount is not booked.
BuybackLinesNoDiscount(quantity, price, par) ==
  IF price > par
    THEN << Debit("share_capital", quantity * par),
            Debit("retained_earnings", quantity * (price - par)),
            Credit("bank", quantity * price) >>
    ELSE << Debit("share_capital", quantity * par), Credit("bank", quantity * price) >>

\* Mutant: the excess is taken from premium.
BuybackLinesFromPremium(quantity, price, par) ==
  << Debit("share_capital", quantity * par),
     Debit("share_premium", quantity * (price - par)),
     Credit("bank", quantity * price) >>

\* Dr Share Capital at par, Dr or Cr Retained Earnings for the difference, Cr Bank.
BuybackLines(quantity, price, par) ==
  LET amount  == quantity * price
      capital == quantity * par
      excess  == amount - capital
      retired == << Debit("share_capital", capital) >>
      settled == IF excess > 0
                   THEN Append(retired, Debit("retained_earnings", excess))
                   ELSE IF excess < 0
                          THEN Append(retired, Credit("retained_earnings", -excess))
                          ELSE retired
  IN  Append(settled, Credit("bank", amount))

DeclareLines(total) ==
  << Debit("retained_earnings", total), Credit("dividend_payable", total) >>

\* Dr Dividend Payable, Cr Bank.
PayLines(total) ==
  << Debit("dividend_payable", total), Credit("bank", total) >>

TotalDebit(lines)  == SumSeq([i \in 1 .. Len(lines) |-> lines[i].debit])
TotalCredit(lines) == SumSeq([i \in 1 .. Len(lines) |-> lines[i].credit])

IsBalanced(lines) == TotalDebit(lines) = TotalCredit(lines) /\ lines # << >>

\* What a journal adds to the balance (debit minus credit) of an account.
Net(lines, account) ==
  SumSeq([i \in 1 .. Len(lines) |->
            IF lines[i].account = account
              THEN lines[i].debit - lines[i].credit ELSE 0])
=============================================================================
