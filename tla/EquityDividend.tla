--------------------------- MODULE EquityDividend ---------------------------
(***************************************************************************)
(* Dividends: declare_dividend and pay_dividend, and the whole write       *)
(* service, whose calls run beside one another on one register, one ledger *)
(* and one outbox.  A dividend's id is that of the call that declared it.  *)
(***************************************************************************)
EXTENDS EquityRegister

VARIABLES
  dividends,    \* the dividends table, by id
  outstanding,  \* outstanding[k]: the shares outstanding call k read
  total,        \* total[k]: the amount call k declares or pays
  asOf          \* asOf[k]: how many rows were committed when call k read the
                \* shares outstanding; only the properties look at it

dividendVars == << dividends, outstanding, total, asOf >>
serviceVars  == << registerVars, dividendVars >>

DividendRow == [status: {"declared", "paid"}, class: ShareClass, per_share: Int,
                shares_outstanding: Int, total_amount: Int]
NoDividend  == [status |-> "absent"]

DividendVerb == {"declare", "pay"}

-----------------------------------------------------------------------------
\* declare_dividend reads the shares outstanding on the pool, outside any
\* transaction, and computes the total from them.
read_outstanding(k) ==
  LET shares == shares_outstanding(register, req[k].class) IN
  /\ pc[k] = "outstanding"
  /\ \/ /\ shares > 0
        /\ outstanding' = [outstanding EXCEPT ![k] = shares]
        /\ total' = [total EXCEPT ![k] = req[k].per_share * shares]
        /\ asOf' = [asOf EXCEPT ![k] = Len(register)]
        /\ Advance(k)
        /\ UNCHANGED locks
     \/ shares <= 0 /\ Refuse(k) /\ UNCHANGED << outstanding, total, asOf >>
  /\ UNCHANGED << req, gl, clock, stamp, outbox, classes, shareholders, register,
                  par, dividends >>

\* pay_dividend reads the dividend on the pool, outside the transaction that
\* will claim it.
fetch_for_payment(k) ==
  LET row == dividends[req[k].dividend] IN
  /\ pc[k] = "fetch"
  /\ \/ /\ row.status = "declared"
        /\ total' = [total EXCEPT ![k] = row.total_amount]
        /\ Advance(k)
        /\ UNCHANGED locks
     \/ row.status # "declared" /\ Refuse(k) /\ UNCHANGED total
  /\ UNCHANGED << req, gl, clock, stamp, outbox, classes, shareholders, register,
                  par, dividends, outstanding, asOf >>

\* Mutant: the claim sets the status whatever it was.
claim_any(k) ==
  /\ pc[k] = "claim"
  /\ Free(<< req[k].dividend >>)
  /\ Lock(k, << req[k].dividend >>)
  /\ Advance(k)
  /\ UNCHANGED << req, gl, clock, stamp, outbox, classes, shareholders, register,
                  par, dividendVars >>

\* Mutant: the status is looked at without taking the row's lock.
claim_unlocked(k) ==
  /\ pc[k] = "claim"
  /\ \/ dividends[req[k].dividend].status = "declared" /\ Advance(k) /\ UNCHANGED locks
     \/ dividends[req[k].dividend].status # "declared" /\ Refuse(k)
  /\ UNCHANGED << req, gl, clock, stamp, outbox, classes, shareholders, register,
                  par, dividendVars >>

\* The compare-and-set waits for the row's lock and then looks at the row again:
\* it changes a declared dividend, under the lock until the transaction ends,
\* and no row otherwise.
claim_payment(k) ==
  LET d == req[k].dividend IN
  /\ pc[k] = "claim"
  /\ Free(<< d >>)
  /\ \/ dividends[d].status = "declared" /\ Lock(k, << d >>) /\ Advance(k)
     \/ dividends[d].status # "declared" /\ Refuse(k)
  /\ UNCHANGED << req, gl, clock, stamp, outbox, classes, shareholders, register,
                  par, dividendVars >>

\* Mutant: the payment is posted under the dividend's own id.
SourceShared(k) == IF req[k].verb = "declare" THEN Minted(k) ELSE Minted(req[k].dividend)

\* Mutant: every payment is posted under an id of its own.
SourceFresh(k) == Minted(k)

\* The journal is posted under the dividend's own id when it is declared, and
\* under an id derived from it when it is paid, whichever call pays.
Source(k) == IF req[k].verb = "declare" THEN Minted(k) ELSE Derived(req[k].dividend)

DividendLines(k) == IF req[k].verb = "declare" THEN DeclareLines(total[k])
                                               ELSE PayLines(total[k])

post_dividend(k) ==
  /\ req[k].verb \in DividendVerb
  /\ Post(k, req[k].verb, Source(k), DividendLines(k))
  /\ UNCHANGED << classes, shareholders, register, par, dividendVars >>

\* The row goes into the open transaction.  Its class is there, having shares
\* outstanding, and its amounts are positive: neither the foreign key nor the
\* CHECK refuses it.
insert_dividend(k) ==
  /\ pc[k] = "insert"
  /\ req[k].verb = "declare"
  /\ Advance(k)
  /\ UNCHANGED << req, locks, gl, clock, stamp, outbox, classes, shareholders,
                  register, par, dividendVars >>

DividendEvent(k) ==
  IF req[k].verb = "declare"
    THEN [type |-> "DividendDeclared", dividend |-> k, class |-> req[k].class,
          total |-> total[k]]
    ELSE [type |-> "DividendPaid", dividend |-> req[k].dividend, total |-> total[k]]

NewDividendRow(k) ==
  [status |-> "declared", class |-> req[k].class, per_share |-> req[k].per_share,
   shares_outstanding |-> outstanding[k], total_amount |-> total[k]]

\* Mutant: the status flip is lost.
commit_unflipped(k) ==
  /\ req[k].verb \in DividendVerb
  /\ CommitOutbox(k, DividendEvent(k))
  /\ dividends' = IF req[k].verb = "declare"
                    THEN [dividends EXCEPT ![k] = NewDividendRow(k)]
                    ELSE dividends
  /\ UNCHANGED << classes, shareholders, register, par, outstanding, total, asOf >>

commit_dividend(k) ==
  /\ req[k].verb \in DividendVerb
  /\ CommitOutbox(k, DividendEvent(k))
  /\ dividends' = IF req[k].verb = "declare"
                    THEN [dividends EXCEPT ![k] = NewDividendRow(k)]
                    ELSE [dividends EXCEPT ![req[k].dividend].status = "paid"]
  /\ UNCHANGED << classes, shareholders, register, par, outstanding, total, asOf >>

-----------------------------------------------------------------------------
ServiceInit ==
  /\ RegisterInit
  /\ dividends = [d \in Call |-> NoDividend]
  /\ outstanding = [k \in Call |-> 0]
  /\ total = [k \in Call |-> 0]
  /\ asOf = [k \in Call |-> 0]

DividendStep(k) ==
  \/ read_outstanding(k)
  \/ fetch_for_payment(k)
  \/ claim_payment(k)
  \/ post_dividend(k)
  \/ insert_dividend(k)
  \/ commit_dividend(k)

\* What the code of a call that has begun does next, whatever its verb.
ServiceStep(k) == (MovementStep(k) /\ UNCHANGED dividendVars) \/ DividendStep(k)

ServiceNext ==
  \/ RegisterNext /\ UNCHANGED dividendVars
  \/ \E k \in Call : DividendStep(k)

ServiceSpec == ServiceInit /\ [][ServiceNext]_serviceVars

-----------------------------------------------------------------------------
(* Properties                                                              *)

\* Types of the dividend verbs' state, beside TypeOK.
ServiceTypeOK ==
  /\ TypeOK
  /\ dividends \in [Call -> DividendRow \cup {NoDividend}]
  /\ outstanding \in [Call -> Int]
  /\ total \in [Call -> Int]
  /\ asOf \in [Call -> Nat]

Exists(d) == dividends[d].status # "absent"

\* The register as it was when n rows were committed.
At(n) == SubSeq(register, 1, n)

\* A dividend on the table was declared on what the holders then held, and was
\* booked: at one moment before its commit, when the call had read the register,
\* the positions of the class it names added up to its shares, whatever was
\* issued or bought back since; its total is the rate on them, and its
\* declaration's journal put exactly that total into the payable.
DeclaredIsBooked ==
  \A d \in Call : Exists(d) =>
    LET row    == dividends[d]
        shares == HeldInAll(At(asOf[d]), row.class)
    IN  /\ row.shares_outstanding = shares
        /\ row.total_amount = row.per_share * shares
        /\ \E j \in gl : /\ j.source = Minted(d) /\ j.leg = "declare"
                         /\ Net(j.lines, "dividend_payable") = - row.total_amount

\* What the journals of some legs have added to an account.
Booked(legs, account) ==
  MapThenSumSet(LAMBDA j : Net(j.lines, account), {j \in gl : j.leg \in legs})

\* The dividend payable of a settled company is zero: once every declaration
\* ended well and every dividend is paid, what was declared has been settled
\* exactly, however many payments were tried, crashed after their posting, or
\* raced (BRD BR-7, "which would leave the payable unsettled forever").
PayableSettles ==
  (/\ \A k \in Call : (req[k] # NoRequest /\ req[k].verb = "declare") =>
        (JournalsOf(k) # {} => Exists(k))
   /\ \A d \in Call : Exists(d) => dividends[d].status = "paid")
  => Booked(DividendVerb, "dividend_payable") = 0

\* Cash never leaves for more than was declared: over all dividends, the ledger
\* has remitted at most the totals on the table, even when a payment crashed
\* after its posting and another call paid again.
NeverRemitsMoreThanDeclared ==
  - Booked({"pay"}, "bank") <=
    MapThenSumSet(LAMBDA d : dividends[d].total_amount, {d \in Call : Exists(d)})

\* What was staged under an id, in the outbox.
EventsOf(type, d) ==
  {i \in 1 .. Len(outbox) : outbox[i].event.type = type /\ outbox[i].event.dividend = d}

\* The outbox says of each dividend what the table says, once: a declaration
\* event exactly if it exists, a payment event exactly if it is paid, and the
\* payment's occurred_at after the declaration's.
DividendEventsMatch ==
  \A d \in Call :
    /\ Cardinality(EventsOf("DividendDeclared", d)) = IF Exists(d) THEN 1 ELSE 0
    /\ Cardinality(EventsOf("DividendPaid", d)) =
         IF dividends[d].status = "paid" THEN 1 ELSE 0
    /\ \A i \in EventsOf("DividendDeclared", d), j \in EventsOf("DividendPaid", d) :
         outbox[i].at < outbox[j].at

\* A payment past its claim owns the dividend: no other call pays it, and the
\* dividend is still declared (equity_dividend.rs, "so a concurrent pay can't
\* double-remit").
ClaimIsExclusive ==
  \A k, i \in Call :
    LET Claimed(c) == /\ req[c] # NoRequest /\ req[c].verb = "pay"
                      /\ pc[c] \in {"post", "stage", "commit"}
    IN  /\ Claimed(k) => dividends[req[k].dividend].status = "declared"
        /\ Claimed(k) /\ Claimed(i) /\ k # i => req[k].dividend # req[i].dividend

\* The dividend verbs implement the abstract ledger, whose owed and remitted
\* amounts are read off the table and the outbox.
Owed == [d \in Call |-> IF dividends[d].status = "declared"
                          THEN dividends[d].total_amount ELSE 0]
Remitted == [d \in Call |->
               MapThenSumSet(LAMBDA i : outbox[i].event.total, EventsOf("DividendPaid", d))]
Ledger == INSTANCE DividendLedger
            WITH Dividend <- Call, owed <- Owed, remitted <- Remitted
ImplementsDividendLedger == Ledger!LedgerSpec
=============================================================================
