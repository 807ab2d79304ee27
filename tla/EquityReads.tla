------------------------------ MODULE EquityReads ------------------------------
(***************************************************************************)
(* The cap-table reads, running beside the write service: holdings and     *)
(* dividend_allocations.  Each is several statements on the pool, outside  *)
(* any transaction, between which movements commit.                        *)
(***************************************************************************)
EXTENDS EquityDividend

CONSTANTS
  Reader,     \* the reads clients make
  Reads,      \* Reads[r]: the reads r may be
  DecimalOne  \* one, in the last digits of a Decimal that is less than one

HoldingsRead    == [read: {"holdings"}, class: ShareClass]
AllocationsRead == [read: {"allocations"}, dividend: Call]

ASSUME ReadsAssumption == Reads \in [Reader -> SUBSET (HoldingsRead \cup AllocationsRead)]

\* A Decimal keeps a quotient to 28 digits: one is 10^28 of them.
ASSUME DecimalAssumption == DecimalOne \in Nat \ {0}

VARIABLES
  rpc,        \* rpc[r]: the statement read r is at
  read,       \* read[r]: what is read
  basis,      \* basis[r]: the class, and the rate of an allocation
  positions,  \* positions[r]: the positions the grouped sum returned
  answer,     \* answer[r]: what the read returned
  cut         \* cut[r]: how many rows were committed at each statement

readVars == << rpc, read, basis, positions, answer, cut >>

-----------------------------------------------------------------------------
\* Mutant: only the rows that add shares are summed.
holdings_inbound(rows, c) ==
  LET qty(h) == SumSeq([i \in 1 .. Len(rows) |->
                   IF Signed(rows[i], c, h) > 0 THEN Signed(rows[i], c, h) ELSE 0])
  IN  [h \in {g \in Shareholder : qty(g) # 0} |-> qty(h)]

\* Every holder's non-zero position in a class, in one statement.
holdings(rows, c) ==
  [h \in {g \in Shareholder : holding(rows, c, g) # 0} |-> holding(rows, c, h)]

\* A holder's share of a class in per cent, in last digits of a Decimal: the
\* quotient is rounded to its last digit, and then taken a hundred times.  (A tie
\* is rounded up here; the other way it would be as far off.)
ownership_pct(quantity, shares) ==
  IF shares > 0 THEN 100 * ((2 * quantity * DecimalOne + shares) \div (2 * shares))
                ELSE 0

HoldingsAnswer(held, shares) ==
  {[shareholder |-> h, quantity |-> held[h],
    ownership_pct |-> ownership_pct(held[h], shares)] : h \in DOMAIN held}

AllocationsAnswer(held, per_share) ==
  {[shareholder |-> h, quantity |-> held[h], amount |-> per_share * held[h]] :
     h \in {g \in DOMAIN held : held[g] > 0}}

-----------------------------------------------------------------------------
begin_read(r) ==
  /\ rpc[r] = "idle"
  /\ \E q \in Reads[r] :
       /\ read' = [read EXCEPT ![r] = q]
       /\ IF q.read = "holdings"
            THEN /\ rpc' = [rpc EXCEPT ![r] = "positions"]
                 /\ basis' = [basis EXCEPT ![r] = [class |-> q.class, per_share |-> 0]]
            ELSE rpc' = [rpc EXCEPT ![r] = "basis"] /\ UNCHANGED basis
  /\ UNCHANGED << positions, answer, cut >>

fetch_allocation_basis(r) ==
  LET row == dividends[read[r].dividend] IN
  /\ rpc[r] = "basis"
  /\ \/ /\ row.status # "absent"
        /\ basis' = [basis EXCEPT ![r] = [class |-> row.class, per_share |-> row.per_share]]
        /\ rpc' = [rpc EXCEPT ![r] = "positions"]
     \/ /\ row.status = "absent"
        /\ rpc' = [rpc EXCEPT ![r] = "not_found"]
        /\ UNCHANGED basis
  /\ UNCHANGED << read, positions, answer, cut >>

read_positions(r) ==
  /\ rpc[r] = "positions"
  /\ positions' = [positions EXCEPT ![r] = holdings(register, basis[r].class)]
  /\ cut' = [cut EXCEPT ![r].positions = Len(register)]
  /\ rpc' = [rpc EXCEPT ![r] = "outstanding"]
  /\ UNCHANGED << read, basis, answer >>

\* The second statement, after which the read computes what it returns.
read_class_outstanding(r) ==
  LET shares == shares_outstanding(register, basis[r].class) IN
  /\ rpc[r] = "outstanding"
  /\ answer' = [answer EXCEPT ![r] =
       IF read[r].read = "holdings" THEN HoldingsAnswer(positions[r], shares)
                                    ELSE AllocationsAnswer(positions[r], basis[r].per_share)]
  /\ cut' = [cut EXCEPT ![r].outstanding = Len(register)]
  /\ rpc' = [rpc EXCEPT ![r] = "done"]
  /\ UNCHANGED << read, basis, positions >>

ReadsInit ==
  /\ ServiceInit
  /\ rpc = [r \in Reader |-> "idle"]
  /\ read = [r \in Reader |-> [read |-> "none"]]
  /\ basis = [r \in Reader |-> [class |-> "none", per_share |-> 0]]
  /\ positions = [r \in Reader |-> << >>]
  /\ answer = [r \in Reader |-> {}]
  /\ cut = [r \in Reader |-> [positions |-> 0, outstanding |-> 0]]

ReadStep(r) ==
  \/ begin_read(r)
  \/ fetch_allocation_basis(r)
  \/ read_positions(r)
  \/ read_class_outstanding(r)

ReadsNext ==
  \/ ServiceNext /\ UNCHANGED readVars
  \/ \E r \in Reader : ReadStep(r) /\ UNCHANGED serviceVars

ReadsSpec == ReadsInit /\ [][ReadsNext]_<< serviceVars, readVars >>

-----------------------------------------------------------------------------
(* Properties                                                              *)

Done(r, kind) == rpc[r] = "done" /\ read[r].read = kind

\* The split of a dividend adds up to its total, whatever has moved between
\* holders since it was declared, if the class had the declared number of shares
\* outstanding when the positions were read: no holder is missed or counted
\* twice, and no transfer is seen half (equity_read.rs, "Sum of allocations ==
\* total for an unchanged register").
AllocationsAddUp ==
  \A r \in Reader : Done(r, "allocations") =>
    LET d == dividends[read[r].dividend] IN
    (shares_outstanding(At(cut[r].positions), d.class) = d.shares_outstanding)
      => MapThenSumSet(LAMBDA a : a.amount, answer[r]) = d.total_amount

\* What ownership percentages add up to: one hundred, but for a hundred times
\* half a last digit for each holder, if no issue or buyback of the class committed
\* between the two statements of the read.  Transfers that did change nothing of it.
PercentagesAddUp ==
  \A r \in Reader :
    (/\ Done(r, "holdings")
     /\ answer[r] # {}
     /\ \A i \in cut[r].positions + 1 .. cut[r].outstanding :
          Counted(register[i], read[r].class) = 0)
    => LET excess == MapThenSumSet(LAMBDA h : h.ownership_pct, answer[r])
                       - 100 * DecimalOne
           most   == 100 * Cardinality(answer[r])
       IN  2 * excess <= most /\ - 2 * excess <= most
=============================================================================
