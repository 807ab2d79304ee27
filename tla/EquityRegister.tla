--------------------------- MODULE EquityRegister ---------------------------
(***************************************************************************)
(* The cap table: the share classes and shareholders, the register of      *)
(* share transactions, and the three verbs that move shares.               *)
(***************************************************************************)
EXTENDS EquityWriteService

CONSTANT ParValues  \* the par values a class may be given

ASSUME ParValuesAssumption == ParValues \subseteq Int

VARIABLES
  classes,       \* the share_classes table, by id
  shareholders,  \* the ids in the shareholders table
  register,      \* the committed rows of share_transactions, in commit order
  par            \* par[k]: the par value load_class returned to call k

registerVars == << hubVars, classes, shareholders, register, par >>

MovementVerb == {"issue", "transfer", "buyback"}
Removal      == {"transfer", "buyback"}

ShareClassRow == [status: {"absent", "active", "inactive"}, par_value: Int]
TxnType == {"issue", "transfer_out", "transfer_in", "buyback"}
Row == [txn: Call, txn_type: TxnType, class: ShareClass, holder: Shareholder,
        quantity: Int, amount: Int, gl_posted: BOOLEAN]

-----------------------------------------------------------------------------
(* The two aggregation rules of the register.                              *)

Signed(row, c, h) ==
  IF row.class = c /\ row.holder = h
    THEN IF row.txn_type \in {"issue", "transfer_in"} THEN row.quantity
                                                      ELSE - row.quantity
    ELSE 0

\* Mutant: shares transferred in count as issued.
CountedTransfers(row, c) ==
  IF row.class # c THEN 0
  ELSE IF row.txn_type \in {"issue", "transfer_in"} THEN row.quantity
  ELSE IF row.txn_type = "buyback" THEN - row.quantity
  ELSE 0

\* Mutant: what was bought back still counts.
CountedIssues(row, c) ==
  IF row.class = c /\ row.txn_type = "issue" THEN row.quantity ELSE 0

Counted(row, c) ==
  IF row.class # c THEN 0
  ELSE IF row.txn_type = "issue" THEN row.quantity
  ELSE IF row.txn_type = "buyback" THEN - row.quantity
  ELSE 0

holding(rows, c, h) ==
  SumSeq([i \in 1 .. Len(rows) |-> Signed(rows[i], c, h)])

shares_outstanding(rows, c) ==
  SumSeq([i \in 1 .. Len(rows) |-> Counted(rows[i], c)])

-----------------------------------------------------------------------------
(* What a call writes: its register rows, its journal and its event.       *)

IssueRow(k) ==
  [txn |-> k, txn_type |-> "issue", class |-> req[k].class, holder |-> req[k].to,
   quantity |-> req[k].quantity, amount |-> req[k].quantity * req[k].price,
   gl_posted |-> TRUE]

TransferLeg(k, type, h) ==
  [txn |-> k, txn_type |-> type, class |-> req[k].class, holder |-> h,
   quantity |-> req[k].quantity, amount |-> 0, gl_posted |-> FALSE]

BuybackRow(k) ==
  [txn |-> k, txn_type |-> "buyback", class |-> req[k].class,
   holder |-> req[k].from, quantity |-> req[k].quantity,
   amount |-> req[k].quantity * req[k].price, gl_posted |-> TRUE]

\* Mutant: a transfer writes its first leg only.
RowsOneLeg(k) ==
  CASE req[k].verb = "issue"    -> << IssueRow(k) >>
    [] req[k].verb = "transfer" -> << TransferLeg(k, "transfer_out", req[k].from) >>
    [] req[k].verb = "buyback"  -> << BuybackRow(k) >>

Rows(k) ==
  CASE req[k].verb = "issue"    -> << IssueRow(k) >>
    [] req[k].verb = "transfer" -> << TransferLeg(k, "transfer_out", req[k].from),
                                      TransferLeg(k, "transfer_in", req[k].to) >>
    [] req[k].verb = "buyback"  -> << BuybackRow(k) >>

Lines(k) ==
  IF req[k].verb = "issue"
    THEN IssueLines(req[k].quantity, req[k].price, par[k])
    ELSE BuybackLines(req[k].quantity, req[k].price, par[k])

\* Mutant: a transfer's ends are swapped.
EventSwapped(k) ==
  CASE req[k].verb = "issue" ->
         [type |-> "SharesIssued", class |-> req[k].class, to |-> req[k].to,
          quantity |-> req[k].quantity]
    [] req[k].verb = "transfer" ->
         [type |-> "SharesTransferred", class |-> req[k].class,
          from |-> req[k].to, to |-> req[k].from, quantity |-> req[k].quantity]
    [] req[k].verb = "buyback" ->
         [type |-> "SharesBoughtBack", class |-> req[k].class,
          from |-> req[k].from, quantity |-> req[k].quantity]

Event(k) ==
  CASE req[k].verb = "issue" ->
         [type |-> "SharesIssued", class |-> req[k].class, to |-> req[k].to,
          quantity |-> req[k].quantity]
    [] req[k].verb = "transfer" ->
         [type |-> "SharesTransferred", class |-> req[k].class,
          from |-> req[k].from, to |-> req[k].to, quantity |-> req[k].quantity]
    [] req[k].verb = "buyback" ->
         [type |-> "SharesBoughtBack", class |-> req[k].class,
          from |-> req[k].from, quantity |-> req[k].quantity]

-----------------------------------------------------------------------------
(* Masters: registration, and the guarded CRUD routes that stay mutable.   *)
(* A soft-deleted class is one load_class does not return and the foreign  *)
(* keys still accept, so it is counted as inactive.                        *)

register_share_class(c) ==
  /\ classes[c].status = "absent"
  /\ \E p \in ParValues :
       /\ p >= 0
       /\ classes' = [classes EXCEPT ![c] = [status |-> "active", par_value |-> p]]
  /\ UNCHANGED << hubVars, shareholders, register, par >>

update_share_class(c) ==
  /\ classes[c].status # "absent"
  /\ \E p \in ParValues, s \in {"active", "inactive"} :
       /\ p >= 0
       /\ classes' = [classes EXCEPT ![c] = [status |-> s, par_value |-> p]]
  /\ UNCHANGED << hubVars, shareholders, register, par >>

register_shareholder(h) ==
  /\ h \notin shareholders
  /\ shareholders' = shareholders \cup {h}
  /\ UNCHANGED << hubVars, classes, register, par >>

-----------------------------------------------------------------------------
(* The steps of issue_shares, transfer_shares and buyback_shares.          *)

\* Whether the terms of a class let request r go on: the class is active and,
\* for an issue, the price is not below par.
Accepts(class, r) ==
  /\ class.status = "active"
  /\ r.verb = "issue" => r.price >= class.par_value

load_class(k) ==
  /\ pc[k] = "load"
  /\ LET class == classes[req[k].class] IN
       \/ /\ Accepts(class, req[k])
          /\ par' = [par EXCEPT ![k] = class.par_value]
          /\ Advance(k)
          /\ UNCHANGED locks
       \/ ~ Accepts(class, req[k]) /\ Refuse(k) /\ UNCHANGED par
  /\ UNCHANGED << req, gl, clock, stamp, outbox, classes, shareholders, register >>

\* Mutant: the lock is not waited for.
lock_position_nowait(k) ==
  /\ pc[k] = "lock"
  /\ Lock(k, << req[k].class, req[k].from >>)
  /\ Advance(k)
  /\ UNCHANGED << req, gl, clock, stamp, outbox, classes, shareholders, register,
                  par >>

\* The transaction opens and waits for the advisory lock of the position it
\* removes shares from.
lock_position(k) ==
  LET position == << req[k].class, req[k].from >> IN
  /\ pc[k] = "lock"
  /\ Free(position)
  /\ Lock(k, position)
  /\ Advance(k)
  /\ UNCHANGED << req, gl, clock, stamp, outbox, classes, shareholders, register,
                  par >>

\* Mutant: the quantity is bounded by the shares of the whole class.
check_outstanding(k) ==
  LET live == shares_outstanding(register, req[k].class) IN
  /\ pc[k] = "holding"
  /\ \/ req[k].quantity <= live /\ Advance(k) /\ UNCHANGED locks
     \/ req[k].quantity > live /\ Refuse(k)
  /\ UNCHANGED << req, gl, clock, stamp, outbox, classes, shareholders, register, par >>

\* Mutant: the lock is given up once the holding is checked.
check_holding_unlocked(k) ==
  LET live == holding(register, req[k].class, req[k].from) IN
  /\ pc[k] = "holding"
  /\ \/ req[k].quantity <= live /\ Advance(k) /\ locks' = Released(k)
     \/ req[k].quantity > live /\ Refuse(k)
  /\ UNCHANGED << req, gl, clock, stamp, outbox, classes, shareholders, register, par >>

\* The holding is summed under the lock and bounds the quantity.
check_holding(k) ==
  LET live == holding(register, req[k].class, req[k].from) IN
  /\ pc[k] = "holding"
  /\ \/ req[k].quantity <= live /\ Advance(k) /\ UNCHANGED locks
     \/ req[k].quantity > live /\ Refuse(k)
  /\ UNCHANGED << req, gl, clock, stamp, outbox, classes, shareholders, register, par >>

\* The holders a request names.
Named(r) == CASE r.verb = "issue"    -> {r.to}
              [] r.verb = "transfer" -> {r.from, r.to}
              [] r.verb = "buyback"  -> {r.from}

\* The foreign keys and CHECKs of share_transactions.
RowsAccepted(k) ==
  /\ classes[req[k].class].status # "absent"
  /\ Named(req[k]) \subseteq shareholders
  /\ req[k].quantity > 0
  /\ req[k].verb # "transfer" => req[k].price >= 0

\* The rows go into the open transaction, where nobody else sees them.
insert_rows(k) ==
  /\ pc[k] = "insert"
  /\ req[k].verb \in MovementVerb
  /\ \/ RowsAccepted(k) /\ Advance(k) /\ UNCHANGED locks
     \/ ~ RowsAccepted(k) /\ Refuse(k)
  /\ UNCHANGED << req, gl, clock, stamp, outbox, classes, shareholders, register,
                  par >>

post_movement(k) ==
  /\ req[k].verb \in MovementVerb
  /\ Post(k, req[k].verb, Minted(k), Lines(k))
  /\ UNCHANGED << classes, shareholders, register, par >>

stage_event(k) ==
  /\ Stage(k)
  /\ UNCHANGED << classes, shareholders, register, par >>

commit_movement(k) ==
  /\ req[k].verb \in MovementVerb
  /\ CommitOutbox(k, Event(k))
  /\ register' = register \o Rows(k)
  /\ UNCHANGED << classes, shareholders, par >>

begin_call(k) == Begin(k) /\ UNCHANGED << classes, shareholders, register, par >>

publish_event(k) == Publish(k) /\ UNCHANGED << classes, shareholders, register, par >>

interrupt_call(k) == Interrupt(k) /\ UNCHANGED << classes, shareholders, register, par >>

-----------------------------------------------------------------------------
RegisterInit ==
  /\ HubInit
  /\ classes = [c \in ShareClass |-> [status |-> "absent", par_value |-> 0]]
  /\ shareholders = {}
  /\ register = << >>
  /\ par = [k \in Call |-> 0]

\* What the code of a call that has begun does next.
MovementStep(k) ==
  \/ load_class(k)
  \/ lock_position(k)
  \/ check_holding(k)
  \/ insert_rows(k)
  \/ post_movement(k)
  \/ stage_event(k)
  \/ commit_movement(k)
  \/ publish_event(k)

Masters ==
  \/ \E c \in ShareClass : register_share_class(c) \/ update_share_class(c)
  \/ \E h \in Shareholder : register_shareholder(h)

RegisterNext ==
  \/ \E k \in Call : begin_call(k) \/ MovementStep(k) \/ interrupt_call(k)
  \/ Masters

RegisterSpec == RegisterInit /\ [][RegisterNext]_registerVars

\* Every await of a call that has begun completes: the runtime polls the task,
\* the sink answers and the database grants a lock nobody holds.  Nothing makes
\* a client call, a master change or a crash happen.
FairRegisterSpec == RegisterSpec /\ \A k \in Call : WF_registerVars(MovementStep(k))

-----------------------------------------------------------------------------
(* Properties                                                              *)

\* The awaits a call carrying request r can be at.
AwaitsOf(r) == IF r = NoRequest THEN {"idle"}
               ELSE DOMAIN Awaits[r.verb] \cup {"publish"} \cup Ended

\* Types: every call is at an await of its own verb, every table holds rows of
\* its columns.
TypeOK ==
  /\ req \in [Call -> Request \cup {NoRequest}]
  /\ pc \in [Call -> Await \cup Ended \cup {"idle"}]
  /\ \A k \in Call : pc[k] \in AwaitsOf(req[k])
  /\ locks \subseteq [key: LockKey, owner: Call]
  /\ gl \subseteq Journal
  /\ clock \in Nat
  /\ stamp \in [Call -> Nat]
  /\ outbox \in Seq(OutboxRecord)
  /\ classes \in [ShareClass -> ShareClassRow]
  /\ shareholders \subseteq Shareholder
  /\ register \in Seq(Row)
  /\ par \in [Call -> Int]

\* No holder ever holds a negative number of shares, however removals of the
\* same position interleave: what the advisory lock of lock_position and the
\* bound of transfer_shares and buyback_shares are for.
NonNegative ==
  \A c \in ShareClass, h \in Shareholder : holding(register, c, h) >= 0

\* A removal that has its lock and still needs it.
Holds(k) == /\ req[k].verb \in Removal
            /\ pc[k] \in {"holding", "insert", "post", "stage", "commit"}

\* Two removals of one position are never under way at once: each holds the
\* lock of its position until it ends, and a position's locks have one owner.
PositionsAreLocked ==
  /\ \A k \in Call : Holds(k) =>
       [key |-> << req[k].class, req[k].from >>, owner |-> k] \in locks
  /\ \A l, m \in locks : l.key = m.key => l.owner = m.owner

\* A removal past its bounds check: from here to its commit the check must stay true.
Checked(k) == /\ req[k].verb \in Removal
              /\ pc[k] \in {"insert", "post", "stage", "commit"}

\* The holding a removal was checked against is not stale while the removal is
\* under way: it never needs more than is still there (equity_transfer.rs,
\* "so the register can't go negative").
CheckedBoundHolds ==
  \A k \in Call : Checked(k) =>
    req[k].quantity <= holding(register, req[k].class, req[k].from)

\* The rows call k wrote are committed.
Recorded(k) == \E i \in 1 .. Len(register) : register[i].txn = k

\* The journals booked under the identity of call k.
JournalsOf(k) == {j \in gl : j.source = Minted(k)}

\* The gl_posted flag a row carries is honest: an issue or buyback row has
\* exactly one journal, whose cash leg is the row's amount, and a transfer row
\* has none.
GlPostedIsHonest ==
  \A i \in 1 .. Len(register) :
    LET row == register[i] IN
    IF row.gl_posted
      THEN \E j \in gl :
             /\ JournalsOf(row.txn) = {j}
             /\ j.leg = row.txn_type
             /\ Net(j.lines, "bank") =
                  IF row.txn_type = "issue" THEN row.amount ELSE - row.amount
      ELSE JournalsOf(row.txn) = {}

\* A journal without register rows is explained: its call is still under way,
\* was interrupted, or is an issue, which posts before its rows are inserted
\* and may see them refused.  A buyback that returns an error has posted nothing.
JournalsAreExplained ==
  \A k \in Call : JournalsOf(k) # {} =>
    \/ Recorded(k)
    \/ pc[k] \in Await \cup {"interrupted"}
    \/ pc[k] = "refused" /\ req[k].verb = "issue"

\* A call without a company in its scope fails closed: it books no journal,
\* moves no shares and stages no event (EquityError::NoCompanyScope).
UnscopedLeavesNoTrace ==
  \A k \in Call : (req[k] # NoRequest /\ ~ req[k].scoped) =>
    /\ JournalsOf(k) = {}
    /\ ~ Recorded(k)
    /\ \A i \in 1 .. Len(outbox) : outbox[i].call # k

\* What a positions projection adds to holder h of class c for an event.
Effect(e, c, h) ==
  IF e.type \in {"DividendDeclared", "DividendPaid"} THEN 0
  ELSE IF e.class # c THEN 0
  ELSE (IF e.type # "SharesBoughtBack" /\ e.to = h THEN e.quantity ELSE 0)
         - (IF e.type # "SharesIssued" /\ e.from = h THEN e.quantity ELSE 0)

\* The position a projection has after the committed events up to time t, in
\* the order of occurred_at (the order of the outbox's index).
Replayed(t, c, h) ==
  SumSeq([i \in 1 .. Len(outbox) |->
            IF outbox[i].at <= t THEN Effect(outbox[i].event, c, h) ELSE 0])

\* Replaying the outbox in occurred_at order never drives a holder negative,
\* although events are stamped before they commit and commit in another order:
\* whatever a removal relies on was stamped before the removal took its stamp.
ReplayNeverNegative ==
  \A c \in ShareClass, h \in Shareholder, t \in 1 .. clock : Replayed(t, c, h) >= 0

\* Replaying all of it gives the register's positions (equity_events.rs: "or
\* the reconstructed holdings diverge from the register").
ReplayIsRegister ==
  \A c \in ShareClass, h \in Shareholder :
    Replayed(clock, c, h) = holding(register, c, h)

\* What the holders of a class hold in all, by some rows of the register.
HeldInAll(rows, c) == MapThenSumSet(LAMBDA h : holding(rows, c, h), Shareholder)

\* Shares are neither made nor lost between holders: what the holders of a
\* class hold adds up to its shares outstanding, although the two sums count
\* different kinds of rows (share_transaction_repository.rs, holding and
\* shares_outstanding).
OutstandingIsHeld ==
  \A c \in ShareClass : HeldInAll(register, c) = shares_outstanding(register, c)

\* The share capital the register's rows have booked for a class.
BookedCapital(c) ==
  SumSeq([i \in 1 .. Len(register) |->
            IF register[i].class = c /\ register[i].gl_posted
              THEN Net((CHOOSE j \in JournalsOf(register[i].txn) : TRUE).lines,
                       "share_capital")
              ELSE 0])

\* A class all of whose shares were bought back has no share capital left in
\* the ledger.  It holds while a class keeps the par value it was registered
\* with, and fails when the par value is patched between an issue and a
\* buyback (guarded_routes.rs, "no cross-entity register invariant, safe to
\* expose directly").
RetiredClassHasNoCapital ==
  \A c \in ShareClass : shares_outstanding(register, c) = 0 => BookedCapital(c) = 0

\* A buyback's journal commits together with its register row: once the call
\* has ended, the ledger holds the one exactly if the register holds the other
\* (equity_buyback.rs, "the register move + its journal commit together").
BuybackCommitsWithJournal ==
  \A k \in Call : (req[k] # NoRequest /\ req[k].verb = "buyback" /\ pc[k] \in Ended) =>
    (Recorded(k) <=> JournalsOf(k) # {})

\* A movement called while its class is inactive, the class staying so, writes
\* no rows (share_class.model.yaml, "inactive classes stop accepting new
\* movements").
InactiveClassTakesNoMovement ==
  \A k \in Call, c \in ShareClass :
    [](  (pc[k] = "idle" /\ [](classes[c].status = "inactive"))
       => [](Recorded(k) => req[k].class # c))

\* The register's verbs implement the atomic cap table.
Positions == [c \in ShareClass |-> [h \in Shareholder |-> holding(register, c, h)]]
Abstract == INSTANCE CapTable WITH position <- Positions
ImplementsCapTable == Abstract!CapTableSpec

\* Every call that begins comes to an end: no removal waits for a lock for
\* ever, whatever calls crash while they hold one.
EveryCallEnds == \A k \in Call : (pc[k] # "idle") ~> (pc[k] \in Ended)
=============================================================================
