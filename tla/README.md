# Equity: verification of the write service

TLA+ models of `backbone-equity`, the TLC configurations that check them, and
TLAPS proofs about them. Paths below are relative to the crate
(`src/application/service/...`); `PROJECT.json` maps every definition to the lines
it models.

## 1. The system

Equity is the cap table of a company and the general-ledger journals that go with
it. A share class and a shareholder are masters; shares are issued, transferred
and bought back; dividends are declared on a class and paid. Every money verb
posts one balanced journal through a port (`GlPostSink`) to an accounting service
that is another system, writes its own rows in a PostgreSQL transaction, stages one
outbox record in that same transaction, commits, and then publishes the event to an
in-process sink.

### Components

| component | state | operations | talks to |
|---|---|---|---|
| write-service hub (`equity_write_service.rs`) | none of its own; the pool | `post`, `stage`, `load_class`, transaction discipline | `GlPostSink`, outbox, event sink |
| register verbs (`equity_issue.rs`, `equity_transfer.rs`, `equity_buyback.rs`, `share_transaction_repository.rs`) | `share_transactions`: append-only rows; advisory locks | `issue_shares`, `transfer_shares`, `buyback_shares`; `lock_position`, `holding`, `shares_outstanding`, the inserts | hub, masters |
| dividend verbs (`equity_dividend.rs`, `dividend_repository.rs`) | `dividends`: declared, paid | `declare_dividend`, `pay_dividend`; `fetch_for_payment`, `claim_payment` | hub, register |
| journals (`equity_gl.rs` and the line lists of the verbs) | the ledger's accounts, held elsewhere | the four postings, `totals`, `is_balanced` | the accounting service |
| registration and masters (`equity_register.rs`, guarded routes, `share_class*`, `shareholder*`) | `share_classes`, `shareholders` | register, patch, delete | read by the verbs; referenced by foreign keys |
| cap-table reads (`equity_read.rs`, `equity_query_service_impl.rs`) | none | `holdings`, `dividend_allocations` | register, dividends |
| events and outbox (`equity_events.rs`, the outbox migration) | `equity_outbox` rows | stage; relay and consumers are other crates | projections |
| HTTP routes, handlers, DTOs (`presentation/`, `lib.rs`) | none | guarded and unguarded CRUD | services |
| generic services, entities, DTOs (`*_service.rs`, `domain/entity`, `presentation/dto`, `equity_query_service_impl.rs`) | the four tables | create, update, patch, soft delete, restore, purge; row rules; conversions | database |
| seeder binary (`bin/seeder.rs`, `seeders/`) | the four tables | check, run, roll back, in order | database |
| migrations | the schema | CHECKs, foreign keys, dropped indexes | database |

### What is hard in it

* **Interleaving.** Nothing serialises the verbs in the process: any number of
  calls run at once, each suspended at its awaits. Removals of one position
  (transfer out, buyback) are serialised by a PostgreSQL advisory lock; payments of
  one dividend by the row lock of a compare-and-set; issues, declarations and reads
  by nothing.
* **Two systems, no common transaction.** A journal is booked by the accounting
  service when `post` returns. The row it belongs to commits later, or never. The
  verbs differ in the order: issue and declare post *before* their transaction,
  buyback and pay *inside* theirs.
* **Crashes and drops.** Any await may be the last of a call. The database rolls
  back and frees the locks; the ledger does not roll back.
* **Retries.** A retried issue, buyback or declaration mints a new uuid, which the
  ledger's dedup by source cannot relate to the first; a payment derives its
  source from the dividend, so it can.
* **Order of events.** `occurred_at` is read when the record is staged; the record
  becomes visible when its transaction commits. The two orders differ.
* **Values read early and used late.** The class's status and par value, a
  holding, the shares outstanding, and a dividend's total all cross awaits.
* **Masters that stay mutable.** The guarded routes leave share classes and
  shareholders to be patched, trashed and purged while movements run.
* **A bounded pool.** A verb reads on the pool, then opens a transaction that keeps its
  connection while it waits for a lock and, in a buyback or a payment, for the
  ledger. A composing service may pin one more connection to each request.
* **Amounts finer than the columns.** The verbs compute with exact decimals and
  post those; the rows store `NUMERIC(20,4)`. Rates times shares have up to eight
  decimals, a bound compares an exact quantity with rounded ones, and an overflow
  is found at the insert.
* **Reads of several statements**, outside any transaction.
* **Rows older than their rules.** Declared CHECKs are added only where the stored
  rows meet them, so the same rules are also enforced by the services, on the
  columns a write changes.

### What makes each part correct

* *Register*: no holding is ever negative; the check a removal made is still true
  when it commits; holdings and shares outstanding, summed by two different sign
  rules, agree; a reader sees whole movements (the abstract `CapTable`).
* *Hub*: what is staged is exactly what is committed; replaying the outbox by
  `occurred_at` gives the register at its end and never passes through a negative
  holding; a call without a company fails closed; every call ends.
* *Ledger against register*: a row flagged `gl_posted` has one journal, of its
  amount; a journal without rows is always accounted for by a call that did not
  finish.
* *Dividends*: a dividend is declared on what the holders have when it reads the
  register, for what was booked, paid at most once, and no more is ever remitted than was declared, however payments race, crash and
  retry (the abstract `DividendLedger`).
* *Journals and amounts*: each journal balances; up to half a unit of rounding for
  each row, capital stays at par of the outstanding shares, the payable is what is
  unpaid and the rows say what cash has moved; premium is never drawn down; and
  rounding never overdraws a holding.
* *Reads*: whatever commits between the statements, an allocation of a dividend
  adds up to its total if the class had the declared shares, and the percentages of
  a class to a hundred, up to the last digits of the quotients, if none were issued or
  retired.
* *Pool*: somebody who has a connection can always go on.
* *Routes*: behind the recommended mount nothing but a verb moves a share, and no
  row loses its master.
* *Rows*: a rule that held goes on holding, though the columns round what the rules
  have seen, and a row from before a rule can still be edited.
* *Seeders*: an interrupted seeding is completed by the next run and never doubled.

## 2. The modules

```
Sums ── EquityGl ──┬── EquityWriteService ── EquityRegister ──┬── EquityDividend ──┬── EquityReads
                   │                                          │                    └── EquityPool
                   │                                          └── EquityGuarded
                   └── EquityPrecision
EquityRows    EquitySeeders          (on their own)
CapTable  <─ implemented by EquityRegister        DividendLedger <─ implemented by EquityDividend
MCEquityRegister, MCEquityDividend, MCEquityReads, MCEquityPool, MCEquityGuarded: instances
```

The proofs, each with the module it is about and the proofs it rests on:

| proofs | about | rest on |
|---|---|---|
| `EquityGlProofs` | `EquityGl`; `Sums` and the finite sums of the community modules | the library |
| `EquityRegisterProofs` | `EquityRegister`: types, locks, movements, outbox; positions against outstanding, `CapTable`; the ledger beside it | `EquityGlProofs` |
| `EquityDividendProofs` | `EquityDividend`: the same of the whole service; dividends, `DividendLedger` | `EquityRegisterProofs` |
| `EquityServiceProofs` | `EquityReads`, `EquityPool`: what is built on the service | `EquityDividendProofs` |
| `EquityGuardedProofs` | `EquityGuarded` | `EquityRegisterProofs` |
| `EquityPrecisionProofs` | `EquityPrecision` | `EquityGlProofs` |
| `EquityRowsProofs`, `EquitySeedersProofs` | `EquityRows`, `EquitySeeders` | the library |

* **`Sums`**: the `SUM(...)` of the repository's queries as a recursive function over a
  sequence; sums over sets are those of `FiniteSetsExt`.
* **`EquityGl`**: the line lists of the four journals, `totals` and `is_balanced`.
  Accounts are named by the role they play in a posting.
* **`EquityWriteService`**: the hub. `Awaits` lists, for each verb, the awaits it
  makes and their order; a step is what the code does from one await to the next.
  `Post`, `Stage`, `CommitOutbox`, `Publish`, `Refuse`, `Interrupt` are the pieces
  every verb shares. `gl` is the external ledger: it may reject any posting and
  books one journal per source, so that a second posting of a source is a replay.
* **`EquityRegister`**: the three movements, `register_share_class`,
  `register_shareholder`, and the patches of a class. One action per await:
  `load_class`, `lock_position`, `check_holding`, `insert_rows`, `post_movement`,
  `stage_event`, `commit_movement`, `publish_event`. Rows and outbox record
  become visible together, at the commit.
* **`EquityDividend`**: declaration and payment beside the movements of the
  register. `claim_payment` waits for the row's lock and re-evaluates
  `status = 'declared'`, as the `UPDATE ... WHERE` does under READ COMMITTED. `asOf`
  remembers how many rows a declaration has seen, for `DeclaredIsBooked`.
* **`EquityReads`**: `holdings` and `dividend_allocations` beside the whole write
  service, one action per statement. `cut` remembers how much of the register each
  statement saw, for the properties. A percentage is what the code computes: a quotient
  of decimals, rounded to its last digit (`DecimalOne` of them make one), and then taken
  a hundred times, so that three equal holders do not come to a hundred.
* **`EquityPool`**: the same service on a pool of so many connections. Every step of
  a call additionally needs the connection the code makes it on: none, one for a
  statement, or that of its transaction, which `open_transaction` takes and the end
  of the transaction gives back. `pool` is the deployment: its size, and whether
  every request has a connection of its own.
* **`EquityPrecision`**: each verb as one step, with amounts finer than the columns.
  Integers count fractions of a column's unit; `Rounded` is what the column stores,
  `Fits` what it has room for. Each column of a row has its own say: quantity, price and
  amount of a movement (`RowAccepted`), rate, shares and total of a dividend
  (`DividendAccepted`). `orphaned` collects what journals say whose row was refused.
* **`EquityGuarded`**: the three ways `lib.rs` and `guarded_routes.rs` mount the
  routers, as the set of writes each lets through, and what those writes do:
  masters edited, trashed, restored and purged, and raw rows of the register where
  it is mounted writable. `Referenced` is the foreign keys, which also see rows of
  transactions that are still open.
* **`EquityRows`**: a row of each of the four entities behind the generic service.
  `Reads`/`Read` is what serde makes of a body; then come the conversions into a row, one
  operator each; `RefusedColumns` is the row rules, which see an amount as it came;
  `Kept` what a `NUMERIC(20,4)` column makes of it, `DatabaseAccepts` the CHECKs, which
  see that; `Legacy` the rows that may be there from before.
* **`EquitySeeders`**: runs of the seeder binary, statement by statement.
* **`CapTable`**, **`DividendLedger`**: what the two components promise, without
  locks, awaits, ledger or outbox.
* **`MCEquity...`**: the requests of each instance.
* The modules whose name ends in `Proofs`: the proofs of section 5.

Definitions whose comment starts with "Mutant:" are never used by a
specification. Each is a plausible mistake in the definition it precedes; replacing
the one by the other makes the property `PROJECT.json` pairs it with fail, which is
how we know that the property depends on the code.

### How state corresponds to the code

| variable | code |
|---|---|
| `pc[k]`, `req[k]` | where the future of call `k` is suspended, and the input struct it was given |
| `locks` | advisory transaction locks of positions, and row locks of claimed dividends, with the transaction that has them |
| `gl` | the journals the accounting service has booked |
| `clock`, `stamp[k]`, `outbox` | `Utc::now()`, `occurred_at` of the staged record, the committed `equity_outbox` rows |
| `classes`, `shareholders`, `register`, `dividends` | the tables, committed rows only |
| `par[k]`, `outstanding[k]`, `total[k]` | the locals of call `k` that live across an await |
| `basis[r]`, `positions[r]` | the locals of read `r` that live across an await |
| `requests`, `transactions` | the connections of the pool in use: pinned to a request, taken by a transaction |
| `trash`, `hidden`, `purged` | the rows with `metadata.deleted_at`, and the ids deleted for good |
| `rows`, `checked` | a table behind its generic service, and whether the declared CHECKs could be added |
| `step[r]`, `at[r]`, `copies` | where run `r` of the seeder is, and how often a seed is in its table |

### Abstractions and assumptions

* A call's identity is the uuid it mints: a retry is another call. A dividend has
  the id of the call that declared it.
* Ids are uuids: calls and shareholders are finitely many, however many
  (`IdsAssumption`). No proof uses another bound on them.
* Amounts are integers. `Decimal` arithmetic is exact where the code uses it; what
  the columns do to the amounts is the subject of `EquityPrecision` alone, where the
  verbs are single steps.
* PostgreSQL runs at READ COMMITTED: a statement that follows the advisory lock sees
  everything committed before the lock was granted. An open transaction's inserts
  are seen by nobody else and read back by nothing, so they appear in the model
  when it commits.
* `Interrupt` covers a crash of the process, a dropped future and a database error
  at any await. A commit whose outcome the client never learns is a
  `CommitOutbox` followed by an interruption before `Publish`.
* A soft-deleted class counts as inactive: `load_class` does not return it, the
  foreign keys still accept it and a transfer never looks. `EquityGuarded` gives it
  its status back when it is restored. A deleted shareholder is one the foreign keys
  accept as before.
* The rows of a transaction hold a key lock on the masters they reference, so a
  master is not purged until they commit or are rolled back.
* In `EquityRows` a column takes one of two good values, or one of those that break
  a rule of such a column; an amount may also be finer than its column, and be rounded
  to a good value or to zero from either side, or be too large for it. A body is uniform
  but for one column. A write is one step, as it is from outside the generic service. The columns `id`
  and `metadata`, which no body carries, are left out.
* The rows of a seed reference those of its masters' seeds, by fixed ids.
* `occurred_at` strictly increases from record to record: one tick of one clock.
  The projection in `Replayed` orders by it.
* A scope either carries a company or does not, and does not change during a call.

## 3. The runs

| run | what runs | bound | checks |
|---|---|---|---|
| `register_race` | 4 calls: an issue, two removals of the position it fills, and a fourth that issues to, transfers from or buys back from the other holder | one class, two holders, par 1; about 0.5 M states | `TypeOK`, `PositionsAreLocked`, `NonNegative`, `CheckedBoundHolds`, `OutstandingIsHeld`, `ReplayNeverNegative`, `ReplayIsRegister`, `RetiredClassHasNoCapital`, `ImplementsCapTable` |
| `register_refusals` | 3 calls with 5 or 6 requests each, most of them refused somewhere: bad quantities, prices under par or under zero, a transfer to oneself, holders or classes nobody registered, too small a holding, no scope | two classes whose par (-1, 0, 1) and status change under the calls; about 3.7 M states | `GlPostedIsHonest`, `JournalsAreExplained`, `UnscopedLeavesNoTrace` |
| `dividend_payments` | issue, declaration, two payments and a buyback of all shares, with the payments crashing and retrying | one class, one holder; about 0.4 M states | `ServiceTypeOK`, `DeclaredIsBooked`, `PayableSettles`, `NeverRemitsMoreThanDeclared`, `DividendEventsMatch`, `ClaimIsExclusive`, `ImplementsDividendLedger` |
| `reads` | one read, of the holdings or of the allocations, beside an issue of three shares, a transfer, a declaration and a buyback or further transfer | one class, three holders, decimals of one digit; about 1.6 M states | `AllocationsAddUp`, `PercentagesAddUp` |
| `pool` | an issue with two removals of one position behind it, or a declaration with two payments behind it, each either verb by choice | pools of 2, and of 4 with one pinned to each request; about 0.2 M states | `PoolIsNeverStuck`, `EveryCallEnds` |
| `precision` | five verbs in any order, of two holders | a digit is worth 4; quantities of 0, a quarter, a half and more than the column holds; a class with par 0 or one unit; prices of nothing, at par and over it, the highest at the column's limit or over it; rates likewise; columns of at most 5 units; about 2.4 M states | `RoundingNeverOverdraws`, `RowsFollowTheCash`, `PayableResidualIsSmall`, `OrphansOnlyComeIn`, `CapitalFollowsTheShares`, `NothingIsUnbalanced`, `PremiumIsKept` |
| `rows` | three writes to one row of each entity, old or new, with and without the declared CHECKs | every column of every entity takes every value once in an otherwise uniform body; about 0.35 M states | `RefusalsAreJustified`, `NoWriteBreaksARule` |
| `guarded` | an issue and a removal of what it issued, beside the routes of each of the three mounts | three writes through CRUD routes; one class, two holders; about 1.3 M states | `RegisterIsGuarded`, `ReferencesResolve` |
| `seeders` | two runs at a time, each started as often as it ends, over all 16 choices of seed files with rows and the tables with rows from elsewhere | four filters; a seed is inserted at most twice; about 0.4 M states | `SeedsAreAppliedOnce`, `SeedingCompletes` |

Why these bounds are enough for what they are meant to show: the races are over one
position or one dividend, so two competitors and a third call to change what they
compete for meet every order of lock, read and commit. Four calls let a removal rely on
shares that arrived by a transfer which itself relied on an issue; that is the
shortest chain on which stamping and committing in different orders could matter
to `ReplayNeverNegative`. The quantities make the removals succeed separately and
conflict together. A price equal to, above and below par selects each shape of
a journal, and five verbs leave room to issue twice, declare, buy back and pay. A
quarter and a half of a unit are the amounts that round down and up; sums of them are
what a holding is made of. A price of 21 quarters is over par and just fits its column
once rounded, one of 23 does not, so premium is stored and refused, and the product of
price and quantity overflows where neither of them does. One digit of a decimal makes the
thirds of three holders round, as twenty-eight do. Three writes through a mount can trash, purge or restore a
master, or raise a raw row, between any two awaits of a verb. Three writes to a row
create it, break it and repair it. A read has two statements between which things
matter and a third before them, and the four calls give it something to miss at each.

The bounds on behaviours are `MaxVerbs` (`EquityPrecision`), `MaxWrites` and the choice
of `Bodies` and `Legacy` (`EquityRows`), `MaxCrud` (`EquityGuarded`) and `MaxCopies`
(`EquitySeeders`). Every other behaviour is finite because a call runs once. The four
runs with such a bound stop at it, and have the deadlock check switched off for that
reason; so does `claim_codes_unique`. In the others a master can still be patched when
all calls have ended. Symmetry is not used, since the calls carry different requests.

A further three runs check a sentence of the repository that the code does not keep
(section 6); TLC is expected to find them violated.

## 4. Fairness

`FairRegisterSpec` and `FairPoolSpec` assume weak fairness of the next step of
each call that has begun: the runtime polls a woken task, the sink answers (with a
journal or a rejection), the database grants a lock that nobody holds, and the pool
hands out a connection that stays free. Weak fairness suffices: a waiter is not
promised the lock, or the connection, against competitors that keep taking it, but a
call takes each at most once and then ends, so after finitely many such turns it stays
free. Nothing is assumed of clients, of changes to masters, or of crashes, and the
pool's acquire timeout, though it may strike at any time, is not assumed to help.
A sink that never answers is outside this assumption, and would hold a position's
lock and a connection for as long as it stays silent.

**Which pools are live.** With two connections and none pinned, a removal can wait for
a lock on one while the call that has the lock uses the other; what makes it work is
that a verb reads on the pool only *before* it opens its transaction, so whoever
has a lock needs nothing more (the mutant of `PoolIsNeverStuck` reads inside it). With
one connection pinned to each request a transaction is a second one, so a pool no
larger than the number of requests that may wait to open theirs is stuck, until the
acquire timeout refuses some of them. Three of the four calls of the instance
can wait so, and four connections are the least that are never stuck: with three,
`PoolIsNeverStuck` is violated.

## 5. What is proved

Every result below holds for all values of the constants: any finite set of calls and
holders, any classes, any assignment of requests, all par values, and behaviours of
any length. The table pairs each theorem with the property the runs check.

| module | theorem | property |
|---|---|---|
| `EquityRegisterProofs` | `TypeCorrect`, `HoldingsNeverNegative`, `BoundNeverStale`, `OneRemovalAPosition` | `TypeOK`, `NonNegative`, `CheckedBoundHolds`, `PositionsAreLocked` |
| | `SharesAreHeld`, `RegisterImplementsCapTable`, `ReplayTellsTheRegister`, `ReplayStaysCovered` | `OutstandingIsHeld`, `ImplementsCapTable`, `ReplayIsRegister`, `ReplayNeverNegative` |
| | `PostedFlagIsHonest`, `JournalsExplained`, `UnscopedFailsClosed`, `RetiringClearsCapital` | `GlPostedIsHonest`, `JournalsAreExplained`, `UnscopedLeavesNoTrace`, `RetiredClassHasNoCapital` |
| `EquityDividendProofs` | `ServiceTypeCorrect`, `OnePaymentADividend`, `ServiceKeepsTheRegister`, `ServiceImplementsCapTable` | `ServiceTypeOK`, `ClaimIsExclusive`, the register's properties beside the dividend verbs |
| | `DeclarationsAreBooked`, `CashFollowsTheTable`, `PayableComesToZero`, `DividendsAreToldOnce`, `ServiceImplementsDividendLedger` | `DeclaredIsBooked`, `NeverRemitsMoreThanDeclared`, `PayableSettles`, `DividendEventsMatch`, `ImplementsDividendLedger` |
| `EquityServiceProofs` | `SplitIsTheTotal`, `PercentagesComeToAHundred` | `AllocationsAddUp`, `PercentagesAddUp` |
| | `PoolGoesOn`, `NoPoolIsStuck`, `PooledRegisterIsSound`, `PooledServiceImplementsCapTable` | `PoolIsNeverStuck`; the register's properties on a pool that runs out |
| `EquityGuardedProofs` | `RowsKeepTheirMasters`, `GuardedRegisterIsSound` | `ReferencesResolve`, `RegisterIsGuarded` |
| `EquityRowsProofs` | `RefusalsHaveReasons`, `WritesKeepTheRules` | `RefusalsAreJustified`, `NoWriteBreaksARule` |
| `EquitySeedersProofs` | `SeedsGoInOnce`, `RunsCompleteTheSeeding` | `SeedsAreAppliedOnce`, `SeedingCompletes` |
| `EquityPrecisionProofs` | `RoundingIsCovered`, `CashFollowsTheRows`, `ResidualIsSmall`, `OrphansComeIn`, `CapitalIsAtPar`, `LedgerStaysBalanced`, `PremiumStays` | all seven of `EquityPrecision` |
| `EquityGlProofs` | `IssueBalances`, `BuybackBalances`, `DividendBalances` | what `IsBalanced` says, for every quantity, price, par value and total |

With these, every safety property that a passing run checks, invariant or action property,
is also a theorem, and so are both refinements. Two of the theorems have a hypothesis,
discussed below: `RetiringClearsCapital` and `NoPoolIsStuck`.

### The invariants, and why they are needed

**Holdings** (`RegisterInv`). `NonNegative` is not inductive: a removal that commits
takes its quantity off a holding it checked several steps earlier. That the check is
still good (`CheckedBoundHolds`) follows only if nobody else takes from the same
position in between, which is what the lock gives (`PositionsAreLocked`), and only if
other movements add, which needs their quantities to be positive (`ValidUnderWay`)
although the check was made before the first await. `StepShape` sorts the steps of a
call by what they do to the locks and the register: it goes on, takes its lock, ends,
or commits; a commit that lowers a holding belongs to the one removal that has the lock
of that position.

**Positions** (`TotalsAgree`). The two sign rules agree because each commit changes the
sum of the holdings by what it changes the shares outstanding. `CommitMoves` says
what a commit does to each position; the same fact shows that a step of the register
is one movement of `CapTable` or a stutter, with `NonNegative` as the guard of a removal.

**Replay** (`ReplayInv`). Records are stamped in one order and committed in another, so
that a prefix of the replay by `occurred_at` was never a state of the register. What
makes it safe is `StampedBound`: a removal about to commit is covered not only by
the register but by the replay at every time from its stamp on. It was stamped
while holding its position's lock, so every removal of the position committed before
has an earlier stamp, and what is committed after it with an earlier stamp can only add.

**Journals** (`JournalInv`). What a journal says, how far its call has come, and what a
row and an outbox record may say are related to the call: a source is booked once, a
call that is past its posting is booked, a journal's call has got far enough to post it.

**Capital** (`CapitalInv`). Capital is booked at the par value a call loaded some awaits
earlier, and retired at that of another call, so nothing can be said while par values are
patched (section 6). `RetiringClearsCapital` assumes of an execution that they are not:
`[][ParStays]_registerVars`, a step leaves the par value of the registered classes alone. It
does not assume that classes share one, as the run's instance does, nor that a class
stays active. What a call has loaded is then still the par value of its class when it posts
(`ParIsCurrent`), every journal is at that value (`JournalsAreAtPar`), a row is of the class
and quantity its request asked for (`RowsAreAsked`), and what the rows have booked is the
shares outstanding at par (`BookedAtPar`), of which the property is the case of none.

**Declarations** (`SnapshotsHold`). A declaration sums the shares outstanding, then posts, then
commits, while the register goes on. `DeclaredIsBooked` speaks of the register as it was at
that sum, which is still a prefix of it, since rows are only added at its end
(`PrefixStays`). That its number is what the holders had between them is the agreement of
the two sign rules on that prefix (`TotalsAgree`); that the dividend keeps it is that
nothing changes a call's locals, or a dividend's shares, afterwards.

**Payments** (`DividendInv`). A payment reads its dividend before it has anything
locked. What survives the await is that the row's total never changes
(`PaymentsAgree`), and that from its claim on it alone has the row's lock
(`ClaimsAreLocked`), so that the row is still declared when it commits.

**Dividends on the books** (`LedgerInv`). A journal whose source is derived from a
dividend pays that dividend at the total on the table (`DerivedLegs`); one whose source is
a call's own is of the verb of that call (`MintedLegs`); what is declared and what is paid
has been posted. A payment that posts and crashes is harmless because the next one's
journal would have the same source. From there to `NeverRemitsMoreThanDeclared` and
`PayableSettles` is a matter of sums over finite sets: the payments booked are
reindexed by the dividend they are derived from (`PaymentsSum`), the declarations by their
call (`DeclarationsSum`).

**Dividends in the outbox** (`EventsInv`). Each record is told once; a payment's comes
after the declaration's because the declaration was committed, and so stamped, before the
payment could read it (`PaymentIsStamped`).

**Reads** (`ReadsInv`). A read relates its locals to the register as it was: the positions it
holds are those of the first `cut` rows, which were sound, like every prefix of the register
since (`PositionsSay`), and the dividend it read keeps its class, rate and total. That a
split adds up is then `SharesAreHeld` of that prefix. That percentages do, too, is that the
rows since have not changed the shares outstanding, so that the exact quotients come to one,
and that each is rounded by half a last digit at most (`Quotient`), which the hundred
multiplies.

**The pool** (`PoolInv`). Whoever has a lock is in an open transaction, has its connection and
is past the only await that waits for a lock (`LocksAreTransacted`). So among the
transactions one can always go on: one that has a lock, or, if none has, any. That leaves
the connections pinned to requests: `PoolGoesOn` says that nothing is stuck while they leave
one over, whatever the deployment, and `NoPoolIsStuck` that a pool has one over if it pins
none, or is larger than the number of calls. The latter is sufficient and not
necessary: it does not count which of the calls can wait for a transaction at the same time,
as the pinned pool of the run does, so that this pool is covered by `PoolGoesOn` and by TLC.
The register's theorems hold on any pool, since a refused connection is a refused call.

**Masters** (`GuardedInv`, `MountInv`). Every row, trashed ones included, stands on its class and
holder (`Standing`), and so does every row a transaction has inserted and not committed
(`PendingStand`), which is what a purge has to look at, too. `MountInv` adds that where the
register is mounted read-only no raw row is written, so that its invariants go through
with the routes as steps that leave register and outbox alone.

**Rows** (`RowsInv`). What a table holds are rows of its entity that the database let in, and
that are as their columns keep them: writing one again rounds nothing (`StoredIsStored`). So
a value that is refused, as it came or as it was rounded, is not the one that was there
(`RefusedForAChange`), and a stored value that breaks a declared rule is text, which no
column rounds and the row rules have seen. The theorems are for any ids and any number of writes; bodies and
legacy rows are those of the model (`Bodies`, `Legacy`), in the proofs as in the run.

**Seeders** (`SeedersInv`). A run that shares the tables with no other finds a table as it saw it
(`RunsAlone`), and behind an unfiltered run nothing is left unsettled (`LeavesSettled`), from
which the foreign keys accept the next seed, as the order puts masters first.

**Rounding** (`PrecisionInv`). The three distances (bank from rows, payable from what is
owed, capital from par) are followed as numbers, `Cash`, `Owing` and `Capital`, that a
step leaves alone or moves by at most half a unit while it adds a row; `Owing` also counts
dividends not yet paid, which `PayableResidualIsSmall` leaves out and which is why
that is not inductive. A holding is always a whole number of units (`HeldInUnits`), and a
quantity that does not exceed a whole number of units does not exceed it when
rounded (`RoundedIsCovered`).

### What the proofs rest on

The assumptions on constants are `RequestsAssumption`, `IdsAssumption` (uuids, of calls and
of holders, are finitely many), `ParValuesAssumption` (par values are integers), and one
for each further module (`ReadsAssumption` and `DecimalAssumption`, `PoolAssumption`,
`GuardedAssumption`, `PrecisionAssumption`, `RowsAssumption`, `SeedersAssumption`), which say
little more than what kind of thing each constant is. The running instances satisfy them,
and TLC evaluates them there. `MaxVerbs`, `MaxColumn`, `MaxCrud`, `MaxWrites` and `MaxCopies`
are constants too, so that their values in the runs play no part in the theorems.

Sums are reasoned about through the lemmas that open `EquityGlProofs`, for sequences
(`SumSeq`) and finite sets (`MapThenSumSet`). They get the induction they need from the
well-foundedness of finite sets in the library (`SetInduction`, `FiniteInduction`), which
take a set where the library's theorems over predicates take an operator that the
installed provers cannot instantiate.

### What is only model-checked

* Liveness: `EveryCallEnds`, on the pool. The prover does not handle
  fairness or `ENABLED`; the invariant its argument would start from is `PoolIsNeverStuck`.
  `FairRegisterSpec` is used where TLC refutes `InactiveClassTakesNoMovement`.
* That the pinned pool of the `pool` run is never stuck although it is no larger than the
  number of its calls (above).
* The three claims of section 6, which TLC refutes.

## 6. Where the code and the text differ

Three of the differences are a run with one property, and a counterexample.

* `claim_buyback_atomic`: `equity_buyback.rs:75` says that "the register move + its
  journal commit together". The journal is booked when the sink answers and the
  row is committed later: a call that stops in between leaves the journal alone, and
  a retry posts another. `JournalsAreExplained` says what does hold.
* `claim_inactive_class`: `share_class.model.yaml:54` says that "inactive classes stop
  accepting new movements". `transfer_shares` never loads the class, so shares of an
  inactive class, and of one in the trash, are still transferred.
* `claim_codes_unique`: `BRD.md:23` and `guarded_routes.rs:16-17` say that the code of a
  class is unique and that the database enforces it. The migration that stripped
  tenancy dropped the index (`20260909104947_strip_tenancy.up.sql:72`), and leaves a new
  one to the composing service.

The others came up while modelling, and are not runs of their own.

* `equity_dividend.rs:10-11` says that "the state flip + its journal + its outbox stage
  commit together". The window of the buyback exists here too, but the derived
  source id makes it harmless to cash: a later payment completes the first
  (`NeverRemitsMoreThanDeclared`).
* `equity_gl.rs:17` says "Exactly one of debit/credit is > 0". A class may have par 0,
  and then an issue posts a capital line of zero.
* `guarded_routes.rs:16-17` says that a class has "no cross-entity register invariant". A
  buyback retires capital at the par value of its own day, so patching the par value
  strands capital on a class without shares; `RetiredClassHasNoCapital` is checked, and
  proved, where par stays the same.
* `BRD.md` BR-6 says that a payment "settles the SAME payable". It settles the total its
  row stores, the declaration posts the exact one, and the difference, at most half a
  unit a dividend (`PayableResidualIsSmall`), stays on the payable.
* `equity_read.rs:49` says that the allocations add up to the total "for an unchanged
  register". That is exact if the rate is representable in its column
  (`AllocationsAddUp`); with a finer rate they are products of the stored one.
* `seed_order.yml` says that its order satisfies the foreign keys and puts dividends
  before share classes. The binary does not read it; seeding in that order is
  refused as soon as both files insert rows (the mutant of `SeedingCompletes`).

## 7. What is not modelled

* **The outbox relay** and consumers are other crates. What they may rely on is in
  `ReplayNeverNegative` and `ReplayIsRegister`.
* **Authentication and row-level scoping** are done by the composing service; the
  models keep only whether a company is in scope.
* **Raw writes of dividends** through the unguarded routes. Those of the register are
  modelled; a raw dividend is one more row `pay_dividend` believes.
* **The DTOs a row is read back as**, and the projections of the query service, copy its
  columns and change nothing.
* **Paging, filters, list DTOs, bulk creation and upserts** are generated into the
  services, have no caller in the repository, and run in a crate that is not in it.
  The generic handlers are in that crate too; for a `PATCH` the models take the
  entity's `apply_patch`, which nothing else calls.
* **Generated event types** (`domain/event`), repository traits and re-exports: nothing
  constructs or calls them.
* **The steps of the migrations**; the schema they end in is modelled by its CHECKs and
  foreign keys.
* A retried issue, buyback or declaration (`hazards`, `timeout_retry`): its identity is
  minted inside the call, so that nothing relates it to the first.

## 8. Plan

Done: the modules of section 2, the runs of section 3 and the theorems of section 5. What could
follow:

1. The least pinned pool that is never stuck as a theorem: an invariant that counts the
   calls which can wait to open a transaction, in place of all calls.
2. Raw writes of dividends behind the unguarded routes, with what they do to `pay_dividend`.
3. `RetiringClearsCapital` for the whole service, beside the dividend verbs.
