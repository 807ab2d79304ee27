----------------------------- MODULE EquityRows -----------------------------
(***************************************************************************)
(* The rows of the four entities behind the generic CRUD service: the DTOs *)
(* a request is read into, the entity a DTO becomes, the row rules and the *)
(* CHECKs it passes, and what the columns keep of it.                      *)
(*                                                                         *)
(* A value is a member of a small set: "v" and "w", which are fine, the    *)
(* values that break a rule of their column, "null", and the decimals that *)
(* a NUMERIC(20, 4) does not keep as they are: "fine", which is rounded to *)
(* "w", "speck" and "dip", a positive and a negative one that are rounded  *)
(* to zero, and "huge", for which the column has no room.  A body is JSON, *)
(* so a key of it may also be of another type ("ill") or not there.        *)
(***************************************************************************)
EXTENDS Naturals

CONSTANTS
  Id,         \* the ids rows are given
  Kinds,      \* the entities looked at, a subset of Kind
  MaxWrites   \* bound: the writes of a behaviour

Kind == {"share_class", "shareholder", "dividend", "share_transaction"}

ASSUME RowsAssumption == Kinds \subseteq Kind /\ MaxWrites \in Nat

VARIABLES
  kind,     \* the entity this behaviour is about
  checked,  \* whether the migration could add the declared CHECKs
  rows,     \* the table: by id, its row, or NoRow
  trash,    \* the ids whose row is soft-deleted
  last,     \* the last create or update: the id, the row before it, the row the
            \* request makes of it, and whether it was refused
  writes    \* the number of writes so far

rowsVars == << kind, checked, rows, trash, last, writes >>

-----------------------------------------------------------------------------
(* Columns of the entities, the ones that are an Option apart.             *)

ShareClass == [always |-> {"code", "name", "par_value", "currency",
                 "share_capital_account_id", "share_premium_account_id", "status"},
               option |-> {}]

Shareholder == [always |-> {"name", "holder_type"}, option |-> {"party_id"}]

Dividend == [always |-> {"share_class_id", "declaration_date", "per_share_amount",
               "shares_outstanding", "total_amount", "status",
               "retained_earnings_account_id", "dividend_payable_account_id"},
             option |-> {"payment_date"}]

ShareTransaction == [always |-> {"share_class_id", "shareholder_id", "txn_type",
                       "quantity", "price_per_share", "amount", "txn_date",
                       "gl_posted"},
                     option |-> {"counterparty_shareholder_id", "transfer_group_id",
                                 "posting_reference"}]

Entity == [share_class |-> ShareClass, shareholder |-> Shareholder,
           dividend |-> Dividend, share_transaction |-> ShareTransaction]

Columns(k) == Entity[k].always \cup Entity[k].option

Text   == {"code", "name", "currency", "posting_reference"}
Amount == {"par_value", "quantity", "price_per_share", "amount",
           "per_share_amount", "shares_outstanding", "total_amount"}

\* The values of a column's type: "v" is the default where there is one.
Typed(c) == {"v", "w"} \cup (CASE c \in Text   -> {"blank", "long"}
                               [] c \in Amount -> {"zero", "negative", "fine", "speck",
                                                 "dip", "huge"}
                               [] OTHER        -> {})

Values(k, c) == Typed(c) \cup (IF c \in Entity[k].option THEN {"null"} ELSE {})

NoRow == [none |-> TRUE]

\* The builders: the columns build() insists on, and those it defaults.
ShareClassBuilder == [required |-> ShareClass.always \ {"status"},
                      default |-> {"status"}]

ShareholderBuilder == [required |-> {"name"}, default |-> {"holder_type"}]

DividendBuilder == [required |-> Dividend.always \ {"status"},
                    default |-> {"status"}]

ShareTransactionBuilder == [required |-> ShareTransaction.always \ {"gl_posted"},
                            default |-> {"gl_posted"}]

Builder == [share_class |-> ShareClassBuilder, shareholder |-> ShareholderBuilder,
            dividend |-> DividendBuilder, share_transaction |-> ShareTransactionBuilder]

\* What build() makes of the columns that were set, for those that need not be.
Built(k, set) ==
  [c \in Columns(k) |-> CASE c \in DOMAIN set          -> set[c]
                          [] c \in Builder[k].default  -> "v"
                          [] OTHER                     -> "null"]

-----------------------------------------------------------------------------
(* Rules.  A rule is the values of a column that break it.                 *)

MustBeText == {"blank", "long"}

\* The amounts below zero, as they come.
BelowZero == {"negative", "dip"}

ShareClassRowRules == [code |-> MustBeText, name |-> MustBeText,
                       currency |-> MustBeText, par_value |-> BelowZero]

ShareholderRowRules == [name |-> MustBeText]

DividendRowRules == [per_share_amount |-> BelowZero,
                     shares_outstanding |-> BelowZero,
                     total_amount |-> BelowZero]

\* Mutant: the rule of posting_reference is forgotten.
ShareTransactionRowRulesShort == [quantity |-> BelowZero,
                                  price_per_share |-> BelowZero,
                                  amount |-> BelowZero]

ShareTransactionRowRules == [quantity |-> BelowZero,
                             price_per_share |-> BelowZero,
                             amount |-> BelowZero,
                             posting_reference |-> {"long"}]

RowRules(k) == CASE k = "share_class"       -> ShareClassRowRules
                 [] k = "shareholder"       -> ShareholderRowRules
                 [] k = "dividend"          -> DividendRowRules
                 [] k = "share_transaction" -> ShareTransactionRowRules

\* The columns of a row that break one of the rules.
Breaks(rules, row) == {c \in DOMAIN rules : row[c] \in rules[c]}

\* Mutant: an update is checked on every column, changed or not.
RefusedColumnsAll(k, before, after) == Breaks(RowRules(k), after)

\* A create is checked on every column, an update on those it changes.
RefusedColumns(k, before, after) ==
  {c \in Breaks(RowRules(k), after) : before = NoRow \/ before[c] # after[c]}

\* The CHECKs on amounts, which every database has.
AmountChecks(k) ==
  CASE k = "share_class"       -> [par_value |-> BelowZero]
    [] k = "shareholder"       -> << >>
    [] k = "dividend"          -> DividendRowRules
    [] k = "share_transaction" -> [quantity |-> BelowZero \cup {"zero"},
                                   price_per_share |-> BelowZero,
                                   amount |-> BelowZero]

\* The declared CHECKs on text, which a database has whose rows all met them.
DeclaredChecks(k) ==
  CASE k = "share_class"       -> [code |-> MustBeText, name |-> MustBeText,
                                   currency |-> MustBeText]
    [] k = "shareholder"       -> [name |-> MustBeText]
    [] k = "dividend"          -> << >>
    [] k = "share_transaction" -> [posting_reference |-> {"long"}]

\* What a column keeps of a value: a NUMERIC(20, 4) rounds what is finer.
Kept(c, v) == IF c \notin Amount THEN v
              ELSE CASE v = "fine"             -> "w"
                     [] v \in {"speck", "dip"} -> "zero"
                     [] OTHER                  -> v

Stored(row) == [c \in DOMAIN row |-> Kept(c, row[c])]

\* The columns that have no room for their value.
Overflows(row) == {c \in DOMAIN row \cap Amount : row[c] = "huge"}

\* The CHECKs see what the columns keep.
DatabaseAccepts(k, row) ==
  /\ Overflows(row) = {}
  /\ Breaks(AmountChecks(k), Stored(row)) = {}
  /\ checked => Breaks(DeclaredChecks(k), Stored(row)) = {}

-----------------------------------------------------------------------------
(* What goes in.  A conversion assigns the columns of the type it makes,   *)
(* one by one.                                                             *)

Assigned(columns, from) == [c \in columns |-> from[c]]

\* Whether serde reads a body as a DTO with the columns of e, and the DTO it reads.
Reads(k, e, body) == /\ \A c \in e.always : body[c] \in Typed(c)
                     /\ \A c \in e.option : body[c] \in Typed(c) \cup {"null", "absent"}

Read(e, body) == [c \in e.always \cup e.option |->
                    IF body[c] = "absent" THEN "null" ELSE body[c]]

\* apply_patch: a key that is there and reads as its column's type is assigned,
\* any other is passed over without an error.
Patched(k, row, json) ==
  [c \in Columns(k) |-> IF json[c] \in Values(k, c) THEN json[c] ELSE row[c]]

\* Share class.
CreateShareClassDto == ShareClass

UpdateShareClassDto == ShareClass

ShareClassFromCreate(dto) == Assigned(Columns("share_class"), dto)

ShareClassApplyUpdate(row, dto) == Assigned(Columns("share_class"), dto)

ShareClassApplyPatch(row, json) == Patched("share_class", row, json)

\* Shareholder.
CreateShareholderDto == Shareholder

UpdateShareholderDto == Shareholder

ShareholderFromCreate(dto) == Assigned(Columns("shareholder"), dto)

ShareholderApplyUpdate(row, dto) == Assigned(Columns("shareholder"), dto)

ShareholderApplyPatch(row, json) == Patched("shareholder", row, json)

\* Dividend.
CreateDividendDto == Dividend

UpdateDividendDto == Dividend

DividendFromCreate(dto) == Assigned(Columns("dividend"), dto)

DividendApplyUpdate(row, dto) == Assigned(Columns("dividend"), dto)

DividendApplyPatch(row, json) == Patched("dividend", row, json)

\* Share transaction.
CreateShareTransactionDto == ShareTransaction

UpdateShareTransactionDto == ShareTransaction

ShareTransactionFromCreate(dto) == Assigned(Columns("share_transaction"), dto)

ShareTransactionApplyUpdate(row, dto) == Assigned(Columns("share_transaction"), dto)

ShareTransactionApplyPatch(row, json) == Patched("share_transaction", row, json)

CreateDto(k) ==
  CASE k = "share_class"       -> CreateShareClassDto
    [] k = "shareholder"       -> CreateShareholderDto
    [] k = "dividend"          -> CreateDividendDto
    [] k = "share_transaction" -> CreateShareTransactionDto

UpdateDto(k) ==
  CASE k = "share_class"       -> UpdateShareClassDto
    [] k = "shareholder"       -> UpdateShareholderDto
    [] k = "dividend"          -> UpdateDividendDto
    [] k = "share_transaction" -> UpdateShareTransactionDto

from_create_dto(k, dto) ==
  CASE k = "share_class"       -> ShareClassFromCreate(dto)
    [] k = "shareholder"       -> ShareholderFromCreate(dto)
    [] k = "dividend"          -> DividendFromCreate(dto)
    [] k = "share_transaction" -> ShareTransactionFromCreate(dto)

apply_update(k, row, dto) ==
  CASE k = "share_class"       -> ShareClassApplyUpdate(row, dto)
    [] k = "shareholder"       -> ShareholderApplyUpdate(row, dto)
    [] k = "dividend"          -> DividendApplyUpdate(row, dto)
    [] k = "share_transaction" -> ShareTransactionApplyUpdate(row, dto)

apply_patch(k, row, json) ==
  CASE k = "share_class"       -> ShareClassApplyPatch(row, json)
    [] k = "shareholder"       -> ShareholderApplyPatch(row, json)
    [] k = "dividend"          -> DividendApplyPatch(row, json)
    [] k = "share_transaction" -> ShareTransactionApplyPatch(row, json)

-----------------------------------------------------------------------------
(* The requests looked at: every column of one value, but one of them.     *)

Bodies(k) ==
  LET Uniform(b) == [c \in Columns(k) |-> b] IN
  UNION {{[Uniform(b) EXCEPT ![c] = j] :
            j \in Typed(c) \cup {"null", "ill", "absent"}} :
           b \in {"v", "w"}, c \in Columns(k)}

Patches(k) ==
  LET Nothing == [c \in Columns(k) |-> "absent"] IN
  UNION {{[Nothing EXCEPT ![c] = j] : j \in Typed(c) \cup {"null", "ill"}} :
           c \in Columns(k)}

\* Bound: the behaviours are of MaxWrites writes.
Writing == writes < MaxWrites /\ writes' = writes + 1

Live(i) == rows[i] # NoRow /\ i \notin trash

\* A write that would store row under id i: refused by a row rule, which sees the
\* row as the request has it, or by the database, with nothing stored, or stored.
Store(i, row) ==
  LET accepted == /\ RefusedColumns(kind, rows[i], row) = {}
                  /\ DatabaseAccepts(kind, row)
  IN /\ last' = [id |-> i, before |-> rows[i], after |-> row, refused |-> ~ accepted]
     /\ \/ accepted /\ rows' = [rows EXCEPT ![i] = Stored(row)]
        \/ ~ accepted /\ rows' = rows
     /\ UNCHANGED << kind, checked, trash >>

create(i) ==
  /\ Writing
  /\ rows[i] = NoRow
  /\ \E body \in Bodies(kind) :
       /\ Reads(kind, CreateDto(kind), body)
       /\ Store(i, from_create_dto(kind, Read(CreateDto(kind), body)))

update(i) ==
  /\ Writing
  /\ Live(i)
  /\ \E body \in Bodies(kind) :
       /\ Reads(kind, UpdateDto(kind), body)
       /\ Store(i, apply_update(kind, rows[i], Read(UpdateDto(kind), body)))

partial_update(i) ==
  /\ Writing
  /\ Live(i)
  /\ \E json \in Patches(kind) : Store(i, apply_patch(kind, rows[i], json))

soft_delete(i) ==
  /\ Writing
  /\ Live(i)
  /\ trash' = trash \cup {i}
  /\ UNCHANGED << kind, checked, rows, last >>

restore(i) ==
  /\ Writing
  /\ i \in trash
  /\ trash' = trash \ {i}
  /\ UNCHANGED << kind, checked, rows, last >>

empty_trash ==
  /\ Writing
  /\ trash # {}
  /\ rows' = [i \in Id |-> IF i \in trash THEN NoRow ELSE rows[i]]
  /\ trash' = {}
  /\ UNCHANGED << kind, checked, last >>

\* The rows a database may hold from before the rules: what a builder makes of
\* the columns it insists on, or of all, one text column possibly breaking its
\* rule.  Bound: a behaviour begins with one of them at most.
Legacy(k) ==
  LET Of(set) == Built(k, [c \in set |-> "v"])
      plain   == {Of(Builder[k].required), Of(Columns(k))}
  IN plain \cup UNION {{[r EXCEPT ![c] = v] : v \in Typed(c)} :
                        r \in plain, c \in Columns(k) \cap Text}

RowsInit ==
  /\ kind \in Kinds
  /\ checked \in BOOLEAN
  /\ \E i \in Id, row \in Legacy(kind) \cup {NoRow} :
       /\ row # NoRow => DatabaseAccepts(kind, row)
       /\ rows = [j \in Id |-> IF j = i THEN row ELSE NoRow]
  /\ trash = {}
  /\ last = NoRow
  /\ writes = 0

RowsNext ==
  \/ \E i \in Id : \/ create(i) \/ update(i) \/ partial_update(i)
                   \/ soft_delete(i) \/ restore(i)
  \/ empty_trash

RowsSpec == RowsInit /\ [][RowsNext]_rowsVars

-----------------------------------------------------------------------------
(* Properties                                                              *)

\* The rules that hold of a table hold from then on, though rows from before
\* them may break them: a write never leaves a column breaking a declared rule
\* that it did not find so, whether or not the database has the CHECK
\* (write_guard: "checked against the row a create or update would store").
NoWriteBreaksARule ==
  [][\A i \in Id : rows'[i] # NoRow =>
       \A rules \in {AmountChecks(kind), DeclaredChecks(kind)} :
         \A c \in Breaks(rules, rows'[i]) :
           rows[i] # NoRow /\ rows[i][c] = rows'[i][c]]_rowsVars

\* A row from before the rules does not become read-only: an update is refused
\* only for a value it brings itself, never for one it leaves as it was.  Such a
\* value breaks a rule as it came, breaks one once it is rounded, or has no room.
RefusalsAreJustified ==
  (last # NoRow /\ last.refused) =>
    \E c \in DOMAIN last.after :
      /\ last.before = NoRow \/ last.before[c] # last.after[c]
      /\ \/ \E rules \in {AmountChecks(kind), DeclaredChecks(kind)} :
              c \in Breaks(rules, last.after) \cup Breaks(rules, Stored(last.after))
         \/ c \in Overflows(last.after)

\* Two classes that are not deleted have two codes (BRD.md, "a unique code and
\* `par_value >= 0` are the only invariants, both DB-enforced").
CodesAreUnique ==
  kind = "share_class" =>
    \A i, j \in Id : Live(i) /\ Live(j) /\ i # j => rows[i]["code"] # rows[j]["code"]
=============================================================================
