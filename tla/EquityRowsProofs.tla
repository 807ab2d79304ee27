--------------------------- MODULE EquityRowsProofs ---------------------------
(***************************************************************************)
(* The rows of the four entities, for every set of ids, any number of      *)
(* writes and any rows from before the rules: no write breaks a declared   *)
(* rule, and none is refused for a value it leaves as it was, though the   *)
(* rules see a value as it comes and the CHECKs as it is rounded.          *)
(***************************************************************************)
EXTENDS EquityRows, TLAPS

-----------------------------------------------------------------------------
(* The rules, against the CHECKs.                                          *)

\* The row rules forbid what the declared CHECKs forbid.
LEMMA DeclaredAreRowRules ==
  ASSUME NEW k \in Kind, NEW row
  PROVE  Breaks(DeclaredChecks(k), row) \subseteq Breaks(RowRules(k), row)
<1>1. CASE k = "share_class"
  BY <1>1 DEF Breaks, DeclaredChecks, RowRules, ShareClassRowRules
<1>2. CASE k = "shareholder"
  BY <1>2 DEF Breaks, DeclaredChecks, RowRules, ShareholderRowRules
<1>3. CASE k = "dividend"
  BY <1>3 DEF Breaks, DeclaredChecks, RowRules
<1>4. CASE k = "share_transaction"
  BY <1>4 DEF Breaks, DeclaredChecks, RowRules, ShareTransactionRowRules
<1>5. QED BY <1>1, <1>2, <1>3, <1>4 DEF Kind

\* And nothing that no CHECK forbids.
LEMMA RowRulesAreChecks ==
  ASSUME NEW k \in Kind, NEW row
  PROVE  Breaks(RowRules(k), row)
           \subseteq Breaks(AmountChecks(k), row) \cup Breaks(DeclaredChecks(k), row)
<1>1. CASE k = "share_class"
  BY <1>1 DEF Breaks, AmountChecks, DeclaredChecks, RowRules, ShareClassRowRules
<1>2. CASE k = "shareholder"
  BY <1>2 DEF Breaks, AmountChecks, DeclaredChecks, RowRules, ShareholderRowRules
<1>3. CASE k = "dividend"
  BY <1>3 DEF Breaks, AmountChecks, DeclaredChecks, RowRules
<1>4. CASE k = "share_transaction"
  BY <1>4 DEF Breaks, AmountChecks, DeclaredChecks, RowRules, ShareTransactionRowRules
<1>5. QED BY <1>1, <1>2, <1>3, <1>4 DEF Kind

-----------------------------------------------------------------------------
(* The conversions.                                                        *)

\* A row has the columns of its entity.
IsRow(k, row) == row = [c \in Columns(k) |-> row[c]]

\* What a write makes of a body is a row of the entity.
LEMMA BodiesBecomeRows ==
  ASSUME NEW k \in Kind, NEW row, NEW dto, NEW json
  PROVE  /\ IsRow(k, from_create_dto(k, dto))
         /\ IsRow(k, apply_update(k, row, dto))
         /\ IsRow(k, apply_patch(k, row, json))
<1>1. /\ from_create_dto(k, dto) = Assigned(Columns(k), dto)
      /\ apply_update(k, row, dto) = Assigned(Columns(k), dto)
  BY DEF Kind, from_create_dto, apply_update, ShareClassFromCreate, ShareClassApplyUpdate,
         ShareholderFromCreate, ShareholderApplyUpdate, DividendFromCreate,
         DividendApplyUpdate, ShareTransactionFromCreate, ShareTransactionApplyUpdate
<1>2. apply_patch(k, row, json) = Patched(k, row, json)
  BY DEF Kind, apply_patch, ShareClassApplyPatch, ShareholderApplyPatch,
         DividendApplyPatch, ShareTransactionApplyPatch
<1>3. QED BY <1>1, <1>2 DEF IsRow, Assigned, Patched

-----------------------------------------------------------------------------
(* The columns.                                                            *)

\* What a column keeps, it keeps when it is written again, and rounding neither
\* makes nor takes away what does not fit.
LEMMA KeptIsKept ==
  ASSUME NEW c, NEW v
  PROVE  /\ Kept(c, Kept(c, v)) = Kept(c, v)
         /\ c \in Amount => (Kept(c, v) = "huge" <=> v = "huge")
         /\ c \notin Amount => Kept(c, v) = v
BY DEF Kept

\* So a stored row is what is stored of it.
LEMMA StoredIsStored ==
  ASSUME NEW k \in Kind, NEW row, IsRow(k, row)
  PROVE  /\ IsRow(k, Stored(row))
         /\ DOMAIN row = Columns(k) /\ DOMAIN Stored(row) = Columns(k)
         /\ \A c \in Columns(k) : Stored(row)[c] = Kept(c, row[c])
         /\ Stored(Stored(row)) = Stored(row)
         /\ Overflows(row) = {} => Overflows(Stored(row)) = {}
<1>1. DOMAIN row = Columns(k)
  BY DEF IsRow
<1>2. /\ Stored(row) = [c \in Columns(k) |-> Kept(c, row[c])]
      /\ DOMAIN Stored(row) = Columns(k)
      /\ \A c \in Columns(k) : Stored(row)[c] = Kept(c, row[c])
  BY <1>1 DEF Stored
<1>3. IsRow(k, Stored(row))
  BY <1>2 DEF IsRow
<1>4. Stored(Stored(row)) = [c \in Columns(k) |-> Kept(c, Stored(row)[c])]
  BY <1>2 DEF Stored
<1>5. Stored(Stored(row)) = Stored(row)
  BY <1>2, <1>4, KeptIsKept
<1>6. Overflows(row) = {} => Overflows(Stored(row)) = {}
  BY <1>1, <1>2, KeptIsKept DEF Overflows
<1>7. QED BY <1>1, <1>2, <1>3, <1>5, <1>6

\* The rules are about columns the entity has, and those of the declared CHECKs
\* are not amounts.
LEMMA RulesAreOfColumns ==
  ASSUME NEW k \in Kind
  PROVE  /\ DOMAIN AmountChecks(k) \subseteq Columns(k)
         /\ DOMAIN DeclaredChecks(k) \subseteq Columns(k) \ Amount
<1> USE DEF Columns, Entity, Amount, AmountChecks, DeclaredChecks
<1>1. CASE k = "share_class"
  BY <1>1 DEF ShareClass
<1>2. CASE k = "shareholder"
  BY <1>2 DEF Shareholder
<1>3. CASE k = "dividend"
  BY <1>3 DEF Dividend, DividendRowRules
<1>4. CASE k = "share_transaction"
  BY <1>4 DEF ShareTransaction
<1>5. QED BY <1>1, <1>2, <1>3, <1>4 DEF Kind

-----------------------------------------------------------------------------
(* The invariant.                                                          *)

\* A row of the table is what its columns keep, and meets the CHECKs on amounts,
\* and those on text where ch says that the database has them.
IsKept(k, ch, row) ==
  /\ IsRow(k, row)
  /\ Stored(row) = row
  /\ Overflows(row) = {}
  /\ Breaks(AmountChecks(k), row) = {}
  /\ ch => Breaks(DeclaredChecks(k), row) = {}

\* A table holds such rows, and the last refusal was justified.
RowsInv ==
  /\ kind \in Kind
  /\ DOMAIN rows = Id /\ rows = [i \in Id |-> rows[i]]
  /\ \A i \in Id : rows[i] # NoRow => IsKept(kind, checked, rows[i])
  /\ RefusalsAreJustified

\* The rows from before the rules are rows of their entity, and are kept as they
\* are: no amount of theirs is finer than its column.
LEMMA LegacyRows ==
  ASSUME NEW k \in Kind, NEW row \in Legacy(k)
  PROVE  IsRow(k, row) /\ Stored(row) = row
<1> DEFINE Of(set) == Built(k, [c \in set |-> "v"])
           plain == {Of(Builder[k].required), Of(Columns(k))}
           Fine(r) == IsRow(k, r) /\ \A c \in Columns(k) : Kept(c, r[c]) = r[c]
<1>1. \A set : Fine(Of(set))
  <2> SUFFICES ASSUME NEW set
               PROVE  Fine(Of(set))
    OBVIOUS
  <2>1. IsRow(k, Of(set))
    BY DEF Built, IsRow
  <2>2. ASSUME NEW c \in Columns(k)
        PROVE  Of(set)[c] \in {"v", "null"}
    BY <2>2 DEF Built
  <2>3. \A c : Kept(c, "v") = "v" /\ Kept(c, "null") = "null"
    BY DEF Kept
  <2> HIDE DEF Of
  <2>4. QED BY <2>1, <2>2, <2>3
<1>2. \/ row \in plain
      \/ \E r \in plain, c \in Columns(k) \cap Text : \E v \in Typed(c) :
           row = [r EXCEPT ![c] = v]
  BY DEF Legacy
<1>3. \A r \in plain : Fine(r)
  BY <1>1
<1>4. ASSUME NEW r, Fine(r), NEW c \in Columns(k) \cap Text, NEW v
      PROVE  Fine([r EXCEPT ![c] = v])
  <2>1. c \notin Amount
    BY DEF Text, Amount
  <2>2. Kept(c, v) = v
    BY <2>1, KeptIsKept
  <2>3. DOMAIN r = Columns(k)
    BY <1>4 DEF IsRow
  <2>4. IsRow(k, [r EXCEPT ![c] = v])
    BY <2>3 DEF IsRow
  <2>5. QED BY <1>4, <2>2, <2>3, <2>4
<1>5. Fine(row)
  <2> HIDE DEF plain, Fine
  <2>1. QED BY <1>2, <1>3, <1>4
<1>6. DOMAIN row = Columns(k) /\ row = [c \in Columns(k) |-> row[c]]
  BY <1>5 DEF IsRow
<1>7. QED BY <1>5, <1>6 DEF Stored

\* It holds of every table a behaviour begins with.
LEMMA RowsInvInit ==
  ASSUME RowsInit
  PROVE  RowsInv
<1>1. kind \in Kind /\ last = NoRow
  BY RowsAssumption DEF RowsInit
<1>2. PICK i \in Id, row \in Legacy(kind) \cup {NoRow} :
        /\ row # NoRow => DatabaseAccepts(kind, row)
        /\ rows = [j \in Id |-> IF j = i THEN row ELSE NoRow]
  BY DEF RowsInit
<1>3. row # NoRow => IsKept(kind, checked, row)
  BY <1>1, <1>2, LegacyRows DEF IsKept, DatabaseAccepts
<1>4. QED BY <1>1, <1>2, <1>3 DEF RowsInv, RefusalsAreJustified

\* What refuses a row is a value that changed: the rows in the table break no
\* CHECK and overflow no column, and hold nothing that would be rounded.
LEMMA RefusedForAChange ==
  ASSUME kind \in Kind, NEW before, NEW row, IsRow(kind, row),
         before # NoRow => IsKept(kind, checked, before),
         ~ (RefusedColumns(kind, before, row) = {} /\ DatabaseAccepts(kind, row))
  PROVE  \E c \in DOMAIN row :
           /\ before = NoRow \/ before[c] # row[c]
           /\ \/ \E rules \in {AmountChecks(kind), DeclaredChecks(kind)} :
                   c \in Breaks(rules, row) \cup Breaks(rules, Stored(row))
              \/ c \in Overflows(row)
<1>1. /\ DOMAIN row = Columns(kind) /\ \A c \in Columns(kind) : Stored(row)[c] = Kept(c, row[c])
      /\ DOMAIN AmountChecks(kind) \subseteq Columns(kind)
      /\ DOMAIN DeclaredChecks(kind) \subseteq Columns(kind)
  BY StoredIsStored, RulesAreOfColumns
<1>2. before # NoRow => /\ DOMAIN before = Columns(kind)
                        /\ \A c \in Columns(kind) : before[c] = Kept(c, before[c])
                        /\ Stored(before) = before
  BY StoredIsStored DEF IsKept
<1>3. CASE RefusedColumns(kind, before, row) # {}
  <2>1. PICK c \in Breaks(RowRules(kind), row) : before = NoRow \/ before[c] # row[c]
    BY <1>3 DEF RefusedColumns
  <2>2. PICK rules \in {AmountChecks(kind), DeclaredChecks(kind)} : c \in Breaks(rules, row)
    BY <2>1, RowRulesAreChecks
  <2>3. c \in DOMAIN row
    BY <1>1, <2>2 DEF Breaks
  <2>4. QED BY <2>1, <2>2, <2>3
<1>4. CASE Overflows(row) # {}
  <2>1. PICK c \in DOMAIN row \cap Amount : row[c] = "huge"
    BY <1>4 DEF Overflows
  <2>2. ASSUME before # NoRow
        PROVE  before[c] # row[c]
    BY <1>1, <1>2, <2>1, <2>2 DEF IsKept, Overflows
  <2>3. c \in Overflows(row)
    BY <2>1 DEF Overflows
  <2>4. QED BY <2>1, <2>2, <2>3
<1>5. ASSUME NEW rules \in {AmountChecks(kind), DeclaredChecks(kind)},
             NEW c \in Breaks(rules, Stored(row)),
             before # NoRow => Breaks(rules, before) = {}
      PROVE  c \in DOMAIN row /\ (before = NoRow \/ before[c] # row[c])
  <2>1. c \in DOMAIN rules /\ c \in Columns(kind) /\ Kept(c, row[c]) \in rules[c]
    BY <1>1 DEF Breaks
  <2>2. ASSUME before # NoRow
        PROVE  before[c] # row[c]
    <3>1. before[c] \notin rules[c]
      BY <1>5, <2>1, <2>2 DEF Breaks
    <3>2. QED BY <1>2, <2>1, <2>2, <3>1
  <2>3. QED BY <1>1, <2>1, <2>2
<1>6. CASE Breaks(AmountChecks(kind), Stored(row)) # {}
  <2>1. before # NoRow => Breaks(AmountChecks(kind), before) = {}
    BY DEF IsKept
  <2>2. QED BY <1>5, <1>6, <2>1
<1>7. CASE checked /\ Breaks(DeclaredChecks(kind), Stored(row)) # {}
  <2>1. before # NoRow => Breaks(DeclaredChecks(kind), before) = {}
    BY <1>7 DEF IsKept
  <2>2. QED BY <1>5, <1>7, <2>1
<1>8. QED BY <1>3, <1>4, <1>6, <1>7 DEF DatabaseAccepts

\* What a write does: a refusal is justified, and a row that is stored is let in
\* by the database and breaks no declared rule in a column that changed.
LEMMA StoreKeepsRows ==
  ASSUME RowsInv, NEW i \in Id, NEW row, IsRow(kind, row), Store(i, row)
  PROVE  /\ RowsInv'
         /\ \A j \in Id \ {i} : rows'[j] = rows[j]
         /\ rows'[i] = rows[i] \/
              /\ Breaks(AmountChecks(kind), rows'[i]) = {}
              /\ \A c \in Breaks(DeclaredChecks(kind), rows'[i]) :
                   rows[i] # NoRow /\ rows[i][c] = rows'[i][c]
<1> DEFINE accepted == /\ RefusedColumns(kind, rows[i], row) = {}
                       /\ DatabaseAccepts(kind, row)
<1> USE DEF RowsInv
<1>1. /\ last' = [id |-> i, before |-> rows[i], after |-> row, refused |-> ~ accepted]
      /\ \/ accepted /\ rows' = [rows EXCEPT ![i] = Stored(row)]
         \/ ~ accepted /\ rows' = rows
      /\ kind' = kind /\ checked' = checked
  BY DEF Store
<1>3. RefusalsAreJustified'
  <2>1. last'.refused = ~ accepted /\ last'.before = rows[i] /\ last'.after = row
    BY <1>1
  <2>2. ~ accepted =>
          \E c \in DOMAIN row :
            /\ rows[i] = NoRow \/ rows[i][c] # row[c]
            /\ \/ \E rules \in {AmountChecks(kind), DeclaredChecks(kind)} :
                    c \in Breaks(rules, row) \cup Breaks(rules, Stored(row))
               \/ c \in Overflows(row)
    BY RefusedForAChange
  <2> HIDE DEF accepted
  <2>3. last'.refused =>
          \E c \in DOMAIN last'.after :
            /\ last'.before = NoRow \/ last'.before[c] # last'.after[c]
            /\ \/ \E rules \in {AmountChecks(kind'), DeclaredChecks(kind')} :
                    c \in Breaks(rules, last'.after) \cup Breaks(rules, Stored(last'.after))
               \/ c \in Overflows(last'.after)
    BY <1>1, <2>1, <2>2
  <2>4. QED BY <2>3 DEF RefusalsAreJustified, Breaks, Stored, Overflows
<1>4. CASE accepted
  <2>1. /\ rows' = [rows EXCEPT ![i] = Stored(row)]
        /\ rows'[i] = Stored(row) /\ \A j \in Id \ {i} : rows'[j] = rows[j]
        /\ DOMAIN rows' = Id /\ rows' = [j \in Id |-> rows'[j]]
    BY <1>1, <1>4
  <2>2. IsKept(kind, checked, Stored(row))
    BY <1>4, StoredIsStored DEF IsKept, DatabaseAccepts
  <2>3. RowsInv'
    <3>1. \A j \in Id : rows'[j] # NoRow => IsKept(kind', checked', rows'[j])
      BY <1>1, <2>1, <2>2
    <3>2. kind' \in Kind
      BY <1>1
    <3>3. QED
      <4> HIDE DEF accepted
      <4>1. QED BY <1>3, <2>1, <3>1, <3>2 DEF RowsInv
  <2>4. ASSUME NEW c \in Breaks(DeclaredChecks(kind), rows'[i])
        PROVE  rows[i] # NoRow /\ rows[i][c] = rows'[i][c]
    <3>1. c \in DOMAIN DeclaredChecks(kind) /\ c \in Columns(kind) \ Amount
      BY <2>4, RulesAreOfColumns DEF Breaks
    <3>2. rows'[i][c] = row[c]
      BY <2>1, <3>1, StoredIsStored, KeptIsKept
    <3>3. c \in Breaks(RowRules(kind), row)
      <4>1. c \in Breaks(DeclaredChecks(kind), row)
        BY <2>4, <3>1, <3>2 DEF Breaks
      <4>2. QED BY <4>1, DeclaredAreRowRules
    <3>4. QED BY <1>4, <3>2, <3>3 DEF RefusedColumns
  <2>5. Breaks(AmountChecks(kind), rows'[i]) = {}
    BY <1>4, <2>1 DEF DatabaseAccepts
  <2>6. QED BY <2>1, <2>3, <2>4, <2>5
<1>5. CASE ~ accepted
  <2>1. rows' = rows
    BY <1>1, <1>5
  <2>2. \A j \in Id : rows'[j] # NoRow => IsKept(kind', checked', rows'[j])
    BY <1>1, <2>1
  <2>3. QED BY <1>1, <1>3, <2>1, <2>2
<1>6. QED BY <1>4, <1>5

\* A create, an update and a patch write a row of the entity.
LEMMA WritesStore ==
  ASSUME RowsInv, NEW i \in Id, create(i) \/ update(i) \/ partial_update(i)
  PROVE  \E row : IsRow(kind, row) /\ Store(i, row)
BY BodiesBecomeRows DEF RowsInv, create, update, partial_update

\* Every step keeps it.
LEMMA RowsInvStep ==
  ASSUME RowsInv, [RowsNext]_rowsVars
  PROVE  RowsInv'
<1>1. ASSUME rows' = rows \/ \A i \in Id : rows'[i] \in {rows[i], NoRow},
             DOMAIN rows' = Id, rows' = [i \in Id |-> rows'[i]],
             kind' = kind, checked' = checked, last' = last
      PROVE  RowsInv'
  <2>1. \A i \in Id : rows'[i] # NoRow => IsKept(kind, checked, rows[i]) /\ rows'[i] = rows[i]
    BY <1>1 DEF RowsInv
  <2>2. \A i \in Id : rows'[i] # NoRow => IsKept(kind', checked', rows'[i])
    BY <1>1, <2>1
  <2>3. RefusalsAreJustified'
    BY <1>1 DEF RowsInv, RefusalsAreJustified, Breaks, Stored, Overflows
  <2>4. QED BY <1>1, <2>2, <2>3 DEF RowsInv
<1>2. CASE empty_trash
  BY <1>1, <1>2 DEF empty_trash
<1>3. ASSUME NEW i \in Id, create(i) \/ update(i) \/ partial_update(i)
      PROVE  RowsInv'
  BY <1>3, WritesStore, StoreKeepsRows
<1>4. ASSUME NEW i \in Id, soft_delete(i) \/ restore(i)
      PROVE  RowsInv'
  BY <1>1, <1>4 DEF soft_delete, restore, RowsInv
<1>5. CASE UNCHANGED rowsVars
  BY <1>1, <1>5 DEF rowsVars, RowsInv
<1>6. QED BY <1>2, <1>3, <1>4, <1>5 DEF RowsNext

\* It holds in every state.
LEMMA RowsInvariant == RowsSpec => []RowsInv
BY RowsInvInit, RowsInvStep, PTL DEF RowsSpec

-----------------------------------------------------------------------------
(* The properties.                                                         *)

\* No write is refused for a value it leaves as it was, whatever the rows were
\* before the rules.
THEOREM RefusalsHaveReasons == RowsSpec => []RefusalsAreJustified
<1>1. RowsInv => RefusalsAreJustified
  BY DEF RowsInv
<1>2. QED BY <1>1, RowsInvariant, PTL

\* No write leaves a column breaking a rule that it did not find so, with the
\* CHECKs in the database or without them, and however its amounts are rounded.
THEOREM WritesKeepTheRules == RowsSpec => NoWriteBreaksARule
<1>1. RowsInv /\ [RowsNext]_rowsVars =>
        [\A i \in Id : rows'[i] # NoRow =>
           \A rules \in {AmountChecks(kind), DeclaredChecks(kind)} :
             \A c \in Breaks(rules, rows'[i]) :
               rows[i] # NoRow /\ rows[i][c] = rows'[i][c]]_rowsVars
  <2> SUFFICES ASSUME RowsInv, RowsNext, NEW i \in Id, rows'[i] # NoRow,
                      NEW rules \in {AmountChecks(kind), DeclaredChecks(kind)},
                      NEW c \in Breaks(rules, rows'[i])
               PROVE  rows[i] # NoRow /\ rows[i][c] = rows'[i][c]
    OBVIOUS
  <2>1. CASE rows'[i] = rows[i]
    BY <2>1
  <2>2. ASSUME NEW j \in Id, create(j) \/ update(j) \/ partial_update(j)
        PROVE  rows[i] # NoRow /\ rows[i][c] = rows'[i][c]
    <3>1. PICK row : IsRow(kind, row) /\ Store(j, row)
      BY <2>2, WritesStore
    <3>2. /\ i # j => rows'[i] = rows[i]
          /\ rows'[j] = rows[j] \/
               /\ Breaks(AmountChecks(kind), rows'[j]) = {}
               /\ \A d \in Breaks(DeclaredChecks(kind), rows'[j]) :
                    rows[j] # NoRow /\ rows[j][d] = rows'[j][d]
      BY <3>1, StoreKeepsRows
    <3>3. QED BY <2>1, <3>2
  <2>3. ASSUME NEW j \in Id, soft_delete(j) \/ restore(j)
        PROVE  rows'[i] = rows[i]
    BY <2>3 DEF soft_delete, restore
  <2>4. CASE empty_trash
    BY <2>1, <2>4 DEF empty_trash
  <2>5. QED BY <2>1, <2>2, <2>3, <2>4 DEF RowsNext
<1>2. QED BY <1>1, RowsInvariant, PTL DEF RowsSpec, NoWriteBreaksARule
=============================================================================
