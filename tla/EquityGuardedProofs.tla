------------------------ MODULE EquityGuardedProofs ------------------------
(***************************************************************************)
(* The routes beside the write service, for every deployment: behind a     *)
(* mount that keeps the register read-only nothing but a verb moves a      *)
(* share, and behind any mount no row ever loses its class or its holder.  *)
(***************************************************************************)
EXTENDS EquityGuarded, EquityRegisterProofs

LOCAL INSTANCE SequencesExt
LOCAL INSTANCE Functions

-----------------------------------------------------------------------------
(* The rows of a movement, as what references its masters.                 *)

\* A call whose rows are in a transaction that is still open.
Inserted(k) ==
  /\ req[k] # NoRequest /\ req[k].verb \in MovementVerb
  /\ pc[k] \in IF req[k].verb = "buyback" THEN {"post", "stage", "commit"}
                                          ELSE {"stage", "commit"}

LEMMA PendingRows ==
  ASSUME NEW k \in Call
  PROVE  Pending(k) = IF Inserted(k) THEN ToSet(Rows(k)) ELSE {}
<1>1. (CASE req[k].verb = "buyback" -> {"post", "stage", "commit"}
         [] OTHER                   -> {"stage", "commit"})
        = IF req[k].verb = "buyback" THEN {"post", "stage", "commit"} ELSE {"stage", "commit"}
  OBVIOUS
<1>2. QED BY <1>1, Zenon DEF Pending, Inserted

\* The rows of a movement are of its class and of the holders it names, and
\* each of those has one.
LEMMA RowsName ==
  ASSUME NEW k \in Call, req[k] \in Movement
  PROVE  /\ Rows(k) \in Seq(Row)
         /\ req[k].class \in ShareClass
         /\ Named(req[k]) \subseteq Shareholder
         /\ \A i \in 1 .. Len(Rows(k)) : /\ Rows(k)[i].class = req[k].class
                                         /\ Rows(k)[i].holder \in Named(req[k])
         /\ \A h \in Named(req[k]) :
              \E row \in ToSet(Rows(k)) : row.class = req[k].class /\ row.holder = h
         /\ \E row \in ToSet(Rows(k)) : row.class = req[k].class
<1>1. /\ req[k].verb = "issue" => Named(req[k]) = {req[k].to}
      /\ req[k].verb = "transfer" => Named(req[k]) = {req[k].from, req[k].to}
      /\ req[k].verb = "buyback" => Named(req[k]) = {req[k].from}
  BY Zenon DEF Named
<1>2. CASE req[k] \in IssueShares
  <2>1. Rows(k) = << IssueRow(k) >> /\ Named(req[k]) = {req[k].to}
    BY <1>1, <1>2, RowsOf DEF IssueShares
  <2>2. /\ IssueRow(k) \in Row /\ IssueRow(k).class = req[k].class
        /\ IssueRow(k).holder = req[k].to
        /\ req[k].class \in ShareClass /\ req[k].to \in Shareholder
    BY <1>2 DEF IssueShares, IssueRow, Row, TxnType
  <2>3. IssueRow(k) \in ToSet(Rows(k)) /\ Rows(k) \in Seq(Row)
    BY <2>1, <2>2 DEF ToSet
  <2>4. QED BY <2>1, <2>2, <2>3
<1>3. CASE req[k] \in BuybackShares
  <2>1. Rows(k) = << BuybackRow(k) >> /\ Named(req[k]) = {req[k].from}
    BY <1>1, <1>3, RowsOf DEF BuybackShares
  <2>2. /\ BuybackRow(k) \in Row /\ BuybackRow(k).class = req[k].class
        /\ BuybackRow(k).holder = req[k].from
        /\ req[k].class \in ShareClass /\ req[k].from \in Shareholder
    BY <1>3 DEF BuybackShares, BuybackRow, Row, TxnType
  <2>3. BuybackRow(k) \in ToSet(Rows(k)) /\ Rows(k) \in Seq(Row)
    BY <2>1, <2>2 DEF ToSet
  <2>4. QED BY <2>1, <2>2, <2>3
<1>4. CASE req[k] \in TransferShares
  <2> DEFINE out == TransferLeg(k, "transfer_out", req[k].from)
             in  == TransferLeg(k, "transfer_in", req[k].to)
  <2>1. Rows(k) = << out, in >> /\ Named(req[k]) = {req[k].from, req[k].to}
    BY <1>1, <1>4, RowsOf DEF TransferShares
  <2>2. /\ out \in Row /\ out.class = req[k].class /\ out.holder = req[k].from
        /\ in \in Row /\ in.class = req[k].class /\ in.holder = req[k].to
        /\ req[k].class \in ShareClass
        /\ req[k].from \in Shareholder /\ req[k].to \in Shareholder
    BY <1>4 DEF TransferShares, TransferLeg, Row, TxnType
  <2> HIDE DEF out, in
  <2>3. out \in ToSet(Rows(k)) /\ in \in ToSet(Rows(k)) /\ Rows(k) \in Seq(Row)
    BY <2>1, <2>2 DEF ToSet
  <2>4. Len(Rows(k)) = 2 /\ Rows(k)[1] = out /\ Rows(k)[2] = in
    BY <2>1
  <2>5. QED BY <2>1, <2>2, <2>3, <2>4
<1>5. QED BY <1>2, <1>3, <1>4 DEF Movement

\* Removing an entry leaves only entries that were there.
LEMMA RemoveAtType ==
  ASSUME NEW S, NEW s \in Seq(S), NEW i \in 1 .. Len(s)
  PROVE  RemoveAt(s, i) \in Seq(S) /\ s[i] \in S
BY DEF RemoveAt

-----------------------------------------------------------------------------
(* The inductive invariant of ReferencesResolve.                           *)

\* The rows there may be, those raised through a writable mount included.
AnyRow == [txn: Call \cup {"raw"}, txn_type: TxnType, class: ShareClass,
           holder: Shareholder, quantity: Int, amount: Int, gl_posted: BOOLEAN]

\* The rows whose masters are there.
Standing == {row \in AnyRow : /\ classes[row.class].status # "absent"
                              /\ row.holder \in shareholders}

MastersOK ==
  /\ classes \in [ShareClass -> ShareClassRow]
  /\ shareholders \subseteq Shareholder
  /\ \A m \in DOMAIN trash : trash[m] \in {"active", "inactive"}

\* A row in an open transaction has its masters as well: it keeps them from
\* being purged until it is committed or rolled back.
PendingStand ==
  \A k \in Call : Inserted(k) =>
    /\ classes[req[k].class].status # "absent"
    /\ Named(req[k]) \subseteq shareholders

GuardedInv ==
  /\ CallsOK
  /\ MastersOK
  /\ register \in Seq(Standing) /\ hidden \in Seq(Standing)
  /\ PendingStand

\* Every row of the register, deleted or not, has its masters.
LEMMA StandingResolve ==
  ASSUME GuardedInv
  PROVE  ReferencesResolve
BY DEF GuardedInv, ReferencesResolve, ToSet, Standing

\* A call that inserted rows carries a movement.
LEMMA InsertedMoves ==
  ASSUME CallsOK, NEW k \in Call, Inserted(k)
  PROVE  pc[k] \in Await /\ req[k] \in Movement
<1>1. pc[k] \in Await
  BY DEF Inserted, Await
<1>2. QED BY <1>1, CallUnderWay, MovementByVerb DEF Inserted

-----------------------------------------------------------------------------
(* Masters.                                                                *)

\* What a write of a master does: it leaves the calls and the rows alone, and
\* takes away no master that a row references.
MasterWrite ==
  /\ UNCHANGED << hubVars, register, hidden, par, surface >>
  /\ MastersOK'
  /\ \A c \in ShareClass : Referenced(c) /\ classes[c].status # "absent" =>
       classes'[c].status # "absent"
  /\ \A h \in Shareholder : Referenced(h) /\ h \in shareholders => h \in shareholders'

LEMMA MasterWrites ==
  ASSUME MastersOK, GuardedMasters
  PROVE  MasterWrite
<1> USE DEF MastersOK, MasterWrite, asideVars, hubVars, Through
<1>1. \A p \in ParValues, s \in {"active", "inactive"} :
        [status |-> s, par_value |-> p] \in ShareClassRow
  BY ParValuesAssumption DEF ShareClassRow
<1>2. ASSUME NEW c \in ShareClass, new_share_class(c) PROVE MasterWrite
  <2>1. /\ classes' \in [ShareClass -> ShareClassRow]
        /\ \A d \in ShareClass : classes'[d].status \in {classes[d].status, "active"}
    <3>1. PICK p \in ParValues :
            classes' = [classes EXCEPT ![c] = [status |-> "active", par_value |-> p]]
      BY <1>2 DEF new_share_class, register_share_class
    <3>2. QED BY <1>1, <3>1
  <2>2. QED BY <1>2, <2>1 DEF new_share_class, register_share_class
<1>3. ASSUME NEW c \in ShareClass, edit_share_class(c) PROVE MasterWrite
  <2>1. /\ classes' \in [ShareClass -> ShareClassRow]
        /\ \A d \in ShareClass :
             classes'[d].status \in {classes[d].status, "active", "inactive"}
    <3>1. PICK p \in ParValues, s \in {"active", "inactive"} :
            classes' = [classes EXCEPT ![c] = [status |-> s, par_value |-> p]]
      BY <1>3 DEF edit_share_class, update_share_class
    <3>2. QED BY <1>1, <3>1
  <2>2. QED BY <1>3, <2>1 DEF edit_share_class, update_share_class
<1>4. ASSUME NEW c \in ShareClass, trash_share_class(c) PROVE MasterWrite
  <2>1. /\ classes' \in [ShareClass -> ShareClassRow]
        /\ \A d \in ShareClass : classes'[d].status \in {classes[d].status, "inactive"}
    BY <1>4 DEF trash_share_class, ShareClassRow
  <2>2. classes[c].status \in {"active", "inactive"}
    BY <1>4 DEF trash_share_class, ShareClassRow
  <2>3. \A m \in DOMAIN trash' : trash'[m] \in {"active", "inactive"}
    BY <1>4, <2>2 DEF trash_share_class, Trashed
  <2>4. QED BY <1>4, <2>1, <2>3 DEF trash_share_class
<1>5. ASSUME NEW c \in ShareClass, restore_share_class(c) PROVE MasterWrite
  <2>1. trash[c] \in {"active", "inactive"}
    BY <1>5 DEF restore_share_class
  <2>2. /\ classes' \in [ShareClass -> ShareClassRow]
        /\ \A d \in ShareClass : classes'[d].status \in {classes[d].status, trash[c]}
    BY <1>5, <2>1 DEF restore_share_class, ShareClassRow
  <2>3. \A m \in DOMAIN trash' : trash'[m] \in {"active", "inactive"}
    BY <1>5 DEF restore_share_class, Restrict
  <2>4. QED BY <1>5, <2>1, <2>2, <2>3 DEF restore_share_class
<1>6. ASSUME NEW c \in ShareClass, purge_share_class(c) PROVE MasterWrite
  <2>1. /\ classes' \in [ShareClass -> ShareClassRow]
        /\ \A d \in ShareClass \ {c} : classes'[d].status = classes[d].status
    BY <1>6 DEF purge_share_class, ShareClassRow
  <2>2. ~ Referenced(c)
    BY <1>6 DEF purge_share_class
  <2>3. \A m \in DOMAIN trash' : trash'[m] \in {"active", "inactive"}
    BY <1>6 DEF purge_share_class, Restrict
  <2>4. QED BY <1>6, <2>1, <2>2, <2>3 DEF purge_share_class
<1>7. ASSUME NEW h \in Shareholder, new_shareholder(h) PROVE MasterWrite
  BY <1>7 DEF new_shareholder, register_shareholder
<1>8. ASSUME NEW h \in Shareholder, trash_shareholder(h) PROVE MasterWrite
  BY <1>8 DEF trash_shareholder, Trashed, registerVars
<1>9. ASSUME NEW h \in Shareholder, restore_shareholder(h) PROVE MasterWrite
  BY <1>9 DEF restore_shareholder, Restrict, registerVars
<1>10. ASSUME NEW h \in Shareholder, purge_shareholder(h) PROVE MasterWrite
  BY <1>10 DEF purge_shareholder, Restrict
<1>11. QED
  BY <1>2, <1>3, <1>4, <1>5, <1>6, <1>7, <1>8, <1>9, <1>10 DEF GuardedMasters

\* A master that a row needs is referenced, whether the row is committed or not.
LEMMA NeededAreReferenced ==
  ASSUME CallsOK
  PROVE  /\ \A i \in 1 .. Len(register) : /\ Referenced(register[i].class)
                                          /\ Referenced(register[i].holder)
         /\ \A i \in 1 .. Len(hidden) : /\ Referenced(hidden[i].class)
                                        /\ Referenced(hidden[i].holder)
         /\ \A k \in Call : Inserted(k) =>
              /\ Referenced(req[k].class)
              /\ \A h \in Named(req[k]) : Referenced(h)
<1>1. \A i \in 1 .. Len(register) : register[i] \in ToSet(register)
  BY DEF ToSet
<1>2. \A i \in 1 .. Len(hidden) : hidden[i] \in ToSet(hidden)
  BY DEF ToSet
<1>3. ASSUME NEW k \in Call, Inserted(k)
      PROVE  Referenced(req[k].class) /\ \A h \in Named(req[k]) : Referenced(h)
  <2>1. Pending(k) = ToSet(Rows(k))
    BY <1>3, PendingRows
  <2>2. /\ \E row \in Pending(k) : row.class = req[k].class
        /\ \A h \in Named(req[k]) : \E row \in Pending(k) : row.holder = h
    BY <1>3, <2>1, InsertedMoves, RowsName
  <2>3. QED BY <2>2 DEF Referenced
<1>4. QED BY <1>1, <1>2, <1>3 DEF Referenced

\* A write of a master keeps the invariant.
LEMMA MasterStep ==
  ASSUME GuardedInv, MasterWrite
  PROVE  GuardedInv'
<1>1. /\ pc' = pc /\ req' = req /\ register' = register /\ hidden' = hidden
  BY DEF MasterWrite, hubVars
<1>2. CallsOK'
  BY <1>1 DEF GuardedInv, CallsOK, AwaitsOf
<1>3. \A i \in 1 .. Len(register) : register[i] \in Standing'
  <2> SUFFICES ASSUME NEW i \in 1 .. Len(register) PROVE register[i] \in Standing'
    OBVIOUS
  <2>1. register[i] \in Standing
    BY DEF GuardedInv
  <2>2. Referenced(register[i].class) /\ Referenced(register[i].holder)
    BY NeededAreReferenced DEF GuardedInv
  <2>3. QED BY <2>1, <2>2 DEF Standing, AnyRow, MasterWrite
<1>4. \A i \in 1 .. Len(hidden) : hidden[i] \in Standing'
  <2> SUFFICES ASSUME NEW i \in 1 .. Len(hidden) PROVE hidden[i] \in Standing'
    OBVIOUS
  <2>1. hidden[i] \in Standing
    BY DEF GuardedInv
  <2>2. Referenced(hidden[i].class) /\ Referenced(hidden[i].holder)
    BY NeededAreReferenced DEF GuardedInv
  <2>3. QED BY <2>1, <2>2 DEF Standing, AnyRow, MasterWrite
<1>5. register' \in Seq(Standing') /\ hidden' \in Seq(Standing')
  BY <1>1, <1>3, <1>4 DEF GuardedInv
<1>6. PendingStand'
  <2> SUFFICES ASSUME NEW k \in Call, Inserted(k)
               PROVE  /\ classes'[req[k].class].status # "absent"
                      /\ Named(req[k]) \subseteq shareholders'
    BY <1>1 DEF PendingStand, Inserted, Named
  <2>1. req[k].class \in ShareClass /\ Named(req[k]) \subseteq Shareholder
    BY InsertedMoves, RowsName DEF GuardedInv
  <2>2. Referenced(req[k].class) /\ \A h \in Named(req[k]) : Referenced(h)
    BY NeededAreReferenced DEF GuardedInv
  <2>3. QED BY <2>1, <2>2 DEF GuardedInv, PendingStand, MasterWrite
<1>7. QED BY <1>2, <1>5, <1>6 DEF GuardedInv, MasterWrite

-----------------------------------------------------------------------------
(* Raw rows.                                                               *)

\* What a write of raw rows comes to: the calls and the masters stay, and every
\* row has its masters.
RowsWrite ==
  /\ UNCHANGED << pc, req, classes, shareholders, trash >>
  /\ register' \in Seq(Standing) /\ hidden' \in Seq(Standing)

\* A row that is raised, edited, trashed, restored or purged through a writable
\* mount leaves rows with masters only.
LEMMA RawWrite ==
  ASSUME GuardedInv, RawWrites
  PROVE  RowsWrite
<1> USE DEF RowsWrite, hubVars, registerVars
<1>1. register \in Seq(Standing) /\ hidden \in Seq(Standing)
  BY DEF GuardedInv
<1>2. ASSUME NEW c \in ShareClass, NEW h \in Shareholder, create_share_transaction(c, h)
      PROVE  RowsWrite
  <2>1. \A type \in TxnType : RawRow(c, h, type) \in Standing
    BY <1>2 DEF create_share_transaction, RawRow, Standing, AnyRow
  <2>2. QED BY <1>1, <1>2, <2>1 DEF create_share_transaction
<1>3. ASSUME NEW i \in 1 .. Len(register), update_share_transaction(i)
      PROVE  RowsWrite
  <2>1. \A row \in Standing, type \in TxnType : [row EXCEPT !.txn_type = type] \in Standing
    BY DEF Standing, AnyRow
  <2>2. PICK type \in TxnType : register' = [register EXCEPT ![i].txn_type = type]
    BY <1>3 DEF update_share_transaction
  <2>3. register[i] \in Standing
    BY <1>1
  <2>4. register' = [register EXCEPT ![i] = [register[i] EXCEPT !.txn_type = type]]
    BY <2>2
  <2>5. register' \in Seq(Standing)
    BY <1>1, <2>1, <2>3, <2>4
  <2>6. QED BY <1>1, <1>3, <2>5 DEF update_share_transaction
<1>4. ASSUME NEW i \in 1 .. Len(register), delete_share_transaction(i)
      PROVE  RowsWrite
  <2>1. RemoveAt(register, i) \in Seq(Standing) /\ register[i] \in Standing
    BY <1>1, RemoveAtType
  <2>2. QED BY <1>1, <1>4, <2>1 DEF delete_share_transaction
<1>5. ASSUME NEW i \in 1 .. Len(hidden), restore_share_transaction(i)
      PROVE  RowsWrite
  <2>1. RemoveAt(hidden, i) \in Seq(Standing) /\ hidden[i] \in Standing
    BY <1>1, RemoveAtType
  <2>2. QED BY <1>1, <1>5, <2>1 DEF restore_share_transaction
<1>6. ASSUME NEW i \in 1 .. Len(hidden), purge_share_transaction(i)
      PROVE  RowsWrite
  <2>1. RemoveAt(hidden, i) \in Seq(Standing)
    BY <1>1, RemoveAtType
  <2>2. QED BY <1>1, <1>6, <2>1 DEF purge_share_transaction
<1>7. QED BY <1>2, <1>3, <1>4, <1>5, <1>6 DEF RawWrites

\* Such a write keeps the invariant.
LEMMA RawStep ==
  ASSUME GuardedInv, RowsWrite
  PROVE  GuardedInv'
<1>1. CallsOK'
  BY DEF GuardedInv, RowsWrite, CallsOK, AwaitsOf
<1>2. MastersOK'
  BY DEF GuardedInv, RowsWrite, MastersOK
<1>3. register' \in Seq(Standing') /\ hidden' \in Seq(Standing')
  BY DEF RowsWrite, Standing
<1>4. PendingStand'
  BY DEF GuardedInv, RowsWrite, PendingStand, Inserted, Named
<1>5. QED BY <1>1, <1>2, <1>3, <1>4 DEF GuardedInv

-----------------------------------------------------------------------------
(* Calls.                                                                  *)

\* The rows of an open transaction were checked when they were inserted, and a
\* transaction is not re-entered.
LEMMA InsertedBefore ==
  ASSUME NEW r \in Movement, NEW a \in DOMAIN Awaits[r.verb],
         Awaits[r.verb][a] \in IF r.verb = "buyback" THEN {"post", "stage", "commit"}
                                                     ELSE {"stage", "commit"}
  PROVE  a = "insert" \/ a \in IF r.verb = "buyback" THEN {"post", "stage", "commit"}
                                                     ELSE {"stage", "commit"}
<1>1. r.verb \in {"issue", "transfer", "buyback"}
  BY DEF Movement, IssueShares, TransferShares, BuybackShares
<1>2. CASE r.verb = "issue"
  BY <1>2 DEF Awaits, IssueAwaits
<1>3. CASE r.verb = "transfer"
  BY <1>3 DEF Awaits, TransferAwaits
<1>4. CASE r.verb = "buyback"
  BY <1>4 DEF Awaits, BuybackAwaits
<1>5. QED BY <1>1, <1>2, <1>3, <1>4

\* A step of a call inserts rows only where their masters are there, and the
\* masters stay.
LEMMA CallKeepsPending ==
  ASSUME GuardedInv, CallsOK', NEW k \in Call,
         begin_call(k) \/ MovementStep(k) \/ interrupt_call(k)
  PROVE  PendingStand'
<1>1. classes' = classes /\ shareholders' = shareholders
  BY DEF begin_call, MovementStep, interrupt_call, load_class, lock_position,
         check_holding, insert_rows, post_movement, stage_event, commit_movement,
         publish_event
<1>2. \A i \in Call \ {k} : pc'[i] = pc[i] /\ req'[i] = req[i]
  BY StepShape DEF begin_call, Begin, GoesOn, TakesLock, Ends, Commits, Advance,
                   GuardedInv, CallsOK
<1>3. ASSUME NEW i \in Call \ {k}, Inserted(i)'
      PROVE  /\ classes'[req'[i].class].status # "absent"
             /\ Named(req'[i]) \subseteq shareholders'
  <2>1. Inserted(i)
    BY <1>2, <1>3 DEF Inserted
  <2>2. QED BY <1>1, <1>2, <2>1 DEF GuardedInv, PendingStand
<1>4. ASSUME Inserted(k)'
      PROVE  /\ classes'[req'[k].class].status # "absent"
             /\ Named(req'[k]) \subseteq shareholders'
  <2>1. CASE begin_call(k)
    <3>1. PICK r \in Requests[k] : /\ req'[k] = r
                                   /\ pc'[k] = IF Valid(r) THEN First[r.verb] ELSE "refused"
      BY <2>1 DEF begin_call, Begin, GuardedInv, CallsOK
    <3>2. r.verb \in MovementVerb => First[r.verb] \in {"load", "lock"}
      BY DEF MovementVerb, First
    <3>3. QED BY <1>4, <3>1, <3>2 DEF Inserted
  <2>2. CASE MovementStep(k) \/ interrupt_call(k)
    <3>1. req' = req /\ pc'[k] \in {"post", "stage", "commit"}
      BY <1>4, <2>2, StepShape DEF Inserted
    <3>2. ~ Ends(k)
      BY <3>1 DEF Ends, Ended, GuardedInv, CallsOK
    <3>3. pc[k] \in Await /\ pc[k] # "publish" /\ Advance(k)
      BY <2>2, <3>2, StepShape DEF GoesOn, TakesLock, Commits, Await
    <3>4. req[k] \in Request /\ pc[k] \in DOMAIN Awaits[req[k].verb]
      BY <3>3, CallUnderWay DEF GuardedInv
    <3>5. pc'[k] = Awaits[req[k].verb][pc[k]]
      BY <3>3 DEF Advance, GuardedInv, CallsOK
    <3>6. req[k] \in Movement
      BY <1>4, <3>1, <3>4, MovementByVerb DEF Inserted
    <3>7. CASE pc[k] = "insert"
      <4>1. pc'[k] # "refused" /\ pc'[k] # "interrupted"
        BY <3>1
      <4>2. ~ Refuse(k) /\ ~ interrupt_call(k)
        BY <4>1 DEF Refuse, interrupt_call, Interrupt, GuardedInv, CallsOK
      <4>3. insert_rows(k)
        BY <2>2, <3>7, <4>2 DEF MovementStep, load_class, lock_position, check_holding,
             post_movement, Post, stage_event, Stage, commit_movement, CommitOutbox,
             publish_event, Publish
      <4>4. RowsAccepted(k)
        BY <4>2, <4>3 DEF insert_rows
      <4>5. QED BY <1>1, <3>1, <4>4 DEF RowsAccepted
    <3>8. CASE pc[k] # "insert"
      <4>1. Inserted(k)
        BY <1>4, <3>1, <3>4, <3>5, <3>6, <3>8, InsertedBefore DEF Inserted
      <4>2. QED BY <1>1, <3>1, <4>1 DEF GuardedInv, PendingStand
    <3>9. QED BY <3>7, <3>8
  <2>3. QED BY <2>1, <2>2
<1>5. ASSUME NEW i \in Call, Inserted(i)'
      PROVE  /\ classes'[req'[i].class].status # "absent"
             /\ Named(req'[i]) \subseteq shareholders'
  BY <1>3, <1>4, <1>5
<1>6. QED BY <1>5, Zenon DEF PendingStand, Named

\* A call's step keeps the calls at awaits of their verbs.
LEMMA CallKeepsCalls ==
  ASSUME CallsOK, NEW k \in Call,
         begin_call(k) \/ MovementStep(k) \/ interrupt_call(k)
  PROVE  CallsOK'
<1>1. CASE begin_call(k)
  <2>1. PICK r \in Requests[k] :
          /\ req' = [req EXCEPT ![k] = r]
          /\ pc' = [pc EXCEPT ![k] = IF Valid(r) THEN First[r.verb] ELSE "refused"]
    BY <1>1 DEF begin_call, Begin
  <2>2. r \in Request
    BY <2>1, RequestsAssumption
  <2>3. First[r.verb] \in AwaitsOf(r) /\ First[r.verb] \in Await /\ r # NoRequest
    BY <2>2, FirstAwait DEF Request, Movement, IssueShares, TransferShares, BuybackShares,
                            DeclareDividend, PayDividend, NoRequest
  <2>4. "refused" \in AwaitsOf(r) /\ "refused" \in Ended
    BY <2>3 DEF AwaitsOf, Ended
  <2>5. QED BY <2>1, <2>2, <2>3, <2>4 DEF CallsOK
<1>2. CASE MovementStep(k) \/ interrupt_call(k)
  BY <1>2, StepShape, CallsStep DEF GoesOn, TakesLock, Ends, Commits, Await
<1>3. QED BY <1>1, <1>2

\* A step of a call adds rows to the register only as it commits them.
LEMMA CallKeepsRows ==
  ASSUME GuardedInv, NEW k \in Call,
         begin_call(k) \/ MovementStep(k) \/ interrupt_call(k)
  PROVE  register' \in Seq(Standing)
<1>1. register \in Seq(Standing)
  BY DEF GuardedInv
<1>2. CASE begin_call(k)
  BY <1>1, <1>2 DEF begin_call
<1>3. CASE MovementStep(k) \/ interrupt_call(k)
  <2>1. CASE Commits(k)
    <3>1. Inserted(k)
      BY <2>1, CallUnderWay, MovementByVerb
      DEF Commits, Inserted, GuardedInv, Await, Request, Movement, MovementVerb,
          IssueShares, TransferShares, BuybackShares, DeclareDividend, PayDividend,
          NoRequest
    <3>2. req[k] \in Movement
      BY <3>1, InsertedMoves DEF GuardedInv
    <3>3. classes[req[k].class].status # "absent" /\ Named(req[k]) \subseteq shareholders
      BY <3>1 DEF GuardedInv, PendingStand
    <3>4. \A i \in 1 .. Len(Rows(k)) : Rows(k)[i] \in Standing
      <4> SUFFICES ASSUME NEW i \in 1 .. Len(Rows(k)) PROVE Rows(k)[i] \in Standing
        OBVIOUS
      <4>1. Rows(k)[i] \in Row
        BY <3>2, RowsName
      <4>2. Rows(k)[i].class = req[k].class /\ Rows(k)[i].holder \in Named(req[k])
        BY <3>2, RowsName
      <4>3. Rows(k)[i] \in AnyRow
        BY <4>1 DEF Row, AnyRow
      <4>4. QED BY <3>3, <4>2, <4>3 DEF Standing
    <3>5. Rows(k) \in Seq(Standing)
      BY <3>2, <3>4, RowsName
    <3>6. QED BY <1>1, <2>1, <3>5 DEF Commits
  <2>2. CASE ~ Commits(k)
    BY <1>1, <1>3, <2>2, StepShape DEF GoesOn, TakesLock, Ends
  <2>3. QED BY <2>1, <2>2
<1>4. QED BY <1>2, <1>3

\* A step of a call keeps the invariant.
LEMMA CallStep ==
  ASSUME GuardedInv, NEW k \in Call,
         begin_call(k) \/ MovementStep(k) \/ interrupt_call(k), UNCHANGED asideVars
  PROVE  GuardedInv'
<1>1. CallsOK'
  BY CallKeepsCalls DEF GuardedInv
<1>2. classes' = classes /\ shareholders' = shareholders
  BY DEF begin_call, MovementStep, interrupt_call, load_class, lock_position,
         check_holding, insert_rows, post_movement, stage_event, commit_movement,
         publish_event
<1>3. MastersOK'
  BY <1>2 DEF GuardedInv, MastersOK, asideVars
<1>4. register' \in Seq(Standing') /\ hidden' \in Seq(Standing')
  BY <1>2, CallKeepsRows DEF GuardedInv, Standing, asideVars
<1>5. PendingStand'
  BY <1>1, CallKeepsPending
<1>6. QED BY <1>1, <1>3, <1>4, <1>5 DEF GuardedInv

-----------------------------------------------------------------------------
\* Every step of the deployment keeps the invariant.
LEMMA GuardedInvStep ==
  ASSUME GuardedInv, [GuardedNext]_guardedVars
  PROVE  GuardedInv'
<1>1. CASE GuardedMasters
  BY <1>1, MasterWrites, MasterStep DEF GuardedInv
<1>2. CASE RawWrites
  BY <1>2, RawWrite, RawStep
<1>3. CASE \E k \in Call : /\ begin_call(k) \/ MovementStep(k) \/ interrupt_call(k)
                           /\ UNCHANGED asideVars
  BY <1>3, CallStep
<1>4. CASE UNCHANGED guardedVars
  <2>1. RowsWrite
    BY <1>4 DEF GuardedInv, RowsWrite, guardedVars, registerVars, hubVars
  <2>2. QED BY <2>1, RawStep
<1>5. QED BY <1>1, <1>2, <1>3, <1>4 DEF GuardedNext

\* It holds of an empty deployment.
LEMMA GuardedInvInit ==
  ASSUME GuardedInit
  PROVE  GuardedInv
<1>1. CallsOK
  BY RegisterInvInit DEF GuardedInit, RegisterInv, TypeOK, CallsOK
<1>2. MastersOK
  BY DEF GuardedInit, RegisterInit, MastersOK, ShareClassRow
<1>3. register = << >> /\ hidden = << >>
  BY DEF GuardedInit, RegisterInit
<1>4. PendingStand
  BY DEF GuardedInit, RegisterInit, HubInit, PendingStand, Inserted
<1>5. QED BY <1>1, <1>2, <1>3, <1>4 DEF GuardedInv

\* No row of the register, committed and trashed alike, ever loses its class or
\* its holder, whichever routes are mounted and whoever empties the trash of the
\* masters while calls are under way.
THEOREM RowsKeepTheirMasters == GuardedSpec => []ReferencesResolve
<1>1. GuardedInit => GuardedInv
  BY GuardedInvInit
<1>2. GuardedInv /\ [GuardedNext]_guardedVars => GuardedInv'
  BY GuardedInvStep
<1>3. GuardedInv => ReferencesResolve
  BY StandingResolve
<1>4. QED BY <1>1, <1>2, <1>3, PTL DEF GuardedSpec

-----------------------------------------------------------------------------
(* Mounts that keep the register read-only.                                *)

\* The inductive invariant of RegisterIsGuarded.
MountInv ==
  /\ surface \in DOMAIN Mounts
  /\ GuardedInv
  /\ surface # "all" => RegisterInv /\ ReplayInv

\* Behind such a mount no raw row is written.
LEMMA NoRawWrite ==
  ASSUME surface \in DOMAIN Mounts, surface # "all"
  PROVE  ~ RawWrites
<1>1. surface \in {"readonly", "guarded"}
  BY DEF Mounts
<1>2. Mounts[surface]["share_transaction"] = {}
  BY <1>1 DEF Mounts, readonly_routes, create_guarded_equity_routes,
              create_share_transaction_read_routes
<1>3. \A write : ~ Through("share_transaction", write)
  BY <1>2 DEF Through
<1>4. QED
  BY <1>3 DEF RawWrites, create_share_transaction, update_share_transaction,
              delete_share_transaction, restore_share_transaction,
              purge_share_transaction

\* No write changes the mount.
LEMMA SurfaceStays ==
  ASSUME MountInv, [GuardedNext]_guardedVars
  PROVE  surface' = surface
<1>1. CASE GuardedMasters
  BY <1>1, MasterWrites DEF MountInv, GuardedInv, MasterWrite
<1>2. CASE RawWrites
  BY <1>2 DEF RawWrites, create_share_transaction, update_share_transaction,
              delete_share_transaction, restore_share_transaction,
              purge_share_transaction, Through
<1>3. CASE UNCHANGED guardedVars \/ UNCHANGED asideVars
  BY <1>3 DEF guardedVars, asideVars
<1>4. QED BY <1>1, <1>2, <1>3 DEF GuardedNext

\* A write of a master changes nothing the register's invariant speaks of.
LEMMA MasterKeepsRegister ==
  ASSUME RegisterInv, ReplayInv, MasterWrite
  PROVE  RegisterInv' /\ ReplayInv'
<1>1. /\ pc' = pc /\ req' = req /\ locks' = locks /\ gl' = gl /\ clock' = clock
      /\ stamp' = stamp /\ outbox' = outbox /\ register' = register /\ par' = par
  BY DEF MasterWrite, hubVars
<1>2. TypeOK'
  BY <1>1 DEF RegisterInv, TypeOK, MasterWrite, MastersOK, AwaitsOf
<1>3. ValidUnderWay'
  BY <1>1, Zenon DEF RegisterInv, ValidUnderWay, Valid
<1>4. PositionsAreLocked' /\ CheckedBoundHolds' /\ NonNegative'
  BY <1>1 DEF RegisterInv, PositionsAreLocked, Holds, CheckedBoundHolds, Checked,
              NonNegative, holding
<1>5. Untimed
  BY <1>1 DEF Untimed
<1>6. QED BY <1>2, <1>3, <1>4, <1>5, UntimedKeepsReplay DEF RegisterInv

\* Every step keeps the mount's invariant.
LEMMA MountInvStep ==
  ASSUME MountInv, [GuardedNext]_guardedVars
  PROVE  MountInv'
<1>1. surface' = surface /\ GuardedInv'
  BY SurfaceStays, GuardedInvStep DEF MountInv
<1>2. ASSUME surface # "all"
      PROVE  RegisterInv' /\ ReplayInv'
  <2>1. RegisterInv /\ ReplayInv /\ ~ RawWrites
    BY <1>2, NoRawWrite DEF MountInv
  <2>2. CASE GuardedMasters
    BY <2>1, <2>2, MasterWrites, MasterKeepsRegister DEF MountInv, GuardedInv
  <2>3. CASE \/ \E k \in Call : begin_call(k) \/ MovementStep(k) \/ interrupt_call(k)
             \/ UNCHANGED guardedVars
    <3>1. [RegisterNext]_registerVars
      BY <2>3 DEF RegisterNext, guardedVars
    <3>2. QED BY <2>1, <3>1, RegisterInvStep, ReplayInvStep
  <2>4. QED BY <2>1, <2>2, <2>3 DEF GuardedNext
<1>3. QED BY <1>1, <1>2 DEF MountInv

\* Behind a mount that keeps the register read-only the holdings stay within
\* what was issued and the outbox tells all of the register, whatever is done to
\* the masters and their trash meanwhile.
THEOREM GuardedRegisterIsSound == GuardedSpec => []RegisterIsGuarded
<1>1. GuardedInit => MountInv
  BY GuardedInvInit, RegisterInvInit, ReplayInvInit, GuardedAssumption
  DEF GuardedInit, MountInv
<1>2. MountInv /\ [GuardedNext]_guardedVars => MountInv'
  BY MountInvStep
<1>3. MountInv => RegisterIsGuarded
  BY DEF MountInv, RegisterIsGuarded, RegisterInv, TypeOK, ReplayInv,
         ReplayedNotNegative, ReplayNeverNegative
<1>4. QED BY <1>1, <1>2, <1>3, PTL DEF GuardedSpec
=============================================================================
