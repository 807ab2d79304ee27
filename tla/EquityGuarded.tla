---------------------------- MODULE EquityGuarded ----------------------------
(***************************************************************************)
(* The doors to the tables beside the write service: the generic CRUD      *)
(* routes of each entity, the three ways the module mounts them, and what  *)
(* the foreign keys let the masters' trash be emptied of while calls are   *)
(* under way.                                                              *)
(***************************************************************************)
EXTENDS EquityRegister

LOCAL INSTANCE SequencesExt
LOCAL INSTANCE Functions

CONSTANTS
  Surfaces,  \* the mounts looked at, a subset of DOMAIN Mounts
  MaxCrud    \* bound: the writes that come through CRUD routes

VARIABLES
  surface,  \* the mount of this deployment
  trash,    \* the soft-deleted masters, with the status they had
  purged,   \* the masters deleted for good: their ids do not come back
  hidden,   \* the soft-deleted rows of share_transactions
  crud      \* how many writes came through CRUD routes

guardedVars == << registerVars, surface, trash, purged, hidden, crud >>
asideVars   == << surface, trash, purged, hidden, crud >>

-----------------------------------------------------------------------------
(* The routers: the writes each lets through.                              *)

Writes == {"create", "update", "delete", "restore", "purge"}

create_share_transaction_routes      == Writes
create_share_transaction_read_routes == {}
create_dividend_routes               == Writes
create_dividend_read_routes          == {}
create_share_class_routes            == Writes
create_share_class_read_routes       == {}
create_shareholder_routes            == Writes
create_shareholder_read_routes       == {}

all_crud_routes ==
  [dividend          |-> create_dividend_routes,
   share_class       |-> create_share_class_routes,
   shareholder       |-> create_shareholder_routes,
   share_transaction |-> create_share_transaction_routes]

readonly_routes ==
  [dividend          |-> create_dividend_read_routes,
   share_class       |-> create_share_class_read_routes,
   shareholder       |-> create_shareholder_read_routes,
   share_transaction |-> create_share_transaction_read_routes]

\* Mutant: the register is mounted with its writes.
guarded_with_register_routes ==
  [share_transaction |-> create_share_transaction_routes,
   dividend          |-> create_dividend_read_routes,
   share_class       |-> create_share_class_routes,
   shareholder       |-> create_shareholder_routes]

create_guarded_equity_routes ==
  [share_transaction |-> create_share_transaction_read_routes,
   dividend          |-> create_dividend_read_routes,
   share_class       |-> create_share_class_routes,
   shareholder       |-> create_shareholder_routes]

Mounts == [all |-> all_crud_routes, readonly |-> readonly_routes,
           guarded |-> create_guarded_equity_routes]

ASSUME GuardedAssumption == Surfaces \subseteq DOMAIN Mounts /\ MaxCrud \in Nat

\* A request for a write of an entity reaches its service.
Through(entity, write) ==
  /\ write \in Mounts[surface][entity]
  /\ crud < MaxCrud
  /\ crud' = crud + 1
  /\ UNCHANGED surface

-----------------------------------------------------------------------------
(* Foreign keys.                                                           *)

\* The rows a call has inserted into a transaction that is still open.
Pending(k) ==
  IF req[k] # NoRequest /\ req[k].verb \in MovementVerb
     /\ pc[k] \in CASE req[k].verb = "buyback" -> {"post", "stage", "commit"}
                    [] OTHER                   -> {"stage", "commit"}
    THEN ToSet(Rows(k)) ELSE {}

\* Mutant: the rows of open transactions do not count.
ReferencedOnceCommitted(m) ==
  \E row \in ToSet(register) \cup ToSet(hidden) : m \in {row.class, row.holder}

\* Whether a row references master m, deleted rows and uncommitted ones included:
\* the insert of a row holds a key lock on its masters until its transaction ends.
Referenced(m) ==
  \E row \in ToSet(register) \cup ToSet(hidden) \cup UNION {Pending(k) : k \in Call} :
    m \in {row.class, row.holder}

-----------------------------------------------------------------------------
(* Masters.  A deleted class is one load_class does not return and the     *)
(* foreign keys accept, so it stands as inactive while it is in the trash. *)

\* The trash with master m in it, which had some status.
Trashed(m, status) == [n \in DOMAIN trash \cup {m} |-> IF n = m THEN status ELSE trash[n]]

new_share_class(c) ==
  /\ c \notin purged
  /\ register_share_class(c)
  /\ UNCHANGED asideVars

new_shareholder(h) ==
  /\ h \notin purged
  /\ register_shareholder(h)
  /\ UNCHANGED asideVars

edit_share_class(c) ==
  /\ Through("share_class", "update")
  /\ c \notin DOMAIN trash
  /\ update_share_class(c)
  /\ UNCHANGED << trash, purged, hidden >>

trash_share_class(c) ==
  /\ Through("share_class", "delete")
  /\ classes[c].status # "absent"
  /\ c \notin DOMAIN trash
  /\ trash' = Trashed(c, classes[c].status)
  /\ classes' = [classes EXCEPT ![c].status = "inactive"]
  /\ UNCHANGED << hubVars, shareholders, register, par, purged, hidden >>

restore_share_class(c) ==
  /\ Through("share_class", "restore")
  /\ c \in DOMAIN trash
  /\ trash' = Restrict(trash, DOMAIN trash \ {c})
  /\ classes' = [classes EXCEPT ![c].status = trash[c]]
  /\ UNCHANGED << hubVars, shareholders, register, par, purged, hidden >>

purge_share_class(c) ==
  /\ Through("share_class", "purge")
  /\ c \in DOMAIN trash
  /\ ~ Referenced(c)
  /\ trash' = Restrict(trash, DOMAIN trash \ {c})
  /\ purged' = purged \cup {c}
  /\ classes' = [classes EXCEPT ![c].status = "absent"]
  /\ UNCHANGED << hubVars, shareholders, register, par, hidden >>

trash_shareholder(h) ==
  /\ Through("shareholder", "delete")
  /\ h \in shareholders
  /\ h \notin DOMAIN trash
  /\ trash' = Trashed(h, "active")
  /\ UNCHANGED << registerVars, purged, hidden >>

restore_shareholder(h) ==
  /\ Through("shareholder", "restore")
  /\ h \in DOMAIN trash
  /\ trash' = Restrict(trash, DOMAIN trash \ {h})
  /\ UNCHANGED << registerVars, purged, hidden >>

purge_shareholder(h) ==
  /\ Through("shareholder", "purge")
  /\ h \in DOMAIN trash
  /\ ~ Referenced(h)
  /\ trash' = Restrict(trash, DOMAIN trash \ {h})
  /\ purged' = purged \cup {h}
  /\ shareholders' = shareholders \ {h}
  /\ UNCHANGED << hubVars, classes, register, par, hidden >>

-----------------------------------------------------------------------------
(* Raw rows of the register, where share_transactions is mounted writable. *)
(* They pass the CHECKs and foreign keys, and nothing else.                *)

RawRow(c, h, type) == [txn |-> "raw", txn_type |-> type, class |-> c, holder |-> h,
                       quantity |-> 1, amount |-> 0, gl_posted |-> FALSE]

create_share_transaction(c, h) ==
  /\ Through("share_transaction", "create")
  /\ classes[c].status # "absent"
  /\ h \in shareholders
  /\ \E type \in TxnType : register' = Append(register, RawRow(c, h, type))
  /\ UNCHANGED << hubVars, classes, shareholders, par, trash, purged, hidden >>

update_share_transaction(i) ==
  /\ Through("share_transaction", "update")
  /\ \E type \in TxnType : register' = [register EXCEPT ![i].txn_type = type]
  /\ UNCHANGED << hubVars, classes, shareholders, par, trash, purged, hidden >>

delete_share_transaction(i) ==
  /\ Through("share_transaction", "delete")
  /\ register' = RemoveAt(register, i)
  /\ hidden' = Append(hidden, register[i])
  /\ UNCHANGED << hubVars, classes, shareholders, par, trash, purged >>

restore_share_transaction(i) ==
  /\ Through("share_transaction", "restore")
  /\ register' = Append(register, hidden[i])
  /\ hidden' = RemoveAt(hidden, i)
  /\ UNCHANGED << hubVars, classes, shareholders, par, trash, purged >>

purge_share_transaction(i) ==
  /\ Through("share_transaction", "purge")
  /\ hidden' = RemoveAt(hidden, i)
  /\ UNCHANGED << registerVars, trash, purged >>

-----------------------------------------------------------------------------
GuardedInit ==
  /\ RegisterInit
  /\ surface \in Surfaces
  /\ trash = << >>
  /\ purged = {}
  /\ hidden = << >>
  /\ crud = 0

GuardedMasters ==
  \/ \E c \in ShareClass : \/ new_share_class(c)     \/ edit_share_class(c)
                           \/ trash_share_class(c)   \/ restore_share_class(c)
                           \/ purge_share_class(c)
  \/ \E h \in Shareholder : \/ new_shareholder(h)     \/ trash_shareholder(h)
                            \/ restore_shareholder(h) \/ purge_shareholder(h)

RawWrites ==
  \/ \E c \in ShareClass, h \in Shareholder : create_share_transaction(c, h)
  \/ \E i \in 1 .. Len(register) : update_share_transaction(i)
                                   \/ delete_share_transaction(i)
  \/ \E i \in 1 .. Len(hidden) : restore_share_transaction(i)
                                 \/ purge_share_transaction(i)

GuardedNext ==
  \/ \E k \in Call : /\ begin_call(k) \/ MovementStep(k) \/ interrupt_call(k)
                     /\ UNCHANGED asideVars
  \/ GuardedMasters
  \/ RawWrites

GuardedSpec == GuardedInit /\ [][GuardedNext]_guardedVars

-----------------------------------------------------------------------------
(* Properties                                                              *)

\* Behind the guarded and the read-only mount no request but a verb moves a
\* share: holdings stay within what was issued and the outbox tells all of the
\* register, whatever is done to the masters meanwhile (guarded_routes.rs, "the
\* register must be mutated ONLY through the write service").
RegisterIsGuarded ==
  surface # "all" => NonNegative /\ ReplayIsRegister /\ ReplayNeverNegative

\* A row of the register, deleted or not, has its class and its holder, although
\* a master may be deleted for good between the read a verb makes of it and the
\* commit of the verb's rows, and however the mount lets rows be written.
ReferencesResolve ==
  \A row \in ToSet(register) \cup ToSet(hidden) :
    classes[row.class].status # "absent" /\ row.holder \in shareholders
=============================================================================
