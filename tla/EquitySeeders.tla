---------------------------- MODULE EquitySeeders ----------------------------
(***************************************************************************)
(* The seeder binary: runs of it, which may be filtered, forced, stopped   *)
(* half-way and started again, or overlap; and the rollback of a seeder.   *)
(*                                                                         *)
(* A seed file is a custom block: it may insert nothing, which is how the  *)
(* files are shipped, or rows.  The rows of a seed reference those of the  *)
(* seeds of their masters, or rows from elsewhere if a master's file       *)
(* inserts nothing, so that masters are given fixed ids and the rest new   *)
(* ones.                                                                   *)
(***************************************************************************)
EXTENDS Naturals, Sequences, FiniteSetsExt

CONSTANTS
  Run,       \* the runs of the binary at a time: one that ended may be started again
  MaxCopies, \* bound: how often a seed is inserted
  Filters    \* the seeders whose name contains an argument, for the arguments given

Entity == {"dividend", "share_class", "shareholder", "share_transaction"}

ASSUME SeedersAssumption == Filters \subseteq SUBSET Entity /\ MaxCopies \in Nat \ {0}

VARIABLES
  seeds,    \* the entities whose seed file inserts rows
  foreign,  \* the entities whose table has rows from elsewhere
  copies,   \* copies[e]: how often the rows of e's seed are in its table
  step,     \* step[r]: what run r does next
  at,       \* at[r]: the seeder run r is at, in its order
  args,     \* args[r]: the arguments of run r
  shared    \* whether two runs have been under way at once, or one was forced

seederVars == << seeds, foreign, copies, step, at, args, shared >>

-----------------------------------------------------------------------------
\* Mutant: the order of migrations/seeds/seed_order.yml.
order_of_the_seed_files(e) ==
  CASE e = "dividend"          -> 1
    [] e = "share_class"       -> 2
    [] e = "shareholder"       -> 3
    [] e = "share_transaction" -> 4

order(e) ==
  CASE e = "share_class"       -> 1
    [] e = "dividend"          -> 2
    [] e = "shareholder"       -> 3
    [] e = "share_transaction" -> 4

\* The seeders, sorted by their order.
seeders ==
  CHOOSE s \in [1 .. Cardinality(Entity) -> Entity] :
    \A i, j \in DOMAIN s : i < j => order(s[i]) < order(s[j])

References(e) ==
  CASE e = "dividend"          -> {"share_class"}
    [] e = "share_transaction" -> {"share_class", "shareholder"}
    [] OTHER                   -> {}

Masters == UNION {References(e) : e \in Entity}

UnderWay(r) == step[r] \in {"check", "run"}
Seeder(r)   == seeders[at[r]]

NoArgs == [filter |-> {}, force |-> FALSE]

\* Run r is over.
End(r, outcome) == /\ step' = [step EXCEPT ![r] = outcome]
                   /\ at' = [at EXCEPT ![r] = 0]
                   /\ args' = [args EXCEPT ![r] = NoArgs]

\* Run r, with arguments a, goes on from seeder i to the next its filter lets
\* through, or ends.
GoOn(r, a, i) ==
  LET left == {j \in i + 1 .. Len(seeders) : seeders[j] \in a.filter} IN
  IF left = {} THEN End(r, "ok")
  ELSE /\ at' = [at EXCEPT ![r] = Min(left)]
       /\ step' = [step EXCEPT ![r] = IF a.force THEN "run" ELSE "check"]
       /\ args' = [args EXCEPT ![r] = a]

-----------------------------------------------------------------------------
main(r) ==
  /\ ~ UnderWay(r)
  /\ \E filter \in Filters, force \in BOOLEAN :
       /\ GoOn(r, [filter |-> filter, force |-> force], 0)
       /\ shared' = (shared \/ force \/ \E s \in Run : UnderWay(s))
  /\ UNCHANGED << seeds, foreign, copies >>

\* Mutant: the table is not looked at.
should_run_always(r) ==
  /\ step[r] = "check"
  /\ step' = [step EXCEPT ![r] = "run"]
  /\ UNCHANGED << seeds, foreign, copies, at, args, shared >>

\* The table is looked at in one statement: any row of it counts as seeded.
should_run(r) ==
  LET empty == copies[Seeder(r)] = 0 /\ Seeder(r) \notin foreign IN
  /\ step[r] = "check"
  /\ \/ empty /\ step' = [step EXCEPT ![r] = "run"] /\ UNCHANGED << at, args >>
     \/ ~ empty /\ GoOn(r, args[r], at[r])
  /\ UNCHANGED << seeds, foreign, copies, shared >>

\* The foreign keys and the primary key let the rows of e's seed in.
Accepted(e) ==
  /\ \A m \in References(e) : IF m \in seeds THEN copies[m] > 0 ELSE m \in foreign
  /\ e \in Masters => copies[e] = 0

\* The file is executed in one statement, all of it or nothing.
run(r) ==
  LET e == Seeder(r) IN
  /\ step[r] = "run"
  /\ copies[e] < MaxCopies
  /\ \/ e \notin seeds /\ GoOn(r, args[r], at[r]) /\ UNCHANGED copies
     \/ e \in seeds /\ Accepted(e) /\ GoOn(r, args[r], at[r])
                    /\ copies' = [copies EXCEPT ![e] = @ + 1]
     \/ e \in seeds /\ ~ Accepted(e) /\ End(r, "failed") /\ UNCHANGED copies
  /\ UNCHANGED << seeds, foreign, shared >>

\* A crash, or a database that cannot be reached.
stop(r) ==
  /\ UnderWay(r)
  /\ End(r, "stopped")
  /\ UNCHANGED << seeds, foreign, copies, shared >>

\* Somebody rolls a seeder back between runs, unless a foreign key refuses it:
\* every row of the table goes.
rollback(e) ==
  /\ \A r \in Run : ~ UnderWay(r)
  /\ \A d \in Entity : e \in References(d) => copies[d] = 0 /\ d \notin foreign
  /\ copies' = [copies EXCEPT ![e] = 0]
  /\ foreign' = foreign \ {e}
  /\ UNCHANGED << seeds, step, at, args, shared >>

-----------------------------------------------------------------------------
SeedersInit ==
  /\ seeds \in SUBSET Entity
  /\ foreign \in {f \in SUBSET Entity : \A e \in f : References(e) \subseteq f}
  /\ copies = [e \in Entity |-> 0]
  /\ step = [r \in Run |-> "idle"]
  /\ at = [r \in Run |-> 0]
  /\ args = [r \in Run |-> NoArgs]
  /\ shared = FALSE

SeedersNext ==
  \/ \E r \in Run : main(r) \/ should_run(r) \/ run(r) \/ stop(r)
  \/ \E e \in Entity : rollback(e)

SeedersSpec == SeedersInit /\ [][SeedersNext]_seederVars

-----------------------------------------------------------------------------
(* Properties                                                              *)

\* A seed is in its table once at most, however many runs were stopped half-way
\* or filtered and started again, as long as no run was forced and none overlapped
\* another, whose look at the table would be stale ("already applied, skipping").
SeedsAreAppliedOnce == \A e \in Entity : shared \/ copies[e] <= 1

\* Every master a seed references has rows from its seed or from elsewhere, not both.
Complete == \A e \in seeds : \A m \in References(e) : (m \in seeds) # (m \in foreign)

\* Wherever runs before it were stopped, filtered or refused, a run without a
\* filter that comes to an end has every seed in its table, or rows from
\* elsewhere in its place: the order of the seeders never has one refused
\* (Seeder::order).
SeedingCompletes ==
  [][\A r \in Run :
       (/\ UnderWay(r) /\ step'[r] \in {"ok", "failed"}
        /\ args[r].filter = Entity /\ ~ shared /\ Complete)
       => /\ step'[r] = "ok"
          /\ \A e \in seeds : copies'[e] > 0 \/ e \in foreign]_seederVars
=============================================================================
