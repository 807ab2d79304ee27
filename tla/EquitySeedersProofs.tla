------------------------ MODULE EquitySeedersProofs ------------------------
(***************************************************************************)
(* The seeder binary, for every set of runs, of filters, and any number of *)
(* copies: a seed is in its table once at most, and an unfiltered run that *)
(* comes to an end has completed the seeding, whatever runs before it did. *)
(***************************************************************************)
EXTENDS EquitySeeders, FiniteSetTheorems, TLAPS

-----------------------------------------------------------------------------
(* The order of the seeders.                                               *)

\* The order of each seeder, by name.
LEMMA Orders ==
  /\ order("share_class") = 1 /\ order("dividend") = 2
  /\ order("shareholder") = 3 /\ order("share_transaction") = 4
  /\ \A e \in Entity : order(e) \in 1 .. 4
  /\ \A d, e \in Entity : order(d) = order(e) => d = e
<1>1. /\ order("share_class") = 1 /\ order("dividend") = 2
      /\ order("shareholder") = 3 /\ order("share_transaction") = 4
  BY DEF order
<1>2. QED BY <1>1 DEF Entity

\* There are four seeders, and the i-th is the one whose order is i.
LEMMA SeedersSorted ==
  /\ seeders \in [1 .. 4 -> Entity] /\ Len(seeders) = 4
  /\ \A i \in 1 .. 4 : order(seeders[i]) = i
  /\ \A e \in Entity : seeders[order(e)] = e
<1> DEFINE Sorted(s) == \A i, j \in DOMAIN s : i < j => order(s[i]) < order(s[j])
<1>1. Cardinality(Entity) = 4
  <2>1. /\ IsFiniteSet({}) /\ Cardinality({}) = 0
    BY FS_EmptySet
  <2>2. /\ IsFiniteSet({} \cup {"dividend"})
        /\ Cardinality({} \cup {"dividend"}) = 1
    BY <2>1, FS_AddElement
  <2>3. /\ IsFiniteSet({"dividend"} \cup {"share_class"})
        /\ Cardinality({"dividend"} \cup {"share_class"}) = 2
    <3>1. {} \cup {"dividend"} = {"dividend"}
      OBVIOUS
    <3>2. QED BY <2>2, <3>1, FS_AddElement
  <2>4. /\ IsFiniteSet({"dividend", "share_class"} \cup {"shareholder"})
        /\ Cardinality({"dividend", "share_class"} \cup {"shareholder"}) = 3
    <3>1. {"dividend"} \cup {"share_class"} = {"dividend", "share_class"}
      OBVIOUS
    <3>2. QED BY <2>3, <3>1, FS_AddElement
  <2>5. Cardinality({"dividend", "share_class", "shareholder"} \cup {"share_transaction"}) = 4
    <3>1. {"dividend", "share_class"} \cup {"shareholder"}
            = {"dividend", "share_class", "shareholder"}
      OBVIOUS
    <3>2. QED BY <2>4, <3>1, FS_AddElement
  <2>6. {"dividend", "share_class", "shareholder"} \cup {"share_transaction"} = Entity
    BY DEF Entity
  <2>7. QED BY <2>5, <2>6
<1>2. \E s \in [1 .. 4 -> Entity] : Sorted(s)
  <2> DEFINE t == [i \in 1 .. 4 |-> CASE i = 1 -> "share_class" [] i = 2 -> "dividend"
                                      [] i = 3 -> "shareholder" [] OTHER -> "share_transaction"]
  <2>1. /\ t[1] = "share_class" /\ t[2] = "dividend" /\ t[3] = "shareholder"
        /\ t[4] = "share_transaction" /\ DOMAIN t = 1 .. 4
    OBVIOUS
  <2>2. t \in [1 .. 4 -> Entity]
    BY DEF Entity
  <2> HIDE DEF t
  <2>3. \A i \in 1 .. 4 : order(t[i]) = i
    BY <2>1, Orders
  <2>4. Sorted(t)
    BY <2>1, <2>3
  <2>5. QED BY <2>2, <2>4
<1>3. seeders \in [1 .. 4 -> Entity] /\ Sorted(seeders)
  BY <1>1, <1>2 DEF seeders
<1>4. Len(seeders) = 4
  BY <1>3
<1>5. \A i \in 1 .. 4 : order(seeders[i]) = i
  <2>1. /\ order(seeders[1]) \in 1 .. 4 /\ order(seeders[2]) \in 1 .. 4
        /\ order(seeders[3]) \in 1 .. 4 /\ order(seeders[4]) \in 1 .. 4
    BY <1>3, Orders
  <2>2. /\ order(seeders[1]) < order(seeders[2]) /\ order(seeders[2]) < order(seeders[3])
        /\ order(seeders[3]) < order(seeders[4])
    BY <1>3
  <2>3. QED BY <2>1, <2>2
<1>6. \A e \in Entity : seeders[order(e)] = e
  BY <1>3, <1>5, Orders
<1>7. QED BY <1>3, <1>4, <1>5, <1>6

\* A seed's masters come before it.
LEMMA MastersFirst ==
  ASSUME NEW e \in Entity, NEW m \in References(e)
  PROVE  m \in Entity /\ order(m) < order(e)
BY Orders DEF References, Entity

-----------------------------------------------------------------------------
(* The invariant.                                                          *)

Arguments == [filter: SUBSET Entity, force: BOOLEAN]
Steps     == {"idle", "check", "run", "ok", "failed", "stopped"}

\* Types: a run under way is at one of the seeders.
SeedersTypeOK ==
  /\ seeds \subseteq Entity /\ foreign \subseteq Entity
  /\ copies \in [Entity -> Nat]
  /\ step \in [Run -> Steps]
  /\ at \in [Run -> 0 .. 4]
  /\ args \in [Run -> Arguments]
  /\ shared \in BOOLEAN
  /\ \A r \in Run : UnderWay(r) => at[r] \in 1 .. 4

\* An entity's table is empty of seeds and of anything else.
Empty(e) == copies[e] = 0 /\ e \notin foreign

\* A seed that inserts rows has them in its table, or others are there.
Settled(e) == e \in seeds => copies[e] > 0 \/ e \in foreign

\* A run that shares the tables with no other finds empty what it found empty.
RunsAlone ==
  /\ \A r, s \in Run : UnderWay(r) /\ UnderWay(s) => r = s
  /\ \A r \in Run : UnderWay(r) => ~ args[r].force
  /\ \A r \in Run : step[r] = "run" => Empty(Seeder(r))
  /\ \A e \in Entity : copies[e] <= 1

\* And, unfiltered, leaves nothing unsettled behind it.
LeavesSettled ==
  \A r \in Run : (UnderWay(r) /\ args[r].filter = Entity) =>
    \A i \in 1 .. at[r] - 1 : Settled(seeders[i])

SeedersInv == SeedersTypeOK /\ (~ shared => RunsAlone /\ LeavesSettled)

\* Where GoOn takes a run: it ends, or is at the next seeder of its filter, which
\* is the next of all when there is no filter.
LEMMA GoesOn ==
  ASSUME SeedersTypeOK, NEW r \in Run, NEW a \in Arguments, NEW i \in 0 .. 4, GoOn(r, a, i)
  PROVE  /\ step' \in [Run -> Steps] /\ at' \in [Run -> 0 .. 4] /\ args' \in [Run -> Arguments]
         /\ \A s \in Run \ {r} : step'[s] = step[s] /\ at'[s] = at[s] /\ args'[s] = args[s]
         /\ \/ /\ step'[r] = "ok"
               /\ a.filter = Entity => i = 4
            \/ /\ step'[r] = IF a.force THEN "run" ELSE "check"
               /\ at'[r] \in 1 .. 4 /\ args'[r] = a
               /\ a.filter = Entity => at'[r] = i + 1
<1> DEFINE left == {j \in i + 1 .. Len(seeders) : seeders[j] \in a.filter}
<1>1. left = {j \in i + 1 .. 4 : seeders[j] \in a.filter}
  BY SeedersSorted
<1>2. NoArgs \in Arguments /\ {"ok", "run", "check"} \subseteq Steps
  BY DEF NoArgs, Arguments, Steps
<1>3. a.filter = Entity => left = i + 1 .. 4
  BY <1>1, SeedersSorted
<1>4. CASE left = {}
  <2>1. End(r, "ok")
    BY <1>4 DEF GoOn
  <2>2. a.filter = Entity => i = 4
    <3>1. i # 4 => 4 \in i + 1 .. 4
      OBVIOUS
    <3>2. QED BY <1>3, <1>4, <3>1
  <2>3. QED BY <1>2, <2>1, <2>2 DEF End, SeedersTypeOK
<1>5. CASE left # {}
  <2>1. /\ at' = [at EXCEPT ![r] = Min(left)]
        /\ step' = [step EXCEPT ![r] = IF a.force THEN "run" ELSE "check"]
        /\ args' = [args EXCEPT ![r] = a]
    BY <1>5 DEF GoOn
  <2>2. Min(left) \in left /\ \A j \in left : Min(left) <= j
    <3>1. \E j \in left : \A l \in left : j <= l
      <4>1. CASE i + 1 \in left
        BY <1>1, <4>1
      <4>2. CASE i + 1 \notin left /\ i + 2 \in left
        BY <1>1, <4>2
      <4>3. CASE i + 1 \notin left /\ i + 2 \notin left /\ i + 3 \in left
        BY <1>1, <4>3
      <4>4. CASE i + 1 \notin left /\ i + 2 \notin left /\ i + 3 \notin left
        <5>1. left = {i + 4}
          BY <1>1, <1>5, <4>4
        <5>2. QED BY <5>1
      <4>5. QED BY <4>1, <4>2, <4>3, <4>4
    <3>2. QED BY <3>1 DEF Min
  <2>3. Min(left) \in 1 .. 4
    BY <1>1, <2>2
  <2>4. a.filter = Entity => Min(left) = i + 1
    BY <1>1, <1>3, <1>5, <2>2
  <2>5. (IF a.force THEN "run" ELSE "check") \in Steps
    BY <1>2
  <2>6. QED BY <2>1, <2>3, <2>4, <2>5 DEF SeedersTypeOK
<1>6. QED BY <1>4, <1>5

\* It holds before any run.
LEMMA SeedersInvInit ==
  ASSUME SeedersInit
  PROVE  SeedersInv
<1>1. SeedersTypeOK /\ \A r \in Run : ~ UnderWay(r) /\ step[r] = "idle"
  <2>1. seeds \subseteq Entity /\ foreign \subseteq Entity /\ copies \in [Entity -> Nat]
    BY DEF SeedersInit
  <2>2. /\ step = [r \in Run |-> "idle"] /\ at = [r \in Run |-> 0]
        /\ args = [r \in Run |-> NoArgs] /\ shared = FALSE
    BY DEF SeedersInit
  <2>3. NoArgs \in Arguments /\ "idle" \in Steps
    BY DEF NoArgs, Arguments, Steps
  <2>4. \A r \in Run : step[r] = "idle" /\ ~ UnderWay(r)
    BY <2>2 DEF UnderWay
  <2>5. /\ step \in [Run -> Steps] /\ at \in [Run -> 0 .. 4]
        /\ args \in [Run -> Arguments] /\ shared \in BOOLEAN
    <3>1. step \in [Run -> Steps] /\ args \in [Run -> Arguments]
      BY <2>2, <2>3, Zenon
    <3>2. at \in [Run -> 0 .. 4]
      BY <2>2
    <3>3. shared \in BOOLEAN
      BY <2>2, Zenon
    <3>4. QED BY <3>1, <3>2, <3>3
  <2>6. QED BY <2>1, <2>4, <2>5, Zenon DEF SeedersTypeOK
<1>2. \A e \in Entity : copies[e] <= 1
  BY DEF SeedersInit
<1>3. QED BY <1>1, <1>2 DEF SeedersInv, RunsAlone, LeavesSettled

\* A run that goes on, its table settled, keeps the invariant.
LEMMA GoingOnKeepsSeeders ==
  ASSUME SeedersInv, NEW r \in Run, UnderWay(r), GoOn(r, args[r], at[r]),
         seeds' = seeds, foreign' = foreign, shared' = shared,
         copies' \in [Entity -> Nat],
         ~ shared => /\ \A e \in Entity : copies'[e] >= copies[e] /\ copies'[e] <= 1
                     /\ Seeder(r) \in seeds =>
                          copies'[Seeder(r)] > 0 \/ Seeder(r) \in foreign
  PROVE  SeedersInv'
<1> USE DEF SeedersInv
<1>1. at[r] \in 1 .. 4 /\ at[r] \in 0 .. 4 /\ args[r] \in Arguments
  BY DEF SeedersTypeOK
<1>2. /\ step' \in [Run -> Steps] /\ at' \in [Run -> 0 .. 4] /\ args' \in [Run -> Arguments]
      /\ \A s \in Run \ {r} : step'[s] = step[s] /\ at'[s] = at[s] /\ args'[s] = args[s]
      /\ \/ step'[r] = "ok"
         \/ /\ step'[r] = IF args[r].force THEN "run" ELSE "check"
            /\ at'[r] \in 1 .. 4 /\ args'[r] = args[r]
            /\ args[r].filter = Entity => at'[r] = at[r] + 1
  BY <1>1, GoesOn
<1>3. /\ \A s \in Run \ {r} : UnderWay(s)' <=> UnderWay(s)
      /\ UnderWay(r)' => /\ at'[r] \in 1 .. 4 /\ args'[r] = args[r]
                         /\ args[r].filter = Entity => at'[r] = at[r] + 1
      /\ UnderWay(r)' /\ ~ args[r].force => step'[r] = "check"
      /\ step'[r] = "run" => UnderWay(r)'
  BY <1>2 DEF UnderWay
<1>4. SeedersTypeOK'
  BY <1>2, <1>3 DEF SeedersTypeOK
<1>5. ASSUME ~ shared
      PROVE  RunsAlone' /\ LeavesSettled'
  <2>1. \A s \in Run : UnderWay(s)' => s = r
    BY <1>3, <1>5 DEF RunsAlone
  <2>2. ~ args[r].force
    BY <1>5 DEF RunsAlone
  <2>3. \A s \in Run : step'[s] # "run"
    BY <1>3, <2>1, <2>2 DEF UnderWay
  <2>4. RunsAlone'
    BY <1>3, <1>5, <2>1, <2>2, <2>3 DEF RunsAlone
  <2>5. ASSUME UnderWay(r)', args'[r].filter = Entity, NEW i \in 1 .. at'[r] - 1
        PROVE  seeders[i] \in seeds => copies'[seeders[i]] > 0 \/ seeders[i] \in foreign
    <3>1. at'[r] = at[r] + 1 /\ args[r].filter = Entity /\ at[r] \in 1 .. 4
      BY <1>1, <1>3, <2>5
    <3>2. CASE i = at[r]
      BY <1>5, <3>2 DEF Seeder
    <3>3. CASE i # at[r]
      <4>1. i \in 1 .. at[r] - 1 /\ seeders[i] \in Entity
        BY <2>5, <3>1, <3>3, SeedersSorted
      <4>2. Settled(seeders[i])
        BY <1>5, <3>1, <4>1 DEF LeavesSettled
      <4>3. copies'[seeders[i]] >= copies[seeders[i]] /\ copies'[seeders[i]] \in Nat
            /\ copies[seeders[i]] \in Nat
        BY <1>5, <4>1 DEF SeedersTypeOK
      <4>4. QED BY <4>2, <4>3 DEF Settled
    <3>4. QED BY <3>2, <3>3
  <2>6. LeavesSettled'
    BY <2>1, <2>5 DEF LeavesSettled, Settled
  <2>7. QED BY <2>4, <2>6
<1>6. QED BY <1>4, <1>5

\* Every step keeps it.
LEMMA SeedersInvStep ==
  ASSUME SeedersInv, [SeedersNext]_seederVars
  PROVE  SeedersInv'
<1> USE DEF SeedersInv
<1>1. CASE UNCHANGED seederVars
  BY <1>1 DEF seederVars, SeedersTypeOK, RunsAlone, LeavesSettled, UnderWay, Seeder, Empty,
              Settled
<1>2. ASSUME NEW r \in Run, main(r)
      PROVE  SeedersInv'
  <2>1. PICK filter \in Filters, force \in BOOLEAN :
          /\ GoOn(r, [filter |-> filter, force |-> force], 0)
          /\ shared' = (shared \/ force \/ \E s \in Run : UnderWay(s))
    BY <1>2 DEF main
  <2>2. /\ ~ UnderWay(r) /\ seeds' = seeds /\ foreign' = foreign /\ copies' = copies
    BY <1>2 DEF main
  <2>3. PICK a \in Arguments : a = [filter |-> filter, force |-> force]
    BY SeedersAssumption DEF Arguments
  <2>4. /\ step' \in [Run -> Steps] /\ at' \in [Run -> 0 .. 4]
        /\ args' \in [Run -> Arguments]
        /\ \A s \in Run \ {r} : step'[s] = step[s] /\ at'[s] = at[s] /\ args'[s] = args[s]
        /\ \/ step'[r] = "ok"
           \/ /\ step'[r] = IF a.force THEN "run" ELSE "check"
              /\ at'[r] \in 1 .. 4 /\ args'[r] = a
              /\ a.filter = Entity => at'[r] = 0 + 1
    BY <2>1, <2>3, GoesOn
  <2>5. /\ \A s \in Run \ {r} : UnderWay(s)' <=> UnderWay(s)
        /\ UnderWay(r)' => /\ at'[r] \in 1 .. 4 /\ args'[r] = a
                           /\ a.filter = Entity => at'[r] = 1
        /\ ~ a.force => step'[r] # "run"
    BY <2>4 DEF UnderWay
  <2>6. SeedersTypeOK'
    BY <2>1, <2>2, <2>4, <2>5 DEF SeedersTypeOK
  <2>7. ASSUME ~ shared'
        PROVE  RunsAlone' /\ LeavesSettled'
    <3>1. ~ shared /\ ~ a.force /\ \A s \in Run : ~ UnderWay(s)
      BY <2>1, <2>3, <2>7
    <3>2. \A s \in Run : UnderWay(s)' => s = r
      BY <2>5, <3>1
    <3>3. \A s \in Run : step'[s] # "run"
      BY <2>4, <2>5, <3>1 DEF UnderWay
    <3>4. RunsAlone'
      BY <2>2, <2>5, <3>1, <3>2, <3>3 DEF RunsAlone
    <3>5. LeavesSettled'
      BY <2>5, <3>2 DEF LeavesSettled
    <3>6. QED BY <3>4, <3>5
  <2>8. QED BY <2>6, <2>7
<1>3. ASSUME NEW r \in Run, should_run(r)
      PROVE  SeedersInv'
  <2>1. /\ step[r] = "check" /\ UnderWay(r) /\ Seeder(r) \in Entity
        /\ seeds' = seeds /\ foreign' = foreign /\ copies' = copies /\ shared' = shared
    BY <1>3, SeedersSorted DEF should_run, UnderWay, Seeder, SeedersTypeOK
  <2>2. CASE Empty(Seeder(r))
    <3>1. step' = [step EXCEPT ![r] = "run"] /\ at' = at /\ args' = args
      BY <1>3, <2>2 DEF should_run, Empty
    <3>2. /\ \A s \in Run : UnderWay(s)' <=> UnderWay(s)
          /\ \A s \in Run : step'[s] = "run" => s = r \/ step[s] = "run"
      BY <2>1, <3>1 DEF UnderWay, SeedersTypeOK
    <3>3. SeedersTypeOK'
      BY <2>1, <3>1, <3>2 DEF SeedersTypeOK, Steps
    <3>4. ~ shared => RunsAlone'
      BY <2>1, <2>2, <3>1, <3>2 DEF RunsAlone, Empty, Seeder
    <3>5. ~ shared => LeavesSettled'
      BY <2>1, <3>1, <3>2 DEF LeavesSettled, Settled
    <3>6. QED BY <2>1, <3>3, <3>4, <3>5
  <2>3. CASE ~ Empty(Seeder(r))
    <3>1. GoOn(r, args[r], at[r])
      BY <1>3, <2>3 DEF should_run, Empty
    <3>2. copies \in [Entity -> Nat] /\ (~ shared => \A e \in Entity : copies[e] <= 1)
      BY DEF SeedersTypeOK, RunsAlone
    <3>3. copies[Seeder(r)] > 0 \/ Seeder(r) \in foreign
      BY <2>1, <2>3, <3>2 DEF Empty
    <3>4. QED BY <2>1, <3>1, <3>2, <3>3, GoingOnKeepsSeeders
  <2>4. QED BY <2>2, <2>3
<1>4. ASSUME NEW r \in Run, run(r)
      PROVE  SeedersInv'
  <2>1. /\ step[r] = "run" /\ UnderWay(r) /\ Seeder(r) \in Entity
        /\ seeds' = seeds /\ foreign' = foreign /\ shared' = shared
    BY <1>4, SeedersSorted DEF run, UnderWay, Seeder, SeedersTypeOK
  <2>2. /\ copies \in [Entity -> Nat]
        /\ ~ shared => copies[Seeder(r)] = 0 /\ \A e \in Entity : copies[e] <= 1
    BY <2>1 DEF SeedersTypeOK, RunsAlone, Empty
  <2>3. CASE Seeder(r) \notin seeds /\ GoOn(r, args[r], at[r]) /\ copies' = copies
    BY <2>1, <2>2, <2>3, GoingOnKeepsSeeders
  <2>4. CASE /\ Seeder(r) \in seeds /\ GoOn(r, args[r], at[r])
             /\ copies' = [copies EXCEPT ![Seeder(r)] = @ + 1]
    <3>1. /\ copies' \in [Entity -> Nat] /\ copies'[Seeder(r)] = copies[Seeder(r)] + 1
          /\ \A e \in Entity \ {Seeder(r)} : copies'[e] = copies[e]
      BY <2>1, <2>2, <2>4
    <3>2. /\ \A e \in Entity : copies'[e] >= copies[e]
          /\ copies'[Seeder(r)] > 0
          /\ ~ shared => \A e \in Entity : copies'[e] <= 1
      BY <2>1, <2>2, <3>1
    <3>3. QED BY <2>1, <2>4, <3>1, <3>2, GoingOnKeepsSeeders
  <2>5. CASE End(r, "failed") /\ copies' = copies
    <3>1. /\ \A s \in Run : UnderWay(s)' => UnderWay(s) /\ s # r
          /\ \A s \in Run \ {r} : step'[s] = step[s] /\ at'[s] = at[s] /\ args'[s] = args[s]
          /\ step'[r] = "failed"
          /\ step' \in [Run -> Steps] /\ at' \in [Run -> 0 .. 4]
          /\ args' \in [Run -> Arguments]
      BY <2>5 DEF End, UnderWay, SeedersTypeOK, Steps, Arguments, NoArgs
    <3>2. QED
      BY <2>1, <2>5, <3>1 DEF SeedersTypeOK, RunsAlone, Empty, Seeder, LeavesSettled, Settled
  <2>6. QED BY <1>4, <2>3, <2>4, <2>5 DEF run
<1>5. ASSUME NEW r \in Run, stop(r)
      PROVE  SeedersInv'
  <2>1. End(r, "stopped") /\ copies' = copies /\ seeds' = seeds /\ foreign' = foreign
        /\ shared' = shared
    BY <1>5 DEF stop
  <2>2. /\ \A s \in Run : UnderWay(s)' => UnderWay(s) /\ s # r
        /\ \A s \in Run \ {r} : step'[s] = step[s] /\ at'[s] = at[s] /\ args'[s] = args[s]
        /\ step'[r] = "stopped"
        /\ step' \in [Run -> Steps] /\ at' \in [Run -> 0 .. 4]
        /\ args' \in [Run -> Arguments]
    BY <2>1 DEF End, UnderWay, SeedersTypeOK, Steps, Arguments, NoArgs
  <2>3. QED
    BY <2>1, <2>2 DEF SeedersTypeOK, RunsAlone, Empty, Seeder, LeavesSettled, Settled
<1>6. ASSUME NEW e \in Entity, rollback(e)
      PROVE  SeedersInv'
  <2>1. /\ \A r \in Run : ~ UnderWay(r)
        /\ copies' = [copies EXCEPT ![e] = 0] /\ foreign' \subseteq foreign
        /\ seeds' = seeds /\ step' = step /\ at' = at /\ args' = args /\ shared' = shared
    BY <1>6 DEF rollback
  <2>2. \A r \in Run : ~ UnderWay(r)' /\ step'[r] # "run"
    BY <2>1 DEF UnderWay
  <2>3. copies' \in [Entity -> Nat] /\ \A d \in Entity : copies'[d] <= copies[d]
    BY <2>1 DEF SeedersTypeOK
  <2>4. SeedersTypeOK'
    BY <2>1, <2>2, <2>3 DEF SeedersTypeOK
  <2>5. ~ shared => RunsAlone' /\ LeavesSettled'
    BY <2>2, <2>3 DEF SeedersTypeOK, RunsAlone, LeavesSettled
  <2>6. QED BY <2>1, <2>4, <2>5
<1>7. QED BY <1>1, <1>2, <1>3, <1>4, <1>5, <1>6 DEF SeedersNext

\* It holds in every state.
LEMMA SeedersInvariant == SeedersSpec => []SeedersInv
BY SeedersInvInit, SeedersInvStep, PTL DEF SeedersSpec

-----------------------------------------------------------------------------
(* The properties.                                                         *)

\* However many runs were stopped, filtered, refused or started again, and however
\* often a seeder was rolled back, no seed is in its table twice.
THEOREM SeedsGoInOnce == SeedersSpec => []SeedsAreAppliedOnce
<1>1. SeedersInv => SeedsAreAppliedOnce
  BY DEF SeedersInv, RunsAlone, SeedsAreAppliedOnce
<1>2. QED BY <1>1, SeedersInvariant, PTL

\* A seed none of whose masters is missing is not refused.
LEMMA NotRefused ==
  ASSUME SeedersInv, ~ shared, Complete, NEW r \in Run, step[r] = "run",
         args[r].filter = Entity, Seeder(r) \in seeds
  PROVE  Accepted(Seeder(r))
<1> DEFINE e == Seeder(r)
<1>1. at[r] \in 1 .. 4 /\ UnderWay(r) /\ e \in Entity /\ order(e) = at[r]
  BY SeedersSorted DEF SeedersInv, SeedersTypeOK, UnderWay, Seeder
<1>2. copies[e] = 0
  BY DEF SeedersInv, RunsAlone, Empty
<1>3. ASSUME NEW m \in References(e)
      PROVE  IF m \in seeds THEN copies[m] > 0 ELSE m \in foreign
  <2>1. m \in Entity /\ order(m) < at[r]
    BY <1>1, MastersFirst
  <2>2. order(m) \in 1 .. at[r] - 1 /\ seeders[order(m)] = m
    BY <1>1, <2>1, Orders, SeedersSorted
  <2>3. Settled(m)
    BY <1>1, <2>2 DEF SeedersInv, LeavesSettled
  <2>4. (m \in seeds) # (m \in foreign)
    BY DEF Complete
  <2>5. QED BY <2>3, <2>4 DEF Settled
<1>4. QED BY <1>2, <1>3 DEF Accepted

\* An unfiltered run that comes to an end ends well, every seed in its table or
\* others in its place, wherever the runs before it were stopped.
THEOREM RunsCompleteTheSeeding == SeedersSpec => SeedingCompletes
<1>1. SeedersInv /\ [SeedersNext]_seederVars =>
        [\A r \in Run :
           (/\ UnderWay(r) /\ step'[r] \in {"ok", "failed"}
            /\ args[r].filter = Entity /\ ~ shared /\ Complete)
           => /\ step'[r] = "ok"
              /\ \A e \in seeds : copies'[e] > 0 \/ e \in foreign]_seederVars
  <2> SUFFICES ASSUME SeedersInv, SeedersNext, NEW r \in Run, UnderWay(r),
                      step'[r] \in {"ok", "failed"}, args[r].filter = Entity,
                      ~ shared, Complete
               PROVE  /\ step'[r] = "ok"
                      /\ \A e \in seeds : copies'[e] > 0 \/ e \in foreign
    OBVIOUS
  <2> USE DEF SeedersInv
  <2>1. step[r] \in {"check", "run"} /\ step'[r] # step[r]
    BY DEF UnderWay
  <2>2. should_run(r) \/ run(r)
    <3>1. \A e \in Entity : ~ rollback(e)
      BY <2>1 DEF rollback
    <3>2. ~ main(r) /\ ~ stop(r)
      BY DEF main, stop, End, SeedersTypeOK
    <3>3. ASSUME NEW s \in Run, s # r, main(s)
          PROVE  FALSE
      <4>1. PICK filter \in Filters, force \in BOOLEAN :
              GoOn(s, [filter |-> filter, force |-> force], 0)
        BY <3>3 DEF main
      <4>2. PICK a \in Arguments : a = [filter |-> filter, force |-> force]
        BY SeedersAssumption DEF Arguments
      <4>3. step'[r] = step[r]
        BY <3>3, <4>1, <4>2, GoesOn
      <4>4. QED BY <2>1, <4>3
    <3>4. ASSUME NEW s \in Run, s # r, should_run(s) \/ run(s) \/ stop(s)
          PROVE  FALSE
      <4>1. UnderWay(s)
        BY <3>4 DEF should_run, run, stop, UnderWay
      <4>2. QED BY <3>4, <4>1 DEF RunsAlone
    <3>5. QED BY <3>1, <3>2, <3>3, <3>4 DEF SeedersNext
  <2>3. at[r] \in 1 .. 4 /\ at[r] \in 0 .. 4 /\ args[r] \in Arguments /\ Seeder(r) \in Entity
    BY SeedersSorted DEF SeedersTypeOK, Seeder
  <2>4. ~ (run(r) /\ End(r, "failed"))
    <3>1. SUFFICES ASSUME run(r), End(r, "failed") PROVE FALSE
      OBVIOUS
    <3>2. step[r] = "run" /\ step'[r] = "failed"
      BY <3>1 DEF run, End, SeedersTypeOK
    <3>3. ~ GoOn(r, args[r], at[r])
      BY <2>3, <3>2, GoesOn
    <3>4. Seeder(r) \in seeds /\ ~ Accepted(Seeder(r))
      BY <3>1, <3>3 DEF run
    <3>5. QED BY <3>2, <3>4, NotRefused
  <2>5. GoOn(r, args[r], at[r])
    <3>1. CASE should_run(r)
      <4>1. step' # [step EXCEPT ![r] = "run"]
        BY DEF SeedersTypeOK
      <4>2. QED BY <3>1, <4>1 DEF should_run
    <3>2. CASE run(r)
      BY <2>4, <3>2 DEF run
    <3>3. QED BY <2>2, <3>1, <3>2
  <2>6. step'[r] = "ok" /\ at[r] = 4
    BY <2>3, <2>5, GoesOn
  <2>7. /\ \A e \in Entity : copies'[e] >= copies[e] /\ copies'[e] \in Nat /\ copies[e] \in Nat
        /\ Seeder(r) \in seeds => copies'[Seeder(r)] > 0 \/ Seeder(r) \in foreign
    <3>1. CASE should_run(r)
      <4>1. copies' = copies /\ copies \in [Entity -> Nat]
        BY <3>1 DEF should_run, SeedersTypeOK
      <4>2. step' # [step EXCEPT ![r] = "run"]
        BY DEF SeedersTypeOK
      <4>3. ~ Empty(Seeder(r))
        BY <3>1, <4>2 DEF should_run, Empty
      <4>4. QED BY <2>3, <4>1, <4>3 DEF Empty
    <3>2. CASE run(r)
      <4>1. CASE Seeder(r) \notin seeds /\ copies' = copies
        BY <4>1 DEF SeedersTypeOK
      <4>2. CASE copies' = [copies EXCEPT ![Seeder(r)] = @ + 1]
        BY <2>3, <4>2 DEF SeedersTypeOK
      <4>3. QED BY <2>4, <3>2, <4>1, <4>2 DEF run
    <3>3. QED BY <2>2, <3>1, <3>2
  <2>8. ASSUME NEW e \in seeds
        PROVE  copies'[e] > 0 \/ e \in foreign
    <3>1. e \in Entity /\ order(e) \in 1 .. 4 /\ seeders[order(e)] = e
      BY Orders, SeedersSorted DEF SeedersTypeOK
    <3>2. CASE order(e) = 4
      BY <2>6, <2>7, <3>1, <3>2 DEF Seeder
    <3>3. CASE order(e) # 4
      <4>1. order(e) \in 1 .. at[r] - 1
        BY <2>6, <3>1, <3>3
      <4>2. Settled(e)
        BY <3>1, <4>1 DEF LeavesSettled
      <4>3. QED BY <2>7, <3>1, <4>2 DEF Settled
    <3>4. QED BY <3>2, <3>3
  <2>9. QED BY <2>6, <2>8
<1>2. QED BY <1>1, SeedersInvariant, PTL DEF SeedersSpec, SeedingCompletes
=============================================================================
