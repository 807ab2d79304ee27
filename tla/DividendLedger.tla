--------------------------- MODULE DividendLedger ---------------------------
(***************************************************************************)
(* What the dividend verbs promise: a dividend is declared once, for a     *)
(* total that never changes afterwards, and paid at most once; what is     *)
(* paid leaves what is owed.                                               *)
(***************************************************************************)
EXTENDS Integers

CONSTANT Dividend

VARIABLES
  owed,      \* owed[d]: the liability of dividend d not yet settled
  remitted   \* remitted[d]: what has been paid out of dividend d

Declare(d) ==
  /\ owed[d] = 0 /\ remitted[d] = 0
  /\ owed'[d] > 0
  /\ owed' = [owed EXCEPT ![d] = owed'[d]]
  /\ UNCHANGED remitted

Pay(d) ==
  /\ owed[d] > 0
  /\ remitted' = [remitted EXCEPT ![d] = @ + owed[d]]
  /\ owed' = [owed EXCEPT ![d] = 0]

LedgerInit == owed = [d \in Dividend |-> 0] /\ remitted = [d \in Dividend |-> 0]

LedgerNext == \E d \in Dividend : Declare(d) \/ Pay(d)

LedgerSpec == LedgerInit /\ [][LedgerNext]_<< owed, remitted >>
=============================================================================
