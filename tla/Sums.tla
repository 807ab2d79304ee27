-------------------------------- MODULE Sums --------------------------------
(***************************************************************************)
(* The one aggregation the cap table is built on: SUM over the rows of a   *)
(* table.  It is a recursive function, not a RECURSIVE operator, so that   *)
(* the modules above can be proved about (see EquityGlProofs).  Sums over  *)
(* sets are those of FiniteSetsExt.                                        *)
(***************************************************************************)
EXTENDS Integers, Sequences, FiniteSetsExt

\* Running totals of a sequence of numbers: running[n] sums its first n.
SumSeq(s) ==
  LET running[n \in 0 .. Len(s)] == IF n = 0 THEN 0 ELSE running[n - 1] + s[n]
  IN  running[Len(s)]
=============================================================================
