--------------------------- MODULE MCEquityGuarded ---------------------------
(***************************************************************************)
(* Instances of EquityGuarded for TLC.                                     *)
(***************************************************************************)
EXTENDS EquityGuarded, MCEquityRegister

\* An issue, and a removal of what it issued, beside the masters' routes.
GuardedRequests ==
  k1 :> {IssueOf(ord, ann, 1, 1)}
  @@ k2 :> {TransferOf(ord, ann, bob, 1), BuybackOf(ord, ann, 1, 1)}
=============================================================================
