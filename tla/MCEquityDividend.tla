-------------------------- MODULE MCEquityDividend --------------------------
(***************************************************************************)
(* Instances of EquityDividend for TLC: the whole write service.           *)
(***************************************************************************)
EXTENDS EquityDividend, MCEquityRegister

CONSTANT k5

DeclareOf(c, per_share) ==
  [verb |-> "declare", class |-> c, per_share |-> per_share, scoped |-> TRUE]
PayOf(d) == [verb |-> "pay", dividend |-> d, scoped |-> TRUE]

\* ann is issued shares and a dividend is declared on them while they may be
\* bought back; two calls pay it, one of which may have lost its scope or name
\* a call that declared nothing.
PaymentRequests ==
  k1 :> {IssueOf(ord, ann, 2, 1)}
  @@ k2 :> {DeclareOf(ord, 3), DeclareOf(ord, 0), Unscoped(DeclareOf(ord, 1))}
  @@ k3 :> {PayOf(k2)}
  @@ k4 :> {PayOf(k2), PayOf(k1), Unscoped(PayOf(k2))}
  @@ k5 :> {BuybackOf(ord, ann, 2, 1)}
=============================================================================
