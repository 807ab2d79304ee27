---------------------------- MODULE MCEquityReads ----------------------------
(***************************************************************************)
(* Instances of EquityReads for TLC.                                       *)
(***************************************************************************)
EXTENDS EquityReads, MCEquityDividend

CONSTANTS r1, cat

\* Three shares are issued to ann and one moves to bob while a dividend is declared
\* on them; one more may be bought back, or moved to cat, who then holds a
\* third like the others.
MovingRequests ==
  k1 :> {IssueOf(ord, ann, 3, 1)}
  @@ k2 :> {TransferOf(ord, ann, bob, 1)}
  @@ k3 :> {DeclareOf(ord, 3)}
  @@ k4 :> {BuybackOf(ord, bob, 1, 1), TransferOf(ord, ann, cat, 1)}

AnyRead ==
  r1 :> {[read |-> "holdings", class |-> ord], [read |-> "allocations", dividend |-> k3]}
=============================================================================
