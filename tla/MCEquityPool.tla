----------------------------- MODULE MCEquityPool -----------------------------
(***************************************************************************)
(* Instances of EquityPool for TLC.                                        *)
(***************************************************************************)
EXTENDS EquityPool, MCEquityDividend

\* Every verb: two removals of one position behind an issue, or a declaration
\* and two payments of it.
PooledRequests ==
  k1 :> {IssueOf(ord, ann, 2, 1)}
  @@ k2 :> {BuybackOf(ord, ann, 1, 1), DeclareOf(ord, 3)}
  @@ k3 :> {PayOf(k2)}
  @@ k4 :> {TransferOf(ord, ann, bob, 2), PayOf(k2)}

\* The least pool that lets a removal wait for another's lock; and, with a
\* connection pinned to every request, the least that leaves a transaction one:
\* three of these calls can wait to open theirs at a time.
LeastPools == {[size |-> 2, pinned |-> FALSE], [size |-> 4, pinned |-> TRUE]}
=============================================================================
