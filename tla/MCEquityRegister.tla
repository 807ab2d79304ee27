-------------------------- MODULE MCEquityRegister --------------------------
(***************************************************************************)
(* Instances of EquityRegister for TLC: the requests the calls may carry.  *)
(***************************************************************************)
EXTENDS EquityRegister, TLC

CONSTANTS k1, k2, k3, k4, ord, pref, ann, bob

IssueOf(c, h, q, price) ==
  [verb |-> "issue", class |-> c, to |-> h, quantity |-> q, price |-> price,
   scoped |-> TRUE]
TransferOf(c, g, h, q) ==
  [verb |-> "transfer", class |-> c, from |-> g, to |-> h, quantity |-> q,
   scoped |-> TRUE]
BuybackOf(c, h, q, price) ==
  [verb |-> "buyback", class |-> c, from |-> h, quantity |-> q, price |-> price,
   scoped |-> TRUE]
Unscoped(r) == [r EXCEPT !.scoped = FALSE]

\* One class and two holders: ann is issued two shares, two removals compete
\* for them, and a fourth call gives shares to either or takes bob's.
RaceRequests ==
  k1 :> {IssueOf(ord, ann, 2, 2)}
  @@ k2 :> {TransferOf(ord, ann, bob, 2), TransferOf(ord, ann, bob, 1)}
  @@ k3 :> {BuybackOf(ord, ann, 1, 1), BuybackOf(ord, ann, 2, 3)}
  @@ k4 :> {IssueOf(ord, bob, 1, 1), TransferOf(ord, bob, ann, 1),
            BuybackOf(ord, bob, 1, 2)}

\* Two classes, and what the code refuses: quantities of zero, transfers to
\* oneself, prices under par and under zero, holders nobody registered, holdings
\* too small, and calls without a scope.
RefusedRequests ==
  k1 :> {IssueOf(ord, ann, 2, 1), IssueOf(ord, ann, 1, 0), IssueOf(ord, ann, 0, 1),
         IssueOf(ord, ann, 1, -1), Unscoped(IssueOf(ord, ann, 1, 1))}
  @@ k2 :> {TransferOf(ord, ann, bob, 1), TransferOf(ord, ann, bob, 3),
            TransferOf(ord, ann, ann, 1), TransferOf(pref, ann, bob, 1),
            Unscoped(TransferOf(ord, ann, bob, 1))}
  @@ k3 :> {BuybackOf(ord, ann, 1, 1), BuybackOf(ord, ann, 1, -1),
            BuybackOf(ord, bob, 1, 1), BuybackOf(ord, bob, 0, 1),
            IssueOf(pref, bob, 1, 1), Unscoped(BuybackOf(ord, ann, 1, 1))}

\* Par values on both sides of the column CHECK.
RefusedParValues == {-1, 0, 1}

\* An issue and a buyback of all of it.
RetireRequests ==
  k1 :> {IssueOf(ord, ann, 1, 2)} @@ k2 :> {BuybackOf(ord, ann, 1, 2)}

\* An issue and a transfer of it.
MoveRequests ==
  k1 :> {IssueOf(ord, ann, 1, 1)} @@ k2 :> {TransferOf(ord, ann, bob, 1)}
=============================================================================
