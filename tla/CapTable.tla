------------------------------ MODULE CapTable ------------------------------
(***************************************************************************)
(* What the register promises its readers: a table of positions that       *)
(* changes by one whole movement at a time.  Shares are issued to a        *)
(* holder, move between two holders of a class, or are bought back from a  *)
(* holder who has them; nothing else changes a position.                   *)
(***************************************************************************)
EXTENDS Integers

CONSTANTS ShareClass, Shareholder

VARIABLE position  \* position[c][h]: the shares of class c holder h has

\* The shares holder h of class c loses in this step.
Lost(c, h) == position[c][h] - position'[c][h]

Issue(c, h) ==
  /\ position' = [position EXCEPT ![c][h] = position'[c][h]]
  /\ Lost(c, h) < 0

Transfer(c, from, to) ==
  /\ from # to
  /\ Lost(c, from) > 0
  /\ Lost(c, from) <= position[c][from]
  /\ position' = [position EXCEPT ![c][from] = @ - Lost(c, from),
                                  ![c][to] = @ + Lost(c, from)]

Buyback(c, h) ==
  /\ position' = [position EXCEPT ![c][h] = position'[c][h]]
  /\ Lost(c, h) > 0
  /\ Lost(c, h) <= position[c][h]

CapTableInit == position = [c \in ShareClass |-> [h \in Shareholder |-> 0]]

CapTableNext ==
  \E c \in ShareClass, h \in Shareholder :
    \/ Issue(c, h)
    \/ Buyback(c, h)
    \/ \E to \in Shareholder : Transfer(c, h, to)

CapTableSpec == CapTableInit /\ [][CapTableNext]_position
=============================================================================
