------------------------------ MODULE MCSafebox ------------------------------
(***************************************************************************)
(* TLC instance of Safebox: an owner and three other members who become    *)
(* admins and lose the role while invocations are in flight.  With the     *)
(* contract's own address, which can be made an admin too, the cap of      *)
(* three can be reached and exceeded.                                      *)
(***************************************************************************)
EXTENDS Safebox, TLC

CONSTANTS m1, m2, m3, m4

MCMembers == {m1, m2, m3, m4}
MCAmounts == {1}
MCHoldings == [m \in MCMembers |-> IF m = m1 THEN 1 ELSE 0]

\* Members other than m1, who holds the asset, are interchangeable.
Symmetry == Permutations(MCMembers \ {m1})
=============================================================================
