----------------------------- MODULE MCTransfers -----------------------------
(***************************************************************************)
(* TLC instance of Transfers: two users with the keys of two devices, one  *)
(* PayTag that either may take, one payment, and a bill between a tag and  *)
(* a key, which may be of the same user.                                   *)
(***************************************************************************)
EXTENDS Transfers, TLC

CONSTANTS u1, u2, k1, k2, t1, p1, b1, h1, h2

MCUsers == {u1, u2}
MCKeys == {k1, k2}
MCTags == {t1}
MCPayments == {p1}
MCBills == {b1}
MCLists == {<<t1, k1>>}
MCReports == {said \in [user : MCUsers, from : MCKeys, to : MCKeys] :
                said.from = k1 /\ said.to = k2}
MCHandlers == {h1, h2}

Symmetry == Permutations(MCUsers) \cup Permutations(MCHandlers)
=============================================================================
