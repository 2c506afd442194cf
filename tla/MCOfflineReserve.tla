--------------------------- MODULE MCOfflineReserve ---------------------------
(***************************************************************************)
(* TLC instance of OfflineReserve: two requests of different size, either  *)
(* of which can be scanned again, against allowances that cover one or     *)
(* both of them.                                                           *)
(***************************************************************************)
EXTENDS OfflineReserve, TLC

CONSTANTS s1, s2, w1, w2, a1, a2, a3, r1, r2

MCScreens == {s1, s2}
MCAllowanceIds == {w1, w2}
MCAuthIds == {a1, a2, a3}
MCRequests == {r1, r2}
MCAmount == r1 :> 1 @@ r2 :> 2
MCLimits == {2, 3}

\* Screens and ids are interchangeable: nothing compares them but for equality.
Symmetry ==
  Permutations(MCScreens) \cup Permutations(MCAllowanceIds) \cup Permutations(MCAuthIds)

\* One allowance for the run in which signing screens are left.
FewAllowanceIds == {w1}
=============================================================================
