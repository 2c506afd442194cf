------------------------- MODULE MCOfflineRedemption -------------------------
(***************************************************************************)
(* TLC instances of OfflineRedemption: two payments from one allowance     *)
(* settled from one sheet at a time, and one payment that the runs of two  *)
(* sheets settle side by side.                                             *)
(***************************************************************************)
EXTENDS OfflineRedemption, TLC

CONSTANTS s1, k1, k2, w1, a1, a2, r1

MCScreens == {s1}
OneSheet == {k1}
TwoSheets == {k1, k2}
MCAllowanceIds == {w1}
OneAuth == {a1}
TwoAuths == {a1, a2}
MCRequests == {r1}
MCAmount == r1 :> 1
MCLimits == {2}
=============================================================================
