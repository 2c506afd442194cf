--------------------------- MODULE MCStandingPlans ---------------------------
(***************************************************************************)
(* TLC instance of StandingPlans: one plan, two due checks, two payments   *)
(* under way.                                                              *)
(***************************************************************************)
EXTENDS StandingPlans

CONSTANTS p1, c1, c2, a1, a2

MCPlans == {p1}
MCChecks == {c1, c2}
MCAttempts == {a1, a2}
=============================================================================
