---------------------------- MODULE MCFountainCode ----------------------------
(***************************************************************************)
(* TLC instance of FountainCode: payloads of up to four blocks, which is   *)
(* the least for which the cascade branches and goes on.                   *)
(***************************************************************************)
EXTENDS FountainCode, TLC

CONSTANTS s1, s2

TwoSessions == {s1, s2}

Symmetry == Permutations(TwoSessions)
=============================================================================
