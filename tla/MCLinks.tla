------------------------------- MODULE MCLinks -------------------------------
(***************************************************************************)
(* TLC instance of Links: two sends, of equal or of different amounts, and *)
(* two requests at a time.                                                 *)
(***************************************************************************)
EXTENDS Links, TLC

CONSTANTS l1, l2, h1, h2

TwoLinks == {l1, l2}
MCHandlers == {h1, h2}

Symmetry == Permutations(TwoLinks) \cup Permutations(MCHandlers)
=============================================================================
