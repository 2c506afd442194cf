--------------------------- MODULE MCAuthSessions ---------------------------
(***************************************************************************)
(* TLC instance of AuthSessions: two requests at a time, of any kind.      *)
(***************************************************************************)
EXTENDS AuthSessions, TLC

CONSTANTS h1, h2, c1, c2, t1, t2, t3

MCHandlers == {h1, h2}
MCChallenges == {c1, c2}
MCTokens == {t1, t2, t3}

Symmetry == Permutations(MCHandlers) \cup Permutations(MCChallenges) \cup Permutations(MCTokens)
=============================================================================
