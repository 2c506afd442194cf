------------------------------ MODULE MCAccounts ------------------------------
(***************************************************************************)
(* TLC instance of Accounts: two users, the keys of two devices that either *)
(* may onboard on, and two requests at a time.                             *)
(***************************************************************************)
EXTENDS Accounts, TLC

CONSTANTS u1, u2, k1, k2, h1, h2

MCUsers == {u1, u2}
MCKeys == {k1, k2}
MCHandlers == {h1, h2}

Symmetry == Permutations(MCUsers) \cup Permutations(MCKeys) \cup Permutations(MCHandlers)
=============================================================================
