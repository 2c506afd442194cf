---------------------------- MODULE ReserveLedger ----------------------------
(***************************************************************************)
(* What the Offline Reserve promises: every allowance behaves as one       *)
(* atomic ledger.  Authorizations are numbered 1, 2, 3, ... without gap or *)
(* repetition, each one commits to the authorization before it, and their  *)
(* amounts never exceed what was set aside.  OfflineReserve implements     *)
(* this with an allowance that is copied between storage and screens.      *)
(***************************************************************************)
EXTENDS Naturals

CONSTANTS
  AllowanceIds,  \* the ids of allowance certificates
  AuthIds,       \* the ids of authorizations
  Requests,      \* the merchants' payment requests
  Amount,        \* the amount each request asks for
  Limits         \* the amounts a user sets aside

VARIABLES
  limit,   \* limit[i]: the initial amount of allowance i, 0 before it exists
  spent,   \* spent[i]: the total that i's authorizations commit
  issued   \* every authorization signed so far

ledgerVars == <<limit, spent, issued>>

Authorization ==
  [id : AuthIds, alw : AllowanceIds, req : Requests, amount : Nat,
   seq : Nat, prev : AuthIds \cup AllowanceIds]

\* a continues the chain of its allowance: it is the first authorization and
\* commits to the certificate, or it follows the newest one and commits to it.
ContinuesChain(a) ==
  /\ \A b \in issued : b.alw = a.alw => b.seq < a.seq
  /\ \/ a.seq = 1 /\ a.prev = a.alw
     \/ \E b \in issued : b.alw = a.alw /\ b.seq + 1 = a.seq /\ b.id = a.prev

Init ==
  /\ limit = [i \in AllowanceIds |-> 0]
  /\ spent = [i \in AllowanceIds |-> 0]
  /\ issued = {}

Grant(i, amt) ==
  /\ limit[i] = 0
  /\ limit' = [limit EXCEPT ![i] = amt]
  /\ UNCHANGED <<spent, issued>>

Authorize(a) ==
  /\ \A b \in issued : b.id # a.id
  /\ a.amount = Amount[a.req]
  /\ spent[a.alw] + a.amount <= limit[a.alw]
  /\ ContinuesChain(a)
  /\ issued' = issued \cup {a}
  /\ spent' = [spent EXCEPT ![a.alw] = @ + a.amount]
  /\ UNCHANGED limit

Next ==
  \/ \E i \in AllowanceIds, amt \in Limits : Grant(i, amt)
  \/ \E a \in issued' \ issued : a \in Authorization /\ Authorize(a)

Spec == Init /\ [][Next]_ledgerVars
=============================================================================
