----------------------------- MODULE PaymentLink -----------------------------
(***************************************************************************)
(* What send-via-link keeps, whoever reports which balance when.  Money is *)
(* escrowed by the chain, in balances that are made and taken once.  The   *)
(* record of a link says FUNDED when a balance that was escrowed is put on *)
(* it, again and again if need be, and CLAIMED only when a balance that    *)
(* was put on it has been taken.  Which balance is on the record by then   *)
(* is not promised.                                                        *)
(***************************************************************************)
CONSTANTS Links, Balances

VARIABLES
  status,  \* status[l]: "none", "pending", "funded" or "claimed"
  named,   \* named[l]: the balances that were put on the record of l
  money    \* money[b]: "none", "live" or "gone"

linkVars == <<status, named, money>>

Init ==
  /\ status = [l \in Links |-> "none"]
  /\ named = [l \in Links |-> {}]
  /\ money = [b \in Balances |-> "none"]

Open(l) ==
  /\ status[l] = "none"
  /\ status' = [status EXCEPT ![l] = "pending"]
  /\ UNCHANGED <<named, money>>

Escrow(b) ==
  /\ money[b] = "none"
  /\ money' = [money EXCEPT ![b] = "live"]
  /\ UNCHANGED <<status, named>>

\* The money may have been taken by the time the record is written.
Fund(l, b) ==
  /\ status[l] # "none"
  /\ money[b] # "none"
  /\ status' = [status EXCEPT ![l] = "funded"]
  /\ named' = [named EXCEPT ![l] = @ \cup {b}]
  /\ UNCHANGED money

Take(b) ==
  /\ money[b] = "live"
  /\ money' = [money EXCEPT ![b] = "gone"]
  /\ UNCHANGED <<status, named>>

Claim(l) ==
  /\ \E b \in named[l] : money[b] = "gone"
  /\ status' = [status EXCEPT ![l] = "claimed"]
  /\ UNCHANGED <<named, money>>

Next ==
  \/ \E l \in Links : Open(l) \/ Claim(l)
  \/ \E b \in Balances : Escrow(b) \/ Take(b)
  \/ \E l \in Links, b \in Balances : Fund(l, b)

Spec == Init /\ [][Next]_linkVars
=============================================================================
