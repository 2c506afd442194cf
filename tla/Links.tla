-------------------------------- MODULE Links --------------------------------
(***************************************************************************)
(* Send-via-link: the sender's screen (SendViaLinkScreen), LinksService    *)
(* and the claimable balances on the Stellar ledger.                       *)
(*                                                                         *)
(* A send opens a link, escrows the amount in a claimable balance and      *)
(* reports the balance's id; the backend asks Horizon for the balance and  *)
(* marks the link FUNDED.  When the balance was taken, a client reports    *)
(* that and the link is marked CLAIMED.  Horizon lags behind the ledger.   *)
(* Every request runs in a handler of its own that gives way at each       *)
(* database and each Horizon call.                                         *)
(*                                                                         *)
(* The endpoint takes any id, for any link of the sender's, at any status  *)
(* and any number of times.  The app reports the newest balance Horizon    *)
(* lists for the sender, which need not be the one just created; it is one *)
(* of the ids a registration may come with here.                           *)
(*                                                                         *)
(* Balances are numbered in the order of their creation.  All links are of *)
(* one sender and one asset: the checks that tell senders and assets apart *)
(* are left out, as are the expiry date and the status EXPIRED, which the  *)
(* code never compares and never sets.                                     *)
(***************************************************************************)
EXTENDS Naturals

CONSTANTS
  Links,        \* link records the sender may create
  MaxBalances,  \* bound on the claimable balances created
  Amounts,      \* amounts a user may send
  Handlers,     \* request handlers running at the same time
  None

ASSUME BalancesAssumption == MaxBalances \in Nat

ASSUME AmountsAssumption == 0 \notin Amounts

VARIABLES
  status,   \* LinkRecord.status, "none" before the record exists
  amount,   \* LinkRecord.amount, 0 before the record exists
  balance,  \* LinkRecord.claimableBalanceId
  sending,  \* sending[l]: where the send of link l is in _send
  ledger,   \* ledger[b]: "none", "live" or "gone", on the Stellar ledger
  horizon,  \* the same as Horizon knows it
  made,     \* made[b]: the link whose send created balance b
  pc,       \* pc[h]: where handler h is
  arg,      \* arg[h]: the link handler h works for
  id,       \* id[h]: the balance id that h was given, or read from the link
  named,    \* history: named[l]: the balances that were on the record of l
  closed    \* history: the balances that a CLAIMED was written for

records == <<status, amount, balance>>
chain   == <<ledger, horizon, made>>
handler == <<pc, arg, id>>
history == <<named, closed>>
vars    == <<records, sending, chain, handler, history>>

-----------------------------------------------------------------------------

Balances == 1..MaxBalances

ASSUME NoneAssumption == None \notin Links /\ None \notin Balances

Statuses == {"none", "pending", "funded", "claimed"}

Sends == {"idle", "opened", "over"}

Stages == {"free", "verifying", "funding", "claiming", "closing"}

Init ==
  /\ status = [l \in Links |-> "none"]
  /\ amount = [l \in Links |-> 0]
  /\ balance = [l \in Links |-> None]
  /\ sending = [l \in Links |-> "idle"]
  /\ ledger = [b \in Balances |-> "none"]
  /\ horizon = [b \in Balances |-> "none"]
  /\ made = [b \in Balances |-> None]
  /\ pc = [h \in Handlers |-> "free"]
  /\ arg = [h \in Handlers |-> None]
  /\ id = [h \in Handlers |-> None]
  /\ named = [l \in Links |-> {}]
  /\ closed = {}

Sent(l, stage) == sending' = [sending EXCEPT ![l] = stage]

Goto(h, stage) == pc' = [pc EXCEPT ![h] = stage] /\ UNCHANGED <<arg, id>>

Begin(h, stage, l, b) ==
  /\ pc[h] = "free"
  /\ pc' = [pc EXCEPT ![h] = stage]
  /\ arg' = [arg EXCEPT ![h] = l]
  /\ id' = [id EXCEPT ![h] = b]

Finish(h) ==
  /\ pc' = [pc EXCEPT ![h] = "free"]
  /\ arg' = [arg EXCEPT ![h] = None]
  /\ id' = [id EXCEPT ![h] = None]

\* The amount balance b holds: what the link it was made for is about.
Worth(b) == amount[made[b]]

-----------------------------------------------------------------------------
(* The sender's screen.                                                    *)

\* sendViaLink: the record is created, and the screen asks for the PIN.
SendViaLink(l, a) ==
  /\ status[l] = "none"
  /\ status' = [status EXCEPT ![l] = "pending"]
  /\ amount' = [amount EXCEPT ![l] = a]
  /\ Sent(l, "opened")
  /\ UNCHANGED <<balance, chain, handler, history>>

\* createClaimableBalance: the network accepts the escrow.  The app may or
\* may not hear of it, and find its id or that of another balance.
CreateBalance(l, b) ==
  /\ sending[l] = "opened"
  /\ ledger[b] = "none"
  /\ \A c \in Balances : c < b => ledger[c] # "none"
  /\ ledger' = [ledger EXCEPT ![b] = "live"]
  /\ made' = [made EXCEPT ![b] = l]
  /\ Sent(l, "over")
  /\ UNCHANGED <<records, horizon, handler, history>>

\* The send ends early: the PIN is not given, the network refuses, or the
\* app is killed.  Trying again opens another link.
GiveUp(l) ==
  /\ sending[l] = "opened"
  /\ Sent(l, "over")
  /\ UNCHANGED <<records, chain, handler, history>>

-----------------------------------------------------------------------------
(* registerClaimableBalance.                                               *)

\* The link is read: it exists and is the sender's.
BeginRegister(h, l, b) ==
  /\ status[l] # "none"
  /\ Begin(h, "verifying", l, b)
  /\ UNCHANGED <<records, sending, chain, history>>

\* Mutant: that the balance was ever there is enough.
VerifyNothing(h) ==
  /\ pc[h] = "verifying"
  /\ horizon[id[h]] # "none"
  /\ Worth(id[h]) = amount[arg[h]]
  /\ Goto(h, "funding")
  /\ UNCHANGED <<records, sending, chain, history>>

\* Horizon has the balance, and it holds the link's amount.
VerifyBalance(h) ==
  /\ pc[h] = "verifying"
  /\ horizon[id[h]] = "live"
  /\ Worth(id[h]) = amount[arg[h]]
  /\ Goto(h, "funding")
  /\ UNCHANGED <<records, sending, chain, history>>

RejectBalance(h) ==
  /\ pc[h] = "verifying"
  /\ horizon[id[h]] = "live" => Worth(id[h]) # amount[arg[h]]
  /\ Finish(h)
  /\ UNCHANGED <<records, sending, chain, history>>

\* The id is on the record of another link.
Taken(h) == \E l \in Links \ {arg[h]} : balance[l] = id[h]

\* Mutant: the unique index of the ids is missing.
FundAny(h) ==
  /\ pc[h] = "funding"
  /\ balance' = [balance EXCEPT ![arg[h]] = id[h]]
  /\ status' = [status EXCEPT ![arg[h]] = "funded"]
  /\ named' = [named EXCEPT ![arg[h]] = @ \cup {id[h]}]
  /\ Finish(h)
  /\ UNCHANGED <<amount, sending, chain, closed>>

\* The record is updated, whatever its status was.
Fund(h) ==
  /\ pc[h] = "funding"
  /\ ~Taken(h)
  /\ balance' = [balance EXCEPT ![arg[h]] = id[h]]
  /\ status' = [status EXCEPT ![arg[h]] = "funded"]
  /\ named' = [named EXCEPT ![arg[h]] = @ \cup {id[h]}]
  /\ Finish(h)
  /\ UNCHANGED <<amount, sending, chain, closed>>

\* The update breaks the unique index of the ids: the request fails.
FundRefused(h) ==
  /\ pc[h] = "funding"
  /\ Taken(h)
  /\ Finish(h)
  /\ UNCHANGED <<records, sending, chain, history>>

-----------------------------------------------------------------------------
(* claim.                                                                  *)

\* Mutant: that the link has no balance yet is not noticed.
BeginClaimAny(h, l) ==
  /\ status[l] # "none"
  /\ Begin(h, "claiming", l, balance[l])
  /\ UNCHANGED <<records, sending, chain, history>>

\* The link is read: it has a balance.
BeginClaim(h, l) ==
  /\ balance[l] # None
  /\ Begin(h, "claiming", l, balance[l])
  /\ UNCHANGED <<records, sending, chain, history>>

\* Mutant: the balance need not be gone, the transaction is enough.
CheckTransaction(h) ==
  /\ pc[h] = "claiming"
  /\ Goto(h, "closing")
  /\ UNCHANGED <<records, sending, chain, history>>

\* The transaction reported succeeded, and Horizon no longer has the balance.
CheckGone(h) ==
  /\ pc[h] = "claiming"
  /\ horizon[id[h]] # "live"
  /\ Goto(h, "closing")
  /\ UNCHANGED <<records, sending, chain, history>>

\* The transaction is unknown or failed, or the balance is still there.
RejectClaim(h) ==
  /\ pc[h] = "claiming"
  /\ Finish(h)
  /\ UNCHANGED <<records, sending, chain, history>>

Claim(h) ==
  /\ pc[h] = "closing"
  /\ status' = [status EXCEPT ![arg[h]] = "claimed"]
  /\ closed' = closed \cup {id[h]}
  /\ Finish(h)
  /\ UNCHANGED <<amount, balance, sending, chain, named>>

-----------------------------------------------------------------------------
(* The Stellar network, and the server.                                    *)

\* The claimant of balance b, who is its sender, takes it on the ledger.
Take(b) ==
  /\ ledger[b] = "live"
  /\ ledger' = [ledger EXCEPT ![b] = "gone"]
  /\ UNCHANGED <<records, sending, horizon, made, handler, history>>

\* Horizon catches up with the ledger.
Ingest ==
  /\ horizon' = ledger
  /\ UNCHANGED <<records, sending, ledger, made, handler, history>>

\* The server restarts: every request in progress is lost.
Restart ==
  /\ pc' = [h \in Handlers |-> "free"]
  /\ arg' = [h \in Handlers |-> None]
  /\ id' = [h \in Handlers |-> None]
  /\ UNCHANGED <<records, sending, chain, history>>

Next ==
  \/ \E l \in Links, a \in Amounts : SendViaLink(l, a)
  \/ \E l \in Links, b \in Balances : CreateBalance(l, b)
  \/ \E l \in Links : GiveUp(l)
  \/ \E h \in Handlers, l \in Links, b \in Balances : BeginRegister(h, l, b)
  \/ \E h \in Handlers : VerifyBalance(h)
  \/ \E h \in Handlers : RejectBalance(h)
  \/ \E h \in Handlers : Fund(h)
  \/ \E h \in Handlers : FundRefused(h)
  \/ \E h \in Handlers, l \in Links : BeginClaim(h, l)
  \/ \E h \in Handlers : CheckGone(h)
  \/ \E h \in Handlers : RejectClaim(h)
  \/ \E h \in Handlers : Claim(h)
  \/ \E b \in Balances : Take(b)
  \/ Ingest
  \/ Restart

Spec == Init /\ [][Next]_vars

-----------------------------------------------------------------------------
(* Properties.                                                             *)

\* Type invariant: a handler that works has a link and a balance id, Horizon
\* is never ahead of the ledger, and a balance that exists was made by a send.
TypeOK ==
  /\ status \in [Links -> Statuses]
  /\ amount \in [Links -> Amounts \cup {0}]
  /\ balance \in [Links -> Balances \cup {None}]
  /\ sending \in [Links -> Sends]
  /\ ledger \in [Balances -> {"none", "live", "gone"}]
  /\ horizon \in [Balances -> {"none", "live", "gone"}]
  /\ made \in [Balances -> Links \cup {None}]
  /\ pc \in [Handlers -> Stages]
  /\ arg \in [Handlers -> Links \cup {None}]
  /\ id \in [Handlers -> Balances \cup {None}]
  /\ named \in [Links -> SUBSET Balances]
  /\ closed \subseteq Balances
  /\ \A h \in Handlers : pc[h] # "free" => arg[h] \in Links /\ id[h] \in Balances
  /\ \A b \in Balances :
       /\ horizon[b] # "none" => ledger[b] # "none"
       /\ horizon[b] = "gone" => ledger[b] = "gone"
       /\ ledger[b] # "none" => made[b] \in Links

\* The money behind a link that is FUNDED or CLAIMED was escrowed in its exact
\* amount, and is behind no other link: also when the id that was reported
\* is that of another send's balance.
FundedIsBacked ==
  \A l \in Links : status[l] \in {"funded", "claimed"} =>
    /\ balance[l] # None
    /\ ledger[balance[l]] # "none"
    /\ Worth(balance[l]) = amount[l]
    /\ \A k \in Links : balance[k] = balance[l] => k = l

\* A link is CLAIMED only when a balance that holds its amount and was on its
\* record has left the ledger.  It need not be the balance on the record now.
ClaimedWasTaken ==
  \A l \in Links : status[l] = "claimed" =>
    \E b \in named[l] : ledger[b] = "gone" /\ Worth(b) = amount[l]

\* However Horizon lags, a balance that a CLAIMED was written for passes the
\* verification of no registration from then on, of this link or another.
ClaimedFundsNoMore ==
  [][\A h \in Handlers :
       pc'[h] = "funding" /\ pc[h] # "funding" => id'[h] \notin closed]_vars

\* The records and the ledger together keep the promise of a payment link.
Promise == INSTANCE PaymentLink WITH money <- ledger
LinkSpec == Promise!Spec
=============================================================================
