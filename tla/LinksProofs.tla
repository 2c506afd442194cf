----------------------------- MODULE LinksProofs -----------------------------
(***************************************************************************)
(* Proofs about Links for every number of links, balances, handlers and    *)
(* amounts: the money behind a link, and the refinement of PaymentLink.    *)
(***************************************************************************)
EXTENDS Links, TLAPS

-----------------------------------------------------------------------------
(* Types.                                                                  *)

LEMMA TypeInit == Init => TypeOK
  BY DEF Init, TypeOK, Statuses, Sends, Stages

LEMMA TypeStep == TypeOK /\ [Next]_vars => TypeOK'
  <1> SUFFICES ASSUME TypeOK, [Next]_vars
               PROVE  TypeOK'
    OBVIOUS
  <1> USE NoneAssumption
  <1> USE DEF TypeOK, Statuses, Sends, Stages
  <1> USE DEF history
  <1>1. ASSUME NEW l \in Links, NEW a \in Amounts, SendViaLink(l, a)
        PROVE  TypeOK'
    BY <1>1 DEF SendViaLink, Sent, chain, handler
  <1>2. ASSUME NEW l \in Links, NEW b \in Balances, CreateBalance(l, b)
        PROVE  TypeOK'
    BY <1>2 DEF CreateBalance, Sent, records, handler
  <1>3. ASSUME NEW l \in Links, GiveUp(l)
        PROVE  TypeOK'
    BY <1>3 DEF GiveUp, Sent, records, chain, handler
  <1>4. ASSUME NEW h \in Handlers, NEW l \in Links, NEW b \in Balances, BeginRegister(h, l, b)
        PROVE  TypeOK'
    BY <1>4 DEF BeginRegister, Begin, records, chain
  <1>5. ASSUME NEW h \in Handlers, NEW l \in Links, BeginClaim(h, l)
        PROVE  TypeOK'
    BY <1>5 DEF BeginClaim, Begin, records, chain
  <1>6. ASSUME NEW h \in Handlers, VerifyBalance(h) \/ CheckGone(h)
        PROVE  TypeOK'
    BY <1>6 DEF VerifyBalance, CheckGone, Goto, records, chain
  <1>7. ASSUME NEW h \in Handlers, RejectBalance(h) \/ FundRefused(h) \/ RejectClaim(h)
        PROVE  TypeOK'
    BY <1>7 DEF RejectBalance, FundRefused, RejectClaim, Finish, records, chain
  <1>8. ASSUME NEW h \in Handlers, Fund(h) \/ Claim(h)
        PROVE  TypeOK'
    BY <1>8 DEF Fund, Claim, Finish, chain
  <1>9. ASSUME NEW b \in Balances, Take(b)
        PROVE  TypeOK'
    BY <1>9 DEF Take, records, handler
  <1>10. CASE Ingest
    BY <1>10 DEF Ingest, records, handler
  <1>11. CASE Restart
    BY <1>11 DEF Restart, records, chain
  <1>12. CASE UNCHANGED vars
    BY <1>12 DEF vars, records, chain, handler
  <1> QED
    BY <1>1, <1>2, <1>3, <1>4, <1>5, <1>6, <1>7, <1>8, <1>9, <1>10, <1>11, <1>12 DEF Next

\* Every handler of a request that works has a link and a balance id, Horizon
\* is behind the ledger, and the balances that exist were made by sends.
THEOREM TypeCorrect == Spec => []TypeOK
  BY TypeInit, TypeStep, PTL DEF Spec

-----------------------------------------------------------------------------
(* The inductive invariant.                                                *)

\* A link has a balance when it is FUNDED or CLAIMED.  Horizon has listed
\* every balance that was on its record, and each holds the link's amount.
LinksHold ==
  \A l \in Links :
    /\ sending[l] # "idle" => status[l] # "none"
    /\ status[l] \in {"funded", "claimed"} <=> balance[l] # None
    /\ balance[l] # None => balance[l] \in named[l]
    /\ named[l] # {} => balance[l] # None
    /\ \A b \in named[l] : horizon[b] # "none" /\ Worth(b) = amount[l]
    /\ status[l] = "claimed" => \E b \in named[l] : horizon[b] = "gone"

Injective ==
  \A k, l \in Links : balance[k] # None /\ balance[k] = balance[l] => k = l

\* A balance was made for a link whose record exists, so that the amount it is
\* compared with does not change; one that was claimed is gone for Horizon too.
BalancesHold ==
  /\ \A b \in Balances : ledger[b] # "none" => status[made[b]] # "none"
  /\ \A b \in closed : horizon[b] = "gone"

\* What a handler has checked still holds when it resumes, but for the balance
\* being live, and being the one on the record.
HandlersHold ==
  \A h \in Handlers :
    /\ pc[h] \in {"verifying", "funding"} => status[arg[h]] # "none"
    /\ pc[h] = "funding" => horizon[id[h]] # "none" /\ Worth(id[h]) = amount[arg[h]]
    /\ pc[h] \in {"claiming", "closing"} => id[h] \in named[arg[h]]
    /\ pc[h] = "closing" => horizon[id[h]] = "gone"

LinkInv == TypeOK /\ LinksHold /\ Injective /\ BalancesHold /\ HandlersHold

LEMMA LinkInvInit == Init => LinkInv
  <1> SUFFICES ASSUME Init PROVE LinkInv
    OBVIOUS
  <1>1. TypeOK
    BY TypeInit
  <1>2. LinksHold /\ Injective /\ BalancesHold /\ HandlersHold
    BY DEF Init, LinksHold, Injective, BalancesHold, HandlersHold
  <1> QED BY <1>1, <1>2 DEF LinkInv

LEMMA LinkInvStep == LinkInv /\ [Next]_vars => LinkInv'
  <1> SUFFICES ASSUME LinkInv, [Next]_vars
               PROVE  LinkInv'
    OBVIOUS
  <1> USE NoneAssumption
  <1> USE DEF LinkInv, LinksHold, Injective, BalancesHold, HandlersHold, Worth, history
  <1>t. TypeOK'
    BY TypeStep
  <1>1. ASSUME NEW l \in Links, NEW a \in Amounts, SendViaLink(l, a)
        PROVE  LinkInv'
    <2>1. \A k \in Links : amount'[k] # amount[k] => status[k] = "none"
      BY <1>1 DEF SendViaLink, TypeOK
    <2>2. \A k \in Links : status[k] # "none" => status'[k] = status[k]
      BY <1>1 DEF SendViaLink, TypeOK
    <2>3. \A b \in Balances : ledger[b] # "none" => amount'[made[b]] = amount[made[b]]
      BY <2>1 DEF TypeOK
    <2> QED BY <1>t, <1>1, <2>1, <2>2, <2>3
            DEF SendViaLink, Sent, chain, handler, TypeOK, Statuses, Sends, Stages
  <1>2. ASSUME NEW l \in Links, NEW b \in Balances, CreateBalance(l, b)
        PROVE  LinkInv'
    BY <1>t, <1>2 DEF CreateBalance, Sent, records, handler, TypeOK, Stages
  <1>3. ASSUME NEW l \in Links, GiveUp(l)
        PROVE  LinkInv'
    BY <1>t, <1>3 DEF GiveUp, Sent, records, chain, handler, TypeOK
  <1>4. ASSUME NEW h \in Handlers, NEW l \in Links, NEW b \in Balances, BeginRegister(h, l, b)
        PROVE  LinkInv'
    BY <1>t, <1>4 DEF BeginRegister, Begin, records, chain, TypeOK
  <1>5. ASSUME NEW h \in Handlers, NEW l \in Links, BeginClaim(h, l)
        PROVE  LinkInv'
    BY <1>t, <1>5 DEF BeginClaim, Begin, records, chain, TypeOK
  <1>6. ASSUME NEW h \in Handlers, VerifyBalance(h) \/ CheckGone(h)
        PROVE  LinkInv'
    BY <1>t, <1>6 DEF VerifyBalance, CheckGone, Goto, records, chain, TypeOK
  <1>7. ASSUME NEW h \in Handlers, RejectBalance(h) \/ FundRefused(h) \/ RejectClaim(h)
        PROVE  LinkInv'
    BY <1>t, <1>7 DEF RejectBalance, FundRefused, RejectClaim, Finish, records, chain, TypeOK
  <1>8. ASSUME NEW h \in Handlers, Fund(h)
        PROVE  LinkInv'
    BY <1>t, <1>8 DEF Fund, Taken, Finish, chain, TypeOK
  <1>9. ASSUME NEW h \in Handlers, Claim(h)
        PROVE  LinkInv'
    <2>1. arg[h] \in Links /\ id[h] \in named[arg[h]] /\ horizon[id[h]] = "gone"
      BY <1>9 DEF Claim, TypeOK
    <2>2. balance[arg[h]] # None
      BY <2>1
    <2> QED BY <1>t, <1>9, <2>1, <2>2 DEF Claim, Finish, chain, TypeOK
  <1>10. ASSUME NEW b \in Balances, Take(b)
         PROVE  LinkInv'
    BY <1>t, <1>10 DEF Take, records, handler, TypeOK
  <1>11. CASE Ingest
    BY <1>t, <1>11 DEF Ingest, records, handler, TypeOK
  <1>12. CASE Restart
    BY <1>t, <1>12 DEF Restart, records, chain, TypeOK
  <1>13. CASE UNCHANGED vars
    BY <1>t, <1>13 DEF vars, records, chain, handler
  <1> QED
    BY <1>1, <1>2, <1>3, <1>4, <1>5, <1>6, <1>7, <1>8, <1>9, <1>10, <1>11, <1>12, <1>13
    DEF Next

LEMMA LinkInvariant == Spec => []LinkInv
  BY LinkInvInit, LinkInvStep, PTL DEF Spec

-----------------------------------------------------------------------------
(* The results.                                                            *)

\* FUNDED and CLAIMED are said of a link only when an escrow of its exact
\* amount, and of no other link, is behind it, however Horizon lags and
\* whichever id is reported.
THEOREM MoneyIsBehind == Spec => []FundedIsBacked
  <1>1. LinkInv => FundedIsBacked
    BY DEF LinkInv, TypeOK, LinksHold, Injective, FundedIsBacked
  <1> QED BY <1>1, LinkInvariant, PTL

\* CLAIMED is said of a link only when a balance of its amount that was on its
\* record has left the ledger.
THEOREM ClaimTellsTruth == Spec => []ClaimedWasTaken
  <1>1. LinkInv => ClaimedWasTaken
    BY DEF LinkInv, TypeOK, LinksHold, ClaimedWasTaken
  <1> QED BY <1>1, LinkInvariant, PTL

\* No registration gets through with a balance that a claim was recorded for,
\* unless it was verified before.
THEOREM ClaimedBalanceIsSpent == Spec => ClaimedFundsNoMore
  <1> DEFINE A == \A h \in Handlers :
                    pc'[h] = "funding" /\ pc[h] # "funding" => id'[h] \notin closed
  <1>1. LinkInv /\ [Next]_vars => [A]_vars
    <2> SUFFICES ASSUME LinkInv, [Next]_vars, NEW h \in Handlers,
                        pc'[h] = "funding", pc[h] # "funding"
                 PROVE  id'[h] \notin closed
      OBVIOUS
    <2>1. VerifyBalance(h)
      BY DEF LinkInv, TypeOK, Next, SendViaLink, CreateBalance, GiveUp,
        BeginRegister, BeginClaim, Begin, VerifyBalance, CheckGone, Goto, RejectBalance,
        FundRefused, RejectClaim, Fund, Claim, Finish, Take, Ingest, Restart, vars, handler
    <2> QED BY <2>1 DEF VerifyBalance, Goto, LinkInv, TypeOK, BalancesHold
  <1> QED BY <1>1, LinkInvariant, PTL DEF Spec, ClaimedFundsNoMore

\* The records and the ledger together keep the promise of PaymentLink.
THEOREM LinksKeepPromise == Spec => LinkSpec
  <1>1. Init => Promise!Init
    BY DEF Init, Promise!Init
  <1>2. LinkInv /\ [Next]_vars => [Promise!Next]_(Promise!linkVars)
    <2> SUFFICES ASSUME LinkInv, [Next]_vars
                 PROVE  [Promise!Next]_(Promise!linkVars)
      OBVIOUS
    <2>1. ASSUME NEW l \in Links, NEW a \in Amounts, SendViaLink(l, a)
          PROVE  Promise!Open(l)
      BY <2>1 DEF SendViaLink, chain, history, Promise!Open
    <2>2. ASSUME NEW l \in Links, NEW b \in Balances, CreateBalance(l, b)
          PROVE  Promise!Escrow(b)
      BY <2>2 DEF CreateBalance, records, history, Promise!Escrow
    <2>3. ASSUME NEW h \in Handlers, Fund(h)
          PROVE  Promise!Fund(arg[h], id[h]) /\ arg[h] \in Links /\ id[h] \in Balances
      BY <2>3 DEF Fund, chain, Promise!Fund, LinkInv, TypeOK, HandlersHold
    <2>4. ASSUME NEW h \in Handlers, Claim(h)
          PROVE  Promise!Claim(arg[h]) /\ arg[h] \in Links
      BY <2>4 DEF Claim, chain, Promise!Claim, LinkInv, TypeOK, HandlersHold
    <2>5. ASSUME NEW b \in Balances, Take(b)
          PROVE  Promise!Take(b)
      BY <2>5 DEF Take, records, history, Promise!Take
    <2>6. \/ \E l \in Links, a \in Amounts : SendViaLink(l, a)
          \/ \E l \in Links, b \in Balances : CreateBalance(l, b)
          \/ \E h \in Handlers : Fund(h) \/ Claim(h)
          \/ \E b \in Balances : Take(b)
          \/ UNCHANGED <<status, named, ledger>>
      BY DEF Next, GiveUp, BeginRegister, BeginClaim, VerifyBalance, CheckGone, RejectBalance,
        FundRefused, RejectClaim, Ingest, Restart, vars, records, chain, history
    <2> QED BY <2>1, <2>2, <2>3, <2>4, <2>5, <2>6 DEF Promise!Next, Promise!linkVars
  <1> QED BY <1>1, <1>2, LinkInvariant, PTL DEF Spec, LinkSpec, Promise!Spec
=============================================================================
