----------------------------- MODULE OfflineProofs -----------------------------
(***************************************************************************)
(* Proofs about OfflineReserve, and then about OfflineRedemption, which    *)
(* adds the sheets to it, for every set of screens, sheets, ids and        *)
(* requests.                                                               *)
(*                                                                         *)
(* Of the reserve, types, the durability of confirmations and that each    *)
(* branch of an allowance's history stays within its limit hold whatever   *)
(* the user does.  That the copies of an allowance never diverge holds     *)
(* when a signing screen cannot be left (~LeaveWhileSigning): then one     *)
(* screen at most is mid-payment, and every copy of an allowance agrees    *)
(* with its history.                                                       *)
(*                                                                         *)
(* Of redemption, that settled means paid holds however sheets overlap.    *)
(* That only an attempt the app could not settle leads to a second         *)
(* payment, that what is over is not queued, and that nothing leaves the   *)
(* queue without a reason, hold when no sheet opens beside another that is *)
(* open or still syncs (~SheetsOverlap): OnceInv says where an             *)
(* authorization can be, and that a settled payment has left every place   *)
(* it could be paid from.                                                  *)
(*                                                                         *)
(* Of both together, the reserve's results hold beneath the sheets, a      *)
(* confirmation stays recorded although runs replace the history (but for  *)
(* what was queued under a sheet that held a list), only what was signed   *)
(* and in time is paid, and a run uses itself up.                          *)
(***************************************************************************)
EXTENDS OfflineRedemption, FiniteSetTheorems, SequenceTheorems, WellFoundedInduction, TLAPS

-----------------------------------------------------------------------------
(* The payer's reserve.                                                    *)

\* What the stage of a screen says about its fields; it keeps types inductive.
StageOK ==
  \A s \in Screens :
    /\ pc[s] # "closed" => req[s] \in Requests
    /\ pc[s] = "checked" => /\ mem[s] \in Allowance
                            /\ mem[s].remaining >= Amount[req[s]]
    /\ pc[s] \in {"debited", "queued", "recorded"} => auth[s] \in Authorization

TypeInv == TypeOK /\ StageOK

LEMMA TypeInit == Init => TypeInv
  BY AmountAssumption DEF Init, TypeInv, TypeOK, StageOK, Stages

\* The active allowance of a screen is a copy it holds or the stored one.
LEMMA ActiveIsCopy ==
  ASSUME TypeOK, NEW s \in Screens
  PROVE  /\ ActiveAllowance(s) \in {None, mem[s], allowance}
         /\ ActiveAllowance(s) # None => ActiveAllowance(s) \in Allowance
         /\ Cached(s) \in {mem[s], allowance}
         /\ Cached(s) \in Allowance \cup {None}
  BY DEF ActiveAllowance, Cached, Live, TypeOK

\* Signing builds an authorization and a debited allowance of the right type.
LEMMA SignType ==
  ASSUME TypeInv, NEW s \in Screens, NEW id \in AuthIds, pc[s] = "checked"
  PROVE  /\ NewAuthorization(s, id) \in Authorization
         /\ Debited(mem[s], NewAuthorization(s, id)) \in Allowance
  <1>1. req[s] \in Requests /\ mem[s] \in Allowance /\ mem[s].remaining >= Amount[req[s]]
    BY DEF TypeInv, StageOK
  <1>2. Amount[req[s]] \in Nat
    BY <1>1, AmountAssumption
  <1>3. NewAuthorization(s, id) \in Authorization
    BY <1>1, <1>2 DEF NewAuthorization, Authorization, Allowance
  <1>4. Debited(mem[s], NewAuthorization(s, id)) \in Allowance
    <2>1. ASSUME NEW a \in Allowance, NEW x \in Authorization, a.remaining >= x.amount
          PROVE  Debited(a, x) \in Allowance
      <3>1. a.remaining - x.amount \in Nat
        BY <2>1 DEF Allowance, Authorization
      <3> QED BY <3>1 DEF Debited, Allowance, Authorization
    <2>2. NewAuthorization(s, id).amount = Amount[req[s]]
      BY DEF NewAuthorization
    <2> QED BY <1>1, <1>3, <2>1, <2>2
  <1> QED BY <1>3, <1>4

\* A record put in front keeps the history a history and loses none of it.
LEMMA Prepend ==
  ASSUME NEW R, NEW r \in R, NEW q \in Seq(R)
  PROVE  /\ <<r>> \o q \in Seq(R)
         /\ Len(<<r>> \o q) = Len(q) + 1
         /\ (<<r>> \o q)[1] = r
         /\ \A n \in 1..Len(q) : (<<r>> \o q)[n + 1] = q[n]
  OBVIOUS

LEMMA TypeStep == TypeInv /\ [Next]_vars => TypeInv'
  <1> SUFFICES ASSUME TypeInv, [Next]_vars
               PROVE  TypeInv'
    OBVIOUS
  <1> USE DEF TypeInv, TypeOK, StageOK, Stages, storage, screen, history
  <1>1. ASSUME NEW i \in AllowanceIds, BeginProvision(i)
        PROVE  TypeInv'
    BY <1>1 DEF BeginProvision
  <1>2. ASSUME NEW i \in AllowanceIds, NEW amt \in Limits, FinishProvision(i, amt)
        PROVE  TypeInv'
    BY <1>2, LimitsAssumption DEF FinishProvision, NewAllowance, Allowance
  <1>3. ASSUME NEW s \in Screens, NEW r \in Requests, OpenConfirm(s, r)
        PROVE  TypeInv'
    BY <1>3 DEF OpenConfirm, Live
  <1>4. ASSUME NEW s \in Screens, CheckAllowance(s)
        PROVE  TypeInv'
    BY <1>4, ActiveIsCopy DEF CheckAllowance
  <1>5. ASSUME NEW s \in Screens, Pay(s)
        PROVE  TypeInv'
    BY <1>5, ActiveIsCopy DEF Pay
  <1>6. ASSUME NEW s \in Screens, PayRejected(s)
        PROVE  TypeInv'
    BY <1>6, ActiveIsCopy DEF PayRejected
  <1>7. ASSUME NEW s \in Screens, NEW id \in AuthIds, Sign(s, id)
        PROVE  TypeInv'
    <2> DEFINE x == NewAuthorization(s, id)
               a == Debited(mem[s], x)
    <2>1. x \in Authorization /\ a \in Allowance
      BY <1>7, SignType DEF Sign
    <2>2. x.alw \in AllowanceIds /\ x.amount \in Nat
      BY <2>1 DEF Authorization
    <2> HIDE DEF x, a
    <2>3. /\ mem' = [mem EXCEPT ![s] = a] /\ allowance' = a
          /\ auth' = [auth EXCEPT ![s] = x] /\ issued' = issued \cup {x}
          /\ spent' = [spent EXCEPT ![x.alw] = @ + x.amount]
          /\ pc' = [pc EXCEPT ![s] = "debited"]
          /\ UNCHANGED <<queue, records, provisioning, top, req, seen, pend, lapsed, limit, shown>>
      BY <1>7 DEF Sign, x, a
    <2> QED BY <1>7, <2>1, <2>2, <2>3 DEF Sign
  <1>8. ASSUME NEW s \in Screens, Enqueue(s)
        PROVE  TypeInv'
    BY <1>8 DEF Enqueue
  <1>9. ASSUME NEW s \in Screens, RecordSpend(s)
        PROVE  TypeInv'
    <2>1. [id |-> auth[s].id, status |-> "pending"] \in Record
      BY <1>9 DEF RecordSpend, Record, Authorization, Status
    <2>2. records' \in Seq(Record)
      BY <1>9, <2>1, Prepend DEF RecordSpend
    <2> QED BY <1>9, <2>2 DEF RecordSpend
  <1>10. ASSUME NEW s \in Screens, Broadcast(s)
         PROVE  TypeInv'
    BY <1>10 DEF Broadcast, Dispose
  <1>11. ASSUME NEW s \in Screens, Close(s)
         PROVE  TypeInv'
    BY <1>11 DEF Close, Dispose
  <1>12. ASSUME NEW s \in Screens, LeaveSigning(s)
         PROVE  TypeInv'
    BY <1>12 DEF LeaveSigning
  <1>13. ASSUME NEW x \in AllowanceIds \cup Requests, Lapse(x)
         PROVE  TypeInv'
    BY <1>13 DEF Lapse
  <1>14. CASE Crash
    BY <1>14 DEF Crash
  <1>15. CASE UNCHANGED vars
    BY <1>15 DEF vars
  <1> QED
    BY <1>1, <1>2, <1>3, <1>4, <1>5, <1>6, <1>7, <1>8, <1>9, <1>10, <1>11, <1>12,
       <1>13, <1>14, <1>15
    DEF Next, ConfirmInput, Continuation

\* Types, and what each stage of a spend implies, hold in every reachable state.
LEMMA TypeAlways == Spec => []TypeInv
  BY TypeInit, TypeStep, PTL DEF Spec

\* Types hold in every reachable state, whatever the user and the clock do.
THEOREM TypeCorrect == Spec => []TypeOK
  <1>1. TypeInv => TypeOK
    BY DEF TypeInv
  <1> QED BY <1>1, TypeAlways, PTL

-----------------------------------------------------------------------------
(* Confirmations are durable.                                              *)

\* A screen about to broadcast has recorded its authorization.
DurableInv ==
  /\ ConfirmedIsRecorded
  /\ \A s \in Screens : pc[s] = "recorded" => Recorded(auth[s])

LEMMA DurableStep == TypeInv /\ DurableInv /\ [Next]_vars => DurableInv'
  <1> SUFFICES ASSUME TypeInv, DurableInv, [Next]_vars
               PROVE  DurableInv'
    OBVIOUS
  <1> USE DEF DurableInv, ConfirmedIsRecorded, Recorded, storage, screen, history
  <1>a. pc \in [Screens -> Stages] /\ auth \in [Screens -> Authorization \cup {None}]
    BY DEF TypeInv, TypeOK
  <1>1. ASSUME NEW s \in Screens, RecordSpend(s)
        PROVE  DurableInv'
    <2> DEFINE r == [id |-> auth[s].id, status |-> "pending"]
    <2>1. r \in Record
      BY <1>1 DEF RecordSpend, Record, Authorization, Status, TypeInv, StageOK
    <2>2. records \in Seq(Record) /\ records' = <<r>> \o records
      BY <1>1 DEF RecordSpend, TypeInv, TypeOK
    <2>3. \A a : Recorded(a) => Recorded(a)'
      <3> SUFFICES ASSUME NEW a, NEW n \in 1..Len(records), records[n].id = a.id
                   PROVE  \E m \in 1..Len(records') : records'[m].id = a.id
        OBVIOUS
      <3>1. records'[n + 1] = records[n] /\ n + 1 \in 1..Len(records')
        BY <2>1, <2>2, Prepend
      <3> QED BY <3>1
    <2>4. Recorded(auth[s])'
      <3>1. records'[1] = r /\ Len(records') >= 1
        BY <2>1, <2>2, Prepend
      <3>2. auth' = auth
        BY <1>1 DEF RecordSpend
      <3> QED BY <3>1, <3>2, <2>2
    <2>5. pc' = [pc EXCEPT ![s] = "recorded"] /\ UNCHANGED <<auth, shown>>
      BY <1>1 DEF RecordSpend
    <2> HIDE DEF Recorded
    <2> QED BY <2>3, <2>4, <2>5, <1>a
  <1>2. ASSUME NEW s \in Screens, Broadcast(s)
        PROVE  DurableInv'
    BY <1>2, <1>a DEF Broadcast, Dispose
  <1>3. ASSUME records' = records, shown' = shown,
               \A s \in Screens : pc'[s] = "recorded" => pc[s] = "recorded" /\ auth'[s] = auth[s]
        PROVE  DurableInv'
    BY <1>3
  <1>4. ASSUME ~ \E s \in Screens : RecordSpend(s) \/ Broadcast(s)
        PROVE  /\ records' = records /\ shown' = shown
               /\ \A s \in Screens :
                    pc'[s] = "recorded" => pc[s] = "recorded" /\ auth'[s] = auth[s]
    BY <1>4, <1>a
    DEF Next, ConfirmInput, Continuation, vars, BeginProvision, FinishProvision, OpenConfirm, CheckAllowance, Pay,
        PayRejected, Sign, Enqueue, Close, Dispose, LeaveSigning, Lapse, Crash
  <1> QED BY <1>1, <1>2, <1>3, <1>4

\* Every confirmation ever shown is in the payer's stored history, also when
\* screens are left and the process dies between the writes.
THEOREM ConfirmedRecorded == Spec => []ConfirmedIsRecorded
  <1>1. Init => DurableInv
    BY DEF Init, DurableInv, ConfirmedIsRecorded
  <1>2. DurableInv => ConfirmedIsRecorded
    BY DEF DurableInv
  <1> QED BY <1>1, <1>2, DurableStep, TypeAlways, PTL DEF Spec

-----------------------------------------------------------------------------
(* Branches of the chain, whatever screens are left.                       *)

\* id is a certificate, or an authorization that was signed.
Grounded(id) == id \in AllowanceIds \/ \E b \in issued : b.id = id

\* A copy is of a provisioned allowance and its tip exists.
Rooted(c) == c # None => limit[c.id] > 0 /\ Grounded(c.last)

\* What keeps BranchesCovered inductive: branches end in a certificate, and no
\* allowance is provisioned over while copies of it exist.
BranchInv ==
  /\ BranchesCovered
  /\ \A b \in issued : Grounded(b.prev) /\ limit[b.alw] > 0
  /\ Rooted(allowance)
  /\ \A s \in Screens : Rooted(mem[s])
  /\ \A i \in provisioning : limit[i] = 0

\* Copies that are kept, dropped or made of one another stay covered.
LEMMA BranchFrame ==
  ASSUME TypeInv, BranchInv,
         UNCHANGED <<limit, issued, allowance>>,
         \A i \in provisioning' : i \in provisioning \/ limit[i] = 0,
         \A s \in Screens : mem'[s] \in {None, mem[s], allowance}
  PROVE  BranchInv'
  <1>1. \A id : Grounded(id)' <=> Grounded(id)
    BY DEF Grounded
  <1>2. /\ Rooted(allowance)'
        /\ \A s \in Screens : Rooted(mem[s])'
        /\ \A b \in issued' : Grounded(b.prev)' /\ limit'[b.alw] > 0
    BY <1>1 DEF Rooted, BranchInv
  <1>3. BranchesCovered'
    BY DEF BranchInv, BranchesCovered, BranchTotals
  <1> QED BY <1>2, <1>3 DEF BranchInv

\* A new allowance is a branch of its own.
LEMMA BranchProvision ==
  ASSUME TypeInv, BranchInv, NEW i \in AllowanceIds, NEW amt \in Limits,
         FinishProvision(i, amt)
  PROVE  BranchInv'
  <1>1. /\ limit[i] = 0 /\ amt \in Nat /\ amt > 0
        /\ limit' = [limit EXCEPT ![i] = amt] /\ limit \in [AllowanceIds -> Nat]
        /\ allowance' = NewAllowance(i, amt)
        /\ provisioning' = provisioning \ {i} /\ provisioning \subseteq AllowanceIds
        /\ UNCHANGED <<issued, mem>>
        /\ issued \subseteq Authorization
        /\ mem \in [Screens -> Allowance \cup {None}]
    BY LimitsAssumption DEF FinishProvision, BranchInv, TypeInv, TypeOK, screen
  <1>2. \A id : Grounded(id)' <=> Grounded(id)
    BY <1>1 DEF Grounded
  <1>3. \A b \in issued : b.alw # i /\ b.alw \in AllowanceIds
    BY <1>1 DEF BranchInv, Authorization
  <1>4. \A s \in Screens : mem[s] # None => mem[s].id \in AllowanceIds /\ mem[s].id # i
    BY <1>1 DEF BranchInv, Rooted, Allowance
  <1>5. NewAllowance(i, amt) # None
    BY <1>1, NoneAssumption DEF NewAllowance, Allowance
  <1>6. Rooted(allowance)' /\ \A s \in Screens : Rooted(mem[s])'
    BY <1>1, <1>2, <1>4 DEF BranchInv, Rooted, NewAllowance, Grounded
  <1>7. BranchesCovered'
    <2>1. PICK total \in [AuthIds \cup AllowanceIds -> BranchTotals] :
            /\ \A k \in AllowanceIds : total[k] = 0
            /\ \A b \in issued : total[b.id] = total[b.prev] + b.amount /\ total[b.id] <= limit[b.alw]
            /\ \A s \in Screens :
                 mem[s] # None => mem[s].remaining + total[mem[s].last] = limit[mem[s].id]
      BY DEF BranchInv, BranchesCovered
    <2>2. BranchTotals \subseteq BranchTotals'
      BY <1>1 DEF BranchTotals
    <2>3. total \in [AuthIds \cup AllowanceIds -> BranchTotals']
      BY <2>1, <2>2
    <2>4. allowance'.remaining + total[allowance'.last] = limit'[allowance'.id]
      BY <1>1, <2>1 DEF NewAllowance
    <2>5. \A s \in Screens :
            mem'[s] # None => mem'[s].remaining + total[mem'[s].last] = limit'[mem'[s].id]
      BY <1>1, <1>4, <2>1
    <2>6. \A b \in issued' : total[b.id] = total[b.prev] + b.amount /\ total[b.id] <= limit'[b.alw]
      BY <1>1, <1>3, <2>1
    <2> QED BY <2>1, <2>3, <2>4, <2>5, <2>6 DEF BranchesCovered
  <1> QED BY <1>1, <1>2, <1>3, <1>6, <1>7 DEF BranchInv

\* Signing continues the branch of the screen's own copy, whether or not another
\* screen has continued it too.
LEMMA BranchSign ==
  ASSUME TypeInv, BranchInv, NEW s \in Screens, NEW id \in AuthIds, Sign(s, id)
  PROVE  BranchInv'
  <1> DEFINE x == NewAuthorization(s, id)
             a == Debited(mem[s], x)
  <1>1. /\ mem[s] \in Allowance /\ mem[s].remaining >= Amount[req[s]]
        /\ x \in Authorization /\ a \in Allowance /\ a # None /\ mem[s] # None
    BY SignType, NoneAssumption DEF Sign, TypeInv, StageOK
  <1>2. /\ x.id = id /\ x.alw = mem[s].id /\ x.prev = mem[s].last
        /\ x.amount = Amount[req[s]]
        /\ a.id = mem[s].id /\ a.last = id /\ a.remaining = mem[s].remaining - x.amount
    BY <1>1 DEF NewAuthorization, Debited, Allowance
  <1>3. /\ x.amount \in Nat /\ x.amount <= mem[s].remaining /\ mem[s].remaining \in Nat
        /\ mem[s].id \in AllowanceIds /\ mem[s].last \in AuthIds \cup AllowanceIds
    BY <1>1, <1>2 DEF Authorization, Allowance
  <1>4. /\ mem' = [mem EXCEPT ![s] = a] /\ allowance' = a /\ issued' = issued \cup {x}
        /\ UNCHANGED <<limit, provisioning>>
        /\ \A b \in issued : b.id # id
    BY DEF Sign
  <1>5. /\ mem \in [Screens -> Allowance \cup {None}] /\ limit \in [AllowanceIds -> Nat]
        /\ issued \subseteq Authorization
        /\ allowance \in Allowance \cup {None}
    BY DEF TypeInv, TypeOK
  <1> HIDE DEF x, a
  <1>6. \A k : Grounded(k) => Grounded(k)' /\ (Grounded(k) => k # id)
    BY <1>4, IdsAssumption DEF Grounded
  <1>7. Grounded(mem[s].last) /\ limit[mem[s].id] > 0
    BY <1>1 DEF BranchInv, Rooted
  <1>8. Grounded(id)'
    BY <1>2, <1>4 DEF Grounded
  <1>9. Rooted(allowance)' /\ \A t \in Screens : Rooted(mem[t])'
    BY <1>2, <1>4, <1>5, <1>6, <1>7, <1>8 DEF BranchInv, Rooted
  <1>10. \A b \in issued' : Grounded(b.prev)' /\ limit'[b.alw] > 0
    BY <1>2, <1>4, <1>6, <1>7 DEF BranchInv
  <1>11. BranchesCovered'
    <2> DEFINE Ids == AuthIds \cup AllowanceIds
    <2>1. PICK total \in [Ids -> BranchTotals] :
            /\ \A k \in AllowanceIds : total[k] = 0
            /\ \A b \in issued : total[b.id] = total[b.prev] + b.amount /\ total[b.id] <= limit[b.alw]
            /\ \A t \in Screens :
                 mem[t] # None => mem[t].remaining + total[mem[t].last] = limit[mem[t].id]
      BY DEF BranchInv, BranchesCovered
    <2> DEFINE sum == total[mem[s].last] + x.amount
               more == [total EXCEPT ![id] = sum]
    <2>2. total[mem[s].last] \in Nat /\ limit[mem[s].id] \in Nat
      <3>1. BranchTotals \subseteq Nat
        BY <1>5 DEF BranchTotals
      <3> QED BY <1>3, <1>5, <2>1, <3>1
    <2>3. /\ mem[s].remaining + total[mem[s].last] = limit[mem[s].id]
          /\ sum \in Nat /\ sum <= limit[mem[s].id]
          /\ (mem[s].remaining - x.amount) + sum = limit[mem[s].id]
      BY <1>1, <1>3, <2>1, <2>2
    <2>4. sum \in BranchTotals
      BY <1>3, <2>2, <2>3 DEF BranchTotals
    <2> HIDE DEF sum
    <2>5. more \in [Ids -> BranchTotals']
      BY <1>4, <2>1, <2>4 DEF BranchTotals
    <2>6. more[id] = sum /\ \A k \in Ids : k # id => more[k] = total[k]
      BY <2>1
    <2> HIDE DEF more
    <2>7. \A k \in AllowanceIds : more[k] = 0
      BY <2>1, <2>6, IdsAssumption
    <2>8. ASSUME NEW b \in issued
          PROVE  more[b.id] = more[b.prev] + b.amount /\ more[b.id] <= limit[b.alw]
      <3>1. b.id \in Ids /\ b.id # id /\ b.prev \in Ids /\ b.prev # id
        BY <1>4, <1>5, <1>6 DEF BranchInv, Authorization
      <3> QED BY <2>1, <2>6, <3>1
    <2>9. more[x.id] = more[x.prev] + x.amount /\ more[x.id] <= limit[x.alw]
      <3>1. more[x.prev] = total[mem[s].last]
        BY <1>2, <1>3, <1>6, <1>7, <2>6
      <3> QED BY <1>2, <2>3, <2>6, <3>1 DEF sum
    <2>10. a.remaining + more[a.last] = limit[a.id]
      BY <1>2, <2>3, <2>6
    <2>11. ASSUME NEW t \in Screens, t # s, mem[t] # None
           PROVE  mem[t].remaining + more[mem[t].last] = limit[mem[t].id]
      <3>1. mem[t].last \in Ids /\ mem[t].last # id
        BY <1>5, <1>6, <2>11 DEF BranchInv, Rooted, Allowance
      <3> QED BY <2>1, <2>6, <2>11, <3>1
    <2> QED BY <1>4, <1>5, <2>5, <2>7, <2>8, <2>9, <2>10, <2>11 DEF BranchesCovered
  <1> QED BY <1>4, <1>9, <1>10, <1>11 DEF BranchInv

LEMMA BranchStep == TypeInv /\ BranchInv /\ [Next]_vars => BranchInv'
  <1> SUFFICES ASSUME TypeInv, BranchInv, [Next]_vars
               PROVE  BranchInv'
    OBVIOUS
  <1>a. mem \in [Screens -> Allowance \cup {None}] /\ TypeOK
    BY DEF TypeInv, TypeOK
  <1> USE DEF storage, screen, history
  <1>1. ASSUME NEW i \in AllowanceIds, BeginProvision(i)
        PROVE  BranchInv'
    BY <1>1, BranchFrame DEF BeginProvision
  <1>2. ASSUME NEW i \in AllowanceIds, NEW amt \in Limits, FinishProvision(i, amt)
        PROVE  BranchInv'
    BY <1>2, BranchProvision
  <1>3. ASSUME NEW s \in Screens, NEW id \in AuthIds, Sign(s, id)
        PROVE  BranchInv'
    BY <1>3, BranchSign
  <1>4. ASSUME ~ \E i \in AllowanceIds : BeginProvision(i),
               ~ \E i \in AllowanceIds, amt \in Limits : FinishProvision(i, amt),
               ~ \E s \in Screens, id \in AuthIds : Sign(s, id)
        PROVE  /\ UNCHANGED <<limit, issued, allowance>>
               /\ provisioning' \subseteq provisioning
               /\ \A s \in Screens : mem'[s] \in {None, mem[s], allowance}
    <2>1. ASSUME NEW s \in Screens, CheckAllowance(s) \/ Pay(s) \/ PayRejected(s)
          PROVE  \A t \in Screens : mem'[t] \in {None, mem[t], allowance}
      BY <1>a, <2>1, ActiveIsCopy DEF CheckAllowance, Pay, PayRejected
    <2> QED
      BY <1>a, <1>4, <2>1
      DEF Next, ConfirmInput, Continuation, vars, OpenConfirm, CheckAllowance, Pay,
          PayRejected, Enqueue, RecordSpend, Broadcast, Close, Dispose, LeaveSigning,
          Lapse, Crash
  <1> QED BY <1>1, <1>2, <1>3, <1>4, BranchFrame

LEMMA BranchInit == Init => BranchInv
  <1> SUFFICES ASSUME Init PROVE BranchInv
    OBVIOUS
  <1> DEFINE total == [id \in AuthIds \cup AllowanceIds |-> 0]
  <1>1. /\ total \in [AuthIds \cup AllowanceIds -> BranchTotals]
        /\ \A i \in AllowanceIds : total[i] = 0
    BY DEF BranchTotals
  <1>2. BranchesCovered
    <2> HIDE DEF total
    <2> QED BY <1>1 DEF Init, BranchesCovered
  <1> QED BY <1>2 DEF Init, BranchInv, Rooted

\* Also when signing screens are left and two screens draw from copies of the same
\* balance: what any one merchant can trace back to the certificate was covered.
THEOREM BranchesAreCovered == Spec => []BranchesCovered
  <1>1. BranchInv => BranchesCovered
    BY DEF BranchInv
  <1> QED BY <1>1, BranchInit, BranchStep, TypeAlways, PTL DEF Spec

-----------------------------------------------------------------------------
(* One chain per allowance, when a signing screen cannot be left.          *)

\* A copy of an allowance agrees with the history of that allowance: its
\* balance, its sequence number and its tip are those of the newest
\* authorization.  No copy is ever behind another.
Copy(c) ==
  /\ c.initial = limit[c.id]
  /\ limit[c.id] > 0
  /\ c.remaining + spent[c.id] = limit[c.id]
  /\ \A b \in issued : b.alw = c.id => b.seq <= c.seq
  /\ \/ c.seq = 0 /\ c.last = c.id
     \/ \E b \in issued : b.alw = c.id /\ b.seq = c.seq /\ b.id = c.last

Serial ==
  \A s \in Screens : /\ pc[s] # "closed" => top = s
                     /\ pc[s] = "closed" => mem[s] = None

Copies ==
  /\ allowance # None => Copy(allowance)
  /\ \A s \in Screens : mem[s] # None => Copy(mem[s])

Fresh ==
  /\ \A i \in provisioning : limit[i] = 0
  /\ \A b \in issued : limit[b.alw] > 0

ChainInv == Serial /\ Copies /\ Fresh /\ NoOverspend /\ OneChain

\* Steps that sign nothing and provision nothing leave the history alone and
\* only copy or drop allowances.
LEMMA ChainFrame ==
  ASSUME TypeInv, ChainInv,
         UNCHANGED <<limit, spent, issued, allowance>>,
         \A i \in provisioning' : i \in provisioning \/ limit[i] = 0,
         \A s \in Screens : mem'[s] \in {None, mem[s], allowance},
         Serial'
  PROVE  ChainInv'
  <1>1. \A c : Copy(c) => Copy(c)'
    BY DEF Copy
  <1>2. Copies'
    <2> SUFFICES ASSUME NEW s \in Screens, mem'[s] # None
                 PROVE  \/ Copy(mem[s]) /\ mem'[s] = mem[s]
                        \/ Copy(allowance) /\ mem'[s] = allowance
      BY <1>1 DEF Copies, ChainInv, Copy
    <2> QED BY DEF Copies, ChainInv
  <1>3. Fresh' /\ NoOverspend' /\ OneChain'
    BY DEF ChainInv, Fresh, NoOverspend, OneChain
  <1> QED BY <1>2, <1>3 DEF ChainInv

\* Provisioning starts an allowance nothing was ever drawn from.
LEMMA ChainProvision ==
  ASSUME TypeInv, ChainInv, NEW i \in AllowanceIds, NEW amt \in Limits,
         FinishProvision(i, amt)
  PROVE  ChainInv'
  <1>1. /\ limit[i] = 0 /\ spent[i] = 0 /\ amt \in Nat /\ amt > 0
        /\ limit' = [limit EXCEPT ![i] = amt] /\ limit \in [AllowanceIds -> Nat]
        /\ spent \in [AllowanceIds -> Nat] /\ allowance' = NewAllowance(i, amt)
        /\ provisioning' = provisioning \ {i} /\ provisioning \subseteq AllowanceIds
        /\ UNCHANGED <<spent, issued, mem, pc, top>>
        /\ issued \subseteq Authorization
        /\ mem \in [Screens -> Allowance \cup {None}]
    BY LimitsAssumption
    DEF FinishProvision, ChainInv, Fresh, NoOverspend, TypeInv, TypeOK, screen
  <1>2. \A b \in issued : b.alw # i /\ b.alw \in AllowanceIds
    BY <1>1 DEF ChainInv, Fresh, Authorization
  <1>3. \A c \in Allowance : Copy(c) => Copy(c)'
    BY <1>1, <1>2 DEF Copy, Allowance
  <1>4. Copy(NewAllowance(i, amt))'
    BY <1>1, <1>2 DEF Copy, NewAllowance
  <1>5. Copies'
    BY <1>1, <1>3, <1>4 DEF Copies, ChainInv
  <1>6. Fresh'
    BY <1>1, <1>2 DEF Fresh, ChainInv
  <1>7. NoOverspend'
    BY <1>1 DEF NoOverspend, ChainInv
  <1>8. Serial' /\ OneChain'
    BY <1>1 DEF Serial, OneChain, ChainInv
  <1> QED BY <1>5, <1>6, <1>7, <1>8 DEF ChainInv

\* What signing does, in terms of the ledger: the screen's copy is of an
\* allowance that covers the amount, and the new authorization extends its chain.
LEMMA SignExtends ==
  ASSUME TypeInv, ChainInv, NEW s \in Screens, NEW id \in AuthIds, Sign(s, id),
         NEW x, x = NewAuthorization(s, id)
  PROVE  /\ x \in Authorization
         /\ mem[s] \in Allowance /\ Copy(mem[s])
         /\ x.alw = mem[s].id /\ x.seq = mem[s].seq + 1 /\ x.prev = mem[s].last
         /\ x.id = id /\ x.amount = Amount[x.req]
         /\ x.amount \in Nat /\ x.amount <= mem[s].remaining
  <1>1. pc[s] = "checked"
    BY DEF Sign
  <1>2. /\ req[s] \in Requests /\ mem[s] \in Allowance
        /\ mem[s].remaining >= Amount[req[s]] /\ Amount[req[s]] \in Nat
    BY <1>1, AmountAssumption DEF TypeInv, StageOK
  <1>3. Copy(mem[s])
    BY <1>2, NoneAssumption DEF ChainInv, Copies
  <1>4. x \in Authorization
    BY <1>1, SignType
  <1> QED BY <1>2, <1>3, <1>4 DEF NewAuthorization, Allowance

\* Signing extends the chain of one allowance, and the debited copy agrees
\* with the longer history; no other screen holds a copy.
LEMMA ChainSign ==
  ASSUME TypeInv, ChainInv, NEW s \in Screens, NEW id \in AuthIds, Sign(s, id),
         NEW x, x = NewAuthorization(s, id),
         NEW a, a = Debited(mem[s], x)
  PROVE  ChainInv'
  <1>1. /\ x \in Authorization
        /\ mem[s] \in Allowance /\ Copy(mem[s])
        /\ x.alw = mem[s].id /\ x.seq = mem[s].seq + 1 /\ x.prev = mem[s].last
        /\ x.id = id
        /\ x.amount \in Nat /\ x.amount <= mem[s].remaining
    BY SignExtends
  <1>2. /\ a.id = mem[s].id /\ a.initial = mem[s].initial
        /\ a.remaining = mem[s].remaining - x.amount /\ a.seq = x.seq /\ a.last = x.id
    BY <1>1 DEF Debited, Allowance
  <1>3. /\ mem' = [mem EXCEPT ![s] = a] /\ allowance' = a
        /\ pc' = [pc EXCEPT ![s] = "debited"] /\ pc[s] = "checked"
        /\ issued' = issued \cup {x} /\ spent' = [spent EXCEPT ![x.alw] = @ + x.amount]
        /\ \A b \in issued : b.id # id
        /\ UNCHANGED <<limit, top, provisioning>>
    BY DEF Sign
  <1>4. /\ mem \in [Screens -> Allowance \cup {None}] /\ pc \in [Screens -> Stages]
        /\ limit \in [AllowanceIds -> Nat] /\ spent \in [AllowanceIds -> Nat]
        /\ issued \subseteq Authorization
    BY DEF TypeInv, TypeOK
  <1>5. \A t \in Screens : t # s => pc[t] = "closed" /\ mem[t] = None
    BY <1>3 DEF ChainInv, Serial
  <1>6. Copy(a)'
    BY <1>1, <1>2, <1>3, <1>4 DEF Copy, Allowance, Authorization
  <1>7. Copies'
    BY <1>3, <1>4, <1>5, <1>6 DEF Copies
  <1>8. Serial'
    <2>1. top = s
      BY <1>3, <1>4 DEF Serial, ChainInv
    <2> QED BY <2>1, <1>3, <1>4, <1>5 DEF Serial
  <1>9. Fresh' /\ NoOverspend'
    <2>1. x.alw \in AllowanceIds /\ limit[x.alw] > 0
      BY <1>1 DEF Copy, Authorization
    <2>2. spent[x.alw] + x.amount <= limit[x.alw]
      BY <1>1, <1>4, <2>1 DEF Copy, Allowance
    <2>3. Fresh'
      BY <1>3, <2>1 DEF Fresh, ChainInv
    <2>4. NoOverspend'
      BY <1>3, <1>4, <2>1, <2>2 DEF NoOverspend, ChainInv
    <2> QED BY <2>3, <2>4
  <1>10. OneChain'
    <2>1. \A b \in issued : b.alw = x.alw => b.seq < x.seq
      BY <1>1, <1>4 DEF Copy, Allowance, Authorization
    <2>2. \/ x.seq = 1 /\ x.prev = x.alw
          \/ \E b \in issued : b.alw = x.alw /\ b.seq + 1 = x.seq /\ b.id = x.prev
      BY <1>1 DEF Copy, Allowance, Authorization
    <2>3. \A b \in issued' : b.alw = x.alw /\ b.seq = x.seq => b = x
      BY <2>1, <1>1, <1>3, <1>4 DEF Authorization
    <2> QED BY <2>2, <2>3, <1>3 DEF OneChain, ChainInv
  <1> QED BY <1>7, <1>8, <1>9, <1>10 DEF ChainInv

LEMMA ChainStep ==
  ASSUME ~LeaveWhileSigning
  PROVE  TypeInv /\ ChainInv /\ [Next]_vars => ChainInv'
  <1> SUFFICES ASSUME TypeInv, ChainInv, [Next]_vars
               PROVE  ChainInv'
    OBVIOUS
  <1>a. /\ pc \in [Screens -> Stages] /\ mem \in [Screens -> Allowance \cup {None}]
        /\ Serial /\ None \notin Screens
    BY NoneAssumption DEF TypeInv, TypeOK, ChainInv
  <1> USE DEF Serial, storage, screen, history
  <1>1. ASSUME NEW i \in AllowanceIds, BeginProvision(i)
        PROVE  ChainInv'
    BY <1>1, <1>a, ChainFrame DEF BeginProvision
  <1>2. ASSUME NEW i \in AllowanceIds, NEW amt \in Limits, FinishProvision(i, amt)
        PROVE  ChainInv'
    BY <1>2, ChainProvision
  <1>3. ASSUME NEW s \in Screens, NEW r \in Requests, OpenConfirm(s, r)
        PROVE  ChainInv'
    <2>1. /\ UNCHANGED <<limit, spent, issued, allowance, provisioning>>
          /\ \A t \in Screens : mem'[t] \in {None, mem[t], allowance}
      BY <1>3, <1>a DEF OpenConfirm
    <2>2. Serial'
      BY <1>3, <1>a DEF OpenConfirm
    <2> QED BY <2>1, <2>2, ChainFrame
  <1>4. ASSUME NEW s \in Screens, CheckAllowance(s) \/ Pay(s) \/ PayRejected(s)
        PROVE  ChainInv'
    <2>1. /\ UNCHANGED <<limit, spent, issued, allowance, provisioning, top>>
          /\ \A t \in Screens : mem'[t] \in {None, mem[t], allowance}
      BY <1>4, <1>a, ActiveIsCopy DEF CheckAllowance, Pay, PayRejected, TypeInv
    <2>2. Serial'
      BY <1>4, <1>a, <2>1 DEF CheckAllowance, Pay, PayRejected
    <2> QED BY <2>1, <2>2, ChainFrame
  <1>5. ASSUME NEW s \in Screens, NEW id \in AuthIds, Sign(s, id)
        PROVE  ChainInv'
    BY <1>5, ChainSign
  <1>6. ASSUME NEW s \in Screens, Enqueue(s) \/ RecordSpend(s) \/ LeaveSigning(s)
        PROVE  ChainInv'
    <2>1. UNCHANGED <<limit, spent, issued, allowance, provisioning, top, mem>>
      BY <1>6 DEF Enqueue, RecordSpend, LeaveSigning
    <2>2. Serial'
      BY <1>6, <1>a DEF Enqueue, RecordSpend, LeaveSigning
    <2> QED BY <2>1, <2>2, ChainFrame
  <1>7. ASSUME NEW s \in Screens, Broadcast(s) \/ Close(s)
        PROVE  ChainInv'
    <2>1. /\ UNCHANGED <<limit, spent, issued, allowance, provisioning>>
          /\ \A t \in Screens : mem'[t] \in {None, mem[t], allowance}
      BY <1>7, <1>a DEF Broadcast, Close, Dispose
    <2>2. Serial'
      BY <1>7, <1>a DEF Broadcast, Close, Dispose
    <2> QED BY <2>1, <2>2, ChainFrame
  <1>8. ASSUME NEW x \in AllowanceIds \cup Requests, Lapse(x)
        PROVE  ChainInv'
    BY <1>8, <1>a, ChainFrame DEF Lapse
  <1>9. CASE Crash
    <2>1. /\ UNCHANGED <<limit, spent, issued, allowance>> /\ provisioning' = {}
          /\ \A t \in Screens : mem'[t] = None /\ pc'[t] = "closed"
      BY <1>9 DEF Crash
    <2> QED BY <2>1, ChainFrame
  <1>10. CASE UNCHANGED vars
    BY <1>10, <1>a, ChainFrame DEF vars
  <1> QED
    BY <1>1, <1>2, <1>3, <1>4, <1>5, <1>6, <1>7, <1>8, <1>9, <1>10
    DEF Next, ConfirmInput, Continuation

LEMMA ChainInit == Init => ChainInv
  BY DEF Init, ChainInv, Serial, Copies, Fresh, NoOverspend, OneChain

LEMMA ChainAlways == ~LeaveWhileSigning => (Spec => []ChainInv)
  <1>1. ASSUME ~LeaveWhileSigning
        PROVE  Spec => []ChainInv
    BY <1>1, ChainInit, ChainStep, TypeAlways, PTL DEF Spec
  <1> QED BY <1>1

\* If a signing screen cannot be left, the stored balance is exactly what was
\* set aside less everything authorized, over all screens and restarts.
THEOREM BalanceConserved == ~LeaveWhileSigning => (Spec => []Conservation)
  <1>1. ChainInv => Conservation
    BY DEF ChainInv, Copies, Copy, Conservation
  <1> QED BY <1>1, ChainAlways, PTL

\* If a signing screen cannot be left, no allowance is overspent.
THEOREM NeverOverspent == ~LeaveWhileSigning => (Spec => []NoOverspend)
  <1>1. ChainInv => NoOverspend
    BY DEF ChainInv
  <1> QED BY <1>1, ChainAlways, PTL

\* If a signing screen cannot be left, the authorizations of an allowance form
\* one chain without a fork, over all screens and restarts.
THEOREM ChainNeverForks == ~LeaveWhileSigning => (Spec => []OneChain)
  <1>1. ChainInv => OneChain
    BY DEF ChainInv
  <1> QED BY <1>1, ChainAlways, PTL

-----------------------------------------------------------------------------
(* The copies of an allowance implement the atomic ledger.                 *)

LEMMA SignAuthorizes ==
  ASSUME TypeInv, ChainInv, NEW s \in Screens, NEW id \in AuthIds, Sign(s, id),
         NEW x, x = NewAuthorization(s, id)
  PROVE  /\ x \in Ledger!Authorization /\ Ledger!Authorize(x)
         /\ x \in issued' \ issued
  <1>1. /\ x \in Authorization
        /\ mem[s] \in Allowance /\ Copy(mem[s])
        /\ x.alw = mem[s].id /\ x.seq = mem[s].seq + 1 /\ x.prev = mem[s].last
        /\ x.id = id /\ x.amount = Amount[x.req]
        /\ x.amount \in Nat /\ x.amount <= mem[s].remaining
    BY SignExtends
  <1>2. /\ issued' = issued \cup {x} /\ spent' = [spent EXCEPT ![x.alw] = @ + x.amount]
        /\ limit' = limit /\ \A b \in issued : b.id # id
    BY DEF Sign
  <1>3. issued \subseteq Authorization /\ spent \in [AllowanceIds -> Nat]
        /\ limit \in [AllowanceIds -> Nat]
    BY DEF TypeInv, TypeOK
  <1>4. Ledger!ContinuesChain(x)
    BY <1>1, <1>3 DEF Ledger!ContinuesChain, Copy, Allowance, Authorization
  <1>5. spent[x.alw] + x.amount <= limit[x.alw]
    BY <1>1, <1>3 DEF Copy, Allowance, Authorization
  <1> QED
    BY <1>1, <1>2, <1>4, <1>5 DEF Ledger!Authorize, Ledger!Authorization, Authorization

LEMMA LedgerStep ==
  TypeInv /\ ChainInv /\ [Next]_vars => [Ledger!Next]_(Ledger!ledgerVars)
  <1> SUFFICES ASSUME TypeInv, ChainInv, [Next]_vars
               PROVE  Ledger!Next \/ UNCHANGED <<limit, spent, issued>>
    BY DEF Ledger!ledgerVars
  <1> USE DEF storage, screen, history
  <1>1. ASSUME NEW i \in AllowanceIds, NEW amt \in Limits, FinishProvision(i, amt)
        PROVE  Ledger!Next
    <2>1. Ledger!Grant(i, amt)
      BY <1>1 DEF FinishProvision, Ledger!Grant, ChainInv, Fresh
    <2> QED BY <2>1 DEF Ledger!Next
  <1>2. ASSUME NEW s \in Screens, NEW id \in AuthIds, Sign(s, id)
        PROVE  Ledger!Next
    BY <1>2, SignAuthorizes DEF Ledger!Next
  <1>3. ASSUME ~ \E i \in AllowanceIds, amt \in Limits : FinishProvision(i, amt),
               ~ \E s \in Screens, id \in AuthIds : Sign(s, id)
        PROVE  UNCHANGED <<limit, spent, issued>>
    BY <1>3
    DEF Next, ConfirmInput, Continuation, vars, BeginProvision, OpenConfirm, CheckAllowance, Pay, PayRejected, Enqueue,
        RecordSpend, Broadcast, Close, LeaveSigning, Lapse, Crash
  <1> QED BY <1>1, <1>2, <1>3

\* If a signing screen cannot be left, the service with all its copies of the
\* allowance implements the atomic ledger.
THEOREM ImplementsLedger == ~LeaveWhileSigning => (Spec => LedgerSpec)
  <1>1. Init => Ledger!Init
    BY DEF Init, Ledger!Init
  <1> QED BY <1>1, LedgerStep, TypeAlways, ChainAlways, PTL DEF Spec, LedgerSpec, Ledger!Spec

-----------------------------------------------------------------------------
(* Records.                                                                *)

\* A record whose status is set is one of a list of records, and nothing but
\* its status changes.
LEMMA SetStatusHas ==
  ASSUME NEW rs \in Seq(Record), NEW id \in AuthIds, NEW status \in Status
  PROVE  /\ SetStatus(rs, id, status) \in Seq(Record)
         /\ \A i, t : Has(SetStatus(rs, id, status), i, t) =>
              Has(rs, i, t) \/ (i = id /\ t = status)
  <1> DEFINE hits == {n \in 1..Len(rs) : rs[n].id = id}
             r == [id |-> id, status |-> status]
  <1>1. r \in Record
    BY DEF Record
  <1>2. CASE hits = {}
    <2>1. SetStatus(rs, id, status) = <<r>> \o rs
      BY <1>2 DEF SetStatus
    <2>2. SetStatus(rs, id, status) \in Seq(Record)
      BY <1>1, <2>1, Prepend
    <2>3. ASSUME NEW i, NEW t, NEW n \in 1..Len(<<r>> \o rs),
                 (<<r>> \o rs)[n] = [id |-> i, status |-> t]
          PROVE  Has(rs, i, t) \/ (i = id /\ t = status)
      <3>1. CASE n = 1
        BY <1>1, <2>3, <3>1, Prepend
      <3>2. CASE n # 1
        <4>1. n - 1 \in 1..Len(rs) /\ (<<r>> \o rs)[(n - 1) + 1] = rs[n - 1]
          BY <1>1, <2>3, <3>2, Prepend
        <4> QED BY <2>3, <4>1 DEF Has
      <3> QED BY <3>1, <3>2
    <2> QED BY <2>1, <2>2, <2>3 DEF Has
  <1>3. CASE hits # {}
    <2> DEFINE m == CHOOSE n \in hits : \A j \in hits : n <= j
    <2>1. SetStatus(rs, id, status) = [rs EXCEPT ![m] = r]
      BY <1>3 DEF SetStatus
    <2> HIDE DEF m
    <2>2. [rs EXCEPT ![m] = r] \in Seq(Record)
      <3>1. CASE m \in 1..Len(rs)
        BY <1>1, <3>1, ExceptSeq
      <3>2. CASE m \notin 1..Len(rs)
        <4>1. [rs EXCEPT ![m] = r] = rs
          BY <3>2
        <4> QED BY <4>1
      <3> QED BY <3>1, <3>2
    <2>3. Len([rs EXCEPT ![m] = r]) = Len(rs)
      OBVIOUS
    <2>4. ASSUME NEW i, NEW t, NEW n \in 1..Len(rs),
                 [rs EXCEPT ![m] = r][n] = [id |-> i, status |-> t]
          PROVE  Has(rs, i, t) \/ (i = id /\ t = status)
      <3>1. CASE n = m
        BY <2>4, <3>1
      <3>2. CASE n # m
        BY <2>4, <3>2 DEF Has
      <3> QED BY <3>1, <3>2
    <2> QED BY <2>1, <2>2, <2>3, <2>4 DEF Has
  <1> QED BY <1>2, <1>3

-----------------------------------------------------------------------------
(* Types.                                                                  *)

SheetTypeInv == TypeInv /\ TypeOKRedemption

LEMMA SheetTypeInit == InitRedemption => SheetTypeInv
  <1> SUFFICES ASSUME InitRedemption PROVE SheetTypeInv
    OBVIOUS
  <1>1. TypeInv
    BY TypeInit DEF InitRedemption
  <1>2. 0 \in 0..MaxPaid
    BY MaxPaidAssumption
  <1> QED
    BY <1>1, <1>2, SheetsAssumption
    DEF InitRedemption, SheetTypeInv, TypeInv, TypeOKRedemption, RunStages, Applied

\* A run changes nothing of the reserve but its stored queue and history.
LEMMA ReserveFrame ==
  ASSUME TypeInv, queue' \subseteq Authorization, records' \in Seq(Record),
         UNCHANGED <<allowance, provisioning, top, screen, lapsed, history>>
  PROVE  TypeInv'
  BY DEF TypeInv, TypeOK, StageOK, screen, history

\* While it is being paid an authorization is in hand.
LEMMA InHand ==
  ASSUME TypeOKRedemption, NEW k \in Sheets, run[k] \in {"pin", "submitting", "accepted", "recording"}
  PROVE  cur[k] \in Authorization /\ cur[k].id \in AuthIds
  BY SheetsAssumption DEF TypeOKRedemption, Applied, Authorization

LEMMA FailedType ==
  ASSUME SheetTypeInv, NEW k \in Sheets, run[k] \in {"pin", "submitting", "accepted"},
         FailAttempt(k), paid' = paid, unsettled' \in [AuthIds -> Nat]
  PROVE  SheetTypeInv'
  <1>1. SetStatus(recs[k], cur[k].id, "failed") \in Seq(Record)
    BY InHand, SetStatusHas DEF SheetTypeInv, TypeOKRedemption, Status
  <1>2. TypeInv'
    BY ReserveFrame DEF FailAttempt, vars, storage, SheetTypeInv, TypeInv, TypeOK
  <1> QED
    BY <1>1, <1>2 DEF FailAttempt, SheetTypeInv, TypeInv, TypeOKRedemption, RunStages, Applied

LEMMA DequeueType ==
  ASSUME SheetTypeInv, NEW k \in Sheets, NEW a, Dequeue(k, a)
  PROVE  /\ TypeInv'
         /\ list' \in [Sheets -> SUBSET Authorization]
  <1>1. queue' \subseteq Authorization /\ records' = records
    BY DEF Dequeue, SheetTypeInv, TypeOKRedemption
  <1>2. TypeInv'
    BY <1>1, ReserveFrame DEF Dequeue, SheetTypeInv, TypeInv, TypeOK
  <1> QED BY <1>2 DEF Dequeue, SheetTypeInv, TypeOKRedemption

LEMMA SheetTypeStep == SheetTypeInv /\ [NextRedemption]_redemptionVars => SheetTypeInv'
  <1> SUFFICES ASSUME SheetTypeInv, [NextRedemption]_redemptionVars
               PROVE  SheetTypeInv'
    OBVIOUS
  <1>u. UNCHANGED vars => TypeInv'
    BY TypeStep DEF SheetTypeInv
  <1> USE SheetsAssumption
  <1>1. CASE ReserveStep
    <2>1. TypeInv'
      BY <1>1, TypeStep DEF ReserveStep, Next, SheetTypeInv
    <2>2. raced' \subseteq Authorization
      <3>1. Enqueued \subseteq Authorization
        BY DEF Enqueued, SheetTypeInv, TypeInv, StageOK
      <3> QED BY <1>1, <3>1 DEF ReserveStep, SheetTypeInv, TypeOKRedemption
    <2> QED
      BY <1>1, <2>1, <2>2 DEF ReserveStep, sync, stellar, SheetTypeInv, TypeOKRedemption, TypeInv
  <1>2. ASSUME NEW k \in Sheets, NEW p \in Places, OpenSheet(k, p)
        PROVE  SheetTypeInv'
    BY <1>2, <1>u DEF OpenSheet, stellar, SheetTypeInv, TypeInv, TypeOK, TypeOKRedemption
  <1>3. ASSUME NEW k \in Sheets, CloseSheet(k)
        PROVE  SheetTypeInv'
    BY <1>3, <1>u DEF CloseSheet, sync, stellar, SheetTypeInv, TypeInv, TypeOK, TypeOKRedemption
  <1>4. ASSUME NEW k \in Sheets, StartSync(k)
        PROVE  SheetTypeInv'
    <2>1. queue \subseteq Authorization /\ records \in Seq(Record)
      BY DEF SheetTypeInv, TypeInv, TypeOK
    <2>2. /\ list' \in [Sheets -> SUBSET Authorization] /\ recs' \in [Sheets -> Seq(Record)]
          /\ todo' \in [Sheets -> SUBSET Authorization] /\ asOf' \in [Sheets -> SUBSET AuthIds]
      BY <1>4, <2>1 DEF StartSync, SheetTypeInv, TypeOKRedemption
    <2>3. /\ run' \in [Sheets -> RunStages] /\ cur' = cur
          /\ \A j \in Sheets : run'[j] = run[j] \/ (run[j] = "idle" /\ run'[j] = "next")
      BY <1>4 DEF StartSync, Busy, SheetTypeInv, TypeOKRedemption, RunStages, Applied
    <2> QED
      BY <1>4, <1>u, <2>2, <2>3
      DEF StartSync, stellar, SheetTypeInv, TypeInv, TypeOKRedemption, Applied
  <1>5. ASSUME NEW k \in Sheets, NEW a \in todo[k], Expire(k, a)
        PROVE  SheetTypeInv'
    <2>1. a \in Authorization /\ a.id \in AuthIds
      BY <1>5 DEF SheetTypeInv, TypeOKRedemption, Authorization
    <2>2. SetStatus(recs[k], a.id, "expired") \in Seq(Record)
      BY <2>1, SetStatusHas DEF SheetTypeInv, TypeOKRedemption, Status
    <2>3. TypeInv' /\ list' \in [Sheets -> SUBSET Authorization]
      BY <1>5, DequeueType DEF Expire
    <2> QED
      BY <1>5, <2>2, <2>3 DEF Expire, TakeUp, stellar, SheetTypeInv, TypeInv, TypeOKRedemption
  <1>6. ASSUME NEW k \in Sheets, NEW a \in todo[k], ResolveFails(k, a)
        PROVE  SheetTypeInv'
    <2>1. a \in Authorization /\ a.id \in AuthIds
      BY <1>6 DEF SheetTypeInv, TypeOKRedemption, Authorization
    <2>2. SetStatus(recs[k], a.id, "failed") \in Seq(Record)
      BY <2>1, SetStatusHas DEF SheetTypeInv, TypeOKRedemption, Status
    <2> QED
      BY <1>6, <1>u, <2>2 DEF ResolveFails, TakeUp, stellar, SheetTypeInv, TypeInv, TypeOKRedemption
  <1>7. ASSUME NEW k \in Sheets, NEW a \in todo[k], PassOver(k, a)
        PROVE  SheetTypeInv'
    BY <1>7, <1>u DEF PassOver, TakeUp, stellar, SheetTypeInv, TypeInv, TypeOKRedemption
  <1>8. ASSUME NEW k \in Sheets, NEW a \in todo[k], AskPin(k, a)
        PROVE  SheetTypeInv'
    <2>1. a \in Authorization
      BY <1>8 DEF SheetTypeInv, TypeOKRedemption
    <2> QED
      BY <1>8, <1>u, <2>1
      DEF AskPin, TakeUp, stellar, SheetTypeInv, TypeInv, TypeOKRedemption, RunStages, Applied
  <1>9. ASSUME NEW k \in Sheets, SubmissionFails(k) \/ RefusePin(k)
        PROVE  SheetTypeInv'
    BY <1>9, FailedType
    DEF SubmissionFails, RefusePin, stellar, SheetTypeInv, TypeOKRedemption
  <1>10. ASSUME NEW k \in Sheets, Accept(k)
         PROVE  SheetTypeInv'
    <2>1. cur[k].id \in AuthIds
      BY <1>10, InHand DEF Accept, SheetTypeInv
    <2>2. paid' \in [AuthIds -> 0..MaxPaid]
      BY <1>10, <2>1, MaxPaidAssumption DEF Accept, SheetTypeInv, TypeOKRedemption
    <2> QED
      BY <1>10, <1>u, <2>2 DEF Accept, SheetTypeInv, TypeInv, TypeOKRedemption, RunStages, Applied
  <1>11. ASSUME NEW k \in Sheets, LoseAnswer(k)
         PROVE  SheetTypeInv'
    <2>1. cur[k].id \in AuthIds
      BY <1>11, InHand DEF LoseAnswer, SheetTypeInv
    <2>2. unsettled' \in [AuthIds -> Nat]
      BY <1>11, <2>1 DEF LoseAnswer, SheetTypeInv, TypeOKRedemption
    <2> QED BY <1>11, <2>2, FailedType DEF LoseAnswer
  <1>12. ASSUME NEW k \in Sheets, Settle(k)
         PROVE  SheetTypeInv'
    <2>1. SetStatus(recs[k], cur[k].id, "settled") \in Seq(Record)
      BY <1>12, InHand, SetStatusHas DEF Settle, SheetTypeInv, TypeOKRedemption, Status
    <2>2. TypeInv' /\ list' \in [Sheets -> SUBSET Authorization]
      BY <1>12, DequeueType DEF Settle
    <2> QED
      BY <1>12, <2>1, <2>2 DEF Settle, stellar, SheetTypeInv, TypeInv, TypeOKRedemption, RunStages, Applied
  <1>13. ASSUME NEW k \in Sheets, FinishSync(k)
         PROVE  SheetTypeInv'
    <2>1. TypeInv'
      BY <1>13, ReserveFrame DEF FinishSync, SheetTypeInv, TypeInv, TypeOK, TypeOKRedemption
    <2> QED
      BY <1>13, <2>1 DEF FinishSync, stellar, SheetTypeInv, TypeInv, TypeOKRedemption, RunStages, Applied
  <1>18. ASSUME NEW k \in Sheets, Answer(k)
         PROVE  SheetTypeInv'
    BY <1>18, <1>u DEF Answer, stellar, SheetTypeInv, TypeInv, TypeOKRedemption, RunStages, Applied
  <1>14. ASSUME NEW k \in Sheets, EnterPin(k)
         PROVE  SheetTypeInv'
    BY <1>14, <1>u DEF EnterPin, stellar, SheetTypeInv, TypeInv, TypeOKRedemption, RunStages, Applied
  <1>15. ASSUME NEW id \in AuthIds, PassWindow(id)
         PROVE  SheetTypeInv'
    BY <1>15, <1>u DEF PassWindow, sync, stellar, SheetTypeInv, TypeInv, TypeOKRedemption
  <1>16. CASE CrashAll
    <2>1. TypeInv'
      BY <1>16, TypeStep DEF CrashAll, Next, SheetTypeInv
    <2> QED
      BY <1>16, <2>1 DEF CrashAll, SheetTypeInv, TypeInv, TypeOKRedemption, RunStages, Applied
  <1>17. CASE UNCHANGED redemptionVars
    BY <1>17, <1>u
    DEF redemptionVars, redemption, sync, stellar, SheetTypeInv, TypeInv, TypeOKRedemption
  <1> QED
    BY <1>1, <1>2, <1>3, <1>4, <1>5, <1>6, <1>7, <1>8, <1>9, <1>10, <1>11, <1>12, <1>13,
       <1>14, <1>15, <1>16, <1>17, <1>18
    DEF NextRedemption, RunStep

LEMMA SheetTypeAlways == SpecRedemption => []SheetTypeInv
  BY SheetTypeInit, SheetTypeStep, PTL DEF SpecRedemption

\* The sheets, their runs and the payments keep their types, and a run holds
\* an authorization exactly while it is being paid.
THEOREM RedemptionTypeCorrect == SpecRedemption => []TypeOKRedemption
  <1>1. SheetTypeInv => TypeOKRedemption
    BY DEF SheetTypeInv
  <1> QED BY <1>1, SheetTypeAlways, PTL

-----------------------------------------------------------------------------
(* Settled means paid, however sheets overlap.                             *)

\* An attempt whose payment has been applied holds a paid authorization.
SettledInv ==
  /\ SettledIsPaid
  /\ \A k \in Sheets : run[k] \in Applied => paid[cur[k].id] > 0

\* A status other than settled, or of an authorization that is paid, keeps it.
LEMMA SettledSet ==
  ASSUME SheetTypeInv, SettledInv, NEW k \in Sheets, NEW id \in AuthIds, NEW status \in Status,
         recs' = [recs EXCEPT ![k] = SetStatus(@, id, status)],
         status = "settled" => paid[id] > 0,
         records' = records, paid' = paid,
         \A j \in Sheets : run'[j] \in Applied => run[j] \in Applied /\ cur'[j] = cur[j]
  PROVE  SettledInv'
  <1>1. /\ recs[k] \in Seq(Record)
        /\ recs'[k] = SetStatus(recs[k], id, status)
        /\ \A j \in Sheets \ {k} : recs'[j] = recs[j]
    BY DEF SheetTypeInv, TypeOKRedemption
  <1>2. \A i : Has(recs'[k], i, "settled") => Has(recs[k], i, "settled") \/ (i = id /\ paid[i] > 0)
    BY <1>1, SetStatusHas
  <1> HIDE DEF SheetTypeInv
  <1>3. SettledIsPaid'
    <2> SUFFICES ASSUME NEW i \in AuthIds,
                        \/ Has(records, i, "settled")
                        \/ \E j \in Sheets : Has(recs'[j], i, "settled")
                 PROVE  paid[i] > 0
      BY DEF SettledIsPaid, Has
    <2> QED BY <1>1, <1>2 DEF SettledInv, SettledIsPaid
  <1> QED BY <1>3 DEF SettledInv

LEMMA SettledStep == SheetTypeInv /\ SettledInv /\ [NextRedemption]_redemptionVars => SettledInv'
  <1> SUFFICES ASSUME SheetTypeInv, SettledInv, [NextRedemption]_redemptionVars
               PROVE  SettledInv'
    OBVIOUS
  <1>a. /\ recs \in [Sheets -> Seq(Record)] /\ run \in [Sheets -> RunStages]
        /\ cur \in [Sheets -> Authorization \cup {None}]
        /\ paid \in [AuthIds -> 0..MaxPaid]
        /\ records \in Seq(Record)
    BY DEF SheetTypeInv, TypeInv, TypeOK, TypeOKRedemption
  <1>1. ASSUME NEW s \in Screens, RecordSpend(s), UNCHANGED <<run, recs, cur, paid>>
        PROVE  SettledInv'
    <2> DEFINE r == [id |-> auth[s].id, status |-> "pending"]
    <2>1. r \in Record /\ records' = <<r>> \o records
      BY <1>1 DEF RecordSpend, SheetTypeInv, TypeInv, StageOK, Record, Authorization, Status
    <2>2. \A i : Has(records', i, "settled") => Has(records, i, "settled")
      <3> SUFFICES ASSUME NEW i, NEW n \in 1..Len(records'),
                          records'[n] = [id |-> i, status |-> "settled"]
                   PROVE  Has(records, i, "settled")
        BY DEF Has
      <3>1. n # 1
        BY <1>a, <2>1, Prepend
      <3>2. n - 1 \in 1..Len(records) /\ records'[(n - 1) + 1] = records[n - 1]
        BY <1>a, <2>1, <3>1, Prepend
      <3> QED BY <3>2 DEF Has
    <2> QED BY <1>1, <2>2 DEF SettledInv, SettledIsPaid
  <1>2. CASE records' = records /\ recs' = recs /\ run' = run /\ cur' = cur /\ paid' = paid
    BY <1>2 DEF SettledInv, SettledIsPaid, Has
  <1>3. ASSUME ReserveStep, \A s \in Screens : ~RecordSpend(s)
        PROVE  records' = records /\ UNCHANGED <<run, recs, cur, paid>>
    BY <1>3
    DEF ReserveStep, ConfirmInput, Continuation, BeginProvision, FinishProvision, OpenConfirm,
        CheckAllowance, Pay, PayRejected, Sign, Enqueue, Broadcast, Close, LeaveSigning, Lapse,
        storage, sync, stellar
  <1>4. CASE ReserveStep
    BY <1>1, <1>2, <1>3, <1>4 DEF ReserveStep, sync, stellar
  <1>5. ASSUME NEW k \in Sheets, (\E p \in Places : OpenSheet(k, p)) \/ StartSync(k)
        PROVE  SettledInv'
    <2>1. /\ records' = records /\ paid' = paid /\ cur' = cur
          /\ recs' = [recs EXCEPT ![k] = records]
          /\ \A j \in Sheets : run'[j] \in Applied => run[j] \in Applied
      BY <1>5, <1>a DEF OpenSheet, StartSync, vars, storage, stellar, Applied
    <2> QED BY <1>a, <2>1 DEF SettledInv, SettledIsPaid, Has
  <1>6. ASSUME NEW k \in Sheets, NEW a \in todo[k], Expire(k, a) \/ ResolveFails(k, a)
        PROVE  SettledInv'
    <2>1. a.id \in AuthIds
      BY <1>6 DEF SheetTypeInv, TypeOKRedemption, Authorization
    <2>2. PICK status \in Status : /\ status # "settled"
                                   /\ recs' = [recs EXCEPT ![k] = SetStatus(@, a.id, status)]
      BY <1>6 DEF Expire, ResolveFails, Status
    <2>3. records' = records /\ paid' = paid /\ run' = run /\ cur' = cur
      BY <1>6 DEF Expire, ResolveFails, Dequeue, vars, storage, stellar
    <2> QED BY <2>1, <2>2, <2>3, SettledSet
  <1>7. ASSUME NEW k \in Sheets, NEW a \in todo[k], AskPin(k, a)
        PROVE  SettledInv'
    <2>1. /\ run[k] = "next" /\ run' = [run EXCEPT ![k] = "pin"]
          /\ cur' = [cur EXCEPT ![k] = a]
          /\ records' = records /\ recs' = recs /\ paid' = paid
      BY <1>7 DEF AskPin, TakeUp, vars, storage, stellar
    <2> QED BY <1>a, <2>1 DEF SettledInv, SettledIsPaid, Has, Applied
  <1>8. ASSUME NEW k \in Sheets, FailAttempt(k), run[k] \in {"pin", "submitting"} \cup Applied,
               paid' = paid
        PROVE  SettledInv'
    <2>1. cur[k].id \in AuthIds
      BY <1>8, InHand DEF Applied, SheetTypeInv
    <2>2. /\ recs' = [recs EXCEPT ![k] = SetStatus(@, cur[k].id, "failed")]
          /\ run' = [run EXCEPT ![k] = "next"] /\ cur' = [cur EXCEPT ![k] = None]
          /\ records' = records
      BY <1>8 DEF FailAttempt, vars, storage
    <2>3. \A j \in Sheets : run'[j] \in Applied => run[j] \in Applied /\ cur'[j] = cur[j]
      BY <1>a, <2>2 DEF Applied
    <2> QED BY <1>8, <2>1, <2>2, <2>3, SettledSet DEF Status
  <1>9. ASSUME NEW k \in Sheets, SubmissionFails(k) \/ RefusePin(k) \/ LoseAnswer(k)
        PROVE  SettledInv'
    BY <1>8, <1>9 DEF Applied, SubmissionFails, RefusePin, LoseAnswer, stellar
  <1>10. ASSUME NEW k \in Sheets, Accept(k)
         PROVE  SettledInv'
    <2>1. cur[k].id \in AuthIds
      BY <1>10, InHand DEF Accept, SheetTypeInv
    <2>2. /\ paid' = [paid EXCEPT ![cur[k].id] = @ + 1] /\ run' = [run EXCEPT ![k] = "accepted"]
          /\ cur' = cur /\ records' = records /\ recs' = recs
      BY <1>10 DEF Accept, vars, storage
    <2>3. \A i \in AuthIds : paid[i] > 0 => paid'[i] > 0
      BY <1>a, <2>2, MaxPaidAssumption
    <2>4. paid'[cur[k].id] > 0
      BY <1>a, <2>1, <2>2, MaxPaidAssumption
    <2>5. \A j \in Sheets : run'[j] \in Applied => paid'[cur'[j].id] > 0
      BY <1>a, <2>2, <2>3, <2>4, InHand DEF Applied, SettledInv, SheetTypeInv
    <2> QED BY <2>2, <2>3, <2>5 DEF SettledInv, SettledIsPaid, Has
  <1>11. ASSUME NEW k \in Sheets, Settle(k)
         PROVE  SettledInv'
    <2>1. cur[k].id \in AuthIds /\ paid[cur[k].id] > 0
      BY <1>11, InHand DEF Settle, Applied, SheetTypeInv, SettledInv
    <2>2. /\ recs' = [recs EXCEPT ![k] = SetStatus(@, cur[k].id, "settled")]
          /\ run' = [run EXCEPT ![k] = "next"] /\ cur' = [cur EXCEPT ![k] = None]
          /\ records' = records /\ paid' = paid
      BY <1>11 DEF Settle, Dequeue, stellar
    <2>3. \A j \in Sheets : run'[j] \in Applied => run[j] \in Applied /\ cur'[j] = cur[j]
      BY <1>a, <2>2 DEF Applied
    <2> QED BY <2>1, <2>2, <2>3, SettledSet DEF Status
  <1>12. ASSUME NEW k \in Sheets, FinishSync(k)
         PROVE  SettledInv'
    <2>1. /\ records' = recs[k] /\ run' = [run EXCEPT ![k] = "idle"]
          /\ recs' = recs /\ cur' = cur /\ paid' = paid
      BY <1>12 DEF FinishSync, stellar
    <2> QED BY <1>a, <2>1 DEF SettledInv, SettledIsPaid, Has, Applied
  <1>13. ASSUME NEW k \in Sheets, EnterPin(k)
         PROVE  SettledInv'
    <2>1. /\ run' = [run EXCEPT ![k] = "submitting"]
          /\ records' = records /\ recs' = recs /\ cur' = cur /\ paid' = paid
      BY <1>13 DEF EnterPin, vars, storage, stellar
    <2> QED BY <1>a, <2>1 DEF SettledInv, SettledIsPaid, Has, Applied
  <1>16. ASSUME NEW k \in Sheets, Answer(k)
         PROVE  SettledInv'
    <2>1. /\ run[k] = "accepted" /\ run' = [run EXCEPT ![k] = "recording"]
          /\ records' = records /\ recs' = recs /\ cur' = cur /\ paid' = paid
      BY <1>16 DEF Answer, vars, storage, stellar
    <2> QED BY <1>a, <2>1 DEF SettledInv, SettledIsPaid, Has, Applied
  <1>14. CASE CrashAll
    <2>1. /\ \A k \in Sheets : run'[k] = "idle" /\ recs'[k] = <<>>
          /\ records' = records /\ paid' = paid
      BY <1>14 DEF CrashAll, Crash, storage
    <2>2. \A i : \A k \in Sheets : ~Has(recs'[k], i, "settled")
      BY <2>1 DEF Has
    <2> QED BY <2>1, <2>2 DEF SettledInv, SettledIsPaid, Has, Applied
  <1>15. CASE \/ \E k \in Sheets : CloseSheet(k)
              \/ \E k \in Sheets : \E a \in todo[k] : PassOver(k, a)
              \/ \E id \in AuthIds : PassWindow(id)
              \/ UNCHANGED redemptionVars
    BY <1>2, <1>15
    DEF CloseSheet, PassOver, TakeUp, PassWindow, redemptionVars, redemption, sync, stellar, vars,
        storage
  <1> QED
    BY <1>4, <1>5, <1>6, <1>7, <1>9, <1>10, <1>11, <1>12, <1>13, <1>14, <1>15, <1>16
    DEF NextRedemption, RunStep

LEMMA SettledAlways == SpecRedemption => []SettledInv
  <1>1. InitRedemption => SettledInv
    BY DEF InitRedemption, Init, SettledInv, SettledIsPaid, Has, Applied
  <1> QED BY <1>1, SettledStep, SheetTypeAlways, PTL DEF SpecRedemption

\* "settled means the Stellar transaction is confirmed on the ledger", in
\* storage and on every sheet, however many sheets work on one queue.
THEOREM SettledArePaid == SpecRedemption => []SettledIsPaid
  <1>1. SettledInv => SettledIsPaid
    BY DEF SettledInv
  <1> QED BY <1>1, SettledAlways, PTL

-----------------------------------------------------------------------------
(* Settled once, paid once.                                                *)

Final(rs, id) == Has(rs, id, "settled") \/ Has(rs, id, "expired")

\* Open, or dismissed while its run goes on.
Alive(k) == place[k] # None \/ Busy(k)

\* Queued, or in the hands of a sheet that is alive.
Waiting ==
  {a \in Authorization : a \in queue \/ \E k \in Sheets : Alive(k) /\ a \in list[k] \cup todo[k]}

Accepted == {id \in AuthIds : \E k \in Sheets : run[k] \in Applied /\ cur[k].id = id}

\* Final in storage or on a sheet that is alive.
Over ==
  {id \in AuthIds : Final(records, id) \/ \E k \in Sheets : Alive(k) /\ Final(recs[k], id)}

\* A payment has been settled, or the attempt that made it still may settle it.
Heard == {id \in AuthIds : paid[id] > unsettled[id]}

\* One sheet at most is alive.
SheetInv ==
  /\ \A j, k \in Sheets : Alive(j) /\ Alive(k) => j = k
  /\ \A k \in Sheets : ~Busy(k) => todo[k] = {}

\* Whatever is paid, waits or is over was signed, and an id names one
\* authorization.
IdsInv ==
  /\ \A a, b \in issued : a.id = b.id => a = b
  /\ Waiting \subseteq issued
  /\ \A k \in Sheets : cur[k] # None => cur[k] \in issued
  /\ \A s \in Screens : pc[s] = "debited" => auth[s] \in issued
  /\ \A id \in Over \cup Heard : \E a \in issued : a.id = id

\* What a screen has signed and not queued is nowhere else.
ScreenInv ==
  \A s \in Screens :
    /\ pc[s] \in {"open", "checked", "debited"} => pend[s] = {}
    /\ pc[s] = "debited" =>
         /\ auth[s] \notin Waiting /\ auth[s].id \notin Over /\ auth[s].id \notin Heard
         /\ \A k \in Sheets : cur[k] # auth[s]
         /\ \A t \in Screens \ {s} : pc[t] = "debited" => auth[t] # auth[s]

\* What waits is neither over nor heard of, and what a run is about to pay has
\* not been paid for.
PaidInv ==
  /\ RepaidOnlyUnsettled
  /\ \A a \in Waiting : a.id \notin Over /\ (a.id \in Heard => a.id \in Accepted)
  /\ \A k \in Sheets : cur[k] # None =>
       /\ cur[k] \notin todo[k]
       /\ run[k] \notin Applied => cur[k].id \notin Heard

OnceInv == SheetInv /\ IdsInv /\ ScreenInv /\ PaidInv

\* Steps that sign nothing and queue nothing new: the authorizations D become
\* over and leave every place they wait in.
LEMMA OnceFrame ==
  ASSUME SheetTypeInv, OnceInv, SheetInv', issued' = issued,
         NEW D \in SUBSET issued,
         Waiting' \subseteq Waiting \ D,
         \A id \in Over' : id \in Over \/ \E d \in D : d.id = id,
         Heard' \subseteq Heard,
         \A id \in Heard' \cap Accepted : id \in Accepted' \/ \E d \in D : d.id = id,
         RepaidOnlyUnsettled',
         \A s \in Screens : pc'[s] \in {"open", "checked", "debited"} => pend'[s] = {},
         \A s \in Screens : pc'[s] = "debited" =>
            pc[s] = "debited" /\ auth'[s] = auth[s] /\ auth[s] \notin D,
         \A k \in Sheets : cur'[k] # None =>
            /\ cur'[k] = cur[k] /\ todo'[k] \subseteq todo[k]
            /\ run'[k] \notin Applied => run[k] \notin Applied
  PROVE  OnceInv'
  <1> USE DEF OnceInv
  <1>a. issued \subseteq Authorization /\ \A a \in Authorization : a.id \in AuthIds
    BY DEF SheetTypeInv, TypeInv, TypeOK, Authorization
  <1>d. \A a \in issued, d \in D : a.id = d.id => a \in D
    BY DEF IdsInv
  <1>1. IdsInv'
    <2>1. \A a, b \in issued' : a.id = b.id => a = b
      BY DEF IdsInv
    <2>2. Waiting' \subseteq issued'
      BY DEF IdsInv
    <2>3. \A k \in Sheets : cur'[k] # None => cur'[k] \in issued'
      BY DEF IdsInv
    <2>4. \A s \in Screens : pc'[s] = "debited" => auth'[s] \in issued'
      BY DEF IdsInv
    <2>5. \A id \in Over' \cup Heard' : \E a \in issued' : a.id = id
      BY DEF IdsInv
    <2> QED BY <2>1, <2>2, <2>3, <2>4, <2>5 DEF IdsInv
  <1>2. ScreenInv'
    <2> SUFFICES ASSUME NEW s \in Screens, pc'[s] = "debited"
                 PROVE  /\ auth'[s] \notin Waiting'
                        /\ auth'[s].id \notin Over' /\ auth'[s].id \notin Heard'
                        /\ \A k \in Sheets : cur'[k] # auth'[s]
                        /\ \A t \in Screens \ {s} : pc'[t] = "debited" => auth'[t] # auth'[s]
      BY DEF ScreenInv
    <2>1. pc[s] = "debited" /\ auth'[s] = auth[s] /\ auth[s] \notin D /\ auth[s] \in issued
      BY DEF IdsInv
    <2>2. auth[s].id \notin Over'
      BY <1>d, <2>1 DEF ScreenInv
    <2>3. auth[s].id \in AuthIds
      BY <1>a, <2>1
    <2>4. auth[s] # None
      BY <1>a, <2>1, SheetsAssumption
    <2> QED BY <2>1, <2>2, <2>3, <2>4 DEF ScreenInv
  <1>3. PaidInv'
    <2>1. ASSUME NEW a \in Waiting'
          PROVE  a.id \notin Over' /\ (a.id \in Heard' => a.id \in Accepted')
      <3>1. a \in issued /\ a \notin D /\ a.id \in AuthIds
        BY <1>a, <2>1 DEF IdsInv
      <3> QED BY <1>d, <2>1, <3>1 DEF PaidInv
    <2>2. ASSUME NEW k \in Sheets, cur'[k] # None
          PROVE  cur'[k] \notin todo'[k] /\ (run'[k] \notin Applied => cur'[k].id \notin Heard')
      <3>1. cur[k] # None /\ cur'[k] = cur[k] /\ cur[k].id \in AuthIds
        BY <1>a, <2>2 DEF IdsInv
      <3> QED BY <2>2, <3>1 DEF PaidInv
    <2> QED BY <2>1, <2>2 DEF PaidInv
  <1> QED BY <1>1, <1>2, <1>3

\* Setting a status makes nothing over but that authorization.
LEMMA OverSet ==
  ASSUME SheetTypeInv, NEW k \in Sheets, NEW id \in AuthIds, NEW status \in Status,
         recs' = [recs EXCEPT ![k] = SetStatus(@, id, status)],
         records' = records, \A j \in Sheets : Alive(j)' => Alive(j)
  PROVE  \A i \in Over' : i \in Over \/ (i = id /\ status \in {"settled", "expired"})
  <1>1. /\ recs[k] \in Seq(Record)
        /\ recs'[k] = SetStatus(recs[k], id, status)
        /\ \A j \in Sheets \ {k} : recs'[j] = recs[j]
    BY DEF SheetTypeInv, TypeOKRedemption
  <1>2. \A i : Final(recs'[k], i) =>
                 Final(recs[k], i) \/ (i = id /\ status \in {"settled", "expired"})
    BY <1>1, SetStatusHas DEF Final
  <1>3. \A i : Final(records', i) <=> Final(records, i)
    BY DEF Final, Has
  <1> HIDE DEF SheetTypeInv
  <1> SUFFICES ASSUME NEW i \in Over'
               PROVE  i \in Over \/ (i = id /\ status \in {"settled", "expired"})
    OBVIOUS
  <1>4. CASE Final(records, i)
    BY <1>4 DEF Over
  <1>5. CASE ~Final(records, i)
    <2>1. PICK j \in Sheets : Alive(j) /\ Final(recs'[j], i)
      BY <1>3, <1>5 DEF Over, Final, Has
    <2>2. CASE j = k
      BY <1>2, <2>1, <2>2 DEF Over
    <2>3. CASE j # k
      BY <1>1, <2>1, <2>3 DEF Over
    <2> QED BY <2>2, <2>3
  <1> QED BY <1>4, <1>5

\* Steps of the reserve that sign nothing and queue nothing.
LEMMA OnceReserve ==
  ASSUME SheetTypeInv, OnceInv, UNCHANGED <<place, sync, stellar>>, issued' = issued, queue' = queue,
         \A i : Final(records', i) => Final(records, i),
         \A s \in Screens : pc'[s] \in {"open", "checked", "debited"} => pend'[s] = {},
         \A s \in Screens : pc'[s] = "debited" => pc[s] = "debited" /\ auth'[s] = auth[s]
  PROVE  OnceInv'
  <1>1. UNCHANGED <<place, run, list, recs, todo, cur, paid, unsettled>>
    BY DEF sync, stellar
  <1>2. SheetInv'
    BY <1>1 DEF OnceInv, SheetInv, Alive, Busy
  <1>3. Waiting' = Waiting /\ Heard' = Heard /\ Accepted' = Accepted
    BY <1>1 DEF Waiting, Heard, Accepted, Alive, Busy
  <1>4. \A i \in Over' : i \in Over
    BY <1>1 DEF Over, Final, Has, Alive, Busy
  <1>5. RepaidOnlyUnsettled'
    BY <1>1 DEF OnceInv, PaidInv, RepaidOnlyUnsettled
  <1> DEFINE D == {}
  <1>6. D \in SUBSET issued
    OBVIOUS
  <1> HIDE DEF D
  <1>7. Waiting' \subseteq Waiting \ D /\ \A s \in Screens : auth[s] \notin D
    BY <1>3 DEF D
  <1> QED BY <1>1, <1>2, <1>3, <1>4, <1>5, <1>6, <1>7, OnceFrame

\* Steps of a sheet that sign nothing: the screens keep theirs.
LEMMA OnceSheet ==
  ASSUME SheetTypeInv, OnceInv, SheetInv', UNCHANGED <<pc, pend, auth, issued>>,
         NEW D \in SUBSET issued,
         \A s \in Screens : pc[s] = "debited" => auth[s] \notin D,
         Waiting' \subseteq Waiting \ D,
         \A id \in Over' : id \in Over \/ \E d \in D : d.id = id,
         Heard' \subseteq Heard,
         \A id \in Heard' \cap Accepted : id \in Accepted' \/ \E d \in D : d.id = id,
         RepaidOnlyUnsettled',
         \A k \in Sheets : cur'[k] # None =>
            /\ cur'[k] = cur[k] /\ todo'[k] \subseteq todo[k]
            /\ run'[k] \notin Applied => run[k] \notin Applied
  PROVE  OnceInv'
  <1>1. \A s \in Screens : pc'[s] \in {"open", "checked", "debited"} => pend'[s] = {}
    BY DEF OnceInv, ScreenInv
  <1>2. \A s \in Screens : pc'[s] = "debited" =>
          pc[s] = "debited" /\ auth'[s] = auth[s] /\ auth[s] \notin D
    OBVIOUS
  <1> QED BY <1>1, <1>2, OnceFrame

\* The steps of the reserve.
LEMMA OnceReserveStep == SheetTypeInv /\ OnceInv /\ ReserveStep => OnceInv'
  <1> SUFFICES ASSUME SheetTypeInv, OnceInv, ReserveStep
               PROVE  OnceInv'
    OBVIOUS
  <1>a. /\ pc \in [Screens -> Stages] /\ pend \in [Screens -> SUBSET Authorization]
        /\ issued \subseteq Authorization
        /\ \A s \in Screens : pc[s] \in {"open", "checked", "debited"} => pend[s] = {}
    BY DEF SheetTypeInv, TypeInv, TypeOK, OnceInv, ScreenInv
  <1>u. UNCHANGED <<place, sync, stellar>>
    BY DEF ReserveStep
  <1>v. UNCHANGED <<place, run, list, recs, todo, cur, paid, unsettled>>
    BY <1>u DEF sync, stellar
  <1>1. ASSUME NEW s \in Screens, NEW id \in AuthIds, Sign(s, id)
        PROVE  OnceInv'
    <2> DEFINE x == NewAuthorization(s, id)
    <2>1. /\ pc' = [pc EXCEPT ![s] = "debited"] /\ auth' = [auth EXCEPT ![s] = x]
          /\ issued' = issued \cup {x} /\ pc[s] = "checked"
          /\ \A b \in issued : b.id # x.id
          /\ queue' = queue /\ records' = records /\ pend' = pend
      BY <1>1 DEF Sign, NewAuthorization
    <2>2. x \in Authorization /\ x.id \in AuthIds
      BY <1>1, SignType DEF Sign, SheetTypeInv, NewAuthorization
    <2> HIDE DEF x
    <2>3. auth \in [Screens -> Authorization \cup {None}]
      BY DEF SheetTypeInv, TypeInv, TypeOK
    <2>4. Waiting' = Waiting /\ Heard' = Heard /\ Accepted' = Accepted /\ Over' = Over
      BY <1>v, <2>1 DEF Waiting, Heard, Accepted, Over, Final, Has, Alive, Busy
    <2>5. SheetInv' /\ RepaidOnlyUnsettled'
      BY <1>v DEF OnceInv, SheetInv, Alive, Busy, PaidInv, RepaidOnlyUnsettled
    <2>6. IdsInv'
      <3>1. \A a, b \in issued' : a.id = b.id => a = b
        BY <2>1 DEF OnceInv, IdsInv
      <3>2. Waiting' \subseteq issued'
        BY <2>1, <2>4 DEF OnceInv, IdsInv
      <3>3. \A k \in Sheets : cur'[k] # None => cur'[k] \in issued'
        BY <1>v, <2>1 DEF OnceInv, IdsInv
      <3>4. \A t \in Screens : pc'[t] = "debited" => auth'[t] \in issued'
        BY <1>a, <2>1, <2>3 DEF OnceInv, IdsInv
      <3>5. \A i \in Over' \cup Heard' : \E a \in issued' : a.id = i
        BY <2>1, <2>4 DEF OnceInv, IdsInv
      <3> QED BY <3>1, <3>2, <3>3, <3>4, <3>5 DEF IdsInv
    <2>7. x \notin issued /\ x \notin Waiting /\ x.id \notin Over /\ x.id \notin Heard
      BY <2>1 DEF OnceInv, IdsInv
    <2>8. ScreenInv'
      <3>1. ASSUME NEW t \in Screens, pc'[t] \in {"open", "checked", "debited"}
            PROVE  pend'[t] = {}
        BY <1>a, <2>1, <3>1
      <3>2. ASSUME NEW t \in Screens, pc'[t] = "debited"
            PROVE  /\ auth'[t] \notin Waiting' /\ auth'[t].id \notin Over' /\ auth'[t].id \notin Heard'
                   /\ \A k \in Sheets : cur'[k] # auth'[t]
                   /\ \A u \in Screens \ {t} : pc'[u] = "debited" => auth'[u] # auth'[t]
        <4>1. CASE t = s
          <5>1. auth'[t] = x
            BY <2>1, <2>3, <4>1
          <5>2. \A k \in Sheets : cur[k] # x
            BY <2>2, <2>7, SheetsAssumption DEF OnceInv, IdsInv
          <5>3. ASSUME NEW u \in Screens \ {t}, pc'[u] = "debited"
                PROVE  auth'[u] # x
            <6>1. pc[u] = "debited" /\ auth'[u] = auth[u]
              BY <1>a, <2>1, <2>3, <4>1, <5>3
            <6> QED BY <2>7, <6>1 DEF OnceInv, IdsInv
          <5> QED BY <1>v, <2>4, <2>7, <5>1, <5>2, <5>3
        <4>2. CASE t # s
          <5>1. pc[t] = "debited" /\ auth'[t] = auth[t] /\ auth[t] \in issued
            BY <1>a, <2>1, <2>3, <3>2, <4>2 DEF OnceInv, IdsInv
          <5>2. ASSUME NEW u \in Screens \ {t}, pc'[u] = "debited"
                PROVE  auth'[u] # auth[t]
            <6>1. CASE u = s
              BY <2>1, <2>3, <2>7, <5>1, <6>1
            <6>2. CASE u # s
              BY <1>a, <2>1, <2>3, <5>1, <5>2, <6>2 DEF OnceInv, ScreenInv
            <6> QED BY <6>1, <6>2
          <5> QED BY <1>v, <2>4, <5>1, <5>2 DEF OnceInv, ScreenInv
        <4> QED BY <4>1, <4>2
      <3> QED BY <3>1, <3>2 DEF ScreenInv
    <2>9. PaidInv'
      BY <1>v, <2>4, <2>5 DEF OnceInv, PaidInv
    <2> QED BY <2>5, <2>6, <2>8, <2>9 DEF OnceInv
  <1>2. ASSUME NEW s \in Screens, Enqueue(s)
        PROVE  OnceInv'
    <2>1. /\ pc[s] = "debited" /\ pc' = [pc EXCEPT ![s] = "queued"]
          /\ pend' = [pend EXCEPT ![s] = @ \cup {auth[s]}]
          /\ queue' = {auth[s]} /\ auth' = auth
          /\ records' = records /\ issued' = issued
      BY <1>a, <1>2 DEF Enqueue, history
    <2>2. /\ auth[s] \in issued /\ auth[s] \notin Waiting
          /\ auth[s].id \notin Over /\ auth[s].id \notin Heard
          /\ \A k \in Sheets : cur[k] # auth[s]
          /\ \A t \in Screens \ {s} : pc[t] = "debited" => auth[t] # auth[s]
      BY <2>1 DEF OnceInv, IdsInv, ScreenInv
    <2>3. Heard' = Heard /\ Accepted' = Accepted /\ Over' = Over
      BY <1>v, <2>1 DEF Heard, Accepted, Over, Final, Has, Alive, Busy
    <2>4. Waiting' \subseteq Waiting \cup {auth[s]}
      BY <1>v, <2>1 DEF Waiting, Alive, Busy
    <2>5. SheetInv' /\ RepaidOnlyUnsettled'
      BY <1>v DEF OnceInv, SheetInv, Alive, Busy, PaidInv, RepaidOnlyUnsettled
    <2>6. IdsInv'
      <3>1. \A t \in Screens : pc'[t] = "debited" => auth'[t] \in issued'
        BY <1>a, <2>1 DEF OnceInv, IdsInv
      <3> QED BY <1>v, <2>1, <2>2, <2>3, <2>4, <3>1 DEF OnceInv, IdsInv
    <2>7. ScreenInv'
      <3> SUFFICES ASSUME NEW t \in Screens
                   PROVE  /\ pc'[t] \in {"open", "checked", "debited"} => pend'[t] = {}
                          /\ pc'[t] = "debited" =>
                               /\ auth'[t] \notin Waiting' /\ auth'[t].id \notin Over'
                               /\ auth'[t].id \notin Heard'
                               /\ \A k \in Sheets : cur'[k] # auth'[t]
                               /\ \A u \in Screens \ {t} : pc'[u] = "debited" => auth'[u] # auth'[t]
        BY DEF ScreenInv
      <3>1. CASE t = s
        BY <1>a, <2>1, <3>1
      <3>2. CASE t # s
        <4>1. pc'[t] = pc[t] /\ pend'[t] = pend[t]
          BY <1>a, <2>1, <3>2
        <4>2. \A u \in Screens : pc'[u] = "debited" => pc[u] = "debited"
          BY <1>a, <2>1
        <4> QED BY <1>a, <1>v, <2>1, <2>2, <2>3, <2>4, <3>2, <4>1, <4>2 DEF OnceInv, ScreenInv
      <3> QED BY <3>1, <3>2
    <2>8. PaidInv'
      BY <1>v, <2>2, <2>3, <2>4, <2>5 DEF OnceInv, PaidInv
    <2> QED BY <2>5, <2>6, <2>7, <2>8 DEF OnceInv
  <1>3. ASSUME NEW s \in Screens, RecordSpend(s)
        PROVE  OnceInv'
    <2> DEFINE r == [id |-> auth[s].id, status |-> "pending"]
    <2>1. r \in Record /\ records' = <<r>> \o records /\ records \in Seq(Record)
      BY <1>3 DEF RecordSpend, SheetTypeInv, TypeInv, TypeOK, StageOK, Record, Authorization, Status
    <2>2. \A i, st : Has(records', i, st) => Has(records, i, st) \/ st = "pending"
      <3> SUFFICES ASSUME NEW i, NEW st, NEW n \in 1..Len(records'),
                          records'[n] = [id |-> i, status |-> st], st # "pending"
                   PROVE  Has(records, i, st)
        BY DEF Has
      <3>1. n # 1
        BY <2>1, Prepend
      <3>2. n - 1 \in 1..Len(records) /\ records'[(n - 1) + 1] = records[n - 1]
        BY <2>1, <3>1, Prepend
      <3> QED BY <3>2 DEF Has
    <2>3. \A i : Final(records', i) => Final(records, i)
      BY <2>2 DEF Final
    <2>4. /\ issued' = issued /\ queue' = queue /\ pend' = pend /\ auth' = auth
          /\ pc[s] = "queued" /\ pc' = [pc EXCEPT ![s] = "recorded"]
      BY <1>3 DEF RecordSpend, history
    <2>5. \A t \in Screens : pc'[t] \in {"open", "checked", "debited"} => pc'[t] = pc[t]
      BY <1>a, <2>4
    <2> QED BY <1>a, <1>u, <2>3, <2>4, <2>5, OnceReserve
  <1>4. ASSUME NEW s \in Screens, Dispose(s), UNCHANGED <<queue, records, issued>>
        PROVE  OnceInv'
    <2>1. /\ pc' = [pc EXCEPT ![s] = "closed"] /\ pend' = [pend EXCEPT ![s] = {}]
          /\ auth' = [auth EXCEPT ![s] = None]
      BY <1>4 DEF Dispose
    <2>2. auth \in [Screens -> Authorization \cup {None}]
      BY DEF SheetTypeInv, TypeInv, TypeOK
    <2>3. \A t \in Screens : pc'[t] \in {"open", "checked", "debited"} => pend'[t] = {}
      BY <1>a, <2>1
    <2>4. \A t \in Screens : pc'[t] = "debited" => pc[t] = "debited" /\ auth'[t] = auth[t]
      BY <1>a, <2>1, <2>2
    <2> QED BY <1>4, <1>u, <2>3, <2>4, OnceReserve
  <1>5. ASSUME NEW s \in Screens, NEW r \in Requests, OpenConfirm(s, r)
        PROVE  OnceInv'
    <2>1. /\ pc' = [pc EXCEPT ![s] = "open"] /\ pend' = [pend EXCEPT ![s] = {}]
          /\ auth' = [auth EXCEPT ![s] = None] /\ UNCHANGED <<queue, records, issued>>
      BY <1>5 DEF OpenConfirm, storage, history
    <2>2. auth \in [Screens -> Authorization \cup {None}]
      BY DEF SheetTypeInv, TypeInv, TypeOK
    <2>3. \A t \in Screens : pc'[t] \in {"open", "checked", "debited"} => pend'[t] = {}
      BY <1>a, <2>1
    <2>4. \A t \in Screens : pc'[t] = "debited" => pc[t] = "debited" /\ auth'[t] = auth[t]
      BY <1>a, <2>1, <2>2
    <2> QED BY <1>u, <2>1, <2>3, <2>4, OnceReserve
  <1>6. ASSUME NEW s \in Screens, Pay(s)
        PROVE  OnceInv'
    <2>1. /\ pc[s] = "open" /\ pc' = [pc EXCEPT ![s] = "checked"]
          /\ UNCHANGED <<pend, auth, queue, records, issued>>
      BY <1>6 DEF Pay, storage, history
    <2>2. \A t \in Screens : pc'[t] \in {"open", "checked", "debited"} => pend'[t] = {}
      BY <1>a, <2>1
    <2>3. \A t \in Screens : pc'[t] = "debited" => pc[t] = "debited" /\ auth'[t] = auth[t]
      BY <1>a, <2>1
    <2> QED BY <1>u, <2>1, <2>2, <2>3, OnceReserve
  <1>7. ASSUME UNCHANGED <<pc, pend, auth, queue, records, issued>>
        PROVE  OnceInv'
    BY <1>7, <1>a, <1>u, OnceReserve
  <1>8. ASSUME NEW s \in Screens, Broadcast(s) \/ Close(s)
        PROVE  OnceInv'
    BY <1>4, <1>8 DEF Broadcast, Close, storage, history
  <1>9. ASSUME NEW s \in Screens, CheckAllowance(s) \/ PayRejected(s) \/ LeaveSigning(s)
        PROVE  OnceInv'
    BY <1>7, <1>9 DEF CheckAllowance, PayRejected, LeaveSigning, storage, screen, history
  <1>10. ASSUME NEW i \in AllowanceIds,
                BeginProvision(i) \/ \E amt \in Limits : FinishProvision(i, amt)
         PROVE  OnceInv'
    BY <1>7, <1>10 DEF BeginProvision, FinishProvision, storage, screen, history
  <1>11. ASSUME NEW x \in AllowanceIds \cup Requests, Lapse(x)
         PROVE  OnceInv'
    BY <1>7, <1>11 DEF Lapse, storage, screen, history
  <1> QED
    BY <1>1, <1>2, <1>3, <1>5, <1>6, <1>8, <1>9, <1>10, <1>11
    DEF ReserveStep, ConfirmInput, Continuation

\* The steps of the sheets and their runs.
LEMMA OnceSheetStep ==
  ASSUME SheetTypeInv, OnceInv, ~SheetsOverlap, NextRedemption, ~ReserveStep
  PROVE  OnceInv'
  <1>a. /\ run \in [Sheets -> RunStages] /\ list \in [Sheets -> SUBSET Authorization]
        /\ recs \in [Sheets -> Seq(Record)] /\ todo \in [Sheets -> SUBSET Authorization]
        /\ cur \in [Sheets -> Authorization \cup {None}]
        /\ paid \in [AuthIds -> 0..MaxPaid] /\ unsettled \in [AuthIds -> Nat]
        /\ queue \subseteq Authorization /\ issued \subseteq Authorization
        /\ \A k \in Sheets : cur[k] # None <=> run[k] \in {"pin", "submitting"} \cup Applied
        /\ \A a \in Authorization : a.id \in AuthIds
    BY DEF SheetTypeInv, TypeInv, TypeOK, TypeOKRedemption, Authorization
  <1>b. /\ \A j, k \in Sheets : Alive(j) /\ Alive(k) => j = k
        /\ \A k \in Sheets : run[k] # "idle" => Alive(k)
        /\ \A k \in Sheets : run[k] = "idle" => todo[k] = {}
    BY DEF OnceInv, SheetInv, Alive, Busy
  <1>c. \A k \in Sheets, a \in Authorization :
          Alive(k) /\ a \in list[k] \cup todo[k] => a \in Waiting
    BY DEF Waiting
  <1>d. /\ Waiting \subseteq issued
        /\ \A s \in Screens : pc[s] = "debited" =>
             auth[s] \notin Waiting /\ \A k \in Sheets : cur[k] # auth[s]
        /\ \A k \in Sheets : cur[k] # None =>
             /\ cur[k] \in issued /\ cur[k] \notin todo[k]
             /\ run[k] \notin Applied => cur[k].id \notin Heard
        /\ RepaidOnlyUnsettled
    BY DEF OnceInv, IdsInv, ScreenInv, PaidInv
  <1>e. \A k \in Sheets : run[k] \notin Applied /\ run[k] # "idle" => Accepted = {}
    BY <1>b DEF Accepted, Applied
  <1> DEFINE D0 == {}
  <1>f. /\ D0 \in SUBSET issued /\ \A s \in Screens : auth[s] \notin D0
        /\ \A S : S \ D0 = S
    OBVIOUS
  <1> HIDE DEF D0
  <1>1. ASSUME NEW k \in Sheets, NEW p \in Places, OpenSheet(k, p)
        PROVE  OnceInv'
    <2>1. /\ \A j \in Sheets : ~Alive(j)
          /\ place' = [place EXCEPT ![k] = p]
          /\ list' = [list EXCEPT ![k] = {}] /\ recs' = [recs EXCEPT ![k] = records]
          /\ UNCHANGED <<pc, pend, auth, issued, queue, records, run, todo, cur, paid, unsettled>>
      BY <1>1, <1>b DEF OpenSheet, Alive, Busy, vars, storage, screen, history, stellar
    <2>a. /\ \A j \in Sheets : Alive(j)' => j = k
          /\ \A j \in Sheets : run[j] = "idle" /\ todo[j] = {}
      BY <1>a, <1>b, <2>1 DEF Alive, Busy
    <2>2. SheetInv'
      BY <2>a, <2>1 DEF SheetInv
    <2>3. Waiting' \subseteq Waiting \ D0
      BY <1>a, <1>f, <2>1, <2>a DEF Waiting
    <2>4. \A i \in Over' : i \in Over
      BY <1>a, <2>1, <2>a DEF Over, Final, Has
    <2>5. Heard' = Heard /\ Accepted' = Accepted /\ RepaidOnlyUnsettled'
      BY <1>d, <2>1 DEF Heard, Accepted, RepaidOnlyUnsettled
    <2> QED BY <1>f, <2>1, <2>2, <2>3, <2>4, <2>5, OnceSheet
  <1>2. ASSUME NEW k \in Sheets, CloseSheet(k)
        PROVE  OnceInv'
    <2>1. /\ place' = [place EXCEPT ![k] = None]
          /\ UNCHANGED <<pc, pend, auth, issued, queue, records>>
          /\ UNCHANGED <<run, list, recs, todo, cur, paid, unsettled>>
      BY <1>2 DEF CloseSheet, vars, storage, screen, history, sync, stellar
    <2>a. \A j \in Sheets : Alive(j)' => Alive(j)
      BY <1>a, <2>1 DEF Alive, Busy
    <2>2. SheetInv'
      BY <1>b, <2>1, <2>a DEF SheetInv, Busy
    <2>3. Waiting' \subseteq Waiting \ D0
      BY <1>f, <2>1, <2>a DEF Waiting
    <2>4. \A i \in Over' : i \in Over
      BY <2>1, <2>a DEF Over, Final, Has
    <2>5. Heard' = Heard /\ Accepted' = Accepted /\ RepaidOnlyUnsettled'
      BY <1>d, <2>1 DEF Heard, Accepted, RepaidOnlyUnsettled
    <2> QED BY <1>f, <2>1, <2>2, <2>3, <2>4, <2>5, OnceSheet
  <1>3. ASSUME NEW k \in Sheets, StartSync(k)
        PROVE  OnceInv'
    <2> DEFINE captured == IF list[k] # {} THEN list[k] ELSE queue
    <2>1. /\ Alive(k) /\ place' = place /\ run[k] = "idle" /\ todo[k] = {}
          /\ recs' = [recs EXCEPT ![k] = records] /\ list' = [list EXCEPT ![k] = captured]
          /\ UNCHANGED <<pc, pend, auth, issued, queue, records, cur, paid, unsettled>>
          /\ \/ run' = [run EXCEPT ![k] = "next"] /\ todo' = [todo EXCEPT ![k] = captured]
             \/ UNCHANGED <<run, todo>>
      BY <1>3, <1>b, SheetsAssumption
      DEF StartSync, InFront, Alive, Busy, Places, vars, storage, screen, history, stellar
    <2>a. \A j \in Sheets : Alive(j)' <=> Alive(j)
      BY <1>a, <2>1 DEF Alive, Busy
    <2>2. captured \subseteq Waiting /\ captured \subseteq Authorization
      BY <1>a, <1>c, <2>1 DEF Waiting
    <2> HIDE DEF captured
    <2>3. SheetInv'
      BY <1>a, <1>b, <2>1, <2>a DEF SheetInv, Busy
    <2>4. \A a \in Authorization : a \in queue => a \in Waiting
      BY DEF Waiting
    <2>5. Waiting' \subseteq Waiting \ D0
      <3> SUFFICES ASSUME NEW a \in Authorization, NEW j \in Sheets,
                          a \in queue' \/ (Alive(j) /\ a \in list'[j] \cup todo'[j])
                   PROVE  a \in Waiting
        BY <1>f, <2>a DEF Waiting
      <3>1. Alive(j) => list'[j] = captured /\ todo'[j] \in {captured, {}}
        BY <1>a, <1>b, <2>1
      <3> QED BY <2>1, <2>2, <2>4, <3>1
    <2>6. \A i \in Over' : i \in Over
      BY <1>a, <2>1, <2>a DEF Over, Final, Has
    <2>7. Heard' = Heard /\ RepaidOnlyUnsettled'
      BY <1>d, <2>1 DEF Heard, RepaidOnlyUnsettled
    <2>8. /\ Accepted' = Accepted
          /\ \A j \in Sheets : cur'[j] # None => todo'[j] = todo[j] /\ run'[j] = run[j]
      BY <1>a, <2>1 DEF Accepted, Applied
    <2> QED BY <1>f, <2>1, <2>3, <2>5, <2>6, <2>7, <2>8, OnceSheet
  <1>4. ASSUME NEW k \in Sheets, NEW a \in todo[k], Expire(k, a)
        PROVE  OnceInv'
    <2> DEFINE D == {a}
    <2>1. /\ run[k] = "next" /\ Alive(k) /\ place' = place
          /\ todo' = [todo EXCEPT ![k] = @ \ {a}] /\ list' = [list EXCEPT ![k] = @ \ {a}]
          /\ queue' = list[k] \ {a}
          /\ recs' = [recs EXCEPT ![k] = SetStatus(@, a.id, "expired")]
          /\ UNCHANGED <<pc, pend, auth, issued, records, run, cur, paid, unsettled>>
      BY <1>4, <1>b DEF Expire, TakeUp, Dequeue, screen, history, stellar
    <2>a. \A j \in Sheets : Alive(j)' <=> Alive(j)
      BY <2>1 DEF Alive, Busy
    <2>2. a \in Authorization /\ a.id \in AuthIds /\ a \in Waiting
      BY <1>a, <1>c, <2>1
    <2>3. D \in SUBSET issued /\ \A s \in Screens : pc[s] = "debited" => auth[s] \notin D
      BY <1>d, <2>2
    <2>4. SheetInv'
      BY <1>a, <1>b, <2>1, <2>a DEF SheetInv, Busy
    <2>5. Waiting' \subseteq Waiting \ D
      <3> SUFFICES ASSUME NEW b \in Authorization, NEW j \in Sheets,
                          b \in queue' \/ (Alive(j) /\ b \in list'[j] \cup todo'[j])
                   PROVE  b \in Waiting /\ b # a
        BY <2>1, <2>a DEF Waiting
      <3>1. Alive(j) => j = k
        BY <1>b, <2>1
      <3> QED BY <1>a, <1>c, <2>1, <3>1
    <2>6. \A i \in Over' : i \in Over \/ \E d \in D : d.id = i
      BY <2>1, <2>2, <2>a, OverSet DEF Status
    <2>7. Heard' = Heard /\ Accepted' = Accepted /\ RepaidOnlyUnsettled'
      BY <1>d, <2>1 DEF Heard, Accepted, RepaidOnlyUnsettled
    <2>8. \A j \in Sheets : todo'[j] \subseteq todo[j]
      BY <1>a, <2>1
    <2> HIDE DEF D
    <2> QED BY <2>1, <2>3, <2>4, <2>5, <2>6, <2>7, <2>8, OnceSheet
  <1>5. ASSUME NEW k \in Sheets, place' = place, run[k] # "idle",
               \E status \in {"pending", "failed"}, id \in AuthIds :
                  recs' = [recs EXCEPT ![k] = SetStatus(@, id, status)],
               UNCHANGED <<pc, pend, auth, issued, queue, records, list>>,
               \A j \in Sheets : todo'[j] \subseteq todo[j],
               run' \in [Sheets -> RunStages], run'[k] # "idle",
               \A j \in Sheets \ {k} : run'[j] = run[j],
               \A j \in Sheets : cur'[j] # None => cur'[j] = cur[j] /\ run'[j] = run[j],
               Heard' \subseteq Heard, Heard' \cap Accepted \subseteq Accepted',
               RepaidOnlyUnsettled'
        PROVE  OnceInv'
    <2>1. PICK status \in {"pending", "failed"}, id \in AuthIds :
            recs' = [recs EXCEPT ![k] = SetStatus(@, id, status)]
      BY <1>5
    <2>a. \A j \in Sheets : Alive(j)' <=> Alive(j)
      BY <1>5 DEF Alive, Busy
    <2>2. \A i \in Over' : i \in Over
      BY <1>5, <2>1, <2>a, OverSet DEF Status
    <2>3. SheetInv'
      <3>1. \A j \in Sheets : run'[j] = "idle" => todo'[j] = {}
        BY <1>5, <1>b
      <3> QED BY <1>b, <2>a, <3>1 DEF SheetInv, Busy
    <2>4. Waiting' \subseteq Waiting \ D0
      BY <1>5, <1>f, <2>a DEF Waiting
    <2> QED BY <1>5, <1>f, <2>2, <2>3, <2>4, OnceSheet
  <1>6. ASSUME NEW k \in Sheets, NEW a \in todo[k], ResolveFails(k, a)
        PROVE  OnceInv'
    <2>1. /\ run[k] = "next" /\ place' = place
          /\ todo' = [todo EXCEPT ![k] = @ \ {a}]
          /\ recs' = [recs EXCEPT ![k] = SetStatus(@, a.id, "failed")]
          /\ UNCHANGED <<pc, pend, auth, issued, queue, records, list, run, cur, paid, unsettled>>
      BY <1>6 DEF ResolveFails, TakeUp, vars, storage, screen, history, stellar
    <2>2. a.id \in AuthIds
      BY <1>a
    <2>3. Heard' = Heard /\ Accepted' = Accepted /\ RepaidOnlyUnsettled'
      BY <1>d, <2>1 DEF Heard, Accepted, RepaidOnlyUnsettled
    <2>4. \A j \in Sheets : todo'[j] \subseteq todo[j]
      BY <1>a, <2>1
    <2> QED BY <1>a, <1>5, <2>1, <2>2, <2>3, <2>4
  <1>7. ASSUME NEW k \in Sheets, NEW a \in todo[k], PassOver(k, a)
        PROVE  OnceInv'
    <2>1. /\ run[k] = "next" /\ place' = place
          /\ todo' = [todo EXCEPT ![k] = @ \ {a}]
          /\ UNCHANGED <<pc, pend, auth, issued, queue, records>>
          /\ UNCHANGED <<list, recs, run, cur, paid, unsettled>>
      BY <1>7 DEF PassOver, TakeUp, vars, storage, screen, history, stellar
    <2>2. \A j \in Sheets : (Alive(j)' <=> Alive(j)) /\ todo'[j] \subseteq todo[j]
      BY <1>a, <2>1 DEF Alive, Busy
    <2>3. SheetInv'
      BY <1>b, <2>1, <2>2 DEF SheetInv, Busy
    <2>4. Waiting' \subseteq Waiting \ D0
      BY <1>f, <2>1, <2>2 DEF Waiting
    <2>5. \A i \in Over' : i \in Over
      BY <2>1, <2>2 DEF Over, Final, Has
    <2>6. Heard' = Heard /\ Accepted' = Accepted /\ RepaidOnlyUnsettled'
      BY <1>d, <2>1 DEF Heard, Accepted, RepaidOnlyUnsettled
    <2> QED BY <1>f, <2>1, <2>2, <2>3, <2>4, <2>5, <2>6, OnceSheet
  <1>8. ASSUME NEW k \in Sheets, NEW a \in todo[k], AskPin(k, a)
        PROVE  OnceInv'
    <2>1. /\ run[k] = "next" /\ Alive(k) /\ place' = place
          /\ todo' = [todo EXCEPT ![k] = @ \ {a}]
          /\ run' = [run EXCEPT ![k] = "pin"] /\ cur' = [cur EXCEPT ![k] = a]
          /\ UNCHANGED <<pc, pend, auth, issued, queue, records, list, recs, paid, unsettled>>
      BY <1>8, <1>b DEF AskPin, TakeUp, vars, storage, screen, history, stellar
    <2>b. \A j \in Sheets : Alive(j)' <=> Alive(j)
      BY <1>a, <2>1 DEF Alive, Busy
    <2>2. a \in Authorization /\ a.id \in AuthIds /\ a \in Waiting
      BY <1>a, <1>c, <2>1
    <2>3. Accepted = {}
      BY <1>e, <2>1 DEF Applied
    <2>4. a.id \notin Heard
      BY <2>2, <2>3 DEF OnceInv, PaidInv
    <2>5. Heard' = Heard /\ Over' = Over /\ RepaidOnlyUnsettled'
      BY <1>d, <2>1, <2>b DEF Heard, Over, Final, Has, RepaidOnlyUnsettled
    <2>6. Waiting' \subseteq Waiting
      BY <1>a, <2>1, <2>b DEF Waiting
    <2>7. SheetInv'
      BY <1>a, <1>b, <2>1, <2>b DEF SheetInv, Busy
    <2>8. \A j \in Sheets : cur'[j] = IF j = k THEN a ELSE cur[j]
      BY <1>a, <2>1
    <2>9. IdsInv'
      BY <1>d, <2>1, <2>2, <2>5, <2>6, <2>8 DEF OnceInv, IdsInv
    <2>10. ScreenInv'
      BY <1>d, <2>1, <2>2, <2>5, <2>6, <2>8 DEF OnceInv, ScreenInv
    <2>11. PaidInv'
      <3>1. \A b \in Waiting' : b.id \notin Over' /\ b.id \notin Heard'
        BY <2>3, <2>5, <2>6 DEF OnceInv, PaidInv
      <3>2. ASSUME NEW j \in Sheets, cur'[j] # None
            PROVE  cur'[j] \notin todo'[j] /\ (run'[j] \notin Applied => cur'[j].id \notin Heard')
        <4>1. CASE j = k
          BY <1>a, <2>1, <2>4, <2>5, <2>8, <4>1
        <4>2. CASE j # k
          BY <1>a, <1>d, <2>1, <2>5, <2>8, <3>2, <4>2
        <4> QED BY <4>1, <4>2
      <3> QED BY <2>5, <3>1, <3>2 DEF PaidInv
    <2> QED BY <2>7, <2>9, <2>10, <2>11 DEF OnceInv
  <1>9. ASSUME NEW k \in Sheets, run[k] \in {"pin", "submitting", "accepted", "recording"}, FailAttempt(k),
               Heard' \subseteq Heard, Heard' \cap Accepted = {}, RepaidOnlyUnsettled'
        PROVE  OnceInv'
    <2>1. /\ place' = place /\ todo' = todo /\ run' = [run EXCEPT ![k] = "next"]
          /\ recs' = [recs EXCEPT ![k] = SetStatus(@, cur[k].id, "failed")]
          /\ cur' = [cur EXCEPT ![k] = None]
          /\ UNCHANGED <<pc, pend, auth, issued, queue, records, list>>
      BY <1>9 DEF FailAttempt, vars, storage, screen, history
    <2>2. cur[k].id \in AuthIds
      BY <1>9, InHand DEF SheetTypeInv
    <2>3. run' \in [Sheets -> RunStages] /\ run'[k] # "idle"
      BY <1>a, <2>1 DEF RunStages
    <2>4. \A j \in Sheets : cur'[j] # None => cur'[j] = cur[j] /\ run'[j] = run[j]
      BY <1>a, <2>1
    <2> QED BY <1>5, <1>9, <1>a, <2>1, <2>2, <2>3, <2>4
  <1>10. ASSUME NEW k \in Sheets, SubmissionFails(k) \/ RefusePin(k)
         PROVE  OnceInv'
    <2>1. run[k] \in {"pin", "submitting"} /\ FailAttempt(k) /\ paid' = paid /\ unsettled' = unsettled
      BY <1>10 DEF SubmissionFails, RefusePin, stellar
    <2>2. Heard' = Heard /\ Accepted = {} /\ RepaidOnlyUnsettled'
      BY <1>d, <1>e, <2>1 DEF Applied, Heard, RepaidOnlyUnsettled
    <2> QED BY <1>9, <2>1, <2>2
  <1>11. ASSUME NEW k \in Sheets, LoseAnswer(k)
         PROVE  OnceInv'
    <2> DEFINE c == cur[k].id
    <2>1. run[k] = "accepted" /\ FailAttempt(k) /\ paid' = paid /\ c \in AuthIds
          /\ unsettled' = [unsettled EXCEPT ![c] = @ + 1]
      BY <1>11, InHand DEF LoseAnswer, SheetTypeInv
    <2>2. Accepted = {c}
      BY <1>b, <2>1 DEF Accepted, Applied
    <2> HIDE DEF c
    <2>3. \A i \in AuthIds :
            paid'[i] = paid[i] /\ unsettled'[i] = IF i = c THEN unsettled[i] + 1 ELSE unsettled[i]
      BY <1>a, <2>1
    <2>4. \A i \in AuthIds : paid[i] \in Nat /\ unsettled[i] \in Nat /\ paid[i] <= unsettled[i] + 1
      BY <1>a, <1>d, MaxPaidAssumption DEF RepaidOnlyUnsettled
    <2>5. Heard' \subseteq Heard /\ c \notin Heard' /\ RepaidOnlyUnsettled'
      BY <2>1, <2>3, <2>4 DEF Heard, RepaidOnlyUnsettled
    <2> QED BY <1>9, <2>1, <2>2, <2>5
  <1>12. ASSUME NEW k \in Sheets, Accept(k)
         PROVE  OnceInv'
    <2> DEFINE c == cur[k].id
    <2>1. /\ run[k] = "submitting" /\ run' = [run EXCEPT ![k] = "accepted"]
          /\ paid' = [paid EXCEPT ![c] = @ + 1] /\ c \in AuthIds
          /\ UNCHANGED <<place, pc, pend, auth, issued, queue, records, list, recs, todo, cur, unsettled>>
      BY <1>12, InHand DEF Accept, vars, storage, screen, history, SheetTypeInv
    <2>b. \A j \in Sheets : Alive(j)' <=> Alive(j)
      BY <1>a, <2>1 DEF Alive, Busy
    <2>2. cur[k] \in issued /\ cur[k] # None /\ c \notin Heard
      BY <1>a, <1>d, <2>1 DEF Applied
    <2>3. Accepted = {}
      BY <1>e, <2>1 DEF Applied
    <2>4. c \in Accepted'
      BY <1>a, <2>1 DEF Accepted, Applied
    <2>a. issued \subseteq Authorization /\ cur[k] \in Authorization
      BY <1>a, <2>2
    <2>5. \A b \in issued : b.id = c => b = cur[k]
      BY <2>2 DEF OnceInv, IdsInv
    <2>6. \A s \in Screens : pc[s] = "debited" => auth[s].id # c
      BY <1>d, <2>5 DEF OnceInv, IdsInv
    <2> HIDE DEF c
    <2>7. \A i \in AuthIds :
            unsettled'[i] = unsettled[i] /\ paid'[i] = IF i = c THEN paid[i] + 1 ELSE paid[i]
      BY <1>a, <2>1
    <2>8. \A i \in AuthIds : paid[i] \in Nat /\ unsettled[i] \in Nat /\ paid[i] <= unsettled[i] + 1
      BY <1>a, <1>d, MaxPaidAssumption DEF RepaidOnlyUnsettled
    <2>9. Heard' \subseteq Heard \cup {c}
      BY <2>7 DEF Heard
    <2>10. RepaidOnlyUnsettled'
      <3> SUFFICES ASSUME NEW i \in AuthIds
                   PROVE  paid'[i] <= unsettled'[i] + 1
        BY DEF RepaidOnlyUnsettled
      <3>1. CASE i = c
        BY <2>2, <2>7, <2>8, <3>1 DEF Heard
      <3>2. CASE i # c
        BY <2>7, <2>8, <3>2
      <3> QED BY <3>1, <3>2
    <2>11. Waiting' = Waiting /\ Over' = Over
      BY <2>1, <2>b DEF Waiting, Over, Final, Has
    <2>12. SheetInv'
      BY <1>a, <1>b, <2>1, <2>b DEF SheetInv, Busy
    <2>13. IdsInv'
      <3>1. \A i \in Over' \cup Heard' : \E b \in issued' : b.id = i
        BY <2>1, <2>2, <2>9, <2>11 DEF OnceInv, IdsInv, c
      <3> QED BY <2>1, <2>11, <3>1 DEF OnceInv, IdsInv
    <2>14. ScreenInv'
      BY <2>1, <2>6, <2>9, <2>11 DEF OnceInv, ScreenInv
    <2>15. PaidInv'
      <3>1. \A b \in Waiting' : b.id \notin Over' /\ (b.id \in Heard' => b.id \in Accepted')
        BY <2>3, <2>4, <2>9, <2>11 DEF OnceInv, PaidInv
      <3>2. ASSUME NEW j \in Sheets, cur'[j] # None
            PROVE  cur'[j] \notin todo'[j] /\ (run'[j] \notin Applied => cur'[j].id \notin Heard')
        <4>1. run[j] # "idle" /\ cur[j] # None
          BY <1>a, <2>1, <3>2 DEF Applied
        <4>2. j = k
          BY <1>b, <2>1, <4>1
        <4> QED BY <1>a, <1>d, <2>1, <4>1, <4>2 DEF Applied
      <3> QED BY <2>10, <3>1, <3>2 DEF PaidInv
    <2> QED BY <2>12, <2>13, <2>14, <2>15 DEF OnceInv
  <1>13. ASSUME NEW k \in Sheets, Settle(k)
         PROVE  OnceInv'
    <2> DEFINE D == {cur[k]}
    <2>1. /\ run[k] = "recording" /\ Alive(k) /\ place' = place
          /\ run' = [run EXCEPT ![k] = "next"] /\ cur' = [cur EXCEPT ![k] = None]
          /\ list' = [list EXCEPT ![k] = @ \ {cur[k]}] /\ queue' = list[k] \ {cur[k]}
          /\ recs' = [recs EXCEPT ![k] = SetStatus(@, cur[k].id, "settled")]
          /\ UNCHANGED <<pc, pend, auth, issued, records, todo, paid, unsettled>>
      BY <1>13, <1>b DEF Settle, Dequeue, screen, history, stellar
    <2>a. \A j \in Sheets : Alive(j)' <=> Alive(j)
      BY <1>a, <2>1 DEF Alive, Busy
    <2>2. cur[k] \in issued /\ cur[k].id \in AuthIds /\ cur[k] \notin todo[k]
      BY <1>a, <1>d, <2>1 DEF Applied
    <2>3. D \in SUBSET issued /\ \A s \in Screens : pc[s] = "debited" => auth[s] \notin D
      BY <1>d, <2>2
    <2>4. SheetInv'
      BY <1>a, <1>b, <2>1, <2>a DEF SheetInv, Busy
    <2>5. Waiting' \subseteq Waiting \ D
      <3> SUFFICES ASSUME NEW b \in Authorization, NEW j \in Sheets,
                          b \in queue' \/ (Alive(j) /\ b \in list'[j] \cup todo'[j])
                   PROVE  b \in Waiting /\ b # cur[k]
        BY <2>1, <2>a DEF Waiting
      <3>1. Alive(j) => j = k
        BY <1>b, <2>1
      <3> QED BY <1>a, <1>c, <2>1, <2>2, <3>1
    <2>6. \A i \in Over' : i \in Over \/ \E d \in D : d.id = i
      <3>1. records' = records /\ "settled" \in Status /\ \A j \in Sheets : Alive(j)' => Alive(j)
        BY <2>1, <2>a DEF Status
      <3>2. \A i \in Over' : i \in Over \/ i = cur[k].id
        BY <2>1, <2>2, <3>1, OverSet
      <3> QED BY <3>2
    <2>7. Heard' = Heard /\ RepaidOnlyUnsettled'
      BY <1>d, <2>1 DEF Heard, RepaidOnlyUnsettled
    <2>8. \A i \in Accepted : \E d \in D : d.id = i
      BY <1>b, <2>1 DEF Accepted, Applied
    <2>9. \A j \in Sheets : cur'[j] # None => cur'[j] = cur[j] /\ run'[j] = run[j]
      BY <1>a, <2>1
    <2> HIDE DEF D
    <2> QED BY <2>1, <2>3, <2>4, <2>5, <2>6, <2>7, <2>8, <2>9, OnceSheet
  <1>14. ASSUME NEW k \in Sheets, FinishSync(k)
         PROVE  OnceInv'
    <2>1. /\ run[k] = "next" /\ Alive(k) /\ todo[k] = {} /\ records' = recs[k]
          /\ run' = [run EXCEPT ![k] = "idle"]
          /\ UNCHANGED <<place, pc, pend, auth, issued, queue, list, recs, todo, cur, paid, unsettled>>
      BY <1>14, <1>b DEF FinishSync, screen, history, stellar
    <2>a. \A j \in Sheets : Alive(j)' => Alive(j)
      BY <1>a, <2>1 DEF Alive, Busy
    <2>2. SheetInv'
      BY <1>a, <1>b, <2>1, <2>a DEF SheetInv, Busy
    <2>3. \A i \in Over' : i \in Over
      BY <2>1, <2>a DEF Over, Final, Has
    <2>4. Waiting' \subseteq Waiting \ D0
      BY <1>f, <2>1, <2>a DEF Waiting
    <2>5. Heard' = Heard /\ Accepted = {} /\ RepaidOnlyUnsettled'
      BY <1>d, <1>e, <2>1 DEF Applied, Heard, RepaidOnlyUnsettled
    <2>6. \A j \in Sheets : cur'[j] # None => run'[j] = run[j]
      BY <1>a, <2>1 DEF Applied
    <2> QED BY <1>f, <2>1, <2>2, <2>3, <2>4, <2>5, <2>6, OnceSheet
  <1>15. ASSUME NEW k \in Sheets, EnterPin(k)
         PROVE  OnceInv'
    <2>1. /\ run[k] = "pin" /\ run' = [run EXCEPT ![k] = "submitting"]
          /\ UNCHANGED <<place, pc, pend, auth, issued, queue, records>>
          /\ UNCHANGED <<list, recs, todo, cur, paid, unsettled>>
      BY <1>15 DEF EnterPin, vars, storage, screen, history, stellar
    <2>a. \A j \in Sheets : Alive(j)' <=> Alive(j)
      BY <1>a, <2>1 DEF Alive, Busy
    <2>2. SheetInv'
      BY <1>a, <1>b, <2>1, <2>a DEF SheetInv, Busy
    <2>3. Over' = Over /\ Heard' = Heard /\ Accepted = {} /\ RepaidOnlyUnsettled'
      BY <1>d, <1>e, <2>1, <2>a DEF Applied, Over, Final, Has, Heard, RepaidOnlyUnsettled
    <2>4. Waiting' \subseteq Waiting \ D0
      BY <1>f, <2>1, <2>a DEF Waiting
    <2>5. \A j \in Sheets : run'[j] \notin Applied => run[j] \notin Applied
      BY <1>a, <2>1 DEF Applied
    <2> QED BY <1>f, <2>1, <2>2, <2>3, <2>4, <2>5, OnceSheet
  <1>18. ASSUME NEW k \in Sheets, Answer(k)
         PROVE  OnceInv'
    <2>1. /\ run[k] = "accepted" /\ run' = [run EXCEPT ![k] = "recording"]
          /\ UNCHANGED <<place, pc, pend, auth, issued, queue, records>>
          /\ UNCHANGED <<list, recs, todo, cur, paid, unsettled>>
      BY <1>18 DEF Answer, vars, storage, screen, history, stellar
    <2>a. \A j \in Sheets : (Alive(j)' <=> Alive(j)) /\ (run'[j] \in Applied <=> run[j] \in Applied)
      BY <1>a, <2>1 DEF Alive, Busy, Applied
    <2>2. SheetInv'
      BY <1>a, <1>b, <2>1, <2>a DEF SheetInv, Busy
    <2>3. Over' = Over /\ Heard' = Heard /\ Accepted' = Accepted /\ RepaidOnlyUnsettled'
      BY <1>d, <2>1, <2>a DEF Over, Final, Has, Heard, Accepted, RepaidOnlyUnsettled
    <2>4. Waiting' \subseteq Waiting \ D0
      BY <1>f, <2>1, <2>a DEF Waiting
    <2> QED BY <1>f, <2>1, <2>a, <2>2, <2>3, <2>4, OnceSheet
  <1>16. ASSUME NEW id \in AuthIds, PassWindow(id)
         PROVE  OnceInv'
    <2>1. /\ UNCHANGED <<place, pc, pend, auth, issued, queue, records>>
          /\ UNCHANGED <<run, list, recs, todo, cur, paid, unsettled>>
      BY <1>16 DEF PassWindow, vars, storage, screen, history, sync, stellar
    <2>2. SheetInv' /\ Over' = Over /\ Heard' = Heard /\ Accepted' = Accepted /\ RepaidOnlyUnsettled'
      BY <1>b, <1>d, <2>1 DEF SheetInv, Alive, Busy, Over, Final, Has, Heard, Accepted, RepaidOnlyUnsettled
    <2>3. Waiting' \subseteq Waiting \ D0
      BY <1>f, <2>1 DEF Waiting, Alive, Busy
    <2> QED BY <1>f, <2>1, <2>2, <2>3, OnceSheet
  <1>17. CASE CrashAll
    <2>1. /\ \A s \in Screens : pc'[s] = "closed"
          /\ \A k \in Sheets : ~Alive(k)'
          /\ \A k \in Sheets : run'[k] = "idle" /\ todo'[k] = {} /\ cur'[k] = None
          /\ UNCHANGED <<issued, queue, records, paid>>
      BY <1>17 DEF CrashAll, Crash, Alive, Busy, storage, history
    <2>2. \A i \in AuthIds : unsettled'[i] = IF i \in Accepted THEN unsettled[i] + 1 ELSE unsettled[i]
      BY <1>17 DEF CrashAll, Accepted
    <2>3. \A i \in AuthIds : paid[i] \in Nat /\ unsettled[i] \in Nat /\ paid[i] <= unsettled[i] + 1
      BY <1>a, <1>d, MaxPaidAssumption DEF RepaidOnlyUnsettled
    <2>4. Heard' \subseteq Heard /\ Heard' \cap Accepted = {} /\ RepaidOnlyUnsettled'
      BY <2>1, <2>2, <2>3 DEF Heard, RepaidOnlyUnsettled
    <2>5. SheetInv'
      BY <2>1 DEF SheetInv, Busy
    <2>6. \A i \in Over' : i \in Over
      BY <2>1 DEF Over, Final, Has
    <2>7. Waiting' \subseteq Waiting \ D0
      BY <1>f, <2>1 DEF Waiting
    <2> QED BY <1>f, <2>1, <2>4, <2>5, <2>6, <2>7, OnceFrame
  <1> QED
    BY <1>1, <1>2, <1>3, <1>4, <1>6, <1>7, <1>8, <1>10, <1>11, <1>12, <1>13, <1>14, <1>15,
       <1>16, <1>17, <1>18
    DEF NextRedemption, RunStep

LEMMA OnceInit == InitRedemption => OnceInv
  <1> SUFFICES ASSUME InitRedemption PROVE OnceInv
    OBVIOUS
  <1>1. /\ queue = {} /\ records = <<>> /\ issued = {}
        /\ \A s \in Screens : pc[s] = "closed"
        /\ \A k \in Sheets : ~Alive(k) /\ todo[k] = {} /\ cur[k] = None
        /\ \A id \in AuthIds : paid[id] = 0 /\ unsettled[id] = 0
    BY DEF InitRedemption, Init, Alive, Busy
  <1>2. Waiting = {} /\ Over = {} /\ Heard = {}
    BY <1>1 DEF Waiting, Over, Final, Has, Heard
  <1> QED
    BY <1>1, <1>2 DEF OnceInv, SheetInv, Busy, IdsInv, ScreenInv, PaidInv, RepaidOnlyUnsettled

LEMMA OnceStep ==
  ~SheetsOverlap /\ SheetTypeInv /\ OnceInv /\ [NextRedemption]_redemptionVars => OnceInv'
  <1> SUFFICES ASSUME ~SheetsOverlap, SheetTypeInv, OnceInv, [NextRedemption]_redemptionVars
               PROVE  OnceInv'
    OBVIOUS
  <1>1. CASE UNCHANGED redemptionVars
    <2>1. UNCHANGED <<place, sync, stellar>> /\ UNCHANGED <<issued, queue, records, pc, pend, auth>>
      BY <1>1 DEF redemptionVars, redemption, vars, storage, screen, history
    <2>2. \A s \in Screens : pc'[s] \in {"open", "checked", "debited"} => pend'[s] = {}
      BY <2>1 DEF OnceInv, ScreenInv
    <2> QED BY <2>1, <2>2, OnceReserve
  <1>2. CASE ReserveStep
    BY <1>2, OnceReserveStep
  <1>3. CASE NextRedemption /\ ~ReserveStep
    BY <1>3, OnceSheetStep
  <1> QED BY <1>1, <1>2, <1>3

LEMMA OnceAlways == ~SheetsOverlap => (SpecRedemption => []OnceInv)
  <1>1. ASSUME ~SheetsOverlap
        PROVE  SpecRedemption => []OnceInv
    BY <1>1, OnceInit, OnceStep, SheetTypeAlways, PTL DEF SpecRedemption
  <1> QED BY <1>1

\* If no sheet opens while another is open or still syncs, an authorization is
\* paid again only after an attempt that paid it ended unsettled: not after a
\* settled one, by a retry, a new sheet, a spend in between or a restart.
THEOREM SettledPaidOnce == ~SheetsOverlap => (SpecRedemption => []RepaidOnlyUnsettled)
  <1>1. OnceInv => RepaidOnlyUnsettled
    BY DEF OnceInv, PaidInv
  <1> QED BY <1>1, OnceAlways, PTL

\* If no sheet opens while another is open or still syncs, what the stored
\* history calls settled or expired is not in the stored queue, whatever a crash
\* kept of the two and whatever is spent while a run goes on.
THEOREM FinalNeverQueued == ~SheetsOverlap => (SpecRedemption => []FinalIsNotQueued)
  <1>1. SheetTypeInv /\ OnceInv => FinalIsNotQueued
    <2> SUFFICES ASSUME SheetTypeInv, OnceInv, NEW a \in queue
                 PROVE  ~Has(records, a.id, "settled") /\ ~Has(records, a.id, "expired")
      BY DEF FinalIsNotQueued
    <2>1. a \in Authorization /\ a.id \in AuthIds
      BY DEF SheetTypeInv, TypeInv, TypeOK, Authorization
    <2>2. a \in Waiting
      BY <2>1 DEF Waiting
    <2>3. a.id \notin Over
      BY <2>2 DEF OnceInv, PaidInv
    <2> QED BY <2>1, <2>3 DEF Over, Final
  <1> QED BY <1>1, OnceAlways, SheetTypeAlways, PTL

-----------------------------------------------------------------------------
(* Out of the queue for a reason.                                          *)

\* A sheet that holds a list has the whole stored queue on it, but for what was
\* queued meanwhile, and read a clock that has not gone back.
ListInv ==
  /\ \A k \in Sheets : Holding(k) => \A a \in queue : a \in list[k] \/ a \in raced
  /\ \A k \in Sheets : asOf[k] \subseteq late

LEMMA ListStep ==
  ASSUME ~SheetsOverlap, SheetTypeInv, OnceInv, ListInv, [NextRedemption]_redemptionVars
  PROVE  ListInv'
  <1>a. /\ run \in [Sheets -> RunStages] /\ list \in [Sheets -> SUBSET Authorization]
        /\ asOf \in [Sheets -> SUBSET AuthIds]
        /\ place \in [Sheets -> Places \cup {None}]
    BY DEF SheetTypeInv, TypeOKRedemption
  <1>b. \A j, k \in Sheets : Holding(j) /\ Alive(k) => j = k
    BY DEF OnceInv, SheetInv, Alive, Holding
  <1>1. CASE ReserveStep
    <2>1. UNCHANGED <<place, run, list, asOf, late>>
      BY <1>1 DEF ReserveStep, sync
    <2>2. \A k \in Sheets : Holding(k)' <=> Holding(k)
      BY <2>1 DEF Holding, Busy
    <2>3. queue' \ queue \subseteq Enqueued
      <3>1. ASSUME NEW s \in Screens, Enqueue(s)
            PROVE  queue' \ queue \subseteq Enqueued
        BY <3>1 DEF Enqueue, Enqueued, OnceInv, ScreenInv, SheetTypeInv, TypeInv, TypeOK
      <3>2. ASSUME \A s \in Screens : ~Enqueue(s)
            PROVE  queue' = queue
        BY <1>1, <3>2
        DEF ReserveStep, ConfirmInput, Continuation, BeginProvision, FinishProvision, OpenConfirm,
            CheckAllowance, Pay, PayRejected, Sign, RecordSpend, Broadcast, Close, LeaveSigning,
            Lapse, storage
      <3> QED BY <3>1, <3>2
    <2>4. raced \subseteq raced' /\ ((\E k \in Sheets : Holding(k)) => Enqueued \subseteq raced')
      BY <1>1 DEF ReserveStep
    <2> QED BY <2>1, <2>2, <2>3, <2>4 DEF ListInv
  <1>2. ASSUME NEW k \in Sheets, NEW p \in Places, OpenSheet(k, p)
        PROVE  ListInv'
    <2>1. /\ \A j \in Sheets : place[j] = None /\ ~Busy(j)
          /\ place' = [place EXCEPT ![k] = p] /\ list' = [list EXCEPT ![k] = {}]
          /\ UNCHANGED <<run, asOf, late>>
      BY <1>2 DEF OpenSheet
    <2>2. \A j \in Sheets : ~Holding(j)'
      BY <1>a, <2>1 DEF Holding, Busy
    <2> QED BY <2>1, <2>2 DEF ListInv
  <1>3. ASSUME NEW k \in Sheets, StartSync(k)
        PROVE  ListInv'
    <2> DEFINE captured == IF list[k] # {} THEN list[k] ELSE queue
    <2>1. /\ place[k] # None /\ list' = [list EXCEPT ![k] = captured]
          /\ asOf' \in {asOf, [asOf EXCEPT ![k] = late]}
          /\ \A j \in Sheets \ {k} : run'[j] = run[j]
          /\ UNCHANGED <<place, queue, late, raced>>
      BY <1>3, <1>a, SheetsAssumption DEF StartSync, InFront, Places, vars, storage
    <2>2. \A a \in queue : a \in captured \/ a \in raced
      BY <2>1 DEF ListInv, Holding
    <2> HIDE DEF captured
    <2>3. \A j \in Sheets \ {k} : (Holding(j)' <=> Holding(j)) /\ list'[j] = list[j]
      BY <1>a, <2>1 DEF Holding, Busy
    <2>4. \A j \in Sheets : asOf'[j] \subseteq late'
      BY <1>a, <2>1 DEF ListInv
    <2>5. list'[k] = captured
      BY <1>a, <2>1
    <2> QED BY <2>1, <2>2, <2>3, <2>4, <2>5 DEF ListInv
  <1>4. ASSUME NEW k \in Sheets, NEW a, Dequeue(k, a), Busy(k), UNCHANGED <<place, asOf, late>>,
               \A j \in Sheets \ {k} : run'[j] = run[j]
        PROVE  ListInv'
    <2>1. list' = [list EXCEPT ![k] = @ \ {a}] /\ queue' = list[k] \ {a}
      BY <1>4 DEF Dequeue
    <2>2. \A j \in Sheets : Holding(j)' => j = k
      <3> SUFFICES ASSUME NEW j \in Sheets \ {k}, Holding(j)'
                   PROVE  FALSE
        OBVIOUS
      <3>1. Holding(j)
        BY <1>4, <1>a, <2>1 DEF Holding, Busy
      <3> QED BY <1>4, <1>b, <3>1 DEF Alive
    <2> QED BY <1>4, <1>a, <2>1, <2>2 DEF ListInv
  <1>5. ASSUME NEW k \in Sheets, NEW a \in todo[k], Expire(k, a)
        PROVE  ListInv'
    BY <1>4, <1>5 DEF Expire, TakeUp, Busy
  <1>6. ASSUME NEW k \in Sheets, Settle(k)
        PROVE  ListInv'
    <2>1. Busy(k) /\ \A j \in Sheets \ {k} : run'[j] = run[j]
      BY <1>6, <1>a DEF Settle, Busy
    <2> QED BY <1>4, <1>6, <2>1 DEF Settle
  <1>7. ASSUME UNCHANGED <<queue, list, asOf, raced>>, late \subseteq late',
               \A j \in Sheets : Holding(j)' => Holding(j)
        PROVE  ListInv'
    BY <1>7 DEF ListInv
  <1>8. ASSUME NEW k \in Sheets, Busy(k), UNCHANGED <<place, queue, list, asOf, late, raced>>,
               \A j \in Sheets \ {k} : run'[j] = run[j]
        PROVE  ListInv'
    <2>1. \A j \in Sheets : Holding(j)' => Holding(j)
      BY <1>8 DEF Holding, Busy
    <2> QED BY <1>7, <1>8, <2>1
  <1>9. ASSUME NEW k \in Sheets,
               \/ \E a \in todo[k] : ResolveFails(k, a) \/ PassOver(k, a) \/ AskPin(k, a)
               \/ EnterPin(k) \/ Accept(k) \/ Answer(k) \/ FinishSync(k)
        PROVE  ListInv'
    <2>1. /\ Busy(k) /\ UNCHANGED <<place, queue, list, asOf, late, raced>>
          /\ \E stage \in RunStages : run' = [run EXCEPT ![k] = stage]
      BY <1>a, <1>9
      DEF ResolveFails, PassOver, AskPin, TakeUp, EnterPin, Accept, Answer, FinishSync, vars,
          storage, RunStages, Busy
    <2>2. \A j \in Sheets \ {k} : run'[j] = run[j]
      BY <1>a, <2>1
    <2> QED BY <1>8, <2>1, <2>2
  <1>10. ASSUME NEW k \in Sheets, SubmissionFails(k) \/ RefusePin(k) \/ LoseAnswer(k)
         PROVE  ListInv'
    BY <1>a, <1>8, <1>10
    DEF SubmissionFails, RefusePin, LoseAnswer, FailAttempt, vars, storage, Busy
  <1>11. ASSUME NEW k \in Sheets, CloseSheet(k)
         PROVE  ListInv'
    <2>1. /\ place' = [place EXCEPT ![k] = None]
          /\ UNCHANGED <<queue, run, list, asOf, late, raced>>
      BY <1>11 DEF CloseSheet, vars, storage, sync
    <2>2. \A j \in Sheets : Holding(j)' => Holding(j)
      BY <1>a, <2>1 DEF Holding, Busy
    <2> QED BY <1>7, <2>1, <2>2
  <1>12. ASSUME NEW id \in AuthIds, PassWindow(id)
         PROVE  ListInv'
    BY <1>7, <1>12 DEF PassWindow, Holding, Busy, vars, storage, sync
  <1>13. CASE CrashAll
    <2>1. \A k \in Sheets : ~Holding(k)' /\ asOf'[k] = {}
      BY <1>13 DEF CrashAll, Holding, Busy
    <2> QED BY <2>1 DEF ListInv
  <1>14. CASE UNCHANGED redemptionVars
    BY <1>7, <1>14 DEF redemptionVars, redemption, sync, vars, storage, Holding, Busy
  <1> QED
    BY <1>1, <1>2, <1>3, <1>5, <1>6, <1>9, <1>10, <1>11, <1>12, <1>13, <1>14
    DEF NextRedemption, RunStep

LEMMA ListAlways == ~SheetsOverlap => (SpecRedemption => []ListInv)
  <1>1. InitRedemption => ListInv
    BY DEF InitRedemption, Init, ListInv
  <1>2. ASSUME ~SheetsOverlap
        PROVE  SpecRedemption => []ListInv
    <2>1. SpecRedemption => []OnceInv
      BY <1>2, OnceAlways
    <2>2. SheetTypeInv /\ OnceInv /\ ListInv /\ [NextRedemption]_redemptionVars => ListInv'
      BY <1>2, ListStep
    <2> QED BY <1>1, <2>1, <2>2, SheetTypeAlways, PTL DEF SpecRedemption
  <1> QED BY <1>2

\* If no sheet opens while another is open or still syncs, what leaves the
\* stored queue is paid, past its window, displaced by a new spend, or was
\* itself queued under a sheet that held an older list.
THEOREM LeavesWithReason ==
  ~SheetsOverlap => (SpecRedemption => LeavesQueueForAReason)
  <1> DEFINE Reason(a) ==
        \/ paid[a.id] > 0
        \/ a.id \in late
        \/ a \in raced
        \/ Enqueued # {}
  <1>1. ASSUME SheetTypeInv, SettledInv, ListInv, [NextRedemption]_redemptionVars,
               NEW a \in queue \ queue'
        PROVE  Reason(a)
    <2>a. \A k \in Sheets : Busy(k) => a \in list[k] \/ a \in raced
      BY <1>1 DEF ListInv, Holding
    <2>b. pc \in [Screens -> Stages]
      BY <1>1 DEF SheetTypeInv, TypeInv, TypeOK
    <2>1. CASE ReserveStep
      <3>1. \E s \in Screens : Enqueue(s)
        BY <1>1, <2>1
        DEF ReserveStep, ConfirmInput, Continuation, BeginProvision, FinishProvision, OpenConfirm,
            CheckAllowance, Pay, PayRejected, Sign, RecordSpend, Broadcast, Close, LeaveSigning,
            Lapse, storage
      <3> QED BY <2>b, <3>1 DEF Enqueue, Enqueued
    <2>2. ASSUME NEW k \in Sheets, NEW b \in todo[k], Expire(k, b)
          PROVE  Reason(a)
      <3>1. a = b \/ a \in raced
        BY <1>1, <2>a, <2>2 DEF Expire, TakeUp, Dequeue, Busy
      <3> QED BY <1>1, <2>2, <3>1 DEF Expire, ListInv
    <2>3. ASSUME NEW k \in Sheets, Settle(k)
          PROVE  Reason(a)
      <3>1. a = cur[k] \/ a \in raced
        BY <1>1, <2>a, <2>3 DEF Settle, Dequeue, Busy
      <3> QED BY <1>1, <2>3, <3>1 DEF Settle, SettledInv, Applied
    <2>4. ASSUME NextRedemption, ~ReserveStep,
                 \A k \in Sheets : ~Settle(k) /\ \A b \in todo[k] : ~Expire(k, b)
          PROVE  queue' = queue
      BY <2>4
      DEF NextRedemption, RunStep, OpenSheet, CloseSheet, StartSync, ResolveFails, PassOver, AskPin,
          EnterPin, RefusePin, SubmissionFails, Accept, LoseAnswer, Answer, FailAttempt, FinishSync,
          PassWindow, CrashAll, Crash, vars, storage
    <2>5. UNCHANGED redemptionVars => queue' = queue
      BY DEF redemptionVars, vars, storage
    <2> QED BY <1>1, <2>1, <2>2, <2>3, <2>4, <2>5
  <1>2. SheetTypeInv /\ SettledInv /\ ListInv /\ [NextRedemption]_redemptionVars
          => [\A a \in queue \ queue' :
                \/ paid[a.id] > 0
                \/ a.id \in late
                \/ a \in raced
                \/ Enqueued # {}]_redemptionVars
    BY <1>1
  <1>3. ASSUME ~SheetsOverlap
        PROVE  SpecRedemption => LeavesQueueForAReason
    <2>1. SpecRedemption => []ListInv
      BY <1>3, ListAlways
    <2> QED
      BY <1>2, <2>1, SheetTypeAlways, SettledAlways, PTL DEF SpecRedemption, LeavesQueueForAReason
  <1> QED BY <1>3

-----------------------------------------------------------------------------
(* The reserve beneath the sheets: what was proved of the reserve alone     *)
(* holds while runs replace its queue and its history.                     *)

\* A step of the sheets leaves all of the reserve alone but its stored queue and
\* history; any other step is one the reserve takes.
LEMMA SheetsFrame ==
  [NextRedemption]_redemptionVars =>
    [Next]_vars \/ UNCHANGED <<allowance, provisioning, top, screen, lapsed, history>>
  <1> SUFFICES ASSUME [NextRedemption]_redemptionVars
               PROVE  \/ [Next]_vars
                      \/ UNCHANGED <<allowance, provisioning, top, screen, lapsed, history>>
    OBVIOUS
  <1>1. CASE ReserveStep
    BY <1>1 DEF ReserveStep, Next
  <1>2. CASE CrashAll
    BY <1>2 DEF CrashAll, Next
  <1>3. ASSUME NEW k \in Sheets, NEW a, Dequeue(k, a)
        PROVE  UNCHANGED <<allowance, provisioning, top, screen, lapsed, history>>
    BY <1>3 DEF Dequeue
  <1>4. ASSUME NEW k \in Sheets, RunStep(k)
        PROVE  [Next]_vars \/ UNCHANGED <<allowance, provisioning, top, screen, lapsed, history>>
    BY <1>3, <1>4
    DEF RunStep, Expire, ResolveFails, PassOver, AskPin, SubmissionFails, FailAttempt, Accept,
        LoseAnswer, Answer, Settle, FinishSync
  <1>5. CASE \/ \E k \in Sheets, p \in Places : OpenSheet(k, p)
             \/ \E k \in Sheets : \/ CloseSheet(k) \/ StartSync(k)
                                  \/ EnterPin(k) \/ RefusePin(k)
             \/ \E id \in AuthIds : PassWindow(id)
    BY <1>5 DEF OpenSheet, StartSync, EnterPin, RefusePin, FailAttempt, CloseSheet, PassWindow
  <1>6. CASE UNCHANGED redemptionVars
    BY <1>6 DEF redemptionVars
  <1> QED BY <1>1, <1>2, <1>4, <1>5, <1>6 DEF NextRedemption

\* Whatever screens are left and sheets dismissed, no branch of an allowance's
\* history exceeds its limit: redemption never gives back what was authorized.
THEOREM BranchesCoveredWithSheets == SpecRedemption => []BranchesCovered
  <1>1. InitRedemption => BranchInv
    <2>1. Init => BranchInv
      BY BranchInit
    <2> QED BY <2>1 DEF InitRedemption
  <1>2. SheetTypeInv /\ BranchInv /\ [NextRedemption]_redemptionVars => BranchInv'
    <2> SUFFICES ASSUME SheetTypeInv, BranchInv, [NextRedemption]_redemptionVars
                 PROVE  BranchInv'
      OBVIOUS
    <2>1. TypeInv
      BY DEF SheetTypeInv
    <2>2. CASE [Next]_vars
      BY <2>1, <2>2, BranchStep
    <2>3. CASE UNCHANGED <<allowance, provisioning, top, screen, lapsed, history>>
      BY <2>1, <2>3, BranchFrame DEF screen, history
    <2> QED BY <2>2, <2>3, SheetsFrame
  <1>3. BranchInv => BranchesCovered
    BY DEF BranchInv
  <1> QED BY <1>1, <1>2, <1>3, SheetTypeAlways, PTL DEF SpecRedemption

LEMMA ChainWithSheets == ~LeaveWhileSigning => (SpecRedemption => []ChainInv)
  <1>1. InitRedemption => ChainInv
    BY ChainInit DEF InitRedemption
  <1>2. ASSUME ~LeaveWhileSigning
        PROVE  SheetTypeInv /\ ChainInv /\ [NextRedemption]_redemptionVars => ChainInv'
    <2> SUFFICES ASSUME SheetTypeInv, ChainInv, [NextRedemption]_redemptionVars
                 PROVE  ChainInv'
      OBVIOUS
    <2>1. TypeInv
      BY DEF SheetTypeInv
    <2>2. CASE [Next]_vars
      BY <1>2, <2>1, <2>2, ChainStep
    <2>3. CASE UNCHANGED <<allowance, provisioning, top, screen, lapsed, history>>
      <3>1. Serial'
        BY <2>3 DEF ChainInv, Serial, screen
      <3> QED BY <2>1, <2>3, <3>1, ChainFrame DEF screen, history
    <2> QED BY <2>2, <2>3, SheetsFrame
  <1>3. ASSUME ~LeaveWhileSigning
        PROVE  SpecRedemption => []ChainInv
    BY <1>1, <1>2, <1>3, SheetTypeAlways, PTL DEF SpecRedemption
  <1> QED BY <1>3

\* If a signing screen cannot be left, reserve and redemption together implement the
\* atomic ledger: no run, retry, lost answer or dismissed sheet makes an allowance
\* authorize again what it has authorized.
THEOREM SheetsKeepTheLedger == ~LeaveWhileSigning => (SpecRedemption => LedgerSpec)
  <1>1. InitRedemption => Ledger!Init
    BY DEF InitRedemption, Init, Ledger!Init
  <1>2. SheetTypeInv /\ ChainInv /\ [NextRedemption]_redemptionVars
          => [Ledger!Next]_(Ledger!ledgerVars)
    <2> SUFFICES ASSUME SheetTypeInv, ChainInv, [NextRedemption]_redemptionVars
                 PROVE  [Ledger!Next]_(Ledger!ledgerVars)
      OBVIOUS
    <2>1. CASE [Next]_vars
      BY <2>1, LedgerStep DEF SheetTypeInv
    <2>2. CASE UNCHANGED history
      BY <2>2 DEF history, Ledger!ledgerVars
    <2> QED BY <2>1, <2>2, SheetsFrame
  <1>3. ASSUME ~LeaveWhileSigning
        PROVE  SpecRedemption => LedgerSpec
    <2>1. SpecRedemption => []ChainInv
      BY <1>3, ChainWithSheets
    <2> QED BY <1>1, <1>2, <2>1, SheetTypeAlways, PTL DEF SpecRedemption, LedgerSpec, Ledger!Spec
  <1> QED BY <1>3

\* ... and its authorizations are one chain, whose total is what the stored balance
\* lacks and never more than was set aside.
THEOREM SheetsNeverFork ==
  ~LeaveWhileSigning => (SpecRedemption => [](OneChain /\ Conservation /\ NoOverspend))
  <1>1. ChainInv => OneChain /\ Conservation /\ NoOverspend
    BY DEF ChainInv, Copies, Copy, Conservation
  <1> QED BY <1>1, ChainWithSheets, PTL

-----------------------------------------------------------------------------
(* Confirmations are durable beneath the sheets as well.                   *)

\* rs has a record of the authorization id.
Noted(rs, id) == \E n \in 1..Len(rs) : rs[n].id = id

\* The first of some places in a list.
LEMMA FirstPlace ==
  ASSUME NEW T \in SUBSET Nat, T # {}
  PROVE  \E n \in T : \A m \in T : n <= m
  <1> DEFINE R == OpToRel(<, Nat)
  <1>1. IsWellFoundedOn(R, Nat)
    BY NatLessThanWellFounded
  <1>2. \A x, y \in Nat : <<x, y>> \in R <=> x < y
    BY DEF OpToRel
  <1> HIDE DEF R
  <1>3. PICK n \in T : \A m \in T : ~ (<<m, n>> \in R)
    BY <1>1, WFMin
  <1>4. ASSUME NEW m \in T PROVE n <= m
    <2>1. m \in Nat /\ n \in Nat
      OBVIOUS
    <2>2. ~(m < n)
      BY <1>2, <1>3, <2>1
    <2> QED BY <2>1, <2>2
  <1> QED BY <1>4

\* Setting a status loses no record.
LEMMA SetStatusKeeps ==
  ASSUME NEW rs \in Seq(Record), NEW id \in AuthIds, NEW status \in Status
  PROVE  \A i : Noted(rs, i) => Noted(SetStatus(rs, id, status), i)
  <1> DEFINE hits == {n \in 1..Len(rs) : rs[n].id = id}
             r == [id |-> id, status |-> status]
  <1>1. r \in Record /\ r.id = id
    BY DEF Record
  <1> HIDE DEF r
  <1>2. SUFFICES ASSUME NEW i, NEW n \in 1..Len(rs), rs[n].id = i
                 PROVE  Noted(SetStatus(rs, id, status), i)
    BY DEF Noted
  <1>3. CASE hits = {}
    <2>1. SetStatus(rs, id, status) = <<r>> \o rs
      BY <1>3 DEF SetStatus, r
    <2>2. (<<r>> \o rs)[n + 1] = rs[n] /\ n + 1 \in 1..Len(<<r>> \o rs)
      BY <1>1, Prepend
    <2> QED BY <1>2, <2>1, <2>2 DEF Noted
  <1>4. CASE hits # {}
    <2> DEFINE m == CHOOSE j \in hits : \A l \in hits : j <= l
    <2>1. SetStatus(rs, id, status) = [rs EXCEPT ![m] = r]
      BY <1>4 DEF SetStatus, r
    <2>2. m \in hits
      <3>1. hits \in SUBSET Nat
        OBVIOUS
      <3>2. \E j \in hits : \A l \in hits : j <= l
        BY <1>4, <3>1, FirstPlace
      <3> QED BY <3>2
    <2> HIDE DEF m
    <2>3. m \in 1..Len(rs) /\ rs[m].id = id
      BY <2>2
    <2>4. Len([rs EXCEPT ![m] = r]) = Len(rs)
      OBVIOUS
    <2>5. [rs EXCEPT ![m] = r][n].id = i
      BY <1>1, <1>2, <2>3
    <2> QED BY <2>1, <2>4, <2>5 DEF Noted
  <1> QED BY <1>3, <1>4

\* The screen in front has queued nothing it has not shown yet.
Quiet == \A s \in Screens : top = s => pc[s] \notin {"queued", "recorded"}

\* What was shown is on record, in the stored history and in the copy of every run
\* that will replace it, unless it was queued under a sheet that held a list; a
\* screen in front that has queued did so while no run was going on.
HistoryInv ==
  /\ ConfirmedIsKept
  /\ \A s \in Screens :
       top = s /\ auth[s] \notin raced =>
         /\ pc[s] = "recorded" => Recorded(auth[s])
         /\ pc[s] \in {"queued", "recorded"} => \A k \in Sheets : ~Busy(k)
  /\ \A k \in Sheets : place[k] = "Confirm" => \A s \in Screens : top = s => pc[s] = "open"
  /\ \A k \in Sheets : Busy(k) => \A a \in shown : a \in raced \/ Noted(recs[k], a.id)

LEMMA RecordedNoted == \A a : Recorded(a) <=> Noted(records, a.id)
  BY DEF Recorded, Noted

\* Steps that store no record and leave the screens alone, and after which every run
\* that goes on holds at least what it held.
LEMMA HistoryFrame ==
  ASSUME HistoryInv, UNCHANGED <<records, top, pc, auth, shown, raced>>,
         \A k \in Sheets : place'[k] = "Confirm" => place[k] = "Confirm" \/ SheetReachable,
         \A k \in Sheets : Busy(k)' =>
           \/ Busy(k) /\ \A id : Noted(recs[k], id) => Noted(recs'[k], id)
           \/ Quiet /\ recs'[k] = records
  PROVE  HistoryInv'
  <1>1. ConfirmedIsKept'
    BY DEF HistoryInv, ConfirmedIsKept, Recorded
  <1>2. ASSUME NEW s \in Screens, top' = s, auth'[s] \notin raced'
        PROVE  /\ pc'[s] = "recorded" => Recorded(auth[s])'
               /\ pc'[s] \in {"queued", "recorded"} => \A k \in Sheets : ~Busy(k)'
    <2>1. pc[s] = "recorded" => Recorded(auth[s])
      BY <1>2 DEF HistoryInv
    <2>2. pc[s] \in {"queued", "recorded"} => \A k \in Sheets : ~Busy(k)'
      BY <1>2 DEF HistoryInv, Quiet
    <2> QED BY <2>1, <2>2 DEF Recorded
  <1>3. \A k \in Sheets : place'[k] = "Confirm" => \A s \in Screens : top' = s => pc'[s] = "open"
    BY DEF HistoryInv, SheetReachable
  <1>4. \A k \in Sheets : Busy(k)' => \A a \in shown' : a \in raced' \/ Noted(recs'[k], a.id)
    BY RecordedNoted DEF HistoryInv, ConfirmedIsKept
  <1> QED BY <1>1, <1>2, <1>3, <1>4 DEF HistoryInv, Busy, Noted

\* A step of the reserve that keeps what is on record and shows only what is.
LEMMA HistoryReserve ==
  ASSUME HistoryInv, UNCHANGED <<place, run, recs>>, raced \subseteq raced',
         \A a : Recorded(a) => Recorded(a)',
         \A s \in Screens : top' = s /\ auth'[s] \notin raced' =>
            /\ pc'[s] = "recorded" =>
                 \/ Recorded(auth[s])'
                 \/ top = s /\ pc[s] = "recorded" /\ auth'[s] = auth[s]
            /\ pc'[s] \in {"queued", "recorded"} =>
                 \/ \A k \in Sheets : ~Busy(k)
                 \/ top = s /\ pc[s] \in {"queued", "recorded"} /\ auth'[s] = auth[s],
         \A a \in shown' : \/ a \in shown
                           \/ \E s \in Screens : top = s /\ pc[s] = "recorded" /\ a = auth[s],
         \A k \in Sheets : place[k] = "Confirm" =>
            \A s \in Screens : top' = s => top = s /\ (pc[s] = "open" => pc'[s] = "open")
  PROVE  HistoryInv'
  <1>1. \A a \in shown' : a \in raced \/ Recorded(a)
    BY DEF HistoryInv, ConfirmedIsKept
  <1>2. ConfirmedIsKept'
    BY <1>1 DEF ConfirmedIsKept
  <1>3. ASSUME NEW s \in Screens, top' = s, auth'[s] \notin raced', pc'[s] = "recorded"
        PROVE  Recorded(auth[s])'
    <2>1. CASE top = s /\ pc[s] = "recorded" /\ auth'[s] = auth[s]
      <3>1. Recorded(auth[s])
        BY <1>3, <2>1 DEF HistoryInv
      <3>2. \E n \in 1..Len(records') : records'[n].id = auth[s].id
        BY <3>1 DEF Recorded
      <3> QED BY <2>1, <3>2 DEF Recorded
    <2> QED BY <1>3, <2>1
  <1>4. ASSUME NEW s \in Screens, top' = s, auth'[s] \notin raced',
               pc'[s] \in {"queued", "recorded"}
        PROVE  \A k \in Sheets : ~Busy(k)'
    <2>1. \A k \in Sheets : ~Busy(k)
      BY <1>4 DEF HistoryInv
    <2> QED BY <2>1 DEF Busy
  <1>5. \A k \in Sheets : place'[k] = "Confirm" => \A s \in Screens : top' = s => pc'[s] = "open"
    BY DEF HistoryInv
  <1>6. ASSUME NEW k \in Sheets, Busy(k)', NEW a \in shown', a \notin raced'
        PROVE  Noted(recs'[k], a.id)
    <2>1. Busy(k) /\ a \notin raced
      BY <1>6 DEF Busy
    <2>2. a \in shown
      BY <1>6, <2>1 DEF HistoryInv
    <2> QED BY <2>1, <2>2 DEF HistoryInv
  <1> QED BY <1>2, <1>3, <1>4, <1>5, <1>6 DEF HistoryInv, Busy, Noted

LEMMA HistoryReserveStep ==
  ASSUME SheetTypeInv, HistoryInv, ReserveStep
  PROVE  HistoryInv'
  <1>a. /\ pc \in [Screens -> Stages] /\ auth \in [Screens -> Authorization \cup {None}]
        /\ None \notin Screens /\ UNCHANGED <<place, run, recs>> /\ raced \subseteq raced'
    BY NoneAssumption DEF SheetTypeInv, TypeInv, TypeOK, ReserveStep, sync
  <1>b. \A k \in Sheets : place[k] = "Confirm" => \A s \in Screens : top = s => pc[s] = "open"
    BY DEF HistoryInv
  <1>1. ASSUME UNCHANGED <<records, shown>>,
               \A s \in Screens : top' = s /\ pc'[s] \in {"queued", "recorded"} =>
                  top = s /\ pc'[s] = pc[s] /\ auth'[s] = auth[s],
               \A k \in Sheets : place[k] = "Confirm" =>
                  \A s \in Screens : top' = s => top = s /\ (pc[s] = "open" => pc'[s] = "open")
        PROVE  HistoryInv'
    <2>1. \A a : Recorded(a) => Recorded(a)'
      BY <1>1 DEF Recorded
    <2> QED BY <1>1, <1>a, <2>1, HistoryReserve
  <1>2. CASE \/ \E i \in AllowanceIds : BeginProvision(i)
             \/ \E i \in AllowanceIds, amt \in Limits : FinishProvision(i, amt)
             \/ \E x \in AllowanceIds \cup Requests : Lapse(x)
    BY <1>1, <1>2 DEF BeginProvision, FinishProvision, Lapse, storage, screen, history
  <1>3. CASE (\A k \in Sheets : place[k] # "Confirm") /\ ConfirmInput
    <2>1. CASE \E s \in Screens, r \in Requests : OpenConfirm(s, r)
      BY <1>1, <1>3, <1>a, <2>1 DEF OpenConfirm, storage, history
    <2>2. CASE \E s \in Screens : CheckAllowance(s) \/ Pay(s) \/ PayRejected(s)
      BY <1>1, <1>3, <1>a, <2>2 DEF CheckAllowance, Pay, PayRejected, storage, history
    <2>3. CASE \E s \in Screens : Close(s) \/ LeaveSigning(s)
      BY <1>1, <1>3, <1>a, <2>3 DEF Close, LeaveSigning, Dispose, storage, screen, history
    <2> QED BY <1>3, <2>1, <2>2, <2>3 DEF ConfirmInput
  <1>4. ASSUME NEW s \in Screens, NEW id \in AuthIds, Sign(s, id)
        PROVE  HistoryInv'
    <2>1. /\ pc[s] = "checked" /\ pc' = [pc EXCEPT ![s] = "debited"]
          /\ UNCHANGED <<records, shown, top>>
          /\ \A t \in Screens \ {s} : auth'[t] = auth[t]
      BY <1>4, <1>a DEF Sign
    <2>2. \A k \in Sheets : place[k] = "Confirm" =>
             \A t \in Screens : top' = t => top = t /\ (pc[t] = "open" => pc'[t] = "open")
      BY <1>a, <1>b, <2>1
    <2>3. \A t \in Screens : pc'[t] \in {"queued", "recorded"} =>
             pc'[t] = pc[t] /\ auth'[t] = auth[t]
      BY <1>a, <2>1
    <2> QED BY <1>1, <2>1, <2>2, <2>3
  <1>5. ASSUME NEW s \in Screens, Enqueue(s)
        PROVE  HistoryInv'
    <2>1. /\ pc[s] = "debited" /\ pc' = [pc EXCEPT ![s] = "queued"]
          /\ UNCHANGED <<records, shown, top, auth>>
      BY <1>5 DEF Enqueue, history
    <2>2. \A a : Recorded(a) => Recorded(a)'
      BY <2>1 DEF Recorded
    <2>3. auth[s] \notin raced' => \A k \in Sheets : ~Busy(k)
      <3>1. pc'[s] = "queued"
        BY <1>a, <2>1
      <3>2. auth[s] \in Enqueued
        BY <2>1, <3>1 DEF Enqueued
      <3> QED BY <3>2 DEF ReserveStep, Holding
    <2>4. \A t \in Screens : pc'[t] \in {"queued", "recorded"} => t = s \/ pc'[t] = pc[t]
      BY <1>a, <2>1
    <2>5. pc'[s] = "queued"
      BY <1>a, <2>1
    <2>6. \A t \in Screens : pc[t] = "open" => pc'[t] = "open"
      BY <1>a, <2>1
    <2> QED BY <1>a, <2>1, <2>2, <2>3, <2>4, <2>5, <2>6, HistoryReserve
  <1>6. ASSUME NEW s \in Screens, RecordSpend(s)
        PROVE  HistoryInv'
    <2> DEFINE r == [id |-> auth[s].id, status |-> "pending"]
    <2>1. /\ r \in Record /\ r.id = auth[s].id
          /\ records \in Seq(Record) /\ records' = <<r>> \o records
      BY <1>6 DEF RecordSpend, Record, Authorization, Status, SheetTypeInv, TypeInv, TypeOK, StageOK
    <2> HIDE DEF r
    <2>2. /\ Len(records') = Len(records) + 1 /\ records'[1] = r
          /\ \A n \in 1..Len(records) : records'[n + 1] = records[n]
      BY <2>1, Prepend
    <2>3. Len(records) \in Nat
      BY <2>1
    <2>4. \A a : Recorded(a) => Recorded(a)'
      <3> SUFFICES ASSUME NEW a, NEW n \in 1..Len(records), records[n].id = a.id
                   PROVE  \E m \in 1..Len(records') : records'[m].id = a.id
        BY DEF Recorded
      <3>1. n + 1 \in 1..Len(records') /\ records'[n + 1].id = a.id
        BY <2>2, <2>3
      <3> QED BY <3>1
    <2>5. Recorded(auth[s])'
      <3>1. 1 \in 1..Len(records') /\ records'[1].id = auth'[s].id
        BY <1>6, <2>1, <2>2, <2>3 DEF RecordSpend
      <3> QED BY <3>1 DEF Recorded
    <2>6. /\ UNCHANGED <<top, auth, shown>> /\ pc[s] = "queued"
          /\ pc' = [pc EXCEPT ![s] = "recorded"]
      BY <1>6 DEF RecordSpend, history
    <2>7. \A t \in Screens : /\ pc[t] = "open" => pc'[t] = "open"
                             /\ t # s => pc'[t] = pc[t]
      BY <1>a, <2>6
    <2> QED BY <1>a, <2>4, <2>5, <2>6, <2>7, HistoryReserve
  <1>7. ASSUME NEW s \in Screens, Broadcast(s)
        PROVE  HistoryInv'
    <2>1. /\ records' = records /\ pc[s] = "recorded"
          /\ pc' = [pc EXCEPT ![s] = "closed"] /\ auth' = [auth EXCEPT ![s] = None]
          /\ top' = (IF top = s THEN None ELSE top)
          /\ shown' = (IF top = s THEN shown \cup {auth[s]} ELSE shown)
      BY <1>7 DEF Broadcast, Dispose, storage
    <2>2. \A a : Recorded(a) => Recorded(a)'
      BY <2>1 DEF Recorded
    <2>3. \A t \in Screens : top' = t => top = t /\ t # s /\ pc'[t] = pc[t] /\ auth'[t] = auth[t]
      BY <1>a, <2>1
    <2>4. \A a \in shown' : \/ a \in shown
                            \/ \E t \in Screens : top = t /\ pc[t] = "recorded" /\ a = auth[t]
      BY <2>1
    <2> QED BY <1>a, <2>2, <2>3, <2>4, HistoryReserve
  <1> QED BY <1>2, <1>3, <1>4, <1>5, <1>6, <1>7 DEF ReserveStep, Continuation

LEMMA HistoryStep ==
  ASSUME SheetTypeInv, HistoryInv, [NextRedemption]_redemptionVars
  PROVE  HistoryInv'
  <1>a. /\ run \in [Sheets -> RunStages] /\ recs \in [Sheets -> Seq(Record)]
        /\ place \in [Sheets -> Places \cup {None}]
        /\ None \notin Screens /\ None # "Confirm"
    BY NoneAssumption, SheetsAssumption DEF SheetTypeInv, TypeOKRedemption, Places
  <1>1. CASE ReserveStep
    BY <1>1, HistoryReserveStep
  <1>2. ASSUME NEW k \in Sheets, NEW p \in Places, OpenSheet(k, p)
        PROVE  HistoryInv'
    <2>1. /\ UNCHANGED <<records, top, pc, auth, shown, raced, run>>
          /\ ~Busy(k) /\ SheetReachable /\ \A j \in Sheets \ {k} : recs'[j] = recs[j]
      BY <1>2, <1>a DEF OpenSheet, vars, storage, screen, history
    <2> QED BY <2>1, HistoryFrame DEF Busy
  <1>3. ASSUME NEW k \in Sheets, CloseSheet(k)
        PROVE  HistoryInv'
    BY <1>3, <1>a, HistoryFrame DEF CloseSheet, sync, vars, storage, screen, history, Busy
  <1>4. ASSUME NEW k \in Sheets, StartSync(k)
        PROVE  HistoryInv'
    <2>1. /\ UNCHANGED <<records, place, top, pc, auth, shown, raced>>
          /\ recs' = [recs EXCEPT ![k] = records]
          /\ \A j \in Sheets \ {k} : run'[j] = run[j]
      BY <1>4, <1>a DEF StartSync, vars, storage, screen, history
    <2>2. Quiet
      BY <1>4, <1>a DEF StartSync, InFront, HistoryInv, Quiet
    <2> QED BY <1>a, <2>1, <2>2, HistoryFrame DEF Busy
  <1>5. ASSUME NEW k \in Sheets, NEW a, Dequeue(k, a)
        PROVE  UNCHANGED <<records, top, pc, auth, shown>>
    BY <1>5 DEF Dequeue, screen, history
  <1>6. ASSUME NEW k \in Sheets, NEW id \in AuthIds, NEW status \in Status,
               Busy(k), UNCHANGED <<records, place, top, pc, auth, shown, raced>>,
               recs' = [recs EXCEPT ![k] = SetStatus(@, id, status)],
               \A j \in Sheets \ {k} : run'[j] = run[j]
        PROVE  HistoryInv'
    <2>1. \A i : Noted(recs[k], i) => Noted(SetStatus(recs[k], id, status), i)
      BY <1>a, SetStatusKeeps
    <2>2. ASSUME NEW j \in Sheets, Busy(j)'
          PROVE  Busy(j) /\ \A i : Noted(recs[j], i) => Noted(recs'[j], i)
      BY <1>6, <1>a, <2>1, <2>2 DEF Busy
    <2> QED BY <1>6, <2>2, HistoryFrame
  <1>7. ASSUME NEW k \in Sheets, NEW a \in todo[k], Expire(k, a) \/ ResolveFails(k, a)
        PROVE  HistoryInv'
    <2>1. a.id \in AuthIds /\ {"expired", "failed"} \subseteq Status
      BY <1>7 DEF SheetTypeInv, TypeOKRedemption, Authorization, Status
    <2>2. Busy(k) /\ UNCHANGED run /\ UNCHANGED <<records, place, top, pc, auth, shown, raced>>
      BY <1>5, <1>7 DEF Expire, ResolveFails, TakeUp, Busy, vars, storage, screen, history
    <2>3. \E status \in {"expired", "failed"} :
            recs' = [recs EXCEPT ![k] = SetStatus(@, a.id, status)]
      BY <1>7 DEF Expire, ResolveFails
    <2> QED BY <1>6, <2>1, <2>2, <2>3
  <1>8. ASSUME NEW k \in Sheets, SubmissionFails(k) \/ RefusePin(k) \/ LoseAnswer(k) \/ Settle(k)
        PROVE  HistoryInv'
    <2>1. run[k] \in {"pin", "submitting", "accepted", "recording"} /\ Busy(k)
      BY <1>8 DEF SubmissionFails, RefusePin, LoseAnswer, Settle, Busy
    <2>2. cur[k].id \in AuthIds /\ {"settled", "failed"} \subseteq Status
      BY <2>1, InHand DEF SheetTypeInv, Status
    <2>3. /\ UNCHANGED <<records, place, top, pc, auth, shown, raced>>
          /\ \A j \in Sheets \ {k} : run'[j] = run[j]
      BY <1>5, <1>8, <1>a
      DEF SubmissionFails, RefusePin, LoseAnswer, Settle, FailAttempt, vars, storage, screen, history
    <2>4. \E status \in {"settled", "failed"} :
            recs' = [recs EXCEPT ![k] = SetStatus(@, cur[k].id, status)]
      BY <1>8 DEF SubmissionFails, RefusePin, LoseAnswer, Settle, FailAttempt
    <2> QED BY <1>6, <2>1, <2>2, <2>3, <2>4
  <1>9. ASSUME NEW k \in Sheets,
               \/ \E a \in todo[k] : PassOver(k, a) \/ AskPin(k, a)
               \/ EnterPin(k) \/ Accept(k) \/ Answer(k)
        PROVE  HistoryInv'
    <2>1. /\ Busy(k) /\ UNCHANGED <<records, place, top, pc, auth, shown, raced, recs>>
          /\ \A j \in Sheets \ {k} : run'[j] = run[j]
      BY <1>a, <1>9
      DEF PassOver, AskPin, TakeUp, EnterPin, Accept, Answer, Busy, vars, storage, screen, history
    <2> QED BY <1>a, <2>1, HistoryFrame DEF Busy
  <1>10. ASSUME NEW k \in Sheets, FinishSync(k)
         PROVE  HistoryInv'
    <2>1. /\ Busy(k) /\ run' = [run EXCEPT ![k] = "idle"] /\ records' = recs[k]
          /\ UNCHANGED <<place, top, pc, auth, shown, raced, recs>>
      BY <1>10 DEF FinishSync, Busy, screen, history
    <2>2. ConfirmedIsKept'
      BY <2>1 DEF HistoryInv, ConfirmedIsKept, Recorded, Noted
    <2>3. \A s \in Screens : top = s /\ auth[s] \notin raced => pc[s] \notin {"queued", "recorded"}
      BY <2>1 DEF HistoryInv
    <2>4. \A j \in Sheets : Busy(j)' => Busy(j)
      BY <1>a, <2>1 DEF Busy
    <2>5. \A j \in Sheets : Busy(j)' => \A a \in shown' : a \in raced' \/ Noted(recs'[j], a.id)
      BY <2>1, <2>4 DEF HistoryInv
    <2> QED BY <2>1, <2>2, <2>3, <2>5 DEF HistoryInv, Busy, Noted
  <1>11. ASSUME NEW id \in AuthIds, PassWindow(id)
         PROVE  HistoryInv'
    BY <1>11, HistoryFrame DEF PassWindow, sync, vars, storage, screen, history, Busy
  <1>12. CASE CrashAll
    <2>1. UNCHANGED <<records, shown, raced>> /\ \A s \in Screens : pc'[s] = "closed"
      BY <1>12 DEF CrashAll, Crash, storage, history
    <2>2. \A j \in Sheets : place'[j] = None /\ run'[j] = "idle"
      BY <1>12 DEF CrashAll
    <2> QED BY <1>a, <2>1, <2>2 DEF HistoryInv, ConfirmedIsKept, Recorded, Busy
  <1>13. CASE UNCHANGED redemptionVars
    BY <1>13, HistoryFrame
    DEF redemptionVars, redemption, sync, vars, storage, screen, history, Busy
  <1> QED
    BY <1>1, <1>2, <1>3, <1>4, <1>7, <1>8, <1>9, <1>10, <1>11, <1>12, <1>13
    DEF NextRedemption, RunStep

\* A confirmation that was shown is in the stored history for good, although every
\* run that ends replaces that history by its own copy, however sheets overlap and
\* screens are left: all but what was queued under a sheet that held a list.
THEOREM ConfirmedKeptWithSheets == SpecRedemption => []ConfirmedIsKept
  <1>1. InitRedemption => HistoryInv
    <2>1. ASSUME InitRedemption
          PROVE  \A k \in Sheets : place[k] # "Confirm" /\ ~Busy(k)
      BY <2>1, SheetsAssumption DEF InitRedemption, Places, Busy
    <2> QED BY <2>1 DEF InitRedemption, Init, ConfirmedIsKept, HistoryInv
  <1>2. SheetTypeInv /\ HistoryInv /\ [NextRedemption]_redemptionVars => HistoryInv'
    BY HistoryStep
  <1>3. HistoryInv => ConfirmedIsKept
    BY DEF HistoryInv
  <1> QED BY <1>1, <1>2, <1>3, SheetTypeAlways, PTL DEF SpecRedemption

-----------------------------------------------------------------------------
(* A run uses itself up.                                                   *)

\* What is left of a run: its authorizations, and how far the one in hand is.
Stage ==
  [stage \in RunStages |->
     CASE stage = "idle"       -> 0
       [] stage = "next"       -> 1
       [] stage = "recording"  -> 2
       [] stage = "accepted"   -> 3
       [] stage = "submitting" -> 4
       [] stage = "pin"        -> 5]

Work(k) == 5 * Cardinality(todo[k]) + Stage[run[k]]

\* Every list of authorizations is finite.
FiniteInv ==
  /\ IsFiniteSet(queue)
  /\ \A s \in Screens : IsFiniteSet(pend[s])
  /\ \A k \in Sheets : IsFiniteSet(list[k]) /\ IsFiniteSet(todo[k])

LEMMA StageValues ==
  /\ Stage["idle"] = 0 /\ Stage["next"] = 1 /\ Stage["recording"] = 2
  /\ Stage["accepted"] = 3 /\ Stage["submitting"] = 4 /\ Stage["pin"] = 5
  BY DEF Stage, RunStages

\* Taking an authorization up leaves one less to be taken.
LEMMA OneLess ==
  ASSUME NEW T, IsFiniteSet(T), NEW a \in T
  PROVE  /\ IsFiniteSet(T \ {a}) /\ Cardinality(T) \in Nat /\ Cardinality(T \ {a}) \in Nat
         /\ Cardinality(T \ {a}) = Cardinality(T) - 1
  BY FS_RemoveElement, FS_CardinalityType

LEMMA FiniteStep ==
  SheetTypeInv /\ FiniteInv /\ [NextRedemption]_redemptionVars => FiniteInv'
  <1> SUFFICES ASSUME SheetTypeInv, FiniteInv, [NextRedemption]_redemptionVars
               PROVE  FiniteInv'
    OBVIOUS
  <1>a. /\ pend \in [Screens -> SUBSET Authorization]
        /\ list \in [Sheets -> SUBSET Authorization] /\ todo \in [Sheets -> SUBSET Authorization]
    BY DEF SheetTypeInv, TypeInv, TypeOK, TypeOKRedemption
  <1>b. IsFiniteSet({})
    BY FS_EmptySet
  <1>c. \A T, a : IsFiniteSet(T) => IsFiniteSet(T \cup {a}) /\ IsFiniteSet(T \ {a})
    BY FS_AddElement, FS_RemoveElement
  <1>1. CASE ReserveStep
    <2>1. UNCHANGED <<list, todo>>
      BY <1>1 DEF ReserveStep, sync
    <2>2. ASSUME NEW s \in Screens, Enqueue(s)
          PROVE  IsFiniteSet(queue') /\ \A t \in Screens : IsFiniteSet(pend'[t])
      BY <1>a, <1>c, <2>2 DEF Enqueue, FiniteInv
    <2>3. ASSUME NEW s \in Screens,
                 (\E r \in Requests : OpenConfirm(s, r)) \/ Close(s) \/ Broadcast(s)
          PROVE  IsFiniteSet(queue') /\ \A t \in Screens : IsFiniteSet(pend'[t])
      BY <1>a, <1>b, <2>3 DEF OpenConfirm, Close, Broadcast, Dispose, storage, FiniteInv
    <2>4. ASSUME \A s \in Screens : /\ ~Enqueue(s) /\ ~Close(s) /\ ~Broadcast(s)
                                    /\ \A r \in Requests : ~OpenConfirm(s, r)
          PROVE  UNCHANGED <<queue, pend>>
      BY <1>1, <2>4
      DEF ReserveStep, ConfirmInput, Continuation, BeginProvision, FinishProvision,
          CheckAllowance, Pay, PayRejected, Sign, RecordSpend, LeaveSigning, Lapse, storage, screen
    <2> QED BY <2>1, <2>2, <2>3, <2>4 DEF FiniteInv
  <1>2. CASE CrashAll
    BY <1>2, <1>b DEF CrashAll, Crash, storage, FiniteInv
  <1>3. ASSUME NEW k \in Sheets, NEW a, Dequeue(k, a)
        PROVE  IsFiniteSet(queue') /\ pend' = pend /\ \A j \in Sheets : IsFiniteSet(list'[j])
    BY <1>3, <1>a, <1>c DEF Dequeue, screen, FiniteInv
  <1>4. ASSUME NEW k \in Sheets, NEW a \in todo[k], Expire(k, a)
        PROVE  FiniteInv'
    BY <1>3, <1>4, <1>a, <1>c DEF Expire, TakeUp, FiniteInv
  <1>5. ASSUME NEW k \in Sheets, NEW a \in todo[k],
               ResolveFails(k, a) \/ PassOver(k, a) \/ AskPin(k, a)
        PROVE  FiniteInv'
    <2>1. UNCHANGED <<queue, pend, list>> /\ todo' = [todo EXCEPT ![k] = @ \ {a}]
      BY <1>5 DEF ResolveFails, PassOver, AskPin, TakeUp, vars, storage, screen
    <2> QED BY <1>a, <1>c, <2>1 DEF FiniteInv
  <1>6. ASSUME NEW k \in Sheets, Settle(k)
        PROVE  FiniteInv'
    BY <1>3, <1>6 DEF Settle, FiniteInv
  <1>7. ASSUME NEW k \in Sheets, StartSync(k) \/ \E p \in Places : OpenSheet(k, p)
        PROVE  FiniteInv'
    BY <1>7, <1>a, <1>b DEF OpenSheet, StartSync, vars, storage, screen, FiniteInv
  <1>8. CASE \/ \E k \in Sheets : \/ SubmissionFails(k) \/ Accept(k) \/ LoseAnswer(k)
                                  \/ Answer(k) \/ FinishSync(k)
                                  \/ EnterPin(k) \/ RefusePin(k) \/ CloseSheet(k)
             \/ \E id \in AuthIds : PassWindow(id)
             \/ UNCHANGED redemptionVars
    <2>1. UNCHANGED <<queue, pend, list, todo>>
      BY <1>8
      DEF SubmissionFails, Accept, LoseAnswer, Answer, FinishSync, EnterPin, RefusePin, FailAttempt,
          CloseSheet, PassWindow, redemptionVars, redemption, sync, vars, storage, screen
    <2> QED BY <2>1 DEF FiniteInv
  <1> QED
    BY <1>1, <1>2, <1>4, <1>5, <1>6, <1>7, <1>8 DEF NextRedemption, RunStep

LEMMA FiniteAlways == SpecRedemption => []FiniteInv
  <1>1. InitRedemption => FiniteInv
    BY FS_EmptySet DEF InitRedemption, Init, FiniteInv
  <1> QED BY <1>1, FiniteStep, SheetTypeAlways, PTL DEF SpecRedemption

\* Once started a run only loses work: each of its steps, the user's answers to its
\* dialogs included, leaves less of it, and no other step adds to it.  So a run of n
\* authorizations takes 5n + 1 steps at most, whatever fails on the way; that it takes
\* them is what SyncEnds adds.
THEOREM RunsUseThemselvesUp ==
  SpecRedemption =>
    [][\A k \in Sheets : run[k] # "idle" =>
         /\ Work(k)' <= Work(k)
         /\ (RunStep(k) \/ EnterPin(k) \/ RefusePin(k)) => Work(k)' < Work(k)]_redemptionVars
  <1> DEFINE Down ==
        \A k \in Sheets : run[k] # "idle" =>
          /\ Work(k)' <= Work(k)
          /\ (RunStep(k) \/ EnterPin(k) \/ RefusePin(k)) => Work(k)' < Work(k)
  <1>1. ASSUME SheetTypeInv, FiniteInv, [NextRedemption]_redemptionVars, NEW k \in Sheets,
               run[k] # "idle"
        PROVE  /\ Work(k)' <= Work(k)
               /\ (RunStep(k) \/ EnterPin(k) \/ RefusePin(k)) => Work(k)' < Work(k)
    <2>a. /\ run \in [Sheets -> RunStages] /\ todo \in [Sheets -> SUBSET Authorization]
          /\ Cardinality(todo[k]) \in Nat /\ Stage[run[k]] \in Nat
      <3>1. run \in [Sheets -> RunStages] /\ todo \in [Sheets -> SUBSET Authorization]
        BY <1>1 DEF SheetTypeInv, TypeOKRedemption
      <3>2. Cardinality(todo[k]) \in Nat
        BY <1>1, FS_CardinalityType DEF FiniteInv
      <3>3. Stage[run[k]] \in Nat
        BY <3>1, StageValues DEF RunStages
      <3> QED BY <3>1, <3>2, <3>3
    <2>1. ASSUME NEW a \in todo[k],
                 Expire(k, a) \/ ResolveFails(k, a) \/ PassOver(k, a) \/ AskPin(k, a)
          PROVE  Work(k)' < Work(k) /\ Work(k)' <= Work(k)
      <3>1. run[k] = "next" /\ todo'[k] = todo[k] \ {a} /\ run'[k] \in {"next", "pin"}
        BY <2>1, <2>a
        DEF Expire, ResolveFails, PassOver, AskPin, TakeUp
      <3>2. Cardinality(todo'[k]) = Cardinality(todo[k]) - 1
        BY <1>1, <3>1, OneLess DEF FiniteInv
      <3> QED BY <2>a, <3>1, <3>2, StageValues DEF Work
    <2>2. ASSUME \/ SubmissionFails(k) \/ Accept(k) \/ LoseAnswer(k) \/ Answer(k)
                 \/ Settle(k) \/ FinishSync(k) \/ EnterPin(k) \/ RefusePin(k)
          PROVE  Work(k)' < Work(k) /\ Work(k)' <= Work(k)
      <3>1. /\ todo' = todo
            /\ <<run[k], run'[k]>> \in
                 {<<"pin", "submitting">>, <<"pin", "next">>, <<"submitting", "next">>,
                  <<"submitting", "accepted">>, <<"accepted", "next">>,
                  <<"accepted", "recording">>, <<"recording", "next">>, <<"next", "idle">>}
        BY <2>2, <2>a
        DEF SubmissionFails, Accept, LoseAnswer, Answer, Settle, FinishSync, EnterPin, RefusePin,
            FailAttempt
      <3>2. Stage[run'[k]] < Stage[run[k]] /\ Stage[run'[k]] \in Nat
        BY <3>1, StageValues
      <3> QED BY <2>a, <3>1, <3>2 DEF Work
    <2>3. ASSUME RunStep(k) \/ EnterPin(k) \/ RefusePin(k)
          PROVE  Work(k)' < Work(k) /\ Work(k)' <= Work(k)
      BY <2>1, <2>2, <2>3 DEF RunStep
    <2>4. ASSUME CrashAll
          PROVE  Work(k)' <= Work(k)
      <3>1. todo'[k] = {} /\ run'[k] = "idle"
        BY <2>4 DEF CrashAll
      <3>2. Cardinality(todo'[k]) = 0
        BY <3>1, FS_EmptySet
      <3> QED BY <2>a, <3>1, <3>2, StageValues DEF Work
    <2>5. ASSUME todo'[k] = todo[k], run'[k] = run[k]
          PROVE  Work(k)' <= Work(k)
      BY <2>a, <2>5 DEF Work
    <2>6. ASSUME NEW j \in Sheets, j # k, RunStep(j) \/ EnterPin(j) \/ RefusePin(j)
          PROVE  todo'[k] = todo[k] /\ run'[k] = run[k]
      BY <2>6, <2>a
      DEF RunStep, Expire, ResolveFails, PassOver, AskPin, TakeUp, SubmissionFails, Accept,
          LoseAnswer, Answer, Settle, FinishSync, EnterPin, RefusePin, FailAttempt
    <2>7. ASSUME NEW j \in Sheets, StartSync(j)
          PROVE  todo'[k] = todo[k] /\ run'[k] = run[k]
      BY <1>1, <2>7, <2>a DEF StartSync, Busy
    <2>8. ASSUME \/ ReserveStep \/ UNCHANGED redemptionVars
                 \/ \E j \in Sheets : CloseSheet(j) \/ \E p \in Places : OpenSheet(j, p)
                 \/ \E id \in AuthIds : PassWindow(id)
          PROVE  todo'[k] = todo[k] /\ run'[k] = run[k]
      BY <2>8
      DEF ReserveStep, CloseSheet, OpenSheet, PassWindow, redemptionVars, redemption, sync
    <2>9. Work(k)' <= Work(k)
      BY <1>1, <2>3, <2>4, <2>5, <2>6, <2>7, <2>8 DEF NextRedemption
    <2> QED BY <2>3, <2>9
  <1>2. SheetTypeInv /\ FiniteInv /\ [NextRedemption]_redemptionVars => [Down]_redemptionVars
    BY <1>1
  <1> QED BY <1>2, FiniteAlways, SheetTypeAlways, PTL DEF SpecRedemption

-----------------------------------------------------------------------------
(* What is paid was signed, however sheets and screens overlap.            *)

\* Every copy of an authorization is of one that was signed; the one a run pays was
\* inside its window when the run read the clock.
SignedInv ==
  /\ queue \subseteq issued
  /\ \A s \in Screens : pend[s] \subseteq issued /\ (auth[s] # None => auth[s] \in issued)
  /\ \A k \in Sheets : /\ list[k] \subseteq issued /\ todo[k] \subseteq issued
                       /\ cur[k] # None => cur[k] \in issued /\ cur[k].id \notin asOf[k]
  /\ \A id \in AuthIds : paid[id] > 0 => \E a \in issued : a.id = id

\* Steps of the reserve: what a screen queues it has signed.
LEMMA SignedReserve ==
  ASSUME SheetTypeInv, SignedInv, ReserveStep
  PROVE  SignedInv'
  <1>a. /\ pend \in [Screens -> SUBSET Authorization]
        /\ auth \in [Screens -> Authorization \cup {None}]
        /\ UNCHANGED <<list, todo, cur, asOf, paid>>
    BY DEF SheetTypeInv, TypeInv, TypeOK, ReserveStep, sync, stellar
  <1>1. ASSUME NEW s \in Screens, NEW id \in AuthIds, Sign(s, id)
        PROVE  SignedInv'
    <2>1. /\ issued' = issued \cup {NewAuthorization(s, id)}
          /\ auth' = [auth EXCEPT ![s] = NewAuthorization(s, id)]
          /\ UNCHANGED <<queue, pend>>
      BY <1>1 DEF Sign
    <2> QED BY <1>a, <2>1 DEF SignedInv
  <1>2. ASSUME NEW s \in Screens, Enqueue(s)
        PROVE  SignedInv'
    <2>1. /\ pend' = [pend EXCEPT ![s] = @ \cup {auth[s]}] /\ queue' = pend[s] \cup {auth[s]}
          /\ UNCHANGED <<issued, auth>>
      BY <1>2 DEF Enqueue, history
    <2>2. auth[s] # None
      BY <1>2, SheetsAssumption DEF Enqueue, SheetTypeInv, TypeInv, StageOK
    <2> QED BY <1>a, <2>1, <2>2 DEF SignedInv
  <1>3. ASSUME NEW s \in Screens,
               (\E r \in Requests : OpenConfirm(s, r)) \/ Close(s) \/ Broadcast(s)
        PROVE  SignedInv'
    <2>1. /\ pend' = [pend EXCEPT ![s] = {}] /\ auth' = [auth EXCEPT ![s] = None]
          /\ UNCHANGED <<issued, queue>>
      BY <1>3 DEF OpenConfirm, Close, Broadcast, Dispose, storage, history
    <2> QED BY <1>a, <2>1 DEF SignedInv
  <1>4. ASSUME \A s \in Screens : /\ ~Enqueue(s) /\ ~Close(s) /\ ~Broadcast(s)
                                  /\ \A r \in Requests : ~OpenConfirm(s, r)
                                  /\ \A id \in AuthIds : ~Sign(s, id)
        PROVE  UNCHANGED <<queue, pend, auth, issued>>
    BY <1>4
    DEF ReserveStep, ConfirmInput, Continuation, BeginProvision, FinishProvision,
        CheckAllowance, Pay, PayRejected, RecordSpend, LeaveSigning, Lapse, storage, screen, history
  <1>5. CASE UNCHANGED <<queue, pend, auth, issued>>
    BY <1>a, <1>5 DEF SignedInv
  <1> QED BY <1>1, <1>2, <1>3, <1>4, <1>5

\* A payment is for the authorization in the hands of a run.
LEMMA PaidByRuns ==
  ASSUME SheetTypeInv, SignedInv, [NextRedemption]_redemptionVars, NEW id \in AuthIds,
         paid'[id] # paid[id]
  PROVE  \E k \in Sheets : /\ run[k] = "submitting" /\ cur[k] \in issued
                           /\ cur[k].id = id /\ id \notin asOf[k]
                           /\ paid'[id] = paid[id] + 1
  <1>1. PICK k \in Sheets : Accept(k)
    BY DEF NextRedemption, RunStep, ReserveStep, OpenSheet, CloseSheet, StartSync, Expire,
           ResolveFails, PassOver, AskPin, SubmissionFails, LoseAnswer, Answer, Settle, FinishSync,
           EnterPin, RefusePin, PassWindow, CrashAll, redemptionVars, redemption, stellar
  <1>2. run[k] = "submitting" /\ paid' = [paid EXCEPT ![cur[k].id] = @ + 1]
    BY <1>1 DEF Accept
  <1>3. cur[k] # None /\ cur[k].id \in AuthIds /\ paid \in [AuthIds -> 0..MaxPaid]
    BY <1>2, InHand DEF SheetTypeInv, TypeOKRedemption
  <1>4. cur[k].id = id /\ paid'[id] = paid[id] + 1
    BY <1>2, <1>3
  <1> QED BY <1>2, <1>3, <1>4 DEF SignedInv

LEMMA SignedStep ==
  SheetTypeInv /\ SignedInv /\ [NextRedemption]_redemptionVars => SignedInv'
  <1> SUFFICES ASSUME SheetTypeInv, SignedInv, [NextRedemption]_redemptionVars
               PROVE  SignedInv'
    OBVIOUS
  <1>a. /\ list \in [Sheets -> SUBSET Authorization] /\ todo \in [Sheets -> SUBSET Authorization]
        /\ cur \in [Sheets -> Authorization \cup {None}] /\ asOf \in [Sheets -> SUBSET AuthIds]
        /\ run \in [Sheets -> RunStages] /\ paid \in [AuthIds -> 0..MaxPaid]
        /\ \A k \in Sheets : cur[k] # None <=> run[k] \in {"pin", "submitting"} \cup Applied
    BY DEF SheetTypeInv, TypeOKRedemption
  <1> DEFINE Lists(k) ==
        /\ list'[k] \subseteq issued /\ todo'[k] \subseteq issued
        /\ cur'[k] # None => cur'[k] \in issued /\ cur'[k].id \notin asOf'[k]
  <1>1. ASSUME UNCHANGED <<issued, pend, auth>>, queue' \subseteq issued,
               \A k \in Sheets : Lists(k)
        PROVE  SignedInv'
    <2>1. \A id \in AuthIds : paid'[id] > 0 => \E a \in issued : a.id = id
      <3>1. SUFFICES ASSUME NEW id \in AuthIds, paid'[id] > 0
                     PROVE  \E a \in issued : a.id = id
        OBVIOUS
      <3>2. CASE paid'[id] = paid[id]
        BY <3>1, <3>2 DEF SignedInv
      <3>3. CASE paid'[id] # paid[id]
        BY <3>3, PaidByRuns
      <3> QED BY <3>2, <3>3
    <2> QED BY <1>1, <2>1 DEF SignedInv
  <1>2. CASE ReserveStep
    BY <1>2, SignedReserve
  <1>3. CASE CrashAll
    <2>1. /\ UNCHANGED <<issued, queue, paid>>
          /\ \A s \in Screens : pend'[s] = {} /\ auth'[s] = None
          /\ \A k \in Sheets : list'[k] = {} /\ todo'[k] = {} /\ cur'[k] = None
      BY <1>3 DEF CrashAll, Crash, storage, history
    <2> QED BY <2>1 DEF SignedInv
  <1>4. ASSUME NEW k \in Sheets, NEW a, Dequeue(k, a)
        PROVE  /\ UNCHANGED <<issued, pend, auth>> /\ queue' \subseteq issued
               /\ \A j \in Sheets : list'[j] \subseteq issued
    BY <1>4, <1>a DEF Dequeue, screen, history, SignedInv
  <1>5. ASSUME NEW k \in Sheets, NEW a \in todo[k], Expire(k, a)
        PROVE  SignedInv'
    <2>1. todo' = [todo EXCEPT ![k] = @ \ {a}] /\ UNCHANGED <<cur, asOf>>
      BY <1>5 DEF Expire, TakeUp
    <2>2. \A j \in Sheets : Lists(j)
      BY <1>4, <1>5, <1>a, <2>1 DEF Expire, SignedInv
    <2> QED BY <1>1, <1>4, <1>5, <2>2 DEF Expire
  <1>6. ASSUME NEW k \in Sheets, Settle(k)
        PROVE  SignedInv'
    <2>1. cur' = [cur EXCEPT ![k] = None] /\ UNCHANGED <<todo, asOf>>
      BY <1>6 DEF Settle
    <2>2. \A j \in Sheets : Lists(j)
      BY <1>4, <1>6, <1>a, <2>1 DEF Settle, SignedInv
    <2> QED BY <1>1, <1>4, <1>6, <2>2 DEF Settle
  <1>7. ASSUME UNCHANGED <<issued, pend, auth, queue>>, \A k \in Sheets : Lists(k)
        PROVE  SignedInv'
    BY <1>1, <1>7 DEF SignedInv
  <1>8. ASSUME NEW k \in Sheets, NEW a \in todo[k],
               ResolveFails(k, a) \/ PassOver(k, a) \/ AskPin(k, a)
        PROVE  SignedInv'
    <2>1. /\ UNCHANGED <<issued, pend, auth, queue, list, asOf>>
          /\ todo' = [todo EXCEPT ![k] = @ \ {a}] /\ a.id \notin asOf[k]
          /\ cur' = cur \/ cur' = [cur EXCEPT ![k] = a]
      BY <1>8 DEF ResolveFails, PassOver, AskPin, TakeUp, vars, storage, screen, history
    <2>2. \A j \in Sheets : Lists(j)
      BY <1>8, <1>a, <2>1 DEF SignedInv
    <2> QED BY <1>7, <2>1, <2>2
  <1>9. ASSUME NEW k \in Sheets, StartSync(k) \/ \E p \in Places : OpenSheet(k, p)
        PROVE  SignedInv'
    <2>1. /\ UNCHANGED <<issued, pend, auth, queue, cur>>
          /\ \E l \in {{}, queue, list[k]} : list' = [list EXCEPT ![k] = l]
          /\ \/ \E l \in {queue, list[k]} : todo' = [todo EXCEPT ![k] = l]
             \/ todo' = todo
          /\ run[k] = "idle" /\ \A j \in Sheets \ {k} : asOf'[j] = asOf[j]
      BY <1>9, <1>a DEF OpenSheet, StartSync, Busy, vars, storage, screen, history
    <2>2. cur[k] = None
      BY <1>a, <2>1 DEF Applied
    <2>3. \A j \in Sheets : Lists(j)
      BY <1>a, <2>1, <2>2 DEF SignedInv
    <2> QED BY <1>7, <2>1, <2>3
  <1>10. CASE \/ \E k \in Sheets : \/ SubmissionFails(k) \/ Accept(k) \/ LoseAnswer(k)
                                   \/ Answer(k) \/ FinishSync(k)
                                   \/ EnterPin(k) \/ RefusePin(k) \/ CloseSheet(k)
              \/ \E id \in AuthIds : PassWindow(id)
              \/ UNCHANGED redemptionVars
    <2>1. /\ UNCHANGED <<issued, pend, auth, queue, list, todo, asOf>>
          /\ cur' = cur \/ \E k \in Sheets : cur' = [cur EXCEPT ![k] = None]
      BY <1>10
      DEF SubmissionFails, Accept, LoseAnswer, Answer, FinishSync, EnterPin, RefusePin, FailAttempt,
          CloseSheet, PassWindow, redemptionVars, redemption, sync, vars, storage, screen, history
    <2>2. \A j \in Sheets : Lists(j)
      BY <1>a, <2>1 DEF SignedInv
    <2> QED BY <1>7, <2>1, <2>2
  <1> QED
    BY <1>2, <1>3, <1>5, <1>6, <1>8, <1>9, <1>10 DEF NextRedemption, RunStep

LEMMA SignedAlways == SpecRedemption => []SignedInv
  <1>1. InitRedemption => SignedInv
    BY DEF InitRedemption, Init, SignedInv
  <1> QED BY <1>1, SignedStep, SheetTypeAlways, PTL DEF SpecRedemption

\* Stellar is paid for nothing but authorizations the payer signed.
THEOREM PaidWasSigned ==
  SpecRedemption => [](\A id \in AuthIds : paid[id] > 0 => \E a \in issued : a.id = id)
  <1>1. SignedInv => \A id \in AuthIds : paid[id] > 0 => \E a \in issued : a.id = id
    BY DEF SignedInv
  <1> QED BY <1>1, SignedAlways, PTL

\* No run pays an authorization whose window had passed when the run read the clock;
\* and a payment is always one, of the authorization some run is submitting.
THEOREM NoneIsPaidLate ==
  SpecRedemption =>
    [][\A id \in AuthIds : paid'[id] # paid[id] =>
         \E k \in Sheets : /\ run[k] = "submitting" /\ cur[k] \in issued
                           /\ cur[k].id = id /\ id \notin asOf[k]
                           /\ paid'[id] = paid[id] + 1]_redemptionVars
  <1> DEFINE ByARun ==
        \A id \in AuthIds : paid'[id] # paid[id] =>
          \E k \in Sheets : /\ run[k] = "submitting" /\ cur[k] \in issued
                            /\ cur[k].id = id /\ id \notin asOf[k]
                            /\ paid'[id] = paid[id] + 1
  <1>1. SheetTypeInv /\ SignedInv /\ [NextRedemption]_redemptionVars => [ByARun]_redemptionVars
    BY PaidByRuns
  <1> QED BY <1>1, SignedAlways, SheetTypeAlways, PTL DEF SpecRedemption
=============================================================================
