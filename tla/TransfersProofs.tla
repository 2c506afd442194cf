--------------------------- MODULE TransfersProofs ---------------------------
(***************************************************************************)
(* Proofs about Transfers for every number of users, keys, tags, payments, *)
(* bills and handlers: who is paid, what a record says, and who is on a    *)
(* bill.                                                                   *)
(***************************************************************************)
EXTENDS Transfers, TLAPS

-----------------------------------------------------------------------------
(* The inductive invariant.                                                *)

\* What users have now is part of what they ever had, and a user who ever had
\* a key has one.
HistoryInv ==
  /\ KeysDiffer
  /\ \A u \in Users : key[u] # None => <<u, key[u]>> \in held
  /\ \A u \in Users, k \in Keys : <<u, k>> \in held => key[u] # None
  /\ \A t \in Tags : holder[t] # None => <<holder[t], t>> \in held

\* A payment is fixed when it is resolved, and its record is made from what was
\* verified on Horizon and from the row that was read.
PaymentInv ==
  /\ \A p \in Payments : payee[p] # None => stage[p] # "idle" /\ <<payee[p], dest[p]>> \in held
  /\ \A p \in Payments : record[p] # None =>
       /\ p \in ledger
       /\ record[p].to = dest[p]
       /\ <<record[p].user, record[p].from>> \in held
  /\ \A h \in Handlers : pc[h] = "verifying" /\ row[h] # None =>
       <<report[h].user, row[h]>> \in held
  /\ \A h \in Handlers : pc[h] = "recording" =>
       /\ job[h] \in horizon
       /\ dest[job[h]] = report[h].to
       /\ <<report[h].user, report[h].from>> \in held

\* The handler is creating a bill.
Billing(h) == pc[h] \in {"resolving", "adding"}

\* One handler works on a bill, and what it is about to add was what the next
\* reference stood for.
BillInv ==
  /\ \A b \in Bills : creator[b] = None =>
       asked[b] = <<>> /\ rows[b] = <<>> /\ b \notin answered
  /\ \A g, h \in Handlers : Billing(g) /\ Billing(h) /\ job[g] = job[h] => g = h
  /\ \A h \in Handlers : pc[h] = "adding" =>
       /\ ~Whole(job[h])
       /\ <<arg[h], asked[job[h]][Len(rows[job[h]]) + 1]>> \in held

TransferInv ==
  /\ TypeOK
  /\ HistoryInv
  /\ PaymentInv
  /\ BillInv
  /\ BillsNameTheirContributors
-----------------------------------------------------------------------------
(* The directory of keys.                                                  *)

\* A step of the directory keeps the types of keys, and a user who has a key
\* keeps having one.
LEMMA DirectoryStep ==
  ASSUME KeyTypeOK, DirectoryNext
  PROVE  /\ KeyTypeOK'
         /\ \/ UNCHANGED key
            \/ \E u \in Users, k \in Keys :
                 /\ key' = [key EXCEPT ![u] = k]
                 /\ \A v \in Users \ {u} : key[v] # k
  <1>1. ASSUME NEW u \in Users, NEW k \in Keys, Admit(u, k)
        PROVE  KeyTypeOK' /\ UNCHANGED key
    BY <1>1 DEF Admit, KeyTypeOK
  <1>2. ASSUME NEW u \in Users, NEW k \in Keys, Register(u, k)
        PROVE  KeyTypeOK' /\ key' = [key EXCEPT ![u] = k] /\ \A v \in Users \ {u} : key[v] # k
    BY <1>2 DEF Register, KeyTypeOK
  <1>3. ASSUME Forget
        PROVE  KeyTypeOK' /\ UNCHANGED key
    BY <1>3 DEF Forget, KeyTypeOK
  <1> QED BY <1>1, <1>2, <1>3 DEF DirectoryNext

LEMMA OwnerHasKey ==
  ASSUME NEW k \in Keys, OwnerOfKey(k) # None
  PROVE  OwnerOfKey(k) \in Users /\ key[OwnerOfKey(k)] = k
  BY DEF OwnerOfKey

\* Keys are immutable once no other request is under way, whatever payments
\* and bills do meanwhile.
THEOREM KeysAreForever == Spec => KeyIsForever
  <1>1. ASSUME NEW u \in Users, NEW v \in Users, NEW k \in Keys, Settled(u),
               KeyTypeOK, Admit(v, k) \/ Register(v, k)
        PROVE  key'[u] = key[u] /\ Settled(u)'
    BY <1>1 DEF Settled, Admit, Register, KeyTypeOK
  <1>2. ASSUME NEW u \in Users, Settled(u), Forget
        PROVE  key'[u] = key[u] /\ Settled(u)'
    BY <1>2 DEF Settled, Forget
  <1>3. ASSUME NEW u \in Users, Settled(u), UNCHANGED directory
        PROVE  key'[u] = key[u] /\ Settled(u)'
    BY <1>3 DEF Settled, directory
  <1>4. [Next]_vars => DirectoryNext \/ UNCHANGED directory
    BY DEF Next, KeyStep, RegisterPayTag, ResolveTag, ResolveKey, DecodeQr, Resolve, Cancel, Submit,
      Ingest, BeginRecord, Verify, RejectReport, Record, AlreadyRecorded, BeginBill,
      FindContributor, AddContributor, BillRefused, AnswerBill, Restart, vars
  <1>5. KeyTypeOK /\ [Next]_vars => KeyTypeOK'
    BY <1>4, DirectoryStep DEF KeyTypeOK, directory
  <1>6. Init => KeyTypeOK
    BY DEF Init, NoKeys, KeyTypeOK
  <1>7. KeyTypeOK /\ [Next]_vars =>
          [\A u \in Users : Settled(u) => key'[u] = key[u] /\ Settled(u)']_directory
    BY <1>1, <1>2, <1>3, <1>4 DEF DirectoryNext
  <1> QED BY <1>5, <1>6, <1>7, PTL DEF Spec, KeyIsForever

-----------------------------------------------------------------------------
(* Types.                                                                  *)

LEMMA TypeInit == Init => TypeOK
  BY NoneAssumption DEF Init, NoKeys, TypeOK, KeyTypeOK

\* How far a handler may be with a bill is what types rest on.
WithinBill == \A b \in Bills : Len(rows[b]) <= Len(asked[b])

LEMMA TypeStep == TypeOK /\ WithinBill /\ [Next]_vars => TypeOK'
  <1> SUFFICES ASSUME TypeOK, WithinBill, [Next]_vars
               PROVE  TypeOK'
    OBVIOUS
  <1> USE NoneAssumption
  <1> USE DEF TypeOK
  <1>1. CASE KeyStep
    <2>1. KeyTypeOK'
      BY <1>1, DirectoryStep DEF KeyStep
    <2>2. held' \subseteq Users \X References
      BY <1>1, <2>1 DEF KeyStep, KeyTypeOK, References
    <2> QED BY <1>1, <2>1, <2>2 DEF KeyStep, payment, chain, bill, handler
  <1>2. ASSUME NEW u \in Users, NEW t \in Tags, RegisterPayTag(u, t)
        PROVE  TypeOK'
    BY <1>2 DEF RegisterPayTag, payment, chain, bill, handler, directory, KeyTypeOK, References
  <1>3. ASSUME NEW p \in Payments, NEW v \in Users \cup {None}, NEW k \in Keys,
               Resolve(p, v, k)
        PROVE  TypeOK'
    <2>1. /\ stage' = [stage EXCEPT ![p] = "resolved"]
          /\ dest' = [dest EXCEPT ![p] = k] /\ payee' = [payee EXCEPT ![p] = v]
          /\ UNCHANGED <<directory, holder, ledger, horizon, record, creator, asked, rows,
                         answered, pc, job, report, arg, row, held>>
      BY <1>3 DEF Resolve, chain, bill, handler
    <2>2. \A q \in Payments : /\ stage'[q] = "idle" => q \notin ledger
                              /\ stage'[q] # "idle" => dest'[q] \in Keys
      BY <2>1
    <2> QED BY <2>1, <2>2 DEF directory, KeyTypeOK
  <1>4. ASSUME NEW p \in Payments, Cancel(p) \/ Submit(p)
        PROVE  TypeOK'
    <2>1. /\ stage[p] = "resolved" /\ stage' = [stage EXCEPT ![p] = "over"]
          /\ ledger' \in {ledger, ledger \cup {p}}
          /\ UNCHANGED <<directory, holder, dest, payee, horizon, record, creator, asked, rows,
                         answered, pc, job, report, arg, row, held>>
      BY <1>4 DEF Cancel, Submit, chain, bill, handler
    <2>2. \A q \in Payments : /\ stage'[q] = "idle" => q \notin ledger'
                              /\ stage'[q] # "idle" => dest[q] \in Keys
      BY <2>1
    <2> QED BY <2>1, <2>2 DEF directory, KeyTypeOK
  <1>5. CASE Ingest
    BY <1>5 DEF Ingest, payment, bill, handler, directory, KeyTypeOK
  <1>6. ASSUME NEW h \in Handlers, NEW p \in Payments, NEW said \in Reports,
               BeginRecord(h, p, said)
        PROVE  TypeOK'
    <2>1. said \in TransferRecord /\ key[said.user] \in Keys \cup {None}
      BY <1>6, ReportsAssumption DEF TransferRecord, KeyTypeOK
    <2> QED BY <1>6, <2>1 DEF BeginRecord, Begin, payment, chain, bill, directory, KeyTypeOK
  <1>7. ASSUME NEW h \in Handlers, Verify(h)
        PROVE  TypeOK'
    BY <1>7 DEF Verify, payment, chain, bill, directory, KeyTypeOK
  <1>8. ASSUME NEW h \in Handlers, RejectReport(h) \/ AlreadyRecorded(h) \/ BillRefused(h)
        PROVE  TypeOK'
    <2>1. Finish(h) /\ UNCHANGED <<directory, holder, payment, chain, record, bill, held>>
      BY <1>8 DEF RejectReport, AlreadyRecorded, BillRefused
    <2> QED BY <2>1 DEF Finish, payment, chain, bill, directory, KeyTypeOK
  <1>9. ASSUME NEW h \in Handlers, Record(h)
        PROVE  TypeOK'
    BY <1>9 DEF Record, Finish, payment, chain, bill, directory, KeyTypeOK
  <1>10. ASSUME NEW h \in Handlers, NEW u \in Users, NEW b \in Bills, NEW list \in Lists,
                BeginBill(h, u, b, list)
         PROVE  TypeOK'
    BY <1>10, ListsAssumption DEF BeginBill, Begin, payment, chain, directory, KeyTypeOK
  <1>11. ASSUME NEW h \in Handlers, FindContributor(h)
         PROVE  TypeOK'
    <2>1. NextContributor(job[h]) \in Users
      <3> DEFINE b == job[h]
      <3> DEFINE ref == asked[b][Len(rows[b]) + 1]
      <3>1. ref \in References
        BY <1>11 DEF FindContributor, WithinBill, Whole
      <3>2. CASE ref \in Tags
        BY <1>11, <3>2 DEF FindContributor, NextContributor
      <3>3. CASE ref \in Keys /\ ref \notin Tags
        BY <1>11, <3>3, OwnerHasKey DEF FindContributor, NextContributor
      <3> QED BY <3>1, <3>2, <3>3 DEF References
    <2> QED BY <1>11, <2>1 DEF FindContributor, payment, chain, bill, directory, KeyTypeOK
  <1>12. ASSUME NEW h \in Handlers, AddContributor(h)
         PROVE  TypeOK'
    BY <1>12 DEF AddContributor, payment, chain, directory, KeyTypeOK
  <1>13. ASSUME NEW h \in Handlers, AnswerBill(h)
         PROVE  TypeOK'
    BY <1>13 DEF AnswerBill, Finish, payment, chain, directory, KeyTypeOK
  <1>14. CASE Restart
    BY <1>14 DEF Restart, payment, chain, bill, directory, KeyTypeOK
  <1>15. CASE UNCHANGED vars
    BY <1>15 DEF vars, payment, chain, bill, handler, directory, KeyTypeOK
  <1>16. ASSUME NEW p \in Payments, NEW t \in Tags, ResolveTag(p, t)
         PROVE  TypeOK'
    <2>1. holder[t] \in Users /\ key[holder[t]] \in Keys
      BY <1>16 DEF ResolveTag, KeyTypeOK
    <2> QED BY <1>3, <1>16, <2>1 DEF ResolveTag
  <1>17. ASSUME NEW p \in Payments, NEW k \in Keys, ResolveKey(p, k)
         PROVE  TypeOK'
    BY <1>3, <1>17, OwnerHasKey DEF ResolveKey
  <1>18. ASSUME NEW p \in Payments, NEW v \in Users, NEW k \in Keys, DecodeQr(p, v, k)
         PROVE  TypeOK'
    BY <1>3, <1>18 DEF DecodeQr, Signed
  <1> HIDE DEF TypeOK
  <1> QED
    BY <1>1, <1>2, <1>4, <1>5, <1>6, <1>7, <1>8, <1>9, <1>10, <1>11, <1>12, <1>13, <1>14, <1>15,
      <1>16, <1>17, <1>18
    DEF Next

-----------------------------------------------------------------------------
(* History.                                                                *)

LEMMA HistoryInit == Init => HistoryInv
  BY DEF Init, NoKeys, HistoryInv, KeysDiffer

LEMMA HistoryStep ==
  TypeOK /\ HistoryInv /\ [Next]_vars => HistoryInv' /\ held \subseteq held'
  <1> SUFFICES ASSUME TypeOK, HistoryInv, [Next]_vars
               PROVE  HistoryInv' /\ held \subseteq held'
    OBVIOUS
  <1> USE NoneAssumption DEF HistoryInv, KeysDiffer
  <1>1. CASE KeyStep
    <2>1. /\ held' = held \cup {<<u, key'[u]>> : u \in {v \in Users : key'[v] # None}}
          /\ UNCHANGED holder
      BY <1>1 DEF KeyStep
    <2>2. KeyTypeOK /\ key \in [Users -> Keys \cup {None}]
      BY DEF TypeOK, KeyTypeOK
    <2>3. CASE UNCHANGED key
      BY <2>1, <2>2, <2>3
    <2>4. ASSUME NEW u \in Users, NEW k \in Keys, key' = [key EXCEPT ![u] = k],
                 \A v \in Users \ {u} : key[v] # k
          PROVE  HistoryInv' /\ held \subseteq held'
      BY <2>1, <2>2, <2>4
    <2> QED BY <1>1, <2>2, <2>3, <2>4, DirectoryStep DEF KeyStep
  <1>2. ASSUME NEW u \in Users, NEW t \in Tags, RegisterPayTag(u, t)
        PROVE  HistoryInv' /\ held \subseteq held'
    <2>1. /\ held' = held \cup {<<u, t>>} /\ UNCHANGED key
          /\ holder' = [s \in Tags |->
                          IF s = t THEN u ELSE IF holder[s] = u THEN None ELSE holder[s]]
      BY <1>2 DEF RegisterPayTag, directory
    <2> QED BY <2>1, ReferencesAssumption
  <1>3. CASE UNCHANGED <<key, holder, held>>
    BY <1>3
  <1>4. \/ KeyStep
        \/ \E u \in Users, t \in Tags : RegisterPayTag(u, t)
        \/ UNCHANGED <<key, holder, held>>
    BY DEF Next, ResolveTag, ResolveKey, DecodeQr, Resolve, Cancel, Submit, Ingest, BeginRecord, Verify,
      RejectReport, Record, AlreadyRecorded, BeginBill, FindContributor, AddContributor,
      BillRefused, AnswerBill, Restart, vars, directory
  <1> QED BY <1>1, <1>2, <1>3, <1>4

-----------------------------------------------------------------------------
(* Payments.                                                               *)

LEMMA PaymentInit == Init => PaymentInv
  BY DEF Init, PaymentInv

LEMMA PaymentStep ==
  TypeOK /\ HistoryInv /\ PaymentInv /\ [Next]_vars => PaymentInv'
  <1> SUFFICES ASSUME TypeOK, HistoryInv, PaymentInv, [Next]_vars
               PROVE  PaymentInv'
    OBVIOUS
  <1> USE NoneAssumption DEF PaymentInv
  <1>0. held \subseteq held'
    BY HistoryStep
  <1>1. ASSUME NEW p \in Payments, NEW v \in Users \cup {None}, NEW k \in Keys,
               Resolve(p, v, k), v # None => <<v, k>> \in held
        PROVE  PaymentInv'
    <2>1. p \notin ledger /\ horizon \subseteq ledger
      BY <1>1 DEF Resolve, TypeOK
    <2>2. /\ UNCHANGED <<ledger, horizon, record, pc, job, report, row, held>>
          /\ stage' = [stage EXCEPT ![p] = "resolved"]
          /\ dest' = [dest EXCEPT ![p] = k] /\ payee' = [payee EXCEPT ![p] = v]
      BY <1>1 DEF Resolve, chain, handler
    <2>3. \A q \in Payments : payee'[q] # None =>
            stage'[q] # "idle" /\ <<payee'[q], dest'[q]>> \in held
      BY <1>1, <2>2 DEF TypeOK
    <2>4. \A q \in ledger : dest'[q] = dest[q]
      BY <2>1, <2>2 DEF TypeOK
    <2> QED BY <2>1, <2>2, <2>3, <2>4
  <1>2. ASSUME NEW p \in Payments, NEW t \in Tags, ResolveTag(p, t)
        PROVE  PaymentInv'
    <2>1. holder[t] \in Users /\ key[holder[t]] \in Keys /\ <<holder[t], key[holder[t]]>> \in held
      BY <1>2 DEF ResolveTag, TypeOK, KeyTypeOK, HistoryInv
    <2> QED BY <1>1, <1>2, <2>1 DEF ResolveTag
  <1>3. ASSUME NEW p \in Payments, NEW k \in Keys, ResolveKey(p, k)
        PROVE  PaymentInv'
    <2>1. OwnerOfKey(k) # None => OwnerOfKey(k) \in Users /\ <<OwnerOfKey(k), k>> \in held
      BY OwnerHasKey DEF HistoryInv
    <2> QED BY <1>1, <1>3, <2>1 DEF ResolveKey
  <1>4. ASSUME NEW p \in Payments, NEW v \in Users, NEW k \in Keys, DecodeQr(p, v, k)
        PROVE  PaymentInv'
    BY <1>1, <1>4 DEF DecodeQr, Signed
  <1>5. ASSUME NEW p \in Payments, Cancel(p) \/ Submit(p)
        PROVE  PaymentInv'
    <2>1. /\ stage' = [stage EXCEPT ![p] = "over"]
          /\ UNCHANGED <<dest, payee, horizon, record, pc, job, report, row, held>>
          /\ ledger \subseteq ledger'
      BY <1>5 DEF Cancel, Submit, chain, handler
    <2>2. \A q \in Payments : stage[q] # "idle" => stage'[q] # "idle"
      BY <2>1 DEF TypeOK
    <2> QED BY <2>1, <2>2
  <1>6. CASE Ingest
    BY <1>6 DEF Ingest, payment, handler, TypeOK
  <1>7. ASSUME NEW h \in Handlers, Verify(h)
        PROVE  PaymentInv'
    BY <1>7 DEF Verify, Verified, OwnSource, payment, chain, TypeOK, TransferRecord
  <1>8. ASSUME NEW h \in Handlers, NEW p \in Payments, NEW said \in Reports,
               BeginRecord(h, p, said)
        PROVE  PaymentInv'
    <2>1. said \in TransferRecord /\ said.user \in Users
      BY ReportsAssumption DEF TransferRecord
    <2>2. key[said.user] # None => <<said.user, key[said.user]>> \in held
      BY <2>1 DEF HistoryInv
    <2>3. /\ pc' = [pc EXCEPT ![h] = "verifying"] /\ job' = [job EXCEPT ![h] = p]
          /\ report' = [report EXCEPT ![h] = said]
          /\ row' = [row EXCEPT ![h] = key[said.user]]
          /\ UNCHANGED <<stage, dest, payee, ledger, horizon, record, held>>
      BY <1>8 DEF BeginRecord, Begin, payment, chain
    <2>4. \A g \in Handlers \ {h} : /\ pc'[g] = pc[g] /\ job'[g] = job[g]
                                     /\ report'[g] = report[g] /\ row'[g] = row[g]
      BY <2>3 DEF TypeOK
    <2>5. pc'[h] = "verifying" /\ report'[h] = said /\ row'[h] = key[said.user]
      BY <2>3 DEF TypeOK
    <2> QED BY <2>2, <2>3, <2>4, <2>5
  <1>9. ASSUME NEW h \in Handlers, Record(h)
        PROVE  PaymentInv'
    <2>1. /\ pc[h] = "recording" /\ job[h] \in Payments /\ job[h] \in ledger
          /\ record' = [record EXCEPT ![job[h]] = report[h]]
          /\ UNCHANGED <<payment, chain, held>> /\ Finish(h)
      BY <1>9 DEF Record, TypeOK
    <2> QED BY <2>1 DEF Finish, payment, chain, TypeOK
  <1>10. ASSUME UNCHANGED <<payment, chain, record>>,
                \A h \in Handlers : pc'[h] \in {"verifying", "recording"} =>
                  /\ pc'[h] = pc[h] /\ job'[h] = job[h]
                  /\ report'[h] = report[h] /\ row'[h] = row[h]
         PROVE  PaymentInv'
    BY <1>0, <1>10 DEF payment, chain
  <1>11. ASSUME NEW h \in Handlers,
                \/ \E u \in Users, b \in Bills, list \in Lists : BeginBill(h, u, b, list)
                \/ RejectReport(h) \/ AlreadyRecorded(h)
                \/ FindContributor(h) \/ AddContributor(h) \/ BillRefused(h) \/ AnswerBill(h)
         PROVE  PaymentInv'
    <2>1. UNCHANGED <<payment, chain, record>>
      BY <1>11 DEF RejectReport, AlreadyRecorded, BeginBill, FindContributor, AddContributor,
        BillRefused, AnswerBill
    <2>2. \A g \in Handlers : pc'[g] \in {"verifying", "recording"} =>
            /\ pc'[g] = pc[g] /\ job'[g] = job[g]
            /\ report'[g] = report[g] /\ row'[g] = row[g]
      <3>1. CASE \E u \in Users, b \in Bills, list \in Lists : BeginBill(h, u, b, list)
        BY <3>1 DEF BeginBill, Begin, TypeOK
      <3>2. CASE Finish(h)
        BY <3>2 DEF Finish, TypeOK
      <3>3. CASE FindContributor(h) \/ AddContributor(h)
        BY <3>3 DEF FindContributor, AddContributor, TypeOK
      <3>4. RejectReport(h) \/ AlreadyRecorded(h) \/ BillRefused(h) \/ AnswerBill(h) => Finish(h)
        BY DEF RejectReport, AlreadyRecorded, BillRefused, AnswerBill
      <3> QED BY <1>11, <3>1, <3>2, <3>3, <3>4
    <2> QED BY <1>10, <2>1, <2>2
  <1>12. CASE KeyStep \/ (\E u \in Users, t \in Tags : RegisterPayTag(u, t))
    BY <1>10, <1>12 DEF KeyStep, RegisterPayTag, handler
  <1>13. CASE Restart \/ UNCHANGED vars
    BY <1>10, <1>13 DEF Restart, vars, handler
  <1> HIDE DEF PaymentInv
  <1> QED
    BY <1>2, <1>3, <1>4, <1>5, <1>6, <1>7, <1>8, <1>9, <1>11, <1>12, <1>13 DEF Next

-----------------------------------------------------------------------------
(* Bills.                                                                  *)

BillsHold == BillInv /\ BillsNameTheirContributors

LEMMA BillInit == Init => BillsHold
  BY DEF Init, BillsHold, BillInv, Billing, BillsNameTheirContributors, Whole

\* What does not touch bills, and adds no handler that works on one, keeps
\* the invariant.
LEMMA BillQuiet ==
  ASSUME TypeOK, BillsHold, UNCHANGED bill, held \subseteq held',
         \A h \in Handlers : Billing(h)' =>
           pc'[h] = pc[h] /\ job'[h] = job[h] /\ arg'[h] = arg[h]
  PROVE  BillsHold'
  <1>1. \A h \in Handlers : Billing(h)' => Billing(h)
    BY DEF Billing
  <1>2. \A b \in Bills : Whole(b)' = Whole(b)
    BY DEF Whole, bill
  <1>3. UNCHANGED <<creator, asked, rows, answered>>
    BY DEF bill
  <1>4. BillsNameTheirContributors'
    BY <1>2, <1>3 DEF BillsHold, BillsNameTheirContributors
  <1>5. \A h \in Handlers : pc'[h] = "adding" =>
          /\ pc[h] = "adding" /\ job'[h] = job[h] /\ arg'[h] = arg[h] /\ job[h] \in Bills
    BY DEF Billing, TypeOK
  <1>6. \A h \in Handlers : pc'[h] = "adding" =>
          /\ Len(rows'[job'[h]]) # Len(asked'[job'[h]])
          /\ <<arg'[h], asked'[job'[h]][Len(rows'[job'[h]]) + 1]>> \in held'
    BY <1>3, <1>5 DEF BillsHold, BillInv, Whole
  <1>7. \A g, h \in Handlers : Billing(g)' /\ Billing(h)' /\ job'[g] = job'[h] => g = h
    BY <1>1 DEF BillsHold, BillInv
  <1>8. \A b \in Bills : creator'[b] = None =>
          asked'[b] = <<>> /\ rows'[b] = <<>> /\ b \notin answered'
    BY <1>3 DEF BillsHold, BillInv
  <1> QED BY <1>4, <1>6, <1>7, <1>8 DEF BillsHold, BillInv, Whole

LEMMA BeginBillStep ==
  ASSUME TypeOK, BillsHold,
         NEW h \in Handlers, NEW u \in Users, NEW b \in Bills, NEW list \in Lists,
         BeginBill(h, u, b, list)
  PROVE  BillsHold'
  <1> USE NoneAssumption DEF BillsHold
  <1>1. /\ creator[b] = None /\ asked[b] = <<>> /\ rows[b] = <<>> /\ b \notin answered
        /\ creator' = [creator EXCEPT ![b] = u] /\ asked' = [asked EXCEPT ![b] = list]
        /\ pc' = [pc EXCEPT ![h] = "resolving"] /\ job' = [job EXCEPT ![h] = b]
        /\ arg' = [arg EXCEPT ![h] = None]
        /\ UNCHANGED <<rows, answered, held>>
    BY DEF BeginBill, Begin, BillInv
  <1>2. list \in Seq(References) /\ Len(list) > 0 /\ Len(list) \in Nat
    BY ListsAssumption
  <1>3. BillsNameTheirContributors'
    BY <1>1, <1>2 DEF BillsNameTheirContributors, Whole, TypeOK
  <1>4. \A g \in Handlers \ {h} : /\ pc'[g] = pc[g] /\ job'[g] = job[g] /\ arg'[g] = arg[g]
                                  /\ Billing(g) => job[g] \in Bills \ {b}
    BY <1>1 DEF TypeOK, Billing
  <1>5. \A g \in Handlers : pc'[g] = "adding" =>
          /\ Len(rows'[job'[g]]) # Len(asked'[job'[g]])
          /\ <<arg'[g], asked'[job'[g]][Len(rows'[job'[g]]) + 1]>> \in held'
    <2> SUFFICES ASSUME NEW g \in Handlers, pc'[g] = "adding"
                 PROVE  /\ Len(rows'[job'[g]]) # Len(asked'[job'[g]])
                        /\ <<arg'[g], asked'[job'[g]][Len(rows'[job'[g]]) + 1]>> \in held'
      OBVIOUS
    <2>1. g # h
      BY <1>1 DEF TypeOK
    <2>2. pc[g] = "adding" /\ job'[g] = job[g] /\ arg'[g] = arg[g] /\ job[g] \in Bills \ {b}
      BY <1>4, <2>1 DEF Billing
    <2>3. asked'[job[g]] = asked[job[g]] /\ rows'[job[g]] = rows[job[g]] /\ held' = held
      BY <1>1, <2>2 DEF TypeOK
    <2>4. /\ Len(rows[job[g]]) # Len(asked[job[g]])
          /\ <<arg[g], asked[job[g]][Len(rows[job[g]]) + 1]>> \in held
      BY <2>2 DEF BillInv, Whole
    <2> QED BY <2>2, <2>3, <2>4
  <1>6. \A f, g \in Handlers : Billing(f)' /\ Billing(g)' /\ job'[f] = job'[g] => f = g
    BY <1>1, <1>4 DEF BillInv, Billing, TypeOK
  <1>7. \A c \in Bills : creator'[c] = None =>
          asked'[c] = <<>> /\ rows'[c] = <<>> /\ c \notin answered'
    BY <1>1 DEF BillInv, TypeOK
  <1> QED BY <1>3, <1>5, <1>6, <1>7 DEF BillInv, Whole

LEMMA FindStep ==
  ASSUME TypeOK, HistoryInv, BillsHold, NEW h \in Handlers, FindContributor(h)
  PROVE  BillsHold'
  <1> USE NoneAssumption DEF BillsHold
  <1> DEFINE ref == asked[job[h]][Len(rows[job[h]]) + 1]
  <1>1. /\ pc[h] = "resolving" /\ job[h] \in Bills /\ ~Whole(job[h])
        /\ pc' = [pc EXCEPT ![h] = "adding"]
        /\ arg' = [arg EXCEPT ![h] = NextContributor(job[h])]
        /\ NextContributor(job[h]) # None
        /\ UNCHANGED <<creator, asked, rows, answered, job, held>>
    BY DEF FindContributor, TypeOK, bill
  <1>2. <<NextContributor(job[h]), ref>> \in held
    <2>1. ref \in References
      BY <1>1 DEF BillsNameTheirContributors, Whole, TypeOK
    <2>2. CASE ref \in Tags
      BY <1>1, <2>2 DEF NextContributor, HistoryInv
    <2>3. CASE ref \in Keys /\ ref \notin Tags
      <3>1. NextContributor(job[h]) = OwnerOfKey(ref)
        BY <2>3 DEF NextContributor
      <3> QED BY <1>1, <2>3, <3>1, OwnerHasKey DEF HistoryInv
    <2> QED BY <2>1, <2>2, <2>3 DEF References
  <1>3. BillsNameTheirContributors'
    BY <1>1 DEF BillsNameTheirContributors, Whole
  <1>4. \A g \in Handlers : Billing(g)' => Billing(g)
    BY <1>1 DEF Billing, TypeOK
  <1>5. \A g \in Handlers : pc'[g] = "adding" =>
          /\ Len(rows'[job'[g]]) # Len(asked'[job'[g]])
          /\ <<arg'[g], asked'[job'[g]][Len(rows'[job'[g]]) + 1]>> \in held'
    BY <1>1, <1>2 DEF BillInv, Whole, TypeOK
  <1>6. \A f, g \in Handlers : Billing(f)' /\ Billing(g)' /\ job'[f] = job'[g] => f = g
    BY <1>1, <1>4 DEF BillInv
  <1>7. \A c \in Bills : creator'[c] = None =>
          asked'[c] = <<>> /\ rows'[c] = <<>> /\ c \notin answered'
    BY <1>1 DEF BillInv
  <1> QED BY <1>3, <1>5, <1>6, <1>7 DEF BillInv, Whole

LEMMA AddStep ==
  ASSUME TypeOK, BillsHold, NEW h \in Handlers, AddContributor(h), NEW b, b = job[h],
         NEW u, u = arg[h]
  PROVE  BillsHold'
  <1> USE NoneAssumption DEF BillsHold
  <1>1. /\ pc[h] = "adding" /\ b \in Bills /\ creator[b] # None /\ ~Whole(b) /\ u \in Users
        /\ <<u, asked[b][Len(rows[b]) + 1]>> \in held
        /\ \A i \in 1..Len(rows[b]) : rows[b][i] # u
        /\ rows' = [rows EXCEPT ![b] = Append(@, u)]
        /\ pc' = [pc EXCEPT ![h] = "resolving"]
        /\ arg' = [arg EXCEPT ![h] = None]
        /\ UNCHANGED <<creator, asked, answered, job, held>>
    BY DEF AddContributor, Twice, BillInv, TypeOK
  <1>2. /\ rows[b] \in Seq(Users) /\ asked[b] \in Seq(References) /\ Len(rows[b]) < Len(asked[b])
        /\ Len(rows[b]) \in Nat /\ Len(asked[b]) \in Nat
    BY <1>1 DEF TypeOK, BillsNameTheirContributors, Whole
  <1>3. /\ rows'[b] = Append(rows[b], u) /\ Len(rows'[b]) = Len(rows[b]) + 1
        /\ rows'[b][Len(rows[b]) + 1] = u
        /\ \A i \in 1..Len(rows[b]) : rows'[b][i] = rows[b][i]
        /\ \A c \in Bills \ {b} : rows'[c] = rows[c]
    BY <1>1, <1>2 DEF TypeOK
  <1>4. b \notin answered
    BY <1>1 DEF BillsNameTheirContributors
  <1>5. BillsNameTheirContributors'
    <2> SUFFICES ASSUME NEW c \in Bills
                 PROVE  /\ Len(rows'[c]) <= Len(asked'[c])
                        /\ \A i \in 1..Len(rows'[c]) : <<rows'[c][i], asked'[c][i]>> \in held'
                        /\ \A i, j \in 1..Len(rows'[c]) : rows'[c][i] = rows'[c][j] => i = j
                        /\ c \in answered' => Len(rows'[c]) = Len(asked'[c])
      BY DEF BillsNameTheirContributors, Whole
    <2>1. CASE c # b
      BY <1>1, <1>3, <2>1 DEF BillsNameTheirContributors, Whole
    <2>2. CASE c = b
      <3>1. Len(rows'[b]) <= Len(asked'[b])
        BY <1>1, <1>2, <1>3
      <3>2. \A i \in 1..Len(rows'[b]) : i \in 1..Len(rows[b]) \/ i = Len(rows[b]) + 1
        BY <1>2, <1>3
      <3>3. \A i \in 1..Len(rows'[b]) : <<rows'[b][i], asked'[b][i]>> \in held'
        BY <1>1, <1>3, <3>2 DEF BillsNameTheirContributors
      <3>4. \A i, j \in 1..Len(rows'[b]) : rows'[b][i] = rows'[b][j] => i = j
        BY <1>1, <1>3, <3>2 DEF BillsNameTheirContributors
      <3> QED BY <1>1, <1>4, <2>2, <3>1, <3>3, <3>4
    <2> QED BY <2>1, <2>2
  <1>6. \A g \in Handlers \ {h} : /\ pc'[g] = pc[g] /\ arg'[g] = arg[g]
                                  /\ Billing(g) => job[g] \in Bills \ {b}
    BY <1>1 DEF BillInv, Billing, TypeOK
  <1>7. \A g \in Handlers : pc'[g] = "adding" =>
          /\ Len(rows'[job'[g]]) # Len(asked'[job'[g]])
          /\ <<arg'[g], asked'[job'[g]][Len(rows'[job'[g]]) + 1]>> \in held'
    <2> SUFFICES ASSUME NEW g \in Handlers, pc'[g] = "adding"
                 PROVE  /\ Len(rows'[job'[g]]) # Len(asked'[job'[g]])
                        /\ <<arg'[g], asked'[job'[g]][Len(rows'[job'[g]]) + 1]>> \in held'
      OBVIOUS
    <2>1. g # h
      BY <1>1 DEF TypeOK
    <2>2. pc[g] = "adding" /\ arg'[g] = arg[g] /\ job[g] \in Bills \ {b}
      BY <1>6, <2>1 DEF Billing
    <2>3. /\ asked' = asked /\ job' = job /\ held' = held /\ rows'[job[g]] = rows[job[g]]
      BY <1>1, <1>3, <2>2
    <2>4. /\ Len(rows[job[g]]) # Len(asked[job[g]])
          /\ <<arg[g], asked[job[g]][Len(rows[job[g]]) + 1]>> \in held
      BY <2>2 DEF BillInv, Whole
    <2> QED BY <2>2, <2>3, <2>4
  <1>8. \A g \in Handlers : Billing(g)' => Billing(g)
    BY <1>1 DEF Billing, TypeOK
  <1>9. \A f, g \in Handlers : Billing(f)' /\ Billing(g)' /\ job'[f] = job'[g] => f = g
    BY <1>1, <1>8 DEF BillInv
  <1>10. \A c \in Bills : creator'[c] = None =>
           asked'[c] = <<>> /\ rows'[c] = <<>> /\ c \notin answered'
    BY <1>1, <1>3 DEF BillInv
  <1> QED BY <1>5, <1>7, <1>9, <1>10 DEF BillInv, Whole

LEMMA BillStep ==
  TypeOK /\ HistoryInv /\ BillsHold /\ [Next]_vars => BillsHold'
  <1> SUFFICES ASSUME TypeOK, HistoryInv, BillsHold, [Next]_vars
               PROVE  BillsHold'
    OBVIOUS
  <1>0. held \subseteq held'
    BY HistoryStep
  <1>1. ASSUME NEW h \in Handlers, UNCHANGED bill, ~Billing(h)' \/ UNCHANGED <<pc, job, arg>>,
               \A g \in Handlers \ {h} : pc'[g] = pc[g] /\ job'[g] = job[g] /\ arg'[g] = arg[g]
        PROVE  BillsHold'
    BY <1>0, <1>1, BillQuiet
  <1>2. ASSUME NEW h \in Handlers,
               \/ \E p \in Payments, said \in Reports : BeginRecord(h, p, said)
               \/ Verify(h) \/ RejectReport(h) \/ Record(h) \/ AlreadyRecorded(h) \/ BillRefused(h)
        PROVE  BillsHold'
    <2>1. UNCHANGED bill
      BY <1>2 DEF BeginRecord, Verify, RejectReport, Record, AlreadyRecorded, BillRefused
    <2>2. ASSUME NEW p \in Payments, NEW said \in Reports, BeginRecord(h, p, said)
          PROVE  BillsHold'
      BY <1>1, <2>1, <2>2 DEF BeginRecord, Begin, Billing, TypeOK
    <2>3. CASE Finish(h)
      BY <1>1, <2>1, <2>3 DEF Finish, Billing, TypeOK
    <2>4. CASE Verify(h)
      BY <1>1, <2>1, <2>4 DEF Verify, Billing, TypeOK
    <2>5. RejectReport(h) \/ Record(h) \/ AlreadyRecorded(h) \/ BillRefused(h) => Finish(h)
      BY DEF RejectReport, Record, AlreadyRecorded, BillRefused
    <2> QED BY <1>2, <2>2, <2>3, <2>4, <2>5
  <1>3. ASSUME NEW h \in Handlers, AnswerBill(h)
        PROVE  BillsHold'
    <2>1. /\ job[h] \in Bills /\ creator[job[h]] # None /\ Whole(job[h])
          /\ answered' = answered \cup {job[h]} /\ UNCHANGED <<creator, asked, rows, held>>
          /\ pc' = [pc EXCEPT ![h] = "free"] /\ job' = [job EXCEPT ![h] = None]
          /\ arg' = [arg EXCEPT ![h] = None]
      BY <1>3, NoneAssumption DEF AnswerBill, Finish, TypeOK
    <2>2. BillsNameTheirContributors'
      BY <2>1 DEF BillsHold, BillsNameTheirContributors, Whole
    <2>3. \A g \in Handlers : Billing(g)' =>
            Billing(g) /\ pc'[g] = pc[g] /\ job'[g] = job[g] /\ arg'[g] = arg[g]
      BY <2>1 DEF Billing, TypeOK
    <2>4. \A g \in Handlers : pc'[g] = "adding" =>
            /\ Len(rows'[job'[g]]) # Len(asked'[job'[g]])
            /\ <<arg'[g], asked'[job'[g]][Len(rows'[job'[g]]) + 1]>> \in held'
      BY <2>1, <2>3 DEF BillsHold, BillInv, Whole, Billing
    <2>5. \A f, g \in Handlers : Billing(f)' /\ Billing(g)' /\ job'[f] = job'[g] => f = g
      BY <2>3 DEF BillsHold, BillInv
    <2>6. \A c \in Bills : creator'[c] = None =>
            asked'[c] = <<>> /\ rows'[c] = <<>> /\ c \notin answered'
      BY <2>1 DEF BillsHold, BillInv
    <2> QED BY <2>2, <2>4, <2>5, <2>6 DEF BillsHold, BillInv, Whole
  <1>4. ASSUME NEW h \in Handlers, NEW u \in Users, NEW b \in Bills, NEW list \in Lists,
               BeginBill(h, u, b, list)
        PROVE  BillsHold'
    BY <1>4, BeginBillStep
  <1>5. ASSUME NEW h \in Handlers, FindContributor(h) \/ AddContributor(h)
        PROVE  BillsHold'
    BY <1>5, FindStep, AddStep
  <1>6. ASSUME UNCHANGED bill, UNCHANGED handler \/ Restart
        PROVE  BillsHold'
    BY <1>0, <1>6, BillQuiet DEF handler, Restart, Billing
  <1>7. ASSUME NEW p \in Payments,
               \/ \E t \in Tags : ResolveTag(p, t)
               \/ \E k \in Keys : ResolveKey(p, k)
               \/ \E v \in Users, k \in Keys : DecodeQr(p, v, k)
        PROVE  UNCHANGED <<bill, handler>>
    BY <1>7 DEF ResolveTag, ResolveKey, DecodeQr, Signed, Resolve
  <1>8. ASSUME NEW p \in Payments, Cancel(p) \/ Submit(p)
        PROVE  UNCHANGED <<bill, handler>>
    BY <1>8 DEF Cancel, Submit
  <1>9. CASE KeyStep \/ (\E u \in Users, t \in Tags : RegisterPayTag(u, t)) \/ Ingest
    BY <1>6, <1>9 DEF KeyStep, RegisterPayTag, Ingest
  <1>10. CASE Restart \/ UNCHANGED vars
    BY <1>6, <1>10 DEF Restart, vars
  <1> QED
    BY <1>2, <1>3, <1>4, <1>5, <1>6, <1>7, <1>8, <1>9, <1>10 DEF Next

-----------------------------------------------------------------------------
(* The theorems.                                                           *)

LEMMA TransferInvInit == Init => TransferInv
  BY TypeInit, HistoryInit, PaymentInit, BillInit DEF TransferInv, BillsHold

LEMMA TransferInvStep == TransferInv /\ [Next]_vars => TransferInv'
  <1>1. TransferInv => WithinBill /\ BillsHold
    BY DEF TransferInv, WithinBill, BillsHold, BillsNameTheirContributors
  <1> QED
    BY <1>1, TypeStep, HistoryStep, PaymentStep, BillStep DEF TransferInv, BillsHold

LEMMA TransferInvariant == Spec => []TransferInv
  BY TransferInvInit, TransferInvStep, PTL DEF Spec

\* Payments, bills and handlers keep their types, for any number of each.
THEOREM TypeCorrect == Spec => []TypeOK
  <1>1. TransferInv => TypeOK
    BY DEF TransferInv
  <1> QED BY <1>1, TransferInvariant, PTL

\* Whom the receipt or the QR names had the key that was paid, and nobody else
\* has it unless that user has another one.
THEOREM PayeesArePaid == Spec => []PayeeIsPaid
  <1>1. ASSUME TransferInv
        PROVE  PayeeIsPaid
    <2> SUFFICES ASSUME NEW p \in Payments, payee[p] # None
                 PROVE  /\ <<payee[p], dest[p]>> \in held
                        /\ \A w \in Users \ {payee[p]} : key[w] = dest[p] =>
                             \E k \in Keys \ {dest[p]} : <<payee[p], k>> \in held
      BY <1>1 DEF PayeeIsPaid, TransferInv, TypeOK
    <2>1. <<payee[p], dest[p]>> \in held /\ dest[p] \in Keys /\ payee[p] \in Users
      BY <1>1 DEF TransferInv, PaymentInv, TypeOK
    <2>2. key[payee[p]] \in Keys /\ <<payee[p], key[payee[p]]>> \in held
      BY <1>1, <2>1 DEF TransferInv, HistoryInv, TypeOK, KeyTypeOK
    <2>3. \A w \in Users \ {payee[p]} : key[w] = dest[p] => key[payee[p]] # dest[p]
      BY <1>1, <2>1, <2>2, NoneAssumption DEF TransferInv, HistoryInv, KeysDiffer
    <2> QED BY <2>1, <2>2, <2>3
  <1> QED BY <1>1, TransferInvariant, PTL

\* A record is of a payment on the chain to the destination it names, and of a
\* user who has had the key it gives as the source, whoever reported it.
THEOREM RecordsTellChain == Spec => []RecordTellsChain
  <1>1. TransferInv => RecordTellsChain
    BY DEF TransferInv, PaymentInv, RecordTellsChain
  <1> QED BY <1>1, TransferInvariant, PTL

\* A bill has the users its references stood for, each once, and all of them
\* when its creation was answered.
THEOREM BillsAreRight == Spec => []BillsNameTheirContributors
  <1>1. TransferInv => BillsNameTheirContributors
    BY DEF TransferInv
  <1> QED BY <1>1, TransferInvariant, PTL

=============================================================================
