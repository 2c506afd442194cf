------------------------- MODULE StandingPlansProofs -------------------------
(***************************************************************************)
(* Proofs about StandingPlans for any number of plans, overlapping due     *)
(* checks and payments under way.                                          *)
(***************************************************************************)
EXTENDS StandingPlans, FiniteSetTheorems, TLAPS

-----------------------------------------------------------------------------
(* Types.                                                                  *)

LEMMA NoneIsNoId == None \notin Plans /\ None \notin Rows /\ None \notin Txs
  BY NoneAssumption, BoundsAssumption DEF Rows, Txs

LEMMA TypeStep == TypeOK /\ [Next]_vars => TypeOK'
  <1> SUFFICES ASSUME TypeOK, [Next]_vars
               PROVE  TypeOK'
    OBVIOUS
  <1> USE NoneIsNoId DEF TypeOK, Stages, plans, rows, attempt, Goto, Finish
  <1>1. ASSUME NEW p \in Plans, CreatePlan(p)
        PROVE  TypeOK'
    BY <1>1 DEF CreatePlan, Statuses
  <1>2. ASSUME NEW p \in Plans, NEW s \in Statuses, SetStatus(p, s)
        PROVE  TypeOK'
    BY <1>2 DEF SetStatus
  <1>3. ASSUME NEW p \in Plans, Elapse(p)
        PROVE  TypeOK'
    BY <1>3, BoundsAssumption DEF Elapse
  <1>4. ASSUME NEW c \in Checks, StartCheck(c) \/ CheckFails(c)
        PROVE  TypeOK'
    BY <1>4 DEF StartCheck, CheckFails, DuePlans
  <1>5. ASSUME NEW c \in Checks, NEW p \in Plans, NEW r \in Rows, MarkDue(c, p, r)
        PROVE  TypeOK'
    BY <1>5 DEF MarkDue
  <1>6. CASE Load
    BY <1>6 DEF Load
  <1>7. ASSUME NEW a \in Attempts, NEW r \in Rows, Tap(a, r)
        PROVE  TypeOK'
    BY <1>7 DEF Tap
  <1>8. ASSUME NEW a \in Attempts, NEW x \in Txs, Submit(a, x) \/ AnswerLost(a, x)
        PROVE  TypeOK'
    BY <1>8 DEF Submit, AnswerLost
  <1>9. ASSUME NEW a \in Attempts, StoreTransfer(a) \/ StoreFails(a)
        PROVE  TypeOK'
    BY <1>9 DEF StoreTransfer, StoreFails
  <1>10. ASSUME NEW a \in Attempts, FindPayment(a)
         PROVE  TypeOK'
    BY <1>10 DEF FindPayment
  <1>11. ASSUME NEW a \in Attempts, RecordPayment(a)
         PROVE  TypeOK'
    BY <1>11 DEF RecordPayment
  <1>12. ASSUME NEW a \in Attempts, RejectReport(a) \/ GiveUp(a)
         PROVE  TypeOK'
    BY <1>12 DEF RejectReport, GiveUp
  <1>13. CASE UNCHANGED vars
    BY <1>13 DEF vars
  <1> QED
    BY <1>1, <1>2, <1>3, <1>4, <1>5, <1>6, <1>7, <1>8, <1>9, <1>10, <1>11, <1>12, <1>13
    DEF Next

LEMMA TypeInit == Init => TypeOK
  BY BoundsAssumption, NoneIsNoId DEF Init, TypeOK, Stages

\* Every reachable state is well typed.
THEOREM TypeCorrect == Spec => []TypeOK
  <1>1. TypeOK /\ [Next]_vars => TypeOK'
    BY TypeStep
  <1> QED BY <1>1, TypeInit, PTL DEF Spec

-----------------------------------------------------------------------------
(* What is RECORDED was paid.                                              *)

\* An attempt that was submitted holds a transaction made for its row.
PaidInv ==
  /\ TypeOK
  /\ \A a \in Attempts : pc[a] \in {"recording", "reporting", "found"} =>
       onchain[tx[a]] = arg[a]
  /\ RecordedIsPaid

LEMMA PaidStep == PaidInv /\ [Next]_vars => PaidInv'
  <1> SUFFICES ASSUME PaidInv, [Next]_vars
               PROVE  PaidInv'
    OBVIOUS
  <1>1. TypeOK /\ TypeOK'
    BY TypeStep DEF PaidInv
  <1> USE NoneIsNoId DEF PaidInv, RecordedIsPaid, plans, rows, attempt, Goto, Finish
  <1>2. ASSUME \/ \E p \in Plans : CreatePlan(p) \/ Elapse(p)
               \/ \E p \in Plans, s \in Statuses : SetStatus(p, s)
        PROVE  PaidInv'
    BY <1>1, <1>2 DEF CreatePlan, SetStatus, Elapse
  <1>3. ASSUME NEW c \in Checks, StartCheck(c) \/ CheckFails(c)
        PROVE  PaidInv'
    BY <1>1, <1>3 DEF StartCheck, CheckFails
  <1>4. ASSUME NEW c \in Checks, NEW p \in Plans, NEW r \in Rows, MarkDue(c, p, r)
        PROVE  PaidInv'
    BY <1>1, <1>4 DEF MarkDue, TypeOK
  <1>5. CASE Load
    BY <1>1, <1>5 DEF Load
  <1>6. ASSUME NEW a \in Attempts, NEW r \in Rows, Tap(a, r)
        PROVE  PaidInv'
    BY <1>1, <1>6 DEF Tap, TypeOK
  <1>7. ASSUME NEW a \in Attempts, NEW x \in Txs, Submit(a, x) \/ AnswerLost(a, x)
        PROVE  PaidInv'
    <2>1. onchain[x] = None
      BY <1>7, BoundsAssumption DEF Submit, AnswerLost, NextTx, Txs
    <2>2. \A r \in Rows : payment[r] = "RECORDED" => hash[r] # x
      BY <2>1
    <2>3. \A b \in Attempts :
            pc[b] \in {"recording", "reporting", "found"} => tx[b] # x
      BY <1>1, <2>1 DEF TypeOK
    <2> QED BY <1>1, <1>7, <2>2, <2>3 DEF Submit, AnswerLost, TypeOK
  <1>8. ASSUME NEW a \in Attempts, StoreTransfer(a) \/ StoreFails(a)
        PROVE  PaidInv'
    BY <1>1, <1>8 DEF StoreTransfer, StoreFails, TypeOK
  <1>9. ASSUME NEW a \in Attempts, FindPayment(a)
        PROVE  PaidInv'
    BY <1>1, <1>9 DEF FindPayment, TypeOK
  <1>10. ASSUME NEW a \in Attempts, RecordPayment(a)
         PROVE  PaidInv'
    BY <1>1, <1>10 DEF RecordPayment, TypeOK
  <1>11. ASSUME NEW a \in Attempts, RejectReport(a) \/ GiveUp(a)
         PROVE  PaidInv'
    BY <1>1, <1>11 DEF RejectReport, GiveUp, TypeOK
  <1>12. CASE UNCHANGED vars
    BY <1>1, <1>12 DEF vars
  <1> QED
    BY <1>2, <1>3, <1>4, <1>5, <1>6, <1>7, <1>8, <1>9, <1>10, <1>11, <1>12 DEF Next

\* A RECORDED payment names a recorded transaction that was made for it.
THEOREM RecordedArePaid == Spec => []RecordedIsPaid
  <1>1. Init => PaidInv
    BY TypeInit DEF Init, PaidInv, RecordedIsPaid
  <1>2. PaidInv /\ [Next]_vars => PaidInv'
    BY PaidStep
  <1>3. PaidInv => RecordedIsPaid
    BY DEF PaidInv
  <1> QED BY <1>1, <1>2, <1>3, PTL DEF Spec

-----------------------------------------------------------------------------
(* Totals.                                                                 *)

LEMMA RowSetsFinite ==
  ASSUME NEW S \in SUBSET Rows
  PROVE  IsFiniteSet(S) /\ Cardinality(S) \in Nat
  <1>1. IsFiniteSet(Rows)
    BY BoundsAssumption, FS_Interval DEF Rows
  <1> QED BY <1>1, FS_Subset, FS_CardinalityType

LEMMA RowSetsMonotone ==
  ASSUME NEW S \in SUBSET Rows, NEW T \in SUBSET S
  PROVE  Cardinality(T) <= Cardinality(S)
  BY RowSetsFinite, FS_Subset

\* What a report read is covered by payments RECORDED besides its own.
SeenIsCovered(a) ==
  seen[a] <= Cardinality(Recorded(planOf[arg[a]]) \ {arg[a]})

TotalInv ==
  /\ TypeOK
  /\ \A a \in Attempts : pc[a] = "found" => SeenIsCovered(a)
  /\ TotalWithinRecorded

\* Steps that record nothing and leave the reports under way alone.
LEMMA TotalKept ==
  ASSUME TotalInv, TypeOK', totalPaid' = totalPaid,
         \A r \in Rows : payment[r] # "absent" => planOf'[r] = planOf[r],
         \A r \in Rows : payment'[r] = "RECORDED" <=> payment[r] = "RECORDED",
         \A a \in Attempts : pc'[a] = "found" =>
           pc[a] = "found" /\ arg'[a] = arg[a] /\ seen'[a] = seen[a]
  PROVE  TotalInv'
  <1>1. \A p \in Plans : Recorded(p)' = Recorded(p)
    BY DEF Recorded, Billed, TotalInv, TypeOK
  <1>2. ASSUME NEW a \in Attempts, pc'[a] = "found"
        PROVE  SeenIsCovered(a)'
    <2>1. /\ pc[a] = "found" /\ arg'[a] = arg[a] /\ seen'[a] = seen[a]
          /\ arg[a] \in Rows /\ payment[arg[a]] # "absent"
      BY <1>2 DEF TotalInv, TypeOK
    <2>2. planOf[arg[a]] \in Plans /\ planOf'[arg[a]] = planOf[arg[a]]
      BY <2>1 DEF TotalInv, TypeOK
    <2> QED BY <1>1, <2>1, <2>2 DEF TotalInv, SeenIsCovered
  <1> QED BY <1>1, <1>2 DEF TotalInv, TotalWithinRecorded

\* A report reads a total that leaves its own payment out.
LEMMA TotalRead ==
  ASSUME TotalInv, TypeOK', NEW a \in Attempts, FindPayment(a)
  PROVE  TotalInv'
  <1> USE DEF FindPayment, rows, plans, Goto
  <1>1. \A p \in Plans : Recorded(p)' = Recorded(p)
    BY DEF Recorded, Billed
  <1>2. /\ totalPaid' = totalPaid /\ planOf' = planOf /\ arg' = arg
        /\ arg[a] \in Rows /\ planOf[arg[a]] \in Plans
        /\ \A b \in Attempts : pc[b] = "found" => planOf[arg[b]] \in Plans
    BY DEF TotalInv, TypeOK
  <1>3. SeenIsCovered(a)'
    <2>1. Recorded(planOf[arg[a]]) \ {arg[a]} = Recorded(planOf[arg[a]])
      BY DEF Recorded
    <2>2. seen'[a] = totalPaid[planOf[arg[a]]]
      BY DEF TotalInv, TypeOK
    <2> QED BY <1>1, <1>2, <2>1, <2>2 DEF TotalInv, TotalWithinRecorded, SeenIsCovered
  <1>4. ASSUME NEW b \in Attempts \ {a}, pc'[b] = "found"
        PROVE  SeenIsCovered(b)'
    <2>1. pc[b] = "found" /\ seen'[b] = seen[b]
      BY <1>4 DEF TotalInv, TypeOK
    <2> QED BY <1>1, <1>2, <2>1 DEF TotalInv, SeenIsCovered
  <1> QED BY <1>1, <1>2, <1>3, <1>4 DEF TotalInv, TotalWithinRecorded

\* A report adds its payment to the total it read, and to the RECORDED ones.
LEMMA TotalWritten ==
  ASSUME TotalInv, TypeOK', NEW a \in Attempts, RecordPayment(a)
  PROVE  TotalInv'
  <1>1. PICK r \in Rows, p \in Plans :
          r = arg[a] /\ p = planOf[r] /\ payment[r] # "absent" /\ pc[a] = "found"
    BY NoneIsNoId DEF RecordPayment, TotalInv, TypeOK
  <1>2. /\ payment' = [payment EXCEPT ![r] = "RECORDED"] /\ planOf' = planOf
        /\ totalPaid' = [totalPaid EXCEPT ![p] = seen[a] + 1]
    BY <1>1 DEF RecordPayment
  <1>3. /\ Recorded(p)' = (Recorded(p) \ {r}) \cup {r}
        /\ \A q \in Plans \ {p} : Recorded(q)' = Recorded(q)
    BY <1>1, <1>2 DEF Recorded, Billed, TotalInv, TypeOK
  <1>4. totalPaid'[p] <= Cardinality(Recorded(p)')
    <2>1. Recorded(p) \ {r} \in SUBSET Rows
      BY DEF Recorded, Billed
    <2>2. Cardinality(Recorded(p)') = Cardinality(Recorded(p) \ {r}) + 1
      BY <1>3, <2>1, RowSetsFinite, FS_AddElement
    <2>3. seen[a] \in Nat /\ seen[a] <= Cardinality(Recorded(p) \ {r})
      BY <1>1 DEF TotalInv, SeenIsCovered, TypeOK
    <2>4. totalPaid'[p] = seen[a] + 1
      BY <1>1, <1>2 DEF TotalInv, TypeOK
    <2> QED BY <2>1, <2>2, <2>3, <2>4, RowSetsFinite
  <1>5. TotalWithinRecorded'
    BY <1>2, <1>3, <1>4 DEF TotalInv, TotalWithinRecorded, TypeOK
  <1>6. ASSUME NEW b \in Attempts, pc'[b] = "found"
        PROVE  SeenIsCovered(b)'
    <2>1. pc[b] = "found" /\ arg'[b] = arg[b] /\ seen'[b] = seen[b]
      BY <1>6 DEF RecordPayment, Finish, Goto, TotalInv, TypeOK
    <2>2. PICK o \in Rows, q \in Plans : o = arg[b] /\ q = planOf[o]
      BY <2>1, NoneIsNoId DEF TotalInv, TypeOK
    <2> DEFINE T == Recorded(q) \ {o}
               S == Recorded(q)' \ {o}
    <2>3. S \in SUBSET Rows /\ T \in SUBSET S
      BY <1>3, <2>2 DEF Recorded, Billed
    <2>4. Cardinality(T) <= Cardinality(S)
      BY <2>3, RowSetsMonotone
    <2>5. seen[b] \in Nat /\ seen[b] <= Cardinality(T)
      BY <2>1, <2>2 DEF TotalInv, SeenIsCovered, TypeOK
    <2>6. Cardinality(S) \in Nat /\ Cardinality(T) \in Nat
      BY <2>3, RowSetsFinite
    <2>7. seen[b] <= Cardinality(S)
      BY <2>4, <2>5, <2>6
    <2> QED BY <1>2, <2>1, <2>2, <2>7 DEF SeenIsCovered
  <1> QED BY <1>5, <1>6 DEF TotalInv

LEMMA TotalStep == TotalInv /\ [Next]_vars => TotalInv'
  <1> SUFFICES ASSUME TotalInv, [Next]_vars
               PROVE  TotalInv'
    OBVIOUS
  <1>1. TypeOK /\ TypeOK'
    BY TypeStep DEF TotalInv
  <1> USE DEF plans, rows, attempt, Goto, Finish
  <1>2. ASSUME \/ \E p \in Plans : CreatePlan(p) \/ Elapse(p)
               \/ \E p \in Plans, s \in Statuses : SetStatus(p, s)
               \/ \E c \in Checks : StartCheck(c) \/ CheckFails(c)
               \/ Load \/ UNCHANGED vars
        PROVE  TotalInv'
    <2>1. UNCHANGED <<totalPaid, payment, planOf, pc, arg, seen>>
      BY <1>2 DEF CreatePlan, Elapse, SetStatus, StartCheck, CheckFails, Load, vars
    <2> QED BY <1>1, <2>1, TotalKept
  <1>3. ASSUME NEW c \in Checks, NEW p \in Plans, NEW r \in Rows, MarkDue(c, p, r)
        PROVE  TotalInv'
    <2>1. payment[r] = "absent"
      BY <1>3, BoundsAssumption DEF MarkDue, NextRow, Rows
    <2>2. /\ payment' = [payment EXCEPT ![r] = "DUE"]
          /\ planOf' = [planOf EXCEPT ![r] = p]
          /\ UNCHANGED <<totalPaid, pc, arg, seen>>
      BY <1>3 DEF MarkDue
    <2>3. \A q \in Rows : payment[q] # "absent" => planOf'[q] = planOf[q]
      BY <1>1, <2>1, <2>2 DEF TypeOK
    <2>4. \A q \in Rows : payment'[q] = "RECORDED" <=> payment[q] = "RECORDED"
      BY <1>1, <2>1, <2>2 DEF TypeOK
    <2> QED BY <1>1, <2>2, <2>3, <2>4, TotalKept
  <1>4. ASSUME NEW a \in Attempts,
               \/ \E r \in Rows : Tap(a, r)
               \/ \E x \in Txs : Submit(a, x) \/ AnswerLost(a, x)
               \/ StoreTransfer(a) \/ StoreFails(a) \/ RejectReport(a) \/ GiveUp(a)
        PROVE  TotalInv'
    <2>1. UNCHANGED <<totalPaid, payment, planOf>>
      BY <1>4 DEF Tap, Submit, AnswerLost, StoreTransfer, StoreFails, RejectReport, GiveUp
    <2>2. \A b \in Attempts : pc'[b] = "found" =>
            pc[b] = "found" /\ arg'[b] = arg[b] /\ seen'[b] = seen[b]
      BY <1>1, <1>4
      DEF Tap, Submit, AnswerLost, StoreTransfer, StoreFails, RejectReport, GiveUp, TypeOK
    <2> QED BY <1>1, <2>1, <2>2, TotalKept
  <1>5. ASSUME NEW a \in Attempts, FindPayment(a)
        PROVE  TotalInv'
    BY <1>1, <1>5, TotalRead
  <1>6. ASSUME NEW a \in Attempts, RecordPayment(a)
        PROVE  TotalInv'
    BY <1>1, <1>6, TotalWritten
  <1> QED
    BY <1>2, <1>3, <1>4, <1>5, <1>6 DEF Next

\* However reports overlap, a plan's total never exceeds what was RECORDED.
THEOREM TotalsWithinRecorded == Spec => []TotalWithinRecorded
  <1>1. Init => TotalInv
    <2> SUFFICES ASSUME Init PROVE TotalInv
      OBVIOUS
    <2>1. TypeOK /\ \A a \in Attempts : pc[a] # "found"
      BY TypeInit DEF Init
    <2>2. \A p \in Plans : Recorded(p) \in SUBSET Rows /\ totalPaid[p] = 0
      BY DEF Init, Recorded, Billed
    <2>3. TotalWithinRecorded
      BY <2>2, RowSetsFinite DEF TotalWithinRecorded
    <2> QED BY <2>1, <2>3 DEF TotalInv
  <1>2. TotalInv /\ [Next]_vars => TotalInv'
    BY TotalStep
  <1>3. TotalInv => TotalWithinRecorded
    BY DEF TotalInv
  <1> QED BY <1>1, <1>2, <1>3, PTL DEF Spec

-----------------------------------------------------------------------------
(* The schedule.                                                           *)

\* The checks that have yet to bill the plan.
Pending(p) == {c \in Checks : p \in todo[c]}

\* A plan that is due may be billed by every check once; one that is not,
\* by those that read it while it was.
PeriodInv ==
  /\ TypeOK
  /\ \A p \in Plans :
       Cardinality(Billed(p)) + Cardinality(IF due[p] THEN Checks ELSE Pending(p))
         <= Cardinality(Checks) * periods[p]

LEMMA CheckSetsFinite ==
  ASSUME NEW S \in SUBSET Checks
  PROVE  /\ IsFiniteSet(S) /\ Cardinality(S) \in Nat
         /\ Cardinality(S) <= Cardinality(Checks)
  BY ChecksAssumption, FS_Subset, FS_CardinalityType

\* Steps that bill nothing and leave no more checks to bill.
LEMMA PeriodKept ==
  ASSUME PeriodInv, TypeOK', UNCHANGED <<due, periods, planOf>>,
         \A p \in Plans : due[p] \/ Pending(p)' \subseteq Pending(p)
  PROVE  PeriodInv'
  <1> SUFFICES ASSUME NEW p \in Plans
               PROVE  Cardinality(Billed(p)) +
                        Cardinality(IF due[p] THEN Checks ELSE Pending(p)')
                      <= Cardinality(Checks) * periods[p]
    BY DEF PeriodInv, Billed
  <1>1. CASE due[p]
    BY <1>1 DEF PeriodInv
  <1>2. CASE ~due[p]
    <2>1. Pending(p)' \in SUBSET Pending(p) /\ Pending(p) \in SUBSET Checks
      BY <1>2 DEF Pending
    <2>2. /\ Cardinality(Pending(p)') <= Cardinality(Pending(p))
          /\ Cardinality(Pending(p)') \in Nat /\ Cardinality(Pending(p)) \in Nat
      BY <2>1, CheckSetsFinite, FS_Subset
    <2>3. Cardinality(Billed(p)) \in Nat
      BY RowSetsFinite DEF Billed
    <2>4. Cardinality(Billed(p)) + Cardinality(Pending(p))
            <= Cardinality(Checks) * periods[p]
      BY <1>2 DEF PeriodInv
    <2>5. Cardinality(Checks) * periods[p] \in Nat
      BY CheckSetsFinite DEF PeriodInv, TypeOK
    <2> QED BY <1>2, <2>2, <2>3, <2>4, <2>5
  <1> QED BY <1>1, <1>2

LEMMA OneMore ==
  ASSUME NEW m \in Nat, NEW n \in Nat
  PROVE  m * (n + 1) = m * n + m /\ m * n \in Nat
  OBVIOUS

\* A period more allows every check one payment more.
LEMMA PeriodElapses ==
  ASSUME PeriodInv, TypeOK', NEW p \in Plans, Elapse(p)
  PROVE  PeriodInv'
  <1>1. /\ due' = [due EXCEPT ![p] = TRUE]
        /\ periods' = [periods EXCEPT ![p] = @ + 1]
        /\ UNCHANGED <<planOf, todo>>
    BY DEF Elapse, rows
  <1>2. \A q \in Plans : Billed(q)' = Billed(q) /\ Pending(q)' = Pending(q)
    BY <1>1 DEF Billed, Pending
  <1>3. ASSUME NEW q \in Plans \ {p}
        PROVE  periods'[q] = periods[q] /\ due'[q] = due[q]
    BY <1>1, <1>3 DEF PeriodInv, TypeOK
  <1>4. periods'[p] = periods[p] + 1 /\ due'[p] /\ periods[p] \in Nat
    BY <1>1 DEF PeriodInv, TypeOK
  <1>5. Cardinality(Billed(p)) + Cardinality(Checks) <= Cardinality(Checks) * (periods[p] + 1)
    <2> DEFINE C == Cardinality(Checks)
               B == Cardinality(Billed(p))
    <2>1. B \in Nat /\ C \in Nat
      BY RowSetsFinite, CheckSetsFinite DEF Billed
    <2>2. B <= C * periods[p]
      <3>1. Cardinality(IF due[p] THEN Checks ELSE Pending(p)) \in Nat
        BY CheckSetsFinite DEF Pending
      <3>2. B + Cardinality(IF due[p] THEN Checks ELSE Pending(p)) <= C * periods[p]
        BY DEF PeriodInv
      <3>3. C * periods[p] \in Nat
        BY <1>4, <2>1
      <3> HIDE DEF B, C
      <3> QED BY <2>1, <3>1, <3>2, <3>3
    <2> HIDE DEF B, C
    <2>3. C * (periods[p] + 1) = C * periods[p] + C /\ C * periods[p] \in Nat
      BY <1>4, <2>1, OneMore
    <2>4. B + C <= C * (periods[p] + 1)
      BY <2>1, <2>2, <2>3
    <2> QED BY <2>4 DEF B, C
  <1> QED BY <1>2, <1>3, <1>4, <1>5 DEF PeriodInv

\* The check that bills the plan is one of those that had yet to.
LEMMA PeriodBilled ==
  ASSUME PeriodInv, TypeOK', NEW c \in Checks, NEW p \in Plans, NEW r \in Rows,
         MarkDue(c, p, r)
  PROVE  PeriodInv'
  <1>1. /\ planOf' = [planOf EXCEPT ![r] = p] /\ planOf[r] = None
        /\ due' = [due EXCEPT ![p] = FALSE] /\ periods' = periods
        /\ todo' = [todo EXCEPT ![c] = @ \ {p}]
    BY BoundsAssumption DEF MarkDue, NextRow, Rows, PeriodInv, TypeOK
  <1>2. ASSUME NEW q \in Plans \ {p}
        PROVE  Billed(q)' = Billed(q) /\ Pending(q)' = Pending(q) /\ due'[q] = due[q]
    BY <1>1, <1>2, NoneIsNoId DEF Billed, Pending, PeriodInv, TypeOK
  <1>3. Cardinality(Billed(p)') = Cardinality(Billed(p)) + 1
    <2>1. Billed(p)' = Billed(p) \cup {r} /\ r \notin Billed(p)
      BY <1>1, NoneIsNoId DEF Billed, PeriodInv, TypeOK
    <2> QED BY <2>1, RowSetsFinite, FS_AddElement DEF Billed
  <1> DEFINE U == IF due[p] THEN Checks ELSE Pending(p)
  <1>4. /\ Pending(p)' \in SUBSET (U \ {c}) /\ c \in U /\ U \in SUBSET Checks
        /\ ~due'[p]
    BY <1>1 DEF MarkDue, Pending, PeriodInv, TypeOK
  <1>5. Cardinality(Billed(p)') + Cardinality(Pending(p)') <= Cardinality(Checks) * periods[p]
    <2>1. Cardinality(Billed(p)) + Cardinality(U) <= Cardinality(Checks) * periods[p]
      BY DEF PeriodInv
    <2> HIDE DEF U
    <2>2. Cardinality(U \ {c}) = Cardinality(U) - 1 /\ IsFiniteSet(U \ {c})
      BY <1>4, CheckSetsFinite, FS_RemoveElement
    <2>3. /\ Cardinality(Pending(p)') <= Cardinality(U \ {c})
          /\ Cardinality(Pending(p)') \in Nat
      BY <1>4, <2>2, FS_Subset, FS_CardinalityType
    <2>4. /\ Cardinality(Billed(p)) \in Nat /\ Cardinality(U) \in Nat
          /\ Cardinality(Checks) * periods[p] \in Nat
      BY <1>4, RowSetsFinite, CheckSetsFinite DEF Billed, PeriodInv, TypeOK
    <2> QED BY <1>3, <2>1, <2>2, <2>3, <2>4
  <1> QED BY <1>1, <1>2, <1>4, <1>5 DEF PeriodInv

LEMMA PeriodStep == PeriodInv /\ [Next]_vars => PeriodInv'
  <1> SUFFICES ASSUME PeriodInv, [Next]_vars
               PROVE  PeriodInv'
    OBVIOUS
  <1>1. TypeOK /\ TypeOK'
    BY TypeStep DEF PeriodInv
  <1> USE DEF plans, rows
  <1>2. ASSUME \/ \E p \in Plans : CreatePlan(p)
               \/ \E p \in Plans, s \in Statuses : SetStatus(p, s)
               \/ Load \/ UNCHANGED vars
        PROVE  PeriodInv'
    <2>1. UNCHANGED <<due, periods, planOf, todo>>
      BY <1>2 DEF CreatePlan, SetStatus, Load, vars
    <2>2. \A p \in Plans : Pending(p)' \subseteq Pending(p)
      BY <2>1 DEF Pending
    <2> QED BY <1>1, <2>1, <2>2, PeriodKept
  <1>3. ASSUME NEW c \in Checks, StartCheck(c) \/ CheckFails(c)
        PROVE  PeriodInv'
    <2>1. UNCHANGED <<due, periods, planOf>>
      BY <1>3 DEF StartCheck, CheckFails
    <2>2. \A p \in Plans : due[p] \/ Pending(p)' \subseteq Pending(p)
      BY <1>1, <1>3 DEF StartCheck, CheckFails, DuePlans, Pending, TypeOK
    <2> QED BY <1>1, <2>1, <2>2, PeriodKept
  <1>4. ASSUME NEW a \in Attempts,
               \/ \E r \in Rows : Tap(a, r)
               \/ \E x \in Txs : Submit(a, x) \/ AnswerLost(a, x)
               \/ StoreTransfer(a) \/ StoreFails(a) \/ FindPayment(a)
               \/ RecordPayment(a) \/ RejectReport(a) \/ GiveUp(a)
        PROVE  PeriodInv'
    <2>1. UNCHANGED <<due, periods, planOf, todo>>
      BY <1>4 DEF Tap, Submit, AnswerLost, StoreTransfer, StoreFails, FindPayment,
                  RecordPayment, RejectReport, GiveUp
    <2>2. \A p \in Plans : Pending(p)' \subseteq Pending(p)
      BY <2>1 DEF Pending
    <2> QED BY <1>1, <2>1, <2>2, PeriodKept
  <1> QED BY <1>1, <1>2, <1>3, <1>4, PeriodElapses, PeriodBilled DEF Next

\* However due checks overlap, each of them bills a period once at most: with
\* one check at a time a plan has no more payments than periods.
THEOREM BilledOncePerCheck == Spec => []NoExtraBilling
  <1>1. Init => PeriodInv
    <2> SUFFICES ASSUME Init, NEW p \in Plans
                 PROVE  Cardinality(Billed(p)) +
                          Cardinality(IF due[p] THEN Checks ELSE Pending(p))
                        <= Cardinality(Checks) * periods[p]
      BY TypeInit DEF PeriodInv
    <2>1. Billed(p) = {} /\ Pending(p) = {} /\ ~due[p] /\ periods[p] = 0
      BY NoneIsNoId DEF Init, Billed, Pending
    <2>2. Cardinality(Checks) * 0 = 0
      BY CheckSetsFinite
    <2> QED BY <2>1, <2>2, FS_EmptySet
  <1>2. PeriodInv /\ [Next]_vars => PeriodInv'
    BY PeriodStep
  <1>3. PeriodInv => NoExtraBilling
    <2> SUFFICES ASSUME PeriodInv, NEW p \in Plans
                 PROVE  Cardinality(Billed(p)) <= Cardinality(Checks) * periods[p]
      BY DEF NoExtraBilling
    <2> DEFINE U == IF due[p] THEN Checks ELSE Pending(p)
    <2>1. Cardinality(Billed(p)) \in Nat /\ Cardinality(U) \in Nat
      BY RowSetsFinite, CheckSetsFinite DEF Billed, Pending
    <2>2. Cardinality(Billed(p)) + Cardinality(U) <= Cardinality(Checks) * periods[p]
      BY DEF PeriodInv
    <2>3. Cardinality(Checks) * periods[p] \in Nat
      BY CheckSetsFinite DEF PeriodInv, TypeOK
    <2> HIDE DEF U
    <2> QED BY <2>1, <2>2, <2>3
  <1> QED BY <1>1, <1>2, <1>3, PTL DEF Spec
=============================================================================
