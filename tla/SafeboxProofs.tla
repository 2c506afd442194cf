---------------------------- MODULE SafeboxProofs ----------------------------
(***************************************************************************)
(* Proofs about Safebox for every set of members and every amount.         *)
(***************************************************************************)
EXTENDS Safebox, SequenceTheorems, TLAPS

-----------------------------------------------------------------------------
(* Lemmas about the operators.                                             *)

\* A covered transfer keeps every balance a natural number, and moves its
\* amount out of or into the vault unless the vault pays itself.
LEMMA TransferBalances ==
  ASSUME tokens \in [Addresses -> Nat],
         NEW from \in Addresses, NEW to \in Addresses, NEW amt \in Nat,
         tokens[from] >= amt
  PROVE  /\ Transfer(from, to, amt) \in [Addresses -> Nat]
         /\ from # Vault /\ to = Vault => Transfer(from, to, amt)[Vault] = tokens[Vault] + amt
         /\ from = Vault /\ to # Vault => Transfer(from, to, amt)[Vault] = tokens[Vault] - amt
         /\ from = Vault /\ to = Vault => Transfer(from, to, amt)[Vault] = tokens[Vault]
  <1> Vault \in Addresses
    BY DEF Addresses
  <1> QED BY DEF Transfer

\* Removing position n shifts what follows and loses nothing else.
LEMMA RemoveAtShifts ==
  ASSUME NEW S, NEW q \in Seq(S), NEW n \in 1..Len(q)
  PROVE  /\ RemoveAt(q, n) \in Seq(S)
         /\ Len(RemoveAt(q, n)) = Len(q) - 1
         /\ \A k \in 1..(Len(q) - 1) :
              RemoveAt(q, n)[k] = IF k < n THEN q[k] ELSE q[k + 1]
  <1> DEFINE front == SubSeq(q, 1, n - 1)
             back  == SubSeq(q, n + 1, Len(q))
  <1>1. front \in Seq(S) /\ Len(front) = n - 1 /\ \A k \in 1..(n - 1) : front[k] = q[k]
    OBVIOUS
  <1>2. back \in Seq(S) /\ Len(back) = Len(q) - n /\ \A k \in 1..(Len(q) - n) : back[k] = q[k + n]
    OBVIOUS
  <1>3. RemoveAt(q, n) = front \o back
    BY DEF RemoveAt
  <1> HIDE DEF front, back
  <1> QED BY <1>1, <1>2, <1>3

\* What the three parts of a signed invocation can be.
LEMMA SignedParts ==
  ASSUME TypeOK, NEW m \in Members, pending[m] # None
  PROVE  /\ pending[m].arg \in Addresses
         /\ pending[m].amount \in Nat
         /\ pending[m].op \in {"contribute", "withdraw"} => pending[m].amount \in Amounts
  <1>1. pending[m] \in Requested(m)
    BY DEF TypeOK
  <1>2. m \in Addresses /\ Amounts \subseteq Nat
    BY AmountsAssumption DEF Addresses
  <1>3. ASSUME NEW inv \in Requested(m)
        PROVE  /\ inv.arg \in Addresses
               /\ inv.amount \in Nat
               /\ inv.op \in {"contribute", "withdraw"} => inv.amount \in Amounts
    <2>1. CASE inv \in [op : {"contribute"}, arg : {m}, amount : Amounts]
      BY <1>2, <2>1
    <2>2. CASE inv \in [op : {"withdraw"}, arg : Addresses, amount : Amounts]
      BY <1>2, <2>2
    <2>3. CASE inv \in [op : {"add_admin", "remove_admin"}, arg : Addresses, amount : {0}]
      BY <2>3
    <2>4. CASE inv \in [op : {"close"}, arg : {m}, amount : {0}]
      BY <1>2, <2>4
    <2> QED BY <1>3, <2>1, <2>2, <2>3, <2>4 DEF Requested
  <1> QED BY <1>1, <1>3

-----------------------------------------------------------------------------
(* Types.                                                                  *)

LEMMA TypeInit == Init => TypeOK
  <1> SUFFICES ASSUME Init PROVE TypeOK
    OBVIOUS
  <1>1. tokens \in [Addresses -> Nat]
    BY HoldingsAssumption DEF Init, Addresses
  <1>2. /\ pending \in [Members -> Invocation \cup {None}]
        /\ \A m \in Members : pending[m] \in Requested(m) \cup {None}
    BY DEF Init
  <1>3. admins \in Seq(Addresses) /\ ledger \in Seq(Entry)
    BY DEF Init
  <1> QED BY <1>1, <1>2, <1>3 DEF Init, TypeOK

LEMMA TypeStep == TypeOK /\ [Next]_vars => TypeOK'
  <1> SUFFICES ASSUME TypeOK, [Next]_vars
               PROVE  TypeOK'
    OBVIOUS
  <1> USE DEF TypeOK, contract, totals
  <1> Vault \in Addresses /\ Members \subseteq Addresses /\ Amounts \subseteq Nat
    BY AmountsAssumption DEF Addresses
  <1>1. ASSUME NEW m \in Members, Initialize(m)
        PROVE  TypeOK'
    BY <1>1 DEF Initialize, Requested
  <1>2. ASSUME NEW m \in Members, NEW inv \in Requested(m), Sign(m, inv)
        PROVE  TypeOK'
    <2>1. inv \in Invocation
      BY DEF Requested, Invocation
    <2>2. /\ pending' \in [Members -> Invocation \cup {None}]
          /\ \A k \in Members : pending'[k] \in Requested(k) \cup {None}
      BY <1>2, <2>1 DEF Sign
    <2> QED BY <1>2, <2>2 DEF Sign, Requested
  <1>3. ASSUME NEW m \in Members, NEW op, Take(m, op)
        PROVE  /\ pending' \in [Members -> Invocation \cup {None}]
               /\ \A k \in Members : pending'[k] \in Requested(k) \cup {None}
    BY <1>3 DEF Take
  <1>4. ASSUME NEW m \in Members, NEW type \in {"contribution", "withdrawal"},
               NEW amt \in Amounts, RecordEntry(type, m, amt)
        PROVE  ledger' \in Seq(Entry)
    <2>1. [type |-> type, member |-> m, amount |-> amt] \in Entry
      BY DEF Entry
    <2> QED BY <1>4, <2>1, AppendProperties DEF RecordEntry
  <1>5. ASSUME NEW m \in Members, Contribute(m)
        PROVE  TypeOK'
    <2>1. pending[m].amount \in Amounts /\ tokens[m] >= pending[m].amount
      BY <1>5, SignedParts DEF Contribute, Take, MayContribute
    <2>2. tokens' \in [Addresses -> Nat]
      BY <1>5, <2>1, TransferBalances DEF Contribute
    <2>3. ledger' \in Seq(Entry)
      BY <1>4, <1>5, <2>1 DEF Contribute
    <2>4. paidIn' \in Nat
      <3>1. paidIn' = paidIn + pending[m].amount
        BY <1>5 DEF Contribute
      <3>2. paidIn \in Nat /\ pending[m].amount \in Nat
        BY <2>1
      <3> QED BY <3>1, <3>2
    <2> QED BY <1>3, <1>5, <2>2, <2>3, <2>4 DEF Contribute
  <1>6. ASSUME NEW m \in Members, Withdraw(m)
        PROVE  TypeOK'
    <2>1. /\ pending[m].amount \in Amounts /\ pending[m].arg \in Addresses
          /\ tokens[Vault] >= pending[m].amount
      BY <1>6, SignedParts DEF Withdraw, Take, MayWithdraw
    <2>2. tokens' \in [Addresses -> Nat]
      BY <1>6, <2>1, TransferBalances DEF Withdraw
    <2>3. ledger' \in Seq(Entry)
      BY <1>4, <1>6, <2>1 DEF Withdraw
    <2>4. paidOut' \in Nat
      <3>1. paidOut' = paidOut + pending[m].amount
        BY <1>6 DEF Withdraw
      <3>2. paidOut \in Nat /\ pending[m].amount \in Nat
        BY <2>1
      <3> QED BY <3>1, <3>2
    <2> QED BY <1>3, <1>6, <2>2, <2>3, <2>4 DEF Withdraw
  <1>7. ASSUME NEW m \in Members, AddAdmin(m)
        PROVE  TypeOK'
    <2>1. admins' \in Seq(Addresses)
      BY <1>7, SignedParts, AppendProperties DEF AddAdmin, Take
    <2> QED BY <1>3, <1>7, <2>1 DEF AddAdmin
  <1>8. ASSUME NEW m \in Members, RemoveAdmin(m)
        PROVE  TypeOK'
    <2>1. admins' \in Seq(Addresses)
      BY <1>8, RemoveAtShifts DEF RemoveAdmin
    <2> QED BY <1>3, <1>8, <2>1 DEF RemoveAdmin
  <1>9. ASSUME NEW m \in Members, Close(m)
        PROVE  TypeOK'
    BY <1>3, <1>9 DEF Close
  <1>10. ASSUME NEW m \in Members, Drop(m)
         PROVE  TypeOK'
    BY <1>10 DEF Drop
  <1>11. ASSUME NEW m \in Members, NEW amt \in Amounts, Donate(m, amt)
         PROVE  TypeOK'
    <2>1. tokens' \in [Addresses -> Nat]
      BY <1>11, TransferBalances DEF Donate
    <2> QED BY <1>11, <2>1 DEF Donate, Requested
  <1>12. CASE UNCHANGED vars
    BY <1>12 DEF vars
  <1> QED
    BY <1>1, <1>2, <1>5, <1>6, <1>7, <1>8, <1>9, <1>10, <1>11, <1>12 DEF Next

\* Every reachable state is well typed.
THEOREM TypeCorrect == Spec => []TypeOK
  <1>1. Init => TypeOK
    BY TypeInit
  <1>2. TypeOK /\ [Next]_vars => TypeOK'
    BY TypeStep
  <1> QED BY <1>1, <1>2, PTL DEF Spec

-----------------------------------------------------------------------------
(* The admins.                                                             *)

\* Before init there are no admins; this keeps the owner out of their list.
AdminInv ==
  /\ TypeOK
  /\ AdminsBounded
  /\ owner = None => admins = <<>>

\* An admin that is not listed yet can be appended below the cap.
LEMMA AppendAdmin ==
  ASSUME AdminInv, NEW a \in Addresses, a # owner, a \notin AdminSet,
         Len(admins) < MaxAdmins, admins' = Append(admins, a), owner' = owner
  PROVE  AdminsBounded'
  <1>1. /\ admins \in Seq(Addresses) /\ Len(admins') = Len(admins) + 1
        /\ \A n \in 1..Len(admins) : admins'[n] = admins[n] /\ admins[n] # a
        /\ admins'[Len(admins) + 1] = a
    BY AppendProperties DEF AdminInv, TypeOK, AdminSet
  <1>2. \A n \in 1..Len(admins) : admins[n] # owner
    BY DEF AdminInv, AdminsBounded, AdminSet
  <1>3. \A n, k \in 1..Len(admins') : admins'[n] = admins'[k] => n = k
    BY <1>1 DEF AdminInv, AdminsBounded
  <1>4. owner' \notin AdminSet'
    BY <1>1, <1>2 DEF AdminSet
  <1>5. Len(admins') <= MaxAdmins
    BY <1>1 DEF MaxAdmins
  <1> QED BY <1>3, <1>4, <1>5 DEF AdminsBounded

\* Removing one position leaves a shorter list without repetition.
LEMMA DropAdmin ==
  ASSUME AdminInv, NEW n \in 1..Len(admins), admins' = RemoveAt(admins, n), owner' = owner
  PROVE  AdminsBounded'
  <1>1. /\ Len(admins') = Len(admins) - 1
        /\ \A k \in 1..(Len(admins) - 1) :
             admins'[k] = IF k < n THEN admins[k] ELSE admins[k + 1]
    BY RemoveAtShifts DEF AdminInv, TypeOK
  <1>2. Len(admins) \in Nat
    BY DEF AdminInv, TypeOK
  <1>3. \A j, k \in 1..Len(admins') : admins'[j] = admins'[k] => j = k
    BY <1>1, <1>2 DEF AdminInv, AdminsBounded
  <1>4. owner' \notin AdminSet'
    <2>1. \A k \in 1..Len(admins) : admins[k] # owner
      BY DEF AdminInv, AdminsBounded, AdminSet
    <2> QED BY <1>1, <1>2, <2>1 DEF AdminSet
  <1>5. Len(admins') <= MaxAdmins
    BY <1>1, <1>2 DEF AdminInv, AdminsBounded, MaxAdmins
  <1> QED BY <1>3, <1>4, <1>5 DEF AdminsBounded

LEMMA AdminStep == AdminInv /\ [Next]_vars => AdminInv'
  <1> SUFFICES ASSUME AdminInv, [Next]_vars
               PROVE  AdminInv'
    OBVIOUS
  <1>1. TypeOK'
    BY TypeStep DEF AdminInv
  <1>2. ASSUME NEW m \in Members, Initialize(m)
        PROVE  AdminInv'
    <2>1. admins' = <<>> /\ owner' = m /\ AdminSet' = {}
      BY <1>2 DEF Initialize, AdminInv, AdminSet
    <2>2. m # None
      BY NoneAssumption DEF Addresses
    <2> QED BY <1>1, <2>1, <2>2 DEF AdminInv, AdminsBounded, MaxAdmins
  <1>3. ASSUME NEW m \in Members, AddAdmin(m)
        PROVE  AdminInv'
    <2>1. /\ pending[m].arg \in Addresses /\ owner # None
          /\ MayAddAdmin(m, pending[m].arg)
      BY <1>3, SignedParts DEF AddAdmin, Take, MayAddAdmin, AdminInv
    <2>2. AdminsBounded'
      BY <1>3, <2>1, AppendAdmin DEF AddAdmin, MayAddAdmin
    <2> QED BY <1>1, <1>3, <2>1, <2>2 DEF AdminInv, AddAdmin
  <1>4. ASSUME NEW m \in Members, RemoveAdmin(m)
        PROVE  AdminInv'
    <2>1. AdminsBounded'
      BY <1>4, DropAdmin DEF RemoveAdmin
    <2> QED BY <1>1, <1>4, <2>1 DEF AdminInv, RemoveAdmin, MayRemoveAdmin
  <1>5. CASE UNCHANGED <<owner, admins>>
    BY <1>1, <1>5 DEF AdminInv, AdminsBounded, AdminSet
  <1> QED
    BY <1>2, <1>3, <1>4, <1>5
    DEF Next, vars, contract, Sign, Contribute, Withdraw, Close, Drop, Donate

\* There are never more than three admins, none is listed twice, and the owner
\* is never one of them.
THEOREM AdminCap == Spec => []AdminsBounded
  <1>1. Init => AdminInv
    BY TypeInit DEF Init, AdminInv, AdminsBounded, AdminSet, MaxAdmins
  <1>2. AdminInv /\ [Next]_vars => AdminInv'
    BY AdminStep
  <1>3. AdminInv => AdminsBounded
    BY DEF AdminInv
  <1> QED BY <1>1, <1>2, <1>3, PTL DEF Spec

-----------------------------------------------------------------------------
(* The vault.                                                              *)

\* The ways the vault's balance and the totals can change in one step.
LEMMA VaultStep ==
  ASSUME TypeOK, [Next]_vars
  PROVE  \/ tokens'[Vault] = tokens[Vault] /\ UNCHANGED <<ledger, totals>>
         \/ tokens'[Vault] > tokens[Vault] /\ UNCHANGED <<ledger, totals>>
         \/ \E m \in Members : Contribute(m) /\ tokens'[Vault] - tokens[Vault] = paidIn' - paidIn
         \/ \E m \in Members : /\ Withdraw(m)
                               /\ tokens'[Vault] \in {tokens[Vault], tokens[Vault] - pending[m].amount}
  <1> Vault \in Addresses /\ Members \subseteq Addresses /\ Amounts \subseteq Nat \ {0}
    BY AmountsAssumption DEF Addresses
  <1> tokens \in [Addresses -> Nat] /\ tokens[Vault] \in Nat /\ paidIn \in Nat
    BY DEF TypeOK
  <1>1. ASSUME NEW m \in Members, Contribute(m)
        PROVE  tokens'[Vault] - tokens[Vault] = paidIn' - paidIn
    <2>1. pending[m].amount \in Nat /\ tokens[m] >= pending[m].amount
      BY <1>1, SignedParts DEF Contribute, Take, MayContribute
    <2>2. tokens'[Vault] = tokens[Vault] + pending[m].amount
      BY <1>1, <2>1, TransferBalances, VaultAssumption DEF Contribute
    <2>3. paidIn' = paidIn + pending[m].amount
      BY <1>1 DEF Contribute
    <2> QED BY <2>1, <2>2, <2>3
  <1>2. ASSUME NEW m \in Members, Withdraw(m)
        PROVE  tokens'[Vault] \in {tokens[Vault], tokens[Vault] - pending[m].amount}
    <2>1. /\ pending[m].amount \in Nat /\ pending[m].arg \in Addresses
          /\ tokens[Vault] >= pending[m].amount
      BY <1>2, SignedParts DEF Withdraw, Take, MayWithdraw
    <2> QED BY <1>2, <2>1, TransferBalances DEF Withdraw
  <1>3. ASSUME NEW m \in Members, NEW amt \in Amounts, Donate(m, amt)
        PROVE  tokens'[Vault] > tokens[Vault] /\ UNCHANGED <<ledger, totals>>
    <2>1. tokens'[Vault] = tokens[Vault] + amt
      BY <1>3, TransferBalances, VaultAssumption DEF Donate
    <2> QED BY <1>3, <2>1 DEF Donate, contract
  <1>4. CASE UNCHANGED <<tokens, ledger, totals>>
    BY <1>4
  <1> QED
    BY <1>1, <1>2, <1>3, <1>4
    DEF Next, vars, contract, Initialize, Sign, AddAdmin, RemoveAdmin, Close, Drop

\* The vault always covers the contributions that were not withdrawn.
THEOREM VaultCovered == Spec => []Solvent
  <1> DEFINE SolventInv == TypeOK /\ Solvent
  <1>1. Init => SolventInv
    <2> SUFFICES ASSUME Init PROVE SolventInv
      OBVIOUS
    <2>1. TypeOK /\ tokens[Vault] \in Nat
      BY TypeInit DEF TypeOK, Addresses
    <2> QED BY <2>1 DEF Init, Solvent
  <1>2. SolventInv /\ [Next]_vars => SolventInv'
    <2> SUFFICES ASSUME SolventInv, [Next]_vars PROVE SolventInv'
      OBVIOUS
    <2>1. TypeOK'
      BY TypeStep
    <2>2. /\ paidIn \in Nat /\ paidOut \in Nat /\ tokens[Vault] \in Nat
          /\ paidIn' \in Nat /\ paidOut' \in Nat /\ tokens'[Vault] \in Nat
      BY <2>1 DEF TypeOK, Addresses
    <2>3. ASSUME UNCHANGED totals, tokens'[Vault] >= tokens[Vault]
          PROVE  Solvent'
      BY <2>2, <2>3 DEF Solvent, totals
    <2>4. ASSUME NEW m \in Members, Contribute(m),
                 tokens'[Vault] - tokens[Vault] = paidIn' - paidIn
          PROVE  Solvent'
      BY <2>2, <2>4 DEF Solvent, Contribute
    <2>5. ASSUME NEW m \in Members, Withdraw(m),
                 tokens'[Vault] \in {tokens[Vault], tokens[Vault] - pending[m].amount}
          PROVE  Solvent'
      <3>1. paidIn' = paidIn /\ paidOut' = paidOut + pending[m].amount
        BY <2>5 DEF Withdraw
      <3>2. pending[m].amount \in Nat
        BY <2>5, SignedParts DEF Withdraw, Take
      <3> QED BY <2>2, <2>5, <3>1, <3>2 DEF Solvent
    <2> QED BY <2>1, <2>2, <2>3, <2>4, <2>5, VaultStep
  <1>3. SolventInv => Solvent
    OBVIOUS
  <1> QED BY <1>1, <1>2, <1>3, PTL DEF Spec

-----------------------------------------------------------------------------
(* The ledger.                                                             *)

\* One more entry adds its amount to the sum of its type.
LEMMA EntryAdds ==
  ASSUME NEW q \in Seq(Entry), NEW e \in Entry,
         NEW type, NEW sum \in Nat, AddsUp(q, type, sum)
  PROVE  AddsUp(Append(q, e), type, sum + (IF e.type = type THEN e.amount ELSE 0))
  <1> DEFINE L == Len(q)
             more == IF e.type = type THEN e.amount ELSE 0
             Part(x) == IF x.type = type THEN x.amount ELSE 0
  <1>1. PICK total \in [0..L -> 0..sum] :
          /\ total[0] = 0
          /\ \A n \in 1..L : total[n] = total[n - 1] + Part(q[n])
          /\ total[L] = sum
    BY Zenon DEF AddsUp
  <1>2. L \in Nat /\ more \in Nat /\ more = Part(e)
    <2>1. e.amount \in Nat
      BY AmountsAssumption DEF Entry
    <2>2. L \in Nat
      BY LenProperties
    <2>3. more \in Nat
      BY <2>1
    <2> QED BY <2>2, <2>3
  <1>3. /\ Len(Append(q, e)) = L + 1
        /\ \A n \in 1..L : Append(q, e)[n] = q[n]
        /\ Append(q, e)[L + 1] = e
    BY AppendProperties
  <1> DEFINE longer == [n \in 0..(L + 1) |-> IF n <= L THEN total[n] ELSE sum + more]
  <1> HIDE DEF more, L, Part
  <1>4. longer \in [0..(L + 1) -> 0..(sum + more)]
    <2> SUFFICES ASSUME NEW n \in 0..(L + 1) PROVE longer[n] \in 0..(sum + more)
      OBVIOUS
    <2>1. CASE n <= L
      <3>1. total[n] \in 0..sum
        BY <1>1, <1>2, <2>1
      <3>2. longer[n] = total[n]
        BY <2>1
      <3> HIDE DEF longer
      <3> QED BY <1>2, <3>1, <3>2
    <2>2. CASE n = L + 1
      <3>1. longer[n] = sum + more
        BY <1>2, <2>2
      <3>2. sum + more \in 0..(sum + more)
        BY <1>2
      <3> HIDE DEF longer
      <3> QED BY <3>1, <3>2
    <2> QED BY <1>2, <2>1, <2>2
  <1>5. longer[0] = 0 /\ longer[L + 1] = sum + more
    BY <1>1, <1>2
  <1>6. ASSUME NEW n \in 1..(L + 1)
        PROVE  longer[n] = longer[n - 1] + Part(Append(q, e)[n])
    <2>1. CASE n <= L
      <3>1. longer[n] = total[n] /\ longer[n - 1] = total[n - 1] /\ n \in 1..L
        BY <1>2, <2>1
      <3> QED BY <1>1, <1>3, <3>1
    <2>2. CASE n = L + 1
      <3>1. n # 0 /\ ~(n <= L) /\ n - 1 = L /\ L \in 0..(L + 1)
        BY <1>2, <2>2
      <3>2. longer[n] = sum + more /\ longer[n - 1] = total[L]
        BY <3>1
      <3> HIDE DEF longer
      <3> QED BY <1>1, <1>2, <1>3, <2>2, <3>2
    <2>3. n <= L \/ n = L + 1
      BY <1>2
    <2> QED BY <2>1, <2>2, <2>3
  <1> HIDE DEF longer
  <1>7. AddsUp(Append(q, e), type, sum + more)
    BY <1>3, <1>4, <1>5, <1>6 DEF AddsUp, Part
  <1> QED BY <1>7 DEF more

LEMMA LedgerStep == TypeOK /\ LedgerTotals /\ [Next]_vars => LedgerTotals'
  <1> SUFFICES ASSUME TypeOK, LedgerTotals, [Next]_vars
               PROVE  LedgerTotals'
    OBVIOUS
  <1>1. ledger \in Seq(Entry) /\ paidIn \in Nat /\ paidOut \in Nat
    BY DEF TypeOK
  <1>2. ASSUME NEW m \in Members, Contribute(m)
        PROVE  LedgerTotals'
    <2> DEFINE e == [type |-> "contribution", member |-> m, amount |-> pending[m].amount]
    <2>1. pending[m].amount \in Amounts
      BY <1>2, SignedParts DEF Contribute, Take
    <2>2. e \in Entry
      BY <2>1 DEF Entry
    <2>3. /\ ledger' = Append(ledger, e)
          /\ paidIn' = paidIn + pending[m].amount /\ paidOut' = paidOut
      BY <1>2 DEF Contribute, RecordEntry
    <2>4. AddsUp(Append(ledger, e), "contribution", paidIn + pending[m].amount)
      BY <1>1, <2>2, EntryAdds DEF LedgerTotals
    <2>5. AddsUp(Append(ledger, e), "withdrawal", paidOut)
      BY <1>1, <2>2, EntryAdds DEF LedgerTotals
    <2> QED BY <2>3, <2>4, <2>5 DEF LedgerTotals
  <1>3. ASSUME NEW m \in Members, Withdraw(m)
        PROVE  LedgerTotals'
    <2> DEFINE e == [type |-> "withdrawal", member |-> m, amount |-> pending[m].amount]
    <2>1. pending[m].amount \in Amounts
      BY <1>3, SignedParts DEF Withdraw, Take
    <2>2. e \in Entry
      BY <2>1 DEF Entry
    <2>3. /\ ledger' = Append(ledger, e)
          /\ paidOut' = paidOut + pending[m].amount /\ paidIn' = paidIn
      BY <1>3 DEF Withdraw, RecordEntry
    <2>4. AddsUp(Append(ledger, e), "withdrawal", paidOut + pending[m].amount)
      BY <1>1, <2>2, EntryAdds DEF LedgerTotals
    <2>5. AddsUp(Append(ledger, e), "contribution", paidIn)
      BY <1>1, <2>2, EntryAdds DEF LedgerTotals
    <2> QED BY <2>3, <2>4, <2>5 DEF LedgerTotals
  <1>4. CASE UNCHANGED <<ledger, totals>>
    BY <1>4 DEF LedgerTotals, totals
  <1> QED
    BY <1>2, <1>3, <1>4
    DEF Next, vars, contract, Initialize, Sign, AddAdmin, RemoveAdmin, Close, Drop, Donate

\* Whatever was signed when, and whoever it was that the network heard first, the
\* entries the members read add up to what was paid in and paid out.
THEOREM LedgerAddsUp == Spec => []LedgerTotals
  <1>1. Init => LedgerTotals
    <2> SUFFICES ASSUME Init PROVE LedgerTotals
      OBVIOUS
    <2> DEFINE total == [n \in 0..0 |-> 0]
    <2>1. ledger = <<>> /\ Len(ledger) = 0 /\ paidIn = 0 /\ paidOut = 0
      BY DEF Init
    <2>2. total \in [0..0 -> 0..0] /\ total[0] = 0 /\ 1..0 = {}
      OBVIOUS
    <2>3. \A type : AddsUp(<<>>, type, 0)
      <3> HIDE DEF total
      <3>1. Len(<<>>) = 0
        OBVIOUS
      <3> QED BY <2>2, <3>1 DEF AddsUp
    <2> QED BY <2>1, <2>3 DEF LedgerTotals
  <1> QED BY <1>1, LedgerStep, TypeCorrect, PTL DEF Spec

-----------------------------------------------------------------------------
(* What takes tokens out of the vault.                                     *)

\* Tokens leave the vault only by a withdrawal of a caller who is the owner or
\* an admin when it is applied, and the ledger names that caller.
THEOREM OutflowOnlyByRole == Spec => OutflowByRole
  <1> DEFINE Outflow ==
        tokens'[Vault] < tokens[Vault] =>
          \E m \in Members :
            /\ m = owner \/ m \in AdminSet
            /\ ledger' = Append(ledger, [type |-> "withdrawal", member |-> m,
                                         amount |-> tokens[Vault] - tokens'[Vault]])
  <1>1. TypeOK /\ [Next]_vars => [Outflow]_vars
    <2> SUFFICES ASSUME TypeOK, [Next]_vars, tokens'[Vault] < tokens[Vault]
                 PROVE  Outflow
      OBVIOUS
    <2>1. tokens[Vault] \in Nat /\ tokens'[Vault] \in Nat /\ paidIn \in Nat
      BY TypeStep DEF TypeOK, Addresses
    <2>2. ASSUME NEW m \in Members, Contribute(m),
                 tokens'[Vault] - tokens[Vault] = paidIn' - paidIn
          PROVE  FALSE
      <3>1. paidIn' = paidIn + pending[m].amount /\ pending[m].amount \in Nat
        BY <2>2, SignedParts DEF Contribute, Take
      <3> QED BY <2>1, <2>2, <3>1
    <2>3. ASSUME NEW m \in Members, Withdraw(m),
                 tokens'[Vault] \in {tokens[Vault], tokens[Vault] - pending[m].amount}
          PROVE  Outflow
      <3>1. pending[m].amount \in Nat
        BY <2>3, SignedParts DEF Withdraw, Take
      <3>2. pending[m].amount = tokens[Vault] - tokens'[Vault]
        BY <2>1, <2>3, <3>1
      <3>3. ledger' = Append(ledger, [type |-> "withdrawal", member |-> m,
                                      amount |-> pending[m].amount])
        BY <2>3 DEF Withdraw, RecordEntry
      <3>4. m = owner \/ m \in AdminSet
        BY <2>3 DEF Withdraw, MayWithdraw
      <3> QED BY <3>2, <3>3, <3>4
    <2> HIDE DEF Outflow
    <2> QED BY <2>1, <2>2, <2>3, VaultStep
  <1> QED BY <1>1, TypeCorrect, PTL DEF Spec, OutflowByRole

\* After closing, whatever was signed before, nothing leaves the vault, nothing
\* is recorded, and the safebox stays closed.
THEOREM ClosedForGood == Spec => ClosedIsFinal
  <1> DEFINE Final == closed => closed' /\ ledger' = ledger /\ tokens'[Vault] >= tokens[Vault]
  <1>1. TypeOK /\ [Next]_vars => [Final]_vars
    <2> SUFFICES ASSUME TypeOK, [Next]_vars, closed
                 PROVE  Final
      OBVIOUS
    <2>1. tokens[Vault] \in Nat /\ tokens'[Vault] \in Nat
      BY TypeStep DEF TypeOK, Addresses
    <2>2. \A m \in Members : ~Contribute(m) /\ ~Withdraw(m)
      BY DEF Contribute, MayContribute, Withdraw, MayWithdraw
    <2>3. closed'
      BY <2>2 DEF Next, vars, contract, Initialize, Sign, AddAdmin, RemoveAdmin, Close, Drop, Donate
    <2> QED BY <2>1, <2>2, <2>3, VaultStep
  <1> QED BY <1>1, TypeCorrect, PTL DEF Spec, ClosedIsFinal
=============================================================================
