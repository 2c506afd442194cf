------------------------------- MODULE Safebox -------------------------------
(***************************************************************************)
(* The Safebox escrow contract and the members' apps that invoke it.       *)
(*                                                                         *)
(* An app simulates an invocation against the contract's current state,    *)
(* signs it and submits it; the network applies it later, after whatever   *)
(* the other members submitted in between, or never.  The contract checks  *)
(* everything again when the invocation is applied; one that fails then    *)
(* changes nothing.                                                        *)
(*                                                                         *)
(* The escrowed asset's token contract is external: it moves a balance, or *)
(* fails when the payer's balance is short.  Anyone can also send tokens   *)
(* to the contract's address without invoking it.                          *)
(***************************************************************************)
EXTENDS Naturals, Sequences, FiniteSets, SequencesExt

CONSTANTS
  Members,    \* the accounts that use the safebox
  Vault,      \* the contract's own address
  Amounts,    \* the amounts that are contributed and withdrawn
  Holdings,   \* Holdings[m]: what member m holds of the asset at the start
  MaxEntries, \* bound: entries of the contract's ledger
  MaxSigned,  \* bound: invocations in flight at the same time
  None

ASSUME VaultAssumption == Vault \notin Members
ASSUME AmountsAssumption == Amounts \subseteq Nat \ {0}
ASSUME HoldingsAssumption == Holdings \in [Members -> Nat]

MaxAdmins == 3

VARIABLES
  owner,    \* DataKey::Owner, or None before init
  admins,   \* DataKey::Admins
  closed,   \* DataKey::Closed
  ledger,   \* DataKey::Ledger
  tokens,   \* token contract: the balance of every address
  pending,  \* pending[m]: the invocation m has signed, or None
  paidIn,   \* history: sum of the contributions
  paidOut   \* history: sum of the withdrawals

contract == <<owner, admins, closed, ledger>>
totals   == <<paidIn, paidOut>>
vars     == <<contract, tokens, pending, totals>>

-----------------------------------------------------------------------------

Addresses == Members \cup {Vault}

\* The member invoking is left out: pending is indexed by it.  "arg" is the
\* recipient of a withdrawal or the admin to add or to remove.
Invocation ==
  [op : {"contribute", "withdraw", "add_admin", "remove_admin", "close"},
   arg : Addresses, amount : Amounts \cup {0}]

ASSUME NoneAssumption == None \notin Addresses /\ None \notin Invocation

\* What member m can ask of the contract.  The app's screens withdraw to the
\* member's own account and have no button to close; the contract takes more.
Requested(m) ==
  [op : {"contribute"}, arg : {m}, amount : Amounts]
  \cup [op : {"withdraw"}, arg : Addresses, amount : Amounts]
  \cup [op : {"add_admin", "remove_admin"}, arg : Addresses, amount : {0}]
  \cup [op : {"close"}, arg : {m}, amount : {0}]

Entry == [type : {"contribution", "withdrawal"}, member : Members, amount : Amounts]

AdminSet == {admins[n] : n \in 1..Len(admins)}

Init ==
  /\ owner = None
  /\ admins = <<>>
  /\ closed = FALSE
  /\ ledger = <<>>
  /\ tokens = [a \in Addresses |-> IF a = Vault THEN 0 ELSE Holdings[a]]
  /\ pending = [m \in Members |-> None]
  /\ paidIn = 0
  /\ paidOut = 0

\* init, by the member who deployed the contract: a second one fails.
Initialize(m) ==
  /\ owner = None
  /\ owner' = m
  /\ UNCHANGED <<admins, closed, ledger, tokens, pending, totals>>

-----------------------------------------------------------------------------
(* What each entry point demands of the caller m and of the contract.      *)

\* Mutant: a withdrawal is not refused after closing.
MayWithdrawClosed(m, amt) ==
  /\ owner # None
  /\ m = owner \/ m \in AdminSet
  /\ tokens[Vault] >= amt

\* Mutant: the contributor's balance is not looked at.
MayContributeUnfunded(m, amt) == owner # None /\ ~closed

MayContribute(m, amt) ==
  /\ owner # None
  /\ ~closed
  /\ tokens[m] >= amt

MayWithdraw(m, amt) ==
  /\ owner # None
  /\ ~closed
  /\ m = owner \/ m \in AdminSet
  /\ tokens[Vault] >= amt

\* Mutant: the cap compared with > instead of >=.
MayAddAdminPastCap(m, a) ==
  /\ owner # None /\ m = owner
  /\ a # owner
  /\ Len(admins) <= MaxAdmins
  /\ a \notin AdminSet

MayAddAdmin(m, a) ==
  /\ owner # None /\ m = owner
  /\ a # owner
  /\ Len(admins) < MaxAdmins
  /\ a \notin AdminSet

MayRemoveAdmin(m, a) == owner # None /\ m = owner /\ a \in AdminSet

MayClose(m) == owner # None /\ m = owner

Permitted(m, inv) ==
  \/ inv.op = "contribute" /\ MayContribute(m, inv.amount)
  \/ inv.op = "withdraw" /\ MayWithdraw(m, inv.amount)
  \/ inv.op = "add_admin" /\ MayAddAdmin(m, inv.arg)
  \/ inv.op = "remove_admin" /\ MayRemoveAdmin(m, inv.arg)
  \/ inv.op = "close" /\ MayClose(m)

\* The app simulates the invocation; only one that would succeed is signed.
\* An account's next transaction waits for the one before it.
Sign(m, inv) ==
  /\ pending[m] = None
  /\ Cardinality({k \in Members : pending[k] # None}) < MaxSigned
  /\ inv \in Requested(m)
  /\ Permitted(m, inv)
  /\ pending' = [pending EXCEPT ![m] = inv]
  /\ UNCHANGED <<contract, tokens, totals>>

-----------------------------------------------------------------------------
(* The network applies what was signed.                                    *)

Take(m, op) ==
  /\ pending[m] # None
  /\ pending[m].op = op
  /\ pending' = [pending EXCEPT ![m] = None]

Transfer(from, to, amt) ==
  [a \in Addresses |-> tokens[a] - (IF a = from THEN amt ELSE 0)
                                 + (IF a = to THEN amt ELSE 0)]

\* Mutant: the ledger is not loaded before the entry is pushed.
RecordEntryUnloaded(type, m, amt) ==
  /\ Len(ledger) < MaxEntries
  /\ ledger' = <<[type |-> type, member |-> m, amount |-> amt]>>

RecordEntry(type, m, amt) ==
  /\ Len(ledger) < MaxEntries
  /\ ledger' = Append(ledger, [type |-> type, member |-> m, amount |-> amt])

Contribute(m) ==
  LET amt == pending[m].amount IN
  /\ Take(m, "contribute")
  /\ MayContribute(m, amt)
  /\ tokens' = Transfer(m, Vault, amt)
  /\ RecordEntry("contribution", m, amt)
  /\ paidIn' = paidIn + amt
  /\ UNCHANGED <<owner, admins, closed, paidOut>>

\* Mutants: the contract relies on the simulation for the caller's role, or
\* does not record a withdrawal.
WithdrawSimulated(m) ==
  LET amt == pending[m].amount IN
  /\ Take(m, "withdraw")
  /\ owner # None /\ ~closed
  /\ tokens[Vault] >= amt
  /\ tokens' = Transfer(Vault, pending[m].arg, amt)
  /\ RecordEntry("withdrawal", m, amt)
  /\ paidOut' = paidOut + amt
  /\ UNCHANGED <<owner, admins, closed, paidIn>>

WithdrawUnrecorded(m) ==
  LET amt == pending[m].amount IN
  /\ Take(m, "withdraw")
  /\ MayWithdraw(m, amt)
  /\ tokens' = Transfer(Vault, pending[m].arg, amt)
  /\ UNCHANGED <<contract, totals>>

Withdraw(m) ==
  LET amt == pending[m].amount IN
  /\ Take(m, "withdraw")
  /\ MayWithdraw(m, amt)
  /\ tokens' = Transfer(Vault, pending[m].arg, amt)
  /\ RecordEntry("withdrawal", m, amt)
  /\ paidOut' = paidOut + amt
  /\ UNCHANGED <<owner, admins, closed, paidIn>>

AddAdmin(m) ==
  /\ Take(m, "add_admin")
  /\ MayAddAdmin(m, pending[m].arg)
  /\ admins' = Append(admins, pending[m].arg)
  /\ UNCHANGED <<owner, closed, ledger, tokens, totals>>

RemoveAdmin(m) ==
  /\ Take(m, "remove_admin")
  /\ MayRemoveAdmin(m, pending[m].arg)
  /\ \E n \in 1..Len(admins) :
       /\ admins[n] = pending[m].arg
       /\ \A k \in 1..(n - 1) : admins[k] # pending[m].arg
       /\ admins' = RemoveAt(admins, n)
  /\ UNCHANGED <<owner, closed, ledger, tokens, totals>>

Close(m) ==
  /\ Take(m, "close")
  /\ MayClose(m)
  /\ closed' = TRUE
  /\ UNCHANGED <<owner, admins, ledger, tokens, totals>>

\* The contract refuses it, or it never reaches the network: nothing happens.
Drop(m) ==
  /\ pending[m] # None
  /\ pending' = [pending EXCEPT ![m] = None]
  /\ UNCHANGED <<contract, tokens, totals>>

\* A member pays the contract's address directly.
Donate(m, amt) ==
  /\ tokens[m] >= amt
  /\ tokens' = Transfer(m, Vault, amt)
  /\ UNCHANGED <<contract, pending, totals>>

Next ==
  \E m \in Members :
    \/ Initialize(m)
    \/ \E inv \in Requested(m) : Sign(m, inv)
    \/ Contribute(m)
    \/ Withdraw(m)
    \/ AddAdmin(m)
    \/ RemoveAdmin(m)
    \/ Close(m)
    \/ Drop(m)
    \/ \E amt \in Amounts : Donate(m, amt)

Spec == Init /\ [][Next]_vars

-----------------------------------------------------------------------------
(* Properties.                                                             *)

\* Type invariant of the contract, the balances and the signed invocations.
TypeOK ==
  /\ owner \in Members \cup {None}
  /\ admins \in Seq(Addresses)
  /\ closed \in BOOLEAN
  /\ ledger \in Seq(Entry)
  /\ tokens \in [Addresses -> Nat]
  /\ pending \in [Members -> Invocation \cup {None}]
  /\ \A m \in Members : pending[m] \in Requested(m) \cup {None}
  /\ paidIn \in Nat
  /\ paidOut \in Nat

\* "There can never be more than MAX_ADMINS (= 3) admins", no admin is listed
\* twice (removing one would leave the other) and the owner is not one.
AdminsBounded ==
  /\ Len(admins) <= MaxAdmins
  /\ \A n, k \in 1..Len(admins) : admins[n] = admins[k] => n = k
  /\ owner \notin AdminSet

\* The vault holds at least what the contributions less the withdrawals come
\* to, whatever was signed against an older state; tokens sent directly and a
\* withdrawal to the vault itself can only leave it more.
Solvent == paidIn <= tokens[Vault] + paidOut

\* The entries of one type in entries come to sum: total[n] is what the first n
\* contribute.
AddsUp(entries, type, sum) ==
  \E total \in [0..Len(entries) -> 0..sum] :
    /\ total[0] = 0
    /\ \A n \in 1..Len(entries) :
         total[n] = total[n - 1] + (IF entries[n].type = type THEN entries[n].amount ELSE 0)
    /\ total[Len(entries)] = sum

\* The ledger the members read adds up to what was really paid in and out.
LedgerTotals ==
  /\ AddsUp(ledger, "contribution", paidIn)
  /\ AddsUp(ledger, "withdrawal", paidOut)

\* "Only the owner or a designated admin may withdraw": tokens leave the vault
\* only for a caller who holds the role when the network applies the
\* withdrawal, not when it was simulated, and the ledger shows who it was.
OutflowByRole ==
  [][tokens'[Vault] < tokens[Vault] =>
       \E m \in Members :
         /\ m = owner \/ m \in AdminSet
         /\ ledger' = Append(ledger, [type |-> "withdrawal", member |-> m,
                                      amount |-> tokens[Vault] - tokens'[Vault]])]_vars

\* "Withdrawals/contributions refuse afterwards": once closed, the safebox stays
\* closed, nothing leaves the vault and nothing is recorded, also for what was
\* signed before it closed.
ClosedIsFinal ==
  [][closed => closed' /\ ledger' = ledger /\ tokens'[Vault] >= tokens[Vault]]_vars
=============================================================================
