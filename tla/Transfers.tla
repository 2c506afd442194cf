------------------------------ MODULE Transfers ------------------------------
(***************************************************************************)
(* Payments between users: PayTagService, TransferService, QrPayService,   *)
(* SplitBillService and the payer's app, composed with the directory of    *)
(* keys that Accounts implements, while keys are still being registered.   *)
(*                                                                         *)
(* A payer resolves a PayTag, a public key or a payment QR to a            *)
(* destination, signs and submits the payment to the Stellar network, and  *)
(* reports it; the backend looks the transaction up on Horizon, which      *)
(* lags, and records it.  Nobody is named to the payer before the payment: *)
(* the receipt names the user that was resolved, and the record of a QR    *)
(* payment keeps the user of the QR.  A split bill names its contributors  *)
(* by tag or key and stores them one after the other.  Requests run in     *)
(* handlers that give way at each database and each Horizon call.          *)
(*                                                                         *)
(* Any user may report any transaction, with any keys, and again.  The     *)
(* source of the transaction is never compared, so who paid is not part of *)
(* the state.                                                              *)
(*                                                                         *)
(* A payment stands for its transaction hash.  Amounts and assets, which   *)
(* are compared just as the destination is, and shares are left out.       *)
(***************************************************************************)
EXTENDS AccountDirectory, Naturals, Sequences

CONSTANTS
  Tags,
  Payments,  \* payments that may be attempted
  Bills,     \* split bills that may be created
  Lists,     \* lists of contributors that pass the checks before a bill is stored
  Reports,   \* what clients may report of a payment
  Handlers   \* request handlers running at the same time

References == Tags \cup Keys

TransferRecord == [user : Users, from : Keys, to : Keys]

ASSUME ReferencesAssumption == Tags \cap Keys = {}

ASSUME ReportsAssumption == Reports \subseteq TransferRecord

ASSUME ListsAssumption ==
  /\ Lists \subseteq Seq(References)
  /\ \A list \in Lists : Len(list) > 0
  /\ \A list \in Lists : \A i, j \in 1..Len(list) : list[i] = list[j] => i = j

ASSUME NoneAssumption ==
  /\ None \notin Users /\ None \notin Keys
  /\ None \notin Payments /\ None \notin Bills

VARIABLES
  holder,   \* holder[t]: the user of PayTag t, or None
  stage,    \* stage[p]: how far the app is with payment p
  dest,     \* dest[p]: the key the payment goes to
  payee,    \* payee[p]: the user it was resolved to, or None
  ledger,   \* payments applied on the Stellar ledger
  horizon,  \* those Horizon knows
  record,   \* record[p]: TransferRecord of p, or None
  creator,  \* creator[b]: SplitBill.creatorAppUserId, or None
  asked,    \* asked[b]: the contributors the creation was asked for
  rows,     \* rows[b]: the contributors stored so far
  answered, \* bills whose creation was answered
  pc,       \* pc[h]: where handler h is
  job,      \* job[h]: the payment or the bill it works on
  report,   \* report[h]: the caller, and the keys reported
  arg,      \* arg[h]: the contributor looked up
  row,      \* row[h]: the key in the user row that was read
  held      \* history: <<u, r>> for every key or tag r that u ever had

payment == <<stage, dest, payee>>
chain   == <<ledger, horizon>>
bill    == <<creator, asked, rows, answered>>
handler == <<pc, job, report, arg, row>>
vars    == <<directory, holder, payment, chain, record, bill, handler, held>>

-----------------------------------------------------------------------------

Init ==
  /\ NoKeys
  /\ holder = [t \in Tags |-> None]
  /\ stage = [p \in Payments |-> "idle"]
  /\ dest = [p \in Payments |-> None]
  /\ payee = [p \in Payments |-> None]
  /\ ledger = {}
  /\ horizon = {}
  /\ record = [p \in Payments |-> None]
  /\ creator = [b \in Bills |-> None]
  /\ asked = [b \in Bills |-> <<>>]
  /\ rows = [b \in Bills |-> <<>>]
  /\ answered = {}
  /\ pc = [h \in Handlers |-> "free"]
  /\ job = [h \in Handlers |-> None]
  /\ report = [h \in Handlers |-> None]
  /\ arg = [h \in Handlers |-> None]
  /\ row = [h \in Handlers |-> None]
  /\ held = {}

Begin(h, at, what, said, k) ==
  /\ pc[h] = "free"
  /\ pc' = [pc EXCEPT ![h] = at]
  /\ job' = [job EXCEPT ![h] = what]
  /\ report' = [report EXCEPT ![h] = said]
  /\ arg' = [arg EXCEPT ![h] = None]
  /\ row' = [row EXCEPT ![h] = k]

Finish(h) ==
  /\ pc' = [pc EXCEPT ![h] = "free"]
  /\ job' = [job EXCEPT ![h] = None]
  /\ report' = [report EXCEPT ![h] = None]
  /\ arg' = [arg EXCEPT ![h] = None]
  /\ row' = [row EXCEPT ![h] = None]

\* The user whose key is k, or None: the row found by its unique key.
OwnerOfKey(k) == IF \E u \in Users : key[u] = k THEN CHOOSE u \in Users : key[u] = k ELSE None

-----------------------------------------------------------------------------
(* The directory of keys and tags.                                         *)

\* A step of the directory of keys.
KeyStep ==
  /\ DirectoryNext
  /\ held' = held \cup {<<u, key'[u]>> : u \in {v \in Users : key'[v] # None}}
  /\ UNCHANGED <<holder, payment, chain, record, bill, handler>>

\* register: one statement; the tag the user had before is free again.
RegisterPayTag(u, t) ==
  /\ holder[t] \in {None, u}
  /\ holder' = [s \in Tags |-> IF s = t THEN u ELSE IF holder[s] = u THEN None ELSE holder[s]]
  /\ held' = held \cup {<<u, t>>}
  /\ UNCHANGED <<directory, payment, chain, record, bill, handler>>

-----------------------------------------------------------------------------
(* The payer's app.                                                        *)

\* The destination is key k, of user v if it is known whose it is: they were
\* read together.
Resolve(p, v, k) ==
  /\ stage[p] = "idle"
  /\ stage' = [stage EXCEPT ![p] = "resolved"]
  /\ dest' = [dest EXCEPT ![p] = k]
  /\ payee' = [payee EXCEPT ![p] = v]
  /\ UNCHANGED <<directory, holder, chain, record, bill, handler, held>>

\* resolveTarget with a PayTag: its user must have a key.
ResolveTag(p, t) ==
  /\ holder[t] # None
  /\ key[holder[t]] # None
  /\ Resolve(p, holder[t], key[holder[t]])

\* resolveTarget with a public key, whose user need not be known.
ResolveKey(p, k) == Resolve(p, OwnerOfKey(k), k)

\* verify: the backend signs tokens with a user and the key in that user's row
\* only.  They expire, but any key the user has had may be in one.
Signed(v, k) == <<v, k>> \in held

\* decode: a payment QR names its user and the key of the time when it was
\* generated.
DecodeQr(p, v, k) ==
  /\ Signed(v, k)
  /\ Resolve(p, v, k)

\* The PIN is not given, or the network refuses the payment.
Cancel(p) ==
  /\ stage[p] = "resolved"
  /\ stage' = [stage EXCEPT ![p] = "over"]
  /\ UNCHANGED <<directory, holder, dest, payee, chain, record, bill, handler, held>>

\* signAndSubmitTransfer: the payment is applied.
Submit(p) ==
  /\ stage[p] = "resolved"
  /\ stage' = [stage EXCEPT ![p] = "over"]
  /\ ledger' = ledger \cup {p}
  /\ UNCHANGED <<directory, holder, dest, payee, horizon, record, bill, handler, held>>

\* Horizon catches up with the ledger.
Ingest ==
  /\ horizon' = ledger
  /\ UNCHANGED <<directory, holder, payment, ledger, record, bill, handler, held>>

-----------------------------------------------------------------------------
(* recordTransfer.                                                         *)

\* The row of the caller is read, with the key it has now.
BeginRecord(h, p, said) ==
  /\ Begin(h, "verifying", p, said, key[said.user])
  /\ UNCHANGED <<directory, holder, payment, chain, record, bill, held>>

\* Mutant: that the transaction exists is enough.
VerifiedExists(h) == job[h] \in horizon

\* Horizon has the transaction, with a payment to the destination reported.
Verified(h) == job[h] \in horizon /\ dest[job[h]] = report[h].to

\* The source reported, which is not the transaction's, is the key in the row.
OwnSource(h) == row[h] = report[h].from

Verify(h) ==
  /\ pc[h] = "verifying"
  /\ Verified(h)
  /\ OwnSource(h)
  /\ pc' = [pc EXCEPT ![h] = "recording"]
  /\ UNCHANGED <<directory, holder, payment, chain, record, bill, job, report, arg, row, held>>

RejectReport(h) ==
  /\ pc[h] = "verifying"
  /\ ~Verified(h) \/ ~OwnSource(h)
  /\ Finish(h)
  /\ UNCHANGED <<directory, holder, payment, chain, record, bill, held>>

Record(h) ==
  /\ pc[h] = "recording"
  /\ record[job[h]] = None
  /\ record' = [record EXCEPT ![job[h]] = report[h]]
  /\ Finish(h)
  /\ UNCHANGED <<directory, holder, payment, chain, bill, held>>

\* Hashes are unique: the record that exists is returned.
AlreadyRecorded(h) ==
  /\ pc[h] = "recording"
  /\ record[job[h]] # None
  /\ Finish(h)
  /\ UNCHANGED <<directory, holder, payment, chain, record, bill, held>>

-----------------------------------------------------------------------------
(* Split bills.                                                            *)

\* create: the list is checked as it stands, then the bill is stored.
BeginBill(h, u, b, list) ==
  /\ creator[b] = None
  /\ Begin(h, "resolving", b, None, None)
  /\ creator' = [creator EXCEPT ![b] = u]
  /\ asked' = [asked EXCEPT ![b] = list]
  /\ UNCHANGED <<directory, holder, payment, chain, record, rows, answered, held>>

\* The user that the next reference of the bill stands for now, or None.
NextContributor(b) ==
  LET ref == asked[b][Len(rows[b]) + 1]
  IN  IF ref \in Tags THEN holder[ref] ELSE OwnerOfKey(ref)

Whole(b) == Len(rows[b]) = Len(asked[b])

\* Mutant: whether a user was found is not looked at.
FindAnybody(h) ==
  /\ pc[h] = "resolving"
  /\ ~Whole(job[h])
  /\ pc' = [pc EXCEPT ![h] = "adding"]
  /\ arg' = [arg EXCEPT ![h] = NextContributor(job[h])]
  /\ UNCHANGED <<directory, holder, payment, chain, record, bill, job, report, row, held>>

FindContributor(h) ==
  /\ pc[h] = "resolving"
  /\ ~Whole(job[h])
  /\ NextContributor(job[h]) # None
  /\ pc' = [pc EXCEPT ![h] = "adding"]
  /\ arg' = [arg EXCEPT ![h] = NextContributor(job[h])]
  /\ UNCHANGED <<directory, holder, payment, chain, record, bill, job, report, row, held>>

\* The user is a contributor of the bill already.
Twice(h) == \E i \in 1..Len(rows[job[h]]) : rows[job[h]][i] = arg[h]

\* Mutant: the pair of bill and user need not be unique.
AddAnyContributor(h) ==
  /\ pc[h] = "adding"
  /\ rows' = [rows EXCEPT ![job[h]] = Append(@, arg[h])]
  /\ pc' = [pc EXCEPT ![h] = "resolving"]
  /\ arg' = [arg EXCEPT ![h] = None]
  /\ UNCHANGED <<directory, holder, payment, chain, record, creator, asked, answered, job, report, row, held>>

AddContributor(h) ==
  /\ pc[h] = "adding"
  /\ ~Twice(h)
  /\ rows' = [rows EXCEPT ![job[h]] = Append(@, arg[h])]
  /\ pc' = [pc EXCEPT ![h] = "resolving"]
  /\ arg' = [arg EXCEPT ![h] = None]
  /\ UNCHANGED <<directory, holder, payment, chain, record, creator, asked, answered, job, report, row, held>>

\* A reference stands for nobody, or for a contributor the bill has: the
\* request fails, and what was stored stays.
BillRefused(h) ==
  /\ \/ pc[h] = "resolving" /\ ~Whole(job[h]) /\ NextContributor(job[h]) = None
     \/ pc[h] = "adding" /\ Twice(h)
  /\ Finish(h)
  /\ UNCHANGED <<directory, holder, payment, chain, record, bill, held>>

AnswerBill(h) ==
  /\ pc[h] = "resolving"
  /\ Whole(job[h])
  /\ answered' = answered \cup {job[h]}
  /\ Finish(h)
  /\ UNCHANGED <<directory, holder, payment, chain, record, creator, asked, rows, held>>

\* The server restarts: every request in progress is lost.
Restart ==
  /\ pc' = [h \in Handlers |-> "free"]
  /\ job' = [h \in Handlers |-> None]
  /\ report' = [h \in Handlers |-> None]
  /\ arg' = [h \in Handlers |-> None]
  /\ row' = [h \in Handlers |-> None]
  /\ UNCHANGED <<directory, holder, payment, chain, record, bill, held>>

Next ==
  \/ KeyStep
  \/ \E u \in Users, t \in Tags : RegisterPayTag(u, t)
  \/ \E p \in Payments, t \in Tags : ResolveTag(p, t)
  \/ \E p \in Payments, k \in Keys : ResolveKey(p, k)
  \/ \E p \in Payments, v \in Users, k \in Keys : DecodeQr(p, v, k)
  \/ \E p \in Payments : Cancel(p)
  \/ \E p \in Payments : Submit(p)
  \/ Ingest
  \/ \E h \in Handlers, p \in Payments, said \in Reports : BeginRecord(h, p, said)
  \/ \E h \in Handlers : Verify(h)
  \/ \E h \in Handlers : RejectReport(h)
  \/ \E h \in Handlers : Record(h)
  \/ \E h \in Handlers : AlreadyRecorded(h)
  \/ \E h \in Handlers, u \in Users, b \in Bills, list \in Lists : BeginBill(h, u, b, list)
  \/ \E h \in Handlers : FindContributor(h)
  \/ \E h \in Handlers : AddContributor(h)
  \/ \E h \in Handlers : BillRefused(h)
  \/ \E h \in Handlers : AnswerBill(h)
  \/ Restart

Spec == Init /\ [][Next]_vars

-----------------------------------------------------------------------------
(* Properties.                                                             *)

\* Type invariant: a payment that was resolved has its destination, and a
\* handler that works has what its next step needs.
TypeOK ==
  /\ KeyTypeOK
  /\ holder \in [Tags -> Users \cup {None}]
  /\ stage \in [Payments -> {"idle", "resolved", "over"}]
  /\ dest \in [Payments -> Keys \cup {None}]
  /\ payee \in [Payments -> Users \cup {None}]
  /\ horizon \subseteq ledger /\ ledger \subseteq Payments
  /\ record \in [Payments -> TransferRecord \cup {None}]
  /\ creator \in [Bills -> Users \cup {None}]
  /\ asked \in [Bills -> Seq(References)]
  /\ rows \in [Bills -> Seq(Users)]
  /\ answered \subseteq Bills
  /\ pc \in [Handlers -> {"free", "verifying", "recording", "resolving", "adding"}]
  /\ job \in [Handlers -> Payments \cup Bills \cup {None}]
  /\ report \in [Handlers -> TransferRecord \cup {None}]
  /\ arg \in [Handlers -> Users \cup {None}]
  /\ row \in [Handlers -> Keys \cup {None}]
  /\ held \subseteq Users \X References
  /\ \A p \in Payments :
       /\ stage[p] = "idle" => p \notin ledger
       /\ stage[p] # "idle" => dest[p] \in Keys
  /\ \A h \in Handlers :
       /\ pc[h] \in {"verifying", "recording"} =>
            job[h] \in Payments /\ report[h] \in TransferRecord
       /\ pc[h] \in {"resolving", "adding"} => job[h] \in Bills /\ creator[job[h]] \in Users
       /\ pc[h] = "adding" => arg[h] \in Users

\* Whom the receipt of a payment names, or its QR, is who was paid: the
\* destination was the key of that user, and is another user's key only if
\* the user has had a second one.
PayeeIsPaid ==
  \A p \in ledger : payee[p] # None =>
    /\ <<payee[p], dest[p]>> \in held
    /\ \A w \in Users \ {payee[p]} : key[w] = dest[p] =>
         \E k \in Keys \ {dest[p]} : <<payee[p], k>> \in held

\* A record is of a payment on the chain, to the destination it names, and of
\* a user who has had the key it gives as the source: also when the report
\* was sent twice, by several users, or the caller's key was replaced on the
\* way.  That it is of the payer it does not say.
RecordTellsChain ==
  \A p \in Payments : record[p] # None =>
    /\ p \in ledger
    /\ record[p].to = dest[p]
    /\ <<record[p].user, record[p].from>> \in held

\* The contributors of a bill are the users its references stood for, in
\* order and each once, although tags and keys change while they are looked
\* up; a bill whose creation was answered lacks none of them.
BillsNameTheirContributors ==
  \A b \in Bills :
    /\ Len(rows[b]) <= Len(asked[b])
    /\ \A i \in 1..Len(rows[b]) : <<rows[b][i], asked[b][i]>> \in held
    /\ \A i, j \in 1..Len(rows[b]) : rows[b][i] = rows[b][j] => i = j
    /\ b \in answered => Whole(b)
=============================================================================
