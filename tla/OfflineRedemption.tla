-------------------------- MODULE OfflineRedemption --------------------------
(***************************************************************************)
(* Settling offline payments: OfflineRedemptionService.syncAndRedeemAll as *)
(* the reserve sheet runs it, on top of OfflineReserve.                    *)
(*                                                                         *)
(* Every sheet owns a redemption service with its own list of records and, *)
(* inside it, its own reserve service with its own pending list.  A run    *)
(* loads both from storage, then works through the list: destination, PIN, *)
(* submission to Horizon, report to the backend, result.  Settled          *)
(* authorizations leave the stored queue one by one; the records are       *)
(* stored once, at the end.                                                *)
(*                                                                         *)
(* A sheet can be dismissed while its run goes on, and the scanner behind  *)
(* a sheet opened from QR Pay stays live: a request it reads puts a        *)
(* Confirm screen over the sheet, whose spend then races the sheet's run.  *)
(* Where the PIN dialog stands among these routes is left open.            *)
(*                                                                         *)
(* The Stellar network is external: it applies a submitted payment or not, *)
(* and the answer reaches the app or not.  The list is worked through in   *)
(* any order.                                                              *)
(***************************************************************************)
EXTENDS OfflineReserve

CONSTANTS
  Sheets,         \* reserve sheet instances
  SheetsOverlap,  \* may a sheet open while another is open or still syncs?
  MaxPaid         \* bound: on-chain payments of one authorization

ASSUME OverlapAssumption == SheetsOverlap \in BOOLEAN
ASSUME MaxPaidAssumption == MaxPaid \in Nat

\* Where a sheet is opened from.
Places == {"QrPay", "Confirm"}

ASSUME SheetsAssumption == None \notin Places /\ None \notin Authorization

VARIABLES
  place,      \* place[k]: the screen sheet k is open over, or None
  run,        \* run[k]: where sheet k's syncAndRedeemAll is
  list,       \* list[k]: _pendingAuthQueue of the sheet's inner reserve service
  recs,       \* recs[k]: _records of the sheet's redemption service
  todo,       \* todo[k]: captured authorizations the run has not looked at
  cur,        \* cur[k]: the authorization in hand
  asOf,       \* asOf[k]: what was past its window when the run read the clock
  late,       \* authorizations whose 48 hour redemption window has passed
  paid,       \* Stellar: paid[id], payments applied for authorization id
  unsettled,  \* history: unsettled[id], payments applied by attempts that
              \* ended before the app had settled them
  raced       \* history: authorizations queued while a sheet held a list

sync    == <<run, list, recs, todo, cur, asOf>>
stellar == <<paid, unsettled>>
redemption     == <<place, sync, late, stellar, raced>>
redemptionVars == <<vars, redemption>>

RunStages == {"idle", "next", "pin", "submitting", "accepted", "recording"}

\* Stages at which an attempt's payment has been applied.
Applied == {"accepted", "recording"}

InitRedemption ==
  /\ Init
  /\ place = [k \in Sheets |-> None]
  /\ run = [k \in Sheets |-> "idle"]
  /\ list = [k \in Sheets |-> {}]
  /\ recs = [k \in Sheets |-> <<>>]
  /\ todo = [k \in Sheets |-> {}]
  /\ cur = [k \in Sheets |-> None]
  /\ asOf = [k \in Sheets |-> {}]
  /\ late = {}
  /\ paid = [id \in AuthIds |-> 0]
  /\ unsettled = [id \in AuthIds |-> 0]
  /\ raced = {}

-----------------------------------------------------------------------------
(* The sheets.                                                             *)

\* The top route: over the Confirm screen, or over QR Pay when there is none.
InFront(k) ==
  \/ place[k] = "Confirm"
  \/ place[k] = "QrPay" /\ top = None

Busy(k) == run[k] # "idle"

\* A running sheet, also after it was dismissed, or an open one that kept its
\* list from an earlier run: it works on its own copy of the queue.
Holding(k) == Busy(k) \/ (place[k] # None /\ list[k] # {})

\* A new sheet, with new services; initState loads the records.
OpenSheet(k, p) ==
  /\ place[k] = None
  /\ ~Busy(k)
  /\ \A j \in Sheets : place[j] # p
  /\ p = "QrPay" <=> top = None
  /\ SheetReachable
  /\ SheetsOverlap \/ \A j \in Sheets : place[j] = None /\ ~Busy(j)
  /\ place' = [place EXCEPT ![k] = p]
  /\ list' = [list EXCEPT ![k] = {}]
  /\ recs' = [recs EXCEPT ![k] = records]
  /\ UNCHANGED <<vars, run, todo, cur, asOf, late, stellar, raced>>

\* Dismissed, except while the PIN dialog covers it; a run goes on.
CloseSheet(k) ==
  /\ InFront(k)
  /\ run[k] # "pin"
  /\ place' = [place EXCEPT ![k] = None]
  /\ UNCHANGED <<vars, sync, late, stellar, raced>>

\* "Sync & Redeem", offered when there are records: load the records, capture
\* the pending list (the service's own unless it is empty), read the clock and
\* connect.  Without a connection the run ends here.
StartSync(k) ==
  LET captured == IF list[k] # {} THEN list[k] ELSE queue IN
  /\ InFront(k)
  /\ ~Busy(k)
  /\ recs[k] # <<>>
  /\ recs' = [recs EXCEPT ![k] = records]
  /\ list' = [list EXCEPT ![k] = captured]
  /\ \/ /\ run' = [run EXCEPT ![k] = "next"]
        /\ todo' = [todo EXCEPT ![k] = captured]
        /\ asOf' = [asOf EXCEPT ![k] = late]
     \/ UNCHANGED <<run, todo, asOf>>
  /\ UNCHANGED <<vars, place, cur, late, stellar, raced>>

-----------------------------------------------------------------------------
(* The loop.                                                               *)

\* The record of id gets a new status; a missing record is put in front.
SetStatus(rs, id, status) ==
  LET hits == {n \in 1..Len(rs) : rs[n].id = id}
      r == [id |-> id, status |-> status]
  IN  IF hits = {} THEN <<r>> \o rs
      ELSE [rs EXCEPT ![CHOOSE n \in hits : \A m \in hits : n <= m] = r]

\* removePendingAuthorization: the service's own list replaces the stored one.
Dequeue(k, a) ==
  /\ list' = [list EXCEPT ![k] = @ \ {a}]
  /\ queue' = list[k] \ {a}
  /\ UNCHANGED <<allowance, records, provisioning, top, screen, lapsed, history>>

TakeUp(k, a) ==
  /\ run[k] = "next"
  /\ a \in todo[k]
  /\ todo' = [todo EXCEPT ![k] = @ \ {a}]

\* Mutant: an expired authorization stays in the queue.
ExpireQueued(k, a) ==
  /\ TakeUp(k, a)
  /\ a.id \in asOf[k]
  /\ recs' = [recs EXCEPT ![k] = SetStatus(@, a.id, "expired")]
  /\ UNCHANGED <<vars, place, run, list, cur, asOf, late, stellar, raced>>

\* Past its 48 hours: expired, out of the queue, never submitted.
Expire(k, a) ==
  /\ TakeUp(k, a)
  /\ a.id \in asOf[k]
  /\ recs' = [recs EXCEPT ![k] = SetStatus(@, a.id, "expired")]
  /\ Dequeue(k, a)
  /\ UNCHANGED <<place, run, cur, asOf, late, stellar, raced>>

\* Mutant: what cannot be resolved leaves the queue.
ResolveFailsDropping(k, a) ==
  /\ TakeUp(k, a)
  /\ a.id \notin asOf[k]
  /\ recs' = [recs EXCEPT ![k] = SetStatus(@, a.id, "failed")]
  /\ Dequeue(k, a)
  /\ UNCHANGED <<place, run, cur, asOf, late, stellar, raced>>

\* The destination cannot be resolved.
ResolveFails(k, a) ==
  /\ TakeUp(k, a)
  /\ a.id \notin asOf[k]
  /\ recs' = [recs EXCEPT ![k] = SetStatus(@, a.id, "failed")]
  /\ UNCHANGED <<vars, place, run, list, cur, asOf, late, stellar, raced>>

\* Resolved, but the sheet is gone: the authorization is passed over.
PassOver(k, a) ==
  /\ TakeUp(k, a)
  /\ a.id \notin asOf[k]
  /\ place[k] = None
  /\ UNCHANGED <<vars, place, run, list, recs, cur, asOf, late, stellar, raced>>

\* Resolved: the PIN dialog opens.
AskPin(k, a) ==
  /\ TakeUp(k, a)
  /\ a.id \notin asOf[k]
  /\ place[k] # None
  /\ run' = [run EXCEPT ![k] = "pin"]
  /\ cur' = [cur EXCEPT ![k] = a]
  /\ UNCHANGED <<vars, place, list, recs, asOf, late, stellar, raced>>

\* Mutants: the run goes on holding the failed attempt, or retries it at once.
FailAttemptHolding(k) ==
  /\ recs' = [recs EXCEPT ![k] = SetStatus(@, cur[k].id, "failed")]
  /\ run' = [run EXCEPT ![k] = "next"]
  /\ UNCHANGED <<vars, place, list, todo, cur, asOf, late, raced>>

FailAttemptRetrying(k) ==
  /\ recs' = [recs EXCEPT ![k] = SetStatus(@, cur[k].id, "failed")]
  /\ run' = [run EXCEPT ![k] = "next"]
  /\ todo' = [todo EXCEPT ![k] = @ \cup {cur[k]}]
  /\ cur' = [cur EXCEPT ![k] = None]
  /\ UNCHANGED <<vars, place, list, asOf, late, raced>>

\* The attempt is marked failed; the authorization stays queued for a retry.
FailAttempt(k) ==
  /\ recs' = [recs EXCEPT ![k] = SetStatus(@, cur[k].id, "failed")]
  /\ run' = [run EXCEPT ![k] = "next"]
  /\ cur' = [cur EXCEPT ![k] = None]
  /\ UNCHANGED <<vars, place, list, todo, asOf, late, raced>>

\* Cancelled, or a wrong PIN.
RefusePin(k) ==
  /\ run[k] = "pin"
  /\ FailAttempt(k)
  /\ UNCHANGED stellar

\* Mutant: the record says settled as soon as the payment is submitted.
EnterPinSettling(k) ==
  /\ run[k] = "pin"
  /\ run' = [run EXCEPT ![k] = "submitting"]
  /\ recs' = [recs EXCEPT ![k] = SetStatus(@, cur[k].id, "settled")]
  /\ UNCHANGED <<vars, place, list, todo, cur, asOf, late, stellar, raced>>

EnterPin(k) ==
  /\ run[k] = "pin"
  /\ run' = [run EXCEPT ![k] = "submitting"]
  /\ UNCHANGED <<vars, place, list, recs, todo, cur, asOf, late, stellar, raced>>

\* Horizon rejects the transaction, or is not reached.
SubmissionFails(k) ==
  /\ run[k] = "submitting"
  /\ FailAttempt(k)
  /\ UNCHANGED stellar

\* The network applies the payment.
Accept(k) ==
  /\ run[k] = "submitting"
  /\ paid[cur[k].id] < MaxPaid
  /\ paid' = [paid EXCEPT ![cur[k].id] = @ + 1]
  /\ run' = [run EXCEPT ![k] = "accepted"]
  /\ UNCHANGED <<vars, place, list, recs, todo, cur, asOf, late, unsettled, raced>>

\* The answer is lost (a timeout, a dropped connection): submitTransaction
\* throws and the attempt counts as failed.
LoseAnswer(k) ==
  /\ run[k] = "accepted"
  /\ unsettled' = [unsettled EXCEPT ![cur[k].id] = @ + 1]
  /\ FailAttempt(k)
  /\ UNCHANGED paid

\* Horizon confirms; the payment is reported to the backend, whose failure is
\* swallowed.  The record and the queue wait for it.
Answer(k) ==
  /\ run[k] = "accepted"
  /\ run' = [run EXCEPT ![k] = "recording"]
  /\ UNCHANGED <<vars, place, list, recs, todo, cur, asOf, late, stellar, raced>>

\* Mutant: the settled authorization stays in the stored queue.
SettleUnsaved(k) ==
  /\ run[k] = "recording"
  /\ recs' = [recs EXCEPT ![k] = SetStatus(@, cur[k].id, "settled")]
  /\ list' = [list EXCEPT ![k] = @ \ {cur[k]}]
  /\ run' = [run EXCEPT ![k] = "next"]
  /\ cur' = [cur EXCEPT ![k] = None]
  /\ UNCHANGED <<vars, place, todo, asOf, late, stellar, raced>>

\* Reported: settled, and out of the queue.
Settle(k) ==
  /\ run[k] = "recording"
  /\ recs' = [recs EXCEPT ![k] = SetStatus(@, cur[k].id, "settled")]
  /\ Dequeue(k, cur[k])
  /\ run' = [run EXCEPT ![k] = "next"]
  /\ cur' = [cur EXCEPT ![k] = None]
  /\ UNCHANGED <<place, todo, asOf, late, stellar, raced>>

\* The list is done: the run's records replace the stored ones.
FinishSync(k) ==
  /\ run[k] = "next"
  /\ todo[k] = {}
  /\ records' = recs[k]
  /\ run' = [run EXCEPT ![k] = "idle"]
  /\ UNCHANGED <<allowance, queue, provisioning, top, screen, lapsed, history>>
  /\ UNCHANGED <<place, list, recs, todo, cur, asOf, late, stellar, raced>>

-----------------------------------------------------------------------------

\* The 48 hours of a signed authorization pass.
PassWindow(id) ==
  /\ id \notin late
  /\ \E a \in issued : a.id = id
  /\ late' = late \cup {id}
  /\ UNCHANGED <<vars, place, sync, stellar, raced>>

\* The process dies with its sheets; what Stellar applied stays applied.
CrashAll ==
  /\ Crash
  /\ place' = [k \in Sheets |-> None]
  /\ run' = [k \in Sheets |-> "idle"]
  /\ list' = [k \in Sheets |-> {}]
  /\ recs' = [k \in Sheets |-> <<>>]
  /\ todo' = [k \in Sheets |-> {}]
  /\ cur' = [k \in Sheets |-> None]
  /\ asOf' = [k \in Sheets |-> {}]
  /\ unsettled' = [id \in AuthIds |->
       IF \E k \in Sheets : run[k] \in Applied /\ cur[k].id = id
       THEN unsettled[id] + 1 ELSE unsettled[id]]
  /\ UNCHANGED <<late, paid, raced>>

\* What a step of the Confirm screens puts in the queue.
Enqueued == {auth[s] : s \in {t \in Screens : pc[t] = "debited" /\ pc'[t] = "queued"}}

\* The steps of the reserve.  A sheet over QR Pay keeps no request from the
\* scanner; one over the Confirm screen covers its buttons.  Only the sheet in
\* front, when it is not busy, provisions.
ReserveStep ==
  /\ \/ (\A k \in Sheets : place[k] # "Confirm") /\ ConfirmInput
     \/ Continuation
     \/ /\ \E k \in Sheets : InFront(k) /\ ~Busy(k)
        /\ \E i \in AllowanceIds : BeginProvision(i)
  /\ raced' = IF \E k \in Sheets : Holding(k) THEN raced \cup Enqueued ELSE raced
  /\ UNCHANGED <<place, sync, late, stellar>>

\* One step of a run that does not wait for the user.
RunStep(k) ==
  \/ \E a \in todo[k] : \/ Expire(k, a)
                        \/ ResolveFails(k, a)
                        \/ PassOver(k, a)
                        \/ AskPin(k, a)
  \/ SubmissionFails(k)
  \/ Accept(k)
  \/ LoseAnswer(k)
  \/ Answer(k)
  \/ Settle(k)
  \/ FinishSync(k)

NextRedemption ==
  \/ ReserveStep
  \/ \E k \in Sheets, p \in Places : OpenSheet(k, p)
  \/ \E k \in Sheets : CloseSheet(k)
  \/ \E k \in Sheets : StartSync(k)
  \/ \E k \in Sheets : RunStep(k)
  \/ \E k \in Sheets : EnterPin(k)
  \/ \E k \in Sheets : RefusePin(k)
  \/ \E id \in AuthIds : PassWindow(id)
  \/ CrashAll

SpecRedemption == InitRedemption /\ [][NextRedemption]_redemptionVars

\* The app's own code keeps running, its HTTP calls end with an answer or an
\* error, and a PIN dialog is eventually answered or dismissed (whatever lies
\* over it having been left).
Fairness ==
  \A k \in Sheets :
    /\ WF_redemptionVars(RunStep(k))
    /\ WF_redemptionVars(EnterPin(k) \/ RefusePin(k))

FairSpecRedemption == SpecRedemption /\ Fairness

-----------------------------------------------------------------------------
(* Properties.                                                             *)

\* Type invariant of the sheets, their runs and the payments: a run holds an
\* authorization exactly while it is being paid.
TypeOKRedemption ==
  /\ TypeOK
  /\ place \in [Sheets -> Places \cup {None}]
  /\ run \in [Sheets -> RunStages]
  /\ list \in [Sheets -> SUBSET Authorization]
  /\ recs \in [Sheets -> Seq(Record)]
  /\ todo \in [Sheets -> SUBSET Authorization]
  /\ cur \in [Sheets -> Authorization \cup {None}]
  /\ asOf \in [Sheets -> SUBSET AuthIds]
  /\ late \subseteq AuthIds
  /\ paid \in [AuthIds -> 0..MaxPaid]
  /\ unsettled \in [AuthIds -> Nat]
  /\ raced \subseteq Authorization
  /\ \A k \in Sheets : cur[k] # None <=> run[k] \in {"pin", "submitting"} \cup Applied

Has(rs, id, status) == \E n \in 1..Len(rs) : rs[n] = [id |-> id, status |-> status]

\* "settled means the Stellar transaction is confirmed on the ledger. Only
\* then": no record, stored or on any sheet, says settled without a payment.
SettledIsPaid ==
  \A id \in AuthIds :
    Has(records, id, "settled") \/ (\E k \in Sheets : Has(recs[k], id, "settled"))
      => paid[id] > 0

\* An authorization is paid a second time only after an attempt that paid it
\* ended before the app could settle it (its answer was lost, or the process
\* died): a payment once settled is never repeated, across retries, crashes,
\* new sheets and spends in between.
RepaidOnlyUnsettled == \A id \in AuthIds : paid[id] <= unsettled[id] + 1

\* A stored record that is final is not also waiting in the stored queue, so a
\* later run cannot settle what the history already shows as over.
FinalIsNotQueued ==
  \A a \in queue : ~Has(records, a.id, "settled") /\ ~Has(records, a.id, "expired")

\* An authorization leaves the stored queue when it is paid or past its window,
\* when a new spend displaces it, or when it was itself queued under a sheet
\* that then stored its own older list: a run drops nothing else.
LeavesQueueForAReason ==
  [][\A a \in queue \ queue' :
       \/ paid[a.id] > 0
       \/ a.id \in late
       \/ a \in raced
       \/ Enqueued # {}]_redemptionVars

\* A confirmation the merchant can scan stays in the payer's stored history
\* although runs replace it, unless it was queued while a sheet held a list.
ConfirmedIsKept == \A a \in shown : Recorded(a) \/ a \in raced

\* Every run ends and frees the sheet, whatever fails on the way.
SyncEnds == \A k \in Sheets : []<>(run[k] = "idle")
=============================================================================
