---------------------------- MODULE OfflineReserve ----------------------------
(***************************************************************************)
(* The payer's side of an offline payment: OfflineReserveService as it is  *)
(* driven by the Confirm screen and by the reserve sheet.                  *)
(*                                                                         *)
(* Every Confirm screen owns its own OfflineReserveService, so an          *)
(* allowance lives in several copies: one in storage and one in the memory *)
(* of each screen that loaded it.  spendFromReserve checks its copy, waits *)
(* for the device key, debits the copy, stores it, and then stores the     *)
(* queue of authorizations to redeem; the process can die, the user can    *)
(* leave the screen and the clock can pass an expiry between any two of    *)
(* these steps.                                                            *)
(*                                                                         *)
(* A hash is modelled as the identity of what it hashes: an allowance's    *)
(* checksum is its id and an authorization's stateHash is its id (ids are  *)
(* part of the hashed text).  The app provisions a single currency, so the *)
(* currency key of the storage entries is left out.  A list of             *)
(* authorizations is a set: ids are never reused and the order has no      *)
(* effect on what is kept.                                                 *)
(***************************************************************************)
EXTENDS Naturals, Sequences

CONSTANTS
  Screens,            \* Confirm screen instances
  AllowanceIds,       \* ids that provisioning may draw
  AuthIds,            \* ids that signing may draw
  Requests,           \* scanned payment requests
  Amount,             \* Amount[r]: the amount request r asks for
  Limits,             \* the amounts a user may set aside
  LeaveWhileSigning,  \* may the system back gesture leave a signing screen?
  None

ASSUME AmountAssumption == Amount \in [Requests -> Nat \ {0}]
ASSUME LimitsAssumption == Limits \subseteq Nat \ {0}
ASSUME LeaveAssumption == LeaveWhileSigning \in BOOLEAN

\* A certificate and an authorization hash different texts.
ASSUME IdsAssumption == AllowanceIds \cap AuthIds = {}

VARIABLES
  allowance,     \* stored allowance (payflex_reserve_allowance_XLM)
  queue,         \* stored queue (payflex_offline_auth_queue_v1)
  records,       \* stored history, newest first (payflex_offline_tx_records_v1)
  provisioning,  \* allowances whose provisioning awaits the device key
  top,           \* the mounted Confirm screen, or None
  pc,            \* pc[s]: where screen s is in _confirmAndPay
  req,           \* req[s]: the request the screen was opened with
  seen,          \* seen[s]: _allowance # null, what the screen shows
  mem,           \* mem[s]: _inMemoryAllowances of the screen's service
  pend,          \* pend[s]: _pendingAuthQueue of the screen's service
  auth,          \* auth[s]: the authorization the running spend has signed
  lapsed,        \* allowances and requests whose expiry has passed
  limit,         \* history: limit[i], what allowance i was provisioned with
  spent,         \* history: spent[i], the total authorized from i
  issued,        \* history: every authorization signed
  shown          \* history: authorizations whose confirmation was displayed

storage == <<allowance, queue, records>>
screen  == <<pc, req, seen, mem, pend, auth>>
history == <<limit, spent, issued, shown>>
vars    == <<storage, provisioning, top, screen, lapsed, history>>

-----------------------------------------------------------------------------

Allowance ==
  [id : AllowanceIds, initial : Nat, remaining : Nat, seq : Nat,
   last : AuthIds \cup AllowanceIds]

ASSUME NoneAssumption == None \notin Allowance /\ None \notin Screens

Authorization ==
  [id : AuthIds, alw : AllowanceIds, req : Requests, amount : Nat,
   seq : Nat, prev : AuthIds \cup AllowanceIds]

Status == {"pending", "settled", "failed", "expired"}

Record == [id : AuthIds, status : Status]

Stages == {"closed", "open", "checked", "debited", "queued", "recorded"}

Init ==
  /\ allowance = None
  /\ queue = {}
  /\ records = <<>>
  /\ provisioning = {}
  /\ top = None
  /\ pc = [s \in Screens |-> "closed"]
  /\ req = [s \in Screens |-> None]
  /\ seen = [s \in Screens |-> FALSE]
  /\ mem = [s \in Screens |-> None]
  /\ pend = [s \in Screens |-> {}]
  /\ auth = [s \in Screens |-> None]
  /\ lapsed = {}
  /\ limit = [i \in AllowanceIds |-> 0]
  /\ spent = [i \in AllowanceIds |-> 0]
  /\ issued = {}
  /\ shown = {}

-----------------------------------------------------------------------------
(* Provisioning, from the reserve sheet.                                   *)

NewAllowance(i, amt) ==
  [id |-> i, initial |-> amt, remaining |-> amt, seq |-> 0, last |-> i]

\* The sheet opens from the QR Pay screen, or from a Confirm screen that has
\* found no allowance.
SheetReachable == \A s \in Screens : top = s => pc[s] = "open" /\ ~seen[s]

\* "Provision" is tapped; the call waits for the device key.
BeginProvision(i) ==
  /\ SheetReachable
  /\ limit[i] = 0
  /\ i \notin provisioning
  /\ provisioning' = provisioning \cup {i}
  /\ UNCHANGED <<storage, top, screen, lapsed, history>>

\* The certificate is built and stored over whatever allowance was there.
\* The sheet may have been closed meanwhile: nothing here looks at it.
FinishProvision(i, amt) ==
  /\ i \in provisioning
  /\ provisioning' = provisioning \ {i}
  /\ allowance' = NewAllowance(i, amt)
  /\ limit' = [limit EXCEPT ![i] = amt]
  /\ UNCHANGED <<queue, records, top, screen, lapsed, spent, issued, shown>>

-----------------------------------------------------------------------------
(* The Confirm screen.                                                     *)

Live(a) == a # None /\ a.id \notin lapsed

\* getActiveAllowance on the service of screen s.  The copy in memory wins.
ActiveAllowance(s) ==
  IF Live(mem[s]) THEN mem[s]
  ELSE IF Live(allowance) THEN allowance
  ELSE None

\* What getActiveAllowance leaves in _inMemoryAllowances: a stored allowance it
\* found, or the old entry.
Cached(s) == IF ActiveAllowance(s) = None THEN mem[s] ELSE ActiveAllowance(s)

\* A scanned, verified request opens a Confirm screen with a fresh service;
\* initState looks the allowance up.
OpenConfirm(s, r) ==
  /\ top = None
  /\ pc[s] = "closed"
  /\ r \notin lapsed
  /\ top' = s
  /\ pc' = [pc EXCEPT ![s] = "open"]
  /\ req' = [req EXCEPT ![s] = r]
  /\ seen' = [seen EXCEPT ![s] = Live(allowance)]
  /\ mem' = [mem EXCEPT ![s] = IF Live(allowance) THEN allowance ELSE None]
  /\ pend' = [pend EXCEPT ![s] = {}]
  /\ auth' = [auth EXCEPT ![s] = None]
  /\ UNCHANGED <<storage, provisioning, lapsed, history>>

\* The reserve sheet opened from the screen is closed: _checkAllowance again.
CheckAllowance(s) ==
  /\ top = s
  /\ pc[s] = "open"
  /\ ~seen[s]
  /\ seen' = [seen EXCEPT ![s] = ActiveAllowance(s) # None]
  /\ mem' = [mem EXCEPT ![s] = Cached(s)]
  /\ UNCHANGED <<storage, provisioning, top, pc, req, pend, auth, lapsed, history>>

\* Mutant: the balance is compared with the amount originally set aside.
PayAgainstInitial(s) ==
  LET a == ActiveAllowance(s) IN
  /\ top = s
  /\ pc[s] = "open"
  /\ req[s] \notin lapsed
  /\ a # None
  /\ a.initial >= Amount[req[s]]
  /\ mem' = [mem EXCEPT ![s] = a]
  /\ pc' = [pc EXCEPT ![s] = "checked"]
  /\ UNCHANGED <<storage, provisioning, top, req, seen, pend, auth, lapsed, history>>

\* The checks of spendFromReserve, up to the wait for the device key.
Pay(s) ==
  LET a == ActiveAllowance(s) IN
  /\ top = s
  /\ pc[s] = "open"
  /\ req[s] \notin lapsed
  /\ a # None
  /\ a.remaining >= Amount[req[s]]
  /\ mem' = [mem EXCEPT ![s] = a]
  /\ pc' = [pc EXCEPT ![s] = "checked"]
  /\ UNCHANGED <<storage, provisioning, top, req, seen, pend, auth, lapsed, history>>

\* A check fails: the screen shows the error and the button is live again.  An
\* expired request throws before the allowance is looked up.
PayRejected(s) ==
  LET a == ActiveAllowance(s) IN
  /\ top = s
  /\ pc[s] = "open"
  /\ req[s] \notin lapsed
  /\ a # None
  /\ a.remaining < Amount[req[s]]
  /\ mem' = [mem EXCEPT ![s] = a]
  /\ UNCHANGED <<storage, provisioning, top, pc, req, seen, pend, auth, lapsed, history>>

NewAuthorization(s, id) ==
  [id |-> id, alw |-> mem[s].id, req |-> req[s], amount |-> Amount[req[s]],
   seq |-> mem[s].seq + 1, prev |-> mem[s].last]

\* Mutants: the tip, or the sequence number, is not carried forward.
DebitedKeepingTip(a, x) == [a EXCEPT !.remaining = @ - x.amount, !.seq = x.seq]
DebitedKeepingSeq(a, x) == [a EXCEPT !.remaining = @ - x.amount, !.last = x.id]

Debited(a, x) ==
  [a EXCEPT !.remaining = @ - x.amount, !.seq = x.seq, !.last = x.id]

\* The device key is there: sign, debit the copy in memory, store it.
Sign(s, id) ==
  LET x == NewAuthorization(s, id) IN
  /\ pc[s] = "checked"
  /\ \A b \in issued : b.id # id
  /\ mem' = [mem EXCEPT ![s] = Debited(mem[s], x)]
  /\ allowance' = Debited(mem[s], x)
  /\ auth' = [auth EXCEPT ![s] = x]
  /\ pc' = [pc EXCEPT ![s] = "debited"]
  /\ issued' = issued \cup {x}
  /\ spent' = [spent EXCEPT ![x.alw] = @ + x.amount]
  /\ UNCHANGED <<queue, records, provisioning, top, req, seen, pend, lapsed, limit, shown>>

\* _enqueuePendingAuthorization: the service's own list replaces the stored one.
Enqueue(s) ==
  /\ pc[s] = "debited"
  /\ pend' = [pend EXCEPT ![s] = @ \cup {auth[s]}]
  /\ queue' = pend[s] \cup {auth[s]}
  /\ pc' = [pc EXCEPT ![s] = "queued"]
  /\ UNCHANGED <<allowance, records, provisioning, top, req, seen, mem, auth, lapsed, history>>

\* Mutant: the history is not loaded before it is stored.
RecordSpendUnloaded(s) ==
  /\ pc[s] = "queued"
  /\ records' = <<[id |-> auth[s].id, status |-> "pending"]>>
  /\ pc' = [pc EXCEPT ![s] = "recorded"]
  /\ UNCHANGED <<allowance, queue, provisioning, top, req, seen, mem, pend, auth, lapsed, history>>

\* recordSpend: load the history, put a pending record in front, store it.
RecordSpend(s) ==
  /\ pc[s] = "queued"
  /\ records' = <<[id |-> auth[s].id, status |-> "pending"]>> \o records
  /\ pc' = [pc EXCEPT ![s] = "recorded"]
  /\ UNCHANGED <<allowance, queue, provisioning, top, req, seen, mem, pend, auth, lapsed, history>>

\* The screen's State object is gone, and its service with it.
Dispose(s) ==
  /\ pc' = [pc EXCEPT ![s] = "closed"]
  /\ req' = [req EXCEPT ![s] = None]
  /\ seen' = [seen EXCEPT ![s] = FALSE]
  /\ mem' = [mem EXCEPT ![s] = None]
  /\ pend' = [pend EXCEPT ![s] = {}]
  /\ auth' = [auth EXCEPT ![s] = None]

\* A mounted screen is replaced by the broadcast of the confirmation; one that
\* was left returns silently.
Broadcast(s) ==
  /\ pc[s] = "recorded"
  /\ top' = IF top = s THEN None ELSE top
  /\ shown' = IF top = s THEN shown \cup {auth[s]} ELSE shown
  /\ Dispose(s)
  /\ UNCHANGED <<storage, provisioning, lapsed, limit, spent, issued>>

\* The close button works only while the screen is not signing.
Close(s) ==
  /\ top = s
  /\ pc[s] = "open"
  /\ top' = None
  /\ Dispose(s)
  /\ UNCHANGED <<storage, provisioning, lapsed, history>>

\* No PopScope guards the route: the system back gesture pops a signing screen,
\* and its spend goes on without it.
LeaveSigning(s) ==
  /\ LeaveWhileSigning
  /\ top = s
  /\ pc[s] # "open"
  /\ top' = None
  /\ UNCHANGED <<storage, provisioning, screen, lapsed, history>>

-----------------------------------------------------------------------------
(* The environment.                                                        *)

\* A provisioned allowance (24 hours) or a request (30 minutes) passes its expiry.
Lapse(x) ==
  /\ x \notin lapsed
  /\ x \in AllowanceIds => limit[x] > 0
  /\ lapsed' = lapsed \cup {x}
  /\ UNCHANGED <<storage, provisioning, top, screen, history>>

\* The process dies: what is stored survives, every screen is gone.
Crash ==
  /\ provisioning' = {}
  /\ top' = None
  /\ pc' = [s \in Screens |-> "closed"]
  /\ req' = [s \in Screens |-> None]
  /\ seen' = [s \in Screens |-> FALSE]
  /\ mem' = [s \in Screens |-> None]
  /\ pend' = [s \in Screens |-> {}]
  /\ auth' = [s \in Screens |-> None]
  /\ UNCHANGED <<storage, lapsed, history>>

\* What the user does on the Confirm screen.
ConfirmInput ==
  \/ \E s \in Screens, r \in Requests : OpenConfirm(s, r)
  \/ \E s \in Screens : CheckAllowance(s)
  \/ \E s \in Screens : Pay(s)
  \/ \E s \in Screens : PayRejected(s)
  \/ \E s \in Screens : Close(s)
  \/ \E s \in Screens : LeaveSigning(s)

\* What goes on by itself once started.
Continuation ==
  \/ \E i \in AllowanceIds, amt \in Limits : FinishProvision(i, amt)
  \/ \E s \in Screens, id \in AuthIds : Sign(s, id)
  \/ \E s \in Screens : Enqueue(s)
  \/ \E s \in Screens : RecordSpend(s)
  \/ \E s \in Screens : Broadcast(s)
  \/ \E x \in AllowanceIds \cup Requests : Lapse(x)

Next ==
  \/ \E i \in AllowanceIds : BeginProvision(i)
  \/ ConfirmInput
  \/ Continuation
  \/ Crash

Spec == Init /\ [][Next]_vars

-----------------------------------------------------------------------------
(* Properties.                                                             *)

\* Type invariant of the service, its storage and its screens.
TypeOK ==
  /\ allowance \in Allowance \cup {None}
  /\ queue \subseteq Authorization
  /\ records \in Seq(Record)
  /\ provisioning \subseteq AllowanceIds
  /\ top \in Screens \cup {None}
  /\ pc \in [Screens -> Stages]
  /\ req \in [Screens -> Requests \cup {None}]
  /\ seen \in [Screens -> BOOLEAN]
  /\ mem \in [Screens -> Allowance \cup {None}]
  /\ pend \in [Screens -> SUBSET Authorization]
  /\ auth \in [Screens -> Authorization \cup {None}]
  /\ lapsed \subseteq AllowanceIds \cup Requests
  /\ limit \in [AllowanceIds -> Nat]
  /\ spent \in [AllowanceIds -> Nat]
  /\ issued \subseteq Authorization
  /\ shown \subseteq Authorization

\* The stored balance is what was set aside less everything ever authorized
\* from it, whatever screens, crashes and provisionings came between: no copy
\* of an allowance overwrites the debit another copy made.
Conservation ==
  allowance # None =>
    allowance.remaining + spent[allowance.id] = limit[allowance.id]

\* No allowance authorizes more than was set aside ("up to
\* initialAmountMinorUnits"), summed over all screens and restarts.
NoOverspend == \A i \in AllowanceIds : spent[i] <= limit[i]

\* The authorizations of an allowance form one chain: two with the same
\* sequence number are the same one, and each commits to its predecessor.
OneChain ==
  \A a \in issued :
    /\ \A b \in issued : a.alw = b.alw /\ a.seq = b.seq => a = b
    /\ \/ a.seq = 1 /\ a.prev = a.alw
       \/ \E b \in issued : b.alw = a.alw /\ b.seq + 1 = a.seq /\ b.id = a.prev

\* The stored history has a record of authorization a.
Recorded(a) == \E n \in 1..Len(records) : records[n].id = a.id

\* A confirmation the merchant can scan is always of a payment the payer's own
\* stored history holds, also after a restart.
ConfirmedIsRecorded == \A a \in shown : Recorded(a)

\* The amounts a branch of an allowance's chain can come to.
BranchTotals == {0} \cup UNION {0..limit[i] : i \in AllowanceIds}

\* Whatever screens were left mid-spend: no branch of the chain, from an
\* authorization back to the certificate, comes to more than was set aside, and
\* each copy of an allowance holds what its own branch left of the limit.
BranchesCovered ==
  \E total \in [AuthIds \cup AllowanceIds -> BranchTotals] :
    LET Covered(c) == c # None => c.remaining + total[c.last] = limit[c.id]
    IN  /\ \A i \in AllowanceIds : total[i] = 0
        /\ \A b \in issued : /\ total[b.id] = total[b.prev] + b.amount
                             /\ total[b.id] <= limit[b.alw]
        /\ Covered(allowance)
        /\ \A s \in Screens : Covered(mem[s])

\* The copies of the allowances together behave as the atomic ledger.
Ledger == INSTANCE ReserveLedger WITH limit <- limit, spent <- spent, issued <- issued
LedgerSpec == Ledger!Spec

\* "Payment confirmed - it'll settle on Stellar when you're back online": until
\* it is redeemed, a confirmed payment waits in the stored queue.  (In this
\* module nothing is ever redeemed.)
ConfirmedStaysQueued == shown \subseteq queue
=============================================================================
