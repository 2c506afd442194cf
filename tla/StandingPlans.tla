---------------------------- MODULE StandingPlans ----------------------------
(***************************************************************************)
(* Standing plans of one user.  The backend's due check (an hourly cron    *)
(* job, and an admin request that runs the same code) marks payments DUE;  *)
(* the app lists them, the user signs and submits an ordinary Stellar      *)
(* payment, the app stores a transfer record for it and reports the        *)
(* payment against the plan.                                               *)
(*                                                                         *)
(* The due check reads the plans once and then handles them one database   *)
(* transaction at a time; a report reads the payment with its plan, and    *)
(* writes both later.  Other requests run in between.  Nothing disables    *)
(* the Pay button while a payment is under way, and nothing retries a      *)
(* failed call.  A plan's amount never changes, so amounts are counted in  *)
(* units of one payment.                                                   *)
(*                                                                         *)
(* A check advances nextPaymentAt to its own start plus one period, and a  *)
(* plan that is not ACTIVE is left alone: the periods that pass before the *)
(* check comes, or while the plan is paused, are billed together as one.   *)
(***************************************************************************)
EXTENDS Naturals, FiniteSets

CONSTANTS
  Plans,
  Checks,      \* due checks that can run at the same time
  Attempts,    \* payments the app can have under way at the same time
  MaxPeriods,  \* bound on the periods that elapse for a plan
  MaxRows,     \* bound on the StandingPlanPayment rows made
  MaxTxs,      \* bound on the Stellar transactions made
  None

ASSUME ChecksAssumption == IsFiniteSet(Checks)

ASSUME BoundsAssumption == MaxPeriods \in Nat /\ MaxRows \in Nat /\ MaxTxs \in Nat

\* Ids of rows and hashes of transactions, numbered as they are made.
Rows == 1..MaxRows
Txs == 1..MaxTxs

ASSUME NoneAssumption == None \notin Plans \cup Nat

VARIABLES
  status,     \* StandingPlan.status, or "absent"
  due,        \* due[p]: nextPaymentAt has passed
  totalPaid,  \* StandingPlan.totalPaid, in payments
  payment,    \* StandingPlanPayment.status, or "absent"
  planOf,     \* StandingPlanPayment.standingPlanId
  hash,       \* StandingPlanPayment.stellarTxHash
  stored,     \* transferRecord: the transactions recorded
  todo,       \* todo[c]: plans the due check c has yet to handle
  listed,     \* the due payments the app's screen shows
  pc, arg,    \* stage of an attempt and the row it pays
  tx, seen,   \* its transaction, and the totalPaid its report read
  onchain,    \* onchain[x]: the row transaction x was made for
  periods     \* history: periods elapsed for a plan

plans   == <<status, due, totalPaid>>
rows    == <<payment, planOf, hash>>
attempt == <<pc, arg, tx, seen>>
vars    == <<plans, rows, stored, todo, listed, attempt, onchain, periods>>

-----------------------------------------------------------------------------

NextRow(r) == \A q \in Rows : payment[q] = "absent" <=> r <= q

NextTx(x) == \A y \in Txs : onchain[y] = None <=> x <= y

Statuses == {"ACTIVE", "PAUSED", "CANCELLED"}

Stages == {"idle", "submitting", "recording", "reporting", "found"}

Init ==
  /\ status = [p \in Plans |-> "absent"]
  /\ due = [p \in Plans |-> FALSE]
  /\ totalPaid = [p \in Plans |-> 0]
  /\ payment = [r \in Rows |-> "absent"]
  /\ planOf = [r \in Rows |-> None]
  /\ hash = [r \in Rows |-> None]
  /\ stored = {}
  /\ todo = [c \in Checks |-> {}]
  /\ listed = {}
  /\ pc = [a \in Attempts |-> "idle"]
  /\ arg = [a \in Attempts |-> None]
  /\ tx = [a \in Attempts |-> None]
  /\ seen = [a \in Attempts |-> 0]
  /\ onchain = [x \in Txs |-> None]
  /\ periods = [p \in Plans |-> 0]

-----------------------------------------------------------------------------
(* The plans and the due check.                                            *)

CreatePlan(p) ==
  /\ status[p] = "absent"
  /\ status' = [status EXCEPT ![p] = "ACTIVE"]
  /\ UNCHANGED <<due, totalPaid, rows, stored, todo, listed, attempt, onchain, periods>>

SetStatus(p, s) ==
  /\ status[p] # "absent"
  /\ status' = [status EXCEPT ![p] = s]
  /\ UNCHANGED <<due, totalPaid, rows, stored, todo, listed, attempt, onchain, periods>>

\* Another day, week or month passes, whether or not the last one has been
\* billed: nextPaymentAt is in the past.  A due check does not last a day.
Elapse(p) ==
  /\ status[p] # "absent"
  /\ \A c \in Checks : p \notin todo[c]
  /\ periods[p] < MaxPeriods
  /\ due' = [due EXCEPT ![p] = TRUE]
  /\ periods' = [periods EXCEPT ![p] = @ + 1]
  /\ UNCHANGED <<status, totalPaid, rows, stored, todo, listed, attempt, onchain>>

DuePlans == {p \in Plans : status[p] = "ACTIVE" /\ due[p]}

StartCheck(c) ==
  /\ todo[c] = {}
  /\ DuePlans # {}
  /\ todo' = [todo EXCEPT ![c] = DuePlans]
  /\ UNCHANGED <<plans, rows, stored, listed, attempt, onchain, periods>>

\* Mutant: the schedule does not advance.
MarkDueStanding(c, p, r) ==
  /\ p \in todo[c]
  /\ NextRow(r)
  /\ payment' = [payment EXCEPT ![r] = "DUE"]
  /\ planOf' = [planOf EXCEPT ![r] = p]
  /\ todo' = [todo EXCEPT ![c] = @ \ {p}]
  /\ UNCHANGED <<plans, hash, stored, listed, attempt, onchain, periods>>

\* Mutant: one plan's transaction fails and the loop goes on without it.
MarkDueSkipping(c, p, r) ==
  /\ p \in todo[c]
  /\ NextRow(r)
  /\ todo' = [todo EXCEPT ![c] = @ \ {p}]
  /\ UNCHANGED <<plans, rows, stored, listed, attempt, onchain, periods>>

\* One transaction: a DUE row, and nextPaymentAt in the future again.
MarkDue(c, p, r) ==
  /\ p \in todo[c]
  /\ NextRow(r)
  /\ payment' = [payment EXCEPT ![r] = "DUE"]
  /\ planOf' = [planOf EXCEPT ![r] = p]
  /\ due' = [due EXCEPT ![p] = FALSE]
  /\ todo' = [todo EXCEPT ![c] = @ \ {p}]
  /\ UNCHANGED <<status, totalPaid, hash, stored, listed, attempt, onchain, periods>>

\* A transaction fails, or the server restarts: the rest is given up.
CheckFails(c) ==
  /\ todo[c] # {}
  /\ todo' = [todo EXCEPT ![c] = {}]
  /\ UNCHANGED <<plans, rows, stored, listed, attempt, onchain, periods>>

-----------------------------------------------------------------------------
(* Paying a due payment.                                                   *)

Goto(a, stage) == pc' = [pc EXCEPT ![a] = stage]

Finish(a) ==
  /\ Goto(a, "idle")
  /\ arg' = [arg EXCEPT ![a] = None]
  /\ tx' = [tx EXCEPT ![a] = None]
  /\ seen' = [seen EXCEPT ![a] = 0]

\* The screen loads: on opening, and after it changed something.
Load ==
  /\ listed' = {r \in Rows : payment[r] = "DUE"}
  /\ UNCHANGED <<plans, rows, stored, todo, attempt, onchain, periods>>

\* Pay is tapped on a payment the screen shows, and the PIN entered.
Tap(a, r) ==
  /\ pc[a] = "idle"
  /\ r \in listed
  /\ Goto(a, "submitting")
  /\ arg' = [arg EXCEPT ![a] = r]
  /\ UNCHANGED <<plans, rows, stored, todo, listed, tx, seen, onchain, periods>>

Submit(a, x) ==
  /\ pc[a] = "submitting"
  /\ NextTx(x)
  /\ onchain' = [onchain EXCEPT ![x] = arg[a]]
  /\ tx' = [tx EXCEPT ![a] = x]
  /\ Goto(a, "recording")
  /\ UNCHANGED <<plans, rows, stored, todo, listed, arg, seen, periods>>

\* The payment is applied, but the app never hears of it.
AnswerLost(a, x) ==
  /\ pc[a] = "submitting"
  /\ NextTx(x)
  /\ onchain' = [onchain EXCEPT ![x] = arg[a]]
  /\ Finish(a)
  /\ UNCHANGED <<plans, rows, stored, todo, listed, periods>>

\* The backend verifies the payment on the chain and stores a record
\* that names the row.
StoreTransfer(a) ==
  /\ pc[a] = "recording"
  /\ stored' = stored \cup {tx[a]}
  /\ Goto(a, "reporting")
  /\ UNCHANGED <<plans, rows, todo, listed, arg, tx, seen, onchain, periods>>

\* That call fails: the failure is logged, and the flow goes on.
StoreFails(a) ==
  /\ pc[a] = "recording"
  /\ Goto(a, "reporting")
  /\ UNCHANGED <<plans, rows, stored, todo, listed, arg, tx, seen, onchain, periods>>

\* recordPayment reads the payment and its plan.
FindPayment(a) ==
  /\ pc[a] = "reporting"
  /\ payment[arg[a]] = "DUE"
  /\ seen' = [seen EXCEPT ![a] = totalPaid[planOf[arg[a]]]]
  /\ Goto(a, "found")
  /\ UNCHANGED <<plans, rows, stored, todo, listed, arg, tx, onchain, periods>>

\* Mutants: the row is deleted once paid; no transfer record is required;
\* the total is taken from the plan as it is now.
RecordPaymentDeleting(a) ==
  /\ pc[a] = "found"
  /\ tx[a] \in stored
  /\ payment' = [payment EXCEPT ![arg[a]] = "absent"]
  /\ totalPaid' = [totalPaid EXCEPT ![planOf[arg[a]]] = seen[a] + 1]
  /\ Finish(a)
  /\ UNCHANGED <<status, due, planOf, hash, stored, todo, listed, onchain, periods>>

RecordPaymentUnverified(a) ==
  /\ pc[a] = "found"
  /\ payment' = [payment EXCEPT ![arg[a]] = "RECORDED"]
  /\ hash' = [hash EXCEPT ![arg[a]] = tx[a]]
  /\ totalPaid' = [totalPaid EXCEPT ![planOf[arg[a]]] = seen[a] + 1]
  /\ Finish(a)
  /\ UNCHANGED <<status, due, planOf, stored, todo, listed, onchain, periods>>

RecordPaymentRead(a) ==
  /\ pc[a] = "found"
  /\ tx[a] \in stored
  /\ payment' = [payment EXCEPT ![arg[a]] = "RECORDED"]
  /\ hash' = [hash EXCEPT ![arg[a]] = tx[a]]
  /\ totalPaid' = [totalPaid EXCEPT ![planOf[arg[a]]] = @ + 1]
  /\ Finish(a)
  /\ UNCHANGED <<status, due, planOf, stored, todo, listed, onchain, periods>>

\* It finds the transfer record, and writes both rows.
RecordPayment(a) ==
  /\ pc[a] = "found"
  /\ tx[a] \in stored
  /\ payment' = [payment EXCEPT ![arg[a]] = "RECORDED"]
  /\ hash' = [hash EXCEPT ![arg[a]] = tx[a]]
  /\ totalPaid' = [totalPaid EXCEPT ![planOf[arg[a]]] = seen[a] + 1]
  /\ Finish(a)
  /\ UNCHANGED <<status, due, planOf, stored, todo, listed, onchain, periods>>

\* The report is refused: the payment is not DUE, or has no record.
RejectReport(a) ==
  /\ \/ pc[a] = "reporting" /\ payment[arg[a]] # "DUE"
     \/ pc[a] = "found" /\ tx[a] \notin stored
  /\ Finish(a)
  /\ UNCHANGED <<plans, rows, stored, todo, listed, onchain, periods>>

\* The submission or a later call fails, the app is killed, or the server
\* restarts.
GiveUp(a) ==
  /\ pc[a] # "idle"
  /\ Finish(a)
  /\ UNCHANGED <<plans, rows, stored, todo, listed, onchain, periods>>

-----------------------------------------------------------------------------

Next ==
  \/ \E p \in Plans : CreatePlan(p)
  \/ \E p \in Plans, s \in Statuses : SetStatus(p, s)
  \/ \E p \in Plans : Elapse(p)
  \/ \E c \in Checks : StartCheck(c)
  \/ \E c \in Checks, p \in Plans, r \in Rows : MarkDue(c, p, r)
  \/ \E c \in Checks : CheckFails(c)
  \/ Load
  \/ \E a \in Attempts, r \in Rows : Tap(a, r)
  \/ \E a \in Attempts, x \in Txs : Submit(a, x)
  \/ \E a \in Attempts, x \in Txs : AnswerLost(a, x)
  \/ \E a \in Attempts : StoreTransfer(a)
  \/ \E a \in Attempts : StoreFails(a)
  \/ \E a \in Attempts : FindPayment(a)
  \/ \E a \in Attempts : RecordPayment(a)
  \/ \E a \in Attempts : RejectReport(a)
  \/ \E a \in Attempts : GiveUp(a)

Spec == Init /\ [][Next]_vars

\* The cron job runs every hour, and a transaction tried again and again is
\* not refused for ever.
Fairness ==
  /\ \A c \in Checks : WF_vars(StartCheck(c))
  /\ \A p \in Plans : SF_vars(\E c \in Checks, r \in Rows : MarkDue(c, p, r))

FairSpec == Spec /\ Fairness

-----------------------------------------------------------------------------
(* Properties.                                                             *)

Billed(p) == {r \in Rows : planOf[r] = p}

Recorded(p) == {r \in Billed(p) : payment[r] = "RECORDED"}

\* Type invariant: a row that exists has its plan, and an attempt the row
\* and the transaction of its stage.
TypeOK ==
  /\ status \in [Plans -> Statuses \cup {"absent"}]
  /\ due \in [Plans -> BOOLEAN]
  /\ totalPaid \in [Plans -> Nat]
  /\ payment \in [Rows -> {"absent", "DUE", "RECORDED"}]
  /\ planOf \in [Rows -> Plans \cup {None}]
  /\ hash \in [Rows -> Txs \cup {None}]
  /\ stored \subseteq Txs
  /\ todo \in [Checks -> SUBSET Plans]
  /\ listed \subseteq Rows
  /\ pc \in [Attempts -> Stages]
  /\ arg \in [Attempts -> Rows \cup {None}]
  /\ tx \in [Attempts -> Txs \cup {None}]
  /\ seen \in [Attempts -> Nat]
  /\ onchain \in [Txs -> Rows \cup {None}]
  /\ periods \in [Plans -> 0..MaxPeriods]
  /\ \A r \in Rows : payment[r] = "absent" <=> planOf[r] = None
  /\ \A r \in listed : payment[r] # "absent"
  /\ \A a \in Attempts :
       /\ pc[a] # "idle" => arg[a] \in Rows /\ payment[arg[a]] # "absent"
       /\ pc[a] \in {"recording", "reporting", "found"} => tx[a] \in Txs

\* A RECORDED payment names a recorded transaction that was made for it.
RecordedIsPaid ==
  \A r \in Rows : payment[r] = "RECORDED" =>
    hash[r] \in stored /\ onchain[hash[r]] = r

\* However reports overlap, a plan's totalPaid never exceeds what its
\* RECORDED payments amount to.
TotalWithinRecorded ==
  \A p \in Plans : totalPaid[p] <= Cardinality(Recorded(p))

\* However due checks overlap, each of them bills a period once at most.
NoExtraBilling ==
  \A p \in Plans : Cardinality(Billed(p)) <= Cardinality(Checks) * periods[p]

\* The due check of an ACTIVE plan is made some time, whatever fails.
DueIsBilled ==
  \A p \in Plans :
    status[p] = "ACTIVE" /\ due[p] ~> status[p] # "ACTIVE" \/ ~due[p]
=============================================================================
