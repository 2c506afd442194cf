# PayFlex: a TLA+ verification project

PayFlex is a wallet on Stellar: a Flutter app (`src/app`), a NestJS backend
(`src/backend/src`) and a Soroban contract (`src/backend/contracts/safebox`).
Keys stay on the phone and money stays on the chain; the backend is a
directory and a verifier. This project models the parts whose correctness
depends on the order of things: payments authorized without a network and
settled later, payments sent as links, group savings that several members act
on at once, accounts and their keys, sessions, transfers and shared bills,
scheduled payments, and the optical channel between two phones.

Every module is translated from the code and `PROJECT.json` maps each
definition to its lines. TLC checks small instances, TLAPS proves the safety
properties of nine modules for every value of the constants.

## 1. Inventory

| Component | State | Operations | What is hard |
|---|---|---|---|
| Offline Reserve, `offline_reserve_service.dart` | allowance in storage and in each service's memory, queue of authorizations | provision, look up, spend, enqueue, remove | copies of one allowance; awaits between check and debit; crashes between two writes; expiry |
| Offline redemption, `offline_redemption_service.dart` | history of records | record, sync and redeem | retries, lost answers, partial failure, runs that outlive their sheet |
| QR Pay and Confirm screens, `qr_pay_screen.dart` | mounted screen, `_processing`, `_handled` | scan, confirm, close, open the reserve sheet | the system back gesture, one service per screen, a scanner that stays live behind a sheet |
| Fountain code, `fountain_coder.dart` | solved blocks, pending equations, seeds, bound session | next packet, add packet, reset | lost, repeated, reordered frames; a cascade over mutable equations |
| Payment protocol, `payment_protocol.dart`, `crypto_utils.dart` | none (data) | build, sign, verify | canonical text |
| Transfer flow and Stellar client, `transfer_flow.dart`, `stellar_client.dart` | none | PIN, sign, submit, record | an answer that is lost after the payment was applied; a record that fails |
| Transfer records, `transfer.service.ts` | `TransferRecord` rows | verify and record, resolve a recipient | duplicates, reports by others than the payer |
| Standing plans, `standing-plans.service.ts`, `standing_plans_screen.dart` | plans, payments, the screen's list | create, pause/resume/cancel, due check, record | overlapping checks, reads before writes, double taps |
| Authentication, `auth.service.ts`, `token.service.ts`, `session_manager.dart` | login challenge, refresh tokens | challenge, login, refresh | concurrent requests between two database calls |
| Safebox contract, `lib.rs` | owner, admins, closed, ledger, tokens | init, contribute, withdraw, add/remove admin, close | state that changes between simulation and application |
| Safebox service and screens, `safebox_service.dart` | – | deploy, simulate, sign, submit | a deployment of several transactions |
| Safebox registry, `safebox-soroban.service.ts` | list of contract ids | register, read | – (not reachable, see 7) |
| Send via link, `links.service.ts`, `send_via_link_screen.dart` | `LinkRecord`, claimable balances on the chain and in Horizon | create, register, preview, claim | several transactions, ids that the backend takes from the client, a Horizon that lags, reports that overtake each other, a status that can go back |
| Users, onboarding, admins: `users.service.ts`, `onboarding.service.ts`, `auth.guard.ts`, `admin.service.ts`, `provision-admin.ts` | user row, key, activation flag, admin flag | create, register key, activate, promote, demote | check and update in two calls; Horizon asked in between |
| PayTags and online QR, `paytag.service.ts`, `qr-pay.service.ts` | tags; signed payloads | claim, resolve, decode | a tag that moves while it is used |
| Split bill, `split-bill.service.ts` | bill and contributors | create | partial creation |
| Stellar verification, `stellar.service.ts` | none | verify a payment, a balance, an account | Horizon behind the ledger |
| Offline protocol script, `verify-offline-protocol.ts` | a decoder of its own | generate, add frame | the same code twice |
| Gated features, providers, health, validation, configuration | none | refusals, checks of form | – |
| Wallet, key and local stores, widgets, theme, models | device storage, layout | – | – |

How they interact: the scanner hands a decoded request to a Confirm screen,
whose own reserve service signs an authorization and whose redemption service
records it; the reserve sheet later redeems through the transfer flow, the
same flow that standing plans use. The transfer flow submits to Horizon and
then asks the backend for a `TransferRecord`, which `recordPayment` of a
standing plan looks up. The destination of a transfer comes from the directory
of tags and keys that accounts maintain, while it changes. A link is a transfer
of which the chain holds the money until the recipient takes it. Safebox
members talk to the contract directly.

What makes each part correct, in a sentence:

* Reserve: the copies of an allowance act as one ledger, nobody authorizes more
  than was set aside, and each authorization commits to the one before it.
* Redemption: *settled* means paid, a run takes nothing out of the queue unpaid
  and in time, and only an attempt that ended before it was settled can lead to a
  second payment.
* Fountain code: whatever is handed on is the whole of one request, and enough
  frames are enough.
* Safebox: at most three admins, outflow only by role at the moment of
  application, a vault that covers its books, a close that is final.
* Sessions: one login per challenge, and a rotated token is dead for good.
* Standing plans: what is due is billed, once at most by each check, a RECORDED
  payment was made, and the total never claims more than the rows do.
* Links: behind every FUNDED link is money of its exact amount that no other
  link has, CLAIMED means that a balance put on the link was taken, and a balance
  that a CLAIMED was written for funds nothing any more.
* Accounts: no two users share a key, a key is for ever once nothing can still
  replace it, flags tell the truth, admins come from admins.
* Transfers: whom the receipt names is who was paid, a record is of a payment on
  the chain to the destination it names, a bill names the users its list stood for.

## 2. Modules

| Module | Models | Checked by | Proved in |
|---|---|---|---|
| `ReserveLedger` | abstract: one atomic ledger per allowance | as `LedgerSpec` in `reserve` | |
| `OfflineReserve` | the payer's side: reserve service, Confirm screens, provisioning | `reserve`, `reserve_leave`, `reserve_queue` | `OfflineProofs` |
| `OfflineRedemption` | extends it with the sheets, their runs, and Stellar | `redemption`, `redemption_overlap` | `OfflineProofs` |
| `PaymentLink` | abstract: what a link promises | as `LinkSpec` in `links` | |
| `Links` | sends, link records, claimable balances, Horizon | `links` | `LinksProofs` |
| `AccountDirectory` | abstract: who has which key | as `KeepsDirectory` in `accounts`; its steps are those of keys in `transfers` | |
| `Accounts` | users, keys, onboarding, admins, handler by handler | `accounts` | `AccountsProofs` |
| `Transfers` | tags, QR, payments, their records, bills, over a directory that changes | `transfers` | `TransfersProofs` |
| `Safebox` | contract, token balances, members' invocations in flight | `safebox` | `SafeboxProofs` |
| `AuthSessions` | challenges and refresh tokens, handler by handler | `auth` | `AuthSessionsProofs` |
| `StandingPlans` | due checks, payments, reports | `standing_plans` | `StandingPlansProofs` |
| `FountainCode` | encoder, the app's decoder and scan loop, the script's decoder | `fountain` | `FountainCodeProofs` |

`Transfers` composes with `Accounts` through `AccountDirectory`: `Accounts` is
shown to implement the directory, and `Transfers` extends it and takes its
steps (`KeyStep`), so what is proved of `Transfers` holds for every way
`Accounts` can register keys. An operator whose comment begins with "Mutant" is a
plausible mistake in the code that one of the properties must detect; no
specification uses it.

### OfflineReserve

A `Confirm` screen constructs its own `OfflineReserveService`, so the variable
`mem[s]` (that service's `_inMemoryAllowances`) is a copy of the stored
`allowance` that other screens do not see, and `pend[s]` is its
`_pendingAuthQueue`. `pc[s]` follows `_confirmAndPay`:

    open -Pay-> checked -Sign-> debited -Enqueue-> queued -RecordSpend->
    recorded -Broadcast-> closed

`Pay` is the part of `spendFromReserve` up to the await of the device key
(line 394); `Sign` signs, debits and stores the allowance (the
mutation at 440-442 and the write at 444 have no other task's step between
them that could see the difference); `Enqueue` and `RecordSpend` are the two
later writes; `Broadcast` replaces the screen by the confirmation. `Crash` can
happen anywhere and keeps `allowance`, `queue`, `records`. `BeginProvision`
and `FinishProvision` are the reserve sheet around the same await.
`Lapse` lets any allowance or request pass its expiry.

Hashes are identities: the checksum of an allowance is its id and the state
hash of an authorization is its id. This is what collision resistance gives,
and it makes `prev` a pointer that `OneChain` can follow.

`LeaveWhileSigning` is a constant. The close button is disabled while a screen
signs (`qr_pay_screen.dart:890`), but nothing stops the system back gesture,
so both values describe the app: with FALSE the user stays on the screen,
with TRUE the spend goes on behind it. The ledger properties (`Conservation`,
`NoOverspend`, `OneChain`, `LedgerSpec`) hold for FALSE. For TRUE two screens
can debit two copies, the chain forks, and the second write restores part of
the balance; `reserve_leave` checks what survives, `BranchesCovered`: each line of
authorizations that follow one another stays within the limit. That
`ConfirmedIsRecorded` survives too is proved (section 6).

### OfflineRedemption

Each reserve sheet has its own redemption service. `run[k]` follows
`syncAndRedeemAll`: `next` takes an authorization (`Expire`, `ResolveFails`,
`PassOver` or `AskPin`), `pin` waits for the dialog, `submitting` for Horizon,
`accepted` is the time between the network applying the payment and the app
hearing of it, and `recording` the await of `api.recordTransfer`
(transfer_flow.dart:62) between Horizon's answer and the result. `Settle` and
`Expire` store the queue at once, `FinishSync` stores the records at the end; a
crash in between keeps one and loses the other, and a crash in `accepted` or
`recording` loses both: the payment was made and still waits. `unsettled` counts the
payments of attempts that ended so. `asOf[k]` is the clock the run reads once
at its start.

`place[k]` is the screen a sheet was opened over: QR Pay or a Confirm screen.
The scanner behind a sheet over QR Pay stays live (qr_pay_screen.dart:473-536), so
a request it reads puts a Confirm screen over the sheet, and a spend can go on
while the sheet syncs or still holds the list of an earlier run. Such a sheet
works on its own copies of queue and history, which replace the stored
ones: the new authorization can vanish from both. `raced` remembers the
authorizations that were queued while a sheet held a list. A sheet over the
Confirm screen covers its buttons (`ReserveStep`). `CloseSheet` is possible at any time
but under the PIN dialog, and a run goes on without its sheet. Where the dialog
stands among the routes is not tracked: a sheet that another screen covers may still
have its dialog answered, which allows more than the app does.

`SheetsOverlap` says whether a sheet opens while another is open, or still syncs
after it was dismissed; both happen in the app. With TRUE, two runs overlap,
each with its own list: `RepaidOnlyUnsettled`, `FinalIsNotQueued` and
`LeavesQueueForAReason` fail then, since a run puts back what the other took
out. They are properties of one sheet at a time, whatever is spent beside it;
`redemption_overlap` checks what holds regardless, that settled means paid and
that every run ends. The run `redemption` keeps `LeaveWhileSigning` FALSE for
its size; the proofs of its properties do not need that.

A request generated by the app names the merchant by user id
(`qr_pay_screen.dart:165`), which `syncAndRedeemAll` passes to the directory as
a public key: for such a request every attempt takes `ResolveFails`. Requests
naming a PayTag or a key, as in the tests of the service, take the other
branches; the model has both.

### Links

`sending[l]` follows `_send`: `SendViaLink` creates the record (PENDING),
`CreateBalance` escrows the amount, `GiveUp` is a PIN not given, a failure or a
screen left. `Begin`/`Finish` bracket a handler; `VerifyBalance` and `CheckGone` are
the handler's Horizon call, `Fund` and `Claim` its write, with the checks of the
service and the unique index of `claimableBalanceId` (`Taken`). `BeginRegister`
takes any balance for any link, at any status, as the endpoint does
(links.service.ts:157-179); the app reports the newest balance that Horizon lists for
the sender, right or wrong, which is among these. `ledger` is what the chain
has, `horizon` what Horizon shows of it after the last `Ingest`.

So a link can have several balances one after the other, CLAIMED can become
FUNDED again with a balance that was not taken, and a claim that had checked one
balance can be written when another is on the record. `named[l]` remembers which
balances were on the record and `closed` which ones a CLAIMED was written for.
`Promise` is `PaymentLink` over `status`, `named` and the ledger: it says what
is left, that FUNDED takes a balance that was escrowed and CLAIMED one that was
put on the record and has gone. `FundedIsBacked` is about the amount and the
owner of the money, `ClaimedFundsNoMore` about the order of Horizon's answers:
no registration passes with a balance that a CLAIMED was written for.

### Accounts and AccountDirectory

A handler `h` works on the row of `who[h]` with the key `arg[h]`; its stage is
the call it waits for. `setStellarPublicKey` is `BeginSetKey` (behind the guard:
a bootstrap token, alive and for a user without key, or a session),
`CheckClash` (somebody else's key), `CheckOwnKey` (another key of one's own)
and `WriteKey`. Two devices can pass the check before either writes, so a key
can be replaced once; `AccountDirectory` therefore admits a key, and stores it
later. `Settled(u)` is the point from which it is for ever (`KeyIsForever`).
`confirmActivation` is `BeginActivation`, `AskHorizon`, `MarkActivated`; it sets
the flag on a row whose key may have been replaced since, hence the exception in
`ActivatedIsFunded`. The admin endpoints are two calls, the guard and the write;
`Provision` is the script.

### Transfers

`Resolve` is what the app knows before the payment: a key and, from a tag, a known
key or a QR, the user it was read together with (`payee`). The app names nobody until the
payment is made: it goes from `resolveTransfer` to the PIN
(send_money_screen.dart:104-122), and the QR screen shows a shortened key. The
receipt names the payee afterwards (134), which is what `PayeeIsPaid` is about. `held`
remembers every key and tag a user ever had; a QR holds a pair that was true once
(`Signed`). `Submit` is the app's transfer flow, with an answer or without.
`recordTransfer` is `BeginRecord` (the row of the caller), `Verify` (Horizon, then
the caller's key) and `Record` or `AlreadyRecorded` (unique hash). Anybody reports any
transaction with any keys (`Reports`): `verifyPayment` never looks at the transaction's
source, and the source that was reported is compared with the caller's own key
(`OwnSource`). Who paid is therefore not in the model, and `RecordTellsChain` does not say
that a record is of its payer.
A bill is created by `BeginBill`, then `FindContributor` and `AddContributor`
for each reference, `AnswerBill` or `BillRefused`; `Restart` can come between any two.

### Safebox

`pending[m]` is an invocation that member `m` simulated (all checks pass:
`Permitted`) and signed; it is applied later (`Contribute`, `Withdraw`,
`AddAdmin`, `RemoveAdmin`, `Close` check everything again in the state they
find) or `Drop`ped. `tokens` is the asset's contract, external; `Donate` pays
the contract's address directly, which the token allows. The caller and the
checks are those of `lib.rs`; `require_auth` is the index `m`.

Not in the model but worth knowing: `createSafebox` deploys with
`constructorArgs` (`safebox_service.dart:177-180`) while the contract has no
constructor but `init`; and `close` does not demand an empty vault although
lib.rs:203-205 says balances must be withdrawn before.

### AuthSessions

One user; `row` is the `loginChallenge` row, `token[t]` a `refreshToken` row.
A handler is a request between two database calls. `Consume` is the
conditional delete: it removes the user's row if it is in time *then*,
which need not be the row the signature was checked against; `took[h]`
remembers which one. `OneLoginPerRow` is therefore about rows, and the same
signed challenge can be the ground of two logins when it is replaced between
the check and the delete. `DeleteStale` removes the user's row whatever it is.

### StandingPlans

`todo[c]` is the list `findMany` gave check `c`; `MarkDue` is the transaction
for one plan, `CheckFails` gives the rest up. An attempt `a` goes through
`submitting`, `recording` (the transfer record), `reporting`, `found`
(`recordPayment` between its reads and its write); `seen[a]` is the
`totalPaid` it read. `due[p]` abstracts `nextPaymentAt <= now`. A period passes
(`Elapse`) whether or not the last one was billed and whatever the plan's status;
`MarkDue` sets the next date from *now*, so the periods that pass before a late check,
or while the plan is paused, become one payment. `Elapse` waits for a check that
holds the plan, as a check does not last a day.

Three more things the code allows, which no property forbids: a plan paused after
`findMany` is still billed, two overlapping checks bill it twice (so "for every
ACTIVE plan whose nextPaymentAt has passed", standing-plans.service.ts:150, is
not what happens), and a DUE payment can be paid twice by two taps, of which
one report is accepted or the later overwrites the hash. Hence
`TotalWithinRecorded` is `<=`, and `NoExtraBilling` says how often a period can be
billed: once by each of the checks that overlap.

### FountainCode

Data is symbolic: a set of source blocks stands for their exclusive or, and
`Xor` is the symmetric difference. `code` is an arbitrary choice of blocks
for every frame beyond the plain ones, made once in `Init`: TLC explores every
choice a pseudo-random generator could make, with the degrees given.
`SolveBlock` follows `_solveBlock` in order. `Sweep` is one pass of its loop, from
the last pending equation to the first: each is looked at (`Look`), reduced by
the block that is being peeled, and then it says nothing, or solves its block
(`Take`), or stays. `Rounds` repeats the pass while one solved a block. The code
loops `while (progress)`; the model stops after K rounds, and `CascadeRunsOut`
proves that the loop has ended by then, so nothing of it is cut off.

`reader` says which of the two decoders reads. The app peels one block in the
whole pass; it goes on with the block it solved last. In the script an equation
that solves a block makes that block the one peeled from the equations that
follow in the same pass; the script accepts one payload and never starts again.
Both are checked and proved against the same three properties. The loops are
recursive functions, not folds, so that the proofs can unfold them.

## 3. Runs

| Run | Instance | States | Shows |
|---|---|---|---|
| `reserve` | 2 screens, 2 allowances (limits 2, 3), 3 authorizations, requests of 1 and 2, symmetry | complete | types; the authorizations form one chain (`OneChain`); confirmations are recorded (`ConfirmedIsRecorded`); the reserve implements `ReserveLedger` (`LedgerSpec`) |
| `reserve_leave` | 2 screens, 1 allowance, 3 authorizations, back gesture, symmetry | 367,992 | each copy accounts for its own branch (`BranchesCovered`) |
| `reserve_queue` | as `reserve` | violation | a second payment deletes the first from the queue |
| `redemption` | 1 screen, 1 sheet, 2 authorizations, at most 2 payments each | 3,530,808 | types; only a payment the app could not settle is repeated (`RepaidOnlyUnsettled`); what is final is not queued (`FinalIsNotQueued`); a run drops nothing unpaid and in time from the queue but what was queued under its sheet (`LeavesQueueForAReason`) |
| `redemption_overlap` | 1 screen that may be left, 2 sheets, 1 authorization | 568,900, liveness | settled is paid (`SettledIsPaid`); every run ends (`SyncEnds`) |
| `safebox` | 4 members, 2 invocations in flight, 2 ledger entries, 1 token | 880,261 | types; `AdminsBounded`, `Solvent`, `LedgerTotals`, `OutflowByRole`, `ClosedIsFinal` |
| `auth` | 2 handlers, 2 challenges, 3 tokens | complete | types; `OneLoginPerRow`; `RotatedStaysDead` |
| `standing_plans` | 1 plan, 2 checks, 2 payments under way, 2 periods, 4 rows, 2 transactions | 216,481, liveness | types; `RecordedIsPaid`, `TotalWithinRecorded`, `NoExtraBilling`, `DueIsBilled` |
| `fountain` | 4 blocks, 7 frames, degrees 2 and 4, two sessions, both decoders | 266,838 | types; nothing held is false of its payload (`HoldsOfTheSource`); the plain frames suffice (`PlainFramesSuffice`) |
| `links` | 2 sends, 2 balances, 2 handlers, amounts 1 and 2, symmetry | 59,781 | types; `FundedIsBacked`; `ClaimedFundsNoMore`; the records implement `PaymentLink` (`LinkSpec`) |
| `accounts` | 2 users, 2 keys, 2 handlers | 111,186 | types; `ActivatedIsFunded`; `AdminsComeFromAdmins`; the rows implement `AccountDirectory` (`KeepsDirectory`) |
| `transfers` | 2 users, 2 keys, 1 tag, 1 payment, 1 bill of two references, 2 handlers, symmetry | 869,396 | types; `PayeeIsPaid`, `RecordTellsChain`, `BillsNameTheirContributors` |

Why the bounds are enough. Two screens (handlers, checks, attempts, sends) give
every overlap of two; no code path here reads more than two versions of a row,
and the proofs are for any number. Three authorizations are a chain with an
interior link. Limits of 2 and 3 against requests of 1 and 2 cover spending
exactly, in part, and too much. Four blocks are the least for which one round of
the cascade can solve two blocks and leave a third equation waiting for the one
not peeled. Four members with the contract's own address reach and try to exceed
the cap of three admins. Two sends of equal amounts can be taken for each other,
of different amounts not; both are explored, with every balance reported for
every link. Of what can be reported of a payment, `MCReports` has one source and
one destination by either user: a payment to the other key is one that does not
match, and either user may have the source's key, have replaced it, or never had
it. Two keys that either user may register give the clash of two users and the
replacement of a key. A bill of a tag and a key can name one user twice, or
nobody. `MaxPaid`, `MaxEntries`, `MaxSigned`, `MaxPeriods`, `MaxRows`, `MaxTxs`,
`MaxBalances` and `MaxFrames` are bounds of the models, not of the code.

Deadlock is checked in every run: some environment step is always possible.
Symmetry is used where the configuration tells the values apart by nothing; the
runs with liveness use none.

Fairness. `redemption_overlap`: weak fairness of a run's own steps (the
event loop continues a future; an HTTP call ends, with an error if nothing
else) and of answering the PIN dialog (it is answered or dismissed).
`standing_plans`: weak fairness of `StartCheck` (the cron job, hourly) and
strong fairness of billing a plan, because a check may fail any number
of times before a database transaction goes through, but not for ever.

## 4. Findings

`ConfirmedStaysQueued` (run `reserve_queue`): a confirmed offline payment
disappears from the queue when a later screen stores its own.
`_enqueuePendingAuthorization` adds to the list of a fresh service and stores that
(offline_reserve_service.dart:522), while the app says "it'll settle on Stellar
when you're back online" (qr_pay_screen.dart:1079).

## 5. What the code does not promise

Met while modelling; none is a property of a passing run, and the models allow
all of them unless it says otherwise.

* A retry can pay twice. `signAndSubmitTransfer` looks up no hash of an earlier
  attempt (transfer_flow.dart:42), though docs/stellar/payments-lifecycle.md:74-76
  describes that lookup. It takes a lost answer, or the app's end while
  `recordTransfer` is awaited (transfer_flow.dart:62-85), after which the confirmed
  payment is still queued; `RepaidOnlyUnsettled` says that it takes one of these.
* A spend made through the live scanner while a sheet is open with a list or syncs,
  or by a screen that was left, can vanish: the sheet's run stores the queue and the
  history it loaded before (offline_reserve_service.dart:483-491,
  offline_redemption_service.dart:214-222). The merchant has a confirmation that
  nothing will settle. `LeavesQueueForAReason` and `ConfirmedIsKept` exempt exactly
  these authorizations (`raced`).
* Sheets that overlap, one dismissed while it syncs or one opened from a Confirm screen
  over another, restore with their stale lists what the other has settled, and a later run
  pays it again. Hence `~SheetsOverlap` in what is proved of the queue.
* Two refreshes that read one live token both rotate it, and each client goes on
  with a successor of its own (auth.service.ts:113-115).
* Frames that suffice to solve the equations may not suffice for the decoder: a
  round that solves two blocks peels only the last (fountain_coder.dart:363), and
  the script misses others. "Any sufficient subset" of
  docs/scf-application/technical-summary.md:52-54 is not literally so; more
  frames help, and the plain frames always do.
* The script that is called the cross-platform verification
  (verify-offline-protocol.ts:3-12) samples degrees without the app's band
  between 0.93 and 0.97, so for payloads of six blocks and more the two
  generators choose different blocks for some seeds.
* A bill can be left with some of its contributors: the comment at
  split-bill.service.ts:63-65 promises that nothing is half-created, and lines
  106-127 resolve and store one by one. `markContributorPaid` (156-166) has no
  caller. `getByToken` (split-bill.controller.ts:32-35) hands a bill's id to a
  lookup by user and finds nothing. The screen's `_payShare` asks for the
  creator's user record, which the guard refuses to anybody else.
* A record need not be of the caller's payment. `verifyPayment` compares destination,
  amount and asset and never the source account (stellar.service.ts:209-226), and
  `fromPublicKey` is only compared with the caller's own key
  (transfer.service.ts:89): anyone can record a payment of somebody else as their own,
  after which the payer's own report returns that record. record-transfer.dto.ts:11-16 and
  transfer.service.ts:66-70 say that every field must match the chain.
* The payer is not told who will be paid. transfer.service.ts:29-31 has the resolved name
  shown before the payment; send_money_screen.dart:104-122 goes straight to the PIN and
  names the recipient afterwards (134), and the QR screen shows a shortened key.
* A failed key registration at the end of onboarding cannot be repeated
  (pin_and_wallet_screen.dart:62-127): the wallet exists by then. Not in the model.
* Sending again after a failure opens another link, and money escrowed for the
  first stays with it (send_via_link_screen.dart). Its expiry is stored and never
  compared, and nothing sets EXPIRED.
* The status of a link follows whatever was reported last. A CLAIMED link can be FUNDED
  again, with another balance (links.service.ts:157-179) or by a registration that
  verified its balance before the claim; one balance can so have served two links, one
  after the other. CLAIMED can be written while the balance
  on the record is untouched, when the id changes between the claim's check and its
  update (204-213), against the comment at 182-185 ("cannot be talked into marking a
  claim that didn't happen"). The asset's code is compared and its issuer is not.
* The activation flag is never cleared (onboarding.service.ts:37), also when the
  key is replaced; that is the exception in `ActivatedIsFunded`.
* A standing plan keeps the recipient's key of the day it was created.
* `createSafebox` deploys with constructor arguments the contract has not, and
  `close` does not demand an empty vault (see Safebox above).
* The due check bills plans that were paused since it read them, and two checks
  bill one plan twice (see StandingPlans above). Periods that pass before a late check,
  or while a plan is paused, are billed together as one payment
  (standing-plans.service.ts:156-169): a plan can pay fewer times than its
  periods.

## 6. Proofs

All proofs assume only the named assumptions of the modules: amounts and limits
are positive, `None` is none of the values it stands beside, the lists of
contributors have no reference twice, and the ids of allowances and of
authorizations differ (`IdsAssumption`: both are hashes, of a certificate's text
at offline_reserve_service.dart:64 and of an authorization's at 185, which are
never the same text). A proof is about every payload size, number of screens,
members, handlers, rows and so on; TLC's runs are about one.

* `OfflineProofs`, the reserve. `Conservation` is not inductive: it says nothing of
  the copies on the screens. The strengthening relates `mem[s]` of a screen that
  is mid-spend to `allowance`, bounds what a copy may hold by what was
  authorized, ties the tip of each live copy to the newest authorization, and
  says that at most one screen is mid-spend unless signing screens can be left.
  `BalanceConserved`, `NeverOverspent` and `ChainNeverForks` follow, and from them
  `ImplementsLedger`: `Sign` maps to `Authorize`, `FinishProvision` to `Grant`,
  the rest to stuttering. All carry the hypothesis `~LeaveWhileSigning`.
  `ConfirmedRecorded` needs no such hypothesis, and neither does
  `BranchesAreCovered`, which is about the forks that leaving a screen makes. Its
  property sums a branch of any length, which the model states as a total that
  runs along the branch (`BranchTotals`: a function from ids to amounts), so that
  it can be carried from one state to the next. `BranchInv` adds what makes it
  inductive: whatever an authorization or a copy continues is a certificate or an
  authorization that was issued (`Grounded`, `Rooted`), and no allowance is
  provisioned over while copies of it exist. A fresh id continues a branch and is
  continued by none, so signing extends one branch and changes the total of no
  other.
* `OfflineProofs`, redemption. `SettledArePaid` holds for any number of sheets
  that overlap: a run that has seen its payment accepted holds a paid
  authorization. `SettledPaidOnce`, `FinalNeverQueued` and `LeavesWithReason`
  carry `~SheetsOverlap` and nothing else: sheets may be dismissed at any time,
  screens may be left, and spends go on over an open sheet. They rest on
  `OnceInv`, which says where an authorization can be: what a screen has signed
  and not queued is nowhere else; what waits (stored queue, the screens' lists,
  list and work of the one sheet that is open or runs) is not over, and a
  payment the app may still settle is that of the run's authorization in hand.
  One frame lemma (`OnceFrame`) covers every step that signs and queues nothing:
  it names the authorizations that become over and asks that they leave every
  place they wait in. For `LeavesWithReason`, `ListInv` says that a sheet that
  holds a list has the whole stored queue on it, but for what was queued since
  (`raced`).
* `OfflineProofs`, the composition. What is proved of the reserve is proved again
  with the sheets beside it. `SheetsFrame` does most of it: no step of a sheet, of a
  run or of the network touches allowances, copies or what was issued, and a step of
  the reserve under a sheet is one it takes alone. So
  `BranchesCoveredWithSheets` holds without a hypothesis, and `SheetsNeverFork`
  and `SheetsKeepTheLedger` under `~LeaveWhileSigning`. The history is another
  matter, because `FinishSync` replaces the stored one by the run's copy, and a
  spend may have been recorded since the run read it. `ConfirmedKeptWithSheets` says,
  with no hypothesis on sheets or screens, that a confirmation a merchant was shown
  is lost so only if it was queued while a sheet held a list. `HistoryInv` gives the
  reason: a confirmation that is not `raced` was queued while no run was going on, no run
  starts before the screen in front has shown it, and what was shown
  before a run is in its copy.
* `OfflineProofs`, runs. `SignedInv` follows an authorization from the screen that signed
  it through queue, list and run to Stellar, and gives `PaidWasSigned` and
  `NoneIsPaidLate` (a payment is one, made by a run that holds the authorization
  and found it in time), with no hypothesis. `RunsUseThemselvesUp` proves that
  `Work` (five times what is left to take up, plus how far the one in hand is) falls
  with every step of a run and never rises: the half of `SyncEnds` that is
  safety. The other half, that a run whose step is possible takes it, is fairness.
* `LinksProofs`. `LinkInv` says what a handler has checked still holds when it
  resumes: a balance once seen keeps its amount, one that is gone stays gone, and
  Horizon is never ahead. `LinksKeepPromise` maps `CreateBalance` to `Escrow`, `Fund` to
  `Fund` (the money may be taken already), `Take` to `Take`, `Claim` to `Claim`.
  `ClaimedBalanceIsSpent` needs that Horizon itself no longer has a balance that a
  CLAIMED was, or is about to be, written for.
* `AccountsProofs`. `ActivatedAreFunded` from an invariant over the keys ever
  stored; `AccountsKeepDirectory` maps `CheckOwnKey` to `Admit`, `WriteKey` to
  `Register`, ends of handlers to `Forget`. `KeysAreForever` is proved of the
  directory and so of the rows.
* `TransfersProofs`. `TransferInv` has three parts: what users have is part of
  what they ever had (`HistoryInv`), a payment is fixed when it is resolved and a record
  was verified against Horizon (`PaymentInv`), one handler works on a bill
  and adds what the next reference stood for (`BillInv`).
* `SafeboxProofs`. The type invariant includes that balances are naturals, which
  needs the guards of every transfer; `AdminCap` and `VaultCovered` are
  inductive with it. `OutflowOnlyByRole` and `ClosedForGood` are action
  properties, shown for each disjunct of `Next` under the invariant.
  `LedgerAddsUp` holds for a ledger of any length: a total is a sequence that
  starts at 0 and adds the amount of each entry of its kind (`AddsUp`), and
  `EntryAdds` extends that sequence by the entry a call appends.
* `AuthSessionsProofs`. `OneLoginPerRow` rests on an invariant that relates
  three places a challenge can be: the row, a handler that took it, a login.
* `StandingPlansProofs`. `BilledOncePerCheck` counts, for each plan, the rows
  made and the checks that still hold it against the periods.
  `TotalWithinRecorded` needs that every `seen[a]` is a total the RECORDED rows
  still cover, which holds since rows never leave RECORDED; cardinalities by the
  theorems of `FiniteSetTheorems`.

* `FountainCodeProofs`. The decoders are loops over data, and the library's
  induction rules take the predicate as an operator, which no installed prover
  can instantiate. `WFMin` takes a set, and `NatLessThanWellFounded` gives it the
  order of the natural numbers: `LeastElement` and `Successors` (a set with 0 and
  all successors is all of `Nat`) are the induction used here, `LoopExists` says
  that the steps of a loop define a function, without which nothing could be said
  of a function defined by recursion. A decoder of session s is one of
  `Decoders(s)`: what it has solved is a block of s, what waits is the sum of at
  least two blocks of s, and it knows the block of every plain frame it has read.
  `ReduceIsTrue`, `TakeKeeps`, `LookKeeps`, `SweepKeeps`, `RoundsKeep` and
  `AddEquationKeeps` carry that through one equation, one pass and the whole
  cascade, for both readers; `FountainInv` carries it through frames of any
  session in any order. `DecoderTypes`, `DecodesTheSource` and
  `PlainFramesAreEnough` follow. `CascadeRunsOut`: a pass that goes on has solved
  one more of K blocks, so fewer than K passes go on.

Ten theorems state what no run checks. Six are close to a property that a run
does check: `Conservation` and `NoOverspend` (beside `LedgerSpec`),
`ConfirmedIsKept` (`ConfirmedIsRecorded` with the sheets beside it),
`ClaimedWasTaken` (which `LinkSpec` implies), `KeyIsForever` (which
`KeepsDirectory` implies) and `RotatedIsRevoked` (beside `RotatedStaysDead`).
`RunsUseThemselvesUp` (beside `SyncEnds`), `PaidWasSigned` and `NoneIsPaidLate`
complete what the runs check of redemption. The last, `CascadeRunsOut`, is about an
operator of the model. The other composed theorems restate, of reserve and
redemption together, properties whose runs are about the reserve alone.

Model-checked only: liveness (`SyncEnds`, `DueIsBilled`), which is out of the
prover's reach. Every invariant and action property that a passing run checks is
stated by a theorem. A theorem that carries `~LeaveWhileSigning` or
`~SheetsOverlap` is about a property that fails without it; its run gives the
constant that value.

## 7. Not modelled

* Safebox registry: its routes read an `:id` that their path does not have
  (`safebox.controller.ts`), so each ends in an error and no row is written.
* Safebox deployment: it passes constructor arguments to a contract that has
  `init`, so its sequence of transactions has no meaning to model.
* Gated features, providers, health, configuration, validators: refusals,
  constants, checks of the form of one input.
* Wallet and local stores: keys behind a PIN; a wrong PIN is an error path of
  the callers that are modelled. Widgets, theme, layout.
* Signatures, hashes, checksums and base64: a hash is the identity of what it
  covers, a frame is read whole or not at all.
* The onboarding wizard's screens: the models' clients send its requests in any
  order and again.

What could come next: an end-to-end specification from the scan of a request to
its settlement, which `OfflineRedemption` would implement; several plans paid
through `Transfers`; for the fountain code, which sets of frames the two cascades
do decode, a property of the graph of frames and blocks.
