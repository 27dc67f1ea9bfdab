# Verification of account-sales-bot

This directory holds TLA+ models of the Telegram bot in `src/`, the TLC
configurations that check them on small instances, and machine-checked proofs
(TLAPS) that hold for every size. The bot sells OpenVPN accounts (RouterOS User
Manager) and V2Ray accounts (a 3x-ui panel). It takes money by wallet, by the
ZarinPal gateway, by card-to-card transfer with a receipt, or as a reseller's
debt. What can go wrong in it is mostly one thing: an order that is paid and
not delivered, delivered and not paid, or delivered twice, because several
updates, failed calls, restarts and late answers met in the middle of it.

## 1. The system

The program is one process: an asyncio event loop, thread lanes for blocking
calls, and SQLite. Every function of `storage.py` is one transaction (`_tx`).
A handler is a coroutine; it gives up control at every `await`, so between any
two of its storage or remote calls another handler may run. A crash (the
watchdog calls `os._exit(75)`, `runtime.py:167-188`, and systemd restarts the
service) loses all memory and keeps SQLite and the panels.

| Component | State it keeps | Operations | Talks to |
|---|---|---|---|
| Checkout (`start_order_message`, `bot.py:7416`) | `pending_payments` rows | price an order, reserve wallet money, write the row, hand out a payment page | plans, wallet, gateway, card requests |
| Order delivery (`_deliver_verified_pending_unlocked`, `fulfill`, `finalize_successful_order`) | none of its own; the order lock in memory | debit, prepare, claim, write, record, book, announce, delete the row | all below |
| Fulfillment journal (`storage.py:1770-1912`) | `fulfillments.state` | prepare, executing, prepared again, remote_done, provisioned, completed | delivery, cancellation, trials |
| Wallet (`storage.py:1030-1102`) | balance and `wallet_transactions`, keyed by transaction id | debit, refund, referral reward, adjustment by the administrator | checkout, delivery, cancellation |
| Card transfers (`storage.py:1340-1674`, `bot.py:2901-2969`) | `card_transfer_requests` | create, submit a receipt, cancel, claim, reject, approve | pending rows, delivery |
| ZarinPal client | the gateway's own record | create a payment, verify | checkout, verification, release |
| RouterOS and 3x-ui clients | the accounts | create, renew, read | delivery, expiry monitor |
| Reseller debt (`storage.py:2615-2953`) | resellers, debt entries | add, edit, delete, place an order, charge it, settle | checkout, bookkeeping |
| Referral programme (`storage.py:958-1025`) | codes and their one use | discount, use, reward | checkout, bookkeeping |
| Trials (`create_test`, `bot.py:8357`) | tests given per user and service | one trial per service | `fulfill` |
| Update processor, keyed locks, lanes (`bot.py:215-303, 479-576`) | locks, queues, slots | serialise a user's updates and an order's work, bound blocking calls | everything |
| Expiry monitor (`bot.py:8523-8660`) | notification claims | scan, claim, send, mark sent | panels, accounts |
| Database restore (`bot.py:2159-2229, 4267-4388`, `restore_manager.py`) | the gate flag, the safety copy | inspect, quiesce, replace, reload, roll back | everything that writes |
| Settings and plans (`app_settings.py`, `plans.py`) | stored values and an in-memory snapshot | change, refresh | checkout, menus |
| Broadcast, automatic backup (`bot.py:2232-2330, 8675-8800`) | one task each, a draft, an event | draft, confirm, copy; sleep, wake, back up daily | Telegram |

How they interact on an order: a button press makes `verify_latest` or
`start_order_message` enter the delivery, which takes the order's lock, reads
the pending row again, debits the wallet, walks the journal around the remote
write, does the bookkeeping and sends the message; only then is the row
deleted. Cancelling a local order takes the same lock. Releasing an unpaid
gateway order, and the administrator's release, take no lock. Card approvals
take the order lock after claiming the request.

What is hard: every pair of calls above can be separated by another handler,
an exception or a crash; a remote request may take effect after its caller
gave up; a renewal is additive, so writing it twice gives the customer twice
the quota; and the payment gateway is only known by asking it.

What makes each component right:

* delivery and journal: applied at most once, never before paid, journal never
  backwards except for the recovery of a purchase, every paid order ends;
* wallet: a debit and a refund of an order at most once, never both for an
  order that was served, never more reserved than there is;
* card transfers: the request and the row agree, decisions are final, approved
  means served;
* reseller debt: charged exactly once per served order, never above the limit;
* trials and referrals: at most one each, and none lost to a failed step;
* infrastructure: one holder per key, slots follow the real threads, nobody
  starves;
* expiry monitor: at most one notice per account, kind and cycle;
* restore: no awaited write is lost or lands in the wrong database, and the
  memory agrees with one database in the end.

## 2. Modules

| Module | What it is |
|---|---|
| `OrderDelivery` | the life of financial orders from the writing of the pending row to its deletion |
| `CardTransfer` | card-to-card requests on top of `OrderDelivery` |
| `OrderPromise` | the abstract specification of an order paid inside the bot or by card transfer |
| `DeliveryPromise` | `OrderDelivery`, with `CardTransfer` on top, implements `OrderPromise` |
| `Checkout` | several orders of one customer: prices, reservations, payment links, the discount |
| `ShopSettings` | the administrator's switches, resellers and their debt, in database and memory |
| `Dispatch` | from an update to its handler, and from a handler to its threads |
| `ExpiryMonitor` | the scan that tells owners their accounts run out |
| `DatabaseRestore` | the replacement of the database file inside the running bot |
| `Background` | the scheduler of the automatic backup, and the public broadcast |
| `MCDelivery`, `MCDispatch`, `MCExpiry`, `MCRestore` | instances for TLC: symmetry, functions and sets a configuration cannot write |
| `OrderProofs` | theorems about `OrderDelivery`, the promise it implements, and `CardTransfer`, in six parts |
| `CheckoutProofs`, `ShopSettingsProofs`, `DispatchProofs`, `ExpiryMonitorProofs`, `DatabaseRestoreProofs`, `BackgroundProofs` | theorems about the module each is named after |
| `CollectionLemmas` | what these need of sums over finite sets and of sequences |

`CardTransfer` extends `OrderDelivery` and runs its `Next` unchanged. The other
modules take what they need of a neighbour as one step: `Checkout` and
`ShopSettings` have a delivery of a few transactions whose inside is
`OrderDelivery`'s subject; `OrderDelivery` takes the order lock as atomic, and
that a keyed lock which is evicted and made anew still behaves so is what
`Dispatch` shows for the user locks (`KeyedAsyncLocks` uses the same scheme);
`ExpiryMonitor` and `Background` see a restore as a gate that closes and opens,
and `DatabaseRestore` sees them as loops that write, two of which are gathered.

### OrderDelivery

State and code:

* `payload`, `pending`, `committed`, `authorized`: the `pending_payments` row
  and two flags of it. The payload keeps what the delivery branches on: the
  service, buy or renew, the payment kind, whether wallet money and a referral
  code are used, and whether a V2Ray account to be renewed is expired or used
  up (`XUIClient.renew` then makes two requests instead of one). Legacy
  `admin` and `preflight` rows of older versions are left out.
* `paid`: what the gateway knows. `ledger`: the order's own debit and refund.
* `journal`, `stale`: the row of `fulfillments` and whether it is older than
  the 120 seconds of `fulfill`.
* `remote`, `applied`, `inflight`: the account on the panel (`partial` between
  two mutations), how often the package was granted, and a request whose
  caller is gone.
* `books`, `told`: bookkeeping rows, and whether Telegram took the message.
* `lock`, `pc`, `ord`, `task`, `seen`, `ok`: memory. `seen` is
  `wallet_committed` in the handler's copy of the row, read under the lock and
  used after awaits; `ok` is `bookkeeping_ok`.

A handler is a Telegram update being processed. `pc` names the await it stands
at, so each action is one storage transaction or one remote call with the
decision that follows it:

| Actions | Code |
|---|---|
| `PlaceLocal`, `PlaceGateway`, `Pay` | `start_order_message`, `create_payment`, the customer |
| `StartVerify`, `Authorize` | `verify_latest`, `verify_cmd`, `_authorize_zarinpal_and_deliver` |
| `StartDeliver` | `verify_latest`, `verify_cmd`, `reconcile_stale_pending` on local orders |
| `StartRelease`, `Release` | `cancel_latest_payment`, `_cleanup_duplicate_unpaid_first_purchase_pendings`, stale-plan removal, the administrator's release |
| `Acquire`, `ReadFresh` | `ORDER_LOCKS.hold`, `get_pending` under it, `_assert_delivery_payment_authorized` |
| `Commit`, `Flag` | `debit_wallet` / `wallet_order_debited`, `update_pending` |
| `ReadJournal`, `Lookup`, `Unclaim`, `Prepare` | the head of `fulfill`, `_recover_prepared_buy`, `mark_fulfillment_prepared`, `prepare_fulfillment` |
| `Check`, `Claim`, `Write`, `RemoteDone` | the service clients and their `before_write` / `after_write` callbacks |
| `Hydrate`, `Save` | reads after the write, `upsert_account`, `mark_fulfillment_provisioned` |
| `ChargeReseller` ... `Complete` | `finalize_successful_order`, `mark_fulfillment_completed` |
| `Send`, `Pop` | the Telegram message, `pop_pending` |
| `StartCancel`, `Inspect`, `Refund`, `Drop` | `_cancel_local_pending` |
| `Fail`, `BookFails`, `WriteUnacknowledged` | an exception at an await; the one the delivery catches; a remote call that raises although its request is under way |
| `Land`, `Lose`, `Crash`, `Age` | late requests, the death of the process, the clock |

A remote write whose user exists without a profile is one mutation in the code
and a repeated first one, without effect, in the model.

### CardTransfer

`request` is `card_transfer_requests.status`. `Next` of `OrderDelivery` runs
unchanged; an approval claims the request, queues for the order lock as task
`approve`, authorizes the row (`AuthorizeCard`) and leaves the pipeline by
`Finish` (`complete_card_transfer_request`) instead of `Pop`.

### OrderPromise

Take, grant, return, close: the price at most once and before the package, the
package at most once, no return after a grant that could be read back, and no
closing of an unserved order whose money is still held. OpenVPN grants are not
observable in this sense, because the code never asks the router when it
recovers an interrupted purchase (finding 2 below). An order is closed when its
row is gone; orders paid at the gateway are never closed in this sense, because
their rows may be released while their payment is under way (finding 3).
`DeliveryPromise` checks `ShopSpec`, the steps of `CardTransfer` with every
payment kind in use and the fairness of the deliveries alone.

### Checkout

`start_order_message` reads the plan, the balance and the reservations at
separate awaits and writes the row last. The module keeps each read apart
(`StartOrder`, `ReadBalance`, `Price`, `StoreRow`, `RequestLink`), because
between them the administrator may edit the plan (`EditPlan`,
`update_sale_plan`), take money from the wallet (`AdjustWallet`,
`admin_adjust_wallet`), or verify and release the customer's orders.

There are two actors on a row. The customer's handler (`at`, `cur`, `seen`)
does one thing at a time, because the updates of a user are serialised. The
administrator's `/verify` of any open order (`AdminVerify`, `verify_cmd`) and
release (`AdminFindUnpaid`, then `AdminRelease`; `admin_pending_cancel`, and
`/verify` of an order whose plan has changed) fall anywhere beside it. Both
release on an answer of the gateway that is as old as the question: `told` and
the await `"unpaid"` hold such answers, and the row is deleted (`Release`)
whatever became of it since.

* `balance`, `ledger`, `adjusted`: the wallet, its transactions of orders, and
  what the administrator added.
* `rows`, `order`: open pending rows, the oldest first, and what each says: its
  wallet part, gateway part and discount, the price read for it (`base`) and
  the price photographed for it (`snapshot`).
* `thread`: calls of `create_payment` that still run. `LinkDeadline` is the
  deadline of `run_zarinpal`: the customer is told it failed, the thread goes on
  and may store its row later (`LinkStored`).
* `stage`: where the delivery of an order is: waiting for the lock, then
  `TakeUp` (the row is read again under the lock, and a row that has gone is
  not delivered), `Debit`, `Commit`, `Serve`, `Book`, `Pop`, each one
  transaction, each of which may fail (`Fail`). Whoever asked for it, an order
  has one delivery here: a second one would wait for the first one's lock and
  is `OrderDelivery`'s subject.
* `raced`: a ghost that names what happened beside somebody's handler: a
  decrease of the wallet or an edit of the plan beside an open checkout, a
  deadline of a link, a debit between the two reads of `wallet_available`
  (`Between`), a release of an order authorized meanwhile. The properties say
  with it which races the code accepts.

Rows go by `FindUnpaid` and `ReleaseUnpaid` (the customer's cancellation, stale
plans in `verify_latest`, `verify_cmd` and `reconcile_stale_pending`),
`AdminRelease`, `CancelCard`, `CancelLocal` with `DropCancelled`, or `Pop`. A
cancelled first purchase is followed by the clean-up of the others that are
unpaid (`FindDuplicate`, `ReleaseDuplicate`, `EndDuplicates`). Wallet, referral
and rows are each customer's own, so the module has one customer.

### ShopSettings

Every mutation of `app_settings.py` is a transaction followed by a replacement
of the snapshot all handlers read, with `_MUTATION_LOCK` around both. A
mutation is therefore two actions: the transaction (`Switch`, `Add`, `Edit`,
`Delete`, `Confirm`, `Charge`), which takes `lock` and remembers what it has
`carried`, and `Publish`. A change of a debt (`Confirm`, and the `Charge` of an
order) takes its state from a second read (`app_settings.py:645, 652`): under
the lock it gives what the transaction left (`CarriedOK` in the proofs), but it
may raise (`PublishFails`). The lock is then free and the snapshot as it was, the button
and the open order can be tried again, and `behind` (a ghost) names the
reseller whose debt memory may not have, until any later mutation publishes.
The rules between switches (one service and one
gateway stay on, a card transfer needs a card, a referral programme needs the
wallet) are read from the snapshot, as in the code.

`Migrate` is one migration of `initialize_runtime_settings`, once for its
marker in `meta`; `Crash` sends the bot back to the first. A reseller's order
goes through `Start` (the snapshot says who is a reseller), `Create` (the table
says so again and gives the rate), `Serve`, `Charge`
(`charge_reseller_order`, idempotent by operation, refused above
`MAX_RESELLER_DEBT_TOMAN` with the account already made), `Close` or `Cancel`.
`Ask`, `AskZero` and `Confirm` are the administrator's change of a debt: a
question in a message, and the button under it, whose operation is named after
that message.

### Dispatch

| Variables | Code |
|---|---|
| `table`, `refs`, `lockOf` | `_locks`, `_lock_refs` of `PerUserUpdateProcessor`, and the lock object each coroutine holds a reference to |
| `line`, `room` | the waiters of a lock and of a slot semaphore, in the order of `asyncio` |
| `job`, `pool`, `taken` | `BlockingLane`: the executor's queue, its threads, the slots |
| `awaits`, `timed`, `calls` | the job a handler waits for, whether under a deadline, how many calls it has made |

An update goes `Join` (the outer semaphore, the lock found or made, the count),
`LineUp` and `Acquire` (the lock of its user), `Run` (a slot: `/start` has slots
of its own), `Finish`, `Release` (the lock), `Leave` (the count, and the
eviction of the lock by whoever leaves last). A handler makes blocking calls by
`Submit`, refused when all slots are taken; `Work` and `WorkDone` are the
thread. A call is timed (`run_blocking_retry`, `run_zarinpal`) or plain
(`run_blocking` alone, which every storage call and every panel write uses).
`Deadline` is `wait_for` around a timed one: a job that has not begun is
withdrawn, one that runs keeps its slot until its thread ends. A plain call
waits as long as its thread takes.

### ExpiryMonitor

`panel` is what RouterOS or 3x-ui would answer, with volume and time as levels
against the warning thresholds; `ClassifyOpenvpn` and `ClassifyV2ray` are the
classifiers of `account_notifications.py` over these levels. `version` is
`accounts.updated_at`, `claimed` and `marked` the columns of
`account_expiry_notifications`. A scan is one service in one cycle of the loop;
`loop` is the cycle whose two scans the loop gathers. For each scan `scan` holds the rows one query
returned and the scan has not done with: their place in the order of the query,
the account, and its version at that moment; the scan takes the first of them
(`Row`). `at` is the await its scan stands at: `ReadStatus` asks the panel,
`Claim` is the transaction that compares the
version again, `Send`, `MarkSent`. `RenewPanel` and `UpsertAccount` are the two
halves of a renewal; an account view that fills in missing details is an
`UpsertAccount` by itself. `Toggle`, `Pause`, `Crash` stop a scan.

`asyncio.gather` (`bot.py:8626-8629`) takes the first exception. A claim or a
mark that raises is caught by nobody (`bot.py:8568, 8595`): `WriteFails` ends
its scan and the cycle, the other scan goes on by itself, and the loop may
start the next cycle (`StartScan` with a `FreeCycle`) while it does, so that
two scans of one service run beside each other.

### DatabaseRestore

A database is where it comes from (`live`, `upload`) and the writes it holds,
one for each activity; `file` and `wal` keep the log of SQLite apart from the
file, because a copy of the file alone loses what is only in the log. `copies`
are the safety copies ever made and `oldest` the first of them that is still on
disk. `epoch`
numbers the files that have been the database; `base` is the epoch an activity
began in and `job` the one its thread's connection belongs to. `orphans` are
the scans left behind by a sibling that raised (`Busy` of one of `Scans`): they
go on, and `_BACKGROUND_DATA_ACTIVITY` no longer counts them. `stranded` (a
ghost) remembers a failure after which the code undoes nothing.

| Actions | Code |
|---|---|
| `Begin`, `Submit`, `Commit`, `Busy`, `Abandon` | an update or loop past the gate, its thread in a lane, the lane full, the deadline that leaves the thread behind |
| `CreateTask` | `schedule_telegram_profile` and its cache; the confirmation of a broadcast |
| `Execute`, `Poll`, `GiveUp` | `admin_restore_execute` and `_wait_for_restore_quiescence` |
| `CopyUpload`, `Safety` | the checks on the upload, `_make_safety_backup` |
| `RemoveSidecars`, `Replace`, `Sync` | `_replace_database_file`: unlink, rename, sync of the directory; `replaced` is set after it |
| `Migrate`, `Trim` | `initialize_storage`, `_trim_safety_backups` |
| `Reload`, `ClearCaches` | `_reload_runtime_after_database_restore`, `_clear_runtime_caches_after_restore` |
| `RollBack`, `Return`, `Raise` | what a failure at each step leads to |

`Raise` follows the code step by step. A failure of the migration brings the
safety copy back, one of the reload does and loads everything again. One of the
sync (`restore_manager.py:189`) comes after the rename and before `replaced =
True`, and one of the trimming (`restore_manager.py:246`) after the `try`: both
leave the upload in place, the gate open, and memory as it was.

Two quiet polls stand for the 250 ms of quiet the code asks for: between them
the event loop starts every task that had been created, which one poll would
not see.

### Background

The loop of the backup is `ReadStatus`, `Arm`, then `Woken` or `Timeout`,
`Recheck`, `Create`, `Deliver`; `Save` is the commit of a changed setting and
`Wake` the resumption of its handler, with the audit row between them
(`AuditFails`). Time is counted in hours, and passes while the loop sleeps. The
broadcast is a draft with a token (`Preview`, `Forget`), a confirmation that may
be an old button (`Confirm`), and a task that copies to one reader after the
other with one retry (`List`, `Copy`, `EndBroadcast`); `got` and `lost` are
ghosts of what readers have and of answers that were lost.

## 3. Runs

| Run | Instance | Shows |
|---|---|---|
| `delivery_safety` | 1 order of any kind but card, 3 handlers, 2 faults; 108,667 states | `TypeOK`, `AppliedAtMostOnce`, `PaidBeforeService`, `BooksFollowService`, `NoLocalOrderLost`, `RefundOnlyBeforeWrite`, `JournalForward`: through retries, failures, crashes and late requests an order is applied once at most, never before it is paid, and a local one is never lost |
| `delivery_promise` | 1 order of any kind, 2 handlers, 2 faults; 104,917 states; fairness | refinement `KeepsThePromise`: handlers, requests, crashes and late requests come to taking, granting, returning and closing as the promise allows; liveness `EveryOrderSettles` |
| `card_transfer` | 1 card order, 2 handlers, 2 faults; 16,426 states; fairness | `RequestMatchesRow`, `NothingWithoutApproval`, `ApprovedMeansServed`, `DecisionsAreFinal`, `ClaimedGetsApproved`: request, row and delivery agree whatever races, decisions are final, a claimed receipt is served in the end |
| `checkout` | 2 orders, prices 2 and 3, discount 1, wallet of at most 3, 1 fault, 1 deadline, 1 act of the administrator; 746,591 states | `CheckoutTypeOK`, `WalletAddsUp`, `ReservationsCovered`, `ServedIsPaid`, `OneDiscount`, `AuthorizedStays`: no double debit, open orders are covered by the wallet but for four named races, what is served was paid in full, one discount, an authorized row goes booked or by an older release |
| `settings` | 2 resellers, 2 people, 2 orders, debt of at most 2, 3 changes, 1 crash or failed read; 832,715 states | `SettingsTypeOK`, `ShopStaysOpen`, `DebtIsRight`, `StartupKeepsChoices`: the rules between switches hold in the database, memory follows it but for debts whose second read failed, debts are the sum of their entries, a start overwrites no choice |
| `dispatch` | 3 updates of a user who may hang, 1 of another; room for 3, 2 work slots, 1 for `/start`, 1 thread, 2 lane slots, timed and plain calls; 454,587 states; fairness | `DispatchTypeOK`, `OneAtATimeInOrder`, `NothingLeaks`, `OthersAreServed`: one user's updates run in order, locks and slots are given back exactly once, a hanging user stops nobody else unless a plain call of theirs waits for a thread that never returns |
| `expiry` | an OpenVPN account, a V2Ray account, a trial; 2 versions of the first; 2 cycles at a time; 1 fault, 1 switch; 499,768 states; fairness | `ExpiryTypeOK`, `NoticesAddUp`, `NoticeFromItsVersion`, `ExhaustedGetsNoticed`: a notice at most once for a version, never from a reading of an earlier one, and one for every account that stays exhausted, with scans that overlap |
| `restore` | an update, the two scans of the expiry monitor, a profile save; 2 snapshots in memory; 1 copy kept; 2 restores, 2 faults, 1 abandoned thread; 872,628 states; fairness | `RestoreTypeOK`, `NothingLost`, `UnderOneDatabase`, `SettledTogether`, `GateOpens`: no awaited row is lost while its copy is kept, no awaited work spans two databases, memory is that of one database, the gate opens |
| `background` | a day of 2 hours, 2 settings, 2 readers, 3 acts, 2 drafts, 1 fault; 1.07 million states; fairness | `SleepsOnCurrentSettings`, `DraftSentOnce`, `BackupsGoOn`: no lost wake-up, no second copy, backups go on |
| `refunded_and_served` | 1 wallet order, 1 handler | finding 1 |
| `prepared_after_write` | 1 wallet order, 1 handler | finding 2 |
| `authorized_dropped` | 1 gateway order, 2 handlers | finding 3 |

### Bounds

Every bound is a constant named `Max...` in its module, or the size of a set.

* Orders of `OrderDelivery` and `CardTransfer` share nothing: each has its own
  lock, row, journal and account, so one order shows every interleaving of its
  handlers, and the proofs are for any number. The owner's updates are
  serialised and there is one administrator, so two handlers on one order is
  what the bot can have; three is more. Two faults let a failure hit the
  recovery from a failure. `applied` stays at 1 by the invariant it states.
* `Checkout`: two orders are what it takes to compete for wallet, discount and
  first purchase; prices of 2 and 3 with a wallet of 1 to 3 and a discount of 1
  make orders that the wallet pays alone, in part, or not at all, and a balance
  below its reservations. One deadline, one fault and one act of the
  administrator can fall on any step of either order; one act is a `/verify`
  inside the customer's checkout or beside a release, or a release beside the
  customer's verification.
* `ShopSettings`: a debt limit of 2 with rates of 1 and 2 lets two open orders
  exceed it together; three changes are a switch on each side of another
  mutation, or a question, its repetition and an order between. The fault is a
  crash or a failed second read.
* `Dispatch`: three updates of one user make a lock with a holder and a waiter
  at the moment another leaves, and an eviction with a newcomer behind it; one
  worker and two slots make a lane that is full, and one with a job that waits.
* `ExpiryMonitor`: two versions are a listing before and after a write of the
  row; two cycles are a scan left behind and the next one over the same
  accounts; the trial checks that trials stay out.
* `DatabaseRestore`: two restores give a second safety copy and a profile cache
  of the first, and with one copy kept (the code keeps five) the second unlinks
  the first; two faults reach the failure of the way back, or a failed gather
  and a failure of the restore beside its orphan; one thread left behind by its
  update is what the gate alone would miss. The instance has no broadcast: the
  properties exclude it from what is awaited, and the theorems are for any
  number of them.
* `Background`: with a day of two hours a changed hour is always the next one
  or a day away; two drafts give an old button; two readers a reader before
  and after the one whose answer is lost.

`CHECK_DEADLOCK FALSE` everywhere: a system whose orders are settled, whose
updates are done and whose faults are used up is where it rests.

### Fairness

* `OrderDelivery`: the event loop runs ready handlers (weak fairness of
  `Proceed`); `asyncio.Lock` wakes its waiters in order of arrival (strong
  fairness of `Acquire`); time passes and requests under way arrive or are lost
  (`Age`, `Land`, `Lose`). `StartDeliver` and `StartVerify` are strongly fair:
  liveness is for an owner, or administrator, who asks again whenever nothing
  runs on the order, because the code has no background retry of deliveries.
* `CardTransfer`: the administrator presses the retry button a failed approval
  shows. Nobody is assumed to pay, to cancel or to submit a receipt.
* `Dispatch`: every step the event loop makes for an update, and its timers,
  are weakly fair; the handlers of the slow user need never end, and nothing is
  assumed of threads: neither `Work` nor `WorkDone` is fair. A deadline exists
  for timed calls only, so the property names its own condition: the threads
  return (`ThreadsReturn`), or, even if threads never return, no plain call of
  another user waits for ever (`PlainCallsReturn`). The waiters of locks and
  semaphores are kept in queues,
  as `asyncio` keeps them, so no strong fairness is needed.
* `ExpiryMonitor`: the loop comes round and its awaits end (`StartScan`,
  `Scanner`); panels, messages and writes may fail within the bound.
* `DatabaseRestore`: the wait for quiet has a deadline (`GiveUp`) and every
  step of the handler ends or raises (`RestoreStep`).
* `Background`: the loop runs when it is ready, an hour passes, handlers and
  restores end (`Loop`, `Tick`, `Wake`, `OpenGate`). Nothing is assumed of the
  broadcast.

### Assumptions on the environment

A mutation is under way for less than two minutes (the clients' timeouts are at
most 60 seconds, `config.py:74-85`, `xui.py:58`, `mikrotik.py:90`): `Age` waits
for it. This is what the two-minute rule of `fulfill` rests on, and the bot
cannot check it. RouterOS shows user passwords: `create_user_with_profile`
refuses to complete a half-created user whose password it may not read. A
database call either commits or has no effect. A wallet that does not cover the
debit is a `Fail` of `OrderDelivery` and an answer of `Checkout`'s `Debit`.
Each rename and each unlink of
a restore happens or does not; the sync after a rename may fail when it has
happened. A copy that trimming cannot unlink stays, which is more than
`NothingLost` asks for. `updated_at` advances with every write of an account
row.

### Findings

1. *Refunded and served* (`bot.py:8133-8139`). The refund and the deletion of
   the row are two transactions. Stopped between them, the order is still
   deliverable, and `wallet_order_debited` finds its debit and not the refund.
2. *Prepared after a write* (`bot.py:6853`). An interrupted OpenVPN purchase is
   taken back to `prepared` without a read of the router, against the comment
   at `bot.py:6963` and the docstring at `storage.py:1847`. Delivery repairs
   it; a cancellation in that state refunds an account that exists.
3. *An authorized order dropped* (`bot.py:8289`, `bot.py:4936`). A release acts
   on an answer of the gateway given before an await, under no lock. The
   customer's payment and its authorization by another update may come first.
   It needs two updates at once: the owner's and the administrator's.

### Observed behaviour without a finding

The models also show behaviour that no comment or test of the repository
speaks against. The properties are worded so that it is visible.

* `ReservationsCovered`: the wallet need not cover the open orders after one of
  four races: a decrease by the administrator inside an open checkout; a payment
  link stored after its deadline; a delivery of another order, started by the
  administrator's `/verify`, that debits between the two reads of
  `wallet_available` (two connections, `storage.py:1700`), so that the money is
  seen in the balance and no longer in the reservations; and the release of an
  order that was authorized meanwhile (finding 3), whose reservation goes while
  its delivery still takes the money. The order paid at the gateway then waits
  for its debit; `NoLocalOrderLost` and `AuthorizedStays` say what can become of
  it.
* `OthersAreServed`: every storage call is a plain `run_blocking`. Behind
  threads that never return it waits without a deadline, and so does its user.
* `ShopStaysOpen`: after a failed second read (`app_settings.py:645, 652`)
  memory shows the old debt of a reseller until the next mutation, although the
  change is committed and its button ends in an error.
* `OneDiscount`: a link stored after its deadline can leave two first purchases
  with a discount open; one of them is booked, the other stays in the table with
  its account made and its bookkeeping refused (`storage.py:1021`).
* `ServedIsPaid`: a plan edited between the two reads of the registry gives an
  order the package of one version and the price of the other.
* `DebtIsRight`: above the limit an order is refused its charge after its
  account was made; the row stays open until there is room
  (`storage.py:2935`).
* Zeroing a debt is made idempotent by the menu message it is confirmed in
  (`bot.py:3978`). Menus edit one message, so zeroing again from the same menu
  after new orders is taken for the first press repeated, and changes nothing.
* A notice can be claimed and then a renewal come before it is sent. Account
  views that fill in missing details (`bot.py:5716, 5759, 6762, 6767`) write the
  row and so start a new cycle of notices without a renewal, where
  `storage.py:805-810` speaks of a renewal only.
* A change of the backup settings whose audit row fails after the commit wakes
  nobody (`unsaid`); the loop sees it at its next round. After the sleep of a
  disabled hour, such an unannounced enabling backs up at once.
* An old confirmation button forgets the draft that is remembered now.
* A restore does not count a broadcast as work to wait for; the audit row at its
  end may go to the replaced file. Nor does it count the scan a failed gather
  leaves behind (`bot.py:8626`): that scan can claim or mark in the new database
  what it listed in the old one.
* A restore that fails between the rename and the reload (the sync of the
  directory, or the trimming of old copies) leaves the upload serving with the
  whole memory of the old database, until the next start or restore. When a
  reload fails and the way back fails too, memory and database may disagree in
  any way until then. Safety copies that were never used count toward the five
  that are kept.
* `EveryOrderSettles` excludes renewals interrupted between claim and
  acknowledgement (`RenewalInDoubt`): `fulfill` refuses them for good, the
  customer cannot cancel them, and no administrator action resolves them.

## 4. Proofs

Every theorem holds for every value of the constants, from the assumptions
declared with them (named `...Assumption`; TLC evaluates them in the runs).

| Theorem | Module | States |
|---|---|---|
| `TypeCorrect` | `OrderProofs` | `Spec => []TypeOK` |
| `Inductive` |  | `Spec => []Inv` |
| `AtMostOnce` |  | `Spec => []AppliedAtMostOnce` |
| `PaidFirst` |  | `Spec => []PaidBeforeService` |
| `RefundUnclaimed` |  | `Spec => RefundOnlyBeforeWrite` |
| `JournalOrder` |  | `Spec => JournalForward` |
| `OutcomeInductive` |  | `Spec => []OutcomeInv` |
| `BooksInOrder` |  | `Spec => []BooksFollowService` |
| `NoOrderLost` |  | `Spec => []NoLocalOrderLost` |
| `ImplementsPromise` |  | `Spec => KeepsThePromise` |
| `CardInductive` |  | `CardSpec => []CardInv` |
| `RowFollowsRequest` |  | `CardSpec => []RequestMatchesRow` |
| `NoReceiptNoService` |  | `CardSpec => []NothingWithoutApproval` |
| `CardOrdersSafe` |  | `CardSpec => [](AppliedAtMostOnce /\ PaidBeforeService)` |
| `DecisionsStand` |  | `CardSpec => DecisionsAreFinal` |
| `ApprovedIsServed` |  | `CardSpec => []ApprovedMeansServed` |
| `CardBooksInOrder` |  | `CardSpec => []BooksFollowService` |
| `CardsKeepThePromise` |  | `CardSpec => KeepsThePromise` |
| `CheckoutInvariant` | `CheckoutProofs` | `Spec => []CheckoutInv` |
| `CheckoutTypes` |  | `Spec => []CheckoutTypeOK` |
| `WalletBalance` |  | `Spec => []WalletAddsUp` |
| `Reservations` |  | `Spec => []ReservationsCovered` |
| `Payment` |  | `Spec => []ServedIsPaid` |
| `Discounts` |  | `Spec => []OneDiscount` |
| `AuthorizedRows` |  | `Spec => AuthorizedStays` |
| `SettingsInvariant` | `ShopSettingsProofs` | `Spec => []SettingsInv` |
| `SettingsTypes` |  | `Spec => []SettingsTypeOK` |
| `OpenShop` |  | `Spec => []ShopStaysOpen` |
| `Debts` |  | `Spec => []DebtIsRight` |
| `StartKeepsChoices` |  | `Spec => StartupKeepsChoices` |
| `DispatchInvariant` | `DispatchProofs` | `Spec => []DInv` |
| `DispatchTypes` |  | `Spec => []DispatchTypeOK` |
| `InOrder` |  | `Spec => []OneAtATimeInOrder` |
| `NoLeak` |  | `Spec => []NothingLeaks` |
| `ExpiryInvariant` | `ExpiryMonitorProofs` | `Spec => []EInv` |
| `ExpiryTypes` |  | `Spec => []ExpiryTypeOK` |
| `Notices` |  | `Spec => []NoticesAddUp` |
| `ClaimsAreCurrent` |  | `Spec => NoticeFromItsVersion` |
| `RestoreInductive` | `DatabaseRestoreProofs` | `Spec => []RInv` |
| `NobodySpans` |  | `Spec => []UnderOneDatabase` |
| `NoCommitLost` |  | `Spec => []NothingLost` |
| `RestoreInvariants` |  | `Spec => [](RInv /\ SInv)` |
| `RestoreTypes` |  | `Spec => []RestoreTypeOK` |
| `Settled` |  | `Spec => []SettledTogether` |
| `BackgroundInductive` | `BackgroundProofs` | `Spec => []BInv` |
| `NoLostWakeup` |  | `Spec => []SleepsOnCurrentSettings` |
| `OneCopy` |  | `Spec => []DraftSentOnce` |

Every invariant, action property and refinement that a passing run checks is
stated by one of them.

### The delivery pipeline

`AppliedAtMostOnce` says nothing about why a second write does not happen, so it
is not inductive. `Inv` has three parts besides the types:

* `LockInv`: a handler at an await under the lock holds the lock of its order;
  hence two handlers there work on different orders (`SoleHolder`).
* `OrderInv`: what journal, panel and payment of an order say of each other.
  The journal is past `executing` only if the package is granted; a purchase is
  granted exactly when its account is whole; a request without a caller exists
  only while the journal is `executing`, not stale, and nothing is granted; and
  whatever is journaled is paid for.
* `At`: what a handler may rely on at each await, such as that from the claim
  to the acknowledgement nothing is granted and no other request is under way,
  and that a recovery sees a stale journal.

`LockedStep` says once and for all that a handler under the lock that keeps
`OrderInv` of its own order and establishes `At` where it arrives keeps `Inv`;
each action is then a lemma about one order. Crashes, late requests and the
clock are proved apart, because they act without the lock. The order of the
journal and the refund follow from `Inv` by one step of the same kind.

### The outcome of an order

That the books are complete when an order is, and that an order that is
gone was served or has its money back, depends on how far a handler has come in
`finalize_successful_order`. `OutcomeInv` adds to `Inv`:

* `Outcome`: the rows written are among those the order needs, none before the
  grant is recorded, all of them once it is completed; and where an order not
  paid at the gateway (`Settled`) that has left the table went.
* `Knows`: at each await of the bookkeeping, all rows that come before it
  (`RowsBefore`) are there; before the deletion of the row the order is
  completed and announced; before the row of a cancelled order is dropped, its
  write is unclaimed and its money back; and an order not paid at the gateway
  that somebody works on under the lock is still in the table.
* `OkInv`: `bookkeeping_ok` is only true after the last transaction.

### The promise

`ImplementsPromise` is the refinement of `OrderPromise`, step by step. Two facts
are missing in `OutcomeInv` (`PreparedInv`: a prepared order on 3x-ui has no
grant; `RefundsInv`: whoever refunds has seen the debit). Then a debit is
`Take` (the journal is absent, since what is journaled is paid for, so nothing
is granted), a write or a late request is `Grant`, a refund `Return`, the end
of an order not paid at the gateway `Close`, each unless it repeats what was done, and everything
else changes nothing the promise speaks of.

### Card transfers

`CardInv` adds to `Inv` that the request of an order and its row agree
(`RequestsInv`) and that whoever works on a card order carries the approval of a
claimed request (`ApprovalsInv`); so for an order whose request is not claimed
nothing has been taken, granted or authorized (`Undone`). The steps of
`OrderDelivery` are not looked at again: a frame lemma says what each may do to
a card order. `CardOutcomeInv` joins it with `OutcomeInv` and `ServedInv`: an
approved request stands for a completed and announced order; a row that goes
with its request belongs to an order that nobody works on (`MayClose`).

`CardsKeepThePromise` is the same refinement for the shop with card transfers,
from `CardPromiseInv`, all of the above together. The steps of `OrderDelivery`
map as before; a rejection or a cancellation is a `Close` of an order from which
nothing was taken, `Finish` a `Close` of one that is served, and the other steps
of card transfers are none of the promise's business.

### Sums and sequences

`CollectionLemmas` gives `SumFunctionOnSet` its properties over every finite
set: the empty sum, one element more or less, sums that agree, the sum of a
part. The sum is defined by recursion over sets, and the induction theorems of
the library take an operator the provers cannot instantiate; the induction is
had from the pigeonhole principle instead. A set of naturals without a least
element would be mapped one-to-one into a smaller one, so there is a least
counterexample (`LeastNumber`, `SmallestSet`), and from it the table of partial
sums (`IterExists`, `IterUnique`). The lemmas on sequences say what a queue
without repetitions becomes when one element joins its end or leaves anywhere,
and that the order of the others stays.

### Checkout

The four money properties lean on each other, so `CheckoutInv` holds them all
(it is the conjunction of `CheckoutTypeOK`, the parts below, and the
properties):

* `OrdersOK`: the parts of an order make up its price, and an order whose row
  is not stored yet, because nothing or only a late link knows of it, is
  `Untouched`: no payment, no ledger entry, no stage, no referral.
* `HandlerOK`: what the customer's handler has read at each await, and that the
  order it works on is open where it acts on a row.
* `AnsweredOK`: an answer "unpaid" that either actor still holds is about a
  gateway order whose row has been stored, never about one in checkout.
* `StagesOK`, `FlagsOK`: an order that is delivered has its row, or waits for
  its lock, or lost its row to a release; how far a delivery has come says what
  was debited, served and booked; flags, ledger and referral follow one another.
* `InTurn`, `Covered`: as long as no link outlived its deadline, one order goes
  through checkout at a time and first purchases exclude each other; as long as
  none of the four races happened, what was read of the balance is still there,
  and the order to be stored fits beside those that are open.

`WalletAddsUp` and `ReservationsCovered` change by one order at a time:
`SumAdd` and `SumRemove` say by how much. Deleting a row (`RowRemoved`) is an
order less among the open ones, wherever it stood. A debit by the other actor is
where `Covered` is won: before the first read it is in what will be read, after
the second it takes from balance and reservations alike, and between the two it
is the race `"debit"`.

### Settings and debts

`SettingsInv` joins the three properties with `BootOK` (the migrations before
the next one have their markers, and nothing is mutated before the last),
`CarriedOK` (whoever holds the lock carries the state of the database),
`MemoryOK` (unless the administrator is at another mutation, memory `Agrees`
with the database in everything but the debts of the rows in `behind` and of the
row the holder of the lock has changed, `Held`; so the switches the rules are
read from are the database's own even after a failed second read) and `BooksOK` (an
order that left its question belongs to a known reseller, is booked exactly
from its charge on, under its own operation, with his id and its price).
`DebtIsRight` follows since an entry is added only under a new operation and
adds its difference to both sides. That a start overwrites nothing is one step
of each migration from `BootOK`: the third finds no reseller without its
marker.

### Dispatch

`DInv`: everybody of a user inside has the lock of the dictionary and is
counted (`LocksInv`); the line of a lock, the waiters of a slot and the order
of arrival hold exactly those they should, each once (`QueuesInv`); who stands
before in a line has come before (`OrderInv`); who is past the line is its head
(`HeadInv`); and the jobs that have not ended are the slots taken (`LaneInv`).
Eviction is where it is won: whoever leaves last finds nobody inside, so a lock
made anew has an empty line.

### Expiry monitor

`EInv`: what the panel justifies now has been written down for the version
there is (`DueInv`); no claim is ahead of its row, no message of a version later
than the claim (`ClaimInv`); the rows of a scan are of its service and not ahead
of the database, its answer was justified if its row is still current, and from
claim to mark the claim is still its own and not yet, or exactly once, sent
(`ScanInv`). Scans of one service may overlap over the same accounts, so that
they do not disturb each other is a part of its own, `AloneInv`: no two scans
have claimed the same notice and not sent it. A claim is only made for the
current version and another one than before, hence a later one than any other
scan holds, and for that no message can exist: `NoticesAddUp`.

### Restore

`UnderOneDatabase` and `NothingLost` rest on quiescence. `RInv` says that from
the second quiet poll to the end of the handler nothing that is awaited is alive
or has a thread (`StillInv`), that whatever is alive began in this epoch
(`EpochInv`), that threads belong to those who wait for them or gave up on them
(`ThreadInv`), that once the safety copy exists every row an awaited activity
committed is in a copy (`RowsInv`), and that only a copy with `Keep` later ones
was unlinked (`KeepInv`). `Awaited` leaves out broadcasts and orphaned scans,
for which the first two are false. The second poll is where it is won: after the first a task may
have been created, after the second it must have begun.

`RestoreTypeOK` and `SettledTogether` take a second invariant beside it, `SInv`.
`CountInv` counts: a restore makes one copy and installs at most two files, so
epochs and copies are bounded by restores. `SnapshotsInv` and `ProfilesInv` say,
with one failure at most, whose settings memory holds and which profiles it
believes saved, at each step: the file's until it is replaced, the safety copy's
until the reload, then one after the other the file's again. At rest it is the
file's, or after a failure between rename and reload wholly the newest copy's
(`Remembered`).

### Background

`SchedulerInv`: what the loop has read is current, or somebody is about to wake
it, and its timer was set from what it read. `CopiesInv` and `ProgressInv`: a
draft that is remembered, or whose token is not given out, has no copy anywhere,
and what the failed attempts at a reader say of his copies.

### Only model-checked

* All liveness (`EveryOrderSettles`, `ClaimedGetsApproved`, `OthersAreServed`,
  `ExhaustedGetsNoticed`, `GateOpens`, `BackupsGoOn`): liveness under fairness
  and `ENABLED` are outside the proof system.
* The three runs that expect a violation: a counterexample needs no proof.

## 5. Not modelled, and why

* *Trial accounts* (`create_test`, `bot.py:8357`): `fulfill` without an order
  lock and a mark that is set before the account is shown. A stop between mark
  and message leaves a trial used and never shown (`bot.py:8400`). It is the
  next component to model, on top of `OrderDelivery`.
* *Plan registry*: `Checkout` sees a price that changes. Adding, hiding and
  deleting plans, the trial plan, and a refresh of `PLANS` that fails after its
  commit (`bot.py:4668`) are left out.
* *Connection settings, links, texts*: values without a rule between them.
* *The order in which two profile saves of a user commit* (`bot.py:1035`): the
  names in a profile are display data and are corrected after five minutes.
* *A set debt against the shown one* (`bot.py:6291`): the entry records the
  difference it makes; which debt was meant only the administrator knows.
* *`verify_latest` looks at the newest row only* (`bot.py:7908`). `Checkout`'s
  `Check` lets the customer verify any open order, as `/verify` does, and has
  no property about the difference: an older paid order is delivered when the
  newer one is gone, or by `/verify`.
* *Shutdown of a lane*, which ends with the process; *`TTLCache`* and the
  *callback rate limiter*, which bound memory and presses and decide nothing.
* *Panels' listings and diagnosis, links and sessions of 3x-ui*: reads for
  display.
* *Telegram menus, texts, keyboards*; *the legacy JSON migration and the
  schema* (run once before any handler); *shell scripts and the environment*.

Next, in this order: trials on top of `OrderDelivery`; the registry of plans
beside `ShopSettings`; `KeyedAsyncLocks` as an implementation of the atomic
order lock, stated as a refinement.
