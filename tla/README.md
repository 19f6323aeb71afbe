# GoPay: a verification project

GoPay is a payment gateway: business systems ask it to collect a payment over
WeChat Pay, Alipay or Stripe; the platforms report payments and refunds to its
webhooks; it records them in PostgreSQL and calls the business systems back.
This directory holds TLA+ specifications of its code, TLC configurations that
check them on small instances, and proofs that TLAPS checks for every value of
the constants. Paths below are relative to the repository.

## 1. Inventory

| Component | State it keeps | Operations | Interacts with |
|---|---|---|---|
| Order service (`internal/service/order_service.go`) | rows of `orders`: `status`, `notify_status`, `retry_count` | `CreateOrder`, `QueryOrder*`, `UpdateOrderStatus` (row lock), `UpdateNotifyStatus`, `IncrementRetryCount`, `ListPendingNotifyOrders` | channel manager; used by every other service |
| Notification service (`notify_service.go`) | 100 worker tokens, one goroutine per notification | `NotifyAsync`, `NotifyRefundAsync`, `StartRetryScheduler`, `ProcessPendingNotifies`, `RetryNotify` | order rows, business systems |
| Webhook handlers (`internal/handler/webhook*.go`) | one goroutine per request, the order row it has read | `WechatWebhook`, `AlipayWebhook`, `StripeWebhook` | order service, notification service, providers |
| Channel providers (`pkg/channel/*`) | credentials | `CreateOrder`, `QueryOrder`, `HandleWebhook`, `Refund`, `QueryRefund` | the platforms |
| Checkout (`internal/handler/checkout.go`, `CreateOrder`) | - | check for a duplicate, create the trade, insert the row | providers, order rows |
| Refund service (`refund_service.go`) | rows of `transactions` | `Refund`, `QueryRefund` | providers, order rows |
| Channel manager (`channel_manager.go`) | provider cache under a `RWMutex` | `GetProvider`, `ListProvidersByChannelPrefix`, `ReloadProvider`, `Close` | `channel_configs`, providers |
| Config service, templates, audit (`config_service.go`, `config_template_service.go`, `pkg/audit`) | `apps`, `channel_configs`, `config_audit_logs` | create, update, soft delete, apply a template, list | database transactions, config encryption |
| Admin console (`internal/admin`) | - | `RetryOrder`, `BatchRetry`, lists, statistics, configuration pages | order rows, config service |
| Reconciliation (`internal/reconciliation`) | reports and their details, bill files | `Reconcile*`, `ReconcileAll`, `GenerateReport`, scheduler `Start`/`Stop`/`RunNow` | platforms' bills, order rows |
| API protection (`pkg/middleware`, `pkg/security`, `pkg/limiter`) | nonces with their times, token buckets | `SignatureAuth`, `CheckNonce`, `Allow` | in front of checkout |
| Config encryption (`config_crypto.go`, `pkg/security/encryption.go`) | `MASTER_KEY` | encrypt, decrypt, mask a configuration | config service, channel manager |
| Worker pool library (`pkg/pool`) | task queue, worker goroutines | `Submit`, `Shutdown` | not used by the server |
| Alerts, metrics, logs, responses, certificate checker, cache, migrations, commands | output, files | - | - |

What is hard here:

* **Interleaving.** Platforms deliver an event more than once and concurrently.
  Webhook requests, notification workers, the scheduler, operators' retries and
  synchronous refunds all write the same order row. Two checkouts of one number
  check before either inserts. Two reconciliations of one day write one report.
* **Waiting.** A checkout holds the lock of the provider cache while it waits for
  a connection, a callback holds a connection while it waits for the lock, and
  an administrator's update holds one connection and asks for a second.
* **Failure.** Any statement may fail, an answer may be lost, a callback may be
  refused, late or lost, and the process may die between any two steps. What
  was only in memory is then gone.
* **Ordering.** A refund event can overtake the payment event. A notification
  must follow the commit of the change it announces.
* **Limits.** A full worker pool drops a notification; the scheduler takes at
  most 100 rows and none with `retry_count >= 5`.
* **Stale state.** Rows read before an update are used after it; cached
  providers outlive their configuration; the clock that judged a timestamp is
  not the one that judges the nonce.

What makes each component correct:

* *Order service*: a status only moves forward, a payment is applied once
  whatever is delivered, and nothing answered with success is lost.
* *Notification service*: a callback tells only what is committed and true; an
  order marked notified was confirmed; a paid order is either announced, being
  announced, or visible to the scheduler or to operators; a deferred
  notification is made up for.
* *Webhooks*: a payment starts one notification, and only after the commit.
* *Checkout*: at most one order per app and `out_trade_no`; every trade a buyer
  can pay has an order, and the callback finds that order.
* *Refunds*: an order is refunded only if money went back; a row of `transactions`
  is a refund at the platform; the rest of a partial refund stays refundable.
* *Channel manager and config service*: a provider was in force once and is not
  replaced under its users; the audit log replays to the rows; no listed secret
  can be read in a table; no call waits for ever.
* *Reconciliation*: a success is earned; a report, its file and its details are
  of one run; a run that met a difference or a failure returns an error; no day
  is left out or compared twice.
* *API protection*: one signed message is let through once.

## 2. Modules

| Module | Models | State and actions |
|---|---|---|
| `OrderService` | `order_service.go` | `status`, `notifyStatus`, `retryCount` are the columns. Each operator is one SQL statement or one locked transaction, hence one step. |
| `NotifyService` | `notify_service.go`, the retry buttons of the admin console | `worker[w]` is a goroutine: `GetApp`, `Post`, `Count`, `MarkNotified`, `MarkFailed` are the steps of `notifyWithRetryPayload`. `sweep` holds the rows of a run of `ProcessPendingNotifies` that are not handed over yet. `heard` and `acked` are the business systems' side. |
| `WebhookHandler` | `webhook.go`, `webhook_stripe.go`, what the providers make of an event | `handler[h]` is a request with the row it has read (`seen`). `Receive` ends with the verified event, `ApplyWebhook` is `UpdateOrderStatus` with its error paths, `NotifyWebhook` starts the notification and answers. `issued` and `settled` are the platform's side (external). |
| `PaymentFlow` | the composition | `Next` interleaves the three, a crash of the process and the status written by a synchronous refund. All properties are here. |
| `PaymentPromise` | nothing: an abstract specification | What GoPay promises about one order, without requests, workers, schedulers or retries. |
| `RefundService` | `refund_service.go`, the `Refund` methods of `pkg/channel/*/provider.go` | `call[c]` is a request with its refund number: `Refund` (checks), `AskPlatform` (the provider's call), `SaveRefundTransaction`, `UpdateRefundStatus`. `booked` is the row of `transactions`, `refund` and `callback` are the platform's side. It stands on `OrderService` alone; a callback is one step here because `PaymentFlow` has its interleavings. |
| `RefundPromise` | nothing: an abstract specification | What GoPay promises of a refund: asked for while the order is paid, in the ledger once and with a status the platform stands for, the order refunded once, one answer. `RefundService` implements it. |
| `ApiGuard` | `signature.go`, the nonces of `access_control.go` | `gate[r]` is how far a delivery of a signed message has come: `CheckTimestamp`, then `CheckReplay` with a second reading of `clock`. `seen` is the memory of nonces, which `CleanupExpired` and a crash empty. |
| `Checkout` (extends `ApiGuard`) | `checkout.go`, `CreateOrder`, the nine channels' `CreateOrder`, the lookups of the callbacks | `call[r]`: `CheckExists`, `AskPlatform`, `SaveOrder`. `rows` is the table in the order of `created_at`, `trade` the platforms' side; `WechatFinds`, `AlipayFinds`, `StripeFinds` are how a callback gets from its body to a row; `Callback` marks it (`Marks`) or fails to and is answered with success all the same (`Swallows`, the trades in `lost`). |
| `CheckoutPromise` | nothing: an abstract specification | What is promised of creating an order: one order for a number, created in one step with its answer; a charge only with what a request was answered with or by its code; an event answered with success has marked an order it may be booked on, or is lost. `Checkout` implements it. |
| `ConfigCrypto` | `config_crypto.go` over `encryption.go` | no state: which strings `EncryptConfig`, `DecryptConfig` and `MaskConfig` change, and when they fail |
| `ConfigService` (extends `ConfigCrypto`) | `config_handler.go`, `config_service.go`, `QuickSetupApp` | a request is a transaction: `Begin`, `InsertRow` or `ReadOld` and `UpdateRow`, or `SetupApp` and `SetupChannel`, then `InsertAudit`, `Commit`, or `Rollback`. `writes` are its uncommitted rows and so its row locks. |
| `ChannelManager` (extends `ConfigService`) | `channel_manager.go`, the composition | `get[c]` and `list[c]` are the calls of `GetProvider` and `ListProvidersByChannelPrefix`, `providers` the map; the lock and the pool of connections are what these calls and the requests hold. |
| `ConfigPromise` | nothing: an abstract specification | What is promised of configurations, in the clear: a change and its record are one step, a setup is all or nothing, a payment is made with what was in force. `ChannelManager` implements it. |
| `BillComparison` | `parseBill` and `compare` of both channels | no state: `ParseWechat`, `ParseAlipay`, `Compare`, and their use in `WechatReconcile` and `AlipayReconcile` |
| `Reconciliation` (extends `BillComparison`) | `scheduler.go`, `reconciliation.go`, `report.go`, `cmd/reconciliation` | `at[r]` is how far a run of the scheduler or the command is: `CompareChannel`, `Generate` (the file), `SaveReport`, `StartDelete`, `FinishDelete`, `CommitDetails`, `Judge` (the alert). `Skip` is `GenerateReport` failing at any of these. `sees` and `doomed` are what a `DELETE` has found and locked. |
| `ReconciliationPromise` | nothing: an abstract specification | What is promised of reconciliation, without timers, lines of a bill, transactions or stages: a report names the numbers, the platform's and the table's, that the other side lacks or has with another amount; nothing is stored before both channels are compared; an undisturbed run leaves a file, a row and details of its own; a run returns without an error just when it has kept both channels and found no difference; an alert is of a difference it kept, and may be lost; a scheduler never goes back. `Reconciliation` implements it. |
| `MC*` | - | values of the constants for TLC |
| `PaymentFlowProofs`, `PaymentFlowRefinement`, `NotificationProofs` | - | theorems about `PaymentFlow`: the inductive invariant; the properties between steps and the refinement; the retry budget of a notification |
| `RefundServiceProofs`, `CheckoutProofs`, `ReconciliationProofs` | - | theorems about these three, the refinements of `RefundPromise`, `CheckoutPromise` and `ReconciliationPromise` among them |
| `ChannelManagerProofs`, `ChannelManagerRefinement` | - | theorems about `ChannelManager`: cache and secrets; transactions and locks, the audit log, the refinement, standstill |

`PaymentFlow`, `RefundService`, `Checkout`, `ChannelManager` and
`Reconciliation` are checked one by one. They meet in the order row: `Checkout`
says how it comes to be and is found, `PaymentFlow` what becomes of it,
`RefundService` how it ends; `ChannelManager` provides what the three call.

### Abstractions

* Order numbers are naturals, older orders smaller. Amounts, times, texts and
  URLs do not occur: no property here depends on them. `paid_at` is written by
  the statement that writes `status` and only copied into payloads.
* A payload is its `status` field: the only field in which callbacks of one
  order differ.
* A platform event is `PAID`, `REFUNDED` or `REFUND_FAILED`. Events that ask for
  neither paid nor refunded (closed, waiting) are answered with success and change
  no row, and are left out.
  Signature and decryption either succeed or the request leaves no trace.
* A callback attempt has three outcomes: 200 read by GoPay; received but not
  confirmed to GoPay (another status, a timeout, a lost answer); not received.
* A webhook request finds its order. In the code the lookup uses the platform's
  app id as GoPay's `app_id` when the body or the provider has one; where the
  two differ the request is refused, which the model covers as a request that
  does not happen in the safety runs, but which the liveness run excludes. The
  lookup itself is in `Checkout`.
* In `Checkout` WeChat and Alipay know a trade by the merchant's account and the
  business system's number, Stripe by the order number, which is random and
  taken to be distinct. A provider's call is the set of its outcomes: the trade
  may be open, or for `alipay_face` paid, though the answer is an error. What a
  callback does to its row is one step, which may fail. The signature is a
  verdict. `Served`
  are the channels whose callback URL a server answers: `buildWebhookURL` names
  the channel (`/webhook/wechat_jsapi`), while `main.go` routes only `wechat`,
  `alipay` and `stripe`, so the others depend on a proxy in front of it.
* In `ConfigCrypto` a configuration is a function from member names to texts,
  and a ciphertext is its text with the key that sealed it. `Sensitive` are the
  names that `isSensitiveConfigKey` lists, which are not all the secrets. The order
  of the audit log is that of the commits. It is also that of the rows' `id` for one
  resource, since the `id` is drawn while the lock of the row is held, and
  `ListAuditLogs` returns it; it sorts by `created_at`, however, the start of the
  transaction, and two updates at once may have that the other way round. In `ConfigService`
  an app and a channel configuration are rows of one kind; a transaction reads
  what is committed and locks what it writes, PostgreSQL's READ COMMITTED; a row
  lock is held until the commit or the rollback. A connection is held by a
  transaction and by a listing whose rows are not read to their end; a single
  statement takes one and gives it back within its step.
* In `BillComparison` the bill and the table have a number space each,
  `OutTradeNos` and `OrderNos`. `CreateOrder` makes an `order_no` after it was
  given the `out_trade_no`, so an order has two different numbers; a number is in
  both sets only if an app sends an old `order_no` as its `out_trade_no`.
* In `Reconciliation` a download is any body, since the HTTP status is not looked
  at: the bill, or an error page, which `parseBill` takes for a bill without records
  (`Page`) or refuses, as a failed download is. A `SendAlert` that fails is only
  logged (`Judge`). Time runs in half days. What `getOrders` finds is any of
  the ledgers of a day, since orders may change between two runs. A `DELETE`
  sees the rows that are committed when it starts and waits for a transaction
  that has deleted one of them. Timers are not early and clocks do not step
  back; `Stop` is the end of its process, as `main` only calls it to return.
* In `RefundService` an order has an amount and a request asks for a part of it,
  since what is left matters there. A platform gives back at most what was paid
  (`Room`), answers as its provider's conversion allows (`WechatRefund`,
  `AlipayRefund`, `StripeRefund`) and may settle a refund before its answer is
  processed. Refund numbers are distinct. `QueryRefund` only reads.
* The database runs each statement atomically; `dbfault` makes one fail, and a
  failing commit may or may not have taken effect.
* The process restarts at once after `crash`: the tables stay, everything in
  memory is gone.

## 3. Runs

| Run | Expected | Instance | What it asks |
|---|---|---|---|
| `webhooks` | pass | one Stripe order, 2 requests, 1 worker; one of: failing statement, crash, lost answer, app disabled | `CallbackAfterCommit`, `OneWebhookNotification`, `NotifiedMeansAcked`, `PromiseKept`, the type invariant |
| `operators` | pass | one Alipay order, 1 request, 2 workers, 1 manual retry, two operator interventions | `TruthfulCallbacks`, `SettledMeansRecorded`, `NothingForgotten`, `RetriesBounded` |
| `live` | pass | one WeChat order, 1 request, 1 worker, one crash, `FairSpec` | `PaymentRecorded`, `PendingCompensated` |
| `payload_status` | violation | one order, nothing goes wrong | the first callback carries the status before the payment |
| `refund_deferred` | violation | one order, pool of one, `FairSpec` | a refund's callback that finds the pool full is lost |
| `failed_refund` | violation | a WeChat order with a refund that fails | an abnormal refund is announced as a refund |
| `refunds` | pass | one order at each platform, two refund requests for the whole or the half of an amount of 2; one of: failing statement, crash, lost answer; WeChat and Stripe report refunds, Alipay does not; `FairSpec` | `LedgerTrue`, `AnsweredMeansDone`, `RefundedMeansRefund`, `RefundRecorded`, `PromiseKept`, the type invariant |
| `refund_remainder` | violation | one Stripe order, two requests for a half | the rest of a partial refund is refused |
| `checkout` | pass | four deliveries of three messages from two apps with one number: a WeChat payment delivered twice, one of an app without a WeChat id, one charged by code; a window of 1, a clock up to 2; crashes and failing calls anywhere; `FairSpec` | `OneRowPerNumber`, `ChargedHasRow`, `RightRowMarked`, `NonceOnce`, `PaymentFound`, `PromiseKept`, the type invariant |
| `shared_account` | violation | two apps with one WeChat account, each with an order of number 1, one paid by WeChat, one by Stripe | a payment marks the order of the other app |
| `configuration` | pass | one app with two channels, two requests out of create, update, delete and two setups in opposite orders, one `GetProvider` and one listing caller, two connections, a key that may be lost in a crash; `FairSpec` | `AuditReplays`, `ListedSealed`, `CachedWasActive`, `NoStandstill`, `OnlyWaitersStop`, `NeverReplaced`, `CallsEnd`, `PromiseKept`, the type invariant |
| `reconciliation` | pass | a scheduler over three days and a command for the second, which has a report already; both channels; bills of an app's own numbers and of old order numbers, with a lost cent, a duplicate and an amount that differs, an empty bill, an error page, a sum line that makes the third day's WeChat bill unreadable; a table that changes between two runs; failing alerts, failures and crashes anywhere (215 376 states); `FairSpec` | `SuccessEarned`, `LoneRunStores`, `NothingSilent`, `EachDayOnce`, `RunsEnd`, `PromiseKept`, the type invariant |

**Bounds.** Orders do not share a row, so one order is enough for every property
of one order; they do share the pool, and a pool of one token is already full
while it works on the same order. Two webhook requests are the smallest number
that race; two workers the smallest that overlap. `MaxNotifyRetries` is 2
instead of 5: a first attempt, a retry and giving up are then all distinct.
`SweepLimit` is 1 instead of 100. `MaxDisturbances` bounds how many failures
happen in one behaviour; the proofs have no such bound. `CHECK_DEADLOCK` is off
because an order whose events are all settled and whose notification has ended
needs nothing more: the system is then quiet, as it should be. `operators`
treats the workers as interchangeable: nothing but a name distinguishes them.
Two refund requests are the smallest number that race for one order or ask for
its two halves; three orders, one per platform, let one instance cover the three
conversions. There is no deadlock check in these runs either: requests are
bounded.

In `checkout` two deliveries are the smallest number that share a nonce; with
the other two, three requests of one number race for two rows, and the two
lookups that can go wrong (by number alone, by a foreign app id) both occur. A
window of 1 and a clock up to 2 let a nonce expire. The two apps have an account
each; `shared_account` has the same apps with one account, and the proofs any
accounts. The run has no Stripe order, `shared_account` has one. The run may stop:
requests are bounded, so `CHECK_DEADLOCK` is off. In `configuration` two connections are
the smallest pool that two updates starve, two requests the smallest number that
deadlock over two rows, and one caller of each kind is enough to meet on the
lock, since every further caller only waits with it; deadlock is checked, as
calls never run out. In `reconciliation` three days are one that has a report
already, one that cannot be read and one to find differences in; on the second day
alone success and failure of one channel are both possible, because the table or
the download differ from run to run; one scheduler and one command
are the smallest number that reconcile one day at once. Deadlock is checked
there too: a process can always be restarted.

**Fairness** (`FairSpec`). Weak fairness of a worker's and a request's steps:
a goroutine that can run is eventually run, and every step of the code returns
(the HTTP client has a 3 s timeout). Weak fairness of the scheduler's query and
of its loop: the ticker fires every minute. Strong fairness of the receipt of
each event: a platform sends an event again as long as it is not answered with
success, though requests of other events come in between. Nothing is assumed of
buyers, operators or the answers of the business system. In `RefundService`:
weak fairness of each request's steps, and of each callback of a platform in
`Reporting`, which repeats it until it is answered; a refund in progress need never
end. `Reporting` is a constant because the code does not make a platform report:
`Refund` sets no `NotifyURL` (`refund_service.go:93-102`), so the request to WeChat
has none (`wechat/provider.go:223-225`) and it is the merchant's setting there that
decides, and an Alipay message is taken for a refund only if it has a
`refund_status` (`alipay/provider.go:154`). Alipay's answer is never a completed
refund, so where Alipay does not report, an order stays paid for ever
although its money went back. In
`Checkout` only the callbacks are fair, for the same reason. In `ChannelManager`
the steps of an open request and of the calls are strongly fair: Go's mutex and
`database/sql` serve their waiters in order, and PostgreSQL queues for a row
lock; a deadlock of row locks is ended by the database. Nobody has to send a
request. In `Reconciliation` the steps of a run are weakly fair, since every
call returns, and the end of a `DELETE` strongly, since a row lock is queued
for; time need not pass and no process has to be started.

## 4. Proofs

TLC checks the instances above; the theorems hold for every set of orders,
workers, requests, apps and disturbances, every retry limit and sweep limit, and
rest only on the assumptions on constants stated in the modules
(`OrdersAssumption`, `SlotsAssumption`, ...), which TLC evaluates in every run.

* The invariant `IInv` of `PaymentFlowProofs` adds to the type invariant what
  each actor's private state implies about the shared row: a worker exists only
  for an order that is no longer pending and a worker that will announce a
  refund only for a refunded one (`WorkerInv`), a request that will notify has
  its change in the row (`HandlerInv`), what was heard is recorded, and what is
  recorded was issued (`OrderInv`). `CallbackAfterCommit` alone is not
  inductive: the step that delivers a callback is only safe because of what the
  worker's start established. One lemma per action keeps the proof readable.
* `TypeCorrect`, `CommitBeforeCallback`, `NotifiedIsAcked` and `CallbacksAreTrue`
  follow from it. The last assumes that no platform reports failed refunds: with
  them the property is false, which `failed_refund` shows.
* `PaymentAnnouncedOnce` needs more: the one-step lemmas of
  `PaymentFlowRefinement` say that the status never moves back (`StatusForward`)
  and that a first notification appears only with the step that leaves
  `pending`, so two cannot coexist.
* `AnsweredIsRecorded` assumes `"dbfault" \notin Disturbances`: with failing
  statements the handlers answer success for what they did not record.
* `PaymentFlowKeepsPromise` proves the refinement that the run `webhooks`
  checks, under the mapping `recorded <- status, confirmed <- acked,
  reported <- notifyStatus`.

`RefundServiceProofs` has its own invariant: `Stage` says, for each stage of a
request, what the platform and the ledger hold of it, which the properties of
the ledger need to be inductive (`LedgerComplete` is proved only: a run would
show no more than the others do, and it holds just while nothing fails);
`RefundedStays` is the common argument that an order never becomes refunded
without an ended refund. `LedgerIsTrue`, `LedgerIsComplete`, `AnswerIsDone` and
`RefundedIsRefund` hold for any orders, amounts, number of requests and
disturbances.

`RefundsKeepPromise` is the refinement of `RefundPromise`, under `recorded <-
status`, with the order of a request and the end its caller sees (`EndOf`). The
platform's answer, the insert and the update are `Accept`, `Book` and `Mark` or
`Answer`; a failing statement, a lost answer and a crash are `Fail` or the error
of the step they cut off. The strengthening is `Admitted`: the order of a request
that was let through is never pending again (`StaysPaid`), so that whoever marks
it, the request or a callback, finds it paid or refunded. It does not say that it
is still paid, which the code does not guarantee: the other half may have been
refunded since.

`NotificationProofs` proves `NothingForgotten` while no process dies and no
statement fails, for fewer manual retries at a time than `MaxNotifyRetries`.
`RetriesInv` is the accounting behind it: `retry_count` plus what the running
manual retries still owe stays within their number unless a worker of the pool
is past its start, so a row that is pending is never hidden by `retry_count`
while nobody works on it. The bound on manual retries is needed: each resets the
count and adds attempts of its own.

`CheckoutProofs`: the properties are almost inductive together; `AnsweredSaved`
adds that a credential is handed out for a saved row only, which is why a
payment finds one. `NumberHasOneRow`, `ChargeHasRow` and `MarkedIsRight` hold
for any apps, accounts, channels and identifiers, shared or not, where the run
has one account for each of two apps. `MarkedIsRight` says that Alipay's and
Stripe's events mark the right row even of a shared account, and how far WeChat's
may go astray (`Mistakable`): to a row of the same number, of an app that the
account's configurations name, or of any app if one names none. That they do go
astray is `shared_account`. `ChargeHasRow` exempts `alipay_face`, which charges
before the row is there though nothing fails. `NonceInv` is the argument of
`NonceLetThroughOnce`: a nonce that was let through is remembered or was
forgotten later than the window, and a timestamp that passed was no older.
`CheckoutKeepsPromise` needs no more than this invariant. The successful insert is
`Create`, the check and the index are `Refuse`, a crash is `Fail` for every request
that it cuts off; the check that goes on and a trade that opens are not seen.
`Candidates` says which orders an event may be booked on, and is the trade's own
unless WeChat's account does not tell the app (`FindsRight`). An event whose
statement fails is `Lose` of the promise, which the handlers answer with success
as they do a recorded one.

`ChannelManagerProofs`: `CachedIsActive` needs what every caller carries: the
row that it read was in force since this process started. `NotReplaced` is
mutual exclusion (`MutexInv`): at most one `GetProvider` holds the lock, and its
provider is still missing. `ListedStaySealed` assumes that no listed member is
readable in the tables to begin with, and follows what every stage of a request
may hold. `EncryptionReadsBack` and `MaskHidesListed` are the two facts about the
encryption that the rest uses; they say of a member that is not listed that it is
stored and shown as it is.

`ChannelManagerRefinement` goes on from there with what an open transaction holds.
`Transactions` is its invariant: `TxInv` says of each stage which rows are written
and with what (after `InsertRow` a row that was absent, after `UpdateRow` the row as
it is now with the request's columns, in a setup rows that are whole and active),
and `LockInv` that no two transactions have written one row. Together they give
what makes READ COMMITTED enough here: the row under an uncommitted write does not
change before the commit.

* `AuditAlwaysReplays`. `AuditReplays` is stated by the last audit row that brings
  a column and not by a fold over the log, so a commit needs one case: the row it
  appends is the last. `TxInv` says that this audit row shows what the commit
  writes; `AuditInv` carries the replay from commit to commit. `base` is the row as
  `QuickSetupApp` left it, which no audit row tells of.
* `ConfigurationKeepsPromise`. The rows are mapped in the clear (`Opened`), the log
  to the new values of the audit rows, the cache to the map of providers, which a
  provider's configuration stands for. A commit is `Write` or `QuickSetup`, a store
  in the map is `Load`, a crash is `Restart`, all else stutters.
  `EncryptionReadsBack` is why the encrypted write is the change in the clear, and
  the invariant of `CachedIsActive` why `Load` is allowed.
* `NeverAtStandstill`. Take a state in which every open call waits and no request is
  in a deadlock of row locks. A request that waits for a row waits for one that is
  past its start and so waits for a row itself (`WaitedFor`): the requests that do
  are a set in which each waits for another, the deadlock that was excluded
  (`WaitInCircle`). So every open transaction is an update that wants its second
  connection, whoever holds the lock of the cache wants one too, and that is
  `Starved`, unless no call is open.

`ReconciliationProofs`: `CompareCorrect` says that a comparison is a success
exactly when the records of the bill, as a set, are the orders;
`SuccessIsEarned` carries it through the run's variables into the report;
`LoneRunIsStored` describes file, row and details at each stage of a run that is
still alone; `NothingIsSilent` rests on what `trouble`, `stored` and `warned`
remember of the channels already done (`RunInv`); `DaysFollow` (`TimerInv`)
relates the timer to the day compared last.

`SuccessEarned` speaks of the body that the run read: it agrees with the orders,
and it is the platform's bill unless there were no orders, when an error page
succeeds too.

`CompareNamesOrders` goes further than `CompareCorrect`: the numbers listed as
unknown, wrong or missing are exactly those in the symmetric difference of the
bill's records and the table's orders, each side with its own numbers. It is
what a report means, and so what `Verdict` is mapped from. `CreatedOrdersDiffer`
is what that comes to for the orders that `CreateOrder` makes: all of them,
twice. `ReconciliationKeepsPromise` is the refinement:

* `CompareChannel` is `Compare` or, when a channel fails, `Return`; `Generate` is
  `Write`, `SaveReport` is `Publish`, `CommitDetails` is `Replace` of whatever the
  `DELETE` has seen and still found (`doomed`), `Judge` is `Announce` or goes on;
  the steps of the `DELETE`, the timer and the clock stutter. `Skip` is `Fail`,
  `Publish` or `Replace` with an answer that was lost, and the end of a run is
  `Return` or the last of these.
* The strengthening is `ReasonInv`. `RunInv`, which `NothingIsSilent` needs, says
  that a run without trouble has earned its success; the promise also wants the
  converse, that an error has a reason: `trouble` is set only if a channel already
  passed was not kept or differs. Without it a run of two agreeing channels could
  return an error, and no state of the promise would match.
* A run that replaces its details while nobody disturbs it must have a file and a
  row of its own by then (the guard of `Replace`), which the invariant of
  `LoneRunIsStored` says; that a scheduler never goes back is the lemma (`FireDay`)
  that `DaysFollow` rests on too.

Model-checked only: `OnlyWaitersStop`, which is about `ENABLED`, and the liveness
properties (`PaymentRecorded`, `PendingCompensated`, `RefundRecorded`,
`PaymentFound`, `CallsEnd`, `RunsEnd`), since TLAPS here has no rules for fairness.

## 5. Findings

1. **The payment callback says `pending`.** `WechatWebhook`, `AlipayWebhook` and
   `StripeWebhook` pass `NotifyAsync` the order they read before
   `UpdateOrderStatus`. (`payload_status`)
2. **A refund's callback can be lost.** The compensation query selects paid
   orders only. (`refund_deferred`)
3. **A failed WeChat refund becomes a refund.** Any event type with `REFUND` in
   it is taken for success. (`failed_refund`)
4. **`retry_count` passes 5.** The scheduler does not know that a row is being
   retried. `RetriesBounded` is the bound that is left; in `operators` it is 10 with
   a limit of 2, and is reached.
5. **The first part of a refund is the last.** Any completed refund sets the order
   to `refunded`, and only paid orders can be refunded. (`refund_remainder`)
6. **One account for several apps does not isolate them.** A WeChat event is tried
   with the provider of every app, and the first that can decrypt it names the app,
   or no app at all, so a payment may mark another app's order of the same number.
   `README.md:23` and `:40` and the PRD promise one account for several business
   systems. (`shared_account`)

The documents also promise the following. It is false in the models as it is in the
code, and the property named states what is left of it, with the exception:

* "系统会自动验证签名、解析通知、更新订单状态、通知商户" (`docs/支付宝集成测试指南.md:303`).
  The order is looked up by Alipay's `app_id` as if it were GoPay's, which it is not
  in that guide's configuration (`:34-47`, `:103`), and is never found (`Reachable`
  in `PaymentFound`). And when `UpdateOrderStatus` fails, the platform is answered
  with success and does not send the event again (`Swallows`, `lost`).
* Merchants' keys are stored encrypted (`README.md:434`, `docs/配置指南.md:240`).
  WeChat's `api_v3_key` contains none of the tokens of `config_crypto.go:12`, and is
  stored and shown as it is. (`ListedSealed`)
* The audit log has every creation, change and deletion
  (`migrations/004_config_audit_log.up.sql:25`). `QuickSetupApp` writes no audit row.
  (`base` in `AuditReplays`, `QuickSetup` in `ConfigPromise`)
* The orders are compared with the platform's bill (`docs/对账系统使用指南.md:5`).
  An error page is taken for a bill without records, and a success on a day
  without orders. (`SuccessEarned`)
* A report lists the orders that only one side has (`docs/对账系统使用指南.md:12-15`).
  The two sides are matched by `out_trade_no` and `order_no`, so it lists every
  order. (`PromiseKept` of `reconciliation`, `CreatedOrdersDiffer`)
* A difference is sent as an alert (`docs/对账系统使用指南.md:27`). When that fails it
  is only logged; the error of the run remains. (`NothingSilent`)

No document promises the following; a property names each exception:

* When the insert fails or the process dies after the platform's answer, the
  refund is missing from `transactions` for good; Stripe's `charge.refunded`
  reaches an order only if the charge carries an `order_id`, which the code sets
  on the session alone. (`LedgerComplete`, `StripeDrops`)
* An order whose refund the platform neither completes at once nor reports stays
  paid. (`Reporting` in `RefundRecorded`)
* `alipay_face` charges the buyer before the row is inserted. (`ChargedHasRow`)
* A timestamp ahead of the server's clock outlives its nonce, and a restart
  forgets all nonces. (`NonceOnce`)
* Updates of administrators and a cold provider cache can take all connections
  and wait for one more. (`Starved` in `CallsEnd` and
  `NoStandstill`)
* An audit row's old value may be older than the value that was overwritten, and
  two updates at once may be listed in the other order than that in which they took
  effect. (`AuditReplays`)
* A WeChat bill with a line of another number of columns ends the run before
  Alipay's turn; refund rows of a bill are taken for payments. (`NothingSilent`
  says that the run then returns an error)
* Two runs of one day can leave the report of one with the details of both, and
  a scheduler that is down at two o'clock never makes up for the day.
  (`LoneRunStores`, `EachDayOnce`)

## 6. Not modelled

* The worker pool library, the Redis cache, `pkg/audit`, the limiter over Redis,
  `ReloadProvider`, `Close` of the manager, `ReconcileByApp`,
  `ScheduleReconciliation` and `GenerateExcel`: nothing in the program calls them.
* The rate limit by address (`local_rate_limit.go`): it refuses a request before
  anything is read, which is a request that does not come.
* Alerts, metrics, logging, responses, errors, the certificate checker, lists,
  statistics and report pages: output that nothing reads back, or reads only.
* Migrations, configuration files and start-up: they run before anything else;
  the schema's constraints are in the models (`SameKey`, `IsLedger`).
* `rotate-keys`, which prints instructions, and the commands that insert samples.
* Signatures and ciphers, which are library code.

## 7. Plan

1. Orders of disabled apps in front of the scheduler's `LIMIT`: `SweepLimit` is in
   `PaymentFlow`, but no run has more waiting orders than the limit, since the
   liveness of two orders is past what TLC finishes in minutes.
2. `PaymentFlow` with the lookup of `Checkout` instead of a request that has found
   its order, so that the exceptions of `RightRowMarked` reach the notification.
