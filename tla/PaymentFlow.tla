----------------------------- MODULE PaymentFlow ----------------------------
(***************************************************************************)
(* The life of an order once checkout has saved it: the platform's events, *)
(* the webhook requests, the notification workers, the retry scheduler,    *)
(* the operators' retries and the process itself, interleaved.  The        *)
(* components are OrderService, NotifyService and WebhookHandler; this     *)
(* module adds the crash of the process and the synchronous refund.        *)
(***************************************************************************)
EXTENDS WebhookHandler

vars == <<orderVars, disturbed, notifyVars, webhookVars>>

TypeOK == OrderTypeOK /\ NotifyTypeOK /\ WebhookTypeOK

Init == OrderInit /\ NotifyInit /\ WebhookInit

\* RefundService.updateRefundStatus after the platform has answered SUCCESS to
\* the refund of an order that was read as paid: an unconditional UPDATE.
UpdateRefundStatus(o) ==
  /\ status[o] = "paid"
  /\ "REFUNDED" \in issued[o]
  /\ status' = [status EXCEPT ![o] = "refunded"]
  /\ UNCHANGED <<notifyStatus, retryCount>>

\* The process dies and starts again: goroutines, requests and the scheduler's
\* list are gone, the tables stay.
CrashRestart ==
  /\ Disturb("crash")
  /\ worker' = [w \in Workers |-> Idle]
  /\ handler' = [h \in Handlers |-> NoRequest]
  /\ sweep' = {}
  /\ checked' = NoOrder
  /\ UNCHANGED <<orderVars, appActive, heard, acked, issued, settled>>

WorkerStep(w) == GetApp(w) \/ Post(w) \/ Count(w) \/ MarkNotified(w) \/ MarkFailed(w)

Receives(h, o, e) ==
  /\ WechatWebhook(h, o, e) \/ AlipayWebhook(h, o, e) \/ StripeWebhook(h, o, e)
  /\ UNCHANGED <<orderVars, disturbed, notifyVars>>

Next ==
  \/ \E o \in Orders :
       /\ BuyerPays(o) \/ PlatformRefunds(o) \/ PlatformRefundFails(o)
       /\ UNCHANGED <<orderVars, disturbed, notifyVars>>
  \/ \E h \in Handlers, o \in Orders, e \in Events : Receives(h, o, e)
  \/ \E o \in Orders, e \in Events :
       StripeDrops(o, e) /\ UNCHANGED <<orderVars, notifyVars>>
  \/ \E h \in Handlers : ApplyWebhook(h) /\ UNCHANGED notifyVars
  \/ \E h \in Handlers : NotifyWebhook(h)
  \/ \E w \in Workers : WorkerStep(w) /\ UNCHANGED webhookVars
  \/ ProcessPendingNotifies /\ UNCHANGED webhookVars
  \/ SweepNotify /\ UNCHANGED webhookVars
  \/ \E w \in ManualSlots, o \in Orders : RetryNotify(w, o) /\ UNCHANGED webhookVars
  \/ \E w \in ManualSlots :
       (RetryNotifyReset(w) \/ RequestEnds(w)) /\ UNCHANGED webhookVars
  \/ \E o \in Orders : (RetryOrder(o) \/ BatchRetry(o)) /\ UNCHANGED webhookVars
  \/ RetryOrderReset /\ UNCHANGED webhookVars
  \/ \E a \in Apps : SetAppStatus(a) /\ UNCHANGED webhookVars
  \/ \E o \in Orders :
       UpdateRefundStatus(o) /\ UNCHANGED <<disturbed, notifyVars, webhookVars>>
  \/ CrashRestart

Spec == Init /\ [][Next]_vars

-----------------------------------------------------------------------------
(* Safety.                                                                 *)

\* A status the business system is told is backed by the committed row.
Backed(o, body) ==
  /\ status[o] # "pending"
  /\ body = "refunded" => status[o] = "refunded"

\* Commit first, notify after (UpdateOrderStatus commits before NotifyAsync
\* runs): whatever a business system hears of an order is already in the row,
\* whichever of the webhook, the scheduler or an operator started the worker.
CallbackAfterCommit == \A o \in Orders : \A b \in heard[o] : Backed(o, b)

\* End to end: a business system hears only of payments, and of refunds, that
\* took place at the platform.  UpdateOrderStatus, the rows read by the workers
\* and the retries are all that stands between the two.
TruthfulCallbacks ==
  \A o \in Orders :
    /\ heard[o] # {} => "PAID" \in issued[o]
    /\ "refunded" \in heard[o] => "REFUNDED" \in issued[o]

\* What a request or a worker holds of the notification that follows the update
\* to paid: such a worker's payload still says "pending".
FirstNotifications(o) ==
  {<<"request", h>> : h \in {h \in Handlers : /\ handler[h].order = o
                                            /\ handler[h].pc = "notify"
                                            /\ handler[h].event = "PAID"}}
  \cup
  {<<"worker", w>> : w \in {w \in Workers : /\ worker[w].order = o
                                           /\ worker[w].body = "pending"}}

\* However often and however concurrently the platform reports a payment, the
\* row lock and the check of the current status let one report start a
\* notification, once (SELECT ... FOR UPDATE in UpdateOrderStatus).
OneWebhookNotification ==
  \A o \in Orders : \A x, y \in FirstNotifications(o) : x = y

\* notify_status = 'notified' is written only for an order whose business system
\* answered some callback with 200, through overlapping workers, resets and
\* crashes.
NotifiedMeansAcked ==
  \A o \in Orders : notifyStatus[o] = "notified" => acked[o]

\* A platform event that was answered with success is in the row: the platform
\* will not send it again.  (It needs a database that does not fail: the
\* handlers answer success when UpdateOrderStatus returns an error.)
SettledMeansRecorded ==
  \A o \in Orders :
    /\ "PAID" \in settled[o] => status[o] # "pending"
    /\ ChannelOf[o] # "stripe" /\ "REFUNDED" \in settled[o]
         => status[o] = "refunded"

\* The scheduler's query skips a row with retry_count at its limit: while the
\* database and the process are up, a worker that will mark such a row is
\* still running, so no paid order drops out of both the scheduler's and the
\* operators' lists.  (Fewer RetryNotify requests at once than
\* MaxNotifyRetries: each adds one to the count before its context is cancelled.)
NothingForgotten ==
  \A o \in Orders :
    status[o] = "paid" /\ notifyStatus[o] = "pending" /\ o \notin PendingNotify
      => Working(o)

\* What may still be added to the row of a paid order that the scheduler's query has
\* selected below the limit: MaxNotifyRetries by each worker that the pool has a token
\* for, by the one that the list will start, and by the one of the webhook request that
\* has committed; and one by each RetryNotify, before its context is cancelled.
RetriesLeft == (Cardinality(PoolSlots) + 2) * MaxNotifyRetries + Cardinality(ManualSlots)

\* The scheduler starts a worker for a row whose worker is still between two attempts,
\* so retry_count passes its limit of 5.  It stays bounded while the order is paid: no
\* worker makes more than its attempts, and above the limit the query starts none.
RetriesBounded ==
  \A o \in Orders :
    status[o] = "paid" => retryCount[o] <= MaxNotifyRetries - 1 + RetriesLeft

\* The flow implements what GoPay promises of an order.
Promise == INSTANCE PaymentPromise WITH
  recorded <- status, confirmed <- acked, reported <- notifyStatus

PromiseKept == Promise!Spec

-----------------------------------------------------------------------------
(* Liveness.  Goroutines that can run do run (the Go scheduler), the        *)
(* scheduler's ticker fires, and a platform keeps sending an event that is  *)
(* not settled.  Nothing is assumed of buyers, operators, or of what the    *)
(* business system answers.                                                 *)

Fairness ==
  /\ \A w \in Workers : WF_vars(WorkerStep(w) /\ UNCHANGED webhookVars)
  /\ \A h \in Handlers : /\ WF_vars(ApplyWebhook(h) /\ UNCHANGED notifyVars)
                         /\ WF_vars(NotifyWebhook(h))
  /\ \A o \in Orders, e \in Events : SF_vars(\E h \in Handlers : Receives(h, o, e))
  /\ WF_vars(ProcessPendingNotifies /\ UNCHANGED webhookVars)
  /\ WF_vars(SweepNotify /\ UNCHANGED webhookVars)

FairSpec == Spec /\ Fairness

\* A payment at the platform reaches the row, through lost answers and crashes of
\* the process (but not through a database that fails: see SettledMeansRecorded).
PaymentRecorded ==
  \A o \in Orders : "PAID" \in issued[o] ~> status[o] # "pending"

\* The scheduler makes up for notifications that a full pool deferred or a crash
\* lost: a row that its query selects ends as notified or as failed, unless the
\* order is refunded.  The exception is a crash between the statement that counts
\* the last attempt and the one that marks the row, after which the query's
\* retry_count < 5 hides the row.
PendingCompensated ==
  \A o \in Orders :
    o \in PendingNotify ~>
      \/ notifyStatus[o] # "pending"
      \/ status[o] = "refunded"
      \/ disturbed > 0 /\ retryCount[o] >= MaxNotifyRetries

-----------------------------------------------------------------------------
(* What the documents say and the code does not do.                        *)

\* The callback of a payment says that the order is paid (docs/api/README.md).
\* The webhook handlers notify with the row they read before the update.
PayloadSaysPaid == \A o \in Orders : "pending" \notin heard[o]

\* No notification is lost silently because the pool is full: the compensation
\* task makes up for it (docs/PROJECT_STATUS.md).  Its query selects paid orders
\* only, so nothing makes up for a refund's callback.
RefundCallbackArrives ==
  \A o \in Orders :
    "REFUNDED" \in settled[o] ~>
      "refunded" \in heard[o] \/ notifyStatus[o] = "failed_notify"

=============================================================================
