-------------------------- MODULE PaymentFlowProofs -------------------------
(***************************************************************************)
(* Theorems about PaymentFlow, for any orders, channels, pool size, number *)
(* of concurrent requests, retry limit and disturbances.  All of them rest *)
(* on one inductive invariant, IInv, which says what a worker, a webhook   *)
(* request and the scheduler's list know of the rows they once read.       *)
(***************************************************************************)
EXTENDS PaymentFlow, TLAPS

-----------------------------------------------------------------------------
(* The inductive invariant.                                                *)

\* A worker may be slow, but what it carries stays true of the row.
WorkerInv(w) ==
  worker[w].pc # "idle" =>
    /\ Backed(worker[w].order, worker[w].body)
    /\ worker[w].pc \in {"reset", "getApp", "post"} => worker[w].attempt < MaxNotifyRetries
    /\ worker[w].pc = "count" /\ worker[w].ok => acked[worker[w].order]
    /\ worker[w].pc = "markNotified" => acked[worker[w].order]

\* A webhook request handles an event that happened; the status it read has not
\* been left backwards; once its update is committed, what it tells is backed.
HandlerInv(h) ==
  handler[h].pc # "idle" =>
    /\ handler[h].event \in issued[handler[h].order]
    /\ handler[h].seen # "pending" => Backed(handler[h].order, handler[h].seen)
    /\ handler[h].pc = "notify" =>
         /\ status[handler[h].order] # "pending"
         /\ handler[h].event # "PAID" => status[handler[h].order] = "refunded"

\* A status on record is one that the platform has reported.
OrderInv(o) ==
  /\ issued[o] # {} => "PAID" \in issued[o]
  /\ "REFUND_FAILED" \in issued[o] => o \in ReportedFailures
  /\ status[o] # "pending" => "PAID" \in issued[o]
  /\ status[o] = "refunded" => issued[o] \cap {"REFUNDED", "REFUND_FAILED"} # {}

\* The first notification of a payment exists once, and only after the update.
FirstInv(o) ==
  /\ status[o] = "pending" => FirstNotifications(o) = {}
  /\ \A x, y \in FirstNotifications(o) : x = y

IInv ==
  /\ TypeOK
  /\ \A w \in Workers : WorkerInv(w)
  /\ \A h \in Handlers : HandlerInv(h)
  /\ \A o \in Orders : OrderInv(o)
  /\ \A o \in sweep : status[o] # "pending"
  /\ CallbackAfterCommit
  /\ NotifiedMeansAcked

-----------------------------------------------------------------------------

\* The rows as inserted, no worker and no request: nothing to be true of.
LEMMA InitIInv == Init => IInv
<1> SUFFICES ASSUME Init PROVE IInv
    OBVIOUS
<1> USE DEF Init, OrderInit, NotifyInit, WebhookInit
<1>1. TypeOK
  BY AppsAssumption DEF TypeOK, OrderTypeOK, NotifyTypeOK, WebhookTypeOK, OrderStatuses,
       NotifyStatuses
<1>2. /\ \A w \in Workers : WorkerInv(w)
      /\ \A h \in Handlers : HandlerInv(h)
  BY DEF WorkerInv, HandlerInv, Idle, NoRequest
<1>3. QED
  BY <1>1, <1>2 DEF IInv, OrderInv, CallbackAfterCommit, NotifiedMeansAcked

\* The platform's events only add to issued.
LEMMA PlatformIInv ==
  ASSUME IInv, NEW o \in Orders,
         BuyerPays(o) \/ PlatformRefunds(o) \/ PlatformRefundFails(o),
         UNCHANGED <<orderVars, disturbed, notifyVars>>
  PROVE  IInv'
<1> USE DEF orderVars, notifyVars, BuyerPays, PlatformRefunds, PlatformRefundFails, PlatformEvent
<1>1. TypeOK'
  BY DEF IInv, TypeOK, OrderTypeOK, NotifyTypeOK, WebhookTypeOK, Events
<1>2. \A w \in Workers : WorkerInv(w)'
  BY DEF IInv, WorkerInv, Backed
<1>3. \A h \in Handlers : HandlerInv(h)'
  BY DEF IInv, TypeOK, WebhookTypeOK, HandlerInv, Backed, Request, NoRequest
<1>4. \A p \in Orders : OrderInv(p)'
  BY DEF IInv, TypeOK, WebhookTypeOK, OrderInv
<1>5. QED
  BY <1>1, <1>2, <1>3, <1>4 DEF IInv, CallbackAfterCommit, NotifiedMeansAcked, Backed

\* The row lock and the check of the current status: whatever was backed by a row
\* stays backed by it.
LEMMA BackedStays ==
  ASSUME IInv, NEW o \in Orders, NEW new \in {"paid", "refunded"},
         UpdateOrderStatus(o, new)
  PROVE  \A p \in Orders : \A b \in Bodies : Backed(p, b) => Backed(p, b)'
BY DEF IInv, TypeOK, OrderTypeOK, UpdateOrderStatus, CanUpdate, Backed

\* A worker started for a backed status.
LEMMA StartInv ==
  ASSUME IInv, NEW v \in Workers, NEW pc \in {"reset", "getApp"}, NEW o \in Orders,
         NEW b \in Bodies, Backed(o, b), Start(v, pc, o, b), UNCHANGED <<status, acked>>
  PROVE  /\ worker' \in [Workers -> BusyWorker \cup {Idle}]
         /\ \A w \in Workers : WorkerInv(w)'
<1> DEFINE started == [pc |-> pc, order |-> o, body |-> b,
                       attempt |-> 0, ok |-> FALSE, cancelled |-> FALSE]
<1>1. started \in BusyWorker
  BY RetriesAssumption DEF BusyWorker, WorkerPcs
<1>2. worker' = [worker EXCEPT ![v] = started]
  BY DEF Start
<1>3. worker' \in [Workers -> BusyWorker \cup {Idle}]
  <2> HIDE DEF started
  <2>1. QED
    BY <1>1, <1>2 DEF IInv, TypeOK, NotifyTypeOK
<1>4. ASSUME NEW w \in Workers, w # v PROVE WorkerInv(w)'
  BY <1>2, <1>4 DEF IInv, WorkerInv, TypeOK, NotifyTypeOK, Backed
<1>5. WorkerInv(v)'
  BY <1>2, RetriesAssumption DEF IInv, TypeOK, NotifyTypeOK, WorkerInv, Backed
<1>6. QED
  BY <1>3, <1>4, <1>5

\* Whoever calls NotifyAsync: a token is free, or nothing is started.
LEMMA NotifyAsyncInv ==
  ASSUME IInv, NEW o \in Orders, NEW b \in Bodies, Backed(o, b),
         NotifyAsync(o, b), UNCHANGED <<status, acked>>
  PROVE  /\ worker' \in [Workers -> BusyWorker \cup {Idle}]
         /\ \A w \in Workers : WorkerInv(w)'
<1>1. CASE UNCHANGED worker
  BY <1>1 DEF IInv, TypeOK, NotifyTypeOK, WorkerInv, Backed
<1>2. ASSUME NEW v \in PoolSlots, Start(v, "getApp", o, b)
      PROVE  /\ worker' \in [Workers -> BusyWorker \cup {Idle}]
             /\ \A w \in Workers : WorkerInv(w)'
  BY <1>2, StartInv DEF Workers
<1>3. QED
  BY <1>1, <1>2 DEF NotifyAsync

\* Whatever the channel, a payment asks for "paid" and every other event for "refunded".
LEMMA Asks ==
  \A o \in Orders, e \in Events : AskedStatus(o, e) = IF e = "PAID" THEN "paid" ELSE "refunded"
BY ChannelAssumption DEF AskedStatus, WechatStatus, AlipayStatus, StripeStatus, Events

\* A request arrives with an event of the platform and reads the row.
LEMMA ReceiveIInv ==
  ASSUME IInv, NEW h \in Handlers, NEW o \in Orders, NEW e \in Events, Receives(h, o, e)
  PROVE  IInv'
<1> USE DEF Receives, WechatWebhook, AlipayWebhook, StripeWebhook, Receive
<1>1. TypeOK'
  BY DEF orderVars, notifyVars, IInv, TypeOK, OrderTypeOK, NotifyTypeOK, WebhookTypeOK, Request
<1>2. \A w \in Workers : WorkerInv(w)'
  BY DEF orderVars, notifyVars, IInv, WorkerInv, Backed
<1>3. \A g \in Handlers : HandlerInv(g)'
  BY DEF orderVars, notifyVars, IInv, TypeOK, WebhookTypeOK, HandlerInv, Backed, Request, NoRequest
<1>4. QED
  BY <1>1, <1>2, <1>3
     DEF IInv, OrderInv, CallbackAfterCommit, NotifiedMeansAcked, Backed, orderVars, notifyVars

\* An event that Stripe's handler drops touches no row.
LEMMA StripeDropsIInv ==
  ASSUME IInv, NEW o \in Orders, NEW e \in Events,
         StripeDrops(o, e), UNCHANGED <<orderVars, notifyVars>>
  PROVE  IInv'
<1> USE DEF StripeDrops, Disturb, orderVars, notifyVars
<1>1. TypeOK'
  BY DEF IInv, TypeOK, OrderTypeOK, NotifyTypeOK, WebhookTypeOK
<1>2. QED
  BY <1>1 DEF IInv, WorkerInv, HandlerInv, OrderInv, CallbackAfterCommit, NotifiedMeansAcked, Backed

\* The update of the row by a webhook, its refusal, and its failure.
LEMMA ApplyWebhookIInv ==
  ASSUME IInv, NEW h \in Handlers, ApplyWebhook(h), UNCHANGED notifyVars
  PROVE  IInv'
<1> DEFINE o == handler[h].order
           new == AskedStatus(o, handler[h].event)
<1> USE DEF notifyVars, ApplyWebhook
<1>1. handler[h] \in Request /\ HandlerInv(h) /\ o \in Orders /\ new \in {"paid", "refunded"}
  BY Asks DEF IInv, TypeOK, WebhookTypeOK, NoRequest, Request
<1>2. UpdateOrderStatus(o, new) \/ UNCHANGED orderVars
  OBVIOUS
<1>3. \A p \in Orders : \A b \in Bodies : Backed(p, b) => Backed(p, b)'
  BY <1>1, <1>2, BackedStays DEF orderVars, Backed
<1>4. TypeOK'
  BY <1>1, <1>2 DEF IInv, TypeOK, OrderTypeOK, NotifyTypeOK, WebhookTypeOK, UpdateOrderStatus,
       orderVars, OrderStatuses, Answer, Disturb, Request, NoRequest
<1>5. \A w \in Workers : WorkerInv(w)'
  BY <1>3 DEF IInv, TypeOK, NotifyTypeOK, WorkerInv, BusyWorker, Idle
<1>6. \A g \in Handlers : HandlerInv(g)'
  <2> SUFFICES ASSUME NEW g \in Handlers, handler'[g].pc # "idle"
               PROVE  HandlerInv(g)'
    BY DEF HandlerInv
  <2>1. CASE g # h
    <3>1. handler'[g] = handler[g] /\ handler[g] \in Request /\ HandlerInv(g)
      BY <2>1 DEF IInv, TypeOK, WebhookTypeOK, Answer, NoRequest
    <3>2. status[handler[g].order] # "pending" => status'[handler[g].order] # "pending"
      BY <1>1, <1>2, <3>1 DEF UpdateOrderStatus, orderVars, Request, IInv, TypeOK, OrderTypeOK
    <3>3. status[handler[g].order] = "refunded" => status'[handler[g].order] = "refunded"
      BY <1>1, <1>2, <3>1 DEF UpdateOrderStatus, CanUpdate, orderVars, Request, IInv, TypeOK, OrderTypeOK
    <3>4. QED
      BY <1>3, <3>1, <3>2, <3>3 DEF HandlerInv, Request, Bodies
  <2>2. CASE g = h
    <3>1. /\ handler'[h] = [handler[h] EXCEPT !.pc = "notify"]
          /\ \/ UpdateOrderStatus(o, new)
             \/ AlreadyRefunded(o, new) /\ UNCHANGED orderVars
      BY <2>2 DEF Answer, NoRequest, IInv, TypeOK, WebhookTypeOK
    <3>2. status'[o] = new
      BY <1>1, <3>1 DEF UpdateOrderStatus, AlreadyRefunded, orderVars, IInv, TypeOK, OrderTypeOK
    <3>3. QED
      BY <1>1, <1>3, <2>2, <3>1, <3>2, Asks DEF HandlerInv, Request, Bodies
  <2>3. QED
    BY <2>1, <2>2
<1>7. \A p \in Orders : OrderInv(p)'
  BY <1>1, <1>2, Asks DEF IInv, TypeOK, OrderTypeOK, OrderInv, HandlerInv, UpdateOrderStatus,
       orderVars, Request, Events
<1>8. \A p \in sweep : status'[p] # "pending"
  BY <1>1, <1>2 DEF IInv, TypeOK, OrderTypeOK, NotifyTypeOK, UpdateOrderStatus, orderVars
<1>9. CallbackAfterCommit' /\ NotifiedMeansAcked'
  BY <1>2, <1>3 DEF IInv, TypeOK, NotifyTypeOK, CallbackAfterCommit, NotifiedMeansAcked,
       UpdateOrderStatus, orderVars
<1>10. QED
  BY <1>4, <1>5, <1>6, <1>7, <1>8, <1>9 DEF IInv

\* The notification that follows the update: the status read before it, or
\* "refunded", is backed by then.
LEMMA NotifyWebhookIInv ==
  ASSUME IInv, NEW h \in Handlers, NotifyWebhook(h)
  PROVE  IInv'
<1> DEFINE o == handler[h].order
<1> USE DEF NotifyWebhook, orderVars
<1>1. handler[h] \in Request /\ HandlerInv(h) /\ o \in Orders
  BY DEF IInv, TypeOK, WebhookTypeOK, NoRequest, Request
<1>2. /\ worker' \in [Workers -> BusyWorker \cup {Idle}]
      /\ \A w \in Workers : WorkerInv(w)'
  <2>1. CASE handler[h].event = "PAID"
    <3>1. handler[h].seen \in Bodies /\ Backed(o, handler[h].seen)
      BY <1>1, <2>1 DEF HandlerInv, Backed, Request, Bodies, OrderStatuses
    <3>2. QED
      BY <1>1, <2>1, <3>1, NotifyAsyncInv
  <2>2. CASE handler[h].event # "PAID"
    <3>1. "refunded" \in Bodies /\ Backed(o, "refunded")
      BY <1>1, <2>2 DEF HandlerInv, Backed, Request, Bodies, OrderStatuses
    <3>2. QED
      BY <1>1, <2>2, <3>1, NotifyAsyncInv DEF NotifyRefundAsync
  <2>3. QED
    BY <2>1, <2>2
<1>3. TypeOK'
  BY <1>1, <1>2 DEF IInv, TypeOK, OrderTypeOK, NotifyTypeOK, WebhookTypeOK, Answer, Disturb, Request
<1>4. \A g \in Handlers : HandlerInv(g)'
  BY DEF IInv, TypeOK, WebhookTypeOK, HandlerInv, Backed, Answer, NoRequest
<1>5. QED
  BY <1>2, <1>3, <1>4 DEF IInv, OrderInv, CallbackAfterCommit, NotifiedMeansAcked, Backed

\* A step of a worker changes the row's notification columns and what has been
\* heard and acknowledged, never its status.
LEMMA WorkerStepIInv ==
  ASSUME IInv, NEW w \in Workers, WorkerStep(w), UNCHANGED webhookVars
  PROVE  IInv'
<1> DEFINE o == worker[w].order
           Local == /\ worker'[w] \in BusyWorker \cup {Idle}
                    /\ worker' = [worker EXCEPT ![w] = worker'[w]]
                    /\ WorkerInv(w)'
           Rows == /\ UNCHANGED <<status, sweep, checked, appActive>>
                   /\ disturbed' \in Nat
                   /\ notifyStatus' \in [Orders -> NotifyStatuses]
                   /\ retryCount' \in [Orders -> Nat]
                   /\ heard' \in [Orders -> SUBSET Bodies]
                   /\ acked' \in [Orders -> BOOLEAN]
                   /\ \A p \in Orders : acked[p] => acked'[p]
                   /\ CallbackAfterCommit'
                   /\ NotifiedMeansAcked'
<1>1. /\ worker \in [Workers -> BusyWorker \cup {Idle}]
      /\ worker[w] \in BusyWorker
      /\ WorkerInv(w)
      /\ o \in Orders
      /\ Backed(o, worker[w].body)
  <2>1. worker \in [Workers -> BusyWorker \cup {Idle}] /\ WorkerInv(w)
    BY DEF IInv, TypeOK, NotifyTypeOK
  <2>2. worker[w].pc \in {"getApp", "post", "count", "markNotified", "markFailed"}
    BY DEF WorkerStep, GetApp, Post, Count, MarkNotified, MarkFailed
  <2>3. worker[w] \in BusyWorker
    BY <2>1, <2>2 DEF Idle
  <2>4. QED
    BY <2>1, <2>2, <2>3 DEF WorkerInv, BusyWorker
<1>2. /\ disturbed \in Nat
      /\ status \in [Orders -> OrderStatuses]
      /\ notifyStatus \in [Orders -> NotifyStatuses]
      /\ retryCount \in [Orders -> Nat]
      /\ heard \in [Orders -> SUBSET Bodies]
      /\ acked \in [Orders -> BOOLEAN]
      /\ CallbackAfterCommit
      /\ NotifiedMeansAcked
  BY DEF IInv, TypeOK, OrderTypeOK, NotifyTypeOK
<1>3. ASSUME GetApp(w) PROVE Local /\ Rows
  <2>1. Local
    <3>1. worker' = [worker EXCEPT ![w].pc = "post"] \/ worker' = [worker EXCEPT ![w] = Idle]
      BY <1>3 DEF GetApp
    <3>2. UNCHANGED status
      BY <1>3 DEF GetApp, orderVars
    <3>3. worker[w].attempt < MaxNotifyRetries
      BY <1>1, <1>3 DEF GetApp, WorkerInv
    <3>4. QED
      BY <1>1, <3>1, <3>2, <3>3 DEF BusyWorker, WorkerPcs, WorkerInv, Backed, Idle
  <2>2. Rows
    BY <1>2, <1>3 DEF GetApp, Disturb, orderVars, CallbackAfterCommit, NotifiedMeansAcked, Backed
  <2>3. QED
    BY <2>1, <2>2
<1>4. ASSUME Post(w) PROVE Local /\ Rows
  <2>1. Local
    <3>1. PICK ok \in BOOLEAN : Posted(w, ok) /\ (ok => acked'[o])
      BY <1>1, <1>2, <1>4 DEF Post
    <3>2. UNCHANGED status /\ worker[w].attempt < MaxNotifyRetries
      BY <1>1, <1>4 DEF Post, orderVars, WorkerInv
    <3>3. QED
      BY <1>1, <3>1, <3>2 DEF Posted, BusyWorker, WorkerPcs, WorkerInv, Backed
  <2>2. Rows
    <3>1. /\ UNCHANGED <<status, notifyStatus, retryCount, disturbed, sweep, checked, appActive>>
          /\ heard' = heard \/ heard' = [heard EXCEPT ![o] = @ \cup {worker[w].body}]
          /\ acked' = acked \/ acked' = [acked EXCEPT ![o] = TRUE]
      BY <1>4 DEF Post, orderVars
    <3>2. worker[w].body \in Bodies
      BY <1>1 DEF BusyWorker
    <3>3. CallbackAfterCommit'
      BY <1>1, <1>2, <3>1 DEF CallbackAfterCommit, Backed
    <3>4. NotifiedMeansAcked'
      BY <1>1, <1>2, <3>1 DEF NotifiedMeansAcked
    <3>5. heard' \in [Orders -> SUBSET Bodies]
      BY <1>2, <3>1, <3>2
    <3>6. acked' \in [Orders -> BOOLEAN] /\ \A p \in Orders : acked[p] => acked'[p]
      BY <1>2, <3>1
    <3>7. QED
      BY <1>2, <3>1, <3>3, <3>4, <3>5, <3>6
  <2>3. QED
    BY <2>1, <2>2
<1>5. ASSUME Count(w) PROVE Local /\ Rows
  <2>1. Local
    <3>1. /\ UNCHANGED <<status, acked>>
          /\ worker[w].ok => acked[o]
      BY <1>1, <1>5 DEF Count, OrIgnored, IncrementRetryCount, orderVars, WorkerInv
    <3>2. /\ AfterAttempt(w) \in WorkerPcs \ {"reset", "getApp", "count"}
          /\ AfterAttempt(w) = "post" => worker[w].attempt < MaxNotifyRetries
          /\ AfterAttempt(w) = "markNotified" => worker[w].ok
      BY <1>1 DEF AfterAttempt, WorkerPcs
    <3>3. worker' = [worker EXCEPT
             ![w].pc = AfterAttempt(w),
             ![w].ok = FALSE,
             ![w].cancelled = @ \/ (w \in ManualSlots /\ AfterAttempt(w) = "post")]
      BY <1>5 DEF Count
    <3>4. QED
      BY <1>1, <3>1, <3>2, <3>3 DEF BusyWorker, WorkerInv, Backed
  <2>2. Rows
    BY <1>1, <1>2, <1>5 DEF Count, OrIgnored, IncrementRetryCount, Disturb, orderVars,
         CallbackAfterCommit, NotifiedMeansAcked, Backed
  <2>3. QED
    BY <2>1, <2>2
<1>6. ASSUME MarkNotified(w) \/ MarkFailed(w) PROVE Local /\ Rows
  <2>1. Local
    BY <1>1, <1>6 DEF MarkNotified, MarkFailed, Idle, WorkerInv
  <2>2. Rows
    BY <1>1, <1>2, <1>6 DEF MarkNotified, MarkFailed, OrIgnored, UpdateNotifyStatus, Disturb, orderVars,
         CallbackAfterCommit, NotifiedMeansAcked, Backed, WorkerInv, NotifyStatuses
  <2>3. QED
    BY <2>1, <2>2
<1>7. Local /\ Rows
  BY <1>3, <1>4, <1>5, <1>6 DEF WorkerStep
<1>8. TypeOK'
  BY <1>1, <1>7 DEF IInv, TypeOK, OrderTypeOK, NotifyTypeOK, WebhookTypeOK, webhookVars
<1>9. ASSUME NEW v \in Workers PROVE WorkerInv(v)'
  <2>1. CASE v = w
    BY <1>7, <2>1
  <2>2. CASE v # w
    <3>1. worker'[v] = worker[v] /\ WorkerInv(v) /\ worker[v] \in BusyWorker \cup {Idle}
      BY <1>1, <1>7, <2>2 DEF IInv
    <3>2. QED
      BY <1>7, <3>1 DEF WorkerInv, Backed, BusyWorker, Idle
  <2>3. QED
    BY <2>1, <2>2
<1>10. \A h \in Handlers : HandlerInv(h)'
  BY <1>7 DEF IInv, HandlerInv, Backed, webhookVars
<1>11. QED
  BY <1>7, <1>8, <1>9, <1>10 DEF IInv, OrderInv, webhookVars

\* The scheduler's query returns rows that are paid; handing one over starts a
\* worker at most, although the row may have been refunded since.
LEMMA SweepIInv ==
  ASSUME IInv, ProcessPendingNotifies \/ SweepNotify, UNCHANGED webhookVars
  PROVE  IInv'
<1> USE DEF orderVars, webhookVars
<1>1. /\ UNCHANGED <<orderVars, disturbed, checked, appActive, heard, acked>>
      /\ sweep' \in SUBSET Orders
      /\ \A o \in sweep' : status'[o] # "pending"
  BY DEF ProcessPendingNotifies, ListPendingNotifyOrders, PendingNotify, SweepNotify, IInv, TypeOK,
       NotifyTypeOK
<1>2. /\ worker' \in [Workers -> BusyWorker \cup {Idle}]
      /\ \A w \in Workers : WorkerInv(w)'
  <2>1. CASE UNCHANGED worker
    BY <1>1, <2>1 DEF IInv, TypeOK, NotifyTypeOK, WorkerInv, Backed
  <2>2. ASSUME NEW o \in sweep, NotifyAsync(o, "paid")
        PROVE  /\ worker' \in [Workers -> BusyWorker \cup {Idle}]
               /\ \A w \in Workers : WorkerInv(w)'
    <3>1. o \in Orders /\ "paid" \in Bodies /\ Backed(o, "paid")
      BY DEF IInv, TypeOK, NotifyTypeOK, Backed, Bodies, OrderStatuses
    <3>2. QED
      BY <1>1, <2>2, <3>1, NotifyAsyncInv
  <2>3. QED
    BY <2>1, <2>2 DEF ProcessPendingNotifies, SweepNotify
<1>3. TypeOK'
  BY <1>1, <1>2 DEF IInv, TypeOK, OrderTypeOK, NotifyTypeOK, WebhookTypeOK
<1>4. QED
  BY <1>1, <1>2, <1>3 DEF IInv, HandlerInv, OrderInv, CallbackAfterCommit, NotifiedMeansAcked, Backed

\* The operators' steps: the statements they run leave status, heard and acked
\* alone and never write 'notified'.
LEMMA OperatorIInv ==
  ASSUME IInv, UNCHANGED webhookVars,
         \/ \E w \in ManualSlots, o \in Orders : RetryNotify(w, o)
         \/ \E w \in ManualSlots : RetryNotifyReset(w) \/ RequestEnds(w)
         \/ \E o \in Orders : RetryOrder(o) \/ BatchRetry(o)
         \/ RetryOrderReset
         \/ \E a \in Apps : SetAppStatus(a)
  PROVE  IInv'
<1> USE DEF orderVars, notifyVars
<1>1. UNCHANGED <<status, sweep, heard, acked, handler, issued, settled>>
  BY DEF RetryNotify, RetryNotifyReset, RequestEnds, RetryOrder, BatchRetry, RetryOrderReset,
       SetAppStatus, ResetNotify, webhookVars
<1>2. /\ worker \in [Workers -> BusyWorker \cup {Idle}]
      /\ \A w \in Workers : WorkerInv(w)
  BY DEF IInv, TypeOK, NotifyTypeOK
<1>3. /\ worker' \in [Workers -> BusyWorker \cup {Idle}]
      /\ \A w \in Workers : WorkerInv(w)'
  <2>1. CASE UNCHANGED worker
    BY <1>1, <1>2, <2>1 DEF WorkerInv, Backed
  <2>2. ASSUME NEW w \in ManualSlots, NEW o \in Orders, RetryNotify(w, o)
        PROVE  /\ worker' \in [Workers -> BusyWorker \cup {Idle}]
               /\ \A v \in Workers : WorkerInv(v)'
    <3>1. status[o] \in Bodies /\ Backed(o, status[o]) /\ Start(w, "reset", o, status[o])
      BY <2>2 DEF RetryNotify, Backed, Bodies, OrderStatuses
    <3>2. QED
      BY <1>1, <3>1, StartInv DEF Workers
  <2>3. ASSUME NEW w \in ManualSlots, RetryNotifyReset(w) \/ RequestEnds(w)
        PROVE  /\ worker' \in [Workers -> BusyWorker \cup {Idle}]
               /\ \A v \in Workers : WorkerInv(v)'
    <3>1. /\ w \in Workers
          /\ worker[w] \in BusyWorker
      BY <1>2, <2>3 DEF Workers, RetryNotifyReset, RequestEnds, Idle
    <3>2. \/ worker[w].pc = "reset" /\ worker' = [worker EXCEPT ![w].pc = "post"]
          \/ worker' = [worker EXCEPT ![w] = Idle]
          \/ worker' = [worker EXCEPT ![w].cancelled = TRUE]
      BY <2>3 DEF RetryNotifyReset, RequestEnds
    <3>3. worker' \in [Workers -> BusyWorker \cup {Idle}]
      <4>1. /\ [worker[w] EXCEPT !.pc = "post"] \in BusyWorker
            /\ [worker[w] EXCEPT !.cancelled = TRUE] \in BusyWorker
        BY <3>1 DEF BusyWorker, WorkerPcs
      <4>2. QED
        BY <1>2, <3>1, <3>2, <4>1
    <3>4. ASSUME NEW v \in Workers, v # w PROVE WorkerInv(v)'
      BY <1>1, <1>2, <3>2, <3>4 DEF WorkerInv, Backed
    <3>5. WorkerInv(w)'
      BY <1>1, <1>2, <3>1, <3>2 DEF WorkerInv, Backed, BusyWorker, Idle
    <3>6. QED
      BY <3>3, <3>4, <3>5
  <2>4. QED
    BY <2>1, <2>2, <2>3 DEF RetryOrder, BatchRetry, RetryOrderReset, SetAppStatus
<1>4. /\ disturbed' \in Nat
      /\ checked' \in Orders \cup {NoOrder}
      /\ appActive' \in [Apps -> BOOLEAN]
  <2>1. disturbed \in Nat /\ checked \in Orders \cup {NoOrder} /\ appActive \in [Apps -> BOOLEAN]
    BY DEF IInv, TypeOK, OrderTypeOK, NotifyTypeOK
  <2>2. disturbed' \in {disturbed, disturbed + 1}
    BY DEF RetryNotify, RetryNotifyReset, RequestEnds, RetryOrder, BatchRetry, RetryOrderReset,
         SetAppStatus, Disturb
  <2>3. checked' = checked \/ checked' = NoOrder \/ checked' \in Orders
    BY DEF RetryNotify, RetryNotifyReset, RequestEnds, RetryOrder, BatchRetry, RetryOrderReset,
         SetAppStatus
  <2>4. appActive' = appActive \/ \E a \in Apps : appActive' = [appActive EXCEPT ![a] = ~@]
    BY DEF RetryNotify, RetryNotifyReset, RequestEnds, RetryOrder, BatchRetry, RetryOrderReset,
         SetAppStatus
  <2>5. appActive' \in [Apps -> BOOLEAN]
    BY <2>1, <2>4
  <2>6. QED
    BY <2>1, <2>2, <2>3, <2>5
<1>5. /\ retryCount' \in [Orders -> Nat]
      /\ notifyStatus' \in [Orders -> NotifyStatuses]
      /\ \A o \in Orders : notifyStatus'[o] = "notified" => notifyStatus[o] = "notified"
  BY DEF RetryNotify, RetryNotifyReset, RequestEnds, RetryOrder, BatchRetry, RetryOrderReset,
       SetAppStatus, ResetNotify, NotifyStatuses, IInv, TypeOK, OrderTypeOK, NotifyTypeOK
<1>6. TypeOK'
  BY <1>1, <1>3, <1>4, <1>5 DEF IInv, TypeOK, OrderTypeOK, NotifyTypeOK, WebhookTypeOK
<1>7. QED
  BY <1>1, <1>3, <1>5, <1>6
     DEF IInv, HandlerInv, OrderInv, CallbackAfterCommit, NotifiedMeansAcked, Backed

\* The synchronous refund moves a paid row to refunded, for a refund that the
\* platform has made.
LEMMA UpdateRefundStatusIInv ==
  ASSUME IInv, NEW o \in Orders, UpdateRefundStatus(o),
         UNCHANGED <<disturbed, notifyVars, webhookVars>>
  PROVE  IInv'
<1> USE DEF UpdateRefundStatus, notifyVars, webhookVars
<1>1. \A p \in Orders : \A b \in Bodies : Backed(p, b) => Backed(p, b)'
  BY DEF IInv, TypeOK, OrderTypeOK, Backed
<1>2. TypeOK'
  BY DEF IInv, TypeOK, OrderTypeOK, NotifyTypeOK, WebhookTypeOK, OrderStatuses
<1>3. \A w \in Workers : WorkerInv(w)'
  BY <1>1 DEF IInv, TypeOK, NotifyTypeOK, WorkerInv, BusyWorker, Idle
<1>4. \A h \in Handlers : HandlerInv(h)'
  <2>1. \A p \in Orders : /\ status[p] # "pending" => status'[p] # "pending"
                          /\ status[p] = "refunded" => status'[p] = "refunded"
    BY DEF IInv, TypeOK, OrderTypeOK
  <2>2. QED
    BY <1>1, <2>1 DEF IInv, TypeOK, WebhookTypeOK, HandlerInv, Request, NoRequest, Bodies
<1>5. \A p \in Orders : OrderInv(p)'
  BY DEF IInv, TypeOK, OrderTypeOK, OrderInv
<1>6. \A p \in sweep' : status'[p] # "pending"
  BY DEF IInv, TypeOK, OrderTypeOK, NotifyTypeOK
<1>7. CallbackAfterCommit' /\ NotifiedMeansAcked'
  BY <1>1 DEF IInv, TypeOK, NotifyTypeOK, CallbackAfterCommit, NotifiedMeansAcked
<1>8. QED
  BY <1>2, <1>3, <1>4, <1>5, <1>6, <1>7 DEF IInv

\* After a crash nothing that a goroutine held is left to be true.
LEMMA CrashIInv ==
  ASSUME IInv, CrashRestart
  PROVE  IInv'
<1> USE DEF CrashRestart, Disturb, orderVars
<1>1. TypeOK'
  BY DEF IInv, TypeOK, OrderTypeOK, NotifyTypeOK, WebhookTypeOK
<1>2. /\ \A w \in Workers : WorkerInv(w)'
      /\ \A h \in Handlers : HandlerInv(h)'
  BY DEF WorkerInv, HandlerInv, Idle, NoRequest
<1>3. QED
  BY <1>1, <1>2 DEF IInv, OrderInv, CallbackAfterCommit, NotifiedMeansAcked, Backed

LEMMA StutterIInv ==
  ASSUME IInv, UNCHANGED vars
  PROVE  IInv'
BY DEF vars, orderVars, notifyVars, webhookVars, IInv, TypeOK, OrderTypeOK, NotifyTypeOK, WebhookTypeOK,
     WorkerInv, HandlerInv, OrderInv, CallbackAfterCommit, NotifiedMeansAcked, Backed

\* IInv is inductive, one lemma per kind of step.
LEMMA NextIInv == IInv /\ [Next]_vars => IInv'
<1> SUFFICES ASSUME IInv, [Next]_vars PROVE IInv'
    OBVIOUS
<1>1. CASE \E o \in Orders : /\ BuyerPays(o) \/ PlatformRefunds(o) \/ PlatformRefundFails(o)
                            /\ UNCHANGED <<orderVars, disturbed, notifyVars>>
  BY <1>1, PlatformIInv
<1>2. CASE \E h \in Handlers, o \in Orders, e \in Events : Receives(h, o, e)
  BY <1>2, ReceiveIInv
<1>3. CASE \E o \in Orders, e \in Events : StripeDrops(o, e) /\ UNCHANGED <<orderVars, notifyVars>>
  BY <1>3, StripeDropsIInv
<1>4. CASE \E h \in Handlers : ApplyWebhook(h) /\ UNCHANGED notifyVars
  BY <1>4, ApplyWebhookIInv
<1>5. CASE \E h \in Handlers : NotifyWebhook(h)
  BY <1>5, NotifyWebhookIInv
<1>6. CASE \E w \in Workers : WorkerStep(w) /\ UNCHANGED webhookVars
  BY <1>6, WorkerStepIInv
<1>7. CASE (ProcessPendingNotifies \/ SweepNotify) /\ UNCHANGED webhookVars
  BY <1>7, SweepIInv
<1>8. CASE /\ UNCHANGED webhookVars
           /\ \/ \E w \in ManualSlots, o \in Orders : RetryNotify(w, o)
              \/ \E w \in ManualSlots : RetryNotifyReset(w) \/ RequestEnds(w)
              \/ \E o \in Orders : RetryOrder(o) \/ BatchRetry(o)
              \/ RetryOrderReset
              \/ \E a \in Apps : SetAppStatus(a)
  BY <1>8, OperatorIInv
<1>9. CASE \E o \in Orders : /\ UpdateRefundStatus(o)
                            /\ UNCHANGED <<disturbed, notifyVars, webhookVars>>
  BY <1>9, UpdateRefundStatusIInv
<1>10. CASE CrashRestart
  BY <1>10, CrashIInv
<1>11. CASE UNCHANGED vars
  BY <1>11, StutterIInv
<1>12. QED
  BY <1>1, <1>2, <1>3, <1>4, <1>5, <1>6, <1>7, <1>8, <1>9, <1>10, <1>11 DEF Next

\* Every reachable state satisfies the inductive invariant.
LEMMA SpecIInv == Spec => []IInv
BY InitIInv, NextIInv, PTL DEF Spec

-----------------------------------------------------------------------------
(* The invariants of the runs, for every value of the constants.           *)

\* The rows, the goroutines and the requests stay within their types, in
\* particular no worker makes more attempts than MaxNotifyRetries.
THEOREM TypeCorrect == Spec => []TypeOK
<1>1. IInv => TypeOK
  BY DEF IInv
<1>2. QED
  BY <1>1, SpecIInv, PTL

\* Whatever a business system hears is committed, through crashes, failing
\* statements, overlapping workers and operators' retries.
THEOREM CommitBeforeCallback == Spec => []CallbackAfterCommit
<1>1. IInv => CallbackAfterCommit
  BY DEF IInv
<1>2. QED
  BY <1>1, SpecIInv, PTL

\* An order reported as notified has been acknowledged.
THEOREM NotifiedIsAcked == Spec => []NotifiedMeansAcked
<1>1. IInv => NotifiedMeansAcked
  BY DEF IInv
<1>2. QED
  BY <1>1, SpecIInv, PTL

\* If no platform reports failed refunds, business systems hear of nothing but
\* payments and refunds that took place.
THEOREM CallbacksAreTrue ==
  ASSUME ReportedFailures = {}
  PROVE  Spec => []TruthfulCallbacks
<1>1. IInv => TruthfulCallbacks
  <2> SUFFICES ASSUME IInv, NEW o \in Orders
               PROVE  /\ heard[o] # {} => "PAID" \in issued[o]
                      /\ "refunded" \in heard[o] => "REFUNDED" \in issued[o]
    BY DEF TruthfulCallbacks
  <2>1. OrderInv(o) /\ \A b \in heard[o] : Backed(o, b)
    BY DEF IInv, CallbackAfterCommit
  <2>2. QED
    BY <2>1 DEF OrderInv, Backed
<1>2. QED
  BY <1>1, SpecIInv, PTL

=============================================================================
