------------------------ MODULE PaymentFlowRefinement -----------------------
(***************************************************************************)
(* Three results that use the inductive invariant of PaymentFlowProofs: a  *)
(* payment is announced by one webhook request, an event that was answered *)
(* with success is on record as long as the database does not fail, and    *)
(* PaymentFlow implements PaymentPromise.                                  *)
(***************************************************************************)
EXTENDS PaymentFlowProofs

-----------------------------------------------------------------------------
(* One webhook notification of a payment.                                  *)

\* All the steps but the two that create such a notification or pass it on.
OtherStep ==
  \/ \E o \in Orders :
       /\ BuyerPays(o) \/ PlatformRefunds(o) \/ PlatformRefundFails(o)
       /\ UNCHANGED <<orderVars, disturbed, notifyVars>>
  \/ \E h \in Handlers, o \in Orders, e \in Events : Receives(h, o, e)
  \/ \E o \in Orders, e \in Events : StripeDrops(o, e) /\ UNCHANGED <<orderVars, notifyVars>>
  \/ \E w \in Workers : WorkerStep(w) /\ UNCHANGED webhookVars
  \/ (ProcessPendingNotifies \/ SweepNotify) /\ UNCHANGED webhookVars
  \/ /\ UNCHANGED webhookVars
     /\ \/ \E w \in ManualSlots, o \in Orders : RetryNotify(w, o)
        \/ \E w \in ManualSlots : RetryNotifyReset(w) \/ RequestEnds(w)
        \/ \E o \in Orders : RetryOrder(o) \/ BatchRetry(o)
        \/ RetryOrderReset
        \/ \E a \in Apps : SetAppStatus(a)
  \/ \E o \in Orders : /\ UpdateRefundStatus(o)
                       /\ UNCHANGED <<disturbed, notifyVars, webhookVars>>
  \/ CrashRestart
  \/ UNCHANGED vars

\* The status of a row only moves forward.
LEMMA StatusForward ==
  ASSUME IInv, [Next]_vars, NEW p \in Orders
  PROVE  /\ status[p] # "pending" => status'[p] # "pending"
         /\ status[p] = "refunded" => status'[p] = "refunded"
<1>1. \/ UNCHANGED status
      \/ \E h \in Handlers : /\ ApplyWebhook(h)
                             /\ UpdateOrderStatus(handler[h].order, AskedStatus(handler[h].order, handler[h].event))
      \/ \E o \in Orders : UpdateRefundStatus(o)
  BY DEF Next, vars, orderVars, webhookVars, notifyVars, Receives, StripeDrops, ApplyWebhook,
       NotifyWebhook, WorkerStep, GetApp, Post, Count, MarkNotified, MarkFailed, OrIgnored,
       IncrementRetryCount, UpdateNotifyStatus, ProcessPendingNotifies, SweepNotify, RetryNotify,
       RetryNotifyReset, RequestEnds, RetryOrder, BatchRetry, RetryOrderReset, SetAppStatus,
       ResetNotify, CrashRestart
<1>2. QED
  BY <1>1 DEF UpdateOrderStatus, CanUpdate, UpdateRefundStatus, IInv, TypeOK, OrderTypeOK

\* A worker that starts with another status than "pending" is no first
\* notification, and a worker that moves on keeps its order and its payload.
LEMMA OtherStepFirst ==
  ASSUME IInv, OtherStep, NEW p \in Orders
  PROVE  FirstNotifications(p)' \subseteq FirstNotifications(p)
<1> USE DEF orderVars, notifyVars, webhookVars
<1>1. /\ worker \in [Workers -> BusyWorker \cup {Idle}]
      /\ handler \in [Handlers -> Request \cup {NoRequest}]
      /\ sweep \subseteq Orders
  BY DEF IInv, TypeOK, NotifyTypeOK, WebhookTypeOK
<1>2. ASSUME NEW h \in Handlers, handler'[h].order = p, handler'[h].pc = "notify", handler'[h].event = "PAID"
      PROVE  handler[h].order = p /\ handler[h].pc = "notify" /\ handler[h].event = "PAID"
  <2>1. CASE UNCHANGED handler
    BY <1>2, <2>1
  <2>2. ASSUME NEW g \in Handlers, NEW o \in Orders, NEW e \in Events, Receives(g, o, e)
        PROVE  handler[h].order = p /\ handler[h].pc = "notify" /\ handler[h].event = "PAID"
    BY <1>1, <1>2, <2>2 DEF Receives, WechatWebhook, AlipayWebhook, StripeWebhook, Receive
  <2>3. CASE CrashRestart
    BY <1>2, <2>3, NoOrderAssumption DEF CrashRestart, NoRequest
  <2>4. QED
    BY <2>1, <2>2, <2>3 DEF OtherStep, BuyerPays, PlatformRefunds, PlatformRefundFails, PlatformEvent,
         StripeDrops, vars
<1>3. ASSUME NEW w \in Workers, worker'[w].order = p, worker'[w].body = "pending"
      PROVE  worker[w].order = p /\ worker[w].body = "pending"
  <2> DEFINE Kept == worker[w].order = p /\ worker[w].body = "pending"
  <2>1. CASE UNCHANGED worker
    BY <1>3, <2>1
  <2>2. ASSUME NEW v \in Workers, NEW pc, NEW o, NEW b, b # "pending", Start(v, pc, o, b)
        PROVE  Kept
    BY <1>1, <1>3, <2>2 DEF Start
  <2>3. ASSUME NEW v \in Workers, WorkerStep(v)
        PROVE  Kept
    <3> DEFINE Moves == \/ worker'[w] = Idle
                        \/ /\ worker'[w].order = worker[w].order
                           /\ worker'[w].body = worker[w].body
    <3>1. worker[v] \in BusyWorker
      <4>1. worker[v].pc # "idle"
        BY <2>3 DEF WorkerStep, GetApp, Post, Count, MarkNotified, MarkFailed
      <4>2. QED
        BY <1>1, <4>1 DEF Idle
    <3>2. ASSUME GetApp(v) PROVE Moves
      BY <1>1, <3>1, <3>2 DEF GetApp, BusyWorker
    <3>3. ASSUME Post(v) PROVE Moves
      BY <1>1, <3>1, <3>3 DEF Post, Posted, BusyWorker
    <3>4. ASSUME Count(v) PROVE Moves
      BY <1>1, <3>1, <3>4 DEF Count, BusyWorker
    <3>5. ASSUME MarkNotified(v) \/ MarkFailed(v) PROVE Moves
      BY <1>1, <3>5 DEF MarkNotified, MarkFailed
    <3>6. QED
      BY <1>3, <2>3, <3>2, <3>3, <3>4, <3>5, NoOrderAssumption DEF WorkerStep, Idle
  <2>4. ASSUME NEW v \in ManualSlots, RetryNotifyReset(v) \/ RequestEnds(v)
        PROVE  Kept
    BY <1>1, <1>3, <2>4, NoOrderAssumption DEF RetryNotifyReset, RequestEnds, Workers, BusyWorker, Idle
  <2>5. ASSUME NEW v \in ManualSlots, NEW o \in Orders, RetryNotify(v, o)
        PROVE  Kept
    <3>1. Start(v, "reset", o, status[o]) /\ status[o] # "pending" /\ v \in Workers
      BY <2>5 DEF RetryNotify, Workers
    <3>2. QED
      BY <2>2, <3>1
  <2>6. CASE SweepNotify
    <3>1. PICK o \in sweep : NotifyAsync(o, "paid")
      BY <2>6 DEF SweepNotify
    <3>2. QED
      BY <2>1, <2>2, <3>1 DEF NotifyAsync, Workers
  <2>7. CASE CrashRestart
    BY <1>3, <2>7, NoOrderAssumption DEF CrashRestart, Idle
  <2>8. QED
    BY <2>1, <2>3, <2>4, <2>5, <2>6, <2>7
       DEF OtherStep, Receives, ProcessPendingNotifies, RetryOrder, BatchRetry, RetryOrderReset,
           SetAppStatus, vars
<1>4. QED
  BY <1>2, <1>3 DEF FirstNotifications

\* The update that makes the row paid creates the notification: the row was
\* pending, so there was none.
LEMMA ApplyWebhookFirst ==
  ASSUME IInv, NEW h \in Handlers, ApplyWebhook(h), UNCHANGED notifyVars,
         NEW p \in Orders, FirstInv(p)
  PROVE  FirstInv(p)'
<1> DEFINE o == handler[h].order
           new == AskedStatus(o, handler[h].event)
<1>1. /\ handler \in [Handlers -> Request \cup {NoRequest}]
      /\ status \in [Orders -> OrderStatuses]
      /\ handler[h] \in Request
      /\ o \in Orders
  BY DEF IInv, TypeOK, OrderTypeOK, WebhookTypeOK, ApplyWebhook, NoRequest, Request
<1>2. UNCHANGED worker
  BY DEF notifyVars
<1>3. CASE /\ handler' = [handler EXCEPT ![h].pc = "notify"]
           /\ handler[h].event = "PAID"
           /\ UpdateOrderStatus(o, new)
           /\ p = o
  <2>1. status[p] = "pending" /\ status'[p] = "paid"
    BY <1>1, <1>3, Asks DEF UpdateOrderStatus, CanUpdate, Request
  <2>2. FirstNotifications(p) = {}
    BY <2>1 DEF FirstInv
  <2>3. FirstNotifications(p)' \subseteq {<<"request", h>>}
    BY <1>1, <1>2, <1>3, <2>2 DEF FirstNotifications
  <2>4. QED
    BY <2>1, <2>3 DEF FirstInv
<1>4. ASSUME FirstNotifications(p)' \subseteq FirstNotifications(p)
      PROVE  FirstInv(p)'
  <2>1. status'[p] = "pending" => status[p] = "pending"
    BY StatusForward DEF Next
  <2>2. QED
    BY <1>4, <2>1 DEF FirstInv
<1>5. CASE /\ handler' = [handler EXCEPT ![h].pc = "notify"]
           /\ handler[h].event # "PAID" \/ p # o
  <2>1. FirstNotifications(p)' \subseteq FirstNotifications(p)
    BY <1>1, <1>2, <1>5 DEF FirstNotifications
  <2>2. QED
    BY <1>4, <2>1
<1>6. CASE handler' = [handler EXCEPT ![h] = NoRequest]
  <2>1. FirstNotifications(p)' \subseteq FirstNotifications(p)
    BY <1>1, <1>2, <1>6, NoOrderAssumption DEF FirstNotifications, NoRequest
  <2>2. QED
    BY <1>4, <2>1
<1>7. QED
  BY <1>1, <1>3, <1>5, <1>6, Asks DEF ApplyWebhook, Answer, AlreadyRefunded, Request

\* Passing the notification on: the request gives it up, and at most one worker
\* takes it.
LEMMA NotifyWebhookFirst ==
  ASSUME IInv, NEW h \in Handlers, NotifyWebhook(h), NEW p \in Orders, FirstInv(p)
  PROVE  FirstInv(p)'
<1> DEFINE o == handler[h].order
<1>1. /\ handler \in [Handlers -> Request \cup {NoRequest}]
      /\ worker \in [Workers -> BusyWorker \cup {Idle}]
      /\ handler' = [handler EXCEPT ![h] = NoRequest]
      /\ UNCHANGED status
  BY DEF IInv, TypeOK, NotifyTypeOK, WebhookTypeOK, NotifyWebhook, Answer, orderVars
<1>2. ASSUME NEW g \in Handlers, handler'[g].order = p
      PROVE  handler'[g] = handler[g] /\ g # h
  BY <1>1, <1>2, NoOrderAssumption DEF NoRequest
<1>3. CASE FirstNotifications(p)' \subseteq FirstNotifications(p)
  BY <1>1, <1>3 DEF FirstInv
<1>4. CASE UNCHANGED worker
  <2>1. FirstNotifications(p)' \subseteq FirstNotifications(p)
    BY <1>2, <1>4 DEF FirstNotifications
  <2>2. QED
    BY <1>3, <2>1
<1>5. ASSUME NEW v \in PoolSlots, NEW b, Start(v, "getApp", o, b),
             handler[h].event = "PAID" \/ b # "pending"
      PROVE  FirstInv(p)'
  <2>1. ASSUME NEW w \in Workers, w # v PROVE worker'[w] = worker[w]
    BY <1>1, <1>5, <2>1 DEF Start
  <2>2. worker'[v].order = o /\ worker'[v].body = b
    BY <1>1, <1>5 DEF Start, Workers
  <2>3. CASE p # o \/ b # "pending"
    <3>1. FirstNotifications(p)' \subseteq FirstNotifications(p)
      BY <1>2, <2>1, <2>2, <2>3 DEF FirstNotifications
    <3>2. QED
      BY <1>3, <3>1
  <2>4. CASE p = o /\ b = "pending"
    <3>1. <<"request", h>> \in FirstNotifications(p)
      BY <1>5, <2>4 DEF FirstNotifications, NotifyWebhook
    <3>2. /\ status[p] # "pending"
          /\ \A x \in FirstNotifications(p) : x = <<"request", h>>
      BY <3>1 DEF FirstInv
    <3>3. ASSUME NEW g \in Handlers, <<"request", g>> \in FirstNotifications(p) PROVE g = h
      BY <3>2, <3>3
    <3>4. ASSUME NEW w \in Workers, <<"worker", w>> \in FirstNotifications(p) PROVE FALSE
      BY <3>2, <3>4
    <3>5. ASSUME NEW g \in Handlers, handler'[g].order = p, handler'[g].pc = "notify",
                 handler'[g].event = "PAID"
          PROVE  FALSE
      BY <1>2, <3>3, <3>5 DEF FirstNotifications
    <3>6. ASSUME NEW w \in Workers, worker'[w].order = p, worker'[w].body = "pending"
          PROVE  w = v
      BY <2>1, <3>4, <3>6 DEF FirstNotifications
    <3>7. FirstNotifications(p)' \subseteq {<<"worker", v>>}
      BY <3>5, <3>6 DEF FirstNotifications
    <3>8. QED
      BY <1>1, <3>2, <3>7 DEF FirstInv
  <2>5. QED
    BY <2>3, <2>4
<1>6. QED
  <2>1. CASE handler[h].event = "PAID" /\ NotifyAsync(o, handler[h].seen)
    BY <1>4, <1>5, <2>1 DEF NotifyAsync
  <2>2. CASE NotifyAsync(o, "refunded")
    BY <1>4, <1>5, <2>2 DEF NotifyAsync
  <2>3. QED
    BY <2>1, <2>2 DEF NotifyWebhook, NotifyRefundAsync

\* However many requests report a payment, at once or one after the other, one
\* of them notifies, once.
THEOREM PaymentAnnouncedOnce == Spec => []OneWebhookNotification
<1> DEFINE First == \A p \in Orders : FirstInv(p)
<1>1. Init => First
  BY NoOrderAssumption DEF Init, OrderInit, NotifyInit, WebhookInit, FirstInv, FirstNotifications,
       Idle, NoRequest
<1>2. IInv /\ First /\ [Next]_vars => First'
  <2> SUFFICES ASSUME IInv, First, [Next]_vars, NEW p \in Orders PROVE FirstInv(p)'
    OBVIOUS
  <2>1. CASE OtherStep
    <3>1. FirstNotifications(p)' \subseteq FirstNotifications(p)
      BY <2>1, OtherStepFirst
    <3>2. status'[p] = "pending" => status[p] = "pending"
      BY StatusForward
    <3>3. QED
      BY <3>1, <3>2 DEF FirstInv
  <2>2. CASE \E h \in Handlers : ApplyWebhook(h) /\ UNCHANGED notifyVars
    BY <2>2, ApplyWebhookFirst
  <2>3. CASE \E h \in Handlers : NotifyWebhook(h)
    BY <2>3, NotifyWebhookFirst
  <2>4. QED
    BY <2>1, <2>2, <2>3 DEF Next, OtherStep
<1>3. First => OneWebhookNotification
  BY DEF FirstInv, OneWebhookNotification
<1> HIDE DEF First
<1>4. QED
  BY <1>1, <1>2, <1>3, SpecIInv, PTL DEF Spec

-----------------------------------------------------------------------------
(* What a success answer to the platform means.                            *)

\* A refusal by the check of the current status is harmless: the row is already
\* past the event.  Only a failing statement loses one.
THEOREM AnsweredIsRecorded ==
  ASSUME "dbfault" \notin Disturbances
  PROVE  Spec => []SettledMeansRecorded
<1>1. Init => SettledMeansRecorded
  BY DEF Init, WebhookInit, SettledMeansRecorded
<1>2. IInv /\ SettledMeansRecorded /\ [Next]_vars => SettledMeansRecorded'
  <2> SUFFICES ASSUME IInv, SettledMeansRecorded, [Next]_vars, NEW o \in Orders
               PROVE  /\ "PAID" \in settled'[o] => status'[o] # "pending"
                      /\ ChannelOf[o] # "stripe" /\ "REFUNDED" \in settled'[o]
                           => status'[o] = "refunded"
    BY DEF SettledMeansRecorded
  <2>1. /\ status \in [Orders -> OrderStatuses]
        /\ settled \in [Orders -> SUBSET Events]
        /\ handler \in [Handlers -> Request \cup {NoRequest}]
    BY DEF IInv, TypeOK, OrderTypeOK, WebhookTypeOK
  <2>2. /\ status[o] # "pending" => status'[o] # "pending"
        /\ status[o] = "refunded" => status'[o] = "refunded"
    BY StatusForward
  <2>3. CASE settled'[o] = settled[o]
    BY <2>2, <2>3 DEF SettledMeansRecorded
  <2>4. ASSUME NEW h \in Handlers, NEW e \in Events, handler[h].order = o, handler[h].event = e,
               settled'[o] = settled[o] \cup {e},
               e = "PAID" => status'[o] # "pending",
               e = "REFUNDED" => status'[o] = "refunded"
        PROVE  /\ "PAID" \in settled'[o] => status'[o] # "pending"
               /\ ChannelOf[o] # "stripe" /\ "REFUNDED" \in settled'[o]
                    => status'[o] = "refunded"
    BY <2>2, <2>4 DEF SettledMeansRecorded
  <2> DEFINE Goal == /\ "PAID" \in settled'[o] => status'[o] # "pending"
                     /\ ChannelOf[o] # "stripe" /\ "REFUNDED" \in settled'[o]
                          => status'[o] = "refunded"
  <2>5. ASSUME NEW h \in Handlers, ApplyWebhook(h) PROVE Goal
    <3> DEFINE e == handler[h].event
               p == handler[h].order
    <3>1. handler[h] \in Request /\ e \in Events /\ p \in Orders
      BY <2>1, <2>5 DEF ApplyWebhook, NoRequest, Request
    <3>2. \/ UNCHANGED settled
          \/ /\ settled' = [settled EXCEPT ![p] = @ \cup {e}]
             /\ ~CanUpdate(p, AskedStatus(p, e)) /\ ~AlreadyRefunded(p, AskedStatus(p, e))
             /\ UNCHANGED status
      BY <2>5 DEF ApplyWebhook, Answer, Disturb, orderVars
    <3>3. CASE UNCHANGED settled \/ p # o
      BY <2>1, <2>3, <3>1, <3>2, <3>3
    <3>4. CASE ~CanUpdate(o, AskedStatus(o, e)) /\ ~AlreadyRefunded(o, AskedStatus(o, e)) /\ p = o
                 /\ settled' = [settled EXCEPT ![p] = @ \cup {e}] /\ UNCHANGED status
      <4>1. e = "PAID" /\ status[o] # "pending"
        BY <2>1, <3>1, <3>4, Asks DEF CanUpdate, AlreadyRefunded, OrderStatuses
      <4>2. QED
        BY <2>1, <2>4, <3>1, <3>4, <4>1
    <3>5. QED
      BY <3>2, <3>3, <3>4
  <2>6. ASSUME NEW h \in Handlers, NotifyWebhook(h) PROVE Goal
    <3> DEFINE e == handler[h].event
               p == handler[h].order
    <3>1. /\ handler[h] \in Request /\ e \in Events /\ p \in Orders
          /\ status[p] # "pending" /\ (e # "PAID" => status[p] = "refunded")
      BY <2>1, <2>6 DEF NotifyWebhook, NoRequest, Request, IInv, HandlerInv
    <3>2. /\ UNCHANGED status
          /\ UNCHANGED settled \/ settled' = [settled EXCEPT ![p] = @ \cup {e}]
      BY <2>6 DEF NotifyWebhook, Answer, orderVars
    <3>3. CASE UNCHANGED settled \/ p # o
      BY <2>1, <2>3, <3>1, <3>2, <3>3
    <3>4. CASE settled' = [settled EXCEPT ![p] = @ \cup {e}] /\ p = o
      BY <2>1, <2>4, <3>1, <3>2, <3>4
    <3>5. QED
      BY <3>2, <3>3, <3>4
  <2>7. ASSUME NEW p \in Orders, NEW e \in Events, StripeDrops(p, e), UNCHANGED orderVars PROVE Goal
    <3>1. ChannelOf[p] = "stripe" /\ e # "PAID" /\ settled' = [settled EXCEPT ![p] = @ \cup {e}]
      BY <2>7 DEF StripeDrops, Disturb
    <3>2. QED
      BY <2>1, <2>2, <3>1 DEF SettledMeansRecorded
  <2>8. ASSUME UNCHANGED settled PROVE Goal
    BY <2>3, <2>8
  <2>9. QED
    BY <2>5, <2>6, <2>7, <2>8
       DEF Next, vars, webhookVars, BuyerPays, PlatformRefunds, PlatformRefundFails, PlatformEvent, Receives,
           WechatWebhook, AlipayWebhook, StripeWebhook, Receive, CrashRestart
<1>3. QED
  BY <1>1, <1>2, SpecIInv, PTL DEF Spec

-----------------------------------------------------------------------------
(* PaymentFlow implements PaymentPromise.                                  *)

\* What the promise sees of the flow.
Seen == <<issued, status, heard, acked, notifyStatus>>

\* The update of a row is the promise's record of the event.
LEMMA ApplyWebhookRecords ==
  ASSUME IInv, NEW h \in Handlers, ApplyWebhook(h), UNCHANGED notifyVars
  PROVE  UNCHANGED Seen \/ Promise!Next
<1> DEFINE o == handler[h].order
           new == AskedStatus(o, handler[h].event)
<1>1. /\ handler[h].event \in Events
      /\ o \in Orders
      /\ handler[h].event \in issued[o]
      /\ UNCHANGED <<issued, heard, acked>>
  BY DEF IInv, TypeOK, WebhookTypeOK, HandlerInv, ApplyWebhook, NoRequest, Request, notifyVars
<1>2. CASE UNCHANGED orderVars
  BY <1>1, <1>2 DEF Seen, orderVars
<1>3. CASE UpdateOrderStatus(o, new)
  <2>1. CASE handler[h].event = "PAID"
    <3>1. Promise!RecordPaid(o)
      BY <1>1, <1>3, <2>1, Asks DEF Promise!RecordPaid, UpdateOrderStatus, CanUpdate
    <3>2. QED
      BY <1>1, <3>1 DEF Promise!Next
  <2>2. CASE handler[h].event # "PAID"
    <3>1. Promise!RecordRefunded(o)
      BY <1>1, <1>3, <2>2, Asks DEF Promise!RecordRefunded, UpdateOrderStatus, Events
    <3>2. QED
      BY <1>1, <3>1 DEF Promise!Next
  <2>3. QED
    BY <2>1, <2>2
<1>4. QED
  BY <1>2, <1>3 DEF ApplyWebhook

\* An attempt that reaches the business system is a callback of the promise; the
\* statement that marks the row is its report.
LEMMA WorkerStepTells ==
  ASSUME IInv, NEW w \in Workers, WorkerStep(w), UNCHANGED webhookVars
  PROVE  UNCHANGED Seen \/ Promise!Next
<1> DEFINE o == worker[w].order
           b == worker[w].body
<1>1. worker[w].pc # "idle"
  BY DEF WorkerStep, GetApp, Post, Count, MarkNotified, MarkFailed
<1>2. o \in Orders /\ b \in Bodies /\ WorkerInv(w) /\ Backed(o, b)
  BY <1>1 DEF IInv, TypeOK, NotifyTypeOK, WorkerInv, BusyWorker, Idle
<1>3. CASE GetApp(w) \/ Count(w)
  BY <1>3 DEF GetApp, Count, OrIgnored, IncrementRetryCount, orderVars, webhookVars, Seen
<1>4. CASE Post(w)
  <2>1. CASE UNCHANGED <<heard, acked>>
    BY <1>4, <2>1 DEF Post, orderVars, webhookVars, Seen
  <2>2. CASE /\ heard' = [heard EXCEPT ![o] = @ \cup {b}]
             /\ acked' = [acked EXCEPT ![o] = TRUE] \/ UNCHANGED acked
    <3>1. Promise!Tell(o, b)
      BY <1>2, <1>4, <2>2 DEF Promise!Tell, Post, orderVars, webhookVars, Backed
    <3>2. QED
      BY <1>2, <3>1 DEF Promise!Next, Bodies, OrderStatuses
  <2>3. QED
    BY <1>4, <2>1, <2>2 DEF Post
<1>5. ASSUME NEW result \in {"notified", "failed_notify"}, result = "notified" => acked[o],
             OrIgnored(w, UpdateNotifyStatus(o, result)), UNCHANGED <<heard, acked>>
      PROVE  UNCHANGED Seen \/ Promise!Next
  <2>1. CASE UNCHANGED orderVars
    BY <1>5, <2>1 DEF Seen, orderVars, webhookVars
  <2>2. CASE UpdateNotifyStatus(o, result)
    <3>1. Promise!Report(o, result)
      BY <1>5, <2>2 DEF Promise!Report, UpdateNotifyStatus, webhookVars
    <3>2. QED
      BY <1>2, <3>1 DEF Promise!Next
  <2>3. QED
    BY <1>5, <2>1, <2>2 DEF OrIgnored
<1>6. CASE MarkNotified(w)
  BY <1>2, <1>5, <1>6 DEF MarkNotified, WorkerInv
<1>7. CASE MarkFailed(w)
  BY <1>5, <1>7 DEF MarkFailed
<1>8. QED
  BY <1>3, <1>4, <1>6, <1>7 DEF WorkerStep

\* A reset by an operator is a report of "pending".
LEMMA OperatorReports ==
  ASSUME IInv, UNCHANGED webhookVars,
         \/ \E w \in ManualSlots, o \in Orders : RetryNotify(w, o)
         \/ \E w \in ManualSlots : RetryNotifyReset(w) \/ RequestEnds(w)
         \/ \E o \in Orders : RetryOrder(o) \/ BatchRetry(o)
         \/ RetryOrderReset
         \/ \E a \in Apps : SetAppStatus(a)
  PROVE  UNCHANGED Seen \/ Promise!Next
<1> USE DEF orderVars, webhookVars, notifyVars
<1>1. UNCHANGED <<heard, acked, issued>>
  BY DEF RetryNotify, RetryNotifyReset, RequestEnds, RetryOrder, BatchRetry, RetryOrderReset, SetAppStatus
<1>2. ASSUME NEW o \in Orders, ResetNotify(o)
      PROVE  Promise!Next
  <2>1. Promise!Report(o, "pending")
    BY <1>1, <1>2 DEF Promise!Report, ResetNotify
  <2>2. QED
    BY <2>1 DEF Promise!Next
<1>3. CASE UNCHANGED orderVars
  BY <1>1, <1>3 DEF Seen
<1>4. ASSUME NEW w \in ManualSlots, RetryNotifyReset(w)
      PROVE  worker[w].order \in Orders
  <2>1. worker[w] \in BusyWorker \cup {Idle} /\ worker[w].pc = "reset"
    BY <1>4 DEF IInv, TypeOK, NotifyTypeOK, RetryNotifyReset, Workers
  <2>2. QED
    BY <2>1 DEF BusyWorker, Idle
<1>5. RetryOrderReset => checked \in Orders
  BY DEF RetryOrderReset, IInv, TypeOK, NotifyTypeOK
<1>6. QED
  BY <1>2, <1>3, <1>4, <1>5 DEF RetryNotify, RetryNotifyReset, RequestEnds, RetryOrder, BatchRetry,
       RetryOrderReset, SetAppStatus

\* Webhooks, workers, scheduler, operators, refunds and crashes, interleaved in
\* any way, keep the promise.
THEOREM PaymentFlowKeepsPromise == Spec => PromiseKept
<1>1. Init => Promise!Init
  BY DEF Init, OrderInit, NotifyInit, WebhookInit, Promise!Init
<1>2. IInv /\ [Next]_vars => UNCHANGED Seen \/ Promise!Next
  <2> SUFFICES ASSUME IInv, [Next]_vars PROVE UNCHANGED Seen \/ Promise!Next
    OBVIOUS
  <2>1. ASSUME NEW o \in Orders, BuyerPays(o) \/ PlatformRefunds(o) \/ PlatformRefundFails(o),
               UNCHANGED <<orderVars, disturbed, notifyVars>>
        PROVE  Promise!Next
    <3>1. Promise!Happen(o)
      BY <2>1 DEF Promise!Happen, BuyerPays, PlatformRefunds, PlatformRefundFails, PlatformEvent,
           orderVars, notifyVars
    <3>2. QED
      BY <3>1 DEF Promise!Next
  <2>2. CASE \E h \in Handlers : ApplyWebhook(h) /\ UNCHANGED notifyVars
    BY <2>2, ApplyWebhookRecords
  <2>3. CASE \E w \in Workers : WorkerStep(w) /\ UNCHANGED webhookVars
    BY <2>3, WorkerStepTells
  <2>4. CASE /\ UNCHANGED webhookVars
             /\ \/ \E w \in ManualSlots, o \in Orders : RetryNotify(w, o)
                \/ \E w \in ManualSlots : RetryNotifyReset(w) \/ RequestEnds(w)
                \/ \E o \in Orders : RetryOrder(o) \/ BatchRetry(o)
                \/ RetryOrderReset
                \/ \E a \in Apps : SetAppStatus(a)
    BY <2>4, OperatorReports
  <2>5. ASSUME NEW o \in Orders, UpdateRefundStatus(o), UNCHANGED <<disturbed, notifyVars, webhookVars>>
        PROVE  Promise!Next
    <3>1. Promise!RecordRefunded(o)
      BY <2>5 DEF Promise!RecordRefunded, UpdateRefundStatus, notifyVars, webhookVars
    <3>2. QED
      BY <3>1 DEF Promise!Next
  <2>6. CASE \/ \E h \in Handlers, o \in Orders, e \in Events : Receives(h, o, e)
             \/ \E o \in Orders, e \in Events : StripeDrops(o, e) /\ UNCHANGED <<orderVars, notifyVars>>
             \/ \E h \in Handlers : NotifyWebhook(h)
             \/ (ProcessPendingNotifies \/ SweepNotify) /\ UNCHANGED webhookVars
             \/ CrashRestart
             \/ UNCHANGED vars
    BY <2>6 DEF Receives, WechatWebhook, AlipayWebhook, StripeWebhook, Receive, StripeDrops, NotifyWebhook,
         ProcessPendingNotifies, SweepNotify, CrashRestart, vars, orderVars, notifyVars, webhookVars, Seen
  <2>7. QED
    BY <2>1, <2>2, <2>3, <2>4, <2>5, <2>6 DEF Next
<1>3. UNCHANGED Seen => UNCHANGED Promise!vars
  BY DEF Seen, Promise!vars
<1>4. QED
  BY <1>1, <1>2, <1>3, SpecIInv, PTL DEF Spec, PromiseKept, Promise!Spec

=============================================================================
