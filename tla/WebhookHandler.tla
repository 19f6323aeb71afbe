---------------------------- MODULE WebhookHandler --------------------------
(***************************************************************************)
(* The callbacks of the payment platforms (internal/handler/webhook.go and *)
(* webhook_stripe.go), each handled by a goroutine of the HTTP server:     *)
(* resolve the order, translate the event, update the order's status,      *)
(* notify the business system, answer the platform.                        *)
(*                                                                         *)
(* The platform is external.  issued[o] is what has happened to the trade  *)
(* of order o there; each event is sent again, possibly concurrently, for  *)
(* as long as no success answer to it has arrived (settled).               *)
(***************************************************************************)
EXTENDS NotifyService

CONSTANTS
  Handlers,         \* bound: concurrent webhook requests
  ChannelOf,        \* the platform of an order: "wechat", "alipay" or "stripe"
  ReportedFailures  \* orders whose platform also reports a failed refund

Events == {"PAID", "REFUNDED", "REFUND_FAILED"}

ASSUME ChannelAssumption ==
  /\ ChannelOf \in [Orders -> {"wechat", "alipay", "stripe"}]
  /\ ReportedFailures \subseteq {o \in Orders : ChannelOf[o] = "wechat"}

VARIABLES
  handler,  \* the state of each webhook request
  issued,   \* the events of the order's trade at the platform
  settled   \* those the platform has a success answer for

webhookVars == <<handler, issued, settled>>

Request ==
  [pc : {"update", "notify"}, order : Orders, event : Events, seen : OrderStatuses]

NoRequest == [pc |-> "idle", order |-> NoOrder, event |-> "none", seen |-> "none"]

WebhookTypeOK ==
  /\ handler \in [Handlers -> Request \cup {NoRequest}]
  /\ issued \in [Orders -> SUBSET Events]
  /\ settled \in [Orders -> SUBSET Events]

WebhookInit ==
  /\ handler = [h \in Handlers |-> NoRequest]
  /\ issued  = [o \in Orders |-> {}]
  /\ settled = [o \in Orders |-> {}]

-----------------------------------------------------------------------------
(* The platform.                                                           *)

PlatformEvent(o, e) ==
  /\ e \notin issued[o]
  /\ issued' = [issued EXCEPT ![o] = @ \cup {e}]
  /\ UNCHANGED <<handler, settled>>

BuyerPays(o) == PlatformEvent(o, "PAID")

PlatformRefunds(o) == "PAID" \in issued[o] /\ PlatformEvent(o, "REFUNDED")

\* REFUND.ABNORMAL or REFUND.CLOSED: the money has not gone back.
PlatformRefundFails(o) ==
  /\ o \in ReportedFailures
  /\ "PAID" \in issued[o]
  /\ PlatformEvent(o, "REFUND_FAILED")

-----------------------------------------------------------------------------
(* A webhook request up to the verified event: the order's row is read     *)
(* here (seen) and not again.  A lookup or a verification that fails is    *)
(* answered with a failure and leaves no trace.                            *)

Receive(h, o, e) ==
  /\ handler[h] = NoRequest
  /\ e \in issued[o] \ settled[o]
  /\ handler' = [handler EXCEPT ![h] =
       [pc |-> "update", order |-> o, event |-> e, seen |-> status[o]]]
  /\ UNCHANGED <<issued, settled>>

\* Mutant: the platform is answered before the event is applied.
AnswersFirst(h, o, e) ==
  /\ ChannelOf[o] = "wechat"
  /\ handler[h] = NoRequest
  /\ e \in issued[o] \ settled[o]
  /\ handler' = [handler EXCEPT ![h] =
       [pc |-> "update", order |-> o, event |-> e, seen |-> status[o]]]
  /\ settled' = [settled EXCEPT ![o] = @ \cup {e}]
  /\ UNCHANGED issued

WechatWebhook(h, o, e) == ChannelOf[o] = "wechat" /\ Receive(h, o, e)

AlipayWebhook(h, o, e) == ChannelOf[o] = "alipay" /\ Receive(h, o, e)

StripeWebhook(h, o, e) == ChannelOf[o] = "stripe" /\ Receive(h, o, e)

\* Stripe only: an event without order_id, as a charge may be, and an order that
\* is not found or whose query fails, are answered with success.
StripeDrops(o, e) ==
  /\ ChannelOf[o] = "stripe"
  /\ e \in issued[o] \ settled[o]
  /\ settled' = [settled EXCEPT ![o] = @ \cup {e}]
  /\ \/ e # "PAID" /\ UNCHANGED disturbed
     \/ Disturb("dbfault")
  /\ UNCHANGED <<handler, issued>>

-----------------------------------------------------------------------------
(* The status an event asks for: HandleWebhook of the providers.  Left out *)
(* are the messages that ask for neither paid nor refunded: a Stripe event *)
(* of another type, a trade still open or closed at WeChat or Alipay.  The *)
(* handler answers them with success and changes no row.  A WeChat trade   *)
(* in state REFUND asks for what REFUNDED asks for.                        *)

\* Every event with REFUND in its type is taken for a refund, a failed one too.
WechatStatus(e) == IF e \in {"REFUNDED", "REFUND_FAILED"} THEN "refunded" ELSE "paid"

\* A body with a refund_status is a refund, and the trade_status beside it is not read.
AlipayStatus(e) == IF e = "PAID" THEN "paid" ELSE "refunded"

\* checkout.session.completed or charge.refunded.
StripeStatus(e) == IF e = "PAID" THEN "paid" ELSE "refunded"

AskedStatus(o, e) ==
  CASE ChannelOf[o] = "wechat" -> WechatStatus(e)
    [] ChannelOf[o] = "alipay" -> AlipayStatus(e)
    [] ChannelOf[o] = "stripe" -> StripeStatus(e)

-----------------------------------------------------------------------------
(* The rest of the request.                                                *)

\* The success answer arrives, or the platform never sees it.
Answer(h) ==
  /\ handler' = [handler EXCEPT ![h] = NoRequest]
  /\ \/ /\ settled' = [settled EXCEPT ![handler[h].order] = @ \cup {handler[h].event}]
        /\ UNCHANGED disturbed
     \/ Disturb("lostreply") /\ UNCHANGED settled

\* Mutant: an error of UpdateOrderStatus is logged and the request goes on.
NotifyAnyway(h) ==
  LET o == handler[h].order
      new == AskedStatus(o, handler[h].event)
  IN  /\ handler[h].pc = "update"
      /\ handler' = [handler EXCEPT ![h].pc = "notify"]
      /\ UNCHANGED <<issued, settled>>
      /\ \/ UpdateOrderStatus(o, new) /\ UNCHANGED disturbed
         \/ ~CanUpdate(o, new) /\ UNCHANGED <<orderVars, disturbed>>
         \/ Disturb("dbfault") /\ UNCHANGED orderVars

\* UpdateOrderStatus commits, or accepts a repeated refund; or it refuses the
\* change, or fails (before the commit, or with the commit's outcome unknown),
\* and the platform is answered with success all the same, unless it has hung up,
\* which cancels the context of the transaction.
ApplyWebhook(h) ==
  LET o == handler[h].order
      new == AskedStatus(o, handler[h].event)
  IN  /\ handler[h].pc = "update"
      /\ UNCHANGED issued
      /\ \/ /\ \/ UpdateOrderStatus(o, new)
               \/ AlreadyRefunded(o, new) /\ UNCHANGED orderVars
            /\ handler' = [handler EXCEPT ![h].pc = "notify"]
            /\ UNCHANGED <<settled, disturbed>>
         \/ /\ ~CanUpdate(o, new) /\ ~AlreadyRefunded(o, new)
            /\ Answer(h)
            /\ UNCHANGED orderVars
         \/ /\ Disturb("dbfault")
            /\ UNCHANGED orderVars \/ UpdateOrderStatus(o, new)
            /\ handler' = [handler EXCEPT ![h] = NoRequest]
            /\ \/ settled' = [settled EXCEPT ![o] = @ \cup {handler[h].event}]
               \/ UNCHANGED settled

\* NotifyAsync with the order read before the update, or NotifyRefundAsync;
\* then the success answer.
NotifyWebhook(h) ==
  /\ handler[h].pc = "notify"
  /\ \/ /\ handler[h].event = "PAID"
        /\ NotifyAsync(handler[h].order, handler[h].seen)
     \/ /\ handler[h].event # "PAID"
        /\ NotifyRefundAsync(handler[h].order)
  /\ Answer(h)
  /\ UNCHANGED <<orderVars, sweep, checked, appActive, heard, acked, issued>>

=============================================================================
