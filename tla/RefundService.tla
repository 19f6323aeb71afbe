---------------------------- MODULE RefundService ---------------------------
(***************************************************************************)
(* Refunds (internal/service/refund_service.go and the Refund methods of   *)
(* the channel providers): a request reads the order, asks the platform    *)
(* under a fresh refund number, inserts a row into transactions, and sets  *)
(* the order to refunded if the platform has answered that the refund is   *)
(* complete.  A refund that completes later is reported by a callback.     *)
(*                                                                         *)
(* A call is one request together with the refund number it generates, so  *)
(* the platform's record of the refund and the row in transactions are     *)
(* indexed by the call.  QueryRefund changes nothing and is left out.      *)
(***************************************************************************)
EXTENDS OrderService, FiniteSetsExt

CONSTANTS
  Calls,         \* bound: the refund requests of a behaviour
  ChannelOf,     \* the platform of an order
  Amount,        \* orders.amount
  AskedAmounts,  \* the "amount" of a request; 0 asks for the whole order
  NoOrder,       \* "no order"
  Reporting      \* the platforms that are set up to report a refund: no request asks one to

ASSUME CallsAssumption == IsFiniteSet(Calls)
ASSUME ChannelAssumption == ChannelOf \in [Orders -> {"wechat", "alipay", "stripe"}]
ASSUME AmountAssumption == Amount \in [Orders -> Nat \ {0}] /\ AskedAmounts \subseteq Nat
ASSUME NoOrderAssumption == NoOrder \notin Orders
ASSUME ReportingAssumption == Reporting \subseteq {"wechat", "alipay", "stripe"}

VARIABLES
  call,     \* the state of each refund request
  refund,   \* the refund at the platform
  booked,   \* its row in transactions: the status the platform answered
  callback  \* what became of its callback, once that was answered with success

refundVars == <<call, refund, booked, callback>>
vars == <<orderVars, disturbed, refundVars>>

\* channel.RefundStatus.
RefundStatuses == {"pending", "processing", "success", "failed"}

\* A request is over when its caller has been answered or it has died.
Over == {"refused", "error", "answered"}

Request ==
  [pc : {"ask", "save", "mark"} \cup Over, order : Orders, amount : Nat,
   answer : RefundStatuses \cup {"none"}]

NoCall == [pc |-> "idle", order |-> NoOrder, amount |-> 0, answer |-> "none"]

TypeOK ==
  /\ OrderTypeOK
  /\ call \in [Calls -> Request \cup {NoCall}]
  /\ refund \in [Calls -> {"none", "processing", "done", "failed"}]
  /\ booked \in [Calls -> RefundStatuses \cup {"none"}]
  /\ callback \in [Calls -> {"none", "applied", "failed", "ignored"}]

Init ==
  /\ OrderInit
  /\ call    = [c \in Calls |-> NoCall]
  /\ refund  = [c \in Calls |-> "none"]
  /\ booked  = [c \in Calls |-> "none"]
  /\ callback = [c \in Calls |-> "none"]

-----------------------------------------------------------------------------
(* The platforms: they give back at most what was paid.                    *)

RefundsOf(o) == {c \in Calls : call[c].order = o}

\* What is left of the payment of an order.
Room(o) ==
  Amount[o] - MapThenSumSet(LAMBDA c : call[c].amount,
                            {c \in RefundsOf(o) : refund[c] \in {"processing", "done"}})

PlatformSettles(c) ==
  /\ refund[c] = "processing"
  /\ \E result \in {"done", "failed"} : refund' = [refund EXCEPT ![c] = result]
  /\ UNCHANGED <<orderVars, disturbed, call, booked, callback>>

\* Mutant: the platform's word for a failed refund is not converted.
RawStatus == {<<"processing", "processing">>, <<"done", "success">>, <<"failed", "closed">>}

\* How a refund stands when the platform accepts it, and the status that the
\* provider makes of the answer.
WechatRefund == {<<"processing", "processing">>, <<"done", "success">>, <<"failed", "failed">>}

AlipayRefund == {<<"processing", "processing">>, <<"done", "processing">>}

StripeRefund ==
  {<<"processing", "processing">>, <<"processing", "pending">>,
   <<"done", "success">>, <<"failed", "failed">>}

ProviderRefund(o) ==
  CASE ChannelOf[o] = "wechat" -> WechatRefund
    [] ChannelOf[o] = "alipay" -> AlipayRefund
    [] ChannelOf[o] = "stripe" -> StripeRefund

-----------------------------------------------------------------------------
(* A refund request.                                                       *)

RefundAmount(o, asked) == IF asked = 0 THEN Amount[o] ELSE asked

\* Mutant: the status of the order is not looked at.
RefundsAgain(c, o, asked) ==
  /\ call[c] = NoCall
  /\ LET admitted == RefundAmount(o, asked) <= Amount[o]
     IN  call' = [call EXCEPT ![c] =
           [pc |-> IF admitted THEN "ask" ELSE "refused", order |-> o,
            amount |-> RefundAmount(o, asked), answer |-> "none"]]
  /\ UNCHANGED <<orderVars, disturbed, refund, booked, callback>>

Refund(c, o, asked) ==
  /\ call[c] = NoCall
  /\ LET admitted == status[o] = "paid" /\ RefundAmount(o, asked) <= Amount[o]
     IN  call' = [call EXCEPT ![c] =
           [pc |-> IF admitted THEN "ask" ELSE "refused", order |-> o,
            amount |-> RefundAmount(o, asked), answer |-> "none"]]
  /\ UNCHANGED <<orderVars, disturbed, refund, booked, callback>>

CallEnds(c, pc) == call' = [call EXCEPT ![c].pc = pc]

\* Mutant: the row of transactions is written before the platform is asked.
BooksFirst(c) ==
  /\ call[c].pc = "ask"
  /\ \/ CallEnds(c, "error") /\ UNCHANGED <<refund, disturbed>>
     \/ \E outcome \in ProviderRefund(call[c].order) :
          /\ call[c].amount <= Room(call[c].order)
          /\ refund' = [refund EXCEPT ![c] = outcome[1]]
          /\ call' = [call EXCEPT ![c].pc = "save", ![c].answer = outcome[2]]
          /\ UNCHANGED disturbed
  /\ booked' = [booked EXCEPT ![c] = "processing"]
  /\ UNCHANGED <<orderVars, callback>>

\* The provider's Refund: the platform refuses; or it accepts and answers; or it
\* accepts and the answer is lost, which the caller cannot tell from a refusal.
AskPlatform(c) ==
  /\ call[c].pc = "ask"
  /\ \/ CallEnds(c, "error") /\ UNCHANGED <<refund, disturbed>>
     \/ \E outcome \in ProviderRefund(call[c].order) :
          /\ call[c].amount <= Room(call[c].order)
          /\ refund' = [refund EXCEPT ![c] = outcome[1]]
          /\ \/ call' = [call EXCEPT ![c].pc = "save", ![c].answer = outcome[2]]
                /\ UNCHANGED disturbed
             \/ CallEnds(c, "error") /\ Disturb("lostreply")
  /\ UNCHANGED <<orderVars, booked, callback>>

\* Mutant: an error of the INSERT is ignored.
SavesOrGoesOn(c) ==
  /\ call[c].pc = "save"
  /\ CallEnds(c, "mark")
  /\ \/ booked' = [booked EXCEPT ![c] = call[c].answer] /\ UNCHANGED disturbed
     \/ Disturb("dbfault") /\ UNCHANGED booked
  /\ UNCHANGED <<orderVars, refund, callback>>

\* One INSERT.  When it fails, or its outcome is unknown, or the caller has hung
\* up, the request ends in an error and the order is not touched.
SaveRefundTransaction(c) ==
  /\ call[c].pc = "save"
  /\ \/ /\ booked' = [booked EXCEPT ![c] = call[c].answer]
        /\ CallEnds(c, "mark") /\ UNCHANGED disturbed
     \/ /\ Disturb("dbfault")
        /\ UNCHANGED booked \/ booked' = [booked EXCEPT ![c] = call[c].answer]
        /\ CallEnds(c, "error")
  /\ UNCHANGED <<orderVars, refund, callback>>

SetRefunded(o) ==
  /\ status' = [status EXCEPT ![o] = "refunded"]
  /\ UNCHANGED <<notifyStatus, retryCount>>

\* Mutant: the order is marked whatever the platform has answered.
MarksAnyAnswer(c) ==
  /\ call[c].pc = "mark"
  /\ SetRefunded(call[c].order)
  /\ CallEnds(c, "answered")
  /\ UNCHANGED <<disturbed, refund, booked, callback>>

\* updateRefundStatus: an unconditional UPDATE when the refund is complete.
UpdateRefundStatus(c) ==
  /\ call[c].pc = "mark"
  /\ \/ /\ IF call[c].answer = "success"
           THEN SetRefunded(call[c].order) ELSE UNCHANGED orderVars
        /\ CallEnds(c, "answered") /\ UNCHANGED disturbed
     \/ /\ call[c].answer = "success" /\ Disturb("dbfault")
        /\ UNCHANGED orderVars \/ SetRefunded(call[c].order)
        /\ CallEnds(c, "error")
  /\ UNCHANGED <<refund, booked, callback>>

-----------------------------------------------------------------------------
(* The callbacks, each in one step: WebhookHandler has their interleaving.  *)

PaymentWebhook(o) == UpdateOrderStatus(o, "paid") /\ UNCHANGED <<disturbed, refundVars>>

\* The platform reports a refund that is complete; WeChat reports one that has
\* failed as well, and the handler takes it for complete.
Reported(c) ==
  \/ refund[c] = "done"
  \/ refund[c] = "failed" /\ ChannelOf[call[c].order] = "wechat"

\* Mutant: a refund event is applied as the payment event is.
RefundTakenForPayment(c) ==
  LET o == call[c].order
  IN  /\ Reported(c) /\ callback[c] = "none"
      /\ \/ /\ UpdateOrderStatus(o, "paid") \/ UNCHANGED orderVars
            /\ callback' = [callback EXCEPT ![c] = "applied"]
            /\ UNCHANGED disturbed
         \/ /\ Disturb("dbfault")
            /\ callback' = [callback EXCEPT ![c] = "failed"]
            /\ UNCHANGED orderVars
      /\ UNCHANGED <<call, refund, booked>>

\* UpdateOrderStatus commits, or finds the order refunded; or it fails (perhaps
\* after the commit), which is logged and answered with success all the same; or
\* the event is one of Stripe without an order_id.
RefundWebhook(c) ==
  LET o == call[c].order
      Ends(outcome) == callback' = [callback EXCEPT ![c] = outcome]
  IN  /\ Reported(c) /\ callback[c] = "none"
      /\ \/ /\ \/ UpdateOrderStatus(o, "refunded")
               \/ AlreadyRefunded(o, "refunded") /\ UNCHANGED orderVars
            /\ Ends("applied") /\ UNCHANGED disturbed
         \/ /\ Disturb("dbfault")
            /\ UNCHANGED orderVars \/ UpdateOrderStatus(o, "refunded")
            /\ Ends("failed")
         \/ /\ ChannelOf[o] = "stripe"
            /\ Ends("ignored") /\ UNCHANGED <<orderVars, disturbed>>
      /\ UNCHANGED <<call, refund, booked>>

\* The process dies with the requests it is serving.
CrashRestart ==
  /\ Disturb("crash")
  /\ call' = [c \in Calls |-> IF call[c].pc \in {"ask", "save", "mark"}
                              THEN [call[c] EXCEPT !.pc = "error"] ELSE call[c]]
  /\ UNCHANGED <<orderVars, refund, booked, callback>>

CallStep(c) == AskPlatform(c) \/ SaveRefundTransaction(c) \/ UpdateRefundStatus(c)

Next ==
  \/ \E o \in Orders : PaymentWebhook(o)
  \/ \E c \in Calls, o \in Orders, asked \in AskedAmounts : Refund(c, o, asked)
  \/ \E c \in Calls : CallStep(c)
  \/ \E c \in Calls : PlatformSettles(c)
  \/ \E c \in Calls : RefundWebhook(c)
  \/ CrashRestart

Spec == Init /\ [][Next]_vars

-----------------------------------------------------------------------------
(* Safety.                                                                 *)

\* The ledger holds only refunds that the platform has accepted, and one it calls
\* a success is complete there (saveRefundTransaction runs after the provider).
LedgerTrue ==
  \A c \in Calls :
    /\ booked[c] # "none" => refund[c] # "none"
    /\ booked[c] = "success" => refund[c] = "done"

\* As long as nothing fails, every refund that the platform has accepted and whose
\* request is over is in the ledger.  After a failure between the platform's
\* answer and the INSERT it is missing, and nothing adds it later.
LedgerComplete ==
  disturbed = 0 =>
    \A c \in Calls : refund[c] # "none" /\ call[c].pc \in Over => booked[c] # "none"

\* A caller who is not told of an error has a refund at the platform and in the
\* ledger, and an order marked refunded if it is complete.
AnsweredMeansDone ==
  \A c \in Calls : call[c].pc = "answered" =>
    /\ refund[c] # "none"
    /\ booked[c] = call[c].answer
    /\ call[c].answer = "success" => status[call[c].order] = "refunded"

\* An order is refunded only after one of its refunds has ended at the platform,
\* whichever of the requests and callbacks came first.
RefundedMeansRefund ==
  \A o \in Orders : status[o] = "refunded" => \E c \in RefundsOf(o) : Reported(c)

-----------------------------------------------------------------------------
(* Liveness: requests run.  Whether a platform reports a refund at all is  *)
(* not the code's doing: a request carries no NotifyURL, and Alipay's      *)
(* event is taken for a refund only if it has a refund_status.  One that   *)
(* is set up to report sends an event until it has been answered.          *)

ReportArrives(c) == RefundWebhook(c) /\ ChannelOf[call[c].order] \in Reporting

Fairness ==
  \A c \in Calls : WF_vars(CallStep(c)) /\ WF_vars(ReportArrives(c))

FairSpec == Spec /\ Fairness

\* A refund that completes at a platform that reports it reaches the order, though its
\* request may have died, been answered with an error, or seen it in progress; unless
\* its callback met a failing statement, or was one of Stripe that names no order.  An
\* order of another platform may stay paid for ever: at Alipay each one, since its
\* answer is never that a refund is complete.
RefundRecorded ==
  \A c \in Calls, o \in {p \in Orders : ChannelOf[p] \in Reporting} :
    refund[c] = "done" /\ call[c].order = o ~>
      \/ status[o] = "refunded"
      \/ callback[c] = "failed"
      \/ callback[c] = "ignored" /\ ChannelOf[o] = "stripe"

-----------------------------------------------------------------------------
(* The promise about refunds, over this system's state.                    *)

\* How a request has ended for its caller.
EndOf(c) ==
  CASE call[c].pc = "answered" -> call[c].answer
    [] call[c].pc \in {"refused", "error"} -> call[c].pc
    [] OTHER -> "none"

Promise == INSTANCE RefundPromise WITH
  recorded <- status,
  of <- [c \in Calls |-> call[c].order],
  answer <- [c \in Calls |-> EndOf(c)]

\* Requests, platforms, callbacks, failing statements and crashes, interleaved in any
\* way, keep the promise: the order that a request read as paid may be anything by the
\* time it is marked, and a request that failed may have left a refund and a row.
PromiseKept == Promise!Spec

-----------------------------------------------------------------------------
\* Partial refunds are supported (the integration guide, the PRD): a refund of a
\* paid order is refused only if it asks for more than is left.  The code marks
\* the order refunded with the first part and refuses the rest.
RemainderRefundable ==
  [][\A c \in Calls :
       LET o == call'[c].order
       IN  /\ call[c] = NoCall /\ call'[c].pc = "refused"
           /\ status[o] = "refunded"
           => call'[c].amount > Room(o)]_vars

=============================================================================
