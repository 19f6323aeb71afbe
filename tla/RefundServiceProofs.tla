------------------------ MODULE RefundServiceProofs ------------------------
(***************************************************************************)
(* RefundService for any number of orders and requests, any amounts and    *)
(* any disturbances: its invariants, and that it implements RefundPromise.  *)
(*                                                                         *)
(* The invariants of the ledger are not inductive: that the row agrees     *)
(* with the platform depends on where the request stands.  Stages says, per *)
(* stage of a request, what the platform and the ledger know of it.        *)
(***************************************************************************)
EXTENDS RefundService, TLAPS

\* What holds of a request at its stage of the handler.
Stage(c) ==
  /\ call[c].pc \in {"idle", "refused", "ask"} => refund[c] = "none" /\ booked[c] = "none"
  /\ call[c].pc \in {"save", "mark", "answered"} =>
       /\ refund[c] # "none" /\ call[c].answer # "none"
       /\ call[c].answer = "success" => refund[c] = "done"
  /\ call[c].pc = "save" => booked[c] = "none"
  /\ call[c].pc \in {"mark", "answered"} => booked[c] = call[c].answer
  /\ call[c].pc = "answered" /\ call[c].answer = "success"
       => status[call[c].order] = "refunded"
  /\ call[c].pc = "error" /\ disturbed = 0 /\ refund[c] # "none" => booked[c] # "none"
  /\ booked[c] # "none" => refund[c] # "none"
  /\ booked[c] = "success" => refund[c] = "done"

Stages == \A c \in Calls : Stage(c)

IInv == TypeOK /\ Stages /\ RefundedMeansRefund

\* Nothing is taken back: not the status refunded, not a disturbance.
Forward ==
  /\ \A o \in Orders : status[o] = "refunded" => status'[o] = "refunded"
  /\ disturbed' = 0 => disturbed = 0

\* A step of one request leaves the others as they are.
OthersKept(c) ==
  \A d \in Calls \ {c} :
    call'[d] = call[d] /\ refund'[d] = refund[d] /\ booked'[d] = booked[d]

-----------------------------------------------------------------------------
(* The state of a request.                                                 *)

\* A request at work, or over, has an order of the table.
LEMMA CallType ==
  ASSUME TypeOK, NEW c \in Calls
  PROVE  /\ \/ call[c] = NoCall
            \/ /\ call[c] \in Request
               /\ call[c].pc # "idle"
         /\ call[c].pc = "idle" <=> call[c] = NoCall
         /\ refund[c] \in {"none", "processing", "done", "failed"}
         /\ booked[c] \in RefundStatuses \cup {"none"}
<1>1. call[c] \in {NoCall} \cup Request
  BY DEF TypeOK
<1>2. \A r \in Request : r.pc # "idle"
  BY DEF Request, Over
<1>3. NoCall.pc = "idle"
  BY DEF NoCall
<1>4. QED
  BY <1>1, <1>2, <1>3 DEF TypeOK

\* The stages of the requests that do not take the step.
LEMMA OtherStages ==
  ASSUME IInv, Forward, NEW c \in Calls, OthersKept(c), NEW d \in Calls \ {c}
  PROVE  Stage(d)'
<1>1. Stage(d)
  BY DEF IInv, Stages
<1>2. call[d].pc = "answered" => call[d].order \in Orders
  <2>1. call[d] = NoCall \/ call[d] \in Request
    BY CallType DEF IInv
  <2>2. QED
    BY <2>1 DEF NoCall, Request
<1>3. QED
  BY <1>1, <1>2 DEF Stage, Forward, OthersKept

\* A disturbance is counted.
LEMMA DisturbCounts ==
  ASSUME TypeOK, NEW kind, Disturb(kind)
  PROVE  disturbed' \in Nat /\ disturbed' # 0
BY DEF Disturb, TypeOK, OrderTypeOK

\* A status is only ever set to refunded for an order with an ended refund.
LEMMA RefundedStays ==
  ASSUME IInv,
         \A c \in Calls : Reported(c) /\ call[c].order \in Orders
           => Reported(c)' /\ call'[c].order = call[c].order,
         \A o \in Orders : status'[o] = "refunded" =>
           \/ status[o] = "refunded"
           \/ \E c \in Calls : call'[c].order = o /\ Reported(c)'
  PROVE  RefundedMeansRefund'
<1> SUFFICES ASSUME NEW o \in Orders, status'[o] = "refunded"
             PROVE  \E c \in Calls : call'[c].order = o /\ Reported(c)'
    BY DEF RefundedMeansRefund, RefundsOf
<1>1. CASE status[o] = "refunded"
  <2>1. PICK c \in Calls : call[c].order = o /\ Reported(c)
    BY <1>1 DEF IInv, RefundedMeansRefund, RefundsOf
  <2>2. QED
    BY <2>1
<1>2. QED
  BY <1>1

\* Only the stage of the request changes.
LEMMA CallEndsType ==
  ASSUME TypeOK, NEW c \in Calls, call[c].pc # "idle",
         NEW pc \in {"ask", "save", "mark"} \cup Over, CallEnds(c, pc)
  PROVE  /\ call' \in [Calls -> Request \cup {NoCall}]
         /\ call'[c].pc = pc /\ call'[c].answer = call[c].answer
         /\ \A d \in Calls : call'[d].order = call[d].order
         /\ \A d \in Calls \ {c} : call'[d] = call[d]
<1>1. call[c] \in Request
  BY CallType
<1>2. [call[c] EXCEPT !.pc = pc] \in Request
  BY <1>1 DEF Request
<1>3. call' = [call EXCEPT ![c] = [call[c] EXCEPT !.pc = pc]]
  BY DEF CallEnds
<1>4. call'[c] = [call[c] EXCEPT !.pc = pc]
  BY <1>3 DEF TypeOK
<1>5. \A d \in Calls \ {c} : call'[d] = call[d]
  BY <1>3 DEF TypeOK
<1>6. call' \in [Calls -> Request \cup {NoCall}]
  <2> DEFINE ended == [call[c] EXCEPT !.pc = pc]
  <2>1. ended \in Request /\ call' = [call EXCEPT ![c] = ended]
    BY <1>2, <1>3
  <2> HIDE DEF ended
  <2>2. QED
    BY <2>1 DEF TypeOK
<1>7. /\ call'[c].pc = pc /\ call'[c].answer = call[c].answer
      /\ call'[c].order = call[c].order
  BY <1>1, <1>4 DEF Request
<1>8. QED
  BY <1>5, <1>6, <1>7

-----------------------------------------------------------------------------
(* The steps.                                                              *)

\* No request and no row yet.
LEMMA InitIInv == Init => IInv
<1> SUFFICES ASSUME Init PROVE IInv
    OBVIOUS
<1> USE DEF Init, OrderInit
<1>1. TypeOK
  BY DEF TypeOK, OrderTypeOK, OrderStatuses, NotifyStatuses
<1>2. Stages
  BY DEF Stages, Stage, NoCall
<1>3. QED
  BY <1>1, <1>2 DEF IInv, RefundedMeansRefund

\* A request is admitted or refused by the row it reads.
LEMMA RefundIInv ==
  ASSUME IInv, NEW c \in Calls, NEW o \in Orders, NEW asked \in AskedAmounts,
         Refund(c, o, asked)
  PROVE  IInv'
<1> USE DEF Refund, orderVars
<1>1. PICK r \in Request : call' = [call EXCEPT ![c] = r] /\ r.pc \in {"ask", "refused"}
  <2> DEFINE admitted == status[o] = "paid" /\ RefundAmount(o, asked) <= Amount[o]
             r == [pc |-> IF admitted THEN "ask" ELSE "refused", order |-> o,
                   amount |-> RefundAmount(o, asked), answer |-> "none"]
  <2>1. RefundAmount(o, asked) \in Nat
    BY AmountAssumption DEF RefundAmount
  <2>2. r \in Request /\ r.pc \in {"ask", "refused"}
    BY <2>1 DEF Request, Over
  <2>3. call' = [call EXCEPT ![c] = r]
    OBVIOUS
  <2> HIDE DEF r
  <2>4. QED
    BY <2>2, <2>3
<1>2. TypeOK'
  BY <1>1 DEF IInv, TypeOK, OrderTypeOK
<1>3. refund[c] = "none" /\ booked[c] = "none"
  BY DEF IInv, Stages, Stage, NoCall
<1>4. Stage(c)'
  BY <1>1, <1>3 DEF IInv, TypeOK, Stage
<1>5. ASSUME NEW d \in Calls \ {c} PROVE Stage(d)'
  BY <1>1, OtherStages DEF IInv, TypeOK, Forward, OthersKept
<1>6. RefundedMeansRefund'
  <2>1. ASSUME NEW d \in Calls, Reported(d), call[d].order \in Orders
        PROVE  Reported(d)' /\ call'[d].order = call[d].order
    BY <2>1, <1>1, <1>3 DEF IInv, TypeOK, Reported
  <2>2. QED
    BY <2>1, RefundedStays
<1>7. QED
  BY <1>2, <1>4, <1>5, <1>6 DEF IInv, Stages

\* The platform is asked: what it accepts, it records before it answers.
LEMMA AskPlatformIInv ==
  ASSUME IInv, NEW c \in Calls, AskPlatform(c)
  PROVE  IInv'
<1> USE DEF AskPlatform, orderVars
<1> TypeOK /\ call[c] \in Request /\ call[c].pc = "ask"
  BY CallType DEF IInv
<1>1. refund[c] = "none" /\ booked[c] = "none"
  BY DEF IInv, Stages, Stage
<1>2. CASE CallEnds(c, "error") /\ UNCHANGED <<refund, disturbed>>
  <2>1. /\ call' \in [Calls -> Request \cup {NoCall}]
        /\ call'[c].pc = "error"
        /\ \A d \in Calls : call'[d].order = call[d].order
        /\ \A d \in Calls \ {c} : call'[d] = call[d]
    BY <1>2, CallEndsType DEF Over
  <2>2. TypeOK'
    BY <1>2, <2>1 DEF TypeOK, OrderTypeOK
  <2>3. Stage(c)'
    BY <1>1, <1>2, <2>1 DEF Stage
  <2>4. ASSUME NEW d \in Calls \ {c} PROVE Stage(d)'
    BY <1>2, <2>1, OtherStages DEF Forward, OthersKept
  <2>5. RefundedMeansRefund'
    <3>1. \A d \in Calls : Reported(d) => Reported(d)' /\ call'[d].order = call[d].order
      BY <1>2, <2>1 DEF Reported
    <3>2. QED
      BY <3>1, RefundedStays
  <2>6. QED
    BY <2>2, <2>3, <2>4, <2>5 DEF IInv, Stages
<1>3. ASSUME NEW outcome \in ProviderRefund(call[c].order),
             refund' = [refund EXCEPT ![c] = outcome[1]],
             \/ /\ call' = [call EXCEPT ![c].pc = "save", ![c].answer = outcome[2]]
                /\ UNCHANGED disturbed
             \/ CallEnds(c, "error") /\ Disturb("lostreply")
      PROVE  IInv'
  <2>1. /\ outcome[1] \in {"processing", "done", "failed"}
        /\ outcome[2] \in RefundStatuses
        /\ outcome[2] = "success" => outcome[1] = "done"
    <3>1. call[c].order \in Orders
      BY DEF Request
    <3>2. ChannelOf[call[c].order] \in {"wechat", "alipay", "stripe"}
      BY <3>1, ChannelAssumption
    <3>3. outcome \in WechatRefund \cup AlipayRefund \cup StripeRefund
      BY <3>2 DEF ProviderRefund
    <3>4. QED
      BY <3>3 DEF WechatRefund, AlipayRefund, StripeRefund, RefundStatuses
  <2>2. /\ call' \in [Calls -> Request \cup {NoCall}]
        /\ \A d \in Calls : call'[d].order = call[d].order
        /\ \A d \in Calls \ {c} : call'[d] = call[d]
        /\ disturbed' \in Nat /\ (disturbed' = 0 => disturbed = 0)
        /\ \/ call'[c].pc = "save" /\ call'[c].answer = outcome[2]
           \/ call'[c].pc = "error" /\ disturbed' # 0
    <3>1. CASE CallEnds(c, "error") /\ Disturb("lostreply")
      BY <3>1, CallEndsType, DisturbCounts DEF Over
    <3>2. CASE /\ call' = [call EXCEPT ![c].pc = "save", ![c].answer = outcome[2]]
               /\ UNCHANGED disturbed
      <4> DEFINE r == [call[c] EXCEPT !.pc = "save", !.answer = outcome[2]]
      <4>1. r \in Request /\ r.pc = "save" /\ r.answer = outcome[2] /\ r.order = call[c].order
        BY <2>1 DEF Request
      <4>2. call' = [call EXCEPT ![c] = r]
        BY <3>2
      <4> HIDE DEF r
      <4>3. /\ call' \in [Calls -> Request \cup {NoCall}] /\ call'[c] = r
            /\ \A d \in Calls \ {c} : call'[d] = call[d]
        BY <4>1, <4>2 DEF TypeOK
      <4>4. disturbed' \in Nat /\ disturbed' = disturbed
        BY <3>2 DEF TypeOK, OrderTypeOK
      <4>5. QED
        BY <4>1, <4>3, <4>4
    <3>3. QED
      BY <1>3, <3>1, <3>2
  <2>3. TypeOK'
    BY <1>3, <2>1, <2>2 DEF TypeOK, OrderTypeOK
  <2>4. Stage(c)'
    BY <1>1, <1>3, <2>1, <2>2 DEF Stage, TypeOK, RefundStatuses
  <2>5. ASSUME NEW d \in Calls \ {c} PROVE Stage(d)'
    BY <1>3, <2>2, OtherStages DEF TypeOK, Forward, OthersKept
  <2>6. RefundedMeansRefund'
    <3>1. \A d \in Calls : Reported(d) => Reported(d)' /\ call'[d].order = call[d].order
      BY <1>1, <1>3, <2>2 DEF TypeOK, Reported
    <3>2. QED
      BY <3>1, RefundedStays
  <2>7. QED
    BY <2>3, <2>4, <2>5, <2>6 DEF IInv, Stages
<1>4. QED
  BY <1>2, <1>3

\* The row of transactions, or an error.
LEMMA SaveIInv ==
  ASSUME IInv, NEW c \in Calls, SaveRefundTransaction(c)
  PROVE  IInv'
<1> USE DEF SaveRefundTransaction, orderVars
<1> TypeOK /\ call[c] \in Request /\ call[c].pc = "save" /\ Stage(c)
  BY CallType DEF IInv, Stages
<1>1. /\ call' \in [Calls -> Request \cup {NoCall}]
      /\ \A d \in Calls : call'[d].order = call[d].order
      /\ \A d \in Calls \ {c} : call'[d] = call[d]
      /\ call'[c].answer = call[c].answer
      /\ \/ /\ call'[c].pc = "mark" /\ disturbed' = disturbed
            /\ booked' = [booked EXCEPT ![c] = call[c].answer]
         \/ /\ call'[c].pc = "error" /\ disturbed' # 0
            /\ booked' = booked \/ booked' = [booked EXCEPT ![c] = call[c].answer]
      /\ disturbed' \in Nat
  <2>1. CASE CallEnds(c, "mark") /\ UNCHANGED disturbed
             /\ booked' = [booked EXCEPT ![c] = call[c].answer]
    BY <2>1, CallEndsType DEF TypeOK, OrderTypeOK
  <2>2. CASE CallEnds(c, "error") /\ Disturb("dbfault")
             /\ (UNCHANGED booked \/ booked' = [booked EXCEPT ![c] = call[c].answer])
    BY <2>2, CallEndsType, DisturbCounts DEF Over
  <2>3. QED
    BY <2>1, <2>2
<1>2. call[c].answer \in RefundStatuses \cup {"none"}
  BY DEF Request
<1>3. TypeOK'
  BY <1>1, <1>2 DEF TypeOK, OrderTypeOK
<1>4. Stage(c)'
  BY <1>1, <1>2 DEF Stage, TypeOK
<1>5. ASSUME NEW d \in Calls \ {c} PROVE Stage(d)'
  <2>1. Forward
    BY <1>1 DEF Forward, TypeOK, OrderTypeOK
  <2>2. OthersKept(c)
    BY <1>1 DEF OthersKept, TypeOK
  <2>3. QED
    BY <2>1, <2>2, OtherStages
<1>6. RefundedMeansRefund'
  <2>1. \A d \in Calls : Reported(d) => Reported(d)' /\ call'[d].order = call[d].order
    BY <1>1 DEF Reported
  <2>2. QED
    BY <2>1, RefundedStays
<1>7. QED
  BY <1>3, <1>4, <1>5, <1>6 DEF IInv, Stages

\* The order is marked if the answer was success.
LEMMA MarkIInv ==
  ASSUME IInv, NEW c \in Calls, UpdateRefundStatus(c)
  PROVE  IInv'
<1> USE DEF UpdateRefundStatus, SetRefunded, orderVars
<1> TypeOK /\ call[c] \in Request /\ call[c].pc = "mark" /\ Stage(c)
  BY CallType DEF IInv, Stages
<1>1. call[c].order \in Orders
  BY DEF Request
<1>2. /\ call' \in [Calls -> Request \cup {NoCall}]
      /\ \A d \in Calls : call'[d].order = call[d].order
      /\ \A d \in Calls \ {c} : call'[d] = call[d]
      /\ call'[c].answer = call[c].answer
      /\ call'[c].pc \in {"answered", "error"}
      /\ disturbed' \in Nat /\ (disturbed' = 0 => disturbed = 0)
  BY CallEndsType, DisturbCounts DEF Over, TypeOK, OrderTypeOK
<1>3. /\ status' \in [Orders -> OrderStatuses]
      /\ \A o \in Orders : status'[o] = "refunded" =>
           status[o] = "refunded" \/ (o = call[c].order /\ call[c].answer = "success")
      /\ \A o \in Orders : status[o] = "refunded" => status'[o] = "refunded"
      /\ call'[c].pc = "answered" /\ call[c].answer = "success"
           => status'[call[c].order] = "refunded"
  <2>1. CASE UNCHANGED orderVars
             /\ (call[c].answer # "success" \/ CallEnds(c, "error"))
    BY <2>1, CallEndsType DEF Over, TypeOK, OrderTypeOK
  <2>2. CASE SetRefunded(call[c].order) /\ call[c].answer = "success"
    BY <1>1, <2>2 DEF TypeOK, OrderTypeOK, OrderStatuses
  <2>3. QED
    BY <2>1, <2>2
<1>4. UNCHANGED <<notifyStatus, retryCount, refund, booked, callback>>
  OBVIOUS
<1> HIDE DEF UpdateRefundStatus
<1>5. TypeOK'
  BY <1>2, <1>3, <1>4 DEF TypeOK, OrderTypeOK
<1>6. Stage(c)'
  BY <1>2, <1>3, <1>4 DEF Stage
<1>7. ASSUME NEW d \in Calls \ {c} PROVE Stage(d)'
  BY <1>2, <1>3, <1>4, OtherStages DEF Forward, OthersKept
<1>8. RefundedMeansRefund'
  <2>1. \A d \in Calls : Reported(d) => Reported(d)' /\ call'[d].order = call[d].order
    BY <1>2, <1>4 DEF Reported
  <2>2. call[c].answer = "success" => Reported(c)
    BY DEF Stage, Reported
  <2>3. QED
    BY <1>3, <2>1, <2>2, RefundedStays
<1>9. QED
  BY <1>5, <1>6, <1>7, <1>8 DEF IInv, Stages

\* A step that touches no request: a status it sets to refunded has its refund.
RowStep ==
  /\ TypeOK' /\ Forward /\ UNCHANGED <<call, booked>>
  /\ \A c \in Calls :
       \/ refund'[c] = refund[c]
       \/ refund[c] = "processing" /\ refund'[c] \in {"done", "failed"}
  /\ \A o \in Orders : status'[o] = "refunded" =>
       \/ status[o] = "refunded"
       \/ \E c \in Calls : call[c].order = o /\ Reported(c)'

LEMMA RowIInv == IInv /\ RowStep => IInv'
<1> SUFFICES ASSUME IInv, RowStep PROVE IInv'
    OBVIOUS
<1> USE DEF RowStep
<1>1. ASSUME NEW c \in Calls PROVE Stage(c)'
  <2>1. Stage(c)
    BY DEF IInv, Stages
  <2>2. call[c].pc = "answered" => call[c].order \in Orders
    <3>1. call[c] = NoCall \/ call[c] \in Request
      BY CallType DEF IInv
    <3>2. QED
      BY <3>1 DEF NoCall, Request
  <2>3. QED
    BY <2>1, <2>2 DEF Stage, Forward
<1>2. RefundedMeansRefund'
  <2>1. \A c \in Calls : Reported(c) => Reported(c)'
    BY DEF Reported
  <2>2. QED
    BY <2>1, RefundedStays
<1>3. QED
  BY <1>1, <1>2 DEF IInv, Stages

\* A payment is applied to a pending row only.
LEMMA PaymentIInv ==
  ASSUME IInv, NEW o \in Orders, PaymentWebhook(o)
  PROVE  IInv'
<1> USE DEF PaymentWebhook, UpdateOrderStatus, CanUpdate, refundVars
<1>1. TypeOK'
  BY DEF IInv, TypeOK, OrderTypeOK, OrderStatuses
<1>2. \A p \in Orders : status[p] = "refunded" <=> status'[p] = "refunded"
  BY DEF IInv, TypeOK, OrderTypeOK
<1>3. RowStep
  BY <1>1, <1>2 DEF RowStep, Forward
<1>4. QED
  BY <1>3, RowIInv

\* The platform settles a refund in progress.
LEMMA SettleIInv ==
  ASSUME IInv, NEW c \in Calls, PlatformSettles(c)
  PROVE  IInv'
<1> USE DEF PlatformSettles, orderVars
<1>1. TypeOK'
  BY DEF IInv, TypeOK, OrderTypeOK
<1>2. \A d \in Calls :
        \/ refund'[d] = refund[d]
        \/ refund[d] = "processing" /\ refund'[d] \in {"done", "failed"}
  <2>1. PICK result \in {"done", "failed"} : refund' = [refund EXCEPT ![c] = result]
    OBVIOUS
  <2>2. QED
    BY <2>1 DEF IInv, TypeOK
<1>3. RowStep
  BY <1>1, <1>2 DEF RowStep, Forward
<1>4. QED
  BY <1>3, RowIInv

\* A callback applies a refund that the platform reports.
LEMMA CallbackIInv ==
  ASSUME IInv, NEW c \in Calls, RefundWebhook(c)
  PROVE  IInv'
<1>1. /\ Reported(c) /\ UNCHANGED <<call, refund, booked>>
      /\ UNCHANGED orderVars \/ UpdateOrderStatus(call[c].order, "refunded")
      /\ callback' \in [Calls -> {"none", "applied", "failed", "ignored"}]
      /\ disturbed' \in Nat /\ (disturbed' = 0 => disturbed = 0)
  BY DisturbCounts DEF RefundWebhook, IInv, TypeOK, OrderTypeOK
<1>2. call[c].order \in Orders
  <2>1. call[c] # NoCall
    BY <1>1 DEF IInv, Stages, Stage, Reported, NoCall
  <2>2. QED
    BY <2>1, CallType DEF IInv, Request
<1>3. /\ TypeOK'
      /\ \A o \in Orders : status[o] = "refunded" => status'[o] = "refunded"
      /\ \A o \in Orders : status'[o] = "refunded" =>
           status[o] = "refunded" \/ call[c].order = o
  BY <1>1, <1>2 DEF IInv, TypeOK, OrderTypeOK, OrderStatuses, UpdateOrderStatus, orderVars
<1>4. Reported(c)'
  BY <1>1 DEF Reported
<1>5. RowStep
  BY <1>1, <1>3, <1>4 DEF RowStep, Forward
<1>6. QED
  BY <1>5, RowIInv

\* A crash ends the requests at work with an error and counts as a disturbance.
LEMMA CrashIInv == IInv /\ CrashRestart => IInv'
<1> SUFFICES ASSUME IInv, CrashRestart PROVE IInv'
    OBVIOUS
<1> USE DEF CrashRestart, orderVars
<1>1. disturbed' \in Nat /\ disturbed' # 0
  BY DisturbCounts DEF IInv
<1>2. ASSUME NEW c \in Calls
      PROVE  /\ call'[c] \in Request \cup {NoCall}
             /\ call'[c].order = call[c].order
             /\ \/ call'[c] = call[c]
                \/ call'[c].pc = "error"
  <2>1. CASE call[c].pc \in {"ask", "save", "mark"}
    <3>1. call[c] \in Request
      BY <2>1, CallType DEF IInv, NoCall
    <3>2. call'[c] = [call[c] EXCEPT !.pc = "error"]
      BY <2>1
    <3>3. QED
      BY <3>1, <3>2 DEF Request, Over
  <2>2. CASE call[c].pc \notin {"ask", "save", "mark"}
    BY <2>2 DEF IInv, TypeOK
  <2>3. QED
    BY <2>1, <2>2
<1>3. TypeOK'
  <2>1. call' = [c \in Calls |-> call'[c]]
    OBVIOUS
  <2>2. call' \in [Calls -> Request \cup {NoCall}]
    BY <1>2, <2>1
  <2>3. QED
    BY <1>1, <2>2 DEF IInv, TypeOK, OrderTypeOK
<1>4. ASSUME NEW c \in Calls PROVE Stage(c)'
  BY <1>1, <1>2 DEF IInv, Stages, Stage
<1>5. RefundedMeansRefund'
  <2>1. \A c \in Calls : Reported(c) => Reported(c)' /\ call'[c].order = call[c].order
    BY <1>2 DEF Reported
  <2>2. QED
    BY <2>1, RefundedStays
<1>6. QED
  BY <1>3, <1>4, <1>5 DEF IInv, Stages

\* A step that changes no variable.
LEMMA StutterIInv == IInv /\ UNCHANGED vars => IInv'
<1> SUFFICES ASSUME IInv, UNCHANGED vars PROVE IInv'
    OBVIOUS
<1> USE DEF vars, orderVars, refundVars
<1>1. TypeOK'
  BY DEF IInv, TypeOK, OrderTypeOK
<1>2. RowStep
  BY <1>1 DEF RowStep, Forward
<1>3. QED
  BY <1>2, RowIInv

LEMMA NextIInv == IInv /\ [Next]_vars => IInv'
BY PaymentIInv, RefundIInv, AskPlatformIInv, SaveIInv, MarkIInv, SettleIInv, CallbackIInv,
   CrashIInv, StutterIInv DEF Next, CallStep

\* The invariant of every behaviour.
THEOREM Invariance == Spec => []IInv
<1>1. QED
  BY InitIInv, NextIInv, PTL DEF Spec

-----------------------------------------------------------------------------

\* The variables have their types (RefundService and the rows it touches).
THEOREM TypeCorrect == Spec => []TypeOK
<1>1. IInv => TypeOK
  BY DEF IInv
<1>2. QED
  BY <1>1, Invariance, PTL

\* A row of transactions is a refund the platform accepted, and a row that says
\* success is a completed one (saveRefundTransaction).
THEOREM LedgerIsTrue == Spec => []LedgerTrue
<1>1. IInv => LedgerTrue
  BY DEF IInv, Stages, Stage, LedgerTrue
<1>2. QED
  BY <1>1, Invariance, PTL

\* While nothing fails, no refund of a finished request is missing there.
THEOREM LedgerIsComplete == Spec => []LedgerComplete
<1>1. IInv => LedgerComplete
  BY DEF IInv, Stages, Stage, LedgerComplete, Over
<1>2. QED
  BY <1>1, Invariance, PTL

\* An answer without an error is backed by the platform, the ledger and the order.
THEOREM AnswerIsDone == Spec => []AnsweredMeansDone
<1>1. IInv => AnsweredMeansDone
  BY DEF IInv, Stages, Stage, AnsweredMeansDone
<1>2. QED
  BY <1>1, Invariance, PTL

\* No order is refunded without a refund that ended at its platform.
THEOREM RefundedIsRefund == Spec => []RefundedMeansRefund
<1>1. IInv => RefundedMeansRefund
  BY DEF IInv
<1>2. QED
  BY <1>1, Invariance, PTL

-----------------------------------------------------------------------------
(* The promise.                                                            *)

\* A refund is asked for only of an order that was paid, and one that the provider
\* calls failed is.
Admitted(c) ==
  /\ call[c].pc \notin {"idle", "refused"} => status[call[c].order] # "pending"
  /\ call[c].pc \in {"save", "mark", "answered"} /\ call[c].answer = "failed"
       => refund[c] = "failed"

PromiseInv == IInv /\ \A c \in Calls : Admitted(c)

\* The state of RefundPromise.
Of == [c \in Calls |-> call[c].order]
Ends == [c \in Calls |-> EndOf(c)]
Seen == <<status, Of, refund, booked, Ends>>

\* A step of one request, and what the promise sees of it.
LEMMA OneRequest ==
  ASSUME NEW c \in Calls, \A d \in Calls : call'[d].order = call[d].order,
         \A d \in Calls \ {c} : call'[d] = call[d]
  PROVE  /\ Of' = Of
         /\ Ends' = [Ends EXCEPT ![c] = EndOf(c)']
         /\ EndOf(c)' = EndOf(c) => Ends' = Ends
         /\ call'[c].pc \in {"error", "refused"} => EndOf(c)' = call'[c].pc
         /\ call'[c].pc = "answered" => EndOf(c)' = call'[c].answer
         /\ call'[c].pc \in {"ask", "save", "mark"} => EndOf(c)' = "none"
BY DEF Of, Ends, EndOf

LEMMA AtWork ==
  ASSUME IInv, NEW c \in Calls, call[c].pc \in {"ask", "save", "mark"}
  PROVE  /\ call[c] \in Request /\ call[c].order \in Orders /\ EndOf(c) = "none"
         /\ Promise!Open(c) /\ Of[c] = call[c].order
<1>1. call[c] \in Request /\ call[c].order \in Orders
  BY CallType DEF IInv, Request
<1>2. EndOf(c) = "none"
  BY DEF EndOf
<1>3. QED
  BY <1>1, <1>2 DEF Promise!Open, Of

\* Nobody makes an order wait for its payment again.
LEMMA StaysPaid ==
  IInv /\ [Next]_vars => \A o \in Orders : status[o] # "pending" => status'[o] # "pending"
<1> SUFFICES ASSUME IInv, [Next]_vars, NEW o \in Orders, status[o] # "pending", status'[o] = "pending"
             PROVE  FALSE
  OBVIOUS
<1>1. status \in [Orders -> OrderStatuses]
  BY DEF IInv, TypeOK, OrderTypeOK
<1>2. UNCHANGED status \/ \E p, new : new \in {"paid", "refunded"} /\ status' = [status EXCEPT ![p] = new]
  BY DEF Next, PaymentWebhook, Refund, CallStep, AskPlatform, SaveRefundTransaction, UpdateRefundStatus,
     SetRefunded, PlatformSettles, RefundWebhook, UpdateOrderStatus, CrashRestart, vars, orderVars
<1>3. QED
  BY <1>1, <1>2

\* What remains true of the requests that do not take the step.
LEMMA OthersAdmitted ==
  ASSUME PromiseInv, [Next]_vars, NEW d \in Calls, call'[d] = call[d], refund'[d] = refund[d]
  PROVE  Admitted(d)'
<1>1. call[d].pc \notin {"idle", "refused"} => call[d].order \in Orders
  <2>1. call[d] = NoCall \/ call[d] \in Request
    BY CallType DEF PromiseInv, IInv
  <2>2. QED
    BY <2>1 DEF NoCall, Request
<1>2. QED
  BY <1>1, StaysPaid DEF PromiseInv, Admitted

LEMMA RefundPromised ==
  ASSUME PromiseInv, NEW c \in Calls, NEW o \in Orders, NEW asked \in AskedAmounts,
         Refund(c, o, asked)
  PROVE  Admitted(c)' /\ Promise!Next
<1> DEFINE r == [pc |-> IF status[o] = "paid" /\ RefundAmount(o, asked) <= Amount[o]
                        THEN "ask" ELSE "refused",
                 order |-> o, amount |-> RefundAmount(o, asked), answer |-> "none"]
<1>1. call' = [call EXCEPT ![c] = r] /\ call[c] = NoCall
      /\ UNCHANGED <<status, refund, booked>>
  BY DEF Refund, orderVars
<1>2. r.pc \in {"ask", "refused"} /\ r.order = o /\ (r.pc = "ask" => status[o] = "paid")
  OBVIOUS
<1> HIDE DEF r
<1>3. call'[c] = r /\ \A d \in Calls \ {c} : call'[d] = call[d]
  BY <1>1 DEF PromiseInv, IInv, TypeOK
<1>4. Admitted(c)'
  BY <1>1, <1>2, <1>3 DEF Admitted
<1>5. Of[c] = NoOrder /\ Of' = [Of EXCEPT ![c] = o]
  <2>1. NoCall.order = NoOrder
    BY DEF NoCall
  <2>2. call'[c].order = o /\ \A d \in Calls \ {c} : call'[d].order = call[d].order
    BY <1>2, <1>3
  <2>3. call[c].order = NoOrder
    BY <1>1, <2>1
  <2>4. QED
    BY <2>2, <2>3 DEF Of
<1>6. EndOf(c) = "none" /\ EndOf(c)' = IF r.pc = "ask" THEN "none" ELSE "refused"
  BY <1>1, <1>2, <1>3 DEF EndOf, NoCall
<1>7. Ends' = [Ends EXCEPT ![c] = EndOf(c)'] /\ (r.pc = "ask" => Ends' = Ends)
  BY <1>3, <1>6 DEF Ends, EndOf
<1>8. Promise!Ask(c, o)
  BY <1>1, <1>2, <1>5, <1>6, <1>7 DEF Promise!Ask, Promise!Ends, Of, Ends
<1>9. QED
  BY <1>4, <1>8 DEF Promise!Next

LEMMA AskPlatformPromised ==
  ASSUME PromiseInv, NEW c \in Calls, AskPlatform(c)
  PROVE  Admitted(c)' /\ Promise!Next
<1>1. /\ TypeOK /\ call[c] \in Request /\ call[c].pc = "ask" /\ call[c].order \in Orders
      /\ Promise!Open(c) /\ refund[c] = "none" /\ status[call[c].order] # "pending"
      /\ UNCHANGED <<status, booked>>
  BY AtWork DEF PromiseInv, IInv, Stages, Stage, Admitted, AskPlatform, orderVars
<1>2. CASE CallEnds(c, "error") /\ UNCHANGED refund
  <2>1. /\ call'[c].pc = "error"
        /\ \A d \in Calls : call'[d].order = call[d].order
        /\ \A d \in Calls \ {c} : call'[d] = call[d]
    BY <1>1, <1>2, CallEndsType DEF Over
  <2>2. Of' = Of /\ Ends' = [Ends EXCEPT ![c] = "error"]
    BY <2>1, OneRequest
  <2>3. Promise!Fail
    <3>1. {c} \in SUBSET {d \in Calls : Promise!Open(d)}
      BY <1>1
    <3>2. Ends' = [d \in Calls |-> IF d \in {c} THEN "error" ELSE Ends[d]]
      BY <2>2 DEF Ends
    <3>3. QED
      BY <1>1, <1>2, <2>2, <3>1, <3>2 DEF Promise!Fail, Of, Ends
  <2>4. Admitted(c)'
    BY <1>1, <2>1 DEF Admitted
  <2>5. QED
    BY <2>3, <2>4 DEF Promise!Next
<1>3. ASSUME NEW outcome \in ProviderRefund(call[c].order),
             refund' = [refund EXCEPT ![c] = outcome[1]],
             \/ call' = [call EXCEPT ![c].pc = "save", ![c].answer = outcome[2]]
             \/ CallEnds(c, "error")
      PROVE  Admitted(c)' /\ Promise!Next
  <2>1. /\ outcome[1] \in {"processing", "done", "failed"}
        /\ outcome[2] = "failed" => outcome[1] = "failed"
    <3>1. ChannelOf[call[c].order] \in {"wechat", "alipay", "stripe"}
      BY <1>1, ChannelAssumption
    <3>2. QED
      BY <1>3, <3>1 DEF ProviderRefund, WechatRefund, AlipayRefund, StripeRefund
  <2>2. /\ \A d \in Calls : call'[d].order = call[d].order
        /\ \A d \in Calls \ {c} : call'[d] = call[d]
        /\ \/ call'[c].pc = "save" /\ call'[c].answer = outcome[2]
           \/ call'[c].pc = "error"
    <3>1. CASE CallEnds(c, "error")
      BY <1>1, <3>1, CallEndsType DEF Over
    <3>2. CASE call' = [call EXCEPT ![c].pc = "save", ![c].answer = outcome[2]]
      BY <1>1, <3>2 DEF TypeOK, Request
    <3>3. QED
      BY <1>3, <3>1, <3>2
  <2>3. Of' = Of /\ (Ends' = Ends \/ Ends' = [Ends EXCEPT ![c] = "error"])
    <3>1. CASE call'[c].pc = "save"
      BY <1>1, <2>2, <3>1, OneRequest DEF EndOf
    <3>2. CASE call'[c].pc = "error"
      BY <2>2, <3>2, OneRequest
    <3>3. QED
      BY <2>2, <3>1, <3>2
  <2>4. Promise!Accept(c)
    BY <1>1, <1>3, <2>1, <2>3 DEF Promise!Accept, Promise!MayFail, Promise!Ends, Of, Ends
  <2>5. Admitted(c)'
    BY <1>1, <1>3, <2>1, <2>2 DEF Admitted, TypeOK
  <2>6. QED
    BY <2>4, <2>5 DEF Promise!Next
<1>4. QED
  BY <1>2, <1>3 DEF AskPlatform

LEMMA SavePromised ==
  ASSUME PromiseInv, NEW c \in Calls, SaveRefundTransaction(c)
  PROVE  Admitted(c)' /\ Promise!Next
<1>1. /\ TypeOK /\ call[c] \in Request /\ call[c].pc = "save" /\ call[c].order \in Orders
      /\ Promise!Open(c) /\ Stage(c) /\ Admitted(c) /\ EndOf(c) = "none"
      /\ UNCHANGED <<status, refund>>
  BY AtWork DEF PromiseInv, IInv, Stages, SaveRefundTransaction, orderVars
<1>2. /\ \A d \in Calls : call'[d].order = call[d].order
      /\ \A d \in Calls \ {c} : call'[d] = call[d]
      /\ call'[c].answer = call[c].answer
      /\ \/ call'[c].pc = "mark" /\ booked' = [booked EXCEPT ![c] = call[c].answer]
         \/ /\ call'[c].pc = "error"
            /\ booked' = booked \/ booked' = [booked EXCEPT ![c] = call[c].answer]
  BY <1>1, CallEndsType DEF SaveRefundTransaction, Over
<1>3. Admitted(c)'
  BY <1>1, <1>2 DEF Admitted
<1>4. /\ Of' = Of
      /\ call'[c].pc = "mark" => Ends' = Ends
      /\ call'[c].pc = "error" => Ends' = [Ends EXCEPT ![c] = "error"]
  BY <1>1, <1>2, OneRequest
<1>5. CASE booked' = [booked EXCEPT ![c] = call[c].answer]
  <2>1. /\ refund[c] # "none" /\ booked[c] = "none"
        /\ call[c].answer \in {"pending", "processing", "success", "failed"}
        /\ call[c].answer = "success" => refund[c] = "done"
        /\ call[c].answer = "failed" => refund[c] = "failed"
    BY <1>1 DEF Stage, Admitted, Request, RefundStatuses
  <2>2. Promise!Book(c)
    BY <1>1, <1>2, <1>4, <1>5, <2>1 DEF Promise!Book, Promise!MayFail, Promise!Ends, Of, Ends
  <2>3. QED
    BY <1>3, <2>2 DEF Promise!Next
<1>6. CASE booked' = booked /\ call'[c].pc = "error"
  <2>1. Ends' = [d \in Calls |-> IF d \in {c} THEN "error" ELSE Ends[d]]
    BY <1>4, <1>6 DEF Ends
  <2>2. Promise!Fail
    BY <1>1, <1>4, <1>6, <2>1 DEF Promise!Fail, Of, Ends
  <2>3. QED
    BY <1>3, <2>2 DEF Promise!Next
<1>7. QED
  BY <1>2, <1>5, <1>6

LEMMA MarkPromised ==
  ASSUME PromiseInv, NEW c \in Calls, UpdateRefundStatus(c)
  PROVE  Admitted(c)' /\ Promise!Next
<1> DEFINE o == call[c].order
<1>1. /\ TypeOK /\ call[c] \in Request /\ call[c].pc = "mark" /\ o \in Orders
      /\ Promise!Open(c) /\ Of[c] = o /\ Stage(c) /\ Admitted(c)
      /\ UNCHANGED <<refund, booked>>
      /\ status \in [Orders -> OrderStatuses] /\ status[o] \in {"paid", "refunded"}
  BY AtWork DEF PromiseInv, IInv, Stages, UpdateRefundStatus, TypeOK, OrderTypeOK, OrderStatuses, Admitted
<1>2. /\ \A d \in Calls : call'[d].order = call[d].order
      /\ \A d \in Calls \ {c} : call'[d] = call[d]
      /\ call'[c].answer = call[c].answer /\ call'[c].pc \in {"answered", "error"}
      /\ UNCHANGED status \/ (status' = [status EXCEPT ![o] = "refunded"] /\ call[c].answer = "success")
      /\ call'[c].pc = "answered" /\ call[c].answer = "success"
           => status' = [status EXCEPT ![o] = "refunded"]
  BY <1>1, CallEndsType DEF UpdateRefundStatus, SetRefunded, orderVars, Over
<1>3. Admitted(c)'
  BY <1>1, <1>2 DEF Admitted
<1>4. /\ Of' = Of
      /\ Ends' = [Ends EXCEPT ![c] = IF call'[c].pc = "error" THEN "error" ELSE call[c].answer]
  BY <1>2, OneRequest
<1>5. /\ booked[c] = call[c].answer /\ booked[c] # "none" /\ refund[c] # "none"
      /\ booked[c] = "success" => refund[c] = "done"
  BY <1>1 DEF Stage
<1>6. CASE status' # status
  <2>1. status[o] = "paid" /\ status' = [status EXCEPT ![o] = "refunded"] /\ booked[c] = "success"
    BY <1>1, <1>2, <1>5, <1>6
  <2>2. Promise!Mark(c)
    BY <1>1, <1>4, <1>5, <2>1 DEF Promise!Mark, Promise!MayFail, Promise!Ends, Of, Ends
  <2>3. QED
    BY <1>3, <2>2 DEF Promise!Next
<1>7. CASE status' = status /\ call'[c].pc = "answered"
  <2>1. booked[c] = "success" => status[o] = "refunded"
    BY <1>1, <1>2, <1>5, <1>7
  <2>2. Promise!Answer(c)
    BY <1>1, <1>4, <1>5, <1>7, <2>1 DEF Promise!Answer, Promise!Ends, Of, Ends
  <2>3. QED
    BY <1>3, <2>2 DEF Promise!Next
<1>8. CASE status' = status /\ call'[c].pc = "error"
  <2>1. Ends' = [d \in Calls |-> IF d \in {c} THEN "error" ELSE Ends[d]]
    BY <1>4, <1>8 DEF Ends
  <2>2. Promise!Fail
    BY <1>1, <1>4, <1>8, <2>1 DEF Promise!Fail, Of, Ends
  <2>3. QED
    BY <1>3, <2>2 DEF Promise!Next
<1>9. QED
  BY <1>2, <1>6, <1>7, <1>8

\* The platform settles, and a callback marks an order that its request has left alone.
LEMMA CallbackPromised ==
  ASSUME PromiseInv, NEW c \in Calls, RefundWebhook(c)
  PROVE  Promise!Next \/ UNCHANGED Seen
<1> DEFINE o == call[c].order
<1>1. /\ Reported(c) /\ UNCHANGED <<call, refund, booked>>
      /\ UNCHANGED status \/ status' = [status EXCEPT ![o] = "refunded"]
  BY DEF RefundWebhook, UpdateOrderStatus, orderVars
<1>2. UNCHANGED <<Of, Ends>>
  BY <1>1 DEF Of, Ends, EndOf
<1>3. refund[c] \in {"done", "failed"} /\ call[c].pc \notin {"idle", "refused", "ask"}
  BY <1>1 DEF Reported, PromiseInv, IInv, Stages, Stage
<1>4. o \in Orders /\ status[o] \in {"paid", "refunded"}
  <2>1. call[c] \in Request
    BY <1>3, CallType DEF PromiseInv, IInv
  <2>2. QED
    BY <1>3, <2>1 DEF Request, PromiseInv, Admitted, IInv, TypeOK, OrderTypeOK, OrderStatuses
<1>5. CASE UNCHANGED status
  BY <1>1, <1>2, <1>5 DEF Seen
<1>6. CASE status' = [status EXCEPT ![o] = "refunded"] /\ status' # status
  <2>1. status[o] = "paid"
    BY <1>4, <1>6 DEF PromiseInv, IInv, TypeOK, OrderTypeOK
  <2>2. Of[c] = o
    BY DEF Of
  <2>3. Promise!Mark(c)
    BY <1>1, <1>2, <1>3, <1>4, <1>6, <2>1, <2>2 DEF Promise!Mark, Promise!MayFail, Of, Ends
  <2>4. QED
    BY <2>3 DEF Promise!Next
<1>7. QED
  BY <1>1, <1>5, <1>6

LEMMA CrashPromised ==
  ASSUME PromiseInv, CrashRestart
  PROVE  (\A c \in Calls : Admitted(c)') /\ Promise!Next
<1>1. /\ UNCHANGED <<status, refund, booked>>
      /\ call' = [c \in Calls |-> IF call[c].pc \in {"ask", "save", "mark"}
                                  THEN [call[c] EXCEPT !.pc = "error"] ELSE call[c]]
  BY DEF CrashRestart, orderVars
<1>2. ASSUME NEW c \in Calls
      PROVE  /\ call'[c].order = call[c].order
             /\ call[c].pc \in {"ask", "save", "mark"} => call'[c].pc = "error" /\ Promise!Open(c)
             /\ call[c].pc \notin {"ask", "save", "mark"} => call'[c] = call[c]
  BY <1>1, AtWork DEF PromiseInv, Request
<1>3. \A c \in Calls : Admitted(c)'
  BY <1>1, <1>2 DEF PromiseInv, Admitted
<1> DEFINE C == {c \in Calls : call[c].pc \in {"ask", "save", "mark"}}
<1>4. Of' = Of
  BY <1>2 DEF Of
<1>5. Ends' = [c \in Calls |-> IF c \in C THEN "error" ELSE Ends[c]]
  BY <1>2 DEF Ends, EndOf
<1>6. C \in SUBSET {c \in Calls : Promise!Open(c)}
  BY <1>2
<1> HIDE DEF C
<1>7. Promise!Fail
  BY <1>1, <1>4, <1>5, <1>6 DEF Promise!Fail, Of, Ends
<1>8. QED
  BY <1>3, <1>7 DEF Promise!Next

LEMMA NextPromised ==
  ASSUME PromiseInv, [Next]_vars
  PROVE  (\A c \in Calls : Admitted(c)') /\ (Promise!Next \/ UNCHANGED Seen)
<1>1. ASSUME NEW c \in Calls, OthersKept(c), Admitted(c)' PROVE \A d \in Calls : Admitted(d)'
  BY <1>1, OthersAdmitted DEF OthersKept
<1>2. ASSUME NEW c \in Calls, NEW o \in Orders, NEW asked \in AskedAmounts, Refund(c, o, asked)
      PROVE  (\A d \in Calls : Admitted(d)') /\ Promise!Next
  BY <1>1, <1>2, RefundPromised DEF Refund, OthersKept, PromiseInv, IInv, TypeOK
<1>3. ASSUME NEW c \in Calls, CallStep(c)
      PROVE  (\A d \in Calls : Admitted(d)') /\ Promise!Next
  <2>1. OthersKept(c)
    BY <1>3 DEF CallStep, AskPlatform, SaveRefundTransaction, UpdateRefundStatus, CallEnds,
       OthersKept, PromiseInv, IInv, TypeOK
  <2>2. QED
    BY <1>1, <1>3, <2>1, AskPlatformPromised, SavePromised, MarkPromised DEF CallStep
<1>4. CASE \/ \E o \in Orders : PaymentWebhook(o)
           \/ \E c \in Calls : PlatformSettles(c) \/ RefundWebhook(c)
           \/ UNCHANGED vars
  <2>1. UNCHANGED call /\ \A c \in Calls : refund'[c] = refund[c] \/ refund[c] = "processing"
    BY <1>4 DEF PaymentWebhook, PlatformSettles, RefundWebhook, vars, refundVars, PromiseInv, IInv, TypeOK
  <2>2. ASSUME NEW c \in Calls, call[c].pc \in {"save", "mark", "answered"}, call[c].answer = "failed"
        PROVE  refund'[c] = refund[c]
    BY <2>1, <2>2 DEF PromiseInv, Admitted
  <2>3. ASSUME NEW c \in Calls PROVE Admitted(c)'
    <3>1. call[c].pc \notin {"idle", "refused"} => call[c].order \in Orders
      <4>1. call[c] = NoCall \/ call[c] \in Request
        BY CallType DEF PromiseInv, IInv
      <4>2. QED
        BY <4>1 DEF NoCall, Request
    <3>2. QED
      BY <2>1, <2>2, <3>1, StaysPaid DEF PromiseInv, Admitted
  <2>4. UNCHANGED <<Of, Ends>>
    BY <2>1 DEF Of, Ends, EndOf
  <2>5. ASSUME NEW o \in Orders, PaymentWebhook(o) PROVE Promise!Next
    <3>1. Promise!Pay(o) \/ status[o] # "pending"
      BY <2>4, <2>5 DEF PaymentWebhook, UpdateOrderStatus, refundVars, Promise!Pay, Of, Ends
    <3>2. status[o] = "pending"
      BY <2>5 DEF PaymentWebhook, UpdateOrderStatus, CanUpdate
    <3>3. QED
      BY <3>1, <3>2 DEF Promise!Next
  <2>6. ASSUME NEW c \in Calls, PlatformSettles(c) PROVE Promise!Next
    <3>1. Promise!Settle(c)
      BY <2>4, <2>6 DEF PlatformSettles, orderVars, Promise!Settle, Of, Ends
    <3>2. QED
      BY <3>1 DEF Promise!Next
  <2>7. UNCHANGED vars => UNCHANGED Seen
    BY <2>4 DEF vars, orderVars, refundVars, Seen
  <2>8. QED
    BY <1>4, <2>3, <2>5, <2>6, <2>7, CallbackPromised
<1>5. QED
  BY <1>2, <1>3, <1>4, CrashPromised DEF Next

LEMMA AlwaysPromised == Spec => []PromiseInv
<1>1. Init => PromiseInv
  BY InitIInv DEF Init, NoCall, PromiseInv, Admitted
<1>2. PromiseInv /\ [Next]_vars => PromiseInv'
  BY NextIInv, NextPromised DEF PromiseInv
<1>3. QED
  BY <1>1, <1>2, PTL DEF Spec

\* Requests, platforms, callbacks, failing statements and crashes keep the promise
\* about refunds: the unconditional UPDATE of updateRefundStatus moves a paid order
\* only, and no request books twice, or after its caller has had an error.
THEOREM RefundsKeepPromise == Spec => PromiseKept
<1>1. Init => Promise!Init
  BY DEF Init, OrderInit, NoCall, EndOf, Promise!Init
<1>2. PromiseInv /\ [Next]_vars => Promise!Next \/ UNCHANGED Promise!vars
  <2>1. UNCHANGED Seen => UNCHANGED Promise!vars
    BY DEF Seen, Promise!vars, Of, Ends
  <2>2. QED
    BY <2>1, NextPromised
<1>3. QED
  BY <1>1, <1>2, AlwaysPromised, PTL DEF Spec, PromiseKept, Promise!Spec

=============================================================================
