--------------------------- MODULE MCRefundService --------------------------
(* Values for the constants of RefundService.                              *)
EXTENDS RefundService, TLC

CONSTANTS c1, c2

\* One order at each platform.
MCChannelOf == 1 :> "wechat" @@ 2 :> "alipay" @@ 3 :> "stripe"

MCStripe == [o \in Orders |-> "stripe"]

\* Two parts, which a request may ask for one by one.
MCAmount == [o \in Orders |-> 2]
=============================================================================
