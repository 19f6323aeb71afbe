---------------------------- MODULE MCPaymentFlow ---------------------------
(* Values for the constants of PaymentFlow.                                *)
EXTENDS PaymentFlow, TLC

CONSTANTS w1, w2, m1, h1, h2, app

MCAppOf  == [o \in Orders |-> app]
MCAlipay == [o \in Orders |-> "alipay"]
MCStripe == [o \in Orders |-> "stripe"]
MCWechat == [o \in Orders |-> "wechat"]

\* The tokens of the pool, and the requests, differ in nothing but their names.
Interchangeable == Permutations(PoolSlots) \cup Permutations(Handlers)
=============================================================================
