-------------------------- MODULE MCSharedAccount --------------------------
(* Values for the constants of Checkout: two business systems with one     *)
(* merchant account, as README.md describes GoPay's use.                   *)
EXTENDS Checkout, TLC

CONSTANTS r1, r2

\* Each app counts its orders from one, and has a configuration of its own that names
\* it; the shop's buyer pays by WeChat, the cafe's by Stripe.
MCAppOf == r1 :> "shop" @@ r2 :> "cafe"
MCStamp == [r \in Requests |-> 0]
MCNonceOf == r1 :> 1 @@ r2 :> 2
MCChannel == r1 :> "wechat_jsapi" @@ r2 :> "stripe"
MCNumber == [r \in Requests |-> 1]
MCExtra == [r \in Requests |-> {"openid"}]
MCAccount == [a \in {"shop", "cafe"} |-> "account"]
OwnId == [a \in {"shop", "cafe"} |-> a]
=============================================================================
