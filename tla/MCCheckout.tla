----------------------------- MODULE MCCheckout -----------------------------
(* Values for the constants of Checkout.                                   *)
EXTENDS Checkout, TLC

CONSTANTS r1, r2, r3, r4

\* r1 and r2 deliver one message, of an app called what its platforms call it; r3
\* comes from an app without a WeChat id, and r4 asks for a payment by code.  All
\* use one number.
MCAppOf == r1 :> "shop" @@ r2 :> "shop" @@ r3 :> "cafe" @@ r4 :> "shop"
MCNonceOf == r1 :> 1 @@ r2 :> 1 @@ r3 :> 2 @@ r4 :> 2
MCStamp == r1 :> 0 @@ r2 :> 0 @@ r3 :> 3 @@ r4 :> -1
MCChannel == r1 :> "wechat_jsapi" @@ r2 :> "wechat_jsapi" @@ r3 :> "wechat_native" @@ r4 :> "alipay_face"
MCNumber == [r \in Requests |-> 1]
MCExtra == [r \in Requests |-> {"openid", "auth_code"}]
MCAccount == "shop" :> "account1" @@ "cafe" :> "account2"
MCWechatId == "shop" :> "shop" @@ "cafe" :> Blank
MCAlipayId == "shop" :> "shop" @@ "cafe" :> "cafe"
=============================================================================
