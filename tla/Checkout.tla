------------------------------ MODULE Checkout ------------------------------
(***************************************************************************)
(* Creating an order and finding it again (internal/handler/checkout.go,   *)
(* CreateOrder and the lookups of internal/service/order_service.go,       *)
(* CreateOrder of the channel providers, and how the callbacks of          *)
(* internal/handler/webhook.go and webhook_stripe.go find an order).       *)
(*                                                                         *)
(* A request checks for an order of the same number, makes a trade at the  *)
(* platform and then inserts the row, without a lock or a transaction      *)
(* around the three.  WeChat and Alipay know a trade by the merchant's     *)
(* account and the business system's number, Stripe by the order number.   *)
(* order_no is random, and taken to be distinct: the request's own name.   *)
(*                                                                         *)
(* What the handler does to the row it has found is in WebhookHandler;     *)
(* here an event marks it paid, or fails to and is answered with success.  *)
(***************************************************************************)
EXTENDS ApiGuard, Sequences, FiniteSets

CONSTANTS
  AppOf,      \* app_id of a request
  Number,     \* out_trade_no
  Channel,    \* channel
  Extra,      \* the names of extra_data a request brings
  Account,    \* the merchant account of an app, at WeChat and Alipay alike
  WechatId,   \* app_id in an app's WeChat configuration, or Blank
  AlipayId,   \* app_id in an app's Alipay configuration
  Blank,      \* ""
  Served      \* the channels whose notify_url a server answers

Apps == DOMAIN Account

Wechat == {"wechat_native", "wechat_jsapi", "wechat_h5", "wechat_app"}
Alipay == {"alipay_qr", "alipay_wap", "alipay_app", "alipay_face"}

ASSUME RequestAssumption ==
  /\ AppOf \in [Requests -> Apps]
  /\ Channel \in [Requests -> Wechat \cup Alipay \cup {"stripe"}]
  /\ Number \in [Requests -> Nat]
\* An app is created with an id only.
ASSUME BlankAssumption == Blank \notin Apps
\* buildWebhookURL appends the channel's name, and main.go serves /webhook/wechat,
\* /webhook/alipay and /webhook/stripe: the other paths are mapped, if at all, by
\* a proxy in front of the server.
ASSUME ServedAssumption == "stripe" \in Served

VARIABLES
  call,   \* CreateOrder of a request
  rows,   \* the table orders in the order of created_at, as the requests' names
  trade,  \* the platforms' trades
  marked, \* the rows that a callback has marked paid
  acked,  \* the trades whose callback was answered with success
  lost    \* those of them that a failing statement kept from marking a row

bookVars == <<marked, acked, lost>>
checkoutVars == <<call, rows, trade, bookVars>>
vars == <<guardVars, checkoutVars>>

\* A trade as its platform knows it.
Trade(r) ==
  CASE Channel[r] = "stripe" -> <<"stripe", r>>
    [] Channel[r] \in Wechat -> <<"wechat", Account[AppOf[r]], Number[r]>>
    [] Channel[r] \in Alipay -> <<"alipay", Account[AppOf[r]], Number[r]>>

Trades == {Trade(r) : r \in Requests}

\* The requests that have made a trade at t, and the saved ones among them.
RequestsOf(t) == {r \in Requests : Trade(r) = t}
Saved == {rows[i] : i \in DOMAIN rows}

SameKey(r, s) == AppOf[r] = AppOf[s] /\ Number[r] = Number[s]

TypeOK ==
  /\ GuardTypeOK
  /\ call \in [Requests -> {"none", "ask", "save", "answered", "exists", "error"}]
  /\ rows \in Seq(Requests)
  /\ trade \in [Trades -> {"none", "open", "paid"}]
  /\ marked \subseteq Saved
  /\ acked \subseteq Trades
  /\ lost \subseteq acked

Init ==
  /\ GuardInit
  /\ call = [r \in Requests |-> "none"]
  /\ rows = <<>>
  /\ trade = [t \in Trades |-> "none"]
  /\ marked = {}
  /\ acked = {} /\ lost = {}

Goes(r, pc) == call' = [call EXCEPT ![r] = pc]

-----------------------------------------------------------------------------
(* CreateOrder of the providers: what becomes of the trade, and whether    *)
(* CreateOrder of the service goes on.                                     *)

Refused == [trade |-> "none", goes |-> "error"]

\* The platform opens the trade; its answer may be lost.
Prepaid == {Refused, [trade |-> "open", goes |-> "save"], [trade |-> "open", goes |-> "error"]}

\* The credential is only signed here: the trade opens when the buyer uses it.
Signed == {Refused, [trade |-> "none", goes |-> "save"]}

HasWechatId(r) == WechatId[AppOf[r]] # Blank \/ "app_id" \in Extra[r]

WechatNative(r) == Prepaid

WechatJSAPI(r) == IF HasWechatId(r) /\ "openid" \in Extra[r] THEN Prepaid ELSE {Refused}

WechatH5(r) == IF HasWechatId(r) THEN Prepaid ELSE {Refused}

WechatApp(r) == IF HasWechatId(r) THEN Prepaid ELSE {Refused}

AlipayQR(r) == Prepaid

AlipayWap(r) == Signed

AlipayApp(r) == Signed

\* The buyer's code is charged at once; or she is asked for her password, which is
\* an error to CreateOrder while the trade stays open; or the answer is lost.
AlipayFace(r) ==
  IF "auth_code" \in Extra[r]
  THEN {Refused, [trade |-> "paid", goes |-> "save"],
        [trade |-> "open", goes |-> "error"], [trade |-> "paid", goes |-> "error"]}
  ELSE {Refused}

StripeSession(r) == Prepaid

ProviderCreateOrder(r) ==
  CASE Channel[r] = "wechat_native" -> WechatNative(r)
    [] Channel[r] = "wechat_jsapi" -> WechatJSAPI(r)
    [] Channel[r] = "wechat_h5" -> WechatH5(r)
    [] Channel[r] = "wechat_app" -> WechatApp(r)
    [] Channel[r] = "alipay_qr" -> AlipayQR(r)
    [] Channel[r] = "alipay_wap" -> AlipayWap(r)
    [] Channel[r] = "alipay_app" -> AlipayApp(r)
    [] Channel[r] = "alipay_face" -> AlipayFace(r)
    [] Channel[r] = "stripe" -> StripeSession(r)

-----------------------------------------------------------------------------
(* CreateOrder of the service.                                             *)

\* getApp and getOrderByOutTradeNo.
CheckExists(r) ==
  /\ gate[r] = "open" /\ call[r] = "none"
  /\ \/ (\E s \in Saved : SameKey(r, s)) /\ Goes(r, "exists")
     \/ (\A s \in Saved : ~SameKey(r, s)) /\ Goes(r, "ask")
     \/ Goes(r, "error")
  /\ UNCHANGED <<guardVars, rows, trade, bookVars>>

\* GetProvider and CreateOrder of the provider.  The platforms refuse a trade that
\* is paid.
AskPlatform(r) ==
  /\ call[r] = "ask"
  /\ \E outcome \in ProviderCreateOrder(r) :
       /\ outcome.trade # "none" => trade[Trade(r)] # "paid"
       /\ Goes(r, outcome.goes)
       /\ trade' = IF outcome.trade = "none" THEN trade
                   ELSE [trade EXCEPT ![Trade(r)] = outcome.trade]
  /\ UNCHANGED <<guardVars, rows, bookVars>>

\* Mutant: without the unique index of (app_id, out_trade_no).
SavesTwice(r) ==
  /\ call[r] = "save"
  /\ \/ Goes(r, "answered") /\ rows' = Append(rows, r)
     \/ Goes(r, "error") /\ UNCHANGED rows
  /\ UNCHANGED <<guardVars, trade, bookVars>>

\* Mutant: a failing INSERT is logged and the credential is handed out.
AnswersAnyway(r) ==
  /\ call[r] = "save"
  /\ Goes(r, "answered")
  /\ \/ (\A s \in Saved : ~SameKey(r, s)) /\ rows' = Append(rows, r)
     \/ UNCHANGED rows
  /\ UNCHANGED <<guardVars, trade, bookVars>>

\* saveOrder: the INSERT, which the unique index may refuse; or it fails, before or
\* after its commit.
SaveOrder(r) ==
  /\ call[r] = "save"
  /\ LET unique == \A s \in Saved : ~SameKey(r, s)
     IN  \/ unique /\ Goes(r, "answered") /\ rows' = Append(rows, r)
         \/ ~unique /\ Goes(r, "exists") /\ UNCHANGED rows
         \/ unique /\ Goes(r, "error") /\ rows' = Append(rows, r)
         \/ Goes(r, "error") /\ UNCHANGED rows
  /\ UNCHANGED <<guardVars, trade, bookVars>>

Crash ==
  /\ GuardCrash
  /\ call' = [r \in Requests |-> IF call[r] \in {"ask", "save"} THEN "error" ELSE call[r]]
  /\ <<seen, gate, call>>' # <<seen, gate, call>>
  /\ UNCHANGED <<rows, trade, bookVars>>

-----------------------------------------------------------------------------
(* The buyer pays with a credential that was handed out, or answers the    *)
(* question for her password.                                              *)

BuyerPays(t) ==
  /\ trade[t] # "paid"
  /\ \E r \in RequestsOf(t) :
       \/ call[r] = "answered"
       \/ call[r] = "error" /\ Channel[r] = "alipay_face" /\ trade[t] = "open"
  /\ trade' = [trade EXCEPT ![t] = "paid"]
  /\ UNCHANGED <<guardVars, call, rows, bookVars>>

-----------------------------------------------------------------------------
(* A callback finds its order.                                             *)

\* Mutant: the app is left out of the query.
ByNumberOnly(app, number) == {r \in Saved : Number[r] = number}

\* Mutant: an order is taken as created as soon as it has been asked for.
ByAnyRequest(app, number) == {r \in Requests : AppOf[r] = app /\ Number[r] = number}

\* QueryOrderByOutTradeNo: of the app with this id.
ByAppAndNumber(app, number) == {r \in Saved : AppOf[r] = app /\ Number[r] = number}

\* QueryOrderByOutTradeNoGlobal: the newest of any app.
ByNumber(number) ==
  {rows[i] : i \in {j \in DOMAIN rows :
     /\ Number[rows[j]] = number
     /\ \A k \in DOMAIN rows : Number[rows[k]] = number => k <= j}}

\* The trade's account and number, for WeChat and Alipay, and the apps that have
\* configured the account.
AccountOf(t) == t[2]
NumberOf(t) == t[3]
Owners(t) == {a \in Apps : Account[a] = AccountOf(t)}

\* resolveWechatWebhook: the body is encrypted, so every WeChat provider is tried.
\* One that can decrypt it names an app by the platform's id, or none.
WechatFinds(t) ==
  UNION {IF WechatId[a] = Blank THEN ByNumber(NumberOf(t))
         ELSE ByAppAndNumber(WechatId[a], NumberOf(t)) :
           a \in Owners(t)}

\* AlipayWebhook: the body names the platform's app id; then the provider of the
\* order found must verify it.
AlipayFinds(t) ==
  {r \in UNION {ByAppAndNumber(AlipayId[a], NumberOf(t)) : a \in Owners(t)} :
     Channel[r] \in Alipay /\ Account[AppOf[r]] = AccountOf(t)}

\* StripeWebhook: metadata.order_id.
StripeFinds(t) == RequestsOf(t) \cap Saved

Finds(t) ==
  CASE t[1] = "stripe" -> StripeFinds(t)
    [] t[1] = "wechat" -> WechatFinds(t)
    [] t[1] = "alipay" -> AlipayFinds(t)

\* Mutant: a callback whose order is not found is answered with success.
AcksUnknown(t) ==
  /\ trade[t] = "paid" /\ t \notin acked
  /\ \E r \in RequestsOf(t) : Channel[r] \in Served
  /\ \/ \E r \in Finds(t) : marked' = marked \cup {r}
     \/ Finds(t) = {} /\ UNCHANGED marked
  /\ acked' = acked \cup {t}
  /\ UNCHANGED <<guardVars, call, rows, trade, lost>>

\* UpdateOrderStatus marks the row that was found.
Marks(t) ==
  /\ \E r \in Finds(t) : marked' = marked \cup {r}
  /\ UNCHANGED lost

\* UpdateOrderStatus fails, or StripeWebhook does not get its order from the query:
\* the failure is logged and the event answered with success.
Swallows(t) ==
  /\ Finds(t) # {} \/ t[1] = "stripe"
  /\ lost' = lost \cup {t}
  /\ UNCHANGED marked

\* The platform's event arrives; WeChat's and Alipay's that finds no order is a
\* failure, and is sent again.
Callback(t) ==
  /\ trade[t] = "paid" /\ t \notin acked
  /\ \E r \in RequestsOf(t) : Channel[r] \in Served
  /\ Marks(t) \/ Swallows(t)
  /\ acked' = acked \cup {t}
  /\ UNCHANGED <<guardVars, call, rows, trade>>

GuardStep(r) == CheckTimestamp(r) \/ CheckReplay(r)

CallStep(r) == CheckExists(r) \/ AskPlatform(r) \/ SaveOrder(r)

Next ==
  \/ (Tick \/ CleanupExpired) /\ UNCHANGED checkoutVars
  \/ \E r \in Requests : GuardStep(r) /\ UNCHANGED checkoutVars
  \/ \E r \in Requests : CallStep(r)
  \/ Crash
  \/ \E t \in Trades : BuyerPays(t)
  \/ \E t \in Trades : Callback(t)

Spec == Init /\ [][Next]_vars

\* A platform sends an event again until it is answered with success.
FairSpec == Spec /\ \A t \in Trades : WF_vars(Callback(t))

-----------------------------------------------------------------------------
(* Properties.                                                             *)

\* However requests interleave, an app has one row for a number (CreateOrder checks
\* first and inserts last, and only the index stands between two requests).
OneRowPerNumber ==
  \A i, j \in DOMAIN rows : SameKey(rows[i], rows[j]) => i = j

\* A buyer who has been charged has a row, whatever failed on the way; except that
\* alipay_face charges before the INSERT, so its request may be left without one.
ChargedHasRow ==
  \A t \in Trades : trade[t] = "paid" =>
    \/ RequestsOf(t) \cap Saved # {}
    \/ \E r \in RequestsOf(t) :
         Channel[r] = "alipay_face" /\ call[r] \in {"save", "exists", "error"}

\* One app has the account, and its WeChat configuration names it.
Attributable(t) == \A a, b \in Owners(t) : a = b /\ WechatId[a] = a

\* A WeChat event that may be booked on a row of another trade: of the same number, and
\* of the app that a configuration of the account names, or of any if one names none.
Mistakable(t, r) ==
  /\ t[1] = "wechat" /\ NumberOf(t) = Number[r] /\ ~Attributable(t)
  /\ \E a \in Owners(t) : WechatId[a] \in {Blank, AppOf[r]}

\* Alipay's and Stripe's events mark the row of their own trade, though several apps
\* use one number and one account.  WeChat's do when one app has the account and is
\* called so there; otherwise they may mark a mistakable row (PaidByItsOwn).
RightRowMarked ==
  \A r \in marked :
    \/ trade[Trade(r)] = "paid"
    \/ \E t \in Trades : trade[t] = "paid" /\ Mistakable(t, r)

\* "One merchant account serves several business systems", isolated from each other
\* (README.md:40): no row is marked paid before its own trade is.
PaidByItsOwn == \A r \in marked : trade[Trade(r)] = "paid"

\* The lookup can succeed: the channel's callback is served, and the app is called what
\* its platform calls it (the Alipay guide's configuration is not: its event finds no
\* row for ever).
Reachable(r) ==
  /\ Channel[r] \in Served
  /\ Channel[r] \in Wechat => Attributable(Trade(r))
  /\ Channel[r] \in Alipay => AlipayId[AppOf[r]] = AppOf[r]

\* A payment reaches the row of its order, though the row may be inserted after the
\* payment and its first callbacks, unless its event was swallowed: time and again none
\* is waiting.
PaymentFound ==
  []<>(\A r \in Requests :
         trade[Trade(r)] = "paid" /\ r \in Saved /\ Reachable(r) =>
           r \in marked \/ Trade(r) \in lost)

-----------------------------------------------------------------------------
(* The promise about orders, over this system's state.                     *)

\* How a request has ended for its caller.
EndOf(r) == IF call[r] \in {"answered", "exists", "error"} THEN call[r] ELSE "none"

\* The orders that an event of a trade may be booked on.
Booked(t) == RequestsOf(t) \cup {r \in Requests : Mistakable(t, r)}

Promise == INSTANCE CheckoutPromise WITH
  KeyOf <- [r \in Requests |-> <<AppOf[r], Number[r]>>],
  TradeOf <- [r \in Requests |-> Trade(r)],
  ByCode <- {r \in Requests : Channel[r] = "alipay_face"},
  Candidates <- [t \in Trades |-> Booked(t)],
  Unrepeated <- {t \in Trades : t[1] = "stripe"},
  orders <- Saved,
  end <- [r \in Requests |-> EndOf(r)],
  charged <- {t \in Trades : trade[t] = "paid"},
  paid <- marked,
  settled <- acked

\* A check, a call to a platform and an INSERT without a lock around them, cut off
\* anywhere, look like one creation of an order to its business system, to the buyer
\* and to the callback.
PromiseKept == Promise!Spec

=============================================================================
