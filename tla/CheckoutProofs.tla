---------------------------- MODULE CheckoutProofs ----------------------------
(***************************************************************************)
(* Checkout for any requests, apps, accounts and window: its type          *)
(* invariant, the rows and the trades, the nonces, and the promise.        *)
(***************************************************************************)
EXTENDS Checkout, TLAPS

\* A nonce that was let through is remembered, or forgotten late enough, and a
\* request between its two checks had a timestamp that was fresh.
NonceInv ==
  /\ \A n \in Nonces : used[n] # Never =>
       /\ used[n] <= clock
       /\ seen[n] = used[n] \/ (seen[n] = Never /\ clock - used[n] > Window)
  /\ \A r \in Requests : gate[r] = "timed" =>
       /\ timed[r] # Never /\ timed[r] <= clock
       /\ timed[r] - Stamp[r] <= Window

\* A credential is handed out for a saved row only.
AnsweredSaved == \A r \in Requests : call[r] = "answered" => r \in Saved

\* What is left of a trade that was charged before its row was saved.
Unsaved(t) ==
  \E r \in RequestsOf(t) :
    Channel[r] = "alipay_face" /\ call[r] \in {"save", "exists", "error"}

IInv ==
  TypeOK /\ NonceInv /\ OneRowPerNumber /\ AnsweredSaved /\ ChargedHasRow /\ RightRowMarked

-----------------------------------------------------------------------------
(* The guard.                                                              *)

LEMMA GuardTypeInit == GuardInit => GuardTypeOK
BY NonceAssumption DEF GuardInit, GuardTypeOK, Never

\* The state of the guard keeps its type.
LEMMA GuardTypeStep ==
  ASSUME GuardTypeOK,
         \/ Tick \/ CleanupExpired \/ GuardCrash \/ UNCHANGED guardVars
         \/ \E r \in Requests : GuardStep(r)
  PROVE  GuardTypeOK'
<1> USE DEF GuardTypeOK
<1>1. CASE Tick
  BY <1>1 DEF Tick
<1>2. CASE CleanupExpired
  BY <1>2 DEF CleanupExpired
<1>3. CASE GuardCrash
  BY <1>3 DEF GuardCrash
<1>4. CASE UNCHANGED guardVars
  BY <1>4 DEF guardVars
<1>5. ASSUME NEW r \in Requests, GuardStep(r) PROVE GuardTypeOK'
  <2>1. CASE CheckTimestamp(r)
    BY <2>1 DEF CheckTimestamp
  <2>2. CASE CheckReplay(r)
    BY <2>2, NonceAssumption DEF CheckReplay, CheckNonce
  <2>3. QED
    BY <1>5, <2>1, <2>2 DEF GuardStep
<1>6. QED
  BY <1>1, <1>2, <1>3, <1>4, <1>5

LEMMA NonceInvInit == GuardInit => NonceInv
BY DEF GuardInit, NonceInv

\* The memory of nonces, one step on.
LEMMA NonceInvStep ==
  ASSUME GuardTypeOK, NonceInv,
         \/ Tick \/ CleanupExpired \/ GuardCrash \/ UNCHANGED guardVars
         \/ \E r \in Requests : GuardStep(r)
  PROVE  NonceInv'
<1> USE WindowAssumption, StampAssumption, NonceAssumption DEF GuardTypeOK, NonceInv, Never
<1>1. CASE Tick
  BY <1>1 DEF Tick
<1>2. CASE CleanupExpired
  BY <1>2 DEF CleanupExpired, Expired
<1>3. CASE GuardCrash
  BY <1>3 DEF GuardCrash
<1>4. CASE UNCHANGED guardVars
  BY <1>4 DEF guardVars
<1>5. ASSUME NEW r \in Requests, GuardStep(r) PROVE NonceInv'
  <2>1. CASE CheckTimestamp(r)
    BY <2>1 DEF CheckTimestamp, Fresh
  <2>2. CASE CheckReplay(r)
    BY <2>2 DEF CheckReplay, CheckNonce
  <2>3. QED
    BY <1>5, <2>1, <2>2 DEF GuardStep
<1>6. QED
  BY <1>1, <1>2, <1>3, <1>4, <1>5

\* What a step does to the guard and to the rest.
LEMMA GuardSteps ==
  ASSUME [Next]_vars
  PROVE  \/ Tick \/ CleanupExpired \/ GuardCrash \/ UNCHANGED guardVars
         \/ \E r \in Requests : GuardStep(r)
BY DEF Next, vars, CallStep, CheckExists, AskPlatform, SaveOrder, Crash, BuyerPays, Callback

-----------------------------------------------------------------------------
(* The rows.                                                               *)

\* What an INSERT adds.
LEMMA SavedAppend ==
  ASSUME TypeOK, NEW r \in Requests, rows' = Append(rows, r)
  PROVE  /\ rows' \in Seq(Requests)
         /\ Saved' = Saved \cup {r}
         /\ \A i \in DOMAIN rows' : \/ i \in DOMAIN rows /\ rows'[i] = rows[i]
                                    \/ i = Len(rows) + 1 /\ rows'[i] = r
<1> USE DEF TypeOK
<1>1. rows \in Seq(Requests) /\ rows' \in Seq(Requests)
  OBVIOUS
<1>2. DOMAIN rows' = 1..(Len(rows) + 1) /\ DOMAIN rows = 1..Len(rows) /\ Len(rows) \in Nat
  BY <1>1
<1>3. /\ \A i \in DOMAIN rows : rows'[i] = rows[i]
      /\ rows'[Len(rows) + 1] = r
  BY <1>1
<1>4. Saved' = Saved \cup {r}
  BY <1>2, <1>3 DEF Saved
<1>5. QED
  BY <1>1, <1>2, <1>3, <1>4

\* A row is only added when there is none of its app and number.
LEMMA UniqueStep ==
  ASSUME IInv, [Next]_vars
  PROVE  /\ OneRowPerNumber'
         /\ \/ rows' = rows
            \/ \E r \in Requests : call[r] = "save" /\ rows' = Append(rows, r)
<1>1. \/ rows' = rows
      \/ \E r \in Requests : /\ call[r] = "save" /\ rows' = Append(rows, r)
                             /\ \A s \in Saved : ~SameKey(r, s)
  BY DEF Next, vars, checkoutVars, bookVars, CallStep, CheckExists, AskPlatform, SaveOrder, Crash,
         BuyerPays, Callback
<1>2. CASE rows' = rows
  BY <1>2 DEF IInv, OneRowPerNumber, SameKey
<1>3. ASSUME NEW r \in Requests, rows' = Append(rows, r), \A s \in Saved : ~SameKey(r, s)
      PROVE  OneRowPerNumber'
  <2>1. \A i \in DOMAIN rows' : \/ i \in DOMAIN rows /\ rows'[i] = rows[i]
                                \/ i = Len(rows) + 1 /\ rows'[i] = r
    BY <1>3, SavedAppend DEF IInv
  <2>2. \A i \in DOMAIN rows : ~SameKey(r, rows[i]) /\ ~SameKey(rows[i], r)
    BY <1>3 DEF Saved, SameKey
  <2>3. QED
    BY <2>1, <2>2 DEF OneRowPerNumber, IInv, SameKey
<1>4. QED
  BY <1>1, <1>2, <1>3

-----------------------------------------------------------------------------
(* The trades.                                                             *)

\* Only a payment by code is charged while it is made.
LEMMA OnlyFaceCharges ==
  ASSUME NEW r \in Requests, NEW outcome \in ProviderCreateOrder(r)
  PROVE  /\ outcome.trade \in {"none", "open", "paid"}
         /\ outcome.goes \in {"save", "error"}
         /\ outcome.trade = "paid" => Channel[r] = "alipay_face"
<1> USE DEF Refused, Prepaid, Signed
<1>1. Channel[r] \in {"wechat_native", "wechat_jsapi", "wechat_h5", "wechat_app",
                      "alipay_qr", "alipay_wap", "alipay_app", "alipay_face", "stripe"}
  BY RequestAssumption DEF Wechat, Alipay
<1>2. CASE Channel[r] \in {"wechat_native", "wechat_jsapi", "wechat_h5", "wechat_app"}
  BY <1>2 DEF ProviderCreateOrder, WechatNative, WechatJSAPI, WechatH5, WechatApp
<1>3. CASE Channel[r] \in {"alipay_qr", "alipay_wap", "alipay_app", "stripe"}
  BY <1>3 DEF ProviderCreateOrder, AlipayQR, AlipayWap, AlipayApp, StripeSession
<1>4. CASE Channel[r] = "alipay_face"
  BY <1>4 DEF ProviderCreateOrder, AlipayFace
<1>5. QED
  BY <1>1, <1>2, <1>3, <1>4

\* A saved row stays.
LEMMA SavedStays ==
  ASSUME IInv, [Next]_vars
  PROVE  /\ Saved \subseteq Saved' /\ Saved' \subseteq Requests
         /\ rows' \in Seq(Requests)
<1>1. CASE rows' = rows
  BY <1>1 DEF Saved, IInv, TypeOK
<1>2. ASSUME NEW r \in Requests, rows' = Append(rows, r)
      PROVE  /\ Saved \subseteq Saved' /\ Saved' \subseteq Requests
             /\ rows' \in Seq(Requests)
  <2>1. Saved \subseteq Requests
    BY DEF Saved, IInv, TypeOK
  <2>2. QED
    BY <1>2, <2>1, SavedAppend DEF IInv
<1>3. QED
  BY <1>1, <1>2, UniqueStep

\* A request that has been answered or has failed stays so, and nobody is answered
\* whose row is not saved.
LEMMA CallStepFacts ==
  ASSUME IInv, [Next]_vars, NEW r \in Requests
  PROVE  /\ call'[r] = "answered" => call[r] = "answered" \/ r \in Saved'
         /\ call[r] \in {"answered", "exists", "error"} => call'[r] = call[r]
         /\ call[r] = "save" => call'[r] \in {"save", "exists", "error", "answered"}
<1> USE DEF IInv, TypeOK
<1>1. ASSUME NEW s \in Requests, CheckExists(s) \/ AskPlatform(s)
      PROVE  /\ call'[r] = "answered" => call[r] = "answered"
             /\ call[r] \in {"answered", "exists", "error", "save"} => call'[r] = call[r]
  <2>1. CASE CheckExists(s)
    BY <2>1 DEF CheckExists, Goes
  <2>2. CASE AskPlatform(s)
    <3>1. PICK outcome \in ProviderCreateOrder(s) : Goes(s, outcome.goes)
      BY <2>2 DEF AskPlatform
    <3>2. outcome.goes \in {"save", "error"} /\ call[s] = "ask"
      BY <2>2, <3>1, OnlyFaceCharges DEF AskPlatform
    <3>3. QED
      BY <3>1, <3>2 DEF Goes
  <2>3. QED
    BY <1>1, <2>1, <2>2
<1>2. ASSUME NEW s \in Requests, SaveOrder(s)
      PROVE  /\ call'[r] = "answered" => call[r] = "answered" \/ r \in Saved'
             /\ call[r] \in {"answered", "exists", "error"} => call'[r] = call[r]
             /\ call[r] = "save" => call'[r] \in {"save", "exists", "error", "answered"}
  <2>1. call[s] = "save"
    BY <1>2 DEF SaveOrder
  <2>2. \/ Goes(s, "answered") /\ rows' = Append(rows, s)
        \/ Goes(s, "exists") \/ Goes(s, "error")
    BY <1>2 DEF SaveOrder
  <2>3. rows' = Append(rows, s) => s \in Saved'
    BY SavedAppend
  <2>4. QED
    BY <2>1, <2>2, <2>3 DEF Goes
<1>3. CASE Crash
  BY <1>3 DEF Crash
<1>4. CASE call' = call
  BY <1>4
<1>5. QED
  BY <1>1, <1>2, <1>3, <1>4 DEF Next, vars, checkoutVars, bookVars, CallStep, BuyerPays, Callback

\* A trade is paid by a buyer with a credential, by a buyer who was asked for her
\* password, or by a code.
LEMMA TradeStep ==
  ASSUME IInv, [Next]_vars, NEW t \in Trades
  PROVE  /\ trade'[t] \in {"none", "open", "paid"}
         /\ trade[t] = "paid" => trade'[t] = "paid"
         /\ trade'[t] = "paid" =>
              \/ trade[t] = "paid"
              \/ \E r \in RequestsOf(t) : r \in Saved' \/ (Channel[r] = "alipay_face" /\ call'[r] \in {"save", "error"})
<1> USE DEF IInv, TypeOK
<1>0. trade[t] \in {"none", "open", "paid"}
  OBVIOUS
<1>1. ASSUME NEW r \in Requests, AskPlatform(r)
      PROVE  /\ trade'[t] \in {"none", "open", "paid"}
             /\ trade[t] = "paid" => trade'[t] = "paid"
             /\ trade'[t] = "paid" /\ trade[t] # "paid" =>
                  r \in RequestsOf(t) /\ Channel[r] = "alipay_face" /\ call'[r] \in {"save", "error"}
  <2>1. PICK outcome \in ProviderCreateOrder(r) :
          /\ outcome.trade # "none" => trade[Trade(r)] # "paid"
          /\ Goes(r, outcome.goes)
          /\ trade' = IF outcome.trade = "none" THEN trade
                      ELSE [trade EXCEPT ![Trade(r)] = outcome.trade]
    BY <1>1 DEF AskPlatform
  <2>2. /\ outcome.trade \in {"none", "open", "paid"} /\ outcome.goes \in {"save", "error"}
        /\ outcome.trade = "paid" => Channel[r] = "alipay_face"
    BY <2>1, OnlyFaceCharges
  <2>3. call'[r] = outcome.goes
    BY <2>1 DEF Goes
  <2>4. CASE t = Trade(r)
    BY <2>1, <2>2, <2>3, <2>4, <1>0 DEF RequestsOf
  <2>5. CASE t # Trade(r)
    BY <2>1, <2>5, <1>0
  <2>6. QED
    BY <2>4, <2>5
<1>2. ASSUME NEW u \in Trades, BuyerPays(u)
      PROVE  /\ trade'[t] \in {"none", "open", "paid"}
             /\ trade[t] = "paid" => trade'[t] = "paid"
             /\ trade'[t] = "paid" /\ trade[t] # "paid" =>
                  \E r \in RequestsOf(t) : r \in Saved' \/ (Channel[r] = "alipay_face" /\ call'[r] = "error")
  <2>1. trade' = [trade EXCEPT ![u] = "paid"] /\ rows' = rows /\ call' = call
    BY <1>2 DEF BuyerPays
  <2>2. \E r \in RequestsOf(u) :
          call[r] = "answered" \/ (call[r] = "error" /\ Channel[r] = "alipay_face")
    BY <1>2 DEF BuyerPays
  <2>3. \E r \in RequestsOf(u) :
          r \in Saved' \/ (call'[r] = "error" /\ Channel[r] = "alipay_face")
    BY <2>1, <2>2 DEF AnsweredSaved, Saved, RequestsOf
  <2>4. CASE t = u
    BY <2>1, <2>3, <2>4
  <2>5. CASE t # u
    BY <2>1, <2>5, <1>0
  <2>6. QED
    BY <2>4, <2>5
<1>3. CASE trade' = trade
  BY <1>0, <1>3
<1>4. trade' = trade \/ (\E r \in Requests : AskPlatform(r)) \/ (\E u \in Trades : BuyerPays(u))
  BY DEF Next, vars, checkoutVars, bookVars, CallStep, CheckExists, SaveOrder, Crash, Callback
<1>5. QED
  BY <1>1, <1>2, <1>3, <1>4, <1>0 DEF RequestsOf

\* Whoever is charged has a row, or has paid by a code.
LEMMA ChargedStep ==
  ASSUME IInv, [Next]_vars
  PROVE  AnsweredSaved' /\ ChargedHasRow'
<1>1. AnsweredSaved'
  BY CallStepFacts, SavedStays DEF AnsweredSaved, IInv
<1>2. ASSUME NEW t \in Trades, trade'[t] = "paid"
      PROVE  RequestsOf(t) \cap Saved' # {} \/ Unsaved(t)'
  <2>1. CASE trade[t] = "paid"
    <3>1. CASE RequestsOf(t) \cap Saved # {}
      BY <3>1, SavedStays
    <3>2. ASSUME NEW r \in RequestsOf(t), Channel[r] = "alipay_face",
                 call[r] \in {"save", "exists", "error"}
          PROVE  r \in Saved' \/ call'[r] \in {"save", "exists", "error"}
      <4>1. r \in Requests
        BY DEF RequestsOf
      <4>2. QED
        BY <3>2, <4>1, CallStepFacts
    <3>3. QED
      BY <2>1, <3>1, <3>2 DEF IInv, ChargedHasRow, Unsaved
  <2>2. CASE trade[t] # "paid"
    BY <1>2, <2>2, TradeStep DEF Unsaved
  <2>3. QED
    BY <2>1, <2>2
<1>3. QED
  BY <1>1, <1>2 DEF ChargedHasRow, Unsaved

-----------------------------------------------------------------------------
(* The callbacks.                                                          *)

\* What a trade is called at its platform.
LEMMA TradeForm ==
  ASSUME NEW r \in Requests
  PROVE  /\ Channel[r] \in Wechat \cup Alipay \cup {"stripe"}
         /\ Channel[r] = "stripe" => Trade(r) = <<"stripe", r>>
         /\ Channel[r] \in Wechat => Trade(r) = <<"wechat", Account[AppOf[r]], Number[r]>>
         /\ Channel[r] \in Alipay => Trade(r) = <<"alipay", Account[AppOf[r]], Number[r]>>
BY RequestAssumption DEF Trade, Wechat, Alipay

\* A callback finds saved rows.
LEMMA FindsSaved ==
  ASSUME TypeOK, NEW t \in Trades
  PROVE  Finds(t) \subseteq Saved
<1>1. \A number : ByNumber(number) \subseteq Saved
  BY DEF ByNumber, Saved
<1>2. \A app, number : ByAppAndNumber(app, number) \subseteq Saved
  BY DEF ByAppAndNumber
<1>3. WechatFinds(t) \subseteq Saved
  BY <1>1, <1>2 DEF WechatFinds
<1>4. AlipayFinds(t) \subseteq Saved
  BY <1>2 DEF AlipayFinds
<1>5. StripeFinds(t) \subseteq Saved
  BY DEF StripeFinds
<1>6. t[1] \in {"stripe", "wechat", "alipay"}
  BY TradeForm DEF Trades
<1>7. QED
  BY <1>3, <1>4, <1>5, <1>6 DEF Finds

\* The row that a callback finds is the one of its trade, but for WeChat's where the
\* account does not tell the app.
LEMMA FindsRight ==
  ASSUME IInv, NEW t \in Trades, trade[t] = "paid", NEW r \in Finds(t)
  PROVE  \/ Trade(r) = t
         \/ Mistakable(t, r)
<1>0. r \in Saved /\ r \in Requests
  BY FindsSaved DEF IInv, TypeOK, Saved
<1>1. PICK s \in Requests : t = Trade(s)
  BY DEF Trades
<1>2. Channel[s] \in Wechat \cup Alipay \cup {"stripe"} /\ AppOf[s] \in Apps
  BY RequestAssumption
<1>3. CASE Channel[s] = "stripe"
  <2>1. t = <<"stripe", s>>
    BY <1>1, <1>3, TradeForm
  <2>2. r \in RequestsOf(t)
    BY <2>1 DEF Finds, StripeFinds
  <2>3. QED
    BY <2>2 DEF RequestsOf
<1>4. CASE Channel[s] \in Alipay
  <2>1. t = <<"alipay", Account[AppOf[s]], Number[s]>>
    BY <1>1, <1>4, TradeForm
  <2>2. r \in AlipayFinds(t)
    BY <2>1 DEF Finds
  <2>3. Number[r] = NumberOf(t) /\ Channel[r] \in Alipay /\ Account[AppOf[r]] = AccountOf(t)
    BY <2>2 DEF AlipayFinds, ByAppAndNumber
  <2>4. Trade(r) = <<"alipay", Account[AppOf[r]], Number[r]>>
    BY <1>0, <2>3, TradeForm
  <2>5. QED
    BY <2>1, <2>3, <2>4 DEF NumberOf, AccountOf
<1>5. CASE Channel[s] \in Wechat
  <2>1. t = <<"wechat", Account[AppOf[s]], Number[s]>>
    BY <1>1, <1>5, TradeForm
  <2>2. PICK a \in Owners(t) :
          r \in (IF WechatId[a] = Blank THEN ByNumber(NumberOf(t))
                 ELSE ByAppAndNumber(WechatId[a], NumberOf(t)))
    BY <2>1 DEF Finds, WechatFinds
  <2>3. Number[r] = NumberOf(t)
    <3>1. CASE r \in ByNumber(NumberOf(t))
      BY <3>1 DEF ByNumber
    <3>2. CASE r \in ByAppAndNumber(WechatId[a], NumberOf(t))
      BY <3>2 DEF ByAppAndNumber
    <3>3. QED
      BY <2>2, <3>1, <3>2
  <2>4. ASSUME Attributable(t) PROVE Trade(r) = t
    <3>1. \A b \in Owners(t) : b = a
      BY <2>4 DEF Attributable
    <3>2. WechatId[a] = a
      BY <2>4 DEF Attributable
    <3>3. PICK q \in RequestsOf(t) \cap Saved : TRUE
      <4>1. ASSUME NEW p \in RequestsOf(t) PROVE Channel[p] # "alipay_face"
        <5>1. p \in Requests /\ Trade(p) = t
          BY DEF RequestsOf
        <5>2. CASE Channel[p] = "alipay_face"
          <6>1. Trade(p) = <<"alipay", Account[AppOf[p]], Number[p]>>
            BY <5>1, <5>2, TradeForm DEF Alipay
          <6>2. QED
            BY <2>1, <5>1, <6>1
        <5>3. QED
          BY <5>2
      <4>2. QED
        BY <4>1 DEF IInv, ChargedHasRow
    <3>4. q \in Requests /\ Trade(q) = t /\ q \in Saved
      BY <3>3 DEF RequestsOf
    <3>5. Channel[q] \in Wechat /\ Trade(q) = <<"wechat", Account[AppOf[q]], Number[q]>>
      <4>1. Trade(q)[1] = "wechat"
        BY <2>1, <3>4
      <4>2. QED
        BY <3>4, <4>1, TradeForm
    <3>6. AppOf[q] = a /\ Number[q] = NumberOf(t)
      <4>1. Account[AppOf[q]] = AccountOf(t) /\ Number[q] = NumberOf(t)
        BY <2>1, <3>4, <3>5 DEF AccountOf, NumberOf
      <4>2. AppOf[q] \in Owners(t)
        BY <4>1, <3>4, RequestAssumption DEF Owners
      <4>3. QED
        BY <3>1, <4>1, <4>2
    <3>7. AppOf[r] = a
      <4>1. WechatId[a] # Blank
        BY <3>2, BlankAssumption DEF Owners
      <4>2. QED
        BY <2>2, <3>2, <4>1 DEF ByAppAndNumber
    <3>8. SameKey(q, r)
      BY <2>3, <3>6, <3>7 DEF SameKey
    <3>9. q = r
      BY <1>0, <3>4, <3>8 DEF IInv, OneRowPerNumber, Saved
    <3>10. QED
      BY <3>4, <3>9
  <2>5. WechatId[a] \in {Blank, AppOf[r]}
    BY <2>2 DEF ByAppAndNumber
  <2>6. QED
    BY <2>1, <2>2, <2>3, <2>4, <2>5 DEF Mistakable
<1>6. QED
  BY <1>2, <1>3, <1>4, <1>5

\* A row is marked by the callback of its trade, or by one of WeChat's that does not
\* tell the app.
LEMMA MarkedStep ==
  ASSUME IInv, [Next]_vars
  PROVE  /\ RightRowMarked' /\ marked' \subseteq Saved'
         /\ acked' \subseteq Trades /\ lost' \subseteq acked'
<1> USE DEF IInv, TypeOK
<1>1. \A t \in Trades : trade[t] = "paid" => trade'[t] = "paid"
  BY TradeStep
<1>2. \A r \in Requests : Trade(r) \in Trades
  BY DEF Trades
<1>3. ASSUME marked' = marked PROVE RightRowMarked' /\ marked' \subseteq Saved'
  <2>1. marked \subseteq Requests
    BY DEF Saved
  <2>2. QED
    BY <1>1, <1>2, <1>3, <2>1, SavedStays DEF RightRowMarked
<1>4. ASSUME NEW t \in Trades, Callback(t)
      PROVE  /\ RightRowMarked' /\ marked' \subseteq Saved'
             /\ acked' \subseteq Trades /\ lost' \subseteq acked'
  <2>1. /\ trade[t] = "paid" /\ trade' = trade /\ rows' = rows /\ acked' = acked \cup {t}
        /\ Marks(t) \/ Swallows(t)
    BY <1>4 DEF Callback
  <2>2. CASE Marks(t)
    <3>0. lost' = lost
      BY <2>2 DEF Marks
    <3>1. PICK r \in Finds(t) : marked' = marked \cup {r}
      BY <2>2 DEF Marks
    <3>2. r \in Saved /\ Saved' = Saved
      BY <2>1, FindsSaved DEF Saved
    <3>3. trade'[Trade(r)] = "paid" \/ Mistakable(t, r)
      BY <2>1, FindsRight
    <3>4. RightRowMarked'
      BY <2>1, <3>1, <3>3 DEF RightRowMarked
    <3>5. QED
      BY <2>1, <3>0, <3>1, <3>2, <3>4
  <2>3. CASE Swallows(t)
    BY <1>3, <2>1, <2>3 DEF Swallows
  <2>4. QED
    BY <2>1, <2>2, <2>3
<1>5. UNCHANGED bookVars \/ \E t \in Trades : Callback(t)
  BY DEF Next, vars, checkoutVars, bookVars, CallStep, CheckExists, AskPlatform, SaveOrder, Crash, BuyerPays
<1>6. QED
  BY <1>3, <1>4, <1>5 DEF bookVars

\* The states of a request.
LEMMA CallType ==
  ASSUME TypeOK, [Next]_vars
  PROVE  call' \in [Requests -> {"none", "ask", "save", "answered", "exists", "error"}]
<1> USE DEF TypeOK
<1>1. ASSUME NEW r \in Requests, CallStep(r)
      PROVE  \E pc \in {"ask", "save", "answered", "exists", "error"} : Goes(r, pc)
  <2>1. CASE CheckExists(r)
    BY <2>1 DEF CheckExists
  <2>2. CASE AskPlatform(r)
    BY <2>2, OnlyFaceCharges DEF AskPlatform
  <2>3. CASE SaveOrder(r)
    BY <2>3 DEF SaveOrder
  <2>4. QED
    BY <1>1, <2>1, <2>2, <2>3 DEF CallStep
<1>2. CASE Crash
  BY <1>2 DEF Crash
<1>3. CASE UNCHANGED call
  BY <1>3
<1>4. QED
  BY <1>1, <1>2, <1>3 DEF Next, vars, checkoutVars, bookVars, BuyerPays, Callback, Goes

-----------------------------------------------------------------------------
(* The invariant.                                                          *)

LEMMA InitIInv == Init => IInv
<1> SUFFICES ASSUME Init PROVE IInv
    OBVIOUS
<1>1. Saved = {} /\ rows = <<>>
  BY DEF Init, Saved
<1>2. TypeOK
  BY <1>1, GuardTypeInit DEF Init, TypeOK
<1>3. NonceInv
  BY NonceInvInit DEF Init
<1>4. OneRowPerNumber /\ AnsweredSaved /\ RightRowMarked
  BY <1>1 DEF Init, OneRowPerNumber, AnsweredSaved, RightRowMarked
<1>5. ChargedHasRow
  BY DEF Init, ChargedHasRow
<1>6. QED
  BY <1>2, <1>3, <1>4, <1>5 DEF IInv

LEMMA NextIInv == IInv /\ [Next]_vars => IInv'
<1> SUFFICES ASSUME IInv, [Next]_vars PROVE IInv'
    OBVIOUS
<1>1. GuardTypeOK' /\ NonceInv'
  BY GuardSteps, GuardTypeStep, NonceInvStep DEF IInv, TypeOK
<1>2. trade' \in [Trades -> {"none", "open", "paid"}]
  <2>1. trade' = [t \in Trades |-> trade'[t]]
    BY DEF IInv, TypeOK, Next, vars, checkoutVars, bookVars, CallStep, CheckExists, AskPlatform,
           SaveOrder, Crash, BuyerPays, Callback
  <2>2. QED
    BY <2>1, TradeStep
<1>3. TypeOK'
  BY <1>1, <1>2, CallType, SavedStays, MarkedStep DEF IInv, TypeOK
<1>4. QED
  BY <1>1, <1>3, UniqueStep, ChargedStep, MarkedStep DEF IInv

LEMMA Always == Spec => []IInv
BY InitIInv, NextIInv, PTL DEF Spec

-----------------------------------------------------------------------------
(* The theorems.                                                           *)

\* The type invariant of Checkout and ApiGuard, for any requests.
THEOREM TypeCorrect == Spec => []TypeOK
<1>1. IInv => TypeOK
  BY DEF IInv
<1>2. QED
  BY <1>1, Always, PTL

\* However many requests create an order of one number at once (CreateOrder of
\* order_service.go), an app has one row for it.
THEOREM NumberHasOneRow == Spec => []OneRowPerNumber
<1>1. IInv => OneRowPerNumber
  BY DEF IInv
<1>2. QED
  BY <1>1, Always, PTL

\* Whatever fails and whoever dies in CreateOrder, a buyer who is charged has a row; but
\* for alipay_face, which charges her code before the INSERT, so that she may have none
\* even though nothing fails.
THEOREM ChargeHasRow == Spec => []ChargedHasRow
<1>1. IInv => ChargedHasRow
  BY DEF IInv
<1>2. QED
  BY <1>1, Always, PTL

\* For any apps, accounts (shared ones included) and ids at the platforms, the lookups of
\* webhook.go mark the row of the trade that was paid; but a WeChat event of an account
\* that does not tell the app marks, perhaps, another row of its number, of an app that a
\* configuration of the account names, or of any if one names none.
THEOREM MarkedIsRight == Spec => []RightRowMarked
<1>1. IInv => RightRowMarked
  BY DEF IInv
<1>2. QED
  BY <1>1, Always, PTL

\* One step lets a nonce through a second time only in a request that was held.
LEMMA ReplayHeld ==
  ASSUME IInv, [Next]_vars, NEW r \in Requests,
         gate[r] = "timed", gate'[r] = "open", used[NonceOf[r]] # Never
  PROVE  clock - timed[r] > used[NonceOf[r]] - Stamp[r]
<1> USE StampAssumption, NonceAssumption, WindowAssumption DEF IInv, TypeOK, GuardTypeOK, Never
<1>1. CheckReplay(r) /\ CheckNonce(r)
  <2>1. ASSUME NEW s \in Requests, GuardStep(s) PROVE s = r /\ CheckReplay(r) /\ CheckNonce(r)
    <3>1. CASE CheckTimestamp(s)
      BY <3>1 DEF CheckTimestamp
    <3>2. CASE CheckReplay(s)
      BY <3>2 DEF CheckReplay
    <3>3. QED
      BY <2>1, <3>1, <3>2 DEF GuardStep
  <2>2. ~(Tick \/ CleanupExpired \/ GuardCrash \/ UNCHANGED guardVars)
    BY DEF Tick, CleanupExpired, GuardCrash, guardVars
  <2>3. QED
    BY <2>1, <2>2, GuardSteps
<1>2. seen[NonceOf[r]] = Never
  BY <1>1 DEF CheckNonce
<1>3. clock - used[NonceOf[r]] > Window
  BY <1>2 DEF NonceInv
<1>4. timed[r] - Stamp[r] <= Window /\ timed[r] \in Nat
  BY DEF NonceInv
<1>5. used[NonceOf[r]] \in Nat /\ Stamp[r] \in Int /\ clock \in Nat
  OBVIOUS
<1>6. QED
  BY <1>3, <1>4, <1>5

\* For any window and any times, SignatureAuth lets a nonce through again only in a
\* request that was held between its two checks for as long as its message had been
\* old at the first time.
THEOREM NonceLetThroughOnce == Spec => NonceOnce
<1>1. IInv /\ [Next]_vars =>
        [\A r \in Requests :
           /\ gate[r] = "timed" /\ gate'[r] = "open"
           /\ used[NonceOf[r]] # Never
           => clock - timed[r] > used[NonceOf[r]] - Stamp[r]]_guardVars
  BY ReplayHeld
<1>2. QED
  BY <1>1, Always, PTL DEF Spec, NonceOnce


-----------------------------------------------------------------------------
(* The promise.                                                            *)

\* The state of CheckoutPromise.
Ended == [r \in Requests |-> EndOf(r)]
Charged == {t \in Trades : trade[t] = "paid"}

\* A request goes on, and what the promise sees of it.
LEMMA GoesOn ==
  ASSUME TypeOK, NEW r \in Requests, NEW pc \in {"ask", "save", "answered", "exists", "error"},
         call[r] \in {"none", "ask", "save"}, Goes(r, pc)
  PROVE  /\ Ended[r] = "none"
         /\ Ended' = IF pc \in {"ask", "save"} THEN Ended ELSE [Ended EXCEPT ![r] = pc]
BY DEF TypeOK, Goes, Ended, EndOf

\* A request fails and leaves nothing.
LEMMA OneFails ==
  ASSUME NEW r \in Requests, Ended[r] = "none", Ended' = [Ended EXCEPT ![r] = "error"],
         UNCHANGED <<Saved, Charged, marked, acked>>
  PROVE  Promise!Fail
<1>1. {r} \in SUBSET {s \in Requests : Ended[s] = "none"}
  OBVIOUS
<1>2. Ended' = [s \in Requests |-> IF s \in {r} THEN "error" ELSE Ended[s]]
  BY DEF Ended
<1>3. QED
  BY <1>1, <1>2 DEF Promise!Fail, Ended, Charged

LEMMA CheckPromised ==
  ASSUME IInv, NEW r \in Requests, CheckExists(r)
  PROVE  [Promise!Next]_(Promise!vars)
<1>1. TypeOK /\ call[r] = "none" /\ UNCHANGED <<Saved, Charged, marked, acked>>
  BY DEF CheckExists, bookVars, IInv, Saved, Charged
<1>2. CASE Goes(r, "exists") /\ \E s \in Saved : SameKey(r, s)
  <2>1. Ended[r] = "none" /\ Ended' = [Ended EXCEPT ![r] = "exists"]
    BY <1>1, <1>2, GoesOn
  <2>2. Saved \subseteq Requests
    BY <1>1 DEF TypeOK, Saved
  <2>3. Promise!Refuse(r)
    BY <1>1, <1>2, <2>1, <2>2 DEF Promise!Refuse, Promise!Ends, SameKey, Ended, Charged
  <2>4. QED
    BY <2>3 DEF Promise!Next
<1>3. CASE Goes(r, "ask")
  <2>1. Ended' = Ended
    BY <1>1, <1>3, GoesOn
  <2>2. QED
    BY <1>1, <2>1 DEF Promise!vars, Ended, Charged
<1>4. CASE Goes(r, "error")
  <2>1. Ended[r] = "none" /\ Ended' = [Ended EXCEPT ![r] = "error"]
    BY <1>1, <1>4, GoesOn
  <2>2. QED
    BY <1>1, <2>1, OneFails DEF Promise!Next
<1>5. QED
  BY <1>2, <1>3, <1>4 DEF CheckExists

\* Only a charge by code is seen while the platform is asked.
LEMMA AskPromised ==
  ASSUME IInv, NEW r \in Requests, AskPlatform(r)
  PROVE  [Promise!Next]_(Promise!vars)
<1>1. /\ TypeOK /\ call[r] = "ask" /\ UNCHANGED <<Saved, marked, acked>>
      /\ Trade(r) \in Trades
  BY DEF AskPlatform, bookVars, IInv, Saved, Trades
<1>2. PICK outcome \in ProviderCreateOrder(r) :
        /\ outcome.trade # "none" => trade[Trade(r)] # "paid"
        /\ Goes(r, outcome.goes)
        /\ trade' = IF outcome.trade = "none" THEN trade
                    ELSE [trade EXCEPT ![Trade(r)] = outcome.trade]
  BY DEF AskPlatform
<1>3. /\ outcome.trade \in {"none", "open", "paid"} /\ outcome.goes \in {"save", "error"}
      /\ outcome.trade = "paid" => Channel[r] = "alipay_face"
  BY OnlyFaceCharges
<1>4. Ended[r] = "none" /\ (Ended' = Ended \/ Ended' = [Ended EXCEPT ![r] = "error"])
  BY <1>1, <1>2, <1>3, GoesOn
<1>5. CASE outcome.trade = "paid"
  <2>1. Trade(r) \notin Charged /\ Charged' = Charged \cup {Trade(r)}
    BY <1>1, <1>2, <1>5 DEF Charged, TypeOK
  <2>2. Promise!ChargeCode(r)
    BY <1>1, <1>3, <1>4, <1>5, <2>1 DEF Promise!ChargeCode, Promise!Ends, Ended, Charged
  <2>3. QED
    BY <2>2 DEF Promise!Next
<1>6. CASE outcome.trade # "paid"
  <2>1. Charged' = Charged
    BY <1>1, <1>2, <1>3, <1>6 DEF Charged, TypeOK
  <2>2. CASE Ended' = Ended
    BY <1>1, <2>1, <2>2 DEF Promise!vars, Ended, Charged
  <2>3. CASE Ended' = [Ended EXCEPT ![r] = "error"]
    BY <1>1, <1>4, <2>1, <2>3, OneFails DEF Promise!Next
  <2>4. QED
    BY <1>4, <2>2, <2>3
<1>7. QED
  BY <1>5, <1>6

LEMMA SavePromised ==
  ASSUME IInv, NEW r \in Requests, SaveOrder(r)
  PROVE  Promise!Next
<1>1. TypeOK /\ call[r] = "save" /\ UNCHANGED <<Charged, marked, acked>> /\ Saved \subseteq Requests
  BY DEF SaveOrder, bookVars, IInv, TypeOK, Saved, Charged
<1>2. CASE /\ \A s \in Saved : ~SameKey(r, s)
           /\ rows' = Append(rows, r) /\ (Goes(r, "answered") \/ Goes(r, "error"))
  <2>1. Saved' = Saved \cup {r}
    BY <1>1, <1>2, SavedAppend
  <2>2. Ended[r] = "none" /\ (\/ Ended' = [Ended EXCEPT ![r] = "answered"]
                              \/ Ended' = [Ended EXCEPT ![r] = "error"])
    BY <1>1, <1>2, GoesOn
  <2>3. Promise!Create(r)
    BY <1>1, <1>2, <2>1, <2>2 DEF Promise!Create, Promise!Ends, SameKey, Ended, Charged
  <2>4. QED
    BY <2>3 DEF Promise!Next
<1>3. CASE (\E s \in Saved : SameKey(r, s)) /\ Goes(r, "exists") /\ UNCHANGED rows
  <2>1. Ended[r] = "none" /\ Ended' = [Ended EXCEPT ![r] = "exists"] /\ Saved' = Saved
    BY <1>1, <1>3, GoesOn DEF Saved
  <2>2. Promise!Refuse(r)
    BY <1>1, <1>3, <2>1 DEF Promise!Refuse, Promise!Ends, SameKey, Ended, Charged
  <2>3. QED
    BY <2>2 DEF Promise!Next
<1>4. CASE Goes(r, "error") /\ UNCHANGED rows
  <2>1. Ended[r] = "none" /\ Ended' = [Ended EXCEPT ![r] = "error"] /\ Saved' = Saved
    BY <1>1, <1>4, GoesOn DEF Saved
  <2>2. QED
    BY <1>1, <2>1, OneFails DEF Promise!Next
<1>5. QED
  BY <1>2, <1>3, <1>4 DEF SaveOrder

LEMMA CrashPromised ==
  ASSUME IInv, Crash
  PROVE  Promise!Next
<1> DEFINE Lost == {r \in Requests : call[r] \in {"ask", "save"}}
<1>1. Lost \in SUBSET {r \in Requests : Ended[r] = "none"}
  BY DEF Ended, EndOf
<1>2. Ended' = [r \in Requests |-> IF r \in Lost THEN "error" ELSE Ended[r]]
  BY DEF Crash, Ended, EndOf
<1>3. UNCHANGED <<Saved, Charged, marked, acked>>
  BY DEF Crash, bookVars, Saved, Charged
<1> HIDE DEF Lost
<1>4. Promise!Fail
  BY <1>1, <1>2, <1>3 DEF Promise!Fail, Ended, Charged
<1>5. QED
  BY <1>4 DEF Promise!Next

LEMMA ChargePromised ==
  ASSUME IInv, NEW t \in Trades, BuyerPays(t)
  PROVE  Promise!Next
<1>1. PICK r \in RequestsOf(t) :
        call[r] = "answered" \/ (call[r] = "error" /\ Channel[r] = "alipay_face")
  BY DEF BuyerPays
<1>2. r \in Requests /\ Trade(r) = t
  BY DEF RequestsOf
<1>3. Ended[r] = call[r] /\ Ended' = Ended /\ Saved' = Saved /\ UNCHANGED <<marked, acked>>
  BY <1>1, <1>2 DEF BuyerPays, bookVars, Ended, EndOf, Saved
<1>4. t \notin Charged /\ Charged' = Charged \cup {t}
  BY DEF BuyerPays, Charged, IInv, TypeOK
<1>5. Promise!Charge(r)
  BY <1>1, <1>2, <1>3, <1>4 DEF Promise!Charge, Ended, Charged
<1>6. QED
  BY <1>2, <1>5 DEF Promise!Next

LEMMA BookPromised ==
  ASSUME IInv, NEW t \in Trades, Callback(t)
  PROVE  Promise!Next
<1>1. /\ t \in Charged \ acked /\ acked' = acked \cup {t}
      /\ Charged' = Charged /\ Saved' = Saved /\ Ended' = Ended
      /\ Marks(t) \/ Swallows(t)
  BY DEF Callback, Charged, Saved, Ended, EndOf
<1>2. \A r \in Finds(t) : r \in Saved \cap Booked(t)
  <2> SUFFICES ASSUME NEW r \in Finds(t) PROVE r \in Saved \cap Booked(t)
    OBVIOUS
  <2>1. r \in Saved /\ Saved \subseteq Requests
    BY FindsSaved DEF IInv, TypeOK, Saved
  <2>2. QED
    BY <2>1, FindsRight DEF Callback, Booked, RequestsOf
<1>3. CASE Marks(t)
  <2>1. PICK r \in Finds(t) : marked' = marked \cup {r}
    BY <1>3 DEF Marks
  <2>2. Promise!Book(t)
    BY <1>1, <1>2, <2>1 DEF Promise!Book, Ended, Charged
  <2>3. QED
    BY <1>1, <2>2 DEF Promise!Next, Charged
<1>4. CASE Swallows(t)
  <2>1. UNCHANGED marked /\ (Finds(t) # {} \/ t[1] = "stripe")
    BY <1>4 DEF Swallows
  <2>2. Promise!Lose(t)
    BY <1>1, <1>2, <2>1 DEF Promise!Lose, Ended, Charged
  <2>3. QED
    BY <1>1, <2>2 DEF Promise!Next, Charged
<1>5. QED
  BY <1>1, <1>3, <1>4

\* For any requests, apps, accounts and channels, and whatever fails or dies, CreateOrder
\* and the callbacks create, charge and book orders as promised.
THEOREM CheckoutKeepsPromise == Spec => PromiseKept
<1>1. Init => Promise!Init
  BY DEF Init, Promise!Init, Saved, EndOf
<1>2. IInv /\ [Next]_vars => [Promise!Next]_(Promise!vars)
  <2> SUFFICES ASSUME IInv, [Next]_vars PROVE [Promise!Next]_(Promise!vars)
    OBVIOUS
  <2>1. CASE UNCHANGED checkoutVars
    BY <2>1 DEF checkoutVars, bookVars, Promise!vars, Saved, EndOf
  <2>2. ASSUME NEW r \in Requests, CallStep(r) PROVE [Promise!Next]_(Promise!vars)
    BY <2>2, CheckPromised, AskPromised, SavePromised DEF CallStep
  <2>3. CASE Crash
    BY <2>3, CrashPromised
  <2>4. ASSUME NEW t \in Trades, BuyerPays(t) \/ Callback(t) PROVE Promise!Next
    BY <2>4, ChargePromised, BookPromised
  <2>5. QED
    BY <2>1, <2>2, <2>3, <2>4 DEF Next, vars
<1>3. QED
  BY <1>1, <1>2, Always, PTL DEF Spec, PromiseKept, Promise!Spec

=============================================================================
