SPECIFICATION FairSpec
CONSTANTS
  r1 = r1  r2 = r2  r3 = r3  r4 = r4
  Requests = {r1, r2, r3, r4}
  Nonces = {1, 2}
  NonceOf <- MCNonceOf
  Stamp <- MCStamp
  Window = 1
  MaxTime = 2
  AppOf <- MCAppOf
  Number <- MCNumber
  Channel <- MCChannel
  Extra <- MCExtra
  Account <- MCAccount
  WechatId <- MCWechatId
  AlipayId <- MCAlipayId
  Blank = Blank
  Served = {"stripe", "wechat_native", "wechat_jsapi", "alipay_face"}
INVARIANTS TypeOK OneRowPerNumber ChargedHasRow RightRowMarked
PROPERTIES NonceOnce PaymentFound PromiseKept
CHECK_DEADLOCK FALSE
