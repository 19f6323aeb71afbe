SPECIFICATION Spec
CONSTANTS
  r1 = r1  r2 = r2
  Requests = {r1, r2}
  Nonces = {1, 2}
  NonceOf <- MCNonceOf
  Stamp <- MCStamp
  Window = 1
  MaxTime = 2
  AppOf <- MCAppOf
  Number <- MCNumber
  Channel <- MCChannel
  Extra <- MCExtra
  Account <- MCAccount
  WechatId <- OwnId
  AlipayId <- OwnId
  Blank = Blank
  Served = {"stripe", "wechat_jsapi"}
INVARIANT PaidByItsOwn
CHECK_DEADLOCK FALSE
