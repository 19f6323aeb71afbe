SPECIFICATION FairSpec
CONSTANTS
  c1 = c1  c2 = c2
  Calls = {c1, c2}
  Orders = {1, 2, 3}
  ChannelOf <- MCChannelOf
  Amount <- MCAmount
  AskedAmounts = {0, 1}
  NoOrder = NoOrder
  Reporting = {"wechat", "stripe"}
  MaxNotifyRetries = 1
  SweepLimit = 1
  Disturbances = {"dbfault", "crash", "lostreply"}
  MaxDisturbances = 1
INVARIANTS TypeOK LedgerTrue AnsweredMeansDone RefundedMeansRefund
PROPERTIES RefundRecorded PromiseKept
CHECK_DEADLOCK FALSE
