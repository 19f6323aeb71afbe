SPECIFICATION FairSpec
CONSTANTS
  c1 = c1  c2 = c2
  Calls = {c1, c2}
  Orders = {1}
  ChannelOf <- MCStripe
  Amount <- MCAmount
  AskedAmounts = {1}
  NoOrder = NoOrder
  Reporting = {"stripe"}
  MaxNotifyRetries = 1
  SweepLimit = 1
  Disturbances = {}
  MaxDisturbances = 0
PROPERTIES RemainderRefundable
CHECK_DEADLOCK FALSE
