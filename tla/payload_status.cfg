SPECIFICATION Spec
CONSTANTS
  w1 = w1  w2 = w2  m1 = m1  h1 = h1  h2 = h2  app = app
  Orders = {1}
  ChannelOf <- MCWechat
  ReportedFailures = {}
  Apps = {app}
  AppOf <- MCAppOf
  NoOrder = NoOrder
  PoolSlots = {w1}
  ManualSlots = {}
  Handlers = {h1}
  MaxNotifyRetries = 2
  SweepLimit = 1
  Disturbances = {}
  MaxDisturbances = 0
INVARIANTS PayloadSaysPaid
CHECK_DEADLOCK FALSE
