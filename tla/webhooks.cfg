SPECIFICATION Spec
CONSTANTS
  w1 = w1  w2 = w2  m1 = m1  h1 = h1  h2 = h2  app = app
  Orders = {1}
  ChannelOf <- MCStripe
  ReportedFailures = {}
  Apps = {app}
  AppOf <- MCAppOf
  NoOrder = NoOrder
  PoolSlots = {w1}
  ManualSlots = {}
  Handlers = {h1,h2}
  MaxNotifyRetries = 2
  SweepLimit = 1
  Disturbances = {"dbfault", "crash", "lostreply", "disable"}
  MaxDisturbances = 1
INVARIANTS TypeOK CallbackAfterCommit OneWebhookNotification NotifiedMeansAcked
PROPERTIES PromiseKept
CHECK_DEADLOCK FALSE
