SPECIFICATION Spec
CONSTANTS
  w1 = w1  w2 = w2  m1 = m1  h1 = h1  h2 = h2  app = app
  Orders = {1}
  ChannelOf <- MCAlipay
  ReportedFailures = {}
  Apps = {app}
  AppOf <- MCAppOf
  NoOrder = NoOrder
  PoolSlots = {w1,w2}
  ManualSlots = {m1}
  Handlers = {h1}
  MaxNotifyRetries = 2
  SweepLimit = 1
  Disturbances = {"operator"}
  MaxDisturbances = 2
INVARIANTS TruthfulCallbacks SettledMeansRecorded NothingForgotten RetriesBounded
CHECK_DEADLOCK FALSE
SYMMETRY Interchangeable
