SPECIFICATION FairSpec
CONSTANTS
  OutTradeNos = {"t1", "o4", "o5"}
  OrderNos = {"o1", "o4", "o5"}
  Amounts = {28, 29, 30}
  Lossy = {29}
  Other = Other
  Schedulers = {"s"}
  Commands = {"c"}
  Bill <- MCBill
  Ledgers <- MCLedgers
  Asked = {1}
  Reported <- MCReported
  None = None
  MaxTime = 7
INVARIANTS TypeOK SuccessEarned
PROPERTIES LoneRunStores NothingSilent EachDayOnce RunsEnd PromiseKept
