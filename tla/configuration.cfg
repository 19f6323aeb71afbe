SPECIFICATION FairSpec
CONSTANTS
  shop = shop  k1 = k1  k2 = k2  key1 = key1
  Fields = {"api_v3_key", "private_key"}
  Sensitive = {"private_key"}
  Texts = {"", "******", "one", "two"}
  Empty = ""
  Stars = "******"
  MasterKeys = {key1}
  NoKey = NoKey
  Requests = {1, 2}
  Apps = {shop}
  Configs = {k1, k2}
  AppOf <- MCAppOf
  Defaults <- MCDefaults
  Asks <- MCAsks
  Tables <- MCTables
  MaxConns = 2
  Absent = Absent
  Untouched = Untouched
  Getters = {"g"}
  Listers = {"l"}
  Selections <- MCSelections
INVARIANTS TypeOK AuditReplays ListedSealed CachedWasActive NoStandstill OnlyWaitersStop
PROPERTIES NeverReplaced CallsEnd PromiseKept
