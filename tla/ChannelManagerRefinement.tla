----------------------- MODULE ChannelManagerRefinement ----------------------
(***************************************************************************)
(* ChannelManager implements ConfigPromise, its audit log replays, and its *)
(* locks leave nobody at a standstill, for any number of requests,         *)
(* callers, rows and connections.                                          *)
(*                                                                         *)
(* The argument about transactions is TxInv: what a request has written,   *)
(* and will put on record, is its change applied to the row as it is now,  *)
(* since whoever else wants to change that row waits for its lock.         *)
(***************************************************************************)
EXTENDS ChannelManagerProofs

\* An audit row.
Shows == Row \cup [config : Config] \cup [status : Statuses]
AuditRow == [old : Row \cup {Absent}, new : Shows]

\* What a request will commit, by its stage.
TxInv(r) ==
  /\ pc[r] \in {"none", "begun", "read", "done"} => writes[r] = NoWrites
  /\ pc[r] \in {"written", "audited"} =>
       /\ LockedBy(r, ask[r].of)
       /\ \A y \in Resources \ {ask[r].of} : ~LockedBy(r, y)
       /\ writes[r][ask[r].of] = Changed(row[ask[r].of], Stored(ask[r].of, ask[r].set))
       /\ row[ask[r].of] = Absent => ask[r].op = "create"
  /\ pc[r] = "audited" =>
       /\ entry[r] \in AuditRow
       /\ entry[r].new = Shown(ask[r].of, Stored(ask[r].of, ask[r].set))
  /\ pc[r] = "setup" =>
       \A x \in Resources : LockedBy(r, x) =>
         /\ writes[r][x].status = "active"
         /\ x \in Apps => row[x] = Absent

\* A row is locked by one request at a time.
LockInv ==
  \A r, s \in Requests : \A x \in Resources : LockedBy(r, x) /\ LockedBy(s, x) => r = s

Transactions == LockInv /\ \A r \in Requests : TxInv(r)

-----------------------------------------------------------------------------
(* What is stored and shown of a change.                                   *)

\* A function from some columns; a change and a row are two.
LEMMA ColumnFacts ==
  /\ \A f \in Change \cup Shows : f = [c \in DOMAIN f |-> f[c]] /\ DOMAIN f \subseteq Columns
  /\ \A f \in Row : DOMAIN f = Columns
  /\ Row \subseteq Shows
BY DEF Change, Whole, Shows, Row, Columns

LEMMA StoredFacts ==
  ASSUME NEW x, NEW set \in Change
  PROVE  LET new == Stored(x, set) IN
         /\ DOMAIN new = DOMAIN set /\ new = [c \in DOMAIN set |-> new[c]]
         /\ "status" \in DOMAIN set => new["status"] = set["status"]
         /\ "config" \in DOMAIN set =>
              new["config"] = IF x \in Configs THEN EncryptConfig(set["config"], masterKey)
                              ELSE set["config"]
BY ColumnFacts DEF Stored

LEMMA ShownFacts ==
  ASSUME NEW x, NEW set, set = [c \in DOMAIN set |-> set[c]]
  PROVE  LET shown == Shown(x, set) IN
         /\ DOMAIN shown = DOMAIN set /\ shown = [c \in DOMAIN set |-> shown[c]]
         /\ "status" \in DOMAIN set => shown["status"] = set["status"]
         /\ "config" \in DOMAIN set =>
              shown["config"] = IF x \in Configs THEN MaskConfig(set["config"])
                                ELSE set["config"]
BY DEF Shown

LEMMA MaskType == \A c \in Config : MaskConfig(c) \in Config
BY TextAssumption DEF MaskConfig, Config, Value, Plain

\* A function from one or both columns with the right values.
LEMMA ShowsFacts ==
  ASSUME NEW f, f = [c \in DOMAIN f |-> f[c]], DOMAIN f \in {{"config"}, {"status"}, Columns},
         "config" \in DOMAIN f => f["config"] \in Config,
         "status" \in DOMAIN f => f["status"] \in Statuses
  PROVE  f \in Shows /\ (DOMAIN f = Columns => f \in Row)
<1>1. CASE DOMAIN f = Columns
  <2>1. f = [config |-> f["config"], status |-> f["status"]]
    BY <1>1 DEF Columns
  <2>2. QED
    BY <1>1, <2>1 DEF Shows, Row, Columns
<1>2. CASE DOMAIN f = {"config"}
  <2>1. f = [config |-> f["config"]]
    BY <1>2
  <2>2. QED
    BY <1>2, <2>1 DEF Shows, Columns
<1>3. CASE DOMAIN f = {"status"}
  <2>1. f = [status |-> f["status"]]
    BY <1>3
  <2>2. QED
    BY <1>3, <2>1 DEF Shows, Columns
<1>4. QED
  BY <1>1, <1>2, <1>3

LEMMA ChangeDomains == \A set \in Change : DOMAIN set \in {{"config"}, {"status"}, Columns}
BY DEF Change, Whole, Columns

\* The audit row of a change, and what is shown of a row.
LEMMA ShownType ==
  ASSUME ConfigTypeOK, NEW x \in Resources
  PROVE  /\ \A set \in Change : Shown(x, Stored(x, set)) \in Shows
         /\ \A v \in Row : Shown(x, v) \in Row
<1>1. ASSUME NEW set \in Change PROVE Shown(x, Stored(x, set)) \in Shows
  <2> DEFINE new == Stored(x, set)
             shown == Shown(x, new)
  <2>1. /\ DOMAIN new = DOMAIN set /\ new = [c \in DOMAIN new |-> new[c]]
        /\ "status" \in DOMAIN set => new["status"] \in Statuses
        /\ "config" \in DOMAIN set => new["config"] \in Config
    <3>1. "config" \in DOMAIN set => set["config"] \in Config
      BY ChangeFacts, PlainType DEF Brings
    <3>2. QED
      BY <3>1, StoredFacts, ChangeFacts, EncryptType DEF Brings, ConfigTypeOK
  <2> HIDE DEF new
  <2>2. /\ DOMAIN shown = DOMAIN set /\ shown = [c \in DOMAIN shown |-> shown[c]]
        /\ "status" \in DOMAIN set => shown["status"] \in Statuses
        /\ "config" \in DOMAIN set => shown["config"] \in Config
    BY <2>1, ShownFacts, MaskType
  <2> HIDE DEF shown
  <2>3. shown \in Shows
    BY <2>2, ChangeDomains, ShowsFacts
  <2>4. QED
    BY <2>3 DEF shown, new
<1>2. ASSUME NEW v \in Row PROVE Shown(x, v) \in Row
  <2> DEFINE shown == Shown(x, v)
  <2>1. v = [c \in DOMAIN v |-> v[c]] /\ DOMAIN v = Columns
    BY ColumnFacts
  <2>2. v["config"] \in Config /\ v["status"] \in Statuses
    BY DEF Row
  <2>3. /\ DOMAIN shown = Columns /\ shown = [c \in DOMAIN shown |-> shown[c]]
        /\ shown["status"] \in Statuses /\ shown["config"] \in Config
    BY <2>1, <2>2, ShownFacts, MaskType DEF Columns
  <2> HIDE DEF shown
  <2>4. shown \in Row
    BY <2>3, ShowsFacts
  <2>5. QED
    BY <2>4 DEF shown
<1>3. QED
  BY <1>1, <1>2

-----------------------------------------------------------------------------
(* The transactions.                                                       *)

\* A request changes no row that it has not locked.
LEMMA RowKept ==
  ASSUME ConfigInv, NEW r \in Requests, Request(r), NEW x \in Resources, ~LockedBy(r, x)
  PROVE  row'[x] = row[x]
BY DEF Request, Begin, InsertRow, ReadOld, UpdateRow, InsertAudit, SetupApp, SetupChannel,
       Commit, Rollback, View, LockedBy

\* Nobody changes a row under the transaction that has locked it.
LEMMA OtherTx ==
  ASSUME ConfigInv, Transactions, NEW r \in Requests, NEW s \in Requests \ {r}, Request(r)
  PROVE  TxInv(s)'
<1>1. /\ pc'[s] = pc[s] /\ ask'[s] = ask[s] /\ writes'[s] = writes[s] /\ entry'[s] = entry[s]
      /\ masterKey' = masterKey
  BY RequestKept DEF Kept, Apart
<1>2. \A x \in Resources : LockedBy(s, x) => row'[x] = row[x]
  BY RowKept DEF Transactions, LockInv
<1>3. pc[s] \in {"written", "audited"} => ask[s].of \in Resources
  BY AskFacts DEF ConfigInv, AskInv, InTx
<1>4. TxInv(s)
  BY DEF Transactions
<1>5. CASE pc[s] \in {"written", "audited"}
  <2>1. row'[ask[s].of] = row[ask[s].of]
    BY <1>2, <1>3, <1>4, <1>5 DEF TxInv
  <2>2. QED
    BY <1>1, <1>4, <1>5, <2>1 DEF TxInv, LockedBy, Stored, Shown
<1>6. CASE pc[s] \notin {"written", "audited"}
  BY <1>1, <1>2, <1>4, <1>6 DEF TxInv, LockedBy
<1>7. QED
  BY <1>5, <1>6

\* A row is locked only when nobody else has.
LEMMA LocksKept ==
  ASSUME ConfigInv, LockInv, NEW r \in Requests,
         \A s \in Requests \ {r} : writes'[s] = writes[s],
         \A x \in Resources : LockedBy(r, x)' => LockedBy(r, x) \/ Lockable(r, x)
  PROVE  LockInv'
BY DEF LockInv, LockedBy, Lockable

LEMMA WriteLocks ==
  ASSUME ConfigInv, LockInv, NEW r \in Requests, NEW x \in Resources, NEW v \in Row,
         Writes(r, x, v), Lockable(r, x)
  PROVE  LockInv'
<1>1. /\ \A y \in Resources \ {x} : writes'[r][y] = writes[r][y]
      /\ \A s \in Requests \ {r} : writes'[s] = writes[s]
  BY WriteFacts DEF ConfigInv
<1>2. QED
  BY <1>1, LocksKept DEF LockedBy

\* The change of one row.
LEMMA ChangeTx ==
  ASSUME ConfigInv, Transactions, NEW r \in Requests, pc[r] \in {"begun", "read"},
         NEW x \in Resources, x = ask[r].of, Lockable(r, x), ask[r].set \in Change,
         NEW v \in Row, v = Changed(row[x], Stored(x, ask[r].set)), Writes(r, x, v),
         row[x] = Absent => ask[r].op = "create",
         Goes(r, "written"), UNCHANGED <<masterKey, row, ask>>
  PROVE  TxInv(r)' /\ LockInv'
<1>1. /\ writes'[r][x] = v /\ v # Untouched
      /\ \A y \in Resources \ {x} : writes'[r][y] = writes[r][y]
  BY WriteFacts, ConfigAssumption DEF ConfigInv
<1>2. writes[r] = NoWrites
  BY DEF Transactions, TxInv
<1>3. pc'[r] = "written"
  BY DEF Goes, ConfigInv, ConfigTypeOK
<1>4. TxInv(r)'
  BY <1>1, <1>2, <1>3 DEF TxInv, LockedBy, NoWrites, Stored
<1>5. QED
  BY <1>4, WriteLocks DEF Transactions

LEMMA InsertTx ==
  ASSUME ConfigInv, Transactions, NEW r \in Requests, InsertRow(r)
  PROVE  TxInv(r)' /\ LockInv'
<1> DEFINE x == ask[r].of
           v == Changed(Absent, Stored(x, ask[r].set))
<1>1. pc[r] = "begun" /\ ask[r].op = "create" /\ IsAsk(ask[r])
  BY DEF InsertRow, InTx, ConfigInv, AskInv
<1>2. x \in Resources /\ Brings(ask[r].set) /\ DOMAIN ask[r].set = Columns /\ ask[r].set \in Change
  BY <1>1, AskFacts
<1>3. v \in Row
  BY <1>2, StoredRow DEF ConfigInv
<1>4. /\ Lockable(r, x) /\ row[x] = Absent /\ Writes(r, x, v) /\ Goes(r, "written")
      /\ UNCHANGED <<masterKey, row, ask>>
  BY DEF InsertRow
<1>5. v = Changed(row[x], Stored(x, ask[r].set))
  BY <1>4
<1> HIDE DEF v, x
<1>6. QED
  BY <1>1, <1>2, <1>3, <1>4, <1>5, ChangeTx DEF x

LEMMA UpdateTx ==
  ASSUME ConfigInv, Transactions, NEW r \in Requests, UpdateRow(r)
  PROVE  TxInv(r)' /\ LockInv'
<1> DEFINE x == ask[r].of
           v == Changed(row[x], Stored(x, ask[r].set))
<1>1. pc[r] = "read" /\ ask[r].op = "update" /\ IsAsk(ask[r]) /\ row[x] # Absent
  BY DEF UpdateRow, InTx, ConfigInv, AskInv
<1>2. x \in Resources /\ Brings(ask[r].set) /\ DOMAIN ask[r].set \subseteq Columns /\ ask[r].set \in Change
  BY <1>1, AskFacts
<1>3. row[x] \in Row
  BY <1>1, <1>2 DEF ConfigInv, ConfigTypeOK
<1>4. v \in Row
  BY <1>2, <1>3, StoredRow DEF ConfigInv
<1>5. Lockable(r, x) /\ Writes(r, x, v) /\ Goes(r, "written") /\ UNCHANGED <<masterKey, row, ask>>
  BY DEF UpdateRow
<1> HIDE DEF v, x
<1>6. QED
  BY <1>1, <1>2, <1>4, <1>5, ChangeTx DEF x, v

\* The audit row shows the change that was written.
LEMMA AuditTx ==
  ASSUME ConfigInv, Transactions, NEW r \in Requests, InsertAudit(r)
  PROVE  TxInv(r)' /\ LockInv'
<1>1. /\ pc[r] = "written" /\ pc'[r] = "audited" /\ UNCHANGED <<ask, writes, masterKey, row>>
      /\ entry'[r] = AuditEntry(r)
  BY DEF InsertAudit, Goes, ConfigInv, ConfigTypeOK, Shape
<1>2. ask[r].set \in Change /\ ask[r].of \in Resources
  BY <1>1, AskFacts DEF ConfigInv, AskInv, InTx
<1> DEFINE before == IF old[r] = Absent THEN Absent ELSE Shown(ask[r].of, old[r])
           after == Shown(ask[r].of, Stored(ask[r].of, ask[r].set))
<1>3. before \in Row \cup {Absent} /\ after \in Shows
  BY <1>2, ShownType DEF ConfigInv, ConfigTypeOK
<1>4. entry'[r] = [old |-> before, new |-> after]
  BY <1>1 DEF AuditEntry
<1> HIDE DEF before, after
<1>5. entry'[r] \in AuditRow /\ entry'[r].new = after
  BY <1>3, <1>4 DEF AuditRow
<1>6. TxInv(r)'
  BY <1>1, <1>5 DEF Transactions, TxInv, LockedBy, after, Stored, Shown
<1>7. QED
  BY <1>1, <1>6 DEF Transactions, LockInv, LockedBy

LEMMA SetupAppTx ==
  ASSUME ConfigInv, Transactions, NEW r \in Requests, SetupApp(r)
  PROVE  TxInv(r)' /\ LockInv'
<1> DEFINE x == ask[r].of
           v == [config |-> ask[r].app, status |-> "active"]
<1>1. /\ pc[r] = "begun" /\ ask[r].op = "setup" /\ pc'[r] = "setup" /\ UNCHANGED row
      /\ writes[r] = NoWrites
  BY DEF SetupApp, Goes, ConfigInv, ConfigTypeOK, Transactions, TxInv
<1>2. SetsUp(ask[r]) /\ x \in Resources
  BY <1>1, AskFacts DEF ConfigInv, AskInv, InTx
<1>3. CASE UNCHANGED writes
  BY <1>1, <1>3 DEF Transactions, TxInv, LockInv, LockedBy, NoWrites
<1>4. CASE row[x] = Absent /\ Lockable(r, x) /\ Writes(r, x, v)
  <2>1. v \in Row
    BY <1>2, PlainType DEF SetsUp, Row, Statuses
  <2>2. /\ writes'[r][x] = v
        /\ \A y \in Resources \ {x} : writes'[r][y] = writes[r][y]
    BY <1>2, <1>4, <2>1, WriteFacts DEF ConfigInv
  <2>3. TxInv(r)'
    BY <1>1, <1>4, <2>2 DEF TxInv, LockedBy, NoWrites
  <2>4. LockInv'
    BY <1>2, <1>4, <2>1, WriteLocks DEF Transactions
  <2>5. QED
    BY <2>3, <2>4
<1>5. QED
  BY <1>3, <1>4 DEF SetupApp

LEMMA SetupChannelTx ==
  ASSUME ConfigInv, Transactions, NEW r \in Requests, SetupChannel(r)
  PROVE  TxInv(r)' /\ LockInv'
<1> DEFINE k == Head(ask[r].set)[1]
           c == FinalConfig(k, Head(ask[r].set)[2])
           v == [config |-> EncryptConfig(c, masterKey), status |-> "active"]
<1>1. /\ pc[r] = "setup" /\ pc'[r] = "setup" /\ Lockable(r, k) /\ Writes(r, k, v)
      /\ UNCHANGED row
  BY DEF SetupChannel
<1>2. k \in Configs /\ c \in Config
  BY SetupFacts DEF SetupChannel
<1>3. v \in Row /\ v.status = "active"
  BY <1>2, EncryptType DEF Row, Statuses, ConfigInv, ConfigTypeOK
<1>4. k \in Resources /\ k \notin Apps
  BY <1>2, ConfigAssumption DEF Resources
<1> HIDE DEF k, v
<1>5. /\ writes'[r][k] = v
      /\ \A y \in Resources \ {k} : writes'[r][y] = writes[r][y]
  BY <1>1, <1>3, <1>4, WriteFacts DEF ConfigInv
<1>6. TxInv(r)'
  BY <1>1, <1>3, <1>4, <1>5 DEF Transactions, TxInv, LockedBy
<1>7. LockInv'
  BY <1>1, <1>3, <1>4, WriteLocks DEF Transactions
<1>8. QED
  BY <1>6, <1>7

\* A request that has written nothing yet, or is over.
LEMMA QuietTx ==
  ASSUME ConfigInv, Transactions, NEW r \in Requests,
         \/ \E a \in Asks : Begin(r, a, Connected)
         \/ ReadOld(r, Connected) \/ Commit(r) \/ Rollback(r)
  PROVE  TxInv(r)' /\ LockInv'
<1>1. pc'[r] \in {"begun", "read", "done"} /\ writes'[r] = NoWrites
      /\ \A s \in Requests \ {r} : writes'[s] = writes[s]
  BY DEF Begin, ReadOld, Commit, Rollback, Goes, ConfigInv, ConfigTypeOK, Transactions, TxInv
<1>2. TxInv(r)'
  BY <1>1 DEF TxInv
<1>3. LockInv'
  BY <1>1, LocksKept DEF Transactions, LockedBy, NoWrites
<1>4. QED
  BY <1>2, <1>3

LEMMA RequestTransactions ==
  ASSUME ConfigInv, Transactions, NEW r \in Requests, Request(r)
  PROVE  Transactions'
<1>1. TxInv(r)' /\ LockInv'
  BY InsertTx, UpdateTx, AuditTx, SetupAppTx, SetupChannelTx, QuietTx DEF Request
<1>2. QED
  BY <1>1, OtherTx DEF Transactions

-----------------------------------------------------------------------------
(* The audit log.                                                          *)

\* AuditReplays of one row.
Replays(x) ==
  IF row[x] = Absent THEN base[x].row = Absent /\ audit[x] = <<>>
  ELSE \A c \in Columns : Tells(x, c, Shown(x, row[x])[c])

AuditInv ==
  /\ audit \in [Resources -> Seq(AuditRow)]
  /\ base \in [Resources -> [row : Row \cup {Absent}, at : Nat]]
  /\ \A x \in Resources : base[x].at <= Len(audit[x]) /\ Replays(x)

LEMMA AppendFacts ==
  ASSUME NEW S, NEW log \in Seq(S), NEW e \in S
  PROVE  /\ Append(log, e) \in Seq(S) /\ Len(log) \in Nat
         /\ Len(Append(log, e)) = Len(log) + 1
         /\ \A i \in 1 .. Len(log) : Append(log, e)[i] = log[i]
         /\ Append(log, e)[Len(log) + 1] = e
         /\ log # <<>> <=> Len(log) # 0
OBVIOUS

\* A row that the step leaves alone, with its log.
LEMMA ReplaysOn ==
  ASSUME NEW x, Replays(x), row'[x] = row[x], audit'[x] = audit[x], base'[x] = base[x]
  PROVE  Replays(x)'
BY DEF Replays, Tells, Bringing, Shown

\* A change is on record: its columns have a new last value, the others the old one.
LEMMA ChangeReplays ==
  ASSUME ConfigInv, AuditInv, NEW x \in Resources, NEW set \in Change,
         row[x] = Absent => DOMAIN set = Columns,
         row'[x] = Changed(row[x], Stored(x, set)), row'[x] # Absent,
         NEW e \in AuditRow, e.new = Shown(x, Stored(x, set)),
         audit'[x] = Append(audit[x], e), base'[x] = base[x]
  PROVE  Replays(x)'
<1> DEFINE n == Len(audit[x])
<1>1. /\ n \in Nat /\ Len(audit'[x]) = n + 1 /\ audit'[x][n + 1] = e
      /\ \A i \in 1 .. n : audit'[x][i] = audit[x][i]
  BY AppendFacts DEF AuditInv
<1>2. base[x].at \in Nat /\ base[x].at <= n
  BY DEF AuditInv
<1> HIDE DEF n
<1>3. /\ DOMAIN e.new = DOMAIN set
      /\ \A c \in DOMAIN set : Shown(x, row'[x])[c] = e.new[c]
      /\ \A c \in Columns \ DOMAIN set : row[x] # Absent => Shown(x, row'[x])[c] = Shown(x, row[x])[c]
  <2> DEFINE new == Stored(x, set)
             now == Changed(row[x], new)
  <2>1. DOMAIN new = DOMAIN set /\ new = [c \in DOMAIN new |-> new[c]] /\ DOMAIN set \subseteq Columns
    BY StoredFacts, ColumnFacts
  <2>2. /\ DOMAIN now = Columns /\ now = [c \in DOMAIN now |-> now[c]]
        /\ \A c \in Columns : now[c] = IF c \in DOMAIN new THEN new[c] ELSE row[x][c]
    BY DEF Changed
  <2>3. row[x] # Absent => row[x] \in Row
    BY DEF ConfigInv, ConfigTypeOK
  <2>4. row[x] # Absent => row[x] = [c \in DOMAIN row[x] |-> row[x][c]] /\ DOMAIN row[x] = Columns
    BY <2>3, ColumnFacts
  <2> HIDE DEF new, now
  <2>5. DOMAIN Shown(x, new) = DOMAIN new
    BY <2>1, ShownFacts
  <2>6. \A c \in DOMAIN new : Shown(x, now)[c] = Shown(x, new)[c]
    BY <2>1, <2>2, ShownFacts DEF Columns
  <2>7. \A c \in Columns \ DOMAIN new : row[x] # Absent => Shown(x, now)[c] = Shown(x, row[x])[c]
    BY <2>1, <2>2, <2>4, ShownFacts DEF Columns
  <2>8. QED
    BY <2>1, <2>5, <2>6, <2>7 DEF new, now
<1>4. ASSUME NEW c \in DOMAIN set PROVE Tells(x, c, Shown(x, row[x])[c])'
  <2>1. n + 1 \in Bringing(x, c)' /\ \A j \in Bringing(x, c)' : j <= n + 1
    BY <1>1, <1>2, <1>3 DEF Bringing
  <2>2. Shown(x, row'[x])[c] = audit'[x][n + 1].new[c]
    BY <1>1, <1>3
  <2>3. Shown(x, row[x])' = Shown(x, row'[x])
    BY DEF Shown
  <2>4. QED
    BY <2>1, <2>2, <2>3 DEF Tells
<1>5. ASSUME NEW c \in Columns \ DOMAIN set PROVE Tells(x, c, Shown(x, row[x])[c])'
  <2>1. row[x] # Absent
    BY <1>5
  <2>2. Tells(x, c, Shown(x, row[x])[c])
    BY <2>1 DEF AuditInv, Replays
  <2>3. Bringing(x, c)' = Bringing(x, c)
    <3>1. ASSUME NEW i \in base[x].at + 1 .. n PROVE audit'[x][i] = audit[x][i]
      BY <1>1, <1>2
    <3>2. c \notin DOMAIN audit'[x][n + 1].new
      BY <1>1, <1>3
    <3>3. base[x].at + 1 .. n + 1 = (base[x].at + 1 .. n) \cup {n + 1}
      BY <1>1, <1>2
    <3>4. QED
      BY <1>1, <3>1, <3>2, <3>3 DEF Bringing, n
  <2>4. \A i \in Bringing(x, c) : audit'[x][i] = audit[x][i]
    BY <1>1, <1>2 DEF Bringing, n
  <2>5. Shown(x, row'[x])[c] = Shown(x, row[x])[c]
    BY <1>3, <2>1
  <2>6. Shown(x, row[x])' = Shown(x, row'[x]) /\ Shown(x, base[x].row)' = Shown(x, base[x].row)
    BY DEF Shown
  <2>7. QED
    BY <2>2, <2>3, <2>4, <2>5, <2>6 DEF Tells
<1>6. QED
  BY <1>4, <1>5 DEF Replays

\* What a commit makes visible: one change with its audit row, or the rows of a setup.
LEMMA CommitChange ==
  ASSUME ConfigInv, Transactions, AuditInv, NEW r \in Requests, Commit(r), pc[r] = "audited"
  PROVE  LET x == ask[r].of
             set == ask[r].set IN
         /\ x \in Resources /\ set \in Change
         /\ row[x] = Absent => set \in Whole
         /\ row' = [row EXCEPT ![x] = Changed(row[x], Stored(x, set))] /\ row'[x] \in Row
         /\ entry[r] \in AuditRow /\ entry[r].new = Shown(x, Stored(x, set))
         /\ audit' = [audit EXCEPT ![x] = Append(audit[x], entry[r])]
         /\ base' = base
<1> DEFINE x == ask[r].of
           set == ask[r].set
<1>1. IsAsk(ask[r]) /\ ask[r].op # "setup"
  BY DEF ConfigInv, AskInv, InTx
<1>2. x \in Resources /\ set \in Change /\ (ask[r].op = "create" => set \in Whole)
  BY <1>1, AskFacts
<1>3. TxInv(r)
  BY DEF Transactions
<1>4. /\ LockedBy(r, x) /\ \A y \in Resources \ {x} : ~LockedBy(r, y)
      /\ writes[r][x] = Changed(row[x], Stored(x, set))
      /\ row[x] = Absent => set \in Whole
      /\ entry[r] \in AuditRow /\ entry[r].new = Shown(x, Stored(x, set))
  BY <1>2, <1>3 DEF TxInv
<1> HIDE DEF x, set
<1>5. writes[r][x] \in Row
  BY <1>2, <1>4 DEF LockedBy, ConfigInv, ConfigTypeOK
<1>6. row' = [row EXCEPT ![x] = Changed(row[x], Stored(x, set))]
  BY <1>2, <1>4 DEF Commit, View, LockedBy, ConfigInv, ConfigTypeOK
<1>7. row'[x] \in Row
  BY <1>2, <1>4, <1>5, <1>6 DEF ConfigInv, ConfigTypeOK
<1>8. audit' = [audit EXCEPT ![x] = Append(audit[x], entry[r])]
  BY <1>2, <1>4 DEF Commit, AuditInv
<1>9. base' = base
  BY DEF Commit, AuditInv
<1>10. QED
  BY <1>2, <1>4, <1>6, <1>7, <1>8, <1>9 DEF x, set

LEMMA CommitSetup ==
  ASSUME ConfigInv, Transactions, AuditInv, NEW r \in Requests, Commit(r), pc[r] = "setup"
  PROVE  /\ audit' = audit /\ DOMAIN row' = Resources /\ DOMAIN base' = Resources
         /\ \A x \in Resources :
              \/ row'[x] = row[x] /\ base'[x] = base[x]
              \/ /\ row'[x] \in Row /\ row'[x].status = "active"
                 /\ x \in Apps => row[x] = Absent
                 /\ base'[x] = [row |-> row'[x], at |-> Len(audit[x])]
<1>1. TxInv(r)
  BY DEF Transactions
<1>2. audit' = audit
  BY DEF Commit, AuditInv
<1>3. ASSUME NEW x \in Resources, LockedBy(r, x)
      PROVE  /\ row'[x] \in Row /\ row'[x].status = "active"
             /\ x \in Apps => row[x] = Absent
             /\ base'[x] = [row |-> row'[x], at |-> Len(audit[x])]
  BY <1>1, <1>3 DEF TxInv, Commit, View, LockedBy, ConfigInv, ConfigTypeOK
<1>4. ASSUME NEW x \in Resources, ~LockedBy(r, x)
      PROVE  row'[x] = row[x] /\ base'[x] = base[x]
  BY <1>4 DEF Commit, View, LockedBy
<1>5. DOMAIN row' = Resources /\ DOMAIN base' = Resources
  BY DEF Commit
<1>6. QED
  BY <1>2, <1>3, <1>4, <1>5

LEMMA CommitAudit ==
  ASSUME ConfigInv, Transactions, AuditInv, NEW r \in Requests, Commit(r)
  PROVE  AuditInv'
<1>1. CASE pc[r] = "audited"
  <2>1. PICK x \in Resources, set \in Change, e \in AuditRow :
          /\ row[x] = Absent => set \in Whole
          /\ row' = [row EXCEPT ![x] = Changed(row[x], Stored(x, set))] /\ row'[x] \in Row
          /\ e.new = Shown(x, Stored(x, set))
          /\ audit' = [audit EXCEPT ![x] = Append(audit[x], e)]
          /\ base' = base
    BY <1>1, CommitChange
  <2>2. audit' \in [Resources -> Seq(AuditRow)] /\ Len(audit'[x]) = Len(audit[x]) + 1
        /\ Len(audit[x]) \in Nat
    BY <2>1, AppendFacts DEF AuditInv
  <2>3. Replays(x)'
    <3>1. row'[x] = Changed(row[x], Stored(x, set)) /\ audit'[x] = Append(audit[x], e)
          /\ base'[x] = base[x]
      BY <2>1 DEF AuditInv, ConfigInv, ConfigTypeOK
    <3>2. row'[x] # Absent
      BY <2>1, ConfigAssumption
    <3>3. row[x] = Absent => DOMAIN set = Columns
      BY <2>1, ChangeFacts
    <3>4. QED
      BY <2>1, <3>1, <3>2, <3>3, ChangeReplays
  <2>4. ASSUME NEW y \in Resources \ {x}
        PROVE  Replays(y)' /\ audit'[y] = audit[y]
    <3>1. row'[y] = row[y] /\ audit'[y] = audit[y] /\ base'[y] = base[y]
      BY <2>1 DEF AuditInv, ConfigInv, ConfigTypeOK
    <3>2. Replays(y)
      BY DEF AuditInv
    <3>3. QED
      BY <3>1, <3>2, ReplaysOn
  <2>5. \A y \in Resources : base'[y].at <= Len(audit'[y])
    BY <2>1, <2>2, <2>4 DEF AuditInv
  <2>6. QED
    BY <2>1, <2>2, <2>3, <2>4, <2>5 DEF AuditInv
<1>2. CASE pc[r] = "setup"
  <2>1. /\ audit' = audit /\ DOMAIN row' = Resources /\ DOMAIN base' = Resources
        /\ base' = [x \in Resources |-> base'[x]]
        /\ \A x \in Resources :
             \/ row'[x] = row[x] /\ base'[x] = base[x]
             \/ row'[x] \in Row /\ base'[x] = [row |-> row'[x], at |-> Len(audit[x])]
    BY <1>2, CommitSetup DEF Commit
  <2>2. \A x \in Resources : Len(audit[x]) \in Nat
    BY DEF AuditInv
  <2>3. ASSUME NEW x \in Resources, row'[x] \in Row, base'[x] = [row |-> row'[x], at |-> Len(audit[x])]
        PROVE  Replays(x)'
    <3>1. row'[x] # Absent
      BY <2>3, ConfigAssumption
    <3>2. \A c \in Columns : Bringing(x, c)' = {}
      BY <2>1, <2>2, <2>3 DEF Bringing
    <3>3. QED
      BY <2>3, <3>1, <3>2 DEF Replays, Tells
  <2>4. ASSUME NEW x \in Resources PROVE Replays(x)'
    BY <2>1, <2>3, ReplaysOn DEF AuditInv
  <2>5. ASSUME NEW x \in Resources
        PROVE  base'[x] \in [row : Row \cup {Absent}, at : Nat] /\ base'[x].at <= Len(audit'[x])
    BY <2>1, <2>2 DEF AuditInv
  <2>6. QED
    BY <2>1, <2>4, <2>5 DEF AuditInv
<1>3. QED
  BY <1>1, <1>2 DEF Commit

\* Every other step leaves the rows and the log alone.
LEMMA NextTransactions ==
  IInv /\ Transactions /\ AuditInv /\ [Next]_vars => Transactions' /\ AuditInv'
<1> SUFFICES ASSUME IInv, Transactions, AuditInv, [Next]_vars
             PROVE  Transactions' /\ AuditInv'
  OBVIOUS
<1>1. ASSUME UNCHANGED <<row, audit, base>> PROVE AuditInv'
  BY <1>1 DEF AuditInv, Replays, Tells, Bringing, Shown
<1>2. ASSUME NEW r \in Requests, RequestStep(r) \/ Fails(r) PROVE Transactions' /\ AuditInv'
  <2>1. Request(r)
    BY <1>2 DEF RequestStep, Fails, Request
  <2>2. Commit(r) \/ UNCHANGED <<row, audit, base>>
    BY <2>1 DEF Request, Begin, InsertRow, ReadOld, UpdateRow, InsertAudit, SetupApp, SetupChannel, Rollback
  <2>3. QED
    BY <1>1, <2>1, <2>2, RequestTransactions, CommitAudit DEF IInv
<1>3. CASE UNCHANGED configVars
  BY <1>1, <1>3 DEF configVars, Transactions, LockInv, TxInv, LockedBy, Stored, Shown
<1>4. CASE Crash
  <2>1. \A r \in Requests : pc'[r] \in {"none", "done"} /\ writes'[r] = NoWrites
    BY <1>4 DEF Crash, ConfigCrash, IInv, ConfigInv, ConfigTypeOK, InTx
  <2>2. Transactions'
    BY <2>1 DEF Transactions, LockInv, TxInv, LockedBy, NoWrites
  <2>3. QED
    BY <1>1, <1>4, <2>2 DEF Crash, ConfigCrash
<1>5. QED
  BY <1>2, <1>3, <1>4 DEF Next, vars, GetStep, GetLook, GetLock, GetQuery, GetCreate, GetProvider,
     ListStep, ListQuery, ListLook, ListStore, ListFails, ListProviders

LEMMA InitTransactions == Init => Transactions /\ AuditInv
<1> SUFFICES ASSUME Init PROVE Transactions /\ AuditInv
  OBVIOUS
<1>1. Transactions
  BY DEF Init, ConfigInit, Transactions, LockInv, TxInv, LockedBy, NoWrites
<1>2. \A x \in Resources : row[x] \in Row \cup {Absent}
  BY TableAssumption DEF Init, ConfigInit
<1>3. /\ audit = [x \in Resources |-> <<>>]
      /\ base = [x \in Resources |-> [row |-> row[x], at |-> 0]]
  BY DEF Init, ConfigInit
<1>4. /\ audit \in [Resources -> Seq(AuditRow)]
      /\ base \in [Resources -> [row : Row \cup {Absent}, at : Nat]]
  BY <1>2, <1>3
<1>5. ASSUME NEW x \in Resources PROVE base[x].at <= Len(audit[x]) /\ Replays(x)
  <2>1. audit[x] = <<>> /\ base[x].row = row[x] /\ base[x].at = 0
    BY <1>3
  <2>2. \A c \in Columns : Bringing(x, c) = {}
    BY <2>1 DEF Bringing
  <2>3. QED
    BY <2>1, <2>2 DEF Replays, Tells
<1>6. QED
  BY <1>1, <1>4, <1>5 DEF AuditInv

LEMMA AlwaysTransactions == Spec => [](IInv /\ Transactions /\ AuditInv)
BY InitTransactions, NextTransactions, Always, PTL DEF Spec

\* However requests interleave, fail or are cut off by a crash, the audit log of every
\* row, taken in the order of commits, which is that of its ids, replays to what the API
\* shows of it, from the row that QuickSetupApp last wrote there without an audit row
\* (UpdateApp, UpdateChannelConfig and the other operations write row and audit row in
\* one transaction).
THEOREM AuditAlwaysReplays == Spec => []AuditReplays
<1>1. AuditInv => AuditReplays
  BY DEF AuditInv, Replays, AuditReplays
<1>2. QED
  BY <1>1, AlwaysTransactions, PTL

-----------------------------------------------------------------------------
(* The promise.                                                            *)

\* The state of ConfigPromise.
Rows == [x \in Resources |-> Opened(x, row[x])]
Log == [x \in Resources |-> [i \in DOMAIN audit[x] |-> audit[x][i].new]]

Seen == <<Rows, Log, providers, lived>>

\* A plain configuration is read back from what is stored of it, and shown alike.
LEMMA PlainReadsBack ==
  ASSUME NEW c \in PlainConfig, masterKey \in MasterKeys \cup {NoKey}
  PROVE  /\ DecryptConfig(EncryptConfig(c, masterKey)) = c
         /\ MaskConfig(EncryptConfig(c, masterKey)) = MaskConfig(c)
<1> USE KeyAssumption DEF PlainConfig, Plain, Sealed, IsEncryptedValue
<1>1. \A f \in Fields : c[f].seal = NoKey /\ c[f].text \in Texts /\ c[f] = Plain(c[f].text)
  OBVIOUS
<1>2. CASE masterKey = NoKey
  <2>1. EncryptConfig(c, masterKey) = c
    BY <1>1, <1>2 DEF EncryptConfig
  <2>2. QED
    BY <1>1, <2>1 DEF DecryptConfig
<1>3. CASE masterKey \in MasterKeys
  <2>1. c \in Config
    BY PlainType
  <2>2. MaskConfig(EncryptConfig(c, masterKey)) = MaskConfig(c)
    BY <1>3, <2>1, MaskHidesListed
  <2>3. ~DecryptFails(c, masterKey) /\ DecryptConfig(c) = c
    BY <1>1 DEF DecryptFails, DecryptConfig
  <2>4. QED
    BY <1>3, <2>1, <2>2, <2>3, EncryptionReadsBack
<1>4. QED
  BY <1>2, <1>3

\* A stored change, opened, is the change in the clear, and is shown masked.
LEMMA OpensChange ==
  ASSUME ConfigTypeOK, NEW x \in Resources, NEW set \in Change, NEW was \in Row \cup {Absent},
         was = Absent => set \in Whole
  PROVE  /\ Opened(x, Changed(was, Stored(x, set))) = Changed(Opened(x, was), set)
         /\ Shown(x, Stored(x, set)) = Shown(x, set)
<1> DEFINE new == Stored(x, set)
           now == Changed(was, new)
<1>1. /\ DOMAIN new = DOMAIN set /\ new = [c \in DOMAIN set |-> new[c]]
      /\ "status" \in DOMAIN set => new["status"] = set["status"]
      /\ "config" \in DOMAIN set =>
           new["config"] = IF x \in Configs THEN EncryptConfig(set["config"], masterKey)
                           ELSE set["config"]
  BY StoredFacts
<1>2. "config" \in DOMAIN set => set["config"] \in PlainConfig
  BY ChangeFacts DEF Brings
<1>3. was = Absent => DOMAIN set = Columns
  BY ChangeFacts
<1>4. set = [c \in DOMAIN set |-> set[c]] /\ DOMAIN set \subseteq Columns
  BY ColumnFacts
<1>5. x \in Configs /\ "config" \in DOMAIN set =>
        /\ DecryptConfig(new["config"]) = set["config"]
        /\ MaskConfig(new["config"]) = MaskConfig(set["config"])
  BY <1>1, <1>2, PlainReadsBack DEF ConfigTypeOK
<1> HIDE DEF new
<1>6. Shown(x, new) = Shown(x, set)
  <2> DEFINE a == Shown(x, new)
             b == Shown(x, set)
  <2>1. /\ DOMAIN a = DOMAIN set /\ a = [c \in DOMAIN set |-> a[c]]
        /\ "status" \in DOMAIN set => a["status"] = new["status"]
        /\ "config" \in DOMAIN set =>
              a["config"] = IF x \in Configs THEN MaskConfig(new["config"]) ELSE new["config"]
    BY <1>1, ShownFacts
  <2>2. /\ DOMAIN b = DOMAIN set /\ b = [c \in DOMAIN set |-> b[c]]
        /\ "status" \in DOMAIN set => b["status"] = set["status"]
        /\ "config" \in DOMAIN set =>
              b["config"] = IF x \in Configs THEN MaskConfig(set["config"]) ELSE set["config"]
    BY <1>4, ShownFacts
  <2> HIDE DEF a, b
  <2>3. \A c \in DOMAIN set : a[c] = b[c]
    BY <1>1, <1>4, <1>5, <2>1, <2>2 DEF Columns
  <2>4. a = b
    BY <2>1, <2>2, <2>3
  <2>5. QED
    BY <2>4 DEF a, b
<1>7. /\ now = [c \in Columns |-> now[c]]
      /\ \A c \in Columns : now[c] = IF c \in DOMAIN set THEN new[c] ELSE was[c]
  BY <1>1 DEF Changed
<1>8. now # Absent
  <2>1. new["status"] \in Statuses \/ "status" \notin DOMAIN set
    BY <1>1, ChangeFacts DEF Brings
  <2>2. now \in Row
    BY <1>1, <1>2, <1>3, <2>1, StoredRow, ChangeFacts DEF new, Brings
  <2>3. QED
    BY <2>2, ConfigAssumption
<1> HIDE DEF now
<1>9. Opened(x, now) = Changed(Opened(x, was), set)
  <2> DEFINE a == Opened(x, now)
  <2>1. /\ a = [c \in Columns |-> a[c]] /\ a["status"] = now["status"]
        /\ a["config"] = IF x \in Configs THEN DecryptConfig(now["config"]) ELSE now["config"]
    BY <1>7, <1>8 DEF Opened, Columns
  <2>2. was # Absent =>
          /\ Opened(x, was)["status"] = was["status"]
          /\ Opened(x, was)["config"] = IF x \in Configs THEN DecryptConfig(was["config"]) ELSE was["config"]
    BY DEF Opened, Row
  <2> HIDE DEF a
  <2>3. \A c \in Columns : a[c] = IF c \in DOMAIN set THEN set[c] ELSE Opened(x, was)[c]
    BY <1>1, <1>3, <1>4, <1>5, <1>7, <2>1, <2>2 DEF Columns
  <2>4. a = Changed(Opened(x, was), set)
    BY <2>1, <2>3 DEF Changed
  <2>5. QED
    BY <2>4 DEF a
<1>10. QED
  BY <1>6, <1>9 DEF now, new

\* ConfigPromise has its own copy of ConfigCrypto.
LEMMA SameChanges ==
  /\ Promise!Row = Row /\ Promise!Resources = Resources
  /\ Promise!Whole = Whole /\ Promise!Change = Change
  /\ \A x \in Resources, set \in Change : Promise!Masked(x, set) = Shown(x, set)
  /\ \A was, set : Promise!Applied(was, set) = Changed(was, set)
<1>1. Promise!Config = Config /\ Promise!PlainConfig = PlainConfig
  BY DEF Promise!Config, Config, Promise!Value, Value, Promise!PlainConfig, PlainConfig, Promise!Plain, Plain
<1>2. /\ Promise!Row = Row /\ Promise!Resources = Resources
      /\ Promise!Whole = Whole /\ Promise!Change = Change
  BY <1>1 DEF Promise!Row, Row, Promise!Resources, Resources, Promise!Statuses, Statuses,
       Promise!Whole, Whole, Promise!Change, Change
<1>3. \A c : Promise!MaskConfig(c) = MaskConfig(c)
  BY DEF Promise!MaskConfig, MaskConfig, Promise!Transformed, Transformed, Promise!IsEncryptedValue,
     IsEncryptedValue, Promise!Plain, Plain
<1>4. \A x \in Resources, set \in Change : Promise!Masked(x, set) = Shown(x, set)
  BY <1>3 DEF Promise!Masked, Shown
<1>5. \A was, set : Promise!Applied(was, set) = Changed(was, set)
  BY DEF Promise!Applied, Changed, Columns
<1>6. QED
  BY <1>2, <1>4, <1>5

\* What is in force comes from the rows in the clear.
LEMMA ActiveRows ==
  ConfigTypeOK => \A k \in Configs : Promise!ActiveOf(Rows, k) = Active(row)[k]
<1> SUFFICES ASSUME ConfigTypeOK, NEW k \in Configs
             PROVE  Promise!ActiveOf(Rows, k) = Active(row)[k]
  OBVIOUS
<1>1. k \in Resources /\ Rows[k] = Opened(k, row[k]) /\ row[k] \in Row \cup {Absent}
  BY DEF Resources, Rows, ConfigTypeOK
<1>2. CASE row[k] = Absent
  BY <1>1, <1>2 DEF Promise!ActiveOf, Active, Opened
<1>3. CASE row[k] # Absent
  <2>1. /\ Rows[k].config = DecryptConfig(row[k].config) /\ Rows[k].status = row[k].status
        /\ Rows[k] \in Row
    <3>1. Rows[k] = [row[k] EXCEPT !.config = DecryptConfig(@)]
      BY <1>1, <1>3 DEF Opened
    <3>2. DecryptConfig(row[k].config) \in Config
      BY <1>1, <1>3, DecryptType DEF Row
    <3>3. QED
      BY <1>1, <1>3, <3>1, <3>2 DEF Row
  <2>2. Rows[k] # Absent
    BY <2>1, ConfigAssumption
  <2>3. QED
    BY <1>3, <2>1, <2>2 DEF Promise!ActiveOf, Active
<1>4. QED
  BY <1>2, <1>3

\* What was in force stays so, and what comes into force is what the rows hold by then.
LEMMA InForce ==
  ASSUME ConfigTypeOK', lived' = [k \in Configs |-> lived[k] \cup Active(row')[k]]
  PROVE  Promise!ComesIntoForce
<1>1. \A k \in Configs : Promise!ActiveOf(Rows', k) = Active(row')[k]
  <2>1. (\A k \in Configs : Promise!ActiveOf(Rows, k) = Active(row)[k])'
    BY ActiveRows, PTL
  <2>2. QED
    BY <2>1 DEF Promise!ActiveOf, Active
<1>2. lived' = [k \in Configs |-> lived[k] \cup Promise!ActiveOf(Rows', k)]
  BY <1>1
<1>3. QED
  BY <1>2 DEF Promise!ComesIntoForce, Rows

LEMMA CommitWrites ==
  ASSUME IInv, ConfigTypeOK', Transactions, AuditInv, NEW r \in Requests,
         Commit(r), pc[r] = "audited",
         lived' = [k \in Configs |-> lived[k] \cup Active(row')[k]], UNCHANGED providers
  PROVE  \E x \in Resources : Promise!Write(x)
<1>1. PICK x \in Resources, set \in Change, e \in AuditRow :
        /\ row[x] = Absent => set \in Whole
        /\ row' = [row EXCEPT ![x] = Changed(row[x], Stored(x, set))] /\ row'[x] \in Row
        /\ e.new = Shown(x, Stored(x, set))
        /\ audit' = [audit EXCEPT ![x] = Append(audit[x], e)]
        /\ base' = base
  BY CommitChange DEF IInv
<1>2. /\ row \in [Resources -> Row \cup {Absent}] /\ audit \in [Resources -> Seq(AuditRow)]
      /\ ConfigTypeOK
  BY DEF IInv, ConfigInv, ConfigTypeOK, AuditInv
<1>3. /\ Opened(x, row'[x]) = Changed(Opened(x, row[x]), set)
      /\ e.new = Shown(x, set)
  BY <1>1, <1>2, OpensChange
<1>4. Rows' = [Rows EXCEPT ![x] = Changed(Rows[x], set)]
  BY <1>1, <1>2, <1>3 DEF Rows, Opened
<1>5. /\ Log' = [Log EXCEPT ![x] = Append(Log[x], Shown(x, set))]
      /\ Log'[x] # Log[x]
  <2>1. /\ \A y \in Resources : audit[y] \in Seq(AuditRow) /\ DOMAIN audit[y] = 1 .. Len(audit[y])
        /\ audit'[x] = Append(audit[x], e)
        /\ \A y \in Resources \ {x} : audit'[y] = audit[y]
    BY <1>1, <1>2
  <2> DEFINE n == Len(audit[x])
             longer == Append(audit[x], e)
             was == [i \in 1 .. n |-> audit[x][i].new]
             now == [i \in 1 .. n + 1 |-> longer[i].new]
  <2>2. /\ n \in Nat
        /\ \A i \in 1 .. n : longer[i] = audit[x][i]
        /\ longer[n + 1] = e
    BY <2>1, AppendFacts
  <2>3. Log[x] = was /\ Log'[x] = now
    <3>1. DOMAIN longer = 1 .. n + 1 /\ DOMAIN audit[x] = 1 .. n
      BY <2>1, AppendFacts
    <3>2. Log[x] = [i \in DOMAIN audit[x] |-> audit[x][i].new]
          /\ Log'[x] = [i \in DOMAIN audit'[x] |-> audit'[x][i].new]
      BY DEF Log
    <3>3. QED
      BY <2>1, <3>1, <3>2
  <2>4. now = Append(was, e.new) /\ now # was
    <3> HIDE DEF n, longer
    <3>1. was \in Seq(Shows) /\ Len(was) = n /\ e.new \in Shows
      <4>1. \A i \in 1 .. n : audit[x][i] \in AuditRow
        BY <2>1 DEF n
      <4>2. QED
        BY <2>2, <4>1 DEF AuditRow
    <3>2. Append(was, e.new) = [i \in 1 .. n + 1 |-> IF i = n + 1 THEN e.new ELSE was[i]]
      BY <2>2, <3>1
    <3>3. \A i \in 1 .. n + 1 : longer[i].new = IF i = n + 1 THEN e.new ELSE was[i]
      BY <2>2
    <3>4. now = Append(was, e.new)
      <4> HIDE DEF was
      <4>1. QED
        BY <3>2, <3>3
    <3>5. DOMAIN now # DOMAIN was
      <4>1. n + 1 \in 1 .. n + 1 /\ n + 1 \notin 1 .. n
        BY <2>2
      <4>2. QED
        BY <4>1
    <3>6. QED
      BY <3>4, <3>5
  <2>5. \A y \in Resources \ {x} : Log'[y] = Log[y]
    BY <2>1 DEF Log
  <2> HIDE DEF was, now
  <2>6. DOMAIN Log = Resources /\ DOMAIN Log' = Resources /\ Log = [y \in Resources |-> Log[y]]
        /\ Log' = [y \in Resources |-> Log'[y]]
    BY DEF Log
  <2>7. QED
    BY <1>3, <2>3, <2>4, <2>5, <2>6
<1>6. Promise!ComesIntoForce
  BY InForce
<1>7. Log' = [Log EXCEPT ![x] = Append(Log[x], Promise!Masked(x, set))]
      /\ Rows' = [Rows EXCEPT ![x] = Promise!Applied(Rows[x], set)]
      /\ set \in Promise!Change /\ (Rows[x] = Absent => set \in Promise!Whole)
  <2>1. Rows[x] = Absent => row[x] = Absent
    <3>1. row[x] \in Row \cup {Absent} /\ Rows[x] = Opened(x, row[x])
      BY <1>2 DEF Rows
    <3>2. row[x] # Absent => Opened(x, row[x]) \in Row
      BY <3>1, DecryptType DEF Opened, Row
    <3>3. QED
      BY <3>1, <3>2, ConfigAssumption
  <2>2. QED
    BY <1>1, <1>4, <1>5, <2>1, SameChanges
<1>8. QED
  BY <1>5, <1>6, <1>7 DEF Promise!Write, Rows, Log

LEMMA CommitSetsUp ==
  ASSUME IInv, ConfigTypeOK', Transactions, AuditInv, NEW r \in Requests,
         Commit(r), pc[r] = "setup",
         lived' = [k \in Configs |-> lived[k] \cup Active(row')[k]], UNCHANGED providers
  PROVE  Promise!QuickSetup
<1>1. /\ audit' = audit
      /\ \A x \in Resources :
           \/ row'[x] = row[x]
           \/ /\ row'[x] \in Row /\ row'[x].status = "active"
              /\ x \in Apps => row[x] = Absent
  BY CommitSetup DEF IInv
<1>2. ASSUME NEW x \in Resources, Rows'[x] # Rows[x]
      PROVE  /\ Rows'[x] \in Row /\ Rows'[x].status = "active"
             /\ x \in Apps => Rows[x] = Absent
  <2>1. Rows'[x] = Opened(x, row'[x]) /\ Rows[x] = Opened(x, row[x])
    BY DEF Rows, Opened
  <2>2. /\ row'[x] \in Row /\ row'[x].status = "active"
        /\ x \in Apps => row[x] = Absent
    BY <1>1, <1>2, <2>1
  <2>3. \A v \in Row : Opened(x, v) \in Row /\ Opened(x, v).status = v.status
    BY DecryptType DEF Opened, Row
  <2>4. QED
    BY <2>1, <2>2, <2>3 DEF Opened
<1>3. DOMAIN Rows' = Resources
  BY DEF Rows
<1>4. Log' = Log
  BY <1>1 DEF Log
<1>5. \A x \in Promise!Resources :
        Rows'[x] # Rows[x] =>
          /\ Rows'[x] \in Promise!Row /\ Rows'[x].status = "active"
          /\ x \in Apps => Rows[x] = Absent
  BY <1>2, SameChanges
<1>6. DOMAIN Rows' = Promise!Resources
  BY <1>3, SameChanges
<1>7. QED
  BY <1>4, <1>5, <1>6, InForce DEF Promise!QuickSetup, Rows, Log

LEMMA RequestKeepsPromise ==
  ASSUME IInv, IInv', Transactions, AuditInv, NEW r \in Requests, RequestStep(r)
  PROVE  Promise!Next \/ UNCHANGED Seen
<1>1. /\ lived' = [k \in Configs |-> lived[k] \cup Active(row')[k]] /\ UNCHANGED providers
      /\ ConfigTypeOK'
  BY DEF RequestStep, IInv, ConfigInv
<1>2. CASE Commit(r) /\ pc[r] = "audited"
  <2>1. PICK x \in Resources : Promise!Write(x)
    BY <1>1, <1>2, CommitWrites
  <2>2. QED
    BY <2>1, SameChanges DEF Promise!Next
<1>3. CASE Commit(r) /\ pc[r] = "setup"
  BY <1>1, <1>3, CommitSetsUp DEF Promise!Next
<1>4. CASE UNCHANGED <<row, audit>>
  <2>1. lived' = lived
    <3>1. \A k \in Configs : lived[k] \cup Active(row)[k] = lived[k]
      BY DEF IInv, ManagerInv, LivedInv
    <3>2. lived' = [k \in Configs |-> lived[k]]
      BY <1>1, <1>4, <3>1
    <3>3. QED
      BY <3>2 DEF IInv, ManagerInv, ManagerType
  <2>2. QED
    BY <1>1, <1>4, <2>1 DEF Seen, Rows, Log, Opened
<1>5. QED
  BY <1>2, <1>3, <1>4 DEF RequestStep, Commit, Begin, InsertRow, ReadOld, UpdateRow, InsertAudit, SetupApp,
       SetupChannel, Rollback

\* Both ways into the cache load a configuration that was in force.
LEMMA ManagerKeepsPromise ==
  ASSUME IInv, \/ \E c \in Getters : GetStep(c) \/ \E k \in Configs : GetProvider(c, k)
               \/ \E c \in Listers : ListStep(c) \/ ListFails(c)
                                         \/ \E prefix \in Selections : ListProviders(c, prefix)
  PROVE  Promise!Next \/ UNCHANGED Seen
<1>1. UNCHANGED <<row, audit, lived>>
  BY DEF GetStep, GetLook, GetLock, GetQuery, GetCreate, GetProvider,
     ListStep, ListQuery, ListLook, ListStore, ListFails, ListProviders, configVars
<1>2. UNCHANGED <<Rows, Log>>
  BY <1>1 DEF Rows, Log, Opened
<1>3. ASSUME NEW k \in Configs, NEW config \in lived[k], providers' = [providers EXCEPT ![k] = config]
      PROVE  Promise!Next
  <2>1. Promise!Load(k)
    BY <1>1, <1>2, <1>3 DEF Promise!Load, Rows, Log
  <2>2. QED
    BY <2>1 DEF Promise!Next
<1>4. ASSUME NEW c \in Getters, GetCreate(c) PROVE Promise!Next \/ UNCHANGED providers
  <2>1. get[c].of \in Configs /\ NewProvider(get[c].row.config) \in lived[get[c].of]
    BY <1>4, IdleFacts DEF IInv, ManagerInv, ManagerType, IsGet, LivedInv, GetLived, Lived, NewProvider, GetCreate
  <2>2. QED
    BY <1>3, <1>4, <2>1 DEF GetCreate
<1>5. ASSUME NEW c \in Listers, ListStore(c) PROVE Promise!Next
  <2>1. list[c].of \in Configs /\ list[c].provider \in lived[list[c].of]
    BY <1>5, IdleFacts DEF IInv, ManagerInv, ManagerType, IsList, IsTodo, LivedInv, ListLived, ListStore
  <2>2. QED
    BY <1>3, <1>5, <2>1 DEF ListStore
<1>6. Promise!Next \/ UNCHANGED providers
  BY <1>4, <1>5 DEF GetStep, GetLook, GetLock, GetQuery, GetProvider, ListStep, ListQuery, ListLook, ListFails,
     ListProviders
<1>7. QED
  BY <1>1, <1>2, <1>6 DEF Seen

LEMMA CrashKeepsPromise ==
  ASSUME IInv, Crash
  PROVE  Promise!Next
<1>1. UNCHANGED <<Rows, Log>> /\ lived' = Active(row) /\ providers' = [k \in Configs |-> Absent]
  BY DEF Crash, ConfigCrash, Rows, Log, Opened
<1>2. Active(row) = [k \in Configs |-> Promise!ActiveOf(Rows, k)]
  <2>1. Active(row) = [k \in Configs |-> Active(row)[k]]
    BY DEF Active
  <2>2. QED
    BY <2>1, ActiveRows DEF IInv, ConfigInv
<1>3. Promise!Restart
  BY <1>1, <1>2 DEF Promise!Restart, Rows, Log
<1>4. QED
  BY <1>3 DEF Promise!Next

\* Transactions, reads outside them, row locks, rollbacks, crashes, encryption and a
\* cache look like one change after another, each applied to the row as it is then
\* and, unless a quick setup made it, on record (config_service.go,
\* config_template_service.go, channel_manager.go).
THEOREM ConfigurationKeepsPromise == Spec => PromiseKept
<1>1. Init => Promise!Init
  <2> SUFFICES ASSUME Init PROVE Promise!Init
    OBVIOUS
  <2>1. ConfigTypeOK
    BY InitIInv DEF IInv, ConfigInv
  <2>2. Rows \in [Promise!Resources -> Promise!Row \cup {Absent}]
    <3>1. \A x \in Resources : Opened(x, row[x]) \in Row \cup {Absent}
      BY <2>1, DecryptType DEF ConfigTypeOK, Opened, Row
    <3>2. QED
      BY <3>1, SameChanges DEF Rows
  <2>3. Log = [x \in Promise!Resources |-> <<>>]
    <3>1. \A x \in Resources : audit[x] = <<>>
      BY DEF Init, ConfigInit
    <3>2. \A f : [i \in DOMAIN <<>> |-> f[i].new] = <<>>
      OBVIOUS
    <3>3. \A x \in Resources : [i \in DOMAIN audit[x] |-> audit[x][i].new] = <<>>
      BY <3>1, <3>2
    <3>4. QED
      BY <3>3, SameChanges DEF Log
  <2>4. lived = [k \in Configs |-> Promise!ActiveOf(Rows, k)]
    <3>1. Active(row) = [k \in Configs |-> Active(row)[k]]
      BY DEF Active
    <3>2. QED
      BY <2>1, <3>1, ActiveRows DEF Init
  <2>5. QED
    BY <2>2, <2>3, <2>4 DEF Promise!Init, Init, Rows, Log
<1>2. IInv /\ IInv' /\ Transactions /\ AuditInv /\ [Next]_vars => Promise!Next \/ UNCHANGED Seen
  <2> SUFFICES ASSUME IInv, IInv', Transactions, AuditInv, [Next]_vars
               PROVE  Promise!Next \/ UNCHANGED Seen
    OBVIOUS
  <2>1. CASE \E r \in Requests : RequestStep(r)
    BY <2>1, RequestKeepsPromise
  <2>2. CASE \E r \in Requests : Fails(r)
    BY <2>2 DEF Fails, Rollback, managerVars, Seen, Rows, Log, Opened
  <2>3. CASE \/ \E c \in Getters : GetStep(c) \/ \E k \in Configs : GetProvider(c, k)
             \/ \E c \in Listers : ListStep(c) \/ ListFails(c)
                                       \/ \E prefix \in Selections : ListProviders(c, prefix)
    BY <2>3, ManagerKeepsPromise
  <2>4. CASE Crash
    BY <2>4, CrashKeepsPromise
  <2>5. CASE UNCHANGED vars
    BY <2>5 DEF vars, configVars, managerVars, Seen, Rows, Log, Opened
  <2>6. QED
    BY <2>1, <2>2, <2>3, <2>4, <2>5 DEF Next
<1>3. UNCHANGED Seen => UNCHANGED Promise!vars
  BY DEF Seen, Promise!vars, Rows, Log
<1>4. QED
  BY <1>1, <1>2, <1>3, AlwaysTransactions, PTL DEF Spec, PromiseKept, Promise!Spec

-----------------------------------------------------------------------------
(* No standstill.                                                          *)

\* Whoever waits for a row waits for a transaction that has written.
LEMMA WaitedFor ==
  ASSUME IInv, Transactions, NEW r \in Requests, NEW s \in WaitsFor(r)
  PROVE  s \in Requests /\ InTx(s) /\ pc[s] \notin {"begun", "read"}
<1>1. s \in Requests /\ \E x \in Target(r) : LockedBy(s, x)
  BY DEF WaitsFor
<1>2. Target(r) \subseteq Resources
  <2>1. CASE pc[r] \in {"begun", "read"}
    BY <2>1, AskFacts DEF Target, IInv, ConfigInv, AskInv, InTx
  <2>2. CASE pc[r] = "setup" /\ ask[r].set # <<>>
    <3>1. Head(ask[r].set)[1] \in Configs
      BY <2>2, SetupFacts DEF IInv
    <3>2. QED
      BY <2>2, <3>1 DEF Target, Resources
  <2>3. CASE ~(pc[r] \in {"begun", "read"} \/ (pc[r] = "setup" /\ ask[r].set # <<>>))
    BY <2>3 DEF Target
  <2>4. QED
    BY <2>1, <2>2, <2>3
<1>3. writes[s] # NoWrites
  BY <1>1, <1>2 DEF LockedBy, NoWrites
<1>4. QED
  BY <1>1, <1>3 DEF IInv, ConfigInv, ConfigTypeOK, Transactions, TxInv

\* Requests that wait for rows only, all of them for each other, are deadlocked.
LEMMA WaitInCircle ==
  ASSUME IInv, Transactions,
         \A s \in Requests : InTx(s) /\ pc[s] # "begun" => WaitsFor(s) # {},
         NEW r \in Requests, WaitsFor(r) # {}
  PROVE  Deadlocked(r)
<1> DEFINE S == {s \in Requests : WaitsFor(s) # {}}
<1>1. ASSUME NEW s \in S PROVE WaitsFor(s) \cap S # {}
  <2>1. PICK t : t \in WaitsFor(s)
    OBVIOUS
  <2>2. t \in Requests /\ InTx(t) /\ pc[t] # "begun"
    BY <2>1, WaitedFor
  <2>3. QED
    BY <2>1, <2>2
<1>2. S \in SUBSET Requests /\ r \in S
  OBVIOUS
<1> HIDE DEF S
<1>3. QED
  BY <1>1, <1>2 DEF Deadlocked

\* There is no state in which row locks, connections and the lock hold every call up,
\* but for a deadlock of row locks, which the database ends, and a starved pool
\* (GetApp inside UpdateApp, ListProvidersByChannelPrefix over GetProvider).
THEOREM NeverAtStandstill == Spec => []NoStandstill
<1>1. IInv /\ Transactions => NoStandstill
  <2> SUFFICES ASSUME IInv, Transactions,
                      \A r \in Requests : InTx(r) => RequestWaits(r) /\ ~Deadlocked(r),
                      \A c \in Getters : get[c] # NoCall => GetWaits(c),
                      \A c \in Listers : list[c] # NoCall => ListWaits(c)
               PROVE  \/ Starved
                      \/ /\ \A r \in Requests : ~InTx(r)
                         /\ \A c \in Getters : get[c] = NoCall
                         /\ \A c \in Listers : list[c] = NoCall
    BY DEF NoStandstill
  <2>1. MuHeld => ~Connected /\ \E c \in Getters : get[c].at = "query"
    BY IdleFacts DEF MuHeld, GetWaits
  <2>2. ASSUME NEW r \in Requests, InTx(r), WaitsFor(r) # {},
               \A s \in Requests : InTx(s) /\ pc[s] # "begun" => WaitsFor(s) # {}
        PROVE  FALSE
    BY <2>2, WaitInCircle
  <2>3. \A s \in Requests : InTx(s) /\ pc[s] # "begun" => WaitsFor(s) # {}
    BY DEF RequestWaits
  <2>4. CASE Connected
    <3>1. ~MuHeld
      BY <2>1, <2>4
    <3>2. \A c \in Getters : get[c] = NoCall
      BY <2>4, <3>1, IdleFacts DEF GetWaits
    <3>3. \A c \in Listers : list[c] = NoCall
      BY <2>4, <3>1 DEF ListWaits
    <3>4. \A r \in Requests : ~InTx(r)
      BY <2>2, <2>3, <2>4 DEF RequestWaits
    <3>5. QED
      BY <3>2, <3>3, <3>4
  <2>5. CASE ~Connected
    <3>1. ASSUME NEW r \in Requests, InTx(r)
          PROVE  pc[r] = "begun" /\ ask[r].op = "update"
      BY <2>2, <2>3, <3>1 DEF RequestWaits
    <3>2. ASSUME NEW c \in Listers, Listing(c)
          PROVE  MuHeld
      BY <3>2, IdleFacts DEF Listing, ListWaits
    <3>3. QED
      BY <2>1, <2>5, <3>1, <3>2 DEF Starved
  <2>6. QED
    BY <2>4, <2>5
<1>2. QED
  BY <1>1, AlwaysTransactions, PTL

=============================================================================
