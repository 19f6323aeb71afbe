---------------------------- MODULE ConfigService ---------------------------
(***************************************************************************)
(* The administrators' requests that change apps and channel               *)
(* configurations (internal/admin/config_handler.go over                   *)
(* internal/service/config_service.go, and QuickSetupApp of                *)
(* config_template_service.go), with their transactions, row locks,        *)
(* connections and audit log.                                              *)
(*                                                                         *)
(* A transaction reads what is committed (PostgreSQL's READ COMMITTED) and *)
(* locks the rows that it writes.  UpdateApp and UpdateChannelConfig read  *)
(* the old value outside their transaction, over a second connection.  An  *)
(* app and a channel configuration are rows of one kind here: a            *)
(* configuration and a status.                                             *)
(***************************************************************************)
EXTENDS ConfigCrypto, Naturals, Sequences, FiniteSets

CONSTANTS
  Requests,  \* the administrators' requests
  Apps,      \* app_id
  Configs,   \* the rows of channel_configs, one of an app and a channel
  AppOf,     \* the app of a row
  Defaults,  \* default_values of the active template of its channel
  Asks,      \* what a request may ask for
  Tables,    \* what a process may find in the tables
  MaxConns,  \* SetMaxOpenConns
  Absent,    \* no such row; no old value
  Untouched  \* not written by a transaction

Resources == Apps \cup Configs

\* A row of a table.
Statuses == {"active", "disabled"}
Row == [config : Config, status : Statuses]
Columns == {"config", "status"}

ASSUME ConfigAssumption ==
  /\ Apps \cap Configs = {}
  /\ AppOf \in [Configs -> Apps]
  /\ Absent \notin Row /\ Untouched \notin Row \cup {Absent}
  /\ MaxConns \in Nat \ {0}

VARIABLES
  masterKey, \* MASTER_KEY of the process
  row,       \* apps and channel_configs, as committed
  audit,     \* config_audit_logs of a row, in the order of commits and of their ids
  pc,        \* how far a request has come
  ask,       \* what it asks for, as far as not yet done
  old,       \* oldApp or oldConfig, read by an update
  writes,    \* the rows that its transaction has written and locked
  entry,     \* the audit row of its transaction
  base       \* history: a row as last written without audit, and its log's length then

configVars == <<masterKey, row, audit, pc, ask, old, writes, entry, base>>

\* What config_handler.go lets through: an update brings some of the columns.
Whole == [config : PlainConfig, status : Statuses]
Change == Whole \cup [config : PlainConfig] \cup [status : Statuses]

CreatesApp(a) == a.op = "create" /\ a.of \in Apps /\ a.set \in Whole
UpdatesApp(a) == a.op = "update" /\ a.of \in Apps /\ a.set \in Change
CreatesConfig(a) == a.op = "create" /\ a.of \in Configs /\ a.set \in Whole
UpdatesConfig(a) == a.op = "update" /\ a.of \in Configs /\ a.set \in Change
SetsUp(a) ==
  a \in [op : {"setup"}, of : Apps, app : PlainConfig,
         set : Seq(Configs \X UNION {[F -> {Plain(t) : t \in Texts}] : F \in SUBSET Fields})]

IsAsk(a) ==
  SetsUp(a) \/ CreatesApp(a) \/ UpdatesApp(a) \/ CreatesConfig(a) \/ UpdatesConfig(a)

\* DeleteApp and DeleteChannelConfig.
Deletes(x) == [op |-> "update", of |-> x, set |-> [status |-> "disabled"]]

ASSUME DefaultsAssumption == Defaults \in [Configs -> Config]
ASSUME TableAssumption == Tables \subseteq [Resources -> Row \cup {Absent}]
ASSUME AskAssumption == \A a \in Asks : IsAsk(a)

NoWrites == [x \in Resources |-> Untouched]

InTx(r) == pc[r] \in {"begun", "read", "written", "audited", "setup"}

ConfigInit ==
  /\ masterKey \in MasterKeys
  /\ row \in Tables
  /\ audit = [x \in Resources |-> <<>>]
  /\ pc = [r \in Requests |-> "none"]
  /\ ask = [r \in Requests |-> Absent]
  /\ old = [r \in Requests |-> Absent]
  /\ writes = [r \in Requests |-> NoWrites]
  /\ entry = [r \in Requests |-> Absent]
  /\ base = [x \in Resources |-> [row |-> row[x], at |-> 0]]

-----------------------------------------------------------------------------
(* Rows and what is shown of them.                                         *)

\* The configuration of a channel is stored encrypted and shown masked, in the audit
\* log and in the answers of the API; an app has no such configuration.
Stored(x, set) ==
  IF x \in Configs /\ "config" \in DOMAIN set
  THEN [set EXCEPT !.config = EncryptConfig(@, masterKey)] ELSE set

Shown(x, set) ==
  IF x \in Configs /\ "config" \in DOMAIN set
  THEN [set EXCEPT !.config = MaskConfig(@)] ELSE set

Unstorable(x, set) ==
  x \in Configs /\ "config" \in DOMAIN set /\ EncryptFails(set.config, masterKey)

\* QuickSetupApp: the template's defaults under the request's values.
FinalConfig(k, c) ==
  [f \in Fields |-> IF f \in DOMAIN c THEN c[f] ELSE Defaults[k][f]]

\* UPDATE ... SET
Changed(was, set) ==
  [c \in Columns |-> IF c \in DOMAIN set THEN set[c] ELSE was[c]]

\* What a transaction sees of a row, and whether it may write it.
View(r, x) == IF writes[r][x] = Untouched THEN row[x] ELSE writes[r][x]
LockedBy(s, x) == writes[s][x] # Untouched
Lockable(r, x) == \A s \in Requests \ {r} : ~LockedBy(s, x)

Writes(r, x, v) == writes' = [writes EXCEPT ![r][x] = v]

Goes(r, to) == pc' = [pc EXCEPT ![r] = to]

\* The row that a request has to write next.
Target(r) ==
  CASE pc[r] = "begun" /\ ask[r].op # "update" /\ row[ask[r].of] = Absent -> {ask[r].of}
    [] pc[r] = "read" -> {ask[r].of}
    [] pc[r] = "setup" /\ ask[r].set # <<>> -> {Head(ask[r].set)[1]}
    [] OTHER -> {}

-----------------------------------------------------------------------------
(* Steps of a request; connected says whether the pool has a connection.   *)

\* BeginTx.  CreateChannelConfig encrypts before it, and may fail there.
Begin(r, a, connected) ==
  /\ pc[r] = "none"
  /\ \/ a.op = "create" /\ Unstorable(a.of, a.set) /\ Goes(r, "done") /\ UNCHANGED ask
     \/ /\ ~(a.op = "create" /\ Unstorable(a.of, a.set))
        /\ connected
        /\ Goes(r, "begun")
        /\ ask' = [ask EXCEPT ![r] = a]
  /\ UNCHANGED <<masterKey, row, audit, old, writes, entry, base>>

\* Mutant: the transaction is not ended.
RollbackForgotten(r) ==
  /\ InTx(r)
  /\ Goes(r, "done")
  /\ UNCHANGED <<masterKey, row, audit, ask, old, writes, entry, base>>

\* Any statement fails, or the client gives up: the deferred Rollback.
Rollback(r) ==
  /\ InTx(r)
  /\ Goes(r, "done")
  /\ writes' = [writes EXCEPT ![r] = NoWrites]
  /\ entry' = [entry EXCEPT ![r] = Absent]
  /\ old' = [old EXCEPT ![r] = Absent]
  /\ ask' = [ask EXCEPT ![r] = Absent]
  /\ UNCHANGED <<masterKey, row, audit, base>>

\* The errors that the code or the database finds for certain: such a row exists or
\* its app does not, there is nothing to update, or no key to encrypt with.
Refused(r, connected) ==
  LET x == ask[r].of IN
  \/ /\ pc[r] = "begun" /\ ask[r].op = "create"
     /\ row[x] # Absent \/ (x \in Configs /\ row[AppOf[x]] = Absent)
  \/ /\ pc[r] = "begun" /\ ask[r].op = "update"
     /\ connected /\ row[x] = Absent
  \/ pc[r] = "read" /\ Unstorable(x, ask[r].set)
  \/ /\ pc[r] = "setup" /\ ask[r].set # <<>>
     /\ LET next == Head(ask[r].set) IN
        EncryptFails(FinalConfig(next[1], next[2]), masterKey)

\* INSERT INTO apps or channel_configs.
InsertRow(r) ==
  /\ pc[r] = "begun" /\ ask[r].op = "create"
  /\ LET x == ask[r].of IN
       /\ Lockable(r, x)
       /\ row[x] = Absent
       /\ x \in Configs => row[AppOf[x]] # Absent
       /\ Writes(r, x, Changed(Absent, Stored(x, ask[r].set)))
  /\ Goes(r, "written")
  /\ UNCHANGED <<masterKey, row, audit, ask, old, entry, base>>

\* GetApp or GetChannelConfig of an update, outside its transaction.
ReadOld(r, connected) ==
  /\ pc[r] = "begun" /\ ask[r].op = "update"
  /\ connected
  /\ row[ask[r].of] # Absent
  /\ old' = [old EXCEPT ![r] = row[ask[r].of]]
  /\ Goes(r, "read")
  /\ UNCHANGED <<masterKey, row, audit, ask, writes, entry, base>>

\* Mutant: all columns are written, those that the request does not bring as they
\* were read.
WritesBack(r) ==
  /\ pc[r] = "read"
  /\ LET x == ask[r].of IN
       /\ Lockable(r, x)
       /\ ~Unstorable(x, ask[r].set)
       /\ Writes(r, x, Changed(old[r], Stored(x, ask[r].set)))
  /\ Goes(r, "written")
  /\ UNCHANGED <<masterKey, row, audit, ask, old, entry, base>>

\* UPDATE apps or channel_configs, of the row as it is by now.
UpdateRow(r) ==
  /\ pc[r] = "read"
  /\ LET x == ask[r].of IN
       /\ Lockable(r, x)
       /\ ~Unstorable(x, ask[r].set)
       /\ Writes(r, x, Changed(row[x], Stored(x, ask[r].set)))
  /\ Goes(r, "written")
  /\ UNCHANGED <<masterKey, row, audit, ask, old, entry, base>>

AuditEntry(r) ==
  LET x == ask[r].of IN
  [old |-> IF old[r] = Absent THEN Absent ELSE Shown(x, old[r]),
   new |-> Shown(x, Stored(x, ask[r].set))]

\* Mutant: the audit row is written over another connection, outside the transaction.
AuditOutside(r) ==
  /\ pc[r] = "written"
  /\ audit' = [audit EXCEPT ![ask[r].of] = Append(@, AuditEntry(r))]
  /\ Goes(r, "audited")
  /\ UNCHANGED <<masterKey, row, ask, old, writes, entry, base>>

\* INSERT INTO config_audit_logs, in the transaction.
InsertAudit(r) ==
  /\ pc[r] = "written"
  /\ entry' = [entry EXCEPT ![r] = AuditEntry(r)]
  /\ Goes(r, "audited")
  /\ UNCHANGED <<masterKey, row, audit, ask, old, writes, base>>

\* QuickSetupApp: INSERT INTO apps ... ON CONFLICT DO NOTHING.
SetupApp(r) ==
  /\ pc[r] = "begun" /\ ask[r].op = "setup"
  /\ LET x == ask[r].of IN
       \/ /\ row[x] = Absent /\ Lockable(r, x)
          /\ Writes(r, x, [config |-> ask[r].app, status |-> "active"])
       \/ row[x] # Absent /\ UNCHANGED writes
  /\ Goes(r, "setup")
  /\ UNCHANGED <<masterKey, row, audit, ask, old, entry, base>>

\* Mutant: QuickSetupApp stores the configuration as it comes.
SetupPlain(r) ==
  /\ pc[r] = "setup" /\ ask[r].set # <<>>
  /\ LET k == Head(ask[r].set)[1]
         c == FinalConfig(k, Head(ask[r].set)[2])
     IN  /\ Lockable(r, k)
         /\ Writes(r, k, [config |-> c, status |-> "active"])
  /\ ask' = [ask EXCEPT ![r].set = Tail(@)]
  /\ UNCHANGED <<masterKey, row, audit, pc, old, entry, base>>

\* INSERT INTO channel_configs ... ON CONFLICT DO UPDATE, for one channel after another.
SetupChannel(r) ==
  /\ pc[r] = "setup" /\ ask[r].set # <<>>
  /\ LET k == Head(ask[r].set)[1]
         c == FinalConfig(k, Head(ask[r].set)[2])
     IN  /\ Lockable(r, k)
         /\ ~EncryptFails(c, masterKey)
         /\ Writes(r, k, [config |-> EncryptConfig(c, masterKey), status |-> "active"])
  /\ ask' = [ask EXCEPT ![r].set = Tail(@)]
  /\ UNCHANGED <<masterKey, row, audit, pc, old, entry, base>>

Commit(r) ==
  /\ \/ pc[r] = "audited"
     \/ pc[r] = "setup" /\ ask[r].set = <<>>
  /\ row' = [x \in Resources |-> View(r, x)]
  /\ audit' = [x \in Resources |->
                 IF LockedBy(r, x) /\ pc[r] = "audited"
                 THEN Append(audit[x], entry[r]) ELSE audit[x]]
  /\ base' = [x \in Resources |->
                IF LockedBy(r, x) /\ pc[r] = "setup"
                THEN [row |-> writes[r][x], at |-> Len(audit[x])] ELSE base[x]]
  /\ Goes(r, "done")
  /\ writes' = [writes EXCEPT ![r] = NoWrites]
  /\ entry' = [entry EXCEPT ![r] = Absent]
  /\ old' = [old EXCEPT ![r] = Absent]
  /\ ask' = [ask EXCEPT ![r] = Absent]
  /\ UNCHANGED masterKey

\* The process dies, and another one starts, perhaps with another key: the database
\* rolls the open transactions back.
ConfigCrash ==
  /\ masterKey' \in MasterKeys \cup {NoKey}
  /\ pc' = [r \in Requests |-> IF InTx(r) THEN "done" ELSE pc[r]]
  /\ writes' = [r \in Requests |-> NoWrites]
  /\ entry' = [r \in Requests |-> Absent]
  /\ old' = [r \in Requests |-> Absent]
  /\ ask' = [r \in Requests |-> Absent]
  /\ UNCHANGED <<row, audit, base>>

-----------------------------------------------------------------------------
(* A request that waits for a row.                                         *)

WaitsFor(r) == {s \in Requests \ {r} : \E x \in Target(r) : LockedBy(s, x)}

\* PostgreSQL ends such a wait by failing one of them.
Deadlocked(r) ==
  \E S \in SUBSET Requests : r \in S /\ \A s \in S : WaitsFor(s) \cap S # {}

-----------------------------------------------------------------------------
(* Properties.                                                             *)

ConfigTypeOK ==
  /\ masterKey \in MasterKeys \cup {NoKey}
  /\ row \in [Resources -> Row \cup {Absent}]
  /\ pc \in [Requests -> {"none", "begun", "read", "written", "audited", "setup", "done"}]
  /\ writes \in [Requests -> [Resources -> Row \cup {Untouched}]]
  /\ old \in [Requests -> Row \cup {Absent}]
  /\ \A r \in Requests : ~InTx(r) => writes[r] = NoWrites

\* The audit rows of a row, since base, that bring a value for a column.
Bringing(x, c) ==
  {i \in base[x].at + 1 .. Len(audit[x]) : c \in DOMAIN audit[x][i].new}

\* What they tell of the column: the last of these values, or the one at base.
Tells(x, c, v) ==
  \/ \E i \in Bringing(x, c) : v = audit[x][i].new[c] /\ \A j \in Bringing(x, c) : j <= i
  \/ Bringing(x, c) = {} /\ base[x].row # Absent /\ v = Shown(x, base[x].row)[c]

\* The audit log tells the truth of what has an audit row at all: however requests
\* interleave, fail or are cut off, replaying the new values of a row of a table, the
\* later over the earlier, gives what the API shows of every column, starting from
\* where QuickSetupApp, which writes no audit row, last changed it.  A row that does not
\* exist has no audit rows.
\* "Later" is the order of commits, which is that of the audit rows' ids: InsertAudit
\* draws the id while its transaction holds the lock of the row.  It is not the order
\* of created_at, the start of the transaction, in which ListAuditLogs shows them.
AuditReplays ==
  \A x \in Resources :
    IF row[x] = Absent THEN base[x].row = Absent /\ audit[x] = <<>>
    ELSE \A c \in Columns : Tells(x, c, Shown(x, row[x])[c])

\* No member of a channel's configuration that isSensitiveConfigKey lists is readable
\* in its row or its audit rows, whichever operation wrote them and whatever became of
\* the key.  A secret under another name, WeChat's api_v3_key, is as readable as the
\* rest.
ListedSealed ==
  \A k \in Configs :
    /\ row[k] # Absent => Unreadable(row[k].config)
    /\ \A i \in DOMAIN audit[k] :
         LET e == audit[k][i] IN
         /\ e.old # Absent => Unreadable(e.old.config)
         /\ "config" \in DOMAIN e.new => Unreadable(e.new.config)
=============================================================================
