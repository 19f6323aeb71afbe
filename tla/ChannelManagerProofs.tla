------------------------- MODULE ChannelManagerProofs -------------------------
(***************************************************************************)
(* ConfigService and ChannelManager for any requests, apps, channels, keys *)
(* and callers: what encryption and masking preserve, whether what    *)
(* isSensitiveConfigKey lists can be read, and what the cached providers are.                             *)
(***************************************************************************)
EXTENDS ChannelManager, TLAPS

-----------------------------------------------------------------------------
(* Encryption and masking.                                                 *)

\* What is stored is read back: of a configuration that the key can decrypt,
\* encryptConfigJSON hides every string under a name that isSensitiveConfigKey lists,
\* stores every other one as it came (WeChat's api_v3_key too), and decryptConfigJSON
\* gives what was there, though some of it may have been encrypted before.
THEOREM EncryptionReadsBack ==
  ASSUME NEW c \in Config, NEW key \in MasterKeys, ~DecryptFails(c, key)
  PROVE  LET stored == EncryptConfig(c, key) IN
         /\ stored \in Config /\ Unreadable(stored)
         /\ \A f \in Fields \ Sensitive : stored[f] = c[f]
         /\ ~DecryptFails(stored, key)
         /\ DecryptConfig(stored) = DecryptConfig(c)
<1> USE KeyAssumption DEF Config, Value, Plain, Sealed, IsEncryptedValue
<1> DEFINE stored == EncryptConfig(c, key)
<1>1. \A f \in Fields : c[f] \in Value /\ (c[f].seal = NoKey \/ c[f].seal = key)
  BY DEF DecryptFails
<1>2. stored \in Config
  BY <1>1 DEF EncryptConfig
<1>3. \A f \in Fields : stored[f] = c[f] \/ (c[f].seal = NoKey /\ stored[f] = Sealed(c[f].text, key))
  BY <1>1 DEF EncryptConfig
<1>4. \A f \in Sensitive : stored[f].seal = key \/ stored[f] = Plain(Empty)
  <2>1. Sensitive \subseteq Fields
    BY FieldAssumption
  <2>2. QED
    BY <1>1, <2>1 DEF EncryptConfig, Transformed
<1> HIDE DEF stored
<1>5. Unreadable(stored)
  BY <1>4 DEF Unreadable
<1>6. ~DecryptFails(stored, key)
  <2>1. \A f \in Fields : stored[f].seal \in {NoKey, key}
    <3>1. \A t : Sealed(t, key).seal = key
      OBVIOUS
    <3>2. QED
      BY <1>1, <1>3, <3>1
  <2>2. QED
    BY <2>1 DEF DecryptFails
<1>7. DecryptConfig(stored) = DecryptConfig(c)
  <2>1. ASSUME NEW f \in Fields
        PROVE  (IF IsEncryptedValue(stored[f]) THEN Plain(stored[f].text) ELSE stored[f])
                 = IF IsEncryptedValue(c[f]) THEN Plain(c[f].text) ELSE c[f]
    <3>1. CASE stored[f] = c[f]
      BY <3>1
    <3>2. CASE c[f].seal = NoKey /\ stored[f] = Sealed(c[f].text, key)
      <4>1. c[f] = Plain(c[f].text)
        BY <1>1, <3>2
      <4>2. stored[f].seal = key /\ stored[f].text = c[f].text
        BY <3>2
      <4>3. QED
        BY <3>2, <4>1, <4>2
    <3>3. QED
      BY <1>3, <3>1, <3>2
  <2>2. QED
    BY <2>1 DEF DecryptConfig
<1>8. \A f \in Fields \ Sensitive : stored[f] = c[f]
  BY DEF stored, EncryptConfig, Transformed
<1>9. QED
  BY <1>2, <1>5, <1>6, <1>7, <1>8 DEF stored

\* What is masked can be read by nobody, where it is listed.
LEMMA MaskHides ==
  ASSUME NEW c \in Config
  PROVE  MaskConfig(c) \in Config /\ Unreadable(MaskConfig(c))
<1> USE KeyAssumption, TextAssumption, FieldAssumption DEF Config, Value, Plain, IsEncryptedValue
<1>1. MaskConfig(c) \in Config
  BY DEF MaskConfig
<1>2. Unreadable(MaskConfig(c))
  BY DEF MaskConfig, Unreadable, Transformed
<1>3. QED
  BY <1>1, <1>2

\* What is shown of a configuration does not depend on whether it is stored
\* encrypted; no string under a name that isSensitiveConfigKey lists can be read in it,
\* and every other one, WeChat's api_v3_key among them, is shown as it is unless it is
\* a ciphertext (MaskSensitiveConfigJSON).
THEOREM MaskHidesListed ==
  ASSUME NEW c \in Config, NEW key \in MasterKeys
  PROVE  /\ MaskConfig(c) \in Config /\ Unreadable(MaskConfig(c))
         /\ \A f \in Fields \ Sensitive : ~IsEncryptedValue(c[f]) => MaskConfig(c)[f] = c[f]
         /\ MaskConfig(EncryptConfig(c, key)) = MaskConfig(c)
<1> USE KeyAssumption DEF Config, Value, Plain, Sealed, IsEncryptedValue
<1>1. MaskConfig(c) \in Config /\ Unreadable(MaskConfig(c))
  BY MaskHides
<1>2. \A f \in Fields :
        IF Transformed(f, EncryptConfig(c, key)[f]) THEN Transformed(f, c[f])
        ELSE ~Transformed(f, c[f]) /\ EncryptConfig(c, key)[f] = c[f]
  BY DEF EncryptConfig, Transformed
<1>3. MaskConfig(EncryptConfig(c, key)) = MaskConfig(c)
  BY <1>2 DEF MaskConfig
<1>4. \A f \in Fields \ Sensitive : ~IsEncryptedValue(c[f]) => MaskConfig(c)[f] = c[f]
  BY DEF MaskConfig, Transformed
<1>5. QED
  BY <1>1, <1>3, <1>4

-----------------------------------------------------------------------------
(* The invariant.                                                          *)

\* The functions of the state that TypeOK leaves open.
Shape ==
  /\ DOMAIN ask = Requests /\ DOMAIN entry = Requests /\ DOMAIN audit = Resources
  /\ DOMAIN get = Getters /\ DOMAIN list = Listers

\* What a request in a transaction is about.
AskInv(r) ==
  InTx(r) =>
    /\ IsAsk(ask[r])
    /\ pc[r] = "read" => ask[r].op = "update" /\ row[ask[r].of] # Absent
    /\ pc[r] \in {"written", "audited"} => ask[r].op # "setup"
    /\ pc[r] = "setup" => ask[r].op = "setup"

ConfigInv == ConfigTypeOK /\ Shape /\ \A r \in Requests : AskInv(r)

\* The values that a request brings for the columns.
Brings(set) ==
  /\ "config" \in DOMAIN set => set.config \in PlainConfig
  /\ "status" \in DOMAIN set => set.status \in Statuses

LEMMA ChangeFacts ==
  ASSUME NEW set \in Change
  PROVE  /\ Brings(set) /\ DOMAIN set \subseteq Columns
         /\ set \in Whole => DOMAIN set = Columns
BY DEF Change, Whole, Brings, Columns

\* What a request may bring, and about which row.
LEMMA AskFacts ==
  ASSUME NEW a, IsAsk(a)
  PROVE  /\ a.of \in Resources
         /\ a.op \in {"create", "update", "setup"}
         /\ a.op = "setup" => SetsUp(a)
         /\ a.op # "setup" => /\ a.set \in Change
                              /\ Brings(a.set) /\ DOMAIN a.set \subseteq Columns
         /\ a.op = "create" => a.set \in Whole /\ DOMAIN a.set = Columns
<1>1. /\ a.of \in Resources /\ a.op \in {"create", "update", "setup"}
      /\ a.op = "setup" => SetsUp(a)
      /\ a.op # "setup" => a.set \in Change
      /\ a.op = "create" => a.set \in Whole
  BY DEF IsAsk, SetsUp, CreatesApp, UpdatesApp, CreatesConfig, UpdatesConfig, Resources, Change
<1>2. QED
  BY <1>1, ChangeFacts

\* Encryption keeps a configuration one.
LEMMA EncryptType ==
  ASSUME NEW c \in Config, NEW key \in MasterKeys \cup {NoKey}
  PROVE  EncryptConfig(c, key) \in Config
BY DEF Config, Value, EncryptConfig, Sealed

LEMMA PlainType == PlainConfig \subseteq Config
BY DEF PlainConfig, Config, Value, Plain

\* What an update or an insert makes of a row.
LEMMA StoredRow ==
  ASSUME ConfigTypeOK, NEW x \in Resources, NEW set, Brings(set), DOMAIN set \subseteq Columns,
         NEW was, was \in Row \/ DOMAIN set = Columns
  PROVE  Changed(was, Stored(x, set)) \in Row
<1> DEFINE new == Stored(x, set)
<1>1. /\ DOMAIN new = DOMAIN set
      /\ "config" \in DOMAIN set => new["config"] \in Config
      /\ "status" \in DOMAIN set => new["status"] \in Statuses
  <2>1. "config" \in DOMAIN set => set.config \in Config
    BY PlainType DEF Brings
  <2>2. "config" \in DOMAIN set => EncryptConfig(set.config, masterKey) \in Config
    BY <2>1, EncryptType DEF ConfigTypeOK
  <2>3. QED
    BY <2>1, <2>2 DEF Stored, Brings
<1> HIDE DEF new
<1>2. \A v : v \in Row <=> /\ v = [config |-> v.config, status |-> v.status]
                           /\ v.config \in Config /\ v.status \in Statuses
  BY DEF Row
<1> DEFINE changed == Changed(was, new)
<1>3. /\ DOMAIN changed = Columns
      /\ changed = [c \in Columns |-> changed[c]]
      /\ changed["config"] = IF "config" \in DOMAIN new THEN new["config"] ELSE was["config"]
      /\ changed["status"] = IF "status" \in DOMAIN new THEN new["status"] ELSE was["status"]
  BY DEF Changed, Columns
<1> HIDE DEF changed
<1>4. changed.config \in Config /\ changed.status \in Statuses
  BY <1>1, <1>2, <1>3 DEF Columns
<1>5. changed = [config |-> changed.config, status |-> changed.status]
  BY <1>3 DEF Columns
<1>6. QED
  BY <1>2, <1>4, <1>5 DEF new, changed

-----------------------------------------------------------------------------
(* A step of a request.                                                    *)

Request(r) ==
  \/ \E a \in Asks : Begin(r, a, Connected)
  \/ InsertRow(r) \/ ReadOld(r, Connected) \/ UpdateRow(r) \/ InsertAudit(r)
  \/ SetupApp(r) \/ SetupChannel(r) \/ Commit(r) \/ Rollback(r)

\* A write is a row of the table, and changes nothing else of the transactions.
LEMMA WriteFacts ==
  ASSUME ConfigTypeOK, NEW r \in Requests, NEW x \in Resources, NEW v \in Row, Writes(r, x, v)
  PROVE  /\ writes' \in [Requests -> [Resources -> Row \cup {Untouched}]]
         /\ writes'[r][x] = v
         /\ \A y \in Resources \ {x} : writes'[r][y] = writes[r][y]
         /\ \A s \in Requests \ {r} : writes'[s] = writes[s]
<1>1. writes' = [writes EXCEPT ![r] = [writes[r] EXCEPT ![x] = v]]
  BY DEF Writes
<1>2. [writes[r] EXCEPT ![x] = v] \in [Resources -> Row \cup {Untouched}]
  BY DEF ConfigTypeOK
<1>3. writes'[r] = [writes[r] EXCEPT ![x] = v]
  BY <1>1 DEF ConfigTypeOK
<1>4. QED
  BY <1>1, <1>2, <1>3 DEF ConfigTypeOK

\* What Commit makes visible is rows, and no row is lost.
LEMMA ViewFacts ==
  ASSUME ConfigTypeOK, NEW r \in Requests, NEW x \in Resources
  PROVE  /\ View(r, x) \in Row \cup {Absent}
         /\ View(r, x) = row[x] \/ (View(r, x) = writes[r][x] /\ writes[r][x] \in Row)
         /\ row[x] # Absent => View(r, x) # Absent
BY ConfigAssumption DEF ConfigTypeOK, View

LEMMA NoWritesType == NoWrites \in [Resources -> Row \cup {Untouched}]
BY DEF NoWrites

\* Everybody else is left alone, and rows stay.
Apart(r) ==
  /\ \A s \in Requests \ {r} : /\ pc'[s] = pc[s] /\ ask'[s] = ask[s] /\ old'[s] = old[s]
                               /\ writes'[s] = writes[s] /\ entry'[s] = entry[s]
  /\ \A x \in Resources : row[x] # Absent => row'[x] # Absent

\* The step keeps the type, and what is known of the request.
Kept(r) == ConfigTypeOK' /\ Apart(r) /\ AskInv(r)' /\ UNCHANGED masterKey
           /\ DOMAIN ask' = Requests /\ DOMAIN entry' = Requests /\ DOMAIN audit' = Resources

LEMMA BeginKept ==
  ASSUME ConfigInv, NEW r \in Requests, NEW a \in Asks, NEW connected, Begin(r, a, connected)
  PROVE  Kept(r)
<1> USE DEF ConfigInv, ConfigTypeOK, Shape, Goes
<1>1. UNCHANGED <<masterKey, row, audit, old, writes, entry>>
  BY DEF Begin
<1>2. CASE pc' = [pc EXCEPT ![r] = "done"] /\ UNCHANGED ask
  <2>1. writes[r] = NoWrites
    BY DEF Begin, InTx
  <2>2. pc'[r] = "done" /\ \A q \in Requests \ {r} : pc'[q] = pc[q]
    BY <1>2
  <2>3. ConfigTypeOK'
    BY <1>1, <1>2, <2>1, <2>2 DEF InTx
  <2>4. QED
    BY <1>1, <1>2, <2>2, <2>3 DEF Kept, Apart, AskInv, InTx
<1>3. CASE pc' = [pc EXCEPT ![r] = "begun"] /\ ask' = [ask EXCEPT ![r] = a]
  <2>1. pc'[r] = "begun" /\ ask'[r] = a /\ IsAsk(a)
    BY <1>3, AskAssumption
  <2>2. AskInv(r)'
    BY <2>1 DEF AskInv
  <2>3. writes[r] = NoWrites
    BY DEF Begin, InTx
  <2>4. QED
    BY <1>1, <1>3, <2>1, <2>2, <2>3 DEF Kept, Apart, InTx
<1>4. QED
  BY <1>2, <1>3 DEF Begin

LEMMA WriteKept ==
  ASSUME ConfigInv, NEW r \in Requests, InTx(r), NEW x \in Resources, NEW v \in Row, Writes(r, x, v),
         NEW to \in {"begun", "read", "written", "audited", "setup"}, Goes(r, to),
         UNCHANGED <<masterKey, row, audit, old, entry>>, DOMAIN ask' = Requests,
         \A s \in Requests \ {r} : ask'[s] = ask[s], AskInv(r)'
  PROVE  Kept(r)
<1> USE DEF ConfigInv, ConfigTypeOK, Shape, Goes
<1>1. pc' \in [Requests -> {"none", "begun", "read", "written", "audited", "setup", "done"}]
      /\ pc'[r] = to /\ \A s \in Requests \ {r} : pc'[s] = pc[s]
  OBVIOUS
<1>2. \A s \in Requests : ~InTx(s)' => writes'[s] = NoWrites
  BY <1>1, WriteFacts DEF InTx
<1>3. ConfigTypeOK'
  BY <1>1, <1>2, WriteFacts
<1>4. QED
  BY <1>1, <1>3, WriteFacts DEF Kept, Apart

LEMMA InsertKept ==
  ASSUME ConfigInv, NEW r \in Requests, InsertRow(r)
  PROVE  Kept(r)
<1> DEFINE x == ask[r].of
           v == Changed(Absent, Stored(x, ask[r].set))
<1>1. pc[r] = "begun" /\ ask[r].op = "create" /\ InTx(r) /\ IsAsk(ask[r])
  BY DEF InsertRow, InTx, ConfigInv, AskInv
<1>2. x \in Resources /\ Brings(ask[r].set) /\ DOMAIN ask[r].set = Columns
  BY <1>1, AskFacts
<1>3. v \in Row
  BY <1>2, StoredRow DEF ConfigInv
<1>4. Writes(r, x, v) /\ Goes(r, "written") /\ UNCHANGED <<masterKey, row, audit, ask, old, entry>>
  BY DEF InsertRow
<1>5. AskInv(r)'
  BY <1>1, <1>4 DEF AskInv, Goes, ConfigInv, ConfigTypeOK
<1> HIDE DEF v
<1>6. QED
  BY <1>1, <1>2, <1>3, <1>4, <1>5, WriteKept DEF ConfigInv, Shape

LEMMA UpdateKept ==
  ASSUME ConfigInv, NEW r \in Requests, UpdateRow(r)
  PROVE  Kept(r)
<1> DEFINE x == ask[r].of
           v == Changed(row[x], Stored(x, ask[r].set))
<1>1. pc[r] = "read" /\ ask[r].op = "update" /\ InTx(r) /\ IsAsk(ask[r]) /\ row[x] # Absent
  BY DEF UpdateRow, InTx, ConfigInv, AskInv
<1>2. x \in Resources /\ Brings(ask[r].set) /\ DOMAIN ask[r].set \subseteq Columns
  BY <1>1, AskFacts
<1>3. v \in Row
  <2>1. row[x] \in Row
    BY <1>1, <1>2 DEF ConfigInv, ConfigTypeOK
  <2>2. QED
    BY <1>2, <2>1, StoredRow DEF ConfigInv
<1>4. Writes(r, x, v) /\ Goes(r, "written") /\ UNCHANGED <<masterKey, row, audit, ask, old, entry>>
  BY DEF UpdateRow
<1>5. AskInv(r)'
  BY <1>1, <1>4 DEF AskInv, Goes, ConfigInv, ConfigTypeOK
<1> HIDE DEF v
<1>6. QED
  BY <1>1, <1>2, <1>3, <1>4, <1>5, WriteKept DEF ConfigInv, Shape

\* A step that writes no row.
LEMMA MoveKept ==
  ASSUME ConfigInv, NEW r \in Requests, InTx(r),
         NEW to \in {"begun", "read", "written", "audited", "setup"}, Goes(r, to),
         UNCHANGED <<masterKey, row, audit, ask, writes>>, DOMAIN entry' = Requests,
         old' \in [Requests -> Row \cup {Absent}],
         \A s \in Requests \ {r} : entry'[s] = entry[s] /\ old'[s] = old[s], AskInv(r)'
  PROVE  Kept(r)
<1> USE DEF ConfigInv, ConfigTypeOK, Shape, Goes
<1>1. pc' \in [Requests -> {"none", "begun", "read", "written", "audited", "setup", "done"}]
      /\ pc'[r] = to /\ \A s \in Requests \ {r} : pc'[s] = pc[s]
  OBVIOUS
<1>2. \A s \in Requests : ~InTx(s)' => writes'[s] = NoWrites
  BY <1>1 DEF InTx
<1>3. ConfigTypeOK'
  BY <1>1, <1>2
<1>4. QED
  BY <1>1, <1>3 DEF Kept, Apart

LEMMA ReadKept ==
  ASSUME ConfigInv, NEW r \in Requests, NEW connected, ReadOld(r, connected)
  PROVE  Kept(r)
<1> USE DEF ConfigInv, ConfigTypeOK
<1>1. /\ pc[r] = "begun" /\ ask[r].op = "update" /\ row[ask[r].of] # Absent
      /\ old' = [old EXCEPT ![r] = row[ask[r].of]] /\ Goes(r, "read")
      /\ UNCHANGED <<masterKey, row, audit, ask, writes, entry>>
  BY DEF ReadOld
<1>2. IsAsk(ask[r]) /\ InTx(r)
  BY <1>1 DEF AskInv, InTx
<1>3. ask[r].of \in Resources
  BY <1>2, AskFacts
<1>4. old' \in [Requests -> Row \cup {Absent}] /\ \A s \in Requests \ {r} : old'[s] = old[s]
  BY <1>1, <1>3
<1>5. AskInv(r)'
  BY <1>1, <1>2 DEF AskInv, Goes
<1>6. QED
  BY <1>1, <1>2, <1>4, <1>5, MoveKept DEF Shape

LEMMA AuditKept ==
  ASSUME ConfigInv, NEW r \in Requests, InsertAudit(r)
  PROVE  Kept(r)
<1> USE DEF ConfigInv, ConfigTypeOK, Shape
<1>1. /\ pc[r] = "written" /\ InTx(r) /\ Goes(r, "audited")
      /\ entry' = [entry EXCEPT ![r] = AuditEntry(r)]
      /\ UNCHANGED <<masterKey, row, audit, ask, old, writes>>
  BY DEF InsertAudit, InTx
<1>2. AskInv(r)'
  BY <1>1 DEF AskInv, Goes, InTx
<1>3. QED
  BY <1>1, <1>2, MoveKept

LEMMA SetupAppKept ==
  ASSUME ConfigInv, NEW r \in Requests, SetupApp(r)
  PROVE  Kept(r)
<1>1. /\ pc[r] = "begun" /\ ask[r].op = "setup" /\ InTx(r) /\ Goes(r, "setup")
      /\ UNCHANGED <<masterKey, row, audit, ask, old, entry>>
  BY DEF SetupApp, InTx
<1>2. IsAsk(ask[r]) /\ SetsUp(ask[r]) /\ ask[r].of \in Resources
  BY <1>1, AskFacts DEF ConfigInv, AskInv
<1>3. AskInv(r)'
  BY <1>1, <1>2 DEF AskInv, Goes, ConfigInv, ConfigTypeOK
<1>4. CASE UNCHANGED writes
  BY <1>1, <1>3, <1>4, MoveKept DEF ConfigInv, ConfigTypeOK, Shape
<1>5. CASE Writes(r, ask[r].of, [config |-> ask[r].app, status |-> "active"])
  <2>1. [config |-> ask[r].app, status |-> "active"] \in Row
    BY <1>2, PlainType DEF SetsUp, Row, Statuses
  <2>2. QED
    BY <1>1, <1>2, <1>3, <1>5, <2>1, WriteKept DEF ConfigInv, Shape
<1>6. QED
  BY <1>4, <1>5 DEF SetupApp

\* QuickSetupApp's next channel.
LEMMA SetupFacts ==
  ASSUME ConfigInv, NEW r \in Requests, pc[r] = "setup", ask[r].set # <<>>
  PROVE  LET k == Head(ask[r].set)[1] IN
         k \in Configs /\ FinalConfig(k, Head(ask[r].set)[2]) \in Config
<1> DEFINE k == Head(ask[r].set)[1]
           c == FinalConfig(k, Head(ask[r].set)[2])
           C == UNION {[F -> {Plain(t) : t \in Texts}] : F \in SUBSET Fields}
<1>1. SetsUp(ask[r])
  BY AskFacts DEF ConfigInv, AskInv, InTx
<1>2. ask[r].set \in Seq(Configs \X C)
  BY <1>1 DEF SetsUp
<1> HIDE DEF C
<1>3. Head(ask[r].set) \in Configs \X C
  BY <1>2
<1>4. k \in Configs /\ Head(ask[r].set)[2] \in C
  BY <1>3
<1>5. Defaults[k] \in Config
  BY <1>4, DefaultsAssumption
<1>6. \A f \in DOMAIN Head(ask[r].set)[2] : Head(ask[r].set)[2][f] \in {Plain(t) : t \in Texts}
  BY <1>4 DEF C
<1>7. \A t \in Texts : Plain(t) \in Value
  BY DEF Plain, Value
<1>8. \A f \in Fields : c[f] \in Value
  BY <1>5, <1>6, <1>7 DEF FinalConfig, Config
<1>9. c \in Config
  BY <1>8 DEF FinalConfig, Config
<1>10. QED
  BY <1>4, <1>9

LEMMA SetupChannelKept ==
  ASSUME ConfigInv, NEW r \in Requests, SetupChannel(r)
  PROVE  Kept(r)
<1> DEFINE k == Head(ask[r].set)[1]
           c == FinalConfig(k, Head(ask[r].set)[2])
           v == [config |-> EncryptConfig(c, masterKey), status |-> "active"]
           S == Configs \X UNION {[F -> {Plain(t) : t \in Texts}] : F \in SUBSET Fields}
<1>1. /\ pc[r] = "setup" /\ InTx(r) /\ Writes(r, k, v)
      /\ ask' = [ask EXCEPT ![r] = [ask[r] EXCEPT !.set = Tail(ask[r].set)]]
      /\ UNCHANGED <<masterKey, row, audit, pc, old, entry>> /\ ask[r].set # <<>>
  BY DEF SetupChannel, InTx
<1>2. ask[r].op = "setup" /\ SetsUp(ask[r])
  BY <1>1, AskFacts DEF ConfigInv, AskInv
<1>3. ask[r].set \in Seq(S) /\ ask[r] \in [op : {"setup"}, of : Apps, app : PlainConfig, set : Seq(S)]
  BY <1>2 DEF SetsUp
<1> HIDE DEF S
<1>4. Head(ask[r].set) \in S /\ Tail(ask[r].set) \in Seq(S)
  BY <1>1, <1>3
<1>5. k \in Configs
  BY <1>1, SetupFacts
<1>6. c \in Config
  BY <1>1, SetupFacts
<1>7. v \in Row
  BY <1>6, EncryptType DEF Row, Statuses, ConfigInv, ConfigTypeOK
<1>8. ask'[r] \in [op : {"setup"}, of : Apps, app : PlainConfig, set : Seq(S)]
  <2>1. ask'[r] = [ask[r] EXCEPT !.set = Tail(ask[r].set)]
    BY <1>1 DEF ConfigInv, Shape
  <2>2. QED
    BY <1>3, <1>4, <2>1
<1>9. IsAsk(ask'[r]) /\ ask'[r].op = "setup"
  BY <1>8 DEF IsAsk, SetsUp, S
<1>10. AskInv(r)'
  BY <1>1, <1>9 DEF AskInv
<1>11. /\ k \in Resources /\ DOMAIN ask' = Requests /\ Goes(r, "setup")
       /\ \A s \in Requests \ {r} : ask'[s] = ask[s]
  <2>1. pc' = [pc EXCEPT ![r] = "setup"]
    BY <1>1 DEF ConfigInv, ConfigTypeOK
  <2>2. QED
    BY <1>1, <1>5, <2>1 DEF Resources, ConfigInv, Shape, Goes
<1> HIDE DEF v, k
<1>12. QED
  BY <1>1, <1>7, <1>10, <1>11, WriteKept

\* A transaction ends, and what it held is gone.
LEMMA EndKept ==
  ASSUME ConfigInv, NEW r \in Requests, Goes(r, "done"), UNCHANGED masterKey,
         row' \in [Resources -> Row \cup {Absent}],
         \A x \in Resources : row[x] # Absent => row'[x] # Absent,
         DOMAIN audit' = Resources,
         writes' = [writes EXCEPT ![r] = NoWrites], entry' = [entry EXCEPT ![r] = Absent],
         old' = [old EXCEPT ![r] = Absent], ask' = [ask EXCEPT ![r] = Absent]
  PROVE  Kept(r)
<1> USE DEF ConfigInv, ConfigTypeOK, Shape
<1>1. /\ pc' \in [Requests -> {"none", "begun", "read", "written", "audited", "setup", "done"}]
      /\ pc'[r] = "done" /\ \A s \in Requests \ {r} : pc'[s] = pc[s]
  BY DEF Goes
<1>2. /\ writes' \in [Requests -> [Resources -> Row \cup {Untouched}]]
      /\ writes'[r] = NoWrites /\ \A s \in Requests \ {r} : writes'[s] = writes[s]
  BY NoWritesType
<1>3. old' \in [Requests -> Row \cup {Absent}]
  OBVIOUS
<1>4. \A s \in Requests : ~InTx(s)' => writes'[s] = NoWrites
  BY <1>1, <1>2 DEF InTx
<1>5. ConfigTypeOK'
  BY <1>1, <1>2, <1>3, <1>4
<1>6. Apart(r)
  BY <1>1, <1>2 DEF Apart
<1>7. AskInv(r)'
  BY <1>1 DEF AskInv, InTx
<1>8. QED
  BY <1>5, <1>6, <1>7 DEF Kept

LEMMA CommitKept ==
  ASSUME ConfigInv, NEW r \in Requests, Commit(r)
  PROVE  Kept(r)
<1>1. row' = [x \in Resources |-> View(r, x)]
  BY DEF Commit
<1>2. \A x \in Resources : View(r, x) \in Row \cup {Absent} /\ (row[x] # Absent => View(r, x) # Absent)
  BY ViewFacts DEF ConfigInv
<1>3. row' \in [Resources -> Row \cup {Absent}] /\ \A x \in Resources : row[x] # Absent => row'[x] # Absent
  BY <1>1, <1>2
<1>4. DOMAIN audit' = Resources
  BY DEF Commit
<1>5. QED
  BY <1>3, <1>4, EndKept DEF Commit

LEMMA RollbackKept ==
  ASSUME ConfigInv, NEW r \in Requests, Rollback(r)
  PROVE  Kept(r)
<1>1. row' \in [Resources -> Row \cup {Absent}] /\ row' = row /\ DOMAIN audit' = Resources
  BY DEF Rollback, ConfigInv, ConfigTypeOK, Shape
<1>2. QED
  BY <1>1, EndKept DEF Rollback

LEMMA RequestKept ==
  ASSUME ConfigInv, NEW r \in Requests, Request(r)
  PROVE  Kept(r)
BY BeginKept, InsertKept, ReadKept, UpdateKept, AuditKept, SetupAppKept, SetupChannelKept,
   CommitKept, RollbackKept DEF Request

\* So every step of a request keeps the invariant.
LEMMA RequestInv ==
  ASSUME ConfigInv, NEW r \in Requests, Request(r), UNCHANGED <<DOMAIN get, DOMAIN list>>
  PROVE  ConfigInv'
<1>1. Kept(r)
  BY RequestKept
<1>2. ASSUME NEW s \in Requests \ {r} PROVE AskInv(s)'
  <2>1. AskInv(s)
    BY DEF ConfigInv
  <2>2. pc'[s] = pc[s] /\ ask'[s] = ask[s]
    BY <1>1 DEF Kept, Apart
  <2>3. CASE pc[s] = "read"
    <3>1. IsAsk(ask[s])
      BY <2>1, <2>3 DEF AskInv, InTx
    <3>2. row'[ask[s].of] # Absent
      BY <1>1, <2>1, <2>3, <3>1, AskFacts DEF Kept, Apart, AskInv, InTx
    <3>3. QED
      BY <2>1, <2>2, <2>3, <3>2 DEF AskInv, InTx
  <2>4. CASE pc[s] # "read"
    BY <2>1, <2>2, <2>4 DEF AskInv, InTx
  <2>5. QED
    BY <2>3, <2>4
<1>3. QED
  BY <1>1, <1>2 DEF Kept, ConfigInv, Shape

LEMMA CrashInv ==
  ASSUME ConfigInv, ConfigCrash, DOMAIN get' = Getters, DOMAIN list' = Listers
  PROVE  ConfigInv'
<1> USE DEF ConfigInv, ConfigTypeOK, Shape
<1>1. /\ pc' \in [Requests -> {"none", "begun", "read", "written", "audited", "setup", "done"}]
      /\ \A r \in Requests : ~InTx(r)'
  BY DEF ConfigCrash, InTx
<1>2. ConfigTypeOK'
  BY <1>1, NoWritesType DEF ConfigCrash
<1>3. \A r \in Requests : AskInv(r)'
  BY <1>1 DEF AskInv, InTx
<1>4. QED
  BY <1>2, <1>3 DEF ConfigCrash

-----------------------------------------------------------------------------
(* The providers.                                                          *)

\* A GetProvider that holds the lock for writing is the only one, and nobody has put
\* its provider into the map since it looked.
Holds(c) == get[c].at \in {"query", "create"}
MutexInv ==
  /\ \A c, d \in Getters : Holds(c) /\ Holds(d) => c = d
  /\ \A c \in Getters : Holds(c) => providers[get[c].of] = Absent

\* Whatever a caller has read, and is going to make a provider of, was active.
Lived(k, config) == DecryptConfig(config) \in lived[k]
GetLived(c) == get[c].at = "create" => Lived(get[c].of, get[c].row.config)
ListLived(c) ==
  /\ list[c].at \in {"look", "store"} =>
       \A k \in DOMAIN list[c].todo : Lived(k, list[c].todo[k].config)
  /\ list[c].at = "store" => list[c].provider \in lived[list[c].of]

LivedInv ==
  /\ \A k \in Configs : Active(row)[k] \subseteq lived[k]
  /\ \A c \in Getters : GetLived(c)
  /\ \A c \in Listers : ListLived(c)

ManagerType ==
  /\ providers \in [Configs -> Config \cup {Absent}]
  /\ \A c \in Getters : IsGet(get[c])
  /\ \A c \in Listers : IsList(list[c])
  /\ lived \in [Configs -> SUBSET Config]

ManagerInv == ManagerType /\ MutexInv /\ LivedInv /\ CachedWasActive

IInv == ConfigInv /\ ManagerInv

LEMMA DecryptType == \A c \in Config : DecryptConfig(c) \in Config
BY DEF DecryptConfig, Config, Value, Plain

\* The active configurations of a table are configurations.
LEMMA ActiveType ==
  ASSUME NEW rows \in [Resources -> Row \cup {Absent}], NEW k \in Configs
  PROVE  /\ Active(rows)[k] \subseteq Config
         /\ rows[k] # Absent /\ rows[k].status = "active"
              => DecryptConfig(rows[k].config) \in Active(rows)[k]
<1>1. k \in Resources
  BY DEF Resources
<1>2. rows[k] # Absent => rows[k].config \in Config
  BY <1>1 DEF Row
<1>3. QED
  BY <1>2, DecryptType DEF Active

\* The map, and a caller who goes on.
LEMMA GetGoesFacts ==
  ASSUME ConfigInv, NEW c \in Getters, NEW to, GetGoes(c, to)
  PROVE  /\ DOMAIN get' = Getters /\ get'[c] = to
         /\ \A d \in Getters \ {c} : get'[d] = get[d]
BY DEF GetGoes, ConfigInv, Shape

LEMMA ListGoesFacts ==
  ASSUME ConfigInv, NEW c \in Listers, NEW to, ListGoes(c, to)
  PROVE  /\ DOMAIN list' = Listers /\ list'[c] = to
         /\ \A d \in Listers \ {c} : list'[d] = list[d]
BY DEF ListGoes, ConfigInv, Shape

\* A caller of GetProvider goes on, without a change of the map.
LEMMA GetMoves ==
  ASSUME IInv, NEW c \in Getters, NEW to, GetGoes(c, to),
         UNCHANGED <<configVars, providers, list, lived>>,
         IsGet(to), to.at = "create" => Lived(to.of, to.row.config),
         to.at \in {"query", "create"} =>
           providers[to.of] = Absent /\ \A d \in Getters \ {c} : ~Holds(d)
  PROVE  IInv'
<1>1. /\ DOMAIN get' = Getters /\ get'[c] = to
      /\ \A d \in Getters \ {c} : get'[d] = get[d]
  BY GetGoesFacts DEF IInv
<1>2. ConfigInv'
  BY <1>1 DEF IInv, ConfigInv, ConfigTypeOK, Shape, AskInv, InTx, configVars
<1>3. ManagerType'
  BY <1>1 DEF IInv, ManagerInv, ManagerType
<1>4. MutexInv'
  BY <1>1 DEF IInv, ManagerInv, MutexInv, Holds
<1>5. LivedInv'
  <2>1. \A d \in Getters : GetLived(d)'
    BY <1>1 DEF IInv, ManagerInv, LivedInv, GetLived, Lived
  <2>2. QED
    BY <2>1 DEF IInv, ManagerInv, LivedInv, ListLived, Lived, Active, configVars
<1>6. CachedWasActive'
  BY DEF IInv, ManagerInv, CachedWasActive
<1>7. QED
  BY <1>2, <1>3, <1>4, <1>5, <1>6 DEF IInv, ManagerInv

\* So does a listing.
LEMMA ListMoves ==
  ASSUME IInv, NEW c \in Listers, NEW to, ListGoes(c, to),
         UNCHANGED <<configVars, get, lived>>,
         \/ UNCHANGED providers
         \/ ~MuHeld /\ \E k \in Configs : \E provider \in lived[k] :
                          providers' = [providers EXCEPT ![k] = provider],
         IsList(to),
         to.at \in {"look", "store"} =>
           \A x \in DOMAIN to.todo : Lived(x, to.todo[x].config),
         to.at = "store" => to.provider \in lived[to.of]
  PROVE  IInv'
<1>1. /\ DOMAIN list' = Listers /\ list'[c] = to
      /\ \A d \in Listers \ {c} : list'[d] = list[d]
  BY ListGoesFacts DEF IInv
<1>2. ConfigInv'
  BY <1>1 DEF IInv, ConfigInv, ConfigTypeOK, Shape, AskInv, InTx, configVars
<1>3. ManagerType'
  BY <1>1 DEF IInv, ManagerInv, ManagerType
<1>4. MutexInv'
  BY DEF IInv, ManagerInv, MutexInv, Holds, MuHeld
<1>5. LivedInv'
  <2>1. \A d \in Listers : ListLived(d)'
    BY <1>1 DEF IInv, ManagerInv, LivedInv, ListLived, Lived
  <2>2. QED
    BY <2>1 DEF IInv, ManagerInv, LivedInv, GetLived, Lived, Active, configVars
<1>6. CachedWasActive'
  BY DEF IInv, ManagerInv, ManagerType, CachedWasActive
<1>7. QED
  BY <1>2, <1>3, <1>4, <1>5, <1>6 DEF IInv, ManagerInv

-----------------------------------------------------------------------------
(* GetProvider.                                                            *)

LEMMA IdleFacts == NoCall.at = "idle" /\ IsGet(NoCall) /\ IsList(NoCall)
BY DEF NoCall, IsGet, IsList

LEMMA GetProviderInv ==
  ASSUME IInv, NEW c \in Getters, NEW k \in Configs, GetProvider(c, k)
  PROVE  IInv'
<1> DEFINE to == [at |-> "look", of |-> k]
<1>1. to.at = "look" /\ IsGet(to)
  BY DEF IsGet
<1>2. GetGoes(c, to) /\ UNCHANGED <<configVars, providers, list, lived>>
  BY DEF GetProvider
<1> HIDE DEF to
<1>3. QED
  BY <1>1, <1>2, GetMoves

\* A call is over.
LEMMA GetDone ==
  ASSUME IInv, NEW c \in Getters, GetGoes(c, NoCall),
         UNCHANGED <<configVars, providers, list, lived>>
  PROVE  IInv'
<1>1. NoCall.at \notin {"query", "create"} /\ IsGet(NoCall)
  BY IdleFacts
<1>2. QED
  BY <1>1, GetMoves

LEMMA GetLookInv ==
  ASSUME IInv, NEW c \in Getters, GetLook(c)
  PROVE  IInv'
<1> DEFINE to == [at |-> "lock", of |-> get[c].of]
<1>1. CASE providers[get[c].of] # Absent
  BY <1>1, GetDone DEF GetLook
<1>2. CASE providers[get[c].of] = Absent
  <2>1. get[c].of \in Configs
    BY IdleFacts DEF IInv, ManagerInv, ManagerType, IsGet, GetLook
  <2>2. to.at = "lock" /\ IsGet(to)
    BY <2>1 DEF IsGet
  <2>3. GetGoes(c, to) /\ UNCHANGED <<configVars, providers, list, lived>>
    BY <1>2 DEF GetLook
  <2> HIDE DEF to
  <2>4. QED
    BY <2>2, <2>3, GetMoves
<1>3. QED
  BY <1>1, <1>2

LEMMA GetLockInv ==
  ASSUME IInv, NEW c \in Getters, GetLock(c)
  PROVE  IInv'
<1> DEFINE to == [at |-> "query", of |-> get[c].of]
<1>1. CASE providers[get[c].of] # Absent
  BY <1>1, GetDone DEF GetLock
<1>2. CASE providers[get[c].of] = Absent
  <2>1. get[c].of \in Configs
    BY IdleFacts DEF IInv, ManagerInv, ManagerType, IsGet, GetLock
  <2>2. to.at = "query" /\ IsGet(to) /\ to.of = get[c].of
    BY <2>1 DEF IsGet
  <2>3. GetGoes(c, to) /\ UNCHANGED <<configVars, providers, list, lived>>
    BY <1>2 DEF GetLock
  <2>4. \A d \in Getters : ~Holds(d)
    BY DEF GetLock, MuHeld, Holds
  <2> HIDE DEF to
  <2>5. QED
    BY <1>2, <2>2, <2>3, <2>4, GetMoves
<1>3. QED
  BY <1>1, <1>2

LEMMA GetQueryInv ==
  ASSUME IInv, NEW c \in Getters, GetQuery(c)
  PROVE  IInv'
<1> DEFINE k == get[c].of
           to == [at |-> "create", of |-> k, row |-> row[k]]
<1>1. CASE GetGoes(c, NoCall)
  BY <1>1, GetDone DEF GetQuery
<1>2. CASE row[k] # Absent /\ row[k].status = "active" /\ GetGoes(c, to)
  <2>1. k \in Configs /\ Holds(c)
    BY IdleFacts DEF IInv, ManagerInv, ManagerType, IsGet, GetQuery, Holds
  <2>2. row[k] \in Row
    BY <1>2, <2>1 DEF IInv, ConfigInv, ConfigTypeOK, Resources
  <2>3. to.at = "create" /\ IsGet(to) /\ to.of = k /\ to.row = row[k]
    BY <2>1, <2>2 DEF IsGet
  <2>4. Lived(k, row[k].config)
    BY <1>2, <2>1, ActiveType DEF IInv, ConfigInv, ConfigTypeOK, ManagerInv, LivedInv, Lived
  <2>5. providers[k] = Absent /\ \A d \in Getters \ {c} : ~Holds(d)
    BY <2>1 DEF IInv, ManagerInv, MutexInv
  <2>6. UNCHANGED <<configVars, providers, list, lived>>
    BY DEF GetQuery
  <2> HIDE DEF to, k
  <2>7. QED
    BY <1>2, <2>3, <2>4, <2>5, <2>6, GetMoves
<1>3. QED
  BY <1>1, <1>2 DEF GetQuery

LEMMA GetCreateInv ==
  ASSUME IInv, NEW c \in Getters, GetCreate(c)
  PROVE  IInv'
<1> DEFINE k == get[c].of
           provider == NewProvider(get[c].row.config)
<1>1. CASE UNCHANGED providers
  BY <1>1, GetDone DEF GetCreate
<1>2. CASE providers' = [providers EXCEPT ![k] = provider]
  <2>0. /\ GetGoes(c, NoCall) /\ UNCHANGED <<configVars, list, lived>>
        /\ get[c].at = "create"
    BY DEF GetCreate
  <2>1. k \in Configs /\ Holds(c) /\ get[c].row \in Row
    BY <2>0, IdleFacts DEF IInv, ManagerInv, ManagerType, IsGet, Holds
  <2>2. provider \in lived[k] /\ provider \in Config
    <3>1. provider \in lived[k]
      BY <2>0, <2>1 DEF IInv, ManagerInv, LivedInv, GetLived, Lived, NewProvider
    <3>2. QED
      BY <2>1, <3>1 DEF IInv, ManagerInv, ManagerType
  <2>3. /\ DOMAIN get' = Getters /\ get'[c] = NoCall
        /\ \A d \in Getters \ {c} : get'[d] = get[d] /\ ~Holds(d)
    BY <2>0, <2>1, GetGoesFacts DEF IInv, ManagerInv, MutexInv
  <2> HIDE DEF k, provider
  <2>4. ConfigInv'
    BY <2>0, <2>3 DEF IInv, ConfigInv, ConfigTypeOK, Shape, AskInv, InTx, configVars
  <2>5. ManagerType'
    BY <1>2, <2>0, <2>1, <2>2, <2>3, IdleFacts DEF IInv, ManagerInv, ManagerType
  <2>6. MutexInv'
    <3>1. \A d \in Getters : ~Holds(d)'
      BY <2>3, IdleFacts DEF Holds
    <3>2. QED
      BY <3>1 DEF MutexInv
  <2>7. LivedInv'
    <3>1. \A d \in Getters : GetLived(d)'
      BY <2>0, <2>3, IdleFacts DEF IInv, ManagerInv, LivedInv, GetLived, Lived
    <3>2. QED
      BY <2>0, <3>1 DEF IInv, ManagerInv, LivedInv, ListLived, Lived, Active, configVars
  <2>8. CachedWasActive'
    BY <1>2, <2>0, <2>1, <2>2 DEF IInv, ManagerInv, ManagerType, CachedWasActive
  <2>9. QED
    BY <2>4, <2>5, <2>6, <2>7, <2>8 DEF IInv, ManagerInv
<1>3. QED
  BY <1>1, <1>2 DEF GetCreate

-----------------------------------------------------------------------------
(* ListProvidersByChannelPrefix.                                           *)

\* A listing that is over, or failed.
LEMMA ListDone ==
  ASSUME IInv, NEW c \in Listers, ListGoes(c, NoCall), UNCHANGED <<configVars, providers, get, lived>>
  PROVE  IInv'
<1>1. NoCall.at \notin {"look", "store"} /\ IsList(NoCall)
  BY IdleFacts
<1>2. QED
  BY <1>1, ListMoves

\* The rows that are left are some of those that were.
LEMMA ListRestInv ==
  ASSUME IInv, NEW c \in Listers, list[c].at \in {"look", "store"},
         NEW k, ListRest(c, list[c].todo, k), UNCHANGED <<configVars, get, lived>>,
         \/ UNCHANGED providers
         \/ ~MuHeld /\ \E x \in Configs : \E provider \in lived[x] :
                          providers' = [providers EXCEPT ![x] = provider]
  PROVE  IInv'
<1> DEFINE todo == list[c].todo
           rest == [x \in DOMAIN todo \ {k} |-> todo[x]]
           to == [at |-> "look", todo |-> rest]
<1>1. IsTodo(todo) /\ \A x \in DOMAIN todo : Lived(x, todo[x].config)
  BY IdleFacts DEF IInv, ManagerInv, ManagerType, IsList, LivedInv, ListLived
<1>2. IsTodo(rest) /\ \A x \in DOMAIN rest : Lived(x, rest[x].config)
  BY <1>1 DEF IsTodo
<1>3. ListGoes(c, NoCall) \/ ListGoes(c, to)
  BY DEF ListRest
<1> HIDE DEF rest
<1>4. to.at = "look" /\ IsList(to) /\ to.todo = rest
  BY <1>2 DEF IsList
<1>5. NoCall.at \notin {"look", "store"} /\ IsList(NoCall)
  BY IdleFacts
<1> HIDE DEF to
<1>6. CASE ListGoes(c, NoCall)
  BY <1>5, <1>6, ListMoves
<1>7. CASE ListGoes(c, to)
  BY <1>2, <1>4, <1>7, ListMoves
<1>8. QED
  BY <1>3, <1>6, <1>7

LEMMA ListProvidersInv ==
  ASSUME IInv, NEW c \in Listers, NEW prefix \in Selections, ListProviders(c, prefix)
  PROVE  IInv'
<1> DEFINE to == [at |-> "query", prefix |-> prefix]
<1>1. to.at = "query" /\ IsList(to)
  BY DEF IsList
<1>2. ListGoes(c, to) /\ UNCHANGED <<configVars, providers, get, lived>>
  BY DEF ListProviders
<1> HIDE DEF to
<1>3. QED
  BY <1>1, <1>2, ListMoves

LEMMA ListQueryInv ==
  ASSUME IInv, NEW c \in Listers, ListQuery(c)
  PROVE  IInv'
<1> DEFINE found == {k \in list[c].prefix : row[k] # Absent /\ row[k].status = "active"}
           todo == [k \in found |-> row[k]]
           to == [at |-> "look", todo |-> todo]
<1>1. CASE ListGoes(c, NoCall)
  BY <1>1, ListDone DEF ListQuery
<1>2. CASE ListGoes(c, to)
  <2>1. found \subseteq Configs
    BY SelectionAssumption, IdleFacts DEF IInv, ManagerInv, ManagerType, IsList, ListQuery
  <2>2. \A k \in found : row[k] \in Row /\ Lived(k, row[k].config)
    <3>1. \A k \in found : k \in Configs /\ row[k] # Absent /\ row[k].status = "active"
      BY <2>1
    <3>2. row \in [Resources -> Row \cup {Absent}] /\ \A k \in Configs : Active(row)[k] \subseteq lived[k]
      BY DEF IInv, ConfigInv, ConfigTypeOK, ManagerInv, LivedInv
    <3> HIDE DEF found
    <3>3. QED
      BY <3>1, <3>2, ActiveType DEF Lived, Resources
  <2> HIDE DEF found
  <2>3. IsTodo(todo) /\ \A k \in DOMAIN todo : Lived(k, todo[k].config)
    BY <2>1, <2>2 DEF IsTodo
  <2> HIDE DEF todo
  <2>4. to.at = "look" /\ to.todo = todo /\ IsList(to)
    BY <2>3 DEF IsList
  <2>5. UNCHANGED <<configVars, providers, get, lived>>
    BY DEF ListQuery
  <2> HIDE DEF to
  <2>6. QED
    BY <1>2, <2>3, <2>4, <2>5, ListMoves
<1>3. QED
  BY <1>1, <1>2 DEF ListQuery

LEMMA ListLookInv ==
  ASSUME IInv, NEW c \in Listers, ListLook(c)
  PROVE  IInv'
<1> DEFINE todo == list[c].todo
<1>1. list[c].at = "look" /\ UNCHANGED <<configVars, providers, get, lived>>
  BY DEF ListLook
<1>2. IsTodo(todo) /\ \A x \in DOMAIN todo : Lived(x, todo[x].config)
  BY <1>1, IdleFacts DEF IInv, ManagerInv, ManagerType, IsList, LivedInv, ListLived
<1>3. PICK k \in DOMAIN todo :
        \/ ListRest(c, todo, k)
        \/ ListGoes(c, [at |-> "store", todo |-> todo, of |-> k,
                        provider |-> NewProvider(todo[k].config)])
  BY DEF ListLook
<1>4. CASE ListRest(c, todo, k)
  BY <1>1, <1>4, ListRestInv
<1> DEFINE provider == NewProvider(todo[k].config)
           to == [at |-> "store", todo |-> todo, of |-> k, provider |-> provider]
<1>5. CASE ListGoes(c, to)
  <2>1. k \in Configs /\ provider \in lived[k] /\ provider \in Config
    BY <1>2 DEF IsTodo, Lived, NewProvider, IInv, ManagerInv, ManagerType
  <2> HIDE DEF provider, todo
  <2>2. /\ to.at = "store" /\ to.todo = todo /\ to.of = k /\ to.provider = provider
        /\ IsList(to)
    BY <1>2, <1>3, <2>1 DEF IsList
  <2> HIDE DEF to
  <2>3. QED
    BY <1>1, <1>2, <1>5, <2>1, <2>2, ListMoves
<1>6. QED
  BY <1>3, <1>4, <1>5

LEMMA ListStoreInv ==
  ASSUME IInv, NEW c \in Listers, ListStore(c)
  PROVE  IInv'
<1>1. /\ list[c].at = "store" /\ ~MuHeld /\ UNCHANGED <<configVars, get, lived>>
      /\ providers' = [providers EXCEPT ![list[c].of] = list[c].provider]
      /\ ListRest(c, list[c].todo, list[c].of)
  BY DEF ListStore
<1>2. list[c].provider \in lived[list[c].of] /\ list[c].of \in Configs
  BY <1>1, IdleFacts DEF IInv, ManagerInv, ManagerType, IsList, IsTodo, LivedInv, ListLived
<1>3. QED
  BY <1>1, <1>2, ListRestInv

-----------------------------------------------------------------------------
(* Requests and crashes.                                                   *)

\* Where nobody has a provider, nor a row to make one of, only lived can be wrong.
LEMMA RequestStepInv ==
  ASSUME IInv, NEW r \in Requests, RequestStep(r)
  PROVE  IInv'
<1>1. /\ Request(r) /\ UNCHANGED <<providers, get, list>>
      /\ lived' = [k \in Configs |-> lived[k] \cup Active(row')[k]]
  BY DEF RequestStep, Request
<1>2. ConfigInv'
  BY <1>1, RequestInv DEF IInv
<1>3. /\ lived' \in [Configs -> SUBSET Config]
      /\ \A k \in Configs : lived[k] \subseteq lived'[k] /\ Active(row')[k] \subseteq lived'[k]
  <2>1. \A k \in Configs : Active(row')[k] \subseteq Config
    BY <1>2, ActiveType DEF ConfigInv, ConfigTypeOK
  <2>2. QED
    BY <1>1, <2>1 DEF IInv, ManagerInv, ManagerType
<1>4. ManagerType'
  BY <1>1, <1>3 DEF IInv, ManagerInv, ManagerType
<1>5. MutexInv'
  BY <1>1 DEF IInv, ManagerInv, MutexInv, Holds
<1>6. LivedInv'
  <2>1. \A k \in Configs : Active(row)'[k] \subseteq lived'[k]
    BY <1>3 DEF Active
  <2>2. \A c \in Getters : GetLived(c)'
    <3>1. ASSUME NEW c \in Getters, get[c].at = "create"
          PROVE  get[c].of \in Configs /\ DecryptConfig(get[c].row.config) \in lived[get[c].of]
      BY <3>1, IdleFacts DEF IInv, ManagerInv, ManagerType, IsGet, LivedInv, GetLived, Lived
    <3>2. QED
      BY <1>1, <1>3, <3>1 DEF GetLived, Lived
  <2>3. \A c \in Listers : ListLived(c)'
    <3>1. ASSUME NEW c \in Listers, list[c].at \in {"look", "store"}
          PROVE  /\ \A k \in DOMAIN list[c].todo :
                      k \in Configs /\ DecryptConfig(list[c].todo[k].config) \in lived[k]
                 /\ list[c].at = "store" => list[c].of \in Configs /\ list[c].provider \in lived[list[c].of]
      BY <3>1, IdleFacts DEF IInv, ManagerInv, ManagerType, IsList, IsTodo, LivedInv, ListLived, Lived
    <3>2. QED
      BY <1>1, <1>3, <3>1 DEF ListLived, Lived
  <2>4. QED
    BY <2>1, <2>2, <2>3 DEF LivedInv
<1>7. CachedWasActive'
  BY <1>1, <1>3 DEF IInv, ManagerInv, CachedWasActive
<1>8. QED
  BY <1>2, <1>4, <1>5, <1>6, <1>7 DEF IInv, ManagerInv

LEMMA FailsInv ==
  ASSUME IInv, NEW r \in Requests, Fails(r)
  PROVE  IInv'
<1>1. Request(r) /\ UNCHANGED <<providers, get, list, lived, row>>
  BY DEF Fails, Request, Rollback, managerVars
<1>2. ConfigInv'
  BY <1>1, RequestInv DEF IInv
<1>3. ManagerInv'
  BY <1>1 DEF IInv, ManagerInv, ManagerType, MutexInv, Holds, LivedInv, GetLived, ListLived, Lived,
              Active, CachedWasActive
<1>4. QED
  BY <1>2, <1>3 DEF IInv

\* A process that has just started caches nothing, and nobody calls it yet.
Fresh ==
  /\ providers = [k \in Configs |-> Absent]
  /\ get = [c \in Getters |-> NoCall] /\ list = [c \in Listers |-> NoCall]
  /\ lived = Active(row)

LEMMA FreshInv == ConfigInv /\ Fresh => ManagerInv
<1> SUFFICES ASSUME ConfigInv, Fresh PROVE ManagerInv
  OBVIOUS
<1>1. ManagerType
  <2>1. \A k \in Configs : Active(row)[k] \subseteq Config
    BY ActiveType DEF ConfigInv, ConfigTypeOK
  <2>2. lived \in [Configs -> SUBSET Config]
    BY <2>1 DEF Fresh, Active
  <2>3. QED
    BY <2>2, IdleFacts DEF Fresh, ManagerType
<1>2. MutexInv
  BY IdleFacts DEF Fresh, MutexInv, Holds
<1>3. LivedInv
  BY IdleFacts DEF Fresh, LivedInv, GetLived, ListLived
<1>4. CachedWasActive
  BY DEF Fresh, CachedWasActive
<1>5. QED
  BY <1>1, <1>2, <1>3, <1>4 DEF ManagerInv

LEMMA CrashIInv ==
  ASSUME IInv, Crash
  PROVE  IInv'
<1>1. ConfigInv'
  BY CrashInv DEF IInv, Crash
<1>2. Fresh'
  BY DEF Crash, ConfigCrash, Fresh, Active
<1>3. (ConfigInv /\ Fresh => ManagerInv)'
  BY FreshInv, PTL
<1>4. QED
  BY <1>1, <1>2, <1>3 DEF IInv

-----------------------------------------------------------------------------
(* Every behaviour.                                                        *)

LEMMA InitIInv == Init => IInv
<1> SUFFICES ASSUME Init PROVE IInv
  OBVIOUS
<1>1. ConfigTypeOK
  BY TableAssumption, NoWritesType DEF Init, ConfigInit, ConfigTypeOK, InTx
<1>2. Shape /\ \A r \in Requests : AskInv(r)
  BY DEF Init, ConfigInit, Shape, AskInv, InTx
<1>3. QED
  BY <1>1, <1>2, FreshInv DEF Init, Fresh, IInv, ConfigInv

LEMMA StutterIInv ==
  ASSUME IInv, UNCHANGED vars
  PROVE  IInv'
<1> USE DEF IInv, vars, configVars, managerVars
<1>1. ConfigInv'
  BY DEF ConfigInv, ConfigTypeOK, Shape, AskInv, InTx
<1>2. ManagerInv'
  BY DEF ManagerInv, ManagerType, MutexInv, Holds, LivedInv, GetLived, ListLived, Lived, Active,
         CachedWasActive
<1>3. QED
  BY <1>1, <1>2

LEMMA NextIInv == IInv /\ [Next]_vars => IInv'
<1> SUFFICES ASSUME IInv, [Next]_vars PROVE IInv'
  OBVIOUS
<1>1. CASE \E r \in Requests : RequestStep(r)
  BY <1>1, RequestStepInv
<1>2. CASE \E r \in Requests : Fails(r)
  BY <1>2, FailsInv
<1>3. CASE \E c \in Getters : GetStep(c)
  BY <1>3, GetLookInv, GetLockInv, GetQueryInv, GetCreateInv DEF GetStep
<1>4. CASE \E c \in Getters, k \in Configs : GetProvider(c, k)
  BY <1>4, GetProviderInv
<1>5. CASE \E c \in Listers : ListStep(c)
  BY <1>5, ListQueryInv, ListLookInv, ListStoreInv DEF ListStep
<1>6. CASE \E c \in Listers, prefix \in Selections : ListProviders(c, prefix)
  BY <1>6, ListProvidersInv
<1>7. CASE Crash
  BY <1>7, CrashIInv
<1>8. CASE UNCHANGED vars
  BY <1>8, StutterIInv
<1>9. CASE \E c \in Listers : ListFails(c)
  BY <1>9, ListDone DEF ListFails
<1>10. QED
  BY <1>1, <1>2, <1>3, <1>4, <1>5, <1>6, <1>7, <1>8, <1>9 DEF Next

LEMMA Always == Spec => []IInv
BY InitIInv, NextIInv, PTL DEF Spec

\* TypeOK holds always, for any number of requests, callers and connections
\* (config_service.go, channel_manager.go).
THEOREM TypeCorrect == Spec => []TypeOK
<1>1. IInv => TypeOK
  BY DEF IInv, ConfigInv, ManagerInv, ManagerType, TypeOK
<1>2. QED
  BY <1>1, Always, PTL

\* A cached provider has a configuration that was active since the process started
\* (GetProvider and ListProvidersByChannelPrefix read only active rows, committed
\* ones, and the map dies with the process).
THEOREM CachedIsActive == Spec => []CachedWasActive
<1>1. IInv => CachedWasActive
  BY DEF IInv, ManagerInv
<1>2. QED
  BY <1>1, Always, PTL

\* Only a listing replaces a provider: GetProvider writes the map after it has found
\* nothing there under the same write lock.
THEOREM NotReplaced == Spec => NeverReplaced
<1> DEFINE Step ==
      \A k \in Configs :
        providers[k] # Absent /\ providers'[k] \notin {providers[k], Absent}
        => \E c \in Listers : list[c].at = "store" /\ list[c].of = k
<1>1. IInv /\ [Next]_vars => [Step]_providers
  <2> SUFFICES ASSUME IInv, [Next]_vars,
                      NEW k \in Configs,
                      providers[k] # Absent, providers'[k] \notin {providers[k], Absent}
               PROVE  \E c \in Listers : list[c].at = "store" /\ list[c].of = k
    OBVIOUS
  <2>1. providers \in [Configs -> Config \cup {Absent}]
    BY DEF IInv, ManagerInv, ManagerType
  <2>2. ASSUME NEW c \in Getters, GetCreate(c) PROVE FALSE
    <3>1. get[c].of # k
      BY <2>2 DEF IInv, ManagerInv, MutexInv, Holds, GetCreate
    <3>2. QED
      BY <2>1, <2>2, <3>1 DEF GetCreate
  <2>3. ASSUME NEW c \in Listers, ListStore(c) PROVE list[c].at = "store" /\ list[c].of = k
    BY <2>1, <2>3 DEF ListStore
  <2>4. CASE \E r \in Requests : RequestStep(r) \/ Fails(r)
    BY <2>4 DEF RequestStep, Fails, managerVars
  <2>5. CASE \E c \in Getters : GetStep(c)
    BY <2>2, <2>5 DEF GetStep, GetLook, GetLock, GetQuery
  <2>6. CASE \E c \in Getters, x \in Configs : GetProvider(c, x)
    BY <2>6 DEF GetProvider
  <2>7. CASE \E c \in Listers : ListStep(c)
    BY <2>3, <2>7 DEF ListStep, ListQuery, ListLook
  <2>8. CASE \E c \in Listers : ListFails(c) \/ \E prefix \in Selections : ListProviders(c, prefix)
    BY <2>8 DEF ListFails, ListProviders
  <2>9. CASE Crash
    BY <2>9 DEF Crash
  <2>10. CASE UNCHANGED vars
    BY <2>10 DEF vars, managerVars
  <2>11. QED
    BY <2>4, <2>5, <2>6, <2>7, <2>8, <2>9, <2>10 DEF Next
<1>2. QED
  BY <1>1, Always, PTL DEF Spec, NeverReplaced

-----------------------------------------------------------------------------
(* Secrets.                                                                *)

SealedRow(x, v) == x \in Configs /\ v \notin {Absent, Untouched} => Unreadable(v.config)

\* No secret can be read in an audit row, and in a log.
SealedEntry(e) ==
  /\ e.old # Absent => Unreadable(e.old.config)
  /\ "config" \in DOMAIN e.new => Unreadable(e.new.config)
SealedLog(log) == \E S : log \in Seq(S) /\ \A e \in S : SealedEntry(e)

\* A transaction writes sealed rows; one with an audit row writes no other row than
\* that is about.
RequestSealed(r) ==
  /\ pc[r] \in {"begun", "read"} => writes[r] = NoWrites
  /\ pc[r] = "begun" /\ ask[r].op = "create" => ~Unstorable(ask[r].of, ask[r].set)
  /\ pc[r] \in {"written", "audited"} =>
       \A x \in Resources \ {ask[r].of} : writes[r][x] = Untouched
  /\ pc[r] = "audited" /\ ask[r].of \in Configs => SealedEntry(entry[r])
  /\ \A x \in Resources : SealedRow(x, writes[r][x])

SealInv ==
  /\ \A x \in Resources : SealedRow(x, row[x])
  /\ \A k \in Configs : SealedLog(audit[k])
  /\ \A r \in Requests : RequestSealed(r)

\* What the tables hold to begin with.
TablesSealed == \A t \in Tables : \A k \in Configs : t[k] # Absent => Unreadable(t[k].config)

\* What encryptConfigJSON lets through can be read by nobody.
LEMMA EncryptHides ==
  ASSUME NEW c \in Config, NEW key \in MasterKeys \cup {NoKey}, ~EncryptFails(c, key)
  PROVE  Unreadable(EncryptConfig(c, key))
<1> USE KeyAssumption, FieldAssumption DEF Config, Value, Plain, Sealed, IsEncryptedValue
<1>1. \A f \in Fields : Transformed(f, c[f]) /\ ~IsEncryptedValue(c[f]) => key # NoKey
  BY DEF EncryptFails
<1>2. ASSUME NEW f \in Sensitive
      PROVE  IsEncryptedValue(EncryptConfig(c, key)[f]) \/ EncryptConfig(c, key)[f].text = Empty
  <2>1. f \in Fields /\ c[f] \in Value
    OBVIOUS
  <2>2. CASE Transformed(f, c[f]) /\ ~IsEncryptedValue(c[f])
    <3>1. EncryptConfig(c, key)[f] = Sealed(c[f].text, key) /\ key # NoKey
      BY <1>1, <2>1, <2>2 DEF EncryptConfig
    <3>2. QED
      BY <3>1
  <2>3. CASE ~(Transformed(f, c[f]) /\ ~IsEncryptedValue(c[f]))
    BY <2>1, <2>3 DEF EncryptConfig, Transformed
  <2>4. QED
    BY <2>2, <2>3
<1>3. QED
  BY <1>2 DEF Unreadable

\* The row that an insert or an update writes.
LEMMA StoredSealed ==
  ASSUME ConfigTypeOK, NEW x \in Resources, NEW set, Brings(set), DOMAIN set \subseteq Columns,
         ~Unstorable(x, set), NEW was, SealedRow(x, was),
         was \in Row \/ DOMAIN set = Columns
  PROVE  SealedRow(x, Changed(was, Stored(x, set)))
<1> SUFFICES ASSUME x \in Configs PROVE Unreadable(Changed(was, Stored(x, set)).config)
  BY DEF SealedRow
<1>1. CASE "config" \in DOMAIN set
  <2>1. set.config \in Config /\ ~EncryptFails(set.config, masterKey)
    BY <1>1, PlainType DEF Brings, Unstorable
  <2>2. Unreadable(EncryptConfig(set.config, masterKey))
    BY <2>1, EncryptHides DEF ConfigTypeOK
  <2>3. Changed(was, Stored(x, set)).config = EncryptConfig(set.config, masterKey)
    BY <1>1 DEF Changed, Stored, Columns
  <2>4. QED
    BY <2>2, <2>3
<1>2. CASE "config" \notin DOMAIN set
  <2>1. Changed(was, Stored(x, set)).config = was.config
    BY <1>2 DEF Changed, Stored, Columns
  <2>2. was \in Row /\ Unreadable(was.config)
    BY <1>2, ConfigAssumption DEF Columns, SealedRow
  <2>3. QED
    BY <2>1, <2>2
<1>3. QED
  BY <1>1, <1>2

\* What the audit row of a channel shows.
LEMMA EntrySealed ==
  ASSUME ConfigTypeOK, NEW r \in Requests, ask[r].of \in Configs,
         Brings(ask[r].set), DOMAIN ask[r].set \subseteq Columns
  PROVE  SealedEntry(AuditEntry(r))
<1> DEFINE x == ask[r].of
           set == ask[r].set
           before == IF old[r] = Absent THEN Absent ELSE Shown(x, old[r])
           after == Shown(x, Stored(x, set))
<1>1. before # Absent => Unreadable(before.config)
  <2>1. CASE old[r] = Absent
    BY <2>1
  <2>2. CASE old[r] # Absent
    <3>1. old[r] \in Row /\ DOMAIN old[r] = Columns /\ old[r].config \in Config
      BY <2>2 DEF ConfigTypeOK, Row, Columns
    <3>2. before.config = MaskConfig(old[r].config)
      BY <2>2, <3>1 DEF Shown, Row, Columns
    <3>3. QED
      BY <3>1, <3>2, MaskHides
  <2>3. QED
    BY <2>1, <2>2
<1>2. ASSUME "config" \in DOMAIN after PROVE Unreadable(after.config)
  <2>1. "config" \in DOMAIN set
    BY <1>2 DEF Stored, Shown
  <2>2. EncryptConfig(set.config, masterKey) \in Config
    BY <2>1, PlainType, EncryptType DEF Brings, ConfigTypeOK
  <2>3. after.config = MaskConfig(EncryptConfig(set.config, masterKey))
    BY <2>1 DEF Stored, Shown
  <2>4. QED
    BY <2>2, <2>3, MaskHides
<1>3. AuditEntry(r) = [old |-> before, new |-> after]
  BY DEF AuditEntry
<1> HIDE DEF before, after
<1>4. QED
  BY <1>1, <1>2, <1>3 DEF SealedEntry

\* A step of a request leaves what it keeps of itself sealed.
LEMMA BeginSealed ==
  ASSUME ConfigInv, SealInv, NEW r \in Requests, NEW a \in Asks, NEW connected, Begin(r, a, connected)
  PROVE  RequestSealed(r)'
<1> USE DEF ConfigInv, ConfigTypeOK, Shape, Goes
<1>1. pc[r] = "none" /\ UNCHANGED <<masterKey, writes, entry>> /\ writes[r] = NoWrites
  BY DEF Begin, InTx
<1>2. \/ pc'[r] = "done"
      \/ pc'[r] = "begun" /\ ask'[r] = a /\ ~(a.op = "create" /\ Unstorable(a.of, a.set))
  BY DEF Begin
<1>3. \A x \in Resources : SealedRow(x, writes[r][x])
  BY DEF SealInv, RequestSealed
<1>4. QED
  BY <1>1, <1>2, <1>3 DEF RequestSealed, SealedRow, Unstorable

\* The single row that a transaction with an audit row writes.
LEMMA WriteSealed ==
  ASSUME ConfigInv, SealInv, NEW r \in Requests, NEW x \in Resources, NEW v \in Row, Writes(r, x, v),
         SealedRow(x, v), UNCHANGED entry, pc[r] # "audited",
         \/ pc'[r] = "written" /\ x = ask[r].of /\ writes[r] = NoWrites /\ UNCHANGED ask
         \/ pc'[r] = "setup"
  PROVE  RequestSealed(r)'
<1>1. /\ writes'[r][x] = v
      /\ \A y \in Resources \ {x} : writes'[r][y] = writes[r][y]
  BY WriteFacts DEF ConfigInv
<1>2. \A y \in Resources : SealedRow(y, writes'[r][y])
  BY <1>1 DEF SealInv, RequestSealed
<1>3. pc'[r] = "written" => \A y \in Resources \ {ask'[r].of} : writes'[r][y] = Untouched
  BY <1>1 DEF NoWrites
<1>4. QED
  BY <1>2, <1>3 DEF RequestSealed, SealedRow

LEMMA InsertSealed ==
  ASSUME ConfigInv, SealInv, NEW r \in Requests, InsertRow(r)
  PROVE  RequestSealed(r)'
<1> DEFINE x == ask[r].of
           v == Changed(Absent, Stored(x, ask[r].set))
<1>1. pc[r] = "begun" /\ ask[r].op = "create" /\ IsAsk(ask[r])
  BY DEF InsertRow, InTx, ConfigInv, AskInv
<1>2. x \in Resources /\ Brings(ask[r].set) /\ DOMAIN ask[r].set = Columns
  BY <1>1, AskFacts
<1>3. ~Unstorable(x, ask[r].set) /\ writes[r] = NoWrites
  BY <1>1 DEF SealInv, RequestSealed
<1>4. v \in Row /\ SealedRow(x, v)
  BY <1>2, <1>3, StoredRow, StoredSealed DEF ConfigInv, SealedRow
<1>5. Writes(r, x, v) /\ pc'[r] = "written" /\ UNCHANGED <<entry, ask>>
  BY DEF InsertRow, Goes, ConfigInv, ConfigTypeOK
<1> HIDE DEF v
<1>6. QED
  BY <1>1, <1>2, <1>3, <1>4, <1>5, WriteSealed

LEMMA UpdateSealed ==
  ASSUME ConfigInv, SealInv, NEW r \in Requests, UpdateRow(r)
  PROVE  RequestSealed(r)'
<1> DEFINE x == ask[r].of
           v == Changed(row[x], Stored(x, ask[r].set))
<1>1. pc[r] = "read" /\ ask[r].op = "update" /\ IsAsk(ask[r]) /\ row[x] # Absent
  BY DEF UpdateRow, InTx, ConfigInv, AskInv
<1>2. x \in Resources /\ Brings(ask[r].set) /\ DOMAIN ask[r].set \subseteq Columns
  BY <1>1, AskFacts
<1>3. ~Unstorable(x, ask[r].set) /\ writes[r] = NoWrites
  BY <1>1 DEF SealInv, RequestSealed, UpdateRow
<1>4. row[x] \in Row /\ SealedRow(x, row[x])
  BY <1>1, <1>2 DEF SealInv, ConfigInv, ConfigTypeOK
<1>5. v \in Row /\ SealedRow(x, v)
  BY <1>2, <1>3, <1>4, StoredRow, StoredSealed DEF ConfigInv
<1>6. Writes(r, x, v) /\ pc'[r] = "written" /\ UNCHANGED <<entry, ask>>
  BY DEF UpdateRow, Goes, ConfigInv, ConfigTypeOK
<1> HIDE DEF v
<1>7. QED
  BY <1>1, <1>2, <1>3, <1>5, <1>6, WriteSealed

LEMMA AuditSealed ==
  ASSUME ConfigInv, SealInv, NEW r \in Requests, InsertAudit(r)
  PROVE  RequestSealed(r)'
<1>1. /\ pc[r] = "written" /\ pc'[r] = "audited" /\ UNCHANGED <<ask, writes, masterKey>>
      /\ entry'[r] = AuditEntry(r)
  BY DEF InsertAudit, Goes, ConfigInv, ConfigTypeOK, Shape
<1>2. IsAsk(ask[r]) /\ ask[r].op # "setup"
  BY <1>1 DEF ConfigInv, AskInv, InTx
<1>3. ask[r].of \in Configs => SealedEntry(AuditEntry(r))
  BY <1>2, AskFacts, EntrySealed DEF ConfigInv
<1>4. QED
  BY <1>1, <1>3 DEF SealInv, RequestSealed, SealedRow

LEMMA ReadSealed ==
  ASSUME ConfigInv, SealInv, NEW r \in Requests, NEW connected, ReadOld(r, connected)
  PROVE  RequestSealed(r)'
<1>1. pc[r] = "begun" /\ pc'[r] = "read" /\ UNCHANGED <<ask, writes, entry, masterKey>>
  BY DEF ReadOld, Goes, ConfigInv, ConfigTypeOK
<1>2. QED
  BY <1>1 DEF SealInv, RequestSealed, SealedRow

LEMMA SetupAppSealed ==
  ASSUME ConfigInv, SealInv, NEW r \in Requests, SetupApp(r)
  PROVE  RequestSealed(r)'
<1>1. /\ pc[r] = "begun" /\ ask[r].op = "setup" /\ pc'[r] = "setup"
      /\ UNCHANGED <<ask, entry, masterKey>>
  BY DEF SetupApp, Goes, ConfigInv, ConfigTypeOK
<1>2. SetsUp(ask[r])
  BY <1>1, AskFacts DEF ConfigInv, AskInv, InTx
<1>3. CASE UNCHANGED writes
  BY <1>1, <1>3 DEF SealInv, RequestSealed, SealedRow
<1>4. CASE Writes(r, ask[r].of, [config |-> ask[r].app, status |-> "active"])
  <2>1. [config |-> ask[r].app, status |-> "active"] \in Row
    BY <1>2, PlainType DEF SetsUp, Row, Statuses
  <2>2. ask[r].of \in Resources /\ ask[r].of \notin Configs
    BY <1>2, ConfigAssumption DEF SetsUp, Resources
  <2>3. QED
    BY <1>1, <1>4, <2>1, <2>2, WriteSealed DEF SealedRow
<1>5. QED
  BY <1>3, <1>4 DEF SetupApp

LEMMA SetupChannelSealed ==
  ASSUME ConfigInv, SealInv, NEW r \in Requests, SetupChannel(r)
  PROVE  RequestSealed(r)'
<1> DEFINE k == Head(ask[r].set)[1]
           c == FinalConfig(k, Head(ask[r].set)[2])
           v == [config |-> EncryptConfig(c, masterKey), status |-> "active"]
<1>1. pc[r] = "setup" /\ pc'[r] = "setup" /\ Writes(r, k, v) /\ UNCHANGED entry
  BY DEF SetupChannel
<1>2. k \in Configs /\ c \in Config
  BY SetupFacts DEF SetupChannel
<1>3. ~EncryptFails(c, masterKey)
  BY DEF SetupChannel
<1>4. v \in Row /\ Unreadable(v.config)
  BY <1>2, <1>3, EncryptType, EncryptHides DEF Row, Statuses, ConfigInv, ConfigTypeOK
<1> HIDE DEF k, v
<1>5. QED
  BY <1>1, <1>2, <1>4, WriteSealed DEF SealedRow, Resources

\* A request that is over has nothing left to commit.
LEMMA EndSealed ==
  ASSUME NEW r \in Requests, ConfigInv, pc'[r] = "done", writes'[r] = NoWrites, entry'[r] = Absent
  PROVE  RequestSealed(r)'
BY DEF RequestSealed, SealedRow, NoWrites

LEMMA RequestStaysSealed ==
  ASSUME ConfigInv, SealInv, NEW r \in Requests, Request(r)
  PROVE  \A s \in Requests : RequestSealed(s)'
<1>1. RequestSealed(r)'
  <2>1. CASE Commit(r) \/ Rollback(r)
    BY <2>1, EndSealed DEF Commit, Rollback, Goes, ConfigInv, ConfigTypeOK, Shape
  <2>2. QED
    BY <2>1, BeginSealed, InsertSealed, ReadSealed, UpdateSealed, AuditSealed, SetupAppSealed,
       SetupChannelSealed DEF Request
<1>2. ASSUME NEW s \in Requests \ {r} PROVE RequestSealed(s)'
  <2>1. Kept(r)
    BY RequestKept
  <2>2. QED
    BY <2>1 DEF Kept, Apart, SealInv, RequestSealed, SealedRow, Unstorable
<1>3. QED
  BY <1>1, <1>2

\* Commit makes sealed rows visible, with the audit row of the one row it is about.
LEMMA CommitSealed ==
  ASSUME ConfigInv, SealInv, NEW r \in Requests, Commit(r)
  PROVE  /\ \A x \in Resources : SealedRow(x, row'[x])
         /\ \A k \in Configs : SealedLog(audit'[k])
<1>1. ASSUME NEW x \in Resources PROVE SealedRow(x, row'[x])
  BY DEF Commit, View, SealInv, RequestSealed
<1>2. ASSUME NEW k \in Configs PROVE SealedLog(audit'[k])
  <2>1. PICK S : audit[k] \in Seq(S) /\ \A e \in S : SealedEntry(e)
    BY DEF SealInv, SealedLog
  <2>2. audit'[k] = IF LockedBy(r, k) /\ pc[r] = "audited" THEN Append(audit[k], entry[r]) ELSE audit[k]
    BY DEF Commit, Resources
  <2>3. CASE LockedBy(r, k) /\ pc[r] = "audited"
    <3>1. ask[r].of = k
      BY <2>3 DEF SealInv, RequestSealed, LockedBy, Resources
    <3>2. SealedEntry(entry[r])
      BY <2>3, <3>1 DEF SealInv, RequestSealed
    <3>3. Append(audit[k], entry[r]) \in Seq(S \cup {entry[r]})
      BY <2>1
    <3>4. QED
      BY <2>1, <2>2, <2>3, <3>2, <3>3 DEF SealedLog
  <2>4. QED
    BY <2>1, <2>2, <2>3 DEF SealedLog
<1>3. QED
  BY <1>1, <1>2

LEMMA RequestSealInv ==
  ASSUME ConfigInv, SealInv, NEW r \in Requests, Request(r)
  PROVE  SealInv'
<1>1. \/ UNCHANGED <<row, audit>>
      \/ Commit(r)
  BY DEF Request, Begin, InsertRow, ReadOld, UpdateRow, InsertAudit, SetupApp, SetupChannel, Rollback
<1>2. \A s \in Requests : RequestSealed(s)'
  BY RequestStaysSealed
<1>3. CASE UNCHANGED <<row, audit>>
  BY <1>2, <1>3 DEF SealInv, SealedRow, SealedLog
<1>4. CASE Commit(r)
  BY <1>2, <1>4, CommitSealed DEF SealInv, SealedRow, SealedLog, SealedEntry
<1>5. QED
  BY <1>1, <1>3, <1>4

LEMMA NextSealInv == IInv /\ SealInv /\ [Next]_vars => SealInv'
<1> SUFFICES ASSUME IInv, SealInv, [Next]_vars PROVE SealInv'
  OBVIOUS
<1>1. ASSUME NEW r \in Requests, RequestStep(r) \/ Fails(r) PROVE SealInv'
  <2>1. Request(r)
    BY <1>1 DEF RequestStep, Fails, Request
  <2>2. QED
    BY <2>1, RequestSealInv DEF IInv
<1>2. CASE UNCHANGED configVars
  BY <1>2 DEF configVars, SealInv, RequestSealed, SealedRow, Unstorable
<1>3. CASE Crash
  <2>1. \A r \in Requests : pc'[r] \in {"none", "done"} /\ writes'[r] = NoWrites /\ entry'[r] = Absent
    BY <1>3 DEF Crash, ConfigCrash, IInv, ConfigInv, ConfigTypeOK, InTx
  <2>2. \A r \in Requests : RequestSealed(r)'
    BY <2>1 DEF RequestSealed, SealedRow, NoWrites
  <2>3. QED
    BY <1>3, <2>2 DEF Crash, ConfigCrash, SealInv
<1>4. QED
  BY <1>1, <1>2, <1>3 DEF Next, vars, GetStep, GetLook, GetLock, GetQuery, GetCreate, GetProvider,
     ListStep, ListQuery, ListLook, ListStore, ListFails, ListProviders

\* No member of a channel's configuration that isSensitiveConfigKey lists can be read
\* in its row or in its audit rows, whoever wrote them and whatever key the server runs
\* with, if none could when it was first started (encryptConfigJSON,
\* MaskSensitiveConfigJSON and their callers).  It says nothing of a secret that the
\* list misses, WeChat's api_v3_key.
THEOREM ListedStaySealed == TablesSealed /\ Spec => []ListedSealed
<1>1. TablesSealed /\ Init => SealInv
  <2> SUFFICES ASSUME TablesSealed, Init PROVE SealInv
    OBVIOUS
  <2>1. \A x \in Resources : SealedRow(x, row[x])
    BY DEF TablesSealed, Init, ConfigInit, SealedRow
  <2>2. SealedLog(<<>>)
    <3>1. ASSUME NEW S, S = {} PROVE <<>> \in Seq(S) /\ \A e \in S : SealedEntry(e)
      BY <3>1
    <3>2. \E S : S = {}
      OBVIOUS
    <3>3. QED
      BY <3>1, <3>2 DEF SealedLog
  <2>3. \A k \in Configs : SealedLog(audit[k])
    BY <2>2 DEF Init, ConfigInit, Resources
  <2>4. \A r \in Requests : RequestSealed(r)
    BY DEF Init, ConfigInit, RequestSealed, SealedRow, NoWrites
  <2>5. QED
    BY <2>1, <2>3, <2>4 DEF SealInv
<1>2. IInv /\ SealInv => ListedSealed
  <2> SUFFICES ASSUME IInv, SealInv, NEW k \in Configs
               PROVE  /\ row[k] # Absent => Unreadable(row[k].config)
                      /\ \A i \in DOMAIN audit[k] : SealedEntry(audit[k][i])
    BY DEF ListedSealed, SealedEntry
  <2>1. row[k] # Absent => Unreadable(row[k].config)
    BY ConfigAssumption DEF SealInv, SealedRow, IInv, ConfigInv, ConfigTypeOK, Resources
  <2>2. PICK S : audit[k] \in Seq(S) /\ \A e \in S : SealedEntry(e)
    BY DEF SealInv, SealedLog
  <2>3. \A i \in DOMAIN audit[k] : audit[k][i] \in S
    BY <2>2
  <2>4. QED
    BY <2>1, <2>2, <2>3
<1>3. QED
  BY <1>1, <1>2, NextSealInv, Always, PTL DEF Spec
=============================================================================
