--------------------------- MODULE ChannelManager ---------------------------
(***************************************************************************)
(* The providers that the server keeps in memory                           *)
(* (internal/service/channel_manager.go) over the configurations in the    *)
(* database, and the connections that both use.                            *)
(*                                                                         *)
(* GetProvider loads a missing provider while it holds the write lock;     *)
(* ListProvidersByChannelPrefix loads the missing ones while it holds a    *)
(* connection, and takes the lock twice for each.  A call that finds its   *)
(* provider in the cache only reads the map under the read lock.           *)
(* ReloadProvider and Close have no caller in the program.                 *)
(***************************************************************************)
EXTENDS ConfigService

CONSTANTS
  Getters,   \* callers of GetProvider: checkout, refunds and callbacks
  Listers,   \* callers of ListProvidersByChannelPrefix: callbacks
  Selections   \* what a prefix selects, sets of Configs

ASSUME SelectionAssumption == Selections \subseteq SUBSET Configs

VARIABLES
  providers, \* the map of providers; a provider is its decrypted configuration
  get,       \* the calls of GetProvider
  list,      \* the calls of ListProvidersByChannelPrefix
  lived      \* history: the configurations that were active since the process started

managerVars == <<providers, get, list, lived>>
vars == <<configVars, managerVars>>

NoCall == [at |-> "idle"]

\* What a caller of GetProvider is about to do, for which row.
IsGet(g) ==
  \/ g = NoCall
  \/ g.at \in {"look", "lock", "query"} /\ g.of \in Configs
  \/ g.at = "create" /\ g.of \in Configs /\ g.row \in Row

\* What a listing is about to do, with the rows that it has read and not yet used.
IsTodo(t) == DOMAIN t \subseteq Configs /\ \A k \in DOMAIN t : t[k] \in Row
IsList(l) ==
  \/ l = NoCall
  \/ l.at = "query" /\ l.prefix \in Selections
  \/ l.at = "look" /\ IsTodo(l.todo)
  \/ l.at = "store" /\ IsTodo(l.todo) /\ l.of \in DOMAIN l.todo /\ l.provider \in Config

TypeOK ==
  /\ ConfigTypeOK
  /\ providers \in [Configs -> Config \cup {Absent}]
  /\ \A c \in Getters : IsGet(get[c])
  /\ \A c \in Listers : IsList(list[c])
  /\ lived \in [Configs -> SUBSET Config]

\* The configurations that a table holds for use.
Active(rows) ==
  [k \in Configs |-> IF rows[k] # Absent /\ rows[k].status = "active"
                     THEN {DecryptConfig(rows[k].config)} ELSE {}]

Init ==
  /\ ConfigInit
  /\ providers = [k \in Configs |-> Absent]
  /\ get = [c \in Getters |-> NoCall]
  /\ list = [c \in Listers |-> NoCall]
  /\ lived = Active(row)

-----------------------------------------------------------------------------
(* The pool and the lock.                                                  *)

\* A listing holds a connection until its rows are read to the end.
Listing(c) == list[c].at \in {"look", "store"}
InUse == Cardinality({r \in Requests : InTx(r)}) + Cardinality({c \in Listers : Listing(c)})
Connected == InUse < MaxConns

\* mu is held for writing.
MuHeld == \E c \in Getters : get[c].at \in {"query", "create"}

-----------------------------------------------------------------------------
(* createProvider: one of the nine channels decrypts its configuration.    *)

Creatable(config) == ~DecryptFails(config, masterKey)
NewProvider(config) == DecryptConfig(config)

-----------------------------------------------------------------------------
(* GetProvider.                                                            *)

GetGoes(c, to) == get' = [get EXCEPT ![c] = to]

GetProvider(c, k) ==
  /\ get[c] = NoCall
  /\ GetGoes(c, [at |-> "look", of |-> k])
  /\ UNCHANGED <<configVars, providers, list, lived>>

GetLook(c) ==
  /\ get[c].at = "look" /\ ~MuHeld
  /\ IF providers[get[c].of] # Absent THEN GetGoes(c, NoCall)
     ELSE GetGoes(c, [at |-> "lock", of |-> get[c].of])
  /\ UNCHANGED <<configVars, providers, list, lived>>

\* Mutant: without the second look at the map.
LocksOnly(c) ==
  /\ get[c].at = "lock" /\ ~MuHeld
  /\ GetGoes(c, [at |-> "query", of |-> get[c].of])
  /\ UNCHANGED <<configVars, providers, list, lived>>

\* Lock, and the second look at the map.
GetLock(c) ==
  /\ get[c].at = "lock" /\ ~MuHeld
  /\ IF providers[get[c].of] # Absent THEN GetGoes(c, NoCall)
     ELSE GetGoes(c, [at |-> "query", of |-> get[c].of])
  /\ UNCHANGED <<configVars, providers, list, lived>>

\* Mutant: a configuration without a provider is tried again.
CreatesAgain(c) ==
  /\ get[c].at = "create"
  /\ Creatable(get[c].row.config)
  /\ providers' = [providers EXCEPT ![get[c].of] = NewProvider(get[c].row.config)]
  /\ GetGoes(c, NoCall)
  /\ UNCHANGED <<configVars, list, lived>>

\* Mutant: the status of the row is not looked at.
QueriesAny(c) ==
  /\ get[c].at = "query" /\ Connected
  /\ LET found == row[get[c].of] IN
       \/ found # Absent /\ GetGoes(c, [at |-> "create", of |-> get[c].of, row |-> found])
       \/ GetGoes(c, NoCall)
  /\ UNCHANGED <<configVars, providers, list, lived>>

\* Mutant: a query that finds nothing is repeated, with the lock held.
QueriesAgain(c) ==
  /\ get[c].at = "query" /\ Connected
  /\ row[get[c].of] # Absent /\ row[get[c].of].status = "active"
  /\ GetGoes(c, [at |-> "create", of |-> get[c].of, row |-> row[get[c].of]])
  /\ UNCHANGED <<configVars, providers, list, lived>>

\* The row, with the lock held: not found, inactive, or the query fails.
GetQuery(c) ==
  /\ get[c].at = "query" /\ Connected
  /\ LET found == row[get[c].of] IN
       \/ /\ found # Absent /\ found.status = "active"
          /\ GetGoes(c, [at |-> "create", of |-> get[c].of, row |-> found])
       \/ GetGoes(c, NoCall)
  /\ UNCHANGED <<configVars, providers, list, lived>>

\* There is no provider for a configuration that the key does not open, or that the
\* channel's library refuses.
GetCreate(c) ==
  /\ get[c].at = "create"
  /\ LET found == get[c].row.config IN
       \/ /\ Creatable(found)
          /\ providers' = [providers EXCEPT ![get[c].of] = NewProvider(found)]
       \/ UNCHANGED providers
  /\ GetGoes(c, NoCall)
  /\ UNCHANGED <<configVars, list, lived>>

-----------------------------------------------------------------------------
(* ListProvidersByChannelPrefix.                                           *)

ListGoes(c, to) == list' = [list EXCEPT ![c] = to]

\* The rest of the rows after k; the last one returns the connection.
ListRest(c, todo, k) ==
  LET rest == [x \in DOMAIN todo \ {k} |-> todo[x]] IN
  ListGoes(c, IF DOMAIN rest = {} THEN NoCall ELSE [at |-> "look", todo |-> rest])

ListProviders(c, prefix) ==
  /\ list[c] = NoCall
  /\ ListGoes(c, [at |-> "query", prefix |-> prefix])
  /\ UNCHANGED <<configVars, providers, get, lived>>

\* SELECT ... WHERE channel LIKE prefix AND status = 'active', or its failure.
ListQuery(c) ==
  /\ list[c].at = "query" /\ Connected
  /\ LET found == {k \in list[c].prefix : row[k] # Absent /\ row[k].status = "active"} IN
       \/ /\ found # {}
          /\ ListGoes(c, [at |-> "look", todo |-> [k \in found |-> row[k]]])
       \/ ListGoes(c, NoCall)
  /\ UNCHANGED <<configVars, providers, get, lived>>

\* rows.Next breaks off (rows.Err) or rows.Scan fails: what was stored stays.
ListFails(c) ==
  /\ list[c].at = "look"
  /\ ListGoes(c, NoCall)
  /\ UNCHANGED <<configVars, providers, get, lived>>

\* One row: its provider is cached, or is created, or cannot be.
ListLook(c) ==
  /\ list[c].at = "look" /\ ~MuHeld
  /\ LET todo == list[c].todo IN
     \E k \in DOMAIN todo :
       LET config == todo[k].config IN
       \/ providers[k] # Absent /\ ListRest(c, todo, k)
       \/ /\ providers[k] = Absent /\ Creatable(config)
          /\ ListGoes(c, [at |-> "store", todo |-> todo, of |-> k,
                          provider |-> NewProvider(config)])
       \/ providers[k] = Absent /\ ListRest(c, todo, k)
  /\ UNCHANGED <<configVars, providers, get, lived>>

\* The map is written under the lock, whatever it holds by now.
ListStore(c) ==
  /\ list[c].at = "store" /\ ~MuHeld
  /\ providers' = [providers EXCEPT ![list[c].of] = list[c].provider]
  /\ ListRest(c, list[c].todo, list[c].of)
  /\ UNCHANGED <<configVars, get, lived>>

-----------------------------------------------------------------------------
(* The whole.                                                              *)

Crash ==
  /\ ConfigCrash
  /\ providers' = [k \in Configs |-> Absent]
  /\ get' = [c \in Getters |-> NoCall]
  /\ list' = [c \in Listers |-> NoCall]
  /\ lived' = Active(row)
  /\ vars' # vars

\* A step of a request, which commits at most once.
RequestStep(r) ==
  /\ \/ \E a \in Asks : Begin(r, a, Connected)
     \/ InsertRow(r) \/ ReadOld(r, Connected) \/ UpdateRow(r) \/ InsertAudit(r)
     \/ SetupApp(r) \/ SetupChannel(r) \/ Commit(r)
     \/ Refused(r, Connected) /\ Rollback(r)
  /\ lived' = [k \in Configs |-> lived[k] \cup Active(row')[k]]
  /\ UNCHANGED <<providers, get, list>>

GetStep(c) == GetLook(c) \/ GetLock(c) \/ GetQuery(c) \/ GetCreate(c)

ListStep(c) == ListQuery(c) \/ ListLook(c) \/ ListStore(c)

Fails(r) == Rollback(r) /\ UNCHANGED managerVars

Next ==
  \/ \E r \in Requests : RequestStep(r)
  \/ \E r \in Requests : Fails(r)
  \/ \E c \in Getters : GetStep(c)
  \/ \E c \in Getters, k \in Configs : GetProvider(c, k)
  \/ \E c \in Listers : ListStep(c)
  \/ \E c \in Listers : ListFails(c)
  \/ \E c \in Listers, prefix \in Selections : ListProviders(c, prefix)
  \/ Crash

Spec == Init /\ [][Next]_vars

\* The mutex and the pool serve their waiters in order, and PostgreSQL ends a
\* deadlock.  Nobody has to send a request or to call.
FairSpec ==
  /\ Spec
  /\ \A r \in Requests : SF_vars(InTx(r) /\ RequestStep(r)) /\ WF_vars(Deadlocked(r) /\ Fails(r))
  /\ \A c \in Getters : SF_vars(GetStep(c))
  /\ \A c \in Listers : SF_vars(ListStep(c))

-----------------------------------------------------------------------------
(* Properties.                                                             *)

\* A provider has a configuration that was in force, and active, at some time since
\* the process started: it may be stale, as nothing invalidates it, but it was never
\* disabled, rolled back or of an earlier life.
CachedWasActive ==
  \A k \in Configs : providers[k] # Absent => providers[k] \in lived[k]

\* Nobody replaces a provider that others use: two calls of GetProvider create one
\* between them.  A listing may, as it creates a provider between two locks.
NeverReplaced ==
  [][\A k \in Configs :
       providers[k] # Absent /\ providers'[k] \notin {providers[k], Absent}
       => \E c \in Listers : list[c].at = "store" /\ list[c].of = k]_providers

\* The pool is empty, and whoever holds a connection waits: an update for a second
\* one, a listing for the lock of a GetProvider that waits for a connection.
Starved ==
  /\ ~Connected
  /\ \A r \in Requests : InTx(r) => pc[r] = "begun" /\ ask[r].op = "update"
  /\ (\E c \in Listers : Listing(c)) => \E c \in Getters : get[c].at = "query"

\* Every call comes to its end, though it takes locks, connections and row locks in
\* different orders, as long as the pool is not starved.
CallsEnd ==
  /\ \A r \in Requests : []<>(~InTx(r) \/ Starved)
  /\ \A c \in Getters : []<>(get[c] = NoCall \/ Starved)
  /\ \A c \in Listers : []<>(list[c] = NoCall \/ Starved)

\* What a call waits for: a row, a connection, the lock.
RequestWaits(r) ==
  WaitsFor(r) # {} \/ (pc[r] = "begun" /\ ask[r].op = "update" /\ ~Connected)
GetWaits(c) == IF get[c].at = "query" THEN ~Connected ELSE get[c].at # "create" /\ MuHeld
ListWaits(c) == IF list[c].at = "query" THEN ~Connected ELSE MuHeld

\* Row locks, connections and the lock never hold each other up so that every call
\* waits, unless the database ends a deadlock of row locks or the pool is starved.
NoStandstill ==
  /\ \A r \in Requests : InTx(r) => RequestWaits(r) /\ ~Deadlocked(r)
  /\ \A c \in Getters : get[c] # NoCall => GetWaits(c)
  /\ \A c \in Listers : list[c] # NoCall => ListWaits(c)
  => \/ Starved
     \/ /\ \A r \in Requests : ~InTx(r)
        /\ \A c \in Getters : get[c] = NoCall
        /\ \A c \in Listers : list[c] = NoCall

\* These are all its reasons to wait: whatever a call has found so far, the key and
\* the rows as they are by now, it has a next step.
OnlyWaitersStop ==
  /\ \A r \in Requests : InTx(r) /\ ~RequestWaits(r) => ENABLED RequestStep(r)
  /\ \A c \in Getters : get[c] # NoCall /\ ~GetWaits(c) => ENABLED GetStep(c)
  /\ \A c \in Listers : list[c] # NoCall /\ ~ListWaits(c) => ENABLED ListStep(c)

-----------------------------------------------------------------------------
(* The promise about configurations, over this system's state.             *)

\* A row in the clear.
Opened(x, stored) ==
  IF stored # Absent /\ x \in Configs
  THEN [stored EXCEPT !.config = DecryptConfig(@)] ELSE stored

Promise == INSTANCE ConfigPromise WITH
  rows <- [x \in Resources |-> Opened(x, row[x])],
  log <- [x \in Resources |-> [i \in DOMAIN audit[x] |-> audit[x][i].new]],
  cache <- providers,
  inForce <- lived

\* Transactions with reads outside them, row locks, rollbacks, crashes, encryption
\* and a cache that is filled by two paths look like one change after another, each
\* applied to the row as it is then, on record unless a quick setup made it, and no
\* update is lost.
PromiseKept == Promise!Spec
=============================================================================
