---------------------------- MODULE ConfigPromise ---------------------------
(***************************************************************************)
(* What the configuration of GoPay promises to its administrators and to   *)
(* the code that takes payments, without transactions, locks, connections, *)
(* keys or ciphertexts:                                                    *)
(*   - a change is applied to the row as it is at that moment, columns it  *)
(*     does not bring keep their value, and the same step records it in    *)
(*     the audit log, with the members that isSensitiveConfigKey lists     *)
(*     masked;                                                             *)
(*   - a quick setup writes its rows in one step, active, leaves an app    *)
(*     that exists as it is, and records nothing, though the audit table's *)
(*     comment (migrations/004_config_audit_log.up.sql) has it record      *)
(*     every change;                                                       *)
(*   - a payment is made with a configuration that was in force at some    *)
(*     time since the process started.                                     *)
(* ChannelManager implements this specification.                           *)
(***************************************************************************)
EXTENDS ConfigCrypto, Sequences

CONSTANTS Apps, Configs, Absent

VARIABLES
  rows,     \* apps and channel configurations, in the clear
  log,      \* the changes on record of each row
  cache,    \* the configuration that payments of a channel are made with
  inForce   \* the configurations that were active since the process started

vars == <<rows, log, cache, inForce>>

Resources == Apps \cup Configs

Statuses == {"active", "disabled"}
Row == [config : Config, status : Statuses]

\* A change brings one of the columns, or both.
Whole == [config : PlainConfig, status : Statuses]
Change == Whole \cup [config : PlainConfig] \cup [status : Statuses]

Masked(x, change) ==
  IF x \in Configs /\ "config" \in DOMAIN change
  THEN [change EXCEPT !.config = MaskConfig(@)] ELSE change

Applied(was, change) ==
  [c \in {"config", "status"} |-> IF c \in DOMAIN change THEN change[c] ELSE was[c]]

ActiveOf(all, k) ==
  IF all[k] # Absent /\ all[k].status = "active" THEN {all[k].config} ELSE {}

ComesIntoForce == inForce' = [k \in Configs |-> inForce[k] \cup ActiveOf(rows', k)]

Init ==
  /\ rows \in [Resources -> Row \cup {Absent}]
  /\ log = [x \in Resources |-> <<>>]
  /\ cache = [k \in Configs |-> Absent]
  /\ inForce = [k \in Configs |-> ActiveOf(rows, k)]

Write(x) ==
  /\ log'[x] # log[x]
  /\ \E change \in Change :
       /\ rows[x] = Absent => change \in Whole
       /\ rows' = [rows EXCEPT ![x] = Applied(@, change)]
       /\ log' = [log EXCEPT ![x] = Append(@, Masked(x, change))]
  /\ ComesIntoForce
  /\ UNCHANGED cache

QuickSetup ==
  /\ \A x \in Resources :
       rows'[x] # rows[x] =>
         /\ rows'[x] \in Row /\ rows'[x].status = "active"
         /\ x \in Apps => rows[x] = Absent
  /\ DOMAIN rows' = Resources
  /\ ComesIntoForce
  /\ UNCHANGED <<log, cache>>

Load(k) ==
  /\ \E config \in inForce[k] : cache' = [cache EXCEPT ![k] = config]
  /\ UNCHANGED <<rows, log, inForce>>

Restart ==
  /\ cache' = [k \in Configs |-> Absent]
  /\ inForce' = [k \in Configs |-> ActiveOf(rows, k)]
  /\ UNCHANGED <<rows, log>>

Next ==
  \/ \E x \in Resources : Write(x)
  \/ QuickSetup
  \/ \E k \in Configs : Load(k)
  \/ Restart

Spec == Init /\ [][Next]_vars
=============================================================================
