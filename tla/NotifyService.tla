---------------------------- MODULE NotifyService ---------------------------
(***************************************************************************)
(* The asynchronous notification of the business systems                   *)
(* (internal/service/notify_service.go) and the two retry buttons of the   *)
(* admin console (internal/admin/web_handler.go).                          *)
(*                                                                         *)
(* A worker is a goroutine of notifyWithRetryPayload.  PoolSlots are the   *)
(* tokens of the workerPool channel; ManualSlots are the goroutines that   *)
(* RetryNotify starts outside the pool, with the context of the HTTP       *)
(* request that asked for them, which the server cancels when the handler  *)
(* returns.  The payload is marshalled once, so a worker carries the order *)
(* status it was given (body) to its last attempt.                         *)
(*                                                                         *)
(* The rows of notify_logs and the operations alert are written by the     *)
(* steps below and read by no other code: they are not represented.        *)
(***************************************************************************)
EXTENDS OrderService

CONSTANTS
  PoolSlots,     \* the 100 tokens of workerPool
  ManualSlots,   \* bound: concurrent RetryNotify requests
  Apps,          \* the business systems
  AppOf,         \* the app an order belongs to
  NoOrder        \* "no order"

Workers == PoolSlots \cup ManualSlots
Bodies  == OrderStatuses   \* the "status" field of a callback

ASSUME SlotsAssumption == PoolSlots \cap ManualSlots = {}
ASSUME AppsAssumption  == AppOf \in [Orders -> Apps]
ASSUME NoOrderAssumption == NoOrder \notin Orders

VARIABLES
  worker,     \* the state of each worker
  sweep,      \* the rows ProcessPendingNotifies has read and not yet handed over
  checked,    \* the order whose row the admin's RetryOrder has just read
  appActive,  \* apps.status = 'active'
  heard,      \* the callbacks of each order that reached the business system
  acked       \* whether it answered one of them with HTTP 200, the answer read

notifyVars == <<worker, sweep, checked, appActive, heard, acked>>

WorkerPcs == {"reset", "getApp", "post", "count", "markNotified", "markFailed"}

BusyWorker ==
  [pc : WorkerPcs, order : Orders, body : Bodies,
   attempt : 0..MaxNotifyRetries, ok : BOOLEAN, cancelled : BOOLEAN]

Idle ==
  [pc |-> "idle", order |-> NoOrder, body |-> "none",
   attempt |-> 0, ok |-> FALSE, cancelled |-> FALSE]

NotifyTypeOK ==
  /\ worker \in [Workers -> BusyWorker \cup {Idle}]
  /\ sweep \in SUBSET Orders
  /\ checked \in Orders \cup {NoOrder}
  /\ appActive \in [Apps -> BOOLEAN]
  /\ heard \in [Orders -> SUBSET Bodies]
  /\ acked \in [Orders -> BOOLEAN]

NotifyInit ==
  /\ worker    = [w \in Workers |-> Idle]
  /\ sweep     = {}
  /\ checked   = NoOrder
  /\ appActive = [a \in Apps |-> TRUE]
  /\ heard     = [o \in Orders |-> {}]
  /\ acked     = [o \in Orders |-> FALSE]

Working(o) == \E w \in PoolSlots : worker[w].order = o

-----------------------------------------------------------------------------
(* Starting a worker.                                                      *)

Start(w, pc, o, body) ==
  worker' = [worker EXCEPT ![w] =
    [pc |-> pc, order |-> o, body |-> body, attempt |-> 0, ok |-> FALSE, cancelled |-> FALSE]]

\* The non-blocking send on workerPool: a free token starts a goroutine; with
\* none free the notification is only recorded as deferred.
NotifyAsync(o, body) ==
  \/ \E w \in PoolSlots : worker[w] = Idle /\ Start(w, "getApp", o, body)
  \/ /\ \A w \in PoolSlots : worker[w] # Idle
     /\ UNCHANGED worker

NotifyRefundAsync(o) == NotifyAsync(o, "refunded")

-----------------------------------------------------------------------------
(* The steps of a worker.                                                  *)

\* getApp: an app that is not active, or a failing query, ends the goroutine.
GetApp(w) ==
  /\ worker[w].pc = "getApp"
  /\ \/ /\ appActive[AppOf[worker[w].order]]
        /\ worker' = [worker EXCEPT ![w].pc = "post"]
        /\ UNCHANGED disturbed
     \/ /\ ~appActive[AppOf[worker[w].order]]
        /\ worker' = [worker EXCEPT ![w] = Idle]
        /\ UNCHANGED disturbed
     \/ /\ Disturb("dbfault")
        /\ worker' = [worker EXCEPT ![w] = Idle]
  /\ UNCHANGED <<orderVars, sweep, checked, appActive, heard, acked>>

Posted(w, ok) ==
  worker' = [worker EXCEPT ![w].pc = "count", ![w].attempt = @ + 1, ![w].ok = ok]

\* doNotifyPayload: the POST is answered with 200; or it is received and the
\* answer is another status, late or lost; or it never arrives, which is the
\* only outcome under a cancelled context.
Post(w) ==
  /\ worker[w].pc = "post"
  /\ LET o == worker[w].order
         b == worker[w].body
     IN  \/ /\ ~worker[w].cancelled
            /\ Posted(w, TRUE)
            /\ heard' = [heard EXCEPT ![o] = @ \cup {b}]
            /\ acked' = [acked EXCEPT ![o] = TRUE]
         \/ /\ ~worker[w].cancelled
            /\ Posted(w, FALSE)
            /\ heard' = [heard EXCEPT ![o] = @ \cup {b}]
            /\ UNCHANGED acked
         \/ /\ Posted(w, FALSE)
            /\ UNCHANGED <<heard, acked>>
  /\ UNCHANGED <<orderVars, sweep, checked, appActive, disturbed>>

\* Mutant: the last attempt's failure ends in the success branch.
LastAttemptCounts(w) ==
  IF worker[w].ok \/ worker[w].attempt = MaxNotifyRetries
  THEN "markNotified" ELSE "post"

\* Mutant: the loop has no limit.
RetriesForever(w) ==
  IF worker[w].ok THEN "markNotified" ELSE "post"

AfterAttempt(w) ==
  IF worker[w].ok THEN "markNotified"
  ELSE IF worker[w].attempt < MaxNotifyRetries THEN "post"
  ELSE "markFailed"

\* A statement of a worker on its row: it runs, or fails because the context is
\* cancelled or the database refuses.  The worker ignores the error.
OrIgnored(w, statement) ==
  \/ ~worker[w].cancelled /\ statement /\ UNCHANGED disturbed
  \/ worker[w].cancelled /\ UNCHANGED <<orderVars, disturbed>>
  \/ Disturb("dbfault") /\ UNCHANGED orderVars

\* IncrementRetryCount, then the decision: success, another attempt after the
\* backoff, or giving up.  A backoff lasts a second or more, which outlives the
\* request that started a manual worker.
Count(w) ==
  /\ worker[w].pc = "count"
  /\ worker' = [worker EXCEPT
       ![w].pc = AfterAttempt(w),
       ![w].ok = FALSE,
       ![w].cancelled = @ \/ (w \in ManualSlots /\ AfterAttempt(w) = "post")]
  /\ OrIgnored(w, IncrementRetryCount(worker[w].order))
  /\ UNCHANGED <<sweep, checked, appActive, heard, acked>>

MarkNotified(w) ==
  /\ worker[w].pc = "markNotified"
  /\ worker' = [worker EXCEPT ![w] = Idle]
  /\ OrIgnored(w, UpdateNotifyStatus(worker[w].order, "notified"))
  /\ UNCHANGED <<sweep, checked, appActive, heard, acked>>

\* Mutant: the worker gives up without marking the row.
ForgetsToMark(w) ==
  /\ worker[w].pc = "markFailed"
  /\ worker' = [worker EXCEPT ![w] = Idle]
  /\ UNCHANGED <<orderVars, disturbed, sweep, checked, appActive, heard, acked>>

MarkFailed(w) ==
  /\ worker[w].pc = "markFailed"
  /\ worker' = [worker EXCEPT ![w] = Idle]
  /\ OrIgnored(w, UpdateNotifyStatus(worker[w].order, "failed_notify"))
  /\ UNCHANGED <<sweep, checked, appActive, heard, acked>>

-----------------------------------------------------------------------------
(* The retry scheduler: StartRetryScheduler runs ProcessPendingNotifies at *)
(* start-up and then at every tick, one run at a time.                     *)

ProcessPendingNotifies ==
  /\ sweep = {}
  /\ sweep' = ListPendingNotifyOrders
  /\ sweep' # {}
  /\ UNCHANGED <<orderVars, disturbed, worker, checked, appActive, heard, acked>>

\* One turn of its loop.  The row it hands over was read with status 'paid'.
SweepNotify ==
  \E o \in sweep :
    /\ \A p \in sweep : o <= p
    /\ NotifyAsync(o, "paid")
    /\ sweep' = sweep \ {o}
    /\ UNCHANGED <<orderVars, disturbed, checked, appActive, heard, acked>>

-----------------------------------------------------------------------------
(* RetryNotify: read and check the row and the app, reset the columns, then *)
(* go notifyWithRetry with the row read at first.                          *)

\* Mutant: the status of the row is not checked.
RetryAnyStatus(w, o) ==
  /\ worker[w] = Idle
  /\ appActive[AppOf[o]]
  /\ Disturb("operator")
  /\ Start(w, "reset", o, status[o])
  /\ UNCHANGED <<orderVars, sweep, checked, appActive, heard, acked>>

RetryNotify(w, o) ==
  /\ worker[w] = Idle
  /\ status[o] = "paid"
  /\ appActive[AppOf[o]]
  /\ Disturb("operator")
  /\ Start(w, "reset", o, status[o])
  /\ UNCHANGED <<orderVars, sweep, checked, appActive, heard, acked>>

\* The reset fails when the request is abandoned or the database refuses.
RetryNotifyReset(w) ==
  /\ worker[w].pc = "reset"
  /\ \/ /\ ResetNotify(worker[w].order)
        /\ worker' = [worker EXCEPT ![w].pc = "post"]
     \/ /\ UNCHANGED orderVars
        /\ worker' = [worker EXCEPT ![w] = Idle]
  /\ UNCHANGED <<disturbed, sweep, checked, appActive, heard, acked>>

\* The HTTP handler has returned: net/http cancels the request's context.
RequestEnds(w) ==
  /\ worker[w].pc \notin {"idle", "reset"}
  /\ ~worker[w].cancelled
  /\ worker' = [worker EXCEPT ![w].cancelled = TRUE]
  /\ UNCHANGED <<orderVars, disturbed, sweep, checked, appActive, heard, acked>>

-----------------------------------------------------------------------------
(* The admin console.  RetryOrder reads the row, then resets it whatever it *)
(* has become; BatchRetry resets it in one guarded statement.              *)

RetryOrder(o) ==
  /\ checked = NoOrder
  /\ status[o] = "paid"
  /\ Disturb("operator")
  /\ checked' = o
  /\ UNCHANGED <<orderVars, worker, sweep, appActive, heard, acked>>

RetryOrderReset ==
  /\ checked # NoOrder
  /\ ResetNotify(checked)
  /\ checked' = NoOrder
  /\ UNCHANGED <<disturbed, worker, sweep, appActive, heard, acked>>

BatchRetry(o) ==
  /\ status[o] = "paid"
  /\ Disturb("operator")
  /\ ResetNotify(o)
  /\ UNCHANGED notifyVars

\* UpdateApp with another status.
SetAppStatus(a) ==
  /\ \/ appActive[a] /\ Disturb("disable")
     \/ ~appActive[a] /\ UNCHANGED disturbed
  /\ appActive' = [appActive EXCEPT ![a] = ~@]
  /\ UNCHANGED <<orderVars, worker, sweep, checked, heard, acked>>

=============================================================================
