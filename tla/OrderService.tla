---------------------------- MODULE OrderService ----------------------------
(***************************************************************************)
(* The rows of the orders table and the statements the services run on     *)
(* them (internal/service/order_service.go).  Every operator below is one  *)
(* SQL statement or one transaction, hence one atomic change of a row:     *)
(* UpdateOrderStatus locks the only row it reads and writes (SELECT ...    *)
(* FOR UPDATE), the others are single UPDATEs.                             *)
(*                                                                         *)
(* An order number is a natural number, and smaller numbers are older      *)
(* rows: the retry scheduler's query sorts by created_at.                  *)
(***************************************************************************)
EXTENDS Naturals, FiniteSets

CONSTANTS
  Orders,            \* the orders whose rows saveOrder has inserted
  MaxNotifyRetries,  \* 5: attempts of one worker, and the query's retry_count < 5
  SweepLimit,        \* 100: the LIMIT of the scheduler's query
  Disturbances,      \* which of DisturbanceKinds this instance lets happen
  MaxDisturbances    \* bound: how many of them in one behaviour

\* What the environment may do to the code: a statement fails, the process
\* dies, an HTTP answer does not reach the platform, an operator disables an
\* app, or asks for a retry.
DisturbanceKinds == {"dbfault", "crash", "lostreply", "disable", "operator"}

ASSUME OrdersAssumption  == Orders \subseteq Nat
ASSUME RetriesAssumption == MaxNotifyRetries \in Nat \ {0}
ASSUME LimitAssumption   == SweepLimit \in Nat
ASSUME DisturbanceAssumption  == Disturbances \subseteq DisturbanceKinds /\ MaxDisturbances \in Nat

VARIABLES
  status,        \* orders.status ("closed" is never written by the code)
  notifyStatus,  \* orders.notify_status
  retryCount,    \* orders.retry_count
  disturbed      \* how many disturbances have happened

orderVars == <<status, notifyStatus, retryCount>>

OrderStatuses  == {"pending", "paid", "refunded"}
NotifyStatuses == {"pending", "notified", "failed_notify"}

OrderTypeOK ==
  /\ status \in [Orders -> OrderStatuses]
  /\ notifyStatus \in [Orders -> NotifyStatuses]
  /\ retryCount \in [Orders -> Nat]
  /\ disturbed \in Nat

\* The row as saveOrder inserts it.
OrderInit ==
  /\ status       = [o \in Orders |-> "pending"]
  /\ notifyStatus = [o \in Orders |-> "pending"]
  /\ retryCount   = [o \in Orders |-> 0]
  /\ disturbed      = 0

Disturb(kind) ==
  /\ kind \in Disturbances
  /\ disturbed < MaxDisturbances
  /\ disturbed' = disturbed + 1

-----------------------------------------------------------------------------
(* UpdateOrderStatus: which changes of status the locked row allows, and    *)
(* the change itself.  A refund of a refunded order is accepted and changes *)
(* nothing.  The column paid_at, which the same statement sets, is only ever *)
(* copied into payloads and is not represented.                             *)

\* Mutant: the check of a row that is already paid is lost.
NoPaidCheck(o, new) == status[o] \in {"pending", "paid"}

\* Mutant: the statement runs whatever the row says.
NoStatusCheck(o, new) == TRUE

\* Mutant: a refund is accepted for a paid row only.
RefundNeedsPaid(o, new) == <<status[o], new>> \in {<<"pending", "paid">>, <<"paid", "refunded">>}

CanUpdate(o, new) ==
  \/ status[o] = "pending"
  \/ status[o] = "paid" /\ new = "refunded"

AlreadyRefunded(o, new) ==
  status[o] = "refunded" /\ new = "refunded"

UpdateOrderStatus(o, new) ==
  /\ CanUpdate(o, new)
  /\ status' = [status EXCEPT ![o] = new]
  /\ UNCHANGED <<notifyStatus, retryCount>>

-----------------------------------------------------------------------------
(* The notification columns.                                               *)

UpdateNotifyStatus(o, new) ==
  /\ notifyStatus' = [notifyStatus EXCEPT ![o] = new]
  /\ UNCHANGED <<status, retryCount>>

\* Mutant: an attempt is counted when it is sent and again when it is answered.
CountsTwice(o) ==
  /\ retryCount' = [retryCount EXCEPT ![o] = @ + 2]
  /\ UNCHANGED <<status, notifyStatus>>

IncrementRetryCount(o) ==
  /\ retryCount' = [retryCount EXCEPT ![o] = @ + 1]
  /\ UNCHANGED <<status, notifyStatus>>

\* SET retry_count = 0, notify_status = 'pending', as RetryNotify, RetryOrder
\* and BatchRetry run it.
ResetNotify(o) ==
  /\ notifyStatus' = [notifyStatus EXCEPT ![o] = "pending"]
  /\ retryCount' = [retryCount EXCEPT ![o] = 0]
  /\ UNCHANGED status

PendingNotify ==
  {o \in Orders : /\ status[o] = "paid"
                  /\ notifyStatus[o] = "pending"
                  /\ retryCount[o] < MaxNotifyRetries}

\* The oldest SweepLimit rows that wait for a notification.
ListPendingNotifyOrders ==
  {o \in PendingNotify :
     Cardinality({p \in PendingNotify : p < o}) < SweepLimit}

=============================================================================
