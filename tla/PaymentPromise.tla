---------------------------- MODULE PaymentPromise --------------------------
(***************************************************************************)
(* What GoPay promises about one order to the platform that reports its    *)
(* payment and to the business system that asked for it, without webhook   *)
(* requests, workers, schedulers or retries:                               *)
(*   - the recorded status only moves forward, and never ahead of what the *)
(*     platform has reported;                                              *)
(*   - the business system only hears of a status that is recorded;        *)
(*   - the order is reported as notified only once the business system has *)
(*     confirmed a callback.                                               *)
(* PaymentFlow implements this specification.                              *)
(***************************************************************************)
CONSTANT Orders

VARIABLES
  issued,     \* the events the platform reports of each order
  recorded,   \* the status on record
  heard,      \* the statuses the business system was told
  confirmed,  \* whether it confirmed one of them
  reported    \* what operators read about its notification

vars == <<issued, recorded, heard, confirmed, reported>>

Init ==
  /\ issued    = [o \in Orders |-> {}]
  /\ recorded  = [o \in Orders |-> "pending"]
  /\ heard     = [o \in Orders |-> {}]
  /\ confirmed = [o \in Orders |-> FALSE]
  /\ reported  = [o \in Orders |-> "pending"]

Happen(o) ==
  /\ \E e \in {"PAID", "REFUNDED", "REFUND_FAILED"} :
       issued' = [issued EXCEPT ![o] = @ \cup {e}]
  /\ UNCHANGED <<recorded, heard, confirmed, reported>>

RecordPaid(o) ==
  /\ "PAID" \in issued[o]
  /\ recorded[o] = "pending"
  /\ recorded' = [recorded EXCEPT ![o] = "paid"]
  /\ UNCHANGED <<issued, heard, confirmed, reported>>

RecordRefunded(o) ==
  /\ issued[o] \cap {"REFUNDED", "REFUND_FAILED"} # {}
  /\ recorded' = [recorded EXCEPT ![o] = "refunded"]
  /\ UNCHANGED <<issued, heard, confirmed, reported>>

\* A callback: "refunded" only of a refunded order, any other only of an order
\* whose payment is on record.
Tell(o, told) ==
  /\ recorded[o] # "pending"
  /\ told = "refunded" => recorded[o] = "refunded"
  /\ heard' = [heard EXCEPT ![o] = @ \cup {told}]
  /\ \/ confirmed' = [confirmed EXCEPT ![o] = TRUE]
     \/ UNCHANGED confirmed
  /\ UNCHANGED <<issued, recorded, reported>>

Report(o, result) ==
  /\ result = "notified" => confirmed[o]
  /\ reported' = [reported EXCEPT ![o] = result]
  /\ UNCHANGED <<issued, recorded, heard, confirmed>>

Next ==
  \E o \in Orders :
    \/ Happen(o) \/ RecordPaid(o) \/ RecordRefunded(o)
    \/ \E told \in {"pending", "paid", "refunded"} : Tell(o, told)
    \/ \E result \in {"pending", "notified", "failed_notify"} : Report(o, result)

Spec == Init /\ [][Next]_vars

=============================================================================
