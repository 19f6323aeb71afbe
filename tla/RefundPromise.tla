---------------------------- MODULE RefundPromise ---------------------------
(***************************************************************************)
(* What GoPay promises about refunds to the business system that asks for  *)
(* them and to whoever reads its ledger, without stages of a request,      *)
(* failing statements, crashes or callbacks:                               *)
(*   - a refund is asked for only of an order that is paid at that moment; *)
(*   - it is in the ledger once at most, under a status that the platform  *)
(*     stands for, and never after its request has ended;                  *)
(*   - an order goes to refunded from paid, with a refund that has ended   *)
(*     at its platform, and stays there;                                   *)
(*   - a request has one end.  It is answered with the status in the       *)
(*     ledger, a success no earlier than the order is refunded, or with an *)
(*     error, which promises nothing.                                      *)
(* RefundService implements this specification.                            *)
(***************************************************************************)
CONSTANTS Orders, Calls, NoOrder

VARIABLES
  recorded,  \* the status of an order
  of,        \* the order that a request is about
  refund,    \* its refund at the platform
  booked,    \* its row in the ledger
  answer     \* how it has ended

vars == <<recorded, of, refund, booked, answer>>

Init ==
  /\ recorded = [o \in Orders |-> "pending"]
  /\ of       = [c \in Calls |-> NoOrder]
  /\ refund   = [c \in Calls |-> "none"]
  /\ booked   = [c \in Calls |-> "none"]
  /\ answer   = [c \in Calls |-> "none"]

\* A request that has not ended.
Open(c) == of[c] \in Orders /\ answer[c] = "none"

Ends(c, how) == answer' = [answer EXCEPT ![c] = how]

\* An error may hide what has been done.
MayFail(c) ==
  \/ UNCHANGED answer
  \/ Open(c) /\ Ends(c, "error")

Pay(o) ==
  /\ recorded[o] = "pending"
  /\ recorded' = [recorded EXCEPT ![o] = "paid"]
  /\ UNCHANGED <<of, refund, booked, answer>>

Ask(c, o) ==
  /\ of[c] = NoOrder
  /\ of' = [of EXCEPT ![c] = o]
  /\ \/ recorded[o] = "paid" /\ UNCHANGED answer
     \/ Ends(c, "refused")
  /\ UNCHANGED <<recorded, refund, booked>>

Accept(c) ==
  /\ Open(c) /\ refund[c] = "none"
  /\ \E state \in {"processing", "done", "failed"} : refund' = [refund EXCEPT ![c] = state]
  /\ MayFail(c)
  /\ UNCHANGED <<recorded, of, booked>>

Settle(c) ==
  /\ refund[c] = "processing"
  /\ \E state \in {"done", "failed"} : refund' = [refund EXCEPT ![c] = state]
  /\ UNCHANGED <<recorded, of, booked, answer>>

Book(c) ==
  /\ Open(c) /\ refund[c] # "none" /\ booked[c] = "none"
  /\ \E state \in {"pending", "processing", "success", "failed"} :
       /\ state = "success" => refund[c] = "done"
       /\ state = "failed" => refund[c] = "failed"
       /\ booked' = [booked EXCEPT ![c] = state]
  /\ MayFail(c)
  /\ UNCHANGED <<recorded, of, refund>>

Mark(c) ==
  /\ of[c] \in Orders /\ recorded[of[c]] = "paid" /\ refund[c] \in {"done", "failed"}
  /\ recorded' = [recorded EXCEPT ![of[c]] = "refunded"]
  /\ \/ MayFail(c)
     \/ Open(c) /\ booked[c] = "success" /\ Ends(c, "success")
  /\ UNCHANGED <<of, refund, booked>>

Answer(c) ==
  /\ Open(c) /\ booked[c] # "none"
  /\ booked[c] = "success" => recorded[of[c]] = "refunded"
  /\ Ends(c, booked[c])
  /\ UNCHANGED <<recorded, of, refund, booked>>

Fail ==
  /\ \E C \in SUBSET {c \in Calls : Open(c)} :
       answer' = [c \in Calls |-> IF c \in C THEN "error" ELSE answer[c]]
  /\ UNCHANGED <<recorded, of, refund, booked>>

Next ==
  \/ \E o \in Orders : Pay(o)
  \/ \E c \in Calls, o \in Orders : Ask(c, o)
  \/ \E c \in Calls : Accept(c) \/ Settle(c) \/ Book(c) \/ Mark(c) \/ Answer(c)
  \/ Fail

Spec == Init /\ [][Next]_vars

=============================================================================
