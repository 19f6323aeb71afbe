--------------------------- MODULE CheckoutPromise --------------------------
(***************************************************************************)
(* What GoPay promises to a business system that creates orders and to its *)
(* buyers, without stages of a request, failing statements, lost answers,  *)
(* signatures or the table's index:                                        *)
(*   - there is one order for a key at most, created in one step, and a    *)
(*     request is answered with its own order only, in the step that       *)
(*     creates it; or it hears that an order of its key exists, when one   *)
(*     does; or of an error, which promises nothing;                       *)
(*   - a buyer is charged with what a request was answered with, or by a   *)
(*     code that came with a request, and once for a trade;                *)
(*   - the platform's event is answered with success once, and marks one   *)
(*     order at most, which exists and which the event can be taken to be  *)
(*     about.  It may mark none: then the payment is lost, which happens   *)
(*     to an unrepeated event at any time, and to the others only when     *)
(*     such an order exists.                                               *)
(* Checkout implements this specification.                                 *)
(***************************************************************************)
CONSTANTS
  Requests,
  KeyOf,      \* what no two orders share
  TradeOf,    \* the trade that a request makes
  ByCode,     \* the requests that charge the buyer's code
  Candidates, \* the orders that an event of a trade may be taken to be about
  Unrepeated  \* the trades whose event is not sent again, though its order is missing

VARIABLES
  orders,   \* the requests whose order exists
  end,      \* how a request has ended
  charged,  \* the trades that a buyer was charged for
  paid,     \* the orders that are marked paid
  settled   \* the trades whose event was answered with success

vars == <<orders, end, charged, paid, settled>>

Init ==
  /\ orders = {} /\ charged = {} /\ paid = {} /\ settled = {}
  /\ end = [r \in Requests |-> "none"]

Ends(r, how) == end' = [end EXCEPT ![r] = how]

Create(r) ==
  /\ end[r] = "none"
  /\ \A s \in orders : KeyOf[s] # KeyOf[r]
  /\ orders' = orders \cup {r}
  /\ Ends(r, "answered") \/ Ends(r, "error")
  /\ UNCHANGED <<charged, paid, settled>>

Refuse(r) ==
  /\ end[r] = "none"
  /\ \E s \in orders : KeyOf[s] = KeyOf[r]
  /\ Ends(r, "exists")
  /\ UNCHANGED <<orders, charged, paid, settled>>

Fail ==
  /\ \E R \in SUBSET {r \in Requests : end[r] = "none"} :
       end' = [r \in Requests |-> IF r \in R THEN "error" ELSE end[r]]
  /\ UNCHANGED <<orders, charged, paid, settled>>

\* The code is charged while the request is open, and may be all that is done.
ChargeCode(r) ==
  /\ r \in ByCode /\ end[r] = "none" /\ TradeOf[r] \notin charged
  /\ charged' = charged \cup {TradeOf[r]}
  /\ UNCHANGED end \/ Ends(r, "error")
  /\ UNCHANGED <<orders, paid, settled>>

\* The buyer uses the credential; or she confirms a charge by code that was an error
\* to the business system.
Charge(r) ==
  /\ end[r] = "answered" \/ (r \in ByCode /\ end[r] = "error")
  /\ TradeOf[r] \notin charged
  /\ charged' = charged \cup {TradeOf[r]}
  /\ UNCHANGED <<orders, end, paid, settled>>

Book(t) ==
  /\ t \in charged \ settled
  /\ \E r \in orders \cap Candidates[t] : paid' = paid \cup {r}
  /\ settled' = settled \cup {t}
  /\ UNCHANGED <<orders, end, charged>>

\* The event is answered with success and nothing is marked for it.
Lose(t) ==
  /\ t \in charged \ settled
  /\ orders \cap Candidates[t] # {} \/ t \in Unrepeated
  /\ settled' = settled \cup {t}
  /\ UNCHANGED <<orders, end, charged, paid>>

Next ==
  \/ \E r \in Requests : Create(r) \/ Refuse(r) \/ ChargeCode(r) \/ Charge(r)
  \/ Fail
  \/ \E t \in charged : Book(t) \/ Lose(t)

Spec == Init /\ [][Next]_vars
=============================================================================
