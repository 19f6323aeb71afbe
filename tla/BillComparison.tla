--------------------------- MODULE BillComparison ---------------------------
(***************************************************************************)
(* Comparing a platform's bill with the orders of a day (parseBill and     *)
(* compare of internal/reconciliation/wechat.go and alipay.go, which       *)
(* differ in how they read a line only).                                   *)
(*                                                                         *)
(* A record of the bill and an order are matched by a number, and the two  *)
(* sides number differently: the bill has the merchant's number, the       *)
(* out_trade_no that an app has chosen, and the table is asked for         *)
(* order_no, which generateOrderNo makes afterwards.  They are one number  *)
(* only when an app takes an old order_no for its out_trade_no; the bill   *)
(* and the table list every other order under numbers that the other side  *)
(* does not know.                                                          *)
(***************************************************************************)
EXTENDS Integers, Sequences, FiniteSets

CONSTANTS
  OutTradeNos, \* the numbers in the platforms' bills
  OrderNos,    \* order_no
  Amounts,  \* in cents
  Other,    \* a line of a bill that is no record: a remark, a sum
  Lossy     \* amounts of which a cent is lost by int64(amount * 100), 0.29 for one

ASSUME AmountAssumption == Amounts \subseteq Int /\ Lossy \subseteq Amounts

Record == [no : OutTradeNos, amount : Amounts]
Order == [no : OrderNos, amount : Amounts]

ASSUME OtherAssumption == Other \notin Record

\* What getOrders may answer: order_no is unique.
IsLedger(orders) ==
  /\ orders \subseteq Order
  /\ \A o, p \in orders : o.no = p.no => o = p

\* parseWechatAmount and parseAlipayAmount: the product of a float is truncated.
Parsed(amount) == IF amount \in Lossy THEN amount - 1 ELSE amount

Entry(record) == [record EXCEPT !.amount = Parsed(@)]

\* Records keep the numbers of their lines.

\* parseBill of WeChat: its csv reader takes no line with another number of columns
\* than the first one has, so such a line is an error.
WechatParses(bill) == \A i \in DOMAIN bill : bill[i] # Other
ParseWechat(bill) == [i \in DOMAIN bill |-> Entry(bill[i])]

\* parseBill of Alipay: a shorter line is skipped.
ParseAlipay(bill) == [i \in {j \in DOMAIN bill : bill[j] # Other} |-> Entry(bill[i])]

Listed(external, no) == \E i \in DOMAIN external : external[i].no = no

\* Mutant: missing orders are looked for only when every record is known.
StopsAtUnknown(external, internal) ==
  LET known == {i \in DOMAIN external : \E o \in internal : o.no = external[i].no}
      equal == {i \in DOMAIN external : external[i] \in internal}
  IN  [total |-> Cardinality(DOMAIN external), matched |-> Cardinality(equal),
       long |-> DOMAIN external \ known, wrong |-> known \ equal,
       short |-> {o.no : o \in {p \in internal : known = DOMAIN external /\ ~Listed(external, p.no)}}]

\* compare: which records are unknown here (long) or differ in the amount (wrong), and
\* which orders the bill has not (short).
Compare(external, internal) ==
  LET known == {i \in DOMAIN external : \E o \in internal : o.no = external[i].no}
      equal == {i \in DOMAIN external : external[i] \in internal}
  IN  [total |-> Cardinality(DOMAIN external), matched |-> Cardinality(equal),
       long |-> DOMAIN external \ known, wrong |-> known \ equal,
       short |-> {o.no : o \in {p \in internal : ~Listed(external, p.no)}}]

\* Reconcile of the channels, of a bill that can be read.
WechatReconcile(bill, orders) == Compare(ParseWechat(bill), orders)
AlipayReconcile(bill, orders) == Compare(ParseAlipay(bill), orders)

\* Mutant: an order that the bill lacks is no failure.
SuccessOfRecords(result) == result.long = {} /\ result.wrong = {}

\* status = "success"
Success(result) == result.long = {} /\ result.short = {} /\ result.wrong = {}

\* What a bill says was paid, but for the cents that parsing loses.
Records(bill) == {Entry(bill[i]) : i \in {j \in DOMAIN bill : bill[j] # Other}}

\* The bill and the table agree, number by number and cent by cent.
Agree(bill, orders) == Records(bill) = orders
=============================================================================
