------------------------- MODULE MCReconciliation -------------------------
(* Values for the constants of Reconciliation.                             *)
EXTENDS Reconciliation

Of(no, amount) == [no |-> no, amount |-> amount]

\* t1 is a number that an app has chosen, o1 the order_no of such an order.  With o4 and
\* o5 an app has paid again for an order under its old order_no.  29 loses a cent.
MCBill == [k \in {<<0, "wechat">>, <<1, "wechat">>, <<1, "alipay">>, <<2, "wechat">>} |->
             CASE k = <<0, "wechat">> -> <<Of("t1", 30), Of("o5", 29), Of("t1", 30)>>
               [] k = <<1, "wechat">> -> <<>>
               [] k = <<1, "alipay">> -> <<Other, Of("o4", 29)>>
               [] k = <<2, "wechat">> -> <<Of("o4", 29), Other>>]

\* On the first day every order of WeChat differs.  On the second one run may find an
\* order paid and another not, Alipay may answer with an error page, and WeChat has no
\* payments.  On the third WeChat's bill cannot be read.  Alipay has no bill of the
\* first and the third day.
MCLedgers == [k \in Keys |->
                CASE k = <<0, "wechat">> -> {{Of("o1", 30), Of("o5", 29)}}
                  [] k = <<1, "alipay">> -> {{}, {Of("o4", 28)}}
                  [] OTHER -> {{}}]

MCReported == {<<1, "wechat">>, <<1, "alipay">>}
=============================================================================
