---------------------------- MODULE MCPreTradeRisk ----------------------------
(* Small instances of PreTradeRisk: two orders competing for a balance that  *)
(* covers either of them but not both; the second is capped by utilization.  *)
EXTENDS PreTradeRisk
CONSTANTS o1, o2

MCOrders == {o1, o2}
MCAmount == [o \in Orders |-> IF o = o1 THEN 3 ELSE 2]
MCBoth == {o1, o2}
MCFirst == {o1}
MCSecond == {o2} \cap Orders
===============================================================================
