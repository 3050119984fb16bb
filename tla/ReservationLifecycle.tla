------------------------- MODULE ReservationLifecycle -------------------------
(***************************************************************************)
(* What the pre-trade risk engine promises about one order, without its    *)
(* locks, tasks or ledger arithmetic: capital is set aside durably before  *)
(* the order leaves the process, the order leaves at most once, and the    *)
(* durable reservation goes away only when the order can no longer take    *)
(* capital at the exchange, or when the exchange answered with an error    *)
(* that left this open.                                                    *)
(***************************************************************************)
CONSTANT Orders

VARIABLES durable,    \* orders with a row in the risk_reservations table
          submitted,  \* orders that have left the process
          settled,    \* submitted orders that can take no more capital
          denied      \* orders whose error answer left their fate open

vars == <<durable, submitted, settled, denied>>

Live == submitted \ settled

Init == durable = {} /\ submitted = {} /\ settled = {} /\ denied = {}

\* The row is written and the order is sent, once.
Submit(o) ==
    /\ o \notin submitted
    /\ durable' = durable \cup {o}
    /\ submitted' = submitted \cup {o}
    /\ UNCHANGED <<settled, denied>>

\* The exchange executes, cancels or refuses the order, or never gets it.
Settle(o) ==
    /\ o \in Live
    /\ settled' = settled \cup {o}
    /\ UNCHANGED <<durable, submitted, denied>>

\* An error answer about an order that may still be executed.
Deny(o) ==
    /\ o \in Live
    /\ denied' = denied \cup {o}
    /\ UNCHANGED <<durable, submitted, settled>>

\* An answer saying the order is still open keeps (or rewrites) its row.
Retain(o) ==
    /\ o \in submitted
    /\ durable' = durable \cup {o}
    /\ UNCHANGED <<submitted, settled, denied>>

\* The row goes away, and only for an order settled or denied.
Release(o) ==
    /\ o \in settled \cup denied
    /\ durable' = durable \ {o}
    /\ UNCHANGED <<submitted, settled, denied>>

Next == \E o \in Orders : Submit(o) \/ Settle(o) \/ Deny(o) \/ Retain(o) \/ Release(o)

Spec == Init /\ [][Next]_vars
===============================================================================
