------------------------- MODULE MCInboundDelivery -------------------------
(* A mail for one user that comes by SMTP and from his remote mailbox. *)
EXTENDS InboundDelivery

CONSTANTS u1, d1, d2

MCUsers == {u1}
MCDeliveries == {d1, d2}
MCRcpts == [d \in MCDeliveries |-> {u1}]
=============================================================================
