--------------------------- MODULE MCDeliveryOutbox ---------------------------
(* Model values for checking DeliveryOutbox with TLC. *)
EXTENDS DeliveryOutbox

CONSTANTS d1, d2

TwoDeliveries == {d1, d2}
OneDelivery == {d1}
OneBroken == {d2}
===============================================================================
