----------------------------- MODULE MCDelivery -----------------------------
(* TLC instances of Delivery: a contact with two devices.                  *)
EXTENDS Delivery

CONSTANTS d1, d2

TwoDevices == <<d1, d2>>

=============================================================================
