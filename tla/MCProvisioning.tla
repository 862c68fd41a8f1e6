--------------------------- MODULE MCProvisioning ---------------------------
(* TLC instances of Provisioning: two relays.                              *)
EXTENDS Provisioning

CONSTANTS r1, r2

TwoRelays == <<r1, r2>>

=============================================================================
