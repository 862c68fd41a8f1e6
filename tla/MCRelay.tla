------------------------------ MODULE MCRelay ------------------------------
(* Model-checking instances of Relay.                                      *)
EXTENDS Relay

=============================================================================
