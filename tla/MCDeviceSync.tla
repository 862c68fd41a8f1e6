---------------------------- MODULE MCDeviceSync ----------------------------
(* TLC instances of DeviceSync: mailboxes on two relays.                   *)
EXTENDS DeviceSync, TLC

CONSTANTS r1, r2

Symmetry == Permutations(Device)
TwoRelays == <<r1, r2>>

=============================================================================
