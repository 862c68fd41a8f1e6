--------------------------- MODULE MCAttachments ----------------------------
(* Model-checking instances of Attachments.                                *)
EXTENDS Attachments

CONSTANTS a, b, r1, r2, r3, r4

TwoDevices == <<a, b>>
TwoPieces == <<2, 1>>
StartRelays == <<r1>>

\* r3 is another URL of r2's host.
HostOf == [u \in Url |-> IF u = r3 THEN r2 ELSE u]

\* r1 tells of an internal relay and, by two URLs, of r2; the others of r1.
Told == [u \in Url |-> IF u = r1 THEN <<r4, r2, r3>> ELSE <<r1>>]
=============================================================================
