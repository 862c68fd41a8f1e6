----------------------------- MODULE MCSessions -----------------------------
(* TLC instances of Sessions: which contact each session is with.          *)
EXTENDS Sessions, TLC

CONSTANTS s1, s2, c1, c2

TwoContacts == (s1 :> c1) @@ (s2 :> c2)
OneContact == (s1 :> c1) @@ (s2 :> c1)

=============================================================================
