----------------------------- MODULE MCDesktop ------------------------------
(* TLC instances of Desktop.                                               *)
EXTENDS Desktop

=============================================================================
