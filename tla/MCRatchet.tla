----------------------------- MODULE MCRatchet -----------------------------
(* TLC instances of Ratchet: who sends on the session, and what else there *)
(* is in the mailbox it is received from.                                  *)
EXTENDS Ratchet

BothTalk == {Initiator, Responder}

\* Headers with a key of this session or a foreign one, at the start of a
\* chain or beyond it; no chain of the session is empty.
Strays ==
    {[dh |-> [owner |-> p, k |-> k], pn |-> pn, n |-> n, chain |-> <<>>] :
        p \in Party, k \in {1, MaxKey + 1}, pn \in {0, 1}, n \in {0, 1}}

=============================================================================
