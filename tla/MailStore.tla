----------------------------- MODULE MailStore ------------------------------
(***************************************************************************)
(* What a relay promises about mailboxes, without requests, capabilities,  *)
(* quotas, clocks or bodies: an open mailbox numbers its messages from 1   *)
(* without gap or reuse, and loses them from the front only, unless it is  *)
(* closed as a whole.  Relay implements this (ImplementsMailStore).        *)
(***************************************************************************)
EXTENDS Naturals

CONSTANTS
    Mailbox,   \* mailbox ids
    Absent     \* a mailbox that is not open

VARIABLE store   \* [next, waiting] or Absent per id: the next number, those kept

Init == store = [m \in Mailbox |-> Absent]

Open(m) ==
    /\ store[m] = Absent
    /\ store' = [store EXCEPT ![m] = [next |-> 1, waiting |-> {}]]

Put(m) ==
    /\ store[m] # Absent
    /\ store' = [store EXCEPT ![m] =
          [next |-> store[m].next + 1, waiting |-> store[m].waiting \cup {store[m].next}]]

\* Everything up to one of the waiting messages goes.
Remove(m) ==
    /\ store[m] # Absent
    /\ \E upto \in store[m].waiting :
          store' = [store EXCEPT ![m] =
             [next |-> store[m].next, waiting |-> {n \in store[m].waiting : n > upto}]]

Close(gone) ==
    store' = [m \in Mailbox |-> IF m \in gone THEN Absent ELSE store[m]]

Next ==
    \/ \E m \in Mailbox : Open(m) \/ Put(m) \/ Remove(m)
    \/ \E gone \in SUBSET Mailbox : Close(gone)

Spec == Init /\ [][Next]_store

=============================================================================
