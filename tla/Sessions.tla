------------------------------ MODULE Sessions ------------------------------
(***************************************************************************)
(* How the sessions of one receiving device come to be and are used:       *)
(*   - the prekey tables of its relays (publish_bundle and fetch_bundle of *)
(*     server/db.py), reached through wire/backends/multi_relay.py;        *)
(*   - the senders, each of which takes a one-time prekey (OPK) from some  *)
(*     relay and starts one outbound session (_start_session);             *)
(*   - the sync loop of core/client.py, which turns fetched blobs into     *)
(*     inbound sessions and stored messages, and acknowledges them.        *)
(*                                                                         *)
(* The receiver is one thread, but it can stop between any two writes to   *)
(* its store.  phase is where sync is between them.  The mailbox is the    *)
(* concatenation of what the relays hold, so a message accepted by several *)
(* of them appears several times.  A session is used in one direction only *)
(* (CurrentChainsOpen of module Ratchet covers that case), so the          *)
(* receiving ratchet is the set of message numbers whose keys it consumed. *)
(***************************************************************************)
EXTENDS Naturals, Sequences, FiniteSets, FiniteSetsExt

CONSTANTS
    Relay,       \* the relays that hold the receiver's bundle
    Opk,         \* the ids of its one-time prekeys, numbered
    Sid,         \* session ids; each belongs to one device of a sender
    Contact,     \* the accounts of the senders
    ContactOf,   \* the account the device of a session belongs to
    NoOpk,       \* a handshake without a one-time prekey
    None,        \* no session
    MaxSent,     \* bound: messages per session
    MaxCopies,   \* bound: further copies of messages, held by other relays
    MaxCrashes   \* bound: times the receiver stops in the middle of a sync

VARIABLES
    bundles,     \* prekey_bundles: whether the relay has the bundle
    one_time,    \* prekey_one_time: "absent", "unused" or "used"
    handed,      \* history: how often a relay has given an OPK away
    outbound,    \* the opk_id of the init of each session, or None
    sent,        \* messages sent on each session
    copies,      \* bound: further copies made so far
    mailbox,     \* what the receiver would fetch, in order
    opks,        \* the receiver's prekeys["opks"]
    inbound,     \* the receiver's inbound session with each contact
    phase,       \* where the receiver's sync is
    batch,       \* the number of blobs sync has fetched
    pos,         \* the one it is working on
    stored,      \* the received messages in the receiver's store
    accepted,    \* history: [sid, opk] of every handshake that was finished
    acked,       \* history: messages the receiver has acknowledged
    crashes      \* bound: crashes so far

senders == <<outbound, sent, copies>>
relays == <<bundles, one_time, handed>>
work == <<phase, batch, pos>>
vars == <<bundles, one_time, handed, outbound, sent, copies, mailbox, opks, inbound,
          phase, batch, pos, stored, accepted, acked, crashes>>

Message == [sid : Sid, n : Nat]
Session == [sid : Sid, opened : SUBSET Nat]

ASSUME OpkAssumption == Opk \subseteq Nat /\ NoOpk \notin Opk
ASSUME ContactAssumption == ContactOf \in [Sid -> Contact]
ASSUME NoneAssumption == None \notin Session \cup Opk \cup {NoOpk}
ASSUME BoundsAssumption == MaxSent \in Nat /\ MaxCopies \in Nat /\ MaxCrashes \in Nat

\* The receiver has generated its prekeys and published nothing yet.
Init ==
    /\ bundles = [r \in Relay |-> FALSE]
    /\ one_time = [r \in Relay |-> [k \in Opk |-> "absent"]]
    /\ handed = [r \in Relay |-> [k \in Opk |-> 0]]
    /\ outbound = [s \in Sid |-> None]
    /\ sent = [s \in Sid |-> 0]
    /\ copies = 0
    /\ mailbox = <<>>
    /\ opks = Opk
    /\ inbound = [c \in Contact |-> None]
    /\ phase = "idle" /\ batch = 0 /\ pos = 0
    /\ stored = {} /\ accepted = {} /\ acked = {}
    /\ crashes = 0

-----------------------------------------------------------------------------
(* Prekeys on the relays                                                   *)

\* Mutant: INSERT OR REPLACE.
Inserted_Replaced(table, keys) ==
    [k \in Opk |-> IF k \in keys THEN "unused" ELSE table[k]]

\* INSERT OR IGNORE of every published OPK, used = 0.
Inserted(table, keys) ==
    [k \in Opk |-> IF k \in keys /\ table[k] = "absent" THEN "unused" ELSE table[k]]

\* The receiver publishes what is left of its prekeys on relay r: when it is
\* provisioned, every time it starts, and when it adopts r.  It tries all its
\* relays in turn; one that fails is passed over.
Publish(r) ==
    /\ phase = "idle"
    /\ bundles' = [bundles EXCEPT ![r] = TRUE]
    /\ one_time' = [one_time EXCEPT ![r] = Inserted(@, opks)]
    /\ UNCHANGED <<handed, senders, mailbox, opks, inbound, work, stored, accepted, acked, crashes>>

Unused(r) == {k \in Opk : one_time[r][k] = "unused"}

\* fetch_bundle on relay r: the unused OPK with the lowest id, marked used in
\* the same transaction, or none.
HandsOut(r, opk) ==
    /\ bundles[r]
    /\ \/ /\ Unused(r) = {} /\ opk = NoOpk
          /\ UNCHANGED <<one_time, handed>>
       \/ /\ opk \in Unused(r) /\ \A k \in Unused(r) : opk <= k
          /\ one_time' = [one_time EXCEPT ![r][opk] = "used"]
          /\ handed' = [handed EXCEPT ![r][opk] = @ + 1]
    /\ UNCHANGED bundles

\* _start_session: the first relay that answers, whichever that is.
StartSession(s, r) ==
    /\ outbound[s] = None
    /\ \E opk \in Opk \cup {NoOpk} :
          /\ HandsOut(r, opk)
          /\ outbound' = [outbound EXCEPT ![s] = opk]
    /\ UNCHANGED <<sent, copies, mailbox, opks, inbound, work, stored, accepted, acked, crashes>>

\* The answer is lost: the transport asks again, or the next relay is tried.
LoseAnswer(r) ==
    /\ \E opk \in Opk : HandsOut(r, opk)
    /\ UNCHANGED <<senders, mailbox, opks, inbound, work, stored, accepted, acked, crashes>>

-----------------------------------------------------------------------------
(* Senders.  Every message carries init: nothing ever marks an outbound    *)
(* session as established.                                                 *)

Send(s) ==
    /\ outbound[s] # None
    /\ sent[s] < MaxSent
    /\ sent' = [sent EXCEPT ![s] = @ + 1]
    /\ mailbox' = Append(mailbox, [sid |-> s, n |-> sent[s]])
    /\ UNCHANGED <<relays, outbound, copies, opks, inbound, work, stored, accepted, acked, crashes>>

\* Another relay holds the message too, or an upload is retried.
Replicate(s) ==
    /\ copies < MaxCopies
    /\ \E n \in 0..(MaxSent - 1) :
          /\ n < sent[s]
          /\ mailbox' = Append(mailbox, [sid |-> s, n |-> n])
    /\ copies' = copies + 1
    /\ UNCHANGED <<relays, outbound, sent, opks, inbound, work, stored, accepted, acked, crashes>>

-----------------------------------------------------------------------------
(* The receiver's sync                                                     *)

Fetch ==
    /\ phase = "idle"
    /\ mailbox # <<>>
    /\ phase' = "blob" /\ batch' = Len(mailbox) /\ pos' = 1
    /\ UNCHANGED <<relays, senders, mailbox, opks, inbound, stored, accepted, acked, crashes>>

Working == phase = "blob" /\ pos <= batch
Blob == mailbox[pos]

\* _find_session: the contact whose inbound session has the blob's sid.
Holders == {c \in Contact : inbound[c] # None /\ inbound[c].sid = Blob.sid}

NextBlob == phase' = "blob" /\ pos' = pos + 1 /\ UNCHANGED batch

\* _handle_blob, session found: a number the ratchet has consumed is refused
\* (WireError), any other is opened and the session saved.
HandleKnown ==
    /\ Working
    /\ \E c \in Holders :
          \/ /\ Blob.n \in inbound[c].opened
             /\ NextBlob
             /\ UNCHANGED inbound
          \/ /\ Blob.n \notin inbound[c].opened
             /\ inbound' = [inbound EXCEPT ![c].opened = @ \cup {Blob.n}]
             /\ phase' = "saved"
             /\ UNCHANGED <<batch, pos>>
    /\ UNCHANGED <<relays, senders, mailbox, opks, stored, accepted, acked, crashes>>

\* Mutant: _consume_opk is forgotten.
Consume_Kept(opk) == opks

\* _consume_opk
Consume(opk) == opks \ {opk}

\* _begin_inbound and _finish_inbound for an unknown sid: the handshake needs
\* the private half of its OPK, and spends it.
BeginInbound ==
    /\ Working
    /\ Holders = {}
    /\ LET opk == outbound[Blob.sid] IN
          /\ opk \in opks \cup {NoOpk}
          /\ opks' = Consume(opk)
          /\ accepted' = accepted \cup {[sid |-> Blob.sid, opk |-> opk]}
    /\ phase' = "consumed"
    /\ UNCHANGED <<relays, senders, mailbox, inbound, batch, pos, stored, acked, crashes>>

\* Mutant: a blob that cannot be opened is tried for ever.
RefuseInbound_Wedged ==
    /\ Working
    /\ Holders = {}
    /\ outbound[Blob.sid] \notin opks \cup {NoOpk}
    /\ UNCHANGED vars

\* "already consumed: one-time prekey is spent": the blob is dropped.
RefuseInbound ==
    /\ Working
    /\ Holders = {}
    /\ outbound[Blob.sid] \notin opks \cup {NoOpk}
    /\ NextBlob
    /\ UNCHANGED <<relays, senders, mailbox, opks, inbound, stored, accepted, acked, crashes>>

\* The rest of _handle_blob: the new session takes the place of the contact's
\* inbound session, whose key is the receiver's own device id.
SaveInbound ==
    /\ phase = "consumed"
    /\ inbound' = [inbound EXCEPT ![ContactOf[Blob.sid]] =
                      [sid |-> Blob.sid, opened |-> {Blob.n}]]
    /\ phase' = "saved"
    /\ UNCHANGED <<relays, senders, mailbox, opks, batch, pos, stored, accepted, acked, crashes>>

\* Mutant: the message is not stored when its session is new.
StoreMessage_FirstLost ==
    /\ phase = "saved"
    /\ stored' = IF Blob.n = 0 THEN stored ELSE stored \cup {Blob}
    /\ NextBlob
    /\ UNCHANGED <<relays, senders, mailbox, opks, inbound, accepted, acked, crashes>>

\* _process_envelope: add_message, unless find_by_remote_id knows it.
StoreMessage ==
    /\ phase = "saved"
    /\ stored' = stored \cup {Blob}
    /\ NextBlob
    /\ UNCHANGED <<relays, senders, mailbox, opks, inbound, accepted, acked, crashes>>

\* Mutant: the size of the batch outlives it.
Ack_BatchKept ==
    /\ phase = "blob" /\ pos > batch
    /\ acked' = acked \cup {mailbox[i] : i \in 1..batch}
    /\ mailbox' = SubSeq(mailbox, batch + 1, Len(mailbox))
    /\ phase' = "idle" /\ pos' = 0
    /\ UNCHANGED <<relays, senders, opks, inbound, batch, stored, accepted, crashes>>

\* The end of sync: everything fetched is acknowledged, handled or not.
Ack ==
    /\ phase = "blob" /\ pos > batch
    /\ acked' = acked \cup {mailbox[i] : i \in 1..batch}
    /\ mailbox' = SubSeq(mailbox, batch + 1, Len(mailbox))
    /\ phase' = "idle" /\ batch' = 0 /\ pos' = 0
    /\ UNCHANGED <<relays, senders, opks, inbound, stored, accepted, crashes>>

\* No relay gets the acknowledgement; ack swallows the error.
LoseAck ==
    /\ phase = "blob" /\ pos > batch
    /\ phase' = "idle" /\ batch' = 0 /\ pos' = 0
    /\ UNCHANGED <<relays, senders, mailbox, opks, inbound, stored, accepted, acked, crashes>>

\* The receiver stops: what is in its store stays, the batch is forgotten.
Crash ==
    /\ phase # "idle"
    /\ crashes < MaxCrashes
    /\ crashes' = crashes + 1
    /\ phase' = "idle" /\ batch' = 0 /\ pos' = 0
    /\ UNCHANGED <<relays, senders, mailbox, opks, inbound, stored, accepted, acked>>

-----------------------------------------------------------------------------
Handle == HandleKnown \/ BeginInbound \/ RefuseInbound \/ SaveInbound \/ StoreMessage

Next ==
    \/ \E r \in Relay : Publish(r) \/ LoseAnswer(r)
    \/ \E s \in Sid, r \in Relay : StartSession(s, r)
    \/ \E s \in Sid : Send(s) \/ Replicate(s)
    \/ Fetch \/ Handle
    \/ Ack \/ LoseAck \/ Crash

Spec == Init /\ [][Next]_vars

\* The worker thread calls sync again and again and runs it to its end, and of
\* its acknowledgements not all are lost.
FairSpec == Spec /\ WF_vars(Fetch) /\ WF_vars(Handle) /\ SF_vars(Ack)

-----------------------------------------------------------------------------
(* Properties                                                              *)

\* Every table, session and message has its type.
TypeOK ==
    /\ bundles \in [Relay -> BOOLEAN]
    /\ one_time \in [Relay -> [Opk -> {"absent", "unused", "used"}]]
    /\ handed \in [Relay -> [Opk -> Nat]]
    /\ outbound \in [Sid -> Opk \cup {NoOpk, None}]
    /\ sent \in [Sid -> Nat]
    /\ copies \in Nat
    /\ mailbox \in Seq(Message)
    /\ opks \subseteq Opk
    /\ inbound \in [Contact -> Session \cup {None}]
    /\ phase \in {"idle", "blob", "consumed", "saved"}
    /\ batch \in 0..Len(mailbox)
    /\ pos \in Nat
    /\ phase = "blob" => pos \in 1..(batch + 1)
    /\ phase \in {"consumed", "saved"} => pos \in 1..batch
    /\ stored \subseteq Message
    /\ accepted \subseteq [sid : Sid, opk : Opk \cup {NoOpk}]
    /\ acked \subseteq Message
    /\ crashes \in Nat

\* A relay gives a one-time prekey away at most once, however often and in
\* whatever state the receiver publishes its bundle again.
HandedOncePerRelay == \A r \in Relay, k \in Opk : handed[r][k] <= 1

\* The receiver finishes at most one handshake with a one-time prekey, also
\* when it stops in the middle of one, and when relays have given the same
\* prekey to several senders.
OpkAcceptedOnce ==
    \A a, b \in accepted : a.opk = b.opk /\ a.opk # NoOpk => a.sid = b.sid

\* What is acknowledged, and so deleted everywhere, has been stored.
AckedStored == acked \subseteq stored

\* A session another one has come in the way of: the other has the same contact,
\* or was given the same one-time prekey by another relay.
Displaced(s) ==
    \E a \in accepted :
        /\ a.sid # s
        /\ ContactOf[a.sid] = ContactOf[s] \/ (a.opk = outbound[s] /\ a.opk # NoOpk)

\* What is acknowledged, and so deleted everywhere, has been stored, whatever was
\* repeated or whichever acknowledgement was lost, unless the receiver once stopped in
\* the middle of a sync or another session displaced the message's own.
OnlyDisplacedLost ==
    \A m \in acked \ stored : crashes > 0 \/ Displaced(m.sid)

\* Every message that reached the mailbox is acknowledged in the end: no blob,
\* also one that can never be opened, keeps itself or the ones behind it there.
\* (Sends and copies are bounded, so at some point the last one has come.)
EveryBlobAcked == <>[](mailbox = <<>>)

=============================================================================
