------------------------------ MODULE Delivery ------------------------------
(***************************************************************************)
(* How core/client.py sends: one account sends texts, files and receipts   *)
(* to a contact with several devices, one copy per device, each sealed     *)
(* with the outbound session of that device.                               *)
(*                                                                         *)
(* send_text, send_file and _send_receipt load the sessions from the store *)
(* and work on that copy: every sealed envelope advances a counter in      *)
(* memory, and only after the last device do the sessions, the message row *)
(* and the outbox rows go to the store, one write after the other.  A put  *)
(* that fails, or a crash, leaves the store as it was while copies are     *)
(* already on their way.                                                   *)
(*                                                                         *)
(* The worker runs one command at a time, so op is the only send under     *)
(* way.  Of a device of the contact, the model keeps what decides whether  *)
(* it can open a copy: its inbound session with us, in which a number      *)
(* opens once, and its one-time prekeys, each of which begins one session. *)
(* Both are lost to other sessions: two relays hand out the same prekey, a *)
(* stranger uses it, and another device of our own account begins a        *)
(* session that is filed in the place of ours.                             *)
(***************************************************************************)
EXTENDS Naturals, Sequences, FiniteSets, SequencesExt

CONSTANTS
    Devices,    \* the contact's devices, in the order of its device list
    Text,       \* ids of the text and file messages; _new_id never repeats one
    Receipt,    \* ids of the receipts sent along the same sessions
    Opk,        \* the one-time prekeys that each device has published
    Other,      \* any session that this account and device did not begin
    None,       \* no session, no row, no command, no prekey
    MaxFaults   \* bound: losses, repeats, other sessions and ends of a device

VARIABLES
    saved,      \* the stored outbound session with each device: [sid, n]
    op,         \* the send under way
    tried,      \* history: ids that sends have been started with
    sealed,     \* history: every copy some relay has accepted
    mailbox,    \* the envelopes waiting for each device
    inbound,    \* each device's inbound session, when it is ours: [sid, numbers]
    used,       \* the session that used up each prekey of a device, or None
    opened,     \* the ids each device has opened and stored
    read,       \* the texts that were read on each device
    back,       \* receipts on their way from each device
    messages,   \* our rows of sent messages: "sent", "delivered", "read"
    outbox,     \* our outbox rows
    dropped,    \* history: copies the relays have lost
    left,       \* history: sessions each device had and no longer has
    cut,        \* history: ids each device opened and stopped before storing
    faults      \* counts towards MaxFaults

vars == <<saved, op, tried, sealed, mailbox, inbound, used, opened, read, back,
          messages, outbox, dropped, left, cut, faults>>
peer == <<inbound, used, opened, read, back, left, cut>>
store == <<saved, messages, outbox>>

Device == Range(Devices)
Id == Text \cup Receipt

Session == [sid : Id, n : Nat, opk : Opk \cup {None}]
Inbound == [sid : Id, numbers : SUBSET Nat]
Envelope == [sid : Id, n : Nat, opk : Opk \cup {None}, id : Id]
Copy == [device : Device, envelope : Envelope]
OutboxRow == [id : Text, device : Device, seq : {0, 1}]
Notice == [of : Text, kind : {"delivered", "read"}]
Send ==
    [id : Id, step : {"copies", "row", "queue"}, todo : Seq(Device),
     outbound : [Device -> Session]]

ASSUME DevicesAssumption == Devices \in Seq(Device)
ASSUME IdsAssumption == Text \cap Receipt = {}
ASSUME NoneAssumption == None \notin Session \cup Inbound \cup Send \cup {"sent", "delivered", "read"}
ASSUME NamesAssumption == None \notin Id \cup Opk \cup {Other} /\ Other \notin Id
ASSUME BoundsAssumption == MaxFaults \in Nat

Init ==
    /\ saved = [d \in Device |-> None]
    /\ op = None
    /\ tried = {} /\ sealed = {}
    /\ mailbox = [d \in Device |-> <<>>]
    /\ inbound = [d \in Device |-> None]
    /\ used = [d \in Device |-> [k \in Opk |-> None]]
    /\ opened = [d \in Device |-> {}]
    /\ read = [d \in Device |-> {}]
    /\ back = [d \in Device |-> <<>>]
    /\ messages = [t \in Text |-> None]
    /\ outbox = {}
    /\ dropped = {}
    /\ left = [d \in Device |-> {}]
    /\ cut = [d \in Device |-> {}]
    /\ faults = 0

-----------------------------------------------------------------------------
(* Sending                                                                 *)

\* _ensure_outbound_sessions: the loaded sessions, and a new one for every
\* device that has none.  The id of the command names the sessions it starts; a
\* relay of the device has given it a prekey, or has none left.
OutboundSessions(id, opk) ==
    [d \in Device |->
        IF saved[d] = None THEN [sid |-> id, n |-> 0, opk |-> opk[d]] ELSE saved[d]]

\* The start of send_text, send_file or _send_receipt.  A bundle that cannot be
\* fetched, or a chunk that cannot be uploaded, ends it here without a trace.
Start(id) ==
    /\ op = None
    /\ id \notin tried
    /\ \E opk \in [Device -> Opk \cup {None}] :
          op' = [id |-> id, step |-> "copies", todo |-> Devices,
                 outbound |-> OutboundSessions(id, opk)]
    /\ tried' = tried \cup {id}
    /\ UNCHANGED <<store, sealed, mailbox, peer, dropped, faults>>

At(step) == op # None /\ op.step = step

\* seal: the next envelope of a session.
Seal(s, id) == [sid |-> s.sid, n |-> s.n, opk |-> s.opk, id |-> id]

Accepted(d, e) ==
    /\ mailbox' = [mailbox EXCEPT ![d] = Append(@, e)]
    /\ sealed' = sealed \cup {[device |-> d, envelope |-> e]}

\* Ratchet.encrypt on the session of device d.
Advanced(outbound, d) == [outbound EXCEPT ![d].n = @ + 1]

\* One round of _fan_out: seal for the next device, then put.
SendCopy ==
    /\ At("copies") /\ op.todo # <<>>
    /\ LET d == Head(op.todo) IN
           /\ Accepted(d, Seal(op.outbound[d], op.id))
           /\ op' = [op EXCEPT !.todo = Tail(@), !.outbound = Advanced(@, d)]
    /\ UNCHANGED <<store, tried, peer, dropped, faults>>

\* Mutant: _fan_out passes over a device whose relays fail.
PutFails_Skipped ==
    /\ At("copies") /\ op.todo # <<>>
    /\ op' = [op EXCEPT !.todo = Tail(@)]
    /\ UNCHANGED <<store, tried, sealed, mailbox, peer, dropped, faults>>

\* No relay of the device accepts the copy: put raises, and what was loaded is
\* forgotten.  send_text and send_file report it, _send_receipt does not.
PutFails ==
    /\ At("copies") /\ op.todo # <<>>
    /\ op' = None
    /\ UNCHANGED <<store, tried, sealed, mailbox, peer, dropped, faults>>

\* A relay accepts the copy, but its answer is lost: put raises all the same.
AnswerLost ==
    /\ At("copies") /\ op.todo # <<>>
    /\ LET d == Head(op.todo) IN Accepted(d, Seal(op.outbound[d], op.id))
    /\ op' = None
    /\ UNCHANGED <<store, tried, peer, dropped, faults>>

\* Mutant: a receipt is recorded like a message.
SaveState_AnyKind ==
    /\ At("copies") /\ op.todo = <<>>
    /\ saved' = op.outbound
    /\ op' = [op EXCEPT !.step = "row"]
    /\ UNCHANGED <<messages, outbox, tried, sealed, mailbox, peer, dropped, faults>>

\* _save_state, after the last copy.  A receipt is then done.
SaveState ==
    /\ At("copies") /\ op.todo = <<>>
    /\ saved' = op.outbound
    /\ op' = IF op.id \in Text THEN [op EXCEPT !.step = "row"] ELSE None
    /\ UNCHANGED <<messages, outbox, tried, sealed, mailbox, peer, dropped, faults>>

\* add_message
AddRow ==
    /\ At("row")
    /\ messages' = [messages EXCEPT ![op.id] = "sent"]
    /\ op' = [op EXCEPT !.step = "queue", !.todo = Devices]
    /\ UNCHANGED <<saved, outbox, tried, sealed, mailbox, peer, dropped, faults>>

\* _queue_outbox for the next device, with seq 1: "already accepted by at least
\* one relay".
QueueRow ==
    /\ At("queue") /\ op.todo # <<>>
    /\ outbox' = outbox \cup {[id |-> op.id, device |-> Head(op.todo), seq |-> 1]}
    /\ op' = [op EXCEPT !.todo = Tail(@)]
    /\ UNCHANGED <<saved, messages, tried, sealed, mailbox, peer, dropped, faults>>

\* The command returns; mirroring to our own devices cannot fail it.
Return ==
    /\ At("queue") /\ op.todo = <<>>
    /\ op' = None
    /\ UNCHANGED <<store, tried, sealed, mailbox, peer, dropped, faults>>

\* The process stops in the middle of a send.
Crash ==
    /\ op # None
    /\ op' = None
    /\ UNCHANGED <<store, tried, sealed, mailbox, peer, dropped, faults>>

\* flush_outbox: the rows without a seq are put again; the ones a relay accepts
\* are marked.
Unsent == {r \in outbox : r.seq = 0}

Payload(r) == (CHOOSE c \in sealed : c.device = r.device /\ c.envelope.id = r.id).envelope

Payloads(rows, d) == {Payload(r) : r \in {q \in rows : q.device = d}}

FlushOutbox ==
    /\ op = None
    /\ outbox # {}
    /\ \E done \in SUBSET Unsent :
          /\ mailbox' = [d \in Device |-> mailbox[d] \o SetToSeq(Payloads(done, d))]
          /\ outbox' = (outbox \ done) \cup {[r EXCEPT !.seq = 1] : r \in done}
    /\ UNCHANGED <<saved, messages, op, tried, sealed, peer, dropped, faults>>

\* Mutant: only a row with the bare message id is removed.
Answered_BareId(rows, id) == rows

\* outbox_remove_for_message: the rows of all devices.
Answered(rows, id) == {r \in rows : r.id # id}

\* sync handles a receipt from one of the contact's devices.
TakeReceipt(d) ==
    /\ op = None
    /\ back[d] # <<>>
    /\ LET r == Head(back[d]) IN
          /\ messages' = [messages EXCEPT ![r.of] = IF @ = None THEN None ELSE r.kind]
          /\ outbox' = Answered(outbox, r.of)
    /\ back' = [back EXCEPT ![d] = Tail(@)]
    /\ UNCHANGED <<saved, op, tried, sealed, mailbox, inbound, used, opened, read, left, cut, dropped, faults>>

-----------------------------------------------------------------------------
(* The contact's devices and the relays                                    *)

Fault == faults < MaxFaults /\ faults' = faults + 1

\* The relays lose the oldest envelope they hold for device d.
RelayLoses(d) ==
    /\ Fault
    /\ mailbox[d] # <<>>
    /\ mailbox' = [mailbox EXCEPT ![d] = Tail(@)]
    /\ dropped' = dropped \cup {[device |-> d, envelope |-> Head(mailbox[d])]}
    /\ UNCHANGED <<store, op, tried, sealed, peer>>

\* A copy comes again: its ack was lost, or another relay still had one.
Repeat(d) ==
    /\ Fault
    /\ \E c \in sealed :
          /\ c.device = d
          /\ mailbox' = [mailbox EXCEPT ![d] = Append(@, c.envelope)]
    /\ UNCHANGED <<store, op, tried, sealed, peer, dropped>>

\* _find_session: e belongs to the inbound session that device d has with us.
Known(d, e) == inbound[d] # None /\ inbound[d].sid = e.sid

\* The ratchet of that session has the key of e: the number is not consumed; or
\* _begin_inbound succeeds, which any prekey that is used up prevents.
Readable(d, e) ==
    IF Known(d, e)
    THEN e.n \notin inbound[d].numbers
    ELSE e.opk # None => used[d][e.opk] = None

\* _consume_opk, after the handshake of a new session.
ConsumeOpk(d, e) ==
    used' = IF ~Known(d, e) /\ e.opk # None THEN [used EXCEPT ![d][e.opk] = e.sid] ELSE used

\* _save_state: a new session takes the place of the one filed before it.
SaveInbound(d, e) ==
    /\ inbound' = [inbound EXCEPT ![d] =
          [sid |-> e.sid, numbers |-> IF Known(d, e) THEN @.numbers \cup {e.n} ELSE {e.n}]]
    /\ left' = IF Known(d, e) \/ inbound[d] = None THEN left
               ELSE [left EXCEPT ![d] = @ \cup {inbound[d].sid}]

\* A best-effort receipt, sent or lost.
Notify(d, notice) ==
    \/ back' = [back EXCEPT ![d] = Append(@, notice)]
    \/ UNCHANGED back

\* Mutant: a blob that cannot be opened is confirmed like any other.
Refuse_Notified(d) ==
    /\ mailbox[d] # <<>> /\ ~Readable(d, Head(mailbox[d]))
    /\ LET e == Head(mailbox[d]) IN
          IF e.id \in Text THEN Notify(d, [of |-> e.id, kind |-> "delivered"]) ELSE UNCHANGED back
    /\ mailbox' = [mailbox EXCEPT ![d] = Tail(@)]
    /\ UNCHANGED <<store, op, tried, sealed, inbound, used, opened, read, dropped, left, cut, faults>>

\* A consumed number (WireError), or a prekey that is used up: _handle_blob
\* returns None, and the blob is acknowledged all the same.
Refuse(d) ==
    /\ mailbox[d] # <<>> /\ ~Readable(d, Head(mailbox[d]))
    /\ mailbox' = [mailbox EXCEPT ![d] = Tail(@)]
    /\ UNCHANGED <<store, op, tried, sealed, peer, dropped, faults>>

\* Device d handles the first blob of its mailbox: it uses up the prekey, saves
\* the session, stores a text it does not have yet and confirms it.
Receive(d) ==
    /\ mailbox[d] # <<>> /\ Readable(d, Head(mailbox[d]))
    /\ LET e == Head(mailbox[d]) IN
          /\ ConsumeOpk(d, e)
          /\ SaveInbound(d, e)
          /\ opened' = [opened EXCEPT ![d] = @ \cup {e.id}]
          /\ IF e.id \in Text \ opened[d]
             THEN Notify(d, [of |-> e.id, kind |-> "delivered"])
             ELSE UNCHANGED back
    /\ mailbox' = [mailbox EXCEPT ![d] = Tail(@)]
    /\ UNCHANGED <<store, op, tried, sealed, read, dropped, cut, faults>>

\* The process of device d ends before _save_state: the prekey is used up and
\* the session is not stored.  The blob is not acknowledged.
EndsBeforeSave(d) ==
    /\ Fault
    /\ mailbox[d] # <<>> /\ Readable(d, Head(mailbox[d])) /\ ~Known(d, Head(mailbox[d]))
    /\ ConsumeOpk(d, Head(mailbox[d]))
    /\ left' = [left EXCEPT ![d] = @ \cup {Head(mailbox[d]).sid}]
    /\ UNCHANGED <<store, op, tried, sealed, mailbox, inbound, opened, read, back, dropped, cut>>

\* The process of device d ends between _save_state and add_message.
EndsBeforeStore(d) ==
    /\ Fault
    /\ mailbox[d] # <<>> /\ Readable(d, Head(mailbox[d]))
    /\ LET e == Head(mailbox[d]) IN
          /\ ConsumeOpk(d, e)
          /\ SaveInbound(d, e)
          /\ cut' = [cut EXCEPT ![d] = @ \cup {e.id}]
    /\ UNCHANGED <<store, op, tried, sealed, mailbox, opened, read, back, dropped>>

\* Device d handles the first message of a session of someone else, begun with
\* prekey k.  When it is another device of our account, the session is filed
\* under the device id of d as well, in the place of ours.
OtherSession(d, k) ==
    /\ Fault
    /\ k # None => used[d][k] = None
    /\ used' = IF k # None THEN [used EXCEPT ![d][k] = Other] ELSE used
    /\ \/ UNCHANGED <<inbound, left>>
       \/ /\ inbound[d] # None
          /\ inbound' = [inbound EXCEPT ![d] = None]
          /\ left' = [left EXCEPT ![d] = @ \cup {inbound[d].sid}]
    /\ UNCHANGED <<store, op, tried, sealed, mailbox, opened, read, back, dropped, cut>>

\* mark_read on device d.  (Bound: once per text and device.)
MarkRead(d, t) ==
    /\ t \in opened[d] \ read[d]
    /\ read' = [read EXCEPT ![d] = @ \cup {t}]
    /\ Notify(d, [of |-> t, kind |-> "read"])
    /\ UNCHANGED <<store, op, tried, sealed, mailbox, inbound, used, opened, dropped, left, cut, faults>>

-----------------------------------------------------------------------------
Next ==
    \/ \E id \in Id : Start(id)
    \/ SendCopy \/ PutFails \/ AnswerLost \/ SaveState \/ AddRow \/ QueueRow \/ Return
    \/ Crash
    \/ FlushOutbox
    \/ \E d \in Device :
          \/ TakeReceipt(d) \/ RelayLoses(d) \/ Repeat(d)
          \/ Receive(d) \/ Refuse(d) \/ EndsBeforeSave(d) \/ EndsBeforeStore(d)
          \/ \E k \in Opk \cup {None} : OtherSession(d, k)
          \/ \E t \in Text : MarkRead(d, t)

Spec == Init /\ [][Next]_vars

-----------------------------------------------------------------------------
(* Properties                                                              *)

\* Sessions, rows, envelopes and the command under way have their types.
TypeOK ==
    /\ saved \in [Device -> Session \cup {None}]
    /\ op \in Send \cup {None}
    /\ op # None /\ op.step # "copies" => op.id \in Text
    /\ tried \subseteq Id
    /\ sealed \subseteq Copy
    /\ mailbox \in [Device -> Seq(Envelope)]
    /\ inbound \in [Device -> Inbound \cup {None}]
    /\ used \in [Device -> [Opk -> Id \cup {Other, None}]]
    /\ opened \in [Device -> SUBSET Id]
    /\ read \in [Device -> SUBSET Text]
    /\ back \in [Device -> Seq(Notice)]
    /\ messages \in [Text -> {None, "sent", "delivered", "read"}]
    /\ outbox \subseteq OutboxRow
    /\ dropped \subseteq Copy
    /\ left \in [Device -> SUBSET Id]
    /\ cut \in [Device -> SUBSET Id]
    /\ faults \in 0..MaxFaults

\* The ticks are true: a message shows as delivered only if some device of the
\* contact has opened it, and as read only if it was read on one, whatever
\* sends were cut short and whatever receipts were lost or came late.
TicksTruthful ==
    \A t \in Text :
        /\ messages[t] \in {"delivered", "read"} => \E d \in Device : t \in opened[d]
        /\ messages[t] = "read" => \E d \in Device : t \in read[d]

\* An outbox row belongs to a recorded message no receipt has come for: the
\* first receipt clears the rows of all devices, and none appears after it.
OutboxUnanswered == \A r \in outbox : messages[r.id] = "sent"

\* Two copies for one device were sealed with the same message key.
KeyShared(d, id) ==
    \E a, b \in sealed :
        /\ a.device = d /\ b.device = d
        /\ a.envelope.sid = b.envelope.sid /\ a.envelope.n = b.envelope.n
        /\ a.envelope.id = id /\ b.envelope.id # id

\* The prekey of a copy for device d was used up by another session, or by one
\* that the device has not kept.
PrekeyGone(d, id) ==
    \E c \in sealed :
        /\ c.device = d /\ c.envelope.id = id /\ c.envelope.opk # None
        /\ used[d][c.envelope.opk] # None
        /\ used[d][c.envelope.opk] = c.envelope.sid => c.envelope.sid \in left[d]

\* What is recorded as sent has reached, or is waiting for, every device of the
\* contact.  It is lost in five ways only: the relays drop it; an earlier send
\* was cut short and its message key was used again; the device stopped between
\* saving the session and storing the message; the prekey its session was begun
\* with went to another session first; or the device no longer has that session.
SentReachesAll ==
    \A t \in Text, d \in Device :
        messages[t] # None =>
            \/ t \in opened[d]
            \/ \E i \in DOMAIN mailbox[d] : mailbox[d][i].id = t
            \/ \E c \in dropped : c.device = d /\ c.envelope.id = t
            \/ KeyShared(d, t)
            \/ t \in cut[d]
            \/ PrekeyGone(d, t)

\* "12-byte random nonces per message with per-message keys (key uniqueness
\* makes reuse moot)": no message key seals two different envelopes.
KeysUsedOnce == \A d \in Device, id \in Id : ~KeyShared(d, id)

=============================================================================
