--------------------------- MODULE DeliveryProofs ---------------------------
(***************************************************************************)
(* What Delivery guarantees for any number of devices, texts and receipts: *)
(* types, true ticks, an outbox of unanswered messages, and that what is   *)
(* recorded as sent reaches every device.                                  *)
(*                                                                         *)
(* TicksTruthful rests on what is on its way back (BackTruthful), and      *)
(* OutboxUnanswered on the row being written before the outbox is filled   *)
(* (QueuedSent) and on no receipt being handled in between.                *)
(* SentReachesAll rests on what a device refuses: what waits was sealed    *)
(* (Sealed), a number that is consumed was sealed for a message the device *)
(* opened (Consumed), and a prekey of ours that is gone began the session  *)
(* the device has, or one that it has left (Taken).                        *)
(***************************************************************************)
EXTENDS Delivery, FiniteSetTheorems, SequenceTheorems, TLAPS

\* Every outbox row is marked as sent, so that there is nothing to flush.
AllMarked == \A r \in outbox : r.seq = 1

\* A receipt on its way says what has happened on its device.
BackTruthful ==
    \A d \in Device : \A i \in DOMAIN back[d] :
        /\ back[d][i].of \in opened[d]
        /\ back[d][i].kind = "read" => back[d][i].of \in read[d]

\* The outbox is filled for a message that is recorded and not yet answered.
QueuedSent == At("queue") => messages[op.id] = "sent"

-----------------------------------------------------------------------------
(* Types                                                                   *)

\* The edits of the command under way.
LEMMA EditedSend ==
  ASSUME NEW s \in Send, NEW todo \in Seq(Device), NEW outbound \in [Device -> Session]
  PROVE  /\ [s EXCEPT !.todo = todo] \in Send
         /\ [s EXCEPT !.step = "row"] \in Send
         /\ [s EXCEPT !.step = "queue", !.todo = todo] \in Send
         /\ [s EXCEPT !.todo = todo, !.outbound = outbound] \in Send
         /\ [s EXCEPT !.todo = todo].id = s.id
         /\ [s EXCEPT !.todo = todo].step = s.step
         /\ [s EXCEPT !.step = "row"].id = s.id
         /\ [s EXCEPT !.step = "row"].step = "row"
         /\ [s EXCEPT !.step = "queue", !.todo = todo].id = s.id
         /\ [s EXCEPT !.step = "queue", !.todo = todo].step = "queue"
         /\ [s EXCEPT !.todo = todo, !.outbound = outbound].id = s.id
         /\ [s EXCEPT !.todo = todo, !.outbound = outbound].step = s.step
  BY DEF Send

LEMMA AdvancedType ==
  ASSUME NEW outbound \in [Device -> Session], NEW d \in Device
  PROVE  Advanced(outbound, d) \in [Device -> Session]
  BY DEF Advanced, Session

\* The fields of the command under way.
LEMMA SendFields ==
  ASSUME NEW s \in Send
  PROVE  /\ s.id \in Id /\ s.todo \in Seq(Device)
         /\ s.outbound \in [Device -> Session]
         /\ s # None
  BY NoneAssumption DEF Send

\* The first device that is left, the copy for it, and what remains.
LEMMA NextCopy ==
  ASSUME NEW s \in Send, s.todo # <<>>
  PROVE  /\ Head(s.todo) \in Device
         /\ Tail(s.todo) \in Seq(Device)
         /\ Seal(s.outbound[Head(s.todo)], s.id) \in Envelope
         /\ Seal(s.outbound[Head(s.todo)], s.id).id = s.id
  <1>1. s.todo \in Seq(Device) /\ s.outbound \in [Device -> Session] /\ s.id \in Id
    BY SendFields
  <1>2. Head(s.todo) \in Device /\ Tail(s.todo) \in Seq(Device)
    BY <1>1
  <1>3. s.outbound[Head(s.todo)] \in Session
    BY <1>1, <1>2
  <1> QED BY <1>1, <1>2, <1>3 DEF Session, Envelope, Seal

LEMMA AcceptedType ==
  ASSUME TypeOK, NEW d \in Device, NEW e \in Envelope, Accepted(d, e)
  PROVE  mailbox' \in [Device -> Seq(Envelope)] /\ sealed' \subseteq Copy /\ sealed \subseteq sealed'
  BY DEF TypeOK, Accepted, Copy

\* Flushing finds nothing to put again.
LEMMA NothingToFlush ==
  ASSUME TypeOK, AllMarked, FlushOutbox
  PROVE  mailbox' = mailbox /\ outbox' = outbox
  <1>1. Unsent = {}
    BY DEF AllMarked, Unsent
  <1>2. PICK done \in SUBSET Unsent :
          /\ mailbox' = [d \in Device |-> mailbox[d] \o SetToSeq(Payloads(done, d))]
          /\ outbox' = (outbox \ done) \cup {[r EXCEPT !.seq = 1] : r \in done}
    BY DEF FlushOutbox
  <1>3. done = {}
    BY <1>1, <1>2
  <1>4. outbox' = outbox
    BY <1>2, <1>3
  <1>5. ASSUME NEW d \in Device
        PROVE  mailbox[d] \o SetToSeq(Payloads(done, d)) = mailbox[d]
    <2>1. Payloads(done, d) = {}
      BY <1>3 DEF Payloads
    <2> DEFINE fs == [1..Cardinality({}) -> {}]
    <2>2. Cardinality({}) = 0
      BY FS_EmptySet
    <2>3. <<>> \in fs /\ IsInjective(<<>>)
      BY <2>2 DEF IsInjective
    <2>4. SetToSeq({}) \in fs
      BY <2>3 DEF SetToSeq
    <2>5. SetToSeq({}) = <<>>
      BY <2>2, <2>4
    <2>6. mailbox[d] \in Seq(Envelope)
      BY DEF TypeOK
    <2>7. mailbox[d] \o <<>> = mailbox[d]
      BY <2>6, ConcatEmptySeq
    <2> QED BY <2>1, <2>5, <2>7
  <1>6. mailbox' = mailbox
    BY <1>2, <1>5 DEF TypeOK
  <1> QED BY <1>4, <1>6

LEMMA InitType == Init => TypeOK /\ AllMarked
  <1> SUFFICES ASSUME Init PROVE TypeOK /\ AllMarked
    OBVIOUS
  <1>1. mailbox \in [Device -> Seq(Envelope)] /\ back \in [Device -> Seq(Notice)]
    BY DEF Init
  <1>2. faults \in 0..MaxFaults
    BY BoundsAssumption DEF Init
  <1> QED BY <1>1, <1>2 DEF Init, TypeOK, AllMarked

\* The commands of the sender.
LEMMA SenderType ==
  ASSUME TypeOK, AllMarked,
         \/ \E id \in Id : Start(id)
         \/ SendCopy \/ PutFails \/ AnswerLost \/ SaveState \/ AddRow \/ QueueRow
         \/ Return \/ Crash \/ FlushOutbox
  PROVE  TypeOK' /\ AllMarked'
  <1>1. CASE \E id \in Id : Start(id)
    <2> PICK id \in Id : Start(id)
      BY <1>1
    <2> PICK opk \in [Device -> Opk \cup {None}] :
               op' = [id |-> id, step |-> "copies", todo |-> Devices,
                      outbound |-> OutboundSessions(id, opk)]
      BY DEF Start
    <2>1. OutboundSessions(id, opk) \in [Device -> Session]
      BY DEF OutboundSessions, TypeOK, Session
    <2>2. op' \in Send /\ op'.step = "copies"
      BY <2>1, DevicesAssumption DEF Send
    <2> QED BY <2>2 DEF TypeOK, AllMarked, Start, store, peer
  <1>2. CASE SendCopy
    <2> DEFINE d == Head(op.todo)
               e == Seal(op.outbound[d], op.id)
    <2>1. op \in Send /\ op.step = "copies" /\ op.todo # <<>>
      BY <1>2 DEF SendCopy, At, TypeOK
    <2>2. d \in Device /\ Tail(op.todo) \in Seq(Device) /\ e \in Envelope
      BY <2>1, NextCopy
    <2>3. Accepted(d, e)
      BY <1>2 DEF SendCopy
    <2>4. mailbox' \in [Device -> Seq(Envelope)] /\ sealed' \subseteq Copy /\ sealed \subseteq sealed'
      BY <2>2, <2>3, AcceptedType
    <2>5. Advanced(op.outbound, d) \in [Device -> Session]
      BY <2>1, <2>2, SendFields, AdvancedType
    <2>6. op' = [op EXCEPT !.todo = Tail(op.todo), !.outbound = Advanced(op.outbound, d)]
      BY <1>2 DEF SendCopy
    <2>7. op' \in Send /\ op'.step = "copies"
      <3> DEFINE todo == Tail(op.todo)
                 outbound == Advanced(op.outbound, d)
      <3>1. todo \in Seq(Device) /\ outbound \in [Device -> Session]
        BY <2>2, <2>5
      <3>2. op' = [op EXCEPT !.todo = todo, !.outbound = outbound]
        BY <2>6
      <3> HIDE DEF todo, outbound
      <3>3. /\ [op EXCEPT !.todo = todo, !.outbound = outbound] \in Send
            /\ [op EXCEPT !.todo = todo, !.outbound = outbound].step = op.step
        <4> HIDE DEF d, e
        <4> QED BY <2>1, <3>1 DEF Send
      <3> QED BY <2>1, <3>2, <3>3
    <2> QED BY <1>2, <2>4, <2>7 DEF TypeOK, AllMarked, SendCopy, store, peer
  <1>3. CASE AnswerLost
    <2> DEFINE d == Head(op.todo)
               e == Seal(op.outbound[d], op.id)
    <2>1. op \in Send /\ op.todo # <<>>
      BY <1>3 DEF AnswerLost, At, TypeOK
    <2>2. d \in Device /\ e \in Envelope
      BY <2>1, NextCopy
    <2>3. Accepted(d, e)
      BY <1>3 DEF AnswerLost
    <2>4. mailbox' \in [Device -> Seq(Envelope)] /\ sealed' \subseteq Copy /\ sealed \subseteq sealed'
      BY <2>2, <2>3, AcceptedType
    <2> QED BY <1>3, <2>4 DEF TypeOK, AllMarked, AnswerLost, store, peer
  <1>4. CASE PutFails \/ Return \/ Crash
    BY <1>4 DEF TypeOK, AllMarked, PutFails, Return, Crash, store, peer
  <1>5. CASE SaveState
    <2>1. op \in Send
      BY <1>5 DEF SaveState, At, TypeOK
    <2>2. saved' \in [Device -> Session \cup {None}]
      BY <1>5, <2>1, SendFields DEF SaveState
    <2>3. op.todo \in Seq(Device) /\ op.outbound \in [Device -> Session]
      BY <2>1, SendFields
    <2>4. op' \in Send \cup {None} /\ (op' # None => op'.id \in Text)
      BY <1>5, <2>1, <2>3, EditedSend DEF SaveState
    <2> QED BY <1>5, <2>2, <2>4 DEF TypeOK, AllMarked, SaveState, peer
  <1>6. CASE AddRow
    <2>1. op \in Send /\ op.id \in Text
      BY <1>6 DEF AddRow, At, TypeOK
    <2>2. op.outbound \in [Device -> Session]
      BY <2>1, SendFields
    <2>3. op' \in Send /\ op'.id = op.id
      BY <1>6, <2>1, <2>2, EditedSend, DevicesAssumption DEF AddRow
    <2>4. messages' \in [Text -> {None, "sent", "delivered", "read"}]
      BY <1>6, <2>1 DEF AddRow, TypeOK
    <2> QED BY <1>6, <2>1, <2>3, <2>4 DEF TypeOK, AllMarked, AddRow, peer
  <1>7. CASE QueueRow
    <2>1. op \in Send /\ op.id \in Text /\ op.todo # <<>>
      BY <1>7 DEF QueueRow, At, TypeOK
    <2>2. Head(op.todo) \in Device /\ Tail(op.todo) \in Seq(Device)
      BY <2>1, NextCopy
    <2>3. op.outbound \in [Device -> Session]
      BY <2>1, SendFields
    <2>4. op' \in Send /\ op'.id = op.id
      BY <1>7, <2>1, <2>2, <2>3, EditedSend DEF QueueRow
    <2>5. outbox' \subseteq OutboxRow /\ AllMarked'
      BY <1>7, <2>1, <2>2 DEF QueueRow, TypeOK, OutboxRow, AllMarked
    <2> QED BY <1>7, <2>1, <2>4, <2>5 DEF TypeOK, QueueRow, peer
  <1>8. CASE FlushOutbox
    BY <1>8, NothingToFlush DEF TypeOK, AllMarked, FlushOutbox, peer
  <1> QED BY <1>1, <1>2, <1>3, <1>4, <1>5, <1>6, <1>7, <1>8

\* A receipt that is sent or lost.
LEMMA NotifyType ==
  ASSUME TypeOK, NEW d \in Device, NEW r \in Notice, Notify(d, r)
  PROVE  back' \in [Device -> Seq(Notice)]
  <1>1. back[d] \in Seq(Notice)
    BY DEF TypeOK
  <1>2. Append(back[d], r) \in Seq(Notice)
    BY <1>1
  <1>3. CASE back' = [back EXCEPT ![d] = Append(back[d], r)]
    BY <1>2, <1>3 DEF TypeOK
  <1>4. CASE UNCHANGED back
    BY <1>4 DEF TypeOK
  <1> QED BY <1>3, <1>4 DEF Notify

\* The first envelope that waits for a device.
LEMMA HeadType ==
  ASSUME TypeOK, NEW d \in Device, mailbox[d] # <<>>
  PROVE  /\ mailbox[d] \in Seq(Envelope)
         /\ Head(mailbox[d]) \in Envelope /\ Tail(mailbox[d]) \in Seq(Envelope)
         /\ [mailbox EXCEPT ![d] = Tail(mailbox[d])] \in [Device -> Seq(Envelope)]
  <1>1. mailbox[d] \in Seq(Envelope)
    BY DEF TypeOK
  <1>2. Head(mailbox[d]) \in Envelope /\ Tail(mailbox[d]) \in Seq(Envelope)
    BY <1>1
  <1> QED BY <1>1, <1>2 DEF TypeOK

\* The writes of a device that opens an envelope.
LEMMA WritesType ==
  ASSUME TypeOK, NEW d \in Device, NEW e \in Envelope
  PROVE  /\ ConsumeOpk(d, e) => used' \in [Device -> [Opk -> Id \cup {Other, None}]]
         /\ SaveInbound(d, e) => /\ inbound' \in [Device -> Inbound \cup {None}]
                                 /\ left' \in [Device -> SUBSET Id]
  <1>1. e.id \in Id /\ e.sid \in Id /\ e.n \in Nat /\ e.opk \in Opk \cup {None}
    BY DEF Envelope
  <1>2. ASSUME ConsumeOpk(d, e) PROVE used' \in [Device -> [Opk -> Id \cup {Other, None}]]
    BY <1>1, <1>2 DEF ConsumeOpk, TypeOK
  <1>3. ASSUME SaveInbound(d, e)
        PROVE  inbound' \in [Device -> Inbound \cup {None}] /\ left' \in [Device -> SUBSET Id]
    <2> DEFINE numbers == IF Known(d, e) THEN inbound[d].numbers \cup {e.n} ELSE {e.n}
    <2>1. numbers \in SUBSET Nat
      BY <1>1 DEF TypeOK, Inbound, Known
    <2>2. [sid |-> e.sid, numbers |-> numbers] \in Inbound
      BY <1>1, <2>1 DEF Inbound
    <2>3. inbound' = [inbound EXCEPT ![d] = [sid |-> e.sid, numbers |-> numbers]]
      BY <1>3 DEF SaveInbound
    <2>4. inbound' \in [Device -> Inbound \cup {None}]
      <3> HIDE DEF numbers
      <3> QED BY <2>2, <2>3 DEF TypeOK
    <2>5. inbound[d] # None => inbound[d].sid \in Id
      BY DEF TypeOK, Inbound
    <2>6. left' \in [Device -> SUBSET Id]
      BY <1>3, <2>5 DEF SaveInbound, TypeOK
    <2> QED BY <2>4, <2>6
  <1> QED BY <1>2, <1>3

LEMMA FaultType ==
  ASSUME TypeOK, Fault
  PROVE  faults' \in 0..MaxFaults
  BY BoundsAssumption DEF Fault, TypeOK

\* Receipts and the relays.
LEMMA RelayType ==
  ASSUME TypeOK, AllMarked, NEW d \in Device, TakeReceipt(d) \/ RelayLoses(d) \/ Repeat(d)
  PROVE  TypeOK' /\ AllMarked'
  <1>1. CASE TakeReceipt(d)
    <2> DEFINE r == Head(back[d])
    <2>1. back[d] \in Seq(Notice) /\ back[d] # <<>>
      BY <1>1 DEF TakeReceipt, TypeOK
    <2>2. r \in Notice /\ Tail(back[d]) \in Seq(Notice)
      BY <2>1
    <2>3. back' \in [Device -> Seq(Notice)]
      BY <1>1, <2>2 DEF TakeReceipt, TypeOK
    <2>4. messages' \in [Text -> {None, "sent", "delivered", "read"}]
      BY <1>1, <2>2 DEF TakeReceipt, TypeOK, Notice
    <2>5. outbox' \subseteq outbox
      BY <1>1 DEF TakeReceipt, Answered
    <2> QED BY <1>1, <2>3, <2>4, <2>5 DEF TypeOK, AllMarked, TakeReceipt
  <1>2. CASE RelayLoses(d)
    <2>1. Head(mailbox[d]) \in Envelope /\ mailbox' \in [Device -> Seq(Envelope)]
      BY <1>2, HeadType DEF RelayLoses
    <2>2. dropped' \subseteq Copy
      BY <1>2, <2>1 DEF RelayLoses, TypeOK, Copy
    <2>3. faults' \in 0..MaxFaults
      BY <1>2, FaultType DEF RelayLoses
    <2> QED BY <1>2, <2>1, <2>2, <2>3 DEF TypeOK, AllMarked, RelayLoses, store, peer
  <1>3. CASE Repeat(d)
    <2> PICK c \in sealed : mailbox' = [mailbox EXCEPT ![d] = Append(mailbox[d], c.envelope)]
      BY <1>3 DEF Repeat
    <2>1. c.envelope \in Envelope /\ mailbox[d] \in Seq(Envelope)
      BY DEF TypeOK, Copy
    <2>2. mailbox' \in [Device -> Seq(Envelope)]
      BY <2>1 DEF TypeOK
    <2>3. faults' \in 0..MaxFaults
      BY <1>3, FaultType DEF Repeat
    <2> QED BY <1>3, <2>2, <2>3 DEF TypeOK, AllMarked, Repeat, store, peer
  <1> QED BY <1>1, <1>2, <1>3

\* The contact's devices.
LEMMA PeerType ==
  ASSUME TypeOK, AllMarked, NEW d \in Device,
         \/ Receive(d) \/ Refuse(d) \/ EndsBeforeSave(d) \/ EndsBeforeStore(d)
         \/ \E k \in Opk \cup {None} : OtherSession(d, k)
         \/ \E t \in Text : MarkRead(d, t)
  PROVE  TypeOK' /\ AllMarked'
  <1> DEFINE e == Head(mailbox[d])
  <1>1. CASE Receive(d)
    <2>1. mailbox' \in [Device -> Seq(Envelope)] /\ e \in Envelope
      BY <1>1, HeadType DEF Receive
    <2>2. e.id \in Id
      BY <2>1 DEF Envelope
    <2>3. /\ used' \in [Device -> [Opk -> Id \cup {Other, None}]]
          /\ inbound' \in [Device -> Inbound \cup {None}] /\ left' \in [Device -> SUBSET Id]
      BY <1>1, <2>1, WritesType DEF Receive
    <2>4. opened' \in [Device -> SUBSET Id]
      BY <1>1, <2>2 DEF Receive, TypeOK
    <2>5. back' \in [Device -> Seq(Notice)]
      <3>1. CASE e.id \in Text \ opened[d]
        <4>1. [of |-> e.id, kind |-> "delivered"] \in Notice
          BY <3>1 DEF Notice
        <4>2. Notify(d, [of |-> e.id, kind |-> "delivered"])
          BY <1>1, <3>1 DEF Receive
        <4> QED BY <4>1, <4>2, NotifyType
      <3>2. CASE e.id \notin Text \ opened[d]
        BY <1>1, <3>2 DEF Receive, TypeOK
      <3> QED BY <3>1, <3>2
    <2> HIDE DEF e
    <2> QED BY <1>1, <2>1, <2>3, <2>4, <2>5 DEF TypeOK, AllMarked, Receive, store
  <1>2. CASE Refuse(d)
    <2>1. mailbox' \in [Device -> Seq(Envelope)]
      BY <1>2, HeadType DEF Refuse
    <2> QED BY <1>2, <2>1 DEF TypeOK, AllMarked, Refuse, store, peer
  <1>3. CASE EndsBeforeSave(d)
    <2>1. e \in Envelope
      BY <1>3, HeadType DEF EndsBeforeSave
    <2>2. used' \in [Device -> [Opk -> Id \cup {Other, None}]]
      BY <1>3, <2>1, WritesType DEF EndsBeforeSave
    <2>3. e.sid \in Id
      BY <2>1 DEF Envelope
    <2>4. left' \in [Device -> SUBSET Id]
      BY <1>3, <2>3 DEF EndsBeforeSave, TypeOK
    <2>5. faults' \in 0..MaxFaults
      BY <1>3, FaultType DEF EndsBeforeSave
    <2> HIDE DEF e
    <2> QED BY <1>3, <2>2, <2>4, <2>5 DEF TypeOK, AllMarked, EndsBeforeSave, store
  <1>4. CASE EndsBeforeStore(d)
    <2>1. e \in Envelope
      BY <1>4, HeadType DEF EndsBeforeStore
    <2>2. /\ used' \in [Device -> [Opk -> Id \cup {Other, None}]]
          /\ inbound' \in [Device -> Inbound \cup {None}] /\ left' \in [Device -> SUBSET Id]
      BY <1>4, <2>1, WritesType DEF EndsBeforeStore
    <2>3. e.id \in Id
      BY <2>1 DEF Envelope
    <2>4. cut' \in [Device -> SUBSET Id]
      BY <1>4, <2>3 DEF EndsBeforeStore, TypeOK
    <2>5. faults' \in 0..MaxFaults
      BY <1>4, FaultType DEF EndsBeforeStore
    <2> HIDE DEF e
    <2> QED BY <1>4, <2>2, <2>4, <2>5 DEF TypeOK, AllMarked, EndsBeforeStore, store
  <1>5. ASSUME NEW k \in Opk \cup {None}, OtherSession(d, k) PROVE TypeOK' /\ AllMarked'
    <2>1. used' \in [Device -> [Opk -> Id \cup {Other, None}]]
      BY <1>5 DEF OtherSession, TypeOK
    <2>2. inbound[d] # None => inbound[d].sid \in Id
      BY DEF TypeOK, Inbound
    <2>3. inbound' \in [Device -> Inbound \cup {None}] /\ left' \in [Device -> SUBSET Id]
      <3>1. CASE UNCHANGED <<inbound, left>>
        BY <3>1 DEF TypeOK
      <3>2. CASE /\ inbound[d] # None
                 /\ inbound' = [inbound EXCEPT ![d] = None]
                 /\ left' = [left EXCEPT ![d] = left[d] \cup {inbound[d].sid}]
        <4>1. left[d] \cup {inbound[d].sid} \in SUBSET Id
          BY <2>2, <3>2 DEF TypeOK
        <4> QED BY <3>2, <4>1 DEF TypeOK
      <3> QED BY <1>5, <3>1, <3>2 DEF OtherSession
    <2>4. faults' \in 0..MaxFaults
      BY <1>5, FaultType DEF OtherSession
    <2> QED BY <1>5, <2>1, <2>3, <2>4 DEF TypeOK, AllMarked, OtherSession, store
  <1>6. ASSUME NEW t \in Text, MarkRead(d, t) PROVE TypeOK' /\ AllMarked'
    <2>1. [of |-> t, kind |-> "read"] \in Notice
      BY DEF Notice
    <2>2. back' \in [Device -> Seq(Notice)]
      BY <1>6, <2>1, NotifyType DEF MarkRead
    <2>3. read' \in [Device -> SUBSET Text]
      BY <1>6 DEF MarkRead, TypeOK
    <2> QED BY <1>6, <2>2, <2>3 DEF TypeOK, AllMarked, MarkRead, store
  <1> QED BY <1>1, <1>2, <1>3, <1>4, <1>5, <1>6

LEMMA TypeStep == TypeOK /\ AllMarked /\ [Next]_vars => TypeOK' /\ AllMarked'
  <1> SUFFICES ASSUME TypeOK, AllMarked, [Next]_vars PROVE TypeOK' /\ AllMarked'
    OBVIOUS
  <1>1. CASE UNCHANGED vars
    BY <1>1 DEF TypeOK, AllMarked, vars
  <1>2. CASE Next
    BY <1>2, SenderType, RelayType, PeerType DEF Next
  <1> QED BY <1>1, <1>2

\* Every state of Delivery is well typed: sessions, the command under way, the
\* rows it writes and what is on its way to and from the devices.
THEOREM TypeCorrect == Spec => []TypeOK
  <1>1. Init => TypeOK /\ AllMarked
    BY InitType
  <1>2. TypeOK /\ AllMarked /\ [Next]_vars => (TypeOK /\ AllMarked)'
    BY TypeStep
  <1> QED BY <1>1, <1>2, PTL DEF Spec

-----------------------------------------------------------------------------
(* True ticks                                                              *)

\* A receipt that says what has happened keeps the ones on their way true.
LEMMA NotifyTruthful ==
  ASSUME TypeOK, BackTruthful, NEW d \in Device, NEW r \in Notice, Notify(d, r),
         opened' \in [Device -> SUBSET Id], read' \in [Device -> SUBSET Text],
         \A c \in Device : opened[c] \subseteq opened'[c] /\ read[c] \subseteq read'[c],
         r.of \in opened'[d], r.kind = "read" => r.of \in read'[d]
  PROVE  BackTruthful'
  <1>1. CASE back' = back
    BY <1>1 DEF BackTruthful
  <1>2. CASE back' = [back EXCEPT ![d] = Append(back[d], r)]
    <2>1. back[d] \in Seq(Notice)
      BY DEF TypeOK
    <2> SUFFICES ASSUME NEW c \in Device, NEW i \in DOMAIN back'[c]
                 PROVE  /\ back'[c][i].of \in opened'[c]
                        /\ back'[c][i].kind = "read" => back'[c][i].of \in read'[c]
      BY DEF BackTruthful
    <2>2. CASE c # d
      <3>1. back'[c] = back[c]
        BY <1>2, <2>2 DEF TypeOK
      <3> QED BY <3>1 DEF BackTruthful
    <2>3. CASE c = d
      <3>1. back'[c] = Append(back[d], r)
        BY <1>2, <2>3 DEF TypeOK
      <3>2. i \in 1..Len(back[d]) + 1
        BY <2>1, <3>1
      <3>3. CASE i = Len(back[d]) + 1
        BY <2>1, <2>3, <3>1, <3>3
      <3>4. CASE i \in 1..Len(back[d])
        <4>1. back'[c][i] = back[d][i] /\ i \in DOMAIN back[d]
          BY <2>1, <3>1, <3>4
        <4> QED BY <2>3, <4>1 DEF BackTruthful
      <3> QED BY <2>1, <3>2, <3>3, <3>4
    <2> QED BY <2>2, <2>3
  <1> QED BY <1>1, <1>2 DEF Notify

LEMMA TicksStep ==
  TypeOK /\ TypeOK' /\ BackTruthful /\ TicksTruthful /\ [Next]_vars
    => BackTruthful' /\ TicksTruthful'
  <1> SUFFICES ASSUME TypeOK, TypeOK', BackTruthful, TicksTruthful, [Next]_vars
               PROVE  BackTruthful' /\ TicksTruthful'
    OBVIOUS
  <1>1. CASE UNCHANGED <<opened, read, back, messages>>
    BY <1>1 DEF BackTruthful, TicksTruthful
  <1>2. CASE AddRow
    <2>1. UNCHANGED <<opened, read, back>> /\ op.id \in Text
      BY <1>2 DEF AddRow, At, peer, TypeOK
    <2>2. \A t \in Text : messages'[t] \in {"delivered", "read"} => messages'[t] = messages[t]
      BY <1>2, <2>1 DEF AddRow, TypeOK
    <2> QED BY <2>1, <2>2 DEF BackTruthful, TicksTruthful
  <1>3. ASSUME NEW d \in Device, TakeReceipt(d) PROVE BackTruthful' /\ TicksTruthful'
    <2> DEFINE r == Head(back[d])
    <2>1. back[d] \in Seq(Notice) /\ back[d] # <<>>
      BY <1>3 DEF TakeReceipt, TypeOK
    <2>2. r = back[d][1] /\ 1 \in DOMAIN back[d] /\ r \in Notice
      BY <2>1
    <2>3. r.of \in opened[d] /\ (r.kind = "read" => r.of \in read[d])
      BY <2>2 DEF BackTruthful
    <2>4. UNCHANGED <<opened, read>>
      BY <1>3 DEF TakeReceipt
    <2>5. back' = [back EXCEPT ![d] = Tail(back[d])]
      BY <1>3 DEF TakeReceipt
    <2>6. \A t \in Text : messages'[t] = messages[t] \/ (t = r.of /\ messages'[t] = r.kind)
      BY <1>3, <2>2 DEF TakeReceipt, TypeOK, Notice
    <2>7. BackTruthful'
      <3> SUFFICES ASSUME NEW c \in Device, NEW i \in DOMAIN back'[c]
                   PROVE  /\ back'[c][i].of \in opened'[c]
                          /\ back'[c][i].kind = "read" => back'[c][i].of \in read'[c]
        BY DEF BackTruthful
      <3>1. CASE c # d
        <4>1. back'[c] = back[c]
          BY <2>5, <3>1 DEF TypeOK
        <4> QED BY <2>4, <4>1 DEF BackTruthful
      <3>2. CASE c = d
        <4>1. back'[c] = Tail(back[d])
          BY <2>5, <3>2 DEF TypeOK
        <4>2. back'[c][i] = back[d][i + 1] /\ i + 1 \in DOMAIN back[d]
          BY <2>1, <4>1
        <4> QED BY <2>4, <3>2, <4>2 DEF BackTruthful
      <3> QED BY <3>1, <3>2
    <2>8. TicksTruthful'
      <3> SUFFICES ASSUME NEW t \in Text
                   PROVE  /\ messages'[t] \in {"delivered", "read"} => \E c \in Device : t \in opened[c]
                          /\ messages'[t] = "read" => \E c \in Device : t \in read[c]
        BY <2>4 DEF TicksTruthful
      <3> QED BY <2>3, <2>6 DEF TicksTruthful
    <2> QED BY <2>7, <2>8
  <1>4. ASSUME NEW d \in Device, Receive(d) PROVE BackTruthful' /\ TicksTruthful'
    <2> DEFINE e == Head(mailbox[d])
    <2>1. UNCHANGED <<read, messages>>
      BY <1>4 DEF Receive, store
    <2>2. \A c \in Device : opened[c] \subseteq opened'[c]
      <3>1. opened' = [opened EXCEPT ![d] = opened[d] \cup {e.id}]
        BY <1>4 DEF Receive
      <3> QED BY <3>1 DEF TypeOK
    <2>3. TicksTruthful'
      BY <2>1, <2>2 DEF TicksTruthful
    <2>4. CASE UNCHANGED back
      <3> SUFFICES ASSUME NEW c \in Device, NEW i \in DOMAIN back[c]
                   PROVE  /\ back[c][i].of \in opened'[c]
                          /\ back[c][i].kind = "read" => back[c][i].of \in read[c]
        <4>1. read' = read /\ back' = back
          BY <2>1, <2>4
        <4> QED BY <2>3, <4>1 DEF BackTruthful
      <3>1. /\ back[c][i].of \in opened[c]
            /\ back[c][i].kind = "read" => back[c][i].of \in read[c]
        BY DEF BackTruthful
      <3>2. opened[c] \subseteq opened'[c]
        BY <2>2
      <3> QED BY <3>1, <3>2
    <2>5. CASE ~UNCHANGED back
      <3>1. e.id \in Text \ opened[d]
        BY <1>4, <2>5 DEF Receive
      <3>2. /\ Notify(d, [of |-> e.id, kind |-> "delivered"])
            /\ e.id \in opened'[d]
        BY <1>4, <3>1 DEF Receive, TypeOK
      <3> DEFINE r == [of |-> e.id, kind |-> "delivered"]
      <3>3. r \in Notice /\ r.of = e.id /\ r.kind # "read"
        BY <3>1 DEF Notice
      <3>4. opened' \in [Device -> SUBSET Id] /\ read' \in [Device -> SUBSET Text]
        BY DEF TypeOK
      <3> HIDE DEF e
      <3> QED BY <2>1, <2>2, <2>3, <3>2, <3>3, <3>4, NotifyTruthful
    <2> QED BY <2>3, <2>4, <2>5
  <1>5. ASSUME NEW d \in Device, NEW t \in Text, MarkRead(d, t)
        PROVE  BackTruthful' /\ TicksTruthful'
    <2> DEFINE r == [of |-> t, kind |-> "read"]
    <2>1. UNCHANGED <<opened, messages>> /\ t \in opened[d] /\ Notify(d, r)
      BY <1>5 DEF MarkRead, store
    <2>2. (\A c \in Device : read[c] \subseteq read'[c]) /\ t \in read'[d]
      BY <1>5 DEF MarkRead, TypeOK
    <2>3. TicksTruthful'
      BY <2>1, <2>2 DEF TicksTruthful
    <2>4. r \in Notice /\ r.of = t
      BY DEF Notice
    <2>5. opened' \in [Device -> SUBSET Id] /\ read' \in [Device -> SUBSET Text]
      BY DEF TypeOK
    <2>6. BackTruthful'
      BY <2>1, <2>2, <2>4, <2>5, NotifyTruthful
    <2> QED BY <2>3, <2>6
  <1>6. ASSUME Next PROVE BackTruthful' /\ TicksTruthful'
    BY <1>1, <1>2, <1>3, <1>4, <1>5, <1>6
       DEF Next, Start, SendCopy, PutFails, AnswerLost, SaveState, QueueRow, Return, Crash,
           FlushOutbox, RelayLoses, Repeat, Refuse, EndsBeforeSave, EndsBeforeStore,
           OtherSession, peer, store
  <1> QED BY <1>1, <1>6 DEF vars

\* A message shows as delivered only if a device of the contact opened it, and
\* as read only if it was read on one, however sends, receipts, relays and the
\* sender fail.
THEOREM TrueTicks == Spec => []TicksTruthful
  <1>1. Init => BackTruthful /\ TicksTruthful
    BY NoneAssumption DEF Init, BackTruthful, TicksTruthful
  <1>2. TypeOK /\ TypeOK' /\ (BackTruthful /\ TicksTruthful) /\ [Next]_vars
          => (BackTruthful /\ TicksTruthful)'
    BY TicksStep
  <1> QED BY <1>1, <1>2, TypeCorrect, PTL DEF Spec

-----------------------------------------------------------------------------
(* The outbox                                                              *)

LEMMA OutboxStep ==
  TypeOK /\ QueuedSent /\ OutboxUnanswered /\ [Next]_vars
    => QueuedSent' /\ OutboxUnanswered'
  <1> SUFFICES ASSUME TypeOK, QueuedSent, OutboxUnanswered, [Next]_vars
               PROVE  QueuedSent' /\ OutboxUnanswered'
    OBVIOUS
  <1>1. CASE UNCHANGED <<op, messages, outbox>>
    BY <1>1 DEF QueuedSent, OutboxUnanswered, At
  <1>2. CASE UNCHANGED <<messages, outbox>> /\ ~At("queue")'
    BY <1>2 DEF QueuedSent, OutboxUnanswered
  <1>3. CASE AddRow
    <2>1. op \in Send /\ op.id \in Text
      BY <1>3 DEF AddRow, At, TypeOK
    <2>2. op' = [op EXCEPT !.step = "queue", !.todo = Devices] /\ op'.id = op.id
      BY <1>3, <2>1 DEF AddRow, Send
    <2>3. messages' = [messages EXCEPT ![op.id] = "sent"] /\ UNCHANGED outbox
      BY <1>3 DEF AddRow
    <2>4. messages'[op.id] = "sent" /\ \A t \in Text : messages[t] = "sent" => messages'[t] = "sent"
      BY <2>1, <2>3 DEF TypeOK
    <2>5. \A r \in outbox : r.id \in Text
      BY DEF TypeOK, OutboxRow
    <2> QED BY <2>2, <2>3, <2>4, <2>5 DEF QueuedSent, OutboxUnanswered
  <1>4. CASE QueueRow
    <2>1. op \in Send /\ At("queue")
      BY <1>4 DEF QueueRow, At, TypeOK
    <2>2. op'.id = op.id /\ UNCHANGED messages
      BY <1>4, <2>1 DEF QueueRow, Send
    <2>3. \A r \in outbox' : r \in outbox \/ r.id = op.id
      BY <1>4 DEF QueueRow
    <2> QED BY <2>1, <2>2, <2>3 DEF QueuedSent, OutboxUnanswered
  <1>5. CASE FlushOutbox
    <2>1. UNCHANGED <<op, messages>>
      BY <1>5 DEF FlushOutbox
    <2>2. PICK done \in SUBSET Unsent :
            outbox' = (outbox \ done) \cup {[r EXCEPT !.seq = 1] : r \in done}
      BY <1>5 DEF FlushOutbox
    <2>3. ASSUME NEW r \in outbox' PROVE \E q \in outbox : r.id = q.id
      <3>1. CASE r \in outbox
        BY <3>1
      <3>2. CASE r \notin outbox
        <4>1. PICK q \in done : r = [q EXCEPT !.seq = 1]
          BY <2>2, <3>2
        <4>2. q \in outbox /\ q \in OutboxRow
          BY <2>2 DEF Unsent, TypeOK
        <4>3. r.id = q.id
          BY <4>1, <4>2 DEF OutboxRow
        <4> QED BY <4>2, <4>3
      <3> QED BY <3>1, <3>2
    <2> QED BY <2>1, <2>3 DEF QueuedSent, OutboxUnanswered, At
  <1>6. ASSUME NEW d \in Device, TakeReceipt(d) PROVE QueuedSent' /\ OutboxUnanswered'
    <2> DEFINE n == Head(back[d])
    <2>1. back[d] \in Seq(Notice) /\ back[d] # <<>>
      BY <1>6 DEF TakeReceipt, TypeOK
    <2>2. n.of \in Text
      <3>1. n \in Notice
        BY <2>1
      <3> QED BY <3>1 DEF Notice
    <2>3. \A t \in Text : t # n.of => messages'[t] = messages[t]
      BY <1>6, <2>2 DEF TakeReceipt, TypeOK
    <2>4. \A r \in outbox' : r \in outbox /\ r.id # n.of /\ r.id \in Text
      BY <1>6 DEF TakeReceipt, Answered, TypeOK, OutboxRow
    <2>5. op' = None
      BY <1>6 DEF TakeReceipt
    <2> QED BY <2>3, <2>4, <2>5 DEF QueuedSent, OutboxUnanswered, At
  <1>7. ASSUME NEW id \in Id, Start(id) PROVE UNCHANGED <<messages, outbox>> /\ ~At("queue")'
    BY <1>7 DEF Start, At, store
  <1>8. CASE SendCopy
    <2>1. op \in Send /\ op.step = "copies"
      BY <1>8 DEF SendCopy, At, TypeOK
    <2>2. op'.step = "copies" /\ UNCHANGED <<messages, outbox>>
      BY <1>8, <2>1 DEF SendCopy, Send, store
    <2> QED BY <1>2, <2>2 DEF At
  <1>9. CASE SaveState
    <2>1. op \in Send
      BY <1>9 DEF SaveState, At, TypeOK
    <2>2. (op' = None \/ op'.step = "row") /\ UNCHANGED <<messages, outbox>>
      BY <1>9, <2>1 DEF SaveState, Send
    <2> QED BY <1>2, <2>2 DEF At
  <1>10. CASE PutFails \/ AnswerLost \/ Return \/ Crash
    BY <1>2, <1>10 DEF PutFails, AnswerLost, Return, Crash, At, store
  <1>11. ASSUME NEW d \in Device,
                \/ RelayLoses(d) \/ Repeat(d) \/ Receive(d) \/ Refuse(d)
                \/ EndsBeforeSave(d) \/ EndsBeforeStore(d)
                \/ \E k \in Opk \cup {None} : OtherSession(d, k)
                \/ \E t \in Text : MarkRead(d, t)
         PROVE  UNCHANGED <<op, messages, outbox>>
    BY <1>11 DEF RelayLoses, Repeat, Receive, Refuse, EndsBeforeSave, EndsBeforeStore,
                 OtherSession, MarkRead, store
  <1>12. CASE Next
    BY <1>1, <1>2, <1>3, <1>4, <1>5, <1>6, <1>7, <1>8, <1>9, <1>10, <1>11, <1>12 DEF Next
  <1> QED BY <1>1, <1>12 DEF vars

\* Every outbox row is for a recorded message that no receipt has come for.
THEOREM OutboxOpen == Spec => []OutboxUnanswered
  <1>1. Init => QueuedSent /\ OutboxUnanswered
    BY DEF Init, QueuedSent, OutboxUnanswered, At
  <1>2. TypeOK /\ (QueuedSent /\ OutboxUnanswered) /\ [Next]_vars
          => (QueuedSent /\ OutboxUnanswered)'
    BY OutboxStep
  <1> QED BY <1>1, <1>2, TypeCorrect, PTL DEF Spec

-----------------------------------------------------------------------------
(* What is recorded as sent reaches every device                           *)

\* A message is where SentReachesAll wants it, for one device.
Waiting(d, id) == \E i \in DOMAIN mailbox[d] : mailbox[d][i].id = id
Lost(d, id) ==
    \/ \E c \in dropped : c.device = d /\ c.envelope.id = id
    \/ KeyShared(d, id)
    \/ id \in cut[d]
    \/ PrekeyGone(d, id)
Reached(d, id) == id \in opened[d] \/ Waiting(d, id) \/ Lost(d, id)

\* The command under way has reached every device it is past.
OpReaches ==
    op # None =>
        \A d \in Device :
            \/ Reached(d, op.id)
            \/ op.step = "copies" /\ \E i \in DOMAIN op.todo : op.todo[i] = d

\* What waits was sealed.
Sealed ==
    \A d \in Device : \A i \in DOMAIN mailbox[d] :
        [device |-> d, envelope |-> mailbox[d][i]] \in sealed

\* A number that the session of a device has consumed was sealed for an id that
\* the device opened, whether or not it lived to store it.
Consumed ==
    \A d \in Device :
        inbound[d] # None => \A n \in inbound[d].numbers :
            \E c \in sealed :
                /\ c.device = d /\ c.envelope.sid = inbound[d].sid /\ c.envelope.n = n
                /\ c.envelope.id \in opened[d] \cup cut[d]

\* A session of ours that used up a prekey is the one the device has, or one that
\* it has left.
Taken ==
    \A d \in Device, k \in Opk :
        used[d][k] \in Id =>
            \/ used[d][k] \in left[d]
            \/ inbound[d] # None /\ inbound[d].sid = used[d][k]

ReachInv == Sealed /\ Consumed /\ Taken /\ SentReachesAll /\ OpReaches

\* What the histories and the stores of the devices never lose.
Grows ==
    /\ sealed \subseteq sealed' /\ dropped \subseteq dropped'
    /\ \A d \in Device :
          /\ opened[d] \subseteq opened'[d] /\ left[d] \subseteq left'[d] /\ cut[d] \subseteq cut'[d]
          /\ \A k \in Opk : used[d][k] # None => used'[d][k] = used[d][k]

LEMMA Marked == Spec => [](TypeOK /\ AllMarked)
  <1>1. Init => TypeOK /\ AllMarked
    BY InitType
  <1>2. TypeOK /\ AllMarked /\ [Next]_vars => (TypeOK /\ AllMarked)'
    BY TypeStep
  <1> QED BY <1>1, <1>2, PTL DEF Spec

\* The positions of a queue whose head is taken, and of one that grows.
LEMMA TailPositions ==
  ASSUME NEW q \in Seq(Envelope), q # <<>>
  PROVE  /\ 1 \in DOMAIN q /\ Head(q) = q[1]
         /\ \A i \in DOMAIN Tail(q) : i \in Nat /\ i + 1 \in DOMAIN q /\ Tail(q)[i] = q[i + 1]
         /\ \A i \in DOMAIN q : i = 1 \/ \E j \in DOMAIN Tail(q) : Tail(q)[j] = q[i]
  <1>1. Len(q) \in Nat /\ Len(q) >= 1 /\ DOMAIN q = 1..Len(q) /\ DOMAIN Tail(q) = 1..Len(q) - 1
    BY EmptySeq
  <1>2. \A i \in 1..Len(q) - 1 : Tail(q)[i] = q[i + 1]
    OBVIOUS
  <1>3. \A i \in DOMAIN q : i = 1 \/ (i - 1 \in DOMAIN Tail(q) /\ Tail(q)[i - 1] = q[i])
    BY <1>1, <1>2
  <1> QED BY <1>1, <1>2, <1>3

LEMMA AppendPositions ==
  ASSUME NEW q \in Seq(Envelope), NEW e \in Envelope
  PROVE  LET r == Append(q, e) IN
         /\ DOMAIN q \subseteq DOMAIN r /\ \A i \in DOMAIN q : r[i] = q[i]
         /\ Len(q) + 1 \in DOMAIN r /\ r[Len(q) + 1] = e
         /\ \A i \in DOMAIN r : i \in DOMAIN q \/ i = Len(q) + 1
         /\ \A i \in DOMAIN q : i \in Nat /\ i < Len(q) + 1
         /\ DOMAIN r \subseteq Nat
  <1>1. Len(q) \in Nat /\ DOMAIN q = 1..Len(q) /\ DOMAIN Append(q, e) = 1..Len(q) + 1
    OBVIOUS
  <1>2. \A i \in 1..Len(q) : Append(q, e)[i] = q[i]
    OBVIOUS
  <1>3. Append(q, e)[Len(q) + 1] = e
    OBVIOUS
  <1> QED BY <1>1, <1>2, <1>3

\* What is lost stays lost, and what has been reached stays reached if what waits
\* for a device does.
LEMMA ReachedStays ==
  ASSUME TypeOK, Grows, NEW d \in Device, NEW id, Waiting(d, id) => Reached(d, id)', Reached(d, id)
  PROVE  Reached(d, id)'
  <1>1. KeyShared(d, id) => KeyShared(d, id)'
    BY DEF KeyShared, Grows
  <1>2. ASSUME PrekeyGone(d, id) PROVE PrekeyGone(d, id)'
    <2> PICK c \in sealed :
          /\ c.device = d /\ c.envelope.id = id /\ c.envelope.opk # None
          /\ used[d][c.envelope.opk] # None
          /\ used[d][c.envelope.opk] = c.envelope.sid => c.envelope.sid \in left[d]
      BY <1>2 DEF PrekeyGone
    <2>1. c.envelope.opk \in Opk
      BY DEF TypeOK, Copy, Envelope
    <2>2. c \in sealed' /\ used'[d][c.envelope.opk] = used[d][c.envelope.opk]
          /\ left[d] \subseteq left'[d]
      BY <2>1 DEF Grows
    <2> QED BY <2>2 DEF PrekeyGone
  <1>3. Lost(d, id) => Lost(d, id)'
    BY <1>1, <1>2 DEF Lost, Grows
  <1> QED BY <1>3 DEF Reached, Grows

\* An envelope that device d refuses was opened there before, or is lost.
LEMMA RefusedLost ==
  ASSUME TypeOK, Consumed, Taken, NEW d \in Device, NEW e \in Envelope,
         [device |-> d, envelope |-> e] \in sealed, ~Readable(d, e)
  PROVE  e.id \in opened[d] \/ Lost(d, e.id)
  <1> DEFINE a == [device |-> d, envelope |-> e]
  <1>1. a \in sealed /\ a.device = d /\ a.envelope = e
    OBVIOUS
  <1> HIDE DEF a
  <1>2. CASE Known(d, e)
    <2>1. inbound[d] # None /\ inbound[d].sid = e.sid /\ e.n \in inbound[d].numbers
      BY <1>2 DEF Readable, Known
    <2>2. PICK c \in sealed : /\ c.device = d /\ c.envelope.sid = inbound[d].sid
                              /\ c.envelope.n = e.n /\ c.envelope.id \in opened[d] \cup cut[d]
      BY <2>1 DEF Consumed
    <2>3. CASE c.envelope.id = e.id
      BY <2>2, <2>3 DEF Lost
    <2>4. CASE c.envelope.id # e.id
      <3>1. KeyShared(d, e.id)
        BY <1>1, <2>1, <2>2, <2>4 DEF KeyShared
      <3> QED BY <3>1 DEF Lost
    <2> QED BY <2>3, <2>4
  <1>3. CASE ~Known(d, e)
    <2>1. e.opk # None /\ used[d][e.opk] # None
      BY <1>3 DEF Readable
    <2>2. e.opk \in Opk /\ e.sid \in Id
      BY <2>1 DEF Envelope
    <2>3. used[d][e.opk] = e.sid => e.sid \in left[d]
      BY <1>3, <2>2 DEF Taken, Known
    <2>4. PrekeyGone(d, e.id)
      BY <1>1, <2>1, <2>3 DEF PrekeyGone
    <2> QED BY <2>4 DEF Lost
  <1> QED BY <1>2, <1>3

LEMMA ReachKept ==
  ASSUME SentReachesAll, OpReaches,
         \A d \in Device : \A id : Reached(d, id) => Reached(d, id)',
         \A t \in Text : messages'[t] # None => messages[t] # None,
         op' # None => op # None /\ op'.id = op.id /\ op'.step = op.step /\ op'.todo = op.todo
  PROVE  SentReachesAll' /\ OpReaches'
  <1>1. \A t \in Text, d \in Device : messages[t] # None => Reached(d, t)
    BY DEF SentReachesAll, Reached, Waiting, Lost
  <1>2. \A t \in Text, d \in Device : messages'[t] # None => Reached(d, t)'
    BY <1>1
  <1>3. SentReachesAll'
    BY <1>2 DEF SentReachesAll, Reached, Waiting, Lost, KeyShared, PrekeyGone
  <1>4. ASSUME op' # None, NEW d \in Device
        PROVE  \E id : /\ id = op'.id
                       /\ \/ Reached(d, id)'
                          \/ op'.step = "copies" /\ \E i \in DOMAIN op'.todo : op'.todo[i] = d
    <2>1. \/ Reached(d, op.id)
          \/ op.step = "copies" /\ \E i \in DOMAIN op.todo : op.todo[i] = d
      BY <1>4 DEF OpReaches
    <2> QED BY <1>4, <2>1
  <1>5. OpReaches'
    BY <1>4 DEF OpReaches, Reached, Waiting, Lost, KeyShared, PrekeyGone
  <1> QED BY <1>3, <1>5

\* Nothing a device or a relay holds changes.
LEMMA ReachIdle ==
  ASSUME TypeOK, UNCHANGED <<mailbox, sealed, opened, dropped, inbound, used, left, cut>>
  PROVE  /\ \A d \in Device : \A id : Reached(d, id) => Reached(d, id)'
         /\ Sealed => Sealed'
         /\ Consumed => Consumed'
         /\ Taken => Taken'
  <1>1. \A d \in Device : \A id : Reached(d, id) => Reached(d, id)'
    BY DEF Reached, Waiting, Lost, KeyShared, PrekeyGone
  <1>2. Sealed => Sealed'
    BY DEF Sealed
  <1>3. Consumed => Consumed'
    BY DEF Consumed
  <1>4. Taken => Taken'
    BY DEF Taken
  <1> QED BY <1>1, <1>2, <1>3, <1>4

\* A copy of a sealed envelope is put into the mailbox of device d.
LEMMA ReachPut ==
  ASSUME TypeOK, NEW d \in Device, NEW e \in Envelope, Sealed, Consumed, Taken,
         mailbox' = [mailbox EXCEPT ![d] = Append(mailbox[d], e)],
         [device |-> d, envelope |-> e] \in sealed', sealed \subseteq sealed',
         UNCHANGED <<opened, dropped, inbound, used, left, cut>>
  PROVE  /\ \A c \in Device : \A id : Reached(c, id) => Reached(c, id)'
         /\ Reached(d, e.id)'
         /\ Sealed' /\ Consumed' /\ Taken'
  <1> DEFINE q == mailbox[d]
             r == Append(q, e)
  <1>1. q \in Seq(Envelope) /\ Grows
    BY DEF TypeOK, Grows
  <1>2. \A c \in Device : mailbox'[c] = IF c = d THEN r ELSE mailbox[c]
    BY DEF TypeOK
  <1>3. /\ DOMAIN q \subseteq DOMAIN r /\ \A i \in DOMAIN q : r[i] = q[i]
        /\ Len(q) + 1 \in DOMAIN r /\ r[Len(q) + 1] = e
        /\ \A i \in DOMAIN r : i \in DOMAIN q \/ i = Len(q) + 1
    BY <1>1, AppendPositions
  <1> HIDE DEF r
  <1>4. ASSUME NEW c \in Device, NEW id, Waiting(c, id) PROVE Waiting(c, id)'
    <2>1. PICK i \in DOMAIN mailbox[c] : mailbox[c][i].id = id
      BY <1>4 DEF Waiting
    <2>2. i \in DOMAIN mailbox'[c] /\ mailbox'[c][i] = mailbox[c][i]
      <3>1. CASE c # d
        BY <1>2, <3>1
      <3>2. CASE c = d
        BY <1>2, <1>3, <3>2
      <3> QED BY <3>1, <3>2
    <2> QED BY <2>1, <2>2 DEF Waiting
  <1>5. ASSUME NEW c \in Device, NEW id, Reached(c, id) PROVE Reached(c, id)'
    <2>1. Waiting(c, id) => Reached(c, id)'
      BY <1>4 DEF Reached
    <2> QED BY <1>1, <1>5, <2>1, ReachedStays
  <1>6. Waiting(d, e.id)'
    <2>1. Len(q) + 1 \in DOMAIN mailbox'[d] /\ mailbox'[d][Len(q) + 1].id = e.id
      BY <1>2, <1>3
    <2> QED BY <2>1 DEF Waiting
  <1>7. Sealed'
    <2> SUFFICES ASSUME NEW c \in Device, NEW i \in DOMAIN mailbox'[c]
                 PROVE  [device |-> c, envelope |-> mailbox'[c][i]] \in sealed'
      BY DEF Sealed
    <2>1. CASE c # d
      BY <1>2, <2>1 DEF Sealed
    <2>2. CASE c = d
      BY <1>2, <1>3, <2>2 DEF Sealed
    <2> QED BY <2>1, <2>2
  <1>8. Consumed'
    BY DEF Consumed
  <1>9. Taken'
    BY DEF Taken
  <1>10. Reached(d, e.id)'
    BY <1>6 DEF Reached
  <1> QED BY <1>5, <1>7, <1>8, <1>9, <1>10

\* Using up the prekey of an envelope that device d can read.
LEMMA ConsumeGrows ==
  ASSUME TypeOK, NEW d \in Device, NEW e \in Envelope, Readable(d, e), ConsumeOpk(d, e)
  PROVE  \A c \in Device, k \in Opk :
            \/ used'[c][k] = used[c][k]
            \/ c = d /\ used[c][k] = None /\ used'[c][k] = e.sid /\ ~Known(d, e)
  <1>1. CASE ~Known(d, e) /\ e.opk # None
    <2>1. e.opk \in Opk /\ used[d][e.opk] = None
      BY <1>1 DEF Envelope, Readable
    <2>2. used' = [used EXCEPT ![d][e.opk] = e.sid]
      BY <1>1 DEF ConsumeOpk
    <2> QED BY <1>1, <2>1, <2>2 DEF TypeOK
  <1>2. CASE ~(~Known(d, e) /\ e.opk # None)
    BY <1>2 DEF ConsumeOpk
  <1> QED BY <1>1, <1>2

\* Device d uses up the prekey and saves the session of an envelope.
LEMMA SaveKeeps ==
  ASSUME TypeOK, Consumed, Taken, NEW d \in Device, NEW e \in Envelope,
         [device |-> d, envelope |-> e] \in sealed, Readable(d, e),
         ConsumeOpk(d, e), SaveInbound(d, e), UNCHANGED sealed,
         \A c \in Device : opened[c] \subseteq opened'[c] /\ cut[c] \subseteq cut'[c],
         e.id \in opened'[d] \cup cut'[d]
  PROVE  /\ Consumed' /\ Taken'
         /\ \A c \in Device : left[c] \subseteq left'[c]
         /\ \A c \in Device, k \in Opk : used[c][k] # None => used'[c][k] = used[c][k]
  <1> DEFINE numbers == IF Known(d, e) THEN inbound[d].numbers \cup {e.n} ELSE {e.n}
  <1>1. inbound' = [inbound EXCEPT ![d] = [sid |-> e.sid, numbers |-> numbers]]
    BY DEF SaveInbound
  <1>2. inbound'[d].sid = e.sid /\ inbound'[d].numbers = numbers
    BY <1>1 DEF TypeOK
  <1>3. \A c \in Device : c # d => inbound'[c] = inbound[c]
    BY <1>1 DEF TypeOK
  <1>4. inbound'[d] # None
    <2>1. e.sid \in Id /\ e.n \in Nat
      BY DEF Envelope
    <2>2. numbers \in SUBSET Nat
      BY <2>1 DEF TypeOK, Inbound, Known
    <2>3. inbound'[d] \in Inbound
      <3> HIDE DEF numbers
      <3> QED BY <1>1, <2>1, <2>2 DEF TypeOK, Inbound
    <2> QED BY <2>3, NoneAssumption
  <1> DEFINE a == [device |-> d, envelope |-> e]
  <1>5. a \in sealed /\ a.device = d /\ a.envelope = e
    OBVIOUS
  <1>6. \A n \in numbers : n = e.n \/ (Known(d, e) /\ n \in inbound[d].numbers)
    OBVIOUS
  <1> HIDE DEF numbers, a
  <1>7. Consumed'
    <2> SUFFICES ASSUME NEW c \in Device, inbound'[c] # None, NEW n \in inbound'[c].numbers
                 PROVE  \E b \in sealed' :
                          /\ b.device = c /\ b.envelope.sid = inbound'[c].sid /\ b.envelope.n = n
                          /\ b.envelope.id \in opened'[c] \cup cut'[c]
      BY DEF Consumed
    <2>1. CASE c # d
      <3>1. PICK b \in sealed :
              /\ b.device = c /\ b.envelope.sid = inbound[c].sid /\ b.envelope.n = n
              /\ b.envelope.id \in opened[c] \cup cut[c]
        BY <1>3, <2>1 DEF Consumed
      <3> QED BY <1>3, <2>1, <3>1
    <2>2. CASE c = d /\ n = e.n
      BY <1>2, <1>5, <2>2
    <2>3. CASE c = d /\ Known(d, e) /\ n \in inbound[d].numbers
      <3>1. inbound[d] # None /\ inbound[d].sid = e.sid
        BY <2>3 DEF Known
      <3>2. PICK b \in sealed :
              /\ b.device = d /\ b.envelope.sid = inbound[d].sid /\ b.envelope.n = n
              /\ b.envelope.id \in opened[d] \cup cut[d]
        BY <2>3, <3>1 DEF Consumed
      <3> QED BY <1>2, <2>3, <3>1, <3>2
    <2> QED BY <1>2, <1>6, <2>1, <2>2, <2>3
  <1>8. \A c \in Device : left[c] \subseteq left'[c]
    BY DEF SaveInbound, TypeOK
  <1>9. \A c \in Device, k \in Opk :
            \/ used'[c][k] = used[c][k]
            \/ c = d /\ used[c][k] = None /\ used'[c][k] = e.sid /\ ~Known(d, e)
    BY ConsumeGrows
  <1>10. Taken'
    <2> SUFFICES ASSUME NEW c \in Device, NEW k \in Opk, used'[c][k] \in Id
                 PROVE  \/ used'[c][k] \in left'[c]
                        \/ inbound'[c] # None /\ inbound'[c].sid = used'[c][k]
      BY DEF Taken
    <2>1. CASE used'[c][k] # used[c][k]
      BY <1>2, <1>4, <1>9, <2>1
    <2>2. CASE used'[c][k] = used[c][k] /\ c # d
      BY <1>3, <1>8, <2>2 DEF Taken
    <2>3. CASE used'[c][k] = used[c][k] /\ c = d
      <3>1. CASE used[d][k] \in left[d]
        BY <1>8, <2>3, <3>1
      <3>2. CASE inbound[d] # None /\ inbound[d].sid = used[d][k] /\ Known(d, e)
        BY <1>2, <1>4, <2>3, <3>2 DEF Known
      <3>3. CASE inbound[d] # None /\ inbound[d].sid = used[d][k] /\ ~Known(d, e)
        <4>1. left' = [left EXCEPT ![d] = left[d] \cup {inbound[d].sid}]
          BY <3>3 DEF SaveInbound
        <4>2. inbound[d].sid \in left'[d]
          BY <4>1 DEF TypeOK
        <4> QED BY <2>3, <3>3, <4>2
      <3> QED BY <2>3, <3>1, <3>2, <3>3 DEF Taken
    <2> QED BY <2>1, <2>2, <2>3
  <1> QED BY <1>7, <1>8, <1>9, <1>10

\* The head of the mailbox of device d is taken, and everything else stays.
LEMMA HeadLeaves ==
  ASSUME TypeOK, Sealed, NEW d \in Device, mailbox[d] # <<>>,
         mailbox' = [mailbox EXCEPT ![d] = Tail(mailbox[d])], UNCHANGED sealed
  PROVE  /\ \A c \in Device : \A x : Waiting(c, x) => Waiting(c, x)' \/ (c = d /\ x = Head(mailbox[d]).id)
         /\ Sealed'
         /\ [device |-> d, envelope |-> Head(mailbox[d])] \in sealed
  <1> DEFINE q == mailbox[d]
  <1>1. q \in Seq(Envelope)
    BY DEF TypeOK
  <1>2. /\ 1 \in DOMAIN q /\ Head(q) = q[1]
        /\ \A i \in DOMAIN Tail(q) : i \in Nat /\ i + 1 \in DOMAIN q /\ Tail(q)[i] = q[i + 1]
        /\ \A i \in DOMAIN q : i = 1 \/ \E j \in DOMAIN Tail(q) : Tail(q)[j] = q[i]
    BY <1>1, TailPositions
  <1>3. \A c \in Device : mailbox'[c] = IF c = d THEN Tail(q) ELSE mailbox[c]
    BY DEF TypeOK
  <1>4. ASSUME NEW c \in Device, NEW x, Waiting(c, x)
        PROVE  Waiting(c, x)' \/ (c = d /\ x = Head(q).id)
    <2>1. PICK i \in DOMAIN mailbox[c] : mailbox[c][i].id = x
      BY <1>4 DEF Waiting
    <2>2. CASE c # d
      BY <1>3, <2>1, <2>2 DEF Waiting
    <2>3. CASE c = d /\ i # 1
      <3>1. PICK j \in DOMAIN Tail(q) : Tail(q)[j] = q[i]
        BY <1>2, <2>1, <2>3
      <3>2. j \in DOMAIN mailbox'[c] /\ mailbox'[c][j].id = x
        BY <1>3, <2>1, <2>3, <3>1
      <3> QED BY <3>2 DEF Waiting
    <2>4. CASE c = d /\ i = 1
      BY <1>2, <2>1, <2>4
    <2> QED BY <2>2, <2>3, <2>4
  <1>5. Sealed'
    <2> SUFFICES ASSUME NEW c \in Device, NEW i \in DOMAIN mailbox'[c]
                 PROVE  [device |-> c, envelope |-> mailbox'[c][i]] \in sealed'
      BY DEF Sealed
    <2>1. CASE c # d
      BY <1>3, <2>1 DEF Sealed
    <2>2. CASE c = d
      <3>1. i \in DOMAIN Tail(q) /\ mailbox'[c][i] = q[i + 1] /\ i + 1 \in DOMAIN q
        BY <1>2, <1>3, <2>2
      <3> QED BY <2>2, <3>1 DEF Sealed
    <2> QED BY <2>1, <2>2
  <1>6. [device |-> d, envelope |-> Head(q)] \in sealed
    BY <1>2 DEF Sealed
  <1> QED BY <1>4, <1>5, <1>6

\* The relays lose an envelope, or a device handles one.
LEMMA ReachHead ==
  ASSUME TypeOK, ReachInv, NEW d \in Device, RelayLoses(d) \/ Receive(d) \/ Refuse(d)
  PROVE  ReachInv'
  <1>1. /\ mailbox[d] # <<>> /\ mailbox' = [mailbox EXCEPT ![d] = Tail(mailbox[d])]
        /\ UNCHANGED <<messages, op, sealed>>
    BY DEF RelayLoses, Receive, Refuse, store
  <1>2. Sealed /\ Consumed /\ Taken /\ SentReachesAll /\ OpReaches
    BY DEF ReachInv
  <1> PICK e \in Envelope : e = Head(mailbox[d])
    BY <1>1, HeadType
  <1>3. /\ \A c \in Device : \A x : Waiting(c, x) => Waiting(c, x)' \/ (c = d /\ x = e.id)
        /\ Sealed'
        /\ [device |-> d, envelope |-> e] \in sealed
    BY <1>1, <1>2, HeadLeaves
  <1>4. Consumed' /\ Taken' /\ Grows /\ Reached(d, e.id)'
    <2>1. CASE RelayLoses(d)
      <3>1. UNCHANGED <<inbound, used, opened, left, cut>>
            /\ dropped' = dropped \cup {[device |-> d, envelope |-> e]}
        BY <2>1 DEF RelayLoses, peer
      <3>2. Reached(d, e.id)'
        <4>1. [device |-> d, envelope |-> e] \in dropped'
          BY <3>1
        <4> QED BY <4>1 DEF Reached, Lost
      <3>3. Consumed' /\ Taken' /\ Grows
        BY <1>1, <1>2, <3>1 DEF Consumed, Taken, Grows
      <3> QED BY <3>2, <3>3
    <2>2. CASE Receive(d)
      <3>1. /\ opened' = [opened EXCEPT ![d] = opened[d] \cup {e.id}] /\ UNCHANGED <<dropped, cut>>
            /\ Readable(d, e) /\ ConsumeOpk(d, e) /\ SaveInbound(d, e)
        BY <2>2 DEF Receive
      <3>2. (\A c \in Device : opened[c] \subseteq opened'[c]) /\ e.id \in opened'[d]
        BY <3>1 DEF TypeOK
      <3>3. /\ Consumed' /\ Taken'
            /\ \A c \in Device : left[c] \subseteq left'[c]
            /\ \A c \in Device, k \in Opk : used[c][k] # None => used'[c][k] = used[c][k]
        BY <1>1, <1>2, <1>3, <3>1, <3>2, SaveKeeps
      <3>4. Grows
        BY <1>1, <3>1, <3>2, <3>3 DEF Grows
      <3> QED BY <3>2, <3>3, <3>4 DEF Reached
    <2>3. CASE Refuse(d)
      <3>1. UNCHANGED <<inbound, used, opened, left, cut, dropped>> /\ ~Readable(d, e)
        BY <2>3 DEF Refuse, peer
      <3>2. e.id \in opened[d] \/ Lost(d, e.id)
        BY <1>2, <1>3, <3>1, RefusedLost
      <3>3. Consumed' /\ Taken' /\ Grows
        BY <1>1, <1>2, <3>1 DEF Consumed, Taken, Grows
      <3>4. Reached(d, e.id)'
        BY <1>1, <3>1, <3>2 DEF Reached, Lost, KeyShared, PrekeyGone
      <3> QED BY <3>3, <3>4
    <2> QED BY <2>1, <2>2, <2>3
  <1>5. ASSUME NEW c \in Device, NEW id, Reached(c, id) PROVE Reached(c, id)'
    <2>1. Waiting(c, id) => Reached(c, id)'
      <3>1. Waiting(c, id)' => Reached(c, id)'
        BY DEF Reached
      <3> QED BY <1>3, <1>4, <3>1
    <2> QED BY <1>4, <1>5, <2>1, ReachedStays
  <1>6. SentReachesAll' /\ OpReaches'
    BY <1>1, <1>2, <1>5, ReachKept
  <1> QED BY <1>3, <1>4, <1>6 DEF ReachInv

\* A copy comes again, the process of a device ends, or another session begins.
LEMMA ReachFault ==
  ASSUME TypeOK, ReachInv, NEW d \in Device,
         \/ Repeat(d) \/ EndsBeforeSave(d) \/ EndsBeforeStore(d)
         \/ \E k \in Opk \cup {None} : OtherSession(d, k)
  PROVE  ReachInv'
  <1>1. UNCHANGED <<messages, op, sealed, dropped, opened>>
    BY DEF Repeat, EndsBeforeSave, EndsBeforeStore, OtherSession, store, peer
  <1>2. Sealed /\ Consumed /\ Taken /\ SentReachesAll /\ OpReaches
    BY DEF ReachInv
  <1>3. CASE Repeat(d)
    <2> PICK c \in sealed :
          c.device = d /\ mailbox' = [mailbox EXCEPT ![d] = Append(mailbox[d], c.envelope)]
      BY <1>3 DEF Repeat
    <2>1. c \in Copy
      BY DEF TypeOK
    <2> PICK e \in Envelope : e = c.envelope
      BY <2>1 DEF Copy
    <2>2. [device |-> d, envelope |-> e] \in sealed'
      BY <1>1, <2>1 DEF Copy
    <2>3. UNCHANGED <<inbound, used, left, cut>>
      BY <1>3 DEF Repeat, peer
    <2>4. /\ \A b \in Device : \A id : Reached(b, id) => Reached(b, id)'
          /\ Sealed' /\ Consumed' /\ Taken'
      BY <1>1, <1>2, <2>2, <2>3, ReachPut
    <2>5. SentReachesAll' /\ OpReaches'
      BY <1>1, <1>2, <2>4, ReachKept
    <2> QED BY <2>4, <2>5 DEF ReachInv
  <1>4. ASSUME UNCHANGED mailbox, Consumed', Taken', Grows PROVE ReachInv'
    <2>1. Sealed'
      BY <1>1, <1>2, <1>4 DEF Sealed
    <2>2. ASSUME NEW c \in Device, NEW id, Reached(c, id) PROVE Reached(c, id)'
      <3>1. Waiting(c, id) => Reached(c, id)'
        BY <1>4 DEF Waiting, Reached
      <3> QED BY <1>4, <2>2, <3>1, ReachedStays
    <2>3. SentReachesAll' /\ OpReaches'
      BY <1>1, <1>2, <2>2, ReachKept
    <2> QED BY <1>4, <2>1, <2>3 DEF ReachInv
  <1>5. CASE EndsBeforeSave(d)
    <2>1. mailbox[d] # <<>>
      BY <1>5 DEF EndsBeforeSave
    <2> PICK e \in Envelope : e = Head(mailbox[d])
      BY <2>1, HeadType
    <2>2. /\ Readable(d, e) /\ ConsumeOpk(d, e) /\ left' = [left EXCEPT ![d] = left[d] \cup {e.sid}]
          /\ UNCHANGED <<mailbox, inbound, cut>>
      BY <1>5 DEF EndsBeforeSave
    <2>3. \A c \in Device, k \in Opk :
            \/ used'[c][k] = used[c][k]
            \/ c = d /\ used[c][k] = None /\ used'[c][k] = e.sid /\ ~Known(d, e)
      BY <2>2, ConsumeGrows
    <2>4. (\A c \in Device : left[c] \subseteq left'[c]) /\ e.sid \in left'[d]
      BY <2>2 DEF TypeOK
    <2>5. Taken'
      BY <1>2, <2>2, <2>3, <2>4 DEF Taken
    <2>6. Consumed'
      BY <1>1, <1>2, <2>2 DEF Consumed
    <2>7. Grows
      BY <1>1, <2>2, <2>3, <2>4 DEF Grows
    <2> QED BY <1>4, <2>2, <2>5, <2>6, <2>7
  <1>6. CASE EndsBeforeStore(d)
    <2>1. mailbox[d] # <<>>
      BY <1>6 DEF EndsBeforeStore
    <2> PICK e \in Envelope : e = Head(mailbox[d])
      BY <2>1, HeadType
    <2>2. /\ Readable(d, e) /\ ConsumeOpk(d, e) /\ SaveInbound(d, e)
          /\ cut' = [cut EXCEPT ![d] = cut[d] \cup {e.id}] /\ UNCHANGED mailbox
      BY <1>6 DEF EndsBeforeStore
    <2>3. (\A c \in Device : cut[c] \subseteq cut'[c]) /\ e.id \in cut'[d]
      BY <2>2 DEF TypeOK
    <2>4. [device |-> d, envelope |-> e] \in sealed
      <3>1. mailbox[d] \in Seq(Envelope)
        BY DEF TypeOK
      <3>2. 1 \in DOMAIN mailbox[d] /\ e = mailbox[d][1]
        BY <2>1, <3>1, TailPositions
      <3> QED BY <1>2, <3>2 DEF Sealed
    <2>5. /\ Consumed' /\ Taken'
          /\ \A c \in Device : left[c] \subseteq left'[c]
          /\ \A c \in Device, k \in Opk : used[c][k] # None => used'[c][k] = used[c][k]
      BY <1>1, <1>2, <2>2, <2>3, <2>4, SaveKeeps
    <2>6. Grows
      BY <1>1, <2>3, <2>5 DEF Grows
    <2> QED BY <1>4, <2>2, <2>5, <2>6
  <1>7. ASSUME NEW k \in Opk \cup {None}, OtherSession(d, k) PROVE ReachInv'
    <2>1. UNCHANGED <<mailbox, cut>>
      BY <1>7 DEF OtherSession
    <2>2. \A c \in Device, o \in Opk :
            used'[c][o] = used[c][o] \/ (used[c][o] = None /\ used'[c][o] = Other)
      BY <1>7 DEF OtherSession, TypeOK
    <2> DEFINE Displaced ==
                 /\ inbound[d] # None
                 /\ inbound' = [inbound EXCEPT ![d] = None]
                 /\ left' = [left EXCEPT ![d] = left[d] \cup {inbound[d].sid}]
    <2>3. UNCHANGED <<inbound, left>> \/ Displaced
      BY <1>7 DEF OtherSession
    <2>4. /\ \A c \in Device : left[c] \subseteq left'[c]
          /\ \A c \in Device :
                \/ inbound'[c] = inbound[c]
                \/ inbound[c] # None /\ inbound'[c] = None /\ inbound[c].sid \in left'[c]
      <3>1. CASE Displaced
        <4>1. left'[d] = left[d] \cup {inbound[d].sid} /\ \A c \in Device : c # d => left'[c] = left[c]
          BY <3>1 DEF TypeOK
        <4>2. inbound'[d] = None /\ \A c \in Device : c # d => inbound'[c] = inbound[c]
          BY <3>1 DEF TypeOK
        <4> QED BY <3>1, <4>1, <4>2
      <3> QED BY <2>3, <3>1
    <2> HIDE DEF Displaced
    <2>5. Consumed'
      BY <1>1, <1>2, <2>1, <2>4 DEF Consumed
    <2>6. Taken'
      <3> SUFFICES ASSUME NEW c \in Device, NEW o \in Opk, used'[c][o] \in Id
                   PROVE  \/ used'[c][o] \in left'[c]
                          \/ inbound'[c] # None /\ inbound'[c].sid = used'[c][o]
        BY DEF Taken
      <3>1. used'[c][o] = used[c][o]
        BY <2>2, NamesAssumption
      <3>2. used[c][o] \in left[c] \/ (inbound[c] # None /\ inbound[c].sid = used[c][o])
        BY <1>2, <3>1 DEF Taken
      <3> QED BY <2>4, <3>1, <3>2
    <2>7. Grows
      BY <1>1, <2>1, <2>2, <2>4 DEF Grows
    <2> QED BY <1>4, <2>1, <2>5, <2>6, <2>7
  <1> QED BY <1>3, <1>5, <1>6, <1>7

LEMMA ReachStart ==
  ASSUME TypeOK, ReachInv, NEW id \in Id, Start(id)
  PROVE  ReachInv'
  <1>1. UNCHANGED <<messages, sealed, mailbox, inbound, used, opened, left, cut, dropped>>
    BY DEF Start, store, peer
  <1>2. op'.step = "copies" /\ op'.todo = Devices
    BY DEF Start
  <1>3. Sealed' /\ Consumed' /\ Taken'
    BY <1>1, ReachIdle DEF ReachInv
  <1>4. SentReachesAll'
    BY <1>1 DEF ReachInv, SentReachesAll, KeyShared, PrekeyGone
  <1>5. OpReaches'
    <2>1. \A d \in Device : \E i \in DOMAIN Devices : Devices[i] = d
      BY DEF Device, Range
    <2> QED BY <1>2, <2>1 DEF OpReaches
  <1> QED BY <1>3, <1>4, <1>5 DEF ReachInv

LEMMA ReachSend ==
  ASSUME TypeOK, TypeOK', ReachInv, SendCopy \/ AnswerLost
  PROVE  ReachInv'
  <1> DEFINE d == Head(op.todo)
             e == Seal(op.outbound[d], op.id)
  <1>1. op \in Send /\ op # None /\ op.step = "copies" /\ op.todo # <<>>
    BY DEF SendCopy, AnswerLost, At, TypeOK
  <1>2. d \in Device /\ e \in Envelope /\ e.id = op.id /\ op.todo \in Seq(Device)
        /\ op.outbound \in [Device -> Session]
    BY <1>1, NextCopy, SendFields
  <1>3. /\ mailbox' = [mailbox EXCEPT ![d] = Append(mailbox[d], e)]
        /\ sealed' = sealed \cup {[device |-> d, envelope |-> e]}
    BY DEF SendCopy, AnswerLost, Accepted
  <1>4. UNCHANGED <<messages, inbound, used, opened, left, cut, dropped>>
    BY DEF SendCopy, AnswerLost, store, peer
  <1>5. op' # None => op'.id = op.id /\ op'.step = "copies" /\ op'.todo = Tail(op.todo)
    <2> SUFFICES ASSUME op' # None
                 PROVE  op'.id = op.id /\ op'.step = "copies" /\ op'.todo = Tail(op.todo)
      OBVIOUS
    <2> DEFINE todo == Tail(op.todo)
               outbound == Advanced(op.outbound, d)
    <2>1. op' = [op EXCEPT !.todo = todo, !.outbound = outbound]
      BY DEF SendCopy, AnswerLost
    <2> HIDE DEF todo, outbound
    <2>2. op'.id = op.id /\ op'.step = op.step /\ op'.todo = todo
      BY <1>1, <2>1 DEF Send
    <2> QED BY <1>1, <2>2 DEF todo
  <1> HIDE DEF d, e
  <1> PICK b \in Device, f \in Envelope : b = d /\ f = e
    BY <1>2
  <1>6. /\ \A c \in Device : \A id : Reached(c, id) => Reached(c, id)'
        /\ Reached(b, f.id)'
        /\ Sealed' /\ Consumed' /\ Taken'
    BY <1>3, <1>4, ReachPut DEF ReachInv
  <1>7. SentReachesAll'
    <2>1. \A t \in Text, c \in Device : messages[t] # None => Reached(c, t)
      BY DEF ReachInv, SentReachesAll, Reached, Waiting, Lost
    <2>2. \A t \in Text, c \in Device : messages'[t] # None => Reached(c, t)'
      BY <1>4, <1>6, <2>1
    <2> QED BY <2>2 DEF SentReachesAll, Reached, Waiting, Lost, KeyShared, PrekeyGone
  <1>8. ASSUME op' # None, NEW c \in Device
        PROVE  \E id : /\ id = op'.id
                       /\ \/ Reached(c, id)'
                          \/ op'.step = "copies" /\ \E i \in DOMAIN op'.todo : op'.todo[i] = c
    <2>1. PICK id : id = op.id
      OBVIOUS
    <2>2. CASE Reached(c, id)
      BY <1>5, <1>6, <1>8, <2>1, <2>2
    <2>3. CASE c = d
      <3>1. c = b /\ id = f.id
        BY <1>2, <2>1, <2>3
      <3> QED BY <1>5, <1>6, <1>8, <2>1, <3>1
    <2>4. ASSUME NEW i \in DOMAIN op.todo, op.todo[i] = c, c # d
          PROVE  \E j \in DOMAIN Tail(op.todo) : Tail(op.todo)[j] = c
      <3>1. i \in 1..Len(op.todo) /\ i # 1 /\ Len(op.todo) \in Nat
        BY <1>2, <2>4 DEF d
      <3>2. i - 1 \in 1..Len(op.todo) - 1 /\ (i - 1) + 1 = i
        BY <3>1
      <3>3. DOMAIN Tail(op.todo) = 1..Len(op.todo) - 1
            /\ \A j \in 1..Len(op.todo) - 1 : Tail(op.todo)[j] = op.todo[j + 1]
        BY <1>1, <1>2
      <3> QED BY <2>4, <3>2, <3>3
    <2>5. Reached(c, id) \/ \E i \in DOMAIN op.todo : op.todo[i] = c
      BY <1>1, <2>1 DEF ReachInv, OpReaches
    <2> QED BY <1>5, <1>8, <2>1, <2>2, <2>3, <2>4, <2>5
  <1>9. OpReaches'
    BY <1>8 DEF OpReaches, Reached, Waiting, Lost, KeyShared, PrekeyGone
  <1> QED BY <1>6, <1>7, <1>9 DEF ReachInv

\* The other steps of the sender.
LEMMA ReachSender ==
  ASSUME TypeOK, AllMarked, ReachInv,
         \/ PutFails \/ Return \/ Crash \/ SaveState \/ AddRow \/ QueueRow \/ FlushOutbox
         \/ \E d \in Device : TakeReceipt(d) \/ \E t \in Text : MarkRead(d, t)
  PROVE  ReachInv'
  <1>1. UNCHANGED <<mailbox, sealed, opened, dropped, inbound, used, left, cut>>
    <2>1. CASE FlushOutbox
      BY <2>1, NothingToFlush DEF FlushOutbox, peer
    <2> QED BY <2>1 DEF PutFails, Return, Crash, SaveState, AddRow, QueueRow, TakeReceipt,
                        MarkRead, store, peer
  <1>2. /\ \A d \in Device : \A id : Reached(d, id) => Reached(d, id)'
        /\ Sealed' /\ Consumed' /\ Taken'
    BY <1>1, ReachIdle DEF ReachInv
  <1>3. SentReachesAll /\ OpReaches
    BY DEF ReachInv
  <1>4. CASE \/ PutFails \/ Return \/ Crash \/ FlushOutbox
             \/ \E d \in Device : TakeReceipt(d) \/ \E t \in Text : MarkRead(d, t)
    <2>1. op' = None \/ op' = op
      BY <1>4 DEF PutFails, Return, Crash, FlushOutbox, TakeReceipt, MarkRead
    <2>2. \A t \in Text : messages'[t] # None => messages[t] # None
      <3>1. CASE UNCHANGED messages
        BY <3>1
      <3>2. ASSUME NEW d \in Device, TakeReceipt(d)
            PROVE  \A t \in Text : messages'[t] # None => messages[t] # None
        BY <3>2 DEF TakeReceipt, TypeOK
      <3> QED BY <1>4, <3>1, <3>2 DEF PutFails, Return, Crash, FlushOutbox, MarkRead, store
    <2>3. SentReachesAll' /\ OpReaches'
      BY <1>2, <1>3, <2>1, <2>2, ReachKept
    <2> QED BY <1>2, <2>3 DEF ReachInv
  <1>5. CASE SaveState
    <2>1. op \in Send /\ op # None /\ op.step = "copies" /\ op.todo = <<>> /\ UNCHANGED messages
      BY <1>5, NoneAssumption DEF SaveState, At, TypeOK
    <2>2. op' # None => op'.id = op.id /\ op'.step = "row"
      BY <1>5, <2>1 DEF SaveState, Send
    <2>3. SentReachesAll'
      BY <1>1, <1>3, <2>1 DEF SentReachesAll, KeyShared, PrekeyGone
    <2>4. \A d \in Device : Reached(d, op.id)
      BY <1>3, <2>1 DEF OpReaches
    <2>5. op' # None => \A d \in Device : \E id : id = op'.id /\ Reached(d, id)'
      BY <1>2, <2>2, <2>4
    <2>6. OpReaches'
      BY <2>5 DEF OpReaches, Reached, Waiting, Lost, KeyShared, PrekeyGone
    <2> QED BY <1>2, <2>3, <2>6 DEF ReachInv
  <1>6. CASE AddRow \/ QueueRow
    <2>1. op \in Send /\ op # None /\ op.step # "copies"
      BY <1>6, NoneAssumption DEF AddRow, QueueRow, At, TypeOK
    <2>2. op' # None /\ op'.id = op.id
      <3>1. op.id \in Id /\ op.todo \in Seq(Device)
        BY <2>1, SendFields
      <3>2. op'.id = op.id /\ op' \in Send
        <4>1. CASE AddRow
          <5>1. op' = [op EXCEPT !.step = "queue", !.todo = Devices]
            BY <4>1 DEF AddRow
          <5> QED BY <2>1, <5>1, DevicesAssumption DEF Send
        <4>2. CASE QueueRow
          <5> DEFINE todo == Tail(op.todo)
          <5>1. op' = [op EXCEPT !.todo = todo] /\ op.todo # <<>>
            BY <4>2 DEF QueueRow
          <5>2. todo \in Seq(Device)
            BY <3>1, <5>1
          <5> HIDE DEF todo
          <5> QED BY <2>1, <5>1, <5>2 DEF Send
        <4> QED BY <1>6, <4>1, <4>2
      <3> QED BY <3>2, NoneAssumption
    <2>3. \A d \in Device : Reached(d, op.id)
      BY <1>3, <2>1 DEF OpReaches
    <2>4. \A t \in Text : messages'[t] # None => messages[t] # None \/ t = op.id
      BY <1>6 DEF AddRow, QueueRow, TypeOK
    <2>5. SentReachesAll'
      <3>1. \A t \in Text, d \in Device : messages[t] # None => Reached(d, t)
        BY <1>3 DEF SentReachesAll, Reached, Waiting, Lost
      <3>2. \A t \in Text, d \in Device : messages'[t] # None => Reached(d, t)'
        BY <1>2, <2>3, <2>4, <3>1
      <3> QED BY <3>2 DEF SentReachesAll, Reached, Waiting, Lost, KeyShared, PrekeyGone
    <2>6. \A d \in Device : \E id : id = op'.id /\ Reached(d, id)'
      BY <1>2, <2>2, <2>3
    <2>7. OpReaches'
      BY <2>6 DEF OpReaches, Reached, Waiting, Lost, KeyShared, PrekeyGone
    <2> QED BY <1>2, <2>5, <2>7 DEF ReachInv
  <1> QED BY <1>4, <1>5, <1>6

LEMMA ReachStep == TypeOK /\ AllMarked /\ TypeOK' /\ ReachInv /\ [Next]_vars => ReachInv'
  <1> SUFFICES ASSUME TypeOK, AllMarked, TypeOK', ReachInv, [Next]_vars PROVE ReachInv'
    OBVIOUS
  <1>1. CASE UNCHANGED vars
    <2>1. /\ UNCHANGED <<mailbox, sealed, opened, dropped, inbound, used, left, cut>>
          /\ UNCHANGED <<messages, op>>
      BY <1>1 DEF vars
    <2>2. /\ \A d \in Device : \A id : Reached(d, id) => Reached(d, id)'
          /\ Sealed' /\ Consumed' /\ Taken'
      BY <2>1, ReachIdle DEF ReachInv
    <2>3. SentReachesAll' /\ OpReaches'
      BY <2>1, <2>2, ReachKept DEF ReachInv
    <2> QED BY <2>2, <2>3 DEF ReachInv
  <1>2. CASE Next
    BY <1>2, ReachStart, ReachSend, ReachSender, ReachHead, ReachFault DEF Next
  <1> QED BY <1>1, <1>2

\* What send_text and send_file record as sent has reached every device of the
\* contact or is waiting for it, whatever puts fail, answers get lost, copies
\* come again, prekeys are given out twice and processes stop; each way in which
\* it is lost all the same is one that SentReachesAll names.
THEOREM RecordedReaches == Spec => []SentReachesAll
  <1>1. Init => ReachInv
    <2> SUFFICES ASSUME Init PROVE ReachInv
      OBVIOUS
    <2>1. Taken
      BY NamesAssumption DEF Init, Taken
    <2> QED BY <2>1 DEF Init, ReachInv, Sealed, Consumed, SentReachesAll, OpReaches
  <1>2. ReachInv => SentReachesAll
    BY DEF ReachInv
  <1> QED BY <1>1, <1>2, ReachStep, Marked, PTL DEF Spec

=============================================================================
