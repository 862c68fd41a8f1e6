--------------------------- MODULE SessionsProofs ---------------------------
(***************************************************************************)
(* What Sessions guarantees for any number of relays, prekeys, senders,    *)
(* messages and crashes: types, the two halves of "one-time" that the code *)
(* does keep, at each relay and at the receiver, and which messages may be *)
(* lost although they were acknowledged.                                   *)
(*                                                                         *)
(* At a relay the invariant ties the history handed to the column used: a  *)
(* prekey was given away once if it is marked used and never otherwise.    *)
(* At the receiver it is that the prekey of a finished handshake is gone   *)
(* from the store, so no later one can find it.  For the lost messages it  *)
(* is that what was handled is stored, or its session was displaced.       *)
(***************************************************************************)
EXTENDS Sessions, TLAPS

\* The blob sync works on is a message.
LEMMA BlobType ==
    ASSUME TypeOK, pos \in 1..batch
    PROVE  Blob \in Message
  <1>1. mailbox \in Seq(Message) /\ pos \in 1..Len(mailbox)
    BY DEF TypeOK
  <1>2. QED BY <1>1 DEF Blob

LEMMA InsertedType ==
    ASSUME NEW t \in [Opk -> {"absent", "unused", "used"}], NEW keys
    PROVE  Inserted(t, keys) \in [Opk -> {"absent", "unused", "used"}]
  BY DEF Inserted

LEMMA HandsOutType ==
    ASSUME TypeOK, NEW r \in Relay, NEW opk \in Opk \cup {NoOpk}, HandsOut(r, opk)
    PROVE  /\ one_time' \in [Relay -> [Opk -> {"absent", "unused", "used"}]]
           /\ handed' \in [Relay -> [Opk -> Nat]]
           /\ bundles' = bundles
  <1>1. one_time \in [Relay -> [Opk -> {"absent", "unused", "used"}]]
    BY DEF TypeOK
  <1>2. handed \in [Relay -> [Opk -> Nat]]
    BY DEF TypeOK
  <1>3. CASE UNCHANGED <<one_time, handed>>
    BY <1>1, <1>2, <1>3 DEF HandsOut
  <1>4. CASE /\ opk \in Opk
             /\ one_time' = [one_time EXCEPT ![r][opk] = "used"]
             /\ handed' = [handed EXCEPT ![r][opk] = @ + 1]
    <2>1. one_time' \in [Relay -> [Opk -> {"absent", "unused", "used"}]]
      BY <1>1, <1>4
    <2>2. handed[r][opk] + 1 \in Nat
      BY <1>2, <1>4
    <2>3. handed' \in [Relay -> [Opk -> Nat]]
      BY <1>2, <1>4, <2>2
    <2>4. QED BY <2>1, <2>3 DEF HandsOut
  <1>5. QED BY <1>3, <1>4 DEF HandsOut, Unused

-----------------------------------------------------------------------------
(* Type correctness                                                        *)

LEMMA InitType == Init => TypeOK
  BY DEF Init, TypeOK

\* The relays and the senders.
LEMMA OutsideType ==
    ASSUME TypeOK,
           \/ \E r \in Relay : Publish(r) \/ LoseAnswer(r)
           \/ \E s \in Sid, r \in Relay : StartSession(s, r)
           \/ \E s \in Sid : Send(s) \/ Replicate(s)
    PROVE  TypeOK'
  <1>1. ASSUME NEW r \in Relay, Publish(r) PROVE TypeOK'
    <2>1. one_time' \in [Relay -> [Opk -> {"absent", "unused", "used"}]]
      BY <1>1, InsertedType DEF Publish, TypeOK
    <2>2. bundles' \in [Relay -> BOOLEAN]
      BY <1>1 DEF Publish, TypeOK
    <2>3. QED BY <1>1, <2>1, <2>2 DEF Publish, TypeOK, senders, work
  <1>2. ASSUME NEW r \in Relay, LoseAnswer(r) PROVE TypeOK'
    <2>1. PICK opk \in Opk : HandsOut(r, opk)
      BY <1>2 DEF LoseAnswer
    <2>2. QED BY <1>2, <2>1, HandsOutType DEF LoseAnswer, TypeOK, senders, work
  <1>3. ASSUME NEW s \in Sid, NEW r \in Relay, StartSession(s, r) PROVE TypeOK'
    <2>1. PICK opk \in Opk \cup {NoOpk} :
             HandsOut(r, opk) /\ outbound' = [outbound EXCEPT ![s] = opk]
      BY <1>3 DEF StartSession
    <2>2. outbound' \in [Sid -> Opk \cup {NoOpk, None}]
      BY <2>1 DEF TypeOK
    <2>3. QED BY <1>3, <2>1, <2>2, HandsOutType DEF StartSession, TypeOK, work
  <1>4. ASSUME NEW m \in Message, mailbox' = Append(mailbox, m)
        PROVE  mailbox' \in Seq(Message) /\ Len(mailbox') = Len(mailbox) + 1
               /\ 0..Len(mailbox) \subseteq 0..Len(mailbox')
    <2>1. mailbox \in Seq(Message)
      BY DEF TypeOK
    <2>2. QED BY <1>4, <2>1
  <1>5. ASSUME NEW s \in Sid, Send(s) PROVE TypeOK'
    <2>1. sent[s] \in Nat /\ [sid |-> s, n |-> sent[s]] \in Message
      BY DEF TypeOK, Message
    <2>2. sent' \in [Sid -> Nat]
      BY <1>5, <2>1 DEF Send, TypeOK
    <2>3. mailbox' \in Seq(Message) /\ batch' \in 0..Len(mailbox')
      BY <1>4, <1>5, <2>1 DEF Send, TypeOK, work
    <2>4. QED BY <1>5, <2>2, <2>3 DEF Send, TypeOK, relays, work
  <1>6. ASSUME NEW s \in Sid, Replicate(s) PROVE TypeOK'
    <2>1. PICK n \in 0..(MaxSent - 1) : mailbox' = Append(mailbox, [sid |-> s, n |-> n])
      BY <1>6 DEF Replicate
    <2>2. [sid |-> s, n |-> n] \in Message
      BY BoundsAssumption DEF Message
    <2>3. mailbox' \in Seq(Message) /\ batch' \in 0..Len(mailbox')
      BY <1>4, <1>6, <2>1, <2>2 DEF Replicate, TypeOK, work
    <2>4. copies' \in Nat
      BY <1>6 DEF Replicate, TypeOK
    <2>5. QED BY <1>6, <2>3, <2>4 DEF Replicate, TypeOK, relays, work
  <1>7. QED BY <1>1, <1>2, <1>3, <1>5, <1>6

\* The receiver's sync.
LEMMA SyncType ==
    ASSUME TypeOK, Fetch \/ Handle \/ Ack \/ LoseAck \/ Crash
    PROVE  TypeOK'
  <1>1. mailbox \in Seq(Message) /\ Len(mailbox) \in Nat /\ batch \in Nat /\ pos \in Nat
    BY DEF TypeOK
  <1>2. CASE Fetch
    <2>1. batch' \in 0..Len(mailbox') /\ pos' \in Nat
      BY <1>1, <1>2 DEF Fetch
    <2>2. QED BY <1>2, <2>1 DEF Fetch, TypeOK, relays, senders
  <1>3. ASSUME Working PROVE pos \in 1..batch /\ Blob \in Message
    <2>1. pos \in 1..batch
      BY <1>1, <1>3 DEF Working, TypeOK
    <2>2. QED BY <2>1, BlobType
  <1>4. ASSUME phase \in {"consumed", "saved"} PROVE pos \in 1..batch /\ Blob \in Message
    BY <1>4, BlobType DEF TypeOK
  <1>5. ASSUME pos \in 1..batch, NextBlob, mailbox' = mailbox
        PROVE  /\ phase' = "blob" /\ batch' \in 0..Len(mailbox') /\ pos' \in Nat
               /\ pos' \in 1..(batch' + 1)
    BY <1>1, <1>5 DEF NextBlob, TypeOK
  <1>6. CASE HandleKnown
    <2>1. pos \in 1..batch /\ Blob \in Message
      BY <1>3, <1>6 DEF HandleKnown
    <2>2. PICK c \in Holders :
             \/ NextBlob /\ UNCHANGED inbound
             \/ /\ inbound' = [inbound EXCEPT ![c].opened = @ \cup {Blob.n}]
                /\ phase' = "saved" /\ UNCHANGED <<batch, pos>>
      BY <1>6 DEF HandleKnown
    <2>3. CASE NextBlob /\ UNCHANGED inbound
      <3>1. /\ phase' = "blob" /\ batch' \in 0..Len(mailbox') /\ pos' \in Nat
            /\ pos' \in 1..(batch' + 1)
        BY <1>5, <1>6, <2>1, <2>3 DEF HandleKnown
      <3>2. QED BY <1>6, <2>3, <3>1 DEF HandleKnown, TypeOK, relays, senders
    <2>4. CASE /\ inbound' = [inbound EXCEPT ![c].opened = @ \cup {Blob.n}]
               /\ phase' = "saved" /\ UNCHANGED <<batch, pos>>
      <3>1. c \in Contact /\ inbound[c] \in Session
        BY DEF Holders, TypeOK
      <3>2. [inbound[c] EXCEPT !.opened = @ \cup {Blob.n}] \in Session
        BY <2>1, <3>1 DEF Session, Message
      <3>3. inbound' \in [Contact -> Session \cup {None}]
        BY <2>4, <3>1, <3>2 DEF TypeOK
      <3>4. QED BY <1>6, <2>1, <2>4, <3>3 DEF HandleKnown, TypeOK, relays, senders
    <2>5. QED BY <2>2, <2>3, <2>4
  <1>7. CASE BeginInbound
    <2>1. pos \in 1..batch /\ Blob \in Message
      BY <1>3, <1>7 DEF BeginInbound
    <2>2. Blob.sid \in Sid
      BY <2>1 DEF Message
    <2>3. outbound[Blob.sid] \in Opk \cup {NoOpk}
      BY <1>7 DEF BeginInbound, TypeOK
    <2>4. /\ opks' \subseteq Opk
          /\ accepted' \subseteq [sid : Sid, opk : Opk \cup {NoOpk}]
      BY <1>7, <2>2, <2>3 DEF BeginInbound, Consume, TypeOK
    <2>5. QED BY <1>7, <2>1, <2>4 DEF BeginInbound, TypeOK, relays, senders
  <1>8. CASE RefuseInbound
    <2>1. pos \in 1..batch
      BY <1>3, <1>8 DEF RefuseInbound
    <2>2. /\ phase' = "blob" /\ batch' \in 0..Len(mailbox') /\ pos' \in Nat
          /\ pos' \in 1..(batch' + 1)
      BY <1>5, <1>8, <2>1 DEF RefuseInbound
    <2>3. QED BY <1>8, <2>2 DEF RefuseInbound, TypeOK, relays, senders
  <1>9. CASE SaveInbound
    <2>1. pos \in 1..batch /\ Blob \in Message
      BY <1>4, <1>9 DEF SaveInbound
    <2>2. Blob.sid \in Sid /\ Blob.n \in Nat
      BY <2>1 DEF Message
    <2>3. [sid |-> Blob.sid, opened |-> {Blob.n}] \in Session
      BY <2>2 DEF Session
    <2>4. ContactOf[Blob.sid] \in Contact
      BY <2>2, ContactAssumption
    <2>5. inbound' \in [Contact -> Session \cup {None}]
      BY <1>9, <2>3, <2>4 DEF SaveInbound, TypeOK
    <2>6. QED BY <1>9, <2>1, <2>5 DEF SaveInbound, TypeOK, relays, senders
  <1>10. CASE StoreMessage
    <2>1. pos \in 1..batch /\ Blob \in Message
      BY <1>4, <1>10 DEF StoreMessage
    <2>2. /\ phase' = "blob" /\ batch' \in 0..Len(mailbox') /\ pos' \in Nat
          /\ pos' \in 1..(batch' + 1)
      BY <1>5, <1>10, <2>1 DEF StoreMessage
    <2>3. QED BY <1>10, <2>1, <2>2 DEF StoreMessage, TypeOK, relays, senders
  <1>11. CASE Ack
    <2>1. \A i \in 1..batch : mailbox[i] \in Message
      BY <1>1 DEF TypeOK
    <2>2. mailbox' \in Seq(Message) /\ Len(mailbox') \in Nat
      BY <1>1, <1>11 DEF Ack, TypeOK
    <2>3. acked' \subseteq Message
      BY <1>11, <2>1 DEF Ack, TypeOK
    <2>4. QED BY <1>11, <2>2, <2>3 DEF Ack, TypeOK, relays, senders
  <1>12. CASE LoseAck
    BY <1>1, <1>12 DEF LoseAck, TypeOK, relays, senders
  <1>13. CASE Crash
    BY <1>1, <1>13 DEF Crash, TypeOK, relays, senders
  <1>14. QED
    BY <1>2, <1>6, <1>7, <1>8, <1>9, <1>10, <1>11, <1>12, <1>13 DEF Handle

LEMMA TypeStep == TypeOK /\ [Next]_vars => TypeOK'
  <1> SUFFICES ASSUME TypeOK, [Next]_vars PROVE TypeOK'
    OBVIOUS
  <1>1. CASE UNCHANGED vars
    BY <1>1 DEF vars, TypeOK
  <1>2. CASE Next
    BY <1>2, OutsideType, SyncType DEF Next
  <1>3. QED BY <1>1, <1>2

\* The tables of the relays and the store of the receiver keep their types:
\* sync never looks beyond the batch it fetched.
THEOREM TypeCorrect == Spec => []TypeOK
  BY InitType, TypeStep, PTL DEF Spec

-----------------------------------------------------------------------------
(* One-time prekeys at a relay                                             *)

\* A prekey has been given away exactly as often as its used column says.
UsedCounts ==
    \A r \in Relay, k \in Opk :
        handed[r][k] = IF one_time[r][k] = "used" THEN 1 ELSE 0

LEMMA UsedCountsHandOut ==
    ASSUME TypeOK, UsedCounts, NEW r \in Relay, NEW opk \in Opk \cup {NoOpk},
           HandsOut(r, opk)
    PROVE  UsedCounts'
  <1>1. one_time \in [Relay -> [Opk -> {"absent", "unused", "used"}]]
    BY DEF TypeOK
  <1>2. handed \in [Relay -> [Opk -> Nat]]
    BY DEF TypeOK
  <1>3. CASE UNCHANGED <<one_time, handed>>
    BY <1>3 DEF UsedCounts
  <1>4. CASE /\ opk \in Unused(r)
             /\ one_time' = [one_time EXCEPT ![r][opk] = "used"]
             /\ handed' = [handed EXCEPT ![r][opk] = @ + 1]
    <2>1. opk \in Opk /\ handed[r][opk] = 0
      BY <1>4 DEF Unused, UsedCounts
    <2>2. one_time'[r][opk] = "used" /\ handed'[r][opk] = 1
      BY <1>1, <1>2, <1>4, <2>1
    <2>3. ASSUME NEW q \in Relay, NEW k \in Opk, q # r \/ k # opk
          PROVE  one_time'[q][k] = one_time[q][k] /\ handed'[q][k] = handed[q][k]
      BY <1>1, <1>2, <1>4, <2>1, <2>3
    <2>4. QED BY <2>2, <2>3 DEF UsedCounts
  <1>5. QED BY <1>3, <1>4 DEF HandsOut

LEMMA UsedCountsStep == TypeOK /\ UsedCounts /\ [Next]_vars => UsedCounts'
  <1> SUFFICES ASSUME TypeOK, UsedCounts, [Next]_vars PROVE UsedCounts'
    OBVIOUS
  <1>1. ASSUME NEW r \in Relay, Publish(r) PROVE UsedCounts'
    <2>1. one_time \in [Relay -> [Opk -> {"absent", "unused", "used"}]]
      BY DEF TypeOK
    <2>2. ASSUME NEW q \in Relay, NEW k \in Opk
          PROVE  one_time'[q][k] = "used" <=> one_time[q][k] = "used"
      <3>1. CASE q = r
        BY <1>1, <2>1, <3>1 DEF Publish, Inserted
      <3>2. CASE q # r
        BY <1>1, <2>1, <3>2 DEF Publish
      <3>3. QED BY <3>1, <3>2
    <2>3. handed' = handed
      BY <1>1 DEF Publish
    <2>4. QED BY <2>2, <2>3 DEF UsedCounts
  <1>2. ASSUME NEW r \in Relay, LoseAnswer(r) PROVE UsedCounts'
    BY <1>2, UsedCountsHandOut DEF LoseAnswer
  <1>3. ASSUME NEW s \in Sid, NEW r \in Relay, StartSession(s, r) PROVE UsedCounts'
    BY <1>3, UsedCountsHandOut DEF StartSession
  <1>4. ASSUME UNCHANGED relays PROVE UsedCounts'
    BY <1>4 DEF relays, UsedCounts
  <1>5. ASSUME NEW s \in Sid, Send(s) \/ Replicate(s) PROVE UNCHANGED relays
    BY <1>5 DEF Send, Replicate
  <1>6. ASSUME Fetch \/ Handle \/ Ack \/ LoseAck \/ Crash \/ UNCHANGED vars
        PROVE  UNCHANGED relays
    BY <1>6 DEF Fetch, Handle, HandleKnown, BeginInbound, RefuseInbound, SaveInbound,
                StoreMessage, Ack, LoseAck, Crash, vars, relays
  <1>7. QED BY <1>1, <1>2, <1>3, <1>4, <1>5, <1>6 DEF Next

\* fetch_bundle gives each one-time prekey of a relay to at most one request,
\* however publish_bundle is repeated in between (INSERT OR IGNORE).
THEOREM PrekeyOncePerRelay == Spec => []HandedOncePerRelay
  <1>1. Init => UsedCounts
    BY DEF Init, UsedCounts
  <1>2. UsedCounts => HandedOncePerRelay
    BY DEF UsedCounts, HandedOncePerRelay
  <1>3. QED BY <1>1, <1>2, UsedCountsStep, TypeCorrect, PTL DEF Spec

-----------------------------------------------------------------------------
(* One-time prekeys at the receiver                                        *)

\* The prekey of a finished handshake is no longer in the store.
SpentGone ==
    /\ \A a \in accepted : a.opk \notin opks
    /\ OpkAcceptedOnce

LEMMA SpentGoneStep == TypeOK /\ SpentGone /\ [Next]_vars => SpentGone'
  <1> SUFFICES ASSUME TypeOK, SpentGone, [Next]_vars PROVE SpentGone'
    OBVIOUS
  <1>1. CASE BeginInbound
    <2> DEFINE opk == outbound[Blob.sid]
               a == [sid |-> Blob.sid, opk |-> opk]
    <2>1. /\ opk \in opks \cup {NoOpk}
          /\ opks' = opks \ {opk}
          /\ accepted' = accepted \cup {a}
      BY <1>1 DEF BeginInbound, Consume
    <2>2. a.opk = opk /\ a.sid = Blob.sid
      OBVIOUS
    <2> HIDE DEF opk, a
    <2>3. \A b \in accepted' : b.opk \notin opks'
      BY <2>1, <2>2 DEF SpentGone
    <2>4. \A b \in accepted : b.opk # a.opk \/ a.opk = NoOpk
      BY <2>1, <2>2 DEF SpentGone
    <2>5. OpkAcceptedOnce'
      BY <2>1, <2>4 DEF SpentGone, OpkAcceptedOnce
    <2>6. QED BY <2>3, <2>5 DEF SpentGone
  <1>2. ASSUME UNCHANGED <<opks, accepted>> PROVE SpentGone'
    BY <1>2 DEF SpentGone, OpkAcceptedOnce
  <1>3. ASSUME NEW r \in Relay, Publish(r) \/ LoseAnswer(r) PROVE UNCHANGED <<opks, accepted>>
    BY <1>3 DEF Publish, LoseAnswer
  <1>4. ASSUME NEW s \in Sid, NEW r \in Relay, StartSession(s, r)
        PROVE  UNCHANGED <<opks, accepted>>
    BY <1>4 DEF StartSession
  <1>5. ASSUME NEW s \in Sid, Send(s) \/ Replicate(s) PROVE UNCHANGED <<opks, accepted>>
    BY <1>5 DEF Send, Replicate
  <1>6. ASSUME \/ Fetch \/ HandleKnown \/ RefuseInbound \/ SaveInbound \/ StoreMessage
               \/ Ack \/ LoseAck \/ Crash \/ UNCHANGED vars
        PROVE  UNCHANGED <<opks, accepted>>
    BY <1>6 DEF Fetch, HandleKnown, RefuseInbound, SaveInbound, StoreMessage,
                Ack, LoseAck, Crash, vars
  <1>7. QED BY <1>1, <1>2, <1>3, <1>4, <1>5, <1>6 DEF Next, Handle

\* The receiver never finishes two handshakes with the same one-time prekey
\* (_begin_inbound looks it up, _consume_opk removes it before the session is
\* saved), whatever the relays hand out and wherever it stops.
THEOREM OpkOnce == Spec => []OpkAcceptedOnce
  <1>1. Init => SpentGone
    BY DEF Init, SpentGone, OpkAcceptedOnce
  <1>2. SpentGone => OpkAcceptedOnce
    BY DEF SpentGone
  <1>3. QED BY <1>1, <1>2, SpentGoneStep, TypeCorrect, PTL DEF Spec

-----------------------------------------------------------------------------
(* What sync acknowledges without having stored it                         *)

\* Only sessions that were started send.
SentOnStarted ==
    /\ \A s \in Sid : sent[s] > 0 => outbound[s] # None
    /\ \A i \in 1..Len(mailbox) : outbound[mailbox[i].sid] # None

\* A prekey that is gone from the store was spent on a finished handshake.
GoneSpent == \A k \in Opk \ opks : \E a \in accepted : a.opk = k

\* The session that is about to be saved has been accepted.
SavingAccepted ==
    phase = "consumed" => \E a \in accepted : a.sid = Blob.sid

\* An accepted session is about to be saved, or is its contact's, or gave way to
\* another one of that contact.
AcceptedHeld ==
    \A a \in accepted :
        \/ phase = "consumed" /\ Blob.sid = a.sid
        \/ /\ inbound[ContactOf[a.sid]] # None
           /\ inbound[ContactOf[a.sid]].sid = a.sid
        \/ Displaced(a.sid)

\* What a session has opened is stored, but for the message in hand.
OpenedStored ==
    \A c \in Contact : inbound[c] # None =>
        \A n \in inbound[c].opened :
            \/ [sid |-> inbound[c].sid, n |-> n] \in stored
            \/ phase = "saved" /\ Blob = [sid |-> inbound[c].sid, n |-> n]

\* What sync has been through is stored, or belongs to a displaced session.
HandledKept ==
    phase # "idle" => \A i \in 1..(pos - 1) :
        mailbox[i] \in stored \/ Displaced(mailbox[i].sid)

LossInv ==
    /\ SentOnStarted
    /\ GoneSpent
    /\ SavingAccepted
    /\ OnlyDisplacedLost
    /\ crashes = 0 => AcceptedHeld /\ OpenedStored /\ HandledKept

\* Every blob names a session.
LEMMA BlobFields ==
    ASSUME TypeOK, NEW i \in 1..Len(mailbox)
    PROVE  mailbox[i] \in Message /\ mailbox[i].sid \in Sid /\ mailbox[i].n \in Nat
  <1>1. mailbox[i] \in Message
    BY DEF TypeOK
  <1>2. QED BY <1>1 DEF Message

\* A displaced session stays displaced.
LEMMA DisplacedStays ==
    ASSUME TypeOK, accepted \subseteq accepted',
           \A s \in Sid : outbound[s] # None => outbound'[s] = outbound[s],
           NEW s \in Sid, Displaced(s)
    PROVE  Displaced(s)'
  <1>1. PICK a \in accepted :
           /\ a.sid # s
           /\ ContactOf[a.sid] = ContactOf[s] \/ (a.opk = outbound[s] /\ a.opk # NoOpk)
    BY DEF Displaced
  <1>2. a.opk \in Opk \cup {NoOpk}
    BY <1>1 DEF TypeOK
  <1>3. a.opk = outbound[s] => outbound'[s] = outbound[s]
    BY <1>2, NoneAssumption
  <1>4. QED BY <1>1, <1>3 DEF Displaced

\* The relays and the senders: sessions are started, messages are appended.
LEMMA OutsideLoss ==
    ASSUME TypeOK, TypeOK', LossInv, SentOnStarted',
           UNCHANGED <<opks, inbound, work, stored, accepted, acked, crashes>>,
           \A s \in Sid : outbound[s] # None => outbound'[s] = outbound[s],
           \A i \in 1..Len(mailbox) : mailbox'[i] = mailbox[i]
    PROVE  LossInv'
  <1>1. \A s \in Sid : Displaced(s) => Displaced(s)'
    BY DisplacedStays
  <1>2. UNCHANGED <<opks, inbound, phase, batch, pos, stored, accepted, acked, crashes>>
    BY DEF work
  <1>3. mailbox \in Seq(Message) /\ batch \in 0..Len(mailbox) /\ pos \in Nat /\ Len(mailbox) \in Nat
    BY DEF TypeOK
  <1>4. GoneSpent'
    BY <1>2 DEF LossInv, GoneSpent
  <1>5. phase \in {"consumed", "saved"} => Blob' = Blob
    BY <1>2, <1>3 DEF TypeOK, Blob
  <1>6. SavingAccepted'
    BY <1>2, <1>5 DEF LossInv, SavingAccepted
  <1>7. OnlyDisplacedLost'
    <2> SUFFICES ASSUME NEW m \in acked \ stored PROVE (crashes > 0 \/ Displaced(m.sid))'
      BY <1>2 DEF OnlyDisplacedLost
    <2>1. m.sid \in Sid
      BY DEF TypeOK, Message
    <2>2. QED BY <1>1, <1>2, <2>1 DEF LossInv, OnlyDisplacedLost
  <1>8. ASSUME crashes = 0 PROVE AcceptedHeld' /\ OpenedStored' /\ HandledKept'
    <2>1. AcceptedHeld /\ OpenedStored /\ HandledKept
      BY <1>8 DEF LossInv
    <2>2. AcceptedHeld'
      <3>1. \A a \in accepted : a.sid \in Sid
        BY DEF TypeOK
      <3>2. QED BY <1>1, <1>2, <1>5, <2>1, <3>1 DEF AcceptedHeld
    <2>3. OpenedStored'
      BY <1>2, <1>5, <2>1 DEF OpenedStored
    <2>4. HandledKept'
      <3>1. ASSUME phase # "idle", NEW i \in 1..(pos - 1)
            PROVE  (mailbox[i] \in stored \/ Displaced(mailbox[i].sid))'
        <4>1. i \in 1..Len(mailbox)
          BY <1>3, <3>1 DEF TypeOK
        <4>2. PICK m \in Message : m = mailbox[i] /\ m.sid \in Sid
          BY <4>1, BlobFields
        <4>3. m = mailbox'[i]
          BY <4>1, <4>2
        <4>4. m \in stored \/ Displaced(m.sid)
          BY <2>1, <3>1, <4>2 DEF HandledKept
        <4>5. m \in stored' \/ Displaced(m.sid)'
          BY <1>1, <1>2, <4>2, <4>4
        <4>6. QED BY <4>3, <4>5
      <3>2. QED BY <1>2, <3>1 DEF HandledKept
    <2>5. QED BY <2>2, <2>3, <2>4
  <1>9. QED BY <1>2, <1>4, <1>6, <1>7, <1>8 DEF LossInv

\* A session that is started has sent nothing yet.
LEMMA StartedSends ==
    ASSUME TypeOK, TypeOK', SentOnStarted, UNCHANGED <<sent, mailbox>>,
           \A s \in Sid : outbound[s] # None => outbound'[s] = outbound[s]
    PROVE  SentOnStarted'
  <1>1. \A i \in 1..Len(mailbox) : mailbox[i].sid \in Sid
    BY BlobFields
  <1>2. QED BY <1>1 DEF SentOnStarted

\* A message is appended on a started session.
LEMMA AppendedSends ==
    ASSUME TypeOK, TypeOK', SentOnStarted, UNCHANGED outbound,
           NEW s \in Sid, outbound[s] # None, NEW n \in Nat,
           mailbox' = Append(mailbox, [sid |-> s, n |-> n]),
           \A t \in Sid : t # s => sent'[t] = sent[t]
    PROVE  /\ SentOnStarted'
           /\ \A i \in 1..Len(mailbox) : mailbox'[i] = mailbox[i]
  <1> DEFINE m == [sid |-> s, n |-> n]
  <1>1. mailbox \in Seq(Message) /\ m \in Message /\ m.sid = s
    BY DEF TypeOK, Message
  <1> HIDE DEF m
  <1>2. /\ Len(mailbox') = Len(mailbox) + 1
        /\ \A i \in 1..Len(mailbox) : mailbox'[i] = mailbox[i]
        /\ mailbox'[Len(mailbox) + 1] = m
    BY <1>1 DEF m
  <1>3. \A i \in 1..Len(mailbox') : i \in 1..Len(mailbox) \/ i = Len(mailbox) + 1
    BY <1>1, <1>2
  <1>4. \A i \in 1..Len(mailbox') : outbound[mailbox'[i].sid] # None
    BY <1>1, <1>2, <1>3 DEF SentOnStarted
  <1>5. QED BY <1>2, <1>4 DEF SentOnStarted

\* Sync goes on to the next blob; the one it leaves is stored or displaced.
LEMMA PassedOn ==
    ASSUME TypeOK, HandledKept, NextBlob, phase # "idle",
           UNCHANGED <<mailbox, outbound, accepted>>, stored \subseteq stored',
           pos \in 1..batch, Blob \in stored' \/ Displaced(Blob.sid)
    PROVE  HandledKept'
  <1>1. \A s \in Sid : Displaced(s)' <=> Displaced(s)
    BY DEF Displaced
  <1> SUFFICES ASSUME NEW i \in 1..(pos' - 1)
               PROVE  mailbox[i] \in stored' \/ Displaced(mailbox[i].sid)'
    BY DEF HandledKept
  <1>2. pos' = pos + 1 /\ pos \in Nat /\ batch \in 0..Len(mailbox) /\ mailbox \in Seq(Message)
    BY DEF NextBlob, TypeOK
  <1>3. i \in 1..Len(mailbox)
    BY <1>2
  <1>4. mailbox[i].sid \in Sid
    BY <1>3, BlobFields
  <1>5. i \in 1..(pos - 1) \/ i = pos
    BY <1>2
  <1>6. QED BY <1>1, <1>4, <1>5 DEF HandledKept, Blob

\* Nothing is spent, accepted or acknowledged: what is left to show are the facts
\* about the sessions and the blobs.
LEMMA SyncLoss ==
    ASSUME TypeOK, TypeOK', LossInv,
           UNCHANGED <<sent, outbound, mailbox, opks, accepted, acked, crashes>>,
           stored \subseteq stored', SavingAccepted',
           crashes = 0 => (AcceptedHeld' /\ OpenedStored' /\ HandledKept')
    PROVE  LossInv'
  <1>1. \A s \in Sid : Displaced(s)' <=> Displaced(s)
    BY DEF Displaced
  <1>2. SentOnStarted' /\ GoneSpent'
    BY DEF LossInv, SentOnStarted, GoneSpent
  <1>3. OnlyDisplacedLost'
    <2> SUFFICES ASSUME NEW m \in acked \ stored PROVE (crashes > 0 \/ Displaced(m.sid))'
      BY DEF OnlyDisplacedLost
    <2>1. m.sid \in Sid
      BY DEF TypeOK, Message
    <2>2. QED BY <1>1, <2>1 DEF LossInv, OnlyDisplacedLost
  <1>4. QED BY <1>2, <1>3 DEF LossInv

\* A blob of a known session.
LEMMA HandleKnownLoss ==
    ASSUME TypeOK, TypeOK', LossInv, HandleKnown
    PROVE  LossInv'
  <1>1. UNCHANGED <<sent, outbound, mailbox, opks, accepted, acked, crashes, stored>>
    BY DEF HandleKnown, senders
  <1>2. phase = "blob" /\ pos \in 1..batch /\ pos \in 1..Len(mailbox)
    BY DEF HandleKnown, Working, TypeOK
  <1>3. Blob \in Message /\ Blob.sid \in Sid /\ Blob = [sid |-> Blob.sid, n |-> Blob.n]
    BY <1>2, BlobFields DEF Blob, Message
  <1>4. PICK c \in Holders :
           \/ Blob.n \in inbound[c].opened /\ NextBlob /\ UNCHANGED inbound
           \/ /\ inbound' = [inbound EXCEPT ![c].opened = @ \cup {Blob.n}]
              /\ phase' = "saved" /\ UNCHANGED <<batch, pos>>
    BY DEF HandleKnown
  <1>5. c \in Contact /\ inbound[c] # None /\ inbound[c].sid = Blob.sid /\ inbound[c] \in Session
    BY DEF Holders, TypeOK
  <1>6. \A s \in Sid : Displaced(s)' <=> Displaced(s)
    BY <1>1 DEF Displaced
  <1>7. \A a \in accepted : a.sid \in Sid
    BY DEF TypeOK
  <1>8. CASE Blob.n \in inbound[c].opened /\ NextBlob /\ UNCHANGED inbound
    <2>1. SavingAccepted'
      BY <1>8 DEF SavingAccepted, NextBlob
    <2>2. ASSUME crashes = 0 PROVE AcceptedHeld' /\ OpenedStored' /\ HandledKept'
      <3>1. AcceptedHeld /\ OpenedStored /\ HandledKept
        BY <2>2 DEF LossInv
      <3>2. AcceptedHeld'
        BY <1>1, <1>2, <1>6, <1>7, <1>8, <3>1 DEF AcceptedHeld
      <3>3. OpenedStored'
        BY <1>1, <1>2, <1>8, <3>1 DEF OpenedStored
      <3>4. Blob \in stored'
        BY <1>1, <1>2, <1>3, <1>5, <1>8, <3>1 DEF OpenedStored
      <3>5. HandledKept'
        BY <1>1, <1>2, <1>8, <3>1, <3>4, PassedOn
      <3>6. QED BY <3>2, <3>3, <3>5
    <2>3. QED BY <1>1, <2>1, <2>2, SyncLoss
  <1>9. CASE /\ inbound' = [inbound EXCEPT ![c].opened = @ \cup {Blob.n}]
             /\ phase' = "saved" /\ UNCHANGED <<batch, pos>>
    <2>1. SavingAccepted'
      BY <1>9 DEF SavingAccepted
    <2>2. Blob' = Blob
      BY <1>1, <1>9 DEF Blob
    <2>3. /\ inbound'[c] = [inbound[c] EXCEPT !.opened = @ \cup {Blob.n}]
          /\ \A d \in Contact : d # c => inbound'[d] = inbound[d]
      BY <1>5, <1>9 DEF TypeOK
    <2>4. inbound'[c].sid = Blob.sid /\ inbound'[c].opened = inbound[c].opened \cup {Blob.n}
          /\ inbound'[c] # None
      <3>1. inbound'[c] \in Session
        BY <1>3, <1>5, <2>3 DEF Session, Message
      <3>2. QED BY <1>5, <2>3, <3>1, NoneAssumption DEF Session
    <2>5. ASSUME crashes = 0 PROVE AcceptedHeld' /\ OpenedStored' /\ HandledKept'
      <3>1. AcceptedHeld /\ OpenedStored /\ HandledKept
        BY <2>5 DEF LossInv
      <3>2. \A d \in Contact : /\ inbound'[d] = None <=> inbound[d] = None
                               /\ inbound'[d] # None => inbound'[d].sid = inbound[d].sid
        BY <1>5, <2>3, <2>4
      <3>3. \A a \in accepted : ContactOf[a.sid] \in Contact
        BY <1>7, ContactAssumption
      <3>4. AcceptedHeld'
        BY <1>1, <1>2, <1>6, <1>7, <3>1, <3>2, <3>3 DEF AcceptedHeld
      <3>5. OpenedStored'
        <4> SUFFICES ASSUME NEW d \in Contact, inbound'[d] # None, NEW n \in inbound'[d].opened
                     PROVE  \/ [sid |-> inbound'[d].sid, n |-> n] \in stored
                            \/ Blob = [sid |-> inbound'[d].sid, n |-> n]
          BY <1>1, <1>9, <2>2 DEF OpenedStored
        <4>1. CASE d = c /\ n = Blob.n
          BY <1>3, <2>4, <4>1
        <4>2. CASE n \in inbound[d].opened
          BY <1>2, <3>1, <3>2, <4>2 DEF OpenedStored
        <4>3. QED BY <2>3, <2>4, <4>1, <4>2
      <3>6. HandledKept'
        <4>1. \A j \in 1..(pos - 1) : mailbox[j].sid \in Sid
          <5>1. \A j \in 1..(pos - 1) : j \in 1..Len(mailbox)
            BY <1>2 DEF TypeOK
          <5>2. QED BY <5>1, BlobFields
        <4>2. QED BY <1>1, <1>2, <1>6, <1>9, <3>1, <4>1 DEF HandledKept
      <3>7. QED BY <3>4, <3>5, <3>6
    <2>6. QED BY <1>1, <2>1, <2>5, SyncLoss
  <1>10. QED BY <1>4, <1>8, <1>9

\* A handshake is finished: its prekey goes, its session is to be saved.
LEMMA BeginLoss ==
    ASSUME TypeOK, TypeOK', LossInv, BeginInbound
    PROVE  LossInv'
  <1>1. UNCHANGED <<sent, outbound, mailbox, inbound, batch, pos, acked, crashes, stored>>
    BY DEF BeginInbound, senders
  <1>2. phase = "blob" /\ phase' = "consumed" /\ pos \in 1..batch /\ Blob' = Blob
    BY <1>1 DEF BeginInbound, Working, TypeOK, Blob
  <1> DEFINE opk == outbound[Blob.sid]
             new == [sid |-> Blob.sid, opk |-> opk]
  <1>3. opks' = opks \ {opk} /\ accepted' = accepted \cup {new}
    BY DEF BeginInbound, Consume
  <1>4. new.sid = Blob.sid /\ new.opk = opk
    OBVIOUS
  <1> HIDE DEF opk, new
  <1>5. \A s \in Sid : Displaced(s) => Displaced(s)'
    BY <1>1, <1>3, DisplacedStays
  <1>6. SentOnStarted'
    BY <1>1 DEF LossInv, SentOnStarted
  <1>7. GoneSpent'
    BY <1>3, <1>4 DEF LossInv, GoneSpent
  <1>8. SavingAccepted'
    BY <1>2, <1>3, <1>4 DEF SavingAccepted
  <1>9. OnlyDisplacedLost'
    <2> SUFFICES ASSUME NEW m \in acked \ stored PROVE (crashes > 0 \/ Displaced(m.sid))'
      BY <1>1 DEF OnlyDisplacedLost
    <2>1. m.sid \in Sid
      BY DEF TypeOK, Message
    <2>2. QED BY <1>1, <1>5, <2>1 DEF LossInv, OnlyDisplacedLost
  <1>10. ASSUME crashes = 0 PROVE AcceptedHeld' /\ OpenedStored' /\ HandledKept'
    <2>1. AcceptedHeld /\ OpenedStored /\ HandledKept
      BY <1>10 DEF LossInv
    <2>2. \A a \in accepted : a.sid \in Sid
      BY DEF TypeOK
    <2>3. AcceptedHeld'
      BY <1>1, <1>2, <1>3, <1>4, <1>5, <2>1, <2>2 DEF AcceptedHeld
    <2>4. OpenedStored'
      BY <1>1, <1>2, <2>1 DEF OpenedStored
    <2>5. HandledKept'
      <3>1. \A j \in 1..(pos - 1) : mailbox[j].sid \in Sid
        <4>1. \A j \in 1..(pos - 1) : j \in 1..Len(mailbox)
          BY <1>2 DEF TypeOK
        <4>2. QED BY <4>1, BlobFields
      <3>2. QED BY <1>1, <1>2, <1>5, <2>1, <3>1 DEF HandledKept
    <2>6. QED BY <2>3, <2>4, <2>5
  <1>11. QED BY <1>1, <1>6, <1>7, <1>8, <1>9, <1>10 DEF LossInv

\* A blob of an unknown session whose prekey is gone: another session took it, or the
\* session itself was accepted and gave way to another one of its contact.
LEMMA RefuseLoss ==
    ASSUME TypeOK, TypeOK', LossInv, RefuseInbound
    PROVE  LossInv'
  <1>1. UNCHANGED <<sent, outbound, mailbox, opks, inbound, accepted, acked, crashes, stored>>
    BY DEF RefuseInbound, senders
  <1>2. phase = "blob" /\ pos \in 1..batch /\ pos \in 1..Len(mailbox) /\ NextBlob /\ phase' = "blob"
    BY DEF RefuseInbound, Working, TypeOK, NextBlob
  <1>3. Blob.sid \in Sid
    BY <1>2, BlobFields DEF Blob
  <1>4. outbound[Blob.sid] \in Opk \ opks
    <2>1. outbound[Blob.sid] # None
      BY <1>2 DEF LossInv, SentOnStarted, Blob
    <2>2. outbound[Blob.sid] \in Opk \cup {NoOpk, None}
      BY <1>3 DEF TypeOK
    <2>3. QED BY <2>1, <2>2 DEF RefuseInbound
  <1>5. SavingAccepted'
    BY <1>2 DEF SavingAccepted
  <1>6. ASSUME crashes = 0 PROVE AcceptedHeld' /\ OpenedStored' /\ HandledKept'
    <2>1. AcceptedHeld /\ OpenedStored /\ HandledKept
      BY <1>6 DEF LossInv
    <2>2. \A s \in Sid : Displaced(s)' <=> Displaced(s)
      BY <1>1 DEF Displaced
    <2>3. \A a \in accepted : a.sid \in Sid
      BY DEF TypeOK
    <2>4. AcceptedHeld'
      BY <1>1, <1>2, <2>1, <2>2, <2>3 DEF AcceptedHeld
    <2>5. OpenedStored'
      BY <1>1, <1>2, <2>1 DEF OpenedStored
    <2>6. PICK a \in accepted : a.opk = outbound[Blob.sid]
      BY <1>4 DEF LossInv, GoneSpent
    <2>7. CASE a.sid # Blob.sid
      <3>1. Displaced(Blob.sid)
        BY <1>4, <2>6, <2>7, OpkAssumption DEF Displaced
      <3>2. QED BY <1>1, <1>2, <2>1, <2>4, <2>5, <3>1, PassedOn
    <2>8. CASE a.sid = Blob.sid
      <3>1. ContactOf[Blob.sid] \in Contact
        BY <1>3, ContactAssumption
      <3>2. ~ (/\ inbound[ContactOf[a.sid]] # None
               /\ inbound[ContactOf[a.sid]].sid = a.sid)
        BY <2>8, <3>1 DEF RefuseInbound, Holders
      <3>3. Displaced(Blob.sid)
        BY <1>2, <2>1, <2>6, <2>8, <3>2 DEF AcceptedHeld
      <3>4. QED BY <1>1, <1>2, <2>1, <2>4, <2>5, <3>3, PassedOn
    <2>9. QED BY <2>7, <2>8
  <1>7. QED BY <1>1, <1>5, <1>6, SyncLoss

\* The new session takes the place of its contact's, which is displaced by it.
LEMMA SaveLoss ==
    ASSUME TypeOK, TypeOK', LossInv, SaveInbound
    PROVE  LossInv'
  <1>1. UNCHANGED <<sent, outbound, mailbox, opks, batch, pos, accepted, acked, crashes, stored>>
    BY DEF SaveInbound, senders
  <1>2. phase = "consumed" /\ phase' = "saved" /\ Blob' = Blob /\ pos \in 1..Len(mailbox)
    BY <1>1 DEF SaveInbound, TypeOK, Blob
  <1>3. Blob.sid \in Sid /\ Blob.n \in Nat /\ Blob = [sid |-> Blob.sid, n |-> Blob.n]
    BY <1>2, BlobFields DEF Blob, Message
  <1> DEFINE k == ContactOf[Blob.sid]
             new == [sid |-> Blob.sid, opened |-> {Blob.n}]
  <1>4. k \in Contact
    BY <1>3, ContactAssumption
  <1>5. new # None
    BY <1>3, NoneAssumption DEF Session
  <1>6. inbound'[k] = new /\ \A d \in Contact : d # k => inbound'[d] = inbound[d]
    BY <1>4 DEF SaveInbound, TypeOK
  <1>7. new.sid = Blob.sid /\ new.opened = {Blob.n}
    OBVIOUS
  <1> HIDE DEF new
  <1>8. PICK b \in accepted : b.sid = Blob.sid
    BY <1>2 DEF LossInv, SavingAccepted
  <1>9. \A s \in Sid : Displaced(s)' <=> Displaced(s)
    BY <1>1 DEF Displaced
  <1>10. ASSUME crashes = 0 PROVE AcceptedHeld' /\ OpenedStored' /\ HandledKept'
    <2>1. AcceptedHeld /\ OpenedStored /\ HandledKept
      BY <1>10 DEF LossInv
    <2>2. AcceptedHeld'
      <3> SUFFICES ASSUME NEW a \in accepted
                   PROVE  \/ /\ inbound'[ContactOf[a.sid]] # None
                             /\ inbound'[ContactOf[a.sid]].sid = a.sid
                          \/ Displaced(a.sid)'
        BY <1>1 DEF AcceptedHeld
      <3>1. a.sid \in Sid /\ ContactOf[a.sid] \in Contact
        BY ContactAssumption DEF TypeOK
      <3>2. CASE a.sid = Blob.sid
        BY <1>5, <1>6, <1>7, <3>2
      <3>3. CASE a.sid # Blob.sid /\ ContactOf[a.sid] = k
        <4>1. Displaced(a.sid)
          BY <1>8, <3>3 DEF Displaced
        <4>2. QED BY <1>9, <3>1, <4>1
      <3>4. CASE a.sid # Blob.sid /\ ContactOf[a.sid] # k
        BY <1>6, <1>9, <2>1, <3>1, <3>4 DEF AcceptedHeld
      <3>5. QED BY <3>2, <3>3, <3>4
    <2>3. OpenedStored'
      <3> SUFFICES ASSUME NEW d \in Contact, inbound'[d] # None, NEW n \in inbound'[d].opened
                   PROVE  \/ [sid |-> inbound'[d].sid, n |-> n] \in stored
                          \/ Blob = [sid |-> inbound'[d].sid, n |-> n]
        BY <1>1, <1>2 DEF OpenedStored
      <3>1. CASE d = k
        BY <1>3, <1>6, <1>7, <3>1
      <3>2. CASE d # k
        BY <1>2, <1>6, <2>1, <3>2 DEF OpenedStored
      <3>3. QED BY <3>1, <3>2
    <2>4. HandledKept'
      <3>1. \A j \in 1..(pos - 1) : mailbox[j].sid \in Sid
        <4>1. \A j \in 1..(pos - 1) : j \in 1..Len(mailbox)
          BY <1>2 DEF TypeOK
        <4>2. QED BY <4>1, BlobFields
      <3>2. QED BY <1>1, <1>2, <1>9, <2>1, <3>1 DEF HandledKept
    <2>5. QED BY <2>2, <2>3, <2>4
  <1>11. SavingAccepted'
    BY <1>2 DEF SavingAccepted
  <1>12. QED BY <1>1, <1>10, <1>11, SyncLoss

\* The message in hand is stored.
LEMMA StoreLoss ==
    ASSUME TypeOK, TypeOK', LossInv, StoreMessage
    PROVE  LossInv'
  <1>1. UNCHANGED <<sent, outbound, mailbox, opks, inbound, accepted, acked, crashes>>
    BY DEF StoreMessage, senders
  <1>2. /\ phase = "saved" /\ phase' = "blob" /\ NextBlob /\ pos \in 1..batch
        /\ stored' = stored \cup {Blob}
    BY DEF StoreMessage, NextBlob, TypeOK
  <1>3. ASSUME crashes = 0 PROVE AcceptedHeld' /\ OpenedStored' /\ HandledKept'
    <2>1. AcceptedHeld /\ OpenedStored /\ HandledKept
      BY <1>3 DEF LossInv
    <2>2. \A s \in Sid : Displaced(s)' <=> Displaced(s)
      BY <1>1 DEF Displaced
    <2>3. \A a \in accepted : a.sid \in Sid
      BY DEF TypeOK
    <2>4. AcceptedHeld'
      BY <1>1, <1>2, <2>1, <2>2, <2>3 DEF AcceptedHeld
    <2>5. OpenedStored'
      BY <1>1, <1>2, <2>1 DEF OpenedStored
    <2>6. HandledKept'
      BY <1>1, <1>2, <2>1, PassedOn
    <2>7. QED BY <2>4, <2>5, <2>6
  <1>4. SavingAccepted'
    BY <1>2 DEF SavingAccepted
  <1>5. QED BY <1>1, <1>2, <1>3, <1>4, SyncLoss

\* The batch begins, is given up between two blobs, or is lost in a crash.
LEMMA TurnLoss ==
    ASSUME TypeOK, TypeOK', LossInv, Fetch \/ LoseAck \/ Crash
    PROVE  LossInv'
  <1>1. UNCHANGED <<sent, outbound, mailbox, opks, inbound, accepted, acked, stored>>
    BY DEF Fetch, LoseAck, Crash, senders
  <1>2. \A s \in Sid : Displaced(s)' <=> Displaced(s)
    BY <1>1 DEF Displaced
  <1>3. phase' \in {"idle", "blob"} /\ (phase' # "idle" => pos' = 1)
    BY DEF Fetch, LoseAck, Crash
  <1>4. SentOnStarted' /\ GoneSpent' /\ SavingAccepted'
    BY <1>1, <1>3 DEF LossInv, SentOnStarted, GoneSpent, SavingAccepted
  <1>5. \/ crashes' > 0
        \/ crashes' = crashes /\ phase \in {"idle", "blob"}
    BY DEF Fetch, LoseAck, Crash, TypeOK
  <1>6. OnlyDisplacedLost'
    <2> SUFFICES ASSUME NEW m \in acked \ stored PROVE (crashes > 0 \/ Displaced(m.sid))'
      BY <1>1 DEF OnlyDisplacedLost
    <2>1. m.sid \in Sid
      BY DEF TypeOK, Message
    <2>2. QED BY <1>2, <1>5, <2>1 DEF LossInv, OnlyDisplacedLost
  <1>7. ASSUME crashes' = 0 PROVE AcceptedHeld' /\ OpenedStored' /\ HandledKept'
    <2>1. AcceptedHeld /\ OpenedStored /\ phase \in {"idle", "blob"}
      BY <1>5, <1>7 DEF LossInv
    <2>2. \A a \in accepted : a.sid \in Sid
      BY DEF TypeOK
    <2>3. AcceptedHeld'
      BY <1>1, <1>2, <2>1, <2>2 DEF AcceptedHeld
    <2>4. OpenedStored'
      BY <1>1, <2>1 DEF OpenedStored
    <2>5. HandledKept'
      BY <1>3 DEF HandledKept
    <2>6. QED BY <2>3, <2>4, <2>5
  <1>8. QED BY <1>4, <1>6, <1>7 DEF LossInv

\* The whole batch has been through when it is acknowledged.
LEMMA AckLoss ==
    ASSUME TypeOK, TypeOK', LossInv, Ack
    PROVE  LossInv'
  <1>1. UNCHANGED <<sent, outbound, opks, inbound, accepted, crashes, stored>>
    BY DEF Ack, senders
  <1>2. /\ phase = "blob" /\ pos > batch /\ phase' = "idle"
        /\ acked' = acked \cup {mailbox[i] : i \in 1..batch}
    BY DEF Ack
  <1>3. \A s \in Sid : Displaced(s)' <=> Displaced(s)
    BY <1>1 DEF Displaced
  <1>4. /\ mailbox \in Seq(Message) /\ batch \in 0..Len(mailbox)
        /\ batch \in Nat /\ pos \in Nat /\ Len(mailbox) \in Nat
    BY DEF TypeOK
  <1>5. SentOnStarted'
    <2>1. /\ Len(mailbox') = Len(mailbox) - batch
          /\ \A i \in 1..Len(mailbox') : mailbox'[i] = mailbox[batch + i]
      BY <1>4 DEF Ack
    <2>2. \A i \in 1..Len(mailbox') : batch + i \in 1..Len(mailbox)
      BY <1>4, <2>1
    <2>3. QED BY <1>1, <2>1, <2>2 DEF LossInv, SentOnStarted
  <1>6. GoneSpent' /\ SavingAccepted'
    BY <1>1, <1>2 DEF LossInv, GoneSpent, SavingAccepted
  <1>7. OnlyDisplacedLost'
    <2> SUFFICES ASSUME NEW m \in acked' \ stored PROVE (crashes > 0 \/ Displaced(m.sid))'
      BY <1>1 DEF OnlyDisplacedLost
    <2>1. CASE m \in acked
      <3>1. m.sid \in Sid
        BY <2>1 DEF TypeOK, Message
      <3>2. QED BY <1>1, <1>3, <2>1, <3>1 DEF LossInv, OnlyDisplacedLost
    <2>2. CASE \E i \in 1..batch : m = mailbox[i]
      <3>1. PICK i \in 1..batch : m = mailbox[i]
        BY <2>2
      <3>2. i \in 1..(pos - 1) /\ i \in 1..Len(mailbox)
        BY <1>2, <1>4
      <3>3. m.sid \in Sid
        BY <3>1, <3>2, BlobFields
      <3>4. crashes = 0 => Displaced(m.sid)
        BY <1>2, <3>1, <3>2 DEF LossInv, HandledKept
      <3>5. crashes \in Nat
        BY DEF TypeOK
      <3>6. QED BY <1>1, <1>3, <3>3, <3>4, <3>5
    <2>3. QED BY <1>2, <2>1, <2>2
  <1>8. ASSUME crashes = 0 PROVE AcceptedHeld' /\ OpenedStored' /\ HandledKept'
    <2>1. AcceptedHeld /\ OpenedStored
      BY <1>8 DEF LossInv
    <2>2. \A a \in accepted : a.sid \in Sid
      BY DEF TypeOK
    <2>3. AcceptedHeld'
      BY <1>1, <1>2, <1>3, <2>1, <2>2 DEF AcceptedHeld
    <2>4. OpenedStored'
      BY <1>1, <1>2, <2>1 DEF OpenedStored
    <2>5. QED BY <1>2, <2>3, <2>4 DEF HandledKept
  <1>9. QED BY <1>1, <1>5, <1>6, <1>7, <1>8 DEF LossInv

LEMMA LossInvStep == TypeOK /\ LossInv /\ [Next]_vars => LossInv'
  <1> SUFFICES ASSUME TypeOK, LossInv, [Next]_vars PROVE LossInv'
    OBVIOUS
  <1>1. TypeOK' /\ SentOnStarted
    BY TypeStep DEF LossInv
  <1>2. ASSUME NEW r \in Relay, Publish(r) \/ LoseAnswer(r) PROVE LossInv'
    <2>1. /\ UNCHANGED <<sent, outbound, mailbox>>
          /\ UNCHANGED <<opks, inbound, work, stored, accepted, acked, crashes>>
      BY <1>2 DEF Publish, LoseAnswer, senders
    <2>2. QED BY <1>1, <2>1, StartedSends, OutsideLoss
  <1>3. ASSUME NEW s \in Sid, NEW r \in Relay, StartSession(s, r) PROVE LossInv'
    <2>1. /\ UNCHANGED <<sent, mailbox>>
          /\ UNCHANGED <<opks, inbound, work, stored, accepted, acked, crashes>>
      BY <1>3 DEF StartSession
    <2>2. \A t \in Sid : outbound[t] # None => outbound'[t] = outbound[t]
      BY <1>3 DEF StartSession, TypeOK
    <2>3. QED BY <1>1, <2>1, <2>2, StartedSends, OutsideLoss
  <1>4. ASSUME NEW s \in Sid, Send(s) PROVE LossInv'
    <2>1. /\ outbound[s] # None /\ sent[s] \in Nat /\ UNCHANGED outbound
          /\ mailbox' = Append(mailbox, [sid |-> s, n |-> sent[s]])
          /\ \A t \in Sid : t # s => sent'[t] = sent[t]
          /\ UNCHANGED <<opks, inbound, work, stored, accepted, acked, crashes>>
      BY <1>4 DEF Send, TypeOK
    <2>2. SentOnStarted' /\ \A i \in 1..Len(mailbox) : mailbox'[i] = mailbox[i]
      BY <1>1, <2>1, AppendedSends
    <2>3. QED BY <1>1, <2>1, <2>2, OutsideLoss
  <1>5. ASSUME NEW s \in Sid, Replicate(s) PROVE LossInv'
    <2>1. PICK n \in 0..(MaxSent - 1) :
             n < sent[s] /\ mailbox' = Append(mailbox, [sid |-> s, n |-> n])
      BY <1>5 DEF Replicate
    <2>2. n \in Nat /\ sent[s] > 0
      BY <2>1, BoundsAssumption DEF TypeOK
    <2>3. outbound[s] # None
      BY <1>1, <2>2 DEF SentOnStarted
    <2>4. UNCHANGED <<outbound, sent>>
          /\ UNCHANGED <<opks, inbound, work, stored, accepted, acked, crashes>>
      BY <1>5 DEF Replicate
    <2>5. SentOnStarted' /\ \A i \in 1..Len(mailbox) : mailbox'[i] = mailbox[i]
      BY <1>1, <2>1, <2>2, <2>3, <2>4, AppendedSends
    <2>6. QED BY <1>1, <2>4, <2>5, OutsideLoss
  <1>6. CASE Handle
    BY <1>1, <1>6, HandleKnownLoss, BeginLoss, RefuseLoss, SaveLoss, StoreLoss DEF Handle
  <1>7. CASE Fetch \/ LoseAck \/ Crash \/ Ack
    BY <1>1, <1>7, TurnLoss, AckLoss
  <1>8. CASE UNCHANGED vars
    <2>1. /\ UNCHANGED <<sent, outbound, mailbox>>
          /\ UNCHANGED <<opks, inbound, work, stored, accepted, acked, crashes>>
      BY <1>8 DEF vars, work
    <2>2. QED BY <1>1, <2>1, StartedSends, OutsideLoss
  <1>9. QED BY <1>2, <1>3, <1>4, <1>5, <1>6, <1>7, <1>8 DEF Next

\* As long as the receiver has not stopped in the middle of a sync, it acknowledges
\* without having stored them only messages of sessions that another session displaced
\* (_find_session, _finish_inbound and the ack at the end of sync), for any number of
\* contacts, devices, relays, copies and lost acknowledgements.
THEOREM LossOnlyDisplaced == Spec => []OnlyDisplacedLost
  <1>1. Init => LossInv
    BY NoneAssumption DEF Init, LossInv, SentOnStarted, GoneSpent, SavingAccepted,
       OnlyDisplacedLost, AcceptedHeld, OpenedStored, HandledKept
  <1>2. LossInv => OnlyDisplacedLost
    BY DEF LossInv
  <1>3. QED BY <1>1, <1>2, LossInvStep, TypeCorrect, PTL DEF Spec

=============================================================================
