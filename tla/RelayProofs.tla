---------------------------- MODULE RelayProofs ----------------------------
(***************************************************************************)
(* Proofs about Relay for any number of handlers, mailboxes, chunks and    *)
(* lives, and any settings.                                                *)
(***************************************************************************)
EXTENDS Relay, FiniteSetTheorems, WellFoundedInduction, TLAPS

\* Nothing stored or returned belongs to a life that has not begun, and in the
\* current life every seq is below the column that hands out the next one.
SeqBelowNext ==
    \A r \in messages \cup fetched :
        /\ r.life <= lives[r.mailbox]
        /\ r.life = lives[r.mailbox] /\ mailboxes[r.mailbox] # NoRow
              => r.seq < mailboxes[r.mailbox].next_seq

\* Responses return prefixes: whatever is stored at or below a returned seq has
\* been returned too.
FetchedPrefix ==
    \A f \in fetched, r \in messages :
        r.mailbox = f.mailbox /\ r.life = f.life /\ r.seq <= f.seq => r \in fetched

\* An ack in flight names a seq that a response has returned.
AckIssued ==
    \A h \in Handler : Serving(h, "ack") =>
        \E f \in fetched : /\ f.mailbox = inflight[h].mailbox
                           /\ f.seq = inflight[h].upto
                           /\ f.life = inflight[h].life

\* The message quota, one half of QuotaHeld.
CountHeld == \A m \in Mailbox : Cardinality(MessagesOf(m)) <= MaxMessages

IndInv ==
    /\ TypeOK
    /\ NoOrphans
    /\ SeqBelowNext
    /\ SeqIdentifiesMessage
    /\ FetchedPrefix
    /\ AckIssued
    /\ CountHeld

-----------------------------------------------------------------------------
(* Facts about requests.                                                   *)

\* Every request names a mailbox, and an operation carries its own fields.
LEMMA RequestFields ==
    ASSUME NEW r \in Request
    PROVE  /\ r.mailbox \in Mailbox
           /\ r.op = "create" => r.cap \in Cap
           /\ r.op = "put" => r.size \in Nat
           /\ r.op = "get" => r.wait \in 0..MaxWait
           /\ r.op = "ack" => r.upto \in Nat /\ r.life \in Nat
           /\ r.op \in {"upload", "store"} => r.chunk \in Chunk /\ r.size \in Nat
    BY SettingsAssumption DEF Request

\* A handler that is serving an operation holds a request for it.
LEMMA ServingRequest ==
    ASSUME TypeOK, NEW h \in Handler, NEW op, Serving(h, op)
    PROVE  inflight[h] \in Request /\ inflight[h].op = op
    BY DEF TypeOK, Serving

\* The two requests that are edited in place stay requests.
LEMMA EditedRequests ==
    ASSUME NEW r \in Request
    PROVE  /\ r.op = "upload" => [r EXCEPT !.op = "store"] \in Request
           /\ r.op = "get" /\ r.wait > 0 => [r EXCEPT !.wait = @ - 1] \in Request
  <1>1. ASSUME r.op = "upload" PROVE [r EXCEPT !.op = "store"] \in Request
    <2>1. r \in [op : {"upload", "store"}, mailbox : Mailbox, chunk : Chunk, size : Size]
      BY <1>1 DEF Request
    <2>2. [r EXCEPT !.op = "store"] \in
             [op : {"upload", "store"}, mailbox : Mailbox, chunk : Chunk, size : Size]
      BY <2>1
    <2>3. QED BY <2>2 DEF Request
  <1>2. ASSUME r.op = "get", r.wait > 0 PROVE [r EXCEPT !.wait = @ - 1] \in Request
    <2>1. r \in [op : {"get"}, mailbox : Mailbox, wait : 0..MaxWait]
      BY <1>2 DEF Request
    <2>2. r.wait - 1 \in 0..MaxWait
      BY <1>2, <2>1, BoundsAssumption
    <2>3. [r EXCEPT !.wait = @ - 1] \in
             [op : {"get"}, mailbox : Mailbox, wait : 0..MaxWait]
      BY <2>1, <2>2
    <2>4. QED BY <2>3 DEF Request
  <1>3. QED BY <1>1, <1>2

\* Advancing next_seq and last_seen leaves a mailbox row.
LEMMA AdvancedRow ==
    ASSUME NEW r \in MailboxRow, NEW t \in Nat
    PROVE  [r EXCEPT !.last_seen = t, !.next_seq = @ + 1] \in MailboxRow
  <1>1. r.next_seq + 1 \in Nat \ {0}
    BY DEF MailboxRow
  <1>2. QED BY <1>1 DEF MailboxRow

-----------------------------------------------------------------------------
(* Type correctness.                                                       *)

\* A request that passes authentication changes inflight alone, and to a
\* request.
LEMMA ArriveType ==
    ASSUME TypeOK, NEW h \in Handler, Arrive(h)
    PROVE  /\ UNCHANGED <<tables, now, history>>
           /\ \E r \in Request : /\ inflight[h] = Idle
                                 /\ inflight' = [inflight EXCEPT ![h] = r]
                                 /\ r.op = "ack" => \E f \in fetched :
                                      /\ f.mailbox = r.mailbox
                                      /\ f.seq = r.upto
                                      /\ f.life = r.life
  <1>1. PICK c \in Cap : \/ AckStart(h, c)
                         \/ \E m \in Mailbox :
                              \/ CreateCheck(h, m, c)
                              \/ \E size \in Size : PutStart(h, m, c, size)
                              \/ GetStart(h, m, c)
                              \/ DeleteStart(h, m, c)
                              \/ \E chunk \in Chunk, size \in Size :
                                    UploadStart(h, m, c, chunk, size)
                              \/ \E chunk \in Chunk : DownloadStart(h, m, c, chunk)
    BY DEF Arrive
  <1>2. CASE AckStart(h, c)
    <2>1. PICK f \in fetched :
             Authenticate(h, c, [op |-> "ack", mailbox |-> f.mailbox,
                                 upto |-> f.seq, life |-> f.life])
      BY <1>2 DEF AckStart
    <2>2. f \in MessageRow
      BY DEF TypeOK
    <2>3. [op |-> "ack", mailbox |-> f.mailbox, upto |-> f.seq, life |-> f.life]
            \in Request
      BY <2>2 DEF MessageRow, Request
    <2>4. QED BY <2>1, <2>3 DEF Authenticate
  <1>3. CASE \E m \in Mailbox : CreateCheck(h, m, c)
    <2>1. PICK m \in Mailbox : CreateCheck(h, m, c)
      BY <1>3
    <2>2. [op |-> "create", mailbox |-> m, cap |-> c] \in Request
      BY DEF Request
    <2>3. QED BY <2>1, <2>2 DEF CreateCheck
  <1>4. CASE \E m \in Mailbox, size \in Size : PutStart(h, m, c, size)
    <2>1. PICK m \in Mailbox, size \in Size : PutStart(h, m, c, size)
      BY <1>4
    <2>2. [op |-> "put", mailbox |-> m, size |-> size] \in Request
      BY DEF Request
    <2>3. QED BY <2>1, <2>2 DEF PutStart, Authenticate
  <1>5. CASE \E m \in Mailbox : GetStart(h, m, c)
    <2>1. PICK m \in Mailbox, w \in 0..MaxWait :
             Authenticate(h, c, [op |-> "get", mailbox |-> m, wait |-> w])
      BY <1>5 DEF GetStart
    <2>2. [op |-> "get", mailbox |-> m, wait |-> w] \in Request
      BY DEF Request
    <2>3. QED BY <2>1, <2>2 DEF Authenticate
  <1>6. CASE \E m \in Mailbox : DeleteStart(h, m, c)
    <2>1. PICK m \in Mailbox : DeleteStart(h, m, c)
      BY <1>6
    <2>2. [op |-> "delete", mailbox |-> m] \in Request
      BY DEF Request
    <2>3. QED BY <2>1, <2>2 DEF DeleteStart, Authenticate
  <1>7. CASE \E m \in Mailbox, chunk \in Chunk, size \in Size :
                UploadStart(h, m, c, chunk, size)
    <2>1. PICK m \in Mailbox, chunk \in Chunk, size \in Size :
             UploadStart(h, m, c, chunk, size)
      BY <1>7
    <2>2. [op |-> "upload", mailbox |-> m, chunk |-> chunk, size |-> size] \in Request
      BY DEF Request
    <2>3. QED BY <2>1, <2>2 DEF UploadStart, Authenticate
  <1>8. CASE \E m \in Mailbox, chunk \in Chunk : DownloadStart(h, m, c, chunk)
    <2>1. PICK m \in Mailbox, chunk \in Chunk : DownloadStart(h, m, c, chunk)
      BY <1>8
    <2>2. [op |-> "download", mailbox |-> m, chunk |-> chunk] \in Request
      BY DEF Request
    <2>3. QED BY <2>1, <2>2 DEF DownloadStart, Authenticate
  <1>9. QED BY <1>1, <1>2, <1>3, <1>4, <1>5, <1>6, <1>7, <1>8

\* Each transaction keeps the tables well typed.
LEMMA ServeType ==
    ASSUME TypeOK, NEW h \in Handler, Serve(h)
    PROVE  TypeOK'
  <1> USE SettingsAssumption, SentinelAssumption
  <1>1. CASE CreateInsert(h)
    <2>1. inflight[h] \in Request /\ inflight[h].op = "create"
      BY <1>1, ServingRequest DEF CreateInsert
    <2>2. inflight[h].mailbox \in Mailbox /\ inflight[h].cap \in Cap
      BY <2>1, RequestFields
    <2>3. mailboxes' \in [Mailbox -> MailboxRow \cup {NoRow}]
      <3>1. /\ mailboxes \in [Mailbox -> MailboxRow \cup {NoRow}]
            /\ now \in Nat
        BY DEF TypeOK
      <3>2. [cap |-> inflight[h].cap, last_seen |-> now, next_seq |-> 1] \in MailboxRow
        BY <2>2, <3>1 DEF MailboxRow
      <3>3. QED BY <1>1, <2>2, <3>1, <3>2 DEF CreateInsert
    <2>4. lives' \in [Mailbox -> Nat]
      <3>1. lives \in [Mailbox -> Nat]
        BY DEF TypeOK
      <3>2. \/ lives' = [lives EXCEPT ![inflight[h].mailbox] = @ + 1]
            \/ UNCHANGED lives
        BY <1>1 DEF CreateInsert
      <3>3. QED BY <2>2, <3>1, <3>2
    <2>5. QED BY <1>1, <2>3, <2>4 DEF CreateInsert, Finish, TypeOK
  <1>2. CASE PutMessage(h)
    <2>1. inflight[h] \in Request /\ inflight[h].op = "put"
      BY <1>2, ServingRequest DEF PutMessage
    <2>2. inflight[h].mailbox \in Mailbox /\ inflight[h].size \in Nat
      BY <2>1, RequestFields
    <2> DEFINE m == inflight[h].mailbox
               size == inflight[h].size
    <2> HIDE DEF m, size
    <2>3. CASE UNCHANGED <<tables, accepted>>
      BY <1>2, <2>3 DEF PutMessage, Finish, TypeOK, tables
    <2>4. CASE mailboxes[m] # NoRow /\ Accept(m, size) /\ UNCHANGED blobs
      <3>1. m \in Mailbox /\ size \in Nat
        BY <2>2 DEF m, size
      <3>2. mailboxes[m] \in MailboxRow
        BY <2>4, <3>1 DEF TypeOK
      <3>3. mailboxes[m].next_seq \in Nat \ {0}
        BY <3>2 DEF MailboxRow
      <3>4. mailboxes' \in [Mailbox -> MailboxRow \cup {NoRow}]
        <4>1. /\ mailboxes \in [Mailbox -> MailboxRow \cup {NoRow}]
              /\ now \in Nat
          BY DEF TypeOK
        <4>2. [mailboxes[m] EXCEPT !.last_seen = now, !.next_seq = @ + 1] \in MailboxRow
          BY <3>2, <4>1, AdvancedRow
        <4>3. QED BY <2>4, <3>1, <4>1, <4>2 DEF Accept
      <3>5. [mailbox |-> m, seq |-> mailboxes[m].next_seq, size |-> size,
             life |-> lives[m], nth |-> accepted[m]] \in MessageRow
        BY <3>1, <3>3 DEF TypeOK, MessageRow
      <3>6. messages' \subseteq MessageRow
        BY <2>4, <3>5 DEF Accept, TypeOK
      <3>7. IsFiniteSet(messages')
        BY <2>4, FS_AddElement DEF Accept, TypeOK
      <3>8. accepted' \in [Mailbox -> Nat]
        <4>1. accepted \in [Mailbox -> Nat]
          BY DEF TypeOK
        <4>2. QED BY <2>4, <3>1, <4>1 DEF Accept
      <3>9. QED
        BY <1>2, <2>4, <3>4, <3>6, <3>7, <3>8 DEF PutMessage, Finish, TypeOK
    <2>5. QED BY <1>2, <2>3, <2>4 DEF PutMessage, m, size
  <1>3. CASE GetPoll(h)
    <2>1. inflight[h] \in Request /\ inflight[h].op = "get"
      BY <1>3, ServingRequest DEF GetPoll
    <2>2. FirstMessages(inflight[h].mailbox) \subseteq MessageRow
      BY DEF FirstMessages, MessagesOf, TypeOK
    <2>3. fetched' \subseteq MessageRow
      BY <1>3, <2>2 DEF GetPoll, TypeOK
    <2>4. inflight' \in [Handler -> Request \cup {Idle}]
      BY <1>3, <2>1, EditedRequests DEF GetPoll, Finish, TypeOK
    <2>5. QED BY <1>3, <2>3, <2>4 DEF GetPoll, TypeOK, tables
  <1>4. CASE AckMessages(h)
    <2>1. IsFiniteSet(messages')
      BY <1>4, FS_Subset DEF AckMessages, TypeOK
    <2>2. QED BY <1>4, <2>1 DEF AckMessages, Finish, TypeOK, history
  <1>5. CASE DeleteMailbox(h)
    <2>1. messages' \subseteq messages
      BY <1>5 DEF DeleteMailbox, Without
    <2>2. IsFiniteSet(messages')
      BY <2>1, FS_Subset DEF TypeOK
    <2>3. blobs' \in [Chunk -> BlobRow \cup {NoRow}]
      BY <1>5 DEF DeleteMailbox, BlobsWithout, TypeOK
    <2>4. mailboxes' \in [Mailbox -> MailboxRow \cup {NoRow}]
      BY <1>5 DEF DeleteMailbox, Without, TypeOK
    <2>5. QED BY <1>5, <2>1, <2>2, <2>3, <2>4 DEF DeleteMailbox, Finish, TypeOK, history
  <1>6. CASE UploadCheck(h)
    <2>1. inflight[h] \in Request /\ inflight[h].op = "upload"
      BY <1>6, ServingRequest DEF UploadCheck
    <2>2. inflight' \in [Handler -> Request \cup {Idle}]
      BY <1>6, <2>1, EditedRequests DEF UploadCheck, Finish, TypeOK
    <2>3. QED BY <1>6, <2>2 DEF UploadCheck, TypeOK, tables, history
  <1>7. CASE UploadStore(h)
    <2>1. inflight[h] \in Request /\ inflight[h].op = "store"
      BY <1>7, ServingRequest DEF UploadStore
    <2>2. /\ inflight[h].mailbox \in Mailbox
          /\ inflight[h].chunk \in Chunk
          /\ inflight[h].size \in Nat
      BY <2>1, RequestFields
    <2>3. blobs' \in [Chunk -> BlobRow \cup {NoRow}]
      <3>1. blobs \in [Chunk -> BlobRow \cup {NoRow}] /\ now \in Nat
        BY DEF TypeOK
      <3>2. [mailbox |-> inflight[h].mailbox, size |-> inflight[h].size,
             created_at |-> now] \in BlobRow
        BY <2>2, <3>1 DEF BlobRow
      <3>3. QED BY <1>7, <2>2, <3>1, <3>2 DEF UploadStore
    <2>4. QED BY <1>7, <2>3 DEF UploadStore, Finish, TypeOK
  <1>8. CASE DownloadBlob(h)
    BY <1>8 DEF DownloadBlob, Finish, TypeOK, tables, history
  <1>9. QED
    BY <1>1, <1>2, <1>3, <1>4, <1>5, <1>6, <1>7, <1>8 DEF Serve

\* Every step of the relay preserves the types.
LEMMA TypeStep == TypeOK /\ [Next]_vars => TypeOK'
  <1> SUFFICES ASSUME TypeOK, [Next]_vars PROVE TypeOK'
    OBVIOUS
  <1>1. ASSUME NEW h \in Handler, Arrive(h) PROVE TypeOK'
    BY <1>1, ArriveType DEF TypeOK, tables, history
  <1>2. ASSUME NEW h \in Handler, Serve(h) PROVE TypeOK'
    BY <1>2, ServeType
  <1>3. CASE Housekeeping
    <2>1. messages' \subseteq messages
      BY <1>3 DEF Housekeeping, Without
    <2>2. IsFiniteSet(messages')
      BY <2>1, FS_Subset DEF TypeOK
    <2>3. blobs' \in [Chunk -> BlobRow \cup {NoRow}]
      BY <1>3 DEF Housekeeping, BlobsWithout, TypeOK
    <2>4. mailboxes' \in [Mailbox -> MailboxRow \cup {NoRow}]
      BY <1>3 DEF Housekeeping, Without, TypeOK
    <2>5. QED BY <1>3, <2>1, <2>2, <2>3, <2>4 DEF Housekeeping, TypeOK, history
  <1>4. CASE Restart
    BY <1>4 DEF Restart, TypeOK, tables, history
  <1>5. CASE Tick
    <2>1. now' \in Nat
      <3>1. now \in Nat
        BY DEF TypeOK
      <3>2. QED BY <1>5, <3>1 DEF Tick
    <2>2. QED BY <1>5, <2>1 DEF Tick, TypeOK, tables, history
  <1>6. CASE UNCHANGED vars
    BY <1>6 DEF vars, TypeOK
  <1>7. QED BY <1>1, <1>2, <1>3, <1>4, <1>5, <1>6 DEF Next

\* The relay's tables, requests and histories keep their types in every
\* reachable state.
THEOREM TypeCorrect == Spec => []TypeOK
  <1>1. Init => TypeOK
    BY FS_EmptySet DEF Init, TypeOK
  <1>2. QED BY <1>1, TypeStep, PTL DEF Spec

-----------------------------------------------------------------------------
(* The inductive invariant.                                                *)

\* The columns of stored and of returned messages.
LEMMA RowFields ==
    ASSUME TypeOK, NEW r \in messages \cup fetched
    PROVE  /\ r \in MessageRow
           /\ r.mailbox \in Mailbox
           /\ r.seq \in Nat
           /\ r.life \in Nat
  <1>1. r \in MessageRow
    BY DEF TypeOK
  <1>2. QED BY <1>1 DEF MessageRow

\* An ack in flight stays justified when handler h moves on, unless h itself
\* starts an ack without a response to base it on.
LEMMA AckIssuedStep ==
    ASSUME TypeOK, AckIssued, fetched \subseteq fetched',
           NEW h \in Handler, NEW r \in Request \cup {Idle},
           inflight' = [inflight EXCEPT ![h] = r],
           r # Idle /\ r.op = "ack" =>
              \E f \in fetched : /\ f.mailbox = r.mailbox
                                 /\ f.seq = r.upto
                                 /\ f.life = r.life
    PROVE  AckIssued'
  <1> SUFFICES ASSUME NEW g \in Handler, Serving(g, "ack")'
               PROVE  \E f \in fetched' : /\ f.mailbox = inflight'[g].mailbox
                                         /\ f.seq = inflight'[g].upto
                                         /\ f.life = inflight'[g].life
    BY DEF AckIssued
  <1>0. inflight \in [Handler -> Request \cup {Idle}]
    BY DEF TypeOK
  <1>1. CASE g = h
    <2>1. inflight'[g] = r
      BY <1>0, <1>1
    <2>2. QED BY <2>1 DEF Serving
  <1>2. CASE g # h
    <2>1. inflight'[g] = inflight[g]
      BY <1>0, <1>2
    <2>2. Serving(g, "ack")
      BY <2>1 DEF Serving
    <2>3. QED BY <2>1, <2>2 DEF AckIssued
  <1>3. QED BY <1>1, <1>2

\* Removing messages keeps the message quota.
LEMMA CountShrinks ==
    ASSUME TypeOK, TypeOK', CountHeld, messages' \subseteq messages
    PROVE  CountHeld'
  <1> SUFFICES ASSUME NEW m \in Mailbox
               PROVE  Cardinality(MessagesOf(m)') <= MaxMessages
    BY DEF CountHeld
  <1>1. IsFiniteSet(messages)
    BY DEF TypeOK
  <1>2. MessagesOf(m) \subseteq messages /\ MessagesOf(m)' \subseteq MessagesOf(m)
    BY DEF MessagesOf
  <1>3. IsFiniteSet(MessagesOf(m))
    BY <1>1, <1>2, FS_Subset
  <1>4. /\ Cardinality(MessagesOf(m)') <= Cardinality(MessagesOf(m))
        /\ IsFiniteSet(MessagesOf(m)')
    BY <1>2, <1>3, FS_Subset
  <1>5. /\ Cardinality(MessagesOf(m)') \in Nat
        /\ Cardinality(MessagesOf(m)) \in Nat
    BY <1>3, <1>4, FS_CardinalityType
  <1>6. QED
    BY <1>4, <1>5, SettingsAssumption DEF CountHeld

\* A step that stores, returns and creates nothing, and whose removals leave no
\* orphan, preserves the invariant.
LEMMA ShrinkStep ==
    ASSUME IndInv, TypeOK', NoOrphans', AckIssued',
           messages' \subseteq messages, fetched' = fetched, lives' = lives,
           \A m \in Mailbox : mailboxes'[m] \in {mailboxes[m], NoRow}
    PROVE  IndInv'
  <1>1. TypeOK
    BY DEF IndInv
  <1>2. SeqBelowNext'
    <2> SUFFICES ASSUME NEW r \in messages' \cup fetched'
                 PROVE  /\ r.life <= lives'[r.mailbox]
                        /\ r.life = lives'[r.mailbox] /\ mailboxes'[r.mailbox] # NoRow
                              => r.seq < mailboxes'[r.mailbox].next_seq
      BY DEF SeqBelowNext
    <2>1. r \in messages \cup fetched
      OBVIOUS
    <2>2. r.mailbox \in Mailbox
      BY <1>1, <2>1, RowFields
    <2>3. QED BY <2>1, <2>2 DEF IndInv, SeqBelowNext
  <1>3. SeqIdentifiesMessage'
    BY DEF IndInv, SeqIdentifiesMessage
  <1>4. FetchedPrefix'
    BY DEF IndInv, FetchedPrefix
  <1>5. CountHeld'
    BY <1>1, CountShrinks DEF IndInv
  <1>6. QED BY <1>2, <1>3, <1>4, <1>5 DEF IndInv

\* The same when no table changes at all.
LEMMA QuietStep ==
    ASSUME IndInv, TypeOK', AckIssued', UNCHANGED <<tables, lives, fetched>>
    PROVE  IndInv'
  <1>1. NoOrphans'
    BY DEF IndInv, NoOrphans, tables
  <1>2. QED BY <1>1, ShrinkStep DEF tables

\* Registering a mailbox id begins a life that nothing stored belongs to.
LEMMA CreateStep ==
    ASSUME IndInv, TypeOK', NEW h \in Handler, CreateInsert(h)
    PROVE  IndInv'
  <1>1. TypeOK /\ AckIssued
    BY DEF IndInv
  <1>2. inflight[h] \in Request
    BY <1>1, ServingRequest DEF CreateInsert
  <1> DEFINE m == inflight[h].mailbox
  <1>3. m \in Mailbox
    BY <1>2, RequestFields
  <1>4. AckIssued'
    BY <1>1, AckIssuedStep DEF CreateInsert, Finish
  <1>5. CASE UNCHANGED <<mailboxes, lives>>
    BY <1>4, <1>5, QuietStep DEF CreateInsert, tables
  <1>6. CASE /\ mailboxes[m] = NoRow
             /\ mailboxes' = [mailboxes EXCEPT ![m] =
                  [cap |-> inflight[h].cap, last_seen |-> now, next_seq |-> 1]]
             /\ lives' = [lives EXCEPT ![m] = @ + 1]
    <2>1. /\ mailboxes \in [Mailbox -> MailboxRow \cup {NoRow}]
          /\ lives \in [Mailbox -> Nat]
          /\ blobs \in [Chunk -> BlobRow \cup {NoRow}]
      BY <1>1 DEF TypeOK
    <2>2. UNCHANGED <<messages, blobs, fetched>>
      BY DEF CreateInsert
    <2>3. \A r \in messages : r.mailbox # m
      BY <1>6 DEF IndInv, NoOrphans
    <2>4. mailboxes'[m] # NoRow
      <3>1. mailboxes'[m] = [cap |-> inflight[h].cap, last_seen |-> now, next_seq |-> 1]
        BY <1>3, <1>6, <2>1
      <3>2. inflight[h].cap \in Cap /\ now \in Nat
        BY <1>1, <1>2, RequestFields, ServingRequest DEF CreateInsert, TypeOK
      <3>3. mailboxes'[m] \in MailboxRow
        BY <3>1, <3>2 DEF MailboxRow
      <3>4. QED BY <3>3, SentinelAssumption
    <2>5. \A k \in Mailbox : k # m => mailboxes'[k] = mailboxes[k] /\ lives'[k] = lives[k]
      BY <1>3, <1>6, <2>1
    <2>6. lives'[m] = lives[m] + 1
      BY <1>3, <1>6, <2>1
    <2>7. NoOrphans'
      <3>1. ASSUME NEW r \in messages'
            PROVE  mailboxes'[r.mailbox] # NoRow /\ r.life = lives'[r.mailbox]
        <4>1. r \in messages /\ r.mailbox # m /\ r.mailbox \in Mailbox
          BY <1>1, <2>2, <2>3, RowFields
        <4>2. QED BY <2>5, <4>1 DEF IndInv, NoOrphans
      <3>2. ASSUME NEW c \in Chunk, blobs'[c] # NoRow
            PROVE  mailboxes'[blobs'[c].mailbox] # NoRow
        <4>1. blobs'[c] = blobs[c]
          BY <2>2
        <4>2. mailboxes[blobs[c].mailbox] # NoRow
          BY <3>2, <4>1 DEF IndInv, NoOrphans
        <4>3. blobs[c].mailbox \in Mailbox
          BY <2>1, <3>2, <4>1 DEF BlobRow
        <4>4. QED BY <1>6, <2>5, <4>1, <4>2, <4>3
      <3>3. QED BY <3>1, <3>2 DEF NoOrphans
    <2>8. SeqBelowNext'
      <3> SUFFICES ASSUME NEW r \in messages' \cup fetched'
                   PROVE  /\ r.life <= lives'[r.mailbox]
                          /\ r.life = lives'[r.mailbox] /\ mailboxes'[r.mailbox] # NoRow
                                => r.seq < mailboxes'[r.mailbox].next_seq
        BY DEF SeqBelowNext
      <3>1. r \in messages \cup fetched
        BY <2>2
      <3>2. r.mailbox \in Mailbox /\ r.life \in Nat
        BY <1>1, <3>1, RowFields
      <3>3. /\ r.life <= lives[r.mailbox]
            /\ r.life = lives[r.mailbox] /\ mailboxes[r.mailbox] # NoRow
                  => r.seq < mailboxes[r.mailbox].next_seq
        BY <3>1 DEF IndInv, SeqBelowNext
      <3>4. CASE r.mailbox = m
        <4>1. r.life < lives'[m]
          BY <1>3, <2>1, <2>6, <3>2, <3>3, <3>4
        <4>2. QED BY <1>3, <2>1, <2>6, <3>2, <3>4, <4>1
      <3>5. CASE r.mailbox # m
        BY <2>5, <3>2, <3>3, <3>5
      <3>6. QED BY <3>4, <3>5
    <2>9. SeqIdentifiesMessage' /\ FetchedPrefix'
      BY <2>2 DEF IndInv, SeqIdentifiesMessage, FetchedPrefix
    <2>10. CountHeld'
      BY <1>1, <2>2, CountShrinks DEF IndInv
    <2>11. QED BY <1>4, <2>7, <2>8, <2>9, <2>10 DEF IndInv
  <1>7. QED BY <1>5, <1>6 DEF CreateInsert

\* A stored message takes the next seq of its mailbox, above every one that the
\* current life has used, within the quota.
LEMMA PutStep ==
    ASSUME IndInv, TypeOK', NEW h \in Handler, PutMessage(h)
    PROVE  IndInv'
  <1>1. TypeOK /\ AckIssued
    BY DEF IndInv
  <1>2. inflight[h] \in Request /\ inflight[h].op = "put"
    BY <1>1, ServingRequest DEF PutMessage
  <1> DEFINE m == inflight[h].mailbox
             size == inflight[h].size
             new == [mailbox |-> m, seq |-> mailboxes[m].next_seq, size |-> size,
                     life |-> lives[m], nth |-> accepted[m]]
  <1>3. m \in Mailbox
    BY <1>2, RequestFields
  <1>4. UNCHANGED <<lives, fetched>>
    BY DEF PutMessage
  <1>5. AckIssued'
    BY <1>1, <1>4, AckIssuedStep DEF PutMessage, Finish
  <1>6. CASE UNCHANGED <<tables, accepted>>
    BY <1>4, <1>5, <1>6, QuietStep
  <1>7. CASE /\ mailboxes[m] # NoRow
             /\ ~QuotaExceeded(m, size)
             /\ Accept(m, size)
             /\ UNCHANGED blobs
    <2>1. /\ mailboxes \in [Mailbox -> MailboxRow \cup {NoRow}]
          /\ lives \in [Mailbox -> Nat]
          /\ blobs \in [Chunk -> BlobRow \cup {NoRow}]
          /\ IsFiniteSet(messages)
      BY <1>1 DEF TypeOK
    <2>2. mailboxes[m] \in MailboxRow
      BY <1>3, <1>7, <2>1
    <2>3. mailboxes[m].next_seq \in Nat \ {0}
      BY <2>2 DEF MailboxRow
    <2>4. messages' = messages \cup {new}
      BY <1>7 DEF Accept
    <2>5. mailboxes' = [mailboxes EXCEPT ![m].last_seen = now, ![m].next_seq = @ + 1]
      BY <1>7 DEF Accept
    <2>6. /\ new.mailbox = m /\ new.seq = mailboxes[m].next_seq
          /\ new.life = lives[m]
      OBVIOUS
    <2> HIDE DEF new
    <2>7. \A k \in Mailbox : k # m => mailboxes'[k] = mailboxes[k]
      BY <1>3, <2>1, <2>5
    <2>8. mailboxes'[m] # NoRow /\ mailboxes'[m].next_seq = mailboxes[m].next_seq + 1
      <3>1. mailboxes'[m] = [mailboxes[m] EXCEPT !.last_seen = now, !.next_seq = @ + 1]
        BY <1>3, <2>1, <2>5
      <3>2. now \in Nat
        BY <1>1 DEF TypeOK
      <3>3. mailboxes'[m] \in MailboxRow
        BY <2>2, <3>1, <3>2, AdvancedRow
      <3>4. mailboxes'[m].next_seq = mailboxes[m].next_seq + 1
        BY <2>2, <3>1 DEF MailboxRow
      <3>5. QED BY <3>3, <3>4, SentinelAssumption
    <2>9. NoOrphans'
      <3>1. ASSUME NEW r \in messages'
            PROVE  mailboxes'[r.mailbox] # NoRow /\ r.life = lives'[r.mailbox]
        <4>1. CASE r = new
          BY <1>4, <2>6, <2>8, <4>1
        <4>2. CASE r \in messages
          <5>1. r.mailbox \in Mailbox
            BY <1>1, <4>2, RowFields
          <5>2. mailboxes[r.mailbox] # NoRow /\ r.life = lives[r.mailbox]
            BY <4>2 DEF IndInv, NoOrphans
          <5>3. QED BY <1>4, <2>7, <2>8, <5>1, <5>2
        <4>3. QED BY <2>4, <4>1, <4>2
      <3>2. ASSUME NEW c \in Chunk, blobs'[c] # NoRow
            PROVE  mailboxes'[blobs'[c].mailbox] # NoRow
        <4>1. blobs'[c] = blobs[c]
          BY <1>7
        <4>2. mailboxes[blobs[c].mailbox] # NoRow
          BY <3>2, <4>1 DEF IndInv, NoOrphans
        <4>3. blobs[c].mailbox \in Mailbox
          BY <2>1, <3>2, <4>1 DEF BlobRow
        <4>4. QED BY <2>7, <2>8, <4>1, <4>2, <4>3
      <3>3. QED BY <3>1, <3>2 DEF NoOrphans
    <2>10. \A r \in messages \cup fetched :
              r.mailbox = m /\ r.life = lives[m] => r.seq < mailboxes[m].next_seq
      BY <1>7 DEF IndInv, SeqBelowNext
    <2>11. SeqBelowNext'
      <3> SUFFICES ASSUME NEW r \in messages' \cup fetched'
                   PROVE  /\ r.life <= lives'[r.mailbox]
                          /\ r.life = lives'[r.mailbox] /\ mailboxes'[r.mailbox] # NoRow
                                => r.seq < mailboxes'[r.mailbox].next_seq
        BY DEF SeqBelowNext
      <3>1. CASE r = new
        BY <1>3, <1>4, <2>1, <2>3, <2>6, <2>8, <3>1
      <3>2. CASE r \in messages \cup fetched
        <4>1. r.mailbox \in Mailbox /\ r.seq \in Nat
          BY <1>1, <3>2, RowFields
        <4>2. /\ r.life <= lives[r.mailbox]
              /\ r.life = lives[r.mailbox] /\ mailboxes[r.mailbox] # NoRow
                    => r.seq < mailboxes[r.mailbox].next_seq
          BY <3>2 DEF IndInv, SeqBelowNext
        <4>3. CASE r.mailbox = m
          BY <1>4, <1>7, <2>3, <2>8, <4>1, <4>2, <4>3
        <4>4. CASE r.mailbox # m
          BY <1>4, <2>7, <4>1, <4>2, <4>4
        <4>5. QED BY <4>3, <4>4
      <3>3. QED BY <1>4, <2>4, <3>1, <3>2
    <2>12. SeqIdentifiesMessage'
      <3> SUFFICES ASSUME NEW x \in messages' \cup fetched',
                          NEW y \in messages' \cup fetched',
                          x.mailbox = y.mailbox, x.life = y.life, x.seq = y.seq
                   PROVE  x = y
        BY DEF SeqIdentifiesMessage
      <3>1. ASSUME NEW r \in messages \cup fetched, r.mailbox = new.mailbox,
                   r.life = new.life, r.seq = new.seq
            PROVE  FALSE
        BY <2>3, <2>6, <2>10, <3>1
      <3>2. CASE x \in messages \cup fetched /\ y \in messages \cup fetched
        BY <3>2 DEF IndInv, SeqIdentifiesMessage
      <3>3. QED BY <1>4, <2>4, <3>1, <3>2
    <2>13. FetchedPrefix'
      <3> SUFFICES ASSUME NEW f \in fetched, NEW r \in messages', r.mailbox = f.mailbox,
                          r.life = f.life, r.seq <= f.seq
                   PROVE  r \in fetched
        BY <1>4 DEF FetchedPrefix
      <3>1. CASE r = new
        <4>1. f.seq \in Nat
          BY <1>1, RowFields
        <4>2. f.seq < mailboxes[m].next_seq
          BY <2>6, <2>10, <3>1
        <4>3. QED BY <2>3, <2>6, <3>1, <4>1, <4>2
      <3>2. CASE r \in messages
        BY <3>2 DEF IndInv, FetchedPrefix
      <3>3. QED BY <2>4, <3>1, <3>2
    <2>14. CountHeld'
      <3> SUFFICES ASSUME NEW k \in Mailbox
                   PROVE  Cardinality(MessagesOf(k)') <= MaxMessages
        BY DEF CountHeld
      <3>1. IsFiniteSet(MessagesOf(k))
        <4>1. MessagesOf(k) \subseteq messages
          BY DEF MessagesOf
        <4>2. QED BY <2>1, <4>1, FS_Subset
      <3>2. Cardinality(MessagesOf(k)) \in Nat /\ Cardinality(MessagesOf(k)) <= MaxMessages
        BY <3>1, FS_CardinalityType DEF IndInv, CountHeld
      <3>3. CASE k = m
        <4>1. MessagesOf(k)' = MessagesOf(k) \cup {new}
          BY <2>4, <2>6, <3>3 DEF MessagesOf
        <4>2. Cardinality(MessagesOf(k)) < MaxMessages
          BY <1>7, <3>2, <3>3, SettingsAssumption DEF QuotaExceeded
        <4>3. \/ Cardinality(MessagesOf(k)') = Cardinality(MessagesOf(k)) + 1
              \/ Cardinality(MessagesOf(k)') = Cardinality(MessagesOf(k))
          BY <3>1, <4>1, FS_AddElement
        <4>4. QED BY <3>2, <4>2, <4>3, SettingsAssumption
      <3>4. CASE k # m
        <4>1. MessagesOf(k)' = MessagesOf(k)
          BY <2>4, <2>6, <3>4 DEF MessagesOf
        <4>2. QED BY <3>2, <4>1
      <3>5. QED BY <3>3, <3>4
    <2>15. QED
      BY <1>5, <2>9, <2>11, <2>12, <2>13, <2>14 DEF IndInv
  <1>8. QED BY <1>6, <1>7 DEF PutMessage

\* SELECT ... ORDER BY seq LIMIT n returns a prefix: with a row it returns every
\* row of the mailbox with a smaller seq.
LEMMA FirstMessagesPrefix ==
    ASSUME TypeOK, NEW m \in Mailbox, NEW f \in FirstMessages(m),
           NEW r \in MessagesOf(m), r.seq <= f.seq
    PROVE  r \in FirstMessages(m)
  <1> DEFINE Below(x) == {q \in MessagesOf(m) : q.seq < x.seq}
  <1>1. f \in MessagesOf(m) /\ Cardinality(Below(f)) < FetchLimit
    BY DEF FirstMessages
  <1>2. \A q \in MessagesOf(m) : q.seq \in Nat
    BY RowFields DEF MessagesOf
  <1>3. Below(r) \subseteq Below(f)
    BY <1>1, <1>2
  <1>4. IsFiniteSet(Below(f))
    <2>1. Below(f) \subseteq messages
      BY DEF MessagesOf
    <2>2. QED BY <2>1, FS_Subset DEF TypeOK
  <1>5. /\ IsFiniteSet(Below(r))
        /\ Cardinality(Below(r)) <= Cardinality(Below(f))
    BY <1>3, <1>4, FS_Subset
  <1>6. Cardinality(Below(r)) \in Nat /\ Cardinality(Below(f)) \in Nat
    BY <1>4, <1>5, FS_CardinalityType
  <1>7. Cardinality(Below(r)) < FetchLimit
    BY <1>1, <1>5, <1>6, SettingsAssumption
  <1>8. QED BY <1>7 DEF FirstMessages

\* A response extends what has been returned by a prefix of what is stored.
LEMMA GetStep ==
    ASSUME IndInv, TypeOK', NEW h \in Handler, GetPoll(h)
    PROVE  IndInv'
  <1>1. TypeOK /\ AckIssued
    BY DEF IndInv
  <1>2. inflight[h] \in Request /\ inflight[h].op = "get"
    BY <1>1, ServingRequest DEF GetPoll
  <1> DEFINE m == inflight[h].mailbox
             rows == FirstMessages(m)
  <1>3. m \in Mailbox
    BY <1>2, RequestFields
  <1>4. UNCHANGED <<mailboxes, messages, blobs, lives>>
    BY DEF GetPoll, tables
  <1>5. CASE UNCHANGED fetched /\ inflight[h].wait > 0
               /\ inflight' = [inflight EXCEPT ![h].wait = @ - 1]
    <2> DEFINE r == [inflight[h] EXCEPT !.wait = @ - 1]
    <2>1. r \in Request
      BY <1>2, <1>5, EditedRequests
    <2>2. r.op # "ack"
      BY <1>2 DEF Request
    <2>3. inflight' = [inflight EXCEPT ![h] = r]
      BY <1>1, <1>5 DEF TypeOK
    <2> HIDE DEF r
    <2>4. AckIssued'
      BY <1>1, <1>5, <2>1, <2>2, <2>3, AckIssuedStep
    <2>5. QED BY <1>4, <1>5, <2>4, QuietStep DEF tables
  <1>6. CASE fetched' = fetched \cup rows /\ Finish(h)
    <2>1. AckIssued'
      BY <1>1, <1>6, AckIssuedStep DEF Finish
    <2>2. rows \subseteq messages /\ \A r \in rows : r.mailbox = m
      BY DEF FirstMessages, MessagesOf
    <2>3. messages' \cup fetched' = messages \cup fetched
      BY <1>4, <1>6, <2>2
    <2>4. NoOrphans'
      BY <1>4 DEF IndInv, NoOrphans
    <2>5. SeqBelowNext'
      BY <1>4, <2>3 DEF IndInv, SeqBelowNext
    <2>6. SeqIdentifiesMessage'
      BY <2>3 DEF IndInv, SeqIdentifiesMessage
    <2>7. FetchedPrefix'
      <3> SUFFICES ASSUME NEW f \in fetched', NEW r \in messages, r.mailbox = f.mailbox,
                          r.life = f.life, r.seq <= f.seq
                   PROVE  r \in fetched'
        BY <1>4 DEF FetchedPrefix
      <3>1. CASE f \in fetched
        BY <1>6, <3>1 DEF IndInv, FetchedPrefix
      <3>2. CASE f \in rows
        <4>1. r \in MessagesOf(m)
          BY <2>2, <3>2 DEF MessagesOf
        <4>2. r \in rows
          BY <1>1, <1>3, <3>2, <4>1, FirstMessagesPrefix
        <4>3. QED BY <1>6, <4>2
      <3>3. QED BY <1>6, <3>1, <3>2
    <2>8. CountHeld'
      BY <1>1, <1>4, CountShrinks DEF IndInv
    <2>9. QED BY <2>1, <2>4, <2>5, <2>6, <2>7, <2>8 DEF IndInv
  <1>7. QED BY <1>5, <1>6 DEF GetPoll

\* Removing a set of mailboxes with their rows leaves no orphan; housekeeping
\* may remove further blobs besides.
LEMMA WithoutStep ==
    ASSUME IndInv, TypeOK', AckIssued', NEW gone, Without(gone),
           UNCHANGED <<lives, fetched>>,
           \A c \in Chunk : blobs'[c] \in {BlobsWithout(gone)[c], NoRow}
    PROVE  IndInv'
  <1>1. TypeOK
    BY DEF IndInv
  <1>2. \A m \in Mailbox :
           /\ m \in gone => mailboxes'[m] = NoRow
           /\ m \notin gone => mailboxes'[m] = mailboxes[m]
    BY DEF Without
  <1>3. ASSUME NEW r \in messages'
        PROVE  mailboxes'[r.mailbox] # NoRow /\ r.life = lives'[r.mailbox]
    <2>1. r \in messages /\ r.mailbox \notin gone
      BY DEF Without
    <2>2. r.mailbox \in Mailbox
      BY <1>1, <2>1, RowFields
    <2>3. QED BY <1>2, <2>1, <2>2 DEF IndInv, NoOrphans
  <1>4. ASSUME NEW c \in Chunk, blobs'[c] # NoRow
        PROVE  mailboxes'[blobs'[c].mailbox] # NoRow
    <2>1. blobs'[c] = blobs[c] /\ blobs[c].mailbox \notin gone
      BY <1>4 DEF BlobsWithout
    <2>2. blobs[c].mailbox \in Mailbox
      <3>1. blobs[c] \in BlobRow
        BY <1>1, <1>4, <2>1 DEF TypeOK
      <3>2. QED BY <3>1 DEF BlobRow
    <2>3. QED BY <1>2, <1>4, <2>1, <2>2 DEF IndInv, NoOrphans
  <1>5. NoOrphans'
    BY <1>3, <1>4 DEF NoOrphans
  <1>6. messages' \subseteq messages
    BY DEF Without
  <1>7. QED BY <1>2, <1>5, <1>6, ShrinkStep

\* A chunk is stored for a mailbox that has a row at that moment.
LEMMA StoreStep ==
    ASSUME IndInv, TypeOK', NEW h \in Handler, UploadStore(h)
    PROVE  IndInv'
  <1>1. TypeOK /\ AckIssued
    BY DEF IndInv
  <1>2. inflight[h] \in Request /\ inflight[h].op = "store"
    BY <1>1, ServingRequest DEF UploadStore
  <1>3. inflight[h].mailbox \in Mailbox /\ inflight[h].chunk \in Chunk
    BY <1>2, RequestFields
  <1>4. UNCHANGED <<mailboxes, messages, lives, fetched>>
    BY DEF UploadStore
  <1>5. AckIssued'
    BY <1>1, <1>4, AckIssuedStep DEF UploadStore, Finish
  <1>6. ASSUME NEW c \in Chunk, blobs'[c] # NoRow
        PROVE  mailboxes[blobs'[c].mailbox] # NoRow
    <2>1. CASE blobs'[c] = blobs[c]
      BY <1>6, <2>1 DEF IndInv, NoOrphans
    <2>2. CASE /\ blobs'[c].mailbox = inflight[h].mailbox
               /\ mailboxes[inflight[h].mailbox] # NoRow
      BY <2>2
    <2>3. blobs \in [Chunk -> BlobRow \cup {NoRow}]
      BY <1>1 DEF TypeOK
    <2>4. QED BY <1>3, <2>1, <2>2, <2>3 DEF UploadStore
  <1>7. NoOrphans'
    BY <1>4, <1>6 DEF IndInv, NoOrphans
  <1>8. QED BY <1>4, <1>5, <1>7, ShrinkStep

\* Every transaction of a handler preserves the invariant.
LEMMA ServeStep ==
    ASSUME IndInv, TypeOK', NEW h \in Handler, Serve(h)
    PROVE  IndInv'
  <1>1. TypeOK /\ AckIssued
    BY DEF IndInv
  <1>2. CASE CreateInsert(h) \/ PutMessage(h) \/ GetPoll(h) \/ UploadStore(h)
    BY <1>2, CreateStep, PutStep, GetStep, StoreStep
  <1>3. CASE AckMessages(h)
    <2>1. AckIssued'
      BY <1>1, <1>3, AckIssuedStep DEF AckMessages, Finish, history
    <2>2. NoOrphans'
      BY <1>3 DEF AckMessages, history, IndInv, NoOrphans
    <2>3. QED BY <1>3, <2>1, <2>2, ShrinkStep DEF AckMessages, history
  <1>4. CASE DeleteMailbox(h)
    <2>1. AckIssued'
      BY <1>1, <1>4, AckIssuedStep DEF DeleteMailbox, Finish, history
    <2>2. QED BY <1>4, <2>1, WithoutStep DEF DeleteMailbox, history
  <1>5. CASE UploadCheck(h)
    <2>1. inflight[h] \in Request /\ inflight[h].op = "upload"
      BY <1>1, <1>5, ServingRequest DEF UploadCheck
    <2> DEFINE r == [inflight[h] EXCEPT !.op = "store"]
    <2>2. r \in Request
      BY <2>1, EditedRequests
    <2>3. r.op # "ack"
      BY <2>1 DEF Request
    <2>4. \/ inflight' = [inflight EXCEPT ![h] = r]
          \/ inflight' = [inflight EXCEPT ![h] = Idle]
      BY <1>1, <1>5 DEF UploadCheck, Finish, TypeOK
    <2> HIDE DEF r
    <2>5. UNCHANGED <<tables, lives, fetched>>
      BY <1>5 DEF UploadCheck, history
    <2>6. AckIssued'
      BY <1>1, <2>2, <2>3, <2>4, <2>5, AckIssuedStep
    <2>7. QED BY <2>5, <2>6, QuietStep
  <1>6. CASE DownloadBlob(h)
    <2>1. AckIssued'
      BY <1>1, <1>6, AckIssuedStep DEF DownloadBlob, Finish, history
    <2>2. QED BY <1>6, <2>1, QuietStep DEF DownloadBlob, history
  <1>7. QED BY <1>2, <1>3, <1>4, <1>5, <1>6 DEF Serve

\* Every step preserves the invariant.
LEMMA IndInvStep == IndInv /\ [Next]_vars => IndInv'
  <1> SUFFICES ASSUME IndInv, [Next]_vars PROVE IndInv'
    OBVIOUS
  <1>1. TypeOK /\ AckIssued /\ TypeOK'
    BY TypeStep DEF IndInv
  <1>2. ASSUME NEW h \in Handler, Arrive(h) PROVE IndInv'
    <2>1. UNCHANGED <<tables, lives, fetched>>
      BY <1>1, <1>2, ArriveType DEF history
    <2>2. AckIssued'
      BY <1>1, <1>2, <2>1, ArriveType, AckIssuedStep
    <2>3. QED BY <1>1, <2>1, <2>2, QuietStep
  <1>3. ASSUME NEW h \in Handler, Serve(h) PROVE IndInv'
    BY <1>1, <1>3, ServeStep
  <1>4. CASE Housekeeping
    <2>1. AckIssued'
      BY <1>1, <1>4 DEF Housekeeping, history, AckIssued, Serving
    <2>2. \A c \in Chunk : blobs'[c] \in {BlobsWithout(IdleMailboxes)[c], NoRow}
      BY <1>4 DEF Housekeeping
    <2>3. QED BY <1>1, <1>4, <2>1, <2>2, WithoutStep DEF Housekeeping, history
  <1>5. CASE Restart
    <2>1. AckIssued'
      BY <1>5 DEF Restart, AckIssued, Serving
    <2>2. QED BY <1>1, <1>5, <2>1, QuietStep DEF Restart, history
  <1>6. CASE Tick
    <2>1. AckIssued'
      BY <1>1, <1>6 DEF Tick, history, AckIssued, Serving
    <2>2. QED BY <1>1, <1>6, <2>1, QuietStep DEF Tick, history
  <1>7. CASE UNCHANGED vars
    <2>1. AckIssued'
      BY <1>1, <1>7 DEF vars, AckIssued, Serving
    <2>2. QED BY <1>1, <1>7, <2>1, QuietStep DEF vars, tables
  <1>8. QED BY <1>2, <1>3, <1>4, <1>5, <1>6, <1>7 DEF Next

\* The invariant holds in every reachable state.
LEMMA IndInvHolds == Spec => []IndInv
  <1>1. Init => IndInv
    <2> SUFFICES ASSUME Init PROVE IndInv
      OBVIOUS
    <2>1. TypeOK
      BY FS_EmptySet DEF Init, TypeOK
    <2>2. NoOrphans /\ SeqBelowNext /\ SeqIdentifiesMessage /\ FetchedPrefix
      BY DEF Init, NoOrphans, SeqBelowNext, SeqIdentifiesMessage, FetchedPrefix
    <2>3. AckIssued
      BY DEF Init, AckIssued, Serving
    <2>4. CountHeld
      <3>1. \A m \in Mailbox : MessagesOf(m) = {}
        BY DEF Init, MessagesOf
      <3>2. QED BY <3>1, FS_EmptySet, SettingsAssumption DEF CountHeld
    <2>5. QED BY <2>1, <2>2, <2>3, <2>4 DEF IndInv
  <1>2. QED BY <1>1, IndInvStep, PTL DEF Spec

-----------------------------------------------------------------------------
(* The results.                                                            *)

\* No message or blob outlives its mailbox, and no message crosses from one life
\* of a mailbox id into the next, whatever the interleaving of authenticated
\* requests with removals.
THEOREM OrphanFreedom == Spec => []NoOrphans
  <1>1. IndInv => NoOrphans
    BY DEF IndInv
  <1>2. QED BY <1>1, IndInvHolds, PTL

\* A seq is never reused within a life of a mailbox (put_message).
THEOREM SeqIdentity == Spec => []SeqIdentifiesMessage
  <1>1. IndInv => SeqIdentifiesMessage
    BY DEF IndInv
  <1>2. QED BY <1>1, IndInvHolds, PTL

\* A late or repeated ack covers only messages that a response returned.
LEMMA AckCovers == IndInv => AckCoversFetched
  <1> SUFFICES ASSUME IndInv, NEW h \in Handler, Serving(h, "ack"),
                      NEW r \in Acked(inflight[h].mailbox, inflight[h].upto),
                      r.life = inflight[h].life
               PROVE  r \in fetched
    BY DEF AckCoversFetched
  <1>1. PICK f \in fetched : /\ f.mailbox = inflight[h].mailbox
                             /\ f.seq = inflight[h].upto
                             /\ f.life = inflight[h].life
    BY DEF IndInv, AckIssued
  <1>2. r \in messages /\ r.mailbox = f.mailbox /\ r.seq <= f.seq
    BY <1>1 DEF Acked
  <1>3. QED BY <1>1, <1>2 DEF IndInv, FetchedPrefix

\* "an ack can never delete a message that was written after it" (put_message),
\* within the life of the mailbox in which it was issued.
THEOREM AckSafety == Spec => []AckCoversFetched
  <1>1. QED BY AckCovers, IndInvHolds, PTL

\* The steps that remove messages: an ack, and the loss of whole mailboxes.
LEMMA LossStep == IndInv /\ [Next]_vars => [LossExplained]_vars
  <1> SUFFICES ASSUME IndInv, Next PROVE LossExplained
    OBVIOUS
  <1>1. ASSUME NEW gone \in SUBSET Mailbox, Without(gone) PROVE LossExplained
    <2> SUFFICES ASSUME NEW r \in messages \ messages' PROVE mailboxes'[r.mailbox] = NoRow
      BY DEF LossExplained
    <2>1. r.mailbox \in gone
      BY <1>1 DEF Without
    <2>2. QED BY <1>1, <2>1 DEF Without
  <1>2. ASSUME NEW h \in Handler, AckMessages(h) PROVE LossExplained
    <2> SUFFICES ASSUME NEW r \in messages \ messages', r \notin fetched
                 PROVE  /\ Serving(h, "ack")
                        /\ inflight[h].mailbox = r.mailbox
                        /\ inflight[h].life # r.life
      BY DEF LossExplained
    <2>1. Serving(h, "ack") /\ r \in Acked(inflight[h].mailbox, inflight[h].upto)
      BY <1>2 DEF AckMessages
    <2>2. inflight[h].life # r.life
      BY <2>1, AckCovers DEF AckCoversFetched
    <2>3. QED BY <2>1, <2>2 DEF Acked
  <1>3. ASSUME NEW h \in Handler, DeleteMailbox(h) PROVE LossExplained
    <2>1. inflight[h] \in Request /\ inflight[h].op = "delete"
      BY <1>3 DEF DeleteMailbox, Serving, IndInv, TypeOK
    <2>2. inflight[h].mailbox \in Mailbox
      BY <2>1 DEF Request
    <2>3. QED BY <1>1, <1>3, <2>2 DEF DeleteMailbox
  <1>4. ASSUME Housekeeping PROVE LossExplained
    BY <1>1, <1>4 DEF Housekeeping, IdleMailboxes
  <1>5. ASSUME messages \subseteq messages' PROVE LossExplained
    BY <1>5 DEF LossExplained
  <1>6. ASSUME NEW h \in Handler, Arrive(h) PROVE messages' = messages
    BY <1>6, ArriveType DEF IndInv, tables
  <1>7. ASSUME NEW h \in Handler, PutMessage(h) PROVE messages \subseteq messages'
    BY <1>7 DEF PutMessage, Accept, tables
  <1>8. ASSUME NEW h \in Handler,
               \/ CreateInsert(h) \/ GetPoll(h) \/ UploadCheck(h)
               \/ UploadStore(h) \/ DownloadBlob(h)
        PROVE  messages' = messages
    BY <1>8 DEF CreateInsert, GetPoll, UploadCheck, UploadStore, DownloadBlob, tables
  <1>9. ASSUME Restart \/ Tick PROVE messages' = messages
    BY <1>9 DEF Restart, Tick, tables
  <1>10. QED
    BY <1>2, <1>3, <1>4, <1>5, <1>6, <1>7, <1>8, <1>9 DEF Next, Serve

\* No handler, in any interleaving with the others, with housekeeping and with
\* restarts, loses an accepted message that nobody has been given.
THEOREM MailKept == Spec => NoSilentLoss
  <1>1. QED BY LossStep, IndInvHolds, PTL DEF Spec, NoSilentLoss

-----------------------------------------------------------------------------
(* The relay implements MailStore.                                         *)

\* Every non-empty set of numbers has a least element.
LEMMA LeastNat ==
    ASSUME NEW T, T \subseteq Nat, T # {}
    PROVE  \E x \in T : \A y \in T : x <= y
  <1> DEFINE R == OpToRel(<, Nat)
  <1>1. IsWellFoundedOn(R, Nat)
    BY NatLessThanWellFounded
  <1>2. \A x, y \in Nat : y < x => <<y, x>> \in R
    BY DEF OpToRel
  <1> HIDE DEF R
  <1>3. PICK x \in T : \A y \in T : ~ (<<y, x>> \in R)
    BY <1>1, WFMin
  <1>4. \A y \in T : ~(y < x)
    BY <1>2, <1>3
  <1>5. QED BY <1>4

\* A bounded one has a greatest.
LEMMA GreatestNat ==
    ASSUME NEW T, T \subseteq Nat, T # {}, NEW b \in Nat, \A t \in T : t <= b
    PROVE  \E x \in T : \A y \in T : y <= x
  <1> DEFINE D == {b - t : t \in T}
  <1>1. \A t \in T : b - t \in Nat
    OBVIOUS
  <1>2. D \subseteq Nat
    BY <1>1
  <1>3. D # {}
    OBVIOUS
  <1>4. PICK d \in D : \A e \in D : d <= e
    <2> HIDE DEF D
    <2>1. QED BY <1>2, <1>3, LeastNat
  <1>5. PICK x \in T : d = b - x
    OBVIOUS
  <1>6. \A y \in T : b - x <= b - y
    BY <1>4, <1>5
  <1>7. QED BY <1>6

\* The numbers of the messages kept for m.
Waiting(m) == {r.seq : r \in MessagesOf(m)}

\* What MailStore sees of a mailbox with a row, and of one without.
LEMMA KeptAt ==
    ASSUME TypeOK, NEW m \in Mailbox
    PROVE  /\ mailboxes[m] = NoRow => Kept[m] = NoRow
           /\ mailboxes[m] # NoRow =>
                /\ Kept[m] = [next |-> mailboxes[m].next_seq, waiting |-> Waiting(m)]
                /\ Kept[m] # NoRow
                /\ Kept[m].next = mailboxes[m].next_seq
                /\ Kept[m].next \in Nat
                /\ Kept[m].waiting = Waiting(m)
                /\ Waiting(m) \subseteq Nat
  <1>1. mailboxes[m] = NoRow => Kept[m] = NoRow
    BY DEF Kept
  <1>2. ASSUME mailboxes[m] # NoRow
        PROVE  /\ Kept[m] = [next |-> mailboxes[m].next_seq, waiting |-> Waiting(m)]
               /\ mailboxes[m].next_seq \in Nat
               /\ Waiting(m) \subseteq Nat
    <2>1. Kept[m] = [next |-> mailboxes[m].next_seq, waiting |-> Waiting(m)]
      BY <1>2 DEF Kept, Waiting
    <2>2. mailboxes[m].next_seq \in Nat
      <3>1. mailboxes[m] \in MailboxRow
        BY <1>2 DEF TypeOK
      <3>2. QED BY <3>1 DEF MailboxRow
    <2>3. \A r \in MessagesOf(m) : r.seq \in Nat
      BY RowFields DEF MessagesOf
    <2>4. QED BY <2>1, <2>2, <2>3 DEF Waiting
  <1>3. QED BY <1>1, <1>2, SentinelAssumption

\* A step that leaves mailboxes and messages alone does not show.
LEMMA KeptQuiet == UNCHANGED <<mailboxes, messages>> => UNCHANGED Kept
  BY DEF Kept, MessagesOf

\* A step that changes what MailStore sees of one mailbox.
LEMMA KeptEdited ==
    ASSUME NEW m \in Mailbox, NEW v, Kept'[m] = v,
           \A k \in Mailbox \ {m} : Kept'[k] = Kept[k]
    PROVE  Kept' = [Kept EXCEPT ![m] = v]
  <1>1. /\ Kept = [k \in Mailbox |-> Kept[k]]
        /\ Kept' = [k \in Mailbox |-> Kept'[k]]
    BY DEF Kept
  <1> QED BY <1>1

\* create_mailbox opens a mailbox, or fails and changes nothing.
LEMMA OpenStep ==
    ASSUME IndInv, TypeOK', NEW h \in Handler, CreateInsert(h)
    PROVE  [Store!Next]_Kept
  <1>1. TypeOK
    BY DEF IndInv
  <1>2. inflight[h] \in Request
    BY <1>1, ServingRequest DEF CreateInsert
  <1> DEFINE row == [cap |-> inflight[h].cap, last_seen |-> now, next_seq |-> 1]
  <1>3. PICK m \in Mailbox : m = inflight[h].mailbox
    BY <1>2, RequestFields
  <1>4. UNCHANGED messages
    BY DEF CreateInsert
  <1>5. CASE UNCHANGED mailboxes
    BY <1>4, <1>5, KeptQuiet
  <1>6. CASE mailboxes[m] = NoRow /\ mailboxes' = [mailboxes EXCEPT ![m] = row]
    <2>1. mailboxes \in [Mailbox -> MailboxRow \cup {NoRow}]
      BY <1>1 DEF TypeOK
    <2>2. mailboxes'[m] = row /\ \A k \in Mailbox \ {m} : mailboxes'[k] = mailboxes[k]
      BY <1>3, <1>6, <2>1
    <2>3. row # NoRow
      <3>1. inflight[h].cap \in Cap /\ now \in Nat
        BY <1>1, <1>2, RequestFields, ServingRequest DEF CreateInsert, TypeOK
      <3>2. row \in MailboxRow
        BY <3>1 DEF MailboxRow
      <3>3. QED BY <3>2, SentinelAssumption
    <2>4. MessagesOf(m)' = {}
      BY <1>4, <1>6 DEF IndInv, NoOrphans, MessagesOf
    <2>5. Kept'[m] = [next |-> 1, waiting |-> {}]
      <3>1. Kept'[m] = [next |-> mailboxes'[m].next_seq,
                        waiting |-> {r.seq : r \in MessagesOf(m)'}]
        BY <2>2, <2>3 DEF Kept, MessagesOf
      <3>2. {r.seq : r \in MessagesOf(m)'} = {}
        BY <2>4
      <3>3. mailboxes'[m].next_seq = 1
        BY <2>2
      <3>4. QED BY <3>1, <3>2, <3>3
    <2>6. \A k \in Mailbox \ {m} : Kept'[k] = Kept[k]
      BY <1>4, <2>2 DEF Kept, MessagesOf
    <2>7. Kept' = [Kept EXCEPT ![m] = [next |-> 1, waiting |-> {}]]
      BY <2>5, <2>6, KeptEdited
    <2>8. Kept[m] = NoRow
      BY <1>1, <1>3, <1>6, KeptAt
    <2>9. Store!Open(m)
      BY <2>7, <2>8 DEF Store!Open
    <2>10. QED BY <1>3, <2>9 DEF Store!Next
  <1>7. QED BY <1>3, <1>5, <1>6 DEF CreateInsert

\* put_message appends under the next number, or changes nothing.
LEMMA AppendStep ==
    ASSUME IndInv, TypeOK', NEW h \in Handler, PutMessage(h)
    PROVE  [Store!Next]_Kept
  <1>1. TypeOK
    BY DEF IndInv
  <1>2. inflight[h] \in Request
    BY <1>1, ServingRequest DEF PutMessage
  <1> DEFINE size == inflight[h].size
  <1>3. PICK m \in Mailbox : m = inflight[h].mailbox
    BY <1>2, RequestFields
  <1>4. CASE UNCHANGED tables
    BY <1>4, KeptQuiet DEF tables
  <1>5. CASE mailboxes[m] # NoRow /\ Accept(m, size)
    <2> DEFINE new == [mailbox |-> m, seq |-> mailboxes[m].next_seq, size |-> size,
                       life |-> lives[m], nth |-> accepted[m]]
    <2>1. mailboxes \in [Mailbox -> MailboxRow \cup {NoRow}]
      BY <1>1 DEF TypeOK
    <2>2. messages' = messages \cup {new}
      BY <1>5 DEF Accept
    <2>3. mailboxes[m] \in MailboxRow
      BY <1>3, <1>5, <2>1
    <2>4. /\ mailboxes'[m] = [mailboxes[m] EXCEPT !.last_seen = now, !.next_seq = @ + 1]
          /\ \A k \in Mailbox \ {m} : mailboxes'[k] = mailboxes[k]
      BY <1>3, <1>5, <2>1 DEF Accept
    <2>5. mailboxes'[m].next_seq = mailboxes[m].next_seq + 1
      BY <2>3, <2>4 DEF MailboxRow
    <2>6. mailboxes'[m] # NoRow
      <3>1. now \in Nat
        BY <1>1 DEF TypeOK
      <3>2. mailboxes'[m] \in MailboxRow
        BY <2>3, <2>4, <3>1, AdvancedRow
      <3>3. QED BY <3>2, SentinelAssumption
    <2>7. new.mailbox = m /\ new.seq = mailboxes[m].next_seq
      OBVIOUS
    <2> HIDE DEF new
    <2>8. /\ MessagesOf(m)' = MessagesOf(m) \cup {new}
          /\ \A k \in Mailbox \ {m} : MessagesOf(k)' = MessagesOf(k)
      BY <2>2, <2>7 DEF MessagesOf
    <2>9. {r.seq : r \in MessagesOf(m)'} = Waiting(m) \cup {mailboxes[m].next_seq}
      BY <2>7, <2>8 DEF Waiting
    <2>10. Kept[m] # NoRow /\ Kept[m].next = mailboxes[m].next_seq /\ Kept[m].waiting = Waiting(m)
      BY <1>1, <1>3, <1>5, KeptAt
    <2>11. Kept'[m] = [next |-> Kept[m].next + 1, waiting |-> Kept[m].waiting \cup {Kept[m].next}]
      <3>1. Kept'[m] = [next |-> mailboxes'[m].next_seq,
                        waiting |-> {r.seq : r \in MessagesOf(m)'}]
        BY <1>3, <2>6 DEF Kept, MessagesOf
      <3>2. QED BY <2>5, <2>9, <2>10, <3>1
    <2>12. \A k \in Mailbox \ {m} : Kept'[k] = Kept[k]
      BY <2>4, <2>8 DEF Kept
    <2>13. Kept' = [Kept EXCEPT ![m] = [next |-> Kept[m].next + 1,
                                        waiting |-> Kept[m].waiting \cup {Kept[m].next}]]
      BY <2>11, <2>12, KeptEdited
    <2>14. Store!Put(m)
      BY <2>10, <2>13 DEF Store!Put
    <2>15. QED BY <1>3, <2>14 DEF Store!Next
  <1>6. QED BY <1>3, <1>4, <1>5 DEF PutMessage

\* ack_messages removes from the front: up to the greatest number that is waiting
\* and not above the one named, whatever life of the mailbox the ack is from.
LEMMA FrontStep ==
    ASSUME IndInv, TypeOK', NEW h \in Handler, AckMessages(h)
    PROVE  [Store!Next]_Kept
  <1>1. TypeOK
    BY DEF IndInv
  <1>2. inflight[h] \in Request /\ inflight[h].op = "ack"
    BY <1>1, ServingRequest DEF AckMessages
  <1>3. PICK m \in Mailbox, upto \in Nat : m = inflight[h].mailbox /\ upto = inflight[h].upto
    BY <1>2, RequestFields
  <1> DEFINE gone == {n \in Waiting(m) : n <= upto}
  <1>4. UNCHANGED mailboxes /\ messages' = messages \ Acked(m, upto)
    BY <1>3 DEF AckMessages
  <1>5. \A k \in Mailbox \ {m} : Kept'[k] = Kept[k]
    BY <1>4 DEF Kept, MessagesOf, Acked
  <1>6. CASE gone = {}
    <2>1. \A r \in MessagesOf(m) : ~(r.seq <= upto)
      BY <1>6 DEF Waiting
    <2>2. Acked(m, upto) = {}
      BY <2>1 DEF Acked, MessagesOf
    <2>3. QED BY <1>4, <2>2, KeptQuiet
  <1>7. CASE gone # {}
    <2>1. mailboxes[m] # NoRow
      BY <1>7 DEF Waiting, MessagesOf, IndInv, NoOrphans
    <2>2. /\ Kept[m] # NoRow /\ Kept[m].next = mailboxes[m].next_seq
          /\ Kept[m].waiting = Waiting(m) /\ Waiting(m) \subseteq Nat
      BY <1>1, <1>3, <2>1, KeptAt
    <2>3. PICK top \in gone : \A n \in gone : n <= top
      <3>1. gone \subseteq Nat /\ \A n \in gone : n <= upto
        BY <2>2
      <3> HIDE DEF gone
      <3>2. QED BY <1>3, <1>7, <3>1, GreatestNat
    <2>4. top \in Waiting(m) /\ top <= upto
      OBVIOUS
    <2>5. \A n \in Waiting(m) : n > top <=> ~(n <= upto)
      BY <1>3, <2>2, <2>3, <2>4
    <2>6. {r.seq : r \in MessagesOf(m)'} = {n \in Waiting(m) : n > top}
      <3>1. MessagesOf(m)' = {r \in MessagesOf(m) : ~(r.seq <= upto)}
        BY <1>4 DEF MessagesOf, Acked
      <3>2. \A r \in MessagesOf(m) : r.seq \in Waiting(m)
        BY DEF Waiting
      <3>3. MessagesOf(m)' = {r \in MessagesOf(m) : r.seq > top}
        BY <2>5, <3>1, <3>2
      <3>4. QED BY <3>3 DEF Waiting
    <2>7. Kept'[m] = [next |-> Kept[m].next, waiting |-> {n \in Kept[m].waiting : n > top}]
      <3>1. Kept'[m] = [next |-> mailboxes[m].next_seq,
                        waiting |-> {r.seq : r \in MessagesOf(m)'}]
        BY <1>3, <1>4, <2>1 DEF Kept, MessagesOf
      <3>2. QED BY <2>2, <2>6, <3>1
    <2>8. Kept' = [Kept EXCEPT ![m] =
             [next |-> Kept[m].next, waiting |-> {n \in Kept[m].waiting : n > top}]]
      BY <1>5, <2>7, KeptEdited
    <2>9. Store!Remove(m)
      BY <2>2, <2>4, <2>8 DEF Store!Remove
    <2>10. QED BY <1>3, <2>9 DEF Store!Next
  <1>8. QED BY <1>6, <1>7

\* Deleting mailboxes with their messages closes them.
LEMMA CloseStep ==
    ASSUME NEW gone \in SUBSET Mailbox, Without(gone)
    PROVE  [Store!Next]_Kept
  <1>1. ASSUME NEW m \in Mailbox PROVE Kept'[m] = IF m \in gone THEN NoRow ELSE Kept[m]
    <2>1. CASE m \in gone
      BY <2>1 DEF Without, Kept
    <2>2. CASE m \notin gone
      <3>1. mailboxes'[m] = mailboxes[m] /\ MessagesOf(m)' = MessagesOf(m)
        BY <2>2 DEF Without, MessagesOf
      <3>2. QED BY <2>2, <3>1 DEF Kept
    <2>3. QED BY <2>1, <2>2
  <1>2. Kept' = [m \in Mailbox |-> IF m \in gone THEN NoRow ELSE Kept[m]]
    BY <1>1 DEF Kept
  <1>3. QED BY <1>2 DEF Store!Next, Store!Close

\* Every step of the relay is a step of MailStore or does not show.
LEMMA StoreRefinementStep == IndInv /\ [Next]_vars => [Store!Next]_Kept
  <1> SUFFICES ASSUME IndInv, [Next]_vars PROVE [Store!Next]_Kept
    OBVIOUS
  <1>1. TypeOK /\ TypeOK'
    BY TypeStep DEF IndInv
  <1>2. ASSUME NEW h \in Handler, Arrive(h) PROVE UNCHANGED <<mailboxes, messages>>
    BY <1>1, <1>2, ArriveType DEF tables
  <1>3. ASSUME NEW h \in Handler,
               CreateInsert(h) \/ PutMessage(h) \/ AckMessages(h)
        PROVE  [Store!Next]_Kept
    BY <1>1, <1>3, OpenStep, AppendStep, FrontStep
  <1>4. ASSUME NEW h \in Handler,
               GetPoll(h) \/ UploadCheck(h) \/ UploadStore(h) \/ DownloadBlob(h)
        PROVE  UNCHANGED <<mailboxes, messages>>
    BY <1>4 DEF GetPoll, UploadCheck, UploadStore, DownloadBlob, tables
  <1>5. ASSUME NEW h \in Handler, DeleteMailbox(h) PROVE [Store!Next]_Kept
    <2>1. inflight[h] \in Request
      BY <1>1, <1>5, ServingRequest DEF DeleteMailbox
    <2>2. inflight[h].mailbox \in Mailbox
      BY <2>1, RequestFields
    <2>3. QED BY <1>5, <2>2, CloseStep DEF DeleteMailbox
  <1>6. CASE Housekeeping
    BY <1>6, CloseStep DEF Housekeeping, IdleMailboxes
  <1>7. CASE Restart \/ Tick \/ UNCHANGED vars
    <2>1. UNCHANGED <<mailboxes, messages>>
      BY <1>7 DEF Restart, Tick, vars, tables
    <2>2. QED BY <2>1, KeptQuiet
  <1>8. QED
    BY <1>2, <1>3, <1>4, <1>5, <1>6, <1>7, KeptQuiet DEF Next, Serve

\* Every mailbox of a relay is the queue MailStore specifies, through every
\* interleaving of handlers, housekeeping and restarts: numbers without gap or reuse
\* within a life, nothing lost but from the front or with the whole mailbox.
THEOREM MailStoreRefinement == Spec => ImplementsMailStore
  <1>1. Init => Store!Init
    BY DEF Init, Store!Init, Kept
  <1>2. QED
    BY <1>1, StoreRefinementStep, IndInvHolds, PTL
    DEF Spec, ImplementsMailStore, Store!Spec

-----------------------------------------------------------------------------
(* The byte quota: sums over finite sets of rows.                          *)

\* Induction, for a set of numbers.
LEMMA AllNat ==
    ASSUME NEW S, 0 \in S, \A n \in Nat : n \in S => n + 1 \in S
    PROVE  Nat \subseteq S
  <1> DEFINE Bad == Nat \ S
  <1> SUFFICES ASSUME Bad # {}
               PROVE  FALSE
    OBVIOUS
  <1>1. PICK k \in Bad : \A j \in Bad : k <= j
    BY LeastNat
  <1>2. k - 1 \in Nat /\ k - 1 \notin Bad
    BY <1>1
  <1> QED
    BY <1>1, <1>2

\* Taking an element out of a finite set.
LEMMA OneLess ==
    ASSUME NEW S, IsFiniteSet(S), NEW z \in S, NEW n \in Nat, Cardinality(S) = n + 1
    PROVE  IsFiniteSet(S \ {z}) /\ Cardinality(S \ {z}) = n
  <1>1. IsFiniteSet(S \ {z}) /\ Cardinality(S \ {z}) = Cardinality(S) - 1
    BY FS_RemoveElement, Zenon
  <1> QED
    BY <1>1

\* G gives every set of elements of U the sum of their weights w.
IsTotal(G, U, w) ==
    /\ G \in [SUBSET U -> Nat]
    /\ G[{}] = 0
    /\ \A s \in SUBSET U : \A x \in s : G[s] = w[x] + G[s \ {x}]
    /\ \A s \in SUBSET U : \A t \in SUBSET s : G[t] <= G[s]

\* The sums of one more element.
LEMMA TotalWith ==
    ASSUME NEW U, NEW w \in [U -> Nat], NEW z \in U, NEW G,
           IsTotal(G, U \ {z}, [y \in U \ {z} |-> w[y]])
    PROVE  \E H : IsTotal(H, U, w)
  <1> DEFINE H == [s \in SUBSET U |-> IF z \in s THEN w[z] + G[s \ {z}] ELSE G[s]]
  <1>1. \A s \in SUBSET U : s \ {z} \in SUBSET (U \ {z})
    OBVIOUS
  <1>2. /\ G \in [SUBSET (U \ {z}) -> Nat]
        /\ G[{}] = 0
        /\ \A s \in SUBSET (U \ {z}) : \A x \in s : G[s] = w[x] + G[s \ {x}]
        /\ \A s \in SUBSET (U \ {z}) : \A t \in SUBSET s : G[t] <= G[s]
    BY DEF IsTotal
  <1>3. \A s \in SUBSET U : z \in s => H[s] = w[z] + G[s \ {z}]
    OBVIOUS
  <1>4. \A s \in SUBSET U : z \notin s => s \in SUBSET (U \ {z}) /\ H[s] = G[s]
    OBVIOUS
  <1>5. H \in [SUBSET U -> Nat]
    <2>1. ASSUME NEW s \in SUBSET U
          PROVE  (IF z \in s THEN w[z] + G[s \ {z}] ELSE G[s]) \in Nat
      <3>1. CASE z \in s
        <4>1. G[s \ {z}] \in Nat /\ w[z] \in Nat
          BY <1>1, <1>2
        <4> QED
          BY <3>1, <4>1
      <3>2. CASE z \notin s
        BY <1>2, <1>4, <3>2
      <3> QED
        BY <3>1, <3>2
    <2> QED
      BY <2>1
  <1>6. H[{}] = 0
    BY <1>2, <1>4
  <1> HIDE DEF H
  <1>7. ASSUME NEW s \in SUBSET U, NEW x \in s
        PROVE  H[s] = w[x] + H[s \ {x}]
    <2> DEFINE r == s \ {z}
    <2>1. s \ {x} \in SUBSET U /\ r \in SUBSET (U \ {z})
      OBVIOUS
    <2>2. CASE x = z
      <3>1. H[s \ {z}] = G[s \ {z}]
        BY <1>4, <2>1
      <3> QED
        BY <1>3, <2>2, <3>1
    <2>3. CASE x # z /\ z \in s
      <3>1. H[s] = w[z] + G[r]
        BY <1>3, <2>3
      <3>2. x \in r /\ r \ {x} = (s \ {x}) \ {z} /\ r \ {x} \in SUBSET (U \ {z})
        BY <2>3
      <3>3. H[s \ {x}] = w[z] + G[r \ {x}]
        BY <1>3, <2>1, <2>3, <3>2
      <3>4. G[r] = w[x] + G[r \ {x}]
        BY <1>2, <2>1, <3>2
      <3>5. w[z] \in Nat /\ w[x] \in Nat /\ G[r \ {x}] \in Nat
        BY <1>2, <3>2
      <3> QED
        BY <3>1, <3>3, <3>4, <3>5
    <2>4. CASE z \notin s
      <3>1. H[s] = G[s] /\ H[s \ {x}] = G[s \ {x}] /\ s \in SUBSET (U \ {z})
        BY <1>4, <2>1, <2>4
      <3> QED
        BY <1>2, <3>1
    <2> QED
      BY <2>2, <2>3, <2>4
  <1>8. ASSUME NEW s \in SUBSET U, NEW t \in SUBSET s
        PROVE  H[t] <= H[s]
    <2> DEFINE r == s \ {z}
               q == t \ {z}
    <2>1. r \in SUBSET (U \ {z}) /\ q \in SUBSET r /\ t \in SUBSET U
      OBVIOUS
    <2>2. G[q] <= G[r] /\ G[q] \in Nat /\ G[r] \in Nat /\ w[z] \in Nat
      BY <1>2, <2>1
    <2>3. CASE z \in t
      <3>1. H[t] = w[z] + G[q] /\ H[s] = w[z] + G[r]
        BY <1>3, <2>1, <2>3
      <3> QED
        BY <2>2, <3>1
    <2>4. CASE z \notin t
      <3>1. H[t] = G[q]
        <4>1. t = q
          BY <2>4
        <4> QED
          BY <1>4, <2>1, <2>4, <4>1
      <3>2. H[s] = w[z] + G[r] \/ H[s] = G[r]
        <4>1. CASE z \in s
          BY <1>3, <4>1
        <4>2. CASE z \notin s
          <5>1. s = r
            BY <4>2
          <5> QED
            BY <1>4, <4>2, <5>1
        <4> QED
          BY <4>1, <4>2
      <3> QED
        BY <2>2, <3>1, <3>2
    <2> QED
      BY <2>3, <2>4
  <1>9. IsTotal(H, U, w)
    BY <1>5, <1>6, <1>7, <1>8 DEF IsTotal
  <1> QED
    BY <1>9

\* Every finite set with weights has sums.
LEMMA TotalExists ==
    ASSUME NEW U, IsFiniteSet(U), NEW w \in [U -> Nat]
    PROVE  \E G : IsTotal(G, U, w)
  <1> DEFINE Good == {n \in Nat : \A V : \A v :
                        IsFiniteSet(V) /\ Cardinality(V) = n /\ v \in [V -> Nat]
                          => \E G : IsTotal(G, V, v)}
  <1>1. 0 \in Good
    <2> SUFFICES ASSUME NEW V, NEW v, IsFiniteSet(V), Cardinality(V) = 0, v \in [V -> Nat]
                 PROVE  \E G : IsTotal(G, V, v)
      OBVIOUS
    <2>1. V = {}
      BY FS_EmptySet
    <2> DEFINE G == [s \in SUBSET {} |-> 0]
    <2>2. G \in [SUBSET {} -> Nat] /\ G[{}] = 0
      OBVIOUS
    <2>3. IsTotal(G, V, v)
      BY <2>1, <2>2 DEF IsTotal
    <2> QED
      BY <2>3
  <1>2. ASSUME NEW n \in Nat, n \in Good
        PROVE  n + 1 \in Good
    <2> SUFFICES ASSUME NEW V, NEW v, IsFiniteSet(V), Cardinality(V) = n + 1, v \in [V -> Nat]
                 PROVE  \E G : IsTotal(G, V, v)
      OBVIOUS
    <2>1. V # {}
      BY FS_EmptySet
    <2>2. PICK z \in V : TRUE
      BY <2>1
    <2> DEFINE R == V \ {z}
               u == [y \in R |-> v[y]]
    <2>3. IsFiniteSet(R) /\ Cardinality(R) = n
      BY OneLess
    <2>4. u \in [R -> Nat]
      OBVIOUS
    <2>5. PICK G : IsTotal(G, R, u)
      <3> HIDE DEF R, u
      <3> QED
        BY <1>2, <2>3, <2>4
    <2> QED
      BY <2>5, TotalWith
  <1> HIDE DEF Good
  <1>3. Cardinality(U) \in Good
    BY <1>1, <1>2, AllNat, FS_CardinalityType
  <1> QED
    BY <1>3 DEF Good

\* SumFunction computes them: of the weights of any V, the sum of V.
LEMMA SumIsTotal ==
    ASSUME NEW U, NEW w \in [U -> Nat], NEW G, IsTotal(G, U, w),
           NEW V \in SUBSET U, IsFiniteSet(V), NEW v,
           v = [y \in V |-> w[y]]
    PROVE  SumFunction(v) = G[V]
  <1> DEFINE Pick(s) == CHOOSE x \in s : TRUE
             Is(f) == f = [s \in SUBSET V |->
                             IF s = {} THEN 0 ELSE v[Pick(s)] + f[s \ {Pick(s)}]]
             it == CHOOSE f : Is(f)
             g == [s \in SUBSET V |-> G[s]]
  <1>1. SumFunction(v) = it[V]
    <2>1. DOMAIN v = V
      OBVIOUS
    <2> QED
      BY <2>1 DEF SumFunction, SumFunctionOnSet, FoldFunctionOnSet, MapThenFoldSet
  <1>2. \A s \in SUBSET V : s # {} => Pick(s) \in s
    OBVIOUS
  <1> HIDE DEF Pick
  <1>3. \A s \in SUBSET V : g[s] = IF s = {} THEN 0 ELSE v[Pick(s)] + g[s \ {Pick(s)}]
    <2> SUFFICES ASSUME NEW s \in SUBSET V
                 PROVE  G[s] = IF s = {} THEN 0 ELSE v[Pick(s)] + G[s \ {Pick(s)}]
      OBVIOUS
    <2>1. CASE s = {}
      BY <2>1 DEF IsTotal
    <2>2. CASE s # {}
      <3>1. Pick(s) \in s /\ v[Pick(s)] = w[Pick(s)] /\ s \in SUBSET U
        BY <1>2, <2>2
      <3> QED
        BY <2>2, <3>1 DEF IsTotal
    <2> QED
      BY <2>1, <2>2
  <1>4. Is(g)
    BY <1>3
  <1>5. Is(it)
    <2> HIDE DEF Is
    <2> QED
      BY <1>4
  <1>6. \A s \in SUBSET V : it[s] = IF s = {} THEN 0 ELSE v[Pick(s)] + it[s \ {Pick(s)}]
    <2> HIDE DEF it
    <2> QED
      BY <1>5
  <1> HIDE DEF it, g, Is
  <1> DEFINE Good == {n \in Nat : \A s \in SUBSET V : Cardinality(s) = n => it[s] = G[s]}
  <1>7. \A s \in SUBSET V : IsFiniteSet(s)
    BY FS_Subset
  <1>8. 0 \in Good
    <2> SUFFICES ASSUME NEW s \in SUBSET V, Cardinality(s) = 0
                 PROVE  it[s] = G[s]
      OBVIOUS
    <2>1. s = {}
      BY <1>7, FS_EmptySet
    <2> QED
      BY <1>6, <2>1 DEF IsTotal
  <1>9. ASSUME NEW n \in Nat, n \in Good
        PROVE  n + 1 \in Good
    <2> SUFFICES ASSUME NEW s \in SUBSET V, Cardinality(s) = n + 1
                 PROVE  it[s] = G[s]
      OBVIOUS
    <2>1. s # {}
      BY FS_EmptySet
    <2>2. Pick(s) \in s /\ s \ {Pick(s)} \in SUBSET V /\ s \in SUBSET U
      BY <1>2, <2>1
    <2>3. Cardinality(s \ {Pick(s)}) = n
      BY <1>7, <2>2, OneLess
    <2>4. it[s \ {Pick(s)}] = G[s \ {Pick(s)}]
      BY <1>9, <2>2, <2>3
    <2>5. it[s] = v[Pick(s)] + it[s \ {Pick(s)}]
      BY <1>6, <2>1
    <2>6. G[s] = w[Pick(s)] + G[s \ {Pick(s)}]
      BY <2>2 DEF IsTotal
    <2>7. v[Pick(s)] = w[Pick(s)]
      BY <2>2
    <2> QED
      BY <2>4, <2>5, <2>6, <2>7
  <1> HIDE DEF Good
  <1>10. Cardinality(V) \in Good
    BY <1>8, <1>9, AllNat, FS_CardinalityType
  <1>11. it[V] = G[V]
    BY <1>10 DEF Good
  <1> QED
    BY <1>1, <1>11

\* A sum of numbers is a number, and no smaller than that of fewer of them.
LEMMA SumFewer ==
    ASSUME NEW U, IsFiniteSet(U), NEW w \in [U -> Nat], NEW V \in SUBSET U,
           NEW v \in [V -> Nat], \A y \in V : v[y] = w[y]
    PROVE  /\ SumFunction(w) \in Nat
           /\ SumFunction(v) \in Nat
           /\ SumFunction(v) <= SumFunction(w)
  <1>1. PICK G : IsTotal(G, U, w)
    BY TotalExists
  <1>2. IsFiniteSet(V)
    BY FS_Subset
  <1>3. v = [y \in V |-> w[y]] /\ w = [y \in U |-> w[y]]
    OBVIOUS
  <1>4. SumFunction(v) = G[V]
    BY <1>1, <1>2, <1>3, SumIsTotal
  <1>5. SumFunction(w) = G[U]
    <2>1. U \in SUBSET U
      OBVIOUS
    <2> QED
      BY <1>1, <1>3, <2>1, SumIsTotal
  <1>6. G[U] \in Nat /\ G[V] \in Nat /\ G[V] <= G[U]
    BY <1>1 DEF IsTotal
  <1> QED
    BY <1>4, <1>5, <1>6

\* One more of them adds at most its own value.
LEMMA SumMore ==
    ASSUME NEW U, IsFiniteSet(U), NEW w \in [U -> Nat], NEW x,
           NEW v \in [U \cup {x} -> Nat], \A y \in U : v[y] = w[y]
    PROVE  /\ SumFunction(v) \in Nat
           /\ SumFunction(w) \in Nat
           /\ SumFunction(v) <= SumFunction(w) + v[x]
  <1> DEFINE V == U \cup {x}
  <1>1. IsFiniteSet(V)
    BY FS_AddElement
  <1>2. PICK G : IsTotal(G, V, v)
    BY <1>1, TotalExists
  <1>3. w = [y \in U |-> v[y]] /\ v = [y \in V |-> v[y]]
    OBVIOUS
  <1>4. SumFunction(w) = G[U]
    <2>1. U \in SUBSET V
      OBVIOUS
    <2> QED
      BY <1>2, <1>3, <2>1, SumIsTotal
  <1>5. SumFunction(v) = G[V]
    <2>1. V \in SUBSET V
      OBVIOUS
    <2> QED
      BY <1>1, <1>2, <1>3, <2>1, SumIsTotal
  <1>6. /\ G[V] = v[x] + G[V \ {x}]
        /\ G[V \ {x}] <= G[U]
        /\ G[V \ {x}] \in Nat /\ G[U] \in Nat /\ G[V] \in Nat
    <2>1. V \in SUBSET V /\ x \in V /\ U \in SUBSET V /\ V \ {x} \in SUBSET U
          /\ V \ {x} \in SUBSET V
      OBVIOUS
    <2> HIDE DEF V
    <2> QED
      BY <1>2, <2>1 DEF IsTotal
  <1>7. v[x] \in Nat
    OBVIOUS
  <1> QED
    BY <1>4, <1>5, <1>6, <1>7

\* Without anything to add the sum is 0.
LEMMA SumNone ==
    ASSUME NEW U, IsFiniteSet(U), NEW w \in [U -> Nat]
    PROVE  U = {} => SumFunction(w) = 0
  <1>1. PICK G : IsTotal(G, U, w)
    BY TotalExists
  <1>2. w = [y \in U |-> w[y]] /\ U \in SUBSET U
    OBVIOUS
  <1>3. SumFunction(w) = G[U]
    BY <1>1, <1>2, SumIsTotal
  <1>4. QED BY <1>1, <1>3 DEF IsTotal

\* The weights that are summed: the sizes of a mailbox's rows.
MessageSizes(m) == [r \in MessagesOf(m) |-> r.size]
BlobSizes(m) == [c \in BlobsOf(m) |-> blobs[c].size]

\* The byte quota, with the finiteness that a sum needs.
BytesHeld ==
    \A m \in Mailbox :
        /\ IsFiniteSet(BlobsOf(m))
        /\ SumFunction(MessageSizes(m)) + SumFunction(BlobSizes(m)) <= MaxBytes

\* The sizes of a mailbox's rows are numbers.
SizesTyped ==
    \A m \in Mailbox :
        /\ IsFiniteSet(MessagesOf(m))
        /\ MessageSizes(m) \in [MessagesOf(m) -> Nat]
        /\ BlobSizes(m) \in [BlobsOf(m) -> Nat]

\* As the columns have their types.
LEMMA SizeTypes == TypeOK => SizesTyped
  <1> SUFFICES ASSUME TypeOK, NEW m \in Mailbox
               PROVE  /\ IsFiniteSet(MessagesOf(m))
                      /\ MessageSizes(m) \in [MessagesOf(m) -> Nat]
                      /\ BlobSizes(m) \in [BlobsOf(m) -> Nat]
    BY DEF SizesTyped
  <1>1. IsFiniteSet(MessagesOf(m))
    <2>1. MessagesOf(m) \subseteq messages /\ IsFiniteSet(messages)
      BY DEF MessagesOf, TypeOK
    <2>2. QED BY <2>1, FS_Subset
  <1>2. \A r \in MessagesOf(m) : r.size \in Nat
    BY DEF MessagesOf, TypeOK, MessageRow
  <1>3. ASSUME NEW c \in BlobsOf(m) PROVE blobs[c].size \in Nat
    <2>1. blobs[c] \in BlobRow
      BY DEF BlobsOf, TypeOK
    <2>2. QED BY <2>1 DEF BlobRow
  <1>4. QED BY <1>1, <1>2, <1>3 DEF MessageSizes, BlobSizes

\* Removing messages and blobs keeps the byte quota.
LEMMA BytesShrink ==
    ASSUME TypeOK, TypeOK', BytesHeld, messages' \subseteq messages,
           \A c \in Chunk : blobs'[c] \in {blobs[c], NoRow}
    PROVE  BytesHeld'
  <1> SUFFICES ASSUME NEW m \in Mailbox
               PROVE  /\ IsFiniteSet(BlobsOf(m)')
                      /\ SumFunction(MessageSizes(m)') + SumFunction(BlobSizes(m)')
                           <= MaxBytes
    BY DEF BytesHeld
  <1>1. /\ IsFiniteSet(MessagesOf(m)) /\ IsFiniteSet(BlobsOf(m))
        /\ SumFunction(MessageSizes(m)) + SumFunction(BlobSizes(m)) <= MaxBytes
        /\ MessageSizes(m) \in [MessagesOf(m) -> Nat]
        /\ BlobSizes(m) \in [BlobsOf(m) -> Nat]
    BY SizeTypes DEF SizesTyped, BytesHeld
  <1>2. /\ MessageSizes(m)' \in [MessagesOf(m)' -> Nat]
        /\ BlobSizes(m)' \in [BlobsOf(m)' -> Nat]
    <2>1. SizesTyped'
      BY SizeTypes, PTL
    <2>2. QED BY <2>1 DEF SizesTyped
  <1>3. MessagesOf(m)' \in SUBSET MessagesOf(m)
    BY DEF MessagesOf
  <1>4. \A r \in MessagesOf(m)' : MessageSizes(m)'[r] = MessageSizes(m)[r]
    BY <1>3 DEF MessageSizes
  <1>5. BlobsOf(m)' \in SUBSET BlobsOf(m)
    BY DEF BlobsOf
  <1>6. \A c \in BlobsOf(m)' : BlobSizes(m)'[c] = BlobSizes(m)[c]
    <2> SUFFICES ASSUME NEW c \in BlobsOf(m)'
                 PROVE  BlobSizes(m)'[c] = BlobSizes(m)[c]
      OBVIOUS
    <2>1. c \in BlobsOf(m) /\ blobs'[c] = blobs[c]
      BY <1>5 DEF BlobsOf
    <2>2. QED BY <2>1 DEF BlobSizes
  <1>7. /\ SumFunction(MessageSizes(m)) \in Nat /\ SumFunction(MessageSizes(m)') \in Nat
        /\ SumFunction(MessageSizes(m)') <= SumFunction(MessageSizes(m))
    BY <1>1, <1>2, <1>3, <1>4, SumFewer
  <1>8. /\ SumFunction(BlobSizes(m)) \in Nat /\ SumFunction(BlobSizes(m)') \in Nat
        /\ SumFunction(BlobSizes(m)') <= SumFunction(BlobSizes(m))
    BY <1>1, <1>2, <1>5, <1>6, SumFewer
  <1>9. IsFiniteSet(BlobsOf(m)')
    BY <1>1, <1>5, FS_Subset
  <1>10. QED BY <1>1, <1>7, <1>8, <1>9, SettingsAssumption

\* put_message adds a message only within what its transaction found free.
LEMMA BytesAccept ==
    ASSUME TypeOK, TypeOK', BytesHeld, NEW h \in Handler, PutMessage(h)
    PROVE  BytesHeld'
  <1> DEFINE m == inflight[h].mailbox
             size == inflight[h].size
             new == [mailbox |-> m, seq |-> mailboxes[m].next_seq, size |-> size,
                     life |-> lives[m], nth |-> accepted[m]]
  <1>1. CASE UNCHANGED <<messages, blobs>>
    BY <1>1, BytesShrink
  <1>2. CASE /\ ~QuotaExceeded(m, size)
             /\ messages' = messages \cup {new}
             /\ UNCHANGED blobs
    <2> SUFFICES ASSUME NEW k \in Mailbox
                 PROVE  /\ IsFiniteSet(BlobsOf(k)')
                        /\ SumFunction(MessageSizes(k)') + SumFunction(BlobSizes(k)')
                             <= MaxBytes
      BY DEF BytesHeld
    <2>1. inflight[h] \in Request /\ inflight[h].op = "put"
      BY ServingRequest DEF PutMessage
    <2>2. size \in Nat
      BY <2>1, RequestFields
    <2>3. new.mailbox = m /\ new.size = size
      OBVIOUS
    <2> HIDE DEF new, m, size
    <2>4. BlobsOf(k)' = BlobsOf(k) /\ BlobSizes(k)' = BlobSizes(k)
      BY <1>2 DEF BlobsOf, BlobSizes
    <2>5. /\ IsFiniteSet(MessagesOf(k)) /\ IsFiniteSet(BlobsOf(k))
          /\ SumFunction(MessageSizes(k)) + SumFunction(BlobSizes(k)) <= MaxBytes
          /\ MessageSizes(k) \in [MessagesOf(k) -> Nat]
          /\ BlobSizes(k) \in [BlobsOf(k) -> Nat]
      BY SizeTypes DEF SizesTyped, BytesHeld
    <2>6. CASE k = m
      <3>1. MessagesOf(k)' = MessagesOf(k) \cup {new}
        BY <1>2, <2>3, <2>6 DEF MessagesOf
      <3>2. MessageSizes(k)' \in [MessagesOf(k) \cup {new} -> Nat]
        <4>1. SizesTyped'
          BY SizeTypes, PTL
        <4>2. MessageSizes(k)' \in [MessagesOf(k)' -> Nat]
          BY <4>1 DEF SizesTyped
        <4>3. QED BY <3>1, <4>2
      <3>3. /\ \A r \in MessagesOf(k) : MessageSizes(k)'[r] = MessageSizes(k)[r]
            /\ MessageSizes(k)'[new] = size
        BY <2>3, <3>1 DEF MessageSizes
      <3>4. /\ SumFunction(MessageSizes(k)) \in Nat /\ SumFunction(MessageSizes(k)') \in Nat
            /\ SumFunction(MessageSizes(k)') <= SumFunction(MessageSizes(k)) + size
        BY <2>5, <3>2, <3>3, SumMore
      <3>5. SumFunction(BlobSizes(k)) \in Nat
        BY <2>5, SumFewer
      <3>6. ~(SumFunction(MessageSizes(k)) + SumFunction(BlobSizes(k)) + size > MaxBytes)
        BY <1>2, <2>6 DEF QuotaExceeded, UsedBytes, MessageSizes, BlobSizes
      <3>7. QED
        BY <2>2, <2>4, <2>5, <3>4, <3>5, <3>6, SettingsAssumption
    <2>7. CASE k # m
      <3>1. MessagesOf(k)' = MessagesOf(k)
        BY <1>2, <2>3, <2>7 DEF MessagesOf
      <3>2. MessageSizes(k)' = MessageSizes(k)
        BY <3>1 DEF MessageSizes
      <3>3. QED BY <2>4, <2>5, <3>2
    <2>8. QED BY <2>6, <2>7
  <1>3. QED BY <1>1, <1>2 DEF PutMessage, Accept, tables

\* So does put_blob, and an upload of a chunk that exists adds nothing.
LEMMA BytesStore ==
    ASSUME TypeOK, TypeOK', BytesHeld, NEW h \in Handler, UploadStore(h)
    PROVE  BytesHeld'
  <1> DEFINE m == inflight[h].mailbox
             size == inflight[h].size
             new == inflight[h].chunk
  <1>1. UNCHANGED messages
    BY DEF UploadStore
  <1>2. CASE UNCHANGED blobs
    BY <1>1, <1>2, BytesShrink
  <1>3. CASE /\ UsedBytes(m) + size <= MaxBytes
             /\ blobs[new] = NoRow
             /\ blobs' = [blobs EXCEPT ![new] =
                   [mailbox |-> m, size |-> size, created_at |-> now]]
    <2> SUFFICES ASSUME NEW k \in Mailbox
                 PROVE  /\ IsFiniteSet(BlobsOf(k)')
                        /\ SumFunction(MessageSizes(k)') + SumFunction(BlobSizes(k)')
                             <= MaxBytes
      BY DEF BytesHeld
    <2>1. inflight[h] \in Request /\ inflight[h].op = "store"
      BY ServingRequest DEF UploadStore
    <2>2. new \in Chunk /\ size \in Nat
      BY <2>1, RequestFields
    <2>3. /\ blobs'[new] # NoRow /\ blobs'[new].mailbox = m /\ blobs'[new].size = size
          /\ \A c \in Chunk : c # new => blobs'[c] = blobs[c]
      <3>1. blobs \in [Chunk -> BlobRow \cup {NoRow}]
        BY DEF TypeOK
      <3>2. /\ blobs'[new] = [mailbox |-> m, size |-> size, created_at |-> now]
            /\ \A c \in Chunk : c # new => blobs'[c] = blobs[c]
        BY <1>3, <2>2, <3>1
      <3>3. blobs'[new] \in BlobRow
        <4>1. m \in Mailbox /\ now \in Nat
          BY <2>1, RequestFields DEF TypeOK
        <4>2. QED BY <2>2, <3>2, <4>1 DEF BlobRow
      <3>4. QED BY <3>2, <3>3, SentinelAssumption
    <2> HIDE DEF new, m, size
    <2>4. MessagesOf(k)' = MessagesOf(k)
      BY <1>1 DEF MessagesOf
    <2>5. MessageSizes(k)' = MessageSizes(k)
      BY <2>4 DEF MessageSizes
    <2>6. /\ IsFiniteSet(MessagesOf(k)) /\ IsFiniteSet(BlobsOf(k))
          /\ SumFunction(MessageSizes(k)) + SumFunction(BlobSizes(k)) <= MaxBytes
          /\ MessageSizes(k) \in [MessagesOf(k) -> Nat]
          /\ BlobSizes(k) \in [BlobsOf(k) -> Nat]
      BY SizeTypes DEF SizesTyped, BytesHeld
    <2>7. CASE k = m
      <3>1. BlobsOf(k)' = BlobsOf(k) \cup {new}
        BY <2>2, <2>3, <2>7 DEF BlobsOf
      <3>2. BlobSizes(k)' \in [BlobsOf(k) \cup {new} -> Nat]
        <4>1. SizesTyped'
          BY SizeTypes, PTL
        <4>2. BlobSizes(k)' \in [BlobsOf(k)' -> Nat]
          BY <4>1 DEF SizesTyped
        <4>3. QED BY <3>1, <4>2
      <3>3. /\ \A c \in BlobsOf(k) : BlobSizes(k)'[c] = BlobSizes(k)[c]
            /\ BlobSizes(k)'[new] = size
        <4>1. \A c \in BlobsOf(k) : c # new /\ c \in Chunk
          BY <1>3 DEF BlobsOf
        <4>2. QED BY <2>3, <3>1, <4>1 DEF BlobSizes
      <3>4. /\ SumFunction(BlobSizes(k)) \in Nat /\ SumFunction(BlobSizes(k)') \in Nat
            /\ SumFunction(BlobSizes(k)') <= SumFunction(BlobSizes(k)) + size
        BY <2>6, <3>2, <3>3, SumMore
      <3>5. SumFunction(MessageSizes(k)) \in Nat
        BY <2>6, SumFewer
      <3>6. SumFunction(MessageSizes(k)) + SumFunction(BlobSizes(k)) + size <= MaxBytes
        BY <1>3, <2>7 DEF UsedBytes, MessageSizes, BlobSizes
      <3>7. IsFiniteSet(BlobsOf(k)')
        BY <2>6, <3>1, FS_AddElement
      <3>8. QED
        BY <2>2, <2>5, <3>4, <3>5, <3>6, <3>7, SettingsAssumption
    <2>8. CASE k # m
      <3>1. BlobsOf(k)' = BlobsOf(k)
        BY <1>3, <2>2, <2>3, <2>8 DEF BlobsOf
      <3>2. \A c \in BlobsOf(k) : blobs'[c] = blobs[c]
        BY <1>3, <2>3 DEF BlobsOf
      <3>3. BlobSizes(k)' = BlobSizes(k)
        BY <3>1, <3>2 DEF BlobSizes
      <3>4. QED BY <2>5, <2>6, <3>1, <3>3
    <2>9. QED BY <2>7, <2>8
  <1>4. QED BY <1>2, <1>3 DEF UploadStore

\* Every step keeps the byte quota: two write within it, the others add nothing.
LEMMA BytesStep == IndInv /\ BytesHeld /\ [Next]_vars => BytesHeld'
  <1> SUFFICES ASSUME IndInv, BytesHeld, [Next]_vars PROVE BytesHeld'
    OBVIOUS
  <1>1. TypeOK /\ TypeOK'
    BY TypeStep DEF IndInv
  <1>2. CASE messages' \subseteq messages /\ \A c \in Chunk : blobs'[c] \in {blobs[c], NoRow}
    BY <1>1, <1>2, BytesShrink
  <1>3. ASSUME NEW gone, Without(gone),
               \A c \in Chunk : blobs'[c] \in {BlobsWithout(gone)[c], NoRow}
        PROVE  BytesHeld'
    <2>1. messages' \subseteq messages
      BY <1>3 DEF Without
    <2>2. \A c \in Chunk : blobs'[c] \in {blobs[c], NoRow}
      BY <1>3 DEF BlobsWithout
    <2>3. QED BY <1>1, <2>1, <2>2, BytesShrink
  <1>4. ASSUME NEW h \in Handler, Arrive(h) PROVE BytesHeld'
    BY <1>1, <1>2, <1>4, ArriveType DEF tables
  <1>5. ASSUME NEW h \in Handler, Serve(h) PROVE BytesHeld'
    <2>1. CASE PutMessage(h) \/ UploadStore(h)
      BY <1>1, <2>1, BytesAccept, BytesStore
    <2>2. CASE CreateInsert(h) \/ GetPoll(h) \/ UploadCheck(h) \/ DownloadBlob(h)
      BY <1>2, <2>2 DEF CreateInsert, GetPoll, UploadCheck, DownloadBlob, tables
    <2>3. CASE AckMessages(h)
      BY <1>2, <2>3 DEF AckMessages
    <2>4. CASE DeleteMailbox(h)
      BY <1>3, <2>4 DEF DeleteMailbox
    <2>5. QED BY <1>5, <2>1, <2>2, <2>3, <2>4 DEF Serve
  <1>6. CASE Housekeeping
    <2>1. \A c \in Chunk : blobs'[c] \in {BlobsWithout(IdleMailboxes)[c], NoRow}
      BY <1>6 DEF Housekeeping
    <2>2. QED BY <1>3, <1>6, <2>1 DEF Housekeeping
  <1>7. CASE Restart \/ Tick \/ UNCHANGED vars
    BY <1>2, <1>7 DEF Restart, Tick, vars, tables
  <1>8. QED BY <1>4, <1>5, <1>6, <1>7 DEF Next

\* However many puts and uploads run at the same time, no mailbox gets more
\* messages than max_messages_per_mailbox, nor more bytes of messages and chunks
\* together than max_bytes_per_mailbox.
THEOREM QuotaKept == Spec => []QuotaHeld
  <1>1. Init => BytesHeld
    <2> SUFFICES ASSUME Init, NEW m \in Mailbox
                 PROVE  /\ IsFiniteSet(BlobsOf(m))
                        /\ SumFunction(MessageSizes(m)) + SumFunction(BlobSizes(m))
                             <= MaxBytes
      BY DEF BytesHeld
    <2>1. MessagesOf(m) = {} /\ BlobsOf(m) = {}
      BY DEF Init, MessagesOf, BlobsOf
    <2>2. MessageSizes(m) \in [{} -> Nat] /\ BlobSizes(m) \in [{} -> Nat]
      BY <2>1 DEF MessageSizes, BlobSizes
    <2>3. SumFunction(MessageSizes(m)) = 0 /\ SumFunction(BlobSizes(m)) = 0
      BY <2>2, FS_EmptySet, SumNone
    <2>4. QED BY <2>1, <2>3, FS_EmptySet, SettingsAssumption
  <1>2. IndInv /\ BytesHeld => QuotaHeld
    BY DEF IndInv, CountHeld, BytesHeld, QuotaHeld, MessageSizes, BlobSizes
  <1>3. QED BY <1>1, <1>2, BytesStep, IndInvHolds, PTL DEF Spec

=============================================================================
