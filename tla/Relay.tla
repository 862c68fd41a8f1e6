------------------------------- MODULE Relay -------------------------------
(***************************************************************************)
(* One noknowledge relay: the mailboxes, messages and blobs tables of      *)
(* server/db.py, and the HTTP handlers of server/routers/mailboxes.py and  *)
(* blobs.py that read and write them.                                      *)
(*                                                                         *)
(* Every Database method is one SQLite transaction, hence one atomic step. *)
(* A handler makes several of them: it authenticates (SELECT), leaves the  *)
(* event loop, and only then runs the transaction that writes.  Between    *)
(* the two, other handlers, the hourly housekeeping and a restart of the   *)
(* process may act; inflight holds the handlers that are in between.       *)
(*                                                                         *)
(* A capability (mailbox id, read token, write token) is generated as a    *)
(* whole by its owner, so one value of Cap stands for the two token        *)
(* hashes.  Message and chunk contents are reduced to their sizes.         *)
(***************************************************************************)
EXTENDS Naturals, FiniteSets, FiniteSetsExt

CONSTANTS
    Handler,       \* requests the server can work on at the same time
    Mailbox,       \* mailbox ids
    Cap,           \* token pairs
    Chunk,         \* blob chunk ids
    Size,          \* body sizes, all within max_blob_bytes / max_chunk_bytes
    NoRow,         \* the absent row
    Idle,          \* a handler that serves no request
    MaxMessages,   \* settings.max_messages_per_mailbox
    MaxBytes,      \* settings.max_bytes_per_mailbox
    FetchLimit,    \* settings.max_messages_per_fetch
    MaxWait,       \* rounds of the long-poll loop that fit in max_wait_seconds
    MailboxTTL,    \* settings.mailbox_ttl_seconds
    BlobTTL,       \* settings.blob_ttl_seconds
    MaxClock,      \* bound: last instant of the clock
    MaxPuts,       \* bound: a mailbox id that accepted this many is sent no more
    MaxLives       \* bound: times one mailbox id is created

VARIABLES
    mailboxes,   \* table mailboxes: [cap, last_seen, next_seq] or NoRow per id
    messages,    \* table messages: a set of rows
    blobs,       \* table blobs: [mailbox, size, created_at] or NoRow per chunk
    inflight,    \* the request each handler is in the middle of, or Idle
    now,         \* int(time.time())
    lives,       \* history: how often each mailbox id has been created
    accepted,    \* history: messages each mailbox id has accepted in all lives
    fetched      \* history: messages some GET response has returned

tables == <<mailboxes, messages, blobs>>
vars == <<mailboxes, messages, blobs, inflight, now, lives, accepted, fetched>>
history == <<lives, accepted, fetched>>

ASSUME SettingsAssumption ==
    /\ MaxMessages \in Nat /\ MaxBytes \in Nat /\ FetchLimit \in Nat \ {0}
    /\ MailboxTTL \in Nat /\ BlobTTL \in Nat
    /\ Size \subseteq Nat \ {0}

ASSUME BoundsAssumption ==
    /\ MaxWait \in Nat /\ MaxClock \in Nat /\ MaxPuts \in Nat /\ MaxLives \in Nat

-----------------------------------------------------------------------------
(* Rows and requests.                                                      *)

MailboxRow == [cap : Cap, last_seen : Nat, next_seq : Nat \ {0}]
BlobRow == [mailbox : Mailbox, size : Nat, created_at : Nat]

\* A messages row.  Two fields are history: life, the incarnation of the mailbox
\* the row was written for, and nth, the message's rank among all that the
\* mailbox id ever accepted, which tells two messages apart whatever their seq.
MessageRow ==
    [mailbox : Mailbox, seq : Nat \ {0}, size : Nat, life : Nat, nth : Nat]

\* The first or second half of each handler still to run.
Request ==
    [op : {"create"}, mailbox : Mailbox, cap : Cap]
      \cup [op : {"put"}, mailbox : Mailbox, size : Size]
      \cup [op : {"get"}, mailbox : Mailbox, wait : 0..MaxWait]
      \cup [op : {"ack"}, mailbox : Mailbox, upto : Nat, life : Nat]
      \cup [op : {"delete"}, mailbox : Mailbox]
      \cup [op : {"upload", "store"}, mailbox : Mailbox, chunk : Chunk, size : Size]
      \cup [op : {"download"}, mailbox : Mailbox, chunk : Chunk]

ASSUME SentinelAssumption ==
    /\ NoRow \notin MailboxRow \cup BlobRow
    /\ NoRow \notin [next : Nat, waiting : SUBSET Nat]
    /\ Idle \notin Request

-----------------------------------------------------------------------------
Init ==
    /\ mailboxes = [m \in Mailbox |-> NoRow]
    /\ messages = {}
    /\ blobs = [c \in Chunk |-> NoRow]
    /\ inflight = [h \in Handler |-> Idle]
    /\ now = 0
    /\ lives = [m \in Mailbox |-> 0]
    /\ accepted = [m \in Mailbox |-> 0]
    /\ fetched = {}

\* The next half of handler h's request, when it is op.
Serving(h, op) == inflight[h] # Idle /\ inflight[h].op = op

Finish(h) == inflight' = [inflight EXCEPT ![h] = Idle]

\* authenticate_mailbox lets handler h go on with request r; without a row
\* (404) or with another token (401) the request ends here and leaves no trace,
\* as do one the limiter turns away (429) and one with an invalid body (400).
Authenticate(h, cap, r) ==
    /\ inflight[h] = Idle
    /\ mailboxes[r.mailbox] # NoRow
    /\ mailboxes[r.mailbox].cap = cap
    /\ inflight' = [inflight EXCEPT ![h] = r]
    /\ UNCHANGED <<tables, now, history>>

-----------------------------------------------------------------------------
(* POST /mailbox                                                           *)

\* SELECT first: an existing row answers at once (201 for the same tokens, 409
\* otherwise) and changes nothing.  A request without a body gets a fresh id
\* from the server and joins at the INSERT, as an unused id does here.
CreateCheck(h, m, c) ==
    /\ inflight[h] = Idle
    /\ mailboxes[m] = NoRow
    /\ lives[m] < MaxLives
    /\ inflight' = [inflight EXCEPT ![h] =
                      [op |-> "create", mailbox |-> m, cap |-> c]]
    /\ UNCHANGED <<tables, now, history>>

\* Mutant: the sequence column starts at 0.
CreateInsert_SeqFromZero(h) ==
    /\ Serving(h, "create")
    /\ LET m == inflight[h].mailbox IN
          /\ mailboxes[m] = NoRow
          /\ mailboxes' = [mailboxes EXCEPT ![m] =
                [cap |-> inflight[h].cap, last_seen |-> now, next_seq |-> 0]]
          /\ lives' = [lives EXCEPT ![m] = @ + 1]
    /\ Finish(h)
    /\ UNCHANGED <<messages, blobs, now, accepted, fetched>>

\* Database.create_mailbox: a plain INSERT, whose PRIMARY KEY rejects an id
\* that another request inserted since the SELECT (IntegrityError, HTTP 500).
CreateInsert(h) ==
    /\ Serving(h, "create")
    /\ LET m == inflight[h].mailbox IN
       \/ /\ mailboxes[m] = NoRow
          /\ mailboxes' = [mailboxes EXCEPT ![m] =
                [cap |-> inflight[h].cap, last_seen |-> now, next_seq |-> 1]]
          /\ lives' = [lives EXCEPT ![m] = @ + 1]
       \/ /\ mailboxes[m] # NoRow
          /\ UNCHANGED <<mailboxes, lives>>
    /\ Finish(h)
    /\ UNCHANGED <<messages, blobs, now, accepted, fetched>>

-----------------------------------------------------------------------------
(* POST /mailbox/{id}/messages                                             *)

MessagesOf(m) == {r \in messages : r.mailbox = m}
BlobsOf(m) == {c \in Chunk : blobs[c] # NoRow /\ blobs[c].mailbox = m}

\* Mutant: blobs do not count.
UsedBytes_MessagesOnly(m) == SumFunction([r \in MessagesOf(m) |-> r.size])

\* Database.usage: the bytes of the mailbox's messages and of its blobs.
UsedBytes(m) ==
    SumFunction([r \in MessagesOf(m) |-> r.size])
      + SumFunction([c \in BlobsOf(m) |-> blobs[c].size])

PutStart(h, m, c, size) ==
    /\ accepted[m] < MaxPuts
    /\ Authenticate(h, c, [op |-> "put", mailbox |-> m, size |-> size])

\* The limits put_message enforces on what its transaction counts.
QuotaExceeded(m, size) ==
    Cardinality(MessagesOf(m)) >= MaxMessages \/ UsedBytes(m) + size > MaxBytes

\* Mutant: the next seq is derived from the rows that are left.
Accept_MaxPlusOne(m, size) ==
    /\ messages' = messages \cup
          {[mailbox |-> m, seq |-> Max({r.seq : r \in MessagesOf(m)} \cup {0}) + 1,
            size |-> size, life |-> lives[m], nth |-> accepted[m]]}
    /\ accepted' = [accepted EXCEPT ![m] = @ + 1]
    /\ mailboxes' = [mailboxes EXCEPT ![m].last_seen = now, ![m].next_seq = @ + 1]

\* The INSERT, and the UPDATE that advances next_seq and last_seen.
Accept(m, size) ==
    /\ messages' = messages \cup
          {[mailbox |-> m, seq |-> mailboxes[m].next_seq, size |-> size,
            life |-> lives[m], nth |-> accepted[m]]}
    /\ accepted' = [accepted EXCEPT ![m] = @ + 1]
    /\ mailboxes' = [mailboxes EXCEPT ![m].last_seen = now, ![m].next_seq = @ + 1]

\* Mutant: the handler trusts the row it authenticated against.
PutMessage_NoLookup(h) ==
    /\ Serving(h, "put")
    /\ LET m == inflight[h].mailbox
           size == inflight[h].size
       IN  \/ /\ mailboxes[m] = NoRow
              /\ messages' = messages \cup
                    {[mailbox |-> m, seq |-> 1, size |-> size,
                      life |-> lives[m], nth |-> accepted[m]]}
              /\ accepted' = [accepted EXCEPT ![m] = @ + 1]
              /\ UNCHANGED <<mailboxes, blobs>>
           \/ /\ mailboxes[m] # NoRow
              /\ ~QuotaExceeded(m, size)
              /\ Accept(m, size)
              /\ UNCHANGED blobs
    /\ Finish(h)
    /\ UNCHANGED <<now, lives, fetched>>

\* Database.put_message, with the mailbox looked up again in its transaction:
\* 404 without a row, 429 over quota, else the message is stored.
PutMessage(h) ==
    /\ Serving(h, "put")
    /\ LET m == inflight[h].mailbox
           size == inflight[h].size
       IN  \/ /\ mailboxes[m] = NoRow \/ QuotaExceeded(m, size)
              /\ UNCHANGED <<tables, accepted>>
           \/ /\ mailboxes[m] # NoRow
              /\ ~QuotaExceeded(m, size)
              /\ Accept(m, size)
              /\ UNCHANGED blobs
    /\ Finish(h)
    /\ UNCHANGED <<now, lives, fetched>>

-----------------------------------------------------------------------------
(* GET /mailbox/{id}: the long poll.  Clients always ask from seq 0.       *)

GetStart(h, m, c) ==
    \E wait \in 0..MaxWait :
        Authenticate(h, c, [op |-> "get", mailbox |-> m, wait |-> wait])

\* Mutant: ORDER BY seq DESC.
FirstMessages_Newest(m) ==
    {r \in MessagesOf(m) :
        Cardinality({q \in MessagesOf(m) : q.seq > r.seq}) < FetchLimit}

\* Database.get_messages: ORDER BY seq LIMIT FetchLimit.
FirstMessages(m) ==
    {r \in MessagesOf(m) :
        Cardinality({q \in MessagesOf(m) : q.seq < r.seq}) < FetchLimit}

\* Mutant: the deadline is never looked at.
GetPoll_NoDeadline(h) ==
    /\ Serving(h, "get")
    /\ LET rows == FirstMessages(inflight[h].mailbox) IN
          /\ rows # {}
          /\ fetched' = fetched \cup rows
          /\ Finish(h)
    /\ UNCHANGED <<tables, now, lives, accepted>>

\* One round of the loop: rows or a passed deadline end it, else it sleeps.
GetPoll(h) ==
    /\ Serving(h, "get")
    /\ LET rows == FirstMessages(inflight[h].mailbox) IN
       \/ /\ rows # {} \/ inflight[h].wait = 0
          /\ fetched' = fetched \cup rows
          /\ Finish(h)
       \/ /\ rows = {}
          /\ inflight[h].wait > 0
          /\ inflight' = [inflight EXCEPT ![h].wait = @ - 1]
          /\ UNCHANGED fetched
    /\ UNCHANGED <<tables, now, lives, accepted>>

-----------------------------------------------------------------------------
(* POST /mailbox/{id}/ack and DELETE /mailbox/{id}                         *)

\* A client acknowledges up to a seq some response gave it.  The request may
\* be late, or a retry of one the relay has already served.
AckStart(h, c) ==
    \E r \in fetched :
        Authenticate(h, c, [op |-> "ack", mailbox |-> r.mailbox,
                            upto |-> r.seq, life |-> r.life])

\* Mutant: next_seq, the seq after the last one fetched, is acknowledged.
Acked_OneMore(m, upto) == {r \in messages : r.mailbox = m /\ r.seq <= upto + 1}

\* Mutant: only the message named is deleted.
Acked_Exactly(m, upto) == {r \in messages : r.mailbox = m /\ r.seq = upto}

\* The rows DELETE ... WHERE mailbox_id = ? AND seq <= ? removes.
Acked(m, upto) == {r \in messages : r.mailbox = m /\ r.seq <= upto}

AckMessages(h) ==
    /\ Serving(h, "ack")
    /\ messages' = messages \ Acked(inflight[h].mailbox, inflight[h].upto)
    /\ Finish(h)
    /\ UNCHANGED <<mailboxes, blobs, now, history>>

\* The rows that go with a set of mailboxes, in one transaction.
Without(gone) ==
    /\ mailboxes' = [m \in Mailbox |-> IF m \in gone THEN NoRow ELSE mailboxes[m]]
    /\ messages' = {r \in messages : r.mailbox \notin gone}

\* Mutant: the DELETE FROM blobs is missing.
BlobsWithout_Kept(gone) == blobs

\* DELETE FROM blobs WHERE mailbox_id = ?, for each of them.
BlobsWithout(gone) ==
    [c \in Chunk |->
        IF blobs[c] # NoRow /\ blobs[c].mailbox \in gone THEN NoRow ELSE blobs[c]]

DeleteStart(h, m, c) ==
    Authenticate(h, c, [op |-> "delete", mailbox |-> m])

DeleteMailbox(h) ==
    /\ Serving(h, "delete")
    /\ Without({inflight[h].mailbox})
    /\ blobs' = BlobsWithout({inflight[h].mailbox})
    /\ Finish(h)
    /\ UNCHANGED <<now, history>>

-----------------------------------------------------------------------------
(* POST /blob and GET /blob/{chunk_id}                                     *)

UploadStart(h, m, c, chunk, size) ==
    Authenticate(h, c, [op |-> "upload", mailbox |-> m, chunk |-> chunk, size |-> size])

\* The idempotence check, a transaction of its own.
UploadCheck(h) ==
    /\ Serving(h, "upload")
    /\ LET chunk == inflight[h].chunk IN
       \/ /\ blobs[chunk] = NoRow
          /\ inflight' = [inflight EXCEPT ![h].op = "store"]
       \/ /\ blobs[chunk] # NoRow     \* 201 for the same mailbox, else 409
          /\ Finish(h)
    /\ UNCHANGED <<tables, now, history>>

\* Database.put_blob: mailbox, quota, then an INSERT the PRIMARY KEY may reject.
UploadStore(h) ==
    /\ Serving(h, "store")
    /\ LET m == inflight[h].mailbox
           chunk == inflight[h].chunk
           size == inflight[h].size
       IN  \/ /\ \/ mailboxes[m] = NoRow
                 \/ UsedBytes(m) + size > MaxBytes
                 \/ blobs[chunk] # NoRow
              /\ UNCHANGED blobs
           \/ /\ mailboxes[m] # NoRow
              /\ UsedBytes(m) + size <= MaxBytes
              /\ blobs[chunk] = NoRow
              /\ blobs' = [blobs EXCEPT ![chunk] =
                    [mailbox |-> m, size |-> size, created_at |-> now]]
    /\ Finish(h)
    /\ UNCHANGED <<mailboxes, messages, now, lives, accepted, fetched>>

DownloadStart(h, m, c, chunk) ==
    Authenticate(h, c, [op |-> "download", mailbox |-> m, chunk |-> chunk])

\* get_blob is answered (200, or 404 for a chunk of another mailbox).
DownloadBlob(h) ==
    /\ Serving(h, "download")
    /\ Finish(h)
    /\ UNCHANGED <<tables, now, history>>

-----------------------------------------------------------------------------
(* housekeeping_loop, restarts and the clock                               *)

\* SELECT id FROM mailboxes WHERE last_seen < now - mailbox_ttl
IdleMailboxes ==
    {m \in Mailbox : mailboxes[m] # NoRow /\ mailboxes[m].last_seen + MailboxTTL < now}

\* Blobs past their TTL whose mailbox no longer has a row.
StrayBlobs(gone) ==
    {c \in Chunk : /\ blobs[c] # NoRow
                   /\ blobs[c].created_at + BlobTTL < now
                   /\ mailboxes[blobs[c].mailbox] = NoRow \/ blobs[c].mailbox \in gone}

Housekeeping ==
    /\ Without(IdleMailboxes)
    /\ blobs' = [c \in Chunk |->
          IF c \in StrayBlobs(IdleMailboxes) THEN NoRow
          ELSE BlobsWithout(IdleMailboxes)[c]]
    /\ UNCHANGED <<inflight, now, history>>

\* The process stops and starts again: the database stays, requests are lost.
Restart ==
    /\ inflight' = [h \in Handler |-> Idle]
    /\ UNCHANGED <<tables, now, history>>

Tick ==
    /\ now < MaxClock
    /\ now' = now + 1
    /\ UNCHANGED <<tables, inflight, history>>

-----------------------------------------------------------------------------
\* A new request reaches handler h.
Arrive(h) ==
    \E c \in Cap :
        \/ AckStart(h, c)
        \/ \E m \in Mailbox :
              \/ CreateCheck(h, m, c)
              \/ \E size \in Size : PutStart(h, m, c, size)
              \/ GetStart(h, m, c)
              \/ DeleteStart(h, m, c)
              \/ \E chunk \in Chunk, size \in Size : UploadStart(h, m, c, chunk, size)
              \/ \E chunk \in Chunk : DownloadStart(h, m, c, chunk)

\* Handler h runs its next transaction.
Serve(h) ==
    \/ CreateInsert(h)
    \/ PutMessage(h)
    \/ GetPoll(h)
    \/ AckMessages(h)
    \/ DeleteMailbox(h)
    \/ UploadCheck(h)
    \/ UploadStore(h)
    \/ DownloadBlob(h)

Next ==
    \/ \E h \in Handler : Arrive(h) \/ Serve(h)
    \/ Housekeeping
    \/ Restart
    \/ Tick

Spec == Init /\ [][Next]_vars

\* The event loop and the worker threads eventually run every handler's next
\* transaction (SQLite waits at most 30 s for the write lock).
FairSpec == Spec /\ \A h \in Handler : WF_vars(Serve(h))

-----------------------------------------------------------------------------
(* Properties                                                              *)

\* Every table, request and response has its type.
TypeOK ==
    /\ mailboxes \in [Mailbox -> MailboxRow \cup {NoRow}]
    /\ messages \subseteq MessageRow
    /\ IsFiniteSet(messages)
    /\ blobs \in [Chunk -> BlobRow \cup {NoRow}]
    /\ inflight \in [Handler -> Request \cup {Idle}]
    /\ now \in Nat
    /\ lives \in [Mailbox -> Nat]
    /\ accepted \in [Mailbox -> Nat]
    /\ fetched \subseteq MessageRow

\* No message or blob outlives its mailbox, although no foreign key says so:
\* a put or an upload that was authenticated before its mailbox went away
\* stores nothing, and no row of an earlier life shows up in a later one.
NoOrphans ==
    /\ \A r \in messages :
          mailboxes[r.mailbox] # NoRow /\ r.life = lives[r.mailbox]
    /\ \A c \in Chunk : blobs[c] # NoRow => mailboxes[blobs[c].mailbox] # NoRow

\* Within one life of a mailbox a seq names one message for ever, also after
\* every message of the mailbox has been acknowledged (next_seq is a column,
\* not derived from the rows that are left).
SeqIdentifiesMessage ==
    \A p, q \in messages \cup fetched :
        p.mailbox = q.mailbox /\ p.life = q.life /\ p.seq = q.seq => p = q

\* What an acknowledgement in flight is going to delete, of the life it was
\* issued in, has been returned by some GET: however late or repeated, an ack
\* never deletes a message that was written after it.
AckCoversFetched ==
    \A h \in Handler : Serving(h, "ack") =>
        \A r \in Acked(inflight[h].mailbox, inflight[h].upto) :
            r.life = inflight[h].life => r \in fetched

\* Concurrent puts and uploads never take a mailbox over either quota: the
\* usage is computed in the transaction that inserts.
QuotaHeld ==
    \A m \in Mailbox :
        /\ Cardinality(MessagesOf(m)) <= MaxMessages
        /\ SumFunction([r \in MessagesOf(m) |-> r.size])
             + SumFunction([c \in BlobsOf(m) |-> blobs[c].size]) <= MaxBytes

\* Every message a step removes was returned by some GET before it, or goes
\* with its whole mailbox, or is covered by an ack from another life of it.
LossExplained ==
    \A r \in messages \ messages' :
        \/ r \in fetched
        \/ mailboxes'[r.mailbox] = NoRow
        \/ \E h \in Handler : /\ Serving(h, "ack")
                             /\ inflight[h].mailbox = r.mailbox
                             /\ inflight[h].life # r.life

\* An accepted message leaves the relay only after some GET returned it, or
\* with its whole mailbox, or through an ack that belongs to another life of
\* the mailbox: no step of any handler loses it otherwise.
NoSilentLoss == [][LossExplained]_vars

\* The tables as MailStore sees them.
Kept ==
    [m \in Mailbox |->
        IF mailboxes[m] = NoRow THEN NoRow
        ELSE [next |-> mailboxes[m].next_seq, waiting |-> {r.seq : r \in MessagesOf(m)}]]

Store == INSTANCE MailStore WITH Absent <- NoRow, store <- Kept

\* Through every interleaving of handlers, housekeeping and restarts each mailbox is
\* the queue MailStore describes: numbers without gap or reuse within a life, and
\* nothing that leaves it out of order (put_message, ack_messages, delete_mailbox).
ImplementsMailStore == Store!Spec

\* Every request that reaches a handler is answered, or lost in a restart: no
\* long poll outlasts its deadline.
RequestsEnd == \A h \in Handler : inflight[h] # Idle ~> inflight[h] = Idle

=============================================================================
