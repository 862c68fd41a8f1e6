----------------------------- MODULE DeviceSync -----------------------------
(***************************************************************************)
(* The devices of one account among themselves (core/sync.py,              *)
(* core/device_channel.py, core/history.py): requests for history,         *)
(* approvals by a human, the stream of past messages, and the mirrors of   *)
(* what happens from then on.                                              *)
(*                                                                         *)
(* Records travel through the mailboxes of the relays like any message: a  *)
(* put reaches some of the relays, a fetch returns the rows of each relay  *)
(* that answers, one relay after the other, so a record may come once per  *)
(* relay, and again when the process ends before the ack.  A record that   *)
(* cannot be handled is skipped and acknowledged with its batch.           *)
(*                                                                         *)
(* The worker of a device does one thing at a time: it handles a batch, or *)
(* runs a command.  Only deny_history runs on the GUI thread.              *)
(*                                                                         *)
(* A message is one of the keys message_key tells apart, with the rank of  *)
(* its state; contacts and attachment chunks are things a merge adds once. *)
(* Records always open: they are sealed and signed by devices of the       *)
(* account.  A hash chain is the sequence of what was added to it.  The    *)
(* range a device asks for takes in every message.                         *)
(***************************************************************************)
EXTENDS Naturals, Sequences, FiniteSets, SequencesExt

CONSTANTS
    Device,         \* the devices of the account, all on its device list
    Urls,           \* the relays of their mailboxes, in order
    Mine,           \* messages the account sends
    Theirs,         \* messages contacts send to it
    Contact,        \* the contact the messages are with
    Chunk,          \* attachment chunks
    None,
    MaxTransfers,   \* bound: transfer ids drawn for approvals
    MaxLive,        \* bound: exports, messages, reads and receipts, or one request
    MaxFaults       \* bound: failed relay calls, unhandled records, crashes

Thing == {Contact} \cup Chunk

ASSUME DeviceSyncAssumption ==
    /\ Urls \in Seq(Range(Urls))
    /\ Mine \cap Theirs = {} /\ (Mine \cup Theirs) \cap Thing = {}
    /\ IsFiniteSet(Mine \cup Theirs) /\ IsFiniteSet(Chunk)
    /\ {MaxTransfers, MaxLive, MaxFaults} \subseteq Nat
    /\ None \notin Nat /\ None \notin [pos : Nat, st : Nat]

VARIABLES
    rows,       \* stored: the rows of each message, oldest first
    held,       \* stored: contacts and chunks
    approvals,  \* stored: the transfer under which each sibling was approved
    pending,    \* stored: siblings that asked for history
    seen,       \* stored: approvals already taken over
    incoming,   \* stored: progress of the transfer from each sibling
    index,      \* in memory: the message index of a transfer under way
    job,        \* the approve_device under way
    batch,      \* the records of a fetch still to be handled
    got,        \* rows of each relay in that fetch
    boxes,      \* the device records in each mailbox on each relay
    file,       \* an exported history file
    offered,    \* history: the items of each transfer
    consent,    \* history: <<d, e>> when a human at d approved e
    revoked,    \* history: approvals a human at each device withdrew
    crossed,    \* history: messages that came while an index was cached
    transfers, live, faults  \* counters of the bounds

stored == <<rows, held, approvals, pending, seen, incoming>>
counters == <<transfers, live, faults>>
vars == <<stored, index, job, batch, got, boxes, file, offered, consent, revoked,
          crossed, counters>>

Relay == Range(Urls)
Message == Mine \cup Theirs
Transfer == 1 .. MaxTransfers
Rank == 0 .. 2      \* sent or received, delivered, read
Delivered == 1
Read == 2

\* A row; orig: it has the id its message was sent with.
Row == [st : Rank, orig : BOOLEAN]

Item == [of : Message \cup Thing, st : Rank]

\* A HashChain: the transfer id it was seeded with and what was added, each item
\* with its number.
Link == [seq : Nat, item : Item]
Digest == [seed : Transfer \cup {None}, items : Seq(Link)]
NoDigest == [seed |-> None, items |-> <<>>]

\* What the devices send each other, with what a record of each kind carries.
Record ==
    {rec \in [kind : {"request", "approval", "offer", "item", "complete", "mirror", "state"},
              from : Device, transfer : Transfer \cup {None}, item : Item \cup {None},
              count : Nat, chain : Digest] :
        /\ rec.kind = "approval" => rec.transfer \in Transfer
        /\ rec.kind = "item" => rec.item \in Item
        /\ rec.kind \in {"mirror", "state"} => rec.item \in [of : Message, st : Rank]}

NoTransfer ==
    [transfer |-> None, received |-> 0, chain |-> NoDigest, expected |-> 0, done |-> FALSE, complete |-> FALSE]

Init ==
    /\ rows = [d \in Device |-> [k \in Message |-> <<>>]]
    /\ \E d \in Device : held = [e \in Device |-> IF e = d THEN Thing ELSE {}]
    /\ approvals = [d \in Device |-> [e \in Device |-> None]]
    /\ pending = [d \in Device |-> {}]
    /\ seen = [d \in Device |-> {}]
    /\ incoming = [d \in Device |-> [e \in Device |-> NoTransfer]]
    /\ index = [d \in Device |-> None]
    /\ job = [d \in Device |-> None]
    /\ batch = [d \in Device |-> <<>>]
    /\ got = [d \in Device |-> [r \in Relay |-> 0]]
    /\ boxes = [r \in Relay |-> [d \in Device |-> <<>>]]
    /\ file = None
    /\ offered = [t \in Transfer |-> {}]
    /\ consent = {}
    /\ revoked = [d \in Device |-> {}]
    /\ crossed = [d \in Device |-> {}]
    /\ transfers = 0 /\ live = 0 /\ faults = 0

-----------------------------------------------------------------------------
(* Records in and out.                                                     *)
Rec(kind, d, t, item) ==
    [kind |-> kind, from |-> d, transfer |-> t, item |-> item, count |-> 0,
     chain |-> NoDigest]

\* The relays that answer a call: all of them, or fewer at the cost of a fault.
Answer(S) ==
    /\ S \subseteq Relay
    /\ S # Relay => faults < MaxFaults
    /\ faults' = IF S = Relay THEN faults ELSE faults + 1

\* _write_record to each of some siblings.
Put(S, targets, rec) ==
    boxes' = [r \in Relay |-> [e \in Device |->
                IF r \in S /\ e \in targets THEN Append(boxes[r][e], rec)
                ELSE boxes[r][e]]]

Free(d) == job[d] = None /\ batch[d] = <<>> /\ got[d] = [r \in Relay |-> 0]

\* One more export, message, read or receipt.
Live(d) ==
    /\ job[d] = None /\ live < MaxLive
    /\ live' = live + 1

Siblings(d) == Device \ {d}
Approved(d) == {e \in Siblings(d) : approvals[d][e] # None}

\* build_items: the contacts, every row of every message, and the chunks held
\* here, less those over the budget.
Items(d, skipped) ==
    LET things(S) == LET kept == SetToSeq(held[d] \cap S) IN
                     [i \in DOMAIN kept |-> [of |-> kept[i], st |-> 0]]
        row(k) == [i \in DOMAIN rows[d][k] |-> [of |-> k, st |-> rows[d][k][i].st]]
        messages == SetToSeq(Message) IN
    things({Contact})
        \o FlattenSeq([i \in DOMAIN messages |-> row(messages[i])])
        \o things(Chunk \ skipped)

-----------------------------------------------------------------------------
(* Merging (history.py).  An index says of each message which row it has   *)
(* and the state it had when the index was read or the row was added.      *)

\* message_index; of two rows of one message either may come last.
MessageIndexes(d) ==
    LET most == Max({0} \cup {Len(rows[d][k]) : k \in Message})
        last == {p \in [Message -> 0 .. most] : \A k \in Message :
                    IF rows[d][k] = <<>> THEN p[k] = 0 ELSE p[k] \in DOMAIN rows[d][k]} IN
    {[k \in Message |-> IF p[k] = 0 THEN None
                        ELSE [pos |-> p[k], st |-> rows[d][k][p[k]].st]] : p \in last}

\* Mutant: nothing is looked up, every item is added.
Merge_Adds(m, item, orig) ==
    [m EXCEPT !.rows[item.of] = Append(@, [st |-> item.st, orig |-> orig])]

\* merge_messages for one item; m holds the rows and the index.  A known message
\* is only ever moved on, from the state the index has for it; a new one gets the
\* id the item brings (a mirror's) or a random one.
Merge(m, item, orig) ==
    LET k == item.of
        known == m.ix[k] IN
    IF known = None
    THEN [rows |-> [m.rows EXCEPT ![k] = Append(@, [st |-> item.st, orig |-> orig])],
          ix |-> [m.ix EXCEPT ![k] = [pos |-> Len(m.rows[k]) + 1, st |-> item.st]]]
    ELSE IF item.st > known.st
    THEN [m EXCEPT !.rows[k][known.pos].st = item.st]
    ELSE m

\* merge_messages for the messages of a bundle.
MergeAll(m, items) ==
    LET next(n, item) == IF item.of \in Message THEN Merge(n, item, FALSE) ELSE n
        merged[i \in 0 .. Len(items)] == IF i = 0 THEN m ELSE next(merged[i - 1], items[i])
    IN  merged[Len(items)]

\* A message that comes by another way while an index is cached.
Crossing(d, k) ==
    crossed' = IF index[d] = None THEN crossed ELSE [crossed EXCEPT ![d] = @ \cup {k}]

-----------------------------------------------------------------------------
(* Commands of the worker.                                                 *)

\* request_history asks every sibling; the asking itself is not retried.  It uses up
\* the bound: requests meet approvals, denials and transfers, and touch no row.
RequestHistory(d) ==
    /\ Free(d) /\ live = 0 /\ MaxLive > 0
    /\ live' = MaxLive
    /\ \E S \in SUBSET Relay :
          /\ Answer(S)
          /\ Put(S, Siblings(d), Rec("request", d, None, None))
    /\ UNCHANGED <<stored, index, job, batch, got, file, offered, consent, revoked, crossed,
                   transfers>>

\* approve_device, called by a human's click; it takes any sibling (the dialog offers
\* those that asked when it was opened).  What it will send is settled here, because
\* nothing else changes the rows while the worker is busy with it.
ApproveDevice(d, e, skipped) ==
    LET items == Items(d, skipped)
        t == transfers + 1
        count == Len(items)
        digest == [seed |-> t,
                   items |-> [i \in DOMAIN items |-> [seq |-> i, item |-> items[i]]]] IN
    /\ Free(d) /\ e \in Siblings(d) /\ transfers < MaxTransfers
    /\ transfers' = t
    /\ consent' = consent \cup {<<d, e>>}
    /\ offered' = [offered EXCEPT ![t] = Range(items)]
    /\ job' = [job EXCEPT ![d] =
          [to |-> e, transfer |-> t, step |-> "approval", asked |-> pending[d],
           todo |-> <<[Rec("offer", d, t, None) EXCEPT !.count = count]>>
                      \o [i \in DOMAIN items |-> [Rec("item", d, t, items[i])
                                                    EXCEPT !.count = i]]
                      \o <<[Rec("complete", d, t, None) EXCEPT !.count = count,
                                                               !.chain = digest]>>]]
    /\ UNCHANGED <<stored, index, batch, got, boxes, file, revoked, crossed, live, faults>>

\* The APPROVAL record goes out first; when no relay takes it, nothing is marked.
SendApproval(d) ==
    /\ job[d] # None /\ job[d].step = "approval"
    /\ \E S \in SUBSET Relay :
          /\ Answer(S)
          /\ Put(S, {job[d].to}, Rec("approval", d, job[d].transfer, None))
          /\ job' = [job EXCEPT ![d] = IF S = {} THEN None ELSE [@ EXCEPT !.step = "mark"]]
    /\ UNCHANGED <<stored, index, batch, got, file, offered, consent, revoked, crossed,
                   transfers, live>>

MarkApproved(d) ==
    /\ job[d] # None /\ job[d].step = "mark"
    /\ approvals' = [approvals EXCEPT ![d][job[d].to] = job[d].transfer]
    /\ job' = [job EXCEPT ![d].step = "stream"]
    /\ UNCHANGED <<rows, held, pending, seen, incoming, index, batch, got, boxes, file,
                   offered, consent, revoked, crossed, counters>>

\* Mutant: a stream that no relay takes stays open, and nothing goes on with it.
SendHistory_Parks(d) ==
    /\ job[d] # None /\ job[d].step = "stream" /\ job[d].todo # <<>>
    /\ \E S \in SUBSET Relay :
          /\ Answer(S)
          /\ Put(S, {job[d].to}, Head(job[d].todo))
          /\ job' = [job EXCEPT ![d] =
                       [@ EXCEPT !.todo = Tail(@), !.step = IF S = {} THEN "parked" ELSE @]]
    /\ UNCHANGED <<stored, index, batch, got, file, offered, consent, revoked, crossed,
                   transfers, live>>

\* send_history: OFFER, the items, COMPLETE; a put that no relay takes ends it.
SendHistory(d) ==
    /\ job[d] # None /\ job[d].step = "stream" /\ job[d].todo # <<>>
    /\ \E S \in SUBSET Relay :
          /\ Answer(S)
          /\ Put(S, {job[d].to}, Head(job[d].todo))
          /\ job' = [job EXCEPT ![d] = IF S = {} THEN None
                                       ELSE [job[d] EXCEPT !.todo = Tail(@)]]
    /\ UNCHANGED <<stored, index, batch, got, file, offered, consent, revoked, crossed,
                   transfers, live>>

\* Done: the requests as they were when the approval began, without this one.
ForgetRequest(d) ==
    /\ job[d] # None /\ job[d].step = "stream" /\ job[d].todo = <<>>
    /\ pending' = [pending EXCEPT ![d] = job[d].asked \ {job[d].to}]
    /\ job' = [job EXCEPT ![d] = None]
    /\ UNCHANGED <<rows, held, approvals, seen, incoming, index, batch, got, boxes, file,
                   offered, consent, revoked, crossed, counters>>

\* deny_device runs at once, on the GUI thread.
DenyDevice(d, e) ==
    /\ e \in pending[d]
    /\ pending' = [pending EXCEPT ![d] = @ \ {e}]
    /\ UNCHANGED <<rows, held, approvals, seen, incoming, index, job, batch, got, boxes, file,
                   offered, consent, revoked, crossed, counters>>

RevokeApproval(d, e) ==
    /\ Free(d) /\ e \in Approved(d)
    /\ revoked' = [revoked EXCEPT ![d] = @ \cup {approvals[d][e]}]
    /\ approvals' = [approvals EXCEPT ![d][e] = None]
    /\ UNCHANGED <<rows, held, pending, seen, incoming, index, job, batch, got, boxes, file,
                   offered, consent, crossed, counters>>

\* export_history and import_history (merge_bundle, with an index of its own).
ExportHistory(d) ==
    /\ Free(d) /\ Live(d) /\ file = None
    /\ \E skipped \in SUBSET Chunk : file' = Items(d, skipped)
    /\ UNCHANGED <<stored, index, job, batch, got, boxes, offered, consent, revoked, crossed,
                   transfers, faults>>

ImportHistory(d) ==
    LET of == {item.of : item \in Range(file)} IN
    /\ Free(d) /\ file # None
    /\ file' = None
    /\ \E ix \in MessageIndexes(d) :
          rows' = [rows EXCEPT ![d] =
                     MergeAll([rows |-> rows[d], ix |-> ix], file).rows]
    /\ held' = [held EXCEPT ![d] = @ \cup (of \cap Thing)]
    /\ crossed' = IF index[d] = None THEN crossed
                  ELSE [crossed EXCEPT ![d] = @ \cup (of \cap Message)]
    /\ UNCHANGED <<approvals, pending, seen, incoming, index, job, batch, got, boxes, offered,
                   consent, revoked, counters>>

-----------------------------------------------------------------------------
(* Live traffic and its mirrors.                                           *)
\* send_text and its _mirror_sent; a mirror that no relay takes is dropped.
SendText(d, k) ==
    /\ Free(d) /\ Live(d)
    /\ k \in Mine /\ (\A e \in Device : rows[e][k] = <<>>) /\ Contact \in held[d]
    /\ rows' = [rows EXCEPT ![d][k] = <<[st |-> 0, orig |-> TRUE]>>]
    /\ Crossing(d, k)
    /\ \E S \in SUBSET Relay :
          /\ Answer(S)
          /\ Put(S, Approved(d), Rec("mirror", d, None, [of |-> k, st |-> 0]))
    /\ UNCHANGED <<held, approvals, pending, seen, incoming, index, job, batch, got, file,
                   offered, consent, revoked, transfers>>

\* A contact's message, opened by this device's own session (_process_envelope);
\* find_by_remote_id lets no second copy in.
Receive(d, k) ==
    /\ Live(d)
    /\ k \in Theirs /\ rows[d][k] = <<>>
    /\ rows' = [rows EXCEPT ![d][k] = <<[st |-> 0, orig |-> TRUE]>>]
    /\ held' = [held EXCEPT ![d] = @ \cup {Contact}]
    /\ Crossing(d, k)
    /\ UNCHANGED <<approvals, pending, seen, incoming, index, job, batch, got, boxes,
                   file, offered, consent, revoked, transfers, faults>>

\* The row a receipt or a state mirror is about: by id what the account sent, by
\* remote id what it received.
Target(d, k) == {i \in DOMAIN rows[d][k] : k \in Theirs \/ rows[d][k][i].orig}

MirrorState(d, k, st) ==
    \E S \in SUBSET Relay :
        /\ Answer(S)
        /\ Put(S, Approved(d), Rec("state", d, None, [of |-> k, st |-> st]))

\* mark_read tells the contact and the siblings; the row here keeps its state.
MarkRead(d, k) ==
    /\ Free(d) /\ Live(d)
    /\ k \in Theirs /\ \E i \in DOMAIN rows[d][k] : rows[d][k][i].st = 0
    /\ MirrorState(d, k, Read)
    /\ UNCHANGED <<stored, index, job, batch, got, file, offered, consent, revoked, crossed,
                   transfers>>

\* A receipt sets the state it names, whatever the row says, and is mirrored.
Receipt(d, k, st) ==
    /\ Live(d)
    /\ k \in Mine /\ \E e \in Device : rows[e][k] # <<>>
    /\ IF Target(d, k) = {}
       THEN UNCHANGED <<rows, boxes, faults>>
       ELSE /\ \E i \in Target(d, k) : rows' = [rows EXCEPT ![d][k][i].st = st]
            /\ MirrorState(d, k, st)
    /\ UNCHANGED <<held, approvals, pending, seen, incoming, index, job, batch, got, file,
                   offered, consent, revoked, crossed, transfers>>

-----------------------------------------------------------------------------
(* sync: fetch a batch, handle it record by record, acknowledge it.        *)
Fetch(d) ==
    /\ Free(d)
    /\ \E S \in SUBSET Relay :
          LET of(r) == IF r \in S THEN boxes[r][d] ELSE <<>> IN
          /\ Answer(S)
          /\ \E r \in S : boxes[r][d] # <<>>
          /\ batch' = [batch EXCEPT ![d] = FlattenSeq([i \in DOMAIN Urls |-> of(Urls[i])])]
          /\ got' = [got EXCEPT ![d] = [r \in Relay |-> Len(of(r))]]
    /\ UNCHANGED <<stored, index, job, boxes, file, offered, consent, revoked, crossed,
                   transfers, live>>

Ack(d) ==
    /\ batch[d] = <<>> /\ got[d] # [r \in Relay |-> 0]
    /\ \E S \in SUBSET Relay :
          /\ Answer(S)
          /\ boxes' = [r \in Relay |-> [boxes[r] EXCEPT ![d] =
                         IF r \in S THEN SubSeq(@, got[d][r] + 1, Len(@)) ELSE @]]
    /\ got' = [got EXCEPT ![d] = [r \in Relay |-> 0]]
    /\ UNCHANGED <<stored, index, job, batch, file, offered, consent, revoked, crossed,
                   transfers, live>>

\* The next record of the batch is of this kind; handling it uses it up.
Take(d, kinds) ==
    /\ batch[d] # <<>> /\ Head(batch[d]).kind \in kinds
    /\ batch' = [batch EXCEPT ![d] = Tail(@)]
    /\ UNCHANGED <<job, got, boxes, file, offered, consent, revoked, transfers, live>>

\* An unlisted sender or a sender whose keys cannot be fetched: handle_record
\* raises, sync goes on to the next record.
Unhandled(d) ==
    /\ Take(d, {"request", "approval", "offer", "item", "complete", "mirror", "state"})
    /\ faults < MaxFaults /\ faults' = faults + 1
    /\ UNCHANGED <<stored, index, crossed>>

\* Mutant: a request is answered at once, without asking anybody.
HandleRequest_Answers(d) ==
    /\ batch[d] # <<>> /\ Head(batch[d]).kind = "request" /\ transfers < MaxTransfers
    /\ batch' = [batch EXCEPT ![d] = Tail(@)]
    /\ transfers' = transfers + 1
    /\ job' = [job EXCEPT ![d] =
          [to |-> Head(batch[d]).from, transfer |-> transfers + 1, step |-> "approval",
           asked |-> pending[d], todo |-> <<Rec("offer", d, transfers + 1, None)>>]]
    /\ UNCHANGED <<stored, index, got, boxes, file, offered, consent, revoked, crossed, live, faults>>

HandleRequest(d) ==
    /\ Take(d, {"request"})
    /\ pending' = [pending EXCEPT ![d] = @ \cup {Head(batch[d]).from}]
    /\ UNCHANGED <<rows, held, approvals, seen, incoming, index, crossed, faults>>

\* Mutant: an approval is taken over every time it comes.
HandleApproval_Again(d) ==
    LET rec == Head(batch[d]) IN
    /\ Take(d, {"approval"})
    /\ seen' = [seen EXCEPT ![d] = @ \cup {rec.transfer}]
    /\ approvals' = [approvals EXCEPT ![d][rec.from] = rec.transfer]
    /\ UNCHANGED <<rows, held, pending, incoming, index, crossed, faults>>

\* They vouched for us: from now on they get our mirrors.  Once per transfer.
HandleApproval(d) ==
    LET rec == Head(batch[d]) IN
    /\ Take(d, {"approval"})
    /\ IF rec.transfer \in seen[d] THEN UNCHANGED <<seen, approvals>>
       ELSE /\ seen' = [seen EXCEPT ![d] = @ \cup {rec.transfer}]
            /\ approvals' = [approvals EXCEPT ![d][rec.from] = rec.transfer]
    /\ UNCHANGED <<rows, held, pending, incoming, index, crossed, faults>>

\* An offer starts the count and the chain again; the index is dropped only when
\* the transfer is another one.
HandleOffer(d) ==
    LET rec == Head(batch[d]) IN
    /\ Take(d, {"offer"})
    /\ index' = IF incoming[d][rec.from].transfer = rec.transfer THEN index
                ELSE [index EXCEPT ![d] = None]
    /\ incoming' = [incoming EXCEPT ![d][rec.from] =
                      [NoTransfer EXCEPT !.transfer = rec.transfer,
                                         !.expected = rec.count]]
    /\ UNCHANGED <<rows, held, approvals, pending, seen, crossed, faults>>

\* The running digest: seeded with the transfer id when there is none yet.
Extend(chain, rec) ==
    [seed |-> IF chain = NoDigest THEN rec.transfer ELSE chain.seed,
     items |-> Append(chain.items, [seq |-> rec.count, item |-> rec.item])]

\* _apply_item merges against the cached index, reading it when there is none.
HandleItem(d) ==
    LET rec == Head(batch[d])
        new == [incoming[d][rec.from] EXCEPT !.transfer = rec.transfer, !.done = FALSE,
                                             !.received = @ + 1,
                                             !.chain = Extend(@, rec)] IN
    /\ Take(d, {"item"})
    /\ incoming' = [incoming EXCEPT ![d][rec.from] = new]
    /\ IF rec.item.of \in Thing
       THEN /\ held' = [held EXCEPT ![d] = @ \cup {rec.item.of}]
            /\ UNCHANGED <<rows, index>>
       ELSE /\ \E ix \in IF index[d] = None THEN MessageIndexes(d) ELSE {index[d]} :
                  LET m == Merge([rows |-> rows[d], ix |-> ix], rec.item, FALSE) IN
                  /\ rows' = [rows EXCEPT ![d] = m.rows]
                  /\ index' = [index EXCEPT ![d] = m.ix]
            /\ UNCHANGED held
    /\ UNCHANGED <<approvals, pending, seen, crossed, faults>>

\* Mutant: COMPLETE is taken at its word.
HandleComplete_Trusts(d) ==
    LET rec == Head(batch[d]) IN
    /\ Take(d, {"complete"})
    /\ incoming' = [incoming EXCEPT ![d][rec.from] =
                      [@ EXCEPT !.done = TRUE, !.expected = rec.count, !.complete = TRUE]]
    /\ UNCHANGED <<rows, held, approvals, pending, seen, index, crossed, faults>>

\* COMPLETE compares the count and the digest with what came since the offer.
HandleComplete(d) ==
    LET rec == Head(batch[d]) IN
    /\ Take(d, {"complete"})
    /\ incoming' = [incoming EXCEPT ![d][rec.from] =
                      [@ EXCEPT !.done = TRUE, !.expected = rec.count,
                                !.complete = /\ incoming[d][rec.from].received >= rec.count
                                             /\ incoming[d][rec.from].chain = rec.chain]]
    /\ UNCHANGED <<rows, held, approvals, pending, seen, index, crossed, faults>>

\* _apply_mirror of a message, against an index read for it alone.
HandleMirror(d) ==
    LET item == Head(batch[d]).item IN
    /\ Take(d, {"mirror"})
    /\ \E ix \in MessageIndexes(d) :
          rows' = [rows EXCEPT ![d] = Merge([rows |-> rows[d], ix |-> ix], item, TRUE).rows]
    /\ held' = [held EXCEPT ![d] = @ \cup {Contact}]
    /\ Crossing(d, item.of)
    /\ UNCHANGED <<approvals, pending, seen, incoming, index, faults>>

\* _apply_mirror of a state: only forward.
HandleState(d) ==
    LET item == Head(batch[d]).item
        target == Target(d, item.of) IN
    /\ Take(d, {"state"})
    /\ \/ /\ \/ target = {}
             \/ \E i \in target : rows[d][item.of][i].st >= item.st
          /\ UNCHANGED rows
       \/ \E i \in target :
             /\ item.st > rows[d][item.of][i].st
             /\ rows' = [rows EXCEPT ![d][item.of][i].st = item.st]
    /\ UNCHANGED <<held, approvals, pending, seen, incoming, index, crossed, faults>>

\* The process of device d ends, and what it had in memory is gone.
Restart(d) ==
    /\ faults < MaxFaults /\ faults' = faults + 1
    /\ index' = [index EXCEPT ![d] = None]
    /\ job' = [job EXCEPT ![d] = None]
    /\ batch' = [batch EXCEPT ![d] = <<>>]
    /\ got' = [got EXCEPT ![d] = [r \in Relay |-> 0]]
    /\ UNCHANGED <<rows, held, approvals, pending, incoming, boxes, file, offered, consent,
                   revoked, crossed, transfers, live>>

Crash(d) == Restart(d) /\ UNCHANGED seen

\* It ends between _mark_seen and mark_approved: the approval counts as taken over
\* when it comes again, and the sender never gets a mirror for it.
EndsInApproval(d) ==
    /\ batch[d] # <<>> /\ Head(batch[d]).kind = "approval"
    /\ Head(batch[d]).transfer \notin seen[d]
    /\ seen' = [seen EXCEPT ![d] = @ \cup {Head(batch[d]).transfer}]
    /\ Restart(d)

Command(d) ==
    \/ RequestHistory(d) \/ SendApproval(d) \/ MarkApproved(d) \/ SendHistory(d)
    \/ ForgetRequest(d) \/ ExportHistory(d) \/ ImportHistory(d)
    \/ \E e \in Device, skipped \in SUBSET Chunk : ApproveDevice(d, e, skipped)
    \/ \E e \in Device : DenyDevice(d, e) \/ RevokeApproval(d, e)

Traffic(d) ==
    \E k \in Message :
        \/ SendText(d, k) \/ Receive(d, k) \/ MarkRead(d, k)
        \/ \E st \in {Delivered, Read} : Receipt(d, k, st)

Sync(d) ==
    \/ Fetch(d) \/ Ack(d) \/ Unhandled(d) \/ HandleRequest(d) \/ HandleApproval(d)
    \/ HandleOffer(d) \/ HandleItem(d) \/ HandleComplete(d) \/ HandleMirror(d)
    \/ HandleState(d)

Next == \E d \in Device : Command(d) \/ Traffic(d) \/ Sync(d) \/ Crash(d) \/ EndsInApproval(d)

Spec == Init /\ [][Next]_vars

-----------------------------------------------------------------------------
(* Properties.                                                             *)
Job ==
    [to : Device, transfer : Transfer, step : {"approval", "mark", "stream"},
     asked : SUBSET Device, todo : Seq(Record)]

Known == [pos : Nat, st : Rank] \cup {None}

\* Every device, record and transfer has its type; an approval under way is at one of
\* its three steps, whatever put of it failed.
TypeOK ==
    /\ rows \in [Device -> [Message -> Seq(Row)]]
    /\ held \in [Device -> SUBSET Thing]
    /\ approvals \in [Device -> [Device -> Transfer \cup {None}]]
    /\ pending \in [Device -> SUBSET Device]
    /\ seen \in [Device -> SUBSET Transfer]
    /\ incoming \in [Device -> [Device ->
          [transfer : Transfer \cup {None}, received : Nat, chain : Digest,
           expected : Nat, done : BOOLEAN, complete : BOOLEAN]]]
    /\ index \in [Device -> [Message -> Known] \cup {None}]
    /\ job \in [Device -> Job \cup {None}]
    /\ batch \in [Device -> Seq(Record)]
    /\ got \in [Device -> [Relay -> Nat]]
    /\ boxes \in [Relay -> [Device -> Seq(Record)]]
    /\ file \in Seq(Item) \cup {None}
    /\ offered \in [Transfer -> SUBSET Item]
    /\ consent \subseteq Device \X Device
    /\ revoked \in [Device -> SUBSET Transfer]
    /\ crossed \in [Device -> SUBSET Message]
    /\ transfers \in 0 .. MaxTransfers

\* Whatever was lost, repeated or reordered, a transfer that a device calls done
\* and complete, the one its digest was started with, has given it every item its
\* sender offered.
CompleteMeansAll ==
    \A d, e \in Device : incoming[d][e].done /\ incoming[d][e].complete =>
        LET transfer == incoming[d][e].chain.seed IN
        /\ transfer # None
        /\ \A item \in offered[transfer] :
              IF item.of \in Thing THEN item.of \in held[d] ELSE rows[d][item.of] # <<>>

InFlight(d) ==
    Range(batch[d]) \cup UNION {Range(boxes[r][d]) : r \in Relay}

\* No history leaves a device for one that a human on it did not approve: whatever
\* requests and approvals are lost, repeated or cross each other, and whichever
\* side ends in the middle of them.
ConsentRequired ==
    \A d \in Device : \A rec \in InFlight(d) :
        rec.kind \in {"offer", "item", "complete"} => <<rec.from, d>> \in consent

\* "A device sends mirrors or history only to devices a human on that device
\* approved": the mirrors.
MirrorsConsented ==
    \A d \in Device : \A rec \in InFlight(d) :
        rec.kind \in {"mirror", "state"} => <<rec.from, d>> \in consent

\* An approval a human withdrew does not come back, even if the record that
\* granted it is handled again.
RevokedStaysRevoked ==
    \A d, e \in Device : approvals[d][e] \notin revoked[d]

\* A message has one row on each device, however often and by whatever way it
\* came, unless it came by two ways at once: live, mirrored or imported while the
\* index of a transfer that also brings it was cached.
OneRowEach ==
    \A d \in Device : \A k \in Message \ crossed[d] : Len(rows[d][k]) <= 1

=============================================================================
