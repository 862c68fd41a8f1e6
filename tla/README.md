# A TLA+ model of noknowledge

noknowledge is an end-to-end encrypted messenger. Clients talk to each other
only through *relays*: small HTTP servers that hold opaque blobs in mailboxes
and hand out prekey bundles. This directory holds a TLA+ model of the parts of it
whose correctness depends on order, concurrency and failure, the TLC
configurations that check them, and TLAPS proofs of the properties that matter
most. Paths below are relative to `src/noknowledge/`.

Run from this directory, for instance

    tlc -workers 2 -config MCRelay.cfg MCRelay
    tlapm RelayProofs.tla

`PROJECT.json` lists the runs, which source lines every definition models, the
mutations each property has been shown to detect, the hazards of the code and
the theorems.

## 1. The system

| Part | State it keeps | Operations | Hard behaviour | Correct when |
|---|---|---|---|---|
| **Relay mailboxes** (`server/db.py`, `server/routers/mailboxes.py`, `server/deps.py`) | tables `mailboxes`, `messages` | create, put, long-poll get, ack, delete | handlers authenticate, leave the event loop, and write in a later transaction; late and repeated acks; quota races | no orphan rows, seqs never reused, no mail lost unfetched, quotas hold, every request ends |
| **Relay blobs** (`server/routers/blobs.py`) | table `blobs` | upload, download | check and insert are two transactions; the mailbox may go in between | blobs go with their mailbox, quota shared with messages |
| **Relay housekeeping** (`server/app.py`, `db.py`) | - | hourly removal of idle mailboxes and stray blobs; restart | runs among the handlers | removes only what is abandoned |
| **Relay prekeys** (`server/routers/prekeys.py`, `db.py`) | tables `prekey_bundles`, `prekey_one_time` | publish, fetch | republication while senders fetch; several relays hold the same pool; retried fetches | a one-time prekey is handed out once |
| **Rate limiter** (`server/ratelimit.py`) | a window per key | check | many keys, window edges | never more than the limit per window |
| **Double Ratchet** (`crypto/ratchet.py`) | `RatchetState` per session | initiator, responder, encrypt, decrypt | reordered, repeated, late, damaged messages; counters that start over | no replay, forward secrecy, no key reuse, no desynchronisation |
| **X3DH** (`crypto/x3dh.py`, `crypto/prekeys.py`) | prekeys of a device | initiate, respond | one-time prekey spent once | both sides derive the same secret |
| **Receiving** (`core/client.py`: `sync`, `_handle_blob`, `_begin_inbound`, `_finish_inbound`, `_process_envelope`) | prekeys, inbound sessions, messages in the store | sync | four separate writes per blob; a crash between any two; blobs that never open | nothing acknowledged is lost, nothing blocks the mailbox |
| **Sending** (`core/client.py`: `_fan_out`, `send_text`, `send_file`, receipts, outbox) | outbound sessions, outbox, message states | send, receipt, flush | one device of several fails; receipts overtake each other | copies agree with saved counters, states only advance |
| **Multi-relay backend** (`wire/backends/*.py`, `wire/transport.py`) | relay list | put, fetch, ack, publish, fetch bundle | any relay may fail, answers are lost, requests retried | one relay that works is enough |
| **Relay discovery** (`wire/discovery.py`, `server/routers/relays.py`) | known relays | refresh | caps, untrusted answers | never removes a configured relay |
| **Device lists, provisioning** (`core/devices.py`, `client.py`) | mailbox, prekeys and ids in the store; a signed list per account, published as a bundle | provision, register | random draws stored in several writes, a crash between two; read, modify, publish by several devices | what is published can be answered, no device is lost |
| **Device channel, history sync** (`core/sync.py`, `core/device_channel.py`, `core/history.py`) | approvals, requests, transfers, mirrored messages | request, approve, revoke, mirror, back-fill, merge | records lost, repeated per relay and replayed; a cached index against other writers | nothing leaves without consent, complete means complete, one row per message |
| **Attachments** (`core/attachments.py`, `client.py`) | chunks on relays, manifests in messages, the blob cache | send, download, prune | uploads per device and relay before the message; the cache at its limit | who has the message can get the file |
| **Local store** (`core/store.py`) | SQLite database of the client, its key | CRUD, key lookup | which key source exists changes | rows open with the key they were sealed with |
| **Desktop client** (`gui/*.py`) | screens, settings, identity file, a worker thread with a queue | create, recover, unlock, lock, switch, settings, commands | worker against GUI thread; a worker that does not end in time | no command is slept on, one worker goes on |

How they interact: a client calls its multi-relay backend, which calls one HTTP
backend per relay; the relay's handlers share nothing but the SQLite database.
A sender fetches a receiver's device list and, per device, a prekey bundle;
starts an outbound session per device (X3DH, then `Ratchet.initiator`); and puts
one blob per device into that device's mailbox on every relay of the device. The
receiver's worker thread calls `sync` in a loop: fetch from all relays, handle
each blob (an unknown session id starts an inbound session with
`Ratchet.responder`), store the messages, send receipts, acknowledge the batch.
Records between the devices of one account travel through the same mailboxes and
are told apart by their prefix. The desktop's GUI thread queues commands for the
worker; denying a request, adding a contact and reading run on the GUI thread
itself, and so does `provision` when a window asks for the card or the pending
requests before the worker has made them.

Sessions are directional: replies travel on the replying side's own outbound
session, so a session's responder never encrypts on it. `Ratchet` nevertheless
models both directions, since the class supports them and its documentation
promises them.

## 2. Modules

| Module | Models | Checked by | Proved in |
|---|---|---|---|
| `MailStore` | abstract: what a relay promises about mailboxes | implemented by `Relay` (`ImplementsMailStore`) | `RelayProofs` |
| `Relay` | mailboxes, messages, blobs, housekeeping, restarts of one relay | `MCRelay` | `RelayProofs` |
| `Ratchet` | one Double Ratchet session over an unreliable network | `MCRatchet` | `RatchetProofs` |
| `Sessions` | one-time prekeys on several relays, session start, the receiver's `sync` with crashes | `MCSessions` | `SessionsProofs` |
| `Delivery` | sending to the devices of a contact: sessions, copies, message rows, outbox, receipts | `MCDelivery` | `DeliveryProofs` |
| `Provisioning` | `provision` and the device list, by several devices over several relays | `MCProvisioning` | `ProvisioningProofs` |
| `DeviceSync` | the devices of an account among themselves: approvals, transfers, mirrors, merge | `MCDeviceSync` | `DeviceSyncProofs` |
| `Attachments` | chunks, manifests, discovery of relays, the blob cache | `MCAttachments` | `AttachmentsProofs` |
| `Desktop` | the App around the client: screens, workers, settings, store key | `MCDesktop` | `DesktopProofs` |

### MailStore

The contract the rest of the system relies on, in four actions: an open mailbox
numbers its messages from 1 without gap or reuse (`Put`) and loses them from the
front only (`Remove`), unless it is closed as a whole (`Close`). `Relay`
instantiates it with `Kept`, the numbers its two tables hold per mailbox, and
`ImplementsMailStore` says that every step of a handler, of housekeeping or of a
restart is one of these or leaves them alone. It is what `Sessions`, `Delivery`
and `DeviceSync` take for granted when they treat a mailbox as a sequence.

### Relay

The three tables are variables of the same names. A `Database` method is one
SQLite transaction and therefore one action; a handler is at least two actions,
because it authenticates (`deps.authenticate_mailbox`, a SELECT), awaits its body
and a thread, and only then runs the method that writes. `inflight` holds, per
handler, the request it is in the middle of. So `PutStart` is the first half of
`put_message` in `routers/mailboxes.py` and `PutMessage` is
`Database.put_message`, which looks the mailbox up again; `CreateCheck` and
`CreateInsert` are the two transactions of `create_mailbox`; `UploadStart`,
`UploadCheck` and `UploadStore` are the three of `put_blob`; `GetPoll` is one
round of the long-poll loop. `Housekeeping` is one transaction that may happen at
any time, `Restart` empties `inflight` and keeps the tables, `Tick` moves the
clock. Requests that end without effect (401, 404, 409, 429, 400) are not steps.

Abstractions: one value of `Cap` stands for the read and the write token of a
capability, which is generated as a whole; bodies are their sizes; a client
acknowledges a seq that some response contained (what `sync` does), at any later
time and any number of times. History variables (`lives`, `accepted`, `fetched`,
`failed`, and the fields `life` and `nth` of a message row) exist only for the
properties: no guard of a handler depends on them, other than the bound
`MaxLives` and the choice of acks.

### Ratchet

`state[p]` is the `RatchetState` dataclass field by field. Cryptography is
symbolic: a chain is the sequence of Diffie-Hellman agreements mixed into it, a
message key is a chain and a position, and the AEAD opens a message exactly under
its key. Following the code, `_decrypt` is `Turned` (skip to `pn`, DH ratchet),
then the cache (`Filed`), then `SkipKeys` to `n`, then `Consumed`; `SkippedTooFar`
and `DuplicateMessage` are `TooFar` and `Duplicate`; any failure restores the
snapshot (`RolledBack`). The order is the code's, not the textbook's: the ratchet
turns before the cache is consulted (see `ratchet_late`). The network is the set of
all messages ever sent, so any of them may arrive, late, twice or never, among
`Noise`: messages that do not authenticate, with plausible headers.

### Sessions

The receiver's store (`opks`, `inbound`, `stored`), its relays' prekey tables
(`bundles`, `one_time`) and the senders (`outbound`, `sent`). `phase` is the
position of `sync` between two writes to the store: `idle`; `blob` (about to
handle a blob, or to acknowledge); `consumed` (after `_consume_opk`); `saved`
(after `_save_state`, before `add_message`). `Crash` may happen in any of them
and keeps what was written. `HandleKnown`, `BeginInbound`, `RefuseInbound`,
`SaveInbound` and `StoreMessage` are the branches and stages of `_handle_blob`;
`Publish` and `HandsOut` are `publish_bundle` and `fetch_bundle` of `db.py`, over
the relays that `multi_relay.py` goes through. The inbound ratchet is reduced to
the set of message numbers it has consumed, which is what `Ratchet` shows it to be
for one-way traffic within the skip limit (`CurrentChainsOpen`, `ReplaysFail`).
The mailbox is one sequence with copies; cursors and acks per relay are not
separated here.

### Delivery

One account sends to a contact with several devices. `saved` is the stored
session state, `op` the command under way with the copy of it that
`_load_state` made; `SendCopy` is one round of `_fan_out` (seal, then put) and
moves the counter of the copy only; `SaveState`, `AddRow` and `QueueRow` are the
writes that follow the last device, each a transaction of its own. `PutFails`
(no relay of the device accepts), `AnswerLost` (one does, and put raises all the
same) and `Crash` end the command and forget `op`. Texts, files and receipts
travel on the same sessions, so a receipt is a command that ends with
`SaveState`. `TakeReceipt` is the receipt branch of `_process_envelope`, and
`FlushOutbox` is `flush_outbox`.

The contact's devices are reduced to what `Sessions` and `Ratchet` say of them. A
number of the current inbound session opens once; another session id replaces
that session if its handshake can be made, for which its one-time prekey must not
have been used by any session (`Readable`, `ConsumeOpk`, `SaveInbound`); what
cannot be opened is dropped (`Refuse`). Each relay of a device has the whole pool of
prekeys, so two sessions with one device may begin with the same prekey: `Start`
takes any. `EndsBeforeSave` and `EndsBeforeStore` are the ends of a device's process
between its writes, `OtherSession` is the first message of somebody else, who takes
a prekey and, as another device of the sender's account, the place of the session;
`Repeat` brings a copy once more. These and `RelayLoses` are the faults that
`MaxFaults` counts. Receipts are put or lost (`Notify`) and come back in the order of
each device. The device list does not change; the upload of the chunks
of a file, which comes before `Start`, has no effect on this state and is the
subject of `Attachments`.

### Provisioning

`store[d]` and `mem[d]` are what an installation has on disk and in its `Client`;
`relay[r]` is what a relay holds of the account: mailboxes, bundles, the device
list, device keys. `at[d][t]` is where a thread is in `provision`, one action per
access to the shared `Client` or store and per relay call: `Call` decides between the
branch of a stored mailbox (`Register`, `PublishBundle`) and the one of a new one
(`Create`, `NewBundle`, `SavePrekeys`, `PublishBundle`, `SetInbox`, `SetBundle`);
`Card` is the assertion and the card; `DeviceId`, `SetDeviceId`, `KeepDeviceId`,
`ReadList`, `PublishList` and `PublishKeys` are `_ensure_device_registered`. A call reaches any subset of the relays, each
missing answer counted by `MaxFaults`; `Crash` keeps the store. Bundle and list
are published relay by relay, because another device may read in between. One
number stands for everything that is drawn at random at once.

`Thread` is a parameter, because the GUI thread calls `provision` too, on the same
`Client` and without a lock (`_ensure_provisioned` behind `card_string` and
`history_requests`); the run has both. Two threads that meet in the first provision
of a device each draw a mailbox and prekeys, and the outcome depends on who writes
last. The history variable `raced` holds the devices to which this has happened: the
properties except them, and only them (see the observations). Threads that meet
later, when the store has mailbox, bundle and device id, are not excepted.

### DeviceSync

Per device: the rows of every message, contacts and chunks held, `approvals`,
`pending` requests, the `seen` transfers, the progress of `incoming` transfers
(all stored), and in memory the cached message `index`, the `job` of an approval
under way and the `batch` being handled. `boxes` are the records in each mailbox
on each relay. `ApproveDevice`, `SendApproval`, `MarkApproved`, `SendHistory`,
`ForgetRequest` are the stages of `approve_device`; the `Handle...` actions are the
branches of `handle_record`, and `EndsInApproval` is a process that ends between
`_mark_seen` and `mark_approved`; `Fetch` concatenates what each relay returns, so
records come once per relay, and `Ack` removes what was fetched. `Unhandled` is a
record whose sender is not on the list or whose keys cannot be fetched: it is
skipped and acknowledged. A hash chain is its seed, the transfer it was started
for, with the numbered items that were added to it; a record has the fields of its
kind; a message is one value of `message_key` with the rank of its state.

`CompleteMeansAll` speaks of the transfer the digest of an entry was started with,
not of the id in the entry: with enough failing relays the entry can already name a
later transfer when the COMPLETE of the earlier one comes and matches, and the
device rightly has everything of the earlier one.

Abstractions: both devices are on the list; the requested range takes in every
message; the `seen` list is not cut at `MAX_SEEN_TRANSFERS`; a mirror goes to
all approved siblings in one step.

### Attachments

`relays[d]` are the relays a device uses, `saved[d]` those of its settings file,
`address[d]` those the sender has for it; `held[r]` are the chunks on a relay.
`RefreshRelays` is `refresh_relays` with `discover_relays` as the pure functions
`FetchKnownRelays`, `Candidates` and `Adopted`, caps included; their loops are
recursive functions over the positions of a list. `SendFile`, `UploadChunk`,
`KeepChunk`, `PruneKept`, `FanOut`, `AddMessage` are `send_file`, one chunk or
copy per step, with `SendEnds` for whatever cuts it short; `Download`,
`GetChunk`, `PruneFetched` are `download_attachment`, with the ciphertexts it holds in
memory (`got`, `Collect`) and the check of the whole at its end (`DecryptAttachment`,
whose outcome `opened` records). Insertion into the cache and its pruning are two
transactions, and two steps; the deletions of one pruning are one step, as every
state between them satisfies the property about the cache. `DropMailbox` is what
housekeeping of a relay does to the chunks (`Relay`), `Restart` the end of a
device's program. A chunk is its file, the device it was uploaded for and its
place; the URLs are normalised, and the host of each is given.

### Desktop

`screen` and `gui` are the GUI thread: what the stack shows, and what it is in the
middle of when an event takes two steps (`save`: the identity file is open for
writing; `teardown` and `restart`: in `Worker.stop`, whose two events are set one
after the other (`SetStop`, `SetWake`), or in `wait(3000)`; `wake`: between `put` and
`set` of `submit`). A client may fail to be built, before or after it has taken the
key of its store (`BuildFails`): the App goes back to the welcome screen, or keeps its
worker. `workers` are all threads started, each with its queue, event and
place in `Worker.run`; the GUI thread may go on although the old worker has not
ended, which is `wait` timing out. The disk holds `idfile`, `saved`, `keyfile` and the
keys rows are `sealed` with; `ResolveStoreKey` is `resolve_store_key`. A client
belongs to its worker, and what it does inside a command is the subject of the
other modules. `ChangeMode` is a keyring that is there at one start and not at the
next.

## 3. Runs

Passing runs (two workers; none takes more than three minutes):

| Run | Checks | Shows | Bounds, and why they are enough |
|---|---|---|---|
| `relay` | `TypeOK` `NoOrphans` `SeqIdentifiesMessage` `AckCoversFetched` `QuotaHeld` `NoSilentLoss` `ImplementsMailStore` `RequestsEnd` | Whatever handlers, housekeeping and restarts do in between, no row outlives its mailbox, no seq is reused, an ack deletes nothing that was not fetched, nothing else loses mail, messages and chunks that race for one quota never exceed it, the whole is a `MailStore`, and every request ends, long polls on a removed or empty mailbox too | 2 handlers, 1 mailbox, 2 lives, 3 messages, 1 chunk, fetch limit 1, quotas of 2 messages and 2 bytes. All races are between two handlers on one row; two lives give acks and puts that outlive their mailbox; a fetch limit below the quota gives partial fetches; three puts let a mailbox be emptied and filled again; with one of two bytes taken, two requests that each fit do not fit together |
| `ratchet_both` | `TypeOK` `ReplaysFail` `ConsumedKeysGone` `NextKeysFresh` `CurrentChainsOpen` | Replays fail, keys of opened messages are gone, no key encrypts twice, with both parties talking; the two sides agree on every chain until a late message turns a ratchet back. A session used in one direction, as the client does, has a single chain, and no message is late | 2 messages per chain against `MAX_SKIP` 1, 3 ratchet turns per party: enough for a message to be two chains late, for gaps below and beyond the limit, and for the failed message that is rolled back to be the one that turns the ratchet |
| `sessions_crash` | `TypeOK` `HandedOncePerRelay` `OpkAcceptedOnce` `OnlyDisplacedLost` `EveryBlobAcked` | A relay gives each prekey away once, the receiver accepts each once, no blob blocks the mailbox, and without a crash only messages of a displaced session are lost, across republication, lost answers, relays that hand out the same prekey and lost acks | 2 relays with the same prekey, 2 devices of one contact, 2 messages each, one copy, one crash: the prekey can be given away by both relays or by none (a session without one), and a session can be cut off, replaced and refused |
| `delivery` | `TypeOK` `TicksTruthful` `OutboxUnanswered` `SentReachesAll` | Whatever cuts a send short, whatever copies and receipts are lost, late or repeated, and wherever a receiver stops, delivered and read are true of some device, the outbox holds unanswered messages only, and a recorded message has reached or waits for every device, except in the five ways `SentReachesAll` names | 2 devices, 1 text, 1 receipt, 1 prekey, 2 faults. A receipt shares the sessions, so two sends give a first one that is cut short after one copy and a second one whose session begins with the same prekey; two devices give a failure between two copies; two faults let a session be displaced or cut off and a copy of it come again. A message key is shared only in the third of three sends, which is the case of `delivery_keys`; three sends with one fault pass as well, in 12.6 million states |
| `provisioning` | `TypeOK` `PublishedUsable` `ListedReachable` `EventuallyProvisioned` | With the worker and the GUI thread in `provision` at once, and whatever fails or ends in between: a published bundle has its private halves in the store and lists name devices that still read there, unless the two threads met in the first provision; the device gets its card for good unless its store was torn | 1 device, 2 threads, 2 relays, 1 fault (a missing answer or a crash, at any step), 8 draws. Two relays give a list or bundle that is on one only; a thread draws at most three times (mailbox, id, keys), twice that for two, and two more for what a crash repeats. The theorems cover several devices; their invariant was checked with two devices of two threads each as well |
| `device_sync` | `TypeOK` `CompleteMeansAll` `ConsentRequired` `RevokedStaysRevoked` `OneRowEach` | Over relays that lose, repeat and replay records: a transfer called complete brought everything, history goes to nobody its device's human did not approve, a withdrawn approval stays withdrawn, and a message has one row unless it crossed a transfer | 2 devices, 2 relays, 1 message each way, 1 contact, 1 transfer, 1 fault, 2 live events (messages, receipts, exports) or 1 request, which touches no row. Two relays give each record twice; a fault is a missing relay, an unhandled record or a crash anywhere. Two transfers without live traffic pass as well |
| `attachments` | `TypeOK` `FileReachable` `CacheIsNewest` `FilesOpen` | A device with the message of a file can get every chunk, whatever failed during the upload and whoever discovered relays meanwhile; a download that got a chunk for every place returns the file, though its own insertions evict earlier chunks; discovery keeps what was configured and its caps; the cache holds the newest that fits | 2 devices, chunks of 2 and 1 against a cache of 2, so a file does not fit; 4 URLs: one configured, one to be discovered, one on the same host, one internal; at most 2 relays; 1 file, 2 downloads, 2 faults |
| `desktop` | `TypeOK` `NoLostWakeup` `OneWorkerGoesOn` `KeyOpensRows` | A worker never sleeps on a command or the order to stop; while the main screen takes commands its own worker runs for the account of the identity file, and all others are about to end; rows open with the key they were sealed with unless both key sources exist | 2 accounts, 2 clients (a worker or a client that could not be built), 1 command, 1 change of settings, 1 discovery, 1 change of the keyring, 1 end of the program: a second worker next to a first that did not end in time, for the same account and for the other one |

`CHECK_DEADLOCK FALSE` appears where a bound (messages, key pairs, workers) lets the
system run out of things to do.

Runs that refute a statement of the repository:

| Run | Statement | What the code does |
|---|---|---|
| `ratchet_late` | `crypto/ratchet.py:5`, `PROTOCOL.md:243`: out-of-order messages are supported | A late message of an earlier chain makes `_decrypt` turn the ratchet on its old key before its key is found in the cache; the turn is kept, and the current chain no longer opens. Sessions are one-way in the client, so it does not meet this today |
| `sessions_devices` | `core/client.py:399`: sessions are keyed by device id | Inbound sessions are filed under the receiver's own device id, so a contact's second device replaces the session of its first, whose next message is then dropped and acknowledged |
| `delivery_keys` | `THREAT_MODEL.md:148`: every message has a key of its own | The sessions are saved after the last device. A send that fails at a later device, loses an answer or is cut off by a crash has used keys that the stored sessions still count as unused; the next send seals another envelope with them, which the device that opened the first one refuses as a duplicate and acknowledges |
| `device_sync_mirror` | `PROTOCOL.md:489`, `core/sync.py:14`, `THREAT_MODEL.md:158`, `docs/HISTORY_SYNC.md:295`: a device sends mirrors only to devices a human on that device approved | An APPROVAL makes its receiver mark the sender approved (`sync.py:513-522`). One device approves another; the other, at which nobody approved anything, takes the record over, and its next receipt is mirrored to the first one. `ConsentRequired` is the half of the statement that holds: history |

### Observations

What else was met while the modules were written; the properties above name these
cases as exceptions where they would be violated by them.

Relay:
- Two overlapping identical registrations both find no row; the second INSERT
  fails and the request ends in a 500, while `routers/mailboxes.py:53` calls
  registration idempotent.
- `last_seen` changes on create and put only (`touch_mailbox`, `db.py:152`, has no
  caller), so a mailbox polled all the time but written to by nobody is removed as
  idle (`docs/SELF_HOSTING.md:39`).
- Every relay holds the whole pool of one-time prekeys, so two senders that reach
  different relays may be given the same one; the receiver accepts one of the two.

Sending and receiving:
- `_skip_keys` limits each gap to `MAX_SKIP` and never the cache, so the cap of
  `THREAT_MODEL.md:144` is per gap.
- Every outbox row is stored as sent (`AllMarked` in `DeliveryProofs`), so
  `flush_outbox` never re-sends, while `THREAT_MODEL.md:145` has the outbox
  re-deliver until the receipt.
- A receipt sets the state it names unconditionally (`client.py:951`), so
  delivered after read moves a message back.
- `mark_read` tells the contact and the siblings and leaves the local row as it is.

Provisioning:
- A process that ends between storing `inbox` and `bundle_id` leaves a store on
  which the assertion of `provision` fails at every later start (`Torn`).
- Two devices that register at once lose one of the two updates: each reads the list,
  adds itself and publishes, and the later publication lacks the other device, while
  `core/devices.py:14-16` has devices publish "with no coordination". TLC refutes in a
  few steps that registered devices are all listed, so no property here says it; what
  does hold is that whoever is listed can be reached (`ListedReachable`). And a list that reached
  one relay only is never repaired on the other while the first one answers.
- Device keys are published only together with a changed list, so a failed
  publication is not repeated while the list stays the same.
- Nothing keeps the GUI thread out of `provision` while the worker is in the first one
  (`app.py:913`, `935-936`, `983`). Without `raced` both properties are violated without
  any fault. For `PublishedUsable`: the worker publishes its bundle on both relays; the
  GUI thread enters, finds no stored mailbox, draws and names its own bundle in the
  shared client; the worker then stores that name, and no relay has it. The prekeys of
  the bundle that is out there are overwritten in the same way. And the store may be
  torn with no crash at all: the worker has stored the mailbox, the GUI thread enters,
  takes the missing bundle id into the client, and the worker stores that.
- `_apply_relays` does not publish the device list again; the new relays get into it
  at the next start.

Between devices:
- A device record that cannot be handled is acknowledged with its batch, against
  the comment above it (`client.py:786-791`).
- A process that ends between `_mark_seen` and `mark_approved` has the approval
  skipped when its record comes again (`EndsInApproval`).
- An interrupted transfer is not offered again: the request is hidden as soon as
  the device is approved (`pending_requests`), while `docs/HISTORY_SYNC.md:304` has
  it resumed by asking again.
- `approve_device` writes back the requests as they were before the stream, so a
  denial in between is undone.
- A transfer without items, or one whose OFFER came from one relay after the ITEMs
  from another, is reported as incomplete.
- While a transfer is under way its cached index is not told of rows that come by
  other ways: such a message may get a second row, and a state may move back
  (`crossed`).
- Messages that were back-filled have new ids, so later receipts and state mirrors
  for them find nothing. Mirrors are not kept in the outbox.

Desktop:
- Commands still queued when the worker is told to stop (lock, settings, close) are
  dropped, if the stop is seen before they are drained.
- A signal of an old worker that comes after the user's change of settings replaces
  the user's relays, while `discovery.py:5` has a configured relay survive.
- A key in the keyring, then one start without a keyring, creates `local.key`, which
  wins ever after: the rows sealed before do not open any more, while
  `store.py:157` has switching modes never orphan them. `KeyOpensRows` excepts this.
- The identity file and the settings are truncated and then written.
- `add_contact` runs on the GUI thread and saves the whole contact, sessions
  included, while the worker may be saving them.

Attachments:
- The sender's own row names chunks in the contact's mailbox, which it cannot
  fetch: once its cache has evicted them, its own file is gone.
- Fetching a chunk may evict an earlier one of the same file; the file is still
  assembled, because the ciphertexts are kept in memory.
- A `send_file` that fails leaves its chunks on the relays until they expire.
- Relays that were adopted and not yet saved are forgotten by a restart, with the
  chunks that only they hold (`forgotten`).

### Fairness

`Relay` assumes weak fairness of each handler's next transaction (`Serve(h)`):
the event loop and its thread pool run what is ready, and SQLite waits at most
30 s for the write lock. Nothing is assumed of clients, the clock or
housekeeping.

`Sessions` assumes weak fairness of `Fetch` and of handling a blob (the worker
thread calls `sync` in a loop and runs it to its end) and strong fairness of
`Ack`: of infinitely many acknowledgements not all are lost. Senders, crashes and
publication are not fair; the number of crashes is bounded.

`Provisioning` assumes weak fairness of the worker's next step in `provision`
(`Provision(d, Worker)`): every `sync` begins with `_ensure_provisioned`, and
`Worker.run` catches every exception, so it tries again. Relay failures and
crashes are bounded, not fair; nothing is assumed of the GUI thread, which may stop
anywhere in `provision`, as far as the worker is concerned. The remaining
modules state safety only.

## 4. Proofs

The theorems hold for every value of the constants allowed by the named
assumptions: the settings and bounds are natural numbers, sizes and the fetch
limit are positive, lists of relays, devices and pieces are not empty and name
nothing twice where the code has them so, the sentinels (`NoRow`, `Idle`, `NoChain`,
`NoKey`, `None`, `NoOpk`) are not data, the two parties of a ratchet differ, the
messages and chunks of an account are finitely many. The bounds of the model remain
as constants, so the theorems say "for every bound".

**`RelayProofs`**: `TypeCorrect`, `OrphanFreedom`, `SeqIdentity`, `AckSafety`,
`MailKept`, `QuotaKept`, `MailStoreRefinement`. None of the invariants is inductive
alone. `IndInv` adds

- `SeqBelowNext`: every seq known of the present life is below the mailbox's
  `next_seq`, and no row belongs to a life that has not begun; without it
  a new message might collide with an old one;
- `FetchedPrefix`: at or below a fetched seq of one life, every row still there
  has been fetched as well. It holds because GET returns the lowest seqs first
  and later rows get higher ones, and it is what turns "ack up to seq" into "ack
  what was fetched";
- `AckIssued`: an ack in flight names a seq that was fetched in its life.

One lemma per kind of step (`ShrinkStep` for everything that only removes rows,
`CreateStep`, `PutStep`, `GetStep`, `WithoutStep`, `StoreStep`) preserves `IndInv`.
`MailKept` follows from it step by step: `LossStep`. `QuotaKept` has two halves. The
message count (`CountHeld`) is part of `IndInv`. For the bytes, `SumFunction` is shown
to be what one expects of a sum over a finite set: `IsTotal` says that a function
gives every subset its sum, such a function exists for every finite set
(`TotalExists`, by induction over the cardinality), and `SumFunction` computes it
(`SumIsTotal`); so fewer rows have no larger sum (`SumFewer`) and one more row adds at
most its size (`SumMore`). Then every step keeps `BytesHeld`. `MailStoreRefinement` is
the refinement: the initial states map to initial states, and every step, of a
handler, of housekeeping or of a restart, is a step of `MailStore` or leaves `Kept`
alone; `SeqBelowNext` gives that a put takes the next number.

**`RatchetProofs`**: `TypeCorrect`, `ReplayProtection`, `ForwardSecrecy`,
`SendingKeysFresh`, `CurrentMessagesOpen`. The argument for the first three is an
order on keys: a key is *behind* a state if its chain is shorter than the receiving
chain, or is the receiving chain and its position is below `recv_count`. Keys that are
filed or were used are always behind, each chain is filed under one remote key, and a
DH ratchet only ever starts a longer chain; so a key that was taken is neither derived
nor filed again. `DoneDoesNotOpen` turns this into "replays fail".

The other two rest on the *place* of a key pair among those of both parties, in the
order in which a session that only goes forward makes them. `FreshInv`: a root key
is as long as the place of its owner's present key pair, and so is the sending chain;
every message is on the chain of the key pair in its header, with a number below
`send_count` if that pair is still in use. So a message on the present sending chain
has been sent with a smaller number, and nobody else can be on it. `ForwardInv` says
what holds as long as no ratchet was turned back: the parties are at most one place
apart, every root key and chain is a prefix of one canonical chain (`Canon`, `InStep`),
and each number behind the receiving chain is filed or decrypted (`Accounted`). A
message that is on time leaves the parties in step (`TurnedInStep`); a late one, with
a key older than the remote one, turns the ratchet back, and it stays so
(`TurnedBackStays`).

**`SessionsProofs`**: `TypeCorrect`, `PrekeyOncePerRelay` (from `UsedCounts`: what
was handed out is marked used, and INSERT OR IGNORE never unmarks it), `OpkOnce`
(from `SpentGone`: the prekey of an accepted handshake is no longer in the store, in
every phase, so also across a crash) and `LossOnlyDisplaced`: while nothing has
crashed, what was handled and is not stored belongs to a session that was displaced.

**`DeliveryProofs`**: `TypeCorrect` (together with `AllMarked`, from which it follows
that flushing changes nothing), `TrueTicks`, `OutboxOpen`, `RecordedReaches`.
`TrueTicks` needs `BackTruthful`: a receipt on its way says what has happened on its
device, and what was opened or read there stays so. `OutboxOpen` needs `QueuedSent`:
while the outbox rows are written, their message is recorded and not yet answered,
because no receipt is handled in the middle of a command. `RecordedReaches` needs
`ReachInv`, which says why a device refuses an envelope: a number that its session has
consumed was sealed for a message the device opened, whether or not it lived to store
it (`Consumed`); and a prekey that a session of the sender used up belongs to the
session the device has, or to one it has left (`Taken`). So what is refused shares its
key with what was opened, or was itself opened, or its prekey is gone, the cases that
`SentReachesAll` names. That the command under way has reached every device it is past
(`OpReaches`) then gives the property for the row it writes.

**`ProvisioningProofs`**: `TypeCorrect`, `BundleUsable` and `ListReachable`, for any
number of devices and threads. `UseInv` says, per device outside `raced` and per place
of each of its threads in `provision`, how far the draw has come (`DeviceOK`): until
the first provision is over one thread is in it (`Solo`), what the store names was
registered and published first (`StoreOK`, `DrawOK`), and what a thread is about to
advertise is what the store holds (`ClientOK`, `EntryOK`). `OwnInv` says that a draw
belongs to one device, so that no device, raced or not, publishes prekeys under the
bundle id of another (`BundlesInv`). While no device has raced, everything on a list,
or about to be, is in some store (`ListsInv`). Threads that meet later find a stored
mailbox, bundle and id, which nobody changes any more (`Final`): they publish what is
published already.

**`DeviceSyncProofs`**: `TypeCorrect`, `OneRow`, `ConsentGiven`, `RevokedStays`,
`CompleteHasAll`. Each action is first shown to be a `Step`: it keeps `TypeInv`, does
one of a few things to approvals and records, loses no row, and changes the progress
of a transfer only by a record in flight. Then, for every `Step`:

- `TypeInv` has `RowsOK`: a cached index points at rows that exist, and knows every
  row of the messages that did not cross a transfer; so merging makes no second row;
- `ConsentInv`: a record of a transfer in flight and a stream under way each go back
  to the consent of the human at the sending device;
- `GrantInv`: transfer ids are drawn in order and grant once (`OneGrant`), an
  APPROVAL in flight that its receiver has not seen grants an id that was never used
  there (`FreshRecords`), and so does an approval about to be sent (`FreshJobs`).
  `RevokedStaysRevoked` alone says nothing of ids that are not yet granted;
- `TransferInv`: a COMPLETE in flight, or still to be sent, carries the digest of
  all items of its transfer, and whatever a digest contains the device has.

**`AttachmentsProofs`**: `TypeCorrect` (with the promises of `discover_relays`),
`FilesReachable`, `CacheNewest`, `DownloadsOpen`. `FileInv` says that the sender's addresses of a device
are relays that it uses or forgot, that the uploads behind a send are `Available`,
and that a manifest names available chunks of its own device; no step makes an
available chunk unavailable (`Kept`). `CacheInv` says that a cache is always the end
of the list of all that was put into it, one chunk longer would not have fitted, and
a cache beyond its cap is about to be pruned or was cut off. `OpenInv` says that the
ciphertexts in memory are those of the manifest up to the place a download has reached
(`Gathered`), whatever the cache has evicted meanwhile.

**`DesktopProofs`**: `TypeCorrect`, `OwnWorkerGoesOn`, `WakeupKept`, `StoreKeyOpens`.
`Bookkeeping` ties the screen to the App's worker and counts the keys drawn; `OwnInv`
adds what holds while the GUI thread waits for a worker to end (it was told to stop,
and the next one is for the account of the identity file); `WakeInv` that a worker
whose event is clear is awake, or has an empty queue and no order to stop, or the GUI
thread is between the two halves of `submit` or of `stop`; `KeyInv` that workers and rows have the key of `local.key`
or of the keyring.

The prover has no induction over data: the library's induction theorems take an
operator as a parameter, which it cannot instantiate. Where a loop is a recursive
function over the positions of a list (`FlattenSeq`, `MergeAll`, `Candidates`,
`Adopted`, `Bytes`), the proofs use induction for a *set* of numbers instead
(`LeastNat`, `AllNat`, from the well-foundedness of the natural numbers): the set of
positions up to which the function exists and has the property is all of `Nat`.

Every safety invariant and every action property that a passing run checks, and the
refinement, is stated by a theorem. Model-checked only: the liveness properties
`RequestsEnd`, `EveryBlobAcked` and `EventuallyProvisioned` (liveness under fairness is
beyond the prover), and the four properties that do not hold (they have a
counterexample).

## 5. Not modelled, and why

- Cryptographic primitives, key agreement and signatures: taken as ideal. Encoding,
  framing, padding, parsing of cards and vaults: conversions without state.
- `ratelimit.py`: a sliding window per key over wall-clock time. A refused request
  has no effect, and the limiter shares no state with the rest.
- `security.py`, settings, error classes: pure functions and constants.
- What the desktop client draws, reads or asks in dialogs: presentation. Adding a
  contact is a single write on the GUI thread; its race with the worker is among
  the observations.
- An old worker that outlives `wait(3000)` next to the new one: `Desktop` has both
  threads, but `Delivery` and `Sessions` one, so two threads that save the sessions of
  one contact are not covered.
- The refusals of `decode_manifest` (malformed manifests): the sender's are well formed.
- The cache of a contact's device list and its age, the day-long cache of sibling
  keys: in `Delivery` and `DeviceSync` the devices are fixed.
- `to_dict` and `from_dict` of the ratchet, SQL and the sealing of columns.

## 6. Plan

The components of the inventory that can be checked are modelled, and their safety is
proved. What could still be added, in order:

1. The cache of a contact's device list and its age, so that `Delivery` covers a
   device that joins or leaves during a command.
2. The promise of `Ratchet` as an abstract specification (a channel that opens every
   message at most once) and its refinement.
