---------------------------- MODULE Attachments -----------------------------
(***************************************************************************)
(* A file on its way to the devices of a contact: the relays each device   *)
(* adopts by discovery (wire/discovery.py, Client.refresh_relays), the     *)
(* upload of the chunks for every device and the message that names them   *)
(* (Client.send_file, core/attachments.py), the copies the relays hold     *)
(* (multi_relay.py put_blob and get_blob), the download chunk by chunk     *)
(* (Client.download_attachment) and the cache each client keeps            *)
(* (core/store.py local_blobs).                                            *)
(*                                                                         *)
(* What a relay does with one upload is Relay; the ratchets under the      *)
(* messages are Delivery.  A chunk is its file, the device whose mailbox   *)
(* holds it and its place in the file; ciphertexts open under the manifest *)
(* that names them.                                                        *)
(***************************************************************************)
EXTENDS Naturals, Sequences, SequencesExt, FiniteSets

CONSTANTS
    Sender,          \* the client that sends
    Devices,         \* the contact's devices, in the order of their list
    Pieces,          \* the sizes of the chunks a file is cut into
    Url,             \* relay URLs, normalised
    Host,            \* _host_key of each
    Internal,        \* those on loopback, private or reserved addresses
    KnownRelays,     \* what the operator of each relay has it advertise
    Configured,      \* the relays the devices start with
    None,
    MAX_RELAYS,      \* wire/discovery.py
    MAX_CANDIDATES,  \* wire/discovery.py
    Cap,             \* LOCAL_BLOB_CAP_BYTES
    MaxFiles,        \* bound: files sent
    MaxDownloads,    \* bound: times an attachment is opened
    MaxFaults        \* bound: calls some relay does not answer, mailboxes a relay
                     \* removes and clients that end, together

Device == Range(Devices)
Client == Device \cup {Sender}
File == 1 .. MaxFiles
Chunk == [file : File, to : Device, n : DOMAIN Pieces]

\* Where send_file is: uploading, keeping its own copy, fanning out or recording.
Sending == [step : {"upload", "keep", "prune", "send", "record"}, file : File,
            dev : DOMAIN Devices, at : DOMAIN Pieces]

\* Where a download is: a chunk of a manifest to get, or the cache to prune after it.
Reading == [step : {"get", "prune"}, manifest : [file : File, to : Device], at : DOMAIN Pieces]

ASSUME AttachmentsAssumption ==
    /\ Devices \in Seq(Device) /\ Sender \notin Device /\ Devices # <<>> /\ IsInjective(Devices)
    /\ Pieces \in Seq(Nat \ {0}) /\ Pieces # <<>>
    /\ DOMAIN Host = Url /\ Internal \subseteq Url
    /\ KnownRelays \in [Url -> Seq(Url)]
    /\ Configured \in Seq(Url) /\ Configured # <<>> /\ IsInjective(Configured)
    /\ {MAX_RELAYS, MAX_CANDIDATES, Cap, MaxFiles, MaxDownloads, MaxFaults} \subseteq Nat
    /\ None \notin Reading /\ None \notin Sending

VARIABLES
    relays,     \* per device: Client.relays
    saved,      \* per device, on disk: settings.relays
    forgotten,  \* history: relays a device had adopted and lost by a restart
    address,    \* the relays the sender has for each device
    boxes,      \* per relay: the devices whose mailbox it has
    held,       \* per relay: the chunks it holds
    dropped,    \* history: the chunks some relay removed with their mailbox
    op,         \* where send_file is, or None
    files,      \* files send_file was called for
    manifests,  \* per client: the manifests of the messages in its store
    reading,    \* per client: where download_attachment is, or None
    cache,      \* per client: local_blobs, by created_at
    puts,       \* history, per client: the chunks ever inserted there
    cut,        \* history: the clients that ended between an insertion and its pruning
    got,        \* per client: the ciphertexts a download holds in memory
    opened,     \* history: the downloads that came to their end
    downloads, faults   \* counters of the bounds

relaySet == <<relays, saved, forgotten, address>>
onRelays == <<boxes, held, dropped>>
local == <<cache, puts, cut>>
memory == <<got, opened>>
counters == <<downloads, faults>>
vars == <<relaySet, onRelays, op, files, manifests, reading, local, memory, counters>>

\* The relays of a call that do it: all of them, or fewer at the cost of a fault.
Answering(asked) == {A \in SUBSET asked : A = asked \/ faults < MaxFaults}
Counted(asked, answered) == faults' = IF answered = asked THEN faults ELSE faults + 1

Init ==
    /\ relays = [d \in Device |-> Configured]
    /\ saved = relays
    /\ forgotten = [d \in Device |-> {}]
    /\ address = relays
    /\ boxes = [r \in Url |-> IF r \in Range(Configured) THEN Device ELSE {}]
    /\ held = [r \in Url |-> {}] /\ dropped = {}
    /\ op = None /\ files = 0
    /\ manifests = [c \in Client |-> {}]
    /\ reading = [c \in Client |-> None]
    /\ cache = [c \in Client |-> <<>>] /\ puts = [c \in Client |-> <<>>] /\ cut = {}
    /\ got = [c \in Client |-> <<>>] /\ opened = {}
    /\ downloads = 0 /\ faults = 0

-----------------------------------------------------------------------------
(* Discovery.                                                              *)

\* normalize_relay_urls and _normalize: the first of equal URLs stays.
Normalize(urls) ==
    LET kept[i \in 0 .. Len(urls)] ==
            IF i = 0 THEN <<>>
            ELSE IF urls[i] \in Range(kept[i - 1]) THEN kept[i - 1]
            ELSE Append(kept[i - 1], urls[i])
    IN  kept[Len(urls)]

\* GET /api/relays of each relay: advertise_url, NK_KNOWN_RELAYS and relays.json.
ListRelays == [r \in Url |-> Normalize(KnownRelays[r])]

\* fetch_known_relays: the first of them, or nothing from a relay that fails.
FetchKnownRelays(r, answered) ==
    IF r \notin answered THEN <<>>
    ELSE IF Len(ListRelays[r]) > MAX_CANDIDATES THEN SubSeq(ListRelays[r], 1, MAX_CANDIDATES)
    ELSE ListRelays[r]

IsDiscoverable(u) == u \notin Internal

\* The first loop of discover_relays: new hosts, in the order they are heard of.
Candidates(known, answered) ==
    LET heard == FlattenSeq([i \in DOMAIN known |-> FetchKnownRelays(known[i], answered)])
        IsNew(u, found) == /\ Len(found) < MAX_CANDIDATES /\ IsDiscoverable(u)
                           /\ Host[u] \notin {Host[v] : v \in Range(known) \cup Range(found)}
        found[i \in 0 .. Len(heard)] ==
            IF i = 0 THEN <<>>
            ELSE IF IsNew(heard[i], found[i - 1]) THEN Append(found[i - 1], heard[i])
            ELSE found[i - 1]
    IN  found[Len(heard)]

\* Mutant: the relays found take the place of the ones in use.
Adopted_Replaces(known, candidates, alive) ==
    LET found == SelectSeq(candidates, LAMBDA u : u \in alive)
    IN  IF found = <<>> THEN known ELSE found

\* The second loop: those that pass the health check, up to the cap.
Adopted(known, candidates, alive) ==
    LET urls[i \in 0 .. Len(candidates)] ==
            IF i = 0 THEN known
            ELSE IF Len(urls[i - 1]) < MAX_RELAYS /\ candidates[i] \in alive
                 THEN Append(urls[i - 1], candidates[i])
            ELSE urls[i - 1]
    IN  urls[Len(candidates)]

\* register_mailbox on a set of relays that answer.
Registered(d, answered) ==
    [r \in Url |-> IF r \in answered THEN boxes[r] \cup {d} ELSE boxes[r]]

\* refresh_relays and _apply_relays: the mailbox is registered on all relays,
\* failing or not.  The published device list is left as it is.  At the cap nothing
\* is adopted.  The worker does one thing at a time.
RefreshRelays(d) ==
    /\ Len(relays[d]) < MAX_RELAYS /\ reading[d] = None
    /\ \E answered \in SUBSET Range(relays[d]) :
       LET candidates == Candidates(relays[d], answered) IN
       \E alive \in SUBSET Range(candidates) :
       LET urls == Adopted(relays[d], candidates, alive) IN
          /\ urls # relays[d]
          /\ relays' = [relays EXCEPT ![d] = urls]
          /\ \E boxed \in Answering(Range(urls)) :
                boxes' = Registered(d, boxed) /\ Counted(Range(urls), boxed)
    /\ UNCHANGED <<saved, forgotten, address, held, dropped, op, files, manifests, reading,
                   local, memory, downloads>>

\* The worker's signal reaches the window, which saves the settings.
SaveSettings(d) ==
    /\ saved[d] # relays[d]
    /\ saved' = [saved EXCEPT ![d] = relays[d]]
    /\ UNCHANGED <<relays, forgotten, address, onRelays, op, files, manifests, reading,
                   local, memory, counters>>

\* send_file looks the devices up: their entries in the device list, which have the
\* relays of the start that published them, or the card of the contact.
LookUp(d) ==
    /\ op = None
    /\ \E urls \in {Configured, saved[d], relays[d]} :
          /\ urls # address[d]
          /\ address' = [address EXCEPT ![d] = urls]
    /\ UNCHANGED <<relays, saved, forgotten, onRelays, op, files, manifests, reading, local,
                   memory, counters>>

-----------------------------------------------------------------------------
(* The cache.                                                              *)
Bytes(chunks) ==
    LET sum[i \in 0 .. Len(chunks)] == IF i = 0 THEN 0 ELSE sum[i - 1] + Pieces[chunks[i].n]
    IN  sum[Len(chunks)]

\* put_local_blob, the INSERT ... ON CONFLICT DO NOTHING.
Insert(c, chunk) ==
    IF chunk \in Range(cache[c]) THEN UNCHANGED <<cache, puts>>
    ELSE /\ cache' = [cache EXCEPT ![c] = Append(@, chunk)]
         /\ puts' = [puts EXCEPT ![c] = Append(@, chunk)]

\* What is left once the oldest i are gone.
Without(chunks, i) == SubSeq(chunks, i + 1, Len(chunks))

\* Mutant: the loop goes on while the cache is as large as its cap.
Pruned_AtCap(chunks) ==
    LET fits == {i \in 0 .. Len(chunks) : Bytes(Without(chunks, i)) < Cap}
    IN  Without(chunks, CHOOSE i \in fits : \A j \in fits : i <= j)

\* prune_local_blobs: the oldest goes until the rest fits.
Pruned(chunks) ==
    LET fits == {i \in 0 .. Len(chunks) : Bytes(Without(chunks, i)) <= Cap}
    IN  Without(chunks, CHOOSE i \in fits : \A j \in fits : i <= j)

Prune(c) ==
    /\ cache' = [cache EXCEPT ![c] = Pruned(@)]
    /\ cut' = cut \ {c}
    /\ UNCHANGED puts

-----------------------------------------------------------------------------
(* send_file.                                                              *)

\* A message's manifest names the chunks of a file in one device's mailbox.
ChunksOf(manifest) ==
    [n \in DOMAIN Pieces |-> [file |-> manifest.file, to |-> manifest.to, n |-> n]]

SendFile ==
    /\ op = None /\ files < MaxFiles /\ reading[Sender] = None
    /\ files' = files + 1
    /\ op' = [step |-> "upload", file |-> files + 1, dev |-> 1, at |-> 1]
    /\ UNCHANGED <<relaySet, onRelays, manifests, reading, local, memory, counters>>

\* The next chunk for the same device, the first one for the next device, or the end
\* of both loops.
Uploaded(o) ==
    IF o.at < Len(Pieces) THEN [o EXCEPT !.at = @ + 1]
    ELSE IF o.dev < Len(Devices) THEN [o EXCEPT !.dev = @ + 1, !.at = 1]
    ELSE [o EXCEPT !.step = "keep", !.dev = 1, !.at = 1]

\* put_blob: the relays with the mailbox that are reached store the chunk, and those
\* whose answer comes back count; without any it raises and send_file ends.
UploadChunk ==
    /\ op # None /\ op.step = "upload"
    /\ LET d == Devices[op.dev]
           chunk == [file |-> op.file, to |-> d, n |-> op.at]
           open == {r \in Range(address[d]) : d \in boxes[r]}
       IN  \E stored \in Answering(open) : \E answered \in {stored, {}} :
              /\ Counted(open, answered)
              /\ stored # answered => faults < MaxFaults
              /\ held' = [r \in Url |-> IF r \in stored THEN held[r] \cup {chunk} ELSE held[r]]
              /\ op' = IF answered = {} THEN None ELSE Uploaded(op)
    /\ UNCHANGED <<relaySet, boxes, dropped, files, manifests, reading, local, memory,
                   downloads>>

\* The sender's own copy, of the chunks as they were sent to the first device.
KeepChunk ==
    /\ op # None /\ op.step = "keep"
    /\ Insert(Sender, ChunksOf([file |-> op.file, to |-> Devices[1]])[op.at])
    /\ op' = [op EXCEPT !.step = "prune"]
    /\ UNCHANGED <<relaySet, onRelays, files, manifests, reading, cut, memory, counters>>

PruneKept ==
    /\ op # None /\ op.step = "prune"
    /\ Prune(Sender)
    /\ op' = IF op.at < Len(Pieces) THEN [op EXCEPT !.step = "keep", !.at = @ + 1]
             ELSE [op EXCEPT !.step = "send", !.at = 1]
    /\ UNCHANGED <<relaySet, onRelays, files, manifests, reading, memory, counters>>

\* Mutant: every device is sent the manifest of the first one.
Manifest_Shared(f, d) == [file |-> f, to |-> Devices[1]]

\* bodies[device.device_id]
Manifest(f, d) == [file |-> f, to |-> d]

\* _fan_out: the copy for the next device; the message is recorded after the last.
FanOut ==
    /\ op # None /\ op.step = "send"
    /\ LET d == Devices[op.dev] IN
       /\ manifests' = [manifests EXCEPT ![d] = @ \cup {Manifest(op.file, d)}]
       /\ op' = IF op.dev < Len(Devices) THEN [op EXCEPT !.dev = @ + 1]
                ELSE [op EXCEPT !.step = "record"]
    /\ UNCHANGED <<relaySet, onRelays, files, reading, local, memory, counters>>

AddMessage ==
    /\ op # None /\ op.step = "record"
    /\ manifests' = [manifests EXCEPT ![Sender] = @ \cup {Manifest(op.file, Devices[1])}]
    /\ op' = None
    /\ UNCHANGED <<relaySet, onRelays, files, reading, local, memory, counters>>

\* A put that no relay accepts, or the end of the program.
SendEnds ==
    /\ op # None /\ faults < MaxFaults
    /\ faults' = faults + 1
    /\ op' = None
    /\ cut' = IF op.step = "prune" THEN cut \cup {Sender} ELSE cut
    /\ UNCHANGED <<relaySet, onRelays, files, manifests, reading, cache, puts, memory,
                   downloads>>

-----------------------------------------------------------------------------
(* download_attachment.                                                    *)
Download(c) ==
    /\ reading[c] = None /\ (c = Sender => op = None) /\ downloads < MaxDownloads
    /\ downloads' = downloads + 1
    /\ \E m \in manifests[c] :
          reading' = [reading EXCEPT ![c] = [step |-> "get", manifest |-> m, at |-> 1]]
    /\ UNCHANGED <<relaySet, onRelays, op, files, manifests, local, memory, faults>>

Advanced(r) ==
    IF r.at < Len(Pieces) THEN [r EXCEPT !.step = "get", !.at = @ + 1] ELSE None

\* The sender's own mailbox is on none of these relays: its chunks are the contact's.
Found(c, chunk) ==
    IF c = chunk.to THEN {r \in Range(relays[c]) : chunk \in held[r]} ELSE {}

\* Mutant: what was fetched before is taken from the cache again, after its pruning.
Collected_Again(c, chunk) ==
    Append(SelectSeq(got[c], LAMBDA x : x \in Range(Pruned(cache[c]))), chunk)

\* ciphertexts.append(cached)
Collected(c, chunk) == Append(got[c], chunk)

\* decrypt_attachment: as many ciphertexts as nonces, each the one its nonce and the key
\* of the manifest belong to; else it raises.
DecryptAttachment(manifest, ciphertexts) == ciphertexts = ChunksOf(manifest)

\* The chunk is in memory; after the last one the file is put together.
Collect(c) ==
    LET r == reading[c]
        ciphertexts == Collected(c, ChunksOf(r.manifest)[r.at]) IN
    /\ reading' = [reading EXCEPT ![c] = Advanced(@)]
    /\ IF r.at < Len(Pieces)
       THEN got' = [got EXCEPT ![c] = ciphertexts] /\ UNCHANGED opened
       ELSE /\ got' = [got EXCEPT ![c] = <<>>]
            /\ opened' = opened \cup {[by |-> c, manifest |-> r.manifest,
                                      ok |-> DecryptAttachment(r.manifest, ciphertexts)]}

\* One chunk: from the cache, else from the first relay that gives it; without one the
\* download ends, and the chunks it has fetched stay in the cache.
GetChunk(c) ==
    /\ reading[c] # None /\ reading[c].step = "get"
    /\ LET chunk == ChunksOf(reading[c].manifest)[reading[c].at] IN
       \/ /\ chunk \in Range(cache[c])
          /\ Collect(c)
          /\ UNCHANGED <<cache, puts, faults>>
       \/ /\ chunk \notin Range(cache[c])
          /\ \E answered \in Answering(Found(c, chunk)) :
                /\ Counted(Found(c, chunk), answered)
                /\ IF answered = {}
                   THEN /\ reading' = [reading EXCEPT ![c] = None]
                        /\ got' = [got EXCEPT ![c] = <<>>]
                        /\ UNCHANGED <<cache, puts>>
                   ELSE /\ Insert(c, chunk)
                        /\ reading' = [reading EXCEPT ![c].step = "prune"]
                        /\ UNCHANGED got
          /\ UNCHANGED opened
    /\ UNCHANGED <<relaySet, onRelays, op, files, manifests, cut, downloads>>

PruneFetched(c) ==
    /\ reading[c] # None /\ reading[c].step = "prune"
    /\ Prune(c)
    /\ Collect(c)
    /\ UNCHANGED <<relaySet, onRelays, op, files, manifests, counters>>

-----------------------------------------------------------------------------
(* Outside the clients.                                                    *)

\* A device's program ends and starts again with the relays of its settings;
\* provision registers the mailbox there.
Restart(d) ==
    /\ faults < MaxFaults
    /\ faults' = faults + 1
    /\ relays' = [relays EXCEPT ![d] = saved[d]]
    /\ forgotten' = [forgotten EXCEPT ![d] = @ \cup (Range(relays[d]) \ Range(saved[d]))]
    /\ \E boxed \in SUBSET Range(saved[d]) : boxes' = Registered(d, boxed)
    /\ cut' = IF reading[d] # None /\ reading[d].step = "prune" THEN cut \cup {d} ELSE cut
    /\ reading' = [reading EXCEPT ![d] = None]
    /\ got' = [got EXCEPT ![d] = <<>>]
    /\ UNCHANGED <<saved, address, held, dropped, op, files, manifests, cache, puts, opened,
                   downloads>>

\* Housekeeping of a relay removes a mailbox, with its chunks.
DropMailbox(r, d) ==
    /\ faults < MaxFaults /\ d \in boxes[r]
    /\ faults' = faults + 1
    /\ boxes' = [boxes EXCEPT ![r] = @ \ {d}]
    /\ dropped' = dropped \cup {c \in held[r] : c.to = d}
    /\ held' = [held EXCEPT ![r] = {c \in @ : c.to # d}]
    /\ UNCHANGED <<relaySet, op, files, manifests, reading, local, memory, downloads>>

-----------------------------------------------------------------------------
Send == SendFile \/ UploadChunk \/ KeepChunk \/ PruneKept \/ FanOut \/ AddMessage \/ SendEnds

Next ==
    \/ Send
    \/ \E c \in Client : Download(c) \/ GetChunk(c) \/ PruneFetched(c)
    \/ \E d \in Device : RefreshRelays(d) \/ SaveSettings(d) \/ LookUp(d) \/ Restart(d)
    \/ \E r \in Url, d \in Device : DropMailbox(r, d)

Spec == Init /\ [][Next]_vars

-----------------------------------------------------------------------------
(* Properties.                                                             *)

\* Every variable has its type; for relays, which discovery extends, that is: the
\* configured ones first, no URL twice, no more than MAX_RELAYS by discovery
\* ("never exceeds max_relays, and keeps the caller's ordering").
TypeOK ==
    /\ {relays, saved, address} \subseteq [Device -> Seq(Url)]
    /\ \A d \in Device :
          /\ IsInjective(relays[d])
          /\ IsPrefix(Configured, saved[d]) /\ IsPrefix(saved[d], relays[d])
          /\ Len(relays[d]) <= IF Len(Configured) > MAX_RELAYS THEN Len(Configured) ELSE MAX_RELAYS
    /\ forgotten \in [Device -> SUBSET Url]
    /\ boxes \in [Url -> SUBSET Device]
    /\ held \in [Url -> SUBSET Chunk] /\ dropped \subseteq Chunk
    /\ op \in Sending \cup {None} /\ (op # None => op.file <= files)
    /\ files \in 0 .. MaxFiles
    /\ manifests \in [Client -> SUBSET [file : File, to : Device]]
    /\ reading \in [Client -> Reading \cup {None}]
    /\ \A c \in Client : reading[c] # None => reading[c].manifest \in manifests[c]
    /\ {cache, puts} \subseteq [Client -> Seq(Chunk)]
    /\ cut \subseteq Client
    /\ got \in [Client -> Seq(Chunk)]
    /\ opened \subseteq [by : Client, manifest : [file : File, to : Device], ok : BOOLEAN]
    /\ downloads \in 0 .. MaxDownloads /\ faults \in 0 .. MaxFaults

\* A device that has the message of a file can get every chunk of it: from its cache
\* or from a relay it uses, unless a relay removed the chunk with its mailbox or the
\* device ended before an adopted relay that holds it was saved.  Uploads that fail
\* on some relays, discovery on both sides and evictions do not change that.
FileReachable ==
    \A d \in Device : \A m \in manifests[d] : \A n \in DOMAIN Pieces :
        LET chunk == ChunksOf(m)[n] IN
        \/ chunk \in Range(cache[d])
        \/ chunk \in dropped
        \/ chunk.to = d /\ \E r \in Range(relays[d]) \cup forgotten[d] : chunk \in held[r]

\* The cache is what is newest of all that was ever put into it, and nothing is evicted
\* that would have fitted: also after interrupted downloads, chunks that were evicted
\* and fetched again, and a client that ended between put and prune_local_blobs.
CacheIsNewest ==
    \A c \in Client :
        LET last == Len(puts[c])
            first == last - Len(cache[c]) + 1
            pruning == \/ reading[c] # None /\ reading[c].step = "prune"
                       \/ c = Sender /\ op # None /\ op.step = "prune"
        IN  /\ cache[c] = SubSeq(puts[c], first, last)
            /\ first > 1 => Bytes(SubSeq(puts[c], first - 1, last)) > Cap
            /\ Bytes(cache[c]) <= Cap \/ pruning \/ c \in cut

\* A download that got a chunk for every place of the manifest returns the file, though
\* keeping one chunk may evict another of the same file, evicted chunks are fetched
\* anew, downloads are cut short and relays are adopted meanwhile.
FilesOpen == \A o \in opened : o.ok

=============================================================================
