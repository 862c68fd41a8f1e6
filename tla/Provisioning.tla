---------------------------- MODULE Provisioning ----------------------------
(***************************************************************************)
(* How an installation of the account becomes a device that contacts can   *)
(* write to: Client.provision and what it calls, over the relays' prekey   *)
(* records.                                                                *)
(*                                                                         *)
(* provision draws a mailbox and prekeys, publishes the bundle and stores  *)
(* what it drew, one write after the other; then it adds the device to the *)
(* account's signed list: read the list from the first relay that answers, *)
(* publish it with this device added, relay by relay.  Nothing is locked:  *)
(* two devices may do this at once, the process may end between any two    *)
(* writes, and any call to a relay may fail.  The worker retries until the *)
(* card exists (every sync calls _ensure_provisioned).                     *)
(*                                                                         *)
(* The threads of one device share one Client: what mem holds is seen by   *)
(* all of them, and the GUI calls provision too (card_string, and          *)
(* history_requests after every finished task).  Two threads that meet in  *)
(* the first provision each draw, and the last write of either wins; raced *)
(* keeps the devices where that happened.                                  *)
(*                                                                         *)
(* One number stands for everything a provision draws at random at once:   *)
(* mailbox n, bundle n, prekeys n.  The signatures and seals of the        *)
(* records always verify here: every record is written by the account.     *)
(***************************************************************************)
EXTENDS Naturals, Sequences, FiniteSets, SequencesExt

CONSTANTS
    Device,     \* the installations of one account
    Urls,       \* the configured relays, in order
    Thread,     \* the threads of a device that call provision
    Worker,     \* the thread that runs the queued provision and retries
    MaxDraws,   \* bound: random draws
    MaxFaults   \* bound: calls that some relay does not answer, and ends of a process

ASSUME ProvisioningAssumption ==
    /\ Worker \in Thread
    /\ Urls \in Seq(Range(Urls)) /\ Urls # <<>>
    /\ MaxDraws \in Nat /\ MaxFaults \in Nat

VARIABLES
    store,      \* each device's local store
    mem,        \* each device's Client object
    at,         \* where each thread is in provision, with its locals
    relay,      \* what each relay holds
    draws,      \* random draws so far
    faults,     \* calls that some relay did not answer, and ends of a process
    raced       \* history: devices whose threads met in the first provision

vars == <<store, mem, at, relay, draws, faults, raced>>

Relay == Range(Urls)
Draw == 1 .. MaxDraws
Missing == 0

\* A DeviceEntry; its name and its relays play no part.
Entry == [id : Draw, inbox : Draw, bundle : Draw]

\* The signed list of the account and the record of a device's sync keys.
DeviceList == SUBSET Entry
DeviceKeys == [id : Draw, keys : Draw]

\* A bundle record: the signed prekey comes from the last publication, the
\* one-time prekeys from the first (INSERT OR IGNORE by number).
Bundle == [spk : Draw, opks : Draw]
NoBundle == [spk |-> Missing, opks |-> Missing]

EmptyStore ==
    [inbox |-> Missing, bundle |-> Missing, prekeys |-> Missing,
     id |-> Missing, keys |-> Missing]

NewClient ==
    [task |-> TRUE, inbox |-> Missing, bundle |-> Missing, card |-> FALSE,
     id |-> Missing, cache |-> {}]

Idle ==
    [pc |-> "idle", first |-> FALSE, prekeys |-> Missing, bundle |-> Missing,
     todo |-> <<>>, ok |-> FALSE, id |-> Missing, list |-> {}]

NewRelay ==
    [boxes |-> {}, bundles |-> [n \in Draw |-> NoBundle], list |-> {}, keys |-> {}]

Init ==
    /\ store = [d \in Device |-> EmptyStore]
    /\ mem = [d \in Device |-> NewClient]
    /\ at = [d \in Device |-> [t \in Thread |-> Idle]]
    /\ relay = [r \in Relay |-> NewRelay]
    /\ draws = 0
    /\ faults = 0
    /\ raced = {}

-----------------------------------------------------------------------------
(* The relays that answer a call: all of them, or fewer at the cost of a   *)
(* fault.                                                                  *)
Answer(S) ==
    /\ S \subseteq Relay
    /\ S # Relay => faults < MaxFaults
    /\ faults' = IF S = Relay THEN faults ELSE faults + 1

Goto(d, t, loc) == at' = [at EXCEPT ![d][t] = loc]

Here(d, t, pc) == at[d][t].pc = pc

\* This device as it is advertised to senders.
DeviceEntry(d) == [id |-> mem[d].id, inbox |-> mem[d].inbox, bundle |-> mem[d].bundle]

\* register_mailbox: the capability on every relay that answers.
WithMailbox(n, S) ==
    [r \in Relay |->
        IF r \in S THEN [relay[r] EXCEPT !.boxes = @ \cup {n}] ELSE relay[r]]

\* db.publish_bundle on one relay.
WithBundle(r, n, prekeys) ==
    LET old == relay[r].bundles[n] IN
    [relay EXCEPT ![r].bundles[n] =
        [spk |-> prekeys, opks |-> IF old = NoBundle THEN prekeys ELSE old.opks]]

-----------------------------------------------------------------------------
\* The first provision is over: what later ones go by is in the store.
Complete(d) == store[d].inbox # Missing /\ store[d].bundle # Missing /\ store[d].id # Missing

\* A thread enters provision while another one of its device is in the first.
Meet(d, t) ==
    raced' = IF Complete(d) \/ \A u \in Thread \ {t} : Here(d, u, "idle")
             THEN raced ELSE raced \cup {d}

\* Mutant: only the queued command provisions, nothing retries.
Call_NoRetry(d, t) ==
    /\ Here(d, t, "idle")
    /\ t = Worker /\ mem[d].task
    /\ LET known == store[d].inbox # Missing IN
       /\ Goto(d, t, [Idle EXCEPT !.pc = IF known THEN "register" ELSE "create",
                                  !.first = ~known])
       /\ mem' = [mem EXCEPT ![d].task = FALSE,
                             ![d].inbox = IF known THEN store[d].inbox ELSE @,
                             ![d].bundle = IF known THEN store[d].bundle ELSE @]
    /\ Meet(d, t)
    /\ UNCHANGED <<store, relay, draws, faults>>

(* provision is entered by the queued command, once, and by whoever needs  *)
(* the card while there is none.  An installation that stored a mailbox    *)
(* takes over what the store holds; a bundle id that was never written is  *)
(* read as none.                                                           *)
Call(d, t) ==
    /\ Here(d, t, "idle")
    /\ ~mem[d].card \/ (t = Worker /\ mem[d].task)
    /\ LET known == store[d].inbox # Missing IN
       /\ Goto(d, t, [Idle EXCEPT !.pc = IF known THEN "register" ELSE "create",
                                  !.first = ~known])
       /\ mem' = [mem EXCEPT ![d].task = @ /\ t # Worker,
                             ![d].inbox = IF known THEN store[d].inbox ELSE @,
                             ![d].bundle = IF known THEN store[d].bundle ELSE @]
    /\ Meet(d, t)
    /\ UNCHANGED <<store, relay, draws, faults>>

\* The stored mailbox on the current relays and the stored prekeys under the
\* bundle id; whatever fails here is swallowed.
Register(d, t) ==
    /\ Here(d, t, "register")
    /\ \E S \in SUBSET Relay :
          /\ Answer(S)
          /\ relay' = WithMailbox(mem[d].inbox, S)
    /\ Goto(d, t,
            IF store[d].prekeys # Missing /\ mem[d].bundle # Missing
            THEN [at[d][t] EXCEPT !.pc = "publish", !.prekeys = store[d].prekeys,
                                  !.bundle = mem[d].bundle, !.todo = Urls]
            ELSE [at[d][t] EXCEPT !.pc = "card"])
    /\ UNCHANGED <<store, mem, draws, raced>>

\* A new mailbox on the relays that answer; when none does, provision raises.
Create(d, t) ==
    /\ Here(d, t, "create")
    /\ draws < MaxDraws
    /\ draws' = draws + 1
    /\ \E S \in SUBSET Relay :
          /\ Answer(S)
          /\ relay' = WithMailbox(draws', S)
          /\ IF S = {} THEN Goto(d, t, Idle) /\ UNCHANGED mem
             ELSE /\ Goto(d, t, [at[d][t] EXCEPT !.pc = "name", !.prekeys = draws'])
                  /\ mem' = [mem EXCEPT ![d].inbox = draws']
    /\ UNCHANGED <<store, raced>>

\* A new bundle id, and the prekeys to go with it.
NewBundle(d, t) ==
    /\ Here(d, t, "name")
    /\ mem' = [mem EXCEPT ![d].bundle = at[d][t].prekeys]
    /\ Goto(d, t, [at[d][t] EXCEPT !.pc = "save"])
    /\ UNCHANGED <<store, relay, draws, faults, raced>>

\* Mutant: prekeys already in the store are kept.
SavePrekeys_Once(d, t) ==
    /\ Here(d, t, "save")
    /\ store' = [store EXCEPT ![d].prekeys = IF @ = Missing THEN at[d][t].prekeys ELSE @]
    /\ Goto(d, t, IF mem[d].bundle = Missing THEN Idle
                  ELSE [at[d][t] EXCEPT !.pc = "publish", !.bundle = mem[d].bundle,
                                        !.todo = Urls])
    /\ UNCHANGED <<mem, relay, draws, faults, raced>>

\* save_prekeys; _publish_bundle asserts that there is a bundle id.
SavePrekeys(d, t) ==
    /\ Here(d, t, "save")
    /\ store' = [store EXCEPT ![d].prekeys = at[d][t].prekeys]
    /\ Goto(d, t, IF mem[d].bundle = Missing THEN Idle
                  ELSE [at[d][t] EXCEPT !.pc = "publish", !.bundle = mem[d].bundle,
                                        !.todo = Urls])
    /\ UNCHANGED <<mem, relay, draws, faults, raced>>

\* The bundle on the next relay.  A first bundle that no relay takes raises.
PublishBundle(d, t) ==
    LET loc == at[d][t]
        r == Head(loc.todo)
        rest == Tail(loc.todo) IN
    /\ Here(d, t, "publish")
    /\ \E S \in {Relay, Relay \ {r}} :
          /\ Answer(S)
          /\ LET ok == loc.ok \/ r \in S IN
             /\ relay' = IF r \in S THEN WithBundle(r, loc.bundle, loc.prekeys) ELSE relay
             /\ Goto(d, t,
                     IF rest # <<>> THEN [loc EXCEPT !.todo = rest, !.ok = ok]
                     ELSE IF ~loc.first THEN [Idle EXCEPT !.pc = "card"]
                     ELSE IF ok THEN [Idle EXCEPT !.pc = "inbox"] ELSE Idle)
    /\ UNCHANGED <<store, mem, draws, raced>>

\* The two writes that make the draw permanent.
SetInbox(d, t) ==
    /\ Here(d, t, "inbox")
    /\ store' = [store EXCEPT ![d].inbox = mem[d].inbox]
    /\ Goto(d, t, [at[d][t] EXCEPT !.pc = "bundle"])
    /\ UNCHANGED <<mem, relay, draws, faults, raced>>

SetBundle(d, t) ==
    /\ Here(d, t, "bundle")
    /\ store' = [store EXCEPT ![d].bundle = mem[d].bundle]
    /\ Goto(d, t, [at[d][t] EXCEPT !.pc = "card"])
    /\ UNCHANGED <<mem, relay, draws, faults, raced>>

\* The assertion of provision, then the card.
Card(d, t) ==
    /\ Here(d, t, "card")
    /\ IF mem[d].inbox # Missing /\ mem[d].bundle # Missing
       THEN /\ mem' = [mem EXCEPT ![d].card = TRUE]
            /\ Goto(d, t, [at[d][t] EXCEPT !.pc = "id"])
       ELSE Goto(d, t, Idle) /\ UNCHANGED mem
    /\ UNCHANGED <<store, relay, draws, faults, raced>>

-----------------------------------------------------------------------------
(* _ensure_device_registered.                                              *)

\* The second assertion, and the entry that is advertised from here on.
Advertise(d, t) ==
    Goto(d, t, IF mem[d].bundle = Missing THEN Idle
               ELSE [at[d][t] EXCEPT !.pc = "read", !.list = {DeviceEntry(d)}])

\* The id of the running client stays; else the stored one is taken, or a new one.
DeviceId(d, t) ==
    /\ Here(d, t, "id")
    /\ IF mem[d].id # Missing
       THEN Advertise(d, t) /\ UNCHANGED draws
       ELSE LET new == store[d].id = Missing IN
            /\ new => draws < MaxDraws
            /\ draws' = IF new THEN draws + 1 ELSE draws
            /\ Goto(d, t, [at[d][t] EXCEPT !.pc = "own",
                                           !.id = IF new THEN draws + 1 ELSE store[d].id])
    /\ UNCHANGED <<store, mem, relay, faults, raced>>

\* Mutant: the attribute keeps the id it had.
SetDeviceId_NotKept(d, t) ==
    /\ Here(d, t, "own")
    /\ mem' = mem
    /\ Goto(d, t, [at[d][t] EXCEPT !.pc = "keep"])
    /\ UNCHANGED <<store, relay, draws, faults, raced>>

SetDeviceId(d, t) ==
    /\ Here(d, t, "own")
    /\ mem' = [mem EXCEPT ![d].id = at[d][t].id]
    /\ Goto(d, t, [at[d][t] EXCEPT !.pc = "keep"])
    /\ UNCHANGED <<store, relay, draws, faults, raced>>

\* Mutant: the device id is not written to the store.
KeepDeviceId_NotStored(d, t) ==
    /\ Here(d, t, "keep")
    /\ store' = store
    /\ Advertise(d, t)
    /\ UNCHANGED <<mem, relay, draws, faults, raced>>

\* set_state of the id the client has by now.
KeepDeviceId(d, t) ==
    /\ Here(d, t, "keep")
    /\ store' = [store EXCEPT ![d].id = mem[d].id]
    /\ Advertise(d, t)
    /\ UNCHANGED <<mem, relay, draws, faults, raced>>

\* fetch_bundle asks the relays in order and returns the first record; a list
\* that no relay returns counts as empty.
FirstList(S) ==
    LET having == {i \in DOMAIN Urls : Urls[i] \in S /\ relay[Urls[i]].list # {}} IN
    IF having = {} THEN {}
    ELSE relay[Urls[CHOOSE i \in having : \A j \in having : i <= j]].list

WithDevice(list, entry) == {e \in list : e.id # entry.id} \cup {entry}

\* The list is only published when it does not already say the same of us.
ReadList(d, t) ==
    /\ Here(d, t, "read")
    /\ \E S \in SUBSET Relay, entry \in at[d][t].list :
          /\ Answer(S)
          /\ Goto(d, t,
                  IF entry \in FirstList(S) THEN Idle
                  ELSE [Idle EXCEPT !.pc = "list", !.todo = Urls,
                                    !.list = WithDevice(FirstList(S), entry)])
    /\ UNCHANGED <<store, mem, relay, draws, raced>>

\* The list on the next relay, replacing what it held; failures are swallowed.
PublishList(d, t) ==
    LET loc == at[d][t]
        r == Head(loc.todo) IN
    /\ Here(d, t, "list")
    /\ \E S \in {Relay, Relay \ {r}} :
          /\ Answer(S)
          /\ relay' = IF r \in S THEN [relay EXCEPT ![r].list = loc.list] ELSE relay
    /\ IF Len(loc.todo) = 1
       THEN /\ mem' = [mem EXCEPT ![d].cache = loc.list]
            /\ Goto(d, t, [Idle EXCEPT !.pc = "keys"])
       ELSE /\ Goto(d, t, [loc EXCEPT !.todo = Tail(@)])
            /\ UNCHANGED mem
    /\ UNCHANGED <<store, draws, raced>>

\* publish_device_keys, with keys generated on first use; failures are swallowed.
\* One step: nothing here depends on the sync keys.
PublishKeys(d, t) ==
    /\ Here(d, t, "keys")
    /\ LET new == store[d].keys = Missing
           keys == IF new THEN draws + 1 ELSE store[d].keys IN
       /\ new => draws < MaxDraws
       /\ draws' = IF new THEN draws + 1 ELSE draws
       /\ store' = [store EXCEPT ![d].keys = keys]
       /\ \E S \in SUBSET Relay :
             /\ Answer(S)
             /\ relay' = [r \in Relay |->
                            IF r \notin S THEN relay[r]
                            ELSE [relay[r] EXCEPT !.keys =
                                    {k \in @ : k.id # mem[d].id}
                                        \cup {[id |-> mem[d].id, keys |-> keys]}]]
    /\ Goto(d, t, Idle)
    /\ UNCHANGED <<mem, raced>>

\* The process ends and starts again.
Crash(d) ==
    /\ faults < MaxFaults
    /\ faults' = faults + 1
    /\ mem' = [mem EXCEPT ![d] = NewClient]
    /\ at' = [at EXCEPT ![d] = [t \in Thread |-> Idle]]
    /\ UNCHANGED <<store, relay, draws, raced>>

Provision(d, t) ==
    \/ Call(d, t) \/ Register(d, t) \/ Create(d, t) \/ NewBundle(d, t)
    \/ SavePrekeys(d, t) \/ PublishBundle(d, t) \/ SetInbox(d, t) \/ SetBundle(d, t)
    \/ Card(d, t) \/ DeviceId(d, t) \/ SetDeviceId(d, t) \/ KeepDeviceId(d, t)
    \/ ReadList(d, t) \/ PublishList(d, t) \/ PublishKeys(d, t)

Next == \E d \in Device : Crash(d) \/ \E t \in Thread : Provision(d, t)

Spec == Init /\ [][Next]_vars

\* The worker never stops trying: every sync begins with _ensure_provisioned.
FairSpec == Spec /\ \A d \in Device : WF_vars(Provision(d, Worker))

-----------------------------------------------------------------------------
(* Properties.                                                             *)

\* The store, the client, the threads and the relays hold what provision draws.
TypeOK ==
    /\ store \in [Device -> [inbox : Draw \cup {Missing}, bundle : Draw \cup {Missing},
                             prekeys : Draw \cup {Missing}, id : Draw \cup {Missing},
                             keys : Draw \cup {Missing}]]
    /\ mem \in [Device -> [task : BOOLEAN, inbox : Draw \cup {Missing},
                           bundle : Draw \cup {Missing}, card : BOOLEAN,
                           id : Draw \cup {Missing}, cache : DeviceList]]
    /\ at \in [Device -> [Thread ->
                [pc : {"idle", "register", "create", "name", "save", "publish", "inbox", "bundle",
                       "card", "id", "own", "keep", "read", "list", "keys"},
                 first : BOOLEAN, prekeys : Draw \cup {Missing},
                 bundle : Draw \cup {Missing}, todo : Seq(Relay), ok : BOOLEAN,
                 id : Draw \cup {Missing}, list : DeviceList]]]
    /\ relay \in [Relay -> [boxes : SUBSET Draw, bundles : [Draw -> Bundle \cup {NoBundle}],
                            list : DeviceList, keys : SUBSET DeviceKeys]]
    /\ draws \in 0 .. MaxDraws /\ faults \in 0 .. MaxFaults
    /\ raced \subseteq Device

\* Inbox stored, bundle id not: a process ended between the two writes, or another
\* thread entered there, read the missing bundle id into the client and had it
\* stored.  The assertion of provision then fails on every later start.
Torn(d) == store[d].inbox # Missing /\ store[d].bundle = Missing

\* Nothing locks provision.  Unless two threads of the device met in its first
\* one, a contact that fetches the bundle the device is advertised with finds it
\* on some relay, and wherever it finds it the signed and the one-time prekeys are
\* the ones whose private halves the device's store holds: whatever failed or
\* ended in between, and however many threads provision at once later on, a
\* handshake can be answered.
PublishedUsable ==
    \A d \in Device \ raced : store[d].bundle # Missing =>
        LET found == {relay[r].bundles[store[d].bundle] : r \in Relay} \ {NoBundle} IN
        found = {[spk |-> store[d].prekeys, opks |-> store[d].prekeys]}

\* As long as no two threads of a device met in its first provision, every device
\* any relay's list names is one whose store holds that mailbox and that bundle,
\* so it still reads there after a restart, and its mailbox was registered
\* somewhere: no list sends copies where nobody will look.
ListedReachable ==
    raced = {} => \A r \in Relay : \A e \in relay[r].list :
        /\ \E d \in Device : /\ store[d].id = e.id
                             /\ store[d].inbox = e.inbox
                             /\ store[d].bundle = e.bundle
        /\ \E q \in Relay : e.inbox \in relay[q].boxes

\* Every device ends up with a card for good, however often its relays failed or
\* its process ended and however its threads interleave, unless a process ended
\* or another thread entered between the two writes of provision.
EventuallyProvisioned ==
    \A d \in Device : <>[](Torn(d) \/ mem[d].card)

=============================================================================
