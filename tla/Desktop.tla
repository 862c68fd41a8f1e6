------------------------------ MODULE Desktop -------------------------------
(***************************************************************************)
(* The desktop client around the Client: the screens an account passes     *)
(* through, the worker thread with its queue of commands, the settings     *)
(* file and the key of the local store (gui/app.py, gui/worker.py,         *)
(* gui/session.py, gui/settings.py, core/store.py resolve_store_key,       *)
(* Identity.save and load).                                                *)
(*                                                                         *)
(* Two kinds of thread share the App: the GUI thread handles one event at  *)
(* a time and stops for up to three seconds when it ends a worker; workers *)
(* that did not end in time go on beside their successor.  Every client    *)
(* belongs to one worker, so the client is the number of its worker.       *)
(*                                                                         *)
(* What the client does inside sync and the commands is modelled by the    *)
(* other modules; here a command is only queued, run or dropped.  A list   *)
(* of relays is the set of its members.  The worker's signals that only    *)
(* redraw the window are left out.                                         *)
(***************************************************************************)
EXTENDS Naturals, Sequences, FiniteSets, SequencesExt

CONSTANTS
    Identity,       \* accounts
    Encrypted,      \* those the user protects with a passphrase
    Url,            \* relays
    DefaultRelays,  \* default_relays()
    UserRelays,     \* the lists of relays the user may enter
    LocalRelay,     \* what an empty list is replaced by
    None,
    Torn,           \* an identity file whose writing was cut short
    MaxWorkers,     \* bound: workers started, or not for want of a client
    MaxCommands,    \* bound: commands a user gives
    MaxSettings,    \* bound: times the settings are saved
    MaxDiscoveries, \* bound: discoveries that add a relay
    MaxModes,       \* bound: times the keyring comes or goes between two starts
    MaxEnds         \* bound: times the program ends

ASSUME DesktopAssumption ==
    /\ None \notin Identity /\ Torn \notin Identity /\ None \notin Nat
    /\ Encrypted \subseteq Identity
    /\ DefaultRelays \subseteq Url /\ DefaultRelays # {}
    /\ UserRelays \subseteq SUBSET Url /\ LocalRelay \in Url
    /\ {MaxWorkers, MaxCommands, MaxSettings, MaxDiscoveries, MaxModes, MaxEnds} \subseteq Nat

VARIABLES
    screen,     \* what the stack shows; "off" while the program does not run
    gui,        \* what the GUI thread is in the middle of
    pending,    \* _pending_identity
    idfile,     \* on disk: identity.nk
    relays,     \* settings.relays
    saved,      \* on disk: the relays of settings.json
    workers,    \* every worker started since the program did, by number
    current,    \* the number of self.worker, or 0
    signals,    \* relays_changed signals on their way to the GUI thread
    given,      \* commands given so far
    keyring,    \* the OS keyring: the key of each account
    usable,     \* whether the keyring works
    keyfile,    \* on disk: local.key
    keys,       \* keys drawn so far
    sealed,     \* on disk: the keys that rows of each account are sealed with
    failures,   \* workers not started because build_client raised
    changes, discoveries, modes, ends   \* counters of the bounds

disk == <<idfile, saved, keyring, keyfile, sealed>>
counters == <<given, keys, changes, discoveries, modes, ends, failures>>
vars == <<screen, gui, pending, disk, relays, workers, current, signals, usable, counters>>

Number == 1 .. MaxWorkers
Key == 1 .. MaxWorkers + MaxSettings
Provision == 0                      \* the command a new worker starts with
Command == 0 .. MaxCommands

\* A worker and its client: the account, the key of its store, its relays; pc is
\* where run() is.
Worker ==
    [id : Identity, key : Key, relays : SUBSET Url, stop : BOOLEAN, wake : BOOLEAN,
     tasks : Seq(Command),
     pc : {"top", "drain", "sync", "discover", "redrain", "wait", "clear", "ended"}]

Ready == [step |-> "ready"]

Init ==
    /\ screen = "off" /\ gui = Ready /\ pending = None
    /\ idfile = None /\ relays = DefaultRelays /\ saved = None
    /\ workers = <<>> /\ current = 0 /\ signals = <<>>
    /\ keyring = [i \in Identity |-> None] /\ usable \in BOOLEAN /\ keyfile = None
    /\ sealed = [i \in Identity |-> {}]
    /\ given = 0 /\ keys = 0 /\ changes = 0 /\ discoveries = 0 /\ modes = 0 /\ ends = 0
    /\ failures = 0

\* The GUI thread is in the middle of an event.
In(step) == gui.step = step

Alive(w) == w \in DOMAIN workers /\ workers[w].pc # "ended"

-----------------------------------------------------------------------------
(* A client and its worker.                                                *)

\* Mutant: a new key is used but not put into the keyring.
ResolveStoreKey_NotKept(id) ==
    IF keyfile # None
    THEN [key |-> keyfile, ring |-> keyring, file |-> keyfile, drawn |-> 0]
    ELSE IF usable
    THEN [key |-> keys + 1, ring |-> keyring, file |-> None, drawn |-> 1]
    ELSE [key |-> keys + 1, ring |-> keyring, file |-> keys + 1, drawn |-> 1]

\* resolve_store_key: local.key wins, then the keyring, then a new local.key.
ResolveStoreKey(id) ==
    IF keyfile # None
    THEN [key |-> keyfile, ring |-> keyring, file |-> keyfile, drawn |-> 0]
    ELSE IF usable /\ keyring[id] # None
    THEN [key |-> keyring[id], ring |-> keyring, file |-> None, drawn |-> 0]
    ELSE IF usable
    THEN [key |-> keys + 1, ring |-> [keyring EXCEPT ![id] = keys + 1], file |-> None,
          drawn |-> 1]
    ELSE [key |-> keys + 1, ring |-> keyring, file |-> keys + 1, drawn |-> 1]

\* build_client and the Worker around it, which starts with provision queued.
NewWorker(id, urls, key) ==
    [id |-> id, key |-> key, relays |-> urls, stop |-> FALSE, wake |-> TRUE,
     tasks |-> <<Provision>>, pc |-> "top"]

\* A thread that is over, with whatever was still queued for it.
Ended(worker) ==
    [worker EXCEPT !.pc = "ended", !.tasks = <<>>, !.stop = TRUE, !.wake = FALSE,
                   !.relays = {}]

\* The process is over.
EndThreads ==
    /\ workers' = [w \in DOMAIN workers |-> Ended(workers[w])]
    /\ signals' = <<>>

\* The key of the account's store is resolved, and kept where it was drawn for.
TakeKey(id) ==
    LET k == ResolveStoreKey(id) IN
    keyring' = k.ring /\ keyfile' = k.file /\ keys' = keys + k.drawn

\* Another client may be built.
MoreWorkers == Len(workers) + failures < MaxWorkers

\* build_client raises, without the store's key or, later, with it.
BuildFails(id) ==
    /\ failures' = failures + 1
    /\ TakeKey(id) \/ UNCHANGED <<keyring, keyfile, keys>>

\* The end of _start_client for an account, while the App has no worker; without a
\* client the account stays on disk and the user is back on the welcome screen.
Launch(id, urls) ==
    /\ MoreWorkers
    /\ \/ /\ TakeKey(id)
          /\ workers' = Append(workers, NewWorker(id, urls, ResolveStoreKey(id).key))
          /\ current' = Len(workers) + 1
          /\ screen' = "main"
          /\ UNCHANGED failures
       \/ /\ BuildFails(id)
          /\ screen' = "welcome"
          /\ UNCHANGED <<workers, current>>

-----------------------------------------------------------------------------
(* The GUI thread: start, onboarding, unlocking.                           *)

\* App.__init__ and _bootstrap.
Bootstrap ==
    /\ screen = "off" /\ gui = Ready
    /\ relays' = IF saved = None THEN DefaultRelays ELSE saved
    /\ \/ /\ idfile \in {None, Torn}
          /\ screen' = "welcome"
          /\ UNCHANGED <<disk, keys, workers, current, failures>>
       \/ /\ idfile \in Encrypted
          /\ screen' = "unlock"
          /\ UNCHANGED <<disk, keys, workers, current, failures>>
       \/ /\ idfile \in Identity \ Encrypted
          /\ Launch(idfile, relays')
          /\ saved' = relays'
          /\ UNCHANGED <<idfile, sealed>>
    /\ UNCHANGED <<gui, pending, signals, usable, given, changes,
                   discoveries, modes, ends>>

\* _on_create: a new account, kept in memory until its seed is confirmed.
OnCreate(id) ==
    /\ screen = "welcome" /\ gui = Ready
    /\ sealed[id] = {} /\ keyring[id] = None
    /\ pending' = id
    /\ screen' = "seed"
    /\ UNCHANGED <<gui, disk, relays, workers, current, signals, usable,
                   counters>>

\* Identity.save truncates the file and then writes it.
BeginSave(new) ==
    /\ idfile' = Torn
    /\ gui' = [step |-> "save", new |-> new]
    /\ UNCHANGED <<screen, saved, keyring, keyfile, sealed, relays, workers,
                   current, signals, usable, counters>>

\* _on_seed_confirmed; the pending identity stays.
OnSeedConfirmed ==
    /\ screen = "seed" /\ gui = Ready /\ pending # None
    /\ BeginSave(pending)
    /\ UNCHANGED pending

\* _on_recover: any account whose words the user has.
OnRecover(id) ==
    /\ screen = "welcome" /\ gui = Ready
    /\ BeginSave(id)
    /\ UNCHANGED pending

\* The file is written; _start_client saves the settings and starts the client.
FinishSave ==
    /\ In("save")
    /\ idfile' = gui.new
    /\ gui' = Ready
    /\ saved' = relays
    /\ Launch(gui.new, relays)
    /\ UNCHANGED <<pending, relays, signals, sealed, usable, given, changes,
                   discoveries, modes, ends>>

\* _on_unlock with the right passphrase; a wrong one changes nothing.
OnUnlock ==
    /\ screen = "unlock" /\ gui = Ready /\ idfile \in Identity
    /\ saved' = relays
    /\ Launch(idfile, relays)
    /\ UNCHANGED <<gui, pending, idfile, relays, signals, sealed, usable,
                   given, changes, discoveries, modes, ends>>

-----------------------------------------------------------------------------
(* The GUI thread: ending a worker, which it waits for.                    *)

\* The first half of stop(); the event is set next, and then follows wait(3000).
SetStop ==
    workers' = IF current = 0 THEN workers ELSE [workers EXCEPT ![current].stop = TRUE]

\* The GUI thread is between the two halves of stop() on a worker.
Stopping(w) == gui.step \in {"teardown", "restart"} /\ ~gui.woken /\ w = current

\* The second half of stop().
SetWake ==
    /\ Stopping(current)
    /\ gui' = [gui EXCEPT !.woken = TRUE]
    /\ workers' = [workers EXCEPT ![current].wake = TRUE]
    /\ UNCHANGED <<screen, pending, disk, relays, current, signals, usable, counters>>

\* lock, switch_identity and closeEvent, by the screen they end on.
Teardown(to) ==
    /\ gui = Ready
    /\ \/ to = "unlock" /\ screen = "main"
       \/ to = "welcome" /\ screen \in {"main", "unlock"}
       \/ to = "off" /\ screen # "off" /\ ends < MaxEnds
    /\ SetStop
    /\ gui' = [step |-> "teardown", to |-> to, woken |-> current = 0]
    /\ ends' = IF to = "off" THEN ends + 1 ELSE ends
    /\ UNCHANGED <<screen, pending, disk, relays, current, signals, usable,
                   given, keys, changes, discoveries, modes, failures>>

\* The wait is over: the worker ended, or three seconds have passed.
FinishTeardown ==
    /\ In("teardown") /\ gui.woken
    /\ gui' = Ready
    /\ screen' = gui.to
    /\ current' = 0
    /\ pending' = IF gui.to = "unlock" THEN pending ELSE None
    /\ IF gui.to = "off" THEN EndThreads ELSE UNCHANGED <<workers, signals>>
    /\ UNCHANGED <<disk, relays, usable, counters>>

\* Mutant: an empty list is taken as it is.
Applied_AsEntered(entry) == entry

\* SettingsDialog.apply_to.
Applied(entry) == IF entry = {} THEN {LocalRelay} ELSE entry

\* open_settings: the relays are saved, _restart_worker builds the new client and
\* then ends the old worker, which goes on if there is no new client.
OpenSettings(entry) ==
    LET urls == Applied(entry)
        id == workers[current].id IN
    /\ screen = "main" /\ gui = Ready /\ changes < MaxSettings /\ MoreWorkers
    /\ changes' = changes + 1
    /\ relays' = urls /\ saved' = urls
    /\ \/ /\ TakeKey(id)
          /\ SetStop
          /\ gui' = [step |-> "restart", woken |-> FALSE,
                     new |-> NewWorker(id, urls, ResolveStoreKey(id).key)]
          /\ UNCHANGED failures
       \/ /\ BuildFails(id)
          /\ UNCHANGED <<workers, gui>>
    /\ UNCHANGED <<screen, pending, idfile, sealed, current, signals, usable, given,
                   discoveries, modes, ends>>

FinishRestart ==
    /\ In("restart") /\ gui.woken
    /\ gui' = Ready
    /\ workers' = Append(workers, gui.new)
    /\ current' = Len(workers) + 1
    /\ UNCHANGED <<screen, pending, disk, relays, signals, usable, counters>>

-----------------------------------------------------------------------------
(* The GUI thread: commands and signals.                                   *)

\* Worker.submit puts the command in the queue, and then sets the event.
Submit ==
    /\ screen = "main" /\ gui = Ready /\ given < MaxCommands
    /\ given' = given + 1
    /\ workers' = [workers EXCEPT ![current].tasks = Append(@, given + 1)]
    /\ gui' = [step |-> "wake"]
    /\ UNCHANGED <<screen, pending, disk, relays, current, signals, usable,
                   keys, changes, discoveries, modes, ends, failures>>

FinishSubmit ==
    /\ In("wake")
    /\ gui' = Ready
    /\ workers' = [workers EXCEPT ![current].wake = TRUE]
    /\ UNCHANGED <<screen, pending, disk, relays, current, signals, usable,
                   counters>>

\* _on_relays_changed, whichever worker the signal is from.
OnRelaysChanged ==
    /\ gui = Ready /\ screen # "off" /\ signals # <<>>
    /\ signals' = Tail(signals)
    /\ relays' = Head(signals) /\ saved' = Head(signals)
    /\ UNCHANGED <<screen, gui, pending, idfile, keyring, keyfile, sealed, workers,
                   current, usable, counters>>

-----------------------------------------------------------------------------
(* A worker thread: Worker.run.                                            *)
Goto(w, pc) == workers' = [workers EXCEPT ![w].pc = pc]

\* What a worker step leaves to the GUI thread.
GuiState ==
    <<screen, gui, pending, idfile, saved, keyring, keyfile, relays, current, usable,
      given, keys, changes, modes, ends, failures>>

\* The head of the loop; with stop set the thread ends and leaves its queue.
Top(w) ==
    /\ Alive(w) /\ workers[w].pc = "top"
    /\ IF workers[w].stop THEN workers' = [workers EXCEPT ![w] = Ended(@)]
       ELSE Goto(w, "drain")
    /\ UNCHANGED <<GuiState, signals, sealed, discoveries>>

\* _drain runs what is queued, stop or not; running a command seals rows.
RunTask(w) ==
    /\ Alive(w) /\ workers[w].pc \in {"drain", "redrain"} /\ workers[w].tasks # <<>>
    /\ workers' = [workers EXCEPT ![w].tasks = Tail(@)]
    /\ sealed' = [sealed EXCEPT ![workers[w].id] = @ \cup {workers[w].key}]
    /\ UNCHANGED <<GuiState, signals, discoveries>>

\* Mutant: the event is cleared before the wait instead of after it.
Drained_Clears(w) ==
    /\ Alive(w) /\ workers[w].tasks = <<>>
    /\ \/ /\ workers[w].pc = "drain"
          /\ IF workers[w].stop THEN workers' = [workers EXCEPT ![w] = Ended(@)]
             ELSE Goto(w, "sync")
       \/ /\ workers[w].pc = "redrain"
          /\ workers' = [workers EXCEPT ![w].pc = "wait", ![w].wake = FALSE]
    /\ UNCHANGED <<GuiState, signals, sealed, discoveries>>

Drained(w) ==
    /\ Alive(w) /\ workers[w].tasks = <<>>
    /\ \/ /\ workers[w].pc = "drain"
          /\ IF workers[w].stop THEN workers' = [workers EXCEPT ![w] = Ended(@)]
             ELSE Goto(w, "sync")
       \/ /\ workers[w].pc = "redrain"
          /\ Goto(w, "wait")
    /\ UNCHANGED <<GuiState, signals, sealed, discoveries>>

\* Mutant: an exception of sync ends the thread.
Sync_Dies(w) ==
    /\ Alive(w) /\ workers[w].pc = "sync"
    /\ \/ Goto(w, "discover")
       \/ workers' = [workers EXCEPT ![w] = Ended(@)]
    /\ UNCHANGED <<GuiState, signals, sealed, discoveries>>

\* sync and flush_outbox: they work, and discovery may be due, or they raise.
Sync(w) ==
    /\ Alive(w) /\ workers[w].pc = "sync"
    /\ \/ Goto(w, "discover")
       \/ Goto(w, "redrain")
    /\ UNCHANGED <<GuiState, signals, sealed, discoveries>>

\* _discover: refresh_relays adds relays, it never removes one.
Discover(w) ==
    /\ Alive(w) /\ workers[w].pc = "discover"
    /\ \/ /\ Goto(w, "redrain")
          /\ UNCHANGED <<signals, discoveries>>
       \/ \E new \in (SUBSET (Url \ workers[w].relays)) \ {{}} :
             /\ discoveries < MaxDiscoveries
             /\ discoveries' = discoveries + 1
             /\ workers' = [workers EXCEPT ![w].pc = "redrain",
                                           ![w].relays = @ \cup new]
             /\ signals' = Append(signals, workers[w].relays \cup new)
    /\ UNCHANGED <<GuiState, sealed>>

\* _wake.wait returns when the event is set or poll_seconds have passed.
Wait(w) ==
    /\ Alive(w) /\ workers[w].pc = "wait"
    /\ Goto(w, "clear")
    /\ UNCHANGED <<GuiState, signals, sealed, discoveries>>

Clear(w) ==
    /\ Alive(w) /\ workers[w].pc = "clear"
    /\ workers' = [workers EXCEPT ![w].pc = "top", ![w].wake = FALSE]
    /\ UNCHANGED <<GuiState, signals, sealed, discoveries>>

Run(w) ==
    \/ Top(w) \/ RunTask(w) \/ Drained(w) \/ Sync(w) \/ Discover(w) \/ Wait(w) \/ Clear(w)

-----------------------------------------------------------------------------
(* Outside the program.                                                    *)
Crash ==
    /\ screen # "off" /\ ends < MaxEnds
    /\ ends' = ends + 1
    /\ screen' = "off" /\ gui' = Ready /\ pending' = None
    /\ current' = 0
    /\ EndThreads
    /\ UNCHANGED <<disk, relays, usable, given, keys, changes, discoveries, modes,
                   failures>>

\* The keyring service, or NK_DISABLE_KEYRING, differs at the next start.
ChangeMode ==
    /\ screen = "off" /\ modes < MaxModes
    /\ modes' = modes + 1
    /\ usable' = ~usable
    /\ UNCHANGED <<screen, gui, pending, disk, relays, workers, current, signals, given,
                   keys, changes, discoveries, ends, failures>>

User ==
    \/ Bootstrap \/ OnSeedConfirmed \/ OnUnlock \/ Submit
    \/ \E id \in Identity : OnCreate(id) \/ OnRecover(id)
    \/ \E to \in {"unlock", "welcome", "off"} : Teardown(to)
    \/ \E entry \in UserRelays : OpenSettings(entry)

GuiThread ==
    \/ FinishSubmit \/ FinishSave \/ SetWake \/ FinishTeardown \/ FinishRestart
    \/ OnRelaysChanged

Next ==
    \/ User \/ GuiThread \/ Crash \/ ChangeMode
    \/ \E w \in Number : Run(w)

Spec == Init /\ [][Next]_vars

-----------------------------------------------------------------------------
(* Properties.                                                             *)
\* Every part of the App and of the disk has its type, the settings name a relay, and
\* the App's worker is one of those it started.
TypeOK ==
    /\ screen \in {"off", "welcome", "seed", "unlock", "main"}
    /\ \/ gui = Ready \/ gui = [step |-> "wake"]
       \/ gui \in [step : {"save"}, new : Identity]
       \/ gui \in [step : {"teardown"}, to : {"unlock", "welcome", "off"}, woken : BOOLEAN]
       \/ gui \in [step : {"restart"}, new : Worker, woken : BOOLEAN]
    /\ pending \in Identity \cup {None}
    /\ idfile \in Identity \cup {None, Torn}
    /\ relays \in (SUBSET Url) \ {{}} /\ saved \in (SUBSET Url) \cup {None}
    /\ workers \in Seq(Worker)
    /\ current \in 0 .. Len(workers)
    /\ signals \in Seq(SUBSET Url)
    /\ keyring \in [Identity -> Key \cup {None}]
    /\ keyfile \in Key \cup {None} /\ keys \in Nat
    /\ sealed \in [Identity -> SUBSET Key]
    /\ given \in Command

\* A worker does not sleep on a command or on the order to stop: the event is set,
\* or the GUI thread is about to set it.
NoLostWakeup ==
    \A w \in DOMAIN workers :
        workers[w].pc = "wait" /\ ~workers[w].wake =>
            /\ workers[w].stop => Stopping(w)
            /\ workers[w].tasks # <<>> => In("wake") /\ w = current

\* However often accounts are locked, switched and given new settings, and whatever
\* sync and commands raise: while the main screen takes commands the App's own worker
\* runs, for the account identity.nk holds, and every other one is about to end.
OneWorkerGoesOn ==
    /\ screen = "main" /\ gui.step \in {"ready", "wake"} =>
          /\ Alive(current) /\ ~workers[current].stop
          /\ idfile = workers[current].id
    /\ \A w \in DOMAIN workers \ {current} : Alive(w) => workers[w].stop

\* A client opens the local store with the key its account's rows are sealed with,
\* through restarts, changes of account and a keyring that comes and goes, unless
\* a local.key was created beside the account's key in the keyring: it wins.
KeyOpensRows ==
    \A w \in DOMAIN workers :
        LET id == workers[w].id IN
        Alive(w) => \/ sealed[id] \subseteq {workers[w].key}
                    \/ keyfile # None /\ keyring[id] # None

=============================================================================
