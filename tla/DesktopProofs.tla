---------------------------- MODULE DesktopProofs ----------------------------
(***************************************************************************)
(* Proofs about Desktop, for every set of accounts and relays and every    *)
(* value of the bounds: the types, which hold because every step keeps the *)
(* screen, the App's worker and the number of keys drawn in line; that the *)
(* App's own worker goes on and the others are about to end; that no       *)
(* worker sleeps on a command; and that a client opens its account's rows. *)
(* Each invariant is the run's property strengthened by what the threads   *)
(* leave behind while the GUI thread is in the middle of an event.         *)
(***************************************************************************)
EXTENDS Desktop, TLAPS

\* What the types rest on: the screen shows an account exactly while the App has a
\* worker, and every key drawn belongs to a worker, to a client that could not be built
\* or to a change of the settings.
Bookkeeping ==
    /\ saved \in ((SUBSET Url) \ {{}}) \cup {None}
    /\ signals \in Seq((SUBSET Url) \ {{}})
    /\ changes \in 0 .. MaxSettings
    /\ failures \in Nat
    /\ Len(workers) + failures <= MaxWorkers
    /\ In("restart") => Len(workers) + failures < MaxWorkers
    /\ keys <= Len(workers) + failures + changes
    /\ screen = "main" <=> current # 0
    /\ gui.step \in {"restart", "wake"} => screen = "main"
    /\ In("save") => screen \in {"welcome", "seed"}
    /\ Stopping(current) => current # 0

TypeInv == TypeOK /\ Bookkeeping

\* Whose worker the App's is, also while the GUI thread waits for it to end.
OwnInv ==
    /\ OneWorkerGoesOn
    /\ current # 0 /\ gui.step \in {"restart", "teardown"} => workers[current].stop
    /\ In("restart") =>
          gui.new.id = idfile /\ ~gui.new.stop /\ gui.new.pc = "top"

\* A stopped worker whose event is clear is at the head of its loop or over, or the GUI
\* thread is about to set the event; and a queue nobody will announce is about to be
\* drained.
WakeInv ==
    \A w \in DOMAIN workers :
        ~workers[w].wake =>
            /\ workers[w].stop => workers[w].pc \in {"top", "ended"} \/ Stopping(w)
            /\ \/ workers[w].tasks = <<>>
               \/ workers[w].pc \in {"top", "drain"}
               \/ In("wake") /\ w = current

\* A worker has the key of local.key or of the keyring, and so have the rows.
KeyInv ==
    /\ \A w \in DOMAIN workers :
          workers[w].key \in {keyfile, keyring[workers[w].id]}
    /\ In("restart") => gui.new.key \in {keyfile, keyring[gui.new.id]}
    /\ \A id \in Identity : sealed[id] \subseteq {keyfile, keyring[id]}


-----------------------------------------------------------------------------
(* What the parts of a step do to a worker and to the keys.                *)

\* A step of run() on a worker: it keeps the account, the key and the order to stop,
\* ends only on that order, drains what is queued before it goes on, and clears the
\* event only at the end of the loop.
Moved(a, b) ==
    /\ a.pc # "ended"
    /\ b.id = a.id /\ b.key = a.key /\ b.stop = a.stop
    /\ b.pc = "ended" => a.stop /\ b.tasks = <<>>
    /\ a.pc = "top" /\ a.stop => b.pc = "ended"
    /\ b.tasks # <<>> => a.tasks # <<>>
    /\ a.pc \in {"top", "drain"} /\ b.tasks # <<>> => b.pc = "drain"
    /\ b.wake = a.wake \/ b.pc \in {"top", "ended"}

\* A worker that is over is still a worker, of the same account and with the same key.
LEMMA EndedWorker ==
    ASSUME NEW a \in Worker
    PROVE  /\ Ended(a) \in Worker
           /\ Ended(a).id = a.id /\ Ended(a).key = a.key
           /\ Ended(a).stop /\ ~Ended(a).wake /\ Ended(a).pc = "ended"
           /\ Ended(a).tasks = <<>>
<1> DEFINE b == [a EXCEPT !.pc = "ended"]
           c == [b EXCEPT !.tasks = <<>>]
           d == [c EXCEPT !.stop = TRUE]
           e == [d EXCEPT !.wake = FALSE]
<1>1. b \in Worker /\ b.id = a.id /\ b.key = a.key /\ b.pc = "ended"
  BY DEF Worker
<1> HIDE DEF b
<1>2. c \in Worker /\ c.id = a.id /\ c.key = a.key /\ c.pc = "ended" /\ c.tasks = <<>>
  <2>1. PICK s \in Seq(Command) : s = <<>>
    <3>1. <<>> \in Seq(Command)
      OBVIOUS
    <3> QED
      BY <3>1
  <2>2. LET x == [b EXCEPT !.tasks = s] IN
        x \in Worker /\ x.id = a.id /\ x.key = a.key /\ x.pc = "ended" /\ x.tasks = s
    BY <1>1, <2>1 DEF Worker
  <2> QED
    BY <2>1, <2>2
<1> HIDE DEF c
<1>3. /\ d \in Worker /\ d.id = a.id /\ d.key = a.key /\ d.pc = "ended" /\ d.tasks = <<>>
      /\ d.stop
  BY <1>2 DEF Worker
<1> HIDE DEF d
<1>4. /\ e \in Worker /\ e.id = a.id /\ e.key = a.key /\ e.pc = "ended" /\ e.tasks = <<>>
      /\ e.stop /\ ~e.wake
  BY <1>3 DEF Worker
<1>5. Ended(a) = [e EXCEPT !.relays = {}]
  BY DEF Ended, b, c, d
<1> HIDE DEF e
<1> QED
  BY <1>4, <1>5 DEF Worker

\* Replacing one worker of the sequence keeps its type and its length.
LEMMA EditedWorkers ==
    ASSUME NEW W \in Seq(Worker), NEW w \in DOMAIN W, NEW x \in Worker
    PROVE  /\ [W EXCEPT ![w] = x] \in Seq(Worker)
           /\ Len([W EXCEPT ![w] = x]) = Len(W)
           /\ DOMAIN [W EXCEPT ![w] = x] = DOMAIN W
           /\ \A v \in DOMAIN W :
                 [W EXCEPT ![w] = x][v] = IF v = w THEN x ELSE W[v]
OBVIOUS

\* A worker of the sequence has the type of one.
LEMMA WorkerAt ==
    ASSUME NEW W \in Seq(Worker), NEW w \in DOMAIN W
    PROVE  /\ W[w] \in Worker
           /\ W[w].id \in Identity /\ W[w].key \in Key
<1>1. W[w] \in Worker
  OBVIOUS
<1> QED
  BY <1>1 DEF Worker

\* Each half of stop() edits one worker and no other.
LEMMA StoppedWorker ==
    ASSUME NEW W \in Seq(Worker), NEW w \in DOMAIN W
    PROVE  LET x == [W[w] EXCEPT !.stop = TRUE]
               y == [W[w] EXCEPT !.wake = TRUE] IN
           /\ [W EXCEPT ![w].stop = TRUE] = [W EXCEPT ![w] = x]
           /\ x \in Worker /\ x.id = W[w].id /\ x.key = W[w].key
           /\ x.stop /\ x.wake = W[w].wake /\ x.pc = W[w].pc /\ x.tasks = W[w].tasks
           /\ [W EXCEPT ![w].wake = TRUE] = [W EXCEPT ![w] = y]
           /\ y \in Worker /\ y.id = W[w].id /\ y.key = W[w].key
           /\ y.stop = W[w].stop /\ y.wake /\ y.pc = W[w].pc /\ y.tasks = W[w].tasks
<1>1. W[w] \in Worker
  OBVIOUS
<1> QED
  BY <1>1 DEF Worker

\* A new worker joins the others, which stay as they are.
LEMMA AppendedWorkers ==
    ASSUME NEW W \in Seq(Worker), NEW x \in Worker
    PROVE  /\ Append(W, x) \in Seq(Worker)
           /\ Len(Append(W, x)) = Len(W) + 1
           /\ DOMAIN W = 1 .. Len(W)
           /\ DOMAIN Append(W, x) = 1 .. Len(W) + 1
           /\ Append(W, x)[Len(W) + 1] = x
           /\ \A v \in DOMAIN W : Append(W, x)[v] = W[v]
OBVIOUS

\* The end of the process ends every worker.
LEMMA EndedThreads ==
    ASSUME TypeInv, EndThreads
    PROVE  /\ workers' \in Seq(Worker)
           /\ Len(workers') = Len(workers)
           /\ DOMAIN workers' = DOMAIN workers
           /\ \A v \in DOMAIN workers : workers'[v] = Ended(workers[v])
           /\ signals' = <<>>
<1>1. workers \in Seq(Worker)
  BY DEF TypeInv, TypeOK
<1>2. \A v \in DOMAIN workers : Ended(workers[v]) \in Worker
  BY <1>1, EndedWorker
<1>3. workers' = [w \in 1 .. Len(workers) |-> Ended(workers[w])] /\ signals' = <<>>
  BY <1>1 DEF EndThreads
<1>4. DOMAIN workers = 1 .. Len(workers) /\ Len(workers) \in Nat
  BY <1>1
<1> QED
  BY <1>2, <1>3, <1>4

\* resolve_store_key gives a key that is in local.key or in the keyring afterwards, and
\* neither forgets a key it holds.
LEMMA StoreKey ==
    ASSUME TypeInv, NEW id \in Identity,
           Len(workers) + failures + changes < MaxWorkers + MaxSettings
    PROVE  LET k == ResolveStoreKey(id) IN
           /\ k.key \in Key
           /\ k.ring \in [Identity -> Key \cup {None}] /\ k.file \in Key \cup {None}
           /\ k.drawn \in {0, 1}
           /\ k.key \in {k.file, k.ring[id]}
           /\ keyfile # None => k.file = keyfile
           /\ \A i \in Identity : keyring[i] # None => k.ring[i] = keyring[i]
<1>1. /\ keyring \in [Identity -> Key \cup {None}] /\ keyfile \in Key \cup {None}
      /\ keys \in Nat /\ keys + 1 \in Key
  <2>1. /\ keys \in Nat /\ keys <= Len(workers) + failures + changes
        /\ Len(workers) \in Nat /\ failures \in Nat /\ changes \in Nat /\ MaxWorkers \in Nat /\ MaxSettings \in Nat
    BY DesktopAssumption DEF TypeInv, TypeOK, Bookkeeping
  <2> QED
    BY <2>1 DEF Key, TypeInv, TypeOK
<1>2. CASE keyfile # None
  BY <1>1, <1>2 DEF ResolveStoreKey
<1>3. CASE keyfile = None /\ usable /\ keyring[id] # None
  BY <1>1, <1>3 DEF ResolveStoreKey
<1>4. CASE keyfile = None /\ usable /\ keyring[id] = None
  BY <1>1, <1>4 DEF ResolveStoreKey
<1>5. CASE keyfile = None /\ ~usable
  BY <1>1, <1>5 DEF ResolveStoreKey
<1> QED
  BY <1>2, <1>3, <1>4, <1>5

\* Taking the store's key: it stays among the keys of its type, and none is forgotten.
LEMMA TakenKey ==
    ASSUME TypeInv, NEW id \in Identity, TakeKey(id),
           Len(workers) + failures + changes < MaxWorkers + MaxSettings
    PROVE  /\ keyring' \in [Identity -> Key \cup {None}] /\ keyfile' \in Key \cup {None}
           /\ keys' \in {keys, keys + 1}
           /\ ResolveStoreKey(id).key \in Key
           /\ ResolveStoreKey(id).key \in {keyfile', keyring'[id]}
           /\ keyfile # None => keyfile' = keyfile
           /\ \A i \in Identity : keyring[i] # None => keyring'[i] = keyring[i]
<1> DEFINE k == ResolveStoreKey(id)
<1>1. keyring' = k.ring /\ keyfile' = k.file /\ keys' = keys + k.drawn /\ keys \in Nat
  BY DEF TakeKey, TypeInv, TypeOK
<1>2. /\ k.key \in Key
      /\ k.ring \in [Identity -> Key \cup {None}] /\ k.file \in Key \cup {None}
      /\ k.drawn \in {0, 1}
      /\ k.key \in {k.file, k.ring[id]}
      /\ keyfile # None => k.file = keyfile
      /\ \A i \in Identity : keyring[i] # None => k.ring[i] = keyring[i]
  BY StoreKey
<1> HIDE DEF k
<1>3. keys' \in {keys, keys + 1}
  BY <1>1, <1>2
<1> QED
  BY <1>1, <1>2, <1>3 DEF k

\* While another client may be built there is a key for it, and if it cannot be built
\* no key is forgotten either.
LEMMA FailedBuild ==
    ASSUME TypeInv, MoreWorkers, NEW id \in Identity
    PROVE  /\ Len(workers) + failures + changes < MaxWorkers + MaxSettings
           /\ BuildFails(id) =>
                 /\ keyring' \in [Identity -> Key \cup {None}]
                 /\ keyfile' \in Key \cup {None}
                 /\ keys' \in {keys, keys + 1} /\ failures' = failures + 1
                 /\ keyfile # None => keyfile' = keyfile
                 /\ \A i \in Identity : keyring[i] # None => keyring'[i] = keyring[i]
<1>1. Len(workers) + failures + changes < MaxWorkers + MaxSettings
  BY DesktopAssumption DEF TypeInv, TypeOK, Bookkeeping, MoreWorkers
<1>2. ASSUME BuildFails(id)
      PROVE  /\ keyring' \in [Identity -> Key \cup {None}]
             /\ keyfile' \in Key \cup {None}
             /\ keys' \in {keys, keys + 1} /\ failures' = failures + 1
             /\ keyfile # None => keyfile' = keyfile
             /\ \A i \in Identity : keyring[i] # None => keyring'[i] = keyring[i]
  <2>1. CASE TakeKey(id)
    BY <1>1, <1>2, <2>1, TakenKey DEF BuildFails
  <2>2. CASE UNCHANGED <<keyring, keyfile, keys>>
    BY <1>2, <2>2 DEF BuildFails, TypeInv, TypeOK
  <2> QED
    BY <1>2, <2>1, <2>2 DEF BuildFails
<1> QED
  BY <1>1, <1>2

\* A new worker is not told to stop, and has its first command announced.
LEMMA FreshWorker ==
    ASSUME NEW id \in Identity, NEW urls \in SUBSET Url, NEW key \in Key
    PROVE  /\ NewWorker(id, urls, key) \in Worker
           /\ NewWorker(id, urls, key).id = id /\ NewWorker(id, urls, key).key = key
           /\ ~NewWorker(id, urls, key).stop /\ NewWorker(id, urls, key).wake
           /\ NewWorker(id, urls, key).pc = "top"
<1>1. Provision \in Command
  BY DesktopAssumption DEF Provision, Command
<1> QED
  BY <1>1 DEF NewWorker, Worker

\* _start_client: the new worker is the App's, and has the account's key; or there is
\* none, and the welcome screen is back.
LEMMA Launched ==
    ASSUME TypeInv, NEW id \in Identity, NEW urls \in SUBSET Url, Launch(id, urls)
    PROVE  /\ \/ /\ \E x \in Worker :
                       /\ workers' = Append(workers, x)
                       /\ x.id = id /\ ~x.stop /\ x.wake /\ x.pc = "top"
                       /\ x.key \in {keyfile', keyring'[id]}
                 /\ current' = Len(workers) + 1 /\ screen' = "main"
                 /\ failures' = failures
              \/ /\ UNCHANGED <<workers, current>> /\ screen' = "welcome"
                 /\ failures' = failures + 1
           /\ Len(workers) + failures < MaxWorkers
           /\ keyring' \in [Identity -> Key \cup {None}] /\ keyfile' \in Key \cup {None}
           /\ keys' \in {keys, keys + 1}
           /\ keyfile # None => keyfile' = keyfile
           /\ \A i \in Identity : keyring[i] # None => keyring'[i] = keyring[i]
<1>1. MoreWorkers /\ Len(workers) + failures < MaxWorkers
  BY DEF Launch, MoreWorkers
<1>2. Len(workers) + failures + changes < MaxWorkers + MaxSettings
  BY <1>1, FailedBuild
<1>3. CASE /\ TakeKey(id)
           /\ workers' = Append(workers, NewWorker(id, urls, ResolveStoreKey(id).key))
           /\ current' = Len(workers) + 1 /\ screen' = "main" /\ UNCHANGED failures
  <2>1. /\ keyring' \in [Identity -> Key \cup {None}] /\ keyfile' \in Key \cup {None}
        /\ keys' \in {keys, keys + 1}
        /\ ResolveStoreKey(id).key \in Key
        /\ ResolveStoreKey(id).key \in {keyfile', keyring'[id]}
        /\ keyfile # None => keyfile' = keyfile
        /\ \A i \in Identity : keyring[i] # None => keyring'[i] = keyring[i]
    BY <1>2, <1>3, TakenKey
  <2>2. PICK key \in Key : key = ResolveStoreKey(id).key
    BY <2>1
  <2>3. /\ NewWorker(id, urls, key) \in Worker
        /\ NewWorker(id, urls, key).id = id /\ NewWorker(id, urls, key).key = key
        /\ ~NewWorker(id, urls, key).stop /\ NewWorker(id, urls, key).wake
        /\ NewWorker(id, urls, key).pc = "top"
    BY FreshWorker
  <2>4. workers' = Append(workers, NewWorker(id, urls, key))
    BY <1>3, <2>2
  <2> QED
    BY <1>1, <1>3, <2>1, <2>2, <2>3, <2>4
<1>4. CASE BuildFails(id) /\ screen' = "welcome" /\ UNCHANGED <<workers, current>>
  BY <1>1, <1>4, FailedBuild
<1> QED
  BY <1>3, <1>4 DEF Launch

\* Every step of a thread is a move of its worker, and leaves the App alone.
LEMMA RunMoves ==
    ASSUME TypeInv, NEW w \in Number, Run(w)
    PROVE  /\ w \in DOMAIN workers /\ UNCHANGED GuiState
           /\ \E x \in Worker :
                 workers' = [workers EXCEPT ![w] = x] /\ Moved(workers[w], x)
           /\ signals' \in Seq((SUBSET Url) \ {{}})
           /\ sealed' \in {sealed,
                           [sealed EXCEPT ![workers[w].id] = @ \cup {workers[w].key}]}
<1> DEFINE a == workers[w]
<1>1. workers \in Seq(Worker) /\ signals \in Seq((SUBSET Url) \ {{}})
  BY DEF TypeInv, TypeOK, Bookkeeping
<1>2. w \in DOMAIN workers /\ a.pc # "ended" /\ UNCHANGED GuiState
  BY DEF Run, Top, RunTask, Drained, Sync, Discover, Wait, Clear, Alive
<1>3. /\ a \in Worker /\ a.tasks \in Seq(Command)
      /\ Ended(a) \in Worker /\ Ended(a).id = a.id /\ Ended(a).key = a.key
      /\ Ended(a).stop /\ ~Ended(a).wake /\ Ended(a).pc = "ended"
      /\ Ended(a).tasks = <<>>
  <2>1. a \in Worker
    BY <1>1, <1>2
  <2> QED
    BY <2>1, EndedWorker DEF Worker
<1>4. ASSUME NEW pc \in {"top", "drain", "sync", "discover", "redrain", "wait", "clear"},
             Goto(w, pc)
      PROVE  /\ workers' = [workers EXCEPT ![w] = [a EXCEPT !.pc = pc]]
             /\ [a EXCEPT !.pc = pc] \in Worker
  BY <1>1, <1>2, <1>3, <1>4 DEF Goto, Worker
<1>5. CASE Top(w)
  <2>1. UNCHANGED <<signals, sealed>> /\ a.pc = "top"
    BY <1>5 DEF Top
  <2>2. CASE a.stop
    <3>1. workers' = [workers EXCEPT ![w] = Ended(a)]
      BY <1>5, <2>2 DEF Top
    <3>2. Moved(a, Ended(a))
      BY <1>2, <1>3, <2>2 DEF Moved
    <3> QED
      BY <1>1, <1>2, <1>3, <2>1, <3>1, <3>2
  <2>3. CASE ~a.stop
    <3>1. Goto(w, "drain")
      BY <1>5, <2>3 DEF Top
    <3>2. Moved(a, [a EXCEPT !.pc = "drain"])
      BY <1>2, <1>3, <2>1, <2>3 DEF Moved, Worker
    <3> QED
      BY <1>1, <1>2, <1>4, <2>1, <3>1, <3>2
  <2> QED
    BY <2>2, <2>3
<1>6. CASE RunTask(w)
  <2>1. /\ a.pc \in {"drain", "redrain"} /\ a.tasks # <<>>
        /\ workers' = [workers EXCEPT ![w] = [a EXCEPT !.tasks = Tail(a.tasks)]]
        /\ sealed' = [sealed EXCEPT ![a.id] = @ \cup {a.key}]
        /\ signals' = signals
    BY <1>6, <1>2, <1>1 DEF RunTask
  <2>2. Tail(a.tasks) \in Seq(Command)
    BY <1>3, <2>1
  <2>3. [a EXCEPT !.tasks = Tail(a.tasks)] \in Worker
    BY <1>3, <2>2 DEF Worker
  <2>4. Moved(a, [a EXCEPT !.tasks = Tail(a.tasks)])
    BY <1>2, <1>3, <2>1 DEF Moved, Worker
  <2> QED
    BY <1>1, <1>2, <2>1, <2>3, <2>4
<1>7. CASE Drained(w)
  <2>1. UNCHANGED <<signals, sealed>> /\ a.tasks = <<>>
    BY <1>7 DEF Drained
  <2>2. CASE a.pc = "drain" /\ a.stop
    <3>1. workers' = [workers EXCEPT ![w] = Ended(a)]
      BY <1>7, <2>2 DEF Drained
    <3>2. Moved(a, Ended(a))
      BY <1>2, <1>3, <2>2 DEF Moved
    <3> QED
      BY <1>1, <1>2, <1>3, <2>1, <3>1, <3>2
  <2>3. CASE a.pc = "drain" /\ ~a.stop
    <3>1. Goto(w, "sync")
      BY <1>7, <2>3 DEF Drained
    <3>2. Moved(a, [a EXCEPT !.pc = "sync"])
      BY <1>2, <1>3, <2>1, <2>3 DEF Moved, Worker
    <3> QED
      BY <1>1, <1>2, <1>4, <2>1, <3>1, <3>2
  <2>4. CASE a.pc = "redrain"
    <3>1. Goto(w, "wait")
      BY <1>7, <2>4 DEF Drained
    <3>2. Moved(a, [a EXCEPT !.pc = "wait"])
      BY <1>2, <1>3, <2>1, <2>4 DEF Moved, Worker
    <3> QED
      BY <1>1, <1>2, <1>4, <2>1, <3>1, <3>2
  <2> QED
    BY <1>7, <2>2, <2>3, <2>4 DEF Drained
<1>8. CASE Sync(w)
  <2>1. PICK pc \in {"discover", "redrain"} : Goto(w, pc)
    BY <1>8 DEF Sync
  <2>2. UNCHANGED <<signals, sealed>> /\ a.pc = "sync"
    BY <1>8 DEF Sync
  <2>3. Moved(a, [a EXCEPT !.pc = pc])
    BY <1>2, <1>3, <2>1, <2>2 DEF Moved, Worker
  <2> QED
    BY <1>1, <1>2, <1>4, <2>1, <2>2, <2>3
<1>9. CASE Discover(w)
  <2>1. sealed' = sealed /\ a.pc = "discover"
    BY <1>9 DEF Discover
  <2>2. CASE Goto(w, "redrain") /\ signals' = signals
    <3>1. Moved(a, [a EXCEPT !.pc = "redrain"])
      BY <1>2, <1>3, <2>1 DEF Moved, Worker
    <3> QED
      BY <1>1, <1>2, <1>4, <2>1, <2>2, <3>1
  <2>3. ASSUME NEW new \in (SUBSET (Url \ a.relays)) \ {{}},
               workers' = [workers EXCEPT ![w].pc = "redrain", ![w].relays = @ \cup new],
               signals' = Append(signals, a.relays \cup new)
        PROVE  /\ signals' \in Seq((SUBSET Url) \ {{}})
               /\ \E x \in Worker :
                     workers' = [workers EXCEPT ![w] = x] /\ Moved(workers[w], x)
    <3> DEFINE x == [a EXCEPT !.pc = "redrain", !.relays = a.relays \cup new]
    <3>1. a.relays \cup new \in (SUBSET Url) \ {{}}
      BY <1>3, <2>3 DEF Worker
    <3>2. x \in Worker
      BY <1>3, <3>1 DEF Worker
    <3>3. workers' = [workers EXCEPT ![w] = x]
      BY <1>1, <1>2, <1>3, <2>3 DEF Worker
    <3>4. Moved(a, x)
      BY <1>2, <1>3, <2>1 DEF Moved, Worker
    <3>5. signals' \in Seq((SUBSET Url) \ {{}})
      BY <1>1, <2>3, <3>1
    <3> HIDE DEF x
    <3> QED
      BY <3>2, <3>3, <3>4, <3>5
  <2> QED
    BY <1>2, <1>9, <2>1, <2>2, <2>3 DEF Discover
<1>10. CASE Wait(w)
  <2>1. UNCHANGED <<signals, sealed>> /\ a.pc = "wait" /\ Goto(w, "clear")
    BY <1>10 DEF Wait
  <2>2. Moved(a, [a EXCEPT !.pc = "clear"])
    BY <1>2, <1>3, <2>1 DEF Moved, Worker
  <2> QED
    BY <1>1, <1>2, <1>4, <2>1, <2>2
<1>11. CASE Clear(w)
  <2> DEFINE x == [a EXCEPT !.pc = "top", !.wake = FALSE]
  <2>1. UNCHANGED <<signals, sealed>> /\ a.pc = "clear"
    BY <1>11 DEF Clear
  <2>2. workers' = [workers EXCEPT ![w] = x] /\ x \in Worker
    BY <1>1, <1>2, <1>3, <1>11 DEF Clear, Worker
  <2>3. Moved(a, x)
    BY <1>2, <1>3, <2>1 DEF Moved, Worker
  <2> QED
    BY <1>1, <1>2, <2>1, <2>2, <2>3
<1> QED
  BY <1>5, <1>6, <1>7, <1>8, <1>9, <1>10, <1>11 DEF Run

-----------------------------------------------------------------------------
(* Types.                                                                  *)

\* The types hold when the program has never run.
LEMMA TypeInvInit == Init => TypeInv
<1> SUFFICES ASSUME Init PROVE TypeInv
  OBVIOUS
<1>1. DefaultRelays \in (SUBSET Url) \ {{}}
  BY DesktopAssumption
<1>2. /\ gui = Ready /\ workers = <<>> /\ signals = <<>> /\ given = 0 /\ keys = 0
      /\ changes = 0 /\ current = 0 /\ screen = "off" /\ saved = None /\ failures = 0
  BY DEF Init
<1>3. 0 \in Command /\ 0 \in 0 .. MaxSettings /\ 0 <= MaxWorkers
  BY DesktopAssumption DEF Command
<1>4. /\ <<>> \in Seq(Worker) /\ Len(<<>>) = 0 /\ <<>> \in Seq(SUBSET Url)
      /\ <<>> \in Seq((SUBSET Url) \ {{}})
  OBVIOUS
<1>5. TypeOK
  BY <1>1, <1>2, <1>3, <1>4 DEF Init, TypeOK
<1>6. Bookkeeping
  BY <1>2, <1>3, <1>4 DEF Bookkeeping, In, Ready, Stopping
<1> QED
  BY <1>5, <1>6 DEF TypeInv

\* Every step keeps the types.
LEMMA TypeInvStep ==
    ASSUME TypeInv, [Next]_vars
    PROVE  TypeInv'
<1> USE DEF TypeInv
<1>0. /\ workers \in Seq(Worker) /\ Len(workers) \in Nat /\ current \in 0 .. Len(workers)
      /\ MaxWorkers \in Nat /\ MaxSettings \in Nat /\ MaxCommands \in Nat
      /\ signals \in Seq((SUBSET Url) \ {{}}) /\ signals \in Seq(SUBSET Url)
      /\ given \in Nat /\ keys \in Nat /\ changes \in Nat /\ failures \in Nat
      /\ DOMAIN workers = 1 .. Len(workers)
  BY DesktopAssumption DEF TypeOK, Bookkeeping, Command
<1>1. ASSUME NEW id \in Identity, NEW urls \in (SUBSET Url) \ {{}}, Launch(id, urls),
             screen # "main", idfile' = id, saved' = urls, relays' = urls,
             UNCHANGED <<signals, sealed, given, changes>>,
             pending' = pending, gui' = Ready
      PROVE  TypeInv'
  <2>1. /\ Len(workers) + failures < MaxWorkers
        /\ keyring' \in [Identity -> Key \cup {None}] /\ keyfile' \in Key \cup {None}
        /\ keys' \in {keys, keys + 1}
    BY <1>1, Launched
  <2>2. /\ workers' \in Seq(Worker) /\ Len(workers') \in Nat
        /\ failures' \in Nat /\ current' \in 0 .. Len(workers')
        /\ Len(workers') + failures' = Len(workers) + failures + 1
        /\ screen' \in {"main", "welcome"} /\ (screen' = "main" <=> current' # 0)
    <3>1. CASE /\ \E x \in Worker : workers' = Append(workers, x)
               /\ current' = Len(workers) + 1 /\ screen' = "main"
               /\ failures' = failures
      <4>1. PICK x \in Worker : workers' = Append(workers, x)
        BY <3>1
      <4>2. workers' \in Seq(Worker) /\ Len(workers') = Len(workers) + 1
        BY <1>0, <4>1, AppendedWorkers
      <4> QED
        BY <1>0, <3>1, <4>2
    <3>2. CASE /\ UNCHANGED <<workers, current>> /\ screen' = "welcome"
               /\ failures' = failures + 1
      BY <1>0, <1>1, <3>2 DEF Bookkeeping
    <3> QED
      BY <1>1, <3>1, <3>2, Launched
  <2>3. TypeOK'
    <3>1. keys' \in Nat
      BY <1>0, <2>1
    <3> QED
      BY <1>0, <1>1, <2>1, <2>2, <3>1 DEF TypeOK
  <2>4. keys' <= Len(workers') + failures' + changes' /\ Len(workers') + failures' <= MaxWorkers
    BY <1>0, <1>1, <2>1, <2>2 DEF Bookkeeping
  <2>5. Bookkeeping'
    BY <1>0, <1>1, <2>2, <2>4 DEF Bookkeeping, TypeOK, In, Ready, Stopping
  <2> QED
    BY <2>3, <2>5
<1>2. CASE Bootstrap
  <2>1. /\ screen = "off" /\ gui = Ready /\ gui' = gui /\ pending' = pending
        /\ signals' = signals /\ given' = given /\ changes' = changes
        /\ relays' \in (SUBSET Url) \ {{}}
    BY <1>2, DesktopAssumption DEF Bootstrap, Bookkeeping
  <2>2. CASE /\ screen' \in {"welcome", "unlock"}
             /\ UNCHANGED <<disk, keys, workers, current, failures>>
    <3>1. TypeOK'
      BY <1>0, <2>1, <2>2 DEF TypeOK, disk
    <3>2. Bookkeeping'
      BY <1>0, <2>1, <2>2 DEF Bookkeeping, disk, In, Ready, Stopping
    <3> QED
      BY <3>1, <3>2
  <2>3. CASE /\ idfile \in Identity \ Encrypted /\ Launch(idfile, relays')
             /\ saved' = relays' /\ UNCHANGED <<idfile, sealed>>
    BY <1>1, <2>1, <2>3
  <2> QED
    BY <1>2, <2>2, <2>3 DEF Bootstrap
<1>3. ASSUME NEW id \in Identity, OnCreate(id)
      PROVE  TypeInv'
  BY <1>0, <1>3 DEF OnCreate, TypeOK, Bookkeeping, disk, counters, In, Ready, Stopping
<1>4. ASSUME NEW new \in Identity, BeginSave(new), pending' = pending, gui = Ready,
             screen \in {"welcome", "seed"}
      PROVE  TypeInv'
  BY <1>0, <1>4 DEF BeginSave, TypeOK, Bookkeeping, counters, In, Ready, Stopping
<1>5. CASE FinishSave
  <2>1. gui.new \in Identity /\ screen # "main"
    BY <1>5 DEF FinishSave, In, TypeOK, Bookkeeping, Ready
  <2>2. relays \in (SUBSET Url) \ {{}}
    BY DEF TypeOK
  <2> QED
    BY <1>1, <1>5, <2>1, <2>2 DEF FinishSave
<1>6. CASE OnUnlock
  <2>1. relays \in (SUBSET Url) \ {{}}
    BY DEF TypeOK
  <2> QED
    BY <1>1, <1>6, <2>1 DEF OnUnlock
<1>7. ASSUME NEW to \in {"unlock", "welcome", "off"}, Teardown(to)
      PROVE  TypeInv'
  <2>1. workers' \in Seq(Worker) /\ Len(workers') = Len(workers)
    <3>1. CASE current = 0
      BY <1>0, <1>7, <3>1 DEF Teardown, SetStop
    <3>2. CASE current # 0
      <4>1. current \in DOMAIN workers
        BY <1>0, <3>2
      <4>2. PICK x \in Worker : workers' = [workers EXCEPT ![current] = x]
        BY <1>0, <1>7, <3>2, <4>1, StoppedWorker DEF Teardown, SetStop
      <4> QED
        BY <1>0, <4>1, <4>2, EditedWorkers
    <3> QED
      BY <3>1, <3>2
  <2>2. gui = Ready /\ gui' = [step |-> "teardown", to |-> to, woken |-> current = 0]
    BY <1>7 DEF Teardown
  <2>3. UNCHANGED <<screen, pending, disk, relays, current, signals, given, keys, changes,
                    failures>>
    BY <1>7 DEF Teardown
  <2>4. gui' \in [step : {"teardown"}, to : {"unlock", "welcome", "off"}, woken : BOOLEAN]
    BY <2>2
  <2>5. TypeOK'
    BY <1>0, <2>1, <2>3, <2>4 DEF TypeOK, disk
  <2>6. Bookkeeping'
    BY <1>0, <2>1, <2>2, <2>3 DEF Bookkeeping, disk, In, Ready, Stopping
  <2> QED
    BY <2>5, <2>6
<1>8. ASSUME workers' \in Seq(Worker), Len(workers') = Len(workers),
             signals' \in Seq((SUBSET Url) \ {{}}), current' = 0,
             screen' \in {"off", "welcome", "unlock"}, gui' = Ready,
             pending' \in {pending, None},
             UNCHANGED <<disk, relays, given, keys, changes, failures>>
      PROVE  TypeInv'
  <2>1. signals' \in Seq(SUBSET Url)
    BY <1>8
  <2>2. TypeOK'
    BY <1>0, <1>8, <2>1 DEF TypeOK, disk
  <2>3. Bookkeeping'
    BY <1>0, <1>8 DEF Bookkeeping, disk, In, Ready, Stopping
  <2> QED
    BY <2>2, <2>3
<1>9. CASE FinishTeardown
  <2>1. gui.to \in {"unlock", "welcome", "off"}
    BY <1>9 DEF FinishTeardown, In, TypeOK, Ready
  <2>2. /\ workers' \in Seq(Worker) /\ Len(workers') = Len(workers)
        /\ signals' \in Seq((SUBSET Url) \ {{}})
    <3>1. CASE gui.to = "off"
      BY <1>9, <3>1, EndedThreads DEF FinishTeardown
    <3>2. CASE gui.to # "off"
      BY <1>0, <1>9, <3>2 DEF FinishTeardown
    <3> QED
      BY <3>1, <3>2
  <2> QED
    BY <1>8, <1>9, <2>1, <2>2 DEF FinishTeardown, counters
<1>10. ASSUME NEW entry \in UserRelays, OpenSettings(entry)
       PROVE  TypeInv'
  <2> DEFINE urls == Applied(entry)
             id == workers[current].id
             new == NewWorker(id, urls, ResolveStoreKey(id).key)
  <2>1. urls \in (SUBSET Url) \ {{}}
    BY DesktopAssumption DEF Applied
  <2>2. /\ screen = "main" /\ gui = Ready /\ changes < MaxSettings
        /\ MoreWorkers /\ Len(workers) + failures < MaxWorkers /\ changes' = changes + 1
        /\ relays' = urls /\ saved' = urls
        /\ UNCHANGED <<screen, pending, idfile, sealed, current, signals, given>>
    BY <1>10 DEF OpenSettings, MoreWorkers
  <2>3. current \in DOMAIN workers /\ workers[current] \in Worker /\ id \in Identity
    <3>1. current \in DOMAIN workers
      BY <1>0, <2>2 DEF Bookkeeping
    <3> QED
      BY <1>0, <3>1, WorkerAt
  <2>4. /\ keyring' \in [Identity -> Key \cup {None}] /\ keyfile' \in Key \cup {None}
        /\ keys' \in {keys, keys + 1}
        /\ workers' \in Seq(Worker) /\ Len(workers') = Len(workers)
        /\ failures' \in Nat
        /\ \/ /\ gui' \in [step : {"restart"}, new : Worker, woken : BOOLEAN]
              /\ failures' = failures
           \/ gui' = Ready /\ failures' = failures + 1
    <3>1. Len(workers) + failures + changes < MaxWorkers + MaxSettings
      BY <2>2, <2>3, FailedBuild
    <3>2. CASE /\ TakeKey(id) /\ SetStop /\ UNCHANGED failures
               /\ gui' = [step |-> "restart", woken |-> FALSE, new |-> new]
      <4>1. /\ keyring' \in [Identity -> Key \cup {None}] /\ keyfile' \in Key \cup {None}
            /\ keys' \in {keys, keys + 1} /\ ResolveStoreKey(id).key \in Key
        BY <2>3, <3>1, <3>2, TakenKey
      <4>2. new \in Worker
        BY <2>1, <2>3, <4>1, FreshWorker
      <4>3. workers' \in Seq(Worker) /\ Len(workers') = Len(workers)
        <5>1. current # 0
          BY <2>2 DEF Bookkeeping
        <5>2. PICK x \in Worker : workers' = [workers EXCEPT ![current] = x]
          BY <1>0, <2>3, <3>2, <5>1, StoppedWorker DEF SetStop
        <5> QED
          BY <1>0, <2>3, <5>2, EditedWorkers
      <4> HIDE DEF new
      <4> QED
        BY <1>0, <3>2, <4>1, <4>2, <4>3
    <3>3. CASE BuildFails(id) /\ UNCHANGED <<workers, gui>>
      BY <1>0, <2>2, <2>3, <3>3, FailedBuild
    <3> QED
      BY <1>10, <3>2, <3>3 DEF OpenSettings
  <2> HIDE DEF urls, id, new
  <2>5. TypeOK'
    <3>1. keys' \in Nat
      BY <1>0, <2>4
    <3> QED
      BY <1>0, <2>1, <2>2, <2>4, <3>1 DEF TypeOK
  <2>6. Bookkeeping'
    <3>1. keys' <= Len(workers') + failures' + changes'
      BY <1>0, <2>2, <2>4 DEF Bookkeeping
    <3>2. /\ Len(workers') + failures' <= MaxWorkers
          /\ In("restart")' => Len(workers') + failures' < MaxWorkers
      BY <1>0, <2>2, <2>4 DEF In, Ready
    <3>3. changes' \in 0 .. MaxSettings
      BY <1>0, <2>2
    <3>4. current' # 0 /\ gui'.step \in {"restart", "ready"}
      BY <2>2, <2>4 DEF Bookkeeping, Ready
    <3> QED
      BY <1>0, <2>1, <2>2, <2>4, <3>1, <3>2, <3>3, <3>4 DEF Bookkeeping, In, Stopping
  <2> QED
    BY <2>5, <2>6
<1>11. CASE FinishRestart
  <2>1. gui.new \in Worker /\ gui.step = "restart" /\ screen = "main"
    BY <1>11 DEF FinishRestart, In, TypeOK, Bookkeeping, Ready
  <2>2. /\ gui' = Ready /\ workers' = Append(workers, gui.new)
        /\ current' = Len(workers) + 1
        /\ UNCHANGED <<screen, pending, disk, relays, signals, given, keys, changes,
                       failures>>
    BY <1>11 DEF FinishRestart, counters
  <2>3. workers' \in Seq(Worker) /\ Len(workers') = Len(workers) + 1
    BY <1>0, <2>1, <2>2, AppendedWorkers
  <2>4. TypeOK'
    BY <1>0, <2>1, <2>2, <2>3 DEF TypeOK, disk
  <2>5. Bookkeeping'
    BY <1>0, <2>1, <2>2, <2>3 DEF Bookkeeping, disk, In, Ready, Stopping
  <2> QED
    BY <2>4, <2>5
<1>12. ASSUME screen = "main", NEW x \in Worker,
              workers' = [workers EXCEPT ![current] = x],
              gui' = Ready \/ gui' = [step |-> "wake"], given' \in Command,
              UNCHANGED <<screen, pending, disk, relays, current, signals, keys, changes,
                          failures>>
       PROVE  TypeInv'
  <2>1. current \in DOMAIN workers
    BY <1>0, <1>12 DEF Bookkeeping
  <2>2. workers' \in Seq(Worker) /\ Len(workers') = Len(workers)
    BY <1>0, <1>12, <2>1, EditedWorkers
  <2>3. TypeOK'
    BY <1>0, <1>12, <2>2 DEF TypeOK, disk
  <2>4. Bookkeeping'
    BY <1>0, <1>12, <2>2 DEF Bookkeeping, disk, In, Ready, Stopping
  <2> QED
    BY <2>3, <2>4
<1>13. CASE Submit
  <2>1. current \in DOMAIN workers /\ workers[current] \in Worker
    BY <1>0, <1>13 DEF Bookkeeping, Submit
  <2>2. given' \in Command /\ given + 1 \in Command
    BY <1>0, <1>13 DEF Submit, Command
  <2>3. Append(workers[current].tasks, given + 1) \in Seq(Command)
    BY <2>1, <2>2 DEF Worker
  <2>4. [workers[current] EXCEPT !.tasks = Append(@, given + 1)] \in Worker
    BY <2>1, <2>3 DEF Worker
  <2>5. workers' = [workers EXCEPT ![current] =
                       [workers[current] EXCEPT !.tasks = Append(@, given + 1)]]
    BY <1>0, <1>13, <2>1 DEF Submit
  <2> QED
    BY <1>12, <1>13, <2>2, <2>4, <2>5 DEF Submit
<1>14. CASE FinishSubmit
  <2>1. screen = "main"
    BY <1>14 DEF FinishSubmit, In, Bookkeeping
  <2>2. current \in DOMAIN workers /\ workers[current] \in Worker
    BY <1>0, <2>1 DEF Bookkeeping
  <2>3. [workers[current] EXCEPT !.wake = TRUE] \in Worker
    BY <2>2 DEF Worker
  <2>4. workers' = [workers EXCEPT ![current] = [workers[current] EXCEPT !.wake = TRUE]]
    BY <1>0, <1>14, <2>2 DEF FinishSubmit
  <2>5. given' \in Command
    BY <1>14 DEF FinishSubmit, counters, TypeOK
  <2> QED
    BY <1>12, <1>14, <2>1, <2>3, <2>4, <2>5 DEF FinishSubmit, counters
<1>15. CASE OnRelaysChanged
  <2>1. /\ Head(signals) \in (SUBSET Url) \ {{}}
        /\ Tail(signals) \in Seq((SUBSET Url) \ {{}}) /\ Tail(signals) \in Seq(SUBSET Url)
    BY <1>0, <1>15 DEF OnRelaysChanged
  <2>2. TypeOK'
    BY <1>15, <2>1 DEF OnRelaysChanged, TypeOK, counters
  <2>3. Bookkeeping'
    BY <1>15, <2>1 DEF OnRelaysChanged, Bookkeeping, counters, In, Stopping
  <2> QED
    BY <2>2, <2>3
<1>16. ASSUME NEW w \in Number, Run(w)
       PROVE  TypeInv'
  <2>1. PICK x \in Worker : workers' = [workers EXCEPT ![w] = x]
    BY <1>16, RunMoves
  <2>2. /\ w \in DOMAIN workers /\ UNCHANGED GuiState
        /\ signals' \in Seq((SUBSET Url) \ {{}}) /\ signals' \in Seq(SUBSET Url)
    BY <1>16, RunMoves
  <2>3. workers' \in Seq(Worker) /\ Len(workers') = Len(workers)
    BY <1>0, <2>1, <2>2, EditedWorkers
  <2>4. sealed' \in [Identity -> SUBSET Key]
    <3>1. workers[w].id \in Identity /\ workers[w].key \in Key
      BY <1>0, <2>2, WorkerAt
    <3>2. sealed \in [Identity -> SUBSET Key]
      BY DEF TypeOK
    <3> QED
      BY <1>16, <3>1, <3>2, RunMoves
  <2>5. TypeOK'
    BY <2>2, <2>3, <2>4 DEF TypeOK, GuiState
  <2>6. Bookkeeping'
    BY <2>2, <2>3 DEF Bookkeeping, GuiState, In, Stopping
  <2> QED
    BY <2>5, <2>6
<1>17. CASE Crash
  <2>1. /\ workers' \in Seq(Worker) /\ Len(workers') = Len(workers)
        /\ signals' \in Seq((SUBSET Url) \ {{}})
    BY <1>17, EndedThreads DEF Crash
  <2> QED
    BY <1>8, <1>17, <2>1 DEF Crash
<1>18. CASE ChangeMode
  BY <1>18 DEF ChangeMode, TypeOK, Bookkeeping, disk, In, Stopping
<1>19. CASE UNCHANGED vars
  BY <1>19 DEF vars, TypeOK, Bookkeeping, disk, counters, In, Stopping
<1>20. CASE OnSeedConfirmed
  BY <1>4, <1>20 DEF OnSeedConfirmed, TypeOK
<1>21. ASSUME NEW id \in Identity, OnRecover(id)
       PROVE  TypeInv'
  BY <1>4, <1>21 DEF OnRecover
<1>22. CASE SetWake
  <2>1. current # 0 /\ current \in DOMAIN workers
    BY <1>0, <1>22 DEF SetWake, Bookkeeping
  <2>2. workers' \in Seq(Worker) /\ Len(workers') = Len(workers)
    <3>1. PICK x \in Worker : workers' = [workers EXCEPT ![current] = x]
      BY <1>0, <1>22, <2>1, StoppedWorker DEF SetWake
    <3> QED
      BY <1>0, <2>1, <3>1, EditedWorkers
  <2>3. UNCHANGED <<screen, pending, disk, relays, current, signals, given, keys, changes,
                    failures>>
    BY <1>22 DEF SetWake, counters
  <2>4. /\ \/ gui' \in [step : {"teardown"}, to : {"unlock", "welcome", "off"},
                         woken : BOOLEAN]
           \/ gui' \in [step : {"restart"}, new : Worker, woken : BOOLEAN]
        /\ gui'.step = gui.step
    <3>1. /\ gui.step \in {"teardown", "restart"}
          /\ gui' = [gui EXCEPT !.woken = TRUE]
      BY <1>22 DEF SetWake, Stopping
    <3>2. CASE gui.step = "teardown"
      <4>1. gui \in [step : {"teardown"}, to : {"unlock", "welcome", "off"}, woken : BOOLEAN]
        BY <3>2 DEF TypeOK, Ready
      <4> QED
        BY <3>1, <4>1
    <3>3. CASE gui.step = "restart"
      <4>1. gui \in [step : {"restart"}, new : Worker, woken : BOOLEAN]
        BY <3>3 DEF TypeOK, Ready
      <4> QED
        BY <3>1, <4>1
    <3> QED
      BY <3>1, <3>2, <3>3
  <2>5. TypeOK'
    BY <1>0, <2>2, <2>3, <2>4 DEF TypeOK, disk
  <2>6. Bookkeeping'
    BY <1>0, <2>1, <2>2, <2>3, <2>4 DEF Bookkeeping, disk, In
  <2> QED
    BY <2>5, <2>6
<1> QED
  BY <1>2, <1>3, <1>5, <1>6, <1>7, <1>9, <1>10, <1>11, <1>13, <1>14, <1>15, <1>16, <1>17,
     <1>18, <1>19, <1>20, <1>21, <1>22 DEF Next, User, GuiThread

\* Types: the App, its workers and the disk always have their types, and the settings
\* never name an empty list of relays.
THEOREM TypeCorrect == Spec => []TypeOK
<1>1. Init => TypeInv
  BY TypeInvInit
<1>2. TypeInv /\ [Next]_vars => TypeInv'
  BY TypeInvStep
<1>3. TypeInv => TypeOK
  BY DEF TypeInv
<1> QED
  BY <1>1, <1>2, <1>3, PTL DEF Spec

-----------------------------------------------------------------------------
(* What each kind of event does to the workers.                            *)

KeysKept ==
    /\ keyfile # None => keyfile' = keyfile
    /\ \A i \in Identity : keyring[i] # None => keyring'[i] = keyring[i]

\* The App has no worker, and gets one for the account of identity.nk.
Starts ==
    /\ current = 0 /\ gui' = Ready
    /\ current' = Len(workers) + 1
    /\ KeysKept /\ sealed' = sealed
    /\ \E x \in Worker :
          /\ workers' = Append(workers, x)
          /\ idfile' = x.id /\ ~x.stop /\ x.wake /\ x.pc = "top"
          /\ x.key \in {keyfile', keyring'[x.id]}

\* A client could not be built: the App has the worker it had, and shows no other account.
Fails ==
    /\ gui' = Ready /\ UNCHANGED <<workers, current, sealed>> /\ KeysKept
    /\ \/ current = 0 /\ screen' = "welcome"
       \/ UNCHANGED <<screen, gui, idfile>>

\* No worker is touched; the event is over, or a save begins, on a screen without one.
Rests ==
    /\ UNCHANGED <<workers, current, keyring, keyfile, sealed>>
    /\ \/ screen' # "main" /\ gui = Ready /\ gui'.step \in {"ready", "save"}
       \/ UNCHANGED <<screen, gui, idfile>>

\* The first half of stop() on a worker.
StopSet(a, b) ==
    /\ b.stop /\ b.wake = a.wake /\ b.pc = a.pc /\ b.tasks = a.tasks
    /\ b.id = a.id /\ b.key = a.key

\* The App's worker is told to stop.
Stops ==
    /\ gui = Ready /\ current' = current /\ sealed' = sealed /\ KeysKept
    /\ DOMAIN workers' = DOMAIN workers
    /\ \A v \in DOMAIN workers :
          /\ v # current => workers'[v] = workers[v]
          /\ v = current => StopSet(workers[v], workers'[v])
    /\ current # 0 => ~gui'.woken
    /\ \/ gui'.step = "teardown"
       \/ /\ gui'.step = "restart" /\ screen = "main"
          /\ idfile' = idfile /\ gui'.new.id = workers[current].id
          /\ ~gui'.new.stop /\ gui'.new.wake /\ gui'.new.pc = "top"
          /\ gui'.new.key \in {keyfile', keyring'[gui'.new.id]}

\* The App's worker has a command queued, or its event set.
Announces ==
    /\ screen = "main" /\ current \in DOMAIN workers
    /\ gui.step \in {"ready", "wake"}
    /\ UNCHANGED <<screen, current, idfile, keyring, keyfile, sealed>>
    /\ DOMAIN workers' = DOMAIN workers
    /\ \A v \in DOMAIN workers :
          /\ v # current => workers'[v] = workers[v]
          /\ /\ workers'[v].id = workers[v].id /\ workers'[v].key = workers[v].key
             /\ workers'[v].stop = workers[v].stop /\ workers'[v].pc = workers[v].pc
    /\ \/ gui'.step = "wake" /\ gui = Ready /\ workers'[current].wake = workers[current].wake
       \/ gui' = Ready /\ workers'[current].wake

\* The event of the worker told to stop is set.
Wakes ==
    /\ gui.step \in {"teardown", "restart"} /\ gui'.step = gui.step
    /\ gui.step = "restart" => gui'.new = gui.new
    /\ current \in DOMAIN workers
    /\ UNCHANGED <<screen, current, idfile, keyring, keyfile, sealed>>
    /\ DOMAIN workers' = DOMAIN workers
    /\ workers'[current].wake
    /\ \A v \in DOMAIN workers :
          /\ v # current => workers'[v] = workers[v]
          /\ /\ workers'[v].id = workers[v].id /\ workers'[v].key = workers[v].key
             /\ workers'[v].stop = workers[v].stop /\ workers'[v].pc = workers[v].pc

\* The process, and every thread of it, is over.
Ends ==
    /\ screen' = "off" /\ gui' = Ready /\ current' = 0
    /\ UNCHANGED <<keyring, keyfile, sealed>>
    /\ DOMAIN workers' = DOMAIN workers
    /\ \A v \in DOMAIN workers :
          /\ workers'[v].id = workers[v].id /\ workers'[v].key = workers[v].key
          /\ workers'[v].pc = "ended" /\ workers'[v].tasks = <<>>

\* The App lets go of the worker it stopped.
LetsGo ==
    /\ gui.step = "teardown" /\ gui.woken /\ gui' = Ready
    /\ screen' # "main" /\ current' = 0
    /\ UNCHANGED <<workers, keyring, keyfile, sealed>>

\* Starting a client, from the start of the program, a saved identity or a passphrase.
LEMMA StartEvents ==
    ASSUME TypeInv, NEW id \in Identity, NEW urls \in SUBSET Url, Launch(id, urls),
           screen # "main", idfile' = id, gui' = Ready, sealed' = sealed
    PROVE  Starts \/ Fails
<1>1. current = 0
  BY DEF TypeInv, Bookkeeping
<1>2. KeysKept
  BY Launched DEF KeysKept
<1>3. CASE /\ \E x \in Worker :
                 /\ workers' = Append(workers, x)
                 /\ x.id = id /\ ~x.stop /\ x.wake /\ x.pc = "top"
                 /\ x.key \in {keyfile', keyring'[id]}
           /\ current' = Len(workers) + 1
  BY <1>1, <1>2, <1>3 DEF Starts
<1>4. CASE UNCHANGED <<workers, current>> /\ screen' = "welcome"
  BY <1>1, <1>2, <1>4 DEF Fails
<1> QED
  BY <1>3, <1>4, Launched

\* Every step is of one of these kinds.
LEMMA Kinds ==
    ASSUME TypeInv, [Next]_vars
    PROVE  \/ Starts \/ Fails \/ Rests \/ Stops \/ Wakes \/ Announces \/ Ends
           \/ LetsGo \/ FinishRestart
           \/ \E w \in Number : Run(w)
<1>0. /\ workers \in Seq(Worker) /\ Len(workers) \in Nat /\ current \in 0 .. Len(workers)
      /\ DOMAIN workers = 1 .. Len(workers) /\ relays \in SUBSET Url
      /\ screen = "main" <=> current # 0
  BY DEF TypeInv, TypeOK, Bookkeeping
<1>1. CASE Bootstrap
  <2>1. CASE screen' \in {"welcome", "unlock"} /\ UNCHANGED <<disk, workers, current>>
    BY <1>1, <2>1 DEF Bootstrap, Rests, disk, Ready
  <2>2. CASE /\ idfile \in Identity \ Encrypted /\ Launch(idfile, relays')
             /\ UNCHANGED <<idfile, sealed>>
    <3>1. relays' \in SUBSET Url
      BY <1>1, DesktopAssumption DEF Bootstrap, TypeInv, Bookkeeping
    <3>2. screen # "main" /\ gui' = Ready
      BY <1>1 DEF Bootstrap
    <3>3. Starts \/ Fails
      BY <2>2, <3>1, <3>2, StartEvents
    <3> QED
      BY <3>3
  <2> QED
    BY <1>1, <2>1, <2>2 DEF Bootstrap
<1>2. CASE FinishSave
  <2>1. gui.new \in Identity /\ screen # "main"
    BY <1>2 DEF FinishSave, In, TypeInv, TypeOK, Bookkeeping, Ready
  <2>2. Starts \/ Fails
    BY <1>0, <1>2, <2>1, StartEvents DEF FinishSave
  <2> QED
    BY <2>2
<1>3. CASE OnUnlock
  <2>1. Starts \/ Fails
    BY <1>0, <1>3, StartEvents DEF OnUnlock
  <2> QED
    BY <2>1
<1>4. ASSUME NEW id \in Identity, OnCreate(id)
      PROVE  Rests
  BY <1>4 DEF OnCreate, Rests, disk, Ready
<1>5. ASSUME NEW id \in Identity, OnRecover(id)
      PROVE  Rests
  BY <1>5 DEF OnRecover, BeginSave, Rests
<1>6. CASE OnSeedConfirmed
  BY <1>6 DEF OnSeedConfirmed, BeginSave, Rests
<1>7. CASE OnRelaysChanged
  BY <1>7 DEF OnRelaysChanged, Rests
<1>8. CASE ChangeMode
  BY <1>8 DEF ChangeMode, Rests, disk
<1>9. CASE UNCHANGED vars
  BY <1>9 DEF vars, Rests, disk
<1>10. ASSUME SetStop
       PROVE  /\ DOMAIN workers' = DOMAIN workers
              /\ \A v \in DOMAIN workers :
                    /\ v # current => workers'[v] = workers[v]
                    /\ v = current => StopSet(workers[v], workers'[v])
  <2>1. CASE current = 0
    BY <1>0, <1>10, <2>1 DEF SetStop
  <2>2. CASE current # 0
    <3>1. current \in DOMAIN workers
      BY <1>0, <2>2
    <3>2. PICK x \in Worker :
             StopSet(workers[current], x) /\ workers' = [workers EXCEPT ![current] = x]
      BY <1>0, <1>10, <2>2, <3>1, StoppedWorker DEF SetStop, StopSet
    <3> QED
      BY <1>0, <3>1, <3>2, EditedWorkers
  <2> QED
    BY <2>1, <2>2
<1>11. ASSUME NEW to \in {"unlock", "welcome", "off"}, Teardown(to)
       PROVE  Stops
  BY <1>10, <1>11 DEF Teardown, Stops, KeysKept, disk
<1>12. ASSUME NEW entry \in UserRelays, OpenSettings(entry)
       PROVE  Stops \/ Fails
  <2> DEFINE urls == Applied(entry)
             id == workers[current].id
             new == NewWorker(id, urls, ResolveStoreKey(id).key)
  <2>1. /\ screen = "main" /\ gui = Ready /\ MoreWorkers
        /\ UNCHANGED <<screen, idfile, sealed, current>>
    BY <1>12 DEF OpenSettings
  <2>2. current \in DOMAIN workers /\ id \in Identity
    <3>1. current \in DOMAIN workers
      BY <1>0, <2>1
    <3> QED
      BY <1>0, <3>1, WorkerAt
  <2>3. CASE /\ TakeKey(id) /\ SetStop
             /\ gui' = [step |-> "restart", woken |-> FALSE, new |-> new]
    <3>1. /\ ResolveStoreKey(id).key \in Key
          /\ ResolveStoreKey(id).key \in {keyfile', keyring'[id]}
          /\ KeysKept
      BY <2>1, <2>2, <2>3, FailedBuild, TakenKey DEF KeysKept
    <3>2. urls \in SUBSET Url
      BY DesktopAssumption DEF Applied
    <3>3. /\ new.id = id /\ new.key = ResolveStoreKey(id).key
          /\ ~new.stop /\ new.wake /\ new.pc = "top"
      BY <2>2, <3>1, <3>2, FreshWorker
    <3> HIDE DEF new
    <3>4. /\ gui'.step = "restart" /\ gui'.new = new /\ ~gui'.woken
      BY <2>3
    <3> QED
      BY <1>10, <2>1, <2>3, <3>1, <3>3, <3>4 DEF Stops
  <2>4. CASE BuildFails(id) /\ UNCHANGED <<workers, gui>>
    <3>1. KeysKept
      BY <2>1, <2>2, <2>4, FailedBuild DEF KeysKept
    <3> QED
      BY <2>1, <2>4, <3>1 DEF Fails
  <2> QED
    BY <1>12, <2>3, <2>4 DEF OpenSettings
<1>13. CASE Submit
  <2>1. current \in DOMAIN workers
    BY <1>0, <1>13 DEF Submit
  <2>2. workers[current] \in Worker
    BY <1>0, <2>1
  <2>3. PICK t \in Seq(Command) :
           workers' = [workers EXCEPT ![current] = [workers[current] EXCEPT !.tasks = t]]
    <3>1. given + 1 \in Command
      BY <1>13, DesktopAssumption DEF Submit, Command, TypeInv, TypeOK
    <3>2. Append(workers[current].tasks, given + 1) \in Seq(Command)
      BY <2>2, <3>1 DEF Worker
    <3> QED
      BY <1>0, <1>13, <2>1, <3>2 DEF Submit
  <2> DEFINE x == [workers[current] EXCEPT !.tasks = t]
  <2>4. /\ x \in Worker /\ x.id = workers[current].id /\ x.key = workers[current].key
        /\ x.stop = workers[current].stop /\ x.pc = workers[current].pc
        /\ x.wake = workers[current].wake
    BY <2>2 DEF Worker
  <2> HIDE DEF x
  <2>5. /\ DOMAIN workers' = DOMAIN workers
        /\ \A v \in DOMAIN workers : workers'[v] = IF v = current THEN x ELSE workers[v]
    BY <1>0, <2>1, <2>3, <2>4, EditedWorkers DEF x
  <2>6. /\ gui' = [step |-> "wake"] /\ gui = Ready /\ screen = "main"
        /\ UNCHANGED <<screen, current, idfile, keyring, keyfile, sealed>>
    BY <1>13 DEF Submit, disk
  <2>7. Announces
    BY <2>1, <2>4, <2>5, <2>6 DEF Announces, Ready
  <2> QED
    BY <2>7
<1>14. CASE FinishSubmit
  <2>1. screen = "main" /\ gui.step = "wake"
    BY <1>14 DEF FinishSubmit, In, TypeInv, Bookkeeping
  <2>2. current \in DOMAIN workers
    BY <1>0, <2>1
  <2>3. workers[current] \in Worker
    BY <1>0, <2>2
  <2> DEFINE x == [workers[current] EXCEPT !.wake = TRUE]
  <2>4. /\ x \in Worker /\ x.id = workers[current].id /\ x.key = workers[current].key
        /\ x.stop = workers[current].stop /\ x.pc = workers[current].pc /\ x.wake
    BY <2>3 DEF Worker
  <2>5. workers' = [workers EXCEPT ![current] = x]
    BY <1>0, <1>14, <2>2 DEF FinishSubmit
  <2> HIDE DEF x
  <2>6. /\ DOMAIN workers' = DOMAIN workers
        /\ \A v \in DOMAIN workers : workers'[v] = IF v = current THEN x ELSE workers[v]
    BY <1>0, <2>2, <2>4, <2>5, EditedWorkers
  <2> QED
    BY <1>14, <2>1, <2>2, <2>4, <2>6 DEF FinishSubmit, Announces, disk
<1>15. ASSUME EndThreads
       PROVE  /\ DOMAIN workers' = DOMAIN workers
              /\ \A v \in DOMAIN workers :
                    /\ workers'[v].id = workers[v].id /\ workers'[v].key = workers[v].key
                    /\ workers'[v].pc = "ended" /\ workers'[v].tasks = <<>>
  BY <1>0, <1>15, EndedThreads, EndedWorker
<1>16. CASE FinishTeardown
  <2>1. gui.to \in {"unlock", "welcome", "off"}
    BY <1>16 DEF FinishTeardown, In, TypeInv, TypeOK, Ready
  <2>2. CASE gui.to = "off"
    BY <1>15, <1>16, <2>2 DEF FinishTeardown, Ends, disk
  <2>3. CASE gui.to # "off"
    BY <1>16, <2>1, <2>3 DEF FinishTeardown, LetsGo, disk, In
  <2> QED
    BY <2>2, <2>3
<1>17. CASE Crash
  BY <1>15, <1>17 DEF Crash, Ends, disk
<1>18. CASE SetWake
  <2>1. current \in DOMAIN workers
    BY <1>0, <1>18 DEF SetWake, TypeInv, Bookkeeping
  <2>2. PICK y \in Worker :
           /\ y.id = workers[current].id /\ y.key = workers[current].key
           /\ y.stop = workers[current].stop /\ y.wake /\ y.pc = workers[current].pc
           /\ workers' = [workers EXCEPT ![current] = y]
    BY <1>0, <1>18, <2>1, StoppedWorker DEF SetWake
  <2>3. /\ DOMAIN workers' = DOMAIN workers
        /\ \A v \in DOMAIN workers : workers'[v] = IF v = current THEN y ELSE workers[v]
    BY <1>0, <2>1, <2>2, EditedWorkers
  <2>4. /\ gui.step \in {"teardown", "restart"} /\ gui'.step = gui.step
        /\ gui.step = "restart" => gui'.new = gui.new
    BY <1>18 DEF SetWake, Stopping, TypeInv, TypeOK, Ready
  <2> QED
    BY <1>18, <2>1, <2>2, <2>3, <2>4 DEF SetWake, Wakes, disk
<1> QED
  BY <1>1, <1>2, <1>3, <1>4, <1>5, <1>6, <1>7, <1>8, <1>9, <1>11, <1>12, <1>13, <1>14,
     <1>16, <1>17, <1>18 DEF Next, User, GuiThread

\* The workers after a start or a restart.
LEMMA OneMore ==
    ASSUME TypeInv, NEW x \in Worker, workers' = Append(workers, x),
           current' = Len(workers) + 1
    PROVE  /\ current' \in DOMAIN workers' /\ current' \notin DOMAIN workers
           /\ DOMAIN workers' = DOMAIN workers \cup {current'}
           /\ workers'[current'] = x
           /\ \A v \in DOMAIN workers : workers'[v] = workers[v]
<1>1. workers \in Seq(Worker) /\ Len(workers) \in Nat
  BY DEF TypeInv, TypeOK
<1>2. /\ DOMAIN workers = 1 .. Len(workers)
      /\ DOMAIN workers' = 1 .. Len(workers) + 1
      /\ workers'[Len(workers) + 1] = x
      /\ \A v \in DOMAIN workers : workers'[v] = workers[v]
  BY <1>1, AppendedWorkers
<1> QED
  BY <1>1, <1>2

\* A restart puts the worker built before beside the one that was stopped.
LEMMA RestartAdds ==
    ASSUME TypeInv, FinishRestart
    PROVE  /\ gui.new \in Worker /\ In("restart") /\ gui.woken /\ screen = "main"
           /\ gui' = Ready
           /\ workers' = Append(workers, gui.new) /\ current' = Len(workers) + 1
           /\ UNCHANGED <<screen, idfile, keyring, keyfile, sealed>>
BY DEF FinishRestart, In, TypeInv, TypeOK, Bookkeeping, Ready, disk

\* A thread's step in terms of its worker.
LEMMA OneMoved ==
    ASSUME TypeInv, NEW w \in Number, Run(w)
    PROVE  /\ w \in DOMAIN workers /\ DOMAIN workers' = DOMAIN workers
           /\ Moved(workers[w], workers'[w])
           /\ \A v \in DOMAIN workers \ {w} : workers'[v] = workers[v]
           /\ UNCHANGED <<screen, gui, idfile, current, keyring, keyfile>>
           /\ sealed' \in {sealed,
                           [sealed EXCEPT ![workers[w].id] = @ \cup {workers[w].key}]}
<1>1. workers \in Seq(Worker)
  BY DEF TypeInv, TypeOK
<1>2. PICK x \in Worker : workers' = [workers EXCEPT ![w] = x] /\ Moved(workers[w], x)
  BY RunMoves
<1>3. /\ w \in DOMAIN workers /\ UNCHANGED GuiState
      /\ sealed' \in {sealed, [sealed EXCEPT ![workers[w].id] = @ \cup {workers[w].key}]}
  BY RunMoves
<1>4. DOMAIN workers' = DOMAIN workers /\ workers'[w] = x
      /\ \A v \in DOMAIN workers \ {w} : workers'[v] = workers[v]
  BY <1>1, <1>2, <1>3, EditedWorkers
<1> QED
  BY <1>2, <1>3, <1>4 DEF GuiState

-----------------------------------------------------------------------------
(* The App's own worker.                                                   *)

\* Every step keeps OwnInv.
LEMMA OwnInvStep ==
    ASSUME TypeInv, OwnInv, [Next]_vars
    PROVE  OwnInv'
<1>0. current \in DOMAIN workers \cup {0} /\ (screen = "main" <=> current # 0)
  BY DEF TypeInv, TypeOK, Bookkeeping
<1>1. CASE Starts
  <2>1. PICK x \in Worker :
           /\ workers' = Append(workers, x)
           /\ idfile' = x.id /\ ~x.stop /\ x.wake /\ x.pc = "top"
    BY <1>1 DEF Starts
  <2>2. current = 0 /\ current' = Len(workers) + 1 /\ gui' = Ready
    BY <1>1 DEF Starts
  <2>3. /\ current' \in DOMAIN workers' /\ DOMAIN workers' = DOMAIN workers \cup {current'}
        /\ workers'[current'] = x
        /\ \A v \in DOMAIN workers : workers'[v] = workers[v]
    BY <2>1, <2>2, OneMore
  <2>4. 0 \notin DOMAIN workers
    BY DEF TypeInv, TypeOK
  <2> QED
    BY <2>1, <2>2, <2>3, <2>4 DEF OwnInv, OneWorkerGoesOn, Alive, In, Ready
<1>2. CASE Rests
  <2>1. CASE screen' # "main" /\ gui'.step \in {"ready", "save"}
    BY <1>2, <2>1 DEF Rests, OwnInv, OneWorkerGoesOn, Alive, In
  <2>2. CASE UNCHANGED <<screen, gui, idfile>>
    BY <1>2, <2>2 DEF Rests, OwnInv, OneWorkerGoesOn, Alive, In
  <2> QED
    BY <1>2, <2>1, <2>2 DEF Rests
<1>3. CASE Stops
  <2>1. gui.step = "ready" /\ gui'.step \in {"teardown", "restart"}
    BY <1>3 DEF Stops, Ready
  <2>2. ASSUME NEW v \in DOMAIN workers' \ {current'}, Alive(v)'
        PROVE  workers'[v].stop
    BY <1>3, <2>2 DEF Stops, OwnInv, OneWorkerGoesOn, Alive
  <2>3. current' # 0 => workers'[current'].stop
    BY <1>0, <1>3 DEF Stops, StopSet
  <2>4. In("restart")' =>
           gui'.new.id = idfile' /\ ~gui'.new.stop /\ gui'.new.pc = "top"
    BY <1>3, <2>1 DEF Stops, OwnInv, OneWorkerGoesOn, In
  <2> QED
    BY <2>1, <2>2, <2>3, <2>4 DEF OwnInv, OneWorkerGoesOn
<1>4. CASE Announces
  <2>1. gui'.step \in {"ready", "wake"} /\ gui.step \in {"ready", "wake"}
    BY <1>4 DEF Announces, Ready
  <2> QED
    BY <1>4, <2>1 DEF Announces, OwnInv, OneWorkerGoesOn, Alive, In
<1>5. CASE Ends
  BY <1>5 DEF Ends, OwnInv, OneWorkerGoesOn, Alive, In, Ready
<1>6. CASE LetsGo
  BY <1>0, <1>6 DEF LetsGo, OwnInv, OneWorkerGoesOn, Alive, In, Ready
<1>7. CASE FinishRestart
  <2>1. /\ gui.new \in Worker /\ In("restart") /\ screen = "main" /\ gui' = Ready
        /\ workers' = Append(workers, gui.new) /\ current' = Len(workers) + 1
        /\ UNCHANGED <<screen, idfile>>
    BY <1>7, RestartAdds
  <2>2. /\ current' \in DOMAIN workers' /\ DOMAIN workers' = DOMAIN workers \cup {current'}
        /\ workers'[current'] = gui.new
        /\ \A v \in DOMAIN workers : workers'[v] = workers[v]
    BY <2>1, OneMore
  <2> QED
    BY <1>0, <2>1, <2>2 DEF OwnInv, OneWorkerGoesOn, Alive, In, Ready
<1>8. ASSUME NEW w \in Number, Run(w)
      PROVE  OwnInv'
  <2>1. /\ w \in DOMAIN workers /\ DOMAIN workers' = DOMAIN workers
        /\ Moved(workers[w], workers'[w])
        /\ \A v \in DOMAIN workers \ {w} : workers'[v] = workers[v]
        /\ UNCHANGED <<screen, gui, idfile, current>>
    BY <1>8, OneMoved
  <2> QED
    BY <1>0, <2>1 DEF OwnInv, OneWorkerGoesOn, Alive, In, Moved
<1>9. CASE Fails
  <2>1. CASE current = 0 /\ screen' = "welcome"
    <3>1. 0 \notin DOMAIN workers
      BY DEF TypeInv, TypeOK
    <3> QED
      BY <1>9, <2>1, <3>1 DEF Fails, OwnInv, OneWorkerGoesOn, Alive, In, Ready
  <2>2. CASE UNCHANGED <<screen, gui, idfile>>
    BY <1>9, <2>2 DEF Fails, OwnInv, OneWorkerGoesOn, Alive, In
  <2> QED
    BY <1>9, <2>1, <2>2 DEF Fails
<1>10. CASE Wakes
  BY <1>10 DEF Wakes, OwnInv, OneWorkerGoesOn, Alive, In
<1> QED
  BY <1>1, <1>2, <1>3, <1>4, <1>5, <1>6, <1>7, <1>8, <1>9, <1>10, Kinds

\* One worker goes on: while the main screen takes commands the App's own worker runs
\* for the account identity.nk holds, and every other worker that still runs has been
\* told to stop, however lock, switch, restart, crash and the threads interleave.
THEOREM OwnWorkerGoesOn == Spec => []OneWorkerGoesOn
<1>1. Init => TypeInv /\ OwnInv
  <2>1. Init => OwnInv
    BY DEF Init, OwnInv, OneWorkerGoesOn, In, Ready
  <2> QED
    BY <2>1, TypeInvInit
<1>2. TypeInv /\ OwnInv /\ [Next]_vars => TypeInv' /\ OwnInv'
  BY TypeInvStep, OwnInvStep
<1>3. OwnInv => OneWorkerGoesOn
  BY DEF OwnInv
<1> QED
  BY <1>1, <1>2, <1>3, PTL DEF Spec

-----------------------------------------------------------------------------
(* The wake event.                                                         *)

\* Every step keeps WakeInv.
LEMMA WakeInvStep ==
    ASSUME TypeInv, OwnInv, WakeInv, [Next]_vars
    PROVE  WakeInv'
<1> SUFFICES ASSUME NEW v \in DOMAIN workers', ~workers'[v].wake
             PROVE  /\ workers'[v].stop => workers'[v].pc \in {"top", "ended"} \/ Stopping(v)'
                    /\ \/ workers'[v].tasks = <<>>
                       \/ workers'[v].pc \in {"top", "drain"}
                       \/ gui'.step = "wake" /\ v = current'
  BY DEF WakeInv, In, Stopping
<1>1. CASE Starts
  <2>1. PICK x \in Worker : workers' = Append(workers, x) /\ x.wake
    BY <1>1 DEF Starts
  <2>2. current = 0 /\ current' = Len(workers) + 1 /\ 0 \notin DOMAIN workers
    BY <1>1 DEF Starts, TypeInv, TypeOK
  <2>3. /\ DOMAIN workers' = DOMAIN workers \cup {current'}
        /\ workers'[current'] = x
        /\ \A u \in DOMAIN workers : workers'[u] = workers[u]
    BY <2>1, <2>2, OneMore
  <2> QED
    BY <2>1, <2>2, <2>3 DEF WakeInv, In, Stopping
<1>2. CASE Rests
  BY <1>2 DEF Rests, WakeInv, In, Ready, Stopping
<1>3. CASE Stops
  <2>1. gui.step = "ready"
    BY <1>3 DEF Stops, Ready
  <2> QED
    <3>1. v \in DOMAIN workers /\ current' = current /\ 0 \notin DOMAIN workers
      BY <1>3 DEF Stops, TypeInv, TypeOK
    <3>2. CASE v # current
      BY <1>3, <2>1, <3>1, <3>2 DEF Stops, WakeInv, In, Stopping
    <3>3. CASE v = current
      <4>1. /\ workers'[v].wake = workers[v].wake /\ workers'[v].pc = workers[v].pc
            /\ workers'[v].tasks = workers[v].tasks
            /\ gui'.step \in {"teardown", "restart"} /\ ~gui'.woken
        BY <1>3, <3>1, <3>3 DEF Stops, StopSet
      <4> QED
        BY <2>1, <3>1, <3>3, <4>1 DEF WakeInv, In, Stopping
    <3> QED
      BY <3>2, <3>3
<1>4. CASE Announces
  <2>1. CASE v # current
    BY <1>4, <2>1 DEF Announces, WakeInv, In, Stopping
  <2>2. CASE v = current
    BY <1>4, <2>2 DEF Announces, WakeInv, In, Stopping
  <2> QED
    BY <2>1, <2>2
<1>5. CASE Ends
  BY <1>5 DEF Ends
<1>6. CASE LetsGo
  BY <1>6 DEF LetsGo, WakeInv, In, Stopping
<1>7. CASE FinishRestart
  <2>1. /\ gui.new \in Worker /\ gui.step = "restart"
        /\ workers' = Append(workers, gui.new) /\ current' = Len(workers) + 1
        /\ gui.woken
    BY <1>7, RestartAdds DEF In
  <2>2. /\ current' \in DOMAIN workers' /\ DOMAIN workers' = DOMAIN workers \cup {current'}
        /\ workers'[current'] = gui.new
        /\ \A u \in DOMAIN workers : workers'[u] = workers[u]
    BY <2>1, OneMore
  <2> QED
    BY <2>1, <2>2 DEF WakeInv, OwnInv, In, Stopping
<1>8. ASSUME NEW w \in Number, Run(w)
      PROVE  /\ workers'[v].stop => workers'[v].pc \in {"top", "ended"} \/ Stopping(v)'
             /\ \/ workers'[v].tasks = <<>>
                \/ workers'[v].pc \in {"top", "drain"}
                \/ gui'.step = "wake" /\ v = current'
  <2>1. /\ w \in DOMAIN workers /\ DOMAIN workers' = DOMAIN workers
        /\ Moved(workers[w], workers'[w])
        /\ \A u \in DOMAIN workers \ {w} : workers'[u] = workers[u]
        /\ UNCHANGED <<gui, current>>
    BY <1>8, OneMoved
  <2> QED
    BY <2>1 DEF WakeInv, In, Moved, Stopping
<1>9. CASE Fails
  <2>1. 0 \notin DOMAIN workers
    BY DEF TypeInv, TypeOK
  <2> QED
    BY <1>9, <2>1 DEF Fails, WakeInv, In, Stopping, Ready
<1>10. CASE Wakes
  <2>1. v # current /\ workers'[v] = workers[v] /\ v \in DOMAIN workers /\ current' = current
    BY <1>10 DEF Wakes
  <2> QED
    BY <2>1 DEF WakeInv, Stopping, In
<1> QED
  BY <1>1, <1>2, <1>3, <1>4, <1>5, <1>6, <1>7, <1>8, <1>9, <1>10, Kinds

\* No lost wakeup: a worker never sleeps on a queued command or on the order to stop
\* unless its event is set or the GUI thread is between queueing the one, or giving the
\* other, and setting it.
THEOREM WakeupKept == Spec => []NoLostWakeup
<1>1. Init => TypeInv /\ OwnInv /\ WakeInv
  <2>1. Init => OwnInv /\ WakeInv
    BY DEF Init, WakeInv, OwnInv, OneWorkerGoesOn, In, Ready
  <2> QED
    BY <2>1, TypeInvInit
<1>2. TypeInv /\ OwnInv /\ WakeInv /\ [Next]_vars => TypeInv' /\ OwnInv' /\ WakeInv'
  BY TypeInvStep, OwnInvStep, WakeInvStep
<1>3. WakeInv => NoLostWakeup
  BY DEF WakeInv, NoLostWakeup
<1> QED
  BY <1>1, <1>2, <1>3, PTL DEF Spec

-----------------------------------------------------------------------------
(* The key of the local store.                                             *)

\* Every step keeps KeyInv.
LEMMA KeyInvStep ==
    ASSUME TypeInv, KeyInv, [Next]_vars
    PROVE  KeyInv'
<1>0. /\ \A v \in DOMAIN workers :
            workers[v].id \in Identity /\ workers[v].key \in Key /\ workers[v].key # None
      /\ sealed \in [Identity -> SUBSET Key]
      /\ None \notin Key
      /\ In("restart") =>
            gui.new.id \in Identity /\ gui.new.key \in Key /\ gui.new.key # None
  <2>1. workers \in Seq(Worker) /\ sealed \in [Identity -> SUBSET Key]
    BY DEF TypeInv, TypeOK
  <2>2. None \notin Key
    BY DesktopAssumption DEF Key
  <2>3. In("restart") => gui.new.id \in Identity /\ gui.new.key \in Key
    <3>1. In("restart") => gui.new \in Worker
      BY DEF TypeInv, TypeOK, In, Ready
    <3> QED
      BY <3>1 DEF Worker
  <2> QED
    BY <2>1, <2>2, <2>3, WorkerAt
<1>1. ASSUME KeysKept, NEW i \in Identity, NEW k \in Key, k \in {keyfile, keyring[i]}
      PROVE  k \in {keyfile', keyring'[i]}
  BY <1>0, <1>1 DEF KeysKept
<1>2. ASSUME KeysKept, sealed' = sealed
      PROVE  \A id \in Identity : sealed'[id] \subseteq {keyfile', keyring'[id]}
  BY <1>0, <1>1, <1>2 DEF KeyInv
<1>3. CASE Starts
  <2>1. PICK x \in Worker :
           workers' = Append(workers, x) /\ x.key \in {keyfile', keyring'[x.id]}
    BY <1>3 DEF Starts
  <2>2. current' = Len(workers) + 1 /\ KeysKept /\ sealed' = sealed /\ gui' = Ready
    BY <1>3 DEF Starts
  <2>3. /\ DOMAIN workers' = DOMAIN workers \cup {current'}
        /\ workers'[current'] = x
        /\ \A u \in DOMAIN workers : workers'[u] = workers[u]
    BY <2>1, <2>2, OneMore
  <2>4. \A v \in DOMAIN workers' : workers'[v].key \in {keyfile', keyring'[workers'[v].id]}
    BY <1>0, <1>1, <2>1, <2>2, <2>3 DEF KeyInv
  <2>5. ~In("restart")'
    BY <2>2 DEF In, Ready
  <2> QED
    BY <1>2, <2>2, <2>4, <2>5 DEF KeyInv
<1>4. CASE Rests
  BY <1>4 DEF Rests, KeyInv, In, Ready
<1>5. CASE Stops
  <2>1. KeysKept /\ sealed' = sealed
    BY <1>5 DEF Stops
  <2>2. /\ DOMAIN workers' = DOMAIN workers
        /\ \A v \in DOMAIN workers :
              workers'[v].id = workers[v].id /\ workers'[v].key = workers[v].key
    BY <1>5 DEF Stops, StopSet
  <2>3. \A v \in DOMAIN workers' : workers'[v].key \in {keyfile', keyring'[workers'[v].id]}
    BY <1>0, <1>1, <2>1, <2>2 DEF KeyInv
  <2>4. In("restart")' => gui'.new.key \in {keyfile', keyring'[gui'.new.id]}
    BY <1>5 DEF Stops, In
  <2> QED
    BY <1>2, <2>1, <2>3, <2>4 DEF KeyInv
<1>6. CASE Announces
  <2>1. ~In("restart")'
    BY <1>6 DEF Announces, In, Ready
  <2> QED
    BY <1>6, <2>1 DEF Announces, KeyInv
<1>7. CASE Ends
  <2>1. ~In("restart")'
    BY <1>7 DEF Ends, In, Ready
  <2> QED
    BY <1>7, <2>1 DEF Ends, KeyInv
<1>8. CASE LetsGo
  BY <1>8 DEF LetsGo, KeyInv, In, Ready
<1>9. CASE FinishRestart
  <2>1. /\ gui.new \in Worker /\ In("restart") /\ gui' = Ready
        /\ workers' = Append(workers, gui.new) /\ current' = Len(workers) + 1
        /\ UNCHANGED <<keyring, keyfile, sealed>>
    BY <1>9, RestartAdds
  <2>2. /\ DOMAIN workers' = DOMAIN workers \cup {current'}
        /\ workers'[current'] = gui.new
        /\ \A u \in DOMAIN workers : workers'[u] = workers[u]
    BY <2>1, OneMore
  <2> QED
    BY <2>1, <2>2 DEF KeyInv, In, Ready
<1>10. ASSUME NEW w \in Number, Run(w)
       PROVE  KeyInv'
  <2>1. /\ w \in DOMAIN workers /\ DOMAIN workers' = DOMAIN workers
        /\ Moved(workers[w], workers'[w])
        /\ \A u \in DOMAIN workers \ {w} : workers'[u] = workers[u]
        /\ UNCHANGED <<gui, keyring, keyfile>>
    BY <1>10, OneMoved
  <2>2. \A v \in DOMAIN workers' : workers'[v].key \in {keyfile', keyring'[workers'[v].id]}
    BY <2>1 DEF KeyInv, Moved
  <2>3. \A id \in Identity : sealed'[id] \subseteq {keyfile', keyring'[id]}
    <3>1. CASE sealed' = sealed
      BY <2>1, <3>1 DEF KeyInv
    <3>2. CASE sealed' = [sealed EXCEPT ![workers[w].id] = @ \cup {workers[w].key}]
      BY <1>0, <2>1, <3>2 DEF KeyInv
    <3> QED
      BY <1>10, <3>1, <3>2, OneMoved
  <2> QED
    BY <2>1, <2>2, <2>3 DEF KeyInv, In
<1>11. CASE Fails
  <2>1. ~In("restart")'
    BY <1>11 DEF Fails, In, Ready
  <2>2. \A v \in DOMAIN workers : workers[v].key \in {keyfile', keyring'[workers[v].id]}
    BY <1>0, <1>1, <1>11 DEF Fails, KeyInv
  <2> QED
    BY <1>2, <1>11, <2>1, <2>2 DEF Fails, KeyInv
<1>12. CASE Wakes
  BY <1>12 DEF Wakes, KeyInv, In
<1> QED
  BY <1>3, <1>4, <1>5, <1>6, <1>7, <1>8, <1>9, <1>10, <1>11, <1>12, Kinds

\* The key opens the rows: through restarts, changes of account and a keyring that
\* comes and goes, a client never meets rows of its account sealed with another key,
\* unless local.key was created beside a key the keyring holds.
THEOREM StoreKeyOpens == Spec => []KeyOpensRows
<1>1. Init => TypeInv /\ KeyInv
  <2>1. Init => KeyInv
    BY DEF Init, KeyInv, In, Ready
  <2> QED
    BY <2>1, TypeInvInit
<1>2. TypeInv /\ KeyInv /\ [Next]_vars => TypeInv' /\ KeyInv'
  BY TypeInvStep, KeyInvStep
<1>3. TypeInv /\ KeyInv => KeyOpensRows
  <2> SUFFICES ASSUME TypeInv, KeyInv, NEW w \in DOMAIN workers
               PROVE  \/ sealed[workers[w].id] \subseteq {workers[w].key}
                      \/ keyfile # None /\ keyring[workers[w].id] # None
    BY DEF KeyOpensRows
  <2>1. workers[w].id \in Identity /\ workers[w].key \in Key
    BY WorkerAt DEF TypeInv, TypeOK
  <2>2. sealed[workers[w].id] \subseteq Key /\ None \notin Key
    BY <2>1, DesktopAssumption DEF TypeInv, TypeOK, Key
  <2>3. /\ sealed[workers[w].id] \subseteq {keyfile, keyring[workers[w].id]}
        /\ workers[w].key \in {keyfile, keyring[workers[w].id]}
    BY <2>1 DEF KeyInv
  <2> QED
    BY <2>1, <2>2, <2>3
<1> QED
  BY <1>1, <1>2, <1>3, PTL DEF Spec

=============================================================================
