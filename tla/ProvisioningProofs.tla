------------------------- MODULE ProvisioningProofs -------------------------
(***************************************************************************)
(* Proofs about Provisioning, for every set of devices, every list of      *)
(* relays, any number of threads and every value of the bounds.            *)
(*                                                                         *)
(* While its first provision is under way, a device whose threads have not *)
(* met runs one thread at a time, and what that thread drew is what the    *)
(* store ends up with; once it is over, every thread only copies what the  *)
(* store holds, so that any number of them may run at once.  A draw        *)
(* belongs to one device: what the threads of another device write over    *)
(* each other never touches its bundle.                                    *)
(***************************************************************************)
EXTENDS Provisioning, WellFoundedInduction, TLAPS

Location ==
    [pc : {"idle", "register", "create", "name", "save", "publish", "inbox", "bundle",
           "card", "id", "own", "keep", "read", "list", "keys"},
     first : BOOLEAN, prekeys : Draw \cup {Missing},
     bundle : Draw \cup {Missing}, todo : Seq(Relay), ok : BOOLEAN,
     id : Draw \cup {Missing}, list : DeviceList]

\* A place is safe when the thread and the client have what it needs.
PlaceOK(d, t) ==
    LET loc == at[d][t] IN
    /\ loc.pc = "register" => mem[d].inbox # Missing
    /\ loc.pc \in {"name", "save"} => loc.prekeys # Missing
    /\ loc.pc = "publish" =>
          loc.prekeys # Missing /\ loc.bundle # Missing /\ loc.todo # <<>>
    /\ loc.pc \in {"id", "own", "keep"} => mem[d].inbox # Missing
    /\ loc.pc = "own" => loc.id # Missing
    /\ loc.pc \in {"keep", "read", "list", "keys"} => mem[d].id # Missing
    /\ loc.pc = "list" => loc.todo # <<>>

PlacesInv == \A d \in Device, t \in Thread : PlaceOK(d, t)

TypeInv == TypeOK /\ PlacesInv

-----------------------------------------------------------------------------
(* The data a step edits.                                                  *)
Number == Draw \cup {Missing}

StoreRec == [inbox : Number, bundle : Number, prekeys : Number, id : Number, keys : Number]
ClientRec ==
    [task : BOOLEAN, inbox : Number, bundle : Number, card : BOOLEAN, id : Number,
     cache : DeviceList]
RelayRec ==
    [boxes : SUBSET Draw, bundles : [Draw -> Bundle \cup {NoBundle}],
     list : DeviceList, keys : SUBSET DeviceKeys]

\* The types, with a name for each record.
Typed ==
    /\ store \in [Device -> StoreRec]
    /\ mem \in [Device -> ClientRec]
    /\ at \in [Device -> [Thread -> Location]]
    /\ relay \in [Relay -> RelayRec]
    /\ draws \in 0 .. MaxDraws /\ faults \in 0 .. MaxFaults
    /\ raced \subseteq Device

\* The two ways of writing the types agree.
LEMMA TypedIsTypeOK == Typed <=> TypeOK
BY DEF Typed, TypeOK, Number, StoreRec, ClientRec, RelayRec, Location

\* Draws are positive and never the mark of a missing one.
LEMMA Draws ==
    /\ Missing \notin Draw /\ \A n \in Draw : n # Missing
    /\ \A n \in Number : n \in Nat /\ (n # Missing => n \in Draw)
    /\ MaxDraws \in Nat
BY ProvisioningAssumption DEF Draw, Missing, Number

\* Moving one thread leaves the others where they are.
LEMMA Moved ==
    ASSUME Typed, NEW d \in Device, NEW t \in Thread, NEW loc \in Location, Goto(d, t, loc)
    PROVE  /\ at' \in [Device -> [Thread -> Location]]
           /\ at'[d][t] = loc
           /\ \A e \in Device, u \in Thread :
                 e # d \/ u # t => at'[e][u] = at[e][u]
BY DEF Typed, Goto

\* The place of a thread, field by field.
LEMMA LocationFields ==
    ASSUME NEW loc \in Location
    PROVE  /\ loc.first \in BOOLEAN /\ loc.prekeys \in Number /\ loc.bundle \in Number
           /\ loc.todo \in Seq(Relay) /\ loc.ok \in BOOLEAN /\ loc.id \in Number
           /\ loc.list \in DeviceList
BY DEF Location, Number

Pc ==
    {"idle", "register", "create", "name", "save", "publish", "inbox", "bundle", "card",
     "id", "own", "keep", "read", "list", "keys"}

\* Going on from a place.
LEMMA Places ==
    ASSUME NEW loc \in Location, NEW pc \in Pc
    PROVE  LET l == [loc EXCEPT !.pc = pc] IN
           /\ l \in Location
           /\ l.pc = pc /\ l.first = loc.first /\ l.prekeys = loc.prekeys
           /\ l.bundle = loc.bundle /\ l.todo = loc.todo /\ l.ok = loc.ok
           /\ l.list = loc.list
BY DEF Location, Pc

\* Leaving provision, or going on without locals.
LEMMA IdlePlaces ==
    ASSUME NEW pc \in Pc
    PROVE  /\ Idle \in Location
           /\ Idle.pc = "idle" /\ Idle.list = {}
           /\ LET l == [Idle EXCEPT !.pc = pc] IN
              /\ l \in Location /\ l.pc = pc /\ ~l.first /\ l.prekeys = Missing
              /\ l.bundle = Missing /\ l.todo = <<>> /\ ~l.ok /\ l.list = {}
<1>1. Idle \in Location
  <2>1. <<>> \in Seq(Relay) /\ {} \in DeviceList
    BY DEF DeviceList
  <2> QED
    BY <2>1 DEF Idle, Location
<1>2. [Idle EXCEPT !.pc = pc] \in Location
  BY <1>1 DEF Location, Pc
<1>3. /\ Idle.pc = "idle" /\ Idle.list = {}
      /\ LET l == [Idle EXCEPT !.pc = pc] IN
         /\ l.pc = pc /\ ~l.first /\ l.prekeys = Missing /\ l.bundle = Missing
         /\ l.todo = <<>> /\ ~l.ok /\ l.list = {}
  BY DEF Idle
<1> QED
  BY <1>1, <1>2, <1>3

\* Registering a mailbox adds it where the relay answered and changes nothing else.
LEMMA MailboxOnRelays ==
    ASSUME Typed, NEW n \in Draw, NEW S \in SUBSET Relay
    PROVE  /\ WithMailbox(n, S) \in [Relay -> RelayRec]
           /\ \A r \in Relay :
                 /\ WithMailbox(n, S)[r].boxes =
                       IF r \in S THEN relay[r].boxes \cup {n} ELSE relay[r].boxes
                 /\ WithMailbox(n, S)[r].bundles = relay[r].bundles
                 /\ WithMailbox(n, S)[r].list = relay[r].list
<1>1. \A r \in Relay : relay[r] \in RelayRec
  BY DEF Typed
<1>2. ASSUME NEW r \in Relay
      PROVE  LET x == [relay[r] EXCEPT !.boxes = relay[r].boxes \cup {n}] IN
             /\ x \in RelayRec
             /\ x.boxes = relay[r].boxes \cup {n} /\ x.bundles = relay[r].bundles
             /\ x.list = relay[r].list
  BY <1>1 DEF RelayRec
<1> QED
  BY <1>1, <1>2 DEF WithMailbox

\* Publishing a bundle on a relay writes the signed prekey and keeps the one-time
\* prekeys of a record that is there.
LEMMA BundleOnRelay ==
    ASSUME Typed, NEW r \in Relay, NEW n \in Draw, NEW p \in Draw
    PROVE  /\ WithBundle(r, n, p) \in [Relay -> RelayRec]
           /\ \A q \in Relay :
                 /\ WithBundle(r, n, p)[q].boxes = relay[q].boxes
                 /\ WithBundle(r, n, p)[q].list = relay[q].list
                 /\ \A m \in Draw :
                       WithBundle(r, n, p)[q].bundles[m] =
                          IF q = r /\ m = n
                          THEN [spk |-> p, opks |-> IF relay[r].bundles[n] = NoBundle
                                                    THEN p ELSE relay[r].bundles[n].opks]
                          ELSE relay[q].bundles[m]
<1> DEFINE old == relay[r].bundles[n]
           new == [spk |-> p, opks |-> IF old = NoBundle THEN p ELSE old.opks]
           b == [relay[r].bundles EXCEPT ![n] = new]
           x == [relay[r] EXCEPT !.bundles = b]
<1>1. /\ relay \in [Relay -> RelayRec] /\ relay[r] \in RelayRec
      /\ relay[r].bundles \in [Draw -> Bundle \cup {NoBundle}]
      /\ old \in Bundle \cup {NoBundle}
  <2>1. relay \in [Relay -> RelayRec] /\ relay[r] \in RelayRec
    BY DEF Typed
  <2>2. relay[r].bundles \in [Draw -> Bundle \cup {NoBundle}]
    BY <2>1 DEF RelayRec
  <2> QED
    BY <2>1, <2>2
<1>2. new \in Bundle
  BY <1>1 DEF Bundle
<1> HIDE DEF old, new
<1>3. /\ b \in [Draw -> Bundle \cup {NoBundle}]
      /\ \A m \in Draw : b[m] = IF m = n THEN new ELSE relay[r].bundles[m]
  BY <1>1, <1>2
<1>4. WithBundle(r, n, p) = [relay EXCEPT ![r] = x]
  BY <1>1 DEF WithBundle, new, old
<1> HIDE DEF b
<1>5. x \in RelayRec /\ x.boxes = relay[r].boxes /\ x.list = relay[r].list /\ x.bundles = b
  BY <1>1, <1>3 DEF RelayRec
<1> HIDE DEF x
<1>6. [relay EXCEPT ![r] = x] \in [Relay -> RelayRec]
  BY <1>1, <1>5
<1>7. \A q \in Relay : [relay EXCEPT ![r] = x][q] = IF q = r THEN x ELSE relay[q]
  BY <1>1
<1> QED
  BY <1>3, <1>4, <1>5, <1>6, <1>7 DEF new, old

\* Publishing the list on a relay replaces the one it has.
LEMMA ListOnRelay ==
    ASSUME Typed, NEW r \in Relay, NEW l \in DeviceList
    PROVE  LET new == [relay EXCEPT ![r].list = l] IN
           /\ new \in [Relay -> RelayRec]
           /\ \A q \in Relay : /\ new[q].boxes = relay[q].boxes
                               /\ new[q].bundles = relay[q].bundles
                               /\ new[q].list = IF q = r THEN l ELSE relay[q].list
<1> DEFINE x == [relay[r] EXCEPT !.list = l]
<1>1. relay \in [Relay -> RelayRec] /\ relay[r] \in RelayRec
  BY DEF Typed
<1>2. /\ x \in RelayRec /\ x.boxes = relay[r].boxes /\ x.bundles = relay[r].bundles
      /\ x.list = l
  BY <1>1 DEF RelayRec
<1>3. [relay EXCEPT ![r].list = l] = [relay EXCEPT ![r] = x]
  BY <1>1
<1> HIDE DEF x
<1> QED
  BY <1>1, <1>2, <1>3

\* Publishing sync keys changes no mailbox, bundle or list.
LEMMA KeysOnRelays ==
    ASSUME Typed, NEW S \in SUBSET Relay, NEW id \in Draw, NEW keys \in Draw
    PROVE  LET new == [r \in Relay |->
                          IF r \notin S THEN relay[r]
                          ELSE [relay[r] EXCEPT !.keys =
                                  {k \in @ : k.id # id} \cup {[id |-> id, keys |-> keys]}]] IN
           /\ new \in [Relay -> RelayRec]
           /\ \A q \in Relay : /\ new[q].boxes = relay[q].boxes
                               /\ new[q].bundles = relay[q].bundles
                               /\ new[q].list = relay[q].list
<1>1. \A r \in Relay : relay[r] \in RelayRec
  BY DEF Typed
<1>2. ASSUME NEW r \in Relay
      PROVE  LET x == [relay[r] EXCEPT !.keys =
                          {k \in relay[r].keys : k.id # id} \cup {[id |-> id, keys |-> keys]}]
             IN  /\ x \in RelayRec /\ x.boxes = relay[r].boxes
                 /\ x.bundles = relay[r].bundles /\ x.list = relay[r].list
  <2>1. {k \in relay[r].keys : k.id # id} \cup {[id |-> id, keys |-> keys]}
           \in SUBSET DeviceKeys
    BY <1>1 DEF RelayRec, DeviceKeys
  <2> QED
    BY <1>1, <2>1 DEF RelayRec
<1> QED
  BY <1>1, <1>2

\* Every non-empty set of numbers has a least one.
LEMMA LeastNat ==
    ASSUME NEW S \in SUBSET Nat, S # {}
    PROVE  \E n \in S : \A m \in S : n <= m
<1> DEFINE R == OpToRel(<, Nat)
<1>1. IsWellFoundedOn(R, Nat)
  BY NatLessThanWellFounded
<1>2. \A n, m \in Nat : m < n => <<m, n>> \in R
  BY DEF OpToRel
<1> HIDE DEF R
<1>3. PICK n \in S : \A m \in S : ~(<<m, n>> \in R)
  BY <1>1, WFMin
<1>4. \A m \in S : ~(m < n)
  BY <1>2, <1>3
<1> QED
  BY <1>4

\* The list a reader gets is the one some relay holds, or empty; when all relays answer
\* and the first holds one, it is that one.
LEMMA FirstListHeld ==
    ASSUME Typed, NEW S \in SUBSET Relay
    PROVE  /\ FirstList(S) \in DeviceList
           /\ FirstList(S) = {} \/ \E r \in Relay : FirstList(S) = relay[r].list
           /\ S = Relay /\ relay[Urls[1]].list # {} => FirstList(S) = relay[Urls[1]].list
           /\ (\A r \in Relay : relay[r].list = {}) => FirstList(S) = {}
<1> DEFINE having == {i \in DOMAIN Urls : Urls[i] \in S /\ relay[Urls[i]].list # {}}
           least == CHOOSE i \in having : \A j \in having : i <= j
<1>0. /\ Urls \in Seq(Relay) /\ DOMAIN Urls = 1 .. Len(Urls) /\ Len(Urls) \in Nat
      /\ Len(Urls) # 0
      /\ \A r \in Relay : relay[r].list \in DeviceList
  BY ProvisioningAssumption DEF Relay, Typed, RelayRec
<1>1. FirstList(S) = IF having = {} THEN {} ELSE relay[Urls[least]].list
  BY DEF FirstList
<1>2. having # {} => least \in having /\ \A j \in having : least <= j
  <2>1. having \in SUBSET Nat
    BY <1>0
  <2> QED
    BY <2>1, LeastNat
<1>3. having # {} => Urls[least] \in Relay /\ relay[Urls[least]].list # {}
  BY <1>2
<1>4. ASSUME S = Relay, relay[Urls[1]].list # {}
      PROVE  having # {} /\ least = 1
  <2>1. 1 \in DOMAIN Urls /\ Urls[1] \in Relay
    BY <1>0
  <2>2. 1 \in having
    BY <1>4, <2>1
  <2>3. \A j \in having : j \in Nat /\ 1 <= j
    BY <1>0
  <2> QED
    BY <1>2, <2>2, <2>3
<1> HIDE DEF having, least
<1>5. {} \in DeviceList
  BY DEF DeviceList
<1> QED
  BY <1>0, <1>1, <1>3, <1>4, <1>5

-----------------------------------------------------------------------------
(* What each step does, field by field.                                    *)

\* Only thread t of device d has moved.
OthersStay(d, t) ==
    \A e \in Device, u \in Thread : e # d \/ u # t => at'[e][u] = at[e][u]

ClientKept(d) ==
    /\ mem'[d].inbox = mem[d].inbox /\ mem'[d].bundle = mem[d].bundle
    /\ mem'[d].card = mem[d].card /\ mem'[d].id = mem[d].id

\* Entering provision.
LEMMA CallEffect ==
    ASSUME Typed, NEW d \in Device, NEW t \in Thread, Call(d, t)
    PROVE  /\ at[d][t].pc = "idle"
           /\ Typed' /\ OthersStay(d, t)
           /\ \A e \in Device \ {d} : mem'[e] = mem[e]
           /\ mem'[d].card = mem[d].card /\ mem'[d].id = mem[d].id
           /\ at'[d][t].list = {} /\ ~at'[d][t].ok
           /\ UNCHANGED <<store, relay, draws, faults>>
           /\ raced \subseteq raced'
           /\ \/ d \in raced' \/ Complete(d)
              \/ \A u \in Thread \ {t} : at[d][u].pc = "idle"
           /\ \/ /\ store[d].inbox # Missing
                 /\ at'[d][t].pc = "register" /\ ~at'[d][t].first
                 /\ mem'[d].inbox = store[d].inbox /\ mem'[d].bundle = store[d].bundle
              \/ /\ store[d].inbox = Missing
                 /\ at'[d][t].pc = "create" /\ at'[d][t].first
                 /\ mem'[d].inbox = mem[d].inbox /\ mem'[d].bundle = mem[d].bundle
<1> DEFINE known == store[d].inbox # Missing
           pc == IF known THEN "register" ELSE "create"
           loc == [Idle EXCEPT !.pc = pc, !.first = ~known]
           i == IF known THEN store[d].inbox ELSE mem[d].inbox
           b == IF known THEN store[d].bundle ELSE mem[d].bundle
           k == mem[d].task /\ t # Worker
           c1 == [mem[d] EXCEPT !.task = k]
           c2 == [c1 EXCEPT !.inbox = i]
           c == [c2 EXCEPT !.bundle = b]
<1>1. store[d] \in StoreRec /\ mem[d] \in ClientRec /\ mem \in [Device -> ClientRec]
  BY DEF Typed
<1>2. i \in Number /\ b \in Number /\ k \in BOOLEAN
  BY <1>1 DEF StoreRec, ClientRec
<1>3. mem' = [mem EXCEPT ![d] = c]
  BY <1>1 DEF Call
<1> HIDE DEF i, b, k
<1>4. /\ c1 \in ClientRec /\ c1.card = mem[d].card /\ c1.id = mem[d].id
  BY <1>1, <1>2 DEF ClientRec
<1> HIDE DEF c1
<1>5. /\ c2 \in ClientRec /\ c2.card = mem[d].card /\ c2.id = mem[d].id /\ c2.inbox = i
  BY <1>2, <1>4 DEF ClientRec
<1> HIDE DEF c2
<1>6. /\ c \in ClientRec /\ c.card = mem[d].card /\ c.id = mem[d].id /\ c.inbox = i
      /\ c.bundle = b
  BY <1>2, <1>5 DEF ClientRec
<1> HIDE DEF c
<1>7. mem' \in [Device -> ClientRec] /\ mem'[d] = c /\ \A e \in Device \ {d} : mem'[e] = mem[e]
  BY <1>1, <1>3, <1>6
<1>8. /\ loc \in Location /\ loc.pc = pc /\ loc.first = ~known /\ loc.list = {}
      /\ ~loc.ok
  <2> DEFINE l == [Idle EXCEPT !.pc = pc]
  <2>2. pc \in Pc /\ (~known) \in BOOLEAN
    BY DEF Pc
  <2> HIDE DEF pc, known
  <2>3. l \in Location /\ l.pc = pc /\ l.list = {} /\ ~l.ok
    BY <2>2, IdlePlaces
  <2>4. loc = [l EXCEPT !.first = ~known]
    OBVIOUS
  <2> HIDE DEF l, loc
  <2> QED
    BY <2>2, <2>3, <2>4 DEF Location
<1>9. Goto(d, t, loc) /\ at[d][t].pc = "idle"
      /\ UNCHANGED <<store, relay, draws, faults>> /\ Meet(d, t)
  BY DEF Call, Here
<1> HIDE DEF loc
<1>12. /\ raced' \subseteq Device /\ raced \subseteq raced'
       /\ \/ d \in raced' \/ Complete(d)
          \/ \A u \in Thread \ {t} : at[d][u].pc = "idle"
  BY <1>9 DEF Meet, Here, Typed
<1>10. /\ at' \in [Device -> [Thread -> Location]] /\ at'[d][t] = loc /\ OthersStay(d, t)
  BY <1>8, <1>9, Moved DEF OthersStay
<1>11. Typed'
  BY <1>7, <1>9, <1>10, <1>12 DEF Typed
<1> QED
  BY <1>6, <1>7, <1>8, <1>9, <1>10, <1>11, <1>12 DEF i, b

\* A call to the relays costs a fault unless all answer.
LEMMA Answered ==
    ASSUME Typed, NEW S, Answer(S)
    PROVE  /\ S \in SUBSET Relay /\ faults' \in 0 .. MaxFaults
BY ProvisioningAssumption DEF Answer, Typed

\* The stored mailbox and prekeys go to the relays.
LEMMA RegisterEffect ==
    ASSUME Typed, NEW d \in Device, NEW t \in Thread, Register(d, t),
           mem[d].inbox # Missing
    PROVE  /\ at[d][t].pc = "register"
           /\ Typed' /\ OthersStay(d, t)
           /\ UNCHANGED <<store, mem, draws, raced>>
           /\ \A r \in Relay : /\ relay[r].boxes \subseteq relay'[r].boxes
                               /\ relay'[r].bundles = relay[r].bundles
                               /\ relay'[r].list = relay[r].list
           /\ at'[d][t].list = at[d][t].list /\ at'[d][t].first = at[d][t].first
           /\ \/ /\ at'[d][t].pc = "publish"
                 /\ store[d].prekeys # Missing /\ mem[d].bundle # Missing
                 /\ at'[d][t].prekeys = store[d].prekeys
                 /\ at'[d][t].bundle = mem[d].bundle
                 /\ at'[d][t].todo = Urls /\ at'[d][t].ok = at[d][t].ok
              \/ at'[d][t].pc = "card"
<1> DEFINE l == at[d][t]
           l1 == [l EXCEPT !.pc = "publish"]
           l2 == [l1 EXCEPT !.prekeys = store[d].prekeys]
           l3 == [l2 EXCEPT !.bundle = mem[d].bundle]
           l4 == [l3 EXCEPT !.todo = Urls]
           loc == IF store[d].prekeys # Missing /\ mem[d].bundle # Missing
                  THEN l4 ELSE [l EXCEPT !.pc = "card"]
<1>1. /\ l \in Location /\ store[d].prekeys \in Number /\ mem[d].bundle \in Number
      /\ mem[d].inbox \in Draw /\ Urls \in Seq(Relay)
  <2>1. store[d] \in StoreRec /\ mem[d] \in ClientRec /\ l \in Location
    BY DEF Typed
  <2> QED
    BY <2>1, ProvisioningAssumption, Draws DEF StoreRec, ClientRec, Relay
<1>2. PICK S \in SUBSET Relay : Answer(S) /\ relay' = WithMailbox(mem[d].inbox, S)
  BY DEF Register
<1>3. /\ l.pc = "register" /\ Goto(d, t, loc) /\ UNCHANGED <<store, mem, draws, raced>>
  BY DEF Register, Here
<1>4. l1 \in Location /\ l1.pc = "publish" /\ l1.list = l.list /\ l1.first = l.first /\ l1.ok = l.ok
  BY <1>1 DEF Location
<1>5. [l EXCEPT !.pc = "card"] \in Location /\ [l EXCEPT !.pc = "card"].pc = "card"
      /\ [l EXCEPT !.pc = "card"].list = l.list /\ [l EXCEPT !.pc = "card"].first = l.first
  BY <1>1 DEF Location
<1> HIDE DEF l1
<1>6. /\ l2 \in Location /\ l2.pc = "publish" /\ l2.list = l.list /\ l2.first = l.first
      /\ l2.ok = l.ok /\ l2.prekeys = store[d].prekeys
  BY <1>1, <1>4 DEF Location, Number
<1> HIDE DEF l2
<1>7. /\ l3 \in Location /\ l3.pc = "publish" /\ l3.list = l.list /\ l3.first = l.first
      /\ l3.ok = l.ok /\ l3.prekeys = store[d].prekeys /\ l3.bundle = mem[d].bundle
  BY <1>1, <1>6 DEF Location, Number
<1> HIDE DEF l3
<1>8. /\ l4 \in Location /\ l4.pc = "publish" /\ l4.list = l.list /\ l4.first = l.first
      /\ l4.ok = l.ok /\ l4.prekeys = store[d].prekeys /\ l4.bundle = mem[d].bundle
      /\ l4.todo = Urls
  BY <1>1, <1>7 DEF Location
<1> HIDE DEF l4
<1>9. loc \in Location
  BY <1>5, <1>8
<1>10. at' \in [Device -> [Thread -> Location]] /\ at'[d][t] = loc /\ OthersStay(d, t)
  <2> HIDE DEF loc
  <2> QED
    BY <1>3, <1>9, Moved DEF OthersStay
<1>11. /\ relay' \in [Relay -> RelayRec]
       /\ \A r \in Relay : /\ relay[r].boxes \subseteq relay'[r].boxes
                           /\ relay'[r].bundles = relay[r].bundles
                           /\ relay'[r].list = relay[r].list
  <2> DEFINE new == WithMailbox(mem[d].inbox, S)
  <2>1. /\ new \in [Relay -> RelayRec]
        /\ \A r \in Relay :
              /\ new[r].boxes =
                    IF r \in S THEN relay[r].boxes \cup {mem[d].inbox} ELSE relay[r].boxes
              /\ new[r].bundles = relay[r].bundles
              /\ new[r].list = relay[r].list
    BY <1>1, MailboxOnRelays
  <2>2. relay' = new
    BY <1>2
  <2> HIDE DEF new
  <2> QED
    BY <2>1, <2>2
<1>12. faults' \in 0 .. MaxFaults
  BY <1>2, Answered
<1>13. Typed'
  <2> HIDE DEF loc
  <2> QED
    BY <1>3, <1>10, <1>11, <1>12 DEF Typed
<1> QED
  BY <1>3, <1>5, <1>8, <1>10, <1>11, <1>12, <1>13

\* A new mailbox; provision raises when no relay takes it.
LEMMA CreateEffect ==
    ASSUME Typed, NEW d \in Device, NEW t \in Thread, Create(d, t)
    PROVE  /\ at[d][t].pc = "create"
           /\ Typed' /\ OthersStay(d, t)
           /\ UNCHANGED <<store, raced>> /\ draws' = draws + 1 /\ draws' \in Draw
           /\ \A e \in Device \ {d} : mem'[e] = mem[e]
           /\ mem'[d].card = mem[d].card /\ mem'[d].id = mem[d].id
           /\ \A r \in Relay : /\ relay[r].boxes \subseteq relay'[r].boxes
                               /\ relay'[r].bundles = relay[r].bundles
                               /\ relay'[r].list = relay[r].list
           /\ \/ /\ at'[d][t].pc = "idle" /\ at'[d][t].list = {} /\ mem' = mem
              \/ /\ at'[d][t].pc = "name" /\ at'[d][t].prekeys = draws'
                 /\ at'[d][t].first = at[d][t].first /\ at'[d][t].list = at[d][t].list
                 /\ at'[d][t].ok = at[d][t].ok
                 /\ mem'[d].inbox = draws' /\ mem'[d].bundle = mem[d].bundle
                 /\ \E r \in Relay : draws' \in relay'[r].boxes
<1> DEFINE l == at[d][t]
           n == draws + 1
           l1 == [l EXCEPT !.pc = "name"]
           loc == [l1 EXCEPT !.prekeys = n]
           c == [mem[d] EXCEPT !.inbox = n]
<1>1. /\ l \in Location /\ mem[d] \in ClientRec /\ mem \in [Device -> ClientRec]
      /\ draws \in Nat
  BY ProvisioningAssumption DEF Typed
<1>2. /\ l.pc = "create" /\ draws' = n /\ n \in Draw /\ n \in Number /\ n \in 0 .. MaxDraws
      /\ UNCHANGED <<store, raced>>
  BY <1>1, ProvisioningAssumption DEF Create, Here, Draw, Number, Typed
<1>3. PICK S \in SUBSET Relay :
         /\ Answer(S) /\ relay' = WithMailbox(n, S)
         /\ IF S = {} THEN Goto(d, t, Idle) /\ UNCHANGED mem
            ELSE Goto(d, t, loc) /\ mem' = [mem EXCEPT ![d] = c]
  BY <1>1, <1>2 DEF Create
<1> HIDE DEF n
<1>4. /\ relay' \in [Relay -> RelayRec]
      /\ \A r \in Relay :
            /\ relay'[r].boxes = IF r \in S THEN relay[r].boxes \cup {n} ELSE relay[r].boxes
            /\ relay'[r].bundles = relay[r].bundles
            /\ relay'[r].list = relay[r].list
  <2> DEFINE new == WithMailbox(n, S)
  <2>1. /\ new \in [Relay -> RelayRec]
        /\ \A r \in Relay :
              /\ new[r].boxes = IF r \in S THEN relay[r].boxes \cup {n} ELSE relay[r].boxes
              /\ new[r].bundles = relay[r].bundles
              /\ new[r].list = relay[r].list
    BY <1>2, MailboxOnRelays
  <2>2. relay' = new
    BY <1>3
  <2> HIDE DEF new
  <2> QED
    BY <2>1, <2>2
<1>5. faults' \in 0 .. MaxFaults
  BY <1>3, Answered
<1>6. /\ l1 \in Location /\ l1.pc = "name" /\ l1.first = l.first /\ l1.list = l.list
      /\ l1.ok = l.ok
  BY <1>1 DEF Location
<1> HIDE DEF l1
<1>7. /\ loc \in Location /\ loc.pc = "name" /\ loc.prekeys = n /\ loc.first = l.first
      /\ loc.list = l.list /\ loc.ok = l.ok
  BY <1>2, <1>6 DEF Location, Number
<1>9. /\ c \in ClientRec /\ c.inbox = n /\ c.bundle = mem[d].bundle /\ c.card = mem[d].card
      /\ c.id = mem[d].id
  BY <1>1, <1>2 DEF ClientRec
<1> HIDE DEF c, loc
<1>10. CASE S = {}
  <2>1. Goto(d, t, Idle) /\ mem' = mem
    BY <1>3, <1>10
  <2>2. Idle \in Location /\ Idle.pc = "idle" /\ Idle.list = {}
    <3>1. "idle" \in Pc
      BY DEF Pc
    <3> QED
      BY <3>1, IdlePlaces
  <2>3. at' \in [Device -> [Thread -> Location]] /\ at'[d][t] = Idle /\ OthersStay(d, t)
    BY <2>1, <2>2, Moved DEF OthersStay
  <2>4. Typed'
    BY <1>2, <1>4, <1>5, <2>1, <2>3 DEF Typed
  <2> QED
    BY <1>2, <1>4, <1>5, <2>1, <2>2, <2>3, <2>4 DEF n
<1>11. CASE S # {}
  <2>1. Goto(d, t, loc) /\ mem' = [mem EXCEPT ![d] = c]
    BY <1>3, <1>11
  <2>2. at' \in [Device -> [Thread -> Location]] /\ at'[d][t] = loc /\ OthersStay(d, t)
    BY <1>7, <2>1, Moved DEF OthersStay
  <2>3. mem' \in [Device -> ClientRec] /\ mem'[d] = c /\ \A e \in Device \ {d} : mem'[e] = mem[e]
    BY <1>1, <1>9, <2>1
  <2>4. Typed'
    BY <1>2, <1>4, <1>5, <2>2, <2>3 DEF Typed
  <2>5. \E r \in Relay : n \in relay'[r].boxes
    BY <1>4, <1>11
  <2> QED
    BY <1>2, <1>4, <1>5, <1>7, <1>9, <2>2, <2>3, <2>4, <2>5 DEF n
<1> QED
  BY <1>10, <1>11

\* A new bundle id.
LEMMA NewBundleEffect ==
    ASSUME Typed, NEW d \in Device, NEW t \in Thread, NewBundle(d, t)
    PROVE  /\ at[d][t].pc = "name"
           /\ Typed' /\ OthersStay(d, t)
           /\ UNCHANGED <<store, relay, draws, faults, raced>>
           /\ \A e \in Device \ {d} : mem'[e] = mem[e]
           /\ mem'[d].inbox = mem[d].inbox /\ mem'[d].bundle = at[d][t].prekeys
           /\ mem'[d].card = mem[d].card /\ mem'[d].id = mem[d].id
           /\ at'[d][t].pc = "save" /\ at'[d][t].prekeys = at[d][t].prekeys
           /\ at'[d][t].first = at[d][t].first /\ at'[d][t].list = at[d][t].list
           /\ at'[d][t].ok = at[d][t].ok
<1> DEFINE l == at[d][t]
           c == [mem[d] EXCEPT !.bundle = l.prekeys]
           loc == [l EXCEPT !.pc = "save"]
<1>1. /\ l \in Location /\ mem \in [Device -> ClientRec] /\ mem[d] \in ClientRec
      /\ l.prekeys \in Number
  BY LocationFields DEF Typed
<1>2. /\ l.pc = "name" /\ mem' = [mem EXCEPT ![d] = c] /\ Goto(d, t, loc)
      /\ UNCHANGED <<store, relay, draws, faults, raced>>
  BY <1>1 DEF NewBundle, Here
<1>3. /\ c \in ClientRec /\ c.inbox = mem[d].inbox /\ c.bundle = l.prekeys
      /\ c.card = mem[d].card /\ c.id = mem[d].id
  BY <1>1 DEF ClientRec
<1>4. /\ loc \in Location /\ loc.pc = "save" /\ loc.prekeys = l.prekeys
      /\ loc.first = l.first /\ loc.list = l.list /\ loc.ok = l.ok
  BY <1>1 DEF Location
<1> HIDE DEF c, loc
<1>5. at' \in [Device -> [Thread -> Location]] /\ at'[d][t] = loc /\ OthersStay(d, t)
  BY <1>2, <1>4, Moved DEF OthersStay
<1>6. /\ mem' \in [Device -> ClientRec] /\ mem'[d] = c
      /\ \A e \in Device \ {d} : mem'[e] = mem[e]
  BY <1>1, <1>2, <1>3
<1>7. Typed'
  BY <1>2, <1>5, <1>6 DEF Typed
<1> QED
  BY <1>2, <1>3, <1>4, <1>5, <1>6, <1>7

\* The prekeys are stored, and the bundle is about to be published.
LEMMA SavePrekeysEffect ==
    ASSUME Typed, NEW d \in Device, NEW t \in Thread, SavePrekeys(d, t)
    PROVE  /\ at[d][t].pc = "save"
           /\ Typed' /\ OthersStay(d, t)
           /\ UNCHANGED <<mem, relay, draws, faults, raced>>
           /\ \A e \in Device \ {d} : store'[e] = store[e]
           /\ store'[d].inbox = store[d].inbox /\ store'[d].bundle = store[d].bundle
           /\ store'[d].id = store[d].id /\ store'[d].prekeys = at[d][t].prekeys
           /\ \/ at'[d][t].pc = "idle" /\ at'[d][t].list = {} /\ mem[d].bundle = Missing
              \/ /\ at'[d][t].pc = "publish" /\ mem[d].bundle # Missing
                 /\ at'[d][t].prekeys = at[d][t].prekeys
                 /\ at'[d][t].bundle = mem[d].bundle
                 /\ at'[d][t].todo = Urls /\ at'[d][t].ok = at[d][t].ok
                 /\ at'[d][t].list = at[d][t].list /\ at'[d][t].first = at[d][t].first
<1> DEFINE l == at[d][t]
           l1 == [l EXCEPT !.pc = "publish"]
           l2 == [l1 EXCEPT !.bundle = mem[d].bundle]
           l3 == [l2 EXCEPT !.todo = Urls]
           s == [store[d] EXCEPT !.prekeys = l.prekeys]
<1>1. /\ l \in Location /\ mem[d].bundle \in Number /\ l.prekeys \in Number
      /\ Urls \in Seq(Relay) /\ store \in [Device -> StoreRec] /\ store[d] \in StoreRec
  <2>1. store[d] \in StoreRec /\ mem[d] \in ClientRec /\ l \in Location
    BY DEF Typed
  <2> QED
    BY <2>1, ProvisioningAssumption, LocationFields DEF ClientRec, Relay, Typed
<1>2. /\ l.pc = "save" /\ store' = [store EXCEPT ![d] = s]
      /\ Goto(d, t, IF mem[d].bundle = Missing THEN Idle ELSE l3)
      /\ UNCHANGED <<mem, relay, draws, faults, raced>>
  BY <1>1 DEF SavePrekeys, Here
<1>3. s \in StoreRec /\ s.inbox = store[d].inbox /\ s.bundle = store[d].bundle
      /\ s.id = store[d].id /\ s.prekeys = l.prekeys
  BY <1>1 DEF StoreRec
<1>4. /\ l1 \in Location /\ l1.pc = "publish" /\ l1.list = l.list /\ l1.first = l.first
      /\ l1.ok = l.ok /\ l1.prekeys = l.prekeys
  BY <1>1 DEF Location
<1> HIDE DEF l1, s
<1>5. /\ l2 \in Location /\ l2.pc = "publish" /\ l2.list = l.list /\ l2.first = l.first
      /\ l2.ok = l.ok /\ l2.prekeys = l.prekeys /\ l2.bundle = mem[d].bundle
  BY <1>1, <1>4 DEF Location, Number
<1> HIDE DEF l2
<1>6. /\ l3 \in Location /\ l3.pc = "publish" /\ l3.list = l.list /\ l3.first = l.first
      /\ l3.ok = l.ok /\ l3.prekeys = l.prekeys /\ l3.bundle = mem[d].bundle
      /\ l3.todo = Urls
  BY <1>1, <1>5 DEF Location
<1> HIDE DEF l3
<1>7. Idle \in Location /\ Idle.pc = "idle" /\ Idle.list = {}
  <2>1. "idle" \in Pc
    BY DEF Pc
  <2> QED
    BY <2>1, IdlePlaces
<1>8. PICK loc \in Location :
         /\ loc = IF mem[d].bundle = Missing THEN Idle ELSE l3
         /\ Goto(d, t, loc)
  BY <1>2, <1>6, <1>7
<1>9. at' \in [Device -> [Thread -> Location]] /\ at'[d][t] = loc /\ OthersStay(d, t)
  BY <1>8, Moved DEF OthersStay
<1>10. /\ store' \in [Device -> StoreRec] /\ store'[d] = s
       /\ \A e \in Device \ {d} : store'[e] = store[e]
  BY <1>1, <1>2, <1>3
<1>11. Typed'
  BY <1>2, <1>9, <1>10 DEF Typed
<1> QED
  BY <1>2, <1>3, <1>6, <1>7, <1>8, <1>9, <1>10, <1>11

PublishedNext(n) == \E r \in Relay : relay'[r].bundles[n] # NoBundle

\* The bundle on the next relay: the record there is this one, or another thread's with
\* its one-time prekeys.
LEMMA PublishBundleEffect ==
    ASSUME Typed, NEW d \in Device, NEW t \in Thread, PublishBundle(d, t),
           at[d][t].todo # <<>>, at[d][t].bundle # Missing, at[d][t].prekeys # Missing
    PROVE  /\ at[d][t].pc = "publish"
           /\ Typed' /\ OthersStay(d, t)
           /\ UNCHANGED <<store, mem, draws, raced>>
           /\ \A q \in Relay : /\ relay'[q].boxes = relay[q].boxes
                               /\ relay'[q].list = relay[q].list
           /\ \A q \in Relay, m \in Draw :
                 \/ relay'[q].bundles[m] = relay[q].bundles[m]
                 \/ /\ m = at[d][t].bundle
                    /\ relay'[q].bundles[m] =
                          [spk |-> at[d][t].prekeys,
                           opks |-> IF relay[q].bundles[m] = NoBundle THEN at[d][t].prekeys
                                    ELSE relay[q].bundles[m].opks]
           /\ \/ /\ at'[d][t].pc = "publish" /\ at'[d][t].first = at[d][t].first
                 /\ at'[d][t].bundle = at[d][t].bundle
                 /\ at'[d][t].prekeys = at[d][t].prekeys
                 /\ at'[d][t].list = at[d][t].list /\ at'[d][t].todo # <<>>
                 /\ at'[d][t].ok => at[d][t].ok \/ PublishedNext(at[d][t].bundle)
              \/ at'[d][t].pc = "card" /\ at'[d][t].list = {} /\ ~at[d][t].first
              \/ /\ at'[d][t].pc = "inbox" /\ at'[d][t].list = {} /\ at[d][t].first
                 /\ at[d][t].ok \/ PublishedNext(at[d][t].bundle)
              \/ at'[d][t].pc = "idle" /\ at'[d][t].list = {} /\ at[d][t].first
<1>0. PICK l \in Location : l = at[d][t]
  BY DEF Typed
<1>1. PICK r \in Relay, rest \in Seq(Relay) : r = Head(l.todo) /\ rest = Tail(l.todo)
  <2>1. l.todo \in Seq(Relay) /\ l.todo # <<>>
    BY <1>0, LocationFields
  <2>2. Head(l.todo) \in Relay /\ Tail(l.todo) \in Seq(Relay)
    BY <2>1
  <2> QED
    BY <2>2
<1>2. PICK n \in Draw, p \in Draw : n = l.bundle /\ p = l.prekeys
  BY <1>0, LocationFields, Draws
<1>3. PICK S \in {Relay, Relay \ {r}} :
         /\ Answer(S)
         /\ LET ok == l.ok \/ r \in S IN
            /\ relay' = IF r \in S THEN WithBundle(r, n, p) ELSE relay
            /\ Goto(d, t,
                    IF rest # <<>> THEN [l EXCEPT !.todo = rest, !.ok = ok]
                    ELSE IF ~l.first THEN [Idle EXCEPT !.pc = "card"]
                    ELSE IF ok THEN [Idle EXCEPT !.pc = "inbox"] ELSE Idle)
  BY <1>0, <1>1, <1>2 DEF PublishBundle
<1>4. /\ l.pc = "publish" /\ UNCHANGED <<store, mem, draws, raced>>
  BY <1>0 DEF PublishBundle, Here
<1>5. faults' \in 0 .. MaxFaults
  BY <1>3, Answered
<1>6. /\ relay' \in [Relay -> RelayRec]
      /\ \A q \in Relay : /\ relay'[q].boxes = relay[q].boxes
                          /\ relay'[q].list = relay[q].list
      /\ \A q \in Relay, m \in Draw :
            \/ relay'[q].bundles[m] = relay[q].bundles[m]
            \/ /\ m = n
               /\ relay'[q].bundles[m] =
                     [spk |-> p, opks |-> IF relay[q].bundles[m] = NoBundle THEN p
                                          ELSE relay[q].bundles[m].opks]
      /\ r \in S => relay'[r].bundles[n].spk = p
  <2>1. CASE r \in S
    <3> DEFINE new == WithBundle(r, n, p)
    <3>1. /\ new \in [Relay -> RelayRec]
          /\ \A q \in Relay :
                /\ new[q].boxes = relay[q].boxes
                /\ new[q].list = relay[q].list
                /\ \A m \in Draw :
                      new[q].bundles[m] =
                         IF q = r /\ m = n
                         THEN [spk |-> p, opks |-> IF relay[r].bundles[n] = NoBundle
                                                   THEN p ELSE relay[r].bundles[n].opks]
                         ELSE relay[q].bundles[m]
      BY BundleOnRelay
    <3>2. relay' = new
      BY <1>3, <2>1
    <3> HIDE DEF new
    <3> QED
      BY <3>1, <3>2
  <2>2. CASE r \notin S
    <3>1. relay' = relay
      BY <1>3, <2>2
    <3> QED
      BY <2>2, <3>1 DEF Typed
  <2> QED
    BY <2>1, <2>2
<1>7. r \in S => PublishedNext(n)
  <2>1. ASSUME r \in S PROVE relay'[r].bundles[n] # NoBundle
    BY <1>6, <2>1, Draws DEF NoBundle
  <2> QED
    BY <2>1 DEF PublishedNext
<1>8. PICK ok \in BOOLEAN : ok = (l.ok \/ r \in S)
  OBVIOUS
<1> DEFINE l1 == [l EXCEPT !.todo = rest]
           l2 == [l1 EXCEPT !.ok = ok]
<1>9. /\ l1 \in Location /\ l1.pc = l.pc /\ l1.first = l.first /\ l1.bundle = l.bundle
      /\ l1.prekeys = l.prekeys /\ l1.list = l.list /\ l1.todo = rest
  BY DEF Location
<1> HIDE DEF l1
<1>10. /\ l2 \in Location /\ l2.pc = l.pc /\ l2.first = l.first /\ l2.bundle = l.bundle
       /\ l2.prekeys = l.prekeys /\ l2.list = l.list /\ l2.todo = rest /\ l2.ok = ok
  BY <1>9 DEF Location
<1>11. /\ Idle \in Location /\ Idle.pc = "idle" /\ Idle.list = {}
       /\ [Idle EXCEPT !.pc = "card"] \in Location
       /\ [Idle EXCEPT !.pc = "card"].pc = "card" /\ [Idle EXCEPT !.pc = "card"].list = {}
       /\ [Idle EXCEPT !.pc = "inbox"] \in Location
       /\ [Idle EXCEPT !.pc = "inbox"].pc = "inbox" /\ [Idle EXCEPT !.pc = "inbox"].list = {}
  <2>1. "card" \in Pc /\ "inbox" \in Pc
    BY DEF Pc
  <2> QED
    BY <2>1, IdlePlaces
<1>12. PICK loc \in Location :
          /\ Goto(d, t, loc)
          /\ loc = IF rest # <<>> THEN l2
                   ELSE IF ~l.first THEN [Idle EXCEPT !.pc = "card"]
                   ELSE IF ok THEN [Idle EXCEPT !.pc = "inbox"] ELSE Idle
  <2>1. Goto(d, t, IF rest # <<>> THEN l2
                   ELSE IF ~l.first THEN [Idle EXCEPT !.pc = "card"]
                   ELSE IF ok THEN [Idle EXCEPT !.pc = "inbox"] ELSE Idle)
    BY <1>3, <1>8 DEF l1
  <2> HIDE DEF l2
  <2> QED
    BY <1>10, <1>11, <2>1
<1> HIDE DEF l2
<1>13. at' \in [Device -> [Thread -> Location]] /\ at'[d][t] = loc /\ OthersStay(d, t)
  BY <1>12, Moved DEF OthersStay
<1>14. Typed'
  BY <1>4, <1>5, <1>6, <1>13 DEF Typed
<1>15. \/ /\ loc.pc = "publish" /\ loc.first = l.first /\ loc.bundle = n /\ loc.prekeys = p
          /\ loc.list = l.list /\ loc.todo # <<>> /\ (loc.ok => l.ok \/ PublishedNext(n))
       \/ loc.pc = "card" /\ loc.list = {} /\ ~l.first
       \/ loc.pc = "inbox" /\ loc.list = {} /\ l.first /\ (l.ok \/ PublishedNext(n))
       \/ loc.pc = "idle" /\ loc.list = {} /\ l.first
  BY <1>2, <1>4, <1>7, <1>8, <1>10, <1>11, <1>12
<1> QED
  BY <1>0, <1>2, <1>4, <1>5, <1>6, <1>13, <1>14, <1>15

\* The two writes that make the draw permanent.
LEMMA SetInboxEffect ==
    ASSUME Typed, NEW d \in Device, NEW t \in Thread, SetInbox(d, t)
    PROVE  /\ at[d][t].pc = "inbox"
           /\ Typed' /\ OthersStay(d, t)
           /\ UNCHANGED <<mem, relay, draws, faults, raced>>
           /\ \A e \in Device \ {d} : store'[e] = store[e]
           /\ store'[d].inbox = mem[d].inbox /\ store'[d].bundle = store[d].bundle
           /\ store'[d].id = store[d].id /\ store'[d].prekeys = store[d].prekeys
           /\ at'[d][t].pc = "bundle" /\ at'[d][t].list = at[d][t].list
<1> DEFINE l == at[d][t]
           s == [store[d] EXCEPT !.inbox = mem[d].inbox]
           loc == [l EXCEPT !.pc = "bundle"]
<1>1. /\ l \in Location /\ store \in [Device -> StoreRec] /\ store[d] \in StoreRec
      /\ mem[d] \in ClientRec
  BY DEF Typed
<1>2. /\ l.pc = "inbox" /\ store' = [store EXCEPT ![d] = s] /\ Goto(d, t, loc)
      /\ UNCHANGED <<mem, relay, draws, faults, raced>>
  BY <1>1 DEF SetInbox, Here
<1>3. s \in StoreRec /\ s.inbox = mem[d].inbox /\ s.bundle = store[d].bundle
      /\ s.id = store[d].id /\ s.prekeys = store[d].prekeys
  BY <1>1 DEF StoreRec, ClientRec
<1>4. loc \in Location /\ loc.pc = "bundle" /\ loc.list = l.list
  BY <1>1 DEF Location
<1> HIDE DEF s, loc
<1>5. at' \in [Device -> [Thread -> Location]] /\ at'[d][t] = loc /\ OthersStay(d, t)
  BY <1>2, <1>4, Moved DEF OthersStay
<1>6. /\ store' \in [Device -> StoreRec] /\ store'[d] = s
      /\ \A e \in Device \ {d} : store'[e] = store[e]
  BY <1>1, <1>2, <1>3
<1>7. Typed'
  BY <1>2, <1>5, <1>6 DEF Typed
<1> QED
  BY <1>2, <1>3, <1>4, <1>5, <1>6, <1>7

\* The second of them.
LEMMA SetBundleEffect ==
    ASSUME Typed, NEW d \in Device, NEW t \in Thread, SetBundle(d, t)
    PROVE  /\ at[d][t].pc = "bundle"
           /\ Typed' /\ OthersStay(d, t)
           /\ UNCHANGED <<mem, relay, draws, faults, raced>>
           /\ \A e \in Device \ {d} : store'[e] = store[e]
           /\ store'[d].bundle = mem[d].bundle /\ store'[d].inbox = store[d].inbox
           /\ store'[d].id = store[d].id /\ store'[d].prekeys = store[d].prekeys
           /\ at'[d][t].pc = "card" /\ at'[d][t].list = at[d][t].list
<1> DEFINE l == at[d][t]
           s == [store[d] EXCEPT !.bundle = mem[d].bundle]
           loc == [l EXCEPT !.pc = "card"]
<1>1. /\ l \in Location /\ store \in [Device -> StoreRec] /\ store[d] \in StoreRec
      /\ mem[d] \in ClientRec
  BY DEF Typed
<1>2. /\ l.pc = "bundle" /\ store' = [store EXCEPT ![d] = s] /\ Goto(d, t, loc)
      /\ UNCHANGED <<mem, relay, draws, faults, raced>>
  BY <1>1 DEF SetBundle, Here
<1>3. s \in StoreRec /\ s.bundle = mem[d].bundle /\ s.inbox = store[d].inbox
      /\ s.id = store[d].id /\ s.prekeys = store[d].prekeys
  BY <1>1 DEF StoreRec, ClientRec
<1>4. loc \in Location /\ loc.pc = "card" /\ loc.list = l.list
  BY <1>1 DEF Location
<1> HIDE DEF s, loc
<1>5. at' \in [Device -> [Thread -> Location]] /\ at'[d][t] = loc /\ OthersStay(d, t)
  BY <1>2, <1>4, Moved DEF OthersStay
<1>6. /\ store' \in [Device -> StoreRec] /\ store'[d] = s
      /\ \A e \in Device \ {d} : store'[e] = store[e]
  BY <1>1, <1>2, <1>3
<1>7. Typed'
  BY <1>2, <1>5, <1>6 DEF Typed
<1> QED
  BY <1>2, <1>3, <1>4, <1>5, <1>6, <1>7

\* The card, when the assertion holds.
LEMMA CardEffect ==
    ASSUME Typed, NEW d \in Device, NEW t \in Thread, Card(d, t)
    PROVE  /\ at[d][t].pc = "card"
           /\ Typed' /\ OthersStay(d, t)
           /\ UNCHANGED <<store, relay, draws, faults, raced>>
           /\ \A e \in Device \ {d} : mem'[e] = mem[e]
           /\ mem'[d].inbox = mem[d].inbox /\ mem'[d].bundle = mem[d].bundle
           /\ mem'[d].id = mem[d].id
           /\ \/ /\ mem[d].inbox # Missing /\ mem[d].bundle # Missing /\ mem'[d].card
                 /\ at'[d][t].pc = "id" /\ at'[d][t].list = at[d][t].list
              \/ mem' = mem /\ at'[d][t].pc = "idle" /\ at'[d][t].list = {}
<1> DEFINE l == at[d][t]
           c == [mem[d] EXCEPT !.card = TRUE]
           loc == [l EXCEPT !.pc = "id"]
<1>1. l \in Location /\ mem \in [Device -> ClientRec] /\ mem[d] \in ClientRec
  BY DEF Typed
<1>2. /\ l.pc = "card" /\ UNCHANGED <<store, relay, draws, faults, raced>>
  BY DEF Card, Here
<1>3. CASE mem[d].inbox # Missing /\ mem[d].bundle # Missing
  <2>1. mem' = [mem EXCEPT ![d] = c] /\ Goto(d, t, loc)
    BY <1>1, <1>3 DEF Card
  <2>2. /\ c \in ClientRec /\ c.card /\ c.inbox = mem[d].inbox /\ c.bundle = mem[d].bundle
        /\ c.id = mem[d].id
    BY <1>1 DEF ClientRec
  <2>3. loc \in Location /\ loc.pc = "id" /\ loc.list = l.list
    BY <1>1 DEF Location
  <2> HIDE DEF c, loc
  <2>4. at' \in [Device -> [Thread -> Location]] /\ at'[d][t] = loc /\ OthersStay(d, t)
    BY <2>1, <2>3, Moved DEF OthersStay
  <2>5. /\ mem' \in [Device -> ClientRec] /\ mem'[d] = c
        /\ \A e \in Device \ {d} : mem'[e] = mem[e]
    BY <1>1, <2>1, <2>2
  <2>6. Typed'
    BY <1>2, <2>4, <2>5 DEF Typed
  <2> QED
    BY <1>2, <1>3, <2>2, <2>3, <2>4, <2>5, <2>6
<1>4. CASE ~(mem[d].inbox # Missing /\ mem[d].bundle # Missing)
  <2>1. mem' = mem /\ Goto(d, t, Idle)
    BY <1>4 DEF Card
  <2>2. Idle \in Location /\ Idle.pc = "idle" /\ Idle.list = {}
    <3>1. "idle" \in Pc
      BY DEF Pc
    <3> QED
      BY <3>1, IdlePlaces
  <2>3. at' \in [Device -> [Thread -> Location]] /\ at'[d][t] = Idle /\ OthersStay(d, t)
    BY <2>1, <2>2, Moved DEF OthersStay
  <2>4. Typed'
    BY <1>2, <2>1, <2>3 DEF Typed
  <2> QED
    BY <1>2, <2>1, <2>2, <2>3, <2>4
<1> QED
  BY <1>3, <1>4

\* The entry a thread is going to publish is the client's.
LEMMA AdvertiseEffect ==
    ASSUME Typed, NEW d \in Device, NEW t \in Thread, Advertise(d, t),
           mem[d].inbox # Missing, mem[d].id # Missing
    PROVE  /\ at' \in [Device -> [Thread -> Location]] /\ OthersStay(d, t)
           /\ \/ at'[d][t].pc = "idle" /\ mem[d].bundle = Missing /\ at'[d][t].list = {}
              \/ /\ at'[d][t].pc = "read" /\ mem[d].bundle # Missing
                 /\ at'[d][t].list = {DeviceEntry(d)}
<1> DEFINE l == at[d][t]
           e1 == DeviceEntry(d)
           l1 == [l EXCEPT !.pc = "read"]
           l2 == [l1 EXCEPT !.list = {e1}]
<1>1. /\ l \in Location /\ mem[d] \in ClientRec
  BY DEF Typed
<1>2. mem[d].id \in Draw /\ mem[d].inbox \in Draw /\ mem[d].bundle \in Number
  BY <1>1, Draws DEF ClientRec
<1>3. CASE mem[d].bundle = Missing
  <2>1. Goto(d, t, Idle)
    BY <1>3 DEF Advertise
  <2>2. Idle \in Location /\ Idle.pc = "idle" /\ Idle.list = {}
    <3>1. "idle" \in Pc
      BY DEF Pc
    <3> QED
      BY <3>1, IdlePlaces
  <2> QED
    BY <1>3, <2>1, <2>2, Moved DEF OthersStay
<1>4. CASE mem[d].bundle # Missing
  <2>1. {e1} \in DeviceList
    BY <1>2, <1>4, Draws DEF Entry, DeviceList, DeviceEntry
  <2>2. Goto(d, t, l2)
    BY <1>4 DEF Advertise
  <2> HIDE DEF e1
  <2>3. l1 \in Location /\ l1.pc = "read"
    BY <1>1 DEF Location
  <2> HIDE DEF l1
  <2>4. l2 \in Location /\ l2.pc = "read" /\ l2.list = {e1}
    BY <2>1, <2>3 DEF Location
  <2> HIDE DEF l2
  <2> QED
    BY <1>4, <2>2, <2>4, Moved DEF OthersStay, e1
<1> QED
  BY <1>3, <1>4

\* The device id of the client, the stored one, or a new one.
LEMMA DeviceIdEffect ==
    ASSUME Typed, NEW d \in Device, NEW t \in Thread, DeviceId(d, t),
           mem[d].inbox # Missing
    PROVE  /\ at[d][t].pc = "id"
           /\ Typed' /\ OthersStay(d, t)
           /\ UNCHANGED <<store, mem, relay, raced>> /\ draws <= draws'
           /\ \/ /\ mem[d].id # Missing /\ mem[d].bundle = Missing
                 /\ at'[d][t].pc = "idle" /\ at'[d][t].list = {}
              \/ /\ mem[d].id # Missing /\ mem[d].bundle # Missing
                 /\ at'[d][t].pc = "read" /\ at'[d][t].list = {DeviceEntry(d)}
              \/ /\ mem[d].id = Missing /\ at'[d][t].pc = "own" /\ at'[d][t].id # Missing
                 /\ at'[d][t].list = at[d][t].list
                 /\ store[d].id # Missing => at'[d][t].id = store[d].id
<1> DEFINE l == at[d][t]
           new == store[d].id = Missing
           id == IF new THEN draws + 1 ELSE store[d].id
           l1 == [l EXCEPT !.pc = "own"]
           loc == [l1 EXCEPT !.id = id]
<1>1. /\ l \in Location /\ store[d] \in StoreRec /\ draws \in 0 .. MaxDraws /\ draws \in Nat
  BY ProvisioningAssumption DEF Typed
<1>2. store[d].id \in Number
  BY <1>1 DEF StoreRec
<1>3. l.pc = "id" /\ UNCHANGED <<store, mem, relay, faults, raced>>
  BY DEF DeviceId, Here
<1>4. CASE mem[d].id # Missing
  <2>1. Advertise(d, t) /\ draws' = draws
    BY <1>4 DEF DeviceId
  <2>2. /\ at' \in [Device -> [Thread -> Location]] /\ OthersStay(d, t)
        /\ \/ at'[d][t].pc = "idle" /\ mem[d].bundle = Missing /\ at'[d][t].list = {}
           \/ /\ at'[d][t].pc = "read" /\ mem[d].bundle # Missing
              /\ at'[d][t].list = {DeviceEntry(d)}
    BY <1>4, <2>1, AdvertiseEffect
  <2>3. Typed'
    BY <1>3, <2>1, <2>2 DEF Typed
  <2> QED
    BY <1>1, <1>3, <1>4, <2>1, <2>2, <2>3
<1>5. CASE mem[d].id = Missing
  <2>1. /\ new => draws < MaxDraws
        /\ draws' = IF new THEN draws + 1 ELSE draws
        /\ Goto(d, t, loc)
    BY <1>5 DEF DeviceId
  <2>2. /\ id \in Draw /\ draws' \in 0 .. MaxDraws /\ draws <= draws' /\ id \in Number
        /\ store[d].id # Missing => id = store[d].id
    BY <1>1, <1>2, <2>1, ProvisioningAssumption, Draws DEF Draw, Number
  <2> HIDE DEF id, new
  <2>3. l1 \in Location /\ l1.pc = "own" /\ l1.list = l.list
    BY <1>1 DEF Location
  <2> HIDE DEF l1
  <2>4. loc \in Location /\ loc.pc = "own" /\ loc.id = id /\ loc.list = l.list
    BY <2>2, <2>3 DEF Location, Number
  <2> HIDE DEF loc
  <2>5. at' \in [Device -> [Thread -> Location]] /\ at'[d][t] = loc /\ OthersStay(d, t)
    BY <2>1, <2>4, Moved DEF OthersStay
  <2>6. Typed'
    BY <1>3, <2>2, <2>5 DEF Typed
  <2> QED
    BY <1>3, <1>5, <2>2, <2>4, <2>5, <2>6, Draws
<1> QED
  BY <1>4, <1>5

\* The client takes the id the thread came with.
LEMMA SetDeviceIdEffect ==
    ASSUME Typed, NEW d \in Device, NEW t \in Thread, SetDeviceId(d, t)
    PROVE  /\ at[d][t].pc = "own"
           /\ Typed' /\ OthersStay(d, t)
           /\ UNCHANGED <<store, relay, draws, raced>>
           /\ \A e \in Device \ {d} : mem'[e] = mem[e]
           /\ mem'[d].inbox = mem[d].inbox /\ mem'[d].bundle = mem[d].bundle
           /\ mem'[d].card = mem[d].card /\ mem'[d].id = at[d][t].id
           /\ at'[d][t].pc = "keep" /\ at'[d][t].list = at[d][t].list
<1> DEFINE l == at[d][t]
           c == [mem[d] EXCEPT !.id = l.id]
           loc == [l EXCEPT !.pc = "keep"]
<1>1. /\ l \in Location /\ mem \in [Device -> ClientRec] /\ mem[d] \in ClientRec
      /\ l.id \in Number
  BY LocationFields DEF Typed
<1>2. /\ l.pc = "own" /\ mem' = [mem EXCEPT ![d] = c] /\ Goto(d, t, loc)
      /\ UNCHANGED <<store, relay, draws, faults, raced>>
  BY <1>1 DEF SetDeviceId, Here
<1>3. /\ c \in ClientRec /\ c.inbox = mem[d].inbox /\ c.bundle = mem[d].bundle
      /\ c.card = mem[d].card /\ c.id = l.id
  BY <1>1 DEF ClientRec
<1>4. loc \in Location /\ loc.pc = "keep" /\ loc.list = l.list
  BY <1>1 DEF Location
<1> HIDE DEF c, loc
<1>5. at' \in [Device -> [Thread -> Location]] /\ at'[d][t] = loc /\ OthersStay(d, t)
  BY <1>2, <1>4, Moved DEF OthersStay
<1>6. /\ mem' \in [Device -> ClientRec] /\ mem'[d] = c
      /\ \A e \in Device \ {d} : mem'[e] = mem[e]
  BY <1>1, <1>2, <1>3
<1>7. Typed'
  BY <1>2, <1>5, <1>6 DEF Typed
<1> QED
  BY <1>2, <1>3, <1>4, <1>5, <1>6, <1>7

\* The id of the client is stored.
LEMMA KeepDeviceIdEffect ==
    ASSUME Typed, NEW d \in Device, NEW t \in Thread, KeepDeviceId(d, t),
           mem[d].inbox # Missing, mem[d].id # Missing
    PROVE  /\ at[d][t].pc = "keep"
           /\ Typed' /\ OthersStay(d, t)
           /\ UNCHANGED <<mem, relay, draws, raced>>
           /\ \A e \in Device \ {d} : store'[e] = store[e]
           /\ store'[d].inbox = store[d].inbox /\ store'[d].bundle = store[d].bundle
           /\ store'[d].prekeys = store[d].prekeys /\ store'[d].id = mem[d].id
           /\ \/ at'[d][t].pc = "idle" /\ mem[d].bundle = Missing /\ at'[d][t].list = {}
              \/ /\ at'[d][t].pc = "read" /\ mem[d].bundle # Missing
                 /\ at'[d][t].list = {DeviceEntry(d)}
<1> DEFINE s == [store[d] EXCEPT !.id = mem[d].id]
<1>1. /\ mem[d] \in ClientRec /\ store \in [Device -> StoreRec] /\ store[d] \in StoreRec
  BY DEF Typed
<1>2. /\ at[d][t].pc = "keep" /\ store' = [store EXCEPT ![d] = s] /\ Advertise(d, t)
      /\ UNCHANGED <<mem, relay, draws, faults, raced>>
  BY <1>1 DEF KeepDeviceId, Here
<1>3. s \in StoreRec /\ s.inbox = store[d].inbox /\ s.bundle = store[d].bundle
      /\ s.id = mem[d].id /\ s.prekeys = store[d].prekeys
  BY <1>1 DEF StoreRec, ClientRec
<1> HIDE DEF s
<1>4. /\ at' \in [Device -> [Thread -> Location]] /\ OthersStay(d, t)
      /\ \/ at'[d][t].pc = "idle" /\ mem[d].bundle = Missing /\ at'[d][t].list = {}
         \/ /\ at'[d][t].pc = "read" /\ mem[d].bundle # Missing
            /\ at'[d][t].list = {DeviceEntry(d)}
  BY <1>2, AdvertiseEffect
<1>5. /\ store' \in [Device -> StoreRec] /\ store'[d] = s
      /\ \A e \in Device \ {d} : store'[e] = store[e]
  BY <1>1, <1>2, <1>3
<1>6. Typed'
  BY <1>2, <1>4, <1>5 DEF Typed
<1> QED
  BY <1>2, <1>3, <1>4, <1>5, <1>6

\* Reading the list: the device is on it, or it is about to be published with it.
LEMMA ReadListEffect ==
    ASSUME Typed, NEW d \in Device, NEW t \in Thread, ReadList(d, t)
    PROVE  /\ at[d][t].pc = "read"
           /\ Typed' /\ OthersStay(d, t)
           /\ UNCHANGED <<store, mem, relay, draws, raced>>
           /\ \E S \in SUBSET Relay, entry \in at[d][t].list :
                 /\ \/ /\ entry \in FirstList(S)
                       /\ at'[d][t].pc = "idle" /\ at'[d][t].list = {}
                    \/ /\ at'[d][t].pc = "list" /\ at'[d][t].todo = Urls
                       /\ at'[d][t].list = WithDevice(FirstList(S), entry)
<1>1. PICK S \in SUBSET Relay, entry \in at[d][t].list :
         /\ Answer(S)
         /\ Goto(d, t,
                 IF entry \in FirstList(S) THEN Idle
                 ELSE [Idle EXCEPT !.pc = "list", !.todo = Urls,
                                   !.list = WithDevice(FirstList(S), entry)])
  BY DEF ReadList
<1>2. /\ at[d][t].pc = "read"
      /\ UNCHANGED <<store, mem, relay, draws, raced>>
  BY DEF ReadList, Here
<1>3. faults' \in 0 .. MaxFaults
  BY <1>1, Answered
<1> DEFINE list == WithDevice(FirstList(S), entry)
           l1 == [Idle EXCEPT !.pc = "list"]
           l2 == [l1 EXCEPT !.todo = Urls]
           l3 == [l2 EXCEPT !.list = list]
<1>4. list \in DeviceList
  <2>1. FirstList(S) \in DeviceList
    BY FirstListHeld
  <2>2. at[d][t].list \in DeviceList
    <3>1. at[d][t] \in Location
      BY DEF Typed
    <3> QED
      BY <3>1, LocationFields
  <2> QED
    BY <2>1, <2>2 DEF DeviceList, WithDevice
<1> HIDE DEF list
<1>5. /\ Idle \in Location /\ Idle.pc = "idle" /\ Idle.list = {}
      /\ l1 \in Location /\ l1.pc = "list"
  <2>1. "list" \in Pc
    BY DEF Pc
  <2> QED
    BY <2>1, IdlePlaces
<1>6. Goto(d, t, IF entry \in FirstList(S) THEN Idle ELSE l3)
  BY <1>1 DEF list
<1> HIDE DEF l1
<1>7. l2 \in Location /\ l2.pc = "list" /\ l2.todo = Urls
  <2>1. Urls \in Seq(Relay)
    BY ProvisioningAssumption DEF Relay
  <2> QED
    BY <1>5, <2>1 DEF Location
<1> HIDE DEF l2
<1>8. l3 \in Location /\ l3.pc = "list" /\ l3.todo = Urls /\ l3.list = list
  BY <1>4, <1>7 DEF Location
<1> HIDE DEF l3
<1>9. PICK loc \in Location :
         loc = (IF entry \in FirstList(S) THEN Idle ELSE l3) /\ Goto(d, t, loc)
  BY <1>5, <1>6, <1>8
<1>10. at' \in [Device -> [Thread -> Location]] /\ at'[d][t] = loc /\ OthersStay(d, t)
  BY <1>9, Moved DEF OthersStay
<1>11. Typed'
  BY <1>2, <1>3, <1>10 DEF Typed
<1>12. \/ /\ entry \in FirstList(S)
          /\ at'[d][t].pc = "idle" /\ at'[d][t].list = {}
       \/ /\ at'[d][t].pc = "list" /\ at'[d][t].todo = Urls
          /\ at'[d][t].list = WithDevice(FirstList(S), entry)
  BY <1>5, <1>8, <1>9, <1>10 DEF list
<1> QED
  BY <1>2, <1>10, <1>11, <1>12

\* What is left after the first of a list of relays.
LEMMA TailOfList ==
    ASSUME NEW q \in Seq(Relay), q # <<>>
    PROVE  /\ Tail(q) \in Seq(Relay) /\ Len(q) \in Nat
           /\ Len(q) # 1 => Tail(q) # <<>>
           /\ Len(Tail(q)) < Len(q)
<1>1. /\ Tail(q) \in Seq(Relay) /\ Len(q) \in Nat /\ Len(Tail(q)) = Len(q) - 1
  OBVIOUS
<1>2. Len(Tail(q)) < Len(q) /\ (Len(q) # 1 => Len(Tail(q)) # 0)
  BY <1>1
<1>3. Len(<<>>) = 0
  OBVIOUS
<1>4. Len(Tail(q)) # 0 => Tail(q) # <<>>
  BY <1>3, Zenon
<1> QED
  BY <1>1, <1>2, <1>4

\* The list on the next relay.
LEMMA PublishListEffect ==
    ASSUME Typed, NEW d \in Device, NEW t \in Thread, PublishList(d, t),
           at[d][t].todo # <<>>
    PROVE  /\ at[d][t].pc = "list"
           /\ Typed' /\ OthersStay(d, t)
           /\ UNCHANGED <<store, draws, raced>>
           /\ \A e \in Device \ {d} : mem'[e] = mem[e]
           /\ ClientKept(d)
           /\ \A q \in Relay : /\ relay'[q].boxes = relay[q].boxes
                               /\ relay'[q].bundles = relay[q].bundles
                               /\ relay'[q].list \in {relay[q].list, at[d][t].list}
                               /\ q # Head(at[d][t].todo) => relay'[q].list = relay[q].list
           /\ \/ at'[d][t].pc = "keys" /\ at'[d][t].list = {}
              \/ /\ at'[d][t].pc = "list" /\ at'[d][t].list = at[d][t].list
                 /\ at'[d][t].todo # <<>> /\ Len(at'[d][t].todo) < Len(at[d][t].todo)
<1>0. PICK l \in Location : l = at[d][t]
  BY DEF Typed
<1>1. /\ l.todo \in Seq(Relay) /\ l.todo # <<>> /\ Tail(l.todo) \in Seq(Relay)
      /\ l.list \in DeviceList /\ Len(l.todo) \in Nat
      /\ Len(l.todo) # 1 => Tail(l.todo) # <<>>
      /\ Len(Tail(l.todo)) < Len(l.todo)
  <2>1. l.todo \in Seq(Relay) /\ l.todo # <<>> /\ l.list \in DeviceList
    BY <1>0, LocationFields
  <2> QED
    BY <2>1, TailOfList
<1>2. PICK r \in Relay : r = Head(l.todo)
  <2>1. Head(l.todo) \in Relay
    BY <1>1
  <2> QED
    BY <2>1
<1>3. PICK S \in {Relay, Relay \ {r}} :
         /\ Answer(S)
         /\ relay' = IF r \in S THEN [relay EXCEPT ![r].list = l.list] ELSE relay
  BY <1>0, <1>2 DEF PublishList
<1>4. /\ l.pc = "list" /\ UNCHANGED <<store, draws, raced>>
      /\ IF Len(l.todo) = 1
         THEN /\ mem' = [mem EXCEPT ![d].cache = l.list]
              /\ Goto(d, t, [Idle EXCEPT !.pc = "keys"])
         ELSE Goto(d, t, [l EXCEPT !.todo = Tail(l.todo)]) /\ mem' = mem
  BY <1>0 DEF PublishList, Here
<1>5. faults' \in 0 .. MaxFaults
  BY <1>3, Answered
<1>6. /\ relay' \in [Relay -> RelayRec]
      /\ \A q \in Relay : /\ relay'[q].boxes = relay[q].boxes
                          /\ relay'[q].bundles = relay[q].bundles
                          /\ relay'[q].list \in {relay[q].list, l.list}
                          /\ q # r => relay'[q].list = relay[q].list
      /\ r \in S => relay'[r].list = l.list
  <2>1. CASE r \in S
    <3> DEFINE new == [relay EXCEPT ![r].list = l.list]
    <3>1. /\ new \in [Relay -> RelayRec]
          /\ \A q \in Relay : /\ new[q].boxes = relay[q].boxes
                              /\ new[q].bundles = relay[q].bundles
                              /\ new[q].list = IF q = r THEN l.list ELSE relay[q].list
      BY <1>1, ListOnRelay
    <3>2. relay' = new
      BY <1>3, <2>1
    <3> HIDE DEF new
    <3> QED
      BY <3>1, <3>2
  <2>2. CASE r \notin S
    BY <1>3, <2>2 DEF Typed
  <2> QED
    BY <2>1, <2>2
<1>8. mem \in [Device -> ClientRec] /\ mem[d] \in ClientRec
  BY DEF Typed
<1>9. CASE Len(l.todo) = 1
  <2> DEFINE c == [mem[d] EXCEPT !.cache = l.list]
             loc == [Idle EXCEPT !.pc = "keys"]
  <2>1. mem' = [mem EXCEPT ![d] = c] /\ Goto(d, t, loc)
    BY <1>4, <1>8, <1>9
  <2>2. /\ c \in ClientRec /\ c.inbox = mem[d].inbox /\ c.bundle = mem[d].bundle
        /\ c.card = mem[d].card /\ c.id = mem[d].id
    BY <1>1, <1>8 DEF ClientRec
  <2>3. loc \in Location /\ loc.pc = "keys" /\ loc.list = {}
    <3>1. "keys" \in Pc
      BY DEF Pc
    <3> QED
      BY <3>1, IdlePlaces
  <2> HIDE DEF c, loc
  <2>4. at' \in [Device -> [Thread -> Location]] /\ at'[d][t] = loc /\ OthersStay(d, t)
    BY <2>1, <2>3, Moved DEF OthersStay
  <2>5. /\ mem' \in [Device -> ClientRec] /\ mem'[d] = c
        /\ \A e \in Device \ {d} : mem'[e] = mem[e]
    BY <1>8, <2>1, <2>2
  <2>6. Typed'
    BY <1>4, <1>5, <1>6, <2>4, <2>5 DEF Typed
  <2>7. ClientKept(d)
    BY <2>2, <2>5 DEF ClientKept
  <2> QED
    BY <1>0, <1>2, <1>4, <1>5, <1>6, <2>3, <2>4, <2>5, <2>6, <2>7
<1>10. CASE Len(l.todo) # 1
  <2> DEFINE loc == [l EXCEPT !.todo = Tail(l.todo)]
  <2>1. mem' = mem /\ Goto(d, t, loc)
    BY <1>4, <1>10
  <2>2. loc \in Location /\ loc.pc = "list" /\ loc.list = l.list /\ loc.todo = Tail(l.todo)
    BY <1>1, <1>4 DEF Location
  <2> HIDE DEF loc
  <2>3. at' \in [Device -> [Thread -> Location]] /\ at'[d][t] = loc /\ OthersStay(d, t)
    BY <2>1, <2>2, Moved DEF OthersStay
  <2>4. Typed'
    BY <1>4, <1>5, <1>6, <2>1, <2>3 DEF Typed
  <2>5. /\ at'[d][t].pc = "list" /\ at'[d][t].list = l.list
        /\ at'[d][t].todo # <<>> /\ Len(at'[d][t].todo) < Len(l.todo)
    BY <1>1, <1>10, <2>2, <2>3
  <2>6. ClientKept(d)
    BY <2>1 DEF ClientKept
  <2> QED
    BY <1>0, <1>2, <1>4, <1>5, <1>6, <2>1, <2>3, <2>4, <2>5, <2>6
<1> QED
  BY <1>9, <1>10

\* The sync keys: nothing the other records depend on changes.
LEMMA PublishKeysEffect ==
    ASSUME Typed, NEW d \in Device, NEW t \in Thread, PublishKeys(d, t),
           mem[d].id # Missing
    PROVE  /\ at[d][t].pc = "keys"
           /\ Typed' /\ OthersStay(d, t)
           /\ UNCHANGED <<mem, raced>> /\ draws <= draws'
           /\ \A e \in Device \ {d} : store'[e] = store[e]
           /\ store'[d].inbox = store[d].inbox /\ store'[d].bundle = store[d].bundle
           /\ store'[d].id = store[d].id /\ store'[d].prekeys = store[d].prekeys
           /\ \A q \in Relay : /\ relay'[q].boxes = relay[q].boxes
                               /\ relay'[q].bundles = relay[q].bundles
                               /\ relay'[q].list = relay[q].list
           /\ at'[d][t].pc = "idle" /\ at'[d][t].list = {}
<1> DEFINE new == store[d].keys = Missing
           keys == IF new THEN draws + 1 ELSE store[d].keys
           s == [store[d] EXCEPT !.keys = keys]
<1>1. /\ mem[d] \in ClientRec /\ store \in [Device -> StoreRec] /\ store[d] \in StoreRec
      /\ draws \in 0 .. MaxDraws /\ draws \in Nat
  BY ProvisioningAssumption DEF Typed
<1>2. mem[d].id \in Draw /\ store[d].keys \in Number
  BY <1>1, Draws DEF ClientRec, StoreRec
<1>3. /\ at[d][t].pc = "keys" /\ (new => draws < MaxDraws)
      /\ draws' = IF new THEN draws + 1 ELSE draws
      /\ store' = [store EXCEPT ![d] = s] /\ Goto(d, t, Idle)
      /\ UNCHANGED <<mem, raced>>
  BY <1>1 DEF PublishKeys, Here
<1>4. PICK S \in SUBSET Relay :
         /\ Answer(S)
         /\ relay' = [r \in Relay |->
                        IF r \notin S THEN relay[r]
                        ELSE [relay[r] EXCEPT !.keys =
                                {k \in @ : k.id # mem[d].id}
                                    \cup {[id |-> mem[d].id, keys |-> keys]}]]
  BY DEF PublishKeys
<1>5. keys \in Draw /\ keys \in Number /\ draws' \in 0 .. MaxDraws /\ draws <= draws'
  BY <1>1, <1>2, <1>3, ProvisioningAssumption, Draws DEF Draw, Number
<1> HIDE DEF keys, new
<1>6. /\ s \in StoreRec /\ s.inbox = store[d].inbox /\ s.bundle = store[d].bundle
      /\ s.id = store[d].id /\ s.prekeys = store[d].prekeys
  BY <1>1, <1>5 DEF StoreRec
<1> HIDE DEF s
<1>7. /\ store' \in [Device -> StoreRec] /\ store'[d] = s
      /\ \A e \in Device \ {d} : store'[e] = store[e]
  BY <1>1, <1>3, <1>6
<1>8. faults' \in 0 .. MaxFaults
  BY <1>4, Answered
<1>9. /\ relay' \in [Relay -> RelayRec]
      /\ \A q \in Relay : /\ relay'[q].boxes = relay[q].boxes
                          /\ relay'[q].bundles = relay[q].bundles
                          /\ relay'[q].list = relay[q].list
  <2> DEFINE R == [r \in Relay |->
                      IF r \notin S THEN relay[r]
                      ELSE [relay[r] EXCEPT !.keys =
                              {k \in @ : k.id # mem[d].id}
                                  \cup {[id |-> mem[d].id, keys |-> keys]}]]
  <2>1. /\ R \in [Relay -> RelayRec]
        /\ \A q \in Relay : /\ R[q].boxes = relay[q].boxes
                            /\ R[q].bundles = relay[q].bundles
                            /\ R[q].list = relay[q].list
    BY <1>2, <1>5, KeysOnRelays
  <2>2. relay' = R
    BY <1>4
  <2> HIDE DEF R
  <2> QED
    BY <2>1, <2>2
<1>10. Idle \in Location /\ Idle.pc = "idle" /\ Idle.list = {}
  <2>1. "idle" \in Pc
    BY DEF Pc
  <2> QED
    BY <2>1, IdlePlaces
<1>11. at' \in [Device -> [Thread -> Location]] /\ at'[d][t] = Idle /\ OthersStay(d, t)
  BY <1>3, <1>10, Moved DEF OthersStay
<1>12. Typed'
  BY <1>3, <1>5, <1>7, <1>8, <1>9, <1>11 DEF Typed
<1> QED
  BY <1>3, <1>5, <1>6, <1>7, <1>8, <1>9, <1>10, <1>11, <1>12

\* The end of a process: the store and the relays stay, its threads start over.
LEMMA CrashEffect ==
    ASSUME Typed, NEW d \in Device, Crash(d)
    PROVE  /\ Typed'
           /\ UNCHANGED <<store, relay, draws, raced>>
           /\ \A e \in Device \ {d} : mem'[e] = mem[e] /\ at'[e] = at[e]
           /\ mem'[d].inbox = Missing /\ mem'[d].bundle = Missing /\ mem'[d].id = Missing
           /\ ~mem'[d].card
           /\ \A t \in Thread : at'[d][t] = Idle
           /\ Idle.pc = "idle" /\ Idle.list = {}
<1>1. /\ mem' = [mem EXCEPT ![d] = NewClient]
      /\ at' = [at EXCEPT ![d] = [t \in Thread |-> Idle]]
      /\ faults < MaxFaults /\ faults' = faults + 1
      /\ UNCHANGED <<store, relay, draws, raced>>
  BY DEF Crash
<1>2. Idle \in Location /\ Idle.pc = "idle" /\ Idle.list = {}
  <2>1. "idle" \in Pc
    BY DEF Pc
  <2> QED
    BY <2>1, IdlePlaces
<1>3. /\ NewClient \in ClientRec /\ NewClient.inbox = Missing
      /\ NewClient.bundle = Missing /\ NewClient.id = Missing /\ ~NewClient.card
  BY DEF NewClient, ClientRec, Number, DeviceList
<1>4. faults' \in 0 .. MaxFaults
  BY <1>1, ProvisioningAssumption DEF Typed
<1>5. /\ mem' \in [Device -> ClientRec] /\ mem'[d] = NewClient
      /\ \A e \in Device \ {d} : mem'[e] = mem[e]
  BY <1>1, <1>3 DEF Typed
<1>6. /\ at' \in [Device -> [Thread -> Location]]
      /\ \A t \in Thread : at'[d][t] = Idle
      /\ \A e \in Device \ {d} : at'[e] = at[e]
  BY <1>1, <1>2 DEF Typed
<1>7. Typed'
  BY <1>1, <1>4, <1>5, <1>6 DEF Typed
<1> QED
  BY <1>1, <1>2, <1>3, <1>5, <1>6, <1>7

-----------------------------------------------------------------------------
(* Types, for any number of threads.                                       *)

\* A client that has a mailbox or an id keeps one until the process ends.
LEMMA PlacesStay ==
    ASSUME Typed, PlacesInv, NEW d \in Device, NEW t \in Thread, OthersStay(d, t),
           \A e \in Device \ {d} : mem'[e] = mem[e],
           mem[d].inbox # Missing => mem'[d].inbox # Missing,
           mem[d].id # Missing => mem'[d].id # Missing,
           PlaceOK(d, t)'
    PROVE  PlacesInv'
<1> SUFFICES ASSUME NEW e \in Device, NEW u \in Thread
             PROVE  PlaceOK(e, u)'
  BY DEF PlacesInv, PlaceOK
<1>1. CASE e = d /\ u = t
  BY <1>1
<1>2. CASE e # d \/ u # t
  <2>1. at'[e][u] = at[e][u]
    BY <1>2 DEF OthersStay
  <2>2. /\ mem[e].inbox # Missing => mem'[e].inbox # Missing
        /\ mem[e].id # Missing => mem'[e].id # Missing
    OBVIOUS
  <2>3. PlaceOK(e, u)
    BY DEF PlacesInv, PlaceOK
  <2> QED
    BY <2>1, <2>2, <2>3 DEF PlaceOK
<1> QED
  BY <1>1, <1>2

\* Every step keeps the types.
LEMMA TypeInvStep ==
    ASSUME TypeInv, [Next]_vars
    PROVE  TypeInv'
<1> SUFFICES Typed' /\ PlacesInv'
  <2>1. Typed' <=> TypeOK'
    BY TypedIsTypeOK, PTL
  <2> QED
    BY <2>1 DEF TypeInv
<1>0. Typed /\ PlacesInv /\ Urls # <<>>
  BY TypedIsTypeOK, ProvisioningAssumption DEF TypeInv
<1>1. ASSUME NEW d \in Device, NEW t \in Thread, Provision(d, t)
      PROVE  Typed' /\ PlacesInv'
  <2>0. PlaceOK(d, t)
    BY <1>0 DEF PlacesInv, PlaceOK
  <2>1. CASE Call(d, t)
    BY <1>0, <2>1, CallEffect, PlacesStay DEF PlaceOK
  <2>2. CASE Register(d, t)
    <3>1. mem[d].inbox # Missing
      BY <2>0, <2>2 DEF PlaceOK, Register, Here
    <3>2. /\ Typed' /\ OthersStay(d, t) /\ mem' = mem
          /\ \/ /\ at'[d][t].pc = "publish"
                /\ store[d].prekeys # Missing /\ mem[d].bundle # Missing
                /\ at'[d][t].prekeys = store[d].prekeys
                /\ at'[d][t].bundle = mem[d].bundle
                /\ at'[d][t].todo = Urls
             \/ at'[d][t].pc = "card"
      BY <1>0, <2>2, <3>1, RegisterEffect
    <3>3. PlaceOK(d, t)'
      BY <1>0, <3>2 DEF PlaceOK
    <3> QED
      BY <1>0, <3>2, <3>3, PlacesStay
  <2>3. CASE Create(d, t)
    <3>1. /\ Typed' /\ OthersStay(d, t) /\ draws' # Missing
          /\ mem'[d].id = mem[d].id /\ \A e \in Device \ {d} : mem'[e] = mem[e]
          /\ \/ at'[d][t].pc = "idle" /\ mem' = mem
             \/ /\ at'[d][t].pc = "name" /\ at'[d][t].prekeys = draws'
                /\ mem'[d].inbox = draws'
      BY <1>0, <2>3, CreateEffect, Draws
    <3>2. PlaceOK(d, t)'
      BY <3>1 DEF PlaceOK
    <3> QED
      BY <1>0, <3>1, <3>2, PlacesStay
  <2>4. CASE SavePrekeys(d, t)
    <3>1. at[d][t].prekeys # Missing
      BY <2>0, <2>4 DEF PlaceOK, SavePrekeys, Here
    <3>2. /\ Typed' /\ OthersStay(d, t) /\ mem' = mem
          /\ \/ at'[d][t].pc = "idle"
             \/ /\ at'[d][t].pc = "publish" /\ mem[d].bundle # Missing
                /\ at'[d][t].prekeys = at[d][t].prekeys
                /\ at'[d][t].bundle = mem[d].bundle
                /\ at'[d][t].todo = Urls
      BY <1>0, <2>4, SavePrekeysEffect
    <3>3. PlaceOK(d, t)'
      BY <1>0, <3>1, <3>2 DEF PlaceOK
    <3> QED
      BY <1>0, <3>2, <3>3, PlacesStay
  <2>5. CASE PublishBundle(d, t)
    <3>1. at[d][t].todo # <<>> /\ at[d][t].bundle # Missing /\ at[d][t].prekeys # Missing
      BY <2>0, <2>5 DEF PlaceOK, PublishBundle, Here
    <3>2. /\ Typed' /\ OthersStay(d, t) /\ mem' = mem
          /\ \/ /\ at'[d][t].pc = "publish" /\ at'[d][t].bundle = at[d][t].bundle
                /\ at'[d][t].prekeys = at[d][t].prekeys /\ at'[d][t].todo # <<>>
             \/ at'[d][t].pc \in {"card", "inbox", "idle"}
      BY <1>0, <2>5, <3>1, PublishBundleEffect
    <3>3. PlaceOK(d, t)'
      BY <3>1, <3>2 DEF PlaceOK
    <3> QED
      BY <1>0, <3>2, <3>3, PlacesStay
  <2>6. CASE SetInbox(d, t)
    <3>1. Typed' /\ OthersStay(d, t) /\ mem' = mem /\ at'[d][t].pc = "bundle"
      BY <1>0, <2>6, SetInboxEffect
    <3>2. PlaceOK(d, t)'
      BY <3>1 DEF PlaceOK
    <3> QED
      BY <1>0, <3>1, <3>2, PlacesStay
  <2>7. CASE SetBundle(d, t)
    <3>1. Typed' /\ OthersStay(d, t) /\ mem' = mem /\ at'[d][t].pc = "card"
      BY <1>0, <2>7, SetBundleEffect
    <3>2. PlaceOK(d, t)'
      BY <3>1 DEF PlaceOK
    <3> QED
      BY <1>0, <3>1, <3>2, PlacesStay
  <2>8. CASE Card(d, t)
    <3>1. /\ Typed' /\ OthersStay(d, t)
          /\ \A e \in Device \ {d} : mem'[e] = mem[e]
          /\ mem'[d].inbox = mem[d].inbox /\ mem'[d].id = mem[d].id
          /\ \/ at'[d][t].pc = "id" /\ mem[d].inbox # Missing
             \/ at'[d][t].pc = "idle"
      BY <1>0, <2>8, CardEffect
    <3>2. PlaceOK(d, t)'
      BY <3>1 DEF PlaceOK
    <3> QED
      BY <1>0, <3>1, <3>2, PlacesStay
  <2>9. CASE DeviceId(d, t)
    <3>1. mem[d].inbox # Missing
      BY <2>0, <2>9 DEF PlaceOK, DeviceId, Here
    <3>2. /\ Typed' /\ OthersStay(d, t) /\ mem' = mem
          /\ \/ at'[d][t].pc = "idle"
             \/ at'[d][t].pc = "read" /\ mem[d].id # Missing
             \/ at'[d][t].pc = "own" /\ at'[d][t].id # Missing
      BY <1>0, <2>9, <3>1, DeviceIdEffect
    <3>3. PlaceOK(d, t)'
      BY <3>1, <3>2 DEF PlaceOK
    <3> QED
      BY <1>0, <3>2, <3>3, PlacesStay
  <2>13. CASE NewBundle(d, t)
    <3>1. at[d][t].prekeys # Missing
      BY <2>0, <2>13 DEF PlaceOK, NewBundle, Here
    <3>2. /\ Typed' /\ OthersStay(d, t)
          /\ \A e \in Device \ {d} : mem'[e] = mem[e]
          /\ mem'[d].inbox = mem[d].inbox /\ mem'[d].id = mem[d].id
          /\ at'[d][t].pc = "save" /\ at'[d][t].prekeys = at[d][t].prekeys
      BY <1>0, <2>13, NewBundleEffect
    <3>3. PlaceOK(d, t)'
      BY <3>1, <3>2 DEF PlaceOK
    <3> QED
      BY <1>0, <3>2, <3>3, PlacesStay
  <2>14. CASE SetDeviceId(d, t)
    <3>1. mem[d].inbox # Missing /\ at[d][t].id # Missing
      BY <2>0, <2>14 DEF PlaceOK, SetDeviceId, Here
    <3>2. /\ Typed' /\ OthersStay(d, t)
          /\ \A e \in Device \ {d} : mem'[e] = mem[e]
          /\ mem'[d].inbox = mem[d].inbox /\ mem'[d].id = at[d][t].id
          /\ at'[d][t].pc = "keep"
      BY <1>0, <2>14, SetDeviceIdEffect
    <3>3. PlaceOK(d, t)'
      BY <3>1, <3>2 DEF PlaceOK
    <3> QED
      BY <1>0, <3>1, <3>2, <3>3, PlacesStay
  <2>15. CASE KeepDeviceId(d, t)
    <3>1. mem[d].inbox # Missing /\ mem[d].id # Missing
      BY <2>0, <2>15 DEF PlaceOK, KeepDeviceId, Here
    <3>2. /\ Typed' /\ OthersStay(d, t) /\ mem' = mem
          /\ at'[d][t].pc \in {"idle", "read"}
      BY <1>0, <2>15, <3>1, KeepDeviceIdEffect
    <3>3. PlaceOK(d, t)'
      BY <3>1, <3>2 DEF PlaceOK
    <3> QED
      BY <1>0, <3>2, <3>3, PlacesStay
  <2>10. CASE ReadList(d, t)
    <3>1. mem[d].id # Missing
      BY <2>0, <2>10 DEF PlaceOK, ReadList, Here
    <3>2. /\ Typed' /\ OthersStay(d, t) /\ mem' = mem
          /\ \/ at'[d][t].pc = "idle"
             \/ at'[d][t].pc = "list" /\ at'[d][t].todo = Urls
      BY <1>0, <2>10, ReadListEffect
    <3>3. PlaceOK(d, t)'
      BY <1>0, <3>1, <3>2 DEF PlaceOK
    <3> QED
      BY <1>0, <3>2, <3>3, PlacesStay
  <2>11. CASE PublishList(d, t)
    <3>1. mem[d].id # Missing /\ at[d][t].todo # <<>>
      BY <2>0, <2>11 DEF PlaceOK, PublishList, Here
    <3>2. /\ Typed' /\ OthersStay(d, t)
          /\ \A e \in Device \ {d} : mem'[e] = mem[e]
          /\ mem'[d].inbox = mem[d].inbox /\ mem'[d].id = mem[d].id
          /\ \/ at'[d][t].pc = "keys"
             \/ at'[d][t].pc = "list" /\ at'[d][t].todo # <<>>
      BY <1>0, <2>11, <3>1, PublishListEffect DEF ClientKept
    <3>3. PlaceOK(d, t)'
      BY <3>1, <3>2 DEF PlaceOK
    <3> QED
      BY <1>0, <3>2, <3>3, PlacesStay
  <2>12. CASE PublishKeys(d, t)
    <3>1. mem[d].id # Missing
      BY <2>0, <2>12 DEF PlaceOK, PublishKeys, Here
    <3>2. Typed' /\ OthersStay(d, t) /\ mem' = mem /\ at'[d][t].pc = "idle"
      BY <1>0, <2>12, <3>1, PublishKeysEffect
    <3>3. PlaceOK(d, t)'
      BY <3>2 DEF PlaceOK
    <3> QED
      BY <1>0, <3>2, <3>3, PlacesStay
  <2> QED
    BY <1>1, <2>1, <2>2, <2>3, <2>4, <2>5, <2>6, <2>7, <2>8, <2>9, <2>10, <2>11, <2>12,
       <2>13, <2>14, <2>15
    DEF Provision
<1>2. ASSUME NEW d \in Device, Crash(d)
      PROVE  Typed' /\ PlacesInv'
  <2>1. /\ Typed' /\ Idle.pc = "idle" /\ \A t \in Thread : at'[d][t] = Idle
        /\ \A e \in Device \ {d} : mem'[e] = mem[e] /\ at'[e] = at[e]
    BY <1>0, <1>2, CrashEffect
  <2>2. PlacesInv'
    <3>1. ASSUME NEW e \in Device, NEW t \in Thread
          PROVE  PlaceOK(e, t)'
      <4>1. CASE e = d
        BY <2>1, <4>1 DEF PlaceOK
      <4>2. CASE e # d
        BY <1>0, <2>1, <4>2 DEF PlacesInv, PlaceOK
      <4> QED
        BY <4>1, <4>2
    <3> QED
      BY <3>1 DEF PlacesInv
  <2> QED
    BY <2>1, <2>2
<1>3. CASE UNCHANGED vars
  <2>1. Typed'
    BY <1>0, <1>3 DEF vars, Typed
  <2>2. PlacesInv'
    BY <1>0, <1>3 DEF vars, PlacesInv, PlaceOK
  <2> QED
    BY <2>1, <2>2
<1> QED
  BY <1>1, <1>2, <1>3 DEF Next

\* The types hold before anything ran.
LEMMA TypeInvInit == Init => TypeInv
<1> SUFFICES ASSUME Init PROVE Typed /\ PlacesInv
  BY TypedIsTypeOK DEF TypeInv
<1>1. Idle \in Location /\ Idle.pc = "idle"
  <2>1. "idle" \in Pc
    BY DEF Pc
  <2> QED
    BY <2>1, IdlePlaces
<1>2. EmptyStore \in StoreRec /\ NewClient \in ClientRec
  BY DEF EmptyStore, StoreRec, NewClient, ClientRec, Number, DeviceList
<1>3. NewRelay \in RelayRec
  <2>1. [n \in Draw |-> NoBundle] \in [Draw -> Bundle \cup {NoBundle}]
    OBVIOUS
  <2>2. {} \in SUBSET Draw /\ {} \in DeviceList /\ {} \in SUBSET DeviceKeys
    BY DEF DeviceList
  <2> QED
    BY <2>1, <2>2 DEF NewRelay, RelayRec
<1>4. Typed
  <2>1. store \in [Device -> StoreRec] /\ mem \in [Device -> ClientRec]
    BY <1>2 DEF Init
  <2>2. at \in [Device -> [Thread -> Location]]
    BY <1>1 DEF Init
  <2>3. relay \in [Relay -> RelayRec]
    BY <1>3 DEF Init
  <2>4. /\ draws \in 0 .. MaxDraws /\ faults \in 0 .. MaxFaults
    BY ProvisioningAssumption DEF Init
  <2>5. raced \subseteq Device
    BY DEF Init
  <2> QED
    BY <2>1, <2>2, <2>3, <2>4, <2>5 DEF Typed
<1>5. PlacesInv
  BY <1>1 DEF Init, PlacesInv, PlaceOK
<1> QED
  BY <1>4, <1>5

\* Types: whatever threads, faults and crashes do, the store, the client, the threads'
\* places and the relays hold what provision draws, and no list names a missing mailbox.
THEOREM TypeCorrect == Spec => []TypeOK
<1>1. Init => TypeInv
  BY TypeInvInit
<1>2. TypeInv /\ [Next]_vars => TypeInv'
  BY TypeInvStep
<1>3. TypeInv => TypeOK
  BY DEF TypeInv
<1> QED
  BY <1>1, <1>2, <1>3, PTL DEF Spec

-----------------------------------------------------------------------------
(* What is published and listed.                                           *)

Published(n) == \E r \in Relay : relay[r].bundles[n] # NoBundle
Registered(n) == \E r \in Relay : n \in relay[r].boxes

\* The draws a device has in its client, its store or a thread.
Owns(d, n) ==
    /\ n # Missing
    /\ \/ n \in {mem[d].inbox, mem[d].bundle, store[d].inbox, store[d].bundle,
                 store[d].prekeys}
       \/ \E t \in Thread :
             \/ at[d][t].pc \in {"name", "save", "publish"} /\ n = at[d][t].prekeys
             \/ at[d][t].pc = "publish" /\ n = at[d][t].bundle

\* A draw belongs to one device.
OwnInv ==
    /\ \A d \in Device, n \in Draw : Owns(d, n) => n <= draws
    /\ \A d, e \in Device, n \in Draw : Owns(d, n) /\ Owns(e, n) => d = e

\* Unless its threads met, what a device drew is published under its own number only.
BundlesInv ==
    \A r \in Relay, n \in Draw :
        /\ n > draws => relay[r].bundles[n] = NoBundle
        /\ \A d \in Device \ raced : Owns(d, n) =>
              relay[r].bundles[n] \in {NoBundle, [spk |-> n, opks |-> n]}

\* What the store holds was drawn, registered and published at once.
StoreOK(d) ==
    /\ store[d].inbox # Missing =>
          /\ store[d].prekeys = store[d].inbox
          /\ Registered(store[d].inbox) /\ Published(store[d].inbox)
    /\ store[d].bundle \in {Missing, store[d].inbox}

\* The client is what the store says, but for an id that is being written.
ClientOK(d) ==
    /\ mem[d].card =>
          /\ store[d].inbox # Missing /\ mem[d].inbox = store[d].inbox
          /\ store[d].bundle # Missing /\ mem[d].bundle = store[d].bundle
    /\ mem[d].id # Missing =>
          \/ store[d].id = mem[d].id
          \/ store[d].id = Missing /\ \E t \in Thread : at[d][t].pc = "keep"

\* The thread goes by what it has drawn and registered.
Fresh(d, t) ==
    \/ at[d][t].pc \in {"name", "save", "inbox"}
    \/ at[d][t].pc = "publish" /\ at[d][t].first

\* The thread goes by what the store holds.
Resumed(d, t) ==
    \/ at[d][t].pc \in {"register", "card", "id", "own", "keep", "read", "list", "keys"}
    \/ at[d][t].pc = "publish" /\ ~at[d][t].first

\* How far a thread has brought its draw.
DrawOK(d, t) ==
    LET loc == at[d][t] IN
    /\ loc.pc = "create" => store[d].inbox = Missing /\ loc.first /\ ~loc.ok
    /\ loc.pc \in {"name", "save"} => loc.first /\ ~loc.ok /\ loc.prekeys = mem[d].inbox
    /\ Fresh(d, t) =>
          /\ store[d].inbox = Missing /\ mem[d].inbox # Missing
          /\ Registered(mem[d].inbox)
          /\ loc.pc # "name" => mem[d].bundle = mem[d].inbox
          /\ loc.pc \notin {"name", "save"} => store[d].prekeys = mem[d].inbox
    /\ loc.pc = "publish" =>
          /\ loc.bundle = mem[d].bundle /\ loc.prekeys = loc.bundle
          /\ loc.ok => Published(loc.bundle)
    /\ loc.pc = "inbox" => Published(mem[d].inbox)
    /\ loc.pc = "bundle" =>
          /\ store[d].inbox # Missing /\ store[d].bundle = Missing
          /\ mem[d].inbox = store[d].inbox /\ mem[d].bundle = store[d].inbox

\* What a thread took from the store, and how far it has brought the device's id.
EntryOK(d, t) ==
    LET loc == at[d][t] IN
    /\ loc.pc = "register" => ~loc.first /\ ~loc.ok
    /\ Resumed(d, t) =>
          /\ store[d].inbox # Missing
          /\ mem[d].inbox = store[d].inbox /\ mem[d].bundle = store[d].bundle
    /\ loc.pc \in {"id", "own", "keep", "read", "list", "keys"} => mem[d].bundle # Missing
    /\ loc.pc = "own" =>
          /\ loc.id # Missing
          /\ store[d].id \in {Missing, loc.id} /\ mem[d].id \in {Missing, loc.id}
    /\ loc.pc = "keep" => store[d].id \in {Missing, mem[d].id}
    /\ loc.pc \in {"read", "list", "keys"} => store[d].id = mem[d].id
    /\ loc.pc = "read" => loc.list = {DeviceEntry(d)}

\* One thread at a time until the first provision is over.
Solo(d) ==
    Complete(d) \/ \A t, u \in Thread :
        t = u \/ at[d][t].pc = "idle" \/ at[d][u].pc = "idle"

DeviceOK(d) ==
    /\ StoreOK(d) /\ ClientOK(d) /\ Solo(d)
    /\ \A t \in Thread : DrawOK(d, t) /\ EntryOK(d, t)

Listable(e) ==
    /\ \E d \in Device : /\ store[d].id = e.id
                         /\ store[d].inbox = e.inbox
                         /\ store[d].bundle = e.bundle
    /\ Registered(e.inbox)

\* Only what the devices' stores hold is on a list or about to be.
ListsInv ==
    /\ \A r \in Relay : \A e \in relay[r].list : Listable(e)
    /\ \A d \in Device, t \in Thread : \A e \in at[d][t].list : Listable(e)

UseInv ==
    /\ OwnInv /\ BundlesInv
    /\ \A d \in Device \ raced : DeviceOK(d)
    /\ raced = {} => ListsInv

-----------------------------------------------------------------------------
(* A step of one device, seen from what it leaves alone.                   *)

\* Relays forget no mailbox and no bundle.
Grows ==
    \A n \in Draw : /\ Registered(n) => \E r \in Relay : n \in relay'[r].boxes
                    /\ Published(n) => PublishedNext(n)

\* What a store has of an id, a mailbox and a bundle is final.
Final(d) ==
    /\ store[d].id # Missing => store'[d].id = store[d].id
    /\ store[d].inbox # Missing => store'[d].inbox = store[d].inbox
    /\ store[d].bundle # Missing => store'[d].bundle = store[d].bundle

\* Every other device is as it was.
Alone(d) ==
    \A e \in Device \ {d} : /\ mem'[e] = mem[e] /\ store'[e] = store[e]
                            /\ \A u \in Thread : at'[e][u] = at[e][u]

\* The device owns what it owned, and perhaps the number drawn in this step.
OwnsFew(d) ==
    \A n \in Draw : Owns(d, n)' => Owns(d, n) \/ (n = draws' /\ draws' = draws + 1)

\* The device writes the records of its own draws only, and of itself only.
WritesOwn(d) ==
    \A r \in Relay, n \in Draw :
        \/ relay'[r].bundles[n] = relay[r].bundles[n]
        \/ Owns(d, n) /\ (d \in raced' \/ relay'[r].bundles[n] = [spk |-> n, opks |-> n])

\* Once its first provision is over, the device only copies what its store holds.
Calm(d) ==
    /\ store'[d].inbox = store[d].inbox /\ store'[d].bundle = store[d].bundle
    /\ store'[d].prekeys = store[d].prekeys /\ store'[d].id = store[d].id
    /\ mem'[d].inbox \in {mem[d].inbox, store[d].inbox}
    /\ mem'[d].bundle \in {mem[d].bundle, store[d].bundle}
    /\ mem'[d].id \in {mem[d].id, store[d].id}

\* A relay that keeps its mailboxes and bundles keeps them.
LEMMA KeptGrows ==
    ASSUME \A r \in Relay : relay[r].boxes \subseteq relay'[r].boxes,
           \A r \in Relay, n \in Draw :
              relay[r].bundles[n] # NoBundle => relay'[r].bundles[n] # NoBundle
    PROVE  Grows
BY DEF Grows, Registered, Published, PublishedNext

\* Draws stay with their device.
LEMMA OwnStays ==
    ASSUME Typed, Typed', OwnInv, NEW d \in Device, Alone(d), OwnsFew(d),
           draws <= draws'
    PROVE  OwnInv'
<1>1. draws \in Nat /\ draws' \in Nat
  BY DEF Typed
<1>2. \A n \in Draw : n \in Nat
  BY DEF Draw
<1>3. \A e \in Device \ {d}, n \in Draw : Owns(e, n)' <=> Owns(e, n)
  BY DEF Alone, Owns
<1>4. \A e \in Device, n \in Draw : Owns(e, n) => n <= draws
  BY DEF OwnInv
<1>5. ASSUME NEW e \in Device, NEW n \in Draw, Owns(e, n)'
      PROVE  n <= draws'
  <2>1. CASE e = d
    BY <1>1, <1>2, <1>4, <1>5, <2>1 DEF OwnsFew
  <2>2. CASE e # d
    BY <1>1, <1>2, <1>3, <1>4, <1>5, <2>2
  <2> QED
    BY <2>1, <2>2
<1>6. ASSUME NEW e \in Device \ {d}, NEW n \in Draw, Owns(e, n)', Owns(d, n)'
      PROVE  FALSE
  <2>1. Owns(e, n) /\ n <= draws
    BY <1>3, <1>4, <1>6
  <2>2. Owns(d, n)
    BY <1>1, <1>2, <1>6, <2>1 DEF OwnsFew
  <2> QED
    BY <2>1, <2>2 DEF OwnInv
<1>7. ASSUME NEW e \in Device, NEW f \in Device, NEW n \in Draw,
             Owns(e, n)', Owns(f, n)'
      PROVE  e = f
  <2>1. CASE e = d \/ f = d
    BY <1>6, <1>7, <2>1
  <2>2. CASE e # d /\ f # d
    BY <1>3, <1>7, <2>2 DEF OwnInv
  <2> QED
    BY <2>1, <2>2
<1> QED
  BY <1>5, <1>7 DEF OwnInv

\* The records of a draw stay its own: only its device writes them.
LEMMA BundlesStay ==
    ASSUME Typed, Typed', OwnInv, BundlesInv, NEW d \in Device, Alone(d), OwnsFew(d),
           WritesOwn(d), draws <= draws', raced \subseteq raced'
    PROVE  BundlesInv'
<1>1. draws \in Nat /\ draws' \in Nat
  BY DEF Typed
<1>2. \A n \in Draw : n \in Nat
  BY DEF Draw
<1> SUFFICES ASSUME NEW r \in Relay, NEW n \in Draw
             PROVE  /\ n > draws' => relay'[r].bundles[n] = NoBundle
                    /\ \A e \in Device \ raced' : Owns(e, n)' =>
                          relay'[r].bundles[n] \in {NoBundle, [spk |-> n, opks |-> n]}
  BY DEF BundlesInv
<1>3. /\ n > draws => relay[r].bundles[n] = NoBundle
      /\ \A e \in Device \ raced : Owns(e, n) =>
            relay[r].bundles[n] \in {NoBundle, [spk |-> n, opks |-> n]}
  BY DEF BundlesInv
<1>4. \/ relay'[r].bundles[n] = relay[r].bundles[n]
      \/ Owns(d, n) /\ (d \in raced' \/ relay'[r].bundles[n] = [spk |-> n, opks |-> n])
  BY DEF WritesOwn
<1>5. Owns(d, n) => n <= draws
  BY DEF OwnInv
<1>6. n > draws' => relay'[r].bundles[n] = NoBundle
  <2>1. n > draws' => n > draws /\ ~(n <= draws)
    BY <1>1, <1>2
  <2> QED
    BY <1>3, <1>4, <1>5, <2>1
<1>7. ASSUME NEW e \in Device \ raced', Owns(e, n)'
      PROVE  relay'[r].bundles[n] \in {NoBundle, [spk |-> n, opks |-> n]}
  <2>1. CASE e = d
    <3>1. CASE Owns(d, n)
      BY <1>3, <1>4, <1>7, <2>1, <3>1
    <3>2. CASE ~Owns(d, n)
      <4>1. n > draws
        BY <1>1, <1>7, <2>1, <3>2 DEF OwnsFew
      <4> QED
        BY <1>3, <1>4, <3>2, <4>1
    <3> QED
      BY <3>1, <3>2
  <2>2. CASE e # d
    <3>1. Owns(e, n)
      BY <1>7, <2>2 DEF Alone, Owns
    <3>2. ~Owns(d, n)
      BY <2>2, <3>1 DEF OwnInv
    <3> QED
      BY <1>3, <1>4, <1>7, <3>1, <3>2
  <2> QED
    BY <2>1, <2>2
<1> QED
  BY <1>6, <1>7

\* A step of one device leaves the others' stores and places as they were.
LEMMA OthersOK ==
    ASSUME Typed, PlacesInv, Grows, NEW d \in Device, Alone(d),
           NEW e \in Device \ {d}, DeviceOK(e)
    PROVE  DeviceOK(e)'
<1>1. /\ mem'[e] = mem[e] /\ store'[e] = store[e]
      /\ \A u \in Thread : at'[e][u] = at[e][u]
  BY DEF Alone
<1>2. store[e].inbox \in Number /\ mem[e].inbox \in Number
  BY DEF Typed, StoreRec, ClientRec
<1>3. StoreOK(e)'
  <2>1. store[e].inbox # Missing => Registered(store[e].inbox) /\ Published(store[e].inbox)
    BY DEF DeviceOK, StoreOK
  <2>2. store[e].inbox # Missing =>
           /\ \E r \in Relay : store[e].inbox \in relay'[r].boxes
           /\ \E r \in Relay : relay'[r].bundles[store[e].inbox] # NoBundle
    BY <1>2, <2>1, Draws DEF Grows, PublishedNext
  <2> QED
    BY <1>1, <2>2 DEF DeviceOK, StoreOK, Registered, Published
<1>4. ClientOK(e)' /\ Solo(e)'
  BY <1>1 DEF DeviceOK, ClientOK, Solo, Complete
<1>5. ASSUME NEW u \in Thread
      PROVE  DrawOK(e, u)' /\ EntryOK(e, u)'
  <2>0. DrawOK(e, u) /\ EntryOK(e, u) /\ at'[e][u] = at[e][u]
    BY <1>1 DEF DeviceOK
  <2>1. Fresh(e, u) => \E r \in Relay : mem[e].inbox \in relay'[r].boxes
    BY <1>2, <2>0, Draws DEF Grows, DrawOK
  <2>2. at[e][u].pc = "publish" /\ at[e][u].ok =>
           \E r \in Relay : relay'[r].bundles[at[e][u].bundle] # NoBundle
    <3>1. at[e][u].bundle \in Number
      BY LocationFields DEF Typed
    <3>2. at[e][u].pc = "publish" => at[e][u].bundle # Missing
      BY DEF PlacesInv, PlaceOK
    <3> QED
      BY <2>0, <3>1, <3>2, Draws DEF Grows, PublishedNext, DrawOK
  <2>3. at[e][u].pc = "inbox" => \E r \in Relay : relay'[r].bundles[mem[e].inbox] # NoBundle
    BY <1>2, <2>0, Draws DEF Grows, PublishedNext, DrawOK, Fresh
  <2>4. DrawOK(e, u)'
    BY <1>1, <2>0, <2>1, <2>2, <2>3 DEF DrawOK, Fresh, Registered, Published
  <2>5. EntryOK(e, u)'
    BY <1>1, <2>0 DEF EntryOK, Resumed, DeviceEntry
  <2> QED
    BY <2>4, <2>5
<1> QED
  BY <1>3, <1>4, <1>5 DEF DeviceOK

\* The other threads of the device are idle, or the first provision is over and they go
\* by what the store holds, which stays.
LEMMA ThreadsStay ==
    ASSUME Typed, PlacesInv, Grows, NEW d \in Device, NEW t \in Thread, OthersStay(d, t),
           DeviceOK(d), Complete(d) => Calm(d),
           \/ at[d][t].pc # "idle" \/ Complete(d)
           \/ \A u \in Thread \ {t} : at[d][u].pc = "idle",
           NEW u \in Thread \ {t}
    PROVE  DrawOK(d, u)' /\ EntryOK(d, u)'
<1>1. at'[d][u] = at[d][u] /\ DrawOK(d, u) /\ EntryOK(d, u)
  BY DEF OthersStay, DeviceOK
<1>2. CASE at[d][u].pc = "idle"
  BY <1>1, <1>2 DEF DrawOK, EntryOK, Fresh, Resumed
<1>3. CASE at[d][u].pc # "idle"
  <2>1. Complete(d) /\ Calm(d)
    BY <1>3 DEF DeviceOK, Solo
  <2>2. /\ store[d].inbox # Missing /\ store[d].bundle # Missing /\ store[d].id # Missing
    BY <2>1 DEF Complete
  <2>3. ~Fresh(d, u) /\ at[d][u].pc \notin {"create", "name", "save", "inbox", "bundle"}
    BY <1>1, <2>2 DEF DrawOK, Fresh
  <2>4. Resumed(d, u)
    <3>1. at[d][u].pc \in Pc
      BY DEF Typed, Location, Pc
    <3> QED
      BY <1>3, <2>3, <3>1 DEF Resumed, Fresh, Pc
  <2>5. /\ mem[d].inbox = store[d].inbox /\ mem[d].bundle = store[d].bundle
        /\ mem'[d].inbox = mem[d].inbox /\ mem'[d].bundle = mem[d].bundle
    BY <1>1, <2>1, <2>4 DEF EntryOK, Calm
  <2>6. /\ at[d][u].pc = "publish" =>
              /\ at[d][u].bundle = mem[d].bundle /\ at[d][u].prekeys = at[d][u].bundle
        /\ at[d][u].pc = "publish" /\ at[d][u].ok =>
              \E r \in Relay : relay'[r].bundles[at[d][u].bundle] # NoBundle
    <3>1. at[d][u].bundle \in Number
      BY LocationFields DEF Typed
    <3>2. at[d][u].pc = "publish" => at[d][u].bundle # Missing
      BY DEF PlacesInv, PlaceOK
    <3> QED
      BY <1>1, <3>1, <3>2, Draws DEF Grows, PublishedNext, DrawOK
  <2>7. DrawOK(d, u)'
    BY <1>1, <2>3, <2>5, <2>6 DEF DrawOK, Fresh, Published
  <2>8. mem[d].id # Missing => mem[d].id = store[d].id
    BY <2>2 DEF DeviceOK, ClientOK
  <2>9. at[d][u].pc \in {"keep", "read", "list", "keys"} =>
           mem[d].id = store[d].id /\ mem'[d].id = mem[d].id
    <3>1. at[d][u].pc \in {"keep", "read", "list", "keys"} => mem[d].id # Missing
      BY DEF PlacesInv, PlaceOK
    <3> QED
      BY <2>1, <2>8, <3>1 DEF Calm
  <2>10. at[d][u].pc = "own" => store[d].id = at[d][u].id /\ mem'[d].id \in {Missing, at[d][u].id}
    BY <1>1, <2>1, <2>2 DEF EntryOK, Calm
  <2>11. EntryOK(d, u)'
    BY <1>1, <2>1, <2>5, <2>9, <2>10 DEF EntryOK, Resumed, DeviceEntry, Calm
  <2> QED
    BY <2>7, <2>11
<1> QED
  BY <1>2, <1>3

\* One thread at a time goes on to hold.
LEMMA SoloStays ==
    ASSUME NEW d \in Device, NEW t \in Thread, OthersStay(d, t), Solo(d), Final(d),
           \/ at[d][t].pc # "idle" \/ Complete(d)
           \/ \A u \in Thread \ {t} : at[d][u].pc = "idle"
    PROVE  Solo(d)'
<1>1. CASE Complete(d)
  BY <1>1 DEF Solo, Complete, Final
<1>2. CASE ~Complete(d)
  <2>1. \A u \in Thread \ {t} : at[d][u].pc = "idle"
    BY <1>2 DEF Solo
  <2>2. \A u \in Thread \ {t} : at'[d][u].pc = "idle"
    BY <2>1 DEF OthersStay
  <2> QED
    BY <2>2 DEF Solo
<1> QED
  BY <1>1, <1>2

\* A device that can be listed stays one.
LEMMA ListableStays ==
    ASSUME Grows, \A d \in Device : Final(d), NEW e \in Entry, Listable(e)
    PROVE  Listable(e)'
<1>1. e.id \in Draw /\ e.inbox \in Draw /\ e.bundle \in Draw
  BY DEF Entry
<1>2. PICK d \in Device : store[d].id = e.id /\ store[d].inbox = e.inbox
                          /\ store[d].bundle = e.bundle
  BY DEF Listable
<1>3. store'[d].id = e.id /\ store'[d].inbox = e.inbox /\ store'[d].bundle = e.bundle
  BY <1>1, <1>2, Draws DEF Final
<1>4. \E r \in Relay : e.inbox \in relay'[r].boxes
  BY <1>1 DEF Grows, Listable
<1> QED
  BY <1>3, <1>4 DEF Listable, Registered

\* A device lists only what was listed, about to be, or can be.
LEMMA ListsStay ==
    ASSUME Typed, Typed', ListsInv, NEW d \in Device, Alone(d), Final(d), Grows,
           \A r \in Relay : \A x \in relay'[r].list :
              \/ \E u \in Thread : x \in at[d][u].list
              \/ \E q \in Relay : x \in relay[q].list,
           \A u \in Thread : \A x \in at'[d][u].list :
              \/ x \in at[d][u].list \/ \E q \in Relay : x \in relay[q].list
              \/ Listable(x)'
    PROVE  ListsInv'
<1>1. \A e \in Device : Final(e)
  BY DEF Final, Alone
<1>2. /\ \A e \in Device, u \in Thread : at[e][u].list \subseteq Entry
      /\ \A r \in Relay : relay[r].list \subseteq Entry
  <2>1. /\ \A e \in Device, u \in Thread : at[e][u] \in Location
        /\ \A r \in Relay : relay[r] \in RelayRec
    BY DEF Typed
  <2> QED
    BY <2>1, LocationFields DEF RelayRec, DeviceList
<1>3. /\ \A r \in Relay : \A x \in relay[r].list : Listable(x)'
      /\ \A e \in Device, u \in Thread : \A x \in at[e][u].list : Listable(x)'
  <2>1. ASSUME NEW x \in Entry, Listable(x)
        PROVE  Listable(x)'
    BY <1>1, <2>1, ListableStays
  <2> QED
    BY <1>2, <2>1 DEF ListsInv
<1>4. \A r \in Relay : \A x \in relay'[r].list : Listable(x)'
  BY <1>3
<1>5. ASSUME NEW e \in Device, NEW u \in Thread, NEW x \in at'[e][u].list
      PROVE  Listable(x)'
  <2>1. CASE e = d
    BY <1>3, <1>5, <2>1
  <2>2. CASE e # d
    BY <1>3, <1>5, <2>2 DEF Alone
  <2> QED
    BY <2>1, <2>2
<1> QED
  BY <1>4, <1>5 DEF ListsInv

\* A step of one thread keeps the invariant when it does so for the device itself.
LEMMA UseStays ==
    ASSUME Typed, Typed', PlacesInv, UseInv,
           NEW d \in Device, NEW t \in Thread, OthersStay(d, t),
           \A e \in Device \ {d} : mem'[e] = mem[e] /\ store'[e] = store[e],
           raced \subseteq raced', draws <= draws', Grows, OwnsFew(d), WritesOwn(d),
           \/ d \in raced' \/ at[d][t].pc # "idle" \/ Complete(d)
           \/ \A u \in Thread \ {t} : at[d][u].pc = "idle",
           d \notin raced' =>
              /\ Final(d) /\ StoreOK(d)' /\ ClientOK(d)'
              /\ DrawOK(d, t)' /\ EntryOK(d, t)'
              /\ Complete(d) => Calm(d),
           \A r \in Relay : \A x \in relay'[r].list :
              x \in at[d][t].list \/ \E q \in Relay : x \in relay[q].list,
           raced' = {} => \A x \in at'[d][t].list :
              \/ x \in at[d][t].list \/ \E q \in Relay : x \in relay[q].list
              \/ Listable(x)'
    PROVE  UseInv'
<1>1. Alone(d)
  BY DEF Alone, OthersStay
<1>2. OwnInv' /\ BundlesInv'
  BY <1>1, OwnStays, BundlesStay DEF UseInv
<1>3. \A e \in Device : e \notin raced' => DeviceOK(e) \/ e = d
  BY DEF UseInv
<1>4. d \notin raced' => DeviceOK(d)'
  <2> SUFFICES ASSUME d \notin raced' PROVE DeviceOK(d)'
    OBVIOUS
  <2>1. DeviceOK(d)
    BY DEF UseInv
  <2>2. Solo(d)'
    BY <2>1, SoloStays DEF DeviceOK
  <2>3. \A u \in Thread \ {t} : DrawOK(d, u)' /\ EntryOK(d, u)'
    BY <2>1, ThreadsStay
  <2> QED
    BY <2>2, <2>3 DEF DeviceOK
<1>5. ASSUME NEW e \in Device \ raced'
      PROVE  DeviceOK(e)'
  <2>1. CASE e = d
    BY <1>4, <1>5, <2>1
  <2>2. CASE e # d
    BY <1>1, <1>3, <1>5, <2>2, OthersOK
  <2> QED
    BY <2>1, <2>2
<1>6. raced' = {} => ListsInv'
  <2> SUFFICES ASSUME raced' = {} PROVE ListsInv'
    OBVIOUS
  <2>1. ListsInv /\ Final(d)
    BY DEF UseInv
  <2>2. \A u \in Thread : \A x \in at'[d][u].list :
           \/ x \in at[d][u].list \/ \E q \in Relay : x \in relay[q].list
           \/ Listable(x)'
    BY DEF OthersStay
  <2> QED
    BY <1>1, <2>1, <2>2, ListsStay
<1> QED
  BY <1>2, <1>5, <1>6 DEF UseInv

\* An id that is being written goes on being written.
LEMMA ClientStays ==
    ASSUME NEW d \in Device, NEW t \in Thread, OthersStay(d, t), ClientOK(d),
           at[d][t].pc # "keep",
           mem'[d].id = mem[d].id, store'[d].id = store[d].id,
           mem'[d].card =>
              /\ store'[d].inbox # Missing /\ mem'[d].inbox = store'[d].inbox
              /\ store'[d].bundle # Missing /\ mem'[d].bundle = store'[d].bundle
    PROVE  ClientOK(d)'
<1>1. (\E u \in Thread : at[d][u].pc = "keep") => \E u \in Thread : at'[d][u].pc = "keep"
  BY DEF OthersStay
<1> QED
  BY <1>1 DEF ClientOK

\* A relay whose bundles stay as they are writes nothing.
LEMMA KeptWrites ==
    ASSUME NEW d \in Device, \A r \in Relay : relay'[r].bundles = relay[r].bundles
    PROVE  WritesOwn(d)
BY DEF WritesOwn

\* What the invariant says of the device that moves.
LEMMA UseParts ==
    ASSUME Typed, PlacesInv, UseInv, NEW d \in Device, NEW t \in Thread
    PROVE  /\ at[d][t] \in Location /\ store[d] \in StoreRec /\ mem[d] \in ClientRec
           /\ PlaceOK(d, t) /\ draws \in Nat
           /\ d \notin raced =>
                 StoreOK(d) /\ ClientOK(d) /\ Solo(d) /\ DrawOK(d, t) /\ EntryOK(d, t)
BY DEF Typed, PlacesInv, UseInv, DeviceOK

\* Entering provision keeps the invariant: alone, after the first one is over, or as a race.
LEMMA UseCall ==
    ASSUME Typed, Typed', PlacesInv, UseInv, NEW d \in Device, NEW t \in Thread, Call(d, t)
    PROVE  UseInv'
<1> DEFINE l == at[d][t]
<1>0. /\ l \in Location /\ store[d] \in StoreRec /\ mem[d] \in ClientRec /\ draws \in Nat
      /\ d \notin raced =>
            StoreOK(d) /\ ClientOK(d) /\ Solo(d) /\ DrawOK(d, t) /\ EntryOK(d, t)
  BY UseParts
<1>1. /\ l.pc = "idle" /\ OthersStay(d, t)
      /\ \A e \in Device \ {d} : mem'[e] = mem[e]
      /\ mem'[d].card = mem[d].card /\ mem'[d].id = mem[d].id
      /\ at'[d][t].list = {} /\ ~at'[d][t].ok
      /\ UNCHANGED <<store, relay, draws, faults>>
      /\ raced \subseteq raced'
      /\ \/ d \in raced' \/ Complete(d)
         \/ \A u \in Thread \ {t} : at[d][u].pc = "idle"
      /\ \/ /\ store[d].inbox # Missing
            /\ at'[d][t].pc = "register" /\ ~at'[d][t].first
            /\ mem'[d].inbox = store[d].inbox /\ mem'[d].bundle = store[d].bundle
         \/ /\ store[d].inbox = Missing
            /\ at'[d][t].pc = "create" /\ at'[d][t].first
            /\ mem'[d].inbox = mem[d].inbox /\ mem'[d].bundle = mem[d].bundle
  BY CallEffect
<1>2. Grows /\ WritesOwn(d)
  BY <1>1, KeptGrows, KeptWrites
<1>3. OwnsFew(d)
  BY <1>1 DEF OwnsFew, Owns, OthersStay
<1>4. ASSUME d \notin raced
      PROVE  /\ Final(d) /\ StoreOK(d)' /\ ClientOK(d)' /\ DrawOK(d, t)' /\ EntryOK(d, t)'
             /\ Complete(d) => Calm(d)
  <2>1. Final(d) /\ StoreOK(d)'
    BY <1>0, <1>1, <1>4 DEF Final, StoreOK, Registered, Published
  <2>2. mem[d].card =>
           /\ store[d].inbox # Missing /\ mem[d].inbox = store[d].inbox
           /\ store[d].bundle # Missing /\ mem[d].bundle = store[d].bundle
    BY <1>0, <1>4 DEF ClientOK
  <2>3. ClientOK(d)'
    BY <1>0, <1>1, <1>4, <2>2, ClientStays
  <2>4. DrawOK(d, t)' /\ EntryOK(d, t)'
    BY <1>0, <1>1 DEF DrawOK, EntryOK, Fresh, Resumed
  <2>5. Complete(d) => Calm(d)
    BY <1>1 DEF Calm
  <2> QED
    BY <2>1, <2>3, <2>4, <2>5
<1> QED
  BY <1>0, <1>1, <1>2, <1>3, <1>4, UseStays

\* A start with a stored mailbox goes by the store.
LEMMA UseRegister ==
    ASSUME Typed, Typed', PlacesInv, UseInv, NEW d \in Device, NEW t \in Thread,
           Register(d, t)
    PROVE  UseInv'
<1> DEFINE l == at[d][t]
<1>0. /\ l \in Location /\ store[d] \in StoreRec /\ mem[d] \in ClientRec /\ draws \in Nat
      /\ PlaceOK(d, t)
      /\ d \notin raced =>
            StoreOK(d) /\ ClientOK(d) /\ Solo(d) /\ DrawOK(d, t) /\ EntryOK(d, t)
  BY UseParts
<1>1. l.pc = "register" /\ mem[d].inbox # Missing
  BY <1>0 DEF Register, Here, PlaceOK
<1>2. /\ OthersStay(d, t) /\ UNCHANGED <<store, mem, draws, raced>>
      /\ \A r \in Relay : /\ relay[r].boxes \subseteq relay'[r].boxes
                          /\ relay'[r].bundles = relay[r].bundles
                          /\ relay'[r].list = relay[r].list
      /\ at'[d][t].list = l.list /\ at'[d][t].first = l.first
      /\ \/ /\ at'[d][t].pc = "publish"
            /\ store[d].prekeys # Missing /\ mem[d].bundle # Missing
            /\ at'[d][t].prekeys = store[d].prekeys
            /\ at'[d][t].bundle = mem[d].bundle
            /\ at'[d][t].todo = Urls /\ at'[d][t].ok = l.ok
         \/ at'[d][t].pc = "card"
  BY <1>1, RegisterEffect
<1>3. Grows /\ WritesOwn(d)
  BY <1>2, KeptGrows, KeptWrites
<1>4. OwnsFew(d)
  BY <1>2 DEF OwnsFew, Owns, OthersStay
<1>5. ASSUME d \notin raced
      PROVE  /\ Final(d) /\ StoreOK(d)' /\ ClientOK(d)' /\ DrawOK(d, t)' /\ EntryOK(d, t)'
             /\ Complete(d) => Calm(d)
  <2>1. Final(d) /\ StoreOK(d)' /\ Calm(d)
    BY <1>0, <1>2, <1>5 DEF Final, StoreOK, Registered, Published, Calm
  <2>2. ClientOK(d)'
    BY <1>0, <1>1, <1>2, <1>5, ClientStays DEF ClientOK
  <2>3. DrawOK(d, t)' /\ EntryOK(d, t)'
    BY <1>0, <1>1, <1>2, <1>5 DEF DrawOK, EntryOK, Fresh, Resumed, StoreOK
  <2> QED
    BY <2>1, <2>2, <2>3
<1> QED
  BY <1>0, <1>1, <1>2, <1>3, <1>4, <1>5, UseStays

\* A new mailbox is a new number.
LEMMA UseCreate ==
    ASSUME Typed, Typed', PlacesInv, UseInv, NEW d \in Device, NEW t \in Thread,
           Create(d, t)
    PROVE  UseInv'
<1> DEFINE l == at[d][t]
<1>0. /\ l \in Location /\ store[d] \in StoreRec /\ mem[d] \in ClientRec /\ draws \in Nat
      /\ d \notin raced =>
            StoreOK(d) /\ ClientOK(d) /\ Solo(d) /\ DrawOK(d, t) /\ EntryOK(d, t)
  BY UseParts
<1>1. /\ l.pc = "create" /\ OthersStay(d, t) /\ UNCHANGED <<store, raced>>
      /\ draws' = draws + 1 /\ draws' # Missing
      /\ \A e \in Device \ {d} : mem'[e] = mem[e]
      /\ mem'[d].card = mem[d].card /\ mem'[d].id = mem[d].id
      /\ \A r \in Relay : /\ relay[r].boxes \subseteq relay'[r].boxes
                          /\ relay'[r].bundles = relay[r].bundles
                          /\ relay'[r].list = relay[r].list
      /\ \/ /\ at'[d][t].pc = "idle" /\ at'[d][t].list = {} /\ mem' = mem
         \/ /\ at'[d][t].pc = "name" /\ at'[d][t].prekeys = draws'
            /\ at'[d][t].first = l.first /\ at'[d][t].list = l.list
            /\ at'[d][t].ok = l.ok
            /\ mem'[d].inbox = draws' /\ mem'[d].bundle = mem[d].bundle
            /\ \E r \in Relay : draws' \in relay'[r].boxes
  BY CreateEffect, Draws
<1>2. Grows /\ WritesOwn(d)
  BY <1>1, KeptGrows, KeptWrites
<1>3. OwnsFew(d)
  BY <1>1 DEF OwnsFew, Owns, OthersStay
<1>4. ASSUME d \notin raced
      PROVE  /\ Final(d) /\ StoreOK(d)' /\ ClientOK(d)' /\ DrawOK(d, t)' /\ EntryOK(d, t)'
             /\ Complete(d) => Calm(d)
  <2>1. store[d].inbox = Missing /\ ~mem[d].card /\ l.first /\ ~l.ok
    BY <1>0, <1>1, <1>4 DEF DrawOK, ClientOK
  <2>2. Final(d) /\ StoreOK(d)'
    BY <1>0, <1>1, <1>4, <2>1 DEF Final, StoreOK
  <2>3. ClientOK(d)'
    BY <1>0, <1>1, <1>4, <2>1, ClientStays
  <2>4. DrawOK(d, t)' /\ EntryOK(d, t)'
    BY <1>1, <2>1 DEF DrawOK, EntryOK, Fresh, Resumed, Registered
  <2>5. ~Complete(d)
    BY <2>1 DEF Complete
  <2> QED
    BY <2>2, <2>3, <2>4, <2>5
<1>5. draws <= draws'
  BY <1>0, <1>1
<1> QED
  BY <1>1, <1>2, <1>3, <1>4, <1>5, UseStays

\* The bundle takes the number of the mailbox.
LEMMA UseNewBundle ==
    ASSUME Typed, Typed', PlacesInv, UseInv, NEW d \in Device, NEW t \in Thread,
           NewBundle(d, t)
    PROVE  UseInv'
<1> DEFINE l == at[d][t]
<1>0. /\ l \in Location /\ store[d] \in StoreRec /\ mem[d] \in ClientRec /\ draws \in Nat
      /\ d \notin raced =>
            StoreOK(d) /\ ClientOK(d) /\ Solo(d) /\ DrawOK(d, t) /\ EntryOK(d, t)
  BY UseParts
<1>1. /\ l.pc = "name" /\ OthersStay(d, t) /\ UNCHANGED <<store, relay, draws, raced>>
      /\ \A e \in Device \ {d} : mem'[e] = mem[e]
      /\ mem'[d].inbox = mem[d].inbox /\ mem'[d].bundle = l.prekeys
      /\ mem'[d].card = mem[d].card /\ mem'[d].id = mem[d].id
      /\ at'[d][t].pc = "save" /\ at'[d][t].prekeys = l.prekeys
      /\ at'[d][t].first = l.first /\ at'[d][t].list = l.list
      /\ at'[d][t].ok = l.ok
  BY NewBundleEffect
<1>2. Grows /\ WritesOwn(d)
  BY <1>1, KeptGrows, KeptWrites
<1>3. OwnsFew(d)
  BY <1>1 DEF OwnsFew, Owns, OthersStay
<1>4. ASSUME d \notin raced
      PROVE  /\ Final(d) /\ StoreOK(d)' /\ ClientOK(d)' /\ DrawOK(d, t)' /\ EntryOK(d, t)'
             /\ Complete(d) => Calm(d)
  <2>1. /\ store[d].inbox = Missing /\ ~mem[d].card /\ l.first /\ ~l.ok
        /\ l.prekeys = mem[d].inbox /\ mem[d].inbox # Missing /\ Registered(mem[d].inbox)
    BY <1>0, <1>1, <1>4 DEF DrawOK, ClientOK, Fresh
  <2>2. Final(d) /\ StoreOK(d)'
    BY <1>0, <1>1, <1>4, <2>1 DEF Final, StoreOK
  <2>3. ClientOK(d)'
    BY <1>0, <1>1, <1>4, <2>1, ClientStays
  <2>4. DrawOK(d, t)' /\ EntryOK(d, t)'
    BY <1>1, <2>1 DEF DrawOK, EntryOK, Fresh, Resumed, Registered
  <2>5. ~Complete(d)
    BY <2>1 DEF Complete
  <2> QED
    BY <2>2, <2>3, <2>4, <2>5
<1> QED
  BY <1>0, <1>1, <1>2, <1>3, <1>4, UseStays

\* The prekeys kept are the ones about to be published.
LEMMA UseSavePrekeys ==
    ASSUME Typed, Typed', PlacesInv, UseInv, NEW d \in Device, NEW t \in Thread,
           SavePrekeys(d, t)
    PROVE  UseInv'
<1> DEFINE l == at[d][t]
<1>0. /\ l \in Location /\ store[d] \in StoreRec /\ mem[d] \in ClientRec /\ draws \in Nat
      /\ d \notin raced =>
            StoreOK(d) /\ ClientOK(d) /\ Solo(d) /\ DrawOK(d, t) /\ EntryOK(d, t)
  BY UseParts
<1>1. /\ l.pc = "save" /\ OthersStay(d, t) /\ UNCHANGED <<mem, relay, draws, raced>>
      /\ \A e \in Device \ {d} : store'[e] = store[e]
      /\ store'[d].inbox = store[d].inbox /\ store'[d].bundle = store[d].bundle
      /\ store'[d].id = store[d].id /\ store'[d].prekeys = l.prekeys
      /\ \/ at'[d][t].pc = "idle" /\ at'[d][t].list = {} /\ mem[d].bundle = Missing
         \/ /\ at'[d][t].pc = "publish" /\ mem[d].bundle # Missing
            /\ at'[d][t].prekeys = l.prekeys
            /\ at'[d][t].bundle = mem[d].bundle
            /\ at'[d][t].todo = Urls /\ at'[d][t].ok = l.ok
            /\ at'[d][t].list = l.list /\ at'[d][t].first = l.first
  BY SavePrekeysEffect
<1>2. Grows /\ WritesOwn(d)
  BY <1>1, KeptGrows, KeptWrites
<1>3. OwnsFew(d)
  BY <1>1 DEF OwnsFew, Owns, OthersStay
<1>4. ASSUME d \notin raced
      PROVE  /\ Final(d) /\ StoreOK(d)' /\ ClientOK(d)' /\ DrawOK(d, t)' /\ EntryOK(d, t)'
             /\ Complete(d) => Calm(d)
  <2>1. /\ store[d].inbox = Missing /\ ~mem[d].card /\ l.first /\ ~l.ok
        /\ l.prekeys = mem[d].inbox /\ mem[d].inbox # Missing /\ Registered(mem[d].inbox)
        /\ mem[d].bundle = mem[d].inbox
    BY <1>0, <1>1, <1>4 DEF DrawOK, ClientOK, Fresh
  <2>2. Final(d) /\ StoreOK(d)'
    BY <1>0, <1>1, <1>4, <2>1 DEF Final, StoreOK
  <2>3. ClientOK(d)'
    BY <1>0, <1>1, <1>4, <2>1, ClientStays
  <2>4. DrawOK(d, t)' /\ EntryOK(d, t)'
    BY <1>1, <2>1 DEF DrawOK, EntryOK, Fresh, Resumed, Registered
  <2>5. ~Complete(d)
    BY <2>1 DEF Complete
  <2> QED
    BY <2>2, <2>3, <2>4, <2>5
<1> QED
  BY <1>0, <1>1, <1>2, <1>3, <1>4, UseStays

\* A bundle is published under its own number, by its own device.
LEMMA UsePublishBundle ==
    ASSUME Typed, Typed', PlacesInv, UseInv, NEW d \in Device, NEW t \in Thread,
           PublishBundle(d, t)
    PROVE  UseInv'
<1> DEFINE l == at[d][t]
<1>0. /\ l \in Location /\ store[d] \in StoreRec /\ mem[d] \in ClientRec /\ draws \in Nat
      /\ PlaceOK(d, t)
      /\ d \notin raced =>
            StoreOK(d) /\ ClientOK(d) /\ Solo(d) /\ DrawOK(d, t) /\ EntryOK(d, t)
  BY UseParts
<1>1. /\ l.pc = "publish" /\ l.todo # <<>> /\ l.bundle # Missing /\ l.prekeys # Missing
      /\ l.bundle \in Draw /\ l.prekeys \in Draw
  BY <1>0, LocationFields, Draws DEF PublishBundle, Here, PlaceOK
<1>2. /\ OthersStay(d, t) /\ UNCHANGED <<store, mem, draws, raced>>
      /\ \A q \in Relay : /\ relay'[q].boxes = relay[q].boxes
                          /\ relay'[q].list = relay[q].list
      /\ \A q \in Relay, m \in Draw :
            \/ relay'[q].bundles[m] = relay[q].bundles[m]
            \/ /\ m = l.bundle
               /\ relay'[q].bundles[m] =
                     [spk |-> l.prekeys,
                      opks |-> IF relay[q].bundles[m] = NoBundle THEN l.prekeys
                               ELSE relay[q].bundles[m].opks]
      /\ \/ /\ at'[d][t].pc = "publish" /\ at'[d][t].first = l.first
            /\ at'[d][t].bundle = l.bundle
            /\ at'[d][t].prekeys = l.prekeys
            /\ at'[d][t].list = l.list /\ at'[d][t].todo # <<>>
            /\ at'[d][t].ok => l.ok \/ PublishedNext(l.bundle)
         \/ at'[d][t].pc = "card" /\ at'[d][t].list = {} /\ ~l.first
         \/ /\ at'[d][t].pc = "inbox" /\ at'[d][t].list = {} /\ l.first
            /\ l.ok \/ PublishedNext(l.bundle)
         \/ at'[d][t].pc = "idle" /\ at'[d][t].list = {} /\ l.first
  BY <1>1, PublishBundleEffect
<1>3. Grows
  <2>1. ASSUME NEW q \in Relay, NEW m \in Draw, relay[q].bundles[m] # NoBundle
        PROVE  relay'[q].bundles[m] # NoBundle
    <3>1. CASE relay'[q].bundles[m] = relay[q].bundles[m]
      BY <2>1, <3>1
    <3>2. CASE relay'[q].bundles[m] # relay[q].bundles[m]
      <4>0. relay'[q].bundles[m] =
               [spk |-> l.prekeys,
                opks |-> IF relay[q].bundles[m] = NoBundle THEN l.prekeys
                         ELSE relay[q].bundles[m].opks]
        BY <1>2, <3>2
      <4>1. relay'[q].bundles[m].spk = l.prekeys
        BY <4>0
      <4>2. NoBundle.spk = Missing
        BY DEF NoBundle
      <4> QED
        BY <1>1, <4>1, <4>2
    <3> QED
      BY <3>1, <3>2
  <2>2. \A q \in Relay : relay[q].boxes \subseteq relay'[q].boxes
    BY <1>2
  <2> QED
    BY <2>1, <2>2, KeptGrows
<1>4. OwnsFew(d)
  BY <1>2, <1>1 DEF OwnsFew, Owns, OthersStay
<1>5. Owns(d, l.bundle)
  BY <1>1 DEF Owns
<1>6. WritesOwn(d)
  <2>1. ASSUME NEW q \in Relay, NEW m \in Draw, d \notin raced,
               relay'[q].bundles[m] # relay[q].bundles[m]
        PROVE  relay'[q].bundles[m] = [spk |-> m, opks |-> m]
    <3>1. /\ m = l.bundle
          /\ relay'[q].bundles[m] =
                [spk |-> l.prekeys,
                 opks |-> IF relay[q].bundles[m] = NoBundle THEN l.prekeys
                          ELSE relay[q].bundles[m].opks]
      BY <1>2, <2>1
    <3>2. l.prekeys = m
      BY <1>0, <1>1, <2>1, <3>1 DEF DrawOK
    <3>3. relay[q].bundles[m] \in {NoBundle, [spk |-> m, opks |-> m]}
      BY <1>5, <2>1, <3>1 DEF UseInv, BundlesInv
    <3>4. [spk |-> m, opks |-> m].opks = m
      OBVIOUS
    <3> QED
      BY <3>1, <3>2, <3>3, <3>4
  <2>2. \A q \in Relay, m \in Draw :
           relay'[q].bundles[m] # relay[q].bundles[m] => m = l.bundle
    BY <1>2
  <2> QED
    BY <1>2, <1>5, <2>1, <2>2 DEF WritesOwn
<1>7. ASSUME d \notin raced
      PROVE  /\ Final(d) /\ StoreOK(d)' /\ ClientOK(d)' /\ DrawOK(d, t)' /\ EntryOK(d, t)'
             /\ Complete(d) => Calm(d)
  <2>0. /\ StoreOK(d) /\ ClientOK(d) /\ DrawOK(d, t) /\ EntryOK(d, t)
        /\ store[d].inbox \in Number /\ mem[d].inbox \in Number
    BY <1>0, <1>7 DEF StoreRec, ClientRec
  <2>1. Final(d) /\ Calm(d)
    BY <1>2 DEF Final, Calm
  <2>2. StoreOK(d)'
    <3>1. store[d].inbox # Missing =>
             /\ \E r \in Relay : store[d].inbox \in relay'[r].boxes
             /\ \E r \in Relay : relay'[r].bundles[store[d].inbox] # NoBundle
      BY <1>3, <2>0, Draws DEF StoreOK, Grows, PublishedNext
    <3> QED
      BY <1>2, <2>0, <3>1 DEF StoreOK, Registered, Published
  <2>3. ClientOK(d)'
    BY <1>1, <1>2, <2>0, ClientStays DEF ClientOK
  <2>4. /\ l.bundle = mem[d].bundle /\ l.prekeys = l.bundle
        /\ l.ok \/ PublishedNext(l.bundle) =>
              \E r \in Relay : relay'[r].bundles[l.bundle] # NoBundle
    BY <1>1, <1>3, <2>0 DEF Grows, PublishedNext, DrawOK
  <2>5. CASE l.first
    <3>1. Fresh(d, t)
      BY <1>1, <2>5 DEF Fresh
    <3>2. /\ store[d].inbox = Missing /\ mem[d].inbox # Missing
          /\ mem[d].bundle = mem[d].inbox /\ store[d].prekeys = mem[d].inbox
          /\ \E r \in Relay : mem[d].inbox \in relay'[r].boxes
      BY <1>1, <1>3, <2>0, <3>1, Draws DEF DrawOK, Grows
    <3>3. ASSUME /\ at'[d][t].pc = "publish" /\ at'[d][t].first = l.first
                 /\ at'[d][t].bundle = l.bundle
                 /\ at'[d][t].prekeys = l.prekeys
                 /\ at'[d][t].ok => l.ok \/ PublishedNext(l.bundle)
          PROVE  DrawOK(d, t)' /\ EntryOK(d, t)'
      BY <1>2, <2>4, <2>5, <3>2, <3>3
      DEF DrawOK, EntryOK, Fresh, Resumed, Registered, Published
    <3>4. ASSUME at'[d][t].pc = "inbox" /\ (l.ok \/ PublishedNext(l.bundle))
          PROVE  DrawOK(d, t)' /\ EntryOK(d, t)'
      BY <1>2, <2>4, <3>2, <3>4
      DEF DrawOK, EntryOK, Fresh, Resumed, Registered, Published
    <3>5. ASSUME at'[d][t].pc = "idle"
          PROVE  DrawOK(d, t)' /\ EntryOK(d, t)'
      BY <1>2, <3>5 DEF DrawOK, EntryOK, Fresh, Resumed
    <3>6. DrawOK(d, t)' /\ EntryOK(d, t)'
      BY <1>2, <2>5, <3>3, <3>4, <3>5
    <3> QED
      BY <2>1, <2>2, <2>3, <3>6
  <2>6. CASE ~l.first
    <3>1. /\ store[d].inbox # Missing /\ mem[d].inbox = store[d].inbox
          /\ mem[d].bundle = store[d].bundle
      BY <1>1, <2>0, <2>6 DEF EntryOK, Resumed
    <3>2. DrawOK(d, t)' /\ EntryOK(d, t)'
      BY <1>2, <2>4, <2>6, <3>1
      DEF DrawOK, EntryOK, Fresh, Resumed, Registered, Published
    <3> QED
      BY <2>1, <2>2, <2>3, <3>2
  <2> QED
    BY <2>5, <2>6
<1> QED
  BY <1>0, <1>1, <1>2, <1>3, <1>4, <1>6, <1>7, UseStays

\* The mailbox that is stored was registered and published.
LEMMA UseSetInbox ==
    ASSUME Typed, Typed', PlacesInv, UseInv, NEW d \in Device, NEW t \in Thread,
           SetInbox(d, t)
    PROVE  UseInv'
<1> DEFINE l == at[d][t]
<1>0. /\ l \in Location /\ store[d] \in StoreRec /\ mem[d] \in ClientRec /\ draws \in Nat
      /\ d \notin raced =>
            StoreOK(d) /\ ClientOK(d) /\ Solo(d) /\ DrawOK(d, t) /\ EntryOK(d, t)
  BY UseParts
<1>1. /\ l.pc = "inbox" /\ OthersStay(d, t) /\ UNCHANGED <<mem, relay, draws, raced>>
      /\ \A e \in Device \ {d} : store'[e] = store[e]
      /\ store'[d].inbox = mem[d].inbox /\ store'[d].bundle = store[d].bundle
      /\ store'[d].id = store[d].id /\ store'[d].prekeys = store[d].prekeys
      /\ at'[d][t].pc = "bundle" /\ at'[d][t].list = l.list
  BY SetInboxEffect
<1>2. Grows /\ WritesOwn(d)
  BY <1>1, KeptGrows, KeptWrites
<1>3. OwnsFew(d)
  BY <1>1 DEF OwnsFew, Owns, OthersStay
<1>4. ASSUME d \notin raced
      PROVE  /\ Final(d) /\ StoreOK(d)' /\ ClientOK(d)' /\ DrawOK(d, t)' /\ EntryOK(d, t)'
             /\ Complete(d) => Calm(d)
  <2>1. /\ store[d].inbox = Missing /\ mem[d].inbox # Missing /\ ~mem[d].card
        /\ mem[d].bundle = mem[d].inbox /\ store[d].prekeys = mem[d].inbox
        /\ store[d].bundle = Missing
        /\ Registered(mem[d].inbox) /\ Published(mem[d].inbox)
    BY <1>0, <1>1, <1>4 DEF DrawOK, Fresh, ClientOK, StoreOK
  <2>2. Final(d) /\ StoreOK(d)'
    BY <1>1, <2>1 DEF Final, StoreOK, Registered, Published
  <2>3. ClientOK(d)'
    BY <1>0, <1>1, <1>4, <2>1, ClientStays
  <2>4. DrawOK(d, t)' /\ EntryOK(d, t)'
    BY <1>1, <2>1 DEF DrawOK, EntryOK, Fresh, Resumed
  <2>5. ~Complete(d)
    BY <2>1 DEF Complete
  <2> QED
    BY <2>2, <2>3, <2>4, <2>5
<1> QED
  BY <1>0, <1>1, <1>2, <1>3, <1>4, UseStays

\* The bundle that is stored is the one published with the mailbox.
LEMMA UseSetBundle ==
    ASSUME Typed, Typed', PlacesInv, UseInv, NEW d \in Device, NEW t \in Thread,
           SetBundle(d, t)
    PROVE  UseInv'
<1> DEFINE l == at[d][t]
<1>0. /\ l \in Location /\ store[d] \in StoreRec /\ mem[d] \in ClientRec /\ draws \in Nat
      /\ d \notin raced =>
            StoreOK(d) /\ ClientOK(d) /\ Solo(d) /\ DrawOK(d, t) /\ EntryOK(d, t)
  BY UseParts
<1>1. /\ l.pc = "bundle" /\ OthersStay(d, t) /\ UNCHANGED <<mem, relay, draws, raced>>
      /\ \A e \in Device \ {d} : store'[e] = store[e]
      /\ store'[d].bundle = mem[d].bundle /\ store'[d].inbox = store[d].inbox
      /\ store'[d].id = store[d].id /\ store'[d].prekeys = store[d].prekeys
      /\ at'[d][t].pc = "card" /\ at'[d][t].list = l.list
  BY SetBundleEffect
<1>2. Grows /\ WritesOwn(d)
  BY <1>1, KeptGrows, KeptWrites
<1>3. OwnsFew(d)
  BY <1>1 DEF OwnsFew, Owns, OthersStay
<1>4. ASSUME d \notin raced
      PROVE  /\ Final(d) /\ StoreOK(d)' /\ ClientOK(d)' /\ DrawOK(d, t)' /\ EntryOK(d, t)'
             /\ Complete(d) => Calm(d)
  <2>1. /\ store[d].inbox # Missing /\ store[d].bundle = Missing /\ ~mem[d].card
        /\ mem[d].inbox = store[d].inbox /\ mem[d].bundle = store[d].inbox
    BY <1>0, <1>1, <1>4 DEF DrawOK, ClientOK
  <2>2. Final(d) /\ StoreOK(d)'
    BY <1>0, <1>1, <1>4, <2>1 DEF Final, StoreOK, Registered, Published
  <2>3. ClientOK(d)'
    BY <1>0, <1>1, <1>4, <2>1, ClientStays
  <2>4. DrawOK(d, t)' /\ EntryOK(d, t)'
    BY <1>1, <2>1 DEF DrawOK, EntryOK, Fresh, Resumed
  <2>5. ~Complete(d)
    BY <2>1 DEF Complete
  <2> QED
    BY <2>2, <2>3, <2>4, <2>5
<1> QED
  BY <1>0, <1>1, <1>2, <1>3, <1>4, UseStays

\* There is a card only for what the store holds.
LEMMA UseCard ==
    ASSUME Typed, Typed', PlacesInv, UseInv, NEW d \in Device, NEW t \in Thread, Card(d, t)
    PROVE  UseInv'
<1> DEFINE l == at[d][t]
<1>0. /\ l \in Location /\ store[d] \in StoreRec /\ mem[d] \in ClientRec /\ draws \in Nat
      /\ d \notin raced =>
            StoreOK(d) /\ ClientOK(d) /\ Solo(d) /\ DrawOK(d, t) /\ EntryOK(d, t)
  BY UseParts
<1>1. /\ l.pc = "card" /\ OthersStay(d, t) /\ UNCHANGED <<store, relay, draws, raced>>
      /\ \A e \in Device \ {d} : mem'[e] = mem[e]
      /\ mem'[d].inbox = mem[d].inbox /\ mem'[d].bundle = mem[d].bundle
      /\ mem'[d].id = mem[d].id
      /\ \/ /\ mem[d].inbox # Missing /\ mem[d].bundle # Missing /\ mem'[d].card
            /\ at'[d][t].pc = "id" /\ at'[d][t].list = l.list
         \/ mem' = mem /\ at'[d][t].pc = "idle" /\ at'[d][t].list = {}
  BY CardEffect
<1>2. Grows /\ WritesOwn(d)
  BY <1>1, KeptGrows, KeptWrites
<1>3. OwnsFew(d)
  BY <1>1 DEF OwnsFew, Owns, OthersStay
<1>4. ASSUME d \notin raced
      PROVE  /\ Final(d) /\ StoreOK(d)' /\ ClientOK(d)' /\ DrawOK(d, t)' /\ EntryOK(d, t)'
             /\ Complete(d) => Calm(d)
  <2>1. /\ store[d].inbox # Missing
        /\ mem[d].inbox = store[d].inbox /\ mem[d].bundle = store[d].bundle
        /\ mem[d].card => store[d].bundle # Missing
    BY <1>0, <1>1, <1>4 DEF EntryOK, Resumed, ClientOK
  <2>2. Final(d) /\ StoreOK(d)' /\ Calm(d)
    BY <1>0, <1>1, <1>4 DEF Final, StoreOK, Registered, Published, Calm
  <2>3. ClientOK(d)'
    BY <1>0, <1>1, <1>4, <2>1, ClientStays
  <2>4. DrawOK(d, t)' /\ EntryOK(d, t)'
    BY <1>1, <2>1 DEF DrawOK, EntryOK, Fresh, Resumed
  <2> QED
    BY <2>2, <2>3, <2>4
<1> QED
  BY <1>0, <1>1, <1>2, <1>3, <1>4, UseStays

\* The entry a device advertises is one a list may name.
LEMMA EntryListable ==
    ASSUME NEW d \in Device, store'[d].inbox # Missing, StoreOK(d)',
           store'[d].id = mem[d].id, store'[d].inbox = mem[d].inbox,
           store'[d].bundle = mem[d].bundle
    PROVE  \A x \in {DeviceEntry(d)} : Listable(x)'
<1>1. /\ DeviceEntry(d).id = store'[d].id /\ DeviceEntry(d).inbox = store'[d].inbox
      /\ DeviceEntry(d).bundle = store'[d].bundle
  BY DEF DeviceEntry
<1>2. \E r \in Relay : store'[d].inbox \in relay'[r].boxes
  BY DEF StoreOK, Registered
<1>3. ASSUME NEW x, x.id = store'[d].id, x.inbox = store'[d].inbox,
             x.bundle = store'[d].bundle
      PROVE  Listable(x)'
  BY <1>2, <1>3 DEF Listable, Registered
<1> QED
  BY <1>1, <1>3

\* A stored id is taken over, else one is drawn.
LEMMA UseDeviceId ==
    ASSUME Typed, Typed', PlacesInv, UseInv, NEW d \in Device, NEW t \in Thread,
           DeviceId(d, t)
    PROVE  UseInv'
<1> DEFINE l == at[d][t]
<1>0. /\ l \in Location /\ store[d] \in StoreRec /\ mem[d] \in ClientRec /\ draws \in Nat
      /\ PlaceOK(d, t)
      /\ d \notin raced =>
            StoreOK(d) /\ ClientOK(d) /\ Solo(d) /\ DrawOK(d, t) /\ EntryOK(d, t)
  BY UseParts
<1>1. l.pc = "id" /\ mem[d].inbox # Missing
  BY <1>0 DEF DeviceId, Here, PlaceOK
<1>2. /\ OthersStay(d, t) /\ UNCHANGED <<store, mem, relay, raced>> /\ draws <= draws'
      /\ \/ /\ mem[d].id # Missing /\ mem[d].bundle = Missing
            /\ at'[d][t].pc = "idle" /\ at'[d][t].list = {}
         \/ /\ mem[d].id # Missing /\ mem[d].bundle # Missing
            /\ at'[d][t].pc = "read" /\ at'[d][t].list = {DeviceEntry(d)}
         \/ /\ mem[d].id = Missing /\ at'[d][t].pc = "own" /\ at'[d][t].id # Missing
            /\ at'[d][t].list = l.list
            /\ store[d].id # Missing => at'[d][t].id = store[d].id
  BY <1>1, DeviceIdEffect
<1>3. Grows /\ WritesOwn(d)
  BY <1>2, KeptGrows, KeptWrites
<1>4. OwnsFew(d)
  BY <1>2 DEF OwnsFew, Owns, OthersStay
<1>5. ASSUME d \notin raced
      PROVE  /\ store[d].inbox # Missing /\ mem[d].bundle # Missing
             /\ mem[d].inbox = store[d].inbox /\ mem[d].bundle = store[d].bundle
             /\ mem[d].id # Missing => store[d].id = mem[d].id
  <2>1. /\ store[d].inbox # Missing /\ mem[d].bundle # Missing
        /\ mem[d].inbox = store[d].inbox /\ mem[d].bundle = store[d].bundle
    BY <1>0, <1>1, <1>5 DEF EntryOK, Resumed
  <2>2. store[d].id = Missing => \A u \in Thread : at[d][u].pc # "keep"
    BY <1>0, <1>1, <1>5 DEF Solo, Complete
  <2> QED
    BY <1>0, <1>5, <2>1, <2>2 DEF ClientOK
<1>6. ASSUME d \notin raced
      PROVE  /\ Final(d) /\ StoreOK(d)' /\ ClientOK(d)' /\ DrawOK(d, t)' /\ EntryOK(d, t)'
             /\ Complete(d) => Calm(d)
  <2>1. Final(d) /\ StoreOK(d)' /\ Calm(d)
    BY <1>0, <1>2, <1>6 DEF Final, StoreOK, Registered, Published, Calm
  <2>2. ClientOK(d)'
    BY <1>0, <1>1, <1>2, <1>6, ClientStays DEF ClientOK
  <2>3. DrawOK(d, t)'
    BY <1>2 DEF DrawOK, Fresh
  <2>4. EntryOK(d, t)'
    BY <1>2, <1>5, <1>6 DEF EntryOK, Resumed, DeviceEntry
  <2> QED
    BY <2>1, <2>2, <2>3, <2>4
<1>7. raced' = {} => \A x \in at'[d][t].list : x \in l.list \/ Listable(x)'
  <2> SUFFICES ASSUME raced' = {} PROVE \A x \in at'[d][t].list : x \in l.list \/ Listable(x)'
    OBVIOUS
  <2>1. d \notin raced
    BY <1>2
  <2>2. mem[d].id # Missing => \A x \in {DeviceEntry(d)} : Listable(x)'
    BY <1>2, <1>5, <1>6, <2>1, EntryListable
  <2> QED
    BY <1>2, <2>2
<1> QED
  BY <1>0, <1>1, <1>2, <1>3, <1>4, <1>6, <1>7, UseStays

\* The client takes the id.
LEMMA UseSetDeviceId ==
    ASSUME Typed, Typed', PlacesInv, UseInv, NEW d \in Device, NEW t \in Thread,
           SetDeviceId(d, t)
    PROVE  UseInv'
<1> DEFINE l == at[d][t]
<1>0. /\ l \in Location /\ store[d] \in StoreRec /\ mem[d] \in ClientRec /\ draws \in Nat
      /\ d \notin raced =>
            StoreOK(d) /\ ClientOK(d) /\ Solo(d) /\ DrawOK(d, t) /\ EntryOK(d, t)
  BY UseParts
<1>1. /\ l.pc = "own" /\ OthersStay(d, t) /\ UNCHANGED <<store, relay, draws, raced>>
      /\ \A e \in Device \ {d} : mem'[e] = mem[e]
      /\ mem'[d].inbox = mem[d].inbox /\ mem'[d].bundle = mem[d].bundle
      /\ mem'[d].card = mem[d].card /\ mem'[d].id = l.id
      /\ at'[d][t].pc = "keep" /\ at'[d][t].list = l.list
  BY SetDeviceIdEffect
<1>2. Grows /\ WritesOwn(d)
  BY <1>1, KeptGrows, KeptWrites
<1>3. OwnsFew(d)
  BY <1>1 DEF OwnsFew, Owns, OthersStay
<1>4. ASSUME d \notin raced
      PROVE  /\ Final(d) /\ StoreOK(d)' /\ ClientOK(d)' /\ DrawOK(d, t)' /\ EntryOK(d, t)'
             /\ Complete(d) => Calm(d)
  <2>1. /\ store[d].inbox # Missing /\ mem[d].bundle # Missing
        /\ mem[d].inbox = store[d].inbox /\ mem[d].bundle = store[d].bundle
        /\ l.id # Missing /\ store[d].id \in {Missing, l.id}
    BY <1>0, <1>1, <1>4 DEF EntryOK, Resumed
  <2>2. Final(d) /\ StoreOK(d)'
    BY <1>0, <1>1, <1>4 DEF Final, StoreOK, Registered, Published
  <2>3. ClientOK(d)'
    BY <1>1, <2>1 DEF ClientOK
  <2>4. DrawOK(d, t)' /\ EntryOK(d, t)'
    BY <1>1, <2>1 DEF DrawOK, EntryOK, Fresh, Resumed
  <2>5. Complete(d) => Calm(d)
    BY <1>1, <2>1 DEF Complete, Calm
  <2> QED
    BY <2>2, <2>3, <2>4, <2>5
<1> QED
  BY <1>0, <1>1, <1>2, <1>3, <1>4, UseStays

\* The id is written once.
LEMMA UseKeepDeviceId ==
    ASSUME Typed, Typed', PlacesInv, UseInv, NEW d \in Device, NEW t \in Thread,
           KeepDeviceId(d, t)
    PROVE  UseInv'
<1> DEFINE l == at[d][t]
<1>0. /\ l \in Location /\ store[d] \in StoreRec /\ mem[d] \in ClientRec /\ draws \in Nat
      /\ PlaceOK(d, t)
      /\ d \notin raced =>
            StoreOK(d) /\ ClientOK(d) /\ Solo(d) /\ DrawOK(d, t) /\ EntryOK(d, t)
  BY UseParts
<1>1. l.pc = "keep" /\ mem[d].inbox # Missing /\ mem[d].id # Missing
  BY <1>0 DEF KeepDeviceId, Here, PlaceOK
<1>2. /\ OthersStay(d, t) /\ UNCHANGED <<mem, relay, draws, raced>>
      /\ \A e \in Device \ {d} : store'[e] = store[e]
      /\ store'[d].inbox = store[d].inbox /\ store'[d].bundle = store[d].bundle
      /\ store'[d].prekeys = store[d].prekeys /\ store'[d].id = mem[d].id
      /\ \/ at'[d][t].pc = "idle" /\ mem[d].bundle = Missing /\ at'[d][t].list = {}
         \/ /\ at'[d][t].pc = "read" /\ mem[d].bundle # Missing
            /\ at'[d][t].list = {DeviceEntry(d)}
  BY <1>1, KeepDeviceIdEffect
<1>3. Grows /\ WritesOwn(d)
  BY <1>2, KeptGrows, KeptWrites
<1>4. OwnsFew(d)
  BY <1>2 DEF OwnsFew, Owns, OthersStay
<1>5. ASSUME d \notin raced
      PROVE  /\ store[d].inbox # Missing /\ mem[d].bundle # Missing
             /\ mem[d].inbox = store[d].inbox /\ mem[d].bundle = store[d].bundle
             /\ store[d].id \in {Missing, mem[d].id}
  BY <1>0, <1>1, <1>5 DEF EntryOK, Resumed
<1>6. ASSUME d \notin raced
      PROVE  /\ Final(d) /\ StoreOK(d)' /\ ClientOK(d)' /\ DrawOK(d, t)' /\ EntryOK(d, t)'
             /\ Complete(d) => Calm(d)
  <2>1. Final(d) /\ StoreOK(d)'
    BY <1>0, <1>2, <1>5, <1>6 DEF Final, StoreOK, Registered, Published
  <2>2. ClientOK(d)'
    BY <1>2, <1>5, <1>6 DEF ClientOK
  <2>3. DrawOK(d, t)'
    BY <1>2 DEF DrawOK, Fresh
  <2>4. EntryOK(d, t)'
    BY <1>2, <1>5, <1>6 DEF EntryOK, Resumed, DeviceEntry
  <2>5. Complete(d) => Calm(d)
    BY <1>2, <1>5, <1>6 DEF Complete, Calm
  <2> QED
    BY <2>1, <2>2, <2>3, <2>4, <2>5
<1>7. raced' = {} => \A x \in at'[d][t].list : Listable(x)'
  <2> SUFFICES ASSUME raced' = {} PROVE \A x \in at'[d][t].list : Listable(x)'
    OBVIOUS
  <2>1. d \notin raced
    BY <1>2
  <2>2. \A x \in {DeviceEntry(d)} : Listable(x)'
    BY <1>2, <1>5, <1>6, <2>1, EntryListable
  <2> QED
    BY <1>2, <2>2
<1> QED
  BY <1>0, <1>1, <1>2, <1>3, <1>4, <1>6, <1>7, UseStays

\* The list that is written is the one that was read, with this device.
LEMMA UseReadList ==
    ASSUME Typed, Typed', PlacesInv, UseInv, NEW d \in Device, NEW t \in Thread,
           ReadList(d, t)
    PROVE  UseInv'
<1> DEFINE l == at[d][t]
<1>0. /\ l \in Location /\ store[d] \in StoreRec /\ mem[d] \in ClientRec /\ draws \in Nat
      /\ d \notin raced =>
            StoreOK(d) /\ ClientOK(d) /\ Solo(d) /\ DrawOK(d, t) /\ EntryOK(d, t)
  BY UseParts
<1>1. /\ l.pc = "read" /\ OthersStay(d, t)
      /\ UNCHANGED <<store, mem, relay, draws, raced>>
  BY ReadListEffect
<1>2. PICK S \in SUBSET Relay, entry \in l.list :
         \/ at'[d][t].pc = "idle" /\ at'[d][t].list = {}
         \/ /\ at'[d][t].pc = "list" /\ at'[d][t].todo = Urls
            /\ at'[d][t].list = WithDevice(FirstList(S), entry)
  BY ReadListEffect
<1>3. FirstList(S) = {} \/ \E r \in Relay : FirstList(S) = relay[r].list
  BY FirstListHeld
<1>4. \A x \in at'[d][t].list : x \in l.list \/ \E q \in Relay : x \in relay[q].list
  BY <1>2, <1>3 DEF WithDevice
<1>5. Grows /\ WritesOwn(d)
  BY <1>1, KeptGrows, KeptWrites
<1>6. OwnsFew(d)
  BY <1>1, <1>2 DEF OwnsFew, Owns, OthersStay
<1>7. ASSUME d \notin raced
      PROVE  /\ Final(d) /\ StoreOK(d)' /\ ClientOK(d)' /\ DrawOK(d, t)' /\ EntryOK(d, t)'
             /\ Complete(d) => Calm(d)
  <2>1. Final(d) /\ StoreOK(d)' /\ Calm(d)
    BY <1>0, <1>1, <1>7 DEF Final, StoreOK, Registered, Published, Calm
  <2>2. ClientOK(d)'
    BY <1>0, <1>1, <1>7, ClientStays DEF ClientOK
  <2>3. DrawOK(d, t)' /\ EntryOK(d, t)'
    BY <1>0, <1>1, <1>2, <1>7 DEF DrawOK, EntryOK, Fresh, Resumed
  <2> QED
    BY <2>1, <2>2, <2>3
<1> QED
  BY <1>0, <1>1, <1>4, <1>5, <1>6, <1>7, UseStays

\* A relay's list becomes the one this thread made.
LEMMA UsePublishList ==
    ASSUME Typed, Typed', PlacesInv, UseInv, NEW d \in Device, NEW t \in Thread,
           PublishList(d, t)
    PROVE  UseInv'
<1> DEFINE l == at[d][t]
<1>0. /\ l \in Location /\ store[d] \in StoreRec /\ mem[d] \in ClientRec /\ draws \in Nat
      /\ PlaceOK(d, t)
      /\ d \notin raced =>
            StoreOK(d) /\ ClientOK(d) /\ Solo(d) /\ DrawOK(d, t) /\ EntryOK(d, t)
  BY UseParts
<1>1. l.pc = "list" /\ l.todo # <<>>
  BY <1>0 DEF PublishList, Here, PlaceOK
<1>2. /\ OthersStay(d, t) /\ UNCHANGED <<store, draws, raced>>
      /\ \A e \in Device \ {d} : mem'[e] = mem[e]
      /\ mem'[d].inbox = mem[d].inbox /\ mem'[d].bundle = mem[d].bundle
      /\ mem'[d].card = mem[d].card /\ mem'[d].id = mem[d].id
      /\ \A q \in Relay : /\ relay'[q].boxes = relay[q].boxes
                          /\ relay'[q].bundles = relay[q].bundles
                          /\ relay'[q].list \in {relay[q].list, l.list}
      /\ \/ at'[d][t].pc = "keys" /\ at'[d][t].list = {}
         \/ at'[d][t].pc = "list" /\ at'[d][t].list = l.list
  BY <1>1, PublishListEffect DEF ClientKept
<1>3. Grows /\ WritesOwn(d)
  BY <1>2, KeptGrows, KeptWrites
<1>4. OwnsFew(d)
  BY <1>2 DEF OwnsFew, Owns, OthersStay
<1>5. ASSUME d \notin raced
      PROVE  /\ Final(d) /\ StoreOK(d)' /\ ClientOK(d)' /\ DrawOK(d, t)' /\ EntryOK(d, t)'
             /\ Complete(d) => Calm(d)
  <2>1. Final(d) /\ StoreOK(d)' /\ Calm(d)
    BY <1>0, <1>2, <1>5 DEF Final, StoreOK, Registered, Published, Calm
  <2>2. ClientOK(d)'
    BY <1>0, <1>1, <1>2, <1>5, ClientStays DEF ClientOK
  <2>3. DrawOK(d, t)' /\ EntryOK(d, t)'
    BY <1>0, <1>1, <1>2, <1>5 DEF DrawOK, EntryOK, Fresh, Resumed
  <2> QED
    BY <2>1, <2>2, <2>3
<1> QED
  BY <1>0, <1>1, <1>2, <1>3, <1>4, <1>5, UseStays

\* The sync keys touch nothing of this.
LEMMA UsePublishKeys ==
    ASSUME Typed, Typed', PlacesInv, UseInv, NEW d \in Device, NEW t \in Thread,
           PublishKeys(d, t)
    PROVE  UseInv'
<1> DEFINE l == at[d][t]
<1>0. /\ l \in Location /\ store[d] \in StoreRec /\ mem[d] \in ClientRec /\ draws \in Nat
      /\ PlaceOK(d, t)
      /\ d \notin raced =>
            StoreOK(d) /\ ClientOK(d) /\ Solo(d) /\ DrawOK(d, t) /\ EntryOK(d, t)
  BY UseParts
<1>1. l.pc = "keys" /\ mem[d].id # Missing
  BY <1>0 DEF PublishKeys, Here, PlaceOK
<1>2. /\ OthersStay(d, t) /\ UNCHANGED <<mem, raced>> /\ draws <= draws'
      /\ \A e \in Device \ {d} : store'[e] = store[e]
      /\ store'[d].inbox = store[d].inbox /\ store'[d].bundle = store[d].bundle
      /\ store'[d].id = store[d].id /\ store'[d].prekeys = store[d].prekeys
      /\ \A q \in Relay : /\ relay'[q].boxes = relay[q].boxes
                          /\ relay'[q].bundles = relay[q].bundles
                          /\ relay'[q].list = relay[q].list
      /\ at'[d][t].pc = "idle" /\ at'[d][t].list = {}
  BY <1>1, PublishKeysEffect
<1>3. Grows /\ WritesOwn(d)
  BY <1>2, KeptGrows, KeptWrites
<1>4. OwnsFew(d)
  BY <1>2 DEF OwnsFew, Owns, OthersStay
<1>5. ASSUME d \notin raced
      PROVE  /\ Final(d) /\ StoreOK(d)' /\ ClientOK(d)' /\ DrawOK(d, t)' /\ EntryOK(d, t)'
             /\ Complete(d) => Calm(d)
  <2>1. Final(d) /\ StoreOK(d)' /\ Calm(d)
    BY <1>0, <1>2, <1>5 DEF Final, StoreOK, Registered, Published, Calm
  <2>2. ClientOK(d)'
    BY <1>0, <1>1, <1>2, <1>5, ClientStays DEF ClientOK
  <2>3. DrawOK(d, t)' /\ EntryOK(d, t)'
    BY <1>2 DEF DrawOK, EntryOK, Fresh, Resumed
  <2> QED
    BY <2>1, <2>2, <2>3
<1> QED
  BY <1>0, <1>1, <1>2, <1>3, <1>4, <1>5, UseStays

\* The end of a process keeps it: what the store and the relays hold is enough.
LEMMA UseCrash ==
    ASSUME Typed, Typed', PlacesInv, UseInv, NEW d \in Device, Crash(d)
    PROVE  UseInv'
<1>1. /\ UNCHANGED <<store, relay, draws, raced>>
      /\ \A e \in Device \ {d} : mem'[e] = mem[e] /\ at'[e] = at[e]
      /\ mem'[d].inbox = Missing /\ mem'[d].bundle = Missing /\ mem'[d].id = Missing
      /\ ~mem'[d].card
      /\ \A t \in Thread : at'[d][t].pc = "idle" /\ at'[d][t].list = {}
  BY CrashEffect
<1>2. Alone(d) /\ Grows /\ WritesOwn(d) /\ Final(d)
  BY <1>1, KeptGrows, KeptWrites DEF Alone, Final
<1>3. OwnsFew(d) /\ draws <= draws'
  <2>1. OwnsFew(d)
    BY <1>1 DEF OwnsFew, Owns
  <2>2. draws <= draws'
    BY <1>1 DEF Typed
  <2> QED
    BY <2>1, <2>2
<1>4. OwnInv' /\ BundlesInv'
  BY <1>1, <1>2, <1>3, OwnStays, BundlesStay DEF UseInv
<1>5. ASSUME NEW e \in Device \ raced'
      PROVE  DeviceOK(e)'
  <2>0. DeviceOK(e)
    BY <1>1 DEF UseInv
  <2>1. CASE e # d
    BY <1>2, <2>0, <2>1, OthersOK
  <2>2. CASE e = d
    <3>1. StoreOK(d)'
      BY <1>1, <2>0, <2>2 DEF DeviceOK, StoreOK, Registered, Published
    <3>2. ClientOK(d)' /\ Solo(d)'
      BY <1>1 DEF ClientOK, Solo
    <3>3. \A t \in Thread : DrawOK(d, t)' /\ EntryOK(d, t)'
      BY <1>1 DEF DrawOK, EntryOK, Fresh, Resumed
    <3> QED
      BY <2>2, <3>1, <3>2, <3>3 DEF DeviceOK
  <2> QED
    BY <2>1, <2>2
<1>6. raced' = {} => ListsInv'
  <2>1. raced' = {} => ListsInv
    BY <1>1 DEF UseInv
  <2>2. \A r \in Relay : \A x \in relay'[r].list : \E q \in Relay : x \in relay[q].list
    BY <1>1
  <2> QED
    BY <1>1, <1>2, <2>1, <2>2, ListsStay
<1> QED
  BY <1>4, <1>5, <1>6 DEF UseInv

\* Nothing the invariant speaks of changes in a step that changes nothing.
LEMMA UseStutter ==
    ASSUME UseInv, UNCHANGED vars
    PROVE  UseInv'
<1>1. UNCHANGED <<store, mem, at, relay, draws, raced>>
  BY DEF vars
<1>2. OwnInv' /\ BundlesInv'
  BY <1>1 DEF UseInv, OwnInv, BundlesInv, Owns
<1>3. ASSUME NEW d \in Device \ raced'
      PROVE  DeviceOK(d)'
  <2>1. DeviceOK(d)
    BY <1>1 DEF UseInv
  <2>2. StoreOK(d)' /\ ClientOK(d)' /\ Solo(d)'
    BY <1>1, <2>1 DEF DeviceOK, StoreOK, ClientOK, Solo, Complete, Registered, Published
  <2>3. ASSUME NEW t \in Thread
        PROVE  DrawOK(d, t)' /\ EntryOK(d, t)'
    <3>1. DrawOK(d, t) /\ EntryOK(d, t)
      BY <2>1 DEF DeviceOK
    <3>2. DrawOK(d, t)'
      BY <1>1, <3>1 DEF DrawOK, Fresh, Registered, Published
    <3>3. EntryOK(d, t)'
      BY <1>1, <3>1 DEF EntryOK, Resumed, DeviceEntry
    <3> QED
      BY <3>2, <3>3
  <2> QED
    BY <2>2, <2>3 DEF DeviceOK
<1>4. raced' = {} => ListsInv'
  BY <1>1 DEF UseInv, ListsInv, Listable, Registered
<1> QED
  BY <1>2, <1>3, <1>4 DEF UseInv

\* Nothing is drawn, published or listed before anything ran.
LEMMA UseInit == Init => UseInv
<1> SUFFICES ASSUME Init
             PROVE  UseInv
  OBVIOUS
<1>1. /\ \A d \in Device :
            /\ store[d].inbox = Missing /\ store[d].bundle = Missing
            /\ store[d].prekeys = Missing /\ store[d].id = Missing
            /\ mem[d].inbox = Missing /\ mem[d].bundle = Missing
            /\ mem[d].id = Missing /\ ~mem[d].card
            /\ \A t \in Thread : at[d][t].pc = "idle" /\ at[d][t].list = {}
      /\ \A r \in Relay : /\ relay[r].list = {}
                          /\ \A n \in Draw : relay[r].bundles[n] = NoBundle
  BY DEF Init, EmptyStore, NewClient, Idle, NewRelay
<1>2. \A d \in Device, n \in Draw : ~Owns(d, n)
  BY <1>1 DEF Owns
<1>3. OwnInv /\ BundlesInv /\ ListsInv
  BY <1>1, <1>2 DEF OwnInv, BundlesInv, ListsInv
<1>4. ASSUME NEW d \in Device
      PROVE  DeviceOK(d)
  BY <1>1 DEF DeviceOK, StoreOK, ClientOK, Solo, DrawOK, EntryOK, Fresh, Resumed
<1> QED
  BY <1>3, <1>4 DEF UseInv

\* Every step keeps the invariant.
LEMMA UseStep ==
    ASSUME TypeInv, UseInv, [Next]_vars
    PROVE  TypeInv' /\ UseInv'
<1>1. TypeInv'
  BY TypeInvStep
<1>2. Typed /\ Typed' /\ PlacesInv
  <2>1. TypeOK /\ TypeOK' /\ PlacesInv
    BY <1>1 DEF TypeInv
  <2>2. TypeOK' => Typed'
    BY DEF TypeOK, Typed, StoreRec, ClientRec, RelayRec, Location, Number
  <2> QED
    BY <2>1, <2>2, TypedIsTypeOK
<1>3. CASE UNCHANGED vars
  BY <1>1, <1>3, UseStutter
<1>4. ASSUME NEW d \in Device, Crash(d)
      PROVE  UseInv'
  BY <1>2, <1>4, UseCrash
<1>5. ASSUME NEW d \in Device, NEW t \in Thread, Provision(d, t)
      PROVE  UseInv'
  <2>1. CASE Call(d, t) \/ Register(d, t) \/ Create(d, t) \/ NewBundle(d, t)
             \/ SavePrekeys(d, t)
    BY <1>2, <2>1, UseCall, UseRegister, UseCreate, UseNewBundle, UseSavePrekeys
  <2>2. CASE PublishBundle(d, t) \/ SetInbox(d, t) \/ SetBundle(d, t) \/ Card(d, t)
    BY <1>2, <2>2, UsePublishBundle, UseSetInbox, UseSetBundle, UseCard
  <2>3. CASE DeviceId(d, t) \/ SetDeviceId(d, t) \/ KeepDeviceId(d, t)
    BY <1>2, <2>3, UseDeviceId, UseSetDeviceId, UseKeepDeviceId
  <2>4. CASE ReadList(d, t) \/ PublishList(d, t) \/ PublishKeys(d, t)
    BY <1>2, <2>4, UseReadList, UsePublishList, UsePublishKeys
  <2> QED
    BY <1>5, <2>1, <2>2, <2>3, <2>4 DEF Provision
<1> QED
  BY <1>1, <1>3, <1>4, <1>5 DEF Next

\* The invariant holds in every state.
LEMMA UseInvHolds == Spec => [](TypeInv /\ UseInv)
<1>1. Init => TypeInv /\ UseInv
  BY TypeInvInit, UseInit
<1>2. TypeInv /\ UseInv /\ [Next]_vars => (TypeInv /\ UseInv)'
  BY UseStep
<1> QED
  BY <1>1, <1>2, PTL DEF Spec

\* Unless two threads of the device met in its first provision, the bundle it stores is on
\* some relay, and everywhere with the prekeys whose private halves the store holds
\* (provision, _publish_bundle, save_prekeys): whatever relays fail, whenever the process
\* ends, however many threads provision later on, and even when the threads of other
\* devices of the account did meet.
THEOREM BundleUsable == Spec => []PublishedUsable
<1>1. TypeInv /\ UseInv => PublishedUsable
  <2> SUFFICES ASSUME TypeInv, UseInv, NEW d \in Device \ raced,
                      store[d].bundle # Missing
               PROVE  {relay[r].bundles[store[d].bundle] : r \in Relay} \ {NoBundle}
                         = {[spk |-> store[d].prekeys, opks |-> store[d].prekeys]}
    BY DEF PublishedUsable
  <2> DEFINE n == store[d].bundle
  <2>1. StoreOK(d) /\ n \in Draw
    <3>1. store[d] \in StoreRec
      BY TypedIsTypeOK DEF TypeInv, Typed
    <3> QED
      BY <3>1 DEF UseInv, DeviceOK, StoreRec, Number
  <2>2. n = store[d].inbox /\ store[d].prekeys = n /\ Published(n)
    BY <2>1 DEF StoreOK
  <2>3. PICK q \in Relay : relay[q].bundles[n] # NoBundle
    BY <2>2 DEF Published
  <2>4. \A r \in Relay : relay[r].bundles[n] \in {NoBundle, [spk |-> n, opks |-> n]}
    <3>1. Owns(d, n)
      BY DEF Owns
    <3> QED
      BY <2>1, <3>1 DEF UseInv, BundlesInv
  <2>5. [spk |-> n, opks |-> n] # NoBundle
    BY <2>1, Draws DEF NoBundle
  <2> QED
    BY <2>2, <2>3, <2>4, <2>5
<1> QED
  BY <1>1, UseInvHolds, PTL

\* Unless two threads of a device met in its first provision, whoever a relay's list names
\* has that mailbox, bundle and id in its store, and the mailbox is on some relay
\* (_ensure_device_registered): a restart does not leave contacts writing to a mailbox
\* nobody reads.
THEOREM ListReachable == Spec => []ListedReachable
<1>1. TypeInv /\ UseInv => ListedReachable
  BY DEF UseInv, ListsInv, Listable, Registered, ListedReachable
<1> QED
  BY <1>1, UseInvHolds, PTL

=============================================================================
