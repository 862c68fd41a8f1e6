------------------------------ MODULE Ratchet ------------------------------
(***************************************************************************)
(* One Double Ratchet session of crypto/ratchet.py between the party that  *)
(* ran X3DH first and the one that answered it.  The network below it      *)
(* loses, repeats and reorders: every message ever sent may be delivered   *)
(* at any later time, any number of times, among messages that are damaged *)
(* or belong to another session.                                           *)
(*                                                                         *)
(* Cryptography is symbolic.  A key pair is [owner, k], the k-th its owner *)
(* made; an X25519 agreement is the set of the two key pairs.  KDF_RK maps *)
(* a root key and an agreement to a root key and a chain, both named by    *)
(* the sequence of all agreements mixed in so far.  KDF_CK walks a chain,  *)
(* so a message key is a chain and a position, and the position of a live  *)
(* chain is the send_count or recv_count next to it.  Two keys are equal   *)
(* exactly when they are derived alike, and the AEAD opens a message       *)
(* exactly under its own key, with its header unchanged.                   *)
(***************************************************************************)
EXTENDS Naturals, Sequences, FiniteSets

CONSTANTS
    Initiator,   \* the party that calls Ratchet.initiator
    Responder,   \* the party that calls Ratchet.responder
    NoChain,     \* a chain that does not exist yet (None)
    NoKey,       \* the remote key before the first message (None)
    MAX_SKIP,    \* the constant of the same name
    Noise,       \* messages that do not authenticate: damaged, or unrelated
    Talking,     \* the parties whose application sends on this session
    MaxSent,     \* bound: messages sent per chain
    MaxKey       \* bound: key pairs a party makes after its first

VARIABLES
    state,       \* the RatchetState of each party
    network,     \* every message sent
    delivered    \* every message its receiver has decrypted

vars == <<state, network, delivered>>

ASSUME PartiesAssumption == Initiator # Responder
ASSUME SkipAssumption == MAX_SKIP \in Nat
ASSUME TalkingAssumption == Talking \subseteq {Initiator, Responder}
ASSUME BoundsAssumption == MaxSent \in Nat /\ MaxKey \in Nat

Party == {Initiator, Responder}
KeyPair == [owner : Party, k : Nat]
Agreement == SUBSET KeyPair
Chain == Seq(Agreement)

ASSUME SentinelAssumption == NoChain \notin Chain /\ NoKey \notin KeyPair

-----------------------------------------------------------------------------
(* States and messages                                                     *)

\* An entry of the skipped-key cache: the key at position n of chain, filed
\* under the remote key and the number of the message it is for.
SkippedKey == [dh : KeyPair, n : Nat, chain : Chain]

RatchetState ==
    [root_key : Chain,
     sending_chain : Chain \cup {NoChain},
     receiving_chain : Chain \cup {NoChain},
     dh_self : KeyPair,
     dh_remote : KeyPair \cup {NoKey},
     send_count : Nat,
     recv_count : Nat,
     prev_send_count : Nat,
     skipped : SUBSET SkippedKey]

\* The header, and the chain whose n-th key encrypted the message.
Message == [dh : KeyPair, pn : Nat, n : Nat, chain : Chain]

ASSUME NoiseAssumption == Noise \subseteq Message

\* Ratchet.initiator against the responder's signed prekey, the responder's
\* key pair 0: one KDF_RK step gives the first sending chain.
InitiatorState ==
    LET self == [owner |-> Initiator, k |-> 0]
        spk == [owner |-> Responder, k |-> 0]
    IN  [root_key |-> <<{self, spk}>>,
         sending_chain |-> <<{self, spk}>>,
         receiving_chain |-> NoChain,
         dh_self |-> self,
         dh_remote |-> spk,
         send_count |-> 0, recv_count |-> 0, prev_send_count |-> 0,
         skipped |-> {}]

\* Ratchet.responder: nothing is derived before the first message.
ResponderState ==
    [root_key |-> <<>>,
     sending_chain |-> NoChain,
     receiving_chain |-> NoChain,
     dh_self |-> [owner |-> Responder, k |-> 0],
     dh_remote |-> NoKey,
     send_count |-> 0, recv_count |-> 0, prev_send_count |-> 0,
     skipped |-> {}]

Init ==
    /\ state = [p \in Party |-> IF p = Initiator THEN InitiatorState ELSE ResponderState]
    /\ network = {}
    /\ delivered = {}

-----------------------------------------------------------------------------
(* Ratchet.encrypt                                                         *)

\* Mutant: the missing chain is not noticed.
Encrypt_Unguarded(p) ==
    LET s == state[p] IN
    /\ p \in Talking
    /\ s.send_count < MaxSent
    /\ network' = network \cup
          {[dh |-> s.dh_self, pn |-> s.prev_send_count, n |-> s.send_count,
            chain |-> s.sending_chain]}
    /\ state' = [state EXCEPT ![p].send_count = @ + 1]
    /\ UNCHANGED delivered

\* Without a sending chain encrypt raises and nothing changes.
Encrypt(p) ==
    LET s == state[p] IN
    /\ p \in Talking
    /\ s.sending_chain # NoChain
    /\ s.send_count < MaxSent
    /\ network' = network \cup
          {[dh |-> s.dh_self, pn |-> s.prev_send_count, n |-> s.send_count,
            chain |-> s.sending_chain]}
    /\ state' = [state EXCEPT ![p].send_count = @ + 1]
    /\ UNCHANGED delivered

-----------------------------------------------------------------------------
(* Ratchet._decrypt, step by step on the value of the state                *)

\* _skip_keys: the keys up to until are filed under the current remote key,
\* replacing what is filed there.
SkipKeys(s, until) ==
    LET numbers == s.recv_count .. (until - 1)
        stale == {e \in s.skipped : e.dh = s.dh_remote /\ e.n \in numbers}
        fresh == {[dh |-> s.dh_remote, n |-> i, chain |-> s.receiving_chain] : i \in numbers}
    IN  IF s.receiving_chain = NoChain \/ until <= s.recv_count THEN s
        ELSE [s EXCEPT !.skipped = (@ \ stale) \cup fresh, !.recv_count = until]

\* SkippedTooFar, raised before any key is derived.
SkipsTooFar(s, until) ==
    s.receiving_chain # NoChain /\ s.recv_count + MAX_SKIP < until

\* Mutant: the counters start over, the sending chain does not.
DHRatchet_KeepsSending(s, remote) ==
    LET received == Append(s.root_key, {s.dh_self, remote})
        self == [s.dh_self EXCEPT !.k = @ + 1]
    IN  [s EXCEPT !.root_key = received,
                  !.sending_chain = IF @ = NoChain THEN received ELSE @,
                  !.receiving_chain = received,
                  !.dh_self = self, !.dh_remote = remote,
                  !.send_count = 0, !.recv_count = 0,
                  !.prev_send_count = s.send_count]

\* _dh_ratchet: a receiving chain from our present key pair, then a fresh key
\* pair and a sending chain from it.
DHRatchet(s, remote) ==
    LET received == Append(s.root_key, {s.dh_self, remote})
        self == [s.dh_self EXCEPT !.k = @ + 1]
        sent == Append(received, {self, remote})
    IN  [root_key |-> sent,
         sending_chain |-> sent,
         receiving_chain |-> received,
         dh_self |-> self,
         dh_remote |-> remote,
         send_count |-> 0, recv_count |-> 0,
         prev_send_count |-> s.send_count,
         skipped |-> s.skipped]

\* The header names another key than the current one.
StartsChain(s, m) == s.dh_remote # m.dh \/ s.receiving_chain = NoChain

\* The state in which the message key is looked up.
Turned(s, m) ==
    IF StartsChain(s, m) THEN DHRatchet(SkipKeys(s, m.pn), m.dh) ELSE s

Filed(t, m) == {e \in t.skipped : e.dh = m.dh /\ e.n = m.n}

\* Mutant: a key found in the cache is left there.
Consumed_Kept(t, m) ==
    IF Filed(t, m) # {} THEN t
    ELSE [SkipKeys(t, m.n) EXCEPT !.recv_count = m.n + 1]

\* Mutant: the receiving chain is not advanced past the key.
Consumed_NotAdvanced(t, m) ==
    IF Filed(t, m) # {} THEN [t EXCEPT !.skipped = @ \ Filed(t, m)]
    ELSE SkipKeys(t, m.n)

\* The message key is taken: popped from the cache, or the next of the chain
\* once the ones before it are filed.
Consumed(t, m) ==
    IF Filed(t, m) # {} THEN [t EXCEPT !.skipped = @ \ Filed(t, m)]
    ELSE [SkipKeys(t, m.n) EXCEPT !.recv_count = m.n + 1]

\* The chain of the key that is taken; its position is m.n in either case.
ChainUsed(t, m) ==
    IF Filed(t, m) # {} THEN (CHOOSE e \in Filed(t, m) : TRUE).chain
    ELSE t.receiving_chain

TooFar(s, m) ==
    \/ StartsChain(s, m) /\ SkipsTooFar(s, m.pn)
    \/ Filed(Turned(s, m), m) = {} /\ SkipsTooFar(Turned(s, m), m.n)

\* DuplicateMessage: not in the cache, and behind the chain.
Duplicate(s, m) == Filed(Turned(s, m), m) = {} /\ m.n < Turned(s, m).recv_count

\* _decrypt returns the plaintext of m: the key it takes is the one m is under.
Opens(s, m) ==
    /\ ~TooFar(s, m)
    /\ ~Duplicate(s, m)
    /\ ChainUsed(Turned(s, m), m) = m.chain

\* Mutant: decrypt leaves the state where the failure found it.
RolledBack_Not(s, m) == IF TooFar(s, m) THEN s ELSE Turned(s, m)

\* decrypt: any failure restores the snapshot.
RolledBack(s, m) == s

\* Ratchet.decrypt at p.  What the network carries opens under its own key;
\* noise opens under none, although its header may look like any other.
Decrypt(p, m) ==
    LET s == state[p] IN
    /\ m.dh.owner # p
    /\ StartsChain(s, m) => s.dh_self.k < MaxKey
    /\ \/ /\ m \in network /\ Opens(s, m)
          /\ state' = [state EXCEPT ![p] = Consumed(Turned(s, m), m)]
          /\ delivered' = delivered \cup {m}
       \/ /\ m \in network => ~Opens(s, m)
          /\ state' = [state EXCEPT ![p] = RolledBack(s, m)]
          /\ UNCHANGED delivered
    /\ UNCHANGED network

Next ==
    \E p \in Party :
        \/ Encrypt(p)
        \/ \E m \in network \cup Noise : Decrypt(p, m)

Spec == Init /\ [][Next]_vars

\* m belongs to the chain its receiver is on, or to a later one.
OnTime(m, s) == s.dh_remote # NoKey => s.dh_remote.k <= m.dh.k

-----------------------------------------------------------------------------
(* Properties                                                              *)

\* The state of each party, and every message, has its type.
TypeOK ==
    /\ state \in [Party -> RatchetState]
    /\ network \subseteq Message
    /\ delivered \subseteq network

\* The party a message is for.
To(m) == IF m.dh.owner = Initiator THEN Responder ELSE Initiator

\* "Replays fail because message keys are consumed on use": a message that was
\* decrypted once is never decrypted again, whatever came in between.
ReplaysFail == \A m \in delivered : ~Opens(state[To(m)], m)

\* Forward secrecy: from what a party stores, the key of a message it has
\* decrypted can no longer be found; it is neither filed nor still ahead on a
\* chain the party can walk.
ConsumedKeysGone ==
    \A m \in delivered :
        LET s == state[To(m)] IN
        /\ \A e \in s.skipped : ~(e.chain = m.chain /\ e.n = m.n)
        /\ ~(s.receiving_chain = m.chain /\ s.recv_count <= m.n)

\* No message key ever encrypts two messages: none of those a party has yet to
\* take from its sending chain has been used, by either party.
NextKeysFresh ==
    \A p \in Party : \A m \in network :
        ~(m.chain = state[p].sending_chain /\ m.n >= state[p].send_count)

\* "Out-of-order messages are supported through a bounded skipped-key cache",
\* and a damaged message cannot desync the session: a message that was not yet
\* decrypted can be, unless its number is out of the cache's reach.
EveryMessageOpens ==
    \A m \in network \ delivered :
        Opens(state[To(m)], m) \/ TooFar(state[To(m)], m)

\* A party that has turned its ratchet back: its root key was derived with an older
\* key of the other party after a newer one.
TurnedBack(s) ==
    \E i, j \in DOMAIN s.root_key :
        /\ i < j
        /\ \E newer \in s.root_key[i], older \in s.root_key[j] :
              /\ newer.owner = older.owner /\ newer.owner # s.dh_self.owner
              /\ older.k < newer.k

\* The part of it that holds, in any order of arrival, until a message that comes
\* after its sender's next chain turns a ratchet back: the two sides agree on every
\* chain, and what they have not yet decrypted of the current ones can be.
CurrentChainsOpen ==
    (\A p \in Party : ~TurnedBack(state[p])) =>
        \A m \in network \ delivered :
            OnTime(m, state[To(m)]) =>
                Opens(state[To(m)], m) \/ TooFar(state[To(m)], m)

=============================================================================
