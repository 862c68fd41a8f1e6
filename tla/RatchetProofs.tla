--------------------------- MODULE RatchetProofs ---------------------------
(***************************************************************************)
(* What Ratchet guarantees for every MAX_SKIP, every number of messages    *)
(* and every noise: types, replay protection, forward secrecy, fresh       *)
(* sending keys, and the agreement of the two sides.                       *)
(*                                                                         *)
(* Neither ReplaysFail nor ConsumedKeysGone is inductive.  What carries    *)
(* them is an order on keys: every key a party has taken or filed is       *)
(* behind its receiving chain, on that chain or on a shorter one, and each *)
(* DH ratchet starts a chain longer than all before it.                    *)
(*                                                                         *)
(* NextKeysFresh and CurrentChainsOpen rest on the place of a key pair     *)
(* among those of both parties: a sending chain is as long as the place of *)
(* its key pair, and as long as no ratchet is turned back the parties are  *)
(* one place apart and every chain is a prefix of a single common one.     *)
(***************************************************************************)
EXTENDS Ratchet, TLAPS

-----------------------------------------------------------------------------
(* Type correctness                                                        *)

\* The types of the pieces _decrypt is made of.
LEMMA SkipKeysType ==
    ASSUME NEW s \in RatchetState, NEW u \in Nat,
           s.receiving_chain # NoChain => s.dh_remote \in KeyPair
    PROVE  SkipKeys(s, u) \in RatchetState
  <1> DEFINE numbers == s.recv_count .. (u - 1)
             stale == {e \in s.skipped : e.dh = s.dh_remote /\ e.n \in numbers}
             fresh == {[dh |-> s.dh_remote, n |-> i, chain |-> s.receiving_chain] : i \in numbers}
  <1>1. s.recv_count \in Nat /\ s.skipped \subseteq SkippedKey
    BY DEF RatchetState
  <1>2. CASE s.receiving_chain = NoChain \/ u <= s.recv_count
    BY <1>2 DEF SkipKeys
  <1>3. CASE ~(s.receiving_chain = NoChain \/ u <= s.recv_count)
    <2>1. s.receiving_chain \in Chain /\ s.dh_remote \in KeyPair
      BY <1>3 DEF RatchetState
    <2>2. numbers \subseteq Nat
      BY <1>1
    <2>3. fresh \subseteq SkippedKey
      BY <2>1, <2>2 DEF SkippedKey
    <2>4. (s.skipped \ stale) \cup fresh \in SUBSET SkippedKey
      BY <1>1, <2>3
    <2>5. SkipKeys(s, u) = [s EXCEPT !.skipped = (@ \ stale) \cup fresh, !.recv_count = u]
      BY <1>3 DEF SkipKeys
    <2> HIDE DEF stale, fresh
    <2> QED BY <2>4, <2>5 DEF RatchetState
  <1> QED BY <1>2, <1>3

LEMMA DHRatchetType ==
    ASSUME NEW s \in RatchetState, NEW remote \in KeyPair
    PROVE  DHRatchet(s, remote) \in RatchetState
  <1> DEFINE received == Append(s.root_key, {s.dh_self, remote})
             self == [s.dh_self EXCEPT !.k = @ + 1]
             sent == Append(received, {self, remote})
  <1>1. s.root_key \in Chain /\ s.dh_self \in KeyPair /\ s.send_count \in Nat
        /\ s.skipped \in SUBSET SkippedKey
    BY DEF RatchetState
  <1>2. self \in KeyPair
    BY <1>1 DEF KeyPair
  <1>3. received \in Chain /\ sent \in Chain
    <2>1. {s.dh_self, remote} \in Agreement /\ {self, remote} \in Agreement
      BY <1>1, <1>2 DEF Agreement
    <2> QED BY <1>1, <2>1 DEF Chain
  <1> HIDE DEF received, self, sent
  <1>4. [root_key |-> sent, sending_chain |-> sent, receiving_chain |-> received,
         dh_self |-> self, dh_remote |-> remote, send_count |-> 0, recv_count |-> 0,
         prev_send_count |-> s.send_count, skipped |-> s.skipped] \in RatchetState
    BY <1>1, <1>2, <1>3 DEF RatchetState
  <1> QED BY <1>4 DEF DHRatchet, received, self, sent

\* A party with a receiving chain knows whose it is.
RemoteKnown(s) == s.receiving_chain # NoChain => s.dh_remote \in KeyPair

LEMMA TurnedType ==
    ASSUME NEW s \in RatchetState, NEW m \in Message, RemoteKnown(s)
    PROVE  /\ Turned(s, m) \in RatchetState
           /\ Turned(s, m).receiving_chain # NoChain
           /\ Turned(s, m).dh_remote = m.dh
  <1>1. m.dh \in KeyPair /\ m.pn \in Nat
    BY DEF Message
  <1>2. CASE StartsChain(s, m)
    <2> DEFINE s1 == SkipKeys(s, m.pn)
    <2>1. s1 \in RatchetState
      BY <1>1, SkipKeysType DEF RemoteKnown
    <2>2. DHRatchet(s1, m.dh) \in RatchetState
      BY <2>1, <1>1, DHRatchetType
    <2>3. Append(s1.root_key, {s1.dh_self, m.dh}) \in Chain
      BY <2>1, <1>1 DEF RatchetState, Chain, Agreement
    <2>4. /\ DHRatchet(s1, m.dh).receiving_chain = Append(s1.root_key, {s1.dh_self, m.dh})
          /\ DHRatchet(s1, m.dh).dh_remote = m.dh
      BY DEF DHRatchet
    <2> QED BY <1>2, <2>2, <2>3, <2>4, SentinelAssumption DEF Turned
  <1>3. CASE ~StartsChain(s, m)
    BY <1>3 DEF Turned, StartsChain
  <1> QED BY <1>2, <1>3

LEMMA ConsumedType ==
    ASSUME NEW t \in RatchetState, NEW m \in Message, RemoteKnown(t)
    PROVE  Consumed(t, m) \in RatchetState
  <1>1. m.n \in Nat
    BY DEF Message
  <1>2. CASE Filed(t, m) # {}
    <2>1. t.skipped \ Filed(t, m) \in SUBSET SkippedKey
      BY DEF RatchetState
    <2> QED BY <1>2, <2>1 DEF Consumed, RatchetState
  <1>3. CASE Filed(t, m) = {}
    <2>1. SkipKeys(t, m.n) \in RatchetState
      BY <1>1, SkipKeysType DEF RemoteKnown
    <2>2. m.n + 1 \in Nat
      BY <1>1
    <2>3. Consumed(t, m) = [SkipKeys(t, m.n) EXCEPT !.recv_count = m.n + 1]
      BY <1>3 DEF Consumed
    <2> QED BY <2>1, <2>2, <2>3 DEF RatchetState
  <1> QED BY <1>2, <1>3

-----------------------------------------------------------------------------
(* The order on keys                                                       *)

\* The key at position n of chain is behind what s can still derive.
Behind(s, chain, n) ==
    /\ s.receiving_chain # NoChain
    /\ \/ Len(chain) < Len(s.receiving_chain)
       \/ chain = s.receiving_chain /\ n < s.recv_count

\* Filed keys are behind, and each chain is filed under one remote key.
KeysInv(s) ==
    /\ RemoteKnown(s)
    /\ s.receiving_chain # NoChain => Len(s.receiving_chain) < Len(s.root_key)
    /\ \A e \in s.skipped : Behind(s, e.chain, e.n)
    /\ \A e \in s.skipped : e.chain = s.receiving_chain => e.dh = s.dh_remote
    /\ \A e, f \in s.skipped : e.chain = f.chain => e.dh = f.dh

\* The keys of the messages D are behind, and none of them is filed.
DoneInv(s, D) ==
    \A m \in D : /\ Behind(s, m.chain, m.n)
                 /\ \A e \in s.skipped : ~(e.chain = m.chain /\ e.n = m.n)

\* What _skip_keys does, whether or not it has anything to skip.
LEMMA SkipKeysFields ==
    ASSUME NEW s \in RatchetState, NEW u \in Nat
    PROVE  LET r == SkipKeys(s, u) IN
           /\ r.receiving_chain = s.receiving_chain
           /\ r.dh_remote = s.dh_remote
           /\ r.root_key = s.root_key
           /\ r.recv_count \in Nat
           /\ s.recv_count <= r.recv_count
           /\ s.receiving_chain # NoChain => u <= r.recv_count
           /\ \A e \in r.skipped :
                 \/ e \in s.skipped
                 \/ /\ s.receiving_chain # NoChain
                    /\ e.chain = s.receiving_chain /\ e.dh = s.dh_remote
                    /\ e.n \in Nat /\ s.recv_count <= e.n /\ e.n < r.recv_count
  <1> DEFINE numbers == s.recv_count .. (u - 1)
             stale == {e \in s.skipped : e.dh = s.dh_remote /\ e.n \in numbers}
             fresh == {[dh |-> s.dh_remote, n |-> i, chain |-> s.receiving_chain] : i \in numbers}
  <1>1. s.recv_count \in Nat
    BY DEF RatchetState
  <1>2. CASE s.receiving_chain = NoChain \/ u <= s.recv_count
    BY <1>1, <1>2 DEF SkipKeys
  <1>3. CASE ~(s.receiving_chain = NoChain \/ u <= s.recv_count)
    <2>1. SkipKeys(s, u) = [s EXCEPT !.skipped = (@ \ stale) \cup fresh, !.recv_count = u]
      BY <1>3 DEF SkipKeys
    <2>2. \A e \in fresh : /\ e.chain = s.receiving_chain /\ e.dh = s.dh_remote
                           /\ e.n \in Nat /\ s.recv_count <= e.n /\ e.n < u
      BY <1>1
    <2> HIDE DEF stale, fresh
    <2>3. /\ SkipKeys(s, u).receiving_chain = s.receiving_chain
          /\ SkipKeys(s, u).dh_remote = s.dh_remote
          /\ SkipKeys(s, u).root_key = s.root_key
          /\ SkipKeys(s, u).recv_count = u
          /\ SkipKeys(s, u).skipped = (s.skipped \ stale) \cup fresh
      BY <2>1 DEF RatchetState
    <2> QED BY <1>1, <1>3, <2>2, <2>3
  <1> QED BY <1>2, <1>3

LEMMA DHRatchetFields ==
    ASSUME NEW s \in RatchetState, NEW remote \in KeyPair
    PROVE  LET r == DHRatchet(s, remote) IN
           /\ r.receiving_chain \in Chain
           /\ Len(r.receiving_chain) = Len(s.root_key) + 1
           /\ Len(r.root_key) = Len(s.root_key) + 2
           /\ r.dh_remote = remote
           /\ r.recv_count = 0
           /\ r.skipped = s.skipped
  <1> DEFINE received == Append(s.root_key, {s.dh_self, remote})
             self == [s.dh_self EXCEPT !.k = @ + 1]
             sent == Append(received, {self, remote})
  <1>1. s.root_key \in Chain /\ s.dh_self \in KeyPair
    BY DEF RatchetState
  <1>2. self \in KeyPair
    BY <1>1 DEF KeyPair
  <1>3. {s.dh_self, remote} \in Agreement /\ {self, remote} \in Agreement
    BY <1>1, <1>2 DEF Agreement
  <1>4. received \in Chain /\ Len(received) = Len(s.root_key) + 1
    BY <1>1, <1>3 DEF Chain
  <1>5. Len(sent) = Len(received) + 1
    BY <1>3, <1>4 DEF Chain
  <1>6. Len(s.root_key) \in Nat
    BY <1>1 DEF Chain
  <1> HIDE DEF received, self, sent
  <1>7. /\ DHRatchet(s, remote).receiving_chain = received
        /\ DHRatchet(s, remote).root_key = sent
        /\ DHRatchet(s, remote).dh_remote = remote
        /\ DHRatchet(s, remote).recv_count = 0
        /\ DHRatchet(s, remote).skipped = s.skipped
    BY DEF DHRatchet, received, self, sent
  <1> QED BY <1>4, <1>5, <1>6, <1>7

\* Lengths and positions are numbers.
LEMMA Measures ==
    ASSUME NEW s \in RatchetState
    PROVE  /\ Len(s.root_key) \in Nat
           /\ s.recv_count \in Nat
           /\ s.receiving_chain # NoChain => Len(s.receiving_chain) \in Nat
           /\ \A e \in s.skipped : e.n \in Nat /\ Len(e.chain) \in Nat
  BY DEF RatchetState, SkippedKey, Chain

LEMMA SkipKeysInv ==
    ASSUME NEW s \in RatchetState, NEW u \in Nat, NEW D \in SUBSET Message,
           KeysInv(s), DoneInv(s, D)
    PROVE  KeysInv(SkipKeys(s, u)) /\ DoneInv(SkipKeys(s, u), D)
  <1> DEFINE r == SkipKeys(s, u)
  <1>1. r \in RatchetState
    BY SkipKeysType DEF KeysInv, RemoteKnown
  <1>2. \A m \in D : m.n \in Nat /\ Len(m.chain) \in Nat
    BY DEF Message, Chain
  <1>3. \A chain, n : n \in Nat /\ Behind(s, chain, n) => Behind(r, chain, n)
    BY SkipKeysFields, Measures DEF Behind
  <1>4. KeysInv(r)
    <2>1. RemoteKnown(r) /\ (r.receiving_chain # NoChain => Len(r.receiving_chain) < Len(r.root_key))
      BY SkipKeysFields DEF KeysInv, RemoteKnown
    <2>2. \A e \in r.skipped : Behind(r, e.chain, e.n)
      BY <1>3, SkipKeysFields, Measures DEF KeysInv, Behind
    <2>3. \A e \in r.skipped : e.chain = r.receiving_chain => e.dh = r.dh_remote
      BY SkipKeysFields DEF KeysInv
    <2>4. \A e, f \in r.skipped : e.chain = f.chain => e.dh = f.dh
      BY SkipKeysFields DEF KeysInv
    <2> QED BY <2>1, <2>2, <2>3, <2>4 DEF KeysInv
  <1>5. DoneInv(r, D)
    <2> SUFFICES ASSUME NEW m \in D
                 PROVE  /\ Behind(r, m.chain, m.n)
                        /\ \A e \in r.skipped : ~(e.chain = m.chain /\ e.n = m.n)
      BY DEF DoneInv
    <2>1. Behind(s, m.chain, m.n) /\ \A e \in s.skipped : ~(e.chain = m.chain /\ e.n = m.n)
      BY DEF DoneInv
    <2>2. Behind(r, m.chain, m.n)
      BY <1>2, <1>3, <2>1
    <2>3. ASSUME NEW e \in r.skipped, e.chain = m.chain, e.n = m.n PROVE FALSE
      <3>1. e.chain = s.receiving_chain /\ s.recv_count <= e.n
        BY <2>1, <2>3, SkipKeysFields
      <3> QED BY <1>2, <2>1, <2>3, <3>1, Measures DEF Behind
    <2> QED BY <2>2, <2>3
  <1> QED BY <1>4, <1>5

LEMMA DHRatchetInv ==
    ASSUME NEW s \in RatchetState, NEW remote \in KeyPair, NEW D \in SUBSET Message,
           KeysInv(s), DoneInv(s, D)
    PROVE  /\ KeysInv(DHRatchet(s, remote))
           /\ DoneInv(DHRatchet(s, remote), D)
           /\ \A e \in s.skipped : Len(e.chain) < Len(DHRatchet(s, remote).receiving_chain)
           /\ \A m \in D : Len(m.chain) < Len(DHRatchet(s, remote).receiving_chain)
  <1> DEFINE r == DHRatchet(s, remote)
  <1>1. \A m \in D : m.n \in Nat /\ Len(m.chain) \in Nat
    BY DEF Message, Chain
  <1>2. r.receiving_chain # NoChain
    BY DHRatchetFields, SentinelAssumption
  <1>3. Len(s.root_key) \in Nat /\ Len(r.receiving_chain) = Len(s.root_key) + 1
    BY DHRatchetFields, Measures
  <1>4. \A chain, n : Behind(s, chain, n) /\ Len(chain) \in Nat
                        => Len(chain) < Len(r.receiving_chain)
    BY <1>3, Measures DEF KeysInv, Behind
  <1>5. /\ \A e \in s.skipped : Len(e.chain) < Len(r.receiving_chain)
        /\ \A m \in D : Len(m.chain) < Len(r.receiving_chain)
    BY <1>1, <1>4, Measures DEF KeysInv, DoneInv
  <1>6. r.skipped = s.skipped /\ r.dh_remote = remote
    BY DHRatchetFields
  <1>7. Len(r.receiving_chain) < Len(r.root_key)
    BY DHRatchetFields, Measures
  <1>8. \A e \in r.skipped : e.chain # r.receiving_chain
    BY <1>3, <1>5, <1>6
  <1> HIDE DEF r
  <1>9. KeysInv(r)
    BY <1>2, <1>5, <1>6, <1>7, <1>8 DEF KeysInv, Behind, RemoteKnown
  <1>10. DoneInv(r, D)
    BY <1>2, <1>5, <1>6 DEF DoneInv, Behind
  <1> QED BY <1>5, <1>9, <1>10 DEF r

\* Moving to the sender's chain keeps the order, and derives no key that was
\* taken before.
LEMMA TurnedInv ==
    ASSUME NEW s \in RatchetState, NEW m \in Message, NEW D \in SUBSET Message,
           KeysInv(s), DoneInv(s, D)
    PROVE  KeysInv(Turned(s, m)) /\ DoneInv(Turned(s, m), D)
  <1>1. m.dh \in KeyPair /\ m.pn \in Nat
    BY DEF Message
  <1>2. SkipKeys(s, m.pn) \in RatchetState
    BY <1>1, SkipKeysType DEF KeysInv, RemoteKnown
  <1>3. KeysInv(SkipKeys(s, m.pn)) /\ DoneInv(SkipKeys(s, m.pn), D)
    BY <1>1, SkipKeysInv
  <1>4. /\ KeysInv(DHRatchet(SkipKeys(s, m.pn), m.dh))
        /\ DoneInv(DHRatchet(SkipKeys(s, m.pn), m.dh), D)
    BY <1>1, <1>2, <1>3, DHRatchetInv
  <1> QED BY <1>4 DEF Turned

\* A message key that is behind, or filed nowhere, does not open a message.
LEMMA DoneDoesNotOpen ==
    ASSUME NEW s \in RatchetState, NEW D \in SUBSET Message, NEW m \in D,
           KeysInv(s), DoneInv(s, D)
    PROVE  ~Opens(s, m)
  <1> DEFINE t == Turned(s, m)
  <1>1. t \in RatchetState /\ t.receiving_chain # NoChain
    BY TurnedType DEF KeysInv
  <1>2. DoneInv(t, D)
    BY TurnedInv
  <1>3. /\ Behind(t, m.chain, m.n)
        /\ \A e \in t.skipped : ~(e.chain = m.chain /\ e.n = m.n)
    BY <1>2 DEF DoneInv
  <1>4. m.n \in Nat /\ t.recv_count \in Nat /\ Len(t.receiving_chain) \in Nat
    BY <1>1, Measures DEF Message
  <1> HIDE DEF t
  <1>5. CASE Filed(t, m) # {}
    <2>1. PICK e \in Filed(t, m) : e = CHOOSE f \in Filed(t, m) : TRUE
      BY <1>5
    <2>2. ChainUsed(t, m) = e.chain /\ e \in t.skipped /\ e.n = m.n
      BY <1>5, <2>1 DEF ChainUsed, Filed
    <2> QED BY <1>3, <2>2 DEF Opens, t
  <1>6. CASE Filed(t, m) = {}
    <2>1. ChainUsed(t, m) = t.receiving_chain
      BY <1>6 DEF ChainUsed
    <2>2. Opens(s, m) => t.receiving_chain = m.chain /\ ~(m.n < t.recv_count)
      BY <1>6, <2>1 DEF Opens, Duplicate, t
    <2> QED BY <1>3, <1>4, <2>2 DEF Behind
  <1> QED BY <1>5, <1>6

\* Taking the key of m puts it behind, and files it nowhere.
LEMMA ConsumedInv ==
    ASSUME NEW t \in RatchetState, NEW D \in SUBSET Message, NEW m \in Message,
           KeysInv(t), DoneInv(t, D), t.receiving_chain # NoChain,
           t.dh_remote = m.dh, ChainUsed(t, m) = m.chain,
           Filed(t, m) = {} => ~(m.n < t.recv_count)
    PROVE  KeysInv(Consumed(t, m)) /\ DoneInv(Consumed(t, m), D \cup {m})
  <1> DEFINE r == Consumed(t, m)
  <1>1. m.n \in Nat
    BY DEF Message
  <1>2. CASE Filed(t, m) # {}
    <2>1. r = [t EXCEPT !.skipped = @ \ Filed(t, m)]
      BY <1>2 DEF Consumed
    <2>2. /\ r.receiving_chain = t.receiving_chain /\ r.dh_remote = t.dh_remote
          /\ r.root_key = t.root_key /\ r.recv_count = t.recv_count
          /\ r.skipped = t.skipped \ Filed(t, m)
      BY <2>1 DEF RatchetState
    <2> HIDE DEF r
    <2>3. PICK e \in Filed(t, m) : e = CHOOSE f \in Filed(t, m) : TRUE
      BY <1>2
    <2>4. e.chain = m.chain /\ e \in t.skipped /\ e.n = m.n /\ e.dh = m.dh
      BY <1>2, <2>3 DEF ChainUsed, Filed
    <2>5. KeysInv(r)
      BY <2>2 DEF KeysInv, RemoteKnown, Behind
    <2>6. Behind(r, m.chain, m.n)
      BY <2>2, <2>4 DEF KeysInv, Behind
    <2>7. \A f \in r.skipped : ~(f.chain = m.chain /\ f.n = m.n)
      BY <2>2, <2>4 DEF KeysInv, Filed
    <2>8. DoneInv(r, D)
      BY <2>2 DEF DoneInv, Behind
    <2> QED BY <2>5, <2>6, <2>7, <2>8 DEF DoneInv, r
  <1>3. CASE Filed(t, m) = {}
    <2> DEFINE k == SkipKeys(t, m.n)
    <2>1. r = [k EXCEPT !.recv_count = m.n + 1]
      BY <1>3 DEF Consumed
    <2>2. k \in RatchetState
      BY <1>1, SkipKeysType DEF KeysInv, RemoteKnown
    <2>3. /\ r.receiving_chain = k.receiving_chain /\ r.dh_remote = k.dh_remote
          /\ r.root_key = k.root_key /\ r.skipped = k.skipped
          /\ r.recv_count = m.n + 1
      BY <2>1, <2>2 DEF RatchetState
    <2>4. KeysInv(k) /\ DoneInv(k, D)
      BY <1>1, SkipKeysInv
    <2>5. m.chain = t.receiving_chain /\ k.receiving_chain = t.receiving_chain
      BY <1>1, <1>3, SkipKeysFields DEF ChainUsed
    <2>6. t.recv_count \in Nat /\ t.recv_count <= m.n
      BY <1>1, <1>3, Measures
    <2>7. k.recv_count = m.n
      <3>1. CASE m.n <= t.recv_count
        BY <1>1, <2>6, <3>1 DEF SkipKeys
      <3>2. CASE ~(m.n <= t.recv_count)
        <4>1. k.recv_count = m.n
          BY <3>2 DEF SkipKeys, RatchetState
        <4> QED BY <4>1
      <3> QED BY <3>1, <3>2
    <2> HIDE DEF k, r
    <2>8. \A chain, n : n \in Nat /\ Behind(k, chain, n) => Behind(r, chain, n)
      BY <1>1, <2>3, <2>7 DEF Behind
    <2>9. \A d \in D : d.n \in Nat
      BY DEF Message
    <2>10. \A e \in k.skipped : e.n \in Nat
      BY <2>2, Measures
    <2>11. KeysInv(r)
      BY <2>3, <2>4, <2>8, <2>10 DEF KeysInv, RemoteKnown
    <2>12. DoneInv(r, D)
      BY <2>3, <2>4, <2>8, <2>9 DEF DoneInv
    <2>13. Behind(r, m.chain, m.n)
      BY <1>1, <2>3, <2>5 DEF Behind
    <2>14. \A e \in r.skipped : ~(e.chain = m.chain /\ e.n = m.n)
      <3> SUFFICES ASSUME NEW e \in k.skipped, e.chain = m.chain, e.n = m.n PROVE FALSE
        BY <2>3
      <3>1. Behind(k, e.chain, e.n)
        BY <2>4 DEF KeysInv
      <3>2. Len(k.receiving_chain) \in Nat
        BY <2>2, <2>5, Measures
      <3> QED BY <1>1, <2>5, <2>7, <3>1, <3>2 DEF Behind
    <2> QED BY <2>11, <2>12, <2>13, <2>14 DEF DoneInv, r
  <1> QED BY <1>2, <1>3

-----------------------------------------------------------------------------
(* The invariant of the session                                            *)

\* The messages p has decrypted.
Done(p) == {m \in delivered : To(m) = p}

IndInv ==
    /\ TypeOK
    /\ \A p \in Party : KeysInv(state[p]) /\ DoneInv(state[p], Done(p))

LEMMA InitInv == Init => IndInv
  <1> SUFFICES ASSUME Init PROVE IndInv
    OBVIOUS
  <1>1. /\ [owner |-> Initiator, k |-> 0] \in KeyPair
        /\ [owner |-> Responder, k |-> 0] \in KeyPair
    BY DEF KeyPair, Party
  <1>2. <<{[owner |-> Initiator, k |-> 0], [owner |-> Responder, k |-> 0]}>> \in Chain
    BY <1>1 DEF Chain, Agreement
  <1>3. <<>> \in Chain
    BY DEF Chain
  <1>4. InitiatorState \in RatchetState
    BY <1>1, <1>2 DEF InitiatorState, RatchetState
  <1>5. ResponderState \in RatchetState
    BY <1>1, <1>3 DEF ResponderState, RatchetState
  <1>6. TypeOK
    BY <1>4, <1>5 DEF Init, TypeOK
  <1>7. KeysInv(InitiatorState) /\ KeysInv(ResponderState)
    BY DEF KeysInv, RemoteKnown, InitiatorState, ResponderState
  <1>8. \A p \in Party : KeysInv(state[p])
    BY <1>7 DEF Init
  <1>9. \A p \in Party : DoneInv(state[p], Done(p))
    BY DEF Init, DoneInv, Done
  <1> QED BY <1>6, <1>8, <1>9 DEF IndInv

LEMMA EncryptStep ==
    ASSUME IndInv, NEW p \in Party, Encrypt(p)
    PROVE  IndInv'
  <1> DEFINE s == state[p]
             sent == [s EXCEPT !.send_count = @ + 1]
             m == [dh |-> s.dh_self, pn |-> s.prev_send_count, n |-> s.send_count,
                   chain |-> s.sending_chain]
  <1>1. s \in RatchetState /\ state \in [Party -> RatchetState]
    BY DEF IndInv, TypeOK
  <1>2. sent \in RatchetState
    BY <1>1 DEF RatchetState
  <1>3. state' = [state EXCEPT ![p] = sent] /\ network' = network \cup {m}
        /\ delivered' = delivered /\ s.sending_chain # NoChain
    BY DEF Encrypt
  <1>4. m \in Message
    BY <1>1, <1>3 DEF RatchetState, Message
  <1>5. /\ sent.receiving_chain = s.receiving_chain /\ sent.dh_remote = s.dh_remote
        /\ sent.root_key = s.root_key /\ sent.recv_count = s.recv_count
        /\ sent.skipped = s.skipped
    BY <1>1 DEF RatchetState
  <1>6. KeysInv(sent) /\ DoneInv(sent, Done(p))
    <2>1. KeysInv(s) /\ DoneInv(s, Done(p))
      BY DEF IndInv
    <2> HIDE DEF s, sent
    <2> QED BY <1>5, <2>1 DEF KeysInv, DoneInv, RemoteKnown, Behind
  <1> HIDE DEF s, sent, m
  <1>7. TypeOK'
    BY <1>1, <1>2, <1>3, <1>4 DEF IndInv, TypeOK
  <1>8. \A q \in Party : Done(q)' = Done(q)
    BY <1>3 DEF Done
  <1>9. \A q \in Party : KeysInv(state'[q]) /\ DoneInv(state'[q], Done(q))
    BY <1>1, <1>3, <1>6 DEF IndInv
  <1> QED BY <1>7, <1>8, <1>9 DEF IndInv, KeysInv, DoneInv, RemoteKnown, Behind

LEMMA DecryptStep ==
    ASSUME IndInv, NEW p \in Party, NEW m \in network \cup Noise, Decrypt(p, m)
    PROVE  IndInv'
  <1> DEFINE s == state[p]
             t == Turned(s, m)
             r == Consumed(t, m)
  <1>1. s \in RatchetState /\ state \in [Party -> RatchetState] /\ m \in Message
        /\ delivered \subseteq Message
    BY NoiseAssumption DEF IndInv, TypeOK
  <1>2. KeysInv(s) /\ DoneInv(s, Done(p)) /\ Done(p) \in SUBSET Message
    BY <1>1 DEF IndInv, Done
  <1>3. CASE m \in network /\ Opens(s, m) /\ state' = [state EXCEPT ![p] = r]
             /\ delivered' = delivered \cup {m} /\ network' = network
    <2>1. t \in RatchetState /\ t.receiving_chain # NoChain /\ t.dh_remote = m.dh
      BY <1>1, <1>2, TurnedType DEF KeysInv
    <2>2. KeysInv(t) /\ DoneInv(t, Done(p))
      BY <1>1, <1>2, TurnedInv
    <2>3. ChainUsed(t, m) = m.chain /\ (Filed(t, m) = {} => ~(m.n < t.recv_count))
      BY <1>3 DEF Opens, Duplicate
    <2>4. r \in RatchetState
      BY <1>1, <2>1, <2>2, ConsumedType DEF KeysInv
    <2>5. KeysInv(r) /\ DoneInv(r, Done(p) \cup {m})
      BY <1>1, <1>2, <2>1, <2>2, <2>3, ConsumedInv
    <2> HIDE DEF s, t, r
    <2>6. TypeOK'
      BY <1>1, <1>3, <2>4 DEF IndInv, TypeOK
    <2>7. To(m) = p
      <3>1. m.dh.owner \in Party /\ m.dh.owner # p
        BY <1>1 DEF Decrypt, Message, KeyPair
      <3> QED BY <3>1 DEF To, Party
    <2>8. Done(p)' = Done(p) \cup {m} /\ \A q \in Party \ {p} : Done(q)' = Done(q)
      BY <1>3, <2>7 DEF Done
    <2>9. \A q \in Party : KeysInv(state'[q]) /\ DoneInv(state'[q], Done(q)')
      BY <1>1, <1>3, <2>5, <2>8 DEF IndInv
    <2> QED BY <2>6, <2>9 DEF IndInv, KeysInv, DoneInv, RemoteKnown, Behind
  <1>4. CASE state' = [state EXCEPT ![p] = s] /\ delivered' = delivered /\ network' = network
    <2>1. state' = state
      BY <1>1, <1>4
    <2> QED BY <1>4, <2>1 DEF IndInv, TypeOK, KeysInv, DoneInv, RemoteKnown, Behind, Done
  <1> QED BY <1>3, <1>4 DEF Decrypt, RolledBack

LEMMA IndInvStep == IndInv /\ [Next]_vars => IndInv'
  <1> SUFFICES ASSUME IndInv, [Next]_vars PROVE IndInv'
    OBVIOUS
  <1>1. CASE UNCHANGED vars
    BY <1>1 DEF vars, IndInv, TypeOK, KeysInv, DoneInv, RemoteKnown, Behind, Done
  <1>2. CASE Next
    BY <1>2, EncryptStep, DecryptStep DEF Next
  <1> QED BY <1>1, <1>2

LEMMA IndInvHolds == Spec => []IndInv
  BY InitInv, IndInvStep, PTL DEF Spec

-----------------------------------------------------------------------------
(* Theorems                                                                *)

\* The states and messages have their types for all time: in particular no
\* message is encrypted without a sending chain (encrypt's guard), and nothing
\* is decrypted that was not sent on the session.
THEOREM TypeCorrect == Spec => []TypeOK
  BY IndInvHolds, PTL DEF IndInv

\* "Replays fail because message keys are consumed on use" (ratchet.py:6), for
\* every order of delivery and every number of chains.
THEOREM ReplayProtection == Spec => []ReplaysFail
  <1>1. IndInv => ReplaysFail
    <2> SUFFICES ASSUME IndInv, NEW m \in delivered PROVE ~Opens(state[To(m)], m)
      BY DEF ReplaysFail
    <2>1. To(m) \in Party /\ delivered \subseteq Message
      BY DEF To, Party, IndInv, TypeOK
    <2>2. /\ state[To(m)] \in RatchetState /\ m \in Done(To(m))
          /\ Done(To(m)) \in SUBSET Message
      BY <2>1 DEF IndInv, TypeOK, Done
    <2> QED BY <2>1, <2>2, DoneDoesNotOpen DEF IndInv
  <1> QED BY <1>1, IndInvHolds, PTL

\* Forward secrecy of the receiving side: decrypt (ratchet.py:204-216) leaves
\* no way to derive the key of a message it has opened.
THEOREM ForwardSecrecy == Spec => []ConsumedKeysGone
  <1>1. IndInv => ConsumedKeysGone
    <2> SUFFICES ASSUME IndInv, NEW m \in delivered
                 PROVE  /\ \A e \in state[To(m)].skipped : ~(e.chain = m.chain /\ e.n = m.n)
                        /\ ~(/\ state[To(m)].receiving_chain = m.chain
                             /\ state[To(m)].recv_count <= m.n)
      BY DEF ConsumedKeysGone
    <2> DEFINE s == state[To(m)]
    <2>1. To(m) \in Party /\ m \in Message
      BY DEF To, Party, IndInv, TypeOK
    <2>2. s \in RatchetState /\ m \in Done(To(m))
      BY <2>1 DEF IndInv, TypeOK, Done
    <2>3. DoneInv(s, Done(To(m)))
      BY <2>1 DEF IndInv
    <2>4. /\ Behind(s, m.chain, m.n)
          /\ \A e \in s.skipped : ~(e.chain = m.chain /\ e.n = m.n)
      BY <2>2, <2>3 DEF DoneInv
    <2>5. m.n \in Nat /\ s.recv_count \in Nat
          /\ (s.receiving_chain # NoChain => Len(s.receiving_chain) \in Nat)
      BY <2>1, <2>2, Measures DEF Message
    <2> HIDE DEF s
    <2>6. ~(s.receiving_chain = m.chain /\ s.recv_count <= m.n)
      BY <2>4, <2>5 DEF Behind
    <2> QED BY <2>4, <2>6 DEF s
  <1> QED BY <1>1, IndInvHolds, PTL

-----------------------------------------------------------------------------
(* Fresh sending keys                                                      *)

\* The place of a key pair among those of both parties: the initiator's are the
\* odd ones.  It is also the number of agreements in the sending chain that
\* starts with the key pair.
Offset(p) == IF p = Initiator THEN 1 ELSE 0
Place(x) == 2 * x.k + Offset(x.owner)

LEMMA Places ==
    /\ \A x \in KeyPair : Place(x) \in Nat
    /\ \A x, y \in KeyPair : Place(x) = Place(y) => x = y
  <1>1. ASSUME NEW x \in KeyPair
        PROVE  /\ x.k \in Nat /\ x.owner \in Party /\ x = [owner |-> x.owner, k |-> x.k]
               /\ Offset(x.owner) \in {0, 1}
    BY DEF KeyPair, Offset
  <1>2. ASSUME NEW x \in KeyPair PROVE Place(x) \in Nat
    BY <1>1 DEF Place
  <1>3. ASSUME NEW x \in KeyPair, NEW y \in KeyPair, Place(x) = Place(y) PROVE x = y
    <2>1. x.k = y.k /\ Offset(x.owner) = Offset(y.owner)
      BY <1>1, <1>3 DEF Place
    <2>2. x.owner = y.owner
      BY <1>1, <2>1 DEF Offset, Party
    <2> QED BY <1>1, <2>1, <2>2
  <1> QED BY <1>2, <1>3

OwnChain(p, s) ==
    /\ s.dh_self.owner = p
    /\ Len(s.root_key) = Place(s.dh_self)
    /\ s.sending_chain # NoChain => Len(s.sending_chain) = Len(s.root_key)

\* m was encrypted on the chain of the key pair in its header, and before the
\* next message of s if that is still the key pair of s.
SentBefore(m, s) ==
    /\ Len(m.chain) = Place(m.dh)
    /\ m.dh.k <= s.dh_self.k
    /\ m.dh.k = s.dh_self.k => m.n < s.send_count

FreshInv ==
    /\ \A p \in Party : OwnChain(p, state[p])
    /\ \A m \in network : SentBefore(m, state[m.dh.owner])

\* Reception leaves the sending half of a state alone, except for the DH ratchet,
\* which starts a new chain with a new key pair.
SameSending(r, s) ==
    /\ r.dh_self = s.dh_self /\ r.root_key = s.root_key
    /\ r.sending_chain = s.sending_chain /\ r.send_count = s.send_count

LEMMA SkipKeysSending ==
    ASSUME NEW s \in RatchetState, NEW u \in Nat
    PROVE  SameSending(SkipKeys(s, u), s)
  <1> DEFINE numbers == s.recv_count .. (u - 1)
             stale == {e \in s.skipped : e.dh = s.dh_remote /\ e.n \in numbers}
             fresh == {[dh |-> s.dh_remote, n |-> i, chain |-> s.receiving_chain] : i \in numbers}
  <1>1. CASE s.receiving_chain = NoChain \/ u <= s.recv_count
    BY <1>1 DEF SkipKeys, SameSending
  <1>2. CASE ~(s.receiving_chain = NoChain \/ u <= s.recv_count)
    <2>1. SkipKeys(s, u) = [s EXCEPT !.skipped = (@ \ stale) \cup fresh, !.recv_count = u]
      BY <1>2 DEF SkipKeys
    <2> HIDE DEF stale, fresh
    <2> QED BY <2>1 DEF SameSending, RatchetState
  <1> QED BY <1>1, <1>2

LEMMA ConsumedSending ==
    ASSUME NEW t \in RatchetState, NEW m \in Message, RemoteKnown(t)
    PROVE  SameSending(Consumed(t, m), t)
  <1>1. m.n \in Nat
    BY DEF Message
  <1>2. CASE Filed(t, m) # {}
    <2> DEFINE left == t.skipped \ Filed(t, m)
    <2>1. Consumed(t, m) = [t EXCEPT !.skipped = left]
      BY <1>2 DEF Consumed
    <2> HIDE DEF left
    <2> QED BY <2>1 DEF SameSending, RatchetState
  <1>3. CASE Filed(t, m) = {}
    <2> DEFINE r == SkipKeys(t, m.n)
    <2>1. r \in RatchetState /\ SameSending(r, t)
      BY <1>1, SkipKeysType, SkipKeysSending DEF RemoteKnown
    <2>2. Consumed(t, m) = [r EXCEPT !.recv_count = m.n + 1]
      BY <1>3 DEF Consumed
    <2> HIDE DEF r
    <2> QED BY <2>1, <2>2 DEF SameSending, RatchetState
  <1> QED BY <1>2, <1>3

LEMMA DHRatchetSending ==
    ASSUME NEW s \in RatchetState, NEW remote \in KeyPair
    PROVE  LET r == DHRatchet(s, remote) IN
           /\ r.dh_self.owner = s.dh_self.owner /\ r.dh_self.k = s.dh_self.k + 1
           /\ r.sending_chain = r.root_key
           /\ Len(r.root_key) = Len(s.root_key) + 2
  <1>1. s.dh_self \in KeyPair
    BY DEF RatchetState
  <1>2. DHRatchet(s, remote).dh_self = [s.dh_self EXCEPT !.k = @ + 1]
        /\ DHRatchet(s, remote).sending_chain = DHRatchet(s, remote).root_key
    BY DEF DHRatchet
  <1>3. [s.dh_self EXCEPT !.k = @ + 1].owner = s.dh_self.owner
        /\ [s.dh_self EXCEPT !.k = @ + 1].k = s.dh_self.k + 1
    BY <1>1 DEF KeyPair
  <1> QED BY <1>2, <1>3, DHRatchetFields

\* What decryption does to the sending half: nothing, or a new key pair.
LEMMA TurnedSending ==
    ASSUME NEW s \in RatchetState, NEW m \in Message, NEW p \in Party,
           RemoteKnown(s), OwnChain(p, s)
    PROVE  LET t == Turned(s, m) IN
           /\ OwnChain(p, t)
           /\ \/ SameSending(t, s)
              \/ t.dh_self.k = s.dh_self.k + 1
  <1> DEFINE a == SkipKeys(s, m.pn)
             t == Turned(s, m)
  <1>1. m.dh \in KeyPair /\ m.pn \in Nat
    BY DEF Message
  <1>2. CASE ~StartsChain(s, m)
    BY <1>2 DEF Turned, SameSending
  <1>3. CASE StartsChain(s, m)
    <2>1. a \in RatchetState /\ SameSending(a, s)
      BY <1>1, SkipKeysType, SkipKeysSending DEF RemoteKnown
    <2>2. t = DHRatchet(a, m.dh)
      BY <1>3 DEF Turned
    <2> HIDE DEF a, t
    <2>3. /\ t.dh_self.owner = a.dh_self.owner /\ t.dh_self.k = a.dh_self.k + 1
          /\ t.sending_chain = t.root_key
          /\ Len(t.root_key) = Len(a.root_key) + 2
      BY <1>1, <2>1, <2>2, DHRatchetSending
    <2>4. s.dh_self.k \in Nat /\ a.dh_self = s.dh_self /\ a.root_key = s.root_key
      BY <2>1 DEF RatchetState, KeyPair, SameSending
    <2>5. t.dh_self.owner = p /\ t.dh_self.k = s.dh_self.k + 1
      BY <2>3, <2>4 DEF OwnChain
    <2>6. Offset(p) \in Nat /\ s.dh_self.owner = p
      BY DEF Offset, OwnChain
    <2>7. Place(t.dh_self) = Place(s.dh_self) + 2
      BY <2>4, <2>5, <2>6 DEF Place
    <2>8. OwnChain(p, t)
      BY <2>3, <2>4, <2>5, <2>7 DEF OwnChain
    <2> QED BY <2>5, <2>8 DEF t
  <1> QED BY <1>2, <1>3

LEMMA FreshInit == Init => FreshInv
  <1> SUFFICES ASSUME Init PROVE FreshInv
    OBVIOUS
  <1>1. OwnChain(Initiator, InitiatorState)
    BY DEF OwnChain, InitiatorState, Offset, Place
  <1>2. OwnChain(Responder, ResponderState)
    BY PartiesAssumption DEF OwnChain, ResponderState, Offset, Place
  <1> QED BY <1>1, <1>2, PartiesAssumption DEF Init, FreshInv, Party

LEMMA FreshEncrypt ==
    ASSUME IndInv, FreshInv, NEW p \in Party, Encrypt(p)
    PROVE  FreshInv'
  <1> DEFINE s == state[p]
             sent == [s EXCEPT !.send_count = @ + 1]
             m == [dh |-> s.dh_self, pn |-> s.prev_send_count, n |-> s.send_count,
                   chain |-> s.sending_chain]
  <1>1. s \in RatchetState /\ state \in [Party -> RatchetState] /\ network \subseteq Message
    BY DEF IndInv, TypeOK
  <1>2. state' = [state EXCEPT ![p] = sent] /\ network' = network \cup {m}
        /\ s.sending_chain # NoChain
    BY DEF Encrypt
  <1>3. /\ sent.dh_self = s.dh_self /\ sent.root_key = s.root_key
        /\ sent.sending_chain = s.sending_chain /\ sent.send_count = s.send_count + 1
    BY <1>1 DEF RatchetState
  <1>4. s.send_count \in Nat /\ s.dh_self.k \in Nat /\ OwnChain(p, s)
    BY <1>1 DEF RatchetState, KeyPair, FreshInv
  <1>5. m.dh = s.dh_self /\ m.n = s.send_count /\ m.chain = s.sending_chain
    OBVIOUS
  <1> HIDE DEF s, sent, m
  <1>6. OwnChain(p, sent)
    BY <1>3, <1>4 DEF OwnChain
  <1>7. \A q \in Party : state'[q] = IF q = p THEN sent ELSE state[q]
    BY <1>1, <1>2
  <1>8. \A q \in Party : OwnChain(q, state'[q])
    BY <1>6, <1>7 DEF FreshInv
  <1>9. m.dh.owner = p /\ SentBefore(m, sent)
    BY <1>2, <1>3, <1>4, <1>5 DEF SentBefore, OwnChain
  <1>10. ASSUME NEW x \in network PROVE SentBefore(x, state'[x.dh.owner])
    <2>1. SentBefore(x, state[x.dh.owner]) /\ x.dh.owner \in Party /\ x.n \in Nat
      BY <1>1 DEF FreshInv, Message, KeyPair
    <2>2. CASE x.dh.owner # p
      BY <1>7, <2>1, <2>2
    <2>3. CASE x.dh.owner = p
      <3>1. SentBefore(x, s)
        BY <2>1, <2>3 DEF s
      <3>2. SentBefore(x, sent)
        BY <1>3, <1>4, <2>1, <3>1 DEF SentBefore
      <3> QED BY <1>7, <2>1, <2>3, <3>2
    <2> QED BY <2>2, <2>3
  <1>11. \A x \in network' : SentBefore(x, state'[x.dh.owner])
    BY <1>2, <1>7, <1>9, <1>10
  <1> QED BY <1>8, <1>11 DEF FreshInv, OwnChain, SentBefore

LEMMA FreshDecrypt ==
    ASSUME IndInv, FreshInv, NEW p \in Party, NEW m \in network \cup Noise, Decrypt(p, m)
    PROVE  FreshInv'
  <1> DEFINE s == state[p]
             t == Turned(s, m)
             r == Consumed(t, m)
  <1>1. s \in RatchetState /\ state \in [Party -> RatchetState] /\ m \in Message
        /\ network \subseteq Message /\ network' = network
    BY NoiseAssumption DEF IndInv, TypeOK, Decrypt
  <1>2. KeysInv(s) /\ OwnChain(p, s)
    BY DEF IndInv, FreshInv
  <1>3. CASE state' = [state EXCEPT ![p] = r]
    <2>1. t \in RatchetState /\ t.receiving_chain # NoChain /\ t.dh_remote = m.dh
      BY <1>1, <1>2, TurnedType DEF KeysInv
    <2>2. m.dh \in KeyPair
      BY <1>1 DEF Message
    <2>3. OwnChain(p, t) /\ (SameSending(t, s) \/ t.dh_self.k = s.dh_self.k + 1)
      BY <1>1, <1>2, TurnedSending DEF KeysInv
    <2>4. SameSending(r, t)
      BY <1>1, <2>1, <2>2, ConsumedSending DEF RemoteKnown
    <2>5. s.dh_self.k \in Nat
      BY <1>1 DEF RatchetState, KeyPair
    <2> HIDE DEF s, t, r
    <2>6. OwnChain(p, r) /\ (SameSending(r, s) \/ r.dh_self.k = s.dh_self.k + 1)
      BY <2>3, <2>4 DEF OwnChain, SameSending
    <2>7. \A q \in Party : state'[q] = IF q = p THEN r ELSE state[q]
      BY <1>1, <1>3
    <2>8. \A q \in Party : OwnChain(q, state'[q])
      BY <2>6, <2>7 DEF FreshInv
    <2>9. ASSUME NEW x \in network PROVE SentBefore(x, state'[x.dh.owner])
      <3>1. SentBefore(x, state[x.dh.owner]) /\ x.dh.owner \in Party /\ x.dh.k \in Nat
        BY <1>1 DEF FreshInv, Message, KeyPair
      <3>2. CASE x.dh.owner # p
        BY <2>7, <3>1, <3>2
      <3>3. CASE x.dh.owner = p
        <4>1. SentBefore(x, s)
          BY <3>1, <3>3 DEF s
        <4>2. SentBefore(x, r)
          BY <2>5, <2>6, <3>1, <4>1 DEF SentBefore, SameSending
        <4> QED BY <2>7, <3>1, <3>3, <4>2
      <3> QED BY <3>2, <3>3
    <2> QED BY <1>1, <2>8, <2>9 DEF FreshInv, OwnChain, SentBefore
  <1>4. CASE state' = [state EXCEPT ![p] = s]
    <2>1. state' = state
      BY <1>1, <1>4
    <2> QED BY <1>1, <2>1 DEF FreshInv, OwnChain, SentBefore
  <1> QED BY <1>3, <1>4 DEF Decrypt, RolledBack

LEMMA FreshStep == IndInv /\ FreshInv /\ [Next]_vars => FreshInv'
  <1> SUFFICES ASSUME IndInv, FreshInv, [Next]_vars PROVE FreshInv'
    OBVIOUS
  <1>1. CASE UNCHANGED vars
    BY <1>1 DEF vars, FreshInv, OwnChain, SentBefore
  <1>2. CASE Next
    BY <1>2, FreshEncrypt, FreshDecrypt DEF Next
  <1> QED BY <1>1, <1>2

LEMMA FreshInvHolds == Spec => []FreshInv
  BY FreshInit, FreshStep, IndInvHolds, PTL DEF Spec

\* encrypt (ratchet.py:146-162) never uses a message key twice: no message on
\* the network, of either party, was encrypted with a key that some party has
\* still to take from its sending chain.
THEOREM SendingKeysFresh == Spec => []NextKeysFresh
  <1>1. IndInv /\ FreshInv => NextKeysFresh
    <2> SUFFICES ASSUME IndInv, FreshInv, NEW p \in Party, NEW m \in network,
                        m.chain = state[p].sending_chain, m.n >= state[p].send_count
                 PROVE  FALSE
      BY DEF NextKeysFresh
    <2> DEFINE s == state[p]
               q == m.dh.owner
    <2>1. s \in RatchetState /\ m \in Message
      BY DEF IndInv, TypeOK
    <2>2. OwnChain(p, s) /\ SentBefore(m, state[q])
      BY DEF FreshInv
    <2>3. s.sending_chain # NoChain
      BY <2>1, SentinelAssumption DEF Message
    <2>4. Place(m.dh) = Place(s.dh_self)
      BY <2>2, <2>3 DEF OwnChain, SentBefore
    <2>5. m.dh = s.dh_self
      BY <2>1, <2>4, Places DEF Message, RatchetState
    <2>6. m.n < s.send_count /\ m.n \in Nat /\ s.send_count \in Nat
      BY <2>1, <2>2, <2>5 DEF SentBefore, OwnChain, Message, RatchetState
    <2> QED BY <2>6
  <1> QED BY <1>1, IndInvHolds, FreshInvHolds, PTL

-----------------------------------------------------------------------------
(* The two sides agree until a ratchet is turned back                      *)

\* The chain both parties derive as long as every DH ratchet goes forward: the
\* j-th agreement is of the key pairs at places j - 1 and j.
AgreementAt(j) == {x \in KeyPair : Place(x) \in {j - 1, j}}
Canon(n) == [j \in 1..n |-> AgreementAt(j)]

\* A party that has only gone forward: the key pair at place l was made when
\* the remote one at place l - 1 came, and every chain is the common one.
InStep(s) ==
    LET l == Place(s.dh_self) IN
    /\ s.root_key = Canon(l)
    /\ s.sending_chain # NoChain => s.sending_chain = Canon(l) /\ l >= 1
    /\ IF l >= 2 THEN s.receiving_chain = Canon(l - 1) ELSE s.receiving_chain = NoChain
    /\ IF l >= 1
       THEN /\ s.dh_remote \in KeyPair /\ s.dh_remote.owner # s.dh_self.owner
            /\ Place(s.dh_remote) = l - 1
       ELSE s.dh_remote = NoKey
    /\ \A e \in s.skipped : e.chain = Canon(Place(e.dh))

\* Of the current receiving chain, what is behind is filed or decrypted.
Accounted(s, D) ==
    s.receiving_chain # NoChain =>
        \A n \in Nat : n < s.recv_count =>
            \/ \E e \in s.skipped : e.dh = s.dh_remote /\ e.n = n
            \/ \E m \in D : m.dh = s.dh_remote /\ m.n = n

Forward == \A p \in Party : ~TurnedBack(state[p])

StepInv ==
    /\ \A p \in Party : InStep(state[p]) /\ Accounted(state[p], delivered)
    /\ \A p, q \in Party : p # q => Place(state[q].dh_self) <= Place(state[p].dh_self) + 1
    /\ \A m \in network : m.chain = Canon(Place(m.dh)) /\ Place(m.dh) >= 1

Unique == \A x, y \in network : x.dh = y.dh /\ x.n = y.n => x = y

ForwardInv == Unique /\ (Forward => StepInv)

LEMMA CanonSteps ==
    ASSUME NEW n \in Nat
    PROVE  /\ Canon(n) \in Chain /\ Len(Canon(n)) = n
           /\ Canon(n + 1) = Append(Canon(n), AgreementAt(n + 1))
           /\ n >= 1 => Canon(n)[n] = AgreementAt(n)
  <1>1. \A j : AgreementAt(j) \in Agreement
    BY DEF AgreementAt, Agreement
  <1>2. \A k \in Nat : Canon(k) \in Seq(Agreement) /\ Len(Canon(k)) = k
    BY <1>1 DEF Canon
  <1>3. \A j \in 1..n + 1 : Canon(n + 1)[j] = Append(Canon(n), AgreementAt(n + 1))[j]
    BY <1>1, <1>2 DEF Canon
  <1>4. Append(Canon(n), AgreementAt(n + 1)) \in Seq(Agreement)
        /\ Len(Append(Canon(n), AgreementAt(n + 1))) = n + 1
    BY <1>1, <1>2
  <1>5. Canon(n + 1) = Append(Canon(n), AgreementAt(n + 1))
    BY <1>2, <1>3, <1>4
  <1>6. n >= 1 => Canon(n)[n] = AgreementAt(n)
    BY DEF Canon
  <1> QED BY <1>2, <1>5, <1>6 DEF Chain

\* Neighbours agree on the agreement of the later one's place.
LEMMA Neighbours ==
    ASSUME NEW x \in KeyPair, NEW y \in KeyPair, Place(y) = Place(x) + 1
    PROVE  {x, y} = AgreementAt(Place(y))
  <1>1. Place(x) \in Nat /\ Place(y) \in Nat /\ Place(x) = Place(y) - 1
    BY Places
  <1>2. \A z \in KeyPair : Place(z) \in {Place(y) - 1, Place(y)} <=> z \in {x, y}
    BY <1>1, Places
  <1> QED BY <1>2 DEF AgreementAt

\* The next key pair of the same party is two places on.
LEMMA NextPlace ==
    ASSUME NEW x \in KeyPair
    PROVE  LET y == [x EXCEPT !.k = @ + 1] IN
           y \in KeyPair /\ y.owner = x.owner /\ y.k = x.k + 1 /\ Place(y) = Place(x) + 2
  <1> DEFINE y == [x EXCEPT !.k = @ + 1]
  <1>1. y \in KeyPair /\ y.owner = x.owner /\ y.k = x.k + 1 /\ x.k \in Nat
    BY DEF KeyPair
  <1>2. Offset(x.owner) \in Nat
    BY DEF Offset
  <1> HIDE DEF y
  <1>3. Place(y) = Place(x) + 2
    BY <1>1, <1>2 DEF Place
  <1> QED BY <1>1, <1>3 DEF y

\* A DH ratchet with the key pair at the next place goes forward.
LEMMA DHRatchetInStep ==
    ASSUME NEW s \in RatchetState, NEW x \in KeyPair, InStep(s),
           x.owner # s.dh_self.owner, Place(x) = Place(s.dh_self) + 1
    PROVE  LET t == DHRatchet(s, x) IN
           InStep(t) /\ t.receiving_chain = Canon(Place(x)) /\ Place(t.dh_self) = Place(s.dh_self) + 2
  <1> DEFINE l == Place(s.dh_self)
             received == Append(s.root_key, {s.dh_self, x})
             self == [s.dh_self EXCEPT !.k = @ + 1]
             sent == Append(received, {self, x})
             t == DHRatchet(s, x)
  <1>1. s.dh_self \in KeyPair /\ s.root_key = Canon(l) /\ l \in Nat
    BY Places DEF RatchetState, InStep
  <1>2. self \in KeyPair /\ self.owner = s.dh_self.owner /\ Place(self) = l + 2
    BY <1>1, NextPlace
  <1>3. t.root_key = sent /\ t.sending_chain = sent /\ t.receiving_chain = received
        /\ t.dh_self = self /\ t.dh_remote = x /\ t.skipped = s.skipped
    BY DEF DHRatchet
  <1> HIDE DEF t, self
  <1>4. {s.dh_self, x} = AgreementAt(l + 1)
    BY <1>1, Neighbours
  <1>5. {self, x} = AgreementAt(l + 2)
    <2>1. Place(self) = Place(x) + 1
      BY <1>1, <1>2
    <2>2. {x, self} = AgreementAt(Place(self))
      BY <1>2, <2>1, Neighbours
    <2> QED BY <1>2, <2>2
  <1>6. received = Canon(l + 1)
    BY <1>1, <1>4, CanonSteps
  <1>7. sent = Canon(l + 2)
    <2>1. l + 1 \in Nat /\ (l + 1) + 1 = l + 2
      BY <1>1
    <2>2. Canon((l + 1) + 1) = Append(Canon(l + 1), AgreementAt((l + 1) + 1))
      BY <2>1, CanonSteps
    <2> QED BY <1>5, <1>6, <2>1, <2>2
  <1> HIDE DEF received, sent, l
  <1>8. l + 2 >= 2 /\ l + 2 >= 1 /\ (l + 2) - 1 = l + 1
    BY <1>1
  <1>9. \A e \in t.skipped : e.chain = Canon(Place(e.dh))
    BY <1>3 DEF InStep
  <1>10. Place(t.dh_self) = l + 2 /\ Place(t.dh_remote) = l + 1
    BY <1>2, <1>3 DEF l
  <1>11. t.dh_remote \in KeyPair /\ t.dh_remote.owner # t.dh_self.owner
    BY <1>2, <1>3
  <1>12. InStep(t)
    BY <1>3, <1>6, <1>7, <1>8, <1>9, <1>10, <1>11 DEF InStep
  <1> QED BY <1>3, <1>6, <1>10, <1>12 DEF t, l

\* Filing and taking keys changes neither the chains nor their agreement.
LEMMA SameInStep ==
    ASSUME NEW s \in RatchetState, NEW r, InStep(s), SameSending(r, s),
           r.receiving_chain = s.receiving_chain, r.dh_remote = s.dh_remote,
           \A e \in r.skipped :
              e \in s.skipped \/ (/\ s.receiving_chain # NoChain
                                  /\ e.chain = s.receiving_chain /\ e.dh = s.dh_remote)
    PROVE  InStep(r)
  <1>1. \A e \in r.skipped : e.chain = Canon(Place(e.dh))
    <2> SUFFICES ASSUME NEW e \in r.skipped, s.receiving_chain # NoChain,
                        e.chain = s.receiving_chain, e.dh = s.dh_remote
                 PROVE  e.chain = Canon(Place(e.dh))
      BY DEF InStep
    <2> DEFINE l == Place(s.dh_self)
    <2>1. l \in Nat /\ l >= 2 /\ s.receiving_chain = Canon(l - 1)
      BY Places DEF InStep, RatchetState
    <2>2. Place(s.dh_remote) = l - 1
      BY <2>1 DEF InStep
    <2> QED BY <2>1, <2>2
  <1> QED BY <1>1 DEF InStep, SameSending

LEMMA SkipKeysInStep ==
    ASSUME NEW s \in RatchetState, NEW u \in Nat, InStep(s)
    PROVE  InStep(SkipKeys(s, u))
  BY SkipKeysFields, SkipKeysSending, SameInStep

LEMMA ConsumedInStep ==
    ASSUME NEW t \in RatchetState, NEW m \in Message, RemoteKnown(t), InStep(t)
    PROVE  InStep(Consumed(t, m))
  <1>1. m.n \in Nat
    BY DEF Message
  <1>2. CASE Filed(t, m) # {}
    <2> DEFINE left == t.skipped \ Filed(t, m)
               r == Consumed(t, m)
    <2>1. r = [t EXCEPT !.skipped = left] /\ left \subseteq t.skipped
      BY <1>2 DEF Consumed
    <2>2. SameSending(r, t)
      BY ConsumedSending
    <2> HIDE DEF left, r
    <2>3. r.receiving_chain = t.receiving_chain /\ r.dh_remote = t.dh_remote /\ r.skipped = left
      BY <2>1 DEF RatchetState
    <2> QED BY <2>1, <2>2, <2>3, SameInStep DEF r
  <1>3. CASE Filed(t, m) = {}
    <2> DEFINE a == SkipKeys(t, m.n)
               r == Consumed(t, m)
    <2>1. a \in RatchetState /\ InStep(a)
      BY <1>1, SkipKeysType, SkipKeysInStep DEF RemoteKnown
    <2>2. r = [a EXCEPT !.recv_count = m.n + 1]
      BY <1>3 DEF Consumed
    <2> HIDE DEF a, r
    <2>3. SameSending(r, a) /\ r.receiving_chain = a.receiving_chain /\ r.dh_remote = a.dh_remote
          /\ r.skipped = a.skipped
      BY <2>1, <2>2 DEF SameSending, RatchetState
    <2> QED BY <2>1, <2>3, SameInStep DEF r
  <1> QED BY <1>2, <1>3

\* The keys SkipKeys files, by what they are filed under.
LEMMA SkipKeysFiles ==
    ASSUME NEW s \in RatchetState, NEW u \in Nat, s.receiving_chain # NoChain,
           s.recv_count <= u
    PROVE  LET r == SkipKeys(s, u) IN
           /\ \A e \in s.skipped : \E f \in r.skipped : f.dh = e.dh /\ f.n = e.n
           /\ \A n \in Nat : s.recv_count <= n /\ n < u
                => \E f \in r.skipped : f.dh = s.dh_remote /\ f.n = n
  <1> DEFINE numbers == s.recv_count .. (u - 1)
             stale == {e \in s.skipped : e.dh = s.dh_remote /\ e.n \in numbers}
             fresh == {[dh |-> s.dh_remote, n |-> i, chain |-> s.receiving_chain] : i \in numbers}
             r == SkipKeys(s, u)
  <1>1. s.recv_count \in Nat
    BY DEF RatchetState
  <1>2. CASE u <= s.recv_count
    <2>1. r = s
      BY <1>2 DEF SkipKeys
    <2>2. \A n \in Nat : ~(s.recv_count <= n /\ n < u)
      BY <1>1, <1>2
    <2> QED BY <2>1, <2>2
  <1>3. CASE ~(u <= s.recv_count)
    <2>1. r = [s EXCEPT !.skipped = (@ \ stale) \cup fresh, !.recv_count = u]
      BY <1>3 DEF SkipKeys
    <2>2. \A n \in numbers : \E f \in fresh : f.dh = s.dh_remote /\ f.n = n
      <3> SUFFICES ASSUME NEW n \in numbers
                   PROVE  \E f \in fresh : f.dh = s.dh_remote /\ f.n = n
        OBVIOUS
      <3>1. [dh |-> s.dh_remote, n |-> n, chain |-> s.receiving_chain] \in fresh
        OBVIOUS
      <3> QED BY <3>1
    <2>3. \A e \in s.skipped : e \in stale => e.dh = s.dh_remote /\ e.n \in numbers
      OBVIOUS
    <2>4. \A n \in Nat : s.recv_count <= n /\ n < u => n \in numbers
      BY <1>1
    <2> HIDE DEF stale, fresh, numbers, r
    <2>5. r.skipped = (s.skipped \ stale) \cup fresh
      BY <2>1 DEF RatchetState
    <2>6. \A e \in s.skipped : \E f \in r.skipped : f.dh = e.dh /\ f.n = e.n
      BY <2>2, <2>3, <2>5
    <2>7. \A n \in Nat : s.recv_count <= n /\ n < u
                => \E f \in r.skipped : f.dh = s.dh_remote /\ f.n = n
      BY <2>2, <2>4, <2>5
    <2> QED BY <2>6, <2>7 DEF r
  <1> QED BY <1>2, <1>3

\* Taking the key of m accounts for it and for all before it.
LEMMA ConsumedAccounted ==
    ASSUME NEW t \in RatchetState, NEW m \in Message, NEW D \in SUBSET Message,
           t.receiving_chain # NoChain, t.dh_remote = m.dh, Accounted(t, D),
           Filed(t, m) = {} => ~(m.n < t.recv_count)
    PROVE  Accounted(Consumed(t, m), D \cup {m})
  <1> DEFINE r == Consumed(t, m)
  <1>1. m.n \in Nat /\ t.recv_count \in Nat /\ m.dh \in KeyPair
    BY DEF Message, RatchetState
  <1>2. CASE Filed(t, m) # {}
    <2> DEFINE left == t.skipped \ Filed(t, m)
    <2>1. r = [t EXCEPT !.skipped = left]
      BY <1>2 DEF Consumed
    <2>2. \A e \in t.skipped : e \in left \/ (e.dh = m.dh /\ e.n = m.n)
      BY DEF Filed
    <2> HIDE DEF left, r
    <2>3. r.dh_remote = t.dh_remote /\ r.skipped = left /\ r.recv_count = t.recv_count
      BY <2>1 DEF RatchetState
    <2>4. ASSUME NEW n \in Nat, n < r.recv_count
          PROVE  \/ \E e \in r.skipped : e.dh = r.dh_remote /\ e.n = n
                 \/ \E x \in D \cup {m} : x.dh = r.dh_remote /\ x.n = n
      <3>1. \/ \E e \in t.skipped : e.dh = t.dh_remote /\ e.n = n
            \/ \E x \in D : x.dh = t.dh_remote /\ x.n = n
        BY <2>3, <2>4 DEF Accounted
      <3> QED BY <2>2, <2>3, <3>1
    <2> QED BY <2>4 DEF Accounted, r
  <1>3. CASE Filed(t, m) = {}
    <2> DEFINE a == SkipKeys(t, m.n)
    <2>1. a \in RatchetState
      BY <1>1, SkipKeysType
    <2>2. r = [a EXCEPT !.recv_count = m.n + 1]
      BY <1>3 DEF Consumed
    <2>3. t.recv_count <= m.n
      BY <1>1, <1>3
    <2>4. /\ \A e \in t.skipped : \E f \in a.skipped : f.dh = e.dh /\ f.n = e.n
          /\ \A n \in Nat : t.recv_count <= n /\ n < m.n
               => \E f \in a.skipped : f.dh = t.dh_remote /\ f.n = n
      BY <1>1, <2>3, SkipKeysFiles
    <2>5. a.dh_remote = t.dh_remote
      BY <1>1, SkipKeysFields
    <2> HIDE DEF a, r
    <2>6. r.dh_remote = t.dh_remote /\ r.skipped = a.skipped /\ r.recv_count = m.n + 1
      BY <2>1, <2>2, <2>5 DEF RatchetState
    <2>7. ASSUME NEW n \in Nat, n < r.recv_count
          PROVE  \/ \E e \in r.skipped : e.dh = r.dh_remote /\ e.n = n
                 \/ \E x \in D \cup {m} : x.dh = r.dh_remote /\ x.n = n
      <3>1. CASE n = m.n
        BY <2>6, <3>1
      <3>2. CASE n < t.recv_count
        <4>1. \/ \E e \in t.skipped : e.dh = t.dh_remote /\ e.n = n
              \/ \E x \in D : x.dh = t.dh_remote /\ x.n = n
          BY <3>2 DEF Accounted
        <4> QED BY <2>4, <2>6, <4>1
      <3>3. CASE t.recv_count <= n /\ n < m.n
        BY <2>4, <2>6, <3>3
      <3>4. n = m.n \/ n < t.recv_count \/ (t.recv_count <= n /\ n < m.n)
        BY <1>1, <2>6, <2>7
      <3> QED BY <3>1, <3>2, <3>3, <3>4
    <2> QED BY <2>7 DEF Accounted, r
  <1> QED BY <1>2, <1>3

\* A message for a party in step that is not late belongs to the current
\* receiving chain or to the next one.
LEMMA NextOrCurrent ==
    ASSUME NEW s \in RatchetState, NEW m \in Message, InStep(s), OnTime(m, s),
           m.dh.owner # s.dh_self.owner, Place(m.dh) >= 1,
           Place(m.dh) <= Place(s.dh_self) + 1
    PROVE  \/ m.dh = s.dh_remote /\ s.receiving_chain # NoChain
           \/ Place(m.dh) = Place(s.dh_self) + 1
  <1> DEFINE l == Place(s.dh_self)
             x == m.dh
  <1>1. s.dh_self \in KeyPair /\ x \in KeyPair /\ l \in Nat /\ Place(x) \in Nat
    BY Places DEF RatchetState, Message
  <1>2. Place(x) # l
    BY <1>1, Places
  <1>3. CASE l >= 1
    <2> DEFINE y == s.dh_remote
    <2>1. y \in KeyPair /\ y.owner # s.dh_self.owner /\ Place(y) = l - 1
      BY <1>3 DEF InStep
    <2>2. y.owner = x.owner
      BY <1>1, <2>1 DEF KeyPair, Party
    <2>3. y.k <= x.k /\ y.k \in Nat /\ x.k \in Nat
      BY <1>1, <2>1, SentinelAssumption DEF OnTime, KeyPair
    <2>4. Offset(x.owner) \in Nat
      BY DEF Offset
    <2>5. Place(y) <= Place(x)
      BY <2>2, <2>3, <2>4 DEF Place
    <2>6. Place(x) = l + 1 \/ Place(x) = Place(y)
      BY <1>1, <1>2, <2>1, <2>5
    <2>7. CASE Place(x) = Place(y)
      <3>1. x = y
        BY <1>1, <2>1, <2>7, Places
      <3>2. l >= 2
        BY <1>1, <2>1, <2>7
      <3>3. s.receiving_chain = Canon(l - 1)
        BY <3>2 DEF InStep
      <3>4. l - 1 \in Nat
        BY <1>1, <3>2
      <3>5. Canon(l - 1) \in Chain
        BY <3>4, CanonSteps
      <3> QED BY <3>1, <3>3, <3>5, SentinelAssumption
    <2> QED BY <2>6, <2>7
  <1>4. CASE ~(l >= 1)
    BY <1>1, <1>4
  <1> QED BY <1>3, <1>4

\* The state in which such a message's key is looked up is in step, and on the
\* message's chain.
LEMMA TurnedInStep ==
    ASSUME NEW s \in RatchetState, NEW m \in Message, NEW D \in SUBSET Message,
           RemoteKnown(s), InStep(s), Accounted(s, D), m.dh.owner # s.dh_self.owner,
           m.chain = Canon(Place(m.dh)),
           \/ m.dh = s.dh_remote /\ s.receiving_chain # NoChain
           \/ Place(m.dh) = Place(s.dh_self) + 1
    PROVE  LET t == Turned(s, m) IN
           /\ InStep(t) /\ Accounted(t, D) /\ t.receiving_chain = m.chain
           /\ \/ t = s /\ m.dh = s.dh_remote
              \/ /\ Place(m.dh) = Place(s.dh_self) + 1 /\ t.recv_count = 0
                 /\ Place(t.dh_self) = Place(s.dh_self) + 2
  <1> DEFINE l == Place(s.dh_self)
             t == Turned(s, m)
  <1>1. l \in Nat /\ m.dh \in KeyPair /\ m.pn \in Nat /\ Place(m.dh) \in Nat
    BY Places DEF RatchetState, Message
  <1>2. CASE m.dh = s.dh_remote /\ s.receiving_chain # NoChain
    <2>1. t = s
      BY <1>2 DEF Turned, StartsChain
    <2>2. l >= 2 /\ s.receiving_chain = Canon(l - 1)
      BY <1>2 DEF InStep
    <2>3. l >= 1
      BY <1>1, <2>2
    <2>4. Place(m.dh) = l - 1
      BY <1>2, <2>3 DEF InStep
    <2> HIDE DEF t
    <2> QED BY <1>2, <2>1, <2>2, <2>4 DEF t
  <1>3. CASE Place(m.dh) = l + 1
    <2> DEFINE a == SkipKeys(s, m.pn)
    <2>1. s.dh_remote # m.dh
      <3>1. CASE l >= 1
        <4>1. Place(s.dh_remote) = l - 1
          BY <3>1 DEF InStep
        <4> QED BY <1>1, <1>3, <4>1
      <3>2. CASE ~(l >= 1)
        <4>1. s.dh_remote = NoKey
          BY <3>2 DEF InStep
        <4> QED BY <1>1, <4>1, SentinelAssumption
      <3> QED BY <3>1, <3>2
    <2>2. t = DHRatchet(a, m.dh)
      BY <2>1 DEF Turned, StartsChain
    <2>3. a \in RatchetState /\ InStep(a) /\ SameSending(a, s)
      BY <1>1, SkipKeysType, SkipKeysInStep, SkipKeysSending DEF RemoteKnown
    <2>4. a.dh_self = s.dh_self
      BY <2>3 DEF SameSending
    <2> HIDE DEF a, t
    <2>5. InStep(t) /\ t.receiving_chain = Canon(Place(m.dh)) /\ Place(t.dh_self) = l + 2
      BY <1>1, <1>3, <2>2, <2>3, <2>4, DHRatchetInStep
    <2>6. t.recv_count = 0
      BY <1>1, <2>2, <2>3, DHRatchetFields
    <2>7. \A n \in Nat : ~(n < t.recv_count)
      BY <2>6
    <2>8. Accounted(t, D)
      BY <2>7 DEF Accounted
    <2> QED BY <1>3, <2>5, <2>6, <2>8 DEF t
  <1> QED BY <1>2, <1>3

\* A root key only grows, so that a ratchet turned back stays so; and one that
\* is in step is turned back by a message of an older key.
LEMMA TurnedBackStays ==
    ASSUME NEW s \in RatchetState, NEW m \in Message, RemoteKnown(s)
    PROVE  LET t == Turned(s, m) IN
           /\ TurnedBack(s) => TurnedBack(t)
           /\ InStep(s) /\ m.dh.owner # s.dh_self.owner /\ ~OnTime(m, s) => TurnedBack(t)
  <1> DEFINE t == Turned(s, m)
             a == SkipKeys(s, m.pn)
             received == Append(s.root_key, {s.dh_self, m.dh})
             self == [s.dh_self EXCEPT !.k = @ + 1]
             sent == Append(received, {self, m.dh})
             n == Len(s.root_key)
  <1>1. m.dh \in KeyPair /\ m.pn \in Nat /\ s.dh_self \in KeyPair /\ s.root_key \in Chain
    BY DEF Message, RatchetState
  <1>2. CASE StartsChain(s, m)
    <2>1. a \in RatchetState /\ SameSending(a, s)
      BY <1>1, SkipKeysType, SkipKeysSending DEF RemoteKnown
    <2>2. t = DHRatchet(a, m.dh)
      BY <1>2 DEF Turned
    <2>3. t.root_key = sent /\ t.dh_self = self
      BY <2>1, <2>2 DEF DHRatchet, SameSending
    <2>4. self \in KeyPair /\ self.owner = s.dh_self.owner
      BY <1>1, NextPlace
    <2>5. n \in Nat /\ DOMAIN s.root_key = 1..n /\ DOMAIN sent = 1..n + 2
          /\ (\A i \in 1..n : sent[i] = s.root_key[i]) /\ sent[n + 1] = {s.dh_self, m.dh}
      <3>1. {s.dh_self, m.dh} \in Agreement /\ {self, m.dh} \in Agreement
        BY <1>1, <2>4 DEF Agreement
      <3> QED BY <1>1, <3>1 DEF Chain
    <2> HIDE DEF t, a, received, self, sent, n
    <2>6. ASSUME TurnedBack(s) PROVE TurnedBack(t)
      <3>1. PICK i \in DOMAIN s.root_key, j \in DOMAIN s.root_key :
              /\ i < j
              /\ \E newer \in s.root_key[i], older \in s.root_key[j] :
                    /\ newer.owner = older.owner /\ newer.owner # s.dh_self.owner
                    /\ older.k < newer.k
        BY <2>6 DEF TurnedBack
      <3>2. i \in DOMAIN sent /\ j \in DOMAIN sent /\ sent[i] = s.root_key[i] /\ sent[j] = s.root_key[j]
        BY <2>5
      <3> QED BY <2>3, <2>4, <3>1, <3>2 DEF TurnedBack
    <2>7. ASSUME InStep(s), m.dh.owner # s.dh_self.owner, ~OnTime(m, s) PROVE TurnedBack(t)
      <3> DEFINE l == Place(s.dh_self)
                 y == s.dh_remote
      <3>1. y # NoKey /\ ~(y.k <= m.dh.k) /\ l \in Nat
        BY <1>1, <2>7, Places DEF OnTime
      <3>2. l >= 1
        BY <2>7, <3>1 DEF InStep
      <3>3. y \in KeyPair /\ y.owner # s.dh_self.owner /\ Place(y) = l - 1 /\ s.root_key = Canon(l)
        BY <2>7, <3>2 DEF InStep
      <3>4. n = l /\ s.root_key[n] = AgreementAt(l)
        BY <3>1, <3>2, <3>3, CanonSteps DEF n
      <3>5. y \in s.root_key[n]
        BY <3>3, <3>4 DEF AgreementAt
      <3>6. y.owner = m.dh.owner /\ m.dh.k < y.k
        <4>1. y.owner = m.dh.owner
          BY <1>1, <2>7, <3>3 DEF KeyPair, Party
        <4>2. m.dh.k \in Nat /\ y.k \in Nat
          BY <1>1, <3>3 DEF KeyPair
        <4> QED BY <3>1, <4>1, <4>2
      <3>7. n \in DOMAIN sent /\ n + 1 \in DOMAIN sent /\ n < n + 1
            /\ sent[n] = s.root_key[n] /\ m.dh \in sent[n + 1]
        BY <2>5, <3>2, <3>4
      <3>8. y.owner # t.dh_self.owner
        BY <2>3, <2>4, <3>3
      <3> HIDE DEF y
      <3> QED BY <2>3, <3>5, <3>6, <3>7, <3>8 DEF TurnedBack
    <2> QED BY <2>6, <2>7 DEF t
  <1>3. CASE ~StartsChain(s, m)
    <2>1. t = s
      BY <1>3 DEF Turned
    <2>2. m.dh.k \in Nat /\ s.dh_remote = m.dh
      BY <1>1, <1>3 DEF KeyPair, StartsChain
    <2>3. OnTime(m, s)
      BY <2>2 DEF OnTime
    <2> QED BY <2>1, <2>3
  <1> QED BY <1>2, <1>3

\* Every message that is not late and not yet decrypted can be.
LEMMA StepInvOpens ==
    ASSUME IndInv, FreshInv, Unique, StepInv, NEW p \in Party, NEW m \in network,
           m.dh.owner # p, OnTime(m, state[p])
    PROVE  LET s == state[p]
               t == Turned(s, m)
           IN  /\ InStep(t) /\ Accounted(t, delivered)
               /\ \/ Place(t.dh_self) = Place(s.dh_self)
                  \/ /\ Place(m.dh) = Place(s.dh_self) + 1
                     /\ Place(t.dh_self) = Place(s.dh_self) + 2
               /\ m \notin delivered => Opens(s, m) \/ TooFar(s, m)
  <1> DEFINE s == state[p]
             q == m.dh.owner
             t == Turned(s, m)
  <1>1. s \in RatchetState /\ m \in Message /\ delivered \in SUBSET Message
        /\ delivered \subseteq network
    BY DEF IndInv, TypeOK
  <1>2. RemoteKnown(s) /\ OwnChain(p, s) /\ InStep(s) /\ Accounted(s, delivered)
    BY DEF IndInv, KeysInv, FreshInv, StepInv
  <1>3. s.dh_self.owner = p /\ q \in Party /\ q # p
    BY <1>1, <1>2 DEF OwnChain, Message, KeyPair
  <1>4. m.chain = Canon(Place(m.dh)) /\ Place(m.dh) >= 1
    BY DEF StepInv
  <1>5. Place(m.dh) <= Place(s.dh_self) + 1
    <2>1. SentBefore(m, state[q]) /\ OwnChain(q, state[q])
      BY <1>3 DEF FreshInv
    <2>2. m.dh.k <= state[q].dh_self.k /\ state[q].dh_self.owner = m.dh.owner
      BY <2>1 DEF SentBefore, OwnChain
    <2>3. m.dh \in KeyPair /\ state[q].dh_self \in KeyPair
      BY <1>1, <1>3 DEF IndInv, TypeOK, Message, RatchetState
    <2>4. m.dh.k \in Nat /\ state[q].dh_self.k \in Nat /\ Offset(m.dh.owner) \in Nat
      BY <2>3 DEF KeyPair, Offset
    <2>5. Place(m.dh) <= Place(state[q].dh_self)
      BY <2>2, <2>4 DEF Place
    <2>6. Place(state[q].dh_self) <= Place(s.dh_self) + 1
      BY <1>3 DEF StepInv
    <2>7. Place(m.dh) \in Nat /\ Place(state[q].dh_self) \in Nat /\ Place(s.dh_self) \in Nat
      BY <1>1, <2>3, Places DEF RatchetState
    <2> HIDE DEF s, q
    <2> QED BY <2>5, <2>6, <2>7
  <1> HIDE DEF s, t
  <1>6. OnTime(m, s)
    BY DEF s
  <1>7. \/ m.dh = s.dh_remote /\ s.receiving_chain # NoChain
        \/ Place(m.dh) = Place(s.dh_self) + 1
    BY <1>1, <1>2, <1>3, <1>4, <1>5, <1>6, NextOrCurrent
  <1>8. /\ InStep(t) /\ Accounted(t, delivered) /\ t.receiving_chain = m.chain
        /\ \/ t = s /\ m.dh = s.dh_remote
           \/ /\ Place(m.dh) = Place(s.dh_self) + 1 /\ t.recv_count = 0
              /\ Place(t.dh_self) = Place(s.dh_self) + 2
    BY <1>1, <1>2, <1>3, <1>4, <1>7, TurnedInStep DEF t
  <1>9. ASSUME m \notin delivered PROVE Opens(s, m) \/ TooFar(s, m)
    <2>1. ChainUsed(t, m) = m.chain
      <3>1. \A e \in Filed(t, m) : e.chain = m.chain
        BY <1>4, <1>8 DEF InStep, Filed
      <3> QED BY <1>8, <3>1 DEF ChainUsed
    <2>2. ~Duplicate(s, m)
      <3> SUFFICES ASSUME Filed(t, m) = {}, m.n < t.recv_count PROVE FALSE
        BY DEF Duplicate, t
      <3>1. m.n \in Nat /\ t.recv_count # 0
        <4>1. m.n \in Nat
          BY <1>1 DEF Message
        <4> QED BY <4>1
      <3>2. t = s /\ m.dh = s.dh_remote
        BY <1>8, <3>1
      <3>3. s.receiving_chain # NoChain
        BY <1>1, <1>8, <3>2, SentinelAssumption DEF Message
      <3>4. \/ \E e \in s.skipped : e.dh = s.dh_remote /\ e.n = m.n
            \/ \E x \in delivered : x.dh = s.dh_remote /\ x.n = m.n
        BY <1>2, <3>1, <3>2, <3>3 DEF Accounted
      <3>5. ~(\E e \in s.skipped : e.dh = s.dh_remote /\ e.n = m.n)
        BY <3>2 DEF Filed
      <3>6. PICK x \in delivered : x.dh = m.dh /\ x.n = m.n
        BY <3>2, <3>4, <3>5
      <3> QED BY <1>1, <1>9, <3>6 DEF Unique
    <2> QED BY <2>1, <2>2 DEF Opens, t
  <1> QED BY <1>8, <1>9 DEF s, t

LEMMA ForwardInit == Init => ForwardInv
  <1> SUFFICES ASSUME Init PROVE ForwardInv
    OBVIOUS
  <1> DEFINE i == [owner |-> Initiator, k |-> 0]
             r == [owner |-> Responder, k |-> 0]
  <1>1. i \in KeyPair /\ r \in KeyPair /\ i.owner # r.owner /\ Place(i) = 1 /\ Place(r) = 0
    BY PartiesAssumption DEF KeyPair, Party, Place, Offset
  <1>2. Canon(0) = <<>>
    BY DEF Canon
  <1>3. Canon(1) = <<{i, r}>>
    <2>1. {r, i} = AgreementAt(1)
      BY <1>1, Neighbours
    <2>2. Canon(0 + 1) = Append(Canon(0), AgreementAt(0 + 1))
      BY CanonSteps
    <2> HIDE DEF i, r
    <2>3. Append(<<>>, {i, r}) = <<{i, r}>> /\ {r, i} = {i, r} /\ 0 + 1 = 1
      OBVIOUS
    <2>4. Canon(1) = Append(Canon(0), AgreementAt(1))
      BY <2>2, <2>3
    <2> QED BY <1>2, <2>1, <2>3, <2>4
  <1>4. /\ InitiatorState.dh_self = i /\ InitiatorState.dh_remote = r
        /\ InitiatorState.root_key = <<{i, r}>> /\ InitiatorState.sending_chain = <<{i, r}>>
        /\ InitiatorState.receiving_chain = NoChain /\ InitiatorState.skipped = {}
    BY DEF InitiatorState
  <1>5. /\ ResponderState.dh_self = r /\ ResponderState.dh_remote = NoKey
        /\ ResponderState.root_key = <<>> /\ ResponderState.sending_chain = NoChain
        /\ ResponderState.receiving_chain = NoChain /\ ResponderState.skipped = {}
    BY DEF ResponderState
  <1> HIDE DEF i, r
  <1>6. InStep(InitiatorState) /\ Accounted(InitiatorState, delivered)
    BY <1>1, <1>3, <1>4 DEF InStep, Accounted
  <1>7. InStep(ResponderState) /\ Accounted(ResponderState, delivered)
    BY <1>1, <1>2, <1>5 DEF InStep, Accounted
  <1>8. state[Initiator] = InitiatorState /\ state[Responder] = ResponderState
    BY PartiesAssumption DEF Init, Party
  <1>9. \A p, q \in Party : p # q => Place(state[q].dh_self) <= Place(state[p].dh_self) + 1
    BY <1>1, <1>4, <1>5, <1>8 DEF Party
  <1>10. network = {}
    BY DEF Init
  <1>11. \A p \in Party : InStep(state[p]) /\ Accounted(state[p], delivered)
    BY <1>6, <1>7, <1>8 DEF Party
  <1> QED BY <1>9, <1>10, <1>11 DEF ForwardInv, StepInv, Unique

LEMMA ForwardStutter ==
    ASSUME ForwardInv, UNCHANGED vars
    PROVE  ForwardInv'
  BY DEF vars, ForwardInv, Unique, Forward, TurnedBack, StepInv, InStep, Accounted, Place,
         Canon, AgreementAt

LEMMA ForwardEncrypt ==
    ASSUME IndInv, FreshInv, ForwardInv, NEW p \in Party, Encrypt(p)
    PROVE  ForwardInv'
  <1> DEFINE s == state[p]
             sent == [s EXCEPT !.send_count = @ + 1]
             m == [dh |-> s.dh_self, pn |-> s.prev_send_count, n |-> s.send_count,
                   chain |-> s.sending_chain]
  <1>1. s \in RatchetState /\ state \in [Party -> RatchetState] /\ network \subseteq Message
    BY DEF IndInv, TypeOK
  <1>2. state' = [state EXCEPT ![p] = sent] /\ network' = network \cup {m}
        /\ delivered' = delivered /\ s.sending_chain # NoChain
    BY DEF Encrypt
  <1>3. /\ sent.dh_self = s.dh_self /\ sent.root_key = s.root_key
        /\ sent.sending_chain = s.sending_chain /\ sent.receiving_chain = s.receiving_chain
        /\ sent.dh_remote = s.dh_remote /\ sent.recv_count = s.recv_count
        /\ sent.skipped = s.skipped
    BY <1>1 DEF RatchetState
  <1>4. m.dh = s.dh_self /\ m.n = s.send_count /\ m.chain = s.sending_chain
    OBVIOUS
  <1>5. s.dh_self.owner = p /\ s.send_count \in Nat
    BY <1>1 DEF FreshInv, OwnChain, RatchetState
  <1>6. \A x \in network : ~(x.dh = m.dh /\ x.n = m.n)
    <2> SUFFICES ASSUME NEW x \in network, x.dh = s.dh_self, x.n = s.send_count PROVE FALSE
      BY <1>4
    <2>1. SentBefore(x, s)
      BY <1>5 DEF FreshInv
    <2> QED BY <1>5, <2>1 DEF SentBefore
  <1> HIDE DEF s, sent, m
  <1>7. Unique'
    BY <1>2, <1>6 DEF ForwardInv, Unique
  <1>8. \A q \in Party : state'[q] = IF q = p THEN sent ELSE state[q]
    BY <1>1, <1>2
  <1>9. ASSUME Forward' PROVE StepInv'
    <2>1. TurnedBack(s) => TurnedBack(sent)
      BY <1>3 DEF TurnedBack
    <2>2. Forward
      <3> SUFFICES ASSUME NEW q \in Party PROVE ~TurnedBack(state[q])
        BY DEF Forward
      <3>1. ~TurnedBack(state'[q])
        BY <1>9 DEF Forward, TurnedBack
      <3> QED BY <1>8, <2>1, <3>1 DEF s
    <2>3. StepInv
      BY <2>2 DEF ForwardInv
    <2>4. InStep(sent) /\ Accounted(sent, delivered)
      <3>1. InStep(s) /\ Accounted(s, delivered)
        BY <2>3 DEF StepInv, s
      <3> QED BY <1>3, <3>1 DEF InStep, Accounted
    <2>5. \A q \in Party : InStep(state'[q]) /\ Accounted(state'[q], delivered')
      BY <1>2, <1>8, <2>3, <2>4 DEF StepInv
    <2>6. \A q \in Party : state'[q].dh_self = state[q].dh_self
      BY <1>3, <1>8 DEF s
    <2>7. \A a, b \in Party : a # b => Place(state'[b].dh_self) <= Place(state'[a].dh_self) + 1
      BY <2>3, <2>6 DEF StepInv
    <2>8. m.chain = Canon(Place(m.dh)) /\ Place(m.dh) >= 1
      <3>1. InStep(s)
        BY <2>3 DEF StepInv, s
      <3> QED BY <1>2, <1>4, <3>1 DEF InStep
    <2>9. \A x \in network' : x.chain = Canon(Place(x.dh)) /\ Place(x.dh) >= 1
      BY <1>2, <2>3, <2>8 DEF StepInv
    <2> QED BY <2>5, <2>7, <2>9 DEF StepInv, InStep, Accounted, Place, Canon, AgreementAt
  <1> QED BY <1>7, <1>9 DEF ForwardInv

LEMMA ForwardDecrypt ==
    ASSUME IndInv, FreshInv, ForwardInv, NEW p \in Party, NEW m \in network \cup Noise,
           Decrypt(p, m)
    PROVE  ForwardInv'
  <1> DEFINE s == state[p]
             t == Turned(s, m)
             r == Consumed(t, m)
  <1>1. s \in RatchetState /\ state \in [Party -> RatchetState] /\ m \in Message
        /\ network' = network /\ delivered \in SUBSET Message
    BY NoiseAssumption DEF IndInv, TypeOK, Decrypt
  <1>2. Unique'
    BY <1>1 DEF ForwardInv, Unique
  <1>3. KeysInv(s) /\ RemoteKnown(s) /\ s.dh_self.owner = p /\ m.dh.owner # p
    BY DEF IndInv, KeysInv, FreshInv, OwnChain, Decrypt
  <1>4. CASE m \in network /\ Opens(s, m) /\ state' = [state EXCEPT ![p] = r]
             /\ delivered' = delivered \cup {m}
    <2> SUFFICES ASSUME Forward' PROVE StepInv'
      BY <1>2 DEF ForwardInv
    <2>1. t \in RatchetState /\ t.receiving_chain # NoChain /\ t.dh_remote = m.dh
      BY <1>1, <1>3, TurnedType DEF KeysInv
    <2>2. RemoteKnown(t)
      BY <1>1, <2>1 DEF RemoteKnown, Message
    <2>3. SameSending(r, t)
      BY <1>1, <2>1, <2>2, ConsumedSending
    <2>4. Filed(t, m) = {} => ~(m.n < t.recv_count)
      BY <1>4 DEF Opens, Duplicate
    <2>5. (TurnedBack(s) => TurnedBack(t))
          /\ (InStep(s) /\ m.dh.owner # s.dh_self.owner /\ ~OnTime(m, s) => TurnedBack(t))
      BY <1>1, <1>3, TurnedBackStays
    <2>6. \A q \in Party : state'[q] = IF q = p THEN r ELSE state[q]
      BY <1>1, <1>4
    <2>7. TurnedBack(t) => TurnedBack(r)
      <3> HIDE DEF t, r
      <3> QED BY <2>3 DEF TurnedBack, SameSending
    <2>8. \A q \in Party : ~TurnedBack(state'[q])
      BY DEF Forward, TurnedBack
    <2>9. Forward
      <3> HIDE DEF t, r
      <3> QED BY <2>5, <2>6, <2>7, <2>8 DEF Forward, s
    <2>10. StepInv /\ Unique
      BY <2>9 DEF ForwardInv
    <2>11. OnTime(m, s)
      <3>1. InStep(s)
        BY <2>10 DEF StepInv
      <3>2. ~TurnedBack(t)
        BY <2>6, <2>7, <2>8
      <3> QED BY <1>3, <2>5, <3>1, <3>2
    <2>12. /\ InStep(t) /\ Accounted(t, delivered)
           /\ \/ Place(t.dh_self) = Place(s.dh_self)
              \/ /\ Place(m.dh) = Place(s.dh_self) + 1
                 /\ Place(t.dh_self) = Place(s.dh_self) + 2
      BY <1>3, <1>4, <2>10, <2>11, StepInvOpens
    <2>13. InStep(r) /\ Accounted(r, delivered \cup {m})
      BY <1>1, <2>1, <2>2, <2>4, <2>12, ConsumedInStep, ConsumedAccounted
    <2>14. r.dh_self = t.dh_self
      BY <2>3 DEF SameSending
    <2> HIDE DEF s, t, r
    <2>15. \A q \in Party : InStep(state'[q]) /\ Accounted(state'[q], delivered')
      <3>1. \A q \in Party : Accounted(state[q], delivered) => Accounted(state[q], delivered')
        BY <1>4 DEF Accounted
      <3> QED BY <1>4, <2>6, <2>10, <2>13, <3>1 DEF StepInv
    <2>16. ASSUME NEW q \in Party, q # p
           PROVE  /\ Place(state[q].dh_self) <= Place(r.dh_self) + 1
                  /\ Place(r.dh_self) <= Place(state[q].dh_self) + 1
      <3>1. Place(state[q].dh_self) \in Nat /\ Place(s.dh_self) \in Nat /\ Place(m.dh) \in Nat
        BY <1>1, Places DEF RatchetState, Message
      <3>2. Place(state[q].dh_self) <= Place(s.dh_self) + 1
            /\ Place(s.dh_self) <= Place(state[q].dh_self) + 1
        BY <2>10, <2>16 DEF StepInv, s
      <3>3. Place(m.dh) <= Place(state[q].dh_self)
        <4>1. m.dh.owner = q
          BY <1>1, <1>3, <2>16 DEF Message, KeyPair, Party
        <4>2. SentBefore(m, state[q]) /\ state[q].dh_self.owner = q
          BY <1>4, <4>1 DEF FreshInv, OwnChain
        <4>3. m.dh.k \in Nat /\ state[q].dh_self.k \in Nat /\ Offset(q) \in Nat
          BY <1>1 DEF Message, RatchetState, KeyPair, Offset
        <4> QED BY <4>1, <4>2, <4>3 DEF SentBefore, Place
      <3> QED BY <2>12, <2>14, <3>1, <3>2, <3>3
    <2>17. \A a, b \in Party : a # b => Place(state'[b].dh_self) <= Place(state'[a].dh_self) + 1
      <3> SUFFICES ASSUME NEW a \in Party, NEW b \in Party, a # b
                   PROVE  Place(state'[b].dh_self) <= Place(state'[a].dh_self) + 1
        OBVIOUS
      <3>1. CASE a = p
        BY <2>6, <2>16, <3>1
      <3>2. CASE a # p
        <4>1. b = p
          BY <3>2 DEF Party
        <4> QED BY <2>6, <2>16, <3>2, <4>1
      <3> QED BY <3>1, <3>2
    <2>18. \A x \in network' : x.chain = Canon(Place(x.dh)) /\ Place(x.dh) >= 1
      BY <1>1, <2>10 DEF StepInv
    <2> QED BY <2>15, <2>17, <2>18 DEF StepInv, InStep, Accounted, Place, Canon, AgreementAt
  <1>5. CASE state' = [state EXCEPT ![p] = s] /\ delivered' = delivered
    <2>1. state' = state
      BY <1>1, <1>5
    <2>2. state' = state /\ network' = network /\ delivered' = delivered
      BY <1>1, <1>5, <2>1
    <2> QED BY <2>2, ForwardStutter DEF vars
  <1> QED BY <1>4, <1>5 DEF Decrypt, RolledBack

LEMMA ForwardStep == IndInv /\ FreshInv /\ ForwardInv /\ [Next]_vars => ForwardInv'
  <1> SUFFICES ASSUME IndInv, FreshInv, ForwardInv, [Next]_vars PROVE ForwardInv'
    OBVIOUS
  <1>1. CASE UNCHANGED vars
    BY <1>1, ForwardStutter
  <1>2. CASE Next
    BY <1>2, ForwardEncrypt, ForwardDecrypt DEF Next
  <1> QED BY <1>1, <1>2

\* "Out-of-order messages are supported through a bounded skipped-key cache"
\* (ratchet.py:5): until a late message turns a ratchet back, the two sides
\* derive the same chains, and whatever is lost, repeated, reordered or damaged,
\* a message of a current chain that was not decrypted yet can be, unless it is
\* out of the reach of MAX_SKIP.
THEOREM CurrentMessagesOpen == Spec => []CurrentChainsOpen
  <1>1. IndInv /\ FreshInv /\ ForwardInv => CurrentChainsOpen
    <2> SUFFICES ASSUME IndInv, FreshInv, ForwardInv, \A p \in Party : ~TurnedBack(state[p]),
                        NEW m \in network \ delivered, OnTime(m, state[To(m)])
                 PROVE  Opens(state[To(m)], m) \/ TooFar(state[To(m)], m)
      BY DEF CurrentChainsOpen
    <2>1. StepInv /\ Unique
      BY DEF ForwardInv, Forward
    <2>2. To(m) \in Party /\ m.dh.owner # To(m)
      BY PartiesAssumption DEF To, Party
    <2> QED BY <2>1, <2>2, StepInvOpens
  <1>2. Spec => []ForwardInv
    BY ForwardInit, ForwardStep, IndInvHolds, FreshInvHolds, PTL DEF Spec
  <1> QED BY <1>1, <1>2, IndInvHolds, FreshInvHolds, PTL

=============================================================================
