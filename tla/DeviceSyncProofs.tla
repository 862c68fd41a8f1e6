-------------------------- MODULE DeviceSyncProofs --------------------------
(***************************************************************************)
(* Proofs about DeviceSync, for every set of devices, relays and messages  *)
(* and every value of the bounds: the types, one row per message           *)
(* (OneRowEach), consent (ConsentRequired), withdrawn approvals            *)
(* (RevokedStaysRevoked) and complete transfers (CompleteMeansAll).        *)
(*                                                                         *)
(* TypeInv carries what the cached index of a transfer knows of the rows.  *)
(* Each action is first shown to be a Step: it keeps TypeInv, and does one *)
(* of seven things to approvals and records (Flow), loses no row, and      *)
(* changes the progress of a transfer only by a record in flight.  The     *)
(* other invariants, ConsentInv, GrantInv and TransferInv, are then kept   *)
(* by every Step.  Where a recursive function is involved (FlattenSeq,     *)
(* MergeAll), the induction is over the set of numbers for which the       *)
(* statement holds.                                                        *)
(***************************************************************************)
EXTENDS DeviceSync, FiniteSetTheorems, SequenceTheorems, TLAPS

(* What the proofs carry from state to state.                              *)

\* Rows with an index of them: what the index knows is there.
Indexed ==
    {m \in [rows : [Message -> Seq(Row)], ix : [Message -> Known]] :
        \A k \in Message : m.ix[k] # None => m.ix[k].pos \in DOMAIN m.rows[k]}

\* The messages of K have at most one row, and the index knows of it.
Tidy(m, K) ==
    \A k \in K : Len(m.rows[k]) <= 1 /\ (m.ix[k] = None <=> m.rows[k] = <<>>)

\* A cached index points at rows, and is right about the messages that came one way.
RowsOK(d) ==
    /\ \A k \in Message \ crossed[d] : Len(rows[d][k]) <= 1
    /\ index[d] # None =>
          LET m == [rows |-> rows[d], ix |-> index[d]] IN
          m \in Indexed /\ Tidy(m, Message \ crossed[d])

TypeInv == TypeOK /\ \A d \in Device : RowsOK(d)

\* What is sent, or still to be sent, goes where a human said.
ConsentInv ==
    /\ ConsentRequired
    /\ \A d \in Device : job[d] # None =>
          /\ <<d, job[d].to>> \in consent
          /\ \A rec \in Range(job[d].todo) :
                rec.from = d /\ rec.kind \in {"offer", "item", "complete"}

\* A transfer id grants once: nothing else uses one that is about to grant.
Unused(d, t) == t \notin revoked[d] /\ \A e \in Device : approvals[d][e] # t

\* Transfer ids are drawn in order.
Drawn ==
    \A d \in Device :
        /\ \A t \in revoked[d] : t <= transfers
        /\ \A e \in Device : approvals[d][e] # None => approvals[d][e] <= transfers

OneGrant ==
    \A d, e, f \in Device :
        approvals[d][e] = approvals[d][f] /\ approvals[d][e] # None => e = f

\* An APPROVAL under way that was not taken over yet will grant something new.
FreshRecords ==
    \A d \in Device : \A rec \in InFlight(d) : rec.kind = "approval" =>
        /\ rec.transfer \in 1 .. transfers
        /\ rec.transfer \notin seen[d] => Unused(d, rec.transfer)

\* So will an approve_device under way, here and, before its record is out, there.
FreshJob(d, t) ==
    /\ t <= transfers /\ job[d].to # d
    /\ \A e \in Device \ {d} : job[e] # None => job[e].transfer # t
    /\ \A rec \in InFlight(d) : rec.kind = "approval" => rec.transfer # t
    /\ job[d].step \in {"approval", "mark"} => Unused(d, t)
    /\ job[d].step = "approval" => \A e \in Device :
          /\ Unused(e, t)
          /\ \A rec \in InFlight(e) : rec.kind = "approval" => rec.transfer # t

FreshJobs ==
    \A d \in Device, t \in Transfer :
        job[d] # None /\ job[d].transfer = t => FreshJob(d, t)

GrantInv == RevokedStaysRevoked /\ Drawn /\ OneGrant /\ FreshRecords /\ FreshJobs

\* An item a device has, a digest with all items of a transfer.
Has(d, item) == IF item.of \in Thing THEN item.of \in held[d] ELSE rows[d][item.of] # <<>>
Covers(chain, t) ==
    \A item \in offered[t] : \E i \in DOMAIN chain.items : chain.items[i].item = item

\* A record that ends a transfer has the digest of all its items.
Ends(rec) ==
    rec.kind = "complete" =>
        /\ rec.transfer \in 1 .. transfers
        /\ rec.chain.seed = rec.transfer /\ Covers(rec.chain, rec.transfer)

TransferInv ==
    /\ \A d \in Device :
          /\ \A rec \in InFlight(d) : Ends(rec)
          /\ job[d] # None => \A rec \in Range(job[d].todo) : Ends(rec)
    /\ \A d, e \in Device :
          LET in == incoming[d][e] IN
          /\ \A i \in DOMAIN in.chain.items : Has(d, in.chain.items[i].item)
          /\ in.done /\ in.complete =>
                in.chain.seed \in 1 .. transfers /\ Covers(in.chain, in.chain.seed)

-----------------------------------------------------------------------------
(* Sequences.                                                              *)

\* Every non-empty set of numbers has a least one.
LEMMA LeastNat ==
    ASSUME NEW S \in SUBSET Nat, S # {}
    PROVE  \E n \in S : \A m \in S : n <= m
<1> DEFINE R == OpToRel(<, Nat)
<1>1. IsWellFoundedOn(R, Nat)
  BY NatLessThanWellFounded
<1>2. \A n, m \in Nat : m < n => <<m, n>> \in R
  BY DEF OpToRel
<1> HIDE DEF R
<1>3. PICK n \in S : \A m \in S : ~(<<m, n>> \in R)
  BY <1>1, WFMin
<1>4. \A m \in S : ~(m < n)
  BY <1>2, <1>3
<1> QED
  BY <1>4

\* Induction, for a set of numbers.
LEMMA AllNat ==
    ASSUME NEW S, 0 \in S, \A n \in Nat : n \in S => n + 1 \in S
    PROVE  Nat \subseteq S
<1> DEFINE Bad == Nat \ S
<1> SUFFICES ASSUME Bad # {}
             PROVE  FALSE
  OBVIOUS
<1>1. PICK k \in Bad : \A j \in Bad : k <= j
  BY LeastNat
<1>2. k - 1 \in Nat /\ k - 1 \notin Bad
  BY <1>1
<1> QED
  BY <1>1, <1>2

\* Sequences of elements of S one after the other are a sequence of elements of S.
LEMMA Flattened ==
    ASSUME NEW S, NEW seqs \in Seq(Seq(S))
    PROVE  FlattenSeq(seqs) \in Seq(S)
<1> DEFINE n == Len(seqs)
           Is(f, m) == f = [i \in 1 .. m |-> IF i = 1 THEN seqs[i] ELSE f[i - 1] \o seqs[i]]
           flat == CHOOSE f : Is(f, n)
<1>1. n \in Nat /\ \A i \in 1 .. n : seqs[i] \in Seq(S)
  OBVIOUS
<1>2. CASE n = 0
  BY <1>1, <1>2 DEF FlattenSeq
<1>3. CASE n # 0
  <2>1. FlattenSeq(seqs) = flat[n]
    BY <1>3 DEF FlattenSeq
  <2>2. \A m \in Nat : \E f : Is(f, m)
    <3> DEFINE Good == {m \in Nat : \E f : Is(f, m)}
    <3>1. 0 \in Good
      <4>1. Is(<<>>, 0)
        OBVIOUS
      <4> QED
        BY <4>1
    <3>2. ASSUME NEW m \in Nat, NEW f, Is(f, m)
          PROVE  \E g : Is(g, m + 1)
      <4> DEFINE g == [i \in 1 .. m + 1 |-> IF i = 1 THEN seqs[i] ELSE f[i - 1] \o seqs[i]]
      <4>1. \A i \in 1 .. m : g[i] = f[i]
        <5> SUFFICES ASSUME NEW i \in 1 .. m
                     PROVE  g[i] = f[i]
          OBVIOUS
        <5>1. f[i] = IF i = 1 THEN seqs[i] ELSE f[i - 1] \o seqs[i]
          BY <3>2
        <5> QED
          BY <5>1
      <4> HIDE DEF g
      <4>2. \A i \in 1 .. m + 1 : i # 1 => g[i - 1] = f[i - 1]
        BY <4>1
      <4>3. g = [i \in 1 .. m + 1 |-> IF i = 1 THEN seqs[i] ELSE g[i - 1] \o seqs[i]]
        BY <4>2 DEF g
      <4> QED
        BY <4>3
    <3> HIDE DEF Is
    <3>3. \A m \in Nat : m \in Good => m + 1 \in Good
      BY <3>2
    <3> HIDE DEF Good
    <3>4. Nat \subseteq Good
      BY <3>1, <3>3, AllNat
    <3> QED
      BY <3>4 DEF Good
  <2>3. Is(flat, n)
    BY <1>1, <2>2
  <2> HIDE DEF flat
  <2>4. \A i \in 1 .. n : flat[i] = IF i = 1 THEN seqs[i] ELSE flat[i - 1] \o seqs[i]
    BY <2>3
  <2> DEFINE Good == {m \in Nat : m \in 1 .. n => flat[m] \in Seq(S)}
  <2>5. 0 \in Good
    OBVIOUS
  <2>6. ASSUME NEW m \in Nat, m \in Good
        PROVE  m + 1 \in Good
    <3> SUFFICES ASSUME m + 1 \in 1 .. n
                 PROVE  flat[m + 1] \in Seq(S)
      OBVIOUS
    <3>1. flat[m + 1] = IF m + 1 = 1 THEN seqs[m + 1] ELSE flat[m] \o seqs[m + 1]
      BY <1>1, <2>4
    <3>2. m # 0 => flat[m] \in Seq(S)
      BY <1>1, <2>6
    <3> QED
      BY <1>1, <3>1, <3>2, ConcatProperties
  <2> HIDE DEF Good
  <2>7. Nat \subseteq Good
    BY <2>5, <2>6, AllNat
  <2>8. n \in Good /\ n \in 1 .. n
    BY <1>1, <1>3, <2>7
  <2> QED
    BY <2>1, <2>8 DEF Good
<1> QED
  BY <1>2, <1>3

\* A finite set as a sequence.
LEMMA Listed ==
    ASSUME NEW S, IsFiniteSet(S)
    PROVE  SetToSeq(S) \in Seq(S)
<1>1. Cardinality(S) \in Nat /\ ExistsBijection(1 .. Cardinality(S), S)
  BY FS_CardinalityType
<1>2. \E f \in [1 .. Cardinality(S) -> S] : IsInjective(f)
  BY <1>1 DEF ExistsBijection, Bijection, Injection
<1>3. SetToSeq(S) \in [1 .. Cardinality(S) -> S]
  BY <1>2 DEF SetToSeq
<1> QED
  BY <1>1, <1>3, SeqDef

\* What a sequence holds, when one element is added, taken from the front, or several
\* are dropped there.
LEMMA AppendRange ==
    ASSUME NEW S, NEW q \in Seq(S), NEW x \in S
    PROVE  Append(q, x) \in Seq(S) /\ Range(Append(q, x)) = Range(q) \cup {x}
<1> DEFINE a == Append(q, x)
<1>1. /\ a \in Seq(S) /\ Len(a) = Len(q) + 1 /\ Len(q) \in Nat
      /\ \A i \in 1 .. Len(q) : a[i] = q[i]
      /\ a[Len(q) + 1] = x
      /\ DOMAIN a = 1 .. Len(a) /\ DOMAIN q = 1 .. Len(q)
  BY AppendProperties
<1> HIDE DEF a
<1>2. ASSUME NEW i \in DOMAIN a
      PROVE  a[i] \in Range(q) \cup {x}
  <2>1. i \in 1 .. Len(q) \/ i = Len(q) + 1
    BY <1>1
  <2> QED
    BY <1>1, <2>1 DEF Range
<1>3. ASSUME NEW i \in DOMAIN q
      PROVE  q[i] \in Range(a)
  <2>1. i \in DOMAIN a /\ a[i] = q[i]
    BY <1>1
  <2> QED
    BY <2>1 DEF Range
<1>4. x \in Range(a)
  <2>1. Len(q) + 1 \in DOMAIN a
    BY <1>1
  <2> QED
    BY <1>1, <2>1 DEF Range
<1>5. Range(a) \subseteq Range(q) \cup {x}
  BY <1>2 DEF Range
<1>6. Range(q) \subseteq Range(a)
  BY <1>3 DEF Range
<1> QED
  BY <1>1, <1>4, <1>5, <1>6 DEF a

LEMMA TailRange ==
    ASSUME NEW S, NEW q \in Seq(S), q # <<>>
    PROVE  /\ Head(q) \in S /\ Head(q) \in Range(q)
           /\ Tail(q) \in Seq(S) /\ Range(Tail(q)) \subseteq Range(q)
<1>1. /\ Head(q) \in S /\ Tail(q) \in Seq(S) /\ Len(q) \in Nat \ {0} /\ Head(q) = q[1]
      /\ Len(Tail(q)) = Len(q) - 1 /\ \A i \in 1 .. Len(q) - 1 : Tail(q)[i] = q[i + 1]
      /\ DOMAIN q = 1 .. Len(q) /\ DOMAIN Tail(q) = 1 .. Len(Tail(q))
  BY HeadTailProperties, EmptySeq, LenProperties
<1>2. Head(q) \in Range(q)
  <2>1. 1 \in DOMAIN q
    BY <1>1
  <2> QED
    BY <1>1, <2>1 DEF Range
<1> DEFINE t == Tail(q)
<1> HIDE DEF t
<1>3. ASSUME NEW i \in DOMAIN t
      PROVE  t[i] \in Range(q)
  <2>1. i + 1 \in DOMAIN q /\ t[i] = q[i + 1]
    BY <1>1, <1>3 DEF t
  <2> QED
    BY <2>1 DEF Range
<1>4. Range(t) \subseteq Range(q)
  BY <1>3 DEF Range
<1> QED
  BY <1>1, <1>2, <1>4 DEF t

LEMMA SubSeqRange ==
    ASSUME NEW S, NEW q \in Seq(S), NEW n \in Nat
    PROVE  /\ SubSeq(q, n + 1, Len(q)) \in Seq(S)
           /\ Range(SubSeq(q, n + 1, Len(q))) \subseteq Range(q)
<1>1. Len(q) \in Nat /\ DOMAIN q = 1 .. Len(q) /\ \A i \in 1 .. Len(q) : q[i] \in S
  BY LenProperties
<1> DEFINE R == Range(q)
           t == SubSeq(q, n + 1, Len(q))
<1>2. \A i \in n + 1 .. Len(q) : q[i] \in R /\ q[i] \in S
  BY <1>1 DEF Range
<1> HIDE DEF R
<1>3. t \in Seq(S)
  BY <1>1, <1>2, SubSeqProperties
<1>4. t \in Seq(R)
  BY <1>1, <1>2, SubSeqProperties
<1> HIDE DEF t
<1>5. Range(t) \subseteq R
  BY <1>4 DEF Range
<1> QED
  BY <1>3, <1>5 DEF R, t

-----------------------------------------------------------------------------
(* Merging.                                                                *)

\* No row is lost.
Keeps(m, n) == \A k \in Message : Len(m.rows[k]) <= Len(n.rows[k])

\* One item: the message has a row afterwards, a second one only if the index was wrong.
LEMMA Merged ==
    ASSUME NEW m \in Indexed, NEW item \in Item, item.of \in Message, NEW orig \in BOOLEAN,
           NEW K \in SUBSET Message
    PROVE  LET n == Merge(m, item, orig) IN
           /\ n \in Indexed /\ Keeps(m, n) /\ n.rows[item.of] # <<>>
           /\ \A k \in Message \ {item.of} : n.rows[k] = m.rows[k]
           /\ Tidy(m, K) => Tidy(n, K)
<1> DEFINE k == item.of
           known == m.ix[k]
           n == Merge(m, item, orig)
<1>1. /\ m.rows \in [Message -> Seq(Row)] /\ m.ix \in [Message -> Known] /\ k \in Message
      /\ item.st \in Rank
      /\ \A j \in Message : m.ix[j] # None => m.ix[j].pos \in DOMAIN m.rows[j]
      /\ m = [rows |-> m.rows, ix |-> m.ix]
  BY DEF Indexed, Item
<1>2. m.rows[k] \in Seq(Row) /\ Len(m.rows[k]) \in Nat
  BY <1>1
<1>3. CASE known = None
  <2> DEFINE row == [st |-> item.st, orig |-> orig]
             new == Append(m.rows[k], row)
             entry == [pos |-> Len(m.rows[k]) + 1, st |-> item.st]
             R == [m.rows EXCEPT ![k] = new]
             X == [m.ix EXCEPT ![k] = entry]
  <2>1. n = [rows |-> R, ix |-> X]
    BY <1>3 DEF Merge
  <2>2. row \in Row
    BY <1>1 DEF Row
  <2>3. new \in Seq(Row) /\ new # <<>> /\ Len(new) = Len(m.rows[k]) + 1
    BY <1>2, <2>2, AppendProperties
  <2>4. entry \in Known /\ entry # None
    BY <1>1, <1>2, DeviceSyncAssumption DEF Known, Rank
  <2>5. entry.pos \in DOMAIN new
    BY <1>2, <2>3
  <2> HIDE DEF new, entry
  <2>6. /\ R \in [Message -> Seq(Row)] /\ X \in [Message -> Known]
        /\ R[k] = new /\ X[k] = entry
        /\ \A j \in Message \ {k} : R[j] = m.rows[j] /\ X[j] = m.ix[j]
    BY <1>1, <2>3, <2>4
  <2> HIDE DEF R, X, n
  <2>7. n.rows = R /\ n.ix = X
    BY <2>1
  <2>8. n \in Indexed
    <3>1. n \in [rows : [Message -> Seq(Row)], ix : [Message -> Known]]
      BY <2>1, <2>6
    <3>2. \A j \in Message : n.ix[j] # None => n.ix[j].pos \in DOMAIN n.rows[j]
      BY <1>1, <2>5, <2>6, <2>7
    <3> QED
      BY <3>1, <3>2 DEF Indexed
  <2>9. Keeps(m, n) /\ n.rows[k] # <<>>
    <3>1. \A j \in Message : Len(m.rows[j]) \in Nat
      BY <1>1
    <3> QED
      BY <2>3, <2>6, <2>7, <3>1 DEF Keeps
  <2>10. ASSUME Tidy(m, K)
         PROVE  Tidy(n, K)
    <3>1. k \in K => Len(m.rows[k]) = 0
      BY <1>2, <1>3, <2>10 DEF Tidy
    <3>2. k \in K => Len(n.rows[k]) <= 1 /\ n.ix[k] # None /\ n.rows[k] # <<>>
      BY <2>3, <2>4, <2>6, <2>7, <3>1
    <3>3. \A j \in K \ {k} : Len(n.rows[j]) <= 1 /\ (n.ix[j] = None <=> n.rows[j] = <<>>)
      BY <2>6, <2>7, <2>10 DEF Tidy
    <3> QED
      BY <3>2, <3>3 DEF Tidy
  <2> QED
    BY <2>6, <2>7, <2>8, <2>9, <2>10 DEF n
<1>4. CASE known # None /\ item.st > known.st
  <2> DEFINE old == m.rows[k]
             new == [old EXCEPT ![known.pos].st = item.st]
             R == [m.rows EXCEPT ![k] = new]
  <2>1. n = [m EXCEPT !.rows[k][known.pos].st = item.st]
    BY <1>4 DEF Merge
  <2>2. n = [rows |-> R, ix |-> m.ix]
    BY <1>1, <2>1
  <2>3. known.pos \in 1 .. Len(old) /\ old \in [1 .. Len(old) -> Row]
    BY <1>1, <1>2, <1>4
  <2>4. new \in [1 .. Len(old) -> Row]
    BY <1>1, <2>3 DEF Row
  <2>5. new \in Seq(Row) /\ Len(new) = Len(old) /\ DOMAIN new = DOMAIN old /\ new # <<>>
    BY <1>2, <2>3, <2>4, SeqDef
  <2> HIDE DEF new
  <2>6. /\ R \in [Message -> Seq(Row)] /\ R[k] = new
        /\ \A j \in Message \ {k} : R[j] = m.rows[j]
    BY <1>1, <2>5
  <2> HIDE DEF R, n
  <2>7. n.rows = R /\ n.ix = m.ix
    BY <2>2
  <2>8. n \in Indexed
    <3>1. n \in [rows : [Message -> Seq(Row)], ix : [Message -> Known]]
      BY <1>1, <2>2, <2>6
    <3>2. \A j \in Message : n.ix[j] # None => n.ix[j].pos \in DOMAIN n.rows[j]
      BY <1>1, <2>5, <2>6, <2>7
    <3> QED
      BY <3>1, <3>2 DEF Indexed
  <2>9. Keeps(m, n) /\ n.rows[k] # <<>>
    <3>1. \A j \in Message : Len(m.rows[j]) \in Nat
      BY <1>1
    <3> QED
      BY <2>5, <2>6, <2>7, <3>1 DEF Keeps
  <2>10. ASSUME Tidy(m, K)
         PROVE  Tidy(n, K)
    <3>1. k \in K => Len(n.rows[k]) <= 1 /\ n.ix[k] # None /\ n.rows[k] # <<>>
      BY <1>4, <2>5, <2>6, <2>7, <2>10 DEF Tidy
    <3>2. \A j \in K \ {k} : Len(n.rows[j]) <= 1 /\ (n.ix[j] = None <=> n.rows[j] = <<>>)
      BY <2>6, <2>7, <2>10 DEF Tidy
    <3> QED
      BY <3>1, <3>2 DEF Tidy
  <2> QED
    BY <2>6, <2>7, <2>8, <2>9, <2>10 DEF n
<1>5. CASE known # None /\ ~(item.st > known.st)
  <2>1. n = m
    BY <1>5 DEF Merge
  <2>2. m.rows[k] # <<>>
    BY <1>1, <1>5
  <2>3. \A j \in Message : Len(m.rows[j]) \in Nat
    BY <1>1
  <2> QED
    BY <2>1, <2>2, <2>3 DEF Keeps
<1> QED
  BY <1>3, <1>4, <1>5

\* All messages of a bundle, one after the other.
LEMMA MergedAll ==
    ASSUME NEW m \in Indexed, NEW items \in Seq(Item), NEW K \in SUBSET Message
    PROVE  LET n == MergeAll(m, items) IN
           /\ n \in Indexed /\ Keeps(m, n)
           /\ \A k \in Message : (\A i \in DOMAIN items : items[i].of # k) =>
                 n.rows[k] = m.rows[k]
           /\ Tidy(m, K) => Tidy(n, K)
<1> DEFINE len == Len(items)
           one(n, i) == IF items[i].of \in Message THEN Merge(n, items[i], FALSE) ELSE n
           Is(f, j) == f = [i \in 0 .. j |->
                              IF i = 0 THEN m ELSE one(f[i - 1], i)]
           all == CHOOSE f : Is(f, len)
           other(k) == \A i \in DOMAIN items : items[i].of # k
           OK(n) == /\ n \in Indexed /\ Keeps(m, n) /\ (Tidy(m, K) => Tidy(n, K))
                    /\ \A k \in Message : other(k) => n.rows[k] = m.rows[k]
<1>1. len \in Nat /\ \A i \in 1 .. len : items[i] \in Item
  OBVIOUS
<1>2. MergeAll(m, items) = all[len]
  BY DEF MergeAll
<1> HIDE DEF one
<1>3. \A j \in Nat : \E f : Is(f, j)
  <2> DEFINE Good == {j \in Nat : \E f : Is(f, j)}
  <2>1. 0 \in Good
    <3> DEFINE f == [i \in 0 .. 0 |-> m]
    <3>1. Is(f, 0)
      OBVIOUS
    <3> HIDE DEF f
    <3> QED
      BY <3>1
  <2>2. ASSUME NEW j \in Nat, NEW f, Is(f, j)
        PROVE  \E g : Is(g, j + 1)
    <3> DEFINE g == [i \in 0 .. j + 1 |->
                       IF i = 0 THEN m ELSE one(f[i - 1], i)]
    <3>1. \A i \in 0 .. j : g[i] = f[i]
      <4> SUFFICES ASSUME NEW i \in 0 .. j
                   PROVE  g[i] = f[i]
        OBVIOUS
      <4>1. f[i] = IF i = 0 THEN m ELSE one(f[i - 1], i)
        BY <2>2
      <4> QED
        BY <4>1
    <3> HIDE DEF g
    <3>2. \A i \in 0 .. j + 1 : i # 0 => g[i - 1] = f[i - 1]
      BY <3>1
    <3>3. g = [i \in 0 .. j + 1 |->
                 IF i = 0 THEN m ELSE one(g[i - 1], i)]
      BY <3>2 DEF g
    <3> QED
      BY <3>3
  <2> HIDE DEF Is
  <2>3. \A j \in Nat : j \in Good => j + 1 \in Good
    BY <2>2
  <2> HIDE DEF Good
  <2>4. Nat \subseteq Good
    BY <2>1, <2>3, AllNat
  <2> QED
    BY <2>4 DEF Good
<1>4. Is(all, len)
  BY <1>1, <1>3
<1> HIDE DEF all
<1>5. \A i \in 0 .. len : all[i] = IF i = 0 THEN m ELSE one(all[i - 1], i)
  BY <1>4
<1> DEFINE Good == {j \in Nat : j \in 0 .. len => OK(all[j])}
<1>6. 0 \in Good
  <2>1. all[0] = m
    BY <1>1, <1>5
  <2>2. \A k \in Message : Len(m.rows[k]) \in Nat
    BY DEF Indexed
  <2> QED
    BY <2>1, <2>2 DEF Keeps
<1>7. ASSUME NEW j \in Nat, j \in Good
      PROVE  j + 1 \in Good
  <2> SUFFICES ASSUME j + 1 \in 0 .. len
               PROVE  OK(all[j + 1])
    OBVIOUS
  <2>1. all[j + 1] = one(all[j], j + 1)
    BY <1>1, <1>5
  <2>2. OK(all[j])
    BY <1>1, <1>7
  <2>3. items[j + 1] \in Item
    BY <1>1
  <2> DEFINE n == one(all[j], j + 1)
  <2>4. /\ n \in Indexed /\ Keeps(all[j], n)
        /\ \A k \in Message \ {items[j + 1].of} : n.rows[k] = all[j].rows[k]
        /\ Tidy(all[j], K) => Tidy(n, K)
    <3>1. CASE items[j + 1].of \in Message
      BY <2>2, <2>3, <3>1, Merged DEF one
    <3>2. CASE items[j + 1].of \notin Message
      <4>1. n = all[j]
        BY <3>2 DEF one
      <4>2. \A k \in Message : Len(all[j].rows[k]) \in Nat
        BY <2>2 DEF Indexed
      <4>3. Keeps(all[j], all[j])
        BY <4>2 DEF Keeps
      <4> QED
        BY <2>2, <4>1, <4>3
    <3> QED
      BY <3>1, <3>2
  <2> HIDE DEF n
  <2>5. \A k \in Message : other(k) => n.rows[k] = m.rows[k]
    BY <1>1, <2>2, <2>4
  <2>6. \A k \in Message : /\ Len(m.rows[k]) \in Nat /\ Len(n.rows[k]) \in Nat
                           /\ Len(all[j].rows[k]) \in Nat
    BY <2>2, <2>4 DEF Indexed
  <2>7. Keeps(m, n)
    <3>1. ASSUME NEW k \in Message
          PROVE  Len(m.rows[k]) <= Len(n.rows[k])
      <4>1. Len(m.rows[k]) <= Len(all[j].rows[k]) /\ Len(all[j].rows[k]) <= Len(n.rows[k])
        BY <2>2, <2>4 DEF Keeps
      <4>2. /\ Len(m.rows[k]) \in Nat /\ Len(n.rows[k]) \in Nat
            /\ Len(all[j].rows[k]) \in Nat
        BY <2>6
      <4>3. \A x, y, z \in Nat : x <= y /\ y <= z => x <= z
        OBVIOUS
      <4> QED
        BY <4>1, <4>2, <4>3, Zenon
    <3> QED
      BY <3>1 DEF Keeps
  <2>8. OK(n)
    BY <2>2, <2>4, <2>5, <2>7
  <2> QED
    BY <2>1, <2>8 DEF n
<1> HIDE DEF Good
<1>8. Nat \subseteq Good
  BY <1>6, <1>7, AllNat
<1>9. len \in Good /\ len \in 0 .. len
  BY <1>1, <1>8
<1> QED
  BY <1>2, <1>9 DEF Good

\* An index that is read now: it knows every message that has a row, and no other.
LEMMA IndexRead ==
    ASSUME NEW d \in Device, rows \in [Device -> [Message -> Seq(Row)]],
           NEW ix \in MessageIndexes(d)
    PROVE  /\ [rows |-> rows[d], ix |-> ix] \in Indexed
           /\ \A k \in Message : ix[k] = None <=> rows[d][k] = <<>>
<1> DEFINE most == Max({0} \cup {Len(rows[d][k]) : k \in Message})
           last == {p \in [Message -> 0 .. most] : \A k \in Message :
                      IF rows[d][k] = <<>> THEN p[k] = 0 ELSE p[k] \in DOMAIN rows[d][k]}
<1>1. PICK p \in last : ix = [k \in Message |-> IF p[k] = 0 THEN None
                                ELSE [pos |-> p[k], st |-> rows[d][k][p[k]].st]]
  BY DEF MessageIndexes
<1>2. \A k \in Message : IF rows[d][k] = <<>> THEN p[k] = 0 ELSE p[k] \in DOMAIN rows[d][k]
  BY <1>1
<1>3. \A k \in Message : ix[k] = IF p[k] = 0 THEN None
                                 ELSE [pos |-> p[k], st |-> rows[d][k][p[k]].st]
  BY <1>1
<1>4. DOMAIN ix = Message /\ ix = [k \in Message |-> ix[k]]
  BY <1>1
<1> HIDE DEF last
<1>5. ASSUME NEW k \in Message
      PROVE  /\ ix[k] \in Known
             /\ ix[k] # None => ix[k].pos \in DOMAIN rows[d][k]
             /\ ix[k] = None <=> rows[d][k] = <<>>
  <2>1. rows[d][k] \in Seq(Row)
    OBVIOUS
  <2>2. CASE rows[d][k] = <<>>
    BY <1>2, <1>3, <2>2 DEF Known
  <2>3. CASE rows[d][k] # <<>>
    <3>1. p[k] \in 1 .. Len(rows[d][k]) /\ rows[d][k][p[k]] \in Row /\ p[k] \in Nat
      BY <1>2, <2>1, <2>3
    <3>2. /\ p[k] # 0 /\ rows[d][k][p[k]].st \in Rank /\ rows[d][k][p[k]].st \in Nat
      BY <2>1, <3>1 DEF Row, Rank
    <3>3. ix[k] = [pos |-> p[k], st |-> rows[d][k][p[k]].st]
      BY <1>3, <3>2
    <3>4. ix[k] \in [pos : Nat, st : Rank] /\ ix[k] # None
      BY <3>1, <3>2, <3>3, DeviceSyncAssumption
    <3> QED
      BY <2>1, <2>3, <3>1, <3>3, <3>4 DEF Known
  <2> QED
    BY <2>2, <2>3
<1>6. ix \in [Message -> Known]
  BY <1>4, <1>5
<1>7. rows[d] \in [Message -> Seq(Row)]
  OBVIOUS
<1> QED
  BY <1>5, <1>6, <1>7 DEF Indexed

\* What is offered or exported: a sequence of items.
LEMMA ItemsTyped ==
    ASSUME NEW d \in Device, NEW skipped \in SUBSET Chunk,
           rows \in [Device -> [Message -> Seq(Row)]], held \in [Device -> SUBSET Thing]
    PROVE  Items(d, skipped) \in Seq(Item)
<1> DEFINE kept(S) == SetToSeq(held[d] \cap S)
           things(S) == [i \in DOMAIN kept(S) |-> [of |-> kept(S)[i], st |-> 0]]
           row(k) == [i \in DOMAIN rows[d][k] |-> [of |-> k, st |-> rows[d][k][i].st]]
           messages == SetToSeq(Message)
           all == [i \in DOMAIN messages |-> row(messages[i])]
<1>1. ASSUME NEW S
      PROVE  things(S) \in Seq(Item)
  <2>1. IsFiniteSet(Thing)
    BY DeviceSyncAssumption, FS_Singleton, FS_Union DEF Thing
  <2>2. IsFiniteSet(held[d] \cap S) /\ held[d] \cap S \subseteq Thing
    <3>1. held[d] \cap S \in SUBSET Thing
      OBVIOUS
    <3> QED
      BY <2>1, <3>1, FS_Subset
  <2>3. kept(S) \in Seq(held[d] \cap S)
    BY <2>2, Listed
  <2> HIDE DEF kept
  <2>4. kept(S) \in Seq(Thing)
    BY <2>2, <2>3, SeqMonotonic
  <2>5. Len(kept(S)) \in Nat /\ DOMAIN kept(S) = 1 .. Len(kept(S))
        /\ \A i \in 1 .. Len(kept(S)) : kept(S)[i] \in Thing
    BY <2>4
  <2>6. things(S) \in [1 .. Len(kept(S)) -> Item]
    BY <2>5 DEF Item, Rank
  <2> QED
    BY <2>5, <2>6, SeqDef
<1>2. ASSUME NEW k \in Message
      PROVE  row(k) \in Seq(Item)
  <2>1. rows[d][k] \in Seq(Row)
    OBVIOUS
  <2>2. /\ Len(rows[d][k]) \in Nat /\ DOMAIN rows[d][k] = 1 .. Len(rows[d][k])
        /\ \A i \in 1 .. Len(rows[d][k]) : rows[d][k][i].st \in Rank
    <3>1. /\ Len(rows[d][k]) \in Nat /\ DOMAIN rows[d][k] = 1 .. Len(rows[d][k])
          /\ \A i \in 1 .. Len(rows[d][k]) : rows[d][k][i] \in Row
      BY <2>1
    <3> QED
      BY <3>1 DEF Row
  <2>3. row(k) \in [1 .. Len(rows[d][k]) -> Item]
    BY <2>2 DEF Item
  <2> QED
    BY <2>2, <2>3, SeqDef
<1>3. messages \in Seq(Message)
  BY DeviceSyncAssumption, Listed DEF Message
<1> HIDE DEF things, row, messages
<1>4. all \in Seq(Seq(Item))
  <2>1. /\ Len(messages) \in Nat /\ DOMAIN messages = 1 .. Len(messages)
        /\ \A i \in 1 .. Len(messages) : messages[i] \in Message
    BY <1>3
  <2>2. all \in [1 .. Len(messages) -> Seq(Item)]
    BY <1>2, <2>1
  <2> QED
    BY <2>1, <2>2, SeqDef
<1> HIDE DEF all
<1>5. FlattenSeq(all) \in Seq(Item)
  BY <1>4, Flattened
<1>6. things({Contact}) \o FlattenSeq(all) \in Seq(Item)
  BY <1>1, <1>5, ConcatProperties
<1>7. (things({Contact}) \o FlattenSeq(all)) \o things(Chunk \ skipped) \in Seq(Item)
  BY <1>1, <1>6, ConcatProperties
<1> QED
  BY <1>7 DEF Items, things, row, messages, all

-----------------------------------------------------------------------------
(* Types.                                                                  *)
Kind == {"request", "approval", "offer", "item", "complete", "mirror", "state"}

IncomingRec ==
    [transfer : Transfer \cup {None}, received : Nat, chain : Digest,
     expected : Nat, done : BOOLEAN, complete : BOOLEAN]

\* The fields of a record.
LEMMA RecordFields ==
    ASSUME NEW rec \in Record
    PROVE  /\ rec.kind \in Kind /\ rec.from \in Device
           /\ rec.transfer \in Transfer \cup {None} /\ rec.item \in Item \cup {None}
           /\ rec.count \in Nat /\ rec.chain \in Digest
           /\ rec.kind = "approval" => rec.transfer \in Transfer
           /\ rec.kind = "item" => rec.item \in Item
           /\ rec.kind \in {"mirror", "state"} =>
                 rec.item \in Item /\ rec.item.of \in Message /\ rec.item.st \in Rank
BY DEF Record, Kind, Item

\* The records the handlers send.
LEMMA RecTyped ==
    ASSUME NEW kind \in Kind, NEW d \in Device, NEW t \in Transfer \cup {None},
           NEW item \in Item \cup {None},
           kind = "approval" => t \in Transfer,
           kind = "item" => item \in Item,
           kind \in {"mirror", "state"} => item \in [of : Message, st : Rank]
    PROVE  LET rec == Rec(kind, d, t, item) IN
           /\ rec \in Record
           /\ rec.kind = kind /\ rec.from = d /\ rec.transfer = t /\ rec.item = item
<1>1. NoDigest \in Digest
  BY DEF NoDigest, Digest
<1>2. {"approval", "item", "mirror", "state"} \subseteq Kind
  BY DEF Kind
<1> QED
  BY <1>1, <1>2 DEF Rec, Record, Kind

\* _write_record: every mailbox has what it had, and some of the targets' the record.
LEMMA PutEffect ==
    ASSUME boxes \in [Relay -> [Device -> Seq(Record)]],
           NEW S, NEW targets, NEW rec \in Record, Put(S, targets, rec)
    PROVE  /\ boxes' \in [Relay -> [Device -> Seq(Record)]]
           /\ \A r \in Relay, e \in Device :
                 \/ boxes'[r][e] = boxes[r][e]
                 \/ /\ e \in targets /\ r \in S
                    /\ Range(boxes'[r][e]) = Range(boxes[r][e]) \cup {rec}
<1>1. boxes' = [r \in Relay |-> [e \in Device |->
                  IF r \in S /\ e \in targets THEN Append(boxes[r][e], rec)
                  ELSE boxes[r][e]]]
  BY DEF Put
<1>2. ASSUME NEW r \in Relay, NEW e \in Device
      PROVE  /\ boxes[r][e] \in Seq(Record)
             /\ Append(boxes[r][e], rec) \in Seq(Record)
             /\ Range(Append(boxes[r][e], rec)) = Range(boxes[r][e]) \cup {rec}
  <2>1. boxes[r][e] \in Seq(Record)
    OBVIOUS
  <2> QED
    BY <2>1, AppendRange
<1>3. ASSUME NEW r \in Relay, NEW e \in Device
      PROVE  boxes'[r][e] = IF r \in S /\ e \in targets THEN Append(boxes[r][e], rec)
                            ELSE boxes[r][e]
  BY <1>1
<1>4. boxes' \in [Relay -> [Device -> Seq(Record)]]
  BY <1>1, <1>2
<1> QED
  BY <1>2, <1>3, <1>4

-----------------------------------------------------------------------------
(* The steps, by what they do to approvals and records.                    *)

\* Nothing is granted or withdrawn, though an approval may count as taken over; what
\* is sent are requests, and mirrors to approved siblings.
Quiet(d) ==
    /\ UNCHANGED <<approvals, consent, offered, revoked, transfers>>
    /\ \A x \in Device : seen[x] \subseteq seen'[x]
    /\ \A x \in Device : job'[x] \in {job[x], None}
    /\ \A x \in Device : \A rec \in InFlight(x)' :
          \/ rec \in InFlight(x) \/ rec.kind = "request"
          \/ rec.kind \in {"mirror", "state"} /\ rec.from = d /\ x \in Approved(d)

\* A human approves e: a new transfer, of which nothing is sent yet.
Begins(d, e) ==
    /\ e # d /\ transfers' = transfers + 1 /\ transfers' \in Transfer
    /\ consent' = consent \cup {<<d, e>>}
    /\ \A t \in Transfer \ {transfers'} : offered'[t] = offered[t]
    /\ UNCHANGED <<approvals, seen, revoked, batch, boxes>>
    /\ \A x \in Device \ {d} : job'[x] = job[x]
    /\ job'[d].to = e /\ job'[d].transfer = transfers' /\ job'[d].step = "approval"
    /\ \A rec \in Range(job'[d].todo) :
          /\ rec.from = d /\ rec.kind \in {"offer", "item", "complete"}
          /\ rec.kind = "complete" =>
                /\ rec.transfer = transfers' /\ rec.chain.seed = transfers'
                /\ \A item \in offered'[transfers'] :
                      \E i \in DOMAIN rec.chain.items : rec.chain.items[i].item = item

\* The next step of an approval under way: its APPROVAL record is out, the sibling is
\* marked, or the next record of the stream is out.
Advances(d, step) ==
    /\ UNCHANGED <<consent, offered, revoked, seen, transfers>>
    /\ \A x \in Device \ {d} : job'[x] = job[x]
    /\ job[d] # None
    /\ job'[d].to = job[d].to /\ job'[d].transfer = job[d].transfer
    /\ job'[d].step = step /\ Range(job'[d].todo) \subseteq Range(job[d].todo)

Approves(d) ==
    /\ Advances(d, "mark") /\ approvals' = approvals /\ job[d].step = "approval"
    /\ \A x \in Device : \A rec \in InFlight(x)' :
          \/ rec \in InFlight(x)
          \/ /\ x = job[d].to
             /\ rec.kind = "approval" /\ rec.from = d /\ rec.transfer = job[d].transfer

Marks(d) ==
    /\ Advances(d, "stream") /\ job[d].step = "mark"
    /\ UNCHANGED <<batch, boxes>>
    /\ \A x, y \in Device :
          approvals'[x][y] = IF x = d /\ y = job[d].to THEN job[d].transfer ELSE approvals[x][y]

Streams(d) ==
    /\ Advances(d, "stream") /\ approvals' = approvals /\ job[d].step = "stream"
    /\ \A x \in Device : \A rec \in InFlight(x)' :
          rec \in InFlight(x) \/ (x = job[d].to /\ rec \in Range(job[d].todo))

\* A human withdraws an approval.
Revokes(d, e) ==
    /\ job[d] = None /\ approvals[d][e] # None
    /\ UNCHANGED <<consent, offered, seen, transfers, job, batch, boxes>>
    /\ \A x \in Device :
          revoked'[x] = IF x = d THEN revoked[x] \cup {approvals[d][e]} ELSE revoked[x]
    /\ \A x, y \in Device :
          approvals'[x][y] = IF x = d /\ y = e THEN None ELSE approvals[x][y]

\* The first time an APPROVAL comes.
Accepts(d) ==
    /\ UNCHANGED <<consent, offered, revoked, transfers, job>>
    /\ \A x \in Device : InFlight(x)' \subseteq InFlight(x)
    /\ \E rec \in InFlight(d) :
          /\ rec.kind = "approval" /\ rec.transfer \notin seen[d]
          /\ \A x \in Device :
                seen'[x] = IF x = d THEN seen[x] \cup {rec.transfer} ELSE seen[x]
          /\ \A x, y \in Device :
                approvals'[x][y] = IF x = d /\ y = rec.from THEN rec.transfer
                                   ELSE approvals[x][y]

Flow(d) ==
    \/ Quiet(d) \/ Approves(d) \/ Marks(d) \/ Streams(d) \/ Accepts(d)
    \/ \E e \in Device : Begins(d, e) \/ Revokes(d, e)

\* No row, contact or chunk is lost.
Grown ==
    \A x \in Device : /\ held[x] \subseteq held'[x]
                      /\ \A k \in Message : Len(rows[x][k]) <= Len(rows'[x][k])

\* A record of a transfer is handled.
Progress(d) ==
    \E rec \in InFlight(d) :
        /\ \A x, y \in Device :
              x # d \/ y # rec.from => incoming'[x][y] = incoming[x][y]
        /\ LET in == incoming[d][rec.from]
               new == incoming'[d][rec.from] IN
           \/ ~new.done /\ new.chain = NoDigest
           \/ rec.kind = "item" /\ ~new.done /\ new.chain = Extend(in.chain, rec) /\ Has(d, rec.item)'
           \/ rec.kind = "complete" /\ new.chain = in.chain /\ (new.complete => in.chain = rec.chain)

\* What every step of a device does.
Step(d) ==
    /\ TypeOK' /\ \A x \in Device : RowsOK(x)'
    /\ Flow(d) /\ Grown
    /\ incoming' = incoming \/ Progress(d)

-----------------------------------------------------------------------------
(* Steps that change no row.                                               *)

\* A step that changes no row and at most drops an index.
LEMMA RowsKept ==
    ASSUME TypeInv, UNCHANGED <<rows, held, crossed>>,
           \A x \in Device : index'[x] \in {index[x], None}
    PROVE  Grown /\ \A x \in Device : RowsOK(x)'
<1>1. \A x \in Device : RowsOK(x)
  BY DEF TypeInv
<1>2. \A x \in Device, k \in Message : Len(rows[x][k]) \in Nat
  BY DEF TypeInv, TypeOK
<1>3. Grown
  BY <1>2 DEF Grown
<1>4. ASSUME NEW x \in Device
      PROVE  RowsOK(x)'
  BY <1>1 DEF RowsOK
<1> QED
  BY <1>3, <1>4

\* What is in flight when a put is made.
LEMMA PutFlight ==
    ASSUME boxes \in [Relay -> [Device -> Seq(Record)]], batch' = batch,
           NEW S, NEW targets, NEW rec \in Record, Put(S, targets, rec)
    PROVE  \A x \in Device : \A r \in InFlight(x)' :
              r \in InFlight(x) \/ (x \in targets /\ r = rec)
<1> SUFFICES ASSUME NEW x \in Device, NEW r \in InFlight(x)', r \notin InFlight(x)
             PROVE  x \in targets /\ r = rec
  OBVIOUS
<1>1. r \notin Range(batch[x])
  BY DEF InFlight
<1>2. PICK q \in Relay : r \in Range(boxes'[q][x])
  BY <1>1 DEF InFlight
<1>3. r \notin Range(boxes[q][x])
  BY DEF InFlight
<1>4. \/ boxes'[q][x] = boxes[q][x]
      \/ x \in targets /\ Range(boxes'[q][x]) = Range(boxes[q][x]) \cup {rec}
  BY PutEffect
<1> QED
  BY <1>2, <1>3, <1>4

\* Nothing new is in flight when nothing is put or when a batch gets shorter.
LEMMA FlightShrinks ==
    ASSUME \A r \in Relay, x \in Device : Range(boxes'[r][x]) \subseteq Range(boxes[r][x]),
           \A x \in Device : Range(batch'[x]) \subseteq InFlight(x)
    PROVE  \A x \in Device : InFlight(x)' \subseteq InFlight(x)
BY DEF InFlight

\* request_history.
LEMMA RequestStep ==
    ASSUME TypeInv, NEW d \in Device, RequestHistory(d)
    PROVE  Step(d)
<1> DEFINE rec == Rec("request", d, None, None)
<1>1. PICK S \in SUBSET Relay : Answer(S) /\ Put(S, Siblings(d), rec)
  BY DEF RequestHistory
<1>2. rec \in Record /\ rec.kind = "request"
  BY RecTyped DEF Kind
<1> HIDE DEF rec
<1>3. boxes \in [Relay -> [Device -> Seq(Record)]]
  BY DEF TypeInv, TypeOK
<1>4. boxes' \in [Relay -> [Device -> Seq(Record)]]
  BY <1>1, <1>2, <1>3, PutEffect
<1>5. TypeOK'
  BY <1>4 DEF RequestHistory, TypeInv, TypeOK, stored
<1>6. Grown /\ \A x \in Device : RowsOK(x)'
  <2>1. \A x \in Device : index'[x] \in {index[x], None}
    BY DEF RequestHistory
  <2> QED
    BY <2>1, RowsKept DEF RequestHistory, stored
<1>7. Quiet(d)
  <2>1. \A x \in Device : \A r \in InFlight(x)' :
           r \in InFlight(x) \/ (x \in Siblings(d) /\ r = rec)
    BY <1>1, <1>2, <1>3, PutFlight DEF RequestHistory
  <2>2. /\ UNCHANGED <<approvals, seen, consent, offered, revoked, transfers>>
        /\ job' = job
    BY DEF RequestHistory, stored
  <2> QED
    BY <1>2, <2>1, <2>2 DEF Quiet
<1> QED
  BY <1>5, <1>6, <1>7 DEF Step, Flow, RequestHistory, stored

\* The APPROVAL record: out, or nothing comes of the approval.
LEMMA SendApprovalStep ==
    ASSUME TypeInv, NEW d \in Device, SendApproval(d)
    PROVE  Step(d)
<1> DEFINE rec == Rec("approval", d, job[d].transfer, None)
<1>1. PICK S \in SUBSET Relay :
        /\ Put(S, {job[d].to}, rec)
        /\ job' = [job EXCEPT ![d] = IF S = {} THEN None ELSE [job[d] EXCEPT !.step = "mark"]]
  BY DEF SendApproval
<1>2. job[d] \in Job /\ job \in [Device -> Job \cup {None}] /\ job[d].step = "approval" /\ job[d] # None
  BY DEF SendApproval, TypeInv, TypeOK
<1>3. /\ job[d].transfer \in Transfer /\ job[d].to \in Device
  BY <1>2 DEF Job
<1>4. rec \in Record /\ rec.kind = "approval" /\ rec.from = d /\ rec.transfer = job[d].transfer
  BY <1>3, RecTyped DEF Kind
<1> HIDE DEF rec
<1>5. boxes \in [Relay -> [Device -> Seq(Record)]]
  BY DEF TypeInv, TypeOK
<1>6. boxes' \in [Relay -> [Device -> Seq(Record)]]
  BY <1>1, <1>4, <1>5, PutEffect
<1> DEFINE new == [job[d] EXCEPT !.step = "mark"]
<1>7. /\ new \in Job /\ new.to = job[d].to /\ new.transfer = job[d].transfer
      /\ new.step = "mark" /\ new.todo = job[d].todo
  BY <1>2 DEF Job
<1>8. job' = [job EXCEPT ![d] = IF S = {} THEN None ELSE new]
  BY <1>1
<1> HIDE DEF new
<1>9. job' \in [Device -> Job \cup {None}]
  BY <1>2, <1>7, <1>8
<1>10. TypeOK'
  BY <1>6, <1>9 DEF SendApproval, TypeInv, TypeOK, stored
<1>11. Grown /\ \A x \in Device : RowsOK(x)'
  <2>1. \A x \in Device : index'[x] \in {index[x], None}
    BY DEF SendApproval
  <2> QED
    BY <2>1, RowsKept DEF SendApproval, stored
<1>12. \A x \in Device : \A r \in InFlight(x)' :
          r \in InFlight(x) \/ (x \in {job[d].to} /\ r = rec /\ S # {})
  <2>1. \A x \in Device : \A r \in InFlight(x)' :
           r \in InFlight(x) \/ (x \in {job[d].to} /\ r = rec)
    BY <1>1, <1>4, <1>5, PutFlight DEF SendApproval
  <2>2. CASE S = {}
    <3>1. \A r \in Relay, x \in Device : boxes'[r][x] = boxes[r][x]
      BY <1>1, <2>2 DEF Put
    <3>2. \A r \in Relay, x \in Device : Range(boxes'[r][x]) \subseteq Range(boxes[r][x])
      BY <3>1
    <3>3. \A x \in Device : Range(batch'[x]) \subseteq InFlight(x)
      BY DEF InFlight, SendApproval
    <3> QED
      BY <3>2, <3>3, FlightShrinks
  <2> QED
    BY <2>1, <2>2
<1>13. UNCHANGED <<approvals, seen, consent, offered, revoked, transfers, incoming>>
  BY DEF SendApproval, stored
<1>14. Quiet(d) \/ Approves(d)
  <2>1. CASE S = {}
    <3>1. \A x \in Device : job'[x] \in {job[x], None}
      BY <1>2, <1>8, <2>1
    <3> QED
      BY <1>12, <1>13, <2>1, <3>1 DEF Quiet
  <2>2. CASE S # {}
    <3>1. /\ \A x \in Device \ {d} : job'[x] = job[x]
          /\ job'[d] = new
      BY <1>2, <1>8, <2>2
    <3>2. Advances(d, "mark")
      BY <1>2, <1>7, <1>13, <3>1 DEF Advances
    <3> QED
      BY <1>2, <1>4, <1>12, <1>13, <3>2 DEF Approves
  <2> QED
    BY <2>1, <2>2
<1> QED
  BY <1>10, <1>11, <1>13, <1>14 DEF Step, Flow

\* The sibling is marked approved.
LEMMA MarkApprovedStep ==
    ASSUME TypeInv, NEW d \in Device, MarkApproved(d)
    PROVE  Step(d)
<1>1. job[d] \in Job /\ job \in [Device -> Job \cup {None}] /\ job[d].step = "mark" /\ job[d] # None
  BY DEF MarkApproved, TypeInv, TypeOK
<1>2. job[d].transfer \in Transfer /\ job[d].to \in Device
  BY <1>1 DEF Job
<1> DEFINE new == [job[d] EXCEPT !.step = "stream"]
<1>3. /\ new \in Job /\ new.to = job[d].to /\ new.transfer = job[d].transfer
      /\ new.step = "stream" /\ new.todo = job[d].todo
  BY <1>1 DEF Job
<1>4. job' = [job EXCEPT ![d] = new]
  BY <1>1 DEF MarkApproved
<1> HIDE DEF new
<1>5. job' \in [Device -> Job \cup {None}]
  BY <1>1, <1>3, <1>4
<1>6. /\ approvals \in [Device -> [Device -> Transfer \cup {None}]]
      /\ approvals' = [approvals EXCEPT ![d][job[d].to] = job[d].transfer]
  BY DEF MarkApproved, TypeInv, TypeOK
<1>7. /\ approvals' \in [Device -> [Device -> Transfer \cup {None}]]
      /\ \A x, y \in Device :
          approvals'[x][y] = IF x = d /\ y = job[d].to THEN job[d].transfer ELSE approvals[x][y]
  BY <1>2, <1>6
<1>8. TypeOK'
  BY <1>5, <1>7 DEF MarkApproved, TypeInv, TypeOK, counters
<1>9. Grown /\ \A x \in Device : RowsOK(x)'
  <2>1. \A x \in Device : index'[x] \in {index[x], None}
    BY DEF MarkApproved
  <2> QED
    BY <2>1, RowsKept DEF MarkApproved
<1>10. UNCHANGED <<seen, consent, offered, revoked, transfers, incoming, batch, boxes>>
  BY DEF MarkApproved, counters
<1>11. /\ \A x \in Device \ {d} : job'[x] = job[x]
       /\ job'[d] = new
  BY <1>1, <1>4
<1>12. Advances(d, "stream")
  BY <1>1, <1>3, <1>10, <1>11 DEF Advances
<1>13. Marks(d)
  BY <1>1, <1>7, <1>10, <1>12 DEF Marks
<1> QED
  BY <1>8, <1>9, <1>10, <1>13 DEF Step, Flow

\* send_history: the next record, or the end of it.
LEMMA SendHistoryStep ==
    ASSUME TypeInv, NEW d \in Device, SendHistory(d)
    PROVE  Step(d)
<1> DEFINE rec == Head(job[d].todo)
<1>1. PICK S \in SUBSET Relay :
        /\ Put(S, {job[d].to}, rec)
        /\ job' = [job EXCEPT ![d] = IF S = {} THEN None
                                     ELSE [job[d] EXCEPT !.todo = Tail(job[d].todo)]]
  BY DEF SendHistory
<1>2. /\ job[d] \in Job /\ job \in [Device -> Job \cup {None}] /\ job[d].step = "stream"
      /\ job[d].todo # <<>> /\ job[d] # None
  BY DEF SendHistory, TypeInv, TypeOK
<1>3. job[d].todo \in Seq(Record)
  BY <1>2 DEF Job
<1>4. /\ rec \in Record /\ rec \in Range(job[d].todo) /\ Tail(job[d].todo) \in Seq(Record)
      /\ Range(Tail(job[d].todo)) \subseteq Range(job[d].todo)
  BY <1>2, <1>3, TailRange
<1> HIDE DEF rec
<1>5. boxes \in [Relay -> [Device -> Seq(Record)]]
  BY DEF TypeInv, TypeOK
<1>6. boxes' \in [Relay -> [Device -> Seq(Record)]]
  BY <1>1, <1>4, <1>5, PutEffect
<1> DEFINE rest == Tail(job[d].todo)
           new == [job[d] EXCEPT !.todo = rest]
<1>7. job' = [job EXCEPT ![d] = IF S = {} THEN None ELSE new]
  BY <1>1
<1> HIDE DEF rest
<1>8. rest \in Seq(Record) /\ Range(rest) \subseteq Range(job[d].todo)
  BY <1>4 DEF rest
<1>9. /\ new \in Job /\ new.to = job[d].to /\ new.transfer = job[d].transfer
      /\ new.step = "stream" /\ new.todo = rest
  BY <1>2, <1>8 DEF Job
<1> HIDE DEF new
<1>10. job' \in [Device -> Job \cup {None}]
  BY <1>2, <1>7, <1>9
<1>11. TypeOK'
  BY <1>6, <1>10 DEF SendHistory, TypeInv, TypeOK, stored
<1>12. Grown /\ \A x \in Device : RowsOK(x)'
  <2>1. \A x \in Device : index'[x] \in {index[x], None}
    BY DEF SendHistory
  <2> QED
    BY <2>1, RowsKept DEF SendHistory, stored
<1>13. \A x \in Device : \A r \in InFlight(x)' :
          r \in InFlight(x) \/ (x \in {job[d].to} /\ r = rec /\ S # {})
  <2>1. \A x \in Device : \A r \in InFlight(x)' :
           r \in InFlight(x) \/ (x \in {job[d].to} /\ r = rec)
    BY <1>1, <1>4, <1>5, PutFlight DEF SendHistory
  <2>2. CASE S = {}
    <3>1. \A r \in Relay, x \in Device : boxes'[r][x] = boxes[r][x]
      BY <1>1, <2>2 DEF Put
    <3>2. \A r \in Relay, x \in Device : Range(boxes'[r][x]) \subseteq Range(boxes[r][x])
      BY <3>1
    <3>3. \A x \in Device : Range(batch'[x]) \subseteq InFlight(x)
      BY DEF InFlight, SendHistory
    <3> QED
      BY <3>2, <3>3, FlightShrinks
  <2> QED
    BY <2>1, <2>2
<1>14. UNCHANGED <<approvals, seen, consent, offered, revoked, transfers, incoming>>
  BY DEF SendHistory, stored
<1>15. Quiet(d) \/ Streams(d)
  <2>1. CASE S = {}
    <3>1. \A x \in Device : job'[x] \in {job[x], None}
      BY <1>2, <1>7, <2>1
    <3> QED
      BY <1>13, <1>14, <2>1, <3>1 DEF Quiet
  <2>2. CASE S # {}
    <3>1. /\ \A x \in Device \ {d} : job'[x] = job[x]
          /\ job'[d] = new
      BY <1>2, <1>7, <2>2
    <3>2. Advances(d, "stream")
      BY <1>2, <1>8, <1>9, <1>14, <3>1 DEF Advances
    <3> QED
      BY <1>2, <1>4, <1>13, <1>14, <3>2 DEF Streams
  <2> QED
    BY <2>1, <2>2
<1> QED
  BY <1>11, <1>12, <1>14, <1>15 DEF Step, Flow

\* Done with an approval.
LEMMA ForgetStep ==
    ASSUME TypeInv, NEW d \in Device, ForgetRequest(d)
    PROVE  Step(d)
<1>1. job[d] \in Job /\ job \in [Device -> Job \cup {None}]
  BY DEF ForgetRequest, TypeInv, TypeOK
<1>2. job[d].asked \in SUBSET Device
  BY <1>1 DEF Job
<1>3. job' = [job EXCEPT ![d] = None] /\ job' \in [Device -> Job \cup {None}]
  BY <1>1 DEF ForgetRequest
<1>4. pending' \in [Device -> SUBSET Device]
  <2>1. /\ pending \in [Device -> SUBSET Device]
        /\ pending' = [pending EXCEPT ![d] = job[d].asked \ {job[d].to}]
    BY DEF ForgetRequest, TypeInv, TypeOK
  <2> QED
    BY <1>2, <2>1
<1>5. TypeOK'
  BY <1>3, <1>4 DEF ForgetRequest, TypeInv, TypeOK, counters
<1>6. Grown /\ \A x \in Device : RowsOK(x)'
  <2>1. \A x \in Device : index'[x] \in {index[x], None}
    BY DEF ForgetRequest
  <2> QED
    BY <2>1, RowsKept DEF ForgetRequest
<1>7. /\ UNCHANGED <<approvals, seen, consent, offered, revoked, transfers, incoming>>
      /\ UNCHANGED <<batch, boxes>>
  BY DEF ForgetRequest, counters
<1>8. \A x \in Device : InFlight(x)' = InFlight(x)
  BY <1>7 DEF InFlight
<1>9. \A x \in Device : job'[x] \in {job[x], None}
  BY <1>1, <1>3
<1> QED
  BY <1>5, <1>6, <1>7, <1>8, <1>9 DEF Step, Flow, Quiet

\* deny_device.
LEMMA DenyStep ==
    ASSUME TypeInv, NEW d \in Device, NEW e \in Device, DenyDevice(d, e)
    PROVE  Step(d)
<1>1. pending' \in [Device -> SUBSET Device]
  BY DEF DenyDevice, TypeInv, TypeOK
<1>2. TypeOK'
  BY <1>1 DEF DenyDevice, TypeInv, TypeOK, counters
<1>3. Grown /\ \A x \in Device : RowsOK(x)'
  <2>1. \A x \in Device : index'[x] \in {index[x], None}
    BY DEF DenyDevice
  <2> QED
    BY <2>1, RowsKept DEF DenyDevice
<1>4. /\ UNCHANGED <<approvals, seen, consent, offered, revoked, transfers, incoming>>
      /\ UNCHANGED <<batch, boxes, job>>
  BY DEF DenyDevice, counters
<1>5. \A x \in Device : InFlight(x)' = InFlight(x)
  BY <1>4 DEF InFlight
<1> QED
  BY <1>2, <1>3, <1>4, <1>5 DEF Step, Flow, Quiet

\* revoke_approval.
LEMMA RevokeStep ==
    ASSUME TypeInv, NEW d \in Device, NEW e \in Device, RevokeApproval(d, e)
    PROVE  Step(d)
<1>1. /\ approvals \in [Device -> [Device -> Transfer \cup {None}]]
      /\ revoked \in [Device -> SUBSET Transfer]
      /\ approvals[d][e] # None /\ job[d] = None
      /\ approvals' = [approvals EXCEPT ![d][e] = None]
      /\ revoked' = [revoked EXCEPT ![d] = @ \cup {approvals[d][e]}]
  BY DEF RevokeApproval, TypeInv, TypeOK, Approved, Free
<1>2. /\ approvals' \in [Device -> [Device -> Transfer \cup {None}]]
      /\ \A x, y \in Device :
          approvals'[x][y] = IF x = d /\ y = e THEN None ELSE approvals[x][y]
  BY <1>1
<1>3. approvals[d][e] \in Transfer
  BY <1>1
<1>4. /\ revoked' \in [Device -> SUBSET Transfer]
      /\ \A x \in Device :
          revoked'[x] = IF x = d THEN revoked[x] \cup {approvals[d][e]} ELSE revoked[x]
  BY <1>1, <1>3
<1>5. TypeOK'
  BY <1>2, <1>4 DEF RevokeApproval, TypeInv, TypeOK, counters
<1>6. Grown /\ \A x \in Device : RowsOK(x)'
  <2>1. \A x \in Device : index'[x] \in {index[x], None}
    BY DEF RevokeApproval
  <2> QED
    BY <2>1, RowsKept DEF RevokeApproval
<1>7. UNCHANGED <<consent, offered, seen, transfers, job, batch, boxes, incoming>>
  BY DEF RevokeApproval, counters
<1>8. Revokes(d, e)
  BY <1>1, <1>2, <1>4, <1>7 DEF Revokes
<1> QED
  BY <1>5, <1>6, <1>7, <1>8 DEF Step, Flow

\* export_history.
LEMMA ExportStep ==
    ASSUME TypeInv, NEW d \in Device, ExportHistory(d)
    PROVE  Step(d)
<1>1. file' \in Seq(Item)
  BY ItemsTyped DEF ExportHistory, TypeInv, TypeOK
<1>2. TypeOK'
  BY <1>1 DEF ExportHistory, TypeInv, TypeOK, stored
<1>3. Grown /\ \A x \in Device : RowsOK(x)'
  <2>1. \A x \in Device : index'[x] \in {index[x], None}
    BY DEF ExportHistory
  <2> QED
    BY <2>1, RowsKept DEF ExportHistory, stored
<1>4. /\ UNCHANGED <<approvals, seen, consent, offered, revoked, transfers, incoming>>
      /\ UNCHANGED <<batch, boxes, job>>
  BY DEF ExportHistory, stored
<1>5. \A x \in Device : InFlight(x)' = InFlight(x)
  BY <1>4 DEF InFlight
<1> QED
  BY <1>2, <1>3, <1>4, <1>5 DEF Step, Flow, Quiet

\* A mirror of a state: the mailboxes keep their type, approved siblings may have it.
LEMMA StateMirrored ==
    ASSUME TypeInv, batch' = batch, NEW d \in Device, NEW k \in Message, NEW st \in Rank,
           MirrorState(d, k, st)
    PROVE  /\ boxes' \in [Relay -> [Device -> Seq(Record)]]
           /\ \A x \in Device : \A r \in InFlight(x)' :
                 r \in InFlight(x) \/ (r.kind = "state" /\ r.from = d /\ x \in Approved(d))
<1> DEFINE item == [of |-> k, st |-> st]
           rec == Rec("state", d, None, item)
<1>1. PICK S \in SUBSET Relay : Put(S, Approved(d), rec)
  BY DEF MirrorState
<1>2. item \in [of : Message, st : Rank] /\ item \in Item
  BY DEF Item
<1> HIDE DEF item
<1>3. rec \in Record /\ rec.kind = "state" /\ rec.from = d
  BY <1>2, RecTyped DEF Kind
<1> HIDE DEF rec
<1>4. boxes \in [Relay -> [Device -> Seq(Record)]]
  BY DEF TypeInv, TypeOK
<1> QED
  BY <1>1, <1>3, <1>4, PutEffect, PutFlight

\* mark_read.
LEMMA MarkReadStep ==
    ASSUME TypeInv, NEW d \in Device, NEW k \in Message, MarkRead(d, k)
    PROVE  Step(d)
<1>1. MirrorState(d, k, Read) /\ Read \in Rank /\ batch' = batch
  BY DEF MarkRead, Read, Rank
<1>2. /\ boxes' \in [Relay -> [Device -> Seq(Record)]]
      /\ \A x \in Device : \A r \in InFlight(x)' :
            r \in InFlight(x) \/ (r.kind = "state" /\ r.from = d /\ x \in Approved(d))
  BY <1>1, StateMirrored
<1>3. TypeOK'
  BY <1>2 DEF MarkRead, TypeInv, TypeOK, stored
<1>4. Grown /\ \A x \in Device : RowsOK(x)'
  <2>1. \A x \in Device : index'[x] \in {index[x], None}
    BY DEF MarkRead
  <2> QED
    BY <2>1, RowsKept DEF MarkRead, stored
<1>5. UNCHANGED <<approvals, seen, consent, offered, revoked, transfers, incoming, job>>
  BY DEF MarkRead, stored
<1> QED
  BY <1>2, <1>3, <1>4, <1>5 DEF Step, Flow, Quiet

\* The process of a device ends, perhaps with an approval taken over and not granted.
LEMMA CrashStep ==
    ASSUME TypeInv, NEW d \in Device, Crash(d) \/ EndsInApproval(d)
    PROVE  Step(d)
<1>1. /\ index \in [Device -> [Message -> Known] \cup {None}]
      /\ job \in [Device -> Job \cup {None}] /\ batch \in [Device -> Seq(Record)]
      /\ got \in [Device -> [Relay -> Nat]]
      /\ index' = [index EXCEPT ![d] = None] /\ job' = [job EXCEPT ![d] = None]
      /\ batch' = [batch EXCEPT ![d] = <<>>] /\ got' = [got EXCEPT ![d] = [r \in Relay |-> 0]]
  BY DEF TypeInv, TypeOK, Crash, EndsInApproval, Restart
<1>2. index' \in [Device -> [Message -> Known] \cup {None}]
  BY <1>1
<1>3. job' \in [Device -> Job \cup {None}]
  BY <1>1
<1>4. batch' \in [Device -> Seq(Record)] /\ got' \in [Device -> [Relay -> Nat]]
  BY <1>1
<1>5. seen' \in [Device -> SUBSET Transfer] /\ \A x \in Device : seen[x] \subseteq seen'[x]
  <2>1. seen \in [Device -> SUBSET Transfer]
    BY DEF TypeInv, TypeOK
  <2>2. CASE Crash(d)
    BY <2>1, <2>2 DEF Crash
  <2>3. CASE EndsInApproval(d)
    <3>1. batch[d] # <<>> /\ batch[d] \in Seq(Record)
      BY <1>1, <2>3 DEF EndsInApproval
    <3>2. PICK rec \in Record : rec = Head(batch[d])
      BY <3>1
    <3>3. rec.transfer \in Transfer /\ seen' = [seen EXCEPT ![d] = seen[d] \cup {rec.transfer}]
      BY <2>3, <3>2, RecordFields DEF EndsInApproval
    <3> QED
      BY <2>1, <3>3
  <2> QED
    BY <2>2, <2>3
<1>6. TypeOK'
  BY <1>2, <1>3, <1>4, <1>5 DEF Crash, EndsInApproval, Restart, TypeInv, TypeOK
<1>7. Grown /\ \A x \in Device : RowsOK(x)'
  <2>1. \A x \in Device : index'[x] \in {index[x], None}
    BY <1>1
  <2> QED
    BY <2>1, RowsKept DEF Crash, EndsInApproval, Restart
<1>8. UNCHANGED <<approvals, consent, offered, revoked, transfers, incoming, boxes>>
  BY DEF Crash, EndsInApproval, Restart
<1>9. \A x \in Device : InFlight(x)' \subseteq InFlight(x)
  <2>1. \A x \in Device : batch'[x] = batch[x] \/ batch'[x] = <<>>
    BY <1>1
  <2>2. \A x \in Device : Range(batch'[x]) \subseteq InFlight(x)
    BY <2>1 DEF InFlight, Range
  <2> QED
    BY <1>8, <2>2, FlightShrinks
<1>10. \A x \in Device : job'[x] \in {job[x], None}
  BY <1>1
<1> QED
  BY <1>6, <1>7, <1>8, <1>9, <1>5, <1>10 DEF Step, Flow, Quiet

\* approve_device: the offer, the items with their numbers, and the end with a digest of
\* them all.
LEMMA ApproveStep ==
    ASSUME TypeInv, NEW d \in Device, NEW e \in Device, NEW skipped \in SUBSET Chunk,
           ApproveDevice(d, e, skipped)
    PROVE  Step(d)
<1> DEFINE items == Items(d, skipped)
           t == transfers + 1
           count == Len(items)
           links == [i \in DOMAIN items |-> [seq |-> i, item |-> items[i]]]
           digest == [seed |-> t, items |-> links]
           first == Rec("offer", d, t, None)
           offer == [first EXCEPT !.count = count]
           one(i) == Rec("item", d, t, items[i])
           stream == [i \in DOMAIN items |-> [one(i) EXCEPT !.count = i]]
           last == Rec("complete", d, t, None)
           end == [last EXCEPT !.count = count, !.chain = digest]
           todo == <<offer>> \o stream \o <<end>>
           new == [to |-> e, transfer |-> t, step |-> "approval", asked |-> pending[d],
                   todo |-> todo]
<1>1. /\ transfers' = t /\ consent' = consent \cup {<<d, e>>} /\ e # d
      /\ offered' = [offered EXCEPT ![t] = Range(items)]
      /\ job' = [job EXCEPT ![d] = new]
      /\ transfers < MaxTransfers
      /\ UNCHANGED <<stored, index, batch, got, boxes, file, revoked, crossed, live, faults>>
  BY DEF ApproveDevice, Siblings
<1>2. items \in Seq(Item)
  BY ItemsTyped DEF TypeInv, TypeOK
<1> HIDE DEF items
<1>3. /\ count \in Nat /\ DOMAIN items = 1 .. count
      /\ \A i \in 1 .. count : items[i] \in Item
  BY <1>2
<1>4. t \in Transfer /\ transfers \in Nat
  <2>1. transfers < MaxTransfers /\ transfers \in 0 .. MaxTransfers
    BY DEF ApproveDevice, TypeInv, TypeOK
  <2>2. MaxTransfers \in Nat
    BY DeviceSyncAssumption
  <2> QED
    BY <2>1, <2>2 DEF Transfer
<1> HIDE DEF t, count
<1>5. /\ links \in Seq(Link)
      /\ \A i \in DOMAIN items : i \in DOMAIN links /\ links[i].item = items[i]
  <2>1. links \in [1 .. count -> Link]
    BY <1>3 DEF Link
  <2> QED
    BY <1>3, <2>1, SeqDef
<1> HIDE DEF links
<1>6. digest \in Digest /\ digest.seed = t /\ digest.items = links
  BY <1>4, <1>5 DEF Digest
<1> HIDE DEF digest
<1> DEFINE Good == {rec \in Record :
                      /\ rec.from = d /\ rec.kind \in {"offer", "item", "complete"}
                      /\ rec.kind = "complete" => rec.transfer = t /\ rec.chain = digest}
<1>7. offer \in Good
  <2>1. first \in Record /\ first.kind = "offer" /\ first.from = d
    BY <1>4, RecTyped DEF Kind
  <2> HIDE DEF first
  <2>2. offer \in Record /\ offer.kind = first.kind /\ offer.from = first.from
    BY <1>3, <1>6, <2>1 DEF Record
  <2> HIDE DEF offer
  <2> QED
    BY <2>1, <2>2
<1>8. end \in Good
  <2>1. last \in Record /\ last.kind = "complete" /\ last.from = d /\ last.transfer = t
    BY <1>4, RecTyped DEF Kind
  <2> HIDE DEF last
  <2>2. /\ end \in Record /\ end.kind = last.kind /\ end.from = last.from
        /\ end.transfer = last.transfer /\ end.chain = digest
    BY <1>3, <1>6, <2>1 DEF Record
  <2> HIDE DEF end
  <2> QED
    BY <2>1, <2>2
<1>9. ASSUME NEW i \in DOMAIN items
      PROVE  [one(i) EXCEPT !.count = i] \in Good
  <2> DEFINE rec == one(i)
             r == [rec EXCEPT !.count = i]
  <2>1. rec \in Record /\ rec.kind = "item" /\ rec.from = d
    BY <1>3, <1>4, RecTyped DEF Kind
  <2> HIDE DEF rec
  <2>2. r \in Record /\ r.kind = rec.kind /\ r.from = rec.from
    BY <1>3, <1>6, <2>1 DEF Record
  <2> HIDE DEF r
  <2>3. r \in Good
    BY <2>1, <2>2
  <2> QED
    BY <2>3 DEF r, rec
<1> HIDE DEF offer, end, one
<1>10. stream \in Seq(Good)
  <2> HIDE DEF Good
  <2>1. stream \in [1 .. count -> Good]
    BY <1>3, <1>9
  <2> QED
    BY <1>3, <2>1, SeqDef
<1>11. todo \in Seq(Good)
  <2> HIDE DEF Good, stream
  <2>1. <<offer>> \in Seq(Good) /\ <<end>> \in Seq(Good)
    BY <1>7, <1>8
  <2>2. <<offer>> \o stream \in Seq(Good)
    BY <1>10, <2>1, ConcatProperties
  <2> QED
    BY <2>1, <2>2, ConcatProperties
<1> HIDE DEF todo
<1>12. todo \in Seq(Record) /\ Range(todo) \subseteq Good
  <2>1. Good \subseteq Record
    OBVIOUS
  <2> HIDE DEF Good
  <2>2. todo \in Seq(Record)
    BY <1>11, <2>1, SeqMonotonic
  <2>3. Range(todo) \subseteq Good
    BY <1>11 DEF Range
  <2> QED
    BY <2>2, <2>3
<1>13. /\ new \in Job /\ new.to = e /\ new.transfer = t /\ new.step = "approval"
       /\ new.todo = todo
  BY <1>4, <1>12 DEF Job, TypeInv, TypeOK
<1> HIDE DEF new
<1>14. /\ job \in [Device -> Job \cup {None}] /\ offered \in [Transfer -> SUBSET Item]
       /\ consent \subseteq Device \X Device
  BY DEF TypeInv, TypeOK
<1>15. /\ job' \in [Device -> Job \cup {None}]
       /\ \A x \in Device \ {d} : job'[x] = job[x]
       /\ job'[d] = new
  BY <1>1, <1>13, <1>14
<1>16. Range(items) \in SUBSET Item
  BY <1>2 DEF Range
<1>17. /\ offered' \in [Transfer -> SUBSET Item]
       /\ \A u \in Transfer \ {t} : offered'[u] = offered[u]
       /\ offered'[t] = Range(items)
  BY <1>1, <1>4, <1>14, <1>16
<1>18. consent' \subseteq Device \X Device
  BY <1>1, <1>14
<1>19. transfers' \in 0 .. MaxTransfers
  BY <1>1, <1>4, DeviceSyncAssumption DEF Transfer
<1>20. TypeOK'
  BY <1>1, <1>15, <1>17, <1>18, <1>19 DEF TypeInv, TypeOK, stored
<1>21. Grown /\ \A x \in Device : RowsOK(x)'
  <2>1. \A x \in Device : index'[x] \in {index[x], None}
    BY <1>1
  <2> QED
    BY <1>1, <2>1, RowsKept DEF stored
<1>22. \A item \in offered'[t] : \E i \in DOMAIN digest.items : digest.items[i].item = item
  BY <1>5, <1>6, <1>17 DEF Range
<1>23. \A rec \in Range(job'[d].todo) :
          /\ rec.from = d /\ rec.kind \in {"offer", "item", "complete"}
          /\ rec.kind = "complete" => rec.transfer = t /\ rec.chain = digest
  BY <1>12, <1>13, <1>15
<1>24. UNCHANGED <<approvals, seen, revoked, batch, boxes, incoming>>
  BY <1>1 DEF stored
<1>25. t = transfers + 1
  BY DEF t
<1>26. job'[d].to = e /\ job'[d].transfer = t /\ job'[d].step = "approval"
  BY <1>13, <1>15
<1> HIDE DEF Good
<1>27. Begins(d, e)
  BY <1>1, <1>4, <1>6, <1>15, <1>17, <1>22, <1>23, <1>24, <1>25, <1>26 DEF Begins
<1> QED
  BY <1>20, <1>21, <1>24, <1>27 DEF Step, Flow

-----------------------------------------------------------------------------
(* Records in.                                                             *)

\* fetch: what comes is what the mailboxes hold.
LEMMA FetchStep ==
    ASSUME TypeInv, NEW d \in Device, Fetch(d)
    PROVE  Step(d)
<1>1. PICK S \in SUBSET Relay :
        LET of(r) == IF r \in S THEN boxes[r][d] ELSE <<>> IN
        /\ batch' = [batch EXCEPT ![d] = FlattenSeq([i \in DOMAIN Urls |-> of(Urls[i])])]
        /\ got' = [got EXCEPT ![d] = [r \in Relay |-> Len(of(r))]]
  BY DEF Fetch
<1> DEFINE of(r) == IF r \in S THEN boxes[r][d] ELSE <<>>
           all == [i \in DOMAIN Urls |-> of(Urls[i])]
           B == (UNION {Range(boxes[r][d]) : r \in Relay}) \cap Record
<1>2. boxes \in [Relay -> [Device -> Seq(Record)]] /\ batch \in [Device -> Seq(Record)]
  BY DEF TypeInv, TypeOK
<1>3. ASSUME NEW r \in Relay
      PROVE  of(r) \in Seq(B) /\ Len(of(r)) \in Nat
  <2>1. boxes[r][d] \in Seq(Record)
    BY <1>2
  <2>2. \A i \in 1 .. Len(boxes[r][d]) : boxes[r][d][i] \in B
    BY <2>1 DEF Range
  <2> HIDE DEF B
  <2>3. boxes[r][d] \in Seq(B)
    BY <2>1, <2>2
  <2> QED
    BY <2>3
<1>4. Len(Urls) \in Nat /\ DOMAIN Urls = 1 .. Len(Urls) /\ \A i \in 1 .. Len(Urls) : Urls[i] \in Relay
  BY DeviceSyncAssumption DEF Relay
<1> HIDE DEF B, of
<1>5. all \in Seq(Seq(B))
  <2>1. all \in [1 .. Len(Urls) -> Seq(B)]
    BY <1>3, <1>4
  <2> QED
    BY <1>4, <2>1, SeqDef
<1>6. FlattenSeq(all) \in Seq(B)
  BY <1>5, Flattened
<1> DEFINE flat == FlattenSeq(all)
<1>7. batch' = [batch EXCEPT ![d] = flat] /\ got' = [got EXCEPT ![d] = [r \in Relay |-> Len(of(r))]]
  BY <1>1 DEF of
<1> HIDE DEF flat
<1>8. flat \in Seq(Record) /\ Range(flat) \subseteq B
  <2>1. B \subseteq Record
    BY DEF B
  <2>2. flat \in Seq(B)
    BY <1>6 DEF flat
  <2>3. flat \in Seq(Record)
    BY <2>1, <2>2, SeqMonotonic
  <2>4. Range(flat) \subseteq B
    BY <2>2 DEF Range
  <2> QED
    BY <2>3, <2>4
<1>9. batch' \in [Device -> Seq(Record)]
  BY <1>2, <1>7, <1>8
<1>10. got' \in [Device -> [Relay -> Nat]]
  <2>1. [r \in Relay |-> Len(of(r))] \in [Relay -> Nat]
    BY <1>3
  <2> QED
    BY <1>7, <2>1 DEF TypeInv, TypeOK
<1>11. TypeOK'
  BY <1>9, <1>10 DEF Fetch, TypeInv, TypeOK, stored
<1>12. Grown /\ \A x \in Device : RowsOK(x)'
  <2>1. \A x \in Device : index'[x] \in {index[x], None}
    BY DEF Fetch
  <2> QED
    BY <2>1, RowsKept DEF Fetch, stored
<1>13. /\ UNCHANGED <<approvals, seen, consent, offered, revoked, transfers, incoming>>
       /\ UNCHANGED <<job, boxes>>
  BY DEF Fetch, stored
<1>14. \A x \in Device : InFlight(x)' \subseteq InFlight(x)
  <2>1. \A x \in Device : batch'[x] = IF x = d THEN flat ELSE batch[x]
    BY <1>2, <1>7
  <2>2. B \subseteq InFlight(d)
    BY DEF B, InFlight
  <2>3. \A x \in Device : Range(batch'[x]) \subseteq InFlight(x)
    BY <1>8, <2>1, <2>2 DEF InFlight
  <2> QED
    BY <1>13, <2>3, FlightShrinks
<1> QED
  BY <1>11, <1>12, <1>13, <1>14 DEF Step, Flow, Quiet

\* ack: the rows that were fetched leave the mailboxes.
LEMMA AckStep ==
    ASSUME TypeInv, NEW d \in Device, Ack(d)
    PROVE  Step(d)
<1>1. PICK S \in SUBSET Relay :
        boxes' = [r \in Relay |-> [boxes[r] EXCEPT ![d] =
                    IF r \in S THEN SubSeq(@, got[d][r] + 1, Len(@)) ELSE @]]
  BY DEF Ack
<1>2. /\ boxes \in [Relay -> [Device -> Seq(Record)]] /\ got \in [Device -> [Relay -> Nat]]
  BY DEF TypeInv, TypeOK
<1> DEFINE rest(r) == SubSeq(boxes[r][d], got[d][r] + 1, Len(boxes[r][d]))
<1>3. ASSUME NEW r \in Relay
      PROVE  rest(r) \in Seq(Record) /\ Range(rest(r)) \subseteq Range(boxes[r][d])
  <2>1. boxes[r][d] \in Seq(Record) /\ got[d][r] \in Nat
    BY <1>2
  <2> QED
    BY <2>1, SubSeqRange
<1>4. boxes' = [r \in Relay |-> [boxes[r] EXCEPT ![d] = IF r \in S THEN rest(r) ELSE boxes[r][d]]]
  BY <1>1
<1> HIDE DEF rest
<1>5. \A r \in Relay, x \in Device :
         boxes'[r][x] = IF x = d /\ r \in S THEN rest(r) ELSE boxes[r][x]
  BY <1>2, <1>4
<1>6. boxes' \in [Relay -> [Device -> Seq(Record)]]
  BY <1>2, <1>3, <1>4
<1>7. got' \in [Device -> [Relay -> Nat]]
  BY <1>2 DEF Ack
<1>8. TypeOK'
  BY <1>6, <1>7 DEF Ack, TypeInv, TypeOK, stored
<1>9. Grown /\ \A x \in Device : RowsOK(x)'
  <2>1. \A x \in Device : index'[x] \in {index[x], None}
    BY DEF Ack
  <2> QED
    BY <2>1, RowsKept DEF Ack, stored
<1>10. UNCHANGED <<approvals, seen, consent, offered, revoked, transfers, incoming, job, batch>>
  BY DEF Ack, stored
<1>11. \A x \in Device : InFlight(x)' \subseteq InFlight(x)
  <2>1. \A r \in Relay, x \in Device : Range(boxes'[r][x]) \subseteq Range(boxes[r][x])
    BY <1>3, <1>5
  <2>2. \A x \in Device : Range(batch'[x]) \subseteq InFlight(x)
    BY <1>10 DEF InFlight
  <2> QED
    BY <2>1, <2>2, FlightShrinks
<1> QED
  BY <1>8, <1>9, <1>10, <1>11 DEF Step, Flow, Quiet

\* The next record of a batch: it was in flight, and nothing else comes to be.
LEMMA Taken ==
    ASSUME TypeInv, NEW d \in Device, NEW kinds, Take(d, kinds)
    PROVE  /\ Head(batch[d]) \in Record /\ Head(batch[d]) \in InFlight(d)
           /\ Head(batch[d]).kind \in kinds
           /\ batch' \in [Device -> Seq(Record)]
           /\ \A x \in Device : InFlight(x)' \subseteq InFlight(x)
           /\ UNCHANGED <<job, got, boxes, file, offered, consent, revoked, transfers, live>>
<1>1. /\ batch \in [Device -> Seq(Record)] /\ batch[d] \in Seq(Record) /\ batch[d] # <<>>
      /\ Head(batch[d]).kind \in kinds /\ batch' = [batch EXCEPT ![d] = Tail(batch[d])]
      /\ UNCHANGED <<job, got, boxes, file, offered, consent, revoked, transfers, live>>
  BY DEF TypeInv, TypeOK, Take
<1>2. /\ Head(batch[d]) \in Record /\ Head(batch[d]) \in Range(batch[d])
      /\ Tail(batch[d]) \in Seq(Record) /\ Range(Tail(batch[d])) \subseteq Range(batch[d])
  BY <1>1, TailRange
<1> DEFINE rest == Tail(batch[d])
<1>3. \A x \in Device : batch'[x] = IF x = d THEN rest ELSE batch[x]
  BY <1>1
<1>4. batch' \in [Device -> Seq(Record)]
  BY <1>1, <1>2
<1>5. \A x \in Device : Range(batch'[x]) \subseteq InFlight(x)
  <2> HIDE DEF rest
  <2>1. Range(rest) \subseteq Range(batch[d])
    BY <1>2 DEF rest
  <2> QED
    BY <1>3, <2>1 DEF InFlight
<1>6. \A x \in Device : InFlight(x)' \subseteq InFlight(x)
  BY <1>1, <1>5, FlightShrinks
<1>7. Head(batch[d]) \in InFlight(d)
  BY <1>2 DEF InFlight
<1> QED
  BY <1>1, <1>2, <1>4, <1>6, <1>7

\* A record that is skipped.
LEMMA UnhandledStep ==
    ASSUME TypeInv, NEW d \in Device, Unhandled(d)
    PROVE  Step(d)
<1>1. /\ batch' \in [Device -> Seq(Record)]
      /\ \A x \in Device : InFlight(x)' \subseteq InFlight(x)
      /\ UNCHANGED <<job, got, boxes, file, offered, consent, revoked, transfers, live>>
  BY Taken DEF Unhandled
<1>2. UNCHANGED <<stored, index, crossed>>
  BY DEF Unhandled
<1>3. TypeOK'
  BY <1>1, <1>2 DEF TypeInv, TypeOK, stored
<1>4. Grown /\ \A x \in Device : RowsOK(x)'
  <2>1. \A x \in Device : index'[x] \in {index[x], None}
    BY <1>2
  <2> QED
    BY <1>2, <2>1, RowsKept DEF stored
<1> QED
  BY <1>1, <1>2, <1>3, <1>4 DEF Step, Flow, Quiet, stored

\* A sibling asks for history.
LEMMA HandleRequestStep ==
    ASSUME TypeInv, NEW d \in Device, HandleRequest(d)
    PROVE  Step(d)
<1> DEFINE rec == Head(batch[d])
<1>1. /\ rec \in Record /\ batch' \in [Device -> Seq(Record)]
      /\ \A x \in Device : InFlight(x)' \subseteq InFlight(x)
      /\ UNCHANGED <<job, got, boxes, file, offered, consent, revoked, transfers, live>>
  BY Taken DEF HandleRequest
<1>2. /\ UNCHANGED <<rows, held, approvals, seen, incoming, index, crossed>>
      /\ pending' = [pending EXCEPT ![d] = @ \cup {rec.from}]
  BY DEF HandleRequest
<1> HIDE DEF rec
<1>3. pending' \in [Device -> SUBSET Device]
  <2>1. rec.from \in Device /\ pending \in [Device -> SUBSET Device]
    BY <1>1, RecordFields DEF TypeInv, TypeOK
  <2> QED
    BY <1>2, <2>1
<1>4. TypeOK'
  BY <1>1, <1>2, <1>3 DEF TypeInv, TypeOK
<1>5. Grown /\ \A x \in Device : RowsOK(x)'
  <2>1. \A x \in Device : index'[x] \in {index[x], None}
    BY <1>2
  <2> QED
    BY <1>2, <2>1, RowsKept
<1> QED
  BY <1>1, <1>2, <1>4, <1>5 DEF Step, Flow, Quiet

\* A sibling approved this device.
LEMMA HandleApprovalStep ==
    ASSUME TypeInv, NEW d \in Device, HandleApproval(d)
    PROVE  Step(d)
<1> DEFINE rec == Head(batch[d])
<1>1. /\ rec \in Record /\ rec \in InFlight(d) /\ rec.kind \in {"approval"}
      /\ batch' \in [Device -> Seq(Record)]
      /\ \A x \in Device : InFlight(x)' \subseteq InFlight(x)
      /\ UNCHANGED <<job, got, boxes, file, offered, consent, revoked, transfers, live>>
  BY Taken DEF HandleApproval
<1>2. /\ UNCHANGED <<rows, held, pending, incoming, index, crossed>>
      /\ IF rec.transfer \in seen[d] THEN UNCHANGED <<seen, approvals>>
         ELSE /\ seen' = [seen EXCEPT ![d] = @ \cup {rec.transfer}]
              /\ approvals' = [approvals EXCEPT ![d][rec.from] = rec.transfer]
  BY DEF HandleApproval
<1> HIDE DEF rec
<1>3. /\ rec.from \in Device /\ rec.transfer \in Transfer
      /\ approvals \in [Device -> [Device -> Transfer \cup {None}]]
      /\ seen \in [Device -> SUBSET Transfer]
  BY <1>1, RecordFields DEF TypeInv, TypeOK
<1>4. /\ approvals' \in [Device -> [Device -> Transfer \cup {None}]]
      /\ seen' \in [Device -> SUBSET Transfer]
  <2>1. CASE rec.transfer \in seen[d]
    BY <1>2, <1>3, <2>1
  <2>2. CASE rec.transfer \notin seen[d]
    <3>1. approvals' \in [Device -> [Device -> Transfer \cup {None}]]
      BY <1>2, <1>3, <2>2
    <3>2. seen' \in [Device -> SUBSET Transfer]
      BY <1>2, <1>3, <2>2
    <3> QED
      BY <3>1, <3>2
  <2> QED
    BY <2>1, <2>2
<1>5. TypeOK'
  BY <1>1, <1>2, <1>4 DEF TypeInv, TypeOK
<1>6. Grown /\ \A x \in Device : RowsOK(x)'
  <2>1. \A x \in Device : index'[x] \in {index[x], None}
    BY <1>2
  <2> QED
    BY <1>2, <2>1, RowsKept
<1>7. Quiet(d) \/ Accepts(d)
  <2>1. CASE rec.transfer \in seen[d]
    BY <1>1, <1>2, <2>1 DEF Quiet
  <2>2. CASE rec.transfer \notin seen[d]
    <3>1. /\ \A x \in Device :
                seen'[x] = IF x = d THEN seen[x] \cup {rec.transfer} ELSE seen[x]
          /\ \A x, y \in Device :
                approvals'[x][y] = IF x = d /\ y = rec.from THEN rec.transfer
                                   ELSE approvals[x][y]
      BY <1>2, <1>3, <2>2
    <3> QED
      BY <1>1, <2>2, <3>1 DEF Accepts
  <2> QED
    BY <2>1, <2>2
<1> QED
  BY <1>2, <1>5, <1>6, <1>7 DEF Step, Flow

\* An offer: the count and the chain start again.
LEMMA HandleOfferStep ==
    ASSUME TypeInv, NEW d \in Device, HandleOffer(d)
    PROVE  Step(d)
<1> DEFINE rec == Head(batch[d])
<1>1. /\ rec \in Record /\ rec \in InFlight(d)
      /\ batch' \in [Device -> Seq(Record)]
      /\ \A x \in Device : InFlight(x)' \subseteq InFlight(x)
      /\ UNCHANGED <<job, got, boxes, file, offered, consent, revoked, transfers, live>>
  BY Taken DEF HandleOffer
<1> DEFINE new == [NoTransfer EXCEPT !.transfer = rec.transfer, !.expected = rec.count]
<1>2. /\ UNCHANGED <<rows, held, approvals, pending, seen, crossed>>
      /\ index' = index \/ index' = [index EXCEPT ![d] = None]
      /\ incoming' = [incoming EXCEPT ![d][rec.from] = new]
  BY DEF HandleOffer
<1> HIDE DEF rec
<1>3. /\ rec.from \in Device /\ rec.transfer \in Transfer \cup {None} /\ rec.count \in Nat
  BY <1>1, RecordFields
<1>4. /\ incoming \in [Device -> [Device -> IncomingRec]]
      /\ index \in [Device -> [Message -> Known] \cup {None}]
  BY DEF TypeInv, TypeOK, IncomingRec
<1>5. new \in IncomingRec /\ ~new.done /\ new.chain = NoDigest
  <2>1. NoDigest \in Digest
    BY DEF NoDigest, Digest
  <2> QED
    BY <1>3, <2>1 DEF IncomingRec, NoTransfer
<1> HIDE DEF new
<1>6. incoming' \in [Device -> [Device -> IncomingRec]]
  BY <1>2, <1>3, <1>4, <1>5
<1>7. /\ index' \in [Device -> [Message -> Known] \cup {None}]
      /\ \A x \in Device : index'[x] \in {index[x], None}
  BY <1>2, <1>4
<1>8. TypeOK'
  BY <1>1, <1>2, <1>6, <1>7 DEF TypeInv, TypeOK, IncomingRec
<1>9. Grown /\ \A x \in Device : RowsOK(x)'
  BY <1>2, <1>7, RowsKept
<1>10. Quiet(d)
  BY <1>1, <1>2 DEF Quiet
<1>11. Progress(d)
  <2>1. /\ \A x, y \in Device : x # d \/ y # rec.from => incoming'[x][y] = incoming[x][y]
        /\ incoming'[d][rec.from] = new
    BY <1>2, <1>3, <1>4
  <2>2. ~incoming'[d][rec.from].done /\ incoming'[d][rec.from].chain = NoDigest
    BY <1>5, <2>1
  <2> QED
    BY <1>1, <2>1, <2>2 DEF Progress
<1> QED
  BY <1>8, <1>9, <1>10, <1>11 DEF Step, Flow

\* COMPLETE: the digest is compared.
LEMMA HandleCompleteStep ==
    ASSUME TypeInv, NEW d \in Device, HandleComplete(d)
    PROVE  Step(d)
<1> DEFINE rec == Head(batch[d])
<1>1. /\ rec \in Record /\ rec \in InFlight(d) /\ rec.kind \in {"complete"}
      /\ batch' \in [Device -> Seq(Record)]
      /\ \A x \in Device : InFlight(x)' \subseteq InFlight(x)
      /\ UNCHANGED <<job, got, boxes, file, offered, consent, revoked, transfers, live>>
  BY Taken DEF HandleComplete
<1> DEFINE in == incoming[d][rec.from]
           all == in.received >= rec.count /\ in.chain = rec.chain
           new == [in EXCEPT !.done = TRUE, !.expected = rec.count, !.complete = all]
<1>2. /\ UNCHANGED <<rows, held, approvals, pending, seen, crossed, index>>
      /\ incoming' = [incoming EXCEPT ![d][rec.from] = new]
  BY DEF HandleComplete
<1> HIDE DEF rec
<1>3. /\ rec.from \in Device /\ rec.count \in Nat
  BY <1>1, RecordFields
<1>4. incoming \in [Device -> [Device -> IncomingRec]]
  BY DEF TypeInv, TypeOK, IncomingRec
<1>5. in \in IncomingRec
  BY <1>3, <1>4
<1>6. all \in BOOLEAN /\ (all => in.chain = rec.chain)
  OBVIOUS
<1> HIDE DEF in, all
<1>7. new \in IncomingRec /\ new.chain = in.chain /\ new.complete = all
  BY <1>3, <1>5, <1>6 DEF IncomingRec
<1> HIDE DEF new
<1>8. incoming' \in [Device -> [Device -> IncomingRec]]
  BY <1>2, <1>3, <1>4, <1>7
<1>9. TypeOK'
  BY <1>1, <1>2, <1>8 DEF TypeInv, TypeOK, IncomingRec
<1>10. Grown /\ \A x \in Device : RowsOK(x)'
  <2>1. \A x \in Device : index'[x] \in {index[x], None}
    BY <1>2
  <2> QED
    BY <1>2, <2>1, RowsKept
<1>11. Quiet(d)
  BY <1>1, <1>2 DEF Quiet
<1>12. Progress(d)
  <2>1. /\ \A x, y \in Device : x # d \/ y # rec.from => incoming'[x][y] = incoming[x][y]
        /\ incoming'[d][rec.from] = new
    BY <1>2, <1>3, <1>4
  <2>2. /\ incoming'[d][rec.from].chain = incoming[d][rec.from].chain
        /\ incoming'[d][rec.from].complete => incoming[d][rec.from].chain = rec.chain
    BY <1>6, <1>7, <2>1 DEF in
  <2> QED
    BY <1>1, <2>1, <2>2 DEF Progress
<1> QED
  BY <1>9, <1>10, <1>11, <1>12 DEF Step, Flow

-----------------------------------------------------------------------------
(* Steps that change rows.                                                 *)

\* Rows come to a device by another way than the transfer whose index is cached: the
\* index stays right about the messages they are not of.
LEMMA RowsCross ==
    ASSUME TypeInv, NEW d \in Device, NEW R \in [Message -> Seq(Row)], NEW C \in SUBSET Message,
           \A k \in Message : Len(rows[d][k]) <= Len(R[k]),
           \A k \in Message \ C : R[k] = rows[d][k],
           index[d] = None => \A k \in Message \ crossed[d] : Len(R[k]) <= 1,
           rows' = [rows EXCEPT ![d] = R], index' = index,
           crossed' = IF index[d] = None THEN crossed ELSE [crossed EXCEPT ![d] = @ \cup C],
           \A x \in Device : held[x] \subseteq held'[x]
    PROVE  /\ rows' \in [Device -> [Message -> Seq(Row)]]
           /\ crossed' \in [Device -> SUBSET Message]
           /\ Grown /\ \A x \in Device : RowsOK(x)'
<1>1. /\ rows \in [Device -> [Message -> Seq(Row)]] /\ crossed \in [Device -> SUBSET Message]
      /\ index \in [Device -> [Message -> Known] \cup {None}]
      /\ \A x \in Device : RowsOK(x)
  BY DEF TypeInv, TypeOK
<1>2. rows' \in [Device -> [Message -> Seq(Row)]]
  BY <1>1
<1>3. crossed' \in [Device -> SUBSET Message]
  BY <1>1
<1>4. /\ \A x \in Device \ {d} : rows'[x] = rows[x] /\ crossed'[x] = crossed[x]
      /\ rows'[d] = R
      /\ crossed'[d] = IF index[d] = None THEN crossed[d] ELSE crossed[d] \cup C
  BY <1>1
<1>5. Grown
  <2>1. \A x \in Device, k \in Message : Len(rows[x][k]) \in Nat
    BY <1>1
  <2> QED
    BY <1>4, <2>1 DEF Grown
<1>6. ASSUME NEW x \in Device \ {d}
      PROVE  RowsOK(x)'
  <2>1. RowsOK(x) /\ rows'[x] = rows[x] /\ crossed'[x] = crossed[x] /\ index'[x] = index[x]
    BY <1>1, <1>4
  <2> QED
    BY <2>1 DEF RowsOK
<1>7. RowsOK(d)'
  <2>1. CASE index[d] = None
    BY <1>4, <2>1 DEF RowsOK
  <2>2. CASE index[d] # None
    <3> DEFINE m == [rows |-> rows[d], ix |-> index[d]]
               n == [rows |-> R, ix |-> index[d]]
               K == Message \ crossed[d]
    <3>1. /\ m \in Indexed /\ Tidy(m, K) /\ \A k \in K : Len(rows[d][k]) <= 1
      BY <1>1, <2>2 DEF RowsOK
    <3>2. /\ index[d] \in [Message -> Known]
          /\ \A k \in Message : index[d][k] # None => index[d][k].pos \in DOMAIN rows[d][k]
          /\ \A k \in K : /\ Len(rows[d][k]) <= 1
                          /\ index[d][k] = None <=> rows[d][k] = <<>>
      BY <3>1 DEF Indexed, Tidy
    <3>3. \A k \in Message : index[d][k] # None => index[d][k].pos \in DOMAIN R[k]
      <4>1. \A k \in Message : DOMAIN rows[d][k] \subseteq DOMAIN R[k]
        <5>1. ASSUME NEW k \in Message
              PROVE  DOMAIN rows[d][k] \subseteq DOMAIN R[k]
          <6>1. rows[d][k] \in Seq(Row) /\ R[k] \in Seq(Row)
            BY <1>1
          <6>2. /\ DOMAIN rows[d][k] = 1 .. Len(rows[d][k]) /\ DOMAIN R[k] = 1 .. Len(R[k])
                /\ Len(rows[d][k]) \in Nat /\ Len(R[k]) \in Nat
                /\ Len(rows[d][k]) <= Len(R[k])
            BY <6>1
          <6> QED
            BY <6>2
        <5> QED
          BY <5>1
      <4> QED
        BY <3>2, <4>1
    <3>4. n \in Indexed
      BY <3>2, <3>3 DEF Indexed
    <3>5. crossed'[d] = crossed[d] \cup C
      BY <1>4, <2>2
    <3>6. \A k \in Message \ crossed'[d] : k \in K /\ R[k] = rows[d][k]
      BY <3>5
    <3>7. Tidy(n, Message \ crossed'[d]) /\ \A k \in Message \ crossed'[d] : Len(R[k]) <= 1
      BY <3>2, <3>6 DEF Tidy
    <3> QED
      BY <1>4, <3>4, <3>7 DEF RowsOK
  <2> QED
    BY <2>1, <2>2
<1> QED
  BY <1>2, <1>3, <1>5, <1>6, <1>7

\* A first row.
LEMMA FirstRow ==
    ASSUME TypeInv, NEW d \in Device, NEW k \in Message, rows[d][k] = <<>>,
           rows' = [rows EXCEPT ![d][k] = <<[st |-> 0, orig |-> TRUE]>>], index' = index,
           Crossing(d, k), \A x \in Device : held[x] \subseteq held'[x]
    PROVE  /\ rows' \in [Device -> [Message -> Seq(Row)]]
           /\ crossed' \in [Device -> SUBSET Message]
           /\ Grown /\ \A x \in Device : RowsOK(x)'
<1> DEFINE row == [st |-> 0, orig |-> TRUE]
           one == <<row>>
           R == [rows[d] EXCEPT ![k] = one]
<1>1. /\ rows \in [Device -> [Message -> Seq(Row)]] /\ rows[d] \in [Message -> Seq(Row)]
      /\ \A j \in Message \ crossed[d] : Len(rows[d][j]) <= 1
  BY DEF TypeInv, TypeOK, RowsOK
<1>2. row \in Row
  BY DEF Row, Rank
<1>3. rows' = [rows EXCEPT ![d] = R]
  OBVIOUS
<1> HIDE DEF row
<1>4. one \in Seq(Row) /\ Len(one) = 1
  BY <1>2
<1> HIDE DEF one
<1>5. R \in [Message -> Seq(Row)] /\ \A j \in Message : R[j] = IF j = k THEN one ELSE rows[d][j]
  BY <1>1, <1>4
<1> HIDE DEF R
<1>6. \A j \in Message : Len(rows[d][j]) \in Nat
  BY <1>1
<1>7. Len(rows[d][k]) = 0
  BY <1>1
<1>8. \A j \in Message : Len(rows[d][j]) <= Len(R[j])
  BY <1>4, <1>5, <1>6, <1>7
<1>9. \A j \in Message \ {k} : R[j] = rows[d][j]
  BY <1>5
<1>10. ASSUME NEW j \in Message \ crossed[d]
       PROVE  Len(R[j]) <= 1
  <2>1. CASE j = k
    <3>1. R[j] = one
      BY <1>5, <2>1
    <3>2. Len(R[j]) = 1
      BY <1>4, <3>1, Zenon
    <3> QED
      BY <3>2
  <2>2. CASE j # k
    BY <1>1, <1>9, <2>2
  <2> QED
    BY <2>1, <2>2
<1>11. crossed' = IF index[d] = None THEN crossed ELSE [crossed EXCEPT ![d] = @ \cup {k}]
  BY DEF Crossing
<1>12. {k} \in SUBSET Message
  OBVIOUS
<1> QED
  BY <1>3, <1>5, <1>8, <1>9, <1>10, <1>11, <1>12, RowsCross

\* The state of a row is set.
LEMMA RowMoved ==
    ASSUME TypeInv, NEW d \in Device, NEW k \in Message, NEW i \in DOMAIN rows[d][k],
           NEW st \in Rank, rows' = [rows EXCEPT ![d][k][i].st = st],
           UNCHANGED <<index, crossed, held>>
    PROVE  /\ rows' \in [Device -> [Message -> Seq(Row)]]
           /\ Grown /\ \A x \in Device : RowsOK(x)'
<1>1. /\ rows \in [Device -> [Message -> Seq(Row)]] /\ rows[d] \in [Message -> Seq(Row)]
      /\ rows[d][k] \in Seq(Row)
      /\ index \in [Device -> [Message -> Known] \cup {None}]
      /\ \A x \in Device : RowsOK(x)
  BY DEF TypeInv, TypeOK
<1> DEFINE row == [rows[d][k][i] EXCEPT !.st = st]
           new == [rows[d][k] EXCEPT ![i] = row]
           R == [rows[d] EXCEPT ![k] = new]
<1>2. rows' = [rows EXCEPT ![d] = R]
  OBVIOUS
<1>3. row \in Row
  <2>1. rows[d][k][i] \in Row
    BY <1>1
  <2> QED
    BY <2>1 DEF Row
<1> HIDE DEF row
<1>4. new \in Seq(Row) /\ Len(new) = Len(rows[d][k]) /\ DOMAIN new = DOMAIN rows[d][k]
  BY <1>1, <1>3
<1> HIDE DEF new
<1>5. R \in [Message -> Seq(Row)] /\ \A j \in Message : R[j] = IF j = k THEN new ELSE rows[d][j]
  BY <1>1, <1>4
<1> HIDE DEF R
<1>6. rows' \in [Device -> [Message -> Seq(Row)]]
  BY <1>1, <1>2, <1>5
<1>7. /\ \A x \in Device \ {d} : rows'[x] = rows[x]
      /\ rows'[d] = R
  BY <1>1, <1>2
<1>8. \A x \in Device, j \in Message :
         /\ Len(rows'[x][j]) = Len(rows[x][j]) /\ Len(rows[x][j]) \in Nat
         /\ DOMAIN rows'[x][j] = DOMAIN rows[x][j]
         /\ rows'[x][j] = <<>> <=> rows[x][j] = <<>>
  <2>1. ASSUME NEW x \in Device, NEW j \in Message
        PROVE  /\ Len(rows'[x][j]) = Len(rows[x][j]) /\ Len(rows[x][j]) \in Nat
               /\ DOMAIN rows'[x][j] = DOMAIN rows[x][j]
    BY <1>1, <1>4, <1>5, <1>7
  <2>2. ASSUME NEW x \in Device, NEW j \in Message
        PROVE  rows'[x][j] = <<>> <=> rows[x][j] = <<>>
    <3>1. rows'[x][j] \in Seq(Row) /\ rows[x][j] \in Seq(Row)
      BY <1>1, <1>6
    <3>2. /\ rows'[x][j] = <<>> <=> Len(rows'[x][j]) = 0
          /\ rows[x][j] = <<>> <=> Len(rows[x][j]) = 0
      BY <3>1, EmptySeq
    <3> QED
      BY <2>1, <3>2
  <2> QED
    BY <2>1, <2>2
<1>9. Grown
  BY <1>8 DEF Grown
<1>10. ASSUME NEW x \in Device
       PROVE  RowsOK(x)'
  <2>1. RowsOK(x) /\ index'[x] = index[x] /\ crossed'[x] = crossed[x]
        /\ rows'[x] \in [Message -> Seq(Row)]
    BY <1>1, <1>6
  <2>2. \A j \in Message \ crossed[x] : Len(rows'[x][j]) <= 1
    BY <1>8, <2>1 DEF RowsOK
  <2>3. ASSUME index[x] # None
        PROVE  LET n == [rows |-> rows'[x], ix |-> index[x]] IN
               n \in Indexed /\ Tidy(n, Message \ crossed[x])
    <3> DEFINE m == [rows |-> rows[x], ix |-> index[x]]
               n == [rows |-> rows'[x], ix |-> index[x]]
    <3>1. m \in Indexed /\ Tidy(m, Message \ crossed[x])
      BY <2>1, <2>3 DEF RowsOK
    <3>2. /\ index[x] \in [Message -> Known]
          /\ \A j \in Message : index[x][j] # None => index[x][j].pos \in DOMAIN rows[x][j]
          /\ \A j \in Message \ crossed[x] : index[x][j] = None <=> rows[x][j] = <<>>
      BY <3>1 DEF Indexed, Tidy
    <3>3. n \in Indexed
      BY <1>8, <2>1, <3>2 DEF Indexed
    <3>4. Tidy(n, Message \ crossed[x])
      BY <1>8, <2>2, <3>2 DEF Tidy
    <3> QED
      BY <3>3, <3>4
  <2> QED
    BY <2>1, <2>2, <2>3 DEF RowsOK
<1> QED
  BY <1>6, <1>9, <1>10

\* send_text: a first row, and a mirror to the approved siblings.
LEMMA SendTextStep ==
    ASSUME TypeInv, NEW d \in Device, NEW k \in Message, SendText(d, k)
    PROVE  Step(d)
<1> DEFINE item == [of |-> k, st |-> 0]
           rec == Rec("mirror", d, None, item)
<1>1. PICK S \in SUBSET Relay : Put(S, Approved(d), rec)
  BY DEF SendText
<1>2. item \in [of : Message, st : Rank] /\ item \in Item
  BY DEF Item, Rank
<1> HIDE DEF item
<1>3. rec \in Record /\ rec.kind = "mirror" /\ rec.from = d
  BY <1>2, RecTyped DEF Kind
<1> HIDE DEF rec
<1>4. boxes \in [Relay -> [Device -> Seq(Record)]]
  BY DEF TypeInv, TypeOK
<1>5. boxes' \in [Relay -> [Device -> Seq(Record)]]
  BY <1>1, <1>3, <1>4, PutEffect
<1>6. /\ UNCHANGED <<approvals, seen, consent, offered, revoked, transfers, incoming, job>>
      /\ UNCHANGED <<held, pending, index, batch, got, file>>
      /\ rows' = [rows EXCEPT ![d][k] = <<[st |-> 0, orig |-> TRUE]>>]
      /\ Crossing(d, k) /\ rows[d][k] = <<>>
  BY DEF SendText
<1>7. /\ rows' \in [Device -> [Message -> Seq(Row)]]
      /\ crossed' \in [Device -> SUBSET Message]
      /\ Grown /\ \A x \in Device : RowsOK(x)'
  BY <1>6, FirstRow
<1>8. TypeOK'
  BY <1>5, <1>6, <1>7 DEF TypeInv, TypeOK
<1>9. \A x \in Device : \A r \in InFlight(x)' :
         r \in InFlight(x) \/ (x \in Approved(d) /\ r = rec)
  BY <1>1, <1>3, <1>4, <1>6, PutFlight
<1>10. Quiet(d)
  BY <1>3, <1>6, <1>9 DEF Quiet
<1> QED
  BY <1>6, <1>7, <1>8, <1>10 DEF Step, Flow

\* A contact's message.
LEMMA ReceiveStep ==
    ASSUME TypeInv, NEW d \in Device, NEW k \in Message, Receive(d, k)
    PROVE  Step(d)
<1>1. /\ UNCHANGED <<approvals, seen, consent, offered, revoked, transfers, incoming, job>>
      /\ UNCHANGED <<pending, index, batch, got, file, boxes>>
      /\ held' = [held EXCEPT ![d] = @ \cup {Contact}]
      /\ rows' = [rows EXCEPT ![d][k] = <<[st |-> 0, orig |-> TRUE]>>]
      /\ Crossing(d, k) /\ rows[d][k] = <<>>
  BY DEF Receive
<1>2. /\ held' \in [Device -> SUBSET Thing] /\ \A x \in Device : held[x] \subseteq held'[x]
  <2>1. held \in [Device -> SUBSET Thing] /\ Contact \in Thing
    BY DEF TypeInv, TypeOK, Thing
  <2> QED
    BY <1>1, <2>1
<1>3. /\ rows' \in [Device -> [Message -> Seq(Row)]]
      /\ crossed' \in [Device -> SUBSET Message]
      /\ Grown /\ \A x \in Device : RowsOK(x)'
  BY <1>1, <1>2, FirstRow
<1>4. TypeOK'
  BY <1>1, <1>2, <1>3 DEF TypeInv, TypeOK
<1>5. \A x \in Device : InFlight(x)' = InFlight(x)
  BY <1>1 DEF InFlight
<1>6. Quiet(d)
  BY <1>1, <1>5 DEF Quiet
<1> QED
  BY <1>1, <1>3, <1>4, <1>6 DEF Step, Flow

\* A receipt.
LEMMA ReceiptStep ==
    ASSUME TypeInv, NEW d \in Device, NEW k \in Message, NEW st \in {Delivered, Read},
           Receipt(d, k, st)
    PROVE  Step(d)
<1>1. /\ UNCHANGED <<approvals, seen, consent, offered, revoked, transfers, incoming, job>>
      /\ UNCHANGED <<held, pending, index, batch, got, file, crossed>>
  BY DEF Receipt
<1>2. CASE Target(d, k) = {}
  <2>1. UNCHANGED <<rows, boxes>>
    BY <1>2 DEF Receipt
  <2>2. TypeOK'
    BY <1>1, <2>1 DEF TypeInv, TypeOK
  <2>3. Grown /\ \A x \in Device : RowsOK(x)'
    <3>1. \A x \in Device : index'[x] \in {index[x], None}
      BY <1>1
    <3> QED
      BY <1>1, <2>1, <3>1, RowsKept
  <2>4. \A x \in Device : InFlight(x)' = InFlight(x)
    BY <1>1, <2>1 DEF InFlight
  <2> QED
    BY <1>1, <2>2, <2>3, <2>4 DEF Step, Flow, Quiet
<1>3. CASE Target(d, k) # {}
  <2>1. MirrorState(d, k, st)
    BY <1>3 DEF Receipt
  <2>2. PICK i \in DOMAIN rows[d][k] : rows' = [rows EXCEPT ![d][k][i].st = st]
    BY <1>3 DEF Receipt, Target
  <2>3. st \in Rank
    BY DEF Delivered, Read, Rank
  <2>4. /\ boxes' \in [Relay -> [Device -> Seq(Record)]]
        /\ \A x \in Device : \A r \in InFlight(x)' :
              r \in InFlight(x) \/ (r.kind = "state" /\ r.from = d /\ x \in Approved(d))
    BY <1>1, <2>1, <2>3, StateMirrored
  <2>5. /\ rows' \in [Device -> [Message -> Seq(Row)]]
        /\ Grown /\ \A x \in Device : RowsOK(x)'
    BY <1>1, <2>2, <2>3, RowMoved
  <2>6. TypeOK'
    BY <1>1, <2>4, <2>5 DEF TypeInv, TypeOK
  <2> QED
    BY <1>1, <2>4, <2>5, <2>6 DEF Step, Flow, Quiet
<1> QED
  BY <1>2, <1>3

\* A mirrored state.
LEMMA HandleStateStep ==
    ASSUME TypeInv, NEW d \in Device, HandleState(d)
    PROVE  Step(d)
<1> DEFINE rec == Head(batch[d])
           item == rec.item
<1>1. /\ rec \in Record /\ rec.kind \in {"state"} /\ batch' \in [Device -> Seq(Record)]
      /\ \A x \in Device : InFlight(x)' \subseteq InFlight(x)
      /\ UNCHANGED <<job, got, boxes, file, offered, consent, revoked, transfers, live>>
  BY Taken DEF HandleState
<1>2. item.of \in Message /\ item.st \in Rank
  <2> HIDE DEF rec
  <2> QED
    BY <1>1, RecordFields
<1>3. /\ UNCHANGED <<held, approvals, pending, seen, incoming, index, crossed>>
      /\ \/ rows' = rows
         \/ \E i \in Target(d, item.of) : rows' = [rows EXCEPT ![d][item.of][i].st = item.st]
  BY DEF HandleState
<1> HIDE DEF rec
<1>4. /\ rows' \in [Device -> [Message -> Seq(Row)]]
      /\ Grown /\ \A x \in Device : RowsOK(x)'
  <2>1. CASE rows' = rows
    <3>1. \A x \in Device : index'[x] \in {index[x], None}
      BY <1>3
    <3> QED
      BY <1>3, <2>1, <3>1, RowsKept DEF TypeInv, TypeOK
  <2>2. CASE rows' # rows
    <3> DEFINE k == item.of
               st == item.st
    <3>1. PICK i \in DOMAIN rows[d][k] : rows' = [rows EXCEPT ![d][k][i].st = st]
      BY <1>3, <2>2 DEF Target
    <3>2. k \in Message /\ st \in Rank
      BY <1>2
    <3> HIDE DEF k, st
    <3> QED
      BY <1>3, <3>1, <3>2, RowMoved
  <2> QED
    BY <2>1, <2>2
<1>5. TypeOK'
  BY <1>1, <1>3, <1>4 DEF TypeInv, TypeOK
<1> QED
  BY <1>1, <1>3, <1>4, <1>5 DEF Step, Flow, Quiet

\* A mirrored message, merged against an index of its own.
LEMMA HandleMirrorStep ==
    ASSUME TypeInv, NEW d \in Device, HandleMirror(d)
    PROVE  Step(d)
<1> DEFINE rec == Head(batch[d])
           item == rec.item
<1>1. /\ rec \in Record /\ rec.kind \in {"mirror"} /\ batch' \in [Device -> Seq(Record)]
      /\ \A x \in Device : InFlight(x)' \subseteq InFlight(x)
      /\ UNCHANGED <<job, got, boxes, file, offered, consent, revoked, transfers, live>>
  BY Taken DEF HandleMirror
<1>2. item \in Item /\ item.of \in Message
  <2> HIDE DEF rec
  <2> QED
    BY <1>1, RecordFields
<1>3. /\ UNCHANGED <<approvals, pending, seen, incoming, index>>
      /\ held' = [held EXCEPT ![d] = @ \cup {Contact}]
      /\ Crossing(d, item.of)
  BY DEF HandleMirror
<1>4. PICK ix \in MessageIndexes(d) :
        rows' = [rows EXCEPT ![d] = Merge([rows |-> rows[d], ix |-> ix], item, TRUE).rows]
  BY DEF HandleMirror
<1> HIDE DEF item
<1> DEFINE m == [rows |-> rows[d], ix |-> ix]
           n == Merge(m, item, TRUE)
           C == {item.of}
           K == Message \ crossed[d]
<1>5. rows \in [Device -> [Message -> Seq(Row)]] /\ \A k \in K : Len(rows[d][k]) <= 1
  BY DEF TypeInv, TypeOK, RowsOK
<1>6. m \in Indexed /\ \A k \in Message : ix[k] = None <=> rows[d][k] = <<>>
  BY <1>5, IndexRead
<1>7. Tidy(m, K)
  BY <1>5, <1>6 DEF Tidy
<1>8. m.rows = rows[d] /\ rows' = [rows EXCEPT ![d] = n.rows]
  BY <1>4
<1> HIDE DEF m
<1>9. /\ n \in Indexed /\ Keeps(m, n)
      /\ \A k \in Message \ {item.of} : n.rows[k] = m.rows[k]
      /\ Tidy(m, K) => Tidy(n, K)
  BY <1>2, <1>6, Merged
<1> HIDE DEF n
<1>10. n.rows \in [Message -> Seq(Row)] /\ \A k \in K : Len(n.rows[k]) <= 1
  BY <1>7, <1>9 DEF Indexed, Tidy
<1> DEFINE R == n.rows
<1>11. /\ \A k \in Message : Len(rows[d][k]) <= Len(R[k])
       /\ \A k \in Message \ C : R[k] = rows[d][k]
  BY <1>8, <1>9 DEF Keeps
<1>12. /\ held' \in [Device -> SUBSET Thing] /\ \A x \in Device : held[x] \subseteq held'[x]
  <2>1. held \in [Device -> SUBSET Thing] /\ Contact \in Thing
    BY DEF TypeInv, TypeOK, Thing
  <2> QED
    BY <1>3, <2>1
<1>13. crossed' = IF index[d] = None THEN crossed ELSE [crossed EXCEPT ![d] = @ \cup C]
  BY <1>3 DEF Crossing
<1>14. /\ C \in SUBSET Message /\ R \in [Message -> Seq(Row)] /\ rows' = [rows EXCEPT ![d] = R]
       /\ \A k \in Message \ crossed[d] : Len(R[k]) <= 1
       /\ index' = index
  BY <1>2, <1>3, <1>8, <1>10
<1> HIDE DEF R, C
<1>15. /\ rows' \in [Device -> [Message -> Seq(Row)]]
       /\ crossed' \in [Device -> SUBSET Message]
       /\ Grown /\ \A x \in Device : RowsOK(x)'
  BY <1>3, <1>11, <1>12, <1>13, <1>14, RowsCross
<1>16. TypeOK'
  BY <1>1, <1>3, <1>12, <1>15 DEF TypeInv, TypeOK
<1> QED
  BY <1>1, <1>3, <1>15, <1>16 DEF Step, Flow, Quiet

\* import_history, merged against an index of its own.
LEMMA ImportStep ==
    ASSUME TypeInv, NEW d \in Device, ImportHistory(d)
    PROVE  Step(d)
<1> DEFINE of == {item.of : item \in Range(file)}
<1>1. /\ UNCHANGED <<approvals, pending, seen, incoming, index, job, batch, got, boxes,
                     offered, consent, revoked, counters>>
      /\ file # None /\ file' = None
      /\ held' = [held EXCEPT ![d] = @ \cup (of \cap Thing)]
      /\ crossed' = IF index[d] = None THEN crossed
                    ELSE [crossed EXCEPT ![d] = @ \cup (of \cap Message)]
  BY DEF ImportHistory
<1>2. PICK ix \in MessageIndexes(d) :
        rows' = [rows EXCEPT ![d] = MergeAll([rows |-> rows[d], ix |-> ix], file).rows]
  BY DEF ImportHistory
<1> DEFINE m == [rows |-> rows[d], ix |-> ix]
           n == MergeAll(m, file)
           C == of \cap Message
           K == Message \ crossed[d]
<1>3. /\ rows \in [Device -> [Message -> Seq(Row)]] /\ \A k \in K : Len(rows[d][k]) <= 1
      /\ file \in Seq(Item)
  BY <1>1 DEF TypeInv, TypeOK, RowsOK
<1>4. m \in Indexed /\ \A k \in Message : ix[k] = None <=> rows[d][k] = <<>>
  BY <1>3, IndexRead
<1>5. Tidy(m, K)
  BY <1>3, <1>4 DEF Tidy
<1>6. m.rows = rows[d] /\ rows' = [rows EXCEPT ![d] = n.rows]
  BY <1>2
<1> HIDE DEF m
<1>7. /\ n \in Indexed /\ Keeps(m, n)
      /\ \A k \in Message : (\A i \in DOMAIN file : file[i].of # k) => n.rows[k] = m.rows[k]
      /\ Tidy(m, K) => Tidy(n, K)
  BY <1>3, <1>4, MergedAll
<1> HIDE DEF n
<1>8. n.rows \in [Message -> Seq(Row)] /\ \A k \in K : Len(n.rows[k]) <= 1
  BY <1>5, <1>7 DEF Indexed, Tidy
<1> DEFINE R == n.rows
<1>9. \A k \in Message : Len(rows[d][k]) <= Len(R[k])
  BY <1>6, <1>7 DEF Keeps
<1>10. ASSUME NEW k \in Message \ C
       PROVE  R[k] = rows[d][k]
  <2>1. \A i \in DOMAIN file : file[i].of # k
    BY DEF Range
  <2> QED
    BY <1>6, <1>7, <2>1
<1>11. /\ held' \in [Device -> SUBSET Thing] /\ \A x \in Device : held[x] \subseteq held'[x]
  <2> HIDE DEF of
  <2>1. held \in [Device -> SUBSET Thing]
    BY DEF TypeInv, TypeOK
  <2> QED
    BY <1>1, <2>1
<1>12. /\ C \in SUBSET Message /\ R \in [Message -> Seq(Row)] /\ rows' = [rows EXCEPT ![d] = R]
       /\ \A k \in Message \ crossed[d] : Len(R[k]) <= 1
       /\ crossed' = IF index[d] = None THEN crossed ELSE [crossed EXCEPT ![d] = @ \cup C]
  BY <1>1, <1>6, <1>8
<1> HIDE DEF R, C
<1>13. /\ rows' \in [Device -> [Message -> Seq(Row)]]
       /\ crossed' \in [Device -> SUBSET Message]
       /\ Grown /\ \A x \in Device : RowsOK(x)'
  BY <1>1, <1>9, <1>10, <1>11, <1>12, RowsCross
<1>14. TypeOK'
  BY <1>1, <1>11, <1>13 DEF TypeInv, TypeOK, counters
<1>15. \A x \in Device : InFlight(x)' = InFlight(x)
  BY <1>1 DEF InFlight
<1> QED
  BY <1>1, <1>13, <1>14, <1>15 DEF Step, Flow, Quiet, counters

\* _apply_item: what the item brings is there, and the index stays right.
LEMMA HandleItemStep ==
    ASSUME TypeInv, NEW d \in Device, HandleItem(d)
    PROVE  Step(d)
<1> DEFINE rec == Head(batch[d])
<1>1. /\ rec \in Record /\ rec \in InFlight(d) /\ rec.kind \in {"item"}
      /\ batch' \in [Device -> Seq(Record)]
      /\ \A x \in Device : InFlight(x)' \subseteq InFlight(x)
      /\ UNCHANGED <<job, got, boxes, file, offered, consent, revoked, transfers, live>>
  BY Taken DEF HandleItem
<1> DEFINE in == incoming[d][rec.from]
           chain == Extend(in.chain, rec)
           new == [in EXCEPT !.transfer = rec.transfer, !.done = FALSE,
                             !.received = @ + 1, !.chain = chain]
           item == rec.item
<1>2. /\ UNCHANGED <<approvals, pending, seen, crossed>>
      /\ incoming' = [incoming EXCEPT ![d][rec.from] = new]
      /\ IF item.of \in Thing
         THEN /\ held' = [held EXCEPT ![d] = @ \cup {item.of}]
              /\ UNCHANGED <<rows, index>>
         ELSE /\ \E ix \in IF index[d] = None THEN MessageIndexes(d) ELSE {index[d]} :
                    LET m == Merge([rows |-> rows[d], ix |-> ix], item, FALSE) IN
                    /\ rows' = [rows EXCEPT ![d] = m.rows]
                    /\ index' = [index EXCEPT ![d] = m.ix]
              /\ UNCHANGED held
  BY DEF HandleItem
<1> HIDE DEF rec
<1>3. /\ rec.from \in Device /\ rec.count \in Nat /\ rec.transfer \in Transfer \cup {None}
      /\ item \in Item
  BY <1>1, RecordFields
<1>4. incoming \in [Device -> [Device -> IncomingRec]]
  BY DEF TypeInv, TypeOK, IncomingRec
<1>5. in \in IncomingRec
  BY <1>3, <1>4
<1>6. chain \in Digest
  <2>1. in.chain \in Digest
    BY <1>5 DEF IncomingRec
  <2> HIDE DEF in
  <2>2. /\ in.chain.seed \in Transfer \cup {None} /\ in.chain.items \in Seq(Link)
        /\ [seq |-> rec.count, item |-> item] \in Link
    BY <1>3, <2>1 DEF Digest, Link
  <2>3. Append(in.chain.items, [seq |-> rec.count, item |-> item]) \in Seq(Link)
    BY <2>2, AppendProperties
  <2> QED
    BY <1>3, <2>2, <2>3 DEF Extend, Digest
<1> HIDE DEF in, chain
<1>7. new \in IncomingRec /\ ~new.done /\ new.chain = chain
  <2> DEFINE moved == [in EXCEPT !.transfer = rec.transfer]
             going == [moved EXCEPT !.done = FALSE]
             counted == [going EXCEPT !.received = in.received + 1]
  <2>1. moved \in IncomingRec
    BY <1>3, <1>5 DEF IncomingRec
  <2>2. new = [counted EXCEPT !.chain = chain] /\ in.received + 1 \in Nat
    BY <1>5 DEF IncomingRec
  <2> HIDE DEF new, moved
  <2>3. going \in IncomingRec /\ ~going.done
    BY <2>1 DEF IncomingRec
  <2> HIDE DEF going
  <2>4. counted \in IncomingRec /\ ~counted.done
    BY <2>2, <2>3 DEF IncomingRec
  <2> HIDE DEF counted
  <2> QED
    BY <1>6, <2>2, <2>4 DEF IncomingRec
<1> HIDE DEF new
<1>8. incoming' \in [Device -> [Device -> IncomingRec]]
  BY <1>2, <1>3, <1>4, <1>7
<1>9. /\ rows \in [Device -> [Message -> Seq(Row)]] /\ held \in [Device -> SUBSET Thing]
      /\ index \in [Device -> [Message -> Known] \cup {None}]
      /\ \A x \in Device : RowsOK(x)
  BY DEF TypeInv, TypeOK
<1> HIDE DEF item
<1>10. /\ rows' \in [Device -> [Message -> Seq(Row)]] /\ held' \in [Device -> SUBSET Thing]
       /\ index' \in [Device -> [Message -> Known] \cup {None}]
       /\ Grown /\ \A x \in Device : RowsOK(x)'
       /\ IF item.of \in Thing THEN item.of \in held'[d] ELSE rows'[d][item.of] # <<>>
  <2>1. CASE item.of \in Thing
    <3>1. /\ held' = [held EXCEPT ![d] = @ \cup {item.of}] /\ UNCHANGED <<rows, index, crossed>>
      BY <1>2, <2>1
    <3>2. held' \in [Device -> SUBSET Thing] /\ item.of \in held'[d]
      BY <1>9, <2>1, <3>1
    <3>3. \A x \in Device : held[x] \subseteq held'[x]
      BY <1>9, <3>1
    <3>4. \A x \in Device, k \in Message : Len(rows[x][k]) \in Nat
      BY <1>9
    <3>5. Grown
      BY <3>1, <3>3, <3>4 DEF Grown
    <3>6. ASSUME NEW x \in Device
          PROVE  RowsOK(x)'
      BY <1>9, <3>1 DEF RowsOK
    <3> QED
      BY <1>9, <2>1, <3>1, <3>2, <3>5, <3>6
  <2>2. CASE item.of \notin Thing
    <3>1. item.of \in Message
      BY <1>3, <2>2 DEF Item
    <3>2. PICK ix \in IF index[d] = None THEN MessageIndexes(d) ELSE {index[d]} :
            LET m == Merge([rows |-> rows[d], ix |-> ix], item, FALSE) IN
            /\ rows' = [rows EXCEPT ![d] = m.rows]
            /\ index' = [index EXCEPT ![d] = m.ix]
      BY <1>2, <2>2
    <3>3. UNCHANGED <<held, crossed>>
      BY <1>2, <2>2
    <3> DEFINE m == [rows |-> rows[d], ix |-> ix]
               n == Merge(m, item, FALSE)
               K == Message \ crossed[d]
    <3>4. m \in Indexed /\ Tidy(m, K)
      <4>1. \A k \in K : Len(rows[d][k]) <= 1
        BY <1>9 DEF RowsOK
      <4>2. CASE index[d] = None
        <5>1. m \in Indexed /\ \A k \in Message : ix[k] = None <=> rows[d][k] = <<>>
          BY <1>9, <3>2, <4>2, IndexRead
        <5> QED
          BY <4>1, <5>1 DEF Tidy
      <4>3. CASE index[d] # None
        BY <1>9, <3>2, <4>3 DEF RowsOK
      <4> QED
        BY <4>2, <4>3
    <3>5. /\ m.rows = rows[d] /\ rows' = [rows EXCEPT ![d] = n.rows]
          /\ index' = [index EXCEPT ![d] = n.ix]
      BY <3>2
    <3> HIDE DEF m
    <3>6. /\ n \in Indexed /\ Keeps(m, n) /\ n.rows[item.of] # <<>>
          /\ Tidy(m, K) => Tidy(n, K)
      BY <1>3, <3>1, <3>4, Merged
    <3> HIDE DEF n
    <3>7. /\ n.rows \in [Message -> Seq(Row)] /\ n.ix \in [Message -> Known]
          /\ n = [rows |-> n.rows, ix |-> n.ix]
      BY <3>6 DEF Indexed
    <3>8. /\ rows' \in [Device -> [Message -> Seq(Row)]]
          /\ rows'[d] = n.rows /\ \A x \in Device \ {d} : rows'[x] = rows[x]
      BY <1>9, <3>5, <3>7
    <3>9. /\ index' \in [Device -> [Message -> Known] \cup {None}]
          /\ index'[d] = n.ix /\ \A x \in Device \ {d} : index'[x] = index[x]
      BY <1>9, <3>5, <3>7
    <3>10. Grown
      <4>1. \A k \in Message : Len(rows[d][k]) <= Len(rows'[d][k])
        BY <3>5, <3>6, <3>8 DEF Keeps
      <4>2. \A x \in Device, k \in Message : Len(rows[x][k]) \in Nat
        BY <1>9
      <4> QED
        BY <3>3, <3>8, <4>1, <4>2 DEF Grown
    <3>11. ASSUME NEW x \in Device \ {d}
           PROVE  RowsOK(x)'
      <4>1. RowsOK(x) /\ rows'[x] = rows[x] /\ crossed'[x] = crossed[x] /\ index'[x] = index[x]
        BY <1>9, <3>3, <3>8, <3>9
      <4> QED
        BY <4>1 DEF RowsOK
    <3>12. RowsOK(d)'
      <4>1. Tidy(n, K) /\ \A k \in K : Len(n.rows[k]) <= 1
        BY <3>4, <3>6 DEF Tidy
      <4>2. [rows |-> rows'[d], ix |-> index'[d]] = n /\ crossed'[d] = crossed[d]
        BY <3>3, <3>7, <3>8, <3>9
      <4> QED
        BY <3>6, <3>8, <4>1, <4>2 DEF RowsOK
    <3> QED
      BY <1>9, <2>2, <3>3, <3>6, <3>8, <3>9, <3>10, <3>11, <3>12
  <2> QED
    BY <2>1, <2>2
<1>11. TypeOK'
  BY <1>1, <1>2, <1>8, <1>10 DEF TypeInv, TypeOK, IncomingRec
<1>12. Quiet(d)
  BY <1>1, <1>2 DEF Quiet
<1>13. Progress(d)
  <2>1. /\ \A x, y \in Device : x # d \/ y # rec.from => incoming'[x][y] = incoming[x][y]
        /\ incoming'[d][rec.from] = new
    BY <1>2, <1>3, <1>4
  <2>2. /\ ~incoming'[d][rec.from].done
        /\ incoming'[d][rec.from].chain = Extend(incoming[d][rec.from].chain, rec)
    BY <1>7, <2>1 DEF chain, in
  <2>3. PICK r \in InFlight(d) : r = rec
    BY <1>1
  <2>4. Has(d, r.item)'
    BY <1>10, <2>3 DEF Has, item
  <2> QED
    BY <1>1, <2>1, <2>2, <2>3, <2>4 DEF Progress
<1> QED
  BY <1>10, <1>11, <1>12, <1>13 DEF Step, Flow

-----------------------------------------------------------------------------
(* Every step, and the type.                                               *)

LEMMA EveryStep ==
    ASSUME TypeInv, Next
    PROVE  \E d \in Device : Step(d)
<1>1. PICK d \in Device : \/ Command(d) \/ Traffic(d) \/ Sync(d)
                          \/ Crash(d) \/ EndsInApproval(d)
  BY DEF Next
<1>2. CASE Command(d)
  BY <1>2, RequestStep, SendApprovalStep, MarkApprovedStep, SendHistoryStep, ForgetStep,
     ExportStep, ImportStep, ApproveStep, DenyStep, RevokeStep DEF Command
<1>3. CASE Traffic(d)
  BY <1>3, SendTextStep, ReceiveStep, MarkReadStep, ReceiptStep DEF Traffic
<1>4. CASE Sync(d)
  BY <1>4, FetchStep, AckStep, UnhandledStep, HandleRequestStep, HandleApprovalStep,
     HandleOfferStep, HandleItemStep, HandleCompleteStep, HandleMirrorStep,
     HandleStateStep DEF Sync
<1>5. CASE Crash(d) \/ EndsInApproval(d)
  BY <1>5, CrashStep
<1> QED
  BY <1>1, <1>2, <1>3, <1>4, <1>5

LEMMA TypeInit ==
    ASSUME Init
    PROVE  TypeInv
<1>1. \A d \in Device : index[d] = None /\ \A k \in Message : Len(rows[d][k]) <= 1
  BY DEF Init
<1>2. \A d \in Device : RowsOK(d)
  BY <1>1 DEF RowsOK
<1>3. PICK d \in Device : held = [e \in Device |-> IF e = d THEN Thing ELSE {}]
  BY DEF Init
<1>4. held \in [Device -> SUBSET Thing]
  BY <1>3
<1>5. NoTransfer \in IncomingRec
  BY DEF NoTransfer, IncomingRec, NoDigest, Digest
<1>6. incoming \in [Device -> [Device -> IncomingRec]]
  BY <1>5 DEF Init
<1>7. /\ rows \in [Device -> [Message -> Seq(Row)]]
      /\ boxes \in [Relay -> [Device -> Seq(Record)]]
  BY DEF Init
<1>8. /\ approvals \in [Device -> [Device -> Transfer \cup {None}]]
      /\ pending \in [Device -> SUBSET Device] /\ seen \in [Device -> SUBSET Transfer]
      /\ index \in [Device -> [Message -> Known] \cup {None}]
      /\ job \in [Device -> Job \cup {None}] /\ batch \in [Device -> Seq(Record)]
  BY DEF Init
<1>9. /\ got \in [Device -> [Relay -> Nat]] /\ file \in Seq(Item) \cup {None}
      /\ offered \in [Transfer -> SUBSET Item] /\ consent \subseteq Device \X Device
      /\ revoked \in [Device -> SUBSET Transfer] /\ crossed \in [Device -> SUBSET Message]
      /\ transfers \in 0 .. MaxTransfers
  BY DeviceSyncAssumption DEF Init
<1> QED
  BY <1>2, <1>4, <1>6, <1>7, <1>8, <1>9 DEF TypeInv, TypeOK, IncomingRec

\* A step that changes nothing.
LEMMA Stutter ==
    ASSUME UNCHANGED vars
    PROVE  /\ TypeInv => TypeInv'
           /\ ConsentInv => ConsentInv'
           /\ GrantInv => GrantInv'
           /\ TransferInv => TransferInv'
<1> USE DEF vars, stored, counters
<1>1. TypeInv => TypeInv'
  BY DEF TypeInv, TypeOK, RowsOK
<1>2. \A x \in Device : InFlight(x)' = InFlight(x)
  BY DEF InFlight
<1>3. ConsentInv => ConsentInv'
  BY <1>2 DEF ConsentInv, ConsentRequired
<1>4. GrantInv => GrantInv'
  BY <1>2 DEF GrantInv, RevokedStaysRevoked, Drawn, OneGrant, FreshRecords, FreshJobs, FreshJob,
           Unused
<1>5. TransferInv => TransferInv'
  <2>1. \A rec : Ends(rec) <=> Ends(rec)'
    BY DEF Ends, Covers
  <2>2. \A x \in Device : \A item : Has(x, item) <=> Has(x, item)'
    BY DEF Has
  <2>3. \A chain, t : Covers(chain, t) <=> Covers(chain, t)'
    BY DEF Covers
  <2> QED
    BY <1>2, <2>1, <2>2, <2>3 DEF TransferInv
<1> QED
  BY <1>1, <1>3, <1>4, <1>5

\* Every device, record, transfer and approval under way keeps its type, whatever put
\* fails and whenever a process ends (core/sync.py, core/history.py).
THEOREM TypeCorrect == Spec => []TypeOK
<1>1. Init => TypeInv
  BY TypeInit
<1>2. TypeInv /\ [Next]_vars => TypeInv'
  <2>1. TypeInv /\ Next => TypeInv'
    BY EveryStep DEF Step, TypeInv
  <2> QED
    BY <2>1, Stutter
<1>3. TypeInv => TypeOK
  BY DEF TypeInv
<1> QED
  BY <1>1, <1>2, <1>3, PTL DEF Spec

\* merge_messages and the cached index: a message has one row on each device, however
\* many transfers, files, mirrors and copies bring it, unless it came by another way
\* while the index of a transfer was cached.
THEOREM OneRow == Spec => []OneRowEach
<1>1. Init => TypeInv
  BY TypeInit
<1>2. TypeInv /\ [Next]_vars => TypeInv'
  <2>1. TypeInv /\ Next => TypeInv'
    BY EveryStep DEF Step, TypeInv
  <2> QED
    BY <2>1, Stutter
<1>3. TypeInv => OneRowEach
  BY DEF TypeInv, RowsOK, OneRowEach
<1> QED
  BY <1>1, <1>2, <1>3, PTL DEF Spec

-----------------------------------------------------------------------------
(* Consent.                                                                *)

LEMMA ConsentInit ==
    ASSUME Init
    PROVE  ConsentInv
<1>1. \A x \in Device : InFlight(x) = {}
  BY DEF Init, InFlight, Range
<1>2. \A x, y \in Device : approvals[x][y] = None /\ job[x] = None
  BY DEF Init
<1> QED
  BY <1>1, <1>2 DEF ConsentInv, ConsentRequired

\* What is in flight or under way goes where a human said, before and after every step.
LEMMA ConsentStep ==
    ASSUME TypeInv, ConsentInv, NEW d \in Device, Flow(d), TypeOK'
    PROVE  ConsentInv'
<1>1. /\ \A x \in Device : \A rec \in InFlight(x) :
            rec.kind \in {"offer", "item", "complete"} => <<rec.from, x>> \in consent
      /\ \A x \in Device : job[x] # None =>
            /\ <<x, job[x].to>> \in consent
            /\ \A rec \in Range(job[x].todo) :
                  rec.from = x /\ rec.kind \in {"offer", "item", "complete"}
  BY DEF ConsentInv, ConsentRequired
<1> SUFFICES
      /\ \A x \in Device : \A rec \in InFlight(x)' :
            rec.kind \in {"offer", "item", "complete"} => <<rec.from, x>> \in consent'
      /\ \A x \in Device : job'[x] # None =>
            /\ <<x, job'[x].to>> \in consent'
            /\ \A rec \in Range(job'[x].todo) :
                  rec.from = x /\ rec.kind \in {"offer", "item", "complete"}
  BY DEF ConsentInv, ConsentRequired
<1>2. CASE Quiet(d)
  BY <1>1, <1>2 DEF Quiet
<1>3. CASE Approves(d)
  BY <1>1, <1>3 DEF Approves, Advances
<1>4. CASE Marks(d)
  <2>1. \A x \in Device : InFlight(x)' = InFlight(x)
    BY <1>4 DEF Marks, InFlight
  <2> QED
    BY <1>1, <1>4, <2>1 DEF Marks, Advances
<1>5. CASE Streams(d)
  BY <1>1, <1>5 DEF Streams, Advances
<1>6. CASE Accepts(d)
  BY <1>1, <1>6 DEF Accepts
<1>7. ASSUME NEW e \in Device, Begins(d, e)
      PROVE  /\ \A x \in Device : \A rec \in InFlight(x)' :
                  rec.kind \in {"offer", "item", "complete"} => <<rec.from, x>> \in consent'
             /\ \A x \in Device : job'[x] # None =>
                  /\ <<x, job'[x].to>> \in consent'
                  /\ \A rec \in Range(job'[x].todo) :
                        rec.from = x /\ rec.kind \in {"offer", "item", "complete"}
  <2>1. \A x \in Device : InFlight(x)' = InFlight(x)
    BY <1>7 DEF Begins, InFlight
  <2>2. consent \subseteq consent' /\ <<d, e>> \in consent'
    BY <1>7 DEF Begins
  <2>3. /\ \A x \in Device \ {d} : job'[x] = job[x]
        /\ job'[d].to = e
        /\ \A rec \in Range(job'[d].todo) :
              rec.from = d /\ rec.kind \in {"offer", "item", "complete"}
    BY <1>7 DEF Begins
  <2> QED
    BY <1>1, <2>1, <2>2, <2>3
<1>8. ASSUME NEW e \in Device, Revokes(d, e)
      PROVE  /\ \A x \in Device : InFlight(x)' = InFlight(x)
             /\ UNCHANGED <<consent, job>>
  BY <1>8 DEF Revokes, InFlight
<1> QED
  BY <1>1, <1>2, <1>3, <1>4, <1>5, <1>6, <1>7, <1>8 DEF Flow

\* approve_device and send_history: no history leaves a device for one that a human on it
\* did not approve.
THEOREM ConsentGiven == Spec => []ConsentRequired
<1>1. Init => TypeInv /\ ConsentInv
  BY TypeInit, ConsentInit
<1>2. TypeInv /\ ConsentInv /\ [Next]_vars => (TypeInv /\ ConsentInv)'
  <2>1. TypeInv /\ ConsentInv /\ Next => (TypeInv /\ ConsentInv)'
    BY EveryStep, ConsentStep DEF Step, TypeInv
  <2> QED
    BY <2>1, Stutter
<1>3. ConsentInv => ConsentRequired
  BY DEF ConsentInv
<1> QED
  BY <1>1, <1>2, <1>3, PTL DEF Spec

-----------------------------------------------------------------------------
(* Withdrawn approvals.                                                    *)

LEMMA GrantInit ==
    ASSUME Init
    PROVE  GrantInv
<1>1. \A x \in Device : InFlight(x) = {}
  BY DEF Init, InFlight, Range
<1>2. \A x, y \in Device : approvals[x][y] = None /\ job[x] = None /\ revoked[x] = {}
  BY DEF Init
<1> QED
  BY <1>1, <1>2 DEF GrantInv, RevokedStaysRevoked, Drawn, OneGrant, FreshRecords, FreshJobs

\* A step that leaves the approvals alone and puts no APPROVAL in flight.
LEMMA GrantQuiet ==
    ASSUME TypeInv, GrantInv, UNCHANGED <<approvals, revoked, transfers>>,
           \A x \in Device : seen[x] \subseteq seen'[x],
           \A x \in Device : \A rec \in InFlight(x)' :
              rec.kind = "approval" => rec \in InFlight(x),
           \A x \in Device : job'[x] # None =>
              /\ job[x] # None /\ job'[x].to = job[x].to /\ job'[x].transfer = job[x].transfer
              /\ job'[x].step = job[x].step
    PROVE  GrantInv'
<1>1. RevokedStaysRevoked' /\ Drawn' /\ OneGrant'
  BY DEF GrantInv, RevokedStaysRevoked, Drawn, OneGrant
<1>2. \A x \in Device : \A t : Unused(x, t)' <=> Unused(x, t)
  BY DEF Unused
<1>3. FreshRecords'
  BY DEF GrantInv, FreshRecords, Unused
<1>4. FreshJobs'
  BY DEF GrantInv, FreshJobs, FreshJob, Unused
<1> QED
  BY <1>1, <1>3, <1>4 DEF GrantInv

\* A new transfer id is used nowhere.
LEMMA GrantBegins ==
    ASSUME TypeInv, GrantInv, NEW d \in Device, NEW e \in Device, Begins(d, e)
    PROVE  GrantInv'
<1> DEFINE t == transfers + 1
<1>1. /\ transfers' = t /\ t \in Transfer /\ transfers \in Nat /\ t \in Nat
      /\ UNCHANGED <<approvals, seen, revoked>>
      /\ \A x \in Device \ {d} : job'[x] = job[x]
      /\ job'[d].to = e /\ job'[d].transfer = t /\ job'[d].step = "approval" /\ e # d
  BY DEF Begins, TypeInv, TypeOK
<1>2. \A x \in Device : InFlight(x)' = InFlight(x)
  BY DEF Begins, InFlight
<1>3. /\ \A x \in Device : revoked[x] \subseteq Nat
      /\ \A x, y \in Device : approvals[x][y] # None => approvals[x][y] \in Nat
      /\ \A x \in Device : job[x] # None => job[x].transfer \in Nat
  <2>1. Transfer \subseteq Nat
    BY DEF Transfer
  <2>2. /\ revoked \in [Device -> SUBSET Transfer] /\ job \in [Device -> Job \cup {None}]
        /\ approvals \in [Device -> [Device -> Transfer \cup {None}]]
    BY DEF TypeInv, TypeOK
  <2> QED
    BY <2>1, <2>2 DEF Job
<1>4. \A x \in Device : Unused(x, t)
  <2>1. \A x \in Device : t \notin revoked[x]
    BY <1>1, <1>3 DEF GrantInv, Drawn
  <2>2. \A x, y \in Device : approvals[x][y] # t
    BY <1>1, <1>3, DeviceSyncAssumption DEF GrantInv, Drawn
  <2> QED
    BY <2>1, <2>2 DEF Unused
<1>5. \A x \in Device : \A rec \in InFlight(x) : rec.kind = "approval" => rec.transfer # t
  BY <1>1 DEF GrantInv, FreshRecords
<1>6. ASSUME NEW x \in Device, job[x] # None
      PROVE  job[x].transfer # t /\ job[x].transfer <= t
  <2>1. job[x].transfer \in Transfer
    BY <1>6 DEF TypeInv, TypeOK, Job
  <2>2. job[x].transfer <= transfers /\ job[x].transfer \in Nat
    BY <1>3, <1>6, <2>1 DEF GrantInv, FreshJobs, FreshJob
  <2> QED
    BY <1>1, <2>2
<1>7. RevokedStaysRevoked' /\ OneGrant'
  BY <1>1 DEF GrantInv, RevokedStaysRevoked, OneGrant
<1>8. Drawn'
  BY <1>1, <1>3 DEF GrantInv, Drawn
<1>9. FreshRecords'
  <2>1. \A u \in 1 .. transfers : u \in 1 .. t
    BY <1>1
  <2> HIDE DEF t
  <2> QED
    BY <1>1, <1>2, <2>1 DEF GrantInv, FreshRecords, Unused
<1>10. t <= t
  BY <1>1
<1> HIDE DEF t
<1>11. FreshJobs'
  <2> SUFFICES ASSUME NEW x \in Device, NEW u \in Transfer, job'[x] # None,
                      job'[x].transfer = u
               PROVE  FreshJob(x, u)'
    BY DEF FreshJobs
  <2>1. CASE x = d
    <3>1. u = t
      BY <1>1, <2>1
    <3>2. /\ u <= transfers' /\ job'[x].to # x
          /\ \A y \in Device \ {x} : job'[y] # None => job'[y].transfer # u
          /\ \A y \in Device : \A rec \in InFlight(y)' : rec.kind = "approval" => rec.transfer # u
      BY <1>1, <1>2, <1>5, <1>6, <1>10, <2>1, <3>1
    <3>3. \A y \in Device : Unused(y, u)'
      BY <1>1, <1>4, <3>1 DEF Unused
    <3> QED
      BY <3>2, <3>3 DEF FreshJob
  <2>2. CASE x # d
    <3>1. job[x] # None /\ job[x].transfer = u /\ job'[x] = job[x] /\ u # t /\ u <= t
      BY <1>1, <1>6, <2>2
    <3>2. FreshJob(x, u)
      BY <3>1 DEF GrantInv, FreshJobs
    <3>3. \A y \in Device : Unused(y, u) => Unused(y, u)'
      BY <1>1 DEF Unused
    <3>4. \A y \in Device \ {x} : job'[y] # None => job'[y].transfer # u
      BY <1>1, <3>1, <3>2 DEF FreshJob
    <3> QED
      BY <1>1, <1>2, <3>1, <3>2, <3>3, <3>4 DEF FreshJob
  <2> QED
    BY <2>1, <2>2
<1> QED
  BY <1>7, <1>8, <1>9, <1>11 DEF GrantInv

\* The APPROVAL goes out: its id has granted nothing yet.
LEMMA GrantApproves ==
    ASSUME TypeInv, GrantInv, NEW d \in Device, Approves(d)
    PROVE  GrantInv'
<1>1. PICK t : t = job[d].transfer
  OBVIOUS
<1>2. PICK to : to = job[d].to
  OBVIOUS
<1>3. /\ UNCHANGED <<approvals, seen, revoked, transfers>>
      /\ \A x \in Device \ {d} : job'[x] = job[x]
      /\ job[d] # None /\ job[d].step = "approval"
      /\ job'[d].to = to /\ job'[d].transfer = t /\ job'[d].step = "mark"
      /\ \A x \in Device : \A rec \in InFlight(x)' :
            rec \in InFlight(x) \/ (x = to /\ rec.transfer = t)
  BY <1>1, <1>2 DEF Approves, Advances
<1>4. t \in Transfer /\ transfers \in Nat
  BY <1>1, <1>3 DEF TypeInv, TypeOK, Job
<1>5. FreshJob(d, t)
  BY <1>1, <1>3, <1>4 DEF GrantInv, FreshJobs
<1>6. \A x \in Device : Unused(x, t)
  BY <1>3, <1>5 DEF FreshJob
<1>7. t \in 1 .. transfers
  <2>1. t <= transfers /\ t \in Nat /\ 1 <= t
    BY <1>4, <1>5 DEF FreshJob, Transfer
  <2> QED
    BY <1>4, <2>1
<1>8. RevokedStaysRevoked' /\ Drawn' /\ OneGrant'
  BY <1>3 DEF GrantInv, RevokedStaysRevoked, Drawn, OneGrant
<1>9. FreshRecords'
  BY <1>3, <1>6, <1>7 DEF GrantInv, FreshRecords, Unused
<1>10. ASSUME NEW x \in Device, NEW u \in Transfer, job'[x] # None, job'[x].transfer = u
       PROVE  FreshJob(x, u)'
  <2>1. CASE x = d
    <3>1. u = t /\ to # d
      BY <1>2, <1>3, <1>5, <1>10, <2>1 DEF FreshJob
    <3>2. \A rec \in InFlight(d)' : rec \in InFlight(d)
      BY <1>3, <3>1
    <3>3. \A y \in Device \ {d} : job'[y] # None => job'[y].transfer # t
      BY <1>3, <1>5 DEF FreshJob
    <3>4. Unused(x, u)'
      BY <1>3, <1>6, <2>1, <3>1 DEF Unused
    <3> QED
      BY <1>2, <1>3, <1>5, <2>1, <3>1, <3>2, <3>3, <3>4 DEF FreshJob
  <2>2. CASE x # d
    <3>1. job[x] # None /\ job[x].transfer = u /\ job'[x] = job[x] /\ u # t
      BY <1>3, <1>5, <1>10, <2>2 DEF FreshJob
    <3>2. FreshJob(x, u)
      BY <3>1 DEF GrantInv, FreshJobs
    <3>3. \A y \in Device : Unused(y, u) => Unused(y, u)'
      BY <1>3 DEF Unused
    <3>4. \A y \in Device \ {x} : job'[y] # None => job'[y].transfer # u
      BY <1>3, <3>1, <3>2 DEF FreshJob
    <3>5. \A y \in Device : \A rec \in InFlight(y)' : rec \in InFlight(y) \/ rec.transfer # u
      BY <1>3, <3>1
    <3> QED
      BY <1>3, <3>1, <3>2, <3>3, <3>4, <3>5 DEF FreshJob
  <2> QED
    BY <2>1, <2>2
<1>11. FreshJobs'
  BY <1>10 DEF FreshJobs
<1> QED
  BY <1>8, <1>9, <1>11 DEF GrantInv

\* One device's approval of another is set to a transfer id that was unused there, or
\* taken back and its id withdrawn: the ids of the others stay apart.
LEMMA GrantMarks ==
    ASSUME TypeInv, GrantInv, NEW d \in Device, Marks(d)
    PROVE  GrantInv'
<1>1. PICK t : t = job[d].transfer
  OBVIOUS
<1>2. PICK to : to = job[d].to
  OBVIOUS
<1>3. /\ UNCHANGED <<seen, revoked, transfers>>
      /\ \A x \in Device \ {d} : job'[x] = job[x]
      /\ job[d] # None /\ job[d].step = "mark"
      /\ job'[d].to = to /\ job'[d].transfer = t /\ job'[d].step = "stream"
      /\ \A x, y \in Device :
            approvals'[x][y] = IF x = d /\ y = to THEN t ELSE approvals[x][y]
  BY <1>1, <1>2 DEF Marks, Advances
<1>4. \A x \in Device : InFlight(x)' = InFlight(x)
  BY DEF Marks, InFlight
<1>5. t \in Transfer /\ to \in Device
  BY <1>1, <1>2, <1>3 DEF TypeInv, TypeOK, Job
<1>6. FreshJob(d, t)
  BY <1>1, <1>3, <1>5 DEF GrantInv, FreshJobs
<1>7. Unused(d, t) /\ t <= transfers
  BY <1>3, <1>6 DEF FreshJob
<1>8. RevokedStaysRevoked'
  BY <1>3, <1>7 DEF GrantInv, RevokedStaysRevoked, Unused
<1>9. Drawn'
  BY <1>3, <1>7 DEF GrantInv, Drawn
<1>10. OneGrant'
  BY <1>3, <1>7 DEF GrantInv, OneGrant, Unused
<1>11. \A x \in Device : \A u : Unused(x, u) /\ u # t => Unused(x, u)'
  BY <1>3 DEF Unused
<1>12. \A x \in Device \ {d} : \A u : Unused(x, u) => Unused(x, u)'
  BY <1>3 DEF Unused
<1>13. FreshRecords'
  <2> SUFFICES ASSUME NEW x \in Device, NEW rec \in InFlight(x)', rec.kind = "approval"
               PROVE  /\ rec.transfer \in 1 .. transfers
                      /\ rec.transfer \notin seen[x] => Unused(x, rec.transfer)'
    BY <1>3 DEF FreshRecords, Unused
  <2>1. rec \in InFlight(x)
    BY <1>4
  <2>2. /\ rec.transfer \in 1 .. transfers
        /\ rec.transfer \notin seen[x] => Unused(x, rec.transfer)
    BY <2>1 DEF GrantInv, FreshRecords
  <2>3. x = d => rec.transfer # t
    BY <1>6, <2>1 DEF FreshJob
  <2> QED
    BY <1>11, <1>12, <2>2, <2>3
<1>14. ASSUME NEW x \in Device, NEW u \in Transfer, job'[x] # None, job'[x].transfer = u
       PROVE  FreshJob(x, u)'
  <2>1. CASE x = d
    <3>1. u = t
      BY <1>3, <1>14, <2>1
    <3>2. \A y \in Device \ {d} : job'[y] # None => job'[y].transfer # t
      BY <1>3, <1>6 DEF FreshJob
    <3> QED
      BY <1>2, <1>3, <1>4, <1>6, <2>1, <3>1, <3>2 DEF FreshJob
  <2>2. CASE x # d
    <3>1. job[x] # None /\ job[x].transfer = u /\ job'[x] = job[x] /\ u # t
      BY <1>3, <1>6, <1>14, <2>2 DEF FreshJob
    <3>2. FreshJob(x, u)
      BY <3>1 DEF GrantInv, FreshJobs
    <3>3. \A y \in Device : Unused(y, u) => Unused(y, u)'
      BY <1>11, <3>1
    <3>4. \A y \in Device \ {x} : job'[y] # None => job'[y].transfer # u
      BY <1>3, <3>1, <3>2 DEF FreshJob
    <3> QED
      BY <1>3, <1>4, <3>1, <3>2, <3>3, <3>4 DEF FreshJob
  <2> QED
    BY <2>1, <2>2
<1>15. FreshJobs'
  BY <1>14 DEF FreshJobs
<1> QED
  BY <1>8, <1>9, <1>10, <1>13, <1>15 DEF GrantInv

\* A human withdraws an approval: no other approval of the device has its id.
LEMMA GrantRevokes ==
    ASSUME TypeInv, GrantInv, NEW d \in Device, NEW e \in Device, Revokes(d, e)
    PROVE  GrantInv'
<1>1. PICK t : t = approvals[d][e]
  OBVIOUS
<1>2. /\ UNCHANGED <<seen, transfers, job>> /\ job[d] = None /\ t # None
      /\ \A x \in Device : revoked'[x] = IF x = d THEN revoked[x] \cup {t} ELSE revoked[x]
      /\ \A x, y \in Device :
            approvals'[x][y] = IF x = d /\ y = e THEN None ELSE approvals[x][y]
  BY <1>1 DEF Revokes
<1>3. \A x \in Device : InFlight(x)' = InFlight(x)
  BY DEF Revokes, InFlight
<1>4. /\ t \in Transfer /\ \A x \in Device : None \notin revoked[x]
  <2>1. /\ approvals \in [Device -> [Device -> Transfer \cup {None}]]
        /\ revoked \in [Device -> SUBSET Transfer]
    BY DEF TypeInv, TypeOK
  <2>2. None \notin Transfer
    BY DeviceSyncAssumption DEF Transfer
  <2> QED
    BY <1>1, <1>2, <2>1, <2>2
<1>5. t <= transfers /\ \A f \in Device \ {e} : approvals[d][f] # t
  BY <1>1, <1>2 DEF GrantInv, Drawn, OneGrant
<1>6. RevokedStaysRevoked'
  <2> SUFFICES ASSUME NEW x \in Device, NEW y \in Device
               PROVE  approvals'[x][y] \notin revoked'[x]
    BY DEF RevokedStaysRevoked
  <2>1. approvals[x][y] \notin revoked[x]
    BY DEF GrantInv, RevokedStaysRevoked
  <2>2. CASE x = d /\ y = e
    BY <1>2, <1>4, <2>2
  <2>3. CASE x = d /\ y # e
    <3>1. approvals'[x][y] = approvals[x][y] /\ revoked'[x] = revoked[x] \cup {t}
      BY <1>2, <2>3
    <3>2. approvals[x][y] # t
      BY <1>5, <2>3
    <3> QED
      BY <2>1, <3>1, <3>2, Zenon
  <2>4. CASE x # d
    BY <1>2, <2>1, <2>4
  <2> QED
    BY <2>2, <2>3, <2>4
<1>7. Drawn'
  BY <1>2, <1>5 DEF GrantInv, Drawn
<1>8. OneGrant'
  BY <1>2 DEF GrantInv, OneGrant
<1>9. \A x \in Device : \A u \in Transfer : Unused(x, u) => Unused(x, u)'
  <2> SUFFICES ASSUME NEW x \in Device, NEW u \in Transfer, Unused(x, u)
               PROVE  Unused(x, u)'
    OBVIOUS
  <2>1. u # None
    BY DeviceSyncAssumption DEF Transfer
  <2>2. x = d => u # t
    BY <1>1 DEF Unused
  <2> QED
    BY <1>2, <2>1, <2>2 DEF Unused
<1>10. FreshRecords'
  <2> SUFFICES ASSUME NEW x \in Device, NEW rec \in InFlight(x)', rec.kind = "approval"
               PROVE  /\ rec.transfer \in 1 .. transfers
                      /\ rec.transfer \notin seen[x] => Unused(x, rec.transfer)'
    BY <1>2 DEF FreshRecords, Unused
  <2>1. rec \in InFlight(x)
    BY <1>3
  <2>2. /\ rec.transfer \in 1 .. transfers
        /\ rec.transfer \notin seen[x] => Unused(x, rec.transfer)
    BY <2>1 DEF GrantInv, FreshRecords
  <2>3. rec.transfer \in Transfer
    <3>1. transfers \in 0 .. MaxTransfers /\ MaxTransfers \in Nat
      BY DeviceSyncAssumption DEF TypeInv, TypeOK
    <3> QED
      BY <2>2, <3>1 DEF Transfer
  <2> QED
    BY <1>9, <2>2, <2>3
<1>11. ASSUME NEW x \in Device, NEW u \in Transfer, job'[x] # None, job'[x].transfer = u
       PROVE  FreshJob(x, u)'
  <2>1. FreshJob(x, u)
    BY <1>2, <1>11 DEF GrantInv, FreshJobs
  <2> QED
    BY <1>2, <1>3, <1>9, <2>1 DEF FreshJob
<1>12. FreshJobs'
  BY <1>11 DEF FreshJobs
<1> QED
  BY <1>6, <1>7, <1>8, <1>10, <1>12 DEF GrantInv

\* An APPROVAL is taken over the first time it comes.
LEMMA GrantAccepts ==
    ASSUME TypeInv, GrantInv, NEW d \in Device, Accepts(d)
    PROVE  GrantInv'
<1>1. PICK sent \in InFlight(d) :
        /\ sent.kind = "approval" /\ sent.transfer \notin seen[d]
        /\ \A x \in Device :
              seen'[x] = IF x = d THEN seen[x] \cup {sent.transfer} ELSE seen[x]
        /\ \A x, y \in Device :
              approvals'[x][y] = IF x = d /\ y = sent.from THEN sent.transfer
                                 ELSE approvals[x][y]
  BY DEF Accepts
<1>2. PICK t : t = sent.transfer
  OBVIOUS
<1>3. /\ UNCHANGED <<revoked, transfers, job>>
      /\ \A x \in Device : InFlight(x)' \subseteq InFlight(x)
      /\ \A x \in Device : seen'[x] = IF x = d THEN seen[x] \cup {t} ELSE seen[x]
      /\ \A x, y \in Device :
            approvals'[x][y] = IF x = d /\ y = sent.from THEN t ELSE approvals[x][y]
  BY <1>1, <1>2 DEF Accepts
<1>4. t \in 1 .. transfers /\ Unused(d, t)
  BY <1>1, <1>2 DEF GrantInv, FreshRecords
<1>5. t <= transfers /\ t \in Transfer
  BY <1>4, DeviceSyncAssumption DEF TypeInv, TypeOK, Transfer
<1>6. RevokedStaysRevoked'
  BY <1>3, <1>4 DEF GrantInv, RevokedStaysRevoked, Unused
<1>7. Drawn'
  BY <1>3, <1>5 DEF GrantInv, Drawn
<1>8. OneGrant'
  BY <1>3, <1>4 DEF GrantInv, OneGrant, Unused
<1>9. /\ \A x \in Device : \A u : Unused(x, u) /\ u # t => Unused(x, u)'
      /\ \A x \in Device \ {d} : \A u : Unused(x, u) => Unused(x, u)'
  BY <1>3 DEF Unused
<1>10. FreshRecords'
  <2> SUFFICES ASSUME NEW x \in Device, NEW rec \in InFlight(x)', rec.kind = "approval"
               PROVE  /\ rec.transfer \in 1 .. transfers
                      /\ rec.transfer \notin seen'[x] => Unused(x, rec.transfer)'
    BY <1>3 DEF FreshRecords, Unused
  <2>1. rec \in InFlight(x)
    BY <1>3
  <2>2. /\ rec.transfer \in 1 .. transfers
        /\ rec.transfer \notin seen[x] => Unused(x, rec.transfer)
    BY <2>1 DEF GrantInv, FreshRecords
  <2> QED
    BY <1>3, <1>9, <2>2
<1>11. ASSUME NEW x \in Device, NEW u \in Transfer, job'[x] # None, job'[x].transfer = u
       PROVE  FreshJob(x, u)'
  <2>1. FreshJob(x, u)
    BY <1>3, <1>11 DEF GrantInv, FreshJobs
  <2>2. job[x].step = "approval" \/ x = d => u # t
    BY <1>1, <1>2, <2>1 DEF FreshJob
  <2>3. job[x].step = "approval" => \A y \in Device : Unused(y, u)'
    BY <1>9, <2>1, <2>2 DEF FreshJob
  <2>4. job[x].step \in {"approval", "mark"} => Unused(x, u)'
    BY <1>9, <2>1, <2>2 DEF FreshJob
  <2>5. /\ u <= transfers' /\ job'[x].to # x
        /\ \A y \in Device \ {x} : job'[y] # None => job'[y].transfer # u
    BY <1>3, <2>1 DEF FreshJob
  <2>6. /\ \A rec \in InFlight(x)' : rec.kind = "approval" => rec.transfer # u
        /\ job[x].step = "approval" => \A y \in Device : \A rec \in InFlight(y)' :
              rec.kind = "approval" => rec.transfer # u
    BY <1>3, <2>1 DEF FreshJob
  <2> QED
    BY <1>3, <2>3, <2>4, <2>5, <2>6 DEF FreshJob
<1>12. FreshJobs'
  BY <1>11 DEF FreshJobs
<1> QED
  BY <1>6, <1>7, <1>8, <1>10, <1>12 DEF GrantInv

\* Every step.
LEMMA GrantStep ==
    ASSUME TypeInv, ConsentInv, GrantInv, NEW d \in Device, Flow(d)
    PROVE  GrantInv'
<1>1. CASE Quiet(d)
  BY <1>1, GrantQuiet DEF Quiet
<1>2. CASE Streams(d)
  <2>1. \A rec \in Range(job[d].todo) : rec.kind \in {"offer", "item", "complete"}
    BY <1>2 DEF ConsentInv, Streams, Advances
  <2> QED
    BY <1>2, <2>1, GrantQuiet DEF Streams, Advances
<1> QED
  BY <1>1, <1>2, GrantApproves, GrantMarks, GrantRevokes, GrantAccepts, GrantBegins DEF Flow

\* revoke_approval and the seen approvals: what a human withdrew is not granted again by
\* an APPROVAL that comes late, or once more.
THEOREM RevokedStays == Spec => []RevokedStaysRevoked
<1> DEFINE Inv == TypeInv /\ ConsentInv /\ GrantInv
<1>1. Init => Inv
  BY TypeInit, ConsentInit, GrantInit
<1>2. Inv /\ [Next]_vars => Inv'
  <2>1. Inv /\ Next => Inv'
    BY EveryStep, ConsentStep, GrantStep DEF Step, TypeInv
  <2> QED
    BY <2>1, Stutter
<1>3. Inv => RevokedStaysRevoked
  BY DEF GrantInv
<1> QED
  BY <1>1, <1>2, <1>3, PTL DEF Spec

-----------------------------------------------------------------------------
(* Transfers.                                                              *)

LEMMA TransferInit ==
    ASSUME Init
    PROVE  TransferInv
<1>1. \A x \in Device : InFlight(x) = {} /\ job[x] = None
  BY DEF Init, InFlight, Range
<1>2. \A x, y \in Device : incoming[x][y].chain.items = <<>> /\ ~incoming[x][y].done
  BY DEF Init, NoTransfer, NoDigest
<1> QED
  BY <1>1, <1>2 DEF TransferInv

\* What an old transfer offered stays what it offered.
LEMMA OfferKept ==
    ASSUME TypeInv, NEW d \in Device, Flow(d)
    PROVE  /\ transfers <= transfers' /\ transfers' \in Nat /\ transfers \in Nat
           /\ \A t \in 1 .. transfers : t \in Transfer /\ offered'[t] = offered[t]
<1>1. transfers \in 0 .. MaxTransfers /\ MaxTransfers \in Nat
  BY DeviceSyncAssumption DEF TypeInv, TypeOK
<1>2. \A t \in 1 .. transfers : t \in Transfer
  BY <1>1 DEF Transfer
<1>3. ASSUME NEW e \in Device, Begins(d, e)
      PROVE  /\ transfers' = transfers + 1
             /\ \A t \in 1 .. transfers : offered'[t] = offered[t]
  <2>1. \A t \in Transfer \ {transfers + 1} : offered'[t] = offered[t]
    BY <1>3 DEF Begins
  <2>2. \A t \in 1 .. transfers : t # transfers + 1
    BY <1>1
  <2> QED
    BY <1>2, <1>3, <2>1, <2>2 DEF Begins
<1>4. ASSUME \A e \in Device : ~Begins(d, e)
      PROVE  offered' = offered /\ transfers' = transfers
  BY <1>4 DEF Flow, Quiet, Approves, Marks, Streams, Revokes, Accepts, Advances
<1>5. CASE \E e \in Device : Begins(d, e)
  BY <1>1, <1>2, <1>3, <1>5
<1>6. CASE \A e \in Device : ~Begins(d, e)
  BY <1>1, <1>2, <1>4, <1>6
<1> QED
  BY <1>5, <1>6

LEMMA EndsKept ==
    ASSUME TypeInv, NEW d \in Device, Flow(d), NEW rec, Ends(rec)
    PROVE  Ends(rec)'
<1>1. \A n \in 1 .. transfers : n \in 1 .. transfers' /\ offered'[n] = offered[n]
  BY OfferKept
<1> QED
  BY <1>1 DEF Ends, Covers

\* The records that end a transfer carry the digest of all its items.
LEMMA EndsStep ==
    ASSUME TypeInv, TransferInv, NEW d \in Device, Flow(d)
    PROVE  \A x \in Device :
              /\ \A rec \in InFlight(x)' : Ends(rec)'
              /\ job'[x] # None => \A rec \in Range(job'[x].todo) : Ends(rec)'
<1>1. \A x \in Device :
         /\ \A rec \in InFlight(x) : Ends(rec)
         /\ job[x] # None => \A rec \in Range(job[x].todo) : Ends(rec)
  BY DEF TransferInv
<1>2. \A rec : Ends(rec) => Ends(rec)'
  BY EndsKept
<1>3. \A rec : rec.kind # "complete" => Ends(rec)'
  BY DEF Ends
<1>4. CASE Quiet(d)
  BY <1>1, <1>2, <1>3, <1>4 DEF Quiet
<1>5. CASE Approves(d)
  BY <1>1, <1>2, <1>3, <1>5 DEF Approves, Advances
<1>6. CASE Marks(d)
  <2>1. \A x \in Device : InFlight(x)' = InFlight(x)
    BY <1>6 DEF Marks, InFlight
  <2> QED
    BY <1>1, <1>2, <1>6, <2>1 DEF Marks, Advances
<1>7. CASE Streams(d)
  BY <1>1, <1>2, <1>7 DEF Streams, Advances
<1>8. CASE Accepts(d)
  BY <1>1, <1>2, <1>8 DEF Accepts
<1>9. ASSUME NEW e \in Device, Begins(d, e)
      PROVE  \A x \in Device :
                /\ \A rec \in InFlight(x)' : Ends(rec)'
                /\ job'[x] # None => \A rec \in Range(job'[x].todo) : Ends(rec)'
  <2>1. \A x \in Device : InFlight(x)' = InFlight(x)
    BY <1>9 DEF Begins, InFlight
  <2>2. \A x \in Device \ {d} : job'[x] = job[x]
    BY <1>9 DEF Begins
  <2>3. transfers' \in 1 .. transfers'
    BY OfferKept, <1>9 DEF Begins
  <2>4. \A rec \in Range(job'[d].todo) : rec.kind = "complete" =>
           /\ rec.transfer = transfers' /\ rec.chain.seed = transfers'
           /\ \A item \in offered'[transfers'] :
                 \E i \in DOMAIN rec.chain.items : rec.chain.items[i].item = item
    BY <1>9 DEF Begins
  <2>5. \A rec \in Range(job'[d].todo) : Ends(rec)'
    BY <2>3, <2>4 DEF Ends, Covers
  <2> QED
    BY <1>1, <1>2, <2>1, <2>2, <2>5
<1>10. ASSUME NEW e \in Device, Revokes(d, e)
       PROVE  job' = job /\ \A x \in Device : InFlight(x)' = InFlight(x)
  BY <1>10 DEF Revokes, InFlight
<1> QED
  BY <1>1, <1>2, <1>4, <1>5, <1>6, <1>7, <1>8, <1>9, <1>10 DEF Flow

\* What a device has it keeps.
LEMMA HasKept ==
    ASSUME TypeInv, TypeOK', Grown, NEW x \in Device, NEW item \in Item, Has(x, item)
    PROVE  Has(x, item)'
<1>1. CASE item.of \in Thing
  BY <1>1 DEF Has, Grown
<1>2. CASE item.of \notin Thing
  <2>1. item.of \in Message
    BY <1>2 DEF Item
  <2>2. /\ rows[x][item.of] \in Seq(Row) /\ rows[x][item.of] # <<>>
        /\ rows'[x][item.of] \in Seq(Row)
        /\ Len(rows[x][item.of]) <= Len(rows'[x][item.of])
    BY <1>2, <2>1 DEF TypeInv, TypeOK, Has, Grown
  <2>3. Len(rows[x][item.of]) # 0 /\ Len(rows[x][item.of]) \in Nat /\ Len(rows'[x][item.of]) \in Nat
    BY <2>2, EmptySeq
  <2>4. Len(rows'[x][item.of]) # 0
    BY <2>2, <2>3
  <2>5. rows'[x][item.of] # <<>>
    BY <2>4, EmptySeq
  <2> QED
    BY <1>2, <2>5 DEF Has
<1> QED
  BY <1>1, <1>2

\* Every step: a digest holds what the device has, and one that matched a COMPLETE holds
\* all items of the transfer.
LEMMA TransferStep ==
    ASSUME TypeInv, TransferInv, NEW d \in Device, Step(d)
    PROVE  TransferInv'
<1>1. TypeOK' /\ Flow(d) /\ Grown /\ (incoming' = incoming \/ Progress(d))
  BY DEF Step
<1>2. \A x \in Device :
         /\ \A rec \in InFlight(x)' : Ends(rec)'
         /\ job'[x] # None => \A rec \in Range(job'[x].todo) : Ends(rec)'
  BY <1>1, EndsStep
<1> DEFINE Good(x, in) ==
             /\ \A i \in DOMAIN in.chain.items : Has(x, in.chain.items[i].item)
             /\ in.done /\ in.complete =>
                   in.chain.seed \in 1 .. transfers /\ Covers(in.chain, in.chain.seed)
<1>3. \A x, y \in Device : Good(x, incoming[x][y])
  BY DEF TransferInv
<1>4. \A x, y \in Device : incoming[x][y] \in IncomingRec
  BY DEF TypeInv, TypeOK, IncomingRec
<1>5. ASSUME NEW x \in Device, NEW in \in IncomingRec, Good(x, in)
      PROVE  Good(x, in)'
  <2>1. \A i \in DOMAIN in.chain.items : in.chain.items[i].item \in Item
    <3>1. in.chain.items \in Seq(Link)
      BY DEF IncomingRec, Digest
    <3>2. \A q \in Seq(Link) : \A i \in DOMAIN q : q[i] \in Link
      OBVIOUS
    <3>3. \A link \in Link : link.item \in Item
      BY DEF Link
    <3> QED
      BY <3>1, <3>2, <3>3
  <2>2. \A i \in DOMAIN in.chain.items : Has(x, in.chain.items[i].item)'
    BY <1>1, <1>5, <2>1, HasKept
  <2>3. \A n \in 1 .. transfers : n \in 1 .. transfers' /\ offered'[n] = offered[n]
    BY <1>1, OfferKept
  <2>4. in.done /\ in.complete =>
           in.chain.seed \in 1 .. transfers' /\ Covers(in.chain, in.chain.seed)'
    BY <1>5, <2>3 DEF Covers
  <2> QED
    BY <2>2, <2>4
<1>6. ASSUME NEW x \in Device, NEW y \in Device, NEW new \in IncomingRec,
             new = incoming'[x][y]
      PROVE  Good(x, new)'
  <2>1. CASE incoming'[x][y] = incoming[x][y]
    BY <1>3, <1>4, <1>5, <1>6, <2>1
  <2>2. CASE incoming'[x][y] # incoming[x][y]
    <3>1. PICK rec \in InFlight(d) :
            /\ x = d /\ y = rec.from
            /\ LET in == incoming[d][rec.from] IN
               \/ ~new.done /\ new.chain = NoDigest
               \/ rec.kind = "item" /\ ~new.done /\ new.chain = Extend(in.chain, rec) /\ Has(d, rec.item)'
               \/ rec.kind = "complete" /\ new.chain = in.chain /\ (new.complete => in.chain = rec.chain)
      BY <1>1, <1>6, <2>2 DEF Progress
    <3>2. PICK in \in IncomingRec : in = incoming[d][rec.from]
      BY <1>4, <3>1
    <3>3. Good(x, in) /\ Good(x, in)'
      BY <1>3, <1>5, <3>1, <3>2
    <3>4. CASE ~new.done /\ new.chain = NoDigest
      BY <3>4 DEF NoDigest
    <3>5. CASE ~new.done /\ new.chain = Extend(in.chain, rec) /\ Has(d, rec.item)'
      <4> DEFINE link == [seq |-> rec.count, item |-> rec.item]
                 q == Append(in.chain.items, link)
      <4>1. new.chain.items = q
        BY <3>5 DEF Extend
      <4>2. in.chain.items \in Seq(Link)
        BY DEF IncomingRec, Digest
      <4>3. ASSUME NEW i \in DOMAIN q
            PROVE  Has(x, q[i].item)'
        <5>1. PICK old : old = in.chain.items
          OBVIOUS
        <5>2. /\ \A j \in 1 .. Len(old) : q[j] = old[j]
              /\ q[Len(old) + 1] = link /\ Len(old) \in Nat
              /\ DOMAIN q = 1 .. Len(old) + 1 /\ DOMAIN old = 1 .. Len(old)
          <6>1. old \in Seq(Link \cup {link}) /\ link \in Link \cup {link}
            BY <4>2, <5>1, SeqMonotonic
          <6> QED
            BY <5>1, <6>1, AppendProperties
        <5>3. CASE i \in 1 .. Len(old)
          BY <3>3, <5>1, <5>2, <5>3
        <5>4. CASE i = Len(old) + 1
          BY <3>1, <3>5, <5>2, <5>4
        <5> QED
          BY <4>3, <5>2, <5>3, <5>4
      <4> QED
        BY <3>5, <4>1, <4>3
    <3>6. CASE rec.kind = "complete" /\ new.chain = in.chain /\ (new.complete => in.chain = rec.chain)
      <4>1. Ends(rec)'
        BY <1>1, EndsKept DEF TransferInv
      <4> QED
        BY <3>3, <3>6, <4>1 DEF Ends
    <3> QED
      BY <3>1, <3>2, <3>4, <3>5, <3>6
  <2> QED
    BY <2>1, <2>2
<1>7. \A x, y \in Device : incoming'[x][y] \in IncomingRec
  BY <1>1 DEF TypeOK, IncomingRec
<1> QED
  BY <1>2, <1>6, <1>7 DEF TransferInv

\* history.py and the COMPLETE record: a transfer a device calls done and complete has
\* given it every item that was offered, whatever was lost, repeated or reordered.
THEOREM CompleteHasAll == Spec => []CompleteMeansAll
<1> DEFINE Inv == TypeInv /\ TransferInv
<1>1. Init => Inv
  BY TypeInit, TransferInit
<1>2. Inv /\ [Next]_vars => Inv'
  <2>1. Inv /\ Next => Inv'
    BY EveryStep, TransferStep DEF Step, TypeInv
  <2> QED
    BY <2>1, Stutter
<1>3. ASSUME Inv
      PROVE  CompleteMeansAll
  <2> SUFFICES ASSUME NEW d \in Device, NEW e \in Device,
                      incoming[d][e].done, incoming[d][e].complete
               PROVE  LET t == incoming[d][e].chain.seed IN
                      /\ t # None
                      /\ \A item \in offered[t] : Has(d, item)
    BY DEF CompleteMeansAll, Has
  <2> DEFINE chain == incoming[d][e].chain
             t == chain.seed
  <2>1. /\ \A i \in DOMAIN chain.items : Has(d, chain.items[i].item)
        /\ t \in 1 .. transfers /\ Covers(chain, t)
    BY <1>3 DEF TransferInv
  <2>2. t # None
    BY <1>3, <2>1, DeviceSyncAssumption DEF TypeInv, TypeOK
  <2> HIDE DEF chain
  <2>3. \A item \in offered[t] : Has(d, item)
    BY <2>1 DEF Covers
  <2> QED
    BY <2>2, <2>3 DEF chain
<1> QED
  BY <1>1, <1>2, <1>3, PTL DEF Spec

=============================================================================
