-------------------------- MODULE AttachmentsProofs -------------------------
(***************************************************************************)
(* What Attachments guarantees for any number of devices, relays, chunks,  *)
(* files and failures: types and the promises of discovery, that who has   *)
(* the message of a file can get the file, and what is in the cache.       *)
(*                                                                         *)
(* A chunk, once a relay has it that the device uses or used, stays        *)
(* available: discovery only adds relays, a restart files what it drops    *)
(* under forgotten, and a relay that removes chunks files them under       *)
(* dropped.  So it is enough that the sender's addresses are among those   *)
(* relays, and that all uploads lie behind a send before its messages go   *)
(* out.  The cache is always the end of the list of everything put into    *)
(* it: an insertion extends both, pruning shortens the one at its front.   *)
(*                                                                         *)
(* The loops of discovery and the sum of the sizes are recursive functions *)
(* over the positions of a list; what they give is shown by induction over *)
(* the set of positions for which it holds (AllNat).                       *)
(***************************************************************************)
EXTENDS Attachments, FiniteSetTheorems, SequenceTheorems, TLAPS

-----------------------------------------------------------------------------
(* Sequences.                                                              *)

\* Every non-empty set of numbers has a least one.
LEMMA LeastNat ==
    ASSUME NEW S \in SUBSET Nat, S # {}
    PROVE  \E n \in S : \A m \in S : n <= m
<1> DEFINE R == OpToRel(<, Nat)
<1>1. IsWellFoundedOn(R, Nat)
  BY NatLessThanWellFounded
<1>2. \A n, m \in Nat : m < n => <<m, n>> \in R
  BY DEF OpToRel
<1> HIDE DEF R
<1>3. PICK n \in S : \A m \in S : ~(<<m, n>> \in R)
  BY <1>1, WFMin
<1>4. \A m \in S : ~(m < n)
  BY <1>2, <1>3
<1> QED
  BY <1>4

\* Induction, for a set of numbers.
LEMMA AllNat ==
    ASSUME NEW S, 0 \in S, \A n \in Nat : n \in S => n + 1 \in S
    PROVE  Nat \subseteq S
<1> DEFINE Bad == Nat \ S
<1> SUFFICES ASSUME Bad # {}
             PROVE  FALSE
  OBVIOUS
<1>1. PICK k \in Bad : \A j \in Bad : k <= j
  BY LeastNat
<1>2. k - 1 \in Nat /\ k - 1 \notin Bad
  BY <1>1
<1> QED
  BY <1>1, <1>2

\* Sequences of elements of S one after the other are a sequence of elements of S.
LEMMA Flattened ==
    ASSUME NEW S, NEW seqs \in Seq(Seq(S))
    PROVE  FlattenSeq(seqs) \in Seq(S)
<1> DEFINE n == Len(seqs)
           Is(f, m) == f = [i \in 1 .. m |-> IF i = 1 THEN seqs[i] ELSE f[i - 1] \o seqs[i]]
           flat == CHOOSE f : Is(f, n)
<1>1. n \in Nat /\ \A i \in 1 .. n : seqs[i] \in Seq(S)
  OBVIOUS
<1>2. CASE n = 0
  BY <1>1, <1>2 DEF FlattenSeq
<1>3. CASE n # 0
  <2>1. FlattenSeq(seqs) = flat[n]
    BY <1>3 DEF FlattenSeq
  <2>2. \A m \in Nat : \E f : Is(f, m)
    <3> DEFINE Good == {m \in Nat : \E f : Is(f, m)}
    <3>1. 0 \in Good
      <4>1. Is(<<>>, 0)
        OBVIOUS
      <4> QED
        BY <4>1
    <3>2. ASSUME NEW m \in Nat, NEW f, Is(f, m)
          PROVE  \E g : Is(g, m + 1)
      <4> DEFINE g == [i \in 1 .. m + 1 |-> IF i = 1 THEN seqs[i] ELSE f[i - 1] \o seqs[i]]
      <4>1. \A i \in 1 .. m : g[i] = f[i]
        <5> SUFFICES ASSUME NEW i \in 1 .. m
                     PROVE  g[i] = f[i]
          OBVIOUS
        <5>1. f[i] = IF i = 1 THEN seqs[i] ELSE f[i - 1] \o seqs[i]
          BY <3>2
        <5> QED
          BY <5>1
      <4> HIDE DEF g
      <4>2. \A i \in 1 .. m + 1 : i # 1 => g[i - 1] = f[i - 1]
        BY <4>1
      <4>3. g = [i \in 1 .. m + 1 |-> IF i = 1 THEN seqs[i] ELSE g[i - 1] \o seqs[i]]
        BY <4>2 DEF g
      <4> QED
        BY <4>3
    <3> HIDE DEF Is
    <3>3. \A m \in Nat : m \in Good => m + 1 \in Good
      BY <3>2
    <3> HIDE DEF Good
    <3>4. Nat \subseteq Good
      BY <3>1, <3>3, AllNat
    <3> QED
      BY <3>4 DEF Good
  <2>3. Is(flat, n)
    BY <1>1, <2>2
  <2> HIDE DEF flat
  <2>4. \A i \in 1 .. n : flat[i] = IF i = 1 THEN seqs[i] ELSE flat[i - 1] \o seqs[i]
    BY <2>3
  <2> DEFINE Good == {m \in Nat : m \in 1 .. n => flat[m] \in Seq(S)}
  <2>5. 0 \in Good
    OBVIOUS
  <2>6. ASSUME NEW m \in Nat, m \in Good
        PROVE  m + 1 \in Good
    <3> SUFFICES ASSUME m + 1 \in 1 .. n
                 PROVE  flat[m + 1] \in Seq(S)
      OBVIOUS
    <3>1. flat[m + 1] = IF m + 1 = 1 THEN seqs[m + 1] ELSE flat[m] \o seqs[m + 1]
      BY <1>1, <2>4
    <3>2. m # 0 => flat[m] \in Seq(S)
      BY <1>1, <2>6
    <3> QED
      BY <1>1, <3>1, <3>2, ConcatProperties
  <2> HIDE DEF Good
  <2>7. Nat \subseteq Good
    BY <2>5, <2>6, AllNat
  <2>8. n \in Good /\ n \in 1 .. n
    BY <1>1, <1>3, <2>7
  <2> QED
    BY <2>1, <2>8 DEF Good
<1> QED
  BY <1>2, <1>3

\* The range of a sequence with one more element.
LEMMA AppendedRange ==
    ASSUME NEW S, NEW s \in Seq(S), NEW x \in S
    PROVE  /\ Append(s, x) \in Seq(S) /\ Len(Append(s, x)) = Len(s) + 1
           /\ Range(Append(s, x)) = Range(s) \cup {x}
<1>1. /\ Append(s, x) \in Seq(S) /\ Len(Append(s, x)) = Len(s) + 1
      /\ Append(s, x)[Len(s) + 1] = x
      /\ \A i \in 1 .. Len(s) : Append(s, x)[i] = s[i]
      /\ DOMAIN Append(s, x) = 1 .. Len(s) + 1 /\ DOMAIN s = 1 .. Len(s) /\ Len(s) \in Nat
  OBVIOUS
<1>2. DOMAIN Append(s, x) = DOMAIN s \cup {Len(s) + 1}
  BY <1>1
<1> QED
  BY <1>1, <1>2 DEF Range

\* Normalising a list of URLs gives a list of URLs.
LEMMA NormalizedType ==
    ASSUME NEW urls \in Seq(Url)
    PROVE  Normalize(urls) \in Seq(Url)
<1> DEFINE len == Len(urls)
           one(s, i) == IF urls[i] \in Range(s) THEN s ELSE Append(s, urls[i])
           Is(f, j) == f = [i \in 0 .. j |-> IF i = 0 THEN <<>> ELSE one(f[i - 1], i)]
           all == CHOOSE f : Is(f, len)
<1>1. len \in Nat /\ \A i \in 1 .. len : urls[i] \in Url
  OBVIOUS
<1>2. Normalize(urls) = all[len]
  BY DEF Normalize
<1> HIDE DEF one
<1>3. \A j \in Nat : \E f : Is(f, j)
  <2> DEFINE Good == {j \in Nat : \E f : Is(f, j)}
  <2>1. 0 \in Good
    <3> DEFINE f == [i \in 0 .. 0 |-> <<>>]
    <3>1. Is(f, 0)
      OBVIOUS
    <3> HIDE DEF f
    <3> QED
      BY <3>1
  <2>2. ASSUME NEW j \in Nat, NEW f, Is(f, j)
        PROVE  \E g : Is(g, j + 1)
    <3> DEFINE g == [i \in 0 .. j + 1 |-> IF i = 0 THEN <<>> ELSE one(f[i - 1], i)]
    <3>1. \A i \in 0 .. j : g[i] = f[i]
      <4> SUFFICES ASSUME NEW i \in 0 .. j
                   PROVE  g[i] = f[i]
        OBVIOUS
      <4>1. f[i] = IF i = 0 THEN <<>> ELSE one(f[i - 1], i)
        BY <2>2
      <4> QED
        BY <4>1
    <3> HIDE DEF g
    <3>2. \A i \in 0 .. j + 1 : i # 0 => g[i - 1] = f[i - 1]
      BY <3>1
    <3>3. g = [i \in 0 .. j + 1 |-> IF i = 0 THEN <<>> ELSE one(g[i - 1], i)]
      BY <3>2 DEF g
    <3> QED
      BY <3>3
  <2> HIDE DEF Is
  <2>3. \A j \in Nat : j \in Good => j + 1 \in Good
    BY <2>2
  <2> HIDE DEF Good
  <2>4. Nat \subseteq Good
    BY <2>1, <2>3, AllNat
  <2> QED
    BY <2>4 DEF Good
<1>4. Is(all, len)
  BY <1>1, <1>3
<1> HIDE DEF all
<1>5. \A i \in 0 .. len : all[i] = IF i = 0 THEN <<>> ELSE one(all[i - 1], i)
  BY <1>4
<1> DEFINE Good == {j \in Nat : j \in 0 .. len => all[j] \in Seq(Url)}
<1>6. 0 \in Good
  <2>1. all[0] = <<>>
    BY <1>1, <1>5
  <2>2. <<>> \in Seq(Url)
    OBVIOUS
  <2> QED
    BY <2>1, <2>2
<1>7. ASSUME NEW j \in Nat, j \in Good
      PROVE  j + 1 \in Good
  <2> SUFFICES ASSUME j + 1 \in 0 .. len
               PROVE  all[j + 1] \in Seq(Url)
    OBVIOUS
  <2>1. all[j + 1] = one(all[j], j + 1)
    BY <1>1, <1>5
  <2>2. all[j] \in Seq(Url) /\ urls[j + 1] \in Url
    BY <1>1, <1>7
  <2> QED
    BY <2>1, <2>2 DEF one
<1> HIDE DEF Good
<1>8. Nat \subseteq Good
  BY <1>6, <1>7, AllNat
<1>9. len \in Good /\ len \in 0 .. len
  BY <1>1, <1>8
<1> QED
  BY <1>2, <1>9 DEF Good

\* A chunk has a size.
LEMMA ChunkSize ==
    ASSUME NEW c \in Chunk
    PROVE  Pieces[c.n] \in Nat \ {0}
<1>1. c.n \in DOMAIN Pieces
  BY DEF Chunk
<1>2. Pieces \in Seq(Nat \ {0})
  BY AttachmentsAssumption
<1> QED
  BY <1>1, <1>2

\* The running sums behind the size of a cache.
LEMMA BytesSums ==
    ASSUME NEW chunks \in Seq(Chunk)
    PROVE  \E sum : /\ sum[0] = 0 /\ sum[Len(chunks)] = Bytes(chunks)
                    /\ \A i \in 1 .. Len(chunks) : sum[i] = sum[i - 1] + Pieces[chunks[i].n]
                    /\ \A i \in 0 .. Len(chunks) : sum[i] \in Nat
<1> DEFINE len == Len(chunks)
           one(n, i) == n + Pieces[chunks[i].n]
           Is(f, j) == f = [i \in 0 .. j |-> IF i = 0 THEN 0 ELSE one(f[i - 1], i)]
           all == CHOOSE f : Is(f, len)
<1>1. len \in Nat /\ \A i \in 1 .. len : Pieces[chunks[i].n] \in Nat
  BY ChunkSize
<1>2. Bytes(chunks) = all[len]
  BY DEF Bytes
<1> HIDE DEF one
<1>3. \A j \in Nat : \E f : Is(f, j)
  <2> DEFINE Good == {j \in Nat : \E f : Is(f, j)}
  <2>1. 0 \in Good
    <3> DEFINE f == [i \in 0 .. 0 |-> 0]
    <3>1. Is(f, 0)
      OBVIOUS
    <3> HIDE DEF f
    <3> QED
      BY <3>1
  <2>2. ASSUME NEW j \in Nat, NEW f, Is(f, j)
        PROVE  \E g : Is(g, j + 1)
    <3> DEFINE g == [i \in 0 .. j + 1 |-> IF i = 0 THEN 0 ELSE one(f[i - 1], i)]
    <3>1. \A i \in 0 .. j : g[i] = f[i]
      <4> SUFFICES ASSUME NEW i \in 0 .. j
                   PROVE  g[i] = f[i]
        OBVIOUS
      <4>1. f[i] = IF i = 0 THEN 0 ELSE one(f[i - 1], i)
        BY <2>2
      <4> QED
        BY <4>1
    <3> HIDE DEF g
    <3>2. \A i \in 0 .. j + 1 : i # 0 => g[i - 1] = f[i - 1]
      BY <3>1
    <3>3. g = [i \in 0 .. j + 1 |-> IF i = 0 THEN 0 ELSE one(g[i - 1], i)]
      BY <3>2 DEF g
    <3> QED
      BY <3>3
  <2> HIDE DEF Is
  <2>3. \A j \in Nat : j \in Good => j + 1 \in Good
    BY <2>2
  <2> HIDE DEF Good
  <2>4. Nat \subseteq Good
    BY <2>1, <2>3, AllNat
  <2> QED
    BY <2>4 DEF Good
<1>4. Is(all, len)
  BY <1>1, <1>3
<1> HIDE DEF all
<1>5. \A i \in 0 .. len : all[i] = IF i = 0 THEN 0 ELSE one(all[i - 1], i)
  BY <1>4
<1> DEFINE Good == {j \in Nat : j \in 0 .. len => all[j] \in Nat}
<1>6. 0 \in Good
  BY <1>1, <1>5
<1>7. ASSUME NEW j \in Nat, j \in Good
      PROVE  j + 1 \in Good
  <2> SUFFICES ASSUME j + 1 \in 0 .. len
               PROVE  all[j + 1] \in Nat
    OBVIOUS
  <2>1. all[j + 1] = one(all[j], j + 1)
    BY <1>1, <1>5
  <2>2. all[j] \in Nat /\ Pieces[chunks[j + 1].n] \in Nat
    BY <1>1, <1>7
  <2> QED
    BY <2>1, <2>2 DEF one
<1> HIDE DEF Good
<1>8. Nat \subseteq Good
  BY <1>6, <1>7, AllNat
<1>9. \A i \in 0 .. len : all[i] \in Nat
  BY <1>1, <1>8 DEF Good
<1>10. all[0] = 0 /\ \A i \in 1 .. len : all[i] = all[i - 1] + Pieces[chunks[i].n]
  BY <1>1, <1>5 DEF one
<1> QED
  BY <1>2, <1>9, <1>10

\* The size of nothing, of a cache, and of a cache with one chunk more.
LEMMA BytesOf ==
    ASSUME NEW s \in Seq(Chunk), NEW c \in Chunk
    PROVE  /\ Bytes(s) \in Nat /\ Bytes(<<>>) = 0
           /\ Bytes(Append(s, c)) = Bytes(s) + Pieces[c.n]
<1> DEFINE t == Append(s, c)
           len == Len(s)
<1>1. /\ t \in Seq(Chunk) /\ Len(t) = len + 1 /\ t[len + 1] = c /\ len \in Nat
      /\ \A i \in 1 .. len : t[i] = s[i]
  OBVIOUS
<1>2. Bytes(<<>>) = 0
  <2>1. <<>> \in Seq(Chunk) /\ Len(<<>>) = 0
    OBVIOUS
  <2> QED
    BY <2>1, BytesSums
<1> HIDE DEF t
<1>3. PICK f : /\ f[0] = 0 /\ f[len] = Bytes(s)
               /\ \A i \in 1 .. len : f[i] = f[i - 1] + Pieces[s[i].n]
               /\ \A i \in 0 .. len : f[i] \in Nat
  BY BytesSums
<1>a. PICK g : /\ g[0] = 0 /\ g[Len(t)] = Bytes(t)
               /\ \A i \in 1 .. Len(t) : g[i] = g[i - 1] + Pieces[t[i].n]
               /\ \A i \in 0 .. Len(t) : g[i] \in Nat
  BY <1>1, BytesSums
<1>4. /\ g[0] = 0 /\ g[len + 1] = Bytes(t)
      /\ \A i \in 1 .. len + 1 : g[i] = g[i - 1] + Pieces[t[i].n]
  BY <1>1, <1>a
<1> HIDE DEF len
<1> DEFINE Good == {j \in Nat : j \in 0 .. len => f[j] = g[j]}
<1>5. 0 \in Good
  BY <1>3, <1>4
<1>6. ASSUME NEW j \in Nat, j \in Good
      PROVE  j + 1 \in Good
  <2> SUFFICES ASSUME j + 1 \in 0 .. len
               PROVE  f[j + 1] = g[j + 1]
    OBVIOUS
  <2>1. /\ j + 1 \in 1 .. len /\ j + 1 \in 1 .. len + 1 /\ j \in 0 .. len
        /\ (j + 1) - 1 = j
    BY <1>1
  <2>2. f[j + 1] = f[j] + Pieces[s[j + 1].n]
    BY <1>3, <2>1
  <2>3. g[j + 1] = g[j] + Pieces[s[j + 1].n]
    BY <1>1, <1>4, <2>1
  <2> QED
    BY <1>6, <2>1, <2>2, <2>3
<1> HIDE DEF Good
<1>7. Nat \subseteq Good
  BY <1>5, <1>6, AllNat
<1>8. f[len] = g[len]
  BY <1>1, <1>7 DEF Good
<1>9. g[len + 1] = g[len] + Pieces[c.n]
  BY <1>1, <1>4
<1>10. f[len] \in Nat
  BY <1>1, <1>3
<1> QED
  BY <1>2, <1>3, <1>4, <1>8, <1>9, <1>10 DEF t

\* What IsPrefix says, element by element.
LEMMA PrefixIs ==
    ASSUME NEW S, NEW s \in Seq(S), NEW t \in Seq(S)
    PROVE  IsPrefix(s, t) <=> Len(s) <= Len(t) /\ \A i \in 1 .. Len(s) : s[i] = t[i]
<1>1. Len(s) \in Nat /\ Len(t) \in Nat
  OBVIOUS
<1>2. SubSeq(s, 1, Len(s)) = s
  OBVIOUS
<1>3. ASSUME Len(s) <= Len(t)
      PROVE  SubSeq(t, 1, Len(s)) = [i \in 1 .. Len(s) |-> t[i]]
  BY <1>1, <1>3
<1>4. s = [i \in 1 .. Len(s) |-> s[i]]
  OBVIOUS
<1>5. ASSUME Len(s) <= Len(t)
      PROVE  s = SubSeq(t, 1, Len(s)) <=> \A i \in 1 .. Len(s) : s[i] = t[i]
  <2>1. SubSeq(t, 1, Len(s)) = [i \in 1 .. Len(s) |-> t[i]]
    BY <1>3, <1>5
  <2> QED
    BY <1>4, <2>1
<1> QED
  BY <1>2, <1>5 DEF IsPrefix

\* The prefixes of a list are ordered like lists.
LEMMA PrefixOrder ==
    ASSUME NEW S, NEW s \in Seq(S), NEW t \in Seq(S), NEW u \in Seq(S)
    PROVE  /\ IsPrefix(s, s)
           /\ IsPrefix(s, t) /\ IsPrefix(t, u) => IsPrefix(s, u)
           /\ IsPrefix(s, t) => Range(s) \subseteq Range(t)
<1>1. /\ Len(s) \in Nat /\ Len(t) \in Nat /\ Len(u) \in Nat
      /\ DOMAIN s = 1 .. Len(s) /\ DOMAIN t = 1 .. Len(t)
  OBVIOUS
<1>2. IsPrefix(s, s)
  BY <1>1, PrefixIs
<1>3. ASSUME IsPrefix(s, t), IsPrefix(t, u)
      PROVE  IsPrefix(s, u)
  <2>1. Len(s) <= Len(t) /\ \A i \in 1 .. Len(s) : s[i] = t[i]
    BY <1>3, PrefixIs
  <2>2. Len(t) <= Len(u) /\ \A i \in 1 .. Len(t) : t[i] = u[i]
    BY <1>3, PrefixIs
  <2>3. Len(s) <= Len(u) /\ \A i \in 1 .. Len(s) : s[i] = u[i]
    BY <1>1, <2>1, <2>2
  <2> QED
    BY <2>3, PrefixIs
<1>4. ASSUME IsPrefix(s, t)
      PROVE  Range(s) \subseteq Range(t)
  <2>1. Len(s) <= Len(t) /\ \A i \in 1 .. Len(s) : s[i] = t[i]
    BY <1>4, PrefixIs
  <2>2. \A i \in DOMAIN s : i \in DOMAIN t /\ s[i] = t[i]
    BY <1>1, <2>1
  <2> QED
    BY <2>2 DEF Range
<1> QED
  BY <1>2, <1>3, <1>4

\* A list without repetition keeps that with a new element.
LEMMA AppendedInjective ==
    ASSUME NEW S, NEW s \in Seq(S), NEW x \in S, IsInjective(s), x \notin Range(s)
    PROVE  IsInjective(Append(s, x))
<1> DEFINE t == Append(s, x)
<1>1. /\ t[Len(s) + 1] = x /\ \A i \in 1 .. Len(s) : t[i] = s[i]
      /\ DOMAIN t = 1 .. Len(s) + 1 /\ DOMAIN s = 1 .. Len(s) /\ Len(s) \in Nat
  OBVIOUS
<1> HIDE DEF t
<1>2. \A i \in 1 .. Len(s) : t[i] # x
  BY <1>1 DEF Range
<1>3. \A i, j \in 1 .. Len(s) : t[i] = t[j] => i = j
  BY <1>1 DEF IsInjective
<1>4. \A i \in DOMAIN t : i \in 1 .. Len(s) \/ i = Len(s) + 1
  BY <1>1
<1>5. \A i, j \in DOMAIN t : t[i] = t[j] => i = j
  BY <1>1, <1>2, <1>3, <1>4
<1> QED
  BY <1>5 DEF IsInjective, t

\* What pruning leaves fits, and one chunk more would not.
LEMMA PrunedFits ==
    ASSUME NEW s \in Seq(Chunk)
    PROVE  \E i \in 0 .. Len(s) :
              /\ Pruned(s) = Without(s, i) /\ Bytes(Without(s, i)) <= Cap
              /\ i > 0 => ~(Bytes(Without(s, i - 1)) <= Cap)
<1> DEFINE fits == {i \in 0 .. Len(s) : Bytes(Without(s, i)) <= Cap}
           i == CHOOSE n \in fits : \A j \in fits : n <= j
<1>1. Len(s) \in Nat /\ Cap \in Nat
  BY AttachmentsAssumption
<1>2. Len(s) \in fits
  <2>1. Without(s, Len(s)) = <<>>
    BY <1>1 DEF Without
  <2>2. Bytes(<<>>) = 0
    <3>1. Pieces # <<>> /\ Pieces \in Seq(Nat \ {0})
      BY AttachmentsAssumption
    <3>2. <<>> \in Seq(Chunk) /\ Len(<<>>) = 0
      OBVIOUS
    <3> QED
      BY <3>2, BytesSums
  <2> QED
    BY <1>1, <2>1, <2>2
<1>3. fits \in SUBSET Nat
  BY <1>1
<1>4. Pruned(s) = Without(s, i)
  BY DEF Pruned
<1> HIDE DEF fits
<1>5. \E n \in fits : \A j \in fits : n <= j
  BY <1>2, <1>3, LeastNat
<1>6. i \in fits /\ \A j \in fits : i <= j
  BY <1>5
<1> HIDE DEF i
<1>7. i \in 0 .. Len(s) /\ Bytes(Without(s, i)) <= Cap
  BY <1>6 DEF fits
<1>8. ASSUME i > 0, Bytes(Without(s, i - 1)) <= Cap
      PROVE  FALSE
  <2>1. i - 1 \in 0 .. Len(s)
    BY <1>1, <1>7, <1>8
  <2>2. i - 1 \in fits
    BY <1>8, <2>1 DEF fits
  <2> QED
    BY <1>6, <1>7, <2>2
<1> QED
  BY <1>4, <1>7, <1>8

-----------------------------------------------------------------------------
(* Discovery.                                                              *)

\* What a relay answers is a list of URLs.
LEMMA FetchedType ==
    ASSUME NEW r \in Url, NEW answered
    PROVE  FetchKnownRelays(r, answered) \in Seq(Url)
<1>1. KnownRelays[r] \in Seq(Url) /\ MAX_CANDIDATES \in Nat
  BY AttachmentsAssumption
<1>2. ListRelays[r] \in Seq(Url)
  BY <1>1, NormalizedType DEF ListRelays
<1> DEFINE l == ListRelays[r]
<1> HIDE DEF l
<1>3. l \in Seq(Url) /\ (Len(l) > MAX_CANDIDATES => SubSeq(l, 1, MAX_CANDIDATES) \in Seq(Url))
  <2>1. l \in Seq(Url) /\ Len(l) \in Nat
    BY <1>2 DEF l
  <2>2. ASSUME Len(l) > MAX_CANDIDATES
        PROVE  SubSeq(l, 1, MAX_CANDIDATES) \in Seq(Url)
    BY <1>1, <2>1, <2>2
  <2> QED
    BY <2>1, <2>2
<1>4. <<>> \in Seq(Url)
  OBVIOUS
<1> QED
  BY <1>3, <1>4 DEF FetchKnownRelays, l

\* Candidates are URLs, none of them twice, none of them in use already.
LEMMA CandidatesNew ==
    ASSUME NEW known \in Seq(Url), NEW answered
    PROVE  LET found == Candidates(known, answered) IN
           /\ found \in Seq(Url) /\ IsInjective(found)
           /\ Range(found) \cap Range(known) = {}
<1> DEFINE heard == FlattenSeq([i \in DOMAIN known |-> FetchKnownRelays(known[i], answered)])
           len == Len(heard)
           IsNew(u, found) == /\ Len(found) < MAX_CANDIDATES /\ IsDiscoverable(u)
                              /\ Host[u] \notin {Host[v] : v \in Range(known) \cup Range(found)}
           one(s, i) == IF IsNew(heard[i], s) THEN Append(s, heard[i]) ELSE s
           Is(f, j) == f = [i \in 0 .. j |-> IF i = 0 THEN <<>> ELSE one(f[i - 1], i)]
           all == CHOOSE f : Is(f, len)
           OK(s) == s \in Seq(Url) /\ IsInjective(s) /\ Range(s) \cap Range(known) = {}
<1>0. heard \in Seq(Url)
  <2> DEFINE answers == [i \in DOMAIN known |-> FetchKnownRelays(known[i], answered)]
  <2>1. \A i \in DOMAIN known : FetchKnownRelays(known[i], answered) \in Seq(Url)
    BY FetchedType
  <2>2. answers \in Seq(Seq(Url))
    BY <2>1
  <2> HIDE DEF answers
  <2>3. FlattenSeq(answers) \in Seq(Url)
    BY <2>2, Flattened
  <2> QED
    BY <2>3 DEF answers
<1>2. Candidates(known, answered) = all[len]
  BY DEF Candidates
<1> HIDE DEF heard
<1>1. len \in Nat /\ \A i \in 1 .. len : heard[i] \in Url
  BY <1>0
<1> HIDE DEF one
<1>3. \A j \in Nat : \E f : Is(f, j)
  <2> DEFINE Good == {j \in Nat : \E f : Is(f, j)}
  <2>1. 0 \in Good
    <3> DEFINE f == [i \in 0 .. 0 |-> <<>>]
    <3>1. Is(f, 0)
      OBVIOUS
    <3> HIDE DEF f
    <3> QED
      BY <3>1
  <2>2. ASSUME NEW j \in Nat, NEW f, Is(f, j)
        PROVE  \E g : Is(g, j + 1)
    <3> DEFINE g == [i \in 0 .. j + 1 |-> IF i = 0 THEN <<>> ELSE one(f[i - 1], i)]
    <3>1. \A i \in 0 .. j : g[i] = f[i]
      <4> SUFFICES ASSUME NEW i \in 0 .. j
                   PROVE  g[i] = f[i]
        OBVIOUS
      <4>1. f[i] = IF i = 0 THEN <<>> ELSE one(f[i - 1], i)
        BY <2>2
      <4> QED
        BY <4>1
    <3> HIDE DEF g
    <3>2. \A i \in 0 .. j + 1 : i # 0 => g[i - 1] = f[i - 1]
      BY <3>1
    <3>3. g = [i \in 0 .. j + 1 |-> IF i = 0 THEN <<>> ELSE one(g[i - 1], i)]
      BY <3>2 DEF g
    <3> QED
      BY <3>3
  <2> HIDE DEF Is
  <2>3. \A j \in Nat : j \in Good => j + 1 \in Good
    BY <2>2
  <2> HIDE DEF Good
  <2>4. Nat \subseteq Good
    BY <2>1, <2>3, AllNat
  <2> QED
    BY <2>4 DEF Good
<1>4. Is(all, len)
  BY <1>1, <1>3
<1> HIDE DEF all
<1>5. \A i \in 0 .. len : all[i] = IF i = 0 THEN <<>> ELSE one(all[i - 1], i)
  BY <1>4
<1> DEFINE Good == {j \in Nat : j \in 0 .. len => OK(all[j])}
<1>6. 0 \in Good
  <2>1. all[0] = <<>>
    BY <1>1, <1>5
  <2>2. <<>> \in Seq(Url) /\ DOMAIN <<>> = {}
    OBVIOUS
  <2>3. OK(<<>>)
    BY <2>2 DEF IsInjective, Range
  <2> QED
    BY <2>1, <2>3
<1>7. ASSUME NEW j \in Nat, j \in Good
      PROVE  j + 1 \in Good
  <2> SUFFICES ASSUME j + 1 \in 0 .. len
               PROVE  OK(all[j + 1])
    OBVIOUS
  <2>1. all[j + 1] = one(all[j], j + 1)
    BY <1>1, <1>5
  <2>2. OK(all[j]) /\ heard[j + 1] \in Url
    BY <1>1, <1>7
  <2> DEFINE u == heard[j + 1]
             s == all[j]
  <2>3. CASE IsNew(u, s)
    <3>1. u \notin Range(known) /\ u \notin Range(s)
      BY <2>3
    <3> HIDE DEF u, s, IsNew
    <3>2. OK(s) /\ u \in Url
      BY <2>2 DEF u, s
    <3>3. OK(Append(s, u))
      BY <3>1, <3>2, AppendedInjective, AppendedRange
    <3> QED
      BY <2>1, <2>3, <3>3 DEF one, u, s
  <2>4. CASE ~IsNew(u, s)
    BY <2>1, <2>2, <2>4 DEF one
  <2> QED
    BY <2>3, <2>4
<1> HIDE DEF Good
<1>8. Nat \subseteq Good
  BY <1>6, <1>7, AllNat
<1>9. len \in Good /\ len \in 0 .. len
  BY <1>1, <1>8
<1> QED
  BY <1>2, <1>9 DEF Good

\* Discovery keeps the relays in use, in their order, and its cap.
LEMMA AdoptedKeeps ==
    ASSUME NEW known \in Seq(Url), IsInjective(known),
           NEW candidates \in Seq(Url), IsInjective(candidates),
           Range(candidates) \cap Range(known) = {}, NEW alive
    PROVE  LET urls == Adopted(known, candidates, alive) IN
           /\ urls \in Seq(Url) /\ IsInjective(urls) /\ IsPrefix(known, urls)
           /\ Len(urls) <= IF Len(known) > MAX_RELAYS THEN Len(known) ELSE MAX_RELAYS
<1> DEFINE len == Len(candidates)
           cap == IF Len(known) > MAX_RELAYS THEN Len(known) ELSE MAX_RELAYS
           one(s, i) == IF Len(s) < MAX_RELAYS /\ candidates[i] \in alive
                        THEN Append(s, candidates[i]) ELSE s
           Is(f, j) == f = [i \in 0 .. j |-> IF i = 0 THEN known ELSE one(f[i - 1], i)]
           all == CHOOSE f : Is(f, len)
           OK(s, j) == /\ s \in Seq(Url) /\ IsInjective(s) /\ IsPrefix(known, s)
                       /\ Len(s) <= cap
                       /\ Range(s) \subseteq Range(known) \cup {candidates[i] : i \in 1 .. j}
<1>1. /\ len \in Nat /\ MAX_RELAYS \in Nat /\ Len(known) \in Nat
      /\ \A i \in 1 .. len : candidates[i] \in Url
  BY AttachmentsAssumption
<1>2. Adopted(known, candidates, alive) = all[len]
  BY DEF Adopted
<1> HIDE DEF one
<1>3. \A j \in Nat : \E f : Is(f, j)
  <2> DEFINE Good == {j \in Nat : \E f : Is(f, j)}
  <2>1. 0 \in Good
    <3> DEFINE f == [i \in 0 .. 0 |-> known]
    <3>1. Is(f, 0)
      OBVIOUS
    <3> HIDE DEF f
    <3> QED
      BY <3>1
  <2>2. ASSUME NEW j \in Nat, NEW f, Is(f, j)
        PROVE  \E g : Is(g, j + 1)
    <3> DEFINE g == [i \in 0 .. j + 1 |-> IF i = 0 THEN known ELSE one(f[i - 1], i)]
    <3>1. \A i \in 0 .. j : g[i] = f[i]
      <4> SUFFICES ASSUME NEW i \in 0 .. j
                   PROVE  g[i] = f[i]
        OBVIOUS
      <4>1. f[i] = IF i = 0 THEN known ELSE one(f[i - 1], i)
        BY <2>2
      <4> QED
        BY <4>1
    <3> HIDE DEF g
    <3>2. \A i \in 0 .. j + 1 : i # 0 => g[i - 1] = f[i - 1]
      BY <3>1
    <3>3. g = [i \in 0 .. j + 1 |-> IF i = 0 THEN known ELSE one(g[i - 1], i)]
      BY <3>2 DEF g
    <3> QED
      BY <3>3
  <2> HIDE DEF Is
  <2>3. \A j \in Nat : j \in Good => j + 1 \in Good
    BY <2>2
  <2> HIDE DEF Good
  <2>4. Nat \subseteq Good
    BY <2>1, <2>3, AllNat
  <2> QED
    BY <2>4 DEF Good
<1>4. Is(all, len)
  BY <1>1, <1>3
<1> HIDE DEF all
<1>5. \A i \in 0 .. len : all[i] = IF i = 0 THEN known ELSE one(all[i - 1], i)
  BY <1>4
<1> DEFINE Good == {j \in Nat : j \in 0 .. len => OK(all[j], j)}
<1>6. 0 \in Good
  <2>1. all[0] = known
    BY <1>1, <1>5
  <2>2. IsPrefix(known, known) /\ Len(known) <= cap
    BY <1>1, PrefixOrder
  <2> QED
    BY <2>1, <2>2
<1>7. ASSUME NEW j \in Nat, j \in Good
      PROVE  j + 1 \in Good
  <2> SUFFICES ASSUME j + 1 \in 0 .. len
               PROVE  OK(all[j + 1], j + 1)
    OBVIOUS
  <2>1. all[j + 1] = one(all[j], j + 1)
    BY <1>1, <1>5
  <2>2. OK(all[j], j) /\ candidates[j + 1] \in Url
    BY <1>1, <1>7
  <2> DEFINE u == candidates[j + 1]
             s == all[j]
             new == Len(s) < MAX_RELAYS /\ u \in alive
  <2>3. {candidates[i] : i \in 1 .. j + 1} = {candidates[i] : i \in 1 .. j} \cup {u}
    <3>1. 1 .. j + 1 = (1 .. j) \cup {j + 1}
      OBVIOUS
    <3> QED
      BY <3>1
  <2>4. u \notin Range(known) /\ u \notin {candidates[i] : i \in 1 .. j}
    <3>1. j + 1 \in DOMAIN candidates /\ \A i \in 1 .. j : i \in DOMAIN candidates /\ i # j + 1
      BY <1>1
    <3> QED
      BY <3>1 DEF Range, IsInjective
  <2>5. OK(s, j) /\ u \in Url
    BY <2>2
  <2>6. all[j + 1] = IF new THEN Append(s, u) ELSE s
    BY <2>1 DEF one
  <2> HIDE DEF u, s
  <2>7. CASE new
    <3>1. u \notin Range(s)
      BY <2>4, <2>5
    <3>2. /\ Append(s, u) \in Seq(Url) /\ Len(Append(s, u)) = Len(s) + 1
          /\ Range(Append(s, u)) = Range(s) \cup {u}
      BY <2>5, AppendedRange
    <3>3. IsInjective(Append(s, u))
      BY <2>5, <3>1, AppendedInjective
    <3>4. IsPrefix(known, Append(s, u))
      <4>1. IsPrefix(s, Append(s, u))
        <5> DEFINE t == Append(s, u)
        <5>1. /\ Len(s) \in Nat /\ Len(s) <= Len(t) /\ \A i \in 1 .. Len(s) : s[i] = t[i]
              /\ s \in Seq(Url) /\ t \in Seq(Url)
          BY <2>5, <3>2
        <5> HIDE DEF t
        <5>2. IsPrefix(s, t)
          BY <5>1, PrefixIs
        <5> QED
          BY <5>2 DEF t
      <4> QED
        BY <2>5, <3>2, <4>1, PrefixOrder
    <3>5. Len(Append(s, u)) <= cap
      <4>1. Len(s) \in Nat
        BY <2>5
      <4> QED
        BY <1>1, <2>7, <3>2, <4>1
    <3>6. OK(Append(s, u), j + 1)
      BY <2>3, <2>5, <3>2, <3>3, <3>4, <3>5
    <3> QED
      BY <2>6, <2>7, <3>6
  <2>8. CASE ~new
    <3>1. OK(s, j + 1)
      BY <2>3, <2>5
    <3> QED
      BY <2>6, <2>8, <3>1
  <2> QED
    BY <2>7, <2>8
<1> HIDE DEF Good
<1>8. Nat \subseteq Good
  BY <1>6, <1>7, AllNat
<1>9. len \in Good /\ len \in 0 .. len
  BY <1>1, <1>8
<1> QED
  BY <1>2, <1>9 DEF Good

-----------------------------------------------------------------------------
(* Types.                                                                  *)

\* The parts of TypeOK.
RelayTypes ==
    /\ relays \in [Device -> Seq(Url)] /\ saved \in [Device -> Seq(Url)]
    /\ address \in [Device -> Seq(Url)] /\ forgotten \in [Device -> SUBSET Url]
    /\ \A d \in Device :
          /\ IsInjective(relays[d])
          /\ IsPrefix(Configured, saved[d]) /\ IsPrefix(saved[d], relays[d])
          /\ Len(relays[d]) <= IF Len(Configured) > MAX_RELAYS THEN Len(Configured) ELSE MAX_RELAYS

HeldTypes ==
    /\ boxes \in [Url -> SUBSET Device]
    /\ held \in [Url -> SUBSET Chunk] /\ dropped \subseteq Chunk

SendTypes ==
    /\ op \in Sending \cup {None} /\ (op # None => op.file <= files)
    /\ files \in 0 .. MaxFiles
    /\ manifests \in [Client -> SUBSET [file : File, to : Device]]

ReadTypes ==
    /\ reading \in [Client -> Reading \cup {None}]
    /\ \A c \in Client : reading[c] # None => reading[c].manifest \in manifests[c]

CacheTypes ==
    /\ cache \in [Client -> Seq(Chunk)] /\ puts \in [Client -> Seq(Chunk)]
    /\ cut \subseteq Client

CountTypes == downloads \in 0 .. MaxDownloads /\ faults \in 0 .. MaxFaults

MemoryTypes ==
    /\ got \in [Client -> Seq(Chunk)]
    /\ opened \subseteq [by : Client, manifest : [file : File, to : Device], ok : BOOLEAN]

\* All but the last, which only a download changes.
CoreTypes ==
    RelayTypes /\ HeldTypes /\ SendTypes /\ ReadTypes /\ CacheTypes /\ CountTypes

LEMMA Parts ==
    /\ TypeOK <=> CoreTypes /\ MemoryTypes
    /\ TypeOK <=> /\ RelayTypes /\ HeldTypes /\ SendTypes /\ ReadTypes /\ CacheTypes
                  /\ CountTypes /\ MemoryTypes
<1>1. {relays, saved, address} \subseteq [Device -> Seq(Url)] <=>
          /\ relays \in [Device -> Seq(Url)] /\ saved \in [Device -> Seq(Url)]
          /\ address \in [Device -> Seq(Url)]
  OBVIOUS
<1>2. {cache, puts} \subseteq [Client -> Seq(Chunk)] <=>
          cache \in [Client -> Seq(Chunk)] /\ puts \in [Client -> Seq(Chunk)]
  OBVIOUS
<1> QED
  BY <1>1, <1>2, Zenon DEF TypeOK, RelayTypes, HeldTypes, SendTypes, ReadTypes, CacheTypes,
     CountTypes, MemoryTypes, CoreTypes

LEMMA PartsAfter ==
    ASSUME RelayTypes', HeldTypes', SendTypes', ReadTypes', CacheTypes', CountTypes'
    PROVE  CoreTypes'
  BY DEF CoreTypes

\* The constants.
LEMMA Constants ==
    /\ Sender \notin Device /\ Device \subseteq Client /\ Sender \in Client
    /\ DOMAIN Devices = 1 .. Len(Devices) /\ Len(Devices) \in Nat \ {0}
    /\ \A i \in DOMAIN Devices : Devices[i] \in Device
    /\ DOMAIN Pieces = 1 .. Len(Pieces) /\ Len(Pieces) \in Nat \ {0}
    /\ Configured \in Seq(Url) /\ IsInjective(Configured) /\ Len(Configured) \in Nat
    /\ MAX_RELAYS \in Nat /\ Cap \in Nat /\ MaxFiles \in Nat /\ MaxDownloads \in Nat
    /\ MaxFaults \in Nat
    /\ None \notin Sending /\ None \notin Reading
<1>1. /\ DOMAIN Devices = 1 .. Len(Devices) /\ Len(Devices) \in Nat \ {0}
      /\ \A i \in DOMAIN Devices : Devices[i] \in Device
  BY AttachmentsAssumption DEF Device, Range
<1>2. DOMAIN Pieces = 1 .. Len(Pieces) /\ Len(Pieces) \in Nat \ {0}
  BY AttachmentsAssumption
<1> QED
  BY <1>1, <1>2, AttachmentsAssumption DEF Client

LEMMA TypeInit == Init => TypeOK
<1> SUFFICES ASSUME Init
             PROVE  TypeOK
  OBVIOUS
<1>1. RelayTypes
  <2>1. IsPrefix(Configured, Configured)
    BY Constants, PrefixOrder
  <2>2. /\ relays = [d \in Device |-> Configured] /\ saved = relays /\ address = relays
        /\ forgotten = [d \in Device |-> {}]
    BY DEF Init
  <2> QED
    BY <2>1, <2>2, Constants DEF RelayTypes
<1>2. HeldTypes
  BY DEF Init, HeldTypes
<1>3. SendTypes
  BY Constants DEF Init, SendTypes
<1>4. ReadTypes
  BY DEF Init, ReadTypes
<1>5. CacheTypes
  <2>1. <<>> \in Seq(Chunk)
    OBVIOUS
  <2> QED
    BY <2>1 DEF Init, CacheTypes
<1>6. CountTypes
  BY Constants DEF Init, CountTypes
<1>7. MemoryTypes
  <2>1. <<>> \in Seq(Chunk)
    OBVIOUS
  <2> QED
    BY <2>1 DEF Init, MemoryTypes
<1> QED
  BY <1>1, <1>2, <1>3, <1>4, <1>5, <1>6, <1>7, Parts

\* A step keeps the parts whose variables it leaves alone.
LEMMA Untouched ==
    /\ RelayTypes /\ UNCHANGED relaySet => RelayTypes'
    /\ HeldTypes /\ UNCHANGED onRelays => HeldTypes'
    /\ SendTypes /\ UNCHANGED <<op, files, manifests>> => SendTypes'
    /\ ReadTypes /\ UNCHANGED <<reading, manifests>> => ReadTypes'
    /\ CacheTypes /\ UNCHANGED local => CacheTypes'
    /\ CountTypes /\ UNCHANGED counters => CountTypes'
<1>1. RelayTypes /\ UNCHANGED relaySet => RelayTypes'
  BY DEF RelayTypes, relaySet
<1>2. HeldTypes /\ UNCHANGED onRelays => HeldTypes'
  BY DEF HeldTypes, onRelays
<1>3. SendTypes /\ UNCHANGED <<op, files, manifests>> => SendTypes'
  BY DEF SendTypes
<1>4. ReadTypes /\ UNCHANGED <<reading, manifests>> => ReadTypes'
  BY DEF ReadTypes
<1>5. CacheTypes /\ UNCHANGED local => CacheTypes'
  BY DEF CacheTypes, local
<1>6. CountTypes /\ UNCHANGED counters => CountTypes'
  BY DEF CountTypes, counters
<1> QED
  BY <1>1, <1>2, <1>3, <1>4, <1>5, <1>6

\* A call that some relay does not answer is one fault.
LEMMA CountedType ==
    ASSUME faults \in 0 .. MaxFaults, NEW asked, NEW answered, Counted(asked, answered),
           answered = asked \/ faults < MaxFaults
    PROVE  faults' \in 0 .. MaxFaults
  BY Constants DEF Counted

LEMMA RegisteredType ==
    ASSUME HeldTypes, NEW d \in Device, NEW answered, boxes' = Registered(d, answered)
    PROVE  boxes' \in [Url -> SUBSET Device]
  BY DEF HeldTypes, Registered

\* What discovery makes of the relays of a device.
LEMMA Refreshed ==
    ASSUME RelayTypes, NEW d \in Device, RefreshRelays(d)
    PROVE  \E urls \in Seq(Url) :
              /\ relays' = [relays EXCEPT ![d] = urls]
              /\ IsInjective(urls) /\ IsPrefix(relays[d], urls) /\ Len(urls) <= MAX_RELAYS
<1> DEFINE known == relays[d]
<1>1. known \in Seq(Url) /\ IsInjective(known) /\ Len(known) < MAX_RELAYS
  BY DEF RelayTypes, RefreshRelays
<1>2. PICK answered, alive :
         relays' = [relays EXCEPT ![d] = Adopted(known, Candidates(known, answered), alive)]
  BY DEF RefreshRelays
<1> DEFINE candidates == Candidates(known, answered)
           urls == Adopted(known, candidates, alive)
<1> HIDE DEF known
<1>3. /\ candidates \in Seq(Url) /\ IsInjective(candidates)
      /\ Range(candidates) \cap Range(known) = {}
  BY <1>1, CandidatesNew
<1> HIDE DEF candidates
<1>4. /\ urls \in Seq(Url) /\ IsInjective(urls) /\ IsPrefix(known, urls)
      /\ Len(urls) <= IF Len(known) > MAX_RELAYS THEN Len(known) ELSE MAX_RELAYS
  BY <1>1, <1>3, AdoptedKeeps
<1> HIDE DEF urls
<1>5. Len(urls) <= MAX_RELAYS
  <2>1. Len(known) \in Nat
    BY <1>1
  <2> QED
    BY <1>1, <1>4, <2>1, Constants
<1>6. relays' = [relays EXCEPT ![d] = urls]
  BY <1>2 DEF urls, candidates, known
<1> QED
  BY <1>4, <1>5, <1>6 DEF known

LEMMA RefreshRelaysType ==
    ASSUME TypeOK, NEW d \in Device, RefreshRelays(d)
    PROVE  CoreTypes'
<1>1. RelayTypes /\ HeldTypes /\ SendTypes /\ ReadTypes /\ CacheTypes /\ CountTypes
  BY Parts
<1>2. RelayTypes'
  <2>1. PICK urls \in Seq(Url) :
              /\ relays' = [relays EXCEPT ![d] = urls]
              /\ IsInjective(urls) /\ IsPrefix(relays[d], urls) /\ Len(urls) <= MAX_RELAYS
    BY <1>1, Refreshed
  <2>2. /\ relays \in [Device -> Seq(Url)] /\ saved[d] \in Seq(Url) /\ relays[d] \in Seq(Url)
        /\ IsPrefix(saved[d], relays[d])
    BY <1>1 DEF RelayTypes
  <2>3. IsPrefix(saved[d], urls)
    BY <2>1, <2>2, PrefixOrder
  <2>4. UNCHANGED <<saved, forgotten, address>>
    BY DEF RefreshRelays
  <2>5. /\ relays' \in [Device -> Seq(Url)]
        /\ \A e \in Device : relays'[e] = IF e = d THEN urls ELSE relays[e]
    BY <2>1, <2>2
  <2>6. Len(urls) <= IF Len(Configured) > MAX_RELAYS THEN Len(Configured) ELSE MAX_RELAYS
    <3>1. Len(urls) \in Nat
      OBVIOUS
    <3> QED
      BY <2>1, <3>1, Constants
  <2>7. ASSUME NEW e \in Device
        PROVE  /\ IsInjective(relays'[e])
               /\ IsPrefix(Configured, saved'[e]) /\ IsPrefix(saved'[e], relays'[e])
               /\ Len(relays'[e]) <= IF Len(Configured) > MAX_RELAYS THEN Len(Configured)
                                    ELSE MAX_RELAYS
    <3>1. CASE e = d
      BY <1>1, <2>1, <2>3, <2>4, <2>5, <2>6, <3>1 DEF RelayTypes
    <3>2. CASE e # d
      BY <1>1, <2>4, <2>5, <3>2 DEF RelayTypes
    <3> QED
      BY <3>1, <3>2
  <2> QED
    BY <1>1, <2>4, <2>5, <2>7 DEF RelayTypes
<1>3. PICK urls : \E boxed \in Answering(Range(urls)) :
                boxes' = Registered(d, boxed) /\ Counted(Range(urls), boxed)
  BY DEF RefreshRelays
<1>4. PICK boxed \in Answering(Range(urls)) :
                boxes' = Registered(d, boxed) /\ Counted(Range(urls), boxed)
  BY <1>3
<1>5. UNCHANGED <<held, dropped, op, files, manifests, reading, local, downloads>>
  BY DEF RefreshRelays
<1>6. HeldTypes'
  BY <1>1, <1>4, <1>5, RegisteredType DEF HeldTypes
<1>7. CountTypes'
  BY <1>1, <1>4, <1>5, CountedType DEF CountTypes, Answering
<1> QED
  BY <1>1, <1>2, <1>5, <1>6, <1>7, Untouched, PartsAfter

LEMMA SaveSettingsType ==
    ASSUME TypeOK, NEW d \in Device, SaveSettings(d)
    PROVE  CoreTypes'
<1>1. RelayTypes /\ HeldTypes /\ SendTypes /\ ReadTypes /\ CacheTypes /\ CountTypes
  BY Parts
<1>2. /\ saved' = [saved EXCEPT ![d] = relays[d]]
      /\ UNCHANGED <<relays, forgotten, address, onRelays, op, files, manifests, reading,
                     local, counters>>
  BY DEF SaveSettings
<1>3. RelayTypes'
  <2>1. /\ saved' \in [Device -> Seq(Url)]
        /\ \A e \in Device : saved'[e] = IF e = d THEN relays[d] ELSE saved[e]
    BY <1>1, <1>2 DEF RelayTypes
  <2>2. IsPrefix(Configured, relays[d]) /\ IsPrefix(relays[d], relays[d])
    <3>1. /\ saved[d] \in Seq(Url) /\ relays[d] \in Seq(Url) /\ Configured \in Seq(Url)
          /\ IsPrefix(Configured, saved[d]) /\ IsPrefix(saved[d], relays[d])
      BY <1>1, Constants DEF RelayTypes
    <3> QED
      BY <3>1, PrefixOrder
  <2> QED
    BY <1>1, <1>2, <2>1, <2>2 DEF RelayTypes
<1> QED
  BY <1>1, <1>2, <1>3, Untouched, PartsAfter

LEMMA LookUpType ==
    ASSUME TypeOK, NEW d \in Device, LookUp(d)
    PROVE  CoreTypes'
<1>1. RelayTypes /\ HeldTypes /\ SendTypes /\ ReadTypes /\ CacheTypes /\ CountTypes
  BY Parts
<1>2. PICK urls \in {Configured, saved[d], relays[d]} : address' = [address EXCEPT ![d] = urls]
  BY DEF LookUp
<1>3. UNCHANGED <<relays, saved, forgotten, onRelays, op, files, manifests, reading, local,
                  counters>>
  BY DEF LookUp
<1>4. urls \in Seq(Url)
  BY <1>1, <1>2, Constants DEF RelayTypes
<1>5. address' \in [Device -> Seq(Url)]
  BY <1>1, <1>2, <1>4 DEF RelayTypes
<1>6. RelayTypes'
  BY <1>1, <1>3, <1>5 DEF RelayTypes
<1> QED
  BY <1>1, <1>3, <1>6, Untouched, PartsAfter

LEMMA RestartType ==
    ASSUME TypeOK, NEW d \in Device, Restart(d)
    PROVE  CoreTypes'
<1>1. RelayTypes /\ HeldTypes /\ SendTypes /\ ReadTypes /\ CacheTypes /\ CountTypes
  BY Parts
<1>2. UNCHANGED <<saved, address, held, dropped, op, files, manifests, cache, puts, downloads>>
  BY DEF Restart
<1>3. RelayTypes'
  <2>1. /\ relays' = [relays EXCEPT ![d] = saved[d]]
        /\ forgotten' = [forgotten EXCEPT ![d] = @ \cup (Range(relays[d]) \ Range(saved[d]))]
    BY DEF Restart
  <2>2. /\ relays' \in [Device -> Seq(Url)]
        /\ \A e \in Device : relays'[e] = IF e = d THEN saved[d] ELSE relays[e]
    BY <1>1, <2>1 DEF RelayTypes
  <2>3. Range(relays[d]) \subseteq Url
    <3>1. relays[d] \in Seq(Url)
      BY <1>1 DEF RelayTypes
    <3> QED
      BY <3>1 DEF Range
  <2>4. forgotten' \in [Device -> SUBSET Url]
    BY <1>1, <2>1, <2>3 DEF RelayTypes
  <2>5. saved[d] \in Seq(Url) /\ relays[d] \in Seq(Url) /\ IsPrefix(saved[d], relays[d])
    BY <1>1 DEF RelayTypes
  <2>6. /\ Len(saved[d]) <= Len(relays[d])
        /\ \A i \in 1 .. Len(saved[d]) : saved[d][i] = relays[d][i]
        /\ Len(saved[d]) \in Nat /\ Len(relays[d]) \in Nat
    BY <2>5, PrefixIs
  <2>7. IsInjective(saved[d])
    <3>1. \A i \in DOMAIN saved[d] : i \in DOMAIN relays[d] /\ saved[d][i] = relays[d][i]
      BY <2>5, <2>6
    <3>2. IsInjective(relays[d])
      BY <1>1 DEF RelayTypes
    <3> QED
      BY <3>1, <3>2, Zenon DEF IsInjective
  <2>8. IsPrefix(saved[d], saved[d])
    BY <2>5, PrefixOrder
  <2>9. Len(saved[d]) <= IF Len(Configured) > MAX_RELAYS THEN Len(Configured) ELSE MAX_RELAYS
    <3>1. Len(relays[d]) <= IF Len(Configured) > MAX_RELAYS THEN Len(Configured) ELSE MAX_RELAYS
      BY <1>1 DEF RelayTypes
    <3> QED
      BY <2>6, <3>1, Constants
  <2>10. ASSUME NEW e \in Device
         PROVE  /\ IsInjective(relays'[e])
                /\ IsPrefix(Configured, saved'[e]) /\ IsPrefix(saved'[e], relays'[e])
                /\ Len(relays'[e]) <= IF Len(Configured) > MAX_RELAYS THEN Len(Configured)
                                     ELSE MAX_RELAYS
    <3>1. CASE e = d
      BY <1>1, <1>2, <2>2, <2>7, <2>8, <2>9, <3>1 DEF RelayTypes
    <3>2. CASE e # d
      BY <1>1, <1>2, <2>2, <3>2 DEF RelayTypes
    <3> QED
      BY <3>1, <3>2
  <2> QED
    BY <1>1, <1>2, <2>2, <2>4, <2>10 DEF RelayTypes
<1>4. HeldTypes'
  <2>1. PICK boxed : boxes' = Registered(d, boxed)
    BY DEF Restart
  <2> QED
    BY <1>1, <1>2, <2>1, RegisteredType DEF HeldTypes
<1>5. CountTypes'
  BY <1>1, <1>2, Constants DEF Restart, CountTypes
<1>6. ReadTypes'
  <2>1. reading' = [reading EXCEPT ![d] = None]
    BY DEF Restart
  <2> QED
    BY <1>1, <1>2, <2>1 DEF ReadTypes
<1>7. CacheTypes'
  BY <1>1, <1>2, Constants DEF CacheTypes, Restart
<1> QED
  BY <1>1, <1>2, <1>3, <1>4, <1>5, <1>6, <1>7, Untouched, PartsAfter

LEMMA DropMailboxType ==
    ASSUME TypeOK, NEW r \in Url, NEW d \in Device, DropMailbox(r, d)
    PROVE  CoreTypes'
<1>1. RelayTypes /\ HeldTypes /\ SendTypes /\ ReadTypes /\ CacheTypes /\ CountTypes
  BY Parts
<1>2. UNCHANGED <<relaySet, op, files, manifests, reading, local, downloads>>
  BY DEF DropMailbox
<1>3. HeldTypes'
  BY <1>1 DEF HeldTypes, DropMailbox
<1>4. CountTypes'
  BY <1>1, <1>2, Constants DEF DropMailbox, CountTypes
<1> QED
  BY <1>1, <1>2, <1>3, <1>4, Untouched, PartsAfter

\* An insertion, and a pruning, of the cache.
LEMMA InsertType ==
    ASSUME CacheTypes, NEW c \in Client, NEW chunk \in Chunk, Insert(c, chunk), UNCHANGED cut
    PROVE  CacheTypes'
<1>1. cache \in [Client -> Seq(Chunk)] /\ puts \in [Client -> Seq(Chunk)]
  BY DEF CacheTypes
<1>2. CASE UNCHANGED <<cache, puts>>
  BY <1>2 DEF CacheTypes
<1>3. CASE /\ cache' = [cache EXCEPT ![c] = Append(@, chunk)]
           /\ puts' = [puts EXCEPT ![c] = Append(@, chunk)]
  <2>1. Append(cache[c], chunk) \in Seq(Chunk) /\ Append(puts[c], chunk) \in Seq(Chunk)
    BY <1>1, AppendedRange
  <2>2. cache' \in [Client -> Seq(Chunk)] /\ puts' \in [Client -> Seq(Chunk)]
    BY <1>1, <1>3, <2>1
  <2> QED
    BY <2>2 DEF CacheTypes
<1> QED
  BY <1>2, <1>3 DEF Insert

LEMMA PruneType ==
    ASSUME CacheTypes, NEW c \in Client, Prune(c)
    PROVE  CacheTypes'
<1>1. cache \in [Client -> Seq(Chunk)] /\ puts \in [Client -> Seq(Chunk)] /\ cut \subseteq Client
  BY DEF CacheTypes
<1>2. PICK i \in 0 .. Len(cache[c]) : Pruned(cache[c]) = Without(cache[c], i)
  BY <1>1, PrunedFits
<1>3. Pruned(cache[c]) \in Seq(Chunk)
  <2> DEFINE s == cache[c]
  <2>1. s \in Seq(Chunk) /\ Len(s) \in Nat /\ i \in 0 .. Len(s)
    BY <1>1
  <2> HIDE DEF s
  <2>2. SubSeq(s, i + 1, Len(s)) \in Seq(Chunk)
    BY <2>1
  <2> QED
    BY <1>2, <2>2 DEF Without, s
<1>4. cache' = [cache EXCEPT ![c] = Pruned(@)] /\ cut' = cut \ {c} /\ puts' = puts
  BY DEF Prune
<1>5. cache' \in [Client -> Seq(Chunk)]
  BY <1>1, <1>3, <1>4
<1> QED
  BY <1>1, <1>4, <1>5 DEF CacheTypes

\* A send under way, by its fields.
LEMMA OpIs ==
    ASSUME SendTypes, op # None
    PROVE  /\ op \in Sending /\ op.file \in File /\ op.file <= files
           /\ op.dev \in 1 .. Len(Devices) /\ op.at \in 1 .. Len(Pieces)
           /\ Devices[op.dev] \in Device /\ Devices[1] \in Device
           /\ files \in Nat /\ op.file \in Nat
<1>1. op \in Sending /\ op.file <= files /\ files \in Nat
  BY Constants DEF SendTypes
<1>2. op.file \in File /\ op.dev \in DOMAIN Devices /\ op.at \in DOMAIN Pieces
  BY <1>1 DEF Sending
<1>3. 1 \in DOMAIN Devices /\ op.file \in Nat
  BY <1>2, Constants DEF File
<1> QED
  BY <1>1, <1>2, <1>3, Constants

LEMMA SendFileType ==
    ASSUME TypeOK, SendFile
    PROVE  CoreTypes'
<1>1. RelayTypes /\ HeldTypes /\ SendTypes /\ ReadTypes /\ CacheTypes /\ CountTypes
  BY Parts
<1>2. /\ files < MaxFiles /\ files' = files + 1
      /\ op' = [step |-> "upload", file |-> files + 1, dev |-> 1, at |-> 1]
      /\ UNCHANGED <<relaySet, onRelays, manifests, reading, local, counters>>
  BY DEF SendFile
<1>3. SendTypes'
  <2>1. /\ files' \in 0 .. MaxFiles /\ files + 1 \in File
        /\ 1 \in DOMAIN Devices /\ 1 \in DOMAIN Pieces
    BY <1>1, <1>2, Constants DEF SendTypes, File
  <2>2. op' \in Sending /\ op'.file = files'
    BY <1>2, <2>1 DEF Sending
  <2>3. op'.file <= files'
    BY <2>1, <2>2
  <2> QED
    BY <1>1, <1>2, <2>1, <2>2, <2>3 DEF SendTypes
<1> QED
  BY <1>1, <1>2, <1>3, Untouched, PartsAfter

\* The next upload of a send.
LEMMA UploadedType ==
    ASSUME SendTypes, op # None
    PROVE  Uploaded(op) \in Sending /\ Uploaded(op).file = op.file
<1>1. /\ op \in Sending /\ op.dev \in 1 .. Len(Devices) /\ op.at \in 1 .. Len(Pieces)
      /\ Len(Devices) \in Nat \ {0} /\ Len(Pieces) \in Nat \ {0}
      /\ DOMAIN Devices = 1 .. Len(Devices) /\ DOMAIN Pieces = 1 .. Len(Pieces)
  BY OpIs, Constants
<1>2. CASE op.at < Len(Pieces)
  <2>1. op.at + 1 \in DOMAIN Pieces /\ Uploaded(op) = [op EXCEPT !.at = @ + 1]
    BY <1>1, <1>2 DEF Uploaded
  <2> QED
    BY <1>1, <2>1 DEF Sending
<1>3. CASE ~(op.at < Len(Pieces)) /\ op.dev < Len(Devices)
  <2>1. /\ op.dev + 1 \in DOMAIN Devices /\ 1 \in DOMAIN Pieces
        /\ Uploaded(op) = [op EXCEPT !.dev = @ + 1, !.at = 1]
    BY <1>1, <1>3 DEF Uploaded
  <2> QED
    BY <1>1, <2>1 DEF Sending
<1>4. CASE ~(op.at < Len(Pieces)) /\ ~(op.dev < Len(Devices))
  <2>1. /\ 1 \in DOMAIN Devices /\ 1 \in DOMAIN Pieces
        /\ Uploaded(op) = [op EXCEPT !.step = "keep", !.dev = 1, !.at = 1]
    BY <1>1, <1>4 DEF Uploaded
  <2> QED
    BY <1>1, <2>1 DEF Sending
<1> QED
  BY <1>2, <1>3, <1>4

\* A step that goes on with the send, or ends it.
LEMMA OpStep ==
    ASSUME SendTypes, op # None,
           op' = None \/ (op' \in Sending /\ op'.file = op.file),
           UNCHANGED <<files, manifests>>
    PROVE  SendTypes'
  BY OpIs DEF SendTypes

LEMMA UploadChunkType ==
    ASSUME TypeOK, UploadChunk
    PROVE  CoreTypes'
<1>1. RelayTypes /\ HeldTypes /\ SendTypes /\ ReadTypes /\ CacheTypes /\ CountTypes
  BY Parts
<1> DEFINE d == Devices[op.dev]
           chunk == [file |-> op.file, to |-> d, n |-> op.at]
           open == {r \in Range(address[d]) : d \in boxes[r]}
<1>2. /\ op # None /\ op.step = "upload"
      /\ UNCHANGED <<relaySet, boxes, dropped, files, manifests, reading, local, downloads>>
  BY DEF UploadChunk
<1>3. PICK stored \in Answering(open) : \E answered \in {stored, {}} :
              /\ Counted(open, answered)
              /\ stored # answered => faults < MaxFaults
              /\ held' = [r \in Url |-> IF r \in stored THEN held[r] \cup {chunk} ELSE held[r]]
              /\ op' = IF answered = {} THEN None ELSE Uploaded(op)
  BY DEF UploadChunk
<1>a. PICK answered \in {stored, {}} :
              /\ Counted(open, answered)
              /\ stored # answered => faults < MaxFaults
              /\ held' = [r \in Url |-> IF r \in stored THEN held[r] \cup {chunk} ELSE held[r]]
              /\ op' = IF answered = {} THEN None ELSE Uploaded(op)
  BY <1>3
<1>4. chunk \in Chunk
  BY <1>1, <1>2, OpIs, Constants DEF Chunk
<1> HIDE DEF chunk, open
<1>5. HeldTypes'
  BY <1>1, <1>2, <1>a, <1>4 DEF HeldTypes
<1>6. CountTypes'
  BY <1>1, <1>2, <1>a, CountedType DEF CountTypes, Answering
<1>7. SendTypes'
  BY <1>1, <1>2, <1>a, UploadedType, OpStep
<1> QED
  BY <1>1, <1>2, <1>5, <1>6, <1>7, Untouched, PartsAfter

LEMMA KeepChunkType ==
    ASSUME TypeOK, KeepChunk
    PROVE  CoreTypes'
<1>1. RelayTypes /\ HeldTypes /\ SendTypes /\ ReadTypes /\ CacheTypes /\ CountTypes
  BY Parts
<1> DEFINE chunk == ChunksOf([file |-> op.file, to |-> Devices[1]])[op.at]
<1>2. /\ op # None /\ Insert(Sender, chunk) /\ op' = [op EXCEPT !.step = "prune"]
      /\ UNCHANGED <<relaySet, onRelays, files, manifests, reading, cut, counters>>
  BY DEF KeepChunk
<1>3. chunk \in Chunk
  BY <1>1, <1>2, OpIs, Constants DEF Chunk, ChunksOf
<1> HIDE DEF chunk
<1>4. CacheTypes'
  BY <1>1, <1>2, <1>3, InsertType, Constants
<1>5. op' \in Sending /\ op'.file = op.file
  BY <1>1, <1>2, OpIs DEF Sending
<1>6. SendTypes'
  BY <1>1, <1>2, <1>5, OpStep
<1> QED
  BY <1>1, <1>2, <1>4, <1>6, Untouched, PartsAfter

LEMMA PruneKeptType ==
    ASSUME TypeOK, PruneKept
    PROVE  CoreTypes'
<1>1. RelayTypes /\ HeldTypes /\ SendTypes /\ ReadTypes /\ CacheTypes /\ CountTypes
  BY Parts
<1>2. /\ op # None /\ Prune(Sender)
      /\ op' = IF op.at < Len(Pieces) THEN [op EXCEPT !.step = "keep", !.at = @ + 1]
               ELSE [op EXCEPT !.step = "send", !.at = 1]
      /\ UNCHANGED <<relaySet, onRelays, files, manifests, reading, counters>>
  BY DEF PruneKept
<1>3. CacheTypes'
  BY <1>1, <1>2, PruneType, Constants
<1>4. op' \in Sending /\ op'.file = op.file
  <2>1. /\ op \in Sending /\ op.at \in 1 .. Len(Pieces) /\ Len(Pieces) \in Nat \ {0}
        /\ DOMAIN Pieces = 1 .. Len(Pieces)
    BY <1>1, <1>2, OpIs, Constants
  <2>2. CASE op.at < Len(Pieces)
    <3>1. op.at + 1 \in DOMAIN Pieces /\ op' = [op EXCEPT !.step = "keep", !.at = @ + 1]
      BY <1>2, <2>1, <2>2
    <3> QED
      BY <2>1, <3>1 DEF Sending
  <2>3. CASE ~(op.at < Len(Pieces))
    <3>1. 1 \in DOMAIN Pieces /\ op' = [op EXCEPT !.step = "send", !.at = 1]
      BY <1>2, <2>1, <2>3
    <3> QED
      BY <2>1, <3>1 DEF Sending
  <2> QED
    BY <2>2, <2>3
<1>5. SendTypes'
  BY <1>1, <1>2, <1>4, OpStep
<1> QED
  BY <1>1, <1>2, <1>3, <1>5, Untouched, PartsAfter

\* A message more at a client.
LEMMA ManifestsType ==
    ASSUME SendTypes, ReadTypes, op # None, NEW c \in Client, NEW d \in Device,
           manifests' = [manifests EXCEPT ![c] = @ \cup {Manifest(op.file, d)}],
           op' = None \/ (op' \in Sending /\ op'.file = op.file), UNCHANGED <<files, reading>>
    PROVE  SendTypes' /\ ReadTypes'
<1>1. Manifest(op.file, d) \in [file : File, to : Device]
  BY OpIs DEF Manifest
<1>2. /\ manifests' \in [Client -> SUBSET [file : File, to : Device]]
      /\ \A e \in Client : manifests[e] \subseteq manifests'[e]
  BY <1>1 DEF SendTypes
<1>3. op' # None => op'.file <= files'
  BY OpIs
<1> QED
  BY <1>2, <1>3 DEF SendTypes, ReadTypes

LEMMA FanOutType ==
    ASSUME TypeOK, FanOut
    PROVE  CoreTypes'
<1>1. RelayTypes /\ HeldTypes /\ SendTypes /\ ReadTypes /\ CacheTypes /\ CountTypes
  BY Parts
<1> DEFINE d == Devices[op.dev]
<1>2. /\ op # None
      /\ manifests' = [manifests EXCEPT ![d] = @ \cup {Manifest(op.file, d)}]
      /\ op' = IF op.dev < Len(Devices) THEN [op EXCEPT !.dev = @ + 1]
               ELSE [op EXCEPT !.step = "record"]
      /\ UNCHANGED <<relaySet, onRelays, files, reading, local, counters>>
  BY DEF FanOut
<1>3. op' \in Sending /\ op'.file = op.file
  <2>1. /\ op \in Sending /\ op.dev \in 1 .. Len(Devices) /\ Len(Devices) \in Nat \ {0}
        /\ DOMAIN Devices = 1 .. Len(Devices)
    BY <1>1, <1>2, OpIs, Constants
  <2>2. CASE op.dev < Len(Devices)
    <3>1. op.dev + 1 \in DOMAIN Devices /\ op' = [op EXCEPT !.dev = @ + 1]
      BY <1>2, <2>1, <2>2
    <3> QED
      BY <2>1, <3>1 DEF Sending
  <2>3. CASE ~(op.dev < Len(Devices))
    BY <1>2, <2>1, <2>3 DEF Sending
  <2> QED
    BY <2>2, <2>3
<1>4. d \in Device /\ d \in Client
  BY <1>1, <1>2, OpIs, Constants
<1> HIDE DEF d
<1>5. SendTypes' /\ ReadTypes'
  BY <1>1, <1>2, <1>3, <1>4, ManifestsType
<1> QED
  BY <1>1, <1>2, <1>5, Untouched, PartsAfter

LEMMA AddMessageType ==
    ASSUME TypeOK, AddMessage
    PROVE  CoreTypes'
<1>1. RelayTypes /\ HeldTypes /\ SendTypes /\ ReadTypes /\ CacheTypes /\ CountTypes
  BY Parts
<1>2. /\ op # None /\ op' = None
      /\ manifests' = [manifests EXCEPT ![Sender] = @ \cup {Manifest(op.file, Devices[1])}]
      /\ UNCHANGED <<relaySet, onRelays, files, reading, local, counters>>
  BY DEF AddMessage
<1>3. Devices[1] \in Device
  BY <1>1, <1>2, OpIs
<1>4. SendTypes' /\ ReadTypes'
  BY <1>1, <1>2, <1>3, ManifestsType, Constants
<1> QED
  BY <1>1, <1>2, <1>4, Untouched, PartsAfter

LEMMA SendEndsType ==
    ASSUME TypeOK, SendEnds
    PROVE  CoreTypes'
<1>1. RelayTypes /\ HeldTypes /\ SendTypes /\ ReadTypes /\ CacheTypes /\ CountTypes
  BY Parts
<1>2. /\ op # None /\ op' = None
      /\ UNCHANGED <<relaySet, onRelays, files, manifests, reading, cache, puts, downloads>>
  BY DEF SendEnds
<1>3. SendTypes'
  BY <1>1, <1>2, OpStep
<1>4. CacheTypes'
  BY <1>1, <1>2, Constants DEF SendEnds, CacheTypes
<1>5. CountTypes'
  BY <1>1, <1>2, Constants DEF SendEnds, CountTypes
<1> QED
  BY <1>1, <1>2, <1>3, <1>4, <1>5, Untouched, PartsAfter

LEMMA DownloadType ==
    ASSUME TypeOK, NEW c \in Client, Download(c)
    PROVE  CoreTypes'
<1>1. RelayTypes /\ HeldTypes /\ SendTypes /\ ReadTypes /\ CacheTypes /\ CountTypes
  BY Parts
<1>2. UNCHANGED <<relaySet, onRelays, op, files, manifests, local, faults>>
  BY DEF Download
<1>3. PICK m \in manifests[c] :
          reading' = [reading EXCEPT ![c] = [step |-> "get", manifest |-> m, at |-> 1]]
  BY DEF Download
<1>4. ReadTypes'
  <2>1. m \in [file : File, to : Device] /\ 1 \in DOMAIN Pieces
    BY <1>1, <1>3, Constants DEF SendTypes
  <2>2. [step |-> "get", manifest |-> m, at |-> 1] \in Reading
    BY <2>1 DEF Reading
  <2> QED
    BY <1>1, <1>2, <1>3, <2>2 DEF ReadTypes
<1>5. CountTypes'
  BY <1>1, <1>2, Constants DEF Download, CountTypes
<1> QED
  BY <1>1, <1>2, <1>4, <1>5, Untouched, PartsAfter

\* A download under way, by its fields.
LEMMA ReadingIs ==
    ASSUME ReadTypes, NEW c \in Client, reading[c] # None
    PROVE  /\ reading[c] \in Reading /\ reading[c].at \in 1 .. Len(Pieces)
           /\ reading[c].manifest \in [file : File, to : Device]
           /\ ChunksOf(reading[c].manifest)[reading[c].at] \in Chunk
<1>1. reading[c] \in Reading
  BY DEF ReadTypes
<1>2. reading[c].at \in DOMAIN Pieces /\ reading[c].manifest \in [file : File, to : Device]
  BY <1>1 DEF Reading
<1>3. ChunksOf(reading[c].manifest)[reading[c].at] \in Chunk
  BY <1>2 DEF ChunksOf, Chunk
<1> QED
  BY <1>1, <1>2, <1>3, Constants

\* A step that goes on with a download, or ends it.
LEMMA ReadStep ==
    ASSUME ReadTypes, NEW c \in Client, reading[c] # None, UNCHANGED manifests, NEW r,
           r = None \/ r = Advanced(reading[c]) \/ r = [reading[c] EXCEPT !.step = "prune"],
           reading' = [reading EXCEPT ![c] = r]
    PROVE  ReadTypes'
<1>1. /\ reading[c] \in Reading /\ reading[c].at \in 1 .. Len(Pieces)
      /\ Len(Pieces) \in Nat /\ DOMAIN Pieces = 1 .. Len(Pieces)
  BY ReadingIs, Constants
<1> DEFINE old == reading[c]
<1>2. r = None \/ (r \in Reading /\ r.manifest = old.manifest)
  <2>1. CASE r = Advanced(old)
    <3>1. CASE old.at < Len(Pieces)
      <4>1. old.at + 1 \in DOMAIN Pieces /\ r = [old EXCEPT !.step = "get", !.at = @ + 1]
        BY <1>1, <2>1, <3>1 DEF Advanced
      <4> QED
        BY <1>1, <4>1 DEF Reading
    <3>2. CASE ~(old.at < Len(Pieces))
      BY <2>1, <3>2 DEF Advanced
    <3> QED
      BY <3>1, <3>2
  <2>2. CASE r = [old EXCEPT !.step = "prune"]
    BY <1>1, <2>2 DEF Reading
  <2> QED
    BY <2>1, <2>2
<1> HIDE DEF old
<1>3. old.manifest \in manifests[c]
  BY DEF ReadTypes, old
<1> QED
  BY <1>2, <1>3 DEF ReadTypes

LEMMA GetChunkType ==
    ASSUME TypeOK, NEW c \in Client, GetChunk(c)
    PROVE  CoreTypes'
<1>1. RelayTypes /\ HeldTypes /\ SendTypes /\ ReadTypes /\ CacheTypes /\ CountTypes
  BY Parts
<1> DEFINE chunk == ChunksOf(reading[c].manifest)[reading[c].at]
<1>2. /\ reading[c] # None
      /\ UNCHANGED <<relaySet, onRelays, op, files, manifests, cut, downloads>>
  BY DEF GetChunk
<1>3. chunk \in Chunk /\ reading \in [Client -> Reading \cup {None}]
  BY <1>1, <1>2, ReadingIs DEF ReadTypes
<1>4. \/ /\ reading' = [reading EXCEPT ![c] = Advanced(@)]
         /\ UNCHANGED <<cache, puts, faults>>
      \/ \E answered \in Answering(Found(c, chunk)) :
                /\ Counted(Found(c, chunk), answered)
                /\ IF answered = {}
                   THEN /\ reading' = [reading EXCEPT ![c] = None]
                        /\ UNCHANGED <<cache, puts>>
                   ELSE /\ Insert(c, chunk)
                        /\ reading' = [reading EXCEPT ![c].step = "prune"]
  BY DEF GetChunk, Collect
<1> HIDE DEF chunk
<1>5. CASE /\ reading' = [reading EXCEPT ![c] = Advanced(@)]
           /\ UNCHANGED <<cache, puts, faults>>
  <2>1. ReadTypes'
    BY <1>1, <1>2, <1>3, <1>5, ReadStep
  <2>2. UNCHANGED local /\ UNCHANGED counters
    BY <1>2, <1>5 DEF local, counters
  <2> QED
    BY <1>1, <1>2, <2>1, <2>2, Untouched, PartsAfter
<1>6. CASE \E answered \in Answering(Found(c, chunk)) :
                /\ Counted(Found(c, chunk), answered)
                /\ IF answered = {}
                   THEN /\ reading' = [reading EXCEPT ![c] = None]
                        /\ UNCHANGED <<cache, puts>>
                   ELSE /\ Insert(c, chunk)
                        /\ reading' = [reading EXCEPT ![c].step = "prune"]
  <2>1. PICK answered \in Answering(Found(c, chunk)) :
                /\ Counted(Found(c, chunk), answered)
                /\ IF answered = {}
                   THEN /\ reading' = [reading EXCEPT ![c] = None]
                        /\ UNCHANGED <<cache, puts>>
                   ELSE /\ Insert(c, chunk)
                        /\ reading' = [reading EXCEPT ![c].step = "prune"]
    BY <1>6
  <2>2. CountTypes'
    BY <1>1, <1>2, <2>1, CountedType DEF CountTypes, Answering
  <2>3. ReadTypes'
    <3>1. CASE answered = {}
      BY <1>1, <1>2, <2>1, <3>1, ReadStep
    <3>2. CASE answered # {}
      <4>1. reading' = [reading EXCEPT ![c] = [reading[c] EXCEPT !.step = "prune"]]
        BY <2>1, <3>2
      <4> QED
        BY <1>1, <1>2, <4>1, ReadStep
    <3> QED
      BY <3>1, <3>2
  <2>4. CacheTypes'
    <3>1. CASE answered = {}
      <4>1. UNCHANGED local
        BY <1>2, <2>1, <3>1 DEF local
      <4> QED
        BY <1>1, <4>1, Untouched
    <3>2. CASE answered # {}
      BY <1>1, <1>2, <1>3, <2>1, <3>2, InsertType
    <3> QED
      BY <3>1, <3>2
  <2> QED
    BY <1>1, <1>2, <2>2, <2>3, <2>4, Untouched, PartsAfter
<1> QED
  BY <1>4, <1>5, <1>6

LEMMA PruneFetchedType ==
    ASSUME TypeOK, NEW c \in Client, PruneFetched(c)
    PROVE  CoreTypes'
<1>1. RelayTypes /\ HeldTypes /\ SendTypes /\ ReadTypes /\ CacheTypes /\ CountTypes
  BY Parts
<1>2. /\ reading[c] # None /\ Prune(c) /\ reading' = [reading EXCEPT ![c] = Advanced(@)]
      /\ UNCHANGED <<relaySet, onRelays, op, files, manifests, counters>>
  BY DEF PruneFetched, Collect
<1>3. CacheTypes'
  BY <1>1, <1>2, PruneType
<1>4. ReadTypes'
  <2>1. reading' = [reading EXCEPT ![c] = Advanced(reading[c])]
    BY <1>1, <1>2 DEF ReadTypes
  <2> QED
    BY <1>1, <1>2, <2>1, ReadStep
<1> QED
  BY <1>1, <1>2, <1>3, <1>4, Untouched, PartsAfter

\* A chunk more in memory, or the file put together from them.
LEMMA CollectMemory ==
    ASSUME TypeOK, NEW c \in Client, reading[c] # None, Collect(c)
    PROVE  MemoryTypes'
<1> DEFINE m == reading[c].manifest
           all == Collected(c, ChunksOf(m)[reading[c].at])
<1>1. MemoryTypes /\ m \in [file : File, to : Device] /\ ChunksOf(m)[reading[c].at] \in Chunk
  BY Parts, ReadingIs
<1>2. all \in Seq(Chunk) /\ <<>> \in Seq(Chunk)
  BY <1>1 DEF Collected, MemoryTypes
<1>3. DecryptAttachment(m, all) \in BOOLEAN
  BY DEF DecryptAttachment
<1>4. \/ got' = [got EXCEPT ![c] = all] /\ opened' = opened
      \/ /\ got' = [got EXCEPT ![c] = <<>>]
         /\ opened' = opened \cup {[by |-> c, manifest |-> m,
                                   ok |-> DecryptAttachment(m, all)]}
  BY DEF Collect
<1>5. PICK b \in BOOLEAN : b = DecryptAttachment(m, all)
  BY <1>3
<1>6. PICK x \in [file : File, to : Device] : x = m
  BY <1>1
<1>7. PICK t \in Seq(Chunk) : t = all
  BY <1>2
<1> HIDE DEF m, all
<1>8. [by |-> c, manifest |-> x, ok |-> b]
        \in [by : Client, manifest : [file : File, to : Device], ok : BOOLEAN]
  BY Zenon
<1>9. got' \in [Client -> Seq(Chunk)]
  BY <1>1, <1>2, <1>4, <1>7 DEF MemoryTypes
<1>10. opened' = opened \/ opened' = opened \cup {[by |-> c, manifest |-> x, ok |-> b]}
  BY <1>4, <1>5, <1>6
<1> QED
  BY <1>1, <1>8, <1>9, <1>10 DEF MemoryTypes

LEMMA MemoryStep ==
    ASSUME TypeOK, [Next]_vars
    PROVE  MemoryTypes'
<1>1. MemoryTypes /\ <<>> \in Seq(Chunk)
  BY Parts
<1>2. ASSUME UNCHANGED memory
      PROVE  MemoryTypes'
  BY <1>1, <1>2 DEF MemoryTypes, memory
<1>3. ASSUME NEW c \in Client, got' = [got EXCEPT ![c] = <<>>] \/ got' = got,
             opened' = opened
      PROVE  MemoryTypes'
  BY <1>1, <1>3 DEF MemoryTypes
<1>4. ASSUME NEW c \in Client, GetChunk(c)
      PROVE  MemoryTypes'
  <2>1. CASE Collect(c)
    BY <1>4, <2>1, CollectMemory DEF GetChunk
  <2>2. CASE (got' = [got EXCEPT ![c] = <<>>] \/ got' = got) /\ opened' = opened
    BY <1>3, <2>2
  <2> QED
    BY <1>4, <2>1, <2>2 DEF GetChunk
<1>5. ASSUME NEW c \in Client, PruneFetched(c)
      PROVE  MemoryTypes'
  BY <1>5, CollectMemory DEF PruneFetched
<1>6. ASSUME NEW d \in Device, Restart(d)
      PROVE  MemoryTypes'
  BY <1>3, <1>6, Constants DEF Restart
<1>7. CASE Send
  BY <1>2, <1>7 DEF Send, SendFile, UploadChunk, KeepChunk, PruneKept, FanOut, AddMessage,
     SendEnds
<1>8. ASSUME NEW d \in Device, RefreshRelays(d) \/ SaveSettings(d) \/ LookUp(d)
      PROVE  MemoryTypes'
  BY <1>2, <1>8 DEF RefreshRelays, SaveSettings, LookUp
<1>9. ASSUME NEW c \in Client, Download(c)
      PROVE  MemoryTypes'
  BY <1>2, <1>9 DEF Download
<1>10. ASSUME NEW r \in Url, NEW d \in Device, DropMailbox(r, d)
       PROVE  MemoryTypes'
  BY <1>2, <1>10 DEF DropMailbox
<1>11. CASE UNCHANGED vars
  BY <1>2, <1>11 DEF vars
<1> QED
  BY <1>4, <1>5, <1>6, <1>7, <1>8, <1>9, <1>10, <1>11 DEF Next

LEMMA TypeStep == TypeOK /\ [Next]_vars => TypeOK'
<1> SUFFICES ASSUME TypeOK, [Next]_vars
             PROVE  TypeOK'
  OBVIOUS
<1>0. MemoryTypes'
  BY MemoryStep
<1>1. ASSUME Next
      PROVE  CoreTypes'
  BY <1>1, SendFileType, UploadChunkType, KeepChunkType, PruneKeptType, FanOutType,
     AddMessageType, SendEndsType, DownloadType, GetChunkType, PruneFetchedType,
     RefreshRelaysType, SaveSettingsType, LookUpType, RestartType, DropMailboxType
  DEF Next, Send
<1>2. ASSUME UNCHANGED vars
      PROVE  CoreTypes'
  <2>1. RelayTypes /\ HeldTypes /\ SendTypes /\ ReadTypes /\ CacheTypes /\ CountTypes
    BY Parts
  <2>2. UNCHANGED <<relaySet, onRelays, op, files, manifests, reading, local, counters>>
    BY <1>2 DEF vars
  <2> QED
    BY <2>1, <2>2, Untouched, PartsAfter
<1>3. CoreTypes' /\ MemoryTypes'
  BY <1>0, <1>1, <1>2
<1> QED
  BY <1>3, Parts, PTL

\* Every variable keeps its type; discovery (discover_relays, refresh_relays) keeps the
\* configured relays first, adopts none twice and none beyond MAX_RELAYS, and what is
\* saved is the beginning of what is used, for any relays, lists and answers.
THEOREM TypeCorrect == Spec => []TypeOK
<1> QED
  BY TypeInit, TypeStep, PTL DEF Spec

-----------------------------------------------------------------------------
(* Files.                                                                  *)

\* The relays that a device uses, or used before a restart.
Reach(d) == Range(relays[d]) \cup forgotten[d]

\* A chunk that such a relay holds, unless one removed it with its mailbox.
Available(c) == c \in dropped \/ \E r \in Reach(c.to) : c \in held[r]

\* The uploads that a send has behind it.
Done(o, i, n) ==
    o.step # "upload" \/ i < o.dev \/ (i = o.dev /\ n < o.at)

\* The sender uploads where the device looks, and a message is sent when everything it
\* names has been uploaded.
AddressInv == \A d \in Device : Range(address[d]) \subseteq Reach(d)

UploadInv ==
    op # None =>
        \A i \in DOMAIN Devices, n \in DOMAIN Pieces :
            Done(op, i, n) => Available([file |-> op.file, to |-> Devices[i], n |-> n])

ManifestInv ==
    \A d \in Device : \A m \in manifests[d] :
        m.to = d /\ \A n \in DOMAIN Pieces : Available(ChunksOf(m)[n])

FileInv == AddressInv /\ UploadInv /\ ManifestInv

\* Nothing gets out of reach.
Kept ==
    /\ \A d \in Device : Reach(d) \subseteq Reach(d)'
    /\ dropped \subseteq dropped'
    /\ \A r \in Url : \A c \in held[r] : c \in held'[r] \/ c \in dropped'

LEMMA ReachType ==
    ASSUME RelayTypes, NEW d \in Device
    PROVE  /\ Reach(d) \subseteq Url /\ Range(address[d]) \subseteq Url
           /\ Range(Configured) \subseteq Range(relays[d])
           /\ Range(saved[d]) \subseteq Range(relays[d])
<1>1. /\ relays[d] \in Seq(Url) /\ address[d] \in Seq(Url) /\ forgotten[d] \subseteq Url
      /\ saved[d] \in Seq(Url) /\ Configured \in Seq(Url)
      /\ IsPrefix(Configured, saved[d]) /\ IsPrefix(saved[d], relays[d])
  BY Constants DEF RelayTypes
<1>2. Range(relays[d]) \subseteq Url /\ Range(address[d]) \subseteq Url
  BY <1>1 DEF Range
<1>3. Range(Configured) \subseteq Range(saved[d]) /\ Range(saved[d]) \subseteq Range(relays[d])
  BY <1>1, PrefixOrder
<1> QED
  BY <1>1, <1>2, <1>3 DEF Reach

LEMMA AvailableStays ==
    ASSUME TypeOK, Kept, NEW c \in Chunk, Available(c)
    PROVE  Available(c)'
<1>1. c.to \in Device
  BY DEF Chunk
<1>2. CASE c \in dropped
  BY <1>2 DEF Kept, Available
<1>3. CASE \E r \in Reach(c.to) : c \in held[r]
  <2>1. PICK r \in Reach(c.to) : c \in held[r]
    BY <1>3
  <2>2. r \in Url
    BY <1>1, Parts, ReachType
  <2>3. c \in held'[r] \/ c \in dropped'
    BY <2>1, <2>2 DEF Kept
  <2>4. r \in Reach(c.to)'
    BY <1>1, <2>1 DEF Kept
  <2> QED
    BY <2>3, <2>4 DEF Available
<1> QED
  BY <1>2, <1>3 DEF Available

\* A step that leaves relays and chunks alone keeps everything within reach.
LEMMA KeptSame ==
    ASSUME UNCHANGED <<relays, forgotten, held, dropped>>
    PROVE  Kept
  BY DEF Kept, Reach

\* What a send has uploaded stays so when it goes on with other things, or ends.
LEMMA UploadKept ==
    ASSUME TypeOK, UploadInv, Kept, op # None,
           op' # None => op'.step # "upload" /\ op'.file = op.file,
           op.step # "upload"
    PROVE  UploadInv'
<1> SUFFICES ASSUME op' # None, NEW i \in DOMAIN Devices, NEW n \in DOMAIN Pieces
             PROVE  Available([file |-> op.file, to |-> Devices[i], n |-> n])'
  BY DEF UploadInv
<1> DEFINE c == [file |-> op.file, to |-> Devices[i], n |-> n]
<1>1. c \in Chunk
  BY Parts, OpIs, Constants DEF Chunk
<1>2. Available(c)
  BY DEF UploadInv, Done
<1> QED
  BY <1>1, <1>2, AvailableStays

\* A send, the addresses and the messages, while they are left alone.
LEMMA FileSame ==
    ASSUME TypeOK, FileInv, Kept
    PROVE  /\ UNCHANGED address => AddressInv'
           /\ UNCHANGED op \/ op' = None => UploadInv'
           /\ (\A d \in Device : manifests'[d] = manifests[d]) => ManifestInv'
<1>1. ASSUME UNCHANGED address
      PROVE  AddressInv'
  BY <1>1 DEF FileInv, AddressInv, Kept
<1>2. ASSUME UNCHANGED op
      PROVE  UploadInv'
  <2> SUFFICES ASSUME op' # None, NEW i \in DOMAIN Devices, NEW n \in DOMAIN Pieces,
                      Done(op', i, n)
               PROVE  Available([file |-> op.file, to |-> Devices[i], n |-> n])'
    BY DEF UploadInv
  <2>1. PICK f : f = op.file
    OBVIOUS
  <2> DEFINE c == [file |-> f, to |-> Devices[i], n |-> n]
  <2>2. c \in Chunk
    BY <1>2, <2>1, Parts, OpIs, Constants DEF Chunk
  <2>3. Available(c)
    BY <1>2, <2>1 DEF FileInv, UploadInv
  <2>4. Available(c)'
    BY <2>2, <2>3, AvailableStays
  <2> QED
    BY <1>2, <2>1, <2>4
<1>3. ASSUME op' = None
      PROVE  UploadInv'
  BY <1>3 DEF UploadInv
<1>4. ASSUME \A d \in Device : manifests'[d] = manifests[d]
      PROVE  ManifestInv'
  <2> SUFFICES ASSUME NEW d \in Device, NEW m \in manifests[d], NEW n \in DOMAIN Pieces
               PROVE  m.to = d /\ Available(ChunksOf(m)[n])'
    <3>1. \A d \in Device : \A m \in manifests[d] :
             m.to = d /\ \A n \in DOMAIN Pieces : Available(ChunksOf(m)[n])'
      <4>1. \E n : n \in DOMAIN Pieces
        <5>1. 1 \in DOMAIN Pieces
          BY Constants
        <5> QED
          BY <5>1
      <4> QED
        BY <4>1
    <3> QED
      BY <1>4, <3>1 DEF ManifestInv
  <2>1. m.to = d /\ Available(ChunksOf(m)[n])
    BY DEF FileInv, ManifestInv
  <2>2. ChunksOf(m)[n] \in Chunk
    <3>1. m \in [file : File, to : Device]
      BY Parts, Constants DEF SendTypes
    <3> QED
      BY <3>1 DEF ChunksOf, Chunk
  <2> QED
    BY <2>1, <2>2, AvailableStays
<1> QED
  BY <1>1, <1>2, <1>3, <1>4

LEMMA FileInit == Init => FileInv
<1> SUFFICES ASSUME Init
             PROVE  FileInv
  OBVIOUS
<1>1. AddressInv
  BY DEF Init, AddressInv, Reach
<1>2. UploadInv
  BY DEF Init, UploadInv
<1>3. ManifestInv
  BY Constants DEF Init, ManifestInv
<1> QED
  BY <1>1, <1>2, <1>3 DEF FileInv

\* Discovery only adds.
LEMMA RefreshRelaysFile ==
    ASSUME TypeOK, FileInv, NEW d \in Device, RefreshRelays(d)
    PROVE  FileInv'
<1>1. UNCHANGED <<forgotten, address, held, dropped, op, manifests>>
  BY DEF RefreshRelays
<1>2. PICK urls \in Seq(Url) :
              /\ relays' = [relays EXCEPT ![d] = urls] /\ IsPrefix(relays[d], urls)
  BY Parts, Refreshed
<1>3. \A e \in Device : Range(relays[e]) \subseteq Range(relays'[e])
  <2>1. relays \in [Device -> Seq(Url)]
    BY Parts DEF RelayTypes
  <2>2. Range(relays[d]) \subseteq Range(urls)
    BY <1>2, <2>1, PrefixOrder
  <2> QED
    BY <1>2, <2>1, <2>2
<1>4. Kept
  BY <1>1, <1>3 DEF Kept, Reach
<1> QED
  BY <1>1, <1>4, FileSame DEF FileInv

LEMMA SaveSettingsFile ==
    ASSUME TypeOK, FileInv, NEW d \in Device, SaveSettings(d)
    PROVE  FileInv'
<1>1. UNCHANGED <<relays, forgotten, address, onRelays, op, manifests>>
  BY DEF SaveSettings
<1>2. Kept
  BY <1>1, KeptSame DEF onRelays
<1> QED
  BY <1>1, <1>2, FileSame DEF FileInv

\* The sender looks up relays that the device uses.
LEMMA LookUpFile ==
    ASSUME TypeOK, FileInv, NEW d \in Device, LookUp(d)
    PROVE  FileInv'
<1>1. UNCHANGED <<relays, forgotten, onRelays, op, manifests>>
  BY DEF LookUp
<1>2. Kept
  BY <1>1, KeptSame DEF onRelays
<1>3. PICK urls \in {Configured, saved[d], relays[d]} : address' = [address EXCEPT ![d] = urls]
  BY DEF LookUp
<1>4. Range(urls) \subseteq Reach(d)
  BY <1>3, Parts, ReachType DEF Reach
<1>5. AddressInv'
  <2>1. \A e \in Device : address'[e] = IF e = d THEN urls ELSE address[e]
    BY <1>3, Parts DEF RelayTypes
  <2>2. \A e \in Device : Range(address'[e]) \subseteq Reach(e)
    BY <1>4, <2>1 DEF FileInv, AddressInv
  <2>3. \A e \in Device : Reach(e) \subseteq Reach(e)'
    BY <1>2 DEF Kept
  <2> QED
    BY <2>2, <2>3 DEF AddressInv
<1> QED
  BY <1>1, <1>2, <1>5, FileSame DEF FileInv

\* What a restart takes from the relays in use is forgotten.
LEMMA RestartFile ==
    ASSUME TypeOK, FileInv, NEW d \in Device, Restart(d)
    PROVE  FileInv'
<1>1. UNCHANGED <<address, held, dropped, op, manifests>>
  BY DEF Restart
<1>2. /\ relays' = [relays EXCEPT ![d] = saved[d]]
      /\ forgotten' = [forgotten EXCEPT ![d] = @ \cup (Range(relays[d]) \ Range(saved[d]))]
  BY DEF Restart
<1>3. \A e \in Device : Reach(e) \subseteq Reach(e)'
  <2>1. /\ \A e \in Device : relays'[e] = IF e = d THEN saved[d] ELSE relays[e]
        /\ \A e \in Device : forgotten'[e] =
              IF e = d THEN forgotten[d] \cup (Range(relays[d]) \ Range(saved[d]))
              ELSE forgotten[e]
    BY <1>2, Parts DEF RelayTypes
  <2> QED
    BY <2>1 DEF Reach
<1>4. Kept
  BY <1>1, <1>3 DEF Kept
<1> QED
  BY <1>1, <1>4, FileSame DEF FileInv

LEMMA DropMailboxFile ==
    ASSUME TypeOK, FileInv, NEW r \in Url, NEW d \in Device, DropMailbox(r, d)
    PROVE  FileInv'
<1>1. UNCHANGED <<relaySet, op, manifests>>
  BY DEF DropMailbox
<1>2. /\ dropped' = dropped \cup {c \in held[r] : c.to = d}
      /\ held' = [held EXCEPT ![r] = {c \in @ : c.to # d}]
  BY DEF DropMailbox
<1>3. \A q \in Url : \A c \in held[q] : c \in held'[q] \/ c \in dropped'
  BY <1>2, Parts DEF HeldTypes
<1>4. Kept
  BY <1>1, <1>2, <1>3 DEF Kept, Reach, relaySet
<1> QED
  BY <1>1, <1>4, FileSame DEF FileInv, relaySet

\* A send begins with nothing uploaded.
LEMMA SendFileFile ==
    ASSUME TypeOK, FileInv, SendFile
    PROVE  FileInv'
<1>1. UNCHANGED <<relaySet, onRelays, manifests>>
  BY DEF SendFile
<1>2. Kept
  BY <1>1, KeptSame DEF relaySet, onRelays
<1>3. UploadInv'
  <2>1. op'.step = "upload" /\ op'.dev = 1 /\ op'.at = 1
    BY DEF SendFile
  <2>2. \A i \in DOMAIN Devices, n \in DOMAIN Pieces : ~Done(op', i, n)
    BY <2>1, Constants DEF Done
  <2> QED
    BY <2>2 DEF UploadInv
<1> QED
  BY <1>1, <1>2, <1>3, FileSame DEF FileInv, relaySet

\* The uploads behind a send after one more of them.
LEMMA DoneAfter ==
    ASSUME SendTypes, op # None, op.step = "upload",
           NEW i \in DOMAIN Devices, NEW n \in DOMAIN Pieces, Done(Uploaded(op), i, n)
    PROVE  Done(op, i, n) \/ (i = op.dev /\ n = op.at)
<1>1. /\ op \in Sending /\ op.dev \in 1 .. Len(Devices) /\ op.at \in 1 .. Len(Pieces)
      /\ Len(Devices) \in Nat \ {0} /\ Len(Pieces) \in Nat \ {0}
      /\ DOMAIN Devices = 1 .. Len(Devices) /\ DOMAIN Pieces = 1 .. Len(Pieces)
  BY OpIs, Constants
<1> DEFINE o == Uploaded(op)
<1>2. CASE op.at < Len(Pieces)
  <2>1. o = [op EXCEPT !.at = @ + 1]
    BY <1>2 DEF Uploaded
  <2>2. o.step = "upload" /\ o.dev = op.dev /\ o.at = op.at + 1
    BY <1>1, <2>1 DEF Sending
  <2> HIDE DEF o
  <2> QED
    BY <1>1, <2>2 DEF Done, o
<1>3. CASE ~(op.at < Len(Pieces)) /\ op.dev < Len(Devices)
  <2>1. o = [op EXCEPT !.dev = @ + 1, !.at = 1]
    BY <1>3 DEF Uploaded
  <2>2. o.step = "upload" /\ o.dev = op.dev + 1 /\ o.at = 1
    BY <1>1, <2>1 DEF Sending
  <2>3. op.at = Len(Pieces)
    BY <1>1, <1>3
  <2> HIDE DEF o
  <2>4. Done(o, i, n)
    BY DEF o
  <2> QED
    BY <1>1, <2>2, <2>3, <2>4 DEF Done
<1>4. CASE ~(op.at < Len(Pieces)) /\ ~(op.dev < Len(Devices))
  <2>1. op.at = Len(Pieces) /\ op.dev = Len(Devices)
    BY <1>1, <1>4
  <2> QED
    BY <1>1, <2>1 DEF Done
<1> QED
  BY <1>2, <1>3, <1>4

LEMMA UploadChunkFile ==
    ASSUME TypeOK, FileInv, UploadChunk
    PROVE  FileInv'
<1>0. RelayTypes /\ HeldTypes /\ SendTypes
  BY Parts
<1> DEFINE d == Devices[op.dev]
           chunk == [file |-> op.file, to |-> d, n |-> op.at]
           open == {r \in Range(address[d]) : d \in boxes[r]}
<1>1. /\ op # None /\ op.step = "upload"
      /\ UNCHANGED <<relaySet, boxes, dropped, manifests>>
  BY DEF UploadChunk
<1>2. PICK stored \in Answering(open) : \E answered \in {stored, {}} :
              /\ held' = [r \in Url |-> IF r \in stored THEN held[r] \cup {chunk} ELSE held[r]]
              /\ op' = IF answered = {} THEN None ELSE Uploaded(op)
  BY DEF UploadChunk
<1>3. PICK answered \in {stored, {}} :
              /\ held' = [r \in Url |-> IF r \in stored THEN held[r] \cup {chunk} ELSE held[r]]
              /\ op' = IF answered = {} THEN None ELSE Uploaded(op)
  BY <1>2
<1>4. Kept
  BY <1>1, <1>3 DEF Kept, Reach, relaySet
<1>5. d \in Device /\ chunk \in Chunk
  BY <1>0, <1>1, OpIs, Constants DEF Chunk
<1>6. UploadInv'
  <2>1. CASE answered = {}
    BY <1>3, <2>1 DEF UploadInv
  <2>2. CASE answered # {}
    <3>1. op' = Uploaded(op) /\ op'.file = op.file
      BY <1>0, <1>1, <1>3, <2>2, UploadedType
    <3>2. PICK r : r \in stored
      BY <1>3, <2>2
    <3>3. PICK c \in Chunk : c = chunk
      BY <1>5
    <3>4. r \in Reach(c.to)' /\ r \in Url
      <4>1. c.to = d /\ c.to \in Device /\ r \in Range(address[c.to])
        BY <1>2, <1>5, <3>2, <3>3 DEF Answering
      <4>2. r \in Reach(c.to) /\ r \in Url
        BY <1>0, <4>1, ReachType DEF FileInv, AddressInv
      <4> QED
        BY <1>4, <4>1, <4>2 DEF Kept
    <3>5. c \in held'[r]
      BY <1>3, <3>2, <3>3, <3>4
    <3>6. Available(c)'
      <4>1. \E q \in Reach(c.to)' : c \in held'[q]
        BY <3>4, <3>5
      <4> QED
        BY <4>1 DEF Available
    <3>7. ASSUME NEW i \in DOMAIN Devices, NEW n \in DOMAIN Pieces, Done(op', i, n)
          PROVE  Available([file |-> op.file, to |-> Devices[i], n |-> n])'
      <4>1. Done(op, i, n) \/ (i = op.dev /\ n = op.at)
        BY <1>0, <1>1, <3>1, <3>7, DoneAfter
      <4>2. PICK x \in Chunk : x = [file |-> op.file, to |-> Devices[i], n |-> n]
        BY <1>0, <1>1, OpIs, Constants DEF Chunk
      <4>3. CASE Done(op, i, n)
        <5>1. Available(x)
          BY <1>1, <4>2, <4>3 DEF FileInv, UploadInv
        <5>2. Available(x)'
          BY <1>4, <5>1, AvailableStays
        <5> QED
          BY <3>1, <4>2, <5>2
      <4>4. CASE i = op.dev /\ n = op.at
        <5>1. x = c
          BY <3>3, <4>2, <4>4
        <5> QED
          BY <3>1, <3>6, <4>2, <5>1
      <4> QED
        BY <4>1, <4>3, <4>4
    <3> QED
      BY <3>1, <3>7 DEF UploadInv
  <2> QED
    BY <2>1, <2>2
<1> QED
  BY <1>1, <1>4, <1>6, FileSame DEF FileInv, relaySet

LEMMA KeepChunkFile ==
    ASSUME TypeOK, FileInv, KeepChunk
    PROVE  FileInv'
<1>1. UNCHANGED <<relaySet, onRelays, manifests>> /\ op # None /\ op.step = "keep"
  BY DEF KeepChunk
<1>2. Kept
  BY <1>1, KeptSame DEF relaySet, onRelays
<1>3. op'.step = "prune" /\ op'.file = op.file
  BY <1>1, Parts, OpIs DEF KeepChunk, Sending
<1>4. UploadInv'
  BY <1>1, <1>2, <1>3, UploadKept DEF FileInv
<1> QED
  BY <1>1, <1>2, <1>4, FileSame DEF FileInv, relaySet

LEMMA PruneKeptFile ==
    ASSUME TypeOK, FileInv, PruneKept
    PROVE  FileInv'
<1>1. UNCHANGED <<relaySet, onRelays, manifests>> /\ op # None /\ op.step = "prune"
  BY DEF PruneKept
<1>2. Kept
  BY <1>1, KeptSame DEF relaySet, onRelays
<1>3. op'.step # "upload" /\ op'.file = op.file
  BY <1>1, Parts, OpIs DEF PruneKept, Sending
<1>4. UploadInv'
  BY <1>1, <1>2, <1>3, UploadKept DEF FileInv
<1> QED
  BY <1>1, <1>2, <1>4, FileSame DEF FileInv, relaySet

\* The message of a device names what was uploaded for it.
LEMMA FanOutFile ==
    ASSUME TypeOK, FileInv, FanOut
    PROVE  FileInv'
<1>0. SendTypes
  BY Parts
<1>1. UNCHANGED <<relaySet, onRelays>> /\ op # None /\ op.step = "send"
  BY DEF FanOut
<1>2. Kept
  BY <1>1, KeptSame DEF relaySet, onRelays
<1>3. op'.step # "upload" /\ op'.file = op.file
  BY <1>0, <1>1, OpIs DEF FanOut, Sending
<1>4. UploadInv'
  BY <1>1, <1>2, <1>3, UploadKept DEF FileInv
<1>5. PICK k \in DOMAIN Devices : k = op.dev
  BY <1>0, <1>1, OpIs, Constants
<1>6. PICK f \in File : f = op.file
  BY <1>0, <1>1, OpIs
<1> DEFINE d == Devices[k]
           new == Manifest(f, d)
<1>7. d \in Device /\ d \in Client
  BY Constants
<1>8. manifests' = [manifests EXCEPT ![d] = @ \cup {new}]
  BY <1>5, <1>6 DEF FanOut
<1>9. \A e \in Device : manifests'[e] = IF e = d THEN manifests[d] \cup {new} ELSE manifests[e]
  BY <1>0, <1>7, <1>8, Constants DEF SendTypes
<1>10. new.to = d /\ \A n \in DOMAIN Pieces : Available(ChunksOf(new)[n])'
  <2>1. new.to = d
    BY DEF Manifest
  <2>2. ASSUME NEW n \in DOMAIN Pieces
        PROVE  Available(ChunksOf(new)[n])'
    <3> DEFINE c == [file |-> f, to |-> d, n |-> n]
    <3>1. ChunksOf(new)[n] = c
      BY DEF ChunksOf, Manifest
    <3>2. c \in Chunk
      BY <1>7 DEF Chunk
    <3>3. Available(c)
      BY <1>1, <1>6 DEF FileInv, UploadInv, Done
    <3>4. Available(c)'
      BY <1>2, <3>2, <3>3, AvailableStays
    <3> QED
      BY <3>1, <3>4
  <2> QED
    BY <2>1, <2>2
<1>11. ManifestInv'
  <2>1. ASSUME NEW e \in Device, NEW m \in manifests[e]
        PROVE  m.to = e /\ \A n \in DOMAIN Pieces : Available(ChunksOf(m)[n])'
    <3>1. m.to = e /\ \A n \in DOMAIN Pieces : Available(ChunksOf(m)[n])
      BY DEF FileInv, ManifestInv
    <3>2. m \in [file : File, to : Device]
      BY <1>0, Constants DEF SendTypes
    <3>3. \A n \in DOMAIN Pieces : ChunksOf(m)[n] \in Chunk
      BY <3>2 DEF ChunksOf, Chunk
    <3> QED
      BY <1>2, <3>1, <3>3, AvailableStays
  <2> HIDE DEF new, d
  <2>2. \A e \in Device : \A m \in manifests'[e] : m \in manifests[e] \/ (e = d /\ m = new)
    BY <1>9
  <2> QED
    BY <1>10, <2>1, <2>2 DEF ManifestInv
<1>12. AddressInv'
  BY <1>1, <1>2, FileSame DEF relaySet
<1> QED
  BY <1>4, <1>11, <1>12 DEF FileInv

LEMMA AddMessageFile ==
    ASSUME TypeOK, FileInv, AddMessage
    PROVE  FileInv'
<1>1. UNCHANGED <<relaySet, onRelays>> /\ op' = None
  BY DEF AddMessage
<1>2. Kept
  BY <1>1, KeptSame DEF relaySet, onRelays
<1>3. \A d \in Device : manifests'[d] = manifests[d]
  <2>1. \A d \in Device : d # Sender /\ d \in Client
    BY Constants
  <2> QED
    BY <2>1, Parts DEF AddMessage, SendTypes
<1> QED
  BY <1>1, <1>2, <1>3, FileSame DEF FileInv, relaySet

\* Everything else leaves sends, messages, relays and chunks alone.
LEMMA OtherFile ==
    ASSUME TypeOK, FileInv, UNCHANGED <<relaySet, onRelays, manifests>>,
           UNCHANGED op \/ op' = None
    PROVE  FileInv'
<1>1. Kept
  BY KeptSame DEF relaySet, onRelays
<1> QED
  BY <1>1, FileSame DEF FileInv, relaySet

LEMMA FileStep == TypeOK /\ FileInv /\ [Next]_vars => FileInv'
<1> SUFFICES ASSUME TypeOK, FileInv, [Next]_vars
             PROVE  FileInv'
  OBVIOUS
<1>1. CASE SendEnds
  BY <1>1, OtherFile DEF SendEnds
<1>2. ASSUME NEW c \in Client, Download(c)
      PROVE  FileInv'
  BY <1>2, OtherFile DEF Download
<1>3. ASSUME NEW c \in Client, GetChunk(c)
      PROVE  FileInv'
  BY <1>3, OtherFile DEF GetChunk
<1>4. ASSUME NEW c \in Client, PruneFetched(c)
      PROVE  FileInv'
  BY <1>4, OtherFile DEF PruneFetched
<1>5. CASE UNCHANGED vars
  BY <1>5, OtherFile DEF vars
<1>6. CASE Next
  BY <1>1, <1>2, <1>3, <1>4, <1>6, SendFileFile, UploadChunkFile, KeepChunkFile, PruneKeptFile,
     FanOutFile, AddMessageFile, RefreshRelaysFile, SaveSettingsFile, LookUpFile, RestartFile,
     DropMailboxFile
  DEF Next, Send
<1> QED
  BY <1>5, <1>6

LEMMA FileInvReachable == FileInv => FileReachable
<1> SUFFICES ASSUME FileInv, NEW d \in Device, NEW m \in manifests[d], NEW n \in DOMAIN Pieces
             PROVE  \/ ChunksOf(m)[n] \in dropped
                    \/ /\ ChunksOf(m)[n].to = d
                       /\ \E r \in Range(relays[d]) \cup forgotten[d] : ChunksOf(m)[n] \in held[r]
  BY DEF FileReachable
<1>1. m.to = d /\ Available(ChunksOf(m)[n])
  BY DEF FileInv, ManifestInv
<1>2. ChunksOf(m)[n].to = m.to
  BY DEF ChunksOf
<1> QED
  BY <1>1, <1>2 DEF Available, Reach

\* Who has the message of a file can get every chunk of it from a relay it uses (send_file,
\* download_attachment, get_blob), unless a relay removed it with the mailbox or a restart
\* forgot the relay: for any number of devices, relays, chunks, files and failures.
THEOREM FilesReachable == Spec => []FileReachable
<1>1. Init => TypeOK /\ FileInv
  BY TypeInit, FileInit
<1>2. TypeOK /\ FileInv /\ [Next]_vars => (TypeOK /\ FileInv)'
  BY TypeStep, FileStep
<1> QED
  BY <1>1, <1>2, FileInvReachable, PTL DEF Spec

-----------------------------------------------------------------------------
(* The cache.                                                              *)

\* The last i of the chunks ever put into a cache.
Latest(p, i) == SubSeq(p, Len(p) - i + 1, Len(p))

\* s is what is newest of p, and one chunk more would not have fitted.
Newest(s, p) ==
    /\ Len(s) <= Len(p) /\ s = Latest(p, Len(s))
    /\ Len(s) < Len(p) => Bytes(Latest(p, Len(s) + 1)) > Cap

\* A client that is about to prune its cache.
Pruning(c) ==
    \/ reading[c] # None /\ reading[c].step = "prune"
    \/ c = Sender /\ op # None /\ op.step = "prune"

CacheInv ==
    \A c \in Client : /\ Newest(cache[c], puts[c])
                      /\ Bytes(cache[c]) <= Cap \/ Pruning(c) \/ c \in cut

LEMMA LatestIs ==
    ASSUME NEW p \in Seq(Chunk), NEW i \in 0 .. Len(p)
    PROVE  /\ Latest(p, i) \in Seq(Chunk) /\ Len(Latest(p, i)) = i
           /\ Latest(p, i) = [k \in 1 .. i |-> p[Len(p) - i + k]]
<1>1. Len(p) \in Nat /\ Len(p) - i + 1 \in 1 .. Len(p) + 1 /\ Len(p) - (Len(p) - i + 1) + 1 = i
  OBVIOUS
<1>2. Latest(p, i) \in Seq(Chunk) /\ Len(Latest(p, i)) = i
  BY <1>1 DEF Latest
<1>3. \A k \in 1 .. i : Latest(p, i)[k] = p[Len(p) - i + k]
  BY <1>1 DEF Latest
<1>4. Latest(p, i) = [k \in 1 .. i |-> Latest(p, i)[k]]
  BY <1>2
<1> QED
  BY <1>2, <1>3, <1>4

\* A chunk that is put into the cache is the newest.
LEMMA LatestAppended ==
    ASSUME NEW p \in Seq(Chunk), NEW x \in Chunk, NEW i \in 0 .. Len(p)
    PROVE  Latest(Append(p, x), i + 1) = Append(Latest(p, i), x)
<1> DEFINE q == Append(p, x)
           l == Latest(p, i)
<1>1. /\ q \in Seq(Chunk) /\ Len(q) = Len(p) + 1 /\ Len(p) \in Nat /\ q[Len(p) + 1] = x
      /\ \A k \in 1 .. Len(p) : q[k] = p[k]
  OBVIOUS
<1>2. l \in Seq(Chunk) /\ Len(l) = i /\ \A k \in 1 .. i : l[k] = p[Len(p) - i + k]
  <2>1. l = [k \in 1 .. i |-> p[Len(p) - i + k]]
    BY LatestIs
  <2>2. l \in Seq(Chunk) /\ Len(l) = i
    BY LatestIs
  <2> QED
    BY <2>1, <2>2
<1> HIDE DEF q, l
<1>3. Latest(q, i + 1) = [k \in 1 .. i + 1 |-> q[Len(q) - (i + 1) + k]]
  <2>1. i + 1 \in 0 .. Len(q)
    BY <1>1
  <2> QED
    BY <1>1, <2>1, LatestIs
<1>4. Append(l, x) = [k \in 1 .. i + 1 |-> IF k = i + 1 THEN x ELSE l[k]]
  <2> DEFINE a == Append(l, x)
  <2>1. /\ a \in Seq(Chunk) /\ Len(a) = i + 1 /\ a[i + 1] = x
        /\ \A k \in 1 .. i : a[k] = l[k]
    BY <1>2
  <2> HIDE DEF a
  <2>2. \A k \in 1 .. i + 1 : a[k] = IF k = i + 1 THEN x ELSE l[k]
    BY <2>1
  <2>3. a = [k \in 1 .. i + 1 |-> a[k]]
    BY <2>1
  <2>4. a = [k \in 1 .. i + 1 |-> IF k = i + 1 THEN x ELSE l[k]]
    BY <2>2, <2>3
  <2> QED
    BY <2>4 DEF a
<1>5. \A k \in 1 .. i + 1 : q[Len(q) - (i + 1) + k] = IF k = i + 1 THEN x ELSE l[k]
  <2> SUFFICES ASSUME NEW k \in 1 .. i + 1
               PROVE  q[Len(q) - (i + 1) + k] = IF k = i + 1 THEN x ELSE l[k]
    OBVIOUS
  <2>1. Len(q) - (i + 1) + k = Len(p) - i + k
    BY <1>1
  <2>2. CASE k = i + 1
    <3>1. Len(p) - i + k = Len(p) + 1
      BY <1>1, <2>2
    <3> QED
      BY <1>1, <2>1, <2>2, <3>1
  <2>3. CASE k # i + 1
    <3>1. k \in 1 .. i /\ Len(p) - i + k \in 1 .. Len(p)
      BY <1>1, <2>3
    <3> QED
      BY <1>1, <1>2, <2>1, <2>3, <3>1
  <2> QED
    BY <2>2, <2>3
<1> QED
  BY <1>3, <1>4, <1>5 DEF q, l

LEMMA NewestAppended ==
    ASSUME NEW s \in Seq(Chunk), NEW p \in Seq(Chunk), NEW x \in Chunk, Newest(s, p)
    PROVE  Newest(Append(s, x), Append(p, x))
<1> DEFINE t == Append(s, x)
           q == Append(p, x)
<1>1. /\ Len(s) \in Nat /\ Len(p) \in Nat /\ Len(t) = Len(s) + 1 /\ Len(q) = Len(p) + 1
      /\ Len(s) <= Len(p) /\ Len(s) \in 0 .. Len(p) /\ s = Latest(p, Len(s))
  BY DEF Newest
<1>2. Latest(q, Len(t)) = t
  BY <1>1, LatestAppended
<1>3. ASSUME Len(t) < Len(q)
      PROVE  Bytes(Latest(q, Len(t) + 1)) > Cap
  <2>1. Len(s) + 1 \in 0 .. Len(p) /\ Len(s) < Len(p) /\ Len(t) + 1 = (Len(s) + 1) + 1
    BY <1>1, <1>3
  <2> DEFINE l == Latest(p, Len(s) + 1)
  <2>2. Latest(q, Len(t) + 1) = Append(l, x)
    BY <2>1, LatestAppended
  <2>3. l \in Seq(Chunk) /\ Bytes(l) > Cap
    BY <2>1, LatestIs DEF Newest
  <2> HIDE DEF l
  <2>4. /\ Bytes(l) \in Nat /\ Bytes(Append(l, x)) = Bytes(l) + Pieces[x.n]
        /\ Pieces[x.n] \in Nat
    BY <2>3, BytesOf, ChunkSize
  <2>5. Bytes(Append(l, x)) > Cap
    BY <2>3, <2>4, Constants
  <2> QED
    BY <2>2, <2>5
<1>4. Len(t) <= Len(q)
  BY <1>1
<1> HIDE DEF t, q
<1>5. Newest(t, q)
  BY <1>2, <1>3, <1>4 DEF Newest
<1> QED
  BY <1>5 DEF t, q

\* What is left of the newest is the newest.
LEMMA NewestWithout ==
    ASSUME NEW s \in Seq(Chunk), NEW p \in Seq(Chunk), Newest(s, p), NEW j \in 0 .. Len(s)
    PROVE  Without(s, j) = Latest(p, Len(s) - j)
<1>1. /\ Len(s) \in Nat /\ Len(p) \in Nat /\ Len(s) <= Len(p) /\ Len(s) \in 0 .. Len(p)
      /\ s = Latest(p, Len(s)) /\ Len(s) - j \in 0 .. Len(p)
  BY DEF Newest
<1>2. \A k \in 1 .. Len(s) : s[k] = p[Len(p) - Len(s) + k]
  <2>1. Latest(p, Len(s)) = [k \in 1 .. Len(s) |-> p[Len(p) - Len(s) + k]]
    BY <1>1, LatestIs
  <2> QED
    BY <1>1, <2>1
<1>3. Without(s, j) = [k \in 1 .. Len(s) - j |-> s[j + k]]
  <2> DEFINE w == SubSeq(s, j + 1, Len(s))
  <2>1. /\ w \in Seq(Chunk) /\ Len(w) = Len(s) - j
        /\ \A k \in 1 .. Len(s) - j : w[k] = s[j + k]
    BY <1>1
  <2> HIDE DEF w
  <2>2. w = [k \in 1 .. Len(s) - j |-> w[k]]
    BY <2>1
  <2>3. w = [k \in 1 .. Len(s) - j |-> s[j + k]]
    BY <2>1, <2>2
  <2> QED
    BY <2>3 DEF Without, w
<1>4. Latest(p, Len(s) - j) = [k \in 1 .. Len(s) - j |-> p[Len(p) - (Len(s) - j) + k]]
  BY <1>1, LatestIs
<1>5. \A k \in 1 .. Len(s) - j : s[j + k] = p[Len(p) - (Len(s) - j) + k]
  <2> SUFFICES ASSUME NEW k \in 1 .. Len(s) - j
               PROVE  s[j + k] = p[Len(p) - (Len(s) - j) + k]
    OBVIOUS
  <2>1. j + k \in 1 .. Len(s) /\ Len(p) - Len(s) + (j + k) = Len(p) - (Len(s) - j) + k
    BY <1>1
  <2> QED
    BY <1>2, <2>1
<1> QED
  BY <1>3, <1>4, <1>5

LEMMA NewestPruned ==
    ASSUME NEW s \in Seq(Chunk), NEW p \in Seq(Chunk), Newest(s, p)
    PROVE  Newest(Pruned(s), p) /\ Bytes(Pruned(s)) <= Cap
<1>1. PICK i \in 0 .. Len(s) :
         /\ Pruned(s) = Without(s, i) /\ Bytes(Without(s, i)) <= Cap
         /\ i > 0 => ~(Bytes(Without(s, i - 1)) <= Cap)
  BY PrunedFits
<1> DEFINE w == Without(s, i)
<1>2. /\ Len(s) \in Nat /\ Len(p) \in Nat /\ Len(s) <= Len(p) /\ Len(s) - i \in 0 .. Len(p)
  BY DEF Newest
<1>3. w = Latest(p, Len(s) - i)
  BY NewestWithout
<1>4. w \in Seq(Chunk) /\ Len(w) = Len(s) - i
  BY <1>2, <1>3, LatestIs
<1>5. ASSUME Len(w) < Len(p)
      PROVE  Bytes(Latest(p, Len(w) + 1)) > Cap
  <2>1. CASE i = 0
    <3>1. Len(w) = Len(s)
      BY <1>2, <1>4, <2>1
    <3> QED
      BY <1>5, <3>1 DEF Newest
  <2>2. CASE i > 0
    <3>1. /\ i - 1 \in 0 .. Len(s) /\ Len(s) - (i - 1) = Len(w) + 1
          /\ Len(w) + 1 \in 0 .. Len(p)
      BY <1>2, <1>4, <1>5, <2>2
    <3>2. Without(s, i - 1) = Latest(p, Len(w) + 1)
      <4>1. Without(s, i - 1) = Latest(p, Len(s) - (i - 1))
        BY <3>1, NewestWithout
      <4> QED
        BY <3>1, <4>1
    <3> DEFINE v == Latest(p, Len(w) + 1)
    <3>3. v \in Seq(Chunk) /\ ~(Bytes(v) <= Cap)
      BY <1>1, <2>2, <3>1, <3>2, LatestIs
    <3> HIDE DEF v
    <3>4. Bytes(v) \in Nat
      <4>1. PICK sum : sum[Len(v)] = Bytes(v) /\ \A k \in 0 .. Len(v) : sum[k] \in Nat
        BY <3>3, BytesSums
      <4> QED
        BY <3>3, <4>1
    <3>5. Bytes(v) > Cap
      BY <3>3, <3>4, Constants
    <3> QED
      BY <3>5 DEF v
  <2> QED
    BY <2>1, <2>2
<1> HIDE DEF w
<1>6. Newest(w, p)
  <2>1. Len(w) <= Len(p) /\ w = Latest(p, Len(w))
    BY <1>2, <1>3, <1>4
  <2> QED
    BY <1>5, <2>1 DEF Newest
<1> QED
  BY <1>1, <1>6 DEF w

LEMMA CacheInit == Init => CacheInv
<1> SUFFICES ASSUME Init, NEW c \in Client
             PROVE  /\ Newest(cache[c], puts[c])
                    /\ Bytes(cache[c]) <= Cap \/ Pruning(c) \/ c \in cut
  BY DEF CacheInv
<1>1. cache[c] = <<>> /\ puts[c] = <<>>
  BY DEF Init
<1>2. <<>> \in Seq(Chunk) /\ Len(<<>>) = 0
  OBVIOUS
<1>3. Latest(<<>>, 0) = <<>>
  <2>1. 0 \in 0 .. Len(<<>>)
    OBVIOUS
  <2>2. Latest(<<>>, 0) \in Seq(Chunk) /\ Len(Latest(<<>>, 0)) = 0
    BY <1>2, <2>1, LatestIs
  <2> QED
    BY <2>2
<1>4. Newest(<<>>, <<>>)
  BY <1>2, <1>3 DEF Newest
<1>5. Bytes(<<>>) = 0
  BY <1>2, BytesSums
<1> QED
  BY <1>1, <1>4, <1>5, Constants

\* A client whose cache is left alone stays as it was, while it does not leave the
\* pruning to nobody.
LEMMA CacheSame ==
    ASSUME CacheInv, NEW c \in Client, cache'[c] = cache[c], puts'[c] = puts[c],
           Pruning(c) => Pruning(c)' \/ c \in cut', c \in cut => c \in cut'
    PROVE  /\ Newest(cache'[c], puts'[c])
           /\ Bytes(cache'[c]) <= Cap \/ Pruning(c)' \/ c \in cut'
  BY Zenon DEF CacheInv

LEMMA CacheInserted ==
    ASSUME TypeOK, CacheInv, NEW c \in Client, NEW x \in Chunk, Insert(c, x)
    PROVE  /\ Newest(cache'[c], puts'[c])
           /\ \A e \in Client \ {c} : cache'[e] = cache[e] /\ puts'[e] = puts[e]
<1>1. /\ cache \in [Client -> Seq(Chunk)] /\ puts \in [Client -> Seq(Chunk)]
      /\ Newest(cache[c], puts[c])
  BY Parts DEF CacheInv, CacheTypes
<1>2. CASE UNCHANGED <<cache, puts>>
  BY <1>1, <1>2
<1>3. CASE /\ cache' = [cache EXCEPT ![c] = Append(@, x)]
           /\ puts' = [puts EXCEPT ![c] = Append(@, x)]
  <2>1. cache'[c] = Append(cache[c], x) /\ puts'[c] = Append(puts[c], x)
    BY <1>1, <1>3
  <2>2. Newest(Append(cache[c], x), Append(puts[c], x))
    BY <1>1, NewestAppended
  <2>3. \A e \in Client \ {c} : cache'[e] = cache[e] /\ puts'[e] = puts[e]
    BY <1>1, <1>3
  <2> QED
    BY <2>1, <2>2, <2>3
<1> QED
  BY <1>2, <1>3 DEF Insert

LEMMA CachePruned ==
    ASSUME TypeOK, CacheInv, NEW c \in Client, Prune(c)
    PROVE  /\ Newest(cache'[c], puts'[c]) /\ Bytes(cache'[c]) <= Cap
           /\ \A e \in Client \ {c} : cache'[e] = cache[e] /\ puts'[e] = puts[e]
           /\ \A e \in Client \ {c} : e \in cut => e \in cut'
<1>1. /\ cache \in [Client -> Seq(Chunk)] /\ puts \in [Client -> Seq(Chunk)]
      /\ Newest(cache[c], puts[c])
  BY Parts DEF CacheInv, CacheTypes
<1>2. cache' = [cache EXCEPT ![c] = Pruned(@)] /\ puts' = puts /\ cut' = cut \ {c}
  BY DEF Prune
<1>3. Newest(Pruned(cache[c]), puts[c]) /\ Bytes(Pruned(cache[c])) <= Cap
  BY <1>1, NewestPruned
<1>4. cache'[c] = Pruned(cache[c]) /\ \A e \in Client \ {c} : cache'[e] = cache[e]
  BY <1>1, <1>2
<1> QED
  BY <1>2, <1>3, <1>4

\* Steps that touch no cache, and end no pruning.
LEMMA OtherCache ==
    ASSUME CacheInv, UNCHANGED <<cache, puts, cut>>,
           \A c \in Client : Pruning(c) => Pruning(c)'
    PROVE  CacheInv'
<1>1. ASSUME NEW c \in Client
      PROVE  /\ Newest(cache'[c], puts'[c])
             /\ Bytes(cache'[c]) <= Cap \/ Pruning(c)' \/ c \in cut'
  BY <1>1, CacheSame
<1> QED
  BY <1>1 DEF CacheInv

LEMMA SendFileCache ==
    ASSUME TypeOK, CacheInv, SendFile
    PROVE  CacheInv'
<1>1. UNCHANGED <<cache, puts, cut, reading>> /\ op = None
  BY DEF SendFile, local
<1>2. \A c \in Client : Pruning(c) => Pruning(c)'
  BY <1>1 DEF Pruning
<1> QED
  BY <1>1, <1>2, OtherCache

LEMMA UploadChunkCache ==
    ASSUME TypeOK, CacheInv, UploadChunk
    PROVE  CacheInv'
<1>1. UNCHANGED <<cache, puts, cut, reading>> /\ op.step = "upload"
  BY DEF UploadChunk, local
<1>2. \A c \in Client : Pruning(c) => Pruning(c)'
  BY <1>1 DEF Pruning
<1> QED
  BY <1>1, <1>2, OtherCache

LEMMA KeepChunkCache ==
    ASSUME TypeOK, CacheInv, KeepChunk
    PROVE  CacheInv'
<1>0. RelayTypes /\ SendTypes
  BY Parts
<1> DEFINE chunk == ChunksOf([file |-> op.file, to |-> Devices[1]])[op.at]
<1>1. /\ op # None /\ Insert(Sender, chunk) /\ op' = [op EXCEPT !.step = "prune"]
      /\ UNCHANGED <<reading, cut>> /\ op.step = "keep"
  BY DEF KeepChunk
<1>2. chunk \in Chunk
  BY <1>0, <1>1, OpIs, Constants DEF Chunk, ChunksOf
<1> HIDE DEF chunk
<1>3. /\ Newest(cache'[Sender], puts'[Sender])
      /\ \A e \in Client \ {Sender} : cache'[e] = cache[e] /\ puts'[e] = puts[e]
  BY <1>1, <1>2, CacheInserted, Constants
<1>4. op' # None /\ op'.step = "prune"
  <2>1. op' \in Sending /\ op'.step = "prune"
    BY <1>0, <1>1, OpIs DEF Sending
  <2> QED
    BY <2>1, Constants
<1>5. Pruning(Sender)'
  BY <1>4 DEF Pruning
<1>6. \A c \in Client \ {Sender} : Pruning(c) => Pruning(c)'
  BY <1>1 DEF Pruning
<1>7. ASSUME NEW c \in Client
      PROVE  /\ Newest(cache'[c], puts'[c])
             /\ Bytes(cache'[c]) <= Cap \/ Pruning(c)' \/ c \in cut'
  <2>1. CASE c = Sender
    BY <1>3, <1>5, <2>1
  <2>2. CASE c # Sender
    <3>1. cache'[c] = cache[c] /\ puts'[c] = puts[c] /\ (Pruning(c) => Pruning(c)') /\ cut' = cut
      BY <1>1, <1>3, <1>6, <2>2
    <3> QED
      BY <3>1, CacheSame
  <2> QED
    BY <2>1, <2>2
<1> QED
  BY <1>7 DEF CacheInv

LEMMA PruneKeptCache ==
    ASSUME TypeOK, CacheInv, PruneKept
    PROVE  CacheInv'
<1>1. Prune(Sender) /\ UNCHANGED reading
  BY DEF PruneKept
<1>2. /\ Newest(cache'[Sender], puts'[Sender]) /\ Bytes(cache'[Sender]) <= Cap
      /\ \A e \in Client \ {Sender} : cache'[e] = cache[e] /\ puts'[e] = puts[e]
      /\ \A e \in Client \ {Sender} : e \in cut => e \in cut'
  BY <1>1, CachePruned, Constants
<1>3. \A c \in Client \ {Sender} : Pruning(c) => Pruning(c)'
  BY <1>1 DEF Pruning
<1>4. ASSUME NEW c \in Client
      PROVE  /\ Newest(cache'[c], puts'[c])
             /\ Bytes(cache'[c]) <= Cap \/ Pruning(c)' \/ c \in cut'
  <2>1. CASE c = Sender
    BY <1>2, <2>1
  <2>2. CASE c # Sender
    BY <1>2, <1>3, <2>2, CacheSame
  <2> QED
    BY <2>1, <2>2
<1> QED
  BY <1>4 DEF CacheInv

LEMMA FanOutCache ==
    ASSUME TypeOK, CacheInv, FanOut \/ AddMessage
    PROVE  CacheInv'
<1>1. UNCHANGED <<cache, puts, cut, reading>> /\ (op.step = "send" \/ op.step = "record")
  BY DEF FanOut, AddMessage, local
<1>2. \A c \in Client : Pruning(c) => Pruning(c)'
  BY <1>1 DEF Pruning
<1> QED
  BY <1>1, <1>2, OtherCache

LEMMA SendEndsCache ==
    ASSUME TypeOK, CacheInv, SendEnds
    PROVE  CacheInv'
<1>1. /\ UNCHANGED <<cache, puts, reading>>
      /\ cut' = IF op.step = "prune" THEN cut \cup {Sender} ELSE cut
  BY DEF SendEnds
<1>2. \A c \in Client : (Pruning(c) => Pruning(c)' \/ c \in cut') /\ (c \in cut => c \in cut')
  BY <1>1 DEF Pruning
<1>3. ASSUME NEW c \in Client
      PROVE  /\ Newest(cache'[c], puts'[c])
             /\ Bytes(cache'[c]) <= Cap \/ Pruning(c)' \/ c \in cut'
  BY <1>1, <1>2, CacheSame
<1> QED
  BY <1>3 DEF CacheInv

LEMMA DownloadCache ==
    ASSUME TypeOK, CacheInv, NEW c \in Client, Download(c)
    PROVE  CacheInv'
<1>1. UNCHANGED <<cache, puts, cut, op>> /\ reading[c] = None
  BY DEF Download, local
<1>2. PICK r : reading' = [reading EXCEPT ![c] = r]
  BY DEF Download
<1>3. \A e \in Client : e # c => reading'[e] = reading[e]
  BY <1>2, Parts DEF ReadTypes
<1>4. \A e \in Client : Pruning(e) => Pruning(e)'
  BY <1>1, <1>3 DEF Pruning
<1> QED
  BY <1>1, <1>4, OtherCache

LEMMA GetChunkCache ==
    ASSUME TypeOK, CacheInv, NEW c \in Client, GetChunk(c)
    PROVE  CacheInv'
<1>0. ReadTypes
  BY Parts
<1> DEFINE chunk == ChunksOf(reading[c].manifest)[reading[c].at]
<1>1. UNCHANGED <<op, cut>> /\ reading[c] # None /\ reading[c].step = "get"
  BY DEF GetChunk
<1>2. chunk \in Chunk /\ reading \in [Client -> Reading \cup {None}]
  BY <1>0, <1>1, ReadingIs DEF ReadTypes
<1>3. \/ /\ UNCHANGED <<cache, puts>>
         /\ \E r : reading' = [reading EXCEPT ![c] = r]
      \/ Insert(c, chunk) /\ reading' = [reading EXCEPT ![c].step = "prune"]
  BY DEF GetChunk, Collect
<1> HIDE DEF chunk
<1>4. CASE /\ UNCHANGED <<cache, puts>>
           /\ \E r : reading' = [reading EXCEPT ![c] = r]
  <2>1. \A e \in Client : e # c => reading'[e] = reading[e]
    BY <1>2, <1>4
  <2>2. \A e \in Client : Pruning(e) => Pruning(e)'
    BY <1>1, <2>1 DEF Pruning
  <2> QED
    BY <1>1, <1>4, <2>2, OtherCache
<1>5. CASE Insert(c, chunk) /\ reading' = [reading EXCEPT ![c].step = "prune"]
  <2>1. /\ Newest(cache'[c], puts'[c])
        /\ \A e \in Client \ {c} : cache'[e] = cache[e] /\ puts'[e] = puts[e]
    BY <1>2, <1>5, CacheInserted
  <2>2. reading'[c] # None /\ reading'[c].step = "prune"
    <3>1. reading[c] \in Reading
      BY <1>0, <1>1, ReadingIs
    <3>2. reading'[c] = [reading[c] EXCEPT !.step = "prune"]
      BY <1>2, <1>5
    <3>3. reading'[c] \in Reading /\ reading'[c].step = "prune"
      BY <3>1, <3>2 DEF Reading
    <3> QED
      BY <3>3, Constants
  <2>3. Pruning(c)'
    BY <2>2 DEF Pruning
  <2>4. \A e \in Client \ {c} : Pruning(e) => Pruning(e)'
    <3>1. \A e \in Client \ {c} : reading'[e] = reading[e]
      BY <1>2, <1>5
    <3> QED
      BY <1>1, <3>1 DEF Pruning
  <2>5. ASSUME NEW e \in Client
        PROVE  /\ Newest(cache'[e], puts'[e])
               /\ Bytes(cache'[e]) <= Cap \/ Pruning(e)' \/ e \in cut'
    <3>1. CASE e = c
      BY <2>1, <2>3, <3>1
    <3>2. CASE e # c
      <4>1. /\ cache'[e] = cache[e] /\ puts'[e] = puts[e] /\ (Pruning(e) => Pruning(e)')
            /\ cut' = cut
        BY <1>1, <2>1, <2>4, <3>2
      <4> QED
        BY <4>1, CacheSame
    <3> QED
      BY <3>1, <3>2
  <2> QED
    BY <2>5 DEF CacheInv
<1> QED
  BY <1>3, <1>4, <1>5

LEMMA PruneFetchedCache ==
    ASSUME TypeOK, CacheInv, NEW c \in Client, PruneFetched(c)
    PROVE  CacheInv'
<1>1. Prune(c) /\ UNCHANGED op /\ reading' = [reading EXCEPT ![c] = Advanced(@)]
  BY DEF PruneFetched, Collect
<1>2. /\ Newest(cache'[c], puts'[c]) /\ Bytes(cache'[c]) <= Cap
      /\ \A e \in Client \ {c} : cache'[e] = cache[e] /\ puts'[e] = puts[e]
      /\ \A e \in Client \ {c} : e \in cut => e \in cut'
  BY <1>1, CachePruned
<1>3. \A e \in Client \ {c} : Pruning(e) => Pruning(e)'
  <2>1. \A e \in Client \ {c} : reading'[e] = reading[e]
    BY <1>1, Parts DEF ReadTypes
  <2> QED
    BY <1>1, <2>1 DEF Pruning
<1>4. ASSUME NEW e \in Client
      PROVE  /\ Newest(cache'[e], puts'[e])
             /\ Bytes(cache'[e]) <= Cap \/ Pruning(e)' \/ e \in cut'
  <2>1. CASE e = c
    BY <1>2, <2>1
  <2>2. CASE e # c
    BY <1>2, <1>3, <2>2, CacheSame
  <2> QED
    BY <2>1, <2>2
<1> QED
  BY <1>4 DEF CacheInv

LEMMA RestartCache ==
    ASSUME TypeOK, CacheInv, NEW d \in Device, Restart(d)
    PROVE  CacheInv'
<1>1. /\ UNCHANGED <<cache, puts, op>>
      /\ cut' = IF reading[d] # None /\ reading[d].step = "prune" THEN cut \cup {d} ELSE cut
      /\ reading' = [reading EXCEPT ![d] = None]
  BY DEF Restart
<1>2. \A e \in Client : e # d => reading'[e] = reading[e]
  BY <1>1, Parts DEF ReadTypes
<1>3. \A e \in Client : (Pruning(e) => Pruning(e)' \/ e \in cut') /\ (e \in cut => e \in cut')
  BY <1>1, <1>2, Constants DEF Pruning
<1>4. ASSUME NEW e \in Client
      PROVE  /\ Newest(cache'[e], puts'[e])
             /\ Bytes(cache'[e]) <= Cap \/ Pruning(e)' \/ e \in cut'
  BY <1>1, <1>3, CacheSame
<1> QED
  BY <1>4 DEF CacheInv

LEMMA CacheStep == TypeOK /\ CacheInv /\ [Next]_vars => CacheInv'
<1> SUFFICES ASSUME TypeOK, CacheInv, [Next]_vars
             PROVE  CacheInv'
  OBVIOUS
<1> DEFINE Quiet == UNCHANGED <<cache, puts, cut, op, reading>>
<1>1. ASSUME Quiet
      PROVE  CacheInv'
  <2>1. \A c \in Client : Pruning(c) => Pruning(c)'
    BY <1>1 DEF Pruning
  <2> QED
    BY <1>1, <2>1, OtherCache
<1>2. CASE UNCHANGED vars
  BY <1>1, <1>2 DEF vars, local
<1>3. ASSUME NEW d \in Device, RefreshRelays(d) \/ SaveSettings(d) \/ LookUp(d)
      PROVE  CacheInv'
  BY <1>1, <1>3 DEF RefreshRelays, SaveSettings, LookUp, local
<1>4. ASSUME NEW r \in Url, NEW d \in Device, DropMailbox(r, d)
      PROVE  CacheInv'
  BY <1>1, <1>4 DEF DropMailbox, local
<1> HIDE DEF Quiet
<1>5. CASE Next
  BY <1>3, <1>4, <1>5, SendFileCache, UploadChunkCache, KeepChunkCache, PruneKeptCache,
     FanOutCache, SendEndsCache, DownloadCache, GetChunkCache, PruneFetchedCache, RestartCache
  DEF Next, Send
<1> QED
  BY <1>2, <1>5

LEMMA CacheInvNewest == TypeOK /\ CacheInv => CacheIsNewest
<1> SUFFICES ASSUME TypeOK, CacheInv, NEW c \in Client
             PROVE  LET last == Len(puts[c])
                        first == last - Len(cache[c]) + 1
                    IN  /\ cache[c] = SubSeq(puts[c], first, last)
                        /\ first > 1 => Bytes(SubSeq(puts[c], first - 1, last)) > Cap
                        /\ Bytes(cache[c]) <= Cap \/ Pruning(c) \/ c \in cut
  BY DEF CacheIsNewest, Pruning
<1> DEFINE s == cache[c]
           p == puts[c]
           first == Len(p) - Len(s) + 1
<1>1. s \in Seq(Chunk) /\ p \in Seq(Chunk) /\ Newest(s, p)
  BY Parts DEF CacheTypes, CacheInv
<1>2. Bytes(s) <= Cap \/ Pruning(c) \/ c \in cut
  BY DEF CacheInv
<1> HIDE DEF s, p
<1>3. s = SubSeq(p, first, Len(p))
  BY <1>1 DEF Newest, Latest
<1>4. ASSUME first > 1
      PROVE  Bytes(SubSeq(p, first - 1, Len(p))) > Cap
  <2>1. Len(s) < Len(p) /\ first - 1 = Len(p) - (Len(s) + 1) + 1
    BY <1>1, <1>4
  <2> QED
    BY <1>1, <2>1 DEF Newest, Latest
<1> QED
  BY <1>2, <1>3, <1>4 DEF s, p

\* The cache (put_local_blob, prune_local_blobs) is the newest of what was put into it, as
\* much of it as fits, whatever was interrupted: for any sizes, caps and orders.
THEOREM CacheNewest == Spec => []CacheIsNewest
<1>1. Init => TypeOK /\ CacheInv
  BY TypeInit, CacheInit
<1>2. TypeOK /\ CacheInv /\ [Next]_vars => (TypeOK /\ CacheInv)'
  BY TypeStep, CacheStep
<1> QED
  BY <1>1, <1>2, CacheInvNewest, PTL DEF Spec

-----------------------------------------------------------------------------
(* What a download puts together.                                          *)

\* The first chunks of a manifest, up to but not including place n, in memory.
Gathered(ciphertexts, m, n) ==
    /\ Len(ciphertexts) = n - 1
    /\ \A i \in 1 .. n - 1 : ciphertexts[i] = ChunksOf(m)[i]

\* A download holds what it has passed, and all that ended returned their file.
OpenInv ==
    /\ FilesOpen
    /\ \A c \in Client :
          IF reading[c] = None THEN got[c] = <<>>
          ELSE Gathered(got[c], reading[c].manifest, reading[c].at)

\* All the chunks of a manifest open as its file.
LEMMA GatheredOpens ==
    ASSUME NEW ciphertexts \in Seq(Chunk), NEW m \in [file : File, to : Device],
           Gathered(ciphertexts, m, Len(Pieces) + 1)
    PROVE  DecryptAttachment(m, ciphertexts)
<1>1. DOMAIN Pieces = 1 .. Len(Pieces) /\ Len(Pieces) \in Nat
  BY Constants
<1>2. Len(ciphertexts) = Len(Pieces)
  BY <1>1 DEF Gathered
<1>3. ciphertexts = [i \in 1 .. Len(Pieces) |-> ciphertexts[i]]
  BY <1>1, <1>2
<1>4. \A i \in 1 .. Len(Pieces) : ciphertexts[i] = ChunksOf(m)[i]
  BY <1>1 DEF Gathered
<1>5. ChunksOf(m) = [i \in 1 .. Len(Pieces) |-> ChunksOf(m)[i]]
  BY <1>1 DEF ChunksOf
<1> QED
  BY <1>3, <1>4, <1>5 DEF DecryptAttachment

\* One chunk more.
LEMMA GatheredMore ==
    ASSUME NEW ciphertexts \in Seq(Chunk), NEW m \in [file : File, to : Device],
           NEW n \in 1 .. Len(Pieces), Gathered(ciphertexts, m, n)
    PROVE  /\ Append(ciphertexts, ChunksOf(m)[n]) \in Seq(Chunk)
           /\ Gathered(Append(ciphertexts, ChunksOf(m)[n]), m, n + 1)
<1> DEFINE x == ChunksOf(m)[n]
           new == Append(ciphertexts, x)
<1>1. x \in Chunk
  BY Constants DEF ChunksOf, Chunk
<1>2. Len(ciphertexts) = n - 1 /\ \A i \in 1 .. n - 1 : ciphertexts[i] = ChunksOf(m)[i]
  BY DEF Gathered
<1>3. n \in Nat \ {0} /\ 1 .. (n + 1) - 1 = 1 .. n
  BY Constants
<1>4. new \in Seq(Chunk) /\ Len(new) = n /\ new[n] = x
      /\ \A i \in 1 .. n - 1 : new[i] = ciphertexts[i]
  <2> HIDE DEF x
  <2> QED
    BY <1>1, <1>2, <1>3
<1> HIDE DEF new
<1>5. \A i \in 1 .. n : new[i] = ChunksOf(m)[i]
  BY <1>2, <1>3, <1>4
<1>6. Gathered(new, m, n + 1)
  BY <1>3, <1>4, <1>5 DEF Gathered
<1> QED
  BY <1>4, <1>6 DEF new

\* A client's step keeps the rest.
LEMMA OpenOthers ==
    ASSUME TypeOK, OpenInv, NEW c \in Client, NEW r, NEW g,
           reading' = [reading EXCEPT ![c] = r], got' = [got EXCEPT ![c] = g],
           IF r = None THEN g = <<>> ELSE Gathered(g, r.manifest, r.at),
           FilesOpen'
    PROVE  OpenInv'
<1>1. /\ reading'[c] = r /\ got'[c] = g
      /\ \A e \in Client \ {c} : reading'[e] = reading[e] /\ got'[e] = got[e]
  BY Parts DEF ReadTypes, MemoryTypes
<1>2. ASSUME NEW e \in Client
      PROVE  IF reading'[e] = None THEN got'[e] = <<>>
             ELSE Gathered(got'[e], reading'[e].manifest, reading'[e].at)
  <2>1. CASE e = c
    BY <1>1, <2>1
  <2>2. CASE e # c
    BY <1>1, <2>2 DEF OpenInv
  <2> QED
    BY <2>1, <2>2
<1> QED
  BY <1>2 DEF OpenInv, Gathered, ChunksOf

LEMMA CollectOpen ==
    ASSUME TypeOK, OpenInv, NEW c \in Client, reading[c] # None, Collect(c)
    PROVE  OpenInv'
<1>1. PICK old \in Reading : old = reading[c]
  BY Parts, ReadingIs
<1>2. PICK m \in [file : File, to : Device] : m = old.manifest
  BY <1>1 DEF Reading
<1>3. PICK n \in 1 .. Len(Pieces) : n = old.at
  BY <1>1, Constants DEF Reading
<1>4. PICK s \in Seq(Chunk) : s = got[c]
  BY Parts DEF MemoryTypes
<1>5. Gathered(s, m, n)
  BY <1>1, <1>2, <1>3, <1>4 DEF OpenInv
<1> DEFINE new == Append(s, ChunksOf(m)[n])
<1>6. new \in Seq(Chunk) /\ Gathered(new, m, n + 1)
  BY <1>5, GatheredMore
<1>7. /\ reading' = [reading EXCEPT ![c] = Advanced(old)]
      /\ IF n < Len(Pieces) THEN got' = [got EXCEPT ![c] = new] /\ UNCHANGED opened
         ELSE /\ got' = [got EXCEPT ![c] = <<>>]
              /\ opened' = opened \cup {[by |-> c, manifest |-> m,
                                        ok |-> DecryptAttachment(m, new)]}
  BY <1>1, <1>2, <1>3, <1>4 DEF Collect, Collected
<1> HIDE DEF new
<1>8. CASE n < Len(Pieces)
  <2>1. Advanced(old) = [old EXCEPT !.step = "get", !.at = @ + 1]
    BY <1>3, <1>8 DEF Advanced
  <2>2. Advanced(old).manifest = m /\ Advanced(old).at = n + 1 /\ Advanced(old) \in Reading
    <3>1. n + 1 \in DOMAIN Pieces
      BY <1>8, Constants
    <3> QED
      BY <1>1, <1>2, <1>3, <2>1, <3>1 DEF Reading
  <2>3. Advanced(old) # None
    BY <2>2, Constants
  <2>4. FilesOpen'
    BY <1>7, <1>8 DEF OpenInv, FilesOpen
  <2>5. PICK r \in Reading : r = Advanced(old)
    BY <2>2
  <2>6. reading' = [reading EXCEPT ![c] = r] /\ got' = [got EXCEPT ![c] = new]
    BY <1>7, <1>8, <2>5
  <2>7. IF r = None THEN new = <<>> ELSE Gathered(new, r.manifest, r.at)
    BY <1>6, <2>2, <2>3, <2>5
  <2> QED
    BY <2>4, <2>6, <2>7, OpenOthers
<1>9. CASE ~(n < Len(Pieces))
  <2>0. PICK k \in Nat : k = Len(Pieces)
    BY Constants
  <2>1. n = Len(Pieces)
    <3>1. n \in 1 .. k /\ ~(n < k)
      BY <1>3, <1>9, <2>0
    <3> QED
      BY <2>0, <3>1
  <2>2. Advanced(old) = None
    BY <1>3, <1>9 DEF Advanced
  <2>3. DecryptAttachment(m, new)
    BY <1>6, <2>1, GatheredOpens
  <2>4. FilesOpen'
    BY <1>7, <1>9, <2>3 DEF OpenInv, FilesOpen
  <2>5. reading' = [reading EXCEPT ![c] = None] /\ got' = [got EXCEPT ![c] = <<>>]
    BY <1>7, <1>9, <2>2
  <2> QED
    BY <2>4, <2>5, OpenOthers
<1> QED
  BY <1>8, <1>9

LEMMA OpenStep == TypeOK /\ OpenInv /\ [Next]_vars => OpenInv'
<1> SUFFICES ASSUME TypeOK, OpenInv, [Next]_vars
             PROVE  OpenInv'
  OBVIOUS
<1>1. ASSUME UNCHANGED <<reading, memory>>
      PROVE  OpenInv'
  BY <1>1 DEF OpenInv, FilesOpen, memory, Gathered, ChunksOf
<1>2. ASSUME NEW c \in Client, reading' = [reading EXCEPT ![c] = None],
             got' = [got EXCEPT ![c] = <<>>], opened' = opened
      PROVE  OpenInv'
  <2>1. FilesOpen'
    BY <1>2 DEF OpenInv, FilesOpen
  <2> QED
    BY <1>2, <2>1, OpenOthers
<1>3. ASSUME NEW c \in Client, GetChunk(c)
      PROVE  OpenInv'
  <2>1. CASE Collect(c)
    BY <1>3, <2>1, CollectOpen DEF GetChunk
  <2>2. CASE /\ reading' = [reading EXCEPT ![c] = None]
             /\ got' = [got EXCEPT ![c] = <<>>] /\ opened' = opened
    BY <1>2, <2>2
  <2>3. CASE /\ reading' = [reading EXCEPT ![c].step = "prune"]
             /\ got' = got /\ opened' = opened
    <3>1. PICK old \in Reading : old = reading[c]
      BY <1>3, Parts, ReadingIs DEF GetChunk
    <3>2. PICK r \in Reading : r = [old EXCEPT !.step = "prune"]
      BY <3>1 DEF Reading
    <3>3. r.manifest = old.manifest /\ r.at = old.at /\ r # None
      BY <3>1, <3>2, Constants DEF Reading
    <3>4. reading' = [reading EXCEPT ![c] = r]
      BY <2>3, <3>1, <3>2
    <3>5. got' = [got EXCEPT ![c] = got[c]]
      BY <2>3, Parts DEF MemoryTypes
    <3>6. Gathered(got[c], r.manifest, r.at)
      BY <1>3, <3>1, <3>3 DEF OpenInv, GetChunk
    <3>7. FilesOpen'
      BY <2>3 DEF OpenInv, FilesOpen
    <3>8. PICK g : g = got[c]
      OBVIOUS
    <3> QED
      BY <3>3, <3>4, <3>5, <3>6, <3>7, <3>8, OpenOthers
  <2> QED
    BY <1>3, <2>1, <2>2, <2>3 DEF GetChunk
<1>4. ASSUME NEW c \in Client, PruneFetched(c)
      PROVE  OpenInv'
  BY <1>4, CollectOpen DEF PruneFetched
<1>5. ASSUME NEW d \in Device, Restart(d)
      PROVE  OpenInv'
  BY <1>2, <1>5, Constants DEF Restart
<1>6. ASSUME NEW c \in Client, Download(c)
      PROVE  OpenInv'
  <2>1. PICK m \in manifests[c] :
            reading' = [reading EXCEPT ![c] = [step |-> "get", manifest |-> m, at |-> 1]]
    BY <1>6 DEF Download
  <2>2. got' = [got EXCEPT ![c] = <<>>] /\ opened' = opened
    BY <1>6, Parts DEF Download, memory, OpenInv, MemoryTypes
  <2>3. FilesOpen'
    BY <2>2 DEF OpenInv, FilesOpen
  <2>4. Gathered(<<>>, m, 1)
    BY DEF Gathered
  <2>5. PICK r : r = [step |-> "get", manifest |-> m, at |-> 1]
    OBVIOUS
  <2>6. r \in Reading /\ r.manifest = m /\ r.at = 1
    <3>1. m \in [file : File, to : Device] /\ 1 \in DOMAIN Pieces
      BY <2>1, Parts, Constants DEF SendTypes
    <3> QED
      BY <2>5, <3>1 DEF Reading
  <2>7. r # None
    BY <2>6, Constants
  <2> QED
    BY <2>1, <2>2, <2>3, <2>4, <2>5, <2>6, <2>7, OpenOthers
<1>7. CASE Send
  BY <1>1, <1>7 DEF Send, SendFile, UploadChunk, KeepChunk, PruneKept, FanOut, AddMessage,
     SendEnds
<1>8. ASSUME NEW d \in Device, RefreshRelays(d) \/ SaveSettings(d) \/ LookUp(d)
      PROVE  OpenInv'
  BY <1>1, <1>8 DEF RefreshRelays, SaveSettings, LookUp
<1>9. ASSUME NEW r \in Url, NEW d \in Device, DropMailbox(r, d)
      PROVE  OpenInv'
  BY <1>1, <1>9 DEF DropMailbox
<1>10. CASE UNCHANGED vars
  BY <1>1, <1>10 DEF vars
<1> QED
  BY <1>3, <1>4, <1>5, <1>6, <1>7, <1>8, <1>9, <1>10 DEF Next

\* A download that finds all its chunks (download_attachment, decrypt_attachment) returns
\* its file, whatever the cache evicted on the way: for any sizes, caps and orders.
THEOREM DownloadsOpen == Spec => []FilesOpen
<1>1. Init => TypeOK /\ OpenInv
  <2>1. Init => OpenInv
    BY DEF Init, OpenInv, FilesOpen
  <2> QED
    BY <2>1, TypeInit
<1>2. TypeOK /\ OpenInv /\ [Next]_vars => (TypeOK /\ OpenInv)'
  BY TypeStep, OpenStep
<1>3. OpenInv => FilesOpen
  BY DEF OpenInv
<1> QED
  BY <1>1, <1>2, <1>3, PTL DEF Spec

=============================================================================
