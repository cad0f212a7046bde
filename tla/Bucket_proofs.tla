--------------------------- MODULE Bucket_proofs ----------------------------
(***************************************************************************)
(* Proofs about a bucket, its linked buckets, the LRU list of a HashCache  *)
(* bucket and the lock-free search of a HashIndex bucket, for any number   *)
(* of slots, of linked buckets and of keys.                                *)
(*                                                                         *)
(* The inductive invariant has three parts.  EntryInv: the links form one  *)
(* path from the bucket, the back links mirror it, and the valid slots on  *)
(* it hold each live key once, whatever the owner of the lock is in the    *)
(* middle of.  LruInv: the pairs of the LRU list are one circle, of the    *)
(* slots in the order of their use.  PeekInv: a reader without the lock    *)
(* that must find its key still has an entry of it ahead.                  *)
(***************************************************************************)
EXTENDS Bucket, FiniteSetTheorems, SequenceTheorems, WellFoundedInduction, TLAPS

-----------------------------------------------------------------------------
(* Paths of links                                                           *)

\* C is the path of the links lk from the bucket: no block twice, and it ends.
Path(lk, C) ==
  /\ C \in Seq(Blocks) /\ Len(C) >= 1 /\ C[1] = 0
  /\ \A i, j \in 1 .. Len(C) : C[i] = C[j] => i = j
  /\ \A j \in 1 .. Len(C) - 1 : lk[C[j]] = C[j + 1]
  /\ lk[C[Len(C)]] = 0

\* C has b, and b before c.
On(C, b) == \E j \in 1 .. Len(C) : C[j] = b
Before(C, b, c) == \E i, j \in 1 .. Len(C) : i < j /\ C[i] = b /\ C[j] = c

\* A nonempty set of natural numbers has a least element: the induction of the
\* proofs below.
LEMMA LeastNumber ==
  ASSUME NEW T \in SUBSET Nat, T # {}
  PROVE  \E x \in T : \A y \in T : x <= y
<1> DEFINE Less == {p \in Nat \X Nat : p[1] < p[2]}
<1>1. OpToRel(<, Nat) = Less
  BY Zenon DEF OpToRel
<1>2. IsWellFoundedOn(Less, Nat)
  BY <1>1, NatLessThanWellFounded, Zenon
<1>3. \A x, y \in Nat : <<y, x>> \in Less <=> y < x
  OBVIOUS
<1> HIDE DEF Less
<1>4. PICK x \in T : \A y \in T : <<y, x>> \notin Less
  BY <1>2, WFMin
<1>5. ASSUME NEW y \in T PROVE x <= y
  <2>1. x \in Nat /\ y \in Nat /\ ~ (y < x)
    BY <1>3, <1>4
  <2> QED BY <2>1
<1> QED BY <1>5

\* Min is the least element of a set of natural numbers.
LEMMA MinIsLeast ==
  ASSUME NEW T \in SUBSET Nat, T # {}
  PROVE  Min(T) \in T /\ \A y \in T : Min(T) <= y
<1>1. \E x \in T : \A y \in T : x <= y
  BY LeastNumber
<1> QED BY <1>1 DEF Min

\* Induction over the natural numbers, on the set where a fact holds.
LEMMA Induction ==
  ASSUME NEW T, 0 \in T, \A n \in Nat : n \in T => n + 1 \in T
  PROVE  Nat \subseteq T
<1> DEFINE B == Nat \ T
<1>1. SUFFICES ASSUME B # {} PROVE FALSE
  OBVIOUS
<1>2. PICK x \in B : \A y \in B : x <= y
  BY <1>1, LeastNumber
<1>3. x - 1 \in Nat /\ x - 1 \notin B
  BY <1>2
<1>4. (x - 1) + 1 \in T
  BY <1>3
<1> QED BY <1>4

\* What the assumption on the constants says about blocks and slots.
LEMMA Numbers ==
  /\ MaxLinks \in Nat /\ Blocks = 0 .. MaxLinks /\ Linked = 1 .. MaxLinks
  /\ BucketLen \in Nat /\ LinkedLen \in Nat /\ BucketLen >= 1 /\ LinkedLen >= 1
  /\ LinkedLen <= BucketLen
  /\ 0 \in Blocks /\ \A b \in Linked : b \in Blocks /\ b # 0
  /\ \A b \in Blocks : b # 0 => b \in Linked
BY BucketAssumption DEF Blocks, Linked

\* A chain has at most all the blocks.
LEMMA ChainIsShort ==
  ASSUME NEW lk, NEW C, Path(lk, C)
  PROVE  Len(C) <= MaxLinks + 1
<1>1. Len(C) \in Nat /\ C \in [1 .. Len(C) -> Blocks]
  BY DEF Path
<1>2. /\ IsFiniteSet(1 .. Len(C)) /\ Cardinality(1 .. Len(C)) = Len(C)
      /\ IsFiniteSet(Blocks) /\ Cardinality(Blocks) = MaxLinks + 1
  <2>1. Cardinality(1 .. Len(C)) = IF 1 > Len(C) THEN 0 ELSE Len(C) - 1 + 1
    BY <1>1, FS_Interval
  <2>2. Cardinality(0 .. MaxLinks) = IF 0 > MaxLinks THEN 0 ELSE MaxLinks - 0 + 1
    BY Numbers, FS_Interval
  <2>3. IsFiniteSet(1 .. Len(C)) /\ IsFiniteSet(0 .. MaxLinks)
    BY <1>1, Numbers, FS_Interval
  <2> QED BY <1>1, <2>1, <2>2, <2>3, Numbers DEF Path
<1>3. C \in Injection(1 .. Len(C), Blocks)
  BY <1>1 DEF Path, Injection, IsInjective
<1>4. Cardinality(1 .. Len(C)) <= Cardinality(Blocks)
  BY <1>2, <1>3, FS_Injection
<1> QED BY <1>2, <1>4

\* The chain of the links lk, as a function of the number of links followed.
ChainFcn(lk) ==
  CHOOSE f : f = [n \in 0 .. MaxLinks |->
     IF n = 0 THEN <<0>>
     ELSE LET s == f[n - 1] IN
          IF lk[Last(s)] = 0 THEN s ELSE Append(s, lk[Last(s)])]

\* Chain follows the links from the bucket, at most MaxLinks times.
LEMMA ChainIsFcn == Chain = ChainFcn(link)[MaxLinks]
BY Zenon DEF Chain, ChainFcn

\* One more link of lk is followed; the first n + 1 elements of C.
Onward(lk, s) == IF lk[Last(s)] = 0 THEN s ELSE Append(s, lk[Last(s)])
Upto(C, n) == IF n + 1 <= Len(C) THEN n + 1 ELSE Len(C)
Prefix(C, n) == SubSeq(C, 1, Upto(C, n))

\* The first blocks of a path, as a sequence.
LEMMA PrefixFacts ==
  ASSUME NEW lk, NEW C, Path(lk, C), NEW n \in Nat
  PROVE  /\ Upto(C, n) \in 1 .. Len(C)
         /\ Prefix(C, n) \in Seq(Blocks) /\ Len(Prefix(C, n)) = Upto(C, n)
         /\ \A j \in 1 .. Upto(C, n) : Prefix(C, n)[j] = C[j]
         /\ Last(Prefix(C, n)) = C[Upto(C, n)]
<1>1. C \in Seq(Blocks) /\ Len(C) \in Nat /\ Len(C) >= 1
  BY DEF Path
<1>2. Upto(C, n) \in 1 .. Len(C)
  BY <1>1 DEF Upto
<1>3. \A j \in 1 .. Upto(C, n) : C[j] \in Blocks
  BY <1>1, <1>2, ElementOfSeq
<1>4. /\ Prefix(C, n) \in Seq(Blocks)
      /\ Len(Prefix(C, n)) = IF 1 <= Upto(C, n) THEN Upto(C, n) - 1 + 1 ELSE 0
      /\ \A j \in 1 .. Upto(C, n) - 1 + 1 : Prefix(C, n)[j] = C[1 + j - 1]
  <2> HIDE DEF Prefix, Upto
  <2>1. Upto(C, n) \in Int
    BY <1>2
  <2> QED BY <1>3, <2>1, SubSeqProperties, SMT DEF Prefix
<1>5. Len(Prefix(C, n)) = Upto(C, n) /\ \A j \in 1 .. Upto(C, n) : Prefix(C, n)[j] = C[j]
  BY <1>2, <1>4
<1> QED BY <1>2, <1>4, <1>5 DEF Last

\* Following one more link adds the next block of the path.
LEMMA PrefixStep ==
  ASSUME NEW lk, NEW C, Path(lk, C), NEW n \in Nat
  PROVE  Onward(lk, Prefix(C, n)) = Prefix(C, n + 1)
<1>1. C \in Seq(Blocks) /\ Len(C) \in Nat /\ Len(C) >= 1 /\ n + 1 \in Nat
  BY DEF Path
<1> DEFINE s == Prefix(C, n)  t == Prefix(C, n + 1)
<1>2. /\ s \in Seq(Blocks) /\ Len(s) = Upto(C, n) /\ Last(s) = C[Upto(C, n)]
      /\ \A j \in 1 .. Upto(C, n) : s[j] = C[j]
      /\ t \in Seq(Blocks) /\ Len(t) = Upto(C, n + 1)
      /\ \A j \in 1 .. Upto(C, n + 1) : t[j] = C[j]
  BY <1>1, PrefixFacts
<1> HIDE DEF s, t
<1>3. CASE n + 1 < Len(C)
  <2>1. Upto(C, n) = n + 1 /\ Upto(C, n + 1) = n + 2
    BY <1>1, <1>3 DEF Upto
  <2>2. n + 1 \in 1 .. Len(C) - 1 /\ n + 2 \in 1 .. Len(C) /\ (n + 1) + 1 = n + 2
    BY <1>1, <1>3
  <2>3. lk[C[n + 1]] = C[n + 2]
    BY <2>2 DEF Path
  <2>4. C[n + 2] # 0 /\ C[n + 2] \in Blocks
    BY <1>1, <2>2, ElementOfSeq DEF Path
  <2>5. Onward(lk, s) = Append(s, C[n + 2])
    BY <1>2, <2>1, <2>3, <2>4 DEF Onward
  <2>6. /\ Append(s, C[n + 2]) \in Seq(Blocks) /\ Len(Append(s, C[n + 2])) = n + 2
        /\ \A j \in 1 .. n + 2 : Append(s, C[n + 2])[j] = C[j]
    BY <1>2, <2>1, <2>4
  <2>7. Append(s, C[n + 2]) = t
    <3>1. \A j \in 1 .. Len(Append(s, C[n + 2])) : Append(s, C[n + 2])[j] = t[j]
      BY <1>2, <2>1, <2>6
    <3>2. Len(Append(s, C[n + 2])) = Len(t)
      BY <1>2, <2>1, <2>6
    <3> QED BY <1>2, <2>6, <3>1, <3>2, SeqEqual
  <2> QED BY <2>5, <2>7 DEF s, t
<1>4. CASE ~ (n + 1 < Len(C))
  <2>1. Upto(C, n) = Len(C) /\ Upto(C, n + 1) = Len(C)
    BY <1>1, <1>4 DEF Upto
  <2>2. Onward(lk, s) = s
    BY <1>2, <2>1 DEF Onward, Path
  <2>3. s = t
    <3>1. \A j \in 1 .. Len(s) : s[j] = t[j]
      BY <1>2, <2>1
    <3> QED BY <1>2, <2>1, <3>1, SeqEqual
  <2> QED BY <2>2, <2>3 DEF s, t
<1> QED BY <1>3, <1>4

\* Before the first link there is the bucket alone.
LEMMA PrefixZero ==
  ASSUME NEW lk, NEW C, Path(lk, C)
  PROVE  Prefix(C, 0) = <<0>>
<1>1. Upto(C, 0) = 1
  BY DEF Upto, Path
<1>2. Prefix(C, 0) \in Seq(Blocks) /\ Len(Prefix(C, 0)) = 1 /\ Prefix(C, 0)[1] = 0
  <2>1. C[1] = 0
    BY DEF Path
  <2>2. /\ Prefix(C, 0) \in Seq(Blocks) /\ Len(Prefix(C, 0)) = Upto(C, 0)
        /\ \A j \in 1 .. Upto(C, 0) : Prefix(C, 0)[j] = C[j]
    <3>1. 0 \in Nat
      OBVIOUS
    <3> QED BY <3>1, PrefixFacts, Zenon
  <2>3. 1 \in 1 .. Upto(C, 0)
    BY <1>1
  <2>4. Prefix(C, 0)[1] = C[1]
    BY <2>2, <2>3, Zenon
  <2> QED BY <1>1, <2>1, <2>2, <2>4, Zenon
<1>3. <<0>> \in Seq(Blocks) /\ Len(<<0>>) = 1 /\ <<0>>[1] = 0
  BY Numbers
<1>4. \A j \in 1 .. Len(Prefix(C, 0)) : Prefix(C, 0)[j] = <<0>>[j]
  BY <1>2, <1>3
<1> QED BY <1>2, <1>3, <1>4, SeqEqual

\* The definition of Chain computes the chain.
LEMMA ChainIs ==
  ASSUME NEW lk, NEW C, Path(lk, C)
  PROVE  ChainFcn(lk)[MaxLinks] = C
<1> DEFINE I == 0 .. MaxLinks
           g == [n \in I |-> Prefix(C, n)]
           f == ChainFcn(lk)
           T == {n \in Nat : n \in I => f[n] = Prefix(C, n)}
<1>1. \A n \in I : n # 0 => n - 1 \in I /\ n - 1 \in Nat /\ (n - 1) + 1 = n
  BY Numbers
<1>2. g = [n \in I |-> IF n = 0 THEN <<0>> ELSE Onward(lk, g[n - 1])]
  <2>1. ASSUME NEW n \in I PROVE g[n] = IF n = 0 THEN <<0>> ELSE Onward(lk, g[n - 1])
    <3>1. CASE n = 0
      BY <3>1, PrefixZero
    <3>2. CASE n # 0
      <4>1. Onward(lk, Prefix(C, n - 1)) = Prefix(C, n)
        BY <1>1, <3>2, PrefixStep
      <4> QED BY <1>1, <3>2, <4>1
    <3> QED BY <3>1, <3>2
  <2> QED BY <2>1
<1>3. \E h : h = [n \in I |-> IF n = 0 THEN <<0>> ELSE Onward(lk, h[n - 1])]
  <2> HIDE DEF g
  <2> QED BY <1>2
<1>4. f = [n \in I |-> IF n = 0 THEN <<0>> ELSE Onward(lk, f[n - 1])]
  BY <1>3, Zenon DEF ChainFcn, Onward
<1> HIDE DEF f
<1>5. 0 \in T
  <2>1. 0 \in I
    BY Numbers
  <2> QED BY <1>4, <2>1, PrefixZero
<1>6. ASSUME NEW n \in Nat, n \in T PROVE n + 1 \in T
  <2>1. SUFFICES ASSUME n + 1 \in I PROVE f[n + 1] = Prefix(C, n + 1)
    OBVIOUS
  <2>2. n \in I /\ n + 1 # 0 /\ (n + 1) - 1 = n
    BY <2>1, Numbers
  <2>3. f[n + 1] = Onward(lk, f[n])
    BY <1>4, <2>1, <2>2
  <2> QED BY <1>6, <2>2, <2>3, PrefixStep
<1>7. Nat \subseteq T
  <2> HIDE DEF T
  <2> QED BY <1>5, <1>6, Induction
<1>8. f[MaxLinks] = Prefix(C, MaxLinks)
  BY <1>7, Numbers
<1>9. Upto(C, MaxLinks) = Len(C)
  <2>1. Len(C) <= MaxLinks + 1
    BY ChainIsShort
  <2>2. Len(C) \in Nat
    BY DEF Path
  <2> QED BY <2>1, <2>2, Numbers DEF Upto
<1>10. Prefix(C, MaxLinks) = C
  BY <1>9, SubSeqFull DEF Prefix, Path
<1> QED BY <1>8, <1>10 DEF f

\* The chain is the path of the links: a path has no other blocks and no cycle.
LEMMA ChainIsPath == \A C : Path(link, C) => Chain = C
BY ChainIs, ChainIsFcn

\* A chain starts at the bucket, and each link leads to the block that comes next.
LEMMA PathFacts ==
  ASSUME NEW lk, NEW C, Path(lk, C)
  PROVE  /\ On(C, 0)
         /\ \A b : On(C, b) => b \in Blocks
         /\ \A b : On(C, b) /\ b # 0 => Before(C, 0, b)
         /\ \A b, c : Before(C, b, c) => On(C, b) /\ On(C, c) /\ b # c /\ c # 0
         /\ \A b, c : Before(C, b, c) => ~Before(C, c, b)
         /\ \A b : On(C, b) /\ lk[b] # 0 => On(C, lk[b]) /\ Before(C, b, lk[b])
         /\ \A b, c : Before(C, b, c) => lk[b] # 0 /\ (c = lk[b] \/ Before(C, lk[b], c))
<1>1. /\ C \in Seq(Blocks) /\ Len(C) \in Nat /\ Len(C) >= 1 /\ C[1] = 0
      /\ \A i, j \in 1 .. Len(C) : C[i] = C[j] => i = j
      /\ \A j \in 1 .. Len(C) - 1 : lk[C[j]] = C[j + 1]
      /\ lk[C[Len(C)]] = 0
      /\ \A j \in 1 .. Len(C) : C[j] \in Blocks
  BY DEF Path
<1>2. On(C, 0) /\ \A b : On(C, b) => b \in Blocks
  BY <1>1 DEF On
<1>3. ASSUME NEW b, On(C, b), b # 0 PROVE Before(C, 0, b)
  <2>1. PICK j \in 1 .. Len(C) : C[j] = b
    BY <1>3 DEF On
  <2>2. 1 \in 1 .. Len(C) /\ 1 < j
    BY <1>1, <1>3, <2>1
  <2> QED BY <1>1, <2>1, <2>2 DEF Before
<1>4. ASSUME NEW b, NEW c, Before(C, b, c) PROVE On(C, b) /\ On(C, c) /\ b # c /\ c # 0
  <2>1. PICK i \in 1 .. Len(C), j \in 1 .. Len(C) : i < j /\ C[i] = b /\ C[j] = c
    BY <1>4 DEF Before
  <2> QED BY <1>1, <2>1 DEF On
<1>5. ASSUME NEW b, NEW c, Before(C, b, c), Before(C, c, b) PROVE FALSE
  <2>1. PICK i \in 1 .. Len(C), j \in 1 .. Len(C) : i < j /\ C[i] = b /\ C[j] = c
    BY <1>5 DEF Before
  <2>2. PICK i2 \in 1 .. Len(C), j2 \in 1 .. Len(C) : i2 < j2 /\ C[i2] = c /\ C[j2] = b
    BY <1>5 DEF Before
  <2>3. i = j2 /\ j = i2
    BY <1>1, <2>1, <2>2
  <2> QED BY <2>1, <2>2, <2>3
<1>6. ASSUME NEW b, On(C, b), lk[b] # 0 PROVE On(C, lk[b]) /\ Before(C, b, lk[b])
  <2>1. PICK j \in 1 .. Len(C) : C[j] = b
    BY <1>6 DEF On
  <2>2. j \in 1 .. Len(C) - 1 /\ j + 1 \in 1 .. Len(C) /\ j < j + 1
    BY <1>1, <1>6, <2>1
  <2>3. C[j + 1] = lk[b]
    BY <1>1, <2>1, <2>2
  <2> QED BY <2>1, <2>2, <2>3 DEF On, Before
<1>7. ASSUME NEW b, NEW c, Before(C, b, c) PROVE lk[b] # 0 /\ (c = lk[b] \/ Before(C, lk[b], c))
  <2>1. PICK i \in 1 .. Len(C), j \in 1 .. Len(C) : i < j /\ C[i] = b /\ C[j] = c
    BY <1>7 DEF Before
  <2>2. i \in 1 .. Len(C) - 1 /\ i + 1 \in 1 .. Len(C) /\ i + 1 <= j /\ 1 \in 1 .. Len(C)
    BY <1>1, <2>1
  <2>3. C[i + 1] = lk[b] /\ i + 1 # 1
    BY <1>1, <2>1, <2>2
  <2>4. lk[b] # 0
    BY <1>1, <2>2, <2>3
  <2>5. CASE i + 1 = j
    BY <2>1, <2>3, <2>4, <2>5
  <2>6. CASE i + 1 < j
    BY <2>1, <2>2, <2>3, <2>4, <2>6 DEF Before
  <2> QED BY <2>2, <2>5, <2>6
<1> QED BY <1>2, <1>3, <1>4, <1>5, <1>6, <1>7

\* The link of a block that is not on the chain is of no matter.
LEMMA PathOther ==
  ASSUME NEW lk \in [Blocks -> Blocks], NEW C, Path(lk, C), NEW b \in Blocks, ~On(C, b), NEW x
  PROVE  Path([lk EXCEPT ![b] = x], C)
<1>1. /\ Len(C) \in Nat /\ Len(C) >= 1
      /\ \A j \in 1 .. Len(C) : C[j] \in Blocks /\ C[j] # b
  BY DEF Path, On
<1>2. \A j \in 1 .. Len(C) : [lk EXCEPT ![b] = x][C[j]] = lk[C[j]]
  BY <1>1
<1>3. /\ \A j \in 1 .. Len(C) - 1 : j \in 1 .. Len(C)
      /\ Len(C) \in 1 .. Len(C)
  BY <1>1
<1> QED BY <1>2, <1>3 DEF Path

\* A chain without links.
LEMMA PathClear ==
  ASSUME NEW lk, lk[0] = 0
  PROVE  Path(lk, <<0>>) /\ (\A b : On(<<0>>, b) <=> b = 0) /\ \A b, c : ~Before(<<0>>, b, c)
<1>1. <<0>> \in Seq(Blocks) /\ Len(<<0>>) = 1 /\ <<0>>[1] = 0
  BY Numbers
<1>2. \A j : j \in 1 .. 1 <=> j = 1
  OBVIOUS
<1> QED BY <1>1, <1>2 DEF Path, On, Before

\* Chain D is chain C with block b behind the bucket.
Inserted(C, b, D) ==
  /\ Len(D) = Len(C) + 1 /\ D[1] = 0 /\ D[2] = b
  /\ \A j \in 2 .. Len(C) : D[j + 1] = C[j]
  /\ \A x : On(D, x) <=> On(C, x) \/ x = b
  /\ \A x, y : Before(C, x, y) => Before(D, x, y)
  /\ \A y : Before(D, 0, y) <=> On(D, y) /\ y # 0

\* A block is linked in behind the bucket.
LEMMA PathInsert ==
  ASSUME NEW lk \in [Blocks -> Blocks], NEW C, Path(lk, C), NEW b \in Linked, ~On(C, b),
         lk[b] = lk[0]
  PROVE  \E D : Path([lk EXCEPT ![0] = b], D) /\ Inserted(C, b, D)
<1>1. /\ C \in Seq(Blocks) /\ Len(C) \in Nat /\ Len(C) >= 1 /\ C[1] = 0
      /\ \A i, j \in 1 .. Len(C) : C[i] = C[j] => i = j
      /\ \A j \in 1 .. Len(C) - 1 : lk[C[j]] = C[j + 1]
      /\ lk[C[Len(C)]] = 0
      /\ \A j \in 1 .. Len(C) : C[j] \in Blocks /\ C[j] # b
      /\ b \in Blocks /\ b # 0 /\ 0 \in Blocks
  <2>1. b \in Blocks /\ b # 0 /\ 0 \in Blocks
    BY Numbers
  <2>2. \A j \in 1 .. Len(C) : C[j] # b
    BY DEF On
  <2> QED BY <2>1, <2>2 DEF Path
<1> DEFINE n == Len(C) + 1
           D == [j \in 1 .. n |-> IF j = 1 THEN 0 ELSE IF j = 2 THEN b ELSE C[j - 1]]
           lk2 == [lk EXCEPT ![0] = b]
<1>2. n \in Nat /\ \A j \in 1 .. n : D[j] \in Blocks
  <2>1. \A j \in 1 .. n : j # 1 => j - 1 \in 1 .. Len(C)
    BY <1>1
  <2> QED BY <1>1, <2>1
<1>3. D \in Seq(Blocks) /\ Len(D) = n
  <2>1. D \in [1 .. n -> Blocks]
    <3> HIDE DEF n
    <3> QED BY <1>2
  <2> HIDE DEF D, n
  <2> QED BY <1>2, <2>1
<1>4. /\ D[1] = 0 /\ D[2] = b /\ \A j \in 3 .. n : D[j] = C[j - 1]
      /\ \A j \in 2 .. Len(C) : D[j + 1] = C[j]
  BY <1>1
<1>5. lk2[0] = b /\ lk2[b] = lk[0] /\ \A x \in Blocks : x # 0 => lk2[x] = lk[x]
  BY <1>1
<1> HIDE DEF D, lk2
<1>6. \A i, j \in 1 .. n : D[i] = D[j] => i = j
  <2>1. ASSUME NEW i \in 1 .. n PROVE \/ i = 1 /\ D[i] = 0
                                      \/ i = 2 /\ D[i] = b
                                      \/ i \in 3 .. n /\ D[i] = C[i - 1] /\ i - 1 \in 2 .. Len(C)
    BY <1>1, <1>4
  <2>2. \A i \in 2 .. Len(C) : C[i] # 0 /\ C[i] # b
    BY <1>1
  <2>3. ASSUME NEW i \in 1 .. n, NEW j \in 1 .. n, D[i] = D[j] PROVE i = j
    <3>1. CASE i \in 3 .. n /\ j \in 3 .. n
      <4>1. C[i - 1] = C[j - 1] /\ i - 1 \in 1 .. Len(C) /\ j - 1 \in 1 .. Len(C)
        BY <1>1, <1>4, <2>3, <3>1
      <4>2. i - 1 = j - 1
        BY <1>1, <4>1
      <4> QED BY <4>2, <3>1
    <3> QED BY <1>1, <2>1, <2>2, <2>3, <3>1
  <2> QED BY <2>3
<1>7. \A j \in 1 .. n - 1 : lk2[D[j]] = D[j + 1]
  <2>1. ASSUME NEW j \in 1 .. n - 1 PROVE lk2[D[j]] = D[j + 1]
    <3>1. CASE j = 1
      BY <1>4, <1>5, <3>1
    <3>2. CASE j = 2
      <4>1. 1 \in 1 .. Len(C) - 1 /\ 3 \in 3 .. n /\ 3 - 1 = 2 /\ 1 + 1 = 2
        BY <1>1, <3>2
      <4>2. lk[C[1]] = C[2]
        BY <1>1, <4>1
      <4>3. D[3] = C[2]
        BY <1>4, <4>1
      <4>4. 2 + 1 = 3
        OBVIOUS
      <4> QED BY <1>1, <1>4, <1>5, <3>2, <4>2, <4>3, <4>4
    <3>3. CASE j > 2
      <4>1. j - 1 \in 1 .. Len(C) - 1 /\ j \in 3 .. n /\ j + 1 \in 3 .. n /\ j - 1 \in 1 .. Len(C)
            /\ (j - 1) + 1 = j /\ (j + 1) - 1 = j /\ j - 1 # 1 /\ 1 \in 1 .. Len(C)
        BY <1>1, <3>3
      <4>2. lk[C[j - 1]] = C[j] /\ D[j] = C[j - 1] /\ D[j + 1] = C[j]
        BY <1>1, <1>4, <4>1
      <4>3. C[j - 1] # 0 /\ C[j - 1] \in Blocks
        BY <1>1, <4>1
      <4> QED BY <1>5, <4>2, <4>3
    <3> QED BY <3>1, <3>2, <3>3
  <2> QED BY <2>1
<1>8. lk2[D[n]] = 0
  <2>1. CASE Len(C) = 1
    <3>1. n = 2
      BY <2>1
    <3> QED BY <1>1, <1>4, <1>5, <2>1, <3>1
  <2>2. CASE Len(C) # 1
    <3>1. n \in 3 .. n /\ n - 1 = Len(C) /\ Len(C) \in 1 .. Len(C) /\ 1 \in 1 .. Len(C)
      BY <1>1, <2>2
    <3>2. D[n] = C[Len(C)] /\ C[Len(C)] # 0 /\ C[Len(C)] \in Blocks
      BY <1>1, <1>4, <2>2, <3>1
    <3> QED BY <1>1, <1>5, <3>2
  <2> QED BY <2>1, <2>2
<1>9. Path(lk2, D)
  <2>1. Len(D) >= 1
    BY <1>1, <1>3
  <2> HIDE DEF n
  <2> QED BY <1>3, <1>4, <1>6, <1>7, <1>8, <2>1 DEF Path
<1>10. \A x : On(D, x) <=> On(C, x) \/ x = b
  <2>1. ASSUME NEW x, On(D, x) PROVE On(C, x) \/ x = b
    <3>1. PICK j \in 1 .. n : D[j] = x
      BY <1>3, <2>1 DEF On
    <3>2. CASE j \in 3 .. n
      <4>1. j - 1 \in 1 .. Len(C) /\ C[j - 1] = x
        BY <1>1, <1>4, <3>1, <3>2
      <4> QED BY <4>1 DEF On
    <3>3. CASE j = 1
      <4>1. 1 \in 1 .. Len(C) /\ C[1] = x
        BY <1>1, <1>4, <3>1, <3>3
      <4> QED BY <4>1 DEF On
    <3> QED BY <1>1, <1>4, <3>1, <3>2, <3>3
  <2>2. ASSUME NEW x, On(C, x) PROVE On(D, x)
    <3>1. PICK j \in 1 .. Len(C) : C[j] = x
      BY <2>2 DEF On
    <3>2. CASE j = 1
      <4>1. 1 \in 1 .. n /\ D[1] = x
        BY <1>1, <1>4, <3>1, <3>2
      <4> QED BY <1>3, <4>1 DEF On
    <3>3. CASE j # 1
      <4>1. j + 1 \in 1 .. n /\ D[j + 1] = x
        BY <1>1, <1>4, <3>1, <3>3
      <4> QED BY <1>3, <4>1 DEF On
    <3> QED BY <3>2, <3>3
  <2>3. On(D, b)
    <3>1. 2 \in 1 .. n
      BY <1>1
    <3> QED BY <1>3, <1>4, <3>1 DEF On
  <2> QED BY <2>1, <2>2, <2>3
<1>11. ASSUME NEW x, NEW y, Before(C, x, y) PROVE Before(D, x, y)
  <2>1. PICK i \in 1 .. Len(C), j \in 1 .. Len(C) : i < j /\ C[i] = x /\ C[j] = y
    BY <1>11 DEF Before
  <2>2. j + 1 \in 1 .. n /\ D[j + 1] = y
    BY <1>1, <1>4, <2>1
  <2>3. CASE i = 1
    <3>1. 1 \in 1 .. n /\ D[1] = x /\ 1 < j + 1
      BY <1>1, <1>4, <2>1, <2>3
    <3> QED BY <1>3, <2>2, <3>1 DEF Before
  <2>4. CASE i # 1
    <3>1. i + 1 \in 1 .. n /\ D[i + 1] = x /\ i + 1 < j + 1
      BY <1>1, <1>4, <2>1, <2>4
    <3> QED BY <1>3, <2>2, <3>1 DEF Before
  <2> QED BY <2>3, <2>4
<1>12. \A y : Before(D, 0, y) <=> On(D, y) /\ y # 0
  BY <1>9, PathFacts
<1> QED BY <1>3, <1>4, <1>9, <1>10, <1>11, <1>12 DEF lk2, Inserted

\* A block is unlinked.
LEMMA PathRemove ==
  ASSUME NEW lk \in [Blocks -> Blocks], NEW C, Path(lk, C),
         NEW p \in 2 .. Len(C)
  PROVE  \E D : /\ Path([lk EXCEPT ![C[p - 1]] = lk[C[p]], ![C[p]] = 0], D)
                /\ Len(D) = Len(C) - 1
                /\ \A j \in 1 .. Len(D) : D[j] = IF j < p THEN C[j] ELSE C[j + 1]
                /\ \A x : On(D, x) <=> On(C, x) /\ x # C[p]
                /\ \A x, y : Before(C, x, y) /\ x # C[p] /\ y # C[p] => Before(D, x, y)
<1>1. /\ C \in Seq(Blocks) /\ Len(C) \in Nat /\ Len(C) >= 1 /\ C[1] = 0
      /\ \A i, j \in 1 .. Len(C) : C[i] = C[j] => i = j
      /\ \A j \in 1 .. Len(C) - 1 : lk[C[j]] = C[j + 1]
      /\ lk[C[Len(C)]] = 0
      /\ \A j \in 1 .. Len(C) : C[j] \in Blocks
      /\ p \in Nat /\ p - 1 \in 1 .. Len(C) /\ p \in 1 .. Len(C) /\ p >= 2
  BY DEF Path
<1> DEFINE n == Len(C) - 1
           D == [j \in 1 .. n |-> IF j < p THEN C[j] ELSE C[j + 1]]
           b == C[p]
           a == C[p - 1]
           lk2 == [lk EXCEPT ![a] = lk[b], ![b] = 0]
<1>2. n \in Nat /\ n >= 1 /\ \A j \in 1 .. n : D[j] \in Blocks
  <2>1. \A j \in 1 .. n : j \in 1 .. Len(C) /\ j + 1 \in 1 .. Len(C)
    BY <1>1
  <2> QED BY <1>1, <2>1
<1>3. D \in Seq(Blocks) /\ Len(D) = n
  BY <1>2
<1>4. \A j \in 1 .. n : (j < p => D[j] = C[j]) /\ (j >= p => D[j] = C[j + 1])
  BY <1>1
<1>5. a # b /\ lk2[a] = lk[b] /\ \A x \in Blocks : x # a /\ x # b => lk2[x] = lk[x]
  BY <1>1
<1>50. ASSUME NEW i \in 1 .. Len(C) PROVE (C[i] = a <=> i = p - 1) /\ (C[i] = b <=> i = p)
  BY <1>1
<1> HIDE DEF D, lk2, a, b
<1>6. \A i, j \in 1 .. n : D[i] = D[j] => i = j
  <2>1. ASSUME NEW i \in 1 .. n, NEW j \in 1 .. n, D[i] = D[j] PROVE i = j
    <3>1. i \in 1 .. Len(C) /\ j \in 1 .. Len(C) /\ i + 1 \in 1 .. Len(C) /\ j + 1 \in 1 .. Len(C)
      BY <1>1
    <3>2. CASE i < p /\ j < p
      BY <1>1, <1>4, <2>1, <3>1, <3>2
    <3>3. CASE i < p /\ j >= p
      <4>1. i = j + 1
        BY <1>1, <1>4, <2>1, <3>1, <3>3
      <4> QED BY <1>1, <3>3, <4>1
    <3>4. CASE i >= p /\ j < p
      <4>1. i + 1 = j
        BY <1>1, <1>4, <2>1, <3>1, <3>4
      <4> QED BY <1>1, <3>4, <4>1
    <3>5. CASE i >= p /\ j >= p
      <4>1. i + 1 = j + 1
        BY <1>1, <1>4, <2>1, <3>1, <3>5
      <4> QED BY <4>1
    <3> QED BY <1>1, <3>2, <3>3, <3>4, <3>5
  <2> QED BY <2>1
<1>7. ASSUME NEW j \in 1 .. n - 1 PROVE lk2[D[j]] = D[j + 1]
  <2>1. /\ j \in 1 .. n /\ j + 1 \in 1 .. n /\ j \in 1 .. Len(C) - 1 /\ j + 1 \in 1 .. Len(C) - 1
        /\ j \in 1 .. Len(C) /\ j + 1 \in 1 .. Len(C) /\ (j + 1) + 1 \in 1 .. Len(C)
    BY <1>1
  <2>2. CASE j + 1 < p
    <3>1. D[j] = C[j] /\ D[j + 1] = C[j + 1] /\ lk[C[j]] = C[j + 1] /\ C[j] # a /\ C[j] # b
      BY <1>1, <1>4, <1>50, <2>1, <2>2
    <3> QED BY <1>1, <1>5, <2>1, <3>1
  <2>3. CASE j + 1 = p
    <3>1. D[j] = a /\ D[j + 1] = C[(j + 1) + 1] /\ lk[b] = C[(j + 1) + 1]
      BY <1>1, <1>4, <2>1, <2>3 DEF a, b
    <3> QED BY <1>5, <3>1
  <2>4. CASE j >= p
    <3>1. /\ D[j] = C[j + 1] /\ D[j + 1] = C[(j + 1) + 1] /\ lk[C[j + 1]] = C[(j + 1) + 1]
          /\ C[j + 1] # a /\ C[j + 1] # b
      BY <1>1, <1>4, <1>50, <2>1, <2>4
    <3> QED BY <1>1, <1>5, <2>1, <3>1
  <2> QED BY <1>1, <2>2, <2>3, <2>4
<1>8. lk2[D[n]] = 0
  <2>1. CASE p = Len(C)
    <3>1. n < p /\ n = p - 1 /\ n \in 1 .. n
      BY <1>1, <2>1
    <3>2. D[n] = a
      BY <1>4, <3>1 DEF a
    <3> QED BY <1>1, <1>5, <2>1, <3>2 DEF b
  <2>2. CASE p # Len(C)
    <3>1. n >= p /\ n \in 1 .. n /\ n + 1 = Len(C) /\ Len(C) \in 1 .. Len(C)
      BY <1>1, <2>2
    <3>2. D[n] = C[Len(C)] /\ D[n] # a /\ D[n] # b /\ D[n] \in Blocks
      <4>1. D[n] = C[Len(C)]
        BY <1>4, <3>1
      <4>2. Len(C) # p - 1 /\ Len(C) # p
        BY <1>1, <2>2
      <4> QED BY <1>1, <1>50, <3>1, <4>1, <4>2
    <3> QED BY <1>1, <1>5, <3>2
  <2> QED BY <2>1, <2>2
<1>9. Path(lk2, D)
  <2>1. D[1] = 0
    BY <1>1, <1>2, <1>4
  <2> HIDE DEF n
  <2> QED BY <1>2, <1>3, <1>6, <1>7, <1>8, <2>1 DEF Path
<1>10. \A x : On(D, x) <=> On(C, x) /\ x # b
  <2>1. ASSUME NEW x, On(D, x) PROVE On(C, x) /\ x # b
    <3>1. PICK j \in 1 .. n : D[j] = x
      BY <1>3, <2>1 DEF On
    <3>2. CASE j < p
      <4>1. j \in 1 .. Len(C) /\ C[j] = x
        BY <1>1, <1>4, <3>1, <3>2
      <4> QED BY <1>1, <1>50, <3>2, <4>1 DEF On
    <3>3. CASE j >= p
      <4>1. j + 1 \in 1 .. Len(C) /\ C[j + 1] = x /\ j + 1 # p
        BY <1>1, <1>4, <3>1, <3>3
      <4> QED BY <1>1, <1>50, <3>3, <4>1 DEF On
    <3> QED BY <1>1, <3>2, <3>3
  <2>2. ASSUME NEW x, On(C, x), x # b PROVE On(D, x)
    <3>1. PICK j \in 1 .. Len(C) : C[j] = x
      BY <2>2 DEF On
    <3>2. CASE j < p
      <4>1. j \in 1 .. n /\ D[j] = x
        BY <1>1, <1>4, <3>1, <3>2
      <4> QED BY <1>3, <4>1 DEF On
    <3>3. CASE j > p
      <4>1. j - 1 \in 1 .. n /\ j - 1 >= p /\ (j - 1) + 1 = j
        BY <1>1, <3>1, <3>3
      <4> QED BY <1>3, <1>4, <3>1, <4>1 DEF On
    <3> QED BY <1>1, <2>2, <3>1, <3>2, <3>3 DEF b
  <2> QED BY <2>1, <2>2
<1>11. ASSUME NEW x, NEW y, Before(C, x, y), x # b, y # b PROVE Before(D, x, y)
  <2> DEFINE q(j) == IF j < p THEN j ELSE j - 1
  <2>1. PICK i \in 1 .. Len(C), j \in 1 .. Len(C) : i < j /\ C[i] = x /\ C[j] = y
    BY <1>11 DEF Before
  <2>2. i # p /\ j # p
    BY <1>11, <2>1 DEF b
  <2>3. ASSUME NEW k \in 1 .. Len(C), k # p PROVE q(k) \in 1 .. n /\ D[q(k)] = C[k]
    <3>1. CASE k < p
      <4>1. k \in 1 .. n /\ q(k) = k
        BY <1>1, <3>1
      <4> QED BY <1>4, <3>1, <4>1
    <3>2. CASE k > p
      <4>1. k - 1 \in 1 .. n /\ k - 1 >= p /\ (k - 1) + 1 = k
        BY <1>1, <3>2
      <4> QED BY <1>1, <1>4, <3>2, <4>1
    <3> QED BY <1>1, <2>3, <3>1, <3>2
  <2>4. q(i) < q(j)
    BY <1>1, <2>1, <2>2
  <2>5. q(i) \in 1 .. n /\ D[q(i)] = x /\ q(j) \in 1 .. n /\ D[q(j)] = y
    BY <2>1, <2>2, <2>3
  <2> HIDE DEF q
  <2> QED BY <1>3, <2>4, <2>5 DEF Before
<1>12. \A j \in 1 .. Len(D) : D[j] = IF j < p THEN C[j] ELSE C[j + 1]
  BY <1>3 DEF D
<1> QED BY <1>3, <1>9, <1>10, <1>11, <1>12 DEF lk2, a, b

-----------------------------------------------------------------------------
(* The inductive invariant                                                  *)

\* Where the owner of the lock is, and in which operation.
PCs == {"unlocked", "evict", "write", "publish", "count", "promote", "uncount",
        "erase", "walk", "at", "kill", "clear"}
Names == {"none", "insert", "put", "get", "remove", "update", "retain", "prune",
          "relocate"}
WalkNames == {"retain", "prune", "relocate"}
Adding == {"evict", "write", "publish", "count"}

\* The types.
TypeInv ==
  /\ type \in Types
  /\ occ \in [Blocks -> SUBSET SlotsOf(0)] /\ rem \in [Blocks -> SUBSET SlotsOf(0)]
  /\ \A b \in Blocks : occ[b] \subseteq SlotsOf(b)
  /\ DOMAIN data = Blocks /\ \A b \in Blocks : data[b] \in [SlotsOf(b) -> Keys \cup {None}]
  /\ link \in [Blocks -> Blocks] /\ prev \in [Blocks -> Blocks]
  /\ num \in Int /\ killed \in BOOLEAN /\ dropped \in BOOLEAN
  /\ pc \in PCs
  /\ op \in [name : Names, key : Keys \cup {None}, left : SUBSET Keys]
  /\ ptr \in [b : Blocks, i : 0 .. BucketLen + 1]
  /\ new \in [b : Blocks, i : 0 .. BucketLen]
  /\ live \subseteq Keys /\ IsFiniteSet(live)

\* The links are the path Chain.
IsChain == Path(link, Chain)

\* A new linked bucket that is ready and not linked.
Fresh == pc = "publish" /\ new.i \in occ[new.b]

\* The back links; a new linked bucket is already behind the next one.
BackLinks ==
  \A j \in 2 .. Len(Chain) :
    prev[Chain[j]] = IF Fresh /\ j = 2 THEN new.b ELSE Chain[j - 1]

\* There is an entry in slot i of block b that can be found.
At(b, i) == On(Chain, b) /\ i \in Valid(b)

\* The pointer p is at slot i of block b.
Is(p, b, i) == p.b = b /\ p.i = i

\* An entry that has been written and not published.
Written(b, i) == pc = "publish" /\ ~Fresh /\ Is(new, b, i)

\* Occupied means initialised; a block off the chain is empty, unless it is new
\* or its HashIndex bucket was killed.
Bitmaps ==
  /\ \A b \in Blocks : \A i \in SlotsOf(b) :
       i \in occ[b] <=> data[b][i] # None /\ ~Written(b, i)
  /\ \A b \in Blocks :
       ~On(Chain, b) /\ (~killed \/ type # "OPTIMISTIC") /\ ~ (Fresh /\ b = new.b)
         => occ[b] = {}

\* Removed bits of an OPTIMISTIC bucket are of occupied slots.
RemInv ==
  type = "OPTIMISTIC" /\ ~killed /\ ~dropped => \A b \in Blocks : rem[b] \subseteq occ[b]

\* Two entries of one key: an update between its insertion and its removal.
Updating(b, i, c, j) ==
  /\ op.name = "update" /\ pc \in {"count", "uncount", "erase"}
  /\ \/ Is(new, b, i) /\ Is(ptr, c, j)
     \/ Is(new, c, j) /\ Is(ptr, b, i)

\* The entries that can be found are the live keys, each once.
Entries ==
  /\ \A b, i : At(b, i) => data[b][i] \in live \/ (pc = "count" /\ Is(new, b, i))
  /\ \A k \in live : \E b, i : At(b, i) /\ data[b][i] = k
  /\ \A b, i, c, j :
       At(b, i) /\ At(c, j) /\ data[b][i] = data[c][j]
         => (b = c /\ i = j) \/ Updating(b, i, c, j)

\* num_entries counts the entries, but for the one being added or taken.
Counted ==
  ~dropped =>
    num = Cardinality(live)
            + (IF op.name = "update" /\ pc = "uncount" THEN 1
               ELSE IF op.name # "update" /\ pc = "erase" THEN -1 ELSE 0)

\* p is the slot of the operation's key.
Holds(p) == At(p.b, p.i) /\ data[p.b][p.i] = op.key

\* Which operation is where, on which bucket.
Purpose ==
  /\ pc = "unlocked" => op = NoOp
  /\ pc # "unlocked" => ~dropped /\ (killed <=> pc = "clear")
  /\ killed \/ dropped => live = {}
  /\ pc = "evict" => op.name = "put"
  /\ op.name \in {"put", "get"} => type = "CACHE"
  /\ op.name = "update" => type = "OPTIMISTIC"
  /\ op.name = "prune" => type = "SEQUENTIAL"
  /\ pc \in Adding => op.name \in {"insert", "put", "update"} /\ op.key \in Keys
  /\ pc = "promote" => op.name \in {"get", "put"}
  /\ pc \in {"uncount", "erase"} =>
       /\ op.name \in {"remove", "update", "retain", "relocate"}
       /\ op.name = "relocate" => type = "OPTIMISTIC"
  /\ pc \in {"walk", "at"} => op.name \in WalkNames
  /\ pc \in {"kill", "clear"} => op.name = "relocate" /\ live = {}

\* What the owner of the lock knows about the slots it has at hand.
Owner ==
  /\ pc \in Adding => IF op.name = "update" THEN op.key \in live /\ Holds(ptr)
                      ELSE op.key \notin live
  /\ pc = "count" \/ (op.name = "update" /\ pc \in {"uncount", "erase"}) =>
       Holds(new) /\ (op.name = "update" => new # ptr)
  /\ pc \in {"promote", "uncount", "erase", "at"} => Holds(ptr)
  /\ pc \in {"uncount", "erase", "at"} => op.key \in live

\* The slot that has been written, and is not published.
Chosen ==
  pc = "publish" =>
    /\ new.i \in SlotsOf(new.b) /\ data[new.b][new.i] = op.key
    /\ On(Chain, new.b) <=> ~Fresh
    /\ Fresh => /\ occ[new.b] = {0} /\ rem[new.b] = {}
                /\ link[new.b] = link[0] /\ prev[new.b] = 0
    /\ ~Fresh => new.i \notin rem[new.b] \/ type # "OPTIMISTIC"

\* Slot i of block b is still to be visited.
Ahead(b, i) ==
  \/ b = ptr.b /\ (ptr.i = LenOf(b) \/ i > ptr.i)
  \/ Before(Chain, ptr.b, b)

\* A walk over all of the entries.
Walking == op.name \in WalkNames /\ pc \in {"walk", "at", "uncount", "erase"}

\* A walk has ahead of it every entry it has not met.
WalkInv ==
  Walking =>
    /\ op.left \subseteq live
    /\ pc # "walk" => op.key \notin op.left
    /\ ptr # Fused => On(Chain, ptr.b) /\ ptr.i \in 0 .. LenOf(ptr.b)
    /\ ptr = Fused => op.left = {} /\ pc = "walk"
    /\ \A b, i : At(b, i) /\ data[b][i] \in op.left => Ahead(b, i)
    /\ op.name = "relocate" =>
         \A k \in live : k \in op.left \/ (pc # "walk" /\ k = op.key)

\* The inductive invariant on the chain and the entries.
EntryInv ==
  /\ TypeInv /\ IsChain /\ BackLinks /\ Bitmaps /\ RemInv /\ Entries /\ Counted
  /\ Purpose /\ Owner /\ Chosen /\ WalkInv

\* The LRU list is the circle of the slots in the order of their use.
LruInv ==
  /\ recent \in Seq(SlotsOf(0))
  /\ \A i, j \in 1 .. Len(recent) : recent[i] = recent[j] => i = j
  /\ type # "CACHE" => recent = <<>>
  /\ lru = L!Ring(recent)
  /\ ~killed /\ ~dropped /\ op.name # "relocate" => ToSet(recent) \subseteq occ[0]

\* The entry in slot i of block b is one the reader will come to.
Sought(b, i) ==
  \/ /\ b = peek.b /\ peek.pc # "link"
     /\ peek.pc \in {"rem", "match"} => i \in peek.occ
     /\ peek.pc \in {"occ", "match"} => i \notin peek.rem
  \/ Before(Chain, peek.b, b)

\* The types of the reader.
PeekPCs == {"idle", "num", "bitmaps", "occ", "rem", "match", "link", "none", "found"}
PeekTypes == [pc : PeekPCs, key : Keys \cup {None}, b : Blocks, occ : SUBSET SlotsOf(0),
              rem : SUBSET SlotsOf(0), sure : BOOLEAN]

\* The reader is at a block of the chain, or the bucket is killed.
PeekOn ==
  peek.pc # "idle" => /\ type = "OPTIMISTIC" /\ ~dropped
                      /\ On(Chain, peek.b) \/ (killed /\ pc = "unlocked")

\* The occupied slots it has loaded are still occupied.
PeekOcc == peek.pc \in {"rem", "match"} => \A i \in peek.occ : i \in occ[peek.b]

\* An entry of the key that the reader will find.
PeekFinds == \E b, i : At(b, i) /\ data[b][i] = peek.key /\ Sought(b, i)

\* A reader that must find the key will.
PeekSure ==
  peek.sure =>
    /\ peek.pc \notin {"idle", "none"}
    /\ peek.key \in live /\ ~ (pc = "erase" /\ op.key = peek.key)
    /\ peek.pc # "found" => PeekFinds

\* The inductive invariant on the reader.
PeekInv == peek \in PeekTypes /\ PeekOn /\ PeekOcc /\ PeekSure

-----------------------------------------------------------------------------
(* What the definitions of the specification give                           *)

\* The slots of a bucket and of a linked bucket.
LEMMA SlotFacts ==
  /\ \A b \in Blocks : /\ LenOf(b) \in Nat /\ LenOf(b) >= 1 /\ LenOf(b) <= BucketLen
                       /\ SlotsOf(b) = 0 .. LenOf(b) - 1 /\ 0 \in SlotsOf(b)
                       /\ SlotsOf(b) \subseteq Nat /\ SlotsOf(b) \subseteq SlotsOf(0)
                       /\ LenOf(b) \notin SlotsOf(b)
  /\ LenOf(0) = BucketLen /\ SlotsOf(0) = 0 .. BucketLen - 1
  /\ \A b \in Linked : LenOf(b) = LinkedLen
BY Numbers DEF LenOf, SlotsOf

\* The chain depends on the links only.
LEMMA ChainSame ==
  ASSUME link' = link
  PROVE  Chain' = Chain
BY Zenon DEF Chain

\* What can be found.
LEMMA AtFacts ==
  ASSUME TypeInv, IsChain, Bitmaps
  PROVE  \A b, i : At(b, i) => /\ b \in Blocks /\ On(Chain, b) /\ i \in SlotsOf(b) /\ i \in Nat
                               /\ i \in Valid(b) /\ i \in occ[b]
                               /\ data[b][i] # None /\ data[b][i] \in Keys
                               /\ ~Is(Invalid, b, i) /\ ~Is(Fused, b, i)
<1>1. ASSUME NEW b, NEW i, At(b, i)
      PROVE  /\ b \in Blocks /\ On(Chain, b) /\ i \in SlotsOf(b) /\ i \in Nat /\ i \in Valid(b)
             /\ i \in occ[b] /\ data[b][i] # None /\ data[b][i] \in Keys
             /\ ~Is(Invalid, b, i) /\ ~Is(Fused, b, i)
  <2>1. b \in Blocks /\ On(Chain, b) /\ i \in Valid(b)
    BY <1>1, PathFacts DEF At, IsChain
  <2>2. i \in occ[b]
    BY <2>1 DEF Valid
  <2>3. i \in SlotsOf(b) /\ i \in Nat /\ i \in 0 .. LenOf(b) - 1
    BY <2>1, <2>2, SlotFacts DEF TypeInv
  <2>4. data[b][i] # None /\ data[b][i] \in Keys
    BY <2>1, <2>2, <2>3 DEF Bitmaps, TypeInv
  <2>5. ~ (b = 0 /\ i >= BucketLen)
    BY <2>3, SlotFacts, Numbers
  <2> QED BY <2>1, <2>2, <2>3, <2>4, <2>5, Numbers DEF Is, Invalid, Fused
<1> QED BY <1>1

\* First yields a block of the set, on the chain.
LEMMA FirstFacts ==
  ASSUME IsChain, NEW bs, NEW b \in bs, On(Chain, b)
  PROVE  First(bs) \in bs /\ On(Chain, First(bs))
<1> DEFINE J == {j \in DOMAIN Chain : Chain[j] \in bs}
<1>1. DOMAIN Chain = 1 .. Len(Chain) /\ Len(Chain) \in Nat
  BY DEF IsChain, Path
<1>2. J \in SUBSET Nat /\ J # {}
  BY <1>1 DEF On
<1>3. Min(J) \in J
  BY <1>2, MinIsLeast
<1>4. First(bs) = Chain[Min(J)]
  BY DEF First
<1> HIDE DEF First
<1> QED BY <1>1, <1>3, <1>4 DEF On

\* The blocks on the chain are those of the sequence.
LEMMA OnIsToSet ==
  ASSUME IsChain
  PROVE  \A b : b \in ToSet(Chain) <=> On(Chain, b)
<1>1. DOMAIN Chain = 1 .. Len(Chain)
  BY DEF IsChain, Path
<1> QED BY <1>1 DEF ToSet, On

\* get finds the entry of a key, if there is one.
LEMMA GetFinds ==
  ASSUME EntryInv, pc = "unlocked", ~dropped, NEW k
  PROVE  /\ Get(k) = Invalid => k \notin live
         /\ Get(k) # Invalid => /\ At(Get(k).b, Get(k).i) /\ data[Get(k).b][Get(k).i] = k
                                /\ k \in live
         /\ Get(k) \in [b : Blocks, i : 0 .. BucketLen + 1]
<1> DEFINE bs == {b \in ToSet(Chain) : Matching(b, k) # {}}
<1>0. TypeInv /\ IsChain /\ Bitmaps /\ Entries /\ Counted
  BY DEF EntryInv
<1>1. \A b : b \in bs <=> On(Chain, b) /\ Matching(b, k) # {}
  BY <1>0, OnIsToSet
<1>2. num = Cardinality(live)
  BY <1>0, FS_CardinalityType DEF Counted, TypeInv
<1>3. num = 0 => live = {}
  BY <1>0, <1>2, FS_EmptySet DEF TypeInv
<1>4. Get(k) = IF num = 0 \/ bs = {} THEN Invalid
               ELSE [b |-> First(bs), i |-> Min(Matching(First(bs), k))]
  BY DEF Get
<1> HIDE DEF bs
<1>5. \A b, i : i \in Matching(b, k) <=> i \in Valid(b) /\ data[b][i] = k
  BY DEF Matching
<1>6. Invalid \in [b : Blocks, i : 0 .. BucketLen + 1]
  BY Numbers DEF Invalid
<1>7. CASE num = 0 \/ bs = {}
  <2>1. Get(k) = Invalid
    BY <1>4, <1>7
  <2>2. ASSUME k \in live PROVE FALSE
    <3>1. PICK b, i : At(b, i) /\ data[b][i] = k
      BY <1>0, <2>2 DEF Entries
    <3>2. i \in Matching(b, k) /\ On(Chain, b)
      BY <1>5, <3>1 DEF At
    <3> QED BY <1>1, <1>3, <1>7, <2>2, <3>2
  <2> QED BY <1>6, <2>1, <2>2
<1>8. CASE ~ (num = 0 \/ bs = {})
  <2> DEFINE b == First(bs)  i == Min(Matching(b, k))
  <2>1. b \in bs /\ On(Chain, b)
    BY <1>0, <1>1, <1>8, FirstFacts
  <2>2. b \in Blocks
    BY <1>0, <2>1, PathFacts DEF IsChain
  <2>3. Matching(b, k) # {} /\ Matching(b, k) \in SUBSET Nat
    <3>1. Valid(b) \subseteq occ[b] /\ occ[b] \subseteq Nat
      BY <1>0, <2>2, SlotFacts DEF Valid, TypeInv
    <3> QED BY <1>1, <1>5, <2>1, <3>1
  <2>4. i \in Matching(b, k)
    BY <2>3, MinIsLeast
  <2>5. Get(k) = [b |-> b, i |-> i]
    BY <1>4, <1>8
  <2> HIDE DEF b, i
  <2>6. Get(k).b = b /\ Get(k).i = i
    BY <2>5
  <2>7. At(b, i) /\ data[b][i] = k
    BY <1>5, <2>1, <2>4 DEF At
  <2>8. i \in 0 .. BucketLen + 1 /\ ~Is(Invalid, b, i)
    BY <1>0, <2>2, <2>7, AtFacts, SlotFacts, Numbers
  <2>9. Get(k) # Invalid
    BY <2>6, <2>8 DEF Is
  <2>10. k \in live
    BY <1>0, <2>7 DEF Entries
  <2> QED BY <2>2, <2>5, <2>6, <2>7, <2>8, <2>9, <2>10
<1> QED BY <1>7, <1>8

-----------------------------------------------------------------------------
(* Steps that change no block                                               *)

\* Where the blocks are unchanged, so are the entries.
LEMMA StillAt ==
  ASSUME type' = type, UNCHANGED blockVars
  PROVE  /\ Chain' = Chain /\ \A b : Valid(b)' = Valid(b)
         /\ \A b, i : At(b, i)' <=> At(b, i)
<1>1. Chain' = Chain
  BY ChainSame DEF blockVars
<1>2. \A b : Valid(b)' = Valid(b)
  BY DEF Valid, blockVars
<1> QED BY <1>1, <1>2 DEF At

\* No entry is about to be published, before or after the step.
LEMMA StillBlocks ==
  ASSUME EntryInv, type' = type, UNCHANGED blockVars, UNCHANGED <<killed, dropped>>,
         pc # "publish", pc' # "publish"
  PROVE  IsChain' /\ BackLinks' /\ Bitmaps' /\ RemInv' /\ Chosen'
<1>0. Chain' = Chain /\ UNCHANGED <<occ, rem, data, link, prev>> /\ ~Fresh /\ ~Fresh'
  BY StillAt DEF blockVars, Fresh
<1>1. IsChain'
  BY <1>0 DEF EntryInv, IsChain
<1>2. BackLinks'
  BY <1>0 DEF EntryInv, BackLinks
<1>3. Bitmaps'
  BY <1>0 DEF EntryInv, Bitmaps, Written
<1>4. RemInv'
  BY <1>0 DEF EntryInv, RemInv
<1>5. Chosen'
  BY DEF Chosen
<1> QED BY <1>1, <1>2, <1>3, <1>4, <1>5

\* The reader changes nothing that EntryInv is about.
LEMMA ReaderKeepsEntries ==
  ASSUME EntryInv, readerUnchanged
  PROVE  EntryInv'
<1>0. /\ Chain' = Chain /\ (\A b, i : At(b, i)' <=> At(b, i))
      /\ UNCHANGED <<type, occ, rem, data, link, prev, num, killed, dropped, pc, op, ptr, new, live>>
  BY StillAt DEF readerUnchanged, blockVars, history
<1>01. Fresh' <=> Fresh
  BY <1>0 DEF Fresh
<1>1. TypeInv'
  BY <1>0 DEF EntryInv, TypeInv
<1>2. IsChain' /\ BackLinks' /\ RemInv'
  BY <1>0, <1>01 DEF EntryInv, IsChain, BackLinks, RemInv
<1>3. Bitmaps'
  BY <1>0, <1>01 DEF EntryInv, Bitmaps, Written, Is
<1>4. Entries'
  BY <1>0 DEF EntryInv, Entries, Updating, Is
<1>5. Counted'
  BY <1>0 DEF EntryInv, Counted
<1>6. Purpose'
  BY <1>0 DEF EntryInv, Purpose, NoOp
<1>7. Owner'
  BY <1>0 DEF EntryInv, Owner, Holds
<1>8. Chosen'
  BY <1>0, <1>01 DEF EntryInv, Chosen
<1>9. WalkInv'
  BY <1>0 DEF EntryInv, WalkInv, Walking, Ahead, Fused
<1> QED BY <1>1, <1>2, <1>3, <1>4, <1>5, <1>6, <1>7, <1>8, <1>9 DEF EntryInv

\* An operation on a key begins.
StartCase(name, k, where) ==
  \/ name = "insert" /\ where = "write" /\ Get(k) = Invalid
  \/ name = "put" /\ where = "evict" /\ Get(k) = Invalid /\ type = "CACHE"
  \/ name = "get" /\ where = "promote" /\ Get(k) # Invalid /\ type = "CACHE"
  \/ name = "remove" /\ where = "uncount" /\ Get(k) # Invalid
  \/ name = "update" /\ where = "write" /\ Get(k) # Invalid /\ type = "OPTIMISTIC"

\* An operation on a key begins: the lock is taken, the entries stay.
LEMMA StartStep ==
  ASSUME EntryInv, NEW name, NEW k \in Keys, NEW where, StartCase(name, k, where),
         Start(name, k, where)
  PROVE  EntryInv'
<1>0. /\ TypeInv /\ IsChain /\ Bitmaps /\ Entries /\ Counted /\ Purpose
      /\ pc = "unlocked" /\ ~killed /\ ~dropped /\ pc' = where /\ where \in {"write", "evict", "promote", "uncount"}
      /\ name \in {"insert", "put", "get", "remove", "update"}
      /\ UNCHANGED <<type, occ, rem, data, link, prev, num, killed, dropped, new, live>>
  BY DEF EntryInv, Start, StartCase, blockVars, history
<1>01. op' = [name |-> name, key |-> k, left |-> {}] /\ op = NoOp /\ op.name = "none"
  <2>1. op = NoOp
    BY <1>0 DEF Purpose
  <2>2. op' = [NoOp EXCEPT !.name = name, !.key = k]
    BY DEF Start
  <2> QED BY <2>1, <2>2 DEF NoOp
<1>02. op'.name = name /\ op'.key = k /\ op'.left = {}
  BY <1>01
<1>03. Chain' = Chain /\ \A b, i : At(b, i)' <=> At(b, i)
  BY <1>0, StillAt DEF blockVars
<1> DEFINE q == Get(k)
<1>04. /\ ptr' = q /\ q \in [b : Blocks, i : 0 .. BucketLen + 1]
       /\ q = Invalid => k \notin live
       /\ q # Invalid => At(q.b, q.i) /\ data[q.b][q.i] = k /\ k \in live
  BY <1>0, GetFinds DEF Start
<1>05. StartCase(name, k, where)
  OBVIOUS
<1>06. \/ name = "insert" /\ where = "write" /\ q = Invalid
       \/ name = "put" /\ where = "evict" /\ q = Invalid /\ type = "CACHE"
       \/ name = "get" /\ where = "promote" /\ q # Invalid /\ type = "CACHE"
       \/ name = "remove" /\ where = "uncount" /\ q # Invalid
       \/ name = "update" /\ where = "write" /\ q # Invalid /\ type = "OPTIMISTIC"
  BY <1>05 DEF StartCase
<1> HIDE DEF q
<1>1. TypeInv'
  <2>1. op' \in [name : Names, key : Keys \cup {None}, left : SUBSET Keys]
    BY <1>0, <1>01 DEF Names
  <2>2. ptr' \in [b : Blocks, i : 0 .. BucketLen + 1]
    BY <1>04
  <2>3. pc' \in PCs
    BY <1>0 DEF PCs
  <2> QED BY <1>0, <2>1, <2>2, <2>3 DEF TypeInv
<1>2. IsChain' /\ BackLinks' /\ Bitmaps' /\ RemInv' /\ Chosen'
  BY <1>0, StillBlocks DEF blockVars
<1>3. Entries'
  BY <1>0, <1>03 DEF Entries, Updating
<1>4. Counted'
  BY <1>0, <1>01, <1>02, <1>06 DEF Counted
<1>5. Purpose'
  BY <1>0, <1>02, <1>06 DEF Purpose, Adding, WalkNames
<1>6. Owner'
  <2>1. q # Invalid => Holds(ptr)'
    BY <1>02, <1>03, <1>04, <1>0 DEF Holds
  <2> QED BY <1>0, <1>02, <1>04, <1>06, <2>1 DEF Owner, Adding
<1>7. WalkInv'
  BY <1>0, <1>02 DEF WalkInv, Walking, WalkNames
<1> QED BY <1>1, <1>2, <1>3, <1>4, <1>5, <1>6, <1>7 DEF EntryInv

\* Releasing the lock forgets the operation and its slots.
LEMMA UnlockFacts ==
  ASSUME Unlock
  PROVE  /\ pc' = "unlocked" /\ op' = NoOp /\ ptr' = Invalid /\ new' = Invalid
         /\ op'.name = "none" /\ op'.key = None /\ op'.left = {}
         /\ op' \in [name : Names, key : Keys \cup {None}, left : SUBSET Keys]
         /\ ptr' \in [b : Blocks, i : 0 .. BucketLen + 1]
         /\ new' \in [b : Blocks, i : 0 .. BucketLen]
BY Numbers DEF Unlock, NoOp, Names, Invalid

\* Without an operation there is no key, and nothing is left to visit.
LEMMA NoOpFacts == NoOp.name = "none" /\ NoOp.key = None /\ NoOp.left = {}
BY DEF NoOp

\* update_lru_tail changes no entry.
LEMMA UpdateLruTailStep ==
  ASSUME EntryInv, UpdateLruTail
  PROVE  EntryInv'
<1>0. /\ TypeInv /\ IsChain /\ Bitmaps /\ Entries /\ Counted /\ Purpose /\ Owner
      /\ pc = "promote" /\ Unlock
      /\ UNCHANGED <<type, occ, rem, data, link, prev, num, killed, dropped, live>>
  BY DEF EntryInv, UpdateLruTail, blockVars
<1>01. /\ pc' = "unlocked" /\ op' = NoOp /\ op'.name = "none" /\ op'.left = {}
       /\ op' \in [name : Names, key : Keys \cup {None}, left : SUBSET Keys]
       /\ ptr' \in [b : Blocks, i : 0 .. BucketLen + 1]
       /\ new' \in [b : Blocks, i : 0 .. BucketLen]
  BY <1>0, UnlockFacts
<1>02. Chain' = Chain /\ \A b, i : At(b, i)' <=> At(b, i)
  BY <1>0, StillAt DEF blockVars
<1>03. ~dropped /\ ~killed /\ op.name \in {"get", "put"} /\ type = "CACHE"
  BY <1>0 DEF Purpose
<1>1. TypeInv'
  BY <1>0, <1>01 DEF TypeInv, PCs
<1>2. IsChain' /\ BackLinks' /\ Bitmaps' /\ RemInv' /\ Chosen'
  BY <1>0, <1>01, StillBlocks DEF blockVars
<1>3. Entries'
  BY <1>0, <1>02, <1>03 DEF Entries, Updating
<1>4. Counted'
  BY <1>0, <1>01, <1>03 DEF Counted
<1>5. Purpose'
  BY <1>0, <1>01, <1>03 DEF Purpose, Adding
<1>6. Owner'
  BY <1>01 DEF Owner, Adding
<1>7. WalkInv'
  BY <1>01 DEF WalkInv, Walking
<1> QED BY <1>1, <1>2, <1>3, <1>4, <1>5, <1>6, <1>7 DEF EntryInv

\* insert_with counts the entry.
LEMMA InsertCountStep ==
  ASSUME EntryInv, InsertCount
  PROVE  EntryInv'
<1>0. /\ TypeInv /\ IsChain /\ Bitmaps /\ Entries /\ Counted /\ Purpose /\ Owner
      /\ pc = "count" /\ num' = num + 1 /\ live' = live \cup {op.key}
      /\ UNCHANGED <<type, occ, rem, data, link, prev, killed, dropped>>
  BY DEF EntryInv, InsertCount, blockVars
<1>01. Chain' = Chain /\ \A b, i : At(b, i)' <=> At(b, i)
  BY <1>0, StillAt DEF blockVars
<1>02. /\ ~dropped /\ ~killed /\ op.name \in {"insert", "put", "update"} /\ op.key \in Keys
       /\ op.name = "update" => type = "OPTIMISTIC" /\ op.key \in live /\ Holds(ptr) /\ new # ptr
       /\ op.name # "update" => op.key \notin live
       /\ Holds(new) /\ (op.name = "put" => type = "CACHE")
  BY <1>0 DEF Purpose, Owner, Adding
<1>03. \/ op.name = "put" /\ pc' = "promote" /\ ptr' = new /\ UNCHANGED <<op, new>>
       \/ op.name = "update" /\ pc' = "uncount" /\ UNCHANGED <<op, ptr, new>>
       \/ op.name = "insert" /\ Unlock
  BY <1>02 DEF InsertCount
<1>04. op.name = "insert" =>
         /\ pc' = "unlocked" /\ op' = NoOp /\ op'.name = "none" /\ op'.left = {}
         /\ op' \in [name : Names, key : Keys \cup {None}, left : SUBSET Keys]
         /\ ptr' \in [b : Blocks, i : 0 .. BucketLen + 1]
         /\ new' \in [b : Blocks, i : 0 .. BucketLen]
  BY <1>03, UnlockFacts
<1>05. pc' \in {"promote", "uncount", "unlocked"} /\ pc' # "publish"
  BY <1>03, <1>04
<1>06. /\ IsFiniteSet(live') /\ Cardinality(live) \in Nat
       /\ Cardinality(live') = IF op.key \in live THEN Cardinality(live) ELSE Cardinality(live) + 1
  <2>1. IsFiniteSet(live)
    BY <1>0 DEF TypeInv
  <2> QED BY <1>0, <2>1, FS_AddElement, FS_CardinalityType
<1>1. TypeInv'
  <2>1. num' \in Int /\ live' \subseteq Keys
    BY <1>0, <1>02 DEF TypeInv
  <2>2. /\ op' \in [name : Names, key : Keys \cup {None}, left : SUBSET Keys]
        /\ ptr' \in [b : Blocks, i : 0 .. BucketLen + 1]
        /\ new' \in [b : Blocks, i : 0 .. BucketLen]
    <3>1. CASE op.name = "put"
      <4>1. ptr' = new /\ UNCHANGED <<op, new>>
        BY <1>03, <3>1
      <4>2. new \in [b : Blocks, i : 0 .. BucketLen]
        BY <1>0 DEF TypeInv
      <4>3. new \in [b : Blocks, i : 0 .. BucketLen + 1]
        BY <4>2, Numbers
      <4> QED BY <1>0, <4>1, <4>3 DEF TypeInv
    <3>2. CASE op.name # "put"
      BY <1>0, <1>03, <1>04, <3>2 DEF TypeInv
    <3> QED BY <3>1, <3>2
  <2> QED BY <1>0, <1>05, <1>06, <2>1, <2>2 DEF TypeInv, PCs
<1>2. IsChain' /\ BackLinks' /\ Bitmaps' /\ RemInv' /\ Chosen'
  BY <1>0, <1>05, StillBlocks DEF blockVars
<1>3. Entries'
  <2>1. \A b, i : At(b, i) => data[b][i] \in live'
    BY <1>0, <1>02 DEF Entries, Holds, Is
  <2>2. \A k \in live' : \E b, i : At(b, i) /\ data[b][i] = k
    BY <1>0, <1>02 DEF Entries, Holds
  <2>3. \A b, i, c, j :
          At(b, i) /\ At(c, j) /\ data[b][i] = data[c][j] => (b = c /\ i = j) \/ Updating(b, i, c, j)'
    BY <1>0, <1>03 DEF Entries, Updating, Is
  <2> QED BY <1>0, <1>01, <2>1, <2>2, <2>3 DEF Entries
<1>4. Counted'
  <2>1. num = Cardinality(live)
    BY <1>0, <1>02, <1>06 DEF Counted
  <2>2. CASE op.name = "update"
    BY <1>0, <1>02, <1>03, <1>06, <2>1, <2>2 DEF Counted
  <2>3. CASE op.name # "update"
    BY <1>0, <1>02, <1>03, <1>04, <1>06, <2>1, <2>3 DEF Counted
  <2> QED BY <2>2, <2>3
<1>5. Purpose'
  BY <1>0, <1>02, <1>03, <1>04 DEF Purpose, Adding, WalkNames
<1>6. Owner'
  <2>1. op.name = "put" => Holds(ptr)'
    BY <1>0, <1>01, <1>02, <1>03 DEF Holds
  <2>2. op.name = "update" => Holds(ptr)' /\ Holds(new)'
    BY <1>0, <1>01, <1>02, <1>03 DEF Holds
  <2> QED BY <1>0, <1>02, <1>03, <1>04, <2>1, <2>2 DEF Owner, Adding
<1>7. WalkInv'
  BY <1>02, <1>03, <1>04 DEF WalkInv, Walking, WalkNames
<1> QED BY <1>1, <1>2, <1>3, <1>4, <1>5, <1>6, <1>7 DEF EntryInv

\* erase counts down.
LEMMA EraseCountStep ==
  ASSUME EntryInv, EraseCount
  PROVE  EntryInv'
<1>0. /\ TypeInv /\ IsChain /\ Bitmaps /\ Entries /\ Counted /\ Purpose /\ Owner /\ WalkInv
      /\ pc = "uncount" /\ pc' = "erase" /\ num' = num - 1
      /\ UNCHANGED <<type, occ, rem, data, link, prev, killed, dropped, op, ptr, new, live>>
  BY DEF EntryInv, EraseCount, blockVars, history
<1>01. Chain' = Chain /\ \A b, i : At(b, i)' <=> At(b, i)
  BY <1>0, StillAt DEF blockVars
<1>1. TypeInv'
  BY <1>0 DEF TypeInv, PCs
<1>2. IsChain' /\ BackLinks' /\ Bitmaps' /\ RemInv' /\ Chosen'
  BY <1>0, StillBlocks DEF blockVars
<1>3. Entries'
  BY <1>0, <1>01 DEF Entries, Updating, Is
<1>4. Counted'
  <2>1. Cardinality(live) \in Nat
    BY <1>0, FS_CardinalityType DEF TypeInv
  <2> QED BY <1>0, <2>1 DEF Counted
<1>5. Purpose'
  BY <1>0 DEF Purpose, Adding, WalkNames
<1>6. Owner'
  BY <1>0, <1>01 DEF Owner, Adding, Holds
<1>7. WalkInv'
  BY <1>0, <1>01 DEF WalkInv, Walking, Ahead, Fused
<1> QED BY <1>1, <1>2, <1>3, <1>4, <1>5, <1>6, <1>7 DEF EntryInv

\* A walk begins.
LEMMA StartWalkStep ==
  ASSUME EntryInv, NEW name \in WalkNames, StartWalk(name)
  PROVE  EntryInv'
<1>0. /\ TypeInv /\ IsChain /\ Bitmaps /\ Entries /\ Counted /\ Purpose
      /\ pc = "unlocked" /\ ~killed /\ ~dropped /\ (name = "prune" => type = "SEQUENTIAL")
      /\ ptr' = Invalid /\ pc' = IF name = "relocate" /\ num = 0 THEN "kill" ELSE "walk"
      /\ op' = [NoOp EXCEPT !.name = name, !.left = live]
      /\ UNCHANGED <<type, occ, rem, data, link, prev, num, killed, dropped, new, live>>
  BY DEF EntryInv, StartWalk, blockVars, history
<1>01. op' = [name |-> name, key |-> None, left |-> live] /\ op = NoOp /\ op.name = "none"
  <2>1. op = NoOp
    BY <1>0 DEF Purpose
  <2> QED BY <1>0, <2>1 DEF NoOp
<1>02. op'.name = name /\ op'.key = None /\ op'.left = live /\ name # "update"
  BY <1>01 DEF WalkNames
<1>03. Chain' = Chain /\ \A b, i : At(b, i)' <=> At(b, i)
  BY <1>0, StillAt DEF blockVars
<1>04. num = Cardinality(live) /\ (num = 0 => live = {})
  <2>1. IsFiniteSet(live) /\ Cardinality(live) \in Nat
    BY <1>0, FS_CardinalityType DEF TypeInv
  <2>2. num = Cardinality(live)
    BY <1>0, <2>1 DEF Counted
  <2> QED BY <2>1, <2>2, FS_EmptySet
<1>05. Invalid \in [b : Blocks, i : 0 .. BucketLen + 1] /\ Invalid.b = 0 /\ Invalid.i = BucketLen /\ Invalid # Fused
  BY Numbers DEF Invalid, Fused
<1>1. TypeInv'
  <2>1. op' \in [name : Names, key : Keys \cup {None}, left : SUBSET Keys]
    BY <1>0, <1>01 DEF Names, WalkNames, TypeInv
  <2> QED BY <1>0, <1>05, <2>1 DEF TypeInv, PCs
<1>2. IsChain' /\ BackLinks' /\ Bitmaps' /\ RemInv' /\ Chosen'
  BY <1>0, StillBlocks DEF blockVars
<1>3. Entries'
  BY <1>0, <1>03 DEF Entries, Updating
<1>4. Counted'
  BY <1>0, <1>02, <1>04 DEF Counted
<1>5. Purpose'
  BY <1>0, <1>02, <1>04 DEF Purpose, Adding, WalkNames
<1>6. Owner'
  BY <1>0, <1>02 DEF Owner, Adding
<1>7. WalkInv'
  <2>1. On(Chain, 0) /\ \A b : On(Chain, b) /\ b # 0 => Before(Chain, 0, b)
    BY <1>0, PathFacts DEF IsChain
  <2>2. LenOf(0) = BucketLen
    BY DEF LenOf
  <2>3. \A b, i : At(b, i) => Ahead(b, i)'
    BY <1>0, <1>03, <1>05, <2>1, <2>2 DEF Ahead, At
  <2>4. BucketLen \in 0 .. LenOf(0)
    BY <2>2, Numbers
  <2>5. /\ op'.left \subseteq live'
        /\ ptr' # Fused /\ On(Chain', ptr'.b) /\ ptr'.i \in 0 .. LenOf(ptr'.b)
        /\ \A b, i : At(b, i)' => Ahead(b, i)'
        /\ \A k \in live' : k \in op'.left
    BY <1>0, <1>02, <1>03, <1>05, <2>1, <2>3, <2>4
  <2> QED BY <1>0, <2>5 DEF WalkInv, Walking, Fused
<1> QED BY <1>1, <1>2, <1>3, <1>4, <1>5, <1>6, <1>7 DEF EntryInv

\* The predicate of retain_entries.
LEMMA RetainStep ==
  ASSUME EntryInv, Retain
  PROVE  EntryInv'
<1>0. /\ TypeInv /\ IsChain /\ Bitmaps /\ Entries /\ Counted /\ Purpose /\ Owner /\ WalkInv
      /\ pc = "at" /\ op.name = "retain" /\ pc' \in {"walk", "uncount"}
      /\ UNCHANGED <<type, occ, rem, data, link, prev, num, killed, dropped, op, ptr, new, live>>
  BY DEF EntryInv, Retain, blockVars, history
<1>01. Chain' = Chain /\ \A b, i : At(b, i)' <=> At(b, i)
  BY <1>0, StillAt DEF blockVars
<1>1. TypeInv'
  BY <1>0 DEF TypeInv, PCs
<1>2. IsChain' /\ BackLinks' /\ Bitmaps' /\ RemInv' /\ Chosen'
  BY <1>0, StillBlocks DEF blockVars
<1>3. Entries'
  BY <1>0, <1>01 DEF Entries, Updating
<1>4. Counted'
  BY <1>0 DEF Counted
<1>5. Purpose'
  BY <1>0 DEF Purpose, Adding, WalkNames
<1>6. Owner'
  BY <1>0, <1>01 DEF Owner, Adding, Holds
<1>7. WalkInv'
  BY <1>0, <1>01 DEF WalkInv, Walking, Ahead, WalkNames, Fused
<1> QED BY <1>1, <1>2, <1>3, <1>4, <1>5, <1>6, <1>7 DEF EntryInv

\* A walk comes to its end.
LEMMA WalkEndsStep ==
  ASSUME EntryInv, WalkEnds
  PROVE  EntryInv'
<1>0. /\ TypeInv /\ IsChain /\ Bitmaps /\ Entries /\ Counted /\ Purpose /\ Owner /\ WalkInv
      /\ pc = "walk" /\ ptr = Fused
      /\ UNCHANGED <<type, occ, rem, data, link, prev, num, killed, dropped, live>>
  BY DEF EntryInv, WalkEnds, blockVars, history
<1>01. Chain' = Chain /\ \A b, i : At(b, i)' <=> At(b, i)
  BY <1>0, StillAt DEF blockVars
<1>02. op.name \in WalkNames /\ ~killed /\ ~dropped /\ op.left = {} /\ (op.name = "relocate" => live = {})
  BY <1>0 DEF Purpose, WalkInv, Walking
<1>03. \/ op.name = "relocate" /\ pc' = "kill" /\ UNCHANGED <<op, ptr, new>>
       \/ op.name # "relocate" /\ Unlock
  BY DEF WalkEnds
<1>04. op.name # "relocate" =>
         /\ pc' = "unlocked" /\ op' = NoOp /\ op'.name = "none" /\ op'.left = {}
         /\ op' \in [name : Names, key : Keys \cup {None}, left : SUBSET Keys]
         /\ ptr' \in [b : Blocks, i : 0 .. BucketLen + 1]
         /\ new' \in [b : Blocks, i : 0 .. BucketLen]
  BY <1>03, UnlockFacts
<1>1. TypeInv'
  BY <1>0, <1>03, <1>04 DEF TypeInv, PCs
<1>2. IsChain' /\ BackLinks' /\ Bitmaps' /\ RemInv' /\ Chosen'
  BY <1>0, <1>03, <1>04, StillBlocks DEF blockVars
<1>3. Entries'
  BY <1>0, <1>01 DEF Entries, Updating
<1>4. Counted'
  BY <1>0, <1>03, <1>04 DEF Counted
<1>5. Purpose'
  BY <1>0, <1>02, <1>03, <1>04 DEF Purpose, Adding, WalkNames
<1>6. Owner'
  BY <1>0, <1>03, <1>04 DEF Owner, Adding
<1>7. WalkInv'
  BY <1>03, <1>04 DEF WalkInv, Walking
<1> QED BY <1>1, <1>2, <1>3, <1>4, <1>5, <1>6, <1>7 DEF EntryInv

\* EntryPtr::next.
LEMMA WalkNextStep ==
  ASSUME EntryInv, WalkNext
  PROVE  EntryInv'
<1>0. /\ TypeInv /\ IsChain /\ Bitmaps /\ Entries /\ Counted /\ Purpose /\ Owner /\ WalkInv
      /\ pc = "walk" /\ ptr # Fused
      /\ UNCHANGED <<type, occ, rem, data, link, prev, num, killed, dropped, new, live>>
  BY DEF EntryInv, WalkNext, blockVars, history
<1>01. Chain' = Chain /\ \A b, i : At(b, i)' <=> At(b, i)
  BY <1>0, StillAt DEF blockVars
<1>02. /\ op.name \in WalkNames /\ ~killed /\ ~dropped /\ op.left \subseteq live
       /\ On(Chain, ptr.b) /\ ptr.i \in 0 .. LenOf(ptr.b)
       /\ \A b, i : At(b, i) /\ data[b][i] \in op.left => Ahead(b, i)
       /\ op.name = "relocate" => \A k \in live : k \in op.left
  <2>1. Walking
    BY <1>0 DEF Purpose, Walking
  <2> QED BY <1>0, <2>1 DEF Purpose, WalkInv, Walking
<1>03. PICK p : p = ptr
  OBVIOUS
<1>04. /\ p.b \in Blocks /\ p.i \in Nat /\ LenOf(p.b) \in Nat /\ p = [b |-> p.b, i |-> p.i]
       /\ Valid(p.b) \subseteq SlotsOf(p.b) /\ SlotsOf(p.b) = 0 .. LenOf(p.b) - 1
       /\ LenOf(p.b) <= BucketLen
  BY <1>0, <1>03, SlotFacts DEF TypeInv, Valid
<1> DEFINE js == NextIn(p.b, p.i)
           m == Min(js)
           k == data[p.b][m]
<1>05. \A j : j \in js <=> j \in Valid(p.b) /\ (p.i = LenOf(p.b) \/ j > p.i)
  <2>1. \A j : j \in js <=> j \in Valid(p.b) /\ j >= (IF p.i = LenOf(p.b) THEN 0 ELSE p.i + 1)
    BY DEF NextIn
  <2> HIDE DEF js
  <2>2. \A j \in Valid(p.b) : j \in Nat
    BY <1>04
  <2> QED BY <1>04, <2>1, <2>2
<1>06. IF js # {}
       THEN /\ ptr' = [ptr EXCEPT !.i = m] /\ pc' = "at"
            /\ op' = [op EXCEPT !.key = k, !.left = @ \ {k}]
       ELSE /\ ptr' = IF link[ptr.b] = 0 THEN Fused ELSE [b |-> link[ptr.b], i |-> LinkedLen]
            /\ UNCHANGED <<op, pc>>
  BY <1>03 DEF WalkNext
<1> HIDE DEF js
<1>07. IsChain' /\ BackLinks' /\ Bitmaps' /\ RemInv' /\ Chosen'
  BY <1>0, <1>06, StillBlocks DEF blockVars
<1>08. CASE js # {}
  <2>1. m \in js
    <3>1. js \in SUBSET Nat
      BY <1>04, <1>05
    <3> QED BY <1>08, <3>1, MinIsLeast
  <2>2. \A j \in js : m <= j
    <3>1. js \in SUBSET Nat
      BY <1>04, <1>05
    <3> QED BY <1>08, <3>1, MinIsLeast
  <2> HIDE DEF m
  <2>3. At(p.b, m) /\ m \in SlotsOf(p.b) /\ m \in Nat /\ m < LenOf(p.b)
    BY <1>02, <1>03, <1>04, <1>05, <2>1 DEF At
  <2>4. k \in live /\ k \in Keys
    BY <1>0, <2>3, AtFacts DEF Entries
  <2> HIDE DEF k
  <2>5. /\ ptr' = [b |-> p.b, i |-> m] /\ pc' = "at"
        /\ op' = [name |-> op.name, key |-> k, left |-> op.left \ {k}]
    BY <1>0, <1>03, <1>04, <1>06, <1>08 DEF TypeInv
  <2>6. /\ ptr'.b = p.b /\ ptr'.i = m /\ op'.name = op.name /\ op'.key = k
        /\ op'.left = op.left \ {k} /\ ptr' # Fused
    <3>1. ptr'.b = p.b /\ ptr'.i = m /\ op'.name = op.name /\ op'.key = k /\ op'.left = op.left \ {k}
      BY <2>5
    <3> QED BY <1>04, <2>3, <3>1, Numbers DEF Fused
  <2>7. TypeInv'
    <3>1. ptr' \in [b : Blocks, i : 0 .. BucketLen + 1]
      BY <1>04, <2>3, <2>5, Numbers
    <3>2. op' \in [name : Names, key : Keys \cup {None}, left : SUBSET Keys]
      BY <1>0, <2>4, <2>5 DEF TypeInv
    <3> QED BY <1>0, <2>5, <3>1, <3>2 DEF TypeInv, PCs
  <2>8. Entries'
    BY <1>0, <1>01, <2>5 DEF Entries, Updating
  <2>9. Counted'
    BY <1>0, <2>5, <2>6 DEF Counted
  <2>10. Purpose'
    BY <1>0, <1>02, <2>5, <2>6 DEF Purpose, Adding, WalkNames
  <2>11. Owner'
    <3>1. Holds(ptr)'
      BY <1>0, <1>01, <2>3, <2>6 DEF Holds, k
    <3> QED BY <1>0, <2>4, <2>5, <2>6, <3>1 DEF Owner, Adding
  <2>12. WalkInv'
    <3>1. ASSUME NEW b, NEW i, At(b, i), data[b][i] \in op'.left PROVE Ahead(b, i)'
      <4>1. Ahead(b, i) /\ data[b][i] # k
        BY <1>02, <2>6, <3>1
      <4>2. CASE b = p.b /\ (p.i = LenOf(b) \/ i > p.i)
        <5>1. i \in js /\ i # m
          BY <1>05, <3>1, <4>1, <4>2 DEF At, k
        <5>2. i > m
          BY <1>04, <1>05, <2>2, <2>3, <5>1
        <5> QED BY <2>6, <4>2, <5>2 DEF Ahead
      <4>3. CASE Before(Chain, p.b, b)
        BY <1>01, <2>6, <4>3 DEF Ahead
      <4> QED BY <1>03, <4>1, <4>2, <4>3 DEF Ahead
    <3>2. \A b, i : At(b, i)' /\ data'[b][i] \in op'.left => Ahead(b, i)'
      BY <1>0, <1>01, <3>1
    <3>3. op'.left \subseteq live' /\ op'.key \notin op'.left
      BY <1>0, <1>02, <2>6
    <3>4. ptr' # Fused /\ On(Chain', ptr'.b) /\ ptr'.i \in 0 .. LenOf(ptr'.b)
      BY <1>01, <1>02, <1>03, <1>04, <2>3, <2>6
    <3>5. op'.name = "relocate" => \A x \in live' : x \in op'.left \/ x = op'.key
      BY <1>0, <1>02, <2>6
    <3> QED BY <2>5, <3>2, <3>3, <3>4, <3>5 DEF WalkInv, Fused
  <2> QED BY <1>07, <2>7, <2>8, <2>9, <2>10, <2>11, <2>12 DEF EntryInv
<1>09. CASE js = {}
  <2>1. /\ ptr' = IF link[p.b] = 0 THEN Fused ELSE [b |-> link[p.b], i |-> LinkedLen]
        /\ UNCHANGED <<op, pc>>
    BY <1>03, <1>06, <1>09
  <2>2. ASSUME NEW b, NEW i, At(b, i), data[b][i] \in op.left PROVE Before(Chain, p.b, b)
    <3>1. Ahead(b, i)
      BY <1>02, <2>2
    <3>2. i \in Valid(b)
      BY <2>2 DEF At
    <3> QED BY <1>03, <1>05, <1>09, <3>1, <3>2 DEF Ahead
  <2>3. \A b : Before(Chain, p.b, b) => link[p.b] # 0 /\ (b = link[p.b] \/ Before(Chain, link[p.b], b))
    BY <1>0, PathFacts DEF IsChain
  <2>4. Entries' /\ Counted' /\ Purpose'
    BY <1>0, <1>01, <2>1 DEF Entries, Updating, Counted, Purpose, NoOp
  <2>5. Owner'
    BY <1>0, <2>1, <1>02 DEF Owner, Adding, WalkNames
  <2>6. CASE link[p.b] = 0
    <3>1. ptr' = Fused /\ Fused \in [b : Blocks, i : 0 .. BucketLen + 1]
      BY <2>1, <2>6, Numbers DEF Fused
    <3>2. TypeInv'
      BY <1>0, <2>1, <3>1 DEF TypeInv
    <3>3. op.left = {}
      BY <1>0, <1>02, <2>2, <2>3, <2>6 DEF Entries
    <3>4. WalkInv'
      BY <1>0, <1>01, <1>02, <2>1, <3>1, <3>3 DEF WalkInv, Fused
    <3> QED BY <1>07, <2>4, <2>5, <3>2, <3>4 DEF EntryInv
  <2>7. CASE link[p.b] # 0
    <3> DEFINE c == link[p.b]
    <3>1. On(Chain, c) /\ c \in Blocks /\ c # 0 /\ c \in Linked
      BY <1>0, <1>02, <1>03, <2>7, PathFacts, Numbers DEF IsChain
    <3>2. LenOf(c) = LinkedLen
      BY <3>1, SlotFacts
    <3> HIDE DEF c
    <3>3. ptr' = [b |-> c, i |-> LinkedLen] /\ ptr'.b = c /\ ptr'.i = LinkedLen /\ ptr' # Fused
      <4>1. ptr' = [b |-> c, i |-> LinkedLen]
        BY <2>1, <2>7 DEF c
      <4> QED BY <4>1, <3>1 DEF Fused
    <3>4. TypeInv'
      <4>1. ptr' \in [b : Blocks, i : 0 .. BucketLen + 1]
        BY <3>1, <3>3, Numbers
      <4> QED BY <1>0, <2>1, <4>1 DEF TypeInv
    <3>5. ASSUME NEW b, NEW i, At(b, i), data[b][i] \in op.left PROVE Ahead(b, i)'
      <4>1. b = c \/ Before(Chain, c, b)
        BY <2>2, <2>3, <3>5 DEF c
      <4> QED BY <1>01, <3>2, <3>3, <4>1 DEF Ahead
    <3>6. WalkInv'
      <4>1. \A b, i : At(b, i)' /\ data'[b][i] \in op'.left => Ahead(b, i)'
        BY <1>0, <1>01, <2>1, <3>5
      <4>2. ptr' # Fused /\ On(Chain', ptr'.b) /\ ptr'.i \in 0 .. LenOf(ptr'.b)
        BY <1>01, <3>1, <3>2, <3>3, Numbers
      <4>3. op'.left \subseteq live' /\ (op'.name = "relocate" => \A x \in live' : x \in op'.left)
        BY <1>0, <1>02, <2>1
      <4>4. pc' = "walk"
        BY <1>0, <2>1
      <4> QED BY <4>1, <4>2, <4>3, <4>4 DEF WalkInv, Fused
    <3> QED BY <1>07, <2>4, <2>5, <3>4, <3>6 DEF EntryInv
  <2> QED BY <2>6, <2>7
<1> QED BY <1>08, <1>09

-----------------------------------------------------------------------------
(* Steps that take an entry                                                 *)

\* The entry in slot i of block b is taken out, or marked.
Taken(b, i) ==
  \/ /\ type # "OPTIMISTIC" /\ rem' = rem
     /\ occ' = [occ EXCEPT ![b] = @ \ {i}] /\ data' = [data EXCEPT ![b][i] = None]
  \/ /\ type = "OPTIMISTIC" /\ UNCHANGED <<occ, data>>
     /\ rem' = [rem EXCEPT ![b] = @ \cup {i}]

\* Taking an entry out changes its slot only.
LEMMA TakenFacts ==
  ASSUME TypeInv, IsChain, Bitmaps, NEW b, NEW i, At(b, i), Taken(b, i), type' = type
  PROVE  /\ occ' \in [Blocks -> SUBSET SlotsOf(0)] /\ rem' \in [Blocks -> SUBSET SlotsOf(0)]
         /\ \A c \in Blocks : occ'[c] \subseteq occ[c] /\ occ'[c] \subseteq SlotsOf(c)
         /\ DOMAIN data' = Blocks /\ \A c \in Blocks : data'[c] \in [SlotsOf(c) -> Keys \cup {None}]
         /\ \A c \in Blocks : \A j : j \in Valid(c)' <=> j \in Valid(c) /\ ~ (c = b /\ j = i)
         /\ \A c \in Blocks : \A j \in SlotsOf(c) : ~ (c = b /\ j = i) => data'[c][j] = data[c][j]
         /\ \A c \in Blocks : \A j \in SlotsOf(c) :
              (j \in occ'[c] <=> j \in occ[c]) \/ (c = b /\ j = i /\ j \notin occ'[c] /\ data'[c][j] = None)
         /\ data[b][i] # None /\ b \in Blocks /\ i \in SlotsOf(b)
<1>0. b \in Blocks /\ i \in SlotsOf(b) /\ i \in occ[b] /\ i \in Valid(b) /\ data[b][i] # None
  BY AtFacts
<1>01. /\ occ \in [Blocks -> SUBSET SlotsOf(0)] /\ rem \in [Blocks -> SUBSET SlotsOf(0)]
       /\ \A c \in Blocks : occ[c] \subseteq SlotsOf(c)
       /\ DOMAIN data = Blocks /\ \A c \in Blocks : data[c] \in [SlotsOf(c) -> Keys \cup {None}]
       /\ i \in SlotsOf(0)
  BY <1>0, SlotFacts DEF TypeInv
<1>1. CASE /\ type # "OPTIMISTIC" /\ rem' = rem
           /\ occ' = [occ EXCEPT ![b] = @ \ {i}] /\ data' = [data EXCEPT ![b][i] = None]
  <2>1. \A c \in Blocks : Valid(c)' = occ'[c] /\ Valid(c) = occ[c]
    BY <1>1 DEF Valid
  <2>2. occ'[b] = occ[b] \ {i} /\ \A c \in Blocks : c # b => occ'[c] = occ[c]
    BY <1>0, <1>01, <1>1
  <2>3. /\ DOMAIN data' = Blocks /\ data'[b] = [data[b] EXCEPT ![i] = None]
        /\ \A c \in Blocks : c # b => data'[c] = data[c]
    BY <1>0, <1>01, <1>1
  <2>4. data'[b] \in [SlotsOf(b) -> Keys \cup {None}] /\ data'[b][i] = None
        /\ \A j \in SlotsOf(b) : j # i => data'[b][j] = data[b][j]
    BY <1>0, <1>01, <2>3
  <2>5. occ' \in [Blocks -> SUBSET SlotsOf(0)] /\ \A c \in Blocks : occ'[c] \subseteq occ[c]
    BY <1>0, <1>01, <1>1, <2>2
  <2> QED BY <1>0, <1>01, <1>1, <2>1, <2>2, <2>3, <2>4, <2>5
<1>2. CASE /\ type = "OPTIMISTIC" /\ UNCHANGED <<occ, data>>
           /\ rem' = [rem EXCEPT ![b] = @ \cup {i}]
  <2>1. \A c \in Blocks : Valid(c)' = occ[c] \ rem'[c] /\ Valid(c) = occ[c] \ rem[c]
    BY <1>2 DEF Valid
  <2>2. rem'[b] = rem[b] \cup {i} /\ \A c \in Blocks : c # b => rem'[c] = rem[c]
    BY <1>0, <1>01, <1>2
  <2>3. rem' \in [Blocks -> SUBSET SlotsOf(0)]
    BY <1>0, <1>01, <1>2, <2>2
  <2> QED BY <1>0, <1>01, <1>2, <2>1, <2>2, <2>3
<1> QED BY <1>1, <1>2 DEF Taken

\* Taking an entry out keeps the chain, the bitmaps and the other entries.
LEMMA TakeBlocks ==
  ASSUME EntryInv, NEW b, NEW i, At(b, i), Taken(b, i), type' = type,
         UNCHANGED <<link, prev, killed, dropped>>, pc # "publish", pc' # "publish"
  PROVE  /\ IsChain' /\ BackLinks' /\ Bitmaps' /\ RemInv' /\ Chosen' /\ Chain' = Chain
         /\ \A c, j : At(c, j)' <=> At(c, j) /\ ~ (c = b /\ j = i)
         /\ \A c, j : At(c, j)' => data'[c][j] = data[c][j]
<1>0. TypeInv /\ IsChain /\ Bitmaps /\ RemInv /\ BackLinks
  BY DEF EntryInv
<1>01. Chain' = Chain /\ ~Fresh /\ ~Fresh'
  BY ChainSame DEF Fresh
<1>02. /\ occ' \in [Blocks -> SUBSET SlotsOf(0)]
       /\ \A c \in Blocks : occ'[c] \subseteq occ[c] /\ occ'[c] \subseteq SlotsOf(c)
       /\ \A c \in Blocks : \A j : j \in Valid(c)' <=> j \in Valid(c) /\ ~ (c = b /\ j = i)
       /\ \A c \in Blocks : \A j \in SlotsOf(c) : ~ (c = b /\ j = i) => data'[c][j] = data[c][j]
       /\ \A c \in Blocks : \A j \in SlotsOf(c) :
              (j \in occ'[c] <=> j \in occ[c]) \/ (c = b /\ j = i /\ j \notin occ'[c] /\ data'[c][j] = None)
       /\ data[b][i] # None /\ b \in Blocks /\ i \in SlotsOf(b)
  BY <1>0, TakenFacts
<1>03. \A c : On(Chain, c) => c \in Blocks
  BY <1>0, PathFacts DEF IsChain
<1>1. \A c, j : At(c, j)' <=> At(c, j) /\ ~ (c = b /\ j = i)
  BY <1>01, <1>02, <1>03 DEF At
<1>2. \A c, j : At(c, j)' => data'[c][j] = data[c][j]
  <2>1. \A c, j : At(c, j) => c \in Blocks /\ j \in SlotsOf(c)
    BY <1>0, AtFacts
  <2> QED BY <1>02, <1>1, <2>1
<1>3. IsChain' /\ BackLinks' /\ Chosen'
  BY <1>0, <1>01 DEF IsChain, BackLinks, Chosen
<1>4. Bitmaps'
  <2>1. ASSUME NEW c \in Blocks, NEW j \in SlotsOf(c) PROVE j \in occ'[c] <=> data'[c][j] # None
    <3>1. j \in occ[c] <=> data[c][j] # None
      BY <1>0, <1>01 DEF Bitmaps, Written
    <3>2. CASE c = b /\ j = i
      <4>1. CASE type = "OPTIMISTIC"
        BY <3>1, <4>1 DEF Taken
      <4>2. CASE type # "OPTIMISTIC"
        <5>1. occ' = [occ EXCEPT ![b] = @ \ {i}] /\ data' = [data EXCEPT ![b][i] = None]
          BY <4>2 DEF Taken
        <5>2. b \in DOMAIN occ /\ b \in DOMAIN data /\ i \in DOMAIN data[b]
          BY <1>0, <1>02 DEF TypeInv
        <5>3. i \notin occ'[b] /\ data'[b][i] = None
          BY <5>1, <5>2
        <5> QED BY <3>2, <5>3
      <4> QED BY <4>1, <4>2
    <3>3. CASE ~ (c = b /\ j = i)
      BY <1>02, <3>1, <3>3
    <3> QED BY <3>2, <3>3
  <2>2. ASSUME NEW c \in Blocks, ~On(Chain', c), ~killed' \/ type' # "OPTIMISTIC" PROVE occ'[c] = {}
    <3>1. occ[c] = {}
      BY <1>0, <1>01, <2>2 DEF Bitmaps
    <3> QED BY <1>02, <3>1
  <2> QED BY <1>01, <2>1, <2>2 DEF Bitmaps, Written
<1>5. RemInv'
  <2>1. SUFFICES ASSUME type = "OPTIMISTIC", ~killed, ~dropped, NEW c \in Blocks
                 PROVE  rem'[c] \subseteq occ'[c]
    BY DEF RemInv
  <2>2. /\ occ' = occ /\ rem' = [rem EXCEPT ![b] = @ \cup {i}] /\ DOMAIN rem = Blocks
        /\ rem[c] \subseteq occ[c] /\ i \in occ[b]
    BY <1>0, <2>1, AtFacts DEF Taken, RemInv, TypeInv
  <2> QED BY <1>02, <2>2
<1> QED BY <1>01, <1>1, <1>2, <1>3, <1>4, <1>5

\* The entry of a key is gone, and so is the key.
LEMMA TakeEntries ==
  ASSUME Entries, NEW b, NEW i, At(b, i), pc # "count",
         op.name # "update" \/ pc \notin {"uncount", "erase"},
         live' = live \ {data[b][i]}, pc' # "count",
         \A c, j : At(c, j)' <=> At(c, j) /\ ~ (c = b /\ j = i),
         \A c, j : At(c, j)' => data'[c][j] = data[c][j]
  PROVE  Entries'
<1>1. \A c, j : At(c, j) => data[c][j] \in live
  BY DEF Entries
<1>2. \A c, j, d, l : At(c, j) /\ At(d, l) /\ data[c][j] = data[d][l] => c = d /\ j = l
  BY DEF Entries, Updating
<1>3. \A c, j : At(c, j)' => data'[c][j] \in live'
  BY <1>1, <1>2
<1>4. \A k \in live' : \E c, j : At(c, j)' /\ data'[c][j] = k
  BY DEF Entries
<1>5. \A c, j, d, l : At(c, j)' /\ At(d, l)' /\ data'[c][j] = data'[d][l] => c = d /\ j = l
  BY <1>2
<1> QED BY <1>3, <1>4, <1>5 DEF Entries

\* One key fewer is one entry fewer.
LEMMA LiveShrinks ==
  ASSUME TypeInv, NEW k \in live, live' = live \ {k}
  PROVE  /\ IsFiniteSet(live') /\ live' \subseteq Keys
         /\ Cardinality(live') = Cardinality(live) - 1 /\ Cardinality(live) \in Nat
BY FS_RemoveElement, FS_CardinalityType DEF TypeInv

\* The slot that evict_lru_head takes.
Victim == IF lru.tail = 0 THEN 0 ELSE L!Lru(lru)

\* evict_lru_head takes one entry out, from a slot of the bucket.
LEMMA EvictStep ==
  ASSUME EntryInv, EvictLruHead, Victim \in SlotsOf(0)
  PROVE  EntryInv'
<1>0. /\ TypeInv /\ IsChain /\ Bitmaps /\ Entries /\ Counted /\ Purpose /\ Owner
      /\ pc = "evict" /\ pc' = "write"
      /\ UNCHANGED <<type, rem, link, prev, killed, dropped, op, ptr, new>>
  BY DEF EntryInv, EvictLruHead
<1>01. /\ op.name = "put" /\ type = "CACHE" /\ ~killed /\ ~dropped /\ op.key \in Keys
       /\ op.key \notin live
  BY <1>0 DEF Purpose, Owner, Adding
<1>02. CASE occ[0] = SlotsOf(0)
  <2>1. PICK e : e = Victim
    OBVIOUS
  <2>2. /\ e \in SlotsOf(0) /\ num' = num - 1 /\ live' = live \ {data[0][e]}
        /\ occ' = [occ EXCEPT ![0] = @ \ {e}] /\ data' = [data EXCEPT ![0][e] = None]
    BY <1>02, <2>1 DEF EvictLruHead, Victim
  <2>3. At(0, e)
    BY <1>0, <1>01, <1>02, <2>2, PathFacts DEF At, Valid, IsChain
  <2>4. Taken(0, e)
    BY <1>0, <1>01, <2>2 DEF Taken
  <2>5. /\ IsChain' /\ BackLinks' /\ Bitmaps' /\ RemInv' /\ Chosen' /\ Chain' = Chain
        /\ \A c, j : At(c, j)' <=> At(c, j) /\ ~ (c = 0 /\ j = e)
        /\ \A c, j : At(c, j)' => data'[c][j] = data[c][j]
    BY <1>0, <2>3, <2>4, TakeBlocks
  <2>6. Entries'
    BY <1>0, <1>01, <2>2, <2>3, <2>5, TakeEntries
  <2>7. data[0][e] \in live
    BY <1>0, <1>01, <2>3 DEF Entries
  <2>8. /\ IsFiniteSet(live') /\ live' \subseteq Keys /\ Cardinality(live) \in Nat
        /\ Cardinality(live') = Cardinality(live) - 1
    BY <1>0, <2>2, <2>7, LiveShrinks
  <2>9. TypeInv'
    <3>1. /\ occ' \in [Blocks -> SUBSET SlotsOf(0)]
          /\ \A c \in Blocks : occ'[c] \subseteq SlotsOf(c)
          /\ DOMAIN data' = Blocks /\ \A c \in Blocks : data'[c] \in [SlotsOf(c) -> Keys \cup {None}]
      BY <1>0, <2>3, <2>4, TakenFacts
    <3> QED BY <1>0, <2>2, <2>8, <3>1 DEF TypeInv, PCs
  <2>10. Counted'
    BY <1>0, <1>01, <2>2, <2>8 DEF Counted
  <2>11. Purpose'
    BY <1>0, <1>01 DEF Purpose, Adding
  <2>12. Owner'
    BY <1>0, <1>01, <2>2 DEF Owner, Adding
  <2>13. WalkInv'
    BY <1>0 DEF WalkInv, Walking
  <2> QED BY <2>5, <2>6, <2>9, <2>10, <2>11, <2>12, <2>13 DEF EntryInv
<1>03. CASE occ[0] # SlotsOf(0)
  <2>1. UNCHANGED <<num, occ, data, live>>
    BY <1>03 DEF EvictLruHead
  <2>2. IsChain' /\ BackLinks' /\ Bitmaps' /\ RemInv' /\ Chosen'
    BY <1>0, <2>1, StillBlocks DEF blockVars
  <2>3. \A b, i : At(b, i)' <=> At(b, i)
    BY <1>0, <2>1, StillAt DEF blockVars
  <2>4. TypeInv' /\ Counted'
    BY <1>0, <1>01, <2>1 DEF TypeInv, PCs, Counted
  <2>5. Entries'
    BY <1>0, <1>01, <2>1, <2>3 DEF Entries, Updating
  <2>6. Purpose'
    BY <1>0, <1>01, <2>1 DEF Purpose, Adding
  <2>7. Owner'
    BY <1>0, <1>01, <2>1 DEF Owner, Adding
  <2>8. WalkInv'
    BY <1>0 DEF WalkInv, Walking
  <2> QED BY <2>2, <2>4, <2>5, <2>6, <2>7, <2>8 DEF EntryInv
<1> QED BY <1>02, <1>03

\* A walk goes on when the entry under the EntryPtr has been taken.
LEMMA WalkGoesOn ==
  ASSUME WalkInv, Walking, pc # "walk", pc' = "walk", UNCHANGED <<op, ptr>>, Chain' = Chain,
         live' = live \ {op.key},
         \A c, j : At(c, j)' => At(c, j),
         \A c, j : At(c, j)' => data'[c][j] = data[c][j]
  PROVE  WalkInv'
<1>1. /\ op.left \subseteq live /\ op.key \notin op.left /\ ptr # Fused
      /\ On(Chain, ptr.b) /\ ptr.i \in 0 .. LenOf(ptr.b)
      /\ \A b, i : At(b, i) /\ data[b][i] \in op.left => Ahead(b, i)
      /\ op.name = "relocate" => \A k \in live : k \in op.left \/ k = op.key
  BY DEF WalkInv
<1>2. \A b, i : Ahead(b, i)' <=> Ahead(b, i)
  BY DEF Ahead
<1>3. \A b, i : At(b, i)' /\ data'[b][i] \in op'.left => Ahead(b, i)'
  BY <1>1, <1>2
<1>4. op'.left \subseteq live' /\ ptr' # Fused /\ On(Chain', ptr'.b) /\ ptr'.i \in 0 .. LenOf(ptr'.b)
  BY <1>1
<1>5. op'.name = "relocate" => \A k \in live' : k \in op'.left
  BY <1>1
<1> QED BY <1>3, <1>4, <1>5 DEF WalkInv, Fused

\* erase takes the entry out, or marks it.
LEMMA EraseEntryStep ==
  ASSUME EntryInv, EraseEntry
  PROVE  EntryInv'
<1>0. /\ TypeInv /\ IsChain /\ Bitmaps /\ Entries /\ Counted /\ Purpose /\ Owner /\ WalkInv
      /\ pc = "erase" /\ Erase
      /\ live' = IF op.name = "update" THEN live ELSE live \ {op.key}
      /\ UNCHANGED <<type, link, prev, num, killed, dropped>>
  BY DEF EntryInv, EraseEntry
<1>01. /\ op.name \in {"remove", "update", "retain", "relocate"} /\ ~killed /\ ~dropped
       /\ op.key \in live /\ Holds(ptr) /\ (op.name = "relocate" => type = "OPTIMISTIC")
       /\ op.name = "update" => Holds(new) /\ new # ptr
  BY <1>0 DEF Purpose, Owner
<1>02. \/ op.name \in {"retain", "relocate"} /\ pc' = "walk" /\ UNCHANGED <<op, ptr, new>>
       \/ op.name \notin {"retain", "relocate"} /\ Unlock
  BY DEF EraseEntry
<1>03. op.name \notin {"retain", "relocate"} =>
         /\ pc' = "unlocked" /\ op' = NoOp /\ op'.name = "none" /\ op'.left = {}
         /\ op' \in [name : Names, key : Keys \cup {None}, left : SUBSET Keys]
         /\ ptr' \in [b : Blocks, i : 0 .. BucketLen + 1]
         /\ new' \in [b : Blocks, i : 0 .. BucketLen]
  BY <1>02, UnlockFacts
<1>04. PICK b, i : b = ptr.b /\ i = ptr.i
  OBVIOUS
<1>05. At(b, i) /\ data[b][i] = op.key
  BY <1>01, <1>04 DEF Holds
<1>06. Taken(b, i)
  BY <1>0, <1>04 DEF Erase, Taken
<1>07. pc' \in {"walk", "unlocked"} /\ pc' # "publish"
  BY <1>02, <1>03
<1>1. /\ IsChain' /\ BackLinks' /\ Bitmaps' /\ RemInv' /\ Chosen' /\ Chain' = Chain
      /\ \A c, j : At(c, j)' <=> At(c, j) /\ ~ (c = b /\ j = i)
      /\ \A c, j : At(c, j)' => data'[c][j] = data[c][j]
  BY <1>0, <1>05, <1>06, <1>07, TakeBlocks
<1>2. Entries'
  <2>1. CASE op.name # "update"
    BY <1>0, <1>05, <1>07, <1>1, <2>1, TakeEntries
  <2>2. CASE op.name = "update"
    <3>1. new.b # b \/ new.i # i
      <4>1. new = [b |-> new.b, i |-> new.i] /\ ptr = [b |-> ptr.b, i |-> ptr.i]
        BY <1>0 DEF TypeInv
      <4> QED BY <1>01, <1>04, <2>2, <4>1
    <3>2. \A c, j : At(c, j) => data[c][j] \in live
      BY <1>0 DEF Entries
    <3>3. \A c, j, d, l : At(c, j) /\ At(d, l) /\ data[c][j] = data[d][l] =>
            (c = d /\ j = l) \/ (c = b /\ j = i) \/ (d = b /\ l = i)
      BY <1>0, <1>04 DEF Entries, Updating, Is
    <3>4. At(new.b, new.i) /\ data[new.b][new.i] = op.key
      BY <1>01, <2>2 DEF Holds
    <3>9. PICK nb, ni : nb = new.b /\ ni = new.i
      OBVIOUS
    <3>5. At(nb, ni)' /\ data'[nb][ni] = op.key
      BY <1>1, <3>1, <3>4, <3>9
    <3>6. ASSUME NEW k \in live PROVE \E c, j : At(c, j)' /\ data'[c][j] = k
      <4>1. CASE k = op.key
        BY <3>5, <4>1
      <4>2. CASE k # op.key
        <5>1. PICK c, j : At(c, j) /\ data[c][j] = k
          BY <1>0 DEF Entries
        <5>2. ~ (c = b /\ j = i)
          BY <1>05, <4>2, <5>1
        <5> QED BY <1>1, <5>1, <5>2
      <4> QED BY <4>1, <4>2
    <3>7. live' = live /\ pc' # "count"
      BY <1>0, <1>07, <2>2
    <3>8. \A c, j, d, l : At(c, j)' /\ At(d, l)' /\ data'[c][j] = data'[d][l] => c = d /\ j = l
      BY <1>1, <3>3
    <3> QED BY <1>1, <3>2, <3>6, <3>7, <3>8 DEF Entries
  <2> QED BY <2>1, <2>2
<1>3. /\ IsFiniteSet(live') /\ live' \subseteq Keys /\ Cardinality(live) \in Nat
      /\ Cardinality(live') = IF op.name = "update" THEN Cardinality(live) ELSE Cardinality(live) - 1
  <2>1. CASE op.name = "update"
    BY <1>0, <2>1, FS_CardinalityType DEF TypeInv
  <2>2. CASE op.name # "update"
    BY <1>0, <1>01, <2>2, LiveShrinks
  <2> QED BY <2>1, <2>2
<1>4. TypeInv'
  <2>1. /\ occ' \in [Blocks -> SUBSET SlotsOf(0)] /\ rem' \in [Blocks -> SUBSET SlotsOf(0)]
        /\ \A c \in Blocks : occ'[c] \subseteq SlotsOf(c)
        /\ DOMAIN data' = Blocks /\ \A c \in Blocks : data'[c] \in [SlotsOf(c) -> Keys \cup {None}]
    BY <1>0, <1>05, <1>06, TakenFacts
  <2> QED BY <1>0, <1>02, <1>03, <1>3, <2>1 DEF TypeInv, PCs
<1>5. Counted'
  BY <1>0, <1>01, <1>02, <1>03, <1>3 DEF Counted
<1>6. Purpose'
  BY <1>0, <1>01, <1>02, <1>03 DEF Purpose, Adding, WalkNames
<1>7. Owner'
  BY <1>01, <1>02, <1>03 DEF Owner, Adding
<1>8. WalkInv'
  <2>1. CASE op.name \in {"retain", "relocate"}
    <3>1. Walking
      BY <1>0, <2>1 DEF Walking, WalkNames
    <3>2. pc' = "walk" /\ UNCHANGED <<op, ptr>>
      BY <1>02, <2>1
    <3>3. live' = live \ {op.key}
      BY <1>0, <2>1
    <3>4. \A c, j : At(c, j)' => At(c, j)
      BY <1>1
    <3> QED BY <1>0, <1>1, <3>1, <3>2, <3>3, <3>4, WalkGoesOn
  <2>2. CASE op.name \notin {"retain", "relocate"}
    BY <1>03, <2>2 DEF WalkInv, Walking
  <2> QED BY <2>1, <2>2
<1> QED BY <1>1, <1>2, <1>4, <1>5, <1>6, <1>7, <1>8 DEF EntryInv

\* keep_or_consume.
LEMMA KeepOrConsumeStep ==
  ASSUME EntryInv, NEW outcome, KeepOrConsume(outcome)
  PROVE  EntryInv'
<1>0. /\ TypeInv /\ IsChain /\ Bitmaps /\ Entries /\ Counted /\ Purpose /\ Owner /\ WalkInv
      /\ pc = "at" /\ op.name = "prune"
      /\ UNCHANGED <<type, rem, link, prev, killed, dropped>>
  BY DEF EntryInv, KeepOrConsume
<1>01. /\ ~killed /\ ~dropped /\ op.key \in live /\ Holds(ptr) /\ type = "SEQUENTIAL" /\ Walking
       /\ op.key \notin op.left
  BY <1>0 DEF Purpose, Owner, WalkInv, Walking, WalkNames
<1>02. \/ pc' = "walk" /\ UNCHANGED <<op, ptr, new>>
       \/ Unlock /\ outcome = "panic"
  BY DEF KeepOrConsume
<1>03. Unlock =>
         /\ pc' = "unlocked" /\ op' = NoOp /\ op'.name = "none" /\ op'.left = {}
         /\ op' \in [name : Names, key : Keys \cup {None}, left : SUBSET Keys]
         /\ ptr' \in [b : Blocks, i : 0 .. BucketLen + 1]
         /\ new' \in [b : Blocks, i : 0 .. BucketLen]
  BY UnlockFacts
<1>07. pc' \in {"walk", "unlocked"} /\ pc' # "publish" /\ pc' # "count"
  BY <1>02, <1>03
<1>08. Owner'
  BY <1>02, <1>03, <1>0 DEF Owner, Adding
<1>1. CASE outcome = "keep"
  <2>0. UNCHANGED <<occ, data, num, live>> /\ pc' = "walk" /\ UNCHANGED <<op, ptr, new>>
    BY <1>1 DEF KeepOrConsume
  <2>1. IsChain' /\ BackLinks' /\ Bitmaps' /\ RemInv' /\ Chosen'
    BY <1>0, <1>07, <2>0, StillBlocks DEF blockVars
  <2>2. Chain' = Chain /\ \A b, i : At(b, i)' <=> At(b, i)
    BY <1>0, <2>0, StillAt DEF blockVars
  <2>3. TypeInv' /\ Counted' /\ Purpose'
    BY <1>0, <2>0 DEF TypeInv, PCs, Counted, Purpose, Adding, WalkNames
  <2>4. Entries'
    BY <1>0, <2>0, <2>2 DEF Entries, Updating
  <2>5. WalkInv'
    BY <1>0, <1>01, <2>0, <2>2 DEF WalkInv, Walking, Ahead, Fused
  <2> QED BY <1>08, <2>1, <2>3, <2>4, <2>5 DEF EntryInv
<1>2. CASE outcome # "keep"
  <2>0. /\ num' = num - 1 /\ live' = live \ {op.key}
        /\ occ' = [occ EXCEPT ![ptr.b] = @ \ {ptr.i}]
        /\ data' = [data EXCEPT ![ptr.b][ptr.i] = None]
    BY <1>2 DEF KeepOrConsume
  <2>1. PICK b, i : b = ptr.b /\ i = ptr.i
    OBVIOUS
  <2>2. At(b, i) /\ data[b][i] = op.key
    BY <1>01, <2>1 DEF Holds
  <2>3. Taken(b, i)
    BY <1>0, <1>01, <2>0, <2>1 DEF Taken
  <2>4. /\ IsChain' /\ BackLinks' /\ Bitmaps' /\ RemInv' /\ Chosen' /\ Chain' = Chain
        /\ \A c, j : At(c, j)' <=> At(c, j) /\ ~ (c = b /\ j = i)
        /\ \A c, j : At(c, j)' => data'[c][j] = data[c][j]
    BY <1>0, <1>07, <2>2, <2>3, TakeBlocks
  <2>5. Entries'
    BY <1>0, <1>07, <2>0, <2>2, <2>4, TakeEntries
  <2>6. /\ IsFiniteSet(live') /\ live' \subseteq Keys /\ Cardinality(live) \in Nat
        /\ Cardinality(live') = Cardinality(live) - 1
    BY <1>0, <1>01, <2>0, LiveShrinks
  <2>7. TypeInv'
    <3>1. /\ occ' \in [Blocks -> SUBSET SlotsOf(0)]
          /\ \A c \in Blocks : occ'[c] \subseteq SlotsOf(c)
          /\ DOMAIN data' = Blocks /\ \A c \in Blocks : data'[c] \in [SlotsOf(c) -> Keys \cup {None}]
      BY <1>0, <2>2, <2>3, TakenFacts
    <3> QED BY <1>0, <1>02, <1>03, <2>0, <2>6, <3>1 DEF TypeInv, PCs
  <2>8. Counted'
    BY <1>0, <1>01, <1>02, <1>03, <2>0, <2>6 DEF Counted
  <2>9. Purpose'
    BY <1>0, <1>01, <1>02, <1>03 DEF Purpose, Adding, WalkNames
  <2>10. WalkInv'
    <3>1. CASE pc' = "walk" /\ UNCHANGED <<op, ptr, new>>
      <4>1. \A c, j : At(c, j)' => At(c, j)
        BY <2>4
      <4> QED BY <1>0, <1>01, <2>0, <2>4, <3>1, <4>1, WalkGoesOn
    <3>2. CASE Unlock
      BY <1>03, <3>2 DEF WalkInv, Walking
    <3> QED BY <1>02, <3>1, <3>2
  <2> QED BY <1>08, <2>4, <2>5, <2>7, <2>8, <2>9, <2>10 DEF EntryInv
<1> QED BY <1>1, <1>2

\* ChainIsPath, in the next state.
LEMMA ChainIsPathNext == (\A C : Path(link, C) => Chain = C)'
BY ChainIsPath, PTL

\* An empty linked bucket is unlinked.
LEMMA UnlinkChain ==
  ASSUME EntryInv, ~Fresh, NEW b, On(Chain, b), b # 0, Unlink(b)
  PROVE  /\ IsChain' /\ link' \in [Blocks -> Blocks] /\ prev' \in [Blocks -> Blocks]
         /\ \A j \in 2 .. Len(Chain') : prev'[Chain'[j]] = Chain'[j - 1]
         /\ \A x : On(Chain', x) <=> On(Chain, x) /\ x # b
         /\ \A x, y : Before(Chain, x, y) /\ x # b /\ y # b => Before(Chain', x, y)
<1> DEFINE C == Chain
<1>0. /\ TypeInv /\ Path(link, C) /\ link \in [Blocks -> Blocks] /\ prev \in [Blocks -> Blocks]
      /\ \A j \in 2 .. Len(C) : prev[C[j]] = C[j - 1]
      /\ Len(C) \in Nat /\ C \in Seq(Blocks) /\ C[1] = 0
      /\ \A i, j \in 1 .. Len(C) : C[i] = C[j] => i = j
      /\ \A j \in 1 .. Len(C) : C[j] \in Blocks
      /\ \A j \in 1 .. Len(C) - 1 : link[C[j]] = C[j + 1]
      /\ link[C[Len(C)]] = 0 /\ 0 \in Blocks
  <2>1. TypeInv /\ link \in [Blocks -> Blocks] /\ prev \in [Blocks -> Blocks] /\ 0 \in Blocks
    BY Numbers DEF EntryInv, TypeInv
  <2>2. Path(link, C)
    BY DEF EntryInv, IsChain
  <2>3. \A j \in 2 .. Len(C) : prev[C[j]] = C[j - 1]
    BY DEF EntryInv, BackLinks
  <2> HIDE DEF C
  <2> QED BY <2>1, <2>2, <2>3 DEF Path
<1> HIDE DEF C
<1>1. PICK p \in 1 .. Len(C) : C[p] = b
  BY DEF On, C
<1>2. p \in 2 .. Len(C) /\ p - 1 \in 1 .. Len(C) /\ b \in Blocks
  BY <1>0, <1>1
<1>3. prev[b] = C[p - 1] /\ C[p - 1] \in Blocks
  BY <1>0, <1>1, <1>2
<1>4. link' = [link EXCEPT ![C[p - 1]] = link[C[p]], ![C[p]] = 0]
  BY <1>1, <1>3 DEF Unlink
<1>5. PICK D : /\ Path(link', D) /\ Len(D) = Len(C) - 1
               /\ \A j \in 1 .. Len(D) : D[j] = IF j < p THEN C[j] ELSE C[j + 1]
               /\ \A x : On(D, x) <=> On(C, x) /\ x # C[p]
               /\ \A x, y : Before(C, x, y) /\ x # C[p] /\ y # C[p] => Before(D, x, y)
  <2>1. Path(link, C) /\ link \in [Blocks -> Blocks]
    BY <1>0
  <2>2. \E D : /\ Path([link EXCEPT ![C[p - 1]] = link[C[p]], ![C[p]] = 0], D)
               /\ Len(D) = Len(C) - 1
               /\ \A j \in 1 .. Len(D) : D[j] = IF j < p THEN C[j] ELSE C[j + 1]
               /\ \A x : On(D, x) <=> On(C, x) /\ x # C[p]
               /\ \A x, y : Before(C, x, y) /\ x # C[p] /\ y # C[p] => Before(D, x, y)
    BY <1>2, <2>1, PathRemove, Zenon
  <2> QED BY <1>4, <2>2, Zenon
<1>6. Chain' = D
  BY <1>5, ChainIsPathNext
<1>7. link' \in [Blocks -> Blocks]
  BY <1>0, <1>1, <1>2, <1>3, <1>4
<1>8. prev' = IF link[b] = 0 THEN prev ELSE [prev EXCEPT ![link[b]] = prev[b]]
  BY DEF Unlink
<1>9. prev' \in [Blocks -> Blocks]
  BY <1>0, <1>2, <1>3, <1>8
<1>10. ASSUME NEW j \in 2 .. Len(D) PROVE prev'[D[j]] = D[j - 1]
  <2>1. /\ j \in 1 .. Len(D) /\ j - 1 \in 1 .. Len(D) /\ j \in 1 .. Len(C) /\ j + 1 \in 1 .. Len(C)
        /\ j - 1 \in 1 .. Len(C) /\ j \in 2 .. Len(C) /\ j + 1 \in 2 .. Len(C) /\ (j + 1) - 1 = j
        /\ (j - 1) + 1 = j
    BY <1>0, <1>5
  <2>2. ASSUME NEW l \in 2 .. Len(C), l # p + 1 PROVE prev'[C[l]] = C[l - 1]
    <3>1. C[l] \in Blocks /\ prev[C[l]] = C[l - 1] /\ l \in 1 .. Len(C)
      BY <1>0
    <3>2. ASSUME link[b] # 0, C[l] = link[b] PROVE FALSE
      <4>1. p # Len(C)
        BY <1>0, <1>1, <3>2
      <4>2. p \in 1 .. Len(C) - 1 /\ p + 1 \in 1 .. Len(C)
        BY <1>0, <1>2, <4>1
      <4>3. C[p + 1] = C[l]
        BY <1>0, <1>1, <3>2, <4>2
      <4> QED BY <1>0, <2>2, <3>1, <4>2, <4>3
    <3> QED BY <1>0, <1>8, <3>1, <3>2
  <2>3. CASE j < p
    <3>1. D[j] = C[j] /\ D[j - 1] = C[j - 1] /\ j # p + 1
      BY <1>2, <1>5, <2>1, <2>3
    <3> QED BY <2>1, <2>2, <3>1
  <2>4. CASE j = p
    <3>1. D[j] = C[p + 1] /\ D[j - 1] = C[p - 1] /\ p \in 1 .. Len(C) - 1
      BY <1>0, <1>2, <1>5, <2>1, <2>4
    <3>2. link[b] = C[p + 1] /\ p + 1 \in 1 .. Len(C) /\ p + 1 # 1 /\ 1 \in 1 .. Len(C)
      BY <1>0, <1>1, <1>2, <2>1, <2>4, <3>1
    <3>3. C[p + 1] # 0
      BY <1>0, <3>2
    <3> QED BY <1>0, <1>3, <1>8, <3>1, <3>2, <3>3
  <2>5. CASE j > p
    <3>1. D[j] = C[j + 1] /\ D[j - 1] = C[j] /\ j + 1 # p + 1
      <4>1. ~ (j < p) /\ ~ (j - 1 < p)
        BY <1>2, <2>5
      <4> QED BY <1>2, <1>5, <2>1, <2>5, <4>1
    <3> QED BY <2>1, <2>2, <3>1
  <2> QED BY <1>2, <2>3, <2>4, <2>5
<1> QED BY <1>1, <1>5, <1>6, <1>7, <1>9, <1>10 DEF IsChain, C

\* relocate_bucket takes an entry.
LEMMA RelocateStep ==
  ASSUME EntryInv, Relocate
  PROVE  EntryInv'
<1>0. /\ TypeInv /\ IsChain /\ Bitmaps /\ Entries /\ Counted /\ Purpose /\ Owner /\ WalkInv
      /\ pc = "at" /\ op.name = "relocate"
      /\ UNCHANGED <<type, killed, dropped, op, new>>
  BY DEF EntryInv, Relocate
<1>01. /\ ~killed /\ ~dropped /\ op.key \in live /\ Holds(ptr) /\ Walking
       /\ op.key \notin op.left /\ op.left \subseteq live
       /\ \A b, i : At(b, i) /\ data[b][i] \in op.left => Ahead(b, i)
       /\ \A k \in live : k \in op.left \/ k = op.key
  BY <1>0 DEF Purpose, Owner, WalkInv, Walking, WalkNames
<1>1. CASE type = "OPTIMISTIC"
  <2>0. pc' = "uncount" /\ UNCHANGED <<occ, rem, data, link, prev, num, ptr, live>>
    BY <1>1 DEF Relocate, blockVars
  <2>1. IsChain' /\ BackLinks' /\ Bitmaps' /\ RemInv' /\ Chosen'
    BY <1>0, <2>0, StillBlocks DEF blockVars
  <2>2. Chain' = Chain /\ \A b, i : At(b, i)' <=> At(b, i)
    BY <1>0, <2>0, StillAt DEF blockVars
  <2>3. TypeInv' /\ Counted' /\ Purpose'
    BY <1>0, <1>1, <2>0 DEF TypeInv, PCs, Counted, Purpose, Adding, WalkNames
  <2>4. Entries'
    BY <1>0, <2>0, <2>2 DEF Entries, Updating
  <2>5. WalkInv'
    BY <1>0, <1>01, <2>0, <2>2 DEF WalkInv, Walking, Ahead, Fused
  <2>6. Owner'
    BY <1>0, <1>01, <2>0, <2>2 DEF Owner, Adding, Holds
  <2> QED BY <2>1, <2>3, <2>4, <2>5, <2>6 DEF EntryInv
<1>2. CASE type # "OPTIMISTIC"
  <2>0. /\ num' = num - 1 /\ live' = live \ {op.key} /\ pc' = "walk" /\ rem' = rem
        /\ occ' = [occ EXCEPT ![ptr.b] = @ \ {ptr.i}]
        /\ data' = [data EXCEPT ![ptr.b][ptr.i] = None]
        /\ IF ptr.b # 0 /\ occ[ptr.b] = {ptr.i} THEN Unlink(ptr.b) ELSE UNCHANGED <<link, prev, ptr>>
    BY <1>2 DEF Relocate
  <2>1. PICK b, i : b = ptr.b /\ i = ptr.i
    OBVIOUS
  <2>2. At(b, i) /\ data[b][i] = op.key
    BY <1>01, <2>1 DEF Holds
  <2>3. Taken(b, i)
    BY <1>2, <2>0, <2>1 DEF Taken
  <2>4. /\ IsFiniteSet(live') /\ live' \subseteq Keys /\ Cardinality(live) \in Nat
        /\ Cardinality(live') = Cardinality(live) - 1
    BY <1>0, <1>01, <2>0, LiveShrinks
  <2>5. Counted'
    BY <1>0, <1>01, <2>0, <2>4 DEF Counted
  <2>6. Purpose'
    BY <1>0, <1>01, <2>0 DEF Purpose, Adding, WalkNames
  <2>7. Owner'
    BY <1>0, <2>0 DEF Owner, Adding
  <2>8. /\ occ' \in [Blocks -> SUBSET SlotsOf(0)]
        /\ \A c \in Blocks : occ'[c] \subseteq occ[c] /\ occ'[c] \subseteq SlotsOf(c)
        /\ DOMAIN data' = Blocks /\ \A c \in Blocks : data'[c] \in [SlotsOf(c) -> Keys \cup {None}]
        /\ \A c \in Blocks : \A j : j \in Valid(c)' <=> j \in Valid(c) /\ ~ (c = b /\ j = i)
        /\ \A c \in Blocks : \A j \in SlotsOf(c) : ~ (c = b /\ j = i) => data'[c][j] = data[c][j]
        /\ \A c \in Blocks : \A j \in SlotsOf(c) :
             (j \in occ'[c] <=> j \in occ[c]) \/ (c = b /\ j = i /\ j \notin occ'[c] /\ data'[c][j] = None)
        /\ b \in Blocks /\ i \in SlotsOf(b)
    BY <1>0, <2>2, <2>3, TakenFacts
  <2>9. CASE ~ (b # 0 /\ occ[b] = {i})
    <3>0. UNCHANGED <<link, prev, ptr>>
      BY <2>0, <2>1, <2>9
    <3>1. /\ IsChain' /\ BackLinks' /\ Bitmaps' /\ RemInv' /\ Chosen' /\ Chain' = Chain
          /\ \A c, j : At(c, j)' <=> At(c, j) /\ ~ (c = b /\ j = i)
          /\ \A c, j : At(c, j)' => data'[c][j] = data[c][j]
      BY <1>0, <2>0, <2>2, <2>3, <3>0, TakeBlocks
    <3>2. Entries'
      BY <1>0, <2>0, <2>2, <3>1, TakeEntries
    <3>3. TypeInv'
      BY <1>0, <2>0, <2>4, <2>8, <3>0 DEF TypeInv, PCs
    <3>4. WalkInv'
      <4>1. \A c, j : At(c, j)' => At(c, j)
        BY <3>1
      <4> QED BY <1>0, <1>01, <2>0, <3>0, <3>1, <4>1, WalkGoesOn
    <3> QED BY <2>5, <2>6, <2>7, <3>1, <3>2, <3>3, <3>4 DEF EntryInv
  <2>10. CASE b # 0 /\ occ[b] = {i}
    <3>0. Unlink(b) /\ On(Chain, b) /\ ~Fresh /\ ~Fresh'
      BY <1>0, <2>0, <2>1, <2>2, <2>10 DEF At, Fresh
    <3>1. /\ IsChain' /\ link' \in [Blocks -> Blocks] /\ prev' \in [Blocks -> Blocks]
          /\ \A j \in 2 .. Len(Chain') : prev'[Chain'[j]] = Chain'[j - 1]
          /\ \A x : On(Chain', x) <=> On(Chain, x) /\ x # b
          /\ \A x, y : Before(Chain, x, y) /\ x # b /\ y # b => Before(Chain', x, y)
      BY <2>10, <3>0, UnlinkChain
    <3>2. \A c : On(Chain, c) => c \in Blocks
      BY <1>0, PathFacts DEF IsChain
    <3>3. \A j : j \in Valid(b) <=> j = i
      BY <1>2, <2>10 DEF Valid
    <3>4. \A c, j : At(c, j)' <=> At(c, j) /\ ~ (c = b /\ j = i)
      BY <2>8, <3>1, <3>2, <3>3 DEF At
    <3>5. \A c, j : At(c, j)' => data'[c][j] = data[c][j]
      <4>1. \A c, j : At(c, j) => c \in Blocks /\ j \in SlotsOf(c)
        BY <1>0, AtFacts
      <4> QED BY <2>8, <3>4, <4>1
    <3>6. Entries'
      BY <1>0, <2>0, <2>2, <3>4, <3>5, TakeEntries
    <3>7. ptr' \in [b : Blocks, i : 0 .. BucketLen + 1]
      <4>1. link[b] \in Blocks /\ ptr' = IF link[b] = 0 THEN Fused ELSE [b |-> link[b], i |-> LinkedLen]
        BY <1>0, <2>8, <3>0 DEF Unlink, TypeInv
      <4> QED BY <4>1, Numbers DEF Fused
    <3>8. TypeInv'
      BY <1>0, <2>0, <2>4, <2>8, <3>1, <3>7 DEF TypeInv, PCs
    <3>9. BackLinks' /\ Chosen' /\ RemInv'
      BY <1>0, <1>2, <2>0, <3>0, <3>1 DEF BackLinks, Chosen, RemInv
    <3>10. Bitmaps'
      <4>1. ASSUME NEW c \in Blocks, NEW j \in SlotsOf(c) PROVE j \in occ'[c] <=> data'[c][j] # None
        <5>1. j \in occ[c] <=> data[c][j] # None
          BY <1>0, <3>0 DEF Bitmaps, Written
        <5>2. occ'[b] = {} /\ data'[b][i] = None
          <6>1. b \in DOMAIN occ /\ b \in DOMAIN data /\ i \in DOMAIN data[b]
            BY <1>0, <2>8 DEF TypeInv
          <6> QED BY <2>0, <2>1, <2>10, <6>1
        <5> QED BY <2>8, <5>1, <5>2
      <4>2. ASSUME NEW c \in Blocks, ~On(Chain', c) PROVE occ'[c] = {}
        <5>1. CASE c = b
          <6>1. b \in DOMAIN occ
            BY <1>0, <2>8 DEF TypeInv
          <6> QED BY <2>0, <2>1, <2>10, <5>1, <6>1
        <5>2. CASE c # b
          <6>1. occ[c] = {}
            BY <1>0, <1>01, <3>0, <3>1, <4>2, <5>2 DEF Bitmaps
          <6> QED BY <2>8, <6>1
        <5> QED BY <5>1, <5>2
      <4>3. \A c \in Blocks : \A j \in SlotsOf(c) : ~Written(c, j)'
        BY <2>0 DEF Written
      <4>4. \A c \in Blocks : \A j \in SlotsOf(c) : j \in occ'[c] <=> data'[c][j] # None
        BY <4>1
      <4>5. \A c \in Blocks : ~On(Chain', c) => occ'[c] = {}
        BY <4>2
      <4> QED BY <4>3, <4>4, <4>5 DEF Bitmaps
    <3>11. ASSUME NEW c, NEW j, At(c, j)', data'[c][j] \in op.left PROVE Before(Chain, b, c) /\ c # b
      <4>1. At(c, j) /\ data[c][j] \in op.left /\ c # b
        BY <3>1, <3>4, <3>5, <3>11 DEF At
      <4> QED BY <1>01, <2>1, <4>1 DEF Ahead
    <3>12. \A c : Before(Chain, b, c) => link[b] # 0 /\ (c = link[b] \/ Before(Chain, link[b], c))
      BY <1>0, PathFacts DEF IsChain
    <3>13. op.left \subseteq live' /\ \A k \in live' : k \in op.left
      BY <1>01, <2>0
    <3>14. CASE link[b] = 0
      <4>1. ptr' = Fused
        BY <3>0, <3>14 DEF Unlink
      <4>2. op.left = {}
        BY <3>6, <3>11, <3>12, <3>13, <3>14 DEF Entries
      <4>3. WalkInv'
        BY <1>0, <2>0, <3>13, <4>1, <4>2 DEF WalkInv, Fused
      <4> QED BY <2>5, <2>6, <2>7, <3>1, <3>6, <3>8, <3>9, <3>10, <4>3 DEF EntryInv
    <3>15. CASE link[b] # 0
      <4> DEFINE d == link[b]
      <4>1. On(Chain, d) /\ d \in Blocks /\ d # 0 /\ d \in Linked /\ Before(Chain, b, d) /\ d # b
        BY <1>0, <3>0, <3>15, PathFacts, Numbers DEF IsChain
      <4>2. LenOf(d) = LinkedLen
        BY <4>1, SlotFacts
      <4> HIDE DEF d
      <4>3. ptr' = [b |-> d, i |-> LinkedLen] /\ ptr'.b = d /\ ptr'.i = LinkedLen /\ ptr' # Fused
        <5>1. ptr' = [b |-> d, i |-> LinkedLen]
          BY <3>0, <3>15 DEF d, Unlink
        <5> QED BY <4>1, <5>1 DEF Fused
      <4>4. ASSUME NEW c, NEW j, At(c, j)', data'[c][j] \in op.left PROVE Ahead(c, j)'
        <5>1. Before(Chain, b, c) /\ c # b
          BY <3>11, <4>4
        <5>2. c = d \/ Before(Chain, d, c)
          BY <3>12, <5>1 DEF d
        <5>3. c = d \/ Before(Chain', d, c)
          BY <3>1, <4>1, <5>1, <5>2
        <5> QED BY <4>2, <4>3, <5>3 DEF Ahead
      <4>5. On(Chain', ptr'.b) /\ ptr'.i \in 0 .. LenOf(ptr'.b)
        BY <3>1, <4>1, <4>2, <4>3, Numbers
      <4>6. WalkInv'
        BY <1>0, <2>0, <3>13, <4>3, <4>4, <4>5 DEF WalkInv, Fused
      <4> QED BY <2>5, <2>6, <2>7, <3>1, <3>6, <3>8, <3>9, <3>10, <4>6 DEF EntryInv
    <3> QED BY <3>14, <3>15
  <2> QED BY <2>9, <2>10
<1> QED BY <1>1, <1>2

-----------------------------------------------------------------------------
(* Steps that add an entry                                                  *)

\* The chain and the entries on it are kept.
Kept ==
  /\ \A x : On(Chain, x) => On(Chain', x) /\ \A j \in occ[x] : j \in occ'[x]
  /\ \A x, y : Before(Chain, x, y) => Before(Chain', x, y)
  /\ \A c, j : At(c, j) => At(c, j)' /\ data'[c][j] = data[c][j]

\* What the steps that write an entry keep.
LEMMA WriteKeeps ==
  ASSUME EntryInv, pc = "write", pc' = "publish",
         UNCHANGED <<type, num, killed, dropped, op, ptr, live>>,
         \A c, j : At(c, j)' <=> At(c, j),
         \A c, j : At(c, j) => data'[c][j] = data[c][j]
  PROVE  Entries' /\ Counted' /\ Purpose' /\ Owner' /\ WalkInv'
<1>0. Entries /\ Counted /\ Purpose /\ Owner
  BY DEF EntryInv
<1>1. Entries'
  <2>1. \A c, j : At(c, j)' => data'[c][j] \in live'
    BY <1>0 DEF Entries
  <2>2. \A k \in live' : \E c, j : At(c, j)' /\ data'[c][j] = k
    BY <1>0 DEF Entries
  <2>3. \A c, j, d, l : At(c, j)' /\ At(d, l)' /\ data'[c][j] = data'[d][l] => c = d /\ j = l
    BY <1>0 DEF Entries, Updating
  <2> QED BY <2>1, <2>2, <2>3 DEF Entries
<1>2. Counted'
  BY <1>0 DEF Counted
<1>3. Purpose'
  BY <1>0 DEF Purpose, Adding
<1>4. Owner'
  <2>1. Holds(ptr) => Holds(ptr)'
    BY DEF Holds
  <2> QED BY <1>0, <2>1 DEF Owner, Adding
<1>5. WalkInv'
  BY DEF WalkInv, Walking
<1> QED BY <1>1, <1>2, <1>3, <1>4, <1>5

\* A new linked bucket is made.
LEMMA NewLinkStep ==
  ASSUME EntryInv, pc = "write", pc' = "publish", NEW b \in Unused, NewLink(b),
         UNCHANGED <<type, num, killed, dropped, op, ptr, live>>
  PROVE  EntryInv' /\ Kept
<1>0. /\ TypeInv /\ IsChain /\ Bitmaps /\ Entries /\ Counted /\ Purpose /\ Owner /\ BackLinks /\ RemInv
      /\ ~killed /\ ~dropped /\ op.key \in Keys /\ ~Fresh
  BY DEF EntryInv, Purpose, Adding, Fresh
<1>01. b \in Linked /\ b \in Blocks /\ b # 0 /\ ~On(Chain, b) /\ 0 \in Blocks
  BY <1>0, OnIsToSet, Numbers DEF Unused
<1>02. /\ new' = [b |-> b, i |-> 0]
       /\ data' = [data EXCEPT ![b] = [i \in SlotsOf(b) |-> IF i = 0 THEN op.key ELSE None]]
       /\ occ' = [occ EXCEPT ![b] = {0}] /\ rem' = [rem EXCEPT ![b] = {}]
       /\ link' = [link EXCEPT ![b] = link[0]]
       /\ prev' = IF link[0] = 0 THEN [prev EXCEPT ![b] = 0]
                  ELSE [prev EXCEPT ![b] = 0, ![link[0]] = b]
  BY DEF NewLink
<1>03. /\ occ \in [Blocks -> SUBSET SlotsOf(0)] /\ rem \in [Blocks -> SUBSET SlotsOf(0)]
       /\ \A c \in Blocks : occ[c] \subseteq SlotsOf(c) /\ 0 \in SlotsOf(c)
       /\ DOMAIN data = Blocks /\ \A c \in Blocks : data[c] \in [SlotsOf(c) -> Keys \cup {None}]
       /\ link \in [Blocks -> Blocks] /\ prev \in [Blocks -> Blocks]
  BY <1>0, SlotFacts DEF TypeInv
<1>04. /\ new'.b = b /\ new'.i = 0 /\ occ'[b] = {0} /\ rem'[b] = {} /\ link'[b] = link[0]
       /\ data'[b] = [i \in SlotsOf(b) |-> IF i = 0 THEN op.key ELSE None] /\ prev'[b] = 0
       /\ \A c \in Blocks : c # b => occ'[c] = occ[c] /\ rem'[c] = rem[c] /\ data'[c] = data[c] /\ link'[c] = link[c]
  <2>1. link[0] = 0 \/ link[0] # b
    BY <1>0, <1>01, PathFacts DEF IsChain
  <2> QED BY <1>01, <1>02, <1>03, <2>1
<1>05. data'[b] \in [SlotsOf(b) -> Keys \cup {None}] /\ data'[b][0] = op.key
       /\ \A i \in SlotsOf(b) : i # 0 => data'[b][i] = None
  BY <1>0, <1>01, <1>03, <1>04
<1>06. Path(link', Chain)
  BY <1>0, <1>01, <1>02, <1>03, PathOther DEF IsChain
<1>07. Chain' = Chain
  BY <1>06, ChainIsPathNext
<1>08. Fresh'
  BY <1>04 DEF Fresh
<1>09. \A c : On(Chain, c) => c \in Blocks /\ c # b
  BY <1>0, <1>01, PathFacts DEF IsChain
<1>1. \A c, j : At(c, j)' <=> At(c, j)
  BY <1>04, <1>07, <1>09 DEF At, Valid
<1>2. \A c, j : At(c, j) => data'[c][j] = data[c][j]
  BY <1>04, <1>09 DEF At
<1>3. Entries' /\ Counted' /\ Purpose' /\ Owner' /\ WalkInv'
  BY <1>1, <1>2, WriteKeeps
<1>4. TypeInv'
  <2>1. occ' \in [Blocks -> SUBSET SlotsOf(0)] /\ rem' \in [Blocks -> SUBSET SlotsOf(0)]
    BY <1>01, <1>02, <1>03
  <2>2. \A c \in Blocks : occ'[c] \subseteq SlotsOf(c)
    BY <1>03, <1>04
  <2>3. DOMAIN data' = Blocks /\ \A c \in Blocks : data'[c] \in [SlotsOf(c) -> Keys \cup {None}]
    BY <1>02, <1>03, <1>04, <1>05
  <2>4. link' \in [Blocks -> Blocks] /\ prev' \in [Blocks -> Blocks]
    BY <1>01, <1>02, <1>03
  <2>5. new' \in [b : Blocks, i : 0 .. BucketLen]
    BY <1>01, <1>02, Numbers
  <2> QED BY <1>0, <2>1, <2>2, <2>3, <2>4, <2>5 DEF TypeInv, PCs
<1>5. IsChain'
  BY <1>06, <1>07 DEF IsChain
<1>6. BackLinks'
  <2>1. /\ Len(Chain) \in Nat /\ Chain[1] = 0
        /\ \A j \in 1 .. Len(Chain) : Chain[j] \in Blocks /\ Chain[j] # b
        /\ \A i, j \in 1 .. Len(Chain) : Chain[i] = Chain[j] => i = j
        /\ \A j \in 1 .. Len(Chain) - 1 : link[Chain[j]] = Chain[j + 1]
    BY <1>0, <1>01 DEF IsChain, Path, On
  <2>2. ASSUME NEW j \in 2 .. Len(Chain) PROVE prev'[Chain[j]] = IF j = 2 THEN b ELSE Chain[j - 1]
    <3>1. /\ prev[Chain[j]] = Chain[j - 1] /\ j \in 1 .. Len(Chain) /\ 2 \in 1 .. Len(Chain)
          /\ 1 \in 1 .. Len(Chain) - 1 /\ 1 + 1 = 2 /\ 1 \in 1 .. Len(Chain)
      BY <1>0, <2>1 DEF BackLinks
    <3>2. link[0] = Chain[2] /\ Chain[2] # 0
      BY <2>1, <3>1
    <3>3. prev' = [prev EXCEPT ![b] = 0, ![link[0]] = b]
      BY <1>02, <3>2
    <3>4. Chain[j] = Chain[2] <=> j = 2
      BY <2>1, <3>1
    <3> QED BY <1>03, <2>1, <3>1, <3>2, <3>3, <3>4
  <2> QED BY <1>04, <1>07, <1>08, <2>2 DEF BackLinks
<1>7. Bitmaps'
  <2>1. \A c \in Blocks : \A j \in SlotsOf(c) : ~Written(c, j)' /\ ~Written(c, j)
    BY <1>0, <1>08 DEF Written
  <2>2. ASSUME NEW c \in Blocks, NEW j \in SlotsOf(c) PROVE j \in occ'[c] <=> data'[c][j] # None
    <3>1. CASE c = b
      <4>1. op.key # None
        BY <1>0, BucketAssumption
      <4> QED BY <1>04, <1>05, <3>1, <4>1
    <3>2. CASE c # b
      BY <1>0, <1>04, <2>1, <3>2 DEF Bitmaps
    <3> QED BY <3>1, <3>2
  <2>3. ASSUME NEW c \in Blocks, ~On(Chain, c), c # b PROVE occ'[c] = {}
    BY <1>0, <1>04, <2>3 DEF Bitmaps
  <2> QED BY <1>04, <1>07, <1>08, <2>1, <2>2, <2>3 DEF Bitmaps
<1>8. RemInv'
  BY <1>0, <1>04 DEF RemInv
<1>9. Chosen'
  <2>1. 0 \in SlotsOf(b)
    BY <1>01, <1>03
  <2>2. link'[0] = link[0]
    BY <1>01, <1>04
  <2> QED BY <1>01, <1>04, <1>05, <1>07, <1>08, <2>1, <2>2 DEF Chosen
<1>10. Kept
  BY <1>04, <1>07, <1>09, <1>1, <1>2 DEF Kept
<1> QED BY <1>3, <1>4, <1>5, <1>6, <1>7, <1>8, <1>9, <1>10 DEF EntryInv

\* insert_with writes the entry.
LEMMA InsertWriteStep ==
  ASSUME EntryInv, InsertWrite
  PROVE  EntryInv' /\ Kept
<1> DEFINE bs == {b \in ToSet(Chain) : Free(b) # {}}
<1>0. /\ TypeInv /\ IsChain /\ Bitmaps /\ Entries /\ Counted /\ Purpose /\ Owner /\ BackLinks /\ RemInv
      /\ pc = "write" /\ pc' = "publish"
      /\ UNCHANGED <<type, num, killed, dropped, op, ptr, live>>
  BY DEF EntryInv, InsertWrite, history
<1>01. ~killed /\ ~dropped /\ op.key \in Keys /\ ~Fresh
  BY <1>0 DEF Purpose, Adding, Fresh
<1>1. CASE bs = {}
  <2>1. \E b \in Unused : NewLink(b)
    BY <1>1 DEF InsertWrite
  <2> QED BY <1>0, <2>1, NewLinkStep
<1>2. CASE bs # {}
  <2> DEFINE fb == First(bs)  fi == Min(Free(fb))
  <2>1. /\ new' = [b |-> fb, i |-> fi] /\ data' = [data EXCEPT ![fb][fi] = op.key]
        /\ UNCHANGED <<occ, rem, link, prev>>
    BY <1>2 DEF InsertWrite
  <2>2. \A c \in bs : On(Chain, c) /\ Free(c) # {}
    BY <1>0, OnIsToSet
  <2> HIDE DEF bs
  <2>3. fb \in bs
    BY <1>0, <1>2, <2>2, FirstFacts
  <2>4. PICK b : b = fb
    OBVIOUS
  <2>5. On(Chain, b) /\ Free(b) # {} /\ b \in Blocks
    BY <1>0, <2>2, <2>3, <2>4, PathFacts DEF IsChain
  <2>6. PICK i : i = fi
    OBVIOUS
  <2>7. i \in SlotsOf(b) /\ i \notin occ[b]
    <3>1. Free(b) \in SUBSET Nat
      BY <2>5, SlotFacts DEF Free
    <3>2. Min(Free(b)) \in Free(b)
      BY <2>5, <3>1, MinIsLeast
    <3> QED BY <2>4, <2>6, <3>2 DEF Free
  <2>8. new' = [b |-> b, i |-> i] /\ data' = [data EXCEPT ![b][i] = op.key]
    BY <2>1, <2>4, <2>6
  <2> HIDE DEF fb, fi
  <2>9. new'.b = b /\ new'.i = i /\ ~Fresh'
    <3>1. new'.b = b /\ new'.i = i
      BY <2>8
    <3> QED BY <2>1, <2>7, <3>1 DEF Fresh
  <2>10. Chain' = Chain
    BY <2>1, ChainSame
  <2>11. /\ DOMAIN data = Blocks /\ \A c \in Blocks : data[c] \in [SlotsOf(c) -> Keys \cup {None}]
         /\ occ \in [Blocks -> SUBSET SlotsOf(0)]
    BY <1>0 DEF TypeInv
  <2>12. /\ DOMAIN data' = Blocks /\ data'[b] = [data[b] EXCEPT ![i] = op.key]
         /\ \A c \in Blocks : c # b => data'[c] = data[c]
    BY <2>5, <2>8, <2>11
  <2>13. /\ data'[b][i] = op.key /\ data'[b] \in [SlotsOf(b) -> Keys \cup {None}]
         /\ \A j \in SlotsOf(b) : j # i => data'[b][j] = data[b][j]
    BY <1>01, <2>5, <2>7, <2>11, <2>12
  <2>14. \A c, j : At(c, j)' <=> At(c, j)
    BY <1>0, <2>1, <2>10 DEF At, Valid
  <2>15. \A c, j : At(c, j) => c \in Blocks /\ j \in SlotsOf(c) /\ j \in occ[c]
    BY <1>0, AtFacts
  <2>16. \A c, j : At(c, j) => data'[c][j] = data[c][j]
    BY <2>7, <2>12, <2>13, <2>15
  <2>17. Entries' /\ Counted' /\ Purpose' /\ Owner' /\ WalkInv'
    BY <1>0, <2>14, <2>16, WriteKeeps
  <2>18. TypeInv'
    <3>1. new' \in [b : Blocks, i : 0 .. BucketLen]
      BY <2>5, <2>7, <2>8, SlotFacts, Numbers
    <3>2. \A c \in Blocks : data'[c] \in [SlotsOf(c) -> Keys \cup {None}]
      BY <2>11, <2>12, <2>13
    <3> QED BY <1>0, <2>1, <2>12, <3>1, <3>2 DEF TypeInv, PCs
  <2>19. IsChain' /\ BackLinks' /\ RemInv'
    BY <1>0, <1>01, <2>1, <2>9, <2>10 DEF IsChain, BackLinks, RemInv
  <2>20. Bitmaps'
    <3>1. ASSUME NEW c \in Blocks, NEW j \in SlotsOf(c)
          PROVE  j \in occ'[c] <=> data'[c][j] # None /\ ~Written(c, j)'
      <4>1. Written(c, j)' <=> c = b /\ j = i
        BY <1>0, <2>9 DEF Written, Is
      <4>2. j \in occ[c] <=> data[c][j] # None
        BY <1>0 DEF Bitmaps, Written
      <4>3. CASE c = b /\ j = i
        BY <2>1, <2>7, <4>1, <4>3
      <4>4. CASE ~ (c = b /\ j = i)
        BY <2>1, <2>12, <2>13, <4>1, <4>2, <4>4
      <4> QED BY <4>3, <4>4
    <3>2. ASSUME NEW c \in Blocks, ~On(Chain', c) PROVE occ'[c] = {}
      BY <1>0, <1>01, <2>1, <2>10, <3>2 DEF Bitmaps
    <3> QED BY <3>1, <3>2 DEF Bitmaps
  <2>21. Chosen'
    <3>1. i \notin rem[b] \/ type # "OPTIMISTIC"
      BY <1>0, <1>01, <2>5, <2>7 DEF RemInv
    <3> QED BY <1>0, <2>1, <2>5, <2>7, <2>9, <2>10, <2>13, <3>1 DEF Chosen
  <2>22. Kept
    BY <2>1, <2>10, <2>14, <2>16 DEF Kept
  <2> QED BY <2>17, <2>18, <2>19, <2>20, <2>21, <2>22 DEF EntryInv
<1> QED BY <1>1, <1>2

\* insert_with publishes the entry.
LEMMA InsertPublishStep ==
  ASSUME EntryInv, InsertPublish
  PROVE  EntryInv' /\ Kept
<1>0. /\ TypeInv /\ IsChain /\ Bitmaps /\ Entries /\ Counted /\ Purpose /\ Owner /\ BackLinks /\ RemInv
      /\ Chosen /\ pc = "publish" /\ pc' = "count"
      /\ UNCHANGED <<type, rem, data, prev, num, killed, dropped, op, ptr, new, live>>
  BY DEF EntryInv, InsertPublish, history
<1>01. /\ ~killed /\ ~dropped /\ op.key \in Keys /\ ~Fresh'
       /\ op.name \in {"insert", "put", "update"}
       /\ op.name = "update" => op.key \in live /\ Holds(ptr)
       /\ op.name # "update" => op.key \notin live
  BY <1>0 DEF Purpose, Adding, Fresh, Owner
<1>02. PICK b, i : b = new.b /\ i = new.i
  OBVIOUS
<1>03. /\ b \in Blocks /\ i \in SlotsOf(b) /\ data[b][i] = op.key
       /\ On(Chain, b) <=> ~Fresh
       /\ Fresh => occ[b] = {0} /\ rem[b] = {} /\ link[b] = link[0] /\ prev[b] = 0
       /\ ~Fresh => i \notin rem[b] \/ type # "OPTIMISTIC"
       /\ Fresh <=> i \in occ[b]
  BY <1>0, <1>02 DEF Chosen, TypeInv, Fresh
<1>04. /\ occ \in [Blocks -> SUBSET SlotsOf(0)] /\ rem \in [Blocks -> SUBSET SlotsOf(0)]
       /\ \A c \in Blocks : occ[c] \subseteq SlotsOf(c)
       /\ link \in [Blocks -> Blocks] /\ i \in SlotsOf(0)
  BY <1>0, <1>03, SlotFacts DEF TypeInv
<1>05. ~At(b, i)
  BY <1>03 DEF At, Valid
<1>06. /\ IsChain' /\ BackLinks' /\ Bitmaps' /\ RemInv'
       /\ occ' \in [Blocks -> SUBSET SlotsOf(0)] /\ \A c \in Blocks : occ'[c] \subseteq SlotsOf(c)
       /\ link' \in [Blocks -> Blocks]
       /\ \A c, j : At(c, j)' <=> At(c, j) \/ (c = b /\ j = i)
       /\ \A x : On(Chain, x) => On(Chain', x) /\ \A j \in occ[x] : j \in occ'[x]
       /\ \A x, y : Before(Chain, x, y) => Before(Chain', x, y)
  <2>1. CASE Fresh
    <3>0. link' = [link EXCEPT ![0] = b] /\ occ' = occ
      BY <1>02, <1>03, <2>1 DEF InsertPublish
    <3>1. ~On(Chain, b) /\ On(Chain, 0) /\ b \in Linked /\ Path(link, Chain) /\ link[b] = link[0]
      BY <1>0, <1>03, <2>1, PathFacts, Numbers DEF IsChain
    <3>2. PICK D : Path([link EXCEPT ![0] = b], D) /\ Inserted(Chain, b, D)
      BY <1>04, <3>1, PathInsert
    <3>21. /\ Len(D) = Len(Chain) + 1 /\ D[1] = 0 /\ D[2] = b
           /\ \A j \in 2 .. Len(Chain) : D[j + 1] = Chain[j]
           /\ \A x : On(D, x) <=> On(Chain, x) \/ x = b
      BY <3>2 DEF Inserted
    <3>3. Chain' = D
      BY <3>0, <3>2, <3>21, ChainIsPathNext
    <3>4. IsChain'
      BY <3>0, <3>2, <3>21, <3>3 DEF IsChain
    <3>5. BackLinks'
      <4>1. Len(Chain) \in Nat
        BY <1>0 DEF IsChain, Path
      <4>2. ASSUME NEW j \in 2 .. Len(D) PROVE prev[D[j]] = D[j - 1]
        <5>1. CASE j = 2
          BY <1>03, <2>1, <3>2, <3>21, <5>1
        <5>2. CASE j # 2
          <6>1. j - 1 \in 2 .. Len(Chain) /\ (j - 1) + 1 = j /\ (j - 1 # 2 => j - 2 \in 2 .. Len(Chain))
                /\ (j - 2) + 1 = j - 1 /\ (j - 1) - 1 = j - 2
            BY <3>2, <3>21, <4>1, <5>2
          <6>2. D[j] = Chain[j - 1] /\ prev[Chain[j - 1]] = IF j - 1 = 2 THEN b ELSE Chain[j - 2]
            BY <1>0, <1>02, <2>1, <3>2, <3>21, <6>1 DEF BackLinks
          <6>3. D[j - 1] = IF j - 1 = 2 THEN b ELSE Chain[j - 2]
            BY <3>2, <3>21, <6>1
          <6> QED BY <6>2, <6>3
        <5> QED BY <5>1, <5>2
      <4> QED BY <1>0, <1>01, <3>3, <4>2 DEF BackLinks
    <3>6. i = 0 /\ \A j : j \in Valid(b) <=> j = i
      BY <1>03, <2>1 DEF Valid
    <3>7. \A c : Valid(c)' = Valid(c)
      BY <1>0, <3>0 DEF Valid
    <3>8. \A c, j : At(c, j)' <=> At(c, j) \/ (c = b /\ j = i)
      BY <3>1, <3>2, <3>21, <3>3, <3>6, <3>7 DEF At
    <3>9. Bitmaps'
      <4>1. ASSUME NEW c \in Blocks, NEW j \in SlotsOf(c)
            PROVE  j \in occ'[c] <=> data'[c][j] # None /\ ~Written(c, j)'
        BY <1>0, <2>1, <3>0 DEF Bitmaps, Written
      <4>2. ASSUME NEW c \in Blocks, ~On(Chain', c) PROVE occ'[c] = {}
        BY <1>0, <1>01, <1>02, <3>0, <3>2, <3>21, <3>3, <4>2 DEF Bitmaps
      <4> QED BY <4>1, <4>2 DEF Bitmaps
    <3>10. RemInv'
      BY <1>0, <1>01, <3>0 DEF RemInv
    <3>11. link' \in [Blocks -> Blocks]
      BY <1>03, <1>04, <3>0
    <3>12. /\ \A x : On(Chain, x) => On(Chain', x)
           /\ \A x, y : Before(Chain, x, y) => Before(Chain', x, y)
      BY <3>2, <3>3 DEF Inserted
    <3> QED BY <1>04, <3>0, <3>4, <3>5, <3>8, <3>9, <3>10, <3>11, <3>12
  <2>2. CASE ~Fresh
    <3>0. occ' = [occ EXCEPT ![b] = @ \cup {i}] /\ link' = link
      BY <1>02, <1>03, <2>2 DEF InsertPublish
    <3>1. Chain' = Chain /\ On(Chain, b)
      BY <1>03, <2>2, <3>0, ChainSame
    <3>2. occ'[b] = occ[b] \cup {i} /\ \A c \in Blocks : c # b => occ'[c] = occ[c]
      BY <1>03, <1>04, <3>0
    <3>3. occ' \in [Blocks -> SUBSET SlotsOf(0)] /\ \A c \in Blocks : occ'[c] \subseteq SlotsOf(c)
      BY <1>03, <1>04, <3>0, <3>2
    <3>4. IsChain' /\ BackLinks'
      BY <1>0, <1>01, <2>2, <3>0, <3>1 DEF IsChain, BackLinks
    <3>5. \A c : On(Chain, c) => c \in Blocks
      BY <1>0, PathFacts DEF IsChain
    <3>6. ASSUME NEW c \in Blocks, NEW j PROVE j \in Valid(c)' <=> j \in Valid(c) \/ (c = b /\ j = i)
      BY <1>0, <1>03, <2>2, <3>2 DEF Valid
    <3>7. \A c, j : At(c, j)' <=> At(c, j) \/ (c = b /\ j = i)
      BY <3>1, <3>5, <3>6 DEF At
    <3>8. Bitmaps'
      <4>1. ASSUME NEW c \in Blocks, NEW j \in SlotsOf(c)
            PROVE  j \in occ'[c] <=> data'[c][j] # None /\ ~Written(c, j)'
        <5>1. ~Written(c, j)' /\ (Written(c, j) <=> c = b /\ j = i)
          BY <1>0, <1>02, <2>2 DEF Written, Is
        <5>2. j \in occ[c] <=> data[c][j] # None /\ ~ (c = b /\ j = i)
          BY <1>0, <5>1 DEF Bitmaps
        <5>3. op.key # None
          BY <1>01, BucketAssumption
        <5> QED BY <1>0, <1>03, <3>2, <5>1, <5>2, <5>3
      <4>2. ASSUME NEW c \in Blocks, ~On(Chain', c) PROVE occ'[c] = {}
        <5>1. c # b /\ occ[c] = {}
          BY <1>0, <1>01, <2>2, <3>1, <4>2 DEF Bitmaps
        <5> QED BY <3>2, <5>1
      <4> QED BY <4>1, <4>2 DEF Bitmaps
    <3>9. RemInv'
      BY <1>0, <1>01, <3>2 DEF RemInv
    <3>10. \A x : On(Chain, x) => On(Chain', x) /\ \A j \in occ[x] : j \in occ'[x]
      BY <3>1, <3>2, <3>5
    <3>11. \A x, y : Before(Chain, x, y) => Before(Chain', x, y)
      BY <3>1
    <3> QED BY <1>04, <3>0, <3>3, <3>4, <3>7, <3>8, <3>9, <3>10, <3>11
  <2> QED BY <2>1, <2>2
<1>1. TypeInv'
  BY <1>0, <1>06 DEF TypeInv, PCs
<1>2. Entries'
  <2>1. \A c, j : At(c, j) => data[c][j] \in live
    BY <1>0 DEF Entries
  <2>2. \A c, j, d, l : At(c, j) /\ At(d, l) /\ data[c][j] = data[d][l] => c = d /\ j = l
    BY <1>0 DEF Entries, Updating
  <2>3. \A c, j : At(c, j)' => data'[c][j] \in live' \/ (pc' = "count" /\ Is(new, c, j)')
    BY <1>0, <1>02, <1>06, <2>1 DEF Is
  <2>4. \A k \in live' : \E c, j : At(c, j)' /\ data'[c][j] = k
    BY <1>0, <1>06 DEF Entries
  <2>5. ASSUME NEW c, NEW j, At(c, j), data[c][j] = op.key PROVE op.name = "update" /\ Is(ptr, c, j)
    <3>1. op.name = "update"
      BY <1>01, <2>1, <2>5
    <3>2. At(ptr.b, ptr.i) /\ data[ptr.b][ptr.i] = op.key
      BY <1>01, <3>1 DEF Holds
    <3> QED BY <2>2, <2>5, <3>1, <3>2 DEF Is
  <2>6. ASSUME NEW c, NEW j, NEW d, NEW l, At(c, j)', At(d, l)', data'[c][j] = data'[d][l]
        PROVE  (c = d /\ j = l) \/ Updating(c, j, d, l)'
    <3>1. CASE At(c, j) /\ At(d, l)
      BY <1>0, <2>2, <2>6, <3>1
    <3>2. CASE ~At(c, j) /\ At(d, l)
      <4>1. c = b /\ j = i
        BY <1>06, <2>6, <3>2
      <4>2. op.name = "update" /\ Is(ptr, d, l)
        BY <1>0, <1>03, <2>5, <2>6, <3>2, <4>1
      <4> QED BY <1>0, <1>02, <4>1, <4>2 DEF Updating, Is
    <3>3. CASE At(c, j) /\ ~At(d, l)
      <4>1. d = b /\ l = i
        BY <1>06, <2>6, <3>3
      <4>2. op.name = "update" /\ Is(ptr, c, j)
        BY <1>0, <1>03, <2>5, <2>6, <3>3, <4>1
      <4> QED BY <1>0, <1>02, <4>1, <4>2 DEF Updating, Is
    <3>4. CASE ~At(c, j) /\ ~At(d, l)
      BY <1>06, <2>6, <3>4
    <3> QED BY <3>1, <3>2, <3>3, <3>4
  <2> QED BY <2>3, <2>4, <2>6 DEF Entries
<1>3. Counted'
  BY <1>0 DEF Counted
<1>4. Purpose'
  BY <1>0 DEF Purpose, Adding
<1>5. Owner'
  <2>1. Holds(new)'
    BY <1>0, <1>02, <1>03, <1>06 DEF Holds
  <2>2. op.name = "update" => Holds(ptr)' /\ new # ptr
    <3>1. op.name = "update" => At(ptr.b, ptr.i) /\ data[ptr.b][ptr.i] = op.key
      BY <1>01 DEF Holds
    <3>2. op.name = "update" => new # ptr
      BY <1>02, <1>05, <3>1
    <3>3. PICK p : p = ptr
      OBVIOUS
    <3>4. op.name = "update" => At(p.b, p.i)' /\ data'[p.b][p.i] = op.key
      BY <1>0, <1>06, <3>1, <3>3
    <3>5. p = ptr'
      BY <1>0, <3>3
    <3> QED BY <1>0, <3>2, <3>4, <3>5 DEF Holds
  <2> QED BY <1>0, <1>01, <2>1, <2>2 DEF Owner, Adding
<1>6. WalkInv' /\ Chosen'
  BY <1>0 DEF WalkInv, Walking, Chosen
<1>7. Kept
  BY <1>0, <1>06 DEF Kept
<1> QED BY <1>06, <1>1, <1>2, <1>3, <1>4, <1>5, <1>6, <1>7 DEF EntryInv

-----------------------------------------------------------------------------
(* Steps that end the bucket                                                *)

\* Without keys there is no entry.
LEMMA NoEntries ==
  ASSUME Entries, live = {}, pc # "count"
  PROVE  \A b, i : ~At(b, i)
BY DEF Entries

\* An empty bucket has each of its no keys once.
LEMMA NoEntriesNext ==
  ASSUME live' = {}, \A b, i : ~At(b, i)'
  PROVE  Entries'
BY DEF Entries

\* Dropping blocks empties their slots and no others.
LEMMA DroppedFacts ==
  ASSUME TypeInv, Bitmaps, pc # "publish", NEW bs, Dropped(bs)
  PROVE  /\ occ' \in [Blocks -> SUBSET SlotsOf(0)]
         /\ \A c \in Blocks : occ'[c] = (IF c \in bs THEN {} ELSE occ[c]) /\ occ'[c] \subseteq SlotsOf(c)
         /\ DOMAIN data' = Blocks /\ \A c \in Blocks : data'[c] \in [SlotsOf(c) -> Keys \cup {None}]
         /\ \A c \in Blocks : \A j \in SlotsOf(c) : j \in occ'[c] <=> data'[c][j] # None
<1>0. /\ occ \in [Blocks -> SUBSET SlotsOf(0)]
      /\ \A c \in Blocks : occ[c] \subseteq SlotsOf(c)
      /\ DOMAIN data = Blocks /\ \A c \in Blocks : data[c] \in [SlotsOf(c) -> Keys \cup {None}]
  BY DEF TypeInv
<1>1. /\ occ' = [b \in Blocks |-> IF b \in bs THEN {} ELSE occ[b]]
      /\ data' = [b \in Blocks |-> [i \in SlotsOf(b) |->
                    IF b \in bs /\ i \in occ[b] THEN None ELSE data[b][i]]]
  BY DEF Dropped
<1>2. \A c \in Blocks : \A j \in SlotsOf(c) : j \in occ[c] <=> data[c][j] # None
  BY DEF Bitmaps, Written
<1>3. ASSUME NEW c \in Blocks
      PROVE  /\ occ'[c] = (IF c \in bs THEN {} ELSE occ[c])
             /\ data'[c] = [i \in SlotsOf(c) |-> IF c \in bs /\ i \in occ[c] THEN None ELSE data[c][i]]
  BY <1>1
<1>4. ASSUME NEW c \in Blocks PROVE data'[c] \in [SlotsOf(c) -> Keys \cup {None}]
  <2>1. \A j \in SlotsOf(c) : data[c][j] \in Keys \cup {None}
    BY <1>0
  <2>2. \A j \in SlotsOf(c) : data'[c][j] \in Keys \cup {None}
    BY <1>3, <2>1
  <2> QED BY <1>3, <2>2
<1>5. ASSUME NEW c \in Blocks, NEW j \in SlotsOf(c) PROVE j \in occ'[c] <=> data'[c][j] # None
  BY <1>2, <1>3
<1>6. occ' \in [Blocks -> SUBSET SlotsOf(0)]
  BY <1>0, <1>1
<1>7. DOMAIN data' = Blocks
  BY <1>1
<1> QED BY <1>0, <1>3, <1>4, <1>5, <1>6, <1>7

\* Killing an emptied bucket keeps the entries, of which there are none.
LEMMA KillStep ==
  ASSUME EntryInv, Kill
  PROVE  EntryInv'
<1>0. /\ TypeInv /\ IsChain /\ Bitmaps /\ Entries /\ Counted /\ Purpose /\ BackLinks
      /\ pc = "kill" /\ pc' = "clear" /\ killed' = TRUE /\ num' = 0
      /\ rem' = IF type = "OPTIMISTIC" THEN [rem EXCEPT ![0] = occ[0]] ELSE rem
      /\ UNCHANGED <<type, dropped, occ, data, link, prev, op, ptr, new, live>>
  BY DEF EntryInv, Kill, history
<1>01. op.name = "relocate" /\ live = {} /\ ~killed /\ ~dropped
  BY <1>0 DEF Purpose
<1>02. Chain' = Chain /\ ~Fresh /\ ~Fresh'
  BY <1>0, ChainSame DEF Fresh
<1>03. \A b, i : ~At(b, i)
  BY <1>0, <1>01, NoEntries
<1>04. /\ rem' \in [Blocks -> SUBSET SlotsOf(0)] /\ (type = "OPTIMISTIC" => rem'[0] = occ[0])
       /\ \A c \in Blocks : c # 0 => rem'[c] = rem[c]
  BY <1>0, Numbers DEF TypeInv
<1>05. \A b, i : ~At(b, i)'
  <2>1. ASSUME NEW b, NEW i, At(b, i)' PROVE FALSE
    <3>1. On(Chain, b) /\ b \in Blocks /\ i \in Valid(b)'
      BY <1>0, <1>02, <2>1, PathFacts DEF At, IsChain
    <3>2. i \in Valid(b)
      BY <1>0, <1>04, <3>1 DEF Valid
    <3> QED BY <1>03, <3>1, <3>2 DEF At
  <2> QED BY <2>1
<1>1. TypeInv'
  BY <1>0, <1>04 DEF TypeInv, PCs
<1>2. IsChain' /\ BackLinks' /\ RemInv' /\ Chosen' /\ WalkInv'
  BY <1>0, <1>02 DEF IsChain, BackLinks, RemInv, Chosen, WalkInv, Walking
<1>3. Bitmaps'
  <2>1. \A c \in Blocks : \A j \in SlotsOf(c) : ~Written(c, j)' /\ ~Written(c, j)
    BY <1>0 DEF Written
  <2> QED BY <1>0, <1>01, <1>02, <2>1 DEF Bitmaps
<1>4. Entries'
  BY <1>0, <1>01, <1>05, NoEntriesNext
<1>5. Counted'
  BY <1>0, <1>01, FS_EmptySet DEF Counted
<1>6. Purpose'
  BY <1>0, <1>01 DEF Purpose, Adding
<1>7. Owner'
  BY <1>0, <1>01 DEF Owner, Adding
<1> QED BY <1>1, <1>2, <1>3, <1>4, <1>5, <1>6, <1>7 DEF EntryInv

\* The links are cleared.
LEMMA ClearedChain ==
  ASSUME link' = [b \in Blocks |-> 0]
  PROVE  /\ IsChain' /\ link' \in [Blocks -> Blocks] /\ Len(Chain') = 1
         /\ \A b : On(Chain', b) <=> b = 0
<1>1. link'[0] = 0 /\ link' \in [Blocks -> Blocks]
  BY Numbers
<1>2. PICK lk : lk = link'
  OBVIOUS
<1>3. Path(lk, <<0>>) /\ \A b : On(<<0>>, b) <=> b = 0
  BY <1>1, <1>2, PathClear
<1>4. Chain' = <<0>>
  BY <1>2, <1>3, ChainIsPathNext
<1>5. Len(<<0>>) = 1
  OBVIOUS
<1> QED BY <1>1, <1>2, <1>3, <1>4, <1>5 DEF IsChain

\* A killed bucket lets go of its linked buckets.
LEMMA ClearLinksStep ==
  ASSUME EntryInv, ClearLinks
  PROVE  EntryInv'
<1>0. /\ TypeInv /\ IsChain /\ Bitmaps /\ Entries /\ Counted /\ Purpose
      /\ pc = "clear" /\ Unlock /\ link' = [b \in Blocks |-> 0]
      /\ IF type = "OPTIMISTIC" THEN UNCHANGED <<occ, data>> ELSE Dropped(ToSet(Chain) \ {0})
      /\ UNCHANGED <<type, dropped, rem, prev, num, killed, live>>
  BY DEF EntryInv, ClearLinks, history, ReleasedLater
<1>01. op.name = "relocate" /\ live = {} /\ killed /\ ~dropped
  BY <1>0 DEF Purpose
<1>02. /\ pc' = "unlocked" /\ op' = NoOp /\ op'.name = "none" /\ op'.left = {}
       /\ op' \in [name : Names, key : Keys \cup {None}, left : SUBSET Keys]
       /\ ptr' \in [b : Blocks, i : 0 .. BucketLen + 1]
       /\ new' \in [b : Blocks, i : 0 .. BucketLen]
  BY <1>0, UnlockFacts
<1>03. /\ IsChain' /\ link' \in [Blocks -> Blocks] /\ Len(Chain') = 1
       /\ \A b : On(Chain', b) <=> b = 0
  BY <1>0, ClearedChain
<1>04. \A b, i : ~At(b, i)
  BY <1>0, <1>01, NoEntries
<1>05. /\ occ' \in [Blocks -> SUBSET SlotsOf(0)]
       /\ \A c \in Blocks : occ'[c] \subseteq occ[c] /\ occ'[c] \subseteq SlotsOf(c)
       /\ DOMAIN data' = Blocks /\ \A c \in Blocks : data'[c] \in [SlotsOf(c) -> Keys \cup {None}]
       /\ \A c \in Blocks : \A j \in SlotsOf(c) : j \in occ'[c] <=> data'[c][j] # None
       /\ \A c \in Blocks : c # 0 /\ type # "OPTIMISTIC" => occ'[c] = {}
  <2>1. CASE type = "OPTIMISTIC"
    BY <1>0, <2>1 DEF TypeInv, Bitmaps, Written
  <2>2. CASE type # "OPTIMISTIC"
    <3>1. Dropped(ToSet(Chain) \ {0})
      BY <1>0, <2>2
    <3> DEFINE bs == ToSet(Chain) \ {0}
    <3>2. \A c : c \in bs <=> On(Chain, c) /\ c # 0
      BY <1>0, OnIsToSet
    <3> HIDE DEF bs
    <3>3. /\ occ' \in [Blocks -> SUBSET SlotsOf(0)]
          /\ \A c \in Blocks : occ'[c] = (IF c \in bs THEN {} ELSE occ[c]) /\ occ'[c] \subseteq SlotsOf(c)
          /\ DOMAIN data' = Blocks /\ \A c \in Blocks : data'[c] \in [SlotsOf(c) -> Keys \cup {None}]
          /\ \A c \in Blocks : \A j \in SlotsOf(c) : j \in occ'[c] <=> data'[c][j] # None
      BY <1>0, <3>1, DroppedFacts DEF bs
    <3>4. ASSUME NEW c \in Blocks, c # 0 PROVE occ'[c] = {}
      <4>1. CASE c \in bs
        BY <3>3, <4>1
      <4>2. CASE c \notin bs
        <5>1. occ[c] = {}
          BY <1>0, <2>2, <3>2, <3>4, <4>2 DEF Bitmaps, Fresh
        <5> QED BY <3>3, <4>2, <5>1
      <4> QED BY <4>1, <4>2
    <3>5. \A c \in Blocks : occ'[c] \subseteq occ[c]
      BY <3>3
    <3> QED BY <3>3, <3>4, <3>5
  <2> QED BY <2>1, <2>2
<1>06. \A b, i : ~At(b, i)'
  <2>1. ASSUME NEW b, NEW i, At(b, i)' PROVE FALSE
    <3>1. b = 0 /\ i \in Valid(b)' /\ b \in Blocks
      BY <1>03, <2>1, Numbers DEF At
    <3>2. i \in Valid(0)
      BY <1>0, <1>05, <3>1 DEF Valid
    <3>3. On(Chain, 0)
      BY <1>0, PathFacts DEF IsChain
    <3> QED BY <1>04, <3>2, <3>3 DEF At
  <2> QED BY <2>1
<1>1. TypeInv'
  BY <1>0, <1>02, <1>03, <1>05 DEF TypeInv, PCs
<1>2. BackLinks' /\ RemInv' /\ Chosen' /\ WalkInv'
  BY <1>0, <1>01, <1>02, <1>03 DEF BackLinks, RemInv, Chosen, WalkInv, Walking
<1>3. Bitmaps'
  <2>1. \A c \in Blocks : \A j \in SlotsOf(c) : ~Written(c, j)'
    BY <1>02 DEF Written
  <2> QED BY <1>0, <1>01, <1>03, <1>05, <2>1 DEF Bitmaps
<1>4. Entries'
  BY <1>0, <1>01, <1>06, NoEntriesNext
<1>5. Counted'
  BY <1>0, <1>01, <1>02 DEF Counted
<1>6. Purpose'
  BY <1>0, <1>01, <1>02 DEF Purpose, Adding
<1>7. Owner'
  BY <1>02 DEF Owner, Adding
<1> QED BY <1>03, <1>1, <1>2, <1>3, <1>4, <1>5, <1>6, <1>7 DEF EntryInv

\* A linked bucket that nobody can reach is dropped.
LEMMA DropLinkStep ==
  ASSUME EntryInv, NEW b \in Linked, DropLink(b)
  PROVE  EntryInv'
<1>0. /\ TypeInv /\ IsChain /\ Bitmaps /\ Entries /\ Counted /\ Purpose /\ BackLinks
      /\ pc = "unlocked" /\ type = "OPTIMISTIC" /\ killed /\ Dropped({b})
      /\ UNCHANGED <<type, dropped, rem, link, prev, num, killed, pc, op, ptr, new, live>>
  BY DEF EntryInv, DropLink, history, ReleasedLater
<1>01. live = {} /\ op = NoOp /\ op.name = "none"
  BY <1>0, NoOpFacts DEF Purpose
<1>02. Chain' = Chain /\ ~Fresh /\ ~Fresh'
  BY <1>0, ChainSame DEF Fresh
<1>03. \A c, i : ~At(c, i)
  BY <1>0, <1>01, NoEntries
<1>05. /\ occ' \in [Blocks -> SUBSET SlotsOf(0)]
       /\ \A c \in Blocks : occ'[c] = (IF c \in {b} THEN {} ELSE occ[c]) /\ occ'[c] \subseteq SlotsOf(c)
       /\ DOMAIN data' = Blocks /\ \A c \in Blocks : data'[c] \in [SlotsOf(c) -> Keys \cup {None}]
       /\ \A c \in Blocks : \A j \in SlotsOf(c) : j \in occ'[c] <=> data'[c][j] # None
  BY <1>0, DroppedFacts
<1>06. \A c, i : ~At(c, i)'
  <2>1. ASSUME NEW c, NEW i, At(c, i)' PROVE FALSE
    <3>1. On(Chain, c) /\ c \in Blocks /\ i \in Valid(c)'
      BY <1>0, <1>02, <2>1, PathFacts DEF At, IsChain
    <3>2. i \in Valid(c)
      BY <1>0, <1>05, <3>1 DEF Valid
    <3> QED BY <1>03, <3>1, <3>2 DEF At
  <2> QED BY <2>1
<1>1. TypeInv'
  BY <1>0, <1>05 DEF TypeInv
<1>2. IsChain' /\ BackLinks' /\ RemInv' /\ Chosen' /\ WalkInv'
  BY <1>0, <1>02 DEF IsChain, BackLinks, RemInv, Chosen, WalkInv, Walking
<1>3. Bitmaps'
  <2>1. \A c \in Blocks : \A j \in SlotsOf(c) : ~Written(c, j)'
    BY <1>0 DEF Written
  <2> QED BY <1>0, <1>05, <2>1 DEF Bitmaps
<1>4. Entries'
  BY <1>0, <1>01, <1>06, NoEntriesNext
<1>5. Counted' /\ Purpose' /\ Owner'
  BY <1>0, <1>01 DEF Counted, Purpose, Adding, NoOp, Owner
<1> QED BY <1>1, <1>2, <1>3, <1>4, <1>5 DEF EntryInv

\* A bucket that nobody uses is dropped with its entries.
LEMMA DropEntriesStep ==
  ASSUME EntryInv, DropEntries
  PROVE  EntryInv'
<1>0. /\ TypeInv /\ IsChain /\ Bitmaps /\ Entries /\ Counted /\ Purpose
      /\ pc = "unlocked" /\ dropped' = TRUE /\ link' = [b \in Blocks |-> 0] /\ Dropped(Blocks) /\ live' = {}
      /\ UNCHANGED <<type, rem, prev, num, killed, pc, op, ptr, new>>
  BY DEF EntryInv, DropEntries
<1>01. op = NoOp /\ op.name = "none"
  BY <1>0, NoOpFacts DEF Purpose
<1>03. /\ IsChain' /\ link' \in [Blocks -> Blocks] /\ Len(Chain') = 1
       /\ \A b : On(Chain', b) <=> b = 0
  BY <1>0, ClearedChain
<1>05. /\ occ' \in [Blocks -> SUBSET SlotsOf(0)]
       /\ \A c \in Blocks : occ'[c] = {} /\ occ'[c] \subseteq SlotsOf(c)
       /\ DOMAIN data' = Blocks /\ \A c \in Blocks : data'[c] \in [SlotsOf(c) -> Keys \cup {None}]
       /\ \A c \in Blocks : \A j \in SlotsOf(c) : j \in occ'[c] <=> data'[c][j] # None
  BY <1>0, DroppedFacts
<1>06. \A c, i : ~At(c, i)'
  BY <1>03, <1>05, Numbers DEF At, Valid
<1>07. IsFiniteSet(live') /\ live' \subseteq Keys
  BY <1>0, FS_EmptySet
<1>1. TypeInv'
  BY <1>0, <1>03, <1>05, <1>07 DEF TypeInv
<1>2. BackLinks' /\ RemInv' /\ Chosen' /\ WalkInv' /\ Counted'
  BY <1>0, <1>03 DEF BackLinks, RemInv, Chosen, WalkInv, Walking, Counted
<1>3. Bitmaps'
  <2>1. \A c \in Blocks : \A j \in SlotsOf(c) : ~Written(c, j)'
    BY <1>0 DEF Written
  <2> QED BY <1>05, <2>1 DEF Bitmaps
<1>4. Entries'
  BY <1>0, <1>06, NoEntriesNext
<1>5. Purpose' /\ Owner'
  BY <1>0, <1>01 DEF Purpose, Adding, NoOp, Owner
<1> QED BY <1>03, <1>1, <1>2, <1>3, <1>4, <1>5 DEF EntryInv

\* A new bucket is empty and has no links.
LEMMA InitEntryInv ==
  ASSUME Init
  PROVE  EntryInv
<1>0. /\ type \in Types
      /\ occ = [b \in Blocks |-> {}] /\ rem = [b \in Blocks |-> {}]
      /\ data = [b \in Blocks |-> [i \in SlotsOf(b) |-> None]]
      /\ link = [b \in Blocks |-> 0] /\ prev = [b \in Blocks |-> 0]
      /\ num = 0 /\ killed = FALSE /\ dropped = FALSE
      /\ pc = "unlocked" /\ op = NoOp
      /\ ptr = Invalid /\ new = Invalid /\ live = {}
  BY DEF Init
<1>01. link[0] = 0
  BY <1>0, Numbers
<1>02. PICK lk : lk = link
  OBVIOUS
<1>03. Path(lk, <<0>>) /\ \A b : On(<<0>>, b) <=> b = 0
  BY <1>01, <1>02, PathClear
<1>04. Chain = <<0>> /\ Len(<<0>>) = 1
  BY <1>02, <1>03, ChainIsPath
<1>05. IsFiniteSet(live) /\ Cardinality(live) = 0
  BY <1>0, FS_EmptySet
<1>06. NoOp \in [name : Names, key : Keys \cup {None}, left : SUBSET Keys]
       /\ NoOp.name = "none" /\ Invalid \in [b : Blocks, i : 0 .. BucketLen + 1]
       /\ Invalid \in [b : Blocks, i : 0 .. BucketLen]
  BY Numbers DEF NoOp, Names, Invalid
<1>07. \A b, i : ~At(b, i)
  BY <1>0, <1>03, <1>04, Numbers DEF At, Valid
<1>1. TypeInv
  <2>1. occ \in [Blocks -> SUBSET SlotsOf(0)] /\ rem \in [Blocks -> SUBSET SlotsOf(0)]
    BY <1>0
  <2>2. DOMAIN data = Blocks /\ \A b \in Blocks : data[b] \in [SlotsOf(b) -> Keys \cup {None}]
    BY <1>0
  <2>3. link \in [Blocks -> Blocks] /\ prev \in [Blocks -> Blocks] /\ \A b \in Blocks : occ[b] \subseteq SlotsOf(b)
    BY <1>0, Numbers
  <2>4. pc \in PCs /\ num \in Int /\ killed \in BOOLEAN /\ dropped \in BOOLEAN
    <3>1. killed \in BOOLEAN /\ dropped \in BOOLEAN
      BY <1>0, Zenon
    <3>2. pc \in PCs /\ num \in Int
      BY <1>0 DEF PCs
    <3> QED BY <3>1, <3>2
  <2>5. /\ op \in [name : Names, key : Keys \cup {None}, left : SUBSET Keys]
        /\ ptr \in [b : Blocks, i : 0 .. BucketLen + 1]
        /\ new \in [b : Blocks, i : 0 .. BucketLen] /\ live \subseteq Keys
    BY <1>0, <1>06
  <2> QED BY <1>0, <1>05, <2>1, <2>2, <2>3, <2>4, <2>5, Zenon DEF TypeInv
<1>2. IsChain /\ BackLinks /\ RemInv
  BY <1>0, <1>02, <1>03, <1>04 DEF IsChain, BackLinks, RemInv
<1>3. Bitmaps
  BY <1>0 DEF Bitmaps, Written
<1>4. Entries
  BY <1>0, <1>07 DEF Entries
<1>5. Counted /\ Purpose /\ Owner /\ Chosen /\ WalkInv
  BY <1>0, <1>05, <1>06 DEF Counted, Purpose, Owner, Chosen, WalkInv, Walking, Adding, WalkNames
<1> QED BY <1>1, <1>2, <1>3, <1>4, <1>5 DEF EntryInv

-----------------------------------------------------------------------------
(* The list of recently used slots                                          *)

\* The slots of the LRU list, and sequences of slots without repetitions.
S0 == SlotsOf(0)
IsList(list) == list \in [S0 -> S0 \X S0]
Distinct(s) == s \in Seq(S0) /\ \A i, j \in 1 .. Len(s) : s[i] = s[j] => i = j

\* The positions before and after position j of a circular sequence.
Nx(s, j) == IF j = Len(s) THEN 1 ELSE j + 1
Pv(s, j) == IF j = 1 THEN Len(s) ELSE j - 1

\* The list links the slots of s, in a circle.
Links(list, s) ==
  \A j \in 1 .. Len(s) : list[s[j]][1] = s[Nx(s, j)] /\ list[s[j]][2] = s[Pv(s, j)]

\* The LRU list l is the circle s.
IsRing(l, s) ==
  /\ l = [list |-> l.list, tail |-> l.tail] /\ IsList(l.list)
  /\ Links(l.list, s) /\ \A i \in S0 : ~On(s, i) => l.list[i][1] = 0 /\ l.list[i][2] = 0
  /\ l.tail = IF Len(s) = 0 THEN 0 ELSE s[Len(s)] + 1

\* The slots of the LRU list are those of the bucket.
LEMMA S0Facts == S0 = 0 .. BucketLen - 1 /\ S0 \subseteq Nat /\ 0 \in S0 /\ L!Slots0 = S0
BY SlotFacts, Numbers DEF S0, L!Slots0

\* The two numbers of a slot of the LRU list.
LEMMA PairFacts ==
  ASSUME NEW p \in S0 \X S0
  PROVE  p = <<p[1], p[2]>> /\ p[1] \in S0 /\ p[2] \in S0
         /\ \A a, b : p = <<a, b>> <=> p[1] = a /\ p[2] = b
OBVIOUS

\* The first or the second number of a slot is set.
Set1(list, i, v) == [list EXCEPT ![i][1] = v]
Set2(list, i, v) == [list EXCEPT ![i][2] = v]

\* Setting one of two numbers keeps the other.
LEMMA SetPair ==
  ASSUME NEW p \in S0 \X S0, NEW v \in S0
  PROVE  /\ [p EXCEPT ![1] = v] \in S0 \X S0 /\ [p EXCEPT ![2] = v] \in S0 \X S0
         /\ [p EXCEPT ![1] = v][1] = v /\ [p EXCEPT ![1] = v][2] = p[2]
         /\ [p EXCEPT ![2] = v][2] = v /\ [p EXCEPT ![2] = v][1] = p[1]
OBVIOUS

\* Setting one number of a slot keeps everything else in the list.
LEMMA SetFacts ==
  ASSUME NEW list, IsList(list), NEW i \in S0, NEW v \in S0
  PROVE  /\ IsList(Set1(list, i, v)) /\ IsList(Set2(list, i, v))
         /\ \A x \in S0 : /\ Set1(list, i, v)[x][1] = IF x = i THEN v ELSE list[x][1]
                          /\ Set1(list, i, v)[x][2] = list[x][2]
                          /\ Set2(list, i, v)[x][2] = IF x = i THEN v ELSE list[x][2]
                          /\ Set2(list, i, v)[x][1] = list[x][1]
<1>1. list[i] \in S0 \X S0 /\ DOMAIN list = S0 /\ \A x \in S0 : list[x] \in S0 \X S0
  BY DEF IsList
<1>2. /\ Set1(list, i, v) = [list EXCEPT ![i] = [list[i] EXCEPT ![1] = v]]
      /\ Set2(list, i, v) = [list EXCEPT ![i] = [list[i] EXCEPT ![2] = v]]
  BY DEF Set1, Set2
<1> DEFINE p == [list[i] EXCEPT ![1] = v]  q == [list[i] EXCEPT ![2] = v]
<1>3. /\ p \in S0 \X S0 /\ q \in S0 \X S0 /\ p[1] = v /\ p[2] = list[i][2]
      /\ q[2] = v /\ q[1] = list[i][1]
  BY <1>1, SetPair
<1>4. Set1(list, i, v) = [list EXCEPT ![i] = p] /\ Set2(list, i, v) = [list EXCEPT ![i] = q]
  BY <1>2
<1> HIDE DEF p, q
<1>5. IsList(Set1(list, i, v)) /\ IsList(Set2(list, i, v))
  BY <1>3, <1>4 DEF IsList
<1>6. \A x \in S0 : /\ Set1(list, i, v)[x] = IF x = i THEN p ELSE list[x]
                    /\ Set2(list, i, v)[x] = IF x = i THEN q ELSE list[x]
  BY <1>1, <1>4
<1> QED BY <1>3, <1>5, <1>6

\* A slot's pair is reset.
LEMMA ResetFacts ==
  ASSUME NEW list, IsList(list), NEW i \in S0, NEW a \in S0, NEW b \in S0
  PROVE  /\ IsList([list EXCEPT ![i] = <<a, b>>])
         /\ \A x \in S0 : /\ [list EXCEPT ![i] = <<a, b>>][x][1] = IF x = i THEN a ELSE list[x][1]
                          /\ [list EXCEPT ![i] = <<a, b>>][x][2] = IF x = i THEN b ELSE list[x][2]
<1> DEFINE p == <<a, b>>
<1>1. p \in S0 \X S0 /\ p[1] = a /\ p[2] = b
  OBVIOUS
<1> HIDE DEF p
<1>2. IsList([list EXCEPT ![i] = p])
  BY <1>1 DEF IsList
<1>3. \A x \in S0 : [list EXCEPT ![i] = p][x] = IF x = i THEN p ELSE list[x]
  BY DEF IsList
<1> QED BY <1>1, <1>2, <1>3 DEF p

\* Two slots make a pair of the list.
LEMMA MakePair ==
  ASSUME NEW a \in S0, NEW b \in S0, NEW p, p = <<a, b>>
  PROVE  p \in S0 \X S0 /\ p[1] = a /\ p[2] = b
OBVIOUS

\* The neighbours of a position of a circular sequence are positions of it.
LEMMA StepsOnRing ==
  ASSUME NEW s, Len(s) \in Nat, NEW j \in 1 .. Len(s)
  PROVE  Nx(s, j) \in 1 .. Len(s) /\ Pv(s, j) \in 1 .. Len(s)
<1> DEFINE n == Len(s)
<1>1. n \in Nat /\ j \in 1 .. n
  OBVIOUS
<1>2. Nx(s, j) = (IF j = n THEN 1 ELSE j + 1) /\ Pv(s, j) = (IF j = 1 THEN n ELSE j - 1)
  BY DEF Nx, Pv
<1> HIDE DEF n
<1>3. Nx(s, j) \in 1 .. n /\ Pv(s, j) \in 1 .. n
  BY <1>1, <1>2
<1> QED BY <1>3 DEF n

\* Ring gives the ring, and it is the only one.
LEMMA RingIs ==
  ASSUME NEW s, Distinct(s)
  PROVE  /\ IsRing(L!Ring(s), s)
         /\ \A l : IsRing(l, s) => l = L!Ring(s)
<1> DEFINE n == Len(s)
           g == [i \in S0 |->
                  IF \E j \in 1 .. n : s[j] = i
                  THEN LET j == CHOOSE j \in 1 .. n : s[j] = i
                       IN <<s[IF j = n THEN 1 ELSE j + 1], s[IF j = 1 THEN n ELSE j - 1]>>
                  ELSE <<0, 0>>]
           t == IF n = 0 THEN 0 ELSE s[n] + 1
<1>1. /\ n \in Nat /\ \A j \in 1 .. n : s[j] \in S0
      /\ \A i, j \in 1 .. n : s[i] = s[j] => i = j
  BY DEF Distinct
<1>2. L!Ring(s) = [list |-> g, tail |-> t]
  BY S0Facts DEF L!Ring
<1>3. ASSUME NEW j \in 1 .. n PROVE g[s[j]] = <<s[Nx(s, j)], s[Pv(s, j)]>>
  <2>1. (CHOOSE i \in 1 .. n : s[i] = s[j]) = j
    BY <1>1
  <2>2. s[j] \in S0 /\ (\E i \in 1 .. n : s[i] = s[j])
    BY <1>1
  <2> DEFINE c(i) == CHOOSE m \in 1 .. n : s[m] = i
             q(m) == <<s[IF m = n THEN 1 ELSE m + 1], s[IF m = 1 THEN n ELSE m - 1]>>
  <2>3. \A i \in S0 : (\E m \in 1 .. n : s[m] = i) => g[i] = q(c(i))
    OBVIOUS
  <2>4. g[s[j]] = q(c(s[j])) /\ c(s[j]) = j
    BY <2>1, <2>2, <2>3, Zenon
  <2>5. q(j) = <<s[Nx(s, j)], s[Pv(s, j)]>>
    BY Zenon DEF Nx, Pv
  <2> HIDE DEF g, c, q
  <2> QED BY <2>4, <2>5
<1>4. ASSUME NEW i \in S0, ~On(s, i) PROVE g[i] = <<0, 0>>
  <2>1. ~ \E j \in 1 .. n : s[j] = i
    BY <1>4 DEF On
  <2> QED BY <2>1, Zenon
<1> HIDE DEF g
<1>5. \A j \in 1 .. n : Nx(s, j) \in 1 .. n /\ Pv(s, j) \in 1 .. n
  BY <1>1, StepsOnRing
<1>55. ASSUME NEW j \in 1 .. n
       PROVE  /\ g[s[j]] \in S0 \X S0
              /\ g[s[j]][1] = s[Nx(s, j)] /\ g[s[j]][2] = s[Pv(s, j)]
  <2>1. s[Nx(s, j)] \in S0 /\ s[Pv(s, j)] \in S0
    BY <1>1, <1>5
  <2>2. PICK a \in S0, b \in S0 : a = s[Nx(s, j)] /\ b = s[Pv(s, j)]
    BY <2>1
  <2>3. g[s[j]] = <<a, b>>
    BY <1>3, <2>2, Zenon
  <2> QED BY <2>2, <2>3, MakePair
<1>56. ASSUME NEW i \in S0, ~On(s, i)
       PROVE  g[i] \in S0 \X S0 /\ g[i][1] = 0 /\ g[i][2] = 0
  BY <1>4, <1>56, S0Facts, MakePair
<1>6. ASSUME NEW i \in S0 PROVE g[i] \in S0 \X S0
  <2>1. CASE On(s, i)
    <3>1. PICK j \in 1 .. n : s[j] = i
      BY <2>1 DEF On
    <3> QED BY <1>55, <3>1
  <2>2. CASE ~On(s, i)
    BY <1>56, <2>2
  <2> QED BY <2>1, <2>2
<1>7. IsList(g)
  <2>1. g = [i \in S0 |-> g[i]]
    BY DEF g
  <2> QED BY <1>6, <2>1 DEF IsList
<1>8. Links(g, s)
  BY <1>55, Zenon DEF Links
<1>9. \A i \in S0 : ~On(s, i) => g[i][1] = 0 /\ g[i][2] = 0
  BY <1>56
<1>10. PICK r : r = L!Ring(s)
  OBVIOUS
<1>11. r.list = g /\ r.tail = t /\ r = [list |-> r.list, tail |-> r.tail]
  BY <1>2, <1>10
<1>12. IsRing(r, s)
  BY <1>7, <1>8, <1>9, <1>11 DEF IsRing
<1>13. ASSUME NEW l, IsRing(l, s) PROVE l = r
  <2>1. /\ l = [list |-> l.list, tail |-> l.tail] /\ IsList(l.list) /\ Links(l.list, s)
        /\ (\A i \in S0 : ~On(s, i) => l.list[i][1] = 0 /\ l.list[i][2] = 0) /\ l.tail = t
    BY <1>13 DEF IsRing
  <2>2. ASSUME NEW i \in S0 PROVE l.list[i] = g[i]
    <3>1. l.list[i] \in S0 \X S0 /\ g[i] \in S0 \X S0
      BY <1>6, <2>1 DEF IsList
    <3>2. CASE On(s, i)
      <4>1. PICK j \in 1 .. n : s[j] = i
        BY <3>2 DEF On
      <4>2. l.list[i][1] = g[i][1] /\ l.list[i][2] = g[i][2]
        BY <1>8, <2>1, <4>1 DEF Links
      <4> QED BY <3>1, <4>2
    <3>3. CASE ~On(s, i)
      <4>1. l.list[i][1] = g[i][1] /\ l.list[i][2] = g[i][2]
        BY <1>9, <2>1, <3>3
      <4> QED BY <3>1, <4>1
    <3> QED BY <3>2, <3>3
  <2>3. l.list = g
    BY <1>7, <2>1, <2>2 DEF IsList
  <2> QED BY <1>11, <2>1, <2>3
<1> QED BY <1>10, <1>12, <1>13

\* A sequence without its element at position p.
Cut(s, p) == [j \in 1 .. Len(s) - 1 |-> IF j < p THEN s[j] ELSE s[j + 1]]

\* Taking an element out of a sequence without repetitions.
LEMMA CutFacts ==
  ASSUME NEW s, Distinct(s), NEW p \in 1 .. Len(s)
  PROVE  /\ Distinct(Cut(s, p)) /\ Len(Cut(s, p)) = Len(s) - 1
         /\ \A j \in 1 .. Len(s) - 1 : Cut(s, p)[j] = IF j < p THEN s[j] ELSE s[j + 1]
         /\ \A i : On(Cut(s, p), i) <=> On(s, i) /\ i # s[p]
<1> DEFINE n == Len(s)  W == Cut(s, p)
<1>1. /\ n \in Nat /\ p \in 1 .. n /\ n - 1 \in Nat /\ (\A j \in 1 .. n : s[j] \in S0)
      /\ \A i, j \in 1 .. n : s[i] = s[j] => i = j
  BY DEF Distinct
<1>2. W = [j \in 1 .. n - 1 |-> IF j < p THEN s[j] ELSE s[j + 1]]
  BY DEF Cut
<1> HIDE DEF n, W
<1>3. \A j \in 1 .. n - 1 : W[j] = IF j < p THEN s[j] ELSE s[j + 1]
  BY <1>2
<1>4. \A j \in 1 .. n - 1 : W[j] \in S0
  BY <1>1, <1>3
<1>5. W \in [1 .. n - 1 -> S0]
  BY <1>2, <1>4
<1>6. W \in Seq(S0) /\ Len(W) = n - 1
  BY <1>1, <1>5
<1>7. ASSUME NEW i \in 1 .. n - 1, NEW j \in 1 .. n - 1, W[i] = W[j] PROVE i = j
  <2> DEFINE di == IF i < p THEN i ELSE i + 1  dj == IF j < p THEN j ELSE j + 1
  <2>1. di \in 1 .. n /\ dj \in 1 .. n /\ s[di] = s[dj]
    BY <1>1, <1>3, <1>7
  <2>2. di = dj
    BY <1>1, <2>1
  <2> QED BY <1>1, <2>2
<1>8. Distinct(W)
  BY <1>6, <1>7 DEF Distinct
<1>9. ASSUME NEW i, On(W, i) PROVE On(s, i) /\ i # s[p]
  <2>1. PICK j \in 1 .. n - 1 : W[j] = i
    BY <1>6, <1>9 DEF On
  <2> DEFINE dj == IF j < p THEN j ELSE j + 1
  <2>2. dj \in 1 .. n /\ s[dj] = i /\ dj # p
    BY <1>1, <1>3, <2>1
  <2> HIDE DEF dj
  <2> QED BY <1>1, <2>2 DEF On, n
<1>10. ASSUME NEW i, On(s, i), i # s[p] PROVE On(W, i)
  <2>1. PICK j \in 1 .. n : s[j] = i
    BY <1>10 DEF On, n
  <2> DEFINE dj == IF j < p THEN j ELSE j - 1
  <2>2. dj \in 1 .. n - 1 /\ (IF dj < p THEN dj ELSE dj + 1) = j
    BY <1>1, <1>10, <2>1
  <2> HIDE DEF dj
  <2>3. W[dj] = i
    BY <1>3, <2>1, <2>2
  <2> QED BY <1>6, <2>2, <2>3 DEF On
<1> QED BY <1>3, <1>6, <1>8, <1>9, <1>10 DEF n, W

\* Tail takes the first element out.
LEMMA TailIsCut ==
  ASSUME NEW s, Distinct(s), s # <<>>
  PROVE  Len(s) >= 1 /\ Tail(s) = Cut(s, 1)
<1>1. Len(s) \in Nat /\ Len(s) >= 1 /\ s \in Seq(S0)
  BY DEF Distinct
<1>2. Tail(s) = [j \in 1 .. Len(s) - 1 |-> s[j + 1]]
  <2>1. /\ Tail(s) \in Seq(S0) /\ Len(Tail(s)) = Len(s) - 1
        /\ \A i \in 1 .. Len(Tail(s)) : Tail(s)[i] = s[i + 1]
    BY <1>1, HeadTailProperties
  <2>2. PICK t : t = Tail(s)
    OBVIOUS
  <2>3. t \in Seq(S0) /\ Len(t) = Len(s) - 1 /\ \A i \in 1 .. Len(t) : t[i] = s[i + 1]
    BY <2>1, <2>2, Zenon
  <2>4. t = [j \in 1 .. Len(s) - 1 |-> s[j + 1]]
    BY <2>3
  <2> QED BY <2>2, <2>4
<1>3. Cut(s, 1) = [j \in 1 .. Len(s) - 1 |-> s[j + 1]]
  <2>1. \A j \in 1 .. Len(s) - 1 : ~ (j < 1)
    BY <1>1
  <2> QED BY <2>1 DEF Cut
<1> QED BY <1>1, <1>2, <1>3

\* Without takes the element out where it is.
LEMMA WithoutIs ==
  ASSUME NEW s, Distinct(s), NEW e
  PROVE  /\ ~On(s, e) => Without(s, e) = s
         /\ \A p \in 1 .. Len(s) : s[p] = e => Without(s, e) = Cut(s, p)
<1>1. /\ DOMAIN s = 1 .. Len(s) /\ Len(s) \in Nat
      /\ \A i, j \in 1 .. Len(s) : s[i] = s[j] => i = j
  BY DEF Distinct
<1>2. e \in ToSet(s) <=> On(s, e)
  BY <1>1 DEF ToSet, On
<1>3. ASSUME NEW p \in 1 .. Len(s), s[p] = e PROVE Without(s, e) = Cut(s, p)
  <2>1. {j \in DOMAIN s : s[j] = e} = {p}
    BY <1>1, <1>3
  <2>2. Min({p}) = p
    BY MinIsLeast
  <2>3. e \in ToSet(s)
    BY <1>2, <1>3 DEF On
  <2>4. Without(s, e) = [j \in 1 .. Len(s) - 1 |-> IF j < p THEN s[j] ELSE s[j + 1]]
    BY <2>1, <2>2, <2>3 DEF Without
  <2> QED BY <2>4 DEF Cut
<1>4. ~On(s, e) => Without(s, e) = s
  BY <1>2 DEF Without
<1> QED BY <1>3, <1>4

\* Appending a new element to a sequence without repetitions.
LEMMA AppendFacts ==
  ASSUME NEW s, Distinct(s), NEW e \in S0, ~On(s, e)
  PROVE  /\ Distinct(Append(s, e)) /\ Len(Append(s, e)) = Len(s) + 1
         /\ \A j \in 1 .. Len(s) : Append(s, e)[j] = s[j]
         /\ Append(s, e)[Len(s) + 1] = e
         /\ \A i : On(Append(s, e), i) <=> On(s, i) \/ i = e
<1> DEFINE n == Len(s)  A == Append(s, e)
<1>1. /\ n \in Nat /\ s \in Seq(S0) /\ (\A j \in 1 .. n : s[j] \in S0)
      /\ \A i, j \in 1 .. n : s[i] = s[j] => i = j
  BY DEF Distinct
<1>2. /\ A \in Seq(S0) /\ Len(A) = n + 1 /\ A[n + 1] = e
      /\ \A j \in 1 .. n : A[j] = s[j]
  BY <1>1
<1>3. \A j \in 1 .. n : s[j] # e
  BY DEF On
<1> HIDE DEF n, A
<1>4. ASSUME NEW i \in 1 .. n + 1, NEW j \in 1 .. n + 1, A[i] = A[j] PROVE i = j
  BY <1>1, <1>2, <1>3, <1>4
<1>5. Distinct(A)
  BY <1>2, <1>4 DEF Distinct
<1>6. ASSUME NEW i PROVE On(A, i) <=> On(s, i) \/ i = e
  <2>1. \A j \in 1 .. n + 1 : j \in 1 .. n \/ j = n + 1
    BY <1>1
  <2>2. n + 1 \in 1 .. n + 1 /\ \A j \in 1 .. n : j \in 1 .. n + 1
    BY <1>1
  <2> QED BY <1>2, <2>1, <2>2 DEF On, n
<1> QED BY <1>2, <1>5, <1>6 DEF n, A

\* The neighbours of a position after another has been taken out.
LEMMA CutSteps ==
  ASSUME NEW n \in Nat, n >= 2, NEW p \in 1 .. n, NEW j \in 1 .. n - 1,
         NEW q, q = (IF j < p THEN j ELSE j + 1),
         NEW a, a = (IF j = n - 1 THEN 1 ELSE j + 1),
         NEW b, b = (IF j = 1 THEN n - 1 ELSE j - 1),
         NEW qa, qa = (IF q = n THEN 1 ELSE q + 1),
         NEW qb, qb = (IF q = 1 THEN n ELSE q - 1),
         NEW pa, pa = (IF p = n THEN 1 ELSE p + 1),
         NEW pb, pb = (IF p = 1 THEN n ELSE p - 1)
  PROVE  /\ q \in 1 .. n /\ q # p /\ a \in 1 .. n - 1 /\ b \in 1 .. n - 1
         /\ pa \in 1 .. n /\ pb \in 1 .. n /\ pa # p /\ pb # p
         /\ qa \in 1 .. n /\ qb \in 1 .. n
         /\ (IF a < p THEN a ELSE a + 1) = (IF q = pb THEN pa ELSE qa)
         /\ (IF b < p THEN b ELSE b + 1) = (IF q = pa THEN pb ELSE qb)
OBVIOUS

\* Linking the neighbours of a slot with each other takes it out of the circle.
LEMMA RingRemove ==
  ASSUME NEW s, Distinct(s), Len(s) >= 2, NEW p \in 1 .. Len(s),
         NEW list, Links(list, s), NEW list2,
         \A x \in S0 : x # s[p] =>
           /\ list2[x][1] = IF x = s[Pv(s, p)] THEN s[Nx(s, p)] ELSE list[x][1]
           /\ list2[x][2] = IF x = s[Nx(s, p)] THEN s[Pv(s, p)] ELSE list[x][2]
  PROVE  Links(list2, Cut(s, p))
<1> DEFINE n == Len(s)  W == Cut(s, p)  D(j) == IF j < p THEN j ELSE j + 1
           pa == Nx(s, p)  pb == Pv(s, p)
<1>1. /\ n \in Nat /\ n >= 2 /\ p \in 1 .. n /\ (\A j \in 1 .. n : s[j] \in S0)
      /\ \A i, j \in 1 .. n : s[i] = s[j] => i = j
  BY DEF Distinct
<1>2. /\ Len(W) = n - 1 /\ \A j \in 1 .. n - 1 : W[j] = s[D(j)]
  BY CutFacts
<1>3. pa = (IF p = n THEN 1 ELSE p + 1) /\ pb = (IF p = 1 THEN n ELSE p - 1)
  BY DEF Nx, Pv
<1>4. \A x \in S0 : x # s[p] =>
           /\ list2[x][1] = IF x = s[pb] THEN s[pa] ELSE list[x][1]
           /\ list2[x][2] = IF x = s[pa] THEN s[pb] ELSE list[x][2]
  OBVIOUS
<1>5. \A j \in 1 .. n : list[s[j]][1] = s[Nx(s, j)] /\ list[s[j]][2] = s[Pv(s, j)]
  BY DEF Links
<1> SUFFICES ASSUME NEW j \in 1 .. n - 1
             PROVE  list2[W[j]][1] = W[Nx(W, j)] /\ list2[W[j]][2] = W[Pv(W, j)]
  BY <1>2 DEF Links
<1> DEFINE q == D(j)  a == Nx(W, j)  b == Pv(W, j)  qa == Nx(s, q)  qb == Pv(s, q)
<1>6. /\ q = (IF j < p THEN j ELSE j + 1)
      /\ a = (IF j = n - 1 THEN 1 ELSE j + 1)
      /\ b = (IF j = 1 THEN n - 1 ELSE j - 1)
      /\ qa = (IF q = n THEN 1 ELSE q + 1)
      /\ qb = (IF q = 1 THEN n ELSE q - 1)
      /\ D(a) = (IF a < p THEN a ELSE a + 1)
      /\ D(b) = (IF b < p THEN b ELSE b + 1)
  BY <1>2 DEF Nx, Pv
<1>7. (W[j] = s[q] /\ list[s[q]][1] = s[qa] /\ list[s[q]][2] = s[qb]) \/ q \notin 1 .. n
  BY <1>2, <1>5
<1> HIDE DEF n, pa, pb, q, a, b, qa, qb, W, D
<1>8. /\ q \in 1 .. n /\ q # p /\ a \in 1 .. n - 1 /\ b \in 1 .. n - 1
      /\ pa \in 1 .. n /\ pb \in 1 .. n /\ pa # p /\ pb # p
      /\ qa \in 1 .. n /\ qb \in 1 .. n
      /\ D(a) = (IF q = pb THEN pa ELSE qa)
      /\ D(b) = (IF q = pa THEN pb ELSE qb)
  BY <1>1, <1>3, <1>6, CutSteps
<1>9. s[q] \in S0 /\ s[q] # s[p]
  BY <1>1, <1>8
<1>10. (s[q] = s[pb] <=> q = pb) /\ (s[q] = s[pa] <=> q = pa)
  BY <1>1, <1>8
<1>11. list2[s[q]][1] = (IF q = pb THEN s[pa] ELSE s[qa])
  BY <1>4, <1>7, <1>8, <1>9, <1>10
<1>12. list2[s[q]][2] = (IF q = pa THEN s[pb] ELSE s[qb])
  BY <1>4, <1>7, <1>8, <1>9, <1>10
<1>13. W[a] = s[D(a)] /\ W[b] = s[D(b)] /\ W[j] = s[q]
  BY <1>2, <1>7, <1>8
<1>14. list2[W[j]][1] = W[a] /\ list2[W[j]][2] = W[b]
  BY <1>8, <1>11, <1>12, <1>13
<1> QED BY <1>14 DEF a, b, W

\* The neighbours of a position after one has been appended.
LEMMA AppendSteps ==
  ASSUME NEW m \in Nat, m >= 1, NEW j \in 1 .. m,
         NEW a, a = (IF j = m + 1 THEN 1 ELSE j + 1),
         NEW b, b = (IF j = 1 THEN m + 1 ELSE j - 1),
         NEW ja, ja = (IF j = m THEN 1 ELSE j + 1),
         NEW jb, jb = (IF j = 1 THEN m ELSE j - 1)
  PROVE  /\ a = (IF j = m THEN m + 1 ELSE ja) /\ b = (IF j = 1 THEN m + 1 ELSE jb)
         /\ ja \in 1 .. m /\ jb \in 1 .. m
OBVIOUS

\* Linking a slot between the last and the first makes it the last of the
\* circle.
LEMMA RingAppend ==
  ASSUME NEW s, Distinct(s), Len(s) >= 1, NEW e \in S0, ~On(s, e),
         NEW list, Links(list, s), NEW list2,
         \A x \in S0 :
           /\ list2[x][1] = IF x = e THEN s[1] ELSE IF x = s[Len(s)] THEN e ELSE list[x][1]
           /\ list2[x][2] = IF x = e THEN s[Len(s)] ELSE IF x = s[1] THEN e ELSE list[x][2]
  PROVE  Links(list2, Append(s, e))
<1> DEFINE m == Len(s)  A == Append(s, e)
<1>1. /\ m \in Nat /\ m >= 1 /\ (\A j \in 1 .. m : s[j] \in S0)
      /\ \A i, j \in 1 .. m : s[i] = s[j] => i = j
  BY DEF Distinct
<1>2. /\ Len(A) = m + 1 /\ A[m + 1] = e /\ \A j \in 1 .. m : A[j] = s[j]
  BY AppendFacts
<1>3. \A j \in 1 .. m : s[j] # e
  BY DEF On
<1>4. \A j \in 1 .. m : list[s[j]][1] = s[Nx(s, j)] /\ list[s[j]][2] = s[Pv(s, j)]
  BY DEF Links
<1>5. \A x \in S0 :
        /\ list2[x][1] = IF x = e THEN s[1] ELSE IF x = s[m] THEN e ELSE list[x][1]
        /\ list2[x][2] = IF x = e THEN s[m] ELSE IF x = s[1] THEN e ELSE list[x][2]
  OBVIOUS
<1> SUFFICES ASSUME NEW j \in 1 .. m + 1
             PROVE  list2[A[j]][1] = A[Nx(A, j)] /\ list2[A[j]][2] = A[Pv(A, j)]
  BY <1>2 DEF Links
<1> DEFINE a == Nx(A, j)  b == Pv(A, j)  ja == Nx(s, j)  jb == Pv(s, j)
<1>6. /\ a = (IF j = m + 1 THEN 1 ELSE j + 1) /\ b = (IF j = 1 THEN m + 1 ELSE j - 1)
      /\ ja = (IF j = m THEN 1 ELSE j + 1) /\ jb = (IF j = 1 THEN m ELSE j - 1)
  BY <1>2 DEF Nx, Pv
<1>7. j \in 1 .. m => list[s[j]][1] = s[ja] /\ list[s[j]][2] = s[jb]
  BY <1>4
<1> HIDE DEF m, A, a, b, ja, jb
<1>8. CASE j = m + 1
  <2>1. a = 1 /\ b = m /\ A[j] = e /\ 1 \in 1 .. m /\ m \in 1 .. m
    BY <1>1, <1>2, <1>6, <1>8
  <2>2. A[a] = s[1] /\ A[b] = s[m] /\ list2[A[j]][1] = s[1] /\ list2[A[j]][2] = s[m]
    BY <1>2, <1>5, <2>1
  <2> QED BY <2>2 DEF a, b
<1>9. CASE j # m + 1
  <2>1. j \in 1 .. m /\ 1 \in 1 .. m /\ m \in 1 .. m
    BY <1>1, <1>9
  <2>2. /\ a = (IF j = m THEN m + 1 ELSE ja) /\ b = (IF j = 1 THEN m + 1 ELSE jb)
        /\ ja \in 1 .. m /\ jb \in 1 .. m
    BY <1>1, <1>6, <2>1, AppendSteps
  <2>3. A[j] = s[j] /\ s[j] \in S0 /\ s[j] # e /\ A[ja] = s[ja] /\ A[jb] = s[jb]
    BY <1>1, <1>2, <1>3, <2>1, <2>2
  <2>4. (s[j] = s[m] <=> j = m) /\ (s[j] = s[1] <=> j = 1)
    BY <1>1, <2>1
  <2>5. list2[s[j]][1] = (IF j = m THEN e ELSE s[ja])
    BY <1>5, <1>7, <2>1, <2>3, <2>4
  <2>6. list2[s[j]][2] = (IF j = 1 THEN e ELSE s[jb])
    BY <1>5, <1>7, <2>1, <2>3, <2>4
  <2>7. list2[A[j]][1] = A[a] /\ list2[A[j]][2] = A[b]
    BY <1>2, <2>2, <2>3, <2>5, <2>6
  <2> QED BY <2>7 DEF a, b
<1> QED BY <1>8, <1>9

\* What a ring says of its slots.
LEMMA RingFacts ==
  ASSUME NEW l, NEW s, IsRing(l, s), Distinct(s)
  PROVE  /\ Len(s) \in Nat /\ (\A j \in 1 .. Len(s) : s[j] \in S0 /\ On(s, s[j]))
         /\ (\A i, j \in 1 .. Len(s) : s[i] = s[j] => i = j)
         /\ (\A j \in 1 .. Len(s) : /\ Nx(s, j) \in 1 .. Len(s) /\ Pv(s, j) \in 1 .. Len(s)
                                    /\ l.list[s[j]][1] = s[Nx(s, j)]
                                    /\ l.list[s[j]][2] = s[Pv(s, j)])
         /\ (\A i \in S0 : ~On(s, i) => l.list[i][1] = 0 /\ l.list[i][2] = 0)
         /\ IsList(l.list)
         /\ l.tail = (IF Len(s) = 0 THEN 0 ELSE s[Len(s)] + 1)
         /\ (Len(s) = 0 <=> l.tail = 0)
         /\ (Len(s) # 0 => l.tail - 1 = s[Len(s)] /\ Len(s) \in 1 .. Len(s) /\ 1 \in 1 .. Len(s))
         /\ Nx(s, Len(s)) = 1
<1>1. Len(s) \in Nat /\ (\A j \in 1 .. Len(s) : s[j] \in S0)
      /\ (\A i, j \in 1 .. Len(s) : s[i] = s[j] => i = j)
  BY DEF Distinct
<1>2. \A j \in 1 .. Len(s) : On(s, s[j])
  BY DEF On
<1>3. \A j \in 1 .. Len(s) : /\ Nx(s, j) \in 1 .. Len(s) /\ Pv(s, j) \in 1 .. Len(s)
                             /\ l.list[s[j]][1] = s[Nx(s, j)]
                             /\ l.list[s[j]][2] = s[Pv(s, j)]
  BY <1>1, StepsOnRing DEF IsRing, Links
<1>4. /\ (\A i \in S0 : ~On(s, i) => l.list[i][1] = 0 /\ l.list[i][2] = 0)
      /\ IsList(l.list) /\ l.tail = (IF Len(s) = 0 THEN 0 ELSE s[Len(s)] + 1)
  BY DEF IsRing
<1>5. Len(s) # 0 => Len(s) \in 1 .. Len(s) /\ 1 \in 1 .. Len(s) /\ s[Len(s)] \in Nat
  BY <1>1, S0Facts
<1>6. /\ (Len(s) = 0 <=> l.tail = 0)
      /\ (Len(s) # 0 => l.tail - 1 = s[Len(s)])
  BY <1>4, <1>5
<1>7. Nx(s, Len(s)) = 1
  BY DEF Nx
<1> QED BY <1>1, <1>2, <1>3, <1>4, <1>5, <1>6, <1>7

\* The neighbours of a position in circles of one, two and more elements.
LEMMA NeighbourFacts ==
  ASSUME NEW s, Len(s) \in Nat, NEW p \in 1 .. Len(s)
  PROVE  /\ Nx(s, p) = p => Len(s) = 1
         /\ Pv(s, p) = p => Len(s) = 1
         /\ Len(s) = 1 => Nx(s, p) = p /\ Pv(s, p) = p /\ p = 1
         /\ Nx(s, p) = Pv(s, p) => Len(s) <= 2
         /\ Len(s) = 2 => Nx(s, p) = (IF p = 1 THEN 2 ELSE 1) /\ Pv(s, p) = Nx(s, p)
         /\ p = Len(s) => Nx(s, p) = 1
         /\ p = 1 => Pv(s, p) = Len(s)
         /\ p = Len(s) /\ Len(s) >= 2 => Pv(s, p) = Len(s) - 1
<1> DEFINE n == Len(s)
<1>1. Nx(s, p) = (IF p = n THEN 1 ELSE p + 1) /\ Pv(s, p) = (IF p = 1 THEN n ELSE p - 1)
  BY DEF Nx, Pv
<1>2. n \in Nat /\ p \in 1 .. n
  OBVIOUS
<1> HIDE DEF n
<1>3. /\ Nx(s, p) = p => n = 1
      /\ Pv(s, p) = p => n = 1
      /\ n = 1 => Nx(s, p) = p /\ Pv(s, p) = p /\ p = 1
      /\ Nx(s, p) = Pv(s, p) => n <= 2
      /\ n = 2 => Nx(s, p) = (IF p = 1 THEN 2 ELSE 1) /\ Pv(s, p) = Nx(s, p)
      /\ p = n => Nx(s, p) = 1
      /\ p = 1 => Pv(s, p) = n
      /\ p = n /\ n >= 2 => Pv(s, p) = n - 1
  BY <1>1, <1>2
<1> QED BY <1>3 DEF n

\* A slot's pair is <<a, b>>.
LEMMA PairIs ==
  ASSUME NEW list, IsList(list), NEW i \in S0, NEW a, NEW b
  PROVE  list[i] = <<a, b>> <=> list[i][1] = a /\ list[i][2] = b
<1>1. list[i] \in S0 \X S0
  BY DEF IsList
<1>2. PICK p \in S0 \X S0 : p = list[i]
  BY <1>1
<1>3. p = <<a, b>> <=> p[1] = a /\ p[2] = b
  BY PairFacts
<1> QED BY <1>2, <1>3

\* A slot is taken out of a list: the slots around it are linked, its pair is reset.
CutOut(list, old, s, p) ==
  \A x \in S0 :
    /\ list[x][1] = IF x = s[p] THEN 0
                    ELSE IF x = s[Pv(s, p)] THEN s[Nx(s, p)] ELSE old[x][1]
    /\ list[x][2] = IF x = s[p] THEN 0
                    ELSE IF x = s[Nx(s, p)] THEN s[Pv(s, p)] ELSE old[x][2]

\* The tail of the list, plus one, once position p has been taken out.
TailLeft(s, p) == s[IF p = Len(s) THEN Len(s) - 1 ELSE Len(s)] + 1

\* What is left is a ring.
LEMMA CutRing ==
  ASSUME NEW l, NEW s, IsRing(l, s), Distinct(s), Len(s) >= 2, NEW p \in 1 .. Len(s),
         NEW list, IsList(list), CutOut(list, l.list, s, p),
         NEW tail, tail = TailLeft(s, p)
  PROVE  IsRing([list |-> list, tail |-> tail], Cut(s, p))
<1> DEFINE W == Cut(s, p)
<1>1. PICK r : r = [list |-> list, tail |-> tail]
  OBVIOUS
<1>2. r.list = list /\ r.tail = tail /\ r = [list |-> r.list, tail |-> r.tail]
  BY <1>1
<1>3. /\ Distinct(W) /\ Len(W) = Len(s) - 1
      /\ (\A j \in 1 .. Len(s) - 1 : W[j] = IF j < p THEN s[j] ELSE s[j + 1])
      /\ \A i : On(W, i) <=> On(s, i) /\ i # s[p]
  BY CutFacts
<1>4. Links(list, W)
  <2>1. Links(l.list, s)
    BY DEF IsRing
  <2>2. \A x \in S0 : x # s[p] =>
           /\ list[x][1] = IF x = s[Pv(s, p)] THEN s[Nx(s, p)] ELSE l.list[x][1]
           /\ list[x][2] = IF x = s[Nx(s, p)] THEN s[Pv(s, p)] ELSE l.list[x][2]
    BY DEF CutOut
  <2> QED BY <2>1, <2>2, RingRemove
<1>5. ASSUME NEW i \in S0, ~On(W, i) PROVE list[i][1] = 0 /\ list[i][2] = 0
  <2>1. i = s[p] \/ ~On(s, i)
    BY <1>3, <1>5
  <2>2. On(s, s[Pv(s, p)]) /\ On(s, s[Nx(s, p)])
    BY RingFacts
  <2>3. ~On(s, i) => l.list[i][1] = 0 /\ l.list[i][2] = 0
    BY RingFacts
  <2> QED BY <2>1, <2>2, <2>3 DEF CutOut
<1>6. Len(W) # 0 /\ tail = W[Len(W)] + 1
  <2> DEFINE n == Len(s)
  <2>1. n \in Nat /\ n >= 2 /\ p \in 1 .. n
    BY RingFacts
  <2>2. tail = s[IF p = n THEN n - 1 ELSE n] + 1
    BY DEF TailLeft
  <2>3. Len(W) = n - 1 /\ W[n - 1] = IF n - 1 < p THEN s[n - 1] ELSE s[n - 1 + 1]
    BY <1>3, <2>1
  <2> HIDE DEF n, W
  <2>4. Len(W) # 0 /\ n - 1 + 1 = n /\ (n - 1 < p <=> p = n)
    BY <2>1, <2>3
  <2> QED BY <2>2, <2>3, <2>4
<1> HIDE DEF W
<1>7. IsRing(r, W)
  BY <1>2, <1>4, <1>5, <1>6 DEF IsRing
<1> QED BY <1>1, <1>7 DEF W

\* A ring of one slot loses it.
LEMMA LastRing ==
  ASSUME NEW l, NEW s, IsRing(l, s), Distinct(s), Len(s) = 1
  PROVE  IsRing([list |-> [l.list EXCEPT ![s[1]] = <<0, 0>>], tail |-> 0], Cut(s, 1))
<1> DEFINE W == Cut(s, 1)  list == [l.list EXCEPT ![s[1]] = <<0, 0>>]
<1>1. /\ Distinct(W) /\ Len(W) = 0 /\ \A i : On(W, i) <=> On(s, i) /\ i # s[1]
  BY CutFacts
<1>2. s[1] \in S0 /\ IsList(l.list)
  BY RingFacts
<1>3. IsList(list) /\ \A x \in S0 : /\ list[x][1] = IF x = s[1] THEN 0 ELSE l.list[x][1]
                                    /\ list[x][2] = IF x = s[1] THEN 0 ELSE l.list[x][2]
  BY <1>2, ResetFacts, S0Facts
<1>4. \A i \in S0 : ~On(W, i) => list[i][1] = 0 /\ list[i][2] = 0
  BY <1>1, <1>3, RingFacts
<1>5. PICK r : r = [list |-> list, tail |-> 0]
  OBVIOUS
<1> HIDE DEF list, W
<1>6. r.list = list /\ r.tail = 0 /\ r = [list |-> r.list, tail |-> r.tail]
  BY <1>5
<1>7. Links(r.list, W)
  BY <1>1 DEF Links
<1>8. IsRing(r, W)
  BY <1>1, <1>3, <1>4, <1>6, <1>7 DEF IsRing
<1> QED BY <1>5, <1>8 DEF list, W

\* evict takes the slot used least recently.
LEMMA EvictRing ==
  ASSUME NEW l, NEW s, IsRing(l, s), Distinct(s), s # <<>>
  PROVE  L!Lru(l) = s[1] /\ IsRing(L!Evict(l), Tail(s))
<1>1. Len(s) >= 1 /\ Tail(s) = Cut(s, 1) /\ Len(s) \in Nat
  BY TailIsCut, RingFacts
<1>2. 1 \in 1 .. Len(s) /\ Len(s) \in 1 .. Len(s) /\ Len(s) # 0
  BY <1>1
<1>3. Pv(s, 1) = Len(s) /\ Nx(s, Len(s)) = 1
  BY <1>1, <1>2, NeighbourFacts
<1>4. Nx(s, 1) \in 1 .. Len(s)
  BY <1>1, <1>2, StepsOnRing
<1>5. PICK m : m = l.list
  OBVIOUS
<1>6. IsList(m)
  BY <1>5, RingFacts
<1>7. s[1] \in S0 /\ s[Len(s)] \in S0 /\ s[Nx(s, 1)] \in S0
  BY <1>2, <1>4, RingFacts
<1>8. PICK z \in S0, w \in S0, f \in S0 : z = s[Len(s)] /\ w = s[Nx(s, 1)] /\ f = s[1]
  BY <1>7
<1>9. l.tail - 1 = z /\ l.tail = z + 1
  BY <1>2, <1>8, RingFacts
<1>10. m[s[Len(s)]][1] = s[Nx(s, Len(s))] /\ m[s[1]][1] = s[Nx(s, 1)]
  BY <1>2, <1>5, RingFacts
<1>11. m[z][1] = f /\ m[f][1] = w
  BY <1>3, <1>8, <1>10
<1>12. L!Lru(l) = s[1]
  BY <1>5, <1>8, <1>9, <1>11, Zenon DEF L!Lru
<1>13. z = f <=> Len(s) = 1
  BY <1>2, <1>8, RingFacts
<1>14. L!Evict(l) = IF z = f THEN [list |-> [m EXCEPT ![f] = <<0, 0>>], tail |-> 0]
                    ELSE [list |-> [Set1(Set2(m, w, z), z, w) EXCEPT ![f] = <<0, 0>>],
                          tail |-> l.tail]
  BY <1>5, <1>9, <1>11, Zenon DEF L!Evict, L!Lru, Set1, Set2
<1>15. CASE Len(s) = 1
  <2>1. L!Evict(l) = [list |-> [l.list EXCEPT ![s[1]] = <<0, 0>>], tail |-> 0]
    BY <1>5, <1>8, <1>13, <1>14, <1>15
  <2> QED BY <1>1, <1>12, <1>15, <2>1, LastRing
<1>16. CASE Len(s) # 1
  <2> DEFINE a == Set2(m, w, z)  b == Set1(a, z, w)  c == [b EXCEPT ![f] = <<0, 0>>]
  <2>1. L!Evict(l) = [list |-> c, tail |-> l.tail]
    BY <1>13, <1>14, <1>16
  <2>2. IsList(a) /\ \A x \in S0 : /\ a[x][1] = m[x][1]
                                   /\ a[x][2] = IF x = w THEN z ELSE m[x][2]
    BY <1>6, SetFacts
  <2> HIDE DEF a
  <2>3. IsList(b) /\ \A x \in S0 : /\ b[x][1] = IF x = z THEN w ELSE a[x][1]
                                   /\ b[x][2] = a[x][2]
    BY <2>2, SetFacts
  <2> HIDE DEF b
  <2>4. IsList(c) /\ \A x \in S0 : /\ c[x][1] = IF x = f THEN 0 ELSE b[x][1]
                                   /\ c[x][2] = IF x = f THEN 0 ELSE b[x][2]
    BY <2>3, ResetFacts, S0Facts
  <2> HIDE DEF c
  <2>5. \A x \in S0 :
           /\ c[x][1] = IF x = f THEN 0 ELSE IF x = z THEN w ELSE m[x][1]
           /\ c[x][2] = IF x = f THEN 0 ELSE IF x = w THEN z ELSE m[x][2]
    BY <2>2, <2>3, <2>4
  <2>6. CutOut(c, l.list, s, 1)
    BY <1>3, <1>5, <1>8, <2>5, Zenon DEF CutOut
  <2>7. Len(s) >= 2 /\ l.tail = TailLeft(s, 1)
    <3>1. TailLeft(s, 1) = z + 1
      BY <1>8, <1>16, Zenon DEF TailLeft
    <3>2. Len(s) \in Nat /\ Len(s) >= 1 /\ Len(s) # 1
      BY <1>1, <1>16
    <3>3. Len(s) >= 2
      <4>1. \A n \in Nat : n >= 1 /\ n # 1 => n >= 2
        OBVIOUS
      <4> QED BY <3>2, <4>1, Zenon
    <3> QED BY <1>9, <3>1, <3>3, Zenon
  <2>8. IsRing([list |-> c, tail |-> l.tail], Cut(s, 1))
    BY <1>2, <2>4, <2>6, <2>7, CutRing
  <2> QED BY <1>1, <1>12, <2>1, <2>8
<1> QED BY <1>15, <1>16

\* More than one is two or more.
LEMMA AtLeastTwo == \A n \in Nat : n >= 1 /\ n # 1 => n >= 2
OBVIOUS

\* The slots around a slot are linked.
LEMMA BypassFacts ==
  ASSUME NEW m, IsList(m), NEW e \in S0, NEW x \in S0, NEW y \in S0,
         m[e][1] = x, m[e][2] = y, x # e, y # e
  PROVE  /\ IsList(L!Bypass(m, e))
         /\ \A i \in S0 : /\ L!Bypass(m, e)[i][1] = IF i = y THEN x ELSE m[i][1]
                          /\ L!Bypass(m, e)[i][2] = IF i = x THEN y ELSE m[i][2]
<1> DEFINE a == Set2(m, x, y)  b == Set1(a, y, x)
<1>1. IsList(a) /\ \A i \in S0 : /\ a[i][1] = m[i][1]
                                 /\ a[i][2] = IF i = x THEN y ELSE m[i][2]
  BY SetFacts
<1>2. L!Bypass(m, e) = Set1(a, a[e][2], a[e][1])
  BY Zenon DEF L!Bypass, Set1, Set2
<1> HIDE DEF a
<1>3. a[e][1] = x /\ a[e][2] = y
  BY <1>1
<1>4. L!Bypass(m, e) = b
  BY <1>2, <1>3
<1>5. IsList(b) /\ \A i \in S0 : /\ b[i][1] = IF i = y THEN x ELSE a[i][1]
                                 /\ b[i][2] = a[i][2]
  BY <1>1, SetFacts
<1> HIDE DEF b
<1> QED BY <1>1, <1>4, <1>5

\* The tests of remove and promote find the slots of the ring.
LEMMA TrackedIs ==
  ASSUME NEW l, NEW s, IsRing(l, s), Distinct(s), NEW e \in S0
  PROVE  /\ L!Tracked(l, e) <=> On(s, e)
         /\ l.tail # 0 /\ l.tail # e + 1 => (L!TrackedBefore(l, e) <=> On(s, e))
<1>1. PICK m, t : m = l.list /\ t = l.tail
  OBVIOUS
<1>2. /\ Len(s) \in Nat /\ (\A j \in 1 .. Len(s) : s[j] \in S0 /\ On(s, s[j]))
      /\ (\A i, j \in 1 .. Len(s) : s[i] = s[j] => i = j)
      /\ (\A j \in 1 .. Len(s) : Nx(s, j) \in 1 .. Len(s) /\ Pv(s, j) \in 1 .. Len(s))
  BY RingFacts
<1>3. /\ (\A j \in 1 .. Len(s) : m[s[j]][1] = s[Nx(s, j)] /\ m[s[j]][2] = s[Pv(s, j)])
      /\ (\A i \in S0 : ~On(s, i) => m[i][1] = 0 /\ m[i][2] = 0)
      /\ IsList(m)
  BY <1>1, RingFacts
<1>4. /\ t = (IF Len(s) = 0 THEN 0 ELSE s[Len(s)] + 1)
      /\ (Len(s) = 0 <=> t = 0)
      /\ (Len(s) # 0 => t - 1 = s[Len(s)] /\ Len(s) \in 1 .. Len(s))
  BY <1>1, RingFacts
<1>5. 0 \in S0 /\ e \in Nat
  BY S0Facts
<1>6. /\ m[e] # <<0, 0>> <=> ~ (m[e][1] = 0 /\ m[e][2] = 0)
      /\ m[0] = <<e, e>> <=> m[0][1] = e /\ m[0][2] = e
  <2>0. IsList(m)
    BY <1>3
  <2>1. \A i \in S0 : \A x, y : m[i] = <<x, y>> <=> m[i][1] = x /\ m[i][2] = y
    BY <2>0, PairIs
  <2>2. m[e] = <<0, 0>> <=> m[e][1] = 0 /\ m[e][2] = 0
    BY <2>1, Zenon
  <2>3. m[0] = <<e, e>> <=> m[0][1] = e /\ m[0][2] = e
    BY <1>5, <2>1, Zenon
  <2> QED BY <2>2, <2>3, Zenon
<1>7. L!Tracked(l, e) <=>
        t # 0 /\ (~ (m[e][1] = 0 /\ m[e][2] = 0) \/ (m[0][1] = e /\ m[0][2] = e /\ t \in {1, e + 1}))
  BY <1>1, <1>6, Zenon DEF L!Tracked
<1>8. L!TrackedBefore(l, e) <=>
        ~ (m[e][1] = 0 /\ m[e][2] = 0) \/ (m[0][1] = e /\ m[0][2] = e /\ t = 1)
  BY <1>1, <1>6, Zenon DEF L!TrackedBefore
<1>9. CASE ~On(s, e)
  <2>1. m[e][1] = 0 /\ m[e][2] = 0
    BY <1>3, <1>9
  <2>2. ASSUME m[0][1] = e, t = 1 PROVE FALSE
    <3>1. Len(s) # 0 /\ s[Len(s)] = 0 /\ Len(s) \in 1 .. Len(s)
      <4>1. Len(s) # 0
        BY <1>4, <2>2
      <4>2. t - 1 = 0
        BY <2>2
      <4> QED BY <1>4, <4>1, <4>2
    <3>2. m[0][1] = s[Nx(s, Len(s))] /\ Nx(s, Len(s)) \in 1 .. Len(s)
      BY <1>2, <1>3, <3>1
    <3> QED BY <1>2, <1>9, <2>2, <3>2
  <2>3. t # 0 => t # e + 1
    <3>1. ASSUME t # 0, t = e + 1 PROVE FALSE
      <4>1. Len(s) # 0
        BY <1>4, <3>1
      <4>2. s[Len(s)] = t - 1 /\ On(s, s[Len(s)])
        BY <1>2, <1>4, <4>1
      <4>3. t - 1 = e
        BY <1>5, <3>1
      <4> QED BY <1>9, <4>2, <4>3
    <3> QED BY <3>1
  <2> QED BY <1>1, <1>7, <1>8, <1>9, <2>1, <2>2, <2>3
<1>10. CASE On(s, e)
  <2>1. PICK p \in 1 .. Len(s) : s[p] = e
    BY <1>10 DEF On
  <2>2. Len(s) # 0 /\ t # 0
    <3>1. \A n \in Nat : \A j \in 1 .. n : n # 0
      OBVIOUS
    <3> QED BY <1>2, <1>4, <2>1, <3>1, Zenon
  <2>3. ASSUME m[e][1] = 0, m[e][2] = 0
        PROVE  m[0][1] = e /\ m[0][2] = e /\ t \in {1, e + 1}
    <3>1. s[Nx(s, p)] = 0 /\ s[Pv(s, p)] = 0 /\ Nx(s, p) \in 1 .. Len(s) /\ Pv(s, p) \in 1 .. Len(s)
      BY <1>2, <1>3, <2>1, <2>3
    <3>2. Nx(s, p) = Pv(s, p)
      BY <1>2, <3>1
    <3>3. Len(s) = 1 \/ Len(s) = 2
      <4>1. Len(s) <= 2
        BY <1>2, <3>2, NeighbourFacts
      <4>2. \A n \in Nat : n <= 2 /\ n # 0 => n = 1 \/ n = 2
        OBVIOUS
      <4> QED BY <1>2, <2>2, <4>1, <4>2, Zenon
    <3>4. CASE Len(s) = 1
      <4>1. Nx(s, p) = p /\ Pv(s, p) = p /\ p = 1
        BY <1>2, <3>4, NeighbourFacts
      <4>2. e = 0 /\ m[0][1] = e /\ m[0][2] = e
        BY <2>1, <2>3, <3>1, <4>1
      <4>3. t = s[1] + 1 /\ s[1] = 0
        BY <1>4, <2>1, <3>4, <4>1, <4>2
      <4> QED BY <4>2, <4>3
    <3>5. CASE Len(s) = 2
      <4> DEFINE q == IF p = 1 THEN 2 ELSE 1
      <4>1. Nx(s, p) = q
        BY <1>2, <3>5, NeighbourFacts
      <4>2. p \in {1, 2} /\ q \in {1, 2} /\ (IF q = 1 THEN 2 ELSE 1) = p
        BY <3>5
      <4> HIDE DEF q
      <4>3. q \in 1 .. Len(s) /\ s[q] = 0
        BY <3>1, <4>1
      <4>4. Nx(s, q) = p /\ Pv(s, q) = p
        BY <1>2, <3>5, <4>2, <4>3, NeighbourFacts
      <4>5. m[0][1] = e /\ m[0][2] = e
        BY <1>3, <2>1, <4>3, <4>4
      <4>6. t = s[2] + 1
        BY <1>4, <3>5
      <4>7. p = 2 \/ q = 2
        BY <4>2
      <4> QED BY <2>1, <4>3, <4>5, <4>6, <4>7
    <3> QED BY <3>3, <3>4, <3>5
  <2> QED BY <1>1, <1>7, <1>8, <1>10, <2>2, <2>3
<1> QED BY <1>9, <1>10

\* remove takes a slot out, if it is tracked.
LEMMA RemoveRing ==
  ASSUME NEW l, NEW s, IsRing(l, s), Distinct(s), NEW e \in S0
  PROVE  IsRing(L!Remove(l, e), Without(s, e))
<1>1. PICK m, t : m = l.list /\ t = l.tail
  OBVIOUS
<1>2. L!Tracked(l, e) <=> On(s, e)
  BY TrackedIs
<1>3. CASE ~On(s, e)
  <2>1. L!Remove(l, e) = l
    BY <1>2, <1>3 DEF L!Remove
  <2>2. Without(s, e) = s
    BY <1>3, WithoutIs
  <2> QED BY <2>1, <2>2
<1>4. CASE On(s, e)
  <2>1. PICK p \in 1 .. Len(s) : s[p] = e
    BY <1>4 DEF On
  <2>2. Without(s, e) = Cut(s, p)
    BY <2>1, WithoutIs
  <2>3. /\ Len(s) \in Nat /\ (\A i, j \in 1 .. Len(s) : s[i] = s[j] => i = j)
        /\ Nx(s, p) \in 1 .. Len(s) /\ Pv(s, p) \in 1 .. Len(s)
        /\ m[e][1] = s[Nx(s, p)] /\ m[e][2] = s[Pv(s, p)] /\ IsList(m)
        /\ s[Nx(s, p)] \in S0 /\ s[Pv(s, p)] \in S0
    BY <1>1, <2>1, RingFacts
  <2>4. L!Remove(l, e) =
          IF m[e][1] = e
          THEN [list |-> [m EXCEPT ![e] = <<0, 0>>], tail |-> 0]
          ELSE [list |-> [L!Bypass(m, e) EXCEPT ![e] = <<0, 0>>],
                tail |-> IF t = e + 1 THEN L!Bypass(m, e)[e][2] + 1 ELSE t]
    BY <1>1, <1>2, <1>4, Zenon DEF L!Remove
  <2>5. m[e][1] = e <=> Len(s) = 1
    BY <2>1, <2>3, NeighbourFacts
  <2>6. CASE Len(s) = 1
    <3>1. p = 1
      BY <2>3, <2>6, NeighbourFacts
    <3>2. L!Remove(l, e) = [list |-> [l.list EXCEPT ![s[1]] = <<0, 0>>], tail |-> 0]
      BY <1>1, <2>1, <2>4, <2>5, <2>6, <3>1
    <3> QED BY <2>2, <2>6, <3>1, <3>2, LastRing
  <2>7. CASE Len(s) # 1
    <3>0. Len(s) >= 2
      <4>1. Len(s) >= 1
        BY <2>1, <2>3
      <4> QED BY <2>3, <2>7, <4>1, AtLeastTwo, Zenon
    <3> DEFINE a == L!Bypass(m, e)  c == [a EXCEPT ![e] = <<0, 0>>]
    <3>1. PICK x \in S0, y \in S0 : x = s[Nx(s, p)] /\ y = s[Pv(s, p)]
      BY <2>3
    <3>2. m[e][1] = x /\ m[e][2] = y /\ x # e /\ y # e
      BY <2>1, <2>3, <2>7, <3>1, NeighbourFacts
    <3>3. IsList(a) /\ \A i \in S0 : /\ a[i][1] = IF i = y THEN x ELSE m[i][1]
                                     /\ a[i][2] = IF i = x THEN y ELSE m[i][2]
      BY <2>3, <3>2, BypassFacts
    <3> HIDE DEF a
    <3>4. IsList(c) /\ \A i \in S0 : /\ c[i][1] = IF i = e THEN 0 ELSE a[i][1]
                                     /\ c[i][2] = IF i = e THEN 0 ELSE a[i][2]
      BY <3>3, ResetFacts, S0Facts
    <3> HIDE DEF c
    <3>5. \A i \in S0 : /\ c[i][1] = IF i = e THEN 0 ELSE IF i = y THEN x ELSE m[i][1]
                        /\ c[i][2] = IF i = e THEN 0 ELSE IF i = x THEN y ELSE m[i][2]
      BY <3>3, <3>4
    <3>6. CutOut(c, l.list, s, p)
      BY <1>1, <2>1, <3>1, <3>5, Zenon DEF CutOut
    <3> DEFINE u == IF t = e + 1 THEN a[e][2] + 1 ELSE t
    <3>7. L!Remove(l, e) = [list |-> c, tail |-> u]
      BY <2>4, <2>5, <2>7 DEF a, c
    <3>8. u = TailLeft(s, p)
      <4>1. a[e][2] = y
        BY <3>2, <3>3
      <4>2. t = s[Len(s)] + 1 /\ Len(s) \in 1 .. Len(s) /\ s[Len(s)] \in Nat /\ e \in Nat
        <5>1. Len(s) # 0
          BY <2>1, <2>3
        <5> QED BY <1>1, <5>1, RingFacts, S0Facts
      <4>3. t = e + 1 <=> p = Len(s)
        BY <2>1, <2>3, <4>2
      <4>4. CASE p = Len(s)
        <5>1. Pv(s, p) = Len(s) - 1
          BY <2>3, <3>0, <4>4, NeighbourFacts
        <5>2. u = y + 1
          BY <4>1, <4>3, <4>4
        <5>3. TailLeft(s, p) = s[Len(s) - 1] + 1
          BY <4>4, Zenon DEF TailLeft
        <5> QED BY <3>1, <5>1, <5>2, <5>3, Zenon
      <4>5. CASE p # Len(s)
        <5>1. u = t
          BY <4>3, <4>5
        <5>2. TailLeft(s, p) = s[Len(s)] + 1
          BY <4>5, Zenon DEF TailLeft
        <5> QED BY <4>2, <5>1, <5>2, Zenon
      <4> QED BY <4>4, <4>5
    <3> HIDE DEF u
    <3>9. IsRing([list |-> c, tail |-> u], Cut(s, p))
      BY <3>0, <3>4, <3>6, <3>8, CutRing
    <3> QED BY <2>2, <3>7, <3>9
  <2> QED BY <2>6, <2>7
<1> QED BY <1>3, <1>4

\* A slot becomes the last of a list.
Appended(a, z, e) ==
  LET b == Set2(a, a[z][1], e)
      c == Set1(b, e, a[z][1])
      d == Set1(c, z, e)
  IN [list |-> Set2(d, e, z), tail |-> e + 1]

\* promote makes the slot the last of a circle that is not empty.
LEMMA AppendRing ==
  ASSUME NEW W, Distinct(W), Len(W) >= 1, NEW e \in S0, ~On(W, e),
         NEW a, IsList(a), Links(a, W), NEW z, z = W[Len(W)],
         \A i \in S0 : i # e /\ ~On(W, i) => a[i][1] = 0 /\ a[i][2] = 0
  PROVE  IsRing(Appended(a, z, e), Append(W, e))
<1>1. /\ Len(W) \in Nat /\ (\A j \in 1 .. Len(W) : W[j] \in S0 /\ On(W, W[j]))
      /\ \A j \in 1 .. Len(W) : a[W[j]][1] = W[Nx(W, j)]
  BY DEF Distinct, On, Links
<1>2. Len(W) \in 1 .. Len(W) /\ 1 \in 1 .. Len(W) /\ Nx(W, Len(W)) = 1
  BY <1>1 DEF Nx
<1>3. W[1] \in S0 /\ z \in S0 /\ On(W, W[1]) /\ On(W, z) /\ a[z][1] = W[1]
  BY <1>1, <1>2
<1>4. PICK f \in S0 : f = W[1]
  BY <1>3
<1>41. PICK y \in S0 : y = z
  BY <1>3
<1> DEFINE b == Set2(a, f, e)  c == Set1(b, e, f)  d == Set1(c, y, e)  g == Set2(d, e, y)
<1>5. Appended(a, z, e) = [list |-> g, tail |-> e + 1]
  BY <1>3, <1>4, <1>41, Zenon DEF Appended
<1>6. IsList(b) /\ \A i \in S0 : /\ b[i][1] = a[i][1]
                                 /\ b[i][2] = IF i = f THEN e ELSE a[i][2]
  BY SetFacts
<1> HIDE DEF b
<1>7. IsList(c) /\ \A i \in S0 : /\ c[i][1] = IF i = e THEN f ELSE b[i][1]
                                 /\ c[i][2] = b[i][2]
  BY <1>6, SetFacts
<1> HIDE DEF c
<1>8. IsList(d) /\ \A i \in S0 : /\ d[i][1] = IF i = y THEN e ELSE c[i][1]
                                 /\ d[i][2] = c[i][2]
  BY <1>7, SetFacts
<1> HIDE DEF d
<1>9. IsList(g) /\ \A i \in S0 : /\ g[i][1] = d[i][1]
                                 /\ g[i][2] = IF i = e THEN y ELSE d[i][2]
  BY <1>8, SetFacts
<1> HIDE DEF g
<1>10. e # y /\ e # f /\ On(W, y) /\ y = W[Len(W)]
  BY <1>3, <1>4, <1>41
<1>11. \A i \in S0 :
         /\ g[i][1] = IF i = e THEN f ELSE IF i = y THEN e ELSE a[i][1]
         /\ g[i][2] = IF i = e THEN y ELSE IF i = f THEN e ELSE a[i][2]
  BY <1>6, <1>7, <1>8, <1>9, <1>10
<1>12. \A i \in S0 :
         /\ g[i][1] = IF i = e THEN W[1] ELSE IF i = W[Len(W)] THEN e ELSE a[i][1]
         /\ g[i][2] = IF i = e THEN W[Len(W)] ELSE IF i = W[1] THEN e ELSE a[i][2]
  BY <1>4, <1>10, <1>11, Zenon
<1>13. Links(g, Append(W, e))
  BY <1>12, RingAppend
<1> DEFINE A == Append(W, e)
<1>14. /\ Distinct(A) /\ Len(A) = Len(W) + 1 /\ A[Len(W) + 1] = e
       /\ \A i : On(A, i) <=> On(W, i) \/ i = e
  BY AppendFacts
<1>15. \A i \in S0 : ~On(A, i) => g[i][1] = 0 /\ g[i][2] = 0
  BY <1>3, <1>4, <1>10, <1>11, <1>14
<1>16. Len(A) # 0 /\ A[Len(A)] = e
  BY <1>1, <1>14
<1>17. PICK r : r = [list |-> g, tail |-> e + 1]
  OBVIOUS
<1>18. r.list = g /\ r.tail = e + 1 /\ r = [list |-> r.list, tail |-> r.tail]
  BY <1>17
<1> HIDE DEF A
<1>19. Links(g, A)
  BY <1>13 DEF A
<1>20. IsRing(r, A)
  BY <1>9, <1>15, <1>16, <1>18, <1>19 DEF IsRing
<1> QED BY <1>5, <1>17, <1>20 DEF A

\* The ring of a single slot.
LEMMA SingleRing ==
  ASSUME NEW m, IsList(m), NEW e \in S0, \A i \in S0 : m[i][1] = 0 /\ m[i][2] = 0
  PROVE  IsRing([list |-> [m EXCEPT ![e] = <<e, e>>], tail |-> e + 1], Append(<<>>, e))
<1> DEFINE g == [m EXCEPT ![e] = <<e, e>>]  A == Append(<<>>, e)
<1>1. Len(A) = 1 /\ A[1] = e
  OBVIOUS
<1>2. IsList(g) /\ \A i \in S0 : /\ g[i][1] = IF i = e THEN e ELSE m[i][1]
                                 /\ g[i][2] = IF i = e THEN e ELSE m[i][2]
  BY ResetFacts
<1> HIDE DEF g, A
<1>3. \A i : On(A, i) <=> i = e
  BY <1>1 DEF On
<1>4. \A j \in 1 .. Len(A) : j = 1 /\ Nx(A, j) = 1 /\ Pv(A, j) = 1
  BY <1>1 DEF Nx, Pv
<1>5. Links(g, A)
  BY <1>1, <1>2, <1>4 DEF Links
<1>6. \A i \in S0 : ~On(A, i) => g[i][1] = 0 /\ g[i][2] = 0
  BY <1>2, <1>3
<1>7. PICK r : r = [list |-> g, tail |-> e + 1]
  OBVIOUS
<1>8. r.list = g /\ r.tail = e + 1 /\ r = [list |-> r.list, tail |-> r.tail]
  BY <1>7
<1>9. IsRing(r, A)
  BY <1>1, <1>2, <1>5, <1>6, <1>8 DEF IsRing
<1> QED BY <1>7, <1>9 DEF g, A

\* The last of a sequence is used again.
LEMMA LastAgain ==
  ASSUME NEW s, Distinct(s), Len(s) >= 1
  PROVE  Append(Cut(s, Len(s)), s[Len(s)]) = s
<1>0. Len(s) \in Nat /\ s \in Seq(S0) /\ s = [j \in 1 .. Len(s) |-> s[j]]
      /\ \A j \in 1 .. Len(s) : s[j] \in S0
  BY DEF Distinct
<1>1. PICK n \in Nat : n = Len(s)
  BY <1>0
<1>2. n >= 1 /\ n \in 1 .. n /\ n \in 1 .. Len(s)
  BY <1>1
<1>3. PICK W : W = Cut(s, n)
  OBVIOUS
<1>4. /\ Distinct(W) /\ Len(W) = Len(s) - 1
      /\ \A j \in 1 .. Len(s) - 1 : W[j] = IF j < n THEN s[j] ELSE s[j + 1]
  BY <1>2, <1>3, CutFacts
<1>5. /\ W \in Seq(S0) /\ Len(W) = n - 1
      /\ \A j \in 1 .. n - 1 : W[j] = IF j < n THEN s[j] ELSE s[j + 1]
  BY <1>1, <1>4, Zenon DEF Distinct
<1>6. PICK e \in S0 : e = s[n]
  BY <1>0, <1>2
<1>7. PICK A : A = Append(W, e)
  OBVIOUS
<1>8. A \in Seq(S0) /\ Len(A) = n /\ A[n] = e /\ \A j \in 1 .. n - 1 : A[j] = W[j]
  BY <1>2, <1>5, <1>7
<1>9. ASSUME NEW j \in 1 .. n PROVE A[j] = s[j]
  <2>1. CASE j = n
    BY <1>6, <1>8, <2>1
  <2>2. CASE j # n
    <3>1. j \in 1 .. n - 1 /\ j < n
      BY <2>2
    <3> QED BY <1>5, <1>8, <3>1
  <2> QED BY <2>1, <2>2
<1>10. s = [j \in 1 .. n |-> s[j]] /\ A = [j \in 1 .. n |-> A[j]]
  BY <1>0, <1>1, <1>8
<1>11. A = s
  BY <1>9, <1>10
<1> QED BY <1>1, <1>3, <1>6, <1>7, <1>11

\* promote makes a slot the last.
LEMMA PromoteRing ==
  ASSUME NEW l, NEW s, IsRing(l, s), Distinct(s), NEW e \in S0
  PROVE  IsRing(L!Promote(l, e), Append(Without(s, e), e))
<1>1. PICK m, t : m = l.list /\ t = l.tail
  OBVIOUS
<1>2. /\ Len(s) \in Nat /\ (\A j \in 1 .. Len(s) : s[j] \in S0 /\ On(s, s[j]))
      /\ (\A i, j \in 1 .. Len(s) : s[i] = s[j] => i = j)
  BY RingFacts
<1>3. /\ t = (IF Len(s) = 0 THEN 0 ELSE s[Len(s)] + 1)
      /\ (Len(s) = 0 <=> t = 0)
      /\ (Len(s) # 0 => t - 1 = s[Len(s)] /\ Len(s) \in 1 .. Len(s))
  BY <1>1, RingFacts
<1>4. IsList(m) /\ Links(m, s) /\ \A i \in S0 : ~On(s, i) => m[i][1] = 0 /\ m[i][2] = 0
  BY <1>1 DEF IsRing
<1>5. e \in Nat
  BY S0Facts
<1>6. Len(s) # 0 => Len(s) >= 1
  BY <1>2
<1>7. CASE t = e + 1
  <2>1. Len(s) # 0
    BY <1>3, <1>5, <1>7
  <2>2. e = s[Len(s)]
    BY <1>3, <1>5, <1>7, <2>1
  <2>3. Without(s, e) = Cut(s, Len(s))
    BY <1>3, <2>1, <2>2, WithoutIs
  <2>4. Append(Without(s, e), e) = s
    BY <1>6, <2>1, <2>2, <2>3, LastAgain
  <2>5. L!Promote(l, e) = l
    BY <1>1, <1>7 DEF L!Promote
  <2> QED BY <2>4, <2>5
<1>8. CASE t # e + 1 /\ t = 0
  <2>1. s = <<>>
    BY <1>3, <1>8 DEF Distinct
  <2>2. \A i : ~On(s, i)
    <3>1. Len(s) = 0
      BY <1>3, <1>8
    <3> QED BY <3>1 DEF On
  <2>3. Without(s, e) = <<>>
    BY <2>1, <2>2, WithoutIs
  <2>4. L!Promote(l, e) = [list |-> [m EXCEPT ![e] = <<e, e>>], tail |-> e + 1]
    BY <1>1, <1>8 DEF L!Promote
  <2> QED BY <1>4, <2>2, <2>3, <2>4, SingleRing
<1>9. CASE t # e + 1 /\ t # 0
  <2>1. Len(s) # 0 /\ Len(s) >= 1 /\ t - 1 = s[Len(s)] /\ Len(s) \in 1 .. Len(s)
    BY <1>3, <1>6, <1>9
  <2>2. s[Len(s)] # e
    <3>1. t = s[Len(s)] + 1
      BY <1>3, <2>1
    <3> QED BY <1>9, <3>1
  <2>3. PICK z : z = s[Len(s)]
    OBVIOUS
  <2> DEFINE a == IF On(s, e) THEN L!Bypass(m, e) ELSE m
  <2>4. L!TrackedBefore(l, e) <=> On(s, e)
    BY <1>1, <1>9, TrackedIs
  <2>5. L!Promote(l, e) = Appended(a, z, e)
    <3>1. t - 1 = z
      BY <2>1, <2>3
    <3>2. (IF L!TrackedBefore(l, e) THEN L!Bypass(m, e) ELSE m) = a
      BY <2>4, Zenon
    <3> HIDE DEF a
    <3> QED BY <1>1, <1>9, <3>1, <3>2, Zenon DEF L!Promote, Appended, Set1, Set2
  <2>6. CASE ~On(s, e)
    <3>1. Without(s, e) = s /\ a = m
      BY <2>6, WithoutIs
    <3> HIDE DEF a
    <3> QED BY <1>4, <2>1, <2>3, <2>5, <2>6, <3>1, AppendRing
  <2>7. CASE On(s, e)
    <3>1. PICK p \in 1 .. Len(s) : s[p] = e
      BY <2>7 DEF On
    <3>2. p # Len(s)
      BY <2>2, <3>1
    <3>3. PICK n \in Nat : n = Len(s)
      BY <1>2
    <3>4. n >= 2 /\ p \in 1 .. n /\ p < n /\ n - 1 >= 1 /\ n - 1 \in 1 .. n - 1
          /\ ~ (n - 1 < p) /\ n - 1 + 1 = n
      BY <3>1, <3>2, <3>3
    <3>5. PICK W : W = Cut(s, p)
      OBVIOUS
    <3>6. Without(s, e) = W
      BY <3>1, <3>5, WithoutIs
    <3>7. /\ Distinct(W) /\ Len(W) = n - 1 /\ W[n - 1] = s[n]
          /\ \A i : On(W, i) <=> On(s, i) /\ i # e
      <4>0. /\ Distinct(W) /\ Len(W) = Len(s) - 1
            /\ (\A j \in 1 .. Len(s) - 1 : W[j] = IF j < p THEN s[j] ELSE s[j + 1])
            /\ \A i : On(W, i) <=> On(s, i) /\ i # s[p]
        BY <3>5, CutFacts
      <4>1. /\ Distinct(W) /\ Len(W) = n - 1
            /\ (\A j \in 1 .. n - 1 : W[j] = IF j < p THEN s[j] ELSE s[j + 1])
            /\ \A i : On(W, i) <=> On(s, i) /\ i # s[p]
        BY <3>3, <4>0, Zenon
      <4>2. W[n - 1] = s[n - 1 + 1]
        BY <3>4, <4>1
      <4> QED BY <3>1, <3>4, <4>1, <4>2
    <3>8. /\ Nx(s, p) \in 1 .. Len(s) /\ Pv(s, p) \in 1 .. Len(s)
          /\ m[e][1] = s[Nx(s, p)] /\ m[e][2] = s[Pv(s, p)]
          /\ s[Nx(s, p)] \in S0 /\ s[Pv(s, p)] \in S0
      BY <1>1, <3>1, RingFacts
    <3>9. PICK x \in S0, y \in S0 : x = s[Nx(s, p)] /\ y = s[Pv(s, p)]
      BY <3>8
    <3>10. x # e /\ y # e
      <4>1. Len(s) # 1
        BY <3>3, <3>4
      <4>2. Nx(s, p) # p /\ Pv(s, p) # p
        BY <1>2, <4>1, NeighbourFacts
      <4> QED BY <1>2, <3>1, <3>8, <3>9, <4>2
    <3>11. a = L!Bypass(m, e)
      BY <2>7, Zenon
    <3> HIDE DEF a
    <3>12. IsList(a) /\ \A i \in S0 : /\ a[i][1] = IF i = y THEN x ELSE m[i][1]
                                      /\ a[i][2] = IF i = x THEN y ELSE m[i][2]
      BY <1>4, <3>8, <3>9, <3>10, <3>11, BypassFacts
    <3>13. \A i \in S0 : i # s[p] =>
             /\ a[i][1] = IF i = s[Pv(s, p)] THEN s[Nx(s, p)] ELSE m[i][1]
             /\ a[i][2] = IF i = s[Nx(s, p)] THEN s[Pv(s, p)] ELSE m[i][2]
      BY <3>9, <3>12, Zenon
    <3>14. Links(a, W)
      <4>1. Len(s) >= 2
        BY <3>3, <3>4
      <4> QED BY <1>4, <3>5, <3>13, <4>1, RingRemove
    <3>15. ASSUME NEW i \in S0, i # e, ~On(W, i) PROVE a[i][1] = 0 /\ a[i][2] = 0
      <4>1. ~On(s, i)
        BY <3>7, <3>15
      <4>2. On(s, x) /\ On(s, y)
        BY <1>2, <3>8, <3>9
      <4> QED BY <1>4, <3>12, <4>1, <4>2
    <3>16. ~On(W, e) /\ Len(W) >= 1 /\ z = W[Len(W)]
      BY <2>3, <3>3, <3>4, <3>7
    <3>17. IsRing(Appended(a, z, e), Append(W, e))
      BY <3>7, <3>12, <3>14, <3>15, <3>16, AppendRing
    <3> QED BY <2>5, <3>6, <3>17
  <2> QED BY <2>6, <2>7
<1> QED BY <1>7, <1>8, <1>9

-----------------------------------------------------------------------------
(* The list of recently used slots follows the history                      *)

\* LruInv, by its parts.
LEMMA LruInvIs ==
  LruInv <=> /\ Distinct(recent) /\ (type # "CACHE" => recent = <<>>)
             /\ IsRing(lru, recent)
             /\ ~killed /\ ~dropped /\ op.name # "relocate" => \A i : On(recent, i) => i \in occ[0]
<1>1. ASSUME Distinct(recent) PROVE lru = L!Ring(recent) <=> IsRing(lru, recent)
  BY <1>1, RingIs, Zenon
<1>2. ASSUME Distinct(recent)
      PROVE  ToSet(recent) \subseteq occ[0] <=> \A i : On(recent, i) => i \in occ[0]
  <2>1. DOMAIN recent = 1 .. Len(recent)
    BY <1>2 DEF Distinct
  <2> QED BY <2>1 DEF ToSet, On
<1>3. LruInv <=> /\ Distinct(recent) /\ (type # "CACHE" => recent = <<>>)
                 /\ lru = L!Ring(recent)
                 /\ ~killed /\ ~dropped /\ op.name # "relocate" => ToSet(recent) \subseteq occ[0]
  BY Zenon DEF LruInv, Distinct, S0
<1> QED BY <1>1, <1>2, <1>3, Zenon

\* LruInv in the next state, by its parts.
LEMMA LruInvIsNext ==
  LruInv' <=> /\ Distinct(recent') /\ (type' # "CACHE" => recent' = <<>>)
              /\ IsRing(lru', recent')
              /\ ~killed' /\ ~dropped' /\ op'.name # "relocate" =>
                   \A i : On(recent', i) => i \in occ'[0]
<1>1. (LruInv <=> /\ Distinct(recent) /\ (type # "CACHE" => recent = <<>>)
                  /\ IsRing(lru, recent)
                  /\ ~killed /\ ~dropped /\ op.name # "relocate" =>
                       \A i : On(recent, i) => i \in occ[0])'
  BY LruInvIs, PTL
<1> QED BY <1>1, Zenon

\* A step that leaves the list alone.
LEMMA LruKept ==
  ASSUME LruInv, UNCHANGED <<lru, recent, type>>,
         \/ killed' \/ dropped' \/ op'.name = "relocate" \/ type # "CACHE"
         \/ /\ ~killed /\ ~dropped /\ op.name # "relocate" /\ \A i \in occ[0] : i \in occ'[0]
  PROVE  LruInv'
<1>1. /\ Distinct(recent) /\ (type # "CACHE" => recent = <<>>) /\ IsRing(lru, recent)
      /\ ~killed /\ ~dropped /\ op.name # "relocate" => \A i : On(recent, i) => i \in occ[0]
  BY LruInvIs
<1>2. recent = <<>> => \A i : ~On(recent, i)
  BY DEF On
<1>3. ~killed' /\ ~dropped' /\ op'.name # "relocate" => \A i : On(recent, i) => i \in occ'[0]
  BY <1>1, <1>2
<1>4. recent' = recent /\ lru' = lru /\ type' = type
  OBVIOUS
<1> QED BY <1>1, <1>3, <1>4, LruInvIsNext, Zenon

\* A new LRU list is empty.
LEMMA LruInit ==
  ASSUME Init
  PROVE  LruInv
<1>1. lru = [list |-> [i \in S0 |-> <<0, 0>>], tail |-> 0] /\ recent = <<>>
  BY S0Facts DEF Init, L!NoLru
<1>2. Distinct(recent) /\ Len(recent) = 0 /\ \A i : ~On(recent, i)
  BY <1>1 DEF Distinct, On
<1> DEFINE g == [i \in S0 |-> <<0, 0>>]
<1>3. lru.list = g /\ lru.tail = 0 /\ lru = [list |-> lru.list, tail |-> lru.tail]
  BY <1>1
<1>4. \A i \in S0 : g[i] \in S0 \X S0 /\ g[i][1] = 0 /\ g[i][2] = 0
  BY S0Facts
<1>5. IsList(g)
  BY <1>4 DEF IsList
<1> HIDE DEF g
<1>6. Links(g, recent)
  BY <1>2 DEF Links
<1>7. IsRing(lru, recent)
  BY <1>2, <1>3, <1>4, <1>5, <1>6 DEF IsRing
<1> QED BY <1>1, <1>2, <1>7, LruInvIs, Zenon

\* The slot that is evicted.
LEMMA VictimIs ==
  ASSUME LruInv
  PROVE  /\ Victim \in SlotsOf(0)
         /\ recent = <<>> <=> lru.tail = 0
         /\ recent # <<>> => Victim = recent[1]
<1>1. Distinct(recent) /\ IsRing(lru, recent)
  BY LruInvIs
<1>2. recent = <<>> <=> lru.tail = 0
  <2>1. Len(recent) = 0 <=> lru.tail = 0
    BY <1>1, RingFacts
  <2>2. Len(recent) = 0 <=> recent = <<>>
    BY <1>1 DEF Distinct
  <2> QED BY <2>1, <2>2
<1>3. CASE recent = <<>>
  <2>1. Victim = 0
    BY <1>2, <1>3 DEF Victim
  <2> QED BY <1>2, <1>3, <2>1, S0Facts DEF S0
<1>4. CASE recent # <<>>
  <2>1. Victim = recent[1]
    BY <1>1, <1>2, <1>4, EvictRing DEF Victim
  <2>2. Len(recent) # 0
    BY <1>1, <1>2, <1>4, RingFacts
  <2>3. recent[1] \in S0
    BY <1>1, <2>2, RingFacts
  <2> QED BY <1>2, <2>1, <2>3 DEF S0
<1> QED BY <1>3, <1>4

\* evict takes the least recently used slot out of the list.
LEMMA LruEvict ==
  ASSUME EntryInv, LruInv, EvictLruHead
  PROVE  LruInv'
<1>0. /\ pc = "evict" /\ op.name = "put" /\ type = "CACHE" /\ ~killed /\ ~dropped /\ TypeInv
      /\ UNCHANGED <<type, killed, dropped, op>>
  BY DEF EntryInv, EvictLruHead, Purpose
<1>1. /\ Distinct(recent) /\ IsRing(lru, recent)
      /\ \A i : On(recent, i) => i \in occ[0]
  BY <1>0, LruInvIs
<1>2. CASE occ[0] # SlotsOf(0)
  <2>1. UNCHANGED <<lru, occ, recent>>
    BY <1>2 DEF EvictLruHead
  <2> QED BY <1>0, <2>1, LruKept
<1>3. CASE occ[0] = SlotsOf(0)
  <2>1. /\ lru' = IF lru.tail = 0 THEN lru ELSE L!Evict(lru)
        /\ occ' = [occ EXCEPT ![0] = @ \ {Victim}]
        /\ recent' = IF recent = <<>> THEN recent ELSE Tail(recent)
    BY <1>3 DEF EvictLruHead, Victim
  <2>2. PICK v : v = Victim
    OBVIOUS
  <2>3. occ'[0] = occ[0] \ {v}
    BY <1>0, <2>1, <2>2, Numbers DEF TypeInv
  <2>4. CASE recent = <<>>
    <3>1. lru' = lru /\ recent' = recent /\ \A i : ~On(recent, i)
      BY <2>1, <2>4, VictimIs DEF On
    <3> QED BY <1>0, <1>1, <3>1, LruInvIsNext, Zenon
  <2>5. CASE recent # <<>>
    <3>1. lru' = L!Evict(lru) /\ recent' = Tail(recent) /\ v = recent[1]
      BY <2>1, <2>2, <2>5, VictimIs
    <3>2. IsRing(L!Evict(lru), Tail(recent)) /\ Tail(recent) = Cut(recent, 1) /\ Len(recent) >= 1
      BY <1>1, <2>5, EvictRing, TailIsCut
    <3>3. Len(recent) \in Nat /\ 1 \in 1 .. Len(recent)
      BY <1>1, <3>2, RingFacts
    <3>4. /\ Distinct(Cut(recent, 1))
          /\ \A i : On(Cut(recent, 1), i) <=> On(recent, i) /\ i # recent[1]
      BY <1>1, <3>3, CutFacts
    <3>5. /\ Distinct(recent') /\ IsRing(lru', recent')
          /\ \A i : On(recent', i) => i \in occ'[0]
      BY <1>1, <2>3, <3>1, <3>2, <3>4, Zenon
    <3> QED BY <1>0, <3>5, LruInvIsNext, Zenon
  <2> QED BY <2>4, <2>5
<1> QED BY <1>2, <1>3

\* promote makes the slot of the entry the most recently used.
LEMMA LruPromote ==
  ASSUME EntryInv, LruInv, UpdateLruTail
  PROVE  LruInv'
<1>0. /\ pc = "promote" /\ type = "CACHE" /\ op.name # "relocate" /\ ~killed /\ ~dropped /\ TypeInv
      /\ UNCHANGED <<type, occ, killed, dropped>> /\ op'.name = "none"
  BY UnlockFacts DEF EntryInv, UpdateLruTail, Purpose, blockVars
<1>1. /\ Distinct(recent) /\ IsRing(lru, recent)
      /\ \A i : On(recent, i) => i \in occ[0]
  BY <1>0, LruInvIs
<1>2. CASE ptr.b # 0
  <2>1. UNCHANGED <<lru, recent>>
    BY <1>2 DEF UpdateLruTail
  <2> QED BY <1>0, <2>1, LruKept
<1>3. CASE ptr.b = 0
  <2>1. PICK e : e = ptr.i
    OBVIOUS
  <2>2. lru' = L!Promote(lru, e) /\ recent' = Append(Without(recent, e), e)
    BY <1>3, <2>1 DEF UpdateLruTail
  <2>3. e \in S0 /\ e \in occ[0]
    <3>1. At(ptr.b, ptr.i)
      BY <1>0 DEF EntryInv, Owner, Holds
    <3> QED BY <1>3, <2>1, <3>1, AtFacts DEF EntryInv, S0
  <2>4. IsRing(lru', recent')
    BY <1>1, <2>2, <2>3, PromoteRing
  <2>5. PICK W : W = Without(recent, e)
    OBVIOUS
  <2>6. Distinct(W) /\ ~On(W, e) /\ \A i : On(W, i) => On(recent, i)
    <3>1. CASE ~On(recent, e)
      BY <1>1, <2>5, <3>1, WithoutIs
    <3>2. CASE On(recent, e)
      <4>1. PICK p \in 1 .. Len(recent) : recent[p] = e
        BY <3>2 DEF On
      <4>2. W = Cut(recent, p)
        BY <1>1, <2>5, <4>1, WithoutIs
      <4> QED BY <1>1, <4>1, <4>2, CutFacts
    <3> QED BY <3>1, <3>2
  <2>7. Distinct(recent') /\ \A i : On(recent', i) <=> On(W, i) \/ i = e
    BY <2>2, <2>3, <2>5, <2>6, AppendFacts
  <2>8. \A i : On(recent', i) => i \in occ'[0]
    BY <1>0, <1>1, <2>3, <2>6, <2>7
  <2> QED BY <1>0, <2>4, <2>7, <2>8, LruInvIsNext, Zenon
<1> QED BY <1>2, <1>3

\* remove takes the slot of an erased entry out of the list.
LEMMA LruErase ==
  ASSUME EntryInv, LruInv, EraseEntry
  PROVE  LruInv'
<1>0. /\ pc = "erase" /\ Erase /\ ~killed /\ ~dropped /\ TypeInv
      /\ UNCHANGED <<type, killed, dropped>>
  BY DEF EntryInv, EraseEntry, Purpose
<1>1. op'.name # "relocate" => op.name # "relocate"
  BY DEF EraseEntry
<1>2. CASE type # "CACHE"
  <2>1. UNCHANGED <<lru, recent>>
    BY <1>0, <1>2 DEF Erase
  <2> QED BY <1>0, <1>2, <2>1, LruKept
<1>3. CASE type = "CACHE"
  <2>1. /\ occ' = [occ EXCEPT ![ptr.b] = @ \ {ptr.i}] /\ ptr.b \in Blocks
        /\ op.name # "relocate"
    BY <1>0, <1>3 DEF Erase, TypeInv, EntryInv, Purpose
  <2>2. CASE ptr.b # 0
    <3>1. UNCHANGED <<lru, recent>> /\ occ'[0] = occ[0]
      BY <1>0, <1>3, <2>1, <2>2, Numbers DEF Erase, TypeInv
    <3> QED BY <1>0, <2>1, <3>1, LruKept
  <2>3. CASE ptr.b = 0
    <3>1. PICK e : e = ptr.i
      OBVIOUS
    <3>2. lru' = L!Remove(lru, e) /\ recent' = Without(recent, e) /\ occ'[0] = occ[0] \ {e}
      BY <1>0, <1>3, <2>1, <2>3, <3>1 DEF Erase, TypeInv
    <3>3. e \in S0
      <4>1. At(ptr.b, ptr.i)
        BY <1>0 DEF EntryInv, Owner, Holds
      <4> QED BY <2>3, <3>1, <4>1, AtFacts DEF EntryInv, S0
    <3>4. /\ Distinct(recent) /\ IsRing(lru, recent)
          /\ \A i : On(recent, i) => i \in occ[0]
      BY <1>0, <2>1, LruInvIs
    <3>5. IsRing(lru', recent')
      BY <3>2, <3>3, <3>4, RemoveRing
    <3>6. Distinct(recent') /\ \A i : On(recent', i) => On(recent, i) /\ i # e
      <4>1. CASE ~On(recent, e)
        BY <3>2, <3>4, <4>1, WithoutIs
      <4>2. CASE On(recent, e)
        <5>1. PICK p \in 1 .. Len(recent) : recent[p] = e
          BY <4>2 DEF On
        <5>2. recent' = Cut(recent, p)
          BY <3>2, <3>4, <5>1, WithoutIs
        <5> QED BY <3>4, <5>1, <5>2, CutFacts
      <4> QED BY <4>1, <4>2
    <3>7. \A i : On(recent', i) => i \in occ'[0]
      BY <3>2, <3>4, <3>6
    <3> QED BY <1>0, <1>3, <3>5, <3>6, <3>7, LruInvIsNext, Zenon
  <2> QED BY <2>2, <2>3
<1> QED BY <1>2, <1>3

-----------------------------------------------------------------------------
(* The other steps leave the list alone                                     *)

\* The steps of the owner of the lock that neither move nor take an entry.
LEMMA LruStart ==
  ASSUME EntryInv, LruInv, pc = "unlocked", ~killed, ~dropped,
         UNCHANGED <<type, occ, killed, dropped, lru, recent>>
  PROVE  LruInv'
<1>1. op = NoOp
  BY DEF EntryInv, Purpose
<1>2. op.name = "none"
  BY <1>1, NoOpFacts
<1> QED BY <1>2, LruKept

\* A step that leaves the list alone and takes no entry of it keeps it.
LEMMA LruSameOp ==
  ASSUME EntryInv, LruInv, pc # "unlocked", \A i \in occ[0] : i \in occ'[0],
         UNCHANGED <<type, dropped, lru, recent>>, op.name # "relocate" \/ op'.name = "relocate",
         killed' = killed
  PROVE  LruInv'
<1>1. ~dropped /\ (killed \/ ~killed')
  BY DEF EntryInv, Purpose
<1>2. killed => killed'
  OBVIOUS
<1> QED BY <1>1, <1>2, LruKept

\* A step of the reader leaves the LRU list alone.
LEMMA LruReader ==
  ASSUME LruInv, readerUnchanged
  PROVE  LruInv'
<1>1. UNCHANGED <<type, occ, killed, dropped, lru, recent, op>>
  BY DEF readerUnchanged, blockVars, history
<1>2. \A i \in occ[0] : i \in occ'[0]
  BY <1>1
<1>3. killed' \/ dropped' \/ op'.name = "relocate" \/ (~killed /\ ~dropped /\ op.name # "relocate")
  BY <1>1
<1> QED BY <1>1, <1>2, <1>3, LruKept

-----------------------------------------------------------------------------
(* The reader                                                               *)

\* There is no reader.
LEMMA PeekIdle ==
  ASSUME PeekInv, peek.pc = "idle", peek' = peek
  PROVE  PeekInv'
BY DEF PeekInv, PeekOn, PeekOcc, PeekSure

\* Only an OPTIMISTIC bucket has readers.
LEMMA PeekOptimistic ==
  ASSUME PeekInv, type # "OPTIMISTIC"
  PROVE  peek.pc = "idle"
BY DEF PeekInv, PeekOn

\* The owner of the lock takes a step that leaves the reader its entries.
LEMMA PeekOwner ==
  ASSUME PeekInv, peek' = peek, type' = type, dropped' = dropped,
         ~killed \/ pc # "unlocked",
         \A x : On(Chain, x) => On(Chain', x) /\ \A j \in occ[x] : j \in occ'[x],
         \A x, y : Before(Chain, x, y) => Before(Chain', x, y),
         peek.sure => /\ peek.key \in live' /\ ~ (pc' = "erase" /\ op'.key = peek.key)
                      /\ \A c, j : At(c, j) /\ data[c][j] = peek.key =>
                                     At(c, j)' /\ data'[c][j] = data[c][j]
  PROVE  PeekInv'
<1>1. peek.pc # "idle" => type = "OPTIMISTIC" /\ ~dropped /\ On(Chain, peek.b)
  BY DEF PeekInv, PeekOn
<1>2. peek' \in PeekTypes
  BY DEF PeekInv
<1>3. PeekOn'
  BY <1>1 DEF PeekOn
<1>4. PeekOcc'
  <2>1. ASSUME peek.pc \in {"rem", "match"} PROVE \A i \in peek.occ : i \in occ'[peek.b]
    <3>1. On(Chain, peek.b) /\ \A i \in peek.occ : i \in occ[peek.b]
      BY <1>1, <2>1 DEF PeekInv, PeekOcc
    <3> QED BY <3>1
  <2> QED BY <2>1 DEF PeekOcc
<1>5. PeekSure'
  <2>1. ASSUME peek.sure PROVE /\ peek.pc \notin {"idle", "none"}
                               /\ peek.pc # "found" => PeekFinds'
    <3>1. peek.pc \notin {"idle", "none"} /\ (peek.pc # "found" => PeekFinds)
      BY <2>1 DEF PeekInv, PeekSure
    <3>2. ASSUME PeekFinds PROVE PeekFinds'
      <4>1. PICK b, i : At(b, i) /\ data[b][i] = peek.key /\ Sought(b, i)
        BY <3>2 DEF PeekFinds
      <4>2. At(b, i)' /\ data'[b][i] = peek.key
        BY <2>1, <4>1
      <4>3. Sought(b, i)'
        BY <4>1 DEF Sought
      <4> QED BY <4>2, <4>3 DEF PeekFinds
    <3> QED BY <3>1, <3>2
  <2> QED BY <2>1 DEF PeekSure
<1> QED BY <1>2, <1>3, <1>4, <1>5 DEF PeekInv

\* A step of the owner of the lock that changes no block.
LEMMA PeekSameBlocks ==
  ASSUME PeekInv, UNCHANGED <<type, dropped, peek>>, UNCHANGED blockVars,
         ~killed \/ pc # "unlocked", pc' # "erase", live \subseteq live'
  PROVE  PeekInv'
<1>1. Chain' = Chain /\ \A b, i : At(b, i)' <=> At(b, i)
  BY StillAt
<1>2. occ' = occ /\ data' = data
  BY DEF blockVars
<1>3. peek.sure => peek.key \in live'
  BY DEF PeekInv, PeekSure
<1> QED BY <1>1, <1>2, <1>3, PeekOwner

\* The steps that add an entry.
LEMMA PeekAdds ==
  ASSUME PeekInv, UNCHANGED <<type, dropped, peek, live>>, Kept, pc # "unlocked", pc' # "erase"
  PROVE  PeekInv'
<1>1. peek.sure => peek.key \in live'
  BY DEF PeekInv, PeekSure
<1> QED BY <1>1, PeekOwner DEF Kept

\* Counting down before an erasure does not mislead the reader.
LEMMA PeekEraseCount ==
  ASSUME EntryInv, PeekInv, EraseCount
  PROVE  PeekInv'
<1>0. /\ pc = "uncount" /\ pc' = "erase" /\ peek' = Unsure(op.key)
      /\ UNCHANGED <<type, dropped, op, live>> /\ UNCHANGED blockVars
  BY DEF EraseCount, history
<1>1. Chain' = Chain /\ \A b, i : At(b, i)' <=> At(b, i)
  BY <1>0, StillAt
<1>2. occ' = occ /\ data' = data
  BY <1>0 DEF blockVars
<1>3. CASE peek.key # op.key
  <2>1. peek' = peek
    BY <1>0, <1>3 DEF Unsure
  <2>2. peek.sure => peek.key \in live'
    BY <1>0 DEF PeekInv, PeekSure
  <2>3. pc # "unlocked" /\ op' = op /\ type' = type /\ dropped' = dropped
    BY <1>0
  <2> QED BY <1>1, <1>2, <1>3, <2>1, <2>2, <2>3, PeekOwner
<1>4. CASE peek.key = op.key
  <2>1. peek' = [peek EXCEPT !.sure = FALSE]
    BY <1>0, <1>4 DEF Unsure
  <2>2. /\ peek'.pc = peek.pc /\ peek'.b = peek.b /\ peek'.occ = peek.occ /\ ~peek'.sure
        /\ peek' \in PeekTypes
    BY <2>1 DEF PeekInv, PeekTypes
  <2>3. PeekOn' /\ PeekOcc' /\ PeekSure'
    BY <1>0, <1>1, <1>2, <2>2 DEF PeekInv, PeekOn, PeekOcc, PeekSure
  <2> QED BY <2>2, <2>3 DEF PeekInv
<1> QED BY <1>3, <1>4

\* Marking an entry as removed takes it from the reader, who is no longer sure.
LEMMA PeekErase ==
  ASSUME EntryInv, PeekInv, EraseEntry
  PROVE  PeekInv'
<1>0. /\ pc = "erase" /\ Erase /\ peek' = peek
      /\ live' = IF op.name = "update" THEN live ELSE live \ {op.key}
      /\ UNCHANGED <<type, link, prev, killed, dropped>>
  BY DEF EraseEntry
<1>1. CASE type # "OPTIMISTIC"
  BY <1>0, <1>1, PeekOptimistic, PeekIdle
<1>2. CASE type = "OPTIMISTIC"
  <2>1. PICK b, i : b = ptr.b /\ i = ptr.i
    OBVIOUS
  <2>2. At(b, i) /\ data[b][i] = op.key
    BY <1>0, <2>1 DEF EntryInv, Owner, Holds
  <2>3. Taken(b, i) /\ UNCHANGED <<occ, data>>
    BY <1>0, <1>2, <2>1 DEF Erase, Taken
  <2>4. pc' # "erase" /\ pc' # "publish"
    BY UnlockFacts DEF EraseEntry
  <2>5. /\ Chain' = Chain
        /\ \A c, j : At(c, j)' <=> At(c, j) /\ ~ (c = b /\ j = i)
    BY <1>0, <2>2, <2>3, <2>4, TakeBlocks
  <2>6. ASSUME peek.sure
        PROVE  /\ peek.key \in live'
               /\ \A c, j : At(c, j) /\ data[c][j] = peek.key =>
                              At(c, j)' /\ data'[c][j] = data[c][j]
    <3>1. peek.key \in live /\ peek.key # op.key
      BY <1>0, <2>6 DEF PeekInv, PeekSure
    <3> QED BY <1>0, <2>2, <2>3, <2>5, <3>1
  <2>7. pc # "unlocked" /\ type' = type /\ dropped' = dropped /\ occ' = occ
    BY <1>0, <2>3
  <2> QED BY <1>0, <2>4, <2>5, <2>6, <2>7, PeekOwner
<1> QED BY <1>1, <1>2

\* The bucket is killed: nobody is sure to find anything.
LEMMA PeekKill ==
  ASSUME EntryInv, PeekInv, Kill
  PROVE  PeekInv'
<1>1. /\ pc = "kill" /\ live = {} /\ UNCHANGED <<type, dropped, occ, peek, link>>
  BY DEF Kill, EntryInv, Purpose
<1>2. ~peek.sure \/ peek.sure = FALSE
  BY <1>1 DEF PeekInv, PeekSure
<1>3. Chain' = Chain
  BY <1>1, ChainSame
<1>4. pc # "unlocked" /\ peek' = peek /\ type' = type /\ dropped' = dropped /\ occ' = occ
  BY <1>1
<1> QED BY <1>2, <1>3, <1>4, PeekOwner

\* The reader goes on over the linked buckets a killed bucket has let go of.
LEMMA PeekClear ==
  ASSUME EntryInv, PeekInv, ClearLinks
  PROVE  PeekInv'
<1>1. /\ pc = "clear" /\ live = {} /\ killed /\ UNCHANGED <<type, dropped, peek, killed>>
      /\ (type = "OPTIMISTIC" => UNCHANGED occ) /\ pc' = "unlocked"
  BY UnlockFacts DEF ClearLinks, EntryInv, Purpose, ReleasedLater
<1>2. ~peek.sure
  BY <1>1 DEF PeekInv, PeekSure
<1>3. CASE type # "OPTIMISTIC"
  BY <1>1, <1>3, PeekOptimistic, PeekIdle
<1>4. CASE type = "OPTIMISTIC"
  BY <1>1, <1>2, <1>4 DEF PeekInv, PeekOn, PeekOcc, PeekSure
<1> QED BY <1>3, <1>4

\* What a step of the reader does not change.
LEMMA ReaderFacts ==
  ASSUME readerUnchanged
  PROVE  /\ Chain' = Chain /\ (\A b, i : At(b, i)' <=> At(b, i))
         /\ UNCHANGED <<type, dropped, killed, occ, rem, data, link, pc, op, live>>
BY StillAt DEF readerUnchanged, blockVars, history

\* An entry of a key that is live is on the way of a reader that starts.
LEMMA PeekSearch ==
  ASSUME EntryInv, PeekInv, NEW k \in Keys, Search(k)
  PROVE  PeekInv'
<1>0. /\ type = "OPTIMISTIC" /\ ~dropped /\ readerUnchanged
      /\ peek' = [NoPeek EXCEPT !.pc = "num", !.key = k,
                    !.sure = k \in live /\ ~(pc = "erase" /\ op.key = k)]
  BY DEF Search
<1>1. /\ peek' \in PeekTypes /\ peek'.pc = "num" /\ peek'.b = 0 /\ peek'.key = k
      /\ peek'.sure = (k \in live /\ ~(pc = "erase" /\ op.key = k))
  <2>1. peek' = [pc |-> "num", key |-> k, b |-> 0, occ |-> {}, rem |-> {},
                 sure |-> k \in live /\ ~(pc = "erase" /\ op.key = k)]
    BY <1>0 DEF NoPeek
  <2> QED BY <2>1, Numbers DEF PeekTypes, PeekPCs
<1>2. Chain' = Chain /\ (\A b, i : At(b, i)' <=> At(b, i))
      /\ UNCHANGED <<type, dropped, killed, occ, data, pc, op, live>>
  BY <1>0, ReaderFacts
<1>3. PeekOn' /\ PeekOcc'
  BY <1>0, <1>1, <1>2, PathFacts DEF EntryInv, IsChain, PeekOn, PeekOcc
<1>4. ASSUME k \in live PROVE PeekFinds'
  <2>1. PICK b, i : At(b, i) /\ data[b][i] = k
    BY <1>4 DEF EntryInv, Entries
  <2>2. b = 0 \/ Before(Chain, 0, b)
    BY <2>1, PathFacts DEF EntryInv, IsChain, At
  <2>3. Sought(b, i)'
    BY <1>1, <1>2, <2>2 DEF Sought
  <2>4. At(b, i)' /\ data'[b][i] = peek'.key
    BY <1>1, <1>2, <2>1
  <2> QED BY <2>3, <2>4 DEF PeekFinds
<1>5. PeekSure'
  BY <1>1, <1>2, <1>4 DEF PeekSure
<1> QED BY <1>1, <1>3, <1>5 DEF PeekInv

\* A reader that is sure of its key reads a number that is not zero.
LEMMA SureIsCounted ==
  ASSUME EntryInv, PeekInv, peek.pc # "idle", peek.sure
  PROVE  num # 0
<1>0. /\ peek.key \in live /\ ~ (pc = "erase" /\ op.key = peek.key) /\ ~dropped
      /\ IsFiniteSet(live)
  BY DEF PeekInv, PeekSure, PeekOn, EntryInv, TypeInv
<1>1. num = Cardinality(live)
            + (IF op.name = "update" /\ pc = "uncount" THEN 1
               ELSE IF op.name # "update" /\ pc = "erase" THEN -1 ELSE 0)
  BY <1>0 DEF EntryInv, Counted
<1>2. Cardinality(live) \in Nat /\ Cardinality(live) # 0
  BY <1>0, FS_CardinalityType, FS_EmptySet
<1>3. CASE ~ (op.name # "update" /\ pc = "erase")
  BY <1>1, <1>2, <1>3
<1>4. CASE op.name # "update" /\ pc = "erase"
  <2>1. op.key \in live /\ op.key # peek.key
    BY <1>0, <1>4 DEF EntryInv, Owner
  <2> DEFINE S == live \ {op.key}
  <2>2. IsFiniteSet(S) /\ Cardinality(S) = Cardinality(live) - 1
    BY <1>0, <2>1, FS_RemoveElement
  <2>3. S # {}
    BY <1>0, <2>1
  <2> HIDE DEF S
  <2>4. Cardinality(S) \in Nat /\ Cardinality(S) # 0
    BY <2>2, <2>3, FS_CardinalityType, FS_EmptySet
  <2>5. num = Cardinality(live) + -1
    BY <1>1, <1>4
  <2> QED BY <1>2, <2>2, <2>4, <2>5
<1> QED BY <1>3, <1>4

\* A reader that loads a count of zero has missed nothing it was sure of.
LEMMA PeekNum ==
  ASSUME EntryInv, PeekInv, SearchNum
  PROVE  PeekInv'
<1>0. /\ peek.pc = "num" /\ readerUnchanged
      /\ peek' = [peek EXCEPT !.pc = IF num = 0 THEN "none" ELSE "bitmaps"]
  BY DEF SearchNum
<1>1. /\ peek' \in PeekTypes /\ peek'.pc = (IF num = 0 THEN "none" ELSE "bitmaps")
      /\ peek'.b = peek.b /\ peek'.key = peek.key /\ peek'.sure = peek.sure
  BY <1>0 DEF PeekInv, PeekTypes, PeekPCs
<1>2. Chain' = Chain /\ (\A b, i : At(b, i)' <=> At(b, i))
      /\ UNCHANGED <<type, dropped, killed, occ, data, pc, op, live>>
  BY <1>0, ReaderFacts
<1>3. PeekOn' /\ PeekOcc'
  BY <1>0, <1>1, <1>2 DEF PeekInv, PeekOn, PeekOcc
<1>4. ASSUME peek.sure PROVE num # 0 /\ PeekFinds'
  <2>1. num # 0
    BY <1>0, <1>4, SureIsCounted
  <2>2. PICK b, i : At(b, i) /\ data[b][i] = peek.key /\ Sought(b, i)
    BY <1>0, <1>4 DEF PeekInv, PeekSure, PeekFinds
  <2>3. Sought(b, i)'
    BY <1>0, <1>1, <1>2, <2>1, <2>2 DEF Sought
  <2>4. At(b, i)' /\ data'[b][i] = peek'.key
    BY <1>1, <1>2, <2>2
  <2> QED BY <2>1, <2>3, <2>4 DEF PeekFinds
<1>5. PeekSure'
  BY <1>1, <1>2, <1>4 DEF PeekInv, PeekSure
<1> QED BY <1>1, <1>3, <1>5 DEF PeekInv

\* The bitmaps are loaded.
LEMMA PeekBitmap ==
  ASSUME EntryInv, PeekInv, SearchOcc \/ SearchRem
  PROVE  PeekInv'
<1>0. /\ readerUnchanged /\ peek.pc \in {"bitmaps", "occ", "rem"}
      /\ \/ /\ peek.pc \in {"bitmaps", "occ"}
            /\ peek' = [peek EXCEPT !.occ = occ[peek.b],
                                    !.pc = IF peek.pc = "occ" THEN "match" ELSE "rem"]
         \/ /\ peek.pc \in {"bitmaps", "rem"}
            /\ peek' = [peek EXCEPT !.rem = rem[peek.b],
                                    !.pc = IF peek.pc = "rem" THEN "match" ELSE "occ"]
  BY DEF SearchOcc, SearchRem
<1>1. Chain' = Chain /\ (\A b, i : At(b, i)' <=> At(b, i))
      /\ UNCHANGED <<type, dropped, killed, occ, data, pc, op, live>>
  BY <1>0, ReaderFacts
<1>2. /\ peek.b \in Blocks /\ peek.occ \in SUBSET SlotsOf(0) /\ peek.rem \in SUBSET SlotsOf(0)
      /\ occ[peek.b] \in SUBSET SlotsOf(0) /\ rem[peek.b] \in SUBSET SlotsOf(0)
      /\ peek \in PeekTypes
  BY DEF PeekInv, PeekTypes, EntryInv, TypeInv
<1>3. /\ peek' \in PeekTypes /\ peek'.pc \in {"occ", "rem", "match"}
      /\ peek'.b = peek.b /\ peek'.key = peek.key /\ peek'.sure = peek.sure
      /\ peek'.pc \in {"rem", "match"} => peek'.occ = occ[peek.b] \/ (peek.pc = "rem" /\ peek'.occ = peek.occ)
      /\ peek'.pc \in {"occ", "match"} => peek'.rem = rem[peek.b] \/ (peek.pc = "occ" /\ peek'.rem = peek.rem)
  <2>1. CASE peek' = [peek EXCEPT !.occ = occ[peek.b],
                                  !.pc = IF peek.pc = "occ" THEN "match" ELSE "rem"]
             /\ peek.pc \in {"bitmaps", "occ"}
    BY <1>2, <2>1 DEF PeekTypes, PeekPCs
  <2>2. CASE peek' = [peek EXCEPT !.rem = rem[peek.b],
                                  !.pc = IF peek.pc = "rem" THEN "match" ELSE "occ"]
             /\ peek.pc \in {"bitmaps", "rem"}
    BY <1>2, <2>2 DEF PeekTypes, PeekPCs
  <2> QED BY <1>0, <2>1, <2>2
<1>4. PeekOn'
  BY <1>0, <1>1, <1>3 DEF PeekInv, PeekOn
<1>5. PeekOcc'
  BY <1>0, <1>1, <1>3 DEF PeekInv, PeekOcc
<1>6. ASSUME peek.sure PROVE PeekFinds'
  <2>1. PICK b, i : At(b, i) /\ data[b][i] = peek.key /\ Sought(b, i)
    BY <1>0, <1>6 DEF PeekInv, PeekSure, PeekFinds
  <2>2. type = "OPTIMISTIC"
    BY <1>0 DEF PeekInv, PeekOn
  <2>3. i \in occ[b] /\ i \notin rem[b]
    BY <2>1, <2>2 DEF At, Valid
  <2>4. Sought(b, i)'
    <3>1. CASE Before(Chain, peek.b, b)
      BY <1>1, <1>3, <3>1 DEF Sought
    <3>2. CASE ~Before(Chain, peek.b, b)
      <4>1. /\ b = peek.b /\ (peek.pc = "rem" => i \in peek.occ)
            /\ (peek.pc = "occ" => i \notin peek.rem)
        BY <2>1, <3>2 DEF Sought
      <4>2. peek'.pc \in {"rem", "match"} => i \in peek'.occ
        BY <1>3, <2>3, <4>1
      <4>3. peek'.pc \in {"occ", "match"} => i \notin peek'.rem
        BY <1>3, <2>3, <4>1
      <4> QED BY <1>3, <4>1, <4>2, <4>3 DEF Sought
    <3> QED BY <3>1, <3>2
  <2>5. At(b, i)' /\ data'[b][i] = peek'.key
    BY <1>1, <1>3, <2>1
  <2> QED BY <2>4, <2>5 DEF PeekFinds
<1>7. PeekSure'
  BY <1>1, <1>3, <1>6 DEF PeekInv, PeekSure
<1> QED BY <1>3, <1>4, <1>5, <1>7 DEF PeekInv

\* The entries of the block are compared.
LEMMA PeekMatch ==
  ASSUME EntryInv, PeekInv, SearchMatch
  PROVE  PeekInv'
<1> DEFINE hit == \E i \in peek.occ \ peek.rem : data[peek.b][i] = peek.key
<1>0. /\ peek.pc = "match" /\ readerUnchanged
      /\ peek' = [peek EXCEPT !.pc = IF hit THEN "found" ELSE "link"]
  BY DEF SearchMatch
<1>01. ASSUME NEW b, NEW i, data[b][i] = peek.key, Sought(b, i), ~hit
       PROVE  Before(Chain, peek.b, b)
  BY <1>0, <1>01 DEF Sought
<1> HIDE DEF hit
<1>1. /\ peek' \in PeekTypes /\ peek'.pc = (IF hit THEN "found" ELSE "link")
      /\ peek'.b = peek.b /\ peek'.key = peek.key /\ peek'.sure = peek.sure
  BY <1>0 DEF PeekInv, PeekTypes, PeekPCs
<1>2. Chain' = Chain /\ (\A b, i : At(b, i)' <=> At(b, i))
      /\ UNCHANGED <<type, dropped, killed, occ, data, pc, op, live>>
  BY <1>0, ReaderFacts
<1>3. PeekOn' /\ PeekOcc'
  BY <1>0, <1>1, <1>2 DEF PeekInv, PeekOn, PeekOcc
<1>4. ASSUME peek.sure, ~hit PROVE PeekFinds'
  <2>1. PICK b, i : At(b, i) /\ data[b][i] = peek.key /\ Sought(b, i)
    BY <1>0, <1>4 DEF PeekInv, PeekSure, PeekFinds
  <2>2. Before(Chain, peek.b, b)
    BY <1>01, <1>4, <2>1
  <2>3. Sought(b, i)'
    BY <1>1, <1>2, <2>2 DEF Sought
  <2>4. At(b, i)' /\ data'[b][i] = peek'.key
    BY <1>1, <1>2, <2>1
  <2> QED BY <2>3, <2>4 DEF PeekFinds
<1>5. PeekSure'
  BY <1>1, <1>2, <1>4 DEF PeekInv, PeekSure
<1> QED BY <1>1, <1>3, <1>5 DEF PeekInv

\* The reader goes to the next block.
LEMMA PeekLink ==
  ASSUME EntryInv, PeekInv, SearchLink
  PROVE  PeekInv'
<1>0. /\ peek.pc = "link" /\ readerUnchanged
      /\ peek' = [peek EXCEPT !.pc = IF link[peek.b] = 0 THEN "none" ELSE "bitmaps",
                              !.b = link[peek.b]]
  BY DEF SearchLink
<1>01. link[peek.b] \in Blocks
  BY DEF EntryInv, TypeInv, PeekInv, PeekTypes
<1>1. /\ peek' \in PeekTypes /\ peek'.pc = (IF link[peek.b] = 0 THEN "none" ELSE "bitmaps")
      /\ peek'.b = link[peek.b] /\ peek'.key = peek.key /\ peek'.sure = peek.sure
  BY <1>0, <1>01 DEF PeekInv, PeekTypes, PeekPCs
<1>2. Chain' = Chain /\ (\A b, i : At(b, i)' <=> At(b, i))
      /\ UNCHANGED <<type, dropped, killed, occ, data, pc, op, live>>
  BY <1>0, ReaderFacts
<1>3. PeekOn' /\ PeekOcc'
  <2>1. Path(link, Chain)
    BY DEF EntryInv, IsChain
  <2>2. On(Chain, peek.b) => On(Chain, link[peek.b])
    BY <2>1, PathFacts
  <2> QED BY <1>0, <1>1, <1>2, <2>2 DEF PeekInv, PeekOn, PeekOcc
<1>4. ASSUME peek.sure PROVE link[peek.b] # 0 /\ PeekFinds'
  <2>1. PICK b, i : At(b, i) /\ data[b][i] = peek.key /\ Sought(b, i)
    BY <1>0, <1>4 DEF PeekInv, PeekSure, PeekFinds
  <2>2. Before(Chain, peek.b, b) /\ Path(link, Chain)
    BY <1>0, <2>1 DEF Sought, EntryInv, IsChain
  <2>3. link[peek.b] # 0 /\ (b = link[peek.b] \/ Before(Chain, link[peek.b], b))
    BY <2>2, PathFacts
  <2>4. Sought(b, i)'
    BY <1>1, <1>2, <2>3 DEF Sought
  <2>5. At(b, i)' /\ data'[b][i] = peek'.key
    BY <1>1, <1>2, <2>1
  <2> QED BY <2>3, <2>4, <2>5 DEF PeekFinds
<1>5. PeekSure'
  BY <1>1, <1>2, <1>4 DEF PeekInv, PeekSure
<1> QED BY <1>1, <1>3, <1>5 DEF PeekInv

\* A reader that has ended knows nothing.
LEMMA PeekEnds ==
  ASSUME peek' = NoPeek
  PROVE  PeekInv'
<1>1. peek'.pc = "idle" /\ ~peek'.sure /\ peek' \in PeekTypes
  BY Numbers DEF NoPeek, PeekTypes, PeekPCs
<1> QED BY <1>1 DEF PeekInv, PeekOn, PeekOcc, PeekSure

\* At first there is no reader.
LEMMA PeekInit ==
  ASSUME Init
  PROVE  PeekInv
<1>1. peek = NoPeek
  BY DEF Init
<1>2. peek.pc = "idle" /\ ~peek.sure /\ peek \in PeekTypes
  BY <1>1, Numbers DEF NoPeek, PeekTypes, PeekPCs
<1> QED BY <1>2 DEF PeekInv, PeekOn, PeekOcc, PeekSure

-----------------------------------------------------------------------------
(* The invariant                                                            *)

\* The inductive invariant.
BucketInv == EntryInv /\ LruInv /\ PeekInv

\* The beginning of an operation on a key keeps the invariant.
LEMMA StartKeeps ==
  ASSUME BucketInv, NEW name, NEW k \in Keys, NEW where, StartCase(name, k, where),
         Start(name, k, where)
  PROVE  BucketInv'
<1>0. EntryInv /\ LruInv /\ PeekInv
  BY DEF BucketInv
<1>1. /\ pc = "unlocked" /\ ~killed /\ ~dropped /\ pc' = where /\ UNCHANGED blockVars
      /\ UNCHANGED <<type, occ, killed, dropped, lru, recent, peek, live>>
  BY DEF Start, blockVars, history
<1>2. pc' # "erase"
  BY <1>1 DEF StartCase
<1>3. EntryInv'
  BY <1>0, StartStep
<1>4. LruInv'
  BY <1>0, <1>1, LruStart
<1>5. PeekInv'
  BY <1>0, <1>1, <1>2, PeekSameBlocks
<1> QED BY <1>3, <1>4, <1>5 DEF BucketInv

\* Each action that begins with a key keeps the invariant.
LEMMA KeyKeeps ==
  ASSUME BucketInv, NEW k \in KeysOf[type],
         \/ StartInsert(k) \/ StartPut(k) \/ StartGet(k) \/ StartRemove(k) \/ StartUpdate(k)
         \/ Search(k)
  PROVE  BucketInv'
<1>0. k \in Keys
  BY BucketAssumption DEF BucketInv, EntryInv, TypeInv
<1>1. CASE StartInsert(k)
  <2>1. Start("insert", k, "write") /\ StartCase("insert", k, "write")
    BY <1>1 DEF StartInsert, StartCase
  <2> QED BY <1>0, <2>1, StartKeeps
<1>2. CASE StartPut(k)
  <2>1. Start("put", k, "evict") /\ StartCase("put", k, "evict")
    BY <1>2 DEF StartPut, StartCase
  <2> QED BY <1>0, <2>1, StartKeeps
<1>3. CASE StartGet(k)
  <2>1. Start("get", k, "promote") /\ StartCase("get", k, "promote")
    BY <1>3 DEF StartGet, StartCase
  <2> QED BY <1>0, <2>1, StartKeeps
<1>4. CASE StartRemove(k)
  <2>1. Start("remove", k, "uncount") /\ StartCase("remove", k, "uncount")
    BY <1>4 DEF StartRemove, StartCase
  <2> QED BY <1>0, <2>1, StartKeeps
<1>5. CASE StartUpdate(k)
  <2>1. Start("update", k, "write") /\ StartCase("update", k, "write")
    BY <1>5 DEF StartUpdate, StartCase
  <2> QED BY <1>0, <2>1, StartKeeps
<1>6. CASE Search(k)
  <2>1. readerUnchanged
    BY <1>6 DEF Search
  <2> QED BY <1>0, <1>6, <2>1, ReaderKeepsEntries, LruReader, PeekSearch DEF BucketInv
<1> QED BY <1>1, <1>2, <1>3, <1>4, <1>5, <1>6

\* The steps that take an entry into the bucket or use it.
LEMMA InsertKeeps ==
  ASSUME BucketInv, EvictLruHead \/ InsertWrite \/ InsertPublish \/ InsertCount \/ UpdateLruTail
  PROVE  BucketInv'
<1>0. EntryInv /\ LruInv /\ PeekInv
  BY DEF BucketInv
<1>1. CASE EvictLruHead
  <2>1. EntryInv' /\ LruInv'
    BY <1>0, <1>1, VictimIs, EvictStep, LruEvict
  <2>2. type # "OPTIMISTIC" /\ peek' = peek
    BY <1>0, <1>1 DEF EvictLruHead, EntryInv, Purpose
  <2>3. PeekInv'
    BY <1>0, <2>2, PeekOptimistic, PeekIdle
  <2> QED BY <2>1, <2>3 DEF BucketInv
<1>2. CASE InsertWrite
  <2>1. EntryInv' /\ Kept
    BY <1>0, <1>2, InsertWriteStep
  <2>2. /\ pc = "write" /\ pc' = "publish"
        /\ UNCHANGED <<type, dropped, killed, lru, op, peek, live, recent>>
    BY <1>2 DEF InsertWrite, history
  <2>3. op.name # "relocate" /\ \A i \in occ[0] : i \in occ'[0]
    <3>1. On(Chain, 0)
      BY <1>0, PathFacts DEF EntryInv, IsChain
    <3> QED BY <1>0, <2>1, <2>2, <3>1 DEF Kept, EntryInv, Purpose, Adding
  <2>4. LruInv'
    BY <1>0, <2>2, <2>3, LruSameOp
  <2>5. PeekInv'
    BY <1>0, <2>1, <2>2, PeekAdds
  <2> QED BY <2>1, <2>4, <2>5 DEF BucketInv
<1>3. CASE InsertPublish
  <2>1. EntryInv' /\ Kept
    BY <1>0, <1>3, InsertPublishStep
  <2>2. /\ pc = "publish" /\ pc' = "count"
        /\ UNCHANGED <<type, dropped, killed, lru, op, peek, live, recent>>
    BY <1>3 DEF InsertPublish, history
  <2>3. op.name # "relocate" /\ \A i \in occ[0] : i \in occ'[0]
    <3>1. On(Chain, 0)
      BY <1>0, PathFacts DEF EntryInv, IsChain
    <3> QED BY <1>0, <2>1, <2>2, <3>1 DEF Kept, EntryInv, Purpose, Adding
  <2>4. LruInv'
    BY <1>0, <2>2, <2>3, LruSameOp
  <2>5. PeekInv'
    BY <1>0, <2>1, <2>2, PeekAdds
  <2> QED BY <2>1, <2>4, <2>5 DEF BucketInv
<1>4. CASE InsertCount
  <2>1. EntryInv'
    BY <1>0, <1>4, InsertCountStep
  <2>2. /\ pc = "count" /\ live \subseteq live' /\ UNCHANGED blockVars
        /\ UNCHANGED <<type, dropped, killed, lru, peek, recent, occ>>
    BY <1>4 DEF InsertCount, blockVars
  <2>3. op.name # "relocate" /\ op.name \in {"insert", "put", "update"}
    BY <1>0, <2>2 DEF EntryInv, Purpose, Adding
  <2>4. pc' # "erase"
    BY <1>4, <2>3, UnlockFacts DEF InsertCount
  <2>5. LruInv'
    BY <1>0, <2>2, <2>3, LruSameOp
  <2>6. PeekInv'
    BY <1>0, <2>2, <2>4, PeekSameBlocks
  <2> QED BY <2>1, <2>5, <2>6 DEF BucketInv
<1>5. CASE UpdateLruTail
  <2>1. EntryInv' /\ LruInv'
    BY <1>0, <1>5, UpdateLruTailStep, LruPromote
  <2>2. type # "OPTIMISTIC" /\ peek' = peek
    BY <1>0, <1>5 DEF UpdateLruTail, EntryInv, Purpose
  <2>3. PeekInv'
    BY <1>0, <2>2, PeekOptimistic, PeekIdle
  <2> QED BY <2>1, <2>3 DEF BucketInv
<1> QED BY <1>1, <1>2, <1>3, <1>4, <1>5

\* The steps that erase an entry.
LEMMA EraseKeeps ==
  ASSUME BucketInv, EraseCount \/ EraseEntry
  PROVE  BucketInv'
<1>0. EntryInv /\ LruInv /\ PeekInv
  BY DEF BucketInv
<1>1. CASE EraseCount
  <2>1. EntryInv' /\ PeekInv'
    BY <1>0, <1>1, EraseCountStep, PeekEraseCount
  <2>2. pc = "uncount" /\ UNCHANGED <<type, dropped, killed, lru, recent, occ, op>>
    BY <1>1 DEF EraseCount, blockVars, history
  <2>3. LruInv'
    BY <1>0, <2>2, LruSameOp
  <2> QED BY <2>1, <2>3 DEF BucketInv
<1>2. CASE EraseEntry
  BY <1>0, <1>2, EraseEntryStep, LruErase, PeekErase DEF BucketInv
<1> QED BY <1>1, <1>2

\* The steps of a walk.
LEMMA WalkKeeps ==
  ASSUME BucketInv,
         \/ \E name \in {"retain", "prune", "relocate"} : StartWalk(name)
         \/ WalkNext \/ Retain \/ Relocate \/ WalkEnds
         \/ \E outcome \in {"keep", "consume", "panic"} : KeepOrConsume(outcome)
  PROVE  BucketInv'
<1>0. EntryInv /\ LruInv /\ PeekInv
  BY DEF BucketInv
<1>1. ASSUME NEW name \in {"retain", "prune", "relocate"}, StartWalk(name) PROVE BucketInv'
  <2>1. EntryInv'
    BY <1>0, <1>1, StartWalkStep DEF WalkNames
  <2>2. /\ pc = "unlocked" /\ ~killed /\ ~dropped /\ UNCHANGED blockVars /\ pc' # "erase"
        /\ UNCHANGED <<type, occ, killed, dropped, lru, recent, peek, live>>
    BY <1>1 DEF StartWalk, blockVars, history
  <2>3. LruInv' /\ PeekInv'
    BY <1>0, <2>2, LruStart, PeekSameBlocks
  <2> QED BY <2>1, <2>3 DEF BucketInv
<1>2. CASE WalkNext
  <2>1. EntryInv'
    BY <1>0, <1>2, WalkNextStep
  <2>2. /\ pc = "walk" /\ UNCHANGED blockVars /\ pc' # "erase"
        /\ UNCHANGED <<type, occ, killed, dropped, lru, recent, peek, live>>
    BY <1>2 DEF WalkNext, blockVars, history
  <2>3. op'.name = op.name
    <3>1. op = [name |-> op.name, key |-> op.key, left |-> op.left]
      BY <1>0 DEF EntryInv, TypeInv
    <3> QED BY <1>2, <3>1 DEF WalkNext
  <2>4. LruInv' /\ PeekInv'
    BY <1>0, <2>2, <2>3, LruSameOp, PeekSameBlocks
  <2> QED BY <2>1, <2>4 DEF BucketInv
<1>3. CASE Retain
  <2>1. EntryInv'
    BY <1>0, <1>3, RetainStep
  <2>2. /\ pc = "at" /\ UNCHANGED blockVars /\ pc' # "erase"
        /\ UNCHANGED <<type, occ, killed, dropped, lru, recent, peek, live, op>>
    BY <1>3 DEF Retain, blockVars, history
  <2>3. LruInv' /\ PeekInv'
    BY <1>0, <2>2, LruSameOp, PeekSameBlocks
  <2> QED BY <2>1, <2>3 DEF BucketInv
<1>4. CASE Relocate
  <2>1. EntryInv'
    BY <1>0, <1>4, RelocateStep
  <2>2. /\ pc = "at" /\ op'.name = "relocate" /\ pc' # "erase"
        /\ UNCHANGED <<type, killed, dropped, lru, recent, peek>>
    BY <1>4 DEF Relocate
  <2>3. LruInv'
    BY <1>0, <2>2, LruKept
  <2>4. CASE type = "OPTIMISTIC"
    <3>1. UNCHANGED blockVars /\ live \subseteq live' /\ pc # "unlocked"
      BY <1>4, <2>4 DEF Relocate
    <3>2. PeekInv'
      BY <1>0, <2>2, <3>1, PeekSameBlocks
    <3> QED BY <2>1, <2>3, <3>2 DEF BucketInv
  <2>5. CASE type # "OPTIMISTIC"
    <3>1. PeekInv'
      BY <1>0, <2>2, <2>5, PeekOptimistic, PeekIdle
    <3> QED BY <2>1, <2>3, <3>1 DEF BucketInv
  <2> QED BY <2>4, <2>5
<1>5. CASE WalkEnds
  <2>1. EntryInv'
    BY <1>0, <1>5, WalkEndsStep
  <2>2. /\ pc = "walk" /\ UNCHANGED blockVars /\ pc' # "erase"
        /\ UNCHANGED <<type, occ, killed, dropped, lru, recent, peek, live>>
    BY <1>5, UnlockFacts DEF WalkEnds, blockVars, history
  <2>3. op.name # "relocate" \/ op'.name = "relocate"
    BY <1>5 DEF WalkEnds
  <2>4. LruInv' /\ PeekInv'
    BY <1>0, <2>2, <2>3, LruSameOp, PeekSameBlocks
  <2> QED BY <2>1, <2>4 DEF BucketInv
<1>6. ASSUME NEW outcome \in {"keep", "consume", "panic"}, KeepOrConsume(outcome) PROVE BucketInv'
  <2>1. EntryInv'
    BY <1>0, <1>6, KeepOrConsumeStep
  <2>2. type = "SEQUENTIAL" /\ UNCHANGED <<type, lru, recent, peek>>
    BY <1>0, <1>6 DEF KeepOrConsume, EntryInv, Purpose
  <2>3. LruInv' /\ PeekInv'
    BY <1>0, <2>2, LruKept, PeekOptimistic, PeekIdle
  <2> QED BY <2>1, <2>3 DEF BucketInv
<1> QED BY <1>1, <1>2, <1>3, <1>4, <1>5, <1>6

\* The steps that end the bucket.
LEMMA EndKeeps ==
  ASSUME BucketInv, Kill \/ ClearLinks \/ DropEntries \/ \E b \in Linked : DropLink(b)
  PROVE  BucketInv'
<1>0. EntryInv /\ LruInv /\ PeekInv
  BY DEF BucketInv
<1>1. CASE Kill
  <2>1. UNCHANGED <<type, lru, recent>> /\ killed'
    BY <1>1 DEF Kill, history
  <2> QED BY <1>0, <1>1, <2>1, KillStep, LruKept, PeekKill DEF BucketInv
<1>2. CASE ClearLinks
  <2>1. UNCHANGED <<type, lru, recent>> /\ killed'
    BY <1>0, <1>2 DEF ClearLinks, history, EntryInv, Purpose
  <2> QED BY <1>0, <1>2, <2>1, ClearLinksStep, LruKept, PeekClear DEF BucketInv
<1>3. CASE DropEntries
  <2>1. UNCHANGED <<type, lru, recent, peek>> /\ dropped' /\ peek.pc = "idle"
    BY <1>3 DEF DropEntries
  <2> QED BY <1>0, <1>3, <2>1, DropEntriesStep, LruKept, PeekIdle DEF BucketInv
<1>4. ASSUME NEW b \in Linked, DropLink(b) PROVE BucketInv'
  <2>1. UNCHANGED <<type, lru, recent, peek>> /\ killed' /\ peek.pc = "idle"
    BY <1>4 DEF DropLink, history
  <2> QED BY <1>0, <1>4, <2>1, DropLinkStep, LruKept, PeekIdle DEF BucketInv
<1> QED BY <1>1, <1>2, <1>3, <1>4

\* The steps of the reader.
LEMMA ReaderKeeps ==
  ASSUME BucketInv,
         SearchNum \/ SearchOcc \/ SearchRem \/ SearchMatch \/ SearchLink \/ SearchEnds
  PROVE  BucketInv'
<1>0. EntryInv /\ LruInv /\ PeekInv
  BY DEF BucketInv
<1>1. readerUnchanged
  BY DEF SearchNum, SearchOcc, SearchRem, SearchMatch, SearchLink, SearchEnds
<1>2. EntryInv' /\ LruInv'
  BY <1>0, <1>1, ReaderKeepsEntries, LruReader
<1>3. SearchEnds => peek' = NoPeek
  BY DEF SearchEnds
<1>4. PeekInv'
  BY <1>0, <1>3, PeekNum, PeekBitmap, PeekMatch, PeekLink, PeekEnds
<1> QED BY <1>2, <1>4 DEF BucketInv

\* A step that changes nothing keeps the invariant.
LEMMA StutterKeeps ==
  ASSUME BucketInv, UNCHANGED vars
  PROVE  BucketInv'
<1>1. readerUnchanged /\ peek' = peek
  BY DEF vars, readerUnchanged, blockVars, history
<1>2. EntryInv' /\ LruInv'
  BY <1>1, ReaderKeepsEntries, LruReader DEF BucketInv
<1>3. /\ Chain' = Chain /\ (\A b, i : At(b, i)' <=> At(b, i))
      /\ UNCHANGED <<type, dropped, killed, occ, data, pc, op, live, peek>>
  BY <1>1, ReaderFacts
<1>4. PeekInv /\ (PeekFinds => PeekFinds')
  BY <1>3 DEF BucketInv, PeekFinds, Sought
<1>5. PeekInv'
  BY <1>3, <1>4 DEF PeekInv, PeekOn, PeekOcc, PeekSure
<1> QED BY <1>2, <1>5 DEF BucketInv

\* The invariant holds in every state: the chain of blocks, the bitmaps, the
\* entries, the walk of the owner, the list of recently used slots and what the
\* reader can still find.
THEOREM BucketInvariant == Spec => []BucketInv
<1>1. Init => BucketInv
  BY InitEntryInv, LruInit, PeekInit DEF BucketInv
<1>2. BucketInv /\ [Next]_vars => BucketInv'
  <2> SUFFICES ASSUME BucketInv, [Next]_vars PROVE BucketInv'
    OBVIOUS
  <2>1. CASE UNCHANGED vars
    BY <2>1, StutterKeeps
  <2>2. CASE Next
    BY <2>2, KeyKeeps, InsertKeeps, EraseKeeps, WalkKeeps, EndKeeps, ReaderKeeps DEF Next
  <2> QED BY <2>1, <2>2
<1> QED BY <1>1, <1>2, PTL DEF Spec

-----------------------------------------------------------------------------
(* What the invariant gives                                                 *)

\* The slots of the blocks that can be reached and hold an entry.
FilledSlots ==
  {e \in Blocks \X SlotsOf(0) : e[1] \in ToSet(Chain) /\ e[2] \in Valid(e[1])}

\* The filled slots are where the entries are.
LEMMA FilledIs ==
  ASSUME EntryInv
  PROVE  /\ \A e \in FilledSlots : At(e[1], e[2]) /\ e = <<e[1], e[2]>>
         /\ \A b, i : At(b, i) => <<b, i>> \in FilledSlots
<1>0. \A b : b \in ToSet(Chain) <=> On(Chain, b)
  BY OnIsToSet DEF EntryInv
<1>1. \A e \in FilledSlots : At(e[1], e[2]) /\ e = <<e[1], e[2]>>
  BY <1>0 DEF FilledSlots, At
<1>2. ASSUME NEW b, NEW i, At(b, i) PROVE <<b, i>> \in FilledSlots
  <2>1. b \in Blocks /\ i \in SlotsOf(0) /\ On(Chain, b) /\ i \in Valid(b)
    BY <1>2, AtFacts, SlotFacts DEF EntryInv
  <2>2. PICK e : e = <<b, i>>
    OBVIOUS
  <2>3. e \in Blocks \X SlotsOf(0) /\ e[1] = b /\ e[2] = i
    BY <2>1, <2>2
  <2>4. e \in FilledSlots
    BY <1>0, <2>1, <2>3 DEF FilledSlots
  <2> QED BY <2>2, <2>4
<1> QED BY <1>1, <1>2

\* Each live key is in one slot.
LEMMA KeyOnce ==
  ASSUME EntryInv, pc = "unlocked"
  PROVE  /\ \A e \in FilledSlots : data[e[1]][e[2]] \in live
         /\ \A e, f \in FilledSlots : data[e[1]][e[2]] = data[f[1]][f[2]] => e = f
         /\ \A k \in live : \E e \in FilledSlots : data[e[1]][e[2]] = k
<1>0. /\ \A b, i : At(b, i) => data[b][i] \in live
      /\ \A k \in live : \E b, i : At(b, i) /\ data[b][i] = k
      /\ \A b, i, c, j : At(b, i) /\ At(c, j) /\ data[b][i] = data[c][j] => b = c /\ i = j
  BY DEF EntryInv, Entries, Updating
<1>1. \A e \in FilledSlots : data[e[1]][e[2]] \in live
  BY <1>0, FilledIs
<1>2. ASSUME NEW e \in FilledSlots, NEW f \in FilledSlots, data[e[1]][e[2]] = data[f[1]][f[2]]
      PROVE  e = f
  <2>1. At(e[1], e[2]) /\ At(f[1], f[2]) /\ e = <<e[1], e[2]>> /\ f = <<f[1], f[2]>>
    BY FilledIs
  <2>2. e[1] = f[1] /\ e[2] = f[2]
    BY <1>0, <1>2, <2>1
  <2> QED BY <2>1, <2>2
<1>3. ASSUME NEW k \in live PROVE \E e \in FilledSlots : data[e[1]][e[2]] = k
  <2>1. PICK b, i : At(b, i) /\ data[b][i] = k
    BY <1>0
  <2>2. PICK e : e = <<b, i>>
    OBVIOUS
  <2>3. e \in FilledSlots /\ e[1] = b /\ e[2] = i
    BY <2>1, <2>2, FilledIs
  <2> QED BY <2>1, <2>3
<1> QED BY <1>1, <1>2, <1>3

\* There are as many filled slots as live keys.
LEMMA CountFilled ==
  ASSUME EntryInv, pc = "unlocked"
  PROVE  Cardinality(FilledSlots) = Cardinality(live)
<1> DEFINE h == [k \in live |-> CHOOSE e \in FilledSlots : data[e[1]][e[2]] = k]
<1>1. ASSUME NEW k \in live
      PROVE  h[k] \in FilledSlots /\ data[h[k][1]][h[k][2]] = k
  <2>1. \E e \in FilledSlots : data[e[1]][e[2]] = k
    BY KeyOnce
  <2>2. h[k] = CHOOSE e \in FilledSlots : data[e[1]][e[2]] = k
    OBVIOUS
  <2> HIDE DEF h
  <2> QED BY <2>1, <2>2
<1>2. h \in [live -> FilledSlots]
  <2>1. h = [k \in live |-> h[k]]
    OBVIOUS
  <2> HIDE DEF h
  <2> QED BY <1>1, <2>1
<1> HIDE DEF h
<1>3. \A k, m \in live : h[k] = h[m] => k = m
  BY <1>1
<1>4. \A e \in FilledSlots : \E k \in live : h[k] = e
  <2>1. TAKE e \in FilledSlots
  <2>2. PICK k \in live : data[e[1]][e[2]] = k
    BY KeyOnce
  <2>3. h[k] = e
    BY <1>1, <2>2, KeyOnce
  <2> QED BY <2>3
<1>5. h \in Bijection(live, FilledSlots)
  BY <1>2, <1>3, <1>4 DEF Bijection, Injection, Surjection, IsInjective
<1>6. ExistsBijection(live, FilledSlots)
  BY <1>5 DEF ExistsBijection
<1>7. IsFiniteSet(live)
  BY DEF EntryInv, TypeInv
<1> QED BY <1>6, <1>7, FS_Bijection

\* A live key is in one filled slot, another key in none.
LEMMA OneFilled ==
  ASSUME EntryInv, pc = "unlocked", NEW k
  PROVE  Cardinality({e \in FilledSlots : data[e[1]][e[2]] = k}) = IF k \in live THEN 1 ELSE 0
<1> DEFINE F == {e \in FilledSlots : data[e[1]][e[2]] = k}
<1>1. CASE k \in live
  <2>1. PICK e \in FilledSlots : data[e[1]][e[2]] = k
    BY <1>1, KeyOnce
  <2>2. F = {e}
    BY <2>1, KeyOnce
  <2> HIDE DEF F
  <2>3. Cardinality(F) = 1
    BY <2>2, FS_Singleton
  <2> QED BY <1>1, <2>3 DEF F
<1>2. CASE k \notin live
  <2>1. F = {}
    BY <1>2, KeyOnce
  <2> HIDE DEF F
  <2>2. Cardinality(F) = 0
    BY <2>1, FS_EmptySet
  <2> QED BY <1>2, <2>2 DEF F
<1> QED BY <1>1, <1>2

\* The invariant on the entries implies EntriesExact.
LEMMA ExactOf ==
  ASSUME EntryInv
  PROVE  EntriesExact
<1>0. SUFFICES ASSUME pc = "unlocked"
      PROVE /\ num = Cardinality(FilledSlots) \/ dropped
            /\ \A k \in Keys : Cardinality({e \in FilledSlots : data[e[1]][e[2]] = k})
                                 = IF k \in live THEN 1 ELSE 0
            /\ \A j \in 2 .. Len(Chain) : prev[Chain[j]] = Chain[j - 1]
            /\ \A b \in Blocks : occ[b] = {i \in SlotsOf(b) : data[b][i] # None}
            /\ \A b \in Unused : type # "OPTIMISTIC" => occ[b] = {}
  BY Zenon DEF EntriesExact, FilledSlots
<1>1. ASSUME ~dropped PROVE num = Cardinality(FilledSlots)
  <2>1. IsFiniteSet(live) /\ num = Cardinality(live) + 0
    BY <1>0, <1>1 DEF EntryInv, Counted, TypeInv
  <2>2. Cardinality(live) \in Nat
    BY <2>1, FS_CardinalityType
  <2> QED BY <1>0, <2>1, <2>2, CountFilled
<1>2. \A k \in Keys : Cardinality({e \in FilledSlots : data[e[1]][e[2]] = k})
                        = IF k \in live THEN 1 ELSE 0
  BY <1>0, OneFilled
<1>3. \A j \in 2 .. Len(Chain) : prev[Chain[j]] = Chain[j - 1]
  BY <1>0 DEF EntryInv, BackLinks, Fresh
<1>4. ASSUME NEW b \in Blocks PROVE occ[b] = {i \in SlotsOf(b) : data[b][i] # None}
  <2>1. occ[b] \subseteq SlotsOf(b)
    BY DEF EntryInv, TypeInv
  <2>2. \A i \in SlotsOf(b) : i \in occ[b] <=> data[b][i] # None
    BY <1>0 DEF EntryInv, Bitmaps, Written
  <2> QED BY <2>1, <2>2
<1>5. ASSUME NEW b \in Unused, type # "OPTIMISTIC" PROVE occ[b] = {}
  <2>1. b \in Blocks /\ ~On(Chain, b)
    BY OnIsToSet, Numbers DEF Unused, EntryInv
  <2> QED BY <1>0, <1>5, <2>1 DEF EntryInv, Bitmaps, Fresh
<1> QED BY <1>1, <1>2, <1>3, <1>4, <1>5

\* EntriesExact, for every number of slots and linked blocks: when nobody holds
\* the lock, the valid slots hold each live key once and num_entries counts them,
\* the back links mirror the links, and occupied means initialised.
THEOREM EntriesExactHolds == Spec => []EntriesExact
<1>1. BucketInv => EntriesExact
  BY ExactOf DEF BucketInv
<1> QED BY <1>1, BucketInvariant, PTL

\* LruIsRecency: evict, remove and promote keep the list the order of use, for
\* every number of slots.
THEOREM LruIsRecencyHolds == Spec => []LruIsRecency
<1>1. ASSUME BucketInv PROVE LruIsRecency
  <2>1. pc = "unlocked" => op = NoOp
    BY <1>1 DEF BucketInv, EntryInv, Purpose
  <2>2. pc = "unlocked" => op.name # "relocate"
    BY <2>1, NoOpFacts
  <2> QED BY <1>1, <2>2 DEF BucketInv, LruInv, LruIsRecency
<1> QED BY <1>1, BucketInvariant, PTL

\* WalkMeetsAll: a walk that comes to its end has met every entry, although it
\* erases entries and unlinks blocks under the pointer.
THEOREM WalkMeetsAllHolds == Spec => []WalkMeetsAll
<1>1. ASSUME BucketInv PROVE WalkMeetsAll
  <2>1. Purpose /\ WalkInv
    BY <1>1 DEF BucketInv, EntryInv
  <2>2. pc = "walk" => Walking
    BY <2>1 DEF Purpose, Walking
  <2> QED BY <2>1, <2>2 DEF WalkMeetsAll, WalkInv, Purpose
<1> QED BY <1>1, BucketInvariant, PTL

\* PeekFindsUntouched: a lock-free search compares initialised entries only, and
\* misses a key only if it was absent at the start or has been taken since.
THEOREM PeekFindsUntouchedHolds == Spec => []PeekFindsUntouched
<1>1. ASSUME BucketInv PROVE PeekFindsUntouched
  <2>0. PeekInv /\ TypeInv /\ Bitmaps
    BY <1>1 DEF BucketInv, EntryInv
  <2>1. ASSUME peek.pc = "match", NEW i \in peek.occ \ peek.rem PROVE data[peek.b][i] # None
    <3>1. peek.b \in Blocks /\ i \in occ[peek.b]
      BY <2>0, <2>1 DEF PeekInv, PeekTypes, PeekOcc
    <3>2. i \in SlotsOf(peek.b)
      BY <2>0, <3>1 DEF TypeInv
    <3> QED BY <2>0, <3>1, <3>2 DEF Bitmaps
  <2>2. peek.pc = "none" => ~peek.sure
    BY <2>0 DEF PeekInv, PeekSure
  <2> QED BY <2>1, <2>2 DEF PeekFindsUntouched
<1> QED BY <1>1, BucketInvariant, PTL

=============================================================================
