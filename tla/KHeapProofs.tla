---------------------------- MODULE KHeapProofs ----------------------------
(* Theorems about KHeap and HeapClients, for heaps of any size and clients *)
(* that ask for anything, as long as no sum in kmalloc leaves its word.    *)
(* (KHeap_large.cfg shows what a larger request does.)                     *)
EXTENDS HeapClients, WellFoundedInduction, TLAPS

(* What kmalloc adds to a request of n bytes fits a signed word, and also  *)
(* added to an address of the heap an unsigned one: on the machine, with a *)
(* heap below 16 MB, every request under 2 GB less a few bytes.            *)
Most(n) == n + ALIGNMENT + HEADER_SIZE + 2 * MIN_BLOCK_SIZE

RequestsFit ==
  \A n \in Sizes : Most(n) < WORD \div 2 /\ heap_max + Most(n) < WORD

----------------------------------------------------------------------------
(* Arithmetic.                                                             *)

(* A non-empty set of naturals has a least element: a search of the kernel *)
(* that has a hit returns one.                                             *)
LEMMA LeastFacts ==
  ASSUME NEW S \in SUBSET Nat, S # {}
  PROVE  Least(S) \in S /\ \A y \in S : Least(S) <= y
  <1> DEFINE R == {ss \in Nat \X Nat : ss[1] < ss[2]}
  <1>1. IsWellFoundedOn(R, Nat)
    BY NatLessThanWellFounded DEF OpToRel
  <1>2. PICK x \in S : \A y \in S : ~ (<<y, x>> \in R)
    <2> HIDE DEF R
    <2> QED BY <1>1, WFMin, Zenon
  <1>3. ASSUME NEW y \in S PROVE x <= y
    <2>1. <<y, x>> \in Nat \X Nat
      OBVIOUS
    <2>2. y < x => <<y, x>> \in R
      BY <2>1
    <2> QED BY <2>2, <1>2
  <1> QED BY <1>3, Zenon DEF Least

LEMMA ModBelow ==
  ASSUME NEW w \in Nat, NEW n \in Nat, n < w
  PROVE  n % w = n
  OBVIOUS

LEMMA RoundUp ==
  ASSUME NEW n \in Nat, NEW a \in Nat \ {0}
  PROVE  LET m == ((n + a - 1) \div a) * a
         IN  m \in Nat /\ m >= n /\ m < n + a
  OBVIOUS

LEMMA BlockSizeFacts ==
  ASSUME RequestsFit, NEW n \in Sizes
  PROVE  /\ BlockSize(n) \in Nat
         /\ BlockSize(n) >= n
         /\ BlockSize(n) >= MIN_BLOCK_SIZE
         /\ BlockSize(n) + HEADER_SIZE + MIN_BLOCK_SIZE < Most(n)
  <1>1. n \in Nat /\ n + ALIGNMENT - 1 < WORD /\ n + ALIGNMENT - 1 \in Nat
    BY KHeapAssumption DEF RequestsFit, Most
  <1>2. (n + ALIGNMENT - 1) % WORD = n + ALIGNMENT - 1
    BY <1>1, KHeapAssumption
  <1>3. ALIGN(n) = ((n + ALIGNMENT - 1) \div ALIGNMENT) * ALIGNMENT
    BY <1>2 DEF ALIGN
  <1>4. ALIGN(n) \in Nat /\ ALIGN(n) >= n /\ ALIGN(n) < n + ALIGNMENT
    BY <1>1, <1>3, RoundUp, KHeapAssumption, Zenon
  <1> QED BY <1>1, <1>4, KHeapAssumption DEF BlockSize, Most

----------------------------------------------------------------------------
(* Lists of blocks.                                                        *)

(* The elements from i to j - 1 replaced by those of mid.                  *)
Spliced(bs, mid, i, j) == SubSeq(bs, 1, i - 1) \o mid \o SubSeq(bs, j, Len(bs))

Part(bs, i, j) == i \in 1 .. Len(bs) /\ j \in i + 1 .. Len(bs) + 1

(* u is t after s, and z is s from j on.                                   *)
Joins(u, s, t, S) ==
  /\ u \in Seq(S) /\ Len(u) = Len(s) + Len(t)
  /\ \A k \in 1 .. Len(s) : u[k] = s[k]
  /\ \A k \in 1 .. Len(t) : u[Len(s) + k] = t[k]

Trails(z, s, j, S) ==
  /\ z \in Seq(S) /\ Len(z) = Len(s) - j + 1
  /\ \A k \in 1 .. Len(s) - j + 1 : z[k] = s[j + k - 1]

LEMMA ConcatFacts ==
  ASSUME NEW S, NEW s, s \in Seq(S), NEW t, t \in Seq(S), NEW u, u = s \o t
  PROVE  Joins(u, s, t, S)
  BY DEF Joins

LEMMA TailFacts ==
  ASSUME NEW S, NEW s, s \in Seq(S), NEW j, j \in 1 .. Len(s) + 1,
         NEW z, z = SubSeq(s, j, Len(s))
  PROVE  Trails(z, s, j, S)
  BY DEF Trails

SplicedInto(cs, S, bs, mid, i, j) ==
  /\ cs \in Seq(S)
  /\ Len(cs) = Len(bs) - (j - i) + Len(mid)
  /\ \A k \in 1 .. i - 1 : cs[k] = bs[k]
  /\ \A k \in 1 .. Len(mid) : cs[i - 1 + k] = mid[k]
  /\ \A k \in j .. Len(bs) : cs[k - (j - i) + Len(mid)] = bs[k]

LEMMA SplicedFacts ==
  ASSUME NEW S, NEW bs, bs \in Seq(S), NEW mid, mid \in Seq(S),
         NEW i, NEW j, Part(bs, i, j)
  PROVE  SplicedInto(Spliced(bs, mid, i, j), S, bs, mid, i, j)
  <1> USE DEF Part
  <1>1. PICK a : a = SubSeq(bs, 1, i - 1)
    BY Zenon
  <1>2. PICK z : z = SubSeq(bs, j, Len(bs))
    BY Zenon
  <1>3. /\ a \in Seq(S) /\ Len(a) = i - 1
        /\ \A k \in 1 .. i - 1 : a[k] = bs[k]
    BY <1>1
  <1>4. /\ z \in Seq(S) /\ Len(z) = Len(bs) - j + 1
        /\ \A k \in 1 .. Len(bs) - j + 1 : z[k] = bs[j + k - 1]
    <2>1. j \in 1 .. Len(bs) + 1
      OBVIOUS
    <2>2. Trails(z, bs, j, S)
      BY <1>2, <2>1, TailFacts, Zenon
    <2> QED BY <2>2 DEF Trails
  <1>5. PICK am : am = a \o mid
    BY Zenon
  <1>6. /\ am \in Seq(S) /\ Len(am) = i - 1 + Len(mid)
        /\ \A k \in 1 .. i - 1 : am[k] = bs[k]
        /\ \A k \in 1 .. Len(mid) : am[i - 1 + k] = mid[k]
    <2>1. a \in Seq(S)
      BY <1>3
    <2>2. Joins(am, a, mid, S)
      BY <1>5, <2>1, ConcatFacts, Zenon
    <2> QED BY <1>3, <2>2 DEF Joins
  <1>7. PICK cs : cs = am \o z
    BY Zenon
  <1>8. /\ cs \in Seq(S) /\ Len(cs) = i - 1 + Len(mid) + Len(bs) - j + 1
        /\ \A k \in 1 .. Len(am) : cs[k] = am[k]
        /\ \A k \in 1 .. Len(z) : cs[Len(am) + k] = z[k]
    <2>1. am \in Seq(S) /\ z \in Seq(S)
      BY <1>4, <1>6
    <2>2. Joins(cs, am, z, S)
      BY <1>7, <2>1, ConcatFacts, Zenon
    <2>3. /\ cs \in Seq(S) /\ Len(cs) = Len(am) + Len(z)
          /\ \A k \in 1 .. Len(am) : cs[k] = am[k]
          /\ \A k \in 1 .. Len(z) : cs[Len(am) + k] = z[k]
      BY <2>2, Zenon DEF Joins
    <2>4. Len(cs) = i - 1 + Len(mid) + Len(bs) - j + 1
      <3>1. Len(am) = i - 1 + Len(mid) /\ Len(z) = Len(bs) - j + 1
        BY <1>4, <1>6, Zenon
      <3>2. i \in Int /\ j \in Int /\ Len(mid) \in Nat /\ Len(bs) \in Nat
        OBVIOUS
      <3>3. Len(cs) = Len(am) + Len(z)
        BY <2>3, Zenon
      <3> QED BY <3>1, <3>2, <3>3
    <2> QED BY <2>3, <2>4, Zenon
  <1>9. cs = Spliced(bs, mid, i, j)
    BY <1>1, <1>2, <1>5, <1>7 DEF Spliced
  <1>10. \A k \in 1 .. i - 1 : cs[k] = bs[k]
    BY <1>6, <1>8
  <1>11. ASSUME NEW k \in 1 .. Len(mid) PROVE cs[i - 1 + k] = mid[k]
    <2>1. i - 1 + k \in 1 .. Len(am)
      BY <1>6
    <2>2. cs[i - 1 + k] = am[i - 1 + k]
      BY <1>8, <2>1, Zenon
    <2>3. am[i - 1 + k] = mid[k]
      BY <1>6, Zenon
    <2> QED BY <2>2, <2>3, Zenon
  <1>12. ASSUME NEW k \in j .. Len(bs)
         PROVE  cs[k - (j - i) + Len(mid)] = bs[k]
    <2>1. /\ k - j + 1 \in 1 .. Len(z)
          /\ Len(am) + (k - j + 1) = k - (j - i) + Len(mid)
      BY <1>4, <1>6, SMTT(20)
    <2>2. z[k - j + 1] = bs[k]
      BY <1>4
    <2> QED BY <1>8, <2>1, <2>2, Zenon
  <1> QED BY <1>8, <1>9, <1>10, <1>11, <1>12 DEF SplicedInto

LEMMA BlockFields ==
  ASSUME NEW b, b \in Block
  PROVE  /\ b.addr \in Nat /\ b.size \in Nat /\ b.free \in BOOLEAN
         /\ End(b) = b.addr + HEADER_SIZE + b.size
         /\ End(b) \in Nat /\ b.addr < End(b)
  <1>1. b.addr \in Nat /\ b.size \in Nat /\ b.free \in BOOLEAN
    BY DEF Block
  <1> QED BY <1>1, KHeapAssumption DEF End

LEMMA Resized ==
  ASSUME NEW b, b \in Block, NEW n \in Nat, NEW m, m = [b EXCEPT !.size = n]
  PROVE  m \in Block /\ m.addr = b.addr /\ m.free = b.free /\ m.size = n
  BY DEF Block

(* Blocks that follow each other without gap from address a to address z.  *)
Filled(bs, a, z) ==
  /\ bs \in Seq(Block)
  /\ Len(bs) > 0
  /\ \A k \in 1 .. Len(bs) : bs[k].size >= MIN_BLOCK_SIZE
  /\ bs[1].addr = a /\ End(bs[Len(bs)]) = z
  /\ \A k \in 1 .. Len(bs) - 1 : bs[k + 1].addr = End(bs[k])

(* Replacing neighbours by blocks that fill the same place keeps the rest. *)
LEMMA Refilled ==
  ASSUME NEW bs, NEW a, NEW z, Filled(bs, a, z),
         NEW i, NEW j, Part(bs, i, j),
         NEW mid, Filled(mid, bs[i].addr, End(bs[j - 1]))
  PROVE  Filled(Spliced(bs, mid, i, j), a, z)
  <1>1. PICK cs : cs = Spliced(bs, mid, i, j)
    OBVIOUS
  <1>2. bs \in Seq(Block) /\ mid \in Seq(Block) /\ Len(mid) \in Nat /\ Len(mid) > 0
        /\ Len(bs) \in Nat
    BY DEF Filled
  <1>3. /\ cs \in Seq(Block)
        /\ Len(cs) = Len(bs) - (j - i) + Len(mid)
        /\ \A k \in 1 .. i - 1 : cs[k] = bs[k]
        /\ \A k \in 1 .. Len(mid) : cs[i - 1 + k] = mid[k]
        /\ \A k \in j .. Len(bs) : cs[k - (j - i) + Len(mid)] = bs[k]
    <2>1. SplicedInto(cs, Block, bs, mid, i, j)
      BY <1>1, <1>2, SplicedFacts
    <2> QED BY <2>1 DEF SplicedInto
  <1> USE DEF Part
  <1> DEFINE m == i - 1 + Len(mid)
  <1>4. /\ \A k \in i .. m : k - i + 1 \in 1 .. Len(mid) /\ cs[k] = mid[k - i + 1]
        /\ \A k \in m + 1 .. Len(cs) :
             k - Len(mid) + (j - i) \in j .. Len(bs)
               /\ cs[k] = bs[k - Len(mid) + (j - i)]
    <2>1. ASSUME NEW k \in i .. m
          PROVE  k - i + 1 \in 1 .. Len(mid) /\ cs[k] = mid[k - i + 1]
      <3>1. k - i + 1 \in 1 .. Len(mid) /\ i - 1 + (k - i + 1) = k
        BY <1>2
      <3> QED BY <1>3, <3>1, Zenon
    <2>2. ASSUME NEW k \in m + 1 .. Len(cs)
          PROVE  k - Len(mid) + (j - i) \in j .. Len(bs)
                   /\ cs[k] = bs[k - Len(mid) + (j - i)]
      <3>1. PICK l : l = k - Len(mid) + (j - i)
        OBVIOUS
      <3>2. l \in j .. Len(bs) /\ l - (j - i) + Len(mid) = k
        <4>1. Len(cs) = Len(bs) - (j - i) + Len(mid)
          BY <1>3, Zenon
        <4> QED BY <1>2, <3>1, <4>1, SMTT(20)
      <3> QED BY <1>3, <3>1, <3>2, Zenon
    <2> QED BY <2>1, <2>2
  <1>5. Len(cs) \in Nat /\ Len(cs) >= m /\ m \in Nat /\ m >= i
    BY <1>2, <1>3
  <1>6. ASSUME NEW k \in 1 .. Len(cs) PROVE cs[k].size >= MIN_BLOCK_SIZE
    <2>1. CASE k < i
      <3>1. k \in 1 .. i - 1 /\ k \in 1 .. Len(bs)
        BY <1>2, <2>1
      <3> QED BY <1>3, <3>1, Zenon DEF Filled
    <2>2. CASE k \in i .. m
      BY <1>4, <2>2, Zenon DEF Filled
    <2>3. CASE k \in m + 1 .. Len(cs)
      <3>1. PICK l \in j .. Len(bs) : cs[k] = bs[l]
        BY <1>4, <2>3
      <3>2. l \in 1 .. Len(bs)
        BY <1>2
      <3> QED BY <3>1, <3>2 DEF Filled
    <2> QED BY <1>5, <2>1, <2>2, <2>3
  <1>7. cs[1].addr = a
    <2>1. CASE i > 1
      BY <1>2, <1>3, <2>1 DEF Filled
    <2>2. CASE i = 1
      <3>1. cs[1] = mid[1]
        BY <1>2, <1>3, <2>2
      <3> QED BY <2>2, <3>1 DEF Filled
    <2> QED BY <2>1, <2>2
  <1>8. End(cs[Len(cs)]) = z
    <2>1. CASE j = Len(bs) + 1
      <3>1. Len(cs) = m /\ cs[m] = mid[Len(mid)]
        <4>1. Len(cs) = m
          BY <1>2, <1>3, <2>1
        <4>2. m \in i .. m /\ m - i + 1 = Len(mid)
          BY <1>2, <1>5
        <4>3. cs[m] = mid[m - i + 1]
          BY <1>4, <4>2, Zenon
        <4> QED BY <4>1, <4>2, <4>3
      <3>2. j - 1 = Len(bs)
        BY <1>2, <2>1
      <3> QED BY <3>1, <3>2 DEF Filled
    <2>2. CASE j <= Len(bs)
      <3>1. /\ Len(bs) \in j .. Len(bs)
            /\ Len(bs) - (j - i) + Len(mid) = Len(cs)
        BY <1>2, <1>3, <2>2
      <3>2. cs[Len(bs) - (j - i) + Len(mid)] = bs[Len(bs)]
        BY <1>3, <3>1
      <3> QED BY <3>1, <3>2 DEF Filled
    <2> QED BY <1>2, <2>1, <2>2
  <1>9. ASSUME NEW k \in 1 .. Len(cs) - 1 PROVE cs[k + 1].addr = End(cs[k])
    <2>1. CASE k + 1 < i
      <3>1. cs[k] = bs[k] /\ cs[k + 1] = bs[k + 1]
        BY <1>2, <1>3, <2>1
      <3>2. k \in 1 .. Len(bs) - 1
        BY <1>2, <2>1
      <3> QED BY <3>1, <3>2 DEF Filled
    <2>2. CASE k + 1 = i
      <3>1. cs[k] = bs[k] /\ cs[i] = mid[1] /\ k \in 1 .. Len(bs) - 1
        <4>1. k \in 1 .. i - 1 /\ 1 \in 1 .. Len(mid) /\ i - 1 + 1 = i
          BY <1>2, <2>2
        <4>2. cs[k] = bs[k] /\ cs[i - 1 + 1] = mid[1]
          BY <1>3, <4>1, Zenon
        <4> QED BY <1>2, <2>2, <4>1, <4>2
      <3> QED BY <2>2, <3>1 DEF Filled
    <2>3. CASE k \in i .. m - 1
      <3>1. PICK l : l = k - i + 1
        OBVIOUS
      <3>2. l \in 1 .. Len(mid) - 1 /\ cs[k] = mid[l] /\ cs[k + 1] = mid[l + 1]
        <4>1. l \in 1 .. Len(mid) - 1 /\ k \in i .. m /\ k + 1 \in i .. m
              /\ (k + 1) - i + 1 = l + 1
          BY <1>2, <2>3, <3>1
        <4> QED BY <1>4, <3>1, <4>1
      <3> QED BY <3>2 DEF Filled
    <2>4. CASE k = m
      <3>1. cs[m] = mid[Len(mid)]
        <4>1. m \in i .. m /\ m - i + 1 = Len(mid)
          BY <1>2, <1>5
        <4>2. cs[m] = mid[m - i + 1]
          BY <1>4, <4>1, Zenon
        <4> QED BY <4>1, <4>2
      <3>2. cs[m + 1] = bs[j] /\ j \in 2 .. Len(bs)
        <4>1. m + 1 \in m + 1 .. Len(cs) /\ m + 1 - Len(mid) + (j - i) = j
          BY <1>2, <1>5, <2>4
        <4> QED BY <1>2, <1>4, <4>1
      <3>3. End(mid[Len(mid)]) = End(bs[j - 1])
        BY DEF Filled
      <3>4. bs[j].addr = End(bs[j - 1])
        <4>1. j - 1 \in 1 .. Len(bs) - 1 /\ (j - 1) + 1 = j
          BY <1>2, <3>2
        <4> QED BY <4>1 DEF Filled
      <3> QED BY <2>4, <3>1, <3>2, <3>3, <3>4
    <2>5. CASE k \in m + 1 .. Len(cs) - 1
      <3>1. PICK l : l = k - Len(mid) + (j - i)
        OBVIOUS
      <3>2. /\ k \in m + 1 .. Len(cs) /\ k + 1 \in m + 1 .. Len(cs)
            /\ (k + 1) - Len(mid) + (j - i) = l + 1
        BY <1>2, <1>5, <2>5, <3>1
      <3>3. l \in j .. Len(bs) /\ l + 1 \in j .. Len(bs)
            /\ cs[k] = bs[l] /\ cs[k + 1] = bs[l + 1]
        BY <1>4, <3>1, <3>2
      <3>4. l \in 1 .. Len(bs) - 1
        BY <1>2, <3>3
      <3> QED BY <3>3, <3>4 DEF Filled
    <2>6. k + 1 < i \/ k + 1 = i \/ k \in i .. m - 1 \/ k = m \/ k \in m + 1 .. Len(cs) - 1
      BY <1>5
    <2> QED BY <2>1, <2>2, <2>3, <2>4, <2>5, <2>6
  <1> QED BY <1>1, <1>3, <1>5, <1>6, <1>7, <1>8, <1>9 DEF Filled

(* Blocks in a list do not overlap.                                        *)
LEMMA Apart ==
  ASSUME NEW bs, NEW a \in Nat, NEW z, Filled(bs, a, z)
  PROVE  /\ \A i, j \in 1 .. Len(bs) : i < j => End(bs[i]) <= bs[j].addr
         /\ \A i \in 1 .. Len(bs) : a <= bs[i].addr /\ End(bs[i]) <= z
  <1>1. bs \in Seq(Block) /\ Len(bs) \in Nat /\ HEADER_SIZE \in Nat
    BY KHeapAssumption DEF Filled
  <1>2. \A i \in 1 .. Len(bs) :
          /\ bs[i].addr \in Nat /\ bs[i].size \in Nat
          /\ End(bs[i]) \in Nat /\ bs[i].addr <= End(bs[i])
    <2>1. \A i \in 1 .. Len(bs) : bs[i] \in Block
      BY <1>1
    <2> QED BY <2>1, BlockFields
  <1>3. ASSUME NEW i \in 1 .. Len(bs), NEW j \in 1 .. Len(bs), i < j,
               End(bs[i]) > bs[j].addr
        PROVE  FALSE
    <2> DEFINE W == {k \in 1 .. Len(bs) : i < k /\ End(bs[i]) > bs[k].addr}
    <2>1. W \in SUBSET Nat /\ j \in W
      BY <1>1, <1>3
    <2>2. PICK k : k = Least(W)
      BY Zenon
    <2>3. k \in W /\ \A l \in W : k <= l
      BY <2>1, <2>2, LeastFacts, Zenon
    <2>4. k - 1 \in 1 .. Len(bs) - 1 /\ k - 1 \in 1 .. Len(bs) /\ k - 1 >= i
          /\ (k - 1) + 1 = k
      BY <1>1, <2>3
    <2>5. bs[k].addr = End(bs[k - 1])
      BY <2>4 DEF Filled
    <2>6. CASE k - 1 = i
      BY <1>2, <2>3, <2>5, <2>6
    <2>7. CASE k - 1 > i
      <3>1. k - 1 \notin W
        BY <1>1, <2>3
      <3>2. End(bs[i]) <= bs[k - 1].addr
        BY <1>2, <2>4, <2>7, <3>1
      <3> QED BY <1>2, <2>3, <2>4, <2>5, <3>2
    <2> QED BY <2>4, <2>6, <2>7
  <1>4. \A i, j \in 1 .. Len(bs) : i < j => End(bs[i]) <= bs[j].addr
    BY <1>2, <1>3
  <1>5. ASSUME NEW i \in 1 .. Len(bs)
        PROVE  a <= bs[i].addr /\ End(bs[i]) <= z
    <2>1. 1 \in 1 .. Len(bs) /\ Len(bs) \in 1 .. Len(bs)
      BY <1>1
    <2>2. bs[1].addr = a /\ End(bs[Len(bs)]) = z
      BY DEF Filled
    <2>3. a <= bs[i].addr
      <3>1. CASE i = 1
        BY <1>2, <2>2, <3>1
      <3>2. CASE i > 1
        <4>1. End(bs[1]) <= bs[i].addr
          BY <1>4, <2>1, <3>2
        <4> QED BY <1>2, <2>1, <2>2, <4>1
      <3> QED BY <3>1, <3>2
    <2>4. End(bs[i]) <= z
      <3>1. CASE i = Len(bs)
        BY <1>2, <2>2, <3>1
      <3>2. CASE i < Len(bs)
        <4>1. End(bs[i]) <= bs[Len(bs)].addr
          BY <1>4, <2>1, <3>2
        <4> QED BY <1>2, <2>1, <2>2, <4>1
      <3> QED BY <1>1, <3>1, <3>2
    <2> QED BY <2>3, <2>4
  <1> QED BY <1>4, <1>5

(* So an address names one block.                                          *)
LEMMA AddrUnique ==
  ASSUME NEW bs, NEW a \in Nat, NEW z, Filled(bs, a, z),
         NEW i \in 1 .. Len(bs), NEW j \in 1 .. Len(bs),
         bs[i].addr = bs[j].addr
  PROVE  i = j
  <1>1. bs \in Seq(Block) /\ HEADER_SIZE \in Nat \ {0}
    BY KHeapAssumption DEF Filled
  <1>2. /\ bs[i].addr \in Nat /\ End(bs[i]) \in Nat /\ bs[i].addr < End(bs[i])
        /\ bs[j].addr \in Nat /\ End(bs[j]) \in Nat /\ bs[j].addr < End(bs[j])
    <2>1. bs[i] \in Block /\ bs[j] \in Block
      BY <1>1
    <2> QED BY <2>1, BlockFields, Zenon
  <1>3. i < j => End(bs[i]) <= bs[j].addr
    BY Apart
  <1>4. j < i => End(bs[j]) <= bs[i].addr
    BY Apart
  <1> QED BY <1>2, <1>3, <1>4

----------------------------------------------------------------------------
(* coalesce_blocks.                                                        *)

(* The blocks in use are the same.                                         *)
SameUsed(bs, cs) ==
  /\ \A i \in 1 .. Len(bs) : ~bs[i].free => \E k \in 1 .. Len(cs) : cs[k] = bs[i]
  /\ \A k \in 1 .. Len(cs) : ~cs[k].free => \E i \in 1 .. Len(bs) : bs[i] = cs[k]

(* Two free neighbours are at most those that E names by the first.        *)
FreePairsIn(bs, E) ==
  \A k \in 1 .. Len(bs) - 1 : bs[k].free /\ bs[k + 1].free => k \in E

(* cs is bs with the block i + 1 absorbed by block i, both of them free.   *)
Absorbed(bs, cs, i) ==
  /\ cs \in Seq(Block) /\ Len(cs) = Len(bs) - 1
  /\ \A k \in 1 .. i - 1 : cs[k] = bs[k]
  /\ cs[i].free /\ cs[i].addr = bs[i].addr
  /\ \A k \in i + 2 .. Len(bs) : cs[k - 1] = bs[k]

LEMMA AbsorbFacts ==
  ASSUME NEW bs, NEW a, NEW z, Filled(bs, a, z), NEW i, i \in 1 .. Len(bs) - 1
  PROVE  /\ Filled(Absorb(bs, i), a, z)
         /\ bs[i].free => Absorbed(bs, Absorb(bs, i), i)
  <1>1. bs \in Seq(Block) /\ Len(bs) \in Nat /\ HEADER_SIZE \in Nat
        /\ MIN_BLOCK_SIZE \in Nat
    BY KHeapAssumption DEF Filled
  <1>2. PICK b : b = bs[i]
    OBVIOUS
  <1>3. PICK c : c = bs[i + 1]
    OBVIOUS
  <1>4. b \in Block /\ c \in Block /\ b.size >= MIN_BLOCK_SIZE /\ c.addr = End(b)
    <2>1. i \in 1 .. Len(bs) /\ i + 1 \in 1 .. Len(bs)
      BY <1>1
    <2> QED BY <1>1, <1>2, <1>3, <2>1 DEF Filled
  <1>5. b.addr \in Nat /\ b.size \in Nat /\ c.size \in Nat
    BY <1>4, BlockFields
  <1>6. PICK n \in Nat : n = b.size + HEADER_SIZE + c.size
    BY <1>1, <1>5
  <1>7. PICK m : m = [b EXCEPT !.size = n]
    BY Zenon
  <1>8. m \in Block /\ m.addr = b.addr /\ m.size = n
    BY <1>4, <1>7, Resized
  <1>9. m.free = b.free
    BY <1>4, <1>7, Resized
  <1>10. PICK mid : mid = <<m>>
    BY Zenon
  <1>11. mid \in Seq(Block) /\ Len(mid) = 1 /\ mid[1] = m
    BY <1>8, <1>10
  <1>12. PICK j : j = i + 2
    OBVIOUS
  <1>13. Part(bs, i, j) /\ j - 1 = i + 1
    BY <1>1, <1>12 DEF Part
  <1>14. Filled(mid, bs[i].addr, End(bs[j - 1]))
    <2>1. End(m) = End(c) /\ m.size >= MIN_BLOCK_SIZE
      <3>1. /\ End(m) = m.addr + HEADER_SIZE + m.size
            /\ End(b) = b.addr + HEADER_SIZE + b.size
            /\ End(c) = c.addr + HEADER_SIZE + c.size
        BY DEF End
      <3>2. m.size = b.size + HEADER_SIZE + c.size /\ m.addr = b.addr
        BY <1>6, <1>8
      <3>3. c.addr = b.addr + HEADER_SIZE + b.size
        BY <1>4, <3>1
      <3>4. HEADER_SIZE \in Nat /\ MIN_BLOCK_SIZE \in Nat /\ b.size >= MIN_BLOCK_SIZE
        BY <1>1, <1>4
      <3>5. m.size >= MIN_BLOCK_SIZE
        BY <1>5, <3>2, <3>4
      <3>6. End(m) = End(c)
        BY <1>5, <3>1, <3>2, <3>3, <3>4, SMTT(20)
      <3> QED BY <3>5, <3>6
    <2> QED BY <1>2, <1>3, <1>8, <1>11, <1>13, <2>1 DEF Filled
  <1>15. PICK cs : cs = Spliced(bs, mid, i, j)
    OBVIOUS
  <1>16. cs = Absorb(bs, i)
    BY <1>2, <1>3, <1>6, <1>7, <1>10, <1>12, <1>15 DEF Absorb, Spliced
  <1>17. Filled(cs, a, z)
    BY <1>13, <1>14, <1>15, Refilled
  <1>18. /\ cs \in Seq(Block)
         /\ Len(cs) = Len(bs) - (j - i) + Len(mid)
         /\ \A k \in 1 .. i - 1 : cs[k] = bs[k]
         /\ \A k \in 1 .. Len(mid) : cs[i - 1 + k] = mid[k]
         /\ \A k \in j .. Len(bs) : cs[k - (j - i) + Len(mid)] = bs[k]
    <2>1. mid \in Seq(Block) /\ bs \in Seq(Block) /\ Part(bs, i, j)
      BY <1>1, <1>11, <1>13
    <2>2. SplicedInto(cs, Block, bs, mid, i, j)
      BY <1>15, <2>1, SplicedFacts
    <2> QED BY <2>2 DEF SplicedInto
  <1>19. Len(cs) = Len(bs) - 1 /\ cs[i] = m
    <2>1. 1 \in 1 .. Len(mid) /\ i - 1 + 1 = i
      BY <1>1, <1>11
    <2>2. cs[i - 1 + 1] = mid[1]
      BY <1>18, <2>1
    <2> QED BY <1>1, <1>11, <1>12, <1>18, <2>1, <2>2
  <1>20. ASSUME NEW k \in i + 2 .. Len(bs) PROVE cs[k - 1] = bs[k]
    <2>1. k - (j - i) + Len(mid) = k - 1 /\ k \in j .. Len(bs)
      BY <1>1, <1>11, <1>12
    <2> QED BY <1>18, <2>1, Zenon
  <1>21. bs[i].free => cs[i].free /\ cs[i].addr = bs[i].addr
    BY <1>2, <1>8, <1>9, <1>19, Zenon
  <1> QED BY <1>16, <1>17, <1>18, <1>19, <1>20, <1>21, Zenon DEF Absorbed

LEMMA AbsorbedUsed ==
  ASSUME NEW bs \in Seq(Block), NEW cs, NEW i \in 1 .. Len(bs) - 1,
         bs[i].free, bs[i + 1].free, Absorbed(bs, cs, i)
  PROVE  SameUsed(bs, cs)
  <1>1. Len(bs) \in Nat /\ Len(cs) = Len(bs) - 1
    BY DEF Absorbed
  <1>2. ASSUME NEW l \in 1 .. Len(bs), ~bs[l].free
        PROVE  \E k \in 1 .. Len(cs) : cs[k] = bs[l]
    <2>1. CASE l < i
      BY <1>1, <2>1 DEF Absorbed
    <2>2. CASE l > i + 1
      <3>1. l - 1 \in 1 .. Len(cs) /\ l \in i + 2 .. Len(bs)
        BY <1>1, <2>2
      <3> QED BY <3>1 DEF Absorbed
    <2> QED BY <1>1, <1>2, <2>1, <2>2
  <1>3. ASSUME NEW k \in 1 .. Len(cs), ~cs[k].free
        PROVE  \E l \in 1 .. Len(bs) : bs[l] = cs[k]
    <2>1. CASE k < i
      BY <1>1, <2>1 DEF Absorbed
    <2>2. CASE k > i
      <3>1. PICK l : l = k + 1
        OBVIOUS
      <3>2. l \in i + 2 .. Len(bs) /\ l - 1 = k /\ l \in 1 .. Len(bs)
        BY <1>1, <2>2, <3>1
      <3>3. cs[l - 1] = bs[l]
        BY <3>2 DEF Absorbed
      <3> QED BY <3>2, <3>3
    <2>3. k # i
      BY <1>3 DEF Absorbed
    <2> QED BY <1>1, <2>1, <2>2, <2>3
  <1> QED BY <1>2, <1>3 DEF SameUsed

LEMMA AbsorbedPairs ==
  ASSUME NEW bs \in Seq(Block), NEW cs, NEW i \in 1 .. Len(bs) - 1,
         bs[i].free, bs[i + 1].free, Absorbed(bs, cs, i),
         NEW E \in SUBSET {i - 1}, FreePairsIn(bs, E \cup {i})
  PROVE  FreePairsIn(cs, E)
  <1>1. Len(bs) \in Nat /\ Len(cs) = Len(bs) - 1
    BY DEF Absorbed
  <1> SUFFICES ASSUME NEW k \in 1 .. Len(cs) - 1, cs[k].free, cs[k + 1].free
               PROVE  k \in E
    BY DEF FreePairsIn
  <1>2. CASE k < i
    <2>1. k \in 1 .. i - 1 /\ k \in 1 .. Len(bs) - 1
      BY <1>1, <1>2
    <2>2. cs[k] = bs[k]
      BY <2>1 DEF Absorbed
    <2>3. bs[k + 1].free
      <3>1. CASE k + 1 = i
        BY <3>1
      <3>2. CASE k + 1 < i
        <4>1. k + 1 \in 1 .. i - 1
          BY <1>1, <3>2
        <4> QED BY <4>1 DEF Absorbed
      <3> QED BY <1>1, <1>2, <3>1, <3>2
    <2>4. k \in E \cup {i}
      BY <2>1, <2>2, <2>3 DEF FreePairsIn
    <2> QED BY <1>2, <2>4
  <1>3. CASE k >= i
    <2>1. PICK l : l = k + 1
      OBVIOUS
    <2>2. l \in 1 .. Len(bs) - 1 /\ l + 1 \in i + 2 .. Len(bs)
          /\ (l + 1) - 1 = k + 1 /\ l > i
      BY <1>1, <1>3, <2>1
    <2>3. bs[l + 1].free
      <3>1. cs[(l + 1) - 1] = bs[l + 1]
        BY <2>2 DEF Absorbed
      <3> QED BY <2>2, <3>1
    <2>4. bs[l].free
      <3>1. CASE k = i
        BY <2>1, <3>1
      <3>2. CASE k > i
        <4>1. l \in i + 2 .. Len(bs) /\ l - 1 = k
          BY <1>1, <2>1, <2>2, <3>2
        <4>2. cs[l - 1] = bs[l]
          BY <4>1 DEF Absorbed
        <4> QED BY <4>1, <4>2
      <3> QED BY <1>3, <3>1, <3>2
    <2>5. l \in E \cup {i}
      BY <2>2, <2>3, <2>4 DEF FreePairsIn
    <2> QED BY <2>2, <2>5
  <1> QED BY <1>1, <1>2, <1>3

LEMMA SameUsedTrans ==
  ASSUME NEW bs, NEW ms, NEW cs, SameUsed(bs, ms), SameUsed(ms, cs)
  PROVE  SameUsed(bs, cs)
  <1>1. ASSUME NEW i \in 1 .. Len(bs), ~bs[i].free
        PROVE  \E k \in 1 .. Len(cs) : cs[k] = bs[i]
    <2>1. PICK l \in 1 .. Len(ms) : ms[l] = bs[i]
      BY <1>1 DEF SameUsed
    <2>2. ~ms[l].free
      BY <1>1, <2>1
    <2>3. PICK k \in 1 .. Len(cs) : cs[k] = ms[l]
      BY <2>2 DEF SameUsed
    <2> QED BY <2>1, <2>3
  <1>2. ASSUME NEW k \in 1 .. Len(cs), ~cs[k].free
        PROVE  \E i \in 1 .. Len(bs) : bs[i] = cs[k]
    <2>1. PICK l \in 1 .. Len(ms) : ms[l] = cs[k]
      BY <1>2 DEF SameUsed
    <2>2. ~ms[l].free
      BY <1>2, <2>1
    <2>3. PICK i \in 1 .. Len(bs) : bs[i] = ms[l]
      BY <2>2 DEF SameUsed
    <2> QED BY <2>1, <2>3
  <1> QED BY <1>1, <1>2 DEF SameUsed

(* Freeing block i may leave it with one free neighbour on each side, and  *)
(* coalesce_blocks with none.                                              *)
LEMMA CoalesceFacts ==
  ASSUME NEW bs, NEW a, NEW z, Filled(bs, a, z),
         NEW i, i \in 1 .. Len(bs), bs[i].free, FreePairsIn(bs, {i - 1, i})
  PROVE  /\ Filled(Coalesce(bs, i), a, z)
         /\ SameUsed(bs, Coalesce(bs, i))
         /\ FreePairsIn(Coalesce(bs, i), {})
  <1> DEFINE merged == IF i < Len(bs) /\ bs[i + 1].free THEN Absorb(bs, i) ELSE bs
  <1>1. bs \in Seq(Block) /\ Len(bs) \in Nat
    BY DEF Filled
  <1>2. /\ Filled(merged, a, z) /\ SameUsed(bs, merged)
        /\ FreePairsIn(merged, {i - 1})
        /\ i \in 1 .. Len(merged) /\ merged[i].free
    <2>1. CASE i < Len(bs) /\ bs[i + 1].free
      <3>1. i \in 1 .. Len(bs) - 1
        BY <1>1, <2>1
      <3>2. PICK cs : cs = Absorb(bs, i)
        OBVIOUS
      <3>3. Filled(cs, a, z) /\ Absorbed(bs, cs, i)
        BY <3>1, <3>2, AbsorbFacts
      <3>4. SameUsed(bs, cs)
        BY <1>1, <2>1, <3>1, <3>3, AbsorbedUsed
      <3>5. FreePairsIn(cs, {i - 1})
        <4>1. FreePairsIn(bs, {i - 1} \cup {i})
          BY DEF FreePairsIn
        <4>2. PICK E : E = {i - 1}
          BY Zenon
        <4>3. FreePairsIn(bs, E \cup {i}) /\ E \in SUBSET {i - 1}
          BY <4>1, <4>2
        <4>4. FreePairsIn(cs, E)
          BY <1>1, <2>1, <3>1, <3>3, <4>3, AbsorbedPairs
        <4> QED BY <4>2, <4>4
      <3>6. i \in 1 .. Len(cs) /\ cs[i].free
        BY <1>1, <3>1, <3>3 DEF Absorbed
      <3>7. merged = cs
        BY <2>1, <3>2
      <3> HIDE DEF merged
      <3> QED BY <3>3, <3>4, <3>5, <3>6, <3>7
    <2>2. CASE ~(i < Len(bs) /\ bs[i + 1].free)
      <3>1. merged = bs
        BY <2>2
      <3> HIDE DEF merged
      <3>2. FreePairsIn(bs, {i - 1})
        <4> SUFFICES ASSUME NEW k \in 1 .. Len(bs) - 1, bs[k].free, bs[k + 1].free
                     PROVE  k \in {i - 1}
          BY DEF FreePairsIn
        <4>1. k \in {i - 1, i}
          BY DEF FreePairsIn
        <4>2. k # i
          BY <1>1, <2>2
        <4> QED BY <4>1, <4>2
      <3>3. SameUsed(bs, bs)
        BY DEF SameUsed
      <3> QED BY <3>1, <3>2, <3>3
    <2> QED BY <2>1, <2>2
  <1>3. PICK ms : ms = merged
    OBVIOUS
  <1>4. Coalesce(bs, i) = IF i > 1 /\ ms[i - 1].free THEN Absorb(ms, i - 1) ELSE ms
    BY <1>3 DEF Coalesce
  <1>5. /\ Filled(ms, a, z) /\ SameUsed(bs, ms) /\ FreePairsIn(ms, {i - 1})
        /\ i \in 1 .. Len(ms) /\ ms[i].free
    BY <1>2, <1>3
  <1> HIDE DEF merged
  <1>6. ms \in Seq(Block) /\ Len(ms) \in Nat
    BY <1>5 DEF Filled
  <1>7. CASE i > 1 /\ ms[i - 1].free
    <2>1. PICK l : l = i - 1
      OBVIOUS
    <2>2. l \in 1 .. Len(ms) - 1 /\ l + 1 = i
      BY <1>1, <1>5, <1>6, <1>7, <2>1
    <2>3. ms[l].free /\ ms[l + 1].free
      BY <1>5, <1>7, <2>1, <2>2
    <2>4. PICK cs : cs = Absorb(ms, l)
      OBVIOUS
    <2>5. Filled(cs, a, z) /\ Absorbed(ms, cs, l)
      BY <1>5, <2>2, <2>3, <2>4, AbsorbFacts
    <2>6. SameUsed(ms, cs)
      BY <1>6, <2>2, <2>3, <2>5, AbsorbedUsed
    <2>7. SameUsed(bs, cs)
      BY <1>5, <2>6, SameUsedTrans
    <2>8. FreePairsIn(cs, {})
      <3>1. PICK E : E = {}
        BY Zenon
      <3>2. FreePairsIn(ms, E \cup {l}) /\ E \in SUBSET {l - 1}
        BY <1>5, <2>1, <3>1 DEF FreePairsIn
      <3>3. FreePairsIn(cs, E)
        BY <1>6, <2>2, <2>3, <2>5, <3>2, AbsorbedPairs
      <3> QED BY <3>1, <3>3
    <2>9. Coalesce(bs, i) = cs
      BY <1>4, <1>7, <2>1, <2>4
    <2> QED BY <2>5, <2>7, <2>8, <2>9
  <1>8. CASE ~(i > 1 /\ ms[i - 1].free)
    <2>1. Coalesce(bs, i) = ms
      BY <1>4, <1>8
    <2>2. FreePairsIn(ms, {})
      <3> SUFFICES ASSUME NEW k \in 1 .. Len(ms) - 1, ms[k].free, ms[k + 1].free
                   PROVE  FALSE
        BY DEF FreePairsIn
      <3>1. k = i - 1
        BY <1>5 DEF FreePairsIn
      <3> QED BY <1>5, <1>6, <1>8, <3>1
    <2> QED BY <1>5, <2>1, <2>2
  <1> QED BY <1>7, <1>8

----------------------------------------------------------------------------
(* The inductive invariant, of any list of blocks bs, end e of the heap    *)
(* and set H of held pointers.                                             *)

Owned(bs, H) ==
  /\ \A h \in H : \E i \in 1 .. Len(bs) :
       ~bs[i].free /\ bs[i].addr = h.addr /\ bs[i].size >= h.size
  /\ \A i \in 1 .. Len(bs) : ~bs[i].free => \E h \in H : h.addr = bs[i].addr
  /\ \A h, g \in H : h.addr = g.addr => h = g

Sound(bs, e, H) ==
  /\ bs \in Seq(Block)
  /\ IF bs = <<>> THEN e = heap_start ELSE Filled(bs, heap_start, e)
  /\ Owned(bs, H)
  /\ FreePairsIn(bs, {})
  /\ e \in heap_start .. heap_max
  /\ \A h \in H : h.size \in Sizes

LEMMA SoundIs == HeapSound /\ Coalesced <=> Sound(blocks, heap_end, held)
  <1>1. ASSUME blocks \in Seq(Block)
        PROVE  /\ DOMAIN blocks = 1 .. Len(blocks) /\ Len(blocks) \in Nat
               /\ blocks = <<>> <=> Len(blocks) = 0
    BY <1>1
  <1>2. heap_end \in heap_start .. heap_max => heap_end \in 0 .. WORD - 1
    BY KHeapAssumption
  <1>3. ASSUME HeapSound, Coalesced PROVE Sound(blocks, heap_end, held)
    <2>1. blocks \in Seq(Block)
      BY <1>3 DEF HeapSound, TypeOK
    <2>2. IF blocks = <<>> THEN heap_end = heap_start
          ELSE Filled(blocks, heap_start, heap_end)
      BY <1>1, <1>3, <2>1 DEF HeapSound, TypeOK, Tiled, Filled
    <2>3. Owned(blocks, held)
      BY <1>1, <1>3, <2>1 DEF HeapSound, HeldExactly, Owned
    <2>4. FreePairsIn(blocks, {})
      BY <1>3 DEF Coalesced, FreePairsIn
    <2> QED BY <1>3, <2>1, <2>2, <2>3, <2>4 DEF Sound, HeapSound, TypeOK, HeapWithinMax
  <1>4. ASSUME Sound(blocks, heap_end, held) PROVE HeapSound /\ Coalesced
    <2>1. blocks \in Seq(Block)
      BY <1>4 DEF Sound
    <2>2. TypeOK
      BY <1>1, <1>2, <1>4, <2>1 DEF Sound, TypeOK, Filled
    <2>3. Tiled
      BY <1>1, <1>4, <2>1 DEF Sound, Tiled, Filled
    <2>4. HeldExactly
      BY <1>1, <1>4, <2>1 DEF Sound, HeldExactly, Owned
    <2>5. Coalesced
      BY <1>4 DEF Sound, Coalesced, FreePairsIn
    <2> QED BY <1>4, <2>2, <2>3, <2>4, <2>5 DEF Sound, HeapSound, HeapWithinMax
  <1> QED BY <1>3, <1>4

LEMMA SameOwned ==
  ASSUME NEW bs, NEW cs, NEW H, Owned(bs, H), SameUsed(bs, cs)
  PROVE  Owned(cs, H)
  <1>1. ASSUME NEW h \in H
        PROVE  \E k \in 1 .. Len(cs) :
                 ~cs[k].free /\ cs[k].addr = h.addr /\ cs[k].size >= h.size
    <2>1. PICK i \in 1 .. Len(bs) :
            ~bs[i].free /\ bs[i].addr = h.addr /\ bs[i].size >= h.size
      BY DEF Owned
    <2>2. PICK k \in 1 .. Len(cs) : cs[k] = bs[i]
      BY <2>1 DEF SameUsed
    <2> QED BY <2>1, <2>2
  <1>2. ASSUME NEW k \in 1 .. Len(cs), ~cs[k].free
        PROVE  \E h \in H : h.addr = cs[k].addr
    <2>1. PICK i \in 1 .. Len(bs) : bs[i] = cs[k]
      BY <1>2 DEF SameUsed
    <2>2. ~bs[i].free
      BY <1>2, <2>1
    <2> QED BY <2>1, <2>2 DEF Owned
  <1> QED BY <1>1, <1>2 DEF Owned

----------------------------------------------------------------------------
(* kfree.                                                                  *)

(* Setting the free flag of one block.                                     *)
Flagged(bs, cs, i, f) ==
  /\ cs \in Seq(Block) /\ Len(cs) = Len(bs)
  /\ \A k \in 1 .. Len(bs) : /\ cs[k].addr = bs[k].addr
                             /\ cs[k].size = bs[k].size
                             /\ End(cs[k]) = End(bs[k])
                             /\ k # i => cs[k] = bs[k]
  /\ cs[i].free <=> f

LEMMA FlagFacts ==
  ASSUME NEW bs, bs \in Seq(Block), NEW i, i \in 1 .. Len(bs), NEW f \in BOOLEAN
  PROVE  Flagged(bs, [bs EXCEPT ![i].free = f], i, f)
  <1>1. PICK cs : cs = [bs EXCEPT ![i].free = f]
    BY Zenon
  <1>2. PICK c : c = [bs[i] EXCEPT !.free = f]
    BY Zenon
  <1>3. bs[i] \in Block
    OBVIOUS
  <1>4. c \in Block /\ c.addr = bs[i].addr /\ c.size = bs[i].size
    BY <1>2, <1>3 DEF Block
  <1>5. c.free <=> f
    BY <1>2, <1>3 DEF Block
  <1>6. cs = [bs EXCEPT ![i] = c]
    BY <1>1, <1>2
  <1>7. cs \in Seq(Block) /\ Len(cs) = Len(bs) /\ cs[i] = c
        /\ \A k \in 1 .. Len(bs) : k # i => cs[k] = bs[k]
    BY <1>4, <1>6
  <1> QED BY <1>1, <1>4, <1>5, <1>7 DEF Flagged, End

LEMMA FlaggedFilled ==
  ASSUME NEW bs, NEW a, NEW z, Filled(bs, a, z), NEW i, NEW f, NEW cs,
         Flagged(bs, cs, i, f)
  PROVE  Filled(cs, a, z)
  <1>1. bs \in Seq(Block) /\ Len(bs) \in Nat /\ Len(bs) > 0
        /\ 1 \in 1 .. Len(bs) /\ Len(bs) \in 1 .. Len(bs)
    BY DEF Filled
  <1>2. ASSUME NEW k \in 1 .. Len(bs) - 1 PROVE cs[k + 1].addr = End(cs[k])
    <2>1. k \in 1 .. Len(bs) /\ k + 1 \in 1 .. Len(bs)
      BY <1>1
    <2> QED BY <2>1 DEF Flagged, Filled
  <1> QED BY <1>1, <1>2 DEF Flagged, Filled

LEMMA KfreeSound ==
  ASSUME Sound(blocks, heap_end, held), NEW h \in held, Kfree(h)
  PROVE  Sound(blocks, heap_end, held)'
  <1>1. PICK i \in 1 .. Len(blocks) : ~blocks[i].free /\ blocks[i].addr = h.addr
    BY DEF Sound, Owned
  <1>2. /\ blocks \in Seq(Block) /\ Len(blocks) \in Nat /\ blocks # <<>>
        /\ Filled(blocks, heap_start, heap_end)
    BY <1>1 DEF Sound
  <1>3. heap_start \in Nat
    BY KHeapAssumption
  <1>4. \A k \in 1 .. Len(blocks) : blocks[k].addr = h.addr => k = i
    BY <1>1, <1>2, <1>3, AddrUnique
  <1>5. (CHOOSE j \in DOMAIN blocks : blocks[j].addr = h.addr) = i
    <2>1. DOMAIN blocks = 1 .. Len(blocks)
      BY <1>2
    <2> QED BY <1>1, <1>4, <2>1
  <1>6. PICK bs : bs = [blocks EXCEPT ![i].free = TRUE]
    BY Zenon
  <1>7. Flagged(blocks, bs, i, TRUE)
    BY <1>2, <1>6, FlagFacts, Zenon
  <1>8. blocks' = Coalesce(bs, i) /\ held' = held \ {h} /\ heap_end' = heap_end
    BY <1>5, <1>6, Zenon DEF Kfree
  <1>9. /\ Filled(bs, heap_start, heap_end) /\ i \in 1 .. Len(bs) /\ bs[i].free
        /\ bs \in Seq(Block) /\ Len(bs) = Len(blocks)
    BY <1>2, <1>7, FlaggedFilled, SMTT(20) DEF Flagged
  <1>10. FreePairsIn(bs, {i - 1, i})
    <2> SUFFICES ASSUME NEW k \in 1 .. Len(bs) - 1, bs[k].free, bs[k + 1].free,
                        k # i - 1, k # i
                 PROVE  FALSE
      BY DEF FreePairsIn
    <2>1. k \in 1 .. Len(blocks) /\ k + 1 \in 1 .. Len(blocks) /\ k + 1 # i
          /\ k \in 1 .. Len(blocks) - 1
      BY <1>2, <1>9
    <2>2. bs[k] = blocks[k] /\ bs[k + 1] = blocks[k + 1]
      BY <1>7, <2>1 DEF Flagged
    <2> QED BY <2>1, <2>2 DEF Sound, FreePairsIn
  <1>11. PICK cs : cs = Coalesce(bs, i)
    OBVIOUS
  <1>12. Filled(cs, heap_start, heap_end) /\ SameUsed(bs, cs) /\ FreePairsIn(cs, {})
    BY <1>9, <1>10, <1>11, CoalesceFacts, Zenon
  <1>13. PICK H : H = held \ {h}
    BY Zenon
  <1>14. Owned(bs, H)
    <2>1. ASSUME NEW g \in H
          PROVE  \E k \in 1 .. Len(bs) :
                   ~bs[k].free /\ bs[k].addr = g.addr /\ bs[k].size >= g.size
      <3>1. g \in held /\ g.addr # h.addr
        BY <1>13 DEF Sound, Owned
      <3>2. PICK k \in 1 .. Len(blocks) :
              ~blocks[k].free /\ blocks[k].addr = g.addr /\ blocks[k].size >= g.size
        BY <3>1 DEF Sound, Owned
      <3>3. k # i
        BY <1>1, <3>1, <3>2
      <3> QED BY <1>7, <1>9, <3>2, <3>3 DEF Flagged
    <2>2. ASSUME NEW k \in 1 .. Len(bs), ~bs[k].free
          PROVE  \E g \in H : g.addr = bs[k].addr
      <3>1. k # i /\ k \in 1 .. Len(blocks)
        BY <1>9, <2>2
      <3>2. bs[k] = blocks[k]
        BY <1>7, <3>1 DEF Flagged
      <3>3. PICK g \in held : g.addr = blocks[k].addr
        BY <2>2, <3>1, <3>2 DEF Sound, Owned
      <3>4. g # h
        BY <1>4, <3>1, <3>3
      <3> QED BY <1>13, <3>2, <3>3, <3>4
    <2> QED BY <1>13, <2>1, <2>2, Zenon DEF Sound, Owned
  <1>15. Owned(cs, H)
    BY <1>12, <1>14, SameOwned
  <1>16. cs # <<>> /\ cs \in Seq(Block)
    BY <1>12 DEF Filled
  <1>17. heap_end \in heap_start .. heap_max /\ \A g \in H : g.size \in Sizes
    BY <1>13 DEF Sound
  <1>18. Sound(cs, heap_end, H)
    BY <1>12, <1>15, <1>16, <1>17 DEF Sound
  <1> QED BY <1>8, <1>11, <1>13, <1>18

----------------------------------------------------------------------------
(* kmalloc.                                                                *)

(* What split_block makes of a free block of which it takes size bytes.    *)
LEMMA SplitFacts ==
  ASSUME RequestsFit, NEW request \in Sizes,
         NEW i, i \in 1 .. Len(blocks), blocks \in Seq(Block),
         NEW b, b = blocks[i], b.size >= BlockSize(request),
         b.size >= MIN_BLOCK_SIZE
  PROVE  LET mid == SplitBlock(i, BlockSize(request))
         IN  /\ Filled(mid, b.addr, End(b))
             /\ ~mid[1].free
             /\ mid[1].addr = b.addr /\ mid[1].size >= BlockSize(request)
             /\ Len(mid) = 1 \/ (Len(mid) = 2 /\ mid[2].free)
  <1>1. PICK size : size = BlockSize(request)
    OBVIOUS
  <1>2. b \in Block
    OBVIOUS
  <1>3. b.addr \in Nat /\ b.size \in Nat /\ End(b) = b.addr + HEADER_SIZE + b.size
    BY <1>2, BlockFields
  <1>4. /\ size \in Nat /\ size >= MIN_BLOCK_SIZE /\ b.size >= size
        /\ size + HEADER_SIZE + MIN_BLOCK_SIZE < WORD
        /\ HEADER_SIZE \in Nat /\ MIN_BLOCK_SIZE \in Nat /\ WORD \in Nat
    <2>1. /\ size \in Nat /\ size >= MIN_BLOCK_SIZE
          /\ size + HEADER_SIZE + MIN_BLOCK_SIZE < Most(request)
      BY <1>1, BlockSizeFacts
    <2>2. heap_max + Most(request) < WORD
      BY DEF RequestsFit
    <2>3. Most(request) \in Nat /\ heap_max \in Nat
      BY KHeapAssumption DEF Most
    <2> QED BY <1>1, <2>1, <2>2, <2>3, KHeapAssumption
  <1>5. (size + HEADER_SIZE + MIN_BLOCK_SIZE) % WORD = size + HEADER_SIZE + MIN_BLOCK_SIZE
    <2>1. size + HEADER_SIZE + MIN_BLOCK_SIZE \in Nat
      BY <1>4
    <2> QED BY <1>4, <2>1, ModBelow, Zenon
  <1>6. PICK mid : mid = SplitBlock(i, size)
    OBVIOUS
  <1>7. CASE b.size >= size + HEADER_SIZE + MIN_BLOCK_SIZE
    <2>1. PICK c : c = [b EXCEPT !.size = size, !.free = FALSE]
      OBVIOUS
    <2>2. PICK r : r = Remainder(b, size)
      OBVIOUS
    <2>3. c \in Block /\ c.addr = b.addr /\ c.size = size
      BY <1>2, <1>4, <2>1, Zenon DEF Block
    <2>4. ~c.free
      BY <1>2, <2>1 DEF Block
    <2>5. /\ r \in Block /\ r.addr = b.addr + HEADER_SIZE + size
          /\ r.size = b.size - size - HEADER_SIZE
      <3>1. PICK n \in Nat : n = b.size - size - HEADER_SIZE
        BY <1>3, <1>4, <1>7
      <3>2. PICK a \in Nat : a = b.addr + HEADER_SIZE + size
        BY <1>3, <1>4
      <3>3. r = [addr |-> a, size |-> n, free |-> TRUE]
        BY <2>2, <3>1, <3>2 DEF Remainder
      <3> QED BY <3>1, <3>2, <3>3 DEF Block
    <2>6. r.free
      BY <2>2 DEF Remainder
    <2>7. mid = <<c, r>>
      BY <1>5, <1>6, <1>7, <2>1, <2>2 DEF SplitBlock
    <2>8. mid \in Seq(Block) /\ Len(mid) = 2 /\ mid[1] = c /\ mid[2] = r
      BY <2>3, <2>5, <2>7
    <2>9. r.size >= MIN_BLOCK_SIZE /\ End(r) = End(b) /\ r.addr = End(c)
      <3>1. End(r) = r.addr + HEADER_SIZE + r.size /\ End(c) = c.addr + HEADER_SIZE + c.size
        BY DEF End
      <3>2. r.size >= MIN_BLOCK_SIZE
        BY <1>3, <1>4, <1>7, <2>5
      <3>3. End(r) = End(b)
        BY <1>3, <1>4, <2>5, <3>1
      <3>4. r.addr = End(c)
        BY <1>3, <1>4, <2>3, <2>5, <3>1
      <3> QED BY <3>2, <3>3, <3>4
    <2>10. Filled(mid, b.addr, End(b))
      BY <1>4, <2>3, <2>8, <2>9 DEF Filled
    <2>11. ~mid[1].free /\ mid[1].addr = b.addr /\ mid[1].size >= size
           /\ Len(mid) = 2 /\ mid[2].free
      BY <1>4, <2>3, <2>4, <2>6, <2>8
    <2> QED BY <1>1, <1>6, <2>10, <2>11
  <1>8. CASE ~(b.size >= size + HEADER_SIZE + MIN_BLOCK_SIZE)
    <2>1. PICK c : c = [b EXCEPT !.free = FALSE]
      BY Zenon
    <2>2. c \in Block /\ c.addr = b.addr /\ c.size = b.size
      BY <1>2, <2>1, Zenon DEF Block
    <2>3. ~c.free
      BY <1>2, <2>1 DEF Block
    <2>4. mid = <<c>>
      BY <1>5, <1>6, <1>8, <2>1, Zenon DEF SplitBlock
    <2>5. mid \in Seq(Block) /\ Len(mid) = 1 /\ mid[1] = c
      BY <2>2, <2>4
    <2>6. End(c) = End(b)
      BY <2>2 DEF End
    <2>7. Filled(mid, b.addr, End(b))
      BY <2>2, <2>5, <2>6 DEF Filled
    <2>8. ~mid[1].free /\ mid[1].addr = b.addr /\ mid[1].size >= size /\ Len(mid) = 1
      BY <1>4, <2>2, <2>3, <2>5
    <2> QED BY <1>1, <1>6, <2>7, <2>8
  <1> QED BY <1>7, <1>8

LEMMA KmallocReuseSound ==
  ASSUME RequestsFit, Sound(blocks, heap_end, held),
         NEW request \in Sizes, KmallocReuse(request)
  PROVE  Sound(blocks, heap_end, held)'
  <1>1. PICK size : size = BlockSize(request)
    OBVIOUS
  <1>2. PICK i : i = Least(Fitting(size))
    OBVIOUS
  <1>3. /\ i \in 1 .. Len(blocks) /\ blocks[i].free /\ blocks[i].size >= size
        /\ blocks \in Seq(Block) /\ Len(blocks) \in Nat
    <2>1. blocks \in Seq(Block) /\ Len(blocks) \in Nat /\ DOMAIN blocks = 1 .. Len(blocks)
      BY DEF Sound
    <2>2. Fitting(size) \in SUBSET Nat /\ Fitting(size) # {}
      <3>1. Fitting(size) # {}
        BY <1>1 DEF KmallocReuse
      <3>2. Fitting(size) \subseteq DOMAIN blocks
        BY DEF Fitting
      <3> QED BY <2>1, <3>1, <3>2
    <2>3. i \in Fitting(size)
      BY <1>2, <2>2, LeastFacts
    <2> QED BY <2>1, <2>3 DEF Fitting
  <1>4. Filled(blocks, heap_start, heap_end) /\ heap_start \in Nat
    BY <1>3, KHeapAssumption DEF Sound
  <1>5. PICK b : b = blocks[i]
    OBVIOUS
  <1>6. PICK mid : mid = SplitBlock(i, size)
    OBVIOUS
  <1>7. /\ Filled(mid, b.addr, End(b))
        /\ ~mid[1].free
        /\ mid[1].addr = b.addr /\ mid[1].size >= size
        /\ Len(mid) = 1 \/ (Len(mid) = 2 /\ mid[2].free)
    <2>1. b.size >= MIN_BLOCK_SIZE /\ b.size >= BlockSize(request)
      BY <1>1, <1>3, <1>4, <1>5 DEF Filled
    <2> QED BY <1>1, <1>3, <1>5, <1>6, <2>1, SplitFacts
  <1>8. PICK j : j = i + 1
    OBVIOUS
  <1>9. Part(blocks, i, j) /\ j - 1 = i
    BY <1>3, <1>8 DEF Part
  <1>10. PICK cs : cs = Spliced(blocks, mid, i, j)
    OBVIOUS
  <1>11. PICK H : H = held \cup {[addr |-> b.addr, size |-> request]}
    BY Zenon
  <1>12. blocks' = cs /\ held' = H /\ heap_end' = heap_end
    BY <1>1, <1>2, <1>5, <1>6, <1>8, <1>10, <1>11 DEF KmallocReuse, Spliced, Hold
  <1>13. Filled(cs, heap_start, heap_end)
    <2>1. Filled(mid, blocks[i].addr, End(blocks[j - 1]))
      BY <1>5, <1>7, <1>9
    <2> QED BY <1>4, <1>9, <1>10, <2>1, Refilled
  <1>14. mid \in Seq(Block) /\ Len(mid) \in 1 .. 2
    BY <1>7 DEF Filled
  <1>15. PICK n : n = Len(mid)
    BY Zenon
  <1>16. i \in Nat /\ i >= 1 /\ i <= Len(blocks) /\ Len(blocks) \in Nat
        /\ n \in Nat /\ n >= 1 /\ n <= 2 /\ (n = 1 \/ n = 2)
    <2>1. i \in 1 .. Len(blocks) /\ Len(blocks) \in Nat
      BY <1>3
    <2>2. n = 1 \/ n = 2
      BY <1>7, <1>15
    <2> QED BY <2>1, <2>2
  <1>17. /\ cs \in Seq(Block)
         /\ Len(cs) = Len(blocks) - (j - i) + n
         /\ \A k \in 1 .. i - 1 : cs[k] = blocks[k]
         /\ \A k \in 1 .. n : cs[i - 1 + k] = mid[k]
         /\ \A k \in j .. Len(blocks) : cs[k - (j - i) + n] = blocks[k]
    <2>1. SplicedInto(cs, Block, blocks, mid, i, j)
      BY <1>3, <1>9, <1>10, <1>14, SplicedFacts
    <2> QED BY <1>15, <2>1 DEF SplicedInto
  <1>18. Len(cs) = Len(blocks) - 1 + n /\ Len(cs) \in Nat
    BY <1>3, <1>8, <1>16, <1>17
  <1>19. cs[i] = mid[1] /\ i \in 1 .. Len(cs)
    <2>1. 1 \in 1 .. n /\ i - 1 + 1 = i
      BY <1>16
    <2>2. cs[i - 1 + 1] = mid[1]
      BY <1>17, <2>1
    <2> QED BY <1>3, <1>16, <1>18, <2>1, <2>2
  <1>20. n = 2 => cs[i + 1] = mid[2]
    <2> SUFFICES ASSUME n = 2 PROVE cs[i + 1] = mid[2]
      OBVIOUS
    <2>1. 2 \in 1 .. n /\ i - 1 + 2 = i + 1
      BY <1>3
    <2>2. cs[i - 1 + 2] = mid[2]
      BY <1>17, <2>1
    <2> QED BY <2>1, <2>2
  <1>21. ASSUME NEW k \in i + 1 .. Len(blocks)
         PROVE  cs[k - 1 + n] = blocks[k] /\ k - 1 + n \in 1 .. Len(cs)
    <2>1. k \in j .. Len(blocks) /\ k - (j - i) + n = k - 1 + n
      BY <1>3, <1>8, <1>16
    <2>2. cs[k - (j - i) + n] = blocks[k]
      BY <1>17, <2>1
    <2> QED BY <1>3, <1>16, <1>18, <2>1, <2>2
  <1>22. ASSUME NEW k \in i + n .. Len(cs)
         PROVE  k + 1 - n \in i + 1 .. Len(blocks)
                  /\ cs[k] = blocks[k + 1 - n]
    <2>1. PICK l : l = k + 1 - n
      OBVIOUS
    <2>2. l \in i + 1 .. Len(blocks) /\ l - 1 + n = k
      BY <1>3, <1>16, <1>18, <2>1
    <2> QED BY <1>21, <2>1, <2>2
  <1>23. FreePairsIn(cs, {})
    <2> SUFFICES ASSUME NEW k \in 1 .. Len(cs) - 1, cs[k].free, cs[k + 1].free
                 PROVE  FALSE
      BY DEF FreePairsIn
    <2>1. k # i /\ k + 1 # i
      BY <1>7, <1>19
    <2>2. CASE k + 1 < i
      <3>1. k \in 1 .. i - 1 /\ k + 1 \in 1 .. i - 1 /\ k \in 1 .. Len(blocks) - 1
        BY <1>3, <2>2
      <3>2. cs[k] = blocks[k] /\ cs[k + 1] = blocks[k + 1]
        BY <1>17, <3>1
      <3> QED BY <3>1, <3>2 DEF Sound, FreePairsIn
    <2>3. CASE k > i /\ k < i + n
      <3>1. k + 1 \in i + n .. Len(cs) /\ n = 2 /\ (k + 1) + 1 - n = i + 1
        BY <1>16, <1>18, <2>3
      <3>2. i + 1 \in i + 1 .. Len(blocks) /\ cs[k + 1] = blocks[i + 1]
        BY <1>22, <3>1
      <3>3. i \in 1 .. Len(blocks) - 1
        BY <1>3, <3>2
      <3> QED BY <1>3, <3>2, <3>3 DEF Sound, FreePairsIn
    <2>4. CASE k >= i + n
      <3>1. PICK l : l = k + 1 - n
        OBVIOUS
      <3>2. k \in i + n .. Len(cs) /\ k + 1 \in i + n .. Len(cs)
            /\ (k + 1) + 1 - n = l + 1
        BY <1>3, <1>16, <1>18, <2>4, <3>1
      <3>3. cs[k] = blocks[l] /\ cs[k + 1] = blocks[l + 1]
            /\ l \in i + 1 .. Len(blocks) /\ l + 1 \in i + 1 .. Len(blocks)
        BY <1>22, <3>1, <3>2
      <3>4. l \in 1 .. Len(blocks) - 1
        BY <1>3, <3>3
      <3> QED BY <3>3, <3>4 DEF Sound, FreePairsIn
    <2> QED BY <1>3, <1>16, <2>1, <2>2, <2>3, <2>4
  <1>24. Owned(cs, H)
    <2>1. ASSUME NEW g \in held
          PROVE  /\ g.addr # b.addr
                 /\ \E k \in 1 .. Len(cs) :
                      ~cs[k].free /\ cs[k].addr = g.addr /\ cs[k].size >= g.size
      <3>1. PICK l \in 1 .. Len(blocks) :
              ~blocks[l].free /\ blocks[l].addr = g.addr /\ blocks[l].size >= g.size
        BY DEF Sound, Owned
      <3>2. l # i
        BY <1>3, <3>1
      <3>3. g.addr # b.addr
        BY <1>3, <1>4, <1>5, <3>1, <3>2, AddrUnique
      <3>4. \E k \in 1 .. Len(cs) : cs[k] = blocks[l]
        <4>1. CASE l < i
          <5>1. l \in 1 .. i - 1 /\ l \in 1 .. Len(cs)
            BY <1>3, <1>16, <1>18, <4>1
          <5> QED BY <1>17, <5>1
        <4>2. CASE l > i
          <5>1. l \in i + 1 .. Len(blocks)
            BY <1>3, <4>2
          <5> QED BY <1>21, <5>1
        <4> QED BY <1>3, <3>2, <4>1, <4>2
      <3> QED BY <3>1, <3>3, <3>4
    <2>2. PICK w : w = [addr |-> b.addr, size |-> request]
      BY Zenon
    <2>3. w.addr = b.addr /\ w.size = request /\ H = held \cup {w}
      BY <1>11, <2>2
    <2>4. ~cs[i].free /\ cs[i].addr = w.addr /\ cs[i].size >= w.size
      <3>1. size \in Nat /\ request \in Nat /\ size >= request
        BY <1>1, BlockSizeFacts, KHeapAssumption
      <3>2. mid[1].size \in Nat
        <4>1. mid[1] \in Block
          BY <1>14
        <4> QED BY <4>1, BlockFields
      <3> QED BY <1>7, <1>19, <2>3, <3>1, <3>2
    <2>5. ASSUME NEW k \in 1 .. Len(cs), ~cs[k].free
          PROVE  \E h \in H : h.addr = cs[k].addr
      <3>1. CASE k < i
        <4>1. cs[k] = blocks[k] /\ k \in 1 .. Len(blocks)
          <5>1. k \in 1 .. i - 1 /\ k \in 1 .. Len(blocks)
            BY <1>3, <3>1
          <5> QED BY <1>17, <5>1
        <4> QED BY <2>3, <2>5, <4>1 DEF Sound, Owned
      <3>2. CASE k = i
        BY <2>3, <2>4, <3>2
      <3>3. CASE k > i /\ k < i + n
        <4>1. k = i + 1 /\ n = 2
          BY <1>16, <3>3
        <4> QED BY <1>7, <1>15, <1>20, <2>5, <4>1
      <3>4. CASE k >= i + n
        <4>1. k \in i + n .. Len(cs)
          BY <1>3, <1>16, <1>18, <3>4
        <4>2. PICK l \in i + 1 .. Len(blocks) : cs[k] = blocks[l]
          BY <1>22, <4>1
        <4>3. l \in 1 .. Len(blocks)
          BY <1>3
        <4> QED BY <2>3, <2>5, <4>2, <4>3 DEF Sound, Owned
      <3> QED BY <1>3, <1>16, <3>1, <3>2, <3>3, <3>4
    <2>6. \A h, g \in H : h.addr = g.addr => h = g
      BY <2>1, <2>3 DEF Sound, Owned
    <2>7. \A h \in H : \E k \in 1 .. Len(cs) :
            ~cs[k].free /\ cs[k].addr = h.addr /\ cs[k].size >= h.size
      BY <1>19, <2>1, <2>3, <2>4
    <2> QED BY <2>5, <2>6, <2>7 DEF Owned
  <1>25. cs # <<>>
    BY <1>13 DEF Filled
  <1>26. heap_end \in heap_start .. heap_max /\ \A g \in H : g.size \in Sizes
    BY <1>11 DEF Sound
  <1>27. Sound(cs, heap_end, H)
    BY <1>13, <1>17, <1>23, <1>24, <1>25, <1>26 DEF Sound
  <1> QED BY <1>12, <1>27

LEMMA KmallocExtendSound ==
  ASSUME RequestsFit, Sound(blocks, heap_end, held),
         NEW request \in Sizes, KmallocExtend(request)
  PROVE  Sound(blocks, heap_end, held)'
  <1>1. PICK size : size = BlockSize(request)
    OBVIOUS
  <1>2. /\ size \in Nat /\ request \in Nat /\ size >= request /\ size >= MIN_BLOCK_SIZE
        /\ HEADER_SIZE + size \in Nat /\ HEADER_SIZE + size > 0
        /\ HEADER_SIZE + size < WORD \div 2 /\ heap_max + HEADER_SIZE + size < WORD
    <2>1. /\ size \in Nat /\ size >= request /\ size >= MIN_BLOCK_SIZE
          /\ size + HEADER_SIZE + MIN_BLOCK_SIZE < Most(request)
      BY <1>1, BlockSizeFacts
    <2>2. Most(request) < WORD \div 2 /\ heap_max + Most(request) < WORD
      BY DEF RequestsFit
    <2>3. /\ Most(request) \in Nat /\ heap_max \in Nat /\ WORD \in Nat
          /\ request \in Nat /\ HEADER_SIZE \in Nat \ {0} /\ MIN_BLOCK_SIZE \in Nat
      BY KHeapAssumption DEF Most
    <2>4. WORD \div 2 \in Nat
      BY <2>3
    <2>5. PICK w \in Nat : w = WORD \div 2
      BY <2>4
    <2>6. Most(request) < w
      BY <2>2, <2>5
    <2>7. HEADER_SIZE + size < w
      BY <2>1, <2>3, <2>6
    <2> QED BY <2>1, <2>2, <2>3, <2>5, <2>7
  <1>3. heap_end \in Nat /\ heap_end >= heap_start /\ heap_end <= heap_max
        /\ heap_start \in Nat /\ heap_max \in Nat /\ WORD \in Nat
    BY KHeapAssumption DEF Sound
  <1>4. PICK n \in Nat : n = HEADER_SIZE + size
    BY <1>2
  <1>5. (HEADER_SIZE + size) % WORD = n
    <2>1. n < WORD
      BY <1>2, <1>3, <1>4
    <2> QED BY <1>3, <1>4, <2>1, ModBelow
  <1>6. Signed(n) = n
    BY <1>2, <1>4 DEF Signed
  <1>7. PICK e \in Nat : e = heap_end + n
    BY <1>3
  <1>8. (heap_end + n) % WORD = e
    <2>1. size \in Nat /\ HEADER_SIZE \in Nat /\ heap_max + HEADER_SIZE + size < WORD
      BY <1>2, KHeapAssumption
    <2>2. heap_max + n < WORD
      BY <1>3, <1>4, <2>1
    <2>3. e < WORD
      BY <1>3, <1>7, <2>2
    <2> QED BY <1>3, <1>7, <2>3, ModBelow
  <1>9. e <= heap_max /\ heap_end' = e
    <2>1. Kbrk(n) = IF e > heap_max THEN Refused ELSE e
      BY <1>2, <1>4, <1>8 DEF Kbrk
    <2>2. Kbrk(n) # Refused /\ heap_end' = Kbrk(n)
      BY <1>1, <1>5, <1>6 DEF KmallocExtend
    <2> QED BY <1>3, <2>1, <2>2
  <1>10. PICK b : b = [addr |-> heap_end, size |-> size, free |-> FALSE]
    BY Zenon
  <1>11. b \in Block /\ b.addr = heap_end /\ b.size = size
    BY <1>2, <1>3, <1>10 DEF Block
  <1>12. ~b.free
    BY <1>10
  <1>13. End(b) = e
    BY <1>2, <1>3, <1>4, <1>7, <1>11, KHeapAssumption DEF End
  <1>14. PICK cs : cs = Append(blocks, b)
    BY Zenon
  <1>15. PICK H : H = held \cup {[addr |-> heap_end, size |-> request]}
    BY Zenon
  <1>16. blocks' = cs /\ held' = H
    BY <1>1, <1>10, <1>14, <1>15 DEF KmallocExtend, Hold
  <1>17. blocks \in Seq(Block) /\ Len(blocks) \in Nat
         /\ (blocks = <<>> <=> Len(blocks) = 0)
    BY DEF Sound
  <1>18. /\ cs \in Seq(Block) /\ Len(cs) = Len(blocks) + 1
         /\ cs[Len(blocks) + 1] = b
         /\ \A k \in 1 .. Len(blocks) : cs[k] = blocks[k]
    BY <1>11, <1>14, <1>17
  <1>19. PICK l : l = Len(blocks)
    BY Zenon
  <1>20. l \in Nat /\ Len(cs) = l + 1 /\ cs[l + 1] = b
         /\ \A k \in 1 .. l : cs[k] = blocks[k]
    BY <1>17, <1>18, <1>19
  <1>21. CASE l = 0
    <2>1. heap_end = heap_start
      BY <1>17, <1>19, <1>21 DEF Sound
    <2>2. Filled(cs, heap_start, e)
      <3>1. Len(cs) = 1 /\ cs[1] = b
        BY <1>20, <1>21
      <3>2. b.size >= MIN_BLOCK_SIZE /\ b.addr = heap_start /\ End(b) = e
        BY <1>2, <1>11, <1>13, <2>1
      <3>3. cs \in Seq(Block)
        BY <1>18
      <3>4. Len(cs) > 0 /\ \A k \in 1 .. Len(cs) : cs[k] = b
        BY <3>1
      <3>5. \A k \in 1 .. Len(cs) - 1 : FALSE
        BY <3>1
      <3> QED BY <3>1, <3>2, <3>3, <3>4, <3>5 DEF Filled
    <2>3. held = {}
      BY <1>19, <1>21 DEF Sound, Owned
    <2>4. FreePairsIn(cs, {})
      BY <1>20, <1>21 DEF FreePairsIn
    <2>5. Owned(cs, H)
      <3>1. PICK w : w = [addr |-> heap_end, size |-> request]
        BY Zenon
      <3>2. w.addr = heap_end /\ w.size = request /\ H = {w}
        BY <1>15, <2>3, <3>1
      <3>3. cs[1] = b /\ Len(cs) = 1
        BY <1>20, <1>21
      <3> QED BY <1>2, <1>11, <1>12, <3>2, <3>3 DEF Owned
    <2>6. cs # <<>> /\ e \in heap_start .. heap_max
      BY <1>3, <1>7, <1>9, <2>2 DEF Filled
    <2>7. \A h \in H : h.size \in Sizes
      BY <1>15, <2>3
    <2>8. Sound(cs, e, H)
      BY <1>18, <2>2, <2>4, <2>5, <2>6, <2>7 DEF Sound
    <2> QED BY <1>9, <1>16, <2>8
  <1>22. CASE l > 0
    <2>1. Filled(blocks, heap_start, heap_end)
      BY <1>17, <1>19, <1>22 DEF Sound
    <2>2. Filled(cs, heap_start, e)
      <3>1. cs[1] = blocks[1] /\ blocks[1].addr = heap_start
        BY <1>20, <1>22, <2>1 DEF Filled
      <3>2. ASSUME NEW k \in 1 .. Len(cs) PROVE cs[k].size >= MIN_BLOCK_SIZE
        <4>1. CASE k = l + 1
          BY <1>2, <1>11, <1>20, <4>1
        <4>2. CASE k \in 1 .. l
          BY <1>19, <1>20, <2>1, <4>2 DEF Filled
        <4> QED BY <1>20, <4>1, <4>2
      <3>3. ASSUME NEW k \in 1 .. Len(cs) - 1 PROVE cs[k + 1].addr = End(cs[k])
        <4>1. CASE k = l
          <5>1. cs[k] = blocks[l] /\ cs[k + 1] = b
            BY <1>20, <1>22, <4>1
          <5>2. End(blocks[l]) = heap_end
            BY <1>19, <2>1 DEF Filled
          <5> QED BY <1>11, <5>1, <5>2
        <4>2. CASE k \in 1 .. l - 1
          <5>1. k \in 1 .. l /\ k + 1 \in 1 .. l /\ k \in 1 .. Len(blocks) - 1
            BY <1>19, <1>20, <4>2
          <5> QED BY <1>20, <2>1, <5>1 DEF Filled
        <4> QED BY <1>20, <4>1, <4>2
      <3> QED BY <1>13, <1>18, <1>20, <3>1, <3>2, <3>3 DEF Filled
    <2>3. FreePairsIn(cs, {})
      <3> SUFFICES ASSUME NEW k \in 1 .. Len(cs) - 1, cs[k].free, cs[k + 1].free
                   PROVE  FALSE
        BY DEF FreePairsIn
      <3>1. k # l
        BY <1>12, <1>20
      <3>2. k \in 1 .. l /\ k + 1 \in 1 .. l /\ k \in 1 .. Len(blocks) - 1
        BY <1>19, <1>20, <3>1
      <3>3. cs[k] = blocks[k] /\ cs[k + 1] = blocks[k + 1]
        BY <1>20, <3>2
      <3> QED BY <3>2, <3>3 DEF Sound, FreePairsIn
    <2>4. ASSUME NEW k \in 1 .. l PROVE blocks[k].addr # heap_end
      <3>1. blocks[k] \in Block /\ k \in 1 .. Len(blocks)
        BY <1>17, <1>19
      <3>2. End(blocks[k]) <= heap_end
        BY <1>3, <2>1, <3>1, Apart
      <3>3. blocks[k].addr \in Nat /\ End(blocks[k]) \in Nat
            /\ blocks[k].addr < End(blocks[k])
        BY <3>1, BlockFields
      <3> QED BY <1>3, <3>2, <3>3
    <2>5. Owned(cs, H)
      <3>1. PICK w : w = [addr |-> heap_end, size |-> request]
        BY Zenon
      <3>2. w.addr = heap_end /\ w.size = request /\ H = held \cup {w}
        BY <1>15, <3>1
      <3>3. ASSUME NEW g \in held
            PROVE  /\ g.addr # heap_end
                   /\ \E k \in 1 .. Len(cs) :
                        ~cs[k].free /\ cs[k].addr = g.addr /\ cs[k].size >= g.size
        <4>1. PICK k \in 1 .. Len(blocks) :
                ~blocks[k].free /\ blocks[k].addr = g.addr /\ blocks[k].size >= g.size
          BY DEF Sound, Owned
        <4>2. k \in 1 .. l /\ k \in 1 .. Len(cs)
          BY <1>19, <1>20
        <4>3. cs[k] = blocks[k] /\ blocks[k].addr # heap_end
          BY <1>20, <2>4, <4>2
        <4> QED BY <4>1, <4>2, <4>3
      <3>4. ASSUME NEW k \in 1 .. Len(cs), ~cs[k].free
            PROVE  \E h \in H : h.addr = cs[k].addr
        <4>1. CASE k = l + 1
          BY <1>11, <1>20, <3>2, <4>1
        <4>2. CASE k \in 1 .. l
          <5>1. k \in 1 .. Len(blocks) /\ cs[k] = blocks[k]
            BY <1>19, <1>20, <4>2
          <5>2. \E h \in held : h.addr = blocks[k].addr
            BY <3>4, <5>1 DEF Sound, Owned
          <5> QED BY <3>2, <5>1, <5>2
        <4> QED BY <1>20, <4>1, <4>2
      <3>5. \E k \in 1 .. Len(cs) :
              ~cs[k].free /\ cs[k].addr = w.addr /\ cs[k].size >= w.size
        <4>1. l + 1 \in 1 .. Len(cs)
          BY <1>20
        <4> QED BY <1>2, <1>11, <1>12, <1>20, <3>2, <4>1
      <3>6. \A h, g \in H : h.addr = g.addr => h = g
        BY <3>2, <3>3 DEF Sound, Owned
      <3>7. \A h \in H : \E k \in 1 .. Len(cs) :
              ~cs[k].free /\ cs[k].addr = h.addr /\ cs[k].size >= h.size
        BY <3>2, <3>3, <3>5
      <3> QED BY <3>4, <3>6, <3>7 DEF Owned
    <2>6. cs # <<>> /\ e \in heap_start .. heap_max
      BY <1>3, <1>7, <1>9, <2>2 DEF Filled
    <2>7. \A h \in H : h.size \in Sizes
      BY <1>15 DEF Sound
    <2>8. Sound(cs, e, H)
      BY <1>18, <2>2, <2>3, <2>5, <2>6, <2>7 DEF Sound
    <2> QED BY <1>9, <1>16, <2>8
  <1> QED BY <1>20, <1>21, <1>22

LEMMA InitSound == Init => Sound(blocks, heap_end, held)
  <1> SUFFICES ASSUME Init PROVE Sound(blocks, heap_end, held)
    OBVIOUS
  <1>1. blocks = <<>> /\ heap_end = heap_start /\ held = {}
    BY DEF Init
  <1>2. blocks \in Seq(Block) /\ Len(blocks) = 0
    BY <1>1
  <1>3. Owned(blocks, held) /\ FreePairsIn(blocks, {})
    BY <1>1, <1>2 DEF Owned, FreePairsIn
  <1>4. heap_start \in heap_start .. heap_max
    BY KHeapAssumption
  <1> QED BY <1>1, <1>2, <1>3, <1>4 DEF Sound

LEMMA HeapStep ==
  ASSUME RequestsFit, Sound(blocks, heap_end, held), [Next]_vars
  PROVE  Sound(blocks, heap_end, held)'
  BY KmallocReuseSound, KmallocExtendSound, KfreeSound DEF Next, vars

(* Whatever clients ask for and free, in any order, the blocks of the heap *)
(* tile it from heap_start to heap_end without gap or overlap, a held      *)
(* pointer is an allocated block large enough for what was asked, no two   *)
(* pointers share a block, the heap stays below heap_max, and no two free  *)
(* blocks are neighbours: split_block, coalesce_blocks and kbrk together.  *)
THEOREM HeapKept ==
  ASSUME RequestsFit
  PROVE  Spec => [](HeapSound /\ Coalesced)
  <1>1. Init => Sound(blocks, heap_end, held)
    BY InitSound
  <1>2. Sound(blocks, heap_end, held) /\ [Next]_vars
          => Sound(blocks, heap_end, held)'
    BY HeapStep
  <1>3. Sound(blocks, heap_end, held) => HeapSound /\ Coalesced
    BY SoundIs
  <1> QED BY <1>1, <1>2, <1>3, PTL DEF Spec

----------------------------------------------------------------------------
(* The clients of the heap.                                                *)

Names == {"a", "b", "c", "d"}

(* The variables of heaptest that it still has to free, before step s.     *)
ToFree(s) ==
  {q \in Names : \/ q = "a" /\ s \in 1 .. 5
                 \/ q = "b" /\ s \in 2 .. 3
                 \/ q = "c" /\ s \in 3 .. 6
                 \/ q = "d" /\ s \in 5 .. 7}

(* Besides what Freeable says, heaptest's own pointers differ.             *)
Separate(H, L, R, s, f) ==
  /\ L # NULL => L \in H /\ L \notin R
  /\ R \subseteq H
  /\ \A p \in ToFree(s) : f[p] # NULL =>
       /\ f[p] \in H /\ f[p] \notin R /\ f[p] # L
       /\ \A q \in ToFree(s) : q # p => f[q] # f[p]

ClientsInv ==
  /\ Sound(blocks, heap_end, held)
  /\ Separate(held, last_alloc, regions, step, ptrs)
  /\ DOMAIN ptrs = Names /\ ptrs = [p \in Names |-> ptrs[p]]

LEMMA SeparateFreeable ==
  ASSUME ClientsInv
  PROVE  Freeable
  <1>1. ASSUME NEW x \in TestHolds
        PROVE  x \in held /\ x \notin regions /\ x # last_alloc
    <2>1. PICK p \in ToFree(step) : x = ptrs[p] /\ x # NULL
      BY DEF TestHolds, ToFree, ClientsInv, Names
    <2> QED BY <2>1 DEF ClientsInv, Separate
  <1>2. last_alloc # NULL => last_alloc \in held /\ last_alloc \notin regions
    BY DEF ClientsInv, Separate
  <1>3. regions \subseteq held
    BY DEF ClientsInv, Separate
  <1> QED BY <1>1, <1>2, <1>3 DEF Freeable

(* What a call of kmalloc does to the pointers that clients hold.          *)
Allocated(r) ==
  \/ r = NULL /\ held' = held
  \/ r # NULL /\ r \notin held /\ held' = held \cup {r}

LEMMA KmallocFacts ==
  ASSUME RequestsFit, Sound(blocks, heap_end, held),
         NEW request \in Sizes, Kmalloc(request)
  PROVE  Sound(blocks, heap_end, held)' /\ Allocated(Returned(request))
  <1>1. heap_start \in Nat \ {0} /\ heap_end \in Nat /\ heap_end >= heap_start
    BY KHeapAssumption DEF Sound
  <1>2. blocks \in Seq(Block) /\ Len(blocks) \in Nat /\ DOMAIN blocks = 1 .. Len(blocks)
    BY DEF Sound
  <1>3. CASE KmallocReuse(request)
    <2>1. Sound(blocks, heap_end, held)'
      BY <1>3, KmallocReuseSound
    <2>2. PICK i : i = Least(Fitting(BlockSize(request)))
      OBVIOUS
    <2>3. i \in 1 .. Len(blocks) /\ blocks[i].free
      <3>1. Fitting(BlockSize(request)) # {}
        BY <1>3 DEF KmallocReuse
      <3>2. Fitting(BlockSize(request)) \subseteq DOMAIN blocks
        BY DEF Fitting
      <3>3. Fitting(BlockSize(request)) \in SUBSET Nat
        BY <1>2, <3>2
      <3>4. i \in Fitting(BlockSize(request))
        BY <2>2, <3>1, <3>3, LeastFacts
      <3> QED BY <1>2, <3>4 DEF Fitting
    <2>4. Filled(blocks, heap_start, heap_end)
      BY <1>2, <2>3 DEF Sound
    <2>5. PICK r : r = [addr |-> blocks[i].addr, size |-> request]
      BY Zenon
    <2>6. Returned(request) = r /\ held' = held \cup {r}
      BY <1>3, <2>2, <2>5 DEF KmallocReuse, Returned, Hold
    <2>7. r.addr = blocks[i].addr
      BY <2>5
    <2>8. r # NULL
      <3>1. heap_start <= blocks[i].addr
        BY <1>1, <2>3, <2>4, Apart
      <3>2. blocks[i] \in Block
        BY <1>2, <2>3
      <3>3. blocks[i].addr \in Nat
        BY <3>2, BlockFields
      <3>4. NULL.addr = 0
        BY DEF NULL
      <3> QED BY <1>1, <2>7, <3>1, <3>3, <3>4
    <2>9. r \notin held
      <3> SUFFICES ASSUME r \in held PROVE FALSE
        OBVIOUS
      <3>1. PICK k \in 1 .. Len(blocks) : ~blocks[k].free /\ blocks[k].addr = r.addr
        BY DEF Sound, Owned
      <3>2. k = i
        BY <1>1, <2>3, <2>4, <2>7, <3>1, AddrUnique
      <3> QED BY <2>3, <3>1, <3>2
    <2> QED BY <2>1, <2>6, <2>8, <2>9 DEF Allocated
  <1>4. CASE KmallocExtend(request)
    <2>1. Sound(blocks, heap_end, held)'
      BY <1>4, KmallocExtendSound
    <2>2. PICK r : r = [addr |-> heap_end, size |-> request]
      BY Zenon
    <2>3. Returned(request) = r /\ held' = held \cup {r}
      BY <1>4, <2>2 DEF KmallocExtend, Returned, Grown, Hold
    <2>4. r.addr = heap_end
      BY <2>2
    <2>5. r # NULL
      <3>1. NULL.addr = 0
        BY DEF NULL
      <3> QED BY <1>1, <2>4, <3>1
    <2>6. r \notin held
      <3> SUFFICES ASSUME r \in held PROVE FALSE
        OBVIOUS
      <3>1. PICK k \in 1 .. Len(blocks) : blocks[k].addr = heap_end
        BY <2>4 DEF Sound, Owned
      <3>2. Filled(blocks, heap_start, heap_end)
        BY <1>2, <3>1 DEF Sound
      <3>3. End(blocks[k]) <= heap_end
        BY <1>1, <3>2, Apart
      <3>4. blocks[k] \in Block
        BY <1>2, <3>1
      <3>5. End(blocks[k]) \in Nat /\ blocks[k].addr < End(blocks[k])
        BY <3>4, BlockFields
      <3> QED BY <1>1, <3>1, <3>3, <3>5
    <2> QED BY <2>1, <2>3, <2>5, <2>6 DEF Allocated
  <1>5. CASE Returned(request) = NULL /\ UNCHANGED vars
    BY <1>5, SMTT(20) DEF vars, Allocated
  <1> QED BY <1>3, <1>4, <1>5 DEF Kmalloc

LEMMA KfreeFacts ==
  ASSUME Sound(blocks, heap_end, held), NEW h \in held, Kfree(h)
  PROVE  Sound(blocks, heap_end, held)' /\ held' = held \ {h}
  BY KfreeSound, Zenon DEF Kfree

LEMMA AllocStep ==
  ASSUME RequestsFit, ClientsInv, Alloc
  PROVE  ClientsInv'
  <1>1. step = 0 /\ UNCHANGED <<regions, step, ptrs>>
    BY DEF Alloc
  <1>2. PICK request \in Sizes :
          /\ Kmalloc(request)
          /\ last_alloc' = IF Returned(request) = NULL THEN last_alloc ELSE Returned(request)
    BY DEF Alloc
  <1>3. Sound(blocks, heap_end, held)' /\ Allocated(Returned(request))
    BY <1>2, KmallocFacts DEF ClientsInv
  <1>4. ToFree(step) = {} /\ ToFree(step') = {}
    BY <1>1 DEF ToFree
  <1>5. Separate(held', last_alloc', regions', step', ptrs')
    BY <1>1, <1>2, <1>3, <1>4 DEF Separate, Allocated, ClientsInv
  <1> QED BY <1>1, <1>3, <1>5 DEF ClientsInv

LEMMA FreeStep ==
  ASSUME ClientsInv, Free
  PROVE  ClientsInv'
  <1>1. step = 0 /\ last_alloc # NULL /\ last_alloc' = NULL
        /\ UNCHANGED <<regions, step, ptrs>>
    BY DEF Free, Forgotten
  <1>2. last_alloc \in held
    BY <1>1 DEF ClientsInv, Separate
  <1>3. Sound(blocks, heap_end, held)' /\ held' = held \ {last_alloc}
    BY <1>2, KfreeFacts DEF ClientsInv, Free
  <1>4. ToFree(step') = {}
    BY <1>1 DEF ToFree
  <1>5. Separate(held', last_alloc', regions', step', ptrs')
    BY <1>1, <1>3, <1>4 DEF Separate, ClientsInv
  <1> QED BY <1>1, <1>3, <1>5 DEF ClientsInv

LEMMA RegionStep ==
  ASSUME RequestsFit, ClientsInv, NewRegion \/ FreeRegion
  PROVE  ClientsInv'
  <1>1. step = 0 /\ UNCHANGED <<last_alloc, step, ptrs>>
    BY DEF NewRegion, FreeRegion
  <1>2. ToFree(step') = {}
    BY <1>1 DEF ToFree
  <1>3. CASE NewRegion
    <2>1. RegionSize \in Sizes
      BY HeapClientsAssumption
    <2>2. PICK r : r = Returned(RegionSize)
      OBVIOUS
    <2>3. Sound(blocks, heap_end, held)' /\ Allocated(r)
      BY <1>3, <2>1, <2>2, KmallocFacts DEF ClientsInv, NewRegion
    <2>4. regions' = regions \cup ({r} \ {NULL})
      BY <1>3, <2>2 DEF NewRegion
    <2>5. Separate(held', last_alloc', regions', step', ptrs')
      BY <1>1, <1>2, <2>3, <2>4 DEF Separate, Allocated, ClientsInv
    <2> QED BY <1>1, <2>3, <2>5 DEF ClientsInv
  <1>4. CASE FreeRegion
    <2>1. PICK r \in regions : Kfree(r) /\ regions' = regions \ {r}
      BY <1>4 DEF FreeRegion
    <2>2. r \in held
      BY <2>1 DEF ClientsInv, Separate
    <2>3. Sound(blocks, heap_end, held)' /\ held' = held \ {r}
      BY <2>1, <2>2, KfreeFacts DEF ClientsInv
    <2>4. Separate(held', last_alloc', regions', step', ptrs')
      BY <1>1, <1>2, <2>1, <2>3 DEF Separate, ClientsInv
    <2> QED BY <1>1, <2>3, <2>4 DEF ClientsInv
  <1> QED BY <1>3, <1>4

(* One allocation of heaptest, and one kfree.                              *)
LEMMA GetsStep ==
  ASSUME RequestsFit, ClientsInv, NEW p \in Names, NEW request \in Sizes,
         Gets(p, request), UNCHANGED <<last_alloc, regions>>,
         p \notin ToFree(step), ToFree(step') \subseteq ToFree(step) \cup {p}
  PROVE  ClientsInv'
  <1>1. PICK r : r = Returned(request)
    OBVIOUS
  <1>2. Sound(blocks, heap_end, held)' /\ Allocated(r)
    BY <1>1, KmallocFacts DEF ClientsInv, Gets
  <1>3. /\ ptrs'[p] = r /\ \A q \in Names : q # p => ptrs'[q] = ptrs[q]
        /\ DOMAIN ptrs' = Names /\ ptrs' = [q \in Names |-> ptrs'[q]]
    BY <1>1 DEF Gets, ClientsInv
  <1>4. ToFree(step) \subseteq Names
    BY DEF ToFree
  <1>5. ASSUME NEW q \in ToFree(step'), ptrs'[q] # NULL
        PROVE  /\ ptrs'[q] \in held' /\ ptrs'[q] \notin regions'
               /\ ptrs'[q] # last_alloc'
               /\ \A o \in ToFree(step') : o # q => ptrs'[o] # ptrs'[q]
    <2>1. CASE q = p
      <3>1. r # NULL /\ r \notin held /\ held' = held \cup {r}
        BY <1>2, <1>3, <1>5, <2>1 DEF Allocated
      <3>2. regions \subseteq held /\ (last_alloc = NULL \/ last_alloc \in held)
        BY DEF ClientsInv, Separate
      <3>3. ASSUME NEW o \in ToFree(step'), o # q PROVE ptrs'[o] # r
        <4>1. o \in ToFree(step) /\ ptrs'[o] = ptrs[o]
          BY <1>3, <1>4, <2>1, <3>3
        <4>2. ptrs[o] = NULL \/ ptrs[o] \in held
          BY <4>1 DEF ClientsInv, Separate
        <4> QED BY <3>1, <4>1, <4>2
      <3> QED BY <1>3, <2>1, <3>1, <3>2, <3>3
    <2>2. CASE q # p
      <3>1. q \in ToFree(step) /\ ptrs'[q] = ptrs[q]
        BY <1>3, <1>4, <2>2
      <3>2. /\ ptrs[q] \in held /\ ptrs[q] \notin regions /\ ptrs[q] # last_alloc
            /\ \A o \in ToFree(step) : o # q => ptrs[o] # ptrs[q]
        BY <1>5, <3>1 DEF ClientsInv, Separate
      <3>3. held \subseteq held' /\ r # ptrs[q]
        BY <1>2, <1>5, <3>1, <3>2 DEF Allocated
      <3>4. ASSUME NEW o \in ToFree(step'), o # q PROVE ptrs'[o] # ptrs'[q]
        <4>1. CASE o = p
          BY <1>3, <3>1, <3>3, <4>1
        <4>2. CASE o # p
          <5>1. o \in ToFree(step) /\ ptrs'[o] = ptrs[o]
            BY <1>3, <1>4, <4>2
          <5> QED BY <3>1, <3>2, <3>4, <5>1
        <4> QED BY <4>1, <4>2
      <3> QED BY <3>1, <3>2, <3>3, <3>4
    <2> QED BY <2>1, <2>2
  <1>6. held \subseteq held'
    BY <1>2 DEF Allocated
  <1>7. Separate(held', last_alloc', regions', step', ptrs')
    BY <1>5, <1>6 DEF ClientsInv, Separate
  <1> QED BY <1>2, <1>3, <1>7 DEF ClientsInv

LEMMA FreesStep ==
  ASSUME ClientsInv, NEW p \in ToFree(step), Frees(p),
         UNCHANGED <<last_alloc, regions>>,
         ToFree(step') \subseteq ToFree(step) \ {p}
  PROVE  ClientsInv'
  <1>1. ptrs' = ptrs
    BY DEF Frees
  <1>2. CASE ptrs[p] = NULL
    <2>1. UNCHANGED vars
      BY <1>2 DEF Frees
    <2>2. Separate(held', last_alloc', regions', step', ptrs')
      BY <1>1, <2>1 DEF ClientsInv, Separate, vars
    <2> QED BY <1>1, <2>1, <2>2 DEF ClientsInv, vars
  <1>3. CASE ptrs[p] # NULL
    <2>1. /\ ptrs[p] \in held /\ ptrs[p] \notin regions /\ ptrs[p] # last_alloc
          /\ \A q \in ToFree(step) : q # p => ptrs[q] # ptrs[p]
      BY <1>3 DEF ClientsInv, Separate
    <2>2. PICK h \in held : h = ptrs[p]
      BY <2>1
    <2>3. Sound(blocks, heap_end, held)' /\ held' = held \ {h}
      BY <1>3, <2>2, KfreeFacts DEF ClientsInv, Frees
    <2>4. Separate(held', last_alloc', regions', step', ptrs')
      BY <1>1, <2>1, <2>2, <2>3 DEF ClientsInv, Separate
    <2> QED BY <1>1, <2>3, <2>4 DEF ClientsInv
  <1> QED BY <1>2, <1>3

LEMMA HeaptestStep ==
  ASSUME RequestsFit, ClientsInv, Heaptest
  PROVE  ClientsInv'
  <1>1. TestSize \in Sizes /\ 2 * TestSize \in Sizes
    BY HeapClientsAssumption
  <1>2. UNCHANGED <<last_alloc, regions>>
    BY DEF Heaptest, Test
  <1>3. CASE Test(0) /\ Gets("a", TestSize)
    <2>1. "a" \in Names /\ "a" \notin ToFree(step) /\ ToFree(step') \subseteq ToFree(step) \cup {"a"}
      BY <1>3 DEF Test, ToFree, Names
    <2> QED BY <1>1, <1>2, <1>3, <2>1, GetsStep
  <1>4. CASE Test(1) /\ Gets("b", 2 * TestSize)
    <2>1. "b" \in Names /\ "b" \notin ToFree(step) /\ ToFree(step') \subseteq ToFree(step) \cup {"b"}
      BY <1>4 DEF Test, ToFree, Names
    <2> QED BY <1>1, <1>2, <1>4, <2>1, GetsStep
  <1>5. CASE Test(2) /\ Gets("c", TestSize)
    <2>1. "c" \in Names /\ "c" \notin ToFree(step) /\ ToFree(step') \subseteq ToFree(step) \cup {"c"}
      BY <1>5 DEF Test, ToFree, Names
    <2> QED BY <1>1, <1>2, <1>5, <2>1, GetsStep
  <1>6. CASE Test(3) /\ Frees("b")
    <2>1. "b" \in ToFree(step) /\ ToFree(step') \subseteq ToFree(step) \ {"b"}
      BY <1>6 DEF Test, ToFree, Names
    <2> QED BY <1>2, <1>6, <2>1, FreesStep
  <1>7. CASE Test(4) /\ Gets("d", TestSize)
    <2>1. "d" \in Names /\ "d" \notin ToFree(step) /\ ToFree(step') \subseteq ToFree(step) \cup {"d"}
      BY <1>7 DEF Test, ToFree, Names
    <2> QED BY <1>1, <1>2, <1>7, <2>1, GetsStep
  <1>8. CASE Test(5) /\ Frees("a")
    <2>1. "a" \in ToFree(step) /\ ToFree(step') \subseteq ToFree(step) \ {"a"}
      BY <1>8 DEF Test, ToFree, Names
    <2> QED BY <1>2, <1>8, <2>1, FreesStep
  <1>9. CASE Test(6) /\ Frees("c")
    <2>1. "c" \in ToFree(step) /\ ToFree(step') \subseteq ToFree(step) \ {"c"}
      BY <1>9 DEF Test, ToFree, Names
    <2> QED BY <1>2, <1>9, <2>1, FreesStep
  <1>10. CASE Test(7) /\ Frees("d")
    <2>1. "d" \in ToFree(step) /\ ToFree(step') \subseteq ToFree(step) \ {"d"}
      BY <1>10 DEF Test, ToFree, Names
    <2> QED BY <1>2, <1>10, <2>1, FreesStep
  <1> QED BY <1>3, <1>4, <1>5, <1>6, <1>7, <1>8, <1>9, <1>10 DEF Heaptest

LEMMA ClientsStep ==
  ASSUME RequestsFit, ClientsInv, [ClientsNext]_clientVars
  PROVE  ClientsInv'
  <1>1. CASE HeaptestEnds
    <2>1. UNCHANGED <<vars, last_alloc, regions>> /\ step' = 0 /\ ptrs' = NoPtrs
      BY <1>1 DEF HeaptestEnds
    <2>2. ToFree(step') = {}
      BY <2>1 DEF ToFree
    <2>3. Separate(held', last_alloc', regions', step', ptrs')
      BY <2>1, <2>2 DEF ClientsInv, Separate, vars
    <2>4. DOMAIN ptrs' = Names /\ ptrs' = [p \in Names |-> ptrs'[p]]
      BY <2>1 DEF NoPtrs, Names
    <2> QED BY <2>1, <2>3, <2>4 DEF ClientsInv, vars
  <1>2. CASE UNCHANGED clientVars
    BY <1>2 DEF clientVars, vars, ClientsInv
  <1> QED BY <1>1, <1>2, AllocStep, FreeStep, RegionStep, HeaptestStep DEF ClientsNext

LEMMA ClientsStart == ClientsInit => ClientsInv
  <1> SUFFICES ASSUME ClientsInit PROVE ClientsInv
    OBVIOUS
  <1>1. ToFree(step) = {}
    BY DEF ClientsInit, ToFree
  <1>2. Separate(held, last_alloc, regions, step, ptrs)
    BY <1>1 DEF ClientsInit, Separate
  <1>3. DOMAIN ptrs = Names /\ ptrs = [p \in Names |-> ptrs[p]]
    BY DEF ClientsInit, NoPtrs, Names
  <1> QED BY <1>2, <1>3, InitSound DEF ClientsInit, ClientsInv

LEMMA ClientsInvariance ==
  ASSUME RequestsFit
  PROVE  ClientsSpec => []ClientsInv
  <1>1. ClientsInit => ClientsInv
    BY ClientsStart
  <1>2. ClientsInv /\ [ClientsNext]_clientVars => ClientsInv'
    BY ClientsStep
  <1> QED BY <1>1, <1>2, PTL DEF ClientsSpec

(* With the clients that the kernel has, every pointer that free, vfree or *)
(* heaptest hands to kfree is a block in use and no other client's, over   *)
(* any sequence of commands, failed allocations included: kfree never      *)
(* panics on a header that is gone, and never warns of a second kfree.     *)
THEOREM PointersFreeable ==
  ASSUME RequestsFit
  PROVE  ClientsSpec => []Freeable
  <1>1. ClientsInv => Freeable
    BY SeparateFreeable
  <1> QED BY <1>1, ClientsInvariance, PTL

(* And under these clients, whose calls are one by one those of Spec while *)
(* the pointers they free are good, the heap is sound ...                  *)
THEOREM ClientsHeapSound ==
  ASSUME RequestsFit
  PROVE  ClientsSpec => []HeapSound
  <1>1. ClientsInv => HeapSound
    BY SoundIs DEF ClientsInv
  <1> QED BY <1>1, ClientsInvariance, PTL

(* ... and kfree leaves no two free neighbours for kmalloc to pass over.   *)
THEOREM ClientsCoalesced ==
  ASSUME RequestsFit
  PROVE  ClientsSpec => []Coalesced
  <1>1. ClientsInv => Coalesced
    BY SoundIs DEF ClientsInv
  <1> QED BY <1>1, ClientsInvariance, PTL
=============================================================================
