--------------------------- MODULE XcpBoot_proofs ---------------------------
(***************************************************************************)
(* Proofs about the OpenBLT port, for words, blocks and sectors of any     *)
(* size, any data, any addresses, and any number of commands and faults.   *)
(***************************************************************************)
EXTENDS XcpBoot, TLAPS

(* Arithmetic: words, blocks and sectors. *)

LEMMA DivMod ==
  ASSUME NEW k \in Nat \ {0}, NEW a \in Nat
  PROVE  a = (a \div k) * k + (a % k) /\ a % k \in 0 .. (k - 1) /\ a \div k \in Nat
OBVIOUS

\* A product with a positive number keeps the order, and can be undone.
LEMMA Scale ==
  ASSUME NEW k \in Nat \ {0}, NEW a \in Nat, NEW b \in Nat
  PROVE  a < b <=> a * k < b * k
<1>1. ASSUME a < b PROVE a * k < b * k
  <2> DEFINE d == b - a
  <2>1. d \in Nat \ {0} /\ b = a + d
    BY <1>1
  <2> HIDE DEF d
  <2>2. d * k >= k /\ a * k \in Nat /\ d * k \in Nat
    BY <2>1
  <2>3. (a + d) * k = a * k + d * k
    BY <2>1
  <2> QED BY <2>1, <2>2, <2>3
<1>2. ASSUME b <= a PROVE b * k <= a * k
  <2> DEFINE d == a - b
  <2>1. d \in Nat /\ a = b + d
    BY <1>2
  <2> HIDE DEF d
  <2>2. b * k \in Nat /\ d * k \in Nat
    BY <2>1
  <2>3. (b + d) * k = b * k + d * k
    BY <2>1
  <2> QED BY <2>1, <2>2, <2>3
<1>3. a * k \in Nat /\ b * k \in Nat
  OBVIOUS
<1> QED BY <1>1, <1>2, <1>3

\* How many times k goes into a, and the bounds that say so.
LEMMA Division ==
  ASSUME NEW k \in Nat \ {0}, NEW a \in Nat, NEW n \in Nat, n * k <= a, a < n * k + k
  PROVE  a \div k = n
<1> DEFINE q == a \div k
<1>1. a = q * k + (a % k) /\ a % k \in 0 .. (k - 1) /\ q \in Nat
  BY DivMod
<1> HIDE DEF q
<1>2. (n + 1) * k = n * k + k /\ (q + 1) * k = q * k + k
  BY <1>1
<1>3. n * k < (q + 1) * k /\ q * k < (n + 1) * k
  BY <1>1, <1>2
<1>4. n < q + 1 /\ q < n + 1
  BY <1>1, <1>3, Scale
<1> QED BY <1>1, <1>4 DEF q

\* The block a cell is in, and the multiples of a block that bound it.
LEMMA BlockBounds ==
  ASSUME NEW k \in Nat \ {0}, NEW a \in Nat, NEW m \in Nat, NEW n \in Nat,
         m * k <= a, a < n * k
  PROVE  /\ (a \div k) * k \in Nat
         /\ m * k <= (a \div k) * k /\ (a \div k) * k <= a
         /\ a < (a \div k) * k + k /\ (a \div k) * k + k <= n * k
         /\ \A y \in Nat : (a \div k) * k <= y /\ y < (a \div k) * k + k
                             => (y \div k) * k = (a \div k) * k
<1> DEFINE q == a \div k
<1>1. a = q * k + (a % k) /\ a % k \in 0 .. (k - 1) /\ q \in Nat
  BY DivMod
<1>2. ASSUME NEW y \in Nat, q * k <= y, y < q * k + k PROVE y \div k = q
  BY <1>1, <1>2, Division
<1> HIDE DEF q
<1>3. q * k \in Nat /\ (q + 1) * k = q * k + k /\ q + 1 \in Nat
  BY <1>1
<1>4. ~(q < m)
  <2>1. ASSUME q < m PROVE FALSE
    <3>1. q + 1 = m \/ q + 1 < m
      BY <1>1, <2>1
    <3>2. (q + 1) * k <= m * k
      BY <1>3, <3>1, Scale
    <3> QED BY <1>1, <1>3, <3>2
  <2> QED BY <2>1
<1>5. m = q \/ m < q
  BY <1>1, <1>4
<1>6. m * k <= q * k
  BY <1>1, <1>3, <1>5, Scale
<1>7. q * k < n * k
  BY <1>1, <1>3
<1>8. q < n
  BY <1>1, <1>7, Scale
<1>9. q + 1 = n \/ q + 1 < n
  BY <1>1, <1>8
<1>10. (q + 1) * k <= n * k
  BY <1>3, <1>9, Scale
<1> QED BY <1>1, <1>2, <1>3, <1>6, <1>10 DEF q

\* The flash: the sectors of flashLayout are whole blocks behind sector 0.
LEMMA Layout ==
  /\ BlockUnits \in Nat \ {0} /\ First \in Nat \ {0} /\ Last \in Nat /\ First <= Last
  /\ AppCells \subseteq Cells /\ Cells \subseteq Nat
  /\ \A x \in AppCells :
       /\ BlockOf(x) \in Nat /\ First <= BlockOf(x) /\ BlockOf(x) <= x
       /\ x < BlockOf(x) + BlockUnits /\ BlockOf(x) + BlockUnits <= Last + 1
       /\ \A y \in Nat : BlockOf(x) <= y /\ y < BlockOf(x) + BlockUnits
                           => BlockOf(y) = BlockOf(x)
<1>1. BlockUnits \in Nat \ {0}
  BY XcpAssumption DEF BlockUnits
<1>2. SectorBlocks \in Nat \ {0} /\ AppSectors \in Nat \ {0}
  BY XcpAssumption
<1>3. First = SectorBlocks * BlockUnits /\ First \in Nat \ {0}
  BY <1>1, <1>2 DEF First, SectorUnits
<1> DEFINE n == (AppSectors + 1) * SectorBlocks
<1>4. n \in Nat
  BY <1>2
<1>5. Last + 1 = n * BlockUnits /\ Last \in Nat /\ First <= Last
  <2>1. Last + 1 = (AppSectors + 1) * First
    BY <1>2, <1>3 DEF Last, First
  <2>2. (AppSectors + 1) * First = AppSectors * First + First /\ AppSectors * First >= First
    BY <1>2, <1>3
  <2>3. (AppSectors + 1) * (SectorBlocks * BlockUnits) = n * BlockUnits
    BY <1>1, <1>2
  <2>4. AppSectors * First \in Nat
    BY <1>2, <1>3
  <2>5. Last \in Int
    BY <1>2, <1>3 DEF Last, First
  <2> QED BY <1>3, <2>1, <2>2, <2>3, <2>4, <2>5
<1> HIDE DEF n
<1>6. AppCells \subseteq Cells /\ Cells \subseteq Nat
  BY <1>3, <1>5 DEF AppCells, Cells
<1>7. ASSUME NEW x \in AppCells
      PROVE  /\ BlockOf(x) \in Nat /\ First <= BlockOf(x) /\ BlockOf(x) <= x
             /\ x < BlockOf(x) + BlockUnits /\ BlockOf(x) + BlockUnits <= Last + 1
             /\ \A y \in Nat : BlockOf(x) <= y /\ y < BlockOf(x) + BlockUnits
                                 => BlockOf(y) = BlockOf(x)
  <2>1. x \in Nat /\ SectorBlocks * BlockUnits <= x /\ x < n * BlockUnits
    BY <1>3, <1>5, <1>6 DEF AppCells
  <2>2. SectorBlocks \in Nat
    BY <1>2
  <2>3. /\ BlockOf(x) \in Nat
        /\ SectorBlocks * BlockUnits <= BlockOf(x) /\ BlockOf(x) <= x
        /\ x < BlockOf(x) + BlockUnits /\ BlockOf(x) + BlockUnits <= n * BlockUnits
        /\ \A y \in Nat : BlockOf(x) <= y /\ y < BlockOf(x) + BlockUnits
                             => BlockOf(y) = BlockOf(x)
    BY <1>1, <1>4, <2>1, <2>2, BlockBounds DEF BlockOf
  <2> QED BY <1>3, <1>5, <2>3
<1> QED BY <1>1, <1>3, <1>5, <1>6, <1>7

\* What a buffer can hold: a whole block of flashLayout.
LEMMA Covered ==
  ASSUME NEW b \in Buffers
  PROVE  /\ b.base \in Int /\ b.data \in [Offsets -> Units]
         /\ \A x \in Cells : Covers(b, x) =>
              /\ x \in AppCells /\ x - b.base \in Offsets /\ b.data[x - b.base] \in Units
              /\ BlockOf(x) = b.base /\ WordOf(b, x) \in Words
<1>1. b.base \in Bases /\ b.data \in [Offsets -> Units]
  BY DEF Buffers
<1>2. b.base \in Int
  BY <1>1, Layout DEF Bases, NoBase, Zero
<1>3. ASSUME NEW x \in Cells, Covers(b, x)
      PROVE  /\ x \in AppCells /\ x - b.base \in Offsets /\ b.data[x - b.base] \in Units
             /\ BlockOf(x) = b.base /\ WordOf(b, x) \in Words
  <2>1. b.base >= 0 /\ b.base <= x /\ x < b.base + BlockUnits
    BY <1>2, <1>3, Layout DEF Covers
  <2>2. PICK y \in AppCells : b.base = BlockOf(y)
    BY <1>1, <2>1 DEF Bases, NoBase, Zero
  <2>3. x \in Nat /\ x \in AppCells /\ BlockOf(x) = b.base
    BY <2>1, <2>2, Layout DEF AppCells
  <2>4. x - b.base \in Offsets
    BY <1>2, <2>1, <2>3, Layout DEF Offsets
  <2> DEFINE o == x - b.base
  <2>5. o \in Nat /\ o < BlockUnits
    BY <1>2, <2>1, <2>3, Layout
  <2> HIDE DEF o
  <2>6. WordUnits \in Nat \ {0} /\ BlockWords \in Nat \ {0}
    BY XcpAssumption
  <2>7. BlockUnits = BlockWords * WordUnits
    BY <2>6 DEF BlockUnits
  <2>8. o \div WordUnits \in Words
    <3> DEFINE q == o \div WordUnits
    <3>1. o = q * WordUnits + (o % WordUnits) /\ o % WordUnits \in 0 .. (WordUnits - 1)
          /\ q \in Nat
      BY <2>5, <2>6, DivMod
    <3> HIDE DEF q
    <3>2. q * WordUnits < BlockWords * WordUnits
      BY <2>5, <2>6, <2>7, <3>1
    <3>3. q < BlockWords
      BY <2>6, <3>1, <3>2, Scale
    <3> QED BY <2>6, <3>1, <3>3 DEF q, Words
  <2> QED BY <1>1, <2>3, <2>4, <2>8 DEF WordOf, o
<1> QED BY <1>1, <1>2, <1>3

LEMMA Values ==
  /\ Erased \in Units /\ Noise \in Units /\ Junk \notin Units /\ None \notin Units
  /\ None # Junk /\ Units \subseteq Contents /\ Junk \in Contents /\ MaxFaults \in Nat
  /\ \A d \in Chunks : d \in Seq(Units) /\ Len(d) \in 1 .. BlockUnits
BY XcpAssumption DEF Contents, BlockUnits

(* What becomes of a cell when a block is written. *)

\* A cell of f that holds what b has for it, or nothing.
Fits(f, b, x) == f[x] \in {Erased, b.data[x - b.base]}

\* Nothing happens to it, it is damaged, or it gets the data it fits.
Fate(f, b, x, c) ==
  \/ c = f[x]
  \/ Covers(b, x) /\ c = Junk
  \/ Covers(b, x) /\ c = b.data[x - b.base] /\ Fits(f, b, x)

Wrote(f, b, r) ==
  /\ r.flash \in [Cells -> Contents] /\ r.ok \in BOOLEAN /\ r.fault \in Nat
  /\ \A x \in Cells : Fate(f, b, x, r.flash[x])
  /\ r.ok => \A x \in Cells : Covers(b, x) => r.flash[x] = b.data[x - b.base] /\ Fits(f, b, x)

LEMMA ProgrammedCells ==
  ASSUME NEW f \in [Cells -> Contents], NEW b \in Buffers,
         NEW k \in 0 .. BlockWords, NEW v,
         \A w \in 0 .. (k - 1) : Takes(f, b, w),
         v = "done" /\ k < BlockWords => Takes(f, b, k)
  PROVE  LET g == Programmed(f, b, k, v) IN
           /\ g \in [Cells -> Contents]
           /\ \A x \in Cells : Fate(f, b, x, g[x])
           /\ k = BlockWords =>
                \A x \in Cells : Covers(b, x) => g[x] = b.data[x - b.base] /\ Fits(f, b, x)
<1> DEFINE g == Programmed(f, b, k, v)
           At(x) == CASE Covers(b, x) /\ WordOf(b, x) < k -> b.data[x - b.base]
                      [] Covers(b, x) /\ WordOf(b, x) = k /\ v = "junk" -> Junk
                      [] Covers(b, x) /\ WordOf(b, x) = k /\ v = "done" -> b.data[x - b.base]
                      [] OTHER -> f[x]
<1>1. g = [x \in Cells |-> At(x)]
  BY DEF Programmed
<1>2. ASSUME NEW x \in Cells, ~Covers(b, x) PROVE At(x) = f[x]
  BY <1>2
<1>3. ASSUME NEW x \in Cells, Covers(b, x), Takes(f, b, WordOf(b, x)) PROVE Fits(f, b, x)
  <2>1. x \in AppCells
    BY <1>3, Covered
  <2> QED BY <1>3, <2>1 DEF Takes, Fits
<1>4. ASSUME NEW x \in Cells, Covers(b, x), WordOf(b, x) < k
      PROVE  At(x) = b.data[x - b.base] /\ Fits(f, b, x)
  <2>1. WordOf(b, x) \in 0 .. (k - 1)
    BY <1>4, Covered DEF Words
  <2> QED BY <1>3, <1>4, <2>1
<1>5. ASSUME NEW x \in Cells, Covers(b, x), ~(WordOf(b, x) < k)
      PROVE  At(x) = f[x] \/ At(x) = Junk \/ (At(x) = b.data[x - b.base] /\ Fits(f, b, x))
  <2>1. CASE WordOf(b, x) = k /\ v = "junk"
    BY <1>5, <2>1
  <2>2. CASE WordOf(b, x) = k /\ v = "done"
    <3>1. k < BlockWords
      BY <1>5, <2>2, Covered, XcpAssumption DEF Words
    <3>2. Fits(f, b, x)
      BY <1>3, <1>5, <2>2, <3>1
    <3>3. At(x) = b.data[x - b.base]
      BY <1>5, <2>2
    <3> QED BY <3>2, <3>3
  <2>3. CASE ~(WordOf(b, x) = k /\ v = "junk") /\ ~(WordOf(b, x) = k /\ v = "done")
    BY <1>5, <2>3
  <2> QED BY <2>1, <2>2, <2>3
<1>6. \A x \in Cells : Covers(b, x) => b.data[x - b.base] \in Units
  BY Covered
<1>7. ASSUME k = BlockWords, NEW x \in Cells, Covers(b, x) PROVE WordOf(b, x) < k
  BY <1>7, Covered, XcpAssumption DEF Words
<1> HIDE DEF At
<1>8. \A x \in Cells : At(x) \in Contents
  BY <1>2, <1>4, <1>5, <1>6, Values
<1>9. g \in [Cells -> Contents] /\ \A x \in Cells : g[x] = At(x)
  BY <1>1, <1>8
<1>10. \A x \in Cells : Fate(f, b, x, g[x])
  BY <1>2, <1>4, <1>5, <1>9 DEF Fate
<1>11. k = BlockWords =>
         \A x \in Cells : Covers(b, x) => g[x] = b.data[x - b.base] /\ Fits(f, b, x)
  BY <1>4, <1>7, <1>9
<1> QED BY <1>9, <1>10, <1>11

LEMMA WriteBlock ==
  ASSUME NEW f \in [Cells -> Contents], NEW b \in Buffers, NEW r \in FlashWriteBlock(f, b),
         zeroEop \in BOOLEAN
  PROVE  Wrote(f, b, r)
<1>1. CASE b.base = Zero
  <2>1. r = Result(f, zeroEop, 0)
    BY <1>1 DEF FlashWriteBlock
  <2>2. \A x \in Cells : ~Covers(b, x)
    BY <1>1 DEF Covers, Zero
  <2> QED BY <2>1, <2>2 DEF Wrote, Result, Fate
<1>2. CASE b.base # Zero
  <2> DEFINE Part(k, v, o, t) ==
               /\ k \in 0 .. BlockWords
               /\ \A w \in 0 .. (k - 1) : Takes(f, b, w)
               /\ v = "done" /\ k < BlockWords => Takes(f, b, k)
               /\ o => k = BlockWords
               /\ o \in BOOLEAN /\ t \in {0, 1}
               /\ r = Result(Programmed(f, b, k, v), o, t)
  <2>1. BlockWords \in Nat \ {0}
    BY XcpAssumption
  <2>2. \/ r = Result(Programmed(f, b, BlockWords, "done"), TRUE, 0)
           /\ \A w \in Words : Takes(f, b, w)
        \/ \E k \in Words : r \in StopAt(f, b, k) /\ \A w \in 0 .. (k - 1) : Takes(f, b, w)
    BY <1>2 DEF FlashWriteBlock
  <2>3. \E k, v, o, t : Part(k, v, o, t)
    <3>1. CASE r = Result(Programmed(f, b, BlockWords, "done"), TRUE, 0)
               /\ \A w \in Words : Takes(f, b, w)
      <4>1. Part(BlockWords, "done", TRUE, 0)
        BY <2>1, <3>1 DEF Words
      <4> QED BY <4>1
    <3>2. ASSUME NEW k \in Words, r \in StopAt(f, b, k), \A w \in 0 .. (k - 1) : Takes(f, b, w)
          PROVE  \E v, o, t : Part(k, v, o, t)
      <4>1. k \in 0 .. BlockWords /\ k < BlockWords
        BY <2>1 DEF Words
      <4>2. CASE r = Result(Programmed(f, b, k, "same"), FALSE, 1)
        <5>1. Part(k, "same", FALSE, 1)
          BY <3>2, <4>1, <4>2
        <5> QED BY <5>1
      <4>3. CASE r = Result(Programmed(f, b, k, "junk"), FALSE, 1)
        <5>1. Part(k, "junk", FALSE, 1)
          BY <3>2, <4>1, <4>3
        <5> QED BY <5>1
      <4>4. CASE r = Result(Programmed(f, b, k, "done"), FALSE, 1) /\ Takes(f, b, k)
        <5>1. Part(k, "done", FALSE, 1)
          BY <3>2, <4>1, <4>4
        <5> QED BY <5>1
      <4>5. CASE r = Result(Programmed(f, b, k, "junk"), FALSE, 0)
        <5>1. Part(k, "junk", FALSE, 0)
          BY <3>2, <4>1, <4>5
        <5> QED BY <5>1
      <4> HIDE DEF Part
      <4> QED BY <3>2, <4>2, <4>3, <4>4, <4>5 DEF StopAt
    <3> HIDE DEF Part
    <3> QED BY <2>2, <3>1, <3>2
  <2>4. PICK k, v, o, t : Part(k, v, o, t)
    BY <2>3
  <2> DEFINE g == Programmed(f, b, k, v)
  <2>5. /\ g \in [Cells -> Contents]
        /\ \A x \in Cells : Fate(f, b, x, g[x])
        /\ k = BlockWords =>
             \A x \in Cells : Covers(b, x) => g[x] = b.data[x - b.base] /\ Fits(f, b, x)
    BY <2>4, ProgrammedCells
  <2>6. r.flash = g /\ r.ok = o /\ r.fault = t
    BY <2>4 DEF Result
  <2>7. (o => k = BlockWords) /\ o \in BOOLEAN /\ t \in Nat
    BY <2>4
  <2> HIDE DEF g, Part
  <2> QED BY <2>5, <2>6, <2>7 DEF Wrote
<1> QED BY <1>1, <1>2

(* What is acknowledged is in the flash, or in a buffer that will write it. *)

\* A cell that b holds, or that will make the write of b fail.
Held(f, ack, b, x) ==
  Covers(b, x) /\ (b.data[x - b.base] = ack[x] \/ f[x] = Junk)

Safe(f, ack, B) ==
  \A x \in Cells : \/ ack[x] \in {None, Erased}
                   \/ f[x] = ack[x]
                   \/ \E b \in B : Held(f, ack, b, x)

Acks == [Cells -> Units \cup {None}]

\* A write that fails leaves it so; after one that succeeds the buffer is not
\* needed any more.
LEMMA WriteKeepsSafe ==
  ASSUME NEW f \in [Cells -> Contents], NEW b \in Buffers, NEW r, Wrote(f, b, r),
         NEW ack \in Acks, NEW B \in SUBSET Buffers, Safe(f, ack, B \cup {b})
  PROVE  Safe(r.flash, ack, B \cup {b}) /\ (r.ok => Safe(r.flash, ack, B))
<1>1. ASSUME NEW x \in Cells, NEW c \in Buffers, Held(f, ack, c, x), ack[x] \notin {None, Erased}
      PROVE  /\ Held(r.flash, ack, c, x) \/ r.flash[x] = ack[x] \/ Held(r.flash, ack, b, x)
             /\ r.ok => Held(r.flash, ack, c, x) \/ r.flash[x] = ack[x]
             /\ r.ok /\ c = b => r.flash[x] = ack[x]
  <2>1. Covers(c, x) /\ (c.data[x - c.base] = ack[x] \/ f[x] = Junk)
    BY <1>1 DEF Held
  <2>2. CASE c.data[x - c.base] = ack[x]
    BY <2>1, <2>2 DEF Held, Wrote
  <2>3. CASE f[x] = Junk
    <3>1. Covers(b, x) => ~Fits(f, b, x)
      BY <2>3, Covered, Values DEF Fits
    <3>2. r.flash[x] = Junk
      BY <2>3, <3>1 DEF Wrote, Fate
    <3>3. r.ok => ~Covers(b, x)
      BY <3>1 DEF Wrote
    <3> QED BY <2>1, <3>2, <3>3 DEF Held
  <2> QED BY <2>1, <2>2, <2>3
<1>2. ASSUME NEW x \in Cells, f[x] = ack[x], ack[x] \notin {None, Erased}
      PROVE  /\ r.flash[x] = ack[x] \/ Held(r.flash, ack, b, x)
             /\ r.ok => r.flash[x] = ack[x]
  <2>1. Fits(f, b, x) => b.data[x - b.base] = ack[x]
    BY <1>2 DEF Fits
  <2>2. r.flash[x] = ack[x] \/ (Covers(b, x) /\ r.flash[x] = Junk)
    BY <1>2, <2>1 DEF Wrote, Fate
  <2>3. r.ok => r.flash[x] = ack[x]
    BY <1>2, <2>1, <2>2 DEF Wrote
  <2> QED BY <2>2, <2>3 DEF Held
<1> HIDE DEF Held
<1>3. Safe(r.flash, ack, B \cup {b})
  BY <1>1, <1>2 DEF Safe
<1>4. ASSUME r.ok PROVE Safe(r.flash, ack, B)
  BY <1>1, <1>2, <1>4 DEF Safe
<1> QED BY <1>3, <1>4

LEMMA LoadType ==
  ASSUME NEW f \in [Cells -> Contents], NEW base \in Bases, base >= 0
  PROVE  Load(f, base) \in Buffers
<1>1. PICK y \in AppCells : base = BlockOf(y)
  BY DEF Bases, NoBase, Zero
<1>2. \A i \in Offsets : base + i \in Cells
  BY <1>1, Layout DEF Offsets, Cells
<1>3. \A i \in Offsets : Read(f[base + i]) \in Units
  BY <1>2, Values DEF Read, Contents
<1> QED BY <1>3 DEF Load, Buffers

\* The packet as a function of the address.
LEMMA PutType ==
  ASSUME NEW b \in Buffers, NEW a \in Nat, NEW d \in Seq(Units)
  PROVE  /\ Put(b, a, d) \in Buffers /\ Put(b, a, d).base = b.base
         /\ \A x \in Cells : Covers(b, x) =>
              Put(b, a, d).data[x - b.base] =
                IF x \in a .. (a + Len(d) - 1) THEN d[x - a + 1] ELSE b.data[x - b.base]
<1> DEFINE At(i) == IF b.base + i \in a .. (a + Len(d) - 1)
                      THEN d[b.base + i - a + 1] ELSE b.data[i]
<1>1. b.base \in Int /\ b.data \in [Offsets -> Units] /\ b.base \in Bases
  BY Covered DEF Buffers
<1>2. b = [base |-> b.base, data |-> b.data]
  BY DEF Buffers
<1>3. Put(b, a, d) = [base |-> b.base, data |-> [i \in Offsets |-> At(i)]]
  BY <1>2 DEF Put
<1>4. ASSUME NEW i \in Offsets PROVE At(i) \in Units
  <2>1. i \in Int
    BY DEF Offsets
  <2>2. CASE b.base + i \in a .. (a + Len(d) - 1)
    <3>1. b.base + i - a + 1 \in 1 .. Len(d)
      BY <1>1, <2>1, <2>2
    <3> QED BY <2>2, <3>1
  <2>3. CASE ~(b.base + i \in a .. (a + Len(d) - 1))
    BY <1>1, <2>3
  <2> QED BY <2>2, <2>3
<1>5. ASSUME NEW x \in Cells, Covers(b, x)
      PROVE  At(x - b.base) = IF x \in a .. (a + Len(d) - 1) THEN d[x - a + 1]
                                                             ELSE b.data[x - b.base]
  <2> DEFINE i == x - b.base
  <2>0. i \in Int /\ x \in Int /\ b.base \in Int
    BY <1>1, Layout
  <2>1. b.base + i = x
    BY <1>1, Layout
  <2> HIDE DEF i
  <2>2. CASE x \in a .. (a + Len(d) - 1)
    <3>1. b.base + i \in a .. (a + Len(d) - 1) /\ d[b.base + i - a + 1] = d[x - a + 1]
      BY <2>0, <2>1, <2>2
    <3> QED BY <2>2, <3>1 DEF i
  <2>3. CASE x \notin a .. (a + Len(d) - 1)
    <3>1. b.base + i \notin a .. (a + Len(d) - 1)
      BY <2>1, <2>3
    <3> QED BY <2>3, <3>1 DEF i
  <2> QED BY <2>2, <2>3
<1>6. \A x \in Cells : Covers(b, x) => x - b.base \in Offsets
  BY Covered
<1> HIDE DEF At
<1>7. Put(b, a, d) \in Buffers /\ Put(b, a, d).base = b.base
  BY <1>1, <1>3, <1>4 DEF Buffers
<1>8. \A x \in Cells : Covers(b, x) => Put(b, a, d).data[x - b.base] = At(x - b.base)
  BY <1>3, <1>6
<1> QED BY <1>5, <1>7, <1>8

(* FlashAddToBlock: what becomes of an acknowledged packet. *)

Between(a, d) == a .. (a + Len(d) - 1)

\* The acknowledgements before the command without those for its addresses, and
\* with the packet.
Without(ack, a, d) == [x \in Cells |-> IF x \in Between(a, d) THEN None ELSE ack[x]]
With(ack, a, d) ==
  [x \in Cells |-> IF x \in Between(a, d) THEN d[x - a + 1] ELSE ack[x]]

\* The types of a result, and the bootloader as it was.
Sound(f, c) ==
  /\ c.flash \in [Cells -> Contents] /\ c.buf \in Buffers
  /\ c.ok \in BOOLEAN /\ c.fault \in Nat
  /\ \A x \in BlCells : c.flash[x] = f[x]

\* No buffer reaches the bootloader.
LEMMA WroteOutside ==
  ASSUME NEW f \in [Cells -> Contents], NEW b \in Buffers, NEW r, Wrote(f, b, r)
  PROVE  \A x \in BlCells : r.flash[x] = f[x]
<1>1. ASSUME NEW x \in BlCells PROVE x \in Cells /\ x \notin AppCells
  BY Layout DEF BlCells, Cells, AppCells
<1> QED BY <1>1, Covered DEF Wrote, Fate

\* The block of b is written and the next one is in the buffer, or b is kept.
Switched(f, b, base, c) ==
  /\ Sound(f, c)
  /\ c.ok => c.buf.base = base
  /\ \A ack \in Acks, B \in SUBSET Buffers :
       Safe(f, ack, B \cup {b}) => /\ c.ok => Safe(c.flash, ack, B)
                                   /\ ~c.ok => Safe(c.flash, ack, B \cup {c.buf})
  /\ c.ok => \A x \in Cells : Covers(b, x) => c.flash[x] = b.data[x - b.base]

LEMMA Switch ==
  ASSUME NEW f \in [Cells -> Contents], NEW b \in Buffers, NEW base \in Bases, base >= 0,
         zeroEop \in BOOLEAN, NEW c \in FlashSwitchBlock(f, b, base)
  PROVE  Switched(f, b, base, c)
<1>1. PICK r \in FlashWriteBlock(f, b) :
        c = Changed(r.flash, IF r.ok THEN Load(r.flash, base) ELSE b, r.ok, r.fault)
  BY DEF FlashSwitchBlock
<1>2. Wrote(f, b, r)
  BY WriteBlock
<1>3. c.flash = r.flash /\ c.ok = r.ok /\ c.fault = r.fault
      /\ c.buf = (IF r.ok THEN Load(r.flash, base) ELSE b)
      BY <1>1 DEF Changed
<1>4. r.flash \in [Cells -> Contents] /\ r.ok \in BOOLEAN /\ r.fault \in Nat
  BY <1>2 DEF Wrote
<1>5. Load(r.flash, base) \in Buffers /\ Load(r.flash, base).base = base
  BY <1>4, LoadType DEF Load
<1>6. \A x \in BlCells : r.flash[x] = f[x]
  BY <1>2, WroteOutside
<1>7. Sound(f, c) /\ (c.ok => c.buf.base = base)
  BY <1>3, <1>4, <1>5, <1>6 DEF Sound
<1>8. ASSUME NEW ack \in Acks, NEW B \in SUBSET Buffers, Safe(f, ack, B \cup {b})
      PROVE  (c.ok => Safe(c.flash, ack, B)) /\ (~c.ok => Safe(c.flash, ack, B \cup {c.buf}))
  <2>1. Safe(r.flash, ack, B \cup {b}) /\ (r.ok => Safe(r.flash, ack, B))
    BY <1>2, <1>8, WriteKeepsSafe
  <2> QED BY <1>3, <2>1
<1>9. c.ok => \A x \in Cells : Covers(b, x) => c.flash[x] = b.data[x - b.base]
  BY <1>2, <1>3 DEF Wrote
<1> QED BY <1>7, <1>8, <1>9 DEF Switched

LEMMA SafeMonotone ==
  ASSUME NEW f, NEW ack, NEW B, NEW C, Safe(f, ack, B), B \subseteq C
  PROVE  Safe(f, ack, C)
BY DEF Safe

LEMMA StartKeeps ==
  ASSUME NEW f \in [Cells -> Contents], NEW b \in Buffers, NEW a \in AppCells,
         zeroEop \in BOOLEAN, NEW c \in Start(f, b, a)
  PROVE  /\ Sound(f, c)
         /\ c.ok => c.buf.base = BlockOf(a)
         /\ \A ack \in Acks, B \in SUBSET Buffers :
              Safe(f, ack, B \cup {b}) => Safe(c.flash, ack, B \cup {c.buf})
<1>1. BlockOf(a) \in Bases /\ BlockOf(a) >= 0
  BY Layout DEF Bases
<1>2. CASE b.base = BlockOf(a)
  <2>1. c = Changed(f, b, TRUE, 0)
    BY <1>2 DEF Start
  <2>2. c.flash = f /\ c.ok = TRUE /\ c.fault = 0 /\ c.buf = b
          BY <2>1 DEF Changed
  <2>3. c.ok \in BOOLEAN
    BY <2>2
  <2>4. c.fault \in Nat
    BY <2>2
  <2>5. Sound(f, c)
    BY <2>2, <2>3, <2>4 DEF Sound
  <2> QED BY <1>2, <2>2, <2>5
<1>3. CASE b.base # BlockOf(a) /\ b.base = NoBase
  <2>1. c = Changed(f, Load(f, BlockOf(a)), TRUE, 0)
    BY <1>3 DEF Start
  <2>2. Load(f, BlockOf(a)) \in Buffers /\ Load(f, BlockOf(a)).base = BlockOf(a)
    BY <1>1, LoadType DEF Load
  <2>3. c.flash = f /\ c.ok = TRUE /\ c.fault = 0 /\ c.buf = Load(f, BlockOf(a))
          BY <2>1 DEF Changed
  <2>4. ASSUME NEW ack \in Acks, NEW B \in SUBSET Buffers, Safe(f, ack, B \cup {b})
        PROVE  Safe(c.flash, ack, B \cup {c.buf})
    <3>1. \A x \in Cells : ~Held(f, ack, b, x)
      BY <1>3 DEF Held, Covers, NoBase
    <3>2. Safe(f, ack, B)
      BY <2>4, <3>1 DEF Safe
    <3>3. Safe(f, ack, B \cup {c.buf})
      BY <3>2, SafeMonotone
    <3> QED BY <2>3, <3>3
  <2>5. c.ok \in BOOLEAN
    BY <2>3
  <2>6. c.fault \in Nat
    BY <2>3
  <2>7. Sound(f, c)
    BY <2>2, <2>3, <2>5, <2>6 DEF Sound
  <2> QED BY <2>2, <2>3, <2>4, <2>7
<1>4. CASE b.base # BlockOf(a) /\ b.base # NoBase
  <2>1. c \in FlashSwitchBlock(f, b, BlockOf(a))
    BY <1>4 DEF Start
  <2>2. Sound(f, c) /\ (c.ok => c.buf.base = BlockOf(a))
    BY <1>1, <2>1, Switch DEF Switched
  <2>3. ASSUME NEW ack \in Acks, NEW B \in SUBSET Buffers, Safe(f, ack, B \cup {b})
        PROVE  Safe(c.flash, ack, B \cup {c.buf})
    <3>1. (c.ok => Safe(c.flash, ack, B)) /\ (~c.ok => Safe(c.flash, ack, B \cup {c.buf}))
      BY <1>1, <2>1, <2>3, Switch DEF Switched
    <3>2. c.ok => Safe(c.flash, ack, B \cup {c.buf})
      BY <3>1, SafeMonotone
    <3> QED BY <3>1, <3>2
  <2> QED BY <2>2, <2>3
<1> QED BY <1>2, <1>3, <1>4

LEMMA PutSafe ==
  ASSUME NEW f, NEW b \in Buffers, NEW a \in Nat, NEW d \in Seq(Units),
         NEW ack \in Acks, NEW B, Safe(f, Without(ack, a, d), B \cup {b})
  PROVE  Safe(f, Without(ack, a, d), B \cup {Put(b, a, d)})
<1> DEFINE w == Without(ack, a, d)
           p == Put(b, a, d)
<1>1. ASSUME NEW x \in Cells, w[x] \notin {None, Erased}, Held(f, w, b, x)
      PROVE  Held(f, w, p, x)
  <2>1. x \notin Between(a, d)
    BY <1>1 DEF Without
  <2>2. p.base = b.base /\ p.data[x - b.base] = b.data[x - b.base]
    BY <1>1, <2>1, PutType DEF Held, Between
  <2> QED BY <1>1, <2>2 DEF Held, Covers
<1> QED BY <1>1 DEF Safe

LEMMA RestKeeps ==
  ASSUME NEW f \in [Cells -> Contents], NEW c, Sound(f, c), c.ok, NEW a \in AppCells,
         NEW d \in Seq(Units), Len(d) \in 1 .. BlockUnits, a + Len(d) - 1 \in AppCells,
         c.buf.base = BlockOf(a), zeroEop \in BOOLEAN,
         NEW e \in Rest(PutInto(c, a, d), a, d)
  PROVE  /\ Sound(f, e)
         /\ \A ack \in Acks, B \in SUBSET Buffers :
              Safe(c.flash, Without(ack, a, d), B \cup {c.buf}) =>
                /\ e.ok => Safe(e.flash, With(ack, a, d), B \cup {e.buf})
                /\ ~e.ok => Safe(e.flash, Without(ack, a, d), B \cup {e.buf})
<1> DEFINE p == Put(c.buf, a, d)
           base == BlockOf(a)
           next == BlockOf(a) + BlockUnits
<1>1. /\ a \in Nat /\ base \in Nat /\ next \in Nat /\ Len(d) \in Nat
      /\ BlockUnits \in Nat /\ base <= a /\ a < next
  <2>1. base \in Nat /\ base <= a /\ a < next /\ BlockUnits \in Nat /\ a \in Nat
    BY Layout
  <2>2. next \in Nat
    BY <2>1
  <2>3. Len(d) \in Nat
    OBVIOUS
  <2> QED BY <2>1, <2>2, <2>3
<1>2. c.buf \in Buffers /\ c.flash \in [Cells -> Contents] /\ c.fault \in Nat
      /\ \A x \in BlCells : c.flash[x] = f[x]
  BY DEF Sound
<1>4. PutInto(c, a, d) = Changed(c.flash, p, c.ok, c.fault)
  BY DEF PutInto
<1>5. p \in Buffers /\ p.base = base
  BY <1>1, <1>2, PutType
<1>3. \A x \in Cells : Covers(c.buf, x) =>
        p.data[x - c.buf.base] =
          IF x \in a .. (a + Len(d) - 1) THEN d[x - a + 1] ELSE c.buf.data[x - c.buf.base]
  BY <1>1, <1>2, PutType
<1>6. ASSUME NEW x \in Between(a, d)
      PROVE  /\ x \in Cells /\ a <= x /\ x <= a + Len(d) - 1
             /\ x < next => Covers(p, x) /\ p.data[x - base] = d[x - a + 1]
  <2>1. x \in Nat /\ a <= x /\ x <= a + Len(d) - 1
    BY <1>1, <1>6 DEF Between
  <2>2. x \in Cells
    BY <1>1, <2>1, Layout DEF AppCells, Cells
  <2>3. x < next => Covers(c.buf, x) /\ Covers(p, x)
    BY <1>1, <1>5, <2>1 DEF Covers
  <2>4. x < next => p.data[x - base] = d[x - a + 1]
    <3>1. ASSUME x < next PROVE p.data[x - c.buf.base] = d[x - a + 1]
      BY <1>3, <1>6, <2>2, <2>3, <3>1 DEF Between
    <3> QED BY <3>1
  <2> QED BY <2>1, <2>2, <2>3, <2>4
<1>7. ASSUME NEW ack \in Acks, NEW B \in SUBSET Buffers,
             Safe(c.flash, Without(ack, a, d), B \cup {c.buf})
      PROVE  Safe(c.flash, Without(ack, a, d), B \cup {p})
  BY <1>1, <1>2, <1>7, PutSafe
<1>8. ASSUME NEW g, NEW ack \in Acks, NEW B, Safe(g, Without(ack, a, d), B),
             \A x \in Between(a, d) : \/ g[x] = d[x - a + 1]
                                      \/ \E b \in B : Covers(b, x) /\ b.data[x - b.base] = d[x - a + 1]
      PROVE  Safe(g, With(ack, a, d), B)
  <2> DEFINE w == With(ack, a, d)
             o == Without(ack, a, d)
  <2>1. ASSUME NEW x \in Cells, x \in Between(a, d)
        PROVE  g[x] = w[x] \/ \E b \in B : Held(g, w, b, x)
    BY <1>8, <2>1 DEF With, Held
  <2>2. ASSUME NEW x \in Cells, x \notin Between(a, d)
        PROVE  \/ w[x] \in {None, Erased}
               \/ g[x] = w[x]
               \/ \E b \in B : Held(g, w, b, x)
    <3>1. w[x] = ack[x] /\ o[x] = ack[x]
      BY <2>2 DEF With, Without
    <3>2. \/ o[x] \in {None, Erased}
          \/ g[x] = o[x]
          \/ \E b \in B : Held(g, o, b, x)
      BY <1>8 DEF Safe
    <3> HIDE DEF w, o
    <3> QED BY <3>1, <3>2 DEF Held
  <2> HIDE DEF w
  <2>3. Safe(g, w, B)
    BY <2>1, <2>2 DEF Safe
  <2> QED BY <2>3 DEF w
<1>9. CASE a + Len(d) <= next
  <2>1. e = Changed(c.flash, p, c.ok, c.fault)
    BY <1>4, <1>5, <1>9 DEF Rest, Changed
  <2>2. e.flash = c.flash /\ e.buf = p /\ e.ok = c.ok /\ e.fault = c.fault
    BY <2>1 DEF Changed
  <2>3. e.ok \in BOOLEAN
    BY <2>2 DEF Sound
  <2>4. Sound(f, e)
    BY <1>2, <1>5, <2>2, <2>3 DEF Sound
  <2>5. \A x \in Between(a, d) : Covers(p, x) /\ p.data[x - p.base] = d[x - a + 1]
    <3>1. \A x \in Between(a, d) : x < next
      BY <1>1, <1>9 DEF Between
    <3> QED BY <1>5, <1>6, <3>1
  <2>6. ASSUME NEW ack \in Acks, NEW B \in SUBSET Buffers,
               Safe(c.flash, Without(ack, a, d), B \cup {c.buf})
        PROVE  Safe(c.flash, With(ack, a, d), B \cup {p})
    BY <1>7, <1>8, <2>5, <2>6
  <2> QED BY <2>2, <2>4, <2>6
<1>10. CASE ~(a + Len(d) <= next)
  <2>1. next \in Bases /\ next >= 0
    <3>1. next \in AppCells
      BY <1>1, <1>10, Layout DEF AppCells
    <3>2. BlockOf(next) = next
      <4>1. BlockOf(next) <= next /\ BlockOf(next) \in Nat /\ next < BlockOf(next) + BlockUnits
            /\ First <= BlockOf(next)
            /\ \A y \in Nat : BlockOf(next) <= y /\ y < BlockOf(next) + BlockUnits
                                => BlockOf(y) = BlockOf(next)
        BY <3>1, Layout
      <4>2. \A y \in Nat : base <= y /\ y < next => BlockOf(y) = base
        BY Layout
      <4>3. CASE BlockOf(next) < next
        <5>1. next - 1 \in Nat /\ BlockOf(next) <= next - 1
              /\ next - 1 < BlockOf(next) + BlockUnits /\ base <= next - 1 /\ next - 1 < next
          BY <1>1, <4>1, <4>3
        <5>2. BlockOf(next - 1) = BlockOf(next) /\ BlockOf(next - 1) = base
          BY <4>1, <4>2, <5>1
        <5> QED BY <1>1, <4>1, <5>2
      <4> QED BY <1>1, <4>1, <4>3
    <3> QED BY <1>1, <3>1, <3>2 DEF Bases
  <2>2. PICK s \in FlashSwitchBlock(c.flash, p, next) :
          e = IF s.ok THEN PutInto(s, a, d) ELSE s
    <3> DEFINE h == Changed(c.flash, p, c.ok, c.fault)
    <3>1. h.buf = p /\ h.flash = c.flash /\ h.buf.base = base
      BY <1>5 DEF Changed
    <3> QED BY <1>4, <1>10, <3>1 DEF Rest
  <2>3. /\ Sound(c.flash, s)
        /\ s.ok => s.buf.base = next
        /\ \A ack \in Acks, B \in SUBSET Buffers :
              Safe(c.flash, ack, B \cup {p}) => /\ s.ok => Safe(s.flash, ack, B)
                                                /\ ~s.ok => Safe(s.flash, ack, B \cup {s.buf})
        /\ s.ok => \A x \in Cells : Covers(p, x) => s.flash[x] = p.data[x - p.base]
    <3>1. Switched(c.flash, p, next, s)
      <4> HIDE DEF p, next
      <4> QED BY <1>2, <1>5, <2>1, Switch
    <3> QED BY <3>1 DEF Switched
  <2>4. Sound(f, s)
    BY <1>2, <2>3 DEF Sound
  <2>5. \A ack \in Acks : Without(ack, a, d) \in Acks
    BY DEF Acks, Without
  <2>6. CASE ~s.ok
    BY <1>7, <2>2, <2>3, <2>4, <2>5, <2>6
  <2>7. CASE s.ok
    <3> DEFINE q == Put(s.buf, a, d)
    <3>2. e = Changed(s.flash, q, s.ok, s.fault)
      BY <2>2, <2>7 DEF PutInto
    <3>3. e.flash = s.flash /\ e.buf = q /\ e.ok = s.ok /\ e.fault = s.fault
        BY <3>2 DEF Changed
    <3>4. s.buf \in Buffers /\ s.buf.base = next
      BY <2>3, <2>4, <2>7 DEF Sound
    <3>5. q \in Buffers /\ q.base = next
      BY <1>1, <3>4, PutType
    <3>6. Sound(f, e)
      <4>1. e.ok \in BOOLEAN /\ s.flash \in [Cells -> Contents] /\ s.fault \in Nat
            /\ \A x \in BlCells : s.flash[x] = f[x]
        BY <2>4, <3>3 DEF Sound
      <4> QED BY <3>3, <3>5, <4>1 DEF Sound
    <3>7. ASSUME NEW x \in Between(a, d), ~(x < next)
          PROVE  Covers(q, x) /\ q.data[x - q.base] = d[x - a + 1]
      <4>1. x \in Cells /\ x \in Nat /\ a <= x /\ x <= a + Len(d) - 1
        BY <1>6, Layout
      <4>2. x < next + BlockUnits
        BY <1>1, <4>1
      <4>3. Covers(q, x) /\ Covers(s.buf, x)
        BY <1>1, <3>4, <3>5, <3>7, <4>1, <4>2 DEF Covers
      <4>4. \A y \in Cells : Covers(s.buf, y) =>
              q.data[y - s.buf.base] =
                IF y \in a .. (a + Len(d) - 1) THEN d[y - a + 1]
                                              ELSE s.buf.data[y - s.buf.base]
        BY <1>1, <3>4, PutType
      <4>5. q.data[x - s.buf.base] = d[x - a + 1]
        BY <3>7, <4>1, <4>3, <4>4 DEF Between
      <4> QED BY <3>4, <3>5, <4>3, <4>5
    <3>8. ASSUME NEW x \in Between(a, d), x < next PROVE s.flash[x] = d[x - a + 1]
      BY <1>5, <1>6, <2>3, <2>7, <3>8
    <3>9. ASSUME NEW ack \in Acks, NEW B \in SUBSET Buffers,
                 Safe(c.flash, Without(ack, a, d), B \cup {c.buf})
          PROVE  Safe(s.flash, With(ack, a, d), B \cup {q})
      <4>1. Safe(c.flash, Without(ack, a, d), B \cup {p})
        BY <1>7, <3>9
      <4>2. Safe(s.flash, Without(ack, a, d), B)
        BY <2>3, <2>5, <2>7, <4>1
      <4>3. Safe(s.flash, Without(ack, a, d), B \cup {q})
        BY <4>2, SafeMonotone
      <4>4. \A x \in Between(a, d) :
              \/ s.flash[x] = d[x - a + 1]
              \/ \E b \in B \cup {q} : Covers(b, x) /\ b.data[x - b.base] = d[x - a + 1]
        BY <3>7, <3>8
      <4> HIDE DEF q
      <4> QED BY <1>8, <4>3, <4>4
    <3> QED BY <2>7, <3>3, <3>6, <3>9
  <2> QED BY <2>6, <2>7
<1> QED BY <1>9, <1>10

LEMMA SafeWithout ==
  ASSUME NEW f, NEW ack \in Acks, NEW B, Safe(f, ack, B), NEW a, NEW d
  PROVE  Safe(f, Without(ack, a, d), B)
<1> DEFINE w == Without(ack, a, d)
<1>1. \A x \in Cells : w[x] = None \/ w[x] = ack[x]
  BY DEF Without
<1> HIDE DEF w
<1>2. \A x \in Cells, b \in B : w[x] = ack[x] /\ Held(f, ack, b, x) => Held(f, w, b, x)
  BY DEF Held
<1>3. Safe(f, w, B)
  BY <1>1, <1>2 DEF Safe
<1> QED BY <1>3 DEF w

\* The packet is acknowledged and held or written, or it is neither.
Added(f, b, a, d, e) ==
  /\ Sound(f, e)
  /\ \A ack \in Acks, B \in SUBSET Buffers :
       Safe(f, ack, B \cup {b}) =>
         /\ e.ok => Safe(e.flash, With(ack, a, d), B \cup {e.buf})
         /\ ~e.ok => Safe(e.flash, Without(ack, a, d), B \cup {e.buf})

LEMMA AddToBlock ==
  ASSUME NEW f \in [Cells -> Contents], NEW b \in Buffers, NEW a \in AppCells,
         NEW d \in Seq(Units), Len(d) \in 1 .. BlockUnits, a + Len(d) - 1 \in AppCells,
         zeroEop \in BOOLEAN, NEW e \in FlashAddToBlock(f, b, a, d)
  PROVE  Added(f, b, a, d, e)
<1>1. PICK c \in Start(f, b, a) :
        \/ e = c /\ ~c.ok
        \/ c.ok /\ e \in Rest(PutInto(c, a, d), a, d)
  BY DEF FlashAddToBlock
<1>2. /\ Sound(f, c)
      /\ c.ok => c.buf.base = BlockOf(a)
      /\ \A ack \in Acks, B \in SUBSET Buffers :
              Safe(f, ack, B \cup {b}) => Safe(c.flash, ack, B \cup {c.buf})
  BY StartKeeps
<1>3. \A ack \in Acks, B \in SUBSET Buffers :
        Safe(f, ack, B \cup {b}) => Safe(c.flash, Without(ack, a, d), B \cup {c.buf})
  BY <1>2, SafeWithout
<1>4. CASE e = c /\ ~c.ok
  BY <1>2, <1>3, <1>4 DEF Added
<1>5. CASE c.ok /\ e \in Rest(PutInto(c, a, d), a, d)
  <2>1. /\ Sound(f, e)
        /\ \A ack \in Acks, B \in SUBSET Buffers :
             Safe(c.flash, Without(ack, a, d), B \cup {c.buf}) =>
               /\ e.ok => Safe(e.flash, With(ack, a, d), B \cup {e.buf})
               /\ ~e.ok => Safe(e.flash, Without(ack, a, d), B \cup {e.buf})
    BY <1>2, <1>5, RestKeeps
  <2> QED BY <1>3, <2>1 DEF Added
<1> QED BY <1>1, <1>4, <1>5

(* FlashDone. *)

Finished(r) ==
  /\ r.flash \in [Cells -> Contents] /\ r.ok \in BOOLEAN /\ r.fault \in Nat
  /\ \A x \in BlCells : r.flash[x] = flash[x]
  /\ Safe(r.flash, acked, {boot, block})
  /\ r.ok => Safe(r.flash, acked, {})

LEMMA Done ==
  ASSUME flash \in [Cells -> Contents], boot \in Buffers, block \in Buffers,
         acked \in Acks, zeroEop \in BOOLEAN, Safe(flash, acked, {boot, block}),
         NEW r \in FlashDone
  PROVE  Finished(r)
<1> DEFINE One == IF boot.base = NoBase THEN {Result(flash, TRUE, 0)}
                                        ELSE FlashWriteBlock(flash, boot)
           Both == {boot, block}
<1>1. Both = {block} \cup {boot} /\ Both = {boot} \cup {block} /\ {block} = {} \cup {block}
      /\ {block} \in SUBSET Buffers /\ {boot} \in SUBSET Buffers /\ {} \in SUBSET Buffers
  OBVIOUS
<1>2. ASSUME NEW o \in One
      PROVE  /\ o.flash \in [Cells -> Contents] /\ o.ok \in BOOLEAN /\ o.fault \in Nat
             /\ \A x \in BlCells : o.flash[x] = flash[x]
             /\ Safe(o.flash, acked, Both)
             /\ o.ok => Safe(o.flash, acked, {block})
  <2>1. CASE boot.base = NoBase
    <3>1. o = Result(flash, TRUE, 0)
      BY <1>2, <2>1
    <3>2. o.flash = flash /\ o.ok = TRUE /\ o.fault = 0
      BY <3>1 DEF Result
    <3>3. \A x \in Cells : ~Held(flash, acked, boot, x)
      BY <2>1 DEF Held, Covers, NoBase
    <3>4. Safe(flash, acked, {block})
      BY <3>3 DEF Safe
    <3>5. o.ok \in BOOLEAN
      BY <3>2
    <3>6. o.fault \in Nat
      BY <3>2
    <3> QED BY <3>2, <3>4, <3>5, <3>6
  <2>2. CASE boot.base # NoBase
    <3>1. o \in FlashWriteBlock(flash, boot)
      BY <1>2, <2>2
    <3>2. Wrote(flash, boot, o)
      BY <3>1, WriteBlock
    <3>3. Safe(flash, acked, {block} \cup {boot})
      BY <1>1
    <3>4. Safe(o.flash, acked, {block} \cup {boot}) /\ (o.ok => Safe(o.flash, acked, {block}))
      BY <1>1, <3>2, <3>3, WriteKeepsSafe
    <3>5. \A x \in BlCells : o.flash[x] = flash[x]
      BY <3>2, WroteOutside
    <3> QED BY <1>1, <3>2, <3>4, <3>5 DEF Wrote
  <2> QED BY <2>1, <2>2
<1>3. \/ r \in One /\ ~r.ok
      \/ \E o \in One : o.ok /\ r \in FlashWriteBlock(o.flash, block)
  BY DEF FlashDone
<1> HIDE DEF One
<1>4. CASE r \in One /\ ~r.ok
  BY <1>2, <1>4 DEF Finished
<1>5. ASSUME NEW o \in One, o.ok, r \in FlashWriteBlock(o.flash, block)
      PROVE  Finished(r)
  <2>1. Wrote(o.flash, block, r)
    BY <1>2, <1>5, WriteBlock
  <2>2. Safe(o.flash, acked, {} \cup {block}) /\ Safe(o.flash, acked, {boot} \cup {block})
    BY <1>1, <1>2, <1>5
  <2>3. r.ok => Safe(r.flash, acked, {})
    BY <1>1, <1>2, <2>1, <2>2, WriteKeepsSafe
  <2>4. Safe(r.flash, acked, {boot} \cup {block})
    BY <1>1, <1>2, <2>1, <2>2, WriteKeepsSafe
  <2>5. \A x \in BlCells : r.flash[x] = o.flash[x]
    BY <1>2, <2>1, WroteOutside
  <2>6. \A x \in BlCells : r.flash[x] = flash[x]
    BY <1>2, <2>5
  <2> QED BY <1>1, <2>1, <2>3, <2>4, <2>6 DEF Finished, Wrote
<1> QED BY <1>3, <1>4, <1>5

(* The commands. *)

\* Types, and: what is acknowledged is in the flash or in a buffer that holds it.
XcpInv == XcpTypeOK /\ Safe(flash, acked, {boot, block})

Kept == \A a \in BlCells : flash'[a] = flash[a]

LEMMA NothingAcked ==
  ASSUME NEW f, NEW B
  PROVE  Safe(f, NoAck, B) /\ NoAck \in Acks
BY DEF Safe, NoAck, Acks

LEMMA InitInv == XcpInit => XcpInv
<1> SUFFICES ASSUME XcpInit PROVE XcpInv
  OBVIOUS
<1> USE DEF XcpInit
<1>1. NoData \in [Offsets -> Units]
  BY Values DEF NoData
<1>2. boot \in Buffers /\ block \in Buffers
  BY <1>1 DEF Buffers, Bases
<1>3. acked \in [Cells -> Units \cup {None}] /\ Safe(flash, acked, {boot, block})
  BY NothingAcked DEF Acks
<1>4. programs \in 0 .. MaxPrograms /\ faults \in 0 .. MaxFaults
  BY XcpAssumption
<1> QED BY <1>2, <1>3, <1>4 DEF XcpInv, XcpTypeOK, Answers

\* What a command that leaves flash, buffers and acknowledgements alone keeps.
LEMMA ConnectKeeps ==
  ASSUME XcpInv, XcpCmdConnect
  PROVE  XcpInv' /\ Kept
<1> USE DEF XcpInv, XcpTypeOK, XcpCmdConnect
<1>1. boot' \in Buffers
  BY DEF Buffers, Bases
<1>2. acked' \in [Cells -> Units \cup {None}] /\ Safe(flash', acked', {boot', block'})
  BY NothingAcked DEF Acks
<1>3. connected' \in BOOLEAN /\ tidy' \in BOOLEAN /\ resp' \in Answers
  BY DEF Answers
<1> QED BY <1>1, <1>2, <1>3 DEF Kept

LEMMA ClearKeeps ==
  ASSUME XcpInv, NEW n \in Lengths, XcpCmdProgramClear(n)
  PROVE  XcpInv' /\ Kept
<1> USE DEF XcpInv, XcpTypeOK
<1>1. UNCHANGED <<connected, mode, expired, zeroEop, programs, boot, block, mta>>
  BY DEF XcpCmdProgramClear, Refuse
<1>2. CASE Refuse
  BY <1>1, <1>2 DEF Refuse, Kept, Answers
<1>3. CASE InRange(mta, n) /\ ~Refuse
  <2> DEFINE S == SectorOf(mta) .. SectorOf(mta + n - 1)
             full == EraseSectors(flash, S)
  <2>1. /\ \/ flash' = full /\ faults' = faults
           \/ /\ faults < MaxFaults /\ faults' = faults + 1
              /\ \E s \in S, v \in {"same", "junk"} :
                   flash' = [a \in Cells |-> IF SectorOf(a) # s THEN full[a]
                             ELSE IF v = "same" THEN flash[a] ELSE Junk]
        /\ acked' = [a \in Cells |-> IF SectorOf(a) \in S THEN None ELSE acked[a]]
        /\ tidy' = (tidy /\ acked = NoAck)
        /\ resp' = "res"
    BY <1>3 DEF XcpCmdProgramClear
  <2>2. \A a \in Cells : full[a] = IF SectorOf(a) \in S THEN Erased ELSE flash[a]
    BY DEF EraseSectors
  <2> HIDE DEF full
  <2>3. flash' \in [Cells -> Contents]
    <3>1. full \in [Cells -> Contents]
      <4>1. full = EraseSectors(flash, S)
        BY DEF full
      <4> HIDE DEF S
      <4> QED BY <4>1, Values DEF EraseSectors
    <3>2. ASSUME NEW s \in S, NEW v \in {"same", "junk"},
                 flash' = [a \in Cells |-> IF SectorOf(a) # s THEN full[a]
                           ELSE IF v = "same" THEN flash[a] ELSE Junk]
          PROVE  flash' \in [Cells -> Contents]
      BY <3>1, <3>2, Values
    <3> QED BY <2>1, <3>1, <3>2
  <2>4. ASSUME NEW a \in Cells, SectorOf(a) \notin S PROVE flash'[a] = flash[a]
    BY <2>1, <2>2, <2>4
  <2>5. acked' \in [Cells -> Units \cup {None}]
    BY <2>1
  <2>6. Safe(flash', acked', {boot', block'})
    <3>1. \A a \in Cells : acked'[a] = None \/ (acked'[a] = acked[a] /\ flash'[a] = flash[a])
      BY <2>1, <2>4
    <3>2. \A a \in Cells, b \in {boot, block} :
            acked'[a] = acked[a] /\ flash'[a] = flash[a] /\ Held(flash, acked, b, a)
              => Held(flash', acked', b, a)
      BY DEF Held
    <3> QED BY <1>1, <3>1, <3>2 DEF Safe
  <2>7. ASSUME NEW a \in BlCells PROVE a \in Cells /\ SectorOf(a) \notin S
    <3>1. SectorUnits = First /\ First \in Nat \ {0} /\ First <= Last /\ Last \in Nat
      BY Layout DEF First
    <3>2. a \in Nat /\ a < First /\ a \in Cells
      BY <3>1 DEF BlCells, Cells
    <3>3. SectorOf(a) = 0
      <4>1. 0 * First = 0
        BY <3>1
      <4> QED BY <3>1, <3>2, <4>1, Division DEF SectorOf
    <3>4. mta \in Nat /\ First <= mta
      BY <1>3, <3>1 DEF InRange, AppCells
    <3>5. SectorOf(mta) # 0 /\ SectorOf(mta) \in Nat
      <4> DEFINE q == mta \div First
      <4>1. mta = q * First + (mta % First) /\ mta % First \in 0 .. (First - 1) /\ q \in Nat
        BY <3>1, <3>4, DivMod
      <4> HIDE DEF q
      <4>2. q # 0
        BY <3>1, <3>4, <4>1
      <4> QED BY <3>1, <4>1, <4>2 DEF q, SectorOf
    <3> QED BY <3>2, <3>3, <3>5
  <2>8. Kept
    BY <2>4, <2>7 DEF Kept
  <2>9. tidy' \in BOOLEAN /\ resp' \in Answers
    BY <2>1 DEF Answers
  <2>10. faults' \in 0 .. MaxFaults
    BY <2>1, Values
  <2> QED BY <1>1, <2>3, <2>5, <2>6, <2>8, <2>9, <2>10
<1> QED BY <1>2, <1>3 DEF XcpCmdProgramClear

LEMMA ProgramKeeps ==
  ASSUME XcpInv, NEW d \in Chunks, XcpCmdProgram(d)
  PROVE  XcpInv' /\ Kept
<1> USE DEF XcpInv, XcpTypeOK
<1>1. UNCHANGED <<connected, mode, expired, zeroEop>> /\ programs' = programs + 1
      /\ programs < MaxPrograms
  BY DEF XcpCmdProgram
<1>2. programs' \in 0 .. MaxPrograms
  BY <1>1, XcpAssumption
<1>3. CASE Refuse
  BY <1>1, <1>2, <1>3 DEF Refuse, Kept, Answers
<1>4. CASE InRange(mta, Len(d)) /\ ~Refuse
  <2> DEFINE inFirst == BlockOf(mta) = First
             b == IF inFirst THEN boot ELSE block
             o == IF inFirst THEN block ELSE boot
             put == Between(mta, d)
  <2>1. PICK c \in FlashAddToBlock(flash, b, mta, d) :
          /\ faults + c.fault <= MaxFaults /\ faults' = faults + c.fault
          /\ flash' = c.flash
          /\ boot' = IF inFirst THEN c.buf ELSE boot
          /\ block' = IF inFirst THEN block ELSE c.buf
          /\ resp' = IF c.ok THEN "res" ELSE "err"
          /\ mta' = IF c.ok THEN mta + Len(d) ELSE mta
          /\ acked' = [a \in Cells |-> IF a \notin put THEN acked[a]
                                       ELSE IF c.ok THEN d[a - mta + 1] ELSE None]
    BY <1>4 DEF XcpCmdProgram, Between
  <2>2. tidy' = (tidy /\ \A a \in put : flash[a] = Erased /\ acked[a] = None)
    BY <1>4 DEF XcpCmdProgram, Between
  <2>3. /\ d \in Seq(Units) /\ Len(d) \in 1 .. BlockUnits /\ Len(d) \in Nat
        /\ mta \in AppCells /\ mta + Len(d) - 1 \in AppCells
    BY <1>4, Values DEF InRange
  <2>4. b \in Buffers /\ o \in Buffers /\ {boot, block} = {o} \cup {b}
    OBVIOUS
  <2>5. /\ boot' = (IF inFirst THEN c.buf ELSE o) /\ block' = (IF inFirst THEN o ELSE c.buf)
        /\ {boot', block'} = {o} \cup {c.buf}
    BY <2>1
  <2> HIDE DEF b, o
  <2>6. Added(flash, b, mta, d, c)
    BY <2>1, <2>3, <2>4, AddToBlock
  <2>7. acked \in Acks /\ {o} \in SUBSET Buffers /\ Safe(flash, acked, {o} \cup {b})
    BY <2>4 DEF Acks
  <2>8. /\ c.ok => Safe(c.flash, With(acked, mta, d), {o} \cup {c.buf})
        /\ ~c.ok => Safe(c.flash, Without(acked, mta, d), {o} \cup {c.buf})
        /\ Sound(flash, c)
    BY <2>6, <2>7 DEF Added
  <2>9. acked' = IF c.ok THEN With(acked, mta, d) ELSE Without(acked, mta, d)
    BY <2>1 DEF With, Without
  <2>10. Safe(flash', acked', {boot', block'})
    BY <2>1, <2>5, <2>8, <2>9
  <2>11. acked' \in [Cells -> Units \cup {None}]
    <3>1. ASSUME NEW a \in Cells, a \in put PROVE d[a - mta + 1] \in Units
      <4>1. a - mta + 1 \in 1 .. Len(d)
        BY <2>3, <3>1, Layout DEF Between
      <4> QED BY <2>3, <4>1
    <3> QED BY <2>1, <3>1
  <2>12. flash' \in [Cells -> Contents] /\ c.buf \in Buffers /\ c.fault \in Nat /\ Kept
    BY <2>1, <2>8 DEF Sound, Kept
  <2>13. boot' \in Buffers /\ block' \in Buffers
    BY <2>4, <2>5, <2>12
  <2>14. faults' \in 0 .. MaxFaults
    BY <2>1, <2>12, Values
  <2>15. mta' \in Nat
    BY <2>1, <2>3
  <2>16. resp' \in Answers
    BY <2>1 DEF Answers
  <2>17. tidy' \in BOOLEAN
    BY <2>2
  <2> QED BY <1>1, <1>2, <2>10, <2>11, <2>12, <2>13, <2>14, <2>15, <2>16, <2>17
<1> QED BY <1>3, <1>4 DEF XcpCmdProgram

LEMMA EndKeeps ==
  ASSUME XcpInv, ProgramEnd
  PROVE  /\ XcpInv' /\ Kept
         /\ resp' = "res" => \A a \in Cells : acked[a] \in {None, Erased, flash'[a]}
<1> USE DEF XcpInv, XcpTypeOK
<1>1. PICK r \in FlashDone :
        /\ faults + r.fault <= MaxFaults /\ faults' = faults + r.fault
        /\ flash' = r.flash
        /\ resp' = IF r.ok THEN "res" ELSE "err"
  BY DEF ProgramEnd
<1>2. UNCHANGED <<boot, block, connected, mta, mode, expired, zeroEop, acked, tidy, programs>>
  BY DEF ProgramEnd
<1>3. Finished(r)
  BY Done DEF Acks
<1>4. flash' \in [Cells -> Contents] /\ r.fault \in Nat /\ Kept
      /\ Safe(flash', acked', {boot', block'})
  BY <1>1, <1>2, <1>3 DEF Finished, Kept
<1>5. faults' \in 0 .. MaxFaults
  BY <1>1, <1>4, Values
<1>6. resp' \in Answers
  BY <1>1 DEF Answers
<1>7. ASSUME resp' = "res" PROVE \A a \in Cells : acked[a] \in {None, Erased, flash'[a]}
  <2>1. r.ok
    BY <1>1, <1>7
  <2>2. Safe(flash', acked, {})
    BY <1>1, <1>3, <2>1 DEF Finished
  <2> QED BY <2>2 DEF Safe
<1>8. XcpInv'
  BY <1>2, <1>4, <1>5, <1>6
<1> QED BY <1>4, <1>7, <1>8

LEMMA ResetKeeps ==
  ASSUME XcpInv, Reset
  PROVE  XcpInv' /\ Kept
<1> USE DEF XcpInv, XcpTypeOK, Reset
<1>1. NoData \in [Offsets -> Units]
  BY Values DEF NoData
<1>2. boot' \in Buffers /\ block' \in Buffers
  BY <1>1 DEF Buffers, Bases
<1>3. acked' \in [Cells -> Units \cup {None}] /\ Safe(flash', acked', {boot', block'})
  BY NothingAcked DEF Acks
<1>4. faults' \in 0 .. MaxFaults
  BY Values
<1> QED BY <1>2, <1>3, <1>4 DEF Kept, Answers

LEMMA Step ==
  ASSUME XcpInv, [XcpNext]_vars
  PROVE  XcpInv' /\ Kept
<1>1. ASSUME NEW a \in Targets, XcpCmdSetMta(a) PROVE XcpInv' /\ Kept
  BY <1>1, XcpAssumption DEF XcpCmdSetMta, XcpInv, XcpTypeOK, Kept, Answers
<1>2. CASE XcpCmdDisconnect
  BY <1>2 DEF XcpCmdDisconnect, XcpInv, XcpTypeOK, Kept, Answers
<1>3. CASE XcpCmdProgramReset
  BY <1>3 DEF XcpCmdProgramReset, XcpInv, XcpTypeOK, Kept
<1>4. CASE Expire
  BY <1>4 DEF Expire, XcpInv, XcpTypeOK, Kept
<1>5. CASE StartApp
  BY <1>5 DEF StartApp, XcpInv, XcpTypeOK, Kept
<1>6. CASE UNCHANGED vars
  BY <1>6 DEF vars, XcpInv, XcpTypeOK, Kept
<1> QED BY <1>1, <1>2, <1>3, <1>4, <1>5, <1>6, ConnectKeeps, ClearKeeps, ProgramKeeps,
           EndKeeps, ResetKeeps DEF XcpNext

LEMMA Invariance == XcpSpec => []XcpInv
<1>1. XcpInv /\ [XcpNext]_vars => XcpInv'
  BY Step
<1> QED BY InitInv, <1>1, PTL DEF XcpSpec

\* The buffers hold a whole block of flashLayout each, their data, the address
\* and the counters have their types (flash.c, xcp.c).
THEOREM XcpTypeCorrect == XcpSpec => []XcpTypeOK
<1>1. XcpInv => XcpTypeOK
  BY DEF XcpInv
<1> QED BY Invariance, <1>1, PTL

\* The sector of the bootloader is never erased or programmed, for any address
\* and length a master gives (flash.c:170-192).
THEOREM BootloaderIsKept == XcpSpec => BootloaderStands
<1>1. XcpInv /\ [XcpNext]_vars => [\A a \in BlCells : flash'[a] = flash[a]]_vars
  BY Step DEF Kept
<1> QED BY Invariance, <1>1, PTL DEF XcpSpec, BootloaderStands

\* The bytes a positive answer to the end of programming is about.
AllWritten ==
  ProgramEnd /\ resp' = "res" => \A a \in Cells : acked[a] \in {None, Erased, flash'[a]}

\* A positive answer to the end of programming means that every unit
\* acknowledged in the session and not cleared since is in the flash (flash.c:321).
THEOREM AcknowledgedIsWritten == XcpSpec => DoneMeansWritten
<1>1. XcpInv /\ [XcpNext]_vars => [AllWritten]_vars
  BY EndKeeps DEF AllWritten
<1>2. XcpSpec => [][AllWritten]_vars
  BY Invariance, <1>1, PTL DEF XcpSpec
<1>3. AllWritten <=> (ProgramEnd /\ resp' = "res" =>
                        \A a \in Cells : acked[a] \in {None, Erased, flash'[a]})
  BY DEF AllWritten
<1>4. [][AllWritten]_vars <=> DoneMeansWritten
  BY <1>3, PTL DEF DoneMeansWritten
<1> QED BY <1>2, <1>4
=============================================================================
