-------------------------- MODULE SwapBoot_proofs --------------------------
(***************************************************************************)
(* Proofs about the image bootloader, for slots, sectors and lines of any  *)
(* size, any set of images, and any number of faults.                      *)
(***************************************************************************)
EXTENDS SwapBoot, TLAPS

(* Arithmetic: lines, sectors and units. *)

LEMMA DivMod ==
  ASSUME NEW k \in Nat \ {0}, NEW a \in Nat
  PROVE  a = (a \div k) * k + (a % k) /\ a % k \in 0 .. (k - 1) /\ a \div k \in Nat
OBVIOUS

\* A product with a positive number keeps the order, and can be undone.
LEMMA Scale ==
  ASSUME NEW k \in Nat \ {0}, NEW a \in Nat, NEW b \in Nat
  PROVE  a < b <=> a * k < b * k
<1>1. ASSUME a < b PROVE a * k < b * k
  <2> DEFINE d == b - a
  <2>1. d \in Nat \ {0} /\ b = a + d
    BY <1>1
  <2> HIDE DEF d
  <2>2. d * k >= k /\ a * k \in Nat /\ d * k \in Nat
    BY <2>1
  <2>3. (a + d) * k = a * k + d * k
    BY <2>1
  <2> QED BY <2>1, <2>2, <2>3
<1>2. ASSUME b <= a PROVE b * k <= a * k
  <2> DEFINE d == a - b
  <2>1. d \in Nat /\ a = b + d
    BY <1>2
  <2> HIDE DEF d
  <2>2. b * k \in Nat /\ d * k \in Nat
    BY <2>1
  <2>3. (b + d) * k = b * k + d * k
    BY <2>1
  <2> QED BY <2>1, <2>2, <2>3
<1>3. a * k \in Nat /\ b * k \in Nat
  OBVIOUS
<1> QED BY <1>1, <1>2, <1>3

\* How many times k goes into a, and the bounds that say so.
LEMMA Division ==
  ASSUME NEW k \in Nat \ {0}, NEW a \in Nat, NEW n \in Nat, n * k <= a, a < n * k + k
  PROVE  a \div k = n
<1> DEFINE q == a \div k
<1>1. a = q * k + (a % k) /\ a % k \in 0 .. (k - 1) /\ q \in Nat
  BY DivMod
<1> HIDE DEF q
<1>2. (n + 1) * k = n * k + k /\ (q + 1) * k = q * k + k
  BY <1>1
<1>3. n * k < (q + 1) * k /\ q * k < (n + 1) * k
  BY <1>1, <1>2
<1>4. n < q + 1 /\ q < n + 1
  BY <1>1, <1>3, Scale
<1> QED BY <1>1, <1>4 DEF q

\* The flash: slot A is the sectors before the status sector.
LEMMA Layout ==
  /\ SectorLines \in Nat \ {0} /\ ASectors \in Nat \ {0} /\ LineUnits \in Nat \ {0}
  /\ StatusLine \in Nat \ {0} /\ StatusLine \in Lines /\ ALines \subseteq Lines
  /\ 0 \in ALines /\ SectorOf(0) = 0 /\ StatusLine \notin ALines
  /\ SectorOf(StatusLine) = ASectors
  /\ \A p \in Lines : SectorOf(p) \in Nat /\ (p \in ALines <=> SectorOf(p) < ASectors)
  /\ \A p \in Nat : p \div SectorLines \in Nat /\ (p < StatusLine => SectorOf(p) < ASectors)
<1>1. SectorLines \in Nat \ {0} /\ ASectors \in Nat \ {0} /\ LineUnits \in Nat \ {0}
  BY SwapAssumption
<1>2. StatusLine \in Nat /\ StatusLine >= ASectors /\ StatusLine >= SectorLines
      /\ (ASectors + 2) * SectorLines = StatusLine + SectorLines + SectorLines
  BY <1>1 DEF StatusLine
<1>3. StatusLine \in Lines /\ ALines \subseteq Lines /\ 0 \in ALines /\ StatusLine \notin ALines
  BY <1>1, <1>2 DEF Lines, LastLine, ALines
<1>4. SectorOf(0) = 0 /\ SectorOf(StatusLine) = ASectors
  <2>1. 0 * SectorLines = 0
    BY <1>1
  <2>2. 0 \div SectorLines = 0
    BY <1>1, <2>1, Division
  <2>3. StatusLine \div SectorLines = ASectors
    BY <1>1, <1>2, Division DEF StatusLine
  <2> QED BY <2>2, <2>3 DEF SectorOf
<1>5. ASSUME NEW p \in Nat
      PROVE  SectorOf(p) \in Nat /\ (p < StatusLine <=> SectorOf(p) < ASectors)
  <2> DEFINE q == p \div SectorLines
  <2>1. p = q * SectorLines + (p % SectorLines) /\ p % SectorLines \in 0 .. (SectorLines - 1)
        /\ q \in Nat
    BY <1>1, DivMod
  <2> HIDE DEF q
  <2>2. q < ASectors <=> q * SectorLines < ASectors * SectorLines
    BY <1>1, <2>1, Scale
  <2>3. q + 1 <= ASectors <=> ~(ASectors < q + 1)
    BY <1>1, <2>1
  <2>4. ASectors < q + 1 <=> ASectors * SectorLines < (q + 1) * SectorLines
    <3>1. q + 1 \in Nat
      BY <2>1
    <3> QED BY <1>1, <3>1, Scale
  <2>5. (q + 1) * SectorLines = q * SectorLines + SectorLines
    BY <1>1, <2>1
  <2>6. q * SectorLines \in Nat
    BY <1>1, <2>1
  <2> QED BY <1>1, <1>2, <2>1, <2>2, <2>3, <2>4, <2>5, <2>6 DEF q, SectorOf, StatusLine
<1>6. Lines \subseteq Nat
  BY <1>1, <1>2 DEF Lines, LastLine
<1>7. \A p \in Lines : p \in ALines <=> p < StatusLine
  BY <1>2, <1>6 DEF ALines, Lines
<1> QED BY <1>1, <1>2, <1>3, <1>4, <1>5, <1>6, <1>7 DEF SectorOf

\* The lines of an image that fits slot A.
Units(i) == i.total \div LineUnits

LEMMA FitLines ==
  ASSUME NEW i \in Images, Fit(i)
  PROVE  /\ Units(i) \in 1 .. StatusLine
         /\ \A p \in Nat : (p * LineUnits < i.total <=> p < Units(i))
                           /\ (p * LineUnits = i.total <=> p = Units(i))
<1>1. LineUnits \in Nat \ {0} /\ StatusLine \in Nat \ {0} /\ i.total \in Nat \ {0}
  <2>1. i.total \in Nat \ {0}
    BY SwapAssumption
  <2> QED BY <2>1, Layout
<1>2. i.total % LineUnits = 0 /\ i.total <= StatusLine * LineUnits
  BY DEF Fit
<1> DEFINE k == i.total \div LineUnits
<1>3. i.total = k * LineUnits /\ k \in Nat
  <2>1. i.total = k * LineUnits + (i.total % LineUnits) /\ k \in Nat
    BY <1>1, DivMod
  <2> HIDE DEF k
  <2>2. k * LineUnits \in Nat
    BY <1>1, <2>1
  <2> QED BY <1>2, <2>1, <2>2
<1> HIDE DEF k
<1>4. k # 0
  BY <1>1, <1>3
<1>5. ~(StatusLine < k)
  <2>1. ~(StatusLine * LineUnits < k * LineUnits)
    BY <1>1, <1>2, <1>3
  <2> QED BY <1>1, <1>3, <2>1, Scale
<1>6. ASSUME NEW p \in Nat
      PROVE  (p * LineUnits < i.total <=> p < k) /\ (p * LineUnits = i.total <=> p = k)
  <2>1. (p < k <=> p * LineUnits < k * LineUnits) /\ (k < p <=> k * LineUnits < p * LineUnits)
    BY <1>1, <1>3, Scale
  <2>2. p * LineUnits \in Nat
    BY <1>1
  <2> QED BY <1>1, <1>3, <2>1, <2>2
<1> QED BY <1>1, <1>3, <1>4, <1>5, <1>6 DEF k, Units

\* SectorsOf rounds up: the sectors hold the image, and no sector is spare.
LEMMA Sectors ==
  ASSUME NEW i \in Images
  PROVE  /\ SectorsOf(i.total) \in Nat \ {0}
         /\ Fit(i) => /\ SectorsOf(i.total) <= ASectors
                      /\ \A p \in ALines : p < Units(i) => SectorOf(p) < SectorsOf(i.total)
<1> DEFINE W == SectorLines * LineUnits
           n == SectorsOf(i.total)
<1>1. SectorLines \in Nat \ {0} /\ ASectors \in Nat \ {0} /\ LineUnits \in Nat \ {0}
      /\ i.total \in Nat \ {0}
  BY SwapAssumption
<1>2. W \in Nat \ {0}
  BY <1>1
<1>3. \E r \in 0 .. (W - 1) : i.total + W - 1 = n * W + r /\ n \in Nat
  <2>1. i.total + W - 1 \in Nat
    BY <1>1, <1>2
  <2> HIDE DEF W
  <2>2. LET a == i.total + W - 1
        IN  a = (a \div W) * W + (a % W) /\ a % W \in 0 .. (W - 1) /\ a \div W \in Nat
    BY <1>2, <2>1, DivMod
  <2>3. n = (i.total + W - 1) \div W
    BY DEF SectorsOf, W
  <2> QED BY <2>2, <2>3
<1> HIDE DEF W, n
<1>4. n \in Nat /\ i.total <= n * W /\ n * W < i.total + W
  BY <1>1, <1>2, <1>3
<1>5. n # 0
  BY <1>1, <1>2, <1>4
<1>6. ASSUME Fit(i) PROVE n <= ASectors
  <2>1. StatusLine * LineUnits = ASectors * W
    BY <1>1 DEF StatusLine, W
  <2>2. n * W < (ASectors + 1) * W
    BY <1>1, <1>2, <1>4, <1>6, <2>1 DEF Fit
  <2>3. n < ASectors + 1
    <3>1. ASectors + 1 \in Nat
      BY <1>1
    <3> QED BY <1>2, <1>4, <2>2, <3>1, Scale
  <2> QED BY <1>1, <1>4, <2>3
<1>7. ASSUME Fit(i), NEW p \in ALines, p < Units(i) PROVE SectorOf(p) < n
  <2>1. p \in Nat /\ p * LineUnits < i.total
    <3>1. p \in Nat
      BY Layout DEF ALines
    <3> QED BY <1>7, <3>1, FitLines
  <2> DEFINE s == p \div SectorLines
  <2>2. s \in Nat /\ s * SectorLines <= p
    <3>1. p = s * SectorLines + (p % SectorLines) /\ p % SectorLines \in 0 .. (SectorLines - 1)
          /\ s \in Nat
      BY <1>1, <2>1, DivMod
    <3> HIDE DEF s
    <3>2. s * SectorLines \in Nat
      BY <1>1, <3>1
    <3> QED BY <1>1, <2>1, <3>1, <3>2
  <2> HIDE DEF s
  <2>3. s * W = (s * SectorLines) * LineUnits
    BY <1>1, <2>2 DEF W
  <2>4. (s * SectorLines) * LineUnits <= p * LineUnits
    <3>1. s * SectorLines \in Nat
      BY <1>1, <2>2
    <3>2. ~(p * LineUnits < (s * SectorLines) * LineUnits)
      BY <1>1, <2>1, <2>2, <3>1, Scale
    <3> QED BY <1>1, <2>1, <3>1, <3>2
  <2>5. s * W < n * W
    <3>1. s * W \in Nat /\ n * W \in Nat /\ p * LineUnits \in Nat
      BY <1>1, <1>2, <1>4, <2>1, <2>2
    <3> QED BY <1>1, <1>4, <2>1, <2>3, <2>4, <3>1
  <2> QED BY <1>2, <1>4, <2>2, <2>5, Scale DEF s, SectorOf
<1> QED BY <1>4, <1>5, <1>6, <1>7 DEF n

-----------------------------------------------------------------------------
(* The types. *)

Contents == {Erased, Junk} \cup Records
              \cup [of : {App} \cup {i.name : i \in Images}, line : Lines]
Jobs == [rec : Records, then : {"boot", "idle", "swapErase", "digest", "clear"}]

LEMMA FillFacts ==
  ASSUME NEW m \in [Lines -> Contents], NEW s, NEW v \in {Erased, Junk}
  PROVE  /\ Fill(m, s, v) \in [Lines -> Contents]
         /\ \A p \in Lines : Fill(m, s, v)[p] = IF SectorOf(p) = s THEN v ELSE m[p]
BY DEF Fill, Contents

LEMMA ProgramFacts ==
  ASSUME NEW m \in [Lines -> Contents], NEW p \in Lines, NEW x \in Contents
  PROVE  /\ Program(m, p, x) \in [Lines -> Contents]
         /\ \A q \in Lines : q # p => Program(m, p, x)[q] = m[q]
         /\ Program(m, p, x)[p] = IF m[p] \in {Erased, x} THEN x ELSE Junk
BY DEF Program, Contents

LEMMA RecordFacts ==
  /\ Cleared \in Records /\ ClientRecord \in Records /\ NoJob \in Jobs
  /\ \A sec \in Counters : Record("flag", "idle", sec, TRUE) \in Records
  /\ AllOnes \in Counters
BY DEF Cleared, ClientRecord, NoJob, Jobs, Record, Records, States, Counters

\* What is known of a line of an image.
LEMMA LineFacts ==
  ASSUME NEW i \in Images, NEW p \in Lines
  PROVE  Line(i.name, p) \in Contents /\ Line(i.name, p) # Line(App, p)
<1>1. i.name # App
  BY SwapAssumption
<1> QED BY <1>1 DEF Line, Contents

LEMMA StoredType ==
  ASSUME job \in Jobs, recLines \in {1, 2} PROVE Stored \in Records
BY DEF Jobs, Records, Stored

LEMMA SaveType ==
  ASSUME SwapTypeOK, NEW status \in States, NEW then \in {"boot", "idle", "swapErase", "digest", "clear"},
         Save(status, then)
  PROVE  g' \in Records /\ job' \in Jobs /\ pc' = "erase"
BY DEF SwapTypeOK, Save, Jobs, Records

LEMMA ClearThenType ==
  ASSUME NEW then \in {"boot", "idle", "swapErase", "digest", "clear"}, ClearThen(then)
  PROVE  g' \in Records /\ job' \in Jobs /\ pc' = "erase"
BY RecordFacts DEF ClearThen, Jobs

LEMMA ErasedType ==
  ASSUME SwapTypeOK, pos \in Lines PROVE GoldenErased \in [Lines -> Contents]
BY FillFacts DEF SwapTypeOK, GoldenErased, Contents

\* An erase cut short leaves the other sectors alone.
LEMMA TornFacts ==
  ASSUME flash \in [Lines -> Contents], NEW s, NEW m \in TornErase(s)
  PROVE  /\ m \in [Lines -> Contents]
         /\ \A p \in Lines : m[p] = flash[p] \/ (SectorOf(p) = s /\ m[p] \in {Erased, Junk})
<1>1. PICK kept, blank \in SUBSET {p \in Lines : SectorOf(p) = s} :
        m = [p \in Lines |-> IF SectorOf(p) # s \/ p \in kept THEN flash[p]
                             ELSE IF p \in blank THEN Erased ELSE Junk]
  BY DEF TornErase
<1> QED BY <1>1 DEF Contents

\* Everything that an operation cut short may leave is a flash.
LEMMA TornType ==
  ASSUME SwapTypeOK, NEW m \in Torn PROVE m \in [Lines -> Contents]
<1>1. flash \in [Lines -> Contents] /\ job \in Jobs /\ recLines \in {1, 2}
      /\ slotB \in Images /\ golden \in Images
  BY DEF SwapTypeOK, Contents, Jobs
<1>2. \A s : TornErase(s) \subseteq [Lines -> Contents]
  BY <1>1, TornFacts
<1>3. ASSUME NEW f \in [Lines -> Contents], NEW p \in Lines, NEW x \in Contents
      PROVE  TornWrite(f, p, x) \subseteq [Lines -> Contents]
  <2>1. [f EXCEPT ![p] = Junk] \in [Lines -> Contents]
    BY DEF Contents
  <2> QED BY <2>1, ProgramFacts DEF TornWrite
<1>4. CASE pc = "erase"
  BY <1>2, <1>4 DEF Torn
<1>5. CASE pc = "write"
  <2>1. Stored \in Contents /\ StatusLine \in Lines
    BY <1>1, StoredType, Layout DEF Contents
  <2>2. m \in TornWrite(flash, StatusLine, Stored)
    BY <1>5 DEF Torn
  <2> QED BY <1>1, <1>3, <2>1, <2>2
<1>6. CASE pc = "swapErase" /\ pos < SectorsOf(slotB.total)
  <2>1. m \in TornErase(pos)
    BY <1>6 DEF Torn
  <2> QED BY <1>2, <2>1
<1>7. CASE pc = "copy" /\ ~Copied(slotB.total) /\ pos \in Lines
  <2>1. m \in TornWrite(flash, pos, Line(slotB.name, pos))
    BY <1>7 DEF Torn
  <2> QED BY <1>1, <1>3, <1>7, <2>1, LineFacts
<1>8. CASE pc = "golden" /\ ~Copied(golden.total) /\ pos \in Lines
  <2>1. m \in TornErase(SectorOf(pos)) \cup TornWrite(GoldenErased, pos, Line(golden.name, pos))
    BY <1>8 DEF Torn
  <2> QED BY <1>1, <1>2, <1>3, <1>8, <2>1, LineFacts, ErasedType
<1> QED BY <1>1, <1>4, <1>5, <1>6, <1>7, <1>8 DEF Torn

LEMMA InitType == SwapInit => SwapTypeOK
<1> SUFFICES ASSUME SwapInit PROVE SwapTypeOK
  OBVIOUS
<1>1. flash \in [Lines -> Contents]
  <2>1. \A p \in Lines : Line(App, p) \in Contents /\ Erased \in Contents
    BY DEF Line, Contents
  <2> QED BY <2>1 DEF SwapInit
<1>2. firstCut \in BOOLEAN
  BY DEF SwapInit
<1>3. slotB \in Images /\ golden \in Images /\ recLines \in {1, 2} /\ pos \in Nat
      /\ pc \in InBoot \cup {"app", "stuck"} /\ faults \in 0 .. MaxFaults
  BY SwapAssumption DEF SwapInit, InBoot
<1>4. g \in Records /\ job \in Jobs
  BY RecordFacts DEF SwapInit
<1> QED BY <1>1, <1>2, <1>3, <1>4 DEF SwapTypeOK, Contents, Jobs

LEMMA NextType == SwapTypeOK /\ [SwapNext]_vars => SwapTypeOK'
<1> SUFFICES ASSUME SwapTypeOK, [SwapNext]_vars PROVE SwapTypeOK'
  OBVIOUS
<1> USE DEF InBoot
<1>0. flash \in [Lines -> Contents] /\ job \in Jobs /\ slotB \in Images /\ golden \in Images
      /\ recLines \in {1, 2} /\ pc \in InBoot \cup {"app", "stuck"} /\ g \in Records
      /\ pos \in Nat /\ faults \in 0 .. MaxFaults /\ MaxFaults \in Nat
      /\ firstCut \in BOOLEAN
  BY SwapAssumption DEF SwapTypeOK, Contents, Jobs
<1> DEFINE Good ==
      /\ flash' \in [Lines -> Contents] /\ job' \in Jobs /\ slotB' \in Images
      /\ golden' \in Images /\ recLines' \in {1, 2}
      /\ pc' \in InBoot \cup {"app", "stuck"} /\ g' \in Records
      /\ pos' \in Nat /\ faults' \in 0 .. MaxFaults /\ firstCut' \in BOOLEAN
<1>q. Good => SwapTypeOK'
  BY DEF SwapTypeOK, Contents, Jobs
<1> SUFFICES Good
  BY <1>q
<1>1. CASE StatusErase
  BY <1>0, <1>1, FillFacts DEF StatusErase
<1>2. CASE StatusWrite
  <2>1. Stored \in Contents /\ StatusLine \in Lines
    BY <1>0, StoredType, Layout DEF Contents
  <2>2. job.then \in {"boot", "idle", "swapErase", "digest", "clear"}
    BY <1>0 DEF Jobs
  <2> QED BY <1>0, <1>2, <2>1, <2>2, ProgramFacts DEF StatusWrite
<1>3. CASE NoExtFlash
  BY <1>0, <1>3 DEF NoExtFlash, Started
<1>4. CASE ReadState
  <2>1. CASE Pending(flash[StatusLine]) /\ g' = flash[StatusLine] /\ pc' = "verify" /\ job' = job
    BY <1>0, <1>4, <2>1 DEF ReadState, Pending
  <2>2. CASE ClearThen("idle")
    BY <1>0, <1>4, <2>2, ClearThenType DEF ReadState
  <2>3. CASE pc' = "stuck" /\ UNCHANGED <<g, job>>
    BY <1>0, <1>4, <2>3 DEF ReadState
  <2>4. CASE g' = Cleared /\ pc' = "idle" /\ job' = job
    BY <1>0, <1>4, <2>4, RecordFacts DEF ReadState
  <2> QED BY <1>4, <2>1, <2>2, <2>3, <2>4 DEF ReadState
<1>5. CASE NotPending
  BY <1>0, <1>5 DEF NotPending, Started
<1>6. CASE Verify
  <2>1. CASE pc' = "clear" /\ UNCHANGED <<g, job>>
    BY <1>0, <1>6, <2>1 DEF Verify
  <2>2. CASE Save("done", "clear")
    BY <1>0, <1>6, <2>2, SaveType DEF Verify, States
  <2>3. CASE Save("copying", "swapErase")
    BY <1>0, <1>6, <2>3, SaveType DEF Verify, States
  <2> QED BY <1>6, <2>1, <2>2, <2>3 DEF Verify
<1>18. CASE VerifyFails
  BY <1>0, <1>18 DEF VerifyFails
<1>7. CASE Clear
  BY <1>0, <1>7, ClearThenType DEF Clear
<1>8. CASE Boot
  BY <1>0, <1>8 DEF Boot, Started
<1>9. CASE SwapErase
  BY <1>0, <1>9, FillFacts DEF SwapErase
<1>10. CASE CopyLine
  <2>1. CASE Copied(slotB.total) /\ Save("verifying", "digest") /\ UNCHANGED <<flash, pos>>
    BY <1>0, <1>10, <2>1, SaveType DEF CopyLine, States
  <2>2. CASE /\ ~Copied(slotB.total) /\ pos \in Lines
             /\ flash' = Program(flash, pos, Line(slotB.name, pos))
             /\ pos' = pos + 1 /\ UNCHANGED <<pc, g, job>>
    BY <1>0, <1>10, <2>2, LineFacts, ProgramFacts DEF CopyLine
  <2>3. CASE pc' = "stuck" /\ UNCHANGED <<flash, pos, g, job>>
    BY <1>0, <1>10, <2>3 DEF CopyLine
  <2> QED BY <1>10, <2>1, <2>2, <2>3 DEF CopyLine
<1>11. CASE Digest
  BY <1>0, <1>11, SaveType DEF Digest, States
<1>12. CASE GoldenLine
  <2>1. CASE pos \in Lines /\ pos' = pos + 1 /\ pc' = pc
             /\ flash' = Program(GoldenErased, pos, Line(golden.name, pos))
    <3>1. flash' \in [Lines -> Contents]
      <4>1. Line(golden.name, pos) \in Contents /\ GoldenErased \in [Lines -> Contents]
        BY <1>0, <2>1, LineFacts, ErasedType
      <4> QED BY <2>1, <4>1, ProgramFacts
    <3>2. pos' \in Nat /\ pc' = pc
      BY <1>0, <2>1
    <3> QED BY <1>0, <1>12, <3>1, <3>2 DEF GoldenLine
  <2>2. CASE pc' \in {"boot", "stuck"} /\ UNCHANGED <<flash, pos>>
    BY <1>0, <1>12, <2>2 DEF GoldenLine
  <2> QED BY <1>12, <2>1, <2>2 DEF GoldenLine
<1>13. ASSUME NEW i \in Images, Download(i) PROVE Good
  BY <1>0, <1>13 DEF Download
<1>14. ASSUME NEW r \in Records, StoreRecord(r) PROVE Good
  <2>1. r \in Contents
    BY DEF Contents
  <2> QED BY <1>0, <1>14, <2>1, FillFacts DEF StoreRecord
<1>15. CASE Reset
  BY <1>0, <1>15, RecordFacts DEF Reset
<1>16. CASE PowerFail
  BY <1>0, <1>16, RecordFacts, TornType DEF PowerFail
<1>17. CASE UNCHANGED vars
  BY <1>0, <1>17 DEF vars
<1> QED
  BY <1>1, <1>2, <1>3, <1>4, <1>5, <1>6, <1>7, <1>8, <1>9, <1>10, <1>11, <1>12, <1>13, <1>14,
     <1>15, <1>16, <1>17, <1>18, RecordFacts DEF SwapNext, BootStep, ClientCommit, Prepare

\* Whatever the images and however often the power fails, the bootloader keeps
\* its state in its types: an image never writes behind the flash.
THEOREM SwapTypeCorrect == SwapSpec => []SwapTypeOK
BY InitType, NextType, PTL DEF SwapSpec

-----------------------------------------------------------------------------
(* What is started is whole. *)

\* Slot A is being replaced, its first line gone.
Overwriting == \/ pc = "swapErase" /\ pos > 0
               \/ pc = "copy"
               \/ pc = "golden" /\ pos > 0

VectorInv ==
  /\ flash[0] = Line(App, 0) => Whole
  /\ pc = "app" => flash[0] = Line(App, 0)
  /\ Overwriting => flash[0] # Line(App, 0)

SlotAKept == \A p \in ALines : flash'[p] = flash[p]

\* A step that leaves slot A alone needs only mind where it goes.
LEMMA KeptVectors ==
  ASSUME VectorInv, SlotAKept, firstCut => firstCut', ~Overwriting', pc' = "app" => flash[0] = Line(App, 0)
  PROVE  VectorInv'
<1>1. 0 \in ALines /\ 0 .. (AppLines - 1) \subseteq ALines
  BY SwapAssumption, Layout DEF ALines, StatusLine
<1>2. flash'[0] = flash[0] /\ (Whole => Whole')
  BY <1>1 DEF SlotAKept, Whole
<1> QED BY <1>2 DEF VectorInv

\* A step that leaves something else in the first line.
LEMMA LostVectors ==
  ASSUME flash'[0] # Line(App, 0), pc' # "app"
  PROVE  VectorInv'
BY DEF VectorInv

\* The status sector is behind slot A.
LEMMA StatusFill ==
  ASSUME SwapTypeOK, NEW v \in {Erased, Junk}
  PROVE  /\ \A p \in ALines : Fill(flash, ASectors, v)[p] = flash[p]
         /\ Fill(flash, ASectors, v)[StatusLine] = v
<1>1. flash \in [Lines -> Contents]
  BY DEF SwapTypeOK, Contents
<1> QED BY <1>1, FillFacts, Layout

LEMMA StatusProgram ==
  ASSUME SwapTypeOK
  PROVE  /\ \A p \in ALines : Program(flash, StatusLine, Stored)[p] = flash[p]
         /\ Program(flash, StatusLine, Stored)[StatusLine] \in {Stored, Junk}
<1>1. flash \in [Lines -> Contents] /\ Stored \in Contents
  BY StoredType DEF SwapTypeOK, Contents, Jobs
<1> DEFINE x == Stored
<1>2. x \in Contents /\ StatusLine \in Lines /\ \A p \in ALines : p \in Lines /\ p # StatusLine
  BY <1>1, Layout
<1> HIDE DEF x
<1>3. /\ \A p \in ALines : Program(flash, StatusLine, x)[p] = flash[p]
      /\ Program(flash, StatusLine, x)[StatusLine] \in {x, Junk}
  BY <1>1, <1>2, ProgramFacts
<1> QED BY <1>3 DEF x

\* Programming a line of an image never makes the first line of the application.
LEMMA FirstLine ==
  ASSUME SwapTypeOK, NEW m \in [Lines -> Contents], NEW i \in Images, pos \in Lines,
         pos = 0 \/ m[0] # Line(App, 0)
  PROVE  Program(m, pos, Line(i.name, pos))[0] # Line(App, 0)
<1>1. Line(i.name, pos) \in Contents /\ Line(i.name, pos) # Line(App, pos) /\ 0 \in Lines
  BY LineFacts, Layout
<1>2. Junk # Line(App, 0)
  BY LineAssumption
<1> DEFINE x == Line(i.name, pos)
<1>3. x \in Contents /\ x # Line(App, pos) /\ 0 \in Lines
  BY <1>1
<1> HIDE DEF x
<1>4. Program(m, pos, x)[pos] \in {x, Junk} /\ (pos # 0 => Program(m, pos, x)[0] = m[0])
  <2>1. Program(m, pos, x)[pos] \in {x, Junk}
    BY <1>3, ProgramFacts
  <2>2. \A q \in Lines : q # pos => Program(m, pos, x)[q] = m[q]
    BY <1>3, ProgramFacts
  <2> QED BY <1>3, <2>1, <2>2
<1>5. CASE pos = 0
  BY <1>2, <1>3, <1>4, <1>5 DEF x
<1>6. CASE pos # 0
  BY <1>4, <1>6 DEF x
<1> QED BY <1>5, <1>6

\* The sector that is erased before a golden line is written.
LEMMA GoldenFirst ==
  ASSUME SwapTypeOK, VectorInv, pc = "golden"
  PROVE  pos = 0 \/ GoldenErased[0] # Line(App, 0)
<1> SUFFICES ASSUME pos # 0 PROVE GoldenErased[0] # Line(App, 0)
  OBVIOUS
<1>1. pos \in Nat /\ flash \in [Lines -> Contents] /\ flash[0] # Line(App, 0)
  BY DEF SwapTypeOK, Contents, VectorInv, Overwriting
<1>2. 0 \in Lines /\ Erased # Line(App, 0)
  BY Layout, LineAssumption
<1>3. CASE GoldenErased = flash
  BY <1>1, <1>3
<1>4. CASE GoldenErased = Fill(flash, SectorOf(pos), Erased)
  <2>1. Fill(flash, SectorOf(pos), Erased)[0] \in {Erased, flash[0]}
    BY <1>1, <1>2, FillFacts
  <2> QED BY <1>1, <1>2, <1>4, <2>1
<1> QED BY <1>3, <1>4 DEF GoldenErased

LEMMA TornVectors ==
  ASSUME SwapTypeOK, VectorInv, flash' \in Torn
  PROVE  \/ SlotAKept \/ flash'[0] # Line(App, 0)
         \/ pc \in {"swapErase", "golden"} /\ pos = 0 /\ flash' \in TornErase(0)
<1>0. flash \in [Lines -> Contents] /\ pos \in Nat /\ slotB \in Images /\ golden \in Images
      /\ job \in Jobs /\ recLines \in {1, 2}
  BY DEF SwapTypeOK, Contents, Jobs
<1>l. 0 \in Lines /\ 0 \in ALines /\ SectorOf(0) = 0 /\ ALines \subseteq Lines
      /\ Erased # Line(App, 0) /\ Junk # Line(App, 0)
  BY Layout, LineAssumption
<1>1. CASE pc = "erase"
  <2>1. flash' \in TornErase(ASectors)
    BY <1>1 DEF Torn
  <2> QED BY <1>0, <2>1, TornFacts, Layout DEF SlotAKept
<1>2. CASE pc = "write"
  <2>1. flash' \in TornWrite(flash, StatusLine, Stored)
    BY <1>2 DEF Torn
  <2>2. \A p \in ALines : [flash EXCEPT ![StatusLine] = Junk][p] = flash[p]
    BY <1>0, <1>l, Layout
  <2> QED BY <2>1, <2>2, StatusProgram DEF TornWrite, SlotAKept
<1>3. CASE pc = "swapErase" /\ pos < SectorsOf(slotB.total)
  <2>1. flash' \in TornErase(pos)
    BY <1>3 DEF Torn
  <2>2. CASE pos # 0
    <3>1. flash'[0] = flash[0]
      BY <1>0, <1>l, <2>1, <2>2, TornFacts
    <3> QED BY <1>0, <1>3, <2>2, <3>1 DEF VectorInv, Overwriting
  <2> QED BY <1>3, <2>1, <2>2
<1>4. CASE pc = "copy" /\ ~Copied(slotB.total) /\ pos \in Lines
  <2>1. flash' \in TornWrite(flash, pos, Line(slotB.name, pos))
    BY <1>4 DEF Torn
  <2>2. flash[0] # Line(App, 0)
    BY <1>4 DEF VectorInv, Overwriting
  <2>3. Program(flash, pos, Line(slotB.name, pos))[0] # Line(App, 0)
    BY <1>0, <1>4, <2>2, FirstLine
  <2>4. [flash EXCEPT ![pos] = Junk][0] \in {Junk, flash[0]}
    BY <1>0, <1>l
  <2> QED BY <1>l, <2>1, <2>2, <2>3, <2>4 DEF TornWrite
<1>5. CASE pc = "golden" /\ ~Copied(golden.total) /\ pos \in Lines
  <2> DEFINE m == GoldenErased
  <2>0. m \in [Lines -> Contents] /\ (pos = 0 \/ m[0] # Line(App, 0))
    BY <1>5, ErasedType, GoldenFirst
  <2>1. flash' \in (IF m = flash THEN {} ELSE TornErase(SectorOf(pos)))
                     \cup TornWrite(m, pos, Line(golden.name, pos))
    BY <1>5 DEF Torn
  <2>2. Program(m, pos, Line(golden.name, pos))[0] # Line(App, 0)
    BY <1>0, <1>5, <2>0, FirstLine
  <2>3. [m EXCEPT ![pos] = Junk][0] \in {Junk, m[0]} /\ (pos = 0 => [m EXCEPT ![pos] = Junk][0] = Junk)
    BY <1>l, <2>0
  <2>e. m = flash \/ m = Fill(flash, SectorOf(pos), Erased)
    BY DEF GoldenErased
  <2>f. \A v \in {Erased, Junk} :
          Fill(flash, SectorOf(pos), v)[0] = IF SectorOf(pos) = 0 THEN v ELSE flash[0]
    BY <1>0, <1>l, FillFacts
  <2> HIDE DEF m
  <2>4. ASSUME flash' = m PROVE SlotAKept \/ flash'[0] # Line(App, 0)
    <3>1. CASE m = flash
      BY <2>4, <3>1 DEF SlotAKept
    <3>2. CASE m = Fill(flash, SectorOf(pos), Erased) /\ pos = 0
      BY <1>l, <2>4, <2>f, <3>2
    <3> QED BY <2>0, <2>4, <2>e, <3>1, <3>2
  <2>5. ASSUME flash' \in TornErase(SectorOf(pos)), pos # 0 PROVE flash'[0] # Line(App, 0)
    <3>1. flash[0] # Line(App, 0)
      BY <1>0, <1>5, <2>5 DEF VectorInv, Overwriting
    <3>2. flash'[0] \in {flash[0], Erased, Junk}
      BY <1>0, <1>l, <2>5, TornFacts
    <3> QED BY <1>l, <3>1, <3>2
  <2> QED BY <1>5, <1>l, <2>0, <2>1, <2>2, <2>3, <2>4, <2>5 DEF TornWrite
<1>6. CASE flash' = flash
  BY <1>6 DEF SlotAKept
<1> QED BY <1>1, <1>2, <1>3, <1>4, <1>5, <1>6 DEF Torn

LEMMA InitVectors == SwapInit => VectorInv
<1> SUFFICES ASSUME SwapInit PROVE VectorInv
  OBVIOUS
<1>1. \A p \in 0 .. (AppLines - 1) : p \in Lines /\ p < AppLines
  BY SwapAssumption, Layout DEF ALines, StatusLine
<1>2. 0 \in 0 .. (AppLines - 1)
  BY SwapAssumption
<1> QED BY <1>1, <1>2 DEF SwapInit, VectorInv, Overwriting, Whole

LEMMA NextVectors ==
  ASSUME SwapTypeOK, VectorInv, [SwapNext]_vars PROVE VectorInv'
<1>0. flash \in [Lines -> Contents] /\ job \in Jobs /\ slotB \in Images /\ golden \in Images
      /\ recLines \in {1, 2} /\ pos \in Nat
  BY DEF SwapTypeOK, Contents, Jobs
<1>l. 0 \in Lines /\ 0 \in ALines /\ SectorOf(0) = 0
      /\ Erased # Line(App, 0) /\ Junk # Line(App, 0)
  BY Layout, LineAssumption
<1>1. CASE StatusErase
  <2>1. SlotAKept
    BY <1>1, StatusFill DEF StatusErase, SlotAKept
  <2> QED BY <1>1, <2>1, KeptVectors DEF StatusErase, Overwriting
<1>2. CASE StatusWrite
  <2>1. SlotAKept
    BY <1>2, StatusProgram DEF StatusWrite, SlotAKept
  <2>2. /\ pc' \in {"boot", "idle", "swapErase", "digest", "clear"} /\ pos' = 0
        /\ firstCut' = firstCut
    BY <1>0, <1>2 DEF StatusWrite, Jobs
  <2> QED BY <2>1, <2>2, KeptVectors DEF Overwriting
<1>3. CASE NoExtFlash
  BY <1>3, KeptVectors DEF NoExtFlash, Started, SlotAKept, Overwriting
<1>18. CASE VerifyFails
  BY <1>18, KeptVectors DEF VerifyFails, SlotAKept, Overwriting
<1>4. CASE ReadState
  <2>1. pc' \in {"verify", "erase", "stuck", "idle"} /\ flash' = flash /\ firstCut' = firstCut
    BY <1>4 DEF ReadState, ClearThen
  <2> QED BY <2>1, KeptVectors DEF SlotAKept, Overwriting
<1>5. CASE NotPending
  BY <1>5, KeptVectors DEF NotPending, Started, SlotAKept, Overwriting
<1>6. CASE Verify
  <2>1. pc' \in {"clear", "erase"} /\ flash' = flash /\ firstCut' = firstCut
    BY <1>6 DEF Verify, Save
  <2> QED BY <2>1, KeptVectors DEF SlotAKept, Overwriting
<1>7. CASE Clear \/ Digest
  <2>1. pc' = "erase" /\ flash' = flash /\ firstCut' = firstCut
    BY <1>7 DEF Clear, ClearThen, Digest, Save
  <2> QED BY <2>1, KeptVectors DEF SlotAKept, Overwriting
<1>8. CASE Boot
  BY <1>8, KeptVectors DEF Boot, Started, SlotAKept, Overwriting
<1>9. CASE SwapErase
  <2>1. SectorsOf(slotB.total) \in Nat \ {0}
    BY <1>0, Sectors
  <2>2. pc' # "app" /\ pc = "swapErase" /\ (pos # 0 => flash[0] # Line(App, 0))
    BY <1>0, <1>9 DEF SwapErase, VectorInv, Overwriting
  <2>3. CASE pos < SectorsOf(slotB.total)
    <3>1. flash' = Fill(flash, pos, Erased)
      BY <1>9, <2>3 DEF SwapErase
    <3>2. flash'[0] = IF pos = 0 THEN Erased ELSE flash[0]
      BY <1>0, <1>l, <3>1, FillFacts
    <3> QED BY <1>l, <2>2, <3>2, LostVectors
  <2>4. CASE ~(pos < SectorsOf(slotB.total))
    <3>1. flash' = flash /\ pos # 0
      BY <1>0, <1>9, <2>1, <2>4 DEF SwapErase
    <3> QED BY <2>2, <3>1, LostVectors
  <2> QED BY <2>3, <2>4
<1>10. CASE CopyLine
  <2>1. flash[0] # Line(App, 0) /\ pc' # "app"
    BY <1>10 DEF CopyLine, Save, VectorInv, Overwriting
  <2>2. CASE flash' = flash
    BY <2>1, <2>2, LostVectors
  <2>3. CASE pos \in Lines /\ flash' = Program(flash, pos, Line(slotB.name, pos))
    BY <1>0, <2>1, <2>3, FirstLine, LostVectors
  <2> QED BY <1>10, <2>2, <2>3 DEF CopyLine
<1>12. CASE GoldenLine
  <2>1. CASE pos \in Lines /\ pc' = pc
             /\ flash' = Program(GoldenErased, pos, Line(golden.name, pos))
    <3>1. GoldenErased \in [Lines -> Contents] /\ (pos = 0 \/ GoldenErased[0] # Line(App, 0))
      BY <1>12, <2>1, ErasedType, GoldenFirst DEF GoldenLine
    <3>2. flash'[0] # Line(App, 0)
      BY <1>0, <2>1, <3>1, FirstLine
    <3> QED BY <1>12, <2>1, <3>2, LostVectors DEF GoldenLine
  <2>2. CASE pc' \in {"boot", "stuck"} /\ flash' = flash
    BY <1>12, <2>2, KeptVectors DEF GoldenLine, SlotAKept, Overwriting
  <2> QED BY <1>12, <2>1, <2>2 DEF GoldenLine
<1>13. ASSUME NEW i \in Images, Download(i) PROVE VectorInv'
  BY <1>13, KeptVectors DEF Download, SlotAKept, Overwriting, VectorInv
<1>14. ASSUME NEW r \in Records, StoreRecord(r) PROVE VectorInv'
  <2>1. SlotAKept
    <3>1. \A p \in ALines : p \in Lines /\ p # StatusLine
      BY Layout
    <3>2. Fill(flash, ASectors, Erased) \in [Lines -> Contents]
      BY <1>0, FillFacts
    <3> QED BY <1>14, <3>1, <3>2, StatusFill DEF StoreRecord, SlotAKept
  <2> QED BY <1>14, <2>1, KeptVectors DEF StoreRecord, Overwriting, VectorInv
<1>15. CASE Reset
  BY <1>15, KeptVectors DEF Reset, SlotAKept, Overwriting
<1>16. CASE PowerFail
  <2>1. pc' = "reset" /\ flash' \in Torn /\ (firstCut => firstCut')
    BY <1>16 DEF PowerFail
  <2>2. CASE SlotAKept \/ flash'[0] # Line(App, 0)
    BY <2>1, <2>2, KeptVectors, LostVectors DEF Overwriting
  <2>3. CASE pc \in {"swapErase", "golden"} /\ pos = 0 /\ flash' \in TornErase(0)
    <3>1. firstCut'
      BY <1>16, <2>3 DEF PowerFail
    <3>2. flash[0] = Line(App, 0) \/ flash'[0] # Line(App, 0)
      BY <1>0, <1>l, <2>3, TornFacts
    <3>3. ASSUME Whole PROVE Whole'
      <4>1. \A p \in 0 .. (AppLines - 1) : p \in Lines
        BY SwapAssumption, Layout DEF ALines, StatusLine
      <4> QED BY <1>0, <2>3, <3>1, <3>3, <4>1, TornFacts DEF Whole
    <3> QED BY <2>1, <3>2, <3>3 DEF VectorInv, Overwriting
  <2> QED BY <2>1, <2>2, <2>3, TornVectors
<1>17. CASE UNCHANGED vars
  BY <1>17, KeptVectors DEF vars, SlotAKept, Overwriting, VectorInv
<1> QED
  BY <1>1, <1>2, <1>3, <1>4, <1>5, <1>6, <1>7, <1>8, <1>9, <1>10, <1>12, <1>13, <1>14,
     <1>15, <1>16, <1>17, <1>18, RecordFacts DEF SwapNext, BootStep, ClientCommit, Prepare

\* Whenever the application is started slot A holds all of it, however often
\* and wherever a copy before was cut short, if that was not in the erase of
\* the sector of the vectors; and else all of it behind that sector.
THEOREM WholeIsStarted == SwapSpec => []StartedIsWhole
<1>1. SwapInit => SwapTypeOK /\ VectorInv
  BY InitType, InitVectors
<1>2. SwapTypeOK /\ VectorInv /\ [SwapNext]_vars => (SwapTypeOK /\ VectorInv)'
  BY NextType, NextVectors
<1>3. VectorInv => StartedIsWhole
  BY DEF VectorInv, StartedIsWhole
<1> QED BY <1>1, <1>2, <1>3, PTL DEF SwapSpec

-----------------------------------------------------------------------------
(* How far a copy is, and what the record says of it. *)

Marked(r) == r \in Records /\ r.magic = "flag" /\ r.status \in {"verifying", "done"}

\* Somebody says, or is about to say, that slot B has been copied.
Claimed ==
  \/ Marked(flash[StatusLine])
  \/ pc = "digest"
  \/ pc \in {"erase", "write"} /\ (Marked(job.rec) \/ job.then = "digest")

ClaimInv ==
  /\ Claimed => flash[0] # Line(App, 0) /\ (Fit(slotB) => Holds(slotB))
  /\ pc = "verify" => g = flash[StatusLine]
  /\ pc \in {"swapErase", "copy", "golden", "idle"} => ~Marked(flash[StatusLine])
  /\ pc \in {"erase", "write"} /\ job.then = "swapErase" => job.rec.status = "copying"
  /\ pc \in {"erase", "write"} /\ job.then = "idle" => ~Marked(job.rec)

\* Before the copy the sectors are erased; in it, the lines that are to come.
CopyInv ==
  /\ pc = "swapErase" /\ Fit(slotB) =>
       \A p \in ALines : SectorOf(p) < pos => flash[p] = Erased
  /\ pc = "copy" /\ Fit(slotB) =>
       /\ pos <= Units(slotB)
       /\ \A p \in ALines : p < Units(slotB) =>
            flash[p] = IF p < pos THEN Line(slotB.name, p) ELSE Erased

\* In a recovery a sector is erased when it begins.
GoldenInv ==
  pc = "golden" /\ Fit(golden) =>
    /\ pos <= Units(golden)
    /\ \A p \in ALines : p < pos => flash[p] = Line(golden.name, p)
    /\ \A p \in ALines : p >= pos /\ SectorOf(p) * SectorLines < pos => flash[p] = Erased

\* Where a sector begins.
LEMMA SectorStart ==
  ASSUME NEW p \in Nat
  PROVE  /\ SectorOf(p) \in Nat /\ SectorOf(p) * SectorLines \in Nat
         /\ SectorOf(p) * SectorLines <= p /\ p < SectorOf(p) * SectorLines + SectorLines
         /\ p % SectorLines = 0 <=> p = SectorOf(p) * SectorLines
<1>1. SectorLines \in Nat \ {0}
  BY SwapAssumption
<1> DEFINE q == p \div SectorLines
<1>2. p = q * SectorLines + (p % SectorLines) /\ p % SectorLines \in 0 .. (SectorLines - 1)
      /\ q \in Nat
  BY <1>1, DivMod
<1> HIDE DEF q
<1>3. q * SectorLines \in Nat
  BY <1>1, <1>2
<1> QED BY <1>1, <1>2, <1>3 DEF q, SectorOf

\* The lines of the sector that begins at a are those whose sector begins there.
LEMMA SameSector ==
  ASSUME NEW a \in Nat, a % SectorLines = 0, NEW p \in Nat,
         a <= p, SectorOf(p) * SectorLines <= a
  PROVE  SectorOf(p) = SectorOf(a)
<1> DEFINE s == SectorOf(a)
           t == SectorOf(p)
<1>1. SectorLines \in Nat \ {0} /\ s \in Nat /\ t \in Nat /\ a = s * SectorLines
      /\ s * SectorLines \in Nat /\ t * SectorLines \in Nat
      /\ p < t * SectorLines + SectorLines /\ t * SectorLines <= a
  BY SwapAssumption, SectorStart
<1> HIDE DEF s, t
<1>2. ~(s < t)
  BY <1>1, Scale
<1>3. s < t + 1
  <2>1. (t + 1) * SectorLines = t * SectorLines + SectorLines /\ t + 1 \in Nat
    BY <1>1
  <2> QED BY <1>1, <2>1, Scale
<1> QED BY <1>1, <1>2, <1>3 DEF s, t

LEMMA NotMarked ==
  /\ ~Marked(Erased) /\ ~Marked(Junk) /\ ~Marked(Cleared) /\ ~Marked(ClientRecord)
  /\ \A sec \in Counters : ~Marked(Record("flag", "idle", sec, TRUE))
  /\ \A i \in Images, p \in Lines : ~Marked(Line(i.name, p))
<1>1. \A n, p : Line(n, p) \notin Records
  BY DEF Line, Records
<1>2. Erased \notin Records /\ Junk \notin Records
  BY LineAssumption
<1> QED BY <1>1, <1>2 DEF Marked, Cleared, ClientRecord, Record

LEMMA StoredMarked == ASSUME job \in Jobs PROVE Marked(Stored) => Marked(job.rec)
<1>1. job.rec \in Records
  BY DEF Jobs
<1>2. Stored.magic = job.rec.magic /\ Stored.status = job.rec.status
  BY <1>1 DEF Stored, Records
<1> QED BY <1>1, <1>2 DEF Marked

\* Nothing changed in slot A: what was claimed of it is still true.
LEMMA KeptClaim ==
  ASSUME SlotAKept, slotB' = slotB, ClaimInv, Claimed
  PROVE  flash'[0] # Line(App, 0) /\ (Fit(slotB') => Holds(slotB)')
<1>1. flash'[0] = flash[0] /\ (Holds(slotB) => Holds(slotB)')
  BY Layout DEF SlotAKept, Holds
<1> QED BY <1>1 DEF ClaimInv

\* A step of a copy leaves no claim in the record.
LEMMA OverwrittenRecord ==
  ASSUME SwapTypeOK, NEW m \in [Lines -> Contents], ~Marked(m[StatusLine]),
         NEW i \in Images, pos \in Lines
  PROVE  /\ ~Marked(Program(m, pos, Line(i.name, pos))[StatusLine])
         /\ ~Marked([m EXCEPT ![pos] = Junk][StatusLine])
<1> DEFINE x == Line(i.name, pos)
<1>1. x \in Contents /\ ~Marked(x) /\ ~Marked(Junk) /\ StatusLine \in Lines
  BY LineFacts, NotMarked, Layout
<1> HIDE DEF x
<1>2. Program(m, pos, x)[pos] \in {x, Junk}
  BY <1>1, ProgramFacts
<1>3. \A q \in Lines : q # pos => Program(m, pos, x)[q] = m[q]
  BY <1>1, ProgramFacts
<1>4. Program(m, pos, x)[StatusLine] \in {x, Junk, m[StatusLine]}
  BY <1>1, <1>2, <1>3
<1>5. [m EXCEPT ![pos] = Junk][StatusLine] \in {Junk, m[StatusLine]}
  BY <1>1
<1> QED BY <1>1, <1>4, <1>5 DEF x

LEMMA FilledRecord ==
  ASSUME SwapTypeOK, ~Marked(flash[StatusLine]), NEW s, NEW v \in {Erased, Junk}
  PROVE  ~Marked(Fill(flash, s, v)[StatusLine])
<1>1. flash \in [Lines -> Contents] /\ StatusLine \in Lines
  BY Layout DEF SwapTypeOK, Contents
<1>2. Fill(flash, s, v)[StatusLine] \in {v, flash[StatusLine]}
  BY <1>1, FillFacts
<1> QED BY <1>2, NotMarked

LEMMA GoldenRecord ==
  ASSUME SwapTypeOK, ~Marked(flash[StatusLine]) PROVE ~Marked(GoldenErased[StatusLine])
BY FilledRecord DEF GoldenErased

\* What an operation cut short leaves of the claims.
LEMMA TornClaim ==
  ASSUME SwapTypeOK, ClaimInv, flash' \in Torn, Marked(flash'[StatusLine])
  PROVE  SlotAKept /\ Claimed
<1>0. flash \in [Lines -> Contents] /\ slotB \in Images /\ golden \in Images
      /\ job \in Jobs /\ recLines \in {1, 2} /\ StatusLine \in Lines
      /\ \A p \in ALines : p \in Lines /\ p # StatusLine
  BY Layout DEF SwapTypeOK, Contents, Jobs
<1>1. CASE flash' = flash
  BY <1>1 DEF SlotAKept, Claimed
<1>2. CASE pc = "erase"
  <2>1. flash' \in TornErase(ASectors)
    BY <1>2 DEF Torn
  <2>2. flash'[StatusLine] = flash[StatusLine]
    BY <1>0, <2>1, TornFacts, NotMarked
  <2> QED BY <1>0, <2>1, <2>2, TornFacts, Layout DEF SlotAKept, Claimed
<1>3. CASE pc = "write"
  <2>1. flash' \in TornWrite(flash, StatusLine, Stored)
    BY <1>3 DEF Torn
  <2>2. CASE flash' = Program(flash, StatusLine, Stored)
    <3>1. Marked(Stored)
      BY <2>2, StatusProgram, NotMarked
    <3> QED BY <1>0, <1>3, <2>2, <3>1, StoredMarked, StatusProgram DEF SlotAKept, Claimed
  <2>3. CASE flash' = [flash EXCEPT ![StatusLine] = Junk]
    <3>1. flash'[StatusLine] = Junk
      BY <1>0, <2>3
    <3> QED BY <3>1, NotMarked
  <2> QED BY <1>1, <2>1, <2>2, <2>3 DEF TornWrite
<1>4. CASE pc = "swapErase" /\ pos < SectorsOf(slotB.total)
  <2>1. flash' \in TornErase(pos)
    BY <1>4 DEF Torn
  <2>2. ~Marked(flash[StatusLine])
    BY <1>4 DEF ClaimInv
  <2> QED BY <1>0, <2>1, <2>2, TornFacts, NotMarked
<1>5. CASE pc = "copy" /\ ~Copied(slotB.total) /\ pos \in Lines
  <2>1. flash' \in TornWrite(flash, pos, Line(slotB.name, pos))
    BY <1>5 DEF Torn
  <2>2. ~Marked(flash[StatusLine])
    BY <1>5 DEF ClaimInv
  <2> QED BY <1>0, <1>5, <2>1, <2>2, OverwrittenRecord DEF TornWrite
<1>6. CASE pc = "golden" /\ ~Copied(golden.total) /\ pos \in Lines
  <2> DEFINE m == GoldenErased
  <2>1. flash' \in TornErase(SectorOf(pos)) \cup TornWrite(m, pos, Line(golden.name, pos))
    BY <1>6 DEF Torn
  <2>2. ~Marked(flash[StatusLine])
    BY <1>6 DEF ClaimInv
  <2>3. m \in [Lines -> Contents] /\ ~Marked(m[StatusLine])
    BY <1>6, <2>2, ErasedType, GoldenRecord
  <2> HIDE DEF m
  <2>4. CASE flash' \in TornErase(SectorOf(pos))
    BY <1>0, <2>2, <2>4, TornFacts, NotMarked
  <2>5. CASE flash' \in TornWrite(m, pos, Line(golden.name, pos))
    BY <1>0, <1>6, <2>3, <2>5, OverwrittenRecord DEF TornWrite
  <2> QED BY <2>1, <2>4, <2>5
<1> QED BY <1>1, <1>2, <1>3, <1>4, <1>5, <1>6 DEF Torn

LEMMA NextClaim ==
  ASSUME SwapTypeOK, VectorInv, ClaimInv, CopyInv, [SwapNext]_vars PROVE ClaimInv'
<1>0. flash \in [Lines -> Contents] /\ job \in Jobs /\ slotB \in Images /\ golden \in Images
      /\ recLines \in {1, 2} /\ pos \in Nat /\ g \in Records
      /\ job.rec \in Records /\ job.then \in {"boot", "idle", "swapErase", "digest", "clear"}
  BY DEF SwapTypeOK, Contents, Jobs
<1> DEFINE Others ==
      /\ pc' = "verify" => g' = flash'[StatusLine]
      /\ pc' \in {"swapErase", "copy", "golden", "idle"} => ~Marked(flash'[StatusLine])
      /\ pc' \in {"erase", "write"} /\ job'.then = "swapErase" => job'.rec.status = "copying"
      /\ pc' \in {"erase", "write"} /\ job'.then = "idle" => ~Marked(job'.rec)
<1>k. ASSUME SlotAKept, slotB' = slotB, Claimed' => Claimed, Others PROVE ClaimInv'
  BY <1>k, KeptClaim DEF ClaimInv
<1>f. flash' = flash => SlotAKept
  BY DEF SlotAKept
<1>1. CASE StatusErase
  <2>1. SlotAKept /\ ~Marked(flash'[StatusLine])
    BY <1>1, StatusFill, NotMarked DEF StatusErase, SlotAKept
  <2>2. pc = "erase" /\ pc' = "write" /\ job' = job /\ slotB' = slotB
    BY <1>1 DEF StatusErase
  <2>3. (Claimed' => Claimed) /\ Others
    BY <2>1, <2>2 DEF Claimed, ClaimInv
  <2> QED BY <1>k, <2>1, <2>2, <2>3
<1>2. CASE StatusWrite
  <2>1. SlotAKept /\ (Marked(flash'[StatusLine]) => Marked(job.rec))
    BY <1>0, <1>2, StatusProgram, StoredMarked, NotMarked DEF StatusWrite, SlotAKept
  <2>2. pc = "write" /\ pc' = job.then /\ job' = job /\ slotB' = slotB
    BY <1>2 DEF StatusWrite
  <2>3. Claimed' => Claimed
    BY <1>0, <2>1, <2>2 DEF Claimed
  <2>4. pc' \in {"swapErase", "idle"} => ~Marked(job.rec)
    BY <2>2 DEF ClaimInv, Marked
  <2>5. Others
    BY <1>0, <2>1, <2>2, <2>4
  <2> QED BY <1>k, <2>1, <2>2, <2>3, <2>5
<1>3. CASE NoExtFlash \/ Boot
  <2>1. flash' = flash /\ slotB' = slotB /\ pc' \in {"app", "stuck"}
    BY <1>3 DEF NoExtFlash, Boot, Started
  <2>2. (Claimed' => Claimed) /\ Others
    BY <2>1 DEF Claimed
  <2> QED BY <1>f, <1>k, <2>1, <2>2
<1>4. CASE ReadState
  <2>1. flash' = flash /\ slotB' = slotB /\ pc = "reset"
    BY <1>4 DEF ReadState
  <2>2. CASE g' = flash[StatusLine] /\ pc' = "verify"
    BY <1>f, <1>k, <2>1, <2>2 DEF Claimed
  <2>3. CASE ClearThen("idle")
    <3>1. pc' = "erase" /\ job'.rec = Cleared /\ job'.then = "idle"
      BY <2>3 DEF ClearThen
    <3> QED BY <1>f, <1>k, <2>1, <3>1, NotMarked DEF Claimed
  <2>4. CASE pc' = "stuck"
    BY <1>f, <1>k, <2>1, <2>4 DEF Claimed
  <2>5. CASE /\ pc' = "idle"
             /\ \/ flash[StatusLine] = Erased
                \/ flash[StatusLine] \in Records /\ flash[StatusLine].magic = "none"
    <3>1. ~Marked(flash[StatusLine])
      BY <2>5, NotMarked DEF Marked
    <3> QED BY <1>f, <1>k, <2>1, <2>5, <3>1 DEF Claimed
  <2> QED BY <1>4, <2>2, <2>3, <2>4, <2>5 DEF ReadState
<1>5. CASE NotPending
  <2>1. flash' = flash /\ slotB' = slotB /\ pc' \in {"app", "stuck", "golden"}
        /\ ~Marked(flash[StatusLine])
    BY <1>5 DEF NotPending, Started, ClaimInv
  <2> QED BY <1>f, <1>k, <2>1 DEF Claimed
<1>6. CASE Verify
  <2>1. flash' = flash /\ slotB' = slotB /\ g = flash[StatusLine]
    BY <1>6 DEF Verify, ClaimInv
  <2>2. CASE pc' = "clear"
    BY <1>f, <1>k, <2>1, <2>2 DEF Claimed
  <2>3. CASE g.status = "verifying" /\ Save("done", "clear")
    <3>1. pc' = "erase" /\ job'.rec = g' /\ job'.then = "clear" /\ g'.magic = g.magic
      BY <1>0, <2>3 DEF Save, Records
    <3>2. Marked(g') => Marked(g)
      BY <1>0, <2>3, <3>1 DEF Marked
    <3> QED BY <1>f, <1>k, <2>1, <3>1, <3>2 DEF Claimed
  <2>4. CASE Save("copying", "swapErase")
    <3>1. pc' = "erase" /\ job'.rec = g' /\ job'.then = "swapErase" /\ g'.status = "copying"
      BY <1>0, <2>4 DEF Save, Records
    <3>2. ~Marked(g')
      BY <3>1 DEF Marked
    <3> QED BY <1>f, <1>k, <2>1, <3>1, <3>2 DEF Claimed
  <2> QED BY <1>6, <2>2, <2>3, <2>4 DEF Verify
<1>18. CASE VerifyFails
  BY <1>18, <1>f, <1>k DEF VerifyFails, Claimed
<1>7. CASE Clear
  <2>1. flash' = flash /\ slotB' = slotB /\ pc' = "erase" /\ job'.rec = Cleared
        /\ job'.then = "boot"
    BY <1>7 DEF Clear, ClearThen
  <2> QED BY <1>f, <1>k, <2>1, NotMarked DEF Claimed
<1>9. CASE SwapErase
  <2>1. ~Marked(flash[StatusLine]) /\ pc' \in {"swapErase", "copy"}
    BY <1>9 DEF SwapErase, ClaimInv
  <2>2. ~Marked(flash'[StatusLine])
    BY <1>9, <2>1, FilledRecord DEF SwapErase
  <2> QED BY <2>1, <2>2 DEF Claimed, ClaimInv
<1>10. CASE CopyLine
  <2>1. ~Marked(flash[StatusLine]) /\ pc = "copy" /\ slotB' = slotB
    BY <1>10 DEF CopyLine, ClaimInv
  <2>2. CASE Copied(slotB.total) /\ Save("verifying", "digest") /\ UNCHANGED <<flash, pos>>
    <3>1. pc' = "erase" /\ job'.then = "digest" /\ flash' = flash
      BY <2>2 DEF Save
    <3>2. flash[0] # Line(App, 0)
      BY <2>1 DEF VectorInv, Overwriting
    <3>3. ASSUME Fit(slotB) PROVE Holds(slotB)
      <4>1. pos = Units(slotB)
        BY <1>0, <2>2, <3>3, FitLines DEF Copied
      <4>2. \A p \in ALines : p \in Nat /\ (p * LineUnits < slotB.total => p < Units(slotB))
        <5>1. \A p \in ALines : p \in Nat
          BY Layout DEF ALines
        <5> QED BY <1>0, <3>3, <5>1, FitLines
      <4> QED BY <2>1, <3>3, <4>1, <4>2 DEF CopyInv, Holds
    <3> QED BY <2>1, <3>1, <3>2, <3>3 DEF ClaimInv, Claimed, Holds
  <2>3. CASE pos \in Lines /\ flash' = Program(flash, pos, Line(slotB.name, pos)) /\ pc' = pc
    <3>1. ~Marked(flash'[StatusLine])
      BY <1>0, <2>1, <2>3, OverwrittenRecord
    <3> QED BY <2>1, <2>3, <3>1 DEF Claimed, ClaimInv
  <2>4. CASE pc' = "stuck" /\ flash' = flash
    BY <2>1, <2>4 DEF Claimed, ClaimInv
  <2> QED BY <1>10, <2>2, <2>3, <2>4 DEF CopyLine
<1>11. CASE Digest
  <2>1. flash' = flash /\ slotB' = slotB /\ pc = "digest" /\ pc' = "erase" /\ job'.then = "clear"
    BY <1>11 DEF Digest, Save
  <2> QED BY <1>f, <1>k, <2>1 DEF Claimed
<1>12. CASE GoldenLine
  <2>1. ~Marked(flash[StatusLine]) /\ pc = "golden"
    BY <1>12 DEF GoldenLine, ClaimInv
  <2>2. CASE pos \in Lines /\ flash' = Program(GoldenErased, pos, Line(golden.name, pos)) /\ pc' = pc
    <3> DEFINE m == GoldenErased
    <3>1. m \in [Lines -> Contents] /\ ~Marked(m[StatusLine])
      BY <2>1, <2>2, ErasedType, GoldenRecord
    <3> HIDE DEF m
    <3>2. ~Marked(Program(m, pos, Line(golden.name, pos))[StatusLine])
      BY <1>0, <2>2, <3>1, OverwrittenRecord
    <3>3. ~Marked(flash'[StatusLine])
      BY <2>2, <3>2 DEF m
    <3> QED BY <2>1, <2>2, <3>3 DEF Claimed, ClaimInv
  <2>3. CASE pc' \in {"boot", "stuck"} /\ flash' = flash
    BY <2>1, <2>3 DEF Claimed, ClaimInv
  <2> QED BY <1>12, <2>2, <2>3 DEF GoldenLine
<1>13. ASSUME NEW i \in Images, Download(i) PROVE ClaimInv'
  <2>1. pc' = "app" /\ flash' = flash /\ ~Marked(flash[StatusLine])
    BY <1>13 DEF Download, VectorInv, ClaimInv, Claimed
  <2> QED BY <2>1 DEF Claimed, ClaimInv
<1>14. ASSUME NEW r \in Records, ~Marked(r), StoreRecord(r) PROVE ClaimInv'
  <2>1. pc' = "app" /\ flash'[StatusLine] = r
    <3>1. Fill(flash, ASectors, Erased) \in [Lines -> Contents] /\ StatusLine \in Lines
      BY <1>0, FillFacts, Layout
    <3> QED BY <1>14, <3>1 DEF StoreRecord
  <2> QED BY <1>14, <2>1 DEF Claimed, ClaimInv
<1>15. CASE Reset
  BY <1>15, <1>f, <1>k DEF Reset, Claimed
<1>16. CASE PowerFail
  <2>1. pc' = "reset" /\ flash' \in Torn /\ slotB' = slotB
    BY <1>16 DEF PowerFail
  <2>2. CASE Marked(flash'[StatusLine])
    <3>1. SlotAKept /\ Claimed
      BY <2>1, <2>2, TornClaim
    <3> QED BY <1>k, <2>1, <3>1
  <2>3. CASE ~Marked(flash'[StatusLine])
    BY <2>1, <2>3 DEF Claimed, ClaimInv
  <2> QED BY <2>2, <2>3
<1>17. CASE UNCHANGED vars
  <2>1. flash' = flash /\ pc' = pc /\ job' = job /\ g' = g /\ slotB' = slotB
    BY <1>17 DEF vars
  <2> QED BY <1>f, <1>k, <2>1 DEF Claimed, ClaimInv
<1> QED
  BY <1>1, <1>2, <1>3, <1>4, <1>5, <1>6, <1>7, <1>9, <1>10, <1>11, <1>12, <1>13, <1>14,
     <1>15, <1>16, <1>17, <1>18, RecordFacts, NotMarked
  DEF SwapNext, BootStep, ClientCommit, Prepare

LEMMA NextCopy ==
  ASSUME SwapTypeOK, CopyInv, SwapTypeOK', [SwapNext]_vars PROVE CopyInv'
<1>0. flash \in [Lines -> Contents] /\ slotB \in Images /\ pos \in Nat
  BY DEF SwapTypeOK, Contents
<1>l. \A p \in ALines : p \in Lines /\ p \in Nat /\ SectorOf(p) \in Nat
  BY Layout DEF ALines
<1>1. CASE StatusWrite
  <2>1. pc' # "copy" /\ pos' = 0
    BY <1>1 DEF StatusWrite, SwapTypeOK
  <2> QED BY <1>l, <2>1 DEF CopyInv
<1>2. CASE SwapErase
  <2>1. CASE /\ pos < SectorsOf(slotB.total) /\ flash' = Fill(flash, pos, Erased)
             /\ pos' = pos + 1 /\ pc' = pc /\ slotB' = slotB
    <3>1. \A p \in ALines : flash'[p] = IF SectorOf(p) = pos THEN Erased ELSE flash[p]
      BY <1>0, <1>l, <2>1, FillFacts
    <3>2. \A p \in ALines : SectorOf(p) < pos + 1 => SectorOf(p) = pos \/ SectorOf(p) < pos
      BY <1>0, <1>l
    <3> QED BY <1>2, <2>1, <3>1, <3>2 DEF CopyInv, SwapErase, Fit
  <2>2. CASE /\ ~(pos < SectorsOf(slotB.total)) /\ flash' = flash
             /\ pos' = 0 /\ pc' = "copy" /\ slotB' = slotB
    <3>1. ASSUME Fit(slotB), NEW p \in ALines, p < Units(slotB) PROVE flash[p] = Erased
      <4>1. SectorOf(p) < SectorsOf(slotB.total) /\ SectorsOf(slotB.total) \in Nat
        BY <1>0, <3>1, Sectors
      <4>2. SectorOf(p) < pos
        BY <1>0, <1>l, <2>2, <4>1
      <4> QED BY <1>2, <3>1, <4>2 DEF CopyInv, SwapErase
    <3>2. Fit(slotB) => 0 <= Units(slotB)
      BY <1>0, FitLines, Layout
    <3> QED BY <1>l, <2>2, <3>1, <3>2 DEF CopyInv, Fit, Units
  <2> QED BY <1>2, <2>1, <2>2 DEF SwapErase
<1>3. CASE CopyLine
  <2>1. CASE pc' \in {"erase", "stuck"}
    BY <2>1 DEF CopyInv
  <2>2. CASE /\ ~Copied(slotB.total) /\ pos \in Lines /\ slotB' = slotB
             /\ flash' = Program(flash, pos, Line(slotB.name, pos))
             /\ pos' = pos + 1 /\ pc' = pc
    <3> SUFFICES ASSUME Fit(slotB)
                 PROVE  /\ pos + 1 <= Units(slotB)
                        /\ \A p \in ALines : p < Units(slotB) =>
                             flash'[p] = IF p < pos + 1 THEN Line(slotB.name, p) ELSE Erased
      BY <1>3, <2>2 DEF CopyInv, CopyLine, Fit, Units
    <3>1. Units(slotB) \in 1 .. StatusLine /\ (pos * LineUnits = slotB.total <=> pos = Units(slotB))
      BY <1>0, FitLines
    <3>2. pos <= Units(slotB) /\ pos # Units(slotB) /\ StatusLine \in Nat
      BY <1>3, <2>2, <3>1, Layout DEF CopyInv, CopyLine, Copied
    <3>3. pos < Units(slotB) /\ pos + 1 <= Units(slotB) /\ pos \in ALines
      BY <1>0, <3>1, <3>2 DEF ALines
    <3>4. flash[pos] = Erased
      BY <1>0, <1>3, <3>3 DEF CopyInv, CopyLine
    <3> DEFINE x == Line(slotB.name, pos)
    <3>5. x \in Contents
      BY <1>0, <2>2, LineFacts
    <3> HIDE DEF x
    <3>6. Program(flash, pos, x)[pos] = x
      BY <1>0, <2>2, <3>4, <3>5, ProgramFacts
    <3>7. \A q \in Lines : q # pos => Program(flash, pos, x)[q] = flash[q]
      BY <1>0, <2>2, <3>5, ProgramFacts
    <3>8. ASSUME NEW p \in ALines, p < Units(slotB)
          PROVE  flash'[p] = IF p < pos + 1 THEN Line(slotB.name, p) ELSE Erased
      <4>1. CASE p = pos
        BY <1>0, <2>2, <3>6, <4>1 DEF x
      <4>2. CASE p # pos
        <5>1. flash'[p] = flash[p]
          BY <1>l, <2>2, <3>7, <4>2 DEF x
        <5>2. flash[p] = IF p < pos THEN Line(slotB.name, p) ELSE Erased
          BY <1>3, <3>8 DEF CopyInv, CopyLine
        <5>3. p < pos <=> p < pos + 1
          BY <1>0, <1>l, <4>2
        <5> QED BY <5>1, <5>2, <5>3
      <4> QED BY <4>1, <4>2
    <3> QED BY <3>3, <3>8
  <2> QED BY <1>3, <2>1, <2>2 DEF CopyLine, Save
<1>4. CASE UNCHANGED vars
  <2>1. flash' = flash /\ pc' = pc /\ pos' = pos /\ slotB' = slotB
    BY <1>4 DEF vars
  <2> QED BY <2>1 DEF CopyInv, Fit, Units
<1>5. ASSUME pc' \notin {"swapErase", "copy"} PROVE CopyInv'
  BY <1>5 DEF CopyInv
<1>6. ASSUME \/ StatusErase \/ ReadState \/ NotPending \/ Verify \/ Clear \/ Boot \/ Digest
             \/ GoldenLine \/ NoExtFlash \/ VerifyFails \/ (\E i \in Images : Download(i))
             \/ (\E r : StoreRecord(r)) \/ Reset \/ PowerFail
      PROVE  pc' \notin {"swapErase", "copy"}
  BY <1>6 DEF StatusErase, ReadState, NotPending, Verify, Clear, Boot, Digest, GoldenLine,
              NoExtFlash, VerifyFails, Download, StoreRecord, Reset, PowerFail, Save, ClearThen, Started
<1> QED BY <1>1, <1>2, <1>3, <1>4, <1>5, <1>6 DEF SwapNext, BootStep, ClientCommit, Prepare

LEMMA NextGolden ==
  ASSUME SwapTypeOK, GoldenInv, [SwapNext]_vars PROVE GoldenInv'
<1>0. flash \in [Lines -> Contents] /\ golden \in Images /\ pos \in Nat
  BY DEF SwapTypeOK, Contents
<1>l. \A p \in ALines : p \in Lines /\ p \in Nat /\ SectorOf(p) \in Nat
                        /\ SectorOf(p) * SectorLines \in Nat
  <2>1. \A p \in ALines : p \in Lines /\ p \in Nat
    BY Layout DEF ALines
  <2> QED BY <2>1, SectorStart
<1>1. CASE NotPending
  <2>1. pos' = 0 /\ golden' = golden
    BY <1>1 DEF NotPending
  <2>2. Fit(golden) => 0 <= Units(golden)
    BY <1>0, FitLines, Layout
  <2> QED BY <1>l, <2>1, <2>2 DEF GoldenInv, Fit, Units
<1>2. CASE GoldenLine
  <2>1. CASE pc' \in {"boot", "stuck"}
    BY <2>1 DEF GoldenInv
  <2>2. CASE /\ ~Copied(golden.total) /\ pos \in Lines
             /\ flash' = Program(GoldenErased, pos, Line(golden.name, pos))
             /\ pos' = pos + 1 /\ pc' = pc
    <3> SUFFICES ASSUME Fit(golden)
                 PROVE  /\ pos + 1 <= Units(golden)
                        /\ \A p \in ALines : p < pos + 1 => flash'[p] = Line(golden.name, p)
                        /\ \A p \in ALines :
                             p >= pos + 1 /\ SectorOf(p) * SectorLines < pos + 1
                               => flash'[p] = Erased
      BY <1>2, <2>2 DEF GoldenInv, GoldenLine, Fit, Units
    <3>1. Units(golden) \in 1 .. StatusLine /\ (pos * LineUnits = golden.total <=> pos = Units(golden))
      BY <1>0, FitLines
    <3>i. /\ pos <= Units(golden)
          /\ \A p \in ALines : p < pos => flash[p] = Line(golden.name, p)
          /\ \A p \in ALines : p >= pos /\ SectorOf(p) * SectorLines < pos => flash[p] = Erased
      BY <1>2 DEF GoldenInv, GoldenLine
    <3>2. pos # Units(golden) /\ StatusLine \in Nat
      BY <2>2, <3>1, Layout DEF Copied
    <3>3. pos + 1 <= Units(golden) /\ pos \in ALines
      BY <1>0, <3>1, <3>2, <3>i DEF ALines
    <3>4. SectorOf(pos) < ASectors /\ SectorOf(pos) \in Nat
      BY <2>2, <3>3, Layout
    <3> DEFINE m == GoldenErased
               s == SectorOf(pos)
    <3>5. /\ m \in [Lines -> Contents]
          /\ \A p \in ALines : p < pos => m[p] = Line(golden.name, p)
          /\ \A p \in ALines : p >= pos /\ SectorOf(p) * SectorLines < pos + 1 => m[p] = Erased
      <4>1. m \in [Lines -> Contents]
        BY <2>2, ErasedType
      <4>2. CASE pos % SectorLines = 0
        <5>1. m = Fill(flash, s, Erased)
          BY <3>4, <4>2 DEF GoldenErased
        <5>2. \A p \in ALines : m[p] = IF SectorOf(p) = s THEN Erased ELSE flash[p]
          BY <1>0, <1>l, <5>1, FillFacts
        <5>3. pos = s * SectorLines
          BY <1>0, <4>2, SectorStart
        <5>4. ASSUME NEW p \in ALines, p < pos PROVE m[p] = Line(golden.name, p)
          <6>1. SectorOf(p) * SectorLines <= p
            BY <1>l, SectorStart
          <6>2. SectorOf(p) # s
            BY <1>0, <1>l, <5>3, <5>4, <6>1
          <6> QED BY <3>i, <5>2, <5>4, <6>2
        <5>5. ASSUME NEW p \in ALines, p >= pos, SectorOf(p) * SectorLines < pos + 1
              PROVE  m[p] = Erased
          <6>1. SectorOf(p) * SectorLines <= pos
            BY <1>0, <1>l, <5>5
          <6>2. SectorOf(p) = s
            BY <1>0, <1>l, <4>2, <5>5, <6>1, SameSector
          <6> QED BY <5>2, <6>2
        <5> QED BY <4>1, <5>4, <5>5
      <4>3. CASE pos % SectorLines # 0
        <5>1. m = flash
          BY <4>3 DEF GoldenErased
        <5>2. ASSUME NEW p \in ALines, p >= pos, SectorOf(p) * SectorLines < pos + 1
              PROVE  flash[p] = Erased
          <6>1. CASE SectorOf(p) * SectorLines < pos
            BY <3>i, <5>2, <6>1
          <6>2. CASE SectorOf(p) * SectorLines = pos
            <7> DEFINE t == SectorOf(p)
            <7>1. t \in Nat /\ SectorLines \in Nat \ {0} /\ pos = t * SectorLines
              BY <1>l, <6>2, SwapAssumption
            <7> HIDE DEF t
            <7>2. pos \div SectorLines = t
              BY <1>0, <7>1, Division
            <7>3. pos = SectorOf(pos) * SectorLines
              BY <7>1, <7>2 DEF SectorOf
            <7> QED BY <1>0, <4>3, <7>3, SectorStart
          <6> QED BY <1>0, <1>l, <5>2, <6>1, <6>2
        <5> QED BY <3>i, <4>1, <5>1, <5>2
      <4> QED BY <4>2, <4>3
    <3> HIDE DEF m
    <3>6. m[pos] = Erased
      BY <1>0, <3>3, <3>5, SectorStart
    <3> DEFINE x == Line(golden.name, pos)
    <3>7. x \in Contents
      BY <1>0, <2>2, LineFacts
    <3> HIDE DEF x
    <3>8. Program(m, pos, x)[pos] = x
      BY <2>2, <3>5, <3>6, <3>7, ProgramFacts
    <3>9. \A q \in Lines : q # pos => Program(m, pos, x)[q] = m[q]
      BY <2>2, <3>5, <3>7, ProgramFacts
    <3>10. flash' = Program(m, pos, x)
      BY <2>2 DEF m, x
    <3>11. ASSUME NEW p \in ALines, p < pos + 1 PROVE flash'[p] = Line(golden.name, p)
      <4>1. CASE p = pos
        BY <3>8, <3>10, <4>1 DEF x
      <4>2. CASE p # pos
        <5>1. p < pos
          BY <1>0, <1>l, <3>11, <4>2
        <5> QED BY <1>l, <3>5, <3>9, <3>10, <4>2, <5>1
      <4> QED BY <4>1, <4>2
    <3>12. ASSUME NEW p \in ALines, p >= pos + 1, SectorOf(p) * SectorLines < pos + 1
           PROVE  flash'[p] = Erased
      <4>1. p # pos /\ p >= pos
        BY <1>0, <1>l, <3>12
      <4> QED BY <1>l, <3>5, <3>9, <3>10, <3>12, <4>1
    <3> QED BY <3>3, <3>11, <3>12
  <2> QED BY <1>2, <2>1, <2>2 DEF GoldenLine
<1>3. CASE UNCHANGED vars
  <2>1. flash' = flash /\ pc' = pc /\ pos' = pos /\ golden' = golden
    BY <1>3 DEF vars
  <2> QED BY <2>1 DEF GoldenInv, Fit, Units
<1>4. CASE StatusWrite
  <2>1. pc' # "golden"
    BY <1>4 DEF StatusWrite, SwapTypeOK
  <2> QED BY <2>1 DEF GoldenInv
<1>5. ASSUME \/ StatusErase \/ ReadState \/ Verify \/ Clear \/ Boot \/ Digest
             \/ SwapErase \/ CopyLine \/ NoExtFlash \/ VerifyFails \/ (\E i \in Images : Download(i))
             \/ (\E r : StoreRecord(r)) \/ Reset \/ PowerFail
      PROVE  GoldenInv'
  <2>1. pc' # "golden"
    BY <1>5 DEF StatusErase, ReadState, Verify, Clear, Boot, Digest, SwapErase, CopyLine,
                NoExtFlash, VerifyFails, Download, StoreRecord, Reset, PowerFail, Save, ClearThen, Started
  <2> QED BY <2>1 DEF GoldenInv
<1> QED BY <1>1, <1>2, <1>3, <1>4, <1>5 DEF SwapNext, BootStep, ClientCommit, Prepare

-----------------------------------------------------------------------------
(* The theorems. *)

SwapInv == SwapTypeOK /\ VectorInv /\ ClaimInv /\ CopyInv /\ GoldenInv

LEMMA InitInv == SwapInit => SwapInv
<1> SUFFICES ASSUME SwapInit PROVE ClaimInv /\ CopyInv /\ GoldenInv
  BY InitType, InitVectors DEF SwapInv
<1>1. flash[StatusLine] = Erased
  <2>1. StatusLine \in Lines /\ ~(StatusLine < AppLines)
    BY SwapAssumption, Layout DEF StatusLine
  <2> QED BY <2>1 DEF SwapInit
<1> QED BY <1>1, NotMarked DEF SwapInit, ClaimInv, Claimed, CopyInv, GoldenInv

LEMMA NextInv == SwapInv /\ [SwapNext]_vars => SwapInv'
BY NextType, NextVectors, NextClaim, NextCopy, NextGolden DEF SwapInv

LEMMA Invariant == SwapSpec => []SwapInv
BY InitInv, NextInv, PTL DEF SwapSpec

\* A record that lets the next boot skip the copy is only there when slot A
\* holds what slot B does.
THEOREM CopyIsVerified == SwapSpec => []VerifyingMeansCopied
<1>1. SwapInv => VerifyingMeansCopied
  BY DEF SwapInv, ClaimInv, Claimed, Marked, VerifyingMeansCopied
<1> QED BY <1>1, Invariant, PTL

\* A recovery that ends leaves the whole golden image.
THEOREM RecoveryIsWhole == SwapSpec => RecoveredIsGolden
<1>1. ASSUME SwapInv, [SwapNext]_vars, pc = "golden", pc' = "boot", Fit(golden)
      PROVE  Holds(golden)
  <2>1. pos \in Nat /\ golden \in Images
    BY <1>1 DEF SwapInv, SwapTypeOK
  <2>2. GoldenLine
    BY <1>1 DEF vars, SwapNext, BootStep, StatusErase, StatusWrite, ReadState, NotPending, Verify,
       Clear, Boot, Digest, SwapErase, CopyLine, NoExtFlash, VerifyFails, Download, ClientCommit, Prepare,
       StoreRecord, Reset, PowerFail, Save, ClearThen, InBoot
  <2>3. pos * LineUnits = golden.total
    BY <1>1, <2>2 DEF GoldenLine, Copied
  <2>4. pos = Units(golden)
    BY <1>1, <2>1, <2>3, FitLines
  <2>5. \A p \in ALines : p \in Nat /\ (p * LineUnits < golden.total => p < Units(golden))
    <3>1. \A p \in ALines : p \in Nat
      BY Layout DEF ALines
    <3> QED BY <1>1, <2>1, <3>1, FitLines
  <2> QED BY <1>1, <2>4, <2>5 DEF SwapInv, GoldenInv, Holds
<1>2. SwapInv /\ [SwapNext]_vars
        => [pc = "golden" /\ pc' = "boot" /\ Fit(golden) => Holds(golden)]_vars
  BY <1>1
<1> QED BY <1>2, Invariant, PTL DEF SwapSpec, RecoveredIsGolden

\* A copy that fits slot A changes slot A only.
Behind == Lines \ ALines
BehindKept(m) == \A p \in Behind : m[p] = flash[p]

LEMMA BehindProgram ==
  ASSUME SwapTypeOK, NEW m \in [Lines -> Contents], BehindKept(m), NEW i \in Images, pos \in ALines
  PROVE  BehindKept(Program(m, pos, Line(i.name, pos))) /\ BehindKept([m EXCEPT ![pos] = Junk])
<1> DEFINE x == Line(i.name, pos)
<1>1. pos \in Lines /\ \A p \in Behind : p \in Lines /\ p # pos
  BY Layout DEF Behind
<1>2. x \in Contents
  BY <1>1, LineFacts
<1> HIDE DEF x
<1>3. \A q \in Lines : q # pos => Program(m, pos, x)[q] = m[q]
  BY <1>1, <1>2, ProgramFacts
<1> QED BY <1>1, <1>3 DEF BehindKept, x

LEMMA BehindTorn ==
  ASSUME SwapTypeOK, NEW s \in Nat, s < ASectors, NEW m \in TornErase(s)
  PROVE  BehindKept(m)
<1>1. flash \in [Lines -> Contents]
  BY DEF SwapTypeOK, Contents
<1>2. \A p \in Behind : p \in Lines /\ SectorOf(p) # s
  BY Layout DEF Behind
<1> QED BY <1>1, <1>2, TornFacts DEF BehindKept

LEMMA BehindFill ==
  ASSUME SwapTypeOK, NEW s \in Nat, s < ASectors, NEW v \in {Erased, Junk}
  PROVE  BehindKept(Fill(flash, s, v))
<1>1. flash \in [Lines -> Contents]
  BY DEF SwapTypeOK, Contents
<1>2. \A p \in Behind : p \in Lines /\ SectorOf(p) # s
  BY Layout DEF Behind
<1> QED BY <1>1, <1>2, FillFacts DEF BehindKept

\* Where the next line of a copy is.
LEMMA CopyPlace ==
  ASSUME SwapInv
  PROVE  /\ pc = "swapErase" /\ Fit(slotB) /\ pos < SectorsOf(slotB.total) => pos < ASectors
         /\ pc = "copy" /\ Fit(slotB) /\ ~Copied(slotB.total) => pos \in ALines
         /\ pc = "golden" /\ Fit(golden) /\ ~Copied(golden.total) => pos \in ALines
<1>0. slotB \in Images /\ golden \in Images /\ pos \in Nat
  BY DEF SwapInv, SwapTypeOK
<1>1. ASSUME Fit(slotB), pos < SectorsOf(slotB.total) PROVE pos < ASectors
  <2>1. SectorsOf(slotB.total) <= ASectors /\ SectorsOf(slotB.total) \in Nat /\ ASectors \in Nat
    BY <1>0, <1>1, Sectors, Layout
  <2> QED BY <1>0, <1>1, <2>1
<1>2. ASSUME NEW i \in Images, Fit(i), ~Copied(i.total), pos <= Units(i) PROVE pos \in ALines
  <2>1. Units(i) \in 1 .. StatusLine /\ pos # Units(i) /\ StatusLine \in Nat
    BY <1>0, <1>2, FitLines, Layout DEF Copied
  <2> QED BY <1>0, <1>2, <2>1 DEF ALines
<1> QED BY <1>0, <1>1, <1>2 DEF SwapInv, CopyInv, GoldenInv

LEMMA GoldenBehind ==
  ASSUME SwapTypeOK, pos \in ALines PROVE BehindKept(GoldenErased) /\ SectorOf(pos) \in Nat
                                          /\ SectorOf(pos) < ASectors
<1>1. SectorOf(pos) \in Nat /\ SectorOf(pos) < ASectors
  BY Layout
<1>2. BehindKept(flash)
  BY DEF BehindKept
<1> QED BY <1>1, <1>2, BehindFill DEF GoldenErased

\* A copy of an image that fits is under way.
FittingCopy == \/ pc \in {"swapErase", "copy"} /\ Fit(slotB)
               \/ pc = "golden" /\ Fit(golden)

LEMMA StepBehind ==
  ASSUME SwapInv, SwapNext, FittingCopy
  PROVE  BehindKept(flash')
<1>0. flash \in [Lines -> Contents] /\ slotB \in Images /\ golden \in Images /\ pos \in Nat
      /\ SwapTypeOK /\ ALines \subseteq Lines
  BY Layout DEF SwapInv, SwapTypeOK, Contents
<1>s. BehindKept(flash)
  BY DEF BehindKept
<1> USE DEF FittingCopy
<1>1. CASE SwapErase
  <2>1. pos < SectorsOf(slotB.total) => pos < ASectors
    BY <1>1, CopyPlace DEF SwapErase
  <2> QED BY <1>0, <1>1, <1>s, <2>1, BehindFill DEF SwapErase
<1>2. CASE CopyLine
  <2>1. ~Copied(slotB.total) => pos \in ALines
    BY <1>2, CopyPlace DEF CopyLine
  <2> QED BY <1>0, <1>2, <1>s, <2>1, BehindProgram DEF CopyLine
<1>3. CASE GoldenLine
  <2>1. ~Copied(golden.total) => pos \in ALines
    BY <1>3, CopyPlace DEF GoldenLine
  <2> DEFINE m == GoldenErased
  <2>2. pos \in ALines => BehindKept(m) /\ m \in [Lines -> Contents]
    BY <1>0, ErasedType, GoldenBehind
  <2>3. flash' = flash \/ (~Copied(golden.total) /\ flash' = Program(m, pos, Line(golden.name, pos)))
    BY <1>3 DEF GoldenLine
  <2> HIDE DEF m
  <2> QED BY <1>0, <1>s, <2>1, <2>2, <2>3, BehindProgram
<1>4. CASE PowerFail
  <2>0. flash' \in Torn
    BY <1>4 DEF PowerFail
  <2>1. CASE pc = "swapErase" /\ pos < SectorsOf(slotB.total)
    <3>1. flash' \in TornErase(pos) /\ pos < ASectors
      BY <2>0, <2>1, CopyPlace DEF Torn
    <3> QED BY <1>0, <3>1, BehindTorn
  <2>2. CASE pc = "copy" /\ ~Copied(slotB.total) /\ pos \in Lines
    <3>1. flash' \in TornWrite(flash, pos, Line(slotB.name, pos)) /\ pos \in ALines
      BY <2>0, <2>2, CopyPlace DEF Torn
    <3> QED BY <1>0, <1>s, <3>1, BehindProgram DEF TornWrite
  <2>3. CASE pc = "golden" /\ ~Copied(golden.total) /\ pos \in Lines
    <3> DEFINE m == GoldenErased
    <3>1. pos \in ALines
      BY <2>3, CopyPlace
    <3>2. BehindKept(m) /\ m \in [Lines -> Contents] /\ SectorOf(pos) \in Nat /\ SectorOf(pos) < ASectors
      BY <1>0, <3>1, ErasedType, GoldenBehind
    <3>3. flash' \in TornErase(SectorOf(pos)) \cup TornWrite(m, pos, Line(golden.name, pos))
      BY <2>0, <2>3 DEF Torn
    <3> HIDE DEF m
    <3>4. CASE flash' \in TornErase(SectorOf(pos))
      BY <1>0, <3>2, <3>4, BehindTorn
    <3>5. CASE flash' \in TornWrite(m, pos, Line(golden.name, pos))
      BY <1>0, <3>1, <3>2, <3>5, BehindProgram DEF TornWrite
    <3> QED BY <3>3, <3>4, <3>5
  <2>4. CASE flash' = flash
    BY <1>s, <2>4
  <2> QED BY <2>0, <2>1, <2>2, <2>3, <2>4 DEF Torn
<1> QED BY <1>1, <1>2, <1>3, <1>4
    DEF SwapNext, BootStep, StatusErase, StatusWrite, ReadState, NotPending, Verify, Clear, Boot,
        Digest, NoExtFlash, VerifyFails, Download, ClientCommit, Prepare, StoreRecord, Reset

\* Neither copy, nor what a power failure makes of it, reaches the status
\* sector or the user parameters, if its image fits slot A.
THEOREM SectorsBehindAreKept == SwapSpec => OutsideKept
<1>1. ASSUME SwapInv, [SwapNext]_vars, FittingCopy
      PROVE  \A p \in Lines \ ALines : flash'[p] = flash[p]
  <2>1. CASE SwapNext
    <3>1. BehindKept(flash')
      BY <1>1, <2>1, StepBehind
    <3> QED BY <3>1 DEF BehindKept, Behind
  <2>2. CASE UNCHANGED vars
    BY <2>2 DEF vars
  <2> QED BY <1>1, <2>1, <2>2
<1>2. SwapInv /\ [SwapNext]_vars
        => [FittingCopy => \A p \in Lines \ ALines : flash'[p] = flash[p]]_vars
  BY <1>1
<1>3. OutsideKept <=> [][FittingCopy => \A p \in Lines \ ALines : flash'[p] = flash[p]]_vars
  BY PTL DEF OutsideKept, FittingCopy
<1> QED BY <1>2, <1>3, Invariant, PTL DEF SwapSpec
=============================================================================
