------------------------------ MODULE FlashMem ------------------------------
(***************************************************************************)
(* The internal flash of the STM32H743 as bootloader/bootloader.c uses it: *)
(* sector 0 holds the bootloader, the sectors after it the application,    *)
(* the last one is BL_TEMP, where a new bootloader waits to be installed.  *)
(* A cell is one 32-bit word; sectors are SectorWords cells long (32768 in *)
(* the device).  What a word says is a model value; the one value with a   *)
(* meaning of its own is Erased, the word 0xFFFFFFFF.                      *)
(***************************************************************************)
EXTENDS Integers, Sequences

CONSTANTS
  SectorWords,    \* words in a sector
  AppSectors,     \* sectors of the application area, between sector 0 and BL_TEMP
  Words,          \* the words a packet or an image may hold, Erased included
  Erased,         \* 0xFFFFFFFF
  Junk,           \* what an interrupted or failed operation leaves in a cell
  ValidVectors,   \* first words of an application that pass the SP/PC test
  BlImages        \* complete bootloaders: the contents sector 0 can run from

ASSUME FlashAssumption ==
  /\ SectorWords \in Nat \ {0}
  /\ AppSectors \in Nat \ {0}
  /\ Erased \in Words
  /\ Junk \notin Words
  /\ ValidVectors \subseteq Words \ {Erased}

NSectors == AppSectors + 2
Cells    == 0 .. (NSectors * SectorWords - 1)
BlCells  == 0 .. (SectorWords - 1)
AppBase  == SectorWords                          \* 0x08020000
BlTemp   == (AppSectors + 1) * SectorWords       \* 0x081E0000

BlImagesAssumption == BlImages \subseteq [BlCells -> Words]
ASSUME BlImagesAssumption

Contents == Words \cup {Junk}
Memory   == [Cells -> Contents]

\* flash_erase_safe: sector = (addr - 0x08000000) >> 17
SectorOf(addr) == addr \div SectorWords

\* Mutant: sectors counted from the application's first one.
SectorCellsFromApp(addr) == {c \in Cells : SectorOf(c) = SectorOf(addr) - 1}

\* The cells of the sector that holds addr.
SectorCells(addr) == {c \in Cells : SectorOf(c) = SectorOf(addr)}

\* The memory m with every cell of C set to v.
Fill(m, C, v) == [c \in Cells |-> IF c \in C THEN v ELSE m[c]]

\* What an erase cut short, or reported as failed, may leave in the cells C:
\* each of them as it was, erased, or garbage.
TornErase(m, C) ==
  {[c \in Cells |-> IF c \notin C \/ c \in kept THEN m[c]
                    ELSE IF c \in blank THEN Erased ELSE Junk] :
     kept, blank \in SUBSET C}

\* What programming the word w into cell c, cut short or failed, may leave.
TornWrite(m, c, w) == {[m EXCEPT ![c] = v] : v \in {m[c], w, Junk}}

\* Programming only clears bits: the word read back is the one written when
\* the cell was erased, or already held it.
Programmable(m, c, w) == m[c] \in {Erased, w}

\* The SP/PC test of Reset_Handler on the first words of the application.
AppValid(m) == m[AppBase] \in ValidVectors

\* The bootloader in sector 0 is complete.
BlRunnable(m) == [c \in BlCells |-> m[c]] \in BlImages

\* The image img stands at base.
Holds(m, base, img) == \A i \in 1..Len(img) : m[base + i - 1] = img[i]
=============================================================================
