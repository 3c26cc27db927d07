------------------------------ MODULE SwapBoot ------------------------------
(***************************************************************************)
(* The image bootloader, bootloader_v2/bootloader_v2.c: from a reset to    *)
(* the start of the application.  It looks for an upgrade record in the    *)
(* status sector, checks the image in slot B of the SPI flash, copies it   *)
(* over slot A, and falls back on the golden image.                        *)
(*                                                                         *)
(* A line is what flash_write256 programs, eight words.  The flash is slot *)
(* A, the status sector and the sector of user parameters behind it; the   *)
(* reserved sector after them is left out.  The type ota_state_t and the   *)
(* magics are in none of the files the bootloader includes: the record is  *)
(* taken to be ota_status_t of flash_map.h, which is 56 bytes, two lines;  *)
(* recLines = 1 is a record that fits the line that is written of it.      *)
(***************************************************************************)
EXTENDS Integers

CONSTANTS
  SectorLines,   \* lines in a sector
  ASectors,      \* sectors of slot A
  LineUnits,     \* units of size in a line, 32 bytes
  Images,        \* what slot B or the golden slot may hold
  App,           \* a bare application, its vectors first
  AppLines,      \* its length
  AllOnes,       \* 0xFFFFFFFF, the counter of a cleared record
  Erased,        \* a line of 0xFF
  Junk,          \* what programming twice, or a reset, leaves in a line
  MaxFaults      \* bound on power failures and on chips that do not answer

\* An image: its size with the header; its version; whether the header is
\* well formed; whether a digest is found in it.
ASSUME SwapAssumption ==
  /\ SectorLines \in Nat \ {0} /\ ASectors \in Nat \ {0}
  /\ LineUnits \in Nat \ {0} /\ AllOnes \in Nat
  /\ \A i \in Images : i \in [name : {i.name}, total : Nat \ {0}, ver : Nat,
                              header : BOOLEAN, digest : BOOLEAN]
  /\ \A i \in Images : i.name # App /\ i.ver < AllOnes
  /\ AppLines \in 1 .. ASectors * SectorLines
  /\ MaxFaults \in Nat

VARIABLES
  flash,     \* slot A, the status sector, the user parameters
  slotB,     \* the image in slot B
  golden,    \* the image in the golden slot
  recLines,  \* lines an upgrade record takes
  pc,        \* where the bootloader is
  g,         \* g_otaState
  job,       \* the record being saved, and where that leads
  pos,       \* sector or line that is next
  faults,    \* number of faults
  firstCut   \* history: an erase of the sector of the vectors was cut short

vars == <<flash, slotB, golden, recLines, pc, g, job, pos, faults, firstCut>>

StatusLine == ASectors * SectorLines
LastLine   == (ASectors + 2) * SectorLines - 1
Lines      == 0 .. LastLine
ALines     == 0 .. (StatusLine - 1)
SectorOf(p) == p \div SectorLines

\* Mutant: the offset into the image is a line ahead.
LineAhead(x, i) == [of |-> x, line |-> i + 1]
Line(x, i) == [of |-> x, line |-> i]
Fill(m, s, v) == [p \in Lines |-> IF SectorOf(p) = s THEN v ELSE m[p]]
\* Programming clears bits: only an erased line takes what is written.
Program(m, p, x) == [m EXCEPT ![p] = IF @ \in {Erased, x} THEN x ELSE Junk]

Counters == {i.ver : i \in Images} \cup {0, AllOnes}
States   == {"idle", "copying", "verifying", "done", "erased"}
Records  == [magic : {"flag", "none"}, status : States, sec : Counters, crc : BOOLEAN]
Record(magic, status, sec, crc) ==
  [magic |-> magic, status |-> status, sec |-> sec, crc |-> crc]

\* What ota_state_clear_internal stores.
Cleared == Record("none", "idle", AllOnes, TRUE)
NoJob   == [rec |-> Cleared, then |-> "boot"]
\* What ota_step_commit of the network client stores: the self-check of the
\* record is the checksum of the image, the other fields stay erased.
ClientRecord == Record("flag", "erased", AllOnes, FALSE)

ASSUME LineAssumption ==
  Erased # Junk /\ {Erased, Junk} \cap (Records \cup {Line(App, 0)}) = {}

Pending(s) == s \in Records /\ s.magic = "flag" /\ s.crc
Garbled(s) == ~(s \in Records /\ (s.magic = "flag" => s.crc))

HasHeader(c) == \E i \in Images : i.header /\ c = Line(i.name, 0)
\* A digest in the header is of the header too: no image has the right one.
Acceptable(i, sec) == i.header /\ i.ver >= sec /\ ~i.digest

\* Mutant: a sector more than the image needs.
SectorsOfAndOne(total) == total \div (SectorLines * LineUnits) + 1
\* (total+FLASH_SECTOR_SIZE-1)/FLASH_SECTOR_SIZE
SectorsOf(total) == (total + SectorLines * LineUnits - 1) \div (SectorLines * LineUnits)
\* remaining counts down by a line, modulo 2^32: it is 0 here or never.
Copied(total) == pos * LineUnits = total

Fit(i) == i.total % LineUnits = 0 /\ i.total <= StatusLine * LineUnits
Holds(i) == \A p \in ALines : p * LineUnits < i.total => flash[p] = Line(i.name, p)
\* The application, but for what a cut erase of its first sector took away.
Whole ==
  \A p \in 0 .. (AppLines - 1) :
    \/ flash[p] = Line(App, p)
    \/ firstCut /\ SectorOf(p) = 0 /\ flash[p] \in {Erased, Junk}

InBoot == {"reset", "idle", "verify", "erase", "write", "clear", "swapErase", "copy",
           "digest", "golden", "boot"}

SwapTypeOK ==
  /\ flash \in [Lines -> {Erased, Junk} \cup Records
                 \cup [of : {App} \cup {i.name : i \in Images}, line : Lines]]
  /\ slotB \in Images /\ golden \in Images
  /\ recLines \in {1, 2}
  /\ pc \in InBoot \cup {"app", "stuck"}
  /\ g \in Records
  /\ job \in [rec : Records, then : {"boot", "idle", "swapErase", "digest", "clear"}]
  /\ pos \in Nat
  /\ faults \in 0 .. MaxFaults
  /\ firstCut \in BOOLEAN

----------------------------------------------------------------------------
\* ota_state_save_status, ota_state_clear_internal: an erase, then a write.

Save(status, then) ==
  /\ g' = [g EXCEPT !.status = status, !.crc = TRUE]
  /\ job' = [rec |-> g', then |-> then]
  /\ pc' = "erase"

ClearThen(then) ==
  /\ g' = Cleared
  /\ job' = [rec |-> Cleared, then |-> then]
  /\ pc' = "erase"

\* flash_write256 writes a line of the record: if it is longer, the
\* self-check at its end stays erased.
Stored == IF job.rec.magic = "flag" THEN [job.rec EXCEPT !.crc = (recLines = 1)] ELSE job.rec

StatusErase ==
  /\ pc = "erase"
  /\ flash' = Fill(flash, ASectors, Erased)
  /\ pc' = "write"
  /\ UNCHANGED <<slotB, golden, recLines, g, job, pos, faults, firstCut>>

\* Mutant: the record is stored as that of another state.
StatusWriteLate ==
  /\ pc = "write"
  /\ flash' = Program(flash, StatusLine,
                      [Stored EXCEPT !.status = IF @ = "copying" THEN "verifying" ELSE @])
  /\ pc' = job.then
  /\ pos' = 0
  /\ UNCHANGED <<slotB, golden, recLines, g, job, faults, firstCut>>

StatusWrite ==
  /\ pc = "write"
  /\ flash' = Program(flash, StatusLine, Stored)
  /\ pc' = job.then
  /\ pos' = 0
  /\ UNCHANGED <<slotB, golden, recLines, g, job, faults, firstCut>>

----------------------------------------------------------------------------
\* Reset_Handler.

\* boot_slot_a: only a bare application has a stack pointer first.
Started == IF flash[0] = Line(App, 0) THEN "app" ELSE "stuck"

\* w25q_init or flash_unlock_regs fails.
NoExtFlash ==
  /\ pc = "reset" /\ faults < MaxFaults
  /\ pc' = Started
  /\ faults' = faults + 1
  /\ UNCHANGED <<flash, slotB, golden, recLines, g, job, pos, firstCut>>

\* ota_state_init.  Reading a torn line may be a bus fault; an erased record
\* is OTA_MAGIC_NONE or not, whatever that is.
ReadState ==
  /\ pc = "reset"
  /\ LET saved == flash[StatusLine] IN
       \/ Pending(saved) /\ g' = saved /\ pc' = "verify" /\ job' = job
       \/ Garbled(saved) /\ ClearThen("idle")
       \/ saved = Junk /\ pc' = "stuck" /\ UNCHANGED <<g, job>>
       \/ /\ saved = Erased \/ (saved \in Records /\ saved.magic = "none")
          /\ g' = Cleared /\ pc' = "idle" /\ job' = job
  /\ UNCHANGED <<flash, slotB, golden, recLines, pos, faults, firstCut>>

NotPending ==
  /\ pc = "idle"
  /\ \/ HasHeader(flash[0]) /\ pc' = Started
     \/ flash[0] = Junk /\ pc' = "stuck"
     \/ ~HasHeader(flash[0]) /\ pc' = IF golden.header THEN "golden" ELSE "stuck"
  /\ pos' = 0
  /\ UNCHANGED <<flash, slotB, golden, recLines, g, job, faults, firstCut>>

\* verify_slot_b, and the switch over the saved state.
Verify ==
  /\ pc = "verify"
  /\ \/ /\ ~Acceptable(slotB, g.sec) \/ g.status = "done"
        /\ pc' = "clear" /\ UNCHANGED <<g, job>>
     \/ Acceptable(slotB, g.sec) /\ g.status = "verifying" /\ Save("done", "clear")
     \/ /\ Acceptable(slotB, g.sec) /\ g.status \notin {"verifying", "done"}
        /\ Save("copying", "swapErase")
  /\ UNCHANGED <<flash, slotB, golden, recLines, pos, faults, firstCut>>

\* w25q_read looks at no answer: a chip that gives none fails the test.
VerifyFails ==
  /\ pc = "verify" /\ faults < MaxFaults
  /\ pc' = "clear"
  /\ faults' = faults + 1
  /\ UNCHANGED <<flash, slotB, golden, recLines, g, job, pos, firstCut>>

\* Mutant: and tries again.
ClearAgain ==
  /\ pc = "clear"
  /\ ClearThen("clear")
  /\ UNCHANGED <<flash, slotB, golden, recLines, pos, faults, firstCut>>

Clear ==
  /\ pc = "clear"
  /\ ClearThen("boot")
  /\ UNCHANGED <<flash, slotB, golden, recLines, pos, faults, firstCut>>

Boot ==
  /\ pc = "boot"
  /\ pc' = Started
  /\ UNCHANGED <<flash, slotB, golden, recLines, g, job, pos, faults, firstCut>>

----------------------------------------------------------------------------
\* swap_b_to_a.

\* Mutant: the sectors are erased from the last one down.
SwapEraseDown ==
  /\ pc = "swapErase"
  /\ IF pos < SectorsOf(slotB.total)
       THEN /\ flash' = Fill(flash, SectorsOf(slotB.total) - 1 - pos, Erased)
            /\ pos' = pos + 1 /\ pc' = pc
       ELSE flash' = flash /\ pos' = 0 /\ pc' = "copy"
  /\ UNCHANGED <<slotB, golden, recLines, g, job, faults, firstCut>>

SwapErase ==
  /\ pc = "swapErase"
  /\ IF pos < SectorsOf(slotB.total)
       THEN flash' = Fill(flash, pos, Erased) /\ pos' = pos + 1 /\ pc' = pc
       ELSE flash' = flash /\ pos' = 0 /\ pc' = "copy"
  /\ UNCHANGED <<slotB, golden, recLines, g, job, faults, firstCut>>

\* A line of the copy.  Past the end of the flash the write is a bus fault.
CopyLine ==
  /\ pc = "copy"
  /\ \/ /\ Copied(slotB.total)
        /\ Save("verifying", "digest")
        /\ UNCHANGED <<flash, pos>>
     \/ /\ ~Copied(slotB.total) /\ pos \in Lines
        /\ flash' = Program(flash, pos, Line(slotB.name, pos))
        /\ pos' = pos + 1
        /\ UNCHANGED <<pc, g, job>>
     \/ /\ ~Copied(slotB.total) /\ pos \notin Lines
        /\ pc' = "stuck"
        /\ UNCHANGED <<flash, pos, g, job>>
  /\ UNCHANGED <<slotB, golden, recLines, faults, firstCut>>

\* The digest of slot A is printed and compared with nothing.
Digest ==
  /\ pc = "digest"
  /\ Save("done", "clear")
  /\ UNCHANGED <<flash, slotB, golden, recLines, pos, faults, firstCut>>

\* Mutant: the last sector of slot A is left out.
GoldenErasedButLast ==
  IF pos % SectorLines = 0 /\ SectorOf(pos) < ASectors - 1
    THEN Fill(flash, SectorOf(pos), Erased) ELSE flash

\* try_golden_recovery: a sector of slot A is erased when its first line is next.
GoldenErased == IF pos % SectorLines = 0 /\ SectorOf(pos) < ASectors
                  THEN Fill(flash, SectorOf(pos), Erased) ELSE flash

GoldenLine ==
  /\ pc = "golden"
  /\ \/ Copied(golden.total) /\ pc' = "boot" /\ UNCHANGED <<flash, pos>>
     \/ /\ ~Copied(golden.total) /\ pos \in Lines
        /\ flash' = Program(GoldenErased, pos, Line(golden.name, pos))
        /\ pos' = pos + 1 /\ pc' = pc
     \/ ~Copied(golden.total) /\ pos \notin Lines /\ pc' = "stuck" /\ UNCHANGED <<flash, pos>>
  /\ UNCHANGED <<slotB, golden, recLines, g, job, faults, firstCut>>

----------------------------------------------------------------------------
\* The application, and power.

\* It downloads an image into slot B; the network client may then commit it.
Download(i) ==
  /\ pc = "app"
  /\ slotB' = i
  /\ UNCHANGED <<flash, golden, recLines, pc, g, job, pos, faults, firstCut>>

StoreRecord(rec) ==
  /\ pc = "app"
  /\ flash' = [Fill(flash, ASectors, Erased) EXCEPT ![StatusLine] = rec]
  /\ UNCHANGED <<slotB, golden, recLines, pc, g, job, pos, faults, firstCut>>

ClientCommit == StoreRecord(ClientRecord)
\* An application that fills in the record as flash_map.h describes it.
Prepare == \E sec \in Counters : StoreRecord(Record("flag", "idle", sec, TRUE))

Reset ==
  /\ pc \in {"app", "stuck"}
  /\ pc' = "reset"
  /\ g' = Cleared /\ job' = NoJob /\ pos' = 0
  /\ UNCHANGED <<flash, slotB, golden, recLines, faults, firstCut>>

\* What an operation cut short leaves.  An erase: every line of the sector as
\* it was, erased, or garbage; a write: the line as it was, written, or garbage.
TornErase(s) ==
  {[p \in Lines |-> IF SectorOf(p) # s \/ p \in kept THEN flash[p]
                    ELSE IF p \in blank THEN Erased ELSE Junk] :
     kept, blank \in SUBSET {p \in Lines : SectorOf(p) = s}}
TornWrite(m, p, x) == {m, Program(m, p, x), [m EXCEPT ![p] = Junk]}

Torn ==
  CASE pc = "erase" -> TornErase(ASectors)
    [] pc = "write" -> TornWrite(flash, StatusLine, Stored)
    [] pc = "swapErase" /\ pos < SectorsOf(slotB.total) -> TornErase(pos)
    [] pc = "copy" /\ ~Copied(slotB.total) /\ pos \in Lines ->
         TornWrite(flash, pos, Line(slotB.name, pos))
    [] pc = "golden" /\ ~Copied(golden.total) /\ pos \in Lines ->
         (IF GoldenErased = flash THEN {} ELSE TornErase(SectorOf(pos)))
           \cup TornWrite(GoldenErased, pos, Line(golden.name, pos))
    [] OTHER -> {flash}

PowerFail ==
  /\ pc \in InBoot /\ faults < MaxFaults
  /\ flash' \in Torn
  /\ pc' = "reset"
  /\ g' = Cleared /\ job' = NoJob /\ pos' = 0
  /\ faults' = faults + 1
  /\ firstCut' = (firstCut \/ (pc \in {"swapErase", "golden"} /\ pos = 0))
  /\ UNCHANGED <<slotB, golden, recLines>>

BootStep ==
  \/ ReadState \/ NotPending \/ Verify \/ Clear \/ Boot
  \/ StatusErase \/ StatusWrite
  \/ SwapErase \/ CopyLine \/ Digest \/ GoldenLine

SwapNext ==
  \/ BootStep
  \/ NoExtFlash \/ VerifyFails
  \/ \E i \in Images : Download(i)
  \/ ClientCommit \/ Prepare
  \/ Reset \/ PowerFail

\* Slot A holds the application, which runs or not yet, what is in the slots
\* of the SPI flash is anything, and nothing was ever saved.
SwapInit ==
  /\ flash = [p \in Lines |-> IF p < AppLines THEN Line(App, p) ELSE Erased]
  /\ slotB \in Images /\ golden \in Images
  /\ recLines \in {1, 2}
  /\ pc \in {"reset", "app"} /\ g = Cleared /\ job = NoJob /\ pos = 0
  /\ faults = 0 /\ firstCut = FALSE

SwapSpec == SwapInit /\ [][SwapNext]_vars
\* The bootloader waits for nothing but its own operations.
SwapFairness == WF_vars(BootStep)

----------------------------------------------------------------------------
\* What is started is the application, never what an interrupted copy left of
\* one: the copies begin with the sector of the vectors (bootloader_v2.c:432,
\* :505), so a torn slot A has none.  But while that sector itself is erased:
\* if the power fails there, the vectors may still read, and if then the SPI
\* flash does not answer (:550, :570), the test of SP and PC (:480) lets the
\* application run without what the erase took from the first sector; the
\* other sectors are whole even then.
StartedIsWhole == pc = "app" => Whole

\* A boot that finds VERIFYING or DONE skips the copy (bootloader_v2.c:574):
\* it may, slot A then holds the image of slot B, if that fits slot A.
VerifyingMeansCopied ==
  LET saved == flash[StatusLine] IN
  saved \in Records /\ saved.magic = "flag" /\ saved.status \in {"verifying", "done"}
    /\ Fit(slotB) => Holds(slotB)

\* Neither copy touches anything behind slot A, whatever is cut short, if the
\* size of its image is a multiple of a line and fits slot A
\* (bootloader_v2.c:430, :444, :507).
OutsideKept ==
  [][ \/ pc \in {"swapErase", "copy"} /\ Fit(slotB)
      \/ pc = "golden" /\ Fit(golden)
      => \A p \in Lines \ ALines : flash'[p] = flash[p] ]_vars

\* A recovery that ends leaves the golden image in slot A: each sector is
\* erased before its first line, and not again (bootloader_v2.c:504).
RecoveredIsGolden ==
  [][ pc = "golden" /\ pc' = "boot" /\ Fit(golden) => Holds(golden) ]_vars

\* Every boot ends in the application or in one of the endless loops.
BootEnds == pc \in InBoot ~> pc \in {"app", "stuck"}

\* A committed image is what the next boot looks at (ota_client.h:46).
CommitIsPending ==
  [][ ReadState /\ flash[StatusLine] = ClientRecord => pc' = "verify" ]_vars
=============================================================================
