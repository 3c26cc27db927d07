------------------------------ MODULE XcpBoot ------------------------------
(***************************************************************************)
(* The OpenBLT port, openblt_amkn/Boot: its main loop (main.c), the XCP    *)
(* commands that connect, erase, program and start (xcp.c), and the driver *)
(* that gathers what is programmed in blocks (flash.c).                    *)
(*                                                                         *)
(* A unit is as many bytes as one likes; a word is what the flash programs *)
(* at once, 32 bytes; a block is FLASH_WRITE_BLOCK_SIZE.  A command is one *)
(* step: the loop polls and does one thing at a time.  A packet that is    *)
(* lost is one that never came.                                            *)
(***************************************************************************)
EXTENDS Integers, Sequences

CONSTANTS
  WordUnits,    \* units in a flash word
  BlockWords,   \* words in a block
  SectorBlocks, \* blocks in a sector
  AppSectors,   \* sectors of flashLayout
  Units,        \* what a buffer may hold
  Chunks,       \* the data of a PROGRAM command
  Targets,      \* the addresses a master uses
  Lengths,      \* the lengths of a PROGRAM_CLEAR command
  Erased,       \* 0xFF
  Junk,         \* what a failed operation leaves: not what its ECC says
  Noise,        \* what is read of that
  None,         \* no unit
  MaxPrograms,  \* bound on PROGRAM commands
  MaxFaults     \* bound on failed flash operations and on power failures

ASSUME XcpAssumption ==
  /\ WordUnits \in Nat \ {0} /\ BlockWords \in Nat \ {0}
  /\ SectorBlocks \in Nat \ {0} /\ AppSectors \in Nat \ {0}
  /\ Erased \in Units /\ Noise \in Units
  /\ Junk \notin Units /\ None \notin Units \cup {Junk}
  /\ Chunks \subseteq Seq(Units)
  /\ \A d \in Chunks : Len(d) \in 1 .. WordUnits * BlockWords
  /\ Targets \subseteq Nat /\ Lengths \subseteq Nat
  /\ MaxPrograms \in Nat /\ MaxFaults \in Nat

VARIABLES
  flash,      \* the bootloader's sector and those of flashLayout
  boot,       \* bootBlockInfo
  block,      \* blockInfo
  connected,  \* xcpInfo.connected
  mta,        \* xcpInfo.mta
  mode,       \* the bootloader runs, or what it started does
  expired,    \* g_tick has reached BL_INITIAL_TIMEOUT_MS
  resp,       \* the answer to the last command
  zeroEop,    \* whether a word programmed at address 0 reports its end
  acked,      \* history: what was acknowledged since it was cleared, in this session
  tidy,       \* history: the first session since the reset, nothing programmed twice
  programs,   \* number of PROGRAM commands
  faults      \* number of faults

vars == <<flash, boot, block, connected, mta, mode, expired, resp, zeroEop, acked, tidy,
          programs, faults>>

BlockUnits  == WordUnits * BlockWords
SectorUnits == BlockUnits * SectorBlocks
First    == SectorUnits                          \* flashLayout[0].sector_start
Last     == (AppSectors + 1) * SectorUnits - 1   \* FLASH_END_ADDRESS
Cells    == 0 .. Last
AppCells == First .. Last
BlCells  == 0 .. (First - 1)
Offsets  == 0 .. (BlockUnits - 1)
Contents == Units \cup {Junk}

BlockOf(a) == (a \div BlockUnits) * BlockUnits
SectorOf(a) == a \div SectorUnits
NoBase == -1      \* FLASH_INVALID_ADDRESS
Zero   == -2      \* address 0, where blockInfo of the .bss points
Bases  == {NoBase, Zero} \cup {BlockOf(a) : a \in AppCells}
Buffers == [base : Bases, data : [Offsets -> Units]]

\* Mutant: only the end is checked.
EndInRange(a, n) == n > 0 /\ a + n - 1 \in AppCells
\* The range checks of FlashWrite and FlashErase.
InRange(a, n) == n > 0 /\ a \in AppCells /\ a + n - 1 \in AppCells

Answers == {"none", "res", "err"}

XcpTypeOK ==
  /\ flash \in [Cells -> Contents]
  /\ boot \in Buffers /\ block \in Buffers
  /\ connected \in BOOLEAN /\ mta \in Nat
  /\ mode \in {"run", "app"} /\ expired \in BOOLEAN
  /\ resp \in Answers /\ zeroEop \in BOOLEAN
  /\ acked \in [Cells -> Units \cup {None}]
  /\ tidy \in BOOLEAN
  /\ programs \in 0 .. MaxPrograms /\ faults \in 0 .. MaxFaults

----------------------------------------------------------------------------
\* flash.c.  An operation yields a set of results: the flash, what failed.

Covers(b, a) == b.base >= 0 /\ a \in b.base .. (b.base + BlockUnits - 1)
Words == 0 .. (BlockWords - 1)
WordOf(b, a) == (a - b.base) \div WordUnits

\* zflash_write32_checked succeeds on an erased word, and on one that already
\* holds what is written: it is read back.  Junk does not become that.
Takes(f, b, k) ==
  LET W == {a \in AppCells : Covers(b, a) /\ WordOf(b, a) = k} IN
  \/ \A a \in W : f[a] = Erased
  \/ \A a \in W : f[a] = b.data[a - b.base]

\* f with the words of b before the k-th programmed, and the k-th as v says.
Programmed(f, b, k, v) ==
  [a \in Cells |-> CASE Covers(b, a) /\ WordOf(b, a) < k -> b.data[a - b.base]
                     [] Covers(b, a) /\ WordOf(b, a) = k /\ v = "junk" -> Junk
                     [] Covers(b, a) /\ WordOf(b, a) = k /\ v = "done" -> b.data[a - b.base]
                     [] OTHER -> f[a]]

Result(f, ok, fault) == [flash |-> f, ok |-> ok, fault |-> fault]

\* The k-th word fails: by its contents, or by a fault, before it is programmed,
\* during that, or after.
StopAt(f, b, k) ==
  {Result(Programmed(f, b, k, "same"), FALSE, 1), Result(Programmed(f, b, k, "junk"), FALSE, 1)}
    \cup {IF Takes(f, b, k) THEN Result(Programmed(f, b, k, "done"), FALSE, 1)
                            ELSE Result(Programmed(f, b, k, "junk"), FALSE, 0)}

\* FlashWriteBlock stops at the first word that fails.  blockInfo is at address
\* 0 until it was used: FlashInit asks for FLASH_INVALID_ADDRESS, which
\* FlashInitBlock refuses.
FlashWriteBlock(f, b) ==
  IF b.base = Zero THEN {Result(f, zeroEop, 0)}
  ELSE {r \in {Result(Programmed(f, b, BlockWords, "done"), TRUE, 0)} :
          \A w \in Words : Takes(f, b, w)}
       \cup UNION {StopAt(f, b, k) : k \in {n \in Words : \A w \in 0 .. (n - 1) : Takes(f, b, w)}}

\* FlashInitBlock
Read(c) == IF c = Junk THEN Noise ELSE c
Load(f, base) == [base |-> base, data |-> [i \in Offsets |-> Read(f[base + i])]]

Changed(f, b, ok, fault) == [flash |-> f, buf |-> b, ok |-> ok, fault |-> fault]

\* It goes on with the buffer it was given, whichever block comes next.
FlashSwitchBlock(f, b, base) ==
  {Changed(r.flash, IF r.ok THEN Load(r.flash, base) ELSE b, r.ok, r.fault) :
     r \in FlashWriteBlock(f, b)}

Put(b, a, d) ==
  [b EXCEPT !.data = [i \in Offsets |-> IF b.base + i \in a .. (a + Len(d) - 1)
                                          THEN d[b.base + i - a + 1] ELSE @[i]]]
PutInto(c, a, d) == Changed(c.flash, Put(c.buf, a, d), c.ok, c.fault)

\* Mutant: the address is not rounded down to that of its block.
StartUnrounded(f, b, a) ==
  IF b.base = BlockOf(a) THEN {Changed(f, b, TRUE, 0)}
  ELSE IF b.base = NoBase THEN {Changed(f, Load(f, a), TRUE, 0)}
  ELSE FlashSwitchBlock(f, b, BlockOf(a))

Start(f, b, a) ==
  IF b.base = BlockOf(a) THEN {Changed(f, b, TRUE, 0)}
  ELSE IF b.base = NoBase THEN {Changed(f, Load(f, BlockOf(a)), TRUE, 0)}
  ELSE FlashSwitchBlock(f, b, BlockOf(a))

\* The part of the data behind the end of the block, once that is written.
Rest(c, a, d) ==
  IF a + Len(d) <= c.buf.base + BlockUnits THEN {c}
  ELSE {IF s.ok THEN PutInto(s, a, d) ELSE s :
          s \in FlashSwitchBlock(c.flash, c.buf, c.buf.base + BlockUnits)}

FlashAddToBlock(f, b, a, d) ==
  LET Began == Start(f, b, a) IN
  {c \in Began : ~c.ok}
    \cup UNION {Rest(PutInto(c, a, d), a, d) : c \in {x \in Began : x.ok}}

\* Mutant: only the buffer of the first block is written.
FlashDoneBoot ==
  IF boot.base = NoBase THEN {Result(flash, TRUE, 0)} ELSE FlashWriteBlock(flash, boot)
\* FlashDone writes both buffers and forgets neither.
FlashDone ==
  LET One == IF boot.base = NoBase THEN {Result(flash, TRUE, 0)}
                                   ELSE FlashWriteBlock(flash, boot) IN
  {r \in One : ~r.ok}
    \cup UNION {FlashWriteBlock(r.flash, block) : r \in {x \in One : x.ok}}

Sector(s) == {a \in Cells : SectorOf(a) = s}
EraseSectors(f, S) == [a \in Cells |-> IF SectorOf(a) \in S THEN Erased ELSE f[a]]

----------------------------------------------------------------------------
\* xcp.c: the commands, of which all but CONNECT need a connection.

NoAck == [a \in Cells |-> None]

\* NvmInit drops the buffer of the first block, and keeps the other.
XcpCmdConnect ==
  /\ mode = "run"
  /\ connected' = TRUE
  /\ boot' = [boot EXCEPT !.base = NoBase]
  /\ resp' = "res"
  /\ acked' = NoAck
  /\ tidy' = (block.base = Zero /\ boot.base = NoBase)
  /\ UNCHANGED <<flash, block, mta, mode, expired, zeroEop, programs, faults>>

Session == mode = "run" /\ connected

XcpCmdDisconnect ==
  /\ Session
  /\ connected' = FALSE
  /\ resp' = "res"
  /\ UNCHANGED <<flash, boot, block, mta, mode, expired, zeroEop, acked, tidy, programs,
                 faults>>

\* SHORT_UPLOAD, UPLOAD and GET_ID leave the address somewhere, too.
XcpCmdSetMta(a) ==
  /\ Session
  /\ mta' = a
  /\ resp' = "res"
  /\ UNCHANGED <<flash, boot, block, connected, mode, expired, zeroEop, acked, tidy,
                 programs, faults>>

Refuse ==
  /\ resp' = "err" /\ tidy' = FALSE
  /\ UNCHANGED <<flash, boot, block, mta, acked, faults>>

\* The result of an erase is not looked at.
XcpCmdProgramClear(n) ==
  /\ Session
  /\ \/ ~InRange(mta, n) /\ Refuse
     \/ /\ InRange(mta, n)
        /\ LET S == SectorOf(mta) .. SectorOf(mta + n - 1)
               full == EraseSectors(flash, S)
           IN
             /\ \/ flash' = full /\ faults' = faults
                \/ /\ faults < MaxFaults /\ faults' = faults + 1
                   /\ \E s \in S, v \in {"same", "junk"} :
                        flash' = [a \in Cells |-> IF SectorOf(a) # s THEN full[a]
                                  ELSE IF v = "same" THEN flash[a] ELSE Junk]
             /\ acked' = [a \in Cells |-> IF SectorOf(a) \in S THEN None ELSE acked[a]]
             /\ tidy' = (tidy /\ acked = NoAck)
        /\ resp' = "res"
        /\ UNCHANGED <<boot, block, mta>>
  /\ UNCHANGED <<connected, mode, expired, zeroEop, programs>>

\* PROGRAM, and PROGRAM_MAX, whose data is as long as it may be.
XcpCmdProgram(d) ==
  LET put == mta .. (mta + Len(d) - 1) IN
  /\ Session /\ programs < MaxPrograms
  /\ programs' = programs + 1
  /\ \/ ~InRange(mta, Len(d)) /\ Refuse
     \/ /\ InRange(mta, Len(d))
        /\ LET inFirst == BlockOf(mta) = First IN
             \E c \in FlashAddToBlock(flash, IF inFirst THEN boot ELSE block, mta, d) :
               /\ faults + c.fault <= MaxFaults /\ faults' = faults + c.fault
               /\ flash' = c.flash
               /\ boot' = IF inFirst THEN c.buf ELSE boot
               /\ block' = IF inFirst THEN block ELSE c.buf
               /\ resp' = IF c.ok THEN "res" ELSE "err"
               /\ mta' = IF c.ok THEN mta + Len(d) ELSE mta
               /\ acked' = [a \in Cells |-> IF a \notin put THEN acked[a]
                                            ELSE IF c.ok THEN d[a - mta + 1] ELSE None]
        /\ tidy' = (tidy /\ \A a \in put : flash[a] = Erased /\ acked[a] = None)
  /\ UNCHANGED <<connected, mode, expired, zeroEop>>

\* PROGRAM with no data: NvmDone.
ProgramEnd ==
  /\ Session
  /\ \E r \in FlashDone :
       /\ faults + r.fault <= MaxFaults /\ faults' = faults + r.fault
       /\ flash' = r.flash
       /\ resp' = IF r.ok THEN "res" ELSE "err"
  /\ UNCHANGED <<boot, block, connected, mta, mode, expired, zeroEop, acked, tidy, programs>>

\* CpuStartUserProgram: both hooks say TRUE, so it does not come back.
XcpCmdProgramReset ==
  /\ Session
  /\ mode' = "app" /\ connected' = FALSE
  /\ UNCHANGED <<flash, boot, block, mta, expired, resp, zeroEop, acked, tidy, programs, faults>>

----------------------------------------------------------------------------
\* main.c, and power.

Expire ==
  /\ mode = "run" /\ ~expired
  /\ expired' = TRUE
  /\ UNCHANGED <<flash, boot, block, connected, mta, mode, resp, zeroEop, acked, tidy,
                 programs, faults>>

\* Mutant: not while a write is pending.
StartAppIdle ==
  /\ mode = "run" /\ expired /\ ~connected /\ boot.base = NoBase
  /\ mode' = "app"
  /\ UNCHANGED <<flash, boot, block, connected, mta, expired, resp, zeroEop, acked, tidy,
                 programs, faults>>

StartApp ==
  /\ mode = "run" /\ expired /\ ~connected
  /\ mode' = "app"
  /\ UNCHANGED <<flash, boot, block, connected, mta, expired, resp, zeroEop, acked, tidy,
                 programs, faults>>

NoData == [i \in Offsets |-> Erased]

\* A reset, by what was started or by the power.
Reset ==
  /\ \/ mode = "app" /\ faults' = faults
     \/ mode = "run" /\ faults < MaxFaults /\ faults' = faults + 1
  /\ boot' = [base |-> NoBase, data |-> NoData]
  /\ block' = [base |-> Zero, data |-> NoData]
  /\ connected' = FALSE /\ mta' = 0
  /\ mode' = "run" /\ expired' = FALSE /\ resp' = "none"
  /\ acked' = NoAck /\ tidy' = FALSE
  /\ UNCHANGED <<flash, zeroEop, programs>>

XcpNext ==
  \/ XcpCmdConnect \/ XcpCmdDisconnect
  \/ \E a \in Targets : XcpCmdSetMta(a)
  \/ \E n \in Lengths : XcpCmdProgramClear(n)
  \/ \E d \in Chunks : XcpCmdProgram(d)
  \/ ProgramEnd \/ XcpCmdProgramReset
  \/ Expire \/ StartApp \/ Reset

XcpInit ==
  /\ flash \in [Cells -> Contents]
  /\ boot = [base |-> NoBase, data |-> NoData]
  /\ block = [base |-> Zero, data |-> NoData]
  /\ connected = FALSE /\ mta = 0
  /\ mode = "run" /\ expired = FALSE /\ resp = "none"
  /\ zeroEop \in BOOLEAN
  /\ acked = NoAck /\ tidy = FALSE
  /\ programs = 0 /\ faults = 0

XcpSpec == XcpInit /\ [][XcpNext]_vars
\* The loop goes round, and its counter with it.
XcpFairness == WF_vars(Expire) /\ WF_vars(StartApp)

----------------------------------------------------------------------------
\* A positive answer to the end of programming means that everything
\* acknowledged since it was cleared is in the flash, whichever buffer it went
\* through and whatever failed before (flash.c:321, xcp.c:1451).  Except 0xFF:
\* over something else that another buffer still holds it is lost.
DoneMeansWritten ==
  [][ ProgramEnd /\ resp' = "res" =>
        \A a \in Cells : acked[a] \in {None, Erased, flash'[a]} ]_vars

\* The sector of the bootloader is never erased or programmed, wherever the
\* address is, and across the end of a block (flash.c:172, :184).
BootloaderStands == [][ \A a \in BlCells : flash'[a] = flash[a] ]_vars

\* Without a master the application is started: the window ends, also when
\* a session ended after it (main.c:101).
LeftAloneStarts == []<>(connected \/ mode = "app")

\* A session that programs what is erased, once, without a fault, is answered
\* positively to its end (tools/xcp_flash.py:5), on a chip that takes the
\* word at address 0.
UndisturbedProgramSucceeds == tidy /\ faults = 0 /\ zeroEop => resp # "err"
=============================================================================
