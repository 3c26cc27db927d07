----------------------------- MODULE Bootloader -----------------------------
(***************************************************************************)
(* The bootloader of the AMKN8639 board, bootloader/bootloader.c: the boot *)
(* decision of Reset_Handler, the XCP-lite command loop and the            *)
(* self-upgrade, with the serial line it listens to, the reset that may    *)
(* cut any of it short and the application's two requests.                 *)
(*                                                                         *)
(* One action is one handler, or one step of a handler that touches the    *)
(* flash: a reset between two flash operations leaves what the first did.  *)
(* The line carries whole frames.  recv_pkt has no receive FIFO behind it, *)
(* so a frame that arrives while the bootloader is busy is lost but for    *)
(* its first byte, which recv_pkt later takes for the start of a frame.    *)
(***************************************************************************)
EXTENDS FlashMem

CONSTANTS
  ReturnCell,   \* cell of sector 0 that holds the caller of bl_upgrade_sram
  MaxFaults,    \* bound on faults: resets, losses, flash failures
  MaxAcks       \* bound on the answers waiting for the host

\* Code is not erased words.
ASSUME CodeAssumption == \A b \in BlImages : b[ReturnCell] # Erased

ASSUME BoundsAssumption ==
  /\ ReturnCell \in BlCells
  /\ MaxFaults \in Nat
  /\ MaxAcks \in Nat \ {0}

VARIABLES
  mem,      \* the internal flash
  bkp,      \* RTC_BKP0R, survives a reset if VBAT is supplied
  mode,     \* what the processor runs
  bootBkp,  \* Reset_Handler's local bkp: the register as read at boot
  appok,    \* Reset_Handler's local: APP passed the SP/PC test at boot
  apc,      \* Reset_Handler's local: APP entry point read at boot
  entry,    \* the entry point boot_app jumped to
  job,      \* the command being executed
  rx,       \* "stray": recv_pkt holds a start byte no frame will complete
  toBl,     \* frame on the line towards the board
  toHost,   \* acknowledgement statuses the host has not read
  faults    \* number of faults so far

devVars  == <<mem, bkp, mode, bootBkp, appok, apc, entry, job, rx>>
blVars   == <<devVars, toBl, toHost, faults>>

Magics == {"none", "ENTER_XCP", "UPGRADE_BL", "UPGRADED_OK"}
Modes  == {"reset", "upgrade", "check", "window", "xcp", "app", "hang"}
Ops    == {"none", "erase", "write", "boot", "upgErase", "upgCopy"}
Status == {0, 1, 254, 255}

\* Frames, and what is none: a lone 0xAA, a lone byte that begins no frame, and
\* the two AT commands the application understands.
XcpCmds == {"erase", "write", "boot", "info", "led", "unknown", "short"}
Texts   == {"at", "atbl"}
Frame(cmd, addr, data) == [cmd |-> cmd, addr |-> addr, data |-> data]
Bare(cmd)  == Frame(cmd, 0, <<>>)
NoFrame    == Bare("none")
StartByte  == Bare("aa")
OtherByte  == Bare("55")
Frames == [cmd : XcpCmds \cup Texts \cup {"none", "aa", "55"}, addr : Cells, data : Seq(Words)]

Job(op, addr, data) == [op |-> op, addr |-> addr, data |-> data, pos |-> 0]
NoJob == Job("none", 0, <<>>)
Jobs  == [op : Ops, addr : Cells, data : Seq(Words), pos : Nat]

TypeOK ==
  /\ mem \in Memory
  /\ bkp \in Magics /\ bootBkp \in Magics
  /\ mode \in Modes
  /\ appok \in BOOLEAN
  /\ apc \in Contents /\ entry \in Contents
  /\ job \in Jobs
  /\ rx \in {"idle", "stray"}
  /\ toBl \in Frames
  /\ toHost \in Seq(Status)
  /\ faults \in 0 .. MaxFaults

Init ==
  /\ mem \in Memory /\ BlRunnable(mem)
  /\ bkp = "none" /\ bootBkp = "none"
  /\ mode = "reset"
  /\ appok = FALSE /\ apc = Erased /\ entry = Erased
  /\ job = NoJob
  /\ rx = "idle"
  /\ toBl = NoFrame
  /\ toHost = <<>>
  /\ faults = 0

Fault == faults < MaxFaults /\ faults' = faults + 1

-----------------------------------------------------------------------------
(* Reset and boot. *)

\* What a reset does to the core and its peripherals; RAM is not kept.
Restart ==
  /\ mode' = "reset"
  /\ job' = NoJob
  /\ rx' = "idle"
  /\ bootBkp' = "none" /\ appok' = FALSE /\ apc' = Erased /\ entry' = Erased

\* The flash after a reset in the middle of the current job.
TornMemory ==
  CASE job.op = "erase"    -> TornErase(mem, SectorCells(job.addr))
    [] job.op = "upgErase" -> TornErase(mem, BlCells)
    [] job.op = "write" /\ job.pos < Len(job.data) ->
         TornWrite(mem, job.addr + job.pos, job.data[job.pos + 1])
    [] job.op = "upgCopy" /\ job.pos < SectorWords ->
         TornWrite(mem, job.pos, mem[BlTemp + job.pos])
    [] OTHER -> {mem}

\* Power loss or the reset button.  Without VBAT the backup register is lost.
Reset ==
  /\ mem' \in TornMemory
  /\ bkp' \in {bkp, "none"}
  /\ Restart
  /\ UNCHANGED <<toBl, toHost>>

PowerFail == Fault /\ Reset

\* Reset_Handler from the read of RTC_BKP0R to the self-upgrade.  A sector 0
\* that is not a complete bootloader does not get that far.
BootStart ==
  /\ mode = "reset"
  /\ IF BlRunnable(mem)
       THEN /\ bootBkp' = bkp
            /\ bkp' = IF bkp \in {"UPGRADED_OK", "UPGRADE_BL"} THEN "none" ELSE bkp
            /\ IF bkp = "UPGRADE_BL"
                 THEN mode' = "upgrade" /\ job' = Job("upgErase", 0, <<>>)
                 ELSE mode' = "check" /\ UNCHANGED job
       ELSE mode' = "hang" /\ UNCHANGED <<bootBkp, bkp, job>>
  /\ UNCHANGED <<mem, appok, apc, entry, rx, toBl, toHost, faults>>

\* The SP/PC test, made once, and the decision to wait for a byte.
CheckApp ==
  /\ mode = "check"
  /\ appok' = AppValid(mem)
  /\ apc' = mem[AppBase]
  /\ IF bootBkp = "ENTER_XCP"
       THEN bkp' = "none" /\ mode' = "xcp"
       ELSE mode' = "window" /\ UNCHANGED bkp
  /\ UNCHANGED <<mem, bootBkp, entry, job, rx, toBl, toHost, faults>>

\* boot_app: the receiver is switched off and control goes to pc.
BootApp(pc) ==
  /\ mode' = "app"
  /\ entry' = pc
  /\ rx' = "idle"

\* Mutant: "if(!appok) xcp=1" is missing.
WindowExpireStays ==
  /\ mode = "window" /\ rx = "idle"
  /\ IF appok THEN BootApp(apc) ELSE UNCHANGED <<mode, entry, rx>>
  /\ UNCHANGED <<mem, bkp, bootBkp, appok, apc, job, toBl, toHost>>

\* Ten seconds without a byte: the application, if it passed the test.
WindowExpire ==
  /\ mode = "window" /\ rx = "idle"
  /\ IF appok
       THEN BootApp(apc)
       ELSE mode' = "xcp" /\ UNCHANGED <<entry, rx>>
  /\ UNCHANGED <<mem, bkp, bootBkp, appok, apc, job, toBl, toHost>>

\* A byte received before the window opened is still in the data register.
WindowPending ==
  /\ mode = "window" /\ rx = "stray"
  /\ mode' = "xcp"
  /\ rx' = "idle"
  /\ UNCHANGED <<mem, bkp, bootBkp, appok, apc, entry, job, toBl, toHost, faults>>

-----------------------------------------------------------------------------
(* Self-upgrade: bl_upgrade_sram, run from SRAM. *)

UpgradeErase ==
  /\ job.op = "upgErase"
  /\ mem' = Fill(mem, BlCells, Erased)
  /\ job' = Job("upgCopy", 0, <<>>)
  /\ UNCHANGED <<bkp, mode, bootBkp, appok, apc, entry, rx, toBl, toHost, faults>>

UpgradeSource == mem[BlTemp + job.pos]

UpgradeCopyWord ==
  /\ job.op = "upgCopy" /\ job.pos < SectorWords
  /\ UpgradeSource # Erased
  /\ Programmable(mem, job.pos, UpgradeSource)
  /\ mem' = [mem EXCEPT ![job.pos] = UpgradeSource]
  /\ job' = [job EXCEPT !.pos = @ + 1]
  /\ UNCHANGED <<bkp, mode, bootBkp, appok, apc, entry, rx, toBl, toHost, faults>>

\* bl_upgrade_sram returns words to its caller, which is in the sector it has
\* just rewritten: the caller goes on only if its code is there again.
UpgradeReturn(words, m) ==
  /\ job' = NoJob
  /\ mem' = m
  /\ \/ /\ m[ReturnCell] \notin {Erased, Junk}
        /\ IF words > 0
             THEN /\ bkp' = "UPGRADED_OK"
                  /\ mode' = "reset"
                  /\ bootBkp' = "none"
             ELSE mode' = "check" /\ UNCHANGED <<bkp, bootBkp>>
     \/ mode' = "hang" /\ UNCHANGED <<bkp, bootBkp>>
  /\ rx' = "idle"
  /\ UNCHANGED <<appok, apc, entry, toBl, toHost>>

\* The copy ends at the first erased word of BL_TEMP, or after 32768 words.
UpgradeEnd ==
  /\ job.op = "upgCopy"
  /\ job.pos < SectorWords => UpgradeSource = Erased
  /\ UpgradeReturn(job.pos, mem)
  /\ UNCHANGED faults

\* Mutant: words is left at the number of words copied so far.
UpgradeMismatchPositive ==
  /\ job.op = "upgCopy" /\ job.pos < SectorWords
  /\ UpgradeSource # Erased
  /\ Fault
  /\ UpgradeReturn(job.pos, [mem EXCEPT ![job.pos] = Junk])

\* A word does not read back: words = -(i+100).
UpgradeMismatch ==
  /\ job.op = "upgCopy" /\ job.pos < SectorWords
  /\ UpgradeSource # Erased
  /\ Fault
  /\ UpgradeReturn(-(job.pos + 100), [mem EXCEPT ![job.pos] = Junk])

\* do_bl_upgrade_sram copies the routine from the function pointer, Thumb bit
\* included, so what runs in SRAM is shifted by one byte: it may fault before
\* it has touched the flash.
UpgradeFault ==
  /\ job.op = "upgErase"
  /\ mode' = "hang"
  /\ job' = NoJob
  /\ UNCHANGED <<mem, bkp, bootBkp, appok, apc, entry, rx, toBl, toHost, faults>>

Upgrade == UpgradeErase \/ UpgradeCopyWord \/ UpgradeEnd \/ UpgradeMismatch \/ UpgradeFault

-----------------------------------------------------------------------------
(* The command loop. *)

\* send_ack; an answer nobody collects is lost once MaxAcks are waiting.
Ack(status) ==
  toHost' = IF Len(toHost) < MaxAcks THEN Append(toHost, status) ELSE toHost

Listening == mode = "xcp" /\ job = NoJob /\ rx = "idle"

\* Mutant: the reply of command 4 begins like an answer with status 0x84.
DispatchInfoAcks(p) ==
  CASE p.cmd = "erase"   -> job' = Job("erase", p.addr, <<>>) /\ UNCHANGED toHost
    [] p.cmd = "write"   -> job' = Job("write", p.addr, p.data) /\ UNCHANGED toHost
    [] p.cmd = "boot"    -> job' = Job("boot", 0, <<>>) /\ Ack(0)
    [] OTHER             -> Ack(132) /\ UNCHANGED job

\* The switch of the command loop.  Erase and write answer when they are
\* done; boot answers first and then acts.
Dispatch(p) ==
  CASE p.cmd = "erase"   -> job' = Job("erase", p.addr, <<>>) /\ UNCHANGED toHost
    [] p.cmd = "write"   -> job' = Job("write", p.addr, p.data) /\ UNCHANGED toHost
    [] p.cmd = "boot"    -> job' = Job("boot", 0, <<>>) /\ Ack(0)
    [] p.cmd = "led"     -> Ack(0) /\ UNCHANGED job
    [] p.cmd = "unknown" -> Ack(254) /\ UNCHANGED job
    [] p.cmd = "short"   -> Ack(255) /\ UNCHANGED job
    [] OTHER             -> UNCHANGED <<job, toHost>>

\* recv_pkt returns a whole frame.
Receive ==
  /\ Listening
  /\ toBl.cmd \in XcpCmds
  /\ Dispatch(toBl)
  /\ toBl' = NoFrame
  /\ UNCHANGED <<mem, bkp, mode, bootBkp, appok, apc, entry, rx, faults>>

\* A lone 0xAA in front of recv_pkt, or a frame in front of a busy loop:
\* a start byte is left over.  Only frames begin with 0xAA.
Overrun ==
  /\ mode = "xcp"
  /\ toBl # NoFrame
  /\ ~Listening \/ toBl.cmd \notin XcpCmds
  /\ rx' = IF toBl.cmd \in Texts \cup {"55"} THEN rx ELSE "stray"
  /\ toBl' = NoFrame
  /\ UNCHANGED <<mem, bkp, mode, bootBkp, appok, apc, entry, job, toHost, faults>>

\* Mutant: recv_pkt waits for the rest of a frame without a limit.
StrayWaits ==
  /\ mode = "xcp" /\ job = NoJob /\ rx = "stray"
  /\ toBl # NoFrame
  /\ rx' = "idle" /\ toBl' = NoFrame
  /\ UNCHANGED <<mem, bkp, mode, bootBkp, appok, apc, entry, job, toHost, faults>>

\* recv_pkt gives up on the frame the stray byte began: -2, -3 or -4.
StrayTimeout ==
  /\ mode = "xcp" /\ job = NoJob /\ rx = "stray"
  /\ rx' = "idle"
  /\ UNCHANGED <<mem, bkp, mode, bootBkp, appok, apc, entry, job, toBl, toHost, faults>>

\* Any byte in the ten-second window enters XCP mode; of a longer frame the
\* rest follows, and may hold a 0xAA.
WindowByte ==
  /\ mode = "window"
  /\ toBl # NoFrame
  /\ mode' = "xcp"
  /\ rx' \in IF toBl.cmd \in XcpCmds THEN {"idle", "stray"} ELSE {"idle"}
  /\ toBl' = NoFrame
  /\ UNCHANGED <<mem, bkp, bootBkp, appok, apc, entry, job, toHost, faults>>

\* Bytes that reach the board while it boots, upgrades, or hangs.
NotListening ==
  /\ mode \in {"reset", "check", "upgrade", "hang"}
  /\ toBl # NoFrame
  /\ rx' \in {rx, "stray"}
  /\ toBl' = NoFrame
  /\ UNCHANGED <<mem, bkp, mode, bootBkp, appok, apc, entry, job, toHost, faults>>

\* The routine in SRAM is done and leaves the memory m: its caller, in sector 0,
\* answers.  A caller that is gone does not, and one with code around it that
\* is not what it was may not.
Answer(status, m) ==
  /\ mem' = m
  /\ job' = NoJob
  /\ \/ m[ReturnCell] = mem[ReturnCell] /\ Ack(status) /\ UNCHANGED mode
     \/ (\E c \in BlCells : m[c] # mem[c]) /\ mode' = "hang" /\ UNCHANGED toHost
  /\ UNCHANGED <<bkp, bootBkp, appok, apc, entry, rx, toBl>>

\* erase_sector_sram unlocks the flash if it has to, erases, and returns 0.
EraseDone ==
  /\ job.op = "erase"
  /\ Answer(0, Fill(mem, SectorCells(job.addr), Erased))
  /\ UNCHANGED faults

\* ... or gives up while the flash is still busy: -1, -2.
EraseFail ==
  /\ job.op = "erase"
  /\ Fault
  /\ \E m \in TornErase(mem, SectorCells(job.addr)) : Answer(1, m)

WriteCell == job.addr + job.pos
WriteWord == job.data[job.pos + 1]

\* write_word_sram programs one word and reads it back.  In sector 0 that is no
\* word of the code: code is not erased.
WriteStep ==
  /\ job.op = "write" /\ job.pos < Len(job.data)
  /\ Programmable(mem, WriteCell, WriteWord)
  /\ mem' = [mem EXCEPT ![WriteCell] = WriteWord]
  /\ job' = [job EXCEPT !.pos = @ + 1]
  /\ UNCHANGED <<bkp, mode, bootBkp, appok, apc, entry, rx, toBl, toHost, faults>>

\* Mutant: "break" without "ok2=0".
WriteFailAcksZero ==
  /\ job.op = "write" /\ job.pos < Len(job.data)
  /\ ~Programmable(mem, WriteCell, WriteWord)
  /\ job' = NoJob
  /\ Ack(0)
  /\ UNCHANGED <<mem, bkp, mode, bootBkp, appok, apc, entry, rx, toBl, faults>>

\* Mutant: the word is tried again until it reads back.
WriteFailRetries ==
  /\ job.op = "write" /\ job.pos < Len(job.data)
  /\ ~Programmable(mem, WriteCell, WriteWord)
  /\ UNCHANGED <<mem, bkp, mode, bootBkp, appok, apc, entry, job, rx, toBl, toHost, faults>>

\* The word does not read back, or the flash stays busy: ok2 = 0, break.
WriteFail ==
  /\ job.op = "write" /\ job.pos < Len(job.data)
  /\ \/ Programmable(mem, WriteCell, WriteWord) /\ Fault
     \/ ~Programmable(mem, WriteCell, WriteWord) /\ UNCHANGED faults
  /\ \E m \in {mem, [mem EXCEPT ![WriteCell] = Junk]} : Answer(1, m)

WriteDone ==
  /\ job.op = "write" /\ job.pos = Len(job.data)
  /\ job' = NoJob
  /\ Ack(0)
  /\ UNCHANGED <<mem, bkp, mode, bootBkp, appok, apc, entry, rx, toBl, faults>>

\* Mutant: the entry point is read again, the test is not made again.
BootJumpRereads ==
  /\ job.op = "boot"
  /\ job' = NoJob
  /\ IF appok THEN BootApp(mem[AppBase]) ELSE UNCHANGED <<mode, entry, rx>>
  /\ UNCHANGED <<mem, bkp, bootBkp, appok, apc, toBl, toHost, faults>>

\* Command 3 after its answer and 200 ms: jump to the entry point found at boot
\* if there was one, else stay: "No APP".  What flash_lock() does to FLASH_CR
\* is not modelled: it sets bit 31, and the part's LOCK is bit 0.
BootJump ==
  /\ job.op = "boot"
  /\ job' = NoJob
  /\ IF appok THEN BootApp(apc) ELSE UNCHANGED <<mode, entry, rx>>
  /\ UNCHANGED <<mem, bkp, bootBkp, appok, apc, toBl, toHost, faults>>

Command == EraseDone \/ EraseFail \/ WriteStep \/ WriteFail \/ WriteDone \/ BootJump

-----------------------------------------------------------------------------
(* The application, and the line. *)

\* ota_at_handler: note the request in the backup register and reset.
AppRequest(text) ==
  /\ mode = "app"
  /\ bkp' = IF text = "atbl" THEN "UPGRADE_BL" ELSE "ENTER_XCP"
  /\ Restart
  /\ UNCHANGED <<mem, toHost, faults>>

\* Frames and start bytes mean nothing to the application, and the two
\* requests only to one that is whole enough to run its command parser.
AppReceive ==
  /\ mode = "app"
  /\ toBl # NoFrame
  /\ toBl' = NoFrame
  /\ \/ toBl.cmd \in Texts /\ AppRequest(toBl.cmd)
     \/ UNCHANGED <<devVars, toHost, faults>>

\* A frame with a wrong checksum or a missing byte: recv_pkt times out.
DropFrame ==
  /\ Fault
  /\ toBl # NoFrame
  /\ toBl' = NoFrame
  /\ UNCHANGED <<devVars, toHost>>

\* An answer damaged on the line, or split over two reads of _wait_ack.
DropAck ==
  /\ Fault
  /\ toHost # <<>>
  /\ toHost' = Tail(toHost)
  /\ UNCHANGED <<devVars, toBl>>

BlStep ==
  \/ BootStart \/ CheckApp \/ WindowPending \/ WindowByte \/ NotListening
  \/ Upgrade
  \/ Receive \/ Overrun \/ StrayTimeout \/ Command
  \/ AppReceive
  \/ DropFrame \/ DropAck \/ PowerFail
-----------------------------------------------------------------------------
(* What the bootloader sees to, whoever talks to it. *)

\* The words of BL_TEMP that bl_upgrade_sram copies: those before the first
\* erased one.
Copied == {c \in BlCells : \A d \in 0..c : mem[BlTemp + d] # Erased}

\* The mark UPGRADED_OK, which makes the next boot print "BL UPGRADED", is in
\* the backup register only if every copied word of BL_TEMP is in sector 0,
\* through read-back failures and resets at any point of the copy.
UpgradedMeansCopied ==
  bkp = "UPGRADED_OK" => \A c \in Copied : mem[c] = mem[BlTemp + c]

\* What a step changes in the flash is named by the command in hand, sector 0
\* included: an erase changes the sector of its address, a write the words from
\* its address on, also when they fail half-way or a reset cuts them; and the
\* self-upgrade changes sector 0.  Nothing protects sector 0 from a command that
\* names it (bootloader.c:251-252).
OnlyNamedCellsChange ==
  [][ \A c \in Cells : mem'[c] # mem[c] =>
        \/ mode = "upgrade" /\ c \in BlCells
        \/ job.op = "erase" /\ SectorOf(c) = SectorOf(job.addr)
        \/ job.op = "write" /\ job.addr <= c /\ c < job.addr + Len(job.data) ]_blVars
=============================================================================
