-------------------------- MODULE Bootloader_proofs --------------------------
(***************************************************************************)
(* Lemmas about the bootloader itself, for whoever is at the other end of  *)
(* the line: types, the protocol between modes and jobs, the progress of a *)
(* write command, the layout of the flash, which cells a command may       *)
(* change, how far a self-upgrade has come, and what a step without a      *)
(* fault keeps of a board at rest and of its backup register.              *)
(***************************************************************************)
EXTENDS Bootloader, TLAPS

USE DEF Magics, Modes, Ops, Status, XcpCmds, Texts

-----------------------------------------------------------------------------
(* Layout of the flash. *)

\* The first word of the application is a cell of the flash.
LEMMA AppBaseInFlash == AppBase \in Cells /\ BlCells \subseteq Cells
BY FlashAssumption DEF AppBase, Cells, BlCells, NSectors

\* So is every word of BL_TEMP, and none of them is in sector 0.
LEMMA BlTempInFlash ==
  ASSUME NEW p \in BlCells
  PROVE  BlTemp + p \in Cells /\ BlTemp + p \notin BlCells
<1>1. /\ SectorWords \in Nat \ {0} /\ AppSectors \in Nat \ {0}
      /\ p \in Nat /\ p < SectorWords
  BY FlashAssumption DEF BlCells
<1>2. BlTemp \in Nat /\ BlTemp >= SectorWords
  BY <1>1 DEF BlTemp
<1>3. NSectors * SectorWords = BlTemp + SectorWords
  BY <1>1 DEF BlTemp, NSectors
<1> QED BY <1>1, <1>2, <1>3 DEF Cells, BlCells

-----------------------------------------------------------------------------
(* What the operators that change the flash return. *)

LEMMA FillType ==
  ASSUME NEW m \in Memory, NEW C, NEW v \in Contents
  PROVE  Fill(m, C, v) \in Memory
BY DEF Fill, Memory

LEMMA TornEraseType ==
  ASSUME NEW m0 \in Memory, NEW C, NEW m \in TornErase(m0, C)
  PROVE  m \in Memory
<1>1. PICK kept \in SUBSET C, blank \in SUBSET C :
        m = [c \in Cells |-> IF c \notin C \/ c \in kept THEN m0[c]
                             ELSE IF c \in blank THEN Erased ELSE Junk]
  BY DEF TornErase
<1>2. Erased \in Contents /\ Junk \in Contents
  BY FlashAssumption DEF Contents
<1> QED BY <1>1, <1>2 DEF Memory

LEMMA WriteType ==
  ASSUME NEW m \in Memory, NEW c, NEW v \in Contents
  PROVE  [m EXCEPT ![c] = v] \in Memory
BY DEF Memory

LEMMA SpecialContents == Erased \in Contents /\ Junk \in Contents
BY FlashAssumption DEF Contents

\* A reset leaves a flash, whatever it cut short.
LEMMA TornMemoryType ==
  ASSUME TypeOK, NEW m \in TornMemory
  PROVE  m \in Memory
<1>1. mem \in Memory /\ job \in Jobs
  BY DEF TypeOK
<1>2. CASE m \in TornErase(mem, SectorCells(job.addr)) \cup TornErase(mem, BlCells)
  BY <1>1, <1>2, TornEraseType
<1>3. CASE job.op = "write" /\ job.pos < Len(job.data)
           /\ m \in TornWrite(mem, job.addr + job.pos, job.data[job.pos + 1])
  <2>1. job.data[job.pos + 1] \in Contents
    BY <1>1, <1>3 DEF Jobs, Contents
  <2>2. m = mem \/ \E v \in Contents : m = [mem EXCEPT ![job.addr + job.pos] = v]
    BY <1>3, <2>1, <1>1, SpecialContents DEF TornWrite, Memory
  <2> QED BY <2>2, <1>1 DEF Memory
<1>4. CASE job.op = "upgCopy" /\ job.pos < SectorWords
           /\ m \in TornWrite(mem, job.pos, mem[BlTemp + job.pos])
  <2>1. job.pos \in BlCells
    BY <1>1, <1>4, FlashAssumption DEF Jobs, BlCells
  <2>2. mem[BlTemp + job.pos] \in Contents
    BY <2>1, <1>1, BlTempInFlash DEF Memory
  <2>3. \E v \in Contents : m = [mem EXCEPT ![job.pos] = v]
    BY <1>4, <2>1, <2>2, <1>1, SpecialContents, AppBaseInFlash DEF TornWrite, Memory
  <2> QED BY <2>3, <1>1 DEF Memory
<1> QED
  BY <1>1, <1>2, <1>3, <1>4 DEF TornMemory

LEMMA JobType ==
  /\ 0 \in Cells /\ <<>> \in Seq(Words)
  /\ \A op \in Ops, addr \in Cells, data \in Seq(Words) : Job(op, addr, data) \in Jobs
BY AppBaseInFlash, FlashAssumption DEF BlCells, Job, Jobs

LEMMA EmptyFrameAndJob == NoFrame \in Frames /\ NoJob \in Jobs
BY JobType DEF NoFrame, Bare, Frame, Frames, NoJob

\* An answer keeps the queue of answers well formed.
LEMMA AckType ==
  ASSUME toHost \in Seq(Status), NEW s \in Status, Ack(s)
  PROVE  toHost' \in Seq(Status)
BY DEF Ack

\* The caller answers, or is gone.
LEMMA AnswerType ==
  ASSUME TypeOK, NEW s \in Status, NEW m \in Memory, Answer(s, m), faults' \in 0 .. MaxFaults
  PROVE  TypeOK'
<1>1. toHost' \in Seq(Status)
  BY AckType DEF Answer, TypeOK
<1> QED BY <1>1, EmptyFrameAndJob DEF Answer, TypeOK

-----------------------------------------------------------------------------
(* Type correctness. *)

LEMMA RestartType ==
  ASSUME Restart
  PROVE  /\ mode' \in Modes /\ job' \in Jobs
         /\ rx' \in {"idle", "stray"} /\ bootBkp' \in Magics
         /\ appok' \in BOOLEAN /\ apc' \in Contents /\ entry' \in Contents
BY SpecialContents, EmptyFrameAndJob DEF Restart

LEMMA ResetType ==
  ASSUME TypeOK, Reset
  PROVE  /\ mem' \in Memory /\ bkp' \in Magics /\ toBl' \in Frames
         /\ toHost' \in Seq(Status)
         /\ mode' \in Modes /\ job' \in Jobs
         /\ rx' \in {"idle", "stray"} /\ bootBkp' \in Magics
         /\ appok' \in BOOLEAN /\ apc' \in Contents /\ entry' \in Contents
BY RestartType, TornMemoryType DEF TypeOK, Reset

LEMMA FaultType ==
  ASSUME TypeOK, Fault
  PROVE  faults' \in 0 .. MaxFaults
BY BoundsAssumption DEF TypeOK, Fault

LEMMA BootTypes ==
  ASSUME TypeOK, BootStart \/ CheckApp \/ WindowPending
  PROVE  TypeOK'
<1>1. CASE BootStart
  <2>1. job' \in Jobs
    BY <1>1, JobType DEF BootStart, TypeOK
  <2> QED BY <1>1, <2>1 DEF BootStart, TypeOK
<1>2. CASE CheckApp
  <2>1. appok' \in BOOLEAN /\ apc' \in Contents
    BY <1>2, AppBaseInFlash DEF CheckApp, TypeOK, Memory, AppValid
  <2>2. bkp' \in Magics /\ mode' \in Modes
    BY <1>2 DEF CheckApp, TypeOK
  <2> QED BY <1>2, <2>1, <2>2 DEF CheckApp, TypeOK
<1>3. CASE WindowPending
  BY <1>3 DEF WindowPending, TypeOK
<1> QED BY <1>1, <1>2, <1>3

\* Who sees the window close, and whether that is a fault, is left open.
LEMMA WindowExpireType ==
  ASSUME TypeOK, WindowExpire, faults' \in 0 .. MaxFaults
  PROVE  TypeOK'
BY DEF WindowExpire, BootApp, TypeOK

LEMMA UpgradeReturnType ==
  ASSUME TypeOK, NEW words \in Int, NEW m \in Memory, UpgradeReturn(words, m),
         faults' \in 0 .. MaxFaults
  PROVE  TypeOK'
BY EmptyFrameAndJob DEF UpgradeReturn, TypeOK

LEMMA UpgradeType ==
  ASSUME TypeOK, Upgrade
  PROVE  TypeOK'
<1>1. CASE UpgradeErase
  <2>1. mem' \in Memory
    BY <1>1, FillType, SpecialContents DEF UpgradeErase, TypeOK
  <2>2. job' \in Jobs
    BY <1>1, JobType DEF UpgradeErase
  <2> QED BY <1>1, <2>1, <2>2 DEF UpgradeErase, TypeOK
<1>2. CASE UpgradeCopyWord
  <2>1. job.pos \in BlCells
    BY <1>2, FlashAssumption DEF UpgradeCopyWord, TypeOK, Jobs, BlCells
  <2>2. UpgradeSource \in Contents
    BY <2>1, BlTempInFlash DEF TypeOK, Memory, UpgradeSource
  <2>3. mem' \in Memory
    BY <1>2, <2>2, WriteType DEF UpgradeCopyWord, TypeOK
  <2>4. job' \in Jobs
    BY <1>2 DEF UpgradeCopyWord, TypeOK, Jobs
  <2> QED BY <1>2, <2>3, <2>4 DEF UpgradeCopyWord, TypeOK
<1>3. CASE UpgradeEnd
  <2>1. job.pos \in Int
    BY DEF TypeOK, Jobs
  <2> QED BY <1>3, <2>1, UpgradeReturnType DEF UpgradeEnd, TypeOK
<1>4. CASE UpgradeMismatch
  <2>1. -(job.pos + 100) \in Int
    BY DEF TypeOK, Jobs
  <2>2. [mem EXCEPT ![job.pos] = Junk] \in Memory
    BY WriteType, SpecialContents DEF TypeOK
  <2> QED BY <1>4, <2>1, <2>2, FaultType, UpgradeReturnType DEF UpgradeMismatch
<1>5. CASE UpgradeFault
  BY <1>5, EmptyFrameAndJob DEF UpgradeFault, TypeOK
<1> QED BY <1>1, <1>2, <1>3, <1>4, <1>5 DEF Upgrade

LEMMA LineTypes ==
  ASSUME TypeOK,
         Receive \/ Overrun \/ StrayTimeout \/ WindowByte \/ NotListening
         \/ AppReceive \/ DropFrame \/ DropAck
  PROVE  TypeOK'
<1>1. CASE Receive
  <2>1. toBl.addr \in Cells /\ toBl.data \in Seq(Words)
    BY DEF TypeOK, Frames
  <2>2. job' \in Jobs
    BY <1>1, <2>1, JobType DEF Receive, Dispatch, TypeOK
  <2>3. toHost' \in Seq(Status)
    BY <1>1, AckType DEF Receive, Dispatch, TypeOK
  <2> QED BY <1>1, <2>2, <2>3, EmptyFrameAndJob DEF Receive, TypeOK
<1>2. CASE Overrun
  BY <1>2, EmptyFrameAndJob DEF Overrun, TypeOK
<1>3. CASE StrayTimeout
  BY <1>3 DEF StrayTimeout, TypeOK
<1>4. CASE WindowByte
  BY <1>4, EmptyFrameAndJob DEF WindowByte, TypeOK
<1>5. CASE NotListening
  BY <1>5, EmptyFrameAndJob DEF NotListening, TypeOK
<1>6. CASE AppReceive
  <2>1. CASE \E t \in Texts : AppRequest(t)
    BY <1>6, <2>1, RestartType, EmptyFrameAndJob DEF AppReceive, AppRequest, TypeOK
  <2>2. CASE UNCHANGED <<devVars, toHost, faults>>
    BY <1>6, <2>2, EmptyFrameAndJob DEF AppReceive, devVars, TypeOK
  <2> QED BY <1>6, <2>1, <2>2 DEF AppReceive
<1>7. CASE DropFrame
  BY <1>7, FaultType, EmptyFrameAndJob DEF DropFrame, devVars, TypeOK
<1>8. CASE DropAck
  BY <1>8, FaultType DEF DropAck, devVars, TypeOK
<1> QED BY <1>1, <1>2, <1>3, <1>4, <1>5, <1>6, <1>7, <1>8

LEMMA CommandType ==
  ASSUME TypeOK, Command
  PROVE  TypeOK'
<1>0. 0 \in Status /\ 1 \in Status
  OBVIOUS
<1>1. CASE EraseDone
  <2>1. Fill(mem, SectorCells(job.addr), Erased) \in Memory
    BY FillType, SpecialContents DEF TypeOK
  <2> QED BY <1>0, <1>1, <2>1, AnswerType DEF EraseDone, TypeOK
<1>2. CASE EraseFail
  <2>1. PICK m \in TornErase(mem, SectorCells(job.addr)) : Answer(1, m)
    BY <1>2 DEF EraseFail
  <2>2. m \in Memory
    BY TornEraseType DEF TypeOK
  <2>3. faults' \in 0 .. MaxFaults
    BY <1>2, FaultType DEF EraseFail
  <2> QED BY <1>0, <2>1, <2>2, <2>3, AnswerType
<1>3. CASE WriteStep
  <2>1. WriteWord \in Contents
    BY <1>3 DEF WriteStep, WriteWord, TypeOK, Jobs, Contents
  <2>2. mem' \in Memory
    <3>1. mem \in Memory /\ mem' = [mem EXCEPT ![WriteCell] = WriteWord]
      BY <1>3 DEF WriteStep, TypeOK
    <3> QED BY <3>1, <2>1, WriteType
  <2>3. job' \in Jobs
    BY <1>3 DEF WriteStep, TypeOK, Jobs
  <2> QED BY <1>3, <2>2, <2>3 DEF WriteStep, TypeOK
<1>4. CASE WriteFail
  <2>1. PICK m \in {mem, [mem EXCEPT ![WriteCell] = Junk]} : Answer(1, m)
    BY <1>4 DEF WriteFail
  <2>2. mem \in Memory /\ [mem EXCEPT ![WriteCell] = Junk] \in Memory
    BY WriteType, SpecialContents DEF TypeOK
  <2>3. faults' \in 0 .. MaxFaults
    BY <1>4, FaultType DEF WriteFail, TypeOK
  <2> QED BY <1>0, <2>1, <2>2, <2>3, AnswerType
<1>5. CASE WriteDone
  <2>1. toHost' \in Seq(Status)
    BY <1>0, <1>5, AckType DEF WriteDone, TypeOK
  <2> QED BY <1>5, <2>1, EmptyFrameAndJob DEF WriteDone, TypeOK
<1>6. CASE BootJump
  BY <1>6, EmptyFrameAndJob DEF BootJump, BootApp, TypeOK
<1> QED BY <1>1, <1>2, <1>3, <1>4, <1>5, <1>6 DEF Command

LEMMA PowerFailType ==
  ASSUME TypeOK, PowerFail
  PROVE  TypeOK'
BY ResetType, FaultType DEF PowerFail, TypeOK

LEMMA InitType == Init => TypeOK
<1>1. 0 \in 0 .. MaxFaults /\ <<>> \in Seq(Status)
  BY BoundsAssumption
<1> QED BY <1>1, SpecialContents, EmptyFrameAndJob DEF Init, TypeOK

LEMMA BlStepType ==
  ASSUME TypeOK, BlStep
  PROVE  TypeOK'
BY BootTypes, UpgradeType, LineTypes, CommandType, PowerFailType DEF BlStep

-----------------------------------------------------------------------------
(* Modes and jobs. *)

\* A command is carried out in XCP mode only, the self-upgrade in its own.
JobMode ==
  /\ job.op \in {"erase", "write", "boot"} => mode = "xcp"
  /\ job.op \in {"upgErase", "upgCopy"} => mode = "upgrade"

Control == JobMode

LEMMA WindowExpireControl ==
  ASSUME Control, WindowExpire
  PROVE  Control'
BY DEF Control, JobMode, WindowExpire, BootApp

LEMMA ResetControl ==
  ASSUME Reset
  PROVE  Control'
BY DEF Reset, Restart, Control, JobMode, Job, NoJob

LEMMA BlStepControl ==
  ASSUME TypeOK, Control, BlStep
  PROVE  Control'
<1> USE DEF Control, JobMode, Job, NoJob
<1>1. CASE BootStart
  BY <1>1 DEF BootStart
<1>2. CASE CheckApp \/ WindowPending
  BY <1>2 DEF CheckApp, WindowPending
<1>3. CASE Upgrade
  BY <1>3 DEF Upgrade, UpgradeErase, UpgradeCopyWord, UpgradeEnd, UpgradeMismatch,
              UpgradeFault, UpgradeReturn, TypeOK, Jobs
<1>4. CASE Receive
  BY <1>4 DEF Receive, Dispatch, Listening
<1>5. CASE Overrun \/ StrayTimeout \/ WindowByte \/ NotListening
  BY <1>5 DEF Overrun, StrayTimeout, WindowByte, NotListening
<1>6. CASE Command
  <2>1. job.op \in {"erase", "write", "boot"} /\ mode = "xcp"
    BY <1>6 DEF Command, EraseDone, EraseFail, WriteStep, WriteFail, WriteDone, BootJump
  <2>2. CASE WriteStep
    BY <2>1, <2>2 DEF WriteStep, TypeOK, Jobs
  <2>3. CASE BootJump
    BY <2>1, <2>3 DEF BootJump, BootApp
  <2>4. CASE EraseDone \/ EraseFail \/ WriteFail \/ WriteDone
    BY <2>1, <2>4 DEF EraseDone, EraseFail, Answer, WriteFail, WriteDone
  <2> QED BY <1>6, <2>2, <2>3, <2>4 DEF Command
<1>7. CASE AppReceive
  <2>1. CASE Restart
    BY <2>1 DEF Restart
  <2>2. CASE UNCHANGED <<mode, job>>
    BY <2>2
  <2> QED BY <1>7, <2>1, <2>2 DEF AppReceive, AppRequest, devVars
<1>8. CASE PowerFail
  BY <1>8, ResetControl DEF PowerFail
<1>9. CASE DropFrame \/ DropAck
  BY <1>9 DEF DropFrame, DropAck, devVars
<1> QED BY <1>1, <1>2, <1>3, <1>4, <1>5, <1>6, <1>7, <1>8, <1>9 DEF BlStep

LEMMA ControlInit == Init => Control
BY DEF Init, Control, JobMode, Job, NoJob
-----------------------------------------------------------------------------
(* The write command. *)

FlashSize == NSectors * SectorWords

\* What is on the line or being written stays inside the flash, and the words
\* written so far are there.
Writing ==
  /\ toBl.addr + Len(toBl.data) <= FlashSize
  /\ job.op = "write" =>
       /\ job.addr + Len(job.data) <= FlashSize
       /\ job.pos <= Len(job.data)
       /\ \A i \in 1 .. job.pos : mem[job.addr + i - 1] = job.data[i]

LEMMA FlashSizeNat == FlashSize \in Nat /\ Cells = 0 .. (FlashSize - 1) /\ FlashSize > 0
BY FlashAssumption DEF FlashSize, Cells, NSectors

LEMMA NoFrameFits == NoFrame.addr + Len(NoFrame.data) <= FlashSize
BY FlashSizeNat DEF NoFrame, Bare, Frame

\* One more word read back.
LEMMA WriteStepKeeps ==
  ASSUME TypeOK, Writing, WriteStep
  PROVE  Writing'
<1>1. /\ job.op = "write" /\ job.pos < Len(job.data)
      /\ mem' = [mem EXCEPT ![WriteCell] = WriteWord]
      /\ job' = [job EXCEPT !.pos = @ + 1] /\ toBl' = toBl
  BY DEF WriteStep
<1>2. /\ job.addr \in Nat /\ job.pos \in Nat /\ Len(job.data) \in Nat
      /\ mem \in Memory /\ job.addr + Len(job.data) <= FlashSize
  BY <1>1, FlashSizeNat DEF TypeOK, Jobs, Writing
<1>3. WriteCell \in Cells
  BY <1>1, <1>2, FlashSizeNat DEF WriteCell
<1>4. /\ job'.op = "write" /\ job'.addr = job.addr /\ job'.data = job.data
      /\ job'.pos = job.pos + 1
  BY <1>1 DEF TypeOK, Jobs
<1>5. ASSUME NEW i \in 1 .. (job.pos + 1)
      PROVE  mem'[job.addr + i - 1] = job.data[i]
  <2>1. CASE i = job.pos + 1
    <3>1. job.addr + i - 1 = WriteCell
      BY <1>2, <2>1 DEF WriteCell
    <3>2. mem'[WriteCell] = WriteWord
      BY <1>1, <1>2, <1>3 DEF Memory
    <3> QED BY <2>1, <3>1, <3>2 DEF WriteWord
  <2>2. CASE i # job.pos + 1
    <3>1. i \in 1 .. job.pos /\ job.addr + i - 1 # WriteCell
      BY <1>2, <2>2 DEF WriteCell
    <3>2. job.addr + i - 1 \in Cells
      BY <1>1, <1>2, <3>1, FlashSizeNat
    <3> QED BY <1>1, <1>2, <3>1, <3>2 DEF Writing, Memory
  <2> QED BY <2>1, <2>2
<1> QED BY <1>1, <1>2, <1>4, <1>5 DEF Writing

LEMMA BlStepWriting ==
  ASSUME TypeOK, Control, Writing, BlStep
  PROVE  Writing'
<1> USE NoFrameFits
<1>1. CASE UNCHANGED <<mem, job>> /\ toBl' \in {toBl, NoFrame}
  BY <1>1 DEF Writing
<1>2. CASE job'.op # "write" /\ toBl' \in {toBl, NoFrame}
  BY <1>2 DEF Writing
<1>3. CASE BootStart
  BY <1>2, <1>3 DEF BootStart, Control, JobMode, Job
<1>4. CASE CheckApp \/ WindowPending
  BY <1>1, <1>4 DEF CheckApp, WindowPending
<1>5. CASE Upgrade
  <2>1. job'.op # "write" /\ toBl' = toBl
    BY <1>5 DEF Upgrade, UpgradeErase, UpgradeCopyWord, UpgradeEnd, UpgradeMismatch,
                UpgradeFault, UpgradeReturn, TypeOK, Jobs, NoJob, Job
  <2> QED BY <1>2, <2>1
<1>6. CASE Receive
  <2>1. toBl' = NoFrame /\ mem' = mem /\ job.op = "none"
    BY <1>6 DEF Receive, Listening, NoJob, Job
  <2>2. CASE toBl.cmd = "write"
    <3>1. job' = Job("write", toBl.addr, toBl.data)
      BY <1>6, <2>2 DEF Receive, Dispatch
    <3>2. Len(toBl.data) \in Nat
      BY DEF TypeOK, Frames
    <3> QED BY <2>1, <3>1, <3>2 DEF Job, Writing
  <2>3. CASE toBl.cmd # "write"
    <3>1. job'.op # "write"
      BY <1>6, <2>1, <2>3 DEF Receive, Dispatch, Job
    <3> QED BY <1>2, <2>1, <3>1
  <2> QED BY <2>2, <2>3
<1>7. CASE Overrun \/ StrayTimeout \/ WindowByte \/ NotListening
  BY <1>1, <1>7 DEF Overrun, StrayTimeout, WindowByte, NotListening
<1>8. CASE Command
  <2>1. CASE WriteStep
    BY <2>1, WriteStepKeeps
  <2>2. CASE ~WriteStep
    <3>1. job' = NoJob /\ toBl' = toBl
      BY <1>8, <2>2 DEF Command, EraseDone, EraseFail, Answer, WriteFail,
                        WriteDone, BootJump
    <3> QED BY <1>2, <3>1 DEF NoJob, Job
  <2> QED BY <2>1, <2>2
<1>9. CASE AppReceive
  <2>1. CASE \E t \in Texts : AppRequest(t)
    BY <1>2, <1>9, <2>1 DEF AppReceive, AppRequest, Restart, NoJob, Job
  <2>2. CASE UNCHANGED <<mem, job>>
    BY <1>1, <1>9, <2>2 DEF AppReceive
  <2> QED BY <1>9, <2>1, <2>2 DEF AppReceive, devVars
<1>10. CASE PowerFail
  BY <1>2, <1>10 DEF PowerFail, Reset, Restart, NoJob, Job
<1>11. CASE DropFrame \/ DropAck
  BY <1>1, <1>11 DEF DropFrame, DropAck, devVars
<1> QED BY <1>3, <1>4, <1>5, <1>6, <1>7, <1>8, <1>9, <1>10, <1>11 DEF BlStep

LEMMA ResetWriting ==
  ASSUME Writing, Reset
  PROVE  Writing'
BY DEF Writing, Reset, Restart, NoJob, Job

LEMMA WritingInit == Init => Writing
BY NoFrameFits DEF Init, Writing, NoJob, Job


-----------------------------------------------------------------------------
(* Sectors. *)

\* A sector that does not begin the flash has no word in common with sector 0.
LEMMA SectorsApart ==
  ASSUME NEW a \in Cells, a >= AppBase
  PROVE  SectorCells(a) \cap BlCells = {}
<1>1. SectorWords \in Nat \ {0} /\ a \in Nat /\ a >= SectorWords
  BY FlashAssumption, FlashSizeNat DEF AppBase
<1>2. SectorOf(a) >= 1
  <2>1. /\ a = SectorWords * (a \div SectorWords) + (a % SectorWords)
        /\ a % SectorWords \in 0 .. (SectorWords - 1) /\ a \div SectorWords \in Int
    BY <1>1
  <2>2. ~(a \div SectorWords <= 0)
    <3>1. a \div SectorWords <= 0 => SectorWords * (a \div SectorWords) <= 0
      BY <1>1, <2>1
    <3> QED BY <1>1, <2>1, <3>1
  <2> QED BY <2>1, <2>2 DEF SectorOf
<1>3. ASSUME NEW c \in BlCells PROVE SectorOf(c) <= 0
  <2>1. c \in Nat /\ c < SectorWords
    BY <1>1 DEF BlCells
  <2>2. /\ c = SectorWords * (c \div SectorWords) + (c % SectorWords)
        /\ c % SectorWords \in 0 .. (SectorWords - 1) /\ c \div SectorWords \in Int
    BY <1>1, <2>1
  <2>3. c \div SectorWords >= 1 => SectorWords * (c \div SectorWords) >= SectorWords
    BY <1>1, <2>2
  <2> QED BY <1>1, <2>1, <2>2, <2>3 DEF SectorOf
<1>4. ASSUME NEW c \in BlCells, SectorOf(c) = SectorOf(a) PROVE FALSE
  BY <1>2, <1>3, <1>4, <1>1 DEF SectorOf, BlCells
<1> QED BY <1>4 DEF SectorCells

LEMMA Quotient ==
  ASSUME NEW w \in Nat \ {0}, NEW q \in Nat, NEW r \in 0 .. (w - 1)
  PROVE  (q * w + r) \div w = q
<1> DEFINE a == q * w + r
           d == a \div w
<1>1. /\ q * w \in Nat /\ a \in Nat
      /\ d \in Int /\ a = w * d + (a % w) /\ a % w \in 0 .. (w - 1)
  OBVIOUS
<1>2. a = w * q + r
  OBVIOUS
<1> HIDE DEF a, d
<1>3. w * d < w * (q + 1) /\ w * q < w * (d + 1)
  BY <1>1, <1>2
<1>4. d < q + 1 /\ q < d + 1
  <2>1. ASSUME NEW x \in Int, NEW y \in Int, w * x < w * y PROVE x < y
    <3>1. x >= y => w * x >= w * y
      OBVIOUS
    <3> QED BY <2>1, <3>1
  <2> QED BY <1>1, <1>3, <2>1
<1> QED BY <1>1, <1>4 DEF a, d

\* Sectors are numbered upwards, and one sector further is the next number.
LEMMA SectorNumbers ==
  ASSUME NEW a \in Nat
  PROVE  /\ SectorOf(a) \in Nat
         /\ \A n \in Nat : SectorOf(a + n * SectorWords) = SectorOf(a) + n
         /\ \A b \in Nat : a <= b => SectorOf(a) <= SectorOf(b)
<1>1. SectorWords \in Nat \ {0}
  BY FlashAssumption
<1>2. ASSUME NEW x \in Nat
      PROVE  \E q \in Nat, r \in 0 .. (SectorWords - 1) :
               x = q * SectorWords + r /\ SectorOf(x) = q
  <2> DEFINE q == x \div SectorWords
             r == x % SectorWords
  <2>1. /\ q \in Int /\ r \in 0 .. (SectorWords - 1)
        /\ x = SectorWords * q + r
    BY <1>1
  <2>2. SectorOf(x) = q
    BY DEF SectorOf
  <2> HIDE DEF q, r
  <2>3. q >= 0
    <3>1. q <= -1 => SectorWords * q <= -SectorWords
      BY <1>1, <2>1
    <3> QED BY <1>1, <2>1, <3>1
  <2>4. q \in Nat /\ x = q * SectorWords + r
    BY <1>1, <2>1, <2>3
  <2> QED BY <2>1, <2>2, <2>4
<1>3. PICK q \in Nat, r \in 0 .. (SectorWords - 1) :
        a = q * SectorWords + r /\ SectorOf(a) = q
  BY <1>2
<1>4. ASSUME NEW n \in Nat PROVE SectorOf(a + n * SectorWords) = q + n
  <2>1. a + n * SectorWords = (q + n) * SectorWords + r /\ q + n \in Nat
    BY <1>1, <1>3
  <2> QED BY <1>1, <2>1, Quotient DEF SectorOf
<1>5. ASSUME NEW b \in Nat, a <= b PROVE q <= SectorOf(b)
  <2>1. PICK d \in Nat, t \in 0 .. (SectorWords - 1) :
          b = d * SectorWords + t /\ SectorOf(b) = d
    BY <1>2
  <2>2. d + 1 <= q => (d + 1) * SectorWords <= q * SectorWords
    BY <1>1
  <2>3. (d + 1) * SectorWords = d * SectorWords + SectorWords
    BY <1>1
  <2>4. d * SectorWords \in Nat /\ q * SectorWords \in Nat
    BY <1>1
  <2>5. ~(d + 1 <= q)
    BY <1>1, <1>3, <1>5, <2>1, <2>2, <2>3, <2>4
  <2> QED BY <2>1, <2>5
<1> QED BY <1>3, <1>4, <1>5

-----------------------------------------------------------------------------
(* Sizes, frames and answers, for the peers. *)

\* Rounding up.
LEMMA RoundUp ==
  ASSUME NEW len \in Nat \ {0}, NEW w \in Nat \ {0}
  PROVE  LET n == (len + w - 1) \div w
         IN  n \in Nat \ {0} /\ n * w >= len /\ (n - 1) * w < len
<1> DEFINE n == (len + w - 1) \div w
<1>1. /\ n \in Int /\ len + w - 1 = w * n + ((len + w - 1) % w)
      /\ (len + w - 1) % w \in 0 .. (w - 1)
  OBVIOUS
<1> HIDE DEF n
<1>2. w * n >= len /\ w * n < len + w
  BY <1>1
<1>3. n > 0
  <2>1. n <= 0 => w * n <= 0
    BY <1>1
  <2> QED BY <1>1, <1>2, <2>1
<1>4. (n - 1) * w = w * n - w /\ n * w = w * n
  BY <1>1
<1>5. n \in Nat \ {0} /\ n * w >= len /\ (n - 1) * w < len
  BY <1>1, <1>2, <1>3, <1>4
<1> QED BY <1>5 DEF n

\* Everything before the last of n steps of width w is inside the file.
LEMMA StepInside ==
  ASSUME NEW len \in Nat \ {0}, NEW w \in Nat \ {0},
         NEW i \in Nat, i < (len + w - 1) \div w
  PROVE  i * w \in Nat /\ i * w < len
<1> DEFINE n == (len + w - 1) \div w
<1>1. n \in Nat \ {0} /\ (n - 1) * w < len
  BY RoundUp
<1>2. i < n
  OBVIOUS
<1> HIDE DEF n
<1>3. i * w <= (n - 1) * w
  BY <1>1, <1>2
<1> QED BY <1>1, <1>3

\* What carries no address is a frame inside the flash.
LEMMA OtherFrames ==
  /\ \A c \in XcpCmds \cup Texts \cup {"none", "aa", "55"} :
       Bare(c) \in Frames /\ Bare(c).addr + Len(Bare(c).data) <= FlashSize
       /\ Bare(c).cmd = c
  /\ NoFrame = Bare("none") /\ StartByte = Bare("aa") /\ OtherByte = Bare("55")
BY JobType, FlashSizeNat DEF Bare, Frame, Frames, NoFrame, StartByte, OtherByte, XcpCmds, Texts

\* Answers are dropped from the front.
LEMMA TailsType ==
  ASSUME toHost \in Seq(Status), NEW n \in 1 .. Len(toHost)
  PROVE  SubSeq(toHost, n + 1, Len(toHost)) \in Seq(Status)
<1>1. Len(toHost) \in Nat
  OBVIOUS
<1>2. CASE n = Len(toHost)
  <2>1. SubSeq(toHost, n + 1, Len(toHost)) = <<>>
    BY <1>1, <1>2
  <2> QED BY <2>1
<1>3. CASE n < Len(toHost)
  BY <1>1, <1>3
<1> QED BY <1>1, <1>2, <1>3

-----------------------------------------------------------------------------
(* Commands. *)

\* No command of the peer is being carried out.
NoCommand == job.op \notin {"erase", "write", "boot"}

\* Only Receive starts a command, and the board never puts anything on the line.
LEMMA JobStep ==
  ASSUME TypeOK, BlStep
  PROVE  /\ Receive \/ job'.op \in {job.op, "none", "upgErase", "upgCopy"}
         /\ toBl' \in {toBl, NoFrame}
<1> USE DEF Job, NoJob
<1>1. CASE BootStart \/ CheckApp \/ WindowPending \/ WindowByte \/ NotListening
  BY <1>1 DEF BootStart, CheckApp, WindowPending, WindowByte, NotListening
<1>2. CASE Upgrade
  BY <1>2 DEF Upgrade, UpgradeErase, UpgradeCopyWord, UpgradeEnd, UpgradeMismatch,
              UpgradeFault, UpgradeReturn, TypeOK, Jobs
<1>3. CASE Receive \/ Overrun \/ StrayTimeout \/ DropFrame \/ DropAck
  BY <1>3 DEF Receive, Overrun, StrayTimeout, DropFrame, DropAck, devVars
<1>4. CASE Command
  BY <1>4 DEF Command, EraseDone, EraseFail, Answer, WriteStep, WriteFail,
              WriteDone, BootJump, TypeOK, Jobs
<1>5. CASE AppReceive \/ PowerFail
  BY <1>5 DEF AppReceive, AppRequest, PowerFail, Reset, Restart, devVars
<1> QED BY <1>1, <1>2, <1>3, <1>4, <1>5 DEF BlStep

\* Without a command being carried out, answers are only lost.
LEMMA QuietStep ==
  ASSUME TypeOK, NoCommand, BlStep, ~Receive
  PROVE  /\ NoCommand'
         /\ toHost' = toHost \/ (toHost # <<>> /\ toHost' = Tail(toHost))
<1> SUFFICES toHost' = toHost \/ (toHost # <<>> /\ toHost' = Tail(toHost))
  BY JobStep DEF NoCommand
<1>2. CASE BootStart \/ CheckApp \/ WindowPending \/ WindowByte \/ NotListening
  BY <1>2 DEF BootStart, CheckApp, WindowPending, WindowByte, NotListening
<1>3. CASE Upgrade
  BY <1>3 DEF Upgrade, UpgradeErase, UpgradeCopyWord, UpgradeEnd, UpgradeMismatch,
              UpgradeFault, UpgradeReturn
<1>4. CASE Overrun \/ StrayTimeout \/ DropFrame \/ DropAck
  BY <1>4 DEF Overrun, StrayTimeout, DropFrame, DropAck
<1>5. CASE Command
  BY <1>5 DEF Command, EraseDone, EraseFail, WriteStep, WriteFail,
              WriteDone, BootJump, NoCommand
<1>6. CASE AppReceive \/ PowerFail
  BY <1>6 DEF AppReceive, AppRequest, PowerFail, Reset
<1> QED BY <1>2, <1>3, <1>4, <1>5, <1>6 DEF BlStep

\* Of the cells that no self-upgrade is after, a step that does not erase changes
\* at most the one being written.
LEMMA Untouched ==
  ASSUME TypeOK, BlStep, job.op # "erase",
         NEW c \in Cells, c \notin BlCells \/ job.op \notin {"upgErase", "upgCopy"},
         job.op = "write" => c # WriteCell
  PROVE  mem'[c] = mem[c]
<1>0. mem \in Memory /\ job.pos \in Nat /\ SectorWords \in Nat
  BY FlashAssumption DEF TypeOK, Jobs
<1>1. CASE Upgrade
  <2>1. c \notin BlCells /\ (job.pos < SectorWords => c # job.pos)
    BY <1>0, <1>1 DEF BlCells, Upgrade, UpgradeErase, UpgradeCopyWord, UpgradeEnd,
                      UpgradeMismatch, UpgradeFault
  <2>2. CASE UpgradeErase
    BY <2>1, <2>2 DEF UpgradeErase, Fill
  <2>3. CASE UpgradeCopyWord
    <3>1. mem' = [mem EXCEPT ![job.pos] = UpgradeSource] /\ job.pos < SectorWords
      BY <2>3 DEF UpgradeCopyWord
    <3> QED BY <1>0, <2>1, <3>1 DEF Memory
  <2>4. CASE UpgradeEnd \/ UpgradeFault
    BY <2>4 DEF UpgradeEnd, UpgradeReturn, UpgradeFault
  <2>5. CASE UpgradeMismatch
    <3>1. mem' = [mem EXCEPT ![job.pos] = Junk] /\ job.pos < SectorWords
      BY <2>5 DEF UpgradeMismatch, UpgradeReturn
    <3> QED BY <1>0, <2>1, <3>1 DEF Memory
  <2> QED BY <1>1, <2>2, <2>3, <2>4, <2>5 DEF Upgrade
<1>2. CASE Command
  <2>1. CASE EraseDone \/ EraseFail
    BY <2>1 DEF EraseDone, EraseFail
  <2>2. CASE WriteStep \/ WriteFail
    <3>1. /\ job.op = "write"
          /\ \E v : mem' \in {mem, [mem EXCEPT ![WriteCell] = v]}
      BY <2>2 DEF WriteStep, WriteFail, Answer
    <3> QED BY <1>0, <3>1 DEF Memory
  <2>3. CASE WriteDone \/ BootJump
    BY <2>3 DEF WriteDone, BootJump
  <2> QED BY <1>2, <2>1, <2>2, <2>3 DEF Command
<1>3. CASE PowerFail
  <2>1. mem' \in TornMemory
    BY <1>3 DEF PowerFail, Reset
  <2>2. CASE job.op = "upgErase"
    BY <2>1, <2>2 DEF TornMemory, TornErase, Fill
  <2>3. CASE job.op = "write"
    <3>1. \E v : mem' \in {mem, [mem EXCEPT ![WriteCell] = v]}
      BY <2>1, <2>3 DEF TornMemory, TornWrite, WriteCell
    <3> QED BY <1>0, <2>3, <3>1 DEF Memory
  <2>4. CASE job.op = "upgCopy"
    <3>1. CASE job.pos < SectorWords
      <4>1. \E v : mem' = [mem EXCEPT ![job.pos] = v]
        BY <2>1, <2>4, <3>1 DEF TornMemory, TornWrite
      <4>2. c # job.pos
        BY <1>0, <2>4, <3>1 DEF BlCells
      <4> QED BY <1>0, <4>1, <4>2 DEF Memory
    <3>2. CASE ~(job.pos < SectorWords)
      BY <2>1, <2>4, <3>2 DEF TornMemory
    <3> QED BY <3>1, <3>2
  <2>5. CASE job.op \notin {"upgErase", "upgCopy", "write"}
    BY <2>1, <2>5 DEF TornMemory
  <2> QED BY <2>2, <2>3, <2>4, <2>5
<1>4. CASE \/ BootStart \/ CheckApp \/ WindowPending \/ WindowByte \/ NotListening
           \/ Receive \/ Overrun \/ StrayTimeout \/ AppReceive \/ DropFrame \/ DropAck
  BY <1>4 DEF BootStart, CheckApp, WindowPending, WindowByte, NotListening, Receive,
     Overrun, StrayTimeout, AppReceive, AppRequest, DropFrame, DropAck, devVars
<1> QED BY <1>1, <1>2, <1>3, <1>4 DEF BlStep

\* A command keeps its target until it ends.
LEMMA JobKeepsTarget ==
  ASSUME TypeOK, BlStep, ~Receive
  PROVE  \/ job'.op \in {"none", "boot", "upgErase", "upgCopy"}
         \/ job'.op = job.op /\ job'.addr = job.addr /\ job'.data = job.data
<1> USE DEF Job, NoJob
<1>1. CASE BootStart \/ CheckApp \/ WindowPending \/ WindowByte \/ NotListening
  BY <1>1 DEF BootStart, CheckApp, WindowPending, WindowByte, NotListening
<1>2. CASE Upgrade
  BY <1>2 DEF Upgrade, UpgradeErase, UpgradeCopyWord, UpgradeEnd, UpgradeMismatch,
              UpgradeFault, UpgradeReturn, TypeOK, Jobs
<1>3. CASE Overrun \/ StrayTimeout \/ DropFrame \/ DropAck
  BY <1>3 DEF Overrun, StrayTimeout, DropFrame, DropAck, devVars
<1>4. CASE Command
  BY <1>4 DEF Command, EraseDone, EraseFail, Answer, WriteStep, WriteFail,
              WriteDone, BootJump, TypeOK, Jobs
<1>5. CASE AppReceive \/ PowerFail
  BY <1>5 DEF AppReceive, AppRequest, PowerFail, Reset, Restart, devVars
<1> QED BY <1>1, <1>2, <1>3, <1>4, <1>5 DEF BlStep

-----------------------------------------------------------------------------
(* What a command may change. *)

\* A command, or the frame that carries it, that is aimed at the cells C.
Aimed(cmd, addr, data, C) ==
  /\ cmd = "erase" => SectorCells(addr) \subseteq C
  /\ cmd = "write" => \A i \in 1 .. Len(data) : addr + i - 1 \in C

\* The board takes its commands from the line and keeps their targets.
LEMMA BlStepAimed ==
  ASSUME TypeOK, BlStep, NEW C,
         Aimed(toBl.cmd, toBl.addr, toBl.data, C),
         Aimed(job.op, job.addr, job.data, C)
  PROVE  /\ Aimed(toBl'.cmd, toBl'.addr, toBl'.data, C)
         /\ Aimed(job'.op, job'.addr, job'.data, C)
<1>1. Aimed(toBl'.cmd, toBl'.addr, toBl'.data, C)
  <2>1. NoFrame.cmd = "none"
    BY OtherFrames
  <2>2. Aimed(NoFrame.cmd, NoFrame.addr, NoFrame.data, C)
    BY <2>1 DEF Aimed
  <2> QED BY <2>2, JobStep
<1>2. CASE Receive
  <2>1. \/ job' = job
        \/ job' = Job("erase", toBl.addr, <<>>) /\ toBl.cmd = "erase"
        \/ job' = Job("write", toBl.addr, toBl.data) /\ toBl.cmd = "write"
        \/ job' = Job("boot", 0, <<>>)
    BY <1>2 DEF Receive, Dispatch
  <2> QED BY <1>1, <2>1 DEF Aimed, Job
<1>3. CASE ~Receive
  BY <1>1, <1>3, JobKeepsTarget DEF Aimed
<1> QED BY <1>2, <1>3

\* A step outside the self-upgrade changes only what the command is aimed
\* at, cut short by a reset or not.
LEMMA CommandWithin ==
  ASSUME TypeOK, Control, BlStep \/ Reset, mode # "upgrade", NEW C,
         Aimed(job.op, job.addr, job.data, C),
         NEW c \in Cells \ C
  PROVE  mem'[c] = mem[c]
<1>0. /\ mem \in Memory /\ job.pos \in Nat /\ job.data \in Seq(Words)
      /\ job.op \notin {"upgErase", "upgCopy"}
  BY DEF TypeOK, Jobs, Control, JobMode
<1>1. job.op = "erase" => c \notin SectorCells(job.addr)
  BY DEF Aimed
<1>2. job.op = "write" /\ job.pos < Len(job.data) => c # job.addr + job.pos
  <2> SUFFICES ASSUME job.op = "write", job.pos < Len(job.data)
               PROVE  job.addr + job.pos \in C
    OBVIOUS
  <2>1. job.pos + 1 \in 1 .. Len(job.data)
    BY <1>0
  <2>2. job.addr + (job.pos + 1) - 1 = job.addr + job.pos
    BY <1>0, FlashSizeNat DEF TypeOK, Jobs
  <2> QED BY <2>1, <2>2 DEF Aimed
<1>3. CASE EraseDone \/ EraseFail \/ (Reset /\ job.op = "erase")
  <2>1. job.op = "erase"
    BY <1>3 DEF EraseDone, EraseFail
  <2>2. \/ mem' = Fill(mem, SectorCells(job.addr), Erased)
        \/ mem' \in TornErase(mem, SectorCells(job.addr))
    BY <1>3 DEF EraseDone, EraseFail, Answer, Reset, TornMemory
  <2> QED BY <1>1, <2>1, <2>2 DEF TornErase, Fill
<1>4. CASE WriteStep \/ WriteFail \/ (Reset /\ job.op = "write")
  <2>1. /\ job.op = "write"
        /\ mem' # mem => /\ job.pos < Len(job.data)
                         /\ \E v : mem' = [mem EXCEPT ![job.addr + job.pos] = v]
    BY <1>4 DEF WriteStep, WriteFail, Answer, WriteCell, Reset, TornMemory, TornWrite
  <2> QED BY <1>0, <1>2, <2>1 DEF Memory
<1>5. CASE \/ WriteDone \/ BootJump \/ Receive \/ Overrun \/ StrayTimeout
           \/ BootStart \/ CheckApp \/ WindowPending \/ WindowByte \/ NotListening
           \/ AppReceive \/ DropFrame \/ DropAck
  BY <1>5 DEF WriteDone, BootJump, Receive, Overrun, StrayTimeout, BootStart,
     CheckApp, WindowPending, WindowByte, NotListening, AppReceive, AppRequest,
     DropFrame, DropAck, devVars
<1>6. CASE Reset /\ job.op \notin {"erase", "write"}
  BY <1>0, <1>6 DEF Reset, TornMemory
<1>7. ~Upgrade
  BY <1>0 DEF Upgrade, UpgradeErase, UpgradeCopyWord, UpgradeEnd, UpgradeMismatch,
              UpgradeFault
<1> QED BY <1>3, <1>4, <1>5, <1>6, <1>7 DEF BlStep, Command, PowerFail

\* What carries no address is aimed at nothing.
LEMMA BareAimed ==
  ASSUME NEW C, NEW c \in {"none", "aa", "55", "at", "atbl", "info", "boot"}
  PROVE  Aimed(Bare(c).cmd, Bare(c).addr, Bare(c).data, C)
BY OtherFrames DEF Aimed, XcpCmds, Texts

\* The application's part of the flash and BL_TEMP.
AboveSector0 == Cells \ BlCells

\* The frame on the line and the command being carried out are aimed there.
Above ==
  /\ Aimed(toBl.cmd, toBl.addr, toBl.data, AboveSector0)
  /\ Aimed(job.op, job.addr, job.data, AboveSector0)

LEMMA AboveInit == Init => Above
BY OtherFrames DEF Init, Above, Aimed, NoJob, Job

LEMMA BlStepAbove ==
  ASSUME TypeOK, Above, BlStep
  PROVE  Above'
BY BlStepAimed DEF Above

LEMMA ResetAbove ==
  ASSUME Above, Reset
  PROVE  Above'
BY DEF Above, Aimed, Reset, Restart, NoJob, Job

\* Of all cells, those of sector 0 change in a self-upgrade only.
OnlyUpgradeTouchesSector0 ==
  [][mode # "upgrade" => \A c \in BlCells : mem'[c] = mem[c]]_blVars

\* The step behind it.
LEMMA Sector0Step ==
  ASSUME TypeOK, Control, Above, BlStep \/ Reset, mode # "upgrade",
         NEW c \in BlCells
  PROVE  mem'[c] = mem[c]
BY CommandWithin, AppBaseInFlash DEF Above, AboveSector0

\* A frame inside the flash that does not name sector 0 is aimed above it.
LEMMA AimedAbove ==
  ASSUME NEW f \in Frames, f.addr + Len(f.data) <= FlashSize,
         f.cmd \in {"erase", "write"} => f.addr >= AppBase
  PROVE  Aimed(f.cmd, f.addr, f.data, AboveSector0)
<1>0. f.addr \in Cells /\ f.data \in Seq(Words)
  BY DEF Frames
<1>1. CASE f.cmd = "erase"
  BY <1>0, <1>1, SectorsApart DEF Aimed, AboveSector0, SectorCells
<1>2. CASE f.cmd = "write"
  <2>1. ASSUME NEW i \in 1 .. Len(f.data) PROVE f.addr + i - 1 \in AboveSector0
    BY <1>0, <1>2, FlashSizeNat, FlashAssumption DEF AboveSector0, BlCells, AppBase
  <2> QED BY <1>2, <2>1 DEF Aimed
<1>3. CASE f.cmd \notin {"erase", "write"}
  BY <1>3 DEF Aimed
<1> QED BY <1>1, <1>2, <1>3

-----------------------------------------------------------------------------
(* The code the bootloader returns to. *)

\* Where a routine in SRAM returns to, there is code, as long as the bootloader
\* runs: a command after which there is none does not return.
CodeThere == mode \in {"check", "window", "xcp"} => mem[ReturnCell] # Erased

LEMMA BlStepCode ==
  ASSUME TypeOK, Control, CodeThere, BlStep
  PROVE  CodeThere'
<1> USE DEF CodeThere
<1>0. ReturnCell \in BlCells /\ ReturnCell \in Cells /\ mem \in Memory
  BY BoundsAssumption, AppBaseInFlash DEF TypeOK
<1>1. CASE BootStart
  <2>1. CASE BlRunnable(mem)
    <3>1. PICK b \in BlImages : b = [c \in BlCells |-> mem[c]]
      BY <2>1 DEF BlRunnable
    <3>2. b[ReturnCell] # Erased /\ b[ReturnCell] = mem[ReturnCell]
      BY <1>0, <3>1, CodeAssumption
    <3> QED BY <1>1, <3>2 DEF BootStart
  <2>2. CASE ~BlRunnable(mem)
    BY <1>1, <2>2 DEF BootStart
  <2> QED BY <2>1, <2>2
<1>2. CASE CheckApp \/ WindowPending \/ WindowByte \/ NotListening
  BY <1>2 DEF CheckApp, WindowPending, WindowByte, NotListening
<1>3. CASE Upgrade
  BY <1>3 DEF Upgrade, UpgradeErase, UpgradeCopyWord, UpgradeEnd, UpgradeMismatch,
              UpgradeFault, UpgradeReturn, Control, JobMode
<1>4. CASE Receive \/ Overrun \/ StrayTimeout \/ DropFrame \/ DropAck
  BY <1>4 DEF Receive, Overrun, StrayTimeout, DropFrame, DropAck, devVars
<1>5. CASE EraseDone \/ EraseFail \/ WriteFail
  BY <1>5 DEF EraseDone, EraseFail, WriteFail, Answer
<1>6. CASE WriteStep
  <2>1. mem[WriteCell] \in {Erased, WriteWord} /\ mem' = [mem EXCEPT ![WriteCell] = WriteWord]
    BY <1>6 DEF WriteStep, Programmable
  <2>2. mode' = mode
    BY <1>6 DEF WriteStep
  <2>3. mem[ReturnCell] # Erased => mem'[ReturnCell] # Erased
    BY <1>0, <2>1 DEF Memory
  <2> QED BY <2>2, <2>3
<1>7. CASE WriteDone \/ BootJump
  BY <1>7 DEF WriteDone, BootJump, BootApp
<1>8. CASE AppReceive \/ PowerFail
  BY <1>8 DEF AppReceive, AppRequest, PowerFail, Reset, Restart, devVars
<1> QED BY <1>1, <1>2, <1>3, <1>4, <1>5, <1>6, <1>7, <1>8 DEF BlStep, Command

\* A command that erases sector 0 is not answered 0.
LEMMA ErasedCodeSilent ==
  ASSUME TypeOK, Control, CodeThere, EraseDone, SectorOf(job.addr) = 0
  PROVE  toHost' = toHost
<1>1. mem[ReturnCell] # Erased
  BY DEF EraseDone, Control, JobMode, CodeThere
<1>2. ReturnCell \in Nat /\ ReturnCell < SectorWords /\ ReturnCell \in Cells
  BY BoundsAssumption, AppBaseInFlash, FlashAssumption DEF BlCells
<1>3. ReturnCell \in SectorCells(job.addr)
  BY <1>2, FlashAssumption DEF SectorCells, SectorOf
<1>4. Fill(mem, SectorCells(job.addr), Erased)[ReturnCell] = Erased
  BY <1>2, <1>3 DEF Fill
<1> QED BY <1>1, <1>4 DEF EraseDone, Answer

-----------------------------------------------------------------------------
(* The self-upgrade. *)

\* What has been copied so far.
CopiedPrefix ==
  job.op = "upgCopy" =>
    /\ job.pos <= SectorWords
    /\ \A d \in 0 .. (job.pos - 1) : mem[d] = mem[BlTemp + d]

\* The mark is made by a finished copy and taken back by the next boot, and
\* nothing is executed in between.
MarkAtRest == bkp = "UPGRADED_OK" => mode \in {"reset", "hang"}

Upgrading == CopiedPrefix /\ MarkAtRest /\ UpgradedMeansCopied

LEMMA UpgradeReturnKeeps ==
  ASSUME TypeOK, Control, Upgrading, mode = "upgrade",
         NEW words \in Int, NEW m, UpgradeReturn(words, m),
         words > 0 => m = mem /\ \A c \in Copied : m[c] = m[BlTemp + c]
  PROVE  Upgrading'
<1>1. job' = NoJob /\ mem' = m
  BY DEF UpgradeReturn
<1>2. CopiedPrefix'
  BY <1>1 DEF CopiedPrefix, NoJob, Job
<1>3. CASE bkp' = "UPGRADED_OK"
  <2>1. words > 0 /\ mode' \in {"reset", "hang"}
    BY <1>3 DEF UpgradeReturn, Upgrading, MarkAtRest
  <2>2. \A c \in Copied' : mem'[c] = mem'[BlTemp + c]
    BY <1>1, <2>1 DEF Copied
  <2> QED BY <1>2, <2>1, <2>2 DEF Upgrading, MarkAtRest, UpgradedMeansCopied
<1>4. CASE bkp' # "UPGRADED_OK"
  BY <1>2, <1>4 DEF Upgrading, MarkAtRest, UpgradedMeansCopied
<1> QED BY <1>3, <1>4

\* While the mark is there no job runs, so a reset does not touch the flash.
LEMMA ResetKeepsMark ==
  ASSUME TypeOK, Control, Upgrading, Reset
  PROVE  Upgrading'
<1>1. CopiedPrefix' /\ mode' = "reset"
  BY DEF Reset, Restart, CopiedPrefix, NoJob, Job
<1>2. CASE bkp' = "UPGRADED_OK"
  <2>1. bkp = "UPGRADED_OK" /\ mode \in {"reset", "hang"}
    BY <1>2 DEF Reset, Upgrading, MarkAtRest
  <2>2. job.op \notin {"erase", "write", "upgErase", "upgCopy"}
    BY <2>1 DEF Control, JobMode
  <2>3. mem' = mem
    BY <2>2 DEF Reset, TornMemory
  <2> QED
    BY <1>1, <2>1, <2>3 DEF Upgrading, MarkAtRest, UpgradedMeansCopied, Copied
<1>3. CASE bkp' # "UPGRADED_OK"
  BY <1>1, <1>3 DEF Upgrading, MarkAtRest, UpgradedMeansCopied
<1> QED BY <1>2, <1>3

LEMMA UpgradeKeeps ==
  ASSUME TypeOK, Control, Upgrading, Upgrade
  PROVE  Upgrading'
<1>1. mode = "upgrade" /\ bkp # "UPGRADED_OK"
  BY DEF Upgrade, UpgradeErase, UpgradeCopyWord, UpgradeEnd, UpgradeMismatch,
         UpgradeFault, Control, JobMode, Upgrading, MarkAtRest
<1>2. job.pos \in Nat /\ mem \in Memory
  BY DEF TypeOK, Jobs
<1>3. CASE UpgradeErase \/ UpgradeFault
  BY <1>1, <1>3, FlashAssumption
     DEF UpgradeErase, UpgradeFault, Upgrading, CopiedPrefix, MarkAtRest,
         UpgradedMeansCopied, Job, NoJob
<1>4. CASE UpgradeCopyWord
  <2>1. job.op = "upgCopy" /\ job.pos \in BlCells
    BY <1>2, <1>4, FlashAssumption DEF UpgradeCopyWord, BlCells
  <2>2. job'.op = "upgCopy" /\ job'.pos = job.pos + 1 /\ job'.pos <= SectorWords
    BY <1>2, <1>4, <2>1, FlashAssumption DEF UpgradeCopyWord, TypeOK, Jobs
  <2>3. /\ mem'[job.pos] = mem[BlTemp + job.pos]
        /\ \A c \in Cells \ {job.pos} : mem'[c] = mem[c]
    BY <1>2, <1>4, <2>1, AppBaseInFlash DEF UpgradeCopyWord, UpgradeSource, Memory
  <2>4. ASSUME NEW d \in 0 .. job.pos PROVE mem'[d] = mem'[BlTemp + d]
    <3>1. d \in BlCells /\ d \in Cells
      BY <1>2, <2>1, FlashAssumption, AppBaseInFlash DEF BlCells
    <3>2. mem'[BlTemp + d] = mem[BlTemp + d]
      BY <2>1, <2>3, <3>1, BlTempInFlash
    <3>3. CASE d = job.pos
      BY <2>3, <3>2, <3>3
    <3>4. CASE d # job.pos
      <4>1. d \in 0 .. (job.pos - 1)
        BY <1>2, <3>4
      <4>2. mem[d] = mem[BlTemp + d]
        BY <2>1, <4>1 DEF Upgrading, CopiedPrefix
      <4> QED BY <2>3, <3>1, <3>2, <3>4, <4>2
    <3> QED BY <3>3, <3>4
  <2>5. CopiedPrefix'
    BY <1>2, <2>2, <2>4 DEF CopiedPrefix
  <2> QED
    BY <1>1, <1>4, <2>5 DEF UpgradeCopyWord, Upgrading, MarkAtRest, UpgradedMeansCopied
<1>5. CASE UpgradeEnd
  <2>1. ASSUME NEW c \in Copied PROVE mem[c] = mem[BlTemp + c]
    <3>1. c \in BlCells /\ \A d \in 0..c : mem[BlTemp + d] # Erased
      BY <2>1 DEF Copied
    <3>2. job.pos < SectorWords => mem[BlTemp + job.pos] = Erased
      BY <1>5 DEF UpgradeEnd, UpgradeSource
    <3>3. c < job.pos
      BY <1>2, <3>1, <3>2, FlashAssumption DEF BlCells
    <3> QED
      BY <1>2, <1>5, <3>1, <3>3 DEF UpgradeEnd, Upgrading, CopiedPrefix, BlCells
  <2> QED BY <1>1, <1>2, <1>5, <2>1, UpgradeReturnKeeps DEF UpgradeEnd
<1>6. CASE UpgradeMismatch
  <2>1. -(job.pos + 100) \in Int /\ ~(-(job.pos + 100) > 0)
    BY <1>2
  <2> QED BY <1>1, <1>6, <2>1, UpgradeReturnKeeps DEF UpgradeMismatch
<1> QED BY <1>3, <1>4, <1>5, <1>6 DEF Upgrade

\* A command, run in XCP mode, finds no mark and leaves none.
LEMMA CommandKeepsMark ==
  ASSUME Control, Upgrading, Command
  PROVE  Upgrading'
<1>1. job.op \in {"erase", "write", "boot"} /\ mode = "xcp"
  BY DEF Command, EraseDone, EraseFail, WriteStep, WriteFail, WriteDone, BootJump,
         Control, JobMode
<1>2. bkp # "UPGRADED_OK" /\ bkp' = bkp
  BY <1>1 DEF Command, EraseDone, EraseFail, Answer, WriteStep, WriteFail,
              WriteDone, BootJump, Upgrading, MarkAtRest
<1>3. job'.op # "upgCopy"
  <2>1. CASE job' = NoJob
    BY <2>1 DEF NoJob, Job
  <2>2. CASE WriteStep
    BY <1>1, <2>2 DEF WriteStep
  <2> QED
    BY <2>1, <2>2 DEF Command, EraseDone, EraseFail, Answer, WriteFail,
                      WriteDone, BootJump
<1> QED BY <1>2, <1>3 DEF Upgrading, CopiedPrefix, MarkAtRest, UpgradedMeansCopied

\* What leaves flash, register and job alone does not start anything either.
LEMMA UpgradingKept ==
  ASSUME Upgrading, UNCHANGED <<mem, bkp, job>>,
         mode' = mode \/ mode \notin {"reset", "hang"}
  PROVE  Upgrading'
BY DEF Upgrading, CopiedPrefix, MarkAtRest, UpgradedMeansCopied, Copied

LEMMA BlStepUpgrading ==
  ASSUME TypeOK, Control, Upgrading, BlStep
  PROVE  Upgrading'
<1> USE DEF Upgrading, CopiedPrefix, MarkAtRest, UpgradedMeansCopied, Copied
<1>1. CASE BootStart
  <2>1. job'.op # "upgCopy"
    BY <1>1 DEF BootStart, Control, JobMode, Job
  <2> QED BY <1>1, <2>1 DEF BootStart
<1>2. CASE CheckApp \/ WindowPending
  BY <1>2 DEF CheckApp, WindowPending
<1>3. CASE Upgrade
  BY <1>3, UpgradeKeeps
<1>4. CASE Receive
  BY <1>4 DEF Receive, Dispatch, Listening, Job
<1>5. CASE Overrun \/ StrayTimeout \/ WindowByte \/ NotListening
  BY <1>5 DEF Overrun, StrayTimeout, WindowByte, NotListening
<1>6. CASE Command
  BY <1>6, CommandKeepsMark
<1>7. CASE AppReceive
  <2>1. CASE \E t \in Texts : AppRequest(t)
    BY <2>1 DEF AppRequest, Restart, NoJob, Job
  <2>2. CASE UNCHANGED <<mode, job, mem, bkp>>
    BY <2>2
  <2> QED BY <1>7, <2>1, <2>2 DEF AppReceive, devVars
<1>8. CASE PowerFail
  BY <1>8, ResetKeepsMark DEF PowerFail
<1>9. CASE DropFrame \/ DropAck
  BY <1>9 DEF DropFrame, DropAck, devVars
<1> QED
  BY <1>1, <1>2, <1>3, <1>4, <1>5, <1>6, <1>7, <1>8, <1>9 DEF BlStep

LEMMA UpgradingInit == Init => Upgrading
BY DEF Init, Upgrading, CopiedPrefix, MarkAtRest, UpgradedMeansCopied, NoJob, Job

-----------------------------------------------------------------------------
(* Steps without a fault. *)

\* The processor is on its way to a decision and listens to nobody.
Booting == mode \in {"reset", "check", "upgrade"}

\* A command that has ended leaves nothing behind.
Rested == job.op = "none" => job = NoJob

LEMMA RestedInit == Init => Rested
BY DEF Init, Rested

LEMMA RestedReset ==
  ASSUME Reset
  PROVE  Rested'
BY DEF Reset, Restart, Rested

LEMMA BlStepRested ==
  ASSUME TypeOK, Rested, BlStep
  PROVE  Rested'
<1> USE DEF Rested
<1>1. CASE BootStart \/ CheckApp \/ WindowPending \/ WindowByte \/ NotListening
  BY <1>1 DEF BootStart, CheckApp, WindowPending, WindowByte, NotListening, Job
<1>2. CASE Upgrade
  BY <1>2 DEF Upgrade, UpgradeErase, UpgradeCopyWord, UpgradeEnd, UpgradeMismatch,
              UpgradeFault, UpgradeReturn, Job, TypeOK, Jobs
<1>3. CASE Receive
  BY <1>3 DEF Receive, Dispatch, Job
<1>4. CASE Overrun \/ StrayTimeout \/ DropFrame \/ DropAck
  BY <1>4 DEF Overrun, StrayTimeout, DropFrame, DropAck, devVars
<1>5. CASE Command
  BY <1>5 DEF Command, EraseDone, EraseFail, Answer, WriteStep, WriteFail,
              WriteDone, BootJump, TypeOK, Jobs
<1>6. CASE AppReceive \/ PowerFail
  BY <1>6 DEF AppReceive, AppRequest, PowerFail, Reset, Restart, devVars
<1> QED BY <1>1, <1>2, <1>3, <1>4, <1>5, <1>6 DEF BlStep

\* What each mode can do when nothing is lost, cut short or failing.
LEMMA CalmSteps ==
  ASSUME TypeOK, Control, BlStep, faults' = faults
  PROVE  /\ mode = "reset"   => BootStart \/ NotListening
         /\ mode = "check"   => CheckApp \/ NotListening
         /\ mode = "window"  => WindowPending \/ WindowByte
         /\ mode = "hang"    => NotListening
         /\ mode = "app"     => AppReceive
         /\ mode = "xcp"     => \/ Receive \/ Overrun \/ StrayTimeout
                                \/ EraseDone \/ WriteStep \/ WriteFail \/ WriteDone \/ BootJump
         /\ mode = "upgrade" => \/ UpgradeErase \/ UpgradeCopyWord \/ UpgradeEnd
                                \/ UpgradeFault \/ NotListening
         /\ WriteFail => ~Programmable(mem, WriteCell, WriteWord)
<1>1. ~Fault
  BY DEF Fault, TypeOK
<1>2. ~(DropFrame \/ DropAck \/ PowerFail \/ EraseFail \/ UpgradeMismatch)
  BY <1>1 DEF DropFrame, DropAck, PowerFail, EraseFail, UpgradeMismatch
<1>3. WriteFail => ~Programmable(mem, WriteCell, WriteWord)
  BY <1>1 DEF WriteFail
<1>4. BootStart => mode = "reset"
  BY DEF BootStart
<1>5. CheckApp => mode = "check"
  BY DEF CheckApp
<1>6. WindowPending \/ WindowByte => mode = "window"
  BY DEF WindowPending, WindowByte
<1>7. NotListening => mode \in {"reset", "check", "upgrade", "hang"}
  BY DEF NotListening
<1>8. Upgrade => mode = "upgrade"
  BY DEF Upgrade, UpgradeErase, UpgradeCopyWord, UpgradeEnd, UpgradeMismatch,
         UpgradeFault, Control, JobMode
<1>9. Receive \/ Overrun \/ StrayTimeout => mode = "xcp"
  BY DEF Receive, Listening, Overrun, StrayTimeout
<1>10. Command => mode = "xcp"
  BY DEF Command, EraseDone, EraseFail, WriteStep, WriteFail, WriteDone, BootJump,
         Control, JobMode
<1>11. AppReceive => mode = "app"
  BY DEF AppReceive
<1> QED
  BY <1>2, <1>3, <1>4, <1>5, <1>6, <1>7, <1>8, <1>9, <1>10, <1>11
     DEF BlStep, Command, Upgrade

\* A board in XCP mode that waits for a frame waits until one comes.
LEMMA CalmListening ==
  ASSUME TypeOK, Control, BlStep, faults' = faults, Listening
  PROVE  /\ toBl # NoFrame
         /\ toBl.cmd \in XcpCmds => Receive
         /\ toBl.cmd \notin XcpCmds => Overrun
<1>1. NoFrame.cmd \notin XcpCmds
  BY OtherFrames
<1>2. Receive \/ Overrun
  BY CalmSteps DEF Listening, StrayTimeout, EraseDone, WriteStep, WriteFail, WriteDone,
                   BootJump, NoJob, Job
<1> QED BY <1>1, <1>2 DEF Receive, Overrun

\* While it carries out a command, the line apart, it does nothing else.
LEMMA CalmCommand ==
  ASSUME TypeOK, Control, BlStep, faults' = faults, toBl = NoFrame,
         job.op \in {"erase", "write"}, rx = "idle"
  PROVE  /\ job.op = "erase" => EraseDone
         /\ job.op = "write" => WriteStep \/ WriteFail \/ WriteDone
<1>1. mode = "xcp" /\ job # NoJob
  BY DEF Control, JobMode, NoJob, Job
<1> QED BY <1>1, CalmSteps
        DEF Receive, Listening, Overrun, StrayTimeout, EraseDone, WriteStep, WriteFail,
            WriteDone, BootJump

\* Only an application that reads a request brings the board back to its boot,
\* only a byte that comes while it boots makes it open the window with one.
LEMMA CalmBooting ==
  ASSUME TypeOK, Control, BlStep, faults' = faults
  PROVE  /\ Booting' /\ ~Booting => /\ mode = "app" /\ toBl.cmd \in Texts
                                    /\ mode' = "reset" /\ toBl' = NoFrame /\ rx' = "idle"
         /\ Booting' /\ Booting => \/ rx' \in {rx, "idle"}
                                   \/ toBl # NoFrame /\ toBl' = NoFrame /\ bkp' = bkp
         /\ mode' = "window" => mode = "check" /\ rx' = rx
<1> USE DEF Booting
<1>1. CASE mode = "reset"
  BY <1>1, CalmSteps DEF BootStart, NotListening
<1>2. CASE mode = "check"
  BY <1>2, CalmSteps DEF CheckApp, NotListening
<1>3. CASE mode = "window"
  BY <1>3, CalmSteps DEF WindowPending, WindowByte
<1>4. CASE mode = "hang"
  BY <1>4, CalmSteps DEF NotListening
<1>5. CASE mode = "app"
  <2>1. AppReceive
    BY <1>5, CalmSteps
  <2> QED BY <1>5, <2>1 DEF AppReceive, AppRequest, Restart, devVars
<1>6. CASE mode = "xcp"
  BY <1>6, CalmSteps
     DEF Receive, Overrun, StrayTimeout, EraseDone, Answer, WriteStep, WriteFail,
         WriteDone, BootJump, BootApp
<1>7. CASE mode = "upgrade"
  BY <1>7, CalmSteps
     DEF UpgradeErase, UpgradeCopyWord, UpgradeEnd, UpgradeFault, UpgradeReturn,
         NotListening
<1> QED BY <1>1, <1>2, <1>3, <1>4, <1>5, <1>6, <1>7 DEF TypeOK

\* A board in its window, or in front of its command loop, that does not take what
\* is on the line and is no frame, can only discard what a frame has left.
LEMMA CalmWaiting ==
  ASSUME TypeOK, Control, BlStep, faults' = faults, mode \in {"window", "xcp"},
         NoCommand, toBl.cmd \notin XcpCmds, toBl' # NoFrame \/ toBl = NoFrame
  PROVE  mode' = "xcp" /\ NoCommand' /\ toBl' = toBl /\ toHost' = toHost /\ mem' = mem
<1>1. CASE mode = "window"
  <2>1. WindowPending
    BY <1>1, CalmSteps DEF WindowByte
  <2> QED BY <2>1 DEF WindowPending, NoCommand
<1>2. CASE mode = "xcp"
  <2>1. StrayTimeout
    BY <1>2, CalmSteps DEF Receive, Overrun, EraseDone, WriteStep, WriteFail, WriteDone,
                           BootJump, NoCommand
  <2> QED BY <1>2, <2>1 DEF StrayTimeout, NoCommand
<1> QED BY <1>1, <1>2

\* XCP mode is left by a boot command, or by one that has changed sector 0, and
\* nothing else answers.
LEMMA CalmModes ==
  ASSUME TypeOK, Control, BlStep, faults' = faults
  PROVE  /\ mode = "xcp" /\ job.op # "boot"
              => mode' = "xcp" \/ \E c \in BlCells : mem'[c] # mem[c]
         /\ mode # "xcp" => toHost' = toHost
         /\ mode \notin {"xcp", "upgrade"} => mem' = mem
         /\ mode # "upgrade" /\ mode' = "upgrade" => bkp = "UPGRADE_BL" /\ BlRunnable(mem)
         /\ mode = "hang" => mode' = "hang"
<1>1. CASE mode \in {"reset", "check"}
  BY <1>1, CalmSteps DEF BootStart, CheckApp, NotListening
<1>2. CASE mode \in {"window", "hang"}
  BY <1>2, CalmSteps DEF WindowPending, WindowByte, NotListening
<1>3. CASE mode = "app"
  <2>1. AppReceive
    BY <1>3, CalmSteps
  <2> QED BY <1>3, <2>1 DEF AppReceive, AppRequest, Restart, devVars
<1>4. CASE mode = "xcp"
  <2>1. CASE EraseDone
    <3>1. mode' = mode \/ (mode' = "hang" /\ \E c \in BlCells : mem'[c] # mem[c])
      BY <2>1 DEF EraseDone, Answer
    <3> QED BY <1>4, <3>1
  <2>2. CASE WriteFail
    <3>1. mode' = mode \/ (mode' = "hang" /\ \E c \in BlCells : mem'[c] # mem[c])
      BY <2>2 DEF WriteFail, Answer
    <3> QED BY <1>4, <3>1
  <2>3. CASE Receive \/ Overrun \/ StrayTimeout \/ WriteStep \/ WriteDone \/ BootJump
    BY <1>4, <2>3 DEF Receive, Overrun, StrayTimeout, WriteStep, WriteDone, BootJump, BootApp
  <2> QED BY <1>4, <2>1, <2>2, <2>3, CalmSteps
<1>5. CASE mode = "upgrade"
  BY <1>5, CalmSteps
     DEF UpgradeErase, UpgradeCopyWord, UpgradeEnd, UpgradeFault, UpgradeReturn,
         NotListening
<1> QED BY <1>1, <1>2, <1>3, <1>4, <1>5 DEF TypeOK

\* How a board that is not asked for a self-upgrade gets to XCP mode.
LEMMA CalmEnters ==
  ASSUME TypeOK, Control, BlStep, faults' = faults, mode \notin {"xcp", "upgrade"},
         mode' = "xcp"
  PROVE  \/ mode = "check" /\ bootBkp = "ENTER_XCP" /\ rx' = rx /\ toBl' = toBl
         \/ mode = "window" /\ rx = "stray"
         \/ mode = "window" /\ toBl' = NoFrame /\ (toBl.cmd \notin XcpCmds => rx' = "idle")
<1>1. CASE mode \in {"reset", "check"}
  BY <1>1, CalmSteps DEF BootStart, CheckApp, NotListening
<1>2. CASE mode \in {"window", "hang"}
  BY <1>2, CalmSteps DEF WindowPending, WindowByte, NotListening
<1>3. CASE mode = "app"
  <2>1. AppReceive
    BY <1>3, CalmSteps
  <2> QED BY <1>3, <2>1 DEF AppReceive, AppRequest, Restart, devVars
<1> QED BY <1>1, <1>2, <1>3 DEF TypeOK

-----------------------------------------------------------------------------
(* The backup register. *)

\* The boot takes the request out of the register before anything but the check
\* of the application can run, so that none is carried out twice; it stays in
\* the register of a board that has no bootloader.
Register ==
  /\ mode \in {"window", "xcp", "app", "upgrade"} => bkp = "none"
  /\ mode = "upgrade" => bootBkp # "ENTER_XCP"
  /\ mode = "check" => bkp = IF bootBkp = "ENTER_XCP" THEN "ENTER_XCP" ELSE "none"
  /\ mode = "hang" => bkp = "none" \/ ~BlRunnable(mem)

LEMMA RegisterInit == Init => Register
BY DEF Init, Register

LEMMA RegisterReset ==
  ASSUME Reset
  PROVE  Register'
BY DEF Reset, Restart, Register

LEMMA WindowExpireRegister ==
  ASSUME Register, WindowExpire
  PROVE  Register'
BY DEF WindowExpire, BootApp, Register

LEMMA BlStepRegister ==
  ASSUME TypeOK, Control, Register, BlStep
  PROVE  Register'
<1>1. CASE BootStart
  BY <1>1 DEF BootStart, Register, TypeOK, BlRunnable
<1>2. CASE CheckApp \/ WindowPending \/ WindowByte
  BY <1>2 DEF CheckApp, WindowPending, WindowByte, Register
<1>3. CASE NotListening \/ DropFrame \/ DropAck
  BY <1>3 DEF NotListening, DropFrame, DropAck, devVars, Register, BlRunnable
<1>4. CASE Upgrade
  <2>1. mode = "upgrade"
    BY <1>4 DEF Upgrade, UpgradeErase, UpgradeCopyWord, UpgradeEnd, UpgradeMismatch,
                UpgradeFault, Control, JobMode
  <2> QED BY <1>4, <2>1 DEF Upgrade, UpgradeErase, UpgradeCopyWord, UpgradeEnd,
       UpgradeMismatch, UpgradeFault, UpgradeReturn, Register
<1>5. CASE Receive \/ Overrun \/ StrayTimeout
  BY <1>5 DEF Receive, Listening, Overrun, StrayTimeout, Register
<1>6. CASE Command
  <2>1. mode = "xcp"
    BY <1>6 DEF Command, EraseDone, EraseFail, WriteStep, WriteFail, WriteDone, BootJump,
                Control, JobMode
  <2> QED BY <1>6, <2>1 DEF Command, EraseDone, EraseFail, Answer, WriteStep,
       WriteFail, WriteDone, BootJump, BootApp, Register
<1>7. CASE AppReceive
  BY <1>7 DEF AppReceive, AppRequest, Restart, devVars, Register
<1>8. CASE PowerFail
  BY <1>8, RegisterReset DEF PowerFail
<1> QED BY <1>1, <1>2, <1>3, <1>4, <1>5, <1>6, <1>7, <1>8 DEF BlStep

\* Without a fault, only the application puts a request there, and only the boot
\* takes it out.
LEMMA CalmRegister ==
  ASSUME TypeOK, Control, Register, BlStep, faults' = faults, mode # "upgrade"
  PROVE  \/ bkp' = bkp
         \/ /\ bkp' = "none" /\ mode \in {"reset", "check"}
            /\ bkp = "ENTER_XCP" => mode' = "xcp"
         \/ /\ mode = "app" /\ toBl.cmd \in Texts /\ toBl' = NoFrame
            /\ bkp' = IF toBl.cmd = "atbl" THEN "UPGRADE_BL" ELSE "ENTER_XCP"
<1>1. CASE mode = "reset"
  BY <1>1, CalmSteps DEF BootStart, NotListening
<1>2. CASE mode = "check"
  BY <1>2, CalmSteps DEF CheckApp, NotListening, Register
<1>3. CASE mode = "window"
  BY <1>3, CalmSteps DEF WindowPending, WindowByte
<1>4. CASE mode = "hang"
  BY <1>4, CalmSteps DEF NotListening
<1>5. CASE mode = "app"
  <2>1. AppReceive
    BY <1>5, CalmSteps
  <2> QED BY <1>5, <2>1 DEF AppReceive, AppRequest, devVars
<1>6. CASE mode = "xcp"
  BY <1>6, CalmSteps
     DEF Receive, Overrun, StrayTimeout, EraseDone, Answer, WriteStep, WriteFail,
         WriteDone, BootJump
<1> QED BY <1>1, <1>2, <1>3, <1>4, <1>5, <1>6 DEF TypeOK

\* A reset that cuts nothing short leaves the flash alone.
LEMMA ResetKeepsFlash ==
  ASSUME Control, Reset, mode \notin {"xcp", "upgrade"}
  PROVE  mem' = mem
<1>1. job.op \notin {"erase", "write", "boot", "upgErase", "upgCopy"}
  BY DEF Control, JobMode
<1> QED BY <1>1 DEF Reset, TornMemory

=============================================================================
