------------------------ MODULE BootloaderEnv_proofs ------------------------
(***************************************************************************)
(* Proofs about the bootloader with an arbitrary peer, for sectors of any  *)
(* length, any number of application sectors, any set of frames that stay  *)
(* inside the flash and any number of faults: the lemmas of                *)
(* Bootloader_proofs carried through the steps of the peer.                *)
(***************************************************************************)
EXTENDS BootloaderEnv, Bootloader_proofs

-----------------------------------------------------------------------------
(* Type correctness and control. *)

LEMMA NextType == TypeOK /\ [Next]_blVars => TypeOK'
<1> SUFFICES ASSUME TypeOK, [Next]_blVars PROVE TypeOK'
  OBVIOUS
<1>1. CASE BlStep
  BY <1>1, BlStepType
<1>2. CASE WindowTimeout
  BY <1>2, WindowExpireType DEF WindowTimeout, TypeOK
<1>3. CASE SendFrame
  BY <1>3, EnvAssumption DEF SendFrame, FramesInFlash, devVars, TypeOK
<1>4. CASE ReadAck
  BY <1>4 DEF ReadAck, devVars, TypeOK
<1>5. CASE UNCHANGED blVars
  BY <1>5 DEF blVars, devVars, TypeOK
<1> QED BY <1>1, <1>2, <1>3, <1>4, <1>5 DEF Next

\* Every variable keeps its type: in particular every address and every word
\* a command or the self-upgrade uses exists.
THEOREM TypeCorrect == Spec => []TypeOK
BY InitType, NextType, PTL DEF Spec

LEMMA ControlStep == TypeOK /\ Control /\ [Next]_blVars => Control'
<1> SUFFICES ASSUME TypeOK, Control, [Next]_blVars PROVE Control'
  OBVIOUS
<1>1. CASE BlStep
  BY <1>1, BlStepControl
<1>2. CASE WindowTimeout
  BY <1>2, WindowExpireControl DEF WindowTimeout
<1>3. CASE SendFrame \/ ReadAck \/ UNCHANGED blVars
  BY <1>3 DEF SendFrame, ReadAck, blVars, devVars, Control, JobMode
<1> QED BY <1>1, <1>2, <1>3 DEF Next

-----------------------------------------------------------------------------
(* The entry point. *)

\* What was read at boot, and what was made of it.
Tested ==
  /\ appok => apc \in ValidVectors
  /\ mode = "app" => entry \in ValidVectors

LEMMA BlStepTested ==
  ASSUME TypeOK, Control, Tested, BlStep
  PROVE  Tested'
<1> USE DEF Tested
<1>1. CASE BootStart \/ WindowPending \/ WindowByte \/ NotListening
  BY <1>1 DEF BootStart, WindowPending, WindowByte, NotListening
<1>2. CASE CheckApp
  <2>1. appok' = AppValid(mem) /\ apc' = mem[AppBase] /\ mode' # "app"
    BY <1>2 DEF CheckApp
  <2> QED BY <2>1 DEF AppValid
<1>3. CASE Upgrade
  <2>1. mode = "upgrade"
    BY <1>3 DEF Upgrade, UpgradeErase, UpgradeCopyWord, UpgradeEnd, UpgradeMismatch,
                UpgradeFault, Control, JobMode
  <2> QED
    BY <1>3, <2>1 DEF Upgrade, UpgradeErase, UpgradeCopyWord, UpgradeEnd,
                      UpgradeMismatch, UpgradeFault, UpgradeReturn
<1>4. CASE Receive \/ Overrun \/ StrayTimeout \/ DropFrame \/ DropAck
  BY <1>4 DEF Receive, Overrun, StrayTimeout, DropFrame, DropAck, devVars
<1>5. CASE Command
  BY <1>5 DEF Command, EraseDone, EraseFail, Answer, WriteStep, WriteFail,
              WriteDone, BootJump, BootApp
<1>6. CASE AppReceive \/ PowerFail
  BY <1>6 DEF AppReceive, AppRequest, PowerFail, Reset, Restart, devVars
<1> QED BY <1>1, <1>2, <1>3, <1>4, <1>5, <1>6 DEF BlStep

LEMMA TestedStep == TypeOK /\ Control /\ Tested /\ [Next]_blVars => Tested'
<1> SUFFICES ASSUME TypeOK, Control, Tested, [Next]_blVars PROVE Tested'
  OBVIOUS
<1>1. CASE BlStep
  BY <1>1, BlStepTested
<1>2. CASE WindowTimeout \/ SendFrame \/ ReadAck \/ UNCHANGED blVars
  BY <1>2 DEF WindowTimeout, WindowExpire, BootApp, SendFrame, ReadAck, blVars, devVars,
              Tested
<1> QED BY <1>1, <1>2 DEF Next

\* Whatever was erased, written or torn since the vectors were read, control
\* goes to an entry point that was tested together with them.
THEOREM StartedIsTested == Spec => []StartedPassedTest
<1>1. Init => Tested
  BY DEF Init, Tested
<1>2. Tested => StartedPassedTest
  BY DEF Tested, StartedPassedTest
<1> QED BY <1>1, <1>2, TestedStep, ControlInit, ControlStep, TypeCorrect, PTL DEF Spec

-----------------------------------------------------------------------------
(* The self-upgrade. *)

LEMMA UpgradingStep == TypeOK /\ Control /\ Upgrading /\ [Next]_blVars => Upgrading'
<1> SUFFICES ASSUME TypeOK, Control, Upgrading, [Next]_blVars PROVE Upgrading'
  OBVIOUS
<1>1. CASE BlStep
  BY <1>1, BlStepUpgrading
<1>2. CASE WindowTimeout
  BY <1>2, UpgradingKept DEF WindowTimeout, WindowExpire, BootApp
<1>3. CASE SendFrame \/ ReadAck \/ UNCHANGED blVars
  BY <1>3, UpgradingKept DEF SendFrame, ReadAck, blVars, devVars
<1> QED BY <1>1, <1>2, <1>3 DEF Next

\* The next boot announces "BL UPGRADED" only of a copy that is complete,
\* whatever failed or was interrupted while BL_TEMP was written or copied.
THEOREM UpgradeIsComplete == Spec => []UpgradedMeansCopied
<1>1. Upgrading => UpgradedMeansCopied
  BY DEF Upgrading
<1> QED
  BY <1>1, ControlInit, ControlStep, UpgradingInit, UpgradingStep, TypeCorrect, PTL
     DEF Spec
-----------------------------------------------------------------------------
(* The write command. *)

LEMMA WritingStep == TypeOK /\ Control /\ Writing /\ [Next]_blVars => Writing'
<1> SUFFICES ASSUME TypeOK, Control, Writing, [Next]_blVars PROVE Writing'
  OBVIOUS
<1>1. CASE BlStep
  BY <1>1, BlStepWriting
<1>2. CASE WindowTimeout \/ ReadAck \/ UNCHANGED blVars
  BY <1>2 DEF WindowTimeout, WindowExpire, ReadAck, blVars, devVars, Writing
<1>3. CASE SendFrame
  <2>1. toBl'.addr + Len(toBl'.data) <= FlashSize /\ UNCHANGED <<mem, job>>
    BY <1>3, EnvAssumption DEF SendFrame, FramesInFlash, FlashSize, devVars
  <2> QED BY <2>1 DEF Writing
<1> QED BY <1>1, <1>2, <1>3 DEF Next

\* Neither an unchanged, a shortened nor another answer looks like a new 0.
LEMMA OnlyNewZero ==
  ASSUME toHost \in Seq(Status), toHost' = Append(toHost, 0)
  PROVE  /\ toHost' # toHost
         /\ toHost # <<>> => toHost' # Tail(toHost)
         /\ \A s \in Status : Ack(s) => s = 0
<1>1. Len(toHost') = Len(toHost) + 1 /\ toHost'[Len(toHost) + 1] = 0
  OBVIOUS
<1>2. toHost # <<>> => Len(Tail(toHost)) = Len(toHost) - 1
  OBVIOUS
<1>3. Len(toHost) \in Nat
  OBVIOUS
<1>4. ASSUME NEW s \in Status, Ack(s) PROVE s = 0
  <2>1. toHost' = Append(toHost, s)
    BY <1>1, <1>3, <1>4 DEF Ack
  <2>2. toHost'[Len(toHost) + 1] = s
    BY <2>1
  <2> QED BY <1>1, <2>2
<1> QED BY <1>1, <1>2, <1>3, <1>4

\* The step behind AckedWriteIsInFlash.
LEMMA AckedWriteStep ==
  ASSUME TypeOK, Control, Writing, Next,
         job.op = "write", toHost' = Append(toHost, 0)
  PROVE  \A i \in 1 .. Len(job.data) : mem'[job.addr + i - 1] = job.data[i]
<1>1. mode = "xcp" /\ job # NoJob /\ 1 \in Status
  BY DEF Control, JobMode, NoJob, Job, Status
<1>2. toHost' # toHost /\ (toHost # <<>> => toHost' # Tail(toHost)) /\ ~Ack(1)
  BY <1>1, OnlyNewZero DEF TypeOK
<1>3. CASE WriteDone
  BY <1>3 DEF WriteDone, Writing
<1>4. CASE BlStep /\ ~Command
  BY <1>1, <1>2, <1>4
     DEF BlStep, BootStart, CheckApp, WindowPending, WindowByte, NotListening,
         Upgrade, UpgradeErase, UpgradeCopyWord, UpgradeEnd, UpgradeMismatch,
         UpgradeFault, Receive, Listening, Overrun, StrayTimeout, AppReceive,
         DropFrame, DropAck, PowerFail, Reset
<1>5. CASE Command /\ ~WriteDone
  BY <1>2, <1>5 DEF Command, EraseDone, EraseFail, Answer, WriteStep, WriteFail, BootJump
<1>6. CASE WindowTimeout \/ SendFrame \/ ReadAck
  BY <1>1, <1>2, <1>6 DEF WindowTimeout, WindowExpire, SendFrame, ReadAck
<1> QED BY <1>3, <1>4, <1>5, <1>6 DEF Next, BlStep

\* A write answered 0 is in the flash, whatever the peer, the line, the power
\* supply and earlier commands did.
THEOREM AckedWriteStands == Spec => AckedWriteIsInFlash
<1>1. TypeOK /\ Control /\ Writing /\ [Next]_blVars
      => [ job.op = "write" /\ toHost' = Append(toHost, 0)
           => \A i \in 1..Len(job.data) : mem'[job.addr + i - 1] = job.data[i] ]_blVars
  BY AckedWriteStep
<1> QED
  BY <1>1, ControlInit, ControlStep, WritingInit, WritingStep, TypeCorrect, PTL
     DEF Spec, AckedWriteIsInFlash

-----------------------------------------------------------------------------
(* Cells. *)

\* The step behind OnlyNamedCellsChange.
LEMMA NamedCellsStep ==
  ASSUME TypeOK, Control, BlStep, NEW c \in Cells, mem'[c] # mem[c]
  PROVE  \/ mode = "upgrade" /\ c \in BlCells
         \/ job.op = "erase" /\ SectorOf(c) = SectorOf(job.addr)
         \/ job.op = "write" /\ job.addr <= c /\ c < job.addr + Len(job.data)
<1>1. CASE mode = "upgrade"
  BY <1>1, Untouched DEF Control, JobMode
<1>2. CASE mode # "upgrade" /\ job.op = "erase"
  <2>1. Aimed(job.op, job.addr, job.data, SectorCells(job.addr))
    BY <1>2 DEF Aimed
  <2> QED BY <1>2, <2>1, CommandWithin DEF SectorCells
<1>3. CASE mode # "upgrade" /\ job.op = "write"
  <2> DEFINE C == job.addr .. (job.addr + Len(job.data) - 1)
  <2>1. job.addr \in Nat /\ Len(job.data) \in Nat /\ c \in Nat
    BY FlashSizeNat DEF TypeOK, Jobs
  <2>2. Aimed(job.op, job.addr, job.data, C)
    BY <1>3, <2>1 DEF Aimed
  <2>3. c \in C
    BY <1>3, <2>2, CommandWithin
  <2> QED BY <1>3, <2>1, <2>3
<1>4. CASE mode # "upgrade" /\ job.op \notin {"erase", "write"}
  <2>1. Aimed(job.op, job.addr, job.data, {})
    BY <1>4 DEF Aimed
  <2> QED BY <1>4, <2>1, CommandWithin
<1> QED BY <1>1, <1>2, <1>3, <1>4

\* No step of the board changes a cell that the command in hand does not name,
\* whichever cells those are, and however the command ends; outside commands only
\* the self-upgrade changes any, and only in sector 0.
THEOREM NamedCellsOnly == Spec => OnlyNamedCellsChange
<1>1. TypeOK /\ Control /\ [Next]_blVars
      => [ \A c \in Cells : mem'[c] # mem[c] =>
             \/ mode = "upgrade" /\ c \in BlCells
             \/ job.op = "erase" /\ SectorOf(c) = SectorOf(job.addr)
             \/ job.op = "write" /\ job.addr <= c /\ c < job.addr + Len(job.data) ]_blVars
  <2> SUFFICES ASSUME TypeOK, Control, Next, NEW c \in Cells, mem'[c] # mem[c]
               PROVE  \/ mode = "upgrade" /\ c \in BlCells
                      \/ job.op = "erase" /\ SectorOf(c) = SectorOf(job.addr)
                      \/ job.op = "write" /\ job.addr <= c /\ c < job.addr + Len(job.data)
    OBVIOUS
  <2>1. ~(WindowTimeout \/ SendFrame \/ ReadAck)
    BY DEF WindowTimeout, WindowExpire, SendFrame, ReadAck, devVars
  <2> QED BY <2>1, NamedCellsStep DEF Next
<1> QED
  BY <1>1, ControlInit, ControlStep, TypeCorrect, PTL DEF Spec, OnlyNamedCellsChange

-----------------------------------------------------------------------------
(* Sector 0. *)

\* The peer erases and writes only from the application's first word on.
FramesAboveSector0 ==
  \A f \in EnvFrames : f.cmd \in {"erase", "write"} => f.addr >= AppBase

LEMMA AboveStep ==
  FramesAboveSector0 /\ TypeOK /\ Above /\ [Next]_blVars => Above'
<1> SUFFICES ASSUME FramesAboveSector0, TypeOK, Above, [Next]_blVars PROVE Above'
  OBVIOUS
<1>1. CASE BlStep
  BY <1>1, BlStepAbove
<1>2. CASE WindowTimeout \/ ReadAck \/ UNCHANGED blVars
  <2>1. toBl' = toBl /\ job' = job
    BY <1>2 DEF WindowTimeout, WindowExpire, ReadAck, blVars, devVars
  <2> QED BY <2>1 DEF Above
<1>3. CASE SendFrame
  <2>1. toBl' \in EnvFrames /\ job' = job
    BY <1>3 DEF SendFrame, devVars
  <2>2. Aimed(toBl'.cmd, toBl'.addr, toBl'.data, AboveSector0)
    BY <2>1, AimedAbove, EnvAssumption DEF FramesInFlash, FramesAboveSector0, FlashSize
  <2> QED BY <2>1, <2>2 DEF Above
<1> QED BY <1>1, <1>2, <1>3 DEF Next

\* For a peer that does not name sector 0 the bootloader protects itself: only
\* the self-upgrade, resets in the middle of it included, changes sector 0.
THEOREM Sector0Protected ==
  ASSUME FramesAboveSector0
  PROVE  Spec => OnlyUpgradeTouchesSector0
<1>1. TypeOK /\ Above /\ [Next]_blVars => Above'
  BY AboveStep
<1>2. TypeOK /\ Control /\ Above /\ [Next]_blVars
      => [ mode # "upgrade" => \A c \in BlCells : mem'[c] = mem[c] ]_blVars
  <2> SUFFICES ASSUME TypeOK, Control, Above, Next, mode # "upgrade", NEW c \in BlCells
               PROVE  mem'[c] = mem[c]
    OBVIOUS
  <2>1. CASE BlStep
    BY <2>1, Sector0Step
  <2>2. CASE WindowTimeout \/ SendFrame \/ ReadAck
    BY <2>2 DEF WindowTimeout, WindowExpire, SendFrame, ReadAck, devVars
  <2> QED BY <2>1, <2>2 DEF Next
<1> QED
  BY <1>1, <1>2, AboveInit, ControlInit, ControlStep, TypeCorrect, PTL
     DEF Spec, OnlyUpgradeTouchesSector0

=============================================================================
