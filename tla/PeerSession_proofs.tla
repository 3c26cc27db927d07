------------------------- MODULE PeerSession_proofs -------------------------
(***************************************************************************)
(* Proof that success reported by any of the other peers is success: the   *)
(* argument of OtaSession_proofs for programs that do not all empty their  *)
(* input before a frame, and that all stop at an error or fail at the end. *)
(* For files and batches of any length, any command lines, with --addr     *)
(* anywhere in the flash, sector 0 included, and any number of faults.     *)
(*                                                                         *)
(* Further below: what a run may change of the flash, and that V4 succeeds *)
(* if nothing of its own run fails, whatever an agent before it has left,  *)
(* provided that --addr puts the file where it fits.                       *)
(***************************************************************************)
EXTENDS PeerSession, Bootloader_proofs

\* The program erases or writes, and every batch so far was answered 0.
Clean == phase = "stage" /\ Stage \in {"erase", "write"} /\ errs = 0

Sent == toBl = CurFrame /\ NoCommand /\ toHost = <<>>

Working ==
  /\ toBl = NoFrame /\ toHost = <<>>
  /\ job.op = CurFrame.cmd /\ job.addr = CurFrame.addr /\ job.data = CurFrame.data

\* The file up to word n, or to its end, is in the flash.
Programmed(n) == \A i \in 1 .. Len(img) : i <= n => mem[base + i - 1] = img[i]

Answering ==
  /\ toBl = NoFrame /\ NoCommand
  /\ Len(toHost) = 1
  /\ Stage = "write" /\ toHost[1] = 0 => Programmed((idx + 1) * Batch)
  /\ Stage = "erase" /\ base < SectorWords => toHost[1] # 0

Lost == toBl = NoFrame /\ NoCommand /\ toHost = <<>>

\* One request at a time; between two requests no answer is on its way, so
\* that nothing is missed when the input is not emptied.
OneRequest ==
  Clean =>
    /\ ~waiting => NoCommand /\ toHost = <<>> /\ toBl.cmd \notin XcpCmds
    /\ waiting => Sent \/ Working \/ Answering \/ Lost

Progress == Clean /\ Stage = "write" => Programmed(idx * Batch)

\* While it gets the board's attention, the program sends no command, and once
\* the console has shown something, none is being carried out.
Connecting ==
  /\ Attracting => ~waiting /\ toBl.cmd \in {"none", "at", "55"}
  /\ Attracting /\ toBl.cmd = "55" => seen # {}
  /\ seen # {} => phase = "enter" /\ NoCommand

\* The last batch was answered 0, and the program has something to say of it.
Told == Claims /\ \/ phase \in {"ok", "listen"}
                  \/ phase = "stage" /\ Stage \in {"boot", "blreq"}

Finished ==
  Told => /\ Programmed(Len(img))
          /\ job.op \notin {"erase", "write"}
          /\ toBl.cmd \notin {"erase", "write"}

SessionInv == OneRequest /\ Progress /\ Connecting /\ Finished

\* Nobody has asked for a self-upgrade.
NoRequest == mode # "upgrade" /\ bkp # "UPGRADE_BL" /\ toBl.cmd # "atbl"

\* At an address in sector 0 the PC tool does not come past its first erase, which
\* takes the code that should answer it; and no self-upgrade undoes what it has
\* written there without.
OwnSector ==
  base < SectorWords =>
    /\ phase = "stage" => /\ Stage = "erase" => idx = 0
                          /\ Stage = "write" => ~Does("erase")
                          /\ Stage # "blreq"
    /\ \/ Clean /\ Stage = "write"
       \/ Told
       \/ phase = "enter" /\ "ready" \in seen
       => NoRequest

Base == PeerTypeOK /\ Control /\ Writing /\ CodeThere

Inv == Base /\ Register /\ OwnSector /\ SessionInv

-----------------------------------------------------------------------------
(* The file, its batches, and the stages. *)

LEMMA RunAddress ==
  ASSUME NEW r \in Runs
  PROVE  r.addr \in Nat
<1>1. r \in RunType
  BY PeerAssumption
<1> QED BY <1>1, FlashSizeNat DEF RunType

LEMMA FileLength ==
  img \in Seq(Words) /\ Len(img) \in Nat \ {0}
<1>1. AppSectors * SectorWords \in Nat /\ SectorWords \in Nat
  BY FlashAssumption
<1> QED BY <1>1, PeerAssumption DEF img

\* The file lies in the flash, wherever --addr puts it.
LEMMA FileInFlash ==
  ASSUME PeerTypeOK
  PROVE  /\ img \in Seq(Words) /\ Len(img) \in Nat \ {0}
         /\ base \in Nat /\ base + Len(img) <= FlashSize
<1>1. /\ SectorWords \in Nat \ {0} /\ AppSectors \in Nat \ {0}
      /\ Len(BlImage) \in 1 .. SectorWords
  BY FlashAssumption, PeerAssumption
<1>2. CASE run.file = "bl"
  <2>1. img = BlImage /\ base = BlTemp
    BY <1>2 DEF img, base
  <2>2. Len(BlImage) \in Nat /\ Len(BlImage) <= SectorWords
    BY <1>1
  <2>3. BlTemp \in Nat /\ BlTemp + SectorWords <= FlashSize
    BY <1>1 DEF BlTemp, FlashSize, NSectors
  <2>4. FlashSize \in Nat /\ BlTemp + Len(BlImage) <= FlashSize
    BY <1>1, <2>2, <2>3, FlashSizeNat
  <2> QED BY <2>1, <2>3, <2>4, FileLength
<1>3. CASE run.file # "bl"
  <2>1. img = AppImage /\ base = run.addr /\ run \in Runs
    BY <1>3 DEF img, base, PeerTypeOK
  <2>2. run.addr \in Nat
    BY <2>1, RunAddress
  <2>3. run.addr + Len(AppImage) <= FlashSize
    BY <2>1, PeerAssumption DEF FlashSize
  <2> QED BY <2>1, <2>2, <2>3, FileLength
<1> QED BY <1>2, <1>3

LEMMA Widths == SectorWords \in Nat \ {0} /\ Batch \in Nat \ {0}
BY FlashAssumption, PeerAssumption DEF Batch

\* Both counts are those of RoundUp and StepInside.
LEMMA Counts ==
  /\ CeilDiv(Len(img), SectorWords) = (Len(img) + SectorWords - 1) \div SectorWords
  /\ CeilDiv(Len(img), Batch) = (Len(img) + Batch - 1) \div Batch
  /\ CeilDiv(Len(img), SectorWords) \in Nat \ {0}
  /\ CeilDiv(Len(img), Batch) \in Nat \ {0}
  /\ CeilDiv(Len(img), Batch) * Batch >= Len(img)
<1>1. /\ CeilDiv(Len(img), SectorWords) = (Len(img) + SectorWords - 1) \div SectorWords
      /\ CeilDiv(Len(img), Batch) = (Len(img) + Batch - 1) \div Batch
  BY DEF CeilDiv
<1> QED BY <1>1, RoundUp, FileLength, Widths

\* What a program works with depends on its command line only.
LEMMA SameRun ==
  ASSUME run' = run
  PROVE  /\ img' = img /\ base' = base /\ Batch' = Batch
         /\ Agent' = Agent /\ Unheeded' = Unheeded /\ Claims' = Claims
         /\ Fits' = Fits /\ \A s \in {"erase", "write", "blreq"} : Does(s)' = Does(s)
         /\ CeilDiv(Len(img), SectorWords)' = CeilDiv(Len(img), SectorWords)
         /\ CeilDiv(Len(img), Batch)' = CeilDiv(Len(img), Batch)
BY DEF img, base, Batch, Agent, Unheeded, Claims, Does, CeilDiv, Fits

LEMMA SameHost ==
  ASSUME UNCHANGED hostVars
  PROVE  /\ UNCHANGED <<run, phase, step, idx, waiting, errs>>
         /\ img' = img /\ base' = base /\ Batch' = Batch
         /\ Stage' = Stage /\ CurFrame' = CurFrame
         /\ Clean' = Clean /\ Told' = Told /\ Claims' = Claims
         /\ Attracting' = Attracting
         /\ CeilDiv(Len(img), SectorWords)' = CeilDiv(Len(img), SectorWords)
         /\ CeilDiv(Len(img), Batch)' = CeilDiv(Len(img), Batch)
<1>1. UNCHANGED <<run, phase, step, idx, waiting, errs>>
  BY DEF hostVars
<1>2. Stage' = Stage
  BY <1>1 DEF Stage
<1> QED BY <1>1, <1>2, SameRun
        DEF CurFrame, EraseFrame, WriteFrame, Clean, Told, Attracting

\* The commands erase before they write and write before they boot.
StagesInOrder(s) ==
  /\ Len(s) \in Nat \ {0}
  /\ \A i \in 1 .. Len(s) :
       /\ s[i] \in {"erase", "write", "boot", "blreq", "info"}
       /\ s[i] = "erase" /\ i < Len(s) => s[i + 1] = "write"
       /\ s[i] = "write" /\ i < Len(s) => s[i + 1] \in {"boot", "blreq"}
       /\ s[i] \in {"boot", "blreq", "info"} => i = Len(s)
       /\ s[i] \in {"erase", "info"} /\ i = Len(s) =>
            \A j \in DOMAIN s : s[j] # "write"
       /\ s[i] = "blreq" => \E j \in DOMAIN s : s[j] = "erase"

LEMMA SequencesInOrder ==
  ASSUME NEW s \in Sequences
  PROVE  StagesInOrder(s)
<1>1. ASSUME NEW w \in {"info", "erase", "write", "boot"}, s = <<w>>
      PROVE  StagesInOrder(s)
  <2>1. Len(s) = 1 /\ DOMAIN s = 1 .. 1 /\ s[1] = w
    BY <1>1
  <2>2. Len(s) \in Nat \ {0} /\ 1 .. Len(s) = {1}
    BY <2>1
  <2> QED BY <2>1, <2>2 DEF StagesInOrder
<1>2. CASE s = <<"erase", "write">>
  BY <1>2 DEF StagesInOrder
<1>3. CASE s = <<"write", "boot">>
  BY <1>3 DEF StagesInOrder
<1>4. CASE s = Flash
  BY <1>4 DEF StagesInOrder, Flash
<1>5. CASE s = FlashBl
  BY <1>5 DEF StagesInOrder, FlashBl
<1> QED BY <1>1, <1>2, <1>3, <1>4, <1>5 DEF Sequences

LEMMA RunFacts ==
  ASSUME NEW r \in Runs
  PROVE  /\ r \in RunType /\ r.stages \in Sequences /\ StagesInOrder(r.stages)
         /\ r.by # "v4" => r.enter = "at"
<1>1. r \in RunType
  BY PeerAssumption
<1>2. r.stages \in Sequences /\ r.by \in Programs
  BY <1>1 DEF RunType
<1>3. r.by # "v4" => r.enter = "at"
  BY <1>2, PeerAssumption DEF Programs
<1> QED BY <1>1, <1>2, <1>3, SequencesInOrder

LEMMA StageFacts ==
  ASSUME PeerTypeOK
  PROVE  /\ Len(run.stages) \in Nat \ {0} /\ step \in Nat
         /\ Stage \in {"erase", "write", "boot", "blreq", "info"}
         /\ Stage = "erase" /\ step < Len(run.stages) => run.stages[step + 1] = "write"
         /\ Stage = "write" /\ step < Len(run.stages)
              => run.stages[step + 1] \in {"boot", "blreq"}
         /\ Stage \in {"boot", "blreq", "info"} => ~(step < Len(run.stages))
         /\ Stage \in {"erase", "info"} /\ ~(step < Len(run.stages)) => ~Claims
         /\ Stage = "write" /\ step < Len(run.stages) /\ ~Does("erase")
              => run.stages[step + 1] = "boot"
<1>1. run \in Runs /\ step \in 1 .. Len(run.stages)
  BY DEF PeerTypeOK
<1>2. StagesInOrder(run.stages)
  BY <1>1, RunFacts
<1>3. step < Len(run.stages) => step + 1 \in 1 .. Len(run.stages)
  BY <1>1, <1>2 DEF StagesInOrder
<1> QED BY <1>1, <1>2, <1>3 DEF StagesInOrder, Stage, Claims, Does

\* What a run begins with, and what only the PC tool does.
LEMMA FirstStage ==
  ASSUME NEW r \in Runs
  PROVE  /\ r.enter \in {"at", "probe", "wait"}
         /\ r.stages[1] # "blreq"
         /\ \A i \in DOMAIN r.stages : r.stages[i] = "erase" => r.stages[1] = "erase"
         /\ r.by # "v4" => \A i \in 1 .. Len(r.stages) : r.stages[i] # "info"
<1> DEFINE Begun(s) ==
             /\ s[1] # "blreq"
             /\ \A i \in DOMAIN s : s[i] = "erase" => s[1] = "erase"
<1>1. r \in RunType /\ r.stages \in Sequences /\ r.by \in Programs
  BY RunFacts DEF RunType
<1>2. r.enter \in {"at", "probe", "wait"}
  BY <1>1 DEF RunType
<1>3. Begun(r.stages)
  <2>1. ASSUME NEW w \in {"info", "erase", "write", "boot"}, r.stages = <<w>>
        PROVE  Begun(r.stages)
    <3>1. DOMAIN r.stages = {1} /\ r.stages[1] = w
      BY <2>1
    <3> QED BY <3>1
  <2>2. CASE r.stages \in {Flash, FlashBl, <<"erase", "write">>}
    BY <2>2 DEF Flash, FlashBl
  <2>3. CASE r.stages = <<"write", "boot">>
    BY <2>3
  <2> QED BY <1>1, <2>1, <2>2, <2>3 DEF Sequences
<1>4. ASSUME r.by # "v4" PROVE \A i \in 1 .. Len(r.stages) : r.stages[i] # "info"
  <2>1. r.stages \in {Flash, FlashBl}
    BY <1>1, <1>4, PeerAssumption DEF Programs
  <2> QED BY <2>1 DEF Flash, FlashBl
<1> QED BY <1>2, <1>3, <1>4

\* The stage is one of the run's, and info is the PC tool's.
LEMMA StageOfRun ==
  ASSUME PeerTypeOK
  PROVE  /\ Does(Stage) /\ run.enter \in {"at", "probe", "wait"}
         /\ Agent => Stage # "info"
         /\ step = 1 => Stage # "blreq" /\ (Does("erase") => Stage = "erase")
         /\ Agent => run.enter = "at"
<1>1. run \in Runs /\ step \in 1 .. Len(run.stages)
  BY DEF PeerTypeOK
<1>2. run.stages \in Sequences /\ (run.by # "v4" => run.enter = "at")
  BY <1>1, RunFacts
<1>3. DOMAIN run.stages = 1 .. Len(run.stages)
  BY <1>2 DEF Sequences, Flash, FlashBl
<1> QED BY <1>1, <1>2, <1>3, FirstStage DEF Does, Stage, Agent

-----------------------------------------------------------------------------
(* Frames. *)

LEMMA EraseFrameFits ==
  ASSUME PeerTypeOK, idx < CeilDiv(Len(img), SectorWords)
  PROVE  /\ EraseFrame \in Frames
         /\ EraseFrame.cmd = "erase" /\ EraseFrame.data = <<>>
         /\ EraseFrame.addr + Len(EraseFrame.data) <= FlashSize
<1>1. idx * SectorWords \in Nat /\ idx * SectorWords < Len(img)
  BY FileInFlash, Widths, StepInside, Counts DEF PeerTypeOK
<1>2. base + idx * SectorWords \in Cells
  BY <1>1, FileInFlash, FlashSizeNat
<1>3. /\ EraseFrame.cmd = "erase" /\ EraseFrame.data = <<>>
      /\ EraseFrame.addr = base + idx * SectorWords
      /\ EraseFrame \in Frames
  BY <1>2, JobType DEF EraseFrame, Frame, Frames, XcpCmds
<1> QED BY <1>2, <1>3, FlashSizeNat

\* A batch is a frame inside the flash and holds its part of the file.
LEMMA WriteFrameFits ==
  ASSUME PeerTypeOK, idx < CeilDiv(Len(img), Batch)
  PROVE  /\ WriteFrame \in Frames
         /\ WriteFrame.cmd = "write"
         /\ idx * Batch \in Nat
         /\ WriteFrame.addr = base + idx * Batch
         /\ Len(WriteFrame.data) = SmallerOf((idx + 1) * Batch, Len(img)) - idx * Batch
         /\ \A j \in 1 .. Len(WriteFrame.data) :
              WriteFrame.data[j] = img[idx * Batch + j]
         /\ WriteFrame.addr + Len(WriteFrame.data) <= FlashSize
<1> DEFINE lo == idx * Batch
           hi == SmallerOf((idx + 1) * Batch, Len(img))
<1>0. idx \in Nat
  BY DEF PeerTypeOK
<1>1. lo \in Nat /\ lo < Len(img)
  BY <1>0, FileInFlash, Widths, StepInside, Counts
<1>2. hi \in Nat /\ lo < hi /\ hi <= Len(img)
  <2>1. (idx + 1) * Batch = lo + Batch
    BY <1>0, Widths
  <2> QED BY <1>1, <2>1, Widths, FileInFlash DEF SmallerOf
<1>3. /\ SubSeq(img, lo + 1, hi) \in Seq(Words)
      /\ Len(SubSeq(img, lo + 1, hi)) = hi - lo
      /\ \A j \in 1 .. (hi - lo) : SubSeq(img, lo + 1, hi)[j] = img[lo + j]
  BY <1>1, <1>2, FileInFlash
<1>4. base + lo \in Cells /\ base + lo + (hi - lo) <= FlashSize
  BY <1>1, <1>2, FileInFlash, FlashSizeNat
<1>5. /\ WriteFrame.cmd = "write" /\ WriteFrame.addr = base + lo
      /\ WriteFrame.data = SubSeq(img, lo + 1, hi)
  BY DEF WriteFrame, Frame
<1>6. WriteFrame = Frame("write", base + lo, SubSeq(img, lo + 1, hi))
  BY DEF WriteFrame
<1> HIDE DEF lo, hi
<1>7. WriteFrame \in Frames
  BY <1>3, <1>4, <1>6 DEF Frame, Frames, XcpCmds
<1>8. Len(WriteFrame.data) = hi - lo
  BY <1>3, <1>5
<1>9. WriteFrame.addr + Len(WriteFrame.data) <= FlashSize
  BY <1>1, <1>2, <1>4, <1>5, <1>8
<1> QED BY <1>1, <1>3, <1>5, <1>7, <1>8, <1>9 DEF lo, hi

\* What the program is about to send is a frame inside the flash.
LEMMA CurFrameFits ==
  ASSUME PeerTypeOK, phase = "stage", Stage # "blreq"
  PROVE  /\ CurFrame \in Frames /\ CurFrame.addr + Len(CurFrame.data) <= FlashSize
         /\ CurFrame.cmd = Stage
         /\ Stage = "erase" => CurFrame = EraseFrame
         /\ Stage = "write" => CurFrame = WriteFrame
<1>1. CASE Stage = "erase"
  BY <1>1, EraseFrameFits DEF CurFrame, PeerTypeOK
<1>2. CASE Stage = "write"
  BY <1>2, WriteFrameFits DEF CurFrame, PeerTypeOK
<1>3. CASE Stage \in {"boot", "info"}
  BY <1>3, OtherFrames DEF CurFrame, XcpCmds
<1> QED BY <1>1, <1>2, <1>3, StageFacts

-----------------------------------------------------------------------------
(* Types, modes and jobs, the write command. *)

LEMMA HistoryType ==
  ASSUME PeerTypeOK, History
  PROVE  /\ calm' \in BOOLEAN
         /\ seen' \subseteq {"banner", "wait", "ready", "answered"}
         /\ phase' # "enter" => seen' = {}
BY DEF PeerTypeOK, History, Console, Printed

\* A step of the board or of the operator.
LEMMA BoardBase ==
  ASSUME Base, History, UNCHANGED hostVars, TypeOK', Control', Writing', CodeThere'
  PROVE  Base'
<1>1. PeerTypeOK'
  BY SameHost, HistoryType DEF Base, PeerTypeOK, Idle
<1> QED BY <1>1 DEF Base

\* A step of the program that puts nothing or a good frame on the line.
LEMMA HostBase ==
  ASSUME Base, UNCHANGED devVars, toHost' \in Seq(Status),
         faults' \in 0 .. MaxFaults,
         toBl' \in Frames, toBl'.addr + Len(toBl'.data) <= FlashSize
  PROVE  TypeOK' /\ Control' /\ Writing' /\ CodeThere'
<1>1. TypeOK'
  BY DEF Base, PeerTypeOK, TypeOK, devVars
<1>2. Control'
  BY DEF Base, Control, JobMode, devVars
<1>3. Writing' /\ CodeThere'
  BY DEF Base, Writing, CodeThere, devVars
<1> QED BY <1>1, <1>2, <1>3

\* The host's part of PeerTypeOK.
HostType ==
  /\ run \in Runs /\ phase \in Phases
  /\ step \in 1 .. Len(run.stages)
  /\ idx \in Nat /\ errs \in Nat
  /\ Attracting => step = 1 /\ idx = 0
  /\ phase = "stage" /\ Stage = "erase" => idx < CeilDiv(Len(img), SectorWords)
  /\ phase = "stage" /\ Stage = "write" => idx < CeilDiv(Len(img), Batch)
  /\ errs # 0 => Idle \/ (phase = "stage" /\ Stage = "write" /\ errs <= idx)
  /\ waiting \in BOOLEAN

\* The next stage is begun at its first sector or batch.
LEMMA NextStageStep ==
  ASSUME PeerTypeOK, phase = "stage", run' = run, NextStage
  PROVE  \/ /\ phase' = "ok" /\ UNCHANGED <<step, idx>>
            /\ ~(step < Len(run.stages))
         \/ /\ phase' = "stage" /\ step' = step + 1 /\ idx' = 0
            /\ step < Len(run.stages)
            /\ Stage = "erase" => Stage' = "write"
            /\ Stage = "write" => Stage' \in {"boot", "blreq"}
            /\ Stage \in {"erase", "write"}
BY StageFacts DEF NextStage, Stage

LEMMA NextStageType ==
  ASSUME PeerTypeOK, phase = "stage", run' = run, NextStage,
         errs' \in Nat, waiting' \in BOOLEAN, phase' # "ok" => errs' = 0
  PROVE  HostType'
<1>1. /\ CeilDiv(Len(img), SectorWords)' \in Nat \ {0}
      /\ CeilDiv(Len(img), Batch)' \in Nat \ {0}
  BY SameRun, Counts
<1>2. run' \in Runs /\ idx' \in Nat
  BY NextStageStep DEF PeerTypeOK
<1>3. step' \in 1 .. Len(run'.stages)
  BY NextStageStep, StageFacts DEF PeerTypeOK
<1>4. phase' \in {"ok", "stage"} /\ ~Attracting' /\ (phase' = "ok" => Idle')
  BY NextStageStep DEF Attracting, Idle
<1>5. phase' = "stage" => idx' = 0 /\ errs' = 0
  BY NextStageStep
<1> QED BY <1>1, <1>2, <1>3, <1>4, <1>5 DEF HostType, Phases

\* The program ends, or reads on.
LEMMA GiveType ==
  ASSUME PeerTypeOK, run' = run, NEW o \in {"ok", "failed", "listen"}, Give(o),
         errs' \in Nat, waiting' \in BOOLEAN, o = "listen" => errs' = 0
  PROVE  HostType'
<1>1. phase' = o /\ UNCHANGED <<step, idx>>
  BY DEF Give
<1>2. ~Attracting' /\ (o # "listen" => Idle')
  BY <1>1 DEF Attracting, Idle
<1> QED BY <1>1, <1>2 DEF HostType, PeerTypeOK, Phases

LEMMA AnsweredTypes ==
  ASSUME PeerTypeOK, NEW s \in Nat, Answered(s)
  PROVE  HostType'
<1>0. /\ run' = run /\ phase = "stage" /\ waiting' = FALSE
      /\ errs \in Nat /\ idx \in Nat
      /\ Stage # "write" => errs = 0
      /\ Stage = "write" => errs <= idx
  BY DEF Answered, PeerTypeOK, Idle
<1>1. CASE EraseAnswer(s)
  <2>1. Stage = "erase" /\ errs' = 0
    BY <1>0, <1>1 DEF EraseAnswer
  <2>2. CASE NextStage
    BY <1>0, <2>1, <2>2, NextStageType
  <2>3. CASE \E o \in {"ok", "failed"} : Give(o)
    BY <1>0, <2>1, <2>3, GiveType
  <2>4. CASE /\ idx + 1 < CeilDiv(Len(img), SectorWords)
             /\ idx' = idx + 1 /\ UNCHANGED <<phase, step>>
    <3>1. Stage' = "erase" /\ ~Attracting' /\ phase' = "stage"
      BY <1>0, <2>1, <2>4 DEF Stage, Attracting
    <3>2. /\ idx' \in Nat /\ errs' = 0 /\ errs' \in Nat /\ waiting' = FALSE
          /\ idx' < CeilDiv(Len(img), SectorWords)'
      BY <1>0, <2>1, <2>4, SameRun
    <3>3. run' \in Runs /\ phase' \in Phases /\ step' \in 1 .. Len(run'.stages)
      BY <1>0, <2>4 DEF PeerTypeOK
    <3> QED BY <2>1, <3>1, <3>2, <3>3 DEF HostType
  <2> QED BY <1>1, <2>2, <2>3, <2>4 DEF EraseAnswer
<1>2. CASE WriteAnswer(s)
  <2>1. Stage = "write" /\ errs' \in Nat /\ errs' <= idx + 1
    BY <1>0, <1>2 DEF WriteAnswer
  <2>2. CASE NextStage /\ errs' = 0
    BY <1>0, <2>1, <2>2, NextStageType
  <2>3. CASE \E o \in {"ok", "failed"} : Give(o)
    BY <1>0, <2>1, <2>3, GiveType
  <2>4. CASE /\ idx + 1 < CeilDiv(Len(img), Batch)
             /\ idx' = idx + 1 /\ UNCHANGED <<phase, step>>
    <3>1. Stage' = Stage /\ ~Attracting' /\ phase' = "stage"
      BY <1>0, <2>4 DEF Stage, Attracting
    <3>2. /\ idx' \in Nat /\ errs' \in Nat /\ waiting' = FALSE
          /\ idx' < CeilDiv(Len(img), Batch)' /\ errs' <= idx'
      BY <1>0, <2>1, <2>4, SameRun
    <3>3. run' \in Runs /\ phase' \in Phases /\ step' \in 1 .. Len(run'.stages)
      BY <1>0, <2>4 DEF PeerTypeOK
    <3> QED BY <2>1, <3>1, <3>2, <3>3 DEF HostType
  <2> QED BY <1>2, <2>2, <2>3, <2>4 DEF WriteAnswer
<1>3. CASE BootAnswer(s)
  <2>1. errs' = 0
    BY <1>0, <1>3 DEF BootAnswer
  <2>2. CASE NextStage
    BY <1>0, <2>1, <2>2, NextStageType
  <2>3. CASE \E o \in {"failed", "listen"} : Give(o)
    BY <1>0, <2>1, <2>3, GiveType
  <2>4. run.by \in Programs
    BY <1>0, RunFacts DEF PeerTypeOK, RunType
  <2> QED BY <1>3, <2>2, <2>3, <2>4 DEF BootAnswer, Agent, Programs
<1> QED BY <1>1, <1>2, <1>3 DEF Answered

LEMMA BaseParts ==
  ASSUME Base, History, TypeOK', Control', Writing', CodeThere', HostType'
  PROVE  Base'
<1>1. PeerTypeOK'
  BY HistoryType DEF Base, PeerTypeOK, HostType
<1> QED BY <1>1 DEF Base

\* The program gets the board's attention, but for the reset.
LEMMA ConnectBase ==
  ASSUME Base, History, (\E r \in Runs : Begin(r)) \/ Connect
  PROVE  Base'
<1>0. /\ PeerTypeOK /\ TypeOK /\ toBl \in Frames /\ <<>> \in Seq(Status)
      /\ toBl.addr + Len(toBl.data) <= FlashSize
      /\ toHost \in Seq(Status) /\ faults \in 0 .. MaxFaults
  BY DEF Base, PeerTypeOK, TypeOK, Writing
<1>1. ASSUME NEW r \in Runs, Begin(r) PROVE Base'
  <2>1. /\ toBl' \in {toBl, Bare("at")} /\ toHost' = <<>>
        /\ UNCHANGED <<devVars, faults>>
    BY <1>1 DEF Begin
  <2>2. TypeOK' /\ Control' /\ Writing' /\ CodeThere'
    BY <1>0, <2>1, HostBase, OtherFrames DEF TypeOK, XcpCmds, Texts
  <2>3. /\ run' \in Runs /\ step' = 1 /\ idx' = 0 /\ waiting' = FALSE /\ errs' = 0
        /\ phase' \in {"probe", "request", "enter"}
    BY <1>1 DEF Begin
  <2>4. step' \in 1 .. Len(run'.stages)
    BY <2>3, RunFacts DEF StagesInOrder
  <2>5. HostType'
    BY <2>3, <2>4 DEF HostType, Phases
  <2> QED BY <1>0, <2>2, <2>5, BaseParts
<1>2. CASE Listen \/ AgentConnect \/ AnswerWindow \/ Entered \/ NotEntered
  <2>1. /\ UNCHANGED <<run, step, idx, waiting, errs>>
        /\ Attracting /\ phase' \in {"enter", "stage", "failed"}
        /\ UNCHANGED devVars
        /\ toBl' \in {toBl, StartByte, OtherByte} /\ toHost' \in {toHost, <<>>}
    BY <1>2 DEF Listen, AgentConnect, AnswerWindow, Entered, NotEntered, Attracting,
                hostVars
  <2>2. faults' \in 0 .. MaxFaults
    BY <1>0, <1>2, FaultType DEF Listen, AgentConnect, AnswerWindow, Entered, NotEntered
  <2>3. TypeOK' /\ Control' /\ Writing' /\ CodeThere'
    BY <1>0, <2>1, <2>2, HostBase, OtherFrames
  <2>4. /\ CeilDiv(Len(img), SectorWords)' \in Nat \ {0}
        /\ CeilDiv(Len(img), Batch)' \in Nat \ {0}
    BY <2>1, SameRun, Counts
  <2>5. /\ idx' = 0 /\ step' = 1 /\ errs' = 0 /\ run' \in Runs
        /\ step' \in 1 .. Len(run'.stages)
        /\ waiting' = waiting /\ waiting \in BOOLEAN
    BY <1>0, <2>1 DEF PeerTypeOK, Attracting, Idle
  <2>6. HostType'
    BY <2>1, <2>4, <2>5 DEF HostType, Phases
  <2> QED BY <1>0, <2>3, <2>6, BaseParts
<1> QED BY <1>1, <1>2 DEF Connect

\* The stages.
LEMMA ServeBase ==
  ASSUME Base, History, Serve
  PROVE  Base'
<1>0. /\ PeerTypeOK /\ TypeOK /\ toBl \in Frames /\ <<>> \in Seq(Status)
      /\ toBl.addr + Len(toBl.data) <= FlashSize
      /\ toHost \in Seq(Status) /\ faults \in 0 .. MaxFaults
  BY DEF Base, PeerTypeOK, TypeOK, Writing
<1>1. CASE Send
  <2>1. /\ UNCHANGED <<devVars, faults, run, phase, step, idx, errs>>
        /\ toBl' = CurFrame /\ waiting' = TRUE /\ toHost' \in {toHost, <<>>}
        /\ phase = "stage" /\ Stage # "blreq"
    BY <1>1 DEF Send
  <2>2. TypeOK' /\ Control' /\ Writing' /\ CodeThere'
    BY <1>0, <2>1, HostBase, CurFrameFits
  <2>3. Stage' = Stage /\ Attracting' = Attracting /\ Idle' = Idle
    BY <2>1 DEF Stage, Attracting, Idle
  <2>4. HostType'
    BY <1>0, <2>1, <2>3, SameRun DEF HostType, PeerTypeOK
  <2> QED BY <1>0, <2>2, <2>4, BaseParts
<1>2. ASSUME NEW s \in Nat, Answered(s), toHost' \in Seq(Status),
             faults' \in 0 .. MaxFaults
      PROVE  Base'
  <2>1. UNCHANGED <<devVars, toBl>>
    BY <1>2 DEF Answered
  <2>2. TypeOK' /\ Control' /\ Writing' /\ CodeThere'
    BY <1>0, <1>2, <2>1, HostBase
  <2> QED BY <1>0, <1>2, <2>2, AnsweredTypes, BaseParts
<1>3. CASE ReadAnswer
  <2>1. Head(toHost) \in Status /\ Answered(Head(toHost)) /\ UNCHANGED faults
    BY <1>0, <1>3 DEF ReadAnswer
  <2>2. toHost' \in Seq(Status)
    BY <1>0, <1>3, TailsType DEF ReadAnswer
  <2> QED BY <1>0, <1>2, <2>1, <2>2 DEF Status
<1>4. CASE Timeout
  BY <1>0, <1>2, <1>4, FaultType DEF Timeout, NoAnswer
<1>5. CASE InfoRead
  <2>1. /\ UNCHANGED <<devVars, toBl, faults, run, errs>>
        /\ toHost' = <<>> /\ waiting' = FALSE /\ NextStage
        /\ phase = "stage" /\ Stage = "info"
    BY <1>5 DEF InfoRead
  <2>2. TypeOK' /\ Control' /\ Writing' /\ CodeThere'
    BY <1>0, <2>1, HostBase
  <2>3. errs' = 0 /\ waiting' \in BOOLEAN
    BY <1>0, <2>1 DEF PeerTypeOK, Idle
  <2>4. HostType'
    BY <1>0, <2>1, <2>3, NextStageType
  <2> QED BY <1>0, <2>2, <2>4, BaseParts
<1>6. CASE AppText \/ RequestUpgrade
  <2>1. /\ UNCHANGED <<devVars, toHost, faults, run, step, idx, waiting, errs>>
        /\ toBl' \in {toBl, Bare("atbl")} /\ phase' \in {"ok", "failed"}
    BY <1>6 DEF AppText, RequestUpgrade
  <2>2. TypeOK' /\ Control' /\ Writing' /\ CodeThere'
    BY <1>0, <2>1, HostBase, OtherFrames DEF Texts
  <2>3. Idle' /\ ~Attracting'
    BY <2>1 DEF Idle, Attracting
  <2>4. HostType'
    BY <1>0, <2>1, <2>3 DEF HostType, PeerTypeOK, Phases
  <2> QED BY <1>0, <2>2, <2>4, BaseParts
<1> QED BY <1>1, <1>3, <1>4, <1>5, <1>6 DEF Serve

LEMMA ProbeResetBase ==
  ASSUME Base, History, ProbeReset
  PROVE  Base'
<1>0. /\ PeerTypeOK /\ TypeOK /\ toBl \in Frames
      /\ toBl.addr + Len(toBl.data) <= FlashSize
      /\ toHost \in Seq(Status) /\ faults \in 0 .. MaxFaults
  BY DEF Base, PeerTypeOK, TypeOK, Writing
<1>1. TypeOK' /\ Control' /\ Writing' /\ CodeThere'
  <2>1. CASE Reset /\ UNCHANGED faults
    <3>1. TypeOK' /\ CodeThere'
      BY <1>0, <2>1, ResetType DEF TypeOK, Reset, Restart, CodeThere
    <3> QED BY <2>1, <3>1, ResetControl, ResetWriting DEF Base
  <2>2. CASE Fault /\ UNCHANGED <<devVars, toBl, toHost>>
    <3>1. faults' \in 0 .. MaxFaults
      BY <1>0, <2>2, FaultType
    <3> QED BY <1>0, <2>2, <3>1, HostBase
  <2> QED BY <2>1, <2>2 DEF ProbeReset
<1>2. /\ UNCHANGED <<run, step, idx, waiting, errs>>
      /\ phase' \in {"settle", "failed"} /\ Attracting /\ ~Idle
  BY DEF ProbeReset, Attracting, Idle
<1>3. HostType'
  BY <1>0, <1>2 DEF HostType, PeerTypeOK, Phases
<1> QED BY <1>0, <1>1, <1>3, BaseParts

\* Every step.
LEMMA NextBase ==
  ASSUME Base, Next
  PROVE  Base'
<1>0. TypeOK /\ Control /\ Writing /\ CodeThere /\ History
  BY DEF Base, PeerTypeOK, Next
<1>1. CASE BlStep /\ UNCHANGED hostVars
  BY <1>0, <1>1, BlStepType, BlStepControl, BlStepWriting, BlStepCode, BoardBase
<1>2. CASE WindowTimeout
  <2>1. faults' \in 0 .. MaxFaults
    BY <1>0, <1>2, FaultType DEF WindowTimeout, TypeOK
  <2>2. WindowExpire /\ UNCHANGED hostVars
    BY <1>2 DEF WindowTimeout
  <2>3. Writing' /\ CodeThere'
    BY <1>0, <2>2 DEF WindowExpire, BootApp, Writing, CodeThere
  <2> QED BY <1>0, <2>1, <2>2, <2>3, WindowExpireType, WindowExpireControl, BoardBase
<1>3. CASE PeerStep
  BY <1>0, <1>3, ConnectBase, ServeBase, ProbeResetBase DEF PeerStep
<1>4. CASE UserReset
  <2>1. Reset /\ UNCHANGED <<faults, hostVars>>
    BY <1>4 DEF UserReset
  <2>2. TypeOK' /\ CodeThere'
    BY <1>0, <2>1, ResetType DEF TypeOK, Reset, Restart, CodeThere
  <2> QED BY <1>0, <2>1, <2>2, ResetControl, ResetWriting, BoardBase
<1> QED BY <1>1, <1>2, <1>3, <1>4 DEF Next, Step

LEMMA InitBase == PeerInit => Base
<1> SUFFICES ASSUME PeerInit PROVE Base
  OBVIOUS
<1>1. TypeOK /\ Control /\ Writing /\ CodeThere
  BY InitType, ControlInit, WritingInit DEF PeerInit, Init, CodeThere
<1>2. run \in Runs /\ step = 1 /\ Len(run.stages) \in Nat \ {0}
  BY RunFacts DEF PeerInit, HostInit, StagesInOrder
<1>3. /\ phase = "idle" /\ idx = 0 /\ errs = 0 /\ waiting = FALSE
      /\ seen = {} /\ calm = FALSE
  BY DEF PeerInit, HostInit
<1>4. step \in 1 .. Len(run.stages) /\ idx \in Nat /\ errs \in Nat
  BY <1>2, <1>3
<1>5. PeerTypeOK
  BY <1>1, <1>2, <1>3, <1>4 DEF PeerTypeOK, Phases, Attracting
<1> QED BY <1>1, <1>5 DEF Base

LEMMA StutterBase ==
  ASSUME Base, UNCHANGED vars
  PROVE  Base'
<1>1. UNCHANGED hostVars /\ UNCHANGED <<seen, calm>>
      /\ UNCHANGED <<mem, bkp, mode, bootBkp, appok, apc, entry, job, rx,
                     toBl, toHost, faults>>
  BY DEF vars, blVars, devVars
<1>2. TypeOK' /\ Control' /\ Writing' /\ CodeThere'
  BY <1>1 DEF Base, PeerTypeOK, TypeOK, Control, JobMode, Writing, CodeThere
<1>3. PeerTypeOK'
  BY <1>1, <1>2, SameHost DEF Base, PeerTypeOK, Idle
<1> QED BY <1>2, <1>3 DEF Base

\* The program never asks for a sector or a batch beyond the file, never counts
\* more errors than batches, and knows where it is, whatever it is answered.
THEOREM PeerTypeCorrect == Spec => []PeerTypeOK
<1>1. Base /\ [Next]_vars => Base'
  BY NextBase, StutterBase
<1>2. Base => PeerTypeOK
  BY DEF Base
<1> QED BY <1>1, <1>2, InitBase, PTL DEF Spec

-----------------------------------------------------------------------------
(* Steps of the board. *)

\* What is programmed stays, while the board does not erase and writes behind it.
LEMMA ProgrammedStays ==
  ASSUME Base, BlStep, UNCHANGED hostVars, job.op # "erase",
         base < SectorWords => mode # "upgrade",
         NEW n \in Nat, Programmed(n), job.op = "write" => job.addr >= base + n
  PROVE  Programmed(n)'
<1> SUFFICES ASSUME NEW i \in 1 .. Len(img), i <= n
             PROVE  mem'[base + i - 1] = img[i]
  BY SameHost DEF Programmed
<1>1. PeerTypeOK /\ TypeOK /\ Control /\ job.pos \in Nat /\ job.addr \in Nat
  BY FlashSizeNat DEF Base, PeerTypeOK, TypeOK, Jobs
<1>2. base + i - 1 \in Cells /\ (base + i - 1 \notin BlCells \/ job.op \notin {"upgErase", "upgCopy"})
  <2>1. CASE base < SectorWords
    <3>1. job.op \notin {"upgErase", "upgCopy"}
      BY <1>1, <2>1 DEF Control, JobMode
    <3> QED BY <1>1, <3>1, FileInFlash, FlashSizeNat
  <2>2. CASE ~(base < SectorWords)
    BY <1>1, <2>2, FileInFlash, FlashSizeNat, Widths DEF BlCells
  <2> QED BY <2>1, <2>2
<1>3. job.op = "write" => base + i - 1 # WriteCell
  BY <1>1, FileInFlash DEF WriteCell
<1>4. mem'[base + i - 1] = mem[base + i - 1]
  BY <1>1, <1>2, <1>3, Untouched
<1> QED BY <1>4 DEF Programmed

\* In sector 0 nothing but the frames of the run is on its way.
LEMMA NoUpgradeComes ==
  ASSUME OwnSector, (Clean /\ Stage = "write") \/ Told
  PROVE  base < SectorWords => mode # "upgrade"
BY DEF OwnSector, NoRequest

\* Behind the batch idx, and the batch itself: the file up to the next one.
LEMMA BatchProgrammed ==
  ASSUME PeerTypeOK, phase = "stage", Stage = "write", Programmed(idx * Batch),
         \A j \in 1 .. Len(WriteFrame.data) :
           mem[WriteFrame.addr + j - 1] = WriteFrame.data[j]
  PROVE  Programmed((idx + 1) * Batch)
<1> DEFINE lo == idx * Batch
           data == WriteFrame.data
<1>1. idx \in Nat /\ idx < CeilDiv(Len(img), Batch)
  BY DEF PeerTypeOK
<1>2. /\ lo \in Nat /\ WriteFrame.addr = base + lo
      /\ Len(data) = SmallerOf((idx + 1) * Batch, Len(img)) - lo
      /\ \A j \in 1 .. Len(data) : data[j] = img[lo + j]
  BY <1>1, WriteFrameFits
<1>3. (idx + 1) * Batch = lo + Batch
  BY <1>1, Widths
<1> HIDE DEF data
<1> SUFFICES ASSUME NEW i \in 1 .. Len(img), i <= (idx + 1) * Batch
             PROVE  mem[base + i - 1] = img[i]
  BY DEF Programmed
<1>4. CASE i <= lo
  BY <1>4 DEF Programmed
<1>5. CASE i > lo
  <2>0. lo \in Nat /\ base \in Nat /\ Len(img) \in Nat /\ Batch \in Nat
    BY <1>2, FileInFlash, Widths
  <2> HIDE DEF lo
  <2>1. Len(data) = IF lo + Batch <= Len(img) THEN Batch ELSE Len(img) - lo
    BY <1>2, <1>3, <2>0 DEF SmallerOf
  <2>2. i - lo \in 1 .. Len(data)
    BY <1>3, <1>5, <2>0, <2>1
  <2>3. data[i - lo] = img[lo + (i - lo)]
    BY <1>2, <2>2
  <2>4. mem[base + lo + (i - lo) - 1] = data[i - lo]
    BY <1>2, <2>2 DEF data
  <2>5. lo + (i - lo) = i /\ base + lo + (i - lo) - 1 = base + i - 1
    BY <2>0
  <2> QED BY <2>3, <2>4, <2>5
<1>6. lo \in Int /\ i \in Int
  BY <1>2, FileInFlash
<1> QED BY <1>4, <1>5, <1>6

\* The frame of a request says what kind of request it is.
LEMMA CleanFrame ==
  ASSUME PeerTypeOK, Clean
  PROVE  /\ phase = "stage"
         /\ CurFrame.cmd = Stage /\ Stage \in {"erase", "write"}
         /\ CurFrame.cmd \in XcpCmds
         /\ Stage = "erase" => CurFrame = EraseFrame /\ EraseFrame.data = <<>>
         /\ Stage = "write" => CurFrame = WriteFrame
BY CurFrameFits DEF Clean, XcpCmds, EraseFrame, Frame

\* A step of the board while it carries out the request.
LEMMA WorkingStep ==
  ASSUME Base, OwnSector, Progress, Clean, Working, BlStep, UNCHANGED hostVars, Writing'
  PROVE  Working' \/ Answering' \/ Lost'
<1>0. /\ TypeOK /\ PeerTypeOK /\ mode = "xcp" /\ job.op \in {"erase", "write"}
      /\ job.op = Stage
      /\ job # NoJob /\ toBl = NoFrame /\ toHost = <<>> /\ CurFrame' = CurFrame
      /\ phase' = phase /\ idx' = idx /\ Stage' = Stage /\ Batch' = Batch /\ base' = base
  BY CleanFrame, SameHost DEF Base, PeerTypeOK, Control, JobMode, Working, NoJob, Job
<1>1. 0 < MaxAcks /\ MaxAcks \in Nat /\ Len(<<>>) = 0
  BY BoundsAssumption
<1>2. CASE Command
  <2>1. CASE EraseDone \/ EraseFail
    <3>1. /\ job' = NoJob /\ toBl' = toBl
          /\ \/ toHost' = toHost
             \/ EraseDone /\ toHost' = Append(toHost, 0)
             \/ toHost' = Append(toHost, 1)
      BY <1>0, <1>1, <2>1 DEF EraseDone, EraseFail, Answer, Ack
    <3>2. Stage = "erase" /\ NoCommand'
      BY <1>0, <2>1, <3>1 DEF EraseDone, EraseFail, NoCommand, NoJob, Job
    <3>3. CASE toHost' = toHost
      BY <1>0, <3>1, <3>2, <3>3 DEF Lost
    <3>4. CASE toHost' = Append(toHost, 1)
      <4>1. Len(toHost') = 1 /\ toHost'[1] = 1
        BY <1>0, <3>4
      <4> QED BY <1>0, <3>1, <3>2, <4>1 DEF Answering
    <3>5. CASE EraseDone /\ toHost' = Append(toHost, 0)
      <4>1. Len(toHost') = 1 /\ toHost' # toHost
        BY <1>0, <3>5
      <4>2. base < SectorWords => SectorOf(job.addr) = 0
        <5>1. base < SectorWords => job.addr = base + 0 * SectorWords
          BY <1>0, <3>2, CleanFrame DEF OwnSector, Working, EraseFrame, Frame
        <5> QED BY <1>0, <5>1, FileInFlash, Widths DEF SectorOf
      <4>3. ~(base < SectorWords)
        BY <1>0, <3>5, <4>1, <4>2, ErasedCodeSilent DEF Base
      <4> QED BY <1>0, <3>1, <3>2, <4>1, <4>3 DEF Answering
    <3> QED BY <3>1, <3>3, <3>4, <3>5
  <2>2. CASE WriteStep
    <3>1. /\ job' = [job EXCEPT !.pos = @ + 1]
          /\ UNCHANGED <<toBl, toHost>>
      BY <2>2 DEF WriteStep
    <3>2. job'.op = job.op /\ job'.addr = job.addr /\ job'.data = job.data
      BY <1>0, <3>1 DEF TypeOK, Jobs
    <3> QED BY <1>0, <3>1, <3>2 DEF Working
  <2>3. CASE WriteFail
    <3>1. /\ job' = NoJob /\ toBl' = toBl
          /\ toHost' = toHost \/ toHost' = Append(toHost, 1)
      BY <1>0, <1>1, <2>3 DEF WriteFail, Answer, Ack
    <3>2. /\ NoCommand'
          /\ toHost' # toHost => Len(toHost') = 1 /\ toHost'[1] = 1
      BY <1>0, <3>1 DEF NoCommand, NoJob, Job
    <3> QED BY <1>0, <3>1, <3>2 DEF Answering, Lost
  <2>4. CASE WriteDone
    <3>1. job' = NoJob /\ UNCHANGED <<mem, toBl>> /\ toHost' = Append(toHost, 0)
      BY <1>0, <1>1, <2>4 DEF WriteDone, Ack
    <3>2. NoCommand' /\ Len(toHost') = 1
      BY <1>0, <3>1 DEF NoCommand, NoJob, Job
    <3>3. Stage = "write" /\ CurFrame = WriteFrame /\ phase = "stage"
      BY <2>4, CleanFrame, <1>0 DEF WriteDone
    <3>4. \A j \in 1 .. Len(WriteFrame.data) :
            mem[WriteFrame.addr + j - 1] = WriteFrame.data[j]
      BY <2>4, <3>3 DEF WriteDone, Working, Base, Writing
    <3>5. Programmed((idx + 1) * Batch)
      BY <1>0, <3>3, <3>4, BatchProgrammed DEF Progress
    <3>6. Programmed((idx + 1) * Batch)'
      BY <1>0, <3>1, <3>5, SameHost DEF Programmed
    <3> QED BY <1>0, <3>1, <3>2, <3>3, <3>6 DEF Answering
  <2>5. ~BootJump
    BY <1>0 DEF BootJump
  <2> QED BY <1>2, <2>1, <2>2, <2>3, <2>4, <2>5 DEF Command
<1>3. CASE PowerFail
  BY <1>0, <1>3 DEF PowerFail, Reset, Restart, Lost, NoCommand, NoJob, Job
<1>4. ~(BootStart \/ CheckApp \/ WindowPending \/ WindowByte \/ NotListening)
  BY <1>0 DEF BootStart, CheckApp, WindowPending, WindowByte, NotListening
<1>5. ~(Upgrade \/ Receive \/ Overrun \/ StrayTimeout)
  BY <1>0 DEF Upgrade, UpgradeErase, UpgradeCopyWord, UpgradeEnd, UpgradeMismatch,
              UpgradeFault, Receive, Listening, Overrun, StrayTimeout
<1>6. ~(AppReceive \/ DropFrame \/ DropAck)
  BY <1>0 DEF AppReceive, DropFrame, DropAck
<1> QED BY <1>2, <1>3, <1>4, <1>5, <1>6 DEF BlStep

\* The board finds the request on the line.
LEMMA SentStep ==
  ASSUME Base, Clean, Sent, BlStep, UNCHANGED hostVars
  PROVE  Sent' \/ Working' \/ Lost'
<1>0. TypeOK /\ PeerTypeOK /\ toHost = <<>> /\ CurFrame' = CurFrame
  BY SameHost DEF Base, PeerTypeOK, Sent
<1>1. CASE Receive
  <2>1. /\ job' = Job(CurFrame.cmd, CurFrame.addr, CurFrame.data)
        /\ toHost' = toHost /\ toBl' = NoFrame
    <3>1. CASE Stage = "erase"
      BY <1>0, <1>1, <3>1, CleanFrame DEF Receive, Dispatch, Sent
    <3>2. CASE Stage = "write"
      BY <1>0, <1>1, <3>2, CleanFrame DEF Receive, Dispatch, Sent
    <3> QED BY <1>0, <3>1, <3>2, CleanFrame
  <2> QED BY <1>0, <2>1 DEF Working, Sent, Job
<1>2. CASE ~Receive
  <2>1. NoCommand' /\ toHost' = <<>> /\ toBl' \in {toBl, NoFrame}
    BY <1>0, <1>2, QuietStep, JobStep DEF Sent
  <2> QED BY <1>0, <2>1 DEF Sent, Lost
<1> QED BY <1>1, <1>2

\* An answer is on its way, or nothing.
LEMMA AnsweringStep ==
  ASSUME Base, OwnSector, Clean, Answering, BlStep, UNCHANGED hostVars
  PROVE  Answering' \/ Lost'
<1>0. TypeOK /\ PeerTypeOK /\ toHost \in Seq(Status)
  BY DEF Base, PeerTypeOK, TypeOK
<1>1. ~Receive
  BY OtherFrames DEF Answering, Receive, XcpCmds
<1>2. NoCommand' /\ toBl' = NoFrame
  BY <1>0, <1>1, QuietStep, JobStep DEF Answering
<1>3. CASE toHost' = toHost
  <2>1. ASSUME Stage = "write", toHost[1] = 0
        PROVE  Programmed((idx + 1) * Batch)'
    <3>1. Programmed((idx + 1) * Batch) /\ job.op \notin {"erase", "write"}
      BY <2>1 DEF Answering, NoCommand
    <3>2. (idx + 1) * Batch \in Nat
      BY <1>0, Widths DEF PeerTypeOK
    <3>3. idx' = idx /\ Batch' = Batch
      BY SameHost
    <3> HIDE DEF Programmed
    <3>4. ASSUME NEW n \in Nat, n = (idx + 1) * Batch
          PROVE  Programmed(n)'
      BY <1>0, <2>1, <3>1, <3>4, NoUpgradeComes, ProgrammedStays
    <3> QED BY <3>2, <3>3, <3>4
  <2> QED BY <1>2, <1>3, <2>1, SameHost DEF Answering
<1>4. CASE toHost # <<>> /\ toHost' = Tail(toHost)
  <2>1. toHost' = <<>>
    BY <1>0, <1>4 DEF Answering
  <2> QED BY <1>2, <2>1 DEF Lost
<1> QED BY <1>0, <1>1, <1>3, <1>4, QuietStep DEF Answering

\* A step of the board keeps the exchange in order.
LEMMA BoardOneRequest ==
  ASSUME Inv, BlStep, UNCHANGED hostVars, Base'
  PROVE  OneRequest'
<1>0. /\ Base /\ OwnSector /\ TypeOK /\ PeerTypeOK /\ OneRequest /\ Progress
      /\ toHost \in Seq(Status) /\ Writing'
  BY DEF Inv, Base, SessionInv, PeerTypeOK, TypeOK
<1> SUFFICES ASSUME Clean
             PROVE  /\ ~waiting => /\ NoCommand' /\ toHost' = <<>>
                                   /\ toBl'.cmd \notin XcpCmds
                    /\ waiting => Sent' \/ Working' \/ Answering' \/ Lost'
  BY SameHost DEF OneRequest
<1>1. CASE ~waiting
  <2>1. NoCommand /\ toHost = <<>> /\ toBl.cmd \notin XcpCmds
    BY <1>0, <1>1 DEF OneRequest
  <2>2. ~Receive
    BY <2>1 DEF Receive
  <2>3. NoFrame.cmd \notin XcpCmds
    BY OtherFrames DEF XcpCmds
  <2> QED BY <1>0, <1>1, <2>1, <2>2, <2>3, QuietStep, JobStep
<1>2. CASE waiting /\ Lost
  <2>1. ~Receive
    BY <1>2, OtherFrames DEF Lost, Receive, XcpCmds
  <2> QED BY <1>0, <1>2, <2>1, QuietStep, JobStep DEF Lost
<1>3. CASE waiting /\ (Sent \/ Working \/ Answering)
  BY <1>0, <1>3, SentStep, WorkingStep, AnsweringStep
<1> QED BY <1>0, <1>1, <1>2, <1>3 DEF OneRequest

\* What was programmed stays programmed while the request is carried out.
LEMMA BoardProgress ==
  ASSUME Inv, BlStep, UNCHANGED hostVars
  PROVE  Progress'
<1>0. Base /\ OwnSector /\ PeerTypeOK /\ OneRequest /\ Progress
  BY DEF Inv, Base, SessionInv
<1> SUFFICES ASSUME Clean, Stage = "write"
             PROVE  Programmed(idx * Batch)'
  BY SameHost DEF Progress
<1>1. /\ idx' = idx /\ Batch' = Batch /\ idx \in Nat
      /\ idx < CeilDiv(Len(img), Batch) /\ idx * Batch \in Nat
  BY <1>0, SameHost, Widths, CleanFrame DEF PeerTypeOK
<1>2. job.op # "erase" /\ (job.op = "write" => job.addr >= base + idx * Batch)
  <2>1. CASE NoCommand
    BY <2>1 DEF NoCommand
  <2>2. CASE Working
    <3>1. job.op = "write" /\ job.addr = base + idx * Batch
      BY <1>0, <1>1, <2>2, CleanFrame, WriteFrameFits DEF Working
    <3> QED BY <1>0, <1>1, <3>1, FileInFlash
  <2> QED BY <1>0, <2>1, <2>2 DEF OneRequest, Sent, Answering, Lost
<1>3. Programmed(idx * Batch)
  BY <1>0 DEF Progress
<1>4. ASSUME NEW n \in Nat, n = idx * Batch
      PROVE  Programmed(n)'
  BY <1>0, <1>2, <1>3, <1>4, NoUpgradeComes, ProgrammedStays
<1> QED BY <1>1, <1>4

\* A command is carried out in XCP mode only.
LEMMA ElsewhereNoCommand ==
  ASSUME Control, mode # "xcp"
  PROVE  NoCommand
BY DEF Control, JobMode, NoCommand

\* Whatever the board prints of its start is printed before it listens.
LEMMA BoardConnecting ==
  ASSUME Inv, BlStep, UNCHANGED hostVars, History
  PROVE  Connecting'
<1>0. /\ TypeOK /\ Connecting /\ Control
      /\ phase' = phase /\ waiting' = waiting /\ Attracting' = Attracting
      /\ seen' = IF phase = "enter" THEN seen \cup Printed ELSE {}
      /\ seen \subseteq seen' \/ phase # "enter"
  BY SameHost DEF Inv, Base, SessionInv, PeerTypeOK, History, Console
<1>1. toBl' \in {toBl, NoFrame} /\ NoFrame.cmd = "none" /\ OtherByte.cmd = "55"
  BY <1>0, JobStep, OtherFrames
<1>2. ASSUME Attracting
      PROVE  /\ toBl'.cmd \in {"none", "at", "55"} /\ ~Receive
             /\ toBl'.cmd = "55" => seen # {} /\ seen' # {}
  BY <1>0, <1>1, <1>2 DEF Connecting, Receive, XcpCmds
<1>3. ASSUME phase = "enter", seen' # {}
      PROVE  NoCommand'
  <2>1. Attracting /\ ~Receive
    BY <1>2, <1>3 DEF Attracting
  <2>2. CASE mode # "xcp"
    BY <1>0, <2>1, <2>2, ElsewhereNoCommand, QuietStep
  <2>3. CASE seen # {}
    BY <1>0, <2>1, <2>3, QuietStep DEF Connecting
  <2>4. CASE mode = "xcp" /\ seen = {}
    <3>1. toBl' # OtherByte
      BY <1>1, <1>2, <2>1, <2>4
    <3>2. mode' = "window" => NoCommand'
      <4>1. Control'
        BY <1>0, BlStepControl
      <4> QED BY <4>1 DEF Control, JobMode, NoCommand
    <3> QED BY <1>0, <1>3, <2>4, <3>1, <3>2 DEF Printed
  <2> QED BY <2>2, <2>3, <2>4
<1> QED BY <1>0, <1>2, <1>3 DEF Connecting

LEMMA BoardFinished ==
  ASSUME Inv, BlStep, UNCHANGED hostVars
  PROVE  Finished'
<1>0. Base /\ PeerTypeOK /\ OwnSector /\ TypeOK /\ Finished
  BY DEF Inv, Base, SessionInv, PeerTypeOK
<1> SUFFICES ASSUME Told
             PROVE  /\ Programmed(Len(img))'
                    /\ job'.op \notin {"erase", "write"}
                    /\ toBl'.cmd \notin {"erase", "write"}
  BY SameHost DEF Finished
<1>1. /\ Programmed(Len(img)) /\ job.op \notin {"erase", "write"}
      /\ toBl.cmd \notin {"erase", "write"}
  BY <1>0 DEF Finished
<1>2. toBl'.cmd \notin {"erase", "write"}
  BY <1>0, <1>1, JobStep, OtherFrames
<1>3. Receive => job'.op \notin {"erase", "write"}
  BY <1>1 DEF Receive, Dispatch, Job
<1>4. job'.op \notin {"erase", "write"}
  BY <1>0, <1>1, <1>3, JobStep
<1>5. Len(img) \in Nat /\ img' = img
  BY FileLength, SameHost
<1>6. ASSUME NEW n \in Nat, n = Len(img)
      PROVE  Programmed(n)'
  BY <1>0, <1>1, <1>6, NoUpgradeComes, ProgrammedStays
<1> QED BY <1>2, <1>4, <1>5, <1>6

-----------------------------------------------------------------------------
(* Steps of the program. *)

\* A program that has ended, or is getting attention, has promised nothing of
\* a request.
LEMMA Elsewhere ==
  ASSUME Connecting', phase' # "stage", ~Told'
  PROVE  SessionInv'
BY DEF SessionInv, OneRequest, Progress, Finished, Clean

\* Outside the console's phases nothing has been seen.
LEMMA NotConnecting ==
  ASSUME PeerTypeOK, History, ~Attracting'
  PROVE  Connecting'
<1>1. phase' # "enter"
  BY DEF Attracting
<1>2. seen' = {}
  BY <1>1, HistoryType
<1> QED BY <1>2 DEF Connecting

LEMMA BeginInv ==
  ASSUME Inv, History, NEW r \in Runs, Begin(r)
  PROVE  SessionInv'
<1>1. /\ phase' \in {"probe", "request", "enter"} /\ waiting' = FALSE
      /\ toBl' \in {NoFrame, Bare("at")} /\ phase # "enter" /\ UNCHANGED devVars
  BY DEF Begin, Idle
<1>2. seen = {} /\ toBl'.cmd \in {"none", "at"} /\ toBl' # OtherByte
  BY <1>1, OtherFrames DEF Inv, SessionInv, Connecting, Texts
<1>3. seen' = {}
  BY <1>1, <1>2 DEF History, Console, Printed, devVars
<1>4. Connecting' /\ ~Told' /\ phase' # "stage"
  BY <1>1, <1>2, <1>3 DEF Connecting, Told
<1> QED BY <1>4, Elsewhere

\* What a program does to get attention leaves no command behind it.
LEMMA ConnectInv ==
  ASSUME Inv, History, Connect
  PROVE  SessionInv'
<1>0. /\ PeerTypeOK /\ Connecting /\ waiting' = waiting /\ UNCHANGED devVars
      /\ Attracting /\ ~waiting
      /\ NoFrame.cmd = "none" /\ StartByte.cmd = "aa" /\ OtherByte.cmd = "55"
  BY OtherFrames
     DEF Inv, Base, SessionInv, Connect, Listen, AgentConnect, AnswerWindow, Entered,
         NotEntered, Attracting, Connecting, hostVars
<1>1. seen' = IF phase' = "enter" THEN seen \cup Printed ELSE {}
  BY DEF Inv, History, Console
<1>2. CASE Listen
  <2>1. phase' = "enter" /\ toBl' = toBl /\ phase # "enter"
    BY <1>2 DEF Listen
  <2>2. seen = {} /\ toBl.cmd \in {"none", "at"} /\ toBl # OtherByte
    BY <1>0, <2>1 DEF Connecting
  <2>3. seen' = {}
    BY <1>0, <1>1, <2>1, <2>2 DEF Printed, devVars
  <2>4. Connecting' /\ ~Told' /\ phase' # "stage"
    BY <1>0, <2>1, <2>2, <2>3 DEF Connecting, Told
  <2> QED BY <2>4, Elsewhere
<1>3. CASE AnswerWindow
  <2>1. /\ phase' = "enter" /\ phase = "enter" /\ toBl' = OtherByte /\ job' = job
        /\ "wait" \in seen
    BY <1>0, <1>3 DEF AnswerWindow, hostVars, devVars
  <2>2. NoCommand' /\ seen' # {}
    BY <1>0, <1>1, <2>1 DEF Connecting, NoCommand
  <2>3. Connecting' /\ ~Told' /\ phase' # "stage"
    BY <1>0, <2>1, <2>2 DEF Connecting, Told
  <2> QED BY <2>3, Elsewhere
<1>4. CASE NotEntered
  <2>1. phase' = "failed" /\ ~Attracting'
    BY <1>4 DEF NotEntered, Attracting
  <2> QED BY <1>0, <2>1, NotConnecting, Elsewhere DEF Told
<1>5. CASE AgentConnect \/ Entered
  <2>1. /\ phase' = "stage" /\ UNCHANGED <<run, step, idx, job>> /\ toHost' = <<>>
        /\ phase = "enter" /\ toBl' \in {toBl, StartByte}
        /\ BlQuiet \/ seen # {}
    BY <1>5, <1>0 DEF AgentConnect, Entered, devVars
  <2>2. NoCommand'
    BY <1>0, <2>1 DEF Connecting, NoCommand, BlQuiet, NoJob, Job
  <2>3. toBl'.cmd \notin XcpCmds /\ toBl'.cmd \notin {"erase", "write"}
    BY <1>0, <2>1 DEF Connecting, XcpCmds
  <2>4. Connecting'
    BY <1>0, <2>1, NotConnecting DEF Attracting
  <2>5. OneRequest'
    BY <1>0, <2>1, <2>2, <2>3 DEF OneRequest
  <2>6. step' = 1 /\ idx' = 0 /\ step = 1
    BY <1>0, <2>1 DEF PeerTypeOK
  <2>7. Progress'
    <3>1. idx' * Batch' = 0
      BY <2>1, <2>6, SameRun, Widths
    <3>2. Programmed(0)'
      BY DEF Programmed
    <3> QED BY <3>1, <3>2 DEF Progress, Programmed
  <2>8. ~Told'
    <3>1. StagesInOrder(run.stages) /\ 1 \in 1 .. Len(run.stages)
      BY RunFacts, <1>0, <2>6 DEF PeerTypeOK
    <3>2. Stage' = run.stages[1] /\ Claims' = Claims
      BY <2>1, <2>6, SameRun DEF Stage
    <3>3. Stage' \in {"boot", "blreq"} => ~Claims
      <4>1. Stage' \in {"boot", "blreq"} => Len(run.stages) = 1
        BY <3>1, <3>2 DEF StagesInOrder
      <4>2. Len(run.stages) = 1 /\ Stage' # "write" => ~Does("write")
        BY <3>1, <3>2 DEF Does
      <4> QED BY <4>1, <4>2 DEF Claims
    <3> QED BY <2>1, <3>2, <3>3 DEF Told
  <2> QED BY <2>4, <2>5, <2>7, <2>8 DEF SessionInv, Finished
<1> QED BY <1>2, <1>3, <1>4, <1>5 DEF Connect

\* An answer was read, or none came.
LEMMA AnswerInv ==
  ASSUME Inv, History, NEW s \in Nat, Answered(s),
         s = 0 => /\ toHost # <<>> /\ toHost[1] = 0
                  /\ Len(toHost) = 1 => toHost' = <<>>
  PROVE  SessionInv'
<1>0. /\ PeerTypeOK /\ OneRequest /\ Connecting /\ Finished /\ Progress
      /\ waiting /\ waiting' = FALSE /\ run' = run /\ phase = "stage"
      /\ UNCHANGED <<devVars, toBl>>
      /\ img' = img /\ base' = base /\ Batch' = Batch /\ Claims' = Claims
      /\ idx \in Nat /\ errs \in Nat
      /\ Stage # "write" => errs = 0
  BY SameRun DEF Inv, Base, SessionInv, Answered, PeerTypeOK, Idle
<1>1. job' = job /\ mem' = mem /\ toBl' = toBl
  BY <1>0 DEF devVars
<1>2. phase' \in {"stage", "ok", "failed", "listen"}
  <2>1. run.by \in Programs
    BY <1>0, RunFacts DEF PeerTypeOK, RunType
  <2>2. CASE EraseAnswer(s) \/ WriteAnswer(s)
    BY <1>0, <2>2 DEF EraseAnswer, WriteAnswer, NextStage, Give
  <2>3. CASE BootAnswer(s)
    BY <1>0, <2>1, <2>3 DEF BootAnswer, NextStage, Give, Agent, Programs
  <2> QED BY <2>2, <2>3 DEF Answered
<1>3. Connecting'
  BY <1>0, <1>2, NotConnecting DEF Attracting
<1>4. ASSUME Clean, s = 0
      PROVE  /\ NoCommand' /\ toHost' = <<>> /\ toBl' = NoFrame
             /\ Stage = "write" => Programmed((idx + 1) * Batch)
  <2>1. Answering
    BY <1>0, <1>4 DEF OneRequest, Sent, Working, Lost
  <2>2. Stage = "write" => Programmed((idx + 1) * Batch)
    BY <1>4, <2>1 DEF Answering
  <2>3. NoCommand' /\ toHost' = <<>> /\ toBl' = NoFrame
    BY <1>1, <1>4, <2>1 DEF Answering, NoCommand
  <2> QED BY <2>2, <2>3
<1>5. NoFrame.cmd \notin XcpCmds /\ NoFrame.cmd \notin {"erase", "write"}
  BY OtherFrames DEF XcpCmds
<1>6. CASE EraseAnswer(s)
  <2>1. /\ Stage = "erase" /\ errs = 0 /\ Clean
        /\ \/ phase' = "failed"
           \/ phase' = "ok" /\ ~Claims
           \/ phase' = "stage" /\ Stage' = "erase" /\ s = 0
           \/ phase' = "stage" /\ Stage' = "write" /\ idx' = 0 /\ s = 0
    <3>1. Stage = "erase" /\ errs = 0 /\ Clean
      BY <1>0, <1>6 DEF EraseAnswer, Clean
    <3>2. CASE s # 0
      BY <1>6, <3>1, <3>2 DEF EraseAnswer, Give, Claims
    <3>3. CASE s = 0 /\ NextStage
      BY <1>0, <3>1, <3>3, NextStageStep, StageFacts
    <3>4. CASE s = 0 /\ UNCHANGED <<phase, step>>
      BY <1>0, <3>1, <3>4 DEF Stage
    <3> QED BY <1>6, <3>1, <3>2, <3>3, <3>4 DEF EraseAnswer
  <2>2. OneRequest'
    BY <1>0, <1>4, <1>5, <2>1 DEF OneRequest, Clean
  <2>3. Progress'
    <3>1. Clean' /\ Stage' = "write" => idx' * Batch' = 0
      BY <1>0, <2>1, Widths DEF Clean
    <3>2. Programmed(0)'
      BY DEF Programmed
    <3> QED BY <3>1, <3>2 DEF Progress, Programmed
  <2>4. ~Told'
    BY <1>0, <2>1 DEF Told
  <2> QED BY <1>3, <2>2, <2>3, <2>4 DEF SessionInv, Finished
<1>7. CASE WriteAnswer(s)
  <2>1. /\ Stage = "write" /\ errs' = IF s = 0 THEN errs ELSE errs + 1
        /\ \/ phase' = "failed" \/ (phase' = "ok" /\ Unheeded)
           \/ phase' = "stage" /\ Stage' = "write" /\ idx' = idx + 1
           \/ /\ phase' = "ok" \/ (phase' = "stage" /\ Stage' \in {"boot", "blreq"})
              /\ errs' = 0 /\ ~(idx + 1 < CeilDiv(Len(img), Batch))
    <3>1. Stage = "write" /\ errs' = IF s = 0 THEN errs ELSE errs + 1
      BY <1>7 DEF WriteAnswer
    <3>2. CASE \E o \in {"ok", "failed"} : Give(o) /\ (o = "ok" => Unheeded)
      BY <3>1, <3>2 DEF Give
    <3>3. CASE idx' = idx + 1 /\ UNCHANGED <<phase, step>>
      BY <1>0, <3>1, <3>3 DEF Stage
    <3>4. CASE NextStage /\ errs' = 0 /\ ~(idx + 1 < CeilDiv(Len(img), Batch))
      BY <1>0, <3>1, <3>4, NextStageStep
    <3> QED BY <1>7, <3>1, <3>2, <3>3, <3>4 DEF WriteAnswer
  <2>2. errs' = 0 => Clean /\ s = 0
    BY <1>0, <2>1 DEF Clean
  <2>3. OneRequest'
    BY <1>0, <1>4, <1>5, <2>1, <2>2 DEF OneRequest, Clean
  <2>4. Progress'
    <3> SUFFICES ASSUME Clean', Stage' = "write"
                 PROVE  Programmed(idx * Batch)'
      BY DEF Progress
    <3>1. Programmed((idx + 1) * Batch) /\ idx' = idx + 1
      BY <1>4, <2>1, <2>2 DEF Clean
    <3> QED BY <1>0, <1>1, <3>1 DEF Programmed
  <2>5. Finished'
    <3> SUFFICES ASSUME Told' PROVE /\ Programmed(Len(img))'
                                    /\ job'.op \notin {"erase", "write"}
                                    /\ toBl'.cmd \notin {"erase", "write"}
      BY DEF Finished
    <3>1. errs' = 0 /\ ~(idx + 1 < CeilDiv(Len(img), Batch)) /\ Clean /\ s = 0
      BY <1>0, <2>1, <2>2 DEF Told, Claims
    <3>2. Programmed((idx + 1) * Batch) /\ NoCommand' /\ toBl' = NoFrame
      BY <1>4, <2>1, <3>1
    <3>3. (idx + 1) * Batch >= Len(img)
      <4>1. /\ CeilDiv(Len(img), Batch) * Batch >= Len(img)
            /\ CeilDiv(Len(img), Batch) \in Nat \ {0}
        BY Counts
      <4>2. idx + 1 = CeilDiv(Len(img), Batch)
        BY <1>0, <2>1, <3>1, <4>1 DEF PeerTypeOK
      <4> QED BY <4>1, <4>2
    <3>4. Programmed(Len(img))'
      <4>1. (idx + 1) * Batch \in Int /\ Len(img) \in Int
        BY <1>0, Widths, FileInFlash
      <4> QED BY <1>0, <1>1, <3>2, <3>3, <4>1 DEF Programmed
    <3> QED BY <1>5, <3>2, <3>4 DEF NoCommand
  <2> QED BY <1>3, <2>3, <2>4, <2>5 DEF SessionInv
<1>8. CASE BootAnswer(s)
  <2>1. Stage = "boot" /\ phase' # "stage"
    <3>1. Stage = "boot"
      BY <1>8 DEF BootAnswer
    <3>2. NextStage => phase' # "stage"
      BY <1>0, <3>1, NextStageStep
    <3>3. run.by \in Programs
      BY <1>0, RunFacts DEF PeerTypeOK, RunType
    <3> QED BY <1>8, <3>1, <3>2, <3>3 DEF BootAnswer, Give, Agent, Programs
  <2>2. OneRequest' /\ Progress'
    BY <2>1 DEF OneRequest, Progress, Clean
  <2>3. Told' => Told
    BY <1>0, <2>1 DEF Told
  <2>4. Finished'
    BY <1>0, <1>1, <2>3 DEF Finished, Programmed
  <2> QED BY <1>3, <2>2, <2>4 DEF SessionInv
<1> QED BY <1>6, <1>7, <1>8 DEF Answered

LEMMA ServeInv ==
  ASSUME Inv, History, Serve
  PROVE  SessionInv'
<1>0. /\ PeerTypeOK /\ TypeOK /\ toHost \in Seq(Status)
      /\ OneRequest /\ Connecting /\ Finished /\ Progress
  BY DEF Inv, Base, SessionInv, PeerTypeOK, TypeOK
<1>1. CASE Send
  <2>1. /\ UNCHANGED <<mem, job, run, phase, step, idx, errs>>
        /\ phase = "stage" /\ Stage # "blreq" /\ ~waiting
        /\ toBl' = CurFrame /\ waiting' = TRUE /\ toHost' \in {toHost, <<>>}
    BY <1>1 DEF Send, devVars
  <2>2. /\ img' = img /\ base' = base /\ Batch' = Batch /\ Claims' = Claims
        /\ Stage' = Stage
    BY <2>1, SameRun DEF Stage
  <2>3. CurFrame' = CurFrame /\ Clean' = Clean /\ Told' = Told
    BY <2>1, <2>2 DEF CurFrame, EraseFrame, WriteFrame, Clean, Told
  <2>4. OneRequest'
    BY <1>0, <2>1, <2>3 DEF OneRequest, Sent, NoCommand
  <2>5. Progress'
    BY <1>0, <2>1, <2>2, <2>3 DEF Progress, Programmed
  <2>6. Connecting'
    BY <1>0, <2>1, NotConnecting DEF Attracting
  <2>7. Finished'
    <3>1. Told => CurFrame.cmd = "boot"
      BY <1>0, <2>1, CurFrameFits DEF Told
    <3> QED BY <1>0, <2>1, <2>2, <2>3, <3>1 DEF Finished, Programmed
  <2> QED BY <2>4, <2>5, <2>6, <2>7 DEF SessionInv
<1>2. CASE ReadAnswer
  <2>1. /\ toHost # <<>> /\ Head(toHost) = toHost[1] /\ Head(toHost) \in Nat
        /\ Answered(Head(toHost))
        /\ Len(toHost) = 1 => toHost' = <<>>
    BY <1>0, <1>2 DEF ReadAnswer, Status
  <2> QED BY <2>1, AnswerInv
<1>3. CASE Timeout
  BY <1>3, AnswerInv DEF Timeout, NoAnswer
<1>4. CASE InfoRead
  <2>1. phase' = "ok" /\ run' = run /\ ~Claims
    BY <1>0, <1>4, NextStageStep, StageFacts DEF InfoRead
  <2>2. Connecting' /\ ~Told' /\ phase' # "stage"
    BY <1>0, <2>1, SameRun, NotConnecting DEF Attracting, Told
  <2> QED BY <2>2, Elsewhere
<1>5. CASE AppText \/ RequestUpgrade
  <2>1. /\ UNCHANGED <<mem, job, run, step>> /\ phase' \in {"ok", "failed"}
        /\ toBl' \in {toBl, Bare("atbl")}
        /\ phase = "listen" \/ (phase = "stage" /\ Stage = "blreq")
    BY <1>5 DEF AppText, RequestUpgrade, devVars
  <2>2. Connecting'
    BY <1>0, <2>1, NotConnecting DEF Attracting
  <2>3. Bare("atbl").cmd = "atbl"
    BY OtherFrames DEF Texts
  <2>4. Told' => Told
    BY <2>1, SameRun DEF Told
  <2>5. Finished'
    BY <1>0, <2>1, <2>3, <2>4, SameRun DEF Finished, Programmed
  <2> QED BY <2>1, <2>2, <2>5 DEF SessionInv, OneRequest, Progress, Clean
<1> QED BY <1>1, <1>2, <1>3, <1>4, <1>5 DEF Serve

LEMMA ProbeResetInv ==
  ASSUME Inv, History, ProbeReset
  PROVE  SessionInv'
<1>0. PeerTypeOK /\ Connecting
  BY DEF Inv, Base, SessionInv
<1>1. /\ phase = "probe" /\ phase' \in {"settle", "failed"} /\ toBl' = toBl
      /\ waiting' = waiting
  BY DEF ProbeReset, Reset
<1>2. seen = {} /\ seen' = {}
  BY <1>0, <1>1 DEF Connecting, History, Console
<1>3. Connecting' /\ ~Told' /\ phase' # "stage"
  BY <1>0, <1>1, <1>2 DEF Connecting, Attracting, Told
<1> QED BY <1>3, Elsewhere

-----------------------------------------------------------------------------
(* Sector 0. *)

LEMMA RegisterStep ==
  ASSUME Inv, Next
  PROVE  Register'
<1>0. TypeOK /\ Control /\ Register
  BY DEF Inv, Base, PeerTypeOK
<1>1. ASSUME UNCHANGED devVars PROVE Register'
  BY <1>0, <1>1 DEF devVars, Register, BlRunnable
<1>2. CASE BlStep
  BY <1>0, <1>2, BlStepRegister
<1>3. CASE WindowTimeout
  BY <1>0, <1>3, WindowExpireRegister DEF WindowTimeout
<1>4. CASE UserReset
  BY <1>0, <1>4, RegisterReset DEF UserReset
<1>5. CASE ProbeReset
  BY <1>0, <1>1, <1>5, RegisterReset DEF ProbeReset
<1>6. CASE (\E r \in Runs : Begin(r)) \/ Connect \/ Serve
  BY <1>1, <1>6 DEF Begin, Connect, Listen, AgentConnect, AnswerWindow, Entered, NotEntered,
     Serve, Send, ReadAnswer, Timeout, Answered, InfoRead, AppText, RequestUpgrade
<1> QED BY <1>2, <1>3, <1>4, <1>5, <1>6 DEF Next, Step, PeerStep

\* Only the application asks for a self-upgrade, and only when it is told to.
LEMMA NoRequestStays ==
  ASSUME TypeOK, Control, NoRequest, BlStep
  PROVE  NoRequest'
<1>1. toBl' \in {toBl, NoFrame} /\ NoFrame.cmd # "atbl"
  BY JobStep, OtherFrames
<1>2. mode' # "upgrade" /\ bkp' # "UPGRADE_BL"
  <2>1. CASE BootStart \/ CheckApp \/ WindowPending \/ WindowByte \/ NotListening
    BY <2>1 DEF BootStart, CheckApp, WindowPending, WindowByte, NotListening, BootApp, NoRequest
  <2>2. ~Upgrade
    BY DEF Upgrade, UpgradeErase, UpgradeCopyWord, UpgradeEnd, UpgradeMismatch, UpgradeFault,
           Control, JobMode, NoRequest
  <2>3. CASE Receive \/ Overrun \/ StrayTimeout \/ DropFrame \/ DropAck
    BY <2>3 DEF Receive, Overrun, StrayTimeout, DropFrame, DropAck, devVars, NoRequest
  <2>4. CASE Command
    BY <2>4 DEF Command, EraseDone, EraseFail, Answer, WriteStep, WriteFail, WriteDone,
                BootJump, BootApp, NoRequest
  <2>5. CASE AppReceive
    BY <2>5 DEF AppReceive, AppRequest, Restart, devVars, NoRequest
  <2>6. CASE PowerFail
    BY <2>6 DEF PowerFail, Reset, Restart, NoRequest
  <2> QED BY <2>1, <2>2, <2>3, <2>4, <2>5, <2>6 DEF BlStep
<1> QED BY <1>1, <1>2 DEF NoRequest

\* Only the PC tool is given an address.
LEMMA AgentAddress ==
  ASSUME PeerTypeOK, base < SectorWords
  PROVE  ~Agent /\ run.file # "bl" /\ run.enter # "at"
<1>1. run \in Runs /\ SectorWords \in Nat \ {0} /\ AppSectors \in Nat \ {0}
  BY FlashAssumption DEF PeerTypeOK
<1>2. ~(BlTemp < SectorWords) /\ ~(AppBase < SectorWords)
  BY <1>1 DEF BlTemp, AppBase
<1>3. run.file # "bl"
  BY <1>2 DEF base
<1>4. run.enter # "at"
  BY <1>1, <1>2, <1>3, PeerAssumption DEF base
<1> QED BY <1>1, <1>3, <1>4, RunFacts DEF Agent

\* The board, the clock and the button.
LEMMA BoardOwnSector ==
  ASSUME Inv, Next, UNCHANGED hostVars, (BlStep \/ WindowTimeout \/ UserReset), Register'
  PROVE  OwnSector'
<1>0. /\ TypeOK /\ Control /\ OwnSector /\ Connecting /\ Console
      /\ UNCHANGED <<run, phase, step, idx, errs>> /\ base' = base /\ Stage' = Stage
      /\ Clean' = Clean /\ Told' = Told /\ Does("erase")' = Does("erase")
  BY SameHost, SameRun DEF Inv, Base, PeerTypeOK, SessionInv, Next, History
<1> SUFFICES ASSUME base < SectorWords,
                    \/ Clean /\ Stage = "write"
                    \/ Told
                    \/ phase = "enter" /\ "ready" \in seen'
             PROVE  NoRequest'
  BY <1>0 DEF OwnSector
<1>1. CASE \/ Clean /\ Stage = "write"
           \/ Told
           \/ phase = "enter" /\ "ready" \in seen
  <2>1. NoRequest
    BY <1>0, <1>1 DEF OwnSector
  <2>2. CASE WindowTimeout
    BY <2>1, <2>2 DEF WindowTimeout, WindowExpire, BootApp, NoRequest
  <2>3. CASE UserReset
    BY <2>1, <2>3 DEF UserReset, Reset, Restart, NoRequest
  <2> QED BY <1>0, <2>1, <2>2, <2>3, NoRequestStays
<1>2. CASE phase = "enter" /\ "ready" \in seen' /\ "ready" \notin seen
  <2>1. mode' = "xcp"
    BY <1>0, <1>2 DEF Console, Printed
  <2>2. bkp' = "none"
    BY <2>1 DEF Register
  <2>3. toBl' \in {toBl, NoFrame} /\ NoFrame.cmd = "none"
    BY <1>0, JobStep, OtherFrames DEF WindowTimeout, WindowExpire, UserReset, Reset
  <2>4. toBl.cmd \in {"none", "at", "55"}
    BY <1>0, <1>2 DEF Connecting, Attracting
  <2> QED BY <2>1, <2>2, <2>3, <2>4 DEF NoRequest
<1> QED BY <1>1, <1>2

\* The answer to a frame.
LEMMA AnswerOwnSector ==
  ASSUME Inv, History, NEW s \in Nat, Answered(s), s = 0 => toHost # <<>> /\ toHost[1] = 0
  PROVE  OwnSector'
<1>0. /\ PeerTypeOK /\ OneRequest /\ OwnSector /\ phase = "stage" /\ waiting
      /\ UNCHANGED <<devVars, toBl, run>> /\ base' = base
      /\ Does("erase")' = Does("erase") /\ Claims' = Claims
      /\ Stage # "write" => errs = 0
      /\ errs \in Nat
  BY SameRun DEF Inv, Base, SessionInv, Answered, PeerTypeOK, Idle
<1> SUFFICES ASSUME base < SectorWords
             PROVE  /\ phase' = "stage" => /\ Stage' = "erase" => idx' = 0
                                           /\ Stage' = "write" => ~Does("erase")
                                           /\ Stage' # "blreq"
                    /\ phase' # "enter"
                    /\ (Clean' /\ Stage' = "write") \/ Told' => NoRequest
  BY <1>0 DEF OwnSector, NoRequest, devVars
<1>1. CASE EraseAnswer(s)
  <2>1. Clean /\ Stage = "erase"
    BY <1>0, <1>1 DEF EraseAnswer, Clean
  <2>2. s # 0
    BY <1>0, <2>1 DEF OneRequest, Sent, Working, Answering, Lost
  <2>3. phase' = "failed" \/ (phase' = "ok" /\ ~Claims)
    BY <1>1, <2>2 DEF EraseAnswer, Give, Claims
  <2> QED BY <1>0, <2>3 DEF Clean, Told
<1>2. CASE WriteAnswer(s)
  <2>1. /\ Stage = "write" /\ ~Does("erase") /\ errs' = IF s = 0 THEN errs ELSE errs + 1
        /\ errs = 0 => NoRequest
    BY <1>0, <1>2 DEF WriteAnswer, OwnSector, Clean
  <2>2. CASE \E o \in {"ok", "failed"} : Give(o) /\ (o = "ok" => Unheeded)
    <3>1. phase' = "failed" \/ (phase' = "ok" /\ ~Claims)
      BY <2>2 DEF Give, Claims
    <3> QED BY <1>0, <3>1 DEF Clean, Told
  <2>3. CASE UNCHANGED <<phase, step>>
    <3>1. Stage' = "write" /\ phase' = "stage" /\ (errs' = 0 => errs = 0)
      BY <1>0, <2>1, <2>3 DEF Stage
    <3> QED BY <1>0, <2>1, <3>1 DEF Clean, Told
  <2>4. CASE NextStage /\ errs' = 0
    <3>1. NoRequest
      BY <1>0, <2>1, <2>4
    <3>2. CASE phase' = "ok"
      BY <3>1, <3>2
    <3>3. CASE phase' = "stage" /\ step < Len(run.stages) /\ step' = step + 1
      <4>1. Stage' = "boot"
        BY <1>0, <2>1, <3>3, StageFacts DEF Stage
      <4> QED BY <3>1, <3>3, <4>1
    <3> QED BY <1>0, <2>4, <3>2, <3>3, NextStageStep
  <2> QED BY <1>2, <2>2, <2>3, <2>4 DEF WriteAnswer
<1>3. CASE BootAnswer(s)
  <2>1. Stage = "boot" /\ phase' \in {"ok", "failed", "listen"}
    <3>1. ~Agent /\ Stage = "boot"
      BY <1>0, <1>3, AgentAddress DEF BootAnswer
    <3>2. NextStage
      BY <1>3, <3>1 DEF BootAnswer, Agent, Give
    <3> QED BY <1>0, <3>1, <3>2, NextStageStep
  <2>2. Told' => Told
    BY <1>0, <2>1 DEF Told
  <2> QED BY <1>0, <2>1, <2>2 DEF Clean, OwnSector
<1> QED BY <1>1, <1>2, <1>3 DEF Answered

LEMMA OwnSectorStep ==
  ASSUME Inv, Next, Register'
  PROVE  OwnSector'
<1>0. /\ PeerTypeOK /\ TypeOK /\ OwnSector /\ Connecting /\ History /\ Console
  BY DEF Inv, Base, SessionInv, PeerTypeOK, Next, History
<1>1. CASE (BlStep /\ UNCHANGED hostVars) \/ WindowTimeout \/ UserReset
  BY <1>1, BoardOwnSector DEF WindowTimeout, UserReset
<1>2. ASSUME phase' \notin {"stage", "ok", "listen"}, phase' = "enter" => "ready" \notin seen'
      PROVE  OwnSector'
  BY <1>2 DEF OwnSector, Clean, Told
<1>3. CASE \/ \E r \in Runs : Begin(r)
           \/ ProbeReset \/ Listen \/ NotEntered
  <2>1. /\ phase' \in {"probe", "request", "enter", "settle", "failed"}
        /\ phase' = "enter" => phase # "enter" /\ mode' = mode
    BY <1>3 DEF Begin, ProbeReset, Listen, NotEntered, Idle, devVars
  <2>2. phase' = "enter" => "ready" \notin seen'
    BY <1>0, <2>1 DEF Connecting, Console, Printed
  <2> QED BY <1>2, <2>1, <2>2
<1>4. CASE AnswerWindow
  <2>1. /\ UNCHANGED hostVars /\ UNCHANGED devVars /\ toBl' = OtherByte
        /\ phase = "enter" /\ phase' = "enter" /\ OtherByte.cmd = "55"
    BY <1>4, OtherFrames DEF AnswerWindow, hostVars
  <2>2. "ready" \in seen' => "ready" \in seen
    BY <1>0, <2>1 DEF Console, Printed, devVars
  <2>3. base' = base /\ mode' = mode /\ bkp' = bkp
    BY <2>1, SameHost DEF devVars
  <2> QED BY <1>0, <2>1, <2>2, <2>3 DEF OwnSector, NoRequest, Clean, Told
<1>5. CASE AgentConnect
  <2>1. Agent /\ base' = base
    BY <1>5, SameRun DEF AgentConnect
  <2> QED BY <1>0, <2>1, AgentAddress DEF OwnSector
<1>6. CASE Entered
  <2>1. /\ UNCHANGED <<run, step, idx>> /\ UNCHANGED devVars /\ toBl' = toBl
        /\ phase = "enter" /\ phase' = "stage" /\ "ready" \in seen
        /\ base' = base /\ Does("erase")' = Does("erase") /\ Stage' = Stage
    BY <1>6, SameRun DEF Entered, Stage
  <2>2. step = 1 /\ idx = 0
    BY <1>0, <2>1 DEF PeerTypeOK, Attracting
  <2>3. Stage # "blreq" /\ (Does("erase") => Stage = "erase")
    BY <1>0, <2>2, StageOfRun
  <2>4. base < SectorWords => NoRequest'
    BY <1>0, <2>1 DEF OwnSector, NoRequest, devVars
  <2> QED BY <2>1, <2>2, <2>3, <2>4 DEF OwnSector
<1>7. CASE Send
  <2>1. /\ UNCHANGED <<run, phase, step, idx, errs>> /\ UNCHANGED devVars
        /\ toBl' = CurFrame /\ CurFrame.cmd # "atbl" /\ phase = "stage"
    BY <1>0, <1>7, CurFrameFits, StageFacts DEF Send
  <2>2. /\ base' = base /\ Does("erase")' = Does("erase") /\ Stage' = Stage
        /\ Clean' = Clean /\ Told' = Told /\ mode' = mode /\ bkp' = bkp
    BY <2>1, SameRun DEF Stage, Clean, Told, devVars
  <2> QED BY <1>0, <2>1, <2>2 DEF OwnSector, NoRequest
<1>8. CASE ReadAnswer
  <2>1. /\ toHost # <<>> /\ Head(toHost) = toHost[1] /\ Head(toHost) \in Nat
        /\ Answered(Head(toHost))
    BY <1>0, <1>8 DEF ReadAnswer, Status, TypeOK
  <2> QED BY <1>0, <2>1, AnswerOwnSector
<1>9. CASE Timeout
  BY <1>0, <1>9, AnswerOwnSector DEF Timeout, NoAnswer
<1>10. CASE InfoRead
  <2>1. phase' = "ok" /\ run' = run /\ ~Claims
    BY <1>0, <1>10, NextStageStep, StageFacts DEF InfoRead
  <2> QED BY <2>1, SameRun DEF OwnSector, Clean, Told
<1>11. CASE AppText
  <2>1. /\ UNCHANGED <<run, step>> /\ UNCHANGED devVars /\ toBl' = toBl
        /\ phase = "listen" /\ phase' \in {"ok", "failed"} /\ base' = base
    BY <1>11, SameRun DEF AppText
  <2>2. Told' => Told
    BY <2>1, SameRun DEF Told
  <2> QED BY <1>0, <2>1, <2>2 DEF OwnSector, NoRequest, Clean, devVars
<1>12. CASE RequestUpgrade
  <2>1. phase = "stage" /\ Stage = "blreq" /\ base' = base
    BY <1>12, SameRun DEF RequestUpgrade
  <2> QED BY <1>0, <2>1 DEF OwnSector
<1> QED BY <1>1, <1>3, <1>4, <1>5, <1>6, <1>7, <1>8, <1>9, <1>10, <1>11, <1>12
        DEF Next, Step, PeerStep, Connect, Serve

-----------------------------------------------------------------------------
(* The invariant and the theorem. *)

LEMMA NextInv ==
  ASSUME Inv, Next
  PROVE  Inv'
<1>0. Base /\ History /\ PeerTypeOK /\ Control /\ SessionInv /\ Connecting
  BY DEF Inv, Base, SessionInv, Next
<1>1. Base'
  BY <1>0, NextBase
<1> SUFFICES SessionInv'
  BY <1>1, RegisterStep, OwnSectorStep DEF Inv
<1>2. CASE BlStep /\ UNCHANGED hostVars
  BY <1>0, <1>1, <1>2, BoardOneRequest, BoardProgress, BoardConnecting, BoardFinished
     DEF SessionInv
<1>3. CASE WindowTimeout
  <2>1. /\ UNCHANGED <<mem, job, toBl, toHost>> /\ UNCHANGED hostVars
        /\ mode # "xcp"
    BY <1>3 DEF WindowTimeout, WindowExpire
  <2>2. NoCommand /\ NoCommand'
    BY <1>0, <2>1, ElsewhereNoCommand DEF NoCommand
  <2>3. /\ phase' = phase /\ waiting' = waiting /\ Attracting' = Attracting
        /\ seen \subseteq seen' \/ phase # "enter"
        /\ phase # "enter" => seen' = {}
    BY <1>0, <2>1, SameHost DEF History, Console
  <2>4. Connecting'
    BY <1>0, <2>1, <2>2, <2>3 DEF Connecting, Attracting
  <2>5. OneRequest' /\ Progress' /\ Finished'
    BY <1>0, <2>1, SameHost
       DEF SessionInv, OneRequest, Progress, Finished, Sent, Working, Answering, Lost,
           NoCommand, Programmed
  <2> QED BY <2>4, <2>5 DEF SessionInv
<1>4. CASE PeerStep
  BY <1>0, <1>4, BeginInv, ConnectInv, ServeInv, ProbeResetInv DEF PeerStep
<1>5. CASE UserReset
  <2>1. /\ phase = "enter" /\ seen = {} /\ mode' = "reset" /\ toBl' = toBl
        /\ phase' = phase /\ waiting' = waiting
    BY <1>5 DEF UserReset, Reset, Restart, hostVars
  <2>2. /\ Attracting /\ toBl.cmd \in {"none", "at"} /\ OtherByte.cmd = "55"
    BY <1>0, <2>1, OtherFrames DEF Connecting, Attracting
  <2>3. seen' = {}
    BY <1>0, <2>1, <2>2 DEF History, Console, Printed
  <2>4. Connecting' /\ ~Told' /\ phase' # "stage"
    BY <1>0, <2>1, <2>2, <2>3 DEF Connecting, Attracting, Told
  <2> QED BY <2>4, Elsewhere
<1> QED BY <1>0, <1>2, <1>3, <1>4, <1>5 DEF Next, Step

LEMMA StutterInv ==
  ASSUME Inv, UNCHANGED vars
  PROVE  Inv'
<1>1. /\ UNCHANGED hostVars /\ UNCHANGED <<seen, calm>>
      /\ UNCHANGED <<mem, bkp, mode, bootBkp, job, toBl, toHost>>
  BY DEF vars, blVars, devVars
<1>2. OneRequest' /\ Progress' /\ Finished'
  BY <1>1, SameHost
     DEF Inv, SessionInv, OneRequest, Progress, Finished, Sent, Working, Answering,
         Lost, NoCommand, Programmed
<1>3. Connecting'
  BY <1>1, SameHost DEF Inv, SessionInv, Connecting, NoCommand
<1>4. Register' /\ OwnSector'
  BY <1>1, SameHost, SameRun DEF Inv, Register, BlRunnable, OwnSector, NoRequest
<1> QED BY <1>2, <1>3, <1>4, StutterBase DEF Inv, SessionInv

LEMMA InitInv == PeerInit => Inv
<1> SUFFICES ASSUME PeerInit PROVE Inv
  OBVIOUS
<1>1. phase = "idle" /\ seen = {}
  BY DEF PeerInit, HostInit
<1>2. SessionInv
  BY <1>1 DEF SessionInv, OneRequest, Progress, Connecting, Finished, Clean, Told,
              Attracting
<1>3. Register
  BY RegisterInit DEF PeerInit
<1>4. OwnSector
  BY <1>1 DEF OwnSector, Clean, Told
<1> QED BY <1>2, <1>3, <1>4, InitBase DEF Inv

\* What is told is so.
Truthful == Told => Content = "image"

LEMMA ToldIsTrue == Inv => Truthful
<1> SUFFICES ASSUME Inv, Told PROVE Holds(mem, base, img)
  BY DEF Content, Truthful
<1>1. Programmed(Len(img)) /\ \A i \in 1 .. Len(img) : i <= Len(img)
  BY FileInFlash DEF Inv, SessionInv, Finished
<1> QED BY <1>1 DEF Programmed, Holds

LEMMA ReportValues ==
  /\ Content \in {"image", "other"} /\ Report \in {"failed", "ok", "none"}
  /\ Report = "failed" <=> phase = "failed"
  /\ Report = "ok" => Told
BY DEF Content, Report, Told

\* Success is told in a step that leaves the flash alone, of a run that has
\* not ended, and a run that has failed stays failed until the next one.
LEMMA ReportStep ==
  ASSUME Inv, Next
  PROVE  /\ Report' = "ok" /\ Report # "ok" =>
              /\ Report = "none"
              /\ mem' = mem /\ img' = img /\ base' = base
         /\ Report' = "failed" => Report # "ok"
<1>1. CASE UNCHANGED hostVars
  <2>1. Report' = Report
    BY <1>1, SameHost DEF Report
  <2> QED BY <2>1
<1>2. CASE (\E r \in Runs : Begin(r)) \/ ProbeReset \/ Connect
  BY <1>2 DEF Begin, ProbeReset, Connect, Listen, AgentConnect, AnswerWindow, Entered,
     NotEntered, Report, hostVars
<1>3. CASE Serve
  <2>1. /\ phase \in {"stage", "listen"} /\ mem' = mem /\ run' = run
    BY <1>3 DEF Serve, Send, ReadAnswer, Timeout, Answered, InfoRead, AppText,
       RequestUpgrade, devVars
  <2>2. Report = "none"
    BY <2>1 DEF Report
  <2> QED BY <2>1, <2>2, SameRun
<1> QED BY <1>1, <1>2, <1>3 DEF Next, Step, PeerStep, WindowTimeout, UserReset

\* Each of the programs together with the board does only what UpdateService
\* allows: whatever is lost, late or repeated, and although input is not always
\* emptied, success is reported of a flash that holds the file, and stays true.
\* So it is for every --addr of the PC tool: where the file's first or last sector
\* is not its own, or is the bootloader's, the run fails or succeeds truthfully.
THEOREM PeersAreUpdateService == Spec => PeersRefined
<1>1. PeerInit => Update!Init
  BY ReportValues DEF PeerInit, HostInit, Report, Update!Init
<1>2. Inv /\ Truthful /\ Truthful' /\ [Next]_vars
        => [Update!Next]_<<Content, Report>>
  <2> SUFFICES ASSUME Inv, Truthful, Truthful', [Next]_vars
               PROVE  Update!Next \/ (Content' = Content /\ Report' = Report)
    OBVIOUS
  <2>1. Told => Content = "image"
    BY DEF Truthful
  <2>2. Told' => Content' = "image"
    BY DEF Truthful
  <2>3. /\ Content' \in {"image", "other"} /\ Report' \in {"failed", "ok", "none"}
        /\ Report' = "ok" => Told'
    BY DEF Content, Report, Told
  <2>4. CASE UNCHANGED vars
    <3>1. Content' = Content /\ Report' = Report
      BY <2>4, SameHost
         DEF vars, blVars, devVars, hostVars, Content, Report, Holds
    <3> QED BY <3>1
  <2>5. CASE Next /\ Report' = "none"
    BY <2>3, <2>5 DEF Update!Next, Update!Start
  <2>6. CASE Next /\ Report' = "ok"
    <3>1. CASE Report = "ok"
      BY <2>1, <2>2, <2>3, <2>6, <3>1, ReportValues
    <3>2. CASE Report # "ok"
      <4>1. Report = "none" /\ Content' = Content
        BY <2>6, <3>2, ReportStep DEF Content, Holds
      <4>2. Content = "image"
        BY <2>2, <2>3, <2>6, <4>1
      <4> QED BY <2>6, <4>1, <4>2 DEF Update!Next, Update!Succeed
    <3> QED BY <3>1, <3>2
  <2>7. CASE Next /\ Report' = "failed"
    <3>1. Report \in {"failed", "none"}
      BY <2>7, ReportStep, ReportValues
    <3> QED BY <2>3, <2>7, <3>1 DEF Update!Next, Update!Change, Update!Fail
  <2> QED BY <2>3, <2>4, <2>5, <2>6, <2>7
<1>3. Inv /\ [Next]_vars => Inv'
  BY NextInv, StutterInv
<1> QED BY <1>1, <1>2, <1>3, InitInv, ToldIsTrue, PTL DEF Spec, PeersRefined, Update!Spec

-----------------------------------------------------------------------------
(* What the addresses decide. *)

\* A file above sector 0 takes no frame that names sector 0.
LEMMA CurFrameAbove ==
  ASSUME PeerTypeOK, phase = "stage", Stage # "blreq", base >= SectorWords
  PROVE  Aimed(CurFrame.cmd, CurFrame.addr, CurFrame.data, AboveSector0)
<1>1. CurFrame \in Frames /\ CurFrame.addr + Len(CurFrame.data) <= FlashSize
  BY CurFrameFits
<1>2. CASE Stage \in {"erase", "write"}
  <2>1. \E k \in Nat : CurFrame.addr = base + k
    <3>1. idx * SectorWords \in Nat /\ idx * Batch \in Nat
      BY Widths DEF PeerTypeOK
    <3>2. CurFrame.addr \in {base + idx * SectorWords, base + idx * Batch}
      BY <1>2 DEF CurFrame, EraseFrame, WriteFrame, Frame
    <3> QED BY <3>1, <3>2
  <2>2. CurFrame.addr >= AppBase
    BY <2>1, FileInFlash, Widths DEF AppBase
  <2> QED BY <1>1, <2>2, AimedAbove
<1>3. CASE Stage \in {"boot", "info"}
  BY <1>3, BareAimed DEF CurFrame
<1> QED BY <1>2, <1>3, StageFacts

\* All a step of a program may do to the board's side, its reset apart.
LEMMA PeerTouches ==
  ASSUME PeerStep, ~Reset
  PROVE  /\ UNCHANGED devVars
         /\ \/ toBl' = toBl
            \/ phase = "stage" /\ Stage # "blreq" /\ toBl' = CurFrame
            \/ \E c \in {"aa", "55", "at", "atbl"} : toBl' = Bare(c)
<1>1. CASE (\E r \in Runs : Begin(r)) \/ ProbeReset
  BY <1>1 DEF Begin, ProbeReset
<1>2. CASE Connect
  BY <1>2, OtherFrames
     DEF Connect, Listen, AgentConnect, AnswerWindow, Entered, NotEntered, devVars
<1>3. CASE Serve
  BY <1>3 DEF Serve, Send, ReadAnswer, Timeout, Answered, InfoRead, AppText,
              RequestUpgrade
<1> QED BY <1>1, <1>2, <1>3 DEF PeerStep

\* The command lines whose --addr is not in the bootloader's sector.  V4 does not
\* check it, and its default is AppBase.
RunsAboveSector0 == \A r \in Runs : r.addr >= SectorWords

LEMMA BaseAbove ==
  ASSUME PeerTypeOK, RunsAboveSector0
  PROVE  base >= SectorWords
<1>1. BlTemp >= SectorWords
  BY FlashAssumption DEF BlTemp
<1> QED BY <1>1 DEF base, PeerTypeOK, RunsAboveSector0

LEMMA AboveStep ==
  ASSUME Base, Above, Next, RunsAboveSector0
  PROVE  Above'
<1>0. PeerTypeOK /\ TypeOK /\ base >= SectorWords
  BY BaseAbove DEF Base, PeerTypeOK
<1>1. CASE BlStep
  BY <1>0, <1>1, BlStepAbove
<1>2. CASE WindowTimeout
  BY <1>2 DEF WindowTimeout, WindowExpire, Above
<1>3. CASE PeerStep /\ ~Reset
  <2>1. job' = job
    BY <1>3, PeerTouches DEF devVars
  <2>2. Aimed(toBl'.cmd, toBl'.addr, toBl'.data, AboveSector0)
    BY <1>0, <1>3, PeerTouches, CurFrameAbove, BareAimed DEF Above
  <2> QED BY <2>1, <2>2 DEF Above
<1>4. CASE Reset
  BY <1>4, ResetAbove
<1> QED BY <1>1, <1>2, <1>3, <1>4 DEF Next, Step, UserReset

\* With these programs at the other end of the line, and no --addr in sector 0,
\* only the self-upgrade changes sector 0, over any number of runs, resets and
\* debug probe attempts.  With --addr 0x08000000 V4 erases the bootloader.
THEOREM PeersSpareSector0 ==
  ASSUME RunsAboveSector0
  PROVE  Spec => OnlyUpgradeTouchesSector0
<1>1. Inv /\ Above /\ [Next]_vars => Above'
  <2>1. Above /\ UNCHANGED vars => Above'
    BY DEF vars, blVars, devVars, Above
  <2> QED BY <2>1, AboveStep DEF Inv
<1>2. Inv /\ Above /\ [Next]_vars
      => [ mode # "upgrade" => \A c \in BlCells : mem'[c] = mem[c] ]_blVars
  <2> SUFFICES ASSUME Inv, Above, [Next]_vars, mode # "upgrade",
                      NEW c \in BlCells
               PROVE  mem'[c] = mem[c]
    OBVIOUS
  <2>0. TypeOK /\ Control
    BY DEF Inv, Base, PeerTypeOK
  <2>1. CASE BlStep \/ Reset
    BY <2>0, <2>1, Sector0Step
  <2>2. CASE WindowTimeout \/ (PeerStep /\ ~Reset) \/ UNCHANGED vars
    BY <2>2, PeerTouches DEF WindowTimeout, WindowExpire, devVars, vars, blVars
  <2> QED BY <2>1, <2>2 DEF Next, Step, UserReset
<1>3. Inv /\ [Next]_vars => Inv'
  BY NextInv, StutterInv
<1>4. PeerInit => Above
  BY AboveInit DEF PeerInit
<1> QED
  BY <1>1, <1>2, <1>3, <1>4, InitInv, PTL DEF Spec, OnlyUpgradeTouchesSector0

-----------------------------------------------------------------------------
(* What a run may touch. *)

\* From its first frame to the beginning of the next run, a run is aimed at its
\* file: the frame on the line, and the command the board carries out.
Targets ==
  Launched => /\ Aimed(toBl.cmd, toBl.addr, toBl.data, Covered)
              /\ Aimed(job.op, job.addr, job.data, Covered)

LEMMA SameCovered ==
  ASSUME run' = run
  PROVE  Covered' = Covered
BY SameRun DEF Covered, Does

LEMMA WordCovered ==
  ASSUME PeerTypeOK, Does("erase") \/ Does("write"), NEW i \in 1 .. Len(img)
  PROVE  base + i - 1 \in Covered
<1>1. base + i - 1 \in Cells
  BY FileInFlash, FlashSizeNat
<1> QED BY <1>1 DEF Covered

\* The frames a program sends are aimed at its file.
LEMMA CurFrameAimed ==
  ASSUME PeerTypeOK, phase = "stage", Stage # "blreq"
  PROVE  Aimed(CurFrame.cmd, CurFrame.addr, CurFrame.data, Covered)
<1>0. CurFrame.cmd = Stage /\ Does(Stage) /\ Len(img) \in Nat
  BY CurFrameFits, StageFacts, FileInFlash DEF PeerTypeOK, Does, Stage
<1>1. CASE Stage = "erase"
  <2>1. /\ CurFrame.addr = base + idx * SectorWords
        /\ idx \in Nat /\ idx < CeilDiv(Len(img), SectorWords)
    BY <1>1, CurFrameFits DEF EraseFrame, Frame, PeerTypeOK
  <2>2. idx * SectorWords \in Nat /\ idx * SectorWords < Len(img)
    BY <2>1, FileInFlash, Widths, StepInside, Counts
  <2>3. /\ idx * SectorWords + 1 \in 1 .. Len(img)
        /\ base + (idx * SectorWords + 1) - 1 = base + idx * SectorWords
    BY <2>2, FileInFlash
  <2>4. SectorCells(CurFrame.addr) \subseteq Covered
    BY <1>0, <1>1, <2>1, <2>3 DEF SectorCells, Covered
  <2> QED BY <1>0, <1>1, <2>4 DEF Aimed
<1>2. CASE Stage = "write"
  <2> DEFINE lo == idx * Batch
             n  == Len(WriteFrame.data)
  <2>1. CurFrame = WriteFrame /\ idx \in Nat /\ idx < CeilDiv(Len(img), Batch)
    BY <1>2, CurFrameFits DEF PeerTypeOK
  <2>2. /\ CurFrame.addr = base + lo
        /\ lo \in Nat /\ lo < Len(img)
        /\ n = SmallerOf((idx + 1) * Batch, Len(img)) - lo
    BY <2>1, WriteFrameFits, FileInFlash, Widths, StepInside, Counts
  <2>3. (idx + 1) * Batch = lo + Batch
    BY <2>1, Widths
  <2> HIDE DEF lo, n
  <2>4. n \in Nat /\ lo + n <= Len(img)
    BY <2>2, <2>3, Widths, FileInFlash DEF SmallerOf
  <2>5. ASSUME NEW j \in 1 .. n PROVE CurFrame.addr + j - 1 \in Covered
    <3>1. lo + j \in 1 .. Len(img)
      BY <2>2, <2>4, FileInFlash
    <3>2. base + (lo + j) - 1 = CurFrame.addr + j - 1
      BY <2>2, FileInFlash
    <3> QED BY <1>0, <1>2, <3>1, <3>2, WordCovered
  <2> QED BY <1>0, <1>2, <2>1, <2>5 DEF Aimed, n
<1>3. CASE Stage \in {"boot", "info"}
  BY <1>0, <1>3 DEF Aimed
<1> QED BY <1>1, <1>2, <1>3, StageFacts

\* No program sends its first frame while a command of another run is being
\* carried out, or its frame on the way.
LEMMA LaunchAimed ==
  ASSUME Connecting, TypeOK, AgentConnect \/ Entered
  PROVE  /\ Aimed(toBl'.cmd, toBl'.addr, toBl'.data, Covered')
         /\ Aimed(job'.op, job'.addr, job'.data, Covered')
<1>1. CASE AgentConnect
  <2>1. NoCommand /\ job' = job /\ toBl' = StartByte
    BY <1>1 DEF AgentConnect, Connecting, BlQuiet, NoCommand, NoJob, Job, devVars
  <2>2. toBl'.cmd = "aa"
    BY <2>1, OtherFrames
  <2> QED BY <2>1, <2>2 DEF Aimed, NoCommand
<1>2. CASE Entered
  <2>1. /\ job' = job /\ toBl' = toBl /\ NoCommand
        /\ toBl.cmd \in {"none", "at", "55"}
    BY <1>2 DEF Entered, Connecting, Attracting, devVars
  <2> QED BY <2>1 DEF Aimed, NoCommand
<1> QED BY <1>1, <1>2

LEMMA TargetsStep ==
  ASSUME Inv, Targets, Next
  PROVE  Targets'
<1>0. PeerTypeOK /\ TypeOK /\ Connecting
  BY DEF Inv, Base, SessionInv, PeerTypeOK
<1>1. CASE BlStep /\ UNCHANGED hostVars
  BY <1>0, <1>1, BlStepAimed, SameHost, SameCovered DEF Targets, Launched
<1>2. CASE WindowTimeout
  <2>1. UNCHANGED hostVars /\ toBl' = toBl /\ job' = job
    BY <1>2 DEF WindowTimeout, WindowExpire
  <2> QED BY <2>1, SameHost, SameCovered DEF Targets, Launched
<1>3. CASE \/ \E r \in Runs : Begin(r)
           \/ ProbeReset \/ Listen \/ AnswerWindow \/ NotEntered \/ UserReset
  BY <1>3 DEF Begin, ProbeReset, Listen, AnswerWindow, NotEntered, UserReset, hostVars,
              Targets, Launched
<1>4. CASE AgentConnect \/ Entered
  BY <1>0, <1>4, LaunchAimed DEF Targets
<1>5. CASE Send
  <2>1. /\ UNCHANGED <<run, phase>> /\ phase = "stage" /\ Stage # "blreq"
        /\ job' = job /\ toBl' = CurFrame
    BY <1>5 DEF Send, devVars
  <2> QED BY <1>0, <2>1, CurFrameAimed, SameCovered DEF Targets, Launched
<1>6. CASE ReadAnswer \/ Timeout \/ InfoRead \/ AppText
  <2>1. run' = run /\ job' = job /\ toBl' = toBl /\ Launched
    BY <1>6 DEF ReadAnswer, Timeout, Answered, InfoRead, AppText, devVars, Launched
  <2> QED BY <2>1, SameCovered DEF Targets
<1>7. CASE RequestUpgrade
  <2>1. /\ run' = run /\ job' = job /\ toBl' = Bare("atbl") /\ Launched
        /\ toBl'.cmd = "atbl"
    BY <1>7, OtherFrames DEF RequestUpgrade, devVars, Launched, Texts
  <2> QED BY <2>1, SameCovered DEF Targets, Aimed
<1> QED BY <1>1, <1>2, <1>3, <1>4, <1>5, <1>6, <1>7
        DEF Next, Step, PeerStep, Connect, Serve

\* Once a program sends its frames, only the sectors of its file change, and
\* none if it has nothing to erase or write, whatever the runs before it left
\* unfinished and however many answers come late or not at all.  For every --addr:
\* the sectors are those the file's words lie in.
THEOREM PeersTouchOnlyTheFile == Spec => PeersKeepToTheFile
<1>1. PeerInit => Targets
  BY DEF PeerInit, HostInit, Targets, Launched
<1>2. Inv /\ Targets /\ [Next]_vars => Targets'
  <2>1. Targets /\ UNCHANGED vars => Targets'
    BY SameCovered DEF vars, blVars, devVars, hostVars, Targets, Launched
  <2> QED BY <2>1, TargetsStep
<1>3. Inv /\ Targets /\ [Next]_vars
        => [ mode # "upgrade" /\ Launched
             => \A c \in Cells \ Covered : mem'[c] = mem[c] ]_vars
  <2> SUFFICES ASSUME Inv, Targets, Next, mode # "upgrade", Launched,
                      NEW c \in Cells \ Covered
               PROVE  mem'[c] = mem[c]
    OBVIOUS
  <2>1. CASE BlStep
    BY <2>1, CommandWithin DEF Inv, Base, PeerTypeOK, Targets
  <2>2. CASE ~BlStep
    <3>1. mem' = mem
      BY <2>2 DEF Next, Step, WindowTimeout, WindowExpire, PeerStep, Begin, ProbeReset,
         Connect, Listen, AgentConnect, AnswerWindow, Entered, NotEntered, Serve, Send,
         ReadAnswer, Timeout, Answered, InfoRead, AppText, RequestUpgrade, UserReset,
         Launched, devVars
    <3> QED BY <3>1
  <2> QED BY <2>1, <2>2
<1>4. Inv /\ [Next]_vars => Inv'
  BY NextInv, StutterInv
<1> QED BY <1>1, <1>2, <1>3, <1>4, InitInv, PTL DEF Spec, PeersKeepToTheFile

-----------------------------------------------------------------------------
(* Runs that meet no fault of their own. *)

\* What is no frame carries nothing but its name.
Plain == toBl.cmd \notin XcpCmds => toBl = Bare(toBl.cmd)

\* Who does what, and that a reset through the probe finds the line empty.
Roles ==
  /\ phase \in {"probe", "settle"} => ~Agent /\ run.enter = "probe" /\ toBl = NoFrame
  /\ phase \in {"request", "listen"} => Agent

\* Nobody asks for a self-upgrade but at the end of a run, of a board in XCP mode,
\* which does not hear it.
NoUpgrade ==
  calm => /\ mode # "upgrade"
          /\ bkp = "UPGRADE_BL" => ~BlRunnable(mem)
          /\ toBl.cmd = "atbl" => mode = "xcp" /\ NoCommand

\* AT+OTA is sent once, and is gone when the request is in the register.
Asked ==
  calm /\ toBl.cmd = "at" =>
    /\ phase \in {"request", "enter"} /\ run.enter = "at"
    /\ bkp = "ENTER_XCP" => mode = "hang"

\* The board boots only while a program waits for it; only the agents, which do not
\* wait for XCP mode, may begin to send before it is there.
Resting ==
  calm => /\ Booting => phase \in {"settle", "request", "enter", "stage"}
          /\ mode \in {"reset", "check", "window"} =>
               /\ rx = "stray" => phase = "stage"
               /\ phase = "stage" => Agent /\ toHost = <<>>
          /\ toBl.cmd = "55" => mode \in {"window", "xcp"} /\ NoCommand

\* Where the console says the board is.
Heard ==
  calm /\ phase = "enter" =>
    /\ "ready" \in seen => mode = "xcp" /\ rx = "idle" /\ toBl.cmd # "at"
    /\ "ready" \notin seen /\ seen # {} =>
         /\ mode \in {"check", "window"}
         /\ "wait" \in seen => mode = "window"
         /\ "answered" \in seen => toBl.cmd = "55"
    /\ seen = {} /\ run.enter = "at" /\ ~Agent => toBl.cmd = "at" \/ bkp = "ENTER_XCP"

\* Whoever has had an answer 0 talks to a board in XCP mode, unless it changes
\* the bootloader itself.
Contact ==
  calm /\ phase = "stage" /\ Stage \in {"erase", "write", "blreq"} /\ errs = 0
    /\ base >= SectorWords
    /\ (Stage = "blreq" \/ step > 1 \/ idx > 0 \/ toHost # <<>>)
    => mode = "xcp" /\ (Stage = "blreq" => NoCommand /\ toBl = NoFrame)

\* The file's cells in the first n of the sectors it begins in are erased.
ErasedBelow(n) ==
  \A i \in 1 .. Len(img) :
    SectorOf(base + i - 1) < SectorOf(base) + n => mem[base + i - 1] = Erased

\* Every word of the file can still be programmed, or is.
Writable == \A i \in 1 .. Len(img) : Programmable(mem, base + i - 1, img[i])

\* The PC tool erases, or writes what it has erased.
Serving == /\ calm /\ ~Agent /\ Fits /\ Does("erase")
           /\ phase = "stage" /\ Stage \in {"erase", "write"}

\* The board listens, and every request so far was answered 0.
Served ==
  Serving =>
    /\ errs = 0 /\ mode = "xcp" /\ rx = "idle"
    /\ ~waiting => toBl \in {NoFrame, OtherByte}
    /\ toBl = NoFrame /\ waiting /\ NoCommand => toHost = <<0>>
    /\ Stage = "erase" => ErasedBelow(idx)
    /\ Stage = "erase" /\ toHost = <<0>> => ErasedBelow(idx + 1)
    /\ Stage = "write" => Writable

Excused == run.enter = "probe" \/ Does("blreq") \/ (Does("write") /\ ~Does("erase"))

\* A run that failed all the same found a board without a bootloader, and the
\* board has nothing left to do.
GivenUp ==
  calm /\ ~Agent /\ Fits /\ phase = "failed" /\ ~Excused =>
    ~BlRunnable(mem) /\ job = NoJob /\ toBl = NoFrame /\ mode \in {"xcp", "app", "hang"}

Undisturbed ==
  /\ Rested /\ Register /\ Plain /\ Roles
  /\ NoUpgrade /\ Asked /\ Resting /\ Heard /\ Contact /\ Served /\ GivenUp

-----------------------------------------------------------------------------
(* What an erase or a write does to the cells of the file. *)

\* Before the first erase.
LEMMA NothingErased ==
  ASSUME PeerTypeOK
  PROVE  ErasedBelow(0)
<1> SUFFICES ASSUME NEW i \in 1 .. Len(img)
             PROVE  ~(SectorOf(base + i - 1) < SectorOf(base) + 0)
  BY DEF ErasedBelow
<1>1. base \in Nat /\ base + i - 1 \in Nat /\ base <= base + i - 1
  BY FileInFlash
<1>2. SectorOf(base) <= SectorOf(base + i - 1)
      /\ SectorOf(base) \in Nat /\ SectorOf(base + i - 1) \in Nat
  BY <1>1, SectorNumbers
<1> QED BY <1>2

\* One more sector.
LEMMA EraseErases ==
  ASSUME PeerTypeOK, ErasedBelow(idx),
         mem' = Fill(mem, SectorCells(base + idx * SectorWords), Erased),
         NEW i \in 1 .. Len(img), SectorOf(base + i - 1) < SectorOf(base) + (idx + 1)
  PROVE  mem'[base + i - 1] = Erased
<1>1. idx \in Nat /\ base \in Nat /\ base + i - 1 \in Nat
  BY FileInFlash DEF PeerTypeOK
<1>2. base + i - 1 \in Cells
  BY FileInFlash, FlashSizeNat
<1>3. /\ SectorOf(base) \in Nat /\ SectorOf(base + i - 1) \in Nat
      /\ SectorOf(base + idx * SectorWords) = SectorOf(base) + idx
  BY <1>1, SectorNumbers
<1>4. CASE SectorOf(base + i - 1) < SectorOf(base) + idx
  <2>1. mem[base + i - 1] = Erased
    BY <1>4 DEF ErasedBelow
  <2> QED BY <1>2, <2>1 DEF Fill
<1>5. CASE SectorOf(base + i - 1) = SectorOf(base) + idx
  <2>1. base + i - 1 \in SectorCells(base + idx * SectorWords)
    BY <1>2, <1>3, <1>5 DEF SectorCells
  <2> QED BY <1>2, <2>1 DEF Fill
<1> QED BY <1>1, <1>3, <1>4, <1>5

\* A file that fits lies in the sectors that are erased for it.
LEMMA AllErased ==
  ASSUME PeerTypeOK, Fits, ErasedBelow(CeilDiv(Len(img), SectorWords)), NEW i \in 1 .. Len(img)
  PROVE  mem[base + i - 1] = Erased
<1>1. /\ base + i - 1 \in Nat /\ base + Len(img) - 1 \in Nat
      /\ base + i - 1 <= base + Len(img) - 1
  BY FileInFlash
<1>2. SectorOf(base + i - 1) <= SectorOf(base + Len(img) - 1)
      /\ SectorOf(base + i - 1) \in Nat /\ SectorOf(base + Len(img) - 1) \in Nat
  BY <1>1, SectorNumbers
<1>3. SectorOf(base) \in Nat /\ CeilDiv(Len(img), SectorWords) \in Nat
  BY FileInFlash, SectorNumbers, Counts
<1>4. SectorOf(base + i - 1) < SectorOf(base) + CeilDiv(Len(img), SectorWords)
  BY <1>2, <1>3 DEF Fits
<1> QED BY <1>4 DEF ErasedBelow

\* An erase of a sector of the file leaves the bootloader alone, and is answered.
LEMMA EraseAnswers ==
  ASSUME Base, Fits, EraseDone, job.addr = base + idx * SectorWords,
         phase = "stage", Stage = "erase"
  PROVE  Ack(0) /\ mode' = mode
<1>1. PeerTypeOK /\ mem \in Memory
  BY DEF Base, PeerTypeOK, TypeOK
<1>2. job.addr \in Cells /\ job.addr >= AppBase
  <2>1. job.addr = EraseFrame.addr /\ EraseFrame \in Frames
    BY <1>1, EraseFrameFits DEF PeerTypeOK, EraseFrame, Frame
  <2>2. idx * SectorWords \in Nat /\ base \in Nat
    BY <1>1, FileInFlash, Widths DEF PeerTypeOK
  <2> QED BY <2>1, <2>2, Widths DEF Fits, AppBase, Frames
<1>3. \A c \in BlCells : Fill(mem, SectorCells(job.addr), Erased)[c] = mem[c]
  BY <1>2, SectorsApart, AppBaseInFlash DEF Fill
<1> QED BY <1>3, BoundsAssumption DEF EraseDone, Answer

\* The word being written is the file's, and can be programmed; what follows it
\* is left as it is.
LEMMA WriteWrites ==
  ASSUME Base, phase = "stage", Stage = "write", Working, Writable,
         job.pos < Len(job.data)
  PROVE  /\ Programmable(mem, WriteCell, WriteWord)
         /\ \A i \in 1 .. Len(img) :
              [mem EXCEPT ![WriteCell] = WriteWord][base + i - 1] \in {Erased, img[i]}
<1> DEFINE lo == idx * Batch
           j  == lo + job.pos + 1
<1>1. /\ idx \in Nat /\ idx < CeilDiv(Len(img), Batch) /\ CurFrame = WriteFrame
      /\ job.pos \in Nat /\ mem \in Memory /\ PeerTypeOK
  BY DEF Base, PeerTypeOK, TypeOK, Jobs, CurFrame
<1>2. /\ lo \in Nat /\ job.addr = base + lo /\ job.data = WriteFrame.data
      /\ Len(job.data) = SmallerOf((idx + 1) * Batch, Len(img)) - lo
      /\ \A n \in 1 .. Len(job.data) : job.data[n] = img[lo + n]
  BY <1>1, WriteFrameFits DEF Working
<1>3. (idx + 1) * Batch \in Nat /\ Len(img) \in Nat /\ base \in Nat
  BY <1>1, Widths, FileInFlash
<1> HIDE DEF lo
<1>4. Len(job.data) \in Int /\ lo + Len(job.data) <= Len(img)
  BY <1>2, <1>3 DEF SmallerOf
<1>5. /\ lo \in Nat /\ job.pos \in Nat /\ base \in Nat /\ Len(img) \in Nat
      /\ job.addr = base + lo
  BY <1>1, <1>2, <1>3
<1>6. WriteWord = img[j] /\ WriteCell = base + j - 1 /\ j \in 1 .. Len(img)
  <2>1. job.pos + 1 \in 1 .. Len(job.data)
    BY <1>4, <1>5
  <2>2. job.data[job.pos + 1] = img[lo + (job.pos + 1)]
    BY <1>2, <2>1
  <2>3. j = lo + (job.pos + 1) /\ j \in 1 .. Len(img) /\ base + lo + job.pos = base + j - 1
    BY <1>4, <1>5
  <2> QED BY <1>5, <2>2, <2>3 DEF WriteWord, WriteCell
<1> HIDE DEF j
<1>7. Programmable(mem, WriteCell, WriteWord)
  BY <1>6 DEF Writable
<1>8. ASSUME NEW i \in 1 .. Len(img)
      PROVE  [mem EXCEPT ![WriteCell] = WriteWord][base + i - 1] \in {Erased, img[i]}
  <2>1. base + i - 1 \in Cells /\ mem[base + i - 1] \in {Erased, img[i]}
    BY <1>1, FileInFlash, FlashSizeNat DEF Writable, Programmable
  <2>2. base + i - 1 = WriteCell => i = j
    BY <1>5, <1>6
  <2> QED BY <1>1, <1>6, <2>1, <2>2 DEF Memory
<1> QED BY <1>7, <1>8

-----------------------------------------------------------------------------
(* A run without a fault: steps of the board. *)

LEMMA PlainBytes ==
  ASSUME Plain, TypeOK
  PROVE  /\ NoFrame.cmd = "none" /\ StartByte.cmd = "aa" /\ OtherByte.cmd = "55"
         /\ toBl.cmd = "none" <=> toBl = NoFrame
         /\ toBl.cmd = "55" <=> toBl = OtherByte
         /\ toBl.cmd \in XcpCmds \cup {"none", "at", "atbl", "aa", "55"}
BY OtherFrames DEF Plain, TypeOK, Frames, XcpCmds, Texts

\* A step of the board in a run without a fault: AT+OTA is heard, or stays.
CalmBoard ==
  /\ BlStep /\ UNCHANGED hostVars /\ Console /\ calm /\ faults' = faults
  /\ ~(toBl.cmd = "at" /\ toBl' = NoFrame /\ bkp' # "ENTER_XCP")

LEMMA CalmBoardFacts ==
  ASSUME Inv, Undisturbed, CalmBoard
  PROVE  /\ PeerTypeOK /\ TypeOK /\ Control /\ Connecting /\ BlStep /\ faults' = faults
         /\ UNCHANGED <<run, phase, step, idx, waiting, errs>>
         /\ Agent' = Agent /\ Stage' = Stage /\ calm
         /\ base' = base /\ Fits' = Fits /\ Does("erase")' = Does("erase")
         /\ toBl' \in {toBl, NoFrame} /\ toBl'.cmd \in {toBl.cmd, "none"}
         /\ NoFrame.cmd = "none" /\ StartByte.cmd = "aa" /\ OtherByte.cmd = "55"
         /\ toBl.cmd = "none" <=> toBl = NoFrame
         /\ toBl.cmd = "55" <=> toBl = OtherByte
         /\ mode \notin {"xcp", "upgrade"} => NoCommand
         /\ mode # "upgrade"
<1>1. TypeOK /\ PeerTypeOK /\ Control /\ Connecting /\ BlStep /\ faults' = faults /\ calm
  BY DEF CalmBoard, Inv, Base, SessionInv, PeerTypeOK
<1>2. /\ UNCHANGED <<run, phase, step, idx, waiting, errs>>
      /\ Agent' = Agent /\ Stage' = Stage
      /\ base' = base /\ Fits' = Fits /\ Does("erase")' = Does("erase")
  BY SameHost, SameRun DEF CalmBoard
<1>3. toBl' \in {toBl, NoFrame}
  BY <1>1, JobStep
<1>4. mode \notin {"xcp", "upgrade"} => NoCommand
  BY <1>1 DEF Control, JobMode, NoCommand
<1>5. mode # "upgrade"
  BY <1>1 DEF Undisturbed, NoUpgrade
<1> QED BY <1>1, <1>2, <1>3, <1>4, <1>5, PlainBytes DEF Undisturbed

LEMMA BoardNoUpgrade ==
  ASSUME Inv, Undisturbed, CalmBoard
  PROVE  NoUpgrade'
<1>1. /\ Register
      /\ bkp = "UPGRADE_BL" => ~BlRunnable(mem)
      /\ toBl.cmd = "atbl" => mode = "xcp" /\ NoCommand
  BY CalmBoardFacts DEF Undisturbed, NoUpgrade
<1>2. mode' # "upgrade"
  BY <1>1, CalmBoardFacts, CalmModes
<1>3. ASSUME bkp' = "UPGRADE_BL" PROVE ~BlRunnable(mem)'
  <2>1. bkp = "UPGRADE_BL"
    BY <1>1, <1>3, CalmBoardFacts, CalmRegister DEF Texts
  <2>2. mode \notin {"xcp", "upgrade"}
    BY <1>1, <2>1 DEF Register
  <2>3. mem' = mem
    BY <2>2, CalmBoardFacts, CalmModes
  <2> QED BY <1>1, <2>1, <2>3 DEF BlRunnable
<1>4. ASSUME toBl'.cmd = "atbl" PROVE mode' = "xcp" /\ NoCommand'
  <2>1. toBl' = toBl /\ toBl.cmd = "atbl" /\ toBl' # NoFrame
    BY <1>4, CalmBoardFacts
  <2> QED BY <1>1, <2>1, CalmBoardFacts, CalmWaiting DEF XcpCmds
<1> QED BY <1>2, <1>3, <1>4 DEF NoUpgrade

LEMMA BoardAsked ==
  ASSUME Inv, Undisturbed, CalmBoard
  PROVE  Asked'
<1> SUFFICES ASSUME toBl'.cmd = "at"
             PROVE  /\ phase \in {"request", "enter"} /\ run.enter = "at"
                    /\ bkp' = "ENTER_XCP" => mode' = "hang"
  BY CalmBoardFacts DEF Asked
<1>1. toBl' = toBl /\ toBl.cmd = "at" /\ toBl' # NoFrame
  BY CalmBoardFacts
<1>2. /\ phase \in {"request", "enter"} /\ run.enter = "at"
      /\ bkp = "ENTER_XCP" => mode = "hang"
  BY <1>1, CalmBoardFacts DEF Undisturbed, Asked
<1>3. bkp' \in {bkp, "none"}
  BY <1>1, CalmBoardFacts, CalmRegister DEF Undisturbed
<1> QED BY <1>2, <1>3, CalmBoardFacts, CalmModes

LEMMA BoardResting ==
  ASSUME Inv, Undisturbed, CalmBoard
  PROVE  Resting'
<1>0. /\ Roles /\ Connecting /\ mode # "upgrade"
      /\ toBl.cmd = "atbl" => mode = "xcp" /\ NoCommand
      /\ toBl.cmd = "at" => /\ phase \in {"request", "enter"}
                            /\ bkp = "ENTER_XCP" => mode = "hang"
      /\ Booting => phase \in {"settle", "request", "enter", "stage"}
      /\ mode \in {"reset", "check", "window"} =>
           /\ rx = "stray" => phase = "stage"
           /\ phase = "stage" => Agent /\ toHost = <<>>
      /\ toBl.cmd = "55" => mode \in {"window", "xcp"} /\ NoCommand
  BY CalmBoardFacts DEF Undisturbed, NoUpgrade, Asked, Resting
<1>1. ASSUME Booting', ~Booting
      PROVE  phase \in {"request", "enter"} /\ rx' = "idle"
  BY <1>0, <1>1, CalmBoardFacts, CalmBooting DEF Texts
<1>2. ASSUME Booting', Booting
      PROVE  /\ phase \in {"settle", "request", "enter", "stage"}
             /\ mode \in {"reset", "check"} /\ toHost' = toHost
             /\ rx' = "stray" => phase = "stage"
  <2>1. mode \in {"reset", "check"}
    BY <1>0, <1>2 DEF Booting
  <2>2. toHost' = toHost
    BY <2>1, CalmBoardFacts, CalmModes
  <2>3. ASSUME rx' = "stray", phase # "stage" PROVE FALSE
    <3>1. toBl # NoFrame /\ toBl' = NoFrame /\ bkp' = bkp
      BY <1>0, <1>2, <2>1, <2>3, CalmBoardFacts, CalmBooting
    <3>2. phase \in {"request", "enter"} /\ toBl.cmd \in {"none", "at", "55"}
      BY <1>0, <1>2, <2>3, <3>1 DEF Roles, Connecting, Attracting
    <3>3. toBl.cmd = "at"
      BY <1>0, <2>1, <3>1, <3>2, CalmBoardFacts
    <3>4. bkp' = "ENTER_XCP"
      BY <3>1, <3>3 DEF CalmBoard
    <3> QED BY <1>0, <2>1, <3>1, <3>3, <3>4
  <2> QED BY <1>0, <1>2, <2>1, <2>2, <2>3
<1>3. ASSUME mode' = "window"
      PROVE  mode = "check" /\ rx' = rx /\ toHost' = toHost
  BY <1>3, CalmBoardFacts, CalmBooting, CalmModes
<1>4. ASSUME toBl'.cmd = "55" PROVE mode' \in {"window", "xcp"} /\ NoCommand'
  <2>1. toBl' = toBl /\ toBl.cmd = "55" /\ toBl' # NoFrame
    BY <1>4, CalmBoardFacts
  <2> QED BY <1>0, <2>1, CalmBoardFacts, CalmWaiting DEF XcpCmds
<1>5. ASSUME mode' \in {"reset", "check", "window"}
      PROVE  /\ rx' = "stray" => phase = "stage"
             /\ phase = "stage" => Agent /\ toHost' = <<>>
  <2>1. CASE mode' = "window"
    BY <1>0, <1>3, <2>1
  <2>2. CASE mode' # "window"
    <3>1. Booting'
      BY <1>5, <2>2 DEF Booting
    <3> QED BY <1>0, <1>1, <1>2, <3>1
  <2> QED BY <2>1, <2>2
<1> QED BY <1>1, <1>2, <1>4, <1>5, CalmBoardFacts DEF Resting

\* What waits in XCP mode and is not carrying out a command, listens.
LEMMA ListensInXcp ==
  ASSUME Base, Rested, mode = "xcp", NoCommand, rx = "idle"
  PROVE  Listening
<1>1. job.op = "none"
  BY DEF Base, PeerTypeOK, TypeOK, Jobs, Ops, Control, JobMode, NoCommand
<1> QED BY <1>1 DEF Rested, Listening

LEMMA BoardHeard ==
  ASSUME Inv, Undisturbed, CalmBoard
  PROVE  Heard'
<1> SUFFICES ASSUME phase = "enter"
             PROVE  /\ "ready" \in seen' => mode' = "xcp" /\ rx' = "idle" /\ toBl'.cmd # "at"
                    /\ "ready" \notin seen' /\ seen' # {} =>
                         /\ mode' \in {"check", "window"}
                         /\ "wait" \in seen' => mode' = "window"
                         /\ "answered" \in seen' => toBl'.cmd = "55"
                    /\ seen' = {} /\ run.enter = "at" /\ ~Agent
                         => toBl'.cmd = "at" \/ bkp' = "ENTER_XCP"
  BY CalmBoardFacts DEF Heard
<1>0. /\ Roles /\ Connecting /\ Register /\ Rested /\ mode # "upgrade"
      /\ toBl.cmd = "atbl" => mode = "xcp" /\ NoCommand
      /\ toBl.cmd = "at" /\ bkp = "ENTER_XCP" => mode = "hang"
      /\ mode \in {"reset", "check", "window"} => rx = "idle"
      /\ toBl.cmd = "55" => mode \in {"window", "xcp"}
      /\ toBl.cmd \in {"none", "at", "55"}
      /\ toBl.cmd = "55" => seen # {}
      /\ seen # {} => NoCommand
  BY CalmBoardFacts
     DEF Undisturbed, NoUpgrade, Asked, Resting, Connecting, Attracting, TypeOK
<1>1. /\ "ready" \in seen => mode = "xcp" /\ rx = "idle" /\ toBl.cmd # "at"
      /\ "ready" \notin seen /\ seen # {} =>
           /\ mode \in {"check", "window"}
           /\ "wait" \in seen => mode = "window"
           /\ "answered" \in seen => toBl.cmd = "55"
      /\ seen = {} /\ run.enter = "at" /\ ~Agent => toBl.cmd = "at" \/ bkp = "ENTER_XCP"
  BY CalmBoardFacts DEF Undisturbed, Heard
<1>2. /\ seen' = seen \cup Printed
      /\ mode' # "upgrade"
  BY CalmBoardFacts, BoardNoUpgrade, <1>0, CalmModes DEF CalmBoard, Console, Undisturbed, NoUpgrade
<1>3. /\ "banner" \in Printed <=> mode = "reset" /\ mode' = "check"
      /\ "wait" \in Printed <=> mode # "window" /\ mode' = "window"
      /\ "ready" \in Printed <=> mode # "xcp" /\ mode' = "xcp"
      /\ "answered" \in Printed <=> toBl' = OtherByte
      /\ Printed \subseteq {"banner", "wait", "ready", "answered"}
  BY <1>2 DEF Printed
<1>4. toBl' = OtherByte => toBl.cmd = "55"
  BY CalmBoardFacts
<1>5. ASSUME "ready" \in seen'
      PROVE  mode' = "xcp" /\ rx' = "idle" /\ toBl'.cmd # "at"
  <2>1. CASE "ready" \in seen
    <3>1. mode = "xcp" /\ rx = "idle" /\ NoCommand /\ toBl.cmd \in {"none", "55"}
      BY <1>0, <1>1, <2>1
    <3>2. Listening
      BY <1>0, <3>1, ListensInXcp DEF Inv
    <3>3. Overrun
      BY <3>1, <3>2, CalmBoardFacts, CalmListening DEF XcpCmds
    <3> QED BY <3>1, <3>3, CalmBoardFacts DEF Overrun
  <2>2. CASE mode # "xcp" /\ mode' = "xcp"
    <3>1. CASE mode = "check" /\ bootBkp = "ENTER_XCP" /\ rx' = rx /\ toBl' = toBl
      BY <1>0, <2>2, <3>1 DEF Register
    <3>2. CASE mode = "window" /\ toBl' = NoFrame /\ (toBl.cmd \notin XcpCmds => rx' = "idle")
      BY <1>0, <2>2, <3>2, CalmBoardFacts DEF XcpCmds
    <3>3. ~(mode = "window" /\ rx = "stray")
      BY <1>0
    <3> QED BY <1>0, <2>2, <3>1, <3>2, <3>3, CalmBoardFacts, CalmEnters
  <2> QED BY <1>2, <1>3, <1>5, <2>1, <2>2
<1>6. ASSUME "ready" \notin seen', seen' # {}
      PROVE  /\ mode' \in {"check", "window"}
             /\ "wait" \in seen' => mode' = "window"
             /\ "answered" \in seen' => toBl'.cmd = "55"
  <2>0. /\ "ready" \notin seen /\ ~(mode # "xcp" /\ mode' = "xcp")
    BY <1>2, <1>3, <1>6
  <2>1. CASE seen = {}
    <3>1. toBl' # OtherByte
      BY <1>0, <1>4, <2>1
    <3> QED BY <1>2, <1>3, <1>6, <2>1, <3>1
  <2>2. CASE seen # {}
    <3>1. mode = "check"
      <4>1. ~(mode = "window")
        BY <2>0, CalmBoardFacts, CalmSteps DEF WindowPending, WindowByte
      <4> QED BY <1>1, <2>0, <2>2, <4>1
    <3>2. mode' \in {"check", "window"}
      BY <2>0, <3>1, CalmBoardFacts, CalmSteps DEF CheckApp, NotListening
    <3>3. "wait" \notin seen /\ "answered" \notin seen /\ toBl' # OtherByte
      BY <1>0, <1>1, <1>4, <2>0, <2>2, <3>1
    <3> QED BY <1>2, <1>3, <3>2, <3>3
  <2> QED BY <2>1, <2>2
<1>7. ASSUME seen' = {}, run.enter = "at", ~Agent
      PROVE  toBl'.cmd = "at" \/ bkp' = "ENTER_XCP"
  <2>1. seen = {} /\ ~(mode # "xcp" /\ mode' = "xcp")
    BY <1>2, <1>3, <1>7
  <2>2. CASE toBl.cmd = "at"
    BY <2>2, CalmBoardFacts DEF CalmBoard
  <2>3. CASE bkp = "ENTER_XCP" /\ toBl.cmd # "at"
    BY <1>0, <2>1, <2>3, CalmBoardFacts, CalmRegister DEF Texts
  <2> QED BY <1>1, <1>7, <2>1, <2>2, <2>3
<1> QED BY <1>5, <1>6, <1>7

LEMMA BoardContact ==
  ASSUME Inv, Undisturbed, CalmBoard
  PROVE  Contact'
<1>0. /\ Inv /\ Base /\ Rested /\ OneRequest /\ Contact /\ mode # "upgrade"
  BY CalmBoardFacts DEF Undisturbed, Inv, SessionInv
<1> SUFFICES ASSUME phase = "stage", Stage \in {"erase", "write", "blreq"}, errs = 0,
                    base >= SectorWords,
                    Stage = "blreq" \/ step > 1 \/ idx > 0 \/ toHost' # <<>>
             PROVE  mode' = "xcp" /\ (Stage = "blreq" => NoCommand' /\ toBl' = NoFrame)
  BY CalmBoardFacts DEF Contact
<1>1. mode = "xcp"
  <2>1. CASE toHost' = toHost
    BY <1>0, <2>1, CalmBoardFacts DEF Contact
  <2>2. CASE toHost' # toHost
    BY <2>2, CalmBoardFacts, CalmModes
  <2> QED BY <2>1, <2>2
<1>2. CASE Stage = "blreq"
  <2>1. NoCommand /\ toBl = NoFrame
    BY <1>0, <1>2, CalmBoardFacts DEF Contact
  <2> QED BY <1>1, <2>1, CalmBoardFacts, CalmWaiting DEF XcpCmds
<1>3. CASE Stage \in {"erase", "write"}
  <2>1. Clean /\ CurFrame.cmd \in {"erase", "write"}
    BY <1>3, CalmBoardFacts, CleanFrame DEF Clean
  <2>2. job.op # "boot"
    BY <1>0, <2>1 DEF OneRequest, Sent, Working, Answering, Lost, NoCommand
  <2>3. ASSUME NEW c \in BlCells PROVE mem'[c] = mem[c]
    <3>1. Aimed(CurFrame.cmd, CurFrame.addr, CurFrame.data, AboveSector0)
      BY <1>3, CalmBoardFacts, CurFrameAbove
    <3>2. NoCommand \/ Working
      BY <1>0, <2>1 DEF OneRequest, Sent, Answering, Lost
    <3>3. Aimed(job.op, job.addr, job.data, AboveSector0)
      BY <3>1, <3>2 DEF Aimed, NoCommand, Working, XcpCmds
    <3>4. c \in Cells \ AboveSector0
      BY AppBaseInFlash DEF AboveSector0
    <3> QED BY <3>3, <3>4, CalmBoardFacts, CommandWithin
  <2> QED BY <1>1, <1>3, <2>2, <2>3, CalmBoardFacts, CalmModes
<1> QED BY <1>2, <1>3

LEMMA BoardGivenUp ==
  ASSUME Inv, Undisturbed, CalmBoard
  PROVE  GivenUp'
<1>0. Inv /\ Rested /\ GivenUp /\ mode # "upgrade"
  BY CalmBoardFacts DEF Undisturbed
<1> SUFFICES ASSUME ~Agent, Fits, phase = "failed", ~Excused
             PROVE  /\ ~BlRunnable(mem') /\ job' = NoJob /\ toBl' = NoFrame
                    /\ mode' \in {"xcp", "app", "hang"}
  BY CalmBoardFacts DEF GivenUp, Excused, Does, BlRunnable
<1>1. ~BlRunnable(mem) /\ job = NoJob /\ toBl = NoFrame /\ mode \in {"xcp", "app", "hang"}
  BY <1>0, CalmBoardFacts DEF GivenUp
<1>2. mode = "xcp" /\ StrayTimeout
  BY <1>1, CalmBoardFacts, CalmSteps
     DEF NotListening, AppReceive, Receive, Overrun, EraseDone, WriteStep, WriteFail,
         WriteDone, BootJump, NoJob, Job, XcpCmds
<1> QED BY <1>1, <1>2 DEF StrayTimeout, BlRunnable

LEMMA BoardServed ==
  ASSUME Inv, Undisturbed, CalmBoard, Serving
  PROVE  Served'
<1>0. /\ Base /\ PeerTypeOK /\ TypeOK /\ Control /\ OneRequest /\ Clean /\ Rested
      /\ errs = 0 /\ rx = "idle" /\ mode = "xcp" /\ phase = "stage"
      /\ CurFrame.cmd \in {"erase", "write"} /\ CurFrame.cmd \in XcpCmds
  BY CleanFrame DEF Inv, Base, SessionInv, PeerTypeOK, Serving, Undisturbed, Served, Clean
<1>1. /\ NoFrame.cmd = "none" /\ OtherByte.cmd = "55"
      /\ NoFrame # OtherByte /\ CurFrame # OtherByte /\ CurFrame # NoFrame
  BY <1>0, OtherFrames DEF XcpCmds
<1> SUFFICES /\ rx' = "idle" /\ mode' = "xcp"
             /\ ~waiting => toBl' \in {NoFrame, OtherByte}
             /\ toBl' = NoFrame /\ waiting /\ NoCommand' => toHost' = <<0>>
             /\ Stage = "erase" => \A i \in 1 .. Len(img) :
                  SectorOf(base + i - 1) < SectorOf(base) + idx
                    => mem'[base + i - 1] = Erased
             /\ Stage = "erase" /\ toHost' = <<0>> => \A i \in 1 .. Len(img) :
                  SectorOf(base + i - 1) < SectorOf(base) + (idx + 1)
                    => mem'[base + i - 1] = Erased
             /\ Stage = "write" => \A i \in 1 .. Len(img) :
                  mem'[base + i - 1] \in {Erased, img[i]}
  BY <1>0, SameHost DEF CalmBoard, Served, ErasedBelow, Writable, Programmable
<1>2. /\ ~waiting => toBl \in {NoFrame, OtherByte}
      /\ toBl = NoFrame /\ waiting /\ NoCommand => toHost = <<0>>
      /\ Stage = "erase" => ErasedBelow(idx)
      /\ Stage = "erase" /\ toHost = <<0>> => ErasedBelow(idx + 1)
      /\ Stage = "write" => Writable
  BY DEF Undisturbed, Served
<1>3. CASE mem' = mem /\ toHost' = toHost /\ rx' = "idle" /\ mode' = "xcp"
           /\ toBl' = NoFrame /\ (waiting => ~NoCommand')
  BY <1>2, <1>3 DEF ErasedBelow, Writable, Programmable
<1>4. CASE ~waiting
  <2>1. NoCommand /\ toBl \in {NoFrame, OtherByte} /\ toBl.cmd \notin XcpCmds
    BY <1>0, <1>2, <1>4 DEF OneRequest
  <2>2. Listening
    BY <1>0, <2>1, ListensInXcp
  <2>3. Overrun /\ toBl = OtherByte
    BY <1>0, <2>1, <2>2, CalmListening, CalmBoardFacts
  <2> QED BY <1>0, <1>1, <1>3, <1>4, <2>3 DEF Overrun
<1>5. CASE NoCommand /\ toBl = NoFrame
  <2>1. Listening
    BY <1>0, <1>5, ListensInXcp
  <2> QED BY <1>0, <1>5, <2>1, CalmListening, CalmBoardFacts
<1>6. CASE waiting /\ Sent
  <2>1. Listening
    BY <1>0, <1>6, ListensInXcp DEF Sent
  <2>2. Receive
    BY <1>0, <1>6, <2>1, CalmListening, CalmBoardFacts DEF Sent
  <2>3. /\ mem' = mem /\ toHost' = toHost /\ rx' = rx /\ mode' = mode
        /\ toBl' = NoFrame /\ job'.op = CurFrame.cmd
    BY <1>0, <1>6, <2>2 DEF Receive, Dispatch, Sent, Job
  <2> QED BY <1>0, <1>3, <1>6, <2>3 DEF NoCommand
<1>7. CASE waiting /\ Working
  <2>1. /\ toBl = NoFrame /\ toHost = <<>>
        /\ job.op = "erase" <=> Stage = "erase"
        /\ job.op \in {"erase", "write"}
    BY <1>0, <1>7, CleanFrame DEF Working
  <2>2. 0 < MaxAcks /\ Len(<<>>) = 0
    BY BoundsAssumption
  <2>3. CASE Stage = "erase"
    <3>1. EraseDone
      BY <1>0, <2>1, <2>3, CalmCommand, CalmBoardFacts
    <3>2. job.addr = base + idx * SectorWords
      BY <1>7, <2>3 DEF Working, CurFrame, EraseFrame, Frame
    <3>3. /\ mem' = Fill(mem, SectorCells(job.addr), Erased)
          /\ toHost' = <<0>> /\ UNCHANGED <<mode, rx, toBl>>
      BY <1>0, <2>1, <2>2, <2>3, <3>1, <3>2, EraseAnswers DEF EraseDone, Answer, Ack, Serving
    <3>4. \A i \in 1 .. Len(img) : SectorOf(base + i - 1) < SectorOf(base) + (idx + 1)
            => mem'[base + i - 1] = Erased
      BY <1>0, <1>2, <2>3, <3>2, <3>3, EraseErases
    <3>5. \A i \in 1 .. Len(img) : SectorOf(base + i - 1) < SectorOf(base) + idx
            => SectorOf(base + i - 1) < SectorOf(base) + (idx + 1)
      <4> SUFFICES ASSUME NEW i \in 1 .. Len(img),
                          SectorOf(base + i - 1) < SectorOf(base) + idx
                   PROVE  SectorOf(base + i - 1) < SectorOf(base) + (idx + 1)
        OBVIOUS
      <4>1. base \in Nat /\ base + i - 1 \in Nat /\ idx \in Nat
        BY <1>0, FileInFlash DEF PeerTypeOK
      <4>2. SectorOf(base) \in Nat /\ SectorOf(base + i - 1) \in Nat
        BY <4>1, SectorNumbers
      <4> QED BY <4>1, <4>2
    <3> QED BY <1>0, <1>7, <2>1, <2>3, <3>3, <3>4, <3>5
  <2>4. CASE Stage = "write"
    <3>1. WriteStep \/ WriteFail \/ WriteDone
      BY <1>0, <2>1, <2>4, CalmCommand, CalmBoardFacts
    <3>2. ~WriteFail
      <4> SUFFICES ASSUME WriteFail PROVE FALSE
        OBVIOUS
      <4>1. ~Programmable(mem, WriteCell, WriteWord) /\ job.pos < Len(job.data)
        BY <1>0, CalmSteps, CalmBoardFacts DEF WriteFail
      <4> QED BY <1>0, <1>2, <1>7, <2>4, <4>1, WriteWrites
    <3>3. CASE WriteStep
      <4>1. /\ job.pos < Len(job.data) /\ mem' = [mem EXCEPT ![WriteCell] = WriteWord]
            /\ job'.op = job.op /\ UNCHANGED <<mode, rx, toBl, toHost>>
        BY <1>0, <3>3 DEF WriteStep, TypeOK, Jobs
      <4>2. \A i \in 1 .. Len(img) : mem'[base + i - 1] \in {Erased, img[i]}
        BY <1>0, <1>2, <1>7, <2>4, <4>1, WriteWrites
      <4> QED BY <1>0, <1>7, <2>1, <2>4, <4>1, <4>2 DEF NoCommand
    <3>4. CASE WriteDone
      <4>1. toHost' = <<0>> /\ UNCHANGED <<mem, mode, rx, toBl>>
        BY <2>1, <2>2, <3>4 DEF WriteDone, Ack
      <4> QED BY <1>0, <1>2, <1>7, <2>1, <2>4, <4>1 DEF Writable, Programmable
    <3> QED BY <3>1, <3>2, <3>3, <3>4
  <2> QED BY <2>3, <2>4 DEF Serving
<1>8. waiting => Sent \/ Working \/ Answering \/ Lost
  BY <1>0 DEF OneRequest
<1> QED BY <1>4, <1>5, <1>6, <1>7, <1>8 DEF Answering, Lost

\* The board's part.
LEMMA BoardUndisturbed ==
  ASSUME Inv, Undisturbed, CalmBoard
  PROVE  NoUpgrade' /\ Asked' /\ Resting' /\ Heard' /\ Contact' /\ Served' /\ GivenUp'
<1>1. Served'
  <2>1. CASE Serving
    BY <2>1, BoardServed
  <2>2. CASE ~Serving
    BY <2>2, CalmBoardFacts DEF Served, Serving
  <2> QED BY <2>1, <2>2
<1> QED BY <1>1, BoardNoUpgrade, BoardAsked, BoardResting, BoardHeard, BoardContact,
           BoardGivenUp

-----------------------------------------------------------------------------
(* A run without a fault: steps of the program, the operator and the clock. *)

\* The history is calm after a step without a fault, of a run that was calm or
\* has just been started on a board at rest.
LEMMA CalmStep ==
  ASSUME Inv, Next, calm'
  PROVE  /\ faults' = faults /\ ~Fault /\ Console
         /\ ~(toBl.cmd = "at" /\ toBl' = NoFrame /\ bkp' # "ENTER_XCP")
         /\ calm \/ (Idle /\ ~Idle' /\ BlQuiet)
<1>1. /\ faults' = faults
      /\ calm \/ (Idle /\ ~Idle' /\ BlQuiet)
      /\ ~(toBl.cmd = "at" /\ toBl' = NoFrame /\ bkp' # "ENTER_XCP")
  BY Zenon DEF Next, History
<1>2. ~Fault
  <2>1. faults \in Nat
    BY BoundsAssumption DEF Inv, Base, PeerTypeOK, TypeOK
  <2> QED BY <1>1, <2>1 DEF Fault
<1> QED BY <1>1, <1>2 DEF Next, History

\* What the program does to a board that it finds at rest, or that it waits for.
Quiet == NoUpgrade /\ Asked /\ Resting /\ Heard /\ Contact /\ Served /\ GivenUp

LEMMA BeginQuiet ==
  ASSUME Inv, Undisturbed, Next, calm', NEW r \in Runs, Begin(r)
  PROVE  Quiet'
<1>1. /\ Idle /\ Console
      /\ calm \/ BlQuiet
      /\ UNCHANGED <<mem, mode, rx, bkp, job>> /\ run' = r
      /\ toHost' = <<>> /\ toBl = NoFrame
      /\ toBl' = (IF r.enter = "at" THEN Bare("at") ELSE NoFrame)
      /\ phase' = (CASE r.enter = "probe" -> "probe"
                     [] r.by # "v4"       -> "request"
                     [] OTHER             -> "enter")
  BY CalmStep DEF Begin, devVars
<1>2. /\ Bare("at").cmd = "at" /\ NoFrame.cmd = "none" /\ OtherByte.cmd = "55"
      /\ toBl'.cmd \in {"at", "none"}
      /\ toBl'.cmd = "at" => r.enter = "at"
  BY <1>1, OtherFrames DEF Texts
<1>3. ~Booting /\ mode # "upgrade" /\ ~(mode = "window" /\ rx = "stray")
  BY <1>1 DEF Undisturbed, Resting, Booting, BlQuiet, Idle
<1>4. bkp # "none" => mode = "hang" /\ ~BlRunnable(mem)
  BY <1>3 DEF Undisturbed, Register, Booting, Inv, Base, PeerTypeOK, TypeOK, Modes
<1>5. seen' = {}
  <2>1. seen = {}
    BY <1>1 DEF Inv, SessionInv, Connecting, Idle
  <2> QED BY <1>1, <1>2, <2>1 DEF Console, Printed
<1>6. /\ phase' \in {"probe", "request", "enter"}
      /\ r.enter = "at" => phase' \in {"request", "enter"}
      /\ phase' = "enter" /\ r.enter = "at" /\ ~(Agent') => toBl'.cmd = "at"
  BY <1>1, <1>2
<1>7. NoUpgrade' /\ Asked'
  BY <1>1, <1>2, <1>3, <1>4, <1>6 DEF NoUpgrade, Asked, BlRunnable
<1>8. Resting' /\ Heard'
  BY <1>1, <1>2, <1>3, <1>5, <1>6 DEF Resting, Booting, Heard
<1> QED BY <1>6, <1>7, <1>8 DEF Quiet, Contact, Served, Serving, GivenUp

LEMMA ProbeQuiet ==
  ASSUME Inv, Undisturbed, Next, calm', ProbeReset
  PROVE  Quiet'
<1>1. /\ calm /\ phase = "probe" /\ phase' = "settle" /\ Reset
      /\ UNCHANGED <<run, step, idx, waiting, errs, toBl, toHost>>
  BY CalmStep DEF ProbeReset, Reset, Idle
<1>2. /\ Control /\ Register /\ toBl = NoFrame /\ NoFrame.cmd = "none"
      /\ mode # "upgrade" /\ (bkp = "UPGRADE_BL" => ~BlRunnable(mem))
  BY <1>1, OtherFrames DEF Inv, Base, Undisturbed, Roles, NoUpgrade
<1>3. mode' = "reset" /\ rx' = "idle" /\ bkp' \in {bkp, "none"}
  BY <1>1 DEF Reset, Restart
<1>4. bkp' = "UPGRADE_BL" => ~BlRunnable(mem)'
  <2> SUFFICES ASSUME bkp' = "UPGRADE_BL" PROVE ~BlRunnable(mem)'
    OBVIOUS
  <2>1. bkp = "UPGRADE_BL" /\ mode \notin {"xcp", "upgrade"}
    BY <1>2, <1>3 DEF Register
  <2> QED BY <1>1, <1>2, <2>1, ResetKeepsFlash DEF BlRunnable
<1>5. NoUpgrade' /\ Asked' /\ Resting'
  BY <1>1, <1>2, <1>3, <1>4 DEF NoUpgrade, Asked, Resting, Booting
<1> QED BY <1>1, <1>5 DEF Quiet, Heard, Contact, Served, Serving, GivenUp

\* While it gets the board's attention, nothing but a byte or a reset reaches it.
LEMMA ConnectQuiet ==
  ASSUME Inv, Undisturbed, Next, calm', Connect
  PROVE  Quiet'
<1>0. /\ calm /\ Console /\ ~Fault /\ faults' = faults /\ Attracting
      /\ UNCHANGED <<mem, mode, rx, bkp, job>>
      /\ UNCHANGED <<run, step, idx, waiting, errs>>
      /\ Agent' = Agent /\ Stage' = Stage
  <2>1. /\ Attracting /\ ~Idle /\ UNCHANGED devVars
        /\ UNCHANGED <<run, step, idx, waiting, errs>>
    BY DEF Connect, Listen, AgentConnect, AnswerWindow, Entered, NotEntered, Attracting,
           Idle, hostVars
  <2> QED BY <2>1, CalmStep, SameRun DEF devVars, Stage
<1>1. /\ PeerTypeOK /\ Connecting /\ Register /\ Roles /\ mode # "upgrade"
      /\ bkp = "UPGRADE_BL" => ~BlRunnable(mem)
      /\ toBl.cmd = "at" => run.enter = "at" /\ (bkp = "ENTER_XCP" => mode = "hang")
      /\ mode \in {"reset", "check", "window"} => rx # "stray"
      /\ toBl.cmd = "55" => mode \in {"window", "xcp"} /\ NoCommand
  BY <1>0 DEF Inv, Base, SessionInv, Undisturbed, NoUpgrade, Asked, Resting, Attracting
<1>2. /\ NoFrame.cmd = "none" /\ StartByte.cmd = "aa" /\ OtherByte.cmd = "55"
      /\ toBl.cmd \in {"none", "at", "55"} /\ (toBl.cmd = "55" => seen # {})
      /\ toBl.cmd = "none" <=> toBl = NoFrame
      /\ toBl.cmd = "55" <=> toBl = OtherByte
  BY <1>0, <1>1, PlainBytes DEF Connecting, Undisturbed, PeerTypeOK
<1>3. step = 1 /\ idx = 0 /\ errs = 0 /\ ~waiting
  BY <1>0, <1>1 DEF PeerTypeOK, Connecting, Attracting, Idle
<1>4. Stage # "blreq" /\ (Does("erase") => Stage = "erase") /\ run.enter \in {"at", "probe", "wait"}
  BY <1>1, <1>3, StageOfRun
<1>5. CASE Listen
  <2>1. /\ phase \in {"settle", "request"} /\ phase' = "enter" /\ toBl' = toBl
    BY <1>5 DEF Listen
  <2>2. seen' = {} /\ toBl.cmd # "55"
    BY <1>0, <1>1, <1>2, <2>1 DEF Connecting, Console, Printed
  <2>3. NoUpgrade' /\ Asked'
    BY <1>0, <1>1, <1>2, <2>1 DEF NoUpgrade, Asked, BlRunnable
  <2>4. Resting' /\ Heard'
    BY <1>0, <1>1, <2>1, <2>2 DEF Resting, Booting, Heard, Roles
  <2> QED BY <2>1, <2>3, <2>4 DEF Quiet, Contact, Served, Serving, GivenUp
<1>6. CASE AgentConnect
  <2>1. Agent /\ phase' = "stage" /\ toBl' = StartByte /\ toHost' = <<>>
    BY <1>6 DEF AgentConnect
  <2>2. NoUpgrade' /\ Asked' /\ Resting'
    BY <1>0, <1>1, <1>2, <2>1 DEF NoUpgrade, Asked, Resting, Booting, BlRunnable
  <2> QED BY <1>0, <1>3, <1>4, <2>1, <2>2 DEF Quiet, Heard, Contact, Served, Serving, GivenUp
<1>7. CASE AnswerWindow
  <2>1. /\ phase = "enter" /\ phase' = "enter" /\ "wait" \in seen /\ toBl' = OtherByte
        /\ toHost' = toHost
    BY <1>7 DEF AnswerWindow, hostVars
  <2>2. /\ "ready" \in seen => mode = "xcp" /\ rx = "idle"
        /\ "ready" \notin seen => mode = "window"
        /\ NoCommand
    BY <1>0, <1>1, <2>1 DEF Undisturbed, Heard, Connecting
  <2>3. seen' = seen \cup {"answered"}
    BY <1>0, <2>1 DEF Console, Printed
  <2>4. NoUpgrade' /\ Asked' /\ Resting' /\ Heard'
    BY <1>0, <1>1, <1>2, <2>1, <2>2, <2>3
       DEF NoUpgrade, Asked, Resting, Booting, Heard, NoCommand, BlRunnable
  <2> QED BY <2>1, <2>4 DEF Quiet, Contact, Served, Serving, GivenUp
<1>8. CASE Entered
  <2>1. phase = "enter" /\ phase' = "stage" /\ "ready" \in seen /\ toBl' = toBl
        /\ toHost' = <<>> /\ ~Agent
    BY <1>8 DEF Entered
  <2>2. mode = "xcp" /\ rx = "idle" /\ toBl.cmd # "at" /\ NoCommand
    BY <1>0, <1>1, <2>1 DEF Undisturbed, Heard, Connecting
  <2>3. NoUpgrade' /\ Asked' /\ Resting' /\ Heard' /\ Contact' /\ GivenUp'
    BY <1>0, <1>1, <1>2, <1>3, <1>4, <2>1, <2>2
       DEF NoUpgrade, Asked, Resting, Booting, Heard, Contact, GivenUp, NoCommand, BlRunnable
  <2>4. Served'
    <3>1. Does("erase")' = Does("erase")
      BY <1>0 DEF Does
    <3>2. ErasedBelow(0)'
      <4>1. ErasedBelow(0)
        BY <1>1, NothingErased
      <4> QED BY <1>0, <4>1, SameRun DEF ErasedBelow
    <3> QED BY <1>0, <1>2, <1>3, <1>4, <2>1, <2>2, <3>1, <3>2 DEF Served, Serving
  <2> QED BY <2>3, <2>4 DEF Quiet
<1>9. CASE NotEntered
  <2>1. /\ phase = "enter" /\ phase' = "failed" /\ "ready" \notin seen /\ ~Agent
        /\ BlQuiet /\ toBl = NoFrame /\ toBl' = toBl /\ mode # "window"
        /\ run.enter = "wait" => seen # {} \/ ~BlRunnable(mem)
    BY <1>0, <1>9 DEF NotEntered
  <2>2. /\ job = NoJob /\ mode \in {"xcp", "app", "hang"}
    BY <1>1, <2>1 DEF BlQuiet, PeerTypeOK, TypeOK, Modes
  <2>3. /\ seen = {}
        /\ run.enter = "at" => bkp = "ENTER_XCP"
    BY <1>0, <1>2, <2>1, <2>2 DEF Undisturbed, Heard
  <2>4. run.enter = "probe" \/ ~BlRunnable(mem)
    BY <1>1, <1>4, <2>1, <2>2, <2>3 DEF Register
  <2>5. GivenUp'
    BY <1>0, <2>1, <2>2, <2>4 DEF GivenUp, Excused, BlRunnable
  <2>6. NoUpgrade' /\ Asked' /\ Resting'
    BY <1>0, <1>1, <1>2, <2>1, <2>2 DEF NoUpgrade, Asked, Resting, Booting, BlRunnable
  <2> QED BY <2>1, <2>5, <2>6 DEF Quiet, Heard, Contact, Served, Serving
<1> QED BY <1>5, <1>6, <1>7, <1>8, <1>9 DEF Connect

\* What any program finds when it sends, is answered or ends in a run without a
\* fault: the register and the line are as they were, and no window is to open.
LEMMA ServeCalm ==
  ASSUME Inv, Undisturbed, Next, calm', Serve
  PROVE  /\ calm /\ ~Fault /\ faults' = faults
         /\ phase \in {"stage", "listen"}
         /\ UNCHANGED <<mem, mode, rx, bkp, job, run>>
         /\ Agent' = Agent /\ img' = img /\ base' = base
         /\ Fits' = Fits /\ Does("erase")' = Does("erase")
         /\ PeerTypeOK /\ OneRequest /\ mode # "upgrade"
         /\ bkp = "UPGRADE_BL" => ~BlRunnable(mem)
         /\ toBl.cmd = "atbl" => mode = "xcp" /\ NoCommand
         /\ toBl.cmd # "at"
         /\ toBl.cmd = "55" => mode \in {"window", "xcp"} /\ NoCommand
         /\ Booting => phase = "stage"
         /\ mode \in {"reset", "check", "window"} /\ phase = "stage"
              => Agent /\ toHost = <<>>
<1>1. /\ phase \in {"stage", "listen"} /\ UNCHANGED <<devVars, run>>
  BY DEF Serve, Send, ReadAnswer, Timeout, Answered, InfoRead, AppText, RequestUpgrade
<1>2. calm /\ ~Fault /\ faults' = faults
  BY <1>1, CalmStep DEF Idle
<1>3. /\ UNCHANGED <<mem, mode, rx, bkp, job, run>>
      /\ Agent' = Agent /\ img' = img /\ base' = base
      /\ Fits' = Fits /\ Does("erase")' = Does("erase")
  BY <1>1, SameRun DEF devVars
<1> QED BY <1>1, <1>2, <1>3
        DEF Inv, Base, SessionInv, Undisturbed, NoUpgrade, Asked, Resting

LEMMA SendQuiet ==
  ASSUME Inv, Undisturbed, Next, calm', Send
  PROVE  Quiet'
<1>0. Serve
  BY DEF Serve
<1>1. /\ UNCHANGED <<run, phase, step, idx, errs>> /\ waiting' = TRUE
      /\ toBl = NoFrame /\ toBl' = CurFrame /\ phase = "stage" /\ Stage # "blreq"
      /\ toHost' \in {toHost, <<>>} /\ Stage' = Stage
  BY DEF Send, Stage
<1>2. /\ CurFrame.cmd \in XcpCmds /\ CurFrame # NoFrame
      /\ CurFrame.cmd \notin {"at", "atbl", "55"}
  <2>1. CurFrame.cmd = Stage /\ Stage \in {"erase", "write", "boot", "info"}
    BY <1>0, <1>1, ServeCalm, CurFrameFits, StageFacts
  <2> QED BY <2>1, OtherFrames DEF XcpCmds
<1>3. NoUpgrade' /\ Asked' /\ Resting' /\ Heard' /\ GivenUp'
  BY <1>0, <1>1, <1>2, ServeCalm
     DEF Undisturbed, NoUpgrade, Asked, Resting, Booting, Heard, GivenUp, BlRunnable
<1>4. Contact'
  BY <1>0, <1>1, ServeCalm DEF Undisturbed, Contact
<1>5. Served'
  <2> SUFFICES ASSUME Serving PROVE Served'
    BY <1>0, <1>1, ServeCalm DEF Served, Serving
  <2>1. /\ errs = 0 /\ mode = "xcp" /\ rx = "idle"
        /\ Stage = "erase" => ErasedBelow(idx)
        /\ Stage = "erase" /\ toHost = <<0>> => ErasedBelow(idx + 1)
        /\ Stage = "write" => Writable
    BY DEF Undisturbed, Served
  <2>2. /\ Stage = "erase" => ErasedBelow(idx)'
        /\ Stage = "erase" /\ toHost = <<0>> => ErasedBelow(idx + 1)'
        /\ Stage = "write" => Writable'
    BY <1>0, <1>1, <2>1, ServeCalm DEF ErasedBelow, Writable, Programmable
  <2>3. <<>> # <<0>>
    OBVIOUS
  <2> QED BY <1>0, <1>1, <1>2, <2>1, <2>2, <2>3, ServeCalm DEF Served
<1> QED BY <1>3, <1>4, <1>5 DEF Quiet

\* The PC tool, when it erases and writes, is answered 0.
LEMMA ServedAnswer ==
  ASSUME Inv, Undisturbed, Next, calm', ReadAnswer \/ Timeout, Serving
  PROVE  /\ ReadAnswer /\ toHost = <<0>> /\ toHost' = <<>>
         /\ toBl = NoFrame /\ NoCommand
<1>0. Serve
  BY DEF Serve
<1>1. /\ waiting /\ OneRequest /\ Clean
      /\ toBl = NoFrame /\ waiting /\ NoCommand => toHost = <<0>>
  BY <1>0, ServeCalm DEF ReadAnswer, Timeout, Answered, Undisturbed, Served, Serving, Clean
<1>2. ~Timeout
  <2> SUFFICES ASSUME Timeout PROVE FALSE
    OBVIOUS
  <2>1. toHost = <<>> /\ toBl = NoFrame /\ BlQuiet
    BY <1>0, ServeCalm DEF Timeout
  <2>2. NoCommand
    BY <2>1 DEF BlQuiet, NoCommand, NoJob, Job
  <2> QED BY <1>1, <2>1, <2>2
<1>3. Answering
  BY <1>1, <1>2 DEF ReadAnswer, OneRequest, Sent, Working, Lost
<1>4. toBl = NoFrame /\ NoCommand /\ toHost = <<0>>
  BY <1>1, <1>3 DEF Answering
<1>5. toHost' = <<>>
  <2>1. \E n \in 1 .. Len(<<0>>) : toHost' = SubSeq(<<0>>, n + 1, Len(<<0>>))
    BY <1>2, <1>4 DEF ReadAnswer
  <2>2. Len(<<0>>) = 1 /\ SubSeq(<<0>>, 1 + 1, 1) = <<>>
    OBVIOUS
  <2> QED BY <2>1, <2>2
<1> QED BY <1>2, <1>4, <1>5

\* ... and goes on, until it has done everything.
LEMMA ServedGoesOn ==
  ASSUME Inv, Undisturbed, Next, calm', ReadAnswer \/ Timeout, Serving
  PROVE  Served' /\ phase' # "failed"
<1>0. /\ PeerTypeOK /\ phase = "stage" /\ errs = 0 /\ ~Agent
      /\ Serve /\ Stage \in {"erase", "write"} /\ calm
      /\ mode = "xcp" /\ rx = "idle"
      /\ Stage = "erase" => ErasedBelow(idx + 1)
      /\ Stage = "write" => Writable
  <2>1. PeerTypeOK /\ Serve /\ toHost = <<0>>
    BY ServedAnswer DEF Serve, Inv, Base
  <2> QED BY <2>1 DEF Undisturbed, Served, Serving
<1>1. Answered(0) /\ toHost' = <<>> /\ waiting' = FALSE /\ toBl' = NoFrame
  <2>1. ReadAnswer /\ toHost = <<0>> /\ toHost' = <<>> /\ toBl = NoFrame
    BY ServedAnswer
  <2>2. Head(<<0>>) = 0
    OBVIOUS
  <2>3. Answered(0)
    BY <2>1, <2>2, Zenon DEF ReadAnswer
  <2> QED BY <2>1, <2>3 DEF Answered
<1>2. /\ UNCHANGED <<mem, mode, rx, job, run>> /\ Agent' = Agent
      /\ img' = img /\ base' = base /\ <<>> # <<0>>
  BY <1>0, ServeCalm
<1>3. CASE Stage = "erase"
  <2>1. errs' = 0
    BY <1>0, <1>1, <1>3 DEF Answered, EraseAnswer, WriteAnswer, BootAnswer
  <2>2. CASE idx + 1 < CeilDiv(Len(img), SectorWords)
    <3>1. idx' = idx + 1 /\ UNCHANGED <<phase, step>>
      BY <1>1, <1>3, <2>2 DEF Answered, EraseAnswer, WriteAnswer, BootAnswer
    <3>2. Stage' = "erase" /\ ErasedBelow(idx)'
      BY <1>0, <1>2, <1>3, <3>1 DEF Stage, ErasedBelow
    <3> QED BY <1>0, <1>1, <1>2, <2>1, <3>1, <3>2 DEF Served
  <2>3. CASE ~(idx + 1 < CeilDiv(Len(img), SectorWords))
    <3>1. NextStage
      BY <1>1, <1>3, <2>3 DEF Answered, EraseAnswer, WriteAnswer, BootAnswer
    <3>2. phase' = "ok" \/ (phase' = "stage" /\ Stage' = "write")
      BY <1>0, <1>2, <1>3, <3>1, NextStageStep
    <3>3. \A i \in 1 .. Len(img) : mem[base + i - 1] = Erased
      <4>1. idx + 1 = CeilDiv(Len(img), SectorWords)
        BY <1>0, <1>3, <2>3, Counts DEF PeerTypeOK
      <4> QED BY <1>0, <1>3, <4>1, AllErased DEF Serving
    <3>4. Writable'
      BY <1>0, <1>2, <1>3, <3>3 DEF ErasedBelow, Writable, Programmable
    <3> QED BY <1>0, <1>1, <1>2, <2>1, <3>2, <3>4 DEF Served, Serving
  <2> QED BY <2>2, <2>3
<1>4. CASE Stage = "write"
  <2>1. errs' = 0 /\ ~GivesUp
    BY <1>0, <1>1, <1>4 DEF Answered, EraseAnswer, WriteAnswer, BootAnswer, GivesUp
  <2>2. \/ NextStage
        \/ UNCHANGED <<phase, step>>
    BY <1>1, <1>4, <2>1 DEF Answered, EraseAnswer, WriteAnswer, BootAnswer
  <2>3. phase' \in {"ok", "stage"} /\ (phase' = "stage" => Stage' \in {"write", "boot", "blreq"})
    <3>1. CASE NextStage
      BY <1>0, <1>2, <1>4, <3>1, NextStageStep
    <3>2. CASE UNCHANGED <<phase, step>>
      BY <1>0, <1>2, <1>4, <3>2 DEF Stage
    <3> QED BY <2>2, <3>1, <3>2
  <2>4. Writable'
    BY <1>0, <1>2, <1>4 DEF Writable, Programmable
  <2> QED BY <1>0, <1>1, <1>2, <2>1, <2>3, <2>4 DEF Served, Serving
<1> QED BY <1>0, <1>3, <1>4

\* An answer to a boot command ends the run, or agent1 reads on.
LEMMA BootAnswerEnds ==
  ASSUME PeerTypeOK, NEW s, Answered(s), Stage = "boot"
  PROVE  phase' \in {"ok", "failed", "listen"} /\ (~Agent => phase' = "ok")
<1>1. run.by \in Programs
  BY RunFacts DEF PeerTypeOK, RunType
<1>2. BootAnswer(s) /\ phase = "stage" /\ run' = run
  BY DEF Answered, EraseAnswer, WriteAnswer
<1>3. (NextStage \/ phase' \in {"failed", "listen"}) /\ (~Agent => NextStage)
  BY <1>1, <1>2 DEF BootAnswer, Give, Agent, Programs
<1> QED BY <1>2, <1>3, NextStageStep

\* What an answer ends with.
LEMMA AnswerEnds ==
  ASSUME PeerTypeOK, ReadAnswer \/ Timeout
  PROVE  /\ phase' \in {"stage", "ok", "failed", "listen"}
         /\ phase' = "listen" => Agent
<1>1. PICK s : Answered(s)
  <2>1. CASE ReadAnswer
    BY <2>1, Zenon DEF ReadAnswer
  <2>2. CASE Timeout
    BY <2>2, Zenon DEF Timeout
  <2> QED BY <2>1, <2>2
<1>2. phase = "stage"
  BY <1>1 DEF Answered
<1>3. CASE Stage = "boot"
  BY <1>1, <1>3, BootAnswerEnds
<1>4. CASE Stage # "boot"
  <2>1. NextStage \/ phase' \in {phase, "ok", "failed"}
    BY <1>1, <1>4 DEF Answered, EraseAnswer, WriteAnswer, BootAnswer, Give
  <2> QED BY <1>2, <2>1 DEF NextStage
<1> QED BY <1>3, <1>4

LEMMA AnswerQuiet ==
  ASSUME Inv, Undisturbed, Next, calm', ReadAnswer \/ Timeout
  PROVE  Quiet'
<1>0. Serve
  BY DEF Serve
<1>1. PICK s : /\ Answered(s)
               /\ (ReadAnswer /\ toHost # <<>>) \/ (Timeout /\ s = 256)
  <2>1. CASE ReadAnswer
    BY <2>1, Zenon DEF ReadAnswer
  <2>2. CASE Timeout
    BY <2>2, Zenon DEF Timeout, NoAnswer
  <2> QED BY <2>1, <2>2
<1>2. /\ phase = "stage" /\ waiting /\ waiting' = FALSE /\ toBl' = toBl
      /\ Timeout => toHost' = toHost /\ BlQuiet
      /\ Stage \in {"erase", "write", "boot"}
  BY <1>0, <1>1, ServeCalm
     DEF Answered, Timeout, EraseAnswer, WriteAnswer, BootAnswer
<1>3. phase' \in {"stage", "ok", "failed", "listen"}
  BY <1>0, ServeCalm, AnswerEnds
<1>4. NoUpgrade' /\ Asked' /\ Heard'
  BY <1>0, <1>2, <1>3, ServeCalm
     DEF NoUpgrade, Asked, Heard, NoCommand, BlRunnable
<1>5. Resting'
  <2>1. CASE ReadAnswer /\ toHost # <<>>
    <3>1. mode \notin {"reset", "check", "window", "upgrade"}
      BY <1>0, <1>2, <2>1, ServeCalm
    <3> QED BY <1>0, <1>2, <3>1, ServeCalm DEF Resting, Booting, NoCommand, TypeOK, PeerTypeOK
  <2>2. CASE Timeout
    <3>1. ~Booting /\ ~(mode = "window" /\ rx = "stray")
      BY <1>2, <2>2 DEF BlQuiet, Booting
    <3> QED BY <1>0, <1>2, <2>2, <3>1, ServeCalm DEF Resting, Booting, NoCommand, TypeOK, PeerTypeOK
  <2> QED BY <1>1, <2>1, <2>2
<1>6. Contact'
  <2> SUFFICES ASSUME phase' = "stage", Stage' \in {"erase", "write", "blreq"}, errs' = 0,
                      base >= SectorWords
               PROVE  mode = "xcp" /\ NoCommand /\ toBl = NoFrame
    BY <1>0, <1>2, ServeCalm DEF Contact, NoCommand
  <2>1. Stage \in {"erase", "write"} /\ errs = 0 /\ s = 0
    <3>1. Stage # "boot"
      BY <1>0, <1>1, ServeCalm, BootAnswerEnds
    <3>2. CASE Stage = "erase"
      <4>1. ~(\E o \in {"ok", "failed"} : Give(o))
        BY DEF Give
      <4> QED BY <1>1, <3>2, <4>1 DEF Answered, EraseAnswer, WriteAnswer, BootAnswer
    <3>3. CASE Stage = "write"
      <4>1. errs \in Nat /\ errs' = IF s = 0 THEN errs ELSE errs + 1
        BY <1>0, <1>1, <3>3, ServeCalm
           DEF Answered, EraseAnswer, WriteAnswer, BootAnswer, PeerTypeOK
      <4> QED BY <3>3, <4>1
    <3> QED BY <1>2, <3>1, <3>2, <3>3
  <2>2. toHost # <<>> /\ ReadAnswer
    BY <1>1, <2>1
  <2>3. mode = "xcp"
    BY <1>0, <1>2, <2>1, <2>2, ServeCalm DEF Undisturbed, Contact
  <2>4. Answering
    <3>1. Clean
      BY <1>2, <2>1 DEF Clean
    <3> QED BY <1>0, <1>2, <2>2, <3>1, ServeCalm DEF OneRequest, Sent, Working, Lost
  <2> QED BY <2>3, <2>4 DEF Answering
<1>7. Served' /\ GivenUp'
  <2>1. CASE Serving
    BY <2>1, ServedGoesOn DEF GivenUp
  <2>2. CASE ~Serving
    <3>1. ~(Serving')
      <4> SUFFICES ASSUME Serving' PROVE FALSE
        OBVIOUS
      <4>1. Stage = "boot" /\ phase' = "stage"
        BY <1>0, <1>2, <2>2, ServeCalm DEF Serving
      <4> QED BY <1>0, <1>1, <4>1, ServeCalm, BootAnswerEnds
    <3>2. ~Agent /\ Fits /\ phase' = "failed" => Excused'
      <4> SUFFICES ASSUME ~Agent, Fits, phase' = "failed" PROVE Excused'
        OBVIOUS
      <4>1. Excused' = Excused
        BY <1>0, ServeCalm DEF Excused, Does
      <4>2. Stage # "boot"
        BY <1>0, <1>1, ServeCalm, BootAnswerEnds
      <4>3. Does(Stage) /\ ~Does("erase")
        BY <1>0, <1>2, <2>2, <4>2, ServeCalm, StageOfRun DEF Serving
      <4> QED BY <1>2, <4>1, <4>2, <4>3 DEF Excused
    <3> QED BY <1>0, <3>1, <3>2, ServeCalm DEF Served, GivenUp
  <2> QED BY <2>1, <2>2
<1> QED BY <1>4, <1>5, <1>6, <1>7 DEF Quiet

LEMMA EndQuiet ==
  ASSUME Inv, Undisturbed, Next, calm', InfoRead \/ AppText \/ RequestUpgrade
  PROVE  Quiet'
<1>0. Serve
  BY DEF Serve
<1>1. CASE InfoRead
  <2>1. /\ phase = "stage" /\ Stage = "info" /\ toBl' = toBl /\ phase' = "ok"
    BY <1>0, <1>1, ServeCalm, NextStageStep DEF InfoRead
  <2>2. ~Agent
    BY <1>0, <2>1, ServeCalm, StageOfRun
  <2>3. mode \notin {"reset", "check", "window", "upgrade"}
    BY <1>0, <2>1, <2>2, ServeCalm
  <2> QED BY <1>0, <2>1, <2>3, ServeCalm
          DEF Quiet, NoUpgrade, Asked, Resting, Booting, Heard, Contact, Served, Serving,
              GivenUp, NoCommand, BlRunnable
<1>2. CASE AppText
  <2>1. /\ phase = "listen" /\ toBl' = toBl /\ phase' \in {"ok", "failed"}
        /\ ~Booting /\ ~(mode = "window" /\ rx = "stray") /\ Agent
    BY <1>2 DEF AppText, BlQuiet, Booting, Undisturbed, Roles
  <2> QED BY <1>0, <2>1, ServeCalm
          DEF Quiet, NoUpgrade, Asked, Resting, Booting, Heard, Contact, Served, Serving,
              GivenUp, NoCommand, BlRunnable
<1>3. CASE RequestUpgrade
  <2>1. /\ phase = "stage" /\ Stage = "blreq" /\ toBl' = Bare("atbl")
        /\ phase' \in {"ok", "failed"}
    BY <1>3 DEF RequestUpgrade
  <2>2. Bare("atbl").cmd = "atbl"
    BY OtherFrames DEF Texts
  <2>3. mode = "xcp" /\ NoCommand
    <3>1. errs = 0
      BY <1>0, <2>1, ServeCalm DEF PeerTypeOK, Idle
    <3>2. base >= SectorWords
      BY <1>0, <2>1, ServeCalm, FileInFlash, Widths DEF Inv, OwnSector
    <3> QED BY <1>0, <2>1, <3>1, <3>2, ServeCalm DEF Undisturbed, Contact
  <2>4. Excused'
    <3>1. Does("blreq")
      BY <1>0, <2>1, ServeCalm, StageOfRun
    <3> QED BY <1>0, <3>1, ServeCalm DEF Excused, Does
  <2> QED BY <1>0, <2>1, <2>2, <2>3, <2>4, ServeCalm
          DEF Quiet, NoUpgrade, Asked, Resting, Booting, Heard, Contact, Served, Serving,
              GivenUp, NoCommand, BlRunnable
<1> QED BY <1>1, <1>2, <1>3

\* The clock and the button.
LEMMA OthersQuiet ==
  ASSUME Inv, Undisturbed, Next, calm', WindowTimeout \/ UserReset
  PROVE  Quiet'
<1>0. /\ calm /\ Console /\ ~Fault /\ UNCHANGED hostVars
  <2>1. Idle' = Idle
    BY DEF WindowTimeout, UserReset, hostVars, Idle
  <2> QED BY <2>1, CalmStep DEF WindowTimeout, UserReset
<1>1. /\ PeerTypeOK /\ Connecting /\ Register /\ mode # "upgrade"
      /\ bkp = "UPGRADE_BL" => ~BlRunnable(mem)
      /\ toBl.cmd = "at" => run.enter = "at"
      /\ mode \in {"reset", "check", "window"} => (rx = "stray" => phase = "stage")
      /\ UNCHANGED <<run, phase, step, idx, waiting, errs>>
      /\ Agent' = Agent /\ Stage' = Stage /\ base' = base /\ Fits' = Fits
  BY <1>0, SameHost, SameRun
     DEF Inv, Base, SessionInv, Undisturbed, NoUpgrade, Asked, Resting
<1>2. /\ NoFrame.cmd = "none" /\ OtherByte.cmd = "55"
      /\ toBl.cmd = "55" <=> toBl = OtherByte
  BY <1>1, PlainBytes DEF Undisturbed, PeerTypeOK
<1>3. CASE WindowTimeout
  <2>1. /\ mode = "window" /\ rx = "idle" /\ mode' \in {"app", "xcp"} /\ rx' = "idle"
        /\ UNCHANGED <<mem, bkp, job, toBl, toHost>>
        /\ toBl = NoFrame /\ (seen # {} => "answered" \in seen)
    BY <1>0, <1>3 DEF WindowTimeout, WindowExpire, BootApp
  <2>2. NoUpgrade' /\ Asked' /\ Resting'
    BY <1>1, <1>2, <2>1 DEF NoUpgrade, Asked, Resting, Booting, BlRunnable
  <2>3. Heard'
    <3> SUFFICES ASSUME phase = "enter" PROVE Heard'
      BY <1>1 DEF Heard
    <3>1. seen = {}
      BY <1>0, <1>2, <2>1 DEF Undisturbed, Heard
    <3>2. seen' = IF mode' = "xcp" THEN {"ready"} ELSE {}
      BY <1>0, <1>1, <1>2, <2>1, <3>1 DEF Console, Printed
    <3>3. ~(run.enter = "at" /\ ~Agent)
      BY <1>0, <1>1, <1>2, <2>1, <3>1 DEF Undisturbed, Heard, Register
    <3> QED BY <1>1, <1>2, <2>1, <3>2, <3>3 DEF Heard
  <2>4. Contact' /\ Served' /\ GivenUp'
    <3>1. ~Serving /\ ~(~Agent /\ Fits /\ phase = "failed" /\ ~Excused)
      BY <1>0, <2>1 DEF Undisturbed, Served, GivenUp
    <3>2. Excused' = Excused /\ (Does("erase")' = Does("erase"))
      BY <1>1 DEF Excused, Does
    <3>3. Served' /\ GivenUp'
      BY <1>0, <1>1, <3>1, <3>2 DEF Served, Serving, GivenUp
    <3> QED BY <1>0, <1>1, <2>1, <3>3 DEF Undisturbed, Contact
  <2> QED BY <2>2, <2>3, <2>4 DEF Quiet
<1>4. CASE UserReset
  <2>1. /\ phase = "enter" /\ run.enter = "wait" /\ seen = {}
        /\ mode \in {"xcp", "app"} \/ (mode = "hang" /\ BlRunnable(mem))
        /\ mode' = "reset" /\ rx' = "idle" /\ bkp' \in {bkp, "none"}
        /\ UNCHANGED <<toBl, toHost>>
    BY <1>4 DEF UserReset, Reset, Restart
  <2>2. toBl.cmd = "none" /\ bkp' = "none"
    BY <1>1, <2>1 DEF Connecting, Attracting, Register
  <2>3. seen' = {}
    BY <1>0, <1>1, <1>2, <2>1, <2>2 DEF Console, Printed
  <2>4. NoUpgrade' /\ Asked' /\ Resting'
    BY <1>1, <2>1, <2>2 DEF NoUpgrade, Asked, Resting, Booting
  <2> QED BY <1>1, <2>1, <2>3, <2>4 DEF Quiet, Heard, Contact, Served, Serving, GivenUp
<1> QED BY <1>3, <1>4

LEMMA RolesStep ==
  ASSUME Inv, Roles, Next
  PROVE  Roles'
<1>0. TypeOK /\ PeerTypeOK
  BY DEF Inv, Base, PeerTypeOK
<1>1. ASSUME UNCHANGED hostVars, toBl' \in {toBl, NoFrame} PROVE Roles'
  BY <1>1, SameHost, SameRun DEF Roles
<1>2. CASE BlStep /\ UNCHANGED hostVars
  BY <1>0, <1>1, <1>2, JobStep
<1>3. CASE WindowTimeout \/ UserReset
  BY <1>1, <1>3 DEF WindowTimeout, WindowExpire, UserReset, Reset
<1>4. ASSUME NEW r \in Runs, Begin(r) PROVE Roles'
  <2>1. /\ run' = r /\ toBl = NoFrame
        /\ toBl' = (IF r.enter = "at" THEN Bare("at") ELSE toBl)
        /\ phase' = (CASE r.enter = "probe" -> "probe"
                       [] r.by # "v4"       -> "request"
                       [] OTHER             -> "enter")
        /\ r.by # "v4" => r.enter = "at"
    BY <1>4, RunFacts DEF Begin
  <2> QED BY <2>1 DEF Roles, Agent
<1>5. CASE ProbeReset
  BY <1>5, SameRun DEF ProbeReset, Reset, Roles
<1>6. CASE Connect
  <2>1. phase' \in {"enter", "stage", "failed"}
    BY <1>6 DEF Connect, Listen, AgentConnect, AnswerWindow, Entered, NotEntered, hostVars
  <2> QED BY <2>1 DEF Roles
<1>7. CASE Serve
  <2>1. CASE ReadAnswer \/ Timeout
    <3>1. run' = run
      BY <2>1 DEF ReadAnswer, Timeout, Answered
    <3> QED BY <1>0, <2>1, <3>1, AnswerEnds, SameRun DEF Roles
  <2>2. CASE Send \/ InfoRead \/ AppText \/ RequestUpgrade
    <3>1. phase' \in {"stage", "ok", "failed"}
      BY <2>2 DEF Send, InfoRead, NextStage, AppText, RequestUpgrade
    <3> QED BY <3>1 DEF Roles
  <2> QED BY <1>7, <2>1, <2>2 DEF Serve
<1> QED BY <1>2, <1>3, <1>4, <1>5, <1>6, <1>7 DEF Next, Step, PeerStep

\* What neither a fault nor a program can change.
LEMMA LastingStep ==
  ASSUME Inv, Rested, Register, Plain, Next
  PROVE  Rested' /\ Register' /\ Plain'
<1>0. TypeOK /\ Control /\ PeerTypeOK
  BY DEF Inv, Base, PeerTypeOK
<1>1. ASSUME toBl' \in {toBl, NoFrame} \cup {Bare(c) : c \in {"at", "atbl", "aa", "55"}}
      PROVE  Plain'
  BY <1>1, OtherFrames DEF Plain, Texts
<1>2. ASSUME UNCHANGED devVars PROVE Rested' /\ Register'
  BY <1>2 DEF devVars, Rested, Register, BlRunnable
<1>3. CASE BlStep
  BY <1>0, <1>1, <1>3, JobStep, BlStepRested, BlStepRegister
<1>4. CASE WindowTimeout
  <2>1. WindowExpire /\ job' = job /\ toBl' = toBl
    BY <1>4 DEF WindowTimeout, WindowExpire
  <2> QED BY <1>1, <2>1, WindowExpireRegister DEF Rested
<1>5. ASSUME Reset PROVE Rested' /\ Register' /\ Plain'
  BY <1>1, <1>5, RestedReset, RegisterReset DEF Reset
<1>6. CASE UserReset
  BY <1>5, <1>6 DEF UserReset
<1>7. CASE ProbeReset
  BY <1>1, <1>2, <1>5, <1>7 DEF ProbeReset
<1>8. CASE (\E r \in Runs : Begin(r)) \/ Connect
  <2>1. /\ UNCHANGED devVars
        /\ toBl' \in {toBl, Bare("at"), StartByte, OtherByte}
    BY <1>8 DEF Begin, Connect, Listen, AgentConnect, AnswerWindow, Entered, NotEntered
  <2> QED BY <1>1, <1>2, <2>1, OtherFrames
<1>9. CASE Serve
  <2>1. UNCHANGED devVars
    BY <1>9 DEF Serve, Send, ReadAnswer, Timeout, Answered, InfoRead, AppText, RequestUpgrade
  <2>2. CASE Send
    <3>1. toBl' = CurFrame /\ CurFrame.cmd = Stage /\ Stage \in XcpCmds
      BY <1>0, <2>2, CurFrameFits, StageFacts DEF Send, XcpCmds
    <3> QED BY <1>2, <2>1, <3>1 DEF Plain
  <2>3. CASE ~Send
    <3>1. toBl' \in {toBl, Bare("atbl")}
      BY <1>9, <2>3 DEF Serve, ReadAnswer, Timeout, Answered, InfoRead, AppText,
                        RequestUpgrade
    <3> QED BY <1>1, <1>2, <2>1, <3>1
  <2> QED BY <2>2, <2>3
<1> QED BY <1>3, <1>4, <1>6, <1>7, <1>8, <1>9 DEF Next, Step, PeerStep

LEMMA UndisturbedStep ==
  ASSUME Inv, Undisturbed, Next
  PROVE  Undisturbed'
<1>1. Rested' /\ Register' /\ Plain' /\ Roles'
  BY RolesStep, LastingStep DEF Undisturbed
<1>2. CASE calm'
  <2>1. CASE BlStep /\ UNCHANGED hostVars
    <3>1. Idle' = Idle
      BY <2>1 DEF hostVars, Idle
    <3>2. CalmBoard
      BY <1>2, <2>1, <3>1, CalmStep DEF CalmBoard
    <3> QED BY <1>1, <3>2, BoardUndisturbed DEF Undisturbed
  <2>2. CASE ~(BlStep /\ UNCHANGED hostVars)
    <3>1. Quiet'
      BY <1>2, <2>2, BeginQuiet, ProbeQuiet, ConnectQuiet, SendQuiet, AnswerQuiet,
         EndQuiet, OthersQuiet DEF Next, Step, PeerStep, Serve
    <3> QED BY <1>1, <3>1 DEF Quiet, Undisturbed
  <2> QED BY <2>1, <2>2
<1>3. CASE ~calm'
  BY <1>1, <1>3 DEF Undisturbed, NoUpgrade, Asked, Resting, Heard, Contact, Served,
                    Serving, GivenUp
<1> QED BY <1>2, <1>3

\* Whatever other programs, resets and failures have left on the board and on the
\* line before: a run of the PC tool V4 that begins on a board at rest and meets no
\* fault of its own does not fail, unless it resets the board itself, writes what
\* it has not erased, asks for a self-upgrade in the end, or finds no bootloader,
\* and if --addr leaves the bootloader alone and the file in the sectors erased.
\* For every file, every batch width, any command lines and any number of faults.
THEOREM UndisturbedV4 == Spec => []UndisturbedV4Succeeds
<1>1. PeerInit => Undisturbed
  <2> SUFFICES ASSUME PeerInit PROVE Undisturbed
    OBVIOUS
  <2>1. Rested /\ Register /\ toBl = NoFrame /\ phase = "idle" /\ calm = FALSE
    BY RestedInit, RegisterInit DEF PeerInit, HostInit, Init
  <2>2. Plain
    BY <2>1, OtherFrames DEF Plain
  <2> QED BY <2>1, <2>2 DEF Undisturbed, Roles, NoUpgrade, Asked, Resting, Heard,
       Contact, Served, Serving, GivenUp
<1>2. Inv /\ Undisturbed /\ [Next]_vars => Undisturbed'
  <2> SUFFICES ASSUME Inv, Undisturbed, UNCHANGED vars PROVE Undisturbed'
    BY UndisturbedStep
  <2>1. /\ UNCHANGED <<mem, bkp, mode, bootBkp, job, rx, toBl, toHost>>
        /\ UNCHANGED <<run, phase, step, idx, waiting, errs, seen, calm>>
        /\ img' = img /\ base' = base /\ Agent' = Agent /\ Stage' = Stage /\ Fits' = Fits
    BY SameHost, SameRun DEF vars, blVars, devVars, hostVars
  <2>2. Rested' /\ Register' /\ Plain' /\ Roles' /\ NoUpgrade' /\ Asked' /\ Resting' /\ Heard'
    BY <2>1 DEF Undisturbed, Rested, Register, Plain, Roles, NoUpgrade, Asked, Resting,
                Booting, Heard, NoCommand, BlRunnable
  <2>3. Contact' /\ Served' /\ GivenUp'
    BY <2>1 DEF Undisturbed, Contact, Served, Serving, Does, NoCommand, ErasedBelow, Writable,
                Programmable, GivenUp, Excused, BlRunnable
  <2> QED BY <2>2, <2>3 DEF Undisturbed
<1>3. Undisturbed => UndisturbedV4Succeeds
  BY DEF Undisturbed, GivenUp, Excused, UndisturbedV4Succeeds
<1>4. Inv /\ [Next]_vars => Inv'
  BY NextInv, StutterInv
<1> QED BY <1>1, <1>2, <1>3, <1>4, InitInv, PTL DEF Spec

=============================================================================
