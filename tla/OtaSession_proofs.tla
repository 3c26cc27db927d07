-------------------------- MODULE OtaSession_proofs --------------------------
(***************************************************************************)
(* Proof that a flash the PC tool reports as good is good, for files and   *)
(* batches of any length and any number of faults.                         *)
(*                                                                         *)
(* As long as no answer was missed, the tool and the board work on one     *)
(* request at a time: the frame is on the line, or the board carries it    *)
(* out, or its answer is on the way, or all of it is lost.  Only then may  *)
(* an answer be taken for the answer to the last frame.                    *)
(*                                                                         *)
(* Further below: a run changes no sector its file does not cover, nothing *)
(* but a self-upgrade changes sector 0, an upgrade that is announced has   *)
(* put the file there, and a run without a fault of its own succeeds.      *)
(***************************************************************************)
EXTENDS OtaSession, Bootloader_proofs

\* The tool erases or writes, and no batch has gone unanswered so far.
Clean == phase \in {"erase", "write"} /\ ~err

\* The request is on the line.
Sent == toBl = CurFrame /\ NoCommand /\ toHost = <<>>

\* The board carries it out.
Working ==
  /\ toBl = NoFrame /\ toHost = <<>>
  /\ job.op = CurFrame.cmd /\ job.addr = CurFrame.addr /\ job.data = CurFrame.data

\* The file up to word n, or to its end, is in the flash.
Programmed(n) == \A i \in 1 .. Len(img) : i <= n => mem[base + i - 1] = img[i]

\* The answer is on its way; an answer 0 to a batch means it is programmed, and
\* the erase of sector 0 is not answered 0.
Answering ==
  /\ toBl = NoFrame /\ NoCommand
  /\ Len(toHost) = 1
  /\ phase = "erase" /\ base < SectorWords => toHost[1] # 0
  /\ phase = "write" /\ toHost[1] = 0 => Programmed((idx + 1) * WordsPerPkt)

\* Nothing is left of the request.
Lost == toBl = NoFrame /\ NoCommand /\ toHost = <<>>

OneRequest ==
  Clean =>
    /\ ~waiting => NoCommand /\ toHost = <<>> /\ toBl \in {NoFrame, StartByte}
    /\ waiting => Sent \/ Working \/ Answering \/ Lost

\* The batches behind idx are programmed.
Progress == Clean /\ phase = "write" => Programmed(idx * WordsPerPkt)

\* Before it begins to erase, the tool has sent nothing the board could still
\* be carrying out when the banner appears.
Connecting ==
  /\ phase \in {"trigger", "connect"} => ~waiting
  /\ phase = "connect" => toBl = NoFrame /\ (banner => NoCommand)
  /\ banner => phase = "connect"

\* After the last batch nothing erases or writes any more.
Finished ==
  Flashed => /\ Programmed(Len(img))
             /\ job.op \notin {"erase", "write"}
             /\ toBl.cmd \notin {"erase", "write"}

\* At an address in sector 0 the tool does not come past its first erase, which
\* takes the code that should answer it.
OwnSector ==
  /\ phase \in {"trigger", "connect", "erase"} => ~err
  /\ base < SectorWords => phase # "write" /\ ~Flashed /\ (phase = "erase" => idx = 0)

SessionInv == OwnSector /\ OneRequest /\ Progress /\ Connecting /\ Finished

Inv == SessionTypeOK /\ Control /\ Writing /\ CodeThere /\ SessionInv

-----------------------------------------------------------------------------
(* The file, its sectors and its batches. *)

\* The file lies in the flash, wherever --addr puts it.
LEMMA FileInFlash ==
  ASSUME SessionTypeOK
  PROVE  /\ img \in Seq(Words) /\ Len(img) \in Nat \ {0}
         /\ base \in Nat /\ base + Len(img) <= FlashSize
<1>1. /\ SectorWords \in Nat \ {0} /\ AppSectors \in Nat \ {0}
      /\ AppImage \in Seq(Words) /\ BlImage \in Seq(Words)
      /\ Len(AppImage) \in 1 .. (AppSectors * SectorWords)
      /\ Len(BlImage) \in 1 .. SectorWords
  BY FlashAssumption, SessionAssumption
<1>2. /\ AppBase + AppSectors * SectorWords <= FlashSize
      /\ BlTemp + SectorWords <= FlashSize
      /\ AppBase = SectorWords /\ BlTemp \in Nat
      /\ AppSectors * SectorWords \in Nat
  BY <1>1 DEF AppBase, BlTemp, FlashSize, NSectors
<1>3. CASE tool = "flash-bl"
  <2>1. img = BlImage /\ base = BlTemp
    BY <1>3 DEF img, SessionTypeOK, BasesOf
  <2>2. Len(BlImage) \in Nat \ {0} /\ Len(BlImage) <= SectorWords
    BY <1>1
  <2>3. BlTemp + Len(BlImage) <= FlashSize
    BY <1>1, <1>2, <2>2, FlashSizeNat
  <2> QED BY <1>1, <1>2, <2>1, <2>2, <2>3
<1>4. CASE tool # "flash-bl"
  <2>1. img = AppImage /\ base \in Bases \cup {AppBase}
    BY <1>4 DEF img, SessionTypeOK, BasesOf
  <2>2. Len(AppImage) \in Nat \ {0} /\ Len(AppImage) <= AppSectors * SectorWords
    BY <1>1, <1>2
  <2>3. AppBase + Len(AppImage) <= FlashSize /\ AppBase \in Nat
    BY <1>1, <1>2, <2>2, FlashSizeNat
  <2>4. base \in Bases => base \in Nat /\ base + Len(AppImage) <= FlashSize
    BY SessionAssumption, FlashSizeNat DEF FlashSize
  <2> QED BY <1>1, <2>1, <2>2, <2>3, <2>4
<1> QED BY <1>3, <1>4

LEMMA Widths == SectorWords \in Nat \ {0} /\ WordsPerPkt \in Nat \ {0}
BY FlashAssumption, SessionAssumption

\* A request to erase is a frame, and stays inside the flash.
LEMMA EraseFrameFits ==
  ASSUME SessionTypeOK, NEW i \in Nat, i < EraseCount
  PROVE  /\ EraseFrame(i) \in Frames
         /\ EraseFrame(i).cmd = "erase"
         /\ EraseFrame(i).addr + Len(EraseFrame(i).data) <= FlashSize
<1>1. i * SectorWords \in Nat /\ i * SectorWords < Len(img)
  BY FileInFlash, Widths, StepInside DEF EraseCount
<1>2. base + i * SectorWords \in Cells
  BY <1>1, FileInFlash, FlashSizeNat
<1>3. /\ EraseFrame(i).cmd = "erase" /\ EraseFrame(i).data = <<>>
      /\ EraseFrame(i).addr = base + i * SectorWords
      /\ EraseFrame(i) \in Frames
  BY <1>2, JobType DEF EraseFrame, Frame, Frames, XcpCmds
<1> QED BY <1>2, <1>3, FlashSizeNat

\* A batch is a frame inside the flash and holds its part of the file.
LEMMA WriteFrameFits ==
  ASSUME SessionTypeOK, NEW i \in Nat, i < BatchCount
  PROVE  /\ WriteFrame(i) \in Frames
         /\ WriteFrame(i).cmd = "write"
         /\ i * WordsPerPkt \in Nat
         /\ WriteFrame(i).addr = base + i * WordsPerPkt
         /\ Len(WriteFrame(i).data)
              = SmallerOf((i + 1) * WordsPerPkt, Len(img)) - i * WordsPerPkt
         /\ \A j \in 1 .. Len(WriteFrame(i).data) :
              WriteFrame(i).data[j] = img[i * WordsPerPkt + j]
         /\ WriteFrame(i).addr + Len(WriteFrame(i).data) <= FlashSize
<1> DEFINE lo == i * WordsPerPkt
           hi == SmallerOf((i + 1) * WordsPerPkt, Len(img))
<1>1. lo \in Nat /\ lo < Len(img)
  BY FileInFlash, Widths, StepInside DEF BatchCount
<1>2. hi \in Nat /\ lo < hi /\ hi <= Len(img)
  <2>1. (i + 1) * WordsPerPkt = lo + WordsPerPkt
    BY Widths
  <2> QED BY <1>1, <2>1, Widths, FileInFlash DEF SmallerOf
<1>3. /\ SubSeq(img, lo + 1, hi) \in Seq(Words)
      /\ Len(SubSeq(img, lo + 1, hi)) = hi - lo
      /\ \A j \in 1 .. (hi - lo) : SubSeq(img, lo + 1, hi)[j] = img[lo + j]
  BY <1>1, <1>2, FileInFlash
<1>4. base + lo \in Cells /\ base + lo + (hi - lo) <= FlashSize
  BY <1>1, <1>2, FileInFlash, FlashSizeNat
<1>5. /\ WriteFrame(i).cmd = "write" /\ WriteFrame(i).addr = base + lo
      /\ WriteFrame(i).data = SubSeq(img, lo + 1, hi)
  BY DEF WriteFrame, Frame
<1>6. WriteFrame(i) = Frame("write", base + lo, SubSeq(img, lo + 1, hi))
  BY DEF WriteFrame
<1> HIDE DEF lo, hi
<1>7. WriteFrame(i) \in Frames
  BY <1>3, <1>4, <1>6 DEF Frame, Frames, XcpCmds
<1>8. Len(WriteFrame(i).data) = hi - lo
  BY <1>3, <1>5
<1>9. WriteFrame(i).addr + Len(WriteFrame(i).data) <= FlashSize
  BY <1>1, <1>2, <1>4, <1>5, <1>8
<1> QED BY <1>1, <1>3, <1>5, <1>7, <1>8, <1>9 DEF lo, hi

\* What the tool is about to send is a frame inside the flash.
LEMMA CurFrameFits ==
  ASSUME SessionTypeOK
  PROVE  /\ CurFrame \in Frames /\ CurFrame.addr + Len(CurFrame.data) <= FlashSize
         /\ CurFrame.cmd = (CASE phase = "erase" -> "erase"
                              [] phase = "write" -> "write"
                              [] OTHER -> "boot")
BY EraseFrameFits, WriteFrameFits, OtherFrames DEF CurFrame, SessionTypeOK, XcpCmds

-----------------------------------------------------------------------------
(* Types, modes and jobs, the write command. *)

\* The parts of the invariant that know nothing of answers.
Base == SessionTypeOK /\ Control /\ Writing /\ CodeThere

\* What the tool works with does not change while the tool does not.
LEMMA SameTool ==
  ASSUME tool' = tool
  PROVE  img' = img /\ EraseCount' = EraseCount /\ BatchCount' = BatchCount
BY DEF img, EraseCount, BatchCount

LEMMA SameHost ==
  ASSUME UNCHANGED hostVars
  PROVE  /\ UNCHANGED <<tool, base, phase, idx, waiting, err>>
         /\ CurFrame' = CurFrame /\ Clean' = Clean /\ Flashed' = Flashed
         /\ img' = img /\ Fits' = Fits
         /\ EraseCount' = EraseCount /\ BatchCount' = BatchCount
BY SameTool
   DEF hostVars, Fits, CurFrame, EraseFrame, WriteFrame, Clean, Flashed

LEMMA HistoryType ==
  ASSUME SessionTypeOK, History
  PROVE  banner' \in BOOLEAN /\ calm' \in BOOLEAN
BY DEF History, Console

\* A step of the board, the line, the operator or the clock.
LEMMA BoardBase ==
  ASSUME Base, History, UNCHANGED hostVars, TypeOK', Control', Writing', CodeThere'
  PROVE  Base'
<1>1. SessionTypeOK'
  BY SameHost, HistoryType DEF Base, SessionTypeOK
<1> QED BY <1>1 DEF Base

\* A step of the tool that puts nothing or a good frame on the line.
LEMMA HostBase ==
  ASSUME Base, History, UNCHANGED devVars, toHost' \in Seq(Status),
         faults' \in 0 .. MaxFaults,
         toBl' \in Frames, toBl'.addr + Len(toBl'.data) <= FlashSize
  PROVE  TypeOK' /\ Control' /\ Writing' /\ CodeThere'
<1>1. TypeOK'
  BY DEF Base, SessionTypeOK, TypeOK, devVars
<1>2. Control'
  BY DEF Base, Control, JobMode, devVars
<1>3. Writing' /\ CodeThere'
  BY DEF Base, Writing, CodeThere, devVars
<1> QED BY <1>1, <1>2, <1>3

\* An answer keeps the variables of the tool in their types.
LEMMA AnsweredTypes ==
  ASSUME SessionTypeOK, NEW s \in Nat, Answered(s)
  PROVE  /\ tool' = tool /\ base' = base /\ tool' \in ToolCmds
         /\ phase' \in Phases /\ idx' \in Nat
         /\ waiting' = FALSE /\ err' \in BOOLEAN
         /\ phase' \notin {"trigger", "connect", "info"}
         /\ phase' = "erase" => idx' < EraseCount'
         /\ phase' = "write" => idx' < BatchCount'
<1>1. /\ tool' = tool /\ base' = base /\ waiting' = FALSE
      /\ EraseCount' = EraseCount /\ BatchCount' = BatchCount
  BY SameTool DEF Answered
<1>2. BatchCount \in Nat \ {0} /\ EraseCount \in Nat \ {0} /\ idx \in Nat
  BY RoundUp, FileInFlash, Widths DEF BatchCount, EraseCount, SessionTypeOK
<1>3. CASE EraseAnswer(s)
  BY <1>1, <1>2, <1>3 DEF EraseAnswer, SessionTypeOK, Phases
<1>4. CASE WriteAnswer(s)
  <2>1. err' \in BOOLEAN
    BY <1>4 DEF WriteAnswer
  <2> QED BY <1>1, <1>2, <1>4, <2>1 DEF WriteAnswer, SessionTypeOK, Phases
<1>5. CASE BootAnswer(s)
  BY <1>1, <1>2, <1>5 DEF BootAnswer, SessionTypeOK, Phases
<1> QED BY <1>3, <1>4, <1>5 DEF Answered

LEMMA HostStepBase ==
  ASSUME Base, History, HostStep
  PROVE  Base'
<1>0. /\ SessionTypeOK /\ TypeOK /\ toBl \in Frames /\ <<>> \in Seq(Status)
      /\ toBl.addr + Len(toBl.data) <= FlashSize
      /\ banner' \in BOOLEAN /\ calm' \in BOOLEAN
      /\ EraseCount \in Nat \ {0} /\ BatchCount \in Nat \ {0}
      /\ toHost \in Seq(Status) /\ faults \in 0 .. MaxFaults
  <2>1. SessionTypeOK
    BY DEF Base
  <2>2. EraseCount \in Nat \ {0} /\ BatchCount \in Nat \ {0}
    BY <2>1, RoundUp, FileInFlash, Widths DEF EraseCount, BatchCount
  <2> QED BY <2>1, <2>2, HistoryType DEF Base, SessionTypeOK, TypeOK, Writing
<1> USE DEF SessionTypeOK, Phases, ToolCmds, BasesOf
<1>1. ASSUME NEW t \in Tools, Begin(t) PROVE Base'
  <2>1. /\ toBl' \in {toBl, Bare("at")} /\ toHost' = <<>>
        /\ UNCHANGED <<devVars, faults>>
    BY <1>1 DEF Begin
  <2>2. TypeOK' /\ Control' /\ Writing' /\ CodeThere'
    BY <1>0, <2>1, HostBase, OtherFrames DEF TypeOK, XcpCmds, Texts
  <2>3. tool' \in ToolCmds /\ base' \in BasesOf(tool') /\ phase' \in {"trigger", "connect"}
    BY <1>1, SessionAssumption DEF Begin
  <2> QED BY <1>0, <1>1, <2>2, <2>3 DEF Begin, Base
<1>2. CASE Triggered \/ SeeWait
  <2>1. toBl' = StartByte /\ toHost' = <<>> /\ UNCHANGED <<devVars, faults>>
    BY <1>2 DEF Triggered, SeeWait
  <2>2. TypeOK' /\ Control' /\ Writing' /\ CodeThere'
    BY <1>0, <2>1, HostBase, OtherFrames DEF TypeOK, XcpCmds, Texts
  <2>3. /\ UNCHANGED <<tool, base, waiting, err>> /\ idx' = 0
        /\ phase' \in {"erase", "boot", "info"} /\ (phase' = "info" => tool = "info")
    BY <1>0, <1>2 DEF Triggered, SeeWait
  <2>4. EraseCount' = EraseCount
    BY <2>3, SameTool
  <2> QED BY <1>0, <2>2, <2>3, <2>4 DEF Base
<1>3. CASE NoBanner
  <2>1. /\ UNCHANGED <<devVars, toBl, toHost, tool, base, idx, waiting, err>>
        /\ phase' = "failed"
    BY <1>3 DEF NoBanner
  <2>2. faults' \in 0 .. MaxFaults
    BY <1>0, <1>3, FaultType DEF NoBanner
  <2>3. TypeOK' /\ Control' /\ Writing' /\ CodeThere'
    BY <1>0, <2>1, <2>2, HostBase
  <2> QED BY <1>0, <2>1, <2>3 DEF Base
<1>4. CASE Send
  <2>1. /\ UNCHANGED <<devVars, toHost, faults, tool, base, phase, idx, err>>
        /\ toBl' = CurFrame /\ waiting' = TRUE
    BY <1>4 DEF Send
  <2>2. TypeOK' /\ Control' /\ Writing' /\ CodeThere'
    BY <1>0, <2>1, HostBase, CurFrameFits
  <2>3. EraseCount' = EraseCount /\ BatchCount' = BatchCount
    BY <2>1, SameTool
  <2> QED BY <1>0, <2>1, <2>2, <2>3 DEF Base
<1>5. ASSUME NEW s \in Nat, Answered(s), toHost' \in Seq(Status),
             faults' \in 0 .. MaxFaults
      PROVE  Base'
  <2>1. UNCHANGED <<devVars, toBl>>
    BY <1>5 DEF Answered
  <2>2. TypeOK' /\ Control' /\ Writing' /\ CodeThere'
    BY <1>0, <1>5, <2>1, HostBase
  <2> QED BY <1>0, <1>5, <2>2, AnsweredTypes DEF Base
<1>6. CASE ReadAnswer
  <2>1. Head(toHost) \in Status /\ Answered(Head(toHost)) /\ UNCHANGED faults
    BY <1>0, <1>6 DEF ReadAnswer
  <2>2. toHost' \in Seq(Status)
    BY <1>0, <1>6, TailsType DEF ReadAnswer
  <2> QED BY <1>0, <1>5, <2>1, <2>2 DEF Status
<1>7. CASE Timeout
  BY <1>0, <1>5, <1>7, FaultType DEF Timeout, NoAnswer
<1>8. CASE RequestUpgrade \/ AskInfo
  <2>1. /\ UNCHANGED <<devVars, faults, tool, base, idx, waiting, err>>
        /\ toBl' \in {Bare("atbl"), Bare("info")} /\ toHost' \in {toHost, <<>>}
        /\ phase' = "done"
    BY <1>8 DEF RequestUpgrade, AskInfo
  <2>2. TypeOK' /\ Control' /\ Writing' /\ CodeThere'
    BY <1>0, <2>1, HostBase, OtherFrames DEF Texts, XcpCmds
  <2> QED BY <1>0, <2>1, <2>2 DEF Base
<1> QED BY <1>1, <1>2, <1>3, <1>4, <1>6, <1>7, <1>8 DEF HostStep

\* Every step.
LEMMA NextBase ==
  ASSUME Base, Next
  PROVE  Base'
<1>0. TypeOK /\ Control /\ Writing /\ CodeThere /\ History
  BY DEF Base, SessionTypeOK, Next
<1>1. CASE BlStep /\ UNCHANGED hostVars
  BY <1>0, <1>1, BlStepType, BlStepControl, BlStepWriting, BlStepCode, BoardBase
<1>2. CASE WindowTimeout
  <2>1. faults' \in 0 .. MaxFaults
    BY <1>0, <1>2, FaultType DEF WindowTimeout, TypeOK
  <2>2. WindowExpire /\ UNCHANGED hostVars
    BY <1>2 DEF WindowTimeout
  <2>3. Writing' /\ CodeThere'
    BY <1>0, <2>2 DEF WindowExpire, BootApp, Writing, CodeThere
  <2> QED BY <1>0, <2>1, <2>2, <2>3, WindowExpireType, WindowExpireControl, BoardBase
<1>3. CASE HostStep
  BY <1>0, <1>3, HostStepBase
<1>4. CASE UserReset
  <2>1. Reset /\ UNCHANGED <<faults, hostVars>>
    BY <1>4 DEF UserReset
  <2>2. TypeOK' /\ CodeThere'
    BY <1>0, <2>1, ResetType DEF TypeOK, Reset, Restart, CodeThere
  <2> QED BY <1>0, <2>1, <2>2, ResetControl, ResetWriting, BoardBase
<1>5. CASE OperatorUpgrade
  <2>1. /\ UNCHANGED <<devVars, toHost, faults>> /\ UNCHANGED hostVars
        /\ toBl' = Bare("atbl")
    BY <1>5 DEF OperatorUpgrade
  <2>2. TypeOK' /\ Control' /\ Writing' /\ CodeThere'
    BY <1>0, <2>1, HostBase, OtherFrames DEF Texts, TypeOK
  <2> QED BY <1>0, <2>1, <2>2, BoardBase
<1> QED BY <1>1, <1>2, <1>3, <1>4, <1>5 DEF Next, Step

LEMMA InitBase == SessionInit => Base
<1> SUFFICES ASSUME SessionInit PROVE Base
  OBVIOUS
<1>1. TypeOK /\ Control /\ Writing /\ CodeThere
  BY InitType, ControlInit, WritingInit DEF SessionInit, Init, CodeThere
<1>2. SessionTypeOK
  BY <1>1 DEF SessionInit, HostInit, SessionTypeOK, Phases
<1> QED BY <1>1, <1>2 DEF Base

\* The tool's own state stays in its ranges: it never asks for a sector beyond
\* the last one of the file or a batch beyond the last word, whatever statuses
\* it is answered and whatever it misses.
THEOREM SessionTypeCorrect == Spec => []SessionTypeOK
<1>1. Base /\ [Next]_vars => Base'
  <2>1. Base /\ UNCHANGED vars => Base'
    BY SameHost DEF vars, blVars, devVars, Base, SessionTypeOK, TypeOK,
       Control, JobMode, Writing, CodeThere, hostVars
  <2> QED BY <2>1, NextBase
<1>2. Base => SessionTypeOK
  BY DEF Base
<1> QED BY <1>1, <1>2, InitBase, PTL DEF Spec

-----------------------------------------------------------------------------
(* Steps of the board. *)

\* What is programmed stays, while the board does not erase and writes behind it.
LEMMA ProgrammedStays ==
  ASSUME Base, BlStep, UNCHANGED hostVars, job.op # "erase", ~(base < SectorWords),
         NEW n \in Nat, Programmed(n), job.op = "write" => job.addr >= base + n
  PROVE  Programmed(n)'
<1> SUFFICES ASSUME NEW i \in 1 .. Len(img), i <= n
             PROVE  mem'[base + i - 1] = img[i]
  BY SameHost DEF Programmed
<1>1. SessionTypeOK /\ TypeOK /\ job.pos \in Nat /\ job.addr \in Nat
  BY FlashSizeNat DEF Base, SessionTypeOK, TypeOK, Jobs
<1>2. base + i - 1 \in Cells /\ base + i - 1 \notin BlCells
  BY <1>1, FileInFlash, FlashSizeNat, Widths DEF BlCells
<1>3. job.op = "write" => base + i - 1 # WriteCell
  BY <1>1, FileInFlash DEF WriteCell
<1>4. mem'[base + i - 1] = mem[base + i - 1]
  BY <1>1, <1>2, <1>3, Untouched
<1> QED BY <1>4 DEF Programmed

-----------------------------------------------------------------------------
(* One request at a time. *)

\* Behind the batch idx, and the batch itself: the file up to the next one.
LEMMA BatchProgrammed ==
  ASSUME SessionTypeOK, phase = "write", Programmed(idx * WordsPerPkt),
         \A j \in 1 .. Len(WriteFrame(idx).data) :
           mem[WriteFrame(idx).addr + j - 1] = WriteFrame(idx).data[j]
  PROVE  Programmed((idx + 1) * WordsPerPkt)
<1> DEFINE lo == idx * WordsPerPkt
           data == WriteFrame(idx).data
<1>1. idx \in Nat /\ idx < BatchCount
  BY DEF SessionTypeOK
<1>2. /\ lo \in Nat /\ WriteFrame(idx).addr = base + lo
      /\ Len(data) = SmallerOf((idx + 1) * WordsPerPkt, Len(img)) - lo
      /\ \A j \in 1 .. Len(data) : data[j] = img[lo + j]
  BY <1>1, WriteFrameFits
<1>3. (idx + 1) * WordsPerPkt = lo + WordsPerPkt
  BY <1>1, Widths
<1> HIDE DEF data
<1> SUFFICES ASSUME NEW i \in 1 .. Len(img), i <= (idx + 1) * WordsPerPkt
             PROVE  mem[base + i - 1] = img[i]
  BY DEF Programmed
<1>4. CASE i <= lo
  BY <1>4 DEF Programmed
<1>5. CASE i > lo
  <2>0. lo \in Nat /\ base \in Nat /\ Len(img) \in Nat /\ WordsPerPkt \in Nat
    BY <1>2, FileInFlash, Widths
  <2> HIDE DEF lo
  <2>1. Len(data) = IF lo + WordsPerPkt <= Len(img) THEN WordsPerPkt ELSE Len(img) - lo
    BY <1>2, <1>3, <2>0 DEF SmallerOf
  <2>2. i - lo \in 1 .. Len(data)
    BY <1>3, <1>5, <2>0, <2>1
  <2>3. data[i - lo] = img[lo + (i - lo)]
    BY <1>2, <2>2
  <2>4. mem[base + lo + (i - lo) - 1] = data[i - lo]
    BY <1>2, <2>2 DEF data
  <2>5. lo + (i - lo) = i /\ base + lo + (i - lo) - 1 = base + i - 1
    BY <2>0
  <2> QED BY <2>3, <2>4, <2>5
<1>6. lo \in Int /\ i \in Int
  BY <1>2, FileInFlash
<1> QED BY <1>4, <1>5, <1>6

\* The frame of a request says what kind of request it is.
LEMMA CleanFrame ==
  ASSUME SessionTypeOK, Clean
  PROVE  /\ CurFrame.cmd \in {"erase", "write"} /\ CurFrame.cmd \in XcpCmds
         /\ CurFrame.cmd = "erase" <=> phase = "erase"
         /\ phase = "write" => CurFrame = WriteFrame(idx)
BY CurFrameFits DEF Clean, CurFrame, XcpCmds

\* A step of the board while it carries out the request.
LEMMA WorkingStep ==
  ASSUME Base, OwnSector, Progress, Clean, Working, BlStep, UNCHANGED hostVars, Writing'
  PROVE  Working' \/ Answering' \/ Lost'
<1>0. /\ TypeOK /\ SessionTypeOK /\ mode = "xcp" /\ job.op \in {"erase", "write"}
      /\ job # NoJob /\ toBl = NoFrame /\ toHost = <<>> /\ CurFrame' = CurFrame
      /\ phase' = phase /\ idx' = idx /\ base' = base
  BY CleanFrame, SameHost DEF Base, SessionTypeOK, Control, JobMode, Working, NoJob, Job
<1>1. 0 < MaxAcks /\ MaxAcks \in Nat /\ Len(<<>>) = 0
  BY BoundsAssumption
<1>2. CASE Command
  <2>1. CASE EraseDone \/ EraseFail
    <3>1. /\ job' = NoJob /\ toBl' = toBl /\ base' = base
          /\ \/ toHost' = toHost
             \/ EraseDone /\ toHost' = Append(toHost, 0)
             \/ toHost' = Append(toHost, 1)
      BY <1>0, <1>1, <2>1, SameHost DEF EraseDone, EraseFail, Answer, Ack
    <3>2. phase = "erase" /\ NoCommand'
      BY <1>0, <2>1, <3>1, CleanFrame
         DEF EraseDone, EraseFail, Working, NoCommand, NoJob, Job
    <3>3. CASE toHost' = toHost
      BY <1>0, <3>1, <3>2, <3>3 DEF Lost
    <3>4. CASE toHost' = Append(toHost, 1)
      <4>1. Len(toHost') = 1 /\ toHost'[1] = 1
        BY <1>0, <3>4
      <4> QED BY <1>0, <3>1, <3>2, <4>1 DEF Answering
    <3>5. CASE EraseDone /\ toHost' = Append(toHost, 0)
      <4>1. Len(toHost') = 1 /\ toHost' # toHost
        BY <1>0, <3>5
      <4>2. base < SectorWords => SectorOf(job.addr) = 0
        <5>1. base < SectorWords => job.addr = base + 0 * SectorWords
          BY <3>2 DEF OwnSector, Working, CurFrame, EraseFrame, Frame
        <5> QED BY <1>0, <5>1, FileInFlash, Widths DEF SectorOf
      <4>3. ~(base < SectorWords)
        BY <1>0, <3>5, <4>1, <4>2, ErasedCodeSilent DEF Base
      <4> QED BY <1>0, <3>1, <3>2, <4>1, <4>3 DEF Answering
    <3> QED BY <3>1, <3>3, <3>4, <3>5
  <2>2. CASE WriteStep
    <3>1. /\ job' = [job EXCEPT !.pos = @ + 1]
          /\ UNCHANGED <<toBl, toHost>>
      BY <2>2 DEF WriteStep
    <3>2. job'.op = job.op /\ job'.addr = job.addr /\ job'.data = job.data
      BY <1>0, <3>1 DEF TypeOK, Jobs
    <3> QED BY <1>0, <3>1, <3>2 DEF Working
  <2>3. CASE WriteFail
    <3>1. /\ job' = NoJob /\ toBl' = toBl
          /\ toHost' = toHost \/ toHost' = Append(toHost, 1)
      BY <1>0, <1>1, <2>3 DEF WriteFail, Answer, Ack
    <3>2. /\ NoCommand'
          /\ toHost' # toHost => Len(toHost') = 1 /\ toHost'[1] = 1
      BY <1>0, <3>1 DEF NoCommand, NoJob, Job
    <3> QED BY <1>0, <3>1, <3>2 DEF Answering, Lost
  <2>4. CASE WriteDone
    <3>1. job' = NoJob /\ UNCHANGED <<mem, toBl>> /\ toHost' = Append(toHost, 0)
      BY <1>0, <1>1, <2>4 DEF WriteDone, Ack
    <3>2. NoCommand' /\ Len(toHost') = 1
      BY <1>0, <3>1 DEF NoCommand, NoJob, Job
    <3>3. phase = "write" /\ CurFrame = WriteFrame(idx)
      BY <2>4, CleanFrame, <1>0 DEF WriteDone, Working, Clean
    <3>4. \A j \in 1 .. Len(WriteFrame(idx).data) :
            mem[WriteFrame(idx).addr + j - 1] = WriteFrame(idx).data[j]
      BY <2>4, <3>3 DEF WriteDone, Working, Base, Writing
    <3>5. Programmed((idx + 1) * WordsPerPkt)
      BY <1>0, <3>3, <3>4, BatchProgrammed DEF Progress
    <3>6. Programmed((idx + 1) * WordsPerPkt)'
      BY <1>0, <3>1, <3>5, SameHost DEF Programmed
    <3> QED BY <1>0, <3>1, <3>2, <3>3, <3>6 DEF Answering
  <2>5. ~BootJump
    BY <1>0 DEF BootJump
  <2> QED BY <1>2, <2>1, <2>2, <2>3, <2>4, <2>5 DEF Command
<1>3. CASE PowerFail
  BY <1>0, <1>3 DEF PowerFail, Reset, Restart, Lost, NoCommand, NoJob, Job
<1>4. ~(BootStart \/ CheckApp \/ WindowPending \/ WindowByte \/ NotListening)
  BY <1>0 DEF BootStart, CheckApp, WindowPending, WindowByte, NotListening
<1>5. ~(Upgrade \/ Receive \/ Overrun \/ StrayTimeout)
  BY <1>0 DEF Upgrade, UpgradeErase, UpgradeCopyWord, UpgradeEnd, UpgradeMismatch,
              UpgradeFault, Receive, Listening, Overrun, StrayTimeout
<1>6. ~(AppReceive \/ DropFrame \/ DropAck)
  BY <1>0 DEF AppReceive, DropFrame, DropAck
<1> QED BY <1>2, <1>3, <1>4, <1>5, <1>6 DEF BlStep

\* A step of the board keeps the exchange in order.
LEMMA BoardOneRequest ==
  ASSUME Inv, BlStep, UNCHANGED hostVars, Base'
  PROVE  OneRequest'
<1>0. /\ Base /\ TypeOK /\ SessionTypeOK /\ OwnSector /\ OneRequest /\ Progress
      /\ toHost \in Seq(Status) /\ Writing'
  BY DEF Inv, Base, SessionInv, SessionTypeOK, TypeOK
<1> SUFFICES ASSUME Clean
             PROVE  /\ ~waiting => /\ NoCommand' /\ toHost' = <<>>
                                   /\ toBl' \in {NoFrame, StartByte}
                    /\ waiting => Sent' \/ Working' \/ Answering' \/ Lost'
  BY SameHost DEF OneRequest
<1>1. CASE ~waiting
  <2>1. NoCommand /\ toHost = <<>> /\ toBl \in {NoFrame, StartByte}
    BY <1>0, <1>1 DEF OneRequest
  <2>2. ~Receive
    BY <2>1, OtherFrames DEF Receive, XcpCmds
  <2> QED BY <1>0, <1>1, <2>1, <2>2, QuietStep, JobStep
<1>2. CASE Sent
  <2>1. CASE Receive
    <3>1. /\ job' = Job(CurFrame.cmd, CurFrame.addr, CurFrame.data)
          /\ toHost' = toHost /\ toBl' = NoFrame
      <4>1. CASE phase = "erase"
        <5>1. CurFrame.cmd = "erase" /\ CurFrame.data = <<>>
          BY <4>1 DEF CurFrame, EraseFrame, Frame
        <5> QED BY <1>2, <2>1, <5>1 DEF Receive, Dispatch, Sent
      <4>2. CASE phase = "write"
        <5>1. CurFrame.cmd = "write"
          BY <1>0, <4>2, CurFrameFits
        <5> QED BY <1>2, <2>1, <5>1 DEF Receive, Dispatch, Sent
      <4> QED BY <4>1, <4>2 DEF Clean
    <3>2. Working'
      BY <1>2, <3>1, SameHost DEF Working, Sent, Job
    <3> QED BY <1>1, <3>2
  <2>2. CASE ~Receive
    <3>1. NoCommand' /\ toHost' = <<>> /\ toBl' \in {toBl, NoFrame}
      BY <1>0, <1>2, <2>2, QuietStep, JobStep DEF Sent
    <3> QED BY <1>1, <1>2, <3>1, SameHost DEF Sent, Lost
  <2> QED BY <2>1, <2>2
<1>3. CASE waiting /\ Working
  BY <1>0, <1>3, WorkingStep
<1>4. CASE waiting /\ Answering
  <2>1. ~Receive
    BY <1>4, OtherFrames DEF Answering, Receive, XcpCmds
  <2>2. NoCommand' /\ toBl' = NoFrame
    BY <1>0, <1>4, <2>1, QuietStep, JobStep DEF Answering
  <2>3. CASE toHost' = toHost
    <3>1. ASSUME phase = "write", toHost[1] = 0
          PROVE  Programmed((idx + 1) * WordsPerPkt)'
      <4>1. Programmed((idx + 1) * WordsPerPkt) /\ job.op \notin {"erase", "write"}
        BY <1>4, <3>1 DEF Answering, NoCommand
      <4>2. (idx + 1) * WordsPerPkt \in Nat
        BY <1>0, Widths DEF SessionTypeOK
      <4>3. idx' = idx
        BY SameHost
      <4> HIDE DEF Programmed
      <4>4. ASSUME NEW n \in Nat, n = (idx + 1) * WordsPerPkt
            PROVE  Programmed(n)'
        <5>1. ~(base < SectorWords)
          BY <1>0, <3>1 DEF OwnSector
        <5> QED BY <1>0, <4>1, <4>4, <5>1, ProgrammedStays
      <4> QED BY <4>2, <4>3, <4>4
    <3> QED BY <1>4, <2>2, <2>3, <3>1, SameHost DEF Answering
  <2>4. CASE toHost # <<>> /\ toHost' = Tail(toHost)
    <3>1. toHost' = <<>>
      BY <1>0, <1>4, <2>4 DEF Answering
    <3> QED BY <1>4, <2>2, <3>1 DEF Lost
  <2> QED BY <1>0, <1>4, <2>1, <2>3, <2>4, QuietStep DEF Answering
<1>5. CASE waiting /\ Lost
  <2>1. ~Receive
    BY <1>5, OtherFrames DEF Lost, Receive, XcpCmds
  <2> QED BY <1>0, <1>5, <2>1, QuietStep, JobStep DEF Lost
<1> QED BY <1>0, <1>1, <1>2, <1>3, <1>4, <1>5 DEF OneRequest

\* What was programmed stays programmed while the request is carried out.
LEMMA BoardProgress ==
  ASSUME Inv, BlStep, UNCHANGED hostVars
  PROVE  Progress'
<1>0. Base /\ SessionTypeOK /\ OwnSector /\ OneRequest /\ Progress
  BY DEF Inv, Base, SessionInv
<1> SUFFICES ASSUME Clean, phase = "write"
             PROVE  Programmed(idx * WordsPerPkt)'
  BY SameHost DEF Progress
<1>1. idx' = idx /\ idx \in Nat /\ idx < BatchCount /\ idx * WordsPerPkt \in Nat
  BY <1>0, SameHost, Widths DEF SessionTypeOK
<1>2. job.op # "erase" /\ (job.op = "write" => job.addr >= base + idx * WordsPerPkt)
  <2>1. CASE NoCommand
    BY <2>1 DEF NoCommand
  <2>2. CASE Working
    <3>1. job.op = "write" /\ job.addr = base + idx * WordsPerPkt
      BY <1>0, <1>1, <2>2, CleanFrame, WriteFrameFits DEF Working
    <3> QED BY <1>0, <1>1, <3>1, FileInFlash
  <2> QED BY <1>0, <2>1, <2>2 DEF OneRequest, Sent, Answering, Lost
<1>3. Programmed(idx * WordsPerPkt)
  BY <1>0 DEF Progress
<1>4. ASSUME NEW n \in Nat, n = idx * WordsPerPkt
      PROVE  Programmed(n)'
  <2>1. ~(base < SectorWords)
    BY <1>0 DEF OwnSector
  <2> QED BY <1>0, <1>2, <1>3, <1>4, <2>1, ProgrammedStays
<1> QED BY <1>1, <1>4

LEMMA BoardConnecting ==
  ASSUME Inv, BlStep, UNCHANGED hostVars, History, Base'
  PROVE  Connecting'
<1>0. /\ TypeOK /\ Connecting /\ Control'
      /\ banner' <=> (phase = "connect" /\ (banner \/ (mode # "window" /\ mode' = "window")))
      /\ phase' = phase /\ waiting' = waiting
  BY SameHost DEF Inv, Base, SessionInv, SessionTypeOK, History, Console
<1>1. ASSUME phase = "connect" PROVE toBl' = NoFrame /\ (banner' => NoCommand')
  <2>1. toBl = NoFrame /\ ~Receive /\ toBl' = NoFrame
    BY <1>0, <1>1, JobStep, OtherFrames DEF Connecting, Receive, XcpCmds
  <2>2. mode' = "window" => NoCommand'
    BY <1>0 DEF Control, JobMode, NoCommand
  <2>3. banner => NoCommand'
    BY <1>0, <1>1, <2>1, QuietStep DEF Connecting
  <2> QED BY <1>0, <2>1, <2>2, <2>3
<1> QED BY <1>0, <1>1 DEF Connecting

LEMMA BoardFinished ==
  ASSUME Inv, BlStep, UNCHANGED hostVars
  PROVE  Finished'
<1>0. Base /\ SessionTypeOK /\ TypeOK /\ OwnSector /\ Finished
  BY DEF Inv, Base, SessionInv, SessionTypeOK
<1> SUFFICES ASSUME Flashed
             PROVE  /\ Programmed(Len(img))'
                    /\ job'.op \notin {"erase", "write"}
                    /\ toBl'.cmd \notin {"erase", "write"}
  BY SameHost DEF Finished
<1>1. /\ Programmed(Len(img)) /\ job.op \notin {"erase", "write"}
      /\ toBl.cmd \notin {"erase", "write"}
  BY <1>0 DEF Finished
<1>2. toBl'.cmd \notin {"erase", "write"}
  BY <1>0, <1>1, JobStep, OtherFrames
<1>3. Receive => job'.op \notin {"erase", "write"}
  BY <1>1 DEF Receive, Dispatch, Job
<1>4. job'.op \notin {"erase", "write"}
  BY <1>0, <1>1, <1>3, JobStep
<1>5. Len(img) \in Nat /\ img' = img
  BY <1>0, FileInFlash, SameHost
<1>6. ASSUME NEW n \in Nat, n = Len(img)
      PROVE  Programmed(n)'
  <2>1. ~(base < SectorWords)
    BY <1>0 DEF OwnSector
  <2> QED BY <1>0, <1>1, <1>6, <2>1, ProgrammedStays
<1> QED BY <1>2, <1>4, <1>5, <1>6

-----------------------------------------------------------------------------
(* Steps of the tool. *)

\* An answer was read, or none came.
LEMMA AnswerInv ==
  ASSUME Inv, History, NEW s \in Nat, Answered(s),
         s = 0 => /\ toHost # <<>> /\ toHost[1] = 0
                  /\ Len(toHost) = 1 => toHost' = <<>>
  PROVE  SessionInv'
<1>0. /\ SessionTypeOK /\ OwnSector /\ OneRequest /\ Connecting /\ Finished /\ Progress
      /\ waiting /\ waiting' = FALSE /\ tool' = tool
      /\ UNCHANGED <<devVars, toBl>> /\ img' = img /\ base' = base
      /\ base \in Nat /\ SectorWords \in Nat
      /\ phase \in {"erase", "write", "boot"}
      /\ err \in BOOLEAN /\ idx \in Nat
  BY SameTool, FileInFlash, Widths DEF Inv, SessionInv, Answered, SessionTypeOK, EraseAnswer,
                  WriteAnswer, BootAnswer
<1>1. job' = job /\ mem' = mem /\ toBl' = toBl
  BY <1>0 DEF devVars
<1>2. phase' \notin {"trigger", "connect"} /\ ~banner'
  BY <1>0, AnsweredTypes DEF History, Console
<1>3. Connecting'
  BY <1>2 DEF Connecting
<1>4. ASSUME Clean, s = 0
      PROVE  /\ NoCommand' /\ toHost' = <<>> /\ toBl' = NoFrame
             /\ phase = "write" => Programmed((idx + 1) * WordsPerPkt)
             /\ phase = "erase" => ~(base < SectorWords)
  <2>1. Answering
    BY <1>0, <1>4 DEF OneRequest, Sent, Working, Lost
  <2>2. phase = "write" => Programmed((idx + 1) * WordsPerPkt)
    BY <1>4, <2>1 DEF Answering
  <2>4. phase = "erase" => ~(base < SectorWords)
    BY <1>4, <2>1 DEF Answering
  <2>3. NoCommand' /\ toHost' = <<>> /\ toBl' = NoFrame
    BY <1>1, <1>4, <2>1 DEF Answering, NoCommand
  <2> QED BY <2>2, <2>3, <2>4
<1>5. CASE EraseAnswer(s)
  <2>1. /\ phase = "erase" /\ err' = err
        /\ phase' \in {"failed", "erase", "write"} /\ (phase' = "write" => idx' = 0)
        /\ phase' # "failed" => s = 0
    BY <1>5 DEF EraseAnswer
  <2>2. OneRequest'
    BY <1>0, <1>4, <2>1 DEF OneRequest, Clean
  <2>3. Progress'
    <3>1. phase' = "write" => idx' * WordsPerPkt = 0
      BY <2>1, Widths
    <3>2. Programmed(0)'
      BY DEF Programmed
    <3> QED BY <3>1, <3>2 DEF Progress, Programmed
  <2>4. Finished'
    BY <2>1 DEF Finished, Flashed
  <2>5. OwnSector'
    <3>1. ~err /\ (phase' # "failed" => ~(base < SectorWords))
      BY <1>0, <1>4, <2>1 DEF OwnSector, Clean
    <3> QED BY <1>0, <2>1, <3>1 DEF OwnSector, Flashed
  <2> QED BY <1>3, <2>2, <2>3, <2>4, <2>5 DEF SessionInv
<1>6. CASE WriteAnswer(s)
  <2>1. /\ phase = "write" /\ err' = (err \/ s # 0)
        /\ phase' \in {"write", "failed", "blreq", "boot"}
        /\ phase' = "write" => idx' = idx + 1
        /\ phase' \in {"blreq", "boot"} => ~err' /\ ~(idx + 1 < BatchCount)
    BY <1>0, <1>6 DEF WriteAnswer
  <2>2. phase' \notin {"failed"} /\ ~err' => Clean /\ s = 0
    BY <1>0, <2>1 DEF Clean
  <2>3. OneRequest'
    BY <1>0, <1>4, <2>1, <2>2 DEF OneRequest, Clean
  <2>4. Progress'
    <3> SUFFICES ASSUME Clean', phase' = "write"
                 PROVE  Programmed(idx * WordsPerPkt)'
      BY DEF Progress
    <3>1. Programmed((idx + 1) * WordsPerPkt) /\ idx' = idx + 1
      BY <1>4, <2>1, <2>2 DEF Clean
    <3> QED BY <1>0, <1>1, <3>1 DEF Programmed
  <2>5. Finished'
    <3> SUFFICES ASSUME Flashed' PROVE /\ Programmed(Len(img))'
                                       /\ job'.op \notin {"erase", "write"}
                                       /\ toBl'.cmd \notin {"erase", "write"}
      BY DEF Finished
    <3>1. ~err' /\ idx + 1 >= BatchCount /\ Clean /\ s = 0
      <4>1. phase' \in {"blreq", "boot"}
        BY <2>1 DEF Flashed
      <4>2. BatchCount \in Nat
        BY <1>0, RoundUp, FileInFlash, Widths DEF BatchCount
      <4> QED BY <1>0, <2>1, <2>2, <4>1, <4>2
    <3>2. Programmed((idx + 1) * WordsPerPkt) /\ NoCommand' /\ toBl' = NoFrame
      BY <1>4, <2>1, <3>1
    <3>3. (idx + 1) * WordsPerPkt >= Len(img)
      <4>1. BatchCount * WordsPerPkt >= Len(img) /\ BatchCount \in Nat \ {0}
        BY <1>0, RoundUp, FileInFlash, Widths DEF BatchCount
      <4>2. idx + 1 = BatchCount
        BY <1>0, <2>1, <3>1, <4>1 DEF SessionTypeOK
      <4> QED BY <4>1, <4>2
    <3>4. Programmed(Len(img))'
      <4>1. (idx + 1) * WordsPerPkt \in Int /\ Len(img) \in Int
        BY <1>0, Widths, FileInFlash
      <4> QED BY <1>0, <1>1, <3>2, <3>3, <4>1 DEF Programmed
    <3> QED BY <3>2, <3>4, OtherFrames DEF NoCommand
  <2>6. OwnSector'
    BY <1>0, <2>1 DEF OwnSector
  <2> QED BY <1>3, <2>3, <2>4, <2>5, <2>6 DEF SessionInv
<1>7. CASE BootAnswer(s)
  <2>1. phase = "boot" /\ phase' = "done"
    BY <1>7 DEF BootAnswer
  <2>2. OneRequest' /\ Progress'
    BY <2>1 DEF OneRequest, Progress, Clean
  <2>3. Finished'
    BY <1>0, <1>1, <2>1 DEF Finished, Flashed, Programmed
  <2>4. OwnSector'
    BY <1>0, <2>1 DEF OwnSector, Flashed
  <2> QED BY <1>3, <2>2, <2>3, <2>4 DEF SessionInv
<1> QED BY <1>5, <1>6, <1>7 DEF Answered

\* A step of the tool.
LEMMA HostStepInv ==
  ASSUME Inv, History, HostStep
  PROVE  SessionInv'
<1>0. /\ SessionTypeOK /\ TypeOK /\ toHost \in Seq(Status)
      /\ OwnSector /\ OneRequest /\ Connecting /\ Finished /\ Progress
      /\ banner' => phase' = "connect" /\ (banner \/ mode' # mode)
  BY DEF Inv, SessionInv, SessionTypeOK, TypeOK, History, Console
<1> USE DEF devVars
<1>1. ASSUME NEW t \in Tools, Begin(t) PROVE SessionInv'
  <2>1. /\ phase' \in {"trigger", "connect"} /\ waiting' = FALSE /\ mode' = mode
        /\ err' = FALSE
        /\ phase' = "connect" => toBl' = NoFrame
        /\ phase # "connect"
    BY <1>1 DEF Begin, Idle
  <2>2. ~banner'
    BY <1>0, <2>1 DEF Connecting
  <2> QED BY <2>1, <2>2
          DEF SessionInv, OwnSector, OneRequest, Progress, Connecting, Finished, Clean, Flashed
<1>2. CASE Triggered \/ SeeWait
  <2>1. /\ phase' = "erase" \/ (phase' = tool' /\ tool' \in {"boot", "info"})
        /\ waiting' = FALSE /\ toHost' = <<>> /\ toBl' = StartByte
        /\ job' = job /\ idx' = 0 /\ ~err'
    BY <1>0, <1>2 DEF Triggered, SeeWait, Connecting, OwnSector, SessionTypeOK
  <2>2. NoCommand
    BY <1>0, <1>2 DEF Triggered, SeeWait, Connecting, BlQuiet, NoCommand, NoJob, Job
  <2> QED BY <1>0, <2>1, <2>2
          DEF SessionInv, OwnSector, OneRequest, Progress, Connecting, Finished, Clean, Flashed,
              NoCommand
<1>3. CASE NoBanner
  <2>1. phase' = "failed"
    BY <1>3 DEF NoBanner
  <2> QED BY <1>0, <2>1
          DEF SessionInv, OwnSector, OneRequest, Progress, Connecting, Finished, Clean, Flashed
<1>4. CASE Send
  <2>1. /\ UNCHANGED <<mem, job, toHost, tool, base, phase, idx, err>>
        /\ phase \in {"erase", "write", "boot"} /\ ~waiting
        /\ toBl' = CurFrame /\ waiting' = TRUE
    BY <1>4 DEF Send
  <2>2. img' = img /\ base' = base /\ CurFrame' = CurFrame
    BY <2>1, SameTool DEF CurFrame, EraseFrame, WriteFrame
  <2>3. OneRequest'
    BY <1>0, <2>1, <2>2 DEF OneRequest, Clean, Sent, NoCommand
  <2>4. Progress'
    BY <1>0, <2>1, <2>2 DEF Progress, Clean, Programmed
  <2>5. Connecting'
    BY <1>0, <2>1 DEF Connecting
  <2>6. Finished'
    <3>1. Flashed' => CurFrame.cmd = "boot"
      BY <1>0, <2>1, CurFrameFits DEF Flashed
    <3> QED BY <1>0, <2>1, <2>2, <3>1 DEF Finished, Flashed, Programmed
  <2>7. OwnSector'
    BY <1>0, <2>1 DEF OwnSector, Flashed
  <2> QED BY <2>3, <2>4, <2>5, <2>6, <2>7 DEF SessionInv
<1>5. CASE ReadAnswer
  <2>1. /\ toHost # <<>> /\ Head(toHost) = toHost[1] /\ Head(toHost) \in Nat
        /\ Answered(Head(toHost))
        /\ Len(toHost) = 1 => toHost' = <<>>
    BY <1>0, <1>5 DEF ReadAnswer, Status
  <2> QED BY <2>1, AnswerInv
<1>6. CASE Timeout
  BY <1>6, AnswerInv DEF Timeout, NoAnswer
<1>7. CASE RequestUpgrade \/ AskInfo
  <2>1. /\ UNCHANGED <<mem, job, tool, base>> /\ phase' = "done"
        /\ toBl' \in {Bare("atbl"), Bare("info")}
        /\ phase = "blreq" \/ (phase = "info" /\ tool \in {"boot", "info"})
    BY <1>0, <1>7 DEF RequestUpgrade, AskInfo, SessionTypeOK
  <2>2. img' = img /\ base' = base /\ toBl'.cmd \in {"atbl", "info"}
    BY <2>1, SameTool, OtherFrames DEF Texts, XcpCmds
  <2>3. Finished'
    BY <1>0, <2>1, <2>2 DEF Finished, Flashed, Programmed
  <2>4. OwnSector'
    BY <1>0, <2>1 DEF OwnSector, Flashed
  <2> QED BY <1>0, <2>1, <2>3, <2>4 DEF SessionInv, OwnSector, OneRequest, Progress, Connecting, Clean
<1> QED BY <1>1, <1>2, <1>3, <1>4, <1>5, <1>6, <1>7 DEF HostStep

-----------------------------------------------------------------------------
(* The invariant and the theorem. *)

LEMMA NextInv ==
  ASSUME Inv, Next
  PROVE  Inv'
<1>0. Base /\ History /\ SessionTypeOK /\ SessionInv
  BY DEF Inv, Base, Next
<1>1. Base'
  BY <1>0, NextBase
<1> SUFFICES SessionInv'
  BY <1>1 DEF Inv, Base
<1>2. CASE BlStep /\ UNCHANGED hostVars
  <2>1. OwnSector'
    BY <1>0, <1>2, SameHost DEF SessionInv, OwnSector
  <2> QED BY <1>0, <1>1, <1>2, <2>1, BoardOneRequest, BoardProgress, BoardConnecting,
             BoardFinished
          DEF SessionInv
<1>3. CASE WindowTimeout
  <2>1. /\ UNCHANGED <<mem, job, toBl, toHost>> /\ UNCHANGED hostVars
        /\ mode' # "window"
    BY <1>3 DEF WindowTimeout, WindowExpire, BootApp
  <2>2. banner' => banner
    BY <1>0, <2>1 DEF History, Console
  <2> QED BY <1>0, <2>1, <2>2, SameHost
          DEF SessionInv, OwnSector, OneRequest, Progress, Connecting, Finished,
              Sent, Working, Answering, Lost, NoCommand, Programmed
<1>4. CASE HostStep
  BY <1>0, <1>4, HostStepInv
<1>5. CASE UserReset
  <2>1. /\ phase = "connect" /\ ~banner /\ mode' = "reset" /\ toBl' = toBl
        /\ UNCHANGED <<base, phase, idx, waiting, err>>
    BY <1>5 DEF UserReset, Reset, Restart, hostVars
  <2>2. ~banner'
    BY <1>0, <2>1 DEF History, Console
  <2> QED BY <1>0, <2>1, <2>2
          DEF SessionInv, OwnSector, OneRequest, Progress, Connecting, Finished, Clean, Flashed
<1>6. CASE OperatorUpgrade
  <2>1. /\ UNCHANGED <<mem, job>> /\ UNCHANGED hostVars
        /\ phase \notin {"connect", "trigger", "erase", "write"}
        /\ toBl' = Bare("atbl")
    BY <1>6 DEF OperatorUpgrade, devVars, Idle
  <2>2. toBl'.cmd = "atbl"
    BY <2>1, OtherFrames DEF Texts
  <2>3. phase' = phase /\ waiting' = waiting /\ ~banner'
    BY <1>0, <2>1 DEF hostVars, History, Console
  <2>4. Finished' /\ OwnSector'
    BY <1>0, <2>1, <2>2, SameHost DEF SessionInv, OwnSector, Finished, Programmed
  <2> QED BY <2>1, <2>3, <2>4 DEF SessionInv, OwnSector, OneRequest, Progress, Connecting, Clean
<1> QED BY <1>0, <1>2, <1>3, <1>4, <1>5, <1>6 DEF Next, Step

LEMMA StutterInv ==
  ASSUME Inv, UNCHANGED vars
  PROVE  Inv'
<1>1. UNCHANGED hostVars /\ UNCHANGED <<banner, calm>>
      /\ UNCHANGED <<mem, bkp, mode, bootBkp, appok, apc, entry, job, rx,
                     toBl, toHost, faults>>
  BY DEF vars, blVars, devVars
<1>2. SessionTypeOK' /\ Control' /\ Writing' /\ CodeThere'
  BY <1>1, SameHost DEF Inv, SessionTypeOK, TypeOK, Control, JobMode,
     Writing, CodeThere, BasesOf
<1>3. SessionInv'
  BY <1>1, SameHost DEF Inv, SessionInv, OwnSector, OneRequest, Progress, Connecting, Finished,
     Sent, Working, Answering, Lost, NoCommand, Programmed
<1> QED BY <1>2, <1>3 DEF Inv

LEMMA InitInv == SessionInit => Inv
<1> SUFFICES ASSUME SessionInit PROVE Inv
  OBVIOUS
<1>1. phase = "idle" /\ banner = FALSE
  BY DEF SessionInit, HostInit
<1>2. SessionInv
  BY <1>1 DEF SessionInv, OwnSector, OneRequest, Progress, Connecting, Finished, Clean, Flashed
<1> QED BY <1>2, InitBase DEF Inv, Base

LEMMA InvGood == Inv => FlashedMeansProgrammed
<1> SUFFICES ASSUME Inv, Programmed(Len(img)) PROVE Holds(mem, base, img)
  BY DEF Inv, SessionInv, Finished, FlashedMeansProgrammed
<1>1. \A i \in 1 .. Len(img) : i <= Len(img)
  BY FileInFlash DEF Inv
<1> QED BY <1>1 DEF Programmed, Holds

\* Whatever is lost, late, cut short or answered twice on the way, flash()
\* returns True only of a flash that holds the whole file: for every file that
\* fits, every batch size, every sector size and any number of faults.
THEOREM FlashedIsProgrammed == Spec => []FlashedMeansProgrammed
<1>1. Inv /\ [Next]_vars => Inv'
  BY NextInv, StutterInv
<1> QED BY <1>1, InvGood, InitInv, PTL DEF Spec

-----------------------------------------------------------------------------
(* The session is an update service. *)

LEMMA ReportValues ==
  /\ Content \in {"image", "other"} /\ Report \in {"failed", "ok", "none"}
  /\ Report = "failed" <=> phase = "failed"
  /\ Report = "ok" <=> Flashed
BY DEF Content, Report, Flashed

\* The tool reports success with the last answer, and a failed run stays failed.
LEMMA ReportStep ==
  ASSUME Inv, Next
  PROVE  /\ Flashed' /\ ~Flashed => /\ phase # "failed"
                                    /\ mem' = mem /\ img' = img /\ base' = base
         /\ phase' = "failed" => ~Flashed
<1>1. CASE UNCHANGED hostVars
  BY <1>1 DEF hostVars, Flashed
<1>2. CASE HostStep
  <2>1. CASE (\E t \in Tools : Begin(t)) \/ Triggered \/ SeeWait \/ NoBanner
    BY <2>1 DEF Begin, Triggered, SeeWait, NoBanner, Flashed
  <2>2. CASE Send \/ RequestUpgrade \/ AskInfo
    BY <2>2 DEF Send, RequestUpgrade, AskInfo, Flashed, Inv, SessionTypeOK
  <2>3. CASE ReadAnswer \/ Timeout
    <3>1. PICK s : Answered(s)
      BY <2>3 DEF ReadAnswer, Timeout
    <3>2. mem' = mem /\ img' = img /\ base' = base /\ tool' = tool
      BY <3>1, SameTool DEF Answered, devVars
    <3> QED BY <3>1, <3>2
            DEF Answered, EraseAnswer, WriteAnswer, BootAnswer, Flashed
  <2> QED BY <1>2, <2>1, <2>2, <2>3 DEF HostStep
<1> QED BY <1>1, <1>2 DEF Next, Step, WindowTimeout, UserReset, OperatorUpgrade

\* Seen from outside, the tool and the board together only ever do what
\* UpdateService allows: success is reported of a flash that holds the file,
\* and the report stays true until the next run.
THEOREM SessionIsUpdateService == Spec => UpdateRefined
<1>1. SessionInit => Update!Init
  BY ReportValues DEF SessionInit, HostInit, Flashed, Report, Update!Init
<1>2. Inv /\ FlashedMeansProgrammed /\ FlashedMeansProgrammed' /\ [Next]_vars
        => [Update!Next]_<<Content, Report>>
  <2> SUFFICES ASSUME Inv, FlashedMeansProgrammed, FlashedMeansProgrammed',
                      [Next]_vars
               PROVE  Update!Next \/ (Content' = Content /\ Report' = Report)
    OBVIOUS
  <2>1. (Flashed => Content = "image") /\ (Flashed' => Content' = "image")
    BY DEF FlashedMeansProgrammed, Content
  <2>2. /\ Content' \in {"image", "other"} /\ Report' \in {"failed", "ok", "none"}
        /\ Report' = "failed" <=> phase' = "failed"
        /\ Report' = "ok" <=> Flashed'
    BY DEF Content, Report, Flashed
  <2>3. CASE UNCHANGED vars
    <3>1. Content' = Content /\ Report' = Report
      BY <2>3, SameHost
         DEF vars, blVars, devVars, hostVars, Content, Report, Holds, Flashed
    <3> QED BY <3>1
  <2>4. CASE Next /\ Report' = "none"
    BY <2>2, <2>4 DEF Update!Next, Update!Start
  <2>5. CASE Next /\ Report' = "ok"
    <3>1. CASE Flashed
      BY <2>1, <2>2, <2>5, <3>1, ReportValues
    <3>2. CASE ~Flashed
      <4>1. phase # "failed" /\ Content' = Content
        BY <2>2, <2>5, <3>2, ReportStep DEF Content, Holds
      <4>2. Report = "none" /\ Content = "image"
        BY <2>1, <2>2, <2>5, <3>2, <4>1, ReportValues
      <4> QED BY <2>5, <4>1, <4>2 DEF Update!Next, Update!Succeed
    <3> QED BY <3>1, <3>2
  <2>6. CASE Next /\ Report' = "failed"
    <3>1. Report \in {"failed", "none"}
      BY <2>2, <2>6, ReportStep, ReportValues
    <3> QED BY <2>2, <2>6, <3>1 DEF Update!Next, Update!Change, Update!Fail
  <2> QED BY <2>2, <2>3, <2>4, <2>5, <2>6
<1>3. Inv /\ [Next]_vars => Inv'
  BY NextInv, StutterInv
<1> QED BY <1>1, <1>2, <1>3, InitInv, FlashedIsProgrammed, PTL DEF Spec, UpdateRefined, Update!Spec

-----------------------------------------------------------------------------
(* Sector 0 and the self-upgrade. *)

\* No --addr names the bootloader's own sector.
BasesAboveSector0 == \A b \in Bases : b >= SectorWords

\* Then the tool sends nothing that does: what Sector0Protected of
\* BootloaderEnv_proofs assumes of a peer.
LEMMA CurFrameAbove ==
  ASSUME BasesAboveSector0, SessionTypeOK
  PROVE  Aimed(CurFrame.cmd, CurFrame.addr, CurFrame.data, AboveSector0)
<1>1. CurFrame \in Frames /\ CurFrame.addr + Len(CurFrame.data) <= FlashSize
  BY CurFrameFits
<1>2. CASE phase \in {"erase", "write"}
  <2>1. \E k \in Nat : CurFrame.addr = base + k
    <3>1. idx * SectorWords \in Nat /\ idx * WordsPerPkt \in Nat
      BY Widths DEF SessionTypeOK
    <3>2. CurFrame.addr \in {base + idx * SectorWords, base + idx * WordsPerPkt}
      BY <1>2 DEF CurFrame, EraseFrame, WriteFrame, Frame
    <3> QED BY <3>1, <3>2
  <2>2. CurFrame.addr >= AppBase
    <3>1. base >= SectorWords
      <4>1. BlTemp >= SectorWords /\ AppBase >= SectorWords
        BY FlashAssumption DEF AppBase, BlTemp
      <4>2. base \in Bases \cup {AppBase, BlTemp}
        BY DEF SessionTypeOK, BasesOf
      <4> QED BY <4>1, <4>2 DEF BasesAboveSector0
    <3> QED BY <2>1, <3>1, FileInFlash, FlashAssumption DEF AppBase
  <2> QED BY <1>1, <2>2, AimedAbove
<1>3. CASE phase \notin {"erase", "write"}
  BY <1>3, BareAimed DEF CurFrame
<1> QED BY <1>2, <1>3

\* All a step of the tool or of the operator may do to the board's side.
LEMMA HostTouches ==
  ASSUME HostStep \/ OperatorUpgrade
  PROVE  /\ UNCHANGED devVars
         /\ \/ toBl' \in {toBl, CurFrame}
            \/ \E c \in {"aa", "at", "atbl", "info"} : toBl' = Bare(c)
BY OtherFrames DEF HostStep, OperatorUpgrade, Begin, Triggered, SeeWait, NoBanner, Send,
   ReadAnswer, Timeout, Answered, RequestUpgrade, AskInfo

LEMMA AboveStep ==
  ASSUME BasesAboveSector0, Base, Above, Next
  PROVE  Above'
<1>0. SessionTypeOK /\ TypeOK
  BY DEF Base, SessionTypeOK
<1>1. CASE BlStep
  BY <1>0, <1>1, BlStepAbove
<1>2. CASE WindowTimeout
  BY <1>2 DEF WindowTimeout, WindowExpire, Above
<1>3. CASE HostStep \/ OperatorUpgrade
  <2>1. job' = job
    BY <1>3, HostTouches DEF devVars
  <2>2. Aimed(toBl'.cmd, toBl'.addr, toBl'.data, AboveSector0)
    BY <1>0, <1>3, HostTouches, CurFrameAbove, BareAimed DEF Above
  <2> QED BY <2>1, <2>2 DEF Above
<1>4. CASE UserReset
  BY <1>4, ResetAbove DEF UserReset
<1> QED BY <1>1, <1>2, <1>3, <1>4 DEF Next, Step

LEMMA UpgradingStep ==
  ASSUME Base, Upgrading, Next
  PROVE  Upgrading'
<1>0. TypeOK /\ Control
  BY DEF Base, SessionTypeOK
<1>1. CASE BlStep
  BY <1>0, <1>1, BlStepUpgrading
<1>2. CASE WindowTimeout
  BY <1>2, UpgradingKept DEF WindowTimeout, WindowExpire, BootApp
<1>3. CASE HostStep \/ OperatorUpgrade
  BY <1>3, HostTouches, UpgradingKept DEF devVars
<1>4. CASE UserReset
  BY <1>0, <1>4, ResetKeepsMark DEF UserReset
<1> QED BY <1>1, <1>2, <1>3, <1>4 DEF Next, Step

\* With the tool at the other end of the line all that is left to assume is that
\* --addr does not name sector 0, which the tool does not check
\* (scripts/ota_host.py:129,140): only the self-upgrade changes sector 0, over
\* any number of runs and resets.
THEOREM ToolSparesSector0 ==
  ASSUME BasesAboveSector0
  PROVE  Spec => OnlyUpgradeTouchesSector0
<1>1. Inv /\ Above /\ [Next]_vars => Above'
  <2>1. Above /\ UNCHANGED vars => Above'
    BY DEF vars, blVars, devVars, Above
  <2> QED BY <2>1, AboveStep DEF Inv, Base
<1>2. Inv /\ Above /\ [Next]_vars
      => [ mode # "upgrade" => \A c \in BlCells : mem'[c] = mem[c] ]_blVars
  <2> SUFFICES ASSUME Inv, Above, [Next]_vars, mode # "upgrade",
                      NEW c \in BlCells
               PROVE  mem'[c] = mem[c]
    OBVIOUS
  <2>0. TypeOK /\ Control
    BY DEF Inv, SessionTypeOK
  <2>1. CASE BlStep \/ UserReset
    BY <2>0, <2>1, Sector0Step DEF UserReset
  <2>2. CASE WindowTimeout \/ HostStep \/ OperatorUpgrade \/ UNCHANGED vars
    BY <2>2, HostTouches DEF WindowTimeout, WindowExpire, devVars, vars, blVars
  <2> QED BY <2>1, <2>2 DEF Next, Step
<1>3. Inv /\ [Next]_vars => Inv'
  BY NextInv, StutterInv
<1>4. SessionInit => Above
  BY AboveInit DEF SessionInit
<1> QED
  BY <1>1, <1>2, <1>3, <1>4, InitInv, PTL DEF Spec, OnlyUpgradeTouchesSector0

\* The file is in BL_TEMP, the mark says that sector 0 has what is there.
LEMMA MarkedIsTheFile == Inv /\ UpgradedMeansCopied => InstalledIsTheFile
<1> SUFFICES ASSUME Inv, UpgradedMeansCopied, bkp = "UPGRADED_OK", Flashed,
                    tool = "flash-bl",
                    NEW i \in 1 .. Len(img), \A j \in 1 .. i : img[j] # Erased
             PROVE  mem[i - 1] = img[i]
  BY DEF InstalledIsTheFile
<1>1. /\ base = BlTemp /\ img = BlImage /\ Len(img) \in Nat
      /\ i <= SectorWords /\ SectorWords \in Nat
  BY SessionAssumption, FlashAssumption DEF Inv, SessionTypeOK, BasesOf, img
<1>2. Programmed(Len(img))
  BY DEF Inv, SessionInv, Finished
<1>3. ASSUME NEW j \in 1 .. i PROVE mem[BlTemp + (j - 1)] = img[j]
  <2>1. j \in 1 .. Len(img) /\ j <= Len(img) /\ BlTemp + (j - 1) = BlTemp + j - 1
    BY <1>1, FileInFlash DEF Inv
  <2> QED BY <1>1, <1>2, <2>1 DEF Programmed
<1>4. i - 1 \in Copied
  <2>1. i - 1 \in BlCells
    BY <1>1 DEF BlCells
  <2>2. ASSUME NEW d \in 0 .. (i - 1) PROVE mem[BlTemp + d] # Erased
    <3>1. d + 1 \in 1 .. i /\ (d + 1) - 1 = d
      BY <1>1
    <3> QED BY <1>3, <3>1
  <2> QED BY <2>1, <2>2 DEF Copied
<1>5. mem[i - 1] = mem[BlTemp + (i - 1)]
  BY <1>4 DEF UpgradedMeansCopied
<1>6. i \in 1 .. i
  BY <1>1
<1> QED BY <1>3, <1>5, <1>6

\* From the tool's report over the application, the register, a reset and the
\* copy in SRAM to the bootloader's own announcement: what is announced as the
\* new bootloader is the file that was given to flash-bl.
THEOREM AnnouncedIsTheFile == Spec => []InstalledIsTheFile
<1>1. Inv /\ Upgrading /\ [Next]_vars => Upgrading'
  <2>1. Upgrading /\ UNCHANGED vars => Upgrading'
    BY UpgradingKept DEF vars, blVars, devVars
  <2> QED BY <2>1, UpgradingStep DEF Inv, Base
<1>2. Inv /\ [Next]_vars => Inv'
  BY NextInv, StutterInv
<1>3. SessionInit => Upgrading
  BY UpgradingInit DEF SessionInit
<1>4. Inv /\ Upgrading => InstalledIsTheFile
  BY MarkedIsTheFile DEF Upgrading
<1> QED BY <1>1, <1>2, <1>3, <1>4, InitInv, PTL DEF Spec

-----------------------------------------------------------------------------
(* What a run may touch. *)

Running == phase \in {"erase", "write", "boot", "blreq"}

\* While a run erases, writes or boots, so is every frame and every command.
Targets ==
  Running => /\ Aimed(toBl.cmd, toBl.addr, toBl.data, Covered)
             /\ Aimed(job.op, job.addr, job.data, Covered)

LEMMA SameCovered ==
  ASSUME tool' = tool, base' = base
  PROVE  Covered' = Covered
BY SameTool DEF Covered

LEMMA WordCovered ==
  ASSUME SessionTypeOK, NEW i \in 1 .. Len(img)
  PROVE  base + i - 1 \in Covered
<1>1. base + i - 1 \in Cells
  BY FileInFlash, FlashSizeNat
<1> QED BY <1>1 DEF Covered

\* The frames the tool sends are aimed at the file.
LEMMA CurFrameAimed ==
  ASSUME SessionTypeOK
  PROVE  Aimed(CurFrame.cmd, CurFrame.addr, CurFrame.data, Covered)
<1>1. CASE phase = "erase"
  <2>1. /\ CurFrame.cmd = "erase" /\ CurFrame.addr = base + idx * SectorWords
        /\ idx \in Nat /\ idx < EraseCount
    BY <1>1, CurFrameFits DEF CurFrame, EraseFrame, Frame, SessionTypeOK
  <2>2. idx * SectorWords \in Nat /\ idx * SectorWords < Len(img)
    BY <2>1, FileInFlash, Widths, StepInside DEF EraseCount
  <2>3. /\ idx * SectorWords + 1 \in 1 .. Len(img)
        /\ base + (idx * SectorWords + 1) - 1 = base + idx * SectorWords
    BY <2>2, FileInFlash
  <2>4. SectorCells(CurFrame.addr) \subseteq Covered
    BY <2>1, <2>3 DEF SectorCells, Covered
  <2> QED BY <2>1, <2>4 DEF Aimed
<1>2. CASE phase = "write"
  <2> DEFINE lo == idx * WordsPerPkt
             n  == Len(WriteFrame(idx).data)
  <2>1. CurFrame = WriteFrame(idx) /\ idx \in Nat /\ idx < BatchCount
    BY <1>2 DEF CurFrame, SessionTypeOK
  <2>2. /\ CurFrame.cmd = "write" /\ CurFrame.addr = base + lo
        /\ lo \in Nat /\ lo < Len(img)
        /\ n = SmallerOf((idx + 1) * WordsPerPkt, Len(img)) - lo
    BY <2>1, WriteFrameFits, FileInFlash, Widths, StepInside DEF BatchCount
  <2>3. (idx + 1) * WordsPerPkt = lo + WordsPerPkt
    BY <2>1, Widths
  <2> HIDE DEF lo, n
  <2>4. n \in Nat /\ lo + n <= Len(img)
    BY <2>2, <2>3, Widths, FileInFlash DEF SmallerOf
  <2>5. ASSUME NEW j \in 1 .. n PROVE CurFrame.addr + j - 1 \in Covered
    <3>1. lo + j \in 1 .. Len(img)
      BY <2>2, <2>4, FileInFlash
    <3>2. base + (lo + j) - 1 = CurFrame.addr + j - 1
      BY <2>2, FileInFlash
    <3> QED BY <3>1, <3>2, WordCovered
  <2> QED BY <2>1, <2>2, <2>5 DEF Aimed, n
<1>3. CASE phase \notin {"erase", "write"}
  BY <1>3, CurFrameFits DEF Aimed
<1> QED BY <1>1, <1>2, <1>3

LEMMA TargetsStep ==
  ASSUME Inv, Targets, Next
  PROVE  Targets'
<1>0. SessionTypeOK /\ TypeOK /\ Connecting
  BY DEF Inv, SessionInv, SessionTypeOK
<1>1. CASE BlStep /\ UNCHANGED hostVars
  BY <1>0, <1>1, BlStepAimed, SameHost, SameCovered DEF Targets, Running
<1>2. CASE WindowTimeout
  <2>1. UNCHANGED hostVars /\ toBl' = toBl /\ job' = job
    BY <1>2 DEF WindowTimeout, WindowExpire
  <2> QED BY <2>1, SameHost, SameCovered DEF Targets, Running
<1>3. CASE HostStep
  <2>1. CASE (\E t \in Tools : Begin(t)) \/ NoBanner \/ RequestUpgrade \/ AskInfo
    BY <2>1 DEF Begin, NoBanner, RequestUpgrade, AskInfo, Targets, Running
  <2>2. CASE Triggered \/ SeeWait
    <3>1. NoCommand /\ job' = job /\ toBl' = StartByte
      BY <1>0, <2>2 DEF Triggered, SeeWait, Connecting, BlQuiet, NoCommand, NoJob, Job,
                        devVars
    <3>2. toBl'.cmd = "aa"
      BY <3>1, OtherFrames
    <3> QED BY <3>1, <3>2 DEF Targets, Aimed, NoCommand
  <2>3. CASE Send
    <3>1. /\ UNCHANGED <<tool, base, phase>> /\ Running /\ job' = job /\ toBl' = CurFrame
      BY <2>3 DEF Send, Running, devVars
    <3> QED BY <1>0, <3>1, CurFrameAimed, SameCovered DEF Targets
  <2>4. CASE ReadAnswer \/ Timeout
    <3>1. PICK s : Answered(s)
      BY <2>4 DEF ReadAnswer, Timeout
    <3>2. tool' = tool /\ base' = base /\ job' = job /\ toBl' = toBl /\ Running
      BY <3>1 DEF Answered, devVars, Running, EraseAnswer, WriteAnswer, BootAnswer
    <3> QED BY <3>2, SameCovered DEF Targets
  <2> QED BY <1>3, <2>1, <2>2, <2>3, <2>4 DEF HostStep
<1>4. CASE UserReset \/ OperatorUpgrade
  BY <1>4 DEF UserReset, OperatorUpgrade, hostVars, Idle, Targets, Running
<1> QED BY <1>1, <1>2, <1>3, <1>4 DEF Next, Step

\* Neither the rounding of the sector count, nor the last batch, nor a command
\* of an earlier request that is still being carried out reaches a word outside
\* the sectors of the file.
THEOREM FileSectorsOnly == Spec => OnlyFileSectorsTouched
<1>1. SessionInit => Targets
  BY DEF SessionInit, HostInit, Targets, Running
<1>2. Inv /\ Targets /\ [Next]_vars => Targets'
  <2>1. Targets /\ UNCHANGED vars => Targets'
    BY SameCovered DEF vars, blVars, devVars, hostVars, Targets, Running
  <2> QED BY <2>1, TargetsStep
<1>3. Inv /\ Targets /\ [Next]_vars
        => [ mode # "upgrade" /\ phase \in {"erase", "write", "boot", "blreq"}
             => \A c \in Cells \ Covered : mem'[c] = mem[c] ]_vars
  <2> SUFFICES ASSUME Inv, Targets, Next, mode # "upgrade", Running,
                      NEW c \in Cells \ Covered
               PROVE  mem'[c] = mem[c]
    BY DEF Running
  <2>1. CASE BlStep
    BY <2>1, CommandWithin DEF Inv, SessionTypeOK, Targets
  <2>2. CASE ~BlStep
    <3>1. mem' = mem
      BY <2>2 DEF Next, Step, WindowTimeout, WindowExpire, HostStep, Begin, Triggered,
         SeeWait, NoBanner, Send, ReadAnswer, Timeout, Answered, RequestUpgrade, AskInfo,
         UserReset, OperatorUpgrade, Running, devVars
    <3> QED BY <3>1
  <2> QED BY <2>1, <2>2
<1>4. Inv /\ [Next]_vars => Inv'
  BY NextInv, StutterInv
<1> QED BY <1>1, <1>2, <1>3, <1>4, InitInv, PTL DEF Spec, OnlyFileSectorsTouched

-----------------------------------------------------------------------------
(* Runs that meet no fault of their own. *)

Talking == phase \in {"erase", "write", "boot", "blreq", "info"}

Roles ==
  /\ phase = "trigger" => tool = "auto"
  /\ phase = "connect" => tool # "auto" /\ ~err
  /\ Talking => toBl.cmd \notin Texts

\* No frame reaches a board that boots, except the AT+OTA of the auto command.
Resting ==
  calm => /\ Booting => /\ ~Talking
                        /\ phase = "trigger" \/ (toBl = NoFrame /\ rx = "idle")
          /\ mode = "window" /\ rx = "stray" => phase = "trigger"

\* The window whose banner the tool has seen is still open, and empty.
Heard == calm /\ banner => mode = "window" /\ rx = "idle"

\* The file's cells in the first n of the sectors it begins in are erased.
ErasedBelow(n) ==
  \A i \in 1 .. Len(img) :
    SectorOf(base + i - 1) < SectorOf(base) + n => mem[base + i - 1] = Erased

\* Every word of the file can still be programmed, or is.
Writable == \A i \in 1 .. Len(img) : Programmable(mem, base + i - 1, img[i])

Serving == calm /\ tool # "auto" /\ Fits /\ phase \in {"erase", "write"}

\* The board listens, and every request so far was answered 0.
Served ==
  Serving =>
    /\ ~err /\ rx = "idle"
    /\ toBl = StartByte => mode = "window"
    /\ toBl # StartByte => mode = "xcp"
    /\ toBl = NoFrame /\ waiting /\ NoCommand => toHost = <<0>>
    /\ phase = "erase" => ErasedBelow(idx)
    /\ phase = "erase" /\ toHost = <<0>> => ErasedBelow(idx + 1)
    /\ phase = "write" => Writable

\* A run that failed all the same found a board without a bootloader.
GivenUp ==
  calm /\ tool # "auto" /\ Fits /\ phase = "failed" => mode = "hang" /\ ~BlRunnable(mem)

Undisturbed == Rested /\ Roles /\ Resting /\ Heard /\ Served /\ GivenUp

-----------------------------------------------------------------------------
(* What erasing and writing do to the cells of the file. *)

\* Before the first erase.
LEMMA NothingErased ==
  ASSUME SessionTypeOK
  PROVE  ErasedBelow(0)
<1> SUFFICES ASSUME NEW i \in 1 .. Len(img)
             PROVE  ~(SectorOf(base + i - 1) < SectorOf(base) + 0)
  BY DEF ErasedBelow
<1>1. base \in Nat /\ base + i - 1 \in Nat /\ base <= base + i - 1
  BY FileInFlash
<1>2. SectorOf(base) <= SectorOf(base + i - 1)
      /\ SectorOf(base) \in Nat /\ SectorOf(base + i - 1) \in Nat
  BY <1>1, SectorNumbers
<1> QED BY <1>2

\* One more sector.
LEMMA EraseErases ==
  ASSUME SessionTypeOK, ErasedBelow(idx),
         mem' = Fill(mem, SectorCells(base + idx * SectorWords), Erased),
         NEW i \in 1 .. Len(img), SectorOf(base + i - 1) < SectorOf(base) + (idx + 1)
  PROVE  mem'[base + i - 1] = Erased
<1>1. idx \in Nat /\ base \in Nat /\ base + i - 1 \in Nat
  BY FileInFlash DEF SessionTypeOK
<1>2. base + i - 1 \in Cells
  BY FileInFlash, FlashSizeNat
<1>3. /\ SectorOf(base) \in Nat /\ SectorOf(base + i - 1) \in Nat
      /\ SectorOf(base + idx * SectorWords) = SectorOf(base) + idx
  BY <1>1, SectorNumbers
<1>4. CASE SectorOf(base + i - 1) < SectorOf(base) + idx
  <2>1. mem[base + i - 1] = Erased
    BY <1>4 DEF ErasedBelow
  <2> QED BY <1>2, <2>1 DEF Fill
<1>5. CASE SectorOf(base + i - 1) = SectorOf(base) + idx
  <2>1. base + i - 1 \in SectorCells(base + idx * SectorWords)
    BY <1>2, <1>3, <1>5 DEF SectorCells
  <2> QED BY <1>2, <2>1 DEF Fill
<1> QED BY <1>1, <1>3, <1>4, <1>5

\* A file that fits lies in the sectors that are erased for it.
LEMMA AllErased ==
  ASSUME SessionTypeOK, Fits, ErasedBelow(EraseCount), NEW i \in 1 .. Len(img)
  PROVE  mem[base + i - 1] = Erased
<1>1. /\ base + i - 1 \in Nat /\ base + Len(img) - 1 \in Nat
      /\ base + i - 1 <= base + Len(img) - 1
  BY FileInFlash
<1>2. SectorOf(base + i - 1) <= SectorOf(base + Len(img) - 1)
      /\ SectorOf(base + i - 1) \in Nat /\ SectorOf(base + Len(img) - 1) \in Nat
  BY <1>1, SectorNumbers
<1>3. SectorOf(base) \in Nat /\ EraseCount \in Nat
  BY FileInFlash, SectorNumbers, RoundUp, Widths DEF EraseCount
<1>4. SectorOf(base + i - 1) < SectorOf(base) + EraseCount
  BY <1>2, <1>3 DEF Fits
<1> QED BY <1>4 DEF ErasedBelow

\* An erase of a sector of the file leaves the bootloader alone, and is answered.
LEMMA EraseAnswers ==
  ASSUME Base, Fits, EraseDone, job.addr = base + idx * SectorWords, phase = "erase"
  PROVE  Ack(0) /\ mode' = mode
<1>1. SessionTypeOK /\ mem \in Memory
  BY DEF Base, SessionTypeOK, TypeOK
<1>2. job.addr \in Cells /\ job.addr >= AppBase
  <2>1. job.addr = EraseFrame(idx).addr /\ EraseFrame(idx) \in Frames
    BY <1>1, EraseFrameFits DEF SessionTypeOK, EraseFrame, Frame
  <2>2. idx * SectorWords \in Nat /\ base \in Nat
    BY <1>1, FileInFlash, Widths DEF SessionTypeOK
  <2> QED BY <2>1, <2>2, Widths DEF Fits, AppBase, Frames
<1>3. \A c \in BlCells : Fill(mem, SectorCells(job.addr), Erased)[c] = mem[c]
  BY <1>2, SectorsApart, AppBaseInFlash DEF Fill
<1> QED BY <1>3, BoundsAssumption DEF EraseDone, Answer

\* The word being written is the file's, and can be programmed; what follows it
\* is left as it is.
LEMMA WriteWrites ==
  ASSUME Base, SessionTypeOK, phase = "write", Working, Writable, job.pos < Len(job.data)
  PROVE  /\ Programmable(mem, WriteCell, WriteWord)
         /\ \A i \in 1 .. Len(img) :
              [mem EXCEPT ![WriteCell] = WriteWord][base + i - 1] \in {Erased, img[i]}
<1> DEFINE lo == idx * WordsPerPkt
           j  == lo + job.pos + 1
<1>1. /\ idx \in Nat /\ idx < BatchCount /\ CurFrame = WriteFrame(idx)
      /\ job.pos \in Nat /\ mem \in Memory
  BY DEF Base, SessionTypeOK, TypeOK, Jobs, CurFrame
<1>2. /\ lo \in Nat /\ job.addr = base + lo /\ job.data = WriteFrame(idx).data
      /\ Len(job.data) = SmallerOf((idx + 1) * WordsPerPkt, Len(img)) - lo
      /\ \A n \in 1 .. Len(job.data) : job.data[n] = img[lo + n]
  BY <1>1, WriteFrameFits DEF Working
<1>3. (idx + 1) * WordsPerPkt \in Nat /\ Len(img) \in Nat /\ base \in Nat
  BY <1>1, Widths, FileInFlash
<1> HIDE DEF lo
<1>4. Len(job.data) \in Int /\ lo + Len(job.data) <= Len(img)
  BY <1>2, <1>3 DEF SmallerOf
<1>5. /\ lo \in Nat /\ job.pos \in Nat /\ base \in Nat /\ Len(img) \in Nat
      /\ job.addr = base + lo
  BY <1>1, <1>2, <1>3
<1>6. WriteWord = img[j] /\ WriteCell = base + j - 1 /\ j \in 1 .. Len(img)
  <2>1. job.pos + 1 \in 1 .. Len(job.data)
    BY <1>4, <1>5
  <2>2. job.data[job.pos + 1] = img[lo + (job.pos + 1)]
    BY <1>2, <2>1
  <2>3. j = lo + (job.pos + 1) /\ j \in 1 .. Len(img) /\ base + lo + job.pos = base + j - 1
    BY <1>4, <1>5
  <2> QED BY <1>5, <2>2, <2>3 DEF WriteWord, WriteCell
<1> HIDE DEF j
<1>7. Programmable(mem, WriteCell, WriteWord)
  BY <1>6 DEF Writable
<1>8. ASSUME NEW i \in 1 .. Len(img)
      PROVE  [mem EXCEPT ![WriteCell] = WriteWord][base + i - 1] \in {Erased, img[i]}
  <2>1. base + i - 1 \in Cells /\ mem[base + i - 1] \in {Erased, img[i]}
    BY FileInFlash, FlashSizeNat DEF Writable, Programmable
  <2>2. base + i - 1 = WriteCell => i = j
    BY <1>5, <1>6
  <2> QED BY <1>1, <1>6, <2>1, <2>2 DEF Memory
<1> QED BY <1>7, <1>8

-----------------------------------------------------------------------------
(* A run without a fault: steps of the board. *)

\* What waits in XCP mode and is not carrying out a command, listens.
LEMMA ListensInXcp ==
  ASSUME Base, Rested, mode = "xcp", NoCommand, rx = "idle"
  PROVE  Listening
<1>1. job.op = "none"
  BY DEF Base, SessionTypeOK, TypeOK, Jobs, Ops, Control, JobMode, NoCommand
<1> QED BY <1>1 DEF Rested, Listening

LEMMA BoardServed ==
  ASSUME Inv, Rested, Serving, Served, BlStep, UNCHANGED hostVars, faults' = faults
  PROVE  Served'
<1>0. /\ Base /\ SessionTypeOK /\ TypeOK /\ Control /\ OneRequest /\ Clean
      /\ ~err /\ rx = "idle"
      /\ CurFrame.cmd \in {"erase", "write"} /\ CurFrame.cmd \in XcpCmds
  BY CleanFrame DEF Inv, Base, SessionInv, SessionTypeOK, Serving, Served, Clean
<1>1. /\ NoFrame.cmd = "none" /\ StartByte.cmd = "aa"
      /\ NoFrame # StartByte /\ CurFrame # StartByte /\ CurFrame # NoFrame
  BY <1>0, OtherFrames
<1> SUFFICES /\ rx' = "idle"
             /\ toBl' # StartByte /\ mode' = "xcp"
             /\ toBl' = NoFrame /\ waiting /\ NoCommand' => toHost' = <<0>>
             /\ phase = "erase" => \A i \in 1 .. Len(img) :
                  SectorOf(base + i - 1) < SectorOf(base) + idx
                    => mem'[base + i - 1] = Erased
             /\ phase = "erase" /\ toHost' = <<0>> => \A i \in 1 .. Len(img) :
                  SectorOf(base + i - 1) < SectorOf(base) + (idx + 1)
                    => mem'[base + i - 1] = Erased
             /\ phase = "write" => \A i \in 1 .. Len(img) :
                  mem'[base + i - 1] \in {Erased, img[i]}
  BY <1>0, SameHost DEF Served, ErasedBelow, Writable, Programmable
<1>2. /\ phase = "erase" => ErasedBelow(idx)
      /\ phase = "erase" /\ toHost = <<0>> => ErasedBelow(idx + 1)
      /\ phase = "write" => Writable
  BY DEF Served
<1>3. CASE mem' = mem /\ toHost' = toHost /\ rx' = "idle"
           /\ toBl' # StartByte /\ mode' = "xcp"
           /\ (toBl' = NoFrame /\ waiting => ~NoCommand')
  BY <1>2, <1>3 DEF ErasedBelow, Writable, Programmable
<1>4. CASE toBl = StartByte
  <2>1. mode = "window" /\ ~waiting
    BY <1>0, <1>1, <1>4 DEF Served, OneRequest, Sent, Working, Answering, Lost
  <2>2. WindowByte
    BY <1>0, <2>1, CalmSteps DEF WindowPending
  <2>3. mem' = mem /\ toHost' = toHost /\ rx' = "idle" /\ toBl' = NoFrame /\ mode' = "xcp"
    BY <1>1, <1>4, <2>2 DEF WindowByte, XcpCmds
  <2> QED BY <1>1, <1>3, <2>1, <2>3
<1>5. CASE toBl # StartByte /\ NoCommand /\ toBl = NoFrame
  <2>1. Listening
    BY <1>0, <1>5, ListensInXcp DEF Served
  <2> QED BY <1>0, <1>5, <2>1, CalmListening
<1>6. CASE waiting /\ Sent
  <2>1. Listening
    BY <1>0, <1>1, <1>6, ListensInXcp DEF Served, Sent
  <2>2. Receive
    BY <1>0, <1>6, <2>1, CalmListening DEF Sent
  <2>3. /\ mem' = mem /\ toHost' = toHost /\ rx' = rx /\ mode' = mode
        /\ toBl' = NoFrame /\ job'.op = CurFrame.cmd
    BY <1>0, <1>6, <2>2 DEF Receive, Dispatch, Sent, Job
  <2> QED BY <1>0, <1>1, <1>3, <2>1, <2>3 DEF NoCommand, Listening
<1>7. CASE waiting /\ Working
  <2>1. /\ toBl = NoFrame /\ mode = "xcp" /\ toHost = <<>>
        /\ job.op = "erase" <=> phase = "erase"
        /\ job.op \in {"erase", "write"}
    BY <1>0, <1>1, <1>7, CleanFrame DEF Working, Served
  <2>2. 0 < MaxAcks /\ Len(<<>>) = 0
    BY BoundsAssumption
  <2>3. CASE phase = "erase"
    <3>1. EraseDone
      BY <1>0, <2>1, <2>3, CalmCommand
    <3>2. job.addr = base + idx * SectorWords
      BY <1>7, <2>3 DEF Working, CurFrame, EraseFrame, Frame
    <3>3. /\ mem' = Fill(mem, SectorCells(job.addr), Erased)
          /\ toHost' = <<0>> /\ UNCHANGED <<mode, rx, toBl>>
      BY <1>0, <2>1, <2>2, <2>3, <3>1, <3>2, EraseAnswers DEF EraseDone, Answer, Ack, Serving
    <3>4. \A i \in 1 .. Len(img) : SectorOf(base + i - 1) < SectorOf(base) + (idx + 1)
            => mem'[base + i - 1] = Erased
      BY <1>0, <1>2, <2>3, <3>2, <3>3, EraseErases
    <3>5. \A i \in 1 .. Len(img) : SectorOf(base + i - 1) < SectorOf(base) + idx
            => SectorOf(base + i - 1) < SectorOf(base) + (idx + 1)
      <4> SUFFICES ASSUME NEW i \in 1 .. Len(img),
                          SectorOf(base + i - 1) < SectorOf(base) + idx
                   PROVE  SectorOf(base + i - 1) < SectorOf(base) + (idx + 1)
        OBVIOUS
      <4>1. base \in Nat /\ base + i - 1 \in Nat /\ idx \in Nat
        BY <1>0, FileInFlash DEF SessionTypeOK
      <4>2. SectorOf(base) \in Nat /\ SectorOf(base + i - 1) \in Nat
        BY <4>1, SectorNumbers
      <4> QED BY <4>1, <4>2
    <3> QED BY <1>0, <1>1, <2>1, <2>3, <3>3, <3>4, <3>5
  <2>4. CASE phase = "write"
    <3>1. WriteStep \/ WriteFail \/ WriteDone
      BY <1>0, <2>1, <2>4, CalmCommand
    <3>2. ~WriteFail
      <4> SUFFICES ASSUME WriteFail PROVE FALSE
        OBVIOUS
      <4>1. ~Programmable(mem, WriteCell, WriteWord) /\ job.pos < Len(job.data)
        BY <1>0, CalmSteps DEF WriteFail
      <4> QED BY <1>0, <1>2, <1>7, <2>4, <4>1, WriteWrites
    <3>3. CASE WriteStep
      <4>1. /\ job.pos < Len(job.data) /\ mem' = [mem EXCEPT ![WriteCell] = WriteWord]
            /\ job'.op = job.op /\ UNCHANGED <<mode, rx, toBl, toHost>>
        BY <1>0, <3>3 DEF WriteStep, TypeOK, Jobs
      <4>2. \A i \in 1 .. Len(img) : mem'[base + i - 1] \in {Erased, img[i]}
        BY <1>0, <1>2, <1>7, <2>4, <4>1, WriteWrites
      <4> QED BY <1>0, <1>1, <2>1, <2>4, <4>1, <4>2 DEF NoCommand
    <3>4. CASE WriteDone
      <4>1. toHost' = <<0>> /\ UNCHANGED <<mem, mode, rx, toBl>>
        BY <2>1, <2>2, <3>4 DEF WriteDone, Ack
      <4> QED BY <1>0, <1>1, <1>2, <2>1, <2>4, <4>1 DEF Writable, Programmable
    <3> QED BY <3>1, <3>2, <3>3, <3>4
  <2> QED BY <2>3, <2>4 DEF Serving
<1>8. toBl # StartByte /\ toBl # NoFrame => waiting /\ Sent
  BY <1>0 DEF OneRequest, Working, Answering, Lost
<1>9. toBl = NoFrame /\ ~NoCommand => waiting /\ Working
  BY <1>0 DEF OneRequest, Sent, Answering, Lost
<1> QED BY <1>4, <1>5, <1>6, <1>7, <1>8, <1>9

LEMMA BoardUndisturbed ==
  ASSUME Inv, Undisturbed, History, BlStep, UNCHANGED hostVars, calm, faults' = faults
  PROVE  Resting' /\ Heard' /\ Served' /\ GivenUp'
<1>1. /\ TypeOK /\ Control /\ Connecting /\ Rested
      /\ phase' = phase /\ tool' = tool /\ Fits' = Fits /\ toBl' \in {toBl, NoFrame}
      /\ banner' => phase = "connect" /\ (banner \/ (mode # "window" /\ mode' = "window"))
  BY JobStep, SameHost DEF Inv, SessionInv, SessionTypeOK, Undisturbed, History, Console
<1>2. Resting'
  <2>1. ASSUME Booting'
        PROVE  ~Talking /\ (phase = "trigger" \/ (toBl' = NoFrame /\ rx' = "idle"))
    BY <1>1, <2>1, CalmBooting DEF Undisturbed, Roles, Resting
  <2>2. ASSUME mode' = "window", rx' = "stray"
        PROVE  phase = "trigger"
    BY <1>1, <2>2, CalmBooting DEF Undisturbed, Resting, Booting
  <2> QED BY <1>1, <2>1, <2>2 DEF Resting, Talking
<1>3. Heard'
  <2> SUFFICES ASSUME banner' PROVE mode' = "window" /\ rx' = "idle"
    BY DEF Heard
  <2>1. ~banner
    <3> SUFFICES ASSUME banner PROVE FALSE
      OBVIOUS
    <3>1. mode = "window" /\ rx = "idle" /\ toBl = NoFrame
      BY <1>1 DEF Undisturbed, Heard, Connecting
    <3> QED BY <1>1, <3>1, CalmSteps DEF WindowPending, WindowByte
  <2>2. mode' = "window" /\ mode = "check" /\ rx' = rx /\ phase = "connect"
    BY <1>1, <2>1, CalmBooting
  <2> QED BY <2>2 DEF Undisturbed, Resting, Booting
<1>4. Served'
  <2>1. CASE Serving
    BY <2>1, BoardServed DEF Undisturbed
  <2>2. CASE ~Serving
    BY <1>1, <2>2 DEF Served, Serving
  <2> QED BY <2>1, <2>2
<1>5. GivenUp'
  <2> SUFFICES ASSUME tool # "auto", Fits, phase = "failed"
               PROVE  mode' = "hang" /\ mem' = mem /\ ~BlRunnable(mem)
    BY <1>1 DEF GivenUp, BlRunnable
  <2>1. mode = "hang" /\ ~BlRunnable(mem)
    BY DEF Undisturbed, GivenUp
  <2> QED BY <1>1, <2>1, CalmSteps DEF NotListening
<1> QED BY <1>2, <1>3, <1>4, <1>5

-----------------------------------------------------------------------------
(* A run without a fault: steps of the tool, the operator and the clock. *)

\* The history is calm after a step without a fault, of a run that was calm or
\* has just been started on a board at rest.
LEMMA CalmStep ==
  ASSUME Inv, Next, calm'
  PROVE  faults' = faults /\ ~Fault /\ (calm \/ (BlQuiet /\ \E t \in Tools : Begin(t)))
<1>1. /\ faults' = faults
      /\ calm \/ (Idle /\ phase' \in {"trigger", "connect"} /\ BlQuiet)
  BY Zenon DEF Next, History
<1>2. ~Fault
  <2>1. faults \in Nat
    BY BoundsAssumption DEF Inv, SessionTypeOK, TypeOK
  <2> QED BY <1>1, <2>1 DEF Fault
<1>3. ASSUME Idle, phase' \in {"trigger", "connect"}
      PROVE  \E t \in Tools : Begin(t)
  BY <1>3 DEF Next, Step, WindowTimeout, UserReset, OperatorUpgrade, hostVars, HostStep,
     Triggered, SeeWait, NoBanner, Send, ReadAnswer, Timeout, Answered, EraseAnswer,
     WriteAnswer, BootAnswer, RequestUpgrade, AskInfo, Idle
<1> QED BY <1>1, <1>2, <1>3

LEMMA RolesStep ==
  ASSUME Inv, Roles, Next
  PROVE  Roles'
<1>0. TypeOK /\ SessionTypeOK
  BY DEF Inv, SessionTypeOK
<1>1. ASSUME UNCHANGED hostVars, toBl' \in {toBl, NoFrame} PROVE Roles'
  BY <1>1, OtherFrames DEF hostVars, Roles, Talking, Texts
<1>2. CASE BlStep /\ UNCHANGED hostVars
  BY <1>0, <1>1, <1>2, JobStep
<1>3. CASE WindowTimeout \/ UserReset
  BY <1>1, <1>3 DEF WindowTimeout, WindowExpire, UserReset, Reset
<1>4. CASE OperatorUpgrade
  BY <1>4 DEF OperatorUpgrade, hostVars, Idle, Roles, Talking
<1>5. CASE \E t \in Tools : Begin(t)
  BY <1>5 DEF Begin, Roles, Talking
<1>6. CASE Triggered \/ SeeWait \/ NoBanner \/ RequestUpgrade \/ AskInfo
  BY <1>6, OtherFrames
     DEF Triggered, SeeWait, NoBanner, RequestUpgrade, AskInfo, Roles, Talking, Texts
<1>7. CASE Send
  <2>1. /\ toBl' = CurFrame /\ UNCHANGED <<tool, phase, err>>
        /\ phase \in {"erase", "write", "boot"}
    BY <1>7 DEF Send
  <2>2. CurFrame.cmd \notin Texts
    BY <1>0, CurFrameFits DEF Texts
  <2> QED BY <2>1, <2>2 DEF Roles, Talking
<1>8. CASE ReadAnswer \/ Timeout
  <2>1. PICK s \in Nat : Answered(s)
    <3>1. Head(toHost) \in Nat \/ toHost = <<>>
      BY <1>0 DEF TypeOK, Status
    <3> QED BY <1>8, <3>1 DEF ReadAnswer, Timeout, NoAnswer
  <2>2. phase' \notin {"trigger", "connect", "info"} /\ toBl' = toBl
    BY <1>0, <2>1, AnsweredTypes DEF Answered
  <2>3. phase \in {"erase", "write", "boot"}
    BY <2>1 DEF Answered, EraseAnswer, WriteAnswer, BootAnswer
  <2> QED BY <2>2, <2>3 DEF Roles, Talking
<1> QED BY <1>2, <1>3, <1>4, <1>5, <1>6, <1>7, <1>8 DEF Next, Step, HostStep

\* What the tool does to a board it finds, or leaves, at rest.
LEMMA HostResting ==
  ASSUME Inv, Undisturbed, Next, HostStep, calm'
  PROVE  Resting' /\ Heard'
<1>1. faults' = faults /\ ~Fault /\ UNCHANGED devVars
  BY CalmStep DEF HostStep, Begin, Triggered, SeeWait, NoBanner, Send, ReadAnswer,
     Timeout, Answered, RequestUpgrade, AskInfo
<1>2. Heard'
  <2>1. banner' => phase' = "connect" /\ phase = "connect"
    BY <1>1 DEF Inv, SessionInv, Connecting, Next, History, Console, devVars
  <2>2. ~(phase' = "connect" /\ phase = "connect")
    BY DEF HostStep, Begin, Idle, Triggered, SeeWait, NoBanner, Send, ReadAnswer,
       Timeout, Answered, EraseAnswer, WriteAnswer, BootAnswer, RequestUpgrade, AskInfo
  <2> QED BY <2>1, <2>2 DEF Heard
<1>3. CASE \E t \in Tools : Begin(t)
  <2>1. /\ phase' = "trigger" \/ (phase' = "connect" /\ toBl' = NoFrame)
        /\ Idle /\ UNCHANGED <<mode, rx>>
    BY <1>3 DEF Begin, devVars
  <2>2. /\ Booting => rx = "idle"
        /\ ~(mode = "window" /\ rx = "stray")
    BY <2>1, CalmStep DEF Undisturbed, Resting, Booting, BlQuiet, Idle, Begin
  <2> QED BY <1>2, <2>1, <2>2 DEF Resting, Talking, Booting
<1>4. CASE ~(\E t \in Tools : Begin(t))
  <2>1. calm
    BY <1>4, CalmStep
  <2>2. ~Booting /\ ~(mode = "window" /\ rx = "stray")
    <3>1. CASE Triggered
      BY <3>1 DEF Triggered, BlQuiet, Booting
    <3>2. CASE SeeWait
      BY <2>1, <3>2 DEF SeeWait, Undisturbed, Heard, Booting
    <3>3. CASE NoBanner
      BY <1>1, <3>3 DEF NoBanner, Booting
    <3>4. CASE Talking
      BY <2>1, <3>4 DEF Undisturbed, Resting, Talking
    <3> QED
      BY <1>4, <3>1, <3>2, <3>3, <3>4
         DEF HostStep, Send, ReadAnswer, Timeout, Answered, EraseAnswer, WriteAnswer,
             BootAnswer, RequestUpgrade, AskInfo, Talking
  <2>3. mode' = mode /\ rx' = rx
    BY <1>1 DEF devVars
  <2> QED BY <1>2, <2>2, <2>3 DEF Resting, Booting
<1> QED BY <1>3, <1>4

\* An answer to a run without a fault is the answer 0 to the last request.
LEMMA AnswerServed ==
  ASSUME Inv, Undisturbed, Next, ReadAnswer \/ Timeout, calm'
  PROVE  Served' /\ GivenUp'
<1>1. /\ calm /\ faults' = faults /\ ~Fault
      /\ SessionTypeOK /\ OneRequest /\ Rested
  BY CalmStep DEF Inv, SessionInv, Undisturbed, Begin, ReadAnswer, Timeout, Answered,
     EraseAnswer, WriteAnswer, BootAnswer, Idle
<1>2. PICK s : /\ Answered(s)
               /\ ReadAnswer => toHost # <<>> /\ s = Head(toHost)
               /\ Timeout => toHost = <<>> /\ toBl = NoFrame /\ BlQuiet
  BY <1>1 DEF ReadAnswer, Timeout
<1>3. /\ waiting /\ waiting' = FALSE /\ tool' = tool /\ phase \in {"erase", "write", "boot"}
      /\ UNCHANGED <<mem, mode, rx, job, toBl>>
      /\ img' = img /\ base' = base /\ EraseCount' = EraseCount /\ Fits' = Fits
  BY <1>2, SameTool DEF Answered, EraseAnswer, WriteAnswer, BootAnswer, devVars, Fits
<1>4. CASE ~Serving
  <2>1. tool = "auto" \/ ~Fits \/ phase' = "done"
    BY <1>1, <1>2, <1>3, <1>4 DEF Serving, Answered, EraseAnswer, WriteAnswer, BootAnswer
  <2> QED BY <1>3, <2>1 DEF Served, Serving, GivenUp
<1>5. CASE Serving
  <2>0. /\ Clean /\ err = FALSE /\ rx = "idle"
        /\ toBl = NoFrame /\ waiting /\ NoCommand => toHost = <<0>>
        /\ toBl # StartByte => mode = "xcp"
        /\ phase = "erase" /\ toHost = <<0>> => ErasedBelow(idx + 1)
        /\ phase = "write" => Writable
    BY <1>1, <1>5 DEF Undisturbed, Served, Serving, Clean, SessionTypeOK
  <2>1. ~Timeout
    BY <1>2, <1>3, <2>0 DEF BlQuiet, NoCommand, NoJob, Job
  <2>2. toBl = NoFrame /\ NoCommand /\ toHost = <<0>> /\ toBl # StartByte
    <3>1. Answering
      BY <1>1, <1>2, <1>3, <2>0, <2>1 DEF OneRequest, Sent, Working, Lost
    <3> QED BY <1>3, <2>0, <3>1, OtherFrames DEF Answering
  <2>3. s = 0 /\ toHost' = <<>>
    <3>1. \E n \in 1 .. Len(<<0>>) : toHost' = SubSeq(<<0>>, n + 1, Len(<<0>>))
      BY <2>1, <2>2 DEF ReadAnswer
    <3>2. Len(<<0>>) = 1 /\ SubSeq(<<0>>, 1 + 1, 1) = <<>> /\ Head(<<0>>) = 0
      OBVIOUS
    <3>3. toHost' = <<>>
      BY <3>1, <3>2
    <3> QED BY <1>2, <2>1, <2>2, <3>2, <3>3
  <2>4. CASE phase = "erase"
    <3>1. ErasedBelow(idx + 1)
      BY <2>0, <2>2, <2>4
    <3>2. /\ err' = err
          /\ \/ phase' = "erase" /\ idx' = idx + 1
             \/ phase' = "write" /\ ~(idx + 1 < EraseCount)
      BY <1>2, <2>3, <2>4 DEF Answered, EraseAnswer, WriteAnswer, BootAnswer
    <3>3. CASE phase' = "erase"
      <4>1. ErasedBelow(idx)'
        BY <1>3, <3>1, <3>2, <3>3 DEF ErasedBelow
      <4>2. toBl' = NoFrame /\ mode' = "xcp" /\ rx' = "idle" /\ ~err' /\ toHost' = <<>>
        BY <1>3, <2>0, <2>2, <2>3, <3>2
      <4>3. toHost' # <<0>> /\ toBl' # StartByte
        BY <1>3, <2>2, <4>2
      <4> QED BY <1>3, <3>3, <4>1, <4>2, <4>3 DEF Served, GivenUp
    <3>4. CASE phase' = "write"
      <4>1. idx + 1 = EraseCount
        BY <1>1, <2>4, <3>2, <3>4, RoundUp, FileInFlash, Widths DEF SessionTypeOK, EraseCount
      <4>2. Writable'
        BY <1>1, <1>3, <1>5, <3>1, <4>1, AllErased DEF Serving, Writable, Programmable
      <4>3. toBl' = NoFrame /\ mode' = "xcp" /\ rx' = "idle" /\ ~err' /\ toBl' # StartByte
        BY <1>3, <2>0, <2>2, <3>2
      <4> QED BY <1>3, <3>4, <4>2, <4>3 DEF Served, GivenUp
    <3> QED BY <3>2, <3>3, <3>4
  <2>5. CASE phase = "write"
    <3>1. err' = FALSE /\ phase' \in {"write", "blreq", "boot"}
      BY <1>2, <2>0, <2>3, <2>5 DEF Answered, EraseAnswer, WriteAnswer, BootAnswer
    <3>2. Writable'
      BY <1>3, <2>0, <2>5 DEF Writable, Programmable
    <3>3. toBl' = NoFrame /\ mode' = "xcp" /\ rx' = "idle" /\ toBl' # StartByte
      BY <1>3, <2>0, <2>2
    <3> QED BY <1>3, <3>1, <3>2, <3>3 DEF Served, Serving, GivenUp
  <2> QED BY <1>5, <2>4, <2>5 DEF Serving
<1> QED BY <1>4, <1>5

LEMMA HostUndisturbed ==
  ASSUME Inv, Undisturbed, Next, HostStep, calm'
  PROVE  Resting' /\ Heard' /\ Served' /\ GivenUp'
<1>0. Resting' /\ Heard' /\ faults' = faults /\ ~Fault
  BY HostResting, CalmStep
<1>1. CASE \E t \in Tools : Begin(t)
  BY <1>0, <1>1 DEF Begin, Served, Serving, GivenUp
<1>2. CASE Triggered
  BY <1>0, <1>2 DEF Triggered, Undisturbed, Roles, Served, Serving, GivenUp
<1>3. CASE SeeWait
  <2>1. calm
    BY <1>3, CalmStep DEF SeeWait, Begin, Idle
  <2>2. /\ tool' = tool /\ idx' = 0 /\ ~err' /\ phase' \in {"boot", "info", "erase"}
        /\ toBl' = StartByte /\ toHost' = <<>> /\ mode' = "window" /\ rx' = "idle"
    BY <1>3, <2>1
       DEF SeeWait, Undisturbed, Roles, Heard, Inv, SessionTypeOK, devVars
  <2>3. StartByte # NoFrame /\ <<>> # <<0>>
    BY OtherFrames
  <2>4. ErasedBelow(0)'
    <3>1. UNCHANGED <<mem, tool, base>> /\ ErasedBelow(0)
      BY <1>3, NothingErased DEF SeeWait, devVars, Inv
    <3> QED BY <3>1, SameTool DEF ErasedBelow
  <2> QED BY <1>0, <2>2, <2>3, <2>4 DEF Served, Serving, GivenUp
<1>4. CASE NoBanner
  BY <1>0, <1>4 DEF NoBanner, devVars, Served, Serving, GivenUp, BlRunnable
<1>5. CASE Send
  <2>1. /\ UNCHANGED <<mem, mode, rx, toHost, tool, base, phase, idx, err>> /\ waiting' = TRUE
        /\ toBl = NoFrame /\ toBl' = CurFrame /\ phase \in {"erase", "write", "boot"}
    BY <1>5 DEF Send, devVars
  <2>2. CASE Serving
    <3>1. /\ ~err /\ rx = "idle" /\ mode = "xcp"
          /\ phase = "erase" => ErasedBelow(idx)
          /\ phase = "erase" /\ toHost = <<0>> => ErasedBelow(idx + 1)
          /\ phase = "write" => Writable
      BY <2>1, <2>2, OtherFrames DEF Undisturbed, Served
    <3>2. CurFrame # StartByte /\ CurFrame # NoFrame
      BY <2>1, CurFrameFits, OtherFrames DEF Inv
    <3>3. /\ phase = "erase" => ErasedBelow(idx)'
          /\ phase = "erase" /\ toHost = <<0>> => ErasedBelow(idx + 1)'
          /\ phase = "write" => Writable'
      BY <2>1, <3>1, SameTool DEF ErasedBelow, Writable, Programmable
    <3> QED BY <1>0, <2>1, <3>1, <3>2, <3>3 DEF Served, GivenUp
  <2>3. CASE ~Serving
    <3>1. calm /\ Fits' = Fits
      BY <1>5, <2>1, CalmStep, SameTool DEF Send, Begin, Idle, Fits
    <3> QED BY <1>0, <2>1, <2>3, <3>1 DEF Served, Serving, GivenUp
  <2> QED BY <2>2, <2>3
<1>6. CASE ReadAnswer \/ Timeout
  BY <1>0, <1>6, AnswerServed
<1>7. CASE RequestUpgrade \/ AskInfo
  BY <1>0, <1>7 DEF RequestUpgrade, AskInfo, Served, Serving, GivenUp
<1> QED BY <1>1, <1>2, <1>3, <1>4, <1>5, <1>6, <1>7 DEF HostStep

LEMMA OthersUndisturbed ==
  ASSUME Inv, Undisturbed, Next, WindowTimeout \/ UserReset \/ OperatorUpgrade, calm'
  PROVE  Resting' /\ Heard' /\ Served' /\ GivenUp'
<1>0. UNCHANGED hostVars /\ Fits' = Fits
  BY SameHost DEF WindowTimeout, UserReset, OperatorUpgrade
<1>1. /\ calm /\ faults' = faults /\ ~Fault /\ Connecting
      /\ UNCHANGED <<tool, base, phase, idx, waiting, err>>
      /\ banner' => phase = "connect" /\ (banner \/ (mode # "window" /\ mode' = "window"))
  BY CalmStep DEF Begin, Idle, WindowTimeout, UserReset, OperatorUpgrade, hostVars,
                  Inv, SessionInv, Next, History, Console
<1>2. CASE WindowTimeout
  <2>1. /\ mode = "window" /\ mode' \in {"app", "xcp"} /\ toBl = NoFrame /\ ~banner
    BY <1>1, <1>2 DEF WindowTimeout, WindowExpire, BootApp
  <2>2. ~Serving /\ ~(tool # "auto" /\ Fits /\ phase = "failed")
    BY <1>1, <2>1, OtherFrames DEF Undisturbed, Served, GivenUp
  <2> QED BY <1>0, <1>1, <2>1, <2>2 DEF Resting, Booting, Heard, Served, Serving, GivenUp
<1>3. CASE UserReset
  <2>1. phase = "connect" /\ ~banner /\ mode' = "reset" /\ rx' = "idle"
        /\ toBl' = NoFrame
    BY <1>1, <1>3 DEF UserReset, Reset, Restart, Connecting
  <2> QED BY <1>1, <2>1 DEF Resting, Talking, Heard, Served, Serving, GivenUp
<1>4. CASE OperatorUpgrade
  <2>1. Idle /\ mode = "app" /\ mode' = "app"
    BY <1>4 DEF OperatorUpgrade, devVars
  <2>2. ~(tool # "auto" /\ Fits /\ phase = "failed")
    BY <1>1, <2>1 DEF Undisturbed, GivenUp
  <2> QED BY <1>0, <1>1, <2>1, <2>2 DEF Idle, Resting, Booting, Heard, Served, Serving, GivenUp
<1> QED BY <1>2, <1>3, <1>4

LEMMA UndisturbedStep ==
  ASSUME Inv, Undisturbed, Next
  PROVE  Undisturbed'
<1>1. Roles'
  BY RolesStep DEF Undisturbed
<1>2. Rested'
  <2>1. CASE BlStep
    BY <2>1, BlStepRested DEF Inv, SessionTypeOK, Undisturbed
  <2>2. CASE UserReset
    BY <2>2, RestedReset DEF UserReset
  <2>3. CASE HostStep \/ WindowTimeout \/ OperatorUpgrade
    <3>1. job' = job
      BY <2>3 DEF HostStep, Begin, Triggered, SeeWait, NoBanner, Send, ReadAnswer, Timeout,
         Answered, RequestUpgrade, AskInfo, WindowTimeout, WindowExpire, OperatorUpgrade,
         devVars
    <3> QED BY <3>1 DEF Undisturbed, Rested
  <2> QED BY <2>1, <2>2, <2>3 DEF Next, Step
<1>3. calm' => Resting' /\ Heard' /\ Served' /\ GivenUp'
  <2> SUFFICES ASSUME calm' PROVE Resting' /\ Heard' /\ Served' /\ GivenUp'
    OBVIOUS
  <2>1. CASE BlStep /\ UNCHANGED hostVars
    <3>1. calm /\ faults' = faults
      BY <2>1, CalmStep DEF Begin, Idle, hostVars
    <3> QED BY <2>1, <3>1, BoardUndisturbed DEF Next
  <2>2. CASE HostStep
    BY <2>2, HostUndisturbed
  <2>3. CASE WindowTimeout \/ UserReset \/ OperatorUpgrade
    BY <2>3, OthersUndisturbed
  <2> QED BY <2>1, <2>2, <2>3 DEF Next, Step
<1>4. ~calm' => Resting' /\ Heard' /\ Served' /\ GivenUp'
  BY DEF Resting, Heard, Served, Serving, GivenUp
<1> QED BY <1>1, <1>2, <1>3, <1>4 DEF Undisturbed

\* Whatever the runs, resets and failures before it have left in the flash, in
\* the bootloader and on the line: a run of any command but auto that begins on
\* a board at rest and meets no fault of its own does not fail, unless the board
\* has no bootloader.  For every file, every batch width, any number of faults,
\* and every --addr, in the run itself and in those before it, at which the
\* file of this run fits behind sector 0 and into the sectors erased for it.
THEOREM UndisturbedFlashes == Spec => []UndisturbedFlashSucceeds
<1>1. SessionInit => Undisturbed
  BY RestedInit DEF SessionInit, HostInit, Undisturbed, Roles, Talking, Resting, Heard,
                    Served, Serving, GivenUp
<1>2. Inv /\ Undisturbed /\ [Next]_vars => Undisturbed'
  <2>1. Undisturbed /\ UNCHANGED vars => Undisturbed'
    <3> SUFFICES ASSUME Undisturbed, UNCHANGED vars PROVE Undisturbed'
      OBVIOUS
    <3>1. /\ UNCHANGED <<mem, mode, job, rx, toBl, toHost>>
          /\ UNCHANGED <<tool, base, phase, idx, waiting, err, banner, calm>>
          /\ img' = img /\ Fits' = Fits
      BY SameTool DEF vars, blVars, devVars, hostVars, Fits
    <3> QED BY <3>1 DEF Undisturbed, Rested, Roles, Talking, Resting, Booting, Heard,
       Served, Serving, NoCommand, ErasedBelow, Writable, Programmable, GivenUp, BlRunnable
  <2> QED BY <2>1, UndisturbedStep
<1>3. Undisturbed => UndisturbedFlashSucceeds
  BY DEF Undisturbed, GivenUp, UndisturbedFlashSucceeds, FaultFreeRunSucceeds
<1>4. Inv /\ [Next]_vars => Inv'
  BY NextInv, StutterInv
<1> QED BY <1>1, <1>2, <1>3, <1>4, InitInv, PTL DEF Spec

=============================================================================
