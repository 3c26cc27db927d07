----------------------------- MODULE OtaSession -----------------------------
(***************************************************************************)
(* One run after another of the PC tool scripts/ota_host.py against the    *)
(* bootloader: connect, erase, write in batches, boot.  The tool keeps no  *)
(* sequence numbers: an answer is taken for the answer to the last frame.  *)
(*                                                                         *)
(* There is no clock.  A timeout of the tool that fires while the board is *)
(* still going to answer is a fault, one that fires when no answer can     *)
(* come any more is not.                                                   *)
(***************************************************************************)
EXTENDS Bootloader

CONSTANTS
  WordsPerPkt,   \* words in a write frame, 60 in the tool
  AppImage,      \* the application file
  BlImage,       \* the bootloader file
  Bases,         \* what --addr may say
  Tools          \* the commands given to the tool

ToolCmds == {"auto", "flash", "flash-bl", "boot", "info"}

ASSUME SessionAssumption ==
  /\ WordsPerPkt \in Nat \ {0}
  /\ AppImage \in Seq(Words) /\ Len(AppImage) \in 1 .. (AppSectors * SectorWords)
  /\ BlImage \in Seq(Words) /\ Len(BlImage) \in 1 .. SectorWords
  /\ Tools \subseteq ToolCmds
  /\ \A b \in Bases : b \in Cells /\ b + Len(AppImage) <= NSectors * SectorWords

VARIABLES
  tool,      \* the command the tool runs
  base,      \* where it puts its file
  phase,     \* how far it has come
  idx,       \* sector being erased, or batch being written
  waiting,   \* _wait_ack is running
  err,       \* err > 0 in write()
  banner,    \* "Wait 10s for XCP" printed since wait_bl() began to read
  calm       \* history: the tool was started on a board at rest, no fault since

hostVars == <<tool, base, phase, idx, waiting, err>>
vars     == <<blVars, hostVars, banner, calm>>

Phases == {"idle", "trigger", "connect", "erase", "write", "boot", "info",
           "blreq", "failed", "done"}
Idle   == phase \in {"idle", "failed", "done"}

img  == IF tool = "flash-bl" THEN BlImage ELSE AppImage

\* main(): --addr or APP_BASE; the other commands do not look at --addr.
BasesOf(t) == CASE t = "flash"    -> Bases \cup {AppBase}
                [] t = "flash-bl" -> {BlTemp}
                [] OTHER          -> {AppBase}

SmallerOf(a, b) == IF a <= b THEN a ELSE b

\* Mutant: one sector too many.
EraseCountPlusOne == (Len(img) + SectorWords - 1) \div SectorWords + 1

\* erase(): n = (size + SEC_SIZE - 1) / SEC_SIZE; write(): range(0, total, W)
EraseCount == (Len(img) + SectorWords - 1) \div SectorWords
BatchCount == (Len(img) + WordsPerPkt - 1) \div WordsPerPkt

EraseFrame(i) == Frame("erase", base + i * SectorWords, <<>>)
WriteFrame(i) ==
  Frame("write", base + i * WordsPerPkt,
        SubSeq(img, i * WordsPerPkt + 1, SmallerOf((i + 1) * WordsPerPkt, Len(img))))

\* The frame of the step the tool is at.
CurFrame == CASE phase = "erase" -> EraseFrame(idx)
              [] phase = "write" -> WriteFrame(idx)
              [] OTHER           -> Bare("boot")

HostInit ==
  /\ tool \in ToolCmds /\ base \in BasesOf(tool)
  /\ phase = "idle"
  /\ idx = 0 /\ waiting = FALSE /\ err = FALSE
  /\ banner = FALSE /\ calm = FALSE

SessionInit == Init /\ HostInit
-----------------------------------------------------------------------------
(* The tool. *)

\* main(): auto sends AT+OTA, the others wait for the banner of a board that
\* is being reset; both throw away what was received before.
Begin(t) ==
  /\ Idle
  /\ toBl = NoFrame
  /\ tool' = t /\ base' \in BasesOf(t)
  /\ idx' = 0 /\ waiting' = FALSE /\ err' = FALSE
  /\ toHost' = <<>>
  /\ IF t = "auto"
       THEN phase' = "trigger" /\ toBl' = Bare("at")
       ELSE phase' = "connect" /\ UNCHANGED toBl
  /\ UNCHANGED <<devVars, faults>>

\* Nothing is left for the board to do before another byte arrives.
BlQuiet ==
  /\ job = NoJob
  /\ mode \notin {"reset", "check", "upgrade"}
  /\ ~(mode = "window" /\ rx = "stray")

\* trigger_ota(): READY, or ten seconds later; a lone 0xAA; True whatever came.
Triggered ==
  /\ phase = "trigger"
  /\ toBl = NoFrame /\ BlQuiet
  /\ toBl' = StartByte
  /\ toHost' = <<>>
  /\ phase' = "erase"
  /\ UNCHANGED <<devVars, faults, tool, base, idx, waiting, err>>

\* wait_bl(): the banner "Wait 10s for XCP" is answered with 0xAA.
SeeWait ==
  /\ phase = "connect"
  /\ banner /\ toBl = NoFrame
  /\ toBl' = StartByte
  /\ toHost' = <<>>
  /\ phase' = IF tool \in {"boot", "info"} THEN tool ELSE "erase"
  /\ UNCHANGED <<devVars, faults, tool, base, idx, waiting, err>>

\* Twelve seconds without the banner: a board that cannot start, or an
\* operator who came too late.
NoBanner ==
  /\ phase = "connect" /\ ~banner
  /\ \/ mode = "hang" /\ ~BlRunnable(mem) /\ UNCHANGED faults
     \/ Fault
  /\ phase' = "failed"
  /\ UNCHANGED <<devVars, toBl, toHost, tool, base, idx, waiting, err>>

Send ==
  /\ phase \in {"erase", "write", "boot"}
  /\ ~waiting
  /\ toBl = NoFrame
  /\ toBl' = CurFrame
  /\ waiting' = TRUE
  /\ UNCHANGED <<devVars, toHost, faults, tool, base, phase, idx, err>>

NoAnswer == 256

\* Mutant: the loop of erase() runs one step too far.
EraseAnswerTooFar(s) ==
  /\ phase = "erase"
  /\ IF s # 0 THEN phase' = "failed" /\ UNCHANGED idx
     ELSE IF idx < EraseCount THEN idx' = idx + 1 /\ UNCHANGED phase
     ELSE phase' = "write" /\ idx' = 0
  /\ UNCHANGED err

\* erase() returns at the first sector not answered 0.
EraseAnswer(s) ==
  /\ phase = "erase"
  /\ IF s # 0 THEN phase' = "failed" /\ UNCHANGED idx
     ELSE IF idx + 1 < EraseCount THEN idx' = idx + 1 /\ UNCHANGED phase
     ELSE phase' = "write" /\ idx' = 0
  /\ UNCHANGED err

\* Mutant: err holds the outcome of the last batch only.
WriteAnswerForgets(s) ==
  /\ phase = "write"
  /\ err' = (s # 0)
  /\ IF idx + 1 < BatchCount THEN idx' = idx + 1 /\ UNCHANGED phase
     ELSE /\ UNCHANGED idx
          /\ phase' = IF err' THEN "failed"
                      ELSE IF tool = "flash-bl" THEN "blreq" ELSE "boot"

\* Mutant: main() does not look at what write() returns.
WriteAnswerIgnored(s) ==
  /\ phase = "write"
  /\ err' = (err \/ s # 0)
  /\ IF idx + 1 < BatchCount THEN idx' = idx + 1 /\ UNCHANGED phase
     ELSE /\ UNCHANGED idx
          /\ phase' = IF tool = "flash-bl" THEN "blreq" ELSE "boot"

\* write() counts a batch not answered 0, goes on, and returns err == 0.
WriteAnswer(s) ==
  /\ phase = "write"
  /\ err' = (err \/ s # 0)
  /\ IF idx + 1 < BatchCount THEN idx' = idx + 1 /\ UNCHANGED phase
     ELSE /\ UNCHANGED idx
          /\ phase' = IF err' THEN "failed"
                      ELSE IF tool = "flash-bl" THEN "blreq" ELSE "boot"

\* boot() says OK or FAIL; main() ends with DONE either way.
BootAnswer(s) ==
  /\ phase = "boot"
  /\ phase' = "done"
  /\ UNCHANGED <<idx, err>>

Answered(s) ==
  /\ waiting
  /\ waiting' = FALSE
  /\ EraseAnswer(s) \/ WriteAnswer(s) \/ BootAnswer(s)
  /\ UNCHANGED <<devVars, toBl, tool, base>>

\* _wait_ack() reads what is there and returns the first answer in it; the
\* rest of what it read is gone.
ReadAnswer ==
  /\ toHost # <<>>
  /\ Answered(Head(toHost))
  /\ \E n \in 1 .. Len(toHost) : toHost' = SubSeq(toHost, n + 1, Len(toHost))
  /\ UNCHANGED faults

\* Mutant: _wait_ack() without a deadline.
TimeoutNever == ReadAnswer

\* _wait_ack() returns None: nothing came in time.
Timeout ==
  /\ toHost = <<>> /\ toBl = NoFrame
  /\ Answered(NoAnswer)
  /\ IF BlQuiet THEN UNCHANGED faults ELSE Fault
  /\ UNCHANGED toHost

\* flash-bl: AT+OTA=BL, sent to whatever is listening.
RequestUpgrade ==
  /\ phase = "blreq"
  /\ toBl = NoFrame
  /\ toBl' = Bare("atbl")
  /\ phase' = "done"
  /\ UNCHANGED <<devVars, toHost, faults, tool, base, idx, waiting, err>>

\* info(): ask, read what has come a moment later, and print it.
AskInfo ==
  /\ phase = "info"
  /\ toBl = NoFrame
  /\ toBl' = Bare("info")
  /\ toHost' = <<>>
  /\ phase' = "done"
  /\ UNCHANGED <<devVars, faults, tool, base, idx, waiting, err>>

HostStep ==
  \/ \E t \in Tools : Begin(t)
  \/ Triggered \/ SeeWait \/ NoBanner
  \/ Send \/ ReadAnswer \/ Timeout \/ RequestUpgrade \/ AskInfo
-----------------------------------------------------------------------------
(* The operator, and the composition. *)

\* "Reset board now...": the button, until the banner appears.
UserReset ==
  /\ phase = "connect" /\ ~banner
  /\ mode \in {"xcp", "app"} \/ (mode = "hang" /\ BlRunnable(mem))
  /\ Reset
  /\ UNCHANGED <<faults, hostVars>>

\* Someone else asks the application for a self-upgrade between two runs.
OperatorUpgrade ==
  /\ Idle
  /\ mode = "app" /\ toBl = NoFrame
  /\ toBl' = Bare("atbl")
  /\ UNCHANGED <<devVars, toHost, faults, hostVars>>

\* The window is ten seconds long: that it closes before the tool has seen the
\* banner, or before the byte it sent is received, is a fault.
WindowTimeout ==
  /\ WindowExpire
  /\ IF banner \/ toBl # NoFrame THEN Fault ELSE UNCHANGED faults
  /\ UNCHANGED hostVars

Step ==
  \/ BlStep /\ UNCHANGED hostVars
  \/ WindowTimeout
  \/ HostStep
  \/ UserReset \/ OperatorUpgrade

\* Mutant: what was received before the run is not thrown away.
ConsoleKeeps == banner' = (banner \/ (mode # "window" /\ mode' = "window"))

\* The banner is printed when the window opens and waits in the input buffer
\* of the tool; what was printed before the tool began to read is thrown away.
Console ==
  banner' = (/\ phase' = "connect"
             /\ banner \/ (mode # "window" /\ mode' = "window"))

\* calm is set when the tool is started and cleared by the first fault.
History ==
  /\ Console
  /\ calm' = (/\ calm \/ (Idle /\ phase' \in {"trigger", "connect"} /\ BlQuiet)
              /\ faults' = faults)

Next == Step /\ History

Spec == SessionInit /\ [][Next]_vars

\* Everybody goes on: the processor, the line, the tool, and the operator who
\* presses the button the tool asks for.  No fault is ever forced.
Board(A) == A /\ UNCHANGED hostVars /\ History
LineEnd  == Receive \/ Overrun \/ WindowByte \/ NotListening \/ AppReceive

Fairness ==
  /\ WF_vars(Board(BootStart)) /\ WF_vars(Board(CheckApp))
  /\ WF_vars(Board(WindowPending))
  /\ WF_vars(WindowTimeout /\ UNCHANGED faults /\ History)
  /\ WF_vars(Board(Upgrade)) /\ WF_vars(Board(Command))
  /\ WF_vars(Board(LineEnd))
  /\ WF_vars((Triggered \/ SeeWait \/ NoBanner) /\ History)
  /\ WF_vars((Send \/ ReadAnswer \/ Timeout \/ RequestUpgrade \/ AskInfo) /\ History)
  /\ WF_vars(UserReset /\ History)

FairSpec == Spec /\ Fairness
-----------------------------------------------------------------------------
(* What a run of the tool promises. *)

SessionTypeOK ==
  /\ TypeOK
  /\ tool \in ToolCmds /\ base \in BasesOf(tool) /\ phase \in Phases
  /\ idx \in Nat
  /\ phase \in {"trigger", "connect"} => idx = 0
  /\ phase = "info" => tool = "info"
  /\ phase = "erase" => idx < EraseCount
  /\ phase = "write" => idx < BatchCount
  /\ waiting \in BOOLEAN /\ err \in BOOLEAN
  /\ banner \in BOOLEAN /\ calm \in BOOLEAN

Flashed == phase \in {"boot", "blreq", "done"} /\ tool \notin {"boot", "info"}

\* flash() returned True only if every word of the file is in the flash, with
\* no sequence numbers, answers that come after their timeout, frames lost in
\* a busy board, resets and flash failures in the middle of anything.
FlashedMeansProgrammed == Flashed => Holds(mem, base, img)

\* The tool and the board together are an update service: what the tool says
\* of the flash is true when it says it and stays true until the next run.
Content == IF Holds(mem, base, img) THEN "image" ELSE "other"
Report  == CASE phase = "failed" -> "failed"
             [] Flashed -> "ok"
             [] OTHER   -> "none"

Update == INSTANCE UpdateService WITH content <- Content, report <- Report
UpdateRefined == Update!Spec

\* From connect to boot a run changes nothing outside the sectors its file
\* covers, except through a self-upgrade: n sectors erased, the last batch cut
\* to the file, and no command of an earlier run still being carried out.
Covered == {c \in Cells : \E i \in 1..Len(img) : SectorOf(c) = SectorOf(base + i - 1)}
OnlyFileSectorsTouched ==
  [][ mode # "upgrade" /\ phase \in {"erase", "write", "boot", "blreq"}
      => \A c \in Cells \ Covered : mem'[c] = mem[c] ]_vars

\* From the file to the mark: if flash-bl said that the file is in BL_TEMP and
\* the next boot is to announce "BL UPGRADED", sector 0 holds the file up to its
\* first erased word, where the copy ends.
InstalledIsTheFile ==
  bkp = "UPGRADED_OK" /\ Flashed /\ tool = "flash-bl"
    => \A i \in 1 .. Len(img) :
         (\A j \in 1 .. i : img[j] # Erased) => mem[i - 1] = img[i]

\* A run that meets no fault of its own does not fail, whatever the runs,
\* resets and failures before it have left in the flash, in the bootloader
\* and on the line; a board without a bootloader is beyond the tool.
FaultFreeRunSucceeds == phase = "failed" /\ calm => ~BlRunnable(mem)

\* The file goes where the bootloader is not, and within the sectors that are
\* erased for it: those of an address in the middle of a sector may end before
\* the file does (scripts/ota_host.py:76).
Fits == /\ base >= SectorWords
        /\ SectorOf(base + Len(img) - 1) < SectorOf(base) + EraseCount

\* The same for every command but auto, which does not keep it, and for every
\* --addr at which the file fits; at another one the tool fails by itself.
UndisturbedFlashSucceeds == tool # "auto" /\ Fits => FaultFreeRunSucceeds

\* No run hangs, whatever is lost and whenever the board resets.
RunsEnd == ~Idle ~> Idle
=============================================================================
