----------------------------- MODULE PeerSession -----------------------------
(***************************************************************************)
(* The other programs that talk to the bootloader: the PC tool V4,         *)
(* BL_BUILD/scripts/ota_host.py ("v4"), and the agent of the RK3568        *)
(* controller in its two versions, scripts/rk_ota_agent.py ("agent1") and  *)
(* BL_BUILD/scripts/rk_ota_agent.py ("agent3").  They send the frames of   *)
(* OtaSession, but get the board's attention in other ways, go on or give  *)
(* up after other errors, and do not all empty their input first.          *)
(*                                                                         *)
(* There is no clock, as in OtaSession: waits that are longer than         *)
(* anything the bootloader does end when it has nothing left to do, or by  *)
(* a fault.                                                                *)
(***************************************************************************)
EXTENDS Bootloader

CONSTANTS
  WordsPerPkt,   \* words in a write frame, 60; agent1 sends one at a time
  MaxErrors,     \* errors agent1 puts up with, 10
  AppImage,      \* the application file
  BlImage,       \* the bootloader file
  Runs           \* the command lines given

Programs == {"v4", "agent1", "agent3"}

\* What the command lines do, --no-erase and --no-boot included.
Flash     == <<"erase", "write", "boot">>
FlashBl   == <<"erase", "write", "blreq">>
Sequences == {Flash, <<"erase", "write">>, <<"write", "boot">>, FlashBl,
              <<"info">>, <<"erase">>, <<"write">>, <<"boot">>}

\* The program; how it gets the board's attention: AT+OTA, a reset through the
\* debug probe, or by waiting for one; the file; where an application goes, which
\* is --addr of the PC tool; and what it then does.
RunType == [by : Programs, enter : {"at", "probe", "wait"}, file : {"app", "bl"},
            addr : Cells, stages : Sequences]

ASSUME PeerAssumption ==
  /\ WordsPerPkt \in Nat \ {0} /\ MaxErrors \in Nat
  /\ AppImage \in Seq(Words) /\ Len(AppImage) \in 1 .. (AppSectors * SectorWords)
  /\ BlImage \in Seq(Words) /\ Len(BlImage) \in 1 .. SectorWords
  /\ Runs \subseteq RunType
  /\ \A r \in Runs : r.addr + Len(AppImage) <= NSectors * SectorWords
  /\ \A r \in Runs : r.enter = "at" => r.addr = AppBase
  /\ \A r \in Runs : r.by = "agent3" => r.enter = "at" /\ r.stages \in {Flash, FlashBl}
  /\ \A r \in Runs : r.by = "agent1" => r.enter = "at" /\ r.stages = Flash

VARIABLES
  run,       \* the command line being executed
  phase,     \* how far it has come
  step,      \* the stage it is at
  idx,       \* sector being erased, or batch being written
  waiting,   \* _wait_ack is running
  errs,      \* batches not answered 0
  seen,      \* what the program has seen on the console, or done about it
  calm       \* history: begun on a board at rest, and no fault since

hostVars == <<run, phase, step, idx, waiting, errs>>
vars     == <<blVars, hostVars, seen, calm>>

Phases == {"idle", "probe", "settle", "request", "enter", "stage", "listen", "ok", "failed"}
Idle   == phase \in {"idle", "ok", "failed"}
Attracting == phase \in {"probe", "settle", "request", "enter"}

Agent == run.by # "v4"
Stage == run.stages[step]
img   == IF run.file = "bl" THEN BlImage ELSE AppImage
base  == IF run.file = "bl" THEN BlTemp ELSE run.addr
Batch == IF run.by = "agent1" THEN 1 ELSE WordsPerPkt

\* (n + d - 1) // d
CeilDiv(n, d) == (n + d - 1) \div d
SmallerOf(a, b) == IF a <= b THEN a ELSE b

EraseFrame == Frame("erase", base + idx * SectorWords, <<>>)
WriteFrame == Frame("write", base + idx * Batch,
                    SubSeq(img, idx * Batch + 1, SmallerOf((idx + 1) * Batch, Len(img))))
CurFrame == CASE Stage = "erase" -> EraseFrame
              [] Stage = "write" -> WriteFrame
              [] OTHER           -> Bare(Stage)

\* The commands "erase" and "write" of the PC tool do not look at what erase()
\* and write() return.
Unheeded == run.stages \in {<<"erase">>, <<"write">>}

HostInit ==
  /\ run \in Runs /\ phase = "idle"
  /\ step = 1 /\ idx = 0 /\ waiting = FALSE /\ errs = 0
  /\ seen = {} /\ calm = FALSE

PeerInit == Init /\ HostInit
-----------------------------------------------------------------------------
(* Getting the board's attention. *)

\* Nothing is left for the board to do before another byte arrives.
BlQuiet ==
  /\ job = NoJob
  /\ mode \notin {"reset", "check", "upgrade"}
  /\ ~(mode = "window" /\ rx = "stray")

\* main(), update(): AT+OTA, the reset through the probe, or nothing but waiting;
\* the port was opened, or is emptied, just before.
Begin(r) ==
  /\ Idle
  /\ toBl = NoFrame
  /\ run' = r
  /\ step' = 1 /\ idx' = 0 /\ waiting' = FALSE /\ errs' = 0
  /\ toHost' = <<>>
  /\ phase' = CASE r.enter = "probe" -> "probe"
                [] r.by # "v4"       -> "request"
                [] OTHER             -> "enter"
  /\ toBl' = IF r.enter = "at" THEN Bare("at") ELSE toBl
  /\ UNCHANGED <<devVars, faults>>

\* reset_board_via_swd(): of its five attempts the last one only connects.
ProbeReset ==
  /\ phase = "probe"
  /\ \/ phase' = "settle" /\ Reset /\ UNCHANGED faults
     \/ phase' \in {"settle", "failed"} /\ Fault /\ UNCHANGED <<devVars, toBl, toHost>>
  /\ UNCHANGED <<run, step, idx, waiting, errs>>

\* The port was open all the time, or is opened again: either way what was
\* received before is thrown away, the banner too if it was that fast.
Listen ==
  /\ phase \in {"settle", "request"}
  /\ phase' = "enter"
  /\ toHost' = <<>>
  /\ UNCHANGED <<devVars, toBl, faults, run, step, idx, waiting, errs>>

\* Mutant: the agent does not wait for the banner.
AgentConnectAtOnce ==
  /\ phase = "enter" /\ Agent
  /\ toBl = NoFrame
  /\ toBl' = StartByte
  /\ toHost' = <<>>
  /\ phase' = "stage"
  /\ UNCHANGED <<devVars, faults, run, step, idx, waiting, errs>>

\* enter_bl_mode(): the banner, or twelve seconds; then a lone 0xAA whatever
\* came.  agent1 looks for "BL V6", which this bootloader does not print.
AgentConnect ==
  /\ phase = "enter" /\ Agent
  /\ toBl = NoFrame
  /\ BlQuiet \/ (run.by = "agent3" /\ seen # {})
  /\ toBl' = StartByte
  /\ toHost' = <<>>
  /\ phase' = "stage"
  /\ UNCHANGED <<devVars, faults, run, step, idx, waiting, errs>>

\* wait_bl(): "Wait 10s for XCP" is answered once, with a byte that begins no
\* frame.
AnswerWindow ==
  /\ phase = "enter" /\ ~Agent
  /\ "wait" \in seen /\ "answered" \notin seen
  /\ toBl = NoFrame
  /\ toBl' = OtherByte
  /\ UNCHANGED <<devVars, toHost, faults, hostVars>>

\* Mutant: the window is answered with the byte that begins a frame, and that
\* without looking whether the board is in its window.
EnteredWithStart ==
  /\ phase = "enter" /\ ~Agent
  /\ "ready" \in seen /\ toBl = NoFrame
  /\ toBl' = StartByte
  /\ toHost' = <<>>
  /\ phase' = "stage"
  /\ UNCHANGED <<devVars, faults, run, step, idx, waiting, errs>>

\* "XCP!" or "READY" has been seen; the input is emptied.
Entered ==
  /\ phase = "enter" /\ ~Agent
  /\ "ready" \in seen
  /\ "wait" \in seen => "answered" \in seen
  /\ toHost' = <<>>
  /\ phase' = "stage"
  /\ UNCHANGED <<devVars, toBl, faults, run, step, idx, waiting, errs>>

\* Fifteen seconds without either: the board is not going to print it, or it
\* is late, or nobody pressed the button.
NotEntered ==
  /\ phase = "enter" /\ ~Agent
  /\ "ready" \notin seen
  /\ \/ /\ BlQuiet /\ toBl = NoFrame /\ mode # "window" /\ UNCHANGED faults
        /\ run.enter = "wait" => seen # {} \/ ~BlRunnable(mem)
     \/ Fault
  /\ phase' = "failed"
  /\ UNCHANGED <<devVars, toBl, toHost, run, step, idx, waiting, errs>>
-----------------------------------------------------------------------------
(* The stages. *)

\* Only the PC tool empties its input before it sends.
Send ==
  /\ phase = "stage" /\ Stage # "blreq"
  /\ ~waiting
  /\ toBl = NoFrame
  /\ toBl' = CurFrame
  /\ toHost' = IF Agent THEN toHost ELSE <<>>
  /\ waiting' = TRUE
  /\ UNCHANGED <<devVars, faults, run, phase, step, idx, errs>>

NextStage ==
  IF step < Len(run.stages) THEN step' = step + 1 /\ idx' = 0 /\ UNCHANGED phase
                            ELSE phase' = "ok" /\ UNCHANGED <<step, idx>>
Give(outcome) == phase' = outcome /\ UNCHANGED <<step, idx>>
NoAnswer == 256

\* Mutant: the loop of erase() runs one step too far.
EraseAnswerTooFar(s) ==
  /\ Stage = "erase"
  /\ IF s # 0 THEN Give(IF Unheeded THEN "ok" ELSE "failed")
     ELSE IF idx < CeilDiv(Len(img), SectorWords)
       THEN idx' = idx + 1 /\ UNCHANGED <<phase, step>>
     ELSE NextStage
  /\ UNCHANGED errs

EraseAnswer(s) ==
  /\ Stage = "erase"
  /\ IF s # 0 THEN Give(IF Unheeded THEN "ok" ELSE "failed")
     ELSE IF idx + 1 < CeilDiv(Len(img), SectorWords)
       THEN idx' = idx + 1 /\ UNCHANGED <<phase, step>>
     ELSE NextStage
  /\ UNCHANGED errs

\* The PC tool ends at the first batch not answered 0.  The agents go on, agent1
\* up to MaxErrors times.
GivesUp == IF Agent THEN run.by = "agent1" /\ errs' > MaxErrors ELSE errs' > 0

\* Mutant: only errors in a row are counted.
WriteAnswerForgets(s) ==
  /\ Stage = "write"
  /\ errs' = IF s = 0 THEN 0 ELSE errs + 1
  /\ IF GivesUp THEN Give(IF Unheeded THEN "ok" ELSE "failed")
     ELSE IF idx + 1 < CeilDiv(Len(img), Batch)
       THEN idx' = idx + 1 /\ UNCHANGED <<phase, step>>
     ELSE IF errs' = 0 THEN NextStage ELSE Give("failed")

\* Mutant: a batch that fails is sent again.
WriteAnswerRepeats(s) ==
  /\ Stage = "write"
  /\ UNCHANGED errs
  /\ IF s # 0 THEN UNCHANGED <<phase, step, idx>>
     ELSE IF idx + 1 < CeilDiv(Len(img), Batch)
       THEN idx' = idx + 1 /\ UNCHANGED <<phase, step>>
     ELSE NextStage

\* write(), flash_firmware(): success only if every batch was answered 0.
WriteAnswer(s) ==
  /\ Stage = "write"
  /\ errs' = IF s = 0 THEN errs ELSE errs + 1
  /\ IF GivesUp THEN Give(IF Unheeded THEN "ok" ELSE "failed")
     ELSE IF idx + 1 < CeilDiv(Len(img), Batch)
       THEN idx' = idx + 1 /\ UNCHANGED <<phase, step>>
     ELSE IF errs' = 0 THEN NextStage ELSE Give("failed")

\* What boot() returns is ignored by the PC tool; agent1 reads on.
BootAnswer(s) ==
  /\ Stage = "boot"
  /\ CASE ~Agent                       -> NextStage
       [] Agent /\ s # 0               -> Give("failed")
       [] run.by = "agent1" /\ s = 0   -> Give("listen")
       [] run.by = "agent3" /\ s = 0   -> NextStage
  /\ UNCHANGED errs

Answered(s) ==
  /\ phase = "stage" /\ waiting
  /\ waiting' = FALSE
  /\ EraseAnswer(s) \/ WriteAnswer(s) \/ BootAnswer(s)
  /\ UNCHANGED <<devVars, toBl, run>>

\* _wait_ack() returns the first answer in what it has read.  agent1 reads byte
\* by byte; the others read all there is, and the rest is gone.
ReadAnswer ==
  /\ toHost # <<>>
  /\ Answered(Head(toHost))
  /\ \E n \in 1 .. Len(toHost) :
       /\ run.by = "agent1" => n = 1
       /\ toHost' = SubSeq(toHost, n + 1, Len(toHost))
  /\ UNCHANGED faults

\* _wait_ack() returns None: nothing came in time.
Timeout ==
  /\ toHost = <<>> /\ toBl = NoFrame
  /\ Answered(NoAnswer)
  /\ IF BlQuiet THEN UNCHANGED faults ELSE Fault
  /\ UNCHANGED toHost

\* info(): no answer to command 4 counts, nor does its absence.
InfoRead ==
  /\ phase = "stage" /\ Stage = "info" /\ waiting
  /\ toBl = NoFrame
  /\ toHost' = <<>>
  /\ waiting' = FALSE
  /\ NextStage
  /\ UNCHANGED <<devVars, toBl, faults, run, errs>>

\* agent1 looks for the first lines of the application.
AppText ==
  /\ phase = "listen"
  /\ BlQuiet
  /\ phase' \in IF mode = "app" THEN {"ok", "failed"} ELSE {"failed"}
  /\ UNCHANGED <<devVars, toBl, toHost, faults, run, step, idx, waiting, errs>>

\* AT+OTA=BL, sent to whatever is listening.  The PC tool then waits for words
\* the bootloader does not print, and says so.
RequestUpgrade ==
  /\ phase = "stage" /\ Stage = "blreq"
  /\ toBl = NoFrame
  /\ toBl' = Bare("atbl")
  /\ phase' = IF Agent THEN "ok" ELSE "failed"
  /\ UNCHANGED <<devVars, toHost, faults, run, step, idx, waiting, errs>>

Connect == Listen \/ AgentConnect \/ AnswerWindow \/ Entered \/ NotEntered
Serve   == Send \/ ReadAnswer \/ Timeout \/ InfoRead \/ AppText \/ RequestUpgrade

PeerStep == (\E r \in Runs : Begin(r)) \/ ProbeReset \/ Connect \/ Serve
-----------------------------------------------------------------------------
(* The composition. *)

\* The button, when the PC tool waits for it.
UserReset ==
  /\ phase = "enter" /\ run.enter = "wait" /\ seen = {}
  /\ mode \in {"xcp", "app"} \/ (mode = "hang" /\ BlRunnable(mem))
  /\ Reset
  /\ UNCHANGED <<faults, hostVars>>

\* That the window closes before a program that has seen it, or sent a byte,
\* gets through is a fault.
WindowTimeout ==
  /\ WindowExpire
  /\ IF (seen # {} /\ "answered" \notin seen) \/ toBl # NoFrame THEN Fault ELSE UNCHANGED faults
  /\ UNCHANGED hostVars

Step ==
  \/ BlStep /\ UNCHANGED hostVars
  \/ WindowTimeout
  \/ PeerStep
  \/ UserReset

Printed ==
  (IF mode = "reset" /\ mode' \in {"check", "upgrade"} THEN {"banner"} ELSE {})
    \cup (IF mode # "window" /\ mode' = "window" THEN {"wait"} ELSE {})
    \cup (IF mode # "xcp" /\ mode' = "xcp" THEN {"ready"} ELSE {})
    \cup (IF toBl' = OtherByte THEN {"answered"} ELSE {})

Console == seen' = IF phase' = "enter" THEN seen \cup Printed ELSE {}

\* calm is set when a program begins on a board at rest, with an application
\* if it is one that is to hear AT+OTA, and cleared by the first fault and by
\* an application that does not.
History ==
  /\ Console
  /\ calm' = /\ calm \/ (Idle /\ ~Idle' /\ BlQuiet /\ (run'.enter = "at" => mode = "app"))
             /\ faults' = faults
             /\ ~(toBl.cmd = "at" /\ toBl' = NoFrame /\ bkp' # "ENTER_XCP")

Next == Step /\ History

Spec == PeerInit /\ [][Next]_vars

Board(A) == A /\ UNCHANGED hostVars /\ History
LineEnd  == Receive \/ Overrun \/ WindowByte \/ NotListening \/ AppReceive

Fairness ==
  /\ WF_vars(Board(BootStart)) /\ WF_vars(Board(CheckApp))
  /\ WF_vars(Board(WindowPending))
  /\ WF_vars(WindowTimeout /\ UNCHANGED faults /\ History)
  /\ WF_vars(Board(Upgrade)) /\ WF_vars(Board(Command))
  /\ WF_vars(Board(LineEnd))
  /\ WF_vars(ProbeReset /\ History)
  /\ WF_vars(Connect /\ History)
  /\ WF_vars(Serve /\ History)
  /\ WF_vars(UserReset /\ History)

FairSpec == Spec /\ Fairness
-----------------------------------------------------------------------------
(* What the programs promise. *)

PeerTypeOK ==
  /\ TypeOK
  /\ run \in Runs /\ phase \in Phases
  /\ step \in 1 .. Len(run.stages)
  /\ idx \in Nat /\ errs \in Nat
  /\ Attracting => step = 1 /\ idx = 0
  /\ phase = "stage" /\ Stage = "erase" => idx < CeilDiv(Len(img), SectorWords)
  /\ phase = "stage" /\ Stage = "write" => idx < CeilDiv(Len(img), Batch)
  /\ errs # 0 => Idle \/ (phase = "stage" /\ Stage = "write" /\ errs <= idx)
  /\ waiting \in BOOLEAN /\ calm \in BOOLEAN
  /\ seen \subseteq {"banner", "wait", "ready", "answered"}

Does(s) == \E i \in DOMAIN run.stages : run.stages[i] = s

\* The commands that do not look at the outcome promise nothing.
Claims == Does("write") /\ ~Unheeded

\* Every program and the board together are an update service, although the
\* agents do not empty their input before a frame, go on after errors and have
\* no sequence numbers (BL_BUILD/scripts/rk_ota_agent.py:188,
\* scripts/rk_ota_agent.py:190, BL_BUILD/scripts/ota_host.py:310).
Content == IF Holds(mem, base, img) THEN "image" ELSE "other"
Report  == CASE phase = "failed"      -> "failed"
             [] phase = "ok" /\ Claims -> "ok"
             [] OTHER                  -> "none"

Update == INSTANCE UpdateService WITH content <- Content, report <- Report
PeersRefined == Update!Spec

\* The file goes where the bootloader is not, and within the sectors that are
\* erased for it.
Fits == /\ base >= SectorWords
        /\ SectorOf(base + Len(img) - 1) < SectorOf(base) + CeilDiv(Len(img), SectorWords)

\* The PC tool V4 succeeds unless a fault of this run prevents it: it answers
\* the window with a byte that begins no frame and waits for READY
\* (BL_BUILD/scripts/ota_host.py:211-224).  Not so if it resets the board
\* itself: the banner may be there before it empties its input.  Nor if --addr
\* puts the file in the bootloader or beyond the sectors erased for it.
UndisturbedV4Succeeds ==
  phase = "failed" /\ calm /\ ~Agent /\ Fits /\ BlRunnable(mem)
    => \/ run.enter = "probe" \/ Does("blreq")
       \/ Does("write") /\ ~Does("erase")

\* Once a program sends its frames, and until the next one begins, nothing but
\* a self-upgrade changes a word outside the sectors of its file, and nothing at
\* all if it is only to boot or to ask: not a command of the program before,
\* whose frames were of another file, nor one that outlives its timeout, nor the
\* batches an agent goes on to send after an error.
Covered == {c \in Cells : /\ Does("erase") \/ Does("write")
                          /\ \E i \in 1 .. Len(img) : SectorOf(c) = SectorOf(base + i - 1)}
Launched == phase \in {"stage", "listen", "ok"}
PeersKeepToTheFile ==
  [][mode # "upgrade" /\ Launched => \A c \in Cells \ Covered : mem'[c] = mem[c]]_vars

\* No run of a program hangs.
PeerRunsEnd == ~Idle ~> Idle
=============================================================================
