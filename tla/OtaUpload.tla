----------------------------- MODULE OtaUpload -----------------------------
(***************************************************************************)
(* scripts/ota_server.py upload, with the client of OtaClient.tla at the   *)
(* other end: serve the file over HTTP, send START, ask for the status     *)
(* until it is READY or ERROR, send COMMIT.                                *)
(*                                                                         *)
(* The tool talks to the RK3568 over TCP and the RK3568 to the board; it   *)
(* passes lines on both ways, may lose them and may close the connection.  *)
(* send_cmd waits 30 s for a line: an answer that comes later is read as   *)
(* the answer to the next command.  A line is one value here.              *)
(***************************************************************************)
EXTENDS OtaClient

CONSTANT Files    \* the firmware files that are uploaded

ASSUME UploadAssumption ==
  /\ Files \subseteq Seq(Units)
  /\ \A f \in Files : Len(f) > 0 /\ Len(f) \in Sizes
  /\ {"START", "COMMIT"} \subseteq AtCommands

VARIABLES
  upload,     \* how far cmd_upload() has come
  file,       \* the file of this run
  toBoard,    \* commands on their way to the board
  toTool,     \* answers on their way to the tool
  closed,     \* the RK3568 has closed the connection
  startCmd,   \* history: what became of this run's START
  commitCmd,  \* history: what became of this run's COMMIT
  wanted      \* the file the board was last told to fetch

linkVars   == <<toBoard, toTool, closed>>
histVars   == <<startCmd, commitCmd>>
uploadVars == <<clientVars, upload, file, linkVars, histVars, wanted>>

Ended   == {"left", "done", "failed"}
Fates   == {"no", "sent", "lost", "refused", "taken"}
Lines   == Replies \cup States    \* STATUS is answered with the phase

UploadInit ==
  /\ ClientInit
  /\ upload = "trigger" /\ file \in Files
  /\ toBoard = <<>> /\ toTool = <<>> /\ closed = FALSE
  /\ startCmd = "no" /\ commitCmd = "no"
  /\ wanted = file

\* The HTTP server of the tool: the file, or an error page, which is shorter.
ServedFor(f) ==
  {a \in Answers : Len(a.body) >= Len(f) => SubSeq(a.body, 1, Len(f)) = f}

-----------------------------------------------------------------------------
(* send_cmd. *)

\* sendall: what is written to a closed connection goes nowhere.
Sent == IF closed THEN "lost" ELSE "sent"
Send(cmd) == toBoard' = IF closed THEN toBoard ELSE Append(toBoard, cmd)

\* ... or raises, and the tool ends.
SendRaises ==
  /\ closed /\ upload \in {"trigger", "monitor", "commit"}
  /\ upload' = "failed"
  /\ UNCHANGED <<clientVars, file, linkVars, histVars, wanted>>

NothingComes ==
  toBoard = <<>> /\ toTool = <<>> /\ writing = "none" /\ connecting = "no"

\* One or more lines in one piece; none if the connection is closed or nothing
\* has come in time, what is on its way then comes too late.
Heard == {SubSeq(toTool, 1, n) : n \in 0 .. Len(toTool)}
Hear(lines) ==
  /\ toTool' = SubSeq(toTool, Len(lines) + 1, Len(toTool))
  /\ IF \/ lines # <<>>
        \/ closed /\ toTool = <<>>
        \/ NothingComes
       THEN UNCHANGED faults
       ELSE Fault
  /\ UNCHANGED <<flashVars, ctxVars, atVars, waitVars, netVars, starts, resets,
                 file, toBoard, closed, histVars, wanted>>

Says(lines, words) == \E i \in 1 .. Len(lines) : lines[i] \in words

\* "ERR" is a part of these.
WithErr == {"START,ERR", "START,ERR,BUSY", "COMMIT,ERR", "ERROR"}

-----------------------------------------------------------------------------
(* cmd_upload. *)

\* trigger_ota.
SendStart ==
  /\ upload = "trigger" /\ upload' = "asked"
  /\ Send("START") /\ startCmd' = Sent
  /\ UNCHANGED <<clientVars, file, toTool, closed, commitCmd, wanted>>

\* No answer in time is taken for a good one.
StartAnswered ==
  /\ upload = "asked"
  /\ \E lines \in Heard :
       /\ Hear(lines)
       /\ upload' = IF Says(lines, WithErr) THEN "failed" ELSE "monitor"

SendStatus ==
  /\ upload = "monitor" /\ upload' = "polled"
  /\ Send("STATUS")
  /\ UNCHANGED <<clientVars, file, toTool, closed, histVars, wanted>>

\* Mutant: the loop looks for READY only.
StatusReadyOnly ==
  /\ upload = "polled"
  /\ \E lines \in Heard :
       /\ Hear(lines)
       /\ upload' = IF Says(lines, {"READY"}) THEN "commit" ELSE "monitor"

\* READY and ERROR end the loop, everything else goes on; with --no-commit
\* the operator is left to send COMMIT.
StatusAnswered ==
  /\ upload = "polled"
  /\ \E lines \in Heard :
       /\ Hear(lines)
       /\ \/ Says(lines, {"READY"}) /\ upload' \in {"commit", "left"}
          \/ ~Says(lines, {"READY"}) /\ Says(lines, {"ERROR"}) /\ upload' = "failed"
          \/ ~Says(lines, {"READY", "ERROR"}) /\ upload' = "monitor"

SendCommit ==
  /\ upload = "commit" /\ upload' = "sent"
  /\ Send("COMMIT") /\ commitCmd' = Sent
  /\ UNCHANGED <<clientVars, file, toTool, closed, startCmd, wanted>>

\* "MCU will reboot into new firmware.": whatever the answer is, if any.
CommitAnswered ==
  /\ upload = "sent" /\ upload' = "done"
  /\ \E lines \in Heard : Hear(lines)

\* The operator runs the tool again, for this file or another one, over a new
\* connection.  What the old one still carried is gone; what the board has not
\* answered yet it will answer over the new one.
RunAgain ==
  /\ upload \in Ended /\ toBoard = <<>> /\ starts < MaxStarts
  /\ upload' = "trigger" /\ file' \in Files
  /\ toTool' = <<>> /\ closed' = FALSE
  /\ startCmd' = "no" /\ commitCmd' = "no"
  /\ UNCHANGED <<clientVars, toBoard, wanted>>

-----------------------------------------------------------------------------
(* The board: the next command when the AT parser has control. *)

Reply(a) == toTool' = IF closed THEN toTool ELSE Append(toTool, a)
Comes(cmd) ==
  /\ toBoard # <<>> /\ Head(toBoard) = cmd
  /\ toBoard' = Tail(toBoard)
  /\ UNCHANGED <<upload, file, closed>>

\* Mutant: the size is not passed on.
TakeStartNoSize ==
  /\ Comes("START")
  /\ \/ (StartBusy \/ StartRefused) /\ Reply(resp')
        /\ startCmd' = "refused" /\ UNCHANGED wanted
     \/ Start /\ expected' = 0 /\ UNCHANGED toTool
        /\ startCmd' = "taken" /\ wanted' = file
  /\ UNCHANGED commitCmd

\* The URL and the file's own size, and no SHA256.
TakeStart ==
  /\ Comes("START")
  /\ \/ (StartBusy \/ StartRefused) /\ Reply(resp')
        /\ startCmd' = "refused" /\ UNCHANGED wanted
     \/ Start /\ expected' = Len(file) /\ UNCHANGED toTool
        /\ startCmd' = "taken" /\ wanted' = file
  /\ UNCHANGED commitCmd

TakeStatus ==
  /\ Comes("STATUS") /\ AtReady
  /\ Reply(state)
  /\ UNCHANGED <<clientVars, histVars, wanted>>

TakeCommit ==
  /\ Comes("COMMIT") /\ Commit
  /\ IF state = "READY" THEN UNCHANGED toTool ELSE Reply(resp')
  /\ commitCmd' = "taken"
  /\ UNCHANGED <<startCmd, wanted>>

\* The end of a START or a COMMIT.
Finish ==
  /\ \/ Connected /\ served' \in ServedFor(wanted)
     \/ StartFailed
     \/ CommitDone
  /\ Reply(resp')
  /\ UNCHANGED <<upload, file, toBoard, closed, histVars, wanted>>

\* The rest of what the client does is silent.
Client ==
  /\ NameFound \/ CommitStep \/ ConfirmBoot \/ PollStep \/ Cut \/ PowerFail
  /\ UNCHANGED <<upload, file, linkVars, histVars, wanted>>

-----------------------------------------------------------------------------
(* What the RK3568 and the two lines may do. *)

RestUnchanged ==
  UNCHANGED <<flashVars, ctxVars, atVars, waitVars, netVars, starts, resets,
              upload, file, wanted>>

LoseCommand ==
  /\ Fault /\ toBoard # <<>>
  /\ toBoard' = Tail(toBoard)
  /\ startCmd'  = IF Head(toBoard) = "START" THEN "lost" ELSE startCmd
  /\ commitCmd' = IF Head(toBoard) = "COMMIT" THEN "lost" ELSE commitCmd
  /\ UNCHANGED <<toTool, closed>> /\ RestUnchanged

LoseAnswer ==
  /\ Fault /\ toTool # <<>>
  /\ toTool' = Tail(toTool)
  /\ UNCHANGED <<toBoard, closed, histVars>> /\ RestUnchanged

Close ==
  /\ Fault /\ ~closed /\ closed' = TRUE
  /\ toTool' \in {toTool, <<>>}
  /\ UNCHANGED <<toBoard, histVars>> /\ RestUnchanged

-----------------------------------------------------------------------------
Tool ==
  \/ SendRaises
  \/ SendStart \/ StartAnswered
  \/ SendStatus \/ StatusAnswered
  \/ SendCommit \/ CommitAnswered
  \/ RunAgain

Board == TakeStart \/ TakeStatus \/ TakeCommit \/ Finish \/ Client
Link  == LoseCommand \/ LoseAnswer \/ Close

UploadNext == Tool \/ Board \/ Link

UploadSpec == UploadInit /\ [][UploadNext]_uploadVars

\* The tool goes on, with what it hears or after its 30 s; a closed connection
\* is answered with a reset; commands that are not lost get to the parser; the
\* board goes on, and the server serves.
Goes(A) == A /\ UNCHANGED <<upload, file, linkVars, histVars, wanted>>
UploadFairness ==
  /\ WF_uploadVars(SendStart \/ SendStatus \/ SendCommit)
  /\ WF_uploadVars((StartAnswered \/ StatusAnswered \/ CommitAnswered) /\ UNCHANGED faults)
  /\ SF_uploadVars(SendRaises)
  /\ SF_uploadVars(TakeStart \/ TakeStatus \/ TakeCommit)
  /\ WF_uploadVars(Goes(NameFound))
  /\ WF_uploadVars(Finish /\ UNCHANGED faults)
  /\ WF_uploadVars(Goes(CommitStep))
  /\ WF_uploadVars(Goes(PollRecv \/ Verify \/ PollError))
  /\ WF_uploadVars(Goes(RecvData \/ RecvClosed))
-----------------------------------------------------------------------------
\* The record of a file, and the file, as COMMIT leaves them.
Recorded(f) ==
  /\ status.magic = "OTA" /\ status.size = Len(f) /\ status.crc = f
  /\ Stored(Len(f)) = f

\* "MCU will reboot into new firmware" (ota_server.py:260): when the tool says
\* so, its START was accepted and its COMMIT came through, the board has a
\* record of this run's file, or is writing it, and has the file in slot B:
\* with answers that are lost or late and read for others, files of earlier
\* runs, cut connections.  The tool looks at no answer to COMMIT and takes none
\* for a good one to START, so it says so without these two as well.
UploadedIsCommitted ==
  upload = "done" /\ resets = 0 /\ startCmd = "taken" /\ commitCmd = "taken"
    => writing # "none" \/ Recorded(file)

\* The monitoring loop has no limit of its own: it ends because the client
\* ends every download in READY or ERROR and stays there until it is asked,
\* and because STATUS is asked until its answer gets through.  When START was
\* lost, or the board was reset, the status is IDLE for good.
UploadEnds ==
  upload = "trigger" ~> (upload \in Ended \/ startCmd = "lost" \/ resets > 0)
=============================================================================
