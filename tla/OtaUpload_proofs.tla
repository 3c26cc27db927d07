--------------------------- MODULE OtaUpload_proofs ---------------------------
(***************************************************************************)
(* Proofs about the update server's upload together with the client, over  *)
(* a link that loses and delays: the invariant of OtaClient_proofs holds   *)
(* here too, at most one START and one COMMIT of a run are on their way,   *)
(* and a READY that the tool may have seen is this run's.                  *)
(***************************************************************************)
EXTENDS OtaUpload, OtaClient_proofs

Commands == {"START", "STATUS", "COMMIT"}

LinkTypeOK ==
  /\ toBoard \in Seq(Commands) /\ toTool \in Seq(Lines)
  /\ file \in Files /\ wanted \in Files

\* The tool has heard READY, or is about to.
ReadySaid == \E i \in 1 .. Len(toTool) : toTool[i] = "READY"
SawReady  == upload \in {"commit", "sent", "done"} \/ ReadySaid

\* START is sent first and COMMIT last.
TheStart ==
  \A i \in 1 .. Len(toBoard) : toBoard[i] = "START" => i = 1 /\ startCmd = "sent"
TheCommit ==
  \A i \in 1 .. Len(toBoard) :
    toBoard[i] = "COMMIT" => i = Len(toBoard) /\ commitCmd = "sent"

FateInv ==
  /\ LinkTypeOK /\ TheStart /\ TheCommit
  /\ startCmd \in {"no", "sent"} => ~SawReady /\ commitCmd = "no"
  /\ startCmd = "no" => toBoard = <<>> /\ upload \in {"trigger", "failed"}
  /\ startCmd = "sent" => toBoard # <<>> /\ toBoard[1] = "START"
  /\ upload = "trigger" => startCmd = "no"
  /\ commitCmd # "no" => upload \in {"sent", "done"}

\* The board is connected to the server of the file, or is going to be, or
\* could not be.
Fetches(f) ==
  \/ connecting # "no"
  \/ served \in ServedFor(f)
  \/ ~isBusy /\ ~headerDone /\ inRecv = "no" /\ state = "ERROR"

Rests == writing = "none" /\ connecting = "no" /\ inRecv = "no"

\* Without a reset, the board works for this run once it has taken its START.
RunInv ==
  resets = 0 =>
    /\ inRecv # "closed"
    /\ startCmd = "taken" =>
         /\ expected = Len(file) /\ wanted = file /\ Fetches(file)
         /\ SawReady /\ commitCmd # "taken" => state = "READY" /\ Rests
         /\ commitCmd = "taken" => InCommit \/ (state = "IDLE" /\ Rests /\ Recorded(file))

UploadInv == ClientInv /\ FateInv /\ RunInv

-----------------------------------------------------------------------------
(* The client. *)

\* A line that is lost or late is a fault, and nothing else to the client.
LEMMA FaultAlone ==
  ASSUME ClientInv, Fault,
         UNCHANGED <<flashVars, ctxVars, atVars, waitVars, netVars, starts, resets>>
  PROVE  ClientInv'
<1>1. faults' \in 0 .. MaxFaults
  BY FaultCounted DEF ClientInv
<1>2. ClientTypeOK' /\ SocketInv' /\ WaitInv'
  BY <1>1 DEF flashVars, ctxVars, dataVars, atVars, waitVars, netVars, ClientInv,
     ClientTypeOK, SocketInv, WaitInv
<1>3. StreamInv' /\ ReadyInv'
  BY StreamStays, ReadyStays DEF flashVars, ctxVars, dataVars, atVars, waitVars, netVars,
     ClientInv, HasImage, InCommit
<1>4. RecordInv'
  BY DEF flashVars, ctxVars, dataVars, atVars, ClientInv, RecordInv, InCommit, WholeRecord,
     SizedRecord
<1> QED BY <1>2, <1>3, <1>4 DEF ClientInv

ToolSends == SendRaises \/ SendStart \/ SendStatus \/ SendCommit \/ RunAgain
ToolHears == StartAnswered \/ StatusAnswered \/ CommitAnswered

\* What the tool does is at most a fault to the client.
LEMMA ToolLeavesClient ==
  ASSUME ToolSends \/ ToolHears \/ Link
  PROVE  /\ UNCHANGED <<flashVars, ctxVars, atVars, waitVars, netVars, starts, resets>>
         /\ UNCHANGED faults \/ Fault
<1>1. CASE ToolSends
  BY <1>1 DEF ToolSends, SendRaises, SendStart, SendStatus, SendCommit, RunAgain, clientVars
<1>2. CASE ToolHears
  BY <1>2 DEF ToolHears, StartAnswered, StatusAnswered, CommitAnswered, Hear
<1>3. CASE Link
  BY <1>3 DEF Link, LoseCommand, LoseAnswer, Close, RestUnchanged
<1> QED BY <1>1, <1>2, <1>3

\* Every step of the board is one the client may take.
LEMMA BoardIsClient ==
  ASSUME Board
  PROVE  [ClientNext]_clientVars
<1>1. CASE TakeStart
  BY <1>1 DEF TakeStart, ClientNext, AtStep
<1>2. CASE TakeStatus
  BY <1>2 DEF TakeStatus
<1>3. CASE TakeCommit
  BY <1>3 DEF TakeCommit, ClientNext, AtStep
<1>4. CASE Finish
  BY <1>4 DEF Finish, ClientNext, AtStep
<1>5. CASE Client
  BY <1>5 DEF Client, ClientNext, AtStep
<1> QED BY <1>1, <1>2, <1>3, <1>4, <1>5 DEF Board

LEMMA UploadStays ==
  ASSUME ClientInv, [UploadNext]_uploadVars
  PROVE  ClientInv'
<1>1. CASE Board
  BY <1>1, BoardIsClient, NextInv
<1>2. CASE ToolSends \/ ToolHears \/ Link
  <2>1. CASE Fault
    BY <1>2, <2>1, ToolLeavesClient, FaultAlone
  <2>2. CASE UNCHANGED faults
    <3>1. UNCHANGED clientVars
      BY <1>2, <2>2, ToolLeavesClient DEF clientVars
    <3> QED BY <3>1, NextInv
  <2> QED BY <1>2, <2>1, <2>2, ToolLeavesClient
<1>3. CASE UNCHANGED uploadVars
  BY <1>3, NextInv DEF uploadVars
<1> QED BY <1>1, <1>2, <1>3 DEF UploadNext, Tool, ToolSends, ToolHears

-----------------------------------------------------------------------------
(* The link. *)

\* A command is sent, or lost on a closed connection.
LEMMA Sends ==
  ASSUME toBoard \in Seq(Commands), NEW cmd \in Commands, Send(cmd)
  PROVE  /\ toBoard' \in Seq(Commands)
         /\ closed => toBoard' = toBoard
         /\ ~closed => /\ Len(toBoard') = Len(toBoard) + 1
                       /\ \A i \in 1 .. Len(toBoard) : toBoard'[i] = toBoard[i]
                       /\ toBoard'[Len(toBoard) + 1] = cmd
BY AppendProperties DEF Send

\* The next command is taken, or lost.
LEMMA Takes ==
  ASSUME toBoard \in Seq(Commands), toBoard # <<>>, toBoard' = Tail(toBoard)
  PROVE  /\ toBoard' \in Seq(Commands) /\ Head(toBoard) \in Commands
         /\ Len(toBoard) \in Nat /\ Len(toBoard) > 0 /\ Head(toBoard) = toBoard[1]
         /\ Len(toBoard') = Len(toBoard) - 1
         /\ \A i \in 1 .. Len(toBoard') : toBoard'[i] = toBoard[i + 1]
BY HeadTailProperties, LenProperties, EmptySeq

\* What is heard was said, and what is left as well.
LEMMA Hears ==
  ASSUME toTool \in Seq(Lines), NEW lines \in Heard, Hear(lines)
  PROVE  /\ toTool' \in Seq(Lines)
         /\ ~ReadySaid => ~ReadySaid' /\ ~Says(lines, {"READY"})
<1>1. PICK n \in 0 .. Len(toTool) : lines = SubSeq(toTool, 1, n)
  BY DEF Heard
<1>2. Len(toTool) \in Nat /\ \A i \in 1 .. Len(toTool) : toTool[i] \in Lines
  BY LenProperties, ElementOfSeq
<1>3. Len(lines) = n /\ \A i \in 1 .. n : lines[i] = toTool[i]
  <2>1. \A i \in 1 .. n : toTool[i] \in Lines
    BY <1>2
  <2>2. /\ Len(SubSeq(toTool, 1, n)) = IF 1 <= n THEN n - 1 + 1 ELSE 0
        /\ \A i \in 1 .. n - 1 + 1 : SubSeq(toTool, 1, n)[i] = toTool[1 + i - 1]
    BY <1>2, <2>1, SubSeqProperties
  <2> QED BY <1>1, <1>2, <2>2
<1>4. toTool' = SubSeq(toTool, n + 1, Len(toTool))
  BY <1>3 DEF Hear
<1>5. /\ toTool' \in Seq(Lines) /\ Len(toTool') = Len(toTool) - n
      /\ \A i \in 1 .. Len(toTool) - n : toTool'[i] = toTool[n + i]
  <2>1. \A i \in (n + 1) .. Len(toTool) : toTool[i] \in Lines
    BY <1>2
  <2>2. /\ SubSeq(toTool, n + 1, Len(toTool)) \in Seq(Lines)
        /\ Len(SubSeq(toTool, n + 1, Len(toTool)))
             = IF n + 1 <= Len(toTool) THEN Len(toTool) - (n + 1) + 1 ELSE 0
        /\ \A i \in 1 .. Len(toTool) - (n + 1) + 1 :
             SubSeq(toTool, n + 1, Len(toTool))[i] = toTool[n + 1 + i - 1]
    <3>1. n + 1 \in Int /\ Len(toTool) \in Int
      BY <1>2
    <3> QED BY <2>1, <3>1, SubSeqProperties
  <2> QED BY <1>2, <1>4, <2>2
<1>6. ASSUME ~ReadySaid PROVE ~ReadySaid' /\ ~Says(lines, {"READY"})
  <2>1. ASSUME NEW i \in 1 .. Len(toTool') PROVE toTool'[i] # "READY"
    <3>1. n + i \in 1 .. Len(toTool)
      BY <1>2, <1>5
    <3> QED BY <1>5, <1>6, <3>1 DEF ReadySaid
  <2>2. ASSUME NEW i \in 1 .. Len(lines) PROVE lines[i] # "READY"
    BY <1>2, <1>3, <1>6 DEF ReadySaid
  <2> QED BY <2>1, <2>2 DEF ReadySaid, Says
<1> QED BY <1>5, <1>6

\* An answer is given, or goes nowhere.
LEMMA Replies1 ==
  ASSUME toTool \in Seq(Lines), NEW a \in Lines, Reply(a)
  PROVE  toTool' \in Seq(Lines) /\ (ReadySaid' => ReadySaid \/ a = "READY")
<1>1. CASE closed
  BY <1>1 DEF Reply, ReadySaid
<1>2. CASE ~closed
  <2>1. /\ toTool' \in Seq(Lines) /\ Len(toTool') = Len(toTool) + 1
        /\ Len(toTool) \in Nat
        /\ \A i \in 1 .. Len(toTool) : toTool'[i] = toTool[i]
        /\ toTool'[Len(toTool) + 1] = a
    BY <1>2, AppendProperties, LenProperties DEF Reply
  <2>2. ASSUME NEW i \in 1 .. Len(toTool'), toTool'[i] = "READY", a # "READY"
        PROVE  i \in 1 .. Len(toTool) /\ toTool[i] = "READY"
    BY <2>1, <2>2
  <2> QED BY <2>1, <2>2 DEF ReadySaid
<1> QED BY <1>1, <1>2

-----------------------------------------------------------------------------
(* What becomes of START and COMMIT. *)

LEMMA SendsInv ==
  ASSUME FateInv, ToolSends
  PROVE  FateInv'
<1>0. /\ toBoard \in Seq(Commands) /\ toTool \in Seq(Lines) /\ Len(toBoard) \in Nat
      /\ <<>> \in Seq(Lines) /\ Len(<<>>) = 0
  BY LenProperties, EmptySeq DEF FateInv, LinkTypeOK
<1>1. CASE SendRaises
  BY <1>1 DEF SendRaises, FateInv, LinkTypeOK, TheStart, TheCommit, SawReady, ReadySaid,
     linkVars, histVars
<1>2. CASE SendStart
  <2>1. /\ toBoard = <<>> /\ startCmd = "no" /\ commitCmd = "no" /\ ~SawReady
        /\ Send("START") /\ startCmd' = Sent /\ upload' = "asked"
        /\ UNCHANGED <<file, toTool, commitCmd, wanted>>
    BY <1>2 DEF SendStart, FateInv
  <2>2. /\ toBoard' \in Seq(Commands)
        /\ closed => toBoard' = <<>> /\ startCmd' = "lost"
        /\ ~closed => Len(toBoard') = 1 /\ toBoard'[1] = "START" /\ startCmd' = "sent"
    BY <1>0, <2>1, Sends DEF Commands, Sent
  <2>3. ~closed => toBoard' # <<>>
    BY <1>0, <2>2
  <2>4. ~SawReady'
    BY <2>1 DEF SawReady, ReadySaid
  <2> QED BY <1>0, <2>1, <2>2, <2>3, <2>4 DEF FateInv, LinkTypeOK, TheStart, TheCommit
<1>3. CASE SendStatus
  <2>1. /\ startCmd # "no" /\ commitCmd = "no" /\ Send("STATUS") /\ upload = "monitor"
        /\ upload' = "polled"
        /\ UNCHANGED <<file, toTool, startCmd, commitCmd, wanted>>
    BY <1>3 DEF SendStatus, FateInv, histVars
  <2>2. /\ toBoard' \in Seq(Commands)
        /\ closed => toBoard' = toBoard
        /\ ~closed => /\ Len(toBoard') = Len(toBoard) + 1
                      /\ \A i \in 1 .. Len(toBoard) : toBoard'[i] = toBoard[i]
                      /\ toBoard'[Len(toBoard) + 1] = "STATUS"
    BY <1>0, <2>1, Sends DEF Commands
  <2>3. TheStart' /\ TheCommit'
    BY <1>0, <2>1, <2>2 DEF FateInv, TheStart, TheCommit
  <2>4. startCmd = "sent" => toBoard' # <<>> /\ toBoard'[1] = "START"
    BY <1>0, <2>2, EmptySeq DEF FateInv
  <2>5. SawReady' <=> SawReady
    BY <2>1 DEF SawReady, ReadySaid
  <2> QED BY <2>1, <2>2, <2>3, <2>4, <2>5 DEF FateInv, LinkTypeOK
<1>4. CASE SendCommit
  <2>1. /\ startCmd \notin {"no", "sent"} /\ commitCmd = "no" /\ Send("COMMIT")
        /\ upload' = "sent" /\ commitCmd' = Sent
        /\ UNCHANGED <<file, toTool, startCmd, wanted>>
    BY <1>4 DEF SendCommit, FateInv, SawReady
  <2>2. /\ toBoard' \in Seq(Commands)
        /\ closed => toBoard' = toBoard /\ commitCmd' = "lost"
        /\ ~closed => /\ Len(toBoard') = Len(toBoard) + 1 /\ commitCmd' = "sent"
                      /\ \A i \in 1 .. Len(toBoard) : toBoard'[i] = toBoard[i]
                      /\ toBoard'[Len(toBoard) + 1] = "COMMIT"
    BY <1>0, <2>1, Sends DEF Commands, Sent
  <2>3. TheStart' /\ TheCommit'
    BY <1>0, <2>1, <2>2 DEF FateInv, TheStart, TheCommit
  <2> QED BY <2>1, <2>2, <2>3 DEF FateInv, LinkTypeOK
<1>5. CASE RunAgain
  BY <1>0, <1>5 DEF RunAgain, FateInv, LinkTypeOK, TheStart, TheCommit, SawReady, ReadySaid
<1> QED BY <1>1, <1>2, <1>3, <1>4, <1>5 DEF ToolSends

\* The tool believes READY only when it was said.
LEMMA HearsReady ==
  ASSUME FateInv, ToolHears
  PROVE  SawReady' => SawReady
<1>1. PICK lines \in Heard : Hear(lines)
  BY DEF ToolHears, StartAnswered, StatusAnswered, CommitAnswered
<1>2. ~ReadySaid => ~ReadySaid'
  BY <1>1, Hears DEF FateInv, LinkTypeOK
<1>4. upload \in {"asked", "polled", "sent"}
  BY DEF ToolHears, StartAnswered, StatusAnswered, CommitAnswered
<1>5. ASSUME ~SawReady PROVE ~SawReady'
  <2>1. ~ReadySaid /\ upload \in {"asked", "polled"}
    BY <1>4, <1>5 DEF SawReady
  <2>2. upload' \notin {"commit", "sent", "done"}
    <3>1. CASE StartAnswered
      BY <3>1 DEF StartAnswered
    <3>2. CASE StatusAnswered
      <4>1. PICK said \in Heard :
              /\ Hear(said)
              /\ \/ Says(said, {"READY"}) /\ upload' \in {"commit", "left"}
                 \/ ~Says(said, {"READY"}) /\ Says(said, {"ERROR"}) /\ upload' = "failed"
                 \/ ~Says(said, {"READY", "ERROR"}) /\ upload' = "monitor"
        BY <3>2 DEF StatusAnswered
      <4>2. ~Says(said, {"READY"})
        BY <2>1, <4>1, Hears DEF FateInv, LinkTypeOK
      <4> QED BY <4>1, <4>2
    <3> QED BY <2>1, <3>1, <3>2 DEF ToolHears, CommitAnswered
  <2>3. ~ReadySaid'
    BY <1>2, <2>1
  <2> QED BY <2>2, <2>3 DEF SawReady
<1> QED BY <1>5

LEMMA HearsInv ==
  ASSUME FateInv, ToolHears
  PROVE  FateInv'
<1>1. PICK lines \in Heard : Hear(lines)
  BY DEF ToolHears, StartAnswered, StatusAnswered, CommitAnswered
<1>2. toTool' \in Seq(Lines) /\ (~ReadySaid => ~ReadySaid' /\ ~Says(lines, {"READY"}))
  BY <1>1, Hears DEF FateInv, LinkTypeOK
<1>3. UNCHANGED <<toBoard, file, wanted, startCmd, commitCmd>>
  BY <1>1 DEF Hear, histVars
<1>4. /\ upload \in {"asked", "polled", "sent"} /\ upload' # "trigger"
      /\ commitCmd # "no" => upload' \in {"sent", "done"}
  BY DEF ToolHears, StartAnswered, StatusAnswered, CommitAnswered, FateInv
<1>5. SawReady' => SawReady
  BY HearsReady
<1> QED BY <1>2, <1>3, <1>4, <1>5 DEF FateInv, LinkTypeOK, TheStart, TheCommit

\* The command at the head of the line is gone, whatever became of it.
LEMMA HeadGone ==
  ASSUME FateInv, toBoard # <<>>, toBoard' = Tail(toBoard),
         IF Head(toBoard) = "START" THEN startCmd' \in {"lost", "refused", "taken"}
                                    ELSE startCmd' = startCmd,
         IF Head(toBoard) = "COMMIT" THEN commitCmd' \in {"lost", "taken"}
                                     ELSE commitCmd' = commitCmd,
         UNCHANGED <<upload, file>>, wanted' \in {wanted, file}, toTool' \in Seq(Lines),
         ReadySaid' => ReadySaid \/ Head(toBoard) # "START"
  PROVE  FateInv'
<1>1. /\ toBoard' \in Seq(Commands) /\ Head(toBoard) \in Commands
      /\ Len(toBoard) \in Nat /\ Len(toBoard) > 0 /\ Head(toBoard) = toBoard[1]
      /\ Len(toBoard') = Len(toBoard) - 1
      /\ \A i \in 1 .. Len(toBoard') : toBoard'[i] = toBoard[i + 1]
  BY Takes DEF FateInv, LinkTypeOK
<1>2. LinkTypeOK'
  BY <1>1 DEF FateInv, LinkTypeOK
<1>3. ASSUME NEW i \in 1 .. Len(toBoard') PROVE toBoard'[i] # "START"
  <2>1. i + 1 \in 1 .. Len(toBoard) /\ i + 1 # 1 /\ toBoard'[i] = toBoard[i + 1]
    BY <1>1
  <2> QED BY <2>1 DEF FateInv, TheStart
<1>4. ASSUME NEW i \in 1 .. Len(toBoard'), toBoard'[i] = "COMMIT"
      PROVE  i = Len(toBoard') /\ commitCmd' = "sent"
  <2>1. /\ i + 1 \in 1 .. Len(toBoard) /\ i + 1 # 1 /\ toBoard[i + 1] = "COMMIT"
        /\ i \in Nat
    BY <1>1, <1>4
  <2>2. i + 1 = Len(toBoard) /\ commitCmd = "sent"
    BY <2>1 DEF FateInv, TheCommit
  <2>3. 1 \in 1 .. Len(toBoard) /\ 1 # Len(toBoard)
    BY <1>1, <2>1, <2>2
  <2>4. toBoard[1] # "COMMIT"
    BY <2>3 DEF FateInv, TheCommit
  <2>5. commitCmd' = commitCmd
    BY <1>1, <2>4
  <2>6. i = Len(toBoard')
    <3>1. i = (i + 1) - 1
      BY <2>1
    <3>2. Len(toBoard') = Len(toBoard) - 1
      BY <1>1
    <3> QED BY <2>2, <3>1, <3>2
  <2> QED BY <2>2, <2>5, <2>6
<1>5. startCmd # "no" /\ (startCmd = "sent" <=> Head(toBoard) = "START")
  BY <1>1 DEF FateInv, TheStart
<1>6. startCmd' \notin {"no", "sent"}
  BY <1>5
<1>7. commitCmd' # "no" => commitCmd # "no"
  <2>1. 1 \in 1 .. Len(toBoard)
    BY <1>1
  <2>2. Head(toBoard) = "COMMIT" => commitCmd = "sent"
    BY <1>1, <2>1 DEF FateInv, TheCommit
  <2> QED BY <2>2
<1>8. upload' # "trigger"
  BY <1>5 DEF FateInv
<1> QED BY <1>2, <1>3, <1>4, <1>6, <1>7, <1>8 DEF FateInv, TheStart, TheCommit

LEMMA LinkReady ==
  ASSUME FateInv, Link
  PROVE  toTool' \in Seq(Lines) /\ (ReadySaid' => ReadySaid)
<1>0. toTool \in Seq(Lines)
  BY DEF FateInv, LinkTypeOK
<1>1. CASE toTool # <<>> /\ toTool' = Tail(toTool)
  <2>1. /\ toTool' \in Seq(Lines) /\ Len(toTool') = Len(toTool) - 1
        /\ \A i \in 1 .. Len(toTool') : toTool'[i] = toTool[i + 1]
        /\ Len(toTool) \in Nat
    BY <1>0, <1>1, HeadTailProperties, LenProperties
  <2>2. \A i \in 1 .. Len(toTool') : i + 1 \in 1 .. Len(toTool)
    BY <2>1
  <2> QED BY <2>1, <2>2 DEF ReadySaid
<1>2. CASE toTool' = <<>>
  <2>1. <<>> \in Seq(Lines) /\ Len(<<>>) = 0 /\ 1 .. 0 = {}
    BY EmptySeq
  <2> QED BY <1>2, <2>1 DEF ReadySaid
<1>3. CASE toTool' = toTool
  BY <1>0, <1>3 DEF ReadySaid
<1> QED BY <1>1, <1>2, <1>3 DEF Link, LoseCommand, LoseAnswer, Close

LEMMA LinkInv ==
  ASSUME FateInv, Link
  PROVE  FateInv'
<1>0. toTool \in Seq(Lines)
  BY DEF FateInv, LinkTypeOK
<1>1. CASE LoseCommand
  BY <1>0, <1>1, HeadGone DEF LoseCommand, RestUnchanged, ReadySaid
<1>2. CASE LoseAnswer \/ Close
  <2>1. UNCHANGED <<toBoard, startCmd, commitCmd, upload, file, wanted>>
    BY <1>2 DEF LoseAnswer, Close, RestUnchanged, histVars
  <2>2. toTool' \in Seq(Lines) /\ (ReadySaid' => ReadySaid)
    BY LinkReady
  <2> QED BY <2>1, <2>2 DEF FateInv, LinkTypeOK, TheStart, TheCommit, SawReady
<1> QED BY <1>1, <1>2 DEF Link

LEMMA BoardInv ==
  ASSUME ClientInv, FateInv, Board
  PROVE  FateInv'
<1>0. toTool \in Seq(Lines) /\ resp' \in Lines /\ resp' # "READY" /\ state \in Lines
  BY BoardIsClient, NextInv DEF FateInv, LinkTypeOK, ClientInv, ClientTypeOK, Lines, Replies
<1>1. CASE TakeStart
  <2>1. toTool' \in Seq(Lines) /\ (ReadySaid' => ReadySaid)
    BY <1>0, <1>1, Replies1 DEF TakeStart, ReadySaid
  <2>2. /\ toBoard # <<>> /\ toBoard' = Tail(toBoard) /\ Head(toBoard) = "START"
        /\ startCmd' \in {"refused", "taken"} /\ commitCmd' = commitCmd
        /\ UNCHANGED <<upload, file>> /\ wanted' \in {wanted, file}
    BY <1>1 DEF TakeStart, Comes
  <2> QED BY <2>1, <2>2, HeadGone
<1>2. CASE TakeStatus
  <2>1. toTool' \in Seq(Lines)
    BY <1>0, <1>2, Replies1 DEF TakeStatus
  <2> QED BY <1>2, <2>1, HeadGone DEF TakeStatus, Comes, histVars
<1>3. CASE TakeCommit
  <2>1. toTool' \in Seq(Lines)
    BY <1>0, <1>3, Replies1 DEF TakeCommit
  <2> QED BY <1>3, <2>1, HeadGone DEF TakeCommit, Comes
<1>4. CASE Finish
  <2>1. toTool' \in Seq(Lines) /\ (ReadySaid' => ReadySaid)
    BY <1>0, <1>4, Replies1 DEF Finish
  <2> QED BY <1>4, <2>1 DEF Finish, FateInv, LinkTypeOK, TheStart, TheCommit, SawReady,
          histVars
<1>5. CASE Client
  BY <1>5 DEF Client, FateInv, LinkTypeOK, TheStart, TheCommit, SawReady, ReadySaid,
     linkVars, histVars
<1> QED BY <1>1, <1>2, <1>3, <1>4, <1>5 DEF Board

-----------------------------------------------------------------------------
(* What the board does for this run. *)

\* An image that is verified with the size of this run's file is the file.
LEMMA ImageIsFile ==
  ASSUME ClientInv, HasImage, expected = Len(file), file \in Files, Fetches(file),
         connecting = "no"
  PROVE  received = Len(file) /\ crc = file /\ Stored(Len(file)) = file
<1>1. file \in Seq(Units) /\ Len(file) \in Nat /\ Len(file) > 0
  BY UploadAssumption, LenProperties
<1>2. received = Len(file) /\ Stored(received) = crc
  BY <1>1 DEF ClientInv, ReadyInv
<1>3. crc \in Seq(Units) /\ Len(crc) = received /\ served \in Answers
  BY DEF ClientInv, ClientTypeOK
<1>4. headerDone
  BY <1>1, <1>2, <1>3, Constants DEF ClientInv, StreamInv
<1>5. PartOf(crc, served.body, 0)
  BY <1>4 DEF ClientInv, StreamInv
<1>6. served.body \in Seq(Units) /\ Len(served.body) \in Nat
  BY <1>3, AnswerUnits, LenProperties
<1>7. Len(served.body) >= Len(file)
  BY <1>1, <1>2, <1>3, <1>5, <1>6 DEF PartOf
<1>8. SubSeq(served.body, 1, Len(file)) = file
  BY <1>4, <1>7 DEF Fetches, ServedFor
<1>9. \A i \in 1 .. Len(crc) : crc[i] = file[i]
  <2> SUFFICES ASSUME NEW i \in 1 .. Len(crc) PROVE crc[i] = file[i]
    OBVIOUS
  <2>1. crc[i] = served.body[0 + i] /\ 0 + i = i
    BY <1>5, <1>2, <1>3, <1>1 DEF PartOf
  <2>2. \A k \in 1 .. Len(file) : served.body[k] \in Units
    <3>1. \A k \in 1 .. Len(served.body) : served.body[k] \in Units
      BY <1>6, ElementOfSeq
    <3> QED BY <1>1, <1>6, <1>7, <3>1
  <2>3. SubSeq(served.body, 1, Len(file))[i] = served.body[1 + i - 1]
    BY <1>1, <1>2, <1>3, <2>2, SubSeqProperties
  <2>4. 1 + i - 1 = i
    OBVIOUS
  <2> QED BY <1>8, <2>1, <2>3, <2>4
<1>10. crc = file
  BY <1>1, <1>2, <1>3, <1>9, SeqEqual
<1> QED BY <1>2, <1>10

\* The tool and the link leave what RunInv says of the board alone.
LEMMA BoardAlone ==
  ASSUME RunInv, UNCHANGED <<flashVars, ctxVars, atVars, waitVars, netVars, resets>>,
         UNCHANGED <<file, wanted>>,
         startCmd' = "taken" => startCmd = "taken",
         commitCmd' = "taken" <=> commitCmd = "taken",
         startCmd' = "taken" /\ SawReady' => SawReady
  PROVE  RunInv'
BY DEF RunInv, Fetches, Rests, Recorded, Stored, InCommit, flashVars, ctxVars, dataVars,
   atVars, waitVars, netVars

LEMMA ToolRunInv ==
  ASSUME FateInv, RunInv, ToolSends \/ ToolHears \/ Link
  PROVE  RunInv'
<1>0. UNCHANGED <<flashVars, ctxVars, atVars, waitVars, netVars, resets>>
  BY ToolLeavesClient
<1>1. CASE SendRaises \/ SendStart \/ SendStatus
  <2>1. /\ UNCHANGED <<file, wanted, commitCmd>> /\ ReadySaid' = ReadySaid
        /\ startCmd' = "taken" => startCmd = "taken"
        /\ upload' \in {"failed", "asked", "polled"}
    BY <1>1 DEF SendRaises, SendStart, SendStatus, ReadySaid, linkVars, histVars, Sent
  <2> QED BY <1>0, <2>1, BoardAlone DEF SawReady
<1>2. CASE SendCommit
  <2>1. /\ UNCHANGED <<file, wanted, startCmd>> /\ commitCmd # "taken"
        /\ commitCmd' # "taken" /\ SawReady
    BY <1>2 DEF SendCommit, FateInv, Sent, SawReady
  <2> QED BY <1>0, <2>1, BoardAlone
<1>3. CASE RunAgain
  <2>1. resets' = resets /\ inRecv' = inRecv /\ startCmd' = "no"
    BY <1>0, <1>3 DEF RunAgain, waitVars
  <2> QED BY <2>1 DEF RunInv
<1>4. CASE ToolHears
  <2>1. UNCHANGED <<file, wanted, startCmd, commitCmd>>
    BY <1>4 DEF ToolHears, StartAnswered, StatusAnswered, CommitAnswered, Hear, histVars
  <2>2. SawReady' => SawReady
    BY <1>4, HearsReady
  <2> QED BY <1>0, <2>1, <2>2, BoardAlone
<1>5. CASE Link
  <2>1. /\ UNCHANGED <<file, wanted, upload>>
        /\ startCmd' = "taken" => startCmd = "taken"
        /\ commitCmd' = "taken" => commitCmd = "taken"
    BY <1>5 DEF Link, LoseCommand, LoseAnswer, Close, RestUnchanged, histVars
  <2>2. commitCmd = "taken" => commitCmd' = "taken"
    <3>1. ASSUME LoseCommand, commitCmd = "taken" PROVE Head(toBoard) # "COMMIT"
      <4>1. Len(toBoard) \in Nat /\ Len(toBoard) > 0 /\ Head(toBoard) = toBoard[1]
        BY <3>1, Takes DEF LoseCommand, FateInv, LinkTypeOK
      <4> QED BY <3>1, <4>1 DEF FateInv, TheCommit
    <3> QED BY <1>5, <3>1 DEF Link, LoseCommand, LoseAnswer, Close, histVars
  <2>3. SawReady' => SawReady
    BY <1>5, <2>1, LinkReady DEF SawReady
  <2> QED BY <1>0, <2>1, <2>2, <2>3, BoardAlone
<1> QED BY <1>1, <1>2, <1>3, <1>4, <1>5 DEF ToolSends

\* The end of a commit of the file.
LEMMA CommitRecords ==
  ASSUME ClientInv, FateInv, expected = Len(file), Fetches(file), CommitDone,
         UNCHANGED file
  PROVE  Recorded(file)' /\ state' = "IDLE" /\ Rests'
<1>1. /\ InCommit /\ connecting = "no" /\ inRecv = "no"
      /\ status \in {SizedRecord, WholeRecord}
  BY DEF ClientInv, WaitInv, ReadyInv, RecordInv, HasImage, InCommit, CommitDone
<1>2. received = Len(file) /\ crc = file /\ Stored(Len(file)) = file
  BY <1>1, ImageIsFile DEF HasImage, FateInv, LinkTypeOK
<1>3. /\ status' = [status EXCEPT !.crc = Program(@, crc)]
      /\ state' = "IDLE" /\ writing' = "none"
      /\ UNCHANGED <<ext, connecting, inRecv>>
  BY DEF CommitDone, waitVars
<1>4. Program(status.crc, crc) = crc
  BY <1>1, NoRecordFields DEF Program
<1>5. status' = WholeRecord
  BY <1>1, <1>3, <1>4 DEF NoRecord, SizedRecord, WholeRecord
<1>6. status'.magic = "OTA" /\ status'.size = Len(file) /\ status'.crc = file
  BY <1>2, <1>5 DEF WholeRecord, NoRecord
<1>7. Recorded(file)'
  BY <1>2, <1>3, <1>6 DEF Recorded, Stored
<1> QED BY <1>1, <1>3, <1>7 DEF Rests

LEMMA TakeRunInv ==
  ASSUME ClientInv, FateInv, RunInv, resets' = 0, TakeStart \/ TakeStatus \/ TakeCommit
  PROVE  RunInv'
<1>0. /\ toBoard # <<>> /\ Len(toBoard) \in Nat /\ Len(toBoard) > 0
      /\ Head(toBoard) = toBoard[1] /\ toTool \in Seq(Lines) /\ state \in Lines
      /\ UNCHANGED <<upload, file>>
  BY Takes
     DEF TakeStart, TakeStatus, TakeCommit, Comes, FateInv, LinkTypeOK, ClientInv,
         ClientTypeOK, Lines
<1>1. resets = 0
  BY DEF TakeStart, StartBusy, StartRefused, Start, TakeStatus, TakeCommit, Commit, clientVars
<1>2. CASE TakeStart
  <2>1. startCmd = "sent" /\ ~SawReady /\ commitCmd = "no" /\ commitCmd' = "no"
    BY <1>0, <1>2 DEF TakeStart, Comes, FateInv, TheStart
  <2>2. CASE (StartBusy \/ StartRefused) /\ startCmd' = "refused"
    BY <1>1, <2>2 DEF StartBusy, StartRefused, waitVars, RunInv
  <2>3. CASE /\ Start /\ expected' = Len(file) /\ UNCHANGED toTool /\ wanted' = file
    <3>1. connecting' = "name" /\ inRecv' = inRecv
      BY <2>3 DEF Start
    <3>2. ~SawReady'
      BY <1>0, <2>1, <2>3 DEF SawReady, ReadySaid
    <3> QED BY <1>0, <1>1, <2>1, <2>3, <3>1, <3>2 DEF RunInv, Fetches
  <2> QED BY <1>2, <2>2, <2>3 DEF TakeStart
<1>3. CASE TakeStatus
  <2>1. UNCHANGED <<clientVars, startCmd, commitCmd, wanted>> /\ AtReady
    BY <1>3 DEF TakeStatus, histVars
  <2>2. ReadySaid' => ReadySaid \/ state = "READY"
    BY <1>0, <1>3, Replies1 DEF TakeStatus
  <2>3. state = "READY" => Rests
    BY <2>1 DEF ClientInv, ReadyInv, HasImage, AtReady, Rests
  <2>4. SawReady' => SawReady \/ (state = "READY" /\ Rests)
    BY <1>0, <2>2, <2>3 DEF SawReady
  <2> QED BY <1>0, <1>1, <2>1, <2>4
          DEF RunInv, Fetches, Rests, Recorded, Stored, InCommit, clientVars, flashVars,
              ctxVars, dataVars, atVars, waitVars, netVars
<1>4. CASE TakeCommit
  <2>1. /\ commitCmd = "sent" /\ SawReady /\ Commit /\ commitCmd' = "taken"
        /\ UNCHANGED <<startCmd, wanted>>
    BY <1>0, <1>4 DEF TakeCommit, Comes, FateInv, TheCommit, SawReady
  <2>2. UNCHANGED <<expected, waitVars, served>>
    BY <2>1 DEF Commit, netVars
  <2>3. ASSUME startCmd = "taken"
        PROVE  writing' = "erase" /\ connecting = "no" /\ state = "READY"
    BY <1>1, <2>1, <2>3 DEF RunInv, Rests, Commit
  <2> QED BY <1>0, <1>1, <2>1, <2>2, <2>3 DEF RunInv, Fetches, InCommit, waitVars
<1> QED BY <1>2, <1>3, <1>4

LEMMA FinishRunInv ==
  ASSUME ClientInv, FateInv, RunInv, resets' = 0, Finish
  PROVE  RunInv'
<1>1. /\ UNCHANGED <<upload, file, startCmd, commitCmd, wanted, expected, resets, inRecv>>
      /\ resets = 0
  BY DEF Finish, Connected, StartFailed, CommitDone, histVars, waitVars
<1>2. SawReady' => SawReady
  <2>1. toTool \in Seq(Lines) /\ resp' \in Lines /\ resp' # "READY"
    BY DEF Finish, Connected, StartFailed, CommitDone, FateInv, LinkTypeOK, Lines, Replies
  <2> QED BY <1>1, <2>1, Replies1 DEF Finish, SawReady
<1> SUFFICES ASSUME startCmd = "taken" PROVE RunInv'
  BY <1>1 DEF RunInv
<1>3. CASE Connected \/ StartFailed
  <2>1. connecting # "no" /\ writing = "none" /\ ~headerDone /\ inRecv # "current"
    BY <1>3 DEF Connected, StartFailed, ClientInv, WaitInv
  <2>2. ~SawReady /\ commitCmd # "taken" /\ inRecv = "no"
    BY <1>1, <2>1 DEF RunInv, Rests, InCommit, ClientInv, ClientTypeOK
  <2>3. CASE Connected /\ served' \in ServedFor(wanted)
    BY <1>1, <1>2, <2>2, <2>3 DEF RunInv, Fetches, ServedFor
  <2>4. CASE StartFailed
    <3>1. ~isBusy' /\ headerDone' = headerDone /\ state' = "ERROR"
      BY <2>4 DEF StartFailed, dataVars
    <3> QED BY <1>1, <1>2, <2>1, <2>2, <3>1 DEF RunInv, Fetches
  <2> QED BY <1>3, <2>3, <2>4 DEF Finish, Connected, StartFailed, CommitDone
<1>4. CASE CommitDone
  <2>1. /\ InCommit /\ writing # "none" /\ state # "ERROR" /\ connecting = "no"
    BY <1>4 DEF CommitDone, InCommit, ClientInv, RecordInv, WaitInv
  <2>2. served \in ServedFor(file) /\ served' = served /\ expected = Len(file)
        /\ wanted = file
    BY <1>1, <1>4, <2>1 DEF RunInv, Fetches, CommitDone, netVars
  <2>3. Fetches(file)'
    BY <1>1, <2>2 DEF Fetches, ServedFor
  <2>4. Recorded(file)' /\ state' = "IDLE" /\ Rests'
    BY <1>1, <1>4, <2>2, CommitRecords DEF RunInv
  <2>5. SawReady' /\ commitCmd # "taken" => FALSE
    BY <1>1, <1>2, <2>1 DEF RunInv, Rests
  <2> QED BY <1>1, <2>2, <2>3, <2>4, <2>5 DEF RunInv
<1> QED BY <1>3, <1>4 DEF Finish

LEMMA ClientRunInv ==
  ASSUME ClientInv, FateInv, RunInv, resets' = 0, Client
  PROVE  RunInv'
<1>1. ~PowerFail
  <2>1. PowerFail => resets' = resets + 1
    BY DEF PowerFail
  <2>2. resets \in 0 .. MaxResets
    BY DEF ClientInv, ClientTypeOK
  <2>3. resets \in Nat
    BY <2>2, Constants
  <2> QED BY <2>1, <2>3
<1> USE <1>1
<1>0. resets' = resets => resets = 0
  OBVIOUS
<1>2. /\ UNCHANGED <<upload, file, toTool, startCmd, commitCmd, wanted>>
      /\ ReadySaid' = ReadySaid
  BY DEF Client, linkVars, histVars, ReadySaid
<1>3. /\ UNCHANGED <<resets, expected, served>> /\ resets = 0
      /\ inRecv' \in {inRecv, "no", "current"}
      /\ connecting' = connecting \/ (connecting # "no" /\ connecting' # "no")
  <2>1. CASE NameFound \/ CommitStep \/ ConfirmBoot \/ Cut
    BY <2>1, <1>0 DEF NameFound, CommitStep, ConfirmBoot, Cut, ctxVars, dataVars, waitVars,
       netVars
  <2>2. CASE PollRecv \/ PollTooEarly
    BY <2>2, <1>0 DEF PollRecv, PollTooEarly, ctxVars, dataVars, waitVars, netVars
  <2>3. CASE RecvData \/ RecvClosed \/ RecvError
    BY <2>3, <1>0 DEF RecvData, RecvClosed, RecvError, Returned, dataVars, waitVars, netVars
  <2>4. CASE Verify \/ PollCommit \/ PollError
    BY <2>4, <1>0 DEF Verify, PollCommit, PollError, dataVars, waitVars, netVars
  <2> QED BY <2>1, <2>2, <2>3, <2>4 DEF Client, PollStep
<1> SUFFICES ASSUME startCmd = "taken" PROVE RunInv'
  BY <1>2, <1>3 DEF RunInv
\* At rest the client does nothing but to confirm a boot.
<1>4. ASSUME Rests, state \in {"READY", "IDLE"} \/ (state = "ERROR" /\ ~isBusy)
      PROVE  /\ UNCHANGED <<state, isBusy, headerDone, waitVars, writing, ext>>
             /\ status' \in {status, [status EXCEPT !.confirmed = Program(@, "CONF")]}
  <2>1. ~PollStep /\ ~NameFound /\ ~CommitStep
    BY <1>4 DEF Rests, PollStep, PollRecv, PollTooEarly, PollFree, RecvData, Returned,
       RecvClosed, RecvError, Verify, PollCommit, PollError, NameFound, CommitStep
  <2> QED BY <2>1 DEF Client, ConfirmBoot, Cut, flashVars, ctxVars, dataVars, atVars, waitVars
<1>5. Fetches(file)'
  <2>1. CASE connecting # "no" \/ served \in ServedFor(file)
    BY <1>2, <1>3, <2>1 DEF Fetches, ServedFor
  <2>2. CASE connecting = "no" /\ ~isBusy /\ ~headerDone /\ inRecv = "no" /\ state = "ERROR"
    <3>1. CASE writing = "none"
      BY <1>4, <2>2, <3>1 DEF Rests, Fetches, waitVars
    <3>2. CASE writing # "none"
      <4>1. /\ ~CommitStep /\ ~ConfirmBoot /\ ~NameFound
            /\ ~PollStep
        BY <2>2, <3>2 DEF CommitStep, ConfirmBoot, NameFound, ClientInv, RecordInv, InCommit,
           PollStep, PollRecv, PollTooEarly, PollFree, RecvData, Returned, RecvClosed,
           RecvError, Verify, PollCommit, PollError
      <4> QED BY <2>2, <4>1 DEF Client, Cut, ctxVars, dataVars, waitVars, Fetches
    <3> QED BY <3>1, <3>2
  <2> QED BY <1>3, <2>1, <2>2 DEF RunInv, Fetches
<1>6. SawReady' /\ commitCmd' # "taken" => state' = "READY" /\ Rests'
  BY <1>2, <1>3, <1>4 DEF SawReady, RunInv, Rests, waitVars
<1>7. ASSUME commitCmd' = "taken"
      PROVE  InCommit' \/ (state' = "IDLE" /\ Rests' /\ Recorded(file)')
  <2>1. CASE InCommit
    <3>1. writing' = writing \/ writing' \in {"magic", "size", "crc"}
      BY DEF Client, NameFound, CommitStep, ConfirmBoot, PollStep, PollRecv, PollTooEarly,
         RecvData, RecvClosed, RecvError, Verify, PollCommit, PollError, Cut, atVars
    <3> QED BY <2>1, <3>1 DEF InCommit
  <2>2. CASE state = "IDLE" /\ Rests /\ Recorded(file)
    <3>1. /\ UNCHANGED <<state, waitVars, writing, ext>>
          /\ status' \in {status, [status EXCEPT !.confirmed = Program(@, "CONF")]}
      BY <1>4, <2>2
    <3>2. /\ status'.magic = status.magic /\ status'.size = status.size
          /\ status'.crc = status.crc
      BY <3>1 DEF ClientInv, ClientTypeOK, StatusSectors
    <3> QED BY <1>2, <2>2, <3>1, <3>2 DEF Rests, Recorded, Stored, waitVars
  <2> QED BY <1>2, <1>3, <1>7, <2>1, <2>2 DEF RunInv
<1>8. inRecv' # "closed" /\ expected' = Len(file') /\ wanted' = file'
  BY <1>2, <1>3 DEF RunInv
<1> QED BY <1>5, <1>6, <1>7, <1>8 DEF RunInv

-----------------------------------------------------------------------------
LEMMA UploadNextInv == UploadInv /\ [UploadNext]_uploadVars => UploadInv'
<1> SUFFICES ASSUME UploadInv, [UploadNext]_uploadVars PROVE UploadInv'
  OBVIOUS
<1>0. ClientInv /\ FateInv /\ RunInv /\ ClientInv'
  BY UploadStays DEF UploadInv
<1>1. CASE ToolSends \/ ToolHears \/ Link
  BY <1>0, <1>1, SendsInv, HearsInv, LinkInv, ToolRunInv DEF UploadInv
<1>2. CASE Board
  <2>1. CASE resets' = 0
    BY <1>0, <1>2, <2>1, BoardInv, TakeRunInv, FinishRunInv, ClientRunInv
       DEF Board, UploadInv
  <2>2. CASE resets' # 0
    BY <1>0, <1>2, <2>2, BoardInv DEF UploadInv, RunInv
  <2> QED BY <2>1, <2>2
<1>3. CASE UNCHANGED uploadVars
  <2>1. FateInv'
    BY <1>0, <1>3 DEF uploadVars, linkVars, histVars, FateInv, LinkTypeOK, TheStart, TheCommit,
       SawReady, ReadySaid
  <2>2. RunInv'
    BY <1>0, <1>3 DEF uploadVars, linkVars, histVars, clientVars, flashVars, ctxVars, dataVars,
       atVars, waitVars, netVars, RunInv, Fetches, Rests, Recorded, Stored, InCommit,
       SawReady, ReadySaid
  <2> QED BY <1>0, <2>1, <2>2 DEF UploadInv
<1> QED BY <1>1, <1>2, <1>3 DEF UploadNext, Tool, ToolSends, ToolHears

LEMMA UploadInitInv == UploadInit => UploadInv
<1> SUFFICES ASSUME UploadInit PROVE UploadInv
  OBVIOUS
<1>1. ClientInv /\ inRecv = "no"
  BY InitInv DEF UploadInit, ClientInit
<1>2. /\ toBoard \in Seq(Commands) /\ toTool \in Seq(Lines)
      /\ Len(toBoard) = 0 /\ Len(toTool) = 0
  BY EmptySeq DEF UploadInit
<1>3. FateInv
  BY <1>2 DEF UploadInit, FateInv, LinkTypeOK, TheStart, TheCommit, SawReady, ReadySaid
<1>4. RunInv
  BY <1>1 DEF UploadInit, RunInv
<1> QED BY <1>1, <1>3, <1>4 DEF UploadInv

\* When the tool promises a reboot into the new firmware, its START was accepted
\* and its COMMIT came through and the board was not reset, the record of this
\* run's file is in the status sector, or being written, and the file in slot
\* B: whatever was lost, late or read for something else, for files of every
\* size, any number of runs and faults, and one task or two.
THEOREM UploadIsCommitted == UploadSpec => []UploadedIsCommitted
<1>1. UploadInv => UploadedIsCommitted
  BY DEF UploadInv, RunInv, InCommit, UploadedIsCommitted
<1> QED BY <1>1, UploadInitInv, UploadNextInv, PTL DEF UploadSpec
=============================================================================
