----------------------------- MODULE OtaClient -----------------------------
(***************************************************************************)
(* The network update client of the application: ota_app/ota_client.c and  *)
(* its AT commands, ota_app/ota_at.c.  It downloads an image over HTTP     *)
(* into slot B of the SPI flash, checks it and, on command, writes a       *)
(* record into the status sector of the internal flash.                    *)
(*                                                                         *)
(* Commands come from the AT parser, ota_poll is called from a task loop;  *)
(* neither caller is part of the repository.  If they are one task, every  *)
(* call runs to its end; if they are two, they switch where a call waits   *)
(* for the network, in START until it is connected and in ota_poll until   *)
(* something is received, and a poll may come between any two flash        *)
(* operations of a command.                                                *)
(* What the network carries is a sequence of units; a unit is as many      *)
(* bytes as one likes.  A CRC32 stands for the units it was made of.       *)
(***************************************************************************)
EXTENDS Integers, Sequences

CONSTANTS
  SectorUnits,   \* units in an erase sector of the SPI flash
  SlotUnits,     \* units in slot B
  ExtUnits,      \* units in slot B and in the golden image behind it
  BufUnits,      \* HTTP_RECV_BUF_SIZE
  File,          \* the firmware file
  Answers,       \* what a server may send: a header and a body
  HttpStart,     \* first unit of a status line "HTTP/1..."
  HeaderEnd,     \* the unit with the empty line that ends a header
  Blank,         \* 0xFF
  Junk,          \* what programming over something else leaves
  Sizes,         \* expected sizes an operator gives, 0 for none
  AtCommands,    \* the AT commands in use
  OneTask,       \* whether one task does both, parse commands and poll
  Units,         \* what an answer or the SPI flash may be made of
  MaxStarts,     \* bound on downloads
  MaxResets,     \* bound on resets of the board
  MaxFaults      \* bound on resets, failed and cut connections together

ASSUME ClientAssumption ==
  /\ SectorUnits \in Nat \ {0}
  /\ SlotUnits \in Nat \ {0} /\ ExtUnits \in Nat /\ SlotUnits <= ExtUnits
  /\ SlotUnits % SectorUnits = 0
  /\ BufUnits \in Nat /\ BufUnits > 2
  /\ HttpStart \in Units /\ HeaderEnd \in Units
  /\ Blank \in Units /\ Junk \notin Units
  /\ File \in Seq(Units)
  /\ \A a \in Answers : /\ a.head \in Seq(Units) /\ a.body \in Seq(Units)
                        /\ Len(a.body) <= ExtUnits
                        \* The head ends where an end of header is first.
                        /\ \A i \in 1 .. Len(a.head \o a.body) :
                             (a.head \o a.body)[i] = HeaderEnd
                               => /\ i >= Len(a.head) /\ Len(a.head) >= 1
                                  /\ a.head[Len(a.head)] = HeaderEnd
  /\ Sizes \subseteq Nat
  /\ OneTask \in BOOLEAN
  /\ MaxStarts \in Nat /\ MaxResets \in Nat /\ MaxFaults \in Nat

VARIABLES
  ext,         \* the SPI flash: slot B, then the golden image
  status,      \* the status sector, by field
  state,       \* g_ota.state
  isBusy,      \* g_ota.is_busy
  expected,    \* g_ota.req.expected_size
  received,    \* g_ota.received_bytes and flash_offset, which move together
  lastSector,  \* g_ota.last_sector
  sock,        \* g_ota.sock >= 0
  headerDone,  \* g_ota.header_done
  buf,         \* g_ota.recv_buf up to recv_off
  crc,         \* g_ota.crc32_accum
  atPhase,     \* g_at_phase
  connecting,  \* ota_start waits for the name, or for the connection
  inRecv,      \* ota_poll is in lwip_recv, on the current socket or a closed one
  writing,     \* the next write to the status sector, in a command
  resp,        \* the answer to the last command, if START or COMMIT
  left,        \* what the server has still to send on the connection
  served,      \* history: the answer of the server to the last START
  starts,      \* number of downloads
  faults,      \* number of faults
  resets       \* number of resets

flashVars  == <<ext, status>>
dataVars   == <<received, lastSector, headerDone, buf, crc>>
ctxVars    == <<state, isBusy, expected, sock, dataVars>>
waitVars   == <<connecting, inRecv>>
atVars     == <<atPhase, writing, resp>>
netVars    == <<left, served>>
clientVars == <<flashVars, ctxVars, atVars, waitVars, netVars, starts, faults, resets>>

ExtCells    == 0 .. (ExtUnits - 1)
GoldenCells == SlotUnits .. (ExtUnits - 1)
NoSector    == -1     \* 0xFFFFFFFF

\* The status sector: what commit, rollback and confirm_boot program into it.
NoRecord == [magic |-> Blank, flag |-> Blank, size |-> Blank, crc |-> Blank,
             confirmed |-> Blank]
StatusSectors ==
  [magic : {"OTA", Blank, Junk}, flag : {"ROLB", Blank, Junk},
   size : Nat \cup {Blank, Junk}, crc : Seq(Units) \cup {Blank, Junk},
   confirmed : {"CONF", Blank, Junk}]

States == {"IDLE", "DOWNLOADING", "VERIFYING", "READY", "COMMIT", "ERROR"}
Phases == {"IDLE", "DOWNLOADING", "VERIFYING", "READY", "ERROR"}
Writes == {"none", "erase", "magic", "size", "crc", "rbErase", "rbFlag"}
Replies == {"", "START,OK", "START,ERR", "START,ERR,BUSY", "COMMIT,OK", "COMMIT,ERR"}

ClientTypeOK ==
  /\ ext \in [ExtCells -> Units \cup {Junk}]
  /\ status \in StatusSectors
  /\ state \in States /\ isBusy \in BOOLEAN
  /\ expected \in Sizes \cup {0} /\ received \in Nat
  /\ lastSector \in Nat \cup {NoSector}
  /\ sock \in BOOLEAN /\ headerDone \in BOOLEAN
  /\ buf \in Seq(Units) /\ Len(buf) <= BufUnits
  /\ crc \in Seq(Units) /\ Len(crc) = received
  /\ atPhase \in Phases
  /\ connecting \in {"no", "name", "socket"}
  /\ inRecv \in {"no", "current", "closed"}
  /\ writing \in Writes /\ resp \in Replies
  /\ left \in Seq(Units) /\ served \in Answers
  /\ starts \in 0 .. MaxStarts /\ faults \in 0 .. MaxFaults
  /\ resets \in 0 .. MaxResets

Fault == faults < MaxFaults /\ faults' = faults + 1

\* What the two memsets of g_ota leave.
Cleared ==
  /\ received' = 0 /\ lastSector' = 0
  /\ sock' = FALSE /\ headerDone' = FALSE /\ buf' = <<>> /\ crc' = <<>>

ClientInit ==
  /\ ext \in [ExtCells -> Units]
  /\ status = NoRecord
  /\ state = "IDLE" /\ isBusy = FALSE
  /\ expected = 0 /\ received = 0 /\ lastSector = 0
  /\ sock = FALSE /\ headerDone = FALSE /\ buf = <<>> /\ crc = <<>>
  /\ atPhase = "IDLE" /\ writing = "none" /\ resp = ""
  /\ connecting = "no" /\ inRecv = "no"
  /\ left = <<>> /\ served \in Answers
  /\ starts = 0 /\ faults = 0 /\ resets = 0

-----------------------------------------------------------------------------
(* Flash. *)

\* Programming only clears bits.
Program(old, v) == IF old \in {Blank, v} THEN v ELSE Junk

SectorOf(off) == off \div SectorUnits
SectorErased(m, s) == [c \in ExtCells |-> IF SectorOf(c) = s THEN Blank ELSE m[c]]

\* Mutant: the sector behind is erased as well.
StoreErasesAhead(data) ==
  LET s     == SectorOf(received)
      clean == IF s # lastSector \/ received = 0
                 THEN SectorErased(SectorErased(ext, s), s + 1) ELSE ext
  IN  /\ ext' = [c \in ExtCells |->
                   IF c \in received .. (received + Len(data) - 1)
                     THEN Program(clean[c], data[c - received + 1]) ELSE clean[c]]
      /\ lastSector' = s

\* ext_flash_write: erase the sector of the first unit if it is a new one or
\* the first, then program all of data, page by page.
Store(data) ==
  LET s     == SectorOf(received)
      clean == IF s # lastSector \/ received = 0 THEN SectorErased(ext, s) ELSE ext
  IN  /\ ext' = [c \in ExtCells |->
                   IF c \in received .. (received + Len(data) - 1)
                     THEN Program(clean[c], data[c - received + 1]) ELSE clean[c]]
      /\ lastSector' = s

\* The units read back from slot B.
Stored(n) == [i \in 1 .. n |-> ext[i - 1]]

-----------------------------------------------------------------------------
(* AT commands. *)

\* The AT parser has control, and no command is being carried out.
AtReady == writing = "none" /\ connecting = "no" /\ (OneTask => inRecv = "no")

AtIdle(cmd) == cmd \in AtCommands /\ AtReady

\* ota_at_dispatch looks at the phase the callback last told it.
StartBusy ==
  /\ AtIdle("START")
  /\ atPhase = "DOWNLOADING"
  /\ resp' = "START,ERR,BUSY"
  /\ UNCHANGED <<flashVars, ctxVars, atPhase, writing, waitVars, netVars, starts, faults, resets>>

\* ota_start: busy with a download, or with an image that is ready.
StartRefused ==
  /\ AtIdle("START")
  /\ atPhase # "DOWNLOADING" /\ isBusy
  /\ resp' = "START,ERR"
  /\ UNCHANGED <<flashVars, ctxVars, atPhase, writing, waitVars, netVars, starts, faults, resets>>

\* ota_start until it waits for the name of the server.
Start ==
  /\ AtIdle("START") /\ starts < MaxStarts
  /\ atPhase # "DOWNLOADING" /\ ~isBusy
  /\ Cleared
  /\ state' = "DOWNLOADING" /\ isBusy' = TRUE
  /\ expected' \in Sizes
  /\ connecting' = "name"
  /\ resp' = ""
  /\ starts' = starts + 1
  /\ UNCHANGED <<flashVars, atPhase, writing, inRecv, netVars, faults, resets>>

\* http_connect has a socket, and waits for the connection.
NameFound ==
  /\ connecting = "name"
  /\ connecting' = "socket"
  /\ sock' = TRUE
  /\ UNCHANGED <<flashVars, state, isBusy, expected, dataVars, atVars, inRecv, netVars,
                 starts, faults, resets>>

\* Mutant: the count of the last download is not cleared.
ConnectedKeepsPlace ==
  /\ connecting = "socket" /\ sock
  /\ connecting' = "no"
  /\ state' = "DOWNLOADING"
  /\ received' = Len(crc) + 1 /\ lastSector' = NoSector
  /\ headerDone' = FALSE /\ buf' = <<>> /\ crc' = <<>>
  /\ atPhase' = "DOWNLOADING"
  /\ resp' = "START,OK"
  /\ served' \in Answers
  /\ left' = served'.head \o served'.body
  /\ UNCHANGED <<flashVars, isBusy, expected, sock, writing, inRecv, starts, faults, resets>>

\* The request is on its way, and the server has an answer.  is_busy is not
\* set again.
Connected ==
  /\ connecting = "socket" /\ sock
  /\ connecting' = "no"
  /\ state' = "DOWNLOADING"
  /\ received' = 0 /\ lastSector' = NoSector
  /\ headerDone' = FALSE /\ buf' = <<>> /\ crc' = <<>>
  /\ atPhase' = "DOWNLOADING"
  /\ resp' = "START,OK"
  /\ served' \in Answers
  /\ left' = served'.head \o served'.body
  /\ UNCHANGED <<flashVars, isBusy, expected, sock, writing, inRecv, starts, faults, resets>>

\* No name, no connection, no way to send the request, or no socket any more:
\* the callback is not called.
StartFailed ==
  /\ connecting # "no"
  /\ IF connecting = "socket" /\ ~sock THEN UNCHANGED faults ELSE Fault
  /\ connecting' = "no"
  /\ sock' = FALSE
  /\ state' = "ERROR" /\ isBusy' = FALSE
  /\ resp' = "START,ERR"
  /\ UNCHANGED <<flashVars, expected, dataVars, atPhase, writing, inRecv, netVars,
                 starts, resets>>

\* http_disconnect; a task that waits on the socket finds it closed.
Disconnect ==
  /\ sock' = FALSE
  /\ left' = <<>>

\* ota_abort.
Abort ==
  /\ AtIdle("ABORT") /\ isBusy
  /\ Disconnect
  /\ inRecv' = IF inRecv = "current" THEN "closed" ELSE inRecv
  /\ state' = "IDLE" /\ isBusy' = FALSE
  /\ resp' = ""
  /\ UNCHANGED <<flashVars, expected, dataVars, atPhase, writing, connecting, served,
                 starts, faults, resets>>

AbortRefused ==
  /\ AtIdle("ABORT") /\ ~isBusy
  /\ resp' = ""
  /\ UNCHANGED <<flashVars, ctxVars, atPhase, writing, waitVars, netVars, starts, faults, resets>>

\* ota_commit.
Commit ==
  /\ AtIdle("COMMIT")
  /\ IF state = "READY"
       THEN state' = "COMMIT" /\ writing' = "erase" /\ UNCHANGED resp
       ELSE resp' = "COMMIT,ERR" /\ UNCHANGED <<state, writing>>
  /\ UNCHANGED <<flashVars, isBusy, expected, sock, dataVars, atPhase, waitVars, netVars,
                 starts, faults, resets>>

\* Mutant: the status sector is not erased before the record is written.
CommitWithoutErase ==
  /\ \/ writing = "erase" /\ UNCHANGED status /\ writing' = "magic"
     \/ writing = "magic" /\ writing' = "size"
        /\ status' = [status EXCEPT !.magic = Program(@, "OTA")]
     \/ writing = "size" /\ writing' = "crc"
        /\ status' = [status EXCEPT !.size = Program(@, received)]
  /\ UNCHANGED <<ext, ctxVars, atPhase, resp, waitVars, netVars, starts, faults, resets>>

\* ota_step_commit, one flash operation at a time.
CommitStep ==
  /\ \/ writing = "erase" /\ status' = NoRecord /\ writing' = "magic"
     \/ writing = "magic" /\ writing' = "size"
        /\ status' = [status EXCEPT !.magic = Program(@, "OTA")]
     \/ writing = "size" /\ writing' = "crc"
        /\ status' = [status EXCEPT !.size = Program(@, received)]
  /\ UNCHANGED <<ext, ctxVars, atPhase, resp, waitVars, netVars, starts, faults, resets>>

CommitDone ==
  /\ writing = "crc" /\ writing' = "none"
  /\ status' = [status EXCEPT !.crc = Program(@, crc)]
  /\ state' = "IDLE" /\ isBusy' = FALSE
  /\ resp' = "COMMIT,OK"
  /\ UNCHANGED <<ext, expected, sock, dataVars, atPhase, waitVars, netVars,
                 starts, faults, resets>>

\* ota_rollback does not look at the state.
Rollback ==
  /\ AtIdle("ROLLBACK")
  /\ writing' = "rbErase" /\ resp' = ""
  /\ UNCHANGED <<flashVars, ctxVars, atPhase, waitVars, netVars, starts, faults, resets>>

RollbackStep ==
  /\ \/ writing = "rbErase" /\ writing' = "rbFlag"
        /\ status' = NoRecord
     \/ writing = "rbFlag" /\ writing' = "none"
        /\ status' = [status EXCEPT !.flag = Program(@, "ROLB")]
  /\ UNCHANGED <<ext, ctxVars, atPhase, resp, waitVars, netVars, starts, faults, resets>>

\* ota_confirm_boot, called by the application after a while.
ConfirmBoot ==
  /\ writing = "none"
  /\ status' = [status EXCEPT !.confirmed = Program(@, "CONF")]
  /\ UNCHANGED <<ext, ctxVars, atVars, waitVars, netVars, starts, faults, resets>>

-----------------------------------------------------------------------------
(* ota_poll. *)

\* A call of ota_poll begins.
PollFree ==
  /\ inRecv = "no" /\ isBusy
  /\ OneTask => connecting = "no" /\ writing = "none"

PollRecv ==
  /\ PollFree /\ state = "DOWNLOADING" /\ connecting = "no"
  /\ inRecv' = "current"
  /\ UNCHANGED <<flashVars, ctxVars, atVars, connecting, netVars, starts, faults, resets>>

\* ota_start has no connection yet: lwip_recv fails at once.
PollTooEarly ==
  /\ PollFree /\ state = "DOWNLOADING" /\ connecting # "no"
  /\ Disconnect
  /\ state' = "ERROR"
  /\ UNCHANGED <<flashVars, isBusy, expected, dataVars, atVars, waitVars, served,
                 starts, faults, resets>>

\* lwip_recv returns on the current socket.
Returned == inRecv = "current" /\ inRecv' = "no"

EndOfHeader(b) == {i \in 1 .. Len(b) : b[i] = HeaderEnd}
FirstOf(S) == CHOOSE i \in S : \A j \in S : i <= j

\* The body in what has been received: http_skip_headers.
BodyIn(b) == SubSeq(b, FirstOf(EndOfHeader(b)) + 1, Len(b))

\* Header incomplete: -1 if the buffer is full, else more is needed.
HeaderPart(b) ==
  /\ ~headerDone /\ EndOfHeader(b) = {}
  /\ IF Len(b) >= BufUnits - 1
       THEN Disconnect /\ state' = "ERROR"
       ELSE UNCHANGED <<sock, state>> /\ left' = SubSeq(left, Len(b) - Len(buf) + 1, Len(left))
  /\ buf' = b
  /\ UNCHANGED <<ext, received, lastSector, headerDone, crc, atPhase>>

\* Header complete, but no "HTTP/1." at its start.
HeaderBad(b) ==
  /\ ~headerDone /\ EndOfHeader(b) # {} /\ b[1] # HttpStart
  /\ Disconnect
  /\ state' = "ERROR"
  /\ buf' = b
  /\ UNCHANGED <<ext, received, lastSector, headerDone, crc, atPhase>>

\* Body units, with or without the header in front of them.
BodyPart(b) ==
  /\ headerDone \/ (EndOfHeader(b) # {} /\ b[1] = HttpStart)
  /\ LET body == IF headerDone THEN b ELSE BodyIn(b)
     IN  IF body = <<>>
           THEN UNCHANGED <<ext, received, lastSector, crc, atPhase>>
           ELSE /\ Store(body)
                /\ received' = received + Len(body)
                /\ crc' = crc \o body
                /\ atPhase' = "DOWNLOADING"
  /\ headerDone' = TRUE
  /\ buf' = <<>>
  /\ left' = SubSeq(left, Len(b) - Len(buf) + 1, Len(left))
  /\ UNCHANGED <<sock, state>>

\* recv_len > 0: any part of what the server has sent.
RecvData ==
  /\ Returned
  /\ \E n \in 1 .. Len(left) :
       /\ Len(buf) + n <= BufUnits
       /\ LET b == buf \o SubSeq(left, 1, n)
          IN  HeaderPart(b) \/ HeaderBad(b) \/ BodyPart(b)
  /\ UNCHANGED <<status, isBusy, expected, writing, resp, connecting, served,
                 starts, faults, resets>>

\* Mutant: the socket stays open.
RecvClosedKeepsSocket ==
  /\ inRecv # "no" /\ inRecv' = "no"
  /\ inRecv = "current" => left = <<>>
  /\ UNCHANGED <<sock, left>>
  /\ state' = "VERIFYING"
  /\ atPhase' = "VERIFYING"
  /\ UNCHANGED <<flashVars, isBusy, expected, dataVars, writing, resp, connecting, served,
                 starts, faults, resets>>

\* recv_len = 0: the server has closed the connection, or ota_abort the socket.
\* Whatever state the client is in by now, it becomes VERIFYING.
RecvClosed ==
  /\ inRecv # "no" /\ inRecv' = "no"
  /\ inRecv = "current" => left = <<>>
  /\ Disconnect
  /\ state' = "VERIFYING"
  /\ atPhase' = "VERIFYING"
  /\ UNCHANGED <<flashVars, isBusy, expected, dataVars, writing, resp, connecting, served,
                 starts, faults, resets>>

\* recv_len < 0: the connection broke, or ota_abort has closed the socket.
\* Whatever state the client is in by now, it becomes ERROR.
RecvError ==
  /\ inRecv # "no"
  /\ IF inRecv = "current" THEN Fault ELSE UNCHANGED faults
  /\ inRecv' = "no"
  /\ Disconnect
  /\ state' = "ERROR"
  /\ UNCHANGED <<flashVars, isBusy, expected, dataVars, atVars, connecting, served,
                 starts, resets>>

\* Mutant: the size is not compared.
VerifyAnySize ==
  /\ PollFree /\ state = "VERIFYING"
  /\ IF Stored(received) # crc
       THEN state' = "ERROR" /\ atPhase' = "ERROR"
       ELSE state' = "READY" /\ atPhase' = "READY"
  /\ UNCHANGED <<flashVars, isBusy, expected, sock, dataVars, writing, resp, waitVars, netVars,
                 starts, faults, resets>>

\* Size first, then the CRC of what is read back.
Verify ==
  /\ PollFree /\ state = "VERIFYING"
  /\ IF \/ expected > 0 /\ received # expected
        \/ Stored(received) # crc
       THEN state' = "ERROR" /\ atPhase' = "ERROR"
       ELSE state' = "READY" /\ atPhase' = "READY"
  /\ UNCHANGED <<flashVars, isBusy, expected, sock, dataVars, writing, resp, waitVars, netVars,
                 starts, faults, resets>>

\* Mutant: is_busy is not cleared.
PollErrorStaysBusy ==
  /\ PollFree /\ state = "ERROR"
  /\ atPhase' = "ERROR"
  /\ Disconnect
  /\ UNCHANGED <<flashVars, state, isBusy, expected, dataVars, writing, resp, waitVars,
                 served, starts, faults, resets>>

\* ota_commit is between two of its flash operations in the other task: all of
\* ota_step_commit runs here as well.  What a reset leaves in the middle of it
\* is what it leaves in the middle of the other one.
PollCommit ==
  /\ PollFree /\ state = "COMMIT"
  /\ status' = [NoRecord EXCEPT !.magic = "OTA", !.size = received, !.crc = crc]
  /\ state' = "IDLE" /\ isBusy' = FALSE
  /\ UNCHANGED <<ext, expected, sock, dataVars, atVars, waitVars, netVars,
                 starts, faults, resets>>

PollError ==
  /\ PollFree /\ state = "ERROR"
  /\ atPhase' = "ERROR"
  /\ Disconnect
  /\ isBusy' = FALSE
  /\ UNCHANGED <<flashVars, state, expected, dataVars, writing, resp, waitVars, served,
                 starts, faults, resets>>

-----------------------------------------------------------------------------
(* The network and the power supply. *)

\* The server closes the connection early: part of the response is lost.
Cut ==
  /\ Fault
  /\ sock /\ left # <<>>
  /\ left' = <<>>
  /\ UNCHANGED <<flashVars, ctxVars, atVars, waitVars, served, starts, resets>>

\* The status sector after a reset in the middle of a write to it.
TornStatus ==
  CASE writing \in {"erase", "rbErase"} -> {status, NoRecord}
    [] writing = "magic"  -> {status, [status EXCEPT !.magic = Junk]}
    [] writing = "size"   -> {status, [status EXCEPT !.size = Junk]}
    [] writing = "crc"    -> {status, [status EXCEPT !.crc = Junk]}
    [] writing = "rbFlag" -> {status, [status EXCEPT !.flag = Junk]}
    [] OTHER              -> {status}

\* What a download had not finished writing is of no use to anyone: the SPI
\* flash is taken as it is.
PowerFail ==
  /\ Fault
  /\ resets < MaxResets /\ resets' = resets + 1
  /\ status' \in TornStatus
  /\ Cleared
  /\ state' = "IDLE" /\ isBusy' = FALSE /\ expected' = 0
  /\ atPhase' = "IDLE" /\ writing' = "none" /\ resp' = ""
  /\ connecting' = "no" /\ inRecv' = "no"
  /\ left' = <<>>
  /\ UNCHANGED <<ext, served, starts>>

AtStep ==
  \/ StartBusy \/ StartRefused
  \/ Start \/ NameFound \/ Connected \/ StartFailed
  \/ Abort \/ AbortRefused
  \/ Commit \/ CommitStep \/ CommitDone
  \/ Rollback \/ RollbackStep
  \/ ConfirmBoot

PollStep ==
  \/ PollRecv \/ PollTooEarly
  \/ RecvData \/ RecvClosed \/ RecvError
  \/ Verify \/ PollCommit \/ PollError

ClientNext == AtStep \/ PollStep \/ Cut \/ PowerFail

ClientSpec == ClientInit /\ [][ClientNext]_clientVars

\* The loop that calls ota_poll gets its turn between AT commands, a call on a
\* closed socket returns, connecting ends in one way or the other, and so do
\* flash operations; AT commands come when they do.
BoardFairness ==
  /\ SF_clientVars(PollRecv \/ PollTooEarly \/ Verify \/ PollCommit \/ PollError)
  /\ SF_clientVars(RecvError /\ UNCHANGED faults)
  /\ WF_clientVars(NameFound) /\ WF_clientVars(Connected)
  /\ WF_clientVars(StartFailed /\ UNCHANGED faults)
  /\ WF_clientVars(CommitStep) /\ WF_clientVars(CommitDone)
  /\ WF_clientVars(RollbackStep)

\* The server sends what it has to send, and closes the connection.
ServerFairness == SF_clientVars(RecvData \/ RecvClosed)
-----------------------------------------------------------------------------
(* What the client promises. *)

IsStored(seq) == received = Len(seq) /\ Stored(received) = seq

\* "Download complete", "Verification OK": an image reported READY, and one
\* being committed, is the whole body the server had to send, if the operator
\* gave its size: over every way of cutting the answer into pieces, pieces
\* that cross a sector boundary, cut connections and aborted downloads before.
ReadyIsServed ==
  state \in {"READY", "COMMIT"} /\ expected > 0 /\ expected = Len(served.body)
    => IsStored(served.body)

\* When COMMIT is answered OK, the status sector holds a complete record of
\* what is in slot B at that moment, and nothing of earlier commits and
\* rollbacks, resets in the middle of them included.
CommitRecordsImage ==
  [][ writing = "crc" /\ resp' = "COMMIT,OK"
      => /\ status'.magic = "OTA" /\ status'.flag = Blank
         /\ status'.size = received /\ status'.crc = Stored(received) ]_clientVars

\* No way out of a download loses its socket: while one is open, no START is
\* accepted, which would overwrite the descriptor.
SocketsClosed ==
  sock /\ connecting = "no" => isBusy \/ atPhase = "DOWNLOADING"

\* "Slot B (Download buffer): 2MB" (flash_map.h:40) with the golden image right
\* behind it.  Nothing in the client limits a download to slot B; one that fits
\* leaves the golden image alone, with its erases of whole sectors too.
GoldenStands ==
  [][ Len(served.body) <= SlotUnits
      => \A c \in GoldenCells : ext'[c] = ext[c] ]_clientVars

\* ota_poll brings every download to READY or to rest.
DownloadSettles == isBusy ~> (~isBusy \/ state = "READY")

\* "Erase sector if crossing boundary" (ota_client.c:232): a download of the
\* right file that meets no fault does not fail.
UndisturbedSucceeds ==
  faults = 0 /\ served.body = File /\ expected \in {0, Len(File)} => state # "ERROR"
=============================================================================
