-------------------------- MODULE OtaClient_proofs --------------------------
(***************************************************************************)
(* Proofs about the network update client, for sectors, slot, buffer and   *)
(* file of any size, any set of answers and any number of faults.          *)
(***************************************************************************)
EXTENDS OtaClient, SequenceTheorems, TLAPS

(* The inductive invariant. *)

\* An open socket belongs to a download, and bars the way to another START.
SocketInv ==
  sock /\ connecting = "no" =>
    state = "DOWNLOADING" /\ (isBusy \/ atPhase = "DOWNLOADING")

\* Who waits for the network, and what may have come.
WaitInv ==
  /\ inRecv = "current" => state = "DOWNLOADING" /\ isBusy /\ connecting = "no"
  /\ writing # "none" => connecting = "no"
  /\ left # <<>> => sock /\ connecting = "no"
  /\ connecting # "no" => received = 0 /\ crc = <<>> /\ buf = <<>> /\ ~headerDone

\* seq is the part of whole behind its first k units.
PartOf(seq, whole, k) ==
  /\ k + Len(seq) <= Len(whole)
  /\ \A i \in 1 .. Len(seq) : seq[i] = whole[k + i]

Answered == served.head \o served.body

\* Nothing is lost, doubled or moved between the server and the CRC.
StreamInv ==
  IF headerDone
    THEN /\ buf = <<>>
         /\ PartOf(crc, served.body, 0)
         /\ left = <<>> \/ PartOf(left, served.body, received)
    ELSE /\ crc = <<>>
         /\ PartOf(buf, Answered, 0)
         /\ left = <<>> \/ PartOf(left, Answered, Len(buf))

\* The record is being written.
InCommit == writing \in {"erase", "magic", "size", "crc"}

\* An image was verified and no other was begun.
HasImage == state \in {"READY", "COMMIT"} \/ InCommit

\* What a verification has found stays so until the next START.
ReadyInv ==
  HasImage =>
    /\ Stored(received) = crc
    /\ expected > 0 => received = expected
    /\ inRecv = "no"

\* The record of the image, whole and with its magic only.
WholeRecord == [NoRecord EXCEPT !.magic = "OTA", !.size = received, !.crc = crc]
MagicRecord == [NoRecord EXCEPT !.magic = "OTA"]
SizedRecord == [NoRecord EXCEPT !.magic = "OTA", !.size = received]

\* The record, as far as it is written; or all of it, if a poll came between.
RecordInv ==
  /\ InCommit => state = "COMMIT" \/ (state = "IDLE" /\ ~isBusy)
  /\ writing = "magic" => status \in {NoRecord, WholeRecord}
  /\ writing = "size" => status \in {MagicRecord, WholeRecord}
  /\ writing = "crc" => status \in {SizedRecord, WholeRecord}

ClientInv ==
  ClientTypeOK /\ SocketInv /\ WaitInv /\ StreamInv /\ ReadyInv /\ RecordInv

-----------------------------------------------------------------------------
(* Sequences: taking n units off u and adding them to s. *)

LEMMA TakeUnits ==
  ASSUME NEW U, NEW s \in Seq(U), NEW u \in Seq(U), NEW n \in 1 .. Len(u)
  PROVE  LET b == s \o SubSeq(u, 1, n)
             r == SubSeq(u, n + 1, Len(u))
         IN  /\ b \in Seq(U) /\ Len(b) = Len(s) + n
             /\ \A i \in 1 .. Len(b) :
                  b[i] = IF i <= Len(s) THEN s[i] ELSE u[i - Len(s)]
             /\ r \in Seq(U) /\ Len(r) = Len(u) - n
             /\ \A i \in 1 .. Len(r) : r[i] = u[n + i]
<1>1. Len(s) \in Nat /\ Len(u) \in Nat /\ \A i \in 1 .. Len(u) : u[i] \in U
  BY LenProperties, ElementOfSeq
<1>2. /\ SubSeq(u, 1, n) \in Seq(U) /\ Len(SubSeq(u, 1, n)) = n
      /\ \A i \in 1 .. n : SubSeq(u, 1, n)[i] = u[i]
  <2>1. \A i \in 1 .. n : u[i] \in U
    BY <1>1
  <2> QED BY <1>1, <2>1, SubSeqProperties
<1>3. /\ SubSeq(u, n + 1, Len(u)) \in Seq(U)
      /\ Len(SubSeq(u, n + 1, Len(u))) = Len(u) - n
      /\ \A i \in 1 .. Len(u) - n : SubSeq(u, n + 1, Len(u))[i] = u[n + i]
  <2>1. \A i \in (n + 1) .. Len(u) : u[i] \in U
    BY <1>1
  <2>2. /\ SubSeq(u, n + 1, Len(u)) \in Seq(U)
        /\ Len(SubSeq(u, n + 1, Len(u)))
             = IF n + 1 <= Len(u) THEN Len(u) - (n + 1) + 1 ELSE 0
        /\ \A i \in 1 .. Len(u) - (n + 1) + 1 :
             SubSeq(u, n + 1, Len(u))[i] = u[n + 1 + i - 1]
    <3>1. n + 1 \in Int /\ Len(u) \in Int
      BY <1>1
    <3> QED BY <2>1, <3>1, SubSeqProperties
  <2> QED BY <1>1, <2>2
<1>4. /\ s \o SubSeq(u, 1, n) \in Seq(U)
      /\ Len(s \o SubSeq(u, 1, n)) = Len(s) + n
      /\ \A i \in 1 .. Len(s) + n : (s \o SubSeq(u, 1, n))[i] =
           IF i <= Len(s) THEN s[i] ELSE SubSeq(u, 1, n)[i - Len(s)]
  BY <1>2, ConcatProperties
<1> QED BY <1>1, <1>2, <1>3, <1>4

LEMMA TakePart ==
  ASSUME NEW U, NEW s \in Seq(U), NEW u \in Seq(U), NEW n \in 1 .. Len(u),
         NEW whole \in Seq(U), PartOf(s, whole, 0), PartOf(u, whole, Len(s))
  PROVE  /\ PartOf(s \o SubSeq(u, 1, n), whole, 0)
         /\ PartOf(SubSeq(u, n + 1, Len(u)), whole, Len(s) + n)
<1> DEFINE b == s \o SubSeq(u, 1, n)
           r == SubSeq(u, n + 1, Len(u))
<1>1. /\ Len(b) = Len(s) + n
      /\ \A i \in 1 .. Len(b) : b[i] = IF i <= Len(s) THEN s[i] ELSE u[i - Len(s)]
      /\ Len(r) = Len(u) - n
      /\ \A i \in 1 .. Len(r) : r[i] = u[n + i]
  BY TakeUnits
<1>2. Len(s) \in Nat /\ Len(u) \in Nat /\ Len(whole) \in Nat
  BY LenProperties
<1>3. /\ Len(s) + Len(u) <= Len(whole)
      /\ \A i \in 1 .. Len(s) : s[i] = whole[0 + i]
      /\ \A i \in 1 .. Len(u) : u[i] = whole[Len(s) + i]
  BY DEF PartOf
<1> HIDE DEF b, r
<1>4. PartOf(b, whole, 0)
  <2>1. ASSUME NEW i \in 1 .. Len(b) PROVE b[i] = whole[0 + i]
    <3>1. CASE i <= Len(s)
      BY <1>1, <1>2, <1>3, <3>1
    <3>2. CASE i > Len(s)
      <4>1. i - Len(s) \in 1 .. Len(u)
        BY <1>1, <1>2, <3>2
      <4>2. u[i - Len(s)] = whole[Len(s) + (i - Len(s))]
        BY <1>3, <4>1
      <4> QED BY <1>1, <1>2, <3>2, <4>2
    <3> QED BY <1>1, <1>2, <3>1, <3>2
  <2> QED BY <1>1, <1>2, <1>3, <2>1 DEF PartOf
<1>5. PartOf(r, whole, Len(s) + n)
  <2>1. ASSUME NEW i \in 1 .. Len(r) PROVE r[i] = whole[Len(s) + n + i]
    <3>1. n + i \in 1 .. Len(u)
      BY <1>1, <1>2
    <3>2. u[n + i] = whole[Len(s) + (n + i)]
      BY <1>3, <3>1
    <3>3. Len(s) + (n + i) = Len(s) + n + i
      BY <1>2
    <3> QED BY <1>1, <3>2, <3>3
  <2> QED BY <1>1, <1>2, <1>3, <2>1 DEF PartOf
<1> QED BY <1>4, <1>5 DEF b, r

\* A part as long as the whole is the whole.
LEMMA WholePart ==
  ASSUME NEW U, NEW s \in Seq(U), NEW whole \in Seq(U), PartOf(s, whole, 0),
         Len(s) = Len(whole)
  PROVE  s = whole
<1>1. \A i \in 1 .. Len(s) : s[i] = whole[i]
  BY LenProperties DEF PartOf
<1> QED BY <1>1, SeqEqual

-----------------------------------------------------------------------------
(* What a call of lwip_recv adds. *)

\* The header of an answer ends where it should.
LEMMA HeaderEnds ==
  ASSUME NEW a \in Answers, NEW b \in Seq(Units), EndOfHeader(b) # {},
         PartOf(b, a.head \o a.body, 0)
  PROVE  Len(a.head) \in 1 .. Len(b) /\ FirstOf(EndOfHeader(b)) = Len(a.head)
<1> DEFINE whole == a.head \o a.body
           h == Len(a.head)
<1>1. a.head \in Seq(Units) /\ a.body \in Seq(Units)
  BY ClientAssumption
<1>2. /\ whole \in Seq(Units) /\ Len(whole) = h + Len(a.body)
      /\ \A i \in 1 .. Len(whole) : whole[i] =
           IF i <= h THEN a.head[i] ELSE a.body[i - h]
  BY <1>1, ConcatProperties
<1>3. h \in Nat /\ Len(b) \in Nat /\ Len(whole) \in Nat
  BY <1>1, <1>2, LenProperties
<1>4. 0 + Len(b) <= Len(whole) /\ \A i \in 1 .. Len(b) : b[i] = whole[0 + i]
  BY DEF PartOf
<1>5. \A i \in 1 .. Len(whole) : whole[i] = HeaderEnd
        => i >= h /\ h >= 1 /\ a.head[h] = HeaderEnd
  BY ClientAssumption
<1> HIDE DEF whole, h
<1>6. \A i \in 1 .. Len(b) : i \in 1 .. Len(whole) /\ b[i] = whole[i]
  <2> TAKE i \in 1 .. Len(b)
  <2>1. 0 + i = i /\ i \in 1 .. Len(whole)
    BY <1>3, <1>4
  <2> QED BY <1>4, <2>1
<1>7. \A i \in EndOfHeader(b) : i \in 1 .. Len(b) /\ i >= h /\ h >= 1 /\ a.head[h] = HeaderEnd
  BY <1>5, <1>6 DEF EndOfHeader
<1>8. h \in 1 .. Len(b) /\ a.head[h] = HeaderEnd
  BY <1>3, <1>7
<1>9. h \in EndOfHeader(b)
  <2>1. h \in 1 .. Len(whole) /\ h <= h /\ b[h] = whole[h]
    BY <1>3, <1>6, <1>8
  <2>2. whole[h] = HeaderEnd
    BY <1>2, <1>8, <2>1
  <2> QED BY <1>8, <2>1, <2>2 DEF EndOfHeader
<1>10. FirstOf(EndOfHeader(b)) \in EndOfHeader(b) /\ FirstOf(EndOfHeader(b)) <= h
  BY <1>7, <1>9 DEF FirstOf
<1>11. FirstOf(EndOfHeader(b)) = h
  BY <1>3, <1>7, <1>10
<1> QED BY <1>8, <1>11 DEF h

LEMMA BodyBegins ==
  ASSUME NEW a \in Answers, NEW b \in Seq(Units), EndOfHeader(b) # {},
         PartOf(b, a.head \o a.body, 0)
  PROVE  /\ BodyIn(b) \in Seq(Units)
         /\ Len(b) = Len(a.head) + Len(BodyIn(b))
         /\ PartOf(BodyIn(b), a.body, 0)
<1> DEFINE h == Len(a.head)
           whole == a.head \o a.body
<1>1. h \in 1 .. Len(b) /\ BodyIn(b) = SubSeq(b, h + 1, Len(b))
  BY HeaderEnds DEF BodyIn
<1>2. a.head \in Seq(Units) /\ a.body \in Seq(Units)
  BY ClientAssumption
<1>3. h \in Nat /\ Len(b) \in Nat /\ Len(a.body) \in Nat
  BY <1>2, LenProperties
<1>4. /\ Len(whole) = h + Len(a.body)
      /\ \A i \in 1 .. h + Len(a.body) : whole[i] =
           IF i <= h THEN a.head[i] ELSE a.body[i - h]
  BY <1>2, ConcatProperties
<1>5. 0 + Len(b) <= Len(whole) /\ \A i \in 1 .. Len(b) : b[i] = whole[0 + i]
  BY DEF PartOf
<1> HIDE DEF h, whole
<1>6. \A i \in (h + 1) .. Len(b) : b[i] \in Units
  BY <1>3, ElementOfSeq
<1>7. /\ BodyIn(b) \in Seq(Units)
      /\ Len(BodyIn(b)) = IF h + 1 <= Len(b) THEN Len(b) - (h + 1) + 1 ELSE 0
      /\ \A i \in 1 .. Len(b) - (h + 1) + 1 : BodyIn(b)[i] = b[h + 1 + i - 1]
  <2>1. h + 1 \in Int /\ Len(b) \in Int
    BY <1>3
  <2>2. /\ SubSeq(b, h + 1, Len(b)) \in Seq(Units)
        /\ Len(SubSeq(b, h + 1, Len(b)))
             = IF h + 1 <= Len(b) THEN Len(b) - (h + 1) + 1 ELSE 0
        /\ \A i \in 1 .. Len(b) - (h + 1) + 1 :
             SubSeq(b, h + 1, Len(b))[i] = b[h + 1 + i - 1]
    BY <1>6, <2>1, SubSeqProperties
  <2> QED BY <1>1, <2>2
<1>8. Len(BodyIn(b)) = Len(b) - h
  BY <1>1, <1>3, <1>7
<1>9. ASSUME NEW i \in 1 .. Len(BodyIn(b)) PROVE BodyIn(b)[i] = a.body[0 + i]
  <2>1. i \in 1 .. Len(b) - (h + 1) + 1 /\ h + 1 + i - 1 = h + i /\ 0 + (h + i) = h + i
        /\ 0 + i = i
    BY <1>3, <1>8
  <2>2. h + i \in 1 .. Len(b) /\ h + i \in 1 .. h + Len(a.body) /\ ~(h + i <= h)
    BY <1>3, <1>4, <1>5, <1>8
  <2>3. (h + i) - h = i
    BY <1>3
  <2>4. whole[h + i] = a.body[i]
    BY <1>4, <2>2, <2>3
  <2>5. b[h + i] = whole[h + i]
    BY <1>5, <2>1, <2>2
  <2> QED BY <1>7, <2>1, <2>4, <2>5
<1>10. 0 + Len(BodyIn(b)) <= Len(a.body) /\ Len(b) = h + Len(BodyIn(b))
  BY <1>3, <1>4, <1>5, <1>8
<1>11. PartOf(BodyIn(b), a.body, 0)
  BY <1>9, <1>10 DEF PartOf
<1> QED BY <1>7, <1>10, <1>11 DEF h

LEMMA BodyFollows ==
  ASSUME NEW a \in Answers, NEW k \in Nat, NEW r \in Seq(Units),
         PartOf(r, a.head \o a.body, Len(a.head) + k)
  PROVE  PartOf(r, a.body, k)
<1> DEFINE h == Len(a.head)
           whole == a.head \o a.body
<1>1. a.head \in Seq(Units) /\ a.body \in Seq(Units)
  BY ClientAssumption
<1>2. h \in Nat /\ Len(r) \in Nat /\ Len(a.body) \in Nat
  BY <1>1, LenProperties
<1>3. /\ Len(whole) = h + Len(a.body)
      /\ \A i \in 1 .. h + Len(a.body) : whole[i] =
           IF i <= h THEN a.head[i] ELSE a.body[i - h]
  BY <1>1, ConcatProperties
<1>4. /\ h + k + Len(r) <= Len(whole)
      /\ \A i \in 1 .. Len(r) : r[i] = whole[h + k + i]
  BY DEF PartOf
<1> HIDE DEF h, whole
<1>5. ASSUME NEW i \in 1 .. Len(r) PROVE r[i] = a.body[k + i]
  <2>1. h + k + i \in 1 .. h + Len(a.body) /\ ~(h + k + i <= h)
    BY <1>2, <1>3, <1>4
  <2>2. (h + k + i) - h = k + i
    BY <1>2
  <2> QED BY <1>3, <1>4, <2>1, <2>2
<1>6. k + Len(r) <= Len(a.body)
  BY <1>2, <1>3, <1>4
<1> QED BY <1>5, <1>6 DEF PartOf

LEMMA StoreType ==
  ASSUME ClientTypeOK, NEW data \in Seq(Units), Store(data)
  PROVE  /\ ext' \in [ExtCells -> Units \cup {Junk}]
         /\ lastSector' \in Nat \cup {NoSector}
<1>1. received \in Nat /\ Len(data) \in Nat /\ SectorUnits \in Nat \ {0} /\ Blank \in Units
  BY ClientAssumption, LenProperties DEF ClientTypeOK
<1>2. SectorOf(received) \in Nat
  BY <1>1 DEF SectorOf
<1> DEFINE clean == IF SectorOf(received) # lastSector \/ received = 0
                      THEN SectorErased(ext, SectorOf(received)) ELSE ext
<1>3. clean \in [ExtCells -> Units \cup {Junk}]
  BY <1>1 DEF ClientTypeOK, SectorErased
<1>4. ext' = [c \in ExtCells |->
                IF c \in received .. (received + Len(data) - 1)
                  THEN Program(clean[c], data[c - received + 1]) ELSE clean[c]]
  BY DEF Store
<1> HIDE DEF clean
<1>5. ASSUME NEW c \in ExtCells, c \in received .. (received + Len(data) - 1)
      PROVE  Program(clean[c], data[c - received + 1]) \in Units \cup {Junk}
  <2>1. c - received + 1 \in 1 .. Len(data)
    BY <1>1, <1>5
  <2>2. data[c - received + 1] \in Units
    BY <2>1, ElementOfSeq
  <2> QED BY <2>2 DEF Program
<1> QED BY <1>2, <1>3, <1>4, <1>5 DEF Store

-----------------------------------------------------------------------------
(* The invariant holds at first, and every step keeps it. *)

LEMMA Constants ==
  /\ Blank \in Units /\ Junk \notin Units
  /\ <<>> \in Seq(Units) /\ Len(<<>>) = 0
  /\ Sizes \subseteq Nat /\ MaxStarts \in Nat /\ MaxFaults \in Nat /\ MaxResets \in Nat
  /\ BufUnits \in Nat /\ BufUnits > 2
BY ClientAssumption, EmptySeq

LEMMA AnswerUnits ==
  ASSUME NEW a \in Answers
  PROVE  /\ a.head \in Seq(Units) /\ a.body \in Seq(Units)
         /\ a.head \o a.body \in Seq(Units)
<1>1. a.head \in Seq(Units) /\ a.body \in Seq(Units)
  BY ClientAssumption
<1> QED BY <1>1, ConcatProperties

\* Nothing received yet.
LEMMA EmptyPart ==
  ASSUME NEW whole \in Seq(Units)
  PROVE  PartOf(<<>>, whole, 0)
BY LenProperties, EmptySeq DEF PartOf

LEMMA FreshStream ==
  ASSUME served \in Answers, ~headerDone, crc = <<>>, buf = <<>>, left = <<>>
  PROVE  StreamInv
<1>1. PartOf(buf, Answered, 0)
  BY AnswerUnits, EmptyPart DEF Answered
<1> QED BY <1>1 DEF StreamInv

LEMMA InitInv == ClientInit => ClientInv
<1> SUFFICES ASSUME ClientInit PROVE ClientInv
  OBVIOUS
<1>1. ClientTypeOK
  <2>1. status \in StatusSectors
    BY DEF ClientInit, NoRecord, StatusSectors
  <2>2. ext \in [ExtCells -> Units \cup {Junk}]
    BY DEF ClientInit
  <2>3. /\ buf = <<>> /\ crc = <<>> /\ left = <<>> /\ received = 0
        /\ starts = 0 /\ faults = 0 /\ resets = 0
    BY DEF ClientInit
  <2>4. /\ buf \in Seq(Units) /\ Len(buf) <= BufUnits
        /\ crc \in Seq(Units) /\ Len(crc) = received /\ received \in Nat
        /\ left \in Seq(Units)
        /\ starts \in 0 .. MaxStarts /\ faults \in 0 .. MaxFaults
        /\ resets \in 0 .. MaxResets
    BY <2>3, Constants
  <2>5. /\ state \in States /\ isBusy \in BOOLEAN
        /\ expected \in Sizes \cup {0} /\ lastSector \in Nat \cup {NoSector}
        /\ sock \in BOOLEAN /\ headerDone \in BOOLEAN
        /\ atPhase \in Phases
        /\ connecting \in {"no", "name", "socket"}
        /\ inRecv \in {"no", "current", "closed"}
        /\ writing \in Writes /\ resp \in Replies /\ served \in Answers
    BY DEF ClientInit, States, Phases, Writes, Replies
  <2> QED BY <2>1, <2>2, <2>4, <2>5 DEF ClientTypeOK
<1>2. StreamInv
  BY FreshStream DEF ClientInit
<1> QED
  BY <1>1, <1>2 DEF ClientInit, ClientInv, SocketInv, WaitInv, ReadyInv, RecordInv, HasImage, InCommit

\* What the steps that receive nothing leave alone.
LEMMA StreamStays ==
  ASSUME StreamInv, UNCHANGED <<served, dataVars>>, left' = left \/ left' = <<>>
  PROVE  StreamInv'
BY DEF StreamInv, dataVars, PartOf, Answered

LEMMA ReadyStays ==
  ASSUME ReadyInv, UNCHANGED <<ext, received, crc, expected>>,
         HasImage' => HasImage /\ inRecv' = inRecv
  PROVE  ReadyInv'
BY DEF ReadyInv, Stored

LEMMA FaultCounted ==
  ASSUME ClientTypeOK, Fault
  PROVE  faults' \in 0 .. MaxFaults
<1>1. faults \in 0 .. MaxFaults /\ faults < MaxFaults /\ faults' = faults + 1
  BY DEF ClientTypeOK, Fault
<1> QED BY <1>1, Constants

LEMMA StatusWritten ==
  ASSUME ClientTypeOK, CommitStep \/ CommitDone \/ RollbackStep \/ ConfirmBoot
  PROVE  status' \in StatusSectors
<1>1. NoRecord \in StatusSectors
  BY DEF NoRecord, StatusSectors
<1>2. received \in Nat /\ crc \in Seq(Units) /\ status \in StatusSectors
  BY DEF ClientTypeOK
<1>3. CASE status' = NoRecord
  BY <1>1, <1>3
<1>4. CASE status' = [status EXCEPT !.magic = Program(@, "OTA")]
  BY <1>2, <1>4 DEF StatusSectors, Program
<1>5. CASE status' = [status EXCEPT !.size = Program(@, received)]
  BY <1>2, <1>5 DEF StatusSectors, Program
<1>6. CASE status' = [status EXCEPT !.crc = Program(@, crc)]
  BY <1>2, <1>6 DEF StatusSectors, Program
<1>7. CASE status' = [status EXCEPT !.flag = Program(@, "ROLB")]
  BY <1>2, <1>7 DEF StatusSectors, Program
<1>8. CASE status' = [status EXCEPT !.confirmed = Program(@, "CONF")]
  BY <1>2, <1>8 DEF StatusSectors, Program
<1> QED
  BY <1>3, <1>4, <1>5, <1>6, <1>7, <1>8 DEF CommitStep, CommitDone, RollbackStep, ConfirmBoot

-----------------------------------------------------------------------------
(* AT commands. *)

\* Commands that are refused.
LEMMA RefusedInv ==
  ASSUME ClientInv, StartBusy \/ StartRefused \/ AbortRefused
  PROVE  ClientInv'
<1>1. ClientTypeOK'
  BY DEF ClientInv, ClientTypeOK, StartBusy, StartRefused, AbortRefused, Replies, flashVars, ctxVars, dataVars, atVars, waitVars, netVars
<1>2. SocketInv' /\ WaitInv'
  <2>1. UNCHANGED <<sock, connecting, state, isBusy, atPhase, inRecv, writing, left,
                    received, crc, buf, headerDone>>
    BY DEF StartBusy, StartRefused, AbortRefused, flashVars, ctxVars, dataVars, atVars, waitVars, netVars
  <2> QED BY <2>1 DEF ClientInv, SocketInv, WaitInv
<1>3. StreamInv'
  BY StreamStays DEF ClientInv, StartBusy, StartRefused, AbortRefused, flashVars, ctxVars, dataVars, atVars, waitVars, netVars
<1>4. ReadyInv'
  BY ReadyStays DEF HasImage, InCommit, ClientInv, StartBusy, StartRefused, AbortRefused, flashVars, ctxVars, dataVars, atVars, waitVars, netVars
<1>5. RecordInv'
  <2>1. UNCHANGED <<state, isBusy, writing, status, received, crc>>
    BY DEF StartBusy, StartRefused, AbortRefused, flashVars, ctxVars, dataVars
  <2> QED BY <2>1 DEF ClientInv, RecordInv, InCommit, WholeRecord, SizedRecord
<1> QED BY <1>1, <1>2, <1>3, <1>4, <1>5 DEF ClientInv

\* A START that is accepted finds no socket open.
LEMMA StartInv ==
  ASSUME ClientInv, Start
  PROVE  ClientInv'
<1>1. /\ ~sock /\ left = <<>> /\ inRecv # "current" /\ writing = "none"
  BY DEF ClientInv, SocketInv, WaitInv, Start, AtIdle, AtReady
<1>2. /\ sock' = FALSE /\ headerDone' = FALSE /\ buf' = <<>> /\ crc' = <<>> /\ received' = 0
      /\ lastSector' = 0
      /\ state' = "DOWNLOADING" /\ connecting' = "name"
      /\ left' = left /\ served' = served /\ inRecv' = inRecv /\ writing' = writing
  BY DEF Start, Cleared, netVars
<1>3. ClientTypeOK'
  <2>1. /\ buf' \in Seq(Units) /\ Len(buf') <= BufUnits
        /\ crc' \in Seq(Units) /\ Len(crc') = received' /\ received' \in Nat
        /\ lastSector' \in Nat \cup {NoSector}
    BY <1>2, Constants
  <2>2. starts' \in 0 .. MaxStarts
    <3>1. starts \in 0 .. MaxStarts /\ starts < MaxStarts /\ starts' = starts + 1
      BY DEF Start, ClientInv, ClientTypeOK
    <3> QED BY <3>1, Constants
  <2>3. /\ ext' = ext /\ status' = status /\ isBusy' = TRUE /\ expected' \in Sizes
        /\ atPhase' = atPhase /\ resp' = "" /\ faults' = faults /\ resets' = resets
    BY DEF Start, flashVars
  <2> QED
    BY <1>2, <2>1, <2>2, <2>3 DEF ClientInv, ClientTypeOK, States, Replies
<1>4. SocketInv' /\ WaitInv'
  BY <1>1, <1>2 DEF SocketInv, WaitInv
<1>5. StreamInv'
  <2>1. served \in Answers
    BY DEF ClientInv, ClientTypeOK
  <2>2. PartOf(buf', Answered', 0)
    BY <1>2, <2>1, AnswerUnits, EmptyPart DEF Answered
  <2> QED BY <1>1, <1>2, <2>2 DEF StreamInv
<1>6. ReadyInv' /\ RecordInv'
  BY <1>1, <1>2 DEF ReadyInv, RecordInv, HasImage, InCommit
<1> QED BY <1>3, <1>4, <1>5, <1>6 DEF ClientInv

LEMMA NameFoundInv ==
  ASSUME ClientInv, NameFound
  PROVE  ClientInv'
<1>1. ClientTypeOK'
  BY DEF ClientInv, ClientTypeOK, NameFound, flashVars, ctxVars, dataVars, atVars, waitVars, netVars
<1>2. SocketInv' /\ WaitInv'
  BY DEF ClientInv, SocketInv, WaitInv, NameFound, flashVars, ctxVars, dataVars, atVars, waitVars, netVars
<1>3. StreamInv'
  BY StreamStays DEF ClientInv, NameFound, flashVars, ctxVars, dataVars, atVars, waitVars, netVars
<1>4. ReadyInv'
  BY ReadyStays DEF HasImage, InCommit, ClientInv, NameFound, flashVars, ctxVars, dataVars, atVars, waitVars, netVars
<1>5. RecordInv'
  BY DEF ClientInv, RecordInv, InCommit, WholeRecord, MagicRecord, SizedRecord, NameFound, flashVars, ctxVars, dataVars, atVars, waitVars, netVars
<1> QED BY <1>1, <1>2, <1>3, <1>4, <1>5 DEF ClientInv

\* The stream begins with the whole answer.
LEMMA ConnectedInv ==
  ASSUME ClientInv, Connected
  PROVE  ClientInv'
<1>1. /\ ~headerDone' /\ buf' = <<>> /\ crc' = <<>> /\ received' = 0
      /\ lastSector' = NoSector /\ sock /\ sock' = sock
      /\ state' = "DOWNLOADING" /\ atPhase' = "DOWNLOADING"
      /\ connecting # "no" /\ connecting' = "no"
      /\ served' \in Answers /\ left' = Answered'
      /\ inRecv' = inRecv /\ writing' = writing
  BY DEF Connected, Answered
<1>2. inRecv # "current" /\ writing = "none"
  BY <1>1 DEF ClientInv, WaitInv
<1>3. Answered' \in Seq(Units) /\ Len(Answered') \in Nat
  BY <1>1, AnswerUnits, LenProperties DEF Answered
<1>4. ClientTypeOK'
  <2>1. /\ buf' \in Seq(Units) /\ Len(buf') <= BufUnits
        /\ crc' \in Seq(Units) /\ Len(crc') = received' /\ received' \in Nat
        /\ lastSector' \in Nat \cup {NoSector}
    BY <1>1, Constants
  <2> QED
    BY <1>1, <1>3, <2>1 DEF Connected, ClientInv, ClientTypeOK, States, Phases, Replies, flashVars
<1>5. SocketInv' /\ WaitInv'
  BY <1>1, <1>2 DEF SocketInv, WaitInv
<1>6. StreamInv'
  <2>1. PartOf(buf', Answered', 0)
    BY <1>1, <1>3, EmptyPart
  <2>2. PartOf(left', Answered', Len(buf'))
    <3>1. Len(buf') = 0
      BY <1>1, Constants
    <3>2. PartOf(Answered', Answered', 0)
      BY <1>3 DEF PartOf
    <3> QED BY <1>1, <3>1, <3>2
  <2> QED BY <1>1, <2>1, <2>2 DEF StreamInv
<1>7. ReadyInv' /\ RecordInv'
  BY <1>1, <1>2 DEF ReadyInv, RecordInv, HasImage, InCommit
<1> QED BY <1>4, <1>5, <1>6, <1>7 DEF ClientInv

LEMMA StartFailedInv ==
  ASSUME ClientInv, StartFailed
  PROVE  ClientInv'
<1>1. ClientTypeOK'
  <2>1. faults' \in 0 .. MaxFaults
    BY FaultCounted DEF ClientInv, ClientTypeOK, StartFailed
  <2> QED BY <2>1 DEF ClientInv, ClientTypeOK, StartFailed, States, Replies, flashVars, ctxVars, dataVars, atVars, waitVars, netVars
<1>2. SocketInv' /\ WaitInv'
  BY DEF ClientInv, SocketInv, WaitInv, StartFailed, flashVars, ctxVars, dataVars, atVars, waitVars, netVars
<1>3. StreamInv'
  BY StreamStays DEF ClientInv, StartFailed, flashVars, ctxVars, dataVars, atVars, waitVars, netVars
<1>4. ReadyInv'
  BY ReadyStays DEF HasImage, InCommit, ClientInv, StartFailed, flashVars, ctxVars, dataVars, atVars, waitVars, netVars
<1>5. RecordInv'
  BY DEF ClientInv, RecordInv, InCommit, WholeRecord, MagicRecord, SizedRecord, WaitInv, StartFailed, flashVars, ctxVars, dataVars, atVars, waitVars, netVars
<1> QED BY <1>1, <1>2, <1>3, <1>4, <1>5 DEF ClientInv

LEMMA AbortInv ==
  ASSUME ClientInv, Abort
  PROVE  ClientInv'
<1>1. ClientTypeOK'
  BY Constants DEF ClientInv, ClientTypeOK, Abort, Disconnect, States, Replies, flashVars, ctxVars, dataVars, atVars, waitVars, netVars
<1>2. SocketInv' /\ WaitInv'
  BY DEF ClientInv, SocketInv, WaitInv, Abort, AtIdle, AtReady, Disconnect, flashVars, ctxVars, dataVars, atVars, waitVars, netVars
<1>3. StreamInv'
  BY StreamStays DEF ClientInv, Abort, Disconnect, flashVars, ctxVars, dataVars, atVars, waitVars, netVars
<1>4. ReadyInv'
  BY ReadyStays DEF HasImage, InCommit, ClientInv, Abort, AtIdle, AtReady, flashVars, ctxVars, dataVars, atVars, waitVars, netVars
<1>5. RecordInv'
  BY DEF ClientInv, RecordInv, InCommit, WholeRecord, MagicRecord, SizedRecord, Abort, AtIdle, AtReady, flashVars, ctxVars, dataVars, atVars, waitVars, netVars
<1> QED BY <1>1, <1>2, <1>3, <1>4, <1>5 DEF ClientInv

LEMMA CommitInv ==
  ASSUME ClientInv, Commit
  PROVE  ClientInv'
<1>1. ClientTypeOK'
  <2>1. state' \in States /\ writing' \in Writes /\ resp' \in Replies
    BY DEF ClientInv, ClientTypeOK, Commit, States, Writes, Replies
  <2> QED BY <2>1 DEF ClientInv, ClientTypeOK, Commit, flashVars, ctxVars, dataVars, atVars, waitVars, netVars
<1>2. SocketInv' /\ WaitInv'
  BY DEF ClientInv, SocketInv, WaitInv, Commit, AtIdle, AtReady, flashVars, ctxVars, dataVars, atVars, waitVars, netVars
<1>3. StreamInv'
  BY StreamStays DEF ClientInv, Commit, flashVars, ctxVars, dataVars, atVars, waitVars, netVars
<1>4. ReadyInv'
  BY ReadyStays DEF HasImage, InCommit, ClientInv, Commit, flashVars, ctxVars, dataVars, atVars, waitVars, netVars
<1>5. RecordInv'
  BY DEF ClientInv, RecordInv, InCommit, WholeRecord, MagicRecord, SizedRecord, Commit, AtIdle, AtReady, flashVars, ctxVars, dataVars, atVars, waitVars, netVars
<1> QED BY <1>1, <1>2, <1>3, <1>4, <1>5 DEF ClientInv

\* Fields of the records a commit may find.
LEMMA NoRecordFields ==
  /\ \A s \in {NoRecord, WholeRecord} : s.magic \in {Blank, "OTA"}
  /\ \A s \in {MagicRecord, WholeRecord} : s.size \in {Blank, received}
  /\ \A s \in {SizedRecord, WholeRecord} : s.crc \in {Blank, crc}
BY DEF NoRecord, WholeRecord, MagicRecord, SizedRecord

\* The record grows in the order of its fields.
LEMMA CommitStepInv ==
  ASSUME ClientInv, CommitStep
  PROVE  ClientInv'
<1>1. ClientTypeOK'
  BY StatusWritten DEF ClientInv, ClientTypeOK, CommitStep, Writes, flashVars, ctxVars, dataVars, atVars, waitVars, netVars
<1>2. SocketInv' /\ WaitInv'
  BY DEF ClientInv, SocketInv, WaitInv, CommitStep, flashVars, ctxVars, dataVars, atVars, waitVars, netVars
<1>3. StreamInv'
  BY StreamStays DEF ClientInv, CommitStep, flashVars, ctxVars, dataVars, atVars, waitVars, netVars
<1>4. ReadyInv'
  BY ReadyStays DEF HasImage, InCommit, ClientInv, CommitStep, flashVars, ctxVars, dataVars, atVars, waitVars, netVars
<1>5. RecordInv'
  <2>1. /\ UNCHANGED <<state, isBusy, received, crc>> /\ InCommit
        /\ writing' \in {"magic", "size", "crc"}
    BY DEF CommitStep, ctxVars, dataVars, InCommit
  <2>2. state' = "COMMIT" \/ (state' = "IDLE" /\ ~isBusy')
    BY <2>1 DEF ClientInv, RecordInv
  <2>3. CASE writing = "erase" /\ status' = NoRecord /\ writing' = "magic"
    BY <2>2, <2>3 DEF RecordInv
  <2>4. CASE /\ writing = "magic" /\ writing' = "size"
             /\ status' = [status EXCEPT !.magic = Program(@, "OTA")]
    <3>1. status \in {NoRecord, WholeRecord}
      BY <2>4 DEF ClientInv, RecordInv
    <3>2. Program(status.magic, "OTA") = "OTA"
      BY <3>1, NoRecordFields DEF Program
    <3>3. status' \in {MagicRecord, WholeRecord}
      BY <2>4, <3>1, <3>2 DEF NoRecord, WholeRecord, MagicRecord
    <3> QED BY <2>1, <2>2, <2>4, <3>3 DEF RecordInv, WholeRecord, MagicRecord
  <2>5. CASE /\ writing = "size" /\ writing' = "crc"
             /\ status' = [status EXCEPT !.size = Program(@, received)]
    <3>1. status \in {MagicRecord, WholeRecord}
      BY <2>5 DEF ClientInv, RecordInv
    <3>2. Program(status.size, received) = received
      BY <3>1, NoRecordFields DEF Program
    <3>3. status' \in {SizedRecord, WholeRecord}
      BY <2>5, <3>1, <3>2 DEF NoRecord, WholeRecord, MagicRecord, SizedRecord
    <3> QED BY <2>1, <2>2, <2>5, <3>3 DEF RecordInv, WholeRecord, SizedRecord
  <2> QED BY <2>3, <2>4, <2>5 DEF CommitStep
<1> QED BY <1>1, <1>2, <1>3, <1>4, <1>5 DEF ClientInv

LEMMA CommitDoneInv ==
  ASSUME ClientInv, CommitDone
  PROVE  ClientInv'
<1>1. ClientTypeOK'
  BY StatusWritten DEF ClientInv, ClientTypeOK, CommitDone, States, Writes, Replies, flashVars, ctxVars, dataVars, atVars, waitVars, netVars
<1>2. SocketInv' /\ WaitInv'
  BY DEF ClientInv, SocketInv, WaitInv, RecordInv, InCommit, CommitDone, flashVars, ctxVars, dataVars, atVars, waitVars, netVars
<1>3. StreamInv'
  BY StreamStays DEF ClientInv, CommitDone, flashVars, ctxVars, dataVars, atVars, waitVars, netVars
<1>4. ReadyInv'
  BY ReadyStays DEF HasImage, InCommit, ClientInv, CommitDone, flashVars, ctxVars, dataVars, atVars, waitVars, netVars
<1>5. RecordInv'
  BY DEF ClientInv, RecordInv, InCommit, WholeRecord, MagicRecord, SizedRecord, CommitDone, flashVars, ctxVars, dataVars, atVars, waitVars, netVars
<1> QED BY <1>1, <1>2, <1>3, <1>4, <1>5 DEF ClientInv

LEMMA RollbackInv ==
  ASSUME ClientInv, Rollback \/ RollbackStep \/ ConfirmBoot
  PROVE  ClientInv'
<1>1. ClientTypeOK'
  <2>1. /\ status' \in StatusSectors /\ writing' \in Writes /\ resp' \in Replies
    <3>1. CASE Rollback
      BY <3>1 DEF Rollback, flashVars, Writes, Replies, ClientInv, ClientTypeOK
    <3>2. CASE RollbackStep
      BY <3>2, StatusWritten DEF RollbackStep, Writes, ClientInv, ClientTypeOK
    <3>3. CASE ConfirmBoot
      BY <3>3, StatusWritten DEF ConfirmBoot, atVars, ClientInv, ClientTypeOK
    <3> QED BY <3>1, <3>2, <3>3
  <2> QED BY <2>1 DEF ClientInv, ClientTypeOK, Rollback, RollbackStep, ConfirmBoot, flashVars, ctxVars, dataVars, atVars, waitVars, netVars
<1>2. SocketInv' /\ WaitInv'
  <2>1. UNCHANGED <<ext, sock, connecting, state, isBusy, expected, atPhase, inRecv, left,
                  received, crc, buf, headerDone>>
    BY DEF Rollback, RollbackStep, ConfirmBoot, flashVars, ctxVars, dataVars, atVars, waitVars, netVars
  <2>2. writing' # "none" => connecting = "no"
    <3>1. CASE Rollback
      BY <3>1 DEF Rollback, AtIdle, AtReady
    <3>2. CASE RollbackStep
      BY <3>2 DEF RollbackStep, ClientInv, WaitInv
    <3>3. CASE ConfirmBoot
      BY <3>3 DEF ConfirmBoot, atVars, ClientInv, WaitInv
    <3> QED BY <3>1, <3>2, <3>3
  <2> QED BY <2>1, <2>2 DEF ClientInv, SocketInv, WaitInv
<1>3. StreamInv'
  BY StreamStays DEF ClientInv, Rollback, RollbackStep, ConfirmBoot, flashVars, ctxVars, dataVars, atVars, waitVars, netVars
<1>4. ReadyInv'
  BY ReadyStays DEF HasImage, InCommit, ClientInv, Rollback, RollbackStep, ConfirmBoot, flashVars, ctxVars, dataVars, atVars, waitVars, netVars
<1>5. RecordInv'
  <2>1. writing' \in {"none", "rbErase", "rbFlag"}
    BY DEF Rollback, RollbackStep, ConfirmBoot, atVars
  <2> QED BY <2>1 DEF RecordInv, InCommit
<1> QED BY <1>1, <1>2, <1>3, <1>4, <1>5 DEF ClientInv

-----------------------------------------------------------------------------
(* ota_poll. *)

LEMMA PollRecvInv ==
  ASSUME ClientInv, PollRecv \/ PollTooEarly
  PROVE  ClientInv'
<1>1. ClientTypeOK'
  BY Constants DEF ClientInv, ClientTypeOK, PollRecv, PollTooEarly, PollFree, Disconnect, States, flashVars, ctxVars, dataVars, atVars, waitVars, netVars
<1>2. SocketInv' /\ WaitInv'
  BY DEF ClientInv, SocketInv, WaitInv, PollRecv, PollTooEarly, PollFree, Disconnect, flashVars, ctxVars, dataVars, atVars, waitVars, netVars
<1>3. StreamInv'
  BY StreamStays DEF ClientInv, PollRecv, PollTooEarly, PollFree, Disconnect, flashVars, ctxVars, dataVars, atVars, waitVars, netVars
<1>4. ReadyInv'
  BY ReadyStays DEF HasImage, InCommit, ClientInv, RecordInv, PollRecv, PollTooEarly, PollFree, Disconnect, flashVars, ctxVars, dataVars, atVars, waitVars, netVars
<1>5. RecordInv'
  BY DEF ClientInv, RecordInv, InCommit, WholeRecord, MagicRecord, SizedRecord, PollRecv, PollTooEarly, PollFree, Disconnect, flashVars, ctxVars, dataVars, atVars, waitVars, netVars
<1> QED BY <1>1, <1>2, <1>3, <1>4, <1>5 DEF ClientInv

LEMMA RecvEndsInv ==
  ASSUME ClientInv, RecvClosed \/ RecvError
  PROVE  ClientInv'
<1>1. ClientTypeOK'
  <2>1. faults' \in 0 .. MaxFaults
    BY FaultCounted DEF ClientInv, ClientTypeOK, RecvClosed, RecvError
  <2> QED BY <2>1, Constants DEF ClientInv, ClientTypeOK, RecvClosed, RecvError, Disconnect, States, Phases, flashVars, ctxVars, dataVars, atVars, waitVars, netVars
<1>2. SocketInv' /\ WaitInv'
  BY DEF ClientInv, SocketInv, WaitInv, RecvClosed, RecvError, Disconnect, flashVars, ctxVars, dataVars, atVars, waitVars, netVars
<1>3. StreamInv'
  BY StreamStays DEF ClientInv, RecvClosed, RecvError, Disconnect, flashVars, ctxVars, dataVars, atVars, waitVars, netVars
<1>4. ReadyInv'
  BY ReadyStays DEF HasImage, InCommit, ClientInv, ReadyInv, RecvClosed, RecvError, Disconnect, flashVars, ctxVars, dataVars, atVars, waitVars, netVars
<1>5. RecordInv'
  BY DEF ClientInv, RecordInv, ReadyInv, HasImage, InCommit, WholeRecord, MagicRecord, SizedRecord, RecvClosed, RecvError, Disconnect, flashVars, ctxVars, dataVars, atVars, waitVars, netVars
<1> QED BY <1>1, <1>2, <1>3, <1>4, <1>5 DEF ClientInv

\* While ota_start connects nothing is received, and the size, if given, is
\* not zero.
LEMMA VerifyInv ==
  ASSUME ClientInv, Verify
  PROVE  ClientInv'
<1>1. ClientTypeOK'
  BY DEF ClientInv, ClientTypeOK, Verify, States, Phases, flashVars, ctxVars, dataVars, atVars, waitVars, netVars
<1>2. SocketInv' /\ WaitInv'
  BY DEF ClientInv, SocketInv, WaitInv, Verify, PollFree, flashVars, ctxVars, dataVars, atVars, waitVars, netVars
<1>3. StreamInv'
  BY StreamStays DEF ClientInv, Verify, flashVars, ctxVars, dataVars, atVars, waitVars, netVars
<1>4. ReadyInv'
  BY DEF ClientInv, ReadyInv, RecordInv, HasImage, InCommit, Stored, Verify, PollFree, flashVars, ctxVars, dataVars, atVars, waitVars, netVars
<1>5. RecordInv'
  BY DEF ClientInv, RecordInv, InCommit, WholeRecord, MagicRecord, SizedRecord, Verify, PollFree, flashVars, ctxVars, dataVars, atVars, waitVars, netVars
<1> QED BY <1>1, <1>2, <1>3, <1>4, <1>5 DEF ClientInv

LEMMA PollErrorInv ==
  ASSUME ClientInv, PollError
  PROVE  ClientInv'
<1>1. ClientTypeOK'
  BY Constants DEF ClientInv, ClientTypeOK, PollError, PollFree, Disconnect, States, Phases, flashVars, ctxVars, dataVars, atVars, waitVars, netVars
<1>2. SocketInv' /\ WaitInv'
  BY DEF ClientInv, SocketInv, WaitInv, PollError, PollFree, Disconnect, flashVars, ctxVars, dataVars, atVars, waitVars, netVars
<1>3. StreamInv'
  BY StreamStays DEF ClientInv, PollError, PollFree, Disconnect, flashVars, ctxVars, dataVars, atVars, waitVars, netVars
<1>4. ReadyInv'
  BY ReadyStays DEF HasImage, InCommit, ClientInv, PollError, PollFree, Disconnect, flashVars, ctxVars, dataVars, atVars, waitVars, netVars
<1>5. RecordInv'
  BY DEF ClientInv, RecordInv, InCommit, WholeRecord, MagicRecord, SizedRecord, PollError, PollFree, Disconnect, flashVars, ctxVars, dataVars, atVars, waitVars, netVars
<1> QED BY <1>1, <1>2, <1>3, <1>4, <1>5 DEF ClientInv

\* A poll that carries out the commit of the other task leaves a whole record.
LEMMA PollCommitInv ==
  ASSUME ClientInv, PollCommit
  PROVE  ClientInv'
<1>1. /\ status' = WholeRecord /\ state' = "IDLE" /\ isBusy' = FALSE
      /\ UNCHANGED <<ext, expected, sock, dataVars, atVars, waitVars, netVars,
                     starts, faults, resets>>
      /\ state = "COMMIT" /\ inRecv = "no"
  BY DEF PollCommit, PollFree, WholeRecord
<1>2. ClientTypeOK'
  <2>1. received \in Nat /\ crc \in Seq(Units)
    BY DEF ClientInv, ClientTypeOK
  <2>2. WholeRecord \in StatusSectors
    BY <2>1 DEF WholeRecord, NoRecord, StatusSectors
  <2> QED BY <1>1, <2>2 DEF ClientInv, ClientTypeOK, States, dataVars, atVars, waitVars,
          netVars
<1>3. SocketInv' /\ WaitInv'
  BY <1>1 DEF ClientInv, SocketInv, WaitInv, dataVars, atVars, waitVars, netVars
<1>4. StreamInv'
  BY <1>1, StreamStays DEF ClientInv, netVars
<1>5. ReadyInv'
  BY <1>1, ReadyStays DEF HasImage, InCommit, ClientInv, dataVars, waitVars
<1>6. RecordInv'
  <2>1. WholeRecord' = WholeRecord
    BY <1>1 DEF WholeRecord, NoRecord, dataVars
  <2> QED BY <1>1, <2>1 DEF RecordInv
<1> QED BY <1>2, <1>3, <1>4, <1>5, <1>6 DEF ClientInv

\* Units that arrive: the header, then the body, in order.
LEMMA DataReceived ==
  ASSUME ClientInv, RecvData
  PROVE  \E n \in 1 .. Len(left) :
           LET b == buf \o SubSeq(left, 1, n)
               r == SubSeq(left, n + 1, Len(left))
           IN  /\ b \in Seq(Units) /\ Len(b) = Len(buf) + n /\ Len(b) <= BufUnits
               /\ r \in Seq(Units)
               /\ r = SubSeq(left, Len(b) - Len(buf) + 1, Len(left))
               /\ HeaderPart(b) \/ HeaderBad(b) \/ BodyPart(b)
               /\ IF headerDone
                    THEN /\ PartOf(crc \o b, served.body, 0)
                         /\ PartOf(r, served.body, Len(crc \o b))
                    ELSE /\ PartOf(b, Answered, 0)
                         /\ PartOf(r, Answered, Len(b))
<1>1. PICK n \in 1 .. Len(left) :
        /\ Len(buf) + n <= BufUnits
        /\ LET b == buf \o SubSeq(left, 1, n)
           IN  HeaderPart(b) \/ HeaderBad(b) \/ BodyPart(b)
  BY DEF RecvData
<1> DEFINE b == buf \o SubSeq(left, 1, n)
           r == SubSeq(left, n + 1, Len(left))
<1>2. /\ buf \in Seq(Units) /\ left \in Seq(Units) /\ crc \in Seq(Units)
      /\ Len(buf) \in Nat /\ Len(left) \in Nat /\ served \in Answers
  BY LenProperties DEF ClientInv, ClientTypeOK
<1>3. b \in Seq(Units) /\ Len(b) = Len(buf) + n /\ r \in Seq(Units)
  BY <1>2, TakeUnits
<1>4. left # <<>>
  BY <1>1, EmptySeq
<1>5. Len(b) <= BufUnits
  BY <1>1, <1>3
<1>6. n + 1 = Len(b) - Len(buf) + 1
  BY <1>2, <1>3
<1>7. CASE headerDone
  <2>1. /\ buf = <<>> /\ PartOf(crc, served.body, 0) /\ PartOf(left, served.body, Len(crc))
    BY <1>4, <1>7 DEF ClientInv, ClientTypeOK, StreamInv
  <2>2. SubSeq(left, 1, n) \in Seq(Units)
    BY <1>2, SubSeqProperties, ElementOfSeq
  <2>3. b = SubSeq(left, 1, n)
    BY <2>1, <2>2, ConcatEmptySeq
  <2>4. /\ PartOf(crc \o SubSeq(left, 1, n), served.body, 0)
        /\ PartOf(r, served.body, Len(crc) + n)
    BY <1>2, <2>1, AnswerUnits, TakePart
  <2>5. Len(crc \o SubSeq(left, 1, n)) = Len(crc) + n
    BY <1>2, TakeUnits
  <2>6. PartOf(crc \o b, served.body, 0) /\ PartOf(r, served.body, Len(crc \o b))
    BY <2>3, <2>4, <2>5
  <2> HIDE DEF b, r
  <2> QED BY <1>1, <1>3, <1>5, <1>6, <1>7, <2>6 DEF b, r
<1>8. CASE ~headerDone
  <2>1. PartOf(buf, Answered, 0) /\ PartOf(left, Answered, Len(buf))
    BY <1>4, <1>8 DEF ClientInv, StreamInv
  <2>2. PartOf(b, Answered, 0) /\ PartOf(r, Answered, Len(buf) + n)
    BY <1>2, <2>1, AnswerUnits, TakePart DEF Answered
  <2> HIDE DEF b, r
  <2> QED BY <1>1, <1>3, <1>5, <1>6, <1>8, <2>2 DEF b, r
<1> QED BY <1>7, <1>8

\* Units of the body go to the flash and to the CRC, and nowhere else.
LEMMA BodyStored ==
  ASSUME ClientInv, NEW b \in Seq(Units), NEW r \in Seq(Units), BodyPart(b),
         left' = r, state = "DOWNLOADING",
         UNCHANGED <<served, expected>>,
         IF headerDone
           THEN /\ PartOf(crc \o b, served.body, 0)
                /\ PartOf(r, served.body, Len(crc \o b))
           ELSE /\ PartOf(b, Answered, 0)
                /\ PartOf(r, Answered, Len(b))
  PROVE  /\ ext' \in [ExtCells -> Units \cup {Junk}]
         /\ lastSector' \in Nat \cup {NoSector}
         /\ received' \in Nat /\ crc' \in Seq(Units) /\ Len(crc') = received'
         /\ StreamInv'
<1> DEFINE body == IF headerDone THEN b ELSE BodyIn(b)
<1>1. /\ crc \in Seq(Units) /\ received \in Nat /\ Len(crc) = received
      /\ served \in Answers /\ ext \in [ExtCells -> Units \cup {Junk}]
      /\ lastSector \in Nat \cup {NoSector}
  BY DEF ClientInv, ClientTypeOK
<1>2. /\ body \in Seq(Units)
      /\ PartOf(crc \o body, served.body, 0)
      /\ PartOf(r, served.body, Len(crc \o body))
  <2>1. CASE headerDone
    BY <2>1
  <2>2. CASE ~headerDone
    <3>1. EndOfHeader(b) # {} /\ body = BodyIn(b)
      BY <2>2 DEF BodyPart
    <3>2. /\ BodyIn(b) \in Seq(Units)
          /\ Len(b) = Len(served.head) + Len(BodyIn(b))
          /\ PartOf(BodyIn(b), served.body, 0)
      BY <1>1, <2>2, <3>1, BodyBegins DEF Answered
    <3>3. PartOf(r, served.body, Len(BodyIn(b)))
      BY <1>1, <2>2, <3>2, BodyFollows, LenProperties DEF Answered
    <3>4. crc \o body = BodyIn(b)
      BY <2>2, <3>1, <3>2, ConcatEmptySeq DEF ClientInv, StreamInv
    <3> QED BY <3>1, <3>2, <3>3, <3>4
  <2> QED BY <2>1, <2>2
<1>3. /\ crc \o body \in Seq(Units) /\ Len(crc \o body) = received + Len(body)
      /\ Len(body) \in Nat
  BY <1>1, <1>2, ConcatProperties, LenProperties
<1>4. /\ IF body = <<>> THEN UNCHANGED <<ext, received, lastSector, crc>>
                        ELSE /\ Store(body) /\ received' = received + Len(body)
                             /\ crc' = crc \o body
      /\ headerDone' = TRUE /\ buf' = <<>>
  BY DEF BodyPart
<1> HIDE DEF body
<1>5. crc' = crc \o body /\ received' = received + Len(body)
  <2>1. CASE body = <<>>
    BY <1>1, <1>4, <2>1, ConcatEmptySeq, Constants
  <2>2. CASE body # <<>>
    BY <1>4, <2>2
  <2> QED BY <2>1, <2>2
<1>6. ext' \in [ExtCells -> Units \cup {Junk}] /\ lastSector' \in Nat \cup {NoSector}
  <2>1. CASE body = <<>>
    BY <1>1, <1>4, <2>1
  <2>2. CASE body # <<>>
    BY <1>2, <1>4, <2>2, StoreType DEF ClientInv
  <2> QED BY <2>1, <2>2
<1>7. StreamInv'
  <2>1. PartOf(crc', served.body', 0) /\ PartOf(left', served.body', received')
    BY <1>1, <1>2, <1>3, <1>5
  <2> QED BY <1>4, <2>1 DEF StreamInv
<1> QED BY <1>1, <1>3, <1>5, <1>6, <1>7

LEMMA RecvDataInv ==
  ASSUME ClientInv, RecvData
  PROVE  ClientInv'
<1>1. PICK n \in 1 .. Len(left) :
        LET b == buf \o SubSeq(left, 1, n)
            r == SubSeq(left, n + 1, Len(left))
        IN  /\ b \in Seq(Units) /\ Len(b) = Len(buf) + n /\ Len(b) <= BufUnits
            /\ r \in Seq(Units)
            /\ r = SubSeq(left, Len(b) - Len(buf) + 1, Len(left))
            /\ HeaderPart(b) \/ HeaderBad(b) \/ BodyPart(b)
            /\ IF headerDone
                 THEN /\ PartOf(crc \o b, served.body, 0)
                      /\ PartOf(r, served.body, Len(crc \o b))
                 ELSE /\ PartOf(b, Answered, 0)
                      /\ PartOf(r, Answered, Len(b))
  BY DataReceived
<1> DEFINE b == buf \o SubSeq(left, 1, n)
           r == SubSeq(left, n + 1, Len(left))
<1>2. /\ b \in Seq(Units) /\ r \in Seq(Units) /\ Len(b) <= BufUnits
      /\ r = SubSeq(left, Len(b) - Len(buf) + 1, Len(left))
      /\ HeaderPart(b) \/ HeaderBad(b) \/ BodyPart(b)
      /\ IF headerDone
           THEN /\ PartOf(crc \o b, served.body, 0)
                /\ PartOf(r, served.body, Len(crc \o b))
           ELSE /\ PartOf(b, Answered, 0)
                /\ PartOf(r, Answered, Len(b))
  BY <1>1
<1> HIDE DEF b, r
<1>3. /\ UNCHANGED <<status, isBusy, expected, writing, resp, connecting, served,
                     starts, faults, resets>>
      /\ inRecv = "current" /\ inRecv' = "no"
  BY DEF RecvData, Returned
<1>4. state = "DOWNLOADING" /\ isBusy /\ connecting = "no"
  BY <1>3 DEF ClientInv, WaitInv
<1>5. sock
  <2>1. left # <<>>
    BY <1>1, EmptySeq
  <2> QED BY <2>1 DEF ClientInv, WaitInv
<1>6. left' = r \/ left' = <<>>
  BY <1>2 DEF HeaderPart, HeaderBad, BodyPart, Disconnect
<1>7. /\ sock' \in BOOLEAN /\ state' \in {"DOWNLOADING", "ERROR"}
      /\ (sock' = sock /\ state' = state) \/ (~sock' /\ left' = <<>>)
      /\ atPhase' \in {atPhase, "DOWNLOADING"}
      /\ headerDone' \in BOOLEAN
      /\ buf' \in {b, <<>>}
  BY <1>2, <1>4, <1>5
     DEF HeaderPart, HeaderBad, BodyPart, Disconnect, ClientInv, ClientTypeOK
<1>8. /\ ext' \in [ExtCells -> Units \cup {Junk}]
      /\ lastSector' \in Nat \cup {NoSector}
      /\ received' \in Nat /\ crc' \in Seq(Units) /\ Len(crc') = received'
      /\ StreamInv'
  <2>1. CASE HeaderPart(b) \/ HeaderBad(b)
    <3>1. /\ ~headerDone /\ buf' = b
          /\ UNCHANGED <<ext, received, lastSector, headerDone, crc, served>>
      BY <1>3, <2>1 DEF HeaderPart, HeaderBad
    <3>2. crc' = <<>> /\ PartOf(buf', Answered', 0)
      BY <1>2, <3>1 DEF ClientInv, StreamInv, Answered
    <3>3. left' = <<>> \/ PartOf(left', Answered', Len(buf'))
      BY <1>2, <1>6, <3>1 DEF Answered
    <3>4. StreamInv'
      BY <3>1, <3>2, <3>3 DEF StreamInv
    <3> QED BY <3>1, <3>4 DEF ClientInv, ClientTypeOK
  <2>2. CASE BodyPart(b)
    <3>1. left' = r
      BY <1>2, <2>2 DEF BodyPart
    <3> QED BY <1>2, <1>3, <1>4, <2>2, <3>1, BodyStored
  <2> QED BY <1>2, <2>1, <2>2
<1>9. ClientTypeOK'
  <2>1. buf' \in Seq(Units) /\ Len(buf') <= BufUnits /\ left' \in Seq(Units)
    <3>1. 0 <= BufUnits
      BY Constants
    <3>2. CASE buf' = b
      BY <1>2, <1>6, <3>2, Constants
    <3>3. CASE buf' = <<>>
      BY <1>2, <1>6, <3>1, <3>3, Constants
    <3> QED BY <1>7, <3>2, <3>3
  <2>2. state' \in States /\ atPhase' \in Phases
    BY <1>7 DEF States, Phases, ClientInv, ClientTypeOK
  <2> QED BY <1>3, <1>7, <1>8, <2>1, <2>2 DEF ClientInv, ClientTypeOK
<1>10. SocketInv' /\ WaitInv'
  BY <1>3, <1>4, <1>5, <1>7 DEF SocketInv, WaitInv
<1>11. ReadyInv' /\ RecordInv'
  BY <1>3, <1>4, <1>7 DEF ClientInv, ReadyInv, RecordInv, HasImage, InCommit
<1> QED BY <1>8, <1>9, <1>10, <1>11 DEF ClientInv

-----------------------------------------------------------------------------
(* Faults, and the whole. *)

LEMMA CutInv ==
  ASSUME ClientInv, Cut
  PROVE  ClientInv'
<1>1. ClientTypeOK'
  <2>1. faults' \in 0 .. MaxFaults
    BY FaultCounted DEF ClientInv, ClientTypeOK, Cut
  <2> QED BY <2>1, Constants DEF ClientInv, ClientTypeOK, Cut, flashVars, ctxVars, dataVars, atVars, waitVars, netVars
<1>2. SocketInv' /\ WaitInv'
  BY DEF ClientInv, SocketInv, WaitInv, Cut, flashVars, ctxVars, dataVars, atVars, waitVars, netVars
<1>3. StreamInv'
  BY StreamStays DEF ClientInv, Cut, flashVars, ctxVars, dataVars, atVars, waitVars, netVars
<1>4. ReadyInv'
  BY ReadyStays DEF HasImage, InCommit, ClientInv, Cut, flashVars, ctxVars, dataVars, atVars, waitVars, netVars
<1>5. RecordInv'
  BY DEF ClientInv, RecordInv, InCommit, WholeRecord, MagicRecord, SizedRecord, Cut, flashVars, ctxVars, dataVars, atVars, waitVars, netVars
<1> QED BY <1>1, <1>2, <1>3, <1>4, <1>5 DEF ClientInv

LEMMA TornStatusType ==
  ASSUME ClientTypeOK
  PROVE  TornStatus \subseteq StatusSectors
<1>1. status \in StatusSectors /\ NoRecord \in StatusSectors /\ writing \in Writes
  BY DEF ClientTypeOK, NoRecord, StatusSectors
<1>2. [status EXCEPT !.magic = Junk] \in StatusSectors
  BY <1>1 DEF StatusSectors
<1>3. [status EXCEPT !.size = Junk] \in StatusSectors
  BY <1>1 DEF StatusSectors
<1>4. [status EXCEPT !.crc = Junk] \in StatusSectors
  BY <1>1 DEF StatusSectors
<1>5. [status EXCEPT !.flag = Junk] \in StatusSectors
  BY <1>1 DEF StatusSectors
<1>6. CASE writing \in {"erase", "rbErase"}
  BY <1>1, <1>6 DEF TornStatus
<1>7. CASE writing = "magic"
  BY <1>1, <1>2, <1>7 DEF TornStatus
<1>8. CASE writing = "size"
  BY <1>1, <1>3, <1>8 DEF TornStatus
<1>9. CASE writing = "crc"
  BY <1>1, <1>4, <1>9 DEF TornStatus
<1>10. CASE writing = "rbFlag"
  BY <1>1, <1>5, <1>10 DEF TornStatus
<1>11. CASE writing = "none"
  BY <1>1, <1>11 DEF TornStatus
<1> QED BY <1>1, <1>6, <1>7, <1>8, <1>9, <1>10, <1>11 DEF Writes

LEMMA PowerFailInv ==
  ASSUME ClientInv, PowerFail
  PROVE  ClientInv'
<1>1. /\ sock' = FALSE /\ headerDone' = FALSE /\ buf' = <<>> /\ crc' = <<>>
      /\ received' = 0 /\ lastSector' = 0 /\ left' = <<>>
      /\ state' = "IDLE" /\ isBusy' = FALSE /\ expected' = 0
      /\ atPhase' = "IDLE" /\ writing' = "none" /\ resp' = ""
      /\ connecting' = "no" /\ inRecv' = "no"
      /\ UNCHANGED <<ext, served, starts>>
  BY DEF PowerFail, Cleared
<1>2. ClientTypeOK'
  <2>1. /\ buf' \in Seq(Units) /\ Len(buf') <= BufUnits
        /\ crc' \in Seq(Units) /\ Len(crc') = received' /\ received' \in Nat
        /\ lastSector' \in Nat \cup {NoSector} /\ left' \in Seq(Units)
    <3>1. 0 <= BufUnits
      BY Constants
    <3> QED BY <1>1, <3>1, Constants
  <2>2. faults' \in 0 .. MaxFaults
    BY FaultCounted DEF ClientInv, ClientTypeOK, PowerFail
  <2>3. resets' \in 0 .. MaxResets
    <3>1. resets \in 0 .. MaxResets /\ resets < MaxResets /\ resets' = resets + 1
      BY DEF PowerFail, ClientInv, ClientTypeOK
    <3> QED BY <3>1, Constants
  <2>4. status' \in StatusSectors
    BY TornStatusType DEF PowerFail, ClientInv, ClientTypeOK
  <2> QED
    BY <1>1, <2>1, <2>2, <2>3, <2>4
       DEF ClientInv, ClientTypeOK, States, Phases, Writes, Replies
<1>3. StreamInv'
  <2>1. PartOf(buf', Answered', 0)
    BY <1>1, AnswerUnits, EmptyPart DEF Answered, ClientInv, ClientTypeOK
  <2> QED BY <1>1, <2>1 DEF StreamInv
<1>4. SocketInv' /\ WaitInv' /\ ReadyInv' /\ RecordInv'
  BY <1>1 DEF SocketInv, WaitInv, ReadyInv, RecordInv, HasImage, InCommit
<1> QED BY <1>2, <1>3, <1>4 DEF ClientInv

LEMMA NextInv == ClientInv /\ [ClientNext]_clientVars => ClientInv'
<1> SUFFICES ASSUME ClientInv, [ClientNext]_clientVars PROVE ClientInv'
  OBVIOUS
<1>1. CASE AtStep
  BY <1>1, RefusedInv, StartInv, NameFoundInv, ConnectedInv, StartFailedInv, AbortInv,
     CommitInv, CommitStepInv, CommitDoneInv, RollbackInv DEF AtStep
<1>2. CASE PollStep
  BY <1>2, PollRecvInv, RecvDataInv, RecvEndsInv, VerifyInv, PollCommitInv,
     PollErrorInv DEF PollStep
<1>3. CASE Cut
  BY <1>3, CutInv
<1>4. CASE PowerFail
  BY <1>4, PowerFailInv
<1>5. CASE UNCHANGED clientVars
  <2>1. /\ ClientTypeOK' /\ SocketInv' /\ WaitInv'
    BY <1>5 DEF clientVars, flashVars, ctxVars, dataVars, atVars, waitVars, netVars,
                ClientInv, ClientTypeOK, SocketInv, WaitInv
  <2>2. StreamInv' /\ ReadyInv'
    BY <1>5, StreamStays, ReadyStays DEF clientVars, flashVars, ctxVars, dataVars, atVars,
       waitVars, netVars, ClientInv, HasImage, InCommit
  <2>3. RecordInv'
    BY <1>5 DEF clientVars, flashVars, ctxVars, dataVars, atVars, ClientInv, RecordInv,
       InCommit, WholeRecord, SizedRecord
  <2> QED BY <2>1, <2>2, <2>3 DEF ClientInv
<1> QED BY <1>1, <1>2, <1>3, <1>4, <1>5 DEF ClientNext

LEMMA InvHolds == ClientSpec => []ClientInv
BY InitInv, NextInv, PTL DEF ClientSpec

-----------------------------------------------------------------------------
(* The golden image. *)

LEMMA DivMod ==
  ASSUME NEW k \in Nat \ {0}, NEW a \in Nat
  PROVE  a = (a \div k) * k + (a % k) /\ a % k \in 0 .. (k - 1) /\ a \div k \in Nat
OBVIOUS

\* A slot of whole sectors shares none of them with what is behind it.
LEMMA SlotEndsSector ==
  ASSUME NEW k \in Nat \ {0}, NEW end \in Nat, end % k = 0,
         NEW a \in Nat, NEW c \in Nat, a < end, c >= end
  PROVE  a \div k # c \div k
<1> DEFINE x == a \div k
           y == end \div k
<1>1. a = x * k + (a % k) /\ a % k \in 0 .. (k - 1) /\ x \in Nat
  BY DivMod
<1>2. end = y * k /\ y \in Nat
  BY DivMod
<1>3. c = (c \div k) * k + (c % k) /\ c % k \in 0 .. (k - 1) /\ c \div k \in Nat
  BY DivMod
<1> SUFFICES ASSUME c \div k = x PROVE FALSE
  OBVIOUS
<1> HIDE DEF x, y
<1>4. y > x
  <2> SUFFICES ASSUME y <= x PROVE FALSE
    BY <1>1, <1>2
  <2>1. y * k <= x * k
    BY <1>1, <1>2
  <2> QED BY <2>1, <1>1, <1>2
<1>5. y * k >= x * k + k
  <2>1. y >= x + 1
    BY <1>4, <1>1, <1>2
  <2>2. y * k >= (x + 1) * k
    BY <2>1, <1>1, <1>2
  <2> QED BY <2>2, <1>1, <1>2
<1> QED BY <1>5, <1>1, <1>2, <1>3

\* Storing units that end in slot B.
LEMMA StoreInSlot ==
  ASSUME ClientTypeOK, NEW data \in Seq(Units), Store(data),
         Len(data) > 0, received + Len(data) <= SlotUnits,
         NEW c \in GoldenCells
  PROVE  ext'[c] = ext[c]
<1>1. /\ received \in Nat /\ Len(data) \in Nat /\ SectorUnits \in Nat \ {0}
      /\ SlotUnits \in Nat /\ ExtUnits \in Nat /\ SlotUnits % SectorUnits = 0
  BY ClientAssumption, LenProperties DEF ClientTypeOK
<1>2. c \in Nat /\ c >= SlotUnits /\ c \in ExtCells
  BY <1>1 DEF GoldenCells, ExtCells
<1>3. SectorOf(c) # SectorOf(received)
  <2>1. received < SlotUnits
    BY <1>1
  <2> QED BY <1>1, <1>2, <2>1, SlotEndsSector DEF SectorOf
<1>4. c \notin received .. (received + Len(data) - 1)
  BY <1>1, <1>2
<1>5. SectorErased(ext, SectorOf(received))[c] = ext[c]
  BY <1>2, <1>3 DEF SectorErased
<1> QED BY <1>2, <1>4, <1>5 DEF Store

LEMMA ReceivedInSlot ==
  ASSUME ClientInv, ClientInv', RecvData, Len(served.body) <= SlotUnits,
         NEW c \in GoldenCells
  PROVE  ext'[c] = ext[c]
<1>1. PICK n \in 1 .. Len(left) :
        LET b == buf \o SubSeq(left, 1, n)
        IN  /\ b \in Seq(Units)
            /\ HeaderPart(b) \/ HeaderBad(b) \/ BodyPart(b)
            /\ ~headerDone => PartOf(b, Answered, 0)
  BY DataReceived
<1> DEFINE b == buf \o SubSeq(left, 1, n)
<1>2. /\ b \in Seq(Units)
      /\ HeaderPart(b) \/ HeaderBad(b) \/ BodyPart(b)
      /\ ~headerDone => PartOf(b, Answered, 0)
  BY <1>1
<1> HIDE DEF b
<1>3. CASE HeaderPart(b) \/ HeaderBad(b)
  BY <1>3 DEF HeaderPart, HeaderBad
<1>4. CASE BodyPart(b)
  <2> DEFINE body == IF headerDone THEN b ELSE BodyIn(b)
  <2>1. /\ received \in Nat /\ served \in Answers /\ served' = served
        /\ SlotUnits \in Nat /\ received' \in Nat
    BY ClientAssumption DEF ClientInv, ClientTypeOK, RecvData
  <2>2. body \in Seq(Units)
    <3>1. CASE headerDone
      BY <1>2, <3>1
    <3>2. CASE ~headerDone
      <4>1. EndOfHeader(b) # {}
        BY <1>4, <3>2 DEF BodyPart
      <4> QED BY <1>2, <2>1, <3>2, <4>1, BodyBegins DEF Answered
    <3> QED BY <3>1, <3>2
  <2>3. received' <= Len(served.body)
    <3>1. headerDone'
      BY <1>4 DEF BodyPart
    <3>2. PartOf(crc', served.body', 0) /\ Len(crc') = received'
      BY <3>1 DEF ClientInv, StreamInv, ClientTypeOK
    <3>3. Len(served.body) \in Nat
      BY <2>1, AnswerUnits, LenProperties
    <3> QED BY <2>1, <3>2, <3>3 DEF PartOf
  <2>4. body = <<>> \/ (Store(body) /\ received' = received + Len(body))
    BY <1>4 DEF BodyPart
  <2>5. body = <<>> => ext' = ext
    BY <1>4 DEF BodyPart
  <2> HIDE DEF body
  <2>6. CASE body # <<>>
    <3>1. Len(body) \in Nat /\ Len(body) > 0
      BY <2>2, <2>6, LenProperties, EmptySeq
    <3>2. Len(served.body) \in Nat
      BY <2>1, AnswerUnits, LenProperties
    <3>3. received + Len(body) <= SlotUnits
      BY <2>1, <2>3, <2>4, <2>6, <3>1, <3>2
    <3> QED BY <2>2, <2>4, <2>6, <3>1, <3>3, StoreInSlot DEF ClientInv
  <2> QED BY <2>5, <2>6
<1> QED BY <1>2, <1>3, <1>4

-----------------------------------------------------------------------------
(* The theorems. *)

\* Every variable keeps its type; the CRC is always over as many units as are
\* counted, and the receive buffer does not run over.
THEOREM ClientTypeCorrect == ClientSpec => []ClientTypeOK
BY InvHolds, PTL DEF ClientInv

\* No START is accepted while a socket is open, whoever aborts, whatever
\* fails and whenever ota_poll runs.
THEOREM SocketsAreClosed == ClientSpec => []SocketsClosed
<1>1. ClientInv => SocketsClosed
  BY DEF ClientInv, SocketInv, SocketsClosed
<1> QED BY <1>1, InvHolds, PTL

\* An image of the given size that is READY is the one the server has.
THEOREM ReadyImageIsServed == ClientSpec => []ReadyIsServed
<1>1. ASSUME ClientInv PROVE ReadyIsServed
  <2> SUFFICES ASSUME state \in {"READY", "COMMIT"}, expected > 0,
                      expected = Len(served.body)
               PROVE  IsStored(served.body)
    BY DEF ReadyIsServed
  <2>1. received = Len(served.body) /\ received > 0 /\ Stored(received) = crc
    BY <1>1 DEF ClientInv, ReadyInv, HasImage
  <2>2. crc \in Seq(Units) /\ Len(crc) = received /\ served.body \in Seq(Units)
    BY <1>1, AnswerUnits DEF ClientInv, ClientTypeOK
  <2>3. headerDone
    BY <1>1, <2>1, <2>2, Constants DEF ClientInv, StreamInv
  <2>4. PartOf(crc, served.body, 0)
    BY <1>1, <2>3 DEF ClientInv, StreamInv
  <2>5. crc = served.body
    BY <2>1, <2>2, <2>4, WholePart
  <2> QED BY <2>1, <2>5 DEF IsStored
<1> QED BY <1>1, InvHolds, PTL

\* COMMIT,OK comes with a whole record of what is in slot B.
THEOREM CommitIsRecorded == ClientSpec => CommitRecordsImage
<1>1. ASSUME ClientInv, [ClientNext]_clientVars
      PROVE  [ writing = "crc" /\ resp' = "COMMIT,OK"
               => /\ status'.magic = "OTA" /\ status'.flag = Blank
                  /\ status'.size = received /\ status'.crc = Stored(received) ]_clientVars
  <2> SUFFICES ASSUME ClientNext, writing = "crc", resp' = "COMMIT,OK"
               PROVE  /\ status'.magic = "OTA" /\ status'.flag = Blank
                      /\ status'.size = received /\ status'.crc = Stored(received)
    BY <1>1
  <2>0. /\ InCommit /\ connecting = "no" /\ inRecv = "no" /\ Stored(received) = crc
        /\ state = "COMMIT" \/ (state = "IDLE" /\ ~isBusy)
        /\ ~sock
        /\ status \in {SizedRecord, WholeRecord}
    BY <1>1 DEF ClientInv, WaitInv, SocketInv, RecordInv, ReadyInv, HasImage, InCommit
  <2>1. CommitDone \/ PollCommit
    <3>1. PollStep => PollCommit
      BY <2>0 DEF PollStep, PollRecv, PollTooEarly, PollFree, RecvData, Returned,
         RecvClosed, RecvError, Verify, PollError
    <3>2. ~Cut /\ ~PowerFail
      BY <2>0 DEF Cut, PowerFail
    <3>3. AtStep => CommitDone
      BY <2>0 DEF AtStep, StartBusy, StartRefused, Start, NameFound, Connected, StartFailed,
                  Abort, AbortRefused, Commit, CommitStep, Rollback, RollbackStep,
                  ConfirmBoot, AtIdle, AtReady
    <3> QED BY <3>1, <3>2, <3>3 DEF ClientNext
  <2>2. CASE CommitDone
    <3>1. status' = [status EXCEPT !.crc = Program(@, crc)]
      BY <2>2 DEF CommitDone
    <3>2. Program(status.crc, crc) = crc
      BY <2>0, NoRecordFields DEF Program
    <3>3. status' = WholeRecord
      BY <2>0, <3>1, <3>2 DEF NoRecord, SizedRecord, WholeRecord
    <3> QED BY <2>0, <3>3 DEF WholeRecord, NoRecord
  <2>3. CASE PollCommit
    BY <2>0, <2>3 DEF PollCommit, NoRecord
  <2> QED BY <2>1, <2>2, <2>3
<1> QED BY <1>1, InvHolds, PTL DEF ClientSpec, CommitRecordsImage

\* A file that fits slot B leaves the golden image behind it alone.
THEOREM GoldenIsSafe == ClientSpec => GoldenStands
<1>1. ASSUME ClientInv, ClientInv', [ClientNext]_clientVars
      PROVE  [ Len(served.body) <= SlotUnits
               => \A c \in GoldenCells : ext'[c] = ext[c] ]_clientVars
  <2> SUFFICES ASSUME ClientNext, Len(served.body) <= SlotUnits, NEW c \in GoldenCells
               PROVE  ext'[c] = ext[c]
    BY <1>1
  <2>1. CASE RecvData
    BY <1>1, <2>1, ReceivedInSlot
  <2>2. CASE AtStep
    BY <2>2 DEF AtStep, StartBusy, StartRefused, Start, NameFound, Connected, StartFailed,
         Abort, AbortRefused, Commit, CommitStep, CommitDone, Rollback, RollbackStep,
         ConfirmBoot, flashVars
  <2>3. CASE PollRecv \/ PollTooEarly \/ RecvClosed \/ RecvError \/ Verify \/ PollCommit
             \/ PollError
    BY <2>3 DEF PollRecv, PollTooEarly, RecvClosed, RecvError, Verify, PollCommit, PollError,
       flashVars
  <2>4. CASE Cut \/ PowerFail
    BY <2>4 DEF Cut, PowerFail, flashVars
  <2> QED BY <2>1, <2>2, <2>3, <2>4 DEF ClientNext, PollStep
<1> QED BY <1>1, InvHolds, NextInv, PTL DEF ClientSpec, GoldenStands
=============================================================================
