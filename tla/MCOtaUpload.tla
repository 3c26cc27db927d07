---------------------------- MODULE MCOtaUpload ----------------------------
(***************************************************************************)
(* Small instances of OtaUpload: a file of three units over two sectors    *)
(* and another one of two, served by a server that also has error pages.   *)
(***************************************************************************)
EXTENDS OtaUpload

CONSTANTS u1, u2, u3, page, old

MCUnits == {u1, u2, u3, page, old, HttpStart, HeaderEnd, Blank}
MCFile  == <<u1, u2, u3>>
MCOther == <<u3, u1>>
MCFiles == {MCFile, MCOther}
Http    == <<HttpStart, HeaderEnd>>
Right   == [head |-> Http, body |-> MCFile]
Other   == [head |-> Http, body |-> MCOther]
Page    == [head |-> Http, body |-> <<page>>]

MCAnswers  == {Right, Other, Page}
MCSizes    == {0, 2, 3}
MCCommands == {"START", "COMMIT"}

\* Slot B as an earlier download left it.
MCInit ==
  /\ ext = [c \in ExtCells |-> old]
  /\ served = Page
  /\ UploadInit

MCSpec     == MCInit /\ [][UploadNext]_uploadVars
MCFairSpec == MCSpec /\ UploadFairness
=============================================================================
