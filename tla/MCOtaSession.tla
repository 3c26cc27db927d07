---------------------------- MODULE MCOtaSession ----------------------------
(***************************************************************************)
(* Small instances of OtaSession: two words a sector, a three-word         *)
(* application file over two sectors, sent in batches of two words, so     *)
(* that the last batch is short and the last sector not full.              *)
(***************************************************************************)
EXTENDS OtaSession

CONSTANTS oldBl1, oldBl2, newBl1, newBl2, oldVec, newVec, body1, body2

MCWords   == {Erased, oldBl1, oldBl2, newBl1, newBl2, oldVec, newVec, body1, body2}
MCVectors == {oldVec, newVec}
OldBl == [c \in BlCells |-> IF c = 0 THEN oldBl1 ELSE oldBl2]
NewBl == [c \in BlCells |-> IF c = 0 THEN newBl1 ELSE newBl2]
MCBlImages == {OldBl, NewBl}
MCAppImage == <<newVec, body1, body2>>
MCBlImage  == <<newBl1, newBl2>>

\* Besides the default: the middle of a sector, and the bootloader itself.
MCBases   == {AppBase + 1, 0}
MCAll     == ToolCmds
MCAuto    == {"auto"}

\* A board with a bootloader and an old application; what else may be in the
\* flash when a run begins is what the runs before it leave.
MCInit ==
  /\ mem = [c \in Cells |-> IF c \in BlCells THEN OldBl[c]
                             ELSE IF c = AppBase THEN oldVec
                             ELSE IF c = AppBase + 1 THEN body2
                             ELSE Erased]
  /\ tool \in Tools \ {"flash", "flash-bl"}
  /\ SessionInit

MCSpec == MCInit /\ [][Next]_vars
MCFairSpec == MCSpec /\ Fairness
=============================================================================
