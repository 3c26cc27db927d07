---------------------------- MODULE MCBootloader ----------------------------
(***************************************************************************)
(* Small instances of BootloaderEnv: a few words a sector, one application *)
(* sector, an installed bootloader and a new one.                          *)
(***************************************************************************)
EXTENDS BootloaderEnv

CONSTANTS oldBl1, oldBl2, newBl1, newBl2, oldVec, newVec, body

MCWords == {Erased, oldBl1, oldBl2, newBl1, newBl2, oldVec, newVec, body}
MCVectors == {oldVec, newVec}
OldBl == [c \in BlCells |-> IF c = 0 THEN oldBl1 ELSE oldBl2]
NewBl == [c \in BlCells |-> IF c = 0 THEN newBl1 ELSE newBl2]

MCBlImages == {OldBl, NewBl}

Write(addr, data) == Frame("write", addr, data)
Erase(addr) == Frame("erase", addr, <<>>)

AppFrames  == {Erase(AppBase), Write(AppBase, <<newVec, body>>), Bare("boot")}
TempFrames == {Erase(AppBase), Erase(BlTemp), Write(BlTemp, <<newBl1, newBl2>>), Bare("boot")}
OddFrames  == {Bare("led"), Bare("short"), Bare("info"), StartByte}
Sector0    == {Erase(0), Write(1, <<newBl2>>)}
Requests   == {Bare("at"), Bare("atbl")}

MCAppOnly == AppFrames \cup OddFrames \cup Requests
MCFrames  == TempFrames \cup Sector0 \cup OddFrames \cup Requests

\* The board as shipped: a bootloader, and an old application or none.
MCInit ==
  /\ mem \in { [c \in Cells |-> IF c \in BlCells THEN OldBl[c]
                                ELSE IF c = AppBase THEN v ELSE Erased]
               : v \in {oldVec, Erased} }
  /\ Init

MCSpec == MCInit /\ [][Next]_blVars
MCFairSpec == MCSpec /\ Fairness
=============================================================================
