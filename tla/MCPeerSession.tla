---------------------------- MODULE MCPeerSession ----------------------------
(***************************************************************************)
(* The instance of MCOtaSession with the other peers: agent1 sends three   *)
(* frames and gives up at the second error, the others send two.           *)
(***************************************************************************)
EXTENDS PeerSession

CONSTANTS oldBl1, oldBl2, newBl1, newBl2, oldVec, newVec, body1, body2

MCWords   == {Erased, oldBl1, oldBl2, newBl1, newBl2, oldVec, newVec, body1, body2}
MCVectors == {oldVec, newVec}
OldBl == [c \in BlCells |-> IF c = 0 THEN oldBl1 ELSE oldBl2]
NewBl == [c \in BlCells |-> IF c = 0 THEN newBl1 ELSE newBl2]
MCBlImages == {OldBl, NewBl}
MCAppImage == <<newVec, body1, body2>>
MCBlImage  == <<newBl1, newBl2>>

CommandLine(by, enter, file, addr, stages) ==
  [by |-> by, enter |-> enter, file |-> file, addr |-> addr, stages |-> stages]
V4(enter, addr, stages) == CommandLine("v4", enter, "app", addr, stages)

\* The PC tool also flashes at an address in the middle of a sector, and erases
\* and writes the bootloader.
MCRuns ==
  {CommandLine(p, "at", "app", AppBase, Flash) : p \in Programs}
    \cup {CommandLine(p[1], p[2], "bl", AppBase, FlashBl) : p \in {<<"agent3", "at">>, <<"v4", "wait">>}}
    \cup {V4("probe", AppBase, Flash)}
    \cup {V4("wait", a, Flash) : a \in {0, AppBase, AppBase + 1}}
    \cup {V4("wait", a, <<s>>) : a \in {0, AppBase}, s \in {"erase", "write"}}
    \cup {V4("wait", a, <<"write", "boot">>) : a \in {0, AppBase}}
    \cup {V4("wait", AppBase, <<s>>) : s \in {"info", "boot"}}

\* The board as shipped, with an old application or none.
MCInit ==
  /\ mem \in { [c \in Cells |-> IF c \in BlCells THEN OldBl[c]
                                ELSE IF c = AppBase THEN v
                                ELSE IF c = AppBase + 1 /\ v # Erased THEN body2
                                ELSE Erased]
               : v \in {oldVec, Erased} }
  /\ PeerInit

MCSpec == MCInit /\ [][Next]_vars
MCFairSpec == MCSpec /\ Fairness
=============================================================================
