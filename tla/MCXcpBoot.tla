----------------------------- MODULE MCXcpBoot -----------------------------
(***************************************************************************)
(* Small instances of XcpBoot: blocks of two words, two blocks a sector,   *)
(* and packets that may run over the end of a block.                       *)
(***************************************************************************)
EXTENDS XcpBoot

CONSTANTS old, u, v, noise

MCUnits  == {old, u, v, noise, Erased}
MCChunks == {<<v, Erased>>, <<u, v>>}
MCThree  == {<<u, v, u>>}

\* What the flash holds: an old program, or nothing behind the bootloader.
MCInit ==
  /\ flash \in {[a \in Cells |-> IF a \in BlCells THEN old ELSE w] : w \in {old, Erased}}
  /\ boot = [base |-> NoBase, data |-> NoData]
  /\ block = [base |-> Zero, data |-> NoData]
  /\ connected = FALSE /\ mta = 0
  /\ mode = "run" /\ expired = FALSE /\ resp = "none"
  /\ zeroEop \in BOOLEAN
  /\ acked = NoAck /\ tidy = FALSE
  /\ programs = 0 /\ faults = 0

MCSpec     == MCInit /\ [][XcpNext]_vars
MCFairSpec == MCSpec /\ XcpFairness
=============================================================================
