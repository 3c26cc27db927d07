----------------------------- MODULE MCSwapBoot -----------------------------
(***************************************************************************)
(* Small instances of SwapBoot: two sectors of two lines in slot A, a line *)
(* of two units, an application that spans both sectors, and images that   *)
(* fill slot A, end in a line, exceed it, or are refused.                  *)
(***************************************************************************)
EXTENDS SwapBoot

Image(name, total, ver) ==
  [name |-> name, total |-> total, ver |-> ver, header |-> TRUE, digest |-> FALSE]

Small  == Image("small", 2, 1)
Full   == Image("full", 8, 2)
Ragged == Image("ragged", 7, 1)
Big    == Image("big", 14, 2)
Signed == [Image("signed", 8, 2) EXCEPT !.digest = TRUE]
Bare   == [Image("bare", 6, 1) EXCEPT !.header = FALSE]

MCImages == {Small, Full, Ragged, Big, Signed, Bare}
MCFits   == {Full, Bare}

MCInit ==
  /\ golden \in {i \in Images : i.name \in {"full", "ragged", "bare"}}
  /\ SwapInit

MCSpec     == MCInit /\ [][SwapNext]_vars
MCFairSpec == MCSpec /\ SwapFairness
=============================================================================
