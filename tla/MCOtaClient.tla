---------------------------- MODULE MCOtaClient ----------------------------
(***************************************************************************)
(* Small instances of OtaClient: sectors of two units, a file of three, so *)
(* that it ends in the middle of the second sector and a piece of it may   *)
(* cross the boundary.                                                     *)
(***************************************************************************)
EXTENDS OtaClient

CONSTANTS u1, u2, u3, page, noise, old

MCUnits == {u1, u2, u3, page, noise, old, HttpStart, HeaderEnd, Blank}
MCFile  == <<u1, u2, u3>>

Answer(head, body) == [head |-> head, body |-> body]
Http    == <<HttpStart, HeaderEnd>>
Right   == Answer(Http, MCFile)
Changed == Answer(Http, <<u1, u3, u3>>)
Page    == Answer(Http, <<page>>)
Alien   == Answer(<<noise, HeaderEnd>>, <<page>>)
Babble  == Answer(<<noise, noise, noise>>, <<page>>)

MCAnswers  == {Right, Changed, Page, Alien, Babble}
MCRight    == {Right}

MCSizes    == {0, 3}
MCCommands == {"START", "ABORT", "COMMIT", "ROLLBACK"}
MCStart    == {"START"}

\* Slot B as an earlier download left it, or erased.
MCInit ==
  /\ ext \in { [c \in ExtCells |-> v] : v \in {Blank, old} }
  /\ served = Right
  /\ ClientInit

MCSpec     == MCInit /\ [][ClientNext]_clientVars
MCFairSpec == MCSpec /\ BoardFairness /\ ServerFairness
=============================================================================
