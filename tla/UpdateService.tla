---------------------------- MODULE UpdateService ----------------------------
(***************************************************************************)
(* What an update tool owes its operator: it may end in failure at any     *)
(* time and leave anything behind, but it reports success only of a flash  *)
(* that holds the image, and the report stays true until the next run.     *)
(***************************************************************************)
VARIABLES
  content,   \* "image" when the target area holds the file, "other" if not
  report     \* what the current run has told: nothing yet, ok, or failed

Init == content \in {"image", "other"} /\ report = "none"

\* A run begins; its file may be another one.
Start ==
  /\ report' = "none"
  /\ content' \in {"image", "other"}

\* The flash changes while the operator has not been told that it is good.
Change ==
  /\ report # "ok"
  /\ content' \in {"image", "other"}
  /\ UNCHANGED report

Succeed ==
  /\ report = "none"
  /\ content = "image"
  /\ report' = "ok"
  /\ UNCHANGED content

Fail ==
  /\ report = "none"
  /\ report' = "failed"
  /\ content' \in {"image", "other"}

Next == Start \/ Change \/ Succeed \/ Fail

Spec == Init /\ [][Next]_<<content, report>>
=============================================================================
