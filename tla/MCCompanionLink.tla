--------------------------- MODULE MCCompanionLink ---------------------------
(* One agent, two threads, two PINs.  What the user, Codex and the network do  *)
(* by themselves happens at most MaxEvents times in all.                      *)
EXTENDS CompanionLink

CONSTANTS p1, p2, t1, t2, MaxEvents
MCPin == {p1, p2}
MCThread == {t1, t2}

(* A run is about the PIN or about what Codex and the user do.               *)
Events == rotations + moves + presses + faults
MCInit ==
  /\ Init
  /\ pin = p1 /\ threads = <<t1, t2>> /\ active = t1 /\ unread # nothing
MCNext ==
  /\ Next
  /\ Events' <= (IF kind = "mac" THEN 1 ELSE MaxEvents)
  /\ rotations' > 0 => moves' + presses' = 0
  /\ rotations' > rotations => flashPin' # pin
MCSpec == MCInit /\ [][MCNext]_vars
MCFairSpec == MCSpec /\ Fairness
=============================================================================
