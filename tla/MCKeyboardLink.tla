--------------------------- MODULE MCKeyboardLink ---------------------------
(* Four keys: Fn, one that navigates with it and is a digit, one that returns  *)
(* to the pet and is bound to a chord, and one that toggles the mode with Fn.  *)
EXTENDS KeyboardLink

CONSTANTS fn, nav, back, plain, MaxEvents, MaxAside
MCKey == {fn, nav, back, plain}
MCLayers == {"keyboard", "codex"} \X BOOLEAN
MCChordKeys == [l \in MCLayers |-> IF l[2] THEN {} ELSE {back}]
MCModeKeys == [l \in MCLayers |-> IF l[2] THEN {plain} ELSE {}]

(* A run starts with a keyboard that is ready and is about what the user does    *)
(* while it is, or about the link, with MaxAside presses of the digit key.      *)
MCInit ==
  /\ KeysInit /\ strokes = 0 /\ commands = 0
  /\ air \in {1, MaxConnections + 1} /\ connections = air /\ handle = air
  /\ secure = TRUE /\ pairing = None /\ input = TRUE /\ closing = FALSE
  /\ advertising = FALSE /\ callback = None /\ hiddEvents = <<>>
  /\ link = [gap |-> TRUE, secure |-> TRUE, hidd |-> TRUE, input |-> TRUE]
  /\ ready = TRUE /\ elapsed = FALSE
  /\ passkey = 0 /\ digits = 0 /\ audio = FALSE /\ watchdog = None
  /\ crossed = FALSE /\ faults = 0 /\ turns = 0

AboutKeys == connections > MaxConnections
MCNext ==
  /\ Next
  /\ strokes' + commands' + faults' <= (IF AboutKeys THEN MaxEvents ELSE MaxAside)
  /\ IF AboutKeys THEN UNCHANGED <<airVars, audio, callback>>
     ELSE held' \subseteq {nav}
MCSpec == MCInit /\ [][MCNext]_vars
MCFairSpec == MCSpec /\ Fairness
=============================================================================
