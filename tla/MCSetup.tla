------------------------------- MODULE MCSetup -------------------------------
(* The first-run setup, the pages of the device, and its recovery and settings*)
(* share no variable: a behaviour is of one of them, and the others stay where *)
(* they begin.                                                               *)
EXTENDS Onboarding, DeviceUi, DeviceSettings

VARIABLE part
parts == <<vars, uiVars, bootVars, part>>

MCInit ==
  /\ Init /\ UiInit /\ BootInit /\ part \in {"setup", "pages", "settings"}
  /\ part # "setup" => prone = {}
  /\ part # "pages" => uiProne = {}

MCNext ==
  /\ UNCHANGED part
  /\ \/ part = "setup" /\ Next /\ UNCHANGED <<uiVars, bootVars>>
     \/ part = "pages" /\ UiNext /\ UNCHANGED <<vars, bootVars>>
     \/ part = "settings" /\ BootNext /\ UNCHANGED <<vars, uiVars>>

MCSpec == MCInit /\ [][MCNext]_parts /\ Fairness
=============================================================================
