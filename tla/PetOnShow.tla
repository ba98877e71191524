----------------------------- MODULE PetOnShow -----------------------------
(* What the pet store promises (pet-ui-design.md, "Transactional Upload"):    *)
(* the device shows a whole pet or its placeholder, and goes from one pet to  *)
(* another in one step that leaves the old one in flash. The other slot may   *)
(* hold anything in between.                                                  *)
CONSTANTS
    Bundles,     \* the pets an agent can send
    NoBundle     \* the placeholder in the firmware; also a slot without a whole pet

VARIABLES
    pet,         \* what the device shows
    spare        \* what the other slot holds

Init == pet \in Bundles \cup {NoBundle} /\ spare \in Bundles \cup {NoBundle}

Prepare == spare' \in Bundles \cup {NoBundle} /\ UNCHANGED pet

Switch == spare # NoBundle /\ pet' = spare /\ spare' = pet

Spec == Init /\ [][Prepare \/ Switch]_<<pet, spare>>
=============================================================================
