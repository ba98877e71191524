--------------------------- MODULE DurableCatalog ---------------------------
(* What the profile catalog promises across power cuts                        *)
(* (docs/superpowers/specs/2026-07-25-cardputer-status-settings-navigation-   *)
(* design.md, "Raw storage layout"), with banks, sequence numbers and flash   *)
(* commands hidden: what a restart finds is the catalog in use, or that       *)
(* catalog with one change that was under way.                                *)
EXTENDS Naturals

VARIABLES
    used,      \* the catalog requests are answered from
    stored     \* the catalog a restart would load

NoProfiles == [id \in {} |-> id]

\* One profile more, the next revision of one, or one less; the others as they were.
OneChange(catalog, changed) ==
    \/ \E id \in DOMAIN changed \ DOMAIN catalog :
          changed = [i \in DOMAIN catalog \cup {id} |->
                        IF i = id THEN changed[id] ELSE catalog[i]]
    \/ \E id \in DOMAIN catalog \cap DOMAIN changed :
          /\ changed = [catalog EXCEPT ![id] = changed[id]]
          /\ changed[id].revision = catalog[id].revision + 1
    \/ \E id \in DOMAIN catalog :
          changed = [i \in DOMAIN catalog \ {id} |-> catalog[i]]

Init == used = NoProfiles /\ stored = NoProfiles

Write == OneChange(used, stored') /\ UNCHANGED used
Withdraw == stored' = used /\ UNCHANGED used
\* The change is answered, or the device restarts.
Adopt == used' = stored /\ UNCHANGED stored

Next == Write \/ Withdraw \/ Adopt
Spec == Init /\ [][Next]_<<used, stored>>
=============================================================================
