-------------------------- MODULE MCActiveProfile --------------------------
(* ActiveProfile with two profiles of two texts. In "pages" two pages change  *)
(* the catalog; in "flash" one page does, while flash commands fail and power *)
(* is cut; in "halfway" it makes few changes, and any step can fail.          *)
EXTENDS ActiveProfile

VARIABLE part

OldProfile == {Profile(1, "keys")}

\* Changes of the catalog, the import among them.
Changes == [pages |-> 3, flash |-> MaxSequence, halfway |-> 2]

Between == stage \in {"idle", "done"}

MCInit == RuntimeInit /\ part \in {"pages", "flash", "halfway"}
MCNext ==
    /\ RuntimeNext /\ UNCHANGED part
    /\ UNCHANGED pageVars \/ Between
    /\ part = "pages" =>
         answer' # "storage_error" /\ (boot' = "loading" => boot = "loading")
    /\ stage' = "erase" => sequence' < Changes[part]
    /\ part # "halfway" => amiss' = {}
    /\ part # "pages" =>
         \A page \in Pages : calls'[page] # {} => page = CHOOSE p \in Pages : TRUE
MCSpec == MCInit /\ [][MCNext]_<<vars, part>>
=============================================================================
