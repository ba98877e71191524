----------------------------- MODULE BootRecovery -----------------------------
(***************************************************************************)
(* boot_recovery.cpp: Backspace held at power-up offers to delete everything  *)
(* the device stored, five NVS namespaces and the sectors of the storage       *)
(* partition, in that order. A wipe stops at its first failure and waits for   *)
(* the power to be cut; power may be cut anywhere.                             *)
(***************************************************************************)
EXTENDS Naturals, Sequences

CONSTANTS
  Sectors,      (* of the storage partition; 0: the flash has none             *)
  Written,      (* bound: the namespaces that others than this module write to    *)
  HoldPolls     (* bound: polls of the keyboard in kBootRecoveryHoldMs         *)

RecoveryKeys == {"backspace", "yes", "no"}
(* A mistake the properties catch.                                           *)
Namespaces_RecordFirst == <<"product", "wifi", "product_tls", "phase0_id", "nimble_bond">>
Namespaces == <<"wifi", "product", "product_tls", "phase0_id", "nimble_bond">>
AllNames == {"wifi", "product", "product_tls", "phase0_id", "nimble_bond"}

ASSUME RecoveryAssumption == Sectors \in Nat /\ Written \subseteq AllNames /\ HoldPolls \in Nat \ {0}

VARIABLES
  boot,         (* where product_boot_recovery() is, or "up" once it returned  *)
  keys,         (* the keys of the recovery that are down                     *)
  heldFor,      (* BootRecoveryHoldDetector: polls since the key went down    *)
  next,         (* the namespace or the sector to erase next                  *)
  names,        (* the namespaces that hold data                              *)
  sectors,      (* the sectors that hold data                                 *)
  outcome,      (* what display_render_boot_recovery_result() shows           *)
  before,       (* history: the namespaces that held data when a wipe began   *)
  agreed        (* history: Y alone was down after all keys had been let go   *)

flashVars == <<names, sectors>>
askVars == <<keys, heldFor>>
recoveryVars == <<boot, askVars, next, flashVars, outcome, before, agreed>>

AllSectors == 1..Sectors
Waiting == {"start", "hold", "look", "release", "choose"}

RecoveryInit ==
  /\ boot = "start" /\ keys = {} /\ heldFor = 0 /\ next = 1
  /\ names = {} /\ sectors = {}
  /\ outcome = "none" /\ before = {} /\ agreed = FALSE

-----------------------------------------------------------------------------
(* The user, whose keys may be down before the first look at them             *)
KeyMoves ==
  /\ boot \in Waiting
  /\ \E k \in RecoveryKeys :
       keys' = IF k \in keys THEN keys \ {k} ELSE keys \cup {k}
  /\ UNCHANGED <<boot, heldFor, next, flashVars, outcome, before, agreed>>

Goes(place) ==
  /\ boot' = place /\ before' = IF place = "up" THEN names ELSE before
  /\ UNCHANGED <<askVars, next, flashVars, outcome, agreed>>

(* The first look at the key, at power-up                                     *)
LooksForBackspace ==
  boot = "start" /\ Goes(IF "backspace" \in keys THEN "hold" ELSE "up")

(* BootRecoveryHoldDetector::update(); at least one poll goes by between two. *)
HoldPoll ==
  /\ boot = "hold"
  /\ \/ "backspace" \notin keys /\ heldFor' = 0 /\ boot' = "look"
     \/ "backspace" \in keys /\ heldFor = 0 /\ heldFor' = 1 /\ boot' = "look"
     \/ /\ "backspace" \in keys /\ heldFor > 0
        /\ heldFor' \in (heldFor + 1)..HoldPolls
        /\ boot' = IF heldFor' = HoldPolls THEN "release" ELSE "look"
  /\ UNCHANGED <<keys, next, flashVars, outcome, before, agreed>>

(* The second look of the loop, which gives up.                              *)
HoldLook == boot = "look" /\ Goes(IF "backspace" \in keys THEN "hold" ELSE "up")

(* wait_for_recovery_keys_released(), with the question on the screen         *)
AllReleased == boot = "release" /\ keys = {} /\ Goes("choose")

(* boot_recovery_choice(): both keys are no answer.                           *)
Chooses ==
  /\ boot = "choose"
  /\ \/ "no" \in keys /\ "yes" \notin keys /\ Goes("up")
     \/ /\ "yes" \in keys /\ "no" \notin keys
        /\ boot' = "names" /\ next' = 1 /\ before' = names /\ agreed' = TRUE
        /\ UNCHANGED <<askVars, flashVars, outcome>>

-----------------------------------------------------------------------------
(* reset_companion_data()                                                    *)
Stops(name) ==
  boot' = "failed" /\ outcome' = name /\ UNCHANGED <<askVars, next, before, agreed>>

EraseNamespace ==
  /\ boot = "names"
  /\ LET name == Namespaces[next] IN
     \/ /\ names' = names \ {name} /\ UNCHANGED <<sectors, askVars, outcome, before, agreed>>
        /\ IF next = Len(Namespaces)
           THEN boot' = "sectors" /\ next' = 1
           ELSE UNCHANGED boot /\ next' = next + 1
     \/ /\ names' \in {names, names \ {name}} /\ UNCHANGED sectors
        /\ Stops(name)

(* erase_storage(): a missing partition is as good as an erased one.          *)
EraseSector ==
  /\ boot = "sectors" /\ UNCHANGED names
  /\ \/ /\ next > Sectors /\ boot' = "complete" /\ outcome' = "complete"
        /\ UNCHANGED <<sectors, askVars, next, before, agreed>>
     \/ /\ next <= Sectors /\ sectors' = sectors \ {next} /\ next' = next + 1
        /\ UNCHANGED <<boot, askVars, outcome, before, agreed>>
     \/ /\ next <= Sectors /\ sectors' \in {sectors, sectors \ {next}}
        /\ Stops("storage")

(* The RAM of a new start, a second after the wipe or when power was cut       *)
Starts ==
  /\ boot' = "start" /\ keys' = {} /\ heldFor' = 0 /\ next' = 1
  /\ outcome' = "none" /\ agreed' = FALSE
  /\ UNCHANGED <<flashVars, before>>

(* The other modules write to the flash once the device is up.                *)
Stores(name) ==
  /\ boot = "up" /\ names' = names \cup {name} /\ before' = names'
  /\ UNCHANGED <<boot, askVars, next, sectors, outcome, agreed>>
StoresSector ==
  /\ boot = "up" /\ \E sector \in AllSectors : sectors' = sectors \cup {sector}
  /\ UNCHANGED <<boot, askVars, next, names, outcome, before, agreed>>

RecoveryStep ==
  \/ KeyMoves \/ LooksForBackspace \/ HoldPoll \/ HoldLook \/ AllReleased
  \/ Chooses \/ EraseNamespace \/ EraseSector

-----------------------------------------------------------------------------
RecoveryTypeOK ==
  /\ boot \in Waiting \cup {"names", "sectors", "failed", "complete", "up"}
  /\ keys \subseteq RecoveryKeys /\ heldFor \in 0..HoldPolls
  /\ next \in Nat \ {0} /\ (boot = "names" => next \in DOMAIN Namespaces)
  /\ names \subseteq AllNames /\ sectors \subseteq AllSectors
  /\ outcome \in AllNames \cup {"none", "storage", "complete"}
  /\ before \subseteq AllNames /\ agreed \in BOOLEAN

(* "DELETE COMPLETE" is only shown for a device that holds nothing.           *)
CompleteIsBlank == outcome = "complete" => names = {} /\ sectors = {}

(* "Preventing an incidental key press from deleting data": nothing is erased *)
(* but after an answer of Y to a question that was asked with all keys up.    *)
WipeIsChosen ==
  boot \in {"names", "sectors", "failed", "complete"} => agreed

(* What a wipe that failed or lost its power leaves behind. The record of the *)
(* first-run setup is in `product`, the credentials in `wifi`: a start that   *)
(* finds credentials and no record takes the device for one that was set up   *)
(* by an older firmware (OnboardingStateMachine::load), so a wipe must never  *)
(* take the record and leave the credentials.                                *)
WipeKeepsSetupApart ==
  "product" \in before \ names => "wifi" \notin names

WipeIsHonest == CompleteIsBlank /\ WipeIsChosen /\ WipeKeepsSetupApart
=============================================================================
