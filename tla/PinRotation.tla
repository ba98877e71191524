----------------------------- MODULE PinRotation -----------------------------
(***************************************************************************)
(* The PIN of the device (PinRotationState and its callers in product_web).  *)
(* It is written to flash as two values, by the web server or by the         *)
(* settings, and only then changed in memory.  For a while the PIN before is  *)
(* good for one thing: a companion that polls with it is told the new one.    *)
(***************************************************************************)
EXTENDS Naturals

CONSTANTS
  Pin,            (* the PINs a user may choose                             *)
  noPin,
  Saver,          (* the tasks that call persist_pairing_code()             *)
  MaxRotations    (* bound: how often a PIN is saved                        *)

ASSUME PinAssumption ==
  /\ noPin \notin Pin
  /\ "web" \in Saver
  /\ MaxRotations \in Nat

VARIABLES
  pin,            (* g_pairing_code, and current_                           *)
  previous,       (* previous_, or noPin                                    *)
  graceOver,      (* the time of previous_expires_ms_ has come              *)
  revision,       (* revision_                                              *)
  flashPin, flashRevision,
  saving,         (* per saver: the PIN it is saving                        *)
  rotations       (* history: saves begun                                   *)

pinVars ==
  <<pin, previous, graceOver, revision, flashPin, flashRevision, saving,
    rotations>>

NotSaving == [new |-> noPin, old |-> noPin, rev |-> 0]

PinInit ==
  /\ pin \in Pin /\ flashPin = pin
  /\ previous = noPin /\ graceOver = FALSE
  /\ revision = 0 /\ flashRevision = 0
  /\ saving = [s \in Saver |-> NotSaving]
  /\ rotations = 0

-----------------------------------------------------------------------------
(* PinRotationState::authorize(), and what it does to the PIN before.        *)
Authorization(p, isAction) ==
  CASE p = pin -> "current"
    [] p # pin /\ isAction /\ p = previous /\ ~graceOver -> "previous"
    [] OTHER -> "denied"

AfterAuthorize(p, isAction) ==
  IF \/ Authorization(p, isAction) = "current"
     \/ Authorization(p, isAction) = "denied" /\ graceOver
  THEN previous' = noPin /\ graceOver' = FALSE
  ELSE UNCHANGED <<previous, graceOver>>

(* next_pairing()                                                           *)
NextPairing(granted) == IF granted = "previous" THEN pin ELSE noPin

-----------------------------------------------------------------------------
(* persist_pairing_code() up to its first write.  The web page has to know    *)
(* the PIN.                                                                 *)
BeginSave(s, new) ==
  /\ rotations < MaxRotations /\ saving[s] = NotSaving
  /\ rotations' = rotations + 1
  /\ saving' = [saving EXCEPT ![s] =
                  [new |-> new, old |-> pin, rev |-> revision + 1]]
  /\ IF s = "web" THEN AfterAuthorize(pin, FALSE)
                  ELSE UNCHANGED <<previous, graceOver>>
  /\ flashPin' = new
  /\ UNCHANGED <<pin, revision, flashRevision>>

(* PinRotationState::rotate()                                               *)
Rotate(old, new) ==
  IF old = pin /\ old # new
  THEN /\ previous' = pin /\ pin' = new /\ graceOver' = FALSE
       /\ revision' = revision + 1
  ELSE UNCHANGED <<pin, previous, graceOver, revision>>

FinishSave(s) ==
  /\ saving[s] # NotSaving
  /\ flashRevision' = saving[s].rev
  /\ Rotate(saving[s].old, saving[s].new)
  /\ saving' = [saving EXCEPT ![s] = NotSaving]
  /\ UNCHANGED <<flashPin, rotations>>

(* The second value cannot be written.                                      *)
SaveFails(s) ==
  /\ saving[s] # NotSaving
  /\ saving' = [saving EXCEPT ![s] = NotSaving]
  /\ UNCHANGED <<pin, previous, graceOver, revision, flashPin, flashRevision,
                 rotations>>

(* Five minutes have passed since a rotation.                               *)
GraceEnds ==
  /\ previous # noPin /\ ~graceOver
  /\ graceOver' = TRUE
  /\ UNCHANGED <<pin, previous, revision, flashPin, flashRevision, saving,
                 rotations>>

(* load_pairing_code(): what is in flash, or, when flash cannot be opened, a  *)
(* PIN for this boot.                                                       *)
LoadPairingCode ==
  /\ \/ pin' = flashPin /\ revision' = flashRevision
     \/ pin' \in Pin /\ revision' = 0
  /\ previous' = noPin /\ graceOver' = FALSE
  /\ saving' = [s \in Saver |-> NotSaving]
  /\ UNCHANGED <<flashPin, flashRevision, rotations>>
=============================================================================
