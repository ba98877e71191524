---------------------------- MODULE DeviceSettings ----------------------------
(***************************************************************************)
(* The settings of the device: the record in NVS, the copy DeviceSettingsStore*)
(* holds, the copy the menu edits, what is in force, and the web page that    *)
(* sets the chord of G0, from power-up (with BootRecovery, which may delete    *)
(* the record) to power-down. The three rows of the menu that behave alike    *)
(* (brightness, return to pet, frame rate) are one number, `display`.         *)
(***************************************************************************)
EXTENDS BootRecovery

CONSTANTS
  DisplayChoices,   (* the values of a row of the menu                        *)
  DefaultDisplay,   (* of DeviceSettings{}                                   *)
  Chords,           (* g0_chord_enabled, _modifiers and _usage               *)
  DefaultChord,
  SettingsDepth     (* kSettingsQueueDepth                                   *)

ASSUME SettingsAssumption ==
  /\ DisplayChoices \in Nat \ {0} /\ DefaultDisplay \in 0..(DisplayChoices - 1)
  /\ DefaultChord \in Chords /\ SettingsDepth \in Nat \ {0}

VARIABLES
  nvsRecord,     (* "display_cfg" in the namespace "product", or Nothing         *)
  current,    (* DeviceSettingsStore::current_                               *)
  menuCopy,   (* SettingsMenu::device_settings_                              *)
  inForce,    (* the brightness, timeout and frame interval that are applied  *)
  confirmed,     (* apply_display_settings commands in g_settings_queue          *)
  webDraft,   (* what apply_web_g0_chord_settings() is about to commit        *)
  torn        (* history: a commit failed after nvs_set_blob()               *)

copyVars == <<current, menuCopy, inForce>>
settingsVars == <<nvsRecord, copyVars, confirmed, webDraft, torn>>
bootVars == <<recoveryVars, settingsVars>>

Settings == [display : 0..(DisplayChoices - 1), chord : Chords]
Defaults == [display |-> DefaultDisplay, chord |-> DefaultChord]
(* No record, or one that decode_device_settings() refuses.                   *)
Nothing == [display |-> DisplayChoices, chord |-> DefaultChord]

(* The RAM of a new start; display() puts the defaults in force, for          *)
(* config() reads the record only after it.                                  *)
RamIsNew ==
  /\ current' = Defaults /\ menuCopy' = Defaults /\ inForce' = DefaultDisplay
  /\ confirmed' = <<>> /\ webDraft' = Nothing

BootInit ==
  /\ RecoveryInit /\ nvsRecord = Nothing
  /\ current = Defaults /\ menuCopy = Defaults /\ inForce = DefaultDisplay
  /\ confirmed = <<>> /\ webDraft = Nothing /\ torn = FALSE

-----------------------------------------------------------------------------
(* Start and recovery                                                        *)
(* config(): load_device_settings() and the copy of the menu                  *)
Loads ==
  /\ current' = IF nvsRecord = Nothing THEN Defaults ELSE nvsRecord
  /\ menuCopy' = current' /\ UNCHANGED <<nvsRecord, inForce, confirmed, webDraft, torn>>

Recovers ==
  /\ RecoveryStep
  /\ IF boot' = "up" THEN Loads
     ELSE /\ nvsRecord' = IF "product" \in names' THEN nvsRecord ELSE Nothing
          /\ UNCHANGED <<copyVars, confirmed, webDraft, torn>>

(* A restart, or a cut of power at any time                                   *)
StartsAgain ==
  Starts /\ RamIsNew /\ torn' = FALSE /\ UNCHANGED nvsRecord
OthersStore ==
  /\ StoresSector \/ \E name \in Written : Stores(name)
  /\ UNCHANGED settingsVars

Up == boot = "up" /\ UNCHANGED recoveryVars

-----------------------------------------------------------------------------
(* The device in use                                                         *)
(* save_settings_blob(), which writes the record before the copy and may fail *)
(* after it wrote.                                                           *)
CommitOf(settings) ==
  /\ Stores("product")
  /\ nvsRecord' = settings /\ current' = settings /\ torn' = FALSE
(* A mistake the properties catch.                                           *)
CommitFails_TakesCopy(settings) ==
  /\ current' = settings
  /\ \/ Up /\ UNCHANGED <<nvsRecord, torn>>
     \/ Stores("product") /\ nvsRecord' = settings /\ torn' = TRUE
CommitFails(settings) ==
  /\ UNCHANGED current
  /\ \/ Up /\ UNCHANGED <<nvsRecord, torn>>
     \/ Stores("product") /\ nvsRecord' = settings /\ torn' = TRUE

(* browse_key(): the arrows on one of the rows 4 to 6                         *)
MenuChanges ==
  /\ Up
  /\ \E turn \in {1, DisplayChoices - 1} :
       menuCopy' = [menuCopy EXCEPT !.display = (@ + turn) % DisplayChoices]
  /\ UNCHANGED <<nvsRecord, current, inForce, confirmed, webDraft, torn>>

(* Enter on one of them; a full queue takes nothing.                          *)
MenuConfirms ==
  /\ Up /\ Len(confirmed) < SettingsDepth
  /\ confirmed' = Append(confirmed, menuCopy)
  /\ UNCHANGED <<nvsRecord, copyVars, webDraft, torn>>

(* process_settings_command(apply_display_settings)                          *)
UiApplies ==
  /\ confirmed # <<>> /\ confirmed' = Tail(confirmed)
  /\ \/ CommitOf(Head(confirmed)) /\ inForce' = Head(confirmed).display
     \/ CommitFails(Head(confirmed)) /\ UNCHANGED inForce
  /\ UNCHANGED <<menuCopy, webDraft>>

(* apply_web_g0_chord_settings(): what it read and what it commits are two     *)
(* critical sections.                                                        *)
WebReads ==
  /\ Up /\ webDraft = Nothing
  /\ \E chord \in Chords : webDraft' = [current EXCEPT !.chord = chord]
  /\ UNCHANGED <<nvsRecord, copyVars, confirmed, torn>>
WebCommits ==
  /\ webDraft # Nothing /\ webDraft' = Nothing
  /\ CommitOf(webDraft) \/ CommitFails(webDraft)
  /\ UNCHANGED <<menuCopy, inForce, confirmed>>

InUse == MenuChanges \/ MenuConfirms \/ UiApplies \/ WebReads \/ WebCommits
BootNext == Recovers \/ StartsAgain \/ OthersStore \/ InUse
BootSpec == BootInit /\ [][BootNext]_bootVars

-----------------------------------------------------------------------------
SettingsTypeOK ==
  /\ nvsRecord \in Settings \cup {Nothing} /\ webDraft \in Settings \cup {Nothing}
  /\ current \in Settings /\ menuCopy \in Settings
  /\ inForce \in 0..(DisplayChoices - 1)
  /\ confirmed \in Seq(Settings) /\ Len(confirmed) <= SettingsDepth /\ torn \in BOOLEAN

(* What the firmware takes its settings to be is what the next start will     *)
(* find, unless a commit failed after it had written.                         *)
StoreMatchesRecord ==
  boot = "up" /\ ~torn => current = IF nvsRecord = Nothing THEN Defaults ELSE nvsRecord

(* A wipe takes the settings with it, and a record is never found outside     *)
(* the namespace that holds it.                                              *)
RecordHasNamespace == nvsRecord # Nothing => "product" \in names

SettingsSurvive == StoreMatchesRecord /\ RecordHasNamespace

(* "Brightness, automatic return [and] FPS ... are persistent": with nothing  *)
(* left to apply, the display settings in force are the saved ones.           *)
SavedSettingsAreInForce ==
  boot = "up" /\ confirmed = <<>> /\ ~torn => inForce = current.display

(* Only the page of the web server changes the chord of G0.                   *)
MenuKeepsChord == [][UiApplies => current'.chord = current.chord]_bootVars

(* ... and it changes nothing else.                                          *)
WebKeepsDisplay == [][WebCommits => current'.display = current.display]_bootVars
=============================================================================
