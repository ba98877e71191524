----------------------------- MODULE KeyboardLink -----------------------------
(***************************************************************************)
(* The keyboard on its link.  A key is read as a digit of the passkey while   *)
(* the link asks for one; a report is made only for a ready link; a           *)
(* disconnect that the HIDD loop learns of releases all keys; and what the     *)
(* sender hands to the stack gets to the host that is there by then.          *)
(***************************************************************************)
EXTENDS BleLink, KeyboardReports

CONSTANTS
  DigitKeys,      (* the keys ble_pairing_digit_from_hid_usage() knows         *)
  MaxStrokes,     (* bound: keys pressed in a run                            *)
  MaxCommands     (* bound: commands that change the page or the mode, G0's   *)
                  (* presses and keys of the serial test                     *)

VARIABLES
  strokes,        (* history: keys pressed so far                            *)
  commands        (* history: commands so far                                *)

boundVars == <<strokes, commands>>
vars == <<linkVars, keyVars, boundVars>>

Init == LinkInit /\ KeysInit /\ strokes = 0 /\ commands = 0

-----------------------------------------------------------------------------
(* esp_hidd_dev_input_set() reaches the host that takes reports.              *)
Live == air # 0 /\ secure /\ input

(* keyboard_event()                                                          *)
KeyEvent(k) ==
  /\ strokes' = strokes + (IF Presses(k) THEN 1 ELSE 0) /\ strokes' <= MaxStrokes
  /\ \/ /\ PairingInputActive
        /\ IF Presses(k) /\ k \in DigitKeys THEN PairingInputDigit
           ELSE UNCHANGED linkVars
        /\ TakenByPasskey(k, passkey' = 0)
     \/ /\ ~PairingInputActive
        /\ \/ TakenByOnboarding(k) \/ TakenByNavigation(k, Live)
           \/ TakenByPage(k) \/ GoesToHost(k, ready)
        /\ UNCHANGED linkVars
  /\ UNCHANGED commands

(* The tasks of the macros and of G0, and the sender                         *)
MacroTask ==
  /\ MacroStarts(ready) \/ MacroTogglesMode(Live) \/ ChordEnds(ready)
  /\ UNCHANGED <<linkVars, boundVars>>
Sender == Sends(Live) /\ UNCHANGED <<linkVars, boundVars>>

(* A report is not taken five times.                                         *)
SendFails ==
  /\ Live /\ faults < MaxFaults /\ faults' = faults + 1
  /\ Sends(FALSE)
  /\ UNCHANGED <<airVars, advertising, callback, hiddEvents, handle, link, ready,
                 elapsed, passkeyVars, audio, watchdog, crossed, turns, boundVars>>

Command ==
  /\ commands < MaxCommands /\ commands' = commands + 1
  /\ \/ G0Starts(ready) \/ BurstKey
     \/ SafeProfile(Live) \/ ApplyInputMode(Live) \/ ReturnsByItself(Live)
     \/ OnboardingRestarts(Live)
  /\ UNCHANGED <<linkVars, strokes>>
Completion == OnboardingEnds /\ UNCHANGED <<linkVars, boundVars>>

(* ble_disconnected() releases all keys before the next advertisement.        *)
HiddLoop ==
  /\ \/ HiddConnect /\ UNCHANGED keyVars
     \/ /\ HiddDisconnect /\ ReleaseState(Live)
        /\ UNCHANGED <<held, pressed, captured, routerVars, macros, chord, private>>
  /\ UNCHANGED boundVars

HostCallback == HostTask /\ UNCHANGED <<keyVars, boundVars>>
Watchdog == WatchdogTask /\ UNCHANGED <<keyVars, boundVars>>
Clock == TimePasses /\ UNCHANGED <<keyVars, boundVars>>
Closes == LinkCloses /\ HostGone /\ UNCHANGED boundVars

Stack ==
  /\ \/ HostConnects /\ HostThere
     \/ /\ \/ ConnectFails \/ AdvertisingEnds \/ HostSecures \/ HostPairs
           \/ EncryptionFails \/ HostSubscribes \/ SinkChanges
        /\ UNCHANGED keyVars
  /\ UNCHANGED boundVars

Next ==
  \/ \E k \in Key : KeyEvent(k)
  \/ MacroTask \/ Sender \/ SendFails \/ Command \/ Completion
  \/ HiddLoop \/ HostCallback \/ Watchdog \/ Clock \/ Closes \/ Stack

Spec == Init /\ [][Next]_vars

(* Every task runs, the time-out passes, and a connection that is terminated    *)
(* closes.  The user and the host are free.                                  *)
Fairness ==
  /\ WF_vars(MacroTask) /\ WF_vars(Sender)
  /\ WF_vars(HiddLoop) /\ WF_vars(HostCallback)
  /\ WF_vars(Watchdog) /\ WF_vars(Clock) /\ WF_vars(closing /\ Closes)
FairSpec == Spec /\ Fairness

-----------------------------------------------------------------------------
(* The last report on its way to the host names no key but those the user      *)
(* holds, and the chord only while the task that releases it runs: no order of  *)
(* keys, macros, page changes and link events leaves a key down for good.  A    *)
(* report that is lost or overtaken is excepted, and the release of a key that  *)
(* scrolls (KeyboardProbe's queue, release_state() and keyboard_event()).       *)
LastReportIsHeld ==
  ~disordered /\ air # 0 =>
    Final(hidQueue, down) \subseteq held \cup (IF chord THEN {Chord} ELSE {})

(* Release all is queued like any report, says the feasibility plan (:788); but   *)
(* it is sent past the queue, and an older report can press a key again.       *)
NothingStaysDown ==
  held = {} /\ ~chord /\ macros = <<>> /\ hidQueue = <<>> => down = {}

(* So the host sees a key go up that the user no longer holds, and a chord end.  *)
KeyUpArrives ==
  \A u \in Key \cup {Chord} :
    (u \in down /\ u \notin held /\ ~disordered)
      ~> (u \notin down \/ u \in held \/ disordered)

(* No report is made that has a key pressed for a passkey, for onboarding or on  *)
(* another page than the pet's and held since, unless the passkey is complete,    *)
(* or the device back at the pet, by itself (g_pressed.fill() in               *)
(* keyboard_event()).                                                        *)
Made(keys) ==
  Len(hidQueue') > Len(hidQueue) => Final(hidQueue', down') \cap keys = {}
LocalKeysStayLocal == [][Made(private')]_vars

(* "Their press and release are both captured" is said of the keys that        *)
(* navigate, and so of those that scroll (plan of the pet UI, :30).            *)
CapturedKeysStayLocal == [][Made(captured')]_vars

(* A keyboard that is ready has an encrypted and bonded connection, whatever    *)
(* the host task, the HIDD loop and the watchdog did to the state they share.   *)
ReadyIsReal == ready /\ callback = None => air # 0 /\ secure /\ handle = air

(* Without a connection the device comes to advertise, whichever event was       *)
(* lost on the way and whichever start of the advertisement failed.           *)
StaysReachable == (air = 0) ~> (air # 0 \/ advertising)

(* A half-open connection is terminated after a while, says the progress log of   *)
(* the companion (:196), unless its own passkey is being typed; a passkey that    *)
(* an older connection asked for keeps it open, too.                          *)
HalfConnectionEnds ==
  (air # 0 /\ ~ready /\ ~audio /\ passkey # air /\ ~crossed)
    ~> (air = 0 \/ ready \/ audio \/ passkey = air \/ crossed)

(* A connection that stays without keyboard and microphone is terminated, unless *)
(* a passkey is asked for, an older connection's event reset its state, or the  *)
(* watchdog did and the stack refused to terminate it.                         *)
HalfLinkEnds ==
  (air # 0 /\ ~ready /\ ~audio /\ passkey = 0 /\ ~crossed)
    ~> (air = 0 \/ ready \/ audio \/ passkey # 0 \/ crossed)

(* The device is neither lost to its hosts nor kept busy by one that does not *)
(* finish.                                                                   *)
LinkStaysOfUse == StaysReachable /\ HalfLinkEnds
=============================================================================
