--------------------------- MODULE KeyboardReports ---------------------------
(***************************************************************************)
(* What becomes of a key: keyboard_event() of product_controller.cpp, the     *)
(* tasks that run macros and G0's chord, the control task that changes the    *)
(* page and the mode, and KeyboardProbe's queue and sender.  Every report      *)
(* names all keys that are down, so the host has down what the last one it     *)
(* got says.  Whether the link takes reports, and whether a passkey is asked   *)
(* for, is BleLink's; a module that composes the two gives it.               *)
(***************************************************************************)
EXTENDS Naturals, Sequences

CONSTANTS
  Key, FnKey, NavKey, ReturnKey,  (* the matrix and its keys with a meaning  *)
  ChordKeys, ModeKeys,      (* in a layer: the keys bound to a chord, and to   *)
                            (* the device action that toggles the mode       *)
  Chord,                    (* what a chord presses                          *)
  QueueDepth, MacroDepth    (* kHidQueueDepth, kMacroQueueDepth              *)

ASSUME KeyAssumption ==
  /\ {FnKey, NavKey, ReturnKey} \subseteq Key /\ Chord \notin Key
  /\ QueueDepth \in Nat \ {0} /\ MacroDepth \in Nat \ {0}

VARIABLES
  held,       (* the keys the scanner has as stable and down                 *)
  pressed,    (* g_pressed                                                   *)
  captured,   (* UiNavigation::captured_                                     *)
  page,       (* the pet, another page of the device, or onboarding          *)
  mode,       (* InputRouter::mode_                                          *)
  safe,       (* InputRouter::safe_profile_                                  *)
  macros,     (* g_macro_queue                                               *)
  chord,      (* a task holds g_macro_execution_mutex with a chord down       *)
  hidQueue,   (* hid_queue_                                                  *)
  down,       (* what the host has down                                      *)
  private,    (* history: held keys that were pressed for the device alone    *)
  disordered  (* history: the report that corrects the last one the host will  *)
              (* get was lost, overtaken or never made                       *)

routerVars == <<page, mode, safe>>
keyVars == <<held, pressed, captured, routerVars, macros, chord, hidQueue, down,
             private, disordered>>

KeysInit ==
  /\ held = {} /\ pressed = {} /\ captured = {}
  /\ page = "pet" /\ mode = "keyboard" /\ safe = FALSE
  /\ macros = <<>> /\ chord = FALSE /\ hidQueue = <<>>
  /\ down = {} /\ private = {} /\ disordered = FALSE

-----------------------------------------------------------------------------
(* active_profile_layer() and the actions of the active profile              *)
Layer(keys) == <<mode, FnKey \in keys>>
Mapped(keys) == IF safe THEN {}
                ELSE ChordKeys[Layer(keys)] \cup ModeKeys[Layer(keys)]

(* InputRouter::route()                                                      *)
Route(keys) == IF mode = "keyboard" THEN keys \ {FnKey} ELSE {}

(* What the host has down once the queue is empty.                           *)
Final(queue, keys) == IF queue = <<>> THEN keys ELSE queue[Len(queue)].keys
Lost == disordered' = (disordered \/ Final(hidQueue, down) # {})

(* KeyboardProbe::send_complete_report(): a full queue drops the report.      *)
Enqueue(event) ==
  IF Len(hidQueue) < QueueDepth
  THEN hidQueue' = Append(hidQueue, event) /\ disordered' = FALSE
  ELSE UNCHANGED hidQueue /\ Lost

(* Only a ready link gets a report.                                          *)
SendWhenReady(keys, linkReady) ==
  /\ IF linkReady THEN Enqueue([kind |-> "report", keys |-> keys])
     ELSE UNCHANGED hidQueue /\ Lost
  /\ UNCHANGED down

(* KeyboardProbe::release_state() does not wait for what is in the queue.     *)
(* A mistake the properties catch.                                          *)
ReleaseState_ForgetsHost(live) == UNCHANGED <<hidQueue, down, disordered>>

ReleaseState(live) ==
  /\ down' = IF live THEN {} ELSE down
  /\ disordered' = (Final(hidQueue, down') # {})
  /\ UNCHANGED hidQueue

-----------------------------------------------------------------------------
(* keyboard_event(): the key goes down or comes up, and the first that wants   *)
(* it takes it.                                                             *)
Presses(k) == k \notin held
Moved(k, keys) == IF Presses(k) THEN keys \cup {k} ELSE keys \ {k}
StaysLocal(k) == private' = Moved(k, private)

TakenByPasskey(k, last) ==
  /\ held' = Moved(k, held) /\ pressed' = Moved(k, pressed)
  /\ private' = IF last THEN {} ELSE Moved(k, private)
  /\ UNCHANGED <<captured, routerVars, macros, chord, hidQueue, down, disordered>>

TakenByOnboarding(k) ==
  /\ page = "onboarding"
  /\ held' = Moved(k, held) /\ pressed' = Moved(k, pressed)
  /\ StaysLocal(k)
  /\ UNCHANGED <<captured, routerVars, macros, chord, hidQueue, down, disordered>>

(* The page changes, and the host gets a release of all keys.                *)
(* A mistake the properties catch.                                          *)
PageChanges_KeepsPressed(to, live) ==
  page' = to /\ ReleaseState(live) /\ pressed' = held'

PageChanges(to, live) == page' = to /\ ReleaseState(live) /\ pressed' = {}

(* UiNavigation::on_return_key() and on_key()                                *)
CapturedUp(k) == ~Presses(k) /\ k \in captured
Returns(k) == Presses(k) /\ k = ReturnKey /\ page # "pet"
Navigates(k) == Presses(k) /\ k = NavKey /\ FnKey \in pressed

(* A key that scrolls stays pressed: on the pet's page the next report has it. *)
Scrolls(k) ==
  /\ pressed' = pressed \cup {k}
  /\ private' = IF page = "pet" THEN private ELSE private \cup {k}
  /\ UNCHANGED <<page, hidQueue, down, disordered>>

TakenByNavigation(k, live) ==
  /\ page # "onboarding"
  /\ held' = Moved(k, held) /\ captured' = Moved(k, captured)
  /\ \/ Returns(k) /\ PageChanges("pet", live) /\ StaysLocal(k)
     \/ /\ Navigates(k) /\ ~Returns(k)
        /\ \E to \in {"pet", "pages"} :
             /\ to # page \/ page = "pages"
             /\ PageChanges(to, live)
        /\ StaysLocal(k)
     \/ Navigates(k) /\ ~Returns(k) /\ Scrolls(k)
     \/ /\ CapturedUp(k)
        /\ pressed' = pressed \ {k} /\ private' = private \ {k}
        /\ disordered' = (disordered \/ k \in Final(hidQueue, down))
        /\ UNCHANGED <<page, hidQueue, down>>
  /\ UNCHANGED <<mode, safe, macros, chord>>

(* ui_page_allows_host_input()                                               *)
TakenByPage(k) ==
  /\ page = "pages" /\ ~CapturedUp(k) /\ ~Returns(k) /\ ~Navigates(k)
  /\ held' = Moved(k, held) /\ pressed' = Moved(k, pressed)
  /\ StaysLocal(k)
  /\ UNCHANGED <<captured, routerVars, macros, chord, hidQueue, down, disordered>>

(* A key bound to an action starts it when it goes down, if the queue of the    *)
(* macros has room; the host gets the other keys that are down.              *)
GoesToHost(k, linkReady) ==
  /\ page = "pet" /\ ~CapturedUp(k) /\ ~Navigates(k)
  /\ held' = Moved(k, held) /\ pressed' = Moved(k, pressed)
  /\ private' = private \ {k}
  /\ macros' = IF Presses(k) /\ k \in Mapped(pressed') /\ Len(macros) < MacroDepth
               THEN Append(macros, [layer |-> Layer(pressed'), key |-> k])
               ELSE macros
  /\ SendWhenReady(Route(pressed' \ Mapped(pressed')), linkReady)
  /\ UNCHANGED <<captured, routerVars, chord>>

-----------------------------------------------------------------------------
(* macro_task() and g0_task(): MacroEngine's chord goes down and, after a      *)
(* delay, all keys go up.  The mutex keeps the two tasks apart, not the keys.  *)
SendChord(linkReady) ==
  /\ chord' = TRUE
  /\ SendWhenReady({Chord}, linkReady)

MacroStarts(linkReady) ==
  /\ macros # <<>> /\ ~chord
  /\ Head(macros).key \in ChordKeys[Head(macros).layer]
  /\ macros' = Tail(macros)
  /\ SendChord(linkReady)
  /\ UNCHANGED <<held, pressed, captured, routerVars, private>>

G0Starts(linkReady) ==
  /\ ~chord
  /\ SendChord(linkReady)
  /\ UNCHANGED <<held, pressed, captured, routerVars, macros, private>>

(* A mistake the properties catch.                                          *)
ChordEnds_StaysDown(linkReady) ==
  /\ chord /\ chord' = FALSE
  /\ UNCHANGED <<held, pressed, captured, routerVars, macros, private, hidQueue,
                 down, disordered>>

ChordEnds(linkReady) ==
  /\ chord /\ chord' = FALSE
  /\ SendWhenReady({}, linkReady)
  /\ UNCHANGED <<held, pressed, captured, routerVars, macros, private>>

(* release_and_set_mode() as a device action, and from the settings           *)
MacroTogglesMode(live) ==
  /\ macros # <<>> /\ ~chord
  /\ Head(macros).key \in ModeKeys[Head(macros).layer]
  /\ macros' = Tail(macros)
  /\ ReleaseState(live)
  /\ mode' = IF mode = "keyboard" THEN "codex" ELSE "keyboard"
  /\ UNCHANGED <<held, pressed, captured, page, safe, chord, private>>

SafeProfile(live) ==
  /\ ReleaseState(live)
  /\ mode' = "keyboard" /\ safe' = TRUE
  /\ UNCHANGED <<held, pressed, captured, page, macros, chord, private>>

ApplyInputMode(live) ==
  /\ ReleaseState(live)
  /\ mode' \in {"keyboard", "codex"} /\ safe' = FALSE
  /\ UNCHANGED <<held, pressed, captured, page, macros, chord, private>>

(* The control task goes back to the pet after a while without a key, or       *)
(* because the settings say so: the keys that are down stay pressed.          *)
ReturnsByItself(live) ==
  /\ page = "pages" /\ page' = "pet"
  /\ ReleaseState(live)
  /\ private' = {}
  /\ UNCHANGED <<held, pressed, captured, mode, safe, macros, chord>>

(* Onboarding starts over from the web page, and ends.                       *)
OnboardingRestarts(live) ==
  /\ page # "onboarding"
  /\ UNCHANGED <<held, captured, mode, safe, macros, chord, private>>
  /\ PageChanges("onboarding", live)

OnboardingEnds ==
  /\ page = "onboarding" /\ page' = "pet"
  /\ private' = {}
  /\ UNCHANGED <<held, pressed, captured, mode, safe, macros, chord, hidQueue, down,
                 disordered>>

(* advance_hil_hid_burst(): a key of the serial test is down for one report.   *)
BurstKey ==
  /\ Enqueue([kind |-> "tap", keys |-> {}])
  /\ UNCHANGED <<held, pressed, captured, routerVars, macros, chord, down, private>>

-----------------------------------------------------------------------------
(* KeyboardProbe::hid_sender_loop(): EspHidReportSink tries five times.        *)
Sends(live) ==
  /\ hidQueue # <<>> /\ hidQueue' = Tail(hidQueue)
  /\ down' = IF live THEN Head(hidQueue).keys ELSE down
  /\ disordered' = (disordered \/ (hidQueue' = <<>> /\ down' # Head(hidQueue).keys
                                    /\ down' # {}))
  /\ UNCHANGED <<held, pressed, captured, routerVars, macros, chord, private>>

(* A host that goes has nothing down any more.                               *)
HostGone ==
  /\ down' = {} /\ disordered' = FALSE
  /\ UNCHANGED <<held, pressed, captured, routerVars, macros, chord, hidQueue,
                 private>>
HostThere ==
  /\ disordered' = (Final(hidQueue, {}) # {})
  /\ UNCHANGED <<held, pressed, captured, routerVars, macros, chord, hidQueue, down,
                 private>>
=============================================================================
