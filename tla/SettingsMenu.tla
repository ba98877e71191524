----------------------------- MODULE SettingsMenu -----------------------------
(***************************************************************************)
(* settings_menu.cpp as operators on a record: the list of eight rows, the    *)
(* lists of profiles and networks, and the editors of the PIN, of the name of *)
(* a network and of its password. A character remembers the editor it was     *)
(* typed in and, for a password, the network that was chosen; nothing else of *)
(* it matters but, in a PIN, its digit. The rows whose values DeviceSettings   *)
(* models change nothing here.                                               *)
(***************************************************************************)
EXTENDS Naturals, Sequences

CONSTANTS
  PinDigits,      (* of a PIN                                                *)
  TextLimit,      (* bound: characters of a name or a password               *)
  Digits,         (* that the keyboard types; 0 stands for every letter too   *)
  MaxProfiles,    (* the length of profile_ids_                              *)
  MaxNetworks     (* the length of wifi_ssids_ less the hidden network       *)

ASSUME MenuAssumption ==
  /\ PinDigits \in Nat \ {0} /\ TextLimit \in Nat \ {0}
  /\ MaxProfiles \in Nat /\ MaxNetworks \in Nat /\ 0 \in Digits

MenuItems == 8
Visible == 5

Editors == {"none", "pin_first", "pin_confirm", "ssid", "password"}
Screens == {"root", "profiles", "wifi"}
Interactions == {"inactive", "browse", "text_edit", "confirm", "applying", "result"}
MenuCommands == {"apply_input_mode", "activate_profile", "rotate_pin", "scan_wifi",
                 "stage_wifi", "apply_display_settings"}

(* Network 0 is none, network MaxNetworks + 1 is one whose name was typed.     *)
Typed == MaxNetworks + 1
Networks == 0..Typed
Characters == [typed : Editors, digit : Digits, network : Networks]
Texts == Seq(Characters)

BootMenu ==
  [interaction |-> "inactive", editor |-> "none", screen |-> "root",
   selected |-> 0, scroll |-> 0, rootSelected |-> 0, rootScroll |-> 0,
   text |-> <<>>, pin |-> <<>>, ssid |-> 0, profiles |-> 0, networks |-> 0]

MenuActive(m) == m.interaction # "inactive"
Editing(m) == m.interaction \in {"text_edit", "confirm"}
ReturnTimeoutSuspended(m) == m.interaction \in {"text_edit", "confirm", "applying"}

MenuEnter(m) ==
  [m EXCEPT !.interaction = "browse", !.editor = "none", !.screen = "root",
            !.selected = 0, !.scroll = 0, !.rootSelected = 0, !.rootScroll = 0]

ToRoot(m) ==
  [m EXCEPT !.screen = "root", !.selected = m.rootSelected, !.scroll = m.rootScroll]

MenuLeave(m) ==
  [ToRoot(m) EXCEPT !.interaction = "inactive", !.editor = "none",
                    !.text = <<>>, !.pin = <<>>, !.ssid = 0]

BeginPinEdit(m) ==
  [m EXCEPT !.interaction = "text_edit", !.editor = "pin_first", !.text = <<>>, !.pin = <<>>]
BeginSsidEdit(m) ==
  [m EXCEPT !.interaction = "text_edit", !.editor = "ssid", !.text = <<>>, !.ssid = 0]
(* A mistake the properties catch.                                           *)
BeginPasswordEdit_KeepsText(m, network) ==
  [m EXCEPT !.interaction = "text_edit", !.editor = "password", !.ssid = network]
BeginPasswordEdit(m, network) ==
  [m EXCEPT !.interaction = "text_edit", !.editor = "password", !.text = <<>>,
            !.ssid = network]

SetResult(m) == [m EXCEPT !.interaction = "result"]

SetProfileChoices(m, count) ==
  [m EXCEPT !.profiles = IF count < MaxProfiles THEN count ELSE MaxProfiles]

(* The list gets a last row, HIDDEN NETWORK, and the menu shows it whatever    *)
(* the user is doing.                                                        *)
SetWifiChoices(m, count) ==
  [m EXCEPT !.networks = (IF count < MaxNetworks THEN count ELSE MaxNetworks) + 1,
            !.screen = "wifi", !.selected = 0, !.scroll = 0, !.interaction = "browse"]

-----------------------------------------------------------------------------
(* browse_key()                                                              *)
ItemCount(m) ==
  [root |-> MenuItems, profiles |-> m.profiles, wifi |-> m.networks][m.screen]

(* The selected row stays among the visible ones.                             *)
Scrolled(m) ==
  LET s == IF m.selected < m.scroll THEN m.selected
           ELSE IF m.selected >= m.scroll + Visible THEN m.selected - Visible + 1
           ELSE m.scroll
  IN IF m.screen = "root"
     THEN [m EXCEPT !.scroll = s, !.rootSelected = m.selected, !.rootScroll = s]
     ELSE [m EXCEPT !.scroll = s]

RowAbove(m) == IF m.selected = 0 THEN ItemCount(m) - 1 ELSE m.selected - 1
RowBelow(m) == (m.selected + 1) % ItemCount(m)
Select(m, row) == Scrolled([m EXCEPT !.selected = row])

(* Each operator of a key gives the new menu and the command it asks for.     *)
Quiet(m) == [menu |-> m, command |-> "none"]
Asks(m, command) == [menu |-> [m EXCEPT !.interaction = "applying"], command |-> command]

(* Enter on the row of the root list                                         *)
RootEnter(m) ==
  LET here == [m EXCEPT !.rootSelected = m.selected, !.rootScroll = m.scroll] IN
  CASE m.selected = 0 -> Asks(here, "apply_input_mode")
    [] m.selected = 1 -> Quiet(Scrolled([here EXCEPT !.screen = "profiles",
                                                     !.selected = 0, !.scroll = 0]))
    [] m.selected = 2 -> Quiet(Scrolled(BeginPinEdit(here)))
    [] m.selected = 3 -> Asks(here, "scan_wifi")
    [] m.selected \in 4..6 -> Asks(here, "apply_display_settings")
    [] OTHER -> Quiet(Scrolled(SetResult(here)))

EnterKey(m) ==
  CASE m.screen = "profiles" -> Asks(m, "activate_profile")
    [] m.screen = "wifi" ->
         Quiet(IF m.selected + 1 = m.networks THEN BeginSsidEdit(m)
               ELSE BeginPasswordEdit(m, m.selected + 1))
    [] OTHER -> RootEnter(m)

(* The sideways arrows change a value of the root list and move in the others. *)
BrowseKey(m, key) ==
  IF ItemCount(m) = 0 THEN Quiet(ToRoot(m))
  ELSE CASE key = "up" -> Quiet(Select(m, RowAbove(m)))
         [] key = "down" -> Quiet(Select(m, RowBelow(m)))
         [] key = "previous" -> Quiet(Select(m, IF m.screen = "root" THEN m.selected ELSE RowAbove(m)))
         [] key = "next" -> Quiet(Select(m, IF m.screen = "root" THEN m.selected ELSE RowBelow(m)))
         [] key = "enter" -> EnterKey(m)

-----------------------------------------------------------------------------
(* edit_key()                                                                *)
DigitsOf(text) == [i \in DOMAIN text |-> text[i].digit]

EditEnter(m) ==
  CASE m.editor = "pin_first" ->
         Quiet(IF Len(m.text) = PinDigits
               THEN [m EXCEPT !.pin = m.text, !.text = <<>>, !.editor = "pin_confirm",
                              !.interaction = "confirm"]
               ELSE m)
    [] m.editor = "pin_confirm" ->
         IF Len(m.text) = PinDigits /\ DigitsOf(m.text) = DigitsOf(m.pin)
         THEN Asks(m, "rotate_pin") ELSE Quiet([m EXCEPT !.text = <<>>])
    [] m.editor = "ssid" ->
         Quiet(IF m.text # <<>> THEN BeginPasswordEdit(m, Typed) ELSE m)
    [] OTHER -> Asks(m, IF m.editor = "password" THEN "stage_wifi" ELSE "none")

PinEditor(m) == m.editor \in {"pin_first", "pin_confirm"}
Character(m, digit) ==
  [typed |-> m.editor, digit |-> IF PinEditor(m) THEN digit ELSE 0, network |-> m.ssid]
LimitOf(m) == IF PinEditor(m) THEN PinDigits ELSE TextLimit

(* A letter counts for nothing in a PIN; outside one all characters are alike. *)
EditKey(m, key, digit) ==
  CASE key = "enter" -> EditEnter(m)
    [] key = "backspace" ->
         Quiet(IF m.text = <<>> THEN m ELSE [m EXCEPT !.text = SubSeq(@, 1, Len(@) - 1)])
    [] key = "digit" ->
         Quiet(IF Len(m.text) < LimitOf(m)
               THEN [m EXCEPT !.text = Append(@, Character(m, digit))] ELSE m)
    [] OTHER -> Quiet(m)

(* on_key() of a press; what is held down and let go is in KeyboardReports. The *)
(* backtick never gets here: UiNavigation::on_return_key() takes it first.    *)
BrowseKeys == {"up", "down", "previous", "next", "enter"}
MenuTakes(m, key) == m.interaction = "browse" => key \in BrowseKeys
OnKey(m, key, digit) ==
  CASE m.interaction = "browse" -> BrowseKey(m, key)
    [] Editing(m) -> EditKey(m, key, digit)
    [] OTHER -> Quiet(m)

-----------------------------------------------------------------------------
(* content(): what the page of the settings is given to draw. Only the name of *)
(* a network is written as it was typed.                                     *)
MenuContent(m) ==
  [of |-> IF Editing(m) THEN m.editor
          ELSE IF m.interaction \in {"applying", "result"} THEN m.interaction ELSE m.screen,
   length |-> IF Editing(m) THEN Len(m.text) ELSE 0,
   plain |-> IF Editing(m) /\ m.editor = "ssid" THEN {m.text[i].typed : i \in DOMAIN m.text}
             ELSE {},
   rows |-> IF Editing(m) \/ m.interaction \in {"applying", "result"} THEN 0 ELSE ItemCount(m),
   selected |-> IF Editing(m) \/ m.interaction \in {"applying", "result"} THEN 0 ELSE m.selected,
   scroll |-> IF Editing(m) \/ m.interaction \in {"applying", "result"} THEN 0 ELSE m.scroll]
=============================================================================
