------------------------------- MODULE DeviceUi -------------------------------
(***************************************************************************)
(* The pages of the device: UiModel with its two revisions, the display that  *)
(* draws when one of them has changed, keyboard_event() under the input mutex,*)
(* the queue of settings commands and the loop of ui_task(), which leaves the *)
(* menu and the page in two critical sections. keyboard_event() reads the page*)
(* before it acts; only the second of those sections can come between. What   *)
(* commands do beyond the UI is in the modules of Wi-Fi, profiles, PIN and    *)
(* DeviceSettings.                                                           *)
(***************************************************************************)
EXTENDS SettingsMenu

CONSTANTS
  QueueSlots,     (* kSettingsQueueDepth                                     *)
  MaxEvents,      (* bound: keys, and changes of what the pages show; fewer   *)
  MaxProneEvents, (* of them where faults happen too                         *)
  CodexLines,     (* the lengths of the page of Codex; more than six scroll   *)
  UiFaults        (* what an environment may do, see UiFault                  *)

ASSUME UiAssumption ==
  /\ QueueSlots \in Nat \ {0} /\ MaxEvents \in Nat /\ MaxProneEvents \in Nat /\ CodexLines \subseteq Nat \ {0} /\ CodexLines # {}
  /\ UiFaults \subseteq {"preempt", "contents"}

VARIABLES
  page, offset,     (* UiModel::page_, scroll_offset_                         *)
  chrome,           (* what every page shows: links, microphone, storage       *)
  codex,            (* how many lines the page of Codex has                    *)
  age,              (* heartbeat and synchronization ages, on the page SYNC    *)
  rows,             (* settings_rows_ and their selection                      *)
  dirty, petDirty,  (* revision() and pet_revision() differ from the rendered  *)
  screen,           (* the page on the display, and whether it would be drawn so now *)
  menu,             (* SettingsMenu                                           *)
  orders,           (* g_settings_queue                                       *)
  working,          (* the command the UI task executes                       *)
  scanning,         (* product_wifi_scan() will call wifi_scan_finished()      *)
  touched,          (* g_last_ui_input_ms is not zero                         *)
  ui,               (* where ui_task() is                                     *)
  key,              (* the page keyboard_event() read before it was overtaken  *)
  happened,         (* of those so far                                          *)
  uiProne           (* what the environment of this behaviour does             *)

modelVars == <<page, offset, chrome, codex, age, rows, dirty, petDirty>>
taskVars == <<orders, working, scanning, ui>>
uiVars == <<modelVars, screen, menu, taskVars, touched, key, happened, uiProne>>

(* preempt: a key comes between the two critical sections of the UI task.     *)
(* contents: what the pages show changes.                                    *)
UiFault(f) == f \in uiProne

PageOrder == <<"pet", "device_status", "codex_status", "sync_status", "settings">>
UiPages == {"pet", "device_status", "codex_status", "sync_status", "settings"}
NoOrder == [command |-> "none", pin |-> <<>>, ssid |-> 0, password |-> <<>>]

NoRows == [MenuContent(BootMenu) EXCEPT !.rows = 0]

(* display_render_page(): what a page draws of the model                      *)
Drawing(p) ==
  [page |-> p, chrome |-> chrome,
   offset |-> IF p = "pet" THEN 0 ELSE offset,
   lines |-> IF p = "codex_status" THEN codex ELSE 0,
   age |-> IF p = "sync_status" THEN age ELSE 0,
   rows |-> IF p = "settings" THEN rows ELSE NoRows]
BootScreen == [page |-> "boot", current |-> FALSE]

UiInit ==
  /\ page = "pet" /\ offset = 0 /\ chrome = 0 /\ age = 0
  /\ codex = (CHOOSE n \in CodexLines : \A m \in CodexLines : n <= m)
  /\ rows = NoRows /\ dirty = TRUE /\ petDirty = TRUE
  /\ screen = BootScreen /\ menu = BootMenu /\ orders = <<>> /\ working = NoOrder
  /\ scanning = FALSE /\ touched = FALSE /\ ui = "commands" /\ key = "none"
  /\ happened = 0 /\ uiProne \in {{}} \cup {{f} : f \in UiFaults}

Happens ==
  /\ happened < IF uiProne = {} THEN MaxEvents ELSE MaxProneEvents
  /\ happened' = happened + 1

-----------------------------------------------------------------------------
(* UiModel: a change of revision_, and of pet_revision_ where the pet's page   *)
(* shows it                                                                  *)
Bumps(revision, petRevision) ==
  /\ dirty' = (dirty \/ revision) /\ petDirty' = (petDirty \/ petRevision)

(* set_settings_content(), which may just have been given other rows           *)
PushesAfter(given, m) ==
  LET content == MenuContent(m)
      changes == given # rows \/ content # given
  IN /\ rows' = content
     /\ offset' = IF page = "settings" /\ changes THEN content.scroll ELSE offset
     /\ Bumps(changes, FALSE)
     /\ UNCHANGED <<page, chrome, codex, age>>
Pushes(m) == PushesAfter(rows, m)

(* return_to_pet()                                                           *)
ReturnsToPet ==
  /\ page' = "pet" /\ offset' = 0
  /\ Bumps(~(page = "pet" /\ offset = 0), FALSE)
  /\ UNCHANGED <<chrome, codex, age, rows>>

(* set_ble(), set_wifi(), set_companion(), set_microphone(), set_pet() and     *)
(* set_storage_compatibility() count for both revisions.                      *)
(* A mistake the properties catch.                                           *)
ChromeChanges_PageOnly ==
  /\ UiFault("contents") /\ Happens /\ chrome = 0 /\ chrome' = 1 /\ Bumps(TRUE, FALSE)
  /\ UNCHANGED <<page, offset, codex, age, rows, menu, taskVars, touched, key, uiProne>>
ChromeChanges ==
  /\ UiFault("contents") /\ Happens /\ chrome = 0 /\ chrome' = 1 /\ Bumps(TRUE, TRUE)
  /\ UNCHANGED <<page, offset, codex, age, rows, menu, taskVars, touched, key, uiProne>>

(* set_codex(), set_session(), set_profile(), set_web(): the offset stays.     *)
CodexChanges ==
  /\ UiFault("contents") /\ Happens /\ codex' \in CodexLines \ {codex} /\ Bumps(TRUE, FALSE)
  /\ UNCHANGED <<page, offset, chrome, age, rows, menu, taskVars, touched, key, uiProne>>

(* set_heartbeat_age(), set_pet_sync_age(): once a second, and a revision only *)
(* where they are shown.                                                     *)
AgeChanges ==
  /\ UiFault("contents") /\ Happens /\ age = 0 /\ age' = 1 /\ Bumps(page = "sync_status", FALSE)
  /\ UNCHANGED <<page, offset, chrome, codex, rows, menu, taskVars, touched, key, uiProne>>

-----------------------------------------------------------------------------
(* keyboard_event()                                                          *)
InputFree == key = "none"
Seen == IF key = "none" THEN page ELSE key

(* It reads the page between the two steps of the return.                     *)
KeyIsOvertaken ==
  /\ InputFree /\ ui = "return" /\ UiFault("preempt")
  /\ Happens /\ key' = page
  /\ UNCHANGED <<modelVars, menu, taskVars, touched, uiProne>>

KeyDone ==
  /\ ui = "return" => UiFault("preempt")
  /\ IF key = "none" THEN Happens ELSE UNCHANGED happened
  /\ key' = "none" /\ UNCHANGED <<working, scanning, ui, uiProne>>

(* The backtick on any page but the pet's                                     *)
Backtick ==
  /\ Seen # "pet"
  /\ menu' = MenuLeave(menu) /\ ReturnsToPet /\ touched' = FALSE
  /\ UNCHANGED orders /\ KeyDone

(* queue_settings_command(): a copy of what the command will read             *)
OrderOf(m, command) ==
  [command |-> command,
   pin |-> IF command = "rotate_pin" THEN m.pin ELSE <<>>,
   ssid |-> IF command = "stage_wifi" THEN m.ssid ELSE 0,
   password |-> IF command = "stage_wifi" THEN m.text ELSE <<>>]

(* refresh_profile_choices_locked(): the catalog may have nothing to say.      *)
Refreshed(m) == {m} \cup {SetProfileChoices(m, count) : count \in {0, MaxProfiles}}
Entered == IF MenuActive(menu) THEN {menu} ELSE Refreshed(MenuEnter(menu))
GivenOf(m) == IF MenuActive(menu) THEN rows ELSE MenuContent(m)

(* A key on the page of the settings, which the menu takes                    *)
MenuKey(k, digit) ==
  /\ Seen = "settings"
  /\ \E m \in Entered :
       /\ MenuTakes(m, k)
       /\ LET result == OnKey(m, k, digit)
              fits == Len(orders) < QueueSlots
          IN /\ orders' = IF result.command = "none" \/ ~fits THEN orders
                          ELSE Append(orders, OrderOf(result.menu, result.command))
             /\ menu' = IF result.command = "none" \/ fits THEN result.menu
                        ELSE SetResult(result.menu)
             /\ PushesAfter(GivenOf(m), menu')
  /\ touched' = TRUE /\ KeyDone

(* One that it does not take; the menu has been entered all the same.          *)
MenuPasses(k) ==
  /\ Seen = "settings"
  /\ \E m \in Entered :
       /\ ~MenuTakes(m, k) /\ menu' = m
       /\ IF MenuActive(menu) THEN UNCHANGED modelVars ELSE Pushes(m)
  /\ touched' = TRUE /\ UNCHANGED orders /\ KeyDone

(* Fn with an arrow on another page: UiModel::navigate()                      *)
PositionOf(p) == CHOOSE i \in 1..5 : PageOrder[i] = p
PageAfter(p, turn) == PageOrder[((PositionOf(p) - 1 + turn) % 5) + 1]
LinesOf(p) == [pet |-> 1, device_status |-> 7, codex_status |-> codex,
               sync_status |-> 4][p]
LastOffset(p) == IF LinesOf(p) > 6 THEN LinesOf(p) - 6 ELSE 0

(* The page may by now be another than the one read, but not the settings.     *)
TurnsPage(turn) ==
  /\ Seen # "settings" /\ touched' = TRUE
  /\ page' = PageAfter(page, turn)
  /\ \/ /\ page' = "settings" /\ ~MenuActive(menu)
        /\ menu' \in Refreshed(MenuEnter(menu))
        /\ rows' = MenuContent(menu') /\ offset' = 0
     \/ /\ page' = "settings" /\ MenuActive(menu) /\ UNCHANGED <<menu, rows>> /\ offset' = 0
     \/ /\ page' # "settings" /\ UNCHANGED rows /\ offset' = 0
        /\ menu' = IF MenuActive(menu) THEN MenuLeave(menu) ELSE menu
  /\ Bumps(TRUE, FALSE) /\ UNCHANGED <<chrome, codex, age, orders>> /\ KeyDone

Scrolls ==
  /\ Seen # "settings" /\ touched' = TRUE
  /\ \/ offset' = IF offset > 0 THEN offset - 1 ELSE offset
     \/ offset' = IF offset < LastOffset(page) THEN offset + 1 ELSE offset
  /\ Bumps(offset' # offset, FALSE)
  /\ menu' = IF page # "settings" /\ MenuActive(menu) THEN MenuLeave(menu) ELSE menu
  /\ UNCHANGED <<page, chrome, codex, age, rows, orders>> /\ KeyDone

(* Any other key: to the host from the pet's page, else to nobody.             *)
OtherKey ==
  /\ Seen # "settings" /\ touched' = (touched \/ Seen # "pet")
  /\ UNCHANGED <<modelVars, menu, orders>> /\ KeyDone

-----------------------------------------------------------------------------
(* The UI task                                                               *)
UiGoes(place) == ui' = place /\ UNCHANGED <<happened, uiProne>>

TakesOrder ==
  /\ ui = "commands" /\ orders # <<>>
  /\ orders' = Tail(orders) /\ working' = Head(orders)
  /\ UiGoes("working") /\ UNCHANGED <<modelVars, menu, scanning, touched, key>>

(* process_settings_command(): a scan that starts ends in its callback, every *)
(* other command in a result, for which it takes the input mutex.             *)
ScanStarts ==
  /\ ui = "working" /\ working.command = "scan_wifi"
  /\ scanning' = TRUE /\ working' = NoOrder
  /\ UiGoes("commands") /\ UNCHANGED <<modelVars, menu, orders, touched, key>>
OrderEnds ==
  /\ ui = "working" /\ InputFree
  /\ menu' = SetResult(menu) /\ Pushes(menu') /\ working' = NoOrder
  /\ UiGoes("commands") /\ UNCHANGED <<orders, scanning, touched, key>>

(* wifi_scan_finished()                                                      *)
ScanFinishes ==
  /\ scanning /\ InputFree /\ scanning' = FALSE
  /\ \E count \in {0, MaxNetworks} : menu' = SetWifiChoices(menu, count)
  /\ Pushes(menu')
  /\ UNCHANGED <<orders, working, ui, touched, key, happened, uiProne>>

(* The return timer, whose clock is not the property of this module: with a    *)
(* key since the last return, it may fire whenever the menu allows it.         *)
TimerFires ==
  /\ ui = "commands" /\ orders = <<>> /\ InputFree
  /\ touched /\ ~ReturnTimeoutSuspended(menu)
  /\ UiGoes("leave") /\ UNCHANGED <<modelVars, menu, orders, working, scanning, touched, key>>
Leaves ==
  /\ ui = "leave" /\ InputFree /\ menu' = MenuLeave(menu)
  /\ UiGoes("return") /\ UNCHANGED <<modelVars, orders, working, scanning, touched, key>>
ReturnsByTimer ==
  /\ ui = "return" /\ ReturnsToPet /\ touched' = FALSE
  /\ UiGoes("commands") /\ UNCHANGED <<menu, orders, working, scanning, key>>

(* The page is drawn if its revision has changed; having drawn another page, *)
(* the task forgets the revision it has of the pet's.                         *)
Renders ==
  /\ ui = "commands"
  /\ IF IF page = "pet" THEN petDirty ELSE dirty
     THEN screen' = [page |-> page, current |-> TRUE] /\ dirty' = FALSE /\ petDirty' = (page # "pet")
     ELSE UNCHANGED <<screen, dirty, petDirty>>
  /\ UNCHANGED <<page, offset, chrome, codex, age, rows, menu, taskVars, touched, key, happened, uiProne>>

MenuKeys == BrowseKeys \cup {"backspace", "digit", "other"}
KeyEnds ==
  \/ Backtick \/ Scrolls \/ OtherKey
  \/ \E turn \in {1, 4} : TurnsPage(turn)
  \/ \E k \in MenuKeys : MenuPasses(k)
  \/ \E k \in MenuKeys, digit \in Digits : MenuKey(k, digit)

UiTask ==
  \/ TakesOrder \/ ScanStarts \/ OrderEnds
  \/ TimerFires \/ Leaves \/ ReturnsByTimer
ContentsChange == ChromeChanges \/ CodexChanges \/ AgeChanges

(* The display keeps what was drawn; it is current until the page would be     *)
(* drawn otherwise.                                                          *)
Fades ==
  \A p \in {screen.page} :
    screen' = [page |-> p, current |-> screen.current /\ Drawing(p)' = Drawing(p)]

UiNext ==
  \/ Renders
  \/ (KeyIsOvertaken \/ KeyEnds \/ UiTask \/ ScanFinishes \/ ContentsChange) /\ Fades
UiSpec == UiInit /\ [][UiNext]_uiVars

-----------------------------------------------------------------------------
UiTypeOK ==
  /\ page \in UiPages /\ offset \in Nat /\ chrome \in 0..1 /\ codex \in CodexLines /\ age \in 0..1
  /\ dirty \in BOOLEAN /\ petDirty \in BOOLEAN /\ scanning \in BOOLEAN /\ touched \in BOOLEAN
  /\ menu.interaction \in Interactions /\ menu.editor \in Editors /\ menu.screen \in Screens
  /\ Len(orders) <= QueueSlots
  /\ ui \in {"commands", "working", "leave", "return"}
  /\ key \in UiPages \cup {"none"} /\ uiProne \subseteq UiFaults

(* A revision that says "drawn" is right: the display shows what the page     *)
(* would draw now, on every way to a page and back.                           *)
ScreenIsFresh ==
  ~(IF page = "pet" THEN petDirty ELSE dirty) => screen = [page |-> page, current |-> TRUE]

(* "The selected row remains visible while scrolling", in the list and on the  *)
(* page, if no key comes between the two steps of the return.                  *)
RowIsVisible(m) ==
  ItemCount(m) # 0 =>
    m.selected < ItemCount(m) /\ m.scroll <= m.selected /\ m.selected < m.scroll + Visible
SelectionIsVisible ==
  menu.interaction = "browse" =>
    /\ RowIsVisible(menu)
    /\ page = "settings" /\ "preempt" \notin uiProne => offset = menu.scroll

ScreenIsTrue == ScreenIsFresh /\ SelectionIsVisible

(* What is typed for one purpose is used and shown for no other: the PIN is    *)
(* rotated to what both editors of a PIN were given, a network is tried with   *)
(* a password that was typed for it, and nothing but the name of a network is  *)
(* on the screen as it was typed.                                            *)
TypedAs(text, editor) == \A i \in DOMAIN text : text[i].typed = editor
OrderIsClean(o) ==
  /\ o.command = "rotate_pin" => TypedAs(o.pin, "pin_first") /\ Len(o.pin) = PinDigits
  /\ o.command = "stage_wifi" =>
       TypedAs(o.password, "password") /\ \A i \in DOMAIN o.password : o.password[i].network = o.ssid
SecretsStayApart ==
  /\ \A i \in DOMAIN orders : OrderIsClean(orders[i])
  /\ OrderIsClean(working)
  /\ rows.plain \subseteq {"ssid"}

(* A page that was scrolled shows something, whatever happens to its lines.    *)
PageIsNotBlank == page = "codex_status" => offset < codex

(* "Return-to-pet timeout is suspended in ... Wi-Fi scan, and result states." *)
ResultStays == [][TimerFires => menu.interaction # "result"]_uiVars
=============================================================================
