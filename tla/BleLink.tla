------------------------------- MODULE BleLink -------------------------------
(***************************************************************************)
(* The Bluetooth link of the keyboard (ble_services.cpp).  The stack's host  *)
(* task changes the connection and then runs hid_gap_event(); the HIDD event *)
(* loop learns of the same connection from a queue of its own, earlier or    *)
(* later than that; the watchdog looks at what both have left behind and     *)
(* acts on it.  The three share g_hid_state and the readiness that follows    *)
(* from it, and the keyboard events read whether a passkey is asked for.     *)
(***************************************************************************)
EXTENDS Naturals, Sequences

CONSTANTS
  MaxConnections,   (* bound: connections in a run                           *)
  PasskeyDigits,    (* kBlePairingPasskeyDigits                              *)
  MaxFaults,        (* bound: faults in a run                                *)
  MaxTurns          (* bound: changes of what a host wants of a link         *)

ASSUME BleLinkAssumption ==
  MaxConnections \in Nat /\ PasskeyDigits \in Nat \ {0}
  /\ MaxFaults \in Nat /\ MaxTurns \in Nat

None == "none"
NoLink == [gap |-> FALSE, secure |-> FALSE, hidd |-> FALSE, input |-> FALSE]

VARIABLES
  air,          (* the connection there is, 0 for none: the stack's own      *)
  secure,       (* it is encrypted, authenticated and bonded                *)
  pairing,      (* its pairing: none, a passkey is "asked", it is "entered"  *)
  input,        (* its host takes the reports of the keyboard               *)
  closing,      (* ble_gap_terminate() was called on it                     *)
  advertising,  (* ble_gap_adv_active()                                     *)
  callback,     (* the event hid_gap_event() is about to be called with      *)
  hiddEvents,   (* the events the HIDD loop has not handled                 *)
  connections,  (* connections so far                                       *)
  handle,       (* g_hid_conn_handle                                        *)
  link,         (* g_hid_state                                              *)
  ready,        (* g_hid_ready                                              *)
  elapsed,      (* the time-out of a stale link has passed since the last    *)
                (* change of g_hid_state                                    *)
  passkey,      (* g_pending_passkey_conn                                   *)
  digits,       (* g_pending_passkey_count                                  *)
  audio,        (* the microphone's sink is ready on this link              *)
  watchdog,     (* what the watchdog is about to do                         *)
  crossed,      (* history: the state of the present connection was reset    *)
                (* and it goes on: by an event that is not its own, or by     *)
                (* the watchdog whose termination the stack refused          *)
  faults,       (* history: faults so far                                   *)
  turns         (* history: changes of what the host wants so far           *)

airVars == <<air, secure, pairing, input, closing, connections>>
passkeyVars == <<passkey, digits>>
linkVars ==
  <<airVars, advertising, callback, hiddEvents, handle, link, ready, elapsed,
    passkeyVars, audio, watchdog, crossed, faults, turns>>

LinkInit ==
  /\ air = 0 /\ secure = FALSE /\ pairing = None /\ input = FALSE
  /\ closing = FALSE /\ connections = 0
  /\ advertising = TRUE /\ callback = None /\ hiddEvents = <<>>
  /\ handle = 0 /\ link = NoLink /\ ready = FALSE /\ elapsed = FALSE
  /\ passkey = 0 /\ digits = 0 /\ audio = FALSE /\ watchdog = None
  /\ crossed = FALSE /\ faults = 0 /\ turns = 0

-----------------------------------------------------------------------------
(* ble_keyboard_ready_from_state() and publish_hid_ready_if_changed(): the     *)
(* readiness follows from the state at every change of it.                   *)
ReadyFromState(l) == l.gap /\ l.secure /\ l.hidd /\ l.input
LinkBecomes(l) == link' = l /\ ready' = ReadyFromState(l)
Changes(l) == LinkBecomes(l) /\ elapsed' = FALSE

(* reset_hid_link_state()                                                    *)
ResetLink == Changes(NoLink) /\ handle' = 0

(* start_hid_advertising(), which may fail.                                  *)
StartAdvertising ==
  \/ advertising' = TRUE /\ UNCHANGED faults
  \/ /\ faults < MaxFaults /\ faults' = faults + 1
     /\ UNCHANGED advertising

(* ble_gap_terminate(), which may fail and whose result is not used.         *)
Terminates ==
  \/ closing' = TRUE /\ UNCHANGED faults
  \/ /\ faults < MaxFaults /\ faults' = faults + 1
     /\ UNCHANGED closing

-----------------------------------------------------------------------------
(* The stack and the host.  The host task is between two events when callback  *)
(* is none.                                                                 *)
HostConnects ==
  /\ callback = None /\ air = 0 /\ advertising /\ connections < MaxConnections
  /\ connections' = connections + 1 /\ air' = connections' /\ advertising' = FALSE
  /\ callback' = "connect"
  /\ hiddEvents' = Append(hiddEvents, [kind |-> "connect", of |-> air'])
  /\ UNCHANGED <<secure, pairing, input, closing, handle, link, ready, elapsed,
                 passkeyVars, audio, watchdog, crossed, faults, turns>>

ConnectFails ==
  /\ callback = None /\ air = 0 /\ advertising
  /\ faults < MaxFaults /\ faults' = faults + 1
  /\ advertising' = FALSE /\ callback' = "connect failed"
  /\ UNCHANGED <<airVars, hiddEvents, handle, link, ready, elapsed, passkeyVars,
                 audio, watchdog, crossed, turns>>

AdvertisingEnds ==
  /\ callback = None /\ advertising
  /\ faults < MaxFaults /\ faults' = faults + 1
  /\ advertising' = FALSE /\ callback' = "adv complete"
  /\ crossed' = (crossed \/ air # 0)
  /\ UNCHANGED <<airVars, hiddEvents, handle, link, ready, elapsed, passkeyVars,
                 audio, watchdog, turns>>

LinkCloses ==
  /\ callback = None /\ air # 0
  /\ air' = 0 /\ secure' = FALSE /\ pairing' = None /\ input' = FALSE
  /\ closing' = FALSE /\ crossed' = FALSE
  /\ callback' = "disconnect"
  /\ hiddEvents' = Append(hiddEvents, [kind |-> "disconnect", of |-> air])
  /\ UNCHANGED <<connections, advertising, handle, link, ready, elapsed,
                 passkeyVars, audio, watchdog, faults, turns>>

(* The host restores a bond, or pairs and has the passkey typed.             *)
HostSecures ==
  /\ callback = None /\ air # 0 /\ ~secure /\ ~closing /\ pairing # "asked"
  /\ secure' = TRUE /\ pairing' = None /\ callback' = "encrypted"
  /\ UNCHANGED <<air, input, closing, connections, advertising, hiddEvents, handle,
                 link, ready, elapsed, passkeyVars, audio, watchdog, crossed,
                 faults, turns>>

HostPairs ==
  /\ callback = None /\ air # 0 /\ ~secure /\ ~closing /\ pairing = None
  /\ pairing' = "asked" /\ callback' = "passkey"
  /\ UNCHANGED <<air, secure, input, closing, connections, advertising, hiddEvents,
                 handle, link, ready, elapsed, passkeyVars, audio, watchdog,
                 crossed, faults, turns>>

EncryptionFails ==
  /\ callback = None /\ air # 0 /\ ~secure
  /\ faults < MaxFaults /\ faults' = faults + 1
  /\ pairing' = None /\ callback' = "encryption failed"
  /\ UNCHANGED <<air, secure, input, closing, connections, advertising, hiddEvents,
                 handle, link, ready, elapsed, passkeyVars, audio, watchdog,
                 crossed, turns>>

Turns(away) == turns' = turns + (IF away THEN 1 ELSE 0) /\ turns' <= MaxTurns

(* The host subscribes to the reports, or to a characteristic that is neither   *)
(* the companion's nor the microphone's and not theirs.                      *)
HostSubscribes ==
  /\ callback = None /\ air # 0 /\ secure /\ ~closing
  /\ \E on \in BOOLEAN :
       /\ input' \in {on, input}
       /\ input' # input \/ link.input # on
       /\ callback' = (IF on THEN "subscribe" ELSE "unsubscribe")
       /\ Turns(~on)
  /\ UNCHANGED <<air, secure, pairing, closing, connections, advertising,
                 hiddEvents, handle, link, ready, elapsed, passkeyVars, audio,
                 watchdog, crossed, faults>>

-----------------------------------------------------------------------------
(* hid_gap_event()                                                          *)
Called(event) == callback = event /\ callback' = None

GapConnect ==
  /\ Called("connect")
  /\ handle' = air
  /\ Changes([link EXCEPT !.gap = TRUE, !.secure = secure])
  /\ UNCHANGED <<airVars, advertising, hiddEvents, passkeyVars, audio, watchdog,
                 crossed, faults, turns>>

(* A mistake the properties catch.                                          *)
GapResets_LeavesDisconnect ==
  /\ \/ /\ Called("connect failed") \/ Called("adv complete")
        /\ ResetLink /\ UNCHANGED audio
     \/ /\ Called("disconnect") /\ audio' = FALSE
        /\ UNCHANGED <<handle, link, ready, elapsed>>
  /\ UNCHANGED <<airVars, advertising, hiddEvents, passkeyVars, watchdog, crossed,
                 faults, turns>>

GapResets ==
  /\ \/ Called("connect failed") /\ UNCHANGED audio
     \/ Called("adv complete") /\ UNCHANGED audio
     \/ Called("disconnect") /\ audio' = FALSE
  /\ ResetLink
  /\ UNCHANGED <<airVars, advertising, hiddEvents, passkeyVars, watchdog, crossed,
                 faults, turns>>

EncryptionChanged ==
  /\ \/ /\ Called("encrypted")
        /\ Changes([link EXCEPT !.secure = secure])
        /\ UNCHANGED <<closing, audio, faults>>
     \/ /\ Called("encryption failed")
        /\ audio' = FALSE
        /\ LinkBecomes([link EXCEPT !.secure = FALSE])
        /\ Terminates
        /\ UNCHANGED elapsed
  /\ UNCHANGED <<air, secure, pairing, input, connections, advertising, hiddEvents,
                 handle, passkeyVars, watchdog, crossed, turns>>

Subscribed ==
  /\ \E on \in BOOLEAN :
       /\ Called(IF on THEN "subscribe" ELSE "unsubscribe")
       /\ Changes([link EXCEPT !.input = on])
  /\ UNCHANGED <<airVars, advertising, hiddEvents, handle, passkeyVars, audio,
                 watchdog, crossed, faults, turns>>

PasskeyAction ==
  /\ Called("passkey")
  /\ passkey' = air /\ digits' = 0
  /\ UNCHANGED <<airVars, advertising, hiddEvents, handle, link, ready, elapsed,
                 audio, watchdog, crossed, faults, turns>>

(* The companion binds its link, or its sink goes away.                      *)
SinkChanges ==
  /\ callback = None /\ secure /\ ~closing
  /\ audio' = ~audio /\ Turns(audio)
  /\ UNCHANGED <<airVars, advertising, callback, hiddEvents, handle, link, ready,
                 elapsed, passkeyVars, watchdog, crossed, faults>>

-----------------------------------------------------------------------------
(* ble_hidd_event_callback()                                                *)
HiddConnect ==
  /\ hiddEvents # <<>> /\ Head(hiddEvents).kind = "connect"
  /\ hiddEvents' = Tail(hiddEvents)
  /\ Changes([link EXCEPT !.hidd = TRUE])
  /\ UNCHANGED <<airVars, advertising, callback, handle, passkeyVars, audio,
                 watchdog, crossed, faults, turns>>

(* It resets the state, clears the binding of the companion and advertises:    *)
(* whatever connection there is by now.                                      *)
HiddDisconnect ==
  /\ hiddEvents # <<>> /\ Head(hiddEvents).kind = "disconnect"
  /\ hiddEvents' = Tail(hiddEvents)
  /\ crossed' = (crossed \/ air \notin {0, Head(hiddEvents).of})
  /\ ResetLink
  /\ audio' = FALSE
  /\ StartAdvertising
  /\ UNCHANGED <<airVars, callback, passkeyVars, watchdog, turns>>

-----------------------------------------------------------------------------
(* ble_reconnect_watchdog_task(): what it has read is old when it acts.       *)
PairingInputActive == passkey # 0
ShouldResetStaleLink ==
  link.gap /\ ~audio /\ ~ready /\ ~PairingInputActive /\ elapsed
(* A mistake the properties catch.                                          *)
ShouldStartAdvertising_Connected == link.gap /\ ~advertising

ShouldStartAdvertising == ~link.gap /\ ~advertising

WatchdogLooks ==
  /\ watchdog = None
  /\ watchdog' = IF ShouldResetStaleLink THEN "reset"
                 ELSE IF ShouldStartAdvertising THEN "advertise" ELSE None
  /\ watchdog' # None
  /\ UNCHANGED <<airVars, advertising, callback, hiddEvents, handle, link, ready,
                 elapsed, passkeyVars, audio, crossed, faults, turns>>

WatchdogResets ==
  /\ watchdog = "reset" /\ watchdog' = None
  /\ \/ /\ handle # 0 /\ handle = air /\ Terminates
        /\ crossed' = (crossed \/ ~closing')
     \/ /\ handle = 0 \/ handle # air
        /\ UNCHANGED <<closing, crossed, faults>>
  /\ ResetLink
  /\ UNCHANGED <<air, secure, pairing, input, connections, advertising, callback,
                 hiddEvents, passkeyVars, audio, turns>>

WatchdogAdvertises ==
  /\ watchdog = "advertise" /\ watchdog' = None
  /\ StartAdvertising
  /\ UNCHANGED <<airVars, callback, hiddEvents, handle, link, ready, elapsed,
                 passkeyVars, audio, crossed, turns>>

(* Time is told apart only where the watchdog would act on it.                *)
TimePasses ==
  /\ link.gap /\ ~elapsed /\ ~ready /\ ~audio /\ ~PairingInputActive
  /\ elapsed' = TRUE
  /\ UNCHANGED <<airVars, advertising, callback, hiddEvents, handle, link, ready,
                 passkeyVars, audio, watchdog, crossed, faults, turns>>

-----------------------------------------------------------------------------
(* ble_pairing_input_digit(): the last digit hands the passkey to the stack,   *)
(* which knows of it only if the connection is still there.                  *)
PairingInputDigit ==
  /\ PairingInputActive
  /\ IF digits + 1 < PasskeyDigits
     THEN digits' = digits + 1 /\ UNCHANGED <<passkey, pairing>>
     ELSE /\ passkey' = 0 /\ digits' = 0
          /\ pairing' = IF passkey = air /\ pairing = "asked" THEN "entered"
                        ELSE pairing
  /\ UNCHANGED <<air, secure, input, closing, connections, advertising, callback,
                 hiddEvents, handle, link, ready, elapsed, audio, watchdog, crossed,
                 faults, turns>>

HostTask ==
  GapConnect \/ GapResets \/ EncryptionChanged \/ Subscribed \/ PasskeyAction
WatchdogTask == WatchdogLooks \/ WatchdogResets \/ WatchdogAdvertises
=============================================================================
