-------------------------- MODULE KeyboardLink_proofs --------------------------
(***************************************************************************)
(* No key stays down, no local key is reported, and readiness is real, for    *)
(* any keys, profiles, queues and number of connections: what the three       *)
(* tasks of the link and those of the keyboard leave to each other.          *)
(***************************************************************************)
EXTENDS KeyboardLink, TLAPS

(* What the host has down once the queue is empty.                           *)
Shown == Final(hidQueue, down)

Report == [kind : {"report", "tap"}, keys : SUBSET (Key \cup {Chord})]

(* The scanner's keys include those that the program counts as down.          *)
KeyTypes ==
  /\ held \subseteq Key /\ pressed \subseteq held /\ private \subseteq held
  /\ hidQueue \in Seq(Report)

(* Between two callbacks of the host task, and in all of them but the one of   *)
(* a disconnect, what g_hid_state says of the connection is so.              *)
LinkInv ==
  /\ link \in [gap : BOOLEAN, secure : BOOLEAN, hidd : BOOLEAN, input : BOOLEAN]
  /\ ready = ReadyFromState(link)
  /\ connections \in Nat /\ secure \in BOOLEAN
  /\ callback = "connect" => air # 0
  /\ callback = "disconnect" => air = 0
  /\ callback = "passkey" => air # 0 /\ ~secure
  /\ callback # "disconnect" =>
       /\ link.gap => air # 0 /\ handle = air
       /\ link.secure => secure

(* The host has keys of the user down only where the next key event goes to it, *)
(* so that their release does, too.                                          *)
ReleaseFollows ==
  ~disordered /\ air # 0 =>
    Shown \subseteq {Chord} \/ (secure /\ passkey = 0 /\ page = "pet")

Follows == ReleaseFollows /\ LastReportIsHeld

(* A key that is down for the device alone is not in what reports are made of.  *)
LocalIsApart ==
  page = "pet" /\ passkey = 0 => pressed \cap private = {}

KeysInv ==
  /\ air = 0 => down = {}
  /\ Follows
  /\ LocalIsApart

IInv == KeyTypes /\ LinkInv /\ KeysInv

-----------------------------------------------------------------------------
(* The queue                                                                 *)

LEMMA LostShows ==
  ASSUME KeyTypes, UNCHANGED <<hidQueue, down>>, Lost
  PROVE  /\ ~disordered' => Shown' = {}
         /\ hidQueue' \in Seq(Report) /\ ~(Len(hidQueue') > Len(hidQueue))
<1>1. Len(hidQueue) \in Nat /\ Len(hidQueue') = Len(hidQueue)
  BY DEF KeyTypes
<1>2. Shown' = Shown /\ (~disordered' => Shown = {})
  BY DEF Lost, Shown
<1> QED BY <1>1, <1>2 DEF KeyTypes

LEMMA EnqueueShows ==
  ASSUME KeyTypes, NEW event \in Report, Enqueue(event), UNCHANGED down
  PROVE  /\ hidQueue' \in Seq(Report)
         /\ ~disordered' => Shown' = event.keys \/ Shown' = {}
         /\ Len(hidQueue') > Len(hidQueue) => Shown' = event.keys
<1>1. CASE hidQueue' = Append(hidQueue, event)
  <2>1. /\ hidQueue' \in Seq(Report) /\ hidQueue' # <<>>
        /\ hidQueue'[Len(hidQueue')] = event
    BY <1>1 DEF KeyTypes
  <2> QED BY <2>1 DEF Shown, Final
<1>2. CASE UNCHANGED hidQueue /\ Lost
  BY <1>2, LostShows
<1> QED BY <1>1, <1>2 DEF Enqueue

(* A report that is made is the last one, or what it should correct is empty.  *)
LEMMA SendShows ==
  ASSUME KeyTypes, NEW keys \in SUBSET (Key \cup {Chord}),
         SendWhenReady(keys, ready)
  PROVE  /\ hidQueue' \in Seq(Report) /\ UNCHANGED down
         /\ ~disordered' => Shown' = {} \/ (ready /\ Shown' = keys)
         /\ Len(hidQueue') > Len(hidQueue) => Shown' = keys
<1>1. CASE ready /\ Enqueue([kind |-> "report", keys |-> keys]) /\ UNCHANGED down
  <2>1. [kind |-> "report", keys |-> keys] \in Report
    BY DEF Report
  <2> QED BY <1>1, <2>1, EnqueueShows
<1>2. CASE UNCHANGED <<hidQueue, down>> /\ Lost
  BY <1>2, LostShows
<1> QED BY <1>1, <1>2 DEF SendWhenReady

LEMMA ReleaseShows ==
  ASSUME KeyTypes, NEW live, ReleaseState(live)
  PROVE  /\ UNCHANGED hidQueue /\ down' \in {{}, down}
         /\ ~disordered' => Shown' = {}
  BY DEF ReleaseState, Shown, Final

LEMMA SendsShow ==
  ASSUME KeyTypes, NEW live, Sends(live)
  PROVE  /\ hidQueue' \in Seq(Report) /\ ~(Len(hidQueue') > Len(hidQueue))
         /\ ~live => down' = down
         /\ ~disordered' => ~disordered /\ Shown' \in {{}, Shown}
<1>1. /\ hidQueue # <<>> /\ hidQueue' = Tail(hidQueue)
      /\ ~live => down' = down
      /\ disordered' = (disordered \/ (hidQueue' = <<>> /\ down' # Head(hidQueue).keys
                                        /\ down' # {}))
  BY DEF Sends
<1>2. /\ hidQueue' \in Seq(Report) /\ Len(hidQueue) \in Nat
      /\ Len(hidQueue') = Len(hidQueue) - 1
  BY <1>1 DEF KeyTypes
<1>3. ~(Len(hidQueue') > Len(hidQueue))
  BY <1>2
<1>4. ~disordered' => ~disordered /\ Shown' \in {{}, Shown}
  <2>1. CASE hidQueue' = <<>>
    <3>1. Len(hidQueue) = 1
      <4>1. Len(hidQueue') = 0
        BY <2>1
      <4> QED BY <1>2, <4>1
    <3>2. Head(hidQueue) = hidQueue[Len(hidQueue)]
      BY <1>1, <3>1 DEF KeyTypes
    <3>3. Shown = Head(hidQueue).keys /\ Shown' = down'
      BY <1>1, <2>1, <3>2 DEF Shown, Final
    <3> QED BY <1>1, <2>1, <3>3, Zenon
  <2>2. CASE hidQueue' # <<>>
    <3>1. hidQueue'[Len(hidQueue')] = hidQueue[Len(hidQueue)]
      BY <1>1, <1>2, <2>2 DEF KeyTypes
    <3>2. Shown' = Shown
      BY <1>1, <2>2, <3>1 DEF Shown, Final
    <3> QED BY <1>1, <2>2, <3>2, Zenon
  <2> QED BY <2>1, <2>2
<1> QED BY <1>1, <1>2, <1>3, <1>4

-----------------------------------------------------------------------------
(* What the host will have down, after a step that leaves it so or corrects it. *)

LEMMA Quiet ==
  ASSUME ~disordered' => Shown' = {}
  PROVE  Follows'
BY DEF Follows, ReleaseFollows, LastReportIsHeld, Shown

LEMMA Kept ==
  ASSUME Follows, ~disordered' => ~disordered /\ Shown' \in {{}, Shown},
         air' = air, held \subseteq held', chord => chord', secure => secure',
         passkey' \in {0, passkey}, page' \in {page, "pet"}
  PROVE  Follows'
BY DEF Follows, ReleaseFollows, LastReportIsHeld, Shown

(* Where the host has no key of the user down, the user may let any go.        *)
LEMMA KeptAside ==
  ASSUME KeyAssumption, KeyTypes, Follows, ~(secure /\ passkey = 0 /\ page = "pet"),
         UNCHANGED <<disordered, hidQueue, down, air, chord>>
  PROVE  Follows'
<1>1. Shown' = Shown
  BY DEF Shown
<1>2. ~disordered /\ air # 0 => Shown \subseteq IF chord THEN {Chord} ELSE {}
  BY DEF Follows, ReleaseFollows, LastReportIsHeld, Shown, KeyTypes, KeyAssumption
<1> QED BY <1>1, <1>2 DEF Follows, ReleaseFollows, LastReportIsHeld, Shown

(* A ready link is the one there is, and its keys go to its host.              *)
LEMMA ReadyFollows ==
  ASSUME LinkInv, ready
  PROVE  (air # 0) => secure
BY DEF LinkInv, ReadyFromState

-----------------------------------------------------------------------------
(* The keys                                                                  *)
KeysStep == KeyTypes' /\ KeysInv' /\ Made(private')

LEMMA PasskeyKeeps ==
  ASSUME KeyAssumption, IInv, NEW k \in Key, PairingInputActive,
         IF Presses(k) /\ k \in DigitKeys THEN PairingInputDigit
         ELSE UNCHANGED linkVars,
         TakenByPasskey(k, passkey' = 0)
  PROVE  KeysStep
<1>1. UNCHANGED <<disordered, hidQueue, down, air, chord>> /\ passkey # 0
  BY DEF PairingInputActive, PairingInputDigit, TakenByPasskey, linkVars, airVars
<1>2. KeyTypes'
  BY DEF IInv, KeyTypes, TakenByPasskey, Moved, Presses
<1>3. Follows'
  BY <1>1, KeptAside DEF IInv, KeysInv
<1>4. LocalIsApart'
  <2>1. CASE passkey' = 0
    BY <2>1 DEF LocalIsApart, TakenByPasskey
  <2>2. CASE passkey' # 0
    BY <2>2 DEF LocalIsApart
  <2> QED BY <2>1, <2>2
<1>5. Made(private')
  BY <1>1 DEF Made, IInv, KeyTypes
<1> QED BY <1>1, <1>2, <1>3, <1>4, <1>5 DEF KeysStep, IInv, KeysInv

(* Onboarding and the other pages take a key in the same way.                 *)
LEMMA LocalKeeps ==
  ASSUME KeyAssumption, IInv, NEW k \in Key, page # "pet", UNCHANGED linkVars,
         held' = Moved(k, held), pressed' = Moved(k, pressed), StaysLocal(k),
         UNCHANGED <<page, disordered, hidQueue, down, chord>>
  PROVE  KeysStep
<1>1. UNCHANGED <<disordered, hidQueue, down, air, chord>>
  BY DEF linkVars, airVars
<1>2. KeyTypes'
  BY DEF IInv, KeyTypes, StaysLocal, Moved, Presses
<1>3. Follows'
  BY <1>1, KeptAside DEF IInv, KeysInv
<1>4. LocalIsApart' /\ Made(private')
  BY <1>1 DEF LocalIsApart, Made, IInv, KeyTypes
<1> QED BY <1>1, <1>2, <1>3, <1>4 DEF KeysStep, IInv, KeysInv

(* A change of the page releases what the host has down.                      *)
LEMMA PageKeeps ==
  ASSUME IInv, NEW to, UNCHANGED air, PageChanges(to, Live),
         held \cup held' \subseteq Key, private' \subseteq held'
  PROVE  KeysStep
<1>1. /\ UNCHANGED hidQueue /\ down' \in {{}, down}
      /\ ~disordered' => Shown' = {}
  BY ReleaseShows DEF IInv, PageChanges
<1>2. Follows'
  BY <1>1, Quiet
<1>3. KeyTypes' /\ LocalIsApart' /\ Made(private')
  BY <1>1 DEF IInv, KeyTypes, LocalIsApart, Made, PageChanges
<1> QED BY <1>1, <1>2, <1>3 DEF KeysStep, IInv, KeysInv

LEMMA NavigationKeeps ==
  ASSUME KeyAssumption, IInv, NEW k \in Key, UNCHANGED linkVars,
         TakenByNavigation(k, Live)
  PROVE  KeysStep
<1>1. /\ held' = Moved(k, held) /\ UNCHANGED <<air, secure, passkey, chord>>
      /\ held \subseteq Key /\ private \subseteq held /\ pressed \subseteq held
  BY DEF TakenByNavigation, linkVars, airVars, passkeyVars, IInv, KeyTypes
<1>2. CASE \E to : PageChanges(to, Live) /\ StaysLocal(k)
  <2>1. held \cup held' \subseteq Key /\ private' \subseteq held'
    BY <1>1, <1>2 DEF StaysLocal, Moved, Presses
  <2> QED BY <1>1, <1>2, <2>1, PageKeeps
<1>3. CASE Presses(k) /\ Scrolls(k)
  <2>1. /\ held' = held \cup {k} /\ pressed' = pressed \cup {k}
        /\ private' \in {private, private \cup {k}}
        /\ page = "pet" => private' = private
        /\ UNCHANGED <<page, hidQueue, down, disordered>>
    BY <1>1, <1>3 DEF Scrolls, Moved, Presses
  <2>2. KeyTypes'
    BY <1>1, <2>1 DEF IInv, KeyTypes
  <2>3. Follows'
    BY <1>1, <2>1, Kept DEF IInv, KeysInv, Shown
  <2>4. LocalIsApart'
    BY <1>1, <1>3, <2>1 DEF IInv, KeysInv, LocalIsApart, Presses
  <2>5. Made(private')
    BY <2>1 DEF Made, IInv, KeyTypes
  <2> QED BY <1>1, <2>1, <2>2, <2>3, <2>4, <2>5 DEF KeysStep, IInv, KeysInv
<1>4. CASE /\ CapturedUp(k)
           /\ pressed' = pressed \ {k} /\ private' = private \ {k}
           /\ disordered' = (disordered \/ k \in Final(hidQueue, down))
           /\ UNCHANGED <<page, hidQueue, down>>
  <2>1. held' = held \ {k} /\ UNCHANGED Shown
    BY <1>1, <1>4 DEF CapturedUp, Moved, Shown
  <2>2. KeyTypes'
    BY <1>1, <1>4, <2>1 DEF IInv, KeyTypes
  <2>3. Follows'
    <3>1. ~disordered' => ~disordered /\ k \notin Shown
      BY <1>4 DEF Shown
    <3> QED BY <1>1, <1>4, <2>1, <3>1
        DEF IInv, KeysInv, Follows, ReleaseFollows, LastReportIsHeld, Shown
  <2>4. LocalIsApart'
    BY <1>1, <1>4 DEF IInv, KeysInv, LocalIsApart
  <2>5. Made(private')
    BY <1>4 DEF Made, IInv, KeyTypes
  <2> QED BY <1>1, <1>4, <2>2, <2>3, <2>4, <2>5 DEF KeysStep, IInv, KeysInv
<1> QED BY <1>2, <1>3, <1>4 DEF TakenByNavigation, Returns, Navigates

(* The host gets the keys that are held, and of these none that was local.     *)
LEMMA HostKeeps ==
  ASSUME KeyAssumption, IInv, NEW k \in Key, ~PairingInputActive,
         UNCHANGED linkVars, GoesToHost(k, ready)
  PROVE  KeysStep
<1> DEFINE keys == Route(pressed' \ Mapped(pressed'))
<1>1. /\ held' = Moved(k, held) /\ pressed' = Moved(k, pressed)
      /\ private' = private \ {k} /\ page = "pet" /\ passkey = 0
      /\ UNCHANGED <<page, air, secure, passkey, chord>>
      /\ SendWhenReady(keys, ready)
  BY DEF GoesToHost, linkVars, airVars, passkeyVars, routerVars, PairingInputActive
<1>2. /\ held' \subseteq Key /\ pressed' \subseteq held' /\ private' \subseteq held'
      /\ pressed' \cap private' = {}
  BY <1>1 DEF Moved, Presses, IInv, KeyTypes, KeysInv, LocalIsApart
<1>3. keys \subseteq pressed'
  BY DEF Route
<1>4. /\ hidQueue' \in Seq(Report) /\ UNCHANGED down
      /\ ~disordered' => Shown' = {} \/ (ready /\ Shown' = keys)
      /\ Len(hidQueue') > Len(hidQueue) => Shown' = keys
  <2>1. keys \in SUBSET (Key \cup {Chord})
    BY <1>2, <1>3
  <2> HIDE DEF keys
  <2> QED BY <1>1, <2>1, SendShows DEF IInv
<1> HIDE DEF keys
<1>5. Follows'
  <2>1. air' # 0 /\ ready => secure'
    BY <1>1, ReadyFollows DEF IInv
  <2> QED BY <1>1, <1>2, <1>3, <1>4, <2>1
      DEF Follows, ReleaseFollows, LastReportIsHeld, Shown
<1>6. KeyTypes' /\ LocalIsApart' /\ Made(private')
  BY <1>1, <1>2, <1>3, <1>4 DEF KeyTypes, LocalIsApart, Made, Shown
<1> QED BY <1>1, <1>4, <1>5, <1>6 DEF KeysStep, IInv, KeysInv

LEMMA KeyEventKeeps ==
  ASSUME KeyAssumption, IInv, NEW k \in Key, KeyEvent(k)
  PROVE  KeysStep
<1>1. CASE /\ PairingInputActive
           /\ IF Presses(k) /\ k \in DigitKeys THEN PairingInputDigit
              ELSE UNCHANGED linkVars
           /\ TakenByPasskey(k, passkey' = 0)
  BY <1>1, PasskeyKeeps
<1>2. CASE TakenByOnboarding(k) /\ UNCHANGED linkVars
  BY <1>2, LocalKeeps DEF TakenByOnboarding, routerVars
<1>3. CASE TakenByNavigation(k, Live) /\ UNCHANGED linkVars
  BY <1>3, NavigationKeeps
<1>4. CASE TakenByPage(k) /\ UNCHANGED linkVars
  BY <1>4, LocalKeeps DEF TakenByPage, routerVars
<1>5. CASE ~PairingInputActive /\ GoesToHost(k, ready) /\ UNCHANGED linkVars
  BY <1>5, HostKeeps
<1> QED BY <1>1, <1>2, <1>3, <1>4, <1>5 DEF KeyEvent

-----------------------------------------------------------------------------
(* The tasks of the macros, of G0, of the settings and of the sender           *)

(* A chord is reported while its task runs, and its end when that is over.      *)
LEMMA ChordKeeps ==
  ASSUME KeyAssumption, IInv, NEW keys, keys = (IF chord' THEN {Chord} ELSE {}),
         SendWhenReady(keys, ready),
         UNCHANGED <<linkVars, held, pressed, routerVars, private>>
  PROVE  KeysStep
<1>1. /\ hidQueue' \in Seq(Report) /\ UNCHANGED down
      /\ ~disordered' => Shown' = {} \/ (ready /\ Shown' = keys)
      /\ Len(hidQueue') > Len(hidQueue) => Shown' = keys
  BY SendShows DEF IInv
<1>2. UNCHANGED <<air, passkey, page>> /\ keys \subseteq {Chord} /\ private \subseteq Key
  BY DEF linkVars, airVars, passkeyVars, routerVars, IInv, KeyTypes
<1>3. Follows'
  BY <1>1, <1>2 DEF Follows, ReleaseFollows, LastReportIsHeld, Shown
<1>4. Made(private')
  BY <1>1, <1>2 DEF Made, Shown, KeyAssumption
<1>5. KeyTypes' /\ LocalIsApart'
  BY <1>1, <1>2 DEF IInv, KeysInv, KeyTypes, LocalIsApart
<1> QED BY <1>1, <1>2, <1>3, <1>4, <1>5 DEF KeysStep, IInv, KeysInv

LEMMA ReleaseKeeps ==
  ASSUME IInv, ReleaseState(Live), UNCHANGED <<air, held, pressed>>,
         private' = {} \/ UNCHANGED <<private, page, passkey>>
  PROVE  KeysStep
<1>1. /\ UNCHANGED hidQueue /\ down' \in {{}, down}
      /\ ~disordered' => Shown' = {}
  BY ReleaseShows DEF IInv
<1>2. Follows'
  BY <1>1, Quiet
<1>3. KeyTypes' /\ LocalIsApart' /\ Made(private')
  BY <1>1 DEF IInv, KeyTypes, KeysInv, LocalIsApart, Made
<1> QED BY <1>1, <1>2, <1>3 DEF KeysStep, IInv, KeysInv

LEMMA MacroTaskKeeps ==
  ASSUME KeyAssumption, IInv, MacroTask
  PROVE  KeysStep
<1>1. CASE MacroStarts(ready)
  BY <1>1, ChordKeeps DEF MacroTask, MacroStarts, SendChord
<1>2. CASE MacroTogglesMode(Live)
  <2>1. UNCHANGED <<air, held, pressed, private, page, passkey>> /\ ReleaseState(Live)
    BY <1>2 DEF MacroTask, MacroTogglesMode, linkVars, airVars, passkeyVars
  <2> QED BY <2>1, ReleaseKeeps
<1>3. CASE ChordEnds(ready)
  BY <1>3, ChordKeeps DEF MacroTask, ChordEnds
<1> QED BY <1>1, <1>2, <1>3 DEF MacroTask

LEMMA SendsKeep ==
  ASSUME IInv, NEW live, live => air # 0, Sends(live),
         UNCHANGED <<air, secure, passkey>>
  PROVE  KeysStep
<1>1. /\ hidQueue' \in Seq(Report) /\ ~(Len(hidQueue') > Len(hidQueue))
      /\ ~live => down' = down
      /\ ~disordered' => ~disordered /\ Shown' \in {{}, Shown}
  BY SendsShow DEF IInv
<1>2. UNCHANGED <<held, pressed, page, chord, private>>
  BY DEF Sends, routerVars
<1>3. Follows'
  BY <1>1, <1>2, Kept DEF IInv, KeysInv
<1> QED BY <1>1, <1>2, <1>3 DEF KeysStep, IInv, KeyTypes, KeysInv, LocalIsApart, Made

LEMMA CommandKeeps ==
  ASSUME KeyAssumption, IInv, Command
  PROVE  KeysStep
<1>1. UNCHANGED <<air, secure, passkey>>
  BY DEF Command, linkVars, airVars, passkeyVars
<1>2. CASE G0Starts(ready)
  BY <1>2, ChordKeeps DEF Command, G0Starts, SendChord
<1>3. CASE BurstKey
  <2>1. [kind |-> "tap", keys |-> {}] \in Report
    BY DEF Report
  <2>2. /\ hidQueue' \in Seq(Report)
        /\ ~disordered' => Shown' = {}
        /\ Len(hidQueue') > Len(hidQueue) => Shown' = {}
        /\ UNCHANGED <<held, pressed, routerVars, chord, down, private>>
    BY <1>3, <2>1, EnqueueShows DEF IInv, BurstKey
  <2>3. Follows' /\ page' = page
    BY <2>2, Quiet DEF routerVars
  <2> QED BY <1>1, <2>2, <2>3
      DEF KeysStep, IInv, KeyTypes, KeysInv, LocalIsApart, Made, Shown
<1>4. CASE SafeProfile(Live) \/ ApplyInputMode(Live) \/ ReturnsByItself(Live)
  <2>1. /\ ReleaseState(Live) /\ UNCHANGED <<held, pressed>>
        /\ private' = {} \/ UNCHANGED <<private, page>>
    BY <1>4 DEF SafeProfile, ApplyInputMode, ReturnsByItself
  <2> QED BY <1>1, <2>1, ReleaseKeeps
<1>5. CASE OnboardingRestarts(Live)
  <2>1. PageChanges("onboarding", Live) /\ UNCHANGED <<held, private>>
    BY <1>5 DEF OnboardingRestarts
  <2> QED BY <1>1, <2>1, PageKeeps DEF IInv, KeyTypes
<1> QED BY <1>2, <1>3, <1>4, <1>5 DEF Command

LEMMA CompletionKeeps ==
  ASSUME IInv, Completion
  PROVE  KeysStep
<1>1. /\ UNCHANGED <<air, secure, passkey, held, pressed, chord, hidQueue, down,
                     disordered>>
      /\ page' = "pet" /\ private' = {}
  BY DEF Completion, OnboardingEnds, linkVars, airVars, passkeyVars
<1>2. Follows'
  BY <1>1, Kept DEF IInv, KeysInv, Shown
<1> QED BY <1>1, <1>2 DEF KeysStep, IInv, KeyTypes, KeysInv, LocalIsApart, Made

-----------------------------------------------------------------------------
(* The link                                                                  *)
LinkStep ==
  \/ HostTask \/ HiddConnect \/ HiddDisconnect \/ WatchdogTask \/ TimePasses
  \/ LinkCloses \/ HostConnects \/ ConnectFails \/ AdvertisingEnds \/ HostSecures
  \/ HostPairs \/ EncryptionFails \/ HostSubscribes \/ SinkChanges

LEMMA LinkKeeps ==
  ASSUME LinkInv, LinkStep
  PROVE  LinkInv'
<1> USE DEF LinkInv, ReadyFromState, None
<1>1. CASE GapConnect
  BY <1>1 DEF GapConnect, Called, Changes, LinkBecomes, airVars
<1>2. CASE GapResets
  BY <1>2 DEF GapResets, Called, ResetLink, Changes, LinkBecomes, NoLink, airVars
<1>3. CASE EncryptionChanged
  BY <1>3 DEF EncryptionChanged, Called, Changes, LinkBecomes
<1>4. CASE Subscribed
  BY <1>4 DEF Subscribed, Called, Changes, LinkBecomes, airVars
<1>5. CASE PasskeyAction
  BY <1>5 DEF PasskeyAction, Called, airVars
<1>6. CASE HiddConnect
  BY <1>6 DEF HiddConnect, Changes, LinkBecomes, airVars
<1>7. CASE HiddDisconnect
  BY <1>7 DEF HiddDisconnect, ResetLink, Changes, LinkBecomes, NoLink, airVars
<1>8. CASE WatchdogLooks \/ WatchdogAdvertises \/ TimePasses
  BY <1>8 DEF WatchdogLooks, WatchdogAdvertises, TimePasses, airVars
<1>9. CASE WatchdogResets
  BY <1>9 DEF WatchdogResets, ResetLink, Changes, LinkBecomes, NoLink
<1>10. CASE LinkCloses
  BY <1>10 DEF LinkCloses
<1>11. CASE HostConnects
  BY <1>11 DEF HostConnects
<1>12. CASE ConnectFails \/ AdvertisingEnds \/ SinkChanges
  BY <1>12 DEF ConnectFails, AdvertisingEnds, SinkChanges, airVars
<1>13. CASE HostSecures \/ HostPairs \/ EncryptionFails
  <2>1. /\ UNCHANGED <<link, ready, connections, air, handle>>
        /\ callback = "none" /\ air # 0
        /\ callback' \in {"encrypted", "passkey", "encryption failed"}
    BY <1>13 DEF HostSecures, HostPairs, EncryptionFails
  <2>2. secure = FALSE /\ secure' = (callback' = "encrypted")
    BY <1>13 DEF HostSecures, HostPairs, EncryptionFails
  <2> QED BY <2>1, <2>2
<1>14. CASE HostSubscribes
  <2>1. /\ UNCHANGED <<link, ready, connections, secure, air, handle>>
        /\ callback = "none" /\ callback' \in {"subscribe", "unsubscribe"}
    BY <1>14 DEF HostSubscribes
  <2> QED BY <2>1
<1> QED BY <1>1, <1>2, <1>3, <1>4, <1>5, <1>6, <1>7, <1>8, <1>9, <1>10, <1>11,
            <1>12, <1>13, <1>14 DEF LinkStep, HostTask, WatchdogTask

(* What is down, and a passkey that is asked for before the link is encrypted.  *)
LEMMA QuietLinkKeeps ==
  ASSUME KeyAssumption, IInv, UNCHANGED <<keyVars, air>>, secure => secure',
         UNCHANGED passkey \/ (~secure /\ passkey' # 0)
  PROVE  KeysStep
<1>1. /\ UNCHANGED <<held, pressed, page, chord, hidQueue, down, private, disordered>>
      /\ UNCHANGED Shown
  BY DEF keyVars, routerVars, Shown
<1>2. Follows'
  <2>1. CASE UNCHANGED passkey
    BY <1>1, <2>1, Kept DEF IInv, KeysInv
  <2>2. CASE ~secure
    BY <1>1, <2>2, KeptAside DEF IInv, KeysInv
  <2> QED BY <2>1, <2>2
<1> QED BY <1>1, <1>2 DEF KeysStep, IInv, KeyTypes, KeysInv, LocalIsApart, Made

LEMMA LinkKeepsKeys ==
  ASSUME KeyAssumption, IInv,
         HiddLoop \/ HostCallback \/ Watchdog \/ Clock \/ Closes \/ Stack
  PROVE  KeysStep
<1>1. CASE HostCallback
  <2>1. /\ UNCHANGED <<keyVars, air, secure>>
        /\ UNCHANGED passkey \/ (~secure /\ passkey' # 0)
    BY <1>1 DEF HostCallback, HostTask, GapConnect, GapResets, EncryptionChanged,
       Subscribed, PasskeyAction, Called, airVars, passkeyVars, IInv, LinkInv
  <2> QED BY <2>1, QuietLinkKeeps
<1>2. CASE Watchdog \/ Clock
  <2>1. UNCHANGED <<keyVars, air, secure, passkey>>
    BY <1>2 DEF Watchdog, Clock, WatchdogTask, WatchdogLooks, WatchdogResets,
       WatchdogAdvertises, TimePasses, airVars, passkeyVars
  <2> QED BY <2>1, QuietLinkKeeps
<1>3. CASE HiddConnect /\ UNCHANGED keyVars
  BY <1>3, QuietLinkKeeps DEF HiddConnect, airVars, passkeyVars
<1>4. CASE HiddDisconnect /\ ReleaseState(Live)
           /\ UNCHANGED <<held, pressed, captured, routerVars, macros, chord, private>>
  BY <1>4, ReleaseKeeps DEF HiddDisconnect, airVars, passkeyVars, routerVars
<1>5. CASE Closes
  <2>1. /\ air' = 0 /\ down' = {} /\ UNCHANGED <<passkey, page, hidQueue>>
        /\ UNCHANGED <<held, pressed, private>>
    BY <1>5 DEF Closes, LinkCloses, HostGone, passkeyVars, routerVars
  <2> QED BY <2>1 DEF KeysStep, IInv, KeyTypes, KeysInv, Follows, ReleaseFollows,
          LastReportIsHeld, LocalIsApart, Made
<1>6. CASE HostConnects /\ HostThere
  <2>1. /\ down = {} /\ UNCHANGED <<passkey, page, hidQueue, down>>
        /\ UNCHANGED <<held, pressed, private>>
        /\ disordered' = (Final(hidQueue, {}) # {})
    BY <1>6 DEF HostConnects, HostThere, passkeyVars, routerVars, IInv, KeysInv
  <2>2. Follows'
    BY <2>1, Quiet DEF Shown
  <2> QED BY <2>1, <2>2 DEF KeysStep, IInv, KeyTypes, KeysInv, LocalIsApart, Made
<1>7. CASE /\ \/ ConnectFails \/ AdvertisingEnds \/ HostSecures \/ HostPairs
              \/ EncryptionFails \/ HostSubscribes \/ SinkChanges
           /\ UNCHANGED keyVars
  <2>1. UNCHANGED <<keyVars, air, passkey>> /\ (secure => secure')
    BY <1>7 DEF ConnectFails, AdvertisingEnds, HostSecures, HostPairs,
       EncryptionFails, HostSubscribes, SinkChanges, airVars, passkeyVars,
       IInv, LinkInv
  <2> QED BY <2>1, QuietLinkKeeps
<1> QED BY <1>1, <1>2, <1>3, <1>4, <1>5, <1>6, <1>7 DEF HiddLoop, Stack

-----------------------------------------------------------------------------
(* The invariant                                                             *)
LEMMA InitKeeps == Init => IInv
<1> SUFFICES ASSUME Init PROVE IInv
  OBVIOUS
<1>1. LinkInv
  BY DEF Init, LinkInit, LinkInv, ReadyFromState, NoLink, None
<1>2. /\ hidQueue = <<>> /\ Shown = {} /\ held = {} /\ pressed = {}
      /\ private = {} /\ down = {}
  BY DEF Init, KeysInit, Shown, Final
<1>3. KeyTypes
  BY <1>2 DEF KeyTypes
<1>4. KeysInv
  BY <1>2 DEF KeysInv, Follows, ReleaseFollows, LastReportIsHeld, LocalIsApart, Shown
<1> QED BY <1>1, <1>3, <1>4 DEF IInv

LEMMA StepKeeps ==
  ASSUME KeyAssumption, IInv, Next
  PROVE  LinkInv' /\ KeysStep
<1>1. ASSUME NEW k \in Key, KeyEvent(k) PROVE LinkInv' /\ KeysStep
  <2>1. UNCHANGED <<link, ready, connections, callback, air, secure, handle>>
    BY <1>1 DEF KeyEvent, PairingInputDigit, linkVars, airVars
  <2> QED BY <1>1, <2>1, KeyEventKeeps DEF IInv, LinkInv
<1>2. CASE MacroTask \/ Sender \/ Command \/ Completion
  <2>1. UNCHANGED <<link, ready, connections, callback, air, secure, handle, passkey>>
    BY <1>2 DEF MacroTask, Sender, Command, Completion, linkVars, airVars, passkeyVars
  <2>2. CASE Sender
    BY <2>1, <2>2, SendsKeep DEF Sender, Live, IInv, LinkInv
  <2> QED BY <1>2, <2>1, <2>2, MacroTaskKeeps, CommandKeeps, CompletionKeeps
      DEF IInv, LinkInv
<1>3. CASE SendFails
  <2>1. UNCHANGED <<link, ready, connections, callback, air, secure, handle, passkey>>
        /\ Sends(FALSE)
    BY <1>3 DEF SendFails, airVars, passkeyVars
  <2> QED BY <2>1, SendsKeep DEF IInv, LinkInv
<1>4. CASE HiddLoop \/ HostCallback \/ Watchdog \/ Clock \/ Closes \/ Stack
  <2>1. LinkStep
    BY <1>4 DEF LinkStep, HiddLoop, HostCallback, Watchdog, Clock, Closes, Stack
  <2> QED BY <1>4, <2>1, LinkKeeps, LinkKeepsKeys DEF IInv
<1> QED BY <1>1, <1>2, <1>3, <1>4 DEF Next

LEMMA StutterKeeps ==
  ASSUME IInv, UNCHANGED vars
  PROVE  IInv'
BY DEF vars, linkVars, airVars, passkeyVars, keyVars, routerVars, IInv, KeyTypes,
   LinkInv, KeysInv, Follows, ReleaseFollows, LastReportIsHeld, LocalIsApart, Shown

LEMMA Invariance == Spec => []IInv
<1>1. IInv /\ [Next]_vars => IInv'
  BY StepKeeps, StutterKeeps, KeyAssumption DEF IInv, KeysStep
<1> QED BY <1>1, InitKeeps, PTL DEF Spec

(* A keyboard that is ready has an encrypted and bonded connection, for any      *)
(* number of connections, faults and pending events of the HIDD loop             *)
(* (publish_hid_ready_if_changed() and the callbacks that share g_hid_state).    *)
THEOREM ReadyMeansSecure == Spec => []ReadyIsReal
<1>1. IInv => ReadyIsReal
  BY DEF IInv, LinkInv, ReadyFromState, ReadyIsReal, None
<1> QED BY <1>1, Invariance, PTL

(* No report that stands is one of a key the user has let go, for any keys,      *)
(* actions and depths of the two queues (keyboard_event(), release_state() and   *)
(* the tasks of the macros and of G0).                                         *)
THEOREM NoKeyStaysDown == Spec => []LastReportIsHeld
<1>1. IInv => LastReportIsHeld
  BY DEF IInv, KeysInv, Follows
<1> QED BY <1>1, Invariance, PTL

(* No report is made that has a key pressed for the device alone (g_pressed in   *)
(* keyboard_event() and enter_ui_page()).                                      *)
THEOREM LocalStaysLocal == Spec => LocalKeysStayLocal
<1>1. IInv /\ [Next]_vars => [Made(private')]_vars
  BY StepKeeps, KeyAssumption DEF KeysStep
<1> QED BY <1>1, Invariance, PTL DEF Spec, LocalKeysStayLocal
=============================================================================
