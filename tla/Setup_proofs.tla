------------------------- MODULE Setup_proofs -------------------------
(* Theorems about the device in its user's hands, for every value of the      *)
(* constants: the first-run setup (types, gates, the scan behind its page),    *)
(* the wipe at power-up, the settings in NVS, and the pages with their menu.   *)
EXTENDS Onboarding, DeviceUi, DeviceSettings, TLAPS

\* The gates that are open at a checkpoint.
GatesOf(point) ==
    IF point = "needs_wifi" THEN {}
    ELSE IF point = "needs_ble" THEN {"wifi"}
    ELSE IF point = "needs_agent" THEN {"wifi", "ble"}
    ELSE {"wifi", "ble", "agent"}

\* Each step is a step of its checkpoint.
StepFits ==
    /\ step = "ble_pair_guide" <=> checkpoint = "needs_ble"
    /\ step = "agent_install_guide" <=> checkpoint = "needs_agent"
    /\ step \in {"complete_guide", "complete"} <=> checkpoint = "complete"

\* A device without a record is at its first step, or was migrated and could not say so.
NoRecordYet ==
    record = "absent" =>
        /\ gates = {}
        /\ checkpoint = "needs_wifi" \/ (checkpoint = "complete" /\ step = "complete")

\* What was recorded tells which gates were opened, except after a migration.
GatesMatch ==
    record # "absent" => gates = GatesOf(record) \/ (record = "complete" /\ gates = {})

IInv == OnboardingTypeOK /\ StepFits /\ NoRecordYet /\ GatesMatch

\* The initial state.
LEMMA InitIInv == Init => IInv
BY OnboardingAssumption
   DEF Init, IInv, OnboardingTypeOK, StepFits, NoRecordYet, GatesMatch, Checkpoints, Steps, WifiSteps

\* persist, with the gates that belong to the new checkpoint.
LEMMA PersistIInv ==
    ASSUME IInv, NEW point \in Checkpoints, NEW newStep \in Steps, Persist(point, newStep, GatesOf(point)),
           newStep \in WifiSteps <=> point = "needs_wifi",
           newStep = "ble_pair_guide" <=> point = "needs_ble",
           newStep = "agent_install_guide" <=> point = "needs_agent",
           newStep \in {"complete_guide", "complete"} <=> point = "complete",
           editor' \in {"none", "hidden_ssid", "password"},
           commands' \in Seq({"scan_wifi", "connect_wifi"}), Len(commands') <= CommandDepth
    PROVE  IInv'
<1>1. GatesOf(point) \subseteq {"wifi", "ble", "agent"}
  BY DEF GatesOf
<1>2. "absent" \notin Checkpoints
  BY DEF Checkpoints
<1> QED
  BY <1>1, <1>2 DEF IInv, OnboardingTypeOK, StepFits, NoRecordYet, GatesMatch, Persist

\* A move between the pages of the Wi-Fi gate, or no move at all.
LEMMA MoveIInv ==
    ASSUME IInv,
           \/ UNCHANGED stateVars
           \/ /\ step \in WifiSteps /\ step' \in WifiSteps /\ secured' \in BOOLEAN
              /\ UNCHANGED <<checkpoint, record, gates>>,
           editor' \in {"none", "hidden_ssid", "password"},
           commands' \in Seq({"scan_wifi", "connect_wifi"}), Len(commands') <= CommandDepth
    PROVE  IInv'
<1>1. CASE UNCHANGED stateVars
  BY <1>1 DEF stateVars, IInv, OnboardingTypeOK, StepFits, NoRecordYet, GatesMatch
<1>2. CASE /\ step \in WifiSteps /\ step' \in WifiSteps /\ secured' \in BOOLEAN
           /\ UNCHANGED <<checkpoint, record, gates>>
  BY <1>2 DEF IInv, OnboardingTypeOK, StepFits, NoRecordYet, GatesMatch, WifiSteps, Steps, Checkpoints
<1> QED
  BY <1>1, <1>2

\* The queue keeps its type and its bound when a command is added to it or taken from it.
LEMMA QueueAppend ==
    ASSUME OnboardingTypeOK, NEW c \in {"scan_wifi", "connect_wifi"}, Len(commands) < CommandDepth
    PROVE  /\ Append(commands, c) \in Seq({"scan_wifi", "connect_wifi"})
           /\ Len(Append(commands, c)) <= CommandDepth
<1> DEFINE Q == {"scan_wifi", "connect_wifi"}
<1>1. commands \in Seq(Q) /\ c \in Q
  BY DEF OnboardingTypeOK
<1>2. Append(commands, c) \in Seq(Q) /\ Len(Append(commands, c)) = Len(commands) + 1
  BY <1>1, SMT
<1>3. Len(commands) \in Nat
  BY <1>1, SMT
<1> QED
  BY <1>2, <1>3, OnboardingAssumption, SMT

LEMMA QueueTail ==
    ASSUME OnboardingTypeOK, commands # <<>>
    PROVE  /\ Tail(commands) \in Seq({"scan_wifi", "connect_wifi"})
           /\ Len(Tail(commands)) <= CommandDepth
<1> DEFINE Q == {"scan_wifi", "connect_wifi"}
<1>1. commands \in Seq(Q) /\ Len(commands) <= CommandDepth
  BY DEF OnboardingTypeOK
<1>2. Tail(commands) \in Seq(Q) /\ Len(Tail(commands)) = Len(commands) - 1 /\ Len(commands) \in Nat
  BY <1>1, SMT
<1> QED
  BY <1>1, <1>2, OnboardingAssumption, SMT

\* The keys of the list and of the editors.
LEMMA ListKeys ==
    ASSUME IInv,
           \/ \E hidden \in BOOLEAN : PickSecured(hidden)
           \/ PickOpen \/ Rescan \/ SsidEntered \/ PasswordEntered \/ LeaveEditor \/ Acknowledge
    PROVE  IInv'
<1> USE DEF MoveTo
<1>0. /\ OnboardingTypeOK
      /\ commands \in Seq({"scan_wifi", "connect_wifi"}) /\ Len(commands) <= CommandDepth
      /\ editor \in {"none", "hidden_ssid", "password"} /\ secured \in BOOLEAN
  BY DEF IInv, OnboardingTypeOK
<1>1. ASSUME NEW hidden \in BOOLEAN, PickSecured(hidden) PROVE IInv'
  BY <1>0, <1>1, MoveIInv DEF PickSecured, UnlessKeys, WifiSteps
<1>2. CASE PickOpen
  <2>1. /\ commands' \in Seq({"scan_wifi", "connect_wifi"}) /\ Len(commands') <= CommandDepth
    BY <1>0, <1>2, QueueAppend DEF PickOpen
  <2> QED
    BY <1>0, <1>2, <2>1, MoveIInv DEF PickOpen, UnlessKeys, WifiSteps
<1>3. CASE Rescan
  <2>1. /\ commands' \in Seq({"scan_wifi", "connect_wifi"}) /\ Len(commands') <= CommandDepth
    BY <1>0, <1>3, QueueAppend DEF Rescan, Submit
  <2> QED
    BY <1>0, <1>3, <2>1, MoveIInv DEF Rescan, Submit, UnlessKeys, WifiSteps
<1>4. CASE SsidEntered
  BY <1>0, <1>4, MoveIInv DEF SsidEntered, UnlessKeys
<1>5. CASE PasswordEntered
  <2>1. /\ commands' \in Seq({"scan_wifi", "connect_wifi"}) /\ Len(commands') <= CommandDepth
    BY <1>0, <1>5, QueueAppend DEF PasswordEntered, Submit
  <2> QED
    BY <1>0, <1>5, <2>1, MoveIInv DEF PasswordEntered, Submit, UnlessKeys, WifiSteps
<1>6. CASE LeaveEditor
  <2>1. checkpoint = "needs_wifi" => step \in WifiSteps
    BY DEF IInv, OnboardingTypeOK
  <2> QED
    BY <1>0, <1>6, <2>1, MoveIInv DEF LeaveEditor, UnlessKeys, WifiSteps
<1>7. CASE Acknowledge
  BY <1>7 DEF Acknowledge, UnlessKeys, IInv, OnboardingTypeOK, StepFits, NoRecordYet, GatesMatch,
              Steps, WifiSteps
<1> QED
  BY <1>1, <1>2, <1>3, <1>4, <1>5, <1>6, <1>7

\* The keys and calls that go back, and the three events that open a gate.
LEMMA GateSteps ==
    ASSUME IInv,
           \/ BackFromBle \/ BackFromAgent \/ RestartSetup
           \/ WifiStatusChanged \/ BleChanges \/ Heartbeat
    PROVE  IInv'
<1>0. /\ OnboardingTypeOK
      /\ commands \in Seq({"scan_wifi", "connect_wifi"}) /\ Len(commands) <= CommandDepth
      /\ editor \in {"none", "hidden_ssid", "password"} /\ secured \in BOOLEAN
      /\ checkpoint = "needs_wifi" => step \in WifiSteps
      /\ step \in WifiSteps => checkpoint = "needs_wifi"
  BY DEF IInv, OnboardingTypeOK
<1>g. /\ GatesOf("needs_wifi") = {} /\ GatesOf("needs_ble") = {"wifi"}
      /\ GatesOf("needs_agent") = {"wifi", "ble"} /\ GatesOf("complete") = {"wifi", "ble", "agent"}
  BY DEF GatesOf
<1>s. /\ \A p \in {"needs_wifi", "needs_ble", "needs_agent", "complete"} : p \in Checkpoints
      /\ \A s \in WifiSteps \cup {"ble_pair_guide", "agent_install_guide", "complete_guide"} : s \in Steps
      /\ "wifi_scan" \in WifiSteps
      /\ \A s \in {"ble_pair_guide", "agent_install_guide", "complete_guide"} : s \notin WifiSteps
  BY DEF Checkpoints, Steps, WifiSteps
<1>p. /\ step = "ble_pair_guide" => gates = {"wifi"}
      /\ step = "agent_install_guide" => gates = {"wifi", "ble"}
  BY <1>g DEF IInv, OnboardingTypeOK, StepFits, NoRecordYet, GatesMatch
<1>w. ASSUME Persist("needs_wifi", "wifi_scan", {}), editor' \in {"none", "hidden_ssid", "password"},
             commands' \in Seq({"scan_wifi", "connect_wifi"}), Len(commands') <= CommandDepth
      PROVE  IInv'
  <2>1. "needs_wifi" \in Checkpoints /\ "wifi_scan" \in Steps /\ "wifi_scan" \in WifiSteps
    BY DEF Checkpoints, Steps, WifiSteps
  <2>2. Persist("needs_wifi", "wifi_scan", GatesOf("needs_wifi"))
    BY <1>w, <1>g
  <2> QED
    BY <1>w, <2>1, <2>2, PersistIInv
<1>b. ASSUME Persist("needs_ble", "ble_pair_guide", {"wifi"}),
             editor' \in {"none", "hidden_ssid", "password"},
             commands' \in Seq({"scan_wifi", "connect_wifi"}), Len(commands') <= CommandDepth
      PROVE  IInv'
  <2>1. "needs_ble" \in Checkpoints /\ "ble_pair_guide" \in Steps /\ "ble_pair_guide" \notin WifiSteps
    BY DEF Checkpoints, Steps, WifiSteps
  <2>2. Persist("needs_ble", "ble_pair_guide", GatesOf("needs_ble"))
    BY <1>b, <1>g
  <2> QED
    BY <1>b, <2>1, <2>2, PersistIInv
<1>1. CASE BackFromBle
  <2>1. /\ commands' \in Seq({"scan_wifi", "connect_wifi"}) /\ Len(commands') <= CommandDepth
        /\ editor' \in {"none", "hidden_ssid", "password"}
    BY <1>0, <1>1, QueueAppend DEF BackFromBle
  <2>2. CASE PersistFails
    BY <2>1, <2>2, MoveIInv DEF PersistFails
  <2> QED
    BY <1>1, <1>w, <2>1, <2>2 DEF BackFromBle
<1>2. CASE BackFromAgent
  <2>1. CASE PersistFails
    BY <1>0, <1>2, <2>1, MoveIInv DEF PersistFails, BackFromAgent
  <2> QED
    BY <1>0, <1>2, <1>b, <2>1 DEF BackFromAgent
<1>3. CASE RestartSetup
  <2>1. CASE PersistFails
    BY <1>0, <1>3, <2>1, MoveIInv DEF PersistFails, RestartSetup
  <2> QED
    BY <1>0, <1>3, <1>w, <2>1 DEF RestartSetup
<1>4. CASE WifiStatusChanged
  <2>0. commands' = commands
    BY <1>4 DEF WifiStatusChanged
  <2>1. CASE UNCHANGED <<stateVars, editor>>
    BY <1>0, <2>0, <2>1, MoveIInv
  <2>2. CASE PersistFails /\ UNCHANGED editor
    BY <1>0, <2>0, <2>2, MoveIInv DEF PersistFails
  <2>3. CASE Connected
    BY <1>0, <2>0, <2>1, <2>2, <2>3, <1>b DEF Connected
  <2>4. CASE Disconnected
    BY <1>0, <2>0, <2>1, <2>4, MoveIInv DEF Disconnected, MoveTo, WifiSteps
  <2> QED
    BY <1>4, <2>1, <2>3, <2>4 DEF WifiStatusChanged
<1>5. CASE BleChanges
  <2>0. commands' = commands /\ editor' = editor
    BY <1>5 DEF BleChanges, controllerVars
  <2>1. CASE UNCHANGED stateVars
    BY <1>0, <2>0, <2>1, MoveIInv
  <2>2. CASE step = "ble_pair_guide" /\ Persist("needs_agent", "agent_install_guide", gates \cup {"ble"})
    <3>1. gates \cup {"ble"} = GatesOf("needs_agent")
      BY <1>g, <1>p, <2>2
    <3> QED
      BY <1>0, <1>s, <2>0, <2>2, <3>1, PersistIInv
  <2> QED
    BY <1>5, <2>1, <2>2 DEF BleChanges, PersistFails
<1>6. CASE Heartbeat
  <2>0. commands' = commands /\ editor' = editor
    BY <1>6 DEF Heartbeat, controllerVars
  <2>1. CASE PersistFails
    BY <1>0, <2>0, <2>1, MoveIInv DEF PersistFails
  <2>2. CASE step = "agent_install_guide" /\ Persist("complete", "complete_guide", gates \cup {"agent"})
    <3>1. gates \cup {"agent"} = GatesOf("complete")
      BY <1>g, <1>p, <2>2
    <3> QED
      BY <1>0, <1>s, <2>0, <2>2, <3>1, PersistIInv
  <2> QED
    BY <1>6, <2>1, <2>2 DEF Heartbeat
<1> QED
  BY <1>1, <1>2, <1>3, <1>4, <1>5, <1>6

\* A power cycle: the loaded step is that of the record.
LEMMA PowerCycleIInv == IInv /\ PowerCycle => IInv'
<1> SUFFICES ASSUME IInv, PowerCycle PROVE IInv'
  OBVIOUS
<1>1. Load /\ editor' = "none" /\ commands' = <<>>
  BY DEF PowerCycle
<1>2. commands' \in Seq({"scan_wifi", "connect_wifi"}) /\ Len(commands') <= CommandDepth
  BY <1>1, OnboardingAssumption
<1>3. CASE record # "absent"
  <2>1. /\ record \in Checkpoints /\ checkpoint' = record /\ UNCHANGED <<secured, record, gates>>
    BY <1>1, <1>3 DEF Load, IInv, OnboardingTypeOK
  <2>2. /\ step' = StepFor(record)
        /\ \/ record = "needs_wifi" \/ record = "needs_ble"
           \/ record = "needs_agent" \/ record = "complete"
    BY <1>1, <1>3, <2>1 DEF Load, Checkpoints
  <2>3. /\ record = "needs_wifi" => step' = "wifi_scan"
        /\ record = "needs_ble" => step' = "ble_pair_guide"
        /\ record = "needs_agent" => step' = "agent_install_guide"
        /\ record = "complete" => step' = "complete"
    BY <2>2 DEF StepFor
  <2> QED
    BY <1>1, <1>2, <1>3, <2>1, <2>2, <2>3
       DEF IInv, OnboardingTypeOK, StepFits, NoRecordYet, GatesMatch, Steps, WifiSteps
<1>4. CASE record = "absent" /\ saved
  <2>1. /\ checkpoint' = "complete" /\ step' = "complete" /\ record' \in {"complete", "absent"}
        /\ UNCHANGED <<secured, gates>> /\ gates = {}
    BY <1>1, <1>4 DEF Load, IInv, NoRecordYet
  <2> QED
    BY <1>1, <1>2, <2>1
       DEF IInv, OnboardingTypeOK, StepFits, NoRecordYet, GatesMatch, Checkpoints, Steps, WifiSteps
<1>5. CASE record = "absent" /\ ~saved
  <2>1. /\ checkpoint' = "needs_wifi" /\ step' = "wifi_scan" /\ UNCHANGED <<secured, record, gates>>
        /\ gates = {}
    BY <1>1, <1>5 DEF Load, IInv, NoRecordYet
  <2> QED
    BY <1>1, <1>2, <1>5, <2>1
       DEF IInv, OnboardingTypeOK, StepFits, NoRecordYet, GatesMatch, Checkpoints, Steps, WifiSteps
<1> QED
  BY <1>3, <1>4, <1>5

\* Every step of the specification keeps the invariant.
LEMMA NextIInv == IInv /\ [Next]_vars => IInv'
<1> SUFFICES ASSUME IInv, [Next]_vars PROVE IInv'
  OBVIOUS
<1>0. /\ OnboardingTypeOK
      /\ commands \in Seq({"scan_wifi", "connect_wifi"}) /\ Len(commands) <= CommandDepth
      /\ editor \in {"none", "hidden_ssid", "password"} /\ secured \in BOOLEAN
  BY DEF IInv, OnboardingTypeOK
<1>1. CASE UserActs
  BY <1>1, ListKeys, GateSteps DEF UserActs
<1>2. CASE UiTakesCommand
  <2>1. commands' \in Seq({"scan_wifi", "connect_wifi"}) /\ Len(commands') <= CommandDepth
    BY <1>0, <1>2, QueueTail DEF UiTakesCommand
  <2> QED
    BY <1>0, <1>2, <2>1, MoveIInv DEF UiTakesCommand
<1>3. CASE ScanFinished
  BY <1>0, <1>3, MoveIInv DEF ScanFinished, MoveTo, WifiSteps
<1>4. CASE WifiActs \/ Rejoins
  BY <1>0, <1>4, MoveIInv
     DEF WifiActs, CandidateJoins, CandidateFails, RollbackEnds, Rejoins, WifiOnly, controllerVars
<1>5. CASE WifiStatusChanged \/ BleChanges \/ Heartbeat
  BY <1>5, GateSteps
<1>6. CASE PowerCycle
  BY <1>6, PowerCycleIInv
<1>7. CASE UNCHANGED vars
  BY <1>0, <1>7, MoveIInv DEF vars, controllerVars
<1> QED
  BY <1>1, <1>2, <1>3, <1>4, <1>5, <1>6, <1>7 DEF Next

\* The inductive invariant holds whatever commits fail, events are lost and cuts of power come.
THEOREM Invariant == Spec => []IInv
<1> QED
  BY InitIInv, NextIInv, PTL DEF Spec

\* Types, and every page belongs to the recorded gate (OnboardingStateMachine).
THEOREM TypeCorrect == Spec => []OnboardingTypeOK
<1>1. IInv => OnboardingTypeOK
  BY DEF IInv
<1> QED
  BY <1>1, Invariant, PTL

\* Under every fault completion is recorded with all gates open or, by the migration of
\* OnboardingStateMachine::load, with none.
THEOREM CompletionAllOrNothing == Spec => []CompletionIsAllOrNothing
<1>1. IInv => CompletionIsAllOrNothing
  BY DEF IInv, GatesMatch, GatesOf, CompletionIsAllOrNothing
<1> QED
  BY <1>1, Invariant, PTL

\* Without lost events, failed commits and cuts of power in between, saved credentials are
\* followed by the status that makes the first record.
QuietInv ==
    /\ record = "absent" => checkpoint = "needs_wifi" /\ (saved => report = "online")
    /\ record # "absent" => gates = GatesOf(record)

LEMMA QuietStep ==
    ASSUME prone \subseteq {"burst"}, IInv, QuietInv, [Next]_vars
    PROVE  QuietInv'
<1>f. ~Fault("commit") /\ ~Fault("power") /\ ~Fault("lock")
  BY DEF Fault
<1>g. /\ GatesOf("needs_wifi") = {} /\ GatesOf("needs_ble") = {"wifi"}
      /\ GatesOf("needs_agent") = {"wifi", "ble"} /\ GatesOf("complete") = {"wifi", "ble", "agent"}
  BY DEF GatesOf
<1>p. /\ step = "ble_pair_guide" => record # "absent" /\ gates = {"wifi"}
      /\ step = "agent_install_guide" => record # "absent" /\ gates = {"wifi", "ble"}
      /\ record = "absent" => step # "complete"
  BY <1>g DEF IInv, OnboardingTypeOK, StepFits, QuietInv
<1>k. ASSUME UNCHANGED <<checkpoint, record, gates, saved, report>> PROVE QuietInv'
  BY <1>k DEF QuietInv
<1>m. \A newStep : MoveTo(newStep) => UNCHANGED <<checkpoint, record, gates>>
  BY DEF MoveTo
<1>1. CASE UserActs
  <2>1. UNCHANGED <<saved, report>>
    BY <1>1 DEF UserActs, PickSecured, PickOpen, Rescan, SsidEntered, PasswordEntered, LeaveEditor,
                BackFromBle, BackFromAgent, Acknowledge, RestartSetup, UnlessKeys, wifiVars
  <2>2. CASE \/ \E hidden \in BOOLEAN : PickSecured(hidden)
             \/ PickOpen \/ Rescan \/ SsidEntered \/ PasswordEntered \/ LeaveEditor \/ Acknowledge
    <3>1. UNCHANGED <<checkpoint, record, gates>>
      BY <2>2, <1>m DEF PickSecured, PickOpen, Rescan, SsidEntered, PasswordEntered, LeaveEditor,
                        Acknowledge, Submit, stateVars
    <3> QED
      BY <2>1, <3>1, <1>k
  <2>3. CASE BackFromBle
    BY <2>3, <1>f, <1>g DEF BackFromBle, Persist, PersistFails, QuietInv
  <2>4. CASE BackFromAgent
    BY <2>4, <1>f, <1>g DEF BackFromAgent, Persist, PersistFails, QuietInv
  <2>5. CASE RestartSetup
    BY <2>5, <1>f, <1>g DEF RestartSetup, Persist, PersistFails, QuietInv
  <2> QED
    BY <1>1, <2>2, <2>3, <2>4, <2>5 DEF UserActs
<1>2. CASE UiTakesCommand
  BY <1>2, <1>k DEF UiTakesCommand, stateVars
<1>3. CASE ScanFinished
  BY <1>3, <1>k, <1>m DEF ScanFinished, stateVars, wifiVars
<1>4. CASE WifiActs \/ Rejoins
  BY <1>4 DEF WifiActs, CandidateJoins, CandidateFails, RollbackEnds, Rejoins, Unreported,
              WifiOnly, stateVars, QuietInv
<1>5. CASE WifiStatusChanged
  <2>1. CASE report = "online" /\ Connected
    BY <1>5, <1>f, <1>g, <2>1
       DEF WifiStatusChanged, Connected, Persist, PersistFails, QuietInv, stateVars
  <2>2. CASE report = "offline"
    <3>1. saved = saved' /\ (record = "absent" => ~saved)
      BY <1>5, <2>2 DEF WifiStatusChanged, QuietInv
    <3>2. UNCHANGED <<checkpoint, record, gates>>
      BY <1>5, <1>m, <2>2 DEF WifiStatusChanged, Disconnected, stateVars
    <3> QED
      BY <3>1, <3>2 DEF QuietInv
  <2>3. CASE ~Active
    BY <1>5, <1>f, <1>p, <2>3 DEF WifiStatusChanged, Active, stateVars, QuietInv
  <2> QED
    BY <1>5, <1>f, <2>1, <2>2, <2>3 DEF WifiStatusChanged
<1>6. CASE BleChanges
  BY <1>6, <1>f, <1>g, <1>p DEF BleChanges, Persist, PersistFails, QuietInv, stateVars, wifiVars
<1>7. CASE Heartbeat
  BY <1>7, <1>f, <1>g, <1>p DEF Heartbeat, Persist, PersistFails, QuietInv, wifiVars
<1>8. CASE PowerCycle
  <2>1. report = "none" /\ UNCHANGED saved /\ Load
    BY <1>8, <1>f DEF PowerCycle, Unreported
  <2>2. record = "absent" => ~saved
    BY <2>1 DEF QuietInv
  <2> QED
    BY <2>1, <2>2 DEF Load, QuietInv
<1>9. CASE UNCHANGED vars
  BY <1>9, <1>k DEF vars, stateVars, wifiVars
<1> QED
  BY <1>1, <1>2, <1>3, <1>4, <1>5, <1>6, <1>7, <1>8, <1>9 DEF Next

\* Completion is recorded only after all three gates, for every queue depth and every order of
\* keys and events, as long as nothing comes between the two commits of the Wi-Fi gate.
THEOREM CompletionAfterGates == Spec => []CompletionNeedsGates
<1> DEFINE Inv == prone \subseteq {"burst"} => QuietInv
<1>1. Init => Inv
  BY DEF Init, QuietInv
<1>2. IInv /\ Inv /\ [Next]_vars => Inv'
  <2>1. [Next]_vars => prone' = prone
    BY DEF Next, vars
  <2> QED
    BY <2>1, QuietStep
<1>3. Inv => CompletionNeedsGates
  BY DEF QuietInv, GatesOf, CompletionNeedsGates, CompletionFollowsGates
<1> QED
  BY <1>1, <1>2, <1>3, Invariant, PTL DEF Spec

\* What a record of completion is worth, with every fault (on_agent_heartbeat and load).
THEOREM CompletionStaysEarned == Spec => []CompletionIsEarned
<1>1. CompletionNeedsGates /\ CompletionIsAllOrNothing => CompletionIsEarned
  BY DEF CompletionIsEarned
<1> QED
  BY CompletionAfterGates, CompletionAllOrNothing, <1>1, PTL

\* A command for a scan stays in the queue when another is added, and the one that leaves the
\* queue starts the scan (process_onboarding_command).
ScanQueued == \E i \in DOMAIN commands : commands[i] = "scan_wifi"

LEMMA QueuedOnAppend ==
    ASSUME OnboardingTypeOK, NEW c \in {"scan_wifi", "connect_wifi"}, commands' = Append(commands, c),
           ScanQueued \/ c = "scan_wifi"
    PROVE  ScanQueued'
<1> DEFINE Q == {"scan_wifi", "connect_wifi"}
<1>1. commands \in Seq(Q)
  BY DEF OnboardingTypeOK
<1>2. /\ Len(commands) \in Nat /\ DOMAIN commands = 1..Len(commands)
      /\ DOMAIN Append(commands, c) = 1..(Len(commands) + 1)
      /\ Append(commands, c)[Len(commands) + 1] = c
      /\ \A i \in 1..Len(commands) : Append(commands, c)[i] = commands[i]
  BY <1>1, SMT
<1>3. CASE c = "scan_wifi"
  <2>1. Len(commands) + 1 \in DOMAIN commands' /\ commands'[Len(commands) + 1] = "scan_wifi"
    BY <1>2, <1>3
  <2> QED
    BY <2>1 DEF ScanQueued
<1>4. CASE ScanQueued
  <2>1. PICK i \in DOMAIN commands : commands[i] = "scan_wifi"
    BY <1>4 DEF ScanQueued
  <2>2. i \in DOMAIN commands' /\ commands'[i] = "scan_wifi"
    BY <1>2, <2>1
  <2> QED
    BY <2>2 DEF ScanQueued
<1> QED
  BY <1>3, <1>4

LEMMA QueuedOnTail ==
    ASSUME OnboardingTypeOK, commands # <<>>, commands' = Tail(commands), ScanQueued
    PROVE  Head(commands) = "scan_wifi" \/ ScanQueued'
<1> DEFINE Q == {"scan_wifi", "connect_wifi"}
<1>1. commands \in Seq(Q)
  BY DEF OnboardingTypeOK
<1>2. PICK i \in DOMAIN commands : commands[i] = "scan_wifi"
  BY DEF ScanQueued
<1>3. CASE i = 1
  BY <1>1, <1>2, <1>3
<1>4. CASE i # 1
  <2>1. i - 1 \in DOMAIN Tail(commands) /\ Tail(commands)[i - 1] = "scan_wifi"
    BY <1>1, <1>2, <1>4, SMT
  <2> QED
    BY <2>1 DEF ScanQueued
<1> QED
  BY <1>3, <1>4

\* Keys that wait for the UI task and events that are not lost keep a scan on its way while the
\* scanning page is shown. The editor plays no part in it: what leaves it open goes elsewhere.
LEMMA ScanStep ==
    ASSUME prone \subseteq {"commit", "power"}, IInv, ScanPageHasScan, [Next]_vars
    PROVE  ScanPageHasScan'
<1> USE DEF ScanPageHasScan
<1>q. ScanPageHasScan <=> (step = "wifi_scan" => scan \/ ScanQueued)
  BY DEF ScanQueued
<1>r. ScanPageHasScan' <=> (step' = "wifi_scan" => scan' \/ ScanQueued')
  BY DEF ScanQueued
<1> USE <1>q, <1>r
<1> HIDE DEF ScanPageHasScan
<1>t. OnboardingTypeOK
  BY DEF IInv
<1>f. ~Fault("burst") /\ ~Fault("lock")
  BY DEF Fault
<1>e. Key => commands = <<>> /\ Len(commands) < CommandDepth
  BY <1>f, OnboardingAssumption DEF Key
<1>k. ASSUME UNCHANGED <<step, scan, commands>> PROVE ScanPageHasScan'
  BY <1>k DEF ScanQueued
<1>a. ASSUME step' # "wifi_scan" PROVE ScanPageHasScan'
  BY <1>a
<1>1. CASE UserActs
  <2>1. CASE \/ \E hidden \in BOOLEAN : PickSecured(hidden)
             \/ PickOpen \/ PasswordEntered \/ LeaveEditor \/ SsidEntered
             \/ BackFromAgent \/ Acknowledge
    <3>1. CASE (\E hidden \in BOOLEAN : PickSecured(hidden)) \/ PickOpen \/ PasswordEntered
      BY <1>a, <3>1 DEF PickSecured, PickOpen, PasswordEntered, Submit, MoveTo
    <3>2. CASE LeaveEditor
      BY <1>a, <1>k, <3>2 DEF LeaveEditor, MoveTo, UnlessKeys, stateVars
    <3>3. CASE SsidEntered
      BY <1>k, <3>3 DEF SsidEntered, UnlessKeys, stateVars
    <3>4. CASE BackFromAgent
      BY <1>a, <3>4 DEF BackFromAgent, Persist, PersistFails, stateVars
    <3>5. CASE Acknowledge
      BY <1>a, <3>5 DEF Acknowledge, MoveTo
    <3> QED
      BY <2>1, <3>1, <3>2, <3>3, <3>4, <3>5
  <2>2. CASE Rescan
    BY <1>e, <1>t, <2>2, QueuedOnAppend DEF Rescan, Submit
  <2>3. CASE BackFromBle
    <3>1. CASE PersistFails
      BY <1>a, <2>3, <3>1 DEF BackFromBle, PersistFails, stateVars
    <3>2. CASE commands' = Append(commands, "scan_wifi")
      BY <1>t, <3>2, QueuedOnAppend
    <3> QED
      BY <1>e, <2>3, <3>1, <3>2 DEF BackFromBle
  <2>4. CASE RestartSetup
    BY <1>k, <2>4 DEF RestartSetup, PersistFails, stateVars
  <2> QED
    BY <1>1, <2>1, <2>2, <2>3, <2>4 DEF UserActs
<1>2. CASE UiTakesCommand
  <2>1. step' = step /\ commands # <<>> /\ commands' = Tail(commands)
    BY <1>2 DEF UiTakesCommand, stateVars
  <2>2. scan' = TRUE \/ (Head(commands) # "scan_wifi" /\ scan' = scan)
    BY <1>2 DEF UiTakesCommand
  <2> QED
    BY <1>t, <2>1, <2>2, QueuedOnTail
<1>3. CASE ScanFinished
  BY <1>a, <1>f, <1>3 DEF ScanFinished, Active, MoveTo, stateVars
<1>4. CASE WifiActs \/ Rejoins
  BY <1>4, <1>k DEF WifiActs, CandidateJoins, CandidateFails, RollbackEnds, Rejoins, WifiOnly,
                    stateVars, controllerVars
<1>5. CASE WifiStatusChanged
  <2>1. UNCHANGED <<scan, commands>>
    BY <1>5 DEF WifiStatusChanged
  <2>2. step' = step \/ step' # "wifi_scan"
    BY <1>5 DEF WifiStatusChanged, Connected, Disconnected, Persist, PersistFails, MoveTo, stateVars
  <2> QED
    BY <1>a, <1>k, <2>1, <2>2
<1>6. CASE BleChanges \/ Heartbeat
  <2>1. UNCHANGED <<scan, commands>>
    BY <1>6 DEF BleChanges, Heartbeat, controllerVars
  <2>2. step' = step \/ step' # "wifi_scan"
    BY <1>6 DEF BleChanges, Heartbeat, Persist, PersistFails, stateVars
  <2> QED
    BY <1>a, <1>k, <2>1, <2>2
<1>7. CASE PowerCycle
  BY <1>a, <1>7 DEF PowerCycle
<1>8. CASE UNCHANGED vars
  BY <1>8, <1>k DEF vars, stateVars, controllerVars
<1> QED
  BY <1>1, <1>2, <1>3, <1>4, <1>5, <1>6, <1>7, <1>8 DEF Next

\* The scanning page is never a dead end (handle_wifi_scan_locked ignores every key), for every
\* queue depth, also after commits that failed and cuts of power.
THEOREM ScanPageIsLeft == Spec => []ScanStepHasScan
<1>1. Init => ScanStepHasScan
  BY DEF Init, ScanStepHasScan, ScanPageHasScan
<1>2. IInv /\ ScanStepHasScan /\ [Next]_vars => ScanStepHasScan'
  <2>1. [Next]_vars => prone' = prone
    BY DEF Next, vars
  <2> QED
    BY <2>1, ScanStep DEF ScanStepHasScan
<1> QED
  BY <1>1, <1>2, Invariant, PTL DEF Spec

-----------------------------------------------------------------------------
(* The wipe at power-up                                                      *)
\* What has been erased by the time the wipe is where it is.
Erased ==
    /\ boot = "names" => \A i \in 1..5 : i < next => Namespaces[i] \notin names
    /\ boot \in {"sectors", "complete"} => names = {}
    /\ boot = "sectors" => \A s \in sectors : next <= s
    /\ boot = "complete" => sectors = {}
    /\ outcome = "complete" => boot = "complete"

WipeInv == RecoveryTypeOK /\ WipeIsChosen /\ WipeKeepsSetupApart /\ Erased

\* The five namespaces, in the order in which reset_companion_data() erases them.
LEMMA NamespacesAre ==
    /\ Len(Namespaces) = 5 /\ DOMAIN Namespaces = 1..5
    /\ Namespaces[1] = "wifi" /\ Namespaces[2] = "product" /\ Namespaces[3] = "product_tls"
    /\ Namespaces[4] = "phase0_id" /\ Namespaces[5] = "nimble_bond"
<1>1. Namespaces \in Seq(AllNames)
  BY DEF Namespaces, AllNames
<1>2. Len(Namespaces) = 5
  BY DEF Namespaces
<1>3. /\ Namespaces[1] = "wifi" /\ Namespaces[2] = "product" /\ Namespaces[3] = "product_tls"
      /\ Namespaces[4] = "phase0_id" /\ Namespaces[5] = "nimble_bond"
  BY DEF Namespaces
<1> QED
  BY <1>1, <1>2, <1>3

\* At the first power-up nothing is stored and nothing was asked.
LEMMA WipeStarts == RecoveryInit => WipeInv
<1> SUFFICES ASSUME RecoveryInit PROVE WipeInv
  OBVIOUS
<1>0. heldFor \in 0..HoldPolls
  BY RecoveryAssumption DEF RecoveryInit
<1>a. /\ boot \in Waiting /\ keys \subseteq RecoveryKeys /\ next \in Nat \ {0} /\ boot # "names"
      /\ names \subseteq AllNames /\ sectors \subseteq AllSectors
  BY DEF RecoveryInit, Waiting
<1>b. outcome \in AllNames \cup {"none", "storage", "complete"} /\ before \subseteq AllNames /\ agreed \in BOOLEAN
  BY DEF RecoveryInit
<1>1. RecoveryTypeOK
  BY <1>0, <1>a, <1>b DEF RecoveryTypeOK
<1>2. WipeIsChosen /\ WipeKeepsSetupApart
  BY DEF RecoveryInit, WipeIsChosen, WipeKeepsSetupApart
<1>3. boot = "start" /\ outcome = "none"
  BY DEF RecoveryInit
<1>4. Erased
  BY <1>3 DEF Erased
<1> QED
  BY <1>1, <1>2, <1>4 DEF WipeInv

\* A namespace is erased, or the wipe stops at it, before or after it was.
LEMMA WipeErasesName == WipeInv /\ EraseNamespace => WipeInv'
<1> SUFFICES ASSUME WipeInv, EraseNamespace PROVE WipeInv'
  OBVIOUS
<1> DEFINE name == Namespaces[next]
<1>1. next \in 1..5 /\ boot = "names" /\ agreed /\ name \in AllNames
  BY NamespacesAre DEF WipeInv, RecoveryTypeOK, WipeIsChosen, EraseNamespace, AllNames
<1>2. names' \subseteq names /\ (name \notin names' \/ names' = names) /\ UNCHANGED <<before, agreed, keys, heldFor, sectors>>
  BY DEF EraseNamespace, Stops, askVars
<1>3. \/ /\ name \notin names' /\ outcome' = outcome
         /\ \/ next = 5 /\ boot' = "sectors" /\ next' = 1
            \/ next # 5 /\ boot' = "names" /\ next' = next + 1
      \/ boot' = "failed" /\ outcome' = name /\ next' = next
  BY <1>1, NamespacesAre DEF EraseNamespace, Stops, askVars
<1>4. \A x \in names \ names' : x = name
  BY DEF EraseNamespace
<1>5. RecoveryTypeOK'
  BY <1>1, <1>2, <1>3, NamespacesAre DEF WipeInv, RecoveryTypeOK, Waiting, AllNames
<1>6. WipeIsChosen'
  BY <1>1, <1>2 DEF WipeIsChosen
<1>7. WipeKeepsSetupApart'
  <2>1. CASE name = "product"
    <3>1. next = 2
      BY <1>1, <2>1, NamespacesAre
    <3> QED
      BY <1>1, <1>2, <3>1, NamespacesAre DEF WipeInv, Erased, WipeKeepsSetupApart
  <2>2. CASE name # "product"
    BY <1>2, <1>4, <2>2 DEF WipeInv, WipeKeepsSetupApart
  <2> QED
    BY <2>1, <2>2
<1>8. outcome # "complete" /\ name # "complete"
  BY <1>1 DEF WipeInv, Erased, AllNames
<1>9. \A i \in 1..5 : i < next => Namespaces[i] \notin names
  BY <1>1 DEF WipeInv, Erased
<1>10. Erased'
  <2>1. CASE boot' = "sectors"
    <3>1. names' = {}
      <4>1. next = 5
        BY <1>3, <2>1
      <4> QED
        BY <1>2, <1>3, <1>9, <2>1, <4>1, NamespacesAre DEF WipeInv, RecoveryTypeOK, AllNames
    <3> QED
      BY <1>3, <1>8, <2>1, <1>2, <3>1 DEF Erased, WipeInv, RecoveryTypeOK, AllSectors
  <2>2. CASE boot' = "names"
    <3>1. \A i \in 1..5 : i < next' => Namespaces[i] \notin names'
      BY <1>1, <1>2, <1>3, <1>9, <2>2
    <3> QED
      BY <1>3, <1>8, <2>2, <3>1 DEF Erased
  <2>3. CASE boot' = "failed"
    BY <1>3, <1>8, <2>3 DEF Erased
  <2> QED
    BY <1>3, <2>1, <2>2, <2>3
<1> QED
  BY <1>5, <1>6, <1>7, <1>10 DEF WipeInv

\* So is a sector; after the last one nothing is left.
LEMMA WipeErasesSector == WipeInv /\ EraseSector => WipeInv'
<1> SUFFICES ASSUME WipeInv, EraseSector PROVE WipeInv'
  OBVIOUS
<1>1. /\ boot = "sectors" /\ agreed /\ names = {} /\ names' = {} /\ next \in Nat \ {0}
      /\ sectors \subseteq 1..Sectors /\ \A s \in sectors : next <= s
      /\ UNCHANGED <<before, agreed, keys, heldFor>>
      /\ outcome # "complete" /\ Sectors \in Nat
  BY RecoveryAssumption
     DEF WipeInv, RecoveryTypeOK, WipeIsChosen, Erased, EraseSector, Stops, askVars, AllSectors
<1>2. WipeKeepsSetupApart'
  BY <1>1 DEF WipeKeepsSetupApart
<1>3. WipeIsChosen'
  BY <1>1 DEF WipeIsChosen
<1>4. CASE /\ next > Sectors /\ boot' = "complete" /\ outcome' = "complete"
           /\ UNCHANGED <<sectors, askVars, next, before, agreed>>
  <2>1. sectors = {}
    BY <1>1, <1>4
  <2> QED
    BY <1>1, <1>2, <1>3, <1>4, <2>1 DEF WipeInv, RecoveryTypeOK, Erased
<1>5. CASE /\ sectors' = sectors \ {next} /\ next' = next + 1
           /\ UNCHANGED <<boot, askVars, outcome, before, agreed>>
  <2>1. \A s \in sectors' : next' <= s
    BY <1>1, <1>5
  <2> QED
    BY <1>1, <1>2, <1>3, <1>5, <2>1 DEF WipeInv, RecoveryTypeOK, Erased, AllSectors
<1>6. CASE sectors' \in {sectors, sectors \ {next}} /\ Stops("storage")
  BY <1>1, <1>2, <1>3, <1>6 DEF WipeInv, RecoveryTypeOK, Erased, AllSectors, Stops, askVars
<1> QED
  BY <1>4, <1>5, <1>6 DEF EraseSector

\* What happens while the user is asked erases nothing, and a wipe begins with an answer.
LEMMA WipeWaits ==
    WipeInv /\ (KeyMoves \/ LooksForBackspace \/ HoldPoll \/ HoldLook \/ AllReleased \/ Chooses) => WipeInv'
<1> SUFFICES ASSUME WipeInv,
                    KeyMoves \/ LooksForBackspace \/ HoldPoll \/ HoldLook \/ AllReleased \/ Chooses
             PROVE  WipeInv'
  OBVIOUS
<1>1. /\ boot \in Waiting /\ boot' \in Waiting \cup {"up", "names"}
      /\ UNCHANGED <<names, sectors, outcome>> /\ before' \in {before, names}
      /\ boot' \in {"names"} => agreed' /\ next' = 1
      /\ boot' # "names" => next' = next /\ agreed' = agreed
      /\ keys' \subseteq RecoveryKeys /\ agreed' \in BOOLEAN
  BY DEF WipeInv, RecoveryTypeOK, KeyMoves, LooksForBackspace, HoldPoll, HoldLook, AllReleased, Chooses,
         Goes, askVars, flashVars, Waiting
<1>2. heldFor' \in 0..HoldPolls
  BY RecoveryAssumption
     DEF WipeInv, RecoveryTypeOK, KeyMoves, LooksForBackspace, HoldPoll, HoldLook, AllReleased, Chooses,
         Goes, askVars, flashVars, Waiting
<1>3. RecoveryTypeOK'
  BY <1>1, <1>2, NamespacesAre DEF WipeInv, RecoveryTypeOK, Waiting
<1>4. Erased'
  <2>1. outcome # "complete"
    BY <1>1 DEF WipeInv, Erased, Waiting
  <2>2. boot' \notin {"sectors", "complete"}
    BY <1>1 DEF Waiting
  <2>3. boot' = "names" => \A i \in 1..5 : ~(i < next')
    BY <1>1
  <2> QED
    BY <1>1, <2>1, <2>2, <2>3 DEF Erased
<1> QED
  BY <1>1, <1>3, <1>4 DEF WipeInv, WipeIsChosen, WipeKeepsSetupApart, Waiting

\* No step of the device, in recovery, at a restart or in use, takes the invariant away.
LEMMA WipeStep == WipeInv /\ [BootNext]_bootVars => WipeInv'
<1> SUFFICES ASSUME WipeInv, [BootNext]_bootVars PROVE WipeInv'
  OBVIOUS
<1>1. CASE RecoveryStep
  BY <1>1, WipeErasesName, WipeErasesSector, WipeWaits DEF RecoveryStep
<1>2. CASE Starts
  <2>0. heldFor' \in 0..HoldPolls
    BY <1>2, RecoveryAssumption DEF Starts
  <2>a. /\ boot' \in Waiting /\ keys' \subseteq RecoveryKeys /\ next' \in Nat \ {0} /\ boot' # "names"
        /\ UNCHANGED <<names, sectors, before>>
    BY <1>2 DEF Starts, flashVars, Waiting
  <2>b. outcome' \in AllNames \cup {"none", "storage", "complete"} /\ agreed' \in BOOLEAN
    BY <1>2 DEF Starts
  <2>1. RecoveryTypeOK'
    BY <2>0, <2>a, <2>b DEF WipeInv, RecoveryTypeOK
  <2>2. WipeIsChosen' /\ WipeKeepsSetupApart'
    BY <1>2 DEF WipeInv, Starts, WipeIsChosen, WipeKeepsSetupApart, flashVars
  <2>3. boot' = "start" /\ outcome' = "none"
    BY <1>2 DEF Starts
  <2>4. Erased'
    BY <2>3 DEF Erased
  <2> QED
    BY <2>1, <2>2, <2>4 DEF WipeInv
<1>3. CASE StoresSector
  BY <1>3 DEF WipeInv, StoresSector, RecoveryTypeOK, WipeIsChosen, WipeKeepsSetupApart, Erased, askVars, Waiting
<1>4. ASSUME NEW name \in AllNames, Stores(name) PROVE WipeInv'
  BY <1>4 DEF WipeInv, Stores, RecoveryTypeOK, WipeIsChosen, WipeKeepsSetupApart, Erased, askVars, Waiting
<1>5. CASE UNCHANGED recoveryVars
  BY <1>5 DEF WipeInv, RecoveryTypeOK, WipeIsChosen, WipeKeepsSetupApart, Erased, askVars, flashVars, recoveryVars
<1>6. CASE InUse
  <2>1. UNCHANGED recoveryVars \/ Stores("product")
    BY <1>6 DEF InUse, MenuChanges, MenuConfirms, UiApplies, WebReads, WebCommits, CommitOf, CommitFails, Up
  <2> QED
    BY <1>4, <1>5, <2>1 DEF AllNames
<1> QED
  BY <1>1, <1>2, <1>3, <1>4, <1>5, <1>6, RecoveryAssumption
     DEF BootNext, Recovers, StartsAgain, OthersStore, bootVars

\* For any flash and any number of polls, a wipe begins only after an answer, never takes the record of
\* the setup from credentials it leaves, and says "complete" of a device that holds nothing, with commands
\* that fail and power that is cut anywhere (product_boot_recovery, reset_companion_data).
THEOREM WipeStaysHonest == BootSpec => []WipeIsHonest
<1>1. BootInit => WipeInv
  BY WipeStarts DEF BootInit
<1>2. WipeInv => WipeIsHonest
  BY DEF WipeInv, WipeIsHonest, CompleteIsBlank, Erased
<1> QED
  BY <1>1, <1>2, WipeStep, PTL DEF BootSpec

-----------------------------------------------------------------------------
(* The settings                                                              *)
\* Whatever may be committed is a record of settings, which Nothing is not.
SettingsTypes ==
    /\ current \in Settings /\ menuCopy \in Settings /\ confirmed \in Seq(Settings)
    /\ nvsRecord \in Settings \cup {Nothing} /\ webDraft \in Settings \cup {Nothing}

SettingsInv == SettingsTypes /\ StoreMatchesRecord /\ RecordHasNamespace

\* No record is unlike every record (decode_device_settings).
LEMMA SettingsAreSome == Defaults \in Settings /\ Nothing \notin Settings
BY SettingsAssumption DEF Settings, Defaults, Nothing

\* A commit, also one that fails after it wrote.
LEMMA CommitKeeps ==
    ASSUME SettingsInv, NEW settings \in Settings, CommitOf(settings) \/ CommitFails(settings),
           menuCopy' = menuCopy, confirmed' \in Seq(Settings), webDraft' \in Settings \cup {Nothing}
    PROVE  SettingsInv'
<1>1. CASE CommitOf(settings)
  <2>1. nvsRecord' = settings /\ current' = settings /\ "product" \in names'
    BY <1>1 DEF CommitOf, Stores
  <2> QED
    BY <2>1, SettingsAreSome DEF SettingsInv, SettingsTypes, StoreMatchesRecord, RecordHasNamespace
<1>2. CASE CommitFails(settings)
  <2>1. CASE Up /\ UNCHANGED <<nvsRecord, torn>>
    BY <1>2, <2>1 DEF CommitFails, Up, recoveryVars, flashVars, SettingsInv, SettingsTypes,
                      StoreMatchesRecord, RecordHasNamespace
  <2>2. CASE Stores("product") /\ nvsRecord' = settings /\ torn' = TRUE
    BY <1>2, <2>2 DEF CommitFails, Stores, SettingsInv, SettingsTypes, StoreMatchesRecord, RecordHasNamespace
  <2> QED
    BY <1>2, <2>1, <2>2 DEF CommitFails
<1> QED
  BY <1>1, <1>2

\* What is read at the start is what the wipe left.
LEMMA RecoveryKeepsSettings == SettingsInv /\ Recovers => SettingsInv'
<1> SUFFICES ASSUME SettingsInv, Recovers PROVE SettingsInv'
  OBVIOUS
<1>1. CASE boot' = "up"
  <2>1. Loads
    BY <1>1 DEF Recovers
  <2>2. names' = names
    BY <1>1 DEF Recovers, RecoveryStep, KeyMoves, LooksForBackspace, HoldPoll, HoldLook, AllReleased, Chooses,
                EraseNamespace, EraseSector, Stops, Goes, flashVars, Waiting
  <2> QED
    BY <2>1, <2>2, SettingsAreSome
       DEF Loads, SettingsInv, SettingsTypes, StoreMatchesRecord, RecordHasNamespace
<1>2. CASE boot' # "up"
  BY <1>2 DEF Recovers, copyVars, SettingsInv, SettingsTypes, StoreMatchesRecord, RecordHasNamespace
<1> QED
  BY <1>1, <1>2

\* The rows of the menu, the command that commits them, and the page that sets the chord.
LEMMA UseKeepsSettings == SettingsInv /\ InUse => SettingsInv'
<1> SUFFICES ASSUME SettingsInv, InUse PROVE SettingsInv'
  OBVIOUS
<1>1. CASE MenuChanges
  <2>1. PICK turn \in {1, DisplayChoices - 1} :
          menuCopy' = [menuCopy EXCEPT !.display = (menuCopy.display + turn) % DisplayChoices]
    BY <1>1 DEF MenuChanges
  <2>2. menuCopy.display \in Nat /\ turn \in Nat /\ DisplayChoices \in Nat \ {0}
    BY SettingsAssumption DEF SettingsInv, SettingsTypes, Settings
  <2>3. (menuCopy.display + turn) % DisplayChoices \in 0..(DisplayChoices - 1)
    BY <2>2
  <2>4. menuCopy' \in Settings
    BY <2>1, <2>3 DEF SettingsInv, SettingsTypes, Settings
  <2> QED
    BY <1>1, <2>4 DEF MenuChanges, Up, recoveryVars, flashVars, SettingsInv, SettingsTypes,
                      StoreMatchesRecord, RecordHasNamespace
<1>2. CASE MenuConfirms
  BY <1>2 DEF MenuConfirms, Up, recoveryVars, flashVars, copyVars, SettingsInv, SettingsTypes,
              StoreMatchesRecord, RecordHasNamespace
<1>3. CASE UiApplies
  <2>1. Head(confirmed) \in Settings /\ confirmed' \in Seq(Settings)
    BY <1>3 DEF UiApplies, SettingsInv, SettingsTypes
  <2> QED
    BY <1>3, <2>1, CommitKeeps DEF UiApplies, SettingsInv, SettingsTypes
<1>4. CASE WebReads
  <2>1. webDraft' \in Settings
    BY <1>4 DEF WebReads, SettingsInv, SettingsTypes, Settings
  <2> QED
    BY <1>4, <2>1 DEF WebReads, Up, recoveryVars, flashVars, copyVars, SettingsInv, SettingsTypes,
                      StoreMatchesRecord, RecordHasNamespace
<1>5. CASE WebCommits
  BY <1>5, CommitKeeps DEF WebCommits, SettingsInv, SettingsTypes
<1> QED
  BY <1>1, <1>2, <1>3, <1>4, <1>5 DEF InUse

\* A restart takes the copies, others that write to the flash take nothing.
LEMMA SettingsStep == SettingsInv /\ [BootNext]_bootVars => SettingsInv'
<1> SUFFICES ASSUME SettingsInv, [BootNext]_bootVars PROVE SettingsInv'
  OBVIOUS
<1>1. CASE StartsAgain
  BY <1>1, SettingsAreSome DEF StartsAgain, Starts, RamIsNew, flashVars, SettingsInv, SettingsTypes,
                               StoreMatchesRecord, RecordHasNamespace
<1>2. CASE OthersStore
  <2>1. names \subseteq names' /\ boot' = boot
    BY <1>2 DEF OthersStore, StoresSector, Stores
  <2> QED
    BY <1>2, <2>1 DEF OthersStore, settingsVars, copyVars, SettingsInv, SettingsTypes,
                      StoreMatchesRecord, RecordHasNamespace
<1>3. CASE UNCHANGED bootVars
  BY <1>3 DEF bootVars, recoveryVars, flashVars, settingsVars, copyVars, SettingsInv, SettingsTypes,
              StoreMatchesRecord, RecordHasNamespace
<1> QED
  BY <1>1, <1>2, <1>3, RecoveryKeepsSettings, UseKeepsSettings DEF BootNext

\* For any choices, chords and depth of the queue, what the firmware takes its settings to be is what the
\* next start will read, and a wipe takes them, until a commit fails after it wrote (DeviceSettingsStore).
THEOREM SettingsAlwaysSurvive == BootSpec => []SettingsSurvive
<1>1. BootInit => SettingsInv
  BY SettingsAreSome DEF BootInit, RecoveryInit, SettingsInv, SettingsTypes, StoreMatchesRecord, RecordHasNamespace
<1>2. SettingsInv => SettingsSurvive
  BY DEF SettingsInv, SettingsSurvive
<1> QED
  BY <1>1, <1>2, SettingsStep, PTL DEF BootSpec

-----------------------------------------------------------------------------
(* What is on the display                                                    *)
\* A page that need not be drawn is the one on the display; the pet's revision says so on every
\* page, for the display may still have the pet when its page is turned back to.
FreshInv ==
    /\ ~petDirty => screen = [page |-> "pet", current |-> TRUE]
    /\ page # "pet" /\ ~dirty => screen = [page |-> page, current |-> TRUE]

\* A page that is drawn otherwise has got a new revision.
Noticed ==
    /\ ~petDirty' => ~petDirty /\ Drawing("pet")' = Drawing("pet")
    /\ page' # "pet" /\ ~dirty' => page' = page /\ ~dirty /\ Drawing(page)' = Drawing(page)

\* The display is current as long as what changes a page is noticed.
LEMMA FreshKept == FreshInv /\ Noticed /\ Fades => FreshInv'
<1> SUFFICES ASSUME FreshInv, Noticed, Fades PROVE FreshInv'
  OBVIOUS
<1>1. ASSUME NEW p, screen = [page |-> p, current |-> TRUE], Drawing(p)' = Drawing(p)
      PROVE  screen' = [page |-> p, current |-> TRUE]
  BY <1>1 DEF Fades
<1> QED
  BY <1>1 DEF FreshInv, Noticed

\* Nothing that is drawn has changed.
LEMMA SameIsNoticed == UNCHANGED <<page, offset, chrome, codex, age, rows, dirty, petDirty>> => Noticed
BY DEF Noticed, Drawing

\* New rows of the menu come with a new revision (set_settings_content).
LEMMA PushIsNoticed == \A given, m : PushesAfter(given, m) => Noticed
<1> SUFFICES ASSUME NEW given, NEW m, PushesAfter(given, m) PROVE Noticed
  OBVIOUS
<1>1. UNCHANGED <<page, chrome, codex, age>> /\ (petDirty => petDirty')
  BY DEF PushesAfter, Bumps
<1>2. Drawing("pet")' = Drawing("pet")
  BY <1>1 DEF Drawing
<1>3. ~dirty' => ~dirty /\ UNCHANGED <<offset, rows>>
  BY DEF PushesAfter, Bumps
<1>4. UNCHANGED <<page, chrome, codex, age, offset, rows>> => Drawing(page)' = Drawing(page)
  BY DEF Drawing
<1> QED
  BY <1>1, <1>2, <1>3, <1>4 DEF Noticed

\* The way back to the pet (return_to_pet), whose page has no rows and no offset.
LEMMA ReturnIsNoticed == ReturnsToPet => Noticed
<1> SUFFICES ASSUME ReturnsToPet PROVE Noticed
  OBVIOUS
<1>1. page' = "pet" /\ chrome' = chrome /\ (petDirty => petDirty')
  BY DEF ReturnsToPet, Bumps
<1>2. Drawing("pet")' = Drawing("pet")
  BY <1>1 DEF Drawing
<1> QED
  BY <1>1, <1>2 DEF Noticed

\* Another page (navigate).
LEMMA TurnIsNoticed == \A turn : TurnsPage(turn) => Noticed
<1> SUFFICES ASSUME NEW turn, TurnsPage(turn) PROVE Noticed
  OBVIOUS
<1>1. dirty' /\ (petDirty => petDirty') /\ chrome' = chrome
  BY DEF TurnsPage, Bumps
<1>2. Drawing("pet")' = Drawing("pet")
  BY <1>1 DEF Drawing
<1> QED
  BY <1>1, <1>2 DEF Noticed

\* Another row of the page (navigate).
LEMMA ScrollIsNoticed == Scrolls => Noticed
<1> SUFFICES ASSUME Scrolls PROVE Noticed
  OBVIOUS
<1>1. UNCHANGED <<page, chrome, codex, age, rows>> /\ (petDirty => petDirty')
  BY DEF Scrolls, Bumps
<1>2. Drawing("pet")' = Drawing("pet")
  BY <1>1 DEF Drawing
<1>3. ~dirty' => ~dirty /\ offset' = offset
  BY DEF Scrolls, Bumps
<1>4. UNCHANGED <<page, chrome, codex, age, offset, rows>> => Drawing(page)' = Drawing(page)
  BY DEF Drawing
<1> QED
  BY <1>1, <1>2, <1>3, <1>4 DEF Noticed

\* The setters; an age counts only on the page that shows it.
LEMMA ContentIsNoticed == ContentsChange => Noticed
<1>1. CASE ChromeChanges
  BY <1>1 DEF ChromeChanges, Bumps, Noticed
<1>2. CASE CodexChanges
  <2>1. dirty' /\ (petDirty => petDirty') /\ chrome' = chrome
    BY <1>2 DEF CodexChanges, Bumps
  <2>2. Drawing("pet")' = Drawing("pet")
    BY <2>1 DEF Drawing
  <2> QED
    BY <2>1, <2>2 DEF Noticed
<1>3. CASE AgeChanges
  <2>1. UNCHANGED <<page, offset, chrome, codex, rows>> /\ (petDirty => petDirty')
    BY <1>3 DEF AgeChanges, Bumps
  <2>2. Drawing("pet")' = Drawing("pet")
    BY <2>1 DEF Drawing
  <2>3. ~dirty' => ~dirty /\ page # "sync_status"
    BY <1>3 DEF AgeChanges, Bumps
  <2>4. page # "sync_status" => Drawing(page)' = Drawing(page)
    BY <2>1 DEF Drawing
  <2> QED
    BY <2>1, <2>2, <2>3, <2>4 DEF Noticed
<1> QED
  BY <1>1, <1>2, <1>3 DEF ContentsChange

\* Whatever a key does (keyboard_event).
LEMMA KeyIsNoticed == KeyEnds => Noticed
<1>1. CASE \E k \in MenuKeys, digit \in Digits : MenuKey(k, digit)
  BY <1>1, PushIsNoticed DEF MenuKey
<1>2. CASE \E k \in MenuKeys : MenuPasses(k)
  BY <1>2, PushIsNoticed, SameIsNoticed DEF MenuPasses, Pushes, modelVars
<1>3. CASE OtherKey
  BY <1>3, SameIsNoticed DEF OtherKey, modelVars
<1> QED
  BY <1>1, <1>2, <1>3, ReturnIsNoticed, ScrollIsNoticed, TurnIsNoticed DEF KeyEnds, Backtick

\* Whatever the UI task and the end of a scan do.
LEMMA TaskIsNoticed == UiTask \/ ScanFinishes \/ KeyIsOvertaken => Noticed
<1>1. CASE OrderEnds \/ ScanFinishes
  BY <1>1, PushIsNoticed DEF OrderEnds, ScanFinishes, Pushes
<1>2. CASE TakesOrder \/ ScanStarts \/ TimerFires \/ Leaves \/ KeyIsOvertaken
  BY <1>2, SameIsNoticed DEF TakesOrder, ScanStarts, TimerFires, Leaves, KeyIsOvertaken, modelVars
<1> QED
  BY <1>1, <1>2, ReturnIsNoticed DEF UiTask, ReturnsByTimer

\* Drawing the page makes it current, and no other step takes that away unnoticed.
LEMMA FreshStep == FreshInv /\ [UiNext]_uiVars => FreshInv'
<1> SUFFICES ASSUME FreshInv, [UiNext]_uiVars PROVE FreshInv'
  OBVIOUS
<1>1. CASE Renders
  BY <1>1 DEF Renders, FreshInv
<1>2. CASE UNCHANGED uiVars
  BY <1>2 DEF uiVars, modelVars, FreshInv
<1> QED
  BY <1>1, <1>2, KeyIsNoticed, TaskIsNoticed, ContentIsNoticed, FreshKept DEF UiNext

\* A page whose revision says "drawn" is the one on the display, as it would be drawn now, for any
\* contents, keys and commands (UiModel::revision, pet_revision, ui_task).
THEOREM ScreenStaysFresh == UiSpec => []ScreenIsFresh
<1>1. UiInit => FreshInv
  BY DEF UiInit, FreshInv
<1>2. FreshInv => ScreenIsFresh
  BY DEF FreshInv, ScreenIsFresh
<1> QED
  BY <1>1, <1>2, FreshStep, PTL DEF UiSpec

-----------------------------------------------------------------------------
(* The menu, its editors and its page                                        *)
Menus ==
    [interaction : Interactions, editor : Editors, screen : Screens, selected : Nat, scroll : Nat,
     rootSelected : Nat, rootScroll : Nat, text : Texts, pin : Texts, ssid : Networks,
     profiles : Nat, networks : Networks]

\* A row and the first of the visible ones, in a list.
Shows(row, first, count) == row < count /\ first <= row /\ row < first + Visible

\* The row the root list goes back to can be seen there.
RootRow(m) == Shows(m.rootSelected, m.rootScroll, MenuItems)

\* So can the row that is selected, while the user chooses one.
Row(m) == m.interaction = "browse" => RowIsVisible(m)

\* What is being typed is of the editor that shows it and, if a password, of the network it is for; a
\* PIN that is asked for again was typed in the first of its editors.
Typing(m) ==
    Editing(m) =>
        /\ m.editor # "none"
        /\ TypedAs(m.text, m.editor)
        /\ m.editor = "pin_confirm" => TypedAs(m.pin, "pin_first") /\ Len(m.pin) = PinDigits
        /\ m.editor = "password" => \A i \in DOMAIN m.text : m.text[i].network = m.ssid

MenuInv(m) == m \in Menus /\ RootRow(m) /\ Row(m) /\ Typing(m)

\* The length of the list the menu is in.
LEMMA ItemCounts ==
    ASSUME NEW m \in Menus
    PROVE  /\ m.screen = "root" => ItemCount(m) = 8
           /\ m.screen = "profiles" => ItemCount(m) = m.profiles
           /\ m.screen = "wifi" => ItemCount(m) = m.networks
           /\ ItemCount(m) \in Nat
<1>1. m.screen = "root" => ItemCount(m) = 8
  BY DEF ItemCount, MenuItems
<1>2. m.screen = "profiles" => ItemCount(m) = m.profiles
  BY DEF ItemCount
<1>3. m.screen = "wifi" => ItemCount(m) = m.networks
  BY DEF ItemCount
<1>4. m.networks \in Nat /\ m.profiles \in Nat
  BY MenuAssumption DEF Menus, Networks, Typed
<1> QED
  BY <1>1, <1>2, <1>3, <1>4 DEF Menus, Screens

\* An editor may be empty, and no network chosen.
LEMMA EmptyText == <<>> \in Texts /\ 0 \in Networks
BY MenuAssumption DEF Texts, Networks, Typed

\* The menu of a new start.
LEMMA BootMenuInv == MenuInv(BootMenu)
<1>1. BootMenu \in Menus
  BY EmptyText DEF BootMenu, Menus, Interactions, Editors, Screens
<1>2. BootMenu.interaction = "inactive" /\ BootMenu.rootSelected = 0 /\ BootMenu.rootScroll = 0
  BY DEF BootMenu
<1> QED
  BY <1>1, <1>2 DEF MenuInv, RootRow, Row, Typing, Editing, Shows, MenuItems, Visible

\* A change that begins no editing and leaves the text alone.
LEMMA EnterInv == ASSUME NEW m, MenuInv(m) PROVE MenuInv(MenuEnter(m)) /\ MenuEnter(m).interaction = "browse" /\ MenuEnter(m).scroll = 0
<1> DEFINE n == MenuEnter(m)
<1>1. n \in Menus
  BY DEF MenuInv, MenuEnter, Menus, Interactions, Editors, Screens
<1>2. /\ n.interaction = "browse" /\ n.screen = "root" /\ n.selected = 0 /\ n.scroll = 0
      /\ n.rootSelected = 0 /\ n.rootScroll = 0
  BY DEF MenuInv, MenuEnter, Menus
<1>3. ItemCount(n) = 8
  BY <1>1, <1>2, ItemCounts
<1> QED
  BY <1>1, <1>2, <1>3 DEF MenuInv, RootRow, Row, RowIsVisible, Typing, Editing, Shows, MenuItems, Visible

\* Back to the root list, where it was left.
LEMMA ToRootInv ==
    ASSUME NEW m, MenuInv(m), m.interaction # "text_edit", m.interaction # "confirm"
    PROVE  MenuInv(ToRoot(m)) /\ ToRoot(m).interaction = m.interaction
<1> DEFINE n == ToRoot(m)
<1>1. n \in Menus
  BY DEF MenuInv, ToRoot, Menus, Screens
<1>2. /\ n.interaction = m.interaction /\ n.screen = "root" /\ n.selected = m.rootSelected
      /\ n.scroll = m.rootScroll /\ n.rootSelected = m.rootSelected /\ n.rootScroll = m.rootScroll
  BY DEF MenuInv, ToRoot, Menus
<1>3. ItemCount(n) = 8
  BY <1>1, <1>2, ItemCounts
<1> QED
  BY <1>1, <1>2, <1>3 DEF MenuInv, RootRow, Row, RowIsVisible, Typing, Editing, Shows, MenuItems

\* leave(): nothing that was typed is kept.
LEMMA LeaveInv ==
    ASSUME NEW m, MenuInv(m)
    PROVE  MenuInv(MenuLeave(m)) /\ MenuLeave(m).interaction = "inactive"
<1> DEFINE n == MenuLeave(m)
<1>1. n \in Menus
  BY EmptyText DEF MenuInv, MenuLeave, ToRoot, Menus, Screens, Interactions, Editors
<1>2. n.interaction = "inactive" /\ n.rootSelected = m.rootSelected /\ n.rootScroll = m.rootScroll
  BY DEF MenuInv, MenuLeave, ToRoot, Menus
<1> QED
  BY <1>1, <1>2 DEF MenuInv, RootRow, Row, Typing, Editing

\* set_result()
LEMMA ResultInv ==
    ASSUME NEW m, MenuInv(m)
    PROVE  MenuInv(SetResult(m)) /\ SetResult(m).interaction = "result"
<1> DEFINE n == SetResult(m)
<1>1. n \in Menus
  BY DEF MenuInv, SetResult, Menus, Interactions
<1>2. n.interaction = "result" /\ n.rootSelected = m.rootSelected /\ n.rootScroll = m.rootScroll
  BY DEF MenuInv, SetResult, Menus
<1> QED
  BY <1>1, <1>2 DEF MenuInv, RootRow, Row, Typing, Editing

\* A command that is asked for; what was typed for it is still there.
LEMMA AskInv ==
    ASSUME NEW m, MenuInv(m), NEW command
    PROVE  /\ MenuInv(Asks(m, command).menu) /\ Asks(m, command).menu.interaction = "applying"
           /\ Asks(m, command).command = command
           /\ Asks(m, command).menu.pin = m.pin /\ Asks(m, command).menu.text = m.text
           /\ Asks(m, command).menu.ssid = m.ssid
<1> DEFINE n == [m EXCEPT !.interaction = "applying"]
<1>0. Asks(m, command) = [menu |-> n, command |-> command]
  BY DEF Asks
<1>1. n \in Menus
  BY DEF MenuInv, Menus, Interactions
<1>2. /\ n.interaction = "applying" /\ n.rootSelected = m.rootSelected /\ n.rootScroll = m.rootScroll
      /\ n.pin = m.pin /\ n.text = m.text /\ n.ssid = m.ssid
  BY DEF MenuInv, Menus
<1>3. MenuInv(n)
  BY <1>1, <1>2 DEF MenuInv, RootRow, Row, Typing, Editing
<1>4. Asks(m, command).menu = n /\ Asks(m, command).command = command
  BY <1>0
<1> HIDE DEF n
<1> QED
  BY <1>2, <1>3, <1>4

\* set_profile_choices(), in the root list.
LEMMA ProfilesInv ==
    ASSUME NEW m, MenuInv(m), m.screen = "root", NEW count \in Nat
    PROVE  /\ MenuInv(SetProfileChoices(m, count)) /\ SetProfileChoices(m, count).scroll = m.scroll
           /\ SetProfileChoices(m, count).interaction = m.interaction
<1> DEFINE n == SetProfileChoices(m, count)
<1>1. n \in Menus
  BY MenuAssumption DEF MenuInv, SetProfileChoices, Menus
<1>2. /\ n.interaction = m.interaction /\ n.screen = "root" /\ n.selected = m.selected /\ n.scroll = m.scroll
      /\ n.rootSelected = m.rootSelected /\ n.rootScroll = m.rootScroll
      /\ n.editor = m.editor /\ n.text = m.text /\ n.pin = m.pin /\ n.ssid = m.ssid
  BY DEF MenuInv, SetProfileChoices, Menus
<1>3. ItemCount(n) = 8 /\ ItemCount(m) = 8
  BY <1>1, <1>2, ItemCounts DEF MenuInv
<1> QED
  BY <1>1, <1>2, <1>3 DEF MenuInv, RootRow, Row, RowIsVisible, Typing, Editing

\* set_wifi_choices(), whatever the user is doing.
LEMMA NetworksInv ==
    ASSUME NEW m, MenuInv(m), NEW count \in Nat
    PROVE  /\ MenuInv(SetWifiChoices(m, count)) /\ SetWifiChoices(m, count).scroll = 0
           /\ SetWifiChoices(m, count).interaction = "browse"
<1> DEFINE n == SetWifiChoices(m, count)
           c == (IF count < MaxNetworks THEN count ELSE MaxNetworks) + 1
<1>0. c \in Networks /\ c > 0
  BY MenuAssumption DEF Networks, Typed
<1>1. n \in Menus
  BY <1>0 DEF MenuInv, SetWifiChoices, Menus, Screens, Interactions
<1>2. /\ n.interaction = "browse" /\ n.screen = "wifi" /\ n.selected = 0 /\ n.scroll = 0 /\ n.networks = c
      /\ n.rootSelected = m.rootSelected /\ n.rootScroll = m.rootScroll
  BY DEF MenuInv, SetWifiChoices, Menus
<1>3. ItemCount(n) = c
  BY <1>1, <1>2, ItemCounts
<1> QED
  BY <1>0, <1>1, <1>2, <1>3 DEF MenuInv, RootRow, Row, RowIsVisible, Typing, Editing, Visible

\* An editor that is opened is empty.
LEMMA EditorInv ==
    ASSUME NEW m, MenuInv(m), NEW network \in Networks, NEW n \in {BeginPinEdit(m), BeginSsidEdit(m), BeginPasswordEdit(m, network)}
    PROVE  /\ MenuInv(n) /\ n.interaction = "text_edit" /\ n.screen = m.screen
           /\ n.selected = m.selected /\ n.scroll = m.scroll
<1>1. n \in Menus
  BY EmptyText DEF MenuInv, BeginPinEdit, BeginSsidEdit, BeginPasswordEdit, Menus, Interactions, Editors
<1>2. /\ n.interaction = "text_edit" /\ n.screen = m.screen /\ n.selected = m.selected /\ n.scroll = m.scroll
      /\ n.rootSelected = m.rootSelected /\ n.rootScroll = m.rootScroll
      /\ n.editor \in {"pin_first", "ssid", "password"} /\ n.text = <<>>
  BY DEF MenuInv, BeginPinEdit, BeginSsidEdit, BeginPasswordEdit, Menus
<1> QED
  BY <1>1, <1>2 DEF MenuInv, RootRow, Row, Typing, Editing, TypedAs

\* Scrolling to the selected row makes it visible, wherever the list was.
LEMMA ScrolledInv ==
    ASSUME NEW m \in Menus, RootRow(m), Typing(m), m.selected < ItemCount(m) \/ (ItemCount(m) = 0 /\ m.screen # "root")
    PROVE  MenuInv(Scrolled(m)) /\ Scrolled(m).interaction = m.interaction
<1> DEFINE s == IF m.selected < m.scroll THEN m.selected
                ELSE IF m.selected >= m.scroll + Visible THEN m.selected - Visible + 1 ELSE m.scroll
           n == Scrolled(m)
<1>1. s \in Nat /\ s <= m.selected /\ m.selected < s + Visible
  BY DEF Menus, Visible
<1>2. n = IF m.screen = "root" THEN [m EXCEPT !.scroll = s, !.rootSelected = m.selected, !.rootScroll = s]
          ELSE [m EXCEPT !.scroll = s]
  BY DEF Scrolled
<1>3. n \in Menus
  BY <1>1, <1>2 DEF Menus
<1>4. /\ n.interaction = m.interaction /\ n.screen = m.screen /\ n.selected = m.selected /\ n.scroll = s
      /\ n.profiles = m.profiles /\ n.networks = m.networks
      /\ n.editor = m.editor /\ n.text = m.text /\ n.pin = m.pin /\ n.ssid = m.ssid
      /\ IF m.screen = "root" THEN n.rootSelected = m.selected /\ n.rootScroll = s
         ELSE n.rootSelected = m.rootSelected /\ n.rootScroll = m.rootScroll
  BY <1>2 DEF Menus
<1>5. ItemCount(n) = ItemCount(m)
  BY <1>3, <1>4, ItemCounts DEF Menus, Screens
<1>6. RootRow(n)
  BY <1>1, <1>4, ItemCounts DEF RootRow, Shows, MenuItems
<1>7. Row(n)
  BY <1>1, <1>4, <1>5 DEF Row, RowIsVisible
<1>8. Typing(n)
  BY <1>4 DEF Typing, Editing
<1> QED
  BY <1>3, <1>4, <1>6, <1>7, <1>8 DEF MenuInv
\* A key leaves a menu that is sound and asks for a command that is.
Answers(r) ==
    /\ MenuInv(r.menu) /\ r.command \in MenuCommands \cup {"none"}
    /\ (r.command # "none" => OrderIsClean(OrderOf(r.menu, r.command)))

\* A key that asks for nothing.
LEMMA QuietAnswers == ASSUME NEW m, MenuInv(m) PROVE Answers(Quiet(m))
<1>1. Quiet(m).menu = m /\ Quiet(m).command = "none"
  BY DEF Quiet
<1> QED
  BY <1>1 DEF Answers

\* One that asks for something nothing was typed for.
LEMMA AskAnswers ==
    ASSUME NEW m, MenuInv(m), NEW command \in MenuCommands \ {"rotate_pin", "stage_wifi"}
    PROVE  Answers(Asks(m, command))
<1>1. MenuInv(Asks(m, command).menu) /\ Asks(m, command).command = command
  BY AskInv
<1>2. \A n : OrderIsClean(OrderOf(n, command))
  BY DEF OrderIsClean, OrderOf
<1> QED
  BY <1>1, <1>2 DEF Answers

\* The menu that remembers where the root list was.
LEMMA HereInv ==
    ASSUME NEW m, MenuInv(m), m.interaction = "browse", m.screen = "root"
    PROVE  LET here == [m EXCEPT !.rootSelected = m.selected, !.rootScroll = m.scroll]
           IN  /\ MenuInv(here) /\ here.screen = "root" /\ here.interaction = "browse"
               /\ here.selected = m.selected /\ here.selected < 8
<1> DEFINE here == [m EXCEPT !.rootSelected = m.selected, !.rootScroll = m.scroll]
<1>1. here \in Menus
  BY DEF MenuInv, Menus
<1>2. /\ here.screen = "root" /\ here.interaction = "browse" /\ here.selected = m.selected /\ here.scroll = m.scroll
      /\ here.rootSelected = m.selected /\ here.rootScroll = m.scroll
  BY DEF MenuInv, Menus
<1>3. ItemCount(here) = 8 /\ ItemCount(m) = 8
  BY <1>1, <1>2, ItemCounts DEF MenuInv
<1>4. Shows(m.selected, m.scroll, 8)
  BY <1>3 DEF MenuInv, Row, RowIsVisible, Shows
<1>5. RootRow(here) /\ Row(here) /\ Typing(here)
  BY <1>2, <1>3, <1>4 DEF RootRow, Row, RowIsVisible, Typing, Editing, Shows, MenuItems
<1> QED
  BY <1>1, <1>2, <1>4, <1>5 DEF MenuInv, Shows

\* Enter in the root list.
LEMMA RootEnterAnswers ==
    ASSUME NEW m, MenuInv(m), m.interaction = "browse", m.screen = "root"
    PROVE  Answers(RootEnter(m))
<1> DEFINE here == [m EXCEPT !.rootSelected = m.selected, !.rootScroll = m.scroll]
           list == [here EXCEPT !.screen = "profiles", !.selected = 0, !.scroll = 0]
<1>1. /\ MenuInv(here) /\ here.screen = "root" /\ here.interaction = "browse"
      /\ here.selected = m.selected /\ here.selected < 8 /\ m.selected \in Nat
  BY HereInv DEF MenuInv, Menus
<1> HIDE DEF here
<1>2. MenuInv(Scrolled(list))
  <2>1. list \in Menus
    BY <1>1 DEF MenuInv, Menus, Screens
  <2>2. /\ list.screen = "profiles" /\ list.selected = 0 /\ list.interaction = "browse"
        /\ list.rootSelected = here.rootSelected /\ list.rootScroll = here.rootScroll
    BY <1>1 DEF MenuInv, Menus
  <2>3. RootRow(list) /\ Typing(list)
    BY <1>1, <2>2 DEF MenuInv, RootRow, Typing, Editing
  <2>4. ItemCount(list) \in Nat
    BY <2>1, ItemCounts
  <2> HIDE DEF list
  <2> QED
    BY <2>1, <2>2, <2>3, <2>4, ScrolledInv
<1>3. MenuInv(Scrolled(BeginPinEdit(here)))
  <2> DEFINE n == BeginPinEdit(here)
  <2>1. MenuInv(n) /\ n.screen = "root" /\ n.selected = here.selected
    BY <1>1, EmptyText, EditorInv
  <2>2. ItemCount(n) = 8
    BY <2>1, ItemCounts DEF MenuInv
  <2> QED
    BY <1>1, <2>1, <2>2, ScrolledInv DEF MenuInv
<1>4. MenuInv(Scrolled(SetResult(here)))
  <2> DEFINE n == SetResult(here)
  <2>1. MenuInv(n) /\ n.screen = "root" /\ n.selected = here.selected
    <3>1. MenuInv(n)
      BY <1>1, ResultInv
    <3> QED
      BY <1>1, <3>1 DEF SetResult, MenuInv, Menus
  <2>2. ItemCount(n) = 8
    BY <2>1, ItemCounts DEF MenuInv
  <2> QED
    BY <1>1, <2>1, <2>2, ScrolledInv DEF MenuInv
<1>5. RootEnter(m) = CASE m.selected = 0 -> Asks(here, "apply_input_mode")
                       [] m.selected = 1 -> Quiet(Scrolled(list))
                       [] m.selected = 2 -> Quiet(Scrolled(BeginPinEdit(here)))
                       [] m.selected = 3 -> Asks(here, "scan_wifi")
                       [] m.selected \in 4..6 -> Asks(here, "apply_display_settings")
                       [] OTHER -> Quiet(Scrolled(SetResult(here)))
  BY DEF RootEnter, here
<1> HIDE DEF list
<1>6. /\ Answers(Asks(here, "apply_input_mode")) /\ Answers(Asks(here, "scan_wifi"))
      /\ Answers(Asks(here, "apply_display_settings"))
  BY <1>1, AskAnswers DEF MenuCommands
<1>7. /\ Answers(Quiet(Scrolled(list))) /\ Answers(Quiet(Scrolled(BeginPinEdit(here))))
      /\ Answers(Quiet(Scrolled(SetResult(here))))
  BY <1>2, <1>3, <1>4, QuietAnswers
<1> QED
  BY <1>1, <1>5, <1>6, <1>7

\* Enter in any list.
LEMMA EnterAnswers ==
    ASSUME NEW m, MenuInv(m), m.interaction = "browse", ItemCount(m) # 0
    PROVE  Answers(EnterKey(m))
<1>1. CASE m.screen = "root"
  BY <1>1, RootEnterAnswers DEF EnterKey
<1>2. CASE m.screen = "profiles"
  BY <1>2, AskAnswers DEF EnterKey, MenuCommands
<1>3. CASE m.screen = "wifi"
  <2>1. m.selected \in Nat /\ m.networks \in Networks /\ m.selected < m.networks
    BY <1>3, ItemCounts DEF MenuInv, Menus, Row, RowIsVisible
  <2>2. CASE m.selected + 1 = m.networks
    BY <1>3, <2>2, EmptyText, EditorInv, QuietAnswers DEF EnterKey
  <2>3. CASE m.selected + 1 # m.networks
    <3>1. m.selected + 1 \in Networks
      BY <2>1, <2>3, MenuAssumption DEF Networks, Typed
    <3>2. MenuInv(BeginPasswordEdit(m, m.selected + 1))
      BY <3>1, EditorInv
    <3> QED
      BY <1>3, <2>3, <3>2, QuietAnswers DEF EnterKey
  <2> QED
    BY <2>2, <2>3
<1> QED
  BY <1>1, <1>2, <1>3 DEF MenuInv, Menus, Screens

\* Another row.
LEMMA SelectAnswers ==
    ASSUME NEW m, MenuInv(m), m.interaction = "browse", NEW row \in Nat, row < ItemCount(m)
    PROVE  Answers(Quiet(Select(m, row)))
<1> DEFINE n == [m EXCEPT !.selected = row]
<1>1. n \in Menus
  BY DEF MenuInv, Menus
<1>2. /\ n.interaction = "browse" /\ n.screen = m.screen /\ n.selected = row /\ n.profiles = m.profiles
      /\ n.networks = m.networks /\ n.rootSelected = m.rootSelected /\ n.rootScroll = m.rootScroll
  BY DEF MenuInv, Menus
<1>3. ItemCount(n) = ItemCount(m)
  BY <1>1, <1>2, ItemCounts DEF MenuInv, Menus, Screens
<1>4. RootRow(n) /\ Typing(n)
  BY <1>2 DEF MenuInv, RootRow, Typing, Editing
<1> HIDE DEF n
<1>5. MenuInv(Scrolled(n))
  BY <1>1, <1>2, <1>3, <1>4, ScrolledInv
<1> QED
  BY <1>5, QuietAnswers DEF Select, n

\* Any key in a list.
LEMMA BrowseAnswers ==
    ASSUME NEW m, MenuInv(m), m.interaction = "browse", NEW k \in BrowseKeys
    PROVE  Answers(BrowseKey(m, k))
<1>1. CASE ItemCount(m) = 0
  BY <1>1, ToRootInv, QuietAnswers DEF BrowseKey
<1>2. CASE ItemCount(m) # 0
  <2>1. /\ ItemCount(m) \in Nat \ {0} /\ m.selected \in Nat /\ m.selected < ItemCount(m)
    BY <1>2, ItemCounts DEF MenuInv, Menus, Row, RowIsVisible
  <2>2. RowAbove(m) \in Nat /\ RowAbove(m) < ItemCount(m)
    BY <2>1 DEF RowAbove
  <2>3. RowBelow(m) \in Nat /\ RowBelow(m) < ItemCount(m)
    BY <2>1 DEF RowBelow
  <2>4. /\ Answers(Quiet(Select(m, RowAbove(m)))) /\ Answers(Quiet(Select(m, RowBelow(m))))
        /\ Answers(Quiet(Select(m, m.selected)))
    BY <2>1, <2>2, <2>3, SelectAnswers
  <2>5. Answers(EnterKey(m))
    BY <1>2, EnterAnswers
  <2>6. k \in {"up", "down", "previous", "next", "enter"}
    BY DEF BrowseKeys
  <2>7. BrowseKey(m, k) \in {Quiet(Select(m, RowAbove(m))), Quiet(Select(m, RowBelow(m))),
                                Quiet(Select(m, m.selected)), EnterKey(m)}
    BY <1>2, <2>6 DEF BrowseKey
  <2> QED
    BY <2>4, <2>5, <2>7
<1> QED
  BY <1>1, <1>2

\* A text that grows by a character of its editor, or loses its last one.
LEMMA TextInv ==
    ASSUME NEW m, MenuInv(m), NEW text \in Texts,
           Editing(m) => /\ TypedAs(text, m.editor)
                         /\ m.editor = "password" => \A i \in DOMAIN text : text[i].network = m.ssid
    PROVE  MenuInv([m EXCEPT !.text = text])
<1> DEFINE n == [m EXCEPT !.text = text]
<1>1. n \in Menus
  BY DEF MenuInv, Menus
<1>2. /\ n.interaction = m.interaction /\ n.screen = m.screen /\ n.selected = m.selected /\ n.scroll = m.scroll
      /\ n.rootSelected = m.rootSelected /\ n.rootScroll = m.rootScroll /\ n.editor = m.editor
      /\ n.text = text /\ n.pin = m.pin /\ n.ssid = m.ssid /\ n.profiles = m.profiles /\ n.networks = m.networks
  BY DEF MenuInv, Menus
<1>3. ItemCount(n) = ItemCount(m)
  BY <1>1, <1>2, ItemCounts DEF MenuInv, Menus, Screens
<1> HIDE DEF n
<1>4. RootRow(n) /\ Row(n) /\ Typing(n)
  BY <1>2, <1>3 DEF MenuInv, RootRow, Row, RowIsVisible, Typing, Editing
<1> QED
  BY <1>1, <1>4 DEF MenuInv, n

\* Enter in an editor: the PIN goes on to be repeated, or what was typed is asked for.
LEMMA EditEnterAnswers ==
    ASSUME NEW m, MenuInv(m), Editing(m)
    PROVE  Answers(EditEnter(m))
<1>0. /\ m \in Menus /\ m.editor \in Editors /\ m.editor # "none" /\ TypedAs(m.text, m.editor)
      /\ m.editor = "pin_confirm" => TypedAs(m.pin, "pin_first") /\ Len(m.pin) = PinDigits
      /\ m.editor = "password" => \A i \in DOMAIN m.text : m.text[i].network = m.ssid
  BY DEF MenuInv, Typing, Menus
<1>1. CASE m.editor = "pin_first"
  <2> DEFINE n == [m EXCEPT !.pin = m.text, !.text = <<>>, !.editor = "pin_confirm", !.interaction = "confirm"]
  <2>1. n \in Menus
    BY <1>0, EmptyText DEF Menus, Editors, Interactions
  <2>2. /\ n.interaction = "confirm" /\ n.editor = "pin_confirm" /\ n.text = <<>> /\ n.pin = m.text
        /\ n.rootSelected = m.rootSelected /\ n.rootScroll = m.rootScroll
    BY <1>0 DEF Menus
  <2>3. Len(m.text) = PinDigits => MenuInv(n)
    BY <1>0, <1>1, <2>1, <2>2 DEF MenuInv, RootRow, Row, Typing, Editing, TypedAs
  <2> HIDE DEF n
  <2>4. EditEnter(m) = Quiet(IF Len(m.text) = PinDigits THEN n ELSE m)
    BY <1>1 DEF EditEnter, n
  <2> QED
    BY <2>3, <2>4, QuietAnswers
<1>2. CASE m.editor = "pin_confirm"
  <2>1. Answers(Asks(m, "rotate_pin"))
    <3>1. MenuInv(Asks(m, "rotate_pin").menu) /\ Asks(m, "rotate_pin").command = "rotate_pin"
          /\ Asks(m, "rotate_pin").menu.pin = m.pin
      BY AskInv
    <3>2. OrderIsClean(OrderOf(Asks(m, "rotate_pin").menu, "rotate_pin"))
      BY <1>0, <1>2, <3>1 DEF OrderIsClean, OrderOf
    <3> QED
      BY <3>1, <3>2 DEF Answers, MenuCommands
  <2>2. Answers(Quiet([m EXCEPT !.text = <<>>]))
    <3>1. MenuInv([m EXCEPT !.text = <<>>])
      BY EmptyText, TextInv DEF TypedAs
    <3> QED
      BY <3>1, QuietAnswers
  <2>3. EditEnter(m) \in {Asks(m, "rotate_pin"), Quiet([m EXCEPT !.text = <<>>])}
    BY <1>2 DEF EditEnter
  <2> QED
    BY <2>1, <2>2, <2>3
<1>3. CASE m.editor = "ssid"
  <2>1. Typed \in Networks
    BY MenuAssumption DEF Typed, Networks
  <2>2. MenuInv(BeginPasswordEdit(m, Typed))
    BY <2>1, EditorInv
  <2>3. EditEnter(m) \in {Quiet(BeginPasswordEdit(m, Typed)), Quiet(m)}
    BY <1>3 DEF EditEnter
  <2> QED
    BY <2>2, <2>3, QuietAnswers
<1>4. CASE m.editor = "password"
  <2>1. MenuInv(Asks(m, "stage_wifi").menu) /\ Asks(m, "stage_wifi").command = "stage_wifi"
        /\ Asks(m, "stage_wifi").menu.text = m.text /\ Asks(m, "stage_wifi").menu.ssid = m.ssid
    BY AskInv
  <2>2. OrderIsClean(OrderOf(Asks(m, "stage_wifi").menu, "stage_wifi"))
    BY <1>0, <1>4, <2>1 DEF OrderIsClean, OrderOf
  <2>3. EditEnter(m) = Asks(m, "stage_wifi")
    BY <1>4 DEF EditEnter
  <2> QED
    BY <2>1, <2>2, <2>3 DEF Answers, MenuCommands
<1> QED
  BY <1>0, <1>1, <1>2, <1>3, <1>4 DEF Editors

\* Any key in an editor.
LEMMA EditAnswers ==
    ASSUME NEW m, MenuInv(m), Editing(m), NEW k, NEW digit \in Digits
    PROVE  Answers(EditKey(m, k, digit))
<1>0. /\ m \in Menus /\ m.text \in Seq(Characters) /\ m.editor \in Editors /\ m.ssid \in Networks
      /\ TypedAs(m.text, m.editor)
      /\ m.editor = "password" => \A i \in DOMAIN m.text : m.text[i].network = m.ssid
  BY DEF MenuInv, Typing, Menus, Texts
<1>1. CASE k = "enter"
  BY <1>1, EditEnterAnswers DEF EditKey
<1>2. CASE k = "backspace"
  <2>1. CASE m.text = <<>>
    BY <1>2, <2>1, QuietAnswers DEF EditKey
  <2>2. CASE m.text # <<>>
    <3> DEFINE shorter == SubSeq(m.text, 1, Len(m.text) - 1)
    <3>1. /\ shorter \in Seq(Characters) /\ Len(shorter) = Len(m.text) - 1
          /\ \A i \in 1..(Len(m.text) - 1) : shorter[i] = m.text[i]
      BY <1>0, <2>2
    <3>2. DOMAIN shorter = 1..(Len(m.text) - 1) /\ DOMAIN m.text = 1..Len(m.text) /\ Len(m.text) \in Nat
      BY <1>0, <3>1
    <3> HIDE DEF shorter
    <3>3. MenuInv([m EXCEPT !.text = shorter])
      BY <1>0, <3>1, <3>2, TextInv DEF TypedAs, Texts
    <3>4. EditKey(m, k, digit) = Quiet([m EXCEPT !.text = shorter])
      BY <1>2, <2>2 DEF EditKey, shorter
    <3> QED
      BY <3>3, <3>4, QuietAnswers
  <2> QED
    BY <2>1, <2>2
<1>3. CASE k = "digit"
  <2> DEFINE c == Character(m, digit)
             longer == Append(m.text, c)
  <2>1. c \in Characters /\ c.typed = m.editor /\ c.network = m.ssid
    BY <1>0, MenuAssumption DEF Character, Characters
  <2> HIDE DEF c
  <2>2. /\ longer \in Seq(Characters) /\ Len(longer) = Len(m.text) + 1 /\ longer[Len(m.text) + 1] = c
        /\ \A i \in 1..Len(m.text) : longer[i] = m.text[i]
    BY <1>0, <2>1
  <2>3. DOMAIN longer = 1..(Len(m.text) + 1) /\ DOMAIN m.text = 1..Len(m.text) /\ Len(m.text) \in Nat
    BY <1>0, <2>2
  <2>4. \A i \in DOMAIN longer : longer[i] = c \/ (i \in DOMAIN m.text /\ longer[i] = m.text[i])
    BY <2>2, <2>3
  <2> HIDE DEF longer
  <2>5. MenuInv([m EXCEPT !.text = longer])
    BY <1>0, <2>1, <2>2, <2>4, TextInv DEF TypedAs, Texts
  <2>6. EditKey(m, k, digit) \in {Quiet([m EXCEPT !.text = longer]), Quiet(m)}
    BY <1>3 DEF EditKey, longer, c
  <2> QED
    BY <2>5, <2>6, QuietAnswers
<1>4. CASE k \notin {"enter", "backspace", "digit"}
  BY <1>4, QuietAnswers DEF EditKey
<1> QED
  BY <1>1, <1>2, <1>3, <1>4

\* Any key the menu takes (on_key).
LEMMA KeyAnswers ==
    ASSUME NEW m, MenuInv(m), NEW k, NEW digit \in Digits, MenuTakes(m, k)
    PROVE  Answers(OnKey(m, k, digit))
<1>1. CASE m.interaction = "browse"
  BY <1>1, BrowseAnswers DEF OnKey, MenuTakes, Editing
<1>2. CASE Editing(m)
  BY <1>2, EditAnswers DEF OnKey, Editing
<1>3. CASE m.interaction # "browse" /\ ~Editing(m)
  BY <1>3, QuietAnswers DEF OnKey
<1> QED
  BY <1>1, <1>2, <1>3

\* On the way to the page of the settings the menu is as it was, or at the top of its root list.
LEMMA EnteredInv ==
    ASSUME NEW m, MenuInv(m), NEW n \in Refreshed(MenuEnter(m))
    PROVE  MenuInv(n) /\ n.interaction = "browse" /\ n.scroll = 0
<1>1. MenuInv(MenuEnter(m)) /\ MenuEnter(m).interaction = "browse" /\ MenuEnter(m).scroll = 0
  BY EnterInv
<1>2. MenuEnter(m).screen = "root"
  BY DEF MenuEnter, MenuInv, Menus
<1>3. CASE n = MenuEnter(m)
  BY <1>1, <1>3
<1>4. ASSUME NEW count \in {0, MaxProfiles}, n = SetProfileChoices(MenuEnter(m), count)
      PROVE  MenuInv(n) /\ n.interaction = "browse" /\ n.scroll = 0
  BY <1>1, <1>2, <1>4, ProfilesInv, MenuAssumption
<1> QED
  BY <1>3, <1>4 DEF Refreshed

\* What is drawn of a sound menu.
LEMMA ContentIs ==
    ASSUME NEW m, MenuInv(m)
    PROVE  /\ MenuContent(m).plain \subseteq {"ssid"}
           /\ m.interaction = "browse" => MenuContent(m).scroll = m.scroll
           /\ m.interaction = "result" => MenuContent(m).scroll = 0
<1>1. Editing(m) /\ m.editor = "ssid" => {m.text[i].typed : i \in DOMAIN m.text} \subseteq {"ssid"}
  BY DEF MenuInv, Typing, TypedAs
<1>2. MenuContent(m).plain = IF Editing(m) /\ m.editor = "ssid" THEN {m.text[i].typed : i \in DOMAIN m.text}
                             ELSE {}
  BY DEF MenuContent
<1>3. MenuContent(m).scroll = IF Editing(m) \/ m.interaction \in {"applying", "result"} THEN 0 ELSE m.scroll
  BY DEF MenuContent
<1> QED
  BY <1>1, <1>2, <1>3 DEF Editing

-----------------------------------------------------------------------------
\* Orders that carry nothing that was typed for another purpose.
CleanOrders ==
    {o \in [command : MenuCommands \cup {"none"}, pin : Texts, ssid : Networks, password : Texts] :
        OrderIsClean(o)}

SecretsInv ==
    MenuInv(menu) /\ orders \in Seq(CleanOrders) /\ working \in CleanOrders /\ rows.plain \subseteq {"ssid"}

\* The page of the settings is scrolled as the menu is, while it is on the display; the menu is at the
\* top of a list, or has nothing to scroll, when it is active without its page.
ScrollInv ==
    "preempt" \notin uiProne =>
        /\ key = "none"
        /\ page = "settings" => offset = rows.scroll
        /\ page = "settings" /\ menu.interaction = "browse" => rows.scroll = menu.scroll
        /\ page # "settings" \/ ui = "return" =>
              /\ menu.interaction = "browse" => menu.scroll = 0
              /\ MenuActive(menu) => rows.scroll = 0

\* No command carries nothing.
LEMMA NoOrderIsClean == NoOrder \in CleanOrders
BY EmptyText DEF NoOrder, CleanOrders, OrderIsClean

\* The copy that is queued carries what the command reads (queue_settings_command).
LEMMA AnsweredOrder ==
    ASSUME NEW r, Answers(r), r.command # "none"
    PROVE  OrderOf(r.menu, r.command) \in CleanOrders
<1>1. r.menu.pin \in Texts /\ r.menu.text \in Texts /\ r.menu.ssid \in Networks
  BY DEF Answers, MenuInv, Menus
<1>2. OrderIsClean(OrderOf(r.menu, r.command)) /\ r.command \in MenuCommands
  BY DEF Answers
<1>3. OrderOf(r.menu, r.command) \in [command : MenuCommands \cup {"none"}, pin : Texts, ssid : Networks, password : Texts]
  BY <1>1, <1>2, EmptyText DEF OrderOf
<1> QED
  BY <1>2, <1>3 DEF CleanOrders

\* Handing the content of the menu to the page.
LEMMA PushIs ==
    ASSUME NEW given, NEW m, PushesAfter(given, m)
    PROVE  /\ rows' = MenuContent(m) /\ page' = page
           /\ page = "settings" =>
                  (offset' = MenuContent(m).scroll \/ (given = rows /\ MenuContent(m) = rows /\ offset' = offset))
<1> DEFINE content == MenuContent(m)
<1>1. /\ rows' = content /\ page' = page
      /\ offset' = IF page = "settings" /\ (given # rows \/ content # given) THEN content.scroll ELSE offset
  BY DEF PushesAfter
<1> HIDE DEF content
<1>2. page = "settings" => (offset' = content.scroll \/ (given = rows /\ content = rows /\ offset' = offset))
  BY <1>1
<1> USE DEF content
<1> QED
  BY <1>1, <1>2

\* A key on the page of the settings that the menu takes.
LEMMA MenuKeyKeeps ==
    ASSUME SecretsInv, ScrollInv, NEW k, NEW digit \in Digits, MenuKey(k, digit)
    PROVE  SecretsInv' /\ ScrollInv'
<1>1. PICK m \in Entered :
        /\ MenuTakes(m, k)
        /\ orders' = IF OnKey(m, k, digit).command = "none" \/ ~(Len(orders) < QueueSlots) THEN orders
                     ELSE Append(orders, OrderOf(OnKey(m, k, digit).menu, OnKey(m, k, digit).command))
        /\ menu' = IF OnKey(m, k, digit).command = "none" \/ Len(orders) < QueueSlots
                   THEN OnKey(m, k, digit).menu ELSE SetResult(OnKey(m, k, digit).menu)
        /\ PushesAfter(GivenOf(m), menu')
  BY DEF MenuKey
<1>2. MenuInv(m)
  BY <1>1, EnteredInv DEF Entered, SecretsInv
<1>3. Answers(OnKey(m, k, digit))
  BY <1>1, <1>2, KeyAnswers
<1>4. MenuInv(menu')
  <2>1. MenuInv(OnKey(m, k, digit).menu)
    BY <1>3 DEF Answers
  <2> QED
    BY <1>1, <2>1, ResultInv
<1>5. orders' \in Seq(CleanOrders)
  BY <1>1, <1>3, AnsweredOrder DEF SecretsInv
<1>6. UNCHANGED <<working, ui, uiProne>> /\ key' = "none" /\ (ui = "return" => "preempt" \in uiProne)
  BY DEF MenuKey, KeyDone, UiFault
<1>7. rows' = MenuContent(menu') /\ page' = page
  BY <1>1, PushIs
<1>8. SecretsInv'
  BY <1>4, <1>5, <1>6, <1>7, ContentIs DEF SecretsInv
<1>9. ASSUME "preempt" \notin uiProne PROVE ScrollInv'
  <2>1. page = "settings" /\ ui # "return"
    BY <1>6, <1>9 DEF MenuKey, Seen, ScrollInv
  <2>2. offset' = rows'.scroll
    BY <1>1, <1>7, <1>9, <2>1, PushIs DEF ScrollInv
  <2> QED
    BY <1>4, <1>6, <1>7, <2>1, <2>2, ContentIs DEF ScrollInv
<1> QED
  BY <1>6, <1>8, <1>9 DEF ScrollInv

\* One that it does not take, but enters for.
LEMMA MenuPassKeeps ==
    ASSUME SecretsInv, ScrollInv, NEW k, MenuPasses(k)
    PROVE  SecretsInv' /\ ScrollInv'
<1>1. /\ menu' \in Entered /\ UNCHANGED <<orders, working, ui, uiProne>> /\ key' = "none"
      /\ (ui = "return" => "preempt" \in uiProne) /\ Seen = "settings"
      /\ IF MenuActive(menu) THEN UNCHANGED modelVars ELSE Pushes(menu')
  BY DEF MenuPasses, KeyDone, UiFault
<1>2. CASE MenuActive(menu)
  BY <1>1, <1>2 DEF SecretsInv, ScrollInv, Entered, modelVars
<1>3. CASE ~MenuActive(menu)
  <2>1. MenuInv(menu') /\ menu'.interaction = "browse" /\ menu'.scroll = 0
    BY <1>1, <1>3, EnteredInv DEF Entered, SecretsInv
  <2>2. rows' = MenuContent(menu') /\ page' = page
    BY <1>1, <1>3, PushIs DEF Pushes
  <2>3. page = "settings" /\ "preempt" \notin uiProne => offset' = rows'.scroll
    BY <1>1, <1>3, <2>2, PushIs DEF Pushes, ScrollInv
  <2>4. "preempt" \notin uiProne => page = "settings" /\ ui # "return"
    BY <1>1 DEF Seen, ScrollInv
  <2> QED
    BY <1>1, <2>1, <2>2, <2>3, <2>4, ContentIs DEF SecretsInv, ScrollInv
<1> QED
  BY <1>2, <1>3

\* A page is turned: the menu is left with its page, and entered at the top of its list.
LEMMA TurnKeeps ==
    ASSUME SecretsInv, ScrollInv, NEW turn, TurnsPage(turn)
    PROVE  SecretsInv' /\ ScrollInv'
<1>1. /\ UNCHANGED <<orders, working, ui, uiProne>> /\ key' = "none" /\ offset' = 0
      /\ (ui = "return" => "preempt" \in uiProne) /\ Seen # "settings"
  BY DEF TurnsPage, KeyDone, UiFault
<1>2. "preempt" \notin uiProne => page # "settings" /\ ui # "return"
  BY <1>1 DEF Seen, ScrollInv
<1>3. CASE page' = "settings" /\ ~MenuActive(menu)
  <2>1. menu' \in Refreshed(MenuEnter(menu)) /\ rows' = MenuContent(menu')
    BY <1>3 DEF TurnsPage
  <2>2. MenuInv(menu') /\ menu'.interaction = "browse" /\ menu'.scroll = 0
    BY <2>1, EnteredInv DEF SecretsInv
  <2> QED
    BY <1>1, <1>2, <1>3, <2>1, <2>2, ContentIs DEF SecretsInv, ScrollInv
<1>4. CASE page' = "settings" /\ MenuActive(menu)
  <2>1. UNCHANGED <<menu, rows>>
    BY <1>4 DEF TurnsPage
  <2> QED
    BY <1>1, <1>2, <1>4, <2>1 DEF SecretsInv, ScrollInv
<1>5. CASE page' # "settings"
  <2>1. rows' = rows /\ menu' = IF MenuActive(menu) THEN MenuLeave(menu) ELSE menu
    BY <1>5 DEF TurnsPage
  <2>2. MenuInv(menu') /\ menu'.interaction = "inactive"
    BY <2>1, LeaveInv DEF SecretsInv, MenuActive
  <2> QED
    BY <1>1, <1>5, <2>1, <2>2 DEF SecretsInv, ScrollInv, MenuActive
<1> QED
  BY <1>3, <1>4, <1>5

\* Whatever a key does.
LEMMA KeyKeeps == SecretsInv /\ ScrollInv /\ KeyEnds => SecretsInv' /\ ScrollInv'
<1> SUFFICES ASSUME SecretsInv, ScrollInv, KeyEnds PROVE SecretsInv' /\ ScrollInv'
  OBVIOUS
<1>1. CASE Backtick
  <2>1. /\ menu' = MenuLeave(menu) /\ page' = "pet" /\ key' = "none"
        /\ UNCHANGED <<orders, working, ui, uiProne, rows>>
    BY <1>1 DEF Backtick, ReturnsToPet, KeyDone
  <2>2. MenuInv(menu') /\ menu'.interaction = "inactive"
    BY <2>1, LeaveInv DEF SecretsInv
  <2> QED
    BY <2>1, <2>2 DEF SecretsInv, ScrollInv, MenuActive
<1>2. CASE Scrolls
  <2>1. /\ UNCHANGED <<orders, working, ui, uiProne, rows, page>> /\ key' = "none" /\ Seen # "settings"
        /\ menu' = IF page # "settings" /\ MenuActive(menu) THEN MenuLeave(menu) ELSE menu
    BY <1>2 DEF Scrolls, KeyDone
  <2>2. MenuInv(menu') /\ (page # "settings" => menu'.interaction = "inactive")
    BY <2>1, LeaveInv DEF SecretsInv, MenuActive
  <2> QED
    BY <2>1, <2>2 DEF SecretsInv, ScrollInv, MenuActive, Seen
<1>3. CASE OtherKey
  BY <1>3 DEF OtherKey, KeyDone, modelVars, SecretsInv, ScrollInv
<1> QED
  BY <1>1, <1>2, <1>3, TurnKeeps, MenuKeyKeeps, MenuPassKeeps DEF KeyEnds

\* Whatever the UI task and the end of a scan do.
LEMMA TaskKeeps == SecretsInv /\ ScrollInv /\ (UiTask \/ ScanFinishes) => SecretsInv' /\ ScrollInv'
<1> SUFFICES ASSUME SecretsInv, ScrollInv, UiTask \/ ScanFinishes PROVE SecretsInv' /\ ScrollInv'
  OBVIOUS
<1>1. CASE TakesOrder
  <2>1. orders' \in Seq(CleanOrders) /\ working' \in CleanOrders
    BY <1>1 DEF TakesOrder, SecretsInv
  <2> QED
    BY <1>1, <2>1 DEF TakesOrder, UiGoes, modelVars, SecretsInv, ScrollInv
<1>2. CASE ScanStarts
  BY <1>2, NoOrderIsClean DEF ScanStarts, UiGoes, modelVars, SecretsInv, ScrollInv
<1>3. CASE TimerFires
  BY <1>3 DEF TimerFires, UiGoes, modelVars, SecretsInv, ScrollInv
<1>4. CASE Leaves
  <2>1. MenuInv(menu') /\ menu'.interaction = "inactive"
    BY <1>4, LeaveInv DEF Leaves, SecretsInv
  <2> QED
    BY <1>4, <2>1 DEF Leaves, UiGoes, modelVars, SecretsInv, ScrollInv, MenuActive
<1>5. CASE ReturnsByTimer
  BY <1>5 DEF ReturnsByTimer, ReturnsToPet, UiGoes, SecretsInv, ScrollInv
<1>6. CASE OrderEnds
  <2>1. MenuInv(menu') /\ menu'.interaction = "result"
    BY <1>6, ResultInv DEF OrderEnds, SecretsInv
  <2>2. rows' = MenuContent(menu') /\ page' = page /\ rows'.scroll = 0 /\ rows'.plain \subseteq {"ssid"}
    BY <1>6, <2>1, PushIs, ContentIs DEF OrderEnds, Pushes
  <2>3. "preempt" \notin uiProne /\ page = "settings" => offset' = rows'.scroll
    BY <1>6, <2>2, PushIs DEF OrderEnds, Pushes, ScrollInv
  <2> QED
    BY <1>6, <2>1, <2>2, <2>3, NoOrderIsClean DEF OrderEnds, UiGoes, SecretsInv, ScrollInv
<1>7. CASE ScanFinishes
  <2>1. MenuInv(menu') /\ menu'.interaction = "browse" /\ menu'.scroll = 0
    <3>1. PICK count \in {0, MaxNetworks} : menu' = SetWifiChoices(menu, count)
      BY <1>7 DEF ScanFinishes
    <3>2. count \in Nat
      BY MenuAssumption
    <3> QED
      BY <3>1, <3>2, NetworksInv DEF SecretsInv
  <2>2. rows' = MenuContent(menu') /\ page' = page /\ rows'.scroll = 0 /\ rows'.plain \subseteq {"ssid"}
    BY <1>7, <2>1, PushIs, ContentIs DEF ScanFinishes, Pushes
  <2>3. "preempt" \notin uiProne /\ page = "settings" => offset' = rows'.scroll
    BY <1>7, <2>2, PushIs DEF ScanFinishes, Pushes, ScrollInv
  <2> QED
    BY <1>7, <2>1, <2>2, <2>3 DEF ScanFinishes, SecretsInv, ScrollInv
<1> QED
  BY <1>1, <1>2, <1>3, <1>4, <1>5, <1>6, <1>7 DEF UiTask

\* No step takes the two invariants away.
LEMMA PagesStep == SecretsInv /\ ScrollInv /\ [UiNext]_uiVars => SecretsInv' /\ ScrollInv'
<1> SUFFICES ASSUME SecretsInv, ScrollInv, [UiNext]_uiVars PROVE SecretsInv' /\ ScrollInv'
  OBVIOUS
<1>1. CASE Renders
  BY <1>1 DEF Renders, taskVars, SecretsInv, ScrollInv
<1>2. CASE ContentsChange
  BY <1>2 DEF ContentsChange, ChromeChanges, CodexChanges, AgeChanges, taskVars, SecretsInv, ScrollInv
<1>3. CASE KeyIsOvertaken
  BY <1>3 DEF KeyIsOvertaken, UiFault, modelVars, taskVars, SecretsInv, ScrollInv
<1>4. CASE UNCHANGED uiVars
  BY <1>4 DEF uiVars, modelVars, taskVars, SecretsInv, ScrollInv
<1> QED
  BY <1>1, <1>2, <1>3, <1>4, KeyKeeps, TaskKeeps DEF UiNext

\* Nothing has been typed.
LEMMA PagesStart == UiInit => SecretsInv /\ ScrollInv
<1> SUFFICES ASSUME UiInit PROVE SecretsInv /\ ScrollInv
  OBVIOUS
<1>1. MenuInv(menu) /\ menu.interaction = "inactive"
  BY BootMenuInv DEF UiInit, BootMenu
<1>2. rows.plain = {}
  BY DEF UiInit, NoRows, MenuContent, BootMenu, Editing
<1>3. orders \in Seq(CleanOrders) /\ working \in CleanOrders
  BY NoOrderIsClean DEF UiInit
<1> QED
  BY <1>1, <1>2, <1>3 DEF UiInit, SecretsInv, ScrollInv, MenuActive

\* For any lengths, digits, networks and queue, a PIN is rotated to what both its editors were given, a
\* network is tried with a password that was typed for it, and no PIN and no password is drawn as it was
\* typed (SettingsMenu::edit_key, content, queue_settings_command).
THEOREM SecretsStaySafe == UiSpec => []SecretsStayApart
<1>1. SecretsInv => SecretsStayApart
  BY DEF SecretsInv, SecretsStayApart, CleanOrders
<1> QED
  BY <1>1, PagesStart, PagesStep, PTL DEF UiSpec

\* The row that is selected can be seen, in the list and on the page, whatever scans and commands end
\* meanwhile, if no key comes between the two steps of the return (SettingsMenu::browse_key).
THEOREM SelectionStaysVisible == UiSpec => []SelectionIsVisible
<1>1. SecretsInv /\ ScrollInv => SelectionIsVisible
  BY DEF SecretsInv, ScrollInv, SelectionIsVisible, MenuInv, Row
<1> QED
  BY <1>1, PagesStart, PagesStep, PTL DEF UiSpec

\* The display shows what the page would draw now, and on it the row that is selected (ui_task, UiModel,
\* SettingsMenu).
THEOREM ScreenStaysTrue == UiSpec => []ScreenIsTrue
<1>1. ScreenIsFresh /\ SelectionIsVisible => ScreenIsTrue
  BY DEF ScreenIsTrue
<1> QED
  BY <1>1, ScreenStaysFresh, SelectionStaysVisible, PTL

=============================================================================
