----------------------------- MODULE Onboarding -----------------------------
(* First-run setup: firmware/main/product/onboarding.cpp and the handlers of  *)
(* product_controller.cpp that drive it. A step machine with a checkpoint in  *)
(* flash, a local editor, a queue of two commands to the UI task, and the     *)
(* Wi-Fi, BLE and agent events that open the three gates. The network service *)
(* is what WifiManager shows of itself to its status handler.                 *)
EXTENDS Naturals, Sequences

CONSTANTS
    CommandDepth,   \* kOnboardingQueueDepth
    Faults,         \* what an environment may do, see Fault
    RestartLimit    \* bound: power cycles and setups run again

ASSUME OnboardingAssumption ==
    /\ CommandDepth \in Nat \ {0} /\ RestartLimit \in Nat
    /\ Faults \subseteq {"burst", "commit", "power", "lock"}

VARIABLES
    checkpoint, step, secured,   \* OnboardingStateMachine
    editor,                      \* OnboardingController
    record,                      \* the checkpoint in flash, or "absent"
    commands,                    \* g_onboarding_queue
    scan,                        \* a scan was asked for and has not been answered
    trial,                       \* what the Wi-Fi manager is trying
    saved,                       \* credentials are in flash
    report,                      \* a status on its way to wifi_status_changed
    failed,                      \* history: that report follows a failed candidate
    bleReady,                    \* a bonded host with a live HID subscription
    gates,                       \* history: the gates opened since setup began
    restarts,
    prone                        \* what the environment of this behaviour does

stateVars == <<checkpoint, step, secured, record, gates>>
controllerVars == <<editor, commands, scan>>
wifiVars == <<trial, saved, report, failed>>
vars == <<stateVars, controllerVars, wifiVars, bleReady, restarts, prone>>

Checkpoints == {"needs_wifi", "needs_ble", "needs_agent", "complete"}
WifiSteps == {"wifi_scan", "wifi_select", "wifi_password", "wifi_connect_verify"}
Steps == WifiSteps \cup {"ble_pair_guide", "agent_install_guide", "complete_guide", "complete"}

\* burst: keys arrive while a command still waits for the UI task. commit: a commit of the
\* record fails. power: power is cut while a status is on its way. lock: an event finds
\* g_input_mutex taken for a second and is lost.
Fault(f) == f \in prone

StepFor(point) ==
    [needs_wifi |-> "wifi_scan", needs_ble |-> "ble_pair_guide",
     needs_agent |-> "agent_install_guide", complete |-> "complete"][point]

Active == step # "complete"

----------------------------------------------------------------------------
(* OnboardingStateMachine                                                     *)

\* persist: the record first, the variables only once it is committed.
Persist(point, next, opened) ==
    /\ record' = point /\ checkpoint' = point /\ step' = next /\ gates' = opened
    /\ UNCHANGED secured
PersistFails ==
    Fault("commit") /\ UNCHANGED stateVars

MoveTo(next) == step' = next /\ UNCHANGED <<checkpoint, secured, record, gates>>

\* load: without a record, saved credentials mean a device commissioned before.
Load ==
    IF record # "absent"
    THEN /\ checkpoint' = record /\ step' = StepFor(record)
         /\ UNCHANGED <<secured, record, gates>>
    ELSE IF saved
    THEN /\ checkpoint' = "complete" /\ step' = "complete"
         /\ record' \in {"complete"} \cup (IF Fault("commit") THEN {"absent"} ELSE {})
         /\ UNCHANGED <<secured, gates>>
    ELSE /\ checkpoint' = "needs_wifi" /\ step' = "wifi_scan"
         /\ UNCHANGED <<secured, record, gates>>

----------------------------------------------------------------------------
(* Commands to the UI task                                                    *)

\* queue_onboarding_command after a key; a full queue is handled as a Wi-Fi failure, which
\* undoes the step only when it is wifi_connect_verify.
Submit(command, next) ==
    IF Len(commands) < CommandDepth
    THEN commands' = Append(commands, command) /\ MoveTo(next) /\ UNCHANGED editor
    ELSE /\ UNCHANGED commands
         /\ IF next = "wifi_connect_verify"
            THEN MoveTo("wifi_password") /\ editor' = "password"
            ELSE MoveTo(next) /\ editor' = "none"

\* The keys of a user who waits for the UI task come when the queue is empty.
Key == Active /\ (Fault("burst") \/ commands = <<>>)

UnlessKeys == UNCHANGED <<wifiVars, bleReady, restarts, scan>>

PickSecured(hidden) ==
    /\ Key /\ editor = "none" /\ step = "wifi_select"
    /\ secured' = TRUE /\ step' = "wifi_password"
    /\ editor' = IF hidden THEN "hidden_ssid" ELSE "password"
    /\ UNCHANGED <<checkpoint, record, gates, commands>> /\ UnlessKeys

PickOpen ==
    /\ Key /\ editor = "none" /\ step = "wifi_select"
    /\ secured' = FALSE
    /\ UNCHANGED <<checkpoint, record, gates, editor>>
    /\ IF Len(commands) < CommandDepth
       THEN step' = "wifi_connect_verify" /\ commands' = Append(commands, "connect_wifi")
       ELSE step' = "wifi_select" /\ UNCHANGED commands
    /\ UnlessKeys

\* Backtick on the list, or its last row.
Rescan ==
    /\ Key /\ editor = "none" /\ step = "wifi_select"
    /\ Submit("scan_wifi", "wifi_scan")
    /\ UnlessKeys

SsidEntered ==
    /\ Key /\ editor = "hidden_ssid"
    /\ editor' = "password"
    /\ UNCHANGED <<stateVars, commands>> /\ UnlessKeys

\* Enter in the password editor counts only in its own step.
PasswordEntered ==
    /\ Key /\ editor = "password" /\ step = "wifi_password"
    /\ Submit("connect_wifi", "wifi_connect_verify")
    /\ UnlessKeys

\* Backtick in an editor; the password editor stays open during the trial.
LeaveEditor ==
    /\ Key /\ editor # "none"
    /\ editor' = "none"
    /\ IF checkpoint = "needs_wifi" THEN MoveTo("wifi_select") ELSE UNCHANGED stateVars
    /\ UNCHANGED commands /\ UnlessKeys

\* Backtick in the Bluetooth step: previous_step and a new scan.
BackFromBle ==
    /\ Key /\ editor = "none" /\ step = "ble_pair_guide"
    /\ \/ /\ Persist("needs_wifi", "wifi_scan", {})
          /\ IF Len(commands) < CommandDepth
             THEN commands' = Append(commands, "scan_wifi") ELSE UNCHANGED commands
       \/ PersistFails /\ UNCHANGED commands
    /\ UNCHANGED editor /\ UnlessKeys

BackFromAgent ==
    /\ Key /\ editor = "none" /\ step = "agent_install_guide"
    /\ Persist("needs_ble", "ble_pair_guide", {"wifi"}) \/ PersistFails
    /\ UNCHANGED <<editor, commands>> /\ UnlessKeys

Acknowledge ==
    /\ Key /\ editor = "none" /\ step = "complete_guide"
    /\ MoveTo("complete")
    /\ UNCHANGED <<editor, commands>> /\ UnlessKeys

\* process_onboarding_command on the UI task: product_wifi_scan or product_wifi_save.
UiTakesCommand ==
    /\ commands # <<>> /\ commands' = Tail(commands)
    /\ IF Head(commands) = "scan_wifi"
       THEN scan' = TRUE /\ UNCHANGED trial
       ELSE trial' = "candidate" /\ UNCHANGED scan
    /\ UNCHANGED <<stateVars, editor, saved, report, failed, bleReady, restarts>>

----------------------------------------------------------------------------
(* Events of the services                                                     *)

\* wifi_scan_finished; a scan that failed reports an empty list.
ScanFinished ==
    /\ scan /\ scan' = FALSE
    /\ \/ /\ Active /\ step = "wifi_scan"
          /\ MoveTo("wifi_select") /\ editor' = "none"
       \/ ~(Active /\ step = "wifi_scan") /\ UNCHANGED <<stateVars, editor>>
       \/ Fault("lock") /\ UNCHANGED <<stateVars, editor>>
    /\ UNCHANGED <<commands, wifiVars, bleReady, restarts>>

Unreported == report = "none"
WifiOnly == UNCHANGED <<stateVars, controllerVars, bleReady, restarts>>

CandidateJoins ==
    /\ trial = "candidate" /\ Unreported
    /\ trial' = "none" /\ saved' = TRUE /\ report' = "online" /\ failed' = FALSE
    /\ WifiOnly

\* The candidate is given up: back to the saved network, or offline.
CandidateFails ==
    /\ trial = "candidate" /\ Unreported
    /\ IF saved
       THEN trial' = "rollback" /\ UNCHANGED <<report, failed>>
       ELSE trial' = "none" /\ report' = "offline" /\ failed' = TRUE
    /\ UNCHANGED saved /\ WifiOnly

RollbackEnds ==
    /\ trial = "rollback" /\ Unreported
    /\ trial' = "none" /\ report' \in {"online", "offline"} /\ failed' = TRUE
    /\ UNCHANGED saved /\ WifiOnly

\* The saved network is joined, after a start or a lost link.
Rejoins ==
    /\ trial = "none" /\ saved /\ Unreported
    /\ report' = "online" /\ failed' = FALSE
    /\ UNCHANGED <<trial, saved>> /\ WifiOnly

\* on_wifi_connected, in whatever step the user is.
Connected ==
    \/ /\ checkpoint = "needs_wifi" /\ Persist("needs_ble", "ble_pair_guide", {"wifi"})
       /\ editor' = "none"
    \/ checkpoint = "needs_wifi" /\ PersistFails /\ UNCHANGED editor
    \/ checkpoint # "needs_wifi" /\ UNCHANGED <<stateVars, editor>>

\* Mistakes the properties catch.
Disconnected_SecuredOnly ==
    IF step = "wifi_connect_verify" /\ secured
    THEN MoveTo("wifi_password") /\ editor' = "password"
    ELSE UNCHANGED <<stateVars, editor>>
Disconnected ==
    IF step = "wifi_connect_verify"
    THEN /\ MoveTo(IF secured THEN "wifi_password" ELSE "wifi_select")
         /\ editor' = IF secured THEN "password" ELSE "none"
    ELSE UNCHANGED <<stateVars, editor>>

\* wifi_status_changed
WifiStatusChanged ==
    /\ report # "none" /\ report' = "none"
    /\ \/ Active /\ report = "online" /\ Connected
       \/ Active /\ report = "offline" /\ Disconnected
       \/ (~Active \/ Fault("lock")) /\ UNCHANGED <<stateVars, editor>>
    /\ UNCHANGED <<trial, saved, failed, commands, scan, bleReady, restarts>>

\* ble_connection_changed: called when readiness changes, and only then.
BleChanges ==
    /\ bleReady' = ~bleReady
    /\ \/ /\ bleReady' /\ step = "ble_pair_guide"
          /\ Persist("needs_agent", "agent_install_guide", gates \cup {"ble"}) \/ PersistFails
       \/ /\ ~(bleReady' /\ step = "ble_pair_guide") \/ Fault("lock")
          /\ UNCHANGED stateVars
    /\ UNCHANGED <<controllerVars, wifiVars, restarts>>

\* A mistake the properties catch.
Heartbeat_AnyStep ==
    /\ Active /\ Persist("complete", "complete_guide", gates \cup {"agent"})
    /\ UNCHANGED <<controllerVars, wifiVars, bleReady, restarts>>
\* companion_heartbeat, of a request that gave the PIN
Heartbeat ==
    /\ step = "agent_install_guide"
    /\ Persist("complete", "complete_guide", gates \cup {"agent"}) \/ PersistFails
    /\ UNCHANGED <<controllerVars, wifiVars, bleReady, restarts>>

\* A mistake the properties catch.
RestartSetup_NoScan ==
    /\ restarts < RestartLimit /\ restarts' = restarts + 1
    /\ Persist("needs_wifi", "wifi_scan", {})
    /\ UNCHANGED <<controllerVars, wifiVars, bleReady>>
\* restart_onboarding_from_web: the editor stays as it is.
RestartSetup ==
    /\ restarts < RestartLimit /\ restarts' = restarts + 1
    /\ \/ Persist("needs_wifi", "wifi_scan", {}) /\ scan' = TRUE
       \/ PersistFails /\ UNCHANGED scan
    /\ UNCHANGED <<editor, commands, wifiVars, bleReady>>

\* A power cycle: load, then begin asks for a scan if the step is wifi_scan.
PowerCycle ==
    /\ restarts < RestartLimit /\ restarts' = restarts + 1
    /\ Unreported \/ Fault("power")
    /\ Load
    /\ scan' = (step' = "wifi_scan")
    /\ editor' = "none" /\ commands' = <<>>
    /\ trial' = "none" /\ report' = "none" /\ failed' = FALSE /\ bleReady' = FALSE
    /\ UNCHANGED saved

\* A blank device at its first start.
Init ==
    /\ checkpoint = "needs_wifi" /\ step = "wifi_scan" /\ secured = TRUE
    /\ editor = "none" /\ record = "absent" /\ commands = <<>> /\ scan = TRUE
    /\ trial = "none" /\ saved = FALSE /\ report = "none" /\ failed = FALSE
    /\ bleReady = FALSE /\ gates = {} /\ restarts = 0
    /\ prone \in SUBSET Faults

UserActs ==
    \/ \E hidden \in BOOLEAN : PickSecured(hidden)
    \/ PickOpen \/ Rescan \/ SsidEntered \/ PasswordEntered \/ LeaveEditor
    \/ BackFromBle \/ BackFromAgent \/ Acknowledge \/ RestartSetup

WifiActs == CandidateJoins \/ CandidateFails \/ RollbackEnds

Next ==
    /\ \/ UserActs \/ UiTakesCommand \/ ScanFinished
       \/ WifiActs \/ Rejoins \/ WifiStatusChanged
       \/ BleChanges \/ Heartbeat \/ PowerCycle
    /\ UNCHANGED prone

\* The UI task runs, a scan is answered, an attempt to join ends (ReportResolves of
\* WifiManager) and its status is delivered. The user and the host owe nothing.
Fairness ==
    /\ WF_vars(UiTakesCommand /\ UNCHANGED prone) /\ WF_vars(ScanFinished /\ UNCHANGED prone)
    /\ WF_vars(WifiActs /\ UNCHANGED prone) /\ WF_vars(WifiStatusChanged /\ UNCHANGED prone)
Spec == Init /\ [][Next]_vars /\ Fairness

----------------------------------------------------------------------------
(* Properties                                                                 *)

\* Types, and each step belongs to its checkpoint: no key, report or failed commit leaves
\* the screen in a step of another gate than the one that is recorded.
OnboardingTypeOK ==
    /\ checkpoint \in Checkpoints /\ step \in Steps /\ secured \in BOOLEAN
    /\ editor \in {"none", "hidden_ssid", "password"}
    /\ record \in Checkpoints \cup {"absent"}
    /\ commands \in Seq({"scan_wifi", "connect_wifi"}) /\ Len(commands) <= CommandDepth
    /\ gates \subseteq {"wifi", "ble", "agent"}
    /\ (step \in WifiSteps) <=> (checkpoint = "needs_wifi")
    /\ record \in Checkpoints => record = checkpoint

\* "The overall completion flag is written only after all three gates pass."
CompletionFollowsGates == record = "complete" => gates = {"wifi", "ble", "agent"}

\* It does if nothing comes between the two commits of the Wi-Fi gate.
CompletionNeedsGates == prone \subseteq {"burst"} => CompletionFollowsGates

\* With every fault: never complete with some of the gates, only with all of them or, by
\* the migration of a device that has credentials and no record, with none.
CompletionIsAllOrNothing ==
    record = "complete" => gates \in {{}, {"wifi", "ble", "agent"}}

\* What a record of completion is worth, with any faults.
CompletionIsEarned == CompletionNeedsGates /\ CompletionIsAllOrNothing

\* The scanning page ignores every key, so it is only shown while a scan is on its way.
ScanPageHasScan ==
    step = "wifi_scan" => scan \/ (\E i \in DOMAIN commands : commands[i] = "scan_wifi")

\* It is, also after commits that failed and cuts of power; a command that meets a full
\* queue or a result that is lost breaks it.
ScanStepHasScan == prone \subseteq {"commit", "power"} => ScanPageHasScan

\* The connecting page is left: an attempt ends in the next gate or back at the list, if
\* its report is neither lost nor followed by a commit that fails.
VerifyEnds ==
    (prone \subseteq {"burst", "power"} /\ step = "wifi_connect_verify")
        ~> step # "wifi_connect_verify"

\* "A failed attempt shows a bounded, human-readable reason and returns to retry": the
\* status that follows a failed candidate does not pass the Wi-Fi gate.
FailedTrialRetries ==
    [][WifiStatusChanged /\ failed => checkpoint' = checkpoint]_vars

\* "Completion requires a persisted bond and a live HID connection, rather than merely
\* observing an advertising or pairing callback": with both there, the step completes.
BleGateOpens ==
    (step = "ble_pair_guide" /\ bleReady) ~> (step # "ble_pair_guide" \/ ~bleReady)

=============================================================================
