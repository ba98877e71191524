---------------------------- MODULE WifiManager ----------------------------
(* The station side of firmware/main/product/wifi_manager.cpp: the state      *)
(* machine of the credentials, the wifi-state task that polls the event       *)
(* mailbox every 250 ms, the two entry points other tasks call at any time    *)
(* (product_wifi_save and product_wifi_reconnect, one call at a time), the    *)
(* radio they share, the credentials in flash, and the scan scheduler with     *)
(* product_wifi_scan, whose two stores and those of the loop are steps of     *)
(* their own. The back-off of a scan ends with the next loop or the one after *)
(* it and is left out.                                                        *)
EXTENDS Naturals, Sequences

CONSTANTS
    Networks,         \* the networks a user can enter, each with its one password
    Good,             \* those whose password the access point accepts
    Factory,          \* the credentials of the wifi_cfg partition, or NoCreds
    TimeoutTicks,     \* loops of the wifi-state task that make up 15 s
    AttemptLimit,     \* kWifiConnectAttemptLimit
    MailboxSlots,     \* usable slots of the mailbox, its capacity minus one
    Faults,           \* what the environment may do: FlashFails, Scans
    CallLimit,        \* bound: calls of product_wifi_save, _reconnect and _scan
    LossLimit,        \* bound: times an established link is lost
    BootLimit,        \* bound: restarts
    NoCreds           \* stands for an empty optional

ASSUME WifiAssumption ==
    /\ Good \subseteq Networks /\ NoCreds \notin Networks
    /\ NoCreds \notin [ssid : Networks, password : Networks]
    /\ Factory \in [ssid : Networks, password : Networks] \cup {NoCreds}
    /\ TimeoutTicks \in Nat \ {0} /\ AttemptLimit \in Nat \ {0} /\ MailboxSlots \in Nat \ {0}
    /\ Faults \subseteq {"flash", "scan"}
    /\ CallLimit \in Nat /\ LossLimit \in Nat /\ BootLimit \in Nat

VARIABLES
    machine,    \* g_machine
    waited,     \* loops since connect_started_ms_, at most TimeoutTicks
    late,       \* connect_started_ms_ is later than the now_ms of the running loop
    mailbox,    \* g_wifi_events
    task,       \* where the wifi-state task stands in its loop
    caller,     \* a call has changed g_machine and not yet the radio, or has set
                \* requested_ and not yet cleared failure_pending_
    scan,       \* g_scan_scheduler: requested_, failure_pending_ and in_flight_
    scanning,   \* the driver scans
    radio,      \* the network the station joins or has joined
    stored,     \* the keys ssid, password and override of the nvs partition
    reported,   \* the last state given to the status handler
    joinedOnce, \* history: the credentials the radio ever got an address with
    doubts,     \* history: what the code took on trust, until it is set right
    dropped,    \* the mailbox lost an event
    asked,      \* history: g_scan_handler was not called since the last request
    crossed,    \* history: that request took back the failure that answers it
    recovery,   \* the device started in recovery mode, with no network
    calls, losses, boots,
    prone       \* what the environment of this behaviour does

machineVars == <<machine, waited, late>>
callerVars == <<caller, calls>>
taskVars == <<task, reported>>
radioVars == <<radio, mailbox, dropped>>
scanVars == <<scan, scanning, asked, crossed>>
budgetVars == <<losses, boots, recovery, prone>>
flashVars == <<stored, doubts>>
networkVars == <<machineVars, flashVars, joinedOnce, budgetVars>>
vars == <<networkVars, callerVars, taskVars, radioVars, scanVars>>

States == {"idle", "connecting", "candidate_connecting", "rollback_connecting",
           "online", "offline", "provisioning"}
Timed == {"connecting", "candidate_connecting", "rollback_connecting"}

Credentials == [ssid : Networks, password : Networks]
Of(n) == [ssid |-> n, password |-> n]
Works(c) == \E n \in Good : c = Of(n)

FlashFails == "flash" \in prone      \* a write stops halfway: an error or a power cut
Scans == "scan" \in prone            \* a page asks for a scan

----------------------------------------------------------------------------
(* The state machine                                                          *)

Machine(state, selected, previous, attempts) ==
    [state |-> state, selected |-> selected, previous |-> previous, attempts |-> attempts]

\* An attempt that starts now: connect_started_ms_ = now_ms.
Attempt(state, selected, previous, attempts) ==
    machine' = Machine(state, selected, previous, attempts) /\ waited' = 0 /\ late' = FALSE

Settle(state) ==
    machine' = [machine EXCEPT !.state = state] /\ waited' = 0 /\ late' = FALSE

\* now_ms - connect_started_ms_ >= kWifiConnectTimeoutMs, in unsigned arithmetic: a start
\* later than now_ms makes the difference wrap to a huge number.
TimedOut == late \/ waited >= TimeoutTicks

LoadRuntime(keys) ==
    IF keys.ssid = NoCreds \/ keys.password = NoCreds THEN NoCreds
    ELSE [ssid |-> keys.ssid, password |-> keys.password]

\* The credentials begin() selects.
BootCredentials(keys) ==
    LET runtime == LoadRuntime(keys)
    IN  IF runtime # NoCreds /\ (keys.override \/ Factory = NoCreds) THEN runtime ELSE Factory

BootMachine(keys, recovering) ==
    LET chosen == IF recovering THEN NoCreds ELSE BootCredentials(keys)
    IN  IF chosen = NoCreds THEN Machine("provisioning", NoCreds, NoCreds, 0)
        ELSE Machine("connecting", chosen, NoCreds, 1)

\* A mistake the properties catch.
RollBack_KeepsCandidate ==
    IF machine.previous = NoCreds THEN Settle("offline")
    ELSE Attempt("rollback_connecting", machine.selected, machine.previous, machine.attempts)
\* The previous credentials, tried again, or nothing to go back to. undone says whether
\* the caller then acts on rollback_failed.
RollBack ==
    IF machine.previous = NoCreds THEN Settle("offline")
    ELSE Attempt("rollback_connecting", machine.previous, machine.previous, machine.attempts)

----------------------------------------------------------------------------
(* The radio and the mailbox                                                  *)

NoLink == [target |-> NoCreds, joined |-> FALSE]
Joining == radio.target # NoCreds /\ ~radio.joined

Push(event) ==
    IF Len(mailbox) < MailboxSlots
    THEN mailbox' = Append(mailbox, event) /\ UNCHANGED dropped
    ELSE dropped' = TRUE /\ UNCHANGED mailbox

\* esp_wifi_disconnect and then connect_selected
Rejoin(selected) ==
    /\ IF radio.target = NoCreds THEN UNCHANGED <<mailbox, dropped>> ELSE Push("disconnected")
    /\ radio' = [target |-> selected, joined |-> FALSE]

\* connect_selected alone: the driver keeps an established link.
Connect(selected) ==
    /\ radio' = IF radio.joined THEN radio ELSE [target |-> selected, joined |-> FALSE]
    /\ UNCHANGED <<mailbox, dropped>>

RadioJoins ==
    /\ Joining /\ Works(radio.target)
    /\ radio' = [radio EXCEPT !.joined = TRUE]
    /\ joinedOnce' = joinedOnce \cup {radio.target}
    /\ Push("got_ip")
    /\ UNCHANGED <<machineVars, callerVars, taskVars, flashVars, budgetVars, scanVars>>

RadioGivesUp ==
    /\ Joining
    /\ radio' = NoLink /\ Push("disconnected")
    /\ UNCHANGED <<machineVars, callerVars, taskVars, flashVars, joinedOnce, budgetVars, scanVars>>

RadioLosesLink ==
    /\ radio.joined /\ losses < LossLimit
    /\ losses' = losses + 1
    /\ radio' = NoLink /\ Push("disconnected")
    /\ UNCHANGED <<machineVars, callerVars, taskVars, flashVars, joinedOnce, boots, recovery, prone, scanVars>>

----------------------------------------------------------------------------
(* The calls of other tasks: the machine first, the radio in a later step     *)

\* Calls come at any time: nothing looks at what is under way.
CallBegins ==
    /\ caller = "none" /\ calls < CallLimit
    /\ calls' = calls + 1 /\ caller' = "radio" /\ waited' = 0
    /\ late' \in IF task = "delay" THEN {FALSE} ELSE BOOLEAN
    /\ UNCHANGED <<taskVars, radioVars, stored, joinedOnce, budgetVars, scanVars>>

\* An address of another network may yet be taken for that of the candidate.
Addressed == \E i \in 1..Len(mailbox) : mailbox[i] = "got_ip"
AddressWaits == Joining \/ task = "persist" \/ Addressed

\* The selected network is one that is not saved yet.
OnTrial == machine.state = "candidate_connecting" \/ task = "persist"

\* product_wifi_save: stage
Save(n) ==
    /\ CallBegins
    /\ machine' = Machine("candidate_connecting", Of(n), machine.selected, machine.attempts)
    /\ doubts' = (doubts \ {"trial", "report"}) \cup {d \in {"trial"} : AddressWaits}
                                                \cup {d \in {"rollback"} : OnTrial}

\* product_wifi_reconnect: connect_runtime
Reconnect ==
    /\ CallBegins
    /\ machine.selected # NoCreds
    /\ machine' = Machine("connecting", machine.selected, machine.previous, 1)
    /\ doubts' = (doubts \ {"report"}) \cup {d \in {"rollback"} : OnTrial}

CallReachesRadio ==
    /\ caller = "radio" /\ caller' = "none"
    /\ Rejoin(machine.selected)
    /\ reported' = "connecting"
    /\ UNCHANGED <<machineVars, task, flashVars, joinedOnce, calls, budgetVars, scanVars>>

----------------------------------------------------------------------------
(* The wifi-state task                                                        *)

\* now_ms is read. A call takes much less than one unit of the timeout.
LoopStarts ==
    /\ task = "delay" /\ task' = "events" /\ late' = FALSE
    /\ waited' = IF machine.state \in Timed /\ waited < TimeoutTicks /\ caller # "radio"
                 THEN waited + 1 ELSE waited
    /\ UNCHANGED <<machine, callerVars, reported, radioVars, flashVars, joinedOnce, budgetVars, scanVars>>

Pop(event) ==
    /\ task = "events" /\ mailbox # <<>> /\ Head(mailbox) = event
    /\ mailbox' = Tail(mailbox)
    /\ UNCHANGED <<radio, dropped, flashVars, joinedOnce, callerVars, budgetVars>>

\* on_connected: any address counts as the selected network's.
OnConnected ==
    machine' = Machine("online", machine.selected,
                       IF machine.state = "rollback_connecting" THEN NoCreds ELSE machine.previous,
                       0)

GotIp ==
    /\ Pop("got_ip")
    /\ OnConnected /\ waited' = 0 /\ late' = FALSE
    /\ UNCHANGED scanVars
    /\ IF machine.state = "candidate_connecting"
       THEN task' = "persist" /\ UNCHANGED reported
       ELSE reported' = "online" /\ UNCHANGED task

\* What persist_runtime_credentials leaves in flash when it stops after some of its writes.
PartlyWritten(c) ==
    {stored, [stored EXCEPT !.ssid = c.ssid],
     [stored EXCEPT !.ssid = c.ssid, !.password = c.password]}

Written(c) == [ssid |-> c.ssid, password |-> c.password, override |-> TRUE]

PersistSucceeds ==
    /\ task = "persist" /\ task' = "events"
    /\ stored' = Written(machine.selected)
    /\ machine' = [machine EXCEPT !.previous = NoCreds]
    /\ doubts' = (doubts \ {"flash", "rollback"}) \cup {d \in {"flash"} : "trial" \in doubts}
    /\ reported' = "online"
    /\ UNCHANGED <<waited, late, callerVars, radioVars, joinedOnce, budgetVars, scanVars>>

\* on_persist_failed: its result, rollback_failed included, is not looked at.
PersistFails ==
    /\ task = "persist" /\ FlashFails /\ task' = "persist_failed"
    /\ stored' \in PartlyWritten(machine.selected)
    /\ doubts' = doubts \cup {"flash", "rollback"} \cup {d \in {"report"} : machine.previous = NoCreds}
    /\ RollBack
    /\ UNCHANGED <<reported, callerVars, radioVars, joinedOnce, budgetVars, scanVars>>

\* The event is only looked at while online.
LinkLossCounts == machine.state = "online"

Disconnected ==
    /\ Pop("disconnected")
    /\ IF LinkLossCounts /\ machine.selected # NoCreds
       THEN /\ Attempt("connecting", machine.selected, machine.previous, 1)
            /\ task' = "connect" /\ reported' = "connecting"
       ELSE IF LinkLossCounts
       THEN Settle("offline") /\ reported' = "connecting" /\ UNCHANGED task
       ELSE UNCHANGED <<machineVars, taskVars>>
    /\ UNCHANGED scanVars

\* The radio calls that follow a decision of the loop: connect_selected reads the
\* selected credentials afresh.
RadioCalls ==
    /\ \/ /\ task \in {"persist_failed", "reconnect"}
          /\ Rejoin(machine.selected)
          /\ task' = IF task = "reconnect" THEN "delay" ELSE "events"
       \/ task = "connect" /\ Connect(machine.selected) /\ task' = "events"
    /\ reported' = "connecting"
    /\ UNCHANGED <<machineVars, callerVars, flashVars, joinedOnce, budgetVars, scanVars>>

\* A mistake the properties catch.
Stop_Silent ==
    /\ task = "stop" /\ task' = "delay"
    /\ radio' = NoLink
    /\ IF radio.target = NoCreds THEN UNCHANGED <<mailbox, dropped>> ELSE Push("disconnected")
    /\ UNCHANGED <<machineVars, callerVars, reported, flashVars, joinedOnce, budgetVars, scanVars>>
\* esp_wifi_disconnect and the offline report
Stop ==
    /\ task = "stop" /\ task' = "delay"
    /\ radio' = NoLink /\ reported' = "offline"
    /\ IF radio.target = NoCreds THEN UNCHANGED <<mailbox, dropped>> ELSE Push("disconnected")
    /\ UNCHANGED <<machineVars, callerVars, flashVars, joinedOnce, budgetVars, scanVars>>

MayRetry == machine.attempts < AttemptLimit

(* The scan scheduler                                                         *)

\* WifiScanScheduler::request: the first of its two stores, and the second.
RequestScan ==
    /\ Scans /\ caller = "none" /\ calls < CallLimit
    /\ calls' = calls + 1 /\ caller' = "scan"
    /\ scan' = [scan EXCEPT !.requested = TRUE]
    /\ asked' = TRUE /\ crossed' = FALSE
    /\ UNCHANGED <<networkVars, taskVars, radioVars, scanning>>

RequestReturns ==
    /\ caller = "scan" /\ caller' = "none"
    /\ scan' = [scan EXCEPT !.failure = FALSE]
    /\ crossed' = (scan.failure /\ ~scan.requested)
    /\ UNCHANGED <<networkVars, taskVars, radioVars, calls, scanning, asked>>

ScanDue == scan.failure \/ (scan.requested /\ ~scan.inFlight)

\* WifiScanScheduler::tick and what the driver answers: it is still connecting, it scans,
\* or it refuses for another reason.
TickScan ==
    /\ task = "events" /\ mailbox = <<>> /\ ScanDue
    /\ \/ /\ scan.failure /\ task' = "tick"
          /\ scan' = [scan EXCEPT !.failure = FALSE] /\ asked' = FALSE
          /\ UNCHANGED scanning
       \/ /\ ~scan.failure
          /\ \/ Joining /\ task' = "tick" /\ UNCHANGED scanning
             \/ task' = "scan_started" /\ scanning' = TRUE
             \/ task' = "scan_refused" /\ UNCHANGED scanning
          /\ UNCHANGED <<scan, asked>>
    /\ UNCHANGED <<networkVars, callerVars, reported, radioVars, crossed>>

\* WifiScanScheduler::on_start_result: a refusal is two stores.
ScanStartResult ==
    /\ \/ /\ task = "scan_started" /\ task' = "tick"
          /\ scan' = [scan EXCEPT !.requested = FALSE, !.inFlight = TRUE]
       \/ /\ task = "scan_refused" /\ task' = "scan_failed"
          /\ scan' = [scan EXCEPT !.requested = FALSE]
       \/ /\ task = "scan_failed" /\ task' = "tick"
          /\ scan' = [scan EXCEPT !.failure = TRUE]
    /\ UNCHANGED <<networkVars, callerVars, reported, radioVars, scanning, asked, crossed>>

ScanEnds ==
    /\ scanning /\ scanning' = FALSE /\ Push("scan_done")
    /\ UNCHANGED <<networkVars, callerVars, taskVars, radio, scan, asked, crossed>>

\* WifiScanScheduler::completed, and the handler is given what was found.
ScanDone ==
    /\ task = "events" /\ mailbox # <<>> /\ Head(mailbox) = "scan_done"
    /\ mailbox' = Tail(mailbox)
    /\ scan' = [scan EXCEPT !.inFlight = FALSE] /\ asked' = FALSE
    /\ UNCHANGED <<networkVars, callerVars, taskVars, radio, dropped, scanning, crossed>>

NoScan == [requested |-> FALSE, failure |-> FALSE, inFlight |-> FALSE]

----------------------------------------------------------------------------
\* WifiStateMachine::tick
TickMachine ==
    \/ /\ machine.state = "candidate_connecting" /\ TimedOut
       /\ RollBack
       /\ task' = IF machine.previous = NoCreds THEN "stop" ELSE "reconnect"
    \/ /\ machine.state = "rollback_connecting" /\ TimedOut
       /\ Settle("offline") /\ task' = "stop"
    \/ /\ machine.state = "connecting" /\ TimedOut /\ MayRetry
       /\ Attempt("connecting", machine.selected, machine.previous, machine.attempts + 1)
       /\ task' = "reconnect"
    \/ /\ machine.state = "connecting" /\ TimedOut /\ ~MayRetry
       /\ Settle("offline") /\ task' = "stop"
    \/ /\ ~(machine.state \in Timed /\ TimedOut)
       /\ UNCHANGED machineVars /\ task' = "delay"

Tick ==
    /\ task = "tick" \/ (task = "events" /\ mailbox = <<>> /\ ~ScanDue)
    /\ TickMachine
    /\ doubts' = doubts \cup {d \in {"report"} : caller = "radio" /\ machine'.state = "offline"}
    /\ UNCHANGED <<reported, callerVars, radioVars, stored, joinedOnce, budgetVars, scanVars>>

----------------------------------------------------------------------------
(* Power                                                                      *)

BootsWith(keys) ==
    /\ machine' = BootMachine(keys, recovery') /\ waited' = 0 /\ late' = FALSE
    /\ radio' = IF machine'.selected = NoCreds THEN NoLink
                ELSE [target |-> machine'.selected, joined |-> FALSE]
    /\ reported' = IF machine'.selected = NoCreds THEN "provisioning" ELSE "connecting"
    /\ mailbox' = <<>> /\ dropped' = FALSE
    /\ task' = "delay" /\ caller' = "none"
    /\ scan' = NoScan /\ scanning' = FALSE /\ asked' = FALSE /\ crossed' = FALSE

\* A restart loses all but the flash; in the middle of a persist it may leave part of it.
Restart ==
    /\ boots < BootLimit /\ boots' = boots + 1
    /\ task = "persist" => FlashFails
    /\ stored' \in IF task = "persist" THEN PartlyWritten(machine.selected) ELSE {stored}
    /\ doubts' = {d \in {"flash"} : d \in doubts \/ task = "persist"}
    /\ recovery' \in BOOLEAN
    /\ BootsWith(stored')
    /\ UNCHANGED <<calls, joinedOnce, losses, prone>>

\* A device that comes from the factory, or that already saved a network it had joined.
Init ==
    \E c \in {NoCreds} \cup {Of(n) : n \in Good} :
        /\ stored = IF c = NoCreds
                    THEN [ssid |-> NoCreds, password |-> NoCreds, override |-> FALSE]
                    ELSE Written(c)
        /\ machine = BootMachine(stored, FALSE)
        /\ radio = IF machine.selected = NoCreds THEN NoLink
                   ELSE [target |-> machine.selected, joined |-> FALSE]
        /\ reported = IF machine.selected = NoCreds THEN "provisioning" ELSE "connecting"
        /\ joinedOnce = {c, Factory} \ {NoCreds}
        /\ waited = 0 /\ late = FALSE /\ mailbox = <<>> /\ dropped = FALSE
        /\ task = "delay" /\ caller = "none" /\ calls = 0 /\ losses = 0 /\ boots = 0
        /\ doubts = {} /\ recovery = FALSE /\ prone \in SUBSET Faults
        /\ scan = NoScan /\ scanning = FALSE /\ asked = FALSE /\ crossed = FALSE

TaskStep ==
    \/ LoopStarts \/ GotIp \/ PersistSucceeds \/ PersistFails \/ Disconnected
    \/ RadioCalls \/ Stop \/ Tick \/ TickScan \/ ScanStartResult \/ ScanDone

Next ==
    \/ \E n \in Networks : Save(n)
    \/ Reconnect \/ CallReachesRadio
    \/ RequestScan \/ RequestReturns \/ ScanEnds
    \/ TaskStep
    \/ RadioJoins \/ RadioGivesUp \/ RadioLosesLink
    \/ Restart

\* Both tasks keep running, and a scan of the driver ends; the radio owes nothing else.
Fairness ==
    /\ WF_vars(TaskStep) /\ WF_vars(CallReachesRadio) /\ WF_vars(RequestReturns)
    /\ WF_vars(ScanEnds)
Spec == Init /\ [][Next]_vars /\ Fairness

----------------------------------------------------------------------------
(* Properties                                                                 *)

\* Types: the machine, the task and the reports stay within their ranges.
WifiTypeOK ==
    /\ machine \in [state : States, selected : Credentials \cup {NoCreds},
                    previous : Credentials \cup {NoCreds}, attempts : 0..AttemptLimit]
    /\ waited \in 0..TimeoutTicks /\ late \in BOOLEAN /\ dropped \in BOOLEAN
    /\ task \in {"delay", "events", "scan_started", "scan_refused", "scan_failed", "tick",
                "persist", "persist_failed", "connect", "reconnect", "stop"}
    /\ caller \in {"none", "radio", "scan"}
    /\ doubts \subseteq {"trial", "flash", "rollback", "report"}
    /\ scan \in [requested : BOOLEAN, failure : BOOLEAN, inFlight : BOOLEAN]
    /\ machine.state \in Timed => machine.selected # NoCreds

\* Only credentials the radio got an address with are in flash: a candidate is tried
\* before it is saved (settings navigation design, steps 3 and 4).
SavedPairWasJoined == LoadRuntime(stored) \in joinedOnce \cup {NoCreds}

\* They are, however calls overlap the loop and each other, until a candidate is saved
\* that was staged while an address of another network was on its way, or a write of them
\* stops halfway; the next candidate that is saved after a trial of its own sets it right.
SavedWasJoined == "flash" \notin doubts => SavedPairWasJoined

\* A rollback goes back to the credentials boot would select, those in use before the
\* candidate (nav design: a failed candidate restores the prior network); without any, or
\* after a start in recovery mode, there is no network to go back to.
RollbackIsHome ==
    machine.state = "rollback_connecting" =>
        machine.selected = BootCredentials(stored) \/ BootCredentials(stored) = NoCreds \/ recovery

\* It does not when a call came in the middle of a trial, which makes an untried network the
\* previous one, or a write stopped halfway, until a save succeeds or the device restarts.
RollsBackToSaved == "rollback" \notin doubts => RollbackIsHome

\* Flash is the network a device can trust: what is there was joined, and what was tried in
\* vain gives way to it.
SavedIsTrusted == SavedWasJoined /\ RollsBackToSaved

\* A candidate is given up only after its 15 seconds (nav design, step 3). The code gives
\* it up at once when it was staged after the loop read its clock: the unsigned difference
\* of on_candidate_timeout wraps.
TrialGetsItsTime ==
    [][machine.state = "candidate_connecting" /\ Tick =>
         machine'.state = "candidate_connecting" \/ waited >= TimeoutTicks]_vars

\* The handler hears "online" only of a network that a restart would select again:
\* "obtaining an IP commits" the credentials before onboarding goes on.
OnlineIsSaved ==
    [][reported' = "online" /\ reported # "online" =>
         machine'.selected = BootCredentials(stored')]_vars

\* Every attempt to join ends: in an address, in a rollback that ends, or offline, and
\* the status handler hears of it. No candidate is tried for ever.
ConnectingEnds == reported = "connecting" ~> reported # "connecting"

\* It does, with two exceptions until the next call. A write fails with nothing to roll
\* back to: the rollback_failed of on_persist_failed is not looked at. The loop, whose clock
\* was read before the call, settles the attempt before the call comes to the radio, and
\* the call reports it after that.
ReportResolves ==
    LET heard == "report" \notin doubts
    IN  (reported = "connecting" /\ heard) ~> (reported # "connecting" \/ ~heard)

\* A lost link is noticed: the machine does not stay online without one, unless the mailbox
\* was full of earlier joins and losses when the event came.
StaleOnlineEnds ==
    LET stale == machine.state = "online" /\ ~radio.joined /\ ~dropped
    IN  stale ~> ~stale

\* A page that asks for a scan hears of its end, with or without networks.
EveryScanIsAnswered == []<>Joining \/ (asked ~> ~asked)

\* The same for a request that did not take back a failure. It does not hold either: a scan
\* that ends on a full mailbox is in flight for ever.
UncrossedScanIsAnswered == []<>Joining \/ ((asked /\ ~crossed) ~> (~asked \/ crossed))

\* It does once the radio comes to rest, which does not scan while it joins a network, and
\* unless the request found its own failure pending and took it back: request() clears
\* failure_pending_ after it has set requested_, which the loop may have handled by then.
\* A scan whose end found the mailbox full is never over.
ScanIsAnswered ==
    LET heard == ~crossed /\ ~dropped
    IN  []<>Joining \/ ((asked /\ heard) ~> (~asked \/ ~heard))

\* Nobody waits for the station for ever: an attempt gets its answer, a link that is lost
\* is not shown as one, and a page that asks for networks gets some or none.
StationSettles == ReportResolves /\ StaleOnlineEnds /\ ScanIsAnswered

============================================================================
