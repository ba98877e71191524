------------------------------ MODULE GattLink ------------------------------
(***************************************************************************)
(* The companion's half of the Bluetooth link: ProductGATTConnection with   *)
(* its session (ProductGATTSessionState) and its recovery policy            *)
(* (ProductGATTRecoveryPolicy).  All of it runs on one serial queue, which  *)
(* takes calls of other threads (start, stop, suspend, resume), timers and  *)
(* the callbacks of CoreBluetooth one at a time.                            *)
(*                                                                         *)
(* CoreBluetooth and the device are external: "stack" is the link as        *)
(* CoreBluetooth sees it, "owed" the callbacks it has still to deliver and  *)
(* "declared" what the device was last told of the sink.  The device forgets *)
(* its declaration with the link: macOS ends the subscriptions of an        *)
(* application whose connection ends, and the device resets on both.        *)
(* Retry and watchdog delays are not counted: a timer that is set may fire. *)
(***************************************************************************)
EXTENDS Naturals, Sequences

CONSTANTS
  MaxFaults       (* how often Bluetooth or the device fails                *)

ASSUME LinkAssumption == MaxFaults \in Nat

VARIABLES
  power,          (* central.state = poweredOn                             *)
  near,           (* the device advertises, or answers a connect           *)
  stack,          (* "down", "connecting", "up", or "closing": the callback *)
                  (* of the disconnect is still to come                     *)
  wanted,         (* a connect was asked for while the stack was closing    *)
  owed,           (* callbacks of the link that are still to come           *)
  scanning,       (* scanForPeripherals is in effect                        *)
  held,           (* self.peripheral # nil                                  *)
  session,        (* ProductGATTSessionState                                *)
  pending,        (* pendingWrite                                           *)
  sent,           (* what the write on its way to the device says           *)
  stopping,       (* intentionalStop                                        *)
  phase,          (* recovery.phase                                         *)
  timer,          (* recoveryTimer: "none", "begin" or "timeout"            *)
  work,           (* calls that wait on the queue                           *)
  bound,          (* the device took BIND1 on this link                     *)
  declared,       (* the device holds a sink to be ready                    *)
  faults,         (* history: faults so far                                 *)
  missed          (* history: the last suspension met a session that was    *)
                  (* not ready yet, and was ignored                         *)

radioVars == <<power, near, stack, wanted, owed, scanning, bound, declared>>
sessionVars == <<held, session, pending, sent>>
recoveryVars == <<phase, timer>>
linkVars ==
  <<radioVars, sessionVars, recoveryVars, stopping, work, faults, missed>>

NewSession(audio) ==
  [enabled |-> audio, bindComplete |-> FALSE, data |-> FALSE, status |-> FALSE,
   notifications |-> FALSE, negotiated |-> FALSE, ready |-> FALSE]

(* "new" is the idle of a connection that was never started: the central     *)
(* manager is made with the first start, and reports after it.              *)
Phases == {"new", "idle", "scanning", "connecting", "discovering",
           "subscribing", "ready", "stopped"}
Writes == {"bind", "hello", "sinkReady", "sinkNotReadyDisconnect",
           "sinkNotReadyOnly"}
Calls == {"start", "startAudio", "stop", "suspend", "resume"}

LinkInit ==
  /\ power = FALSE /\ near = TRUE
  /\ stack = "down" /\ wanted = FALSE /\ owed = {} /\ scanning = FALSE
  /\ held = FALSE /\ session = NewSession(FALSE)
  /\ pending = "none" /\ sent = "none" /\ stopping = FALSE
  /\ phase = "new" /\ timer = "none"
  /\ work = <<>>
  /\ bound = FALSE /\ declared = FALSE
  /\ faults = 0 /\ missed = FALSE

Fault == faults < MaxFaults /\ faults' = faults + 1
NoFault == UNCHANGED faults

-----------------------------------------------------------------------------
(* ProductGATTRecoveryPolicy.apply(): the phase an event leads to, and the  *)
(* timer that guards it.  Once stopped, only a start counts.  (A decision   *)
(* to cancel never finds a peripheral: every caller has let go of it.)      *)
Decision(event) ==
  LET To(p, t) == [phase |-> p, timer |-> t]
  IN IF phase = "stopped" /\ event # "start" THEN To("stopped", "none")
     ELSE CASE event \in {"start", "poweredOn"} -> To("scanning", "begin")
            [] event = "unavailable"   -> To("idle", "none")
            [] event = "scanStarted"   -> To("scanning", "timeout")
            [] event = "candidate"     -> To("connecting", "timeout")
            [] event = "connected"     -> To("discovering", "timeout")
            [] event = "subscribing"   -> To("subscribing", "timeout")
            [] event = "ready"         -> To("ready", "none")
            [] event \in {"failed", "disconnected"} -> To("scanning", "begin")
            [] event \in {"intentional", "stop"} -> To("stopped", "none")

(* applyRecovery(): the timer of the last decision never outlives it.       *)
(* A mistake the properties catch.                                          *)
ApplyRecovery_NoWatchdog(event) ==
  /\ phase' = Decision(event).phase
  /\ timer' = IF Decision(event).timer = "timeout" THEN "none"
              ELSE Decision(event).timer
ApplyRecovery(event) ==
  /\ phase' = Decision(event).phase
  /\ timer' = Decision(event).timer

(* cancelPeripheralConnection(): the link closes and owes one callback.     *)
Closed(s) == IF s = "down" THEN "down" ELSE "closing"
CancelLink ==
  /\ stack' = Closed(stack) /\ wanted' = FALSE /\ owed' = {}
  /\ bound' = FALSE /\ declared' = FALSE /\ sent' = "none"
KeepLink == UNCHANGED <<stack, wanted, owed, bound, declared, sent>>

(* clearConnectionState(): session.didDisconnect() forgets the handshake.   *)
ClearConnectionState ==
  /\ held' = FALSE
  /\ pending' = "none"
  /\ session' = NewSession(session.enabled)

(* recoverConnection(): let go of the link and try again later; nothing      *)
(* during an intentional stop.                                              *)
RecoverConnection ==
  IF stopping
  THEN /\ KeepLink
       /\ UNCHANGED <<held, pending, session, scanning, recoveryVars>>
  ELSE /\ scanning' = FALSE
       /\ ClearConnectionState
       /\ IF held THEN CancelLink ELSE KeepLink
       /\ ApplyRecovery("failed")

(* write(): one at a time; what finds another under way is not sent.        *)
Write(kind) ==
  /\ pending' = IF held /\ pending = "none" THEN kind ELSE pending
  /\ sent' = IF held /\ pending = "none" THEN kind ELSE sent
  /\ owed' = IF held /\ pending = "none" THEN owed \cup {"write"} ELSE owed

-----------------------------------------------------------------------------
(* The calls of other threads, as the queue comes to them.                  *)
Take(call) ==
  /\ work # <<>> /\ Head(work) = call
  /\ work' = Tail(work)
  /\ UNCHANGED <<power, near, faults>>

(* start(): a new session, whatever link is still there.                    *)
Start(audio) ==
  /\ Take(IF audio THEN "startAudio" ELSE "start")
  /\ stopping' = FALSE
  /\ session' = NewSession(audio)
  /\ ApplyRecovery("start")
  /\ missed' = FALSE
  /\ KeepLink
  /\ UNCHANGED <<held, pending, scanning>>

(* stop(): a ready sink is withdrawn first, and the answer disconnects.     *)
(* The caller waits for the disconnect for half a second at most.           *)
(* A mistake the properties catch.                                          *)
Stop_KeepsLink ==
  /\ Take("stop")
  /\ stopping' = TRUE
  /\ scanning' = FALSE
  /\ ApplyRecovery("stop")
  /\ session' = [session EXCEPT !.ready = FALSE]
  /\ IF session.ready THEN Write("sinkNotReadyDisconnect")
                      ELSE UNCHANGED <<owed, sent, pending>>
  /\ UNCHANGED <<held, missed, stack, wanted, bound, declared>>
Stop ==
  /\ Take("stop")
  /\ stopping' = TRUE
  /\ scanning' = FALSE
  /\ ApplyRecovery("stop")
  /\ session' = [session EXCEPT !.ready = FALSE]
  /\ IF session.ready
     THEN /\ Write("sinkNotReadyDisconnect")
          /\ UNCHANGED <<stack, wanted, bound, declared>>
     ELSE /\ IF held THEN CancelLink ELSE KeepLink
          /\ UNCHANGED pending
  /\ UNCHANGED <<held, missed>>

(* suspendAudio(): beginAudioSuspension() withdraws a sink that is ready,   *)
(* and ignores one that is about to become so.                              *)
Suspend ==
  /\ Take("suspend")
  /\ session' = [session EXCEPT !.ready = FALSE]
  /\ missed' = ~session.ready
  /\ IF session.ready THEN Write("sinkNotReadyOnly")
                      ELSE UNCHANGED <<owed, sent, pending>>
  /\ UNCHANGED <<stack, wanted, bound, declared, held, stopping, scanning,
                 recoveryVars>>

(* resumeAudio(): offers the sink again once the protocol is negotiated.    *)
Resume ==
  /\ Take("resume")
  /\ IF /\ session.enabled /\ session.notifications /\ session.negotiated
        /\ ~session.ready
     THEN Write("sinkReady")
     ELSE UNCHANGED <<owed, sent, pending>>
  /\ missed' = FALSE
  /\ UNCHANGED <<stack, wanted, bound, declared, held, session, stopping,
                 scanning, recoveryVars>>

-----------------------------------------------------------------------------
(* connect(): a link that macOS holds already answers as a new one does.    *)
Connect ==
  /\ scanning' = FALSE /\ held' = TRUE
  /\ ApplyRecovery("candidate")
  /\ wanted' = (stack = "closing")
  /\ stack' = IF stack = "down" THEN "connecting" ELSE stack
  /\ owed' = owed \cup {"connect"}

TimerGoes ==
  /\ timer # "none"
  /\ UNCHANGED <<power, near, work, missed, stopping>>

(* beginConnection(): a device that is connected already is not scanned for. *)
BeginConnection ==
  /\ timer = "begin" /\ TimerGoes /\ NoFault
  /\ UNCHANGED <<session, pending, sent, bound, declared>>
  /\ IF phase = "stopped" \/ ~power \/ held
     THEN /\ timer' = "none"
          /\ UNCHANGED <<phase, stack, wanted, owed, held, scanning>>
     ELSE IF stack = "up"
     THEN Connect
     ELSE /\ scanning' = TRUE
          /\ ApplyRecovery("scanStarted")
          /\ UNCHANGED <<stack, wanted, owed, held>>

(* What the device or CoreBluetooth is about to deliver.                    *)
CallbackDue ==
  \/ owed \ {"connect"} # {}
  \/ near /\ "connect" \in owed
  \/ near /\ scanning /\ stack # "up" /\ ~held
  \/ stack = "closing"

(* The watchdog of a phase that should have ended.  In eight seconds what is *)
(* due has come; a watchdog that is faster counts as a fault.               *)
TimedOut ==
  /\ timer = "timeout" /\ TimerGoes
  /\ IF CallbackDue THEN Fault ELSE NoFault
  /\ RecoverConnection

-----------------------------------------------------------------------------
(* Callbacks of CoreBluetooth.                                              *)
Callback(name) ==
  /\ name \in owed
  /\ UNCHANGED <<power, near, work, stopping, missed>>

(* centralManagerDidUpdateState(): Bluetooth goes on or off; with it every  *)
(* link is gone, and no callback tells of it.                               *)
PoweredOn ==
  /\ ~power /\ phase # "new" /\ power' = TRUE
  /\ ApplyRecovery("poweredOn")
  /\ KeepLink
  /\ UNCHANGED <<near, held, session, pending, scanning, stopping, work,
                 faults, missed>>

PoweredOff ==
  /\ power /\ Fault /\ power' = FALSE
  /\ stack' = "down" /\ wanted' = FALSE /\ owed' = {}
  /\ bound' = FALSE /\ declared' = FALSE /\ sent' = "none"
  /\ scanning' = FALSE
  /\ IF held THEN ClearConnectionState ELSE UNCHANGED <<held, pending, session>>
  /\ ApplyRecovery("unavailable")
  /\ UNCHANGED <<near, stopping, work, missed>>

DidDiscover ==
  /\ scanning /\ near /\ stack # "up"
  /\ phase # "stopped" /\ ~held
  /\ Connect
  /\ UNCHANGED <<power, near, session, pending, sent, bound, declared,
                 stopping, work, faults, missed>>

DidConnect ==
  /\ Callback("connect") /\ near /\ stack \in {"connecting", "up"}
  /\ stack' = "up"
  /\ IF held THEN /\ ApplyRecovery("connected")
                  /\ owed' = (owed \ {"connect"}) \cup {"services"}
             ELSE /\ owed' = owed \ {"connect"}
                  /\ UNCHANGED recoveryVars
  /\ NoFault
  /\ UNCHANGED <<wanted, scanning, sessionVars, bound, declared>>

DidFailToConnect ==
  /\ Callback("connect") /\ stack = "connecting" /\ Fault
  /\ stack' = "down" /\ wanted' = FALSE /\ owed' = {}
  /\ bound' = FALSE /\ declared' = FALSE /\ sent' = "none"
  /\ IF held /\ ~stopping
     THEN /\ scanning' = FALSE
          /\ ClearConnectionState
          /\ ApplyRecovery("failed")
     ELSE UNCHANGED <<held, pending, session, scanning, recoveryVars>>

(* The link drops, or the device restarts: its callback comes later.        *)
LinkDrops ==
  /\ stack = "up" /\ Fault
  /\ CancelLink
  /\ UNCHANGED <<power, near, scanning, held, session, pending, recoveryVars,
                 stopping, work, missed>>

(* didDisconnectPeripheral: it names the device, not the link that ended,   *)
(* so a connect that is already on its way is taken for the one that ended. *)
DidDisconnect ==
  /\ stack = "closing"
  /\ stack' = IF wanted THEN "connecting" ELSE "down"
  /\ owed' = IF wanted THEN {"connect"} ELSE {}
  /\ wanted' = FALSE
  /\ IF held THEN /\ ClearConnectionState
                  /\ ApplyRecovery(IF stopping THEN "intentional"
                                               ELSE "disconnected")
             ELSE UNCHANGED <<held, pending, session, recoveryVars>>
  /\ UNCHANGED <<power, near, scanning, sent, bound, declared, stopping, work,
                 faults, missed>>

DidDiscoverServices ==
  /\ Callback("services") /\ NoFault
  /\ owed' = (owed \ {"services"})
               \cup (IF held THEN {"characteristics"} ELSE {})
  /\ UNCHANGED <<stack, wanted, scanning, sessionVars, recoveryVars, bound,
                 declared>>

(* All are found: subscribe to text and bind.                               *)
DidDiscoverCharacteristics ==
  /\ Callback("characteristics") /\ NoFault
  /\ UNCHANGED <<stack, wanted, scanning, held, session, bound, declared>>
  /\ IF held
     THEN /\ ApplyRecovery("subscribing")
          /\ pending' = IF pending = "none" THEN "bind" ELSE pending
          /\ sent' = IF pending = "none" THEN "bind" ELSE sent
          /\ owed' = (owed \ {"characteristics"})
                       \cup {"unicode"}
                       \cup (IF pending = "none" THEN {"write"} ELSE {})
     ELSE /\ owed' = owed \ {"characteristics"}
          /\ UNCHANGED <<recoveryVars, pending, sent>>

(* Discovery, a subscription or a write of the handshake fails.             *)
StepFails ==
  /\ Fault /\ held /\ ~stopping
  /\ \E name \in owed \ {"connect"} : Callback(name)
  /\ "write" \in owed => pending \in {"bind", "hello", "sinkReady"}
  /\ RecoverConnection

(* didSetAudioNotification(): the hello follows the second subscription.    *)
DidNotify(name) ==
  /\ Callback(name) /\ name \in {"unicode", "data", "status"} /\ NoFault
  /\ UNCHANGED <<stack, wanted, scanning, held, bound, declared, recoveryVars>>
  /\ LET data == session.data \/ name = "data"
         status == session.status \/ name = "status"
         hello == /\ held /\ name # "unicode"
                  /\ session.bindComplete /\ session.enabled
                  /\ data /\ status /\ ~session.negotiated
         send == hello /\ pending = "none"
     IN /\ session' = IF held /\ name # "unicode"
                      THEN [session EXCEPT !.data = data, !.status = status,
                              !.notifications = (@ \/ hello)]
                      ELSE session
        /\ pending' = IF send THEN "hello" ELSE pending
        /\ sent' = IF send THEN "hello" ELSE sent
        /\ owed' = (owed \ {name}) \cup (IF send THEN {"write"} ELSE {})

(* The device takes the write (BIND1 first, audio control once bound), and  *)
(* the callback tells of it: the device goes by what was sent, the          *)
(* connection by what is pending.                                           *)
DeviceTakes ==
  /\ bound' = (bound \/ sent = "bind")
  /\ declared' = CASE sent = "sinkReady" -> bound
                   [] sent \in {"sinkNotReadyDisconnect", "sinkNotReadyOnly"} ->
                        FALSE
                   [] OTHER -> declared

(* didWriteBind(), didWriteAudioHello(), didWriteSinkReady().               *)
(* A mistake the properties catch.                                          *)
AfterWrite_ReadyEarly(kind) ==
  CASE kind = "bind"      -> [session EXCEPT !.bindComplete = TRUE]
    [] kind = "hello"     ->
         [session EXCEPT !.negotiated = TRUE, !.ready = TRUE]
    [] OTHER              -> session
AfterWrite(kind) ==
  CASE kind = "bind"      -> [session EXCEPT !.bindComplete = TRUE]
    [] kind = "hello"     -> [session EXCEPT !.negotiated = TRUE]
    [] kind = "sinkReady" -> [session EXCEPT !.ready = TRUE]
    [] OTHER              -> session

(* didWriteValueFor: what follows a write that went well.                   *)
DidWrite ==
  /\ Callback("write") /\ NoFault
  /\ UNCHANGED <<scanning, held>>
  /\ LET kind == IF held THEN pending ELSE "none"
         next == IF kind = "hello" THEN "sinkReady" ELSE "none"
     IN /\ session' = AfterWrite(kind)
        /\ pending' = IF kind = "none" THEN pending ELSE next
        /\ IF kind = "sinkNotReadyDisconnect"
           THEN CancelLink
           ELSE /\ DeviceTakes
                /\ sent' = next
                /\ owed' = CASE kind = "bind" /\ session.enabled ->
                                  (owed \ {"write"}) \cup {"data", "status"}
                             [] kind = "hello" -> owed
                             [] OTHER -> owed \ {"write"}
                /\ UNCHANGED <<stack, wanted>>
        /\ IF \/ kind = "bind" /\ ~session.enabled
              \/ kind = "sinkReady"
           THEN ApplyRecovery("ready")
           ELSE UNCHANGED recoveryVars

(* A withdrawal that fails is not repeated; one that should disconnect does. *)
WithdrawalFails ==
  /\ "write" \in owed /\ held /\ Fault
  /\ pending \in {"sinkNotReadyOnly", "sinkNotReadyDisconnect"}
  /\ pending' = "none"
  /\ missed' = TRUE
  /\ IF pending = "sinkNotReadyDisconnect"
     THEN CancelLink
     ELSE /\ owed' = owed \ {"write"} /\ sent' = "none"
          /\ UNCHANGED <<stack, wanted, bound, declared>>
  /\ UNCHANGED <<power, near, scanning, held, session, recoveryVars, stopping,
                 work>>

(* The device goes out of range, or comes back.                             *)
RangeChanges ==
  /\ near' = ~near
  /\ IF near THEN Fault /\ stack # "up" ELSE NoFault
  /\ UNCHANGED <<power, stack, wanted, owed, scanning, bound, declared,
                 sessionVars, recoveryVars, stopping, work, missed>>

-----------------------------------------------------------------------------
LinkCalls ==
  \/ Start(TRUE) \/ Start(FALSE) \/ Stop \/ Suspend \/ Resume
LinkCallbacks ==
  \/ DidDiscover \/ DidConnect \/ DidDisconnect
  \/ DidDiscoverServices \/ DidDiscoverCharacteristics
  \/ (\E name \in {"unicode", "data", "status"} : DidNotify(name))
  \/ DidWrite
LinkTimers == BeginConnection \/ TimedOut
LinkFaults ==
  \/ PoweredOff \/ DidFailToConnect \/ LinkDrops \/ StepFails
  \/ WithdrawalFails \/ RangeChanges

LinkNext ==
  \/ LinkCalls \/ LinkCallbacks \/ LinkTimers \/ PoweredOn \/ LinkFaults
=============================================================================
