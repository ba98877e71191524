---------------------------- MODULE AudioRecovery ----------------------------
(***************************************************************************)
(* The companion around its Bluetooth link (GattLink): the audio driver's   *)
(* server may be away, and the microphone is to be offered to the device    *)
(* only while it is there.  Three threads take part.  The main loop         *)
(* (CardputerCompanionMain) polls AudioBridgeCoordinator and reconnects;    *)
(* the heartbeat of each AudioDriverConnection finds the server gone and    *)
(* stops the connection; the queue of the link runs what both post to it.   *)
(* AudioBridgeRecoveryPolicy decides, under its lock, what to post; posting  *)
(* is a step after it, outside the lock.                                    *)
(*                                                                         *)
(* The server itself is "driver": it answers, or it does not.               *)
(***************************************************************************)
EXTENDS GattLink

CONSTANTS
  Conn,           (* identities of AudioDriverConnection objects, reused    *)
  none,           (* no connection                                          *)
  MaxLosses       (* how often the driver's server goes away                *)

ASSUME ConnAssumption == none \notin Conn /\ MaxLosses \in Nat

VARIABLES
  driver,         (* the driver's server answers                            *)
  leased,         (* connections whose lease the server still has           *)
  losses,         (* history: how often it went away                        *)
  current,        (* AudioBridgeCoordinator.connection                      *)
  ready,          (* per connection: ready                                  *)
  handler,        (* per connection: its readinessHandler is set            *)
  beat,           (* per connection: where its heartbeat is in stop()       *)
  policy,         (* AudioBridgeRecoveryPolicy                              *)
  main,           (* where the main thread is                               *)
  candidate,      (* the connection reconnectIfNeeded() has made            *)
  hung            (* a thread waits for the coordinator's lock it holds     *)

bridgeVars ==
  <<driver, leased, losses, current, ready, handler, beat, policy, main, candidate,
    hung>>
vars == <<linkVars, bridgeVars>>

Init ==
  /\ LinkInit
  /\ driver \in BOOLEAN /\ leased = {} /\ losses = 0
  /\ current = none
  /\ ready = [c \in Conn |-> FALSE]
  /\ handler = [c \in Conn |-> FALSE]
  /\ beat = [c \in Conn |-> "idle"]
  /\ policy = [bridge |-> FALSE, started |-> FALSE, audio |-> FALSE]
  /\ main = "poll" /\ candidate = none
  /\ hung = FALSE

-----------------------------------------------------------------------------
(* Calls of the receiver, posted to the queue of the link.                  *)
Post(call) ==
  /\ work' = Append(work, call)
  /\ UNCHANGED <<radioVars, sessionVars, recoveryVars, stopping, faults,
                 missed>>

(* isReady                                                                  *)
IsReady == current # none /\ ready[current]

(* bridgeReadinessChanged(): what the receiver is told.                     *)
Action(bridge) ==
  IF ~policy.started THEN "none"
  ELSE IF bridge THEN IF policy.audio THEN "resume" ELSE "restart"
  ELSE IF policy.audio THEN "suspend" ELSE "none"

BridgeReadinessChanged(bridge) ==
  policy' = [policy EXCEPT !.bridge = bridge,
                           !.audio = @ \/ (policy.started /\ bridge)]

(* reconnectIfNeeded(): hello, claim, map, first heartbeat; only then is    *)
(* the handler set, and only then is the connection the coordinator's.      *)
Reconnect ==
  /\ main = "poll" /\ ~hung /\ ~IsReady /\ driver
  /\ \E c \in Conn :
       /\ c # current /\ ~ready[c] /\ beat[c] = "idle"
       /\ leased' = leased \cup {c}
       /\ ready' = [ready EXCEPT ![c] = TRUE]
       /\ handler' = [handler EXCEPT ![c] = FALSE]
       /\ candidate' = c
  /\ main' = "assign"
  /\ UNCHANGED <<linkVars, driver, losses, current, beat, policy, hung>>

Assign ==
  /\ main = "assign"
  /\ handler' = [handler EXCEPT ![candidate] = TRUE]
  /\ main' = "install"
  /\ UNCHANGED <<linkVars, driver, leased, losses, current, ready, beat, policy,
                 candidate, hung>>

Install ==
  /\ main = "install" /\ ~hung
  /\ current' = candidate /\ candidate' = none
  /\ main' = "tell"
  /\ UNCHANGED <<linkVars, driver, leased, losses, ready, handler, beat, policy, hung>>

(* handler?(true): the policy first, then what it asks for.                 *)
TellReady ==
  /\ main = "tell"
  /\ BridgeReadinessChanged(TRUE)
  /\ main' = IF Action(TRUE) = "none" THEN "poll" ELSE Action(TRUE)
  /\ UNCHANGED <<linkVars, driver, leased, losses, current, ready, handler, beat,
                 candidate, hung>>

(* resumeAudioSink(), or stop() and, once through, start() with audio.      *)
Act ==
  /\ main \in {"resume", "restart", "startAudio"}
  /\ main' = IF main = "restart" THEN "startAudio" ELSE "poll"
  /\ Post(IF main = "restart" THEN "stop" ELSE main)
  /\ UNCHANGED <<driver, leased, losses, current, ready, handler, beat, policy,
                 candidate, hung>>

(* run(): after the first attempt the receiver starts, with or without.     *)
WillStart ==
  /\ main = "poll" /\ ~policy.started
  /\ policy' = [policy EXCEPT !.started = TRUE, !.audio = policy.bridge]
  /\ main' = "begin"
  /\ UNCHANGED <<linkVars, driver, leased, losses, current, ready, handler, beat,
                 candidate, hung>>

Begin ==
  /\ main = "begin"
  /\ main' = "poll"
  /\ Post(IF policy.audio THEN "startAudio" ELSE "start")
  /\ UNCHANGED <<driver, leased, losses, current, ready, handler, beat, policy,
                 candidate, hung>>

(* The end of run(): receiver.stop(), then audioBridge.stop().              *)
Quit ==
  /\ main = "poll" /\ policy.started /\ ~hung
  /\ main' = "closing"
  /\ Post("stop")
  /\ UNCHANGED <<driver, leased, losses, current, ready, handler, beat, policy,
                 candidate, hung>>

QuitBridge ==
  /\ main = "closing" /\ ~hung
  /\ main' = "done"
  /\ current' = none /\ leased' = leased \ {current}
  /\ ready' = [c \in Conn |-> ready[c] /\ c # current]
  /\ IF current = none
     THEN UNCHANGED <<linkVars, policy>>
     ELSE /\ BridgeReadinessChanged(FALSE)
          /\ IF Action(FALSE) = "suspend" THEN Post("suspend")
                                          ELSE UNCHANGED linkVars
  /\ UNCHANGED <<driver, losses, handler, beat, candidate, hung>>

-----------------------------------------------------------------------------
(* The server comes back, or goes away and forgets its leases; or a lease    *)
(* runs out, because the companion did not run for longer than it lasts.     *)
DriverReturns ==
  /\ ~driver /\ driver' = TRUE
  /\ UNCHANGED <<linkVars, leased, losses, current, ready, handler, beat,
                 policy, main, candidate, hung>>

LeaseIsLost ==
  /\ driver /\ losses < MaxLosses /\ losses' = losses + 1
  /\ leased' = {} /\ driver' \in BOOLEAN
  /\ UNCHANGED <<linkVars, current, ready, handler, beat, policy, main,
                 candidate, hung>>

DriverChanges == DriverReturns \/ LeaseIsLost

(* A heartbeat that meets no server, or one that does not know the lease,    *)
(* fails: stop() clears the connection under its lock and takes the handler  *)
(* that is set by then.                                                     *)
HeartbeatFails(c) ==
  /\ ready[c] /\ c \notin leased /\ main # "done"
  /\ ready' = [ready EXCEPT ![c] = FALSE]
  /\ beat' = [beat EXCEPT ![c] = IF handler[c] THEN "release" ELSE "idle"]
  /\ UNCHANGED <<linkVars, driver, leased, losses, current, handler, policy,
                 main, candidate, hung>>

(* The ring is reset and the lease released; driverBecameUnavailable() then *)
(* drops the coordinator's connection, whichever that is by now.  Dropping  *)
(* another one that is ready runs its deinit, and with it this handler      *)
(* again, under the lock that is held: the thread waits for itself.         *)
BecomeUnavailable(c) ==
  /\ beat[c] = "release" /\ ~hung
  /\ current' = none
  /\ hung' = IsReady
  /\ beat' = [beat EXCEPT ![c] = IF IsReady THEN "hung" ELSE "tell"]
  /\ UNCHANGED <<linkVars, driver, leased, losses, ready, handler, policy, main,
                 candidate>>

TellUnavailable(c) ==
  /\ beat[c] = "tell"
  /\ BridgeReadinessChanged(FALSE)
  /\ beat' = [beat EXCEPT ![c] = IF Action(FALSE) = "suspend" THEN "suspend"
                                 ELSE "idle"]
  /\ UNCHANGED <<linkVars, driver, leased, losses, current, ready, handler, main,
                 candidate, hung>>

SuspendSink(c) ==
  /\ beat[c] = "suspend"
  /\ beat' = [beat EXCEPT ![c] = "idle"]
  /\ Post("suspend")
  /\ UNCHANGED <<driver, leased, losses, current, ready, handler, policy, main,
                 candidate, hung>>

-----------------------------------------------------------------------------
Main ==
  \/ Reconnect \/ Assign \/ Install \/ TellReady \/ Act
  \/ WillStart \/ Begin \/ QuitBridge
Heartbeat(c) ==
  \/ HeartbeatFails(c) \/ BecomeUnavailable(c)
  \/ TellUnavailable(c) \/ SuspendSink(c)

Next ==
  \/ LinkNext /\ UNCHANGED bridgeVars
  \/ Main \/ Quit \/ DriverChanges
  \/ \E c \in Conn : Heartbeat(c)

Spec == Init /\ [][Next]_vars

(* Every thread goes on, timers fire, and CoreBluetooth delivers what is    *)
(* due; nobody has to quit the companion, and nothing has to fail.          *)
InLink(A) == A /\ UNCHANGED bridgeVars
Fairness ==
  /\ WF_vars(InLink(LinkCalls)) /\ WF_vars(InLink(LinkTimers))
  /\ WF_vars(InLink(LinkCallbacks)) /\ WF_vars(InLink(PoweredOn))
  /\ WF_vars(Main)
  /\ \A c \in Conn : WF_vars(Heartbeat(c))
FairSpec == Spec /\ Fairness

-----------------------------------------------------------------------------
(* Types.                                                                   *)
LinkTypeOK ==
  /\ stack \in {"down", "connecting", "up", "closing"}
  /\ owed \subseteq {"connect", "services", "characteristics", "unicode",
                     "data", "status", "write"}
  /\ pending \in Writes \cup {"none"} /\ sent \in Writes \cup {"none"}
  /\ phase \in Phases /\ timer \in {"none", "begin", "timeout"}
  /\ work \in Seq(Calls)
  /\ leased \subseteq Conn
  /\ current \in Conn \cup {none} /\ candidate \in Conn \cup {none}
  /\ ready \in [Conn -> BOOLEAN] /\ handler \in [Conn -> BOOLEAN]

(* The companion counts the sink as offered only while the device knows of  *)
(* it, on a link that holds, and no write is under way that would change it *)
(* (ProductGATTConnection.write drops what meets a pending write).          *)
ReadyIsDeclared ==
  session.ready /\ stack = "up" =>
    held /\ session.enabled /\ declared /\ pending = "none"

(* While the device holds a sink to be ready, the bridge is there, or its   *)
(* loss is on its way, or the suspension came before the sink was ready.    *)
SuspensionIsHeeded ==
  declared /\ ~session.ready /\ ~missed =>
    pending \in {"sinkNotReadyOnly", "sinkNotReadyDisconnect", "sinkReady"}

(* What companion and device believe of the sink, in both directions         *)
SinkIsHonest == ReadyIsDeclared /\ SuspensionIsHeeded

(* A device that stays in range of a Bluetooth that stays on is reached     *)
(* again and again, whatever failed before, until the companion stops.      *)
LinkRecovers ==
  <>[](power /\ near) => []<>(phase \in {"ready", "stopped"})

(* A driver that comes late turns a text-only session into one with audio.  *)
LateDriverUpgrades ==
  policy.audio ~> session.enabled

(* Link and audio come back, each when what it needs does.                    *)
AudioComesBack == LinkRecovers /\ LateDriverUpgrades

(* A companion that quits leaves no sink behind.                            *)
QuitWithdrawsSink == (main = "done") ~> ~declared

(* Said by docs/2026-07-26-cardputer-ble-microphone_PROGRESS.md:285: a lost  *)
(* driver withdraws the sink.                                               *)
DriverLossWithdrawsSink == <>[](~driver) => []<>(~declared)

(* And, of the same line, a driver that is back makes the sink ready again.  *)
RecoveredDriverIsReady ==
  <>[](driver /\ power /\ near) => []<>(declared \/ hung \/ stopping)

(* No thread waits for a lock it holds.                                     *)
NeverHangs == ~hung
=============================================================================
