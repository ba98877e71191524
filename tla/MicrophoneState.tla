--------------------------- MODULE MicrophoneState ---------------------------
(***************************************************************************)
(* The microphone state machine of firmware/main/product/                  *)
(* microphone_state.cpp.  OnXEvent(m) is what apply() does for event X on   *)
(* machine m: the transition it returns and the machine it leaves behind.  *)
(* g0_ignored changes nothing, and reset is never raised by the product.   *)
(*                                                                         *)
(* Names of the form X_Y are faulty variants of the operator X, one        *)
(* plausible slip each; no specification uses them.                        *)
(***************************************************************************)
EXTENDS Naturals

CONSTANT
  PreferredRate    (* the rate a click starts with (preferred_rate_)       *)

Rates == {"hz24000", "hz16000"}

ASSUME PreferredRateAssumption == PreferredRate \in Rates

States ==
  {"unavailable", "ready", "starting", "live24", "live16", "stopping", "error"}

LiveStates == {"live24", "live16"}

(* The members of MicrophoneStateMachine; preferred_rate_ is the constant. *)
Machine ==
  [state : States, targetRate : Rates, sinkReady : BOOLEAN, badWindows : 0..2]

BootMachine ==
  [state |-> "unavailable", targetRate |-> PreferredRate,
   sinkReady |-> FALSE, badWindows |-> 0]

CaptureActiveOrPending(m) ==
  m.state \in LiveStates \cup {"starting", "stopping"}

LiveStateOf(rate) == IF rate = "hz24000" THEN "live24" ELSE "live16"

(* The transition structure: the machine after the event, the command the  *)
(* controller must carry out, and whether the stream is discontinuous.     *)
Result(m, command, discontinuity) ==
  [machine |-> m, command |-> command, discontinuity |-> discontinuity]

Quiet(m) == Result(m, "none", FALSE)

(* The machine in another state, with the sink flag it had.                 *)
MoveTo(m, state, rate, badWindows) ==
  [state |-> state, targetRate |-> rate, sinkReady |-> m.sinkReady,
   badWindows |-> badWindows]

(* A stop is commanded exactly when a capture may be running.              *)
Halted(before, after) ==
  Result(after,
         IF CaptureActiveOrPending(before) THEN "stop_capture" ELSE "none",
         FALSE)

OnSinkReadyEvent_ClearsError(m) ==
  Quiet([m EXCEPT !.sinkReady = TRUE,
                  !.state = IF @ \in {"unavailable", "error"} THEN "ready"
                                                             ELSE @])
OnSinkReadyEvent(m) ==
  Quiet([state |-> IF m.state = "unavailable" THEN "ready" ELSE m.state,
         targetRate |-> m.targetRate, sinkReady |-> TRUE,
         badWindows |-> m.badWindows])

(* Every member goes back to its value at boot.                             *)
OnSinkLostEvent(m) == Halted(m, BootMachine)

OnClickEvent(m) ==
  IF m.state = "ready" /\ m.sinkReady
  THEN Result(MoveTo(m, "starting", PreferredRate, 0), "start_capture", FALSE)
  ELSE IF m.state \in LiveStates
       THEN Result(MoveTo(m, "stopping", m.targetRate, 0), "stop_capture", FALSE)
       ELSE Quiet(m)

(* Only a starting machine goes live; if the sink went meanwhile, the       *)
(* capture that just started is stopped again.                              *)
OnStartedEvent(m) ==
  IF m.state = "starting" /\ ~m.sinkReady
  THEN Result(MoveTo(m, "unavailable", m.targetRate, m.badWindows),
              "stop_capture", FALSE)
  ELSE IF m.state = "starting"
       THEN Quiet(MoveTo(m, LiveStateOf(m.targetRate), m.targetRate, 0))
       ELSE Quiet(m)

OnStoppedEvent(m) ==
  Quiet(IF m.state = "stopping"
        THEN MoveTo(m, IF m.sinkReady THEN "ready" ELSE "unavailable",
                    m.targetRate, m.badWindows)
        ELSE m)

OnGoodWindowEvent(m) ==
  Quiet(IF m.state \in LiveStates
        THEN MoveTo(m, m.state, m.targetRate, 0) ELSE m)

OnBadWindowEvent_OtherRate(m) ==
  IF m.state \notin LiveStates THEN Quiet(m)
  ELSE IF m.badWindows = 0
       THEN Quiet(MoveTo(m, m.state, m.targetRate, 1))
       ELSE Result(MoveTo(m, "starting",
                          IF m.state = "live24" THEN "hz16000" ELSE "hz24000",
                          0),
                   "restart_capture_16k", TRUE)

(* The second bad window in a row restarts the capture at 16 kHz, from     *)
(* either live state.                                                      *)
OnBadWindowEvent(m) ==
  IF m.state \notin LiveStates THEN Quiet(m)
  ELSE IF m.badWindows = 0
       THEN Quiet(MoveTo(m, m.state, m.targetRate, 1))
       ELSE Result(MoveTo(m, "starting", "hz16000", 0),
                   "restart_capture_16k", TRUE)

OnFatalEvent(m) == Halted(m, MoveTo(m, "error", m.targetRate, 0))
=============================================================================
