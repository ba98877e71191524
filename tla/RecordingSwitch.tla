-------------------------- MODULE RecordingSwitch --------------------------
(***************************************************************************)
(* What the microphone promises its callers and its user (rules 1-9 of     *)
(* docs/superpowers/specs/2026-07-26-cardputer-ble-microphone-design.md),  *)
(* with rates, packets and the capture hardware hidden: recording starts    *)
(* only from ready and only by a click, every loss of the sink ends in      *)
(* unavailable, a sink that comes back leads to ready and never to          *)
(* recording, and a fault is left only through a loss of the sink.          *)
(* MicrophoneController implements it; MicrophoneRuntime builds on it.      *)
(***************************************************************************)
VARIABLE mode

Modes == {"unavailable", "ready", "recording", "failed"}
SwitchAnswers == {"sent", "dropped", "not_ready", "fatal_failure"}

SwitchInit == mode = "unavailable"

SinkReadyCall == mode' = IF mode = "unavailable" THEN "ready" ELSE mode

SinkLostCall == mode' = "unavailable"

(* A start may fail; a click elsewhere than in ready and recording is lost. *)
ClickCall ==
  \/ mode = "ready" /\ mode' \in {"recording", "failed"}
  \/ mode = "recording" /\ mode' = "ready"
  \/ mode \in {"unavailable", "failed"} /\ UNCHANGED mode

(* A frame is captured and offered to the radio, with the radio's answer.   *)
FrameCall(answer) ==
  /\ mode = "recording"
  /\ mode' = IF answer = "not_ready" THEN "unavailable"
             ELSE IF answer = "fatal_failure" THEN "failed"
             ELSE mode

(* No frame comes out of the capture: a fault, unless it only timed out.    *)
NoFrameCall == mode = "recording" /\ mode' \in {"recording", "failed"}

(* A loss window ends; restarting the capture at the lower rate may fail.   *)
WindowCall == \/ mode = "recording" /\ mode' = "failed"
              \/ UNCHANGED mode

SwitchNext ==
  \/ SinkReadyCall
  \/ SinkLostCall
  \/ ClickCall
  \/ \E answer \in SwitchAnswers : FrameCall(answer)
  \/ NoFrameCall
  \/ WindowCall

SwitchSpec == SwitchInit /\ [][SwitchNext]_mode
=============================================================================
