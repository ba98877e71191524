------------------------ MODULE MicrophoneController ------------------------
(***************************************************************************)
(* MicrophoneController (firmware/main/product/microphone_controller.cpp): *)
(* the object the audio task drives.  It owns the state machine, the PDM   *)
(* capture and the flags of the next packet.  Every action below is one    *)
(* call of a public method, with everything that method does before it     *)
(* returns: the transition, the command it executes, and the transition    *)
(* that command triggers in turn.  Only the audio task calls these         *)
(* methods, so each call is one step.                                      *)
(*                                                                         *)
(* What the hardware and the radio answer (does the capture start, what    *)
(* does a read return, what happens to the packet) is chosen by the        *)
(* environment.  Saturating statistics counters are left out.              *)
(***************************************************************************)
EXTENDS MicrophoneState

CONSTANTS
  NoSignalFrameLimit,   (* kMicrophoneNoSignalFrameLimit: 16               *)
  SequenceModulus       (* packets carry a 16-bit sequence number          *)

ASSUME ControllerAssumption ==
  /\ NoSignalFrameLimit \in Nat \ {0}
  /\ SequenceModulus \in Nat \ {0}

VARIABLES
  machine,              (* state_machine_, published after every change    *)
  capture,              (* "off", or the rate the PDM capture runs at      *)
  startPending,         (* start_pending_                                  *)
  discontinuityPending, (* discontinuity_pending_                          *)
  silentFrames,         (* no_signal_frame_count_                          *)
  nextSequence,         (* next_sequence_                                  *)
  failure,              (* failure_, shown by the UI                       *)
  heard                 (* history: rate of the last packet the radio took *)
                        (* in this recording, "none" before the first      *)

controllerVars ==
  <<machine, capture, startPending, discontinuityPending, silentFrames,
    nextSequence, failure, heard>>

Live == machine.state \in LiveStates
LiveRate == IF machine.state = "live24" THEN "hz24000" ELSE "hz16000"

Init ==
  /\ machine = BootMachine
  /\ capture = "off"
  /\ startPending = FALSE
  /\ discontinuityPending = FALSE
  /\ silentFrames = 0
  /\ nextSequence \in 0 .. SequenceModulus - 1
  /\ failure = "none"
  /\ heard = "none"

-----------------------------------------------------------------------------
(* fail(): the fatal event, its stop command, and the cleared packet flags. *)
Fail(m, reason) ==
  /\ machine' = OnFatalEvent(m).machine
  /\ capture' = "off"
  /\ startPending' = FALSE
  /\ discontinuityPending' = FALSE
  /\ failure' = reason
  /\ heard' = "none"

StopCapture_OnlyWhenStopping(t) ==
  /\ capture' = IF t.machine.state = "stopping" THEN "off" ELSE capture
  /\ machine' = IF t.machine.state = "stopping"
                THEN OnStoppedEvent(t.machine).machine
                ELSE t.machine

(* execute(stop_capture): the capture stops before the machine is told.    *)
StopCapture(t) ==
  /\ capture' = "off"
  /\ machine' = IF t.machine.state = "stopping"
                THEN OnStoppedEvent(t.machine).machine
                ELSE t.machine

(* execute(start_capture): capture_.start() succeeds or the session fails. *)
CaptureStarts(t) ==
  LET started == OnStartedEvent(t.machine)
  IN  /\ failure' = "none"
      /\ silentFrames' = 0
      /\ machine' = started.machine
      /\ capture' = IF started.command = "stop_capture"
                    THEN "off" ELSE t.machine.targetRate

-----------------------------------------------------------------------------
OnSinkReady ==
  /\ machine' = OnSinkReadyEvent(machine).machine
  /\ UNCHANGED <<capture, startPending, discontinuityPending, silentFrames,
                 nextSequence, failure, heard>>

(* stop_for_disconnect(), also reached from on_sink_ready(false) and from  *)
(* a packet the transport answers with not_ready.                          *)
StopForDisconnect ==
  LET t == OnSinkLostEvent(machine)
  IN  /\ IF t.command = "stop_capture"
         THEN StopCapture(t)
         ELSE machine' = t.machine /\ UNCHANGED capture
      /\ startPending' = FALSE
      /\ discontinuityPending' = FALSE
      /\ silentFrames' = 0
      /\ failure' = "none"
      /\ heard' = "none"

OnSinkLost == StopForDisconnect /\ UNCHANGED nextSequence

(* on_g0_click(): starts from ready, stops a live recording, and otherwise  *)
(* only clears the flags of a packet that will not be sent.                 *)
OnG0Click ==
  LET t == OnClickEvent(machine)
  IN  /\ UNCHANGED nextSequence
      /\ \/ /\ t.command = "start_capture"
            /\ CaptureStarts(t)
            /\ startPending' = TRUE
            /\ discontinuityPending' = FALSE
            /\ heard' = "none"
         \/ /\ t.command = "start_capture"
            /\ Fail(t.machine, "init_failed")
            /\ silentFrames' = 0
         \/ /\ t.command = "stop_capture"
            /\ StopCapture(t)
            /\ startPending' = FALSE
            /\ discontinuityPending' = FALSE
            /\ heard' = "none"
            /\ UNCHANGED <<silentFrames, failure>>
         \/ /\ t.command = "none"
            /\ startPending' = FALSE
            /\ discontinuityPending' = FALSE
            /\ UNCHANGED <<machine, capture, silentFrames, failure, heard>>

(* on_loss_window(): the verdict on the last five seconds of a recording.  *)
OnLossWindow(good) ==
  LET t == IF good THEN OnGoodWindowEvent(machine)
                   ELSE OnBadWindowEvent(machine)
  IN  /\ UNCHANGED nextSequence
      /\ \/ /\ t.command = "restart_capture_16k"
            /\ CaptureStarts(t)
            /\ discontinuityPending' = TRUE
            /\ UNCHANGED <<startPending, heard>>
         \/ /\ t.command = "restart_capture_16k"
            /\ Fail(t.machine, "init_failed")
            /\ silentFrames' = 0
         \/ /\ t.command = "none"
            /\ machine' = t.machine
            /\ UNCHANGED <<capture, startPending, discontinuityPending,
                           silentFrames, failure, heard>>

-----------------------------------------------------------------------------
(* run_once(), path by path.  A read that times out or overruns changes     *)
(* nothing but a statistics counter, so it is a stuttering step.            *)

(* The capture, the encoder or the packet header fails.                     *)
ReadFails ==
  /\ Live
  /\ Fail(machine, "init_failed")
  /\ UNCHANGED <<silentFrames, nextSequence>>

(* The frame is the one that completes a run of constant low-level PCM.     *)
NoSignal ==
  /\ Live
  /\ silentFrames + 1 >= NoSignalFrameLimit
  /\ Fail(machine, "no_signal")
  /\ silentFrames' = NoSignalFrameLimit
  /\ UNCHANGED nextSequence

(* A packet the radio only dropped leaves its flags for the next one; a     *)
(* taken packet has delivered them and an ended recording discards them.    *)
FlagsSurvive(answer) == answer = "dropped"

NextSequence(n) == (n + 1) % SequenceModulus

(* A frame is captured (constant and low, or not) and offered to the radio;  *)
(* its sequence number is spent whatever the radio answers.                 *)
SendFrame(constant, answer) ==
  /\ Live
  /\ constant => silentFrames + 1 < NoSignalFrameLimit
  /\ nextSequence' = NextSequence(nextSequence)
  /\ \/ /\ answer \in {"sent", "dropped"}
        /\ startPending' = (startPending /\ FlagsSurvive(answer))
        /\ discontinuityPending' =
             (discontinuityPending /\ FlagsSurvive(answer))
        /\ heard' = IF answer = "sent" THEN LiveRate ELSE heard
        /\ silentFrames' = IF constant THEN silentFrames + 1 ELSE 0
        /\ UNCHANGED <<machine, capture, failure>>
     \/ /\ answer = "not_ready"
        /\ StopForDisconnect
     \/ /\ answer = "fatal_failure"
        /\ Fail(machine, "init_failed")
        /\ silentFrames' = IF constant THEN silentFrames + 1 ELSE 0

Answers == {"sent", "dropped", "not_ready", "fatal_failure"}

-----------------------------------------------------------------------------
Next ==
  \/ OnSinkReady
  \/ OnSinkLost
  \/ OnG0Click
  \/ \E good \in BOOLEAN : OnLossWindow(good)
  \/ ReadFails
  \/ NoSignal
  \/ \E constant \in BOOLEAN, answer \in Answers : SendFrame(constant, answer)

Spec == Init /\ [][Next]_controllerVars

-----------------------------------------------------------------------------
(* Every variable of the controller has the type its C++ member has.       *)
TypeOK ==
  /\ machine \in Machine
  /\ capture \in Rates \cup {"off"}
  /\ startPending \in BOOLEAN
  /\ discontinuityPending \in BOOLEAN
  /\ silentFrames \in 0 .. NoSignalFrameLimit
  /\ nextSequence \in 0 .. SequenceModulus - 1
  /\ failure \in {"none", "init_failed", "no_signal"}
  /\ heard \in Rates \cup {"none"}

(* No hot microphone: between two calls of the controller the PDM capture  *)
(* runs exactly when the published state is live, and at the rate that the  *)
(* state names (execute() chains start, started, stop and fatal paths).     *)
CaptureMatchesState ==
  capture = IF Live THEN LiveRate ELSE "off"

(* A recording is possible only while the machine has been told that the    *)
(* sink is there: in ready and live the sink flag is set, and no call leaves *)
(* the machine in the transient states starting and stopping.               *)
LiveOnlyWithSink ==
  /\ machine.state \in LiveStates \cup {"ready"} => machine.sinkReady
  /\ machine.state \notin {"starting", "stopping"}

(* What the receiver needs to resynchronise: while recording, the next      *)
(* packet carries START until the radio has taken one packet, and carries    *)
(* DISCONTINUITY whenever its rate is not the rate of the last packet taken. *)
NextPacketFlags ==
  Live => /\ startPending <=> heard = "none"
          /\ heard \notin {"none", LiveRate} => discontinuityPending

(* The failure the UI reports and the error state come and go together.     *)
FailureIsError == failure # "none" <=> machine.state = "error"

(* Rules 8 and 9 of the microphone design: capture goes from off to on only  *)
(* in a step that handles a click in ready; a sink that comes back, a window *)
(* verdict or a packet never starts it.                                      *)
StartNeedsClick ==
  [][capture = "off" /\ capture' # "off" =>
       /\ machine.state = "ready"
       /\ startPending']_controllerVars

(* Within one recording the rate only falls: a live capture at 16 kHz never  *)
(* goes back to 24 kHz without an off period in between.                     *)
RateOnlyFalls ==
  [][capture = "hz16000" => capture' # "hz24000"]_controllerVars

(* What a recording is between two calls: no hot microphone, a receiver that *)
(* can resynchronise, and an error that is shown as one.                     *)
RecordingIsSafe == CaptureMatchesState /\ NextPacketFlags /\ FailureIsError

(* What a call may not do to a recording: start it without a click, or raise *)
(* its rate again.                                                           *)
RecordingSteps == StartNeedsClick /\ RateOnlyFalls

(* Rule 11 of the microphone design: at 16 kHz a second bad window in a row  *)
(* leads to the error state, because there is no lower rate to fall to.      *)
LowestRateFails ==
  [][/\ machine.state = "live16" /\ machine.badWindows = 1
     /\ OnLossWindow(FALSE)
       => machine'.state = "error"]_controllerVars

-----------------------------------------------------------------------------
(* The mode the user sees (the status bar of the display reads the same).   *)
Mode ==
  IF machine.state \in LiveStates \cup {"starting", "stopping"} THEN "recording"
  ELSE IF machine.state = "error" THEN "failed"
  ELSE machine.state

Switch == INSTANCE RecordingSwitch WITH mode <- Mode

(* The controller implements the promise, call by call: whatever the        *)
(* hardware does, each method changes the mode only as the switch says (a    *)
(* failed start, a restart at 16 kHz and a lost packet included).            *)
ImplementsSwitch ==
  /\ Switch!SwitchSpec
  /\ [][/\ OnSinkReady => Switch!SinkReadyCall
        /\ OnSinkLost => Switch!SinkLostCall
        /\ OnG0Click => Switch!ClickCall
        /\ ReadFails \/ NoSignal => Switch!NoFrameCall
        /\ \A answer \in Answers :
             (\E constant \in BOOLEAN : SendFrame(constant, answer)) =>
               Switch!FrameCall(answer)
        /\ \A good \in BOOLEAN : OnLossWindow(good) => Switch!WindowCall
       ]_controllerVars
=============================================================================
