-------------------------- MODULE Microphone_proofs --------------------------
(***************************************************************************)
(* Theorems about the microphone controller, for every preferred rate,     *)
(* every silence limit and every sequence modulus, and about the tasks      *)
(* around it, for every depth of their queues.                             *)
(***************************************************************************)
EXTENDS MicrophoneController, MicrophoneRuntime, TLAPS

(* The inductive invariant: the type invariant and the four relations       *)
(* between the machine, the capture, the packet flags and the failure.      *)
IInv ==
  /\ TypeOK
  /\ CaptureMatchesState
  /\ LiveOnlyWithSink
  /\ NextPacketFlags
  /\ FailureIsError

-----------------------------------------------------------------------------
(* Halted carries the new machine and commands a stop for a busy old one.   *)
LEMMA HaltedResult ==
  ASSUME NEW before, NEW after
  PROVE  /\ Halted(before, after).machine = after
         /\ Halted(before, after).command =
              IF CaptureActiveOrPending(before) THEN "stop_capture" ELSE "none"
  BY Zenon DEF Halted, Result

(* What a sink_lost event does to any machine: it ends unavailable, and a   *)
(* stop is commanded exactly when a capture may be running.                 *)
LEMMA SinkLostResult ==
  ASSUME NEW m \in Machine
  PROVE  /\ OnSinkLostEvent(m).machine \in Machine
         /\ OnSinkLostEvent(m).machine.state = "unavailable"
         /\ OnSinkLostEvent(m).command =
              IF CaptureActiveOrPending(m) THEN "stop_capture" ELSE "none"
  <1>1. /\ OnSinkLostEvent(m).machine = BootMachine
        /\ OnSinkLostEvent(m).command =
             IF CaptureActiveOrPending(m) THEN "stop_capture" ELSE "none"
    BY HaltedResult, Zenon DEF OnSinkLostEvent
  <1>2. BootMachine \in Machine /\ BootMachine.state = "unavailable"
    BY PreferredRateAssumption DEF BootMachine, Machine, States
  <1>3. QED
    BY <1>1, <1>2

(* A fatal event ends in the error state.                                   *)
LEMMA FatalResult ==
  ASSUME NEW m \in Machine
  PROVE  /\ OnFatalEvent(m).machine \in Machine
         /\ OnFatalEvent(m).machine.state = "error"
  <1>1. OnFatalEvent(m).machine = MoveTo(m, "error", m.targetRate, 0)
    BY HaltedResult, Zenon DEF OnFatalEvent
  <1>2. QED
    BY <1>1 DEF MoveTo, Machine, States

(* A click commands a start only from ready with the sink there, a stop only *)
(* from a live state, and is otherwise without effect on the machine.        *)
LEMMA ClickResult ==
  ASSUME NEW m \in Machine
  PROVE  LET t == OnClickEvent(m) IN
         /\ t.machine \in Machine
         /\ \/ /\ t.command = "start_capture"
               /\ m.state = "ready" /\ m.sinkReady
               /\ t.machine.state = "starting" /\ t.machine.sinkReady
            \/ /\ t.command = "stop_capture"
               /\ m.state \in LiveStates
               /\ t.machine.state = "stopping"
               /\ t.machine.sinkReady = m.sinkReady
            \/ /\ t.command = "none"
               /\ m.state \notin LiveStates
               /\ ~(m.state = "ready" /\ m.sinkReady)
               /\ t.machine = m
  <1>1. CASE m.state = "ready" /\ m.sinkReady
    BY <1>1, PreferredRateAssumption
       DEF OnClickEvent, Result, MoveTo, Machine, States
  <1>2. CASE m.state \in LiveStates
    BY <1>2 DEF OnClickEvent, Result, MoveTo, Machine, States, LiveStates
  <1>3. CASE m.state \notin LiveStates /\ ~(m.state = "ready" /\ m.sinkReady)
    BY <1>3 DEF OnClickEvent, Quiet, Result
  <1>4. QED
    BY <1>1, <1>2, <1>3

(* A machine that is starting with the sink there goes live at its target.  *)
LEMMA StartedResult ==
  ASSUME NEW m \in Machine, m.state = "starting", m.sinkReady
  PROVE  /\ OnStartedEvent(m).machine \in Machine
         /\ OnStartedEvent(m).machine.state = LiveStateOf(m.targetRate)
         /\ OnStartedEvent(m).machine.sinkReady
         /\ OnStartedEvent(m).command = "none"
  BY DEF OnStartedEvent, Quiet, Result, MoveTo, Machine, States, LiveStateOf

(* A machine that is stopping comes to rest where its sink flag says.       *)
LEMMA StoppedResult ==
  ASSUME NEW m \in Machine, m.state = "stopping"
  PROVE  /\ OnStoppedEvent(m).machine \in Machine
         /\ OnStoppedEvent(m).machine.sinkReady = m.sinkReady
         /\ OnStoppedEvent(m).machine.state =
              IF m.sinkReady THEN "ready" ELSE "unavailable"
  BY DEF OnStoppedEvent, Quiet, Result, MoveTo, Machine, States

(* A window verdict either leaves state and sink alone or, from a live       *)
(* state, commands a restart at 16 kHz.                                     *)
LEMMA WindowResult ==
  ASSUME NEW m \in Machine, NEW good \in BOOLEAN
  PROVE  LET t == IF good THEN OnGoodWindowEvent(m) ELSE OnBadWindowEvent(m) IN
         /\ t.machine \in Machine
         /\ t.machine.sinkReady = m.sinkReady
         /\ \/ /\ t.command = "none"
               /\ t.machine.state = m.state
            \/ /\ t.command = "restart_capture_16k"
               /\ m.state \in LiveStates
               /\ t.machine.state = "starting"
               /\ t.machine.targetRate = "hz16000"
  <1>1. CASE good
    BY <1>1 DEF OnGoodWindowEvent, Quiet, Result, MoveTo, Machine, States, LiveStates
  <1>2. CASE ~good
    BY <1>2 DEF OnBadWindowEvent, Quiet, Result, MoveTo, Machine, States, LiveStates,
                Rates
  <1>3. QED
    BY <1>1, <1>2

(* The silence counter may be zero.                                         *)
LEMMA ZeroIsACount == 0 \in 0 .. NoSignalFrameLimit
  <1>1. NoSignalFrameLimit \in Nat
    BY ControllerAssumption
  <1>2. QED
    BY <1>1

-----------------------------------------------------------------------------
(* A step that ends in Fail preserves the invariant, whatever machine the   *)
(* fatal event is applied to.                                               *)
LEMMA FailKeepsIInv ==
  ASSUME NEW m \in Machine, NEW reason \in {"init_failed", "no_signal"},
         Fail(m, reason),
         silentFrames' \in 0 .. NoSignalFrameLimit,
         nextSequence' \in 0 .. SequenceModulus - 1
  PROVE  /\ IInv'
         /\ machine'.state = "error" /\ capture' = "off"
  <1>1. machine' \in Machine /\ machine'.state = "error"
    BY FatalResult DEF Fail
  <1>2. /\ capture' = "off" /\ startPending' = FALSE
        /\ discontinuityPending' = FALSE /\ failure' = reason
        /\ heard' = "none"
    BY DEF Fail
  <1>3. TypeOK'
    BY <1>1, <1>2 DEF TypeOK
  <1>4. QED
    BY <1>1, <1>2, <1>3
       DEF IInv, CaptureMatchesState, LiveOnlyWithSink, NextPacketFlags,
           FailureIsError, Live, LiveStates

(* Starting the capture for a machine that waits for it leaves a live state  *)
(* and a capture that runs at the target rate.                              *)
LEMMA CaptureStartsResult ==
  ASSUME NEW t, t.machine \in Machine, t.machine.state = "starting",
         t.machine.sinkReady, CaptureStarts(t)
  PROVE  /\ machine' \in Machine
         /\ machine'.state = LiveStateOf(t.machine.targetRate)
         /\ machine'.sinkReady
         /\ capture' = t.machine.targetRate
         /\ failure' = "none"
         /\ silentFrames' = 0
  <1>1. /\ OnStartedEvent(t.machine).machine \in Machine
        /\ OnStartedEvent(t.machine).machine.state =
             LiveStateOf(t.machine.targetRate)
        /\ OnStartedEvent(t.machine).machine.sinkReady
        /\ OnStartedEvent(t.machine).command = "none"
    BY StartedResult
  <1>2. QED
    BY <1>1, Zenon DEF CaptureStarts

(* Losing the sink ends in unavailable with everything of the recording     *)
(* forgotten.                                                               *)
LEMMA DisconnectKeepsIInv ==
  ASSUME IInv, StopForDisconnect, nextSequence' \in 0 .. SequenceModulus - 1
  PROVE  /\ IInv'
         /\ machine'.state = "unavailable" /\ capture' = "off"
  <1> DEFINE t == OnSinkLostEvent(machine)
  <1>1. machine \in Machine
    BY DEF IInv, TypeOK
  <1>2. /\ t.machine \in Machine
        /\ t.machine.state = "unavailable"
        /\ t.command =
             IF CaptureActiveOrPending(machine) THEN "stop_capture" ELSE "none"
    BY <1>1, SinkLostResult
  <1> HIDE DEF t
  <1>3. IF t.command = "stop_capture"
        THEN StopCapture(t)
        ELSE machine' = t.machine /\ UNCHANGED capture
    BY DEF StopForDisconnect, t
  <1>4. ASSUME t.command = "stop_capture"
        PROVE  machine' = t.machine /\ capture' = "off"
    BY <1>2, <1>3, <1>4 DEF StopCapture
  <1>5. ASSUME t.command # "stop_capture"
        PROVE  machine' = t.machine /\ capture' = "off"
    <2>1. machine' = t.machine /\ capture' = capture
      BY <1>3, <1>5
    <2>2. ~Live
      BY <1>2, <1>5 DEF CaptureActiveOrPending, Live, LiveStates
    <2>3. QED
      BY <2>1, <2>2 DEF IInv, CaptureMatchesState
  <1>6. machine' = t.machine /\ capture' = "off"
    BY <1>4, <1>5
  <1>7. /\ startPending' = FALSE /\ discontinuityPending' = FALSE
        /\ silentFrames' = 0 /\ failure' = "none" /\ heard' = "none"
    BY DEF StopForDisconnect
  <1>8. TypeOK'
    BY <1>2, <1>6, <1>7, ZeroIsACount DEF TypeOK
  <1>9. QED
    BY <1>2, <1>6, <1>7, <1>8
       DEF IInv, CaptureMatchesState, LiveOnlyWithSink, NextPacketFlags,
           FailureIsError, Live, LiveStates

-----------------------------------------------------------------------------
(* The boot state is in the invariant.                                      *)
LEMMA InitIInv == Init => IInv
  <1> SUFFICES ASSUME Init PROVE IInv
    OBVIOUS
  <1>1. BootMachine \in Machine /\ BootMachine.state = "unavailable"
    BY PreferredRateAssumption DEF BootMachine, Machine, States
  <1>2. TypeOK
    BY <1>1, ZeroIsACount DEF Init, TypeOK
  <1>3. QED
    BY <1>1, <1>2 DEF Init, IInv, CaptureMatchesState, LiveOnlyWithSink,
       NextPacketFlags, FailureIsError, Live, LiveStates

(* One call of the controller: the invariant is kept, the capture starts     *)
(* only out of ready with START pending, and a 16 kHz capture never becomes  *)
(* a 24 kHz one.                                                             *)
StepFacts ==
  /\ IInv'
  /\ capture = "off" /\ capture' # "off" =>
       machine.state = "ready" /\ startPending'
  /\ capture = "hz16000" => capture' # "hz24000"

LEMMA SinkReadyStep ==
  ASSUME IInv, OnSinkReady
  PROVE  StepFacts /\ Switch!SinkReadyCall
  <1> DEFINE n == OnSinkReadyEvent(machine).machine
  <1>1. machine \in Machine
    BY DEF IInv, TypeOK
  <1>2. /\ n \in Machine
        /\ n.sinkReady
        /\ n.state = IF machine.state = "unavailable" THEN "ready"
                                                      ELSE machine.state
    BY <1>1 DEF OnSinkReadyEvent, Quiet, Result, Machine, States
  <1> HIDE DEF n
  <1>3. /\ machine' = n
        /\ UNCHANGED <<capture, startPending, discontinuityPending,
                       silentFrames, nextSequence, failure, heard>>
    BY DEF OnSinkReady, n
  <1>4. TypeOK'
    BY <1>2, <1>3 DEF IInv, TypeOK
  <1>5. machine'.state \in LiveStates <=> machine.state \in LiveStates
    BY <1>2, <1>3 DEF LiveStates
  <1>6. Live' = Live /\ LiveRate' = LiveRate
    BY <1>2, <1>3, <1>5 DEF Live, LiveRate, LiveStates
  <1>7. CaptureMatchesState' /\ NextPacketFlags'
    BY <1>3, <1>6 DEF IInv, CaptureMatchesState, NextPacketFlags
  <1>8. LiveOnlyWithSink' /\ FailureIsError'
    BY <1>2, <1>3 DEF IInv, LiveOnlyWithSink, FailureIsError
  <1>9. Switch!SinkReadyCall
    BY <1>2, <1>3 DEF Switch!SinkReadyCall, Mode, LiveStates
  <1>10. QED
    BY <1>3, <1>4, <1>7, <1>8, <1>9 DEF IInv, StepFacts

LEMMA SinkLostStep ==
  ASSUME IInv, OnSinkLost
  PROVE  StepFacts /\ Switch!SinkLostCall
  <1>1. nextSequence' \in 0 .. SequenceModulus - 1
    BY DEF OnSinkLost, IInv, TypeOK
  <1>2. IInv' /\ machine'.state = "unavailable" /\ capture' = "off"
    BY <1>1, DisconnectKeepsIInv DEF OnSinkLost
  <1>3. Mode' = "unavailable"
    BY <1>2 DEF Mode, LiveStates
  <1>4. QED
    BY <1>2, <1>3 DEF StepFacts, Switch!SinkLostCall

LEMMA ClickStep ==
  ASSUME IInv, OnG0Click
  PROVE  StepFacts /\ Switch!ClickCall
  <1> DEFINE t == OnClickEvent(machine)
  <1>1. machine \in Machine /\ nextSequence' \in 0 .. SequenceModulus - 1
    BY DEF IInv, TypeOK, OnG0Click
  <1>2. /\ t.machine \in Machine
        /\ \/ /\ t.command = "start_capture"
              /\ machine.state = "ready" /\ machine.sinkReady
              /\ t.machine.state = "starting" /\ t.machine.sinkReady
           \/ /\ t.command = "stop_capture"
              /\ machine.state \in LiveStates
              /\ t.machine.state = "stopping"
              /\ t.machine.sinkReady = machine.sinkReady
           \/ /\ t.command = "none"
              /\ machine.state \notin LiveStates
              /\ ~(machine.state = "ready" /\ machine.sinkReady)
              /\ t.machine = machine
    BY <1>1, ClickResult
  <1>3. \/ /\ t.command = "start_capture"
           /\ CaptureStarts(t)
           /\ startPending' = TRUE
           /\ discontinuityPending' = FALSE
           /\ heard' = "none"
        \/ /\ t.command = "start_capture"
           /\ Fail(t.machine, "init_failed")
           /\ silentFrames' = 0
        \/ /\ t.command = "stop_capture"
           /\ StopCapture(t)
           /\ startPending' = FALSE
           /\ discontinuityPending' = FALSE
           /\ heard' = "none"
           /\ UNCHANGED <<silentFrames, failure>>
        \/ /\ t.command = "none"
           /\ startPending' = FALSE
           /\ discontinuityPending' = FALSE
           /\ UNCHANGED <<machine, capture, silentFrames, failure, heard>>
    BY DEF OnG0Click
  <1> HIDE DEF t
  <1>4. CASE /\ t.command = "start_capture"
             /\ CaptureStarts(t)
             /\ startPending' = TRUE
             /\ discontinuityPending' = FALSE
             /\ heard' = "none"
    <2>1. t.machine.state = "starting" /\ t.machine.sinkReady /\ machine.state = "ready"
      BY <1>2, <1>4
    <2>2. /\ machine' \in Machine
          /\ machine'.state = LiveStateOf(t.machine.targetRate)
          /\ machine'.sinkReady
          /\ capture' = t.machine.targetRate
          /\ failure' = "none"
          /\ silentFrames' = 0
      BY <1>2, <1>4, <2>1, CaptureStartsResult
    <2>3. capture' \in Rates /\ machine'.state = LiveStateOf(capture')
      BY <1>2, <2>2 DEF Machine
    <2>4. TypeOK'
      BY <1>1, <1>4, <2>2, <2>3, ZeroIsACount DEF TypeOK
    <2>5. capture = "off"
      BY <2>1 DEF IInv, CaptureMatchesState, Live, LiveStates
    <2>6. Mode = "ready" /\ Mode' = "recording"
      BY <2>1, <2>3 DEF Mode, LiveStates, LiveStateOf
    <2>7. QED
      BY <1>4, <2>1, <2>2, <2>3, <2>4, <2>5, <2>6
         DEF StepFacts, Switch!ClickCall, IInv, CaptureMatchesState, LiveOnlyWithSink,
             NextPacketFlags, FailureIsError, Live, LiveRate, LiveStates,
             LiveStateOf, Rates
  <1>5. CASE /\ t.command = "start_capture"
             /\ Fail(t.machine, "init_failed")
             /\ silentFrames' = 0
    <2>1. silentFrames' \in 0 .. NoSignalFrameLimit
      BY <1>5, ZeroIsACount
    <2>2. IInv' /\ machine'.state = "error" /\ capture' = "off"
      BY <1>1, <1>2, <1>5, <2>1, FailKeepsIInv
    <2>3. Mode = "ready" /\ Mode' = "failed"
      BY <1>2, <1>5, <2>2 DEF Mode, LiveStates
    <2>4. QED
      BY <2>2, <2>3 DEF StepFacts, Switch!ClickCall
  <1>6. CASE /\ t.command = "stop_capture"
             /\ StopCapture(t)
             /\ startPending' = FALSE
             /\ discontinuityPending' = FALSE
             /\ heard' = "none"
             /\ UNCHANGED <<silentFrames, failure>>
    <2>1. t.machine.state = "stopping" /\ machine.state \in LiveStates
      BY <1>2, <1>6
    <2>2. machine' = OnStoppedEvent(t.machine).machine /\ capture' = "off"
      BY <1>6, <2>1 DEF StopCapture
    <2>3. /\ machine' \in Machine
          /\ machine'.sinkReady = t.machine.sinkReady
          /\ machine'.state = IF t.machine.sinkReady THEN "ready"
                                                     ELSE "unavailable"
      BY <1>2, <2>1, <2>2, StoppedResult
    <2>4. TypeOK'
      BY <1>1, <1>6, <2>2, <2>3 DEF IInv, TypeOK
    <2>5. t.machine.sinkReady
      BY <1>2, <1>6, <2>1 DEF IInv, LiveOnlyWithSink
    <2>6. Mode = "recording" /\ Mode' = "ready"
      BY <2>1, <2>3, <2>5 DEF Mode, LiveStates
    <2>7. QED
      BY <1>6, <2>1, <2>2, <2>3, <2>4, <2>6
         DEF StepFacts, Switch!ClickCall, IInv, CaptureMatchesState, LiveOnlyWithSink,
             NextPacketFlags, FailureIsError, Live, LiveStates
  <1>7. CASE /\ t.command = "none"
             /\ startPending' = FALSE
             /\ discontinuityPending' = FALSE
             /\ UNCHANGED <<machine, capture, silentFrames, failure, heard>>
    <2>1. ~Live /\ ~Live'
      BY <1>2, <1>7 DEF Live
    <2>2. TypeOK'
      BY <1>1, <1>7 DEF IInv, TypeOK
    <2>3. machine.state \in {"unavailable", "error"}
      BY <1>1, <1>2, <1>7 DEF IInv, LiveOnlyWithSink, Machine, States, LiveStates
    <2>4. Switch!ClickCall
      BY <1>7, <2>3 DEF Switch!ClickCall, Mode, LiveStates
    <2>5. QED
      BY <1>7, <2>1, <2>2, <2>4
         DEF StepFacts, IInv, CaptureMatchesState, LiveOnlyWithSink,
             NextPacketFlags, FailureIsError
  <1>8. QED
    BY <1>3, <1>4, <1>5, <1>6, <1>7

LEMMA LossWindowStep ==
  ASSUME NEW good \in BOOLEAN, IInv, OnLossWindow(good)
  PROVE  StepFacts /\ Switch!WindowCall
  <1> DEFINE t == IF good THEN OnGoodWindowEvent(machine)
                          ELSE OnBadWindowEvent(machine)
  <1>1. machine \in Machine /\ nextSequence' \in 0 .. SequenceModulus - 1
    BY DEF IInv, TypeOK, OnLossWindow
  <1>2. /\ t.machine \in Machine
        /\ t.machine.sinkReady = machine.sinkReady
        /\ \/ /\ t.command = "none"
              /\ t.machine.state = machine.state
           \/ /\ t.command = "restart_capture_16k"
              /\ machine.state \in LiveStates
              /\ t.machine.state = "starting"
              /\ t.machine.targetRate = "hz16000"
    BY <1>1, WindowResult
  <1>3. \/ /\ t.command = "restart_capture_16k"
           /\ CaptureStarts(t)
           /\ discontinuityPending' = TRUE
           /\ UNCHANGED <<startPending, heard>>
        \/ /\ t.command = "restart_capture_16k"
           /\ Fail(t.machine, "init_failed")
           /\ silentFrames' = 0
        \/ /\ t.command = "none"
           /\ machine' = t.machine
           /\ UNCHANGED <<capture, startPending, discontinuityPending,
                          silentFrames, failure, heard>>
    BY DEF OnLossWindow
  <1> HIDE DEF t
  <1>4. CASE /\ t.command = "restart_capture_16k"
             /\ CaptureStarts(t)
             /\ discontinuityPending' = TRUE
             /\ UNCHANGED <<startPending, heard>>
    <2>1. /\ machine.state \in LiveStates
          /\ t.machine.state = "starting"
          /\ t.machine.targetRate = "hz16000"
      BY <1>2, <1>4
    <2>2. t.machine.sinkReady
      BY <1>2, <2>1 DEF IInv, LiveOnlyWithSink
    <2>3. /\ machine' \in Machine
          /\ machine'.state = LiveStateOf(t.machine.targetRate)
          /\ machine'.sinkReady
          /\ capture' = t.machine.targetRate
          /\ failure' = "none"
          /\ silentFrames' = 0
      BY <1>2, <1>4, <2>1, <2>2, CaptureStartsResult
    <2>4. machine'.state = "live16" /\ capture' = "hz16000"
      BY <2>1, <2>3 DEF LiveStateOf
    <2>5. TypeOK'
      BY <1>1, <1>4, <2>3, <2>4, ZeroIsACount DEF IInv, TypeOK, Rates
    <2>6. startPending' <=> heard' = "none"
      BY <1>4, <2>1 DEF IInv, NextPacketFlags, Live
    <2>7. capture # "off"
      BY <2>1 DEF IInv, CaptureMatchesState, Live, LiveRate
    <2>8. Mode' = Mode
      BY <2>1, <2>4 DEF Mode, LiveStates
    <2>9. QED
      BY <1>4, <2>3, <2>4, <2>5, <2>6, <2>7, <2>8
         DEF StepFacts, Switch!WindowCall, IInv, CaptureMatchesState, LiveOnlyWithSink,
             NextPacketFlags, FailureIsError, Live, LiveRate, LiveStates
  <1>5. CASE /\ t.command = "restart_capture_16k"
             /\ Fail(t.machine, "init_failed")
             /\ silentFrames' = 0
    <2>1. silentFrames' \in 0 .. NoSignalFrameLimit
      BY <1>5, ZeroIsACount
    <2>2. IInv' /\ machine'.state = "error" /\ capture' = "off"
      BY <1>1, <1>2, <1>5, <2>1, FailKeepsIInv
    <2>3. Mode = "recording" /\ Mode' = "failed"
      BY <1>2, <1>5, <2>2 DEF Mode, LiveStates
    <2>4. QED
      BY <2>2, <2>3 DEF StepFacts, Switch!WindowCall
  <1>6. CASE /\ t.command = "none"
             /\ machine' = t.machine
             /\ UNCHANGED <<capture, startPending, discontinuityPending,
                            silentFrames, failure, heard>>
    <2>1. /\ machine' \in Machine
          /\ machine'.state = machine.state
          /\ machine'.sinkReady = machine.sinkReady
      BY <1>2, <1>6
    <2>2. TypeOK'
      BY <1>1, <1>6, <2>1 DEF IInv, TypeOK
    <2>3. Live' = Live /\ LiveRate' = LiveRate /\ Mode' = Mode
      BY <2>1 DEF Live, LiveRate, Mode
    <2>4. QED
      BY <1>6, <2>1, <2>2, <2>3
         DEF StepFacts, Switch!WindowCall, IInv, CaptureMatchesState, LiveOnlyWithSink,
             NextPacketFlags, FailureIsError
  <1>7. QED
    BY <1>3, <1>4, <1>5, <1>6

LEMMA ReadFailsStep ==
  ASSUME IInv, ReadFails
  PROVE  StepFacts /\ Switch!NoFrameCall
  <1>1. /\ machine \in Machine
        /\ silentFrames' \in 0 .. NoSignalFrameLimit
        /\ nextSequence' \in 0 .. SequenceModulus - 1
        /\ Live /\ Fail(machine, "init_failed")
    BY DEF IInv, TypeOK, ReadFails
  <1>2. IInv' /\ machine'.state = "error" /\ capture' = "off"
    BY <1>1, FailKeepsIInv
  <1>3. Mode = "recording" /\ Mode' = "failed"
    BY <1>1, <1>2 DEF Mode, Live, LiveStates
  <1>4. QED
    BY <1>2, <1>3 DEF StepFacts, Switch!NoFrameCall

LEMMA NoSignalStep ==
  ASSUME IInv, NoSignal
  PROVE  StepFacts /\ Switch!NoFrameCall
  <1>1. /\ machine \in Machine
        /\ nextSequence' \in 0 .. SequenceModulus - 1
        /\ Live /\ Fail(machine, "no_signal")
    BY DEF IInv, TypeOK, NoSignal
  <1>2. silentFrames' \in 0 .. NoSignalFrameLimit
    BY ControllerAssumption DEF NoSignal
  <1>3. IInv' /\ machine'.state = "error" /\ capture' = "off"
    BY <1>1, <1>2, FailKeepsIInv
  <1>4. Mode = "recording" /\ Mode' = "failed"
    BY <1>1, <1>3 DEF Mode, Live, LiveStates
  <1>5. QED
    BY <1>3, <1>4 DEF StepFacts, Switch!NoFrameCall

LEMMA SendFrameStep ==
  ASSUME NEW constant \in BOOLEAN, NEW answer \in Answers,
         IInv, SendFrame(constant, answer)
  PROVE  StepFacts /\ Switch!FrameCall(answer)
  <1>1. machine \in Machine /\ Live
    BY DEF IInv, TypeOK, SendFrame
  <1>2. nextSequence' \in 0 .. SequenceModulus - 1
    BY ControllerAssumption DEF IInv, TypeOK, SendFrame, NextSequence
  <1>3. (IF constant THEN silentFrames + 1 ELSE 0) \in 0 .. NoSignalFrameLimit
    BY ControllerAssumption DEF IInv, TypeOK, SendFrame
  <1>4. CASE answer \in {"sent", "dropped"}
    <2>1. /\ startPending' = (startPending /\ FlagsSurvive(answer))
          /\ discontinuityPending' =
               (discontinuityPending /\ FlagsSurvive(answer))
          /\ heard' = IF answer = "sent" THEN LiveRate ELSE heard
          /\ silentFrames' = IF constant THEN silentFrames + 1 ELSE 0
          /\ UNCHANGED <<machine, capture, failure>>
      BY <1>4 DEF SendFrame
    <2>2. capture = LiveRate /\ LiveRate \in Rates /\ LiveRate # "none"
      BY <1>1 DEF IInv, CaptureMatchesState, LiveRate, Rates
    <2>3. startPending' \in BOOLEAN /\ discontinuityPending' \in BOOLEAN
      BY <2>1
    <2>4. heard' \in Rates \cup {"none"}
      BY <2>1, <2>2 DEF IInv, TypeOK
    <2>5. TypeOK'
      BY <1>2, <1>3, <2>1, <2>3, <2>4 DEF IInv, TypeOK
    <2>6. Live' = Live /\ LiveRate' = LiveRate /\ Mode' = Mode
      BY <2>1 DEF Live, LiveRate, Mode
    <2>7. NextPacketFlags'
      <3>1. CASE answer = "sent"
        BY <2>1, <2>2, <2>6, <3>1 DEF NextPacketFlags, FlagsSurvive
      <3>2. CASE answer = "dropped"
        BY <2>1, <2>6, <3>2 DEF IInv, NextPacketFlags, FlagsSurvive
      <3>3. QED
        BY <1>4, <3>1, <3>2
    <2>8. Mode = "recording"
      BY <1>1 DEF Mode, Live
    <2>9. Switch!FrameCall(answer)
      BY <1>4, <2>6, <2>8 DEF Switch!FrameCall
    <2>10. QED
      BY <2>1, <2>5, <2>6, <2>7, <2>9
         DEF StepFacts, IInv, CaptureMatchesState, LiveOnlyWithSink,
             FailureIsError
  <1>5. CASE answer = "not_ready"
    <2>1. StopForDisconnect
      BY <1>5 DEF SendFrame
    <2>2. IInv' /\ machine'.state = "unavailable" /\ capture' = "off"
      BY <1>2, <2>1, DisconnectKeepsIInv
    <2>3. Mode = "recording" /\ Mode' = "unavailable"
      BY <1>1, <2>2 DEF Mode, Live, LiveStates
    <2>4. QED
      BY <1>5, <2>2, <2>3 DEF StepFacts, Switch!FrameCall
  <1>6. CASE answer = "fatal_failure"
    <2>1. /\ Fail(machine, "init_failed")
          /\ silentFrames' = IF constant THEN silentFrames + 1 ELSE 0
      BY <1>6 DEF SendFrame
    <2>2. IInv' /\ machine'.state = "error" /\ capture' = "off"
      BY <1>1, <1>2, <1>3, <2>1, FailKeepsIInv
    <2>3. Mode = "recording" /\ Mode' = "failed"
      BY <1>1, <2>2 DEF Mode, Live, LiveStates
    <2>4. QED
      BY <1>6, <2>2, <2>3 DEF StepFacts, Switch!FrameCall
  <1>7. QED
    BY <1>4, <1>5, <1>6 DEF Answers

-----------------------------------------------------------------------------
(* Every call of the controller, and every stutter, has the step facts.     *)
LEMMA StepLemma == IInv /\ [Next]_controllerVars => StepFacts
  <1> SUFFICES ASSUME IInv, [Next]_controllerVars PROVE StepFacts
    OBVIOUS
  <1>1. CASE OnSinkReady
    BY <1>1, SinkReadyStep
  <1>2. CASE OnSinkLost
    BY <1>2, SinkLostStep
  <1>3. CASE OnG0Click
    BY <1>3, ClickStep
  <1>4. CASE \E good \in BOOLEAN : OnLossWindow(good)
    BY <1>4, LossWindowStep
  <1>5. CASE ReadFails
    BY <1>5, ReadFailsStep
  <1>6. CASE NoSignal
    BY <1>6, NoSignalStep
  <1>7. CASE \E constant \in BOOLEAN, answer \in Answers :
               SendFrame(constant, answer)
    BY <1>7, SendFrameStep
  <1>8. CASE UNCHANGED controllerVars
    <2>1. UNCHANGED <<machine, capture, startPending, discontinuityPending,
                      silentFrames, nextSequence, failure, heard>>
      BY <1>8 DEF controllerVars
    <2>2. TypeOK'
      BY <2>1 DEF IInv, TypeOK
    <2>3. Live' = Live /\ LiveRate' = LiveRate /\ Mode' = Mode
      BY <2>1 DEF Live, LiveRate, Mode
    <2>4. QED
      BY <2>1, <2>2, <2>3
         DEF StepFacts, IInv, CaptureMatchesState, LiveOnlyWithSink,
             NextPacketFlags, FailureIsError
  <1>9. QED
    BY <1>1, <1>2, <1>3, <1>4, <1>5, <1>6, <1>7, <1>8 DEF Next

(* The inductive invariant holds in every reachable state.                  *)
THEOREM Invariant == Spec => []IInv
  <1>1. IInv /\ [Next]_controllerVars => IInv'
    BY StepLemma DEF StepFacts
  <1>2. QED
    BY InitIInv, <1>1, PTL DEF Spec

(* Every member keeps its type, for every rate, limit and modulus.          *)
THEOREM TypeCorrect == Spec => []TypeOK
  <1>1. IInv => TypeOK
    BY DEF IInv
  <1>2. QED
    BY Invariant, <1>1, PTL

(* No hot microphone: whatever the hardware and the radio answer, the PDM   *)
(* capture runs exactly while the published state is live, at its rate.     *)
THEOREM NoHotMicrophone == Spec => []CaptureMatchesState
  <1>1. IInv => CaptureMatchesState
    BY DEF IInv
  <1>2. QED
    BY Invariant, <1>1, PTL

(* The packets a receiver gets suffice to follow starts and rate changes.   *)
THEOREM ReceiverCanResynchronise == Spec => []NextPacketFlags
  <1>1. IInv => NextPacketFlags
    BY DEF IInv
  <1>2. QED
    BY Invariant, <1>1, PTL

(* The capture is switched on only by a click in ready.                     *)
THEOREM ClickStarts == Spec => StartNeedsClick
  <1>1. IInv /\ [Next]_controllerVars =>
          [capture = "off" /\ capture' # "off" =>
             machine.state = "ready" /\ startPending']_controllerVars
    BY StepLemma DEF StepFacts
  <1>2. QED
    BY Invariant, <1>1, PTL DEF Spec, StartNeedsClick

(* A recording that fell to 16 kHz stays there.                             *)
THEOREM RateNeverRises == Spec => RateOnlyFalls
  <1>1. IInv /\ [Next]_controllerVars =>
          [capture = "hz16000" => capture' # "hz24000"]_controllerVars
    BY StepLemma DEF StepFacts
  <1>2. QED
    BY Invariant, <1>1, PTL DEF Spec, RateOnlyFalls

(* Each call, seen through Mode, is the call of the switch of that name.    *)
LEMMA CallsAreSwitchCalls ==
  ASSUME IInv
  PROVE  /\ OnSinkReady => Switch!SinkReadyCall
         /\ OnSinkLost => Switch!SinkLostCall
         /\ OnG0Click => Switch!ClickCall
         /\ ReadFails \/ NoSignal => Switch!NoFrameCall
         /\ \A answer \in Answers :
              (\E constant \in BOOLEAN : SendFrame(constant, answer)) =>
                Switch!FrameCall(answer)
         /\ \A good \in BOOLEAN : OnLossWindow(good) => Switch!WindowCall
  BY SinkReadyStep, SinkLostStep, ClickStep, ReadFailsStep, NoSignalStep,
     SendFrameStep, LossWindowStep

(* The controller implements the switch its callers are promised.           *)
THEOREM Implements == Spec => ImplementsSwitch
  <1> DEFINE Calls ==
        /\ OnSinkReady => Switch!SinkReadyCall
        /\ OnSinkLost => Switch!SinkLostCall
        /\ OnG0Click => Switch!ClickCall
        /\ ReadFails \/ NoSignal => Switch!NoFrameCall
        /\ \A answer \in Answers :
             (\E constant \in BOOLEAN : SendFrame(constant, answer)) =>
               Switch!FrameCall(answer)
        /\ \A good \in BOOLEAN : OnLossWindow(good) => Switch!WindowCall
  <1>1. Init => Switch!SwitchInit
    BY DEF Init, Switch!SwitchInit, BootMachine, Mode, LiveStates
  <1>2. IInv => Calls
    BY CallsAreSwitchCalls
  <1>3. Answers = Switch!SwitchAnswers
    BY DEF Answers, Switch!SwitchAnswers
  <1>4. IInv /\ [Next]_controllerVars => [Switch!SwitchNext]_Mode
    <2> SUFFICES ASSUME IInv, [Next]_controllerVars PROVE [Switch!SwitchNext]_Mode
      OBVIOUS
    <2>1. CASE Next
      <3>1. OnSinkReady \/ OnSinkLost \/ OnG0Click \/ ReadFails \/ NoSignal
            \/ (\E good \in BOOLEAN : OnLossWindow(good))
            \/ (\E constant \in BOOLEAN, answer \in Answers :
                  SendFrame(constant, answer))
        BY <2>1 DEF Next
      <3>2. QED
        BY <1>2, <1>3, <3>1 DEF Switch!SwitchNext
    <2>2. CASE UNCHANGED controllerVars
      BY <2>2 DEF controllerVars, Mode
    <2>3. QED
      BY <2>1, <2>2
  <1>5. Spec => Switch!SwitchSpec
    BY Invariant, <1>1, <1>4, PTL DEF Spec, Switch!SwitchSpec
  <1>6. Spec => [][Calls]_controllerVars
    BY Invariant, <1>2, PTL DEF Spec
  <1>7. QED
    BY <1>5, <1>6 DEF ImplementsSwitch

(* Between two calls there is no hot microphone, a receiver can resynchronise *)
(* and an error is shown as one (execute and run_once, microphone_controller.cpp). *)
THEOREM RecordingStaysSafe == Spec => []RecordingIsSafe
  <1>1. IInv => RecordingIsSafe
    BY DEF IInv, RecordingIsSafe
  <1>2. QED
    BY Invariant, <1>1, PTL

(* No call starts a recording without a click or raises its rate (apply).     *)
THEOREM RecordingStepsHold == Spec => RecordingSteps
  BY ClickStarts, RateNeverRises DEF RecordingSteps

-----------------------------------------------------------------------------
(* The tasks around it (MicrophoneRuntime): what the queue will have told    *)
(* the microphone when it is empty.                                         *)
Told(q, m) ==
  \/ \E i \in DOMAIN q : /\ q[i] = "sink_ready"
                         /\ \A j \in DOMAIN q : j > i => q[j] # "sink_lost"
  \/ m # "unavailable" /\ \A j \in DOMAIN q : q[j] # "sink_lost"

Callbacks ==
  [at : {"idle", "compute", "exchange", "store", "read", "enqueue", "lost"},
   value : BOOLEAN, lost : BOOLEAN]

RuntimeTypes ==
  /\ mode \in Modes
  /\ queue \in Seq(Events) /\ Len(queue) <= QueueDepth
  /\ {subscribed, bound, encrypted, lastReady, dataReady, declared} \subseteq BOOLEAN
  /\ pc \in [CallbackTasks -> Callbacks]
  /\ overlap \in {"none", "some", "alone"}

(* No two callbacks run, unless they overlap; this is the one that does.      *)
Apart ==
  /\ overlap # "some" => ~Busy("host") \/ ~Busy("hid")
  /\ overlap = "alone" => Busy("host") \/ Busy("hid")
  /\ \A t \in CallbackTasks :
       (pc[t].at = "idle" => ~pc[t].lost) /\ (pc[t].at = "lost" => pc[t].lost)
Callback == IF Busy("hid") THEN pc["hid"] ELSE pc["host"]

(* How far a callback that runs alone has come with the readiness of the link, *)
(* each flag in its turn, and where the one before it has left the flags.     *)
Alone ==
  overlap # "some" =>
    /\ Callback.at \in {"exchange", "store"} => Callback.value = LinkReady
    /\ Callback.at \in {"store", "read", "enqueue", "lost"} => lastReady = LinkReady
    /\ Callback.at \in {"read", "enqueue"} => dataReady = LinkReady
    /\ Callback.at = "enqueue" => (Callback.value <=> dataReady /\ declared)
    /\ Callback.lost => ~bound
Published ==
  overlap = "none" =>
    /\ Callback.at \in {"idle", "compute", "exchange"} => dataReady = lastReady
    /\ Callback.at = "idle" => lastReady = LinkReady

(* What is published has been told, unless a step that will tell it is due.  *)
ToldIsPublished ==
  ~untold /\ overlap = "none" /\ lastReady = LinkReady
  /\ Callback.at \in {"idle", "compute", "exchange"}
    => (Told(queue, mode) <=> dataReady /\ declared)

RuntimeInv == RuntimeTypes /\ Apart /\ Alone /\ Published /\ ToldIsPublished

(* Told depends on the queue and on whether the microphone is available.     *)
LEMMA ToldKeeps ==
  ASSUME NEW q, NEW m, NEW n, (m = "unavailable") <=> (n = "unavailable")
  PROVE  Told(q, m) <=> Told(q, n)
  BY DEF Told

(* An event at the end of the queue is the last word, a click says nothing.  *)
LEMMA ToldAppend ==
  ASSUME NEW q \in Seq(Events), NEW m, NEW e \in Events
  PROVE  Told(Append(q, e), m) <=>
           e = "sink_ready" \/ (e # "sink_lost" /\ Told(q, m))
<1> DEFINE r == Append(q, e)
<1>1. /\ Len(q) \in Nat /\ DOMAIN q = 1 .. Len(q) /\ DOMAIN r = 1 .. Len(q) + 1
      /\ r[Len(q) + 1] = e
      /\ \A i \in 1 .. Len(q) : r[i] = q[i]
  BY SMT
<1> HIDE DEF r
<1>2. CASE e = "sink_ready"
  <2>1. /\ Len(q) + 1 \in DOMAIN r /\ r[Len(q) + 1] = "sink_ready"
        /\ \A j \in DOMAIN r : ~(j > Len(q) + 1)
    BY <1>1, <1>2
  <2> QED BY <1>2, <2>1 DEF Told, r
<1>3. CASE e = "sink_lost"
  <2>1. Len(q) + 1 \in DOMAIN r /\ r[Len(q) + 1] = "sink_lost"
    BY <1>1, <1>3
  <2>2. \A i \in DOMAIN r : r[i] = "sink_ready" => Len(q) + 1 > i
    BY <1>1, <1>3
  <2>3. ~Told(r, m)
    BY <2>1, <2>2 DEF Told
  <2> QED BY <1>3, <2>3 DEF r
<1>4. CASE e \notin {"sink_ready", "sink_lost"}
  <2>1. \A i \in DOMAIN r : r[i] \in {"sink_ready", "sink_lost"} =>
          i \in DOMAIN q /\ r[i] = q[i]
    BY <1>1, <1>4
  <2>2. \A i \in DOMAIN q : i \in DOMAIN r /\ r[i] = q[i]
    BY <1>1
  <2>3. Told(r, m) <=> Told(q, m)
    <3>1. ASSUME Told(r, m) PROVE Told(q, m)
      <4>1. CASE \E i \in DOMAIN r : /\ r[i] = "sink_ready"
                                     /\ \A j \in DOMAIN r : j > i => r[j] # "sink_lost"
        <5>1. PICK i \in DOMAIN r : /\ r[i] = "sink_ready"
                                    /\ \A j \in DOMAIN r : j > i => r[j] # "sink_lost"
          BY <4>1
        <5>2. i \in DOMAIN q /\ q[i] = "sink_ready"
          BY <2>1, <5>1
        <5>3. \A j \in DOMAIN q : j > i => q[j] # "sink_lost"
          BY <2>2, <5>1
        <5> QED BY <5>2, <5>3 DEF Told
      <4>2. CASE m # "unavailable" /\ \A j \in DOMAIN r : r[j] # "sink_lost"
        BY <2>2, <4>2 DEF Told
      <4> QED BY <3>1, <4>1, <4>2 DEF Told
    <3>2. ASSUME Told(q, m) PROVE Told(r, m)
      <4>1. CASE \E i \in DOMAIN q : /\ q[i] = "sink_ready"
                                     /\ \A j \in DOMAIN q : j > i => q[j] # "sink_lost"
        <5>1. PICK i \in DOMAIN q : /\ q[i] = "sink_ready"
                                    /\ \A j \in DOMAIN q : j > i => q[j] # "sink_lost"
          BY <4>1
        <5>2. i \in DOMAIN r /\ r[i] = "sink_ready"
          BY <2>2, <5>1
        <5>3. \A j \in DOMAIN r : j > i => r[j] # "sink_lost"
          BY <2>1, <5>1
        <5> QED BY <5>2, <5>3 DEF Told
      <4>2. CASE m # "unavailable" /\ \A j \in DOMAIN q : q[j] # "sink_lost"
        BY <2>1, <4>2 DEF Told
      <4> QED BY <3>2, <4>1, <4>2 DEF Told
    <3> QED BY <3>1, <3>2
  <2> QED BY <1>4, <2>3 DEF r
<1> QED BY <1>2, <1>3, <1>4

(* An event that is handled says to the microphone what it said in the queue. *)
LEMMA ToldTail ==
  ASSUME NEW q \in Seq(Events), q # <<>>, NEW m, NEW n,
         Head(q) = "sink_ready" => n # "unavailable",
         Head(q) = "sink_lost" => n = "unavailable",
         Head(q) \notin {"sink_ready", "sink_lost"} =>
           ((m = "unavailable") <=> (n = "unavailable"))
  PROVE  Told(Tail(q), n) <=> Told(q, m)
<1> DEFINE r == Tail(q)
<1>1. /\ Len(q) \in Nat /\ Len(q) > 0 /\ DOMAIN q = 1 .. Len(q)
      /\ DOMAIN r = 1 .. Len(q) - 1 /\ Head(q) = q[1]
      /\ \A i \in 1 .. Len(q) - 1 : r[i] = q[i + 1]
  BY SMT
<1> HIDE DEF r
<1>2. \A j \in DOMAIN r : j + 1 \in DOMAIN q /\ j + 1 > 1 /\ r[j] = q[j + 1]
  BY <1>1
<1>3. \A i \in DOMAIN q : i = 1 \/ (i - 1 \in DOMAIN r /\ r[i - 1] = q[i])
  BY <1>1
<1>4. ASSUME Told(r, n) PROVE Told(q, m)
  <2>1. CASE \E i \in DOMAIN r : /\ r[i] = "sink_ready"
                                 /\ \A j \in DOMAIN r : j > i => r[j] # "sink_lost"
    <3>1. PICK i \in DOMAIN r : /\ r[i] = "sink_ready"
                                /\ \A j \in DOMAIN r : j > i => r[j] # "sink_lost"
      BY <2>1
    <3>2. i + 1 \in DOMAIN q /\ q[i + 1] = "sink_ready"
      BY <1>2, <3>1
    <3>3. \A j \in DOMAIN q : j > i + 1 => q[j] # "sink_lost"
      <4> SUFFICES ASSUME NEW j \in DOMAIN q, j > i + 1 PROVE q[j] # "sink_lost"
        OBVIOUS
      <4>1. i \in Nat /\ i >= 1 /\ j \in Nat
        BY <1>1, <3>1
      <4>2. j - 1 \in DOMAIN r /\ r[j - 1] = q[j] /\ j - 1 > i
        BY <1>3, <4>1
      <4> QED BY <3>1, <4>2
    <3> QED BY <3>2, <3>3 DEF Told
  <2>2. CASE n # "unavailable" /\ \A j \in DOMAIN r : r[j] # "sink_lost"
    <3>1. \A j \in DOMAIN q : j > 1 => q[j] # "sink_lost"
      <4> SUFFICES ASSUME NEW j \in DOMAIN q, j > 1 PROVE q[j] # "sink_lost"
        OBVIOUS
      <4>1. j \in Nat
        BY <1>1
      <4>2. j - 1 \in DOMAIN r /\ r[j - 1] = q[j]
        BY <1>3, <4>1
      <4> QED BY <2>2, <4>2
    <3>2. q[1] # "sink_lost"
      BY <1>1, <2>2
    <3>3. CASE q[1] = "sink_ready"
      BY <1>1, <3>1, <3>3 DEF Told
    <3>4. CASE q[1] # "sink_ready"
      BY <1>1, <2>2, <3>1, <3>2, <3>4 DEF Told
    <3> QED BY <3>3, <3>4
  <2> QED BY <1>4, <2>1, <2>2 DEF Told
<1>5. ASSUME Told(q, m) PROVE Told(r, n)
  <2>1. CASE \E i \in DOMAIN q : /\ q[i] = "sink_ready"
                                 /\ \A j \in DOMAIN q : j > i => q[j] # "sink_lost"
    <3>1. PICK i \in DOMAIN q : /\ q[i] = "sink_ready"
                                /\ \A j \in DOMAIN q : j > i => q[j] # "sink_lost"
      BY <2>1
    <3>2. CASE i = 1
      <4>1. n # "unavailable" /\ \A j \in DOMAIN r : r[j] # "sink_lost"
        BY <1>1, <1>2, <3>1, <3>2
      <4> QED BY <4>1 DEF Told
    <3>3. CASE i # 1
      <4>1. i - 1 \in DOMAIN r /\ r[i - 1] = "sink_ready"
        BY <1>3, <3>1, <3>3
      <4>2. \A j \in DOMAIN r : j > i - 1 => r[j] # "sink_lost"
        BY <1>1, <3>1
      <4> QED BY <4>1, <4>2 DEF Told
    <3> QED BY <3>2, <3>3
  <2>2. CASE m # "unavailable" /\ \A j \in DOMAIN q : q[j] # "sink_lost"
    <3>1. \A j \in DOMAIN r : r[j] # "sink_lost"
      BY <1>2, <2>2
    <3>2. n # "unavailable"
      BY <1>1, <2>2
    <3> QED BY <3>1, <3>2 DEF Told
  <2> QED BY <1>5, <2>1, <2>2 DEF Told
<1> QED BY <1>4, <1>5 DEF r

(* A word of the sink that was not discarded is the last one, and other events *)
(* leave what was told, unless they throw a word of the sink away.           *)
LEMMA EnqueueTells ==
  ASSUME RuntimeTypes, NEW e \in Events, NEW critical \in BOOLEAN,
         Enqueue(e, critical)
  PROVE  /\ queue' \in Seq(Events) /\ Len(queue') <= QueueDepth
         /\ e \in SinkEvents /\ ~untold' => (Told(queue', mode) <=> e = "sink_ready")
         /\ e \notin SinkEvents /\ ~untold' =>
              ~untold /\ (Told(queue', mode) <=> Told(queue, mode))
<1>1. queue \in Seq(Events) /\ Len(queue) <= QueueDepth /\ Len(queue) \in Nat
      /\ QueueDepth \in Nat \ {0}
  BY RuntimeAssumption DEF RuntimeTypes
<1>2. /\ Append(queue, e) \in Seq(Events) /\ Len(Append(queue, e)) = Len(queue) + 1
      /\ <<e>> \in Seq(Events) /\ Len(<<e>>) = 1
      /\ DOMAIN <<e>> = {1} /\ <<e>>[1] = e
  BY <1>1
<1>3. queue' \in Seq(Events) /\ Len(queue') <= QueueDepth
  BY <1>1, <1>2 DEF Enqueue, Enqueued
<1>4. CASE ~Full
  <2>1. Len(queue) < QueueDepth
    BY <1>1, <1>4 DEF Full
  <2>2. queue' = Append(queue, e)
    BY <2>1 DEF Enqueue, Enqueued
  <2>3. e \notin SinkEvents /\ ~untold' => ~untold
    BY DEF Enqueue
  <2> QED BY <1>1, <1>3, <2>2, <2>3, ToldAppend DEF SinkEvents
<1>5. CASE Full /\ critical
  <2>1. queue' = <<e>>
    BY <1>1, <1>5 DEF Enqueue, Enqueued, Full
  <2>2. e \in SinkEvents => (Told(queue', mode) <=> e = "sink_ready")
    BY <1>2, <2>1 DEF Told, SinkEvents
  <2>3. ASSUME e \notin SinkEvents, ~untold'
        PROVE  ~untold /\ (Told(queue', mode) <=> Told(queue, mode))
    <3>1. ~untold /\ ~SinkWordWaits
      BY <1>5, <2>3 DEF Enqueue
    <3>2. \A i \in DOMAIN queue : queue[i] # "sink_ready" /\ queue[i] # "sink_lost"
      BY <3>1 DEF SinkWordWaits, SinkEvents
    <3>3. Told(queue, mode) <=> mode # "unavailable"
      BY <3>2 DEF Told
    <3>4. Told(queue', mode) <=> mode # "unavailable"
      BY <1>2, <2>1, <2>3 DEF Told, SinkEvents
    <3> QED BY <3>1, <3>3, <3>4
  <2> QED BY <1>3, <2>2, <2>3
<1>6. CASE Full /\ ~critical
  <2>1. queue' = queue
    BY <1>1, <1>6 DEF Enqueue, Enqueued, Full
  <2>2. e \in SinkEvents => untold'
    BY <1>6 DEF Enqueue
  <2>3. e \notin SinkEvents /\ ~untold' => ~untold
    BY DEF Enqueue
  <2> QED BY <1>3, <2>1, <2>2, <2>3
<1> QED BY <1>4, <1>5, <1>6

-----------------------------------------------------------------------------
(* The steps of the producers and of the audio task leave the flags alone.   *)
flagVars == <<subscribed, bound, encrypted, readyVars, pc, overlap>>

LEMMA FlagsKeep ==
  ASSUME UNCHANGED flagVars
  PROVE  /\ LinkReady' <=> LinkReady
         /\ Callback' = Callback
         /\ Apart' <=> Apart
         /\ Alone' <=> Alone
         /\ Published' <=> Published
<1>1. Callback' = Callback /\ (LinkReady' <=> LinkReady)
  BY DEF flagVars, Callback, Busy, LinkReady
<1>2. Apart' <=> Apart
  BY DEF flagVars, Apart, Busy
<1>3. UNCHANGED <<LinkReady, lastReady, dataReady, declared, bound, overlap>>
  BY DEF flagVars, readyVars, LinkReady
<1>4. Alone' <=> Alone
  BY <1>1, <1>3 DEF Alone
<1>5. Published' <=> Published
  BY <1>1, <1>3 DEF Published
<1> QED BY <1>1, <1>2, <1>4, <1>5

(* Told stays, or becomes false while the link has none to tell of.          *)
LEMMA OthersKeep ==
  ASSUME RuntimeInv, UNCHANGED flagVars,
         mode' \in Modes, queue' \in Seq(Events), Len(queue') <= QueueDepth,
         ~untold' =>
           /\ ~untold
           /\ \/ Told(queue', mode') <=> Told(queue, mode)
              \/ ~LinkReady /\ (Told(queue', mode') => Told(queue, mode))
  PROVE  RuntimeInv'
<1>1. RuntimeTypes'
  BY DEF RuntimeInv, RuntimeTypes, flagVars, readyVars
<1>2. Apart' /\ Alone' /\ Published'
  BY FlagsKeep DEF RuntimeInv
<1>3. ToldIsPublished'
  <2> SUFFICES ASSUME ~untold', Callback.at \in {"idle", "compute", "exchange"},
                      lastReady = LinkReady, overlap = "none"
               PROVE  Told(queue', mode') <=> dataReady /\ declared
    <3>1. /\ overlap' = overlap /\ lastReady' = lastReady
          /\ dataReady' = dataReady /\ declared' = declared
      BY DEF flagVars, readyVars
    <3>2. LinkReady' = LinkReady
      BY DEF flagVars, LinkReady
    <3>3. Callback' = Callback
      BY FlagsKeep
    <3> QED BY <3>1, <3>2, <3>3 DEF ToldIsPublished
  <2>1. Told(queue, mode) <=> dataReady /\ declared
    BY DEF RuntimeInv, ToldIsPublished
  <2>2. dataReady = lastReady
    BY DEF RuntimeInv, Published
  <2> QED BY <2>1, <2>2
<1> QED BY <1>1, <1>2, <1>3 DEF RuntimeInv

(* A press, the G0 task, a serial command: no event of the sink.             *)
LEMMA ProducersKeep ==
  ASSUME RuntimeInv, Press \/ G0Task \/ UncriticalPress
  PROVE  RuntimeInv'
<1>1. /\ UNCHANGED flagVars /\ mode' = mode
      /\ \/ UNCHANGED <<queue, untold>>
         \/ \E critical \in BOOLEAN : \E e \in {"g0_click", "g0_ignored"} :
              Enqueue(e, critical)
  BY DEF Press, G0Task, UncriticalPress, flagVars, linkVars
<1>2. RuntimeTypes
  BY DEF RuntimeInv
<1>3. mode' \in Modes
  BY <1>1, <1>2 DEF RuntimeTypes
<1>4. CASE UNCHANGED <<queue, untold>>
  <2>1. queue' \in Seq(Events) /\ Len(queue') <= QueueDepth
    BY <1>2, <1>4 DEF RuntimeTypes
  <2>2. Told(queue', mode') <=> Told(queue, mode)
    BY <1>1, <1>4
  <2> QED BY <1>1, <1>3, <1>4, <2>1, <2>2, OthersKeep
<1>5. ASSUME NEW critical \in BOOLEAN, NEW e \in {"g0_click", "g0_ignored"},
             Enqueue(e, critical)
      PROVE  RuntimeInv'
  <2>1. e \in Events /\ e \notin SinkEvents
    BY DEF Events, SinkEvents
  <2>2. /\ queue' \in Seq(Events) /\ Len(queue') <= QueueDepth
        /\ ~untold' => ~untold /\ (Told(queue', mode) <=> Told(queue, mode))
    BY <1>2, <1>5, <2>1, EnqueueTells
  <2> QED BY <1>1, <1>3, <2>2, OthersKeep
<1> QED BY <1>1, <1>4, <1>5

(* audio_task: an event changes the microphone as it was told, and a frame    *)
(* only refuses it a sink that the link has not.                             *)
LEMMA AudioKeeps == ASSUME RuntimeInv, AudioTask PROVE RuntimeInv'
<1>0. /\ UNCHANGED flagVars /\ UNCHANGED untold
      /\ Drain \/ Drained \/ FrameMissed \/ FrameRead \/ Notify
  BY DEF AudioTask, Audio, flagVars, linkVars
<1>t. mode \in Modes /\ queue \in Seq(Events) /\ Len(queue) <= QueueDepth
  BY DEF RuntimeInv, RuntimeTypes
<1>1. CASE Drain
  <2>1. queue # <<>> /\ queue' = Tail(queue)
    BY <1>1 DEF Drain
  <2>2. Tail(queue) \in Seq(Events) /\ Len(Tail(queue)) = Len(queue) - 1 /\ Len(queue) \in Nat
    BY <1>t, <2>1
  <2>3. queue' \in Seq(Events) /\ Len(queue') <= QueueDepth
    BY <1>t, <2>1, <2>2, RuntimeAssumption
  <2>4. mode' \in Modes
    BY <1>1, <1>t DEF Drain, SinkReadyCall, SinkLostCall, ClickCall, Modes
  <2>5. /\ Head(queue) = "sink_ready" => mode' # "unavailable"
        /\ Head(queue) = "sink_lost" => mode' = "unavailable"
        /\ Head(queue) \notin {"sink_ready", "sink_lost"} =>
             ((mode = "unavailable") <=> (mode' = "unavailable"))
    BY <1>1 DEF Drain, SinkReadyCall, SinkLostCall, ClickCall
  <2>6. Told(queue', mode') <=> Told(queue, mode)
    BY <1>t, <2>1, <2>5, ToldTail
  <2> QED BY <1>0, <2>3, <2>4, <2>6, OthersKeep
<1>2. CASE queue' = queue /\ mode' \in Modes
           /\ ((mode = "unavailable") <=> (mode' = "unavailable"))
  <2>1. Told(queue', mode') <=> Told(queue, mode)
    BY <1>2, ToldKeeps
  <2> QED BY <1>0, <1>t, <1>2, <2>1, OthersKeep
<1>3. CASE Drained \/ FrameMissed \/ Notify
  <2>1. queue' = queue
    BY <1>3 DEF Drained, FrameMissed, Notify
  <2>2. mode' \in Modes /\ ((mode = "unavailable") <=> (mode' = "unavailable"))
    BY <1>3, <1>t
       DEF Drained, FrameMissed, Notify, NoFrameCall, FrameCall, WindowCall, SwitchAnswers,
           Modes
  <2> QED BY <1>2, <2>1, <2>2
<1>4. CASE FrameRead
  <2>1. queue' = queue
    BY <1>4 DEF FrameRead
  <2>2. CASE UNCHANGED mode
    BY <1>2, <1>t, <2>1, <2>2
  <2>3. CASE ~SinkReadyForFrame /\ FrameCall("not_ready")
    <3>1. ~LinkReady /\ mode = "recording" /\ mode' = "unavailable"
      BY <2>3 DEF SinkReadyForFrame, FrameCall
    <3>2. Told(queue', mode') => Told(queue, mode)
      BY <2>1, <3>1 DEF Told
    <3>3. mode' \in Modes
      BY <3>1 DEF Modes
    <3> QED BY <1>0, <1>t, <2>1, <3>1, <3>2, <3>3, OthersKeep
  <2> QED BY <1>4, <2>2, <2>3 DEF FrameRead
<1> QED BY <1>0, <1>1, <1>3, <1>4

-----------------------------------------------------------------------------
(* The first step of a callback: the flags of the link change, or what the    *)
(* device declares, and the task goes on to publish it.                      *)
LEMMA CallbackStarts ==
  ASSUME RuntimeInv, NEW t \in CallbackTasks, ~Busy(t),
         NEW at \in {"compute", "read"}, NEW lost \in BOOLEAN,
         pc' = [pc EXCEPT ![t] = [at |-> at, value |-> FALSE, lost |-> lost]],
         Overlaps(t, at = "compute"),
         UNCHANGED <<mode, queue, untold, lastReady, dataReady>>,
         at = "compute" => declared' = declared,
         at = "read" => UNCHANGED <<subscribed, bound, encrypted>>,
         {subscribed', bound', encrypted', declared'} \subseteq BOOLEAN,
         lost => ~bound'
  PROVE  RuntimeInv'
<1>1. RuntimeTypes /\ Apart /\ Alone /\ Published /\ ToldIsPublished
  BY DEF RuntimeInv
<1>2. PICK u \in CallbackTasks : CallbackTasks = {t, u} /\ u # t
  BY DEF CallbackTasks
<1>3. /\ pc'[t] = [at |-> at, value |-> FALSE, lost |-> lost] /\ pc'[u] = pc[u]
      /\ pc' \in [CallbackTasks -> Callbacks]
  <2>1. [at |-> at, value |-> FALSE, lost |-> lost] \in Callbacks
    BY DEF Callbacks
  <2> QED BY <1>1, <1>2, <2>1 DEF RuntimeTypes
<1>4. pc'[t].at = at /\ pc'[t].lost = lost
  BY <1>3
<1>5. overlap' = IF Busy(u) THEN "some"
                 ELSE IF overlap # "none" /\ at = "compute" THEN "alone" ELSE overlap
  BY <1>2 DEF Overlaps
<1>6. RuntimeTypes'
  BY <1>1, <1>3, <1>5 DEF RuntimeTypes
<1>7. (\A v \in CallbackTasks :
         (pc[v].at = "idle" => ~pc[v].lost) /\ (pc[v].at = "lost" => pc[v].lost))'
  BY <1>1, <1>2, <1>3, <1>4 DEF Apart
<1>8. CASE Busy(u)
  <2>1. overlap' = "some"
    BY <1>5, <1>8
  <2> QED BY <1>6, <1>7, <2>1 DEF RuntimeInv, Apart, Alone, Published, ToldIsPublished
<1>9. CASE ~Busy(u)
  <2>1. /\ ~Busy("host") /\ ~Busy("hid")
        /\ Busy(t)' /\ ~Busy(u)'
    BY <1>2, <1>3, <1>4, <1>9 DEF Busy, CallbackTasks
  <2>2. Callback = pc["host"] /\ Callback.at = "idle" /\ Callback' = pc'[t]
    <3>1. Callback = pc["host"] /\ pc["host"].at = "idle"
      BY <2>1 DEF Callback, Busy
    <3>2. Callback' = pc'[t]
      BY <1>2, <2>1 DEF Callback, CallbackTasks
    <3> QED BY <3>1, <3>2
  <2>3. overlap \in {"none", "some"}
    BY <1>1, <2>1 DEF Apart, RuntimeTypes
  <2>4. overlap' = IF overlap # "none" /\ at = "compute" THEN "alone" ELSE overlap
    BY <1>5, <1>9
  <2>5. Apart'
    <3>1. (Busy("host") \/ Busy("hid"))'
      BY <2>1 DEF CallbackTasks
    <3>2. (~Busy("host") \/ ~Busy("hid"))'
      BY <1>2, <2>1 DEF CallbackTasks
    <3> QED BY <1>7, <3>1, <3>2 DEF Apart
  <2>6. overlap = "none" => dataReady = lastReady /\ lastReady = LinkReady
    BY <1>1, <2>2 DEF Published
  <2>7. at = "read" => LinkReady' = LinkReady
    BY DEF LinkReady
  <2>8. Callback'.at = at /\ Callback'.lost = lost
    BY <1>4, <2>2
  <2>9. Alone'
    <3>1. at = "read" /\ overlap' # "some" => overlap = "none"
      BY <2>3, <2>4
    <3> QED BY <2>6, <2>7, <2>8, <3>1 DEF Alone
  <2>10. overlap' = "none" => overlap = "none"
    BY <2>4
  <2>11. Published'
    BY <2>6, <2>8, <2>10 DEF Published
  <2>12. ToldIsPublished'
    BY <1>1, <2>2, <2>6, <2>8, <2>10 DEF ToldIsPublished
  <2> QED BY <1>6, <2>5, <2>9, <2>11, <2>12 DEF RuntimeInv
<1> QED BY <1>8, <1>9

LEMMA CallbackBegins ==
  ASSUME RuntimeInv,
         GapConnect \/ GapDisconnect \/ EncChange \/ Subscribe \/ Bind
           \/ AudioControl \/ HidDisconnect \/ Watchdog
  PROVE  RuntimeInv'
<1>0. /\ RuntimeTypes /\ Apart
      /\ UNCHANGED <<mode, queue, untold, lastReady, dataReady>>
      /\ "host" \in CallbackTasks /\ "hid" \in CallbackTasks
  BY DEF RuntimeInv, GapConnect, GapDisconnect, EncChange, Subscribe, Bind, AudioControl,
         HidDisconnect, Watchdog, HostCallback, readyVars, CallbackTasks
<1>1. CASE GapConnect \/ Watchdog
  <2>1. UNCHANGED flagVars
    BY <1>1 DEF GapConnect, Watchdog, flagVars, linkVars, readyVars
  <2>2. mode' \in Modes /\ queue' \in Seq(Events) /\ Len(queue') <= QueueDepth
    BY <1>0 DEF RuntimeTypes
  <2>3. Told(queue', mode') <=> Told(queue, mode)
    BY <1>0
  <2> QED BY <1>0, <2>1, <2>2, <2>3, OthersKeep
<1>2. ASSUME NEW at, HostCallback(at)
      PROVE  /\ ~Busy("host") /\ Overlaps("host", at = "compute")
             /\ pc' = [pc EXCEPT !["host"] = [at |-> at, value |-> FALSE, lost |-> FALSE]]
  <2>1. pc["host"].lost = FALSE
    BY <1>0, <1>2 DEF HostCallback, Busy, Apart, RuntimeTypes, Callbacks
  <2> QED BY <1>2, <2>1 DEF HostCallback, Goto
<1>3. CASE GapDisconnect \/ EncChange \/ Subscribe \/ Bind
  <2>1. /\ HostCallback("compute") /\ declared' = declared
        /\ {subscribed', bound', encrypted', declared'} \subseteq BOOLEAN
    BY <1>0, <1>3 DEF GapDisconnect, EncChange, Subscribe, Bind, RuntimeTypes
  <2> QED BY <1>0, <1>2, <2>1, CallbackStarts
<1>4. CASE AudioControl
  <2>1. /\ HostCallback("read") /\ UNCHANGED <<subscribed, bound, encrypted>>
        /\ {subscribed', bound', encrypted', declared'} \subseteq BOOLEAN
    BY <1>0, <1>4 DEF AudioControl, linkVars, RuntimeTypes
  <2> QED BY <1>0, <1>2, <2>1, CallbackStarts
<1>5. CASE HidDisconnect
  <2>1. /\ ~Busy("hid") /\ declared' = declared /\ bound' = FALSE
        /\ Overlaps("hid", TRUE)
        /\ pc' = [pc EXCEPT !["hid"] = [at |-> "compute", value |-> FALSE, lost |-> TRUE]]
        /\ {subscribed', bound', encrypted', declared'} \subseteq BOOLEAN
    BY <1>0, <1>5 DEF HidDisconnect, readyVars, RuntimeTypes
  <2>2. Overlaps("hid", "compute" = "compute")
    BY <2>1 DEF Overlaps
  <2> QED BY <1>0, <2>1, <2>2, CallbackStarts
<1> QED BY <1>1, <1>3, <1>4, <1>5

(* The steps of a callback, up to the event it leaves in the queue.          *)
LEMMA CallbackGoesOn ==
  ASSUME RuntimeInv, NEW t \in CallbackTasks, CallbackStep(t)
  PROVE  RuntimeInv'
<1> DEFINE run == pc[t]
           next == pc'[t]
<1>0. /\ RuntimeTypes /\ Apart /\ Alone /\ Published /\ ToldIsPublished
      /\ UNCHANGED <<mode, subscribed, bound, encrypted>>
  BY DEF RuntimeInv, CallbackStep
<1>c. PICK u \in CallbackTasks : CallbackTasks = {t, u} /\ u # t
  BY DEF CallbackTasks
<1>p. /\ pc \in [CallbackTasks -> Callbacks]
      /\ {subscribed, bound, encrypted, lastReady, dataReady, declared} \subseteq BOOLEAN
      /\ mode \in Modes /\ queue \in Seq(Events) /\ Len(queue) <= QueueDepth
      /\ overlap \in {"none", "some", "alone"}
  BY <1>0 DEF RuntimeTypes
<1>h. run.at \in {"idle", "compute", "exchange", "store", "read", "enqueue", "lost"}
      /\ run.value \in BOOLEAN /\ run.lost \in BOOLEAN
  BY <1>p DEF Callbacks
<1>l. LinkReady' = LinkReady /\ LinkReady \in BOOLEAN /\ (~bound => LinkReady = FALSE)
  BY <1>0, <1>p DEF LinkReady
<1>b. Busy(t)
  BY DEF CallbackStep, Busy
<1>s. overlap # "some" => ~Busy(u) /\ Callback = run
  BY <1>0, <1>b, <1>c DEF Apart, Callback, CallbackTasks
(* What is left of the step: the task goes on, or it is done.                 *)
<1>g. ASSUME NEW at \in {"exchange", "store", "read", "enqueue"}, NEW value \in BOOLEAN,
             Goto(t, at, value), overlap' = overlap
      PROVE  /\ next.at = at /\ next.value = value /\ next.lost = run.lost
             /\ pc' \in [CallbackTasks -> Callbacks]
             /\ overlap' \in {"none", "some", "alone"}
             /\ overlap' # "some" => Callback' = next
             /\ Apart'
  <2>1. pc' = [pc EXCEPT ![t] = [at |-> at, value |-> value, lost |-> run.lost]]
    BY <1>g DEF Goto
  <2>2. [at |-> at, value |-> value, lost |-> run.lost] \in Callbacks
    BY <1>h DEF Callbacks
  <2>3. next = [at |-> at, value |-> value, lost |-> run.lost] /\ pc'[u] = pc[u]
    BY <1>p, <1>c, <2>1
  <2>4. next.at = at /\ next.value = value /\ next.lost = run.lost
    BY <2>3
  <2>5. Busy(t)' /\ (Busy(u)' <=> Busy(u))
    BY <2>3, <2>4 DEF Busy
  <2>6. overlap' # "some" => Callback' = next
    BY <1>c, <1>g, <1>s, <2>5 DEF Callback, CallbackTasks
  <2>7. Apart'
    <3>1. (\A v \in CallbackTasks :
             (pc[v].at = "idle" => ~pc[v].lost) /\ (pc[v].at = "lost" => pc[v].lost))'
      BY <1>0, <1>c, <2>3, <2>4 DEF Apart
    <3>2. (overlap # "some" => ~Busy("host") \/ ~Busy("hid"))'
      BY <1>c, <1>g, <1>s, <2>5 DEF CallbackTasks
    <3>3. (Busy("host") \/ Busy("hid"))'
      BY <2>5 DEF CallbackTasks
    <3> QED BY <3>1, <3>2, <3>3 DEF Apart
  <2> QED BY <1>g, <1>p, <2>1, <2>2, <2>4, <2>6, <2>7
<1>r. ASSUME NEW told \in BOOLEAN, Return(t), Ends(t, told)
      PROVE  /\ next.at = IF run.lost THEN "lost" ELSE "idle"
             /\ next.lost = run.lost
             /\ pc' \in [CallbackTasks -> Callbacks]
             /\ overlap' = IF overlap = "alone" /\ ~run.lost
                           THEN (IF told THEN "none" ELSE "some") ELSE overlap
             /\ overlap' # "some" =>
                  Callback'.at = next.at /\ (Callback'.lost => run.lost)
             /\ Apart'
  <2> DEFINE to == IF run.lost THEN [at |-> "lost", value |-> run.value, lost |-> run.lost]
                   ELSE Idle
  <2>0. [run EXCEPT !.at = "lost"] = [at |-> "lost", value |-> run.value, lost |-> run.lost]
    BY <1>p DEF Callbacks
  <2>1. pc' = [pc EXCEPT ![t] = to]
    BY <1>r, <2>0 DEF Return
  <2>2. to \in Callbacks
    BY <1>h DEF Callbacks, Idle
  <2>3. next = to /\ pc'[u] = pc[u] /\ pc' \in [CallbackTasks -> Callbacks]
    BY <1>p, <1>c, <2>1, <2>2
  <2>4. next.at = (IF run.lost THEN "lost" ELSE "idle") /\ next.lost = run.lost
    <3>1. CASE run.lost
      <4>1. next = [at |-> "lost", value |-> run.value, lost |-> run.lost]
        BY <2>3, <3>1
      <4> QED BY <3>1, <4>1
    <3>2. CASE ~run.lost
      <4>1. next = [at |-> "idle", value |-> FALSE, lost |-> FALSE]
        BY <2>3, <3>2 DEF Idle
      <4>2. next.at = "idle" /\ next.lost = FALSE
        BY <4>1
      <4> QED BY <1>h, <3>2, <4>2
    <3> QED BY <3>1, <3>2
  <2>5. overlap' = IF overlap = "alone" /\ ~run.lost
                   THEN (IF told THEN "none" ELSE "some") ELSE overlap
    BY <1>r DEF Ends
  <2>6. overlap' # "some" => overlap # "some"
    BY <2>5
  <2>7. (Busy(t)' <=> run.lost) /\ (Busy(u)' <=> Busy(u))
    BY <2>3, <2>4 DEF Busy
  <2>8. (\A v \in CallbackTasks :
           (pc[v].at = "idle" => ~pc[v].lost) /\ (pc[v].at = "lost" => pc[v].lost))'
    BY <1>0, <1>c, <2>3, <2>4 DEF Apart
  <2>9. overlap' # "some" => Callback'.at = next.at /\ (Callback'.lost => run.lost)
    <3> SUFFICES ASSUME overlap' # "some"
                 PROVE  Callback'.at = next.at /\ (Callback'.lost => run.lost)
      OBVIOUS
    <3>1. ~Busy(u) /\ ~Busy(u)' /\ pc'[u].at = "idle" /\ ~pc'[u].lost
      BY <1>s, <2>6, <2>7, <2>8 DEF Busy
    <3>2. CASE run.lost
      BY <1>c, <2>4, <2>7, <3>1, <3>2 DEF Callback, CallbackTasks
    <3>3. CASE ~run.lost
      <4>1. ~Busy("hid")' /\ Callback' = pc'["host"]
        BY <1>c, <2>7, <3>1, <3>3 DEF Callback, CallbackTasks
      <4>2. pc'["host"] = next \/ pc'["host"] = pc'[u]
        BY <1>c DEF CallbackTasks
      <4> QED BY <2>4, <3>1, <3>3, <4>1, <4>2
    <3> QED BY <3>2, <3>3
  <2>10. Apart'
    <3>1. (overlap # "some" => ~Busy("host") \/ ~Busy("hid"))'
      BY <1>c, <1>s, <2>6, <2>7 DEF CallbackTasks
    <3>2. (overlap = "alone" => Busy("host") \/ Busy("hid"))'
      BY <2>5, <2>7 DEF CallbackTasks
    <3> QED BY <2>8, <3>1, <3>2 DEF Apart
  <2> QED BY <2>3, <2>4, <2>5, <2>9, <2>10
<1>1. CASE run.at = "compute"
  <2>1. Goto(t, "exchange", LinkReady) /\ UNCHANGED <<readyVars, queue, untold, overlap>>
    BY <1>1 DEF CallbackStep
  <2>2. /\ next.at = "exchange" /\ next.value = LinkReady /\ next.lost = run.lost
        /\ pc' \in [CallbackTasks -> Callbacks] /\ Apart'
        /\ overlap' # "some" => Callback' = next
    BY <1>g, <1>l, <2>1
  <2>3. RuntimeTypes'
    BY <1>0, <1>p, <2>1, <2>2 DEF RuntimeTypes, readyVars
  <2>4. Alone'
    BY <1>0, <1>1, <1>l, <1>s, <2>1, <2>2 DEF Alone, readyVars
  <2>5. Published'
    BY <1>0, <1>1, <1>l, <1>s, <2>1, <2>2 DEF Published, readyVars
  <2>6. ToldIsPublished'
    BY <1>0, <1>1, <1>l, <1>s, <2>1, <2>2 DEF ToldIsPublished, readyVars
  <2> QED BY <2>2, <2>3, <2>4, <2>5, <2>6 DEF RuntimeInv
<1>2. CASE run.at = "exchange"
  <2>1. /\ lastReady' = run.value /\ UNCHANGED <<dataReady, declared, queue, untold>>
        /\ IF run.value = lastReady
           THEN Return(t) /\ Ends(t, FALSE)
           ELSE Goto(t, "store", run.value) /\ UNCHANGED overlap
    BY <1>2 DEF CallbackStep
  <2>2. overlap # "some" => run.value = LinkReady /\ (run.lost => ~bound)
    BY <1>0, <1>2, <1>s DEF Alone
  <2>2a. overlap = "none" => dataReady = lastReady
    BY <1>0, <1>2, <1>s DEF Published
  <2>3. CASE run.value = lastReady
    <3>1. Return(t) /\ Ends(t, FALSE)
      BY <2>1, <2>3
    <3>2. /\ next.at = IF run.lost THEN "lost" ELSE "idle"
          /\ next.lost = run.lost
          /\ pc' \in [CallbackTasks -> Callbacks] /\ Apart'
          /\ overlap' = IF overlap = "alone" /\ ~run.lost THEN "some" ELSE overlap
          /\ overlap' # "some" => Callback'.at = next.at /\ (Callback'.lost => run.lost)
      BY <1>r, <3>1
    <3>3. RuntimeTypes'
      BY <1>0, <1>h, <1>p, <2>1, <3>2 DEF RuntimeTypes
    <3>4. Alone'
      BY <1>0, <1>h, <1>l, <2>1, <2>2, <2>3, <3>2 DEF Alone
    <3>5. Published'
      BY <1>0, <1>l, <2>1, <2>2, <2>2a, <2>3, <3>2 DEF Published
    <3>6. ToldIsPublished'
      BY <1>0, <1>2, <1>l, <1>s, <2>1, <2>2, <2>3, <3>2 DEF ToldIsPublished
    <3> QED BY <3>2, <3>3, <3>4, <3>5, <3>6 DEF RuntimeInv
  <2>4. CASE run.value # lastReady
    <3>1. Goto(t, "store", run.value) /\ overlap' = overlap
      BY <2>1, <2>4
    <3>2. /\ next.at = "store" /\ next.value = run.value /\ next.lost = run.lost
          /\ pc' \in [CallbackTasks -> Callbacks] /\ Apart'
          /\ overlap' # "some" => Callback' = next
      BY <1>g, <1>h, <3>1
    <3>3. RuntimeTypes'
      BY <1>0, <1>h, <1>p, <2>1, <3>1, <3>2 DEF RuntimeTypes
    <3>4. Alone'
      BY <1>0, <1>l, <2>1, <2>2, <3>1, <3>2 DEF Alone
    <3>5. Published' /\ ToldIsPublished'
      BY <3>2 DEF Published, ToldIsPublished
    <3> QED BY <3>2, <3>3, <3>4, <3>5 DEF RuntimeInv
  <2> QED BY <2>3, <2>4
<1>3. CASE run.at = "store"
  <2>1. /\ dataReady' = run.value /\ declared' = (declared /\ run.value)
        /\ Goto(t, "read", FALSE) /\ UNCHANGED <<lastReady, queue, untold, overlap>>
    BY <1>3 DEF CallbackStep
  <2>2. /\ next.at = "read" /\ next.lost = run.lost
        /\ pc' \in [CallbackTasks -> Callbacks] /\ Apart'
        /\ overlap' # "some" => Callback' = next
    BY <1>g, <2>1
  <2>3. RuntimeTypes'
    BY <1>0, <1>h, <1>p, <2>1, <2>2 DEF RuntimeTypes
  <2>4. Alone'
    BY <1>0, <1>3, <1>l, <1>s, <2>1, <2>2 DEF Alone
  <2>5. Published' /\ ToldIsPublished'
    BY <2>2 DEF Published, ToldIsPublished
  <2> QED BY <2>2, <2>3, <2>4, <2>5 DEF RuntimeInv
<1>4. CASE run.at = "read"
  <2>1. Goto(t, "enqueue", Readiness) /\ UNCHANGED <<readyVars, queue, untold, overlap>>
    BY <1>4 DEF CallbackStep
  <2>2. Readiness \in BOOLEAN
    BY <1>p DEF Readiness
  <2>3. /\ next.at = "enqueue" /\ next.value = Readiness /\ next.lost = run.lost
        /\ pc' \in [CallbackTasks -> Callbacks] /\ Apart'
        /\ overlap' # "some" => Callback' = next
    BY <1>g, <2>1, <2>2
  <2>4. RuntimeTypes'
    BY <1>0, <1>p, <2>1, <2>3 DEF RuntimeTypes, readyVars
  <2>5. Alone'
    BY <1>0, <1>4, <1>l, <1>s, <2>1, <2>3 DEF Alone, Readiness, readyVars
  <2>6. Published' /\ ToldIsPublished'
    BY <2>3 DEF Published, ToldIsPublished
  <2> QED BY <2>3, <2>4, <2>5, <2>6 DEF RuntimeInv
<1>5. CASE run.at = "enqueue"
  <2>1. /\ Enqueue(IF run.value THEN "sink_ready" ELSE "sink_lost", ~run.value)
        /\ Return(t) /\ Ends(t, TRUE) /\ UNCHANGED readyVars
    BY <1>5 DEF CallbackStep
  <2> DEFINE e == IF run.value THEN "sink_ready" ELSE "sink_lost"
  <2>2. e \in Events /\ e \in SinkEvents /\ (~run.value) \in BOOLEAN
    BY <1>h DEF Events, SinkEvents
  <2>3. /\ queue' \in Seq(Events) /\ Len(queue') <= QueueDepth
        /\ ~untold' => (Told(queue', mode) <=> e = "sink_ready")
    BY <1>0, <2>1, <2>2, EnqueueTells
  <2>4. ~untold' => (Told(queue', mode) <=> run.value)
    BY <2>3
  <2>5. /\ next.at = IF run.lost THEN "lost" ELSE "idle"
        /\ next.lost = run.lost
        /\ pc' \in [CallbackTasks -> Callbacks] /\ Apart'
        /\ overlap' = IF overlap = "alone" /\ ~run.lost THEN "none" ELSE overlap
        /\ overlap' # "some" => Callback'.at = next.at /\ (Callback'.lost => run.lost)
    BY <1>r, <2>1
  <2>6. overlap' # "some" =>
          /\ lastReady = LinkReady /\ dataReady = LinkReady /\ (run.lost => ~bound)
          /\ run.value <=> dataReady /\ declared
    BY <1>0, <1>5, <1>s, <2>5 DEF Alone
  <2>7. RuntimeTypes'
    BY <1>0, <1>p, <2>1, <2>3, <2>5 DEF RuntimeTypes, readyVars
  <2>8. Alone'
    BY <1>0, <1>h, <1>l, <2>1, <2>5, <2>6 DEF Alone, readyVars
  <2>9. Published'
    BY <1>0, <1>l, <2>1, <2>5, <2>6 DEF Published, readyVars
  <2>10. ToldIsPublished'
    BY <1>0, <2>1, <2>4, <2>6 DEF ToldIsPublished, readyVars
  <2> QED BY <2>5, <2>7, <2>8, <2>9, <2>10 DEF RuntimeInv
<1>6. CASE run.at = "lost"
  <2>1. /\ dataReady' = FALSE /\ declared' = FALSE /\ Enqueue("sink_lost", TRUE)
        /\ pc' = [pc EXCEPT ![t] = Idle] /\ lastReady' = lastReady
        /\ overlap' = IF overlap = "alone" THEN "none" ELSE overlap
    BY <1>6 DEF CallbackStep
  <2>2. "sink_lost" \in Events /\ "sink_lost" \in SinkEvents
    BY DEF Events, SinkEvents
  <2>3. /\ queue' \in Seq(Events) /\ Len(queue') <= QueueDepth
        /\ ~untold' => ~Told(queue', mode)
    BY <1>0, <2>1, <2>2, EnqueueTells
  <2>4. Idle \in Callbacks /\ Idle.at = "idle" /\ ~Idle.lost
    BY DEF Idle, Callbacks
  <2>5. next = Idle /\ pc'[u] = pc[u] /\ pc' \in [CallbackTasks -> Callbacks]
    BY <1>p, <1>c, <2>1, <2>4
  <2>6. RuntimeTypes'
    BY <1>0, <1>p, <2>1, <2>3, <2>5 DEF RuntimeTypes
  <2>7. (\A v \in CallbackTasks :
           (pc[v].at = "idle" => ~pc[v].lost) /\ (pc[v].at = "lost" => pc[v].lost))'
    BY <1>0, <1>c, <2>4, <2>5 DEF Apart
  <2>8. ~Busy(t)' /\ (Busy(u)' <=> Busy(u))
    BY <2>4, <2>5 DEF Busy
  <2>9. overlap' # "alone" /\ (overlap' # "some" => overlap # "some")
    BY <1>p, <2>1
  <2>10. Apart'
    BY <1>c, <2>7, <2>8, <2>9 DEF Apart, CallbackTasks
  <2>11. overlap' # "some" => Callback'.at = "idle" /\ ~Callback'.lost
    <3> SUFFICES ASSUME overlap' # "some" PROVE Callback'.at = "idle" /\ ~Callback'.lost
      OBVIOUS
    <3>1. ~Busy("hid")' /\ ~Busy("host")'
      BY <1>c, <1>s, <2>8, <2>9 DEF CallbackTasks
    <3> QED BY <2>7, <3>1 DEF Callback, Busy, CallbackTasks
  <2>12. overlap' # "some" => lastReady = LinkReady /\ LinkReady = FALSE
    BY <1>0, <1>6, <1>l, <1>s, <2>9 DEF Alone, Apart
  <2>13. Alone'
    BY <2>11 DEF Alone
  <2>14. Published'
    BY <1>l, <2>1, <2>11, <2>12 DEF Published
  <2>15. ToldIsPublished'
    BY <1>0, <2>1, <2>3 DEF ToldIsPublished
  <2> QED BY <2>6, <2>10, <2>13, <2>14, <2>15 DEF RuntimeInv
<1> QED BY <1>1, <1>2, <1>3, <1>4, <1>5, <1>6 DEF CallbackStep

LEMMA RuntimeStarts == RuntimeInit => RuntimeInv
<1> SUFFICES ASSUME RuntimeInit PROVE RuntimeInv
  OBVIOUS
<1>1. /\ pc = [t \in CallbackTasks |-> Idle] /\ queue = <<>> /\ mode = "unavailable"
      /\ LinkReady = FALSE /\ lastReady = FALSE /\ dataReady = FALSE /\ declared = FALSE
      /\ subscribed = FALSE /\ bound = FALSE /\ encrypted = FALSE /\ overlap = "none"
  BY DEF RuntimeInit, SwitchInit, LinkReady
<1>2. /\ Idle \in Callbacks /\ Idle.at = "idle" /\ ~Idle.lost
  BY DEF Idle, Callbacks
<1>3. \A t \in CallbackTasks : pc[t] = Idle
  BY <1>1
<1>4. pc["host"] = Idle /\ pc["hid"] = Idle
  BY <1>3 DEF CallbackTasks
<1>5. ~Busy("host") /\ ~Busy("hid") /\ Callback.at = "idle" /\ ~Callback.lost
  BY <1>2, <1>4 DEF Busy, Callback
<1>6. RuntimeTypes
  <2>1. queue \in Seq(Events) /\ Len(queue) = 0
    BY <1>1
  <2>2. Len(queue) <= QueueDepth
    BY <2>1, RuntimeAssumption
  <2>3. mode \in Modes /\ {subscribed, bound, encrypted, lastReady, dataReady, declared} \subseteq BOOLEAN
    BY <1>1 DEF Modes
  <2>4. pc \in [CallbackTasks -> Callbacks]
    BY <1>1, <1>2
  <2> QED BY <1>1, <2>1, <2>2, <2>3, <2>4 DEF RuntimeTypes
<1>7. Apart
  BY <1>1, <1>2, <1>3, <1>5 DEF Apart
<1>8. Alone /\ Published
  BY <1>1, <1>5 DEF Alone, Published
<1>9. ToldIsPublished
  BY <1>1 DEF ToldIsPublished, Told
<1> QED BY <1>6, <1>7, <1>8, <1>9 DEF RuntimeInv

LEMMA RuntimeStep == RuntimeInv /\ [RuntimeNext]_runtimeVars => RuntimeInv'
<1> SUFFICES ASSUME RuntimeInv, [RuntimeNext]_runtimeVars PROVE RuntimeInv'
  OBVIOUS
<1>1. CASE UNCHANGED runtimeVars
  <2>1. UNCHANGED flagVars /\ UNCHANGED <<mode, queue, untold>>
    BY <1>1 DEF runtimeVars, flagVars, linkVars
  <2>2. mode' \in Modes /\ queue' \in Seq(Events) /\ Len(queue') <= QueueDepth
    BY <2>1 DEF RuntimeInv, RuntimeTypes
  <2>3. Told(queue', mode') <=> Told(queue, mode)
    BY <2>1
  <2> QED BY <2>1, <2>2, <2>3, OthersKeep
<1> QED
  BY <1>1, ProducersKeep, AudioKeeps, CallbackBegins, CallbackGoesOn DEF RuntimeNext

(* Whatever the callbacks of the two tasks publish between their reads, their  *)
(* stores and their events (probe/ble_services.cpp, product_controller.cpp),   *)
(* for every depth of both queues: at rest the microphone knows its sink,      *)
(* unless the last word was thrown away or callbacks overlapped and none has    *)
(* found the link changed, alone, since.                                     *)
THEOREM MicrophoneKnowsItsSink == RuntimeSpec => []AgreementAtRest
<1>1. RuntimeInv => AgreementAtRest
  <2> SUFFICES ASSUME RuntimeInv, AtRest, ~untold, overlap = "none"
               PROVE  mode # "unavailable" <=> SinkThere
    BY DEF AgreementAtRest
  <2>1. pc["host"] = Idle /\ pc["hid"] = Idle /\ queue = <<>>
    BY DEF AtRest, CallbackTasks
  <2>2. Callback.at = "idle"
    BY <2>1 DEF Idle, Callback
  <2>3. dataReady = lastReady /\ lastReady = LinkReady
    BY <2>2 DEF RuntimeInv, Published
  <2>4. Told(queue, mode) <=> dataReady /\ declared
    BY <2>2, <2>3 DEF RuntimeInv, ToldIsPublished
  <2>5. Told(queue, mode) <=> mode # "unavailable"
    BY <2>1 DEF Told
  <2> QED BY <2>3, <2>4, <2>5 DEF SinkThere
<1> QED BY RuntimeStarts, RuntimeStep, <1>1, PTL DEF RuntimeSpec
=============================================================================
