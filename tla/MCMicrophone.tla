---------------------------- MODULE MCMicrophone ----------------------------
(* The controller with a short silence limit and a four-value sequence, and   *)
(* the runtime with a two-entry microphone queue and a one-entry G0 queue. They*)
(* share no variable: a behaviour is of one of them, and the other stays where *)
(* it begins.  The runtime is taken twice: with presses of G0 and callbacks    *)
(* that follow one another, and with callbacks of two tasks that overlap and   *)
(* a click of the serial test at a time, which starts a recording.           *)
EXTENDS MicrophoneController, MicrophoneRuntime

VARIABLE part
parts == <<controllerVars, runtimeVars, part>>

MCInit ==
  /\ Init /\ RuntimeInit /\ part \in {"controller", "presses", "callbacks"}
  /\ part # "controller" => nextSequence = 0
MCRuntimeNext ==
  /\ RuntimeNext
  /\ part = "presses" => overlap' = "none"
  /\ part = "callbacks" =>
       /\ UNCHANGED <<g0Pending, pressed>>
       /\ \A i \in DOMAIN queue' :
            queue'[i] \in SinkEvents \/ (queue' = <<"g0_click">> /\ mode # "recording")
MCNext ==
  /\ UNCHANGED part
  /\ \/ part = "controller" /\ Next /\ UNCHANGED runtimeVars
     \/ part # "controller" /\ MCRuntimeNext /\ UNCHANGED controllerVars
MCSpec == MCInit /\ [][MCNext]_parts /\ RuntimeFairness
=============================================================================
