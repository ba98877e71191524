-------------------------- MODULE MicrophoneRuntime --------------------------
(***************************************************************************)
(* The microphone among the tasks that drive it.  BLE callbacks of the      *)
(* NimBLE host task and of the HID event task (probe/ble_services.cpp)      *)
(* recompute whether an audio sink is there and tell the product through    *)
(* product_controller.cpp, which turns the answer into an event in a short  *)
(* queue.  The UI task and the G0 task add clicks to that queue.  The audio *)
(* task empties it, then captures and sends one frame while live.           *)
(*                                                                         *)
(* A callback is several steps, because the tasks preempt one another       *)
(* between its reads, its stores and its enqueue; the shared flags are      *)
(* std::atomic, so each access is whole.  The connection handle of a link   *)
(* is the one of the link before it, as NimBLE assigns it.                  *)
(*                                                                         *)
(* The controller itself appears as the recording switch it implements      *)
(* (MicrophoneController, ImplementsSwitch): one call, one step.            *)
(***************************************************************************)
EXTENDS RecordingSwitch, Naturals, Sequences

CONSTANTS
  QueueDepth,     (* kMicrophoneQueueDepth: 8                              *)
  G0QueueDepth    (* kG0QueueDepth: 8                                      *)

ASSUME RuntimeAssumption ==
  /\ QueueDepth \in Nat \ {0}
  /\ G0QueueDepth \in Nat \ {0}

VARIABLES
  link,           (* the BLE stack: "down", "plain" or "secure"            *)
  advertising,    (* the stack advertises, so a peer can connect           *)
  hidLost,        (* a HID disconnect event waits for its task             *)
  boundConn,      (* g_bound_conn is the handle of the link                *)
  subscribed,     (* g_audio_data_subscribed                               *)
  bound,          (* g_audio_companion_bound                               *)
  encrypted,      (* g_audio_encrypted                                     *)
  lastReady,      (* g_last_audio_sink_ready                               *)
  dataReady,      (* g_audio_data_ready                                    *)
  declared,       (* g_audio_sink_declared                                 *)
  pc,             (* per callback task: its next step and the value it read *)
  audioPc,        (* the audio task: "drain", "frame" or "notify"           *)
  g0Pending,      (* length of g_g0_queue                                  *)
  queue,          (* g_microphone_queue                                    *)
  untold,         (* history: the last word of the sink was discarded      *)
  overlap,        (* history: two callbacks overlapped (see Overlaps)      *)
  pressed         (* history: a click came while recording, which still runs *)

linkVars == <<link, advertising, hidLost, boundConn, subscribed, bound, encrypted>>
readyVars == <<lastReady, dataReady, declared>>
runtimeVars ==
  <<mode, linkVars, readyVars, pc, audioPc, g0Pending, queue,
    untold, overlap, pressed>>

CallbackTasks == {"host", "hid"}
Idle == [at |-> "idle", value |-> FALSE, lost |-> FALSE]

(* ble_audio_sink_ready() is asked again by every frame.                    *)
LinkReady == subscribed /\ bound /\ encrypted

RuntimeInit ==
  /\ SwitchInit
  /\ link = "down" /\ advertising = TRUE /\ hidLost = FALSE /\ boundConn = FALSE
  /\ subscribed = FALSE /\ bound = FALSE /\ encrypted = FALSE
  /\ lastReady = FALSE /\ dataReady = FALSE /\ declared = FALSE
  /\ pc = [t \in CallbackTasks |-> Idle]
  /\ audioPc = "drain"
  /\ g0Pending = 0
  /\ queue = <<>>
  /\ untold = FALSE /\ overlap = "none" /\ pressed = FALSE

-----------------------------------------------------------------------------
(* enqueue_microphone_event(): a full queue is cleared for a critical event *)
(* and drops any other.                                                     *)
Enqueued(q, event, critical) ==
  IF Len(q) < QueueDepth THEN Append(q, event)
  ELSE IF critical THEN <<event>>
  ELSE q

SinkEvents == {"sink_ready", "sink_lost"}
Full == Len(queue) = QueueDepth
SinkWordWaits == \E i \in DOMAIN queue : queue[i] \in SinkEvents

Enqueue(event, critical) ==
  /\ queue' = Enqueued(queue, event, critical)
  /\ untold' = IF event \in SinkEvents THEN Full /\ ~critical
               ELSE untold \/ (Full /\ critical /\ SinkWordWaits)

Goto(t, at, value) ==
  pc' = [pc EXCEPT ![t] = [at |-> at, value |-> value, lost |-> @.lost]]

(* A callback ends; the HID disconnect goes on to ble_disconnected().       *)
Return(t) ==
  pc' = [pc EXCEPT ![t] = IF @.lost THEN [@ EXCEPT !.at = "lost"] ELSE Idle]

(* What two callbacks that overlap leave behind stays, until one that looks  *)
(* at the link has run alone from its first step to its word to the product: *)
(* overlap is "some", then "alone" while that one runs, then "none".         *)
Busy(t) == pc[t].at # "idle"
Overlaps(t, looks) ==
  overlap' = IF \E u \in CallbackTasks \ {t} : Busy(u) THEN "some"
             ELSE IF overlap # "none" /\ looks THEN "alone"
             ELSE overlap
Ends(t, told) ==
  overlap' = IF overlap # "alone" \/ pc[t].lost THEN overlap
             ELSE IF told THEN "none" ELSE "some"

-----------------------------------------------------------------------------
(* What the BLE stack reports, each the first step of a callback.           *)
HostCallback(at) ==
  /\ ~Busy("host")
  /\ Goto("host", at, FALSE)
  /\ Overlaps("host", at = "compute")
  /\ UNCHANGED <<mode, audioPc, g0Pending, queue, untold,
                 pressed, lastReady, dataReady>>

GapConnect ==
  /\ advertising /\ ~Busy("host")
  /\ advertising' = FALSE
  /\ link' \in {"plain", "secure"}
  /\ UNCHANGED <<mode, hidLost, boundConn, subscribed, bound,
                 encrypted, readyVars, pc, audioPc, g0Pending, queue,
                 untold, overlap, pressed>>

(* reset_audio_link_state() first clears what it publishes next.            *)
GapDisconnect ==
  /\ link # "down"
  /\ HostCallback("compute")
  /\ link' = "down" /\ hidLost' = TRUE
  /\ subscribed' = FALSE /\ bound' = FALSE /\ encrypted' = FALSE
  /\ UNCHANGED <<advertising, boundConn, declared>>

EncChange ==
  /\ link # "down"
  /\ HostCallback("compute")
  /\ encrypted' \in BOOLEAN
  /\ link' = IF encrypted' THEN "secure" ELSE link
  /\ UNCHANGED <<advertising, hidLost, boundConn, subscribed, bound, declared>>

Subscribe ==
  /\ link # "down"
  /\ HostCallback("compute")
  /\ subscribed' \in BOOLEAN
  /\ subscribed' => link = "secure"
  /\ UNCHANGED <<link, advertising, hidLost, boundConn, bound, encrypted,
                 declared>>

(* The companion writes BIND1 to the control characteristic.                *)
Bind ==
  /\ link = "secure"
  /\ HostCallback("compute")
  /\ boundConn' = TRUE /\ bound' = TRUE /\ encrypted' = TRUE
  /\ UNCHANGED <<link, advertising, hidLost, subscribed, declared>>

(* The companion writes SINK_READY or SINK_NOT_READY to audio control.      *)
AudioControl ==
  /\ link = "secure" /\ boundConn
  /\ HostCallback("read")
  /\ declared' \in BOOLEAN
  /\ UNCHANGED linkVars

(* ble_hidd_event_callback(DISCONNECT): clear_current_companion_binding().  *)
HidDisconnect ==
  /\ hidLost /\ ~Busy("hid")
  /\ hidLost' = FALSE
  /\ boundConn' = FALSE /\ bound' = FALSE
  /\ pc' = [pc EXCEPT !["hid"] =
              [at |-> "compute", value |-> FALSE, lost |-> TRUE]]
  /\ Overlaps("hid", TRUE)
  /\ UNCHANGED <<mode, link, advertising, subscribed, encrypted, readyVars,
                 audioPc, g0Pending, queue, untold, pressed>>

(* Advertising starts again at the end of the HID disconnect callback, or   *)
(* when the watchdog finds the link down and nothing advertised.            *)
Watchdog ==
  /\ link = "down" /\ ~Busy("host") /\ ~advertising
  /\ advertising' = TRUE
  /\ UNCHANGED <<mode, link, hidLost, boundConn, subscribed, bound, encrypted,
                 readyVars, pc, audioPc, g0Pending, queue, untold, overlap, pressed>>

-----------------------------------------------------------------------------
(* publish_microphone_readiness() asks for the link and for the declaration. *)
Readiness_IgnoresDeclaration == dataReady
Readiness == dataReady /\ declared

(* publish_audio_sink_ready_if_changed() and the product's handlers.        *)
CallbackStep(t) ==
  /\ UNCHANGED <<mode, link, hidLost, boundConn, subscribed, bound, encrypted,
                 audioPc, g0Pending, pressed>>
  /\ advertising' = (advertising \/ (pc[t].at = "lost" /\ link = "down"))
  /\ \/ /\ pc[t].at = "compute"
        /\ Goto(t, "exchange", LinkReady)
        /\ UNCHANGED <<readyVars, queue, untold, overlap>>
     \/ /\ pc[t].at = "exchange"
        /\ lastReady' = pc[t].value
        /\ IF pc[t].value = lastReady
           THEN Return(t) /\ Ends(t, FALSE)
           ELSE Goto(t, "store", pc[t].value) /\ UNCHANGED overlap
        /\ UNCHANGED <<dataReady, declared, queue, untold>>
     \/ /\ pc[t].at = "store"
        /\ dataReady' = pc[t].value
        /\ declared' = (declared /\ pc[t].value)
        /\ Goto(t, "read", FALSE)
        /\ UNCHANGED <<lastReady, queue, untold, overlap>>
     \/ /\ pc[t].at = "read"
        /\ Goto(t, "enqueue", Readiness)
        /\ UNCHANGED <<readyVars, queue, untold, overlap>>
     \/ /\ pc[t].at = "enqueue"
        /\ Enqueue(IF pc[t].value THEN "sink_ready" ELSE "sink_lost",
                   ~pc[t].value)
        /\ Return(t) /\ Ends(t, TRUE)
        /\ UNCHANGED readyVars
     \/ /\ pc[t].at = "lost"
        /\ dataReady' = FALSE /\ declared' = FALSE
        /\ Enqueue("sink_lost", TRUE)
        /\ pc' = [pc EXCEPT ![t] = Idle]
        /\ overlap' = IF overlap = "alone" THEN "none" ELSE overlap
        /\ UNCHANGED lastReady

-----------------------------------------------------------------------------
(* The UI task sees a short press; with the chord enabled it goes through   *)
(* the G0 queue, and a full G0 queue falls back to the microphone alone.    *)
Press ==
  /\ UNCHANGED <<mode, linkVars, readyVars, pc, audioPc, overlap>>
  /\ pressed' = (pressed \/ mode = "recording")
  /\ \/ /\ g0Pending < G0QueueDepth
        /\ g0Pending' = g0Pending + 1
        /\ UNCHANGED <<queue, untold>>
     \/ /\ Enqueue("g0_click", TRUE)
        /\ UNCHANGED g0Pending

(* g0_task: the chord, sent or not, is followed by the click.               *)
G0Task ==
  /\ g0Pending > 0
  /\ g0Pending' = g0Pending - 1
  /\ Enqueue("g0_click", TRUE)
  /\ UNCHANGED <<mode, linkVars, readyVars, pc, audioPc, overlap, pressed>>

(* A long press, or a serial command the state does not admit.  A serial    *)
(* command it does admit is a click that a full queue may drop.             *)
HilAdmits == mode \in {"ready", "recording"}
UncriticalPress ==
  /\ \/ Enqueue("g0_ignored", FALSE)
     \/ HilAdmits /\ Enqueue("g0_click", FALSE)
  /\ UNCHANGED <<mode, linkVars, readyVars, pc, audioPc, g0Pending,
                 overlap, pressed>>

-----------------------------------------------------------------------------
(* audio_task: the whole queue first.                                       *)
Drain ==
  /\ audioPc = "drain" /\ queue # <<>>
  /\ queue' = Tail(queue)
  /\ \/ Head(queue) = "sink_ready" /\ SinkReadyCall
     \/ Head(queue) = "sink_lost" /\ SinkLostCall
     \/ Head(queue) = "g0_click" /\ ClickCall
     \/ Head(queue) = "g0_ignored" /\ UNCHANGED mode
  /\ UNCHANGED audioPc

Drained ==
  /\ audioPc = "drain" /\ queue = <<>> /\ mode = "recording"
  /\ audioPc' = "frame"
  /\ UNCHANGED <<mode, queue>>

(* run_once(): capture, then ask the transport, which asks the link.        *)
SinkReadyForFrame_Always == TRUE
SinkReadyForFrame == LinkReady

FrameMissed ==
  /\ audioPc = "frame" /\ NoFrameCall
  /\ audioPc' = "drain"
  /\ UNCHANGED queue

FrameRead ==
  /\ audioPc = "frame" /\ UNCHANGED queue
  /\ \/ ~SinkReadyForFrame /\ FrameCall("not_ready") /\ audioPc' = "drain"
     \/ SinkReadyForFrame /\ UNCHANGED mode /\ audioPc' = "notify"

(* notify_audio_frame() paces, waits for a credit and sends; the link may   *)
(* go at any point of that, so every result is possible.  A loss window may  *)
(* end with the frame.                                                      *)
Notify ==
  /\ audioPc = "notify"
  /\ \/ \E answer \in SwitchAnswers \ {"not_ready"} : FrameCall(answer)
     \/ WindowCall
  /\ audioPc' = "drain"
  /\ UNCHANGED queue

Audio(step) ==
  /\ step
  /\ pressed' = (pressed /\ mode' = "recording")
  /\ UNCHANGED <<linkVars, readyVars, pc, g0Pending, untold, overlap>>

AudioTask ==
  Audio(Drain \/ Drained \/ FrameMissed \/ FrameRead \/ Notify)

-----------------------------------------------------------------------------
RuntimeNext ==
  \/ GapConnect \/ GapDisconnect \/ EncChange \/ Subscribe \/ Bind
  \/ AudioControl \/ HidDisconnect \/ Watchdog
  \/ \E t \in CallbackTasks : CallbackStep(t)
  \/ Press \/ G0Task \/ UncriticalPress
  \/ AudioTask

(* Every task that has work is scheduled again: FreeRTOS preempts, and no   *)
(* step of these tasks waits without a timeout.  Two environment facts are  *)
(* assumed: producers add at most one event per 20 ms round or radio event   *)
(* and the audio task consumes one in microseconds, so the queue is empty    *)
(* again and again; and the capture is not without a frame for ever.        *)
RuntimeFairness ==
  /\ WF_runtimeVars(AudioTask)
  /\ SF_runtimeVars(Audio(Drained)) /\ SF_runtimeVars(Audio(FrameRead))
  /\ []<>(audioPc # "drain" \/ queue = <<>>)
  /\ WF_runtimeVars(G0Task)
  /\ \A t \in CallbackTasks : WF_runtimeVars(CallbackStep(t))

RuntimeSpec == RuntimeInit /\ [][RuntimeNext]_runtimeVars /\ RuntimeFairness

-----------------------------------------------------------------------------
(* The flags, program counters and queues of the tasks have their types.    *)
Events == {"sink_ready", "sink_lost", "g0_click", "g0_ignored"}
RuntimeTypeOK ==
  /\ mode \in Modes
  /\ link \in {"down", "plain", "secure"}
  /\ {advertising, hidLost, boundConn, subscribed, bound, encrypted, lastReady, dataReady,
      declared, untold, pressed} \subseteq BOOLEAN
  /\ overlap \in {"none", "some", "alone"}
  /\ pc \in [CallbackTasks ->
       [at : {"idle", "compute", "exchange", "store", "read", "enqueue", "lost"},
        value : BOOLEAN, lost : BOOLEAN]]
  /\ audioPc \in {"drain", "frame", "notify"}
  /\ g0Pending \in 0 .. G0QueueDepth
  /\ Len(queue) <= QueueDepth
  /\ \A i \in DOMAIN queue : queue[i] \in Events

(* When the Bluetooth sink goes, by a disconnect, an unsubscription or a    *)
(* lost binding, the capture stops or the sink is back: whatever becomes of *)
(* the event, the transport refuses the next frame.                         *)
SinkLossStopsCapture == ~LinkReady ~> (mode # "recording" \/ LinkReady)

(* A short press while recording ends that recording, through the G0 queue  *)
(* and its chord, its full-queue fallback, and a full microphone queue.     *)
PressStopsRecording == pressed ~> ~pressed

(* What must end a recording ends it, through every queue and callback: a    *)
(* sink that is lost, and a press of G0.                                     *)
RecordingEnds == SinkLossStopsCapture /\ PressStopsRecording

(* Between the tasks nothing is on its way: no callback runs, no HID event   *)
(* waits and the queue is empty.                                            *)
AtRest ==
  /\ \A t \in CallbackTasks : pc[t] = Idle
  /\ ~hidLost /\ queue = <<>>

SinkThere == LinkReady /\ declared

(* At rest the state machine knows whether a subscribed, bound and encrypted *)
(* link has declared its sink: no order of loads, stores and events of a     *)
(* callback leaves it behind.  Excepted is the time after a full queue threw  *)
(* the last word away, up to the next one, and after two callbacks overlapped, *)
(* up to the next one that runs alone and finds the link changed: what they   *)
(* leave behind is repaired by then.                                        *)
AgreementAtRest ==
  AtRest /\ ~untold /\ overlap = "none" => (mode # "unavailable" <=> SinkThere)

(* Rule 2 of the microphone design (docs/superpowers/specs/2026-07-26-        *)
(* cardputer-ble-microphone-design.md:225): unavailable means that the sink is *)
(* not ready, so ready and live mean that it is, once nothing is on its way;   *)
(* but callbacks of the two tasks overtake one another.                      *)
ReadyMeansSink ==
  AtRest /\ ~untold /\ mode \in {"ready", "recording"} => LinkReady

(* Rule 7: a sink that says it is not ready stops the capture.              *)
NotReadyStopsCapture == ~declared ~> (mode # "recording" \/ declared)
=============================================================================
