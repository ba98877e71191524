---------------------------- MODULE CompanionLink ----------------------------
(***************************************************************************)
(* The device and an agent: the agent polls the device for the next action    *)
(* (which is also its heartbeat), tells Codex to do it, and posts a snapshot   *)
(* when that has changed or the device has none.  The device shows the         *)
(* snapshot, in the order of the sequence numbers, until it has heard nothing  *)
(* for a while.  The agent follows a new PIN while the old one has its grace.  *)
(*                                                                         *)
(* Sequence numbers are kept modulo Modulus.  Thirty seconds without a         *)
(* heartbeat may pass at any time.  Pets are in PetSync.                      *)
(***************************************************************************)
EXTENDS PinRotation, CodexProcess

CONSTANTS
  Modulus,        (* the range of the sequence numbers                      *)
  MaxPresses,     (* bound: actions the user asks for                       *)
  MaxFaults       (* bound: requests lost, crashes, failing writes          *)

ASSUME LinkAssumption ==
  /\ Modulus \in Nat \ {0, 1, 2}
  /\ MaxPresses \in Nat /\ MaxFaults \in Nat

VARIABLES
  (* The device                                                             *)
  companion,      (* g_companion_state is ok                                *)
  webCompanion,   (* the copy of the web server                             *)
  hasSnapshot, sequence, shown,   (* CompanionProtocol, what the page shows *)
  stale,          (* stale(): no heartbeat for thirty seconds               *)
  pendingAction,  (* g_pending_codex_action                                 *)
  server,         (* the web server in companion_snapshot()                 *)
  ui,             (* the UI task in its look at the companion               *)
  update,         (* per task: update_web_status()                          *)
  (* The agent                                                              *)
  pc,             (* where it is in its step                                *)
  told,           (* the answer to its heartbeat                            *)
  agentPin, agentRevision, savedPin, savedRevision,
  wireSequence,
  post,           (* the snapshot it posts                                  *)
  last,           (* lastSnapshot, or nothing                               *)
  queued,         (* a post the agent has given up, still to arrive         *)
  (* History                                                                *)
  presses, done, faults,
  takenAt,        (* the moment of Codex the snapshot of the device shows   *)
  unheard         (* what was posted last may not be what is shown          *)

deviceVars ==
  <<companion, webCompanion, hasSnapshot, sequence, shown, stale,
    pendingAction, server, ui, update>>
agentVars ==
  <<pc, told, agentPin, agentRevision, savedPin, savedRevision, wireSequence,
    post, last, queued>>
historyVars == <<presses, done, faults, takenAt, unheard>>
vars == <<pinVars, codexVars, deviceVars, agentVars, historyVars>>

NoAnswer == [action |-> "none", needs |-> FALSE, next |-> noPin, rev |-> 0]
NoPost == [number |-> 0, what |-> nothing, at |-> 0, with |-> noPin]
Free == [pc |-> "free", what |-> nothing]
Updater == {"server", "ui"}

Init ==
  /\ PinInit /\ CodexInit
  /\ companion = FALSE /\ webCompanion = FALSE
  /\ hasSnapshot = FALSE /\ sequence = 0 /\ shown = nothing /\ stale = TRUE
  /\ pendingAction = "none"
  /\ server = Free /\ ui = "free"
  /\ update = [u \in Updater |-> "no"]
  /\ pc = "idle" /\ told = NoAnswer
  /\ agentPin = pin /\ savedPin = pin
  /\ agentRevision = 0 /\ savedRevision = 0
  /\ wireSequence = 0 /\ post = NoPost /\ last = nothing
  /\ queued = NoPost
  /\ presses = 0 /\ done = 0 /\ faults = 0
  /\ takenAt = 0 /\ unheard = FALSE

Fault == faults < MaxFaults /\ faults' = faults + 1

-----------------------------------------------------------------------------
(* note_companion_activity(): a heartbeat counts while there is a companion.  *)
StillStale == stale /\ ~companion
NoteActivity == stale' = StillStale

(* companion_action_handler() gives the pending action away with its answer.  *)
(* A mistake the properties catch.                                          *)
TakeAction_Read == UNCHANGED pendingAction
TakeAction == pendingAction' = "none"

Heartbeat ==
  /\ pc = "idle" /\ server.pc = "free"
  /\ LET granted == Authorization(agentPin, TRUE) IN
     /\ AfterAuthorize(agentPin, TRUE)
     /\ IF granted = "denied"
        THEN UNCHANGED <<stale, pendingAction, pc, told, faults>>
        ELSE /\ NoteActivity /\ TakeAction
             /\ \/ /\ pc' = "told"
                   /\ told' = [action |-> pendingAction,
                               needs |-> ~webCompanion,
                               next |-> NextPairing(granted),
                               rev |-> revision]
                   /\ UNCHANGED faults
                \/ Fault /\ UNCHANGED <<pc, told>>
  /\ UNCHANGED <<pin, revision, flashPin, flashRevision, saving, rotations,
                 codexVars, companion, webCompanion, hasSnapshot, sequence,
                 shown, server, ui, update, agentPin, agentRevision, savedPin,
                 savedRevision, wireSequence, post, last, queued, presses,
                 done, takenAt, unheard>>

-----------------------------------------------------------------------------
(* The pairing, when the answer has one that is newer.                       *)
Migrates == told.next # noPin /\ told.rev > agentRevision

(* Store.Save() of the Windows agent, and PairingConfigWriter.persist(),       *)
(* which keeps a revision that is as new.                                    *)
Persist ==
  IF kind = "mac" /\ told.rev <= savedRevision
  THEN UNCHANGED <<savedPin, savedRevision>>
  ELSE savedPin' = told.next /\ savedRevision' = told.rev

MigratePairing ==
  /\ pc = "told" /\ Migrates
  /\ \/ /\ Persist
        /\ agentPin' = told.next /\ agentRevision' = told.rev
        /\ UNCHANGED <<pc, faults>>
     \/ /\ Fault /\ pc' = "idle"
        /\ Persist \/ UNCHANGED <<savedPin, savedRevision>>
        /\ UNCHANGED <<agentPin, agentRevision>>
  /\ UNCHANGED <<pinVars, codexVars, deviceVars, told, wireSequence, post,
                 last, queued, presses, done, takenAt, unheard>>

(* A device that has no snapshot gets one; then the action.                  *)
(* A mistake the properties catch.                                          *)
LastToCompare_Kept == last
LastToCompare == IF told.needs THEN nothing ELSE last

Perform ==
  /\ pc = "told" /\ ~Migrates
  /\ last' = LastToCompare
  /\ \/ Performs(told.action) /\ pc' = "done"
     \/ CannotPerform(told.action) /\ pc' = "idle"
  /\ done' = IF told.action = "none" THEN done ELSE done + 1
  /\ told' = NoAnswer
  /\ UNCHANGED <<pinVars, deviceVars, agentPin, agentRevision, savedPin,
                 savedRevision, wireSequence, post, queued, presses, faults,
                 takenAt, unheard>>

(* The snapshot, counted and posted unless it is the last one.  A post that   *)
(* was given up is not still on its way when the second after it is made.     *)
TakeSnapshot ==
  /\ pc = "done"
  /\ Snapshot
  /\ IF ContentOf(listed', selected') = last
     THEN pc' = "idle" /\ UNCHANGED <<wireSequence, post, queued>>
     ELSE /\ pc' = "post" /\ wireSequence' = (wireSequence + 1) % Modulus
          /\ post' = [number |-> wireSequence', with |-> agentPin,
                      what |-> ContentOf(listed', selected'), at |-> moves]
          /\ queued' = IF queued.number = wireSequence THEN queued ELSE NoPost
  /\ UNCHANGED <<pinVars, deviceVars, told, agentPin, agentRevision, savedPin,
                 savedRevision, last, presses, done, faults, takenAt, unheard>>

(* It fails, or, on macOS, is never answered.                                *)
NoSnapshot ==
  /\ pc = "done"
  /\ \/ RequestFails /\ Fault /\ pc' = "idle"
     \/ NotRunning /\ UNCHANGED faults /\ pc' = "idle"
     \/ kind = "mac" /\ Fault /\ pc' = "hung" /\ UNCHANGED codexVars
  /\ UNCHANGED <<pinVars, kind, threads, listed, selected, moves, deviceVars,
                 told, agentPin, agentRevision, savedPin, savedRevision,
                 wireSequence, post, last, queued, presses, done,
                 takenAt, unheard>>

-----------------------------------------------------------------------------
(* CompanionProtocol::apply(): the next number, or any after a pause.         *)
(* A mistake the properties catch.                                          *)
Takes_AnyNumber(number) == TRUE
Takes(number) ==
  ~hasSnapshot \/ number = (sequence + 1) % Modulus \/ StillStale

(* companion_status_handler() up to the change of the protocol.              *)
Arrives(p) ==
  /\ server = Free /\ update["server"] = "no"
  /\ AfterAuthorize(p.with, FALSE)
  /\ IF Authorization(p.with, FALSE) # "current"
     THEN UNCHANGED <<hasSnapshot, sequence, stale, server, takenAt>>
     ELSE IF Takes(p.number)
     THEN /\ hasSnapshot' = TRUE /\ sequence' = p.number /\ stale' = FALSE
          /\ server' = [pc |-> "taken", what |-> p.what]
          /\ takenAt' = p.at
     ELSE /\ NoteActivity
          /\ UNCHANGED <<hasSnapshot, sequence, server, takenAt>>
  /\ UNCHANGED <<pin, revision, flashPin, flashRevision, saving, rotations,
                 codexVars, companion, webCompanion, shown, pendingAction, ui,
                 update, told, agentPin, agentRevision, savedPin,
                 savedRevision, wireSequence, presses, done>>

(* PostStatus(): a snapshot that is refused for its number is answered as if   *)
(* it were taken.                                                           *)
Over == pc' = "idle" /\ post' = NoPost

(* A mistake the properties catch.                                          *)
Denied_Counted == Over /\ last' = post.what /\ UNCHANGED <<faults, unheard>>
Denied == Over /\ UNCHANGED <<last, faults, unheard>>

Refused ==
  /\ Over /\ unheard' = TRUE
  /\ \/ last' = post.what /\ UNCHANGED faults
     \/ Fault /\ UNCHANGED last

PostStatus ==
  /\ pc = "post"
  /\ Arrives(post)
  /\ IF Authorization(post.with, FALSE) # "current" THEN Denied
     ELSE IF Takes(post.number)
     THEN pc' = "posting" /\ unheard' = FALSE /\ UNCHANGED <<post, last, faults>>
     ELSE Refused
  /\ UNCHANGED queued

(* A post that is lost, or given up and taken up late.                       *)
PostLost ==
  /\ pc = "post" /\ Fault
  /\ Over /\ unheard' = TRUE
  /\ queued = NoPost /\ queued' \in {NoPost, post}
  /\ UNCHANGED <<pinVars, codexVars, deviceVars, told, agentPin, agentRevision,
                 savedPin, savedRevision, wireSequence, last, presses, done,
                 takenAt>>

LatePost ==
  /\ queued # NoPost
  /\ Arrives(queued)
  /\ queued' = NoPost
  /\ unheard' = TRUE
  /\ UNCHANGED <<pc, post, last, faults>>

-----------------------------------------------------------------------------
(* The rest of companion_snapshot(), and the answer.                         *)
DeviceElse == <<hasSnapshot, sequence, stale, pendingAction>>
AgentElse ==
  <<told, agentPin, agentRevision, savedPin, savedRevision, wireSequence,
    queued>>

SetCompanion ==
  /\ server.pc = "taken"
  /\ companion' = TRUE
  /\ server' = [server EXCEPT !.pc = "shows"]
  /\ UNCHANGED <<pinVars, codexVars, webCompanion, shown, ui, update,
                 DeviceElse, agentVars, historyVars>>

SetSession ==
  /\ server.pc = "shows"
  /\ shown' = server.what
  /\ server' = Free
  /\ update' = [update EXCEPT !["server"] = "due"]
  /\ UNCHANGED <<pinVars, codexVars, companion, webCompanion, ui, DeviceElse,
                 agentVars, historyVars>>

(* The look of the UI task at the companion.  Without a companion it matters   *)
(* only when something arrives before it ends.                              *)
MayArrive == server # Free \/ pc = "post" \/ queued # NoPost
UiLooks ==
  /\ ui = "free" /\ update["ui"] = "no" /\ stale
  /\ companion \/ MayArrive
  /\ ui' = "stale"
  /\ UNCHANGED <<pinVars, codexVars, companion, webCompanion, shown, server,
                 update, DeviceElse, agentVars, historyVars>>

UiWithdraws ==
  /\ ui = "stale"
  /\ companion' = FALSE
  /\ ui' = IF companion THEN "hides" ELSE "free"
  /\ UNCHANGED <<pinVars, codexVars, webCompanion, shown, server, update,
                 DeviceElse, agentVars, historyVars>>

UiHides ==
  /\ ui = "hides"
  /\ shown' = nothing /\ ui' = "free"
  /\ update' = [update EXCEPT !["ui"] = "due"]
  /\ unheard' = (unheard \/ companion)
  /\ UNCHANGED <<pinVars, codexVars, companion, webCompanion, server,
                 DeviceElse, agentVars, presses, done, faults, takenAt>>

(* update_web_status(), which reads first and stores then.                   *)
Reads(u) ==
  /\ update[u] = "due"
  /\ update' = [update EXCEPT ![u] = IF companion THEN "ok" ELSE "offline"]
  /\ UNCHANGED <<pinVars, codexVars, companion, webCompanion, shown, server, ui,
                 DeviceElse, agentVars, historyVars>>

Stores(u) ==
  /\ update[u] \in {"ok", "offline"}
  /\ webCompanion' = (update[u] = "ok")
  /\ update' = [update EXCEPT ![u] = "no"]
  /\ IF u = "server" /\ pc = "posting"
     THEN /\ Over
          /\ \/ last' = post.what /\ UNCHANGED <<faults, unheard>>
             \/ Fault /\ unheard' = TRUE /\ UNCHANGED last
     ELSE UNCHANGED <<pc, post, last, faults, unheard>>
  /\ UNCHANGED <<pinVars, codexVars, companion, shown, server, ui, DeviceElse,
                 AgentElse, presses, done, takenAt>>

-----------------------------------------------------------------------------
(* The user asks for an action, saves a PIN, uses the new one in the browser. *)
Press(action) ==
  /\ presses < MaxPresses
  /\ presses' = presses + 1
  /\ pendingAction' = action
  /\ UNCHANGED <<pinVars, codexVars, companion, webCompanion, hasSnapshot,
                 sequence, shown, stale, server, ui, update, agentVars, done,
                 faults, takenAt, unheard>>

UserSavesPin ==
  /\ \E s \in Saver :
       \/ \E new \in Pin : BeginSave(s, new)
       \/ FinishSave(s)
  /\ UNCHANGED <<codexVars, deviceVars, agentVars, historyVars>>

FlashFails ==
  /\ \E s \in Saver : SaveFails(s)
  /\ Fault
  /\ UNCHANGED <<codexVars, deviceVars, agentVars, presses, done,
                 takenAt, unheard>>

BrowserUsesPin ==
  /\ previous # noPin
  /\ AfterAuthorize(pin, FALSE)
  /\ UNCHANGED <<pin, revision, flashPin, flashRevision, saving, rotations,
                 codexVars, deviceVars, agentVars, historyVars>>

(* The user pairs the agent again, which is started anew: FirstPair() asks     *)
(* for an action and drops it.                                              *)
AgentStarts(p, rev) ==
  /\ pc' = "idle" /\ told' = NoAnswer
  /\ agentPin' = p /\ agentRevision' = rev
  /\ wireSequence' = 0 /\ post' = NoPost /\ last' = nothing
  /\ queued' = NoPost
  /\ process' = started + 1 /\ started' = started + 1
  /\ asks' = {} /\ unread' = nothing /\ active' = nothing
  /\ pending' = nothing /\ listed' = <<>> /\ selected' = 1
  /\ UNCHANGED <<kind, threads, moves>>

PairAgain ==
  /\ Authorization(agentPin, TRUE) = "denied" /\ pc = "idle"
  /\ server = Free /\ update["server"] = "no"
  /\ AfterAuthorize(pin, TRUE)
  /\ NoteActivity /\ TakeAction
  /\ savedPin' = pin /\ savedRevision' = 0
  /\ AgentStarts(pin, 0)
  /\ UNCHANGED <<pin, revision, flashPin, flashRevision, saving, rotations,
                 companion, webCompanion, hasSnapshot, sequence, shown, server,
                 ui, update, historyVars>>

-----------------------------------------------------------------------------
(* Faults: crashes of both sides and of Codex, and a pause on the network.    *)
AgentRestarts ==
  /\ Fault
  /\ AgentStarts(savedPin, savedRevision)
  /\ UNCHANGED <<pinVars, deviceVars, savedPin, savedRevision, presses, done,
                 takenAt, unheard>>

CodexDies ==
  /\ ProcessDies
  /\ Fault
  /\ UNCHANGED <<pinVars, deviceVars, agentVars, presses, done,
                 takenAt, unheard>>

DeviceRestarts ==
  /\ Fault
  /\ LoadPairingCode
  /\ companion' = FALSE /\ webCompanion' = FALSE
  /\ hasSnapshot' = FALSE /\ sequence' = 0 /\ shown' = nothing
  /\ stale' = TRUE /\ pendingAction' = "none"
  /\ server' = Free /\ ui' = "free" /\ update' = [u \in Updater |-> "no"]
  /\ IF pc = "posting" THEN Over ELSE UNCHANGED <<pc, post>>
  /\ queued' = NoPost
  /\ UNCHANGED <<codexVars, told, agentPin, agentRevision, savedPin,
                 savedRevision, wireSequence, last, presses, done,
                 takenAt, unheard>>

(* Heartbeats come every two seconds, and the web server does not stop for     *)
(* long: thirty seconds without one are a fault, unless they do not count or   *)
(* the agent has stopped or is turned away.                                 *)
Unheard ==
  /\ server = Free
  /\ ~companion \/ pc = "hung" \/ Authorization(agentPin, TRUE) = "denied"

GoesStale ==
  /\ ~stale
  /\ stale' = TRUE
  /\ IF Unheard THEN UNCHANGED faults ELSE Fault
  /\ UNCHANGED <<pinVars, codexVars, companion, webCompanion, hasSnapshot,
                 sequence, shown, pendingAction, server, ui, update, agentVars,
                 presses, done, takenAt, unheard>>

GraceRunsOut ==
  /\ GraceEnds
  /\ UNCHANGED <<codexVars, deviceVars, agentVars, historyVars>>

CodexWorks ==
  /\ CodexMoves
  /\ UNCHANGED <<pinVars, deviceVars, agentVars, historyVars>>

-----------------------------------------------------------------------------
Agent ==
  \/ Heartbeat \/ MigratePairing \/ Perform \/ TakeSnapshot \/ NoSnapshot
  \/ PostStatus \/ PostLost
Device ==
  \/ LatePost \/ SetCompanion \/ SetSession
  \/ UiLooks \/ UiWithdraws \/ UiHides
  \/ \E u \in Updater : Reads(u) \/ Stores(u)
User ==
  \/ \E a \in {"select_next", "approve", "interrupt"} : Press(a)
  \/ UserSavesPin \/ BrowserUsesPin \/ PairAgain
Faults ==
  \/ FlashFails \/ AgentRestarts \/ CodexDies \/ DeviceRestarts
  \/ GoesStale \/ GraceRunsOut

Next == Agent \/ Device \/ User \/ CodexWorks \/ Faults
Spec == Init /\ [][Next]_vars

(* The agent goes through its steps every two seconds, the tasks of the       *)
(* device run, a device that nobody talks to goes stale.                     *)
Fairness ==
  /\ WF_vars(Heartbeat) /\ WF_vars(MigratePairing) /\ WF_vars(Perform)
  /\ WF_vars(TakeSnapshot \/ NoSnapshot) /\ WF_vars(PostStatus)
  /\ WF_vars(SetCompanion) /\ WF_vars(SetSession)
  /\ WF_vars(UiLooks) /\ WF_vars(UiWithdraws) /\ WF_vars(UiHides)
  /\ \A u \in Updater : WF_vars(Reads(u)) /\ WF_vars(Stores(u))
  /\ WF_vars(GoesStale /\ Unheard)
FairSpec == Spec /\ Fairness

-----------------------------------------------------------------------------
(* An action that the user asked for is told to Codex at most once, whatever  *)
(* answers are lost.                                                        *)
ActionOnce == done <= presses

(* An approval is kept for the process that asked for it, never for one that   *)
(* was started since.                                                       *)
AnswerGoesToAsker ==
  pending # nothing /\ process # 0 => pending.of = process

(* What the agent believes to be shown is shown, while no snapshot was lost,   *)
(* late, refused for its number or overwritten by the UI task.               *)
ShownIsPosted ==
  companion /\ pc = "idle" /\ last # nothing /\ ~unheard => shown = last

(* A device that is not stale never goes back to what Codex did before.       *)
SnapshotsInOrder ==
  [][hasSnapshot /\ hasSnapshot' /\ ~StillStale => takenAt' >= takenAt]_vars

(* The agent that runs, is paired and can ask Codex.                         *)
Works ==
  agentPin = pin /\ pc # "hung" /\ (kind = "windows" \/ process # 0)

(* A device that both its copies say is without a companion, with no change of *)
(* the web server's copy under way, gets a snapshot.                         *)
KnownOffline ==
  ~companion /\ ~webCompanion /\ \A u \in Updater : update[u] # "ok"
OfflineHeals == <>[]Works => [](KnownOffline => <>companion)

(* An agent that still polls with the old PIN has the new one before its grace *)
(* is over, unless somebody uses the new one or it is changed again.          *)
InGrace == previous = agentPin /\ ~graceOver
PairingFollows ==
  [](InGrace /\ pc # "hung" =>
       <>(agentPin = pin \/ ~InGrace \/ pc = "hung"))

(* Nobody is left out: the device hears of the agent, the agent of the PIN.   *)
CompanionReturns == OfflineHeals /\ PairingFollows

(* What Codex does in the end is shown in the end.                           *)
SnapshotsArrive ==
  <>[](Works /\ companion) =>
    <>[](companion => shown = ContentOf(listed, selected))
=============================================================================
