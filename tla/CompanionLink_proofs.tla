------------------------- MODULE CompanionLink_proofs -------------------------
(***************************************************************************)
(* An action is told to Codex at most once, an approval never goes to a        *)
(* process that did not ask for it, the agent knows what the device shows,    *)
(* and the device shows no older snapshot after a newer one.                 *)
(***************************************************************************)
EXTENDS CompanionLink, TLAPS

Count(action) == IF action = "none" THEN 0 ELSE 1

(* Every action that the device still holds, or that the agent was given and  *)
(* has not told Codex, was asked for and is not among those that were told.   *)
ActionInv ==
  /\ presses \in Nat /\ done \in Nat
  /\ Count(pendingAction) + Count(told.action) + done <= presses

(* Whatever an agent has read, or may still read, is of the process that runs. *)
AskerInv ==
  /\ started \in Nat
  /\ unread # nothing => process # 0 /\ unread.of = process
  /\ AnswerGoesToAsker

-----------------------------------------------------------------------------
(* What the steps that say nothing about an action leave alone.              *)
actionVars == <<pendingAction, told, done, presses>>

(* Nothing has been asked for when the two are started.                      *)
LEMMA ActionInit == Init => ActionInv
  BY DEF Init, ActionInv, Count, NoAnswer

(* The four parts of the invariant change in six of the steps.               *)
LEMMA ActionStep == ActionInv /\ [Next]_vars => ActionInv'
<1> SUFFICES ASSUME ActionInv, [Next]_vars PROVE ActionInv'
  OBVIOUS
<1> USE DEF ActionInv, Count
<1>1. CASE Heartbeat
  <2>1. CASE Authorization(agentPin, TRUE) = "denied"
    BY <1>1, <2>1 DEF Heartbeat
  <2>2. CASE Authorization(agentPin, TRUE) # "denied"
    <3>1. pendingAction' = "none" /\ UNCHANGED <<done, presses>>
      BY <1>1, <2>2 DEF Heartbeat, TakeAction
    <3>2. \/ UNCHANGED told
          \/ told' = [action |-> pendingAction, needs |-> ~webCompanion,
                      next |-> NextPairing(Authorization(agentPin, TRUE)),
                      rev |-> revision]
      BY <1>1, <2>2, Zenon DEF Heartbeat
    <3>3. CASE UNCHANGED told
      BY <3>1, <3>3
    <3>4. CASE told' = [action |-> pendingAction, needs |-> ~webCompanion,
                       next |-> NextPairing(Authorization(agentPin, TRUE)),
                       rev |-> revision]
      <4>1. told'.action = pendingAction
        BY ONLY <3>4, Zenon
      <4> QED BY <3>1, <4>1
    <3> QED BY <3>2, <3>3, <3>4
  <2> QED BY <2>1, <2>2
<1>2. CASE Perform
  BY <1>2 DEF Perform, deviceVars, NoAnswer
<1>3. ASSUME NEW a \in {"select_next", "approve", "interrupt"}, Press(a)
      PROVE ActionInv'
  BY <1>3 DEF Press, agentVars
<1>4. CASE PairAgain
  BY <1>4 DEF PairAgain, TakeAction, AgentStarts, NoAnswer, historyVars
<1>5. CASE AgentRestarts
  BY <1>5 DEF AgentRestarts, AgentStarts, NoAnswer, deviceVars
<1>6. CASE DeviceRestarts
  BY <1>6 DEF DeviceRestarts
<1>7. CASE UNCHANGED actionVars
  BY <1>7 DEF actionVars
<1>8. MigratePairing \/ TakeSnapshot \/ NoSnapshot \/ PostStatus \/ PostLost
        => UNCHANGED actionVars
  BY DEF MigratePairing, TakeSnapshot, NoSnapshot, PostStatus, PostLost,
         Arrives, deviceVars, actionVars
<1>9. Device => UNCHANGED actionVars
  BY DEF Device, LatePost, Arrives, SetCompanion, SetSession, UiLooks,
         UiWithdraws, UiHides, Reads, Stores, DeviceElse, AgentElse,
         agentVars, historyVars, actionVars
<1>10. UserSavesPin \/ BrowserUsesPin \/ CodexWorks => UNCHANGED actionVars
  BY DEF UserSavesPin, BrowserUsesPin, CodexWorks, deviceVars, agentVars,
         historyVars, actionVars
<1>11. FlashFails \/ CodexDies \/ GoesStale \/ GraceRunsOut
         => UNCHANGED actionVars
  BY DEF FlashFails, CodexDies, GoesStale, GraceRunsOut, deviceVars,
         agentVars, historyVars, actionVars
<1>12. UNCHANGED vars => UNCHANGED actionVars
  BY DEF vars, deviceVars, agentVars, historyVars, actionVars
<1> QED
  BY <1>1, <1>2, <1>3, <1>4, <1>5, <1>6, <1>7, <1>8, <1>9, <1>10, <1>11,
     <1>12 DEF Next, Agent, User, Faults

(* Taking the action with the answer to the heartbeat (product_web.cpp:935)     *)
(* tells it to Codex at most once, for every number of faults.               *)
THEOREM ActionIsTakenOnce == Spec => []ActionOnce
<1>1. ActionInv => ActionOnce
  BY DEF ActionInv, ActionOnce, Count
<1> QED BY ActionInit, ActionStep, <1>1, PTL DEF Spec
-----------------------------------------------------------------------------
(* What the steps leave alone that do not ask Codex anything.                *)
askerVars == <<process, started, unread, pending>>

(* A process that has asked for an approval already is the first one.        *)
LEMMA AskerInit == Init => AskerInv
  BY DEF Init, CodexInit, AskerInv, AnswerGoesToAsker

(* A request keeps what the process that answers has asked, or starts another  *)
(* one, which has asked nothing.                                            *)
LEMMA RequestAsks == ASSUME AskerInv, Request PROVE AskerInv'
  BY DEF Request, ReadUpToAnswer, Restarted, AskerInv, AnswerGoesToAsker

(* The same for every action that Codex is told.                             *)
LEMMA PerformsAsks ==
  ASSUME AskerInv, NEW action, Performs(action) PROVE AskerInv'
<1>1. CASE UNCHANGED codexVars
  BY <1>1 DEF codexVars, AskerInv, AnswerGoesToAsker
<1>2. CASE Select(1)
  BY <1>2 DEF Select, AskerInv, AnswerGoesToAsker
<1>3. CASE Approve
  BY <1>3 DEF Approve, Restarted, AskerInv, AnswerGoesToAsker
<1>4. CASE Interrupt
  <2>1. CASE Request
    BY <2>1, RequestAsks
  <2>2. CASE UNCHANGED askerVars
    BY <2>2 DEF askerVars, AskerInv, AnswerGoesToAsker
  <2> QED BY <1>4, <2>1, <2>2 DEF Interrupt, askerVars
<1> QED BY <1>1, <1>2, <1>3, <1>4 DEF Performs

(* A request without an answer forgets all that was asked, or changes nothing. *)
LEMMA FailureAsks ==
  ASSUME AskerInv, RequestFails \/ NotRunning \/ CannotApprove
  PROVE  AskerInv'
  BY DEF RequestFails, NotRunning, CannotApprove, AskerInv, AnswerGoesToAsker

(* One step for each way in which the process or what it asked can change.   *)
LEMMA AskerStep == AskerInv /\ [Next]_vars => AskerInv'
<1> SUFFICES ASSUME AskerInv, [Next]_vars PROVE AskerInv'
  OBVIOUS
<1>1. CASE Perform
  BY <1>1, PerformsAsks, FailureAsks DEF Perform, CannotPerform
<1>2. CASE TakeSnapshot
  BY <1>2, RequestAsks DEF TakeSnapshot, Snapshot
<1>3. CASE NoSnapshot
  <2>1. CASE RequestFails \/ NotRunning
    BY <2>1, FailureAsks
  <2>2. CASE UNCHANGED codexVars
    BY <2>2 DEF codexVars, AskerInv, AnswerGoesToAsker
  <2> QED BY <1>3, <2>1, <2>2 DEF NoSnapshot
<1>4. CASE PairAgain \/ AgentRestarts
  <2>1. /\ process' = started + 1 /\ started' = started + 1
        /\ unread' = nothing /\ pending' = nothing
    BY <1>4 DEF PairAgain, AgentRestarts, AgentStarts
  <2> QED BY <2>1 DEF AskerInv, AnswerGoesToAsker
<1>5. CASE CodexDies
  BY <1>5 DEF CodexDies, ProcessDies, AskerInv, AnswerGoesToAsker
<1>6. CASE CodexWorks
  <2>1. /\ process # 0 /\ UNCHANGED <<process, started, pending>>
        /\ \/ UNCHANGED unread
           \/ unread' = [thread |-> active, id |-> moves + 1, of |-> process]
    BY <1>6 DEF CodexWorks, CodexMoves
  <2> QED BY <2>1 DEF AskerInv, AnswerGoesToAsker
<1>7. CASE UNCHANGED askerVars
  BY <1>7 DEF askerVars, AskerInv, AnswerGoesToAsker
<1>8. Heartbeat \/ MigratePairing \/ PostStatus \/ PostLost
        => UNCHANGED askerVars
  BY DEF Heartbeat, MigratePairing, PostStatus, PostLost, Arrives, codexVars,
         askerVars
<1>9. Device => UNCHANGED askerVars
  BY DEF Device, LatePost, Arrives, SetCompanion, SetSession, UiLooks,
         UiWithdraws, UiHides, Reads, Stores, codexVars, askerVars
<1>10. (\E a \in {"select_next", "approve", "interrupt"} : Press(a))
         \/ UserSavesPin \/ BrowserUsesPin => UNCHANGED askerVars
  BY DEF Press, UserSavesPin, BrowserUsesPin, codexVars, askerVars
<1>11. FlashFails \/ DeviceRestarts \/ GoesStale \/ GraceRunsOut
         => UNCHANGED askerVars
  BY DEF FlashFails, DeviceRestarts, GoesStale, GraceRunsOut, codexVars,
         askerVars
<1>12. UNCHANGED vars => UNCHANGED askerVars
  BY DEF vars, codexVars, askerVars
<1> QED
  BY <1>1, <1>2, <1>3, <1>4, <1>5, <1>6, <1>7, <1>8, <1>9, <1>10, <1>11,
     <1>12 DEF Next, Agent, User, Faults

(* Forgetting the approval when a process ends or is started (process.go:199,  *)
(* 299) keeps the user's answer from a process that did not ask for it, for    *)
(* every order of deaths, restarts, requests and presses.                    *)
THEOREM AnswersReachTheAsker == Spec => []AnswerGoesToAsker
<1>1. AskerInv => AnswerGoesToAsker
  BY DEF AskerInv
<1> QED BY AskerInit, AskerStep, <1>1, PTL DEF Spec
-----------------------------------------------------------------------------
(* What the server is doing with a post, until its answer.                   *)
ServerBusy == server # Free \/ update["server"] # "no"

(* A post the agent waits for is the one the server works on; what the server  *)
(* works on without an agent that waits is no agent's last snapshot.  A post    *)
(* that was shown and is not answered yet is still shown, and so is the last    *)
(* snapshot of an agent that posts nothing.                                  *)
PostedIsShown ==
  /\ server = Free \/ update["server"] = "no"
  /\ pc = "posting" => ServerBusy
  /\ pc = "posting" /\ server # Free => server.what = post.what
  /\ pc = "posting" /\ server = Free /\ ~unheard /\ companion
       => shown = post.what
  /\ pc # "posting" /\ ServerBusy => last = nothing \/ unheard
  /\ pc # "posting" /\ companion /\ last # nothing /\ ~unheard => shown = last

(* The records keep their shape.                                             *)
ShownTypes ==
  /\ server = [pc |-> server.pc, what |-> server.what]
  /\ server.pc \in {"free", "taken", "shows"}
  /\ update \in [Updater -> {"no", "due", "ok", "offline"}]

ShownInv == ShownTypes /\ PostedIsShown

LEMMA ShownInit == Init => ShownInv
  BY DEF Init, ShownInv, ShownTypes, PostedIsShown, ServerBusy, Free, Updater

(* The steps that leave alone what the invariant speaks of.                  *)
shownVars ==
  <<companion, shown, server, update, pc, post, last, unheard>>

(* The agent does something else than to post: it may forget its last         *)
(* snapshot, as it does when the device asks for one.                        *)
LEMMA AgentElsewhere ==
  ASSUME ShownInv, UNCHANGED <<companion, shown, server, update, unheard>>,
         last' \in {last, nothing}, pc' # "posting",
         pc = "posting" => last' = nothing
  PROVE  ShownInv'
  BY DEF ShownInv, ShownTypes, PostedIsShown, ServerBusy

(* A post that reaches the server, which is free.                            *)
LEMMA ArrivesShown ==
  ASSUME ShownInv, NEW p, Arrives(p)
  PROVE  /\ ~ServerBusy /\ pc # "posting"
         /\ UNCHANGED <<companion, shown, update>>
         /\ IF Authorization(p.with, FALSE) = "current" /\ Takes(p.number)
            THEN server' = [pc |-> "taken", what |-> p.what]
            ELSE server' = server
  BY DEF Arrives, ShownInv, PostedIsShown, ServerBusy

LEMMA PostStatusShown == ShownInv /\ PostStatus => ShownInv'
<1> SUFFICES ASSUME ShownInv, PostStatus PROVE ShownInv'
  OBVIOUS
<1>0. pc = "post" /\ Arrives(post)
  BY DEF PostStatus
<1>1. CASE Authorization(post.with, FALSE) # "current"
  <2>1. Denied
    BY <1>1 DEF PostStatus
  <2> QED BY <1>0, <1>1, <2>1, ArrivesShown, AgentElsewhere DEF Denied, Over
<1>2. CASE Authorization(post.with, FALSE) = "current" /\ Takes(post.number)
  <2>1. pc' = "posting" /\ unheard' = FALSE /\ UNCHANGED <<post, last>>
    BY <1>2 DEF PostStatus
  <2>2. /\ server = Free /\ update["server"] = "no"
        /\ server' = [pc |-> "taken", what |-> post.what]
        /\ UNCHANGED <<companion, shown, update>>
    BY <1>0, <1>2, ArrivesShown DEF ServerBusy
  <2>3. server'.pc = "taken" /\ server'.what = post.what
    BY <2>2
  <2>4. server' # Free
    BY <2>3 DEF Free
  <2>5. ShownTypes'
    BY <2>2, <2>3 DEF ShownInv, ShownTypes
  <2>6. PostedIsShown'
    BY <2>1, <2>2, <2>3, <2>4 DEF PostedIsShown, ServerBusy
  <2> QED BY <2>5, <2>6 DEF ShownInv
<1>3. CASE Authorization(post.with, FALSE) = "current" /\ ~Takes(post.number)
  <2>1. Over /\ unheard' = TRUE
    BY <1>3 DEF PostStatus, Refused
  <2>2. UNCHANGED <<companion, shown, server, update>> /\ ~ServerBusy
    BY <1>0, <1>3, ArrivesShown
  <2> QED
    BY <2>1, <2>2 DEF Over, ShownInv, ShownTypes, PostedIsShown, ServerBusy
<1> QED BY <1>1, <1>2, <1>3

LEMMA LatePostShown == ShownInv /\ LatePost => ShownInv'
<1> SUFFICES ASSUME ShownInv, LatePost PROVE ShownInv'
  OBVIOUS
<1>1. /\ ~ServerBusy /\ pc # "posting"
      /\ UNCHANGED <<companion, shown, update, pc, post, last>>
      /\ unheard' = TRUE
      /\ server' = server \/ server' = [pc |-> "taken", what |-> queued.what]
  BY ArrivesShown DEF LatePost
<1>2. CASE server' = server
  BY <1>1, <1>2 DEF ShownInv, ShownTypes, PostedIsShown, ServerBusy
<1>3. CASE server' = [pc |-> "taken", what |-> queued.what]
  <2>1. server'.pc = "taken" /\ server'.what = queued.what
    BY <1>3
  <2>2. ShownTypes'
    BY <1>1, <1>3, <2>1 DEF ShownInv, ShownTypes
  <2> QED
    BY <1>1, <2>2 DEF ShownInv, PostedIsShown, ServerBusy
<1> QED BY <1>1, <1>2, <1>3

(* The two changes of companion_snapshot().                                  *)
LEMMA ServerShows == ShownInv /\ (SetCompanion \/ SetSession) => ShownInv'
<1> SUFFICES ASSUME ShownInv, SetCompanion \/ SetSession PROVE ShownInv'
  OBVIOUS
<1>0. Free.pc = "free" /\ Free.what = nothing
  BY DEF Free
<1>1. CASE SetCompanion
  <2>1. /\ server.pc = "taken" /\ companion' = TRUE
        /\ server' = [server EXCEPT !.pc = "shows"]
        /\ UNCHANGED <<shown, update, pc, post, last, unheard>>
    BY <1>1 DEF SetCompanion, agentVars, historyVars
  <2>2. server' = [pc |-> "shows", what |-> server.what]
    BY <2>1 DEF ShownInv, ShownTypes
  <2>3. server'.pc = "shows" /\ server'.what = server.what
    BY <2>2
  <2>4. server # Free /\ server' # Free
    BY <1>0, <2>1, <2>3
  <2>5. ShownTypes'
    BY <2>1, <2>2, <2>3 DEF ShownInv, ShownTypes
  <2>6. PostedIsShown'
    BY <2>1, <2>3, <2>4 DEF ShownInv, PostedIsShown, ServerBusy
  <2> QED BY <2>5, <2>6 DEF ShownInv
<1>2. CASE SetSession
  <2>1. /\ server.pc = "shows" /\ shown' = server.what /\ server' = Free
        /\ update' = [update EXCEPT !["server"] = "due"]
        /\ UNCHANGED <<companion, pc, post, last, unheard>>
    BY <1>2 DEF SetSession, agentVars, historyVars
  <2>2. server # Free
    BY <1>0, <2>1
  <2>3. update'["server"] = "due"
    BY <2>1 DEF ShownInv, ShownTypes, Updater
  <2>4. ShownTypes'
    BY <1>0, <2>1 DEF ShownInv, ShownTypes, Free
  <2>5. PostedIsShown'
    BY <2>1, <2>2, <2>3 DEF ShownInv, PostedIsShown, ServerBusy
  <2> QED BY <2>4, <2>5 DEF ShownInv
<1> QED BY <1>1, <1>2

(* The UI task hides what is shown only when there was no companion; when one   *)
(* has come since, the agent may be wrong and unheard says so.               *)
LEMMA UiShown == ShownInv /\ (UiLooks \/ UiWithdraws \/ UiHides) => ShownInv'
<1> SUFFICES ASSUME ShownInv, UiLooks \/ UiWithdraws \/ UiHides
             PROVE  ShownInv'
  OBVIOUS
<1>1. CASE UiLooks
  <2>1. UNCHANGED shownVars
    BY <1>1 DEF UiLooks, agentVars, historyVars, shownVars
  <2> QED
    BY <2>1 DEF shownVars, ShownInv, ShownTypes, PostedIsShown, ServerBusy
<1>2. CASE UiWithdraws
  <2>1. /\ companion' = FALSE
        /\ UNCHANGED <<shown, server, update, pc, post, last, unheard>>
    BY <1>2 DEF UiWithdraws, agentVars, historyVars
  <2> QED BY <2>1 DEF ShownInv, ShownTypes, PostedIsShown, ServerBusy
<1>3. CASE UiHides
  <2>1. /\ update' = [update EXCEPT !["ui"] = "due"]
        /\ unheard' = (unheard \/ companion)
        /\ UNCHANGED <<companion, server, pc, post, last>>
    BY <1>3 DEF UiHides, agentVars
  <2>2. update'["server"] = update["server"]
    BY <2>1 DEF ShownInv, ShownTypes, Updater
  <2>3. ShownTypes'
    BY <2>1 DEF ShownInv, ShownTypes
  <2>4. PostedIsShown'
    BY <2>1, <2>2 DEF ShownInv, PostedIsShown, ServerBusy
  <2> QED BY <2>3, <2>4 DEF ShownInv
<1> QED BY <1>1, <1>2, <1>3

(* update_web_status(), and the answer that follows the server's.            *)
LEMMA UpdateShown ==
  ASSUME ShownInv, NEW u \in Updater, Reads(u) \/ Stores(u)
  PROVE  ShownInv'
<1>1. CASE Reads(u)
  <2>1. /\ update[u] = "due"
        /\ update' = [update EXCEPT ![u] = IF companion THEN "ok" ELSE "offline"]
        /\ UNCHANGED <<companion, shown, server, pc, post, last, unheard>>
    BY <1>1 DEF Reads, agentVars, historyVars
  <2>2. update["server"] = "no" <=> update'["server"] = "no"
    BY <2>1 DEF ShownInv, ShownTypes, Updater
  <2>3. ShownTypes'
    BY <2>1 DEF ShownInv, ShownTypes
  <2>4. PostedIsShown'
    BY <2>1, <2>2 DEF ShownInv, PostedIsShown, ServerBusy
  <2> QED BY <2>3, <2>4 DEF ShownInv
<1>2. CASE Stores(u)
  <2>1. /\ update[u] \in {"ok", "offline"}
        /\ update' = [update EXCEPT ![u] = "no"]
        /\ UNCHANGED <<companion, shown, server>>
    BY <1>2 DEF Stores
  <2>2. ShownTypes'
    BY <2>1 DEF ShownInv, ShownTypes
  <2>3. CASE u = "server" /\ pc = "posting"
    <3>1. /\ pc' = "idle"
          /\ \/ last' = post.what /\ UNCHANGED unheard
             \/ unheard' = TRUE
      BY <1>2, <2>3 DEF Stores, Over
    <3>2. update'["server"] = "no" /\ server = Free
      BY <2>1, <2>3 DEF ShownInv, ShownTypes, PostedIsShown
    <3>3. PostedIsShown'
      BY <2>1, <2>3, <3>1, <3>2 DEF ShownInv, PostedIsShown, ServerBusy
    <3> QED BY <2>2, <3>3 DEF ShownInv
  <2>4. CASE ~(u = "server" /\ pc = "posting")
    <3>1. UNCHANGED <<pc, post, last, unheard>>
      BY <1>2, <2>4, Zenon DEF Stores
    <3>2. \/ u = "server" /\ pc # "posting" /\ update'["server"] = "no"
          \/ update'["server"] = update["server"]
      BY <2>1, <2>4 DEF ShownInv, ShownTypes, Updater
    <3>3. PostedIsShown'
      BY <2>1, <3>1, <3>2 DEF ShownInv, PostedIsShown, ServerBusy
    <3> QED BY <2>2, <3>3 DEF ShownInv
  <2> QED BY <2>3, <2>4
<1> QED BY <1>1, <1>2

LEMMA ShownStep == ShownInv /\ [Next]_vars => ShownInv'
<1> SUFFICES ASSUME ShownInv, [Next]_vars PROVE ShownInv'
  OBVIOUS
<1>1. CASE UNCHANGED shownVars
  BY <1>1 DEF shownVars, ShownInv, ShownTypes, PostedIsShown, ServerBusy
<1>2. CASE Perform
  BY <1>2, AgentElsewhere DEF Perform, LastToCompare, deviceVars
<1>3. CASE TakeSnapshot
  BY <1>3, AgentElsewhere DEF TakeSnapshot, deviceVars
<1>4. CASE NoSnapshot
  BY <1>4, AgentElsewhere DEF NoSnapshot, deviceVars
<1>5. CASE MigratePairing
  BY <1>5, AgentElsewhere DEF MigratePairing, deviceVars
<1>6. CASE Heartbeat
  <2>1. UNCHANGED <<companion, shown, server, update, last, unheard>>
    BY <1>6 DEF Heartbeat
  <2>2. pc = "idle" /\ pc' \in {"idle", "told"}
    BY <1>6 DEF Heartbeat
  <2> QED BY <2>1, <2>2, AgentElsewhere
<1>7. CASE PostLost
  <2>1. /\ pc = "post" /\ pc' = "idle" /\ unheard' = TRUE
        /\ UNCHANGED <<companion, shown, server, update, last>>
    BY <1>7 DEF PostLost, Over, deviceVars
  <2> QED BY <2>1 DEF ShownInv, ShownTypes, PostedIsShown, ServerBusy
<1>8. CASE PairAgain
  BY <1>8, AgentElsewhere DEF PairAgain, AgentStarts, historyVars
<1>9. CASE AgentRestarts
  BY <1>9, AgentElsewhere DEF AgentRestarts, AgentStarts, deviceVars
<1>10. CASE DeviceRestarts
  <2>1. /\ companion' = FALSE /\ server' = Free
        /\ update' = [u \in Updater |-> "no"] /\ UNCHANGED <<last, unheard>>
        /\ pc' # "posting"
    BY <1>10 DEF DeviceRestarts, Over
  <2> QED
    BY <2>1 DEF ShownInv, ShownTypes, PostedIsShown, ServerBusy, Free, Updater
<1>11. (\E a \in {"select_next", "approve", "interrupt"} : Press(a))
         \/ UserSavesPin \/ BrowserUsesPin \/ CodexWorks => UNCHANGED shownVars
  BY DEF Press, UserSavesPin, BrowserUsesPin, CodexWorks, deviceVars, agentVars,
         historyVars, shownVars
<1>12. FlashFails \/ CodexDies \/ GoesStale \/ GraceRunsOut
         => UNCHANGED shownVars
  BY DEF FlashFails, CodexDies, GoesStale, GraceRunsOut, deviceVars,
         agentVars, historyVars, shownVars
<1>13. UNCHANGED vars => UNCHANGED shownVars
  BY DEF vars, deviceVars, agentVars, historyVars, shownVars
<1> QED
  BY <1>1, <1>2, <1>3, <1>4, <1>5, <1>6, <1>7, <1>8, <1>9, <1>10, <1>11, <1>12,
     <1>13, PostStatusShown, LatePostShown, ServerShows, UiShown, UpdateShown
     DEF Next, Agent, Device, User, Faults

(* What the agent believes to be shown is shown: the two halves of             *)
(* companion_snapshot(), the looks of the UI task and the crashes of either    *)
(* side may come in any order.                                              *)
THEOREM AgentKnowsWhatIsShown == Spec => []ShownIsPosted
<1>1. ShownInv => ShownIsPosted
  BY DEF ShownInv, PostedIsShown, ShownIsPosted
<1> QED BY ShownInit, ShownStep, <1>1, PTL DEF Spec
-----------------------------------------------------------------------------
(* The numbers of two posts that follow each other: neither is taken for the    *)
(* other, nor is the one before for the one after the next.                  *)
Following(n) == (n + 1) % Modulus

LEMMA NumbersFollow ==
  ASSUME NEW n \in 0 .. Modulus - 1
  PROVE  /\ Following(n) \in 0 .. Modulus - 1
         /\ Following(Following(n)) # n
<1>0. Modulus \in Nat /\ Modulus > 2
  BY LinkAssumption
<1>1. \A k \in 0 .. Modulus - 1 : k % Modulus = k
  BY <1>0, SMT
<1>2. Modulus % Modulus = 0
  BY <1>0, SMT
<1>3. \A k \in 0 .. Modulus - 1 :
        Following(k) = IF k = Modulus - 1 THEN 0 ELSE k + 1
  <2> SUFFICES ASSUME NEW k \in 0 .. Modulus - 1
               PROVE  Following(k) = IF k = Modulus - 1 THEN 0 ELSE k + 1
    OBVIOUS
  <2>1. CASE k = Modulus - 1
    <3>1. k + 1 = Modulus
      BY <1>0, <2>1
    <3> QED BY <1>2, <2>1, <3>1 DEF Following
  <2>2. CASE k # Modulus - 1
    <3>1. k + 1 \in 0 .. Modulus - 1
      BY <1>0, <2>2
    <3> QED BY <1>1, <2>2, <3>1 DEF Following
  <2> QED BY <2>1, <2>2
<1> QED BY <1>0, <1>3

(* What the device shows is no later than what the agent is about to post, nor  *)
(* than a late post that would still be taken: the one after it has not been.  *)
InOrder ==
  /\ takenAt \in Nat /\ moves \in Nat /\ takenAt <= moves
  /\ wireSequence \in 0 .. Modulus - 1
  /\ pc = "post" => /\ post.at \in Nat /\ takenAt <= post.at /\ post.at <= moves
                    /\ post.number = wireSequence
  /\ queued # NoPost =>
       /\ queued.number \in 0 .. Modulus - 1
       /\ queued.at \in Nat /\ queued.at <= moves
       /\ takenAt <= queued.at \/ sequence = Following(queued.number)
       /\ pc = "post" => /\ post.number = Following(queued.number)
                         /\ queued.at <= post.at

LEMMA InOrderInit == Init => InOrder
  BY LinkAssumption DEF Init, CodexInit, InOrder

(* The steps that take no snapshot and post none.                            *)
orderVars == <<takenAt, wireSequence, post, sequence, queued>>

LEMMA NothingPosted ==
  ASSUME InOrder, UNCHANGED orderVars,
         moves' \in Nat, moves <= moves', pc' = "post" => pc = "post"
  PROVE  InOrder'
  BY DEF InOrder, orderVars

(* A snapshot is of now, and follows a post that was given up just before.   *)
LEMMA TakeInOrder == InOrder /\ TakeSnapshot => InOrder'
<1> SUFFICES ASSUME InOrder, TakeSnapshot PROVE InOrder'
  OBVIOUS
<1>0. UNCHANGED <<takenAt, sequence, moves>> /\ pc = "done"
  BY DEF TakeSnapshot, Snapshot, deviceVars
<1>1. CASE pc' = "idle"
  <2>1. UNCHANGED <<wireSequence, post, queued>>
    BY <1>1 DEF TakeSnapshot
  <2> QED BY <1>0, <1>1, <2>1 DEF InOrder
<1>2. CASE pc' # "idle"
  <2>1. /\ wireSequence' = Following(wireSequence)
        /\ post' = [number |-> wireSequence', with |-> agentPin,
                    what |-> ContentOf(listed', selected'), at |-> moves]
        /\ queued' = IF queued.number = wireSequence THEN queued ELSE NoPost
    BY <1>2 DEF TakeSnapshot, Following
  <2>2. post'.number = wireSequence' /\ post'.at = moves
    BY <2>1
  <2>3. wireSequence' \in 0 .. Modulus - 1
    BY <2>1, NumbersFollow DEF InOrder
  <2>4. queued' # NoPost => queued' = queued /\ queued.number = wireSequence
    BY <2>1
  <2> QED BY <1>0, <2>1, <2>2, <2>3, <2>4 DEF InOrder
<1> QED BY <1>1, <1>2

(* A post that the device takes: of the next number, or after a pause.       *)
LEMMA ArrivesTaken ==
  ASSUME NEW p, Arrives(p)
  PROVE  /\ UNCHANGED <<moves, wireSequence>>
         /\ \/ UNCHANGED <<takenAt, sequence>>
            \/ takenAt' = p.at /\ sequence' = p.number /\ Takes(p.number)
  BY DEF Arrives, codexVars

LEMMA PostInOrder == InOrder /\ PostStatus => InOrder'
<1> SUFFICES ASSUME InOrder, PostStatus PROVE InOrder'
  OBVIOUS
<1>1. /\ pc = "post" /\ pc' # "post" /\ UNCHANGED <<moves, wireSequence, queued>>
      /\ \/ UNCHANGED <<takenAt, sequence>>
         \/ takenAt' = post.at /\ sequence' = post.number
  BY ArrivesTaken DEF PostStatus, Denied, Refused, Over
<1> QED BY <1>1 DEF InOrder

LEMMA LostInOrder == InOrder /\ PostLost => InOrder'
<1> SUFFICES ASSUME InOrder, PostLost PROVE InOrder'
  OBVIOUS
<1>1. /\ pc = "post" /\ pc' = "idle" /\ queued' \in {NoPost, post}
      /\ UNCHANGED <<takenAt, sequence, moves, wireSequence>>
  BY DEF PostLost, Over, codexVars, deviceVars
<1> QED BY <1>1 DEF InOrder

LEMMA LateInOrder == InOrder /\ LatePost => InOrder'
<1> SUFFICES ASSUME InOrder, LatePost PROVE InOrder'
  OBVIOUS
<1>1. /\ queued # NoPost /\ queued' = NoPost
      /\ UNCHANGED <<pc, post, moves, wireSequence>>
      /\ takenAt' = takenAt \/ takenAt' = queued.at
  BY ArrivesTaken DEF LatePost
<1> QED BY <1>1 DEF InOrder

LEMMA InOrderStep == InOrder /\ [Next]_vars => InOrder'
<1> SUFFICES ASSUME InOrder, [Next]_vars PROVE InOrder'
  OBVIOUS
<1>0. moves \in Nat
  BY DEF InOrder
<1>1. ASSUME UNCHANGED orderVars, moves' = moves, pc' = "post" => pc = "post"
      PROVE  InOrder'
  BY <1>0, <1>1, NothingPosted
<1>2. CASE Heartbeat \/ MigratePairing \/ NoSnapshot
  BY <1>1, <1>2 DEF Heartbeat, MigratePairing, NoSnapshot, deviceVars, codexVars,
                    orderVars
<1>3. CASE Perform
  <2>1. UNCHANGED moves
    BY <1>3 DEF Perform, Performs, Select, Approve, Interrupt, CannotPerform,
                CannotApprove, codexVars
  <2> QED BY <1>1, <1>3, <2>1 DEF Perform, deviceVars, orderVars
<1>4. CASE AgentRestarts \/ PairAgain
  <2>1. /\ wireSequence' = 0 /\ pc' = "idle" /\ queued' = NoPost
        /\ UNCHANGED <<takenAt, moves, sequence>>
    BY <1>4 DEF AgentRestarts, PairAgain, AgentStarts, deviceVars, historyVars
  <2> QED BY <2>1, LinkAssumption DEF InOrder
<1>5. CASE DeviceRestarts
  <2>1. /\ queued' = NoPost /\ UNCHANGED <<takenAt, moves, wireSequence>>
        /\ pc' = "post" => pc = "post" /\ post' = post
    BY <1>5 DEF DeviceRestarts, Over, codexVars
  <2> QED BY <2>1 DEF InOrder
<1>6. CASE SetCompanion \/ SetSession \/ UiLooks \/ UiWithdraws \/ UiHides
  BY <1>1, <1>6 DEF SetCompanion, SetSession, UiLooks, UiWithdraws, UiHides,
                    DeviceElse, agentVars, historyVars, codexVars, orderVars
<1>7. ASSUME NEW u \in Updater, Reads(u) \/ Stores(u) PROVE InOrder'
  <2>1. CASE Reads(u)
    BY <1>1, <2>1 DEF Reads, DeviceElse, agentVars, historyVars, codexVars,
                      orderVars
  <2>2. CASE Stores(u)
    <3>1. /\ UNCHANGED <<takenAt, wireSequence, sequence, queued, moves>>
          /\ pc' = "post" => pc = "post" /\ post' = post
      BY <2>2 DEF Stores, Over, DeviceElse, AgentElse, codexVars
    <3> QED BY <3>1 DEF InOrder
  <2> QED BY <1>7, <2>1, <2>2
<1>8. CASE (\E a \in {"select_next", "approve", "interrupt"} : Press(a))
             \/ UserSavesPin \/ BrowserUsesPin
  BY <1>1, <1>8 DEF Press, UserSavesPin, BrowserUsesPin, codexVars, deviceVars,
                    agentVars, historyVars, orderVars
<1>9. CASE CodexWorks
  <2>1. moves' = moves + 1 /\ UNCHANGED orderVars /\ UNCHANGED pc
    BY <1>9 DEF CodexWorks, CodexMoves, deviceVars, agentVars, historyVars,
                orderVars
  <2> QED BY <1>0, <2>1, NothingPosted
<1>10. CASE FlashFails \/ CodexDies \/ GoesStale \/ GraceRunsOut
  BY <1>1, <1>10 DEF FlashFails, CodexDies, ProcessDies, GoesStale, GraceRunsOut,
                     deviceVars, agentVars, historyVars, codexVars, orderVars
<1>11. CASE UNCHANGED vars
  BY <1>1, <1>11 DEF vars, codexVars, deviceVars, agentVars, historyVars,
                     orderVars
<1> QED
  BY <1>2, <1>3, <1>4, <1>5, <1>6, <1>7, <1>8, <1>9, <1>10, <1>11, TakeInOrder,
     PostInOrder, LostInOrder, LateInOrder
     DEF Next, Agent, Device, User, Faults

(* Of two posts of which the first was given up and comes late, a device that   *)
(* is not stale never shows the older one after the newer one                *)
(* (CompanionProtocol::apply), whatever is lost and whoever restarts.        *)
THEOREM NewestIsKept == Spec => SnapshotsInOrder
<1> DEFINE Ordered == hasSnapshot /\ hasSnapshot' /\ ~StillStale
                        => takenAt' >= takenAt
<1>1. InOrder /\ [Next]_vars => [Ordered]_vars
  <2> SUFFICES ASSUME InOrder, Next, hasSnapshot, ~StillStale
               PROVE  takenAt' >= takenAt
    BY DEF InOrder
  <2>0. takenAt \in Nat /\ takenAt <= takenAt
    BY DEF InOrder
  <2>1. CASE PostStatus
    <3>1. takenAt' = takenAt \/ takenAt' = post.at
      BY <2>1, ArrivesTaken DEF PostStatus
    <3>2. pc = "post"
      BY <2>1 DEF PostStatus
    <3> QED BY <3>1, <3>2 DEF InOrder
  <2>2. CASE LatePost
    <3>1. queued # NoPost
      BY <2>2 DEF LatePost
    <3>2. \/ takenAt' = takenAt
          \/ takenAt' = queued.at /\ queued.number = Following(sequence)
      BY <2>2, ArrivesTaken DEF LatePost, Takes, Following
    <3>3. CASE queued.number = Following(sequence) /\ takenAt' = queued.at
      <4>1. queued.number \in 0 .. Modulus - 1
        BY <3>1 DEF InOrder
      <4>2. sequence # Following(queued.number)
        BY <3>3, <4>1, NumbersFollow
      <4> QED BY <3>1, <3>3, <4>2 DEF InOrder
    <3> QED BY <2>0, <3>2, <3>3
  <2>3. CASE UNCHANGED takenAt
    BY <2>0, <2>3
  <2>4. ~PostStatus /\ ~LatePost => UNCHANGED takenAt
    BY DEF Next, Agent, Device, User, Faults, Heartbeat, MigratePairing, Perform,
           TakeSnapshot, NoSnapshot, PostLost, SetCompanion, SetSession, UiLooks,
           UiWithdraws, UiHides, Reads, Stores, Press, UserSavesPin,
           BrowserUsesPin, PairAgain, CodexWorks, FlashFails, AgentRestarts,
           CodexDies, DeviceRestarts, GoesStale, GraceRunsOut, historyVars
  <2> QED BY <2>1, <2>2, <2>3, <2>4
<1> QED
  BY InOrderInit, InOrderStep, <1>1, PTL DEF Spec, SnapshotsInOrder
=============================================================================
