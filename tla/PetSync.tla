------------------------------ MODULE PetSync -------------------------------
(* The pet store and the agent that keeps it in step with the pet selected on *)
(* the desktop: Coordinator.Synchronize of windows-agent/internal/pet/sync.go *)
(* (PetSyncCoordinator.swift differs in one step: it ends where this one puts *)
(* a chunk again unasked), the client of internal/device and the pet handlers *)
(* of product_web.cpp. The agent sends one request at a time and gives up on  *)
(* it after 10 seconds; the web task, one thread, carries it out all the same.*)
EXTENDS PetStore, FiniteSets

CONSTANTS
    SelectionLimit,    \* bound: how often the user selects another pet
    InboxLimit         \* bound: requests on their way, max_open_sockets

VARIABLES
    selected,       \* the pet that is selected on the desktop
    changes,        \* how often it was changed
    agent,          \* Synchronize: the request it is at, and its local variables
    inbox,          \* requests that have reached the device
    serving         \* the one the web task is at

agentVars == <<selected, changes, agent>>
webVars == <<inbox, serving>>
vars == <<storeVars, agentVars, webVars>>

Request(kind, b, id, c) == [kind |-> kind, bundle |-> b, id |-> id, chunk |-> c, live |-> TRUE]
NoRequest == Request("none", NoBundle, NoId, Blank)

\* stage: the request Synchronize makes next, or waits for. synced: lastSuccess, the result
\* of the last call if ok, and what the agent goes on reporting if not.
Stages == {"idle", "status", "begin", "put", "recheck", "again", "commit"}
NewAgent == [stage |-> "idle", waiting |-> FALSE, bundle |-> NoBundle, id |-> NoId,
             offset |-> 0, synced |-> NoBundle, ok |-> FALSE]

SyncInit ==
    /\ StoreInit
    /\ selected \in Bundles /\ changes = 0
    /\ agent = NewAgent /\ inbox = {} /\ serving = NoRequest

----------------------------------------------------------------------------
(* The agent's local steps: what it does with an answer.                      *)

Ended(a) == [a EXCEPT !.stage = "idle", !.waiting = FALSE, !.id = NoId, !.offset = 0,
                      !.bundle = NoBundle]
Fails(a) == [Ended(a) EXCEPT !.ok = FALSE]
Succeeds(a) == [Ended(a) EXCEPT !.ok = TRUE, !.synced = a.bundle]
GoTo(a, stage) == [a EXCEPT !.stage = stage, !.waiting = FALSE]

\* The head of the loop over chunks.
SendFrom(a, offset) ==
    [GoTo(a, IF offset < Length[a.bundle] THEN "put" ELSE "commit") EXCEPT !.offset = offset]

\* PetStoreStatus, as far as the agent looks at it.
Report == [shown |-> shown, transfer |-> transfer]

AfterStatus(a, s) ==
    IF s.shown = a.bundle THEN Succeeds(a)
    ELSE IF s.transfer.active /\ Length[s.transfer.begin] = Length[a.bundle]
         THEN SendFrom([a EXCEPT !.id = s.transfer.id], s.transfer.received)
         ELSE GoTo(a, "begin")

\* A mistake the properties catch.
AfterRecheck_Same(a, s) ==
    IF s.transfer.id = a.id THEN SendFrom(a, a.offset + 1) ELSE GoTo(a, "again")

AfterRecheck(a, s) ==
    IF /\ s.transfer.id = a.id
       /\ s.transfer.received \in a.offset + 1 .. Length[a.bundle]
    THEN SendFrom(a, s.transfer.received)
    ELSE GoTo(a, "again")

AfterCommit(a, s) == IF s.shown = a.bundle THEN Succeeds(a) ELSE Fails(a)

\* The receipt is the last one that a begin left in the mailbox.
AfterBegin(a) == IF receipt = NoId THEN Fails(a) ELSE SendFrom([a EXCEPT !.id = receipt], 0)

AfterAnswer(a, s) ==
    CASE a.stage = "status"  -> AfterStatus(a, s)
      [] a.stage = "recheck" -> AfterRecheck(a, s)
      [] a.stage = "commit"  -> AfterCommit(a, s)
      [] a.stage = "begin"   -> AfterBegin(a)
      [] OTHER               -> SendFrom(a, a.offset + 1)

AfterError(a) ==
    CASE a.stage = "put"     -> GoTo(a, "recheck")
      [] a.stage = "recheck" -> GoTo(a, "again")
      [] OTHER               -> Fails(a)

\* The agent hears of a request only while it still waits for it.
Answered(r, s) == agent' = IF r.live THEN AfterAnswer(agent, s) ELSE agent
Errors(r) == agent' = IF r.live THEN AfterError(agent) ELSE agent

Select ==
    /\ changes < SelectionLimit /\ changes' = changes + 1
    /\ selected' \in Bundles \ {selected}
    /\ UNCHANGED <<storeVars, agent, webVars>>

Synchronize ==
    /\ agent.stage = "idle"
    /\ agent' = [GoTo(agent, "status") EXCEPT !.bundle = selected]
    /\ UNCHANGED <<storeVars, selected, changes, webVars>>

ThisRequest ==
    CASE agent.stage \in {"status", "recheck"} -> Request("status", NoBundle, NoId, Blank)
      [] agent.stage = "begin"  -> Request("begin", agent.bundle, NoId, Blank)
      [] agent.stage = "commit" -> Request("commit", NoBundle, agent.id, Blank)
      [] OTHER -> Request("append", NoBundle, agent.id, Chunk(agent.bundle, agent.offset + 1))

\* A request to a device that is down, or has no socket left, goes nowhere.
Send ==
    /\ agent.stage # "idle" /\ ~agent.waiting
    /\ agent' = [agent EXCEPT !.waiting = TRUE]
    /\ inbox' = IF up /\ Cardinality(inbox) < InboxLimit
                THEN inbox \cup {ThisRequest} ELSE inbox
    /\ UNCHANGED <<storeVars, selected, changes, serving>>

\* The client's time-out, or a connection that breaks: the request is carried out unheard.
Unheard(r) == [r EXCEPT !.live = FALSE]
Abandon ==
    /\ agent.waiting /\ Fault("link")
    /\ agent' = AfterError(agent)
    /\ inbox' = {IF r.live THEN Unheard(r) ELSE r : r \in inbox}
    /\ serving' = IF serving.kind = "none" THEN serving ELSE Unheard(serving)
    /\ UNCHANGED <<flashVars, showVars, transfer, commandVars, task, selected, changes>>

\* Nobody has the request any more.
NoAnswer ==
    /\ agent.waiting /\ ~ \E r \in inbox \cup {serving} : r.live /\ r.kind # "none"
    /\ agent' = AfterError(agent)
    /\ UNCHANGED <<storeVars, selected, changes, webVars>>

----------------------------------------------------------------------------
(* The web task                                                               *)

Accept(r) ==
    /\ serving.kind = "none" /\ r \in inbox
    /\ inbox' = inbox \ {r} /\ serving' = r
    /\ UNCHANGED <<storeVars, agentVars>>

Done == serving' = NoRequest /\ UNCHANGED <<inbox, selected, changes>>

\* status() waits for the lock that the upload task holds while it works on a command, which
\* may be long when a slot is erased. It gives up after 15 seconds, when the agent has.
Status ==
    /\ serving.kind = "status" /\ task.stage \in {"idle", "given"}
    /\ Answered(serving, Report) /\ Done
    /\ UNCHANGED storeVars

StatusTimesOut ==
    /\ serving.kind = "status" /\ task.stage \notin {"idle", "given"}
    /\ Errors(serving) /\ Done
    /\ UNCHANGED storeVars

Mail(r) ==
    CASE r.kind = "begin"  -> BeginMail(r.bundle)
      [] r.kind = "append" -> AppendMail(r.id, r.chunk)
      [] OTHER             -> CommitMail(r.id)

IsCommand == serving.kind \in {"begin", "append", "commit"}

Handle ==
    /\ IsCommand
    /\ Submit(serving.kind, Mail(serving))
    /\ UNCHANGED <<agentVars, webVars>>

HandleRefused ==
    /\ IsCommand
    /\ Refuse(serving.kind, Mail(serving))
    /\ Errors(serving) /\ Done

HandleTimesOut == TimeOut /\ Errors(serving) /\ Done

\* The answer to a commit is a status, read once the command has been answered.
HandleAnswered ==
    /\ Collect
    /\ IF commandResult # "ok" THEN Errors(serving) /\ Done
       ELSE IF serving.kind = "commit"
            THEN serving' = [serving EXCEPT !.kind = "status"] /\ UNCHANGED <<agentVars, inbox>>
            ELSE Answered(serving, Report) /\ Done

\* A new transaction id is one that nobody holds.
Held == {transfer.id, receipt, mailbox.id, agent.id, serving.id} \cup {r.id : r \in inbox}
NewId(id) == id \in Ids \ Held /\ \A other \in Ids \ Held : id <= other

Upload == (\E id \in Ids : NewId(id) /\ UploadTask(id)) /\ UNCHANGED <<agentVars, webVars>>
PowerCut == PowerLoss /\ inbox' = {} /\ serving' = NoRequest /\ UNCHANGED agentVars
Restart == Initialize /\ UNCHANGED <<agentVars, webVars>>
NoStore == InitializeFails /\ UNCHANGED <<agentVars, webVars>>

AgentStep == Synchronize \/ Send \/ NoAnswer
WebStep == (\E r \in inbox : Accept(r)) \/ Status \/ Handle \/ HandleRefused \/ HandleAnswered

SyncNext ==
    \/ AgentStep \/ WebStep \/ Upload \/ Restart
    \/ Select \/ Abandon \/ StatusTimesOut \/ HandleTimesOut \/ PowerCut \/ NoStore

\* The agent calls Synchronize every 5 or 30 seconds and every task gets its turn; nothing
\* has to fail, and nobody has to select a pet. A device that is off, or came up without a
\* store, is switched on again.
SyncSpec ==
    /\ SyncInit /\ [][SyncNext]_vars
    /\ WF_vars(AgentStep) /\ WF_vars(WebStep) /\ WF_vars(Upload) /\ WF_vars(Restart)

----------------------------------------------------------------------------
(* What must hold                                                             *)

SyncTypeOK ==
    /\ PetTypeOK
    /\ selected \in Bundles /\ changes \in 0 .. SelectionLimit
    /\ agent.stage \in Stages /\ agent.waiting \in BOOLEAN /\ agent.ok \in BOOLEAN
    /\ agent.bundle \in Bundles \cup {NoBundle} /\ agent.synced \in Bundles \cup {NoBundle}
    /\ agent.id \in Ids \cup {NoId} /\ agent.offset \in 0 .. Capacity
    /\ Cardinality(inbox) <= InboxLimit
    /\ serving.kind \in {"none", "status", "begin", "append", "commit"}

\* An upload that nobody will finish: the device keeps it, and the agent, who now has a
\* bundle of another length, can neither go on with it nor begin anew.
Abandoned == transfer.active /\ Length[transfer.begin] # Length[selected]

\* The selected pet is shown in the end, whatever was lost, refused, answered late or cut
\* short on the way, unless an abandoned upload of another length stands in its way.
Heals == <>[]((up /\ shown = selected) \/ Abandoned)

\* pet-ui-design.md, "Fallback and Error Handling": an interrupted upload is resumed or
\* restarted using the transaction status, so the selected pet is shown in the end.
InterruptedUploadIsResumed == <>[](up /\ shown = selected)

\* What an agent believes to be in flash is there.
AgentIsNotAhead ==
    agent.stage # "idle" /\ agent.id # NoId /\ agent.id = transfer.id
      => agent.offset <= transfer.received

=============================================================================
