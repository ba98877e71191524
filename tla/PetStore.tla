------------------------------ MODULE PetStore ------------------------------
(* The pet store: firmware/main/product/pet_store.cpp. Two slots of flash,    *)
(* the slot to show in NVS, and one upload at a time into the slot that is    *)
(* not shown. The web task leaves a command in a mailbox and waits up to 30   *)
(* seconds for the upload task, the lowest in priority, to carry it out: a    *)
(* command outlives a caller that gave up, while the next one writes over its *)
(* arguments. A bundle is a number of chunks; a slot is an array of them.     *)
EXTENDS Naturals

CONSTANTS
    Bundles, NoBundle,
    Length,       \* chunks of each bundle
    Capacity,     \* chunks of a slot
    Ids,          \* transaction ids; the code draws 64 random bits
    Faults,       \* what fails, see Fault
    FaultLimit    \* bound: how often, in a behaviour

ASSUME PetAssumption ==
    /\ NoBundle \notin Bundles
    /\ Capacity \in Nat /\ Length \in [Bundles -> 1 .. Capacity]
    /\ 0 \notin Ids /\ FaultLimit \in Nat
    /\ Faults \subseteq {"flash", "nvs", "power", "wait", "link"}

VARIABLES
    flash, nvsSlot,               \* the two slots, and the key pet_slot
    up,                           \* the store has started
    active, shown,                \* active_slot, active_metadata
    transfer,                     \* the transaction, with what do_begin was asked for
    mailbox,                      \* command_begin, command_transaction, command_chunk
    queue, completion,            \* command_queue, of one place, and the semaphore
    commandActive, commandResult, receipt,     \* receipt is command_status
    task,                         \* the upload task: stage, and what it works on
    caller,                       \* the web task, "free" or "waiting" for completion
    faults,                       \* how many there were
    doubt                         \* history: the last attempt to set pet_slot failed

storeVars == <<flash, nvsSlot, up, active, shown, transfer, mailbox, queue, completion,
               commandActive, commandResult, receipt, task, caller, faults, doubt>>
nvsVars == <<nvsSlot, doubt>>
flashVars == <<flash, nvsVars>>
showVars == <<up, active, shown>>
commandVars == <<mailbox, queue, completion, commandActive, commandResult, receipt, caller>>

Slots == {"a", "b"}
NoId == 0
Blank == [state |-> "blank"]
Garbage == [state |-> "garbage"]
Chunk(b, i) == [state |-> "whole", bundle |-> b, index |-> i]
Torn(c) == [c EXCEPT !.state = "torn"]
Chunks == {Chunk(b, i) : b \in Bundles, i \in 1 .. Capacity}
Cells == Chunks \cup {Torn(c) : c \in Chunks} \cup {Blank, Garbage}

NoTransfer == [active |-> FALSE, id |-> NoId, begin |-> NoBundle, received |-> 0, previous |-> Blank]
NoMail == [begin |-> NoBundle, id |-> NoId, chunk |-> Blank]
Resting == [stage |-> "idle", begin |-> NoBundle, chunk |-> Blank, owned |-> TRUE]

Transfers == [active : BOOLEAN, id : Ids \cup {NoId}, begin : Bundles \cup {NoBundle},
              received : 0 .. Capacity, previous : Chunks \cup {Blank}]
Mails == [begin : Bundles \cup {NoBundle}, id : Ids \cup {NoId}, chunk : Chunks \cup {Blank}]
TaskStages == {"idle", "given", "erase", "write", "validate", "persist", "activate"}
Tasks == [stage : TaskStages, begin : Bundles \cup {NoBundle},
          chunk : Chunks \cup {Blank}, owned : BOOLEAN]

Inactive(slot) == IF slot = "a" THEN "b" ELSE "a"
\* A mistake the properties catch.
Target_InUse == IF active = "none" THEN "a" ELSE active
Target == Inactive(active)

\* validate_pet_bundle: the digest in the header, and the digest declared for the upload.
Holds(slot, b) == \A i \in 1 .. Length[b] : flash[slot][i] = Chunk(b, i)
BundleIn(slot) ==
    IF \E b \in Bundles : Holds(slot, b) THEN CHOOSE b \in Bundles : Holds(slot, b) ELSE NoBundle

BootSlot ==
    IF nvsSlot \in Slots /\ BundleIn(nvsSlot) # NoBundle THEN nvsSlot
    ELSE IF BundleIn("a") # NoBundle THEN "a"
    ELSE IF BundleIn("b") # NoBundle THEN "b" ELSE "none"

\* Flash cells can be cleared and not set again: what is written over other data is neither.
Programmed(cell, c) == IF cell \in {Blank, c, Torn(c)} THEN c ELSE Garbage

\* flash: an erase, a write or a read fails. nvs: writing the slot number fails. power: the
\* device restarts. wait: a command outlasts its caller. link: see PetSync.
Fault(f) == f \in Faults /\ faults < FaultLimit /\ faults' = faults + 1
NoFault == UNCHANGED faults

StoreInit ==
    /\ doubt = FALSE
    /\ \/ flash = [s \in Slots |-> [i \in 1 .. Capacity |-> Blank]] /\ nvsSlot = "none"
       \/ \E b \in Bundles :
            /\ flash = [s \in Slots |-> [i \in 1 .. Capacity |->
                           IF s = "a" /\ i <= Length[b] THEN Chunk(b, i) ELSE Blank]]
            /\ nvsSlot \in {"a", "none"}
    /\ up = FALSE /\ active = "none" /\ shown = NoBundle
    /\ transfer = NoTransfer /\ mailbox = NoMail
    /\ queue = "empty" /\ completion = FALSE
    /\ commandActive = FALSE /\ commandResult = "none" /\ receipt = NoId
    /\ task = Resting /\ caller = "free" /\ faults = 0

----------------------------------------------------------------------------
(* The web task: begin, append_owned, commit and submit_upload_command. The   *)
(* arguments are in the mailbox before the call asks whether it is in use.    *)

\* A new chunk frees the buffer of the last one, which the upload task may be writing from.
Post(command, mail) ==
    /\ mailbox' = mail
    /\ task' = [task EXCEPT !.owned = @ /\ ~(command = "append" /\ task.stage = "write")]

Submit(command, mail) ==
    /\ up /\ caller = "free" /\ ~commandActive /\ queue = "empty"
    /\ Post(command, mail)
    /\ queue' = command /\ completion' = FALSE /\ commandActive' = TRUE /\ caller' = "waiting"
    /\ UNCHANGED <<flashVars, showVars, transfer, commandResult, receipt, faults>>

Refuse(command, mail) ==
    /\ up /\ caller = "free" /\ (commandActive \/ queue # "empty")
    /\ Post(command, mail)
    /\ completion' = (completion /\ commandActive)
    /\ UNCHANGED <<flashVars, showVars, transfer, queue, commandActive, commandResult,
                   receipt, caller, faults>>

TimeOut ==
    /\ caller = "waiting" /\ ~completion /\ Fault("wait")
    /\ caller' = "free"
    /\ UNCHANGED <<flashVars, showVars, transfer, mailbox, queue, completion, commandActive,
                   commandResult, receipt, task>>

Collect ==
    /\ caller = "waiting" /\ completion
    /\ caller' = "free" /\ completion' = FALSE /\ commandActive' = FALSE
    /\ UNCHANGED <<flashVars, showVars, transfer, mailbox, queue, commandResult, receipt,
                   task, faults>>

BeginMail(b) == [mailbox EXCEPT !.begin = b]
AppendMail(id, c) == [mailbox EXCEPT !.id = id, !.chunk = c]
CommitMail(id) == [mailbox EXCEPT !.id = id]

----------------------------------------------------------------------------
(* The upload task. Each command is looked at when it is taken, works on      *)
(* flash for a long time, and ends by giving the semaphore; the flag that the *)
(* mailbox is in use is cleared one step later.                               *)

Working(stage) == up /\ task.stage = stage

Take(command) ==
    /\ up /\ task.stage = "idle" /\ queue = command
    /\ queue' = "empty"

Start(stage) ==
    /\ task' = [stage |-> stage, begin |-> mailbox.begin, chunk |-> mailbox.chunk, owned |-> TRUE]
    /\ UNCHANGED <<mailbox, completion, commandResult>>

\* The end of upload_task's loop. It empties the mailbox of whatever chunk is there by now.
Finish(result) ==
    /\ mailbox' = [mailbox EXCEPT !.chunk = Blank]
    /\ commandResult' = result /\ completion' = TRUE
    /\ task' = [Resting EXCEPT !.stage = "given"]

Release ==
    /\ Working("given")
    /\ task' = Resting /\ commandActive' = FALSE
    /\ UNCHANGED <<flashVars, showVars, transfer, mailbox, queue, completion, commandResult,
                   receipt, caller, faults>>

TakeBegin ==
    /\ Take("begin")
    /\ IF transfer.active THEN Finish("refused") ELSE Start("erase")
    /\ UNCHANGED <<flashVars, showVars, transfer, commandActive, receipt, caller, faults>>

Erased(slot, k) == [flash EXCEPT ![slot] = [i \in 1 .. Capacity |-> IF i <= k THEN Blank ELSE @[i]]]

\* The length that is erased was read at the start, the one that is recorded at the end.
Erase(id) ==
    /\ Working("erase")
    /\ flash' = Erased(Target, Length[task.begin])
    /\ transfer' = [active |-> TRUE, id |-> id, begin |-> mailbox.begin,
                    received |-> 0, previous |-> Blank]
    /\ receipt' = id
    /\ Finish("ok")
    /\ UNCHANGED <<nvsVars, showVars, queue, commandActive, caller, faults>>

EraseFails ==
    /\ Working("erase") /\ Fault("flash")
    /\ \E k \in 0 .. Length[task.begin] : flash' = Erased(Target, k)
    /\ Finish("failed")
    /\ UNCHANGED <<nvsVars, showVars, transfer, queue, commandActive, receipt, caller>>

\* The chunk named by the previous call is answered again without being written again.
TakeAppend ==
    LET c == mailbox.chunk IN
    /\ Take("append")
    /\ IF ~transfer.active \/ mailbox.id # transfer.id THEN Finish("refused")
       ELSE IF c = Blank \/ c.index > Length[transfer.begin] THEN Finish("invalid")
       ELSE IF c = transfer.previous THEN Finish("ok")
       ELSE IF c.index # transfer.received + 1 THEN Finish("offset")
       ELSE Start("write")
    /\ UNCHANGED <<flashVars, showVars, transfer, commandActive, receipt, caller, faults>>

\* A buffer that was freed meanwhile may hold the chunk still, or anything.
Write ==
    LET i == task.chunk.index IN
    /\ Working("write")
    /\ \E c \in {task.chunk} \cup (IF task.owned THEN {} ELSE {Garbage}) :
         flash' = [flash EXCEPT ![Target][i] = IF c = Garbage THEN Garbage ELSE Programmed(@, c)]
    /\ transfer' = [transfer EXCEPT !.received = i, !.previous = task.chunk]
    /\ Finish("ok")
    /\ UNCHANGED <<nvsVars, showVars, queue, commandActive, receipt, caller, faults>>

WriteFails ==
    LET i == task.chunk.index IN
    /\ Working("write") /\ Fault("flash")
    /\ \/ UNCHANGED flash
       \/ flash' = [flash EXCEPT ![Target][i] =
                       IF Programmed(@, task.chunk) = Garbage THEN Garbage ELSE Torn(task.chunk)]
    /\ Finish("failed")
    /\ UNCHANGED <<nvsVars, showVars, transfer, queue, commandActive, receipt, caller>>

TakeCommit ==
    /\ Take("commit")
    /\ IF transfer.active /\ mailbox.id = transfer.id /\ transfer.received = Length[transfer.begin]
       THEN Start("validate") ELSE Finish("refused")
    /\ UNCHANGED <<flashVars, showVars, transfer, commandActive, receipt, caller, faults>>

GiveUp(result) == transfer' = NoTransfer /\ Finish(result)

\* A mistake the properties catch.
Validate_Header ==
    /\ Working("validate")
    /\ IF flash[Target][1] = Chunk(transfer.begin, 1)
       THEN task' = [task EXCEPT !.stage = "persist"] /\ UNCHANGED <<transfer, mailbox, completion, commandResult>>
       ELSE GiveUp("invalid")
    /\ UNCHANGED <<flashVars, showVars, queue, commandActive, receipt, caller, faults>>

\* A mistake the properties catch.
Validate_KeepsTransfer ==
    /\ Working("validate")
    /\ IF Holds(Target, transfer.begin)
       THEN task' = [task EXCEPT !.stage = "persist"] /\ UNCHANGED <<mailbox, completion, commandResult>>
       ELSE Finish("invalid")
    /\ UNCHANGED <<flashVars, showVars, transfer, queue, commandActive, receipt, caller, faults>>

Validate ==
    /\ Working("validate")
    /\ \/ /\ Holds(Target, transfer.begin)
          /\ task' = [task EXCEPT !.stage = "persist"]
          /\ UNCHANGED <<transfer, mailbox, completion, commandResult, faults>>
       \/ ~Holds(Target, transfer.begin) /\ GiveUp("invalid") /\ NoFault
       \/ Fault("flash") /\ GiveUp("invalid")
    /\ UNCHANGED <<flashVars, showVars, queue, commandActive, receipt, caller>>

Persist ==
    /\ Working("persist")
    /\ nvsSlot' = Target /\ doubt' = FALSE
    /\ task' = [task EXCEPT !.stage = "activate"]
    /\ UNCHANGED <<flash, showVars, transfer, commandVars, faults>>

\* persist_slot sets the slot, then the digest, then commits: it may have set the slot.
PersistFails ==
    /\ Working("persist") /\ Fault("nvs")
    /\ nvsSlot' \in {nvsSlot, Target} /\ doubt' = TRUE
    /\ GiveUp("failed")
    /\ UNCHANGED <<flash, showVars, queue, commandActive, receipt, caller>>

Activate ==
    /\ Working("activate")
    /\ active' = Target /\ shown' = transfer.begin /\ UNCHANGED up
    /\ GiveUp("ok")
    /\ UNCHANGED <<flashVars, queue, commandActive, receipt, caller, faults>>

----------------------------------------------------------------------------
(* Restart. start() hands do_initialize to the upload task and waits; only    *)
(* then does the web task know the store.                                     *)

PowerLoss ==
    /\ up /\ Fault("power")
    /\ up' = FALSE /\ active' = "none" /\ shown' = NoBundle
    /\ transfer' = NoTransfer /\ mailbox' = NoMail
    /\ queue' = "empty" /\ completion' = FALSE
    /\ commandActive' = FALSE /\ commandResult' = "none" /\ receipt' = NoId
    /\ task' = Resting /\ caller' = "free"
    /\ UNCHANGED flashVars

\* The slot that is found is recorded if it is not the one in NVS; if that fails there is
\* no store until the next restart.
Initialize ==
    /\ ~up
    /\ up' = TRUE /\ active' = BootSlot
    /\ shown' = IF BootSlot = "none" THEN NoBundle ELSE BundleIn(BootSlot)
    /\ nvsSlot' = (IF BootSlot = "none" THEN nvsSlot ELSE BootSlot) /\ doubt' = FALSE
    /\ task' = [Resting EXCEPT !.stage = "given"]
    /\ UNCHANGED <<flash, transfer, commandVars, faults>>

InitializeFails ==
    /\ ~up /\ BootSlot \notin {"none", nvsSlot} /\ Fault("nvs")
    /\ nvsSlot' \in {nvsSlot, BootSlot}
    /\ UNCHANGED <<flash, doubt, showVars, transfer, commandVars, task>>

UploadTask(id) ==
    \/ TakeBegin \/ TakeAppend \/ TakeCommit \/ Release
    \/ Erase(id) \/ Write \/ Validate \/ Persist \/ Activate
    \/ EraseFails \/ WriteFails \/ PersistFails

\* Any caller: what an agent asks for, and when, is in PetSync.
Call ==
    \/ \E b \in Bundles :
         Submit("begin", BeginMail(b)) \/ Refuse("begin", BeginMail(b))
    \/ \E id \in Ids, c \in Chunks :
         Submit("append", AppendMail(id, c)) \/ Refuse("append", AppendMail(id, c))
    \/ \E id \in Ids :
         Submit("commit", CommitMail(id)) \/ Refuse("commit", CommitMail(id))

StoreNext ==
    \/ Call \/ TimeOut \/ Collect \/ PowerLoss \/ Initialize \/ InitializeFails
    \/ \E id \in Ids : UploadTask(id)

StoreSpec == StoreInit /\ [][StoreNext]_storeVars

----------------------------------------------------------------------------
(* What must hold                                                             *)

PetTypeOK ==
    /\ flash \in [Slots -> [1 .. Capacity -> Cells]]
    /\ nvsSlot \in Slots \cup {"none"}
    /\ up \in BOOLEAN /\ active \in Slots \cup {"none"} /\ shown \in Bundles \cup {NoBundle}
    /\ transfer \in Transfers /\ mailbox \in Mails /\ task \in Tasks
    /\ queue \in {"empty", "begin", "append", "commit"} /\ completion \in BOOLEAN
    /\ commandActive \in BOOLEAN /\ receipt \in Ids \cup {NoId}
    /\ commandResult \in {"none", "ok", "refused", "invalid", "offset", "failed"}
    /\ caller \in {"free", "waiting"} /\ faults \in 0 .. FaultLimit /\ doubt \in BOOLEAN

\* The slot that is shown holds the pet that is shown, whole: no upload, time-out, freed
\* buffer or failure reaches it (slot_offset(inactive_pet_slot(active)) in every command).
ActiveIsWhole == active # "none" => shown \in Bundles /\ Holds(active, shown)

\* A transaction counts only chunks that are in flash, in order, whatever became of the
\* calls that sent them: no call that timed out leaves a gap behind received.
ReceivedIsWritten ==
    transfer.active =>
        /\ transfer.received <= Length[transfer.begin]
        /\ \A i \in 1 .. transfer.received : flash[Target][i].state \in {"whole", "garbage"}

\* The mailbox is never in use for good: while command_active refuses every call, there is a
\* caller to be answered or a command that will end.
MailboxIsReleased ==
    commandActive => caller = "waiting" \/ queue # "empty" \/ task.stage # "idle"

ShownIsSettled == up /\ shown # NoBundle /\ task.stage # "activate"

\* A restart shows the pet that is shown now, at every moment of an upload but the one
\* between writing the slot number and answering, unless writing it has failed.
RestartKeepsShown == ShownIsSettled /\ ~doubt => BootSlot = active

\* No upload harms the pet on show or the next upload, however it ends.
StoreIsSafe == ActiveIsWhole /\ ReceivedIsWritten /\ MailboxIsReleased /\ RestartKeepsShown

\* pet-ui-design.md, "Commit": any error removes only temporary data and the previously
\* active pet is preserved.
ErrorKeepsShown == ShownIsSettled => BootSlot = active

\* The slot that is shown, or will be after the restart.
ShownSlot == IF up THEN active ELSE BootSlot
PetShown == IF ShownSlot = "none" THEN NoBundle ELSE IF up THEN shown ELSE BundleIn(BootSlot)

\* The store does what PetOnShow promises.
Shows == INSTANCE PetOnShow WITH pet <- PetShown, spare <- BundleIn(Inactive(ShownSlot))
ImplementsPetOnShow == Shows!Spec
=============================================================================
