--------------------------- MODULE PetSync_proofs ---------------------------
(* The pet store keeps its promise for every set of pets, every length and    *)
(* every number of failures, time-outs and restarts, whatever its callers ask *)
(* for and whenever they give up; and the agent that feeds it is never ahead  *)
(* of it.                                                                     *)
EXTENDS PetSync, TLAPS

AtWork == task.stage \notin {"idle", "given"}
Committing == task.stage \in {"validate", "persist", "activate"}

\* What the upload task works on is what it has looked at.
Phases ==
    /\ queue = "begin" \/ task.stage = "erase" => mailbox.begin \in Bundles
    /\ task.stage = "erase" => task.begin \in Bundles /\ ~transfer.active
    /\ transfer.active => transfer.begin \in Bundles
    /\ task.stage = "write" =>
         /\ transfer.active /\ task.chunk \in Chunks
         /\ task.chunk.index = transfer.received + 1
         /\ task.chunk.index <= Length[transfer.begin]
    /\ Committing => transfer.active
    /\ ~up => ~transfer.active /\ task = Resting /\ queue = "empty" /\ active = "none"

\* Both slots: what is shown, and what has been found whole.
SlotsAgree ==
    /\ active = "none" <=> shown = NoBundle
    /\ ActiveIsWhole
    /\ up /\ active = "none" => BundleIn("b") = NoBundle
    /\ task.stage \in {"persist", "activate"} => Holds(Target, transfer.begin)

\* The slot in NVS is the one that is shown, or about to be.
Recorded ==
    /\ task.stage = "activate" => nvsSlot = Target
    /\ up /\ active # "none" /\ task.stage # "activate" /\ ~doubt => nvsSlot = active

\* A caller that waits for the semaphore waits for something.
Awaited == caller = "waiting" /\ ~completion => queue # "empty" \/ AtWork

----------------------------------------------------------------------------
(* Chunks and slots                                                           *)

LEMMA ChunkFields ==
  ASSUME NEW c \in Chunks
  PROVE  /\ c \in Cells /\ Torn(c) \in Cells /\ c # Blank /\ c # Garbage
         /\ c.index \in 1 .. Capacity /\ c.state = "whole"
<1>1. PICK b \in Bundles, i \in 1 .. Capacity : c = Chunk(b, i)
  BY DEF Chunks
<1>2. c.index = i /\ c.state = "whole"
  BY <1>1 DEF Chunk
<1>3. Blank.state = "blank" /\ Garbage.state = "garbage"
  BY DEF Blank, Garbage
<1>4. c # Blank /\ c # Garbage
  BY <1>2, <1>3
<1> QED
  BY <1>2, <1>4 DEF Cells

LEMMA OneBundle ==
  ASSUME NEW slot, NEW b \in Bundles, Holds(slot, b)
  PROVE  BundleIn(slot) = b
<1>1. \A other \in Bundles : Holds(slot, other) => other = b
  <2> SUFFICES ASSUME NEW other \in Bundles, Holds(slot, other)
               PROVE  other = b
    OBVIOUS
  <2>1. 1 \in 1 .. Length[b] /\ 1 \in 1 .. Length[other]
    BY PetAssumption
  <2>2. Chunk(b, 1) = Chunk(other, 1)
    BY <2>1 DEF Holds
  <2> QED
    BY <2>2 DEF Chunk
<1> QED
  BY <1>1 DEF BundleIn

LEMMA BundleInType ==
  ASSUME NEW slot
  PROVE  /\ BundleIn(slot) \in Bundles \cup {NoBundle}
         /\ BundleIn(slot) # NoBundle => Holds(slot, BundleIn(slot))
<1>1. CASE \E b \in Bundles : Holds(slot, b)
  <2>1. PICK b \in Bundles : Holds(slot, b)
    BY <1>1
  <2> QED
    BY <2>1, OneBundle
<1>2. CASE ~ \E b \in Bundles : Holds(slot, b)
  BY <1>2 DEF BundleIn
<1> QED
  BY <1>1, <1>2

LEMMA BootSlotIsWhole ==
  /\ BootSlot \in Slots \cup {"none"}
  /\ BootSlot # "none" => BundleIn(BootSlot) # NoBundle
  /\ BootSlot = "none" => BundleIn("a") = NoBundle /\ BundleIn("b") = NoBundle
BY DEF BootSlot, Slots

LEMMA Opposite ==
  ASSUME active \in Slots \cup {"none"}
  PROVE  Target \in Slots /\ Target # active /\ (active # "none" => Inactive(Target) = active)
BY DEF Target, Inactive, Slots

----------------------------------------------------------------------------
(* Types                                                                      *)

LEMMA TypeInit == StoreInit => PetTypeOK
<1> SUFFICES ASSUME StoreInit PROVE PetTypeOK
  OBVIOUS
<1>1. \A b \in Bundles, i \in 1 .. Capacity : Chunk(b, i) \in Cells
  BY DEF Cells, Chunks
<1>2. Blank \in Cells
  BY DEF Cells
<1>3. flash \in [Slots -> [1 .. Capacity -> Cells]] /\ nvsSlot \in Slots \cup {"none"}
  BY <1>1, <1>2 DEF StoreInit, Slots
<1>4. transfer \in Transfers
  BY PetAssumption DEF StoreInit, NoTransfer, Transfers
<1>5. mailbox \in Mails
  BY DEF StoreInit, NoMail, Mails
<1>6. task \in Tasks
  BY DEF StoreInit, Resting, Tasks, TaskStages
<1>7. faults \in 0 .. FaultLimit
  BY PetAssumption DEF StoreInit
<1>8. /\ up \in BOOLEAN /\ completion \in BOOLEAN /\ commandActive \in BOOLEAN /\ doubt \in BOOLEAN
      /\ active \in Slots \cup {"none"} /\ shown \in Bundles \cup {NoBundle}
      /\ queue \in {"empty", "begin", "append", "commit"} /\ receipt \in Ids \cup {NoId}
      /\ commandResult \in {"none", "ok", "refused", "invalid", "offset", "failed"}
      /\ caller \in {"free", "waiting"}
  BY DEF StoreInit
<1> QED
  BY <1>3, <1>4, <1>5, <1>6, <1>7, <1>8 DEF PetTypeOK

LEMMA CallType ==
  ASSUME PetTypeOK, NEW command \in {"begin", "append", "commit"}, NEW mail \in Mails,
         Submit(command, mail) \/ Refuse(command, mail)
  PROVE  PetTypeOK'
<1>1. mailbox' \in Mails
  BY DEF Submit, Refuse, Post
<1>2. task' \in Tasks
  BY DEF PetTypeOK, Submit, Refuse, Post, Tasks
<1>3. UNCHANGED <<flashVars, showVars, transfer, commandResult, receipt, faults>>
  BY DEF Submit, Refuse
<1>4. /\ queue' \in {"empty", "begin", "append", "commit"} /\ completion' \in BOOLEAN
      /\ commandActive' \in BOOLEAN /\ caller' \in {"free", "waiting"}
  BY DEF PetTypeOK, Submit, Refuse
<1> QED
  BY <1>1, <1>2, <1>3, <1>4 DEF PetTypeOK, flashVars, nvsVars, showVars

LEMMA CallMails ==
  ASSUME PetTypeOK, Call
  PROVE  \E command \in {"begin", "append", "commit"}, mail \in Mails :
           /\ Submit(command, mail) \/ Refuse(command, mail)
           /\ command = "begin" => mail.begin \in Bundles
           /\ mailbox.begin \in Bundles => mail.begin \in Bundles
<1>1. \A b \in Bundles : BeginMail(b) \in Mails /\ BeginMail(b).begin = b
  BY DEF PetTypeOK, BeginMail, Mails
<1>2. \A id \in Ids, c \in Chunks :
        AppendMail(id, c) \in Mails /\ AppendMail(id, c).begin = mailbox.begin
  BY DEF PetTypeOK, AppendMail, Mails
<1>3. \A id \in Ids : CommitMail(id) \in Mails /\ CommitMail(id).begin = mailbox.begin
  BY DEF PetTypeOK, CommitMail, Mails
<1>4. CASE \E b \in Bundles : Submit("begin", BeginMail(b)) \/ Refuse("begin", BeginMail(b))
  BY <1>1, <1>4
<1>5. CASE \E id \in Ids, c \in Chunks :
             Submit("append", AppendMail(id, c)) \/ Refuse("append", AppendMail(id, c))
  BY <1>2, <1>5
<1>6. CASE \E id \in Ids : Submit("commit", CommitMail(id)) \/ Refuse("commit", CommitMail(id))
  BY <1>3, <1>6
<1> QED
  BY <1>4, <1>5, <1>6 DEF Call

\* What a step of the upload task leaves in the variables of the mailbox.
LEMMA FinishType ==
  ASSUME PetTypeOK, NEW result \in {"ok", "refused", "invalid", "offset", "failed"},
         Finish(result)
  PROVE  /\ mailbox' \in Mails /\ task' \in Tasks /\ completion' = TRUE
         /\ commandResult' \in {"none", "ok", "refused", "invalid", "offset", "failed"}
         /\ mailbox'.begin = mailbox.begin
         /\ task'.stage = "given"
<1>1. mailbox' \in Mails /\ mailbox'.begin = mailbox.begin
  BY DEF PetTypeOK, Finish, Mails
<1>2. task' \in Tasks /\ task'.stage = "given"
  BY DEF Finish, Resting, Tasks, TaskStages
<1> QED
  BY <1>1, <1>2 DEF Finish

LEMMA StartType ==
  ASSUME PetTypeOK, NEW stage \in TaskStages, Start(stage)
  PROVE  /\ mailbox' = mailbox /\ task' \in Tasks /\ completion' = completion
         /\ commandResult' = commandResult
         /\ task'.stage = stage /\ task'.begin = mailbox.begin /\ task'.chunk = mailbox.chunk
BY DEF PetTypeOK, Start, Tasks, Mails

LEMMA ErasedType ==
  ASSUME PetTypeOK, NEW slot \in Slots, NEW k
  PROVE  /\ Erased(slot, k) \in [Slots -> [1 .. Capacity -> Cells]]
         /\ \A s \in Slots \ {slot} : Erased(slot, k)[s] = flash[s]
<1>1. Blank \in Cells
  BY DEF Cells
<1> QED
  BY <1>1 DEF PetTypeOK, Erased

LEMMA FaultType ==
  ASSUME PetTypeOK, NEW f, Fault(f)
  PROVE  faults' \in 0 .. FaultLimit
BY PetAssumption DEF Fault, PetTypeOK

LEMMA TypeStep ==
  ASSUME PetTypeOK, Phases, [StoreNext]_storeVars
  PROVE  PetTypeOK'
<1> USE DEF flashVars, nvsVars, showVars, commandVars
<1> DEFINE Cs == 1 .. Capacity
<1>1. CASE UNCHANGED storeVars
  BY <1>1 DEF storeVars, PetTypeOK
<1>2. CASE Call
  BY <1>2, CallMails, CallType
<1>3. CASE TimeOut
  BY <1>3, FaultType DEF TimeOut, PetTypeOK
<1>4. CASE Collect
  BY <1>4 DEF Collect, PetTypeOK
<1>5. CASE PowerLoss
  <2>1. transfer' \in Transfers /\ mailbox' \in Mails /\ task' \in Tasks
    BY <1>5, PetAssumption DEF PowerLoss, NoTransfer, NoMail, Resting, Transfers, Mails, Tasks,
       TaskStages
  <2>2. faults' \in 0 .. FaultLimit
    BY <1>5, FaultType DEF PowerLoss
  <2> QED
    BY <1>5, <2>1, <2>2 DEF PowerLoss, PetTypeOK
<1>6. CASE Initialize
  <2>1. task' \in Tasks
    BY <1>6 DEF Initialize, Resting, Tasks, TaskStages
  <2>2. active' \in Slots \cup {"none"} /\ shown' \in Bundles \cup {NoBundle}
        /\ nvsSlot' \in Slots \cup {"none"}
    BY <1>6, BootSlotIsWhole, BundleInType DEF Initialize, PetTypeOK
  <2> QED
    BY <1>6, <2>1, <2>2 DEF Initialize, PetTypeOK
<1>7. CASE InitializeFails
  <2>1. nvsSlot' \in Slots \cup {"none"} /\ faults' \in 0 .. FaultLimit
    BY <1>7, FaultType, BootSlotIsWhole DEF InitializeFails, PetTypeOK
  <2> QED
    BY <1>7, <2>1 DEF InitializeFails, PetTypeOK
<1>8. ASSUME NEW id \in Ids, UploadTask(id)
      PROVE  PetTypeOK'
  <2>1. CASE TakeBegin
    <3>1. mailbox' \in Mails /\ task' \in Tasks /\ completion' \in BOOLEAN
          /\ commandResult' \in {"none", "ok", "refused", "invalid", "offset", "failed"}
      BY <2>1, FinishType, StartType DEF TakeBegin, TaskStages, PetTypeOK
    <3> QED
      BY <2>1, <3>1 DEF TakeBegin, Take, PetTypeOK
  <2>2. CASE TakeAppend
    <3>1. mailbox' \in Mails /\ task' \in Tasks /\ completion' \in BOOLEAN
          /\ commandResult' \in {"none", "ok", "refused", "invalid", "offset", "failed"}
      BY <2>2, FinishType, StartType DEF TakeAppend, TaskStages, PetTypeOK
    <3> QED
      BY <2>2, <3>1 DEF TakeAppend, Take, PetTypeOK
  <2>3. CASE TakeCommit
    <3>1. mailbox' \in Mails /\ task' \in Tasks /\ completion' \in BOOLEAN
          /\ commandResult' \in {"none", "ok", "refused", "invalid", "offset", "failed"}
      BY <2>3, FinishType, StartType DEF TakeCommit, TaskStages, PetTypeOK
    <3> QED
      BY <2>3, <3>1 DEF TakeCommit, Take, PetTypeOK
  <2>4. CASE Release
    <3>1. task' \in Tasks
      BY <2>4 DEF Release, Resting, Tasks, TaskStages
    <3>2. commandActive' \in BOOLEAN
      BY <2>4 DEF Release
    <3> QED
      BY <2>4, <3>1, <3>2 DEF Release, PetTypeOK
  <2>5. CASE Erase(id)
    <3>1. transfer' \in Transfers
      BY <2>5, PetAssumption DEF Erase, PetTypeOK, Transfers, Mails
    <3>2. flash' \in [Slots -> [Cs -> Cells]]
      BY <2>5, ErasedType, Opposite DEF Erase, PetTypeOK
    <3>3. Finish("ok")
      BY <2>5 DEF Erase
    <3> QED
      BY <2>5, <3>1, <3>2, <3>3, FinishType DEF Erase, PetTypeOK
  <2>6. CASE EraseFails
    <3>1. flash' \in [Slots -> [Cs -> Cells]]
      BY <2>6, ErasedType, Opposite DEF EraseFails, PetTypeOK
    <3>2. Finish("failed") /\ faults' \in 0 .. FaultLimit
      BY <2>6, FaultType DEF EraseFails
    <3> QED
      BY <2>6, <3>1, <3>2, FinishType DEF EraseFails, PetTypeOK
  <2>7. CASE Write
    <3> DEFINE i == task.chunk.index
    <3>1. task.chunk \in Chunks /\ task.chunk \in Cells /\ i \in Cs /\ Garbage \in Cells
      BY <2>7, ChunkFields DEF Write, Working, Phases, Cells
    <3>2. flash' \in [Slots -> [Cs -> Cells]]
      BY <2>7, <3>1, Opposite DEF Write, PetTypeOK, Programmed
    <3>3. transfer' \in Transfers
      <4>1. transfer' = [transfer EXCEPT !.received = i, !.previous = task.chunk]
        BY <2>7 DEF Write
      <4>2. i \in 0 .. Capacity /\ transfer \in Transfers
        BY <3>1, PetAssumption DEF PetTypeOK
      <4> HIDE DEF i
      <4> QED
        BY <4>1, <4>2, <3>1 DEF Transfers
    <3>4. Finish("ok")
      BY <2>7 DEF Write
    <3> QED
      BY <2>7, <3>2, <3>3, <3>4, FinishType DEF Write, PetTypeOK
  <2>8. CASE WriteFails
    <3> DEFINE i == task.chunk.index
    <3>1. Torn(task.chunk) \in Cells /\ i \in Cs /\ Garbage \in Cells
      BY <2>8, ChunkFields DEF WriteFails, Working, Phases, Cells
    <3>2. flash' \in [Slots -> [Cs -> Cells]]
      <4>1. flash' = flash \/ \E cell \in Cells : flash' = [flash EXCEPT ![Target][i] = cell]
        BY <2>8, <3>1 DEF WriteFails
      <4>2. Target \in Slots /\ flash \in [Slots -> [Cs -> Cells]]
        BY Opposite DEF PetTypeOK
      <4> HIDE DEF i
      <4>3. ASSUME NEW cell \in Cells
            PROVE  [flash EXCEPT ![Target][i] = cell] \in [Slots -> [Cs -> Cells]]
        BY <4>2, <3>1
      <4> QED
        BY <4>1, <4>2, <4>3
    <3>3. Finish("failed") /\ faults' \in 0 .. FaultLimit
      BY <2>8, FaultType DEF WriteFails
    <3> QED
      BY <2>8, <3>2, <3>3, FinishType DEF WriteFails, PetTypeOK
  <2>9. NoTransfer \in Transfers
    BY PetAssumption DEF NoTransfer, Transfers
  <2>10. CASE Validate
    <3>1. CASE task' = [task EXCEPT !.stage = "persist"]
               /\ UNCHANGED <<transfer, mailbox, completion, commandResult, faults>>
      <4>1. task' \in Tasks
        BY <3>1 DEF PetTypeOK, Tasks, TaskStages
      <4> QED
        BY <2>10, <3>1, <4>1 DEF Validate, PetTypeOK
    <3>2. CASE GiveUp("invalid") /\ (NoFault \/ Fault("flash"))
      <4>1. faults' \in 0 .. FaultLimit
        BY <3>2, FaultType DEF NoFault, PetTypeOK
      <4> QED
        BY <2>10, <3>2, <4>1, <2>9, FinishType DEF GiveUp, Validate, PetTypeOK
    <3> QED
      BY <2>10, <3>1, <3>2 DEF Validate
  <2>11. CASE Persist
    <3>1. task' \in Tasks /\ nvsSlot' \in Slots
      BY <2>11, Opposite DEF Persist, PetTypeOK, Tasks, TaskStages
    <3> QED
      BY <2>11, <3>1 DEF Persist, PetTypeOK
  <2>12. CASE PersistFails
    <3>1. nvsSlot' \in Slots \cup {"none"} /\ faults' \in 0 .. FaultLimit
      BY <2>12, FaultType, Opposite DEF PersistFails, PetTypeOK
    <3>2. Finish("failed") /\ transfer' \in Transfers
      BY <2>12, <2>9 DEF PersistFails, GiveUp
    <3> QED
      BY <2>12, <3>1, <3>2, FinishType DEF PersistFails, PetTypeOK
  <2>13. CASE Activate
    <3>1. Finish("ok") /\ transfer' \in Transfers
      BY <2>13, <2>9 DEF Activate, GiveUp
    <3>2. active' \in Slots /\ shown' \in Bundles \cup {NoBundle}
      BY <2>13, Opposite DEF Activate, PetTypeOK, Transfers
    <3> QED
      BY <2>13, <3>1, <3>2, FinishType DEF Activate, PetTypeOK
  <2> QED
    BY <1>8, <2>1, <2>2, <2>3, <2>4, <2>5, <2>6, <2>7, <2>8, <2>10, <2>11, <2>12, <2>13
    DEF UploadTask
<1> QED
  BY <1>1, <1>2, <1>3, <1>4, <1>5, <1>6, <1>7, <1>8 DEF StoreNext

----------------------------------------------------------------------------
(* What the upload task works on                                              *)

LEMMA PhasesStep ==
  ASSUME PetTypeOK, Phases, [StoreNext]_storeVars
  PROVE  Phases'
<1> USE DEF flashVars, nvsVars, showVars, commandVars
<1>1. CASE UNCHANGED storeVars
  BY <1>1 DEF storeVars, Phases, Committing
<1>2. CASE Call
  <2>1. PICK command \in {"begin", "append", "commit"}, mail \in Mails :
          /\ Submit(command, mail) \/ Refuse(command, mail)
          /\ command = "begin" => mail.begin \in Bundles
          /\ mailbox.begin \in Bundles => mail.begin \in Bundles
    BY <1>2, CallMails
  <2>2. /\ mailbox' = mail /\ UNCHANGED <<showVars, transfer>> /\ up
        /\ task'.stage = task.stage /\ task'.begin = task.begin /\ task'.chunk = task.chunk
        /\ queue' \in {queue, command}
    BY <2>1 DEF Submit, Refuse, Post, PetTypeOK, Tasks
  <2> QED
    BY <2>1, <2>2 DEF Phases, Committing, Submit, Refuse
<1>3. CASE TimeOut \/ Collect \/ InitializeFails
  BY <1>3 DEF TimeOut, Collect, InitializeFails, Phases, Committing
<1>4. CASE PowerLoss
  BY <1>4 DEF PowerLoss, Phases, Committing, Resting, NoTransfer
<1>5. CASE Initialize
  BY <1>5 DEF Initialize, Phases, Committing, Resting
<1>6. ASSUME NEW id \in Ids, UploadTask(id)
      PROVE  Phases'
  <2>1. CASE TakeBegin
    BY <2>1, FinishType, StartType DEF TakeBegin, Take, Phases, Committing, TaskStages, PetTypeOK,
       Mails
  <2>2. CASE TakeAppend
    <3> DEFINE c == mailbox.chunk
    <3>1. UNCHANGED <<showVars, transfer>> /\ up /\ queue' = "empty"
      BY <2>2 DEF TakeAppend, Take
    <3>2. CASE task'.stage = "given" /\ mailbox'.begin = mailbox.begin
      BY <3>1, <3>2 DEF Phases, Committing
    <3>3. CASE /\ transfer.active /\ c # Blank /\ ~(c.index > Length[transfer.begin])
               /\ c.index = transfer.received + 1 /\ Start("write")
      <4>1. c \in Chunks
        BY <3>3 DEF PetTypeOK, Mails
      <4>2. c.index \in Nat /\ Length[transfer.begin] \in Nat
        BY <3>3, <4>1, ChunkFields, PetAssumption DEF Phases
      <4>3. task'.stage = "write" /\ task'.chunk = c
        BY <3>3, StartType DEF TaskStages
      <4> QED
        BY <3>1, <3>3, <4>1, <4>2, <4>3 DEF Phases, Committing
    <3> QED
      BY <2>2, <3>2, <3>3, FinishType DEF TakeAppend
  <2>3. CASE TakeCommit
    BY <2>3, FinishType, StartType DEF TakeCommit, Take, Phases, Committing, TaskStages
  <2>4. CASE Release
    BY <2>4 DEF Release, Working, Phases, Committing, Resting
  <2>5. CASE Erase(id)
    <3>1. transfer'.active /\ transfer'.begin \in Bundles
      BY <2>5 DEF Erase, Working, Phases
    <3>2. task'.stage = "given" /\ mailbox'.begin = mailbox.begin
      BY <2>5, FinishType DEF Erase
    <3> QED
      BY <2>5, <3>1, <3>2 DEF Erase, Working, Phases, Committing
  <2>6. CASE EraseFails \/ WriteFails
    <3>1. task'.stage = "given" /\ mailbox'.begin = mailbox.begin
      BY <2>6, FinishType DEF EraseFails, WriteFails
    <3> QED
      BY <2>6, <3>1 DEF EraseFails, WriteFails, Working, Phases, Committing
  <2>7. CASE Write
    <3>1. task'.stage = "given" /\ mailbox'.begin = mailbox.begin
      BY <2>7, FinishType DEF Write
    <3>2. transfer'.active = transfer.active /\ transfer'.begin = transfer.begin
      BY <2>7 DEF Write, PetTypeOK, Transfers
    <3> QED
      BY <2>7, <3>1, <3>2 DEF Write, Working, Phases, Committing
  <2>8. CASE Validate
    <3>1. CASE task' = [task EXCEPT !.stage = "persist"] /\ UNCHANGED <<transfer, mailbox>>
      BY <2>8, <3>1 DEF Validate, Working, Phases, Committing, PetTypeOK, Tasks
    <3>2. CASE GiveUp("invalid")
      BY <2>8, <3>2, FinishType DEF Validate, Working, GiveUp, NoTransfer, Phases, Committing
    <3> QED
      BY <2>8, <3>1, <3>2 DEF Validate
  <2>9. CASE Persist
    BY <2>9 DEF Persist, Working, Phases, Committing, PetTypeOK, Tasks
  <2>10. CASE PersistFails
    BY <2>10, FinishType DEF PersistFails, Working, GiveUp, NoTransfer, Phases, Committing
  <2>11. CASE Activate
    BY <2>11, FinishType DEF Activate, Working, GiveUp, NoTransfer, Phases, Committing
  <2> QED
    BY <1>6, <2>1, <2>2, <2>3, <2>4, <2>5, <2>6, <2>7, <2>8, <2>9, <2>10, <2>11 DEF UploadTask
<1> QED
  BY <1>1, <1>2, <1>3, <1>4, <1>5, <1>6 DEF StoreNext

----------------------------------------------------------------------------
(* The two slots                                                              *)

LEMMA SameSlot ==
  ASSUME NEW slot, flash'[slot] = flash[slot]
  PROVE  /\ \A b : Holds(slot, b)' <=> Holds(slot, b)
         /\ BundleIn(slot)' = BundleIn(slot)
<1>1. \A b : Holds(slot, b)' <=> Holds(slot, b)
  BY DEF Holds
<1> QED
  BY <1>1 DEF BundleIn

\* No step reaches the slot that is shown, nor, without one, slot b.
LEMMA OnlyTargetIsWritten ==
  ASSUME PetTypeOK, Phases, [StoreNext]_storeVars
  PROVE  \A slot \in Slots \ {Target} : flash'[slot] = flash[slot]
<1> USE DEF flashVars, nvsVars, showVars
<1>1. Target \in Slots
  BY Opposite DEF PetTypeOK
<1>2. CASE flash' = flash
  BY <1>2
<1>3. CASE \E k : flash' = Erased(Target, k)
  BY <1>1, <1>3, ErasedType
<1>4. CASE Write \/ WriteFails
  <2>1. flash' = flash \/ \E i, cell : flash' = [flash EXCEPT ![Target][i] = cell]
    BY <1>4 DEF Write, WriteFails
  <2> QED
    BY <2>1, <1>1 DEF PetTypeOK
<1>5. ASSUME NEW id \in Ids, UploadTask(id)
      PROVE  flash' = flash \/ (\E k : flash' = Erased(Target, k)) \/ Write \/ WriteFails
  BY <1>5 DEF UploadTask, TakeBegin, TakeAppend, TakeCommit, Release, Erase, EraseFails, Validate,
     Persist, PersistFails, Activate
<1>6. CASE Call
  BY <1>6, <1>2, CallMails DEF Submit, Refuse
<1>7. CASE TimeOut \/ Collect \/ PowerLoss \/ Initialize \/ InitializeFails \/ UNCHANGED storeVars
  BY <1>7, <1>2 DEF TimeOut, Collect, PowerLoss, Initialize, InitializeFails, storeVars
<1> QED
  BY <1>2, <1>3, <1>4, <1>5, <1>6, <1>7 DEF StoreNext

LEMMA SlotsInit == StoreInit => Phases /\ SlotsAgree
BY DEF StoreInit, Phases, SlotsAgree, ActiveIsWhole, Committing, Resting, NoTransfer, NoMail

\* The steps that leave alone what is shown, and whose work is not past its validation.
LEMMA SlotsKept ==
  ASSUME PetTypeOK, Phases, SlotsAgree, [StoreNext]_storeVars,
         UNCHANGED showVars,
         task'.stage \in {"persist", "activate"} =>
             /\ flash' = flash /\ transfer' = transfer
             /\ Holds(Target, transfer.begin)
  PROVE  SlotsAgree'
<1>1. active' = active /\ shown' = shown /\ up' = up /\ Target' = Target
  BY DEF showVars, Target
<1>2. ActiveIsWhole'
  <2>1. CASE active = "none"
    BY <1>1, <2>1 DEF ActiveIsWhole
  <2>2. CASE active # "none"
    <3>1. flash'[active] = flash[active]
      BY <2>2, OnlyTargetIsWritten, Opposite DEF PetTypeOK
    <3> QED
      BY <3>1, <1>1, SameSlot DEF SlotsAgree, ActiveIsWhole, Holds
  <2> QED
    BY <2>1, <2>2
<1>3. up /\ active = "none" => BundleIn("b")' = BundleIn("b")
  BY OnlyTargetIsWritten, SameSlot DEF Target, Inactive, Slots
<1>4. task'.stage \in {"persist", "activate"} => Holds(Target, transfer.begin)'
  BY <1>1 DEF Holds
<1> QED
  BY <1>1, <1>2, <1>3, <1>4 DEF SlotsAgree

LEMMA SlotsStep ==
  ASSUME PetTypeOK, Phases, SlotsAgree, [StoreNext]_storeVars
  PROVE  SlotsAgree'
<1> USE DEF flashVars, nvsVars, showVars, commandVars
<1>1. CASE UNCHANGED storeVars \/ TimeOut \/ Collect \/ InitializeFails
  <2>1. UNCHANGED <<up, active, shown, flash, transfer, task>>
    BY <1>1 DEF storeVars, TimeOut, Collect, InitializeFails
  <2> QED
    BY <2>1, SlotsKept DEF SlotsAgree
<1>2. CASE Call
  <2>1. UNCHANGED <<up, active, shown, flash, transfer>> /\ task'.stage = task.stage
    BY <1>2, CallMails DEF Submit, Refuse, Post, PetTypeOK, Tasks
  <2> QED
    BY <2>1, SlotsKept DEF SlotsAgree
<1>3. CASE PowerLoss
  BY <1>3 DEF PowerLoss, SlotsAgree, ActiveIsWhole, Resting
<1>4. CASE Initialize
  <2>1. flash' = flash /\ active' = BootSlot /\ task'.stage = "given"
    BY <1>4 DEF Initialize, Resting
  <2>2. CASE BootSlot = "none"
    <3>1. shown' = NoBundle /\ BundleIn("b")' = NoBundle
      BY <1>4, <2>1, <2>2, BootSlotIsWhole, SameSlot DEF Initialize
    <3> QED
      BY <2>1, <2>2, <3>1 DEF SlotsAgree, ActiveIsWhole
  <2>3. CASE BootSlot # "none"
    <3>1. shown' = BundleIn(BootSlot) /\ shown' \in Bundles
      BY <1>4, <2>3, BootSlotIsWhole, BundleInType DEF Initialize
    <3>2. Holds(BootSlot, shown')
      BY <3>1, <2>3, BootSlotIsWhole, BundleInType
    <3>3. Holds(active, shown)'
      BY <2>1, <3>2 DEF Holds
    <3> QED
      BY <2>1, <2>3, <3>1, <3>3, PetAssumption DEF SlotsAgree, ActiveIsWhole
  <2> QED
    BY <2>2, <2>3
<1>5. ASSUME NEW id \in Ids, UploadTask(id)
      PROVE  SlotsAgree'
  <2>1. CASE task'.stage = "given" /\ UNCHANGED showVars
    BY <2>1, SlotsKept
  <2>2. CASE TakeBegin \/ TakeAppend \/ TakeCommit
    <3>1. task'.stage \in {"given", "erase", "write", "validate"} /\ UNCHANGED showVars
      BY <2>2, FinishType, StartType DEF TakeBegin, TakeAppend, TakeCommit, TaskStages
    <3> QED
      BY <3>1, SlotsKept
  <2>3. CASE Release
    BY <2>3, SlotsKept DEF Release, Resting
  <2>4. CASE Erase(id) \/ EraseFails \/ Write \/ WriteFails \/ PersistFails
    BY <2>4, <2>1, FinishType DEF Erase, EraseFails, Write, WriteFails, PersistFails, GiveUp
  <2>5. CASE Validate
    <3>1. CASE /\ Holds(Target, transfer.begin) /\ UNCHANGED transfer
      BY <2>5, <3>1, SlotsKept DEF Validate
    <3>2. CASE GiveUp("invalid")
      BY <2>5, <3>2, <2>1, FinishType DEF Validate, GiveUp
    <3> QED
      BY <2>5, <3>1, <3>2 DEF Validate
  <2>6. CASE Persist
    <3>1. Holds(Target, transfer.begin) /\ UNCHANGED <<showVars, flash, transfer>>
      BY <2>6 DEF Persist, Working, SlotsAgree
    <3> QED
      BY <3>1, SlotsKept
  <2>7. CASE Activate
    <3>1. transfer.begin \in Bundles /\ Holds(Target, transfer.begin)
      BY <2>7 DEF Activate, Working, Phases, Committing, SlotsAgree
    <3>2. flash' = flash /\ active' = Target /\ shown' = transfer.begin /\ task'.stage = "given"
      BY <2>7, FinishType DEF Activate, GiveUp
    <3>3. Holds(active, shown)'
      BY <3>1, <3>2 DEF Holds
    <3>4. active' # "none" /\ shown' # NoBundle
      BY <3>1, <3>2, Opposite, PetAssumption DEF PetTypeOK, Slots
    <3> QED
      BY <3>1, <3>2, <3>3, <3>4 DEF SlotsAgree, ActiveIsWhole
  <2> QED
    BY <1>5, <2>2, <2>3, <2>4, <2>5, <2>6, <2>7 DEF UploadTask
<1> QED
  BY <1>1, <1>2, <1>3, <1>4, <1>5 DEF StoreNext

----------------------------------------------------------------------------
(* The slot in NVS                                                            *)

LEMMA RecordedInit == StoreInit => Recorded /\ Awaited /\ ReceivedIsWritten /\ MailboxIsReleased
BY DEF StoreInit, Recorded, Awaited, ReceivedIsWritten, MailboxIsReleased, AtWork, Resting,
   NoTransfer

LEMMA RecordedStep ==
  ASSUME PetTypeOK, Phases, Recorded, [StoreNext]_storeVars
  PROVE  Recorded'
<1> USE DEF flashVars, nvsVars, showVars, commandVars
<1>1. CASE /\ UNCHANGED <<showVars, nvsVars>> /\ task.stage # "activate"
           /\ task'.stage # "activate"
  BY <1>1 DEF Recorded
<1>2. CASE UNCHANGED <<showVars, nvsVars>> /\ task'.stage = task.stage
  BY <1>2 DEF Recorded, Target
<1>3. CASE Call
  BY <1>3, <1>2, CallMails DEF Submit, Refuse, Post, PetTypeOK, Tasks
<1>4. CASE TimeOut \/ Collect \/ UNCHANGED storeVars
  BY <1>4, <1>2 DEF TimeOut, Collect, storeVars
<1>5. CASE PowerLoss \/ InitializeFails
  BY <1>5 DEF PowerLoss, InitializeFails, Recorded, Phases, Resting
<1>6. CASE Initialize
  BY <1>6 DEF Initialize, Recorded, Resting
<1>7. ASSUME NEW id \in Ids, UploadTask(id)
      PROVE  Recorded'
  <2>1. CASE TakeBegin \/ TakeAppend \/ TakeCommit
    BY <2>1, <1>1, FinishType, StartType DEF TakeBegin, TakeAppend, TakeCommit, Take, TaskStages
  <2>2. CASE Release
    BY <2>2, <1>1 DEF Release, Working, Resting
  <2>3. CASE Erase(id) \/ EraseFails \/ Write \/ WriteFails
    BY <2>3, <1>1, FinishType DEF Erase, EraseFails, Write, WriteFails, Working
  <2>4. CASE Validate
    <3>1. task'.stage \in {"persist", "given"}
      BY <2>4, FinishType DEF Validate, GiveUp, PetTypeOK, Tasks
    <3> QED
      BY <2>4, <3>1, <1>1 DEF Validate, Working
  <2>5. CASE Persist
    BY <2>5 DEF Persist, Recorded, Target, PetTypeOK, Tasks
  <2>6. CASE PersistFails
    BY <2>6, FinishType DEF PersistFails, GiveUp, Recorded
  <2>7. CASE Activate
    BY <2>7, FinishType DEF Activate, GiveUp, Working, Recorded
  <2> QED
    BY <1>7, <2>1, <2>2, <2>3, <2>4, <2>5, <2>6, <2>7 DEF UploadTask
<1> QED
  BY <1>3, <1>4, <1>5, <1>6, <1>7 DEF StoreNext

LEMMA BootFindsActive ==
  ASSUME PetTypeOK, SlotsAgree, Recorded, ShownIsSettled, ~doubt
  PROVE  BootSlot = active
<1>1. active \in Slots /\ shown \in Bundles /\ Holds(active, shown) /\ nvsSlot = active
  BY DEF PetTypeOK, SlotsAgree, ActiveIsWhole, Recorded, ShownIsSettled
<1>2. BundleIn(active) = shown
  BY <1>1, OneBundle
<1> QED
  BY <1>1, <1>2, PetAssumption DEF BootSlot

----------------------------------------------------------------------------
(* Commands that outlive their callers                                        *)

LEMMA AwaitedStep ==
  ASSUME PetTypeOK, Phases, Awaited, MailboxIsReleased, [StoreNext]_storeVars
  PROVE  Awaited' /\ MailboxIsReleased'
<1> USE DEF flashVars, nvsVars, showVars, commandVars
<1>1. CASE UNCHANGED storeVars
  BY <1>1 DEF storeVars, Awaited, MailboxIsReleased, AtWork
<1>2. CASE Call
  <2>1. task'.stage = task.stage
    BY <1>2, CallMails DEF Submit, Refuse, Post, PetTypeOK, Tasks
  <2> QED
    BY <1>2, <2>1, CallMails DEF Submit, Refuse, Awaited, MailboxIsReleased, AtWork
<1>3. CASE TimeOut \/ Collect \/ InitializeFails
  BY <1>3 DEF TimeOut, Collect, InitializeFails, Awaited, MailboxIsReleased, AtWork
<1>4. CASE PowerLoss
  BY <1>4 DEF PowerLoss, Awaited, MailboxIsReleased
<1>5. CASE Initialize
  BY <1>5 DEF Initialize, Phases, Awaited, MailboxIsReleased, AtWork, Resting
<1>6. ASSUME NEW id \in Ids, UploadTask(id)
      PROVE  Awaited' /\ MailboxIsReleased'
  <2>1. CASE completion' = TRUE /\ task'.stage = "given"
    BY <2>1 DEF Awaited, MailboxIsReleased
  <2>2. CASE AtWork'
    BY <2>2 DEF Awaited, MailboxIsReleased, AtWork
  <2>3. CASE Release
    BY <2>3 DEF Release, Working, Awaited, MailboxIsReleased, AtWork
  <2>4. CASE TakeBegin \/ TakeAppend \/ TakeCommit
    BY <2>4, <2>1, <2>2, FinishType, StartType DEF TakeBegin, TakeAppend, TakeCommit, TaskStages,
       AtWork
  <2>5. CASE Erase(id) \/ EraseFails \/ Write \/ WriteFails \/ PersistFails \/ Activate
    BY <2>5, <2>1, FinishType
    DEF Erase, EraseFails, Write, WriteFails, PersistFails, Activate, GiveUp
  <2>6. CASE Validate \/ Persist
    BY <2>6, <2>1, <2>2, FinishType DEF Validate, Persist, GiveUp, AtWork, PetTypeOK, Tasks
  <2> QED
    BY <1>6, <2>3, <2>4, <2>5, <2>6 DEF UploadTask
<1> QED
  BY <1>1, <1>2, <1>3, <1>4, <1>5, <1>6 DEF StoreNext

LEMMA ReceivedStep ==
  ASSUME PetTypeOK, Phases, ReceivedIsWritten, [StoreNext]_storeVars
  PROVE  ReceivedIsWritten'
<1> USE DEF flashVars, nvsVars, showVars, commandVars
<1>1. CASE UNCHANGED <<flash, active, transfer>>
  BY <1>1 DEF ReceivedIsWritten, Target
<1>2. CASE transfer'.active = FALSE
  BY <1>2 DEF ReceivedIsWritten
<1>3. CASE Call
  BY <1>3, <1>1, CallMails DEF Submit, Refuse
<1>4. CASE TimeOut \/ Collect \/ UNCHANGED storeVars \/ InitializeFails
  BY <1>4, <1>1 DEF TimeOut, Collect, storeVars, InitializeFails
<1>5. CASE PowerLoss
  BY <1>5, <1>2 DEF PowerLoss, NoTransfer
<1>6. CASE Initialize
  <2>1. transfer'.active = transfer.active /\ ~transfer.active
    BY <1>6 DEF Initialize, Phases
  <2> QED
    BY <2>1 DEF ReceivedIsWritten
<1>7. ASSUME NEW id \in Ids, UploadTask(id)
      PROVE  ReceivedIsWritten'
  <2>1. CASE TakeBegin \/ TakeAppend \/ TakeCommit \/ Release \/ Persist
    BY <2>1, <1>1 DEF TakeBegin, TakeAppend, TakeCommit, Release, Persist
  <2>2. CASE Erase(id)
    <3>1. transfer'.received = 0 /\ transfer'.begin \in Bundles
      BY <2>2 DEF Erase, Working, Phases
    <3>2. Length[transfer'.begin] \in Nat
      BY <3>1, PetAssumption
    <3> QED
      BY <3>1, <3>2 DEF ReceivedIsWritten
  <2>3. CASE EraseFails
    BY <2>3 DEF EraseFails, Working, Phases, ReceivedIsWritten
  <2>4. CASE Write \/ WriteFails
    <3> DEFINE i == task.chunk.index
    <3>1. /\ transfer.active /\ task.chunk \in Chunks /\ i = transfer.received + 1
          /\ i <= Length[transfer.begin] /\ i \in 1 .. Capacity /\ task.chunk.state = "whole"
      BY <2>4, ChunkFields DEF Write, WriteFails, Working, Phases
    <3>2. /\ Target' = Target /\ Target \in Slots /\ transfer.received \in Nat
          /\ flash \in [Slots -> [1 .. Capacity -> Cells]]
      BY <2>4, Opposite DEF Write, WriteFails, Target, PetTypeOK, Transfers
    <3>3. CASE Write
      <4>1. PICK c \in {task.chunk, Garbage} :
              flash' = [flash EXCEPT ![Target][i] =
                           IF c = Garbage THEN Garbage ELSE Programmed(@, c)]
        BY <3>3 DEF Write
      <4>2. flash'[Target][i] \in {task.chunk, Garbage}
        BY <4>1, <3>1, <3>2 DEF Programmed
      <4>3. flash'[Target][i].state \in {"whole", "garbage"}
        BY <4>2, <3>1 DEF Garbage
      <4>4. \A j \in 1 .. Capacity : j # i => flash'[Target][j] = flash[Target][j]
        BY <4>1, <3>1, <3>2
      <4>5. transfer'.received = i /\ transfer'.begin = transfer.begin
        BY <3>3 DEF Write, PetTypeOK, Transfers
      <4>6. Length[transfer.begin] \in 1 .. Capacity
        BY <3>1, PetAssumption DEF Phases
      <4>7. ASSUME NEW j \in 1 .. i
            PROVE  flash'[Target][j].state \in {"whole", "garbage"}
        <5>1. j \in 1 .. Capacity /\ (j # i => j \in 1 .. transfer.received)
          BY <3>1, <3>2, PetAssumption
        <5> QED
          BY <5>1, <3>1, <4>3, <4>4 DEF ReceivedIsWritten
      <4> HIDE DEF i
      <4> QED
        BY <3>1, <3>2, <4>5, <4>7 DEF ReceivedIsWritten
    <3>4. CASE WriteFails
      <4>1. flash' = flash \/ \E cell : flash' = [flash EXCEPT ![Target][i] = cell]
        BY <3>4 DEF WriteFails
      <4>2. \A j \in 1 .. Capacity : j # i => flash'[Target][j] = flash[Target][j]
        BY <4>1, <3>1, <3>2
      <4>3. Length[transfer.begin] \in 1 .. Capacity /\ transfer' = transfer
        BY <3>1, <3>4, PetAssumption DEF Phases, WriteFails
      <4>4. ASSUME NEW j \in 1 .. transfer.received
            PROVE  flash'[Target][j].state \in {"whole", "garbage"}
        <5>1. j \in 1 .. Capacity /\ j # i
          BY <3>1, <3>2, PetAssumption
        <5> QED
          BY <5>1, <3>1, <4>2 DEF ReceivedIsWritten
      <4>5. transfer.received <= Length[transfer.begin]
        BY <3>1 DEF ReceivedIsWritten
      <4> HIDE DEF i
      <4> QED
        BY <3>2, <4>3, <4>4, <4>5 DEF ReceivedIsWritten
    <3> QED
      BY <2>4, <3>3, <3>4
  <2>5. CASE transfer' = NoTransfer
    BY <2>5 DEF NoTransfer, ReceivedIsWritten
  <2>6. CASE Validate \/ PersistFails \/ Activate
    BY <2>6, <2>5, <1>1 DEF Validate, PersistFails, Activate, GiveUp
  <2> QED
    BY <1>7, <2>1, <2>2, <2>3, <2>4, <2>5, <2>6 DEF UploadTask
<1> QED
  BY <1>3, <1>4, <1>5, <1>6, <1>7 DEF StoreNext

----------------------------------------------------------------------------
(* The theorems                                                               *)

IInv ==
    /\ PetTypeOK /\ Phases /\ SlotsAgree /\ Recorded
    /\ Awaited /\ MailboxIsReleased /\ ReceivedIsWritten

LEMMA StoreStarts == StoreInit => IInv
BY TypeInit, SlotsInit, RecordedInit DEF IInv

LEMMA StoreKeeps == IInv /\ [StoreNext]_storeVars => IInv'
BY TypeStep, PhasesStep, SlotsStep, RecordedStep, AwaitedStep, ReceivedStep DEF IInv

LEMMA Inductive == StoreSpec => []IInv
BY StoreStarts, StoreKeeps, PTL DEF StoreSpec

\* Every variable of the store keeps its type, for all constants.
THEOREM PetStoreTypes == StoreSpec => []PetTypeOK
<1>1. IInv => PetTypeOK
  BY DEF IInv
<1> QED
  BY <1>1, Inductive, PTL

\* The pet that is shown is whole in the slot it is shown from, whoever calls and gives up
\* when, and whatever fails: do_begin, do_append and do_commit only touch the other slot.
THEOREM ShownPetIsWhole == StoreSpec => []ActiveIsWhole
<1>1. IInv => ActiveIsWhole
  BY DEF IInv, SlotsAgree
<1> QED
  BY <1>1, Inductive, PTL

\* A restart shows the pet that is shown now (select_boot_pet_slot), at every moment but the
\* one between persist_slot and the change of active_slot, unless persist_slot has failed.
THEOREM RestartShowsTheSame == StoreSpec => []RestartKeepsShown
<1>1. IInv => RestartKeepsShown
  BY BootFindsActive DEF IInv, RestartKeepsShown
<1> QED
  BY <1>1, Inductive, PTL

\* received never counts a chunk that is not in flash, though a buffer may be freed while it
\* is written and a command may start when its caller is gone.
THEOREM ReceivedChunksAreWritten == StoreSpec => []ReceivedIsWritten
<1>1. IInv => ReceivedIsWritten
  BY DEF IInv
<1> QED
  BY <1>1, Inductive, PTL

\* command_active does not stay set when nobody works on a command or waits for one.
THEOREM MailboxIsNotLost == StoreSpec => []MailboxIsReleased
<1>1. IInv => MailboxIsReleased
  BY DEF IInv
<1> QED
  BY <1>1, Inductive, PTL

SlotTypes == \A slot \in Slots : BundleIn(slot) \in Bundles \cup {NoBundle}

LEMMA SlotsHoldBundles == SlotTypes
BY BundleInType DEF SlotTypes

LEMMA ShowsInit == StoreInit => Shows!Init
<1> SUFFICES ASSUME StoreInit PROVE Shows!Init
  OBVIOUS
<1>1. BundleIn(Inactive(ShownSlot)) \in Bundles \cup {NoBundle}
  BY BundleInType
<1>2. PetShown \in Bundles \cup {NoBundle}
  BY BundleInType DEF StoreInit, PetShown
<1> QED
  BY <1>1, <1>2 DEF Shows!Init

LEMMA SpareAfter ==
  ASSUME NEW slot, Inactive(ShownSlot)' = slot
  PROVE  BundleIn(Inactive(ShownSlot))' = BundleIn(slot)'
BY DEF BundleIn, Holds

LEMMA BootAfter ==
  ASSUME flash' = flash, nvsSlot' = nvsSlot \/ nvsSlot' = BootSlot
  PROVE  BootSlot' = BootSlot /\ BundleIn(BootSlot)' = BundleIn(BootSlot)
<1>1. \A slot : BundleIn(slot)' = BundleIn(slot)
  BY SameSlot
<1>2. BootSlot' = BootSlot
  BY <1>1 DEF BootSlot
<1> QED
  BY <1>1, <1>2 DEF BundleIn, Holds

LEMMA ShowsStep ==
  ASSUME IInv, SlotTypes', [StoreNext]_storeVars
  PROVE  [Shows!Prepare \/ Shows!Switch]_<<PetShown, BundleIn(Inactive(ShownSlot))>>
<1> USE DEF flashVars, nvsVars, showVars, commandVars
<1> DEFINE Spare == BundleIn(Inactive(ShownSlot))
<1>1. PetTypeOK /\ Phases /\ SlotsAgree
  BY DEF IInv
<1>2. Spare' \in Bundles \cup {NoBundle}
  <2>1. Inactive(ShownSlot)' \in Slots
    BY DEF Inactive, Slots
  <2> QED
    BY <2>1, SpareAfter DEF SlotTypes
<1>3. CASE PetShown' = PetShown
  BY <1>2, <1>3 DEF Shows!Prepare
<1>4. CASE Spare # NoBundle /\ PetShown' = Spare /\ Spare' = PetShown
  BY <1>4 DEF Shows!Switch
<1>5. CASE up /\ UNCHANGED showVars
  BY <1>5, <1>3 DEF PetShown, ShownSlot
<1>6. up => PetShown = shown /\ Spare = BundleIn(Target)
  BY <1>1 DEF PetShown, ShownSlot, SlotsAgree, Target
<1>7. active # "none" => BundleIn(active) = shown
  BY <1>1, OneBundle DEF SlotsAgree, ActiveIsWhole
<1>8. CASE Activate
  <2>1. /\ Holds(Target, transfer.begin) /\ transfer.begin \in Bundles /\ up /\ up'
        /\ active' = Target /\ shown' = transfer.begin /\ flash' = flash
    BY <1>1, <1>8 DEF Activate, Working, SlotsAgree, Phases, Committing
  <2>2. Spare = transfer.begin /\ Spare # NoBundle /\ PetShown' = transfer.begin
    BY <1>1, <1>6, <2>1, OneBundle, Opposite, PetAssumption
    DEF PetShown, ShownSlot, PetTypeOK, Slots
  <2>3. Inactive(ShownSlot)' = Inactive(Target)
    BY <2>1 DEF ShownSlot
  <2>4. Spare' = BundleIn(Inactive(Target))
    BY <2>1, <2>3, SpareAfter, SameSlot
  <2>5. BundleIn(Inactive(Target)) = shown
    BY <1>1, <1>7, <2>1, Opposite DEF PetTypeOK, SlotsAgree, Target, Inactive
  <2> QED
    BY <1>4, <1>6, <2>1, <2>2, <2>4, <2>5
<1>9. CASE PowerLoss
  <2>1. up /\ ~up' /\ flash' = flash /\ nvsSlot' = nvsSlot
    BY <1>9 DEF PowerLoss
  <2>2. BootSlot' = BootSlot /\ BundleIn(BootSlot)' = BundleIn(BootSlot)
    BY <2>1, BootAfter
  <2>3. PetShown' = IF BootSlot = "none" THEN NoBundle ELSE BundleIn(BootSlot)
    BY <2>1, <2>2 DEF PetShown, ShownSlot
  <2>4. Inactive(ShownSlot)' = Inactive(BootSlot)
    BY <2>1, <2>2 DEF ShownSlot
  <2>5. Spare' = BundleIn(Inactive(BootSlot))
    BY <2>1, <2>4, SpareAfter, SameSlot
  <2>6. CASE BootSlot = active
    BY <1>3, <1>6, <1>7, <2>1, <2>3, <2>6 DEF PetShown, ShownSlot
  <2>7. CASE BootSlot # active
    <3>1. BootSlot = Target /\ BundleIn(Inactive(BootSlot)) = shown
      <4>1. CASE active = "none"
        BY <1>1, <2>1, <2>7, <4>1, BootSlotIsWhole
        DEF SlotsAgree, Target, Inactive, Slots
      <4>2. CASE active # "none"
        <5>1. active \in Slots /\ BundleIn(active) # NoBundle
          BY <1>1, <1>7, <4>2, PetAssumption DEF PetTypeOK, SlotsAgree, ActiveIsWhole
        <5> QED
          BY <1>7, <2>7, <4>2, <5>1, BootSlotIsWhole DEF Target, Inactive, Slots
      <4> QED
        BY <4>1, <4>2
    <3>2. BootSlot # "none" /\ BundleIn(BootSlot) # NoBundle
      BY <3>1, BootSlotIsWhole, Opposite, <1>1 DEF PetTypeOK, Slots
    <3> QED
      BY <1>4, <1>6, <2>1, <2>3, <2>5, <3>1, <3>2
  <2> QED
    BY <2>6, <2>7
<1>10. CASE ~up
  <2>1. CASE Initialize
    <3>1. /\ up' /\ active' = BootSlot
          /\ shown' = IF BootSlot = "none" THEN NoBundle ELSE BundleIn(BootSlot)
      BY <2>1 DEF Initialize
    <3> QED
      BY <1>3, <1>10, <3>1 DEF PetShown, ShownSlot
  <2>2. CASE InitializeFails \/ UNCHANGED storeVars
    <3>1. /\ ~up' /\ flash' = flash
          /\ nvsSlot' = nvsSlot \/ nvsSlot' = BootSlot
      BY <1>10, <2>2 DEF InitializeFails, storeVars
    <3> QED
      BY <1>3, <1>10, <3>1, BootAfter DEF PetShown, ShownSlot
  <2>3. CASE TimeOut \/ Collect
    <3>1. ~up' /\ flash' = flash /\ nvsSlot' = nvsSlot
      BY <1>10, <2>3 DEF TimeOut, Collect
    <3> QED
      BY <1>3, <1>10, <3>1, BootAfter DEF PetShown, ShownSlot
  <2>4. ~Call /\ ~PowerLoss
    BY <1>1, <1>10, CallMails DEF Submit, Refuse, PowerLoss
  <2>5. \A id \in Ids : ~UploadTask(id)
    BY <1>1, <1>10 DEF UploadTask, TakeBegin, TakeAppend, TakeCommit, Take, Release, Erase,
       EraseFails, Write, WriteFails, Validate, Persist, PersistFails, Activate, Working
  <2> QED
    BY <1>10, <2>1, <2>2, <2>3, <2>4, <2>5 DEF StoreNext
<1>11. CASE up /\ ~Activate /\ ~PowerLoss
  <2>1. CASE Call
    BY <1>1, <1>5, <1>11, <2>1, CallMails DEF Submit, Refuse
  <2>2. CASE TimeOut \/ Collect \/ UNCHANGED storeVars
    BY <1>5, <1>11, <2>2 DEF TimeOut, Collect, storeVars
  <2>3. ASSUME NEW id \in Ids, UploadTask(id)
        PROVE  UNCHANGED showVars
    BY <1>11, <2>3 DEF UploadTask, TakeBegin, TakeAppend, TakeCommit, Release, Erase,
       EraseFails, Write, WriteFails, Validate, Persist, PersistFails
  <2>4. ~Initialize /\ ~InitializeFails
    BY <1>11 DEF Initialize, InitializeFails
  <2> QED
    BY <1>5, <1>11, <2>1, <2>2, <2>3, <2>4 DEF StoreNext
<1> QED
  BY <1>8, <1>9, <1>10, <1>11

\* The store keeps its promise: the device goes from one whole pet to another in one step
\* that leaves the old one in flash, a power cut in the middle of a commit included.
THEOREM StoreImplementsPetOnShow == StoreSpec => ImplementsPetOnShow
<1>1. StoreInit => Shows!Init
  BY ShowsInit
<1>2. SlotTypes
  BY SlotsHoldBundles
<1>3. IInv /\ SlotTypes' /\ [StoreNext]_storeVars
        => [Shows!Prepare \/ Shows!Switch]_<<PetShown, BundleIn(Inactive(ShownSlot))>>
  BY ShowsStep
<1> QED
  BY <1>1, <1>2, <1>3, Inductive, PTL DEF StoreSpec, ImplementsPetOnShow, Shows!Spec

\* No upload harms the pet on show or the next upload, however it ends (upload_task and the
\* commands it carries out).
THEOREM StoreStaysSafe == StoreSpec => []StoreIsSafe
<1>1. ActiveIsWhole /\ ReceivedIsWritten /\ MailboxIsReleased /\ RestartKeepsShown => StoreIsSafe
  BY DEF StoreIsSafe
<1> QED
  BY ShownPetIsWhole, RestartShowsTheSame, ReceivedChunksAreWritten, MailboxIsNotLost, <1>1, PTL

----------------------------------------------------------------------------
(* The agent and the web task                                                 *)

Agents == [stage : Stages, waiting : BOOLEAN, bundle : Bundles \cup {NoBundle},
           id : Ids \cup {NoId}, offset : Nat, synced : Bundles \cup {NoBundle},
           ok : BOOLEAN]

AgentKnows ==
    /\ agent \in Agents /\ selected \in Bundles
    /\ agent.stage # "idle" => agent.bundle \in Bundles
    /\ agent.stage \in {"put", "recheck", "again"} =>
         agent.id \in Ids /\ agent.offset < Length[agent.bundle]
    /\ agent.stage = "commit" => agent.id \in Ids

WebRequests == [kind : {"none", "status", "begin", "append", "commit"},
                bundle : Bundles \cup {NoBundle}, id : Ids \cup {NoId},
                chunk : Chunks \cup {Blank}, live : BOOLEAN]

IsRequest(r) ==
    /\ r \in WebRequests
    /\ r.kind = "begin" => r.bundle \in Bundles
    /\ r.kind = "append" => r.id \in Ids /\ r.chunk \in Chunks
    /\ r.kind = "commit" => r.id \in Ids

\* The request the agent waits for is the one of the stage it is in.
Live(r) == r.live /\ r.kind # "none"
Expects(r) ==
    /\ agent.waiting
    /\ r.kind = "status" => agent.stage \in {"status", "recheck", "commit"}
    /\ r.kind = "begin" => agent.stage = "begin"
    /\ r.kind = "commit" => agent.stage = "commit"
    /\ r.kind = "append" =>
         /\ agent.stage \in {"put", "again"}
         /\ r.id = agent.id /\ r.chunk = Chunk(agent.bundle, agent.offset + 1)

InboxIsSound ==
    /\ \A r \in inbox : IsRequest(r) /\ (Live(r) => Expects(r))
    /\ \A r, q \in inbox : Live(r) /\ Live(q) => q = r
ServingIsSound ==
    /\ IsRequest(serving) /\ (Live(serving) => Expects(serving))
    /\ Live(serving) => \A r \in inbox : ~Live(r)

\* The mailbox holds what the request being served has put there, or nothing.
Waits ==
    caller = "waiting" =>
        /\ IsCommand
        /\ queue = "append" /\ serving.kind = "append" =>
             mailbox.id = serving.id /\ mailbox.chunk \in {serving.chunk, Blank}

TransferKnown ==
    /\ transfer.active => transfer.id \in Ids
    /\ transfer.previous # Blank => transfer.previous.index = transfer.received

NotAhead == agent.id # NoId /\ agent.id = transfer.id => agent.offset <= transfer.received

\* An answer that is ready says no more than the transaction does, also when it is that of
\* an earlier command whose caller has given up.
Heard ==
    (/\ caller = "waiting" /\ completion /\ commandResult = "ok"
     /\ serving.kind = "append" /\ Live(serving) /\ agent.id = transfer.id)
      => agent.offset + 1 <= transfer.received

SyncInv ==
    /\ IInv /\ AgentKnows /\ InboxIsSound /\ ServingIsSound
    /\ Waits /\ TransferKnown /\ NotAhead /\ Heard

LEMMA SyncStarts == SyncInit => SyncInv
<1> SUFFICES ASSUME SyncInit PROVE SyncInv
  OBVIOUS
<1>1. IInv
  BY StoreStarts DEF SyncInit
<1>2. AgentKnows
  BY DEF SyncInit, AgentKnows, Agents, NewAgent, Stages, NoId
<1>3. IsRequest(NoRequest) /\ NoRequest.kind = "none"
  BY DEF NoRequest, Request, IsRequest, WebRequests
<1>4. InboxIsSound /\ ServingIsSound
  BY <1>3 DEF SyncInit, InboxIsSound, ServingIsSound, Live
<1>5. Waits /\ TransferKnown /\ NotAhead /\ Heard
  BY DEF SyncInit, StoreInit, NewAgent, Waits, TransferKnown, NotAhead, Heard, NoTransfer
<1> QED
  BY <1>1, <1>2, <1>4, <1>5 DEF SyncInv

\* A fault of the link is not one of the store.
LEMMA LinkFault ==
  ASSUME IInv, Abandon
  PROVE  IInv' /\ UNCHANGED <<PetShown, BundleIn(Inactive(ShownSlot))>>
<1>1. /\ UNCHANGED <<flash, nvsSlot, doubt, up, active, shown, transfer, mailbox, queue,
                    completion, commandActive, commandResult, receipt, caller, task>>
      /\ faults < FaultLimit /\ faults' = faults + 1
  BY DEF Abandon, Fault, flashVars, nvsVars, showVars, commandVars
<1>2. PetTypeOK'
  BY <1>1, PetAssumption DEF IInv, PetTypeOK
<1> QED
  BY <1>1, <1>2
     DEF IInv, Phases, SlotsAgree, Recorded, Awaited, MailboxIsReleased, ReceivedIsWritten,
         ActiveIsWhole, Holds, BundleIn, Target, AtWork, Committing, ShownSlot, BootSlot,
         PetShown

\* Every other step is one of the store, called by the web task, or leaves it alone.
LEMMA CallIsStep ==
  ASSUME SyncInv, Handle \/ HandleRefused
  PROVE  Call
<1>1. /\ serving.kind = "begin" => serving.bundle \in Bundles
      /\ serving.kind = "append" => serving.id \in Ids /\ serving.chunk \in Chunks
      /\ serving.kind = "commit" => serving.id \in Ids
  BY DEF SyncInv, ServingIsSound, IsRequest
<1>2. IsCommand /\ (Submit(serving.kind, Mail(serving)) \/ Refuse(serving.kind, Mail(serving)))
  BY DEF Handle, HandleRefused
<1>3. CASE serving.kind = "begin"
  BY <1>1, <1>2, <1>3 DEF Mail, Call
<1>4. CASE serving.kind = "append"
  BY <1>1, <1>2, <1>4 DEF Mail, Call
<1>5. CASE serving.kind = "commit"
  BY <1>1, <1>2, <1>5 DEF Mail, Call
<1> QED
  BY <1>2, <1>3, <1>4, <1>5 DEF IsCommand

LEMMA SyncStep ==
  ASSUME SyncInv, [SyncNext]_vars
  PROVE  [StoreNext]_storeVars \/ Abandon
<1>1. Handle \/ HandleRefused => StoreNext
  BY CallIsStep DEF StoreNext
<1>2. HandleTimesOut \/ HandleAnswered \/ PowerCut \/ Restart \/ NoStore => StoreNext
  BY DEF HandleTimesOut, HandleAnswered, PowerCut, Restart, NoStore, StoreNext
<1>3. Upload => StoreNext
  BY DEF Upload, StoreNext
<1>4. AgentStep \/ Select \/ Status \/ StatusTimesOut \/ (\E r \in inbox : Accept(r))
        => UNCHANGED storeVars
  BY DEF AgentStep, Synchronize, Send, NoAnswer, Select, Status, StatusTimesOut, Accept
<1>5. UNCHANGED vars => UNCHANGED storeVars
  BY DEF vars
<1> QED
  BY <1>1, <1>2, <1>3, <1>4, <1>5 DEF SyncNext, WebStep

LEMMA StoreKept ==
  ASSUME SyncInv, [SyncNext]_vars PROVE IInv'
BY SyncStep, StoreKeeps, LinkFault DEF SyncInv

----------------------------------------------------------------------------
(* What the agent does with an answer                                         *)

LEMMA Lengths == \A b \in Bundles : Length[b] \in 1 .. Capacity
BY PetAssumption

\* A new offset is one the transaction has reached.
LEMMA SendKnows ==
  ASSUME NEW a \in Agents, a.bundle \in Bundles, a.id \in Ids, NEW offset \in Nat,
         agent' = SendFrom(a, offset), UNCHANGED <<transfer, selected>>, selected \in Bundles,
         a.id = transfer.id => offset <= transfer.received
  PROVE  AgentKnows' /\ NotAhead' /\ ~agent'.waiting
<1>1. agent' = [a EXCEPT !.stage = IF offset < Length[a.bundle] THEN "put" ELSE "commit",
                        !.waiting = FALSE, !.offset = offset]
  BY DEF SendFrom, GoTo, Agents
<1>2. /\ agent' \in Agents /\ ~agent'.waiting /\ agent'.offset = offset
      /\ agent'.id = a.id /\ agent'.bundle = a.bundle
      /\ agent'.stage = IF offset < Length[a.bundle] THEN "put" ELSE "commit"
  BY <1>1 DEF Agents, Stages
<1> QED
  BY <1>2 DEF AgentKnows, NotAhead

LEMMA EndKnows ==
  ASSUME NEW a \in Agents, agent' = Succeeds(a) \/ agent' = Fails(a),
         UNCHANGED <<transfer, selected>>, selected \in Bundles
  PROVE  AgentKnows' /\ NotAhead' /\ ~agent'.waiting
<1>1. /\ agent' \in Agents /\ ~agent'.waiting /\ agent'.stage = "idle" /\ agent'.id = NoId
  <2> DEFINE e == Ended(a)
  <2>1. /\ e \in Agents /\ e.waiting = FALSE /\ e.stage = "idle" /\ e.id = NoId
    BY DEF Ended, Agents, Stages, NoId
  <2>2. agent' = [e EXCEPT !.ok = TRUE, !.synced = a.bundle] \/ agent' = [e EXCEPT !.ok = FALSE]
    BY DEF Succeeds, Fails
  <2>3. a.bundle \in Bundles \cup {NoBundle}
    BY DEF Agents
  <2> HIDE DEF e
  <2> QED
    BY <2>1, <2>2, <2>3 DEF Agents
<1> QED
  BY <1>1 DEF AgentKnows, NotAhead

LEMMA GoKnows ==
  ASSUME AgentKnows, NotAhead, UNCHANGED <<transfer, selected>>,
         NEW stage \in Stages, agent' = GoTo(agent, stage), agent.stage # "idle",
         stage \in {"put", "recheck", "again"} => agent.stage \in {"put", "recheck", "again"},
         stage = "commit" => agent.id \in Ids
  PROVE  AgentKnows' /\ NotAhead' /\ ~agent'.waiting
<1>1. /\ agent' \in Agents /\ ~agent'.waiting /\ agent'.stage = stage
      /\ agent'.id = agent.id /\ agent'.bundle = agent.bundle /\ agent'.offset = agent.offset
  BY DEF AgentKnows, Agents, GoTo
<1> QED
  BY <1>1 DEF AgentKnows, NotAhead

LEMMA ErrorKnows ==
  ASSUME AgentKnows, NotAhead, UNCHANGED <<transfer, selected>>, agent' = AfterError(agent)
  PROVE  AgentKnows' /\ NotAhead' /\ ~agent'.waiting
<1>1. agent \in Agents /\ selected \in Bundles
  BY DEF AgentKnows
<1>2. CASE agent.stage = "put"
  <2>1. agent' = GoTo(agent, "recheck")
    BY <1>2 DEF AfterError
  <2> QED
    BY <1>2, <2>1, GoKnows DEF Stages
<1>3. CASE agent.stage = "recheck"
  <2>1. agent' = GoTo(agent, "again")
    BY <1>3 DEF AfterError
  <2> QED
    BY <1>3, <2>1, GoKnows DEF Stages
<1>4. CASE agent.stage \notin {"put", "recheck"}
  <2>1. agent' = Fails(agent)
    BY <1>4 DEF AfterError
  <2> QED
    BY <1>1, <2>1, EndKnows
<1> QED
  BY <1>2, <1>3, <1>4

LEMMA StatusKnows ==
  ASSUME IInv, AgentKnows, NotAhead, TransferKnown, UNCHANGED <<transfer, selected>>,
         agent.stage = "status", agent' = AfterStatus(agent, Report)
  PROVE  AgentKnows' /\ NotAhead' /\ ~agent'.waiting
<1>1. /\ agent \in Agents /\ selected \in Bundles /\ agent.bundle \in Bundles
      /\ transfer \in Transfers
  BY DEF AgentKnows, IInv, PetTypeOK
<1>2. CASE agent' = Succeeds(agent)
  BY <1>1, <1>2, EndKnows
<1>3. CASE agent' = GoTo(agent, "begin")
  BY <1>3, GoKnows DEF Stages
<1>4. CASE /\ transfer.active
           /\ agent' = SendFrom([agent EXCEPT !.id = transfer.id], transfer.received)
  <2> DEFINE a == [agent EXCEPT !.id = transfer.id]
  <2>1. transfer.id \in Ids /\ transfer.received \in Nat
    BY <1>1, <1>4, PetAssumption DEF TransferKnown, Transfers
  <2>2. a \in Agents /\ a.bundle \in Bundles /\ a.id = transfer.id
    BY <1>1, <2>1 DEF Agents
  <2>3. agent' = SendFrom(a, transfer.received)
    BY <1>4
  <2>4. transfer.received <= transfer.received
    BY <2>1
  <2> HIDE DEF a
  <2> QED
    BY <1>1, <2>1, <2>2, <2>3, <2>4, SendKnows
<1> QED
  BY <1>2, <1>3, <1>4 DEF AfterStatus, Report

LEMMA RecheckKnows ==
  ASSUME IInv, AgentKnows, NotAhead, UNCHANGED <<transfer, selected>>,
         agent.stage = "recheck", agent' = AfterRecheck(agent, Report)
  PROVE  AgentKnows' /\ NotAhead' /\ ~agent'.waiting
<1>1. /\ agent \in Agents /\ selected \in Bundles /\ agent.bundle \in Bundles
      /\ agent.id \in Ids /\ transfer \in Transfers
  BY DEF AgentKnows, IInv, PetTypeOK
<1>2. CASE agent' = GoTo(agent, "again")
  BY <1>2, GoKnows DEF Stages
<1>3. CASE agent' = SendFrom(agent, transfer.received)
  <2>1. transfer.received \in Nat /\ transfer.received <= transfer.received
    BY <1>1, PetAssumption DEF Transfers
  <2> QED
    BY <1>1, <1>3, <2>1, SendKnows
<1> QED
  BY <1>2, <1>3 DEF AfterRecheck, Report

LEMMA BeginKnows ==
  ASSUME IInv, AgentKnows, NotAhead, UNCHANGED <<transfer, selected>>,
         agent.stage = "begin", agent' = AfterBegin(agent)
  PROVE  AgentKnows' /\ NotAhead' /\ ~agent'.waiting
<1>1. /\ agent \in Agents /\ selected \in Bundles /\ agent.bundle \in Bundles
      /\ receipt \in Ids \cup {NoId} /\ transfer.received \in Nat
  BY PetAssumption DEF AgentKnows, IInv, PetTypeOK, Transfers
<1>2. CASE receipt = NoId
  BY <1>1, <1>2, EndKnows DEF AfterBegin
<1>3. CASE receipt # NoId
  <2> DEFINE a == [agent EXCEPT !.id = receipt]
  <2>1. a \in Agents /\ a.bundle \in Bundles /\ a.id \in Ids
    BY <1>1, <1>3 DEF Agents
  <2>2. agent' = SendFrom(a, 0) /\ 0 <= transfer.received
    BY <1>1, <1>3 DEF AfterBegin
  <2> HIDE DEF a
  <2> QED
    BY <1>1, <2>1, <2>2, SendKnows
<1> QED
  BY <1>2, <1>3

\* Whatever it is told, the agent is not ahead of the store afterwards.
LEMMA AnswerKnows ==
  ASSUME IInv, AgentKnows, NotAhead, TransferKnown, UNCHANGED <<transfer, selected>>,
         agent.stage # "idle", agent' = AfterAnswer(agent, Report),
         agent.stage \in {"put", "again"} /\ agent.id = transfer.id
           => agent.offset + 1 <= transfer.received
  PROVE  AgentKnows' /\ NotAhead' /\ ~agent'.waiting
<1>1. agent \in Agents /\ selected \in Bundles /\ agent.bundle \in Bundles
  BY DEF AgentKnows
<1>2. CASE agent.stage = "status"
  BY <1>2, StatusKnows DEF AfterAnswer
<1>3. CASE agent.stage = "recheck"
  BY <1>3, RecheckKnows DEF AfterAnswer
<1>4. CASE agent.stage = "begin"
  BY <1>4, BeginKnows DEF AfterAnswer
<1>5. CASE agent.stage = "commit"
  BY <1>1, <1>5, EndKnows DEF AfterAnswer, AfterCommit
<1>6. CASE agent.stage \in {"put", "again"}
  <2>1. agent.id \in Ids /\ agent.offset + 1 \in Nat
    BY <1>1, <1>6 DEF AgentKnows, Agents
  <2>2. agent' = SendFrom(agent, agent.offset + 1)
    BY <1>6 DEF AfterAnswer
  <2> QED
    BY <1>1, <1>6, <2>1, <2>2, SendKnows
<1> QED
  BY <1>1, <1>2, <1>3, <1>4, <1>5, <1>6 DEF Agents, Stages

----------------------------------------------------------------------------
(* The steps of the agent                                                     *)

\* A request that waits in the inbox or is served stays expected while the agent waits.
LEMMA SameAgent ==
  ASSUME InboxIsSound, UNCHANGED agent, inbox' \subseteq inbox
  PROVE  InboxIsSound'
BY DEF InboxIsSound, IsRequest, Live, Expects

\* An agent that does not wait has no request on its way.
LEMMA NobodyWaits ==
  ASSUME InboxIsSound, ServingIsSound, ~agent.waiting
  PROVE  ~Live(serving) /\ \A r \in inbox : ~Live(r)
BY DEF InboxIsSound, ServingIsSound, Expects

LEMMA ThisIsRequest ==
  ASSUME AgentKnows, agent.stage # "idle", ~agent.waiting,
         agent' = [agent EXCEPT !.waiting = TRUE]
  PROVE  IsRequest(ThisRequest) /\ Live(ThisRequest) /\ Expects(ThisRequest)'
<1>1. /\ agent \in Agents /\ agent.bundle \in Bundles /\ agent.stage \in Stages
      /\ agent'.waiting /\ agent'.stage = agent.stage /\ agent'.id = agent.id
      /\ agent'.bundle = agent.bundle /\ agent'.offset = agent.offset
  BY DEF AgentKnows, Agents
<1>2. NoId \in Ids \cup {NoId} /\ Blank \in Chunks \cup {Blank} /\ NoBundle \in Bundles \cup {NoBundle}
  OBVIOUS
<1>3. CASE agent.stage \in {"status", "recheck"}
  <2>1. ThisRequest = Request("status", NoBundle, NoId, Blank)
    BY <1>3 DEF ThisRequest
  <2>2. ThisRequest' = Request("status", NoBundle, NoId, Blank)
    BY <1>1, <1>3 DEF ThisRequest
  <2> QED
    BY <1>1, <1>2, <1>3, <2>1, <2>2 DEF Request, IsRequest, WebRequests, Live, Expects
<1>4. CASE agent.stage = "begin"
  <2>1. ThisRequest = Request("begin", agent.bundle, NoId, Blank)
    BY <1>4 DEF ThisRequest
  <2>2. ThisRequest' = Request("begin", agent.bundle, NoId, Blank)
    BY <1>1, <1>4 DEF ThisRequest
  <2> QED
    BY <1>1, <1>2, <1>4, <2>1, <2>2 DEF Request, IsRequest, WebRequests, Live, Expects
<1>5. CASE agent.stage = "commit"
  <2>1. ThisRequest = Request("commit", NoBundle, agent.id, Blank)
    BY <1>5 DEF ThisRequest
  <2>2. ThisRequest' = Request("commit", NoBundle, agent.id, Blank)
    BY <1>1, <1>5 DEF ThisRequest
  <2>3. agent.id \in Ids
    BY <1>5 DEF AgentKnows
  <2> QED
    BY <1>1, <1>2, <1>5, <2>1, <2>2, <2>3 DEF Request, IsRequest, WebRequests, Live, Expects
<1>6. CASE agent.stage \in {"put", "again"}
  <2> DEFINE c == Chunk(agent.bundle, agent.offset + 1)
  <2>1. ThisRequest = Request("append", NoBundle, agent.id, c)
    BY <1>6 DEF ThisRequest
  <2>2. ThisRequest' = Request("append", NoBundle, agent.id, c)
    BY <1>1, <1>6 DEF ThisRequest
  <2>3. agent.id \in Ids /\ agent.offset < Length[agent.bundle] /\ agent.offset \in Nat
    BY <1>1, <1>6 DEF AgentKnows, Agents
  <2>4. agent.offset + 1 \in 1 .. Capacity
    BY <1>1, <2>3, Lengths, PetAssumption
  <2>5. c \in Chunks
    BY <1>1, <2>4 DEF Chunks
  <2>6. c = Chunk(agent'.bundle, agent'.offset + 1)
    BY <1>1
  <2> HIDE DEF c
  <2> QED
    BY <1>1, <1>2, <1>6, <2>1, <2>2, <2>3, <2>5, <2>6
       DEF Request, IsRequest, WebRequests, Live, Expects
<1> QED
  BY <1>1, <1>3, <1>4, <1>5, <1>6 DEF Stages

Others == InboxIsSound /\ ServingIsSound /\ Waits /\ TransferKnown /\ Heard

LEMMA SelectKeeps ==
  ASSUME SyncInv, Select \/ Synchronize
  PROVE  AgentKnows' /\ NotAhead' /\ Others'
<1>1. /\ UNCHANGED <<transfer, caller, queue, mailbox, completion, commandResult, inbox, serving>>
      /\ selected' \in Bundles
  BY DEF SyncInv, AgentKnows, Select, Synchronize, storeVars, commandVars, webVars
<1>2. CASE Select
  <2>1. UNCHANGED agent
    BY <1>2 DEF Select
  <2> QED
    BY <1>1, <2>1
       DEF SyncInv, AgentKnows, NotAhead, Others, InboxIsSound, ServingIsSound, IsRequest,
           Live, Expects, Waits, IsCommand, TransferKnown, Heard
<1>3. CASE Synchronize
  <2>1. agent \in Agents /\ agent.stage = "idle"
    BY <1>3 DEF Synchronize, SyncInv, AgentKnows
  <2>2. /\ agent' \in Agents /\ agent'.stage = "status" /\ agent'.bundle \in Bundles
        /\ agent'.id = agent.id /\ agent'.offset = agent.offset
    BY <1>3, <2>1 DEF Synchronize, GoTo, Agents, Stages, SyncInv, AgentKnows
  <2>3. ~Live(serving) /\ \A r \in inbox : ~Live(r)
    BY <2>1 DEF SyncInv, InboxIsSound, ServingIsSound, Expects, Live, IsRequest, WebRequests
  <2> QED
    BY <1>1, <2>1, <2>2, <2>3
       DEF SyncInv, AgentKnows, NotAhead, Others, InboxIsSound, ServingIsSound, IsRequest,
           Live, Waits, IsCommand, TransferKnown, Heard
<1> QED
  BY <1>2, <1>3

LEMMA SendKeeps ==
  ASSUME SyncInv, Send
  PROVE  AgentKnows' /\ NotAhead' /\ Others'
<1>1. /\ UNCHANGED <<transfer, caller, queue, mailbox, completion, commandResult, serving>>
      /\ selected' = selected /\ agent' = [agent EXCEPT !.waiting = TRUE]
      /\ inbox' \subseteq inbox \cup {ThisRequest}
      /\ agent.stage # "idle" /\ ~agent.waiting
  BY DEF Send, storeVars, commandVars
<1>2. /\ agent' \in Agents /\ agent'.stage = agent.stage /\ agent'.bundle = agent.bundle
      /\ agent'.id = agent.id /\ agent'.offset = agent.offset
  BY <1>1 DEF SyncInv, AgentKnows, Agents
<1>3. AgentKnows' /\ NotAhead'
  BY <1>1, <1>2 DEF SyncInv, AgentKnows, NotAhead
<1>4. ~Live(serving) /\ \A r \in inbox : ~Live(r)
  BY <1>1, NobodyWaits DEF SyncInv
<1>5. IsRequest(ThisRequest) /\ Live(ThisRequest) /\ Expects(ThisRequest)'
  BY <1>1, ThisIsRequest DEF SyncInv
<1>6. ThisRequest' = ThisRequest
  BY <1>1, <1>2 DEF ThisRequest
<1>7. InboxIsSound'
  BY <1>1, <1>4, <1>5, <1>6 DEF SyncInv, InboxIsSound, IsRequest, Live, Expects
<1>8. ServingIsSound' /\ Waits' /\ TransferKnown' /\ Heard'
  BY <1>1, <1>4
     DEF SyncInv, ServingIsSound, IsRequest, Live, Waits, IsCommand, TransferKnown, Heard
<1> QED
  BY <1>3, <1>7, <1>8 DEF Others

\* The agent gives up, or nobody has its request any more.
LEMMA GiveUpKeeps ==
  ASSUME SyncInv, Abandon \/ NoAnswer
  PROVE  AgentKnows' /\ NotAhead' /\ Others'
<1>1. /\ UNCHANGED <<transfer, caller, queue, mailbox, completion, commandResult, selected>>
      /\ agent' = AfterError(agent)
  BY DEF Abandon, NoAnswer, storeVars, commandVars
<1>2. AgentKnows' /\ NotAhead' /\ ~agent'.waiting
  BY <1>1, ErrorKnows DEF SyncInv
<1>3. /\ IsRequest(serving') /\ ~Live(serving') /\ serving'.kind = serving.kind
      /\ serving'.id = serving.id /\ serving'.chunk = serving.chunk
      /\ \A r \in inbox' : IsRequest(r) /\ ~Live(r)
  <2>1. IsRequest(serving) /\ \A r \in inbox : IsRequest(r)
    BY DEF SyncInv, ServingIsSound, InboxIsSound
  <2>2. CASE Abandon
    <3>1. \A r : IsRequest(r) =>
            /\ IsRequest(Unheard(r)) /\ ~Live(Unheard(r)) /\ Unheard(r).kind = r.kind
            /\ Unheard(r).id = r.id /\ Unheard(r).chunk = r.chunk
      BY DEF IsRequest, WebRequests, Unheard, Live
    <3>2. serving' = IF serving.kind = "none" THEN serving ELSE Unheard(serving)
      BY <2>2 DEF Abandon
    <3>3. \A q \in inbox' : \E r \in inbox : q = (IF r.live THEN Unheard(r) ELSE r)
      BY <2>2 DEF Abandon
    <3>4. \A r \in inbox' : IsRequest(r) /\ ~Live(r)
      BY <2>1, <3>1, <3>3 DEF Live
    <3> QED
      BY <2>1, <3>1, <3>2, <3>4 DEF Live
  <2>3. CASE NoAnswer
    <3>1. UNCHANGED <<inbox, serving>>
      BY <2>3 DEF NoAnswer, webVars
    <3>2. ~Live(serving) /\ \A r \in inbox : ~Live(r)
      BY <2>3 DEF NoAnswer, Live
    <3> QED
      BY <2>1, <3>1, <3>2
  <2> QED
    BY <2>2, <2>3
<1>4. InboxIsSound' /\ ServingIsSound'
  BY <1>3 DEF InboxIsSound, ServingIsSound, IsRequest, Live
<1>5. Waits' /\ TransferKnown' /\ Heard'
  BY <1>1, <1>3 DEF SyncInv, Waits, IsCommand, TransferKnown, Heard, Live
<1> QED
  BY <1>2, <1>4, <1>5 DEF Others

----------------------------------------------------------------------------
(* The steps of the web task                                                  *)

LEMMA NothingServed ==
  /\ NoRequest.kind = "none" /\ IsRequest(NoRequest) /\ ~Live(NoRequest)
BY DEF NoRequest, Request, IsRequest, WebRequests, Live

LEMMA AcceptKeeps ==
  ASSUME SyncInv, NEW r \in inbox, Accept(r)
  PROVE  AgentKnows' /\ NotAhead' /\ Others'
<1>1. /\ UNCHANGED <<transfer, caller, queue, mailbox, completion, commandResult>>
      /\ UNCHANGED <<selected, agent>> /\ inbox' = inbox \ {r} /\ serving' = r
      /\ serving.kind = "none"
  BY DEF Accept, storeVars, commandVars, agentVars
<1>2. caller # "waiting"
  BY <1>1 DEF SyncInv, Waits, IsCommand
<1>3. InboxIsSound' /\ ServingIsSound'
  BY <1>1 DEF SyncInv, InboxIsSound, ServingIsSound, IsRequest, Live, Expects
<1> QED
  BY <1>1, <1>2, <1>3 DEF SyncInv, AgentKnows, NotAhead, Others, Waits, TransferKnown, Heard

\* The request being served is over, and the agent has heard of it if it still waited.
LEMMA ServedKeeps ==
  ASSUME SyncInv, Done, UNCHANGED transfer, caller' # "waiting", serving.kind # "none",
         \/ Errors(serving)
         \/ Answered(serving, Report) /\
              (Live(serving) /\ serving.kind = "append" /\ agent.id = transfer.id
                 => agent.offset + 1 <= transfer.received)
  PROVE  AgentKnows' /\ NotAhead' /\ Others'
<1>1. serving' = NoRequest /\ UNCHANGED <<inbox, selected>>
  BY DEF Done
<1>2. ServingIsSound' /\ Waits' /\ TransferKnown' /\ Heard'
  BY <1>1, NothingServed
     DEF SyncInv, ServingIsSound, Waits, TransferKnown, Heard, IsRequest, Live
<1>3. CASE ~serving.live
  <2>1. UNCHANGED agent
    BY <1>3 DEF Errors, Answered
  <2>2. InboxIsSound'
    BY <1>1, <2>1, SameAgent DEF SyncInv
  <2> QED
    BY <1>1, <1>2, <2>1, <2>2 DEF SyncInv, AgentKnows, NotAhead, Others
<1>4. CASE serving.live
  <2>1. Live(serving) /\ Expects(serving) /\ \A r \in inbox : ~Live(r)
    BY <1>4 DEF Live, SyncInv, ServingIsSound
  <2>2. agent.stage # "idle" /\ (agent.stage \in {"put", "again"} => serving.kind = "append")
    BY <2>1 DEF Expects, SyncInv, ServingIsSound, IsRequest, WebRequests
  <2>3. AgentKnows' /\ NotAhead'
    <3>1. CASE Errors(serving)
      BY <1>1, <1>4, <3>1, ErrorKnows DEF Errors, SyncInv
    <3>2. CASE ~Errors(serving)
      BY <1>1, <1>4, <2>1, <2>2, <3>2, AnswerKnows DEF Answered, SyncInv
    <3> QED
      BY <3>1, <3>2
  <2>4. InboxIsSound'
    BY <1>1, <2>1 DEF SyncInv, InboxIsSound, IsRequest, Live
  <2> QED
    BY <1>2, <2>3, <2>4 DEF Others
<1> QED
  BY <1>3, <1>4 DEF SyncInv, ServingIsSound, IsRequest, WebRequests

LEMMA StatusKeeps ==
  ASSUME SyncInv, Status \/ StatusTimesOut
  PROVE  AgentKnows' /\ NotAhead' /\ Others'
<1>1. /\ serving.kind = "status" /\ Done /\ UNCHANGED <<transfer, caller>>
      /\ Answered(serving, Report) \/ Errors(serving)
  BY DEF Status, StatusTimesOut, storeVars
<1>2. caller' # "waiting"
  BY <1>1 DEF SyncInv, Waits, IsCommand
<1> QED
  BY <1>1, <1>2, ServedKeeps

LEMMA RefusedKeeps ==
  ASSUME SyncInv, HandleRefused \/ HandleTimesOut
  PROVE  AgentKnows' /\ NotAhead' /\ Others'
<1>1. CASE HandleRefused
  <2>1. /\ Done /\ Errors(serving) /\ UNCHANGED transfer /\ caller' = "free"
        /\ serving.kind # "none"
    BY <1>1 DEF HandleRefused, Refuse, IsCommand
  <2> QED
    BY <2>1, ServedKeeps
<1>2. CASE HandleTimesOut
  <2>1. /\ Done /\ Errors(serving) /\ UNCHANGED transfer /\ caller' = "free"
        /\ caller = "waiting"
    BY <1>2 DEF HandleTimesOut, TimeOut
  <2>2. serving.kind # "none"
    BY <2>1 DEF SyncInv, Waits, IsCommand
  <2> QED
    BY <2>1, <2>2, ServedKeeps
<1> QED
  BY <1>1, <1>2

LEMMA HandleKeeps ==
  ASSUME SyncInv, Handle
  PROVE  AgentKnows' /\ NotAhead' /\ Others'
<1>1. /\ IsCommand /\ UNCHANGED <<transfer, selected, agent, inbox, serving>>
      /\ queue' = serving.kind /\ completion' = FALSE
      /\ mailbox' = Mail(serving)
  BY DEF Handle, Submit, Post, agentVars, webVars
<1>2. serving.kind = "append" => mailbox'.id = serving.id /\ mailbox'.chunk = serving.chunk
  <2>1. mailbox \in Mails
    BY DEF SyncInv, IInv, PetTypeOK
  <2> QED
    BY <1>1, <2>1 DEF Mail, AppendMail, Mails
<1>3. InboxIsSound' /\ ServingIsSound'
  BY <1>1 DEF SyncInv, InboxIsSound, ServingIsSound, IsRequest, Live, Expects
<1> QED
  BY <1>1, <1>2, <1>3
     DEF SyncInv, AgentKnows, NotAhead, Others, Waits, IsCommand, TransferKnown, Heard

LEMMA AnsweredKeeps ==
  ASSUME SyncInv, HandleAnswered
  PROVE  AgentKnows' /\ NotAhead' /\ Others'
<1>1. /\ caller = "waiting" /\ completion /\ caller' = "free" /\ UNCHANGED transfer
  BY DEF HandleAnswered, Collect
<1>2. IsCommand
  BY <1>1 DEF SyncInv, Waits
<1>3. CASE commandResult # "ok"
  BY <1>1, <1>2, <1>3, ServedKeeps DEF HandleAnswered, IsCommand
<1>4. CASE commandResult = "ok" /\ serving.kind # "commit"
  <2>1. Answered(serving, Report) /\ Done
    BY <1>4 DEF HandleAnswered
  <2>2. Live(serving) /\ serving.kind = "append" /\ agent.id = transfer.id
          => agent.offset + 1 <= transfer.received
    BY <1>1, <1>4 DEF SyncInv, Heard
  <2>3. caller' # "waiting" /\ serving.kind # "none"
    BY <1>1, <1>2 DEF IsCommand
  <2> QED
    BY <1>1, <2>1, <2>2, <2>3, ServedKeeps
<1>5. CASE commandResult = "ok" /\ serving.kind = "commit"
  <2>1. /\ serving' = [serving EXCEPT !.kind = "status"] /\ UNCHANGED <<agent, selected, inbox>>
    BY <1>5 DEF HandleAnswered, agentVars
  <2>2. serving \in WebRequests
    BY DEF SyncInv, ServingIsSound, IsRequest
  <2>3. /\ serving' \in WebRequests /\ serving'.kind = "status" /\ serving'.live = serving.live
    BY <2>1, <2>2 DEF WebRequests
  <2>4. InboxIsSound' /\ ServingIsSound'
    BY <1>5, <2>1, <2>3
       DEF SyncInv, InboxIsSound, ServingIsSound, IsRequest, Live, Expects
  <2> QED
    BY <1>1, <2>1, <2>4
       DEF SyncInv, AgentKnows, NotAhead, Others, Waits, TransferKnown, Heard
<1> QED
  BY <1>3, <1>4, <1>5

----------------------------------------------------------------------------
(* The steps of the upload task                                               *)

\* An answer that is ok is an earlier one, or that of a chunk which is written already.
OkMeans ==
    completion' /\ commandResult' = "ok" =>
        \/ completion /\ commandResult = "ok"
        \/ /\ queue = "append" /\ mailbox.id = transfer.id
           /\ mailbox.chunk = transfer.previous /\ mailbox.chunk # Blank

\* What becomes of the transaction: it stays, ends, begins under a new id, or has one
\* chunk more.
Stays == UNCHANGED transfer /\ OkMeans
Begins(id) == transfer' = [active |-> TRUE, id |-> id, begin |-> mailbox.begin,
                           received |-> 0, previous |-> Blank]
Grows == /\ transfer'.active = transfer.active /\ transfer'.id = transfer.id
         /\ transfer'.received = transfer.received + 1
         /\ transfer'.previous.index = transfer'.received /\ transfer.active

LEMMA UploadDoes ==
  ASSUME IInv, NEW id \in Ids, UploadTask(id)
  PROVE  /\ caller' = caller /\ queue' \in {queue, "empty"}
         /\ mailbox'.id = mailbox.id /\ mailbox'.chunk \in {mailbox.chunk, Blank}
         /\ Stays \/ transfer' = NoTransfer \/ Begins(id) \/ Grows
<1>1. mailbox \in Mails /\ transfer \in Transfers /\ completion \in BOOLEAN
  BY DEF IInv, PetTypeOK
<1>2. ASSUME NEW result, Finish(result)
      PROVE  mailbox'.id = mailbox.id /\ mailbox'.chunk = Blank
  BY <1>1, <1>2 DEF Finish, Mails
<1>3. CASE TakeBegin \/ TakeCommit
  BY <1>2, <1>3 DEF TakeBegin, TakeCommit, Take, Start, Finish, Stays, OkMeans
<1>4. CASE TakeAppend
  BY <1>2, <1>4 DEF TakeAppend, Take, Start, Finish, Stays, OkMeans
<1>5. CASE Release \/ Persist
  BY <1>5 DEF Release, Persist, commandVars, Stays, OkMeans
<1>6. CASE Erase(id)
  BY <1>2, <1>6 DEF Erase, Begins
<1>7. CASE EraseFails \/ WriteFails
  BY <1>2, <1>7 DEF EraseFails, WriteFails, Finish, Stays, OkMeans
<1>8. CASE Write
  <2>1. /\ transfer' = [transfer EXCEPT !.received = task.chunk.index, !.previous = task.chunk]
        /\ Finish("ok") /\ UNCHANGED <<queue, caller>> /\ task.stage = "write"
    BY <1>8 DEF Write, Working
  <2>2. task.chunk.index = transfer.received + 1 /\ transfer.active
    BY <2>1 DEF IInv, Phases
  <2> QED
    BY <1>1, <1>2, <2>1, <2>2 DEF Transfers, Grows
<1>9. CASE Validate \/ PersistFails \/ Activate
  BY <1>2, <1>9 DEF Validate, PersistFails, Activate, GiveUp, Stays, OkMeans
<1> QED
  BY <1>3, <1>4, <1>5, <1>6, <1>7, <1>8, <1>9 DEF UploadTask

LEMMA UploadKeeps ==
  ASSUME SyncInv, Upload
  PROVE  AgentKnows' /\ NotAhead' /\ Others'
<1>1. PICK id \in Ids : NewId(id) /\ UploadTask(id)
  BY DEF Upload
<1>2. id # agent.id /\ UNCHANGED <<selected, agent, inbox, serving>>
  BY <1>1 DEF Upload, NewId, Held, agentVars, webVars
<1>3. AgentKnows' /\ InboxIsSound' /\ ServingIsSound'
  BY <1>2
     DEF SyncInv, AgentKnows, InboxIsSound, ServingIsSound, IsRequest, Live, Expects
<1>4. /\ caller' = caller /\ queue' \in {queue, "empty"}
      /\ mailbox'.id = mailbox.id /\ mailbox'.chunk \in {mailbox.chunk, Blank}
      /\ Stays \/ transfer' = NoTransfer \/ Begins(id) \/ Grows
  BY <1>1, UploadDoes DEF SyncInv
<1>5. Waits'
  BY <1>2, <1>4 DEF SyncInv, Waits, IsCommand
<1>6. agent \in Agents /\ transfer \in Transfers /\ transfer.received \in Nat
  BY PetAssumption DEF SyncInv, AgentKnows, IInv, PetTypeOK, Transfers
<1>7. CASE Stays
  <2>1. TransferKnown' /\ NotAhead'
    BY <1>2, <1>7 DEF SyncInv, TransferKnown, NotAhead, Stays
  <2>2. Heard'
    <3> SUFFICES ASSUME caller = "waiting", completion', commandResult' = "ok",
                        serving.kind = "append", Live(serving), agent.id = transfer.id
                 PROVE  agent.offset + 1 <= transfer.received
      BY <1>2, <1>4, <1>7 DEF Heard, Stays, Live
    <3>1. CASE completion /\ commandResult = "ok"
      BY <3>1 DEF SyncInv, Heard
    <3>2. CASE /\ queue = "append" /\ mailbox.chunk = transfer.previous
               /\ mailbox.chunk # Blank
      <4>1. mailbox.chunk = Chunk(agent.bundle, agent.offset + 1)
        BY <3>2 DEF SyncInv, Waits, ServingIsSound, Expects
      <4>2. transfer.previous.index = agent.offset + 1 /\ transfer.previous # Blank
        BY <3>2, <4>1 DEF Chunk
      <4>3. transfer.received = agent.offset + 1
        BY <4>2 DEF SyncInv, TransferKnown
      <4> QED
        BY <1>6, <4>3
    <3> QED
      BY <1>7, <3>1, <3>2 DEF Stays, OkMeans
  <2> QED
    BY <1>3, <1>5, <2>1, <2>2 DEF Others
<1>8. CASE transfer' = NoTransfer \/ Begins(id)
  <2>1. transfer'.id \in {NoId, id} /\ TransferKnown'
    BY <1>8 DEF NoTransfer, Begins, TransferKnown
  <2>2. NotAhead'
    BY <1>2, <2>1 DEF NotAhead
  <2>3. Heard'
    <3>1. Live(serving) /\ serving.kind = "append" => agent.id # NoId
      BY PetAssumption DEF SyncInv, ServingIsSound, Expects, AgentKnows, NoId
    <3> QED
      BY <1>2, <2>1, <3>1 DEF Heard, Live
  <2> QED
    BY <1>3, <1>5, <2>1, <2>2, <2>3 DEF Others
<1>9. CASE Grows
  <2>1. TransferKnown'
    BY <1>9 DEF Grows, TransferKnown, SyncInv
  <2>2. agent.offset \in Nat /\ transfer'.received = transfer.received + 1
        /\ transfer'.id = transfer.id
    BY <1>6, <1>9 DEF Grows, Agents
  <2>3. NotAhead'
    BY <1>2, <1>6, <2>2 DEF SyncInv, NotAhead
  <2>4. Heard'
    <3>1. Live(serving) /\ serving.kind = "append" => agent.id # NoId
      BY PetAssumption DEF SyncInv, ServingIsSound, Expects, AgentKnows, NoId
    <3> QED
      BY <1>2, <1>6, <2>2, <3>1 DEF SyncInv, NotAhead, Heard, Live
  <2> QED
    BY <1>3, <1>5, <2>1, <2>3, <2>4 DEF Others
<1> QED
  BY <1>4, <1>7, <1>8, <1>9

\* A restart takes requests and the transaction with it.
LEMMA PowerKeeps ==
  ASSUME SyncInv, PowerCut \/ Restart \/ NoStore
  PROVE  AgentKnows' /\ NotAhead' /\ Others'
<1>1. CASE PowerCut
  <2>1. /\ transfer' = NoTransfer /\ caller' = "free" /\ inbox' = {} /\ serving' = NoRequest
        /\ UNCHANGED <<agent, selected>>
    BY <1>1 DEF PowerCut, PowerLoss, agentVars
  <2> QED
    BY <2>1, NothingServed
       DEF SyncInv, AgentKnows, NotAhead, Others, InboxIsSound, ServingIsSound, Waits,
           TransferKnown, Heard, NoTransfer, NoId, IsRequest, Live
<1>2. CASE Restart \/ NoStore
  <2>1. /\ UNCHANGED <<transfer, caller, queue, mailbox, completion, commandResult>>
        /\ UNCHANGED <<agent, selected, inbox, serving>>
    BY <1>2 DEF Restart, NoStore, Initialize, InitializeFails, commandVars, agentVars, webVars
  <2> QED
    BY <2>1
       DEF SyncInv, AgentKnows, NotAhead, Others, InboxIsSound, ServingIsSound, IsRequest,
           Live, Expects, Waits, IsCommand, TransferKnown, Heard
<1> QED
  BY <1>1, <1>2

LEMMA SyncKept ==
  ASSUME SyncInv, [SyncNext]_vars PROVE SyncInv'
<1>1. IInv'
  BY StoreKept
<1>2. CASE UNCHANGED vars
  <2>1. /\ UNCHANGED <<transfer, caller, queue, mailbox, completion, commandResult>>
        /\ UNCHANGED <<agent, selected, inbox, serving>>
    BY <1>2 DEF vars, storeVars, agentVars, webVars
  <2>2. AgentKnows' /\ NotAhead' /\ Others'
    BY <2>1
       DEF SyncInv, AgentKnows, NotAhead, Others, InboxIsSound, ServingIsSound, IsRequest,
           Live, Expects, Waits, IsCommand, TransferKnown, Heard
  <2> QED
    BY <1>1, <2>2 DEF SyncInv, Others
<1>3. CASE SyncNext
  <2>1. AgentKnows' /\ NotAhead' /\ Others'
    BY <1>3, SelectKeeps, SendKeeps, GiveUpKeeps, AcceptKeeps, StatusKeeps, RefusedKeeps,
       HandleKeeps, AnsweredKeeps, UploadKeeps, PowerKeeps
       DEF SyncNext, AgentStep, WebStep
  <2> QED
    BY <1>1, <2>1 DEF SyncInv, Others
<1> QED
  BY <1>2, <1>3

----------------------------------------------------------------------------
(* The theorems about the synchronization                                     *)

LEMMA SyncInvariant == SyncInit /\ [][SyncNext]_vars => []SyncInv
BY SyncStarts, SyncKept, PTL

\* Every variable of the store keeps its type when the agent drives it.
THEOREM SyncTypes == SyncSpec => []PetTypeOK
<1>1. SyncInv => PetTypeOK
  BY DEF SyncInv, IInv
<1> QED
  BY <1>1, SyncInvariant, PTL DEF SyncSpec

\* The agent never believes in more chunks than the transaction counts, although answers are
\* lost, a command outlives its caller and a caller may take the answer of another command
\* (Synchronize, sync.go, and submit_upload_command, pet_store.cpp).
THEOREM AgentIsBehind == SyncSpec => []AgentIsNotAhead
<1>1. SyncInv => AgentIsNotAhead
  BY DEF SyncInv, NotAhead, AgentIsNotAhead
<1> QED
  BY <1>1, SyncInvariant, PTL DEF SyncSpec

\* With the agent, its time-outs and the inbox of the web server the store harms neither the
\* pet on show nor the next upload (pet_store.cpp, upload_task).
THEOREM SyncStoreIsSafe == SyncSpec => []StoreIsSafe
<1>1. SyncInv => StoreIsSafe
  BY BootFindsActive DEF SyncInv, IInv, SlotsAgree, StoreIsSafe, RestartKeepsShown
<1> QED
  BY <1>1, SyncInvariant, PTL DEF SyncSpec

\* An upload over the network, cut short in any way, goes from one whole pet to another in
\* one step of the abstract store.
THEOREM SyncImplementsPetOnShow == SyncSpec => ImplementsPetOnShow
<1>1. SyncInit => Shows!Init
  BY ShowsInit DEF SyncInit
<1>2. SlotTypes
  BY SlotsHoldBundles
<1>3. SyncInv /\ SlotTypes' /\ [SyncNext]_vars
        => [Shows!Prepare \/ Shows!Switch]_<<PetShown, BundleIn(Inactive(ShownSlot))>>
  BY SyncStep, ShowsStep, LinkFault DEF SyncInv
<1> QED
  BY <1>1, <1>2, <1>3, SyncInvariant, PTL DEF SyncSpec, ImplementsPetOnShow, Shows!Spec
=============================================================================
