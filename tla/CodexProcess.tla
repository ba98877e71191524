----------------------------- MODULE CodexProcess -----------------------------
(***************************************************************************)
(* The Codex app-server as an agent uses it: a child process that is asked    *)
(* over its standard input and output, one request at a time (Process of the  *)
(* Windows agent, JSONRPCProcess of the macOS companion), and the adapter     *)
(* over it, which knows the list of threads, which of them is selected, and   *)
(* the last approval that the process has asked for.                         *)
(***************************************************************************)
EXTENDS Naturals, Sequences

CONSTANTS
  Thread,         (* Codex threads                                          *)
  nothing,        (* no thread, no request                                  *)
  MaxMoves        (* bound: what Codex does by itself                       *)

ASSUME CodexAssumption == nothing \notin Thread /\ MaxMoves \in Nat

VARIABLES
  kind,           (* "windows" or "mac"                                     *)
  process,        (* which app-server runs, counted; 0 is none              *)
  started,        (* history: processes started so far                      *)
  threads,        (* the threads of Codex, the one updated last first       *)
  active,         (* the thread Codex works on                              *)
  asks,           (* approvals the process waits for                        *)
  unread,         (* the last one on its output                             *)
  pending,        (* pendingApproval of the agent                           *)
  listed,         (* the threads of the last answer                         *)
  selected,       (* the index of the one that is shown                     *)
  moves           (* history: moves of Codex so far                         *)

codexVars ==
  <<kind, process, started, threads, active, asks, unread, pending, listed,
    selected, moves>>

CodexInit ==
  /\ kind \in {"windows", "mac"}
  /\ process = 1 /\ started = 1
  /\ threads \in {<<>>} \cup {<<t>> : t \in Thread}
                 \cup {<<t, u>> : t, u \in Thread}
  /\ Len(threads) = 2 => threads[1] # threads[2]
  /\ active = nothing \/ (threads # <<>> /\ active = threads[1])
  /\ \/ unread = nothing
     \/ active # nothing /\ unread = [thread |-> active, id |-> 0, of |-> 1]
  /\ asks = {unread} \ {nothing}
  /\ pending = nothing /\ listed = <<>> /\ selected = 1
  /\ moves = 0

-----------------------------------------------------------------------------
(* Codex: a thread is changed and so comes first, with or without work to do;  *)
(* one that works waits for an approval; the process dies.                   *)
CodexMoves ==
  /\ process # 0 /\ moves < MaxMoves
  /\ moves' = moves + 1
  /\ \/ /\ \E t \in Thread :
             /\ threads' = <<t>> \o SelectSeq(threads, LAMBDA u : u # t)
             /\ active' \in {nothing, t}
        /\ UNCHANGED <<asks, unread>>
     \/ /\ active # nothing
        /\ unread' = [thread |-> active, id |-> moves + 1, of |-> process]
        /\ asks' = asks \cup {unread'}
        /\ UNCHANGED <<threads, active>>
  /\ UNCHANGED <<kind, process, started, pending, listed, selected>>

ProcessDies ==
  /\ process # 0
  /\ process' = 0
  /\ asks' = {} /\ unread' = nothing /\ active' = nothing
  /\ UNCHANGED <<kind, started, threads, pending, listed, selected, moves>>

-----------------------------------------------------------------------------
(* Process.ensureStartedLocked() and startOnceLocked(): the Windows agent     *)
(* starts another process.  What the old one had asked is forgotten.         *)
(* A mistake the properties catch.                                          *)
Restarted_KeepsApproval ==
  /\ process' = started + 1 /\ started' = started + 1
  /\ UNCHANGED pending
Restarted ==
  /\ process' = started + 1 /\ started' = started + 1
  /\ pending' = nothing

(* requestOnceLocked(): whatever the process has asked is read before the     *)
(* answer; the last one is kept.                                            *)
ReadUpToAnswer ==
  /\ pending' = IF unread # nothing THEN unread ELSE pending
  /\ unread' = nothing
  /\ UNCHANGED <<process, started>>

Request ==
  \/ process # 0 /\ ReadUpToAnswer
  \/ process = 0 /\ kind = "windows" /\ Restarted /\ UNCHANGED unread

(* A request that is not answered: the Windows agent kills the process when    *)
(* its time is up, or cannot start another one.                              *)
RequestFails ==
  /\ kind = "windows"
  /\ process' = 0 /\ pending' = nothing
  /\ asks' = {} /\ unread' = nothing /\ active' = nothing
  /\ UNCHANGED started

(* JSONRPCProcess.request() of a process that runs no more.                  *)
NotRunning ==
  /\ kind = "mac" /\ process = 0
  /\ UNCHANGED <<process, started, pending, asks, unread, active>>

-----------------------------------------------------------------------------
(* Adapter.Snapshot(): the thread that is active is selected, whatever the    *)
(* user had selected.                                                       *)
FirstActive == {i \in DOMAIN threads : threads[i] = active}
Snapshot ==
  /\ Request
  /\ listed' = threads
  /\ selected' =
       IF FirstActive # {} THEN CHOOSE i \in FirstActive : TRUE
       ELSE IF threads = <<>> THEN 1
       ELSE IF selected > Len(threads) THEN Len(threads) ELSE selected
  /\ UNCHANGED <<kind, threads, active, asks, moves>>

(* What a snapshot says.                                                    *)
ContentOf(list, index) ==
  IF list = <<>> THEN [thread |-> nothing, waiting |-> FALSE]
  ELSE [thread |-> list[index],
        waiting |-> \E a \in asks : a.thread = list[index]]

-----------------------------------------------------------------------------
(* Adapter.Perform()                                                        *)
Select(step) ==
  /\ selected' = IF listed = <<>> THEN selected
                 ELSE 1 + ((selected + step - 1) % Len(listed))
  /\ UNCHANGED <<kind, process, started, threads, active, asks, unread,
                 pending, listed, moves>>

(* RespondToPendingApproval(): cleared first, then sent.  Without one, a        *)
(* process that has ended is started again when its end has been noticed.     *)
Approve ==
  /\ IF pending = nothing
     THEN /\ UNCHANGED asks
          /\ \/ process = 0 /\ kind = "windows" /\ Restarted
             \/ UNCHANGED <<process, started, pending>>
     ELSE /\ process # 0
          /\ asks' = asks \ {pending} /\ pending' = nothing
          /\ UNCHANGED <<process, started>>
  /\ UNCHANGED <<kind, threads, active, unread, listed, selected, moves>>

CannotApprove ==
  /\ process = 0 /\ pending # nothing
  /\ pending' = nothing
  /\ UNCHANGED <<kind, process, started, threads, active, asks, unread, listed,
                 selected, moves>>

(* interruptSelected(): the turn of the selected thread of the last answer.   *)
Target == IF selected \in DOMAIN listed THEN listed[selected] ELSE nothing
Interrupt ==
  /\ IF Target = nothing THEN UNCHANGED <<process, started, pending, unread>>
     ELSE Request
  /\ active' = IF active = Target THEN nothing ELSE active
  /\ asks' = {a \in asks : a.thread # Target}
  /\ UNCHANGED <<kind, threads, listed, selected, moves>>

Performs(action) ==
  \/ action = "none" /\ UNCHANGED codexVars
  \/ action = "select_next" /\ Select(1)
  \/ action = "approve" /\ Approve
  \/ action = "interrupt" /\ Interrupt

CannotPerform(action) ==
  \/ action = "approve" /\ CannotApprove
  \/ /\ action = "interrupt" /\ (RequestFails \/ NotRunning)
     /\ UNCHANGED <<kind, threads, listed, selected, moves>>
=============================================================================
