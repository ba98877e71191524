------------------------- MODULE WifiManager_proofs -------------------------
(* What is in flash was joined, and what was tried in vain gives way to it,    *)
(* for every set of networks, of bounds and of attempts, with calls at any     *)
(* time, writes that stop halfway and requests for scans. The two exceptions   *)
(* are causes in the code, doubts, which later steps of the code set right.    *)
EXTENDS WifiManager, TLAPS

Events == {"got_ip", "disconnected", "scan_done"}

TypeInv ==
    /\ WifiTypeOK
    /\ mailbox \in Seq(Events)
    /\ radio \in [target : Credentials \cup {NoCreds}, joined : BOOLEAN]
    /\ stored \in [ssid : Networks \cup {NoCreds}, password : Networks \cup {NoCreds},
                   override : BOOLEAN]
    /\ prone \subseteq Faults
    /\ task = "persist" => machine.selected # NoCreds

\* A candidate staged while no other address was on its way is the network the radio
\* tries, from when the caller comes to the radio, and an address is its own.
CandidateIsHeard ==
    machine.state = "candidate_connecting" /\ "trial" \notin doubts =>
        /\ radio.target \in {NoCreds, machine.selected} \/ (caller = "radio" /\ radio.joined)
        /\ Addressed => machine.selected \in joinedOnce

PersistIsOfJoined ==
    task = "persist" =>
        /\ machine.state \in {"online", "candidate_connecting", "connecting"}
        /\ "trial" \notin doubts => machine.selected \in joinedOnce

\* The machine knows the network boot would select: it is on it, or can go back to it.
BootIsKnown ==
    LET boot == BootCredentials(stored)
    IN  "rollback" \notin doubts /\ ~recovery /\ boot # NoCreds =>
            IF machine.state = "candidate_connecting"
            THEN machine.previous = boot \/ (machine.previous = NoCreds /\ machine.selected = boot)
            ELSE task = "persist" \/ machine.selected = boot

Trusted ==
    /\ CandidateIsHeard
    /\ PersistIsOfJoined
    /\ SavedWasJoined
    /\ BootIsKnown

IInv == TypeInv /\ Trusted

----------------------------------------------------------------------------
(* The mailbox                                                                *)

LEMMA PushKeeps ==
    ASSUME mailbox \in Seq(Events), dropped \in BOOLEAN, NEW e \in Events, Push(e)
    PROVE  /\ mailbox' \in Seq(Events) /\ dropped' \in BOOLEAN
           /\ e # "got_ip" /\ Addressed' => Addressed
<1>1. CASE mailbox' = Append(mailbox, e)
  <2>1. /\ mailbox' \in Seq(Events) /\ Len(mailbox) \in Nat
        /\ Len(mailbox') = Len(mailbox) + 1
        /\ \A i \in 1..Len(mailbox) : mailbox'[i] = mailbox[i]
        /\ mailbox'[Len(mailbox) + 1] = e
    BY <1>1
  <2>2. \A i \in 1..Len(mailbox') : i = Len(mailbox) + 1 \/ i \in 1..Len(mailbox)
    BY <2>1
  <2> QED BY <2>1, <2>2, <1>1 DEF Push, Addressed
<1>2. CASE mailbox' = mailbox
  BY <1>2 DEF Push, Addressed
<1> QED BY <1>1, <1>2 DEF Push

LEMMA TailKeeps ==
    ASSUME mailbox \in Seq(Events), mailbox # <<>>, mailbox' = Tail(mailbox)
    PROVE  /\ mailbox' \in Seq(Events)
           /\ Addressed' => Addressed
<1>1. /\ mailbox' \in Seq(Events) /\ Len(mailbox) \in Nat /\ Len(mailbox') = Len(mailbox) - 1
      /\ \A i \in 1..Len(mailbox') : mailbox'[i] = mailbox[i + 1] /\ i + 1 \in 1..Len(mailbox)
  OBVIOUS
<1> QED BY <1>1 DEF Addressed

LEMMA HeadIsAddress ==
    ASSUME mailbox \in Seq(Events), mailbox # <<>>, Head(mailbox) = "got_ip"
    PROVE  Addressed
<1>1. mailbox[1] = "got_ip" /\ 1 \in 1..Len(mailbox)
  OBVIOUS
<1> QED BY <1>1 DEF Addressed

LEMMA EmptyIsNotAddressed ==
    ASSUME mailbox = <<>>
    PROVE  ~Addressed
  BY DEF Addressed

----------------------------------------------------------------------------
(* Types                                                                      *)

LEMMA OfIsCredentials == \A n \in Networks : Of(n) \in Credentials /\ Of(n) # NoCreds
  BY WifiAssumption DEF Of, Credentials

LEMMA BootIsTyped ==
    ASSUME NEW keys \in [ssid : Networks \cup {NoCreds}, password : Networks \cup {NoCreds},
                         override : BOOLEAN],
           NEW recovering \in BOOLEAN
    PROVE  /\ BootCredentials(keys) \in Credentials \cup {NoCreds}
           /\ BootMachine(keys, recovering) \in
                [state : States, selected : Credentials \cup {NoCreds},
                 previous : Credentials \cup {NoCreds}, attempts : 0..AttemptLimit]
           /\ BootMachine(keys, recovering).state \in Timed =>
                BootMachine(keys, recovering).selected # NoCreds
           /\ BootMachine(keys, recovering).state \notin
                {"candidate_connecting", "rollback_connecting", "online"}
           /\ ~recovering => BootMachine(keys, recovering).selected = BootCredentials(keys)
<1>1. BootCredentials(keys) \in Credentials \cup {NoCreds}
  BY WifiAssumption DEF BootCredentials, LoadRuntime, Credentials
<1> QED
  BY <1>1, WifiAssumption DEF BootMachine, Machine, States, Timed

\* Rejoining and stopping leave the mailbox and the radio well-typed and no new address.
LEMMA RejoinKeeps ==
    ASSUME TypeInv, Rejoin(machine.selected)
    PROVE  /\ mailbox' \in Seq(Events) /\ dropped' \in BOOLEAN
           /\ radio' \in [target : Credentials \cup {NoCreds}, joined : BOOLEAN]
           /\ Addressed' => Addressed
<1>1. CASE Push("disconnected")
  BY <1>1, PushKeeps DEF Rejoin, TypeInv, WifiTypeOK, Events
<1>2. CASE UNCHANGED <<mailbox, dropped>>
  BY <1>2 DEF Rejoin, TypeInv, WifiTypeOK, Addressed
<1> QED BY <1>1, <1>2 DEF Rejoin

LEMMA TypeInit == Init => TypeInv
<1> SUFFICES ASSUME Init PROVE TypeInv
  OBVIOUS
<1>1. stored \in [ssid : Networks \cup {NoCreds}, password : Networks \cup {NoCreds},
                  override : BOOLEAN]
  BY WifiAssumption DEF Init, Written, Of
<1>2. machine = BootMachine(stored, FALSE)
  BY DEF Init
<1>3. /\ machine \in [state : States, selected : Credentials \cup {NoCreds},
                      previous : Credentials \cup {NoCreds}, attempts : 0..AttemptLimit]
      /\ machine.state \in Timed => machine.selected # NoCreds
  BY <1>1, <1>2, BootIsTyped
<1>4. radio \in [target : Credentials \cup {NoCreds}, joined : BOOLEAN]
  <2>1. machine.selected \in Credentials \cup {NoCreds}
    BY <1>3
  <2>2. radio = IF machine.selected = NoCreds THEN NoLink
                ELSE [target |-> machine.selected, joined |-> FALSE]
    BY DEF Init
  <2> QED BY <2>1, <2>2 DEF NoLink
<1>5. /\ mailbox = <<>> /\ waited = 0 /\ late = FALSE /\ dropped = FALSE
      /\ task = "delay" /\ caller = "none" /\ prone \subseteq Faults
  BY DEF Init
<1>6. scan \in [requested : BOOLEAN, failure : BOOLEAN, inFlight : BOOLEAN]
  BY DEF Init, NoScan
<1>7. mailbox \in Seq(Events) /\ waited \in 0..TimeoutTicks
  BY <1>5, WifiAssumption
<1>8. doubts \subseteq {"trial", "flash", "rollback", "report"}
  BY DEF Init
<1> QED
  BY <1>1, <1>3, <1>4, <1>5, <1>6, <1>7, <1>8 DEF TypeInv, WifiTypeOK

\* The decisions of the loop keep the machine well-typed.
LEMMA RollBackTypes ==
    ASSUME TypeInv, RollBack
    PROVE  /\ machine' \in [state : States, selected : Credentials \cup {NoCreds},
                            previous : Credentials \cup {NoCreds}, attempts : 0..AttemptLimit]
           /\ machine'.state \in Timed => machine'.selected # NoCreds
           /\ waited' = 0 /\ late' = FALSE
  BY DEF TypeInv, WifiTypeOK, RollBack, Settle, Attempt, Machine, States, Timed

LEMMA TickTypes ==
    ASSUME TypeInv, TickMachine
    PROVE  /\ machine' \in [state : States, selected : Credentials \cup {NoCreds},
                            previous : Credentials \cup {NoCreds}, attempts : 0..AttemptLimit]
           /\ machine'.state \in Timed => machine'.selected # NoCreds
           /\ waited' \in 0..TimeoutTicks /\ late' \in BOOLEAN
           /\ task' \in {"delay", "reconnect", "stop"}
<1>0. /\ machine \in [state : States, selected : Credentials \cup {NoCreds},
                      previous : Credentials \cup {NoCreds}, attempts : 0..AttemptLimit]
      /\ machine.state \in Timed => machine.selected # NoCreds
      /\ waited \in 0..TimeoutTicks /\ late \in BOOLEAN /\ 0 \in 0..TimeoutTicks
  BY WifiAssumption DEF TypeInv, WifiTypeOK
<1>1. CASE RollBack /\ task' \in {"reconnect", "stop"}
  BY <1>0, <1>1, RollBackTypes
<1>2. CASE Settle("offline") /\ task' = "stop"
  BY <1>0, <1>2 DEF Settle, States, Timed
<1>3. CASE /\ machine.state = "connecting" /\ MayRetry /\ task' = "reconnect"
           /\ Attempt("connecting", machine.selected, machine.previous, machine.attempts + 1)
  <2>1. machine.attempts + 1 \in 0..AttemptLimit
    BY <1>0, <1>3, WifiAssumption DEF MayRetry
  <2> QED BY <1>0, <1>3, <2>1 DEF Attempt, Machine, States, Timed
<1>4. CASE UNCHANGED machineVars /\ task' = "delay"
  BY <1>0, <1>4 DEF machineVars
<1> QED BY <1>1, <1>2, <1>3, <1>4 DEF TickMachine

\* One step per action: the part of the state it writes keeps its types.
LEMMA TypeStep == TypeInv /\ [Next]_vars => TypeInv'
<1> SUFFICES ASSUME TypeInv, [Next]_vars PROVE TypeInv'
  OBVIOUS
<1> USE DEF TypeInv, WifiTypeOK, networkVars, machineVars, callerVars, taskVars, radioVars, scanVars,
            budgetVars, flashVars
<1>0. 0 \in 0..TimeoutTicks
  BY WifiAssumption
<1>1. ASSUME NEW n \in Networks, Save(n) PROVE TypeInv'
  <2>1. Of(n) \in Credentials /\ Of(n) # NoCreds
    BY OfIsCredentials
  <2>2. late' \in BOOLEAN
    BY <1>1 DEF Save, CallBegins
  <2>3. doubts' \subseteq {"trial", "flash", "rollback", "report"}
    BY <1>1 DEF Save
  <2> QED BY <1>0, <1>1, <2>1, <2>2, <2>3 DEF Save, CallBegins, Machine, States
<1>2. CASE Reconnect
  <2>1. late' \in BOOLEAN
    BY <1>2 DEF Reconnect, CallBegins
  <2>2. doubts' \subseteq {"trial", "flash", "rollback", "report"}
    BY <1>2 DEF Reconnect
  <2> QED BY <1>0, <1>2, <2>1, <2>2, WifiAssumption DEF Reconnect, CallBegins, Machine, States
<1>3. CASE CallReachesRadio
  BY <1>3, RejoinKeeps DEF CallReachesRadio
<1>4. CASE RequestScan \/ RequestReturns
  BY <1>4 DEF RequestScan, RequestReturns
<1>5. CASE ScanEnds
  BY <1>5, PushKeeps DEF ScanEnds, Events
<1>6. CASE RadioJoins
  <2>1. radio' \in [target : Credentials \cup {NoCreds}, joined : BOOLEAN]
    BY <1>6 DEF RadioJoins
  <2>2. mailbox' \in Seq(Events) /\ dropped' \in BOOLEAN
    BY <1>6, PushKeeps DEF RadioJoins, Events
  <2> QED BY <1>6, <2>1, <2>2 DEF RadioJoins
<1>7. CASE RadioGivesUp
  BY <1>7, PushKeeps DEF RadioGivesUp, Events, NoLink
<1>8. CASE RadioLosesLink
  BY <1>8, PushKeeps DEF RadioLosesLink, Events, NoLink
<1>9. CASE LoopStarts
  <2>1. waited' \in 0..TimeoutTicks
    BY <1>9, WifiAssumption DEF LoopStarts
  <2>2. task' = "events" /\ late' = FALSE
        /\ UNCHANGED <<machine, caller, radio, mailbox, dropped, stored, doubts, prone, scan>>
    BY <1>9 DEF LoopStarts
  <2>3. WifiTypeOK'
    BY <2>1, <2>2
  <2> QED BY <2>2, <2>3
<1>10. CASE GotIp
  <2>1. mailbox' \in Seq(Events)
    BY <1>10, TailKeeps DEF GotIp, Pop
  <2>2. /\ machine' \in [state : States, selected : Credentials \cup {NoCreds},
                         previous : Credentials \cup {NoCreds}, attempts : 0..AttemptLimit]
        /\ machine'.state = "online" /\ machine'.selected = machine.selected
    BY <1>10, WifiAssumption DEF GotIp, OnConnected, Machine, States
  <2>3. task' = "persist" => machine.selected # NoCreds
    BY <1>10 DEF GotIp, Pop, Timed
  <2>4. task' \in {"events", "persist"}
    BY <1>10 DEF GotIp, Pop
  <2>5. waited' = 0 /\ late' = FALSE /\ UNCHANGED <<caller, radio, dropped, stored, doubts, prone, scan>>
    BY <1>10 DEF GotIp, Pop
  <2>6. WifiTypeOK'
    BY <1>0, <2>2, <2>4, <2>5 DEF Timed
  <2> QED BY <2>1, <2>2, <2>3, <2>5, <2>6
<1>11. CASE PersistSucceeds
  <2>1. machine.selected \in Credentials /\ machine.state \in States
    BY <1>11 DEF PersistSucceeds
  <2> QED BY <1>11, <2>1 DEF PersistSucceeds, Written, Credentials
<1>12. CASE PersistFails
  <2>1. machine.selected \in Credentials
    BY <1>12 DEF PersistFails
  <2> QED BY <1>0, <1>12, <2>1, RollBackTypes DEF PersistFails, PartlyWritten, Credentials
<1>13. CASE Disconnected
  <2>1. mailbox' \in Seq(Events)
    BY <1>13, TailKeeps DEF Disconnected, Pop
  <2>2. CASE UNCHANGED <<machineVars, taskVars>>
    BY <1>13, <2>1, <2>2 DEF Disconnected, Pop
  <2>3. CASE machine.selected # NoCreds /\ task' = "connect"
             /\ Attempt("connecting", machine.selected, machine.previous, 1)
    <3>1. machine' \in [state : States, selected : Credentials \cup {NoCreds},
                        previous : Credentials \cup {NoCreds}, attempts : 0..AttemptLimit]
          /\ machine'.selected # NoCreds
      BY <2>3, WifiAssumption DEF Attempt, Machine, States
    <3>2. waited' = 0 /\ late' = FALSE
          /\ UNCHANGED <<caller, radio, dropped, stored, doubts, prone, scan>>
      BY <1>13, <2>3 DEF Disconnected, Pop, Attempt
    <3> QED BY <1>0, <2>1, <2>3, <3>1, <3>2
  <2>4. CASE Settle("offline") /\ UNCHANGED task
    <3>1. machine' \in [state : States, selected : Credentials \cup {NoCreds},
                        previous : Credentials \cup {NoCreds}, attempts : 0..AttemptLimit]
          /\ machine'.state = "offline" /\ machine'.selected = machine.selected
      BY <2>4 DEF Settle, States
    <3>2. waited' = 0 /\ late' = FALSE
          /\ UNCHANGED <<caller, radio, dropped, stored, doubts, prone, scan>>
      BY <1>13, <2>4 DEF Disconnected, Pop, Settle
    <3>3. WifiTypeOK'
      BY <1>0, <2>4, <3>1, <3>2 DEF Timed
    <3> QED BY <2>1, <2>4, <3>1, <3>2, <3>3
  <2> QED BY <1>13, <2>2, <2>3, <2>4 DEF Disconnected
<1>14. CASE RadioCalls
  <2>1. CASE Rejoin(machine.selected)
    BY <1>14, <2>1, RejoinKeeps DEF RadioCalls
  <2>2. CASE Connect(machine.selected)
    BY <1>14, <2>2 DEF RadioCalls, Connect
  <2> QED BY <1>14, <2>1, <2>2 DEF RadioCalls
<1>15. CASE Stop
  <2>1. CASE Push("disconnected")
    BY <1>15, <2>1, PushKeeps DEF Stop, Events, NoLink
  <2> QED BY <1>15, <2>1 DEF Stop, NoLink
<1>16. CASE Tick
  <2>1. doubts' \subseteq {"trial", "flash", "rollback", "report"}
    BY <1>16 DEF Tick
  <2> QED BY <1>16, <2>1, TickTypes DEF Tick
<1>17. CASE TickScan
  <2>1. scan' \in [requested : BOOLEAN, failure : BOOLEAN, inFlight : BOOLEAN]
    BY <1>17 DEF TickScan
  <2>2. task' \in {"tick", "scan_started", "scan_refused"}
    BY <1>17 DEF TickScan
  <2> QED BY <1>17, <2>1, <2>2 DEF TickScan
<1>18. CASE ScanStartResult
  <2>1. scan' \in [requested : BOOLEAN, failure : BOOLEAN, inFlight : BOOLEAN]
    BY <1>18 DEF ScanStartResult
  <2>2. task' \in {"tick", "scan_failed"}
    BY <1>18 DEF ScanStartResult
  <2> QED BY <1>18, <2>1, <2>2 DEF ScanStartResult
<1>19. CASE ScanDone
  <2>1. scan' \in [requested : BOOLEAN, failure : BOOLEAN, inFlight : BOOLEAN] /\ mailbox' \in Seq(Events)
    BY <1>19, TailKeeps DEF ScanDone
  <2> QED BY <1>19, <2>1 DEF ScanDone
<1>20. CASE Restart
  <2>1. stored' \in [ssid : Networks \cup {NoCreds}, password : Networks \cup {NoCreds},
                     override : BOOLEAN]
    BY <1>20 DEF Restart, PartlyWritten, Credentials
  <2>2. recovery' \in BOOLEAN /\ machine' = BootMachine(stored', recovery')
    BY <1>20 DEF Restart, BootsWith
  <2>3. /\ machine' \in [state : States, selected : Credentials \cup {NoCreds},
                         previous : Credentials \cup {NoCreds}, attempts : 0..AttemptLimit]
        /\ machine'.state \in Timed => machine'.selected # NoCreds
    BY <2>1, <2>2, BootIsTyped
  <2>4. radio' \in [target : Credentials \cup {NoCreds}, joined : BOOLEAN]
    BY <1>20, <2>3 DEF Restart, BootsWith, NoLink
  <2>5. mailbox' = <<>> /\ task' = "delay" /\ caller' = "none" /\ scan' = NoScan
        /\ waited' = 0 /\ late' = FALSE /\ dropped' = FALSE /\ prone' = prone
    BY <1>20 DEF Restart, BootsWith
  <2>6. mailbox' \in Seq(Events)
    BY <2>5
  <2>7. NoScan \in [requested : BOOLEAN, failure : BOOLEAN, inFlight : BOOLEAN]
    BY DEF NoScan
  <2>8. doubts' \subseteq {"trial", "flash", "rollback", "report"}
    BY <1>20 DEF Restart
  <2> QED BY <1>0, <2>1, <2>3, <2>4, <2>5, <2>6, <2>7, <2>8
<1>21. CASE UNCHANGED vars
  BY <1>21 DEF vars
<1> QED
  BY <1>1, <1>2, <1>3, <1>4, <1>5, <1>6, <1>7, <1>8, <1>9, <1>10, <1>11, <1>12, <1>13, <1>14,
     <1>15, <1>16, <1>17, <1>18, <1>19, <1>20, <1>21 DEF Next, TaskStep

\* Types hold whatever the callers do (product_wifi_save does not look at what is under way).
THEOREM TypeCorrect == Spec => []WifiTypeOK
<1>1. TypeInv => WifiTypeOK
  BY DEF TypeInv
<1> QED BY TypeInit, TypeStep, <1>1, PTL DEF Spec

----------------------------------------------------------------------------
(* What is in flash                                                           *)

LEMMA SafeInit == Init => IInv
<1> SUFFICES ASSUME Init PROVE IInv
  OBVIOUS
<1>1. TypeInv
  BY TypeInit
<1>2. task = "delay" /\ machine = BootMachine(stored, FALSE)
  BY DEF Init
<1>3. machine.state # "candidate_connecting" /\ machine.selected = BootCredentials(stored)
  BY <1>1, <1>2, BootIsTyped DEF TypeInv
<1>4. SavedPairWasJoined
  BY WifiAssumption DEF Init, SavedPairWasJoined, LoadRuntime, Written, Of
<1> QED
  BY <1>1, <1>2, <1>3, <1>4 DEF IInv, Trusted, CandidateIsHeard, PersistIsOfJoined,
                                SavedWasJoined, BootIsKnown

\* Steps that decide nothing: the radio keeps to the network it is given.
LEMMA RadioStep ==
    ASSUME Trusted,
           UNCHANGED <<machine, stored, doubts, joinedOnce, recovery>>,
           \/ radio'.target \in {NoCreds, machine.selected}
           \/ radio'.target = radio.target /\ (caller = "radio" => caller' = "radio")
              /\ (radio.joined => radio'.joined),
           Addressed' => Addressed,
           task' = "persist" <=> task = "persist"
    PROVE  Trusted'
<1>1. CandidateIsHeard'
  BY DEF Trusted, CandidateIsHeard
<1>2. PersistIsOfJoined' /\ SavedWasJoined'
  BY DEF Trusted, PersistIsOfJoined, SavedWasJoined, SavedPairWasJoined
<1>3. BootIsKnown'
  BY DEF Trusted, BootIsKnown
<1> QED BY <1>1, <1>2, <1>3 DEF Trusted

\* Steps that end with no candidate: what is saved and selected decides.
LEMMA SettledStep ==
    ASSUME Trusted,
           UNCHANGED <<stored, joinedOnce, recovery>>,
           machine'.state # "candidate_connecting", task' # "persist",
           "flash" \in doubts => "flash" \in doubts',
           BootIsKnown'
    PROVE  Trusted'
  BY DEF Trusted, CandidateIsHeard, PersistIsOfJoined, SavedWasJoined, SavedPairWasJoined

\* A candidate staged with no address on its way has the radio to itself.
LEMMA SaveStep ==
    ASSUME TypeInv, Trusted, NEW n \in Networks, Save(n)
    PROVE  Trusted'
<1>1. /\ machine'.state = "candidate_connecting" /\ machine'.previous = machine.selected
      /\ caller' = "radio" /\ UNCHANGED <<task, radio, mailbox, stored, joinedOnce, recovery>>
      /\ "trial" \in doubts' <=> AddressWaits
      /\ "rollback" \notin doubts' => "rollback" \notin doubts /\ ~OnTrial
      /\ "flash" \in doubts' <=> "flash" \in doubts
  BY DEF Save, CallBegins, Machine, taskVars, radioVars, budgetVars
<1>2. CandidateIsHeard'
  <2>1. Addressed' <=> Addressed
    BY <1>1 DEF Addressed
  <2>2. "trial" \notin doubts' => radio.target = NoCreds \/ radio.joined
    BY <1>1 DEF AddressWaits, Joining, TypeInv
  <2> QED BY <1>1, <2>1, <2>2 DEF CandidateIsHeard, AddressWaits
<1>3. PersistIsOfJoined'
  BY <1>1 DEF PersistIsOfJoined, AddressWaits
<1>4. SavedWasJoined'
  BY <1>1 DEF Trusted, SavedWasJoined, SavedPairWasJoined
<1>5. BootIsKnown'
  BY <1>1 DEF Trusted, BootIsKnown, OnTrial
<1> QED BY <1>2, <1>3, <1>4, <1>5 DEF Trusted

LEMMA ReconnectStep ==
    ASSUME TypeInv, Trusted, Reconnect
    PROVE  Trusted'
<1>1. /\ machine'.state = "connecting" /\ machine'.selected = machine.selected
      /\ UNCHANGED <<task, stored, joinedOnce, recovery>>
      /\ "trial" \in doubts' <=> "trial" \in doubts
      /\ "rollback" \notin doubts' => "rollback" \notin doubts /\ ~OnTrial
      /\ "flash" \in doubts' <=> "flash" \in doubts
  BY DEF Reconnect, CallBegins, Machine, taskVars, budgetVars
<1>2. CandidateIsHeard' /\ PersistIsOfJoined'
  BY <1>1 DEF Trusted, CandidateIsHeard, PersistIsOfJoined
<1>3. SavedWasJoined'
  BY <1>1 DEF Trusted, SavedWasJoined, SavedPairWasJoined
<1>4. BootIsKnown'
  BY <1>1 DEF Trusted, BootIsKnown, OnTrial
<1> QED BY <1>2, <1>3, <1>4 DEF Trusted

\* An address saves the candidate it belongs to, or changes the state alone.
LEMMA GotIpStep ==
    ASSUME TypeInv, Trusted, GotIp
    PROVE  Trusted'
<1>1. Addressed
  BY HeadIsAddress DEF GotIp, Pop, TypeInv
<1>2. /\ machine'.state = "online" /\ machine'.selected = machine.selected /\ task = "events"
      /\ task' = IF machine.state = "candidate_connecting" THEN "persist" ELSE "events"
      /\ UNCHANGED <<stored, doubts, joinedOnce, recovery>>
  BY DEF GotIp, Pop, OnConnected, Machine, flashVars, budgetVars
<1>3. CandidateIsHeard'
  BY <1>2 DEF CandidateIsHeard
<1>4. PersistIsOfJoined'
  BY <1>1, <1>2 DEF Trusted, CandidateIsHeard, PersistIsOfJoined
<1>5. SavedWasJoined'
  BY <1>2 DEF Trusted, SavedWasJoined, SavedPairWasJoined
<1>6. BootIsKnown'
  BY <1>2 DEF Trusted, BootIsKnown
<1> QED BY <1>3, <1>4, <1>5, <1>6 DEF Trusted

LEMMA PersistStep ==
    ASSUME TypeInv, Trusted, PersistSucceeds
    PROVE  Trusted'
<1>1. /\ task = "persist" /\ task' = "events" /\ stored' = Written(machine.selected)
      /\ machine.selected \in Credentials
      /\ UNCHANGED <<caller, radio, mailbox, joinedOnce, recovery>>
      /\ "trial" \in doubts' <=> "trial" \in doubts
      /\ "flash" \in doubts' <=> "trial" \in doubts
  BY DEF PersistSucceeds, TypeInv, WifiTypeOK, callerVars, radioVars, budgetVars
<1>2. /\ machine'.state = machine.state /\ machine'.selected = machine.selected
      /\ machine'.previous = NoCreds
  BY DEF PersistSucceeds, TypeInv, WifiTypeOK
<1>3. LoadRuntime(stored') = machine.selected
  BY <1>1, WifiAssumption DEF LoadRuntime, Written, Credentials
<1>4. BootCredentials(stored') = machine.selected
  BY <1>1, <1>3, WifiAssumption DEF BootCredentials, Written, Credentials
<1>5. CandidateIsHeard'
  <2>1. Addressed' <=> Addressed
    BY <1>1 DEF Addressed
  <2> QED BY <1>1, <1>2, <2>1 DEF Trusted, CandidateIsHeard
<1>6. PersistIsOfJoined'
  BY <1>1 DEF PersistIsOfJoined
<1>7. SavedWasJoined'
  BY <1>1, <1>3 DEF Trusted, PersistIsOfJoined, SavedWasJoined, SavedPairWasJoined
<1>8. BootIsKnown'
  BY <1>2, <1>4 DEF BootIsKnown
<1> QED BY <1>5, <1>6, <1>7, <1>8 DEF Trusted

\* A write that stops halfway is told apart in both respects.
LEMMA PersistFailsStep ==
    ASSUME TypeInv, Trusted, PersistFails
    PROVE  Trusted'
<1>1. task' # "persist" /\ "flash" \in doubts' /\ "rollback" \in doubts'
  BY DEF PersistFails
<1>2. machine'.state # "candidate_connecting"
  BY DEF PersistFails, RollBack, Settle, Attempt, Machine, TypeInv, WifiTypeOK
<1> QED BY <1>1, <1>2 DEF Trusted, CandidateIsHeard, PersistIsOfJoined, SavedWasJoined, BootIsKnown

\* A timeout of the candidate selects what was selected before.
LEMMA TickStep ==
    ASSUME TypeInv, Trusted, Tick
    PROVE  Trusted'
<1>1. /\ task' \in {"delay", "reconnect", "stop"} /\ task # "persist"
      /\ UNCHANGED <<caller, radio, mailbox, stored, joinedOnce, recovery>>
      /\ "trial" \in doubts' <=> "trial" \in doubts
      /\ "flash" \in doubts' <=> "flash" \in doubts
      /\ "rollback" \in doubts' <=> "rollback" \in doubts
  BY TickTypes DEF Tick, callerVars, radioVars, budgetVars
<1>2. CASE UNCHANGED machine
  <2>1. Addressed' <=> Addressed
    BY <1>1 DEF Addressed
  <2>2. CandidateIsHeard' /\ PersistIsOfJoined'
    BY <1>1, <1>2, <2>1 DEF Trusted, CandidateIsHeard, PersistIsOfJoined
  <2>3. SavedWasJoined'
    BY <1>1 DEF Trusted, SavedWasJoined, SavedPairWasJoined
  <2>4. BootIsKnown'
    BY <1>1, <1>2 DEF Trusted, BootIsKnown
  <2> QED BY <2>2, <2>3, <2>4 DEF Trusted
<1>3. CASE machine.state = "candidate_connecting" /\ RollBack
  <2>1. machine'.state # "candidate_connecting"
    BY <1>3 DEF RollBack, Settle, Attempt, Machine, TypeInv, WifiTypeOK
  <2>2. machine'.selected = IF machine.previous = NoCreds THEN machine.selected ELSE machine.previous
    BY <1>3 DEF RollBack, Settle, Attempt, Machine, TypeInv, WifiTypeOK
  <2>3. BootIsKnown'
    BY <1>1, <1>3, <2>1, <2>2 DEF Trusted, BootIsKnown
  <2> QED BY <1>1, <2>1, <2>3, SettledStep
<1>4. CASE /\ machine.state # "candidate_connecting"
           /\ machine'.state # "candidate_connecting" /\ machine'.selected = machine.selected
  <2>1. BootIsKnown'
    BY <1>1, <1>4 DEF Trusted, BootIsKnown
  <2> QED BY <1>1, <1>4, <2>1, SettledStep
<1>5. \/ UNCHANGED machine
      \/ machine.state = "candidate_connecting" /\ RollBack
      \/ /\ machine.state # "candidate_connecting"
         /\ \/ Settle("offline")
            \/ Attempt("connecting", machine.selected, machine.previous, machine.attempts + 1)
  BY DEF Tick, TickMachine, machineVars
<1>6. Settle("offline") \/ Attempt("connecting", machine.selected, machine.previous, machine.attempts + 1)
        => machine'.state # "candidate_connecting" /\ machine'.selected = machine.selected
  BY DEF Settle, Attempt, Machine, TypeInv, WifiTypeOK
<1> QED BY <1>2, <1>3, <1>4, <1>5, <1>6

LEMMA LossStep ==
    ASSUME TypeInv, Trusted, Disconnected
    PROVE  Trusted'
<1>1. /\ task = "events" /\ UNCHANGED <<caller, radio, stored, doubts, joinedOnce, recovery>>
      /\ Addressed' => Addressed
  BY TailKeeps DEF Disconnected, Pop, callerVars, flashVars, budgetVars, TypeInv
<1>2. CASE UNCHANGED <<machineVars, taskVars>>
  BY <1>1, <1>2, RadioStep DEF machineVars, taskVars
<1>3. CASE /\ machine.state = "online" /\ task' \in {"events", "connect"}
           /\ machine'.state # "candidate_connecting" /\ machine'.selected = machine.selected
  <2>1. BootIsKnown'
    BY <1>1, <1>3 DEF Trusted, BootIsKnown
  <2> QED BY <1>1, <1>3, <2>1, SettledStep
<1>4. \/ UNCHANGED <<machineVars, taskVars>>
      \/ /\ machine.state = "online" /\ task' \in {"events", "connect"}
         /\ \/ Attempt("connecting", machine.selected, machine.previous, 1)
            \/ Settle("offline")
  BY <1>1 DEF Disconnected, LinkLossCounts
<1>5. Attempt("connecting", machine.selected, machine.previous, 1) \/ Settle("offline")
        => machine'.state # "candidate_connecting" /\ machine'.selected = machine.selected
  BY DEF Attempt, Settle, Machine, TypeInv, WifiTypeOK
<1> QED BY <1>2, <1>3, <1>4, <1>5

LEMMA RestartStep ==
    ASSUME TypeInv, TypeInv', Trusted, Restart
    PROVE  Trusted'
<1>1. /\ task' = "delay" /\ machine' = BootMachine(stored', recovery') /\ recovery' \in BOOLEAN
      /\ UNCHANGED joinedOnce /\ ("flash" \notin doubts' => "flash" \notin doubts /\ stored' = stored)
  BY DEF Restart, BootsWith
<1>2. /\ machine'.state # "candidate_connecting"
      /\ recovery' \/ machine'.selected = BootCredentials(stored')
  BY <1>1, BootIsTyped DEF TypeInv
<1>3. SavedWasJoined'
  BY <1>1 DEF Trusted, SavedWasJoined, SavedPairWasJoined
<1> QED BY <1>1, <1>2, <1>3 DEF Trusted, CandidateIsHeard, PersistIsOfJoined, BootIsKnown

\* Only the network the radio tries is joined.
LEMMA JoinStep ==
    ASSUME TypeInv, Trusted, RadioJoins
    PROVE  Trusted'
<1>1. /\ Joining /\ radio'.target = radio.target /\ joinedOnce' = joinedOnce \cup {radio.target}
      /\ UNCHANGED <<machine, caller, task, stored, doubts, recovery>>
  BY DEF RadioJoins, Joining, machineVars, callerVars, taskVars, flashVars, budgetVars, TypeInv
<1>2. CandidateIsHeard'
  BY <1>1 DEF Trusted, CandidateIsHeard, Joining
<1>3. PersistIsOfJoined'
  BY <1>1 DEF Trusted, PersistIsOfJoined
<1>4. SavedWasJoined'
  BY <1>1 DEF Trusted, SavedWasJoined, SavedPairWasJoined
<1>5. BootIsKnown'
  BY <1>1 DEF Trusted, BootIsKnown
<1> QED BY <1>2, <1>3, <1>4, <1>5 DEF Trusted

\* One step per action, the types from TypeStep.
LEMMA SafeStep == IInv /\ [Next]_vars => IInv'
<1> SUFFICES ASSUME IInv, [Next]_vars PROVE Trusted'
  BY TypeStep DEF IInv
<1>0. TypeInv /\ TypeInv' /\ Trusted
  BY TypeStep DEF IInv
<1> USE DEF machineVars, callerVars, taskVars, radioVars, flashVars, budgetVars, networkVars
<1>1. CASE (\E n \in Networks : Save(n)) \/ Reconnect
  BY <1>0, <1>1, SaveStep, ReconnectStep
<1>2. CASE CallReachesRadio
  <2>1. /\ UNCHANGED <<machine, stored, doubts, joinedOnce, recovery, task>>
        /\ radio'.target = machine.selected
    BY <1>2 DEF CallReachesRadio, Rejoin
  <2>2. Addressed' => Addressed
    BY <1>0, <1>2, RejoinKeeps DEF CallReachesRadio
  <2> QED BY <1>0, <2>1, <2>2, RadioStep
<1>3. CASE RequestScan \/ RequestReturns
  <2>1. /\ UNCHANGED <<machine, stored, doubts, joinedOnce, recovery, task, radio, mailbox>>
        /\ caller # "radio"
    BY <1>3 DEF RequestScan, RequestReturns
  <2>2. Addressed' => Addressed
    BY <2>1 DEF Addressed
  <2> QED BY <1>0, <2>1, <2>2, RadioStep
<1>4. CASE ScanEnds \/ RadioGivesUp \/ RadioLosesLink
  <2>1. /\ UNCHANGED <<machine, stored, doubts, joinedOnce, recovery, task, caller>>
        /\ radio'.target = NoCreds \/ radio' = radio
    BY <1>4 DEF ScanEnds, RadioGivesUp, RadioLosesLink, NoLink
  <2>2. Push("scan_done") \/ Push("disconnected")
    BY <1>4 DEF ScanEnds, RadioGivesUp, RadioLosesLink
  <2>3. Addressed' => Addressed
    BY <1>0, <2>2, PushKeeps DEF Events, TypeInv, WifiTypeOK
  <2> QED BY <1>0, <2>1, <2>3, RadioStep
<1>5. CASE Stop \/ RadioCalls
  <2>1. /\ UNCHANGED <<machine, stored, doubts, joinedOnce, recovery, caller>>
        /\ radio'.target \in {NoCreds, machine.selected} \/ radio' = radio
        /\ task # "persist" /\ task' # "persist"
    BY <1>5 DEF Stop, RadioCalls, NoLink, Rejoin, Connect
  <2>2. Addressed' => Addressed
    <3>1. CASE Push("disconnected")
      BY <1>0, <3>1, PushKeeps DEF Events, TypeInv, WifiTypeOK
    <3>2. CASE mailbox' = mailbox
      BY <3>2 DEF Addressed
    <3> QED BY <1>5, <3>1, <3>2 DEF Stop, RadioCalls, Rejoin, Connect
  <2> QED BY <1>0, <2>1, <2>2, RadioStep
<1>6. CASE LoopStarts \/ TickScan \/ ScanStartResult \/ ScanDone
  <2>1. /\ UNCHANGED <<machine, stored, doubts, joinedOnce, recovery, caller, radio>>
        /\ task # "persist" /\ task' # "persist"
    BY <1>6 DEF LoopStarts, TickScan, ScanStartResult, ScanDone
  <2>2. Addressed' => Addressed
    <3>1. CASE mailbox' = mailbox
      BY <3>1 DEF Addressed
    <3>2. CASE ScanDone
      BY <1>0, <3>2, TailKeeps DEF ScanDone, TypeInv
    <3> QED BY <1>6, <3>1, <3>2 DEF LoopStarts, TickScan, ScanStartResult
  <2> QED BY <1>0, <2>1, <2>2, RadioStep
<1>7. CASE UNCHANGED vars
  <2>1. UNCHANGED <<machine, stored, doubts, joinedOnce, recovery, task, caller, radio, mailbox>>
    BY <1>7 DEF vars
  <2>2. Addressed' => Addressed
    BY <2>1 DEF Addressed
  <2> QED BY <1>0, <2>1, <2>2, RadioStep
<1>8. CASE RadioJoins \/ GotIp \/ PersistSucceeds \/ PersistFails \/ Disconnected \/ Tick \/ Restart
  BY <1>0, <1>8, JoinStep, GotIpStep, PersistStep, PersistFailsStep, LossStep, TickStep, RestartStep
<1> QED
  BY <1>0, <1>1, <1>2, <1>3, <1>4, <1>5, <1>6, <1>7, <1>8 DEF Next, TaskStep

\* A network is tried before it is saved, and what was tried in vain gives way to the saved
\* one (wifi_manager.cpp:469 and :182), whatever the callers do; what they may spoil is
\* named by its cause, and mended by the next trial that is saved.
THEOREM SavedStaysTrusted == Spec => []SavedIsTrusted
<1>1. IInv => SavedIsTrusted
  BY DEF IInv, Trusted, SavedIsTrusted, RollsBackToSaved, RollbackIsHome, BootIsKnown, PersistIsOfJoined
<1>2. IInv /\ [Next]_vars => IInv'
  BY SafeStep
<1> QED BY SafeInit, <1>1, <1>2, PTL DEF Spec

=============================================================================
