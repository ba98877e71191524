------------------------------ MODULE AudioLease ------------------------------
(***************************************************************************)
(* Who may write to the shared ring: the server of the audio driver          *)
(* (CardputerAudioIPC) keeps a lease with a deadline; the connections of the *)
(* companion (AudioDriverConnection, one per process: the companion, and an  *)
(* audio-probe beside it) claim, renew and release it, and every change of   *)
(* the owner resets the ring.  The plug-in of CoreAudio                      *)
(* (CardputerAudioDevice) maps the ring when its first client starts and     *)
(* keeps it while one runs.                                                 *)
(*                                                                         *)
(* The deadline is not counted: it passes when the holder is stalled or gone, *)
(* whose heartbeat has four times its period otherwise.  A server that       *)
(* restarts has a new ring; what goes on in the old one is not followed.      *)
(***************************************************************************)
EXTENDS SharedRing

CONSTANTS
  server,         (* the thread of the server, as a resetter                *)
  nobody,         (* no owner                                               *)
  MaxClients,     (* bound: clients of the device                           *)
  MaxMishaps      (* how often a process stalls, dies or restarts           *)

ASSUME LeaseAssumption ==
  /\ Resetter = Producer \cup {server} /\ server \notin Producer
  /\ nobody \notin Producer \cup {"gone"} /\ "gone" \notin Producer
  /\ MaxClients \in Nat /\ MaxMishaps \in Nat

VARIABLES
  owner,          (* lease.owner; "gone" is a connection that has ended     *)
  expired,        (* the deadline of the lease has passed                   *)
  conn,           (* per producer: where its connection is                  *)
  stalled,        (* processes that do not run for now                      *)
  clients,        (* client_count of the device                             *)
  mapped,         (* the ring the device reads: "none", "this" or "old"     *)
  mishaps,        (* history: mishaps so far                                *)
  late            (* history: somebody wrote who was not the owner, and no  *)
                  (* undisturbed reset has come since                       *)

leaseVars == <<owner, expired, conn, stalled, clients, mapped, mishaps, late>>
leaseAndRing == <<ringVars, leaseVars>>

LeaseInit ==
  /\ RingInit
  /\ owner = nobody /\ expired = FALSE
  /\ conn = [p \in Producer |-> "away"]
  /\ stalled = {}
  /\ clients = 0 /\ mapped = "none"
  /\ mishaps = 0 /\ late = FALSE

Mishap == mishaps < MaxMishaps /\ mishaps' = mishaps + 1

(* The lock of the server is free, and the last request was answered.       *)
ServerFree == reset[server].pc = "idle"

(* Bound: one reset at a time, but for one of a process that stalled in it. *)
ResetRing(t) ==
  /\ ResetLoad(t)
  /\ \A u \in Resetter : u \in stalled \/ reset[u].pc = "idle"
Runs(p) == p \notin stalled

-----------------------------------------------------------------------------
(* cardputer_audio_ipc_claim() for a connection of p.  The owner changes     *)
(* only with a reset of the ring.                                           *)
(* Mistakes the properties catch.                                           *)
MayClaim_NotExpired(p) == owner \in {nobody, p}
MayClaim(p) == owner \in {nobody, p} \/ expired

Claim_NoReset(p) ==
  /\ conn[p] = "away" /\ Runs(p) /\ ServerFree
  /\ MayClaim(p)
  /\ owner' = p /\ expired' = FALSE
  /\ conn' = [conn EXCEPT ![p] = "claimed"]
  /\ UNCHANGED <<ringVars, stalled, clients, mapped, mishaps, late>>
Claim(p) ==
  /\ conn[p] = "away" /\ Runs(p) /\ ServerFree
  /\ MayClaim(p)
  /\ IF owner # p THEN ResetRing(server) ELSE UNCHANGED ringVars
  /\ owner' = p /\ expired' = FALSE
  /\ conn' = [conn EXCEPT ![p] = "claimed"]
  /\ UNCHANGED <<stalled, clients, mapped, mishaps, late>>

(* cardputer_audio_ipc_heartbeat()                                          *)
Renews(p) == owner = p /\ ~expired

(* cardputer_audio_ipc_release()                                            *)
Release(p) ==
  IF owner = p
  THEN /\ owner' = nobody /\ expired' = FALSE
       /\ ResetRing(server)
  ELSE UNCHANGED <<owner, expired, ringVars>>

(* start() maps the ring and is ready after a first heartbeat.              *)
Ready(p) ==
  /\ conn[p] = "claimed" /\ Runs(p) /\ ServerFree
  /\ Renews(p)
  /\ conn' = [conn EXCEPT ![p] = "ready"]
  /\ UNCHANGED <<ringVars, owner, expired, stalled, clients, mapped, mishaps,
                 late>>

NotReady(p) ==
  /\ conn[p] = "claimed" /\ Runs(p) /\ ServerFree
  /\ ~Renews(p)
  /\ Release(p)
  /\ conn' = [conn EXCEPT ![p] = "away"]
  /\ UNCHANGED <<stalled, clients, mapped, mishaps, late>>

(* stop(), because a heartbeat was refused or because the companion ends: no *)
(* new write, a reset by this process, then the release.  A write that has   *)
(* begun goes on.                                                           *)
GiveUp(p) ==
  /\ conn[p] \in {"ready", "orphan"} /\ Runs(p)
  /\ IF conn[p] = "ready"
     THEN ResetRing(p) /\ conn' = [conn EXCEPT ![p] = "stopping"]
     ELSE UNCHANGED ringVars /\ conn' = [conn EXCEPT ![p] = "away"]
  /\ UNCHANGED <<owner, expired, stalled, clients, mapped, mishaps, late>>

Leave(p) ==
  /\ conn[p] = "stopping" /\ Runs(p) /\ ServerFree
  /\ reset[p].pc = "idle"
  /\ Release(p)
  /\ conn' = [conn EXCEPT ![p] = "away"]
  /\ UNCHANGED <<stalled, clients, mapped, mishaps, late>>

-----------------------------------------------------------------------------
(* write() and reset() of the pipeline, one after the other on its queue.   *)
WriteStart(p) ==
  /\ conn[p] = "ready" /\ Runs(p) /\ reset[p].pc = "idle"
  /\ WriteLoad(p)
  /\ late' = (late \/ owner # p)
  /\ UNCHANGED <<owner, expired, conn, stalled, clients, mapped, mishaps>>

WriteGoesOn(p) ==
  /\ Runs(p)
  /\ WriteCopy(p) \/ WriteStore(p)
  /\ late' = (late \/ owner # p)
  /\ UNCHANGED <<owner, expired, conn, stalled, clients, mapped, mishaps>>

PipelineReset(p) ==
  /\ conn[p] = "ready" /\ Runs(p) /\ ~Writing(p)
  /\ ResetRing(p)
  /\ UNCHANGED leaseVars

ResetGoesOn(t) ==
  /\ t \notin stalled
  /\ ResetStore(t)
  /\ late' = (late /\ ~(/\ Undisturbed(t)
                       /\ \A p \in Producer : Writing(p) => owner = p))
  /\ UNCHANGED <<owner, expired, conn, stalled, clients, mapped, mishaps>>

-----------------------------------------------------------------------------
(* The device: its first client maps the ring of the server there is, or     *)
(* keeps the one it has if that fails.  A ring is not replaced while a       *)
(* client runs.                                                             *)
MayReplaceRing == clients = 0
ConnectSharedRing == mapped' = "this" \/ UNCHANGED mapped
StartIO ==
  /\ clients < MaxClients
  /\ clients' = clients + 1
  /\ IF MayReplaceRing THEN ConnectSharedRing ELSE UNCHANGED mapped
  /\ UNCHANGED <<ringVars, owner, expired, conn, stalled, mishaps, late>>

StopIO ==
  /\ clients > 0 /\ ~Reading
  /\ clients' = clients - 1
  /\ UNCHANGED <<ringVars, owner, expired, conn, stalled, mapped, mishaps,
                 late>>

Render ==
  /\ clients > 0 /\ mapped = "this"
  /\ ReadLoad
  /\ UNCHANGED leaseVars

RenderGoesOn ==
  /\ ReadCopy \/ ReadStore
  /\ UNCHANGED leaseVars

-----------------------------------------------------------------------------
(* A process stalls, or goes on; meanwhile its lease runs out.              *)
Stall(p) ==
  /\ conn[p] # "away" /\ Runs(p) /\ Mishap
  /\ stalled' = stalled \cup {p}
  /\ UNCHANGED <<ringVars, owner, expired, conn, clients, mapped, late>>

GoesOn(p) ==
  /\ p \in stalled
  /\ stalled' = stalled \ {p}
  /\ UNCHANGED <<ringVars, owner, expired, conn, clients, mapped, mishaps,
                 late>>

Expire ==
  /\ owner = "gone" \/ owner \in stalled
  /\ ServerFree /\ ~expired
  /\ expired' = TRUE
  /\ UNCHANGED <<ringVars, owner, conn, stalled, clients, mapped, mishaps,
                 late>>

(* A process dies in whatever it does; the server hears of it later.        *)
Dies(p) ==
  /\ conn[p] # "away" /\ Mishap
  /\ write' = [write EXCEPT ![p] = Idle]
  /\ reset' = [reset EXCEPT ![p] = Idle]
  /\ conn' = [conn EXCEPT ![p] = "away"]
  /\ stalled' = stalled \ {p}
  /\ owner' = IF owner = p THEN "gone" ELSE owner
  /\ UNCHANGED <<frames, readCounter, writeCounter, read, out, spoiled,
                 expired, clients, mapped, late>>

(* handle_message() with the error of a connection that has ended.          *)
PeerGone ==
  /\ owner = "gone" /\ ServerFree
  /\ Release("gone")
  /\ UNCHANGED <<conn, stalled, clients, mapped, mishaps, late>>

(* The server restarts: a new ring, a new lease, and nobody knows.  Nothing  *)
(* is promised for the new ring before the reset of its first claim.        *)
ServerRestarts ==
  /\ Mishap
  /\ frames' = [i \in 0 .. Capacity - 1 |-> Silence]
  /\ readCounter' = 0 /\ writeCounter' = 0
  /\ write' = [p \in Producer |-> Idle]
  /\ read' = Idle /\ out' = Nothing
  /\ reset' = [t \in Resetter |-> Idle]
  /\ spoiled' = TRUE
  /\ owner' = nobody /\ expired' = FALSE
  /\ conn' = [p \in Producer |-> IF conn[p] = "away" THEN "away" ELSE "orphan"]
  /\ mapped' = IF mapped = "this" THEN "old" ELSE mapped
  /\ late' = FALSE
  /\ UNCHANGED <<stalled, clients>>

-----------------------------------------------------------------------------
Process(p) ==
  \/ Claim(p) \/ Ready(p) \/ NotReady(p) \/ GiveUp(p) \/ Leave(p)
  \/ WriteStart(p) \/ WriteGoesOn(p) \/ PipelineReset(p)
Device == StartIO \/ StopIO \/ Render \/ RenderGoesOn
Environment(p) == Stall(p) \/ GoesOn(p) \/ Dies(p)

LeaseNext ==
  \/ \E p \in Producer : Process(p) \/ Environment(p)
  \/ \E t \in Resetter : ResetGoesOn(t)
  \/ Device \/ Expire \/ PeerGone \/ ServerRestarts

LeaseSpec == LeaseInit /\ [][LeaseNext]_leaseAndRing

(* The companion polls for a connection, beats every half second and leaves  *)
(* one that is refused; deadlines pass; what has begun goes on.             *)
LeaseFairness ==
  /\ \A p \in Producer :
       /\ WF_leaseAndRing(Claim(p)) /\ WF_leaseAndRing(Ready(p) \/ NotReady(p))
       /\ WF_leaseAndRing(GiveUp(p) /\ ~Renews(p)) /\ WF_leaseAndRing(Leave(p))
       /\ WF_leaseAndRing(WriteGoesOn(p))
  /\ \A t \in Resetter : WF_leaseAndRing(ResetGoesOn(t))
  /\ WF_leaseAndRing(RenderGoesOn)
  /\ WF_leaseAndRing(Expire) /\ WF_leaseAndRing(PeerGone)
FairLeaseSpec == LeaseSpec /\ LeaseFairness

-----------------------------------------------------------------------------
(* What waits in the ring comes from the process that holds the lease, while *)
(* nobody else has written and no reset was disturbed.                      *)
OwnerIsHeard ==
  owner \in Producer /\ ServerFree /\ ~spoiled /\ ~late =>
    \A i \in DOMAIN Held : Held[i].by = owner

(* A process that asks again and again gets the lease while no other one     *)
(* uses it, also when the one that had it hangs for ever.                   *)
LeaseComesFree ==
  \A p \in Producer :
    <>[](Runs(p) /\ \A q \in Producer \ {p} : ~Runs(q) \/ conn[q] = "away")
      => []<>(conn[p] = "ready")
=============================================================================
