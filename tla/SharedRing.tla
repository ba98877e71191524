------------------------------ MODULE SharedRing ------------------------------
(***************************************************************************)
(* The ring in shared memory (CardputerAudioRing) between the companion,     *)
(* which writes decoded audio, and CoreAudio, which reads it: two counters,  *)
(* each stored by one side, and no lock.  A write and a read load the        *)
(* counters, copy, and store; a reset, which any of the processes may run    *)
(* at any moment, loads the write counter and stores it as the read counter. *)
(*                                                                         *)
(* A frame is known by who wrote it and for which place of the recording.    *)
(* The counters have 64 bits and never come to their end.                    *)
(***************************************************************************)
EXTENDS Naturals

CONSTANTS
  Capacity,       (* CARDPUTER_AUDIO_RING_CAPACITY                          *)
  Block,          (* the most frames of one call                            *)
  Producer,       (* processes that may write                               *)
  Resetter,       (* threads that may reset                                 *)
  MaxFrames       (* bound: a write or a read starts below this place       *)

ASSUME RingAssumption ==
  /\ Capacity \in Nat \ {0}
  /\ Block \in Nat \ {0}
  /\ MaxFrames \in Nat

VARIABLES
  frames,         (* frames[i], i < Capacity                                *)
  readCounter, writeCounter,
  write,          (* per producer: its cardputer_audio_ring_write()         *)
  read,           (* the cardputer_audio_ring_read() of the device          *)
  reset,          (* per resetter: its cardputer_audio_ring_reset()         *)
  out,            (* the block a read gives to CoreAudio                    *)
  spoiled         (* history: a reset fell into a read, or two writes into  *)
                  (* each other, and no undisturbed reset has come since    *)

ringVars ==
  <<frames, readCounter, writeCounter, write, read, reset, out, spoiled>>

Silence == [by |-> "nobody", at |-> 0]
Frame == [by : Producer, at : Nat] \cup {Silence}
Nothing == [i \in {} |-> Silence]
Idle == [pc |-> "idle", from |-> 0, count |-> 0]

RingInit ==
  /\ frames = [i \in 0 .. Capacity - 1 |-> Silence]
  /\ readCounter = 0 /\ writeCounter = 0
  /\ write = [p \in Producer |-> Idle]
  /\ read = Idle
  /\ reset = [t \in Resetter |-> Idle]
  /\ out = Nothing
  /\ spoiled = FALSE

(* bounded_available(): the distance is unsigned, so a read counter that is  *)
(* ahead looks like a full ring.                                            *)
Available ==
  IF readCounter <= writeCounter /\ writeCounter - readCounter <= Capacity
  THEN writeCounter - readCounter
  ELSE Capacity

(* The cells of a block.                                                    *)
Cells(op) == {(op.from + i) % Capacity : i \in 0 .. op.count - 1}

Writing(p) == write[p].pc # "idle"
Reading == read.pc # "idle"

-----------------------------------------------------------------------------
(* cardputer_audio_ring_write(): what does not fit is not taken.            *)
(* Mistakes the properties catch.                                           *)
WriteLoad_OneMore(p) ==
  /\ ~Writing(p) /\ writeCounter < MaxFrames
  /\ \E n \in 1 .. Block :
       /\ n <= Capacity - Available + 1
       /\ write' = [write EXCEPT ![p] =
                      [pc |-> "copy", from |-> writeCounter, count |-> n]]
  /\ spoiled' = (spoiled \/ \E q \in Producer : Writing(q))
  /\ UNCHANGED <<frames, readCounter, writeCounter, read, reset, out>>
WriteLoad_Published(p) ==
  /\ ~Writing(p) /\ writeCounter < MaxFrames
  /\ \E n \in 1 .. Block :
       /\ n <= Capacity - Available
       /\ write' = [write EXCEPT ![p] =
                      [pc |-> "copy", from |-> writeCounter, count |-> n]]
       /\ writeCounter' = writeCounter + n
  /\ spoiled' = (spoiled \/ \E q \in Producer : Writing(q))
  /\ UNCHANGED <<frames, readCounter, read, reset, out>>
WriteLoad(p) ==
  /\ ~Writing(p) /\ writeCounter < MaxFrames
  /\ \E n \in 1 .. Block :
       /\ n <= Capacity - Available
       /\ write' = [write EXCEPT ![p] =
                      [pc |-> "copy", from |-> writeCounter, count |-> n]]
  /\ spoiled' = (spoiled \/ \E q \in Producer : Writing(q))
  /\ UNCHANGED <<frames, readCounter, writeCounter, read, reset, out>>

WriteCopy(p) ==
  /\ write[p].pc = "copy"
  /\ write' = [write EXCEPT ![p].pc = "store"]
  /\ frames' = [c \in 0 .. Capacity - 1 |->
       IF \E i \in 0 .. write[p].count - 1 : c = (write[p].from + i) % Capacity
       THEN [by |-> p,
             at |-> CHOOSE a \in write[p].from ..
                                 write[p].from + write[p].count - 1 :
                      c = a % Capacity]
       ELSE frames[c]]
  /\ UNCHANGED <<readCounter, writeCounter, read, reset, out, spoiled>>

WriteStore(p) ==
  /\ write[p].pc = "store"
  /\ write' = [write EXCEPT ![p] = Idle]
  /\ writeCounter' = write[p].from + write[p].count
  /\ UNCHANGED <<frames, readCounter, read, reset, out, spoiled>>

(* cardputer_audio_ring_read(): what is not there is silence.               *)
ReadLoad ==
  /\ ~Reading /\ readCounter < MaxFrames
  /\ \E n \in 1 .. Block :
       /\ n <= Available
       /\ read' = [pc |-> "copy", from |-> readCounter, count |-> n]
  /\ UNCHANGED <<frames, readCounter, writeCounter, write, reset, out, spoiled>>

ReadCopy ==
  /\ read.pc = "copy"
  /\ read' = [read EXCEPT !.pc = "store"]
  /\ out' = [i \in read.from .. read.from + read.count - 1 |->
               frames[i % Capacity]]
  /\ UNCHANGED <<frames, readCounter, writeCounter, write, reset, spoiled>>

ReadStore ==
  /\ read.pc = "store"
  /\ read' = Idle
  /\ readCounter' = read.from + read.count
  /\ out' = Nothing
  /\ UNCHANGED <<frames, writeCounter, write, reset, spoiled>>

-----------------------------------------------------------------------------
(* cardputer_audio_ring_reset(): it does not wait for the device.           *)
ResetLoad(t) ==
  /\ reset[t].pc = "idle"
  /\ reset' = [reset EXCEPT ![t] =
                 [pc |-> "store", from |-> writeCounter, count |-> 0]]
  /\ UNCHANGED <<frames, readCounter, writeCounter, write, read, out, spoiled>>

(* Nothing else is going on, or one write that has nothing copied yet.      *)
Undisturbed(t) ==
  /\ reset[t].from = writeCounter /\ ~Reading
  /\ \A p \in Producer : Writing(p) =>
       /\ write[p].pc = "copy" /\ write[p].from = writeCounter
       /\ \A q \in Producer : Writing(q) => q = p
Disturbs(t) ==
  Reading \/ reset[t].from < readCounter \/ reset[t].from > writeCounter

ResetStore(t) ==
  /\ reset[t].pc = "store"
  /\ reset' = [reset EXCEPT ![t] = Idle]
  /\ readCounter' = reset[t].from
  /\ spoiled' = ((spoiled /\ ~Undisturbed(t)) \/ Disturbs(t))
  /\ UNCHANGED <<frames, writeCounter, write, read, out>>

RingNext ==
  \/ \E p \in Producer : WriteLoad(p) \/ WriteCopy(p) \/ WriteStore(p)
  \/ ReadLoad \/ ReadCopy \/ ReadStore
  \/ \E t \in Resetter : ResetLoad(t) \/ ResetStore(t)

RingSpec == RingInit /\ [][RingNext]_ringVars

-----------------------------------------------------------------------------
(* The frames that wait; those of a block that is copied are out already.   *)
First == IF read.pc = "store" THEN read.from + read.count ELSE readCounter
Held == [i \in First .. writeCounter - 1 |-> frames[i % Capacity]]

Channel == INSTANCE AudioChannel
  WITH first <- First, last <- writeCounter, held <- Held, out <- out

(* CoreAudio hears every frame once, in order, until a reset drops the rest, *)
(* except after a reset that fell into a read or a write that fell into      *)
(* another one, up to the next reset that did not.                          *)
ImplementsChannel ==
  [][spoiled \/ spoiled' \/ Channel!ChannelNext]_(Channel!channelVars)

(* Under the same exception no cell is written while it is read.            *)
CellsApart ==
  \A p \in Producer :
    ~spoiled /\ Writing(p) /\ Reading => Cells(write[p]) \cap Cells(read) = {}
=============================================================================
