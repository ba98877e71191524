-------------------------- MODULE AudioBridge_proofs --------------------------
(* Proofs about the companion's audio bridge: the ring in shared memory, for *)
(* every capacity, any number of writers and of resets, and reads, writes and *)
(* resets interleaved (SharedRing); the lease on it, whose processes stall and *)
(* die and whose server restarts (AudioLease); and the Bluetooth link, to     *)
(* which its threads post their calls (AudioRecovery).                        *)
EXTENDS AudioLease, AudioRecovery, Integers, TLAPS

-----------------------------------------------------------------------------
(* Two places less than a turn of the ring apart have different cells.       *)
LEMMA NoSmallMultiple ==
  ASSUME NEW c \in Nat \ {0}, NEW k \in Int, 0 < c * k, c * k < c
  PROVE  FALSE
<1>1. CASE k <= 0
  <2>1. c * k <= 0
    BY <1>1, SMT
  <2> QED
    BY <2>1, SMT
<1>2. CASE k >= 1
  <2>1. c * (k - 1) >= 0
    BY <1>2, SMT
  <2>2. c * k = c * (k - 1) + c
    BY SMT
  <2> QED
    BY <2>1, <2>2, SMT
<1> QED
  BY <1>1, <1>2, SMT

LEMMA CellsDiffer ==
  ASSUME NEW i \in Nat, NEW j \in Nat, i < j, j < i + Capacity
  PROVE  i % Capacity # j % Capacity
<1> SUFFICES ASSUME i % Capacity = j % Capacity PROVE FALSE
  OBVIOUS
<1>0. Capacity \in Nat \ {0}
  BY RingAssumption
<1>1. i = Capacity * (i \div Capacity) + (i % Capacity)
  BY <1>0, SMT
<1>2. j = Capacity * (j \div Capacity) + (j % Capacity)
  BY <1>0, SMT
<1> DEFINE a == i \div Capacity
           b == j \div Capacity
<1>3. a \in Int /\ b \in Int
  BY <1>0, SMT
<1>4. j - i = Capacity * b - Capacity * a
  BY <1>0, <1>1, <1>2, <1>3, SMT
<1>5. Capacity * b - Capacity * a = Capacity * (b - a)
  BY <1>0, <1>3, SMT
<1>6. 0 < Capacity * (b - a) /\ Capacity * (b - a) < Capacity
  BY <1>0, <1>4, <1>5, SMT
<1> QED
  BY <1>0, <1>3, <1>6, NoSmallMultiple

LEMMA FewerPlaces ==
  ASSUME NEW a \in Nat, NEW b \in Nat, NEW c \in Nat, b <= c
  PROVE  \A i \in a .. b - 1 : i \in a .. c - 1
  BY SMT

LEMMA MoreRoom ==
  ASSUME NEW r \in Nat, NEW s \in Nat, NEW w \in Nat, NEW n \in Nat,
         w <= r + n, r <= s
  PROVE  w <= s + n
  BY SMT

LEMMA CellIsCell ==
  ASSUME NEW i \in Nat
  PROVE  i % Capacity \in 0 .. Capacity - 1
  BY RingAssumption, SMT

-----------------------------------------------------------------------------
(* The inductive invariant: types, and what holds unless it is spoiled.      *)
Op == [pc : {"idle", "copy", "store"}, from : Nat, count : Nat]

RingTypes ==
  /\ frames \in [0 .. Capacity - 1 -> Frame]
  /\ readCounter \in Nat /\ writeCounter \in Nat
  /\ write \in [Producer -> Op] /\ read \in Op /\ reset \in [Resetter -> Op]
  /\ spoiled \in BOOLEAN
  /\ \A p \in Producer :
       Writing(p) => write[p].count \in 1 .. Capacity
  /\ Reading => read.count \in 1 .. Capacity

CountersFit ==
  /\ readCounter <= writeCounter
  /\ writeCounter <= readCounter + Capacity

WriteFits ==
  \A p \in Producer : Writing(p) =>
    /\ write[p].from = writeCounter
    /\ writeCounter + write[p].count <= readCounter + Capacity
    /\ \A q \in Producer : Writing(q) => q = p

WriteIsCopied ==
  \A p \in Producer : write[p].pc = "store" =>
    \A i \in write[p].from .. write[p].from + write[p].count - 1 :
      frames[i % Capacity].at = i

ReadFits ==
  Reading =>
    /\ read.from = readCounter
    /\ readCounter + read.count <= writeCounter

Sound == CountersFit /\ WriteFits /\ WriteIsCopied /\ ReadFits
RingInv == RingTypes /\ (~spoiled => Sound)

LEMMA RingInit_Inv == RingInit => RingInv
<1> SUFFICES ASSUME RingInit PROVE RingInv
  OBVIOUS
<1> USE DEF RingInit, Idle, Silence, Nothing
<1>1. RingTypes
  BY RingAssumption DEF RingTypes, Op, Frame, Writing, Reading, Silence
<1>2. Sound
  BY RingAssumption DEF Sound, CountersFit, WriteFits, WriteIsCopied, ReadFits,
       Writing, Reading
<1> QED
  BY <1>1, <1>2 DEF RingInv

LEMMA AvailableFits ==
  ASSUME readCounter \in Nat, writeCounter \in Nat
  PROVE  /\ Available \in 0 .. Capacity
         /\ CountersFit => Available = writeCounter - readCounter
  BY RingAssumption, SMT DEF Available, CountersFit

(* Each step keeps the types.                                               *)
LEMMA TypesStep ==
  ASSUME RingTypes, [RingNext]_ringVars PROVE RingTypes'
<1> USE RingAssumption DEF RingTypes, Op
<1>1. ASSUME NEW p \in Producer, WriteLoad(p) PROVE RingTypes'
  <2>1. PICK n \in 1 .. Block :
          /\ n <= Capacity - Available
          /\ write' = [write EXCEPT ![p] =
                         [pc |-> "copy", from |-> writeCounter, count |-> n]]
    BY <1>1 DEF WriteLoad
  <2>2. n \in 1 .. Capacity
    BY <2>1, AvailableFits
  <2>3. write' \in [Producer -> Op]
    BY <2>1, <2>2
  <2>4. \A q \in Producer : Writing(q)' => write'[q].count \in 1 .. Capacity
    BY <2>1, <2>2 DEF Writing
  <2>5. spoiled' \in BOOLEAN
    BY <1>1 DEF WriteLoad
  <2> QED
    BY <1>1, <2>3, <2>4, <2>5 DEF WriteLoad, Reading
<1>2. ASSUME NEW p \in Producer, WriteCopy(p) PROVE RingTypes'
  <2>1. write' = [write EXCEPT ![p].pc = "store"]
    BY <1>2 DEF WriteCopy
  <2>2. write' \in [Producer -> Op]
    BY <2>1
  <2>3. \A q \in Producer : Writing(q)' => write'[q].count \in 1 .. Capacity
    BY <1>2, <2>1 DEF Writing, WriteCopy
  <2>4. frames' \in [0 .. Capacity - 1 -> Frame]
    <3> DEFINE from == write[p].from
               count == write[p].count
               block == from .. from + count - 1
               Hit(c) == \E i \in 0 .. count - 1 : c = (from + i) % Capacity
               New(c) ==
                 [by |-> p, at |-> CHOOSE a \in block : c = a % Capacity]
    <3>0. from \in Nat /\ count \in Nat
      OBVIOUS
    <3>1. ASSUME NEW c \in 0 .. Capacity - 1, Hit(c) PROVE New(c) \in Frame
      <4> HIDE DEF from, count
      <4>1. PICK i \in 0 .. count - 1 : c = (from + i) % Capacity
        BY <3>1
      <4>2. from + i \in block
        BY <3>0, <4>1, SMT
      <4>3. (CHOOSE a \in block : c = a % Capacity) \in block
        BY <4>1, <4>2
      <4>4. block \subseteq Nat
        BY <3>0, SMT
      <4> QED
        BY <4>3, <4>4 DEF Frame
    <3>2. frames' = [c \in 0 .. Capacity - 1 |->
                       IF Hit(c) THEN New(c) ELSE frames[c]]
      BY <1>2 DEF WriteCopy
    <3> QED
      BY <3>1, <3>2
  <2> QED
    BY <1>2, <2>2, <2>3, <2>4 DEF WriteCopy, Reading
<1>3. ASSUME NEW p \in Producer, WriteStore(p) PROVE RingTypes'
  <2>1. write' = [write EXCEPT ![p] = Idle] /\ Idle \in Op
    BY <1>3 DEF WriteStore, Idle
  <2>2. writeCounter' \in Nat
    BY <1>3 DEF WriteStore
  <2> QED
    BY <1>3, <2>1, <2>2 DEF WriteStore, Writing, Reading, Idle
<1>4. CASE ReadLoad
  <2>1. PICK n \in 1 .. Block :
          /\ n <= Available
          /\ read' = [pc |-> "copy", from |-> readCounter, count |-> n]
    BY <1>4 DEF ReadLoad
  <2>2. n \in 1 .. Capacity
    BY <2>1, AvailableFits
  <2> QED
    BY <1>4, <2>1, <2>2 DEF ReadLoad, Writing, Reading
<1>5. CASE ReadCopy
  BY <1>5 DEF ReadCopy, Writing, Reading
<1>6. CASE ReadStore
  BY <1>6 DEF ReadStore, Writing, Reading, Idle
<1>7. ASSUME NEW t \in Resetter, ResetLoad(t) PROVE RingTypes'
  BY <1>7 DEF ResetLoad, Writing, Reading
<1>8. ASSUME NEW t \in Resetter, ResetStore(t) PROVE RingTypes'
  BY <1>8 DEF ResetStore, Writing, Reading, Idle
<1>9. CASE UNCHANGED ringVars
  BY <1>9 DEF ringVars, Writing, Reading
<1> QED
  BY <1>1, <1>2, <1>3, <1>4, <1>5, <1>6, <1>7, <1>8, <1>9 DEF RingNext

-----------------------------------------------------------------------------
(* Each step keeps what holds unless the ring is spoiled.  The cells of a    *)
(* write that copies are none that wait, and none that are read.            *)
LEMMA WriteCellsAreFree ==
  ASSUME RingTypes, Sound, NEW p \in Producer, Writing(p),
         NEW i \in readCounter .. writeCounter - 1,
         NEW j \in write[p].from .. write[p].from + write[p].count - 1
  PROVE  i % Capacity # j % Capacity
<1>1. write[p].from = writeCounter /\ write[p].count \in Nat
  BY DEF Sound, WriteFits, RingTypes, Op
<1>2. writeCounter + write[p].count <= readCounter + Capacity
  BY DEF Sound, WriteFits
<1>3. readCounter \in Nat /\ writeCounter \in Nat /\ Capacity \in Nat
  BY RingAssumption DEF RingTypes
<1>4. i \in Nat /\ j \in Nat /\ i < j /\ j < i + Capacity
  BY <1>1, <1>2, <1>3, SMT
<1> QED
  BY <1>4, CellsDiffer

(* A write leaves at each of its places the frame of that place, and touches *)
(* no other cell.                                                           *)
LEMMA CopyWrites ==
  ASSUME RingTypes, NEW p \in Producer, WriteCopy(p)
  PROVE  /\ \A j \in write[p].from .. write[p].from + write[p].count - 1 :
              frames'[j % Capacity].at = j /\ frames'[j % Capacity].by = p
         /\ \A c \in 0 .. Capacity - 1 :
              (\A j \in write[p].from .. write[p].from + write[p].count - 1 :
                 c # j % Capacity) => frames'[c] = frames[c]
<1> DEFINE from == write[p].from
           count == write[p].count
           block == from .. from + count - 1
           Hit(c) == \E i \in 0 .. count - 1 : c = (from + i) % Capacity
           New(c) == [by |-> p, at |-> CHOOSE a \in block : c = a % Capacity]
<1>1. from \in Nat /\ count \in 1 .. Capacity /\ Capacity \in Nat
  BY RingAssumption DEF RingTypes, Op, WriteCopy, Writing
<1>2. frames' = [c \in 0 .. Capacity - 1 |->
                   IF Hit(c) THEN New(c) ELSE frames[c]]
  BY DEF WriteCopy
<1> HIDE DEF from, count
<1>3. ASSUME NEW j \in block
      PROVE  frames'[j % Capacity].at = j /\ frames'[j % Capacity].by = p
  <2>1. j \in Nat /\ j - from \in 0 .. count - 1 /\ from + (j - from) = j
    BY <1>1, SMT
  <2>2. Hit(j % Capacity)
    BY <2>1
  <2>3. j % Capacity \in 0 .. Capacity - 1
    BY <2>1, CellIsCell
  <2>4. ASSUME NEW a \in block, a % Capacity = j % Capacity PROVE a = j
    <3>1. a \in Nat
      BY <1>1, SMT
    <3>2. CASE a < j
      <4>1. j < a + Capacity
        BY <1>1, <3>1, <2>1, SMT
      <4> QED
        BY <4>1, <3>1, <3>2, <2>1, <2>4, CellsDiffer
    <3>3. CASE j < a
      <4>1. a < j + Capacity
        BY <1>1, <3>1, <2>1, SMT
      <4> QED
        BY <4>1, <3>1, <3>3, <2>1, <2>4, CellsDiffer
    <3> QED
      BY <3>1, <3>2, <3>3, <2>1, SMT
  <2>5. (CHOOSE a \in block : j % Capacity = a % Capacity) = j
    BY <2>4
  <2> QED
    BY <1>2, <2>2, <2>3, <2>5
<1>4. ASSUME NEW c \in 0 .. Capacity - 1, \A j \in block : c # j % Capacity
      PROVE  frames'[c] = frames[c]
  <2>1. ~Hit(c)
    <3> SUFFICES ASSUME NEW i \in 0 .. count - 1, c = (from + i) % Capacity
                 PROVE FALSE
      OBVIOUS
    <3>1. from + i \in block
      BY <1>1, SMT
    <3> QED
      BY <1>4, <3>1
  <2> QED
    BY <1>2, <2>1
<1> QED
  BY <1>3, <1>4 DEF from, count

LEMMA SoundStep ==
  ASSUME RingTypes, RingTypes', Sound, [RingNext]_ringVars, ~spoiled'
  PROVE  Sound'
<1> USE RingAssumption
<1> USE DEF RingTypes, Op, CountersFit, WriteFits, ReadFits, WriteIsCopied,
             Sound
<1>1. ASSUME NEW p \in Producer, WriteLoad(p) PROVE Sound'
  <2>1. PICK n \in 1 .. Block :
          /\ n <= Capacity - Available
          /\ write' = [write EXCEPT ![p] =
                         [pc |-> "copy", from |-> writeCounter, count |-> n]]
    BY <1>1 DEF WriteLoad
  <2>2. writeCounter + n <= readCounter + Capacity
    BY <2>1, AvailableFits, SMT
  <2>3. \A q \in Producer : ~Writing(q)
    BY <1>1 DEF WriteLoad
  <2>4. \A q \in Producer : Writing(q)' => q = p
    BY <2>1, <2>3 DEF Writing
  <2>5. write'[p] = [pc |-> "copy", from |-> writeCounter, count |-> n]
    BY <2>1
  <2>6. UNCHANGED <<frames, readCounter, writeCounter, read>>
    BY <1>1 DEF WriteLoad
  <2>7. WriteFits'
    BY <2>2, <2>4, <2>5, <2>6
  <2>8. WriteIsCopied'
    <3> SUFFICES ASSUME NEW q \in Producer, write'[q].pc = "store" PROVE FALSE
      OBVIOUS
    <3>1. q = p
      BY <2>4 DEF Writing
    <3> QED
      BY <2>5, <3>1
  <2> QED
    BY <2>6, <2>7, <2>8 DEF Reading
<1>2. ASSUME NEW p \in Producer, WriteCopy(p) PROVE Sound'
  <2>1. write' = [write EXCEPT ![p].pc = "store"] /\ Writing(p)
    BY <1>2 DEF WriteCopy, Writing
  <2>2. UNCHANGED <<readCounter, writeCounter, read>>
    BY <1>2 DEF WriteCopy
  <2>3. \A q \in Producer : Writing(q)' => q = p
    <3>1. \A q \in Producer : Writing(q) => q = p
      BY <2>1
    <3>2. \A q \in Producer \ {p} : write'[q] = write[q]
      BY <2>1
    <3> QED BY <3>1, <3>2 DEF Writing
  <2>4. /\ write'[p].from = write[p].from
        /\ write'[p].count = write[p].count
    BY <2>1
  <2>5. WriteFits'
    BY <2>1, <2>2, <2>3, <2>4
  <2>6. WriteIsCopied'
    <3> SUFFICES ASSUME NEW q \in Producer, write'[q].pc = "store"
                 PROVE  \A i \in write'[q].from
                                 .. write'[q].from + write'[q].count - 1 :
                          frames'[i % Capacity].at = i
      OBVIOUS
    <3>1. q = p
      BY <2>3 DEF Writing
    <3> QED
      BY <1>2, <2>4, <3>1, CopyWrites
  <2> QED
    BY <2>2, <2>5, <2>6 DEF Reading
<1>3. ASSUME NEW p \in Producer, WriteStore(p) PROVE Sound'
  <2>1. write' = [write EXCEPT ![p] = Idle]
    BY <1>3 DEF WriteStore
  <2>2. /\ writeCounter' = write[p].from + write[p].count
        /\ UNCHANGED <<frames, readCounter, read>>
    BY <1>3 DEF WriteStore
  <2>3. Writing(p)
    BY <1>3 DEF WriteStore, Writing
  <2>4. writeCounter' = writeCounter + write[p].count
    BY <2>2, <2>3
  <2>5. \A q \in Producer : ~Writing(q)'
    BY <2>1, <2>3 DEF Writing, Idle
  <2>6. CountersFit'
    BY <2>2, <2>3, <2>4, SMT
  <2>7. ReadFits'
    BY <2>2, <2>3, <2>4, SMT DEF Reading
  <2> QED
    BY <2>5, <2>6, <2>7 DEF Writing
<1>4. CASE ReadLoad
  <2>1. PICK n \in 1 .. Block :
          /\ n <= Available
          /\ read' = [pc |-> "copy", from |-> readCounter, count |-> n]
    BY <1>4 DEF ReadLoad
  <2>2. readCounter + n <= writeCounter
    BY <2>1, AvailableFits, SMT
  <2> QED
    BY <1>4, <2>1, <2>2 DEF ReadLoad, Writing, Reading
<1>5. CASE ReadCopy
  <2>1. read' = [read EXCEPT !.pc = "store"]
    BY <1>5 DEF ReadCopy
  <2>2. UNCHANGED <<frames, readCounter, writeCounter, write>>
    BY <1>5 DEF ReadCopy
  <2>3. Reading
    BY <1>5 DEF ReadCopy, Reading
  <2> QED
    BY <2>1, <2>2, <2>3 DEF Writing, Reading
<1>6. CASE ReadStore
  <2>1. readCounter' = readCounter + read.count /\ read.count \in Nat
    BY <1>6 DEF ReadStore, Reading
  <2>2. readCounter' <= writeCounter
    BY <1>6, <2>1 DEF ReadStore, Reading
  <2>3. UNCHANGED <<frames, writeCounter, write>> /\ ~Reading'
    BY <1>6 DEF ReadStore, Reading, Idle
  <2>4. CountersFit'
    BY <2>1, <2>2, <2>3, SMT
  <2>5. WriteFits'
    BY <2>1, <2>3, SMT DEF Writing
  <2> QED
    BY <2>3, <2>4, <2>5 DEF Writing
<1>7. ASSUME NEW t \in Resetter, ResetLoad(t) PROVE Sound'
  BY <1>7 DEF ResetLoad, Writing, Reading
<1>8. ASSUME NEW t \in Resetter, ResetStore(t) PROVE Sound'
  <2>1. ~Disturbs(t)
    BY <1>8 DEF ResetStore
  <2>2. /\ readCounter <= readCounter' /\ readCounter' <= writeCounter
        /\ ~Reading
    BY <1>8, <2>1, SMT DEF ResetStore, Disturbs
  <2>3. UNCHANGED <<frames, writeCounter, write, read>>
    BY <1>8 DEF ResetStore
  <2>4. CountersFit'
    <3>1. /\ readCounter \in Nat /\ readCounter' \in Nat
          /\ writeCounter \in Nat /\ Capacity \in Nat
          /\ writeCounter <= readCounter + Capacity
          /\ writeCounter' = writeCounter
      BY <2>3
    <3>2. readCounter' <= writeCounter'
      BY <2>2, <3>1
    <3>3. writeCounter' <= readCounter' + Capacity
      <4>1. writeCounter <= readCounter' + Capacity
        BY <2>2, <3>1, MoreRoom
      <4> QED
        BY <3>1, <4>1
    <3> QED
      BY <3>2, <3>3
  <2>5. WriteFits'
    BY <2>2, <2>3, SMT DEF Writing
  <2> QED
    BY <2>2, <2>3, <2>4, <2>5 DEF Writing, Reading
<1>9. CASE UNCHANGED ringVars
  BY <1>9 DEF ringVars, Writing, Reading
<1> QED
  BY <1>1, <1>2, <1>3, <1>4, <1>5, <1>6, <1>7, <1>8, <1>9 DEF RingNext

(* A reset that nothing disturbs makes a spoiled ring sound again.           *)
LEMMA SoundAgain ==
  ASSUME RingTypes, RingTypes', spoiled, [RingNext]_ringVars, ~spoiled'
  PROVE  Sound'
<1> USE RingAssumption
<1>1. PICK t \in Resetter : ResetStore(t)
  BY DEF RingNext, ringVars, WriteLoad, WriteCopy, WriteStore, ReadLoad,
         ReadCopy, ReadStore, ResetLoad
<1>2. Undisturbed(t) /\ readCounter' = writeCounter
  BY <1>1 DEF ResetStore, Undisturbed
<1>3. UNCHANGED <<frames, writeCounter, write, read>>
  BY <1>1 DEF ResetStore
<1>4. CountersFit' /\ ReadFits'
  BY <1>2, <1>3 DEF RingTypes, CountersFit, ReadFits, Undisturbed, Reading
<1>5. WriteFits'
  BY <1>2, <1>3 DEF RingTypes, Op, WriteFits, Undisturbed, Writing
<1>6. WriteIsCopied'
  BY <1>2, <1>3 DEF WriteIsCopied, Undisturbed, Writing
<1> QED
  BY <1>4, <1>5, <1>6 DEF Sound

THEOREM RingInvariant == RingSpec => []RingInv
<1>1. RingInv /\ [RingNext]_ringVars => RingInv'
  <2> SUFFICES ASSUME RingInv, [RingNext]_ringVars PROVE RingInv'
    OBVIOUS
  <2>1. RingTypes'
    BY TypesStep DEF RingInv
  <2>2. ~spoiled' => Sound'
    BY <2>1, SoundStep, SoundAgain DEF RingInv
  <2> QED
    BY <2>1, <2>2 DEF RingInv
<1> QED
  BY RingInit_Inv, <1>1, PTL DEF RingSpec

-----------------------------------------------------------------------------
LEMMA ApartInRing == RingInv => CellsApart
<1> SUFFICES ASSUME RingTypes, Sound, NEW p \in Producer, Writing(p), Reading,
                    NEW c \in Cells(write[p]), c \in Cells(read)
             PROVE  FALSE
  BY DEF RingInv, CellsApart
<1>1. /\ write[p].from \in Nat /\ write[p].count \in Nat
      /\ readCounter \in Nat /\ read.count \in Nat /\ writeCounter \in Nat
  BY DEF RingTypes, Op
<1>2. read.from = readCounter /\ readCounter + read.count <= writeCounter
  BY DEF Sound, ReadFits
<1>3. PICK j \in 0 .. write[p].count - 1 : c = (write[p].from + j) % Capacity
  BY DEF Cells
<1>4. PICK i \in 0 .. read.count - 1 : c = (read.from + i) % Capacity
  BY DEF Cells
<1>5. read.from + i \in readCounter .. writeCounter - 1
  BY <1>1, <1>2, <1>4, SMT
<1>6. write[p].from + j
        \in write[p].from .. write[p].from + write[p].count - 1
  BY <1>1, <1>3, SMT
<1> QED
  BY <1>3, <1>4, <1>5, <1>6, WriteCellsAreFree

(* No cell is written while it is read, unless the ring is spoiled.          *)
THEOREM CellsAreApart == RingSpec => []CellsApart
BY RingInvariant, ApartInRing, PTL

(* What CoreAudio hears is a channel: each step of the ring is one of the    *)
(* channel or leaves it alone, unless the ring is spoiled.                  *)
LEMMA ChannelStep ==
  ASSUME RingTypes, RingTypes', Sound, Sound', [RingNext]_ringVars, ~spoiled'
  PROVE  Channel!ChannelNext \/ UNCHANGED <<First, writeCounter, Held, out>>
<1> USE DEF Channel!ChannelNext
<1> DEFINE Same == UNCHANGED <<First, writeCounter, Held, out>>
<1>0. /\ readCounter \in Nat /\ writeCounter \in Nat /\ Capacity \in Nat
      /\ readCounter <= First /\ First <= writeCounter /\ First \in Nat
  BY RingAssumption, SMT
     DEF RingTypes, Op, Sound, CountersFit, ReadFits, First, Reading
<1>1. ASSUME NEW p \in Producer, WriteLoad(p) PROVE Same
  BY <1>1 DEF WriteLoad, First, Held
<1>2. ASSUME NEW p \in Producer, WriteCopy(p) PROVE Same
  <2>1. UNCHANGED <<First, writeCounter, out>>
    BY <1>2 DEF WriteCopy, First
  <2>2. ASSUME NEW i \in First .. writeCounter - 1
        PROVE  frames'[i % Capacity] = frames[i % Capacity]
    <3>1. i \in readCounter .. writeCounter - 1 /\ i \in Nat
      BY <1>0, SMT
    <3>2. i % Capacity \in 0 .. Capacity - 1
      BY <3>1, CellIsCell
    <3>3. Writing(p)
      BY <1>2 DEF WriteCopy, Writing
    <3>4. \A j \in write[p].from .. write[p].from + write[p].count - 1 :
            i % Capacity # j % Capacity
      BY <3>1, <3>3, WriteCellsAreFree
    <3> QED
      BY <1>2, <3>2, <3>4, CopyWrites
  <2> QED
    BY <2>1, <2>2 DEF Held
<1>3. ASSUME NEW p \in Producer, WriteStore(p) PROVE Channel!Put
  <2>1. /\ write[p].from = writeCounter /\ write[p].count \in 1 .. Capacity
        /\ \A i \in write[p].from .. write[p].from + write[p].count - 1 :
             frames[i % Capacity].at = i
    BY <1>3 DEF WriteStore, Writing, RingTypes, Sound, WriteFits, WriteIsCopied
  <2>2. /\ writeCounter' = writeCounter + write[p].count
        /\ UNCHANGED <<First, frames, out>>
    BY <1>3, <2>1 DEF WriteStore, First
  <2>3. writeCounter' > writeCounter
    BY <1>0, <2>1, <2>2, SMT
  <2>4. DOMAIN Held' = First' .. writeCounter' - 1
    BY DEF Held
  <2>5. ASSUME NEW i \in First .. writeCounter - 1 PROVE Held'[i] = Held[i]
    <3>1. i \in First' .. writeCounter' - 1
      BY <1>0, <2>1, <2>2, SMT
    <3> QED
      BY <2>2, <3>1 DEF Held
  <2>6. ASSUME NEW i \in writeCounter .. writeCounter' - 1 PROVE Held'[i].at = i
    <3>1. i \in First' .. writeCounter' - 1
      BY <1>0, <2>2, SMT
    <3>2. Held'[i] = frames[i % Capacity]
      BY <2>2, <3>1 DEF Held
    <3>3. i \in write[p].from .. write[p].from + write[p].count - 1
      BY <1>0, <2>1, <2>2, SMT
    <3> QED
      BY <2>1, <3>2, <3>3
  <2> QED
    BY <2>2, <2>3, <2>4, <2>5, <2>6 DEF Channel!Put, Channel!Places
<1>4. CASE ReadLoad
  <2>1. UNCHANGED <<frames, writeCounter, readCounter, out>>
    BY <1>4 DEF ReadLoad
  <2>2. read.pc # "store" /\ read'.pc # "store"
    BY <1>4 DEF ReadLoad, Reading
  <2>3. UNCHANGED First
    BY <2>1, <2>2 DEF First
  <2> QED
    BY <2>1, <2>3 DEF Held
<1>5. CASE ReadCopy
  <2>1. /\ read.from = readCounter /\ read.count \in 1 .. Capacity
        /\ readCounter + read.count <= writeCounter
    BY <1>5 DEF ReadCopy, Reading, RingTypes, Sound, ReadFits
  <2>2. First = readCounter
    BY <1>5 DEF ReadCopy, First
  <2>3. First' = readCounter + read.count
    BY <1>5, <2>1 DEF ReadCopy, First, RingTypes, Op
  <2>4. UNCHANGED <<frames, writeCounter>>
    BY <1>5 DEF ReadCopy
  <2>5. First' > First /\ First' <= writeCounter /\ First' \in Nat
    BY <1>0, <2>1, <2>2, <2>3, SMT
  <2>6. out' = [i \in First .. First' - 1 |-> frames[i % Capacity]]
    <3>1. read.from = First /\ read.from + read.count = First'
      BY <2>1, <2>2, <2>3
    <3>2. read.from + read.count - 1 = First' - 1
      BY <2>1, <2>3, <1>0, SMT
    <3> QED
      BY <1>5, <3>1, <3>2, Zenon DEF ReadCopy
  <2>7. \A i \in First .. First' - 1 : i \in First .. writeCounter - 1
    BY <1>0, <2>5, FewerPlaces
  <2>8. out' = [i \in First .. First' - 1 |-> Held[i]]
    BY <2>6, <2>7 DEF Held
  <2>9. \A i \in First' .. writeCounter - 1 : i \in First .. writeCounter - 1
    BY <1>0, <2>5, SMT
  <2>10. Held' = [i \in First' .. writeCounter' - 1 |-> Held[i]]
    BY <2>4, <2>9 DEF Held
  <2> QED
    BY <2>4, <2>5, <2>8, <2>10 DEF Channel!Get, Channel!Places
<1>6. CASE ReadStore
  <2>1. /\ UNCHANGED <<First, writeCounter, frames>>
        /\ out' = Nothing
    BY <1>6 DEF ReadStore, First, Idle
  <2>2. UNCHANGED Held
    BY <2>1 DEF Held
  <2> QED
    BY <2>1, <2>2 DEF Channel!Given, Nothing
<1>7. ASSUME NEW t \in Resetter, ResetLoad(t) PROVE Same
  BY <1>7 DEF ResetLoad, First, Held
<1>8. ASSUME NEW t \in Resetter, ResetStore(t) PROVE Same \/ Channel!Flush
  <2>0. ~Disturbs(t)
    BY <1>8 DEF ResetStore
  <2>1. /\ First = readCounter /\ First' = readCounter'
        /\ readCounter <= readCounter' /\ readCounter' <= writeCounter
        /\ readCounter' \in Nat
    BY <1>8, <2>0, SMT
       DEF ResetStore, Disturbs, Reading, First, RingTypes, Op
  <2>2. UNCHANGED <<frames, writeCounter, out>>
    BY <1>8 DEF ResetStore
  <2>3. CASE readCounter' = readCounter
    BY <2>1, <2>2, <2>3 DEF Held
  <2>4. CASE readCounter' > readCounter
    <3>1. \A i \in First' .. writeCounter - 1 : i \in First .. writeCounter - 1
      BY <1>0, <2>1, SMT
    <3>2. Held' = [i \in First' .. writeCounter' - 1 |-> Held[i]]
      BY <2>2, <3>1 DEF Held
    <3> QED
      BY <2>1, <2>2, <2>4, <3>2 DEF Channel!Flush, Channel!Places
  <2> QED
    BY <1>0, <2>1, <2>3, <2>4, SMT
<1>9. CASE UNCHANGED ringVars
  BY <1>9 DEF ringVars, First, Held
<1> QED
  BY <1>1, <1>2, <1>3, <1>4, <1>5, <1>6, <1>7, <1>8, <1>9 DEF RingNext

THEOREM RingImplementsChannel == RingSpec => ImplementsChannel
<1>1. RingInv /\ RingInv' /\ [RingNext]_ringVars
        => [spoiled \/ spoiled' \/ Channel!ChannelNext]_(Channel!channelVars)
  <2> SUFFICES ASSUME RingInv, RingInv', [RingNext]_ringVars,
                      ~spoiled, ~spoiled'
               PROVE  Channel!ChannelNext \/ UNCHANGED Channel!channelVars
    OBVIOUS
  <2> QED
    BY ChannelStep DEF RingInv, Channel!channelVars
<1> QED
  BY RingInvariant, <1>1, PTL DEF RingSpec, ImplementsChannel

-----------------------------------------------------------------------------
(* The lease                                                                 *)

(* What a write has copied is its own.                                       *)
WriteIsOwn ==
  \A p \in Producer : write[p].pc = "store" =>
    \A i \in write[p].from .. write[p].from + write[p].count - 1 :
      frames[i % Capacity].by = p

OwnedFrom(a) == \A i \in DOMAIN Held : i >= a => Held[i].by = owner

(* The reset of a claim drops what others wrote; all since then is the owner's. *)
Since == IF ServerFree THEN First ELSE reset[server].from
OwnerWaits == ~late /\ owner \in Producer => OwnedFrom(Since)

LeaseInv == RingInv /\ (~spoiled => WriteIsOwn /\ OwnerWaits)

LEMMA LeaseStarts == LeaseInit => LeaseInv
<1> SUFFICES ASSUME LeaseInit PROVE LeaseInv
  OBVIOUS
<1>1. RingInv
  BY RingInit_Inv DEF LeaseInit
<1>2. WriteIsOwn
  BY DEF LeaseInit, RingInit, WriteIsOwn, Idle
<1>3. owner \notin Producer
  BY LeaseAssumption DEF LeaseInit
<1> QED
  BY <1>1, <1>2, <1>3 DEF LeaseInv, OwnerWaits

(* A process that dies takes its write and its reset with it.                 *)
LEMMA DiesKeepsRing ==
  ASSUME RingInv, NEW p \in Producer, Dies(p)
  PROVE  RingInv' /\ UNCHANGED <<First, Held>>
<1>1. /\ UNCHANGED <<frames, readCounter, writeCounter, read, spoiled>>
      /\ write' = [write EXCEPT ![p] = Idle]
      /\ reset' = [reset EXCEPT ![p] = Idle]
  BY DEF Dies
<1>2. RingTypes'
  BY <1>1 DEF RingInv, RingTypes, Op, Idle, Writing, Reading
<1>3. \A q \in Producer :
        write'[q].pc # "idle" => write'[q] = write[q] /\ write[q].pc # "idle"
  BY <1>1 DEF RingInv, RingTypes, Idle
<1>4. Sound => Sound'
  BY <1>1, <1>3 DEF Sound, CountersFit, WriteFits, WriteIsCopied, ReadFits, Writing,
       Reading
<1> QED
  BY <1>1, <1>2, <1>4 DEF RingInv, First, Held

LEMMA RestartKeepsRing ==
  ASSUME ServerRestarts
  PROVE  RingInv' /\ spoiled'
BY RingAssumption
   DEF ServerRestarts, RingInv, RingTypes, Op, Idle, Frame, Silence, Writing, Reading

(* Every other step is one of the ring or leaves it alone.                   *)
LEMMA LeaseStep ==
  ASSUME [LeaseNext]_leaseAndRing
  PROVE  \/ [RingNext]_ringVars
         \/ \E p \in Producer : Dies(p)
         \/ ServerRestarts
<1>0. server \in Resetter /\ \A p \in Producer : p \in Resetter
  BY LeaseAssumption
<1>1. ASSUME NEW p \in Producer, Process(p) PROVE [RingNext]_ringVars
  BY <1>0, <1>1 DEF Process, Claim, Ready, NotReady, GiveUp, Leave, Release, WriteStart,
       WriteGoesOn, PipelineReset, ResetRing, RingNext
<1>2. ASSUME NEW p \in Producer, Environment(p) PROVE Dies(p) \/ UNCHANGED ringVars
  BY <1>2 DEF Environment, Stall, GoesOn
<1>3. ASSUME NEW t \in Resetter, ResetGoesOn(t) PROVE RingNext
  BY <1>3 DEF ResetGoesOn, RingNext
<1>4. CASE Device \/ Expire \/ PeerGone
  BY <1>0, <1>4 DEF Device, StartIO, StopIO, Render, RenderGoesOn, Expire, PeerGone,
       Release, ResetRing, RingNext
<1> QED
  BY <1>1, <1>2, <1>3, <1>4 DEF LeaseNext, leaseAndRing

LEMMA RingKept ==
  ASSUME RingInv, [LeaseNext]_leaseAndRing
  PROVE  RingInv'
<1>1. CASE [RingNext]_ringVars
  BY <1>1, TypesStep, SoundStep, SoundAgain DEF RingInv
<1> QED
  BY <1>1, LeaseStep, DiesKeepsRing, RestartKeepsRing

-----------------------------------------------------------------------------
(* Who is heard                                                              *)

(* What waits after a step has waited before, or was just stored.             *)
LEMMA HeldStays ==
  ASSUME RingTypes, RingTypes', Sound, Sound', [RingNext]_ringVars, ~spoiled'
  PROVE  /\ First \in Nat /\ First <= First'
         /\ \A i \in DOMAIN Held' :
              i < writeCounter => i \in DOMAIN Held /\ Held'[i] = Held[i]
<1>0. /\ First \in Nat /\ First' \in Nat
      /\ writeCounter \in Nat /\ writeCounter' \in Nat
  BY SMT DEF RingTypes, Op, First
<1>1. /\ DOMAIN Held = First .. writeCounter - 1
      /\ DOMAIN Held' = First' .. writeCounter' - 1
  BY DEF Held
<1>2. CASE Channel!Put
  <2>1. /\ First' = First
        /\ \A i \in First .. writeCounter - 1 : Held'[i] = Held[i]
    BY <1>2 DEF Channel!Put, Channel!Places
  <2>2. \A i \in First' .. writeCounter' - 1 :
          i < writeCounter => i \in First .. writeCounter - 1
    BY <1>0, <2>1, SMT
  <2>3. First <= First'
    BY <1>0, <2>1
  <2>4. ASSUME NEW i \in DOMAIN Held', i < writeCounter
        PROVE  i \in DOMAIN Held /\ Held'[i] = Held[i]
    <3>1. i \in First .. writeCounter - 1
      BY <1>1, <2>2, <2>4, Zenon
    <3> QED
      BY <1>1, <2>1, <3>1, Zenon
  <2> QED
    BY <1>0, <2>3, <2>4
<1>3. CASE Channel!Get
  BY <1>0, <1>1, <1>3, SMT DEF Channel!Get, Channel!Places
<1>4. CASE Channel!Flush
  BY <1>0, <1>1, <1>4, SMT DEF Channel!Flush, Channel!Places
<1>5. CASE Channel!Given
  BY <1>0, <1>1, <1>5, SMT DEF Channel!Given
<1>6. CASE UNCHANGED <<First, writeCounter, Held, out>>
  BY <1>0, <1>6
<1> QED
  BY <1>2, <1>3, <1>4, <1>5, <1>6, ChannelStep DEF Channel!ChannelNext

LEMMA OwnWriteStays ==
  ASSUME RingTypes, RingTypes', Sound, Sound', WriteIsOwn, [RingNext]_ringVars
  PROVE  WriteIsOwn'
<1> SUFFICES ASSUME NEW p \in Producer, write'[p].pc = "store"
             PROVE  \A i \in write'[p].from .. write'[p].from + write'[p].count - 1 :
                      frames'[i % Capacity].by = p
  BY DEF WriteIsOwn
<1>1. ASSUME NEW q \in Producer, WriteCopy(q)
      PROVE  \A i \in write'[p].from .. write'[p].from + write'[p].count - 1 :
               frames'[i % Capacity].by = p
  <2>1. /\ write' = [write EXCEPT ![q].pc = "store"] /\ write'[q] = [write[q] EXCEPT !.pc = "store"]
    BY <1>1 DEF WriteCopy, RingTypes
  <2>2. p = q
    BY <2>1 DEF Sound, WriteFits, Writing, RingTypes
  <2> QED
    BY <1>1, <2>1, <2>2, CopyWrites DEF RingTypes, Op
<1>2. CASE /\ UNCHANGED frames
           /\ \A q \in Producer : write'[q].pc = "store" => write'[q] = write[q]
  BY <1>2 DEF WriteIsOwn
<1>3. ASSUME NEW q \in Producer, WriteLoad(q) \/ WriteStore(q)
      PROVE  /\ UNCHANGED frames
             /\ \A r \in Producer : write'[r].pc = "store" => write'[r] = write[r]
  BY <1>3 DEF WriteLoad, WriteStore, RingTypes, Idle
<1>4. CASE \/ ReadLoad \/ ReadCopy \/ ReadStore \/ UNCHANGED ringVars
           \/ \E t \in Resetter : ResetLoad(t) \/ ResetStore(t)
  BY <1>2, <1>4
     DEF ReadLoad, ReadCopy, ReadStore, ResetLoad, ResetStore, ringVars
<1> QED
  BY <1>1, <1>2, <1>3, <1>4 DEF RingNext

(* After a reset that nothing disturbs nothing waits.                        *)
LEMMA NothingWaits ==
  ASSUME RingTypes, NEW t \in Resetter, ResetStore(t), Undisturbed(t)
  PROVE  DOMAIN Held' = {} /\ WriteIsOwn'
<1>1. /\ readCounter' = writeCounter /\ writeCounter' = writeCounter
      /\ read' = read /\ read.pc = "idle" /\ UNCHANGED write
      /\ \A p \in Producer : write[p].pc # "store"
  BY DEF ResetStore, Undisturbed, Reading, Writing
<1>2. First' = writeCounter /\ DOMAIN Held' = writeCounter .. writeCounter - 1
  BY <1>1 DEF First, Held
<1> QED
  BY <1>1, <1>2, SMT DEF RingTypes, WriteIsOwn

LEMMA OwnerStays ==
  ASSUME LeaseInv, RingInv', ~spoiled, ~spoiled', ~late, [RingNext]_ringVars,
         UNCHANGED <<owner, writeCounter>>,
         \A i \in DOMAIN Held' : i >= Since' => i >= Since
  PROVE  OwnerWaits'
<1> SUFFICES ASSUME owner \in Producer, NEW i \in DOMAIN Held', i >= Since'
             PROVE  Held'[i].by = owner
  BY DEF OwnerWaits, OwnedFrom
<1>1. i < writeCounter
  <2>1. DOMAIN Held' = First' .. writeCounter - 1 /\ First' \in Nat /\ writeCounter \in Nat
    BY DEF Held, LeaseInv, RingInv, RingTypes, Op, First
  <2> QED
    BY <2>1, SMT
<1>2. i \in DOMAIN Held /\ Held'[i] = Held[i]
  BY <1>1, HeldStays DEF LeaseInv, RingInv
<1> QED
  BY <1>2 DEF LeaseInv, OwnerWaits, OwnedFrom

LEMMA OwnerSame ==
  ASSUME LeaseInv, ~spoiled, UNCHANGED <<First, Held, owner>>,
         UNCHANGED reset[server], ~late
  PROVE  OwnerWaits'
BY DEF LeaseInv, OwnerWaits, OwnedFrom, Since, ServerFree

LEMMA ReleaseWaits ==
  ASSUME LeaseInv, ~spoiled, ~late, NEW p, Release(p)
  PROVE  OwnerWaits'
<1>1. CASE owner = p
  BY <1>1, LeaseAssumption DEF Release, OwnerWaits
<1>2. CASE owner # p
  BY <1>2, OwnerSame DEF Release, ringVars, First, Held
<1> QED
  BY <1>1, <1>2

LEMMA ProcessWaits ==
  ASSUME LeaseInv, RingInv', NEW p \in Producer, Process(p), ~spoiled', ~late'
  PROVE  OwnerWaits'
<1>0. p # server /\ server \in Resetter /\ p \in Resetter /\ reset \in [Resetter -> Op]
  BY LeaseAssumption DEF LeaseInv, RingInv, RingTypes
<1>1. CASE Claim(p)
  <2>1. ~spoiled /\ ~late
    BY <1>1 DEF Claim, ResetRing, ResetLoad, ringVars
  <2>2. CASE owner = p
    BY <1>1, <2>1, <2>2, OwnerSame DEF Claim, ringVars, First, Held
  <2>3. CASE owner # p
    <3>1. /\ UNCHANGED <<First, Held, writeCounter>>
          /\ reset'[server] = [pc |-> "store", from |-> writeCounter, count |-> 0]
      BY <1>0, <1>1, <2>3 DEF Claim, ResetRing, ResetLoad, First, Held
    <3>2. Since' = writeCounter
      BY <3>1 DEF Since, ServerFree
    <3>3. \A i \in DOMAIN Held' : ~(i >= writeCounter)
      <4>1. DOMAIN Held' = First .. writeCounter - 1 /\ First \in Nat /\ writeCounter \in Nat
        BY <3>1 DEF Held, LeaseInv, RingInv, RingTypes, Op, First
      <4> QED
        BY <4>1, SMT
    <3> QED
      BY <3>2, <3>3 DEF OwnerWaits, OwnedFrom
  <2> QED
    BY <2>2, <2>3
<1>2. CASE Ready(p)
  BY <1>2, OwnerSame DEF Ready, ringVars, First, Held
<1>3. CASE NotReady(p) \/ Leave(p)
  <2>1. Release(p) /\ ~late
    BY <1>3 DEF NotReady, Leave
  <2>2. ~spoiled
    BY <2>1 DEF Release, ResetRing, ResetLoad, ringVars
  <2> QED
    BY <2>1, <2>2, ReleaseWaits
<1>4. CASE GiveUp(p) \/ PipelineReset(p)
  <2>1. /\ UNCHANGED <<First, Held, owner, late, spoiled>>
        /\ UNCHANGED reset[server]
    BY <1>0, <1>4 DEF GiveUp, PipelineReset, ResetRing, ResetLoad, ringVars, leaseVars,
         First, Held
  <2> QED
    BY <2>1, OwnerSame
<1>5. CASE WriteStart(p)
  BY <1>5, OwnerSame DEF WriteStart, WriteLoad, First, Held
<1>6. CASE WriteGoesOn(p)
  <2>1. /\ ~late /\ owner = p /\ ~spoiled
        /\ UNCHANGED <<owner, First, reset>> /\ Since' = Since
    <3>1. (late' = (late \/ owner # p)) /\ UNCHANGED owner
      BY <1>6, Zenon DEF WriteGoesOn
    <3>2. ~late /\ owner = p
      BY <3>1, Zenon
    <3>3. CASE WriteCopy(p)
      BY <3>1, <3>2, <3>3 DEF WriteCopy, First, Since, ServerFree
    <3>4. CASE WriteStore(p)
      BY <3>1, <3>2, <3>4 DEF WriteStore, First, Since, ServerFree
    <3> QED
      BY <1>6, <3>3, <3>4, Zenon DEF WriteGoesOn
  <2>2. CASE WriteCopy(p)
    <3>1. [RingNext]_ringVars /\ UNCHANGED writeCounter
      BY <2>2 DEF RingNext, WriteCopy
    <3> QED
      BY <2>1, <3>1, OwnerStays
  <2>3. CASE WriteStore(p)
    <3> SUFFICES ASSUME NEW i \in DOMAIN Held', i >= Since
                 PROVE  Held'[i].by = p
      BY <2>1 DEF OwnerWaits, OwnedFrom
    <3>1. [RingNext]_ringVars /\ UNCHANGED frames
          /\ writeCounter' = write[p].from + write[p].count
      BY <2>3 DEF RingNext, WriteStore
    <3>2. CASE i < writeCounter
      <4>1. i \in DOMAIN Held /\ Held'[i] = Held[i]
        BY <2>1, <3>1, <3>2, HeldStays DEF LeaseInv, RingInv
      <4> QED
        BY <2>1, <4>1 DEF LeaseInv, OwnerWaits, OwnedFrom
    <3>3. CASE ~(i < writeCounter)
      <4>1. /\ write[p].from = writeCounter /\ write[p].pc = "store"
            /\ \A j \in write[p].from .. write[p].from + write[p].count - 1 :
                 frames[j % Capacity].by = p
        BY <2>1, <2>3 DEF WriteStore, LeaseInv, RingInv, Sound, WriteFits, Writing,
             WriteIsOwn
      <4>2. /\ i \in First' .. writeCounter' - 1 /\ First' \in Nat
            /\ writeCounter \in Nat /\ writeCounter' \in Nat
            /\ Held'[i] = frames[i % Capacity]
        BY <3>1 DEF Held, LeaseInv, RingInv, RingTypes, Op, First
      <4>3. i \in write[p].from .. write[p].from + write[p].count - 1
        <5> DEFINE n == write[p].count
        <5>1. n \in Nat /\ writeCounter' = writeCounter + n
          BY <3>1, <4>1 DEF LeaseInv, RingInv, RingTypes, Op
        <5>2. i \in Nat /\ i <= writeCounter' - 1
          BY <4>2, SMT
        <5>3. i \in writeCounter .. writeCounter + n - 1
          <6> HIDE DEF n
          <6> QED
            BY <3>3, <4>2, <5>1, <5>2, SMT
        <5> QED
          BY <4>1, <5>3
      <4> QED
        BY <4>1, <4>2, <4>3
    <3> QED
      BY <3>2, <3>3
  <2> QED
    BY <1>6, <2>2, <2>3 DEF WriteGoesOn
<1> QED
  BY <1>1, <1>2, <1>3, <1>4, <1>5, <1>6 DEF Process

LEMMA ResetWaits ==
  ASSUME LeaseInv, RingInv', NEW t \in Resetter, ResetGoesOn(t), ~spoiled', ~late'
  PROVE  OwnerWaits'
<1>1. ResetStore(t) /\ UNCHANGED owner
  BY DEF ResetGoesOn
<1>2. CASE Undisturbed(t)
  BY <1>1, <1>2, NothingWaits DEF LeaseInv, RingInv, OwnerWaits, OwnedFrom
<1>3. CASE ~Undisturbed(t)
  <2>1. ~spoiled /\ ~Disturbs(t) /\ ~late
    BY <1>1, <1>3 DEF ResetGoesOn, ResetStore
  <2>2. /\ UNCHANGED writeCounter /\ First' = reset[t].from
        /\ reset' = [reset EXCEPT ![t] = Idle] /\ reset[t].pc = "store"
        /\ [RingNext]_ringVars
    BY <1>1, <2>1 DEF ResetStore, Disturbs, First, Reading, RingNext
  <2>3. \A i \in DOMAIN Held' : i >= Since' => i >= Since
    <3> SUFFICES ASSUME NEW i \in DOMAIN Held', i >= Since'
                 PROVE  i >= Since
      OBVIOUS
    <3>1. /\ i \in First' .. writeCounter' - 1 /\ First' \in Nat
          /\ writeCounter' \in Nat /\ First \in Nat
      <4>1. DOMAIN Held' = First' .. writeCounter' - 1
        BY DEF Held
      <4>2. First' \in Nat /\ writeCounter' \in Nat
        BY DEF RingInv, RingTypes, Op, First
      <4>3. First \in Nat
        BY DEF LeaseInv, RingInv, RingTypes, Op, First
      <4> QED
        BY <4>1, <4>2, <4>3
    <3>2. First <= First' /\ i >= First' /\ i >= First
      BY <2>1, <2>2, <3>1, HeldStays DEF LeaseInv, RingInv
    <3>3. CASE t = server
      BY <2>2, <3>2, <3>3 DEF Since, ServerFree
    <3>4. CASE t # server
      BY <2>2, <3>2, <3>4, LeaseAssumption DEF Since, ServerFree, LeaseInv, RingInv, RingTypes
    <3> QED
      BY <3>3, <3>4
  <2> QED
    BY <1>1, <2>1, <2>2, <2>3, OwnerStays
<1> QED
  BY <1>2, <1>3

LEMMA DeviceWaits ==
  ASSUME LeaseInv, RingInv', Device \/ Expire \/ PeerGone, ~spoiled', ~late'
  PROVE  OwnerWaits'
<1>1. CASE StartIO \/ StopIO \/ Expire
  BY <1>1, OwnerSame DEF StartIO, StopIO, Expire, ringVars, First, Held
<1>2. CASE PeerGone
  <2>1. Release("gone") /\ ~late /\ ~spoiled
    BY <1>2 DEF PeerGone, Release, ResetRing, ResetLoad, ringVars
  <2> QED
    BY <2>1, ReleaseWaits
<1>3. CASE Render \/ RenderGoesOn
  <2>1. /\ ReadLoad \/ ReadCopy \/ ReadStore
        /\ UNCHANGED <<owner, writeCounter, reset>> /\ ~late /\ ~spoiled
    BY <1>3 DEF Render, RenderGoesOn, leaseVars, ReadLoad, ReadCopy, ReadStore
  <2>2. [RingNext]_ringVars
    BY <2>1 DEF RingNext
  <2>3. \A i \in DOMAIN Held' : i >= Since' => i >= Since
    <3>1. /\ DOMAIN Held' = First' .. writeCounter' - 1 /\ First' \in Nat
          /\ writeCounter' \in Nat /\ First \in Nat /\ First <= First'
      BY <2>1, <2>2, HeldStays DEF Held, LeaseInv, RingInv, RingTypes, Op, First
    <3> QED
      BY <2>1, <3>1, SMT DEF Since, ServerFree
  <2> QED
    BY <2>1, <2>2, <2>3, OwnerStays
<1> QED
  BY <1>1, <1>2, <1>3 DEF Device

LEMMA EnvironmentWaits ==
  ASSUME LeaseInv, NEW p \in Producer, Environment(p), ~spoiled', ~late'
  PROVE  OwnerWaits'
<1>1. CASE Stall(p) \/ GoesOn(p)
  BY <1>1, OwnerSame DEF Stall, GoesOn, ringVars, First, Held
<1>2. CASE Dies(p)
  <2>1. /\ UNCHANGED <<First, Held>> /\ UNCHANGED reset[server] /\ ~late /\ ~spoiled
        /\ owner' \in {owner, "gone"}
    BY <1>2, LeaseAssumption, DiesKeepsRing DEF Dies, LeaseInv, RingInv, RingTypes
  <2>2. CASE owner' = "gone"
    BY <2>2, LeaseAssumption DEF OwnerWaits
  <2>3. CASE owner' = owner
    BY <2>1, <2>3, OwnerSame
  <2> QED
    BY <2>1, <2>2, <2>3
<1> QED
  BY <1>1, <1>2 DEF Environment

LEMMA LeaseKept ==
  ASSUME LeaseInv, [LeaseNext]_leaseAndRing
  PROVE  LeaseInv'
<1>1. RingInv'
  BY RingKept DEF LeaseInv
<1>2. ASSUME ~spoiled' PROVE WriteIsOwn'
  <2>1. CASE [RingNext]_ringVars
    <3>1. CASE ~spoiled
      BY <1>1, <1>2, <2>1, <3>1, OwnWriteStays DEF LeaseInv, RingInv
    <3>2. CASE spoiled
      <4>1. PICK t \in Resetter : ResetStore(t) /\ Undisturbed(t)
        BY <1>2, <2>1, <3>2
           DEF RingNext, ringVars, WriteLoad, WriteCopy, WriteStore, ReadLoad,
               ReadCopy, ReadStore, ResetLoad, ResetStore
      <4> QED
        BY <4>1, NothingWaits DEF LeaseInv, RingInv
    <3> QED
      BY <3>1, <3>2
  <2>2. ASSUME NEW p \in Producer, Dies(p) PROVE WriteIsOwn'
    BY <1>2, <2>2 DEF Dies, WriteIsOwn, LeaseInv, RingInv, RingTypes, Idle
  <2> QED
    BY <1>2, <2>1, <2>2, LeaseStep, RestartKeepsRing
<1>3. ASSUME ~spoiled', ~late' PROVE OwnerWaits'
  <2>1. CASE UNCHANGED leaseAndRing
    BY <1>3, <2>1, OwnerSame DEF leaseAndRing, ringVars, leaseVars, First, Held
  <2>2. CASE ServerRestarts
    BY <1>3, <2>2, RestartKeepsRing
  <2> QED
    BY <1>1, <1>3, <2>1, <2>2, ProcessWaits, ResetWaits, DeviceWaits, EnvironmentWaits
       DEF LeaseNext
<1> QED
  BY <1>1, <1>2, <1>3 DEF LeaseInv, OwnerWaits

LEMMA LeaseInvariant == LeaseSpec => []LeaseInv
BY LeaseStarts, LeaseKept, PTL DEF LeaseSpec

-----------------------------------------------------------------------------
(* Under the lease: processes stall, die and lose their lease in the middle  *)
(* of a write, and the server restarts.                                      *)

(* What waits in the ring was written by the process that holds the lease of *)
(* cardputer_audio_ipc_claim(): a process that lost it is not heard, unless  *)
(* it wrote without looking and the ring was not reset since.                *)
THEOREM LeaseOwnerIsHeard == LeaseSpec => []OwnerIsHeard
<1>1. LeaseInv => OwnerIsHeard
  <2> SUFFICES ASSUME LeaseInv, owner \in Producer, ServerFree, ~spoiled, ~late,
                      NEW i \in DOMAIN Held
               PROVE  Held[i].by = owner
    BY DEF OwnerIsHeard
  <2>1. OwnedFrom(First)
    BY DEF LeaseInv, OwnerWaits, Since
  <2>2. DOMAIN Held = First .. writeCounter - 1 /\ First \in Nat /\ writeCounter \in Nat
    BY DEF Held, LeaseInv, RingInv, RingTypes, Op, First
  <2>3. i >= First
    BY <2>2, SMT
  <2> QED
    BY <2>1, <2>3 DEF OwnedFrom
<1> QED
  BY LeaseInvariant, <1>1, PTL

(* A write of cardputer_audio_ring_write() touches no cell that the device   *)
(* copies out, whatever happens to the lease meanwhile.                      *)
THEOREM LeaseCellsApart == LeaseSpec => []CellsApart
BY LeaseInvariant, ApartInRing, PTL DEF LeaseInv

(* With the lease and its mishaps around it the ring still is a channel: each *)
(* step puts frames at the end, gives the first ones to CoreAudio, drops the *)
(* first ones, or changes nothing that is heard.                             *)
THEOREM LeaseImplementsChannel == LeaseSpec => ImplementsChannel
<1>1. LeaseInv /\ LeaseInv' /\ [LeaseNext]_leaseAndRing
        => [spoiled \/ spoiled' \/ Channel!ChannelNext]_(Channel!channelVars)
  <2> SUFFICES ASSUME LeaseInv, LeaseInv', [LeaseNext]_leaseAndRing, ~spoiled, ~spoiled'
               PROVE  Channel!ChannelNext \/ UNCHANGED Channel!channelVars
    OBVIOUS
  <2>1. CASE [RingNext]_ringVars
    BY <2>1, ChannelStep DEF LeaseInv, RingInv, Channel!channelVars
  <2>2. ASSUME NEW p \in Producer, Dies(p) PROVE UNCHANGED Channel!channelVars
    BY <2>2, DiesKeepsRing DEF LeaseInv, Dies, Channel!channelVars
  <2> QED
    BY <2>1, <2>2, LeaseStep, RestartKeepsRing
<1> QED
  BY LeaseInvariant, <1>1, PTL DEF LeaseSpec, ImplementsChannel

-----------------------------------------------------------------------------
(* The link of the companion and what the bridge asks of it (AudioRecovery). *)
Withdrawals == {"sinkNotReadyOnly", "sinkNotReadyDisconnect"}
Discovery == {"connect", "services", "characteristics"}
Starts == {"start", "startAudio"}
Sessions ==
  [enabled : BOOLEAN, bindComplete : BOOLEAN, data : BOOLEAN, status : BOOLEAN,
   notifications : BOOLEAN, negotiated : BOOLEAN, ready : BOOLEAN]

GattTypes ==
  /\ stack \in {"down", "connecting", "up", "closing"}
  /\ owed \subseteq Discovery \cup {"unicode", "data", "status", "write"}
  /\ pending \in Writes \cup {"none"} /\ sent \in Writes \cup {"none"}
  /\ {held, bound, declared, missed} \subseteq BOOLEAN
  /\ session \in Sessions

Fresh == session = NewSession(session.enabled) /\ pending = "none"

(* A handshake begins afresh with each peripheral that is held and with each *)
(* link, and takes its steps one at a time.                                 *)
HandshakeBegins ==
  /\ ~held => Fresh /\ owed \subseteq {"connect"}
  /\ stack \in {"down", "connecting"} => Fresh /\ owed \subseteq {"connect"}
  /\ \A name \in Discovery : name \in owed => Fresh /\ owed = {name}

(* A link that closes has no callback to come but of a late withdrawal.      *)
ClosingIsOver ==
  /\ stack # "up" => ~bound /\ ~declared
  /\ stack = "closing" =>
       /\ owed \subseteq {"write", "connect"}
       /\ "write" \in owed => pending \notin {"bind", "hello"}

(* What the connection waits for is what the device was sent.               *)
WriteAgrees == "write" \in owed => pending = sent /\ pending # "none"

(* Each stage of the handshake rests on those before it.                    *)
StagesFollow ==
  /\ pending = "hello" =>
       session.enabled /\ session.bindComplete /\ session.notifications
  /\ pending \in Withdrawals \cup {"sinkReady"} => session.negotiated
  /\ session.negotiated =>
       /\ session.enabled /\ session.bindComplete /\ session.notifications
       /\ pending \notin {"bind", "hello"}
  /\ session.bindComplete /\ stack = "up" => bound
  /\ session.ready => session.negotiated /\ pending = "none"
  /\ declared => held /\ session.negotiated

GattInv ==
  /\ GattTypes /\ HandshakeBegins /\ ClosingIsOver /\ WriteAgrees
  /\ StagesFollow /\ ReadyIsDeclared /\ SuspensionIsHeeded

Policies == [bridge : BOOLEAN, started : BOOLEAN, audio : BOOLEAN]

(* A session with audio is started once, and nothing starts it again.       *)
OneAudioStart ==
  /\ work \in Seq(Calls) /\ policy \in Policies
  /\ session.enabled \/ (\E i \in DOMAIN work : work[i] = "startAudio") =>
       /\ policy.started /\ policy.audio
       /\ main \notin {"begin", "restart", "startAudio"}
  /\ session.enabled => \A i \in DOMAIN work : work[i] \notin Starts
  /\ \A i, j \in DOMAIN work :
       i < j /\ work[i] = "startAudio" => work[j] \notin Starts
  /\ main \in {"begin", "restart", "startAudio"} => policy.started
  /\ main \in {"restart", "startAudio"} => policy.audio

RecoveryInv == GattInv /\ OneAudioStart

LEMMA NewSessionType ==
  ASSUME NEW audio \in BOOLEAN
  PROVE  /\ NewSession(audio) \in Sessions
         /\ NewSession(audio).enabled = audio /\ ~NewSession(audio).negotiated
         /\ ~NewSession(audio).ready /\ ~NewSession(audio).bindComplete
         /\ [NewSession(audio) EXCEPT !.ready = FALSE] = NewSession(audio)
<1>1. /\ NewSession(audio) \in Sessions
      /\ NewSession(audio).enabled = audio /\ ~NewSession(audio).negotiated
      /\ ~NewSession(audio).ready /\ ~NewSession(audio).bindComplete
  BY DEF Sessions, NewSession
<1>2. [NewSession(audio) EXCEPT !.ready = FALSE] = NewSession(audio)
  <2> DEFINE s == NewSession(audio)
             t == [s EXCEPT !.ready = FALSE]
  <2>1. s \in Sessions /\ s.ready = FALSE
    BY <1>1 DEF NewSession
  <2> HIDE DEF s
  <2>2. t \in Sessions /\ \A f \in DOMAIN s : t[f] = s[f]
    BY <2>1 DEF Sessions
  <2>3. t = s
    BY <2>1, <2>2 DEF Sessions
  <2> QED BY <2>3 DEF s
<1> QED BY <1>1, <1>2

(* Facts about the session that every step needs.                           *)
LEMMA SessionFacts ==
  ASSUME GattInv
  PROVE  /\ session.enabled \in BOOLEAN /\ NewSession(session.enabled) \in Sessions
         /\ [session EXCEPT !.ready = FALSE] \in Sessions
         /\ [session EXCEPT !.ready = FALSE].enabled = session.enabled
         /\ Fresh => /\ ~session.negotiated /\ ~session.ready /\ ~session.bindComplete
                     /\ [session EXCEPT !.ready = FALSE] = session
<1>1. session \in Sessions /\ session.enabled \in BOOLEAN
  BY DEF GattInv, GattTypes, Sessions
<1>2. /\ [session EXCEPT !.ready = FALSE] \in Sessions
      /\ [session EXCEPT !.ready = FALSE].enabled = session.enabled
  BY <1>1 DEF Sessions
<1>3. Fresh => /\ ~session.negotiated /\ ~session.ready /\ ~session.bindComplete
               /\ [session EXCEPT !.ready = FALSE] = session
  BY <1>1, NewSessionType DEF Fresh
<1> QED BY <1>1, <1>2, <1>3, NewSessionType

(* Steps that leave the connection alone.                                   *)
gattVars == <<stack, owed, bound, declared, missed, sessionVars>>

LEMMA GattKeeps == ASSUME GattInv, UNCHANGED gattVars PROVE GattInv'
  BY DEF GattInv, GattTypes, HandshakeBegins, Fresh, ClosingIsOver, WriteAgrees,
         StagesFollow, ReadyIsDeclared, SuspensionIsHeeded, gattVars, sessionVars

-----------------------------------------------------------------------------
(* Each step of the link keeps each part of the invariant.                   *)
LEMMA StartKept ==
  ASSUME GattInv, NEW audio \in BOOLEAN, ~session.enabled, Start(audio)
  PROVE  GattInv'
<1>1. GattTypes'
  BY DEF GattInv, GattTypes, Sessions, Start, Take, KeepLink, NewSession,
         Writes, Discovery
<1>2. HandshakeBegins'
  BY DEF GattInv, GattTypes, Sessions, Start, Take, KeepLink, HandshakeBegins,
         Fresh, NewSession, Discovery
<1>3. ClosingIsOver'
  BY DEF GattInv, GattTypes, Sessions, Start, Take, KeepLink, ClosingIsOver
<1>4. WriteAgrees'
  BY DEF GattInv, GattTypes, Sessions, Start, Take, KeepLink, WriteAgrees,
         HandshakeBegins, Fresh
<1>5. StagesFollow'
  BY DEF GattInv, GattTypes, Sessions, Start, Take, KeepLink, StagesFollow,
         NewSession, Withdrawals, HandshakeBegins, Fresh, WriteAgrees,
         Discovery
<1>6. ReadyIsDeclared'
  BY DEF GattInv, GattTypes, Sessions, Start, Take, KeepLink, ReadyIsDeclared,
         NewSession, StagesFollow, HandshakeBegins, Fresh, Discovery
<1>7. SuspensionIsHeeded'
  BY DEF GattInv, GattTypes, Sessions, Start, Take, KeepLink,
         SuspensionIsHeeded, StagesFollow, NewSession
<1> QED BY <1>1, <1>2, <1>3, <1>4, <1>5, <1>6, <1>7 DEF GattInv

LEMMA StopKept ==
  ASSUME GattInv, Stop
  PROVE  GattInv'
<1>1. GattTypes'
  BY DEF GattInv, GattTypes, Sessions, Stop, Take, Write, KeepLink, CancelLink,
         Closed, NewSession, Writes, Discovery
<1>2. HandshakeBegins'
  <2>1. CASE session.ready
    <3>1. held /\ pending = "none" /\ ~Fresh /\ stack \notin {"down", "connecting"}
      BY <2>1, SessionFacts DEF GattInv, StagesFollow, HandshakeBegins
    <3>2. \A name \in Discovery : name \notin owed /\ name # "write"
      BY <3>1 DEF GattInv, HandshakeBegins, Discovery
    <3> QED BY <2>1, <3>1, <3>2 DEF Stop, Take, Write, HandshakeBegins
  <2>2. CASE ~session.ready
    <3>1. pending' = pending /\ (Fresh => session' = session)
      BY <2>2, SessionFacts DEF Stop
    <3>2. Fresh => Fresh'
      BY <3>1 DEF Fresh
    <3> QED BY <2>2, <3>2 DEF GattInv, GattTypes, Stop, Take, KeepLink,
               CancelLink, Closed, HandshakeBegins
  <2> QED BY <2>1, <2>2
<1>3. ClosingIsOver'
  BY DEF GattInv, GattTypes, Sessions, Stop, Take, Write, KeepLink, CancelLink,
         Closed, ClosingIsOver
<1>4. WriteAgrees'
  BY DEF GattInv, GattTypes, Sessions, Stop, Take, Write, KeepLink, CancelLink,
         Closed, WriteAgrees, HandshakeBegins, Fresh
<1>5. StagesFollow'
  BY DEF GattInv, GattTypes, Sessions, Stop, Take, Write, KeepLink, CancelLink,
         Closed, StagesFollow, NewSession, Withdrawals, HandshakeBegins, Fresh,
         WriteAgrees, Discovery
<1>6. ReadyIsDeclared'
  BY DEF GattInv, GattTypes, Sessions, Stop, Take, Write, KeepLink, CancelLink,
         Closed, ReadyIsDeclared, NewSession, StagesFollow, HandshakeBegins,
         Fresh, Discovery
<1>7. SuspensionIsHeeded'
  BY DEF GattInv, GattTypes, Sessions, Stop, Take, Write, KeepLink, CancelLink,
         Closed, SuspensionIsHeeded, StagesFollow, NewSession
<1> QED BY <1>1, <1>2, <1>3, <1>4, <1>5, <1>6, <1>7 DEF GattInv

LEMMA SuspendKept ==
  ASSUME GattInv, Suspend
  PROVE  GattInv'
<1>1. GattTypes'
  BY DEF GattInv, GattTypes, Sessions, Suspend, Take, Write, NewSession,
         Writes, Discovery
<1>2. HandshakeBegins'
  BY SessionFacts DEF GattInv, Suspend, Take, Write, HandshakeBegins, Fresh,
     Discovery
<1>3. ClosingIsOver'
  BY DEF GattInv, GattTypes, Sessions, Suspend, Take, Write, ClosingIsOver
<1>4. WriteAgrees'
  BY DEF GattInv, GattTypes, Sessions, Suspend, Take, Write, WriteAgrees,
         HandshakeBegins, Fresh
<1>5. StagesFollow'
  BY DEF GattInv, GattTypes, Sessions, Suspend, Take, Write, StagesFollow,
         NewSession, Withdrawals, HandshakeBegins, Fresh, WriteAgrees,
         Discovery
<1>6. ReadyIsDeclared'
  BY DEF GattInv, GattTypes, Sessions, Suspend, Take, Write, ReadyIsDeclared,
         NewSession, StagesFollow, HandshakeBegins, Fresh, Discovery
<1>7. SuspensionIsHeeded'
  BY DEF GattInv, GattTypes, Sessions, Suspend, Take, Write,
         SuspensionIsHeeded, StagesFollow, NewSession
<1> QED BY <1>1, <1>2, <1>3, <1>4, <1>5, <1>6, <1>7 DEF GattInv

LEMMA ResumeKept ==
  ASSUME GattInv, Resume
  PROVE  GattInv'
<1>1. GattTypes'
  BY SessionFacts DEF GattInv, GattTypes, Resume, Take, Write, Writes
<1>2. HandshakeBegins'
  BY SessionFacts DEF GattInv, Resume, Take, Write, HandshakeBegins, Fresh,
     Discovery
<1>3. ClosingIsOver'
  BY DEF GattInv, GattTypes, Sessions, Resume, Take, Write, ClosingIsOver
<1>4. WriteAgrees'
  BY DEF GattInv, GattTypes, Sessions, Resume, Take, Write, WriteAgrees,
         HandshakeBegins, Fresh
<1>5. StagesFollow'
  BY DEF GattInv, GattTypes, Sessions, Resume, Take, Write, StagesFollow,
         NewSession, Withdrawals, HandshakeBegins, Fresh, WriteAgrees,
         Discovery
<1>6. ReadyIsDeclared'
  BY DEF GattInv, GattTypes, Sessions, Resume, Take, Write, ReadyIsDeclared,
         NewSession, StagesFollow, HandshakeBegins, Fresh, Discovery
<1>7. SuspensionIsHeeded'
  BY DEF GattInv, GattTypes, Sessions, Resume, Take, Write, SuspensionIsHeeded,
         StagesFollow, Writes
<1> QED BY <1>1, <1>2, <1>3, <1>4, <1>5, <1>6, <1>7 DEF GattInv

LEMMA BeginConnectionKept ==
  ASSUME GattInv, BeginConnection
  PROVE  GattInv'
<1>1. GattTypes'
  BY SessionFacts DEF GattInv, GattTypes, BeginConnection, TimerGoes, Connect,
     Discovery
<1>2. HandshakeBegins'
  BY DEF GattInv, GattTypes, Sessions, BeginConnection, TimerGoes, Connect,
         HandshakeBegins, Fresh, NewSession, Discovery
<1>3. ClosingIsOver'
  BY DEF GattInv, GattTypes, Sessions, BeginConnection, TimerGoes, Connect,
         ClosingIsOver
<1>4. WriteAgrees'
  BY DEF GattInv, GattTypes, Sessions, BeginConnection, TimerGoes, Connect,
         WriteAgrees, HandshakeBegins, Fresh
<1>5. StagesFollow'
  BY DEF GattInv, GattTypes, Sessions, BeginConnection, TimerGoes, Connect,
         StagesFollow, NewSession, Withdrawals, HandshakeBegins, Fresh,
         WriteAgrees, Discovery
<1>6. ReadyIsDeclared'
  BY DEF GattInv, GattTypes, Sessions, BeginConnection, TimerGoes, Connect,
         ReadyIsDeclared, NewSession, StagesFollow, HandshakeBegins, Fresh,
         Discovery
<1>7. SuspensionIsHeeded'
  BY DEF GattInv, GattTypes, Sessions, BeginConnection, TimerGoes, Connect,
         SuspensionIsHeeded, StagesFollow, NewSession
<1> QED BY <1>1, <1>2, <1>3, <1>4, <1>5, <1>6, <1>7 DEF GattInv

LEMMA TimedOutKept ==
  ASSUME GattInv, TimedOut
  PROVE  GattInv'
<1>1. GattTypes'
  BY SessionFacts DEF GattInv, GattTypes, TimedOut, TimerGoes,
     RecoverConnection, KeepLink, CancelLink, Closed, ClearConnectionState,
     Writes
<1>2. HandshakeBegins'
  BY DEF GattInv, GattTypes, Sessions, TimedOut, TimerGoes, RecoverConnection,
         KeepLink, CancelLink, Closed, ClearConnectionState, HandshakeBegins,
         Fresh, NewSession, Discovery
<1>3. ClosingIsOver'
  BY DEF GattInv, GattTypes, Sessions, TimedOut, TimerGoes, RecoverConnection,
         KeepLink, CancelLink, Closed, ClearConnectionState, ClosingIsOver
<1>4. WriteAgrees'
  BY DEF GattInv, GattTypes, Sessions, TimedOut, TimerGoes, RecoverConnection,
         KeepLink, CancelLink, Closed, ClearConnectionState, WriteAgrees,
         HandshakeBegins, Fresh
<1>5. StagesFollow'
  BY DEF GattInv, GattTypes, Sessions, TimedOut, TimerGoes, RecoverConnection,
         KeepLink, CancelLink, Closed, ClearConnectionState, StagesFollow,
         NewSession, Withdrawals, HandshakeBegins, Fresh, WriteAgrees,
         Discovery
<1>6. ReadyIsDeclared'
  BY DEF GattInv, GattTypes, Sessions, TimedOut, TimerGoes, RecoverConnection,
         KeepLink, CancelLink, Closed, ClearConnectionState, ReadyIsDeclared,
         NewSession, StagesFollow, HandshakeBegins, Fresh, Discovery
<1>7. SuspensionIsHeeded'
  BY DEF GattInv, GattTypes, Sessions, TimedOut, TimerGoes, RecoverConnection,
         KeepLink, CancelLink, Closed, ClearConnectionState,
         SuspensionIsHeeded, StagesFollow, NewSession
<1> QED BY <1>1, <1>2, <1>3, <1>4, <1>5, <1>6, <1>7 DEF GattInv

LEMMA PoweredOffKept ==
  ASSUME GattInv, PoweredOff
  PROVE  GattInv'
<1>1. GattTypes'
  BY SessionFacts DEF GattInv, GattTypes, PoweredOff, ClearConnectionState,
     Writes
<1>2. HandshakeBegins'
  BY DEF GattInv, GattTypes, Sessions, PoweredOff, ClearConnectionState,
         HandshakeBegins, Fresh, NewSession, Discovery
<1>3. ClosingIsOver'
  BY DEF GattInv, GattTypes, Sessions, PoweredOff, ClearConnectionState,
         ClosingIsOver
<1>4. WriteAgrees'
  BY DEF GattInv, GattTypes, Sessions, PoweredOff, ClearConnectionState,
         WriteAgrees, HandshakeBegins, Fresh
<1>5. StagesFollow'
  BY DEF GattInv, GattTypes, Sessions, PoweredOff, ClearConnectionState,
         StagesFollow, NewSession, Withdrawals, HandshakeBegins, Fresh,
         WriteAgrees, Discovery
<1>6. ReadyIsDeclared'
  BY DEF GattInv, GattTypes, Sessions, PoweredOff, ClearConnectionState,
         ReadyIsDeclared, NewSession, StagesFollow, HandshakeBegins, Fresh,
         Discovery
<1>7. SuspensionIsHeeded'
  BY DEF GattInv, GattTypes, Sessions, PoweredOff, ClearConnectionState,
         SuspensionIsHeeded, StagesFollow, NewSession
<1> QED BY <1>1, <1>2, <1>3, <1>4, <1>5, <1>6, <1>7 DEF GattInv

LEMMA DidDiscoverKept ==
  ASSUME GattInv, DidDiscover
  PROVE  GattInv'
<1>1. GattTypes'
  BY DEF GattInv, GattTypes, Sessions, DidDiscover, Connect, NewSession,
         Writes, Discovery
<1>2. HandshakeBegins'
  BY DEF GattInv, GattTypes, Sessions, DidDiscover, Connect, HandshakeBegins,
         Fresh, NewSession, Discovery
<1>3. ClosingIsOver'
  BY DEF GattInv, GattTypes, Sessions, DidDiscover, Connect, ClosingIsOver
<1>4. WriteAgrees'
  BY DEF GattInv, GattTypes, Sessions, DidDiscover, Connect, WriteAgrees,
         HandshakeBegins, Fresh
<1>5. StagesFollow'
  BY DEF GattInv, GattTypes, Sessions, DidDiscover, Connect, StagesFollow,
         NewSession, Withdrawals, HandshakeBegins, Fresh, WriteAgrees,
         Discovery
<1>6. ReadyIsDeclared'
  BY DEF GattInv, GattTypes, Sessions, DidDiscover, Connect, ReadyIsDeclared,
         NewSession, StagesFollow, HandshakeBegins, Fresh, Discovery
<1>7. SuspensionIsHeeded'
  BY DEF GattInv, GattTypes, Sessions, DidDiscover, Connect,
         SuspensionIsHeeded, StagesFollow, NewSession
<1> QED BY <1>1, <1>2, <1>3, <1>4, <1>5, <1>6, <1>7 DEF GattInv

LEMMA DidConnectKept ==
  ASSUME GattInv, DidConnect
  PROVE  GattInv'
<1>1. GattTypes'
  BY DEF GattInv, GattTypes, Sessions, DidConnect, Callback, sessionVars,
         NewSession, Writes, Discovery
<1>2. HandshakeBegins'
  BY DEF GattInv, GattTypes, Sessions, DidConnect, Callback, sessionVars,
         HandshakeBegins, Fresh, NewSession, Discovery
<1>3. ClosingIsOver'
  BY DEF GattInv, GattTypes, Sessions, DidConnect, Callback, sessionVars,
         ClosingIsOver
<1>4. WriteAgrees'
  BY DEF GattInv, GattTypes, Sessions, DidConnect, Callback, sessionVars,
         WriteAgrees, HandshakeBegins, Fresh
<1>5. StagesFollow'
  BY DEF GattInv, GattTypes, Sessions, DidConnect, Callback, sessionVars,
         StagesFollow, NewSession, Withdrawals, HandshakeBegins, Fresh,
         WriteAgrees, Discovery
<1>6. ReadyIsDeclared'
  BY DEF GattInv, GattTypes, Sessions, DidConnect, Callback, sessionVars,
         ReadyIsDeclared, NewSession, StagesFollow, HandshakeBegins, Fresh,
         Discovery
<1>7. SuspensionIsHeeded'
  BY DEF GattInv, GattTypes, Sessions, DidConnect, Callback, sessionVars,
         SuspensionIsHeeded, StagesFollow, NewSession
<1> QED BY <1>1, <1>2, <1>3, <1>4, <1>5, <1>6, <1>7 DEF GattInv

LEMMA DidFailToConnectKept ==
  ASSUME GattInv, DidFailToConnect
  PROVE  GattInv'
<1>1. GattTypes'
  BY SessionFacts DEF GattInv, GattTypes, DidFailToConnect, Callback,
     ClearConnectionState, Writes
<1>2. HandshakeBegins'
  BY DEF GattInv, GattTypes, Sessions, DidFailToConnect, Callback,
         ClearConnectionState, HandshakeBegins, Fresh, NewSession, Discovery
<1>3. ClosingIsOver'
  BY DEF GattInv, GattTypes, Sessions, DidFailToConnect, Callback,
         ClearConnectionState, ClosingIsOver
<1>4. WriteAgrees'
  BY DEF GattInv, GattTypes, Sessions, DidFailToConnect, Callback,
         ClearConnectionState, WriteAgrees, HandshakeBegins, Fresh
<1>5. StagesFollow'
  BY DEF GattInv, GattTypes, Sessions, DidFailToConnect, Callback,
         ClearConnectionState, StagesFollow, NewSession, Withdrawals,
         HandshakeBegins, Fresh, WriteAgrees, Discovery
<1>6. ReadyIsDeclared'
  BY DEF GattInv, GattTypes, Sessions, DidFailToConnect, Callback,
         ClearConnectionState, ReadyIsDeclared, NewSession, StagesFollow,
         HandshakeBegins, Fresh, Discovery
<1>7. SuspensionIsHeeded'
  BY DEF GattInv, GattTypes, Sessions, DidFailToConnect, Callback,
         ClearConnectionState, SuspensionIsHeeded, StagesFollow, NewSession
<1> QED BY <1>1, <1>2, <1>3, <1>4, <1>5, <1>6, <1>7 DEF GattInv

LEMMA LinkDropsKept ==
  ASSUME GattInv, LinkDrops
  PROVE  GattInv'
<1>1. GattTypes'
  BY DEF GattInv, GattTypes, Sessions, LinkDrops, CancelLink, Closed,
         NewSession, Writes, Discovery
<1>2. HandshakeBegins'
  BY DEF GattInv, GattTypes, Sessions, LinkDrops, CancelLink, Closed,
         HandshakeBegins, Fresh, NewSession, Discovery
<1>3. ClosingIsOver'
  BY DEF GattInv, GattTypes, Sessions, LinkDrops, CancelLink, Closed,
         ClosingIsOver
<1>4. WriteAgrees'
  BY DEF GattInv, GattTypes, Sessions, LinkDrops, CancelLink, Closed,
         WriteAgrees, HandshakeBegins, Fresh
<1>5. StagesFollow'
  BY DEF GattInv, GattTypes, Sessions, LinkDrops, CancelLink, Closed,
         StagesFollow, NewSession, Withdrawals, HandshakeBegins, Fresh,
         WriteAgrees, Discovery
<1>6. ReadyIsDeclared'
  BY DEF GattInv, GattTypes, Sessions, LinkDrops, CancelLink, Closed,
         ReadyIsDeclared, NewSession, StagesFollow, HandshakeBegins, Fresh,
         Discovery
<1>7. SuspensionIsHeeded'
  BY DEF GattInv, GattTypes, Sessions, LinkDrops, CancelLink, Closed,
         SuspensionIsHeeded, StagesFollow, NewSession
<1> QED BY <1>1, <1>2, <1>3, <1>4, <1>5, <1>6, <1>7 DEF GattInv

LEMMA DidDisconnectKept ==
  ASSUME GattInv, DidDisconnect
  PROVE  GattInv'
<1>1. GattTypes'
  BY SessionFacts DEF GattInv, GattTypes, DidDisconnect, ClearConnectionState,
     Discovery, Writes
<1>2. HandshakeBegins'
  BY DEF GattInv, GattTypes, Sessions, DidDisconnect, ClearConnectionState,
         HandshakeBegins, Fresh, NewSession, Discovery
<1>3. ClosingIsOver'
  BY DEF GattInv, GattTypes, Sessions, DidDisconnect, ClearConnectionState,
         ClosingIsOver
<1>4. WriteAgrees'
  BY DEF GattInv, GattTypes, Sessions, DidDisconnect, ClearConnectionState,
         WriteAgrees, HandshakeBegins, Fresh
<1>5. StagesFollow'
  BY SessionFacts, NewSessionType DEF GattInv, DidDisconnect,
     ClearConnectionState, StagesFollow, ClosingIsOver, Withdrawals
<1>6. ReadyIsDeclared'
  BY DEF GattInv, GattTypes, Sessions, DidDisconnect, ClearConnectionState,
         ReadyIsDeclared, NewSession, StagesFollow, HandshakeBegins, Fresh,
         Discovery
<1>7. SuspensionIsHeeded'
  BY DEF GattInv, DidDisconnect, SuspensionIsHeeded, ClosingIsOver
<1> QED BY <1>1, <1>2, <1>3, <1>4, <1>5, <1>6, <1>7 DEF GattInv

LEMMA DidDiscoverServicesKept ==
  ASSUME GattInv, DidDiscoverServices
  PROVE  GattInv'
<1>1. GattTypes'
  BY DEF GattInv, GattTypes, Sessions, DidDiscoverServices, Callback,
         sessionVars, NewSession, Writes, Discovery
<1>2. HandshakeBegins'
  BY DEF GattInv, GattTypes, Sessions, DidDiscoverServices, Callback,
         sessionVars, HandshakeBegins, Fresh, NewSession, Discovery
<1>3. ClosingIsOver'
  BY DEF GattInv, GattTypes, Sessions, DidDiscoverServices, Callback,
         sessionVars, ClosingIsOver
<1>4. WriteAgrees'
  BY DEF GattInv, GattTypes, Sessions, DidDiscoverServices, Callback,
         sessionVars, WriteAgrees, HandshakeBegins, Fresh
<1>5. StagesFollow'
  BY DEF GattInv, GattTypes, Sessions, DidDiscoverServices, Callback,
         sessionVars, StagesFollow, NewSession, Withdrawals, HandshakeBegins,
         Fresh, WriteAgrees, Discovery
<1>6. ReadyIsDeclared'
  BY DEF GattInv, GattTypes, Sessions, DidDiscoverServices, Callback,
         sessionVars, ReadyIsDeclared, NewSession, StagesFollow,
         HandshakeBegins, Fresh, Discovery
<1>7. SuspensionIsHeeded'
  BY DEF GattInv, GattTypes, Sessions, DidDiscoverServices, Callback,
         sessionVars, SuspensionIsHeeded, StagesFollow, NewSession
<1> QED BY <1>1, <1>2, <1>3, <1>4, <1>5, <1>6, <1>7 DEF GattInv

LEMMA DidDiscoverCharacteristicsKept ==
  ASSUME GattInv, DidDiscoverCharacteristics
  PROVE  GattInv'
<1>1. GattTypes'
  BY SessionFacts DEF GattInv, GattTypes, DidDiscoverCharacteristics, Callback,
     Discovery, Writes
<1>2. HandshakeBegins'
  BY DEF GattInv, GattTypes, Sessions, DidDiscoverCharacteristics, Callback,
         HandshakeBegins, Fresh, NewSession, Discovery
<1>3. ClosingIsOver'
  BY DEF GattInv, GattTypes, Sessions, DidDiscoverCharacteristics, Callback,
         ClosingIsOver
<1>4. WriteAgrees'
  BY DEF GattInv, GattTypes, Sessions, DidDiscoverCharacteristics, Callback,
         WriteAgrees, HandshakeBegins, Fresh
<1>5. StagesFollow'
  BY DEF GattInv, GattTypes, Sessions, DidDiscoverCharacteristics, Callback,
         StagesFollow, NewSession, Withdrawals, HandshakeBegins, Fresh,
         WriteAgrees, Discovery
<1>6. ReadyIsDeclared'
  BY DEF GattInv, GattTypes, Sessions, DidDiscoverCharacteristics, Callback,
         ReadyIsDeclared, NewSession, StagesFollow, HandshakeBegins, Fresh,
         Discovery
<1>7. SuspensionIsHeeded'
  BY DEF GattInv, GattTypes, Sessions, DidDiscoverCharacteristics, Callback,
         SuspensionIsHeeded, StagesFollow, NewSession
<1> QED BY <1>1, <1>2, <1>3, <1>4, <1>5, <1>6, <1>7 DEF GattInv

LEMMA StepFailsKept ==
  ASSUME GattInv, StepFails
  PROVE  GattInv'
<1>1. GattTypes'
  BY SessionFacts DEF GattInv, GattTypes, StepFails, Callback,
     RecoverConnection, KeepLink, CancelLink, Closed, ClearConnectionState,
     Writes
<1>2. HandshakeBegins'
  BY DEF GattInv, GattTypes, Sessions, StepFails, Callback, RecoverConnection,
         KeepLink, CancelLink, Closed, ClearConnectionState, HandshakeBegins,
         Fresh, NewSession, Discovery
<1>3. ClosingIsOver'
  BY DEF GattInv, GattTypes, Sessions, StepFails, Callback, RecoverConnection,
         KeepLink, CancelLink, Closed, ClearConnectionState, ClosingIsOver
<1>4. WriteAgrees'
  BY DEF GattInv, GattTypes, Sessions, StepFails, Callback, RecoverConnection,
         KeepLink, CancelLink, Closed, ClearConnectionState, WriteAgrees,
         HandshakeBegins, Fresh
<1>5. StagesFollow'
  BY DEF GattInv, GattTypes, Sessions, StepFails, Callback, RecoverConnection,
         KeepLink, CancelLink, Closed, ClearConnectionState, StagesFollow,
         NewSession, Withdrawals, HandshakeBegins, Fresh, WriteAgrees,
         Discovery
<1>6. ReadyIsDeclared'
  BY DEF GattInv, GattTypes, Sessions, StepFails, Callback, RecoverConnection,
         KeepLink, CancelLink, Closed, ClearConnectionState, ReadyIsDeclared,
         NewSession, StagesFollow, HandshakeBegins, Fresh, Discovery
<1>7. SuspensionIsHeeded'
  BY DEF GattInv, GattTypes, Sessions, StepFails, Callback, RecoverConnection,
         KeepLink, CancelLink, Closed, ClearConnectionState,
         SuspensionIsHeeded, StagesFollow, NewSession
<1> QED BY <1>1, <1>2, <1>3, <1>4, <1>5, <1>6, <1>7 DEF GattInv

LEMMA DidNotifyKept ==
  ASSUME GattInv, NEW name \in {"unicode", "data", "status"}, DidNotify(name)
  PROVE  GattInv'
<1>1. GattTypes'
  BY DEF GattInv, GattTypes, Sessions, DidNotify, Callback, NewSession, Writes,
         Discovery
<1>2. HandshakeBegins'
  BY DEF GattInv, GattTypes, Sessions, DidNotify, Callback, HandshakeBegins,
         Fresh, NewSession, Discovery
<1>3. ClosingIsOver'
  BY DEF GattInv, GattTypes, Sessions, DidNotify, Callback, ClosingIsOver
<1>4. WriteAgrees'
  BY DEF GattInv, GattTypes, Sessions, DidNotify, Callback, WriteAgrees,
         HandshakeBegins, Fresh
<1>5. StagesFollow'
  BY DEF GattInv, GattTypes, Sessions, DidNotify, Callback, StagesFollow,
         NewSession, Withdrawals, HandshakeBegins, Fresh, WriteAgrees,
         Discovery
<1>6. ReadyIsDeclared'
  BY DEF GattInv, GattTypes, Sessions, DidNotify, Callback, ReadyIsDeclared,
         NewSession, StagesFollow, HandshakeBegins, Fresh, Discovery
<1>7. SuspensionIsHeeded'
  BY DEF GattInv, GattTypes, Sessions, DidNotify, Callback, SuspensionIsHeeded,
         StagesFollow, NewSession
<1> QED BY <1>1, <1>2, <1>3, <1>4, <1>5, <1>6, <1>7 DEF GattInv

LEMMA DidWriteKept ==
  ASSUME GattInv, DidWrite
  PROVE  GattInv'
<1>0. /\ held /\ pending = sent /\ pending \in Writes
      /\ stack \in {"up", "closing"}
      /\ pending \in {"bind", "hello"} => stack = "up"
  BY DEF GattInv, GattTypes, DidWrite, Callback, WriteAgrees, HandshakeBegins,
         Fresh, ClosingIsOver, Writes
<1>1. GattTypes'
  BY DEF GattInv, GattTypes, Sessions, DidWrite, Callback, AfterWrite,
         DeviceTakes, CancelLink, Closed, NewSession, Writes, Discovery
<1>2. HandshakeBegins'
  BY DEF GattInv, GattTypes, Sessions, DidWrite, Callback, AfterWrite,
         DeviceTakes, CancelLink, Closed, HandshakeBegins, Fresh, NewSession,
         Discovery
<1>3. ClosingIsOver'
  BY <1>0 DEF GattInv, GattTypes, DidWrite, Callback, DeviceTakes, CancelLink,
     Closed, ClosingIsOver, Discovery, Writes
<1>4. WriteAgrees'
  BY DEF GattInv, GattTypes, Sessions, DidWrite, Callback, AfterWrite,
         DeviceTakes, CancelLink, Closed, WriteAgrees, HandshakeBegins, Fresh
<1>5. StagesFollow'
  BY DEF GattInv, GattTypes, Sessions, DidWrite, Callback, AfterWrite,
         DeviceTakes, CancelLink, Closed, StagesFollow, NewSession,
         Withdrawals, HandshakeBegins, Fresh, WriteAgrees, Discovery
<1>6. ReadyIsDeclared'
  BY <1>0 DEF GattInv, GattTypes, Sessions, DidWrite, Callback, AfterWrite,
     DeviceTakes, CancelLink, Closed, ReadyIsDeclared, StagesFollow, Writes,
     Withdrawals
<1>7. SuspensionIsHeeded'
  BY <1>0 DEF GattInv, GattTypes, Sessions, DidWrite, Callback, AfterWrite,
     DeviceTakes, CancelLink, Closed, SuspensionIsHeeded, StagesFollow, Writes,
     Withdrawals
<1> QED BY <1>1, <1>2, <1>3, <1>4, <1>5, <1>6, <1>7 DEF GattInv

LEMMA WithdrawalFailsKept ==
  ASSUME GattInv, WithdrawalFails
  PROVE  GattInv'
<1>1. GattTypes'
  BY DEF GattInv, GattTypes, Sessions, WithdrawalFails, CancelLink, Closed,
         NewSession, Writes, Discovery
<1>2. HandshakeBegins'
  BY DEF GattInv, GattTypes, Sessions, WithdrawalFails, CancelLink, Closed,
         HandshakeBegins, Fresh, NewSession, Discovery
<1>3. ClosingIsOver'
  BY DEF GattInv, GattTypes, Sessions, WithdrawalFails, CancelLink, Closed,
         ClosingIsOver
<1>4. WriteAgrees'
  BY DEF GattInv, GattTypes, Sessions, WithdrawalFails, CancelLink, Closed,
         WriteAgrees, HandshakeBegins, Fresh
<1>5. StagesFollow'
  BY DEF GattInv, GattTypes, Sessions, WithdrawalFails, CancelLink, Closed,
         StagesFollow, NewSession, Withdrawals, HandshakeBegins, Fresh,
         WriteAgrees, Discovery
<1>6. ReadyIsDeclared'
  BY DEF GattInv, GattTypes, Sessions, WithdrawalFails, CancelLink, Closed,
         ReadyIsDeclared, NewSession, StagesFollow, HandshakeBegins, Fresh,
         Discovery
<1>7. SuspensionIsHeeded'
  BY DEF GattInv, GattTypes, Sessions, WithdrawalFails, CancelLink, Closed,
         SuspensionIsHeeded, StagesFollow, NewSession
<1> QED BY <1>1, <1>2, <1>3, <1>4, <1>5, <1>6, <1>7 DEF GattInv

-----------------------------------------------------------------------------
(* The calls in the queue, and who may still post one.                      *)
LEMMA WorkStays ==
  ASSUME OneAudioStart, work' = work, UNCHANGED <<policy, main>>,
         session'.enabled = session.enabled
  PROVE  OneAudioStart'
  BY DEF OneAudioStart

LEMMA TailFacts ==
  ASSUME NEW q \in Seq(Calls), q # <<>>
  PROVE  /\ Tail(q) \in Seq(Calls) /\ Head(q) = q[1] /\ 1 \in DOMAIN q
         /\ \A i \in DOMAIN Tail(q) :
              i + 1 \in DOMAIN q /\ Tail(q)[i] = q[i + 1] /\ i \in Nat /\ i >= 1
<1>1. Len(q) \in Nat /\ Len(q) > 0 /\ DOMAIN q = 1 .. Len(q)
      /\ DOMAIN Tail(q) = 1 .. Len(q) - 1
  BY SMT
<1> QED BY <1>1

LEMMA AppendFacts ==
  ASSUME NEW q \in Seq(Calls), NEW call \in Calls
  PROVE  /\ Append(q, call) \in Seq(Calls)
         /\ \A i \in DOMAIN Append(q, call) :
              (i \in DOMAIN q /\ Append(q, call)[i] = q[i]) \/ (i = Len(q) + 1 /\ Append(q, call)[i] = call)
         /\ \A i \in DOMAIN q : i \in Nat /\ i < Len(q) + 1
         /\ Len(q) \in Nat
<1>1. Len(q) \in Nat /\ DOMAIN q = 1 .. Len(q)
      /\ DOMAIN Append(q, call) = 1 .. Len(q) + 1
  BY SMT
<1> QED BY <1>1

LEMMA CallTaken ==
  ASSUME OneAudioStart, work # <<>>, work' = Tail(work), UNCHANGED <<policy, main>>,
         session'.enabled = session.enabled
  PROVE  OneAudioStart'
<1>1. work \in Seq(Calls)
  BY DEF OneAudioStart
<1>2. /\ work' \in Seq(Calls)
      /\ \A i \in DOMAIN work' :
           i + 1 \in DOMAIN work /\ work'[i] = work[i + 1] /\ i \in Nat /\ i >= 1
  BY <1>1, TailFacts
<1>3. (\E i \in DOMAIN work' : work'[i] = "startAudio") =>
        \E i \in DOMAIN work : work[i] = "startAudio"
  BY <1>2
<1>4. session'.enabled => \A i \in DOMAIN work' : work'[i] \notin Starts
  BY <1>2 DEF OneAudioStart
<1>5. \A i, j \in DOMAIN work' :
        i < j /\ work'[i] = "startAudio" => work'[j] \notin Starts
  <2> SUFFICES ASSUME NEW i \in DOMAIN work', NEW j \in DOMAIN work', i < j,
                      work'[i] = "startAudio"
               PROVE  work'[j] \notin Starts
    OBVIOUS
  <2>1. i + 1 \in DOMAIN work /\ j + 1 \in DOMAIN work /\ i + 1 < j + 1
        /\ work[i + 1] = "startAudio" /\ work'[j] = work[j + 1]
    BY <1>2
  <2> QED BY <2>1 DEF OneAudioStart
<1> QED BY <1>2, <1>3, <1>4, <1>5 DEF OneAudioStart

LEMMA StartTaken ==
  ASSUME GattInv, OneAudioStart, NEW audio \in BOOLEAN, Start(audio),
         UNCHANGED <<policy, main>>
  PROVE  GattInv' /\ OneAudioStart'
<1>1. /\ work \in Seq(Calls) /\ work # <<>> /\ work' = Tail(work)
      /\ Head(work) = IF audio THEN "startAudio" ELSE "start"
      /\ session'.enabled = audio
  BY DEF OneAudioStart, Start, Take, NewSession
<1>2. /\ work' \in Seq(Calls) /\ Head(work) = work[1] /\ 1 \in DOMAIN work
      /\ \A i \in DOMAIN work' :
           i + 1 \in DOMAIN work /\ work'[i] = work[i + 1] /\ i \in Nat /\ i >= 1
  BY <1>1, TailFacts
<1>3. ~session.enabled
  BY <1>1, <1>2 DEF OneAudioStart, Starts
<1>4. GattInv'
  BY <1>3, StartKept
<1>5. CASE audio
  <2>1. policy.started /\ policy.audio /\ main \notin {"begin", "restart", "startAudio"}
    BY <1>1, <1>2, <1>5 DEF OneAudioStart
  <2>2. \A i \in DOMAIN work' : work'[i] \notin Starts
    <3> SUFFICES ASSUME NEW i \in DOMAIN work' PROVE work'[i] \notin Starts
      OBVIOUS
    <3>1. i + 1 \in DOMAIN work /\ work'[i] = work[i + 1] /\ 1 < i + 1
      BY <1>2
    <3>2. work[1] = "startAudio" /\ 1 \in DOMAIN work
      BY <1>1, <1>2, <1>5
    <3> QED BY <3>1, <3>2 DEF OneAudioStart
  <2> QED BY <1>2, <1>4, <2>1, <2>2 DEF OneAudioStart, Starts
<1>6. CASE ~audio
  <2>1. session'.enabled = session.enabled
    BY <1>1, <1>3, <1>6, SessionFacts
  <2> QED BY <1>1, <1>4, <2>1, CallTaken
<1> QED BY <1>5, <1>6

(* What has started stays so, and a sink that is to be offered does.        *)
PolicyGoesOn ==
  /\ policy' \in Policies
  /\ policy.started => policy'.started
  /\ policy.started /\ policy.audio => policy'.audio

LEMMA PolicyCases ==
  ASSUME policy \in Policies
  PROVE  /\ policy' = policy => PolicyGoesOn
         /\ \A bridge \in BOOLEAN : BridgeReadinessChanged(bridge) =>
              PolicyGoesOn /\ (bridge /\ policy.started => policy'.audio)
  BY DEF Policies, PolicyGoesOn, BridgeReadinessChanged

LEMMA CallPosted ==
  ASSUME OneAudioStart, NEW call \in Calls, work' = Append(work, call),
         session' = session, PolicyGoesOn,
         call \in Starts => /\ main \in {"begin", "restart", "startAudio"}
                            /\ main' \notin {"begin", "restart", "startAudio"},
         call = "startAudio" => policy.audio,
         main' \in {"begin", "restart", "startAudio"} =>
           main' = main \/ (main = "restart" /\ main' = "startAudio")
  PROVE  OneAudioStart'
<1>1. work \in Seq(Calls)
  BY DEF OneAudioStart
<1>2. /\ work' \in Seq(Calls)
      /\ \A i \in DOMAIN work' :
           (i \in DOMAIN work /\ work'[i] = work[i]) \/ (i = Len(work) + 1 /\ work'[i] = call)
      /\ \A i \in DOMAIN work : i \in Nat /\ i < Len(work) + 1
      /\ Len(work) \in Nat
  BY <1>1, AppendFacts
<1>3. call \in Starts => /\ policy.started /\ ~session.enabled
                         /\ \A i \in DOMAIN work : work[i] # "startAudio"
  BY DEF OneAudioStart
<1>4. session'.enabled \/ (\E i \in DOMAIN work' : work'[i] = "startAudio") =>
        /\ policy'.started /\ policy'.audio
        /\ main' \notin {"begin", "restart", "startAudio"}
  <2>1. CASE session'.enabled
    BY <2>1 DEF OneAudioStart, PolicyGoesOn
  <2>2. CASE \E i \in DOMAIN work : work[i] = "startAudio"
    BY <2>2 DEF OneAudioStart, PolicyGoesOn
  <2>3. CASE call = "startAudio"
    BY <1>3, <2>3 DEF Starts, PolicyGoesOn
  <2> QED BY <1>2, <2>1, <2>2, <2>3
<1>5. session'.enabled => \A i \in DOMAIN work' : work'[i] \notin Starts
  BY <1>2, <1>3 DEF OneAudioStart
<1>6. \A i, j \in DOMAIN work' :
        i < j /\ work'[i] = "startAudio" => work'[j] \notin Starts
  <2> SUFFICES ASSUME NEW i \in DOMAIN work', NEW j \in DOMAIN work', i < j,
                      work'[i] = "startAudio"
               PROVE  work'[j] \notin Starts
    OBVIOUS
  <2>1. i \in DOMAIN work /\ work[i] = "startAudio"
    BY <1>2
  <2>2. CASE j \in DOMAIN work /\ work'[j] = work[j]
    BY <2>1, <2>2 DEF OneAudioStart
  <2>3. CASE work'[j] = call
    BY <1>3, <2>1, <2>3
  <2> QED BY <1>2, <2>2, <2>3
<1>7. /\ main' \in {"begin", "restart", "startAudio"} => policy'.started
      /\ main' \in {"restart", "startAudio"} => policy'.audio
  BY DEF OneAudioStart, PolicyGoesOn
<1> QED BY <1>2, <1>4, <1>5, <1>6, <1>7 DEF OneAudioStart, PolicyGoesOn

-----------------------------------------------------------------------------
LEMMA LinkStep ==
  ASSUME RecoveryInv, LinkNext, UNCHANGED bridgeVars
  PROVE  RecoveryInv'
<1>0. GattInv /\ OneAudioStart /\ UNCHANGED <<policy, main>>
  BY DEF RecoveryInv, bridgeVars
<1>1. ASSUME NEW audio \in BOOLEAN, Start(audio) PROVE RecoveryInv'
  BY <1>0, <1>1, StartTaken DEF RecoveryInv
<1>2. CASE Stop \/ Suspend \/ Resume
  <2>1. work # <<>> /\ work' = Tail(work)
    BY <1>2 DEF Stop, Suspend, Resume, Take
  <2>2. session'.enabled = session.enabled
    BY <1>0, <1>2, SessionFacts DEF Stop, Suspend, Resume
  <2>3. GattInv'
    BY <1>0, <1>2, StopKept, SuspendKept, ResumeKept
  <2> QED BY <1>0, <2>1, <2>2, <2>3, CallTaken DEF RecoveryInv
<1>3. CASE PoweredOn \/ RangeChanges
  <2>1. UNCHANGED gattVars /\ work' = work
    BY <1>3 DEF PoweredOn, RangeChanges, KeepLink, gattVars, sessionVars
  <2> QED BY <1>0, <2>1, GattKeeps, WorkStays DEF RecoveryInv, gattVars,
             sessionVars
<1>4. CASE \/ BeginConnection \/ DidDiscover \/ DidConnect \/ DidDiscoverServices
           \/ DidDiscoverCharacteristics \/ LinkDrops \/ WithdrawalFails
  <2>1. session' = session /\ work' = work
    BY <1>4 DEF BeginConnection, TimerGoes, DidDiscover, DidConnect,
       DidDiscoverServices,
                DidDiscoverCharacteristics, LinkDrops, WithdrawalFails, Callback, sessionVars
  <2>2. GattInv'
    BY <1>0, <1>4, BeginConnectionKept, DidDiscoverKept, DidConnectKept,
       DidDiscoverServicesKept,
       DidDiscoverCharacteristicsKept, LinkDropsKept, WithdrawalFailsKept
  <2> QED BY <1>0, <2>1, <2>2, WorkStays DEF RecoveryInv
<1>5. CASE TimedOut \/ PoweredOff \/ DidFailToConnect \/ StepFails \/ DidDisconnect
  <2>1. work' = work
    BY <1>5 DEF TimedOut, TimerGoes, PoweredOff, DidFailToConnect, StepFails,
       DidDisconnect, Callback
  <2>2. session' = session \/ session' = NewSession(session.enabled)
    BY <1>5 DEF TimedOut, RecoverConnection, PoweredOff, DidFailToConnect,
       StepFails,
                DidDisconnect, ClearConnectionState
  <2>3. session'.enabled = session.enabled
    BY <1>0, <2>2, SessionFacts, NewSessionType
  <2>4. GattInv'
    BY <1>0, <1>5, TimedOutKept, PoweredOffKept, DidFailToConnectKept,
       StepFailsKept, DidDisconnectKept
  <2> QED BY <1>0, <2>1, <2>3, <2>4, WorkStays DEF RecoveryInv
<1>6. ASSUME NEW name \in {"unicode", "data", "status"}, DidNotify(name) PROVE RecoveryInv'
  <2>1. work' = work
    BY <1>6 DEF DidNotify, Callback
  <2>2. session'.enabled = session.enabled
    BY <1>0, <1>6 DEF DidNotify, GattInv, GattTypes, Sessions
  <2>3. GattInv'
    BY <1>0, <1>6, DidNotifyKept
  <2> QED BY <1>0, <2>1, <2>2, <2>3, WorkStays DEF RecoveryInv
<1>7. CASE DidWrite
  <2>1. work' = work
    BY <1>7 DEF DidWrite, Callback
  <2>2. session'.enabled = session.enabled
    BY <1>0, <1>7 DEF DidWrite, AfterWrite, GattInv, GattTypes, Sessions
  <2>3. GattInv'
    BY <1>0, <1>7, DidWriteKept
  <2> QED BY <1>0, <2>1, <2>2, <2>3, WorkStays DEF RecoveryInv
<1> QED
  BY <1>1, <1>2, <1>3, <1>4, <1>5, <1>6, <1>7
     DEF LinkNext, LinkCalls, LinkCallbacks, LinkTimers, LinkFaults

(* The threads of the bridge reach the link through its queue only.          *)
LEMMA PostKeeps ==
  ASSUME RecoveryInv, NEW call \in Calls, Post(call), PolicyGoesOn,
         call \in Starts => /\ main \in {"begin", "restart", "startAudio"}
                            /\ main' \notin {"begin", "restart", "startAudio"},
         call = "startAudio" => policy.audio,
         main' \in {"begin", "restart", "startAudio"} =>
           main' = main \/ (main = "restart" /\ main' = "startAudio")
  PROVE  RecoveryInv'
<1>1. UNCHANGED gattVars /\ work' = Append(work, call)
  BY DEF Post, radioVars, sessionVars, gattVars
<1>2. GattInv'
  BY <1>1, GattKeeps DEF RecoveryInv
<1>3. session' = session
  BY <1>1 DEF gattVars, sessionVars
<1>4. OneAudioStart'
  BY <1>1, <1>3, CallPosted DEF RecoveryInv
<1> QED BY <1>2, <1>4 DEF RecoveryInv

LEMMA BridgeKeeps ==
  ASSUME RecoveryInv, UNCHANGED linkVars, PolicyGoesOn,
         main' \in {"begin", "restart", "startAudio"} =>
           \/ main' = main
           \/ /\ ~policy.started \/ ~policy.audio
              /\ policy'.started
              /\ main' \in {"restart", "startAudio"} => policy'.audio
  PROVE  RecoveryInv'
<1>1. UNCHANGED gattVars /\ work' = work
  BY DEF linkVars, radioVars, sessionVars, gattVars
<1>2. GattInv'
  BY <1>1, GattKeeps DEF RecoveryInv
<1>3. session' = session
  BY <1>1 DEF gattVars, sessionVars
<1>4. OneAudioStart'
  BY <1>1, <1>3 DEF RecoveryInv, OneAudioStart, PolicyGoesOn
<1> QED BY <1>2, <1>4 DEF RecoveryInv

LEMMA MainStep ==
  ASSUME RecoveryInv, Main \/ Quit
  PROVE  RecoveryInv'
<1>0. policy \in Policies
  BY DEF RecoveryInv, OneAudioStart
<1>1. CASE Reconnect \/ Assign \/ Install
  <2>1. UNCHANGED linkVars /\ policy' = policy /\ main' \in {"assign", "install", "tell"}
    BY <1>1 DEF Reconnect, Assign, Install
  <2> QED BY <1>0, <2>1, PolicyCases, BridgeKeeps
<1>2. CASE TellReady
  <2>1. UNCHANGED linkVars
    BY <1>2 DEF TellReady
  <2>2. PolicyGoesOn /\ (policy.started => policy'.audio)
    BY <1>0, <1>2, PolicyCases DEF TellReady
  <2>3. main' \in {"poll", "resume"} \/ (main' = "restart" /\ policy.started /\ ~policy.audio)
    BY <1>2 DEF TellReady, Action
  <2> QED BY <2>1, <2>2, <2>3, BridgeKeeps DEF PolicyGoesOn
<1>3. CASE Act
  <2>1. main \in {"resume", "restart", "startAudio"} /\ policy' = policy
        /\ main' = IF main = "restart" THEN "startAudio" ELSE "poll"
    BY <1>3 DEF Act
  <2>2. CASE main = "restart"
    <3>1. Post("stop") /\ main' = "startAudio"
      BY <1>3, <2>2 DEF Act
    <3> QED BY <1>0, <2>1, <2>2, <3>1, PolicyCases, PostKeeps DEF Calls, Starts
  <2>3. CASE main # "restart"
    <3>1. Post(main) /\ main \in Calls /\ main' = "poll"
      BY <1>3, <2>1, <2>3 DEF Act, Calls
    <3>2. main = "startAudio" => policy.audio
      BY DEF RecoveryInv, OneAudioStart
    <3> QED BY <1>0, <2>1, <2>3, <3>1, <3>2, PolicyCases, PostKeeps DEF Starts
  <2> QED BY <2>2, <2>3
<1>4. CASE WillStart
  <2>1. UNCHANGED linkVars /\ ~policy.started /\ main' = "begin"
    BY <1>4 DEF WillStart
  <2>2. policy'.started /\ PolicyGoesOn
    BY <1>0, <1>4 DEF WillStart, Policies, PolicyGoesOn
  <2> QED BY <2>1, <2>2, BridgeKeeps
<1>5. CASE Begin
  <2>1. main = "begin" /\ main' = "poll" /\ policy' = policy
        /\ Post(IF policy.audio THEN "startAudio" ELSE "start")
    BY <1>5 DEF Begin
  <2> QED BY <1>0, <2>1, PolicyCases, PostKeeps DEF Calls, Starts
<1>6. CASE Quit
  <2>1. main' = "closing" /\ policy' = policy /\ Post("stop")
    BY <1>6 DEF Quit
  <2> QED BY <1>0, <2>1, PolicyCases, PostKeeps DEF Calls, Starts
<1>7. CASE QuitBridge
  <2>1. main = "closing" /\ main' = "done"
    BY <1>7 DEF QuitBridge
  <2>2. CASE policy' = policy /\ UNCHANGED linkVars
    BY <1>0, <2>1, <2>2, PolicyCases, BridgeKeeps
  <2>3. CASE BridgeReadinessChanged(FALSE) /\ UNCHANGED linkVars
    BY <1>0, <2>1, <2>3, PolicyCases, BridgeKeeps
  <2>4. CASE BridgeReadinessChanged(FALSE) /\ Post("suspend")
    BY <1>0, <2>1, <2>4, PolicyCases, PostKeeps DEF Calls, Starts
  <2> QED BY <1>7, <2>2, <2>3, <2>4 DEF QuitBridge
<1> QED BY <1>1, <1>2, <1>3, <1>4, <1>5, <1>6, <1>7 DEF Main

LEMMA HeartbeatStep ==
  ASSUME RecoveryInv, NEW c \in Conn, Heartbeat(c)
  PROVE  RecoveryInv'
<1>0. policy \in Policies
  BY DEF RecoveryInv, OneAudioStart
<1>1. CASE HeartbeatFails(c) \/ BecomeUnavailable(c)
  <2>1. UNCHANGED linkVars /\ policy' = policy /\ main' = main
    BY <1>1 DEF HeartbeatFails, BecomeUnavailable
  <2> QED BY <1>0, <2>1, PolicyCases, BridgeKeeps
<1>2. CASE TellUnavailable(c)
  <2>1. UNCHANGED linkVars /\ BridgeReadinessChanged(FALSE) /\ main' = main
    BY <1>2 DEF TellUnavailable
  <2> QED BY <1>0, <2>1, PolicyCases, BridgeKeeps
<1>3. CASE SuspendSink(c)
  <2>1. Post("suspend") /\ policy' = policy /\ main' = main
    BY <1>3 DEF SuspendSink
  <2> QED BY <1>0, <2>1, PolicyCases, PostKeeps DEF Calls, Starts
<1> QED BY <1>1, <1>2, <1>3 DEF Heartbeat

LEMMA RecoveryStarts == Init => RecoveryInv
<1> SUFFICES ASSUME Init PROVE RecoveryInv
  OBVIOUS
<1>1. /\ held = FALSE /\ session = NewSession(FALSE) /\ pending = "none" /\ sent = "none"
      /\ stack = "down" /\ owed = {} /\ bound = FALSE /\ declared = FALSE /\ missed = FALSE
      /\ work = <<>> /\ main = "poll"
      /\ policy = [bridge |-> FALSE, started |-> FALSE, audio |-> FALSE]
  BY DEF Init, LinkInit
<1>2. /\ session \in Sessions /\ ~session.enabled /\ ~session.negotiated
      /\ ~session.ready /\ ~session.bindComplete /\ Fresh
  BY <1>1, NewSessionType DEF Fresh
<1>3. GattInv
  BY <1>1, <1>2 DEF GattInv, GattTypes, HandshakeBegins, ClosingIsOver,
     WriteAgrees,
                    StagesFollow, ReadyIsDeclared, SuspensionIsHeeded, Withdrawals
<1>4. DOMAIN work = {} /\ work \in Seq(Calls)
  BY <1>1
<1>5. OneAudioStart
  BY <1>1, <1>2, <1>4 DEF OneAudioStart, Policies
<1> QED BY <1>3, <1>5 DEF RecoveryInv

LEMMA RecoveryKept == RecoveryInv /\ [Next]_vars => RecoveryInv'
<1> SUFFICES ASSUME RecoveryInv, [Next]_vars PROVE RecoveryInv'
  OBVIOUS
<1>0. policy \in Policies
  BY DEF RecoveryInv, OneAudioStart
<1>1. CASE UNCHANGED vars \/ DriverChanges
  <2>1. UNCHANGED linkVars /\ policy' = policy /\ main' = main
    BY <1>1 DEF vars, bridgeVars, DriverChanges, DriverReturns, LeaseIsLost
  <2> QED BY <1>0, <2>1, PolicyCases, BridgeKeeps
<1> QED BY <1>1, LinkStep, MainStep, HeartbeatStep DEF Next

(* A sink the companion counts as offered is one the device knows of, on a   *)
(* link that holds, with no write under way that would change it             *)
(* (didWriteSinkReady, ProductGATTConnection.swift), for any number of       *)
(* faults of the link, of losses of the driver and of connections to it.     *)
THEOREM OfferedSinkIsDeclared == Spec => []ReadyIsDeclared
<1>1. RecoveryInv => ReadyIsDeclared
  BY DEF RecoveryInv, GattInv
<1> QED BY RecoveryStarts, RecoveryKept, <1>1, PTL DEF Spec

(* A device holds a sink that is not ready only while a write about it is on *)
(* its way, or after a suspension that came too early (beginAudioSuspension). *)
THEOREM SuspendedSinkIsWithdrawn == Spec => []SuspensionIsHeeded
<1>1. RecoveryInv => SuspensionIsHeeded
  BY DEF RecoveryInv, GattInv
<1> QED BY RecoveryStarts, RecoveryKept, <1>1, PTL DEF Spec

(* Both directions together (SinkIsHonest, what companion and device believe  *)
(* of the sink).                                                             *)
THEOREM SinkStaysHonest == Spec => []SinkIsHonest
<1>1. ReadyIsDeclared /\ SuspensionIsHeeded => SinkIsHonest
  BY DEF SinkIsHonest
<1> QED BY OfferedSinkIsDeclared, SuspendedSinkIsWithdrawn, <1>1, PTL
=============================================================================
