----------------------- MODULE ActiveProfile_proofs -----------------------
(* The catalog survives power cuts, for every number of profiles, of texts    *)
(* and of changes, and with flash commands that fail at any step; and the     *)
(* handlers over it keep one active profile and lose no version of a profile, *)
(* with activations that fail halfway and pages whose calls come late or fail.*)
(* It is assumed that a bank that was written completely can be read at boot; *)
(* without it the statements are false, as the README shows.                  *)
EXTENDS ActiveProfile, FiniteSetTheorems, TLAPS

BanksCanBeRead == "boot_read" \notin Faults

Committing == stage \in {"erase", "payload", "header", "verify"}

\* The bank in use holds the catalog in RAM; before the first change there is none.
InUse ==
    IF sequence = 0 THEN entries = NoProfiles /\ active = "B" /\ ~bank["B"].valid
    ELSE bank[active] = Written(sequence, entries)

\* A change that is in flash and not yet, or not at all, in RAM.
Pending ==
    /\ bank[Target] = Written(sequence + 1, bank[Target].profiles)
    /\ Durable!OneChange(entries, bank[Target].profiles)
    /\ DOMAIN bank[Target].profiles \subseteq DOMAIN entries \cup {sequence + 1}
    /\ answer # "ok" /\ stage \notin {"payload", "header"}
    /\ stage = "verify" => bank[Target].profiles = next

\* The other bank never looks newer than it is.
Spare ==
    \/ ~bank[Target].valid /\ stage # "verify"
    \/ bank[Target].sequence < sequence /\ stage \notin {"payload", "header", "verify"}
    \/ Pending

Planned ==
    Committing =>
        /\ Durable!OneChange(entries, next)
        /\ DOMAIN next \subseteq DOMAIN entries \cup {sequence + 1}
        /\ activeId = Safe \/ activeId \in DOMAIN next
        /\ answer = "none"

\* Ids are spent in the order of the sequence number.
Ids ==
    /\ DOMAIN entries \subseteq 1 .. sequence /\ retired \subseteq 1 .. sequence
    /\ IdsAreNotReused

IInv == CatalogTypeOK /\ InUse /\ Spare /\ Planned /\ Ids /\ ActiveIsListed

----------------------------------------------------------------------------
(* Catalogs                                                                   *)

LEMMA EmptyCatalog == IsCatalog(NoProfiles) /\ DOMAIN NoProfiles = {}
<1>1. DOMAIN NoProfiles = {}
  BY DEF NoProfiles
<1>2. IsFiniteSet({}) /\ Cardinality({}) = 0
  BY FS_EmptySet
<1>3. NoProfiles \in [{} -> Profiles]
  BY DEF NoProfiles
<1> QED
  BY <1>1, <1>2, <1>3, CatalogAssumption DEF IsCatalog

LEMMA AddProfile ==
  ASSUME NEW c, IsCatalog(c), Cardinality(DOMAIN c) < MaxProfiles,
         NEW id \in Nat \ {Safe}, id \notin DOMAIN c, NEW p \in Profiles
  PROVE  /\ IsCatalog(With(c, id, p))
         /\ DOMAIN With(c, id, p) = DOMAIN c \cup {id}
         /\ Durable!OneChange(c, With(c, id, p))
<1> DEFINE d == With(c, id, p)
<1>1. DOMAIN d = DOMAIN c \cup {id} /\ d[id] = p
  BY DEF With
<1>2. d \in [DOMAIN c \cup {id} -> Profiles]
  BY DEF With, IsCatalog
<1>3. IsFiniteSet(DOMAIN d) /\ Cardinality(DOMAIN d) = Cardinality(DOMAIN c) + 1
  BY <1>1, FS_AddElement DEF IsCatalog
<1>4. Cardinality(DOMAIN d) <= MaxProfiles
  BY <1>3, FS_CardinalityType, CatalogAssumption DEF IsCatalog
<1>5. IsCatalog(d)
  BY <1>1, <1>2, <1>3, <1>4 DEF IsCatalog
<1>6. d = [i \in DOMAIN c \cup {id} |-> IF i = id THEN d[id] ELSE c[i]]
  BY <1>1 DEF With
<1>7. Durable!OneChange(c, d)
  BY <1>1, <1>6 DEF Durable!OneChange
<1> QED
  BY <1>1, <1>5, <1>7

LEMMA NewVersion ==
  ASSUME NEW c, IsCatalog(c), NEW id \in DOMAIN c,
         NEW p \in Profiles, p.revision = c[id].revision + 1
  PROVE  /\ IsCatalog(With(c, id, p))
         /\ DOMAIN With(c, id, p) = DOMAIN c
         /\ Durable!OneChange(c, With(c, id, p))
<1> DEFINE d == With(c, id, p)
<1>1. DOMAIN d = DOMAIN c /\ d[id] = p
  BY DEF With
<1>2. d \in [DOMAIN c -> Profiles]
  BY DEF With, IsCatalog
<1>3. IsCatalog(d)
  BY <1>1, <1>2 DEF IsCatalog
<1>4. d = [c EXCEPT ![id] = d[id]]
  BY <1>1, <1>2 DEF With, IsCatalog
<1>5. Durable!OneChange(c, d)
  BY <1>1, <1>4 DEF Durable!OneChange
<1> QED
  BY <1>1, <1>3, <1>5

LEMMA DropProfile ==
  ASSUME NEW c, IsCatalog(c), NEW id \in DOMAIN c
  PROVE  /\ IsCatalog(Without(c, id))
         /\ DOMAIN Without(c, id) = DOMAIN c \ {id}
         /\ Durable!OneChange(c, Without(c, id))
<1> DEFINE d == Without(c, id)
<1>1. DOMAIN d = DOMAIN c \ {id}
  BY DEF Without
<1>2. d \in [DOMAIN c \ {id} -> Profiles]
  BY DEF Without, IsCatalog
<1>3. IsFiniteSet(DOMAIN d) /\ Cardinality(DOMAIN d) <= Cardinality(DOMAIN c)
  BY <1>1, FS_Subset DEF IsCatalog
<1>4. Cardinality(DOMAIN d) <= MaxProfiles
  BY <1>3, FS_CardinalityType, CatalogAssumption DEF IsCatalog
<1>5. IsCatalog(d)
  BY <1>1, <1>2, <1>3, <1>4 DEF IsCatalog
<1>6. Durable!OneChange(c, d)
  BY <1>1 DEF Durable!OneChange, Without
<1> QED
  BY <1>1, <1>5, <1>6

----------------------------------------------------------------------------
(* The banks                                                                  *)

LEMMA TwoBanks ==
  ASSUME active \in Banks
  PROVE  Target \in Banks /\ Target # active /\ Banks = {active, Target}
  BY DEF Banks, Target

\* Nothing is pending while there is no catalog and no change either.
LEMMA EmptyFlash ==
  ASSUME IInv, Readable = {}
  PROVE  sequence = 0 /\ entries = NoProfiles /\ active = "B"
<1>1. active \in Banks /\ sequence \in Nat
  BY DEF IInv, CatalogTypeOK
<1>2. ~bank[active].valid
  BY <1>1 DEF Readable
<1>3. sequence = 0
  BY <1>2 DEF IInv, InUse, Written
<1> QED
  BY <1>3 DEF IInv, InUse

\* At boot the newest bank is the one in use, unless a change is pending in the other one.
LEMMA NewestBank ==
  ASSUME IInv, Readable # {}
  PROVE  \/ Pending /\ bank[Target].valid /\ Newest(Readable) = Target
         \/ /\ ~Pending /\ sequence > 0 /\ Newest(Readable) = active
            /\ bank[active] = Written(sequence, entries)
<1>1. active \in Banks /\ sequence \in Nat /\ Target \in Banks /\ Target # active
  BY TwoBanks DEF IInv, CatalogTypeOK
<1>2. CASE Pending
  <2>1. bank[Target].valid /\ bank[Target].sequence = sequence + 1
    BY <1>2 DEF Pending, Written
  <2>2. Target \in Readable
    BY <1>1, <2>1 DEF Readable
  <2>3. active \notin Readable \/ bank[active].sequence = sequence
    BY <1>1 DEF IInv, InUse, Written, Readable
  <2>4. Newest(Readable) = Target
    <3>1. CASE Target = "A"
      BY <1>1, <2>1, <2>2, <2>3, <3>1 DEF Newest, Target, Banks
    <3>2. CASE Target = "B"
      BY <1>1, <2>1, <2>2, <2>3, <3>2 DEF Newest, Target, Banks
    <3> QED
      BY <1>1, <3>1, <3>2 DEF Banks
  <2> QED
    BY <1>2, <2>1, <2>4
<1>3. CASE ~Pending
  <2>1. ~bank[Target].valid \/ bank[Target].sequence < sequence
    BY <1>3 DEF IInv, Spare
  <2>2. sequence > 0
    <3>1. SUFFICES ASSUME sequence = 0 PROVE FALSE
      BY <1>1
    <3>2. ~bank[active].valid
      BY <3>1 DEF IInv, InUse
    <3>3. bank[Target].valid
      BY <1>1, <3>2, TwoBanks DEF Readable, Banks
    <3>4. bank[Target] = Blank \/ bank[Target].sequence \in Nat
      BY <1>1 DEF IInv, CatalogTypeOK
    <3> QED
      BY <2>1, <3>1, <3>3, <3>4 DEF Blank
  <2>3. bank[active] = Written(sequence, entries)
    BY <1>1, <2>2 DEF IInv, InUse
  <2>4. bank[active].valid /\ bank[active].sequence = sequence
    BY <2>3 DEF Written
  <2>5. active \in Readable
    BY <1>1, <2>4 DEF Readable
  <2>6. Target \notin Readable \/ bank[Target].sequence < bank[active].sequence
    BY <2>1, <2>4 DEF Readable
  <2>7. Target \notin Readable \/ bank[Target].sequence \in Nat
    BY <1>1 DEF IInv, CatalogTypeOK, Readable, Blank
  <2>8. Newest(Readable) = active
    <3>1. CASE active = "A"
      BY <1>1, <2>4, <2>5, <2>6, <2>7, <3>1 DEF Newest, Target, Banks
    <3>2. CASE active = "B"
      BY <1>1, <2>4, <2>5, <2>6, <2>7, <3>2 DEF Newest, Target, Banks
    <3> QED
      BY <1>1, <3>1, <3>2 DEF Banks
  <2> QED
    BY <1>3, <2>2, <2>3, <2>8
<1> QED
  BY <1>2, <1>3

\* What a restart finds.
LEMMA StoredIs ==
  ASSUME IInv
  PROVE  /\ Pending => Stored = bank[Target].profiles
         /\ ~Pending => Stored = entries
<1>1. CASE Readable = {}
  <2>1. ~Pending
    BY <1>1, TwoBanks DEF Pending, Written, Readable, IInv, CatalogTypeOK
  <2>2. Stored = entries
    BY <1>1, EmptyFlash DEF Stored
  <2> QED
    BY <2>1, <2>2
<1>2. CASE Readable # {}
  BY <1>2, NewestBank DEF Stored, Written
<1> QED
  BY <1>1, <1>2

----------------------------------------------------------------------------
(* The steps of a change                                                      *)

LEMMA InitInvariant == Init => IInv
<1> SUFFICES ASSUME Init PROVE IInv
  OBVIOUS
<1>1. IsCatalog(NoProfiles) /\ DOMAIN NoProfiles = {}
  BY EmptyCatalog
<1>2. \/ stage = "idle" /\ next = NoProfiles
      \/ /\ stage = "erase" /\ IsCatalog(next) /\ DOMAIN next = {1}
         /\ Durable!OneChange(NoProfiles, next)
  <2>1. CASE Legacy = {} /\ stage = "idle" /\ next = NoProfiles
    BY <2>1
  <2>2. CASE \E p \in Legacy : stage = "erase" /\ next = With(NoProfiles, 1, p)
    <3>1. PICK p \in Legacy : stage = "erase" /\ next = With(NoProfiles, 1, p)
      BY <2>2
    <3>2. p \in Profiles /\ 1 \in Nat \ {Safe} /\ 1 \notin DOMAIN NoProfiles
      BY <1>1, CatalogAssumption DEF Safe
    <3>3. Cardinality(DOMAIN NoProfiles) < MaxProfiles
      BY <1>1, FS_EmptySet, CatalogAssumption
    <3>4. /\ IsCatalog(With(NoProfiles, 1, p))
          /\ DOMAIN With(NoProfiles, 1, p) = DOMAIN NoProfiles \cup {1}
          /\ Durable!OneChange(NoProfiles, With(NoProfiles, 1, p))
      BY <1>1, <3>2, <3>3, AddProfile
    <3> QED
      BY <1>1, <3>1, <3>4
  <2> QED
    BY <2>1, <2>2 DEF Init
<1>3. CatalogTypeOK
  <2>1. legacy \subseteq Profiles
    BY CatalogAssumption DEF Init
  <2> QED
    BY <1>1, <1>2, <2>1 DEF Init, CatalogTypeOK, Banks, Safe
<1>4. InUse
  BY DEF Init, InUse, Blank, Banks
<1>5. Spare
  BY <1>2 DEF Init, Spare, Target, Blank, Banks
<1>6. Planned
  BY <1>1, <1>2 DEF Init, Planned, Committing
<1>7. Ids /\ ActiveIsListed
  BY <1>1 DEF Init, Ids, IdsAreNotReused, ActiveIsListed, Listed
<1> QED
  BY <1>3, <1>4, <1>5, <1>6, <1>7 DEF IInv

\* The request is written down; what is in flash and in use stays.
LEMMA StartInvariant ==
  ASSUME IInv, NEW wanted, StartCommit(wanted), IsCatalog(wanted),
         Durable!OneChange(entries, wanted),
         DOMAIN wanted \subseteq DOMAIN entries \cup {sequence + 1},
         activeId = Safe \/ activeId \in DOMAIN wanted
  PROVE  IInv'
<1>1. Target' = Target
  BY DEF StartCommit, Target
<1>2. CatalogTypeOK'
  BY DEF StartCommit, IInv, CatalogTypeOK
<1>3. InUse'
  BY DEF StartCommit, IInv, InUse
<1>4. Spare'
  <2>1. CASE Pending
    BY <1>1, <2>1 DEF StartCommit, Pending, Spare
  <2>2. CASE ~Pending
    BY <1>1, <2>2 DEF StartCommit, Spare, IInv
  <2> QED
    BY <2>1, <2>2
<1>5. Planned'
  BY DEF StartCommit, Planned
<1>6. Ids' /\ ActiveIsListed'
  BY DEF StartCommit, IInv, Ids, IdsAreNotReused, ActiveIsListed, Listed
<1> QED
  BY <1>2, <1>3, <1>4, <1>5, <1>6 DEF IInv

LEMMA NewIdIsNext ==
  ASSUME IInv
  PROVE  NewId = sequence + 1 /\ sequence + 1 \notin DOMAIN entries
<1>1. sequence \in Nat /\ DOMAIN entries \subseteq 1 .. sequence
  BY DEF IInv, Ids, CatalogTypeOK
<1>2. sequence + 1 \notin DOMAIN entries
  BY <1>1
<1>3. sequence + 1 \in sequence + 1 .. sequence + 1 + MaxProfiles
  BY <1>1, CatalogAssumption
<1>4. \A other \in sequence + 1 .. (sequence + 1) - 1 : other \in DOMAIN entries
  BY <1>1
<1> DEFINE Free(id) == /\ id \notin DOMAIN entries
                       /\ \A other \in sequence + 1 .. id - 1 : other \in DOMAIN entries
<1>5. Free(sequence + 1)
  BY <1>2, <1>4
<1>6. ASSUME NEW id \in sequence + 1 .. sequence + 1 + MaxProfiles, Free(id)
      PROVE  id = sequence + 1
  <2>1. id \in Nat /\ id >= sequence + 1
    BY <1>1, <1>6, CatalogAssumption
  <2>2. id > sequence + 1 => sequence + 1 \in sequence + 1 .. id - 1
    BY <1>1, <2>1
  <2> QED
    BY <1>1, <1>2, <1>6, <2>1, <2>2
<1> HIDE DEF Free
<1>7. NewId = CHOOSE id \in sequence + 1 .. sequence + 1 + MaxProfiles : Free(id)
  BY DEF NewId, Free
<1> QED
  BY <1>2, <1>3, <1>5, <1>6, <1>7

LEMMA CreateInvariant ==
  ASSUME IInv, NEW text \in Texts, Create(text) PROVE IInv'
<1>1. IsCatalog(entries) /\ sequence \in Nat
  BY DEF IInv, CatalogTypeOK
<1>2. NewId = sequence + 1 /\ NewId \notin DOMAIN entries
  BY NewIdIsNext
<1>3. NewId \in Nat \ {Safe} /\ Profile(1, text) \in Profiles
  BY <1>1, <1>2 DEF Safe, Profile, Profiles
<1>4. Cardinality(DOMAIN entries) < MaxProfiles
  BY DEF Create
<1> DEFINE wanted == With(entries, NewId, Profile(1, text))
<1>5. /\ IsCatalog(wanted) /\ DOMAIN wanted = DOMAIN entries \cup {NewId}
      /\ Durable!OneChange(entries, wanted)
  BY <1>1, <1>2, <1>3, <1>4, AddProfile
<1>6. activeId = Safe \/ activeId \in DOMAIN wanted
  BY <1>5 DEF IInv, ActiveIsListed, Listed
<1>7. StartCommit(wanted)
  BY DEF Create
<1> HIDE DEF wanted
<1> QED
  BY <1>2, <1>5, <1>6, <1>7, StartInvariant

LEMMA PublishInvariant ==
  ASSUME IInv, NEW id \in DOMAIN entries, NEW text \in Texts,
         Publish(id, text, entries[id].revision)
  PROVE  IInv'
<1>1. IsCatalog(entries)
  BY DEF IInv, CatalogTypeOK
<1>2. entries[id] \in Profiles
  BY <1>1 DEF IsCatalog
<1> DEFINE p == Profile(entries[id].revision + 1, text)
           wanted == With(entries, id, p)
<1>3. p \in Profiles /\ p.revision = entries[id].revision + 1
  BY <1>2 DEF Profile, Profiles
<1> HIDE DEF p
<1>4. IsCatalog(wanted) /\ DOMAIN wanted = DOMAIN entries /\ Durable!OneChange(entries, wanted)
  BY <1>1, <1>3, NewVersion
<1>5. activeId = Safe \/ activeId \in DOMAIN wanted
  BY <1>4 DEF IInv, ActiveIsListed, Listed
<1>6. StartCommit(wanted)
  BY DEF Publish, p
<1> HIDE DEF wanted
<1> QED
  BY <1>4, <1>5, <1>6, StartInvariant

LEMMA RemoveInvariant ==
  ASSUME IInv, NEW id \in DOMAIN entries, Remove(id) PROVE IInv'
<1>1. IsCatalog(entries)
  BY DEF IInv, CatalogTypeOK
<1> DEFINE wanted == Without(entries, id)
<1>2. /\ IsCatalog(wanted) /\ DOMAIN wanted = DOMAIN entries \ {id}
      /\ Durable!OneChange(entries, wanted)
  BY <1>1, DropProfile
<1>3. activeId = Safe \/ activeId \in DOMAIN wanted
  BY <1>2 DEF Remove, IInv, ActiveIsListed, Listed
<1>4. StartCommit(wanted)
  BY DEF Remove
<1> HIDE DEF wanted
<1> QED
  BY <1>2, <1>3, <1>4, StartInvariant

\* The other bank is cleared, or still holds what it held.
LEMMA EraseInvariant ==
  ASSUME IInv, Erase PROVE IInv'
<1>1. active \in Banks /\ Target \in Banks /\ Target # active /\ DOMAIN bank = Banks
  BY TwoBanks DEF IInv, CatalogTypeOK
<1>2. Target' = Target /\ UNCHANGED <<active, sequence, entries, activeId, legacy, next, retired>>
  BY DEF Erase, Target
<1>3. bank' = bank \/ bank' = [bank EXCEPT ![Target] = Blank]
  BY DEF Erase
<1>4. bank'[active] = bank[active] /\ (bank' = bank \/ bank'[Target] = Blank)
  BY <1>1, <1>3
<1>5. \/ stage' = "payload" /\ answer' = answer /\ bank'[Target] = Blank
      \/ stage' = "done" /\ answer' = "storage_error"
  BY <1>1 DEF Erase, Fails
<1>6. CatalogTypeOK'
  <2>1. DOMAIN bank' = Banks /\ \A b \in Banks : bank'[b] = bank[b] \/ bank'[b] = Blank
    BY <1>1, <1>3
  <2> QED
    BY <1>2, <1>5, <2>1 DEF IInv, CatalogTypeOK
<1>7. InUse'
  <2>1. sequence = 0 => ~bank'["B"].valid
    BY <1>1, <1>3 DEF IInv, InUse, Blank
  <2> QED
    BY <1>2, <1>4, <2>1 DEF IInv, InUse
<1>8. Spare'
  <2>1. CASE bank'[Target] = Blank
    BY <1>2, <1>5, <2>1 DEF Spare, Blank
  <2>2. CASE bank' = bank /\ bank'[Target] # Blank
    <3>1. stage' = "done" /\ answer' = "storage_error"
      BY <1>5, <2>2
    <3>2. CASE Pending
      BY <1>2, <2>2, <3>1, <3>2 DEF Pending, Spare
    <3>3. CASE ~Pending
      BY <1>2, <2>2, <3>1, <3>3 DEF IInv, Spare
    <3> QED
      BY <3>2, <3>3
  <2> QED
    BY <1>4, <2>1, <2>2
<1>9. Planned'
  BY <1>2, <1>5 DEF IInv, Planned, Committing, Erase
<1>10. Ids' /\ ActiveIsListed'
  BY <1>2 DEF IInv, Ids, IdsAreNotReused, ActiveIsListed, Listed
<1> QED
  BY <1>6, <1>7, <1>8, <1>9, <1>10 DEF IInv

LEMMA WritePayloadInvariant ==
  ASSUME IInv, WritePayload PROVE IInv'
<1>1. /\ Target' = Target
      /\ UNCHANGED <<bank, active, sequence, entries, activeId, legacy, next, retired>>
  BY DEF WritePayload, Target
<1>2. /\ stage = "payload"
      /\ \/ stage' = "header" /\ answer' = answer
         \/ stage' = "done" /\ answer' = "storage_error"
  BY DEF WritePayload, Fails
<1>3. CatalogTypeOK' /\ InUse'
  BY <1>1, <1>2 DEF IInv, CatalogTypeOK, InUse
<1>4. Spare'
  <2>1. ~bank[Target].valid
    BY <1>2 DEF IInv, Spare, Pending
  <2> QED
    BY <1>1, <1>2, <2>1 DEF Spare
<1>5. Planned'
  BY <1>1, <1>2 DEF IInv, Planned, Committing
<1>6. Ids' /\ ActiveIsListed'
  BY <1>1 DEF IInv, Ids, IdsAreNotReused, ActiveIsListed, Listed
<1> QED
  BY <1>3, <1>4, <1>5, <1>6 DEF IInv

\* The header makes the change pending, whether or not it is reported written.
LEMMA WriteHeaderInvariant ==
  ASSUME IInv, WriteHeader PROVE IInv'
<1> DEFINE written == Written(sequence + 1, next)
<1>1. active \in Banks /\ Target \in Banks /\ Target # active /\ DOMAIN bank = Banks
  BY TwoBanks DEF IInv, CatalogTypeOK
<1>2. Target' = Target /\ UNCHANGED <<active, sequence, entries, activeId, legacy, next, retired>>
  BY DEF WriteHeader, Target
<1>3. /\ stage = "header" /\ answer = "none" /\ Durable!OneChange(entries, next)
      /\ DOMAIN next \subseteq DOMAIN entries \cup {sequence + 1}
  BY DEF IInv, Planned, Committing, WriteHeader
<1>4. bank' = bank \/ bank' = [bank EXCEPT ![Target] = written]
  BY DEF WriteHeader, NextSequence
<1>5. bank'[active] = bank[active] /\ (bank' = bank \/ bank'[Target] = written)
  BY <1>1, <1>4
<1>6. \/ stage' = "verify" /\ answer' = answer /\ bank'[Target] = written
      \/ stage' = "done" /\ answer' = "storage_error"
  BY <1>1 DEF WriteHeader, Fails, NextSequence
<1>7. sequence \in Nat /\ IsCatalog(next)
  BY DEF IInv, CatalogTypeOK
<1>8. CatalogTypeOK'
  <2>1. DOMAIN bank' = Banks /\ \A b \in Banks : bank'[b] = bank[b] \/ bank'[b] = written
    BY <1>1, <1>4
  <2>2. /\ written = Written(written.sequence, written.profiles)
        /\ written.sequence \in Nat /\ IsCatalog(written.profiles)
    BY <1>7 DEF Written
  <2> QED
    BY <1>2, <1>6, <2>1, <2>2 DEF IInv, CatalogTypeOK
<1>9. InUse'
  <2>1. sequence = 0 => ~bank'["B"].valid
    <3>1. sequence = 0 => active = "B" /\ ~bank["B"].valid
      BY DEF IInv, InUse
    <3> QED
      BY <1>5, <3>1
  <2> QED
    BY <1>2, <1>5, <2>1 DEF IInv, InUse
<1>10. Spare'
  <2>1. CASE bank'[Target] = written
    <3>1. bank'[Target].profiles = next
      BY <2>1 DEF Written
    <3>2. Pending'
      BY <1>2, <1>3, <1>6, <2>1, <3>1 DEF Pending
    <3> QED
      BY <3>2 DEF Spare
  <2>2. CASE bank' = bank /\ bank'[Target] # written
    <3>1. ~bank[Target].valid
      BY <1>3 DEF IInv, Spare, Pending
    <3> QED
      BY <1>2, <1>6, <2>2, <3>1 DEF Spare
  <2> QED
    BY <1>5, <2>1, <2>2
<1>11. Planned'
  BY <1>2, <1>3, <1>6 DEF IInv, Planned, Committing
<1>12. Ids' /\ ActiveIsListed'
  BY <1>2 DEF IInv, Ids, IdsAreNotReused, ActiveIsListed, Listed
<1> QED
  BY <1>8, <1>9, <1>10, <1>11, <1>12 DEF IInv

\* Ids that a change adds stay within the new sequence number.
LEMMA IdsGrow ==
  ASSUME NEW number \in Nat, NEW before, NEW after, NEW gone,
         before \subseteq 1 .. number, gone \subseteq 1 .. number,
         after \subseteq before \cup {number + 1}
  PROVE  /\ after \subseteq 1 .. number + 1
         /\ gone \cup (before \ after) \subseteq 1 .. number + 1
<1>1. \A id \in 1 .. number : id \in 1 .. number + 1
  OBVIOUS
<1>2. number + 1 \in 1 .. number + 1
  OBVIOUS
<1> QED
  BY <1>1, <1>2

\* A pending change comes into use: the banks change places.
LEMMA AdoptPending ==
  ASSUME IInv, Pending, active' = Target, sequence' = bank[Target].sequence,
         Adopt(bank[Target].profiles), bank' = bank, legacy' = legacy,
         stage' \in {"idle", "done"}, stage' = "done" => answer' = "ok",
         answer' \in {"none", "ok"}, IsCatalog(next'),
         activeId' = Safe \/ (activeId' = activeId /\ stage = "verify")
  PROVE  IInv'
<1>1. active \in Banks /\ Target \in Banks /\ Target # active /\ sequence \in Nat
  BY TwoBanks DEF IInv, CatalogTypeOK
<1>2. Target' = active
  BY <1>1 DEF Target, Banks
<1>3. /\ sequence' = sequence + 1 /\ entries' = bank[Target].profiles
      /\ bank[Target] = Written(sequence + 1, entries')
      /\ DOMAIN entries' \subseteq DOMAIN entries \cup {sequence + 1}
      /\ retired' = retired \cup (DOMAIN entries \ DOMAIN entries')
  BY DEF Pending, Written, Adopt
<1>4. IsCatalog(entries')
  <2>1. bank[Target] # Blank
    BY <1>3 DEF Written, Blank
  <2> QED
    BY <1>1, <1>3, <2>1 DEF IInv, CatalogTypeOK
<1>5. DOMAIN entries \subseteq 1 .. sequence /\ retired \subseteq 1 .. sequence
  BY DEF IInv, Ids
<1>a. DOMAIN entries' \subseteq 1 .. sequence' /\ retired' \subseteq 1 .. sequence'
  BY <1>1, <1>3, <1>5, IdsGrow
<1>6. CatalogTypeOK'
  <2>1. sequence' \in Nat
    BY <1>1, <1>3
  <2>3. retired' \subseteq Nat
    BY <1>a, <2>1
  <2>2. activeId' \in Nat
    BY DEF IInv, CatalogTypeOK, Safe
  <2> QED
    BY <1>1, <1>4, <2>1, <2>2, <2>3 DEF IInv, CatalogTypeOK
<1>7. InUse'
  <2>1. sequence' # 0
    BY <1>1, <1>3
  <2> QED
    BY <1>3, <2>1 DEF InUse
<1>8. Spare'
  <2>1. ~bank[active].valid \/ bank[active].sequence = sequence
    BY DEF IInv, InUse, Written
  <2> QED
    BY <1>1, <1>2, <1>3, <2>1 DEF Spare
<1>9. Planned'
  BY DEF Planned, Committing
<1>10. Ids'
  <2>2. sequence + 1 \notin retired /\ sequence + 1 \notin DOMAIN entries
    BY <1>1, <1>5
  <2>3. retired \cap DOMAIN entries = {}
    BY DEF IInv, Ids, IdsAreNotReused
  <2>4. retired' \cap DOMAIN entries' = {}
    BY <1>3, <2>2, <2>3
  <2> QED
    BY <1>a, <2>4 DEF Ids, IdsAreNotReused
<1>11. ActiveIsListed'
  <2>1. CASE activeId' = Safe
    BY <2>1 DEF ActiveIsListed, Listed
  <2>2. CASE activeId' = activeId /\ stage = "verify"
    <3>1. entries' = next
      BY <1>3, <2>2 DEF Pending
    <3>2. activeId = Safe \/ activeId \in DOMAIN next
      BY <2>2 DEF IInv, Planned, Committing
    <3> QED
      BY <2>2, <3>1, <3>2 DEF ActiveIsListed, Listed
  <2> QED
    BY <2>1, <2>2
<1> QED
  BY <1>6, <1>7, <1>8, <1>9, <1>10, <1>11 DEF IInv

LEMMA VerifyInvariant ==
  ASSUME IInv, Verify PROVE IInv'
<1>1. stage = "verify" /\ Pending
  <2>1. stage = "verify"
    BY DEF Verify
  <2> QED
    BY <2>1 DEF IInv, Spare
<1>2. UNCHANGED <<bank, activeId, legacy, next>>
  BY DEF Verify
<1>3. CASE answer' = "ok"
  <2>1. /\ active' = Target /\ sequence' = bank[Target].sequence
        /\ Adopt(bank[Target].profiles) /\ stage' = "done"
    BY <1>3 DEF Verify, Fails
  <2>2. IsCatalog(next')
    BY <1>2 DEF IInv, CatalogTypeOK
  <2> QED
    BY <1>1, <1>2, <1>3, <2>1, <2>2, AdoptPending
<1>4. CASE answer' # "ok"
  <2>1. /\ stage' = "done" /\ answer' = "storage_error"
        /\ UNCHANGED <<active, sequence, entries, retired>>
    BY <1>4 DEF Verify, Fails
  <2>2. Target' = Target
    BY <2>1 DEF Target
  <2>3. CatalogTypeOK' /\ InUse'
    BY <1>2, <2>1 DEF IInv, CatalogTypeOK, InUse
  <2>4. Pending'
    BY <1>1, <1>2, <2>1, <2>2 DEF Pending
  <2>5. Planned'
    BY <2>1 DEF Planned, Committing
  <2>6. Ids' /\ ActiveIsListed'
    BY <1>2, <2>1 DEF IInv, Ids, IdsAreNotReused, ActiveIsListed, Listed
  <2> QED
    BY <2>3, <2>4, <2>5, <2>6 DEF IInv, Spare
<1> QED
  BY <1>3, <1>4

\* The caller takes the answer.
LEMMA ReturnInvariant ==
  ASSUME IInv, Return PROVE IInv'
<1>1. /\ stage = "done" /\ stage' = "idle" /\ Target' = Target
      /\ UNCHANGED <<bank, active, sequence, entries, activeId, legacy, next, answer, retired>>
  BY DEF Return, Target
<1>2. CatalogTypeOK' /\ InUse'
  BY <1>1 DEF IInv, CatalogTypeOK, InUse
<1>3. Spare'
  <2>1. CASE Pending
    BY <1>1, <2>1 DEF Pending, Spare
  <2>2. CASE ~Pending
    BY <1>1, <2>2 DEF IInv, Spare
  <2> QED
    BY <2>1, <2>2
<1>4. Planned'
  BY <1>1 DEF Planned, Committing
<1>5. Ids' /\ ActiveIsListed'
  BY <1>1 DEF IInv, Ids, IdsAreNotReused, ActiveIsListed, Listed
<1> QED
  BY <1>2, <1>3, <1>4, <1>5 DEF IInv

LEMMA ActivateInvariant ==
  ASSUME IInv, NEW id \in Listed, Activate(id) PROVE IInv'
<1>1. /\ stage = "idle" /\ activeId' = id /\ Target' = Target
      /\ UNCHANGED <<bank, active, sequence, entries, legacy, stage, next, answer, retired>>
  BY DEF Activate, Target
<1>2. id \in Nat
  BY DEF Listed, Safe, IInv, CatalogTypeOK, IsCatalog
<1>3. CatalogTypeOK' /\ InUse'
  BY <1>1, <1>2 DEF IInv, CatalogTypeOK, InUse
<1>4. Spare'
  <2>1. CASE Pending
    BY <1>1, <2>1 DEF Pending, Spare
  <2>2. CASE ~Pending
    BY <1>1, <2>2 DEF IInv, Spare
  <2> QED
    BY <2>1, <2>2
<1>5. Planned'
  BY <1>1 DEF Planned, Committing
<1>6. Ids' /\ ActiveIsListed'
  BY <1>1 DEF IInv, Ids, IdsAreNotReused, ActiveIsListed, Listed
<1> QED
  BY <1>3, <1>4, <1>5, <1>6 DEF IInv

\* Power comes back: the newest bank is loaded, or an older profile is imported.
LEMMA RestartInvariant ==
  ASSUME IInv, Restart, BanksCanBeRead PROVE IInv'
<1>1. Load(Readable)
  BY DEF Restart, BanksCanBeRead, Fault
<1>2. activeId' = Safe /\ answer' = "none" /\ bank' = bank /\ legacy' = legacy
  BY <1>1 DEF Load
<1>a. legacy \subseteq Profiles
  BY DEF IInv, CatalogTypeOK
<1>3. IsCatalog(NoProfiles) /\ DOMAIN NoProfiles = {}
  BY EmptyCatalog
<1>4. CASE Readable # {} /\ Pending
  <2>1. Newest(Readable) = Target
    BY <1>4, NewestBank
  <2>2. /\ active' = Target /\ sequence' = bank[Target].sequence
        /\ Adopt(bank[Target].profiles) /\ stage' = "idle" /\ next' = NoProfiles
    BY <1>1, <1>4, <2>1 DEF Load
  <2> QED
    BY <1>2, <1>3, <1>4, <2>2, AdoptPending
<1>5. CASE Readable # {} /\ ~Pending
  <2>1. sequence > 0 /\ Newest(Readable) = active /\ bank[active] = Written(sequence, entries)
    BY <1>5, NewestBank
  <2>2. /\ active' = active /\ sequence' = sequence /\ entries' = entries
        /\ retired' = retired /\ stage' = "idle" /\ next' = NoProfiles
    <3>1. /\ active' = Newest(Readable) /\ sequence' = bank[Newest(Readable)].sequence
          /\ Adopt(bank[Newest(Readable)].profiles) /\ stage' = "idle" /\ next' = NoProfiles
      BY <1>1, <1>5 DEF Load
    <3>2. bank[active].sequence = sequence /\ bank[active].profiles = entries
      BY <2>1 DEF Written
    <3> QED
      BY <2>1, <3>1, <3>2 DEF Adopt
  <2>3. Target' = Target
    BY <2>2 DEF Target
  <2>4. CatalogTypeOK' /\ InUse'
    BY <1>2, <1>3, <1>a, <2>2 DEF IInv, CatalogTypeOK, InUse, Safe
  <2>5. Spare'
    BY <1>2, <1>5, <2>2, <2>3 DEF IInv, Spare
  <2>6. Planned' /\ Ids' /\ ActiveIsListed'
    BY <1>2, <2>2 DEF IInv, Planned, Committing, Ids, IdsAreNotReused, ActiveIsListed, Listed
  <2> QED
    BY <2>4, <2>5, <2>6 DEF IInv
<1>6. CASE Readable = {}
  <2>1. sequence = 0 /\ entries = NoProfiles /\ active = "B"
    BY <1>6, EmptyFlash
  <2>2. active' = "B" /\ sequence' = 0 /\ entries' = NoProfiles /\ retired' = retired
    BY <1>1, <1>3, <1>6, <2>1 DEF Load, Adopt
  <2>3. \/ stage' = "idle" /\ next' = NoProfiles
        \/ /\ stage' = "erase" /\ IsCatalog(next') /\ DOMAIN next' = {1}
           /\ Durable!OneChange(NoProfiles, next')
    <3>1. CASE stage' = "idle" /\ next' = NoProfiles
      BY <3>1
    <3>2. CASE \E p \in legacy : stage' = "erase" /\ next' = With(NoProfiles, 1, p)
      <4>1. PICK p \in legacy : stage' = "erase" /\ next' = With(NoProfiles, 1, p)
        BY <3>2
      <4>2. p \in Profiles /\ 1 \in Nat \ {Safe} /\ 1 \notin DOMAIN NoProfiles
        BY <1>3, <1>a DEF Safe
      <4>3. Cardinality(DOMAIN NoProfiles) < MaxProfiles
        BY <1>3, FS_EmptySet, CatalogAssumption
      <4>4. /\ IsCatalog(With(NoProfiles, 1, p))
            /\ DOMAIN With(NoProfiles, 1, p) = DOMAIN NoProfiles \cup {1}
            /\ Durable!OneChange(NoProfiles, With(NoProfiles, 1, p))
        BY <1>3, <4>2, <4>3, AddProfile
      <4> QED
        BY <1>3, <4>1, <4>4
    <3> QED
      BY <1>1, <1>6, <3>1, <3>2 DEF Load
  <2>4. ~bank["A"].valid /\ ~bank["B"].valid
    BY <1>6 DEF Readable, Banks
  <2>5. CatalogTypeOK'
    BY <1>2, <1>3, <1>a, <2>2, <2>3 DEF IInv, CatalogTypeOK, Safe, Banks
  <2>6. InUse' /\ Spare'
    BY <1>2, <2>2, <2>3, <2>4 DEF InUse, Spare, Target
  <2>7. Planned'
    BY <1>2, <1>3, <2>2, <2>3 DEF Planned, Committing
  <2>8. Ids' /\ ActiveIsListed'
    BY <1>2, <2>1, <2>2 DEF IInv, Ids, IdsAreNotReused, ActiveIsListed, Listed
  <2> QED
    BY <2>5, <2>6, <2>7, <2>8 DEF IInv
<1> QED
  BY <1>4, <1>5, <1>6

----------------------------------------------------------------------------
(* The theorems                                                               *)

LEMMA StepInvariant ==
  ASSUME IInv, [Next]_storeVars, BanksCanBeRead PROVE IInv'
<1>1. CASE Erase
  BY <1>1, EraseInvariant
<1>2. CASE WritePayload
  BY <1>2, WritePayloadInvariant
<1>3. CASE WriteHeader
  BY <1>3, WriteHeaderInvariant
<1>4. CASE Verify
  BY <1>4, VerifyInvariant
<1>5. CASE Return
  BY <1>5, ReturnInvariant
<1>6. CASE Restart
  BY <1>6, RestartInvariant
<1>7. ASSUME NEW text \in Texts, Create(text) PROVE IInv'
  BY <1>7, CreateInvariant
<1>8. ASSUME NEW id \in DOMAIN entries, Remove(id) PROVE IInv'
  BY <1>8, RemoveInvariant
<1>9. ASSUME NEW id \in DOMAIN entries, NEW text \in Texts,
             Publish(id, text, entries[id].revision)
      PROVE  IInv'
  BY <1>9, PublishInvariant
<1>10. ASSUME NEW id \in Listed, Activate(id) PROVE IInv'
  BY <1>10, ActivateInvariant
<1>11. CASE UNCHANGED storeVars
  <2>1. /\ Target' = Target
        /\ UNCHANGED <<bank, active, sequence, entries, activeId, legacy>>
        /\ UNCHANGED <<stage, next, answer, retired>>
    BY <1>11 DEF storeVars, Target
  <2>2. CatalogTypeOK' /\ InUse'
    BY <2>1 DEF IInv, CatalogTypeOK, InUse
  <2>3. Pending' = Pending
    BY <2>1 DEF Pending
  <2>4. Spare' /\ Planned'
    BY <2>1, <2>3 DEF IInv, Spare, Planned, Committing
  <2>5. Ids' /\ ActiveIsListed'
    BY <2>1 DEF IInv, Ids, IdsAreNotReused, ActiveIsListed, Listed
  <2> QED
    BY <2>2, <2>4, <2>5 DEF IInv
<1> QED
  BY <1>1, <1>2, <1>3, <1>4, <1>5, <1>6, <1>7, <1>8, <1>9, <1>10, <1>11 DEF Next, CommitStep

\* The strengthened invariant, for every length of history.
THEOREM Invariant ==
  ASSUME BanksCanBeRead PROVE Spec => []IInv
<1>1. Init => IInv
  BY InitInvariant
<1>2. IInv /\ [Next]_storeVars => IInv'
  BY StepInvariant
<1> QED
  BY <1>1, <1>2, PTL DEF Spec

\* Every value keeps its type, and no catalog holds more profiles than the array of entries.
THEOREM TypeCorrect ==
  ASSUME BanksCanBeRead PROVE Spec => []CatalogTypeOK
<1>1. IInv => CatalogTypeOK
  BY DEF IInv
<1> QED
  BY <1>1, Invariant, PTL

\* An id that lost its profile never names another one.
THEOREM IdsStaySpent ==
  ASSUME BanksCanBeRead PROVE Spec => []IdsAreNotReused
<1>1. IInv => IdsAreNotReused
  BY DEF IInv, Ids
<1> QED
  BY <1>1, Invariant, PTL

\* The active id always names a profile.
THEOREM ActiveStaysListed ==
  ASSUME BanksCanBeRead PROVE Spec => []ActiveIsListed
<1>1. IInv => ActiveIsListed
  BY DEF IInv
<1> QED
  BY <1>1, Invariant, PTL

\* A change answered ok is what a restart loads.
THEOREM AcknowledgedSurvives ==
  ASSUME BanksCanBeRead PROVE Spec => []AcknowledgedIsStored
<1>1. IInv => AcknowledgedIsStored
  <2> SUFFICES ASSUME IInv, answer = "ok" PROVE Stored = entries
    BY DEF AcknowledgedIsStored
  <2>1. ~Pending
    BY DEF Pending
  <2> QED
    BY <2>1, StoredIs
<1> QED
  BY <1>1, Invariant, PTL

LEMMA StoredIsOneOf ==
  IInv => \/ Stored = entries
          \/ Pending /\ Stored = bank[Target].profiles
BY StoredIs

\* A step that leaves the catalog in RAM alone writes a change to flash or takes it back.
LEMMA QuietStep ==
  ASSUME IInv', entries' = entries PROVE Durable!Next
<1>1. \/ (Stored = entries)'
      \/ (Pending /\ Stored = bank[Target].profiles)'
  BY StoredIsOneOf, PTL
<1>2. Stored' = entries \/ Durable!OneChange(entries, Stored')
  BY <1>1 DEF Pending
<1>3. Durable!Withdraw \/ Durable!Write
  BY <1>2 DEF Durable!Withdraw, Durable!Write
<1> QED
  BY <1>3 DEF Durable!Next

\* A step that takes the catalog over from flash.
LEMMA AdoptingStep ==
  ASSUME bank' = bank, entries' = Stored PROVE Durable!Next
<1>1. Stored' = Stored
  BY DEF Stored, Readable, Newest
<1>2. Durable!Adopt
  BY <1>1 DEF Durable!Adopt
<1> QED
  BY <1>2 DEF Durable!Next

LEMMA DurableStep ==
  ASSUME IInv, IInv', [Next]_storeVars, BanksCanBeRead
  PROVE  [Durable!Next]_<<entries, Stored>>
<1>1. CASE entries' = entries
  BY <1>1, QuietStep
<1>2. CASE Verify /\ entries' # entries
  <2>1. stage = "verify" /\ entries' = bank[Target].profiles /\ bank' = bank
    BY <1>2 DEF Verify, Adopt
  <2>2. Pending
    BY <2>1 DEF IInv, Spare
  <2> QED
    BY <2>1, <2>2, StoredIs, AdoptingStep
<1>3. CASE Restart
  <2>1. Load(Readable)
    BY <1>3 DEF Restart, BanksCanBeRead, Fault
  <2>2. entries' = Stored /\ bank' = bank
    BY <2>1 DEF Load, Adopt, Stored
  <2> QED
    BY <2>2, AdoptingStep
<1>4. Next /\ entries' # entries => Verify \/ Restart
  BY DEF Next, CommitStep, Erase, WritePayload, WriteHeader, Return, Create, Remove,
         Publish, Activate, StartCommit
<1>5. UNCHANGED storeVars => entries' = entries
  BY DEF storeVars
<1> QED
  BY <1>1, <1>2, <1>3, <1>4, <1>5

LEMMA DurableInit == Init => Durable!Init
<1> SUFFICES ASSUME Init PROVE Durable!Init
  OBVIOUS
<1>1. Readable = {}
  BY DEF Init, Readable, Blank
<1>2. entries = NoProfiles /\ Stored = NoProfiles
  BY <1>1 DEF Init, Stored
<1>3. NoProfiles = Durable!NoProfiles
  BY DEF NoProfiles, Durable!NoProfiles
<1> QED
  BY <1>2, <1>3 DEF Durable!Init

\* The two banks implement one catalog that survives power cuts.
THEOREM Implements ==
  ASSUME BanksCanBeRead PROVE Spec => ImplementsDurable
<1>1. Init => Durable!Init
  BY DurableInit
<1>2. IInv /\ IInv' /\ [Next]_storeVars => [Durable!Next]_<<entries, Stored>>
  BY DurableStep
<1> QED
  BY <1>1, <1>2, Invariant, PTL DEF Spec, ImplementsDurable, Durable!Spec

\* What the callers of the catalog rely on between two of its steps (commit, create, remove).
THEOREM CatalogStaysSafe ==
  ASSUME BanksCanBeRead PROVE Spec => []CatalogIsSafe
<1>1. AcknowledgedIsStored /\ IdsAreNotReused /\ ActiveIsListed => CatalogIsSafe
  BY DEF CatalogIsSafe
<1> QED
  BY AcknowledgedSurvives, IdsStaySpent, ActiveStaysListed, <1>1, PTL

----------------------------------------------------------------------------
(* The handlers over the catalog                                              *)

\* The change under way leaves the active profile alone, or the PUT that replaces it has
\* yet to take it over.
KeepsBindings(catalog) ==
    \/ activeId = Safe \/ request.id = activeId
    \/ activeId \in DOMAIN catalog /\ catalog[activeId] = entries[activeId]

Runs ==
    boot = "ready" =>
        /\ "record" \notin amiss => persisted = activeId
        /\ Committing => KeepsBindings(next)
        /\ "bindings" \notin amiss =>
             \/ working = Content(activeId)
             \/ /\ stage = "done" /\ answer = "ok"
                /\ request # NoRequest /\ request.id = activeId

Asked ==
    request # NoRequest =>
        /\ boot = "ready" /\ stage # "idle"
        /\ request.id \in DOMAIN entries
        /\ Committing =>
             /\ request.id \in DOMAIN next
             /\ request.base.of = request.id => entries[request.id] = request.base.profile

\* A body was a version of the profile it was read under: the present one, an older one, or
\* one of a profile that is gone for ever.
Known(body, catalog, gone) ==
    \/ body.of = Safe \/ body.of \in gone
    \/ /\ body.of \in DOMAIN catalog
       /\ body.profile = catalog[body.of] \/ body.profile.revision < catalog[body.of].revision

\* What a page holds, sends or is about to get.
PagesKnow ==
    \A page \in Pages :
        /\ Known(held[page], entries, retired)
        /\ \A call \in calls[page] : Known(call.body, entries, retired)

Calls == [kind : {"get", "put", "answer"}, id : Nat, body : Bodies]
PageTypes ==
    /\ selected \in [Pages -> Nat] /\ held \in [Pages -> Bodies]
    /\ calls \in [Pages -> SUBSET Calls]
WebTypes ==
    /\ working \in Profiles
    /\ PageTypes
    /\ request \in [page : Pages, id : Nat, base : Bodies]

WebInv == WebTypes /\ Runs /\ Asked /\ PagesKnow

LEMMA CatalogHolds ==
  ASSUME IInv
  PROVE  /\ Safe \notin DOMAIN entries
         /\ \A id \in DOMAIN entries : entries[id] \in Profiles
         /\ \A id \in Listed : id \in Nat /\ Content(id) \in Profiles
<1>1. SafeProfile \in Profiles
  BY CatalogAssumption DEF SafeProfile, Profile, Profiles
<1> QED
  BY <1>1 DEF IInv, CatalogTypeOK, IsCatalog, Listed, Content, Safe

----------------------------------------------------------------------------
(* Their steps on the catalog                                                 *)

\* The profile of the boot is chosen as a caller would.
LEMMA BootInvariant ==
  ASSUME IInv, BootActivates PROVE IInv'
<1>1. /\ stage \in {"idle", "done"} /\ stage' = "idle" /\ Target' = Target
      /\ activeId' \in Listed
      /\ UNCHANGED <<bank, active, sequence, entries, legacy, next, answer, retired>>
  BY DEF BootActivates, Target, Listed
<1>2. activeId' \in Nat
  BY <1>1, CatalogHolds
<1>3. CatalogTypeOK' /\ InUse'
  BY <1>1, <1>2 DEF IInv, CatalogTypeOK, InUse
<1>4. Spare'
  <2>1. CASE Pending
    BY <1>1, <2>1 DEF Pending, Spare
  <2>2. CASE ~Pending
    BY <1>1, <2>2 DEF IInv, Spare
  <2> QED
    BY <2>1, <2>2
<1>5. Planned'
  BY <1>1 DEF Planned, Committing
<1>6. Ids' /\ ActiveIsListed'
  BY <1>1 DEF IInv, Ids, IdsAreNotReused, ActiveIsListed, Listed
<1> QED
  BY <1>3, <1>4, <1>5, <1>6 DEF IInv

\* A PUT without a catalog changes nothing of it but the record to import.
Outside ==
    /\ UNCHANGED <<bank, active, sequence, entries, activeId, stage, next, answer, retired>>
    /\ legacy' \subseteq Profiles

LEMMA OutsideInvariant ==
  ASSUME IInv, Outside PROVE IInv'
<1>1. UNCHANGED <<bank, active, sequence, entries, activeId, stage, next, answer, retired>>
  BY DEF Outside
<1>2. CatalogTypeOK' /\ InUse'
  BY <1>1 DEF Outside, IInv, CatalogTypeOK, InUse
<1>3. Target' = Target
  BY <1>1 DEF Target
<1>4. Spare'
  BY <1>1, <1>3 DEF IInv, Spare, Pending
<1>5. Planned' /\ Ids' /\ ActiveIsListed'
  BY <1>1 DEF IInv, Planned, Committing, Ids, IdsAreNotReused, ActiveIsListed, Listed
<1> QED
  BY <1>2, <1>4, <1>5 DEF IInv

\* Every other step of a handler is one of the catalog, or leaves it alone.
LEMMA CatalogStep ==
  ASSUME IInv, WebInv, [RuntimeNext]_vars
  PROVE  [Next]_storeVars \/ BootActivates \/ Outside
<1>1. ASSUME NEW id \in Listed, ActivateFromDevice(id) \/ ActivateFromWeb(id)
      PROVE  Activate(id) \/ UNCHANGED storeVars
  BY <1>1 DEF ActivateFromDevice, ActivateFromWeb, Serving, SameActive, Activate, storeVars
<1>2. ASSUME NEW page \in Pages, NEW call \in calls[page], NEW text \in Texts,
             StartPut(page, call, text)
      PROVE  \E id \in DOMAIN entries : Publish(id, text, entries[id].revision)
  BY <1>2 DEF StartPut, Publish
<1>3. ASSUME NEW id \in DOMAIN entries, StartRemove(id) PROVE Remove(id)
  BY <1>3 DEF StartRemove
<1>4. ASSUME NEW text \in Texts, StartCreate(text) PROVE Create(text)
  BY <1>4 DEF StartCreate
<1>5. FinishPut \/ FinishOther \/ BootFails => Return
  BY DEF FinishPut, FinishOther, BootFails
<1>6. PowerCycle => Restart
  BY DEF PowerCycle
<1>7. ASSUME NEW page \in Pages,
             \/ SendPut(page)
             \/ \E id \in Listed \cup retired : Select(page, id)
             \/ \E call \in calls[page] :
                  ServeGet(page, call) \/ Arrive(page, call) \/ CallFails(page, call)
      PROVE  UNCHANGED storeVars
  BY <1>7 DEF SendPut, Select, ServeGet, Arrive, CallFails
<1>8. ASSUME NEW page \in Pages, NEW call \in calls[page], NEW text \in Texts,
             PutOutside(page, call, text)
      PROVE  Outside
  <2> DEFINE stored == Profile(working.revision + 1, text)
  <2>1. stored \in Profiles
    BY DEF WebInv, WebTypes, Profiles, Profile
  <2>2. legacy \subseteq Profiles
    BY DEF IInv, CatalogTypeOK
  <2>3. legacy' = {stored} \/ legacy' = legacy
    BY <1>8 DEF PutOutside
  <2>4. UNCHANGED <<bank, active, sequence, entries, activeId, stage, next, answer, retired>>
    BY <1>8 DEF PutOutside
  <2> HIDE DEF stored
  <2> QED
    BY <2>1, <2>2, <2>3, <2>4 DEF Outside
<1>9. UNCHANGED vars => UNCHANGED storeVars
  BY DEF vars
<1> QED
  BY <1>1, <1>2, <1>3, <1>4, <1>5, <1>6, <1>7, <1>8, <1>9 DEF RuntimeNext, Next

LEMMA CatalogKept ==
  ASSUME IInv, WebInv, [RuntimeNext]_vars, BanksCanBeRead PROVE IInv'
BY CatalogStep, BootInvariant, OutsideInvariant, StepInvariant

\* A catalog that comes into use is the one before with one change.
LEMMA Adopts ==
  ASSUME IInv, BanksCanBeRead, CommitStep \/ Restart
  PROVE  \/ UNCHANGED <<entries, retired>>
         \/ /\ Durable!OneChange(entries, entries')
            /\ retired' = retired \cup (DOMAIN entries \ DOMAIN entries')
<1>1. CASE Erase \/ WritePayload \/ WriteHeader
  BY <1>1 DEF Erase, WritePayload, WriteHeader
<1>2. CASE Verify
  <2>1. Pending
    BY <1>2 DEF Verify, IInv, Spare
  <2> QED
    BY <1>2, <2>1 DEF Verify, Adopt, Pending
<1>3. CASE Restart
  <2>1. Load(Readable)
    BY <1>3 DEF Restart, BanksCanBeRead, Fault
  <2>2. CASE Readable # {} /\ Pending
    <3>1. Newest(Readable) = Target
      BY <2>2, NewestBank
    <3> QED
      BY <2>1, <2>2, <3>1 DEF Load, Adopt, Pending
  <2>3. CASE Readable # {} /\ ~Pending
    <3>1. Newest(Readable) = active /\ bank[active].profiles = entries
      BY <2>3, NewestBank DEF Written
    <3> QED
      BY <2>1, <2>3, <3>1 DEF Load, Adopt
  <2>4. CASE Readable = {}
    <3>1. entries = NoProfiles
      BY <2>4, EmptyFlash
    <3> QED
      BY <2>1, <2>4, <3>1 DEF Load, Adopt
  <2> QED
    BY <2>2, <2>3, <2>4
<1> QED
  BY <1>1, <1>2, <1>3 DEF CommitStep

\* What is known stays known: revisions only grow and ids are not used again.
LEMMA KnownStays ==
  ASSUME NEW before, NEW after, IsCatalog(before), IsCatalog(after),
         Durable!OneChange(before, after), NEW gone,
         NEW c \in Bodies, Known(c, before, gone)
  PROVE  Known(c, after, gone \cup (DOMAIN before \ DOMAIN after))
<1>1. CASE c.of = Safe \/ c.of \in gone \/ c.of \notin DOMAIN after
  BY <1>1 DEF Known
<1>2. CASE c.of \in DOMAIN before /\ c.of \in DOMAIN after
  <2>1. c.profile.revision \in Nat /\ before[c.of].revision \in Nat
    BY <1>2 DEF Bodies, Profiles, IsCatalog
  <2>2. after[c.of] = before[c.of] \/ after[c.of].revision = before[c.of].revision + 1
    BY <1>2 DEF Durable!OneChange, IsCatalog
  <2>3. \/ c.profile = before[c.of] \/ c.profile.revision < before[c.of].revision
        \/ c.of = Safe \/ c.of \in gone
    BY DEF Known
  <2> QED
    BY <1>2, <2>1, <2>2, <2>3 DEF Known
<1> QED
  BY <1>1, <1>2 DEF Known

\* No page learns anything new: its calls go on, or end.
LEMMA PagesStillKnow ==
  ASSUME IInv, IInv', WebInv, UNCHANGED held,
         \A page \in Pages : calls'[page] \subseteq calls[page],
         \/ UNCHANGED <<entries, retired>>
         \/ /\ Durable!OneChange(entries, entries')
            /\ retired' = retired \cup (DOMAIN entries \ DOMAIN entries')
  PROVE  PagesKnow'
<1>1. IsCatalog(entries) /\ IsCatalog(entries')
  BY DEF IInv, CatalogTypeOK
<1>2. ASSUME NEW body \in Bodies, Known(body, entries, retired)
      PROVE  Known(body, entries', retired')
  <2>1. CASE UNCHANGED <<entries, retired>>
    BY <1>2, <2>1
  <2>2. CASE /\ Durable!OneChange(entries, entries')
             /\ retired' = retired \cup (DOMAIN entries \ DOMAIN entries')
    BY <1>1, <1>2, <2>2, KnownStays
  <2> QED
    BY <2>1, <2>2
<1>3. ASSUME NEW page \in Pages
      PROVE  /\ Known(held[page], entries', retired')
             /\ \A call \in calls'[page] : Known(call.body, entries', retired')
  <2>1. held[page] \in Bodies /\ Known(held[page], entries, retired)
    BY DEF WebInv, WebTypes, PageTypes, PagesKnow
  <2>2. ASSUME NEW call \in calls'[page] PROVE Known(call.body, entries', retired')
    <3>1. call \in calls[page]
      OBVIOUS
    <3>2. call.body \in Bodies /\ Known(call.body, entries, retired)
      BY <3>1 DEF WebInv, WebTypes, PageTypes, PagesKnow, Calls
    <3> QED
      BY <1>2, <3>2
  <2> QED
    BY <1>2, <2>1, <2>2
<1> QED
  BY <1>3 DEF PagesKnow

----------------------------------------------------------------------------
(* One active profile, and no version lost                                    *)

LEMMA SimpleBodies ==
  /\ SafeProfile \in Profiles /\ NothingRead \in Bodies
  /\ \A id \in Nat, profile \in Profiles : Body(id, profile) \in Bodies
  /\ NoRequest \in [page : Pages, id : Nat, base : Bodies]
  /\ NoRequest.id = Safe
<1>1. SafeProfile \in Profiles /\ NothingRead \in Bodies
  BY CatalogAssumption DEF SafeProfile, Profile, Profiles, NothingRead, Bodies, Body, Safe
<1>2. \A id \in Nat, profile \in Profiles : Body(id, profile) \in Bodies
  BY DEF Profiles, Bodies, Body
<1> QED
  BY <1>1, <1>2, PagesAssumption DEF NoRequest, Safe

LEMMA WebInit == RuntimeInit => WebInv
<1> SUFFICES ASSUME RuntimeInit PROVE WebInv
  OBVIOUS
<1>1. WebTypes
  BY SimpleBodies DEF RuntimeInit, WebTypes, PageTypes, Safe
<1>2. PagesKnow
  BY DEF RuntimeInit, PagesKnow, Known, NothingRead, Body
<1> QED
  BY <1>1, <1>2 DEF RuntimeInit, WebInv, Runs, Asked

\* A change is written, and comes into use with the bindings as they were.
LEMMA CommitKeeps ==
  ASSUME IInv, IInv', WebInv, BanksCanBeRead, CommitStep, UNCHANGED webVars
  PROVE  WebInv'
<1>1. WebTypes' /\ PagesKnow'
  <2>1. UNCHANGED <<working, held, calls, request, selected>>
    BY DEF webVars, pageVars
  <2>2. PagesKnow'
    BY <2>1, Adopts, PagesStillKnow
  <2> QED
    BY <2>1, <2>2 DEF WebInv, WebTypes, PageTypes
<1>2. CASE Committing' /\ UNCHANGED <<entries, next, activeId>>
  <2>1. Committing
    BY DEF CommitStep, Erase, WritePayload, WriteHeader, Verify, Committing
  <2> QED
    BY <1>1, <1>2, <2>1 DEF WebInv, Runs, Asked, KeepsBindings, Content, webVars, Committing
<1>3. CASE stage' = "done" /\ answer' # "ok" /\ UNCHANGED <<entries, activeId>>
  <2>1. stage # "done"
    BY DEF CommitStep, Erase, WritePayload, WriteHeader, Verify
  <2> QED
    BY <1>1, <1>3, <2>1 DEF WebInv, Runs, Asked, Content, webVars, Committing
<1>4. CASE Verify /\ answer' = "ok"
  <2>1. stage = "verify" /\ stage' = "done" /\ UNCHANGED activeId
    BY <1>4 DEF Verify, Fails
  <2>2. entries' = next
    BY <1>4, <2>1 DEF Verify, Fails, Adopt, IInv, Spare, Pending
  <2>3. Runs'
    <3>1. /\ UNCHANGED <<working, persisted, boot, request, amiss, activeId>>
          /\ stage = "verify" /\ stage' = "done"
      BY <2>1 DEF webVars
    <3>2. CASE boot # "ready"
      BY <3>1, <3>2 DEF Runs
    <3>3. CASE boot = "ready"
      <4>1. /\ "record" \notin amiss => persisted = activeId
            /\ "bindings" \notin amiss => working = Content(activeId)
            /\ KeepsBindings(next)
        BY <3>1, <3>3 DEF WebInv, Runs, Committing
      <4>2. \/ Content(activeId)' = Content(activeId)
            \/ request # NoRequest /\ request.id = activeId
        BY <2>2, <3>1, <4>1, SimpleBodies DEF KeepsBindings, Content
      <4> QED
        BY <1>4, <3>1, <4>1, <4>2 DEF Runs, Committing
    <3> QED
      BY <3>2, <3>3
  <2>4. Asked'
    BY <2>1, <2>2 DEF WebInv, Asked, webVars, Committing
  <2> QED
    BY <1>1, <2>3, <2>4 DEF WebInv
<1>5. \/ Committing' /\ UNCHANGED <<entries, next, activeId>>
      \/ stage' = "done" /\ answer' # "ok" /\ UNCHANGED <<entries, activeId>>
      \/ Verify /\ answer' = "ok"
  BY DEF CommitStep, Erase, WritePayload, WriteHeader, Verify, Fails, Committing
<1> QED
  BY <1>1, <1>2, <1>3, <1>4, <1>5 DEF WebInv

LEMMA ActivationKeeps ==
  ASSUME IInv, IInv', WebInv, NEW id \in Listed,
         ActivateFromDevice(id) \/ ActivateFromWeb(id)
  PROVE  WebInv'
<1>1. /\ Serving /\ SameActive /\ UNCHANGED <<boot, selected, held, calls, request>>
      /\ UNCHANGED <<entries, retired, stage, answer, next>>
  BY DEF ActivateFromDevice, ActivateFromWeb, pageVars, SameActive
<1>2. \/ working' = Content(id) /\ persisted' = id /\ activeId' = id /\ amiss' = {}
      \/ UNCHANGED <<working, persisted, activeId, amiss>>
      \/ (working' = Content(id) \/ working' = working) /\ amiss' = {"bindings", "record"}
      \/ amiss' = amiss \cup {"record"} /\ UNCHANGED <<working, activeId>>
  BY DEF ActivateFromDevice, ActivateFromWeb
<1>3. Content(id)' = Content(id) /\ Content(id) \in Profiles
  BY <1>1, CatalogHolds DEF Content
<1>4. working' \in Profiles
  BY <1>2, <1>3 DEF WebInv, WebTypes
<1>5. PagesKnow' /\ WebTypes'
  BY <1>1, <1>4, PagesStillKnow DEF WebInv, WebTypes, PageTypes
<1>6. request = NoRequest
  BY <1>1 DEF WebInv, Asked, Serving
<1>7. Runs'
  <2>1. boot = "ready" /\ stage = "idle" /\ ~Committing'
    BY <1>1 DEF Serving, Committing
  <2>2. /\ "record" \notin amiss => persisted = activeId
        /\ "bindings" \notin amiss => working = Content(activeId)
    BY <2>1 DEF WebInv, Runs
  <2>3. /\ "record" \notin amiss' => persisted' = activeId'
        /\ "bindings" \notin amiss' => working' = Content(activeId)'
    BY <1>1, <1>2, <1>3, <2>2 DEF Content
  <2> QED
    BY <2>1, <2>3 DEF Runs
<1> QED
  BY <1>1, <1>5, <1>6, <1>7 DEF WebInv, Asked

\* A page chooses and asks, and hears what is in use.
LEMMA PageKeeps ==
  ASSUME IInv, WebInv, NEW page \in Pages,
         UNCHANGED <<storeVars, working, persisted, boot, request, amiss>>,
         selected' \in [Pages -> Nat],
         held' \in [Pages -> Bodies], calls' \in [Pages -> SUBSET Calls],
         Known(held'[page], entries, retired),
         \A call \in calls'[page] : Known(call.body, entries, retired),
         \A p \in Pages \ {page} : held'[p] = held[p] /\ calls'[p] = calls[p]
  PROVE  WebInv'
<1>1. UNCHANGED <<entries, next, activeId, stage, answer, retired>>
  BY DEF storeVars
<1>2. WebTypes'
  BY DEF WebInv, WebTypes, PageTypes
<1>3. Runs' /\ Asked'
  BY <1>1 DEF WebInv, Runs, Asked, KeepsBindings, Content, Committing
<1>4. PagesKnow'
  BY <1>1 DEF WebInv, PagesKnow
<1> QED
  BY <1>2, <1>3, <1>4 DEF WebInv

\* The answer to a GET is what is stored under the id, if it says so.
LEMMA GetAnswers ==
  ASSUME IInv, WebInv, NEW page \in Pages, NEW call \in calls[page], ServeGet(page, call)
  PROVE  \E body \in Bodies :
            Known(body, entries, retired) /\ calls' = Answered(page, call, body)
<1>1. call \in Calls /\ working \in Profiles /\ Safe \in Nat
  BY DEF WebInv, WebTypes, PageTypes, Safe
<1>2. CASE boot = "unavailable" /\ calls' = Answered(page, call, Body(Safe, working))
  BY <1>1, <1>2, SimpleBodies DEF Known, Body
<1>3. CASE Serving /\ call.id \in Listed /\ call.id # activeId
           /\ calls' = Answered(page, call, Body(call.id, Content(call.id)))
  <2>1. Known(Body(call.id, Content(call.id)), entries, retired)
    BY <1>3 DEF Known, Body, Listed, Content
  <2> QED
    BY <1>1, <1>3, <2>1, CatalogHolds, SimpleBodies
<1>4. CASE /\ Serving /\ call.id \in Listed /\ call.id = activeId
           /\ calls' = Answered(page, call,
                Body(IF "bindings" \in amiss THEN Safe ELSE call.id, working))
  <2>1. CASE "bindings" \in amiss
    BY <1>1, <1>4, <2>1, SimpleBodies DEF Known, Body
  <2>2. CASE "bindings" \notin amiss
    <3>1. working = Content(call.id)
      BY <1>4, <2>2 DEF WebInv, Runs, Serving
    <3>2. Known(Body(call.id, working), entries, retired)
      BY <1>4, <3>1 DEF Known, Body, Listed, Content
    <3> QED
      BY <1>1, <1>4, <2>2, <3>2, SimpleBodies DEF Calls
  <2> QED
    BY <2>1, <2>2
<1> QED
  BY <1>2, <1>3, <1>4 DEF ServeGet

LEMMA PagesKeep ==
  ASSUME IInv, WebInv, NEW page \in Pages,
         \/ SendPut(page)
         \/ \E id \in Listed \cup retired : Select(page, id)
         \/ \E call \in calls[page] :
              ServeGet(page, call) \/ Arrive(page, call) \/ CallFails(page, call)
  PROVE  WebInv'
<1>1. /\ calls[page] \in SUBSET Calls /\ selected[page] \in Nat /\ held[page] \in Bodies
      /\ PageTypes
      /\ Known(held[page], entries, retired)
      /\ \A call \in calls[page] : Known(call.body, entries, retired)
  BY DEF WebInv, WebTypes, PageTypes, PagesKnow
<1>2. ASSUME NEW call \in Calls, Known(call.body, entries, retired), Send(page, call)
      PROVE  /\ calls' \in [Pages -> SUBSET Calls]
             /\ \A other \in calls'[page] : Known(other.body, entries, retired)
             /\ \A p \in Pages \ {page} : calls'[p] = calls[p]
  BY <1>1, <1>2 DEF Send, PageTypes
<1>3. CASE SendPut(page)
  <2>1. Call("put", selected[page], held[page]) \in Calls
    BY <1>1 DEF Call, Calls
  <2>2. Known(Call("put", selected[page], held[page]).body, entries, retired)
    BY <1>1 DEF Call
  <2>3. /\ Send(page, Call("put", selected[page], held[page]))
        /\ UNCHANGED <<storeVars, working, persisted, boot, selected, held, request, amiss>>
    BY <1>3 DEF SendPut
  <2> QED
    BY <1>1, <1>2, <2>1, <2>2, <2>3, PageKeeps DEF PageTypes
<1>4. ASSUME NEW id \in Listed \cup retired, Select(page, id) PROVE WebInv'
  <2>1. id \in Nat
    BY CatalogHolds DEF IInv, CatalogTypeOK
  <2>2. Call("get", id, NothingRead) \in Calls
    BY <2>1, SimpleBodies DEF Call, Calls
  <2>3. Known(Call("get", id, NothingRead).body, entries, retired)
    BY DEF Call, Known, NothingRead, Body
  <2>4. /\ Send(page, Call("get", id, NothingRead))
        /\ selected' = [selected EXCEPT ![page] = id]
        /\ UNCHANGED <<storeVars, working, persisted, boot, held, request, amiss>>
    BY <1>4 DEF Select
  <2>5. selected' \in [Pages -> Nat]
    BY <1>1, <2>1, <2>4 DEF PageTypes
  <2> QED
    BY <1>1, <1>2, <2>2, <2>3, <2>4, <2>5, PageKeeps DEF PageTypes
<1>5. ASSUME NEW call \in calls[page], ServeGet(page, call) PROVE WebInv'
  <2>1. PICK body \in Bodies :
          Known(body, entries, retired) /\ calls' = Answered(page, call, body)
    BY <1>5, GetAnswers
  <2>2. Call("answer", call.id, body) \in Calls
    BY <1>1 DEF Call, Calls
  <2>3. Known(Call("answer", call.id, body).body, entries, retired)
    BY <2>1 DEF Call
  <2>4. calls' = [calls EXCEPT ![page] =
                    (calls[page] \ {call}) \cup {Call("answer", call.id, body)}]
    BY <2>1 DEF Answered
  <2>5. /\ calls' \in [Pages -> SUBSET Calls]
        /\ \A other \in calls'[page] : Known(other.body, entries, retired)
        /\ \A p \in Pages \ {page} : calls'[p] = calls[p]
    BY <1>1, <2>2, <2>3, <2>4 DEF PageTypes
  <2>6. UNCHANGED <<storeVars, working, persisted, boot, selected, held, request, amiss>>
    BY <1>5 DEF ServeGet
  <2> QED
    BY <1>1, <2>5, <2>6, PageKeeps DEF PageTypes
<1>6. ASSUME NEW call \in calls[page], Arrive(page, call) \/ CallFails(page, call)
      PROVE  WebInv'
  <2>1. call.body \in Bodies /\ Known(call.body, entries, retired)
    BY <1>1 DEF Calls
  <2>2. /\ calls' = [calls EXCEPT ![page] = calls[page] \ {call}]
        /\ held' = held \/ held' = [held EXCEPT ![page] = call.body]
        /\ UNCHANGED <<storeVars, working, persisted, boot, selected, request, amiss>>
    BY <1>6 DEF Arrive, CallFails
  <2>3. /\ calls' \in [Pages -> SUBSET Calls]
        /\ \A other \in calls'[page] : Known(other.body, entries, retired)
        /\ \A p \in Pages \ {page} : calls'[p] = calls[p]
    BY <1>1, <2>2 DEF PageTypes
  <2>4. /\ held' \in [Pages -> Bodies] /\ Known(held'[page], entries, retired)
        /\ \A p \in Pages \ {page} : held'[p] = held[p]
    BY <1>1, <2>1, <2>2 DEF PageTypes
  <2> QED
    BY <1>1, <2>2, <2>3, <2>4, PageKeeps DEF PageTypes
<1> QED
  BY <1>3, <1>4, <1>5, <1>6

\* A publish starts over the very version its page holds, if it was read under that id.
LEMMA PutKeeps ==
  ASSUME IInv, IInv', WebInv, NEW page \in Pages, NEW call \in calls[page], NEW text \in Texts,
         StartPut(page, call, text)
  PROVE  WebInv'
<1> DEFINE id == call.id
           base == call.body
<1>1. /\ call \in Calls /\ id \in Nat /\ base \in Bodies
      /\ Known(base, entries, retired)
  BY DEF WebInv, WebTypes, PageTypes, PagesKnow, Calls
<1>2. /\ Serving /\ id \in DOMAIN entries /\ entries[id].revision = base.profile.revision
      /\ StartCommit(With(entries, id, Profile(base.profile.revision + 1, text)))
      /\ request' = [page |-> page, id |-> id, base |-> base]
      /\ calls' = [calls EXCEPT ![page] = calls[page] \ {call}]
      /\ UNCHANGED <<working, persisted, boot, selected, held, amiss>>
  BY DEF StartPut, Publish
<1>3. base.of = id => entries[id] = base.profile
  <2>1. id # Safe /\ id \notin retired
    BY <1>2, CatalogHolds DEF IInv, Ids, IdsAreNotReused
  <2>2. base.profile.revision \in Nat
    BY <1>1 DEF Bodies
  <2> QED
    BY <1>1, <1>2, <2>1, <2>2 DEF Known
<1>4. /\ stage' = "erase" /\ next' = With(entries, id, Profile(base.profile.revision + 1, text))
      /\ UNCHANGED <<entries, retired, activeId>>
  BY <1>2 DEF StartCommit
<1> HIDE DEF id, base
<1>5. /\ calls' \in [Pages -> SUBSET Calls]
      /\ \A p \in Pages : calls'[p] \subseteq calls[p]
  BY <1>2 DEF WebInv, WebTypes, PageTypes
<1>6. WebTypes' /\ PagesKnow'
  <2>1. PagesKnow'
    BY <1>2, <1>4, <1>5, PagesStillKnow
  <2> QED
    BY <1>1, <1>2, <1>5, <2>1 DEF WebInv, WebTypes, PageTypes
<1>7. Asked'
  BY <1>2, <1>3, <1>4 DEF Asked, Serving, With
<1>8. activeId = Safe \/ activeId \in DOMAIN entries
  BY DEF IInv, ActiveIsListed, Listed
<1>9. KeepsBindings(next)'
  BY <1>2, <1>4, <1>8 DEF KeepsBindings, With
<1>10. Runs'
  <2>1. /\ "record" \notin amiss => persisted = activeId
        /\ "bindings" \notin amiss => working = Content(activeId)
    BY <1>2 DEF WebInv, Runs, Serving
  <2> QED
    BY <1>2, <1>4, <1>9, <2>1 DEF Runs, Content
<1> QED
  BY <1>6, <1>7, <1>10 DEF WebInv

\* A new profile, or one that is removed, is not the active one.
LEMMA OtherStartKeeps ==
  ASSUME IInv, WebInv, NEW wanted, Serving, StartCommit(wanted), UNCHANGED webVars,
         activeId = Safe \/ (activeId \in DOMAIN wanted /\ wanted[activeId] = entries[activeId])
  PROVE  WebInv'
<1>1. /\ next' = wanted /\ stage' = "erase" /\ UNCHANGED <<entries, retired, activeId>>
      /\ UNCHANGED <<working, persisted, boot, selected, held, calls, request, amiss>>
  BY DEF StartCommit, webVars, pageVars
<1>2. request = NoRequest
  BY DEF WebInv, Asked, Serving
<1>3. KeepsBindings(next)'
  BY <1>1 DEF KeepsBindings
<1> QED
  BY <1>1, <1>2, <1>3
     DEF WebInv, WebTypes, PageTypes, Runs, Asked, PagesKnow, Serving, Content

LEMMA StartsKeep ==
  ASSUME IInv, WebInv,
         \/ \E text \in Texts : StartCreate(text)
         \/ \E id \in DOMAIN entries : StartRemove(id)
  PROVE  WebInv'
<1>1. activeId = Safe \/ activeId \in DOMAIN entries
  BY DEF IInv, ActiveIsListed, Listed
<1>2. ASSUME NEW text \in Texts, StartCreate(text) PROVE WebInv'
  <2> DEFINE wanted == With(entries, NewId, Profile(1, text))
  <2>1. Serving /\ StartCommit(wanted) /\ UNCHANGED webVars
    BY <1>2 DEF StartCreate, Create
  <2>2. activeId = Safe \/ (activeId \in DOMAIN wanted /\ wanted[activeId] = entries[activeId])
    BY <1>1, NewIdIsNext DEF With
  <2> HIDE DEF wanted
  <2> QED
    BY <2>1, <2>2, OtherStartKeeps
<1>3. ASSUME NEW id \in DOMAIN entries, StartRemove(id) PROVE WebInv'
  <2> DEFINE wanted == Without(entries, id)
  <2>1. Serving /\ StartCommit(wanted) /\ UNCHANGED webVars /\ id # activeId
    BY <1>3 DEF StartRemove, Remove
  <2>2. activeId = Safe \/ (activeId \in DOMAIN wanted /\ wanted[activeId] = entries[activeId])
    BY <1>1, <2>1 DEF Without
  <2> HIDE DEF wanted
  <2> QED
    BY <2>1, <2>2, OtherStartKeeps
<1> QED
  BY <1>2, <1>3

LEMMA PutOutsideKeeps ==
  ASSUME IInv, WebInv, NEW page \in Pages, NEW call \in calls[page], NEW text \in Texts,
         PutOutside(page, call, text)
  PROVE  WebInv'
<1> DEFINE stored == Profile(working.revision + 1, text)
           answered == Call("answer", call.id, Body(Safe, stored))
<1>1. call \in Calls /\ stored \in Profiles
  BY DEF WebInv, WebTypes, PageTypes, Profiles, Profile
<1>2. answered \in Calls /\ Known(answered.body, entries, retired)
  BY <1>1, SimpleBodies DEF Call, Calls, Known, Body, Safe
<1>3. /\ boot = "unavailable"
      /\ working' = stored \/ working' = working
      /\ UNCHANGED <<entries, activeId, retired, stage, next, answer>>
      /\ UNCHANGED <<persisted, boot, selected, held, request, amiss>>
      /\ \/ calls' = [calls EXCEPT ![page] = (calls[page] \ {call}) \cup {answered}]
         \/ calls' = [calls EXCEPT ![page] = calls[page] \ {call}]
  BY DEF PutOutside, Answered
<1> HIDE DEF stored, answered
<1>4. /\ calls' \in [Pages -> SUBSET Calls]
      /\ \A other \in calls'[page] : other = answered \/ other \in calls[page]
      /\ \A p \in Pages \ {page} : calls'[p] = calls[p]
  BY <1>2, <1>3 DEF WebInv, WebTypes, PageTypes
<1>5. WebTypes' /\ PagesKnow'
  BY <1>1, <1>2, <1>3, <1>4 DEF WebInv, WebTypes, PageTypes, PagesKnow
<1> QED
  BY <1>3, <1>5 DEF WebInv, Runs, Asked

\* The answer of a PUT: the bindings are read again if they are the active ones.
LEMMA FinishPutKeeps ==
  ASSUME IInv, WebInv, FinishPut
  PROVE  WebInv'
<1> DEFINE id == request.id
           stored == Call("answer", id, Body(id, entries[id]))
<1>1. /\ stage = "done" /\ boot = "ready" /\ request # NoRequest
      /\ stage' = "idle" /\ request' = NoRequest
      /\ UNCHANGED <<entries, activeId, retired, persisted, boot, selected, held>>
  BY DEF FinishPut, Return
<1>2. /\ request.page \in Pages /\ id \in Nat
      /\ id \in DOMAIN entries /\ entries[id] \in Profiles /\ id # Safe
  BY <1>1, CatalogHolds DEF WebInv, Asked, WebTypes
<1>3. stored \in Calls /\ Known(stored.body, entries, retired)
  BY <1>2, SimpleBodies DEF Call, Calls, Known, Body
<1>4. \/ /\ answer = "ok"
         /\ calls' = [calls EXCEPT ![request.page] = calls[request.page] \cup {stored}]
         /\ working' = (IF id = activeId THEN entries[id] ELSE working)
         /\ amiss' = IF id = activeId THEN amiss \ {"bindings"} ELSE amiss
      \/ /\ amiss' = IF answer = "ok" /\ id = activeId THEN amiss \cup {"bindings"} ELSE amiss
         /\ UNCHANGED <<working, calls>>
  BY DEF FinishPut
<1> HIDE DEF stored
<1>5. /\ calls' \in [Pages -> SUBSET Calls]
      /\ \A page \in Pages : \A call \in calls'[page] : call = stored \/ call \in calls[page]
  BY <1>2, <1>3, <1>4 DEF WebInv, WebTypes, PageTypes
<1>6. working' \in Profiles
  BY <1>2, <1>4 DEF WebInv, WebTypes
<1>7. WebTypes' /\ PagesKnow'
  BY <1>1, <1>3, <1>5, <1>6, SimpleBodies DEF WebInv, WebTypes, PageTypes, PagesKnow
<1>8. Runs'
  <2>1. "record" \notin amiss => persisted = activeId
    BY <1>1 DEF WebInv, Runs
  <2>2. "record" \in amiss' <=> "record" \in amiss
    BY <1>4
  <2>3. CASE id = activeId
    BY <1>1, <1>2, <1>4, <2>1, <2>2, <2>3 DEF WebInv, Runs, Content, Committing
  <2>4. CASE id # activeId
    BY <1>1, <1>4, <2>1, <2>2, <2>4 DEF WebInv, Runs, Content, Committing
  <2> QED
    BY <2>3, <2>4
<1> QED
  BY <1>1, <1>7, <1>8 DEF WebInv, Asked

LEMMA BootKeeps ==
  ASSUME IInv, IInv', WebInv, BanksCanBeRead,
         FinishOther \/ PowerCycle \/ BootActivates \/ BootFails
  PROVE  WebInv'
<1>1. CASE FinishOther
  <2>1. /\ request = NoRequest /\ stage' = "idle" /\ UNCHANGED <<entries, activeId, retired>>
        /\ UNCHANGED <<working, persisted, boot, selected, held, calls, request, amiss>>
    BY <1>1 DEF FinishOther, Return, webVars, pageVars
  <2> QED
    BY <2>1 DEF WebInv, WebTypes, PageTypes, Runs, Asked, PagesKnow, Committing, Content
<1>2. CASE PowerCycle
  <2>1. /\ working' = SafeProfile /\ boot' = "loading" /\ request' = NoRequest
        /\ UNCHANGED <<selected, held>> /\ Restart
        /\ calls' = [page \in Pages |-> {call \in calls[page] : call.kind = "answer"}]
    BY <1>2 DEF PowerCycle
  <2>2. /\ calls' \in [Pages -> SUBSET Calls]
        /\ \A page \in Pages : calls'[page] \subseteq calls[page]
    BY <2>1 DEF WebInv, WebTypes, PageTypes
  <2>3. PagesKnow'
    BY <2>1, <2>2, Adopts, PagesStillKnow
  <2>4. WebTypes'
    BY <2>1, <2>2, SimpleBodies DEF WebInv, WebTypes, PageTypes
  <2> QED
    BY <2>1, <2>3, <2>4 DEF WebInv, Runs, Asked
<1>3. CASE BootActivates
  <2>1. /\ boot = "loading" /\ stage' = "idle" /\ boot' = "ready"
        /\ UNCHANGED <<entries, retired, selected, held, calls, request>>
    BY <1>3 DEF BootActivates, pageVars
  <2>2. request = NoRequest
    BY <2>1 DEF WebInv, Asked
  <2>3. \/ \E id \in Listed : working' = Content(id) /\ persisted' = id /\ activeId' = id
        \/ /\ working' = SafeProfile /\ activeId' = Safe
           /\ persisted' = Safe \/ amiss' = {"record"}
    BY <1>3 DEF BootActivates
  <2>4. /\ working' \in Profiles /\ working' = Content(activeId)'
        /\ "record" \notin amiss' => persisted' = activeId'
    BY <2>1, <2>3, CatalogHolds, SimpleBodies DEF Content
  <2> QED
    BY <2>1, <2>2, <2>4 DEF WebInv, WebTypes, PageTypes, Runs, Asked, PagesKnow, Committing
<1>4. CASE BootFails
  <2>1. /\ boot = "loading" /\ boot' = "unavailable" /\ working' \in legacy
        /\ UNCHANGED <<entries, retired, persisted, selected, held, calls, request>>
    BY <1>4 DEF BootFails, Return, pageVars
  <2>2. working' \in Profiles
    BY <2>1 DEF IInv, CatalogTypeOK
  <2>3. request = NoRequest
    BY <2>1 DEF WebInv, Asked
  <2> QED
    BY <2>1, <2>2, <2>3 DEF WebInv, WebTypes, PageTypes, Runs, Asked, PagesKnow
<1> QED
  BY <1>1, <1>2, <1>3, <1>4

LEMMA WebKept ==
  ASSUME IInv, IInv', WebInv, [RuntimeNext]_vars, BanksCanBeRead
  PROVE  WebInv'
<1>1. CASE CommitStep /\ UNCHANGED webVars
  BY <1>1, CommitKeeps
<1>2. CASE FinishPut
  BY <1>2, FinishPutKeeps
<1>3. CASE FinishOther \/ PowerCycle \/ BootActivates \/ BootFails
  BY <1>3, BootKeeps
<1>4. CASE \E id \in Listed : ActivateFromDevice(id) \/ ActivateFromWeb(id)
  BY <1>4, ActivationKeeps
<1>5. CASE \E page \in Pages :
             \/ SendPut(page)
             \/ \E id \in Listed \cup retired : Select(page, id)
             \/ \E call \in calls[page] :
                  ServeGet(page, call) \/ Arrive(page, call) \/ CallFails(page, call)
  BY <1>5, PagesKeep
<1>6. CASE \E page \in Pages : \E call \in calls[page] : \E text \in Texts :
             StartPut(page, call, text) \/ PutOutside(page, call, text)
  BY <1>6, PutKeeps, PutOutsideKeeps
<1>7. CASE \/ \E text \in Texts : StartCreate(text)
           \/ \E id \in DOMAIN entries : StartRemove(id)
  BY <1>7, StartsKeep
<1>8. CASE UNCHANGED vars
  <2>1. /\ UNCHANGED <<entries, next, activeId, stage, answer, retired>>
        /\ UNCHANGED <<working, persisted, boot, selected, held, calls, request, amiss>>
    BY <1>8 DEF vars, storeVars, webVars, pageVars
  <2> QED
    BY <2>1
       DEF WebInv, WebTypes, PageTypes, Runs, Asked, PagesKnow, KeepsBindings, Committing, Content
<1> QED
  BY <1>1, <1>2, <1>3, <1>4, <1>5, <1>6, <1>7, <1>8 DEF RuntimeNext

----------------------------------------------------------------------------
(* The theorems about the handlers                                            *)

LEMMA RuntimeInvariant ==
  ASSUME BanksCanBeRead PROVE RuntimeSpec => [](IInv /\ WebInv)
<1>1. RuntimeInit => IInv /\ WebInv
  BY InitInvariant, WebInit DEF RuntimeInit
<1>2. IInv /\ WebInv /\ [RuntimeNext]_vars => IInv' /\ WebInv'
  BY CatalogKept, WebKept
<1> QED
  BY <1>1, <1>2, PTL DEF RuntimeSpec

\* The keyboard runs the bindings of the profile that pages and menus show as active, and a
\* restart finds the same one in NVS: g_profile, active_id_ and the key in NVS agree whenever
\* no handler is at work (product_web.cpp:260-270 and :392-400). An activation may fail at
\* each of its steps; what it leaves behind lasts at most to the next one that succeeds.
THEOREM OneActiveProfile ==
  ASSUME BanksCanBeRead PROVE RuntimeSpec => []ActiveIsOne
<1>1. WebInv => ActiveIsOne
  BY DEF WebInv, Runs, ActiveIsOne, KeyboardRunsActive, ActiveIsRemembered, Serving
<1> QED
  BY <1>1, RuntimeInvariant, PTL

\* A PUT replaces the version its page has read under that id, also when the answer came
\* late, activations failed halfway, or the profile was published, removed or activated by
\* another page, or the device restarted, in between (put_profile_handler,
\* product_web.cpp:549-602; app.js:41-68).
THEOREM NoVersionIsLost ==
  ASSUME BanksCanBeRead PROVE RuntimeSpec => []PutReplacesWhatWasRead
<1>1. WebInv => PutReplacesWhatWasRead
  BY DEF WebInv, Asked, PutReplacesWhatWasRead, Replacing, Committing
<1> QED
  BY <1>1, RuntimeInvariant, PTL

\* Under the handlers too an acknowledged change is stored, an id is not used again, and the
\* active id names a profile (commit, create and remove).
THEOREM CatalogIsSafeInUse ==
  ASSUME BanksCanBeRead PROVE RuntimeSpec => []CatalogIsSafe
<1>1. IInv => CatalogIsSafe
  <2>1. IInv /\ answer = "ok" => Stored = entries
    BY StoredIs DEF Pending
  <2> QED
    BY <2>1 DEF IInv, Ids, CatalogIsSafe, AcknowledgedIsStored
<1> QED
  BY <1>1, RuntimeInvariant, PTL

\* Banks, handlers and restarts together implement one catalog that survives power cuts.
THEOREM RuntimeImplements ==
  ASSUME BanksCanBeRead PROVE RuntimeSpec => ImplementsDurable
<1>1. RuntimeInit => Durable!Init
  BY DurableInit DEF RuntimeInit
<1>2. IInv /\ WebInv /\ IInv' /\ [RuntimeNext]_vars => [Durable!Next]_<<entries, Stored>>
  <2> SUFFICES ASSUME IInv, WebInv, IInv', [RuntimeNext]_vars
               PROVE  [Durable!Next]_<<entries, Stored>>
    OBVIOUS
  <2>1. CASE [Next]_storeVars
    BY <2>1, DurableStep
  <2>2. CASE BootActivates
    BY <2>2, QuietStep DEF BootActivates
  <2>3. CASE Outside
    BY <2>3, QuietStep DEF Outside
  <2> QED
    BY <2>1, <2>2, <2>3, CatalogStep
<1> QED
  BY <1>1, <1>2, RuntimeInvariant, PTL DEF RuntimeSpec, ImplementsDurable, Durable!Spec
=============================================================================
