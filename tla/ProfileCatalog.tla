--------------------------- MODULE ProfileCatalog ---------------------------
(* The profile catalog: firmware/main/product/profile_catalog.cpp. Two banks  *)
(* of flash hold a catalog each, with a sequence number and a CRC; a change   *)
(* is written to the bank that is not in use, read back, and only then        *)
(* replaces the catalog in RAM. Flash commands can fail at every step, and    *)
(* the device can restart between any two of them. Callers hold one mutex     *)
(* from the start of a change to its answer. A request that is refused        *)
(* changes nothing and is a guard here.                                       *)
EXTENDS Naturals, FiniteSets

CONSTANTS
    Texts,          \* what a profile maps its keys to, its name included
    BlankText,      \* the bindings of a new profile and of SAFE
    MaxProfiles,    \* kProfileCatalogMaximumCustomProfiles
    MaxSequence,    \* bound: changes written before flash or 32 bits wear out
    Legacy,         \* what an older firmware left in NVS: one profile, or none
    Faults          \* what fails, see Fault

Profile(revision, text) == [revision |-> revision, text |-> text]
Profiles == [revision : Nat \ {0}, text : Texts]

ASSUME CatalogAssumption ==
    /\ BlankText \in Texts
    /\ MaxProfiles \in Nat \ {0} /\ MaxSequence \in Nat
    /\ Legacy \subseteq Profiles /\ \A p, q \in Legacy : p = q
    /\ Faults \subseteq {"flash", "check", "boot_read", "read", "nvs", "memory"}

VARIABLES
    bank,        \* the two banks of flash
    active,      \* active_bank_offset_
    sequence,    \* sequence_
    entries,     \* entries_, a profile for each id
    activeId,    \* active_id_
    legacy,      \* the profile record of the older firmware in NVS, if it left one
    stage,       \* the next step of the change under way, "done", or "idle"
    next,        \* the catalog the change writes
    answer,      \* its result
    retired      \* history: ids that named a profile and no longer do

storeVars ==
    <<bank, active, sequence, entries, activeId, legacy, stage, next, answer, retired>>

Banks == {"A", "B"}
Safe == 0                         \* the reserved id SAFE, never stored
NoProfiles == [id \in {} |-> Profile(1, BlankText)]
IsCatalog(c) ==
    /\ c \in [DOMAIN c -> Profiles] /\ DOMAIN c \subseteq Nat \ {Safe}
    /\ IsFiniteSet(DOMAIN c) /\ Cardinality(DOMAIN c) <= MaxProfiles

\* An erased bank, a torn header and a payload that fails its CRC all read as no catalog.
Blank == [valid |-> FALSE, sequence |-> 0, profiles |-> NoProfiles]
Written(number, profiles) == [valid |-> TRUE, sequence |-> number, profiles |-> profiles]

\* flash: an erase or a write fails, or reports failure after it worked. check: reading back
\* what was written fails. boot_read: a bank cannot be read or parsed at boot. read (of one
\* profile), nvs and memory are faults of the callers, see ActiveProfile.
Fault(f) == f \in Faults

With(catalog, id, profile) ==
    [i \in DOMAIN catalog \cup {id} |-> IF i = id THEN profile ELSE catalog[i]]
Without(catalog, id) == [i \in DOMAIN catalog \ {id} |-> catalog[i]]

----------------------------------------------------------------------------
(* commit                                                                     *)

\* A mistake the properties catch.
Target_InUse == active

Target == IF active = "A" THEN "B" ELSE "A"

NextSequence == sequence + 1

Adopt(catalog) ==
    /\ entries' = catalog
    /\ retired' = retired \cup (DOMAIN entries \ DOMAIN catalog)

Fails == stage' = "done" /\ answer' = "storage_error"

StartCommit(wanted) ==
    /\ stage = "idle" /\ sequence < MaxSequence
    /\ stage' = "erase" /\ next' = wanted /\ answer' = "none"
    /\ UNCHANGED <<bank, active, sequence, entries, activeId, legacy, retired>>

\* Sector by sector, the one with the header first.
Erase ==
    /\ stage = "erase"
    /\ \/ /\ bank' = [bank EXCEPT ![Target] = Blank]
          /\ stage' = "payload" /\ UNCHANGED answer
       \/ /\ Fault("flash") /\ Fails
          /\ \/ UNCHANGED bank
             \/ bank' = [bank EXCEPT ![Target] = Blank]
    /\ UNCHANGED <<active, sequence, entries, activeId, legacy, next, retired>>

\* The new profile from RAM, the others copied from the bank in use.
WritePayload ==
    /\ stage = "payload"
    /\ \/ stage' = "header" /\ UNCHANGED answer
       \/ (Fault("flash") \/ Fault("check")) /\ Fails
    /\ UNCHANGED <<bank, active, sequence, entries, activeId, legacy, next, retired>>

WriteHeader ==
    /\ stage = "header"
    /\ \/ /\ bank' = [bank EXCEPT ![Target] = Written(NextSequence, next)]
          /\ stage' = "verify" /\ UNCHANGED answer
       \/ /\ Fault("flash") /\ Fails
          /\ \/ UNCHANGED bank
             \/ bank' = [bank EXCEPT ![Target] = Written(NextSequence, next)]
    /\ UNCHANGED <<active, sequence, entries, activeId, legacy, next, retired>>

\* inspect_bank on the bank just written; only a catalog that reads back is used.
Verify ==
    /\ stage = "verify"
    /\ \/ /\ bank[Target].valid /\ bank[Target].sequence = NextSequence
          /\ active' = Target /\ sequence' = bank[Target].sequence
          /\ Adopt(bank[Target].profiles)
          /\ stage' = "done" /\ answer' = "ok"
       \/ Fault("check") /\ Fails /\ UNCHANGED <<active, sequence, entries, retired>>
    /\ UNCHANGED <<bank, activeId, legacy, next>>

Return ==
    /\ stage = "done"
    /\ stage' = "idle"
    /\ UNCHANGED <<bank, active, sequence, entries, activeId, legacy, next, answer, retired>>

CommitStep == Erase \/ WritePayload \/ WriteHeader \/ Verify

----------------------------------------------------------------------------
(* The requests                                                               *)

\* A mistake the properties catch.
NewId_Counted == Cardinality(DOMAIN entries) + 1

\* The first free one above the sequence number.
NewId == CHOOSE id \in sequence + 1 .. sequence + 1 + MaxProfiles :
            /\ id \notin DOMAIN entries
            /\ \A other \in sequence + 1 .. id - 1 : other \in DOMAIN entries

\* create: a blank profile, or a copy of a stored one or of SAFE.
Create(text) ==
    /\ Cardinality(DOMAIN entries) < MaxProfiles
    /\ text \in {BlankText} \cup {entries[id].text : id \in DOMAIN entries}
    /\ StartCommit(With(entries, NewId, Profile(1, text)))

\* A mistake the properties catch.
Publish_AnyRevision(id, text, expected) ==
    /\ id \in DOMAIN entries
    /\ StartCommit(With(entries, id, Profile(expected + 1, text)))

\* publish: only over the version it expects.
Publish(id, text, expected) ==
    /\ id \in DOMAIN entries
    /\ entries[id].revision = expected
    /\ StartCommit(With(entries, id, Profile(expected + 1, text)))

Remove(id) ==
    /\ id \in DOMAIN entries /\ id # activeId
    /\ StartCommit(Without(entries, id))

Listed == {Safe} \cup DOMAIN entries

Activate(id) ==
    /\ stage = "idle" /\ id \in Listed
    /\ activeId' = id
    /\ UNCHANGED <<bank, active, sequence, entries, legacy, stage, next, answer, retired>>

----------------------------------------------------------------------------
(* load                                                                       *)

Readable == {b \in Banks : bank[b].valid}

Newest(seen) ==
    IF "A" \in seen /\ ("B" \notin seen \/ bank["A"].sequence >= bank["B"].sequence)
    THEN "A" ELSE "B"

Load(seen) ==
    /\ IF seen # {}
       THEN /\ active' = Newest(seen)
            /\ sequence' = bank[Newest(seen)].sequence
            /\ Adopt(bank[Newest(seen)].profiles)
            /\ stage' = "idle" /\ next' = NoProfiles
       ELSE /\ active' = "B" /\ sequence' = 0
            /\ Adopt(NoProfiles)
            /\ \/ legacy = {} /\ stage' = "idle" /\ next' = NoProfiles
               \/ \E p \in legacy : stage' = "erase" /\ next' = With(NoProfiles, 1, p)
    /\ activeId' = Safe /\ answer' = "none"
    /\ UNCHANGED <<bank, legacy>>

Restart ==
    \E seen \in SUBSET Readable : (seen = Readable \/ Fault("boot_read")) /\ Load(seen)

\* A device that boots with this firmware for the first time.
Init ==
    /\ bank = [b \in Banks |-> Blank]
    /\ active = "B" /\ sequence = 0 /\ entries = NoProfiles
    /\ activeId = Safe /\ legacy = Legacy /\ answer = "none" /\ retired = {}
    /\ \/ Legacy = {} /\ stage = "idle" /\ next = NoProfiles
       \/ \E p \in Legacy : stage = "erase" /\ next = With(NoProfiles, 1, p)

Next ==
    \/ CommitStep \/ Return \/ Restart
    \/ \E text \in Texts : Create(text)
    \/ \E id \in DOMAIN entries : Remove(id)
    \/ \E id \in DOMAIN entries, text \in Texts : Publish(id, text, entries[id].revision)
    \/ \E id \in Listed : Activate(id)

Spec == Init /\ [][Next]_storeVars

----------------------------------------------------------------------------
(* Properties                                                                 *)

\* Values have the types of the code, and no catalog outgrows the array of entries.
CatalogTypeOK ==
    /\ DOMAIN bank = Banks
    /\ \A b \in Banks : \/ bank[b] = Blank
                         \/ /\ bank[b] = Written(bank[b].sequence, bank[b].profiles)
                            /\ bank[b].sequence \in Nat /\ IsCatalog(bank[b].profiles)
    /\ active \in Banks /\ sequence \in Nat /\ activeId \in Nat
    /\ IsCatalog(entries) /\ IsCatalog(next)
    /\ retired \subseteq Nat /\ legacy \subseteq Profiles
    /\ stage \in {"idle", "erase", "payload", "header", "verify", "done"}
    /\ answer \in {"none", "ok", "storage_error"}

Stored == IF Readable = {} THEN NoProfiles ELSE bank[Newest(Readable)].profiles

\* A change that was answered ok is what a restart finds (commit, profile_catalog.cpp:749-757).
AcknowledgedIsStored == answer = "ok" => Stored = entries

\* An id that lost its profile never names another one: an editor page, or the active id in
\* NVS, may still hold it (create, profile_catalog.cpp:589-593).
IdsAreNotReused == retired \cap DOMAIN entries = {}

\* The active id names a profile that is there, so the keyboard has bindings (remove, :635).
ActiveIsListed == activeId \in Listed

\* What the callers of the catalog rely on between two of its steps: an answer that is kept,
\* an id that means one profile for ever, and an active profile that exists.
CatalogIsSafe == AcknowledgedIsStored /\ IdsAreNotReused /\ ActiveIsListed

\* The two banks implement one catalog that survives power cuts (load and commit together).
Durable == INSTANCE DurableCatalog WITH used <- entries, stored <- Stored
ImplementsDurable == Durable!Spec

\* "A catalog write failure leaves the active bank and active Profile unchanged" (the design,
\* :393), also after a restart: test_profile_catalog.cpp:113-122.
FailedChangeStaysOut == [][Restart /\ answer = "storage_error" => entries' = entries]_storeVars
=============================================================================
