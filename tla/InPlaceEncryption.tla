------------------------- MODULE InPlaceEncryption -------------------------
(***************************************************************************)
(* The in-place encryption of a partition that is not a system one         *)
(* (Format/InPlace.c).  The data of the shrunk file system is moved        *)
(* towards the end by the size of the header area, backwards, a chunk at a *)
(* time, and encrypted on the way.  Until the end only the backup header   *)
(* says how far it got.  The partition is a row of units: a chunk that is  *)
(* larger than the header area overwrites plain text it has only in memory.*)
(***************************************************************************)
EXTENDS Naturals, FiniteSets

CONSTANTS
    PartUnits,        \* units of the data area (dataAreaSize)
    HeadUnits,        \* TC_VOLUME_DATA_OFFSET
    ChunkUnits,       \* TC_MAX_NONSYS_INPLACE_ENC_WORK_CHUNK_SIZE
    UpdateUnits,      \* TC_NONSYS_INPLACE_ENC_HEADER_UPDATE_INTERVAL
    MaxPartCrashes, MaxPartFaults, MaxRuns

ASSUME InPlaceSizes ==
    /\ PartUnits \in Nat /\ HeadUnits \in Nat \ {0} /\ ChunkUnits \in Nat /\ UpdateUnits \in Nat
    /\ HeadUnits < ChunkUnits /\ ChunkUnits <= UpdateUnits

PartData == 0 .. PartUnits - 1
Raw      == 0 .. PartUnits + HeadUnits - 1
AreaLimit == PartUnits + HeadUnits     \* where the backup header is

VARIABLES
    ipc,             \* control point of the thread
    part,            \* the partition up to the backup header
    backupHdr,       \* EncryptedAreaStart in the backup header, or 0: no header
    primaryHdr,      \* the primary header is on the partition
    encStart,        \* masterCryptoInfo->EncryptedAreaStart
    chunk,           \* the chunk in memory, plain: from unit encStart - HeadUnits - size on
    sinceUpdate,     \* lastHeaderUpdateDistance
    areaChanged,     \* bEncryptedAreaSizeChanged
    paused,          \* bVolTransformThreadCancel
    wiping,          \* a wipe algorithm is selected
    savedCount,      \* partitions in progress, in the configuration file
    zeroed,          \* unreadable units the user agreed to zero
    staleUpdates,    \* header updates on closing that failed
    openResume,      \* history: resumed although the file system was not concealed
    partCrashes, partFaults, partRuns

iVars == <<ipc, part, backupHdr, primaryHdr, encStart, chunk, sinceUpdate, areaChanged, paused,
           wiping, savedCount, zeroed, staleUpdates, openResume, partCrashes, partFaults, partRuns>>
iDisk  == <<part, backupHdr, primaryHdr, savedCount>>
iMem   == <<encStart, chunk, sinceUpdate, areaChanged, paused, wiping>>
iCount == <<zeroed, staleUpdates, openResume, partCrashes, partFaults, partRuns>>

Plain(u)     == <<"plain", u>>
Concealed(u) == <<"concealed", u>>    \* plain text changed by ConcealNTFS (unit 0)
Cipher(u)    == <<"cipher", u>>
Noise        == <<"noise", 0>>        \* anything else: wiped, zeroed, wrongly encrypted

\* XOR with TC_NTFS_CONCEAL_CONSTANT.
Conceal(c) == IF c = Plain(0) THEN Concealed(0) ELSE IF c = Concealed(0) THEN Plain(0) ELSE Noise
EncryptUnit(u, c) == IF c = Plain(u) THEN Cipher(u) ELSE Noise

Remaining == encStart - HeadUnits
WorkChunk == IF Remaining < ChunkUnits THEN Remaining ELSE ChunkUnits
ReadAt  == encStart - WorkChunk - HeadUnits       \* where the chunk is read,
WriteAt == encStart - WorkChunk                   \* and where it goes
ChunkTarget(size) == WriteAt .. WriteAt + size - 1

IInit ==
    /\ ipc = "idle" /\ part = [r \in Raw |-> IF r \in PartData THEN Plain(r) ELSE Noise]
    /\ backupHdr = 0 /\ primaryHdr = FALSE
    /\ encStart = AreaLimit /\ chunk = <<>> /\ sinceUpdate = 0 /\ areaChanged = FALSE
    /\ paused = FALSE /\ wiping = FALSE /\ savedCount = 0 /\ zeroed = {} /\ staleUpdates = 0
    /\ openResume = FALSE /\ partCrashes = 0 /\ partFaults = 0 /\ partRuns = 0

-----------------------------------------------------------------------------
\* CheckRequirementsForNonSysInPlaceEnc: an NTFS file system that Windows can see.
RequirementsMet == part[0] = Plain(0) /\ ~primaryHdr

(* EncryptPartitionInPlaceBegin: the file system is shrunk (clusters beyond the new end
   are moved first when the shrinking fails) and dismounted ... *)
InPlaceBegin(wipe) ==
    /\ ipc = "idle" /\ RequirementsMet /\ partRuns < MaxRuns
    /\ wiping' = wipe /\ partRuns' = partRuns + 1
    /\ ipc' \in {"backup", "idle"}           \* "idle": a call fails
    /\ UNCHANGED <<part, backupHdr, primaryHdr, encStart, chunk, sinceUpdate, areaChanged, paused,
                   savedCount, zeroed, staleUpdates, openResume, partCrashes, partFaults>>

\* ... and the backup header is written with an empty encrypted area, and read back.
WriteBackupHeader ==
    /\ ipc = "backup"
    /\ \/ ipc' = "conceal" /\ backupHdr' = AreaLimit /\ UNCHANGED partFaults
       \/ /\ partFaults < MaxPartFaults /\ partFaults' = partFaults + 1
          /\ ipc' = "idle" /\ UNCHANGED backupHdr
    /\ UNCHANGED <<part, primaryHdr, savedCount, iMem, zeroed, staleUpdates, openResume, partCrashes,
                   partRuns>>

\* ConcealNTFS undoes itself on a write error; the call then fails.
ConcealNTFS ==
    /\ ipc = "conceal"
    /\ \/ part' = [part EXCEPT ![0] = Conceal(@)] /\ ipc' = "settings" /\ UNCHANGED partFaults
       \/ /\ partFaults < MaxPartFaults /\ partFaults' = partFaults + 1
          /\ ipc' = "idle" /\ UNCHANGED part
    /\ UNCHANGED <<backupHdr, primaryHdr, savedCount, iMem, zeroed, staleUpdates, openResume,
                   partCrashes, partRuns>>

SaveSettings ==
    /\ ipc = "settings"
    /\ savedCount' = savedCount + 1 /\ ipc' = "resume"
    /\ UNCHANGED <<part, backupHdr, primaryHdr, iMem, iCount>>

\* A later run of the wizard: the user selects the partition and gives the password.
ResumeLater(wipe) ==
    /\ ipc = "idle" /\ backupHdr # 0 /\ ~primaryHdr /\ partRuns < MaxRuns
    /\ ipc' = "resume" /\ wiping' = wipe /\ partRuns' = partRuns + 1
    /\ openResume' = (openResume \/ part[0] = Plain(0))
    /\ UNCHANGED <<iDisk, encStart, chunk, sinceUpdate, areaChanged, paused, zeroed, staleUpdates,
                   partCrashes, partFaults>>

-----------------------------------------------------------------------------
(* EncryptPartitionInPlaceResume. *)
OpenBackupHeader ==
    /\ ipc = "resume"
    /\ encStart' = backupHdr /\ sinceUpdate' = 0 /\ areaChanged' = FALSE /\ paused' = FALSE
    /\ ipc' = "loop"
    /\ UNCHANGED <<iDisk, chunk, wiping, iCount>>

\* The chunk is read; the concealed portion of the file system is restored in memory.
ReadChunk ==
    /\ ipc = "loop" /\ Remaining > 0 /\ ~paused
    /\ chunk' = [i \in 0 .. WorkChunk - 1 |->
                    IF ReadAt + i = 0 THEN Conceal(part[0]) ELSE part[ReadAt + i]]
    /\ ipc' = IF wiping THEN "wipe" ELSE "write"
    /\ UNCHANGED <<iDisk, encStart, sinceUpdate, areaChanged, paused, wiping, iCount>>

\* A unit cannot be read: the user agrees to zero it (and the chunk is read again), or not.
ReadError ==
    /\ ipc = "loop" /\ Remaining > 0 /\ ~paused /\ partFaults < MaxPartFaults
    /\ partFaults' = partFaults + 1
    /\ \/ \E u \in ReadAt .. ReadAt + WorkChunk - 1 :
             part' = [part EXCEPT ![u] = Noise] /\ zeroed' = zeroed \cup {u} /\ UNCHANGED ipc
       \/ ipc' = "closing" /\ UNCHANGED <<part, zeroed>>
    /\ UNCHANGED <<backupHdr, primaryHdr, savedCount, iMem, staleUpdates, openResume, partCrashes,
                   partRuns>>

PartAfter(s, cells) == [r \in Raw |-> IF r \in s THEN cells[r] ELSE part[r]]
WipeCells == [r \in ChunkTarget(WorkChunk) |-> Noise]
ChunkCells == [r \in ChunkTarget(WorkChunk) |-> EncryptUnit(r - HeadUnits, chunk[r - WriteAt])]

\* The passes over the place the chunk goes to.
WipeChunk ==
    /\ ipc = "wipe"
    /\ part' = PartAfter(ChunkTarget(WorkChunk), WipeCells)
    /\ ipc' = "write"
    /\ UNCHANGED <<backupHdr, primaryHdr, savedCount, iMem, iCount>>

WriteChunk ==
    /\ ipc = "write"
    /\ part' = PartAfter(ChunkTarget(WorkChunk), ChunkCells)
    /\ encStart' = encStart - WorkChunk /\ sinceUpdate' = sinceUpdate + WorkChunk
    /\ areaChanged' = TRUE
    /\ chunk' = <<>>
    /\ ipc' = IF sinceUpdate + WorkChunk >= UpdateUnits THEN "update" ELSE "next"
    /\ UNCHANGED <<backupHdr, primaryHdr, paused, wiping, savedCount, iCount>>

\* Mutant of Undone: a failed write is not undone.
UndoneNothing(s) == s

\* A write error after some units: the plain text that was overwritten and exists only in
\* memory (all but the first HeadUnits units of the chunk) is put back.
Undone(s) ==
    [r \in Raw |-> IF WorkChunk > HeadUnits /\ r \in ChunkTarget(WorkChunk - HeadUnits)
                   THEN chunk[HeadUnits + r - WriteAt] ELSE s[r]]
WriteError ==
    /\ ipc \in {"wipe", "write"} /\ partFaults < MaxPartFaults
    /\ partFaults' = partFaults + 1
    /\ \E s \in SUBSET ChunkTarget(WorkChunk) :
          part' = Undone(PartAfter(s, IF ipc = "wipe" THEN WipeCells ELSE ChunkCells))
    /\ chunk' = <<>> /\ ipc' = "closing"
    /\ UNCHANGED <<backupHdr, primaryHdr, encStart, sinceUpdate, areaChanged, paused, wiping,
                   savedCount, zeroed, staleUpdates, openResume, partCrashes, partRuns>>

(* FastVolumeHeaderUpdate of the backup header: in the loop, after it, and on closing,
   where its result is ignored. *)
HeaderUpdate(from, done) ==
    /\ ipc = from
    /\ backupHdr' = encStart
    /\ ipc' = done /\ sinceUpdate' = 0
    /\ UNCHANGED <<part, primaryHdr, encStart, chunk, areaChanged, paused, wiping, savedCount,
                   iCount>>
HeaderUpdateFails(from, failed) ==
    /\ ipc = from /\ partFaults < MaxPartFaults
    /\ partFaults' = partFaults + 1
    /\ staleUpdates' = staleUpdates + (IF from = "closing" THEN 1 ELSE 0)
    /\ ipc' = failed
    /\ UNCHANGED <<iDisk, iMem, zeroed, openResume, partCrashes, partRuns>>

\* bVolTransformThreadCancel is looked at after every chunk.
NextChunk(cancel) ==
    /\ ipc = "next"
    /\ paused' = cancel /\ ipc' = "loop"
    /\ UNCHANGED <<iDisk, encStart, chunk, sinceUpdate, areaChanged, wiping, iCount>>

\* Mutant of LoopEnds: only a pause ends the loop.
LoopEndsPaused ==
    /\ ipc = "loop" /\ paused
    /\ ipc' = "last"
    /\ UNCHANGED <<iDisk, iMem, iCount>>

LoopEnds ==
    /\ ipc = "loop" /\ (Remaining = 0 \/ paused)
    /\ ipc' = "last"
    /\ UNCHANGED <<iDisk, iMem, iCount>>

\* All data is encrypted: the primary header and random data fill the first HeadUnits units.
WritePrimaryHeader ==
    /\ ipc = "finalize" /\ ~paused
    /\ \/ /\ part' = [r \in Raw |-> IF r < HeadUnits THEN Noise ELSE part[r]]
          /\ primaryHdr' = TRUE /\ savedCount' = savedCount - (IF savedCount > 0 THEN 1 ELSE 0)
          /\ UNCHANGED partFaults
       \/ /\ partFaults < MaxPartFaults /\ partFaults' = partFaults + 1
          /\ UNCHANGED <<part, primaryHdr, savedCount>>
    /\ ipc' = "closing"
    /\ UNCHANGED <<backupHdr, iMem, zeroed, staleUpdates, openResume, partCrashes, partRuns>>

PauseEnds ==
    /\ ipc = "finalize" /\ paused
    /\ ipc' = "closing"
    /\ UNCHANGED <<iDisk, iMem, iCount>>

NothingToSave ==
    /\ ipc = "closing" /\ ~areaChanged
    /\ ipc' = "idle"
    /\ UNCHANGED <<iDisk, iMem, iCount>>

\* The computer stops: a chunk that was being written is on the partition in part.
PartCrash ==
    /\ ipc # "idle" /\ partCrashes < MaxPartCrashes
    /\ partCrashes' = partCrashes + 1
    /\ \/ UNCHANGED part
       \/ ipc = "wipe" /\ \E s \in SUBSET ChunkTarget(WorkChunk) : part' = PartAfter(s, WipeCells)
       \/ ipc = "write" /\ \E s \in SUBSET ChunkTarget(WorkChunk) : part' = PartAfter(s, ChunkCells)
    /\ ipc' = "idle" /\ chunk' = <<>>
    /\ UNCHANGED <<backupHdr, primaryHdr, savedCount, encStart, sinceUpdate, areaChanged, paused,
                   wiping, zeroed, staleUpdates, openResume, partFaults, partRuns>>

HeaderUpdates ==
    \/ HeaderUpdate("update", "next") \/ HeaderUpdateFails("update", "closing")
    \/ HeaderUpdate("last", "finalize") \/ HeaderUpdateFails("last", "closing")
    \/ areaChanged /\ (HeaderUpdate("closing", "idle") \/ HeaderUpdateFails("closing", "idle"))

InPlaceStep ==
    \/ WriteBackupHeader \/ ConcealNTFS \/ SaveSettings \/ OpenBackupHeader \/ ReadChunk \/ ReadError
    \/ WipeChunk \/ WriteChunk \/ WriteError \/ HeaderUpdates
    \/ (\E c \in BOOLEAN : NextChunk(c)) \/ LoopEnds \/ WritePrimaryHeader \/ PauseEnds
    \/ NothingToSave

INext == InPlaceStep \/ PartCrash \/ \E w \in BOOLEAN : InPlaceBegin(w) \/ ResumeLater(w)

ISpec == IInit /\ [][INext]_iVars
\* The thread of the wizard keeps running once it was started.
IFairSpec == ISpec /\ WF_iVars(InPlaceStep)

-----------------------------------------------------------------------------
(* The types of the partition and of the position of the thread. *)
ITypeOK ==
    /\ part \in [Raw -> {"plain", "concealed", "cipher", "noise"} \X (PartData \cup {0})]
    /\ backupHdr \in {0} \cup HeadUnits .. AreaLimit
    /\ encStart \in HeadUnits .. AreaLimit /\ sinceUpdate \in 0 .. UpdateUnits + ChunkUnits

\* What is where the backup header says it is: encrypted from its start on, plain below.
Readable(u) ==
    IF backupHdr # 0 /\ u >= backupHdr - HeadUnits
    THEN part[u + HeadUnits] = Cipher(u)
    ELSE part[u] \in {Plain(u), Concealed(u)}
Damaged == {u \in PartData \ zeroed : ~Readable(u)}

(* Whatever errors the device reports, and whenever the user pauses, the partition can be
   resumed without loss: every error path of InPlace.c leaves the data where the backup
   header says it is, unless the last update of the header failed as well.  (A resumption
   of a partition whose file system was never concealed is the subject of ResumeIsSafe.) *)
NoLossWithoutCrash ==
    ipc = "idle" /\ partCrashes = 0 /\ staleUpdates = 0 /\ ~openResume => Damaged = {}

(* A crash damages at most the units that were moved since the last update of the
   header, and the chunk that was being written: what lies further away is intact, and
   resuming does not spread the damage. *)
CrashLossBounded ==
    ipc = "idle" /\ ~openResume =>
        Cardinality(Damaged) <= (partCrashes + staleUpdates) * (UpdateUnits + ChunkUnits - 1 - HeadUnits)

(* The primary header, which replaces the first units of the partition, is written only
   when the backup header says that everything is encrypted, and what it replaces is
   already in its new place. *)
PrimaryHeaderLast ==
    primaryHdr => /\ backupHdr = HeadUnits
                  /\ \A u \in PartData : part[u + HeadUnits] \notin {Plain(u + HeadUnits),
                                                                     Concealed(u + HeadUnits)}

(* "The backup header is valid so we know we should be able to safely resume in-place
   encryption of this partition even if the system/app crashes" (InPlace.c:563). *)
ResumeIsSafe == ipc = "idle" => Damaged = {}

(* The thread ends: it finishes, pauses or stops with an error. *)
InPlaceEnds == ipc = "backup" ~> ipc = "idle"

(* No sector is lost without a crash, a crash loses at most what is under way, and
   the primary header is written last. *)
NothingLost == ITypeOK /\ NoLossWithoutCrash /\ CrashLossBounded /\ PrimaryHeaderLast
=============================================================================
