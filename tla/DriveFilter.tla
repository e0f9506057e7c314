---------------------------- MODULE DriveFilter ----------------------------
(***************************************************************************)
(* Encryption and decryption in place of the running system drive, by the  *)
(* set-up thread of Driver/DriveFilter.c.                                  *)
(*                                                                         *)
(* The thread walks over the configured area block by block: it holds the  *)
(* I/O queue, reads a block, transforms it, may overwrite the place with   *)
(* wipe patterns, writes it back, moves EncryptedAreaEnd and resumes the   *)
(* queue; now and then, and at its end, it saves the length of the area in *)
(* the boot volume header.  Meanwhile the system uses the drive, a control *)
(* request may abort the thread, device accesses may fail, and the machine *)
(* may lose power, after which the area is what the header says.           *)
(*                                                                         *)
(* Offsets and lengths are in data units.  The cell of a unit has a number *)
(* of encryption layers and the data below them: encrypting adds a layer,  *)
(* decrypting removes one, whatever was there, as the cipher of one unit   *)
(* is a bijection.  IoGate, which EncryptedIoQueue is shown to implement,  *)
(* justifies that I/O of the system is one step that takes place only      *)
(* while the queue is not held.                                            *)
(***************************************************************************)
EXTENDS Integers

CONSTANTS
    DriveUnits,              \* units of the drive: 0 .. DriveUnits - 1
    VolumeStart, VolumeEnd,  \* header: EncryptedAreaStart, and its VolumeSize
    BlockSize,               \* TC_ENCRYPTION_SETUP_IO_BLOCK_SIZE
    Threshold,               \* TC_ENCRYPTION_SETUP_HEADER_UPDATE_THRESHOLD
    WipePasses,              \* GetWipePassCount (SetupRequest.WipeAlgorithm)
    Values,                  \* what the system writes
    Zero,                    \* an unreadable sector that was zeroed
    Junk,                    \* a wipe pattern
    SetupRequests,           \* requests: [mode, wipe, skip]
    InitialLengths,          \* encrypted units when the drive is mounted
    HeaderFaults,            \* whether the header may fail to be written
    MaxFaults, MaxCrashes, MaxSetups    \* bounds

Units == 0 .. DriveUnits - 1
Requests == [mode : {"encryption", "decryption"}, wipe : BOOLEAN, skip : BOOLEAN]
AllData == Values \cup {Zero, Junk}
Cells == [layer : Int, data : AllData]

ASSUME DriveAssumption ==
    /\ DriveUnits \in Nat
    /\ VolumeStart \in Nat \ {0} /\ VolumeEnd \in Nat
    /\ VolumeStart <= VolumeEnd /\ VolumeEnd < DriveUnits
    /\ BlockSize \in Nat \ {0} /\ Threshold \in Nat \ {0} /\ WipePasses \in Nat \ {0}
    /\ SetupRequests \subseteq Requests
    /\ InitialLengths \subseteq 0 .. VolumeEnd + 1 - VolumeStart
    /\ HeaderFaults \in BOOLEAN
    /\ MaxFaults \in Nat /\ MaxCrashes \in Nat /\ MaxSetups \in Nat

VARIABLES
    disk,            \* unit -> cell
    header,          \* boot volume header on the drive: [present, length]
    EncryptedAreaStart, EncryptedAreaEnd,
    ConfiguredEncryptedAreaStart, ConfiguredEncryptedAreaEnd,
    DriveMounted,
    held,            \* the I/O queue is held
    pc, SetupRequest, SetupResult, EncryptionSetupThreadAbortRequested,
    offset, setupBlockSize, buffer, wipePass,
    headerUpdateRequired, bytesWrittenSinceHeaderUpdate,
    RootDeviceControlMutex, ioctl,   \* the mutex of control requests, and one such request
    content,         \* history: what the system wrote last into a unit
    lost,            \* history: units that a failure may have damaged
    faults, crashes, setups          \* counters for the bounds

areaVars   == <<EncryptedAreaStart, EncryptedAreaEnd, ConfiguredEncryptedAreaStart,
                ConfiguredEncryptedAreaEnd, DriveMounted>>
requestVars == <<SetupRequest, EncryptionSetupThreadAbortRequested, setups>>
blockVars  == <<offset, setupBlockSize, buffer, wipePass>>
updateVars == <<headerUpdateRequired, bytesWrittenSinceHeaderUpdate>>
mutexVars  == <<RootDeviceControlMutex, ioctl>>
diskVars   == <<disk, content, lost, faults>>
vars == <<areaVars, requestVars, blockVars, updateVars, mutexVars, diskVars, header, held, pc,
          SetupResult, crashes>>

-----------------------------------------------------------------------------
Encrypt(cell) == [layer |-> cell.layer + 1, data |-> cell.data]
Decrypt(cell) == [layer |-> cell.layer - 1, data |-> cell.data]

Encrypting == SetupRequest.mode = "encryption"
Transform(cell) == IF Encrypting THEN Encrypt(cell) ELSE Decrypt(cell)
Undo(cell) == IF Encrypting THEN Decrypt(cell) ELSE Encrypt(cell)

\* The encrypted area: units of the running drive, and units after a mount.
InArea(u) ==
    /\ EncryptedAreaStart # -1 /\ EncryptedAreaEnd # -1
    /\ EncryptedAreaStart <= u /\ u <= EncryptedAreaEnd
AreaLength ==
    IF EncryptedAreaStart = -1 \/ EncryptedAreaEnd = -1 THEN 0
    ELSE EncryptedAreaEnd + 1 - EncryptedAreaStart
InHeaderArea(u) == VolumeStart <= u /\ u < VolumeStart + header.length

\* The units of the block the set-up thread is at.
InBlock(u) == offset <= u /\ u < offset + setupBlockSize

\* How the queue stores v in unit u.
Stored(u, v) == [layer |-> IF InArea(u) THEN 1 ELSE 0, data |-> v]

Init ==
    /\ \E n \in InitialLengths :
          /\ header = [present |-> TRUE, length |-> n]
          /\ EncryptedAreaStart = IF n = 0 THEN -1 ELSE VolumeStart
          /\ EncryptedAreaEnd = IF n = 0 THEN -1 ELSE VolumeStart + n - 1
    /\ ConfiguredEncryptedAreaStart = VolumeStart /\ ConfiguredEncryptedAreaEnd = VolumeEnd
    /\ DriveMounted = TRUE
    /\ content \in {[u \in Units |-> v] : v \in Values}
    /\ disk = [u \in Units |-> Stored(u, content[u])]
    /\ held = FALSE
    /\ pc = "idle" /\ SetupRequest \in SetupRequests /\ SetupResult = "success"
    /\ EncryptionSetupThreadAbortRequested = FALSE
    /\ offset = 0 /\ setupBlockSize = BlockSize /\ buffer = disk /\ wipePass = 1
    /\ headerUpdateRequired = FALSE /\ bytesWrittenSinceHeaderUpdate = 0
    /\ RootDeviceControlMutex = "free" /\ ioctl = "idle"
    /\ lost = {} /\ faults = 0 /\ crashes = 0 /\ setups = 0

-----------------------------------------------------------------------------
(***************************************************************************)
(* Control requests: one at a time, under RootDeviceControlMutex.          *)
(***************************************************************************)
controlRest == <<areaVars, diskVars, buffer, wipePass, offset, header, held, SetupResult, crashes>>

IoctlEnters ==
    /\ ioctl = "idle" /\ RootDeviceControlMutex = "free"
    /\ ioctl' = "busy" /\ RootDeviceControlMutex' = "ioctl"
    /\ UNCHANGED <<controlRest, requestVars, updateVars, setupBlockSize, pc>>

\* Also the initial values of the thread's locals.
StartBootEncryptionSetup ==
    /\ ioctl = "busy" /\ pc = "idle" /\ DriveMounted /\ setups < MaxSetups
    /\ SetupRequest' \in SetupRequests
    /\ EncryptionSetupThreadAbortRequested' = FALSE
    /\ pc' = "begin"
    /\ setupBlockSize' = BlockSize
    /\ headerUpdateRequired' = FALSE /\ bytesWrittenSinceHeaderUpdate' = 0
    /\ setups' = setups + 1
    /\ ioctl' = "leaving"
    /\ UNCHANGED <<controlRest, RootDeviceControlMutex>>

\* The request waits until the thread has ended, holding the mutex.
AbortBootEncryptionSetup ==
    /\ ioctl = "busy" /\ pc # "idle"
    /\ EncryptionSetupThreadAbortRequested' = TRUE
    /\ ioctl' = "joining"
    /\ UNCHANGED <<controlRest, updateVars, setupBlockSize, pc, SetupRequest, setups,
                   RootDeviceControlMutex>>

IoctlLeaves ==
    /\ \/ ioctl \in {"busy", "leaving"}
       \/ ioctl = "joining" /\ pc = "idle"
    /\ ioctl' = "idle" /\ RootDeviceControlMutex' = "free"
    /\ UNCHANGED <<controlRest, requestVars, updateVars, setupBlockSize, pc>>

-----------------------------------------------------------------------------
(***************************************************************************)
(* SetupThreadProc.                                                        *)
(***************************************************************************)
setupRest == <<requestVars, content, crashes>>

\* The thread cannot be created, and the last result stays; or the header key is
\* missing or memory cannot be allocated.
SetupCannotBegin ==
    /\ pc = "begin" /\ faults < MaxFaults
    /\ pc' = "idle" /\ faults' = faults + 1
    /\ SetupResult' \in {SetupResult, "failed"}
    /\ UNCHANGED <<setupRest, areaVars, blockVars, updateVars, mutexVars, disk, lost, header, held>>

NoArea == EncryptedAreaStart = -1 \/ EncryptedAreaEnd = -1

\* Where to begin is found out under a first hold of the queue.
BeginEncryption ==
    /\ pc = "begin" /\ Encrypting
    /\ IF NoArea
       THEN /\ EncryptedAreaStart' = ConfiguredEncryptedAreaStart
            /\ EncryptedAreaEnd' = -1
            /\ offset' = ConfiguredEncryptedAreaStart
       ELSE /\ offset' = EncryptedAreaEnd + 1
            /\ UNCHANGED <<EncryptedAreaStart, EncryptedAreaEnd>>
    /\ pc' = IF ~NoArea /\ EncryptedAreaEnd = ConfiguredEncryptedAreaEnd THEN "end" ELSE "loop"
    /\ SetupResult' = "failed"
    /\ UNCHANGED <<setupRest, mutexVars, updateVars, ConfiguredEncryptedAreaStart,
                   ConfiguredEncryptedAreaEnd, DriveMounted, setupBlockSize, buffer, wipePass,
                   disk, lost, faults, header, held>>

BeginDecryption ==
    /\ pc = "begin" /\ ~Encrypting
    /\ offset' = EncryptedAreaEnd + 1
    /\ IF NoArea
       THEN pc' = "end" /\ SetupResult' = "success"
       ELSE pc' = "loop" /\ SetupResult' = "failed"
    /\ UNCHANGED <<setupRest, mutexVars, updateVars, areaVars, setupBlockSize, buffer, wipePass,
                   disk, lost, faults, header, held>>

\* A hold failed, or the loop is at its head, and the abort was requested.
SetupAborts ==
    /\ pc \in {"begin", "loop", "hold"} /\ EncryptionSetupThreadAbortRequested
    /\ pc' = "end" /\ SetupResult' = "success"
    /\ UNCHANGED <<setupRest, areaVars, blockVars, updateVars, mutexVars, disk, lost, faults, header, held>>

\* The block is cut at the end of the configured area, or at the start of the
\* encrypted one; nothing left: the thread is done.
NextBlockSize ==
    IF Encrypting
    THEN IF offset + setupBlockSize > ConfiguredEncryptedAreaEnd + 1
         THEN ConfiguredEncryptedAreaEnd + 1 - offset ELSE setupBlockSize
    ELSE IF offset - setupBlockSize < EncryptedAreaStart
         THEN offset - EncryptedAreaStart ELSE setupBlockSize

NextBlock ==
    /\ pc = "loop" /\ ~EncryptionSetupThreadAbortRequested
    /\ setupBlockSize' = NextBlockSize
    /\ offset' = IF Encrypting THEN offset ELSE offset - NextBlockSize
    /\ IF NextBlockSize = 0
       THEN pc' = "end" /\ SetupResult' = "success"
       ELSE pc' = "hold" /\ UNCHANGED SetupResult
    /\ UNCHANGED <<setupRest, areaVars, buffer, wipePass, updateVars, mutexVars, disk, lost,
                   faults, header, held>>

\* Mutant of HoldQueue: the block is re-encoded while the system writes.
HoldQueueNot ==
    /\ pc = "hold"
    /\ pc' = "read"
    /\ UNCHANGED <<setupRest, areaVars, blockVars, updateVars, mutexVars, disk, lost, faults,
                   header, held, SetupResult>>

HoldQueue ==
    /\ pc = "hold"
    /\ held' = TRUE
    /\ pc' = "read"
    /\ UNCHANGED <<setupRest, areaVars, blockVars, updateVars, mutexVars, disk, lost, faults,
                   header, SetupResult>>

AfterRead == IF Encrypting /\ SetupRequest.wipe THEN "wipe" ELSE "write"

ReadBlock ==
    /\ pc = "read"
    /\ buffer' = [u \in Units |-> IF InBlock(u) THEN Transform(disk[u]) ELSE buffer[u]]
    /\ wipePass' = 1
    /\ pc' = AfterRead
    /\ UNCHANGED <<setupRest, areaVars, offset, setupBlockSize, updateVars, mutexVars, disk, lost,
                   faults, header, held, SetupResult>>

\* Some units cannot be read: they are zeroed on the drive, or in the buffer, if
\* the request says so.
ZeroedCell == [layer |-> 0, data |-> Zero]
SkipUnreadable(bad) ==
    LET cell(u) == IF u \in bad THEN ZeroedCell ELSE disk[u]
    IN  /\ pc = "read" /\ faults < MaxFaults /\ SetupRequest.skip
        /\ disk' = [u \in Units |-> IF Encrypting THEN cell(u) ELSE disk[u]]
        /\ buffer' = [u \in Units |-> IF InBlock(u) THEN Transform(cell(u)) ELSE buffer[u]]
        /\ wipePass' = 1
        /\ pc' = AfterRead
        /\ lost' = lost \cup bad /\ faults' = faults + 1
        /\ UNCHANGED <<setupRest, areaVars, offset, setupBlockSize, updateVars, mutexVars,
                       header, held, SetupResult>>

\* The read fails for good; what ZeroUnreadableSectors zeroed until then stays so.
ReadFails(zeroed) ==
    /\ pc = "read" /\ faults < MaxFaults
    /\ zeroed # {} => Encrypting /\ SetupRequest.skip
    /\ disk' = [u \in Units |-> IF u \in zeroed THEN ZeroedCell ELSE disk[u]]
    /\ lost' = lost \cup zeroed /\ faults' = faults + 1
    /\ pc' = "end" /\ SetupResult' = "failed"
    /\ UNCHANGED <<setupRest, areaVars, blockVars, updateVars, mutexVars, header, held>>

\* A write of cells to the block; one that fails has reached some of its units.
WriteCells(cell(_)) == disk' = [u \in Units |-> IF InBlock(u) THEN cell(u) ELSE disk[u]]
WriteSome(cell(_), written) ==
    /\ faults < MaxFaults /\ faults' = faults + 1
    /\ disk' = [u \in Units |-> IF u \in written THEN cell(u) ELSE disk[u]]

JunkCell(u) == [layer |-> 0, data |-> Junk]
BufferCell(u) == buffer[u]
UndoneCell(u) == Undo(buffer[u])

WipeBlock ==
    /\ pc = "wipe"
    /\ WriteCells(JunkCell)
    /\ wipePass' = wipePass + 1
    /\ pc' = IF wipePass < WipePasses THEN "wipe" ELSE "write"
    /\ UNCHANGED <<setupRest, areaVars, offset, setupBlockSize, buffer, updateVars, mutexVars,
                   lost, faults, header, held, SetupResult>>

WriteBlock ==
    /\ pc = "write"
    /\ WriteCells(BufferCell)
    /\ pc' = "written"
    /\ UNCHANGED <<setupRest, areaVars, blockVars, updateVars, mutexVars, lost, faults, header,
                   held, SetupResult>>

WriteFails(written) ==
    /\ \/ pc = "wipe" /\ WriteSome(JunkCell, written)
       \/ pc = "write" /\ WriteSome(BufferCell, written)
    /\ pc' = "undo" /\ SetupResult' = "failed"
    /\ UNCHANGED <<setupRest, areaVars, blockVars, updateVars, mutexVars, lost, header, held>>

\* The old data is written back; the status of that write is not looked at.
UndoWrite ==
    /\ pc = "undo"
    /\ WriteCells(UndoneCell)
    /\ pc' = "end"
    /\ UNCHANGED <<setupRest, areaVars, blockVars, updateVars, mutexVars, lost, faults, header,
                   held, SetupResult>>

UndoFails(written) ==
    /\ pc = "undo" /\ WriteSome(UndoneCell, written)
    /\ lost' = lost \cup {u \in Units : InBlock(u)}
    /\ pc' = "end"
    /\ UNCHANGED <<setupRest, areaVars, blockVars, updateVars, mutexVars, header, held, SetupResult>>

\* The block belongs to the other side of the end now; the queue is resumed.
MoveEnd ==
    /\ pc = "written"
    /\ offset' = IF Encrypting THEN offset + setupBlockSize ELSE offset
    /\ EncryptedAreaEnd' = offset' - 1
    /\ headerUpdateRequired' = TRUE
    /\ held' = FALSE
    /\ pc' = "moved"
    /\ UNCHANGED <<setupRest, EncryptedAreaStart, ConfiguredEncryptedAreaStart,
                   ConfiguredEncryptedAreaEnd, DriveMounted, setupBlockSize, buffer, wipePass,
                   bytesWrittenSinceHeaderUpdate, mutexVars, disk, lost, faults, header, SetupResult>>

\* Mutant of SavedHeader: a decryption erases the header with its first save.
SavedHeaderErased ==
    IF Encrypting
    THEN IF AreaLength > 0 THEN [present |-> header.present, length |-> AreaLength] ELSE header
    ELSE [present |-> FALSE, length |-> 0]

\* SaveDriveVolumeHeader: an empty area leaves the header as it is, or erases it
\* at the end of a decryption.
SavedHeader ==
    IF AreaLength > 0 THEN [present |-> header.present, length |-> AreaLength]
    ELSE IF Encrypting THEN header ELSE [present |-> FALSE, length |-> 0]
SaveOutcomes == {TRUE} \cup (IF HeaderFaults /\ faults < MaxFaults THEN {FALSE} ELSE {})
SaveDriveVolumeHeader(ok) ==
    /\ header' = IF ok THEN SavedHeader ELSE header
    /\ faults' = IF ok THEN faults ELSE faults + 1

\* Mutant of UpdateHeader: the header is left for the end of the process.
UpdateHeaderLate ==
    /\ pc = "moved"
    /\ bytesWrittenSinceHeaderUpdate' = bytesWrittenSinceHeaderUpdate + setupBlockSize
    /\ pc' = "loop"
    /\ UNCHANGED <<setupRest, areaVars, blockVars, mutexVars, disk, lost, held, SetupResult,
                   header, faults, headerUpdateRequired>>

\* The status of this save is only asserted.
UpdateHeader ==
    LET written == bytesWrittenSinceHeaderUpdate + setupBlockSize
    IN  /\ pc = "moved"
        /\ IF written >= Threshold
           THEN /\ \E ok \in SaveOutcomes : SaveDriveVolumeHeader(ok)
                /\ headerUpdateRequired' = FALSE
                /\ bytesWrittenSinceHeaderUpdate' = 0
           ELSE /\ bytesWrittenSinceHeaderUpdate' = written
                /\ UNCHANGED <<header, faults, headerUpdateRequired>>
        /\ pc' = "loop"
        /\ UNCHANGED <<setupRest, areaVars, blockVars, mutexVars, disk, lost, held, SetupResult>>

\* Labels abort and err: the queue is resumed if it is still held.
EndSetup ==
    /\ pc = "end"
    /\ EncryptedAreaStart' = IF EncryptedAreaEnd = -1 THEN -1 ELSE EncryptedAreaStart
    /\ held' = FALSE
    /\ pc' = IF ~Encrypting /\ AreaLength = 0 THEN "clear" ELSE "save"
    /\ UNCHANGED <<setupRest, EncryptedAreaEnd, ConfiguredEncryptedAreaStart,
                   ConfiguredEncryptedAreaEnd, DriveMounted, blockVars, updateVars, mutexVars,
                   disk, lost, faults, header, SetupResult>>

\* Everything is decrypted; done under a hold of the queue.
ClearArea ==
    /\ pc = "clear"
    /\ ConfiguredEncryptedAreaStart' = -1 /\ ConfiguredEncryptedAreaEnd' = -1
    /\ EncryptedAreaStart' = -1 /\ EncryptedAreaEnd' = -1
    /\ headerUpdateRequired' = TRUE
    /\ pc' = "save"
    /\ UNCHANGED <<setupRest, DriveMounted, blockVars, bytesWrittenSinceHeaderUpdate, mutexVars,
                   disk, lost, faults, header, held, SetupResult>>

FinalSave ==
    /\ pc = "save"
    /\ IF headerUpdateRequired
       THEN \E ok \in SaveOutcomes :
               /\ SaveDriveVolumeHeader(ok)
               /\ SetupResult' = IF ok THEN SetupResult ELSE "failed"
       ELSE UNCHANGED <<header, faults, SetupResult>>
    /\ pc' = IF ~Encrypting /\ ConfiguredEncryptedAreaEnd = -1 /\ DriveMounted
             THEN "dismount" ELSE "exit"
    /\ UNCHANGED <<setupRest, areaVars, blockVars, updateVars, mutexVars, disk, lost, held>>

\* Mutant of DismountDrive: the thread waits for the mutex although it is aborted.
DismountDriveWaits ==
    /\ pc = "dismount"
    /\ RootDeviceControlMutex = "free"
    /\ RootDeviceControlMutex' = "setup"
    /\ DriveMounted' = FALSE
    /\ pc' = "dismounted"
    /\ UNCHANGED <<setupRest, EncryptedAreaStart, EncryptedAreaEnd, ConfiguredEncryptedAreaStart,
                   ConfiguredEncryptedAreaEnd, blockVars, updateVars, ioctl, disk, lost, faults,
                   header, held, SetupResult>>

\* DismountDrive: under the mutex, unless the holder of it waits for this thread.
DismountDrive ==
    /\ pc = "dismount"
    /\ RootDeviceControlMutex = "free" \/ EncryptionSetupThreadAbortRequested
    /\ RootDeviceControlMutex' =
          IF RootDeviceControlMutex = "free" THEN "setup" ELSE RootDeviceControlMutex
    /\ DriveMounted' = FALSE
    /\ pc' = "dismounted"
    /\ UNCHANGED <<setupRest, EncryptedAreaStart, EncryptedAreaEnd, ConfiguredEncryptedAreaStart,
                   ConfiguredEncryptedAreaEnd, blockVars, updateVars, ioctl, disk, lost, faults,
                   header, held, SetupResult>>

ReleaseMutex ==
    /\ pc = "dismounted"
    /\ RootDeviceControlMutex' =
          IF EncryptionSetupThreadAbortRequested THEN RootDeviceControlMutex ELSE "free"
    /\ pc' = "exit"
    /\ UNCHANGED <<setupRest, areaVars, blockVars, updateVars, ioctl, disk, lost, faults, header,
                   held, SetupResult>>

SetupExits ==
    /\ pc = "exit"
    /\ pc' = "idle"
    /\ UNCHANGED <<setupRest, areaVars, blockVars, updateVars, mutexVars, disk, lost, faults,
                   header, held, SetupResult>>

-----------------------------------------------------------------------------
(***************************************************************************)
(* The system and the machine.                                             *)
(***************************************************************************)

\* A write of the system, as EncryptedIoQueue does it.
SystemWrites(u, v) ==
    /\ ~held
    /\ disk' = [disk EXCEPT ![u] = Stored(u, v)]
    /\ content' = [content EXCEPT ![u] = v]
    /\ lost' = lost \ {u}
    /\ UNCHANGED <<areaVars, requestVars, blockVars, updateVars, mutexVars, faults, header, held,
                   pc, SetupResult, crashes>>

\* A block that has been read and is not yet on its side of the end.
InFlight(u) == pc \in {"wipe", "write", "undo", "written"} /\ InBlock(u)

\* Power is lost, the machine starts again and MountDrive takes the area from the
\* header.  Lost are the block in flight and what the header does not know.
PowerLoss ==
    /\ crashes < MaxCrashes
    /\ crashes' = crashes + 1
    /\ lost' = lost \cup {u \in Units : InFlight(u) \/ (InArea(u) # InHeaderArea(u))}
    /\ EncryptedAreaStart' = IF header.length = 0 THEN -1 ELSE VolumeStart
    /\ EncryptedAreaEnd' = IF header.length = 0 THEN -1 ELSE VolumeStart + header.length - 1
    /\ ConfiguredEncryptedAreaStart' = IF header.present THEN VolumeStart ELSE -1
    /\ ConfiguredEncryptedAreaEnd' = IF header.present THEN VolumeEnd ELSE -1
    /\ DriveMounted' = header.present
    /\ held' = FALSE /\ pc' = "idle" /\ SetupResult' = "success"
    /\ EncryptionSetupThreadAbortRequested' = FALSE
    /\ headerUpdateRequired' = FALSE /\ bytesWrittenSinceHeaderUpdate' = 0
    /\ RootDeviceControlMutex' = "free" /\ ioctl' = "idle"
    /\ UNCHANGED <<disk, content, faults, header, blockVars, SetupRequest, setups>>

-----------------------------------------------------------------------------
Control == IoctlEnters \/ StartBootEncryptionSetup \/ AbortBootEncryptionSetup \/ IoctlLeaves

BlockUnits == {u \in Units : InBlock(u)}
Failure ==
    \E some \in SUBSET BlockUnits :
        SkipUnreadable(some) \/ ReadFails(some) \/ WriteFails(some) \/ UndoFails(some)

SetupStep ==
    \/ BeginEncryption \/ BeginDecryption \/ SetupAborts \/ NextBlock \/ HoldQueue
    \/ ReadBlock \/ WipeBlock \/ WriteBlock \/ UndoWrite \/ MoveEnd \/ UpdateHeader
    \/ EndSetup \/ ClearArea \/ FinalSave \/ DismountDrive \/ ReleaseMutex \/ SetupExits

Next ==
    \/ Control \/ SetupStep \/ SetupCannotBegin \/ Failure \/ PowerLoss
    \/ \E u \in Units, v \in Values : SystemWrites(u, v)

Spec == Init /\ [][Next]_vars

(***************************************************************************)
(* The set-up thread and control requests run when they can.  This takes   *)
(* it that the drive is idle now and then, so that a hold succeeds: while  *)
(* it never is, SetupThreadProc tries again and again.  Nothing forces a   *)
(* control request, a failure or a write of the system to come.            *)
(***************************************************************************)
FairSpec == Spec /\ WF_vars(SetupStep) /\ WF_vars(IoctlLeaves)

-----------------------------------------------------------------------------
(***************************************************************************)
(* Properties.                                                             *)
(***************************************************************************)
Locations == {"idle", "begin", "loop", "hold", "read", "wipe", "write", "undo", "written", "moved",
              "end", "clear", "save", "dismount", "dismounted", "exit"}

\* Type invariant of the drive, the filter's fields and the thread's locals.
TypeOK ==
    /\ disk \in [Units -> Cells] /\ buffer \in [Units -> Cells]
    /\ content \in [Units -> Values] /\ lost \in SUBSET Units
    /\ header \in [present : BOOLEAN, length : 0 .. VolumeEnd + 1 - VolumeStart]
    /\ EncryptedAreaStart \in {-1, VolumeStart}
    /\ EncryptedAreaEnd \in {-1} \cup (VolumeStart - 1 .. VolumeEnd)
    /\ ConfiguredEncryptedAreaStart \in {-1, VolumeStart}
    /\ ConfiguredEncryptedAreaEnd \in {-1, VolumeEnd}
    /\ DriveMounted \in BOOLEAN /\ held \in BOOLEAN /\ headerUpdateRequired \in BOOLEAN
    /\ EncryptionSetupThreadAbortRequested \in BOOLEAN
    /\ pc \in Locations /\ SetupRequest \in Requests /\ SetupResult \in {"success", "failed"}
    /\ offset \in Nat /\ setupBlockSize \in Nat /\ wipePass \in Nat
    /\ bytesWrittenSinceHeaderUpdate \in Nat
    /\ RootDeviceControlMutex \in {"free", "ioctl", "setup"}
    /\ ioctl \in {"idle", "busy", "leaving", "joining"}
    /\ faults \in Nat /\ crashes \in Nat /\ setups \in Nat

\* Whenever the queue is not held, so that the system may read, every unit that no
\* failure damaged decodes, by the area of now, to what was written into it last:
\* encryption in place is transparent through blocks, aborts, failed accesses that
\* were undone, resumptions, changes of direction and restarts.
DriveTransparent == ~held => \A u \in Units \ lost : disk[u] = Stored(u, content[u])

Lag == IF AreaLength >= header.length THEN AreaLength - header.length
       ELSE header.length - AreaLength

\* What a loss of power can damage at any moment, the units that the header does not
\* know and the block in flight, is less than the update threshold and one block.
CrashDamageBounded ==
    Lag + (IF pc \in {"wipe", "write", "undo", "written"} THEN setupBlockSize ELSE 0)
        < Threshold + BlockSize

\* When the set-up thread has ended with success, the header on the drive describes
\* the encrypted area: the drive can be restarted and the process resumed.
SuccessMeansHeaderCurrent ==
    pc = "idle" /\ SetupResult = "success" =>
        \A u \in Units : InArea(u) <=> InHeaderArea(u)

\* The header is erased only when no unit of the drive is encrypted any more.
HeaderOutlivesEncryption ==
    ~header.present => \A u \in Units \ lost : disk[u].layer = 0

\* The thread never ends with the mutex of the control requests, nor while it keeps
\* the queue held, however an abort comes in between.
NothingLeftLocked == pc = "idle" => RootDeviceControlMutex # "setup" /\ ~held

\* A request to abort the process returns: the set-up thread does not wait for the
\* mutex that the aborting request holds while it waits for the thread.
AbortReturns == ioctl = "joining" ~> ioctl = "idle"

\* Once control requests cease, which keep the mutex busy that the thread polls for,
\* the set-up thread ends, also without being aborted.
SetupEnds == <>[](ioctl = "idle") => (pc # "idle" ~> pc = "idle")

(* The header on the drive: after a success it describes the area, and a power loss
   in between damages a bounded number of units (SaveDriveVolumeHeader and its
   callers). *)
HeaderTellsArea == CrashDamageBounded /\ SuccessMeansHeaderCurrent

(* The set-up thread leaves neither a held queue nor a mutex behind, nor encrypted
   units without a header. *)
SetupLeavesNothing == HeaderOutlivesEncryption /\ NothingLeftLocked

(* An abort returns and the set-up thread ends. *)
SetupLive == AbortReturns /\ SetupEnds
=============================================================================
