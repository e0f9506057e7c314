------------------------- MODULE DriveFilterProofs -------------------------
(***************************************************************************)
(* Proofs that encryption in place is transparent, that a loss of power    *)
(* damages a bounded part of the drive, and that the set-up thread leaves  *)
(* nothing locked, for drives, blocks and thresholds of any size.          *)
(***************************************************************************)
EXTENDS DriveFilter, TLAPS

-----------------------------------------------------------------------------
(***************************************************************************)
(* The inductive invariant, in parts.                                      *)
(***************************************************************************)
Window == {"wipe", "write", "undo", "written"}
Walking == {"loop", "hold", "read", "moved"} \cup Window

\* The drive is mounted, and its area configured, while the thread needs them.
MountInv ==
    /\ pc \notin {"idle", "dismounted", "exit"} => DriveMounted
    /\ \/ ConfiguredEncryptedAreaStart = VolumeStart /\ ConfiguredEncryptedAreaEnd = VolumeEnd
       \/ /\ ConfiguredEncryptedAreaStart = -1 /\ ConfiguredEncryptedAreaEnd = -1
          /\ ~DriveMounted \/ (pc \in {"save", "dismount"} /\ ~Encrypting)
    /\ pc = "clear" => ~Encrypting /\ AreaLength = 0
    /\ pc = "save" /\ ~Encrypting /\ AreaLength = 0 => ConfiguredEncryptedAreaEnd = -1

\* The queue is held from the read of a block to the move of the end.
HoldInv ==
    /\ pc \in {"read"} \cup Window => held
    /\ held => pc \in {"read", "end"} \cup Window

FirstPlain == IF EncryptedAreaEnd = -1 THEN VolumeStart ELSE EncryptedAreaEnd + 1

\* Where the thread stands: before the first plain unit, or at the last block.
PositionInv ==
    /\ pc \in Walking => EncryptedAreaStart = VolumeStart /\ (Encrypting \/ EncryptedAreaEnd # -1)
    /\ pc \in {"loop", "moved"} => offset = FirstPlain
    /\ pc \in {"hold", "read"} \cup Window =>
          IF Encrypting THEN offset = FirstPlain /\ offset + setupBlockSize <= VolumeEnd + 1
          ELSE offset >= VolumeStart /\ offset + setupBlockSize = FirstPlain

\* A unit outside the block in flight is stored as the area says; the buffer, and
\* after the write the drive, have the units of the block for the other side.
CellsInv ==
    \A u \in Units \ lost :
        /\ ~InFlight(u) => disk[u] = Stored(u, content[u])
        /\ InFlight(u) /\ pc # "written" => buffer[u] = Transform(Stored(u, content[u]))
        /\ InFlight(u) /\ pc = "written" => disk[u] = Transform(Stored(u, content[u]))

SetupInv == TypeOK /\ MountInv /\ HoldInv /\ PositionInv /\ CellsInv

\* The header lags behind the area by what was written since its last update.
Since == bytesWrittenSinceHeaderUpdate + (IF pc = "moved" THEN setupBlockSize ELSE 0)
LagInv ==
    /\ setupBlockSize <= BlockSize
    /\ bytesWrittenSinceHeaderUpdate < Threshold
    /\ pc \in {"idle", "begin", "dismount", "dismounted", "exit"} => AreaLength = header.length
    /\ pc \notin {"idle", "dismount", "dismounted", "exit"} =>
          IF Encrypting THEN AreaLength = header.length + Since ELSE header.length = AreaLength + Since
    /\ pc = "begin" => bytesWrittenSinceHeaderUpdate = 0
    /\ pc \notin {"idle", "begin", "dismount", "dismounted", "exit"} /\ ~headerUpdateRequired => Since = 0

\* Without a header nothing is encrypted, and the thread is about to end.
ErasedInv ==
    ~header.present =>
        /\ header.length = 0 /\ AreaLength = 0
        /\ pc \in {"loop", "end", "clear", "save", "dismount", "dismounted", "exit", "idle"}
        /\ IF pc = "idle" THEN ~DriveMounted ELSE ~Encrypting
        /\ pc \in {"dismounted", "exit"} => ~DriveMounted

\* Who holds the mutex of the control requests.
MutexInv ==
    /\ ioctl # "idle" <=> RootDeviceControlMutex = "ioctl"
    /\ RootDeviceControlMutex = "setup" <=> pc = "dismounted" /\ ioctl # "joining"
    /\ EncryptionSetupThreadAbortRequested /\ pc # "idle" <=> ioctl = "joining" /\ pc # "idle"

-----------------------------------------------------------------------------
(***************************************************************************)
(* Cells.                                                                  *)
(***************************************************************************)

\* Encrypting and decrypting a cell gives a cell, and each undoes the other.
LEMMA CellTransforms ==
    ASSUME NEW c \in Cells
    PROVE  /\ Transform(c) \in Cells /\ Undo(c) \in Cells
           /\ Undo(Transform(c)) = c
BY DEF Transform, Undo, Encrypt, Decrypt, Cells

\* What the queue stores is a cell.
LEMMA StoredCells ==
    ASSUME NEW u \in Units, NEW v \in AllData
    PROVE  Stored(u, v) \in Cells
BY DEF Stored, Cells

\* The length of the area fits into the header.
LEMMA AreaLengthType == TypeOK => AreaLength \in 0 .. VolumeEnd + 1 - VolumeStart
BY DriveAssumption DEF TypeOK, AreaLength

\* What is saved is a header.
LEMMA SavedHeaderType ==
    TypeOK => SavedHeader \in [present : BOOLEAN, length : 0 .. VolumeEnd + 1 - VolumeStart]
BY AreaLengthType, DriveAssumption DEF TypeOK, SavedHeader

USE DEF areaVars, requestVars, blockVars, updateVars, mutexVars, diskVars, setupRest, controlRest

-----------------------------------------------------------------------------
(***************************************************************************)
(* Every step preserves the parts of SetupInv.                             *)
(***************************************************************************)

\* The type invariant is preserved.
LEMMA TypeStep == SetupInv /\ [Next]_vars => TypeOK'
<1> SUFFICES ASSUME SetupInv, [Next]_vars
             PROVE  TypeOK'
    OBVIOUS
<1> USE DriveAssumption DEF SetupInv
<1>1. CASE UNCHANGED vars
    BY <1>1 DEF TypeOK, vars
<1>2. CASE Control
    <2>1. CASE IoctlEnters
        BY <2>1 DEF IoctlEnters, TypeOK
    <2>2. CASE StartBootEncryptionSetup
        <3>1. headerUpdateRequired' \in BOOLEAN /\ EncryptionSetupThreadAbortRequested' \in BOOLEAN
            BY <2>2 DEF StartBootEncryptionSetup, TypeOK
        <3>2. QED
            BY <2>2, <3>1 DEF StartBootEncryptionSetup, TypeOK, Locations
    <2>3. CASE AbortBootEncryptionSetup
        BY <2>3 DEF AbortBootEncryptionSetup, TypeOK
    <2>4. CASE IoctlLeaves
        BY <2>4 DEF IoctlLeaves, TypeOK
    <2>5. QED
        BY <1>2, <2>1, <2>2, <2>3, <2>4 DEF Control
<1>3. CASE SetupCannotBegin
    BY <1>3 DEF SetupCannotBegin, TypeOK, Locations
<1>4. CASE PowerLoss
    <2>1. held' \in BOOLEAN /\ headerUpdateRequired' \in BOOLEAN /\ EncryptionSetupThreadAbortRequested' \in BOOLEAN /\ DriveMounted' \in BOOLEAN
        BY <1>4 DEF PowerLoss, TypeOK
    <2>2. QED
        BY <1>4, <2>1 DEF PowerLoss, TypeOK, Locations
<1>5. ASSUME NEW u \in Units, NEW v \in Values, SystemWrites(u, v)
      PROVE  TypeOK'
    BY <1>5, StoredCells DEF SystemWrites, TypeOK, AllData
<1>6. CASE SetupStep
    <2>1. CASE BeginEncryption
        BY <2>1 DEF BeginEncryption, TypeOK, Locations, MountInv, NoArea
    <2>2. CASE BeginDecryption
        BY <2>2 DEF BeginDecryption, TypeOK, Locations
    <2>3. CASE SetupAborts
        BY <2>3 DEF SetupAborts, TypeOK, Locations
    <2>4. CASE NextBlock
        BY <2>4 DEF NextBlock, NextBlockSize, TypeOK, Locations, MountInv, PositionInv, FirstPlain,
                    Walking, Window
    <2>5. CASE HoldQueue
        BY <2>5 DEF HoldQueue, TypeOK, Locations
    <2>6. CASE ReadBlock
        BY <2>6, CellTransforms DEF ReadBlock, AfterRead, TypeOK, Locations
    <2>7. CASE WipeBlock
        BY <2>7 DEF WipeBlock, WriteCells, JunkCell, TypeOK, Locations, Cells, AllData
    <2>8. CASE WriteBlock
        BY <2>8 DEF WriteBlock, WriteCells, BufferCell, TypeOK, Locations
    <2>9. CASE UndoWrite
        BY <2>9, CellTransforms DEF UndoWrite, WriteCells, UndoneCell, TypeOK, Locations
    <2>10. CASE MoveEnd
        <3>1. held' \in BOOLEAN
            BY <2>10 DEF MoveEnd, TypeOK
        <3>2. QED
            BY <2>10, <3>1 DEF MoveEnd, TypeOK, Locations, PositionInv, FirstPlain, Walking,
               Window
    <2>11. CASE UpdateHeader
        <3>1. headerUpdateRequired' \in BOOLEAN
            BY <2>11 DEF UpdateHeader, TypeOK
        <3>2. header' \in [present : BOOLEAN, length : 0 .. VolumeEnd + 1 - VolumeStart]
            BY <2>11, SavedHeaderType DEF UpdateHeader, SaveDriveVolumeHeader, TypeOK
        <3>3. QED
            BY <2>11, <3>1, <3>2 DEF UpdateHeader, SaveDriveVolumeHeader, TypeOK, Locations
    <2>12. CASE EndSetup
        <3>1. held' \in BOOLEAN
            BY <2>12 DEF EndSetup, TypeOK
        <3>2. QED
            BY <2>12, <3>1 DEF EndSetup, TypeOK, Locations
    <2>13. CASE ClearArea
        BY <2>13 DEF ClearArea, TypeOK, Locations
    <2>14. CASE FinalSave
        <3>1. header' \in [present : BOOLEAN, length : 0 .. VolumeEnd + 1 - VolumeStart]
            BY <2>14, SavedHeaderType DEF FinalSave, SaveDriveVolumeHeader, TypeOK
        <3>2. QED
            BY <2>14, <3>1 DEF FinalSave, SaveDriveVolumeHeader, TypeOK, Locations
    <2>15. CASE DismountDrive
        <3>1. DriveMounted' \in BOOLEAN
            BY <2>15 DEF DismountDrive, TypeOK
        <3>2. QED
            BY <2>15, <3>1 DEF DismountDrive, TypeOK, Locations
    <2>16. CASE ReleaseMutex
        BY <2>16 DEF ReleaseMutex, TypeOK, Locations
    <2>17. CASE SetupExits
        BY <2>17 DEF SetupExits, TypeOK, Locations
    <2>18. QED
        BY <1>6, <2>1, <2>2, <2>3, <2>4, <2>5, <2>6, <2>7, <2>8, <2>9, <2>10, <2>11, <2>12,
           <2>13, <2>14, <2>15, <2>16, <2>17 DEF SetupStep
<1>7. ASSUME NEW some \in SUBSET BlockUnits,
             SkipUnreadable(some) \/ ReadFails(some) \/ WriteFails(some) \/ UndoFails(some)
      PROVE  TypeOK'
    <2>1. some \subseteq Units
        BY DEF BlockUnits
    <2>2. ZeroedCell \in Cells /\ \A u : JunkCell(u) \in Cells
        BY DEF ZeroedCell, JunkCell, Cells, AllData
    <2>3. CASE SkipUnreadable(some)
        BY <2>1, <2>2, <2>3, CellTransforms DEF SkipUnreadable, AfterRead, TypeOK, Locations
    <2>4. CASE ReadFails(some)
        BY <2>1, <2>2, <2>4 DEF ReadFails, TypeOK, Locations
    <2>5. CASE WriteFails(some)
        BY <2>1, <2>2, <2>5 DEF WriteFails, WriteSome, BufferCell, TypeOK, Locations
    <2>6. CASE UndoFails(some)
        BY <2>1, <2>6, CellTransforms DEF UndoFails, WriteSome, UndoneCell, TypeOK, Locations
    <2>7. QED
        BY <1>7, <2>3, <2>4, <2>5, <2>6
<1>8. QED
    BY <1>1, <1>2, <1>3, <1>4, <1>5, <1>6, <1>7 DEF Next, Failure

\* The drive stays mounted while the thread runs.
LEMMA MountStep == SetupInv /\ [Next]_vars => MountInv'
<1> SUFFICES ASSUME SetupInv, [Next]_vars
             PROVE  MountInv'
    OBVIOUS
<1> USE DriveAssumption DEF SetupInv
<1>1. CASE UNCHANGED vars
    BY <1>1 DEF vars, MountInv, TypeOK, Encrypting, AreaLength, Encrypting, NoArea, AreaLength
<1>2. CASE Control
    <2>1. CASE IoctlEnters
        BY <2>1 DEF IoctlEnters, MountInv, TypeOK, Encrypting, AreaLength
    <2>2. CASE StartBootEncryptionSetup
        BY <2>2 DEF StartBootEncryptionSetup, MountInv, TypeOK, Encrypting, AreaLength
    <2>3. CASE AbortBootEncryptionSetup
        BY <2>3 DEF AbortBootEncryptionSetup, MountInv, TypeOK, Encrypting, AreaLength
    <2>4. CASE IoctlLeaves
        BY <2>4 DEF IoctlLeaves, MountInv, TypeOK, Encrypting, AreaLength
    <2>5. QED
        BY <1>2, <2>1, <2>2, <2>3, <2>4 DEF Control
<1>3. CASE SetupCannotBegin
    BY <1>3 DEF SetupCannotBegin, MountInv, TypeOK, Encrypting, AreaLength
<1>4. CASE PowerLoss
    BY <1>4 DEF PowerLoss, MountInv, TypeOK, Encrypting, AreaLength
<1>5. ASSUME NEW u \in Units, NEW v \in Values, SystemWrites(u, v)
      PROVE  MountInv'
    BY <1>5 DEF SystemWrites, MountInv, TypeOK, Encrypting, AreaLength
<1>6. CASE SetupStep
    <2>1. CASE BeginEncryption
        BY <2>1 DEF BeginEncryption, MountInv, TypeOK, Encrypting, AreaLength
    <2>2. CASE BeginDecryption
        BY <2>2 DEF BeginDecryption, MountInv, TypeOK, Encrypting, AreaLength
    <2>3. CASE SetupAborts
        BY <2>3 DEF SetupAborts, MountInv, TypeOK, Encrypting, AreaLength
    <2>4. CASE NextBlock
        BY <2>4 DEF NextBlock, MountInv, TypeOK, Encrypting, AreaLength, NextBlockSize
    <2>5. CASE HoldQueue
        BY <2>5 DEF HoldQueue, MountInv, TypeOK, Encrypting, AreaLength
    <2>6. CASE ReadBlock
        BY <2>6 DEF ReadBlock, MountInv, TypeOK, Encrypting, AreaLength, AfterRead
    <2>7. CASE WipeBlock
        BY <2>7 DEF WipeBlock, MountInv, TypeOK, Encrypting, AreaLength
    <2>8. CASE WriteBlock
        BY <2>8 DEF WriteBlock, MountInv, TypeOK, Encrypting, AreaLength
    <2>9. CASE UndoWrite
        BY <2>9 DEF UndoWrite, MountInv, TypeOK, Encrypting, AreaLength
    <2>10. CASE MoveEnd
        BY <2>10 DEF MoveEnd, MountInv, TypeOK, Encrypting, AreaLength
    <2>11. CASE UpdateHeader
        BY <2>11 DEF UpdateHeader, MountInv, TypeOK, Encrypting, AreaLength
    <2>12. CASE EndSetup
        BY <2>12 DEF EndSetup, MountInv, TypeOK, Encrypting, AreaLength
    <2>13. CASE ClearArea
        BY <2>13 DEF ClearArea, MountInv, TypeOK, Encrypting, AreaLength
    <2>14. CASE FinalSave
        BY <2>14 DEF FinalSave, MountInv, TypeOK, Encrypting, AreaLength
    <2>15. CASE DismountDrive
        BY <2>15 DEF DismountDrive, MountInv, TypeOK, Encrypting, AreaLength
    <2>16. CASE ReleaseMutex
        BY <2>16 DEF ReleaseMutex, MountInv, TypeOK, Encrypting, AreaLength
    <2>17. CASE SetupExits
        BY <2>17 DEF SetupExits, MountInv, TypeOK, Encrypting, AreaLength
    <2>18. QED
        BY <1>6, <2>1, <2>2, <2>3, <2>4, <2>5, <2>6, <2>7, <2>8, <2>9, <2>10, <2>11, <2>12,
           <2>13, <2>14, <2>15, <2>16, <2>17 DEF SetupStep
<1>7. ASSUME NEW some \in SUBSET BlockUnits,
             SkipUnreadable(some) \/ ReadFails(some) \/ WriteFails(some) \/ UndoFails(some)
      PROVE  MountInv'
    <2>1. CASE SkipUnreadable(some)
        BY <2>1 DEF SkipUnreadable, MountInv, TypeOK, Encrypting, AreaLength, AfterRead
    <2>2. CASE ReadFails(some)
        BY <2>2 DEF ReadFails, MountInv, TypeOK, Encrypting, AreaLength
    <2>3. CASE WriteFails(some)
        BY <2>3 DEF WriteFails, MountInv, TypeOK, Encrypting, AreaLength
    <2>4. CASE UndoFails(some)
        BY <2>4 DEF UndoFails, MountInv, TypeOK, Encrypting, AreaLength
    <2>5. QED
        BY <1>7, <2>1, <2>2, <2>3, <2>4
<1>8. QED
    BY <1>1, <1>2, <1>3, <1>4, <1>5, <1>6, <1>7 DEF Next, Failure

\* The queue is held exactly around the work on a block.
LEMMA HoldStep == SetupInv /\ [Next]_vars => HoldInv'
<1> SUFFICES ASSUME SetupInv, [Next]_vars
             PROVE  HoldInv'
    OBVIOUS
<1> USE DriveAssumption DEF SetupInv
<1>1. CASE UNCHANGED vars
    BY <1>1 DEF vars, HoldInv, TypeOK, Window, Encrypting, NoArea, AreaLength
<1>2. CASE Control
    <2>1. CASE IoctlEnters
        BY <2>1 DEF IoctlEnters, HoldInv, TypeOK, Window
    <2>2. CASE StartBootEncryptionSetup
        BY <2>2 DEF StartBootEncryptionSetup, HoldInv, TypeOK, Window
    <2>3. CASE AbortBootEncryptionSetup
        BY <2>3 DEF AbortBootEncryptionSetup, HoldInv, TypeOK, Window
    <2>4. CASE IoctlLeaves
        BY <2>4 DEF IoctlLeaves, HoldInv, TypeOK, Window
    <2>5. QED
        BY <1>2, <2>1, <2>2, <2>3, <2>4 DEF Control
<1>3. CASE SetupCannotBegin
    BY <1>3 DEF SetupCannotBegin, HoldInv, TypeOK, Window
<1>4. CASE PowerLoss
    BY <1>4 DEF PowerLoss, HoldInv, TypeOK, Window
<1>5. ASSUME NEW u \in Units, NEW v \in Values, SystemWrites(u, v)
      PROVE  HoldInv'
    BY <1>5 DEF SystemWrites, HoldInv, TypeOK, Window
<1>6. CASE SetupStep
    <2>1. CASE BeginEncryption
        BY <2>1 DEF BeginEncryption, HoldInv, TypeOK, Window
    <2>2. CASE BeginDecryption
        BY <2>2 DEF BeginDecryption, HoldInv, TypeOK, Window
    <2>3. CASE SetupAborts
        BY <2>3 DEF SetupAborts, HoldInv, TypeOK, Window
    <2>4. CASE NextBlock
        BY <2>4 DEF NextBlock, HoldInv, TypeOK, Window, NextBlockSize
    <2>5. CASE HoldQueue
        BY <2>5 DEF HoldQueue, HoldInv, TypeOK, Window
    <2>6. CASE ReadBlock
        BY <2>6 DEF ReadBlock, HoldInv, TypeOK, Window, AfterRead
    <2>7. CASE WipeBlock
        BY <2>7 DEF WipeBlock, HoldInv, TypeOK, Window
    <2>8. CASE WriteBlock
        BY <2>8 DEF WriteBlock, HoldInv, TypeOK, Window
    <2>9. CASE UndoWrite
        BY <2>9 DEF UndoWrite, HoldInv, TypeOK, Window
    <2>10. CASE MoveEnd
        BY <2>10 DEF MoveEnd, HoldInv, TypeOK, Window
    <2>11. CASE UpdateHeader
        BY <2>11 DEF UpdateHeader, HoldInv, TypeOK, Window
    <2>12. CASE EndSetup
        BY <2>12 DEF EndSetup, HoldInv, TypeOK, Window
    <2>13. CASE ClearArea
        BY <2>13 DEF ClearArea, HoldInv, TypeOK, Window
    <2>14. CASE FinalSave
        BY <2>14 DEF FinalSave, HoldInv, TypeOK, Window
    <2>15. CASE DismountDrive
        BY <2>15 DEF DismountDrive, HoldInv, TypeOK, Window
    <2>16. CASE ReleaseMutex
        BY <2>16 DEF ReleaseMutex, HoldInv, TypeOK, Window
    <2>17. CASE SetupExits
        BY <2>17 DEF SetupExits, HoldInv, TypeOK, Window
    <2>18. QED
        BY <1>6, <2>1, <2>2, <2>3, <2>4, <2>5, <2>6, <2>7, <2>8, <2>9, <2>10, <2>11, <2>12,
           <2>13, <2>14, <2>15, <2>16, <2>17 DEF SetupStep
<1>7. ASSUME NEW some \in SUBSET BlockUnits,
             SkipUnreadable(some) \/ ReadFails(some) \/ WriteFails(some) \/ UndoFails(some)
      PROVE  HoldInv'
    <2>1. CASE SkipUnreadable(some)
        BY <2>1 DEF SkipUnreadable, HoldInv, TypeOK, Window, AfterRead
    <2>2. CASE ReadFails(some)
        BY <2>2 DEF ReadFails, HoldInv, TypeOK, Window
    <2>3. CASE WriteFails(some)
        BY <2>3 DEF WriteFails, HoldInv, TypeOK, Window
    <2>4. CASE UndoFails(some)
        BY <2>4 DEF UndoFails, HoldInv, TypeOK, Window
    <2>5. QED
        BY <1>7, <2>1, <2>2, <2>3, <2>4
<1>8. QED
    BY <1>1, <1>2, <1>3, <1>4, <1>5, <1>6, <1>7 DEF Next, Failure

\* The thread stays at the end of the area.
LEMMA PositionStep == SetupInv /\ [Next]_vars => PositionInv'
<1> SUFFICES ASSUME SetupInv, [Next]_vars
             PROVE  PositionInv'
    OBVIOUS
<1> USE DriveAssumption DEF SetupInv
<1>1. CASE UNCHANGED vars
    BY <1>1 DEF vars, PositionInv, TypeOK, FirstPlain, Encrypting, Walking, Window, Encrypting,
       NoArea, AreaLength
<1>2. CASE Control
    <2>1. CASE IoctlEnters
        BY <2>1 DEF IoctlEnters, PositionInv, TypeOK, FirstPlain, Encrypting, Walking, Window
    <2>2. CASE StartBootEncryptionSetup
        BY <2>2 DEF StartBootEncryptionSetup, PositionInv, TypeOK, FirstPlain, Encrypting,
           Walking, Window
    <2>3. CASE AbortBootEncryptionSetup
        BY <2>3 DEF AbortBootEncryptionSetup, PositionInv, TypeOK, FirstPlain, Encrypting,
           Walking, Window
    <2>4. CASE IoctlLeaves
        BY <2>4 DEF IoctlLeaves, PositionInv, TypeOK, FirstPlain, Encrypting, Walking, Window
    <2>5. QED
        BY <1>2, <2>1, <2>2, <2>3, <2>4 DEF Control
<1>3. CASE SetupCannotBegin
    BY <1>3 DEF SetupCannotBegin, PositionInv, TypeOK, FirstPlain, Encrypting, Walking, Window
<1>4. CASE PowerLoss
    BY <1>4 DEF PowerLoss, PositionInv, TypeOK, FirstPlain, Encrypting, Walking, Window
<1>5. ASSUME NEW u \in Units, NEW v \in Values, SystemWrites(u, v)
      PROVE  PositionInv'
    BY <1>5 DEF SystemWrites, PositionInv, TypeOK, FirstPlain, Encrypting, Walking, Window
<1>6. CASE SetupStep
    <2>1. CASE BeginEncryption
        BY <2>1 DEF BeginEncryption, PositionInv, TypeOK, FirstPlain, Encrypting, Walking,
           Window, MountInv, NoArea
    <2>2. CASE BeginDecryption
        BY <2>2 DEF BeginDecryption, PositionInv, TypeOK, FirstPlain, Encrypting, Walking,
           Window, NoArea
    <2>3. CASE SetupAborts
        BY <2>3 DEF SetupAborts, PositionInv, TypeOK, FirstPlain, Encrypting, Walking, Window
    <2>4. CASE NextBlock
        BY <2>4 DEF NextBlock, PositionInv, TypeOK, FirstPlain, Encrypting, Walking, Window,
           NextBlockSize, MountInv
    <2>5. CASE HoldQueue
        BY <2>5 DEF HoldQueue, PositionInv, TypeOK, FirstPlain, Encrypting, Walking, Window
    <2>6. CASE ReadBlock
        BY <2>6 DEF ReadBlock, PositionInv, TypeOK, FirstPlain, Encrypting, Walking, Window,
           AfterRead
    <2>7. CASE WipeBlock
        BY <2>7 DEF WipeBlock, PositionInv, TypeOK, FirstPlain, Encrypting, Walking, Window
    <2>8. CASE WriteBlock
        BY <2>8 DEF WriteBlock, PositionInv, TypeOK, FirstPlain, Encrypting, Walking, Window
    <2>9. CASE UndoWrite
        BY <2>9 DEF UndoWrite, PositionInv, TypeOK, FirstPlain, Encrypting, Walking, Window
    <2>10. CASE MoveEnd
        BY <2>10 DEF MoveEnd, PositionInv, TypeOK, FirstPlain, Encrypting, Walking, Window
    <2>11. CASE UpdateHeader
        BY <2>11 DEF UpdateHeader, PositionInv, TypeOK, FirstPlain, Encrypting, Walking, Window
    <2>12. CASE EndSetup
        BY <2>12 DEF EndSetup, PositionInv, TypeOK, FirstPlain, Encrypting, Walking, Window
    <2>13. CASE ClearArea
        BY <2>13 DEF ClearArea, PositionInv, TypeOK, FirstPlain, Encrypting, Walking, Window
    <2>14. CASE FinalSave
        BY <2>14 DEF FinalSave, PositionInv, TypeOK, FirstPlain, Encrypting, Walking, Window
    <2>15. CASE DismountDrive
        BY <2>15 DEF DismountDrive, PositionInv, TypeOK, FirstPlain, Encrypting, Walking,
           Window
    <2>16. CASE ReleaseMutex
        BY <2>16 DEF ReleaseMutex, PositionInv, TypeOK, FirstPlain, Encrypting, Walking, Window
    <2>17. CASE SetupExits
        BY <2>17 DEF SetupExits, PositionInv, TypeOK, FirstPlain, Encrypting, Walking, Window
    <2>18. QED
        BY <1>6, <2>1, <2>2, <2>3, <2>4, <2>5, <2>6, <2>7, <2>8, <2>9, <2>10, <2>11, <2>12,
           <2>13, <2>14, <2>15, <2>16, <2>17 DEF SetupStep
<1>7. ASSUME NEW some \in SUBSET BlockUnits,
             SkipUnreadable(some) \/ ReadFails(some) \/ WriteFails(some) \/ UndoFails(some)
      PROVE  PositionInv'
    <2>1. CASE SkipUnreadable(some)
        BY <2>1 DEF SkipUnreadable, PositionInv, TypeOK, FirstPlain, Encrypting, Walking,
           Window, AfterRead
    <2>2. CASE ReadFails(some)
        BY <2>2 DEF ReadFails, PositionInv, TypeOK, FirstPlain, Encrypting, Walking, Window
    <2>3. CASE WriteFails(some)
        BY <2>3 DEF WriteFails, PositionInv, TypeOK, FirstPlain, Encrypting, Walking, Window
    <2>4. CASE UndoFails(some)
        BY <2>4 DEF UndoFails, PositionInv, TypeOK, FirstPlain, Encrypting, Walking, Window
    <2>5. QED
        BY <1>7, <2>1, <2>2, <2>3, <2>4
<1>8. QED
    BY <1>1, <1>2, <1>3, <1>4, <1>5, <1>6, <1>7 DEF Next, Failure

\* Every unit is where the area, the buffer or the block in flight has it.
LEMMA CellsStep == SetupInv /\ [Next]_vars => CellsInv'
<1> SUFFICES ASSUME SetupInv, [Next]_vars
             PROVE  CellsInv'
    OBVIOUS
<1> USE DriveAssumption DEF SetupInv
<1>1. CASE UNCHANGED vars
    BY <1>1 DEF vars, CellsInv, InFlight, InBlock, Stored, InArea, Transform, Encrypting,
       Encrypting, NoArea, AreaLength
<1>2. CASE Control
    <2>1. CASE IoctlEnters
        BY <2>1 DEF IoctlEnters, CellsInv, InFlight, InBlock, Stored, InArea, Transform,
           Encrypting
    <2>2. CASE StartBootEncryptionSetup
        BY <2>2 DEF StartBootEncryptionSetup, CellsInv, InFlight, InBlock, Stored, InArea,
           Transform, Encrypting
    <2>3. CASE AbortBootEncryptionSetup
        BY <2>3 DEF AbortBootEncryptionSetup, CellsInv, InFlight, InBlock, Stored, InArea,
           Transform, Encrypting
    <2>4. CASE IoctlLeaves
        BY <2>4 DEF IoctlLeaves, CellsInv, InFlight, InBlock, Stored, InArea, Transform,
           Encrypting
    <2>5. QED
        BY <1>2, <2>1, <2>2, <2>3, <2>4 DEF Control
<1>3. CASE SetupCannotBegin
    BY <1>3 DEF SetupCannotBegin, CellsInv, InFlight, InBlock, Stored, InArea, Transform,
       Encrypting
<1>4. CASE PowerLoss
    <2>1. SUFFICES ASSUME NEW u \in Units, u \notin lost'
                   PROVE  disk[u] = Stored(u, content[u])'
        BY <1>4, <2>1 DEF PowerLoss, CellsInv, InFlight
    <2>2. ~InFlight(u) /\ (InArea(u) <=> InHeaderArea(u)) /\ u \notin lost
        BY <1>4, <2>1 DEF PowerLoss, InArea, InHeaderArea
    <2>3. InArea(u)' <=> InHeaderArea(u)
        BY <1>4 DEF PowerLoss, InArea, InHeaderArea, TypeOK, Units
    <2>4. QED
        BY <1>4, <2>2, <2>3 DEF PowerLoss, CellsInv, Stored
<1>5. ASSUME NEW u \in Units, NEW v \in Values, SystemWrites(u, v)
      PROVE  CellsInv'
    <2>1. \A w : ~InFlight(w) /\ ~InFlight(w)'
        BY <1>5 DEF SystemWrites, InFlight, HoldInv, Window
    <2>2. \A w : InArea(w)' <=> InArea(w)
        BY <1>5 DEF SystemWrites, InArea
    <2>3. \A w \in Units \ lost : disk[w] = Stored(w, content[w])
        BY <2>1 DEF CellsInv
    <2>4. ASSUME NEW w \in Units, w \notin lost'
          PROVE  disk'[w] = Stored(w, content[w])'
        <3>1. CASE w = u
            BY <1>5, <2>2, <3>1 DEF SystemWrites, Stored, TypeOK
        <3>2. CASE w # u
            BY <1>5, <2>2, <2>3, <2>4, <3>2 DEF SystemWrites, Stored, TypeOK
        <3>3. QED
            BY <3>1, <3>2
    <2>5. QED
        BY <2>1, <2>4 DEF CellsInv
<1>6. CASE SetupStep
    <2>1. CASE BeginEncryption
        BY <2>1 DEF BeginEncryption, CellsInv, InFlight, InBlock, Stored, InArea, Transform,
           Encrypting, NoArea, AreaLength, MountInv, TypeOK
    <2>2. CASE BeginDecryption
        BY <2>2 DEF BeginDecryption, CellsInv, InFlight, InBlock, Stored, InArea, Transform,
           Encrypting
    <2>3. CASE SetupAborts
        BY <2>3 DEF SetupAborts, CellsInv, InFlight, InBlock, Stored, InArea, Transform,
           Encrypting
    <2>4. CASE NextBlock
        BY <2>4 DEF NextBlock, CellsInv, InFlight, InBlock, Stored, InArea, Transform,
           Encrypting, NextBlockSize, PositionInv, FirstPlain, Walking, Window, HoldInv, TypeOK
    <2>5. CASE HoldQueue
        BY <2>5 DEF HoldQueue, CellsInv, InFlight, InBlock, Stored, InArea, Transform,
           Encrypting
    <2>6. CASE ReadBlock
        BY <2>6 DEF ReadBlock, CellsInv, InFlight, InBlock, Stored, InArea, Transform,
           Encrypting, AfterRead, PositionInv, FirstPlain, Walking, Window, HoldInv, TypeOK
    <2>7. CASE WipeBlock
        BY <2>7 DEF WipeBlock, CellsInv, InFlight, InBlock, Stored, InArea, Transform,
           Encrypting, WriteCells, JunkCell, BufferCell, UndoneCell, TypeOK
    <2>8. CASE WriteBlock
        BY <2>8 DEF WriteBlock, CellsInv, InFlight, InBlock, Stored, InArea, Transform,
           Encrypting, WriteCells, JunkCell, BufferCell, UndoneCell, TypeOK
    <2>9. CASE UndoWrite
        <3>1. SUFFICES ASSUME NEW u \in Units, u \notin lost
                       PROVE  disk'[u] = Stored(u, content[u])
            BY <2>9, <3>1 DEF UndoWrite, CellsInv, InFlight, Stored, InArea
        <3>2. CASE InBlock(u)
            <4>1. buffer[u] = Transform(Stored(u, content[u]))
                BY <2>9, <3>1, <3>2 DEF UndoWrite, CellsInv, InFlight
            <4>2. Stored(u, content[u]) \in Cells
                BY StoredCells DEF TypeOK, AllData
            <4>3. QED
                BY <2>9, <3>2, <4>1, <4>2, CellTransforms DEF UndoWrite, WriteCells, UndoneCell
        <3>3. CASE ~InBlock(u)
            BY <2>9, <3>1, <3>3 DEF UndoWrite, WriteCells, CellsInv, InFlight
        <3>4. QED
            BY <3>2, <3>3
    <2>10. CASE MoveEnd
        <3>1. \A u : ~InFlight(u)'
            BY <2>10 DEF MoveEnd, InFlight
        <3>2. ASSUME NEW u \in Units, ~InBlock(u)
              PROVE  InArea(u)' <=> InArea(u)
            BY <2>10, <3>2 DEF MoveEnd, InArea, InBlock, PositionInv, FirstPlain, Walking, Window,
                               TypeOK, Units
        <3>3. ASSUME NEW u \in Units, InBlock(u)
              PROVE  Transform(Stored(u, content[u])) = Stored(u, content[u])'
            <4>1. IF Encrypting THEN InArea(u)' /\ ~InArea(u) ELSE ~InArea(u)' /\ InArea(u)
                BY <2>10, <3>3 DEF MoveEnd, InArea, InBlock, PositionInv, FirstPlain, Walking,
                                   Window, TypeOK, Units
            <4>2. QED
                BY <2>10, <4>1 DEF MoveEnd, Stored, Transform, Encrypt, Decrypt
        <3>4. ASSUME NEW u \in Units, u \notin lost
              PROVE  disk[u] = Stored(u, content[u])'
            <4>1. CASE InBlock(u)
                BY <2>10, <3>3, <3>4, <4>1 DEF MoveEnd, CellsInv, InFlight
            <4>2. CASE ~InBlock(u)
                BY <2>10, <3>2, <3>4, <4>2 DEF MoveEnd, CellsInv, InFlight, Stored
            <4>3. QED
                BY <4>1, <4>2
        <3>5. QED
            BY <2>10, <3>1, <3>4 DEF MoveEnd, CellsInv
    <2>11. CASE UpdateHeader
        BY <2>11 DEF UpdateHeader, CellsInv, InFlight, InBlock, Stored, InArea, Transform,
           Encrypting
    <2>12. CASE EndSetup
        BY <2>12 DEF EndSetup, CellsInv, InFlight, InBlock, Stored, InArea, Transform,
           Encrypting, NoArea, AreaLength, MountInv, TypeOK
    <2>13. CASE ClearArea
        <3>1. \A u \in Units : ~InArea(u) /\ ~InArea(u)' /\ ~InFlight(u) /\ ~InFlight(u)'
            BY <2>13 DEF ClearArea, InArea, InFlight, MountInv, AreaLength, TypeOK, Units
        <3>2. QED
            BY <2>13, <3>1 DEF ClearArea, CellsInv, Stored
    <2>14. CASE FinalSave
        BY <2>14 DEF FinalSave, CellsInv, InFlight, InBlock, Stored, InArea, Transform,
           Encrypting
    <2>15. CASE DismountDrive
        BY <2>15 DEF DismountDrive, CellsInv, InFlight, InBlock, Stored, InArea, Transform,
           Encrypting
    <2>16. CASE ReleaseMutex
        BY <2>16 DEF ReleaseMutex, CellsInv, InFlight, InBlock, Stored, InArea, Transform,
           Encrypting
    <2>17. CASE SetupExits
        BY <2>17 DEF SetupExits, CellsInv, InFlight, InBlock, Stored, InArea, Transform,
           Encrypting
    <2>18. QED
        BY <1>6, <2>1, <2>2, <2>3, <2>4, <2>5, <2>6, <2>7, <2>8, <2>9, <2>10, <2>11, <2>12,
           <2>13, <2>14, <2>15, <2>16, <2>17 DEF SetupStep
<1>7. ASSUME NEW some \in SUBSET BlockUnits,
             SkipUnreadable(some) \/ ReadFails(some) \/ WriteFails(some) \/ UndoFails(some)
      PROVE  CellsInv'
    <2>1. CASE SkipUnreadable(some)
        BY <2>1 DEF SkipUnreadable, CellsInv, InFlight, InBlock, Stored, InArea, Transform,
           Encrypting, BlockUnits, WriteSome, JunkCell, BufferCell, UndoneCell, AfterRead,
           TypeOK, HoldInv, Window
    <2>2. CASE ReadFails(some)
        BY <2>2 DEF ReadFails, CellsInv, InFlight, InBlock, Stored, InArea, Transform,
           Encrypting, BlockUnits, WriteSome, JunkCell, BufferCell, UndoneCell, AfterRead,
           TypeOK, HoldInv, Window
    <2>3. CASE WriteFails(some)
        BY <2>3 DEF WriteFails, CellsInv, InFlight, InBlock, Stored, InArea, Transform,
           Encrypting, BlockUnits, WriteSome, JunkCell, BufferCell, UndoneCell, AfterRead,
           TypeOK, HoldInv, Window
    <2>4. CASE UndoFails(some)
        BY <2>4 DEF UndoFails, CellsInv, InFlight, InBlock, Stored, InArea, Transform,
           Encrypting, BlockUnits, WriteSome, JunkCell, BufferCell, UndoneCell, AfterRead,
           TypeOK, HoldInv, Window
    <2>5. QED
        BY <1>7, <2>1, <2>2, <2>3, <2>4
<1>8. QED
    BY <1>1, <1>2, <1>3, <1>4, <1>5, <1>6, <1>7 DEF Next, Failure

\* The initial states satisfy the invariant.
LEMMA SetupInit == Init => SetupInv
<1> SUFFICES ASSUME Init
             PROVE  SetupInv
    OBVIOUS
<1> USE DriveAssumption DEF Init
<1>1. PICK n \in InitialLengths :
          /\ header = [present |-> TRUE, length |-> n]
          /\ EncryptedAreaStart = IF n = 0 THEN -1 ELSE VolumeStart
          /\ EncryptedAreaEnd = IF n = 0 THEN -1 ELSE VolumeStart + n - 1
    OBVIOUS
<1>2. content \in [Units -> Values]
    OBVIOUS
<1>3. disk \in [Units -> Cells]
    BY <1>2, StoredCells DEF AllData
<1>4. TypeOK
    <2>1. /\ DriveMounted \in BOOLEAN /\ held \in BOOLEAN /\ headerUpdateRequired \in BOOLEAN
          /\ EncryptionSetupThreadAbortRequested \in BOOLEAN
        OBVIOUS
    <2>2. /\ header \in [present : BOOLEAN, length : 0 .. VolumeEnd + 1 - VolumeStart]
          /\ EncryptedAreaStart \in {-1, VolumeStart}
          /\ EncryptedAreaEnd \in {-1} \cup (VolumeStart - 1 .. VolumeEnd)
        BY <1>1
    <2>3. QED
        BY <1>2, <1>3, <2>1, <2>2 DEF TypeOK, Locations
<1>5. MountInv /\ HoldInv /\ PositionInv
    BY DEF MountInv, HoldInv, PositionInv, Walking, Window
<1>6. CellsInv
    BY DEF CellsInv, InFlight
<1>7. QED
    BY <1>4, <1>5, <1>6 DEF SetupInv

\* Every reachable state satisfies the invariant.
THEOREM SetupInvariance == Spec => []SetupInv
<1>1. SetupInv /\ [Next]_vars => SetupInv'
    BY TypeStep, MountStep, HoldStep, PositionStep, CellsStep DEF SetupInv
<1>2. QED
    BY <1>1, SetupInit, PTL DEF Spec

\* Type correctness.
THEOREM TypeCorrect == Spec => []TypeOK
BY SetupInvariance, PTL DEF SetupInv

\* Encryption in place is transparent: whenever the queue is not held, every unit
\* that no failure damaged decodes to what was written into it last.
THEOREM Transparent == Spec => []DriveTransparent
<1>1. SetupInv => DriveTransparent
    BY DEF SetupInv, HoldInv, CellsInv, InFlight, Window, DriveTransparent
<1>2. QED
    BY <1>1, SetupInvariance, PTL

-----------------------------------------------------------------------------
(***************************************************************************)
(* The mutex of the control requests.                                      *)
(***************************************************************************)

\* The set-up thread has the mutex only while it dismounts the drive.
LEMMA MutexStep == SetupInv /\ MutexInv /\ [Next]_vars => MutexInv'
<1> SUFFICES ASSUME SetupInv, MutexInv, [Next]_vars
             PROVE  MutexInv'
    OBVIOUS
<1> USE DriveAssumption DEF SetupInv
<1>1. CASE UNCHANGED vars
    BY <1>1 DEF vars, MutexInv, TypeOK, Locations, Encrypting, NoArea, AreaLength
<1>2. CASE Control
    <2>1. CASE IoctlEnters
        BY <2>1 DEF IoctlEnters, MutexInv, TypeOK, Locations
    <2>2. CASE StartBootEncryptionSetup
        BY <2>2 DEF StartBootEncryptionSetup, MutexInv, TypeOK, Locations
    <2>3. CASE AbortBootEncryptionSetup
        BY <2>3 DEF AbortBootEncryptionSetup, MutexInv, TypeOK, Locations
    <2>4. CASE IoctlLeaves
        BY <2>4 DEF IoctlLeaves, MutexInv, TypeOK, Locations
    <2>5. QED
        BY <1>2, <2>1, <2>2, <2>3, <2>4 DEF Control
<1>3. CASE SetupCannotBegin
    BY <1>3 DEF SetupCannotBegin, MutexInv, TypeOK, Locations
<1>4. CASE PowerLoss
    BY <1>4 DEF PowerLoss, MutexInv, TypeOK, Locations
<1>5. ASSUME NEW u \in Units, NEW v \in Values, SystemWrites(u, v)
      PROVE  MutexInv'
    BY <1>5 DEF SystemWrites, MutexInv, TypeOK, Locations
<1>6. CASE SetupStep
    <2>1. CASE BeginEncryption
        BY <2>1 DEF BeginEncryption, MutexInv, TypeOK, Locations
    <2>2. CASE BeginDecryption
        BY <2>2 DEF BeginDecryption, MutexInv, TypeOK, Locations
    <2>3. CASE SetupAborts
        BY <2>3 DEF SetupAborts, MutexInv, TypeOK, Locations
    <2>4. CASE NextBlock
        BY <2>4 DEF NextBlock, MutexInv, TypeOK, Locations, NextBlockSize
    <2>5. CASE HoldQueue
        BY <2>5 DEF HoldQueue, MutexInv, TypeOK, Locations
    <2>6. CASE ReadBlock
        BY <2>6 DEF ReadBlock, MutexInv, TypeOK, Locations, AfterRead
    <2>7. CASE WipeBlock
        BY <2>7 DEF WipeBlock, MutexInv, TypeOK, Locations
    <2>8. CASE WriteBlock
        BY <2>8 DEF WriteBlock, MutexInv, TypeOK, Locations
    <2>9. CASE UndoWrite
        BY <2>9 DEF UndoWrite, MutexInv, TypeOK, Locations
    <2>10. CASE MoveEnd
        BY <2>10 DEF MoveEnd, MutexInv, TypeOK, Locations
    <2>11. CASE UpdateHeader
        BY <2>11 DEF UpdateHeader, MutexInv, TypeOK, Locations
    <2>12. CASE EndSetup
        BY <2>12 DEF EndSetup, MutexInv, TypeOK, Locations
    <2>13. CASE ClearArea
        BY <2>13 DEF ClearArea, MutexInv, TypeOK, Locations
    <2>14. CASE FinalSave
        BY <2>14 DEF FinalSave, MutexInv, TypeOK, Locations
    <2>15. CASE DismountDrive
        BY <2>15 DEF DismountDrive, MutexInv, TypeOK, Locations
    <2>16. CASE ReleaseMutex
        BY <2>16 DEF ReleaseMutex, MutexInv, TypeOK, Locations
    <2>17. CASE SetupExits
        BY <2>17 DEF SetupExits, MutexInv, TypeOK, Locations
    <2>18. QED
        BY <1>6, <2>1, <2>2, <2>3, <2>4, <2>5, <2>6, <2>7, <2>8, <2>9, <2>10, <2>11, <2>12,
           <2>13, <2>14, <2>15, <2>16, <2>17 DEF SetupStep
<1>7. ASSUME NEW some \in SUBSET BlockUnits,
             SkipUnreadable(some) \/ ReadFails(some) \/ WriteFails(some) \/ UndoFails(some)
      PROVE  MutexInv'
    <2>1. CASE SkipUnreadable(some)
        BY <2>1 DEF SkipUnreadable, MutexInv, TypeOK, Locations, AfterRead
    <2>2. CASE ReadFails(some)
        BY <2>2 DEF ReadFails, MutexInv, TypeOK, Locations
    <2>3. CASE WriteFails(some)
        BY <2>3 DEF WriteFails, MutexInv, TypeOK, Locations
    <2>4. CASE UndoFails(some)
        BY <2>4 DEF UndoFails, MutexInv, TypeOK, Locations
    <2>5. QED
        BY <1>7, <2>1, <2>2, <2>3, <2>4
<1>8. QED
    BY <1>1, <1>2, <1>3, <1>4, <1>5, <1>6, <1>7 DEF Next, Failure

\* The set-up thread never ends with the mutex or a held queue.
THEOREM NothingLocked == Spec => []NothingLeftLocked
<1>1. Init => MutexInv
    BY DEF Init, MutexInv
<1>2. SetupInv /\ MutexInv => NothingLeftLocked
    BY DEF SetupInv, MutexInv, HoldInv, Window, NothingLeftLocked
<1>3. QED
    BY <1>1, <1>2, SetupInvariance, MutexStep, PTL DEF Spec

-----------------------------------------------------------------------------
(***************************************************************************)
(* The header.                                                             *)
(***************************************************************************)

\* The header is erased at the end of a decryption only.
LEMMA ErasedStep == SetupInv /\ ErasedInv /\ [Next]_vars => ErasedInv'
<1> SUFFICES ASSUME SetupInv, ErasedInv, [Next]_vars
             PROVE  ErasedInv'
    OBVIOUS
<1> USE DriveAssumption DEF SetupInv
<1>1. CASE UNCHANGED vars
    BY <1>1 DEF vars, ErasedInv, MountInv, PositionInv, FirstPlain, Walking, Window, TypeOK,
       AreaLength, Encrypting, Encrypting, NoArea, AreaLength
<1>2. CASE Control
    <2>1. CASE IoctlEnters
        BY <2>1 DEF IoctlEnters, ErasedInv, MountInv, PositionInv, FirstPlain, Walking, Window,
           TypeOK, AreaLength, Encrypting
    <2>2. CASE StartBootEncryptionSetup
        BY <2>2 DEF StartBootEncryptionSetup, ErasedInv, MountInv, PositionInv, FirstPlain,
           Walking, Window, TypeOK, AreaLength, Encrypting
    <2>3. CASE AbortBootEncryptionSetup
        BY <2>3 DEF AbortBootEncryptionSetup, ErasedInv, MountInv, PositionInv, FirstPlain,
           Walking, Window, TypeOK, AreaLength, Encrypting
    <2>4. CASE IoctlLeaves
        BY <2>4 DEF IoctlLeaves, ErasedInv, MountInv, PositionInv, FirstPlain, Walking, Window,
           TypeOK, AreaLength, Encrypting
    <2>5. QED
        BY <1>2, <2>1, <2>2, <2>3, <2>4 DEF Control
<1>3. CASE SetupCannotBegin
    BY <1>3 DEF SetupCannotBegin, ErasedInv, MountInv, PositionInv, FirstPlain, Walking,
       Window, TypeOK, AreaLength, Encrypting
<1>4. CASE PowerLoss
    BY <1>4 DEF PowerLoss, ErasedInv, MountInv, PositionInv, FirstPlain, Walking, Window,
       TypeOK, AreaLength, Encrypting
<1>5. ASSUME NEW u \in Units, NEW v \in Values, SystemWrites(u, v)
      PROVE  ErasedInv'
    BY <1>5 DEF SystemWrites, ErasedInv, MountInv, PositionInv, FirstPlain, Walking, Window,
       TypeOK, AreaLength, Encrypting
<1>6. CASE SetupStep
    <2>1. CASE BeginEncryption
        BY <2>1 DEF BeginEncryption, ErasedInv, MountInv, PositionInv, FirstPlain, Walking,
           Window, TypeOK, AreaLength, Encrypting, NoArea
    <2>2. CASE BeginDecryption
        BY <2>2 DEF BeginDecryption, ErasedInv, MountInv, PositionInv, FirstPlain, Walking,
           Window, TypeOK, AreaLength, Encrypting, NoArea
    <2>3. CASE SetupAborts
        BY <2>3 DEF SetupAborts, ErasedInv, MountInv, PositionInv, FirstPlain, Walking, Window,
           TypeOK, AreaLength, Encrypting
    <2>4. CASE NextBlock
        BY <2>4 DEF NextBlock, ErasedInv, MountInv, PositionInv, FirstPlain, Walking, Window,
           TypeOK, AreaLength, Encrypting, NextBlockSize
    <2>5. CASE HoldQueue
        BY <2>5 DEF HoldQueue, ErasedInv, MountInv, PositionInv, FirstPlain, Walking, Window,
           TypeOK, AreaLength, Encrypting
    <2>6. CASE ReadBlock
        BY <2>6 DEF ReadBlock, ErasedInv, MountInv, PositionInv, FirstPlain, Walking, Window,
           TypeOK, AreaLength, Encrypting, AfterRead
    <2>7. CASE WipeBlock
        BY <2>7 DEF WipeBlock, ErasedInv, MountInv, PositionInv, FirstPlain, Walking, Window,
           TypeOK, AreaLength, Encrypting
    <2>8. CASE WriteBlock
        BY <2>8 DEF WriteBlock, ErasedInv, MountInv, PositionInv, FirstPlain, Walking, Window,
           TypeOK, AreaLength, Encrypting
    <2>9. CASE UndoWrite
        BY <2>9 DEF UndoWrite, ErasedInv, MountInv, PositionInv, FirstPlain, Walking, Window,
           TypeOK, AreaLength, Encrypting
    <2>10. CASE MoveEnd
        BY <2>10 DEF MoveEnd, ErasedInv, MountInv, PositionInv, FirstPlain, Walking, Window,
           TypeOK, AreaLength, Encrypting
    <2>11. CASE UpdateHeader
        BY <2>11 DEF UpdateHeader, ErasedInv, MountInv, PositionInv, FirstPlain, Walking,
           Window, TypeOK, AreaLength, Encrypting, SaveDriveVolumeHeader, SavedHeader
    <2>12. CASE EndSetup
        BY <2>12 DEF EndSetup, ErasedInv, MountInv, PositionInv, FirstPlain, Walking, Window,
           TypeOK, AreaLength, Encrypting
    <2>13. CASE ClearArea
        BY <2>13 DEF ClearArea, ErasedInv, MountInv, PositionInv, FirstPlain, Walking, Window,
           TypeOK, AreaLength, Encrypting
    <2>14. CASE FinalSave
        BY <2>14 DEF FinalSave, ErasedInv, MountInv, PositionInv, FirstPlain, Walking, Window,
           TypeOK, AreaLength, Encrypting, SaveDriveVolumeHeader, SavedHeader
    <2>15. CASE DismountDrive
        BY <2>15 DEF DismountDrive, ErasedInv, MountInv, PositionInv, FirstPlain, Walking,
           Window, TypeOK, AreaLength, Encrypting
    <2>16. CASE ReleaseMutex
        BY <2>16 DEF ReleaseMutex, ErasedInv, MountInv, PositionInv, FirstPlain, Walking,
           Window, TypeOK, AreaLength, Encrypting
    <2>17. CASE SetupExits
        BY <2>17 DEF SetupExits, ErasedInv, MountInv, PositionInv, FirstPlain, Walking, Window,
           TypeOK, AreaLength, Encrypting
    <2>18. QED
        BY <1>6, <2>1, <2>2, <2>3, <2>4, <2>5, <2>6, <2>7, <2>8, <2>9, <2>10, <2>11, <2>12,
           <2>13, <2>14, <2>15, <2>16, <2>17 DEF SetupStep
<1>7. ASSUME NEW some \in SUBSET BlockUnits,
             SkipUnreadable(some) \/ ReadFails(some) \/ WriteFails(some) \/ UndoFails(some)
      PROVE  ErasedInv'
    <2>1. CASE SkipUnreadable(some)
        BY <2>1 DEF SkipUnreadable, ErasedInv, MountInv, PositionInv, FirstPlain, Walking,
           Window, TypeOK, AreaLength, Encrypting, AfterRead
    <2>2. CASE ReadFails(some)
        BY <2>2 DEF ReadFails, ErasedInv, MountInv, PositionInv, FirstPlain, Walking, Window,
           TypeOK, AreaLength, Encrypting
    <2>3. CASE WriteFails(some)
        BY <2>3 DEF WriteFails, ErasedInv, MountInv, PositionInv, FirstPlain, Walking, Window,
           TypeOK, AreaLength, Encrypting
    <2>4. CASE UndoFails(some)
        BY <2>4 DEF UndoFails, ErasedInv, MountInv, PositionInv, FirstPlain, Walking, Window,
           TypeOK, AreaLength, Encrypting
    <2>5. QED
        BY <1>7, <2>1, <2>2, <2>3, <2>4
<1>8. QED
    BY <1>1, <1>2, <1>3, <1>4, <1>5, <1>6, <1>7 DEF Next, Failure

\* Until nothing is encrypted, the drive has its header.
THEOREM HeaderKept == Spec => []HeaderOutlivesEncryption
<1>1. Init => ErasedInv
    BY DEF Init, ErasedInv
<1>2. SetupInv /\ ErasedInv => HeaderOutlivesEncryption
    <2> SUFFICES ASSUME SetupInv, ErasedInv, ~header.present, NEW u \in Units, u \notin lost
                 PROVE  disk[u].layer = 0
        BY DEF HeaderOutlivesEncryption
    <2>1. ~InArea(u)
        BY DriveAssumption DEF SetupInv, TypeOK, ErasedInv, AreaLength, InArea, Units
    <2>2. disk[u] = Stored(u, content[u])
        BY DEF SetupInv, CellsInv, ErasedInv, InFlight
    <2>3. QED
        BY <2>1, <2>2 DEF Stored
<1>3. QED
    BY <1>1, <1>2, SetupInvariance, ErasedStep, PTL DEF Spec

\* A header that was saved has the length of the area.
LEMMA SavedLength ==
    ASSUME TypeOK, LagInv, pc \in {"moved", "save"}
    PROVE  SavedHeader.length = AreaLength
<1>1. AreaLength \in Nat /\ header.length \in Nat /\ Since \in Nat
    BY AreaLengthType, DriveAssumption DEF TypeOK, Since
<1>2. CASE AreaLength > 0
    BY <1>2 DEF SavedHeader
<1>3. CASE AreaLength = 0
    BY <1>1, <1>3 DEF SavedHeader, LagInv
<1>4. QED
    BY <1>1, <1>2, <1>3

\* The header lags behind by what was written since it was saved.
LEMMA LagStep == SetupInv /\ HeaderFaults = FALSE /\ LagInv /\ [Next]_vars => LagInv'
<1> SUFFICES ASSUME SetupInv, HeaderFaults = FALSE, LagInv, [Next]_vars
             PROVE  LagInv'
    OBVIOUS
<1> USE DriveAssumption DEF SetupInv
<1>1. CASE UNCHANGED vars
    BY <1>1 DEF vars, LagInv, MountInv, PositionInv, FirstPlain, Walking, Window, TypeOK,
       AreaLength, Encrypting, Since, Encrypting, NoArea, AreaLength
<1>2. CASE Control
    <2>1. CASE IoctlEnters
        BY <2>1 DEF IoctlEnters, LagInv, MountInv, PositionInv, FirstPlain, Walking, Window,
           TypeOK, AreaLength, Encrypting, Since
    <2>2. CASE StartBootEncryptionSetup
        BY <2>2 DEF StartBootEncryptionSetup, LagInv, MountInv, PositionInv, FirstPlain,
           Walking, Window, TypeOK, AreaLength, Encrypting, Since
    <2>3. CASE AbortBootEncryptionSetup
        BY <2>3 DEF AbortBootEncryptionSetup, LagInv, MountInv, PositionInv, FirstPlain,
           Walking, Window, TypeOK, AreaLength, Encrypting, Since
    <2>4. CASE IoctlLeaves
        BY <2>4 DEF IoctlLeaves, LagInv, MountInv, PositionInv, FirstPlain, Walking, Window,
           TypeOK, AreaLength, Encrypting, Since
    <2>5. QED
        BY <1>2, <2>1, <2>2, <2>3, <2>4 DEF Control
<1>3. CASE SetupCannotBegin
    BY <1>3 DEF SetupCannotBegin, LagInv, MountInv, PositionInv, FirstPlain, Walking, Window,
       TypeOK, AreaLength, Encrypting, Since
<1>4. CASE PowerLoss
    BY <1>4 DEF PowerLoss, LagInv, MountInv, PositionInv, FirstPlain, Walking, Window, TypeOK,
       AreaLength, Encrypting, Since
<1>5. ASSUME NEW u \in Units, NEW v \in Values, SystemWrites(u, v)
      PROVE  LagInv'
    BY <1>5 DEF SystemWrites, LagInv, MountInv, PositionInv, FirstPlain, Walking, Window,
       TypeOK, AreaLength, Encrypting, Since
<1>6. CASE SetupStep
    <2>1. CASE BeginEncryption
        BY <2>1 DEF BeginEncryption, LagInv, MountInv, PositionInv, FirstPlain, Walking,
           Window, TypeOK, AreaLength, Encrypting, Since, NoArea
    <2>2. CASE BeginDecryption
        BY <2>2 DEF BeginDecryption, LagInv, MountInv, PositionInv, FirstPlain, Walking,
           Window, TypeOK, AreaLength, Encrypting, Since, NoArea
    <2>3. CASE SetupAborts
        BY <2>3 DEF SetupAborts, LagInv, MountInv, PositionInv, FirstPlain, Walking, Window,
           TypeOK, AreaLength, Encrypting, Since
    <2>4. CASE NextBlock
        BY <2>4 DEF NextBlock, LagInv, MountInv, PositionInv, FirstPlain, Walking, Window,
           TypeOK, AreaLength, Encrypting, Since, NextBlockSize
    <2>5. CASE HoldQueue
        BY <2>5 DEF HoldQueue, LagInv, MountInv, PositionInv, FirstPlain, Walking, Window,
           TypeOK, AreaLength, Encrypting, Since
    <2>6. CASE ReadBlock
        BY <2>6 DEF ReadBlock, LagInv, MountInv, PositionInv, FirstPlain, Walking, Window,
           TypeOK, AreaLength, Encrypting, Since, AfterRead
    <2>7. CASE WipeBlock
        BY <2>7 DEF WipeBlock, LagInv, MountInv, PositionInv, FirstPlain, Walking, Window,
           TypeOK, AreaLength, Encrypting, Since
    <2>8. CASE WriteBlock
        BY <2>8 DEF WriteBlock, LagInv, MountInv, PositionInv, FirstPlain, Walking, Window,
           TypeOK, AreaLength, Encrypting, Since
    <2>9. CASE UndoWrite
        BY <2>9 DEF UndoWrite, LagInv, MountInv, PositionInv, FirstPlain, Walking, Window,
           TypeOK, AreaLength, Encrypting, Since
    <2>10. CASE MoveEnd
        BY <2>10 DEF MoveEnd, LagInv, MountInv, PositionInv, FirstPlain, Walking, Window,
           TypeOK, AreaLength, Encrypting, Since
    <2>11. CASE UpdateHeader
        <3>1. /\ AreaLength \in Nat /\ AreaLength' = AreaLength /\ Encrypting' = Encrypting
              /\ pc' = "loop" /\ setupBlockSize' = setupBlockSize /\ header.length \in Nat
            BY <2>11, AreaLengthType DEF UpdateHeader, AreaLength, Encrypting, TypeOK
        <3>2. CASE bytesWrittenSinceHeaderUpdate + setupBlockSize >= Threshold
            <4>1. header' = SavedHeader /\ bytesWrittenSinceHeaderUpdate' = 0
                BY <2>11, <3>2 DEF UpdateHeader, SaveOutcomes, SaveDriveVolumeHeader
            <4>2. header'.length = AreaLength
                BY <2>11, <4>1, SavedLength DEF UpdateHeader
            <4>3. QED
                BY <3>1, <4>1, <4>2 DEF LagInv, Since
        <3>3. CASE ~(bytesWrittenSinceHeaderUpdate + setupBlockSize >= Threshold)
            <4>1. /\ bytesWrittenSinceHeaderUpdate' = bytesWrittenSinceHeaderUpdate + setupBlockSize
                  /\ UNCHANGED <<header, headerUpdateRequired>> /\ pc = "moved"
                BY <2>11, <3>3 DEF UpdateHeader
            <4>2. QED
                BY <3>1, <3>3, <4>1 DEF LagInv, Since, TypeOK
        <3>4. QED
            BY <3>2, <3>3
    <2>12. CASE EndSetup
        BY <2>12 DEF EndSetup, LagInv, MountInv, PositionInv, FirstPlain, Walking, Window,
           TypeOK, AreaLength, Encrypting, Since
    <2>13. CASE ClearArea
        BY <2>13 DEF ClearArea, LagInv, MountInv, PositionInv, FirstPlain, Walking, Window,
           TypeOK, AreaLength, Encrypting, Since
    <2>14. CASE FinalSave
        <3>1. /\ AreaLength \in Nat /\ AreaLength' = AreaLength /\ header.length \in Nat
              /\ pc' \in {"dismount", "exit"} /\ pc = "save"
            BY <2>14, AreaLengthType DEF FinalSave, AreaLength, TypeOK
        <3>2. header'.length = AreaLength
            <4>1. CASE headerUpdateRequired
                BY <2>14, <3>1, <4>1, SavedLength DEF FinalSave, SaveOutcomes, SaveDriveVolumeHeader
            <4>2. CASE ~headerUpdateRequired
                BY <2>14, <3>1, <4>2 DEF FinalSave, LagInv, Since, TypeOK
            <4>3. QED
                BY <4>1, <4>2
        <3>3. QED
            BY <2>14, <3>1, <3>2 DEF FinalSave, LagInv, Since
    <2>15. CASE DismountDrive
        BY <2>15 DEF DismountDrive, LagInv, MountInv, PositionInv, FirstPlain, Walking, Window,
           TypeOK, AreaLength, Encrypting, Since
    <2>16. CASE ReleaseMutex
        BY <2>16 DEF ReleaseMutex, LagInv, MountInv, PositionInv, FirstPlain, Walking, Window,
           TypeOK, AreaLength, Encrypting, Since
    <2>17. CASE SetupExits
        BY <2>17 DEF SetupExits, LagInv, MountInv, PositionInv, FirstPlain, Walking, Window,
           TypeOK, AreaLength, Encrypting, Since
    <2>18. QED
        BY <1>6, <2>1, <2>2, <2>3, <2>4, <2>5, <2>6, <2>7, <2>8, <2>9, <2>10, <2>11, <2>12,
           <2>13, <2>14, <2>15, <2>16, <2>17 DEF SetupStep
<1>7. ASSUME NEW some \in SUBSET BlockUnits,
             SkipUnreadable(some) \/ ReadFails(some) \/ WriteFails(some) \/ UndoFails(some)
      PROVE  LagInv'
    <2>1. CASE SkipUnreadable(some)
        BY <2>1 DEF SkipUnreadable, LagInv, MountInv, PositionInv, FirstPlain, Walking, Window,
           TypeOK, AreaLength, Encrypting, Since, AfterRead
    <2>2. CASE ReadFails(some)
        BY <2>2 DEF ReadFails, LagInv, MountInv, PositionInv, FirstPlain, Walking, Window,
           TypeOK, AreaLength, Encrypting, Since
    <2>3. CASE WriteFails(some)
        BY <2>3 DEF WriteFails, LagInv, MountInv, PositionInv, FirstPlain, Walking, Window,
           TypeOK, AreaLength, Encrypting, Since
    <2>4. CASE UndoFails(some)
        BY <2>4 DEF UndoFails, LagInv, MountInv, PositionInv, FirstPlain, Walking, Window,
           TypeOK, AreaLength, Encrypting, Since
    <2>5. QED
        BY <1>7, <2>1, <2>2, <2>3, <2>4
<1>8. QED
    BY <1>1, <1>2, <1>3, <1>4, <1>5, <1>6, <1>7 DEF Next, Failure

\* As long as the header can be written, a loss of power damages fewer units than
\* the update threshold and one block.
THEOREM CrashDamage ==
    ASSUME HeaderFaults = FALSE
    PROVE  Spec => []CrashDamageBounded
<1>1. Init => LagInv
    BY DriveAssumption DEF Init, LagInv, AreaLength, Since
<1>2. SetupInv /\ LagInv => CrashDamageBounded
    BY DriveAssumption DEF SetupInv, TypeOK, LagInv, Since, Lag, AreaLength, CrashDamageBounded
<1>3. SetupInv /\ LagInv /\ [Next]_vars => LagInv'
    BY LagStep
<1>4. QED
    BY <1>1, <1>2, <1>3, SetupInvariance, PTL DEF Spec

\* As long as the header can be written, it describes the encrypted area whenever
\* the set-up thread has ended.
THEOREM HeaderCurrent ==
    ASSUME HeaderFaults = FALSE
    PROVE  Spec => []SuccessMeansHeaderCurrent
<1>1. Init => LagInv
    BY DriveAssumption DEF Init, LagInv, AreaLength, Since
<1>2. SetupInv /\ LagInv => SuccessMeansHeaderCurrent
    BY DriveAssumption DEF SetupInv, TypeOK, LagInv, AreaLength, InArea, InHeaderArea, Units,
                           SuccessMeansHeaderCurrent
<1>3. SetupInv /\ LagInv /\ [Next]_vars => LagInv'
    BY LagStep
<1>4. QED
    BY <1>1, <1>2, <1>3, SetupInvariance, PTL DEF Spec
\* The set-up thread leaves nothing locked, and no encrypted unit without a header.
THEOREM LeavesNothing == Spec => []SetupLeavesNothing
BY NothingLocked, HeaderKept, PTL DEF SetupLeavesNothing

\* As long as the header can be written, it tells the area: exactly after a success,
\* and up to the threshold and one block after a loss of power.
THEOREM HeaderTells ==
    ASSUME HeaderFaults = FALSE
    PROVE  Spec => []HeaderTellsArea
<1>1. Spec => []CrashDamageBounded
    BY CrashDamage
<1>2. Spec => []SuccessMeansHeaderCurrent
    BY HeaderCurrent
<1>3. QED
    BY <1>1, <1>2, PTL DEF HeaderTellsArea
=============================================================================
