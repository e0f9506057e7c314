--------------------------- MODULE InPlaceProofs ---------------------------
(***************************************************************************)
(* That the encryption of a partition with data loses nothing without a    *)
(* crash, and what a crash can lose, for partitions, header areas, chunks  *)
(* and update intervals of any size.                                       *)
(*                                                                         *)
(* While the thread runs, what it has in memory counts: a unit is sound    *)
(* when it is encrypted in its new place, or in the chunk, or still where  *)
(* it was.  No step makes a sound unit unsound, except zeroing a unit that *)
(* cannot be read.  When the thread stops with a header that is not up to  *)
(* date, the units between the positions of the header and of the thread   *)
(* are judged by the wrong copy: there are fewer than an update interval   *)
(* and a chunk of them, and the copies in the last HeadUnits units have    *)
(* not been overwritten yet.                                               *)
(***************************************************************************)
EXTENDS InPlaceEncryption, FiniteSetTheorems, TLAPS

Working == {"loop", "wipe", "write", "update", "next", "last", "finalize", "closing"}
Chunked == ipc \in {"wipe", "write"}
Cells == {"plain", "concealed", "cipher", "noise"} \X (PartData \cup {0})
InPlainText(u) == part[u] \in {Plain(u), Concealed(u)}

(* The positions of the thread and of the backup header. *)
Positions ==
    /\ ITypeOK
    /\ ipc \in {"idle", "backup", "conceal", "settings", "resume"} \cup Working
    /\ zeroed \subseteq PartData /\ staleUpdates \in Nat /\ partCrashes \in Nat
    /\ primaryHdr \in BOOLEAN /\ paused \in BOOLEAN /\ areaChanged \in BOOLEAN /\ openResume \in BOOLEAN
    /\ ipc \notin {"idle", "backup"} => backupHdr # 0
    /\ ipc \in Working => /\ encStart <= backupHdr /\ sinceUpdate = backupHdr - encStart
                          /\ ~areaChanged => encStart = backupHdr
                          /\ sinceUpdate < UpdateUnits + ChunkUnits
    /\ ipc \in {"loop", "wipe", "write", "next", "last"} => sinceUpdate < UpdateUnits
    /\ Chunked => Remaining > 0
    /\ ipc = "finalize" => encStart = backupHdr
    /\ ipc \in {"last", "finalize"} /\ ~paused => encStart = HeadUnits
    /\ primaryHdr => /\ backupHdr = HeadUnits /\ ipc \in {"idle", "closing"}
                     /\ ipc = "closing" => encStart = HeadUnits

(* Only the first unit is ever concealed, and behind the position of the header and of
   the thread there is no unit in its old place. *)
Contents ==
    /\ \A r \in Raw : part[r] = Concealed(r) => r = 0
    /\ backupHdr # 0 => \A r \in Raw : r >= backupHdr => ~InPlainText(r)
    /\ ipc \in Working => \A r \in Raw : r >= encStart => ~InPlainText(r)
    /\ Chunked => /\ chunk \in [0 .. WorkChunk - 1 -> Cells]
                  /\ \A i \in 0 .. WorkChunk - 1 : chunk[i] = Concealed(ReadAt + i) => ReadAt + i = 0

Sound(u) ==
    IF u >= encStart - HeadUnits THEN part[u + HeadUnits] = Cipher(u)
    ELSE IF Chunked /\ u >= ReadAt THEN chunk[u - ReadAt] = Plain(u)
    ELSE InPlainText(u)
Lost == {u \in PartData \ zeroed : ~Sound(u)}

(* Below this unit nothing was overwritten since the header was written. *)
Kept == IF Chunked THEN WriteAt ELSE encStart
OldCopies ==
    \A u \in PartData \ zeroed :
        Sound(u) /\ u + HeadUnits < backupHdr /\ u < Kept => InPlainText(u)

LossLimit == (partCrashes + staleUpdates) * (UpdateUnits + ChunkUnits - 1 - HeadUnits)

(* What is lost, as long as no partition was resumed whose file system is not concealed. *)
Losses ==
    /\ part[0] = Plain(0) => /\ backupHdr \in {0, AreaLimit} /\ ipc \in {"idle", "backup", "conceal"}
                             /\ \A u \in PartData : part[u] = Plain(u)
    /\ ipc \in {"backup", "conceal"} => part[0] = Plain(0)
    /\ ipc \notin Working => Cardinality(Damaged) <= LossLimit
    /\ ipc \in Working => Cardinality(Lost) <= LossLimit
    /\ ipc \in Working => OldCopies \/ (ipc = "closing" /\ sinceUpdate < UpdateUnits)

InPlaceInv == Positions /\ Contents /\ (~openResume => Losses)

-----------------------------------------------------------------------------
(* A chunk is not empty, it is read HeadUnits below the place it is written to, and
   both places are on the partition. *)
LEMMA ChunkPlace ==
    ASSUME Positions, Remaining > 0
    PROVE  /\ WorkChunk \in Nat /\ WorkChunk > 0 /\ WorkChunk <= ChunkUnits
           /\ ReadAt \in Nat /\ WriteAt \in Nat /\ WriteAt = ReadAt + HeadUnits
           /\ WriteAt + WorkChunk = encStart /\ ReadAt + WorkChunk = encStart - HeadUnits
           /\ encStart <= AreaLimit /\ ReadAt + WorkChunk <= PartUnits
           /\ ReadAt = WriteAt - HeadUnits
BY InPlaceSizes DEF Positions, ITypeOK, Remaining, WorkChunk, ReadAt, WriteAt, AreaLimit

(* As long as a chunk remains there is a first unit. *)
LEMMA FirstUnitExists ==
    ASSUME Positions, Remaining > 0
    PROVE  0 \in PartData
<1>1. PartUnits > 0
  BY InPlaceSizes DEF Positions, ITypeOK, Remaining, AreaLimit
<1> QED BY <1>1, InPlaceSizes DEF PartData

LEMMA RawUnits ==
    /\ 0 \in Raw
    /\ \A u \in PartData : u \in Nat /\ u \in Raw /\ u + HeadUnits \in Raw /\ u + HeadUnits < AreaLimit
    /\ \A r \in Raw : r \in Nat /\ r < AreaLimit
BY InPlaceSizes DEF Raw, PartData, AreaLimit

(* A partial loss is no more than what it is made of. *)
LEMMA LossesAdd ==
    ASSUME NEW X, NEW Y, NEW lo \in Int, NEW hi \in Int, NEW m \in Nat, NEW n \in Nat,
           Y \subseteq PartData, X \subseteq Y \cup (lo .. hi), hi - lo + 1 <= m, Cardinality(Y) <= n
    PROVE  Cardinality(X) <= n + m
<1>1. IsFiniteSet(PartData) /\ IsFiniteSet(lo .. hi)
  BY InPlaceSizes, FS_Interval DEF PartData
<1>2. IsFiniteSet(Y) /\ Cardinality(Y) \in Nat
  BY <1>1, FS_Subset, FS_CardinalityType
<1>3. IsFiniteSet(Y \cup (lo .. hi)) /\ Cardinality(Y \cup (lo .. hi)) \in Nat
  BY <1>1, <1>2, FS_Union, FS_CardinalityType
<1>4. IsFiniteSet(X) /\ Cardinality(X) <= Cardinality(Y \cup (lo .. hi)) /\ Cardinality(X) \in Nat
  BY <1>3, FS_Subset, FS_CardinalityType
<1>5. Cardinality(Y \cup (lo .. hi)) = Cardinality(Y) + Cardinality(lo .. hi) - Cardinality(Y \cap (lo .. hi))
  BY <1>1, <1>2, FS_Union
<1>6. Cardinality(Y \cap (lo .. hi)) \in Nat
  BY <1>2, FS_Subset, FS_CardinalityType
<1>7. Cardinality(lo .. hi) = IF lo > hi THEN 0 ELSE hi - lo + 1
  BY FS_Interval
<1> QED BY <1>2, <1>3, <1>4, <1>5, <1>6, <1>7

(* Another crash or failed update raises the limit by what one of them may lose. *)
LEMMA LimitGrows ==
    ASSUME NEW n \in Nat
    PROVE  LET m == UpdateUnits + ChunkUnits - 1 - HeadUnits
           IN  /\ m \in Nat /\ n * m \in Nat
               /\ (n + 1) * m = n * m + m
BY InPlaceSizes

-----------------------------------------------------------------------------
LEMMA InitialInv == IInit => InPlaceInv
<1> SUFFICES ASSUME IInit PROVE InPlaceInv
  OBVIOUS
<1>1. Positions
  <2>1. part \in [Raw -> Cells]
    BY DEF IInit, Cells, Plain, Noise
  <2>2. AreaLimit \in Nat /\ HeadUnits <= AreaLimit /\ HeadUnits \in Nat /\ UpdateUnits + ChunkUnits \in Nat
    BY InPlaceSizes DEF AreaLimit
  <2>3. primaryHdr \in BOOLEAN /\ paused \in BOOLEAN /\ areaChanged \in BOOLEAN /\ openResume \in BOOLEAN
        /\ ~primaryHdr
    BY Zenon DEF IInit
  <2> QED BY <2>1, <2>2, <2>3 DEF IInit, Positions, ITypeOK, Cells, Working, Chunked
<1>2. Contents
  BY DEF IInit, Contents, Working, Chunked, Plain, Noise, Concealed
<1>3. Losses
  <2>1. Damaged = {}
    BY InPlaceSizes DEF IInit, Damaged, Readable, PartData, Raw
  <2>2. Cardinality(Damaged) <= LossLimit
    BY <2>1, FS_EmptySet, LimitGrows, InPlaceSizes DEF LossLimit, IInit
  <2>3. \A u \in PartData : part[u] = Plain(u)
    BY RawUnits DEF IInit
  <2> QED BY <2>2, <2>3 DEF IInit, Losses, Working
<1> QED BY <1>1, <1>2, <1>3 DEF InPlaceInv

(* The positions stay as they should be, whatever the thread does next. *)
LEMMA PositionsStep ==
    ASSUME Positions, Contents, [INext]_iVars
    PROVE  Positions'
<1> USE DEF Working, Chunked, iDisk, iMem, iCount
<1>1. ASSUME NEW w \in BOOLEAN, InPlaceBegin(w)
      PROVE  Positions'
  BY <1>1 DEF InPlaceBegin, RequirementsMet, Positions, ITypeOK, Remaining
<1>2. CASE WriteBackupHeader
  BY <1>2, InPlaceSizes DEF WriteBackupHeader, Positions, ITypeOK, Remaining, AreaLimit
<1>3. CASE ConcealNTFS
  <2>1. part' \in [Raw -> Cells]
    BY <1>3, RawUnits DEF ConcealNTFS, Conceal, Positions, ITypeOK, Cells, Plain, Concealed, Noise
  <2> QED BY <1>3, <2>1 DEF ConcealNTFS, Positions, ITypeOK, Remaining, Cells
<1>4. CASE SaveSettings
  BY <1>4 DEF SaveSettings, Positions, ITypeOK, Remaining
<1>5. ASSUME NEW w \in BOOLEAN, ResumeLater(w)
      PROVE  Positions'
  BY <1>5 DEF ResumeLater, Positions, ITypeOK, Remaining
<1>6. CASE OpenBackupHeader
  <2>1. AreaLimit \in Nat /\ HeadUnits \in Nat /\ UpdateUnits \in Nat /\ UpdateUnits > 0
        /\ ChunkUnits \in Nat
    BY InPlaceSizes DEF AreaLimit
  <2>2. backupHdr \in HeadUnits .. AreaLimit /\ backupHdr \in Nat /\ ~primaryHdr
    BY <1>6, <2>1 DEF OpenBackupHeader, Positions, ITypeOK
  <2>3. areaChanged' \in BOOLEAN /\ paused' \in BOOLEAN
    BY <1>6, Zenon DEF OpenBackupHeader
  <2> QED BY <1>6, <2>1, <2>2, <2>3 DEF OpenBackupHeader, Positions, ITypeOK
<1>7. CASE ReadChunk
  BY <1>7 DEF ReadChunk, Positions, ITypeOK, Remaining
<1>8. CASE ReadError
  <2>1. part' \in [Raw -> Cells] /\ zeroed' \subseteq PartData
    <3>1. ReadAt .. ReadAt + WorkChunk - 1 \subseteq PartData
      BY <1>8, ChunkPlace, InPlaceSizes DEF ReadError, PartData
    <3> QED BY <1>8, <3>1, RawUnits DEF ReadError, Positions, ITypeOK, Cells, Noise
  <2> QED BY <1>8, <2>1 DEF ReadError, Positions, ITypeOK, Remaining, Cells
<1>9. CASE WipeChunk
  <2>1. part' \in [Raw -> Cells]
    BY <1>9 DEF WipeChunk, PartAfter, WipeCells, Positions, ITypeOK, Cells, Noise
  <2> QED BY <1>9, <2>1 DEF WipeChunk, Positions, ITypeOK, Remaining, Cells
<1>10. CASE WriteChunk
  <2>1. Remaining > 0
    BY <1>10 DEF WriteChunk, Positions
  <2>2. \A r \in ChunkTarget(WorkChunk) : r - HeadUnits \in PartData
    BY <2>1, ChunkPlace, InPlaceSizes DEF ChunkTarget, PartData
  <2>3. part' \in [Raw -> Cells]
    BY <1>10, <2>2 DEF WriteChunk, PartAfter, ChunkCells, EncryptUnit, Positions, ITypeOK, Cells, Noise, Cipher
  <2>4. encStart' \in HeadUnits .. AreaLimit /\ encStart' = encStart - WorkChunk /\ encStart' <= backupHdr
        /\ sinceUpdate' = sinceUpdate + WorkChunk /\ sinceUpdate' = backupHdr - encStart'
        /\ sinceUpdate' < UpdateUnits + ChunkUnits /\ sinceUpdate' \in Nat
    <3>1. /\ encStart \in Nat /\ backupHdr \in Nat /\ sinceUpdate \in Nat /\ encStart <= backupHdr
          /\ sinceUpdate = backupHdr - encStart /\ sinceUpdate < UpdateUnits /\ encStart \in HeadUnits .. AreaLimit
      BY <1>10, InPlaceSizes DEF WriteChunk, Positions, ITypeOK, AreaLimit
    <3>2. encStart' = encStart - WorkChunk /\ sinceUpdate' = sinceUpdate + WorkChunk
      BY <1>10 DEF WriteChunk
    <3> QED BY <2>1, <3>1, <3>2, ChunkPlace, InPlaceSizes DEF AreaLimit
  <2> QED BY <1>10, <2>3, <2>4, InPlaceSizes DEF WriteChunk, Positions, ITypeOK, Remaining, Cells
<1>11. CASE WriteError
  <2>1. Remaining > 0 /\ chunk \in [0 .. WorkChunk - 1 -> Cells]
    BY <1>11 DEF WriteError, Positions, Contents
  <2>2. \A r \in ChunkTarget(WorkChunk) : r - HeadUnits \in PartData
    BY <2>1, ChunkPlace, InPlaceSizes, SMTT(60) DEF ChunkTarget, PartData
  <2>3. \A r \in ChunkTarget(WorkChunk - HeadUnits) : HeadUnits + r - WriteAt \in 0 .. WorkChunk - 1
    <3>1. WorkChunk \in Nat /\ WriteAt \in Nat /\ HeadUnits \in Nat
      BY <2>1, ChunkPlace, InPlaceSizes
    <3>2. \A c, a, h \in Nat : \A r \in a .. a + (c - h) - 1 : h + r - a \in 0 .. c - 1
      OBVIOUS
    <3> QED BY <3>1, <3>2 DEF ChunkTarget
  <2>4. PICK s \in SUBSET ChunkTarget(WorkChunk) :
          part' = Undone(PartAfter(s, IF ipc = "wipe" THEN WipeCells ELSE ChunkCells))
    BY <1>11 DEF WriteError
  <2>5. PartAfter(s, IF ipc = "wipe" THEN WipeCells ELSE ChunkCells) \in [Raw -> Cells]
    BY <2>2, <2>4 DEF PartAfter, WipeCells, ChunkCells, EncryptUnit, Positions, ITypeOK, Cells, Noise, Cipher
  <2>6. part' \in [Raw -> Cells]
    BY <2>1, <2>3, <2>4, <2>5 DEF Undone
  <2> QED BY <1>11, <2>6 DEF WriteError, Positions, ITypeOK, Remaining, Cells
<1>12. CASE HeaderUpdates
  BY <1>12, InPlaceSizes DEF HeaderUpdates, HeaderUpdate, HeaderUpdateFails, Positions, ITypeOK, Remaining
<1>13. ASSUME NEW c \in BOOLEAN, NextChunk(c)
       PROVE  Positions'
  BY <1>13 DEF NextChunk, Positions, ITypeOK, Remaining
<1>14. CASE LoopEnds
  BY <1>14, InPlaceSizes DEF LoopEnds, Positions, ITypeOK, Remaining
<1>15. CASE WritePrimaryHeader
  <2>1. part' \in [Raw -> Cells]
    BY <1>15 DEF WritePrimaryHeader, Positions, ITypeOK, Cells, Noise
  <2> QED BY <1>15, <2>1, InPlaceSizes DEF WritePrimaryHeader, Positions, ITypeOK, Remaining, Cells
<1>16. CASE PauseEnds
  BY <1>16 DEF PauseEnds, Positions, ITypeOK, Remaining
<1>17. CASE NothingToSave
  BY <1>17 DEF NothingToSave, Positions, ITypeOK, Remaining
<1>18. CASE PartCrash
  <2>1. part' \in [Raw -> Cells]
    <3>1. CASE part' = part
      BY <3>1 DEF Positions, ITypeOK, Cells
    <3>2. ASSUME NEW s \in SUBSET ChunkTarget(WorkChunk), part' = PartAfter(s, WipeCells)
          PROVE  part' \in [Raw -> Cells]
      BY <3>2 DEF PartAfter, WipeCells, Positions, ITypeOK, Cells, Noise
    <3>3. ASSUME NEW s \in SUBSET ChunkTarget(WorkChunk), part' = PartAfter(s, ChunkCells), ipc = "write"
          PROVE  part' \in [Raw -> Cells]
      <4>1. \A r \in ChunkTarget(WorkChunk) : r - HeadUnits \in PartData
        BY <3>3, ChunkPlace, InPlaceSizes DEF ChunkTarget, PartData, Positions
      <4> QED BY <3>3, <4>1 DEF PartAfter, ChunkCells, EncryptUnit, Positions, ITypeOK, Cells, Noise, Cipher
    <3> QED BY <1>18, <3>1, <3>2, <3>3 DEF PartCrash
  <2> QED BY <1>18, <2>1 DEF PartCrash, Positions, ITypeOK, Remaining, Cells
<1>19. CASE UNCHANGED iVars
  BY <1>19 DEF iVars, Positions, ITypeOK, Remaining
<1> QED BY <1>1, <1>2, <1>3, <1>4, <1>5, <1>6, <1>7, <1>8, <1>9, <1>10, <1>11, <1>12, <1>13, <1>14, <1>15,
           <1>16, <1>17, <1>18, <1>19 DEF INext, InPlaceStep

(* Where the target of the chunk lies among the units of the partition, and what the
   chunk holds of them. *)
LEMMA ChunkUnitsPlace ==
    ASSUME Positions, Contents, Chunked
    PROVE  /\ Remaining > 0
           /\ \A r \in ChunkTarget(WorkChunk) : /\ r \in Raw /\ r >= WriteAt /\ r < encStart
                                                /\ r - HeadUnits \in PartData /\ r - WriteAt \in 0 .. WorkChunk - 1
           /\ \A r \in ChunkTarget(WorkChunk - HeadUnits) :
                 /\ r \in PartData /\ r >= WriteAt /\ r < encStart - HeadUnits
                 /\ HeadUnits + r - WriteAt \in 0 .. WorkChunk - 1
                 /\ HeadUnits + r - WriteAt = r - ReadAt /\ ReadAt + (HeadUnits + r - WriteAt) = r
<1>1. Remaining > 0
  BY DEF Positions
<1> QED BY <1>1, ChunkPlace, InPlaceSizes DEF ChunkTarget, PartData, Raw, AreaLimit

(* No step puts a unit behind the position where it was, or conceals another unit. *)
LEMMA ContentsStep ==
    ASSUME Positions, Contents, Positions', [INext]_iVars
    PROVE  Contents'
<1> USE DEF Working, Chunked, iDisk, iMem, iCount
<1>0. WorkChunk' = (IF encStart' - HeadUnits < ChunkUnits THEN encStart' - HeadUnits ELSE ChunkUnits)
      /\ (encStart' = encStart => WorkChunk' = WorkChunk /\ ReadAt' = ReadAt /\ WriteAt' = WriteAt)
  BY DEF WorkChunk, Remaining, ReadAt, WriteAt
<1>1. ASSUME NEW w \in BOOLEAN, InPlaceBegin(w)
      PROVE  Contents'
  BY <1>1 DEF InPlaceBegin, Contents, InPlainText
<1>2. CASE WriteBackupHeader
  BY <1>2, RawUnits, InPlaceSizes DEF WriteBackupHeader, Contents, InPlainText, AreaLimit
<1>3. CASE ConcealNTFS
  <2>1. \A r \in Raw : r # 0 => part'[r] = part[r]
    BY <1>3 DEF ConcealNTFS, Positions, ITypeOK
  <2>2. backupHdr >= HeadUnits
    BY <1>3, InPlaceSizes DEF ConcealNTFS, Positions, ITypeOK, AreaLimit
  <2>3. backupHdr \in Nat /\ \A r \in Raw : r >= backupHdr => r # 0
    BY <2>2, RawUnits, InPlaceSizes DEF Positions, ITypeOK, AreaLimit
  <2>4. ipc' \in {"settings", "idle"} /\ backupHdr' = backupHdr
    BY <1>3 DEF ConcealNTFS
  <2> QED BY <2>1, <2>3, <2>4 DEF Contents, InPlainText
<1>4. CASE SaveSettings
  BY <1>4 DEF SaveSettings, Contents, InPlainText
<1>5. ASSUME NEW w \in BOOLEAN, ResumeLater(w)
      PROVE  Contents'
  BY <1>5 DEF ResumeLater, Contents, InPlainText
<1>6. CASE OpenBackupHeader
  BY <1>6 DEF OpenBackupHeader, Contents, InPlainText, Positions
<1>7. CASE ReadChunk
  <2>1. WorkChunk \in Nat /\ ReadAt \in Nat /\ Remaining > 0
        /\ \A i \in 0 .. WorkChunk - 1 : ReadAt + i \in Raw
    BY <1>7, ChunkPlace, InPlaceSizes, SMTT(60) DEF ReadChunk, Raw, AreaLimit
  <2>2. Conceal(part[0]) \in Cells
    BY DEF Conceal, Cells, Plain, Concealed, Noise
  <2>3. chunk' \in [0 .. WorkChunk - 1 -> Cells]
    BY <1>7, <2>1, <2>2 DEF ReadChunk, Positions, ITypeOK, Cells
  <2>4. \A i \in 0 .. WorkChunk - 1 : chunk'[i] = Concealed(ReadAt + i) => ReadAt + i = 0
    BY <1>7, <2>1 DEF ReadChunk, Contents
  <2> QED BY <1>0, <1>7, <2>3, <2>4 DEF ReadChunk, Contents, InPlainText
<1>8. CASE ReadError
  <2>1. \A r \in Raw : part'[r] = part[r] \/ part'[r] = Noise
    BY <1>8 DEF ReadError, Positions, ITypeOK
  <2>2. \A r \in Raw : part'[r] = Concealed(r) \/ InPlainText(r)' => part'[r] = part[r]
    BY <2>1 DEF InPlainText, Noise, Plain, Concealed
  <2> QED BY <1>8, <2>2 DEF ReadError, Contents, InPlainText
<1>9. CASE WipeChunk
  <2>1. \A r \in Raw : part'[r] = part[r] \/ part'[r] = Noise
    BY <1>9 DEF WipeChunk, PartAfter, WipeCells
  <2>2. \A r \in Raw : part'[r] = Concealed(r) \/ InPlainText(r)' => part'[r] = part[r]
    BY <2>1 DEF InPlainText, Noise, Plain, Concealed
  <2> QED BY <1>0, <1>9, <2>2 DEF WipeChunk, Contents, InPlainText
<1>10. CASE WriteChunk
  <2>1. \A r \in Raw : IF r \in ChunkTarget(WorkChunk)
                       THEN part'[r] = Noise \/ \E u \in PartData : part'[r] = Cipher(u)
                       ELSE part'[r] = part[r]
    BY <1>10, ChunkUnitsPlace DEF WriteChunk, PartAfter, ChunkCells, EncryptUnit
  <2>2. \A r \in Raw : part'[r] = Concealed(r) \/ InPlainText(r)' =>
                         part'[r] = part[r] /\ r \notin ChunkTarget(WorkChunk)
    BY <2>1 DEF InPlainText, Noise, Plain, Concealed, Cipher
  <2>3. encStart' = encStart - WorkChunk
    BY <1>10 DEF WriteChunk
  <2>4. \A r \in Raw : r >= encStart' => r >= encStart \/ r \in ChunkTarget(WorkChunk)
    <3>1. Remaining > 0
      BY <1>10, ChunkUnitsPlace DEF WriteChunk
    <3> QED BY <2>3, <3>1, ChunkPlace, RawUnits DEF ChunkTarget
  <2> QED BY <1>10, <2>2, <2>4 DEF WriteChunk, Contents, InPlainText
<1>11. CASE WriteError
  <2>1. PICK s \in SUBSET ChunkTarget(WorkChunk) :
          part' = Undone(PartAfter(s, IF ipc = "wipe" THEN WipeCells ELSE ChunkCells))
    BY <1>11 DEF WriteError
  <2>2. \A r \in Raw : \/ part'[r] = part[r] \/ part'[r] = Noise \/ \E u \in PartData : part'[r] = Cipher(u)
                       \/ /\ r \in ChunkTarget(WorkChunk - HeadUnits)
                          /\ part'[r] = chunk[HeadUnits + r - WriteAt]
    BY <1>11, <2>1, ChunkUnitsPlace DEF WriteError, Undone, PartAfter, WipeCells, ChunkCells, EncryptUnit
  <2>3. \A r \in Raw : part'[r] = Concealed(r) \/ InPlainText(r)' =>
                         part'[r] = part[r] \/ /\ r \in ChunkTarget(WorkChunk - HeadUnits)
                                               /\ part'[r] = chunk[HeadUnits + r - WriteAt]
    BY <2>2 DEF InPlainText, Noise, Plain, Concealed, Cipher
  <2>4. \A r \in ChunkTarget(WorkChunk - HeadUnits) :
           /\ r < encStart /\ r < backupHdr
           /\ chunk[HeadUnits + r - WriteAt] = Concealed(r) => r = 0
    <3>1. encStart <= backupHdr /\ encStart \in Nat /\ backupHdr \in Nat
      BY <1>11, InPlaceSizes DEF WriteError, Positions, ITypeOK, AreaLimit
    <3>2. ASSUME NEW r \in ChunkTarget(WorkChunk - HeadUnits)
          PROVE  chunk[HeadUnits + r - WriteAt] = Concealed(r) => r = 0
      BY <1>11, <3>2, ChunkUnitsPlace DEF WriteError, Contents
    <3>3. ASSUME NEW r \in ChunkTarget(WorkChunk - HeadUnits)
          PROVE  r < encStart - HeadUnits /\ r \in Nat
      BY <1>11, <3>3, ChunkUnitsPlace, RawUnits DEF WriteError
    <3> QED BY <3>1, <3>2, <3>3, InPlaceSizes
  <2>5. \A r \in Raw, n \in Nat : r < n => ~(r >= n)
    BY RawUnits
  <2>6. encStart \in Nat /\ backupHdr \in Nat
    BY <1>11, InPlaceSizes DEF WriteError, Positions, ITypeOK, AreaLimit
  <2> QED BY <1>11, <2>3, <2>4, <2>5, <2>6 DEF WriteError, Contents, InPlainText
<1>12. CASE HeaderUpdates
  BY <1>12 DEF HeaderUpdates, HeaderUpdate, HeaderUpdateFails, Contents, InPlainText
<1>13. ASSUME NEW c \in BOOLEAN, NextChunk(c)
       PROVE  Contents'
  BY <1>13 DEF NextChunk, Contents, InPlainText
<1>14. CASE LoopEnds
  BY <1>14 DEF LoopEnds, Contents, InPlainText
<1>15. CASE WritePrimaryHeader
  <2>1. \A r \in Raw : part'[r] = part[r] \/ part'[r] = Noise
    BY <1>15 DEF WritePrimaryHeader, Positions, ITypeOK
  <2>2. \A r \in Raw : part'[r] = Concealed(r) \/ InPlainText(r)' => part'[r] = part[r]
    BY <2>1 DEF InPlainText, Noise, Plain, Concealed
  <2> QED BY <1>15, <2>2 DEF WritePrimaryHeader, Contents, InPlainText
<1>16. CASE PauseEnds
  BY <1>16 DEF PauseEnds, Contents, InPlainText
<1>17. CASE NothingToSave
  BY <1>17 DEF NothingToSave, Contents, InPlainText
<1>18. CASE PartCrash
  <2>1. \A r \in Raw : part'[r] = part[r] \/ part'[r] = Noise \/ \E u \in PartData : part'[r] = Cipher(u)
    <3>1. CASE part' = part
      BY <3>1
    <3>2. ASSUME NEW s \in SUBSET ChunkTarget(WorkChunk), part' = PartAfter(s, WipeCells)
          PROVE  \A r \in Raw : part'[r] = part[r] \/ part'[r] = Noise
      BY <3>2 DEF PartAfter, WipeCells
    <3>3. ASSUME NEW s \in SUBSET ChunkTarget(WorkChunk), part' = PartAfter(s, ChunkCells), ipc = "write"
          PROVE  \A r \in Raw : part'[r] = part[r] \/ part'[r] = Noise \/ \E u \in PartData : part'[r] = Cipher(u)
      BY <3>3, ChunkUnitsPlace DEF PartAfter, ChunkCells, EncryptUnit
    <3> QED BY <1>18, <3>1, <3>2, <3>3 DEF PartCrash
  <2>2. \A r \in Raw : part'[r] = Concealed(r) \/ InPlainText(r)' => part'[r] = part[r]
    BY <2>1 DEF InPlainText, Noise, Plain, Concealed, Cipher
  <2> QED BY <1>18, <2>2 DEF PartCrash, Contents, InPlainText
<1>19. CASE UNCHANGED iVars
  BY <1>0, <1>19 DEF iVars, Contents, InPlainText
<1> QED BY <1>1, <1>2, <1>3, <1>4, <1>5, <1>6, <1>7, <1>8, <1>9, <1>10, <1>11, <1>12, <1>13, <1>14, <1>15,
           <1>16, <1>17, <1>18, <1>19 DEF INext, InPlaceStep

-----------------------------------------------------------------------------
LEMMA LimitIsNatural ==
    /\ Positions => LossLimit \in Nat
    /\ Positions' => LossLimit' \in Nat
<1>1. ASSUME NEW c \in Nat, NEW f \in Nat
      PROVE  (c + f) * (UpdateUnits + ChunkUnits - 1 - HeadUnits) \in Nat
  BY LimitGrows
<1>2. Positions => partCrashes \in Nat /\ staleUpdates \in Nat
  BY DEF Positions
<1>3. Positions' => partCrashes' \in Nat /\ staleUpdates' \in Nat
  BY DEF Positions
<1> QED BY <1>1, <1>2, <1>3, Zenon DEF LossLimit

(* Units that are lost are counted once. *)
LEMMA FewerLost ==
    ASSUME NEW X, NEW Y, NEW n \in Nat, Y \subseteq PartData, X \subseteq Y, Cardinality(Y) <= n
    PROVE  Cardinality(X) <= n
<1>1. IsFiniteSet(PartData)
  BY InPlaceSizes, FS_Interval DEF PartData
<1>2. IsFiniteSet(Y) /\ Cardinality(Y) \in Nat /\ IsFiniteSet(X) /\ Cardinality(X) \in Nat
  BY <1>1, FS_Subset, FS_CardinalityType
<1>3. Cardinality(X) <= Cardinality(Y)
  BY <1>2, FS_Subset
<1> QED BY <1>2, <1>3

(* A step that keeps every sound unit sound stays within the limit. *)
LEMMA SoundKept ==
    ASSUME Positions, Losses, ipc \in Working, LossLimit' = LossLimit, zeroed \subseteq zeroed',
           \A u \in PartData \ zeroed' : Sound(u) => Sound(u)'
    PROVE  Cardinality(Lost') <= LossLimit'
<1>1. Lost' = {u \in PartData \ zeroed' : ~Sound(u)'}
  BY DEF Lost
<1>2. Lost' \subseteq Lost /\ Lost \subseteq PartData
  BY <1>1 DEF Lost
<1>3. Cardinality(Lost) <= LossLimit
  BY DEF Losses
<1> QED BY <1>2, <1>3, FewerLost, LimitIsNatural

(* A thread that stops loses what is sound only in memory or in its new place: the units
   from lo to the position of the header. *)
LEMMA StopLoses ==
    ASSUME Positions, Losses, ipc \in Working, NEW lo \in Int,
           backupHdr - HeadUnits - lo <= UpdateUnits + ChunkUnits - 1 - HeadUnits,
           zeroed' = zeroed, backupHdr' = backupHdr, backupHdr # 0,
           partCrashes' + staleUpdates' = partCrashes + staleUpdates + 1,
           \A u \in PartData \ zeroed : u + HeadUnits >= backupHdr => part'[u + HeadUnits] = part[u + HeadUnits],
           \A u \in PartData \ zeroed : Sound(u) /\ u + HeadUnits < backupHdr /\ u < lo => InPlainText(u)'
    PROVE  Cardinality(Damaged') <= LossLimit'
<1>1. backupHdr \in Nat /\ encStart \in Nat /\ encStart <= backupHdr
  BY InPlaceSizes DEF Positions, ITypeOK, AreaLimit
<1>2. ASSUME NEW u \in Damaged'
      PROVE  u \in Lost \cup (lo .. backupHdr - HeadUnits - 1)
  <2>1. u \in PartData \ zeroed /\ u \in Nat
    BY <1>2, RawUnits DEF Damaged
  <2>2. CASE u + HeadUnits >= backupHdr
    <3>1. part'[u + HeadUnits] # Cipher(u)
      BY <1>1, <1>2, <2>1, <2>2, InPlaceSizes DEF Damaged, Readable
    <3>2. part[u + HeadUnits] # Cipher(u) /\ u >= encStart - HeadUnits
      BY <1>1, <2>1, <2>2, <3>1, InPlaceSizes
    <3> QED BY <2>1, <3>2 DEF Lost, Sound
  <2>3. CASE u + HeadUnits < backupHdr
    <3>1. ~InPlainText(u)'
      BY <1>1, <1>2, <2>1, <2>3, InPlaceSizes DEF Damaged, Readable, InPlainText
    <3>2. ~Sound(u) \/ u >= lo
      BY <2>1, <2>3, <3>1
    <3> QED BY <1>1, <2>1, <2>3, <3>2, InPlaceSizes DEF Lost
  <2> QED BY <1>1, <2>1, <2>2, <2>3, InPlaceSizes
<1>3. Cardinality(Lost) <= LossLimit /\ LossLimit \in Nat
  BY LimitIsNatural DEF Losses
<1> DEFINE m == UpdateUnits + ChunkUnits - 1 - HeadUnits
<1>4. m \in Nat
  BY InPlaceSizes
<1>5. Cardinality(Damaged') <= LossLimit + m
  <2>1. Damaged' \subseteq Lost \cup (lo .. backupHdr - HeadUnits - 1) /\ Lost \subseteq PartData
    BY <1>2 DEF Lost
  <2>2. (backupHdr - HeadUnits - 1) \in Int /\ (backupHdr - HeadUnits - 1) - lo + 1 <= m
    BY <1>1, InPlaceSizes
  <2> HIDE DEF m
  <2> QED BY <1>3, <1>4, <2>1, <2>2, LossesAdd
<1>6. LossLimit' = LossLimit + m
  <2>1. partCrashes + staleUpdates \in Nat
    BY DEF Positions
  <2>2. LossLimit' = ((partCrashes + staleUpdates) + 1) * m
    BY DEF LossLimit
  <2>3. LossLimit = (partCrashes + staleUpdates) * m
    BY DEF LossLimit
  <2> HIDE DEF m
  <2>4. ((partCrashes + staleUpdates) + 1) * m = (partCrashes + staleUpdates) * m + m
    BY <2>1, LimitGrows DEF m
  <2> QED BY <2>2, <2>3, <2>4
<1> QED BY <1>5, <1>6

(* The first unit is overwritten only by the primary header and by zeroing, and by
   neither with its plain text. *)
LEMMA FirstUnitKept ==
    ASSUME Positions, Losses, ipc \in Working, part'[0] = part[0] \/ part'[0] = Noise
    PROVE  part'[0] # Plain(0)
BY DEF Losses, Working, Noise, Plain

(* What the thread does to the units of its chunk, and to the others. *)
LEMMA SoundUnits ==
    ASSUME Positions, ipc \in Working, NEW u \in PartData
    PROVE  /\ u \in Nat /\ encStart \in Nat /\ backupHdr \in Nat /\ encStart <= backupHdr
           /\ HeadUnits \in Nat /\ HeadUnits > 0 /\ encStart >= HeadUnits
           /\ 0 < WriteAt \/ ~Chunked
BY RawUnits, ChunkPlace, InPlaceSizes DEF Positions, ITypeOK, AreaLimit, Chunked

LEMMA ReadChunkLosses ==
    ASSUME Positions, Contents, Losses, Positions', ReadChunk
    PROVE  Losses'
<1> USE DEF Working, Chunked, iDisk, iMem, iCount
<1>1. Remaining > 0 /\ part' = part /\ encStart' = encStart /\ zeroed' = zeroed /\ backupHdr' = backupHdr
      /\ LossLimit' = LossLimit /\ ReadAt' = ReadAt /\ WriteAt' = WriteAt /\ ipc = "loop" /\ ipc' \in {"wipe", "write"}
  BY DEF ReadChunk, LossLimit, ReadAt, WriteAt, WorkChunk, Remaining
<1>2. ASSUME NEW u \in PartData
      PROVE  Sound(u)' <=> Sound(u)
  <2>1. CASE u >= encStart - HeadUnits
    BY <1>1, <2>1 DEF Sound
  <2>2. CASE u < encStart - HeadUnits /\ u >= ReadAt
    <3>1. u - ReadAt \in 0 .. WorkChunk - 1 /\ ReadAt + (u - ReadAt) = u
      BY <1>1, <2>2, SoundUnits, ChunkPlace
    <3>2. chunk'[u - ReadAt] = IF u = 0 THEN Conceal(part[0]) ELSE part[u]
      BY <3>1 DEF ReadChunk
    <3>3. chunk'[u - ReadAt] = Plain(u) <=> InPlainText(u)
      <4>1. part[0] # Plain(0)
        BY <1>1 DEF Losses
      <4>2. u # 0 => part[u] # Concealed(u)
        BY RawUnits DEF Contents
      <4> QED BY <3>2, <4>1, <4>2 DEF Conceal, InPlainText, Plain, Concealed, Noise
    <3>4. Sound(u) <=> InPlainText(u)
      BY <1>1, <2>2, SoundUnits DEF Sound
    <3>5. Sound(u)' <=> chunk'[u - ReadAt] = Plain(u)
      BY <1>1, <2>2, SoundUnits DEF Sound
    <3> QED BY <3>3, <3>4, <3>5
  <2>3. CASE u < ReadAt
    <3>1. u < encStart - HeadUnits
      BY <1>1, <2>3, SoundUnits, ChunkPlace
    <3> QED BY <1>1, <2>3, <3>1, SoundUnits, ChunkPlace DEF Sound, InPlainText
  <2> QED BY <1>1, <2>1, <2>2, <2>3, SoundUnits, ChunkPlace
<1>3. Cardinality(Lost') <= LossLimit'
  BY <1>1, <1>2, SoundKept
<1>4. OldCopies'
  <2> SUFFICES ASSUME NEW u \in PartData \ zeroed, Sound(u)', u + HeadUnits < backupHdr, u < WriteAt
               PROVE  InPlainText(u)'
    BY <1>1 DEF OldCopies, Kept
  <2>1. Sound(u) /\ u < encStart
    BY <1>1, <1>2, SoundUnits, ChunkPlace
  <2>2. OldCopies
    BY <1>1 DEF Losses
  <2> QED BY <1>1, <2>1, <2>2 DEF OldCopies, Kept, InPlainText
<1>5. part'[0] # Plain(0)
  BY <1>1, FirstUnitKept
<1> QED BY <1>1, <1>3, <1>4, <1>5 DEF Losses

(* A write to the target of the chunk, or to a part of it, leaves the copies above the
   position of the thread and below the target. *)
LEMMA TargetOnly ==
    ASSUME Positions, Contents, Chunked, NEW u \in PartData
    PROVE  /\ u + HeadUnits >= encStart => u + HeadUnits \notin ChunkTarget(WorkChunk)
           /\ u < WriteAt => u \notin ChunkTarget(WorkChunk)
           /\ 0 \notin ChunkTarget(WorkChunk)
<1>1. Remaining > 0 /\ ipc \in Working
  BY DEF Positions, Chunked, Working
<1> QED BY <1>1, ChunkPlace, SoundUnits, InPlaceSizes DEF ChunkTarget

LEMMA WipeChunkLosses ==
    ASSUME Positions, Contents, Losses, Positions', WipeChunk
    PROVE  Losses'
<1> USE DEF Working, Chunked, iMem, iCount
<1>1. Remaining > 0 /\ encStart' = encStart /\ zeroed' = zeroed /\ backupHdr' = backupHdr /\ chunk' = chunk
      /\ LossLimit' = LossLimit /\ ReadAt' = ReadAt /\ WriteAt' = WriteAt /\ ipc = "wipe" /\ ipc' = "write"
  BY DEF WipeChunk, LossLimit, ReadAt, WriteAt, WorkChunk, Remaining, Positions
<1>2. \A r \in Raw : r \notin ChunkTarget(WorkChunk) => part'[r] = part[r]
  BY DEF WipeChunk, PartAfter
<1>3. ASSUME NEW u \in PartData
      PROVE  Sound(u)' <=> Sound(u)
  <2>1. u + HeadUnits >= encStart => part'[u + HeadUnits] = part[u + HeadUnits]
    BY <1>1, <1>2, TargetOnly, RawUnits
  <2>2. u < ReadAt => part'[u] = part[u]
    BY <1>1, <1>2, TargetOnly, RawUnits, SoundUnits, ChunkPlace
  <2> QED BY <1>1, <2>1, <2>2, SoundUnits, ChunkPlace DEF Sound, InPlainText
<1>4. Cardinality(Lost') <= LossLimit'
  BY <1>1, <1>3, SoundKept
<1>5. OldCopies'
  <2> SUFFICES ASSUME NEW u \in PartData \ zeroed, Sound(u)', u + HeadUnits < backupHdr, u < WriteAt
               PROVE  InPlainText(u)'
    BY <1>1 DEF OldCopies, Kept
  <2>1. Sound(u) /\ OldCopies
    BY <1>1, <1>3 DEF Losses
  <2>2. part'[u] = part[u]
    BY <1>1, <1>2, TargetOnly, RawUnits
  <2> QED BY <1>1, <2>1, <2>2 DEF OldCopies, Kept, InPlainText
<1>6. part'[0] # Plain(0)
  <2>1. 0 \in PartData => part'[0] = part[0]
    BY <1>1, <1>2, TargetOnly, RawUnits
  <2>2. 0 \in PartData
    BY <1>1, FirstUnitExists
  <2> QED BY <1>1, <2>1, <2>2, FirstUnitKept
<1> QED BY <1>1, <1>4, <1>5, <1>6 DEF Losses

LEMMA WriteChunkLosses ==
    ASSUME Positions, Contents, Losses, Positions', WriteChunk
    PROVE  Losses'
<1> USE DEF Working, Chunked, iCount
<1>1. Remaining > 0 /\ encStart' = encStart - WorkChunk /\ zeroed' = zeroed /\ backupHdr' = backupHdr
      /\ LossLimit' = LossLimit /\ ipc = "write" /\ ipc' \in {"update", "next"}
  BY DEF WriteChunk, LossLimit, Positions
<1>2. \A r \in Raw : part'[r] = IF r \in ChunkTarget(WorkChunk)
                                THEN EncryptUnit(r - HeadUnits, chunk[r - WriteAt]) ELSE part[r]
  BY DEF WriteChunk, PartAfter, ChunkCells
<1>3. ASSUME NEW u \in PartData
      PROVE  Sound(u)' <=> Sound(u)
  <2>1. CASE u >= encStart - HeadUnits
    <3>1. part'[u + HeadUnits] = part[u + HeadUnits]
      BY <1>1, <1>2, <2>1, TargetOnly, RawUnits, SoundUnits
    <3>2. u >= encStart' - HeadUnits
      BY <1>1, <2>1, SoundUnits, ChunkPlace
    <3> QED BY <2>1, <3>1, <3>2 DEF Sound
  <2>2. CASE u < encStart - HeadUnits /\ u >= ReadAt
    <3>1. u + HeadUnits \in ChunkTarget(WorkChunk) /\ (u + HeadUnits) - WriteAt = u - ReadAt
          /\ (u + HeadUnits) - HeadUnits = u
      BY <1>1, <2>2, SoundUnits, ChunkPlace DEF ChunkTarget
    <3>2. part'[u + HeadUnits] = EncryptUnit(u, chunk[u - ReadAt])
      BY <1>2, <3>1, RawUnits
    <3>3. part'[u + HeadUnits] = Cipher(u) <=> chunk[u - ReadAt] = Plain(u)
      BY <3>2 DEF EncryptUnit, Cipher, Noise
    <3>4. u >= encStart' - HeadUnits /\ ~(u >= encStart - HeadUnits)
      BY <1>1, <2>2, SoundUnits, ChunkPlace
    <3> QED BY <1>1, <2>2, <3>3, <3>4 DEF Sound
  <2>3. CASE u < ReadAt
    <3>1. part'[u] = part[u]
      BY <1>1, <1>2, <2>3, TargetOnly, RawUnits, SoundUnits, ChunkPlace
    <3>2. ~(u >= encStart' - HeadUnits) /\ ~(u >= encStart - HeadUnits) /\ ~(u >= ReadAt)
      BY <1>1, <2>3, SoundUnits, ChunkPlace
    <3> QED BY <1>1, <3>1, <3>2 DEF Sound, InPlainText
  <2> QED BY <1>1, <2>1, <2>2, <2>3, SoundUnits, ChunkPlace
<1>4. Cardinality(Lost') <= LossLimit'
  BY <1>1, <1>3, SoundKept
<1>5. OldCopies'
  <2>1. encStart' = WriteAt
    BY <1>1, ChunkPlace DEF Positions, ITypeOK
  <2> SUFFICES ASSUME NEW u \in PartData \ zeroed, Sound(u)', u + HeadUnits < backupHdr, u < WriteAt
               PROVE  InPlainText(u)'
    BY <1>1, <2>1 DEF OldCopies, Kept
  <2>2. Sound(u) /\ OldCopies
    BY <1>1, <1>3 DEF Losses
  <2>3. part'[u] = part[u]
    BY <1>1, <1>2, TargetOnly, RawUnits
  <2> QED BY <1>1, <2>2, <2>3 DEF OldCopies, Kept, InPlainText
<1>6. part'[0] # Plain(0)
  <2>1. 0 \in PartData
    BY <1>1, FirstUnitExists
  <2>2. part'[0] = part[0]
    BY <1>1, <1>2, <2>1, TargetOnly, RawUnits
  <2> QED BY <1>1, <2>2, FirstUnitKept
<1> QED BY <1>1, <1>4, <1>5, <1>6 DEF Losses

LEMMA WriteErrorLosses ==
    ASSUME Positions, Contents, Losses, Positions', WriteError
    PROVE  Losses'
<1> USE DEF Working, Chunked
<1>1. Remaining > 0 /\ encStart' = encStart /\ zeroed' = zeroed /\ backupHdr' = backupHdr
      /\ LossLimit' = LossLimit /\ Chunked /\ ipc' = "closing" /\ sinceUpdate' < UpdateUnits
  BY DEF WriteError, LossLimit, Positions
<1>2. \A r \in Raw : /\ r \notin ChunkTarget(WorkChunk) /\ r \notin ChunkTarget(WorkChunk - HeadUnits) => part'[r] = part[r]
                     /\ WorkChunk > HeadUnits /\ r \in ChunkTarget(WorkChunk - HeadUnits) =>
                           part'[r] = chunk[HeadUnits + r - WriteAt]
                     /\ ~(WorkChunk > HeadUnits) /\ r \notin ChunkTarget(WorkChunk) => part'[r] = part[r]
  BY DEF WriteError, Undone, PartAfter
<1>3. \A r \in Raw : r \in ChunkTarget(WorkChunk - HeadUnits) => r \in ChunkTarget(WorkChunk)
  BY <1>1, ChunkPlace, RawUnits, InPlaceSizes DEF ChunkTarget
<1>4. ASSUME NEW u \in PartData \ zeroed, Sound(u)
      PROVE  Sound(u)'
  <2>1. CASE u >= encStart - HeadUnits
    <3>1. part'[u + HeadUnits] = part[u + HeadUnits]
      BY <1>1, <1>2, <1>3, <2>1, TargetOnly, RawUnits, SoundUnits
    <3> QED BY <1>1, <1>4, <2>1, <3>1 DEF Sound
  <2>2. CASE u < encStart - HeadUnits /\ u >= WriteAt
    <3>1. WorkChunk > HeadUnits /\ u \in ChunkTarget(WorkChunk - HeadUnits) /\ HeadUnits + u - WriteAt = u - ReadAt
          /\ u >= ReadAt /\ ~(u >= encStart - HeadUnits)
      BY <1>1, <2>2, SoundUnits, ChunkPlace DEF ChunkTarget
    <3>2. part'[u] = chunk[u - ReadAt]
      BY <1>2, <3>1, RawUnits
    <3>3. chunk[u - ReadAt] = Plain(u)
      BY <1>1, <1>4, <3>1 DEF Sound
    <3> QED BY <1>1, <3>1, <3>2, <3>3 DEF Sound, InPlainText
  <2>3. CASE u < encStart - HeadUnits /\ u < WriteAt
    <3>1. u + HeadUnits < backupHdr /\ ~(u >= encStart - HeadUnits)
      BY <1>1, <2>3, SoundUnits
    <3>2. InPlainText(u)
      BY <1>1, <1>4, <2>3, <3>1 DEF Losses, OldCopies, Kept
    <3>3. part'[u] = part[u]
      BY <1>1, <1>2, <1>3, <2>3, TargetOnly, RawUnits
    <3> QED BY <1>1, <3>1, <3>2, <3>3 DEF Sound, InPlainText
  <2> QED BY <1>1, <2>1, <2>2, <2>3, SoundUnits, ChunkPlace
<1>5. Cardinality(Lost') <= LossLimit'
  BY <1>1, <1>4, SoundKept
<1>6. part'[0] # Plain(0)
  <2>1. 0 \in PartData
    BY <1>1, FirstUnitExists
  <2>2. part'[0] = part[0]
    BY <1>1, <1>2, <1>3, <2>1, TargetOnly, RawUnits
  <2> QED BY <1>1, <2>2, FirstUnitKept
<1> QED BY <1>1, <1>5, <1>6 DEF Losses
(* A step that changes neither the contents nor the positions keeps what is lost and what
   is sound in memory. *)
LEMMA NothingMoves ==
    ASSUME UNCHANGED <<part, backupHdr, encStart, zeroed, partCrashes, staleUpdates>>, ~Chunked, ~Chunked'
    PROVE  Damaged' = Damaged /\ Lost' = Lost /\ LossLimit' = LossLimit /\ (OldCopies => OldCopies')
<1>1. \A u \in PartData : Readable(u)' = Readable(u)
  BY DEF Readable
<1>2. \A u \in PartData : Sound(u)' = Sound(u) /\ InPlainText(u)' = InPlainText(u)
  BY DEF Sound, InPlainText
<1>3. Damaged' = {u \in PartData \ zeroed : ~Readable(u)'} /\ Lost' = {u \in PartData \ zeroed : ~Sound(u)'}
  BY DEF Damaged, Lost
<1>4. OldCopies => OldCopies'
  BY <1>2 DEF OldCopies, Kept
<1> QED BY <1>1, <1>2, <1>3, <1>4 DEF Damaged, Lost, LossLimit

(* Outside of a chunk a unit that is sound and not yet encrypted is where it was. *)
LEMMA SoundInPlace ==
    ASSUME Positions, ipc \in Working, ~Chunked, NEW u \in PartData, Sound(u), u + HeadUnits < encStart
    PROVE  InPlainText(u)
BY SoundUnits DEF Sound

(* Outside of a chunk, with a header that is up to date, what is lost is what is damaged. *)
LEMMA LostIsDamaged ==
    ASSUME Positions, ipc \in Working, ~Chunked,
           part' = part, zeroed' = zeroed, backupHdr' = encStart
    PROVE  Damaged' = Lost
<1>1. ASSUME NEW u \in PartData
      PROVE  Readable(u)' <=> Sound(u)
  <2>1. Readable(u)' <=> IF u >= encStart - HeadUnits THEN part[u + HeadUnits] = Cipher(u) ELSE InPlainText(u)
    BY SoundUnits DEF Readable, InPlainText
  <2> QED BY <2>1 DEF Sound
<1>2. Damaged' = {u \in PartData \ zeroed : ~Readable(u)'}
  BY DEF Damaged
<1> QED BY <1>1, <1>2 DEF Lost

(* As long as everything is plain nothing is damaged. *)
LEMMA AllPlain ==
    ASSUME Positions', backupHdr' \in {0, AreaLimit}, \A u \in PartData : InPlainText(u)'
    PROVE  Cardinality(Damaged') <= LossLimit'
<1>1. \A u \in PartData : Readable(u)'
  BY RawUnits, InPlaceSizes DEF Readable, InPlainText, AreaLimit
<1>2. Damaged' = {}
  BY <1>1 DEF Damaged
<1>3. LossLimit' \in Nat
  BY LimitIsNatural
<1> QED BY <1>2, <1>3, FS_EmptySet

LEMMA BackupHeaderLosses ==
    ASSUME Positions, Contents, Losses, Positions', WriteBackupHeader
    PROVE  Losses'
<1> USE DEF Working, Chunked, iMem
<1>1. part' = part /\ part[0] = Plain(0) /\ backupHdr' \in {0, AreaLimit} /\ ipc' \in {"conceal", "idle"}
      /\ \A u \in PartData : part[u] = Plain(u)
  BY DEF WriteBackupHeader, Losses
<1>2. Cardinality(Damaged') <= LossLimit'
  BY <1>1, AllPlain DEF InPlainText
<1> QED BY <1>1, <1>2 DEF Losses

LEMMA ConcealLosses ==
    ASSUME Positions, Contents, Losses, Positions', ConcealNTFS
    PROVE  Losses'
<1> USE DEF Working, Chunked, iMem
<1>1. part[0] = Plain(0) /\ backupHdr' = backupHdr /\ backupHdr \in {0, AreaLimit} /\ ipc' \in {"settings", "idle"}
      /\ \A u \in PartData : part[u] = Plain(u)
  BY DEF ConcealNTFS, Losses
<1>2. CASE part' = part /\ ipc' = "idle"
  <2>1. Cardinality(Damaged') <= LossLimit'
    BY <1>1, <1>2, AllPlain DEF InPlainText
  <2> QED BY <1>1, <1>2, <2>1 DEF Losses
<1>3. CASE part' = [part EXCEPT ![0] = Conceal(@)] /\ ipc' = "settings"
  <2>1. part'[0] = Concealed(0) /\ \A r \in Raw : r # 0 => part'[r] = part[r]
    BY <1>1, <1>3, RawUnits DEF Conceal, Positions, ITypeOK
  <2>2. \A u \in PartData : InPlainText(u)'
    BY <1>1, <2>1, RawUnits DEF InPlainText
  <2>3. Cardinality(Damaged') <= LossLimit'
    BY <1>1, <2>2, AllPlain
  <2>4. part'[0] # Plain(0)
    BY <2>1 DEF Plain, Concealed
  <2> QED BY <1>3, <2>3, <2>4 DEF Losses
<1> QED BY <1>2, <1>3 DEF ConcealNTFS

(* The thread takes its position from the backup header: what it takes for lost is what
   was damaged before. *)
LEMMA OpenHeaderLosses ==
    ASSUME Positions, Contents, Losses, Positions', OpenBackupHeader
    PROVE  Losses'
<1> USE DEF Working, Chunked, iDisk, iCount
<1>1. part' = part /\ zeroed' = zeroed /\ encStart' = backupHdr /\ backupHdr' = backupHdr /\ backupHdr # 0
      /\ LossLimit' = LossLimit /\ ipc = "resume" /\ ipc' = "loop" /\ backupHdr \in Nat
  BY InPlaceSizes DEF OpenBackupHeader, LossLimit, Positions, ITypeOK, AreaLimit
<1>2. ASSUME NEW u \in PartData
      PROVE  /\ Sound(u)' <=> Readable(u)
             /\ Sound(u)' /\ u + HeadUnits < backupHdr => InPlainText(u)'
  <2>1. Sound(u)' <=> IF u >= backupHdr - HeadUnits THEN part[u + HeadUnits] = Cipher(u) ELSE InPlainText(u)
    BY <1>1 DEF Sound, InPlainText
  <2>2. Readable(u) <=> IF u >= backupHdr - HeadUnits THEN part[u + HeadUnits] = Cipher(u) ELSE InPlainText(u)
    BY <1>1 DEF Readable, InPlainText
  <2>3. u + HeadUnits < backupHdr => ~(u >= backupHdr - HeadUnits)
    BY <1>1, RawUnits, InPlaceSizes
  <2> QED BY <1>1, <2>1, <2>2, <2>3 DEF InPlainText
<1>3. Lost' = Damaged
  <2>1. Lost' = {u \in PartData \ zeroed : ~Sound(u)'}
    BY <1>1 DEF Lost
  <2> QED BY <1>2, <2>1 DEF Damaged
<1>4. Cardinality(Lost') <= LossLimit'
  BY <1>1, <1>3 DEF Losses
<1>5. OldCopies'
  BY <1>1, <1>2 DEF OldCopies
<1>6. part'[0] # Plain(0)
  BY <1>1 DEF Losses
<1> QED BY <1>1, <1>4, <1>5, <1>6 DEF Losses

(* A unit that cannot be read and is zeroed is not counted; no other unit changes. *)
LEMMA ReadErrorLosses ==
    ASSUME Positions, Contents, Losses, Positions', ReadError
    PROVE  Losses'
<1> USE DEF Working, Chunked, iMem
<1>1. Remaining > 0 /\ encStart' = encStart /\ backupHdr' = backupHdr /\ ipc = "loop" /\ LossLimit' = LossLimit
      /\ UNCHANGED <<partCrashes, staleUpdates>> /\ OldCopies
  BY DEF ReadError, LossLimit, Losses
<1>2. CASE ipc' = "closing" /\ UNCHANGED <<part, zeroed>>
  <2>1. Lost' = Lost /\ OldCopies'
    BY <1>1, <1>2, NothingMoves
  <2>2. part'[0] # Plain(0)
    BY <1>1, <1>2, FirstUnitKept
  <2> QED BY <1>1, <1>2, <2>1, <2>2 DEF Losses
<1>3. ASSUME NEW z \in ReadAt .. ReadAt + WorkChunk - 1, part' = [part EXCEPT ![z] = Noise],
             zeroed' = zeroed \cup {z}, ipc' = "loop"
      PROVE  Losses'
  <2>1. z \in PartData /\ z + HeadUnits < encStart /\ z \in Raw
    BY <1>1, ChunkPlace, RawUnits, InPlaceSizes DEF PartData
  <2>2. \A r \in Raw : r # z => part'[r] = part[r]
    BY <1>3 DEF Positions, ITypeOK
  <2>3. part'[0] = part[0] \/ part'[0] = Noise
    BY <1>3, <2>1, RawUnits DEF Positions, ITypeOK
  <2>4. ASSUME NEW u \in PartData \ zeroed'
        PROVE  /\ Sound(u)' <=> Sound(u)
               /\ InPlainText(u)' <=> InPlainText(u)
    <3>1. part'[u] = part[u] /\ u \in PartData
      BY <1>3, <2>2, <2>4, RawUnits
    <3>2. u >= encStart - HeadUnits => part'[u + HeadUnits] = part[u + HeadUnits]
      <4>1. u >= encStart - HeadUnits => u + HeadUnits # z
        BY <1>1, <2>1, <3>1, SoundUnits
      <4> QED BY <2>2, <3>1, <4>1, RawUnits
    <3> QED BY <1>1, <1>3, <3>1, <3>2 DEF Sound, InPlainText
  <2>5. Cardinality(Lost') <= LossLimit'
    BY <1>1, <1>3, <2>4, SoundKept
  <2>6. OldCopies'
    <3>1. PartData \ zeroed' \subseteq PartData \ zeroed
      BY <1>3
    <3> QED BY <1>1, <1>3, <2>4, <3>1 DEF OldCopies, Kept
  <2>7. part'[0] # Plain(0)
    BY <1>1, <2>3, FirstUnitKept
  <2> QED BY <1>1, <1>3, <2>5, <2>6, <2>7 DEF Losses
<1> QED BY <1>1, <1>2, <1>3 DEF ReadError

(* A thread that stops outside of a chunk with an old header. *)
LEMMA StopOldHeader ==
    ASSUME Positions, Losses, ipc \in Working, ~Chunked, part' = part, zeroed' = zeroed,
           backupHdr' = backupHdr, partCrashes' + staleUpdates' = partCrashes + staleUpdates + 1
    PROVE  Cardinality(Damaged') <= LossLimit'
<1>1. /\ encStart \in Nat /\ backupHdr \in Nat /\ sinceUpdate \in Nat /\ encStart <= backupHdr /\ backupHdr # 0
      /\ sinceUpdate = backupHdr - encStart /\ sinceUpdate < UpdateUnits + ChunkUnits
  BY InPlaceSizes DEF Positions, ITypeOK, AreaLimit, Working
<1>2. CASE OldCopies
  <2>1. \A u \in PartData \ zeroed : Sound(u) /\ u + HeadUnits < backupHdr /\ u < encStart => InPlainText(u)'
    BY <1>2 DEF OldCopies, Kept, InPlainText
  <2>2. backupHdr - HeadUnits - encStart <= UpdateUnits + ChunkUnits - 1 - HeadUnits /\ encStart \in Int
    BY <1>1, InPlaceSizes
  <2> QED BY <1>1, <2>1, <2>2, StopLoses
<1>3. CASE sinceUpdate < UpdateUnits
  <2>1. \A u \in PartData \ zeroed : u < encStart - HeadUnits => u + HeadUnits < encStart
    BY <1>1, RawUnits, InPlaceSizes
  <2>2. \A u \in PartData \ zeroed : Sound(u) /\ u < encStart - HeadUnits => InPlainText(u)'
    BY <2>1, SoundInPlace DEF InPlainText
  <2>3. backupHdr - HeadUnits - (encStart - HeadUnits) <= UpdateUnits + ChunkUnits - 1 - HeadUnits
        /\ encStart - HeadUnits \in Int
    BY <1>1, <1>3, InPlaceSizes
  <2> QED BY <1>1, <2>2, <2>3, StopLoses
<1> QED BY <1>2, <1>3 DEF Losses

LEMMA HeaderUpdateLosses ==
    ASSUME Positions, Contents, Losses, Positions', HeaderUpdates
    PROVE  Losses'
<1> USE DEF Working, Chunked, iDisk, iMem, iCount
<1>1. part' = part /\ zeroed' = zeroed /\ encStart' = encStart /\ partCrashes' = partCrashes
      /\ ipc \in {"update", "last", "closing"} /\ ipc' \in {"next", "finalize", "closing", "idle"}
      /\ part'[0] # Plain(0)
  BY DEF HeaderUpdates, HeaderUpdate, HeaderUpdateFails, Losses
<1>2. ASSUME backupHdr' = encStart, UNCHANGED <<partCrashes, staleUpdates>>, ipc' # "idle"
      PROVE  Losses'
  <2>1. \A u \in PartData : Sound(u)' = Sound(u) /\ InPlainText(u)' = InPlainText(u)
    BY <1>1 DEF Sound, InPlainText
  <2>2. LossLimit' = LossLimit
    BY <1>2 DEF LossLimit
  <2>3. Cardinality(Lost') <= LossLimit'
    BY <1>1, <2>1, <2>2, SoundKept
  <2>4. OldCopies'
    BY <1>1, <1>2, <2>1, SoundInPlace DEF OldCopies
  <2> QED BY <1>1, <1>2, <2>3, <2>4 DEF Losses
<1>3. ASSUME backupHdr' = encStart, UNCHANGED <<partCrashes, staleUpdates>>, ipc' = "idle"
      PROVE  Losses'
  <2>1. Damaged' = Lost
    BY <1>1, <1>3, LostIsDamaged
  <2>2. LossLimit' = LossLimit
    BY <1>3 DEF LossLimit
  <2>3. Cardinality(Damaged') <= LossLimit'
    BY <1>1, <2>1, <2>2 DEF Losses
  <2> QED BY <1>1, <1>3, <2>3 DEF Losses
<1>4. ASSUME ipc \in {"update", "last"}, UNCHANGED <<backupHdr, staleUpdates>>, ipc' = "closing"
      PROVE  Losses'
  <2>1. Lost' = Lost /\ LossLimit' = LossLimit /\ (OldCopies => OldCopies')
    BY <1>1, <1>4, NothingMoves
  <2> QED BY <1>1, <1>4, <2>1 DEF Losses
<1>5. ASSUME ipc = "closing", UNCHANGED backupHdr, staleUpdates' = staleUpdates + 1, ipc' = "idle"
      PROVE  Losses'
  <2>1. partCrashes' + staleUpdates' = partCrashes + staleUpdates + 1
    BY <1>1, <1>5 DEF Positions
  <2>2. Cardinality(Damaged') <= LossLimit'
    BY <1>1, <1>5, <2>1, StopOldHeader
  <2> QED BY <1>1, <1>5, <2>2 DEF Losses
<1>6. \A n \in Nat : n + 0 = n
  OBVIOUS
<1>7. staleUpdates \in Nat
  BY DEF Positions
<1> QED BY <1>2, <1>3, <1>4, <1>5, <1>6, <1>7 DEF HeaderUpdates, HeaderUpdate, HeaderUpdateFails

LEMMA PrimaryHeaderLosses ==
    ASSUME Positions, Contents, Losses, Positions', WritePrimaryHeader
    PROVE  Losses'
<1> USE DEF Working, Chunked, iMem
<1>1. encStart = HeadUnits /\ backupHdr = HeadUnits /\ encStart' = encStart /\ backupHdr' = backupHdr
      /\ zeroed' = zeroed /\ LossLimit' = LossLimit /\ ipc = "finalize" /\ ipc' = "closing"
  BY DEF WritePrimaryHeader, LossLimit, Positions
<1>2. \A r \in Raw : part'[r] = part[r] \/ (r < HeadUnits /\ part'[r] = Noise)
  BY DEF WritePrimaryHeader, Positions, ITypeOK
<1>3. ASSUME NEW u \in PartData
      PROVE  /\ Sound(u)' <=> Sound(u)
             /\ ~(u + HeadUnits < backupHdr)
  <2>1. u >= encStart - HeadUnits /\ ~(u + HeadUnits < HeadUnits) /\ u + HeadUnits \in Raw
    BY <1>1, RawUnits, InPlaceSizes
  <2> QED BY <1>1, <1>2, <2>1 DEF Sound
<1>4. Cardinality(Lost') <= LossLimit'
  BY <1>1, <1>3, SoundKept
<1>5. OldCopies'
  BY <1>1, <1>3 DEF OldCopies
<1>6. part'[0] # Plain(0)
  BY <1>1, <1>2, RawUnits, FirstUnitKept
<1> QED BY <1>1, <1>4, <1>5, <1>6 DEF Losses

(* A crash loses the chunk under way and what was moved since the header was written. *)
LEMMA CrashLosses ==
    ASSUME Positions, Contents, Losses, Positions', PartCrash
    PROVE  Losses'
<1> USE DEF Working, Chunked
<1>1. ipc' = "idle" /\ backupHdr' = backupHdr /\ zeroed' = zeroed /\ encStart' = encStart
      /\ staleUpdates' = staleUpdates /\ partCrashes' = partCrashes + 1
  BY DEF PartCrash
<1>2. partCrashes \in Nat /\ staleUpdates \in Nat
      /\ partCrashes' + staleUpdates' = partCrashes + staleUpdates + 1
  BY <1>1 DEF Positions
<1>3. CASE ipc \notin Working
  <2>1. part' = part /\ Damaged' = Damaged
    <3>1. part' = part
      BY <1>3 DEF PartCrash
    <3>2. \A u \in PartData : Readable(u)' = Readable(u)
      BY <1>1, <3>1 DEF Readable
    <3>3. Damaged' = {u \in PartData \ zeroed : ~Readable(u)'}
      BY <1>1 DEF Damaged
    <3> QED BY <3>1, <3>2, <3>3 DEF Damaged
  <2>2. LossLimit <= LossLimit' /\ LossLimit \in Nat /\ LossLimit' \in Nat
    <3> DEFINE m == UpdateUnits + ChunkUnits - 1 - HeadUnits
               n == partCrashes + staleUpdates
    <3>1. n \in Nat /\ LossLimit = n * m /\ LossLimit' = (n + 1) * m
      BY <1>2 DEF LossLimit
    <3>2. m \in Nat /\ n * m \in Nat /\ (n + 1) * m = n * m + m
      BY <3>1, LimitGrows
    <3> HIDE DEF m, n
    <3> QED BY <3>1, <3>2
  <2>3. Damaged \subseteq PartData
    BY DEF Damaged
  <2>4. Cardinality(Damaged) <= LossLimit
    BY <1>3 DEF Losses
  <2>5. Cardinality(Damaged) \in Nat
    <3>1. IsFiniteSet(PartData)
      BY InPlaceSizes, FS_Interval DEF PartData
    <3> QED BY <2>3, <3>1, FS_Subset, FS_CardinalityType
  <2>6. Cardinality(Damaged') <= LossLimit'
    BY <2>1, <2>2, <2>4, <2>5
  <2> QED BY <1>1, <2>1, <2>6 DEF Losses
<1>4. CASE Chunked
  <2>1. \A r \in Raw : r \notin ChunkTarget(WorkChunk) => part'[r] = part[r]
    BY DEF PartCrash, PartAfter
  <2>2. Remaining > 0 /\ OldCopies /\ ipc \in Working
    BY <1>4 DEF Positions, Losses
  <2>3. \A u \in PartData \ zeroed : u + HeadUnits >= backupHdr => part'[u + HeadUnits] = part[u + HeadUnits]
    <3>1. \A u \in PartData \ zeroed : u + HeadUnits >= backupHdr => u + HeadUnits >= encStart
      BY <2>2, SoundUnits
    <3> QED BY <1>4, <2>1, <3>1, TargetOnly, RawUnits
  <2>4. \A u \in PartData \ zeroed : Sound(u) /\ u + HeadUnits < backupHdr /\ u < WriteAt => InPlainText(u)'
    <3>1. \A u \in PartData : u < WriteAt => part'[u] = part[u]
      BY <1>4, <2>1, TargetOnly, RawUnits
    <3> QED BY <1>4, <2>2, <3>1 DEF OldCopies, Kept, InPlainText
  <2>5. WriteAt \in Int /\ backupHdr - HeadUnits - WriteAt <= UpdateUnits + ChunkUnits - 1 - HeadUnits
        /\ backupHdr # 0
    <3>1. /\ encStart \in Nat /\ backupHdr \in Nat /\ sinceUpdate \in Nat /\ sinceUpdate < UpdateUnits
          /\ sinceUpdate = backupHdr - encStart /\ backupHdr # 0
      BY <1>4, InPlaceSizes DEF Positions, ITypeOK, AreaLimit
    <3> QED BY <2>2, <3>1, ChunkPlace, InPlaceSizes
  <2>6. Cardinality(Damaged') <= LossLimit'
    BY <1>1, <1>2, <2>2, <2>3, <2>4, <2>5, StopLoses
  <2>7. part'[0] # Plain(0)
    <3>1. 0 \in PartData
      BY <2>2, FirstUnitExists
    <3>2. part'[0] = part[0]
      BY <1>4, <2>1, <3>1, TargetOnly, RawUnits
    <3> QED BY <2>2, <3>2, FirstUnitKept
  <2> QED BY <1>1, <2>6, <2>7 DEF Losses
<1>5. CASE ipc \in Working /\ ~Chunked
  <2>1. part' = part
    BY <1>5 DEF PartCrash
  <2>2. Cardinality(Damaged') <= LossLimit'
    BY <1>1, <1>2, <1>5, <2>1, StopOldHeader
  <2>3. part'[0] # Plain(0)
    BY <1>5, <2>1, FirstUnitKept
  <2> QED BY <1>1, <2>2, <2>3 DEF Losses
<1> QED BY <1>3, <1>4, <1>5

LEMMA LossesStep ==
    ASSUME Positions, Contents, Losses, Positions', [INext]_iVars, ~openResume'
    PROVE  Losses'
<1> USE DEF Working, Chunked, iDisk, iMem, iCount
<1>1. ASSUME NEW w \in BOOLEAN, InPlaceBegin(w) \/ ResumeLater(w)
      PROVE  Losses'
  <2>1. Damaged' = Damaged /\ LossLimit' = LossLimit
    BY <1>1, NothingMoves DEF InPlaceBegin, ResumeLater
  <2> QED BY <1>1, <2>1 DEF InPlaceBegin, ResumeLater, RequirementsMet, Losses
<1>2. CASE SaveSettings
  <2>1. Damaged' = Damaged /\ LossLimit' = LossLimit
    BY <1>2, NothingMoves DEF SaveSettings
  <2> QED BY <1>2, <2>1 DEF SaveSettings, Losses
<1>3. ASSUME LoopEnds \/ PauseEnds \/ \E c \in BOOLEAN : NextChunk(c)
      PROVE  Losses'
  <2>1. Lost' = Lost /\ LossLimit' = LossLimit /\ (OldCopies => OldCopies')
    BY <1>3, NothingMoves DEF LoopEnds, PauseEnds, NextChunk
  <2> QED BY <1>3, <2>1 DEF LoopEnds, PauseEnds, NextChunk, Losses
<1>4. CASE NothingToSave
  <2>1. backupHdr' = encStart /\ part' = part /\ zeroed' = zeroed /\ LossLimit' = LossLimit
    BY <1>4 DEF NothingToSave, Positions, LossLimit
  <2>2. Damaged' = Lost
    BY <1>4, <2>1, LostIsDamaged DEF NothingToSave
  <2> QED BY <1>4, <2>1, <2>2 DEF NothingToSave, Losses
<1>5. CASE UNCHANGED iVars
  <2>1. UNCHANGED <<ipc, part, backupHdr, encStart, chunk, zeroed, sinceUpdate, partCrashes, staleUpdates>>
    BY <1>5 DEF iVars
  <2> QED BY <2>1 DEF Losses, Damaged, Readable, Lost, Sound, OldCopies, Kept, InPlainText, LossLimit,
                      ReadAt, WriteAt, WorkChunk, Remaining
<1> QED BY <1>1, <1>2, <1>3, <1>4, <1>5, BackupHeaderLosses, ConcealLosses, OpenHeaderLosses, ReadChunkLosses,
           ReadErrorLosses, WipeChunkLosses, WriteChunkLosses, WriteErrorLosses, HeaderUpdateLosses,
           PrimaryHeaderLosses, CrashLosses DEF INext, InPlaceStep

-----------------------------------------------------------------------------
(* What the thread keeps about the partition, for every size of it. *)
THEOREM InPlaceInvariant == ISpec => []InPlaceInv
<1>1. InPlaceInv /\ [INext]_iVars => InPlaceInv'
  <2> SUFFICES ASSUME InPlaceInv, [INext]_iVars PROVE InPlaceInv'
    OBVIOUS
  <2>1. Positions' /\ Contents'
    BY PositionsStep, ContentsStep DEF InPlaceInv
  <2>2. ~openResume' => ~openResume
    BY DEF INext, InPlaceStep, InPlaceBegin, WriteBackupHeader, ConcealNTFS, SaveSettings, ResumeLater,
           OpenBackupHeader, ReadChunk, ReadError, WipeChunk, WriteChunk, WriteError, HeaderUpdates,
           HeaderUpdate, HeaderUpdateFails, NextChunk, LoopEnds, WritePrimaryHeader, PauseEnds,
           NothingToSave, PartCrash, iVars, iCount
  <2> QED BY <2>1, <2>2, LossesStep DEF InPlaceInv
<1> QED BY <1>1, InitialInv, PTL DEF ISpec

(* The promise of InPlace.c, for every size of the partition, the header area, the chunk
   and the update interval: nothing is lost without a crash, a crash loses at most what
   is under way, and the primary header is written last. *)
THEOREM InPlaceLosesNothing == ISpec => []NothingLost
<1>1. InPlaceInv => NothingLost
  <2> SUFFICES ASSUME InPlaceInv PROVE NothingLost
    OBVIOUS
  <2>1. ITypeOK
    BY DEF InPlaceInv, Positions
  <2>2. CrashLossBounded
    BY DEF InPlaceInv, Losses, CrashLossBounded, LossLimit, Working
  <2>3. NoLossWithoutCrash
    <3> SUFFICES ASSUME ipc = "idle", partCrashes = 0, staleUpdates = 0, ~openResume
                 PROVE  Damaged = {}
      BY DEF NoLossWithoutCrash
    <3>1. Cardinality(Damaged) <= 0
      <4>1. Cardinality(Damaged) <= LossLimit
        BY DEF InPlaceInv, Losses, Working
      <4>2. LossLimit = 0
        BY InPlaceSizes DEF LossLimit
      <4> QED BY <4>1, <4>2
    <3>2. IsFiniteSet(PartData)
      BY InPlaceSizes, FS_Interval DEF PartData
    <3>3. IsFiniteSet(Damaged)
      BY <3>2, FS_Subset DEF Damaged
    <3>4. Cardinality(Damaged) = 0
      BY <3>1, <3>3, FS_CardinalityType
    <3> QED BY <3>3, <3>4, FS_EmptySet
  <2>4. PrimaryHeaderLast
    <3> SUFFICES ASSUME primaryHdr, NEW u \in PartData
                 PROVE  backupHdr = HeadUnits /\ part[u + HeadUnits] \notin {Plain(u + HeadUnits), Concealed(u + HeadUnits)}
      BY DEF PrimaryHeaderLast, InPlaceInv, Positions
    <3>1. backupHdr = HeadUnits /\ backupHdr # 0
      BY InPlaceSizes DEF InPlaceInv, Positions
    <3>2. u + HeadUnits \in Raw /\ u + HeadUnits >= backupHdr
      BY <3>1, RawUnits, InPlaceSizes
    <3> QED BY <3>1, <3>2 DEF InPlaceInv, Contents, InPlainText
  <2> QED BY <2>1, <2>2, <2>3, <2>4 DEF NothingLost
<1> QED BY <1>1, InPlaceInvariant, PTL
=============================================================================
