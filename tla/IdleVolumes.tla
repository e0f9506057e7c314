---------------------------- MODULE IdleVolumes ----------------------------
(***************************************************************************)
(* The dismounting of idle volumes (Mount/Mount.c, DismountIdleVolumes):   *)
(* once a minute the program compares what each volume of its last known   *)
(* list has read and written with what it saw a minute before.             *)
(***************************************************************************)
EXTENDS Naturals

CONSTANTS
    IdleLetters,        \* drive letters
    MaxVolumeIdleTime,  \* minutes
    IdleMounts          \* bound: mounts

ASSUME IdleAssumption == MaxVolumeIdleTime \in Nat /\ IdleMounts \in Nat

VARIABLES
    idleMnt,            \* the id of the volume at each letter, 0: none
    idleKnown,          \* letters of LastKnownMountList
    filesOpen,          \* letters whose volume cannot be locked
    InactivityTime, LastId,
    usedSince,          \* totalBytesRead or totalBytesWritten differ from LastRead, LastWritten
    idleIds,            \* ids given out
    restful             \* history: polls since the volume was mounted or used

idleVars == <<idleMnt, idleKnown, filesOpen, InactivityTime, LastId, usedSince, idleIds, restful>>
Zero == [l \in IdleLetters |-> 0]

IdleInit ==
    /\ idleMnt = Zero /\ idleKnown = {} /\ filesOpen = {} /\ InactivityTime = Zero /\ LastId = Zero
    /\ usedSince = {} /\ idleIds = 0 /\ restful = Zero

Minute(t) == IF t < MaxVolumeIdleTime THEN t + 1 ELSE t
\* Mutant of Unchanged: a volume that took the letter inherits the idle time.
UnchangedAnyId(l) == l \notin usedSince

Unchanged(l) == l \notin usedSince /\ LastId[l] = idleMnt[l]
\* Mutant of IdleLongEnough: tested for equality with the time before this minute.
IdleExactly(l) == InactivityTime[l] = MaxVolumeIdleTime + 1

IdleLongEnough(l) == InactivityTime[l] + 1 >= MaxVolumeIdleTime
DismountIdleVolumes ==
    LET seen == {l \in idleKnown : idleMnt[l] # 0}      \* the others do not answer the query
        idle == {l \in seen : Unchanged(l)}
        gone == {l \in idle : IdleLongEnough(l) /\ l \notin filesOpen}
    IN /\ seen # {}
       /\ idleMnt' = [l \in IdleLetters |-> IF l \in gone THEN 0 ELSE idleMnt[l]]
       /\ InactivityTime' = [l \in IdleLetters |-> CASE l \in idle \ gone -> Minute(InactivityTime[l])
                                                     [] l \in gone \cup (seen \ idle) -> 0
                                                     [] OTHER -> InactivityTime[l]]
       /\ LastId' = [l \in IdleLetters |-> IF l \in seen THEN idleMnt[l] ELSE LastId[l]]
       /\ usedSince' = usedSince \ seen
       /\ restful' = [l \in IdleLetters |-> IF l \in seen THEN Minute(restful[l]) ELSE restful[l]]
       /\ UNCHANGED <<idleKnown, filesOpen, idleIds>>

\* CheckMountList, between two polls.
KnowMounted ==
    /\ idleKnown' = {l \in IdleLetters : idleMnt[l] # 0}
    /\ UNCHANGED <<idleMnt, filesOpen, InactivityTime, LastId, usedSince, idleIds, restful>>

\* Programs use the volumes, and volumes are mounted and dismounted at any time.
UseVolume(l) ==
    /\ idleMnt[l] # 0
    /\ usedSince' = usedSince \cup {l} /\ restful' = [restful EXCEPT ![l] = 0]
    /\ filesOpen' \in {filesOpen \cup {l}, filesOpen \ {l}}
    /\ UNCHANGED <<idleMnt, idleKnown, InactivityTime, LastId, idleIds>>
Exchange(l) ==
    /\ idleIds < IdleMounts
    /\ idleMnt' = [idleMnt EXCEPT ![l] = IF @ = 0 THEN idleIds + 1 ELSE 0]
    /\ idleIds' = IF idleMnt[l] = 0 THEN idleIds + 1 ELSE idleIds
    /\ usedSince' = usedSince \ {l} /\ restful' = [restful EXCEPT ![l] = 0]
    /\ filesOpen' = filesOpen \ {l}
    /\ UNCHANGED <<idleKnown, InactivityTime, LastId>>

IdleNext == DismountIdleVolumes \/ KnowMounted \/ \E l \in IdleLetters : UseVolume(l) \/ Exchange(l)
IdleFairness == WF_idleVars(DismountIdleVolumes) /\ WF_idleVars(KnowMounted)
IdleSpec == IdleInit /\ [][IdleNext]_idleVars
IdleFairSpec == IdleSpec /\ IdleFairness

-----------------------------------------------------------------------------
(* Ids are never given out twice, so the id a poll saw is not that of a later volume,
   and a volume that is still the one of the last poll and was not used since has
   rested for at least as long as DismountIdleVolumes counted. *)
IdleCounted ==
    /\ idleMnt \in [IdleLetters -> Nat] /\ LastId \in [IdleLetters -> Nat] /\ idleIds \in Nat
    /\ InactivityTime \in [IdleLetters -> Nat] /\ restful \in [IdleLetters -> Nat]
    /\ \A l \in IdleLetters :
          /\ idleMnt[l] <= idleIds /\ LastId[l] <= idleIds
          /\ idleMnt[l] # 0 /\ Unchanged(l) => InactivityTime[l] <= restful[l]

(* A volume is dismounted for being idle only when it was not used during
   MaxVolumeIdleTime polls, also when another volume took its letter in between. *)
OnlyIdleDismounted ==
    [][DismountIdleVolumes => \A l \in IdleLetters : idleMnt[l] # 0 /\ idleMnt'[l] = 0 =>
          l \notin usedSince /\ restful[l] + 1 >= MaxVolumeIdleTime]_idleVars

(* A volume that nobody uses any more, and whose files are closed, is dismounted at last. *)
IdleDismounted ==
    \A l \in IdleLetters : []<>(idleMnt[l] = 0 \/ l \in filesOpen \/ l \in usedSince)
=============================================================================
