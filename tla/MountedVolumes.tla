--------------------------- MODULE MountedVolumes ---------------------------
(***************************************************************************)
(* Mounting and unmounting in the driver (Driver/Ntdriver.c, Ntvol.c,      *)
(* Common/Cache.c).  Control requests are serialised by                    *)
(* RootDeviceControlMutex: the request that holds it is mreq.  Each        *)
(* mounted volume has a device, a thread that opens the host and then      *)
(* serves the device control IRPs of the volume, and a remove lock.  The   *)
(* reads and writes of the volume are in EncryptedIoQueue.  A host may be  *)
(* a file on another mounted volume.                                       *)
(***************************************************************************)
EXTENDS Naturals, Sequences, FiniteSets

CONSTANTS
    Drives,            \* drive letters, numbers
    Hosts,             \* files and partitions that host a volume
    HostOn,            \* the host a host lies on (a file on a mounted volume), or NoHost
    OuterPassword,     \* what opens the outer volume of a host,
    HiddenPassword,    \* and the hidden one (NoPassword: there is none)
    MountUsers,        \* the users without administrator rights
    MountRequests,     \* MOUNT_STRUCT: user, host, passwords, protection, caching
    VolIrps,           \* device control IRPs of the volumes
    CacheSize,         \* CACHE_SIZE
    MaxMounts          \* bound: mount requests

NoHost == "noHost"
NoPassword == "noPassword"
System == "system"           \* a system thread: it may access every volume
Requesters == MountUsers \cup {System}

ASSUME MountAssumption ==
    /\ IsFiniteSet(Drives) /\ 0 \notin Drives /\ IsFiniteSet(VolIrps)
    /\ NoHost \notin Hosts /\ HostOn \in [Hosts -> Hosts \cup {NoHost}]
    /\ \A m \in MountRequests : /\ m.by \in Requesters /\ m.host \in Hosts
                               /\ m.protect \in BOOLEAN /\ m.cache \in BOOLEAN
    /\ CacheSize \in Nat \ {0} /\ MaxMounts \in Nat

VARIABLES
    device,            \* VirtualVolumeDeviceObjects
    links,             \* drive letters with a symbolic link
    LastUniqueVolumeId,
    hostHandles,       \* per host: handles of the driver that are open
    CachedPasswords, nPasswordIdx, cacheEmpty,
    mreq,              \* the control request that holds the mutex
    volIrp,            \* per IRP: its state and its drive
    down,              \* IRP_MJ_SHUTDOWN: how far OnShutdownPending got
    mounts,
    orphaned           \* history: a volume was forcibly unmounted under a mounted one

mVars == <<device, links, LastUniqueVolumeId, hostHandles, CachedPasswords, nPasswordIdx,
           cacheEmpty, mreq, volIrp, down, mounts, orphaned>>
cacheVars == <<CachedPasswords, nPasswordIdx, cacheEmpty>>

NoDevice ==
    [thread |-> "none", user |-> System, host |-> NoHost, base |-> 0, id |-> 0, serial |-> 0,
     kind |-> "none", protect |-> FALSE, triggered |-> FALSE, open |-> FALSE, shutting |-> FALSE,
     removing |-> FALSE, locks |-> 0, list |-> <<>>, sem |-> 0, quit |-> FALSE]
Present(d) == device[d].thread # "none"
ChangeDevice(d, v) == device' = [device EXCEPT ![d] = v]
NoRequest == [op |-> "none", pc |-> "idle", by |-> System, drive |-> 0, force |-> FALSE,
              host |-> NoHost, pwd |-> NoPassword, hpwd |-> NoPassword, protect |-> FALSE,
              cache |-> FALSE, maxId |-> 0, triggered |-> FALSE, ret |-> "none"]

MInit ==
    /\ device = [d \in Drives |-> NoDevice] /\ links = {} /\ LastUniqueVolumeId = 0
    /\ hostHandles = [h \in Hosts |-> 0]
    /\ CachedPasswords = [i \in 0 .. CacheSize - 1 |-> NoPassword]
    /\ nPasswordIdx = 0 /\ cacheEmpty = TRUE
    /\ mreq = NoRequest /\ volIrp = [i \in VolIrps |-> [state |-> "new", drive |-> 0, serial |-> 0]]
    /\ down = "up" /\ mounts = 0 /\ orphaned = FALSE

-----------------------------------------------------------------------------
(* Common/Cache.c *)
Cached == {CachedPasswords[i] : i \in DOMAIN CachedPasswords} \ {NoPassword}

AddToCache(c, p) ==     \* c: [slots, idx, empty]
    IF \E i \in DOMAIN c.slots : c.slots[i] = p THEN c
    ELSE [slots |-> [c.slots EXCEPT ![c.idx] = p], idx |-> (c.idx + 1) % CacheSize, empty |-> FALSE]

Stored(c) == /\ CachedPasswords' = c.slots /\ nPasswordIdx' = c.idx /\ cacheEmpty' = c.empty
ThisCache == [slots |-> CachedPasswords, idx |-> nPasswordIdx, empty |-> cacheEmpty]

\* ReadVolumeHeaderWCache: the given password, or without one every cached password.
Tried(p) == IF p # NoPassword THEN {p} ELSE IF cacheEmpty THEN {} ELSE Cached

Opens(h, kind, p) ==
    LET right == IF kind = "outer" THEN OuterPassword[h] ELSE HiddenPassword[h]
    IN  right # NoPassword /\ right \in Tried(p)

Recached(c, p, opened) == IF opened /\ mreq.cache /\ p # NoPassword THEN AddToCache(c, p) ELSE c

-----------------------------------------------------------------------------
(* TC_IOCTL_MOUNT_VOLUME: MountDevice checks that the drive letter is free. *)
MountRequest(d, m) ==
    /\ mreq.op = "none" /\ mounts < MaxMounts /\ down = "up"
    /\ mounts' = mounts + 1
    /\ mreq' = [NoRequest EXCEPT !.op = "mount", !.by = m.by, !.drive = d, !.host = m.host,
                   !.pwd = m.pwd, !.hpwd = m.hpwd, !.protect = m.protect, !.cache = m.cache,
                   !.pc = IF d \in links THEN "return" ELSE "create",
                   !.ret = IF d \in links THEN "driveNotFound" ELSE "none"]
    /\ UNCHANGED <<device, links, LastUniqueVolumeId, hostHandles, cacheVars, volIrp, down, orphaned>>

MountStep(from) == mreq.op = "mount" /\ mreq.pc = from
MountGoTo(pc, ret) == mreq' = [mreq EXCEPT !.pc = pc, !.ret = ret]
\* The passwords are burnt when the request returns; nothing reads them after TCOpenVolume.
Opened(pc, ret) == mreq' = [mreq EXCEPT !.pc = pc, !.ret = ret, !.pwd = NoPassword, !.hpwd = NoPassword]

\* The extension that TCCreateDeviceObject clears and fills in.
NewDevice ==
    [NoDevice EXCEPT !.thread = "opening", !.user = mreq.by, !.host = mreq.host, !.serial = mounts]

\* TCCreateDeviceObject, the SID of the user, TCStartVolumeThread; IoCreateDevice fails on a
\* name that is taken, and may fail for lack of memory.
CreateVolumeDevice ==
    /\ MountStep("create")
    /\ \/ /\ ~Present(mreq.drive)
          /\ ChangeDevice(mreq.drive, NewDevice)
          /\ MountGoTo("opening", "none")
       \/ MountGoTo("return", "osError") /\ UNCHANGED device
    /\ UNCHANGED <<links, LastUniqueVolumeId, hostHandles, cacheVars, volIrp, down, mounts, orphaned>>

\* The volume whose file system holds the host.
BaseOf(h) == {d \in links : device[d].host = HostOn[h]}
HostReachable(h) == HostOn[h] = NoHost \/ BaseOf(h) # {}

\* TCOpenVolume: the outer and then the hidden header.  With protection both must open, each
\* with its own password.  An error closes everything that was opened.
OpenVolumeResult ==
    LET h == mreq.host  outer == Opens(h, "outer", mreq.pwd)
        hidden == Opens(h, "hidden", IF mreq.protect THEN mreq.hpwd ELSE mreq.pwd)
    IN  IF mreq.protect THEN (IF outer /\ hidden THEN "protected" ELSE "wrong")
        ELSE IF outer THEN "outer" ELSE IF hidden THEN "hidden" ELSE "wrong"

CacheAfterOpen ==
    LET h == mreq.host  outer == Opens(h, "outer", mreq.pwd)
        c == Recached(ThisCache, mreq.pwd, outer)
    IN  IF mreq.protect THEN Recached(c, mreq.hpwd, outer /\ Opens(h, "hidden", mreq.hpwd))
        ELSE IF outer THEN c ELSE Recached(c, mreq.pwd, Opens(h, "hidden", mreq.pwd))

\* The types of the volume, its offsets and its protected area are set from the header.
VolumeOpens ==
    LET r == OpenVolumeResult  d == mreq.drive
    IN  /\ MountStep("opening") /\ HostReachable(mreq.host) /\ r # "wrong"
        /\ ChangeDevice(d, [device[d] EXCEPT !.open = TRUE,
               !.base = IF HostOn[mreq.host] = NoHost THEN 0 ELSE CHOOSE b \in BaseOf(mreq.host) : TRUE,
               !.kind = IF r = "hidden" THEN "hidden" ELSE "outer",
               !.protect = (r = "protected")])
        /\ hostHandles' = [hostHandles EXCEPT ![mreq.host] = @ + 1]
        /\ Stored(CacheAfterOpen)
        /\ Opened("queue", "none")
    /\ UNCHANGED <<links, LastUniqueVolumeId, volIrp, down, mounts, orphaned>>

\* No header opens: the label error of TCOpenVolume closes what was opened.
PasswordWrong ==
    /\ MountStep("opening") /\ HostReachable(mreq.host) /\ OpenVolumeResult = "wrong"
    /\ ChangeDevice(mreq.drive, [device[mreq.drive] EXCEPT !.thread = "ended"])
    /\ Stored(CacheAfterOpen)
    /\ Opened("delete", "passwordWrong")
    /\ UNCHANGED <<links, LastUniqueVolumeId, hostHandles, volIrp, down, mounts, orphaned>>

\* The host does not open, has a wrong size or cannot be read.
HostFails ==
    /\ MountStep("opening")
    /\ ChangeDevice(mreq.drive, [device[mreq.drive] EXCEPT !.thread = "ended"])
    /\ Opened("delete", "osError")
    /\ UNCHANGED <<links, LastUniqueVolumeId, hostHandles, cacheVars, volIrp, down, mounts, orphaned>>

TCCloseVolume(d) == hostHandles' = [hostHandles EXCEPT ![device[d].host] = @ - 1]

\* Mutant of StartVolumeQueue: a queue that does not start leaves the host open.
StartVolumeQueueKeepsHost ==
    /\ MountStep("queue")
    /\ \/ /\ ChangeDevice(mreq.drive, [device[mreq.drive] EXCEPT !.thread = "serving"])
          /\ MountGoTo("link", "none")
       \/ /\ ChangeDevice(mreq.drive, [device[mreq.drive] EXCEPT !.thread = "ended", !.open = FALSE])
          /\ MountGoTo("delete", "osError")
    /\ UNCHANGED <<links, LastUniqueVolumeId, hostHandles, cacheVars, volIrp, down, mounts, orphaned>>

StartVolumeQueue ==
    /\ MountStep("queue")
    /\ \/ /\ ChangeDevice(mreq.drive, [device[mreq.drive] EXCEPT !.thread = "serving"])
          /\ MountGoTo("link", "none") /\ UNCHANGED hostHandles
       \/ /\ ChangeDevice(mreq.drive, [device[mreq.drive] EXCEPT !.thread = "ended", !.open = FALSE])
          /\ TCCloseVolume(mreq.drive) /\ MountGoTo("delete", "osError")
    /\ UNCHANGED <<links, LastUniqueVolumeId, cacheVars, volIrp, down, mounts, orphaned>>

\* The volume gets its identifier and the drive letter its link.
MountSucceeds ==
    /\ MountStep("link")
    /\ ChangeDevice(mreq.drive, [device[mreq.drive] EXCEPT !.id = LastUniqueVolumeId])
    /\ LastUniqueVolumeId' = LastUniqueVolumeId + 1
    /\ links' = links \cup {mreq.drive}
    /\ MountGoTo("return", "success")
    /\ UNCHANGED <<hostHandles, cacheVars, volIrp, down, mounts, orphaned>>

\* TCDeleteDeviceObject after a failure.
MountFails ==
    /\ MountStep("delete")
    /\ ChangeDevice(mreq.drive, NoDevice)
    /\ MountGoTo("return", mreq.ret)
    /\ UNCHANGED <<links, LastUniqueVolumeId, hostHandles, cacheVars, volIrp, down, mounts, orphaned>>

-----------------------------------------------------------------------------
(* IsVolumeAccessibleByCurrentUser *)
Accessible(u, d) == u = System \/ device[d].user = u

\* TC_IOCTL_DISMOUNT_VOLUME
UnmountRequest(u, d, force) ==
    /\ mreq.op = "none" /\ down = "up"
    /\ mreq' = [NoRequest EXCEPT !.op = "unmount", !.by = u, !.drive = d, !.force = force,
                   !.pc = IF Present(d) /\ Accessible(u, d) THEN "lock" ELSE "return",
                   !.ret = IF Present(d) /\ Accessible(u, d) THEN "none" ELSE "driveNotFound"]
    /\ UNCHANGED <<device, links, LastUniqueVolumeId, hostHandles, cacheVars, volIrp, down, mounts, orphaned>>

\* TC_IOCTL_DISMOUNT_ALL_VOLUMES, from a user or from OnShutdownPending.
UnmountAllRequest(u, force) ==
    /\ mreq.op = "none"
    /\ IF u = System /\ down = "unmounting" THEN force ELSE down = "up"
    /\ mreq' = [NoRequest EXCEPT !.op = "unmountAll", !.by = u, !.force = force, !.pc = "next",
                                 !.maxId = LastUniqueVolumeId + 1, !.ret = "success"]
    /\ UNCHANGED <<device, links, LastUniqueVolumeId, hostHandles, cacheVars, volIrp, down, mounts, orphaned>>

\* Mutant of FindVolumeWithHighestUniqueId: any volume below the limit is taken.
FindVolumeWithLowestUniqueId(max) ==
    LET cand == {d \in Drives : Present(d) /\ device[d].id <= max}
    IN  IF cand = {} THEN {} ELSE {CHOOSE d \in cand : \A e \in cand : device[e].id >= device[d].id}

FindVolumeWithHighestUniqueId(max) ==
    LET cand == {d \in Drives : Present(d) /\ device[d].id <= max}
    IN  IF cand = {} THEN {} ELSE {CHOOSE d \in cand : \A e \in cand : device[e].id <= device[d].id}

\* One turn of the loop of UnmountAllDevices; maxId is the identifier plus one, as -1 is none.
NextVolume ==
    /\ mreq.op = "unmountAll" /\ mreq.pc = "next"
    /\ LET found == IF mreq.maxId = 0 THEN {} ELSE FindVolumeWithHighestUniqueId(mreq.maxId - 1)
       IN  \/ found = {} /\ mreq' = [mreq EXCEPT !.pc = "return"]
           \/ \E d \in found :
                 mreq' = [mreq EXCEPT !.maxId = device[d].id, !.drive = d,
                              !.pc = IF Accessible(mreq.by, d) THEN "lock" ELSE "next"]
    /\ UNCHANGED <<device, links, LastUniqueVolumeId, hostHandles, cacheVars, volIrp, down, mounts, orphaned>>

UnmountStep(from) == mreq.op \in {"unmount", "unmountAll"} /\ mreq.pc = from
NestedOn(d) == {e \in Drives : Present(e) /\ device[e].open /\ device[e].base = d}

\* UnmountDevice: the file system is locked and dismounted; open files, a host of a mounted
\* volume among them, prevent it unless it is forced.
LockFileSystem ==
    /\ UnmountStep("lock")
    /\ \/ /\ mreq.force \/ NestedOn(mreq.drive) = {}
          /\ mreq' = [mreq EXCEPT !.pc = "shut"]
          /\ orphaned' = (orphaned \/ NestedOn(mreq.drive) # {})
       \/ /\ ~mreq.force
          /\ mreq' = [mreq EXCEPT !.pc = IF mreq.op = "unmount" THEN "return" ELSE "next",
                                  !.ret = "filesOpen"]
          /\ UNCHANGED orphaned
    /\ UNCHANGED <<device, links, LastUniqueVolumeId, hostHandles, cacheVars, volIrp, down, mounts>>

RemoveLink ==
    /\ UnmountStep("shut")
    /\ links' = links \ {mreq.drive}
    /\ ChangeDevice(mreq.drive, [device[mreq.drive] EXCEPT !.shutting = TRUE])
    /\ mreq' = [mreq EXCEPT !.pc = "remove"]
    /\ UNCHANGED <<LastUniqueVolumeId, hostHandles, cacheVars, volIrp, down, mounts, orphaned>>

\* IoReleaseRemoveLockAndWait: new acquisitions fail from here on,
BeginRemoval ==
    /\ UnmountStep("remove")
    /\ ChangeDevice(mreq.drive, [device[mreq.drive] EXCEPT !.removing = TRUE])
    /\ mreq' = [mreq EXCEPT !.pc = "wait"]
    /\ UNCHANGED <<links, LastUniqueVolumeId, hostHandles, cacheVars, volIrp, down, mounts, orphaned>>

\* Mutant of StopVolumeThread: the semaphore is not released.
StopVolumeThreadSilently ==
    /\ UnmountStep("wait") /\ device[mreq.drive].locks = 0
    /\ mreq' = [mreq EXCEPT !.pc = "join", !.triggered = device[mreq.drive].protect
                                                             /\ device[mreq.drive].triggered]
    /\ ChangeDevice(mreq.drive, [device[mreq.drive] EXCEPT !.quit = TRUE])
    /\ UNCHANGED <<links, LastUniqueVolumeId, hostHandles, cacheVars, volIrp, down, mounts, orphaned>>

\* and it returns when nobody holds the lock.  TCStopVolumeThread wakes the thread.
StopVolumeThread ==
    /\ UnmountStep("wait") /\ device[mreq.drive].locks = 0
    /\ mreq' = [mreq EXCEPT !.pc = "join", !.triggered = device[mreq.drive].protect
                                                             /\ device[mreq.drive].triggered]
    /\ ChangeDevice(mreq.drive, [device[mreq.drive] EXCEPT !.quit = TRUE, !.sem = @ + 1])
    /\ UNCHANGED <<links, LastUniqueVolumeId, hostHandles, cacheVars, volIrp, down, mounts, orphaned>>

\* TCDeleteDeviceObject.  UnmountAllDevices stops after a volume whose protection was
\* triggered, so that its caller can say so.
DeleteVolumeDevice ==
    /\ UnmountStep("join") /\ device[mreq.drive].thread = "ended"
    /\ ChangeDevice(mreq.drive, NoDevice)
    /\ mreq' = [mreq EXCEPT !.pc = IF mreq.op = "unmount" \/ mreq.triggered THEN "return" ELSE "next",
                            !.ret = IF mreq.op = "unmount" THEN "success" ELSE @]
    /\ UNCHANGED <<links, LastUniqueVolumeId, hostHandles, cacheVars, volIrp, down, mounts, orphaned>>

\* TC_IOCTL_WIPE_PASSWORD_CACHE
WipeCache(u) ==
    /\ mreq.op = "none" /\ IF u = System THEN down = "wiping" ELSE down = "up"
    /\ CachedPasswords' = [i \in DOMAIN CachedPasswords |-> NoPassword]
    /\ nPasswordIdx' = 0 /\ cacheEmpty' = TRUE
    /\ down' = IF u = System THEN "down" ELSE down
    /\ UNCHANGED <<device, links, LastUniqueVolumeId, hostHandles, mreq, volIrp, mounts, orphaned>>

(* IRP_MJ_SHUTDOWN: OnShutdownPending asks for the unmounting of all volumes, forced and
   from a system thread, again and again while a volume reports that its protection was
   triggered, or the request could not be allocated; then it wipes the cache.  The system
   sends it when the processes of the users have ended. *)
Shutdown ==
    /\ down = "up" /\ down' = "unmounting"
    /\ UNCHANGED <<device, links, LastUniqueVolumeId, hostHandles, cacheVars, mreq, volIrp, mounts, orphaned>>

ReturnRequest ==
    /\ mreq.pc = "return"
    /\ down' = IF down = "unmounting" /\ mreq.by = System /\ mreq.op = "unmountAll" /\ mreq.force
                    /\ ~mreq.triggered
               THEN "wiping" ELSE down
    /\ mreq' = NoRequest
    /\ UNCHANGED <<device, links, LastUniqueVolumeId, hostHandles, cacheVars, volIrp, mounts, orphaned>>

-----------------------------------------------------------------------------
(* A device control IRP of a volume, TCDispatchQueueIRP: the check of bShuttingDown, the
   remove lock, the insertion and the semaphore. *)
Completed(how) == [state |-> how, drive |-> 0, serial |-> 0]
DispatchVolumeIrp(i, d) ==
    /\ volIrp[i].state = "new" /\ Present(d) /\ device[d].thread \in {"serving", "draining"}
    /\ ~(MountStep("link") /\ mreq.drive = d)          \* DO_DEVICE_INITIALIZING
    /\ volIrp' = [volIrp EXCEPT ![i] = IF device[d].shutting THEN Completed("refused")
                              ELSE [state |-> "checked", drive |-> d, serial |-> device[d].serial]]
    /\ UNCHANGED <<device, links, LastUniqueVolumeId, hostHandles, cacheVars, mreq, down, mounts, orphaned>>

\* The device object stays in memory while the IRP is in its dispatch routine.
AcquireRemoveLock(i) ==
    LET d == volIrp[i].drive
        free == Present(d) /\ device[d].serial = volIrp[i].serial /\ ~device[d].removing
    IN  /\ volIrp[i].state = "checked"
        /\ volIrp' = [volIrp EXCEPT ![i] = IF free THEN [@ EXCEPT !.state = "locked"] ELSE Completed("refused")]
        /\ IF free THEN ChangeDevice(d, [device[d] EXCEPT !.locks = @ + 1]) ELSE UNCHANGED device
        /\ UNCHANGED <<links, LastUniqueVolumeId, hostHandles, cacheVars, mreq, down, mounts, orphaned>>

QueueVolumeIrp(i) ==
    LET d == volIrp[i].drive
    IN  /\ volIrp[i].state = "locked"
        /\ volIrp' = [volIrp EXCEPT ![i].state = "listed"]
        /\ ChangeDevice(d, [device[d] EXCEPT !.list = Append(@, i), !.sem = @ + 1])
        /\ UNCHANGED <<links, LastUniqueVolumeId, hostHandles, cacheVars, mreq, down, mounts, orphaned>>

(* VolumeThreadProc: it waits for the semaphore, empties the list, and looks at
   bThreadShouldQuit: then it stops the queue and closes the volume. *)
WakeVolumeThread(d) ==
    /\ device[d].thread = "serving" /\ device[d].sem > 0
    /\ ChangeDevice(d, [device[d] EXCEPT !.sem = @ - 1, !.thread = "draining"])
    /\ UNCHANGED <<links, LastUniqueVolumeId, hostHandles, cacheVars, mreq, volIrp, down, mounts, orphaned>>

\* ProcessVolumeDeviceControlIrp uses the host and the CRYPTO_INFO of the volume.
VolumeAnswer(d) == IF device[d].open THEN "done" ELSE "bad"

ProcessVolumeIrp(d) ==
    /\ device[d].thread = "draining" /\ device[d].list # <<>>
    /\ ChangeDevice(d, [device[d] EXCEPT !.list = Tail(@), !.locks = @ - 1])
    /\ volIrp' = [volIrp EXCEPT ![Head(device[d].list)] =
                                  Completed(VolumeAnswer(d))]
    /\ UNCHANGED <<links, LastUniqueVolumeId, hostHandles, cacheVars, mreq, down, mounts, orphaned>>

VolumeListEmpty(d) ==
    /\ device[d].thread = "draining" /\ device[d].list = <<>>
    /\ IF device[d].quit
       THEN /\ ChangeDevice(d, [device[d] EXCEPT !.thread = "ended", !.open = FALSE])
            /\ TCCloseVolume(d)
       ELSE /\ ChangeDevice(d, [device[d] EXCEPT !.thread = "serving"])
            /\ UNCHANGED hostHandles
    /\ UNCHANGED <<links, LastUniqueVolumeId, cacheVars, mreq, volIrp, down, mounts, orphaned>>

\* A write would have damaged the hidden volume (EncryptedIoQueue.c, MainThreadProc).
TriggerProtection(d) ==
    /\ Present(d) /\ device[d].thread = "serving" /\ device[d].protect
    /\ ~device[d].triggered /\ ~device[d].shutting
    /\ ChangeDevice(d, [device[d] EXCEPT !.triggered = TRUE])
    /\ UNCHANGED <<links, LastUniqueVolumeId, hostHandles, cacheVars, mreq, volIrp, down, mounts, orphaned>>

-----------------------------------------------------------------------------
RequestSteps ==
    \/ CreateVolumeDevice \/ VolumeOpens \/ PasswordWrong \/ HostFails \/ StartVolumeQueue \/ MountSucceeds \/ MountFails
    \/ NextVolume \/ LockFileSystem \/ RemoveLink \/ BeginRemoval \/ StopVolumeThread
    \/ DeleteVolumeDevice \/ ReturnRequest
IrpSteps(i) == AcquireRemoveLock(i) \/ QueueVolumeIrp(i)
VolumeThread(d) == WakeVolumeThread(d) \/ ProcessVolumeIrp(d) \/ VolumeListEmpty(d)
ShutdownSteps == UnmountAllRequest(System, TRUE) \/ WipeCache(System)

MNext ==
    \/ \E d \in Drives, m \in MountRequests : MountRequest(d, m)
    \/ \E u \in MountUsers, d \in Drives, f \in BOOLEAN : UnmountRequest(u, d, f)
    \/ \E u \in Requesters, f \in BOOLEAN : UnmountAllRequest(u, f)
    \/ \E u \in Requesters : WipeCache(u)
    \/ Shutdown \/ RequestSteps
    \/ \E i \in VolIrps, d \in Drives : DispatchVolumeIrp(i, d)
    \/ \E i \in VolIrps : IrpSteps(i)
    \/ \E d \in Drives : VolumeThread(d) \/ TriggerProtection(d)

MSpec == MInit /\ [][MNext]_mVars

(* Threads are scheduled, and the loop of OnShutdownPending goes on: the processes of the
   users have ended by then, so nobody else asks for the mutex. *)
MountFairness ==
    /\ WF_mVars(RequestSteps) /\ \A i \in VolIrps : WF_mVars(IrpSteps(i))
    /\ \A d \in Drives : WF_mVars(VolumeThread(d))
    /\ WF_mVars(ShutdownSteps /\ down # "up")
MFairSpec == MSpec /\ MountFairness

-----------------------------------------------------------------------------
(* The types of the request and the IRPs; ids are below the next one. *)
MTypeOK ==
    /\ mreq.by \in Requesters /\ links \subseteq Drives /\ down \in {"up", "unmounting", "wiping", "down"}
    /\ nPasswordIdx \in 0 .. CacheSize - 1
    /\ \A i \in VolIrps : volIrp[i].state \in {"new", "refused", "checked", "locked", "listed", "done"}
    /\ \A d \in Drives : Present(d) => device[d].id <= LastUniqueVolumeId /\ device[d].locks >= 0

(* Between requests the drive letters, the devices and the open hosts agree: no error path
   of MountDevice, TCStartVolumeThread or TCOpenVolume leaves a device without a volume, a
   link without a device or an open host behind. *)
NothingLeftBehind ==
    mreq.op = "none" =>
        /\ links = {d \in Drives : Present(d)}
        /\ \A d \in links : device[d].open /\ ~device[d].quit
        /\ \A h \in Hosts : hostHandles[h] = Cardinality({d \in links : device[d].host = h})

(* A volume is closed, and its device deleted, only when no IRP that passed the remove lock
   is left: every IRP in the list is processed on an open volume. *)
LockedIrpsHaveVolume ==
    \A i \in VolIrps : volIrp[i].state \in {"locked", "listed"} =>
        LET v == device[volIrp[i].drive]
        IN  Present(volIrp[i].drive) /\ v.open /\ v.serial = volIrp[i].serial

(* No two volumes have the same identifier, so that the loop of UnmountAllDevices, which
   goes down by identifiers, meets every volume. *)
UniqueIds ==
    \A d, e \in links : d # e => device[d].id # device[e].id

(* Without force a mounted volume never loses the volume its host is on, and unmounting all
   volumes that the caller may access never has to force that: nested volumes go first. *)
NestedFirst ==
    [][orphaned' /\ ~orphaned =>
          /\ mreq.force
          /\ mreq.op = "unmount" \/ \E e \in NestedOn(mreq.drive) : ~Accessible(mreq.by, e)]_mVars

(* What is mounted is what the passwords open: protection means that the hidden volume was
   really found, and a hidden volume is never mounted for writing as its outer volume. *)
MountedAsAsked ==
    \A d \in links : LET v == device[d] IN
        /\ v.protect => v.kind = "outer" /\ HiddenPassword[v.host] # NoPassword
        /\ v.triggered => v.protect

(* The cache holds a password at most once, and its flag says whether it holds one. *)
CacheConsistent ==
    /\ \A i, j \in DOMAIN CachedPasswords :
          i # j /\ CachedPasswords[i] # NoPassword => CachedPasswords[i] # CachedPasswords[j]
    /\ cacheEmpty <=> Cached = {}
    /\ \A i \in DOMAIN CachedPasswords :
          i < nPasswordIdx => CachedPasswords[i] # NoPassword

(* When the system shuts down all volumes are unmounted and the cache is wiped, although the
   request stops at every volume whose protection was triggered. *)
ShutdownComplete == down = "down" => links = {} /\ Cached = {} /\ \A h \in Hosts : hostHandles[h] = 0

(* A shutdown ends, every request returns, and every IRP is completed. *)
ShutdownEnds == down = "unmounting" ~> down = "down"
VolumeIrpsComplete == \A i \in VolIrps : volIrp[i].state = "checked" ~> volIrp[i].state \in {"done", "refused"}

(* The driver's volumes: nothing is left of a failed mount, locked IRPs have their
   volume, identifiers are unique, a volume is mounted as asked and shut-down is
   complete. *)
DriverVolumesSound ==
    /\ MTypeOK
    /\ NothingLeftBehind
    /\ LockedIrpsHaveVolume
    /\ UniqueIds
    /\ MountedAsAsked
    /\ CacheConsistent
    /\ ShutdownComplete

(* Shut-down ends, and every IRP of a mounted volume is completed. *)
DriverLive == ShutdownEnds /\ VolumeIrpsComplete
=============================================================================
