----------------------------- MODULE UnixMounts -----------------------------
(***************************************************************************)
(* Mounting and dismounting on Linux: CoreUnix.cpp and CoreLinux.cpp, which *)
(* run umount, losetup, dmsetup and mount one after the other, and the      *)
(* FUSE service of every volume (FuseService.cpp), whose signal handler     *)
(* dismounts the volume on its own when the system shuts down.              *)
(*                                                                         *)
(* Actor 0 is the core, which serves one request at a time; actor i > 0 is  *)
(* the signal handler of the volume at auxiliary mount point i.             *)
(***************************************************************************)
EXTENDS Naturals, Sequences, FiniteSets, SequencesExt

CONSTANTS
    UxHosts,      \* volume hosts; host 1 is a file, the others are devices
    UxSlots,      \* slot numbers
    UxLoops,      \* loop devices
    UxCascades,   \* numbers of ciphers of an encryption algorithm
    MaxUxOps,     \* bound: requests to the core
    MaxUxFaults   \* bound: commands that fail

VARIABLES
    mtab,     \* auxiliary mounts in the order of /etc/mtab, each with what its service knows
    loops,    \* loop device -> what it is attached to, and for which volume (history)
    dms,      \* devices of the device mapper: [name, under, of]
    fs,       \* mounted file systems: [dev, mp, of]; the mount point is a slot number
    act,      \* actor -> what it does
    uxLog,    \* history: see the properties
    uxCount   \* counters: requests, faults

uxVars == <<mtab, loops, dms, fs, act, uxLog, uxCount>>

AuxIndexes == 1 .. Cardinality(UxHosts)
UxActors == {0} \cup AuxIndexes
NoDev == <<"none", 0, 0>>
LoopDev(n) == <<"loop", n, 0>>
\* /dev/mapper/ciphershed<slot>, and _0, _1, ... below it in a cascade.
MapperDev(slot, k) == <<"dm", slot, k>>
FileHosted(h) == h = 1
HostDev(h) == <<"host", h, 0>>
ImageOf(i) == <<"image", i, 0>>
Detached == [on |-> NoDev, of |-> 0]
NoInfo == [idx |-> 0, host |-> 0, slot |-> 0, vdev |-> NoDev, loop |-> NoDev, mp |-> 0]
UxIdle == [at |-> "idle", host |-> 0, slot |-> 0, native |-> FALSE, ciphers |-> 0, noFs |-> FALSE, idx |-> 0,
              loop |-> NoDev, dev |-> NoDev, made |-> 0, fsDone |-> FALSE, info |-> NoInfo, del |-> NoDev, undo |-> FALSE]

UxInit ==
    /\ mtab = <<>> /\ loops = [n \in UxLoops |-> Detached] /\ dms = {} /\ fs = {}
    /\ act = [a \in UxActors |-> UxIdle]
    /\ uxLog = {} /\ uxCount = [ops |-> 0, faults |-> 0]

UxEntries == ToSet(mtab)
UxExists(dev) ==
    \/ dev[1] = "loop" /\ loops[dev[2]] # Detached
    \/ \E d \in dms : d.name = dev
\* A device cannot be removed while another one or a file system uses it.
UxBusy(dev) == (\E d \in dms : d.under = dev) \/ (\E f \in fs : f.dev = dev)
\* The mount point of a listed volume is looked up by its virtual device.
WithMountPoint(e) ==
    LET on == {f \in fs : f.dev = e.vdev /\ e.vdev # NoDev}
    IN [idx |-> e.idx, host |-> e.host, slot |-> e.slot, vdev |-> e.vdev, loop |-> e.loop,
        mp |-> IF on = {} THEN 0 ELSE (CHOOSE f \in on : TRUE).mp]
GetMountedVolumes == [i \in 1 .. Len(mtab) |-> WithMountPoint(mtab[i])]

UxStep(a, r) == act' = [act EXCEPT ![a] = r]
UxAt(a, s) == act[a].at = s
UxGo(a, s) == UxStep(a, [act[a] EXCEPT !.at = s])
NoFault == UNCHANGED uxCount
UxFault == uxCount.faults < MaxUxFaults /\ uxCount' = [uxCount EXCEPT !.faults = @ + 1]
Kernel == <<mtab, loops, dms, fs>>

\* Mutant of IsSlotNumberAvailable: only the mount point is looked at.
SlotByMountPoint(s) == \A f \in fs : f.mp # s

-----------------------------------------------------------------------------
(* MountVolume of the core. *)
IsSlotNumberAvailable(s) == (\A e \in UxEntries : e.slot # s) /\ (\A f \in fs : f.mp # s)
\* The slot is the first free one (one that is asked for differs in the number
\* only); then it is checked that the host is not mounted.
RequestMount(h, native, ciphers, noFs) ==
    /\ UxAt(0, "idle") /\ uxCount.ops < MaxUxOps
    /\ \A e \in UxEntries : e.host # h
    /\ \E s \in UxSlots :
          /\ IsSlotNumberAvailable(s) /\ \A t \in UxSlots : t < s => ~IsSlotNumberAvailable(t)
          /\ UxStep(0, [UxIdle EXCEPT !.at = "open", !.host = h, !.slot = s, !.native = native,
                                         !.ciphers = ciphers, !.noFs = noFs])
    /\ uxCount' = [uxCount EXCEPT !.ops = @ + 1] /\ UNCHANGED <<Kernel, uxLog>>
OpenVolumeHost ==
    /\ UxAt(0, "open")
    /\ (UxGo(0, "fuse") /\ NoFault) \/ (UxStep(0, UxIdle) /\ UxFault)
    /\ UNCHANGED <<Kernel, uxLog>>
\* The first free mount point for the service, and the service itself.
FuseMount ==
    /\ UxAt(0, "fuse")
    /\ LET i == CHOOSE i \in AuxIndexes : (\A e \in UxEntries : e.idx # i)
                                          /\ \A j \in 1 .. i - 1 : \E e \in UxEntries : e.idx = j
           r == act[0]
           e == [idx |-> i, host |-> r.host, slot |-> r.slot, vdev |-> NoDev, loop |-> NoDev]
       IN \/ /\ mtab' = Append(mtab, e) /\ NoFault
             /\ UxStep(0, [r EXCEPT !.idx = i, !.at = IF FileHosted(r.host) \/ ~r.native THEN "loop" ELSE "mapper"])
          \/ /\ UxStep(0, UxIdle) /\ UxFault /\ UNCHANGED mtab
    /\ UNCHANGED <<loops, dms, fs, uxLog>>

\* Where an exception leads: MountVolumeNative has a handler of its own, which
\* the loop device is attached outside of.
UxThrows(r) == [r EXCEPT !.at = IF r.native /\ r.at # "loop" THEN "undoFs" ELSE "undoAux"]
\* The host itself is attached for the kernel's cryptography, else the image of the service.
AttachFileToLoopDevice ==
    /\ UxAt(0, "loop")
    /\ LET r == act[0]
           free == {n \in UxLoops : loops[n] = Detached}
           n == CHOOSE n \in free : \A m \in free : n <= m
       IN \/ /\ free # {} /\ NoFault
             /\ loops' = [loops EXCEPT ![n] = [on |-> IF r.native THEN HostDev(r.host) ELSE ImageOf(r.idx), of |-> r.idx]]
             /\ UxStep(0, [r EXCEPT !.loop = LoopDev(n), !.at = IF r.native THEN "mapper" ELSE "send"])
          \/ ((free = {} /\ NoFault) \/ UxFault) /\ UxStep(0, UxThrows(r)) /\ UNCHANGED loops
    /\ UNCHANGED <<mtab, dms, fs, uxLog>>
\* One device per cipher, the lowest one first; the last one bears the name of the slot.
DmCreate ==
    /\ UxAt(0, "mapper")
    /\ LET r == act[0]
           name == MapperDev(r.slot, r.ciphers - r.made - 1)
           under == IF r.made > 0 THEN r.dev ELSE IF r.loop = NoDev THEN HostDev(r.host) ELSE r.loop
       IN \/ /\ ~UxExists(name) /\ NoFault /\ UNCHANGED uxLog
             /\ dms' = dms \cup {[name |-> name, under |-> under, of |-> r.idx]}
             /\ UxStep(0, [r EXCEPT !.dev = name, !.made = @ + 1,
                                    !.at = IF r.made + 1 = r.ciphers THEN "test" ELSE "mapper"])
          \/ /\ (UxExists(name) /\ NoFault) \/ UxFault
             /\ UxStep(0, UxThrows([r EXCEPT !.dev = name])) /\ UNCHANGED dms
             /\ uxLog' = IF r.made > 0 THEN uxLog \cup {"leak"} ELSE uxLog
    /\ UNCHANGED <<mtab, loops, fs>>
\* The last sector is read through the new device and through the program.
TestNativeDevice ==
    /\ UxAt(0, "test")
    /\ \/ /\ UxGo(0, IF act[0].noFs THEN "send" ELSE "mount") /\ NoFault
       \/ /\ UxStep(0, UxThrows(act[0])) /\ UxFault
    /\ UNCHANGED <<Kernel, uxLog>>
MountFilesystem ==
    /\ UxAt(0, "mount")
    /\ LET r == act[0]
           dev == IF r.native THEN r.dev ELSE r.loop
       IN \/ /\ NoFault /\ (\A f \in fs : f.mp # r.slot) /\ UxExists(dev)
             /\ fs' = fs \cup {[dev |-> dev, mp |-> r.slot, of |-> r.idx]}
             /\ UxStep(0, [r EXCEPT !.fsDone = TRUE, !.at = IF r.native THEN "send" ELSE "check"])
          \/ /\ (((\E f \in fs : f.mp = r.slot) \/ ~UxExists(dev)) /\ NoFault) \/ UxFault
             /\ UxStep(0, UxThrows(r)) /\ UNCHANGED fs
    /\ UNCHANGED <<mtab, loops, dms, uxLog>>
\* The service is told once which devices belong to the volume; for a volume
\* on a device the "loop device" is the device itself.
SendAuxDeviceInfo ==
    /\ UxAt(0, "send")
    /\ LET r == act[0]
           at == {k \in 1 .. Len(mtab) : mtab[k].idx = r.idx /\ mtab[k].vdev = NoDev}
       IN \/ /\ at # {} /\ NoFault
             /\ mtab' = [k \in 1 .. Len(mtab) |->
                           IF k \in at
                           THEN [mtab[k] EXCEPT !.vdev = IF r.native THEN r.dev ELSE r.loop,
                                                !.loop = IF r.loop = NoDev THEN HostDev(r.host) ELSE r.loop]
                           ELSE mtab[k]]
             /\ UxGo(0, IF r.native \/ r.noFs THEN "check" ELSE "mount") /\ UNCHANGED loops
          \/ /\ (at = {} /\ NoFault) \/ UxFault
             /\ UxStep(0, UxThrows(r)) /\ UNCHANGED mtab
             /\ loops' = IF r.native \/ UxBusy(r.loop) THEN loops ELSE [loops EXCEPT ![r.loop[2]] = Detached]
    /\ UNCHANGED <<dms, fs, uxLog>>
MountDone ==
    /\ UxAt(0, "check") /\ UxStep(0, UxIdle) /\ UNCHANGED <<Kernel, uxLog, uxCount>>

-----------------------------------------------------------------------------
(* The handlers of exceptions.  What fails here is passed over. *)
UndoFilesystem ==
    /\ UxAt(0, "undoFs")
    /\ LET r == act[0]
           own == {f \in fs : f.mp = r.slot}
       IN \/ fs' = (IF r.fsDone THEN fs \ own ELSE fs) /\ NoFault /\ UNCHANGED uxLog
          \/ r.fsDone /\ UxFault /\ uxLog' = uxLog \cup {"leak"} /\ UNCHANGED fs
    /\ UxStep(0, [act[0] EXCEPT !.at = IF act[0].made > 0 THEN "remove" ELSE "detach", !.undo = TRUE,
                                !.info = [NoInfo EXCEPT !.vdev = act[0].dev, !.idx = act[0].idx, !.loop = act[0].loop],
                                !.del = act[0].dev])
    /\ UNCHANGED <<mtab, loops, dms>>
\* The volume is looked up by its path and dismounted as a whole.
UndoAux ==
    /\ UxAt(0, "undoAux")
    /\ LET l == SelectSeq(GetMountedVolumes, LAMBDA e : e.host = act[0].host)
       IN IF l = <<>> THEN UxStep(0, UxIdle)
          ELSE UxStep(0, [act[0] EXCEPT !.at = "umount", !.info = Head(l), !.del = Head(l).vdev, !.undo = FALSE])
    /\ UNCHANGED <<Kernel, uxLog, uxCount>>

-----------------------------------------------------------------------------
(* DismountVolume, by the core or by a signal handler. *)
RequestDismount(e) ==
    /\ UxAt(0, "idle") /\ e \in UxEntries /\ uxCount.ops < MaxUxOps
    /\ UxStep(0, [UxIdle EXCEPT !.at = "umount", !.info = WithMountPoint(e), !.del = e.vdev])
    /\ uxCount' = [uxCount EXCEPT !.ops = @ + 1] /\ UNCHANGED <<Kernel, uxLog>>
\* OnSignal of the service at i: the volume is looked up by the slot number.
OnSignal(i) ==
    /\ UxAt(i, "idle") /\ \E k \in 1 .. Len(mtab) : mtab[k].idx = i /\ "down" \in uxLog
    /\ LET me == CHOOSE e \in UxEntries : e.idx = i
           l == SelectSeq(GetMountedVolumes, LAMBDA e : e.slot = me.slot)
       IN UxStep(i, [UxIdle EXCEPT !.at = "umount", !.info = Head(l), !.del = Head(l).vdev])
    /\ uxLog' = IF act[0].idx = i THEN uxLog \cup {"raced"} ELSE uxLog
    /\ UNCHANGED <<Kernel, uxCount>>
\* The system goes down; the core gets no more requests.
UxShutdown ==
    /\ uxLog' = uxLog \cup {"down"} /\ uxCount' = [uxCount EXCEPT !.ops = MaxUxOps]
    /\ UNCHANGED <<Kernel, act>>

\* An exception out of DismountVolume ends the request or the handler's process.
DismountThrows(a) == UxStep(a, IF a = 0 THEN UxIdle ELSE [UxIdle EXCEPT !.at = "exited"])
\* What belongs to another volume that is mounted, not to one that left it behind.
Mine(a, of) ==
    IF of # act[a].info.idx /\ (\E e \in UxEntries : e.idx = of) THEN uxLog \cup {"harmed"} ELSE uxLog
DismountFilesystem(a) ==
    /\ UxAt(a, "umount")
    /\ LET on == {f \in fs : f.mp = act[a].info.mp}
       IN \/ act[a].info.mp = 0 /\ UxGo(a, "remove") /\ NoFault /\ UNCHANGED <<fs, uxLog>>
          \/ /\ act[a].info.mp # 0 /\ on # {} /\ NoFault /\ fs' = fs \ on
             /\ uxLog' = Mine(a, (CHOOSE f \in on : TRUE).of) /\ UxGo(a, "remove")
          \/ /\ act[a].info.mp # 0 /\ ((on = {} /\ NoFault) \/ UxFault)
             /\ DismountThrows(a) /\ UNCHANGED <<fs, uxLog>>
    /\ UNCHANGED <<mtab, loops, dms>>
\* dmsetup is tried again 20 times; the devices of a cascade follow one another.
DismountNativeVolume(a) ==
    /\ UxAt(a, "remove")
    /\ LET dev == act[a].del
           d == {x \in dms : x.name = dev}
           passed == UxGo(a, "detach")
       IN \/ (dev[1] # "dm" \/ d = {}) /\ passed /\ NoFault /\ UNCHANGED <<dms, uxLog>>
          \/ /\ d # {} /\ ~UxBusy(dev) /\ NoFault /\ dms' = dms \ d
             /\ uxLog' = Mine(a, (CHOOSE x \in d : TRUE).of)
             /\ UxStep(a, [act[a] EXCEPT !.del = MapperDev(dev[2], dev[3] + 1)])
          \/ /\ d # {} /\ ((UxBusy(dev) /\ NoFault) \/ UxFault) /\ UNCHANGED dms
             /\ IF act[a].undo THEN passed /\ uxLog' = uxLog \cup {"leak"}
                ELSE DismountThrows(a) /\ uxLog' = uxLog \cup {"half"} \cup (IF dev[3] > 0 THEN {"leak"} ELSE {})
    /\ UNCHANGED <<mtab, loops, fs>>
\* losetup is tried again 5 times, and its failure passed over.
DetachLoopDevice(a) ==
    /\ UxAt(a, "detach")
    /\ LET dev == act[a].info.loop
           next == [act[a] EXCEPT !.at = IF act[a].undo THEN "undoAux" ELSE "auxUmount"]
           attached == dev[1] = "loop" /\ loops[dev[2]] # Detached
       IN \/ ~attached /\ UxStep(a, next) /\ NoFault /\ UNCHANGED <<loops, uxLog>>
          \/ /\ attached /\ ~UxBusy(dev) /\ NoFault /\ loops' = [loops EXCEPT ![dev[2]] = Detached]
             /\ uxLog' = Mine(a, loops[dev[2]].of) /\ UxStep(a, next)
          \/ /\ attached /\ ((UxBusy(dev) /\ NoFault) \/ UxFault) /\ UxStep(a, next)
             /\ uxLog' = uxLog \cup {"leak"} /\ UNCHANGED loops
    /\ UNCHANGED <<mtab, dms, fs>>
\* The service is told to end by umount, tried again 10 times; the image cannot be in use.
DismountAux(a) ==
    /\ UxAt(a, "auxUmount")
    /\ LET i == act[a].info.idx
           listed == \E e \in UxEntries : e.idx = i
           inUse == \E n \in UxLoops : loops[n].on = ImageOf(i)
       IN \/ /\ listed /\ ~inUse /\ NoFault
             /\ mtab' = SelectSeq(mtab, LAMBDA e : e.idx # i) /\ UNCHANGED uxLog
             /\ UxStep(a, IF a = 0 THEN UxIdle ELSE [UxIdle EXCEPT !.at = "exited"])
          \/ /\ ((~listed \/ inUse) /\ NoFault) \/ UxFault
             /\ DismountThrows(a) /\ uxLog' = uxLog \cup {"half"} /\ UNCHANGED mtab
    /\ UNCHANGED <<loops, dms, fs>>
\* The handler's process ends with the service it belongs to.
HandlerEnds(i) ==
    /\ UxAt(i, "exited") /\ (\A e \in UxEntries : e.idx # i) /\ UxStep(i, UxIdle)
    /\ UNCHANGED <<Kernel, uxLog, uxCount>>

UxDismount(a) == DismountFilesystem(a) \/ DismountNativeVolume(a) \/ DetachLoopDevice(a) \/ DismountAux(a)
UxCore ==
    \/ OpenVolumeHost \/ FuseMount \/ AttachFileToLoopDevice \/ DmCreate \/ TestNativeDevice \/ MountFilesystem
    \/ SendAuxDeviceInfo \/ MountDone \/ UndoFilesystem \/ UndoAux \/ UxDismount(0)
UxHandler(i) == OnSignal(i) \/ UxDismount(i) \/ HandlerEnds(i)
UxNext ==
    \/ \E h \in UxHosts, native \in BOOLEAN, n \in UxCascades, noFs \in BOOLEAN :
          (native \/ n = 1) /\ RequestMount(h, native, n, noFs)
    \/ \E e \in UxEntries : RequestDismount(e)
    \/ UxShutdown \/ UxCore \/ \E i \in AuxIndexes : UxHandler(i)
UxSpec == UxInit /\ [][UxNext]_uxVars
\* Commands return and processes go on; nobody need make a request.
UxFairness == WF_uxVars(UxCore) /\ \A i \in AuxIndexes : WF_uxVars(UxHandler(i))
UxFairSpec == UxSpec /\ UxFairness

-----------------------------------------------------------------------------
UxQuiet == \A a \in UxActors : act[a].at \in {"idle", "exited"}

\* When nothing is going on, every file system, mapped device and attached loop
\* device belongs to a listed volume - whichever command failed on the way -
\* unless the failure was one of the handler of exceptions itself, or cut the
\* creation or removal of a cascade, whose lower devices are then not named again, or the
\* system went down while the volume was being mounted.
NothingStray ==
    UxQuiet /\ uxLog \cap {"leak", "raced"} = {} =>
        /\ \A f \in fs : \E e \in UxEntries : e.idx = f.of /\ e.vdev = f.dev
        /\ \A d \in dms : \E e \in UxEntries : e.idx = d.of /\ e.vdev[1] = "dm" /\ e.vdev[2] = d.name[2]
        /\ \A n \in UxLoops : loops[n] # Detached => \E e \in UxEntries : e.loop = LoopDev(n)

\* A listed volume shows its own host: the chain of devices under its virtual
\* device ends there.  Only a dismount left half done takes devices away from it.
RECURSIVE UxBottom(_)
UxBottom(dev) ==
    IF dev[1] = "loop" THEN loops[dev[2]].on
    ELSE IF \E d \in dms : d.name = dev THEN UxBottom((CHOOSE d \in dms : d.name = dev).under)
    ELSE dev
ListedIsWhole ==
    UxQuiet /\ uxLog \cap {"half", "leak", "raced"} = {} =>
        \A e \in UxEntries : e.vdev # NoDev /\ UxBottom(e.vdev) \in {HostDev(e.host), ImageOf(e.idx)}

\* A dismount takes no device or file system from another volume, although it
\* goes by what the service said earlier, unless a dismount was left half done.
NoOtherHarmed == "harmed" \in uxLog => "half" \in uxLog

\* "Termination signals are handled by a separate process to allow clean
\* dismount on shutdown": without any failure, a volume whose service is gone
\* leaves no device behind.
ShutdownIsClean ==
    UxQuiet /\ "down" \in uxLog /\ uxCount.faults = 0 =>
        \A d \in dms : \E e \in UxEntries : e.idx = d.of

\* Every request is answered and every handler ends, whatever fails.
UxRequestEnds == []<>(act[0].at = "idle") /\ \A i \in AuxIndexes : []<>(act[i].at \in {"idle", "exited"})

(* Unix mounts: nothing stray is left, a listed volume is whole, and no operation
   harms another volume. *)
UnixMountsSound == NothingStray /\ ListedIsWhole /\ NoOtherHarmed
=============================================================================
