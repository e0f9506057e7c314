------------------------ MODULE DriverVolumesProofs ------------------------
(***************************************************************************)
(* That the driver keeps its table of volumes in order, for any numbers of *)
(* drive letters, hosts, users, requests and IRPs.                         *)
(*                                                                         *)
(* A drive letter is free, mounted, or handled by the request that holds   *)
(* the mutex; what the device, its thread and its remove lock may look     *)
(* like depends on how far that request is (DevicesInv).  The remove lock  *)
(* counts the IRPs that passed it (LocksInv), so that a volume is closed   *)
(* when none is left.  Identifiers grow, hence a volume has a smaller one  *)
(* than the volumes on it (NestInv) and the loop of UnmountAllDevices,     *)
(* which goes down, has unmounted those before (LoopInv).                  *)
(*                                                                         *)
(* At the end: that the main program dismounts by timer only volumes that  *)
(* were idle.                                                              *)
(***************************************************************************)
EXTENDS MountedVolumes, IdleVolumes, FiniteSetTheorems, WellFoundedInduction, TLAPS

Threads == {"none", "opening", "serving", "draining", "ended"}
Running == {"serving", "draining"}
Device ==
    [thread : Threads, user : Requesters, host : Hosts \cup {NoHost}, base : Drives \cup {0},
     id : Nat, serial : Nat, kind : {"none", "outer", "hidden"}, protect : BOOLEAN,
     triggered : BOOLEAN, open : BOOLEAN, shutting : BOOLEAN, removing : BOOLEAN, locks : Int,
     list : Seq(VolIrps), sem : Int, quit : BOOLEAN]
RequestOps == {"none", "mount", "unmount", "unmountAll"}
MountPcs == {"opening", "queue", "link", "delete"}
LockPcs == {"lock", "shut", "remove", "wait", "join"}
RequestPcs == {"idle", "create", "next", "return"} \cup MountPcs \cup LockPcs
Results == {"none", "driveNotFound", "osError", "passwordWrong", "success", "filesOpen"}
Passwords == {NoPassword} \cup {m.pwd : m \in MountRequests} \cup {m.hpwd : m \in MountRequests}
Request ==
    [op : RequestOps, pc : RequestPcs, by : Requesters, drive : Drives \cup {0}, force : BOOLEAN,
     host : Hosts \cup {NoHost}, pwd : Passwords, hpwd : Passwords, protect : BOOLEAN,
     cache : BOOLEAN, maxId : Nat, triggered : BOOLEAN, ret : Results]
VolIrpStates == {"new", "refused", "checked", "locked", "listed", "done"}
VolIrp == [state : VolIrpStates, drive : Drives \cup {0}, serial : Nat]

VolumeTypes ==
    /\ device \in [Drives -> Device] /\ links \subseteq Drives /\ LastUniqueVolumeId \in Nat
    /\ hostHandles \in [Hosts -> Int] /\ mreq \in Request
    /\ volIrp \in [VolIrps -> VolIrp]
    /\ down \in {"up", "unmounting", "wiping", "down"} /\ mounts \in Nat /\ orphaned \in BOOLEAN

(* How far the request that holds the mutex is. *)
RequestInv ==
    /\ mreq.op = "none" <=> mreq.pc = "idle"
    /\ mreq.op = "mount" => /\ mreq.pc \in {"create", "return"} \cup MountPcs
                            /\ mreq.drive \in Drives /\ mreq.host \in Hosts
    /\ mreq.op = "unmount" => mreq.pc \in {"return"} \cup LockPcs /\ mreq.drive \in Drives
    /\ mreq.op = "unmountAll" => mreq.pc \in {"next", "return"} \cup LockPcs
    /\ mreq.pc \in LockPcs => mreq.drive \in Drives

(* The devices: of a free letter, of a mounted volume, and of the letter that a request
   is handling. *)
Handled(d) == mreq.drive = d /\ mreq.pc \in MountPcs \cup {"remove", "wait", "join"}
Mounted(d) ==
    /\ device[d].thread \in Running /\ device[d].open /\ ~device[d].quit
    /\ ~device[d].removing /\ ~device[d].shutting
BeingMounted(v) ==
    /\ v.locks = 0 /\ v.list = <<>> /\ v.sem = 0 /\ v.serial = mounts
    /\ v.host = mreq.host /\ ~v.quit /\ ~v.removing /\ ~v.shutting
    /\ mreq.pc = "opening" => v.thread = "opening" /\ ~v.open /\ ~v.triggered
    /\ mreq.pc = "queue" => v.thread = "opening" /\ v.open
    /\ mreq.pc = "link" => v.thread = "serving" /\ v.open
    /\ mreq.pc = "delete" => v.thread = "ended" /\ ~v.open
BeingUnmounted(v) ==
    /\ v.shutting /\ v.thread \in Running \cup {"ended"}
    /\ v.open <=> v.thread # "ended"
    /\ mreq.pc # "remove" => v.removing
    /\ v.quit => v.removing /\ v.locks = 0 /\ mreq.pc = "join"
    /\ v.thread = "ended" => v.quit
DeviceInv(d) ==
    /\ ~Present(d) => device[d] = NoDevice
    /\ Present(d) => device[d].host \in Hosts /\ device[d].serial <= mounts
    /\ ~Handled(d) => IF d \in links THEN Mounted(d) ELSE ~Present(d)
    /\ Handled(d) => /\ d \notin links
                     /\ mreq.pc \in MountPcs => BeingMounted(device[d])
                     /\ mreq.pc \notin MountPcs => BeingUnmounted(device[d])
DevicesInv ==
    /\ \A d \in Drives : DeviceInv(d)
    /\ mreq.pc = "create" => ~Present(mreq.drive) /\ mreq.drive \notin links
    /\ mreq.pc \in {"lock", "shut"} => mreq.drive \in links

(* The volumes are what the passwords opened. *)
AskedInv ==
    \A d \in Drives :
        /\ device[d].protect => device[d].kind = "outer" /\ HiddenPassword[device[d].host] # NoPassword
        /\ device[d].triggered => device[d].protect

(* Identifiers. *)
New(d) == mreq.drive = d /\ mreq.pc \in MountPcs
Old(d) == Present(d) /\ ~New(d)
IdsInv ==
    /\ \A d \in Drives : Old(d) => device[d].id < LastUniqueVolumeId
    /\ \A d \in Drives : Present(d) => device[d].id <= LastUniqueVolumeId
    /\ \A d, e \in Drives : Old(d) /\ Old(e) /\ d # e => device[d].id # device[e].id

(* IRPs of a volume and its remove lock. *)
Creating == mreq.op = "mount" /\ mreq.pc # "return"
Holding == {"locked", "listed"}
LockedOn(d) == {i \in VolIrps : volIrp[i].drive = d /\ volIrp[i].state \in Holding}
SerialsInv ==
    /\ \A i \in VolIrps : volIrp[i].state \in Holding \cup {"checked"} =>
          /\ volIrp[i].drive \in Drives
          /\ Creating => volIrp[i].serial < mounts
          /\ volIrp[i].serial <= mounts
          /\ volIrp[i].state \in Holding => device[volIrp[i].drive].serial = volIrp[i].serial
    /\ \A d \in Drives : Old(d) /\ Creating => device[d].serial < mounts
ListInv(d) ==
    /\ \A k \in DOMAIN device[d].list :
          volIrp[device[d].list[k]].state = "listed" /\ volIrp[device[d].list[k]].drive = d
    /\ \A j, k \in DOMAIN device[d].list : device[d].list[j] = device[d].list[k] => j = k
LocksInv == \A d \in Drives : device[d].locks = Cardinality(LockedOn(d)) /\ ListInv(d)

(* The hosts that are open. *)
OpenOn(h) == {d \in Drives : device[d].open /\ device[d].host = h}
HandlesInv == \A h \in Hosts : hostHandles[h] = Cardinality(OpenOn(h))

(* The loop of UnmountAllDevices. *)
LoopInv ==
    mreq.op = "unmountAll" =>
        /\ mreq.pc \in LockPcs => mreq.maxId = device[mreq.drive].id
        /\ mreq.force => \A e \in Drives :
              Present(e) /\ device[e].id >= mreq.maxId /\ Accessible(mreq.by, e) =>
                  e = mreq.drive /\ mreq.pc \in LockPcs
        /\ mreq.force /\ mreq.pc = "return" /\ ~mreq.triggered =>
              \A e \in Drives : Present(e) => ~Accessible(mreq.by, e)

(* Volumes on volumes. *)
NestInv ==
    ~orphaned =>
        /\ \A e \in Drives : device[e].open /\ device[e].base # 0 =>
              /\ device[e].base \in links /\ device[e].base # e
              /\ New(e) \/ device[device[e].base].id < device[e].id
        /\ mreq.pc \in LockPcs \ {"lock"} => NestedOn(mreq.drive) = {}

(* The end of the session. *)
DownInv ==
    /\ down \in {"wiping", "down"} => mreq.op = "none" /\ links = {}
    /\ down = "down" => \A i \in 0 .. CacheSize - 1 : CachedPasswords[i] = NoPassword

(* The cache. *)
CacheInv ==
    /\ CachedPasswords \in [0 .. CacheSize - 1 -> Passwords]
    /\ nPasswordIdx \in 0 .. CacheSize - 1 /\ cacheEmpty \in BOOLEAN
    /\ \A i, j \in 0 .. CacheSize - 1 :
          i # j /\ CachedPasswords[i] # NoPassword => CachedPasswords[i] # CachedPasswords[j]
    /\ cacheEmpty <=> \A i \in 0 .. CacheSize - 1 : CachedPasswords[i] = NoPassword
    /\ \A i \in 0 .. CacheSize - 1 : i < nPasswordIdx => CachedPasswords[i] # NoPassword

VolumesInv ==
    /\ VolumeTypes /\ RequestInv /\ DevicesInv /\ AskedInv /\ IdsInv /\ SerialsInv /\ LocksInv
    /\ HandlesInv /\ LoopInv /\ NestInv /\ DownInv /\ CacheInv

-----------------------------------------------------------------------------
(* Facts about the record of a device and of a request.                     *)

\* A finite or infinite set of numbers has a least element.
LEMMA LeastNumber == ASSUME NEW T \in SUBSET Nat, T # {} PROVE \E m \in T : \A k \in T : m <= k
<1> DEFINE R == OpToRel(<, Nat)
<1>1. IsWellFoundedOn(R, Nat)
  BY NatLessThanWellFounded, Zenon
<1>2. \E m \in T : \A k \in T : ~(<<k, m>> \in R)
  <2> HIDE DEF R
  <2> QED BY <1>1, WFMin
<1>3. \A k, m \in Nat : k < m => <<k, m>> \in R
  BY DEF OpToRel
<1> HIDE DEF R
<1>4. PICK m \in T : \A k \in T : ~(<<k, m>> \in R)
  BY <1>2
<1>5. \A k \in T : m <= k
  <2> TAKE k \in T
  <2>1. ~(k < m)
    BY <1>3, <1>4
  <2>2. k \in Nat /\ m \in Nat
    OBVIOUS
  <2> QED BY <2>1, <2>2
<1> QED BY <1>5

\* A step that changes one device leaves the others as they are.
LEMMA OneChanged ==
    ASSUME VolumeTypes, NEW d \in Drives, NEW v \in Device, ChangeDevice(d, v)
    PROVE  /\ device'[d] = v /\ device' \in [Drives -> Device]
           /\ \A e \in Drives : e # d => device'[e] = device[e]
BY DEF VolumeTypes, ChangeDevice

\* The device of a free letter is typed, and so is a new one.
LEMMA NoDeviceType == NoDevice \in Device
<1>1. <<>> \in Seq(VolIrps)
  OBVIOUS
<1> QED BY <1>1 DEF NoDevice, Device, Threads, Requesters

LEMMA NewDeviceType ==
    ASSUME VolumeTypes, mreq.host \in Hosts
    PROVE  /\ NewDevice \in Device /\ NewDevice.thread = "opening" /\ NewDevice.user = mreq.by
           /\ NewDevice.host = mreq.host /\ NewDevice.serial = mounts /\ NewDevice.base = 0
           /\ NewDevice.id = 0 /\ NewDevice.locks = 0 /\ NewDevice.sem = 0 /\ NewDevice.list = <<>>
           /\ ~NewDevice.protect /\ ~NewDevice.triggered /\ ~NewDevice.open /\ ~NewDevice.shutting
           /\ ~NewDevice.removing /\ ~NewDevice.quit
<1>1. <<>> \in Seq(VolIrps)
  OBVIOUS
<1>2. mreq.by \in Requesters /\ mounts \in Nat
  BY DEF VolumeTypes, Request
<1>3. PICK r \in Device :
         /\ r = NoDevice /\ r.base = 0 /\ r.id = 0 /\ r.locks = 0 /\ r.sem = 0 /\ r.list = <<>>
         /\ ~r.protect /\ ~r.triggered /\ ~r.open /\ ~r.shutting /\ ~r.removing /\ ~r.quit
  BY NoDeviceType DEF NoDevice
<1>4. NewDevice = [r EXCEPT !.thread = "opening", !.user = mreq.by, !.host = mreq.host, !.serial = mounts]
  BY <1>3 DEF NewDevice
<1> QED BY <1>2, <1>3, <1>4, ZenonT(60) DEF Device, Threads

\* What no step changes once the volume is open, its identifier apart.
SameVolume(v, w) ==
    /\ v.user = w.user /\ v.host = w.host /\ v.base = w.base /\ v.serial = w.serial
    /\ v.kind = w.kind /\ v.protect = w.protect

\* The records that the steps write.
LEMMA ThreadSet ==
    ASSUME NEW w \in Device, NEW t \in Threads
    PROVE  \E v \in Device :
              /\ v = [w EXCEPT !.thread = t] /\ SameVolume(v, w)
              /\ v.thread = t /\ v.id = w.id /\ v.triggered = w.triggered /\ v.open = w.open /\ v.shutting = w.shutting
              /\ v.removing = w.removing /\ v.locks = w.locks /\ v.list = w.list /\ v.sem = w.sem /\ v.quit = w.quit
<1> DEFINE x == [w EXCEPT !.thread = t]
<1>1. x \in Device
  BY DEF Device
<1>2. /\ SameVolume(x, w)
      /\ x.thread = t /\ x.id = w.id /\ x.triggered = w.triggered /\ x.open = w.open /\ x.shutting = w.shutting
      /\ x.removing = w.removing /\ x.locks = w.locks /\ x.list = w.list /\ x.sem = w.sem /\ x.quit = w.quit
  BY DEF Device, SameVolume
<1> HIDE DEF x
<1>3. x = [w EXCEPT !.thread = t]
  BY DEF x
<1> QED BY <1>1, <1>2, <1>3

Closed(w, t) == [w EXCEPT !.thread = t, !.open = FALSE]
LEMMA VolumeClosed ==
    ASSUME NEW w \in Device, NEW t \in Threads
    PROVE  \E v \in Device :
              /\ v = Closed(w, t) /\ SameVolume(v, w)
              /\ v.thread = t /\ v.id = w.id /\ v.triggered = w.triggered /\ ~v.open /\ v.shutting = w.shutting
              /\ v.removing = w.removing /\ v.locks = w.locks /\ v.list = w.list /\ v.sem = w.sem /\ v.quit = w.quit
<1> DEFINE x == [w EXCEPT !.thread = t, !.open = FALSE]
<1>1. x \in Device
  BY DEF Device
<1>2. /\ SameVolume(x, w)
      /\ x.thread = t /\ x.id = w.id /\ x.triggered = w.triggered /\ ~x.open /\ x.shutting = w.shutting
      /\ x.removing = w.removing /\ x.locks = w.locks /\ x.list = w.list /\ x.sem = w.sem /\ x.quit = w.quit
  BY DEF Device, SameVolume
<1> HIDE DEF x
<1>3. x = Closed(w, t)
  BY DEF x, Closed
<1> QED BY <1>1, <1>2, <1>3

LEMMA IdSet ==
    ASSUME NEW w \in Device, NEW n \in Nat
    PROVE  \E v \in Device :
              /\ v = [w EXCEPT !.id = n] /\ SameVolume(v, w)
              /\ v.thread = w.thread /\ v.id = n /\ v.triggered = w.triggered /\ v.open = w.open /\ v.shutting = w.shutting
              /\ v.removing = w.removing /\ v.locks = w.locks /\ v.list = w.list /\ v.sem = w.sem /\ v.quit = w.quit
<1> DEFINE x == [w EXCEPT !.id = n]
<1>1. x \in Device
  BY DEF Device
<1>2. /\ SameVolume(x, w)
      /\ x.thread = w.thread /\ x.id = n /\ x.triggered = w.triggered /\ x.open = w.open /\ x.shutting = w.shutting
      /\ x.removing = w.removing /\ x.locks = w.locks /\ x.list = w.list /\ x.sem = w.sem /\ x.quit = w.quit
  BY DEF Device, SameVolume
<1> HIDE DEF x
<1>3. x = [w EXCEPT !.id = n]
  BY DEF x
<1> QED BY <1>1, <1>2, <1>3

LEMMA ShuttingSet ==
    ASSUME NEW w \in Device
    PROVE  \E v \in Device :
              /\ v = [w EXCEPT !.shutting = TRUE] /\ SameVolume(v, w)
              /\ v.thread = w.thread /\ v.id = w.id /\ v.triggered = w.triggered /\ v.open = w.open /\ v.shutting
              /\ v.removing = w.removing /\ v.locks = w.locks /\ v.list = w.list /\ v.sem = w.sem /\ v.quit = w.quit
<1> DEFINE x == [w EXCEPT !.shutting = TRUE]
<1>1. x \in Device
  BY DEF Device
<1>2. /\ SameVolume(x, w)
      /\ x.thread = w.thread /\ x.id = w.id /\ x.triggered = w.triggered /\ x.open = w.open /\ x.shutting
      /\ x.removing = w.removing /\ x.locks = w.locks /\ x.list = w.list /\ x.sem = w.sem /\ x.quit = w.quit
  BY DEF Device, SameVolume
<1> HIDE DEF x
<1>3. x = [w EXCEPT !.shutting = TRUE]
  BY DEF x
<1> QED BY <1>1, <1>2, <1>3

LEMMA RemovingSet ==
    ASSUME NEW w \in Device
    PROVE  \E v \in Device :
              /\ v = [w EXCEPT !.removing = TRUE] /\ SameVolume(v, w)
              /\ v.thread = w.thread /\ v.id = w.id /\ v.triggered = w.triggered /\ v.open = w.open /\ v.shutting = w.shutting
              /\ v.removing /\ v.locks = w.locks /\ v.list = w.list /\ v.sem = w.sem /\ v.quit = w.quit
<1> DEFINE x == [w EXCEPT !.removing = TRUE]
<1>1. x \in Device
  BY DEF Device
<1>2. /\ SameVolume(x, w)
      /\ x.thread = w.thread /\ x.id = w.id /\ x.triggered = w.triggered /\ x.open = w.open /\ x.shutting = w.shutting
      /\ x.removing /\ x.locks = w.locks /\ x.list = w.list /\ x.sem = w.sem /\ x.quit = w.quit
  BY DEF Device, SameVolume
<1> HIDE DEF x
<1>3. x = [w EXCEPT !.removing = TRUE]
  BY DEF x
<1> QED BY <1>1, <1>2, <1>3

LEMMA TriggeredSet ==
    ASSUME NEW w \in Device
    PROVE  \E v \in Device :
              /\ v = [w EXCEPT !.triggered = TRUE] /\ SameVolume(v, w)
              /\ v.thread = w.thread /\ v.id = w.id /\ v.triggered /\ v.open = w.open /\ v.shutting = w.shutting
              /\ v.removing = w.removing /\ v.locks = w.locks /\ v.list = w.list /\ v.sem = w.sem /\ v.quit = w.quit
<1> DEFINE x == [w EXCEPT !.triggered = TRUE]
<1>1. x \in Device
  BY DEF Device
<1>2. /\ SameVolume(x, w)
      /\ x.thread = w.thread /\ x.id = w.id /\ x.triggered /\ x.open = w.open /\ x.shutting = w.shutting
      /\ x.removing = w.removing /\ x.locks = w.locks /\ x.list = w.list /\ x.sem = w.sem /\ x.quit = w.quit
  BY DEF Device, SameVolume
<1> HIDE DEF x
<1>3. x = [w EXCEPT !.triggered = TRUE]
  BY DEF x
<1> QED BY <1>1, <1>2, <1>3

Quitting(w, m) == [w EXCEPT !.quit = TRUE, !.sem = m]
LEMMA QuitSet ==
    ASSUME NEW w \in Device, NEW m \in Int
    PROVE  \E v \in Device :
              /\ v = Quitting(w, m) /\ SameVolume(v, w)
              /\ v.thread = w.thread /\ v.id = w.id /\ v.triggered = w.triggered /\ v.open = w.open /\ v.shutting = w.shutting
              /\ v.removing = w.removing /\ v.locks = w.locks /\ v.list = w.list /\ v.sem = m /\ v.quit
<1> DEFINE x == [w EXCEPT !.quit = TRUE, !.sem = m]
<1>1. x \in Device
  BY DEF Device
<1>2. /\ SameVolume(x, w)
      /\ x.thread = w.thread /\ x.id = w.id /\ x.triggered = w.triggered /\ x.open = w.open /\ x.shutting = w.shutting
      /\ x.removing = w.removing /\ x.locks = w.locks /\ x.list = w.list /\ x.sem = m /\ x.quit
  BY DEF Device, SameVolume
<1> HIDE DEF x
<1>3. x = Quitting(w, m)
  BY DEF x, Quitting
<1> QED BY <1>1, <1>2, <1>3

Awake(w, m, t) == [w EXCEPT !.sem = m, !.thread = t]
LEMMA Woken ==
    ASSUME NEW w \in Device, NEW t \in Threads, NEW m \in Int
    PROVE  \E v \in Device :
              /\ v = Awake(w, m, t) /\ SameVolume(v, w)
              /\ v.thread = t /\ v.id = w.id /\ v.triggered = w.triggered /\ v.open = w.open /\ v.shutting = w.shutting
              /\ v.removing = w.removing /\ v.locks = w.locks /\ v.list = w.list /\ v.sem = m /\ v.quit = w.quit
<1> DEFINE x == [w EXCEPT !.sem = m, !.thread = t]
<1>1. x \in Device
  BY DEF Device
<1>2. /\ SameVolume(x, w)
      /\ x.thread = t /\ x.id = w.id /\ x.triggered = w.triggered /\ x.open = w.open /\ x.shutting = w.shutting
      /\ x.removing = w.removing /\ x.locks = w.locks /\ x.list = w.list /\ x.sem = m /\ x.quit = w.quit
  BY DEF Device, SameVolume
<1> HIDE DEF x
<1>3. x = Awake(w, m, t)
  BY DEF x, Awake
<1> QED BY <1>1, <1>2, <1>3

WithLocks(w, m) == [w EXCEPT !.locks = m]
LEMMA LocksSet ==
    ASSUME NEW w \in Device, NEW m \in Int
    PROVE  \E v \in Device :
              /\ v = WithLocks(w, m) /\ SameVolume(v, w)
              /\ v.thread = w.thread /\ v.id = w.id /\ v.triggered = w.triggered /\ v.open = w.open /\ v.shutting = w.shutting
              /\ v.removing = w.removing /\ v.locks = m /\ v.list = w.list /\ v.sem = w.sem /\ v.quit = w.quit
<1> DEFINE x == [w EXCEPT !.locks = m]
<1>1. x \in Device
  BY DEF Device
<1>2. /\ SameVolume(x, w)
      /\ x.thread = w.thread /\ x.id = w.id /\ x.triggered = w.triggered /\ x.open = w.open /\ x.shutting = w.shutting
      /\ x.removing = w.removing /\ x.locks = m /\ x.list = w.list /\ x.sem = w.sem /\ x.quit = w.quit
  BY DEF Device, SameVolume
<1> HIDE DEF x
<1>3. x = WithLocks(w, m)
  BY DEF x, WithLocks
<1> QED BY <1>1, <1>2, <1>3

WithList(w, q, m) == [w EXCEPT !.list = q, !.sem = m]
LEMMA ListSet ==
    ASSUME NEW w \in Device, NEW q \in Seq(VolIrps), NEW m \in Int
    PROVE  \E v \in Device :
              /\ v = WithList(w, q, m) /\ SameVolume(v, w)
              /\ v.thread = w.thread /\ v.id = w.id /\ v.triggered = w.triggered /\ v.open = w.open /\ v.shutting = w.shutting
              /\ v.removing = w.removing /\ v.locks = w.locks /\ v.list = q /\ v.sem = m /\ v.quit = w.quit
<1> DEFINE x == [w EXCEPT !.list = q, !.sem = m]
<1>1. x \in Device
  BY DEF Device
<1>2. /\ SameVolume(x, w)
      /\ x.thread = w.thread /\ x.id = w.id /\ x.triggered = w.triggered /\ x.open = w.open /\ x.shutting = w.shutting
      /\ x.removing = w.removing /\ x.locks = w.locks /\ x.list = q /\ x.sem = m /\ x.quit = w.quit
  BY DEF Device, SameVolume
<1> HIDE DEF x
<1>3. x = WithList(w, q, m)
  BY DEF x, WithList
<1> QED BY <1>1, <1>2, <1>3

WithListAndLocks(w, q, m) == [w EXCEPT !.list = q, !.locks = m]
LEMMA ListAndLocksSet ==
    ASSUME NEW w \in Device, NEW q \in Seq(VolIrps), NEW m \in Int
    PROVE  \E v \in Device :
              /\ v = WithListAndLocks(w, q, m) /\ SameVolume(v, w)
              /\ v.thread = w.thread /\ v.id = w.id /\ v.triggered = w.triggered /\ v.open = w.open /\ v.shutting = w.shutting
              /\ v.removing = w.removing /\ v.locks = m /\ v.list = q /\ v.sem = w.sem /\ v.quit = w.quit
<1> DEFINE x == [w EXCEPT !.list = q, !.locks = m]
<1>1. x \in Device
  BY DEF Device
<1>2. /\ SameVolume(x, w)
      /\ x.thread = w.thread /\ x.id = w.id /\ x.triggered = w.triggered /\ x.open = w.open /\ x.shutting = w.shutting
      /\ x.removing = w.removing /\ x.locks = m /\ x.list = q /\ x.sem = w.sem /\ x.quit = w.quit
  BY DEF Device, SameVolume
<1> HIDE DEF x
<1>3. x = WithListAndLocks(w, q, m)
  BY DEF x, WithListAndLocks
<1> QED BY <1>1, <1>2, <1>3

\* The fields of a request that MountGoTo and the steps of an unmounting keep.
SameRequest ==
    /\ mreq'.op = mreq.op /\ mreq'.by = mreq.by /\ mreq'.drive = mreq.drive
    /\ mreq'.force = mreq.force /\ mreq'.host = mreq.host /\ mreq'.maxId = mreq.maxId

LEMMA GoToFacts ==
    ASSUME VolumeTypes, NEW pc \in RequestPcs, NEW ret \in Results,
           MountGoTo(pc, ret) \/ Opened(pc, ret)
    PROVE  mreq' \in Request /\ mreq'.pc = pc /\ mreq'.triggered = mreq.triggered /\ SameRequest
BY ZenonT(60) DEF VolumeTypes, Request, MountGoTo, Opened, SameRequest, Passwords

\* A request that starts.
LEMMA NoRequestType == NoRequest \in Request /\ NoRequest.op = "none" /\ NoRequest.pc = "idle"
BY DEF NoRequest, Request, RequestOps, RequestPcs, Requesters, Passwords, Results

-----------------------------------------------------------------------------
(* Initially the invariant holds.                                           *)

LEMMA NoDeviceFields ==
    /\ NoDevice.thread = "none" /\ ~NoDevice.open /\ ~NoDevice.protect /\ ~NoDevice.triggered
    /\ NoDevice.locks = 0 /\ NoDevice.list = <<>> /\ ~NoDevice.quit
BY DEF NoDevice

LEMMA VolumesInit == MInit => VolumesInv
<1> SUFFICES ASSUME MInit PROVE VolumesInv
  OBVIOUS
<1> USE MountAssumption
<1>1. \A d \in Drives : device[d] = NoDevice
  BY DEF MInit
<1>2. mreq = NoRequest /\ mreq.op = "none" /\ mreq.pc = "idle" /\ mreq \in Request
  BY NoRequestType DEF MInit
<1>3. \A i \in VolIrps : volIrp[i].state = "new" /\ volIrp[i] \in VolIrp
  BY DEF MInit, VolIrp, VolIrpStates
<1>4. VolumeTypes
  <2>1. volIrp \in [VolIrps -> VolIrp]
    BY <1>3 DEF MInit
  <2>2. device \in [Drives -> Device]
    BY NoDeviceType DEF MInit
  <2>3. hostHandles \in [Hosts -> Int]
    BY DEF MInit
  <2>4. links \subseteq Drives /\ LastUniqueVolumeId \in Nat /\ mounts \in Nat /\ orphaned \in BOOLEAN
        /\ down = "up"
    BY DEF MInit
  <2> QED BY <1>2, <2>1, <2>2, <2>3, <2>4 DEF VolumeTypes
<1>5. RequestInv
  BY <1>2 DEF RequestInv, LockPcs
<1>6. DevicesInv
  BY <1>1, <1>2, NoDeviceFields DEF DevicesInv, DeviceInv, Handled, MInit, Present, MountPcs
<1>7. AskedInv
  BY <1>1, NoDeviceFields DEF AskedInv
<1>8. IdsInv
  BY <1>1, NoDeviceFields DEF IdsInv, Old, Present
<1>9. SerialsInv
  BY <1>1, <1>3, NoDeviceFields DEF SerialsInv, Old, Present, Holding
<1>10. LocksInv
  <2> SUFFICES ASSUME NEW d \in Drives PROVE device[d].locks = Cardinality(LockedOn(d)) /\ ListInv(d)
    BY DEF LocksInv
  <2>1. LockedOn(d) = {}
    BY <1>3 DEF LockedOn, Holding
  <2>2. Cardinality(LockedOn(d)) = 0
    BY <2>1, FS_EmptySet
  <2>3. DOMAIN device[d].list = {}
    BY <1>1, NoDeviceFields
  <2> QED BY <1>1, <2>2, <2>3, NoDeviceFields DEF ListInv
<1>11. HandlesInv
  <2> SUFFICES ASSUME NEW h \in Hosts PROVE hostHandles[h] = Cardinality(OpenOn(h))
    BY DEF HandlesInv
  <2>1. OpenOn(h) = {}
    BY <1>1, NoDeviceFields DEF OpenOn
  <2>2. Cardinality(OpenOn(h)) = 0
    BY <2>1, FS_EmptySet
  <2> QED BY <2>2 DEF MInit
<1>12. LoopInv
  BY <1>2 DEF LoopInv
<1>13. NestInv
  BY <1>1, <1>2, NoDeviceFields DEF NestInv, LockPcs
<1>14. DownInv
  BY DEF MInit, DownInv
<1>15. CacheInv
  BY DEF MInit, CacheInv, Passwords
<1> QED BY <1>4, <1>5, <1>6, <1>7, <1>8, <1>9, <1>10, <1>11, <1>12, <1>13, <1>14, <1>15 DEF VolumesInv

-----------------------------------------------------------------------------
(* Steps of a request that leave the devices alone, while no letter is being handled. *)

Quiet == mreq.pc \notin MountPcs \cup {"remove", "wait", "join"}

LEMMA QuietStep ==
    ASSUME VolumesInv, Quiet, Quiet', mreq' \in Request,
           UNCHANGED <<device, links, LastUniqueVolumeId, hostHandles, volIrp, cacheVars>>,
           mounts' \in Nat, mounts' >= mounts, Creating' => mounts' > mounts,
           down' \in {"up", "unmounting", "wiping", "down"}, orphaned' \in BOOLEAN,
           mreq'.pc = "create" => mreq'.drive \in Drives \ links,
           mreq'.pc \in {"lock", "shut"} => mreq'.drive \in links
    PROVE  /\ VolumeTypes' /\ DevicesInv' /\ AskedInv' /\ IdsInv' /\ SerialsInv' /\ LocksInv'
           /\ HandlesInv' /\ CacheInv'
<1> USE MountAssumption DEF VolumesInv
<1>1. VolumeTypes'
  BY DEF VolumeTypes
<1>2. \A d \in Drives : ~Handled(d) /\ ~Handled(d)' /\ ~New(d) /\ ~New(d)'
  BY DEF Quiet, Handled, New
<1>3. DevicesInv'
  <2>1. \A d \in Drives : DeviceInv(d)'
    BY <1>1, <1>2 DEF DevicesInv, DeviceInv, Mounted, Present, VolumeTypes, Device
  <2> QED BY <1>2, <2>1 DEF DevicesInv, DeviceInv, Present
<1>4. AskedInv' /\ HandlesInv' /\ LocksInv' /\ CacheInv'
  <2>1. \A h \in Hosts : OpenOn(h)' = OpenOn(h)
    BY DEF OpenOn
  <2>2. \A d \in Drives : LockedOn(d)' = LockedOn(d) /\ (ListInv(d)' <=> ListInv(d))
    BY DEF LockedOn, ListInv
  <2>3. HandlesInv' /\ LocksInv'
    BY <2>1, <2>2 DEF HandlesInv, LocksInv
  <2>4. AskedInv'
    BY DEF AskedInv
  <2>5. CacheInv'
    BY DEF CacheInv, cacheVars
  <2> QED BY <2>3, <2>4, <2>5
<1>5. IdsInv'
  BY <1>2 DEF IdsInv, Old, Present
<1>6. SerialsInv'
  <2>1. \A d \in Drives : Old(d)' => device[d].serial <= mounts /\ device[d].serial \in Nat
    BY DEF Old, Present, DevicesInv, DeviceInv, VolumeTypes, Device
  <2>2. \A i \in VolIrps : volIrp[i].serial \in Nat
    BY DEF VolumeTypes, VolIrp
  <2>3. mounts \in Nat
    BY DEF VolumeTypes
  <2> QED BY <1>1, <2>1, <2>2, <2>3 DEF SerialsInv, Holding
<1> QED BY <1>1, <1>3, <1>4, <1>5, <1>6

\* A new request finds no letter handled.
LEMMA NoneRuns == ASSUME VolumesInv, mreq.op = "none" PROVE mreq.pc = "idle" /\ Quiet
BY DEF VolumesInv, RequestInv, Quiet, MountPcs

LEMMA MountRequestKeeps ==
    ASSUME VolumesInv, NEW d \in Drives, NEW m \in MountRequests, MountRequest(d, m)
    PROVE  VolumesInv'
<1> USE MountAssumption
<1>1. /\ mreq.op = "none" /\ down = "up" /\ mounts' = mounts + 1
      /\ UNCHANGED <<device, links, LastUniqueVolumeId, hostHandles, cacheVars, volIrp, down, orphaned>>
  BY DEF MountRequest
<1>2. PICK r \in Request : r = NoRequest
  BY NoRequestType
<1>3. m.pwd \in Passwords /\ m.hpwd \in Passwords
  BY DEF Passwords
<1> DEFINE p == IF d \in links THEN "return" ELSE "create"
           q == IF d \in links THEN "driveNotFound" ELSE "none"
<1>4. mreq' = [r EXCEPT !.op = "mount", !.by = m.by, !.drive = d, !.host = m.host,
                   !.pwd = m.pwd, !.hpwd = m.hpwd, !.protect = m.protect, !.cache = m.cache,
                   !.pc = p, !.ret = q]
  BY <1>2 DEF MountRequest
<1>p. p \in RequestPcs /\ q \in Results
  BY DEF RequestPcs, Results
<1>5. /\ mreq' \in Request /\ mreq'.op = "mount" /\ mreq'.drive = d /\ mreq'.host = m.host
      /\ mreq'.pc = IF d \in links THEN "return" ELSE "create"
  <2> HIDE DEF p, q
  <2>1. /\ mreq' \in Request /\ mreq'.op = "mount" /\ mreq'.drive = d /\ mreq'.host = m.host
        /\ mreq'.pc = p
    BY <1>2, <1>3, <1>4, <1>p, ZenonT(60) DEF Request, RequestOps
  <2> QED BY <2>1 DEF p
<1>6. mounts \in Nat /\ orphaned \in BOOLEAN
  BY DEF VolumesInv, VolumeTypes
<1>7. Quiet /\ mreq.pc = "idle"
  BY <1>1, NoneRuns
<1>8. Quiet'
  BY <1>5 DEF Quiet, MountPcs
<1>9. /\ VolumeTypes' /\ DevicesInv' /\ AskedInv' /\ IdsInv' /\ SerialsInv' /\ LocksInv'
      /\ HandlesInv' /\ CacheInv'
  BY <1>1, <1>5, <1>6, <1>7, <1>8, QuietStep
<1>10. RequestInv' /\ LoopInv' /\ DownInv'
  BY <1>1, <1>5 DEF RequestInv, LoopInv, DownInv, LockPcs
<1>11. NestInv'
  BY <1>1, <1>5, <1>7 DEF VolumesInv, NestInv, New, LockPcs, MountPcs
<1> QED BY <1>9, <1>10, <1>11 DEF VolumesInv

LEMMA UnmountRequestKeeps ==
    ASSUME VolumesInv, NEW u \in MountUsers, NEW d \in Drives, NEW f \in BOOLEAN, UnmountRequest(u, d, f)
    PROVE  VolumesInv'
<1> USE MountAssumption
<1>1. /\ mreq.op = "none" /\ down = "up"
      /\ UNCHANGED <<device, links, LastUniqueVolumeId, hostHandles, cacheVars, volIrp, down, mounts, orphaned>>
  BY DEF UnmountRequest
<1>2. PICK r \in Request : r = NoRequest
  BY NoRequestType
<1> DEFINE p == IF Present(d) /\ Accessible(u, d) THEN "lock" ELSE "return"
           q == IF Present(d) /\ Accessible(u, d) THEN "none" ELSE "driveNotFound"
<1>4. mreq' = [r EXCEPT !.op = "unmount", !.by = u, !.drive = d, !.force = f, !.pc = p, !.ret = q]
  BY <1>2 DEF UnmountRequest
<1>p. p \in RequestPcs /\ q \in Results
  BY DEF RequestPcs, Results, LockPcs
<1>5. /\ mreq' \in Request /\ mreq'.op = "unmount" /\ mreq'.drive = d
      /\ mreq'.pc = IF Present(d) /\ Accessible(u, d) THEN "lock" ELSE "return"
  <2> HIDE DEF p, q
  <2>1. mreq' \in Request /\ mreq'.op = "unmount" /\ mreq'.drive = d /\ mreq'.pc = p
    BY <1>2, <1>4, <1>p DEF Request, RequestOps, Requesters
  <2> QED BY <2>1 DEF p
<1>6. mounts \in Nat /\ orphaned \in BOOLEAN
  BY DEF VolumesInv, VolumeTypes
<1>7. Quiet /\ mreq.pc = "idle"
  BY <1>1, NoneRuns
<1>8. Quiet'
  BY <1>5 DEF Quiet, MountPcs
<1>9. Present(d) => d \in links
  BY <1>7 DEF VolumesInv, DevicesInv, DeviceInv, Handled, Quiet
<1>10. /\ VolumeTypes' /\ DevicesInv' /\ AskedInv' /\ IdsInv' /\ SerialsInv' /\ LocksInv'
      /\ HandlesInv' /\ CacheInv'
  <2>1. ~Creating' /\ mounts' = mounts /\ mounts' >= mounts
    BY <1>1, <1>5, <1>6 DEF Creating
  <2> QED BY <1>1, <1>5, <1>6, <1>7, <1>8, <1>9, <2>1, QuietStep DEF VolumesInv
<1>11. RequestInv' /\ LoopInv' /\ DownInv'
  BY <1>1, <1>5 DEF RequestInv, LoopInv, DownInv, LockPcs
<1>12. NestInv'
  BY <1>1, <1>5, <1>7 DEF VolumesInv, NestInv, New, LockPcs, MountPcs
<1> QED BY <1>10, <1>11, <1>12 DEF VolumesInv

LEMMA UnmountAllRequestKeeps ==
    ASSUME VolumesInv, NEW u \in Requesters, NEW f \in BOOLEAN, UnmountAllRequest(u, f)
    PROVE  VolumesInv'
<1> USE MountAssumption
<1>1. /\ mreq.op = "none" /\ down \in {"up", "unmounting"}
      /\ UNCHANGED <<device, links, LastUniqueVolumeId, hostHandles, cacheVars, volIrp, down, mounts, orphaned>>
  BY DEF UnmountAllRequest
<1>2. PICK r \in Request : r = NoRequest
  BY NoRequestType
<1>3. LastUniqueVolumeId \in Nat /\ mounts \in Nat /\ orphaned \in BOOLEAN
  BY DEF VolumesInv, VolumeTypes
<1>4. mreq' = [r EXCEPT !.op = "unmountAll", !.by = u, !.force = f, !.pc = "next",
                        !.maxId = LastUniqueVolumeId + 1, !.ret = "success"]
  BY <1>2 DEF UnmountAllRequest
<1>5. /\ mreq' \in Request /\ mreq'.op = "unmountAll" /\ mreq'.pc = "next"
      /\ mreq'.maxId = LastUniqueVolumeId + 1
  <2>1. PICK n \in Nat, pc \in RequestPcs, res \in Results :
           n = LastUniqueVolumeId + 1 /\ pc = "next" /\ res = "success"
    BY <1>3 DEF RequestPcs, Results
  <2>2. mreq' = [r EXCEPT !.op = "unmountAll", !.by = u, !.force = f, !.pc = pc, !.maxId = n, !.ret = res]
    BY <1>4, <2>1
  <2>3. mreq' \in Request /\ mreq'.op = "unmountAll" /\ mreq'.pc = pc /\ mreq'.maxId = n
    BY <1>2, <2>2 DEF Request, RequestOps
  <2> QED BY <2>1, <2>3
<1>7. Quiet /\ mreq.pc = "idle"
  BY <1>1, NoneRuns
<1>8. Quiet'
  BY <1>5 DEF Quiet, MountPcs
<1>10. /\ VolumeTypes' /\ DevicesInv' /\ AskedInv' /\ IdsInv' /\ SerialsInv' /\ LocksInv'
      /\ HandlesInv' /\ CacheInv'
  <2>1. ~Creating' /\ mounts' = mounts /\ mounts' >= mounts
    BY <1>1, <1>3, <1>5 DEF Creating
  <2> QED BY <1>1, <1>3, <1>5, <1>7, <1>8, <2>1, QuietStep
<1>11. RequestInv' /\ DownInv'
  BY <1>1, <1>5 DEF RequestInv, DownInv, LockPcs
<1>12. NestInv'
  BY <1>1, <1>5, <1>7 DEF VolumesInv, NestInv, New, LockPcs, MountPcs
<1>13. LoopInv'
  <2>1. \A e \in Drives : Present(e) => device[e].id \in Nat /\ device[e].id <= LastUniqueVolumeId
    BY DEF VolumesInv, IdsInv, VolumeTypes, Device
  <2>2. \A e \in Drives : Present(e)' => ~(device'[e].id >= mreq'.maxId)
    BY <1>1, <1>3, <1>5, <2>1 DEF Present
  <2> QED BY <1>5, <2>2 DEF LoopInv, LockPcs
<1> QED BY <1>10, <1>11, <1>12, <1>13 DEF VolumesInv

\* FindVolumeWithHighestUniqueId finds a volume if there is one, and none is above it.
LEMMA HighestVolume ==
    ASSUME VolumesInv, NEW m \in Nat
    PROVE  /\ FindVolumeWithHighestUniqueId(m) = {} =>
                 \A e \in Drives : Present(e) => ~(device[e].id <= m)
           /\ \A d \in FindVolumeWithHighestUniqueId(m) :
                 /\ d \in Drives /\ Present(d) /\ device[d].id <= m
                 /\ \A e \in Drives : Present(e) /\ device[e].id <= m => device[e].id <= device[d].id
<1> DEFINE cand == {d \in Drives : Present(d) /\ device[d].id <= m}
           T == {m - device[d].id : d \in cand}
<1>1. \A d \in Drives : device[d].id \in Nat
  BY DEF VolumesInv, VolumeTypes, Device
<1>2. CASE cand = {}
  BY <1>2 DEF FindVolumeWithHighestUniqueId
<1>3. CASE cand # {}
  <2>1. T \in SUBSET Nat /\ T # {}
    <3>1. \A n \in Nat : n <= m => m - n \in Nat
      OBVIOUS
    <3>2. \A d \in cand : m - device[d].id \in Nat
      BY <1>1, <3>1
    <3>3. PICK d \in cand : TRUE
      BY <1>3
    <3>4. m - device[d].id \in T
      OBVIOUS
    <3> QED BY <3>2, <3>4
  <2>2. \E t \in T : \A k \in T : t <= k
    <3> HIDE DEF T
    <3> QED BY <2>1, LeastNumber
  <2>3. PICK d \in cand : \A k \in T : m - device[d].id <= k
    BY <2>2
  <2>4. \A e \in cand : device[e].id <= device[d].id
    <3> TAKE e \in cand
    <3>1. m - device[d].id <= m - device[e].id
      BY <2>3
    <3>2. device[d].id \in Nat /\ device[e].id \in Nat
      BY <1>1
    <3> QED BY <3>1, <3>2
  <2>5. FindVolumeWithHighestUniqueId(m) = {CHOOSE c \in cand : \A e \in cand : device[e].id <= device[c].id}
    BY <1>3 DEF FindVolumeWithHighestUniqueId
  <2>6. PICK c \in cand : FindVolumeWithHighestUniqueId(m) = {c} /\ \A e \in cand : device[e].id <= device[c].id
    BY <2>4, <2>5
  <2> QED BY <2>6
<1> QED BY <1>2, <1>3

\* A request moves on.
LEMMA RequestMoves ==
    ASSUME mreq \in Request, NEW pc \in RequestPcs, mreq' = [mreq EXCEPT !.pc = pc]
    PROVE  mreq' \in Request /\ mreq'.pc = pc /\ mreq'.triggered = mreq.triggered /\ SameRequest
BY DEF Request, SameRequest

LEMMA NextVolumeKeeps == ASSUME VolumesInv, NextVolume PROVE VolumesInv'
<1> USE MountAssumption
<1>1. /\ mreq.op = "unmountAll" /\ mreq.pc = "next"
      /\ UNCHANGED <<device, links, LastUniqueVolumeId, hostHandles, cacheVars, volIrp, down, mounts, orphaned>>
  BY Zenon DEF NextVolume
<1>2. /\ mreq \in Request /\ mreq.maxId \in Nat /\ mounts \in Nat /\ orphaned \in BOOLEAN
      /\ \A d \in Drives : device[d].id \in Nat
  BY DEF VolumesInv, VolumeTypes, Request, Device
<1> DEFINE found == IF mreq.maxId = 0 THEN {} ELSE FindVolumeWithHighestUniqueId(mreq.maxId - 1)
<1>3. Quiet /\ \A d \in Drives : ~New(d) /\ ~Handled(d) /\ (Present(d) => d \in links)
  BY <1>1 DEF VolumesInv, DevicesInv, DeviceInv, Quiet, New, Handled, MountPcs
<1>4. mreq.force => \A e \in Drives : Present(e) /\ Accessible(mreq.by, e) => ~(device[e].id >= mreq.maxId)
  BY <1>1 DEF VolumesInv, LoopInv, LockPcs
<1>5. \A e, n \in Nat : n # 0 => (n - 1 \in Nat /\ (e >= n \/ e <= n - 1))
  OBVIOUS
<1>6. CASE found = {} /\ mreq' = [mreq EXCEPT !.pc = "return"]
  <2>1. mreq' \in Request /\ mreq'.pc = "return" /\ mreq'.triggered = mreq.triggered /\ SameRequest
    BY <1>2, <1>6, RequestMoves DEF RequestPcs
  <2>2. Quiet' /\ ~Creating' /\ mounts' = mounts /\ mounts' >= mounts
    BY <1>1, <1>2, <2>1 DEF Quiet, MountPcs, Creating, SameRequest
  <2>3. /\ VolumeTypes' /\ DevicesInv' /\ AskedInv' /\ IdsInv' /\ SerialsInv' /\ LocksInv'
        /\ HandlesInv' /\ CacheInv'
    BY <1>1, <1>2, <1>3, <2>1, <2>2, QuietStep DEF VolumesInv, VolumeTypes
  <2>4. RequestInv' /\ DownInv'
    BY <1>1, <2>1 DEF VolumesInv, RequestInv, DownInv, LockPcs, SameRequest
  <2>5. NestInv'
    BY <1>1, <1>3, <2>1 DEF VolumesInv, NestInv, New, LockPcs, MountPcs
  <2>6. \A e \in Drives : Present(e) => device[e].id >= mreq.maxId
    <3>1. CASE mreq.maxId = 0
      BY <1>2, <3>1
    <3>2. CASE mreq.maxId # 0
      <4>1. mreq.maxId - 1 \in Nat
        BY <1>2, <1>5, <3>2
      <4>2. \A e \in Drives : Present(e) => ~(device[e].id <= mreq.maxId - 1)
        BY <1>6, <3>2, <4>1, HighestVolume
      <4> QED BY <1>2, <1>5, <3>2, <4>2
    <3> QED BY <3>1, <3>2
  <2>7. LoopInv'
    BY <1>1, <1>4, <2>1, <2>6 DEF LoopInv, LockPcs, SameRequest, Present, Accessible
  <2> QED BY <2>3, <2>4, <2>5, <2>7 DEF VolumesInv
<1>7. ASSUME NEW d \in found,
             mreq' = [mreq EXCEPT !.maxId = device[d].id, !.drive = d,
                          !.pc = IF Accessible(mreq.by, d) THEN "lock" ELSE "next"]
      PROVE  VolumesInv'
  <2> DEFINE p == IF Accessible(mreq.by, d) THEN "lock" ELSE "next"
  <2>1. mreq.maxId # 0 /\ mreq.maxId - 1 \in Nat /\ d \in FindVolumeWithHighestUniqueId(mreq.maxId - 1)
    BY <1>2, <1>5, <1>7
  <2>2. /\ d \in Drives /\ Present(d)
        /\ \A e \in Drives : Present(e) /\ device[e].id <= mreq.maxId - 1 => device[e].id <= device[d].id
    BY <2>1, HighestVolume
  <2>3. /\ mreq' \in Request /\ mreq'.drive = d /\ mreq'.maxId = device[d].id /\ mreq'.pc = p
        /\ mreq'.op = mreq.op /\ mreq'.by = mreq.by /\ mreq'.force = mreq.force
    <3>1. PICK pc \in RequestPcs : pc = p
      BY DEF RequestPcs, LockPcs
    <3>2. PICK n \in Nat : n = device[d].id
      BY <1>2, <2>2
    <3>3. mreq' = [mreq EXCEPT !.maxId = n, !.drive = d, !.pc = pc]
      BY <1>7, <3>1, <3>2
    <3>4. /\ mreq' \in Request /\ mreq'.drive = d /\ mreq'.maxId = n /\ mreq'.pc = pc
          /\ mreq'.op = mreq.op /\ mreq'.by = mreq.by /\ mreq'.force = mreq.force
      BY <1>2, <2>2, <3>3 DEF Request
    <3> QED BY <3>1, <3>2, <3>4
  <2>4. Quiet' /\ ~Creating' /\ mounts' = mounts /\ mounts' >= mounts
    BY <1>1, <1>2, <2>3 DEF Quiet, MountPcs, Creating
  <2>5. /\ VolumeTypes' /\ DevicesInv' /\ AskedInv' /\ IdsInv' /\ SerialsInv' /\ LocksInv'
        /\ HandlesInv' /\ CacheInv'
    BY <1>1, <1>2, <1>3, <2>2, <2>3, <2>4, QuietStep DEF VolumesInv, VolumeTypes
  <2>6. RequestInv' /\ DownInv'
    BY <1>1, <2>2, <2>3 DEF VolumesInv, RequestInv, DownInv, LockPcs
  <2>7. NestInv'
    BY <1>1, <1>3, <2>3 DEF VolumesInv, NestInv, New, LockPcs, MountPcs
  <2>8. \A e \in Drives : Present(e) /\ e # d => device[e].id # device[d].id
    BY <1>3, <2>2 DEF VolumesInv, IdsInv, Old
  <2>9. mreq.force => \A e \in Drives :
           Present(e) /\ device[e].id >= device[d].id /\ Accessible(mreq.by, e) => e = d
    <3> SUFFICES ASSUME mreq.force, NEW e \in Drives, Present(e), device[e].id >= device[d].id,
                        Accessible(mreq.by, e)
                 PROVE  e = d
      OBVIOUS
    <3>1. device[e].id <= device[d].id
      BY <1>2, <1>4, <1>5, <2>1, <2>2
    <3>2. device[e].id = device[d].id
      BY <1>2, <2>2, <3>1
    <3> QED BY <2>8, <3>2
  <2>10. LoopInv'
    BY <1>1, <2>2, <2>3, <2>9 DEF LoopInv, LockPcs, Present, Accessible
  <2> QED BY <2>5, <2>6, <2>7, <2>10 DEF VolumesInv
<1>8. \/ found = {} /\ mreq' = [mreq EXCEPT !.pc = "return"]
      \/ \E d \in found : mreq' = [mreq EXCEPT !.maxId = device[d].id, !.drive = d,
                                       !.pc = IF Accessible(mreq.by, d) THEN "lock" ELSE "next"]
  BY Zenon DEF NextVolume
<1> QED BY Zenon, <1>6, <1>7, <1>8

LEMMA LockFileSystemKeeps == ASSUME VolumesInv, LockFileSystem PROVE VolumesInv'
<1> USE MountAssumption
<1>1. /\ mreq.op \in {"unmount", "unmountAll"} /\ mreq.pc = "lock"
      /\ UNCHANGED <<device, links, LastUniqueVolumeId, hostHandles, cacheVars, volIrp, down, mounts>>
  BY DEF LockFileSystem, UnmountStep
<1>2. mreq \in Request /\ mounts \in Nat /\ orphaned \in BOOLEAN /\ mreq.drive \in links
  BY <1>1 DEF VolumesInv, VolumeTypes, DevicesInv
<1>3. Quiet /\ \A d \in Drives : ~New(d)
  BY <1>1 DEF Quiet, New, MountPcs
<1>4. CASE /\ mreq.force \/ NestedOn(mreq.drive) = {}
           /\ mreq' = [mreq EXCEPT !.pc = "shut"]
           /\ orphaned' = (orphaned \/ NestedOn(mreq.drive) # {})
  <2>1. mreq' \in Request /\ mreq'.pc = "shut" /\ mreq'.triggered = mreq.triggered /\ SameRequest
    BY <1>2, <1>4, RequestMoves DEF RequestPcs, LockPcs
  <2>2. Quiet' /\ ~Creating' /\ mounts' = mounts /\ mounts' >= mounts
    BY <1>1, <1>2, <2>1 DEF Quiet, MountPcs, Creating, SameRequest
  <2>o. orphaned' \in BOOLEAN
    BY <1>4
  <2>3. /\ VolumeTypes' /\ DevicesInv' /\ AskedInv' /\ IdsInv' /\ SerialsInv' /\ LocksInv'
        /\ HandlesInv' /\ CacheInv'
    BY <1>1, <1>2, <1>3, <2>1, <2>2, <2>o, QuietStep DEF VolumesInv, VolumeTypes, SameRequest
  <2>4. RequestInv' /\ DownInv'
    BY <1>1, <2>1 DEF VolumesInv, RequestInv, DownInv, LockPcs, SameRequest
  <2>5. NestedOn(mreq.drive)' = NestedOn(mreq.drive)
    BY <1>1, <2>1 DEF NestedOn, Present, SameRequest
  <2>6. ~orphaned' => ~orphaned /\ NestedOn(mreq.drive) = {}
    BY <1>2, <1>4
  <2>7. NestInv'
    BY <1>1, <1>3, <2>1, <2>5, <2>6 DEF VolumesInv, NestInv, New, LockPcs, MountPcs, SameRequest
  <2>8. LoopInv'
    BY <1>1, <2>1 DEF VolumesInv, LoopInv, LockPcs, SameRequest, Present, Accessible
  <2> QED BY <2>3, <2>4, <2>7, <2>8 DEF VolumesInv
<1>5. CASE /\ ~mreq.force /\ UNCHANGED orphaned
           /\ mreq' = [mreq EXCEPT !.pc = IF mreq.op = "unmount" THEN "return" ELSE "next",
                                   !.ret = "filesOpen"]
  <2>0. PICK p \in RequestPcs : p = IF mreq.op = "unmount" THEN "return" ELSE "next"
    BY DEF RequestPcs
  <2>m. mreq' = [mreq EXCEPT !.pc = p, !.ret = "filesOpen"]
    BY <1>5, <2>0
  <2>1. mreq' \in Request /\ mreq'.pc = p /\ mreq'.triggered = mreq.triggered /\ SameRequest
    BY <1>2, <2>m DEF Request, SameRequest, Results
  <2>2. Quiet' /\ ~Creating' /\ mounts' = mounts /\ mounts' >= mounts
    BY <1>1, <1>2, <2>0, <2>1 DEF Quiet, MountPcs, Creating, SameRequest
  <2>3. /\ VolumeTypes' /\ DevicesInv' /\ AskedInv' /\ IdsInv' /\ SerialsInv' /\ LocksInv'
        /\ HandlesInv' /\ CacheInv'
    BY <1>1, <1>2, <1>3, <1>5, <2>0, <2>1, <2>2, QuietStep DEF VolumesInv, VolumeTypes
  <2>4. RequestInv' /\ DownInv'
    BY <1>1, <2>0, <2>1 DEF VolumesInv, RequestInv, DownInv, LockPcs, SameRequest
  <2>7. NestInv'
    BY <1>1, <1>3, <1>5, <2>0, <2>1 DEF VolumesInv, NestInv, New, LockPcs, MountPcs
  <2>8. LoopInv'
    BY <1>1, <1>5, <2>0, <2>1 DEF LoopInv, LockPcs, SameRequest
  <2> QED BY <2>3, <2>4, <2>7, <2>8 DEF VolumesInv
<1> QED BY <1>4, <1>5 DEF LockFileSystem

LEMMA ReturnRequestKeeps == ASSUME VolumesInv, ReturnRequest PROVE VolumesInv'
<1> USE MountAssumption
<1>1. /\ mreq.pc = "return" /\ mreq' = NoRequest
      /\ UNCHANGED <<device, links, LastUniqueVolumeId, hostHandles, cacheVars, volIrp, mounts, orphaned>>
  BY DEF ReturnRequest
<1>2. mreq' \in Request /\ mreq'.op = "none" /\ mreq'.pc = "idle"
  BY <1>1, NoRequestType
<1>3. mreq.op # "none" /\ mounts \in Nat /\ orphaned \in BOOLEAN
      /\ down \in {"up", "unmounting", "wiping", "down"}
  BY <1>1 DEF VolumesInv, VolumeTypes, RequestInv
<1>4. Quiet /\ \A d \in Drives : ~New(d) /\ ~Handled(d) /\ (Present(d) <=> d \in links)
  BY <1>1 DEF VolumesInv, DevicesInv, DeviceInv, Quiet, New, Handled, MountPcs, Mounted, Running, Present
<1>5. down' = down \/ (down' = "wiping" /\ mreq.by = System /\ mreq.op = "unmountAll" /\ mreq.force /\ ~mreq.triggered)
  BY DEF ReturnRequest
<1>6. Quiet' /\ ~Creating' /\ mounts' = mounts /\ mounts' >= mounts
  BY <1>1, <1>2, <1>3 DEF Quiet, MountPcs, Creating
<1>7. /\ VolumeTypes' /\ DevicesInv' /\ AskedInv' /\ IdsInv' /\ SerialsInv' /\ LocksInv'
      /\ HandlesInv' /\ CacheInv'
  BY <1>1, <1>2, <1>3, <1>4, <1>5, <1>6, QuietStep
<1>8. RequestInv' /\ LoopInv'
  BY <1>2 DEF RequestInv, LoopInv, LockPcs
<1>9. NestInv'
  BY <1>1, <1>2, <1>4 DEF VolumesInv, NestInv, New, LockPcs, MountPcs
<1>10. DownInv'
  <2>1. down \notin {"wiping", "down"}
    BY <1>3 DEF VolumesInv, DownInv
  <2>2. CASE down' = down
    BY <2>1, <2>2 DEF DownInv
  <2>3. CASE down' = "wiping" /\ mreq.by = System /\ mreq.op = "unmountAll" /\ mreq.force /\ ~mreq.triggered
    <3>1. \A e \in Drives : ~Present(e)
      BY <1>1, <2>3 DEF VolumesInv, LoopInv, Accessible
    <3>2. links' = {}
      BY <1>1, <1>4, <3>1 DEF VolumesInv, VolumeTypes
    <3> QED BY <1>2, <2>3, <3>2 DEF DownInv
  <2> QED BY <1>5, <2>2, <2>3
<1> QED BY <1>7, <1>8, <1>9, <1>10 DEF VolumesInv

-----------------------------------------------------------------------------
(* A step that changes one device: what each part of the invariant asks of the new one. *)

LEMMA HandlesKept ==
    ASSUME VolumesInv, NEW d \in Drives, NEW v \in Device, ChangeDevice(d, v),
           v.open <=> device[d].open, v.open => v.host = device[d].host, hostHandles' = hostHandles
    PROVE  HandlesInv'
<1>1. device'[d] = v /\ \A e \in Drives : e # d => device'[e] = device[e]
  BY OneChanged DEF VolumesInv
<1>2. \A h \in Hosts : OpenOn(h)' = OpenOn(h)
  <2> TAKE h \in Hosts
  <2>1. \A e \in Drives : e \in OpenOn(h)' <=> e \in OpenOn(h)
    BY <1>1 DEF OpenOn
  <2> QED BY <2>1 DEF OpenOn
<1> QED BY <1>2 DEF VolumesInv, HandlesInv

LEMMA HandlesClosed ==
    ASSUME VolumesInv, NEW d \in Drives, NEW v \in Device, ChangeDevice(d, v),
           device[d].open, ~v.open, device[d].host \in Hosts, TCCloseVolume(d)
    PROVE  HandlesInv' /\ hostHandles' \in [Hosts -> Int]
<1> USE MountAssumption
<1>1. device'[d] = v /\ \A e \in Drives : e # d => device'[e] = device[e]
  BY OneChanged DEF VolumesInv
<1>2. PICK g \in Hosts : g = device[d].host
  OBVIOUS
<1>3. hostHandles \in [Hosts -> Int] /\ hostHandles' = [hostHandles EXCEPT ![g] = hostHandles[g] - 1]
  BY <1>2 DEF VolumesInv, VolumeTypes, TCCloseVolume
<1>4. hostHandles' \in [Hosts -> Int] /\ \A h \in Hosts : hostHandles'[h] = IF h = g THEN hostHandles[g] - 1 ELSE hostHandles[h]
  BY <1>3
<1>5. \A h \in Hosts : h # g => OpenOn(h)' = OpenOn(h)
  BY <1>1, <1>2 DEF OpenOn
<1>6. OpenOn(g)' = OpenOn(g) \ {d} /\ d \in OpenOn(g)
  BY <1>1, <1>2 DEF OpenOn
<1>7. IsFiniteSet(OpenOn(g))
  BY FS_Subset DEF OpenOn
<1>8. Cardinality(OpenOn(g)') = Cardinality(OpenOn(g)) - 1
  <2>1. Cardinality(OpenOn(g) \ {d}) = Cardinality(OpenOn(g)) - 1
    BY <1>6, <1>7, FS_RemoveElement
  <2> QED BY <1>6, <2>1
<1>9. HandlesInv'
  <2>1. \A h \in Hosts : hostHandles[h] = Cardinality(OpenOn(h))
    BY DEF VolumesInv, HandlesInv
  <2>2. hostHandles'[g] = Cardinality(OpenOn(g)')
    BY <1>4, <1>8, <2>1
  <2>3. \A h \in Hosts : h # g => hostHandles'[h] = Cardinality(OpenOn(h)')
    BY <1>4, <1>5, <2>1
  <2> QED BY <2>2, <2>3 DEF HandlesInv
<1> QED BY <1>4, <1>9

LEMMA LocksKept ==
    ASSUME VolumesInv, NEW d \in Drives, NEW v \in Device, ChangeDevice(d, v),
           v.locks = device[d].locks, v.list = device[d].list, volIrp' = volIrp
    PROVE  LocksInv'
<1>1. \A e \in Drives : device'[e].locks = device[e].locks /\ device'[e].list = device[e].list
  BY OneChanged DEF VolumesInv
<1>2. \A e \in Drives : LockedOn(e)' = LockedOn(e)
  BY DEF LockedOn
<1>3. \A e \in Drives : ListInv(e)' <=> ListInv(e)
  BY <1>1 DEF ListInv
<1> QED BY <1>1, <1>2, <1>3 DEF VolumesInv, LocksInv

\* A device without locks has no IRPs.
LEMMA NoLocksNoIrps ==
    ASSUME VolumesInv, NEW d \in Drives, device[d].locks = 0
    PROVE  LockedOn(d) = {} /\ device[d].list = <<>>
<1> USE MountAssumption
<1>1. IsFiniteSet(LockedOn(d)) /\ Cardinality(LockedOn(d)) = 0
  <2>1. LockedOn(d) \subseteq VolIrps
    BY DEF LockedOn
  <2>2. IsFiniteSet(LockedOn(d))
    BY <2>1, FS_Subset
  <2> QED BY <2>2 DEF VolumesInv, LocksInv
<1>2. LockedOn(d) = {}
  BY <1>1, FS_EmptySet
<1>3. device[d].list \in Seq(VolIrps) /\ ListInv(d)
  BY DEF VolumesInv, VolumeTypes, Device, LocksInv
<1>4. \A k \in DOMAIN device[d].list : device[d].list[k] \in LockedOn(d)
  BY <1>3 DEF ListInv, LockedOn, Holding
<1>5. DOMAIN device[d].list = {}
  BY <1>2, <1>4
<1>6. device[d].list = <<>>
  <2>1. \A s \in Seq(VolIrps) : s # <<>> => 1 \in DOMAIN s
    OBVIOUS
  <2> QED BY <1>3, <1>5, <2>1
<1> QED BY <1>2, <1>6

LEMMA SerialsKept ==
    ASSUME VolumesInv, NEW d \in Drives, NEW v \in Device, ChangeDevice(d, v),
           v.serial = device[d].serial \/ device[d].locks = 0,
           Old(d)' /\ Creating' => Old(d) /\ v.serial = device[d].serial,
           \A e \in Drives : e # d => (New(e) => New(e)'),
           Creating' => Creating, UNCHANGED <<volIrp, mounts>>
    PROVE  SerialsInv'
<1>1. device'[d] = v /\ \A e \in Drives : e # d => device'[e] = device[e]
  BY OneChanged DEF VolumesInv
<1>2. v.serial # device[d].serial => LockedOn(d) = {}
  BY NoLocksNoIrps
<1>3. \A i \in VolIrps : volIrp[i].state \in Holding /\ volIrp[i].drive = d => v.serial = device[d].serial
  BY <1>2 DEF LockedOn
<1>4. \A e \in Drives : Old(e)' /\ Creating' => Old(e) /\ device'[e].serial = device[e].serial
  BY <1>1 DEF Old, Present
<1> QED BY <1>1, <1>3, <1>4 DEF VolumesInv, SerialsInv

LEMMA IdsKept ==
    ASSUME VolumesInv, NEW d \in Drives, NEW v \in Device, ChangeDevice(d, v),
           Old(d)' => Old(d) /\ v.id = device[d].id,
           v.id <= LastUniqueVolumeId,
           \A e \in Drives : e # d => (New(e) => New(e)'),
           LastUniqueVolumeId' = LastUniqueVolumeId
    PROVE  IdsInv'
<1>1. device'[d] = v /\ \A e \in Drives : e # d => device'[e] = device[e]
  BY OneChanged DEF VolumesInv
<1>2. \A e \in Drives : Old(e)' => Old(e) /\ device'[e].id = device[e].id
  BY <1>1 DEF Old, Present
<1>3. \A e \in Drives : Present(e)' => device'[e].id <= LastUniqueVolumeId'
  BY <1>1 DEF VolumesInv, IdsInv, Present
<1> QED BY <1>2, <1>3 DEF VolumesInv, IdsInv

LEMMA OthersKept ==
    ASSUME VolumesInv, NEW d \in Drives, NEW v \in Device, ChangeDevice(d, v),
           mreq' = mreq \/ (mreq.drive = d /\ mreq'.drive = d),
           mounts' = mounts, \A e \in Drives : e # d => (e \in links' <=> e \in links),
           NEW e \in Drives, e # d
    PROVE  DeviceInv(e)'
<1>1. device'[e] = device[e] /\ (e \in links' <=> e \in links)
  BY OneChanged DEF VolumesInv
<1>2. CASE mreq' = mreq
  BY <1>1, <1>2 DEF VolumesInv, DevicesInv, DeviceInv, Present, Handled, Mounted, BeingMounted, BeingUnmounted
<1>3. CASE mreq.drive = d /\ mreq'.drive = d
  <2>1. ~Handled(e) /\ ~Handled(e)'
    BY <1>3 DEF Handled
  <2> QED BY <1>1, <2>1 DEF VolumesInv, DevicesInv, DeviceInv, Present, Mounted
<1> QED BY <1>2, <1>3

LEMMA NestKept ==
    ASSUME VolumesInv, NEW d \in Drives, NEW v \in Device, ChangeDevice(d, v),
           v.open => device[d].open /\ v.base = device[d].base,
           v.id = device[d].id \/ (d \notin links /\ (New(d) \/ ~v.open)),
           \A e \in Drives : e # d => (New(e) => New(e)'),
           New(d) /\ ~New(d)' /\ v.open /\ v.base # 0 /\ v.base \in links => device[v.base].id < v.id,
           \/ links \subseteq links'
           \/ links' = links \ {d} /\ (~orphaned => NestedOn(d) = {}),
           mreq'.pc \in LockPcs \ {"lock"} => mreq.pc \in LockPcs \ {"lock"} /\ mreq'.drive = mreq.drive,
           orphaned' = orphaned
    PROVE  NestInv'
<1> SUFFICES ASSUME ~orphaned PROVE NestInv'
  BY DEF NestInv
<1>1. device'[d] = v /\ \A e \in Drives : e # d => device'[e] = device[e]
  BY OneChanged DEF VolumesInv
<1>2. \A e \in Drives : device[e].open => Present(e)
  BY NoDeviceFields DEF VolumesInv, DevicesInv, DeviceInv
<1>3. \A e \in Drives : device'[e].open => device[e].open /\ device'[e].base = device[e].base
  BY <1>1
<1>4. \A e \in Drives : device[e].open /\ device[e].base # 0 =>
         /\ device[e].base \in links /\ device[e].base # e /\ device[e].base \in Drives
         /\ New(e) \/ device[device[e].base].id < device[e].id
  BY DEF VolumesInv, NestInv, VolumeTypes
<1>5. \A e \in Drives : device[e].open /\ device[e].base # 0 => device[e].base \in links'
  BY <1>2, <1>4 DEF NestedOn
<1>6. ASSUME NEW e \in Drives, device'[e].open, device'[e].base # 0
      PROVE  New(e)' \/ device'[device'[e].base].id < device'[e].id
  <2> DEFINE b == device[e].base
  <2>1. /\ device[e].open /\ device'[e].base = b /\ b # 0 /\ b \in links /\ b # e /\ b \in Drives
        /\ New(e) \/ device[b].id < device[e].id
    BY <1>3, <1>4, <1>6
  <2> HIDE DEF b
  <2>2. device'[b].id = device[b].id
    BY <1>1, <2>1
  <2>3. CASE e # d
    BY <1>1, <2>1, <2>2, <2>3
  <2>4. CASE e = d /\ New(d)
    BY <1>1, <1>6, <2>1, <2>2, <2>4
  <2>5. CASE e = d /\ ~New(d)
    <3>1. v.id = device[d].id
      BY <1>1, <1>6, <2>5
    <3> QED BY <1>1, <2>1, <2>2, <2>5, <3>1
  <2> QED BY <2>3, <2>4, <2>5
<1>7. mreq'.pc \in LockPcs \ {"lock"} => NestedOn(mreq.drive)' = {}
  <2> SUFFICES ASSUME mreq'.pc \in LockPcs \ {"lock"} PROVE NestedOn(mreq.drive)' = {}
    OBVIOUS
  <2>1. NestedOn(mreq.drive) = {} /\ mreq'.drive = mreq.drive
    BY DEF VolumesInv, NestInv
  <2>2. \A e \in Drives : ~(device[e].open /\ device[e].base = mreq.drive)
    BY <1>2, <2>1 DEF NestedOn
  <2> QED BY <1>3, <2>1, <2>2 DEF NestedOn
<1> QED BY <1>3, <1>4, <1>5, <1>6, <1>7 DEF NestInv

-----------------------------------------------------------------------------
(* The steps of MountDevice.                                                *)

\* The letter of a mount request that was not refused.
LEMMA MountFacts ==
    ASSUME VolumesInv, mreq.op = "mount", mreq.pc \in {"create"} \cup MountPcs
    PROVE  /\ mreq.drive \in Drives /\ mreq.drive \notin links /\ mreq.host \in Hosts
           /\ device[mreq.drive] \in Device /\ down \notin {"wiping", "down"} /\ mounts \in Nat
           /\ device[mreq.drive].locks = 0 /\ device[mreq.drive].list = <<>>
           /\ mreq.pc = "create" => device[mreq.drive] = NoDevice
           /\ mreq.pc \in MountPcs => Handled(mreq.drive) /\ BeingMounted(device[mreq.drive])
           /\ ~Old(mreq.drive) /\ \A e \in Drives : New(e) => e = mreq.drive
<1>1. mreq.drive \in Drives /\ mreq.host \in Hosts
  BY DEF VolumesInv, RequestInv
<1>2. device[mreq.drive] \in Device /\ mounts \in Nat
  BY <1>1 DEF VolumesInv, VolumeTypes
<1>3. down \notin {"wiping", "down"} /\ \A e \in Drives : New(e) => e = mreq.drive
  BY DEF VolumesInv, DownInv, New
<1>4. CASE mreq.pc = "create"
  BY <1>1, <1>2, <1>3, <1>4, NoDeviceFields DEF VolumesInv, DevicesInv, DeviceInv, MountPcs, Old
<1>5. CASE mreq.pc \in MountPcs
  <2>1. Handled(mreq.drive) /\ New(mreq.drive) /\ mreq.pc # "create"
    BY <1>5 DEF Handled, New, MountPcs
  <2>2. mreq.drive \notin links /\ BeingMounted(device[mreq.drive])
    BY <1>1, <1>5, <2>1 DEF VolumesInv, DevicesInv, DeviceInv
  <2> QED BY <1>1, <1>2, <1>3, <2>1, <2>2 DEF BeingMounted, Old
<1> QED BY <1>4, <1>5

LEMMA MountStepKeeps ==
    ASSUME VolumesInv, mreq.op = "mount", mreq.pc \in {"create"} \cup MountPcs,
           NEW d \in Drives, d = mreq.drive, NEW v \in Device, ChangeDevice(d, v), SameRequest, mreq' \in Request,
           mreq'.pc \in MountPcs \cup {"return"},
           v.locks = 0, v.list = <<>>,
           v.protect => v.kind = "outer" /\ HiddenPassword[v.host] # NoPassword,
           v.triggered => v.protect,
           links' = links \/ links' = links \cup {d},
           DeviceInv(d)', HandlesInv', IdsInv', NestInv', CacheInv',
           hostHandles' \in [Hosts -> Int], LastUniqueVolumeId' \in Nat,
           UNCHANGED <<volIrp, down, mounts, orphaned>>
    PROVE  VolumesInv'
<1>1. /\ d \in Drives /\ d \notin links /\ mreq.host \in Hosts /\ down \notin {"wiping", "down"}
      /\ device[d].locks = 0 /\ device[d].list = <<>> /\ \A e \in Drives : New(e) => e = d
  BY MountFacts
<1>2. /\ mreq'.drive = d /\ mreq'.op = "mount" /\ mreq'.host \in Hosts
  BY <1>1 DEF SameRequest
<1>3. device'[d] = v /\ device' \in [Drives -> Device] /\ \A e \in Drives : e # d => device'[e] = device[e]
  BY <1>1, OneChanged DEF VolumesInv
<1>4. VolumeTypes'
  <2>1. links' \subseteq Drives
    BY <1>1 DEF VolumesInv, VolumeTypes
  <2> QED BY <1>3, <2>1 DEF VolumesInv, VolumeTypes
<1>5. RequestInv'
  BY <1>1, <1>2 DEF RequestInv, MountPcs, LockPcs
<1>6. DevicesInv'
  <2>1. \A e \in Drives : e # d => (e \in links' <=> e \in links)
    BY <1>1
  <2>2. \A e \in Drives : e # d => DeviceInv(e)'
    BY <1>1, <1>2, <2>1, OthersKept
  <2>4. \A e \in Drives : DeviceInv(e)'
    BY <2>2
  <2> QED BY <2>4 DEF DevicesInv, MountPcs
<1>7. AskedInv'
  BY <1>3 DEF VolumesInv, AskedInv
<1>8. SerialsInv'
  <2>1. ~(Old(d)' /\ Creating') /\ (Creating' => Creating)
    BY <1>1, <1>2 DEF Old, New, Creating, MountPcs
  <2>2. \A e \in Drives : e # d => (New(e) => New(e)')
    BY <1>1
  <2> QED BY <1>1, <2>1, <2>2, SerialsKept
<1>9. LocksInv'
  BY <1>1, LocksKept
<1>10. LoopInv' /\ DownInv'
  BY <1>1, <1>2 DEF LoopInv, DownInv
<1> QED BY <1>4, <1>5, <1>6, <1>7, <1>8, <1>9, <1>10 DEF VolumesInv

LEMMA CacheKept == ASSUME VolumesInv, UNCHANGED cacheVars PROVE CacheInv'
BY DEF VolumesInv, CacheInv, cacheVars

\* Steps after the creation that change neither identifiers nor what is open.
LEMMA MountSteady ==
    ASSUME VolumesInv, mreq.op = "mount", mreq.pc \in {"create"} \cup MountPcs,
           NEW d \in Drives, d = mreq.drive, NEW v \in Device, ChangeDevice(d, v), SameRequest, mreq' \in Request,
           mreq'.pc \in MountPcs \cup {"return"},
           v.locks = 0, v.list = <<>>, v.protect => device[d].protect /\ v.kind = device[d].kind
                                                      /\ v.host = device[d].host,
           v.triggered => v.protect,
           v.open <=> device[d].open,
           v.open => v.host = device[d].host /\ v.base = device[d].base,
           v.id <= LastUniqueVolumeId, v.id = device[d].id \/ ~v.open,
           mreq'.pc = "return" => v = NoDevice,
           DeviceInv(d)', CacheInv',
           UNCHANGED <<links, LastUniqueVolumeId, hostHandles, volIrp, down, mounts, orphaned>>
    PROVE  VolumesInv'
<1>1. d \in Drives /\ d \notin links /\ (\A e \in Drives : New(e) => e = d) /\ ~Old(d)
  BY MountFacts
<1>2. mreq'.drive = d
  BY DEF SameRequest
<1>3. device'[d] = v
  BY <1>1, OneChanged DEF VolumesInv
<1>4. HandlesInv'
  BY <1>1, HandlesKept
<1>5. ~Old(d)'
  BY <1>2, <1>3, NoDeviceFields DEF Old, New, Present
<1>6. IdsInv'
  BY <1>1, <1>5, IdsKept
<1>7. NestInv'
  <2>1. \A e \in Drives : e # d => (New(e) => New(e)')
    BY <1>1
  <2>2. ~New(d)' => ~v.open
    BY <1>2, NoDeviceFields DEF New
  <2>3. mreq'.pc \notin LockPcs
    BY DEF MountPcs, LockPcs
  <2>4. v.id = device[d].id \/ (d \notin links /\ (New(d) \/ ~v.open))
    BY <1>1
  <2>5. v.open => device[d].open /\ v.base = device[d].base
    OBVIOUS
  <2> QED BY <1>1, <2>1, <2>2, <2>3, <2>4, <2>5, NestKept
<1>8. v.protect => v.kind = "outer" /\ HiddenPassword[v.host] # NoPassword
  BY <1>1 DEF VolumesInv, AskedInv
<1>9. hostHandles' \in [Hosts -> Int] /\ LastUniqueVolumeId' \in Nat
  BY DEF VolumesInv, VolumeTypes
<1> QED BY <1>4, <1>6, <1>7, <1>8, <1>9, MountStepKeeps

LEMMA CreateVolumeDeviceKeeps == ASSUME VolumesInv, CreateVolumeDevice PROVE VolumesInv'
<1> USE MountAssumption
<1>1. /\ mreq.op = "mount" /\ mreq.pc = "create"
      /\ UNCHANGED <<links, LastUniqueVolumeId, hostHandles, cacheVars, volIrp, down, mounts, orphaned>>
  BY DEF CreateVolumeDevice, MountStep
<1>2. PICK d \in Drives : /\ d = mreq.drive /\ d \notin links /\ mreq.host \in Hosts
                          /\ device[d] = NoDevice /\ mounts \in Nat
  BY <1>1, MountFacts
<1>t. VolumeTypes
  BY DEF VolumesInv
<1>3. CASE ChangeDevice(d, NewDevice) /\ MountGoTo("opening", "none")
  <2>1. mreq' \in Request /\ mreq'.pc = "opening" /\ mreq'.triggered = mreq.triggered /\ SameRequest
    BY <1>3, <1>t, GoToFacts DEF RequestPcs, MountPcs, Results
  <2>2. PICK v \in Device :
           /\ v = NewDevice /\ v.thread = "opening" /\ v.host = mreq.host /\ v.serial = mounts
           /\ v.id = 0 /\ v.locks = 0 /\ v.sem = 0 /\ v.list = <<>>
           /\ ~v.protect /\ ~v.triggered /\ ~v.open /\ ~v.shutting /\ ~v.removing /\ ~v.quit
    BY <1>2, <1>t, NewDeviceType
  <2>3. ChangeDevice(d, v) /\ device'[d] = v
    BY <1>2, <1>3, <1>t, <2>2, OneChanged
  <2>4. DeviceInv(d)'
    <3>1. Handled(d)' /\ d \notin links' /\ mreq'.host = mreq.host
      BY <1>1, <1>2, <2>1 DEF Handled, MountPcs, SameRequest
    <3>2. BeingMounted(device[d])'
      BY <1>1, <2>1, <2>2, <2>3, <3>1 DEF BeingMounted
    <3>3. Present(d)' /\ device'[d].host \in Hosts /\ device'[d].serial <= mounts'
      BY <1>1, <1>2, <2>2, <2>3 DEF Present
    <3> QED BY <2>1, <3>1, <3>2, <3>3 DEF DeviceInv, MountPcs
  <2>5. CacheInv'
    BY <1>1, CacheKept
  <2>6. v.id <= LastUniqueVolumeId
    BY <1>t, <2>2 DEF VolumeTypes
  <2>7. ~device[d].open /\ mreq'.pc \in MountPcs /\ mreq'.pc # "return"
    BY <1>2, <2>1, NoDeviceFields DEF MountPcs
  <2> QED BY <1>1, <1>2, <2>1, <2>2, <2>3, <2>4, <2>5, <2>6, <2>7, MountSteady
<1>4. CASE MountGoTo("return", "osError") /\ UNCHANGED device
  <2>1. mreq' \in Request /\ mreq'.pc = "return" /\ mreq'.triggered = mreq.triggered /\ SameRequest
    BY <1>4, <1>t, GoToFacts DEF RequestPcs, Results
  <2>2. Quiet /\ Quiet' /\ ~Creating' /\ mounts' = mounts /\ mounts' >= mounts
    BY <1>1, <1>2, <2>1 DEF Quiet, MountPcs, Creating
  <2>3. /\ VolumeTypes' /\ DevicesInv' /\ AskedInv' /\ IdsInv' /\ SerialsInv' /\ LocksInv'
        /\ HandlesInv' /\ CacheInv'
    BY <1>1, <1>2, <1>4, <1>t, <2>1, <2>2, QuietStep DEF VolumeTypes
  <2>4. RequestInv' /\ DownInv' /\ LoopInv'
    BY <1>1, <1>2, <2>1 DEF VolumesInv, RequestInv, DownInv, LockPcs, SameRequest, LoopInv
  <2>5. NestInv'
    BY <1>1, <1>4, <2>1 DEF VolumesInv, NestInv, New, LockPcs, MountPcs
  <2> QED BY <2>3, <2>4, <2>5 DEF VolumesInv
<1> QED BY <1>2, <1>3, <1>4 DEF CreateVolumeDevice

\* The thread of the volume reports a failure and ends; TCStartVolumeThread returns it.
LEMMA OpeningFails ==
    ASSUME VolumesInv, MountStep("opening"), NEW ret \in Results, Opened("delete", ret), CacheInv',
           ChangeDevice(mreq.drive, [device[mreq.drive] EXCEPT !.thread = "ended"]),
           UNCHANGED <<links, LastUniqueVolumeId, hostHandles, volIrp, down, mounts, orphaned>>
    PROVE  VolumesInv'
<1>1. mreq.op = "mount" /\ mreq.pc = "opening" /\ mreq.pc \in MountPcs
  BY DEF MountStep, MountPcs
<1>2. PICK d \in Drives : /\ d = mreq.drive /\ d \notin links /\ mreq.host \in Hosts /\ mounts \in Nat
                          /\ BeingMounted(device[d]) /\ device[d] \in Device /\ Handled(d)
  BY <1>1, MountFacts
<1>3. PICK v \in Device :
         /\ v = [device[d] EXCEPT !.thread = "ended"] /\ v.thread = "ended"
         /\ v.host = device[d].host /\ v.serial = device[d].serial /\ v.id = device[d].id
         /\ v.locks = device[d].locks /\ v.list = device[d].list /\ v.sem = device[d].sem
         /\ v.kind = device[d].kind /\ v.protect = device[d].protect /\ v.triggered = device[d].triggered
         /\ v.open = device[d].open /\ v.base = device[d].base /\ v.quit = device[d].quit
         /\ v.removing = device[d].removing /\ v.shutting = device[d].shutting
  BY <1>2, SMTT(60) DEF Device, Threads
<1>4. ChangeDevice(d, v)
  BY <1>2, <1>3
<1>5. device'[d] = v
  BY <1>4, OneChanged DEF VolumesInv
<1>6. mreq' \in Request /\ mreq'.pc = "delete" /\ SameRequest
  BY GoToFacts DEF RequestPcs, MountPcs, VolumesInv
<1>7. DeviceInv(d)'
  <2>1. Handled(d)' /\ d \notin links' /\ mreq'.host = mreq.host
    BY <1>1, <1>2, <1>6 DEF Handled, MountPcs, SameRequest
  <2>2. BeingMounted(device[d])'
    BY <1>1, <1>2, <1>3, <1>5, <1>6, <2>1 DEF BeingMounted
  <2>3. Present(d)' /\ device'[d].host \in Hosts /\ device'[d].serial <= mounts'
    BY <1>1, <1>2, <1>3, <1>5 DEF Present, BeingMounted
  <2> QED BY <1>6, <2>1, <2>2, <2>3 DEF DeviceInv, MountPcs
<1>8. v.id <= LastUniqueVolumeId /\ (v.triggered => v.protect) /\ v.locks = 0 /\ v.list = <<>>
  BY <1>1, <1>2, <1>3 DEF VolumesInv, IdsInv, AskedInv, BeingMounted, Present
<1>9. mreq'.pc \in MountPcs /\ mreq'.pc # "return"
  BY <1>6 DEF MountPcs
<1> QED BY <1>1, <1>2, <1>3, <1>4, <1>6, <1>7, <1>8, <1>9, MountSteady, ZenonT(60)

LEMMA HostFailsKeeps == ASSUME VolumesInv, HostFails PROVE VolumesInv'
<1>1. CacheInv' /\ "osError" \in Results
  BY CacheKept DEF HostFails, Results
<1> QED BY <1>1, OpeningFails DEF HostFails

\* The cache: a password is put where the oldest one is.
CacheOk(c) ==
    /\ c.slots \in [0 .. CacheSize - 1 -> Passwords]
    /\ c.idx \in 0 .. CacheSize - 1 /\ c.empty \in BOOLEAN
    /\ \A i, j \in 0 .. CacheSize - 1 : i # j /\ c.slots[i] # NoPassword => c.slots[i] # c.slots[j]
    /\ c.empty <=> \A i \in 0 .. CacheSize - 1 : c.slots[i] = NoPassword
    /\ \A i \in 0 .. CacheSize - 1 : i < c.idx => c.slots[i] # NoPassword

LEMMA NextSlot ==
    ASSUME NEW n \in Nat \ {0}, NEW k \in 0 .. n - 1
    PROVE  ((k + 1) % n = k + 1 /\ k + 1 \in 0 .. n - 1) \/ (k + 1) % n = 0
<1>1. CASE k + 1 = n
  <2>1. n % n = 0
    OBVIOUS
  <2> QED BY <1>1, <2>1
<1>2. CASE k + 1 # n
  <2>1. k + 1 \in 0 .. n - 1
    BY <1>2
  <2>2. \A m \in 0 .. n - 1 : m % n = m
    OBVIOUS
  <2> QED BY <2>1, <2>2
<1> QED BY <1>1, <1>2

LEMMA AddToCacheOk ==
    ASSUME NEW c, CacheOk(c), NEW p \in Passwords \ {NoPassword}
    PROVE  CacheOk(AddToCache(c, p))
<1> USE MountAssumption
<1> DEFINE D == 0 .. CacheSize - 1
<1>1. CASE \E i \in DOMAIN c.slots : c.slots[i] = p
  BY <1>1 DEF AddToCache
<1>2. CASE ~ \E i \in DOMAIN c.slots : c.slots[i] = p
  <2>1. PICK s \in [D -> Passwords], k \in D, k2 \in D :
           /\ s = c.slots /\ k = c.idx /\ k2 = (k + 1) % CacheSize /\ (k2 = k + 1 \/ k2 = 0)
    <3>1. c.idx \in D /\ c.slots \in [D -> Passwords] /\ 0 \in D
      BY DEF CacheOk
    <3>2. (c.idx + 1) % CacheSize \in D /\ ((c.idx + 1) % CacheSize = c.idx + 1 \/ (c.idx + 1) % CacheSize = 0)
      BY <3>1, NextSlot
    <3> QED BY <3>1, <3>2
  <2>2. AddToCache(c, p) = [slots |-> [s EXCEPT ![k] = p], idx |-> k2, empty |-> FALSE]
    BY <1>2, <2>1 DEF AddToCache
  <2>3. /\ \A i \in D : s[i] # p
        /\ \A i, j \in D : i # j /\ s[i] # NoPassword => s[i] # s[j]
        /\ \A i \in D : i < k => s[i] # NoPassword
    BY <1>2, <2>1 DEF CacheOk
  <2> DEFINE t == [s EXCEPT ![k] = p]
  <2>4. t \in [D -> Passwords] /\ t[k] = p /\ \A i \in D : i # k => t[i] = s[i]
    BY <2>1
  <2> HIDE DEF t
  <2>5. \A i, j \in D : i # j /\ t[i] # NoPassword => t[i] # t[j]
    BY <2>3, <2>4
  <2>6. \A i \in D : i < k2 => t[i] # NoPassword
    <3>1. \A i \in D : i < k2 => i = k \/ i < k
      BY <2>1
    <3> QED BY <2>3, <2>4, <3>1
  <2>7. AddToCache(c, p) = [slots |-> t, idx |-> k2, empty |-> FALSE]
    BY <2>2 DEF t
  <2> QED BY <2>4, <2>5, <2>6, <2>7 DEF CacheOk
<1> QED BY <1>1, <1>2

LEMMA RecachedOk ==
    ASSUME NEW c, CacheOk(c), NEW p \in Passwords, NEW b \in BOOLEAN
    PROVE  CacheOk(Recached(c, p, b))
BY AddToCacheOk DEF Recached

LEMMA OpeningKeepsCache ==
    ASSUME VolumesInv, Stored(CacheAfterOpen) PROVE CacheInv'
<1>1. mreq.pwd \in Passwords /\ mreq.hpwd \in Passwords
  BY DEF VolumesInv, VolumeTypes, Request
<1>2. CacheOk(ThisCache)
  BY DEF VolumesInv, CacheInv, CacheOk, ThisCache
<1> DEFINE outer == Opens(mreq.host, "outer", mreq.pwd)
           hidden(p) == Opens(mreq.host, "hidden", p)
           c == Recached(ThisCache, mreq.pwd, outer)
<1>3. outer \in BOOLEAN /\ hidden(mreq.pwd) \in BOOLEAN /\ (outer /\ hidden(mreq.hpwd)) \in BOOLEAN
  BY DEF Opens
<1> HIDE DEF outer, hidden
<1>4. CacheOk(c)
  BY <1>1, <1>2, <1>3, RecachedOk
<1> HIDE DEF c
<1>5. CacheOk(Recached(c, mreq.hpwd, outer /\ hidden(mreq.hpwd))) /\ CacheOk(Recached(c, mreq.pwd, hidden(mreq.pwd)))
  BY <1>1, <1>3, <1>4, RecachedOk
<1>6. CacheAfterOpen = IF mreq.protect THEN Recached(c, mreq.hpwd, outer /\ hidden(mreq.hpwd))
                       ELSE IF outer THEN c ELSE Recached(c, mreq.pwd, hidden(mreq.pwd))
  BY Zenon DEF CacheAfterOpen, c, outer, hidden
<1>7. CacheOk(CacheAfterOpen)
  BY <1>4, <1>5, <1>6
<1> QED BY <1>7 DEF CacheOk, CacheInv, Stored

LEMMA PasswordWrongKeeps == ASSUME VolumesInv, PasswordWrong PROVE VolumesInv'
<1>1. CacheInv' /\ "passwordWrong" \in Results
  BY OpeningKeepsCache DEF PasswordWrong, Results
<1> QED BY <1>1, OpeningFails DEF PasswordWrong

LEMMA HandlesOpened ==
    ASSUME VolumesInv, NEW d \in Drives, NEW v \in Device, ChangeDevice(d, v), NEW g \in Hosts,
           ~device[d].open, v.open, v.host = g, hostHandles' = [hostHandles EXCEPT ![g] = @ + 1]
    PROVE  HandlesInv' /\ hostHandles' \in [Hosts -> Int]
<1> USE MountAssumption
<1>1. device'[d] = v /\ \A e \in Drives : e # d => device'[e] = device[e]
  BY OneChanged DEF VolumesInv
<1>2. hostHandles \in [Hosts -> Int]
  BY DEF VolumesInv, VolumeTypes
<1>3. hostHandles' \in [Hosts -> Int] /\ \A h \in Hosts : hostHandles'[h] = IF h = g THEN hostHandles[g] + 1 ELSE hostHandles[h]
  BY <1>2
<1>4. \A h \in Hosts : h # g => OpenOn(h)' = OpenOn(h)
  BY <1>1 DEF OpenOn
<1>5. OpenOn(g)' = OpenOn(g) \cup {d} /\ d \notin OpenOn(g)
  BY <1>1 DEF OpenOn
<1>6. IsFiniteSet(OpenOn(g))
  BY FS_Subset DEF OpenOn
<1>7. Cardinality(OpenOn(g)') = Cardinality(OpenOn(g)) + 1
  <2>1. Cardinality(OpenOn(g) \cup {d}) = Cardinality(OpenOn(g)) + 1
    BY <1>5, <1>6, FS_AddElement
  <2> QED BY <1>5, <2>1
<1>8. \A h \in Hosts : hostHandles[h] = Cardinality(OpenOn(h))
  BY DEF VolumesInv, HandlesInv
<1>9. hostHandles'[g] = Cardinality(OpenOn(g)')
  BY <1>3, <1>7, <1>8
<1>10. \A h \in Hosts : h # g => hostHandles'[h] = Cardinality(OpenOn(h)')
  BY <1>3, <1>4, <1>8
<1>11. HandlesInv'
  BY <1>9, <1>10 DEF HandlesInv
<1> QED BY <1>3, <1>11

LEMMA VolumeOpensKeeps == ASSUME VolumesInv, VolumeOpens PROVE VolumesInv'
<1> USE MountAssumption
<1> DEFINE r == OpenVolumeResult
<1>1. /\ mreq.op = "mount" /\ mreq.pc = "opening" /\ mreq.pc \in MountPcs
      /\ HostReachable(mreq.host) /\ Stored(CacheAfterOpen) /\ Opened("queue", "none")
      /\ hostHandles' = [hostHandles EXCEPT ![mreq.host] = @ + 1]
      /\ ChangeDevice(mreq.drive, [device[mreq.drive] EXCEPT !.open = TRUE,
            !.base = IF HostOn[mreq.host] = NoHost THEN 0 ELSE CHOOSE b \in BaseOf(mreq.host) : TRUE,
            !.kind = IF r = "hidden" THEN "hidden" ELSE "outer",
            !.protect = (r = "protected")])
      /\ UNCHANGED <<links, LastUniqueVolumeId, volIrp, down, mounts, orphaned>>
  BY Zenon DEF VolumeOpens, MountStep, MountPcs
<1>2. PICK d \in Drives : /\ d = mreq.drive /\ d \notin links /\ mreq.host \in Hosts /\ mounts \in Nat
                          /\ BeingMounted(device[d]) /\ device[d] \in Device
                          /\ \A e \in Drives : New(e) => e = d
  BY <1>1, MountFacts
<1>3. PICK b \in links \cup {0} :
         b = IF HostOn[mreq.host] = NoHost THEN 0 ELSE CHOOSE x \in BaseOf(mreq.host) : TRUE
  BY <1>1 DEF HostReachable, BaseOf
<1>4. b \in Drives \cup {0}
  BY <1>3 DEF VolumesInv, VolumeTypes
<1>5. PICK k \in {"outer", "hidden"} : k = IF r = "hidden" THEN "hidden" ELSE "outer"
  OBVIOUS
<1>6. PICK q \in BOOLEAN : q = (r = "protected")
  OBVIOUS
<1>7. q => k = "outer" /\ HiddenPassword[mreq.host] # NoPassword
  BY <1>5, <1>6 DEF OpenVolumeResult, Opens
<1> HIDE DEF r
<1>8. ChangeDevice(d, [device[d] EXCEPT !.open = TRUE, !.base = b, !.kind = k, !.protect = q])
  BY <1>1, <1>2, <1>3, <1>5, <1>6
<1>9. PICK v \in Device :
         /\ v = [device[d] EXCEPT !.open = TRUE, !.base = b, !.kind = k, !.protect = q]
         /\ v.open /\ v.base = b /\ v.kind = k /\ v.protect = q /\ v.thread = device[d].thread
         /\ v.host = device[d].host /\ v.serial = device[d].serial /\ v.id = device[d].id
         /\ v.locks = device[d].locks /\ v.list = device[d].list /\ v.sem = device[d].sem
         /\ v.triggered = device[d].triggered /\ v.quit = device[d].quit
         /\ v.removing = device[d].removing /\ v.shutting = device[d].shutting
  <2>1. PICK w \in Device : w = device[d]
    BY <1>2
  <2>2. PICK c \in {"none", "outer", "hidden"} : c = k
    BY <1>5
  <2> DEFINE x == [w EXCEPT !.open = TRUE, !.base = b, !.kind = c, !.protect = q]
  <2>3. x \in Device
    BY <1>4 DEF Device
  <2>4. /\ x.open /\ x.base = b /\ x.kind = c /\ x.protect = q /\ x.thread = w.thread
        /\ x.host = w.host /\ x.serial = w.serial /\ x.id = w.id
        /\ x.locks = w.locks /\ x.list = w.list /\ x.sem = w.sem
        /\ x.triggered = w.triggered /\ x.quit = w.quit
        /\ x.removing = w.removing /\ x.shutting = w.shutting
    BY DEF Device
  <2> HIDE DEF x
  <2>5. x = [device[d] EXCEPT !.open = TRUE, !.base = b, !.kind = k, !.protect = q]
    BY <2>1, <2>2 DEF x
  <2> QED BY <2>1, <2>2, <2>3, <2>4, <2>5, ZenonT(60)
<1>10. ChangeDevice(d, v)
  BY <1>8, <1>9
<1>11. device'[d] = v /\ \A e \in Drives : e # d => device'[e] = device[e]
  BY <1>10, OneChanged DEF VolumesInv
<1>12. mreq' \in Request /\ mreq'.pc = "queue" /\ SameRequest
  BY <1>1, GoToFacts DEF RequestPcs, MountPcs, Results, VolumesInv
<1>13. DeviceInv(d)'
  <2>1. Handled(d)' /\ d \notin links' /\ mreq'.host = mreq.host
    BY <1>1, <1>2, <1>12 DEF Handled, MountPcs, SameRequest
  <2>2. BeingMounted(device[d])'
    BY <1>1, <1>2, <1>9, <1>11, <1>12, <2>1 DEF BeingMounted
  <2>3. Present(d)' /\ device'[d].host \in Hosts /\ device'[d].serial <= mounts'
    BY <1>1, <1>2, <1>9, <1>11 DEF Present, BeingMounted
  <2> QED BY <1>12, <2>1, <2>2, <2>3 DEF DeviceInv, MountPcs
<1>14. ~v.triggered /\ v.locks = 0 /\ v.list = <<>> /\ v.host = mreq.host /\ ~device[d].open
  BY <1>1, <1>2, <1>9 DEF BeingMounted
<1>15. HandlesInv' /\ hostHandles' \in [Hosts -> Int]
  BY <1>1, <1>2, <1>9, <1>10, <1>14, HandlesOpened
<1>n. New(d) /\ New(d)'
  BY <1>1, <1>2, <1>12 DEF New, MountPcs, SameRequest
<1>16. IdsInv'
  <2>1. ~Old(d)' /\ v.id <= LastUniqueVolumeId
    BY <1>1, <1>2, <1>9, <1>n DEF VolumesInv, IdsInv, Old, BeingMounted, Present
  <2> QED BY <1>1, <1>2, <1>10, <2>1, IdsKept
<1>17. NestInv'
  <2> SUFFICES ASSUME ~orphaned PROVE NestInv'
    BY <1>1 DEF NestInv
  <2>1. mreq'.pc \notin LockPcs
    BY <1>12 DEF LockPcs
  <2>2. \A e \in Drives : e # d /\ device[e].open /\ device[e].base # 0 =>
           device[e].base \in links /\ device[e].base # e /\ device[device[e].base].id < device[e].id
    BY <1>2 DEF VolumesInv, NestInv
  <2>3. \A e \in Drives : e # d /\ device'[e].open /\ device'[e].base # 0 =>
           device'[e].base \in links' /\ device'[e].base # e /\ device'[device'[e].base].id < device'[e].id
    BY <1>1, <1>2, <1>11, <2>2 DEF VolumesInv, VolumeTypes
  <2>4. b # 0 => b \in links' /\ b # d
    BY <1>1, <1>2, <1>3
  <2>5. \A e \in Drives : device'[e].open /\ device'[e].base # 0 =>
           /\ device'[e].base \in links' /\ device'[e].base # e
           /\ New(e)' \/ device'[device'[e].base].id < device'[e].id
    <3> TAKE e \in Drives
    <3>1. CASE e = d
      <4>1. device'[e].base = b /\ New(e)'
        BY <1>9, <1>11, <1>n, <3>1
      <4> QED BY <2>4, <3>1, <4>1
    <3>2. CASE e # d
      BY <2>3, <3>2
    <3> QED BY <3>1, <3>2
  <2> QED BY <2>1, <2>5 DEF NestInv
<1>18. CacheInv' /\ LastUniqueVolumeId' \in Nat /\ mreq'.pc \in MountPcs
  BY <1>1, <1>12, OpeningKeepsCache DEF VolumesInv, VolumeTypes, MountPcs
<1>19. v.protect => v.kind = "outer" /\ HiddenPassword[v.host] # NoPassword
  BY <1>7, <1>9, <1>14
<1> QED BY <1>1, <1>2, <1>10, <1>12, <1>13, <1>14, <1>15, <1>16, <1>17, <1>18, <1>19, MountStepKeeps

LEMMA StartVolumeQueueKeeps == ASSUME VolumesInv, StartVolumeQueue PROVE VolumesInv'
<1>1. /\ mreq.op = "mount" /\ mreq.pc = "queue" /\ mreq.pc \in MountPcs
      /\ UNCHANGED <<links, LastUniqueVolumeId, cacheVars, volIrp, down, mounts, orphaned>>
  BY DEF StartVolumeQueue, MountStep, MountPcs
<1>2. PICK d \in Drives : /\ d = mreq.drive /\ d \notin links /\ mreq.host \in Hosts /\ mounts \in Nat
                          /\ BeingMounted(device[d]) /\ device[d] \in Device
                          /\ \A e \in Drives : New(e) => e = d
  BY <1>1, MountFacts
<1>3. /\ device[d].thread = "opening" /\ device[d].open /\ device[d].host = mreq.host
      /\ device[d].serial = mounts /\ device[d].locks = 0 /\ device[d].list = <<>>
      /\ (device[d].triggered => device[d].protect) /\ device[d].id <= LastUniqueVolumeId
  BY <1>1, <1>2 DEF BeingMounted, VolumesInv, AskedInv, IdsInv, Present
<1>4. CacheInv' /\ VolumeTypes
  BY <1>1, CacheKept DEF VolumesInv
<1>r. {"serving", "ended"} \subseteq Threads
  BY DEF Threads
<1>5. CASE /\ ChangeDevice(mreq.drive, [device[mreq.drive] EXCEPT !.thread = "serving"])
           /\ MountGoTo("link", "none") /\ UNCHANGED hostHandles
  <2>1. PICK v \in Device :
           /\ v = [device[d] EXCEPT !.thread = "serving"] /\ SameVolume(v, device[d])
           /\ v.thread = "serving" /\ v.id = device[d].id /\ v.triggered = device[d].triggered
           /\ v.open = device[d].open /\ v.shutting = device[d].shutting
           /\ v.removing = device[d].removing /\ v.locks = device[d].locks
           /\ v.list = device[d].list /\ v.sem = device[d].sem /\ v.quit = device[d].quit
    BY <1>2, <1>r, ThreadSet
  <2>2. ChangeDevice(d, v)
    BY <1>2, <1>5, <2>1
  <2>3. device'[d] = v
    BY <1>4, <2>2, OneChanged
  <2>4. mreq' \in Request /\ mreq'.pc = "link" /\ SameRequest
    BY <1>4, <1>5, GoToFacts DEF RequestPcs, MountPcs, Results
  <2>5. DeviceInv(d)'
    <3>1. Handled(d)' /\ d \notin links' /\ mreq'.host = mreq.host
      BY <1>1, <1>2, <2>4 DEF Handled, MountPcs, SameRequest
    <3>2. BeingMounted(device[d])'
      BY <1>1, <1>2, <2>1, <2>3, <2>4, <3>1 DEF BeingMounted, SameVolume
    <3>3. Present(d)' /\ device'[d].host \in Hosts /\ device'[d].serial <= mounts'
      BY <1>1, <1>2, <1>3, <2>1, <2>3 DEF Present, SameVolume
    <3> QED BY <2>4, <3>1, <3>2, <3>3 DEF DeviceInv, MountPcs
  <2>6. mreq'.pc \in MountPcs /\ mreq'.pc # "return"
    BY <2>4 DEF MountPcs
  <2>7. /\ v.locks = 0 /\ v.list = <<>> /\ (v.triggered => v.protect) /\ v.id <= LastUniqueVolumeId
        /\ v.protect = device[d].protect /\ v.kind = device[d].kind /\ v.host = device[d].host
        /\ v.open = device[d].open /\ v.base = device[d].base /\ v.id = device[d].id
    BY <1>3, <2>1 DEF SameVolume
  <2> QED BY <1>1, <1>2, <1>4, <1>5, <2>2, <2>4, <2>5, <2>6, <2>7, MountSteady
<1>6. CASE /\ ChangeDevice(mreq.drive, [device[mreq.drive] EXCEPT !.thread = "ended", !.open = FALSE])
           /\ TCCloseVolume(mreq.drive) /\ MountGoTo("delete", "osError")
  <2>1. PICK v \in Device :
           /\ v = Closed(device[d], "ended") /\ SameVolume(v, device[d])
           /\ v.thread = "ended" /\ v.id = device[d].id /\ v.triggered = device[d].triggered
           /\ ~v.open /\ v.shutting = device[d].shutting
           /\ v.removing = device[d].removing /\ v.locks = device[d].locks
           /\ v.list = device[d].list /\ v.sem = device[d].sem /\ v.quit = device[d].quit
    BY <1>2, <1>r, VolumeClosed
  <2>2. ChangeDevice(d, v) /\ TCCloseVolume(d)
    BY <1>2, <1>6, <2>1 DEF Closed
  <2>3. device'[d] = v
    BY <1>4, <2>2, OneChanged
  <2>4. mreq' \in Request /\ mreq'.pc = "delete" /\ SameRequest
    BY <1>4, <1>6, GoToFacts DEF RequestPcs, MountPcs, Results
  <2>5. DeviceInv(d)'
    <3>1. Handled(d)' /\ d \notin links' /\ mreq'.host = mreq.host
      BY <1>1, <1>2, <2>4 DEF Handled, MountPcs, SameRequest
    <3>2. BeingMounted(device[d])'
      BY <1>1, <1>2, <2>1, <2>3, <2>4, <3>1 DEF BeingMounted, SameVolume
    <3>3. Present(d)' /\ device'[d].host \in Hosts /\ device'[d].serial <= mounts'
      BY <1>1, <1>2, <1>3, <2>1, <2>3 DEF Present, SameVolume
    <3> QED BY <2>4, <3>1, <3>2, <3>3 DEF DeviceInv, MountPcs
  <2>6. mreq'.pc \in MountPcs /\ New(d) /\ New(d)'
    BY <1>1, <1>2, <2>4 DEF MountPcs, New, SameRequest
  <2>7. HandlesInv' /\ hostHandles' \in [Hosts -> Int]
    BY <1>2, <1>3, <2>1, <2>2, HandlesClosed
  <2>8. IdsInv'
    <3>1. ~Old(d)'
      BY <2>6 DEF Old
    <3> QED BY <1>1, <1>2, <1>3, <2>1, <2>2, <3>1, IdsKept
  <2>9. NestInv'
    <3>1. mreq'.pc \notin LockPcs
      BY <2>4 DEF LockPcs
    <3> QED BY <1>1, <1>2, <2>1, <2>2, <2>6, <3>1, NestKept
  <2>10. v.protect => v.kind = "outer" /\ HiddenPassword[v.host] # NoPassword
    BY <2>1 DEF VolumesInv, AskedInv, SameVolume
  <2>11. LastUniqueVolumeId' \in Nat
    BY <1>1, <1>4 DEF VolumeTypes
  <2>12. v.locks = 0 /\ v.list = <<>> /\ (v.triggered => v.protect)
    BY <1>3, <2>1 DEF SameVolume
  <2> QED BY <1>1, <1>2, <1>4, <2>12, <2>2, <2>4, <2>5, <2>6, <2>7, <2>8, <2>9, <2>10, <2>11, MountStepKeeps
<1> QED BY <1>5, <1>6 DEF StartVolumeQueue

LEMMA MountFailsKeeps == ASSUME VolumesInv, MountFails PROVE VolumesInv'
<1>1. /\ mreq.op = "mount" /\ mreq.pc = "delete" /\ mreq.pc \in MountPcs
      /\ ChangeDevice(mreq.drive, NoDevice) /\ MountGoTo("return", mreq.ret)
      /\ UNCHANGED <<links, LastUniqueVolumeId, hostHandles, cacheVars, volIrp, down, mounts, orphaned>>
  BY DEF MountFails, MountStep, MountPcs
<1>2. PICK d \in Drives : d = mreq.drive /\ d \notin links /\ BeingMounted(device[d])
  BY <1>1, MountFacts
<1>3. CacheInv' /\ VolumeTypes /\ mreq.ret \in Results
  BY <1>1, CacheKept DEF VolumesInv, VolumeTypes, Request
<1>4. PICK v \in Device : /\ v = NoDevice /\ v.locks = 0 /\ v.list = <<>> /\ v.thread = "none" /\ v.id = 0
                          /\ ~v.open /\ ~v.protect /\ ~v.triggered
  BY NoDeviceType, NoDeviceFields DEF NoDevice
<1>5. ChangeDevice(d, v)
  BY <1>1, <1>2, <1>4
<1>6. device'[d] = v
  BY <1>3, <1>5, OneChanged
<1>7. mreq' \in Request /\ mreq'.pc = "return" /\ SameRequest
  BY <1>1, <1>3, GoToFacts DEF RequestPcs
<1>8. DeviceInv(d)'
  <2>1. ~Handled(d)' /\ d \notin links' /\ ~Present(d)'
    BY <1>1, <1>2, <1>4, <1>6, <1>7 DEF Handled, MountPcs, Present
  <2> QED BY <1>4, <1>6, <2>1 DEF DeviceInv
<1>9. v.id <= LastUniqueVolumeId
  BY <1>3, <1>4 DEF VolumeTypes
<1>10. ~device[d].open
  BY <1>1, <1>2 DEF BeingMounted
<1> QED BY <1>1, <1>2, <1>3, <1>4, <1>5, <1>7, <1>8, <1>9, <1>10, MountSteady

LEMMA MountSucceedsKeeps == ASSUME VolumesInv, MountSucceeds PROVE VolumesInv'
<1>1. /\ mreq.op = "mount" /\ mreq.pc = "link" /\ mreq.pc \in MountPcs
      /\ ChangeDevice(mreq.drive, [device[mreq.drive] EXCEPT !.id = LastUniqueVolumeId])
      /\ LastUniqueVolumeId' = LastUniqueVolumeId + 1 /\ links' = links \cup {mreq.drive}
      /\ MountGoTo("return", "success")
      /\ UNCHANGED <<hostHandles, cacheVars, volIrp, down, mounts, orphaned>>
  BY DEF MountSucceeds, MountStep, MountPcs
<1>2. PICK d \in Drives : /\ d = mreq.drive /\ d \notin links /\ mreq.host \in Hosts /\ mounts \in Nat
                          /\ BeingMounted(device[d]) /\ device[d] \in Device
                          /\ \A e \in Drives : New(e) => e = d
  BY <1>1, MountFacts
<1>3. CacheInv' /\ VolumeTypes /\ LastUniqueVolumeId \in Nat /\ hostHandles \in [Hosts -> Int]
  BY <1>1, CacheKept DEF VolumesInv, VolumeTypes
<1>4. PICK v \in Device :
         /\ v = [device[d] EXCEPT !.id = LastUniqueVolumeId] /\ SameVolume(v, device[d])
         /\ v.thread = device[d].thread /\ v.id = LastUniqueVolumeId
         /\ v.triggered = device[d].triggered /\ v.open = device[d].open
         /\ v.shutting = device[d].shutting /\ v.removing = device[d].removing
         /\ v.locks = device[d].locks /\ v.list = device[d].list /\ v.sem = device[d].sem
         /\ v.quit = device[d].quit
  BY <1>2, <1>3, IdSet
<1>v. /\ v.host = device[d].host /\ v.base = device[d].base /\ v.serial = device[d].serial
      /\ v.kind = device[d].kind /\ v.protect = device[d].protect
  BY <1>4 DEF SameVolume
<1>5. ChangeDevice(d, v) /\ links' = links \cup {d}
  BY <1>1, <1>2, <1>4
<1>6. device'[d] = v /\ \A e \in Drives : e # d => device'[e] = device[e]
  BY <1>3, <1>5, OneChanged
<1>7. mreq' \in Request /\ mreq'.pc = "return" /\ SameRequest
  BY <1>1, <1>3, GoToFacts DEF RequestPcs, Results
<1>8. /\ device[d].thread = "serving" /\ device[d].open /\ device[d].host = mreq.host
      /\ device[d].serial = mounts /\ device[d].locks = 0 /\ device[d].list = <<>>
      /\ ~device[d].quit /\ ~device[d].removing /\ ~device[d].shutting
      /\ (device[d].triggered => device[d].protect)
      /\ (device[d].protect => device[d].kind = "outer" /\ HiddenPassword[device[d].host] # NoPassword)
  BY <1>1, <1>2 DEF BeingMounted, VolumesInv, AskedInv
<1>9. DeviceInv(d)'
  <2>1. ~Handled(d)' /\ d \in links' /\ Mounted(d)'
    BY <1>4, <1>5, <1>6, <1>7, <1>8 DEF Handled, MountPcs, Mounted, Running
  <2>2. Present(d)' /\ device'[d].host \in Hosts /\ device'[d].serial <= mounts'
    BY <1>1, <1>2, <1>4, <1>v, <1>6, <1>8 DEF Present
  <2> QED BY <2>1, <2>2 DEF DeviceInv
<1>10. \A e \in Drives : (Old(e)' <=> Present(e)') /\ (e # d => (Old(e) <=> Present(e)))
  BY <1>2, <1>7 DEF Old, New, MountPcs
<1>11. IdsInv'
  <2>1. \A e \in Drives : e # d /\ Present(e)' => device'[e].id < LastUniqueVolumeId /\ device'[e].id \in Nat
    BY <1>3, <1>6, <1>10 DEF VolumesInv, IdsInv, Present, VolumeTypes, Device
  <2>2. \A n \in Nat : n < LastUniqueVolumeId => n < LastUniqueVolumeId' /\ n # LastUniqueVolumeId
    BY <1>1, <1>3
  <2>3. device'[d].id = LastUniqueVolumeId /\ LastUniqueVolumeId < LastUniqueVolumeId'
    BY <1>1, <1>3, <1>4, <1>6
  <2>4. \A e \in Drives : Present(e)' => device'[e].id < LastUniqueVolumeId'
    BY <2>1, <2>2, <2>3
  <2>5. \A e, g \in Drives : Present(e)' /\ Present(g)' /\ e # g => device'[e].id # device'[g].id
    <3> SUFFICES ASSUME NEW e \in Drives, NEW g \in Drives, Present(e)', Present(g)', e # g
                 PROVE  device'[e].id # device'[g].id
      OBVIOUS
    <3>1. CASE e # d /\ g # d
      BY <1>6, <1>10, <3>1 DEF VolumesInv, IdsInv, Present
    <3>2. CASE e = d \/ g = d
      BY <2>1, <2>2, <2>3, <3>2
    <3> QED BY <3>1, <3>2
  <2>6. \A n, m \in Nat : n < m => n <= m
    OBVIOUS
  <2>7. \A e \in Drives : device'[e].id \in Nat /\ LastUniqueVolumeId' \in Nat
    BY <1>1, <1>3, <1>4, <1>6, SMTT(60) DEF VolumeTypes, Device
  <2> QED BY <1>10, <2>4, <2>5, <2>6, <2>7 DEF IdsInv
<1>12. NestInv'
  <2>1. \A e \in links : device[e].id < LastUniqueVolumeId
    <3>1. \A e \in links : e \in Drives /\ e # d
      BY <1>2, <1>3 DEF VolumeTypes
    <3>2. \A e \in links : Present(e)
      <4> TAKE e \in links
      <4>1. ~Handled(e)
        BY <1>2, <3>1 DEF Handled
      <4> QED BY <3>1, <4>1 DEF VolumesInv, DevicesInv, DeviceInv, Mounted, Running, Present
    <3> QED BY <1>10, <3>1, <3>2 DEF VolumesInv, IdsInv
  <2>2. mreq'.pc \notin LockPcs /\ New(d)
    BY <1>1, <1>2, <1>7 DEF LockPcs, New
  <2>3. \A e \in Drives : e # d => (New(e) => New(e)')
    BY <1>2
  <2>4. links \subseteq links' /\ (v.base \in links => device[v.base].id < v.id)
    BY <1>4, <1>5, <2>1
  <2>5. v.open => device[d].open /\ v.base = device[d].base
    BY <1>4, <1>v
  <2> QED BY <1>1, <1>2, <1>5, <2>2, <2>3, <2>4, <2>5, NestKept
<1>13. HandlesInv'
  BY <1>1, <1>4, <1>v, <1>5, HandlesKept
<1>14. hostHandles' \in [Hosts -> Int] /\ LastUniqueVolumeId' \in Nat
  BY <1>1, <1>3
<1>15. /\ v.locks = 0 /\ v.list = <<>> /\ (v.triggered => v.protect)
       /\ (v.protect => v.kind = "outer" /\ HiddenPassword[v.host] # NoPassword)
  BY <1>4, <1>v, <1>8
<1>16. mreq'.pc \in MountPcs \cup {"return"}
  BY <1>7
<1> QED BY <1>1, <1>2, <1>3, <1>5, <1>7, <1>15, <1>16, <1>9, <1>11, <1>12, <1>13, <1>14, MountStepKeeps

-----------------------------------------------------------------------------
(* The steps of UnmountDevice.                                              *)

LEMMA UnmountFacts ==
    ASSUME VolumesInv, mreq.op \in {"unmount", "unmountAll"}, mreq.pc \in LockPcs
    PROVE  /\ mreq.drive \in Drives /\ device[mreq.drive] \in Device /\ Present(mreq.drive)
           /\ device[mreq.drive].host \in Hosts /\ device[mreq.drive].serial <= mounts
           /\ mreq.pc \in {"lock", "shut"} => mreq.drive \in links /\ Mounted(mreq.drive)
           /\ mreq.pc \in {"remove", "wait", "join"} =>
                 mreq.drive \notin links /\ BeingUnmounted(device[mreq.drive])
           /\ down \notin {"wiping", "down"} /\ ~Creating /\ \A e \in Drives : ~New(e)
<1>1. mreq.drive \in Drives /\ down \notin {"wiping", "down"} /\ ~Creating
  BY DEF VolumesInv, RequestInv, DownInv, Creating
<1>2. device[mreq.drive] \in Device /\ \A e \in Drives : ~New(e)
  BY <1>1 DEF VolumesInv, VolumeTypes, New, LockPcs, MountPcs
<1>3. DeviceInv(mreq.drive)
  BY <1>1 DEF VolumesInv, DevicesInv
<1>4. mreq.pc \in {"lock", "shut"} => mreq.drive \in links /\ Mounted(mreq.drive) /\ Present(mreq.drive)
  <2>1. mreq.pc \in {"lock", "shut"} => ~Handled(mreq.drive) /\ mreq.drive \in links
    BY DEF VolumesInv, DevicesInv, Handled, MountPcs
  <2> QED BY <1>3, <2>1 DEF DeviceInv, Mounted, Running, Present
<1>5. mreq.pc \in {"remove", "wait", "join"} =>
         mreq.drive \notin links /\ BeingUnmounted(device[mreq.drive]) /\ Present(mreq.drive)
  <2>1. mreq.pc \in {"remove", "wait", "join"} => Handled(mreq.drive) /\ mreq.pc \notin MountPcs
    BY DEF Handled, MountPcs
  <2> QED BY <1>3, <2>1 DEF DeviceInv, BeingUnmounted, Running, Present
<1>6. Present(mreq.drive)
  BY <1>4, <1>5 DEF LockPcs
<1> QED BY <1>1, <1>2, <1>3, <1>4, <1>5, <1>6 DEF DeviceInv

LEMMA UnmountStepKeeps ==
    ASSUME VolumesInv, mreq.op \in {"unmount", "unmountAll"}, mreq.pc \in {"shut", "remove", "wait"},
           NEW d \in Drives, d = mreq.drive, NEW v \in Device, ChangeDevice(d, v),
           SameVolume(v, device[d]), v.thread = device[d].thread, v.id = device[d].id,
           v.triggered = device[d].triggered, v.open = device[d].open,
           v.locks = device[d].locks, v.list = device[d].list,
           v.shutting, v.quit => v.removing /\ v.locks = 0 /\ mreq'.pc = "join",
           SameRequest, mreq' \in Request, mreq'.pc \in {"remove", "wait", "join"},
           mreq'.pc # "remove" => v.removing,
           links' = links \ {d},
           UNCHANGED <<LastUniqueVolumeId, hostHandles, cacheVars, volIrp, down, mounts, orphaned>>
    PROVE  VolumesInv'
<1>1. /\ Present(d) /\ device[d].host \in Hosts /\ device[d].serial <= mounts
      /\ down \notin {"wiping", "down"} /\ ~Creating /\ (\A e \in Drives : ~New(e))
      /\ device[d].thread \in Running \cup {"ended"} /\ (device[d].open <=> device[d].thread # "ended")
      /\ (device[d].thread = "ended" => v.quit) /\ device[d].thread # "ended"
  BY UnmountFacts DEF LockPcs, Mounted, BeingUnmounted, Running
<1>2. device'[d] = v /\ device' \in [Drives -> Device] /\ \A e \in Drives : e # d => device'[e] = device[e]
  BY OneChanged DEF VolumesInv
<1>v. /\ v.user = device[d].user /\ v.host = device[d].host /\ v.base = device[d].base
      /\ v.serial = device[d].serial /\ v.kind = device[d].kind /\ v.protect = device[d].protect
  BY DEF SameVolume
<1>3. /\ mreq'.drive = d /\ mreq'.op = mreq.op /\ mreq'.by = mreq.by /\ mreq'.maxId = mreq.maxId
      /\ mreq'.force = mreq.force /\ mreq'.pc \in LockPcs \ {"lock"} /\ mreq.pc \in LockPcs \ {"lock"}
  BY DEF SameRequest, LockPcs
<1>4. VolumeTypes'
  BY <1>2 DEF VolumesInv, VolumeTypes
<1>5. RequestInv'
  BY <1>3 DEF RequestInv, MountPcs, LockPcs
<1>6. DevicesInv'
  <2>1. \A e \in Drives : e # d => DeviceInv(e)'
    BY <1>3, OthersKept
  <2>2. DeviceInv(d)'
    <3>1. Handled(d)' /\ d \notin links' /\ mreq'.pc \notin MountPcs
      BY <1>3 DEF Handled, MountPcs
    <3>2. BeingUnmounted(device[d])'
      BY <1>1, <1>2 DEF BeingUnmounted
    <3>3. Present(d)' /\ device'[d].host \in Hosts /\ device'[d].serial <= mounts'
      BY <1>1, <1>2, <1>v DEF Present
    <3> QED BY <3>1, <3>2, <3>3 DEF DeviceInv
  <2>3. \A e \in Drives : DeviceInv(e)'
    BY <2>1, <2>2
  <2> QED BY <2>3 DEF DevicesInv
<1>7. AskedInv'
  BY <1>2, <1>v DEF VolumesInv, AskedInv
<1>n. \A e \in Drives : ~New(e)' /\ (Present(e)' <=> Present(e))
  BY <1>2 DEF New, MountPcs, Present
<1>8. SerialsInv'
  <2>1. ~Creating'
    BY <1>3 DEF Creating
  <2> QED BY <1>1, <1>v, <2>1, SerialsKept
<1>9. LocksInv' /\ HandlesInv'
  <2>1. LocksInv'
    BY LocksKept
  <2>2. HandlesInv'
    BY <1>v, HandlesKept
  <2> QED BY <2>1, <2>2
<1>10. IdsInv'
  <2>1. v.id <= LastUniqueVolumeId
    BY <1>1 DEF VolumesInv, IdsInv
  <2>2. Old(d)' => Old(d)
    BY <1>1, <1>n DEF Old
  <2> QED BY <1>1, <2>1, <2>2, IdsKept
<1>11. NestInv'
  <2>1. ~orphaned => NestedOn(d) = {}
    BY <1>3 DEF VolumesInv, NestInv
  <2> QED BY <1>1, <1>3, <1>v, <2>1, NestKept
<1>12. LoopInv'
  <2>1. \A e \in Drives : device'[e].id = device[e].id /\ (Accessible(mreq.by, e)' <=> Accessible(mreq.by, e))
    BY <1>2, <1>3, <1>v DEF Accessible
  <2> QED BY <1>3, <1>n, <2>1 DEF VolumesInv, LoopInv, LockPcs
<1>13. DownInv' /\ CacheInv'
  BY <1>1, CacheKept DEF DownInv
<1> QED BY <1>4, <1>5, <1>6, <1>7, <1>8, <1>9, <1>10, <1>11, <1>12, <1>13 DEF VolumesInv

LEMMA RemoveLinkKeeps == ASSUME VolumesInv, RemoveLink PROVE VolumesInv'
<1>1. /\ mreq.op \in {"unmount", "unmountAll"} /\ mreq.pc = "shut" /\ mreq.pc \in LockPcs
      /\ mreq' = [mreq EXCEPT !.pc = "remove"] /\ links' = links \ {mreq.drive}
      /\ ChangeDevice(mreq.drive, [device[mreq.drive] EXCEPT !.shutting = TRUE])
      /\ UNCHANGED <<LastUniqueVolumeId, hostHandles, cacheVars, volIrp, down, mounts, orphaned>>
  BY DEF RemoveLink, UnmountStep, LockPcs
<1>2. PICK d \in Drives : d = mreq.drive /\ device[d] \in Device /\ Mounted(d)
  BY <1>1, UnmountFacts
<1>3. PICK v \in Device :
         /\ v = [device[d] EXCEPT !.shutting = TRUE] /\ SameVolume(v, device[d])
         /\ v.thread = device[d].thread /\ v.id = device[d].id /\ v.triggered = device[d].triggered
         /\ v.open = device[d].open /\ v.shutting
         /\ v.removing = device[d].removing /\ v.locks = device[d].locks
         /\ v.list = device[d].list /\ v.sem = device[d].sem /\ v.quit = device[d].quit
  BY <1>2, ShuttingSet
<1>4. ChangeDevice(d, v) /\ links' = links \ {d}
  BY <1>1, <1>2, <1>3
<1>5. mreq' \in Request /\ mreq'.pc = "remove" /\ SameRequest
  BY <1>1, RequestMoves DEF VolumesInv, VolumeTypes, RequestPcs, LockPcs
<1>6. ~v.quit
  BY <1>2, <1>3 DEF Mounted
<1> QED BY <1>1, <1>2, <1>3, <1>4, <1>5, <1>6, UnmountStepKeeps

LEMMA BeginRemovalKeeps == ASSUME VolumesInv, BeginRemoval PROVE VolumesInv'
<1>1. /\ mreq.op \in {"unmount", "unmountAll"} /\ mreq.pc = "remove" /\ mreq.pc \in LockPcs
      /\ mreq' = [mreq EXCEPT !.pc = "wait"]
      /\ ChangeDevice(mreq.drive, [device[mreq.drive] EXCEPT !.removing = TRUE])
      /\ UNCHANGED <<links, LastUniqueVolumeId, hostHandles, cacheVars, volIrp, down, mounts, orphaned>>
  BY DEF BeginRemoval, UnmountStep, LockPcs
<1>2. PICK d \in Drives : d = mreq.drive /\ device[d] \in Device /\ d \notin links /\ BeingUnmounted(device[d])
  BY <1>1, UnmountFacts
<1>3. PICK v \in Device :
         /\ v = [device[d] EXCEPT !.removing = TRUE] /\ SameVolume(v, device[d])
         /\ v.thread = device[d].thread /\ v.id = device[d].id /\ v.triggered = device[d].triggered
         /\ v.open = device[d].open /\ v.shutting = device[d].shutting
         /\ v.removing /\ v.locks = device[d].locks
         /\ v.list = device[d].list /\ v.sem = device[d].sem /\ v.quit = device[d].quit
  BY <1>2, RemovingSet
<1>4. ChangeDevice(d, v) /\ links' = links \ {d}
  BY <1>1, <1>2, <1>3
<1>5. mreq' \in Request /\ mreq'.pc = "wait" /\ SameRequest
  BY <1>1, RequestMoves DEF VolumesInv, VolumeTypes, RequestPcs, LockPcs
<1>6. ~v.quit /\ v.shutting
  BY <1>1, <1>2, <1>3 DEF BeingUnmounted
<1> QED BY <1>1, <1>2, <1>3, <1>4, <1>5, <1>6, UnmountStepKeeps

LEMMA StopVolumeThreadKeeps == ASSUME VolumesInv, StopVolumeThread PROVE VolumesInv'
<1>1. /\ mreq.op \in {"unmount", "unmountAll"} /\ mreq.pc = "wait" /\ mreq.pc \in LockPcs
      /\ device[mreq.drive].locks = 0
      /\ mreq' = [mreq EXCEPT !.pc = "join", !.triggered = device[mreq.drive].protect
                                                             /\ device[mreq.drive].triggered]
      /\ ChangeDevice(mreq.drive, [device[mreq.drive] EXCEPT !.quit = TRUE, !.sem = @ + 1])
      /\ UNCHANGED <<links, LastUniqueVolumeId, hostHandles, cacheVars, volIrp, down, mounts, orphaned>>
  BY DEF StopVolumeThread, UnmountStep, LockPcs
<1>2. PICK d \in Drives : /\ d = mreq.drive /\ device[d] \in Device /\ d \notin links
                          /\ BeingUnmounted(device[d]) /\ device[d].locks = 0
  BY <1>1, UnmountFacts
<1>m. PICK m \in Int : m = device[d].sem + 1
  BY <1>2 DEF Device
<1>3. PICK v \in Device :
         /\ v = Quitting(device[d], m) /\ SameVolume(v, device[d])
         /\ v.thread = device[d].thread /\ v.id = device[d].id /\ v.triggered = device[d].triggered
         /\ v.open = device[d].open /\ v.shutting = device[d].shutting
         /\ v.removing = device[d].removing /\ v.locks = device[d].locks
         /\ v.list = device[d].list /\ v.sem = m /\ v.quit
  BY <1>2, QuitSet
<1>4. ChangeDevice(d, v) /\ links' = links \ {d}
  BY <1>1, <1>2, <1>3, <1>m DEF Quitting
<1>5. mreq' \in Request /\ mreq'.pc = "join" /\ SameRequest
  <2>1. PICK t \in BOOLEAN : t = (device[mreq.drive].protect /\ device[mreq.drive].triggered)
    OBVIOUS
  <2>2. mreq' = [mreq EXCEPT !.pc = "join", !.triggered = t]
    BY <1>1, <2>1
  <2>3. mreq \in Request /\ "join" \in RequestPcs
    BY DEF VolumesInv, VolumeTypes, RequestPcs, LockPcs
  <2> QED BY <2>2, <2>3 DEF Request, SameRequest
<1>6. v.shutting /\ v.removing
  BY <1>1, <1>2, <1>3 DEF BeingUnmounted
<1> QED BY <1>1, <1>2, <1>3, <1>4, <1>5, <1>6, UnmountStepKeeps

LEMMA DeleteVolumeDeviceKeeps == ASSUME VolumesInv, DeleteVolumeDevice PROVE VolumesInv'
<1>1. /\ mreq.op \in {"unmount", "unmountAll"} /\ mreq.pc = "join" /\ mreq.pc \in LockPcs
      /\ device[mreq.drive].thread = "ended" /\ ChangeDevice(mreq.drive, NoDevice)
      /\ UNCHANGED <<links, LastUniqueVolumeId, hostHandles, cacheVars, volIrp, down, mounts, orphaned>>
  BY DEF DeleteVolumeDevice, UnmountStep, LockPcs
<1>2. PICK d \in Drives : /\ d = mreq.drive /\ device[d] \in Device /\ d \notin links /\ Present(d)
                          /\ BeingUnmounted(device[d]) /\ down \notin {"wiping", "down"}
                          /\ ~Creating /\ \A e \in Drives : ~New(e)
  BY <1>1, UnmountFacts
<1>3. device[d].locks = 0 /\ device[d].list = <<>> /\ ~device[d].open
  <2>1. device[d].locks = 0 /\ ~device[d].open
    BY <1>1, <1>2 DEF BeingUnmounted
  <2> QED BY <2>1, NoLocksNoIrps
<1>4. PICK v \in Device : /\ v = NoDevice /\ v.locks = 0 /\ v.list = <<>> /\ v.thread = "none" /\ v.id = 0
                          /\ ~v.open /\ ~v.protect /\ ~v.triggered
  BY NoDeviceType, NoDeviceFields DEF NoDevice
<1>5. ChangeDevice(d, v) /\ VolumeTypes
  BY <1>1, <1>2, <1>4 DEF VolumesInv
<1>6. device'[d] = v /\ device' \in [Drives -> Device] /\ \A e \in Drives : e # d => device'[e] = device[e]
  BY <1>5, OneChanged
<1>7. PICK p \in RequestPcs, q \in Results :
         /\ p = IF mreq.op = "unmount" \/ mreq.triggered THEN "return" ELSE "next"
         /\ q = IF mreq.op = "unmount" THEN "success" ELSE mreq.ret
  BY <1>5 DEF RequestPcs, Results, VolumeTypes, Request
<1>8. mreq' = [mreq EXCEPT !.pc = p, !.ret = q]
  BY <1>7 DEF DeleteVolumeDevice
<1>9. mreq' \in Request /\ mreq'.pc = p /\ mreq'.triggered = mreq.triggered /\ SameRequest
  BY <1>5, <1>8 DEF VolumeTypes, Request, SameRequest
<1>10. /\ mreq'.drive = d /\ mreq'.op = mreq.op /\ mreq'.by = mreq.by /\ mreq'.maxId = mreq.maxId
       /\ mreq'.force = mreq.force /\ mreq'.pc \notin LockPcs /\ mreq'.pc \notin MountPcs
       /\ mreq'.pc \in {"return", "next"} /\ (mreq'.pc = "next" => mreq.op = "unmountAll")
  BY <1>1, <1>2, <1>7, <1>9 DEF SameRequest, LockPcs, MountPcs
<1>11. VolumeTypes'
  BY <1>1, <1>5, <1>6, <1>9 DEF VolumeTypes
<1>12. RequestInv'
  BY <1>1, <1>2, <1>10 DEF RequestInv, LockPcs
<1>13. ~Present(d)' /\ \A e \in Drives : ~New(e)'
  BY <1>4, <1>6, <1>10 DEF Present, New
<1>14. DevicesInv'
  <2>1. \A e \in Drives : e # d => DeviceInv(e)'
    BY <1>1, <1>2, <1>5, <1>10, OthersKept
  <2>2. DeviceInv(d)'
    <3>1. ~Handled(d)' /\ d \notin links'
      BY <1>1, <1>2, <1>10 DEF Handled, LockPcs
    <3> QED BY <1>4, <1>6, <1>13, <3>1 DEF DeviceInv
  <2>3. \A e \in Drives : DeviceInv(e)'
    BY <2>1, <2>2
  <2> QED BY <1>10, <2>3 DEF DevicesInv
<1>15. AskedInv'
  BY <1>4, <1>6 DEF VolumesInv, AskedInv
<1>16. SerialsInv'
  <2>1. ~Creating'
    BY <1>1, <1>10 DEF Creating
  <2> QED BY <1>1, <1>2, <1>3, <1>5, <2>1, SerialsKept
<1>17. LocksInv' /\ HandlesInv'
  <2>1. LocksInv'
    BY <1>1, <1>3, <1>4, <1>5, LocksKept
  <2>2. HandlesInv'
    BY <1>1, <1>3, <1>4, <1>5, HandlesKept
  <2> QED BY <2>1, <2>2
<1>18. IdsInv'
  <2>1. v.id <= LastUniqueVolumeId /\ ~Old(d)'
    BY <1>4, <1>5, <1>13 DEF VolumeTypes, Old
  <2> QED BY <1>1, <1>2, <1>5, <2>1, IdsKept
<1>19. NestInv'
  BY <1>1, <1>2, <1>4, <1>5, <1>10, NestKept
<1>20. LoopInv'
  <2> SUFFICES ASSUME mreq.op = "unmountAll" PROVE LoopInv'
    BY <1>10 DEF LoopInv
  <2>1. \A e \in Drives : Present(e)' => e # d /\ Present(e) /\ device'[e] = device[e]
    BY <1>6, <1>13 DEF Present
  <2>2. mreq.force => \A e \in Drives :
           ~(Present(e)' /\ device'[e].id >= mreq.maxId /\ Accessible(mreq.by, e)')
    BY <1>1, <1>2, <1>10, <2>1 DEF VolumesInv, LoopInv, Accessible
  <2>3. mreq'.pc = "return" => mreq'.triggered
    BY <1>7, <1>9
  <2> QED BY <1>10, <2>2, <2>3 DEF LoopInv
<1>21. DownInv' /\ CacheInv'
  BY <1>1, <1>2, CacheKept DEF DownInv
<1> QED BY <1>11, <1>12, <1>14, <1>15, <1>16, <1>17, <1>18, <1>19, <1>20, <1>21 DEF VolumesInv

LEMMA WipeCacheKeeps == ASSUME VolumesInv, NEW u \in Requesters, WipeCache(u) PROVE VolumesInv'
<1> USE MountAssumption
<1>1. /\ mreq.op = "none" /\ CachedPasswords' = [i \in DOMAIN CachedPasswords |-> NoPassword]
      /\ nPasswordIdx' = 0 /\ cacheEmpty' = TRUE
      /\ (down' = down \/ (down = "wiping" /\ down' = "down"))
      /\ UNCHANGED <<device, links, LastUniqueVolumeId, hostHandles, mreq, volIrp, mounts, orphaned>>
  BY DEF WipeCache
<1>2. CachedPasswords' = [i \in 0 .. CacheSize - 1 |-> NoPassword]
  BY <1>1 DEF VolumesInv, CacheInv
<1>3. CacheInv'
  BY <1>1, <1>2 DEF CacheInv, Passwords
<1>4. DownInv'
  BY <1>1, <1>2 DEF VolumesInv, DownInv
<1>5. VolumeTypes' /\ RequestInv' /\ AskedInv' /\ SerialsInv'
  BY <1>1 DEF VolumesInv, VolumeTypes, RequestInv, AskedInv, SerialsInv, Creating, Old, New, Present
<1>6. DevicesInv' /\ IdsInv'
  BY <1>1 DEF VolumesInv, DevicesInv, DeviceInv, Handled, Present, Mounted, BeingMounted, BeingUnmounted,
              IdsInv, Old, New
<1>7. LocksInv' /\ HandlesInv'
  <2>1. \A h \in Hosts : OpenOn(h)' = OpenOn(h)
    BY <1>1 DEF OpenOn
  <2>2. \A d \in Drives : LockedOn(d)' = LockedOn(d) /\ (ListInv(d)' <=> ListInv(d))
    BY <1>1 DEF LockedOn, ListInv
  <2> QED BY <1>1, <2>1, <2>2 DEF VolumesInv, HandlesInv, LocksInv
<1>8. LoopInv' /\ NestInv'
  <2>1. LoopInv'
    BY <1>1 DEF LoopInv
  <2>2. mreq.pc \notin LockPcs
    BY <1>1, NoneRuns DEF LockPcs
  <2>3. NestInv'
    BY <1>1, <2>2 DEF VolumesInv, NestInv, New
  <2> QED BY <2>1, <2>3
<1> QED BY <1>3, <1>4, <1>5, <1>6, <1>7, <1>8 DEF VolumesInv

LEMMA ShutdownKeeps == ASSUME VolumesInv, Shutdown PROVE VolumesInv'
<1>1. /\ down = "up" /\ down' = "unmounting"
      /\ UNCHANGED <<device, links, LastUniqueVolumeId, hostHandles, cacheVars, mreq, volIrp, mounts, orphaned>>
  BY DEF Shutdown
<1>2. VolumeTypes' /\ RequestInv' /\ AskedInv' /\ SerialsInv' /\ DownInv' /\ CacheInv'
  BY <1>1, CacheKept DEF VolumesInv, VolumeTypes, RequestInv, AskedInv, SerialsInv, Creating, Old, New, Present, DownInv
<1>3. DevicesInv' /\ IdsInv'
  BY <1>1 DEF VolumesInv, DevicesInv, DeviceInv, Handled, Present, Mounted, BeingMounted, BeingUnmounted,
              IdsInv, Old, New
<1>4. LocksInv' /\ HandlesInv'
  <2>1. \A h \in Hosts : OpenOn(h)' = OpenOn(h)
    BY <1>1 DEF OpenOn
  <2>2. \A d \in Drives : LockedOn(d)' = LockedOn(d) /\ (ListInv(d)' <=> ListInv(d))
    BY <1>1 DEF LockedOn, ListInv
  <2> QED BY <1>1, <2>1, <2>2 DEF VolumesInv, HandlesInv, LocksInv
<1>5. LoopInv'
  BY <1>1 DEF VolumesInv, LoopInv, Present, Accessible
<1>6. NestInv'
  <2>1. NestedOn(mreq.drive)' = NestedOn(mreq.drive)
    BY <1>1 DEF NestedOn, Present
  <2> QED BY <1>1, <2>1 DEF VolumesInv, NestInv, New
<1> QED BY <1>2, <1>3, <1>4, <1>5, <1>6 DEF VolumesInv

-----------------------------------------------------------------------------
(* The steps of the IRPs and of the thread of a volume.                     *)

LEMMA ServeStepKeeps ==
    ASSUME VolumesInv, NEW d \in Drives, NEW v \in Device, ChangeDevice(d, v),
           SameVolume(v, device[d]), v.id = device[d].id, v.thread = "none" <=> device[d].thread = "none",
           v.open => device[d].open, v.triggered => v.protect,
           DeviceInv(d)', SerialsInv', LocksInv', HandlesInv',
           hostHandles' \in [Hosts -> Int], volIrp' \in [VolIrps -> VolIrp],
           UNCHANGED <<links, LastUniqueVolumeId, cacheVars, mreq, down, mounts, orphaned>>
    PROVE  VolumesInv'
<1>1. device'[d] = v /\ device' \in [Drives -> Device] /\ \A e \in Drives : e # d => device'[e] = device[e]
  BY OneChanged DEF VolumesInv
<1>2. /\ v.user = device[d].user /\ v.host = device[d].host /\ v.base = device[d].base
      /\ v.serial = device[d].serial /\ v.kind = device[d].kind /\ v.protect = device[d].protect
  BY DEF SameVolume
<1>3. \A e \in Drives : /\ device'[e].id = device[e].id /\ device'[e].user = device[e].user
                        /\ (Present(e)' <=> Present(e)) /\ (New(e)' <=> New(e)) /\ (Old(e)' <=> Old(e))
                        /\ (Accessible(mreq.by, e)' <=> Accessible(mreq.by, e))
  BY <1>1, <1>2 DEF Present, New, Old, Accessible
<1>4. VolumeTypes' /\ RequestInv' /\ DownInv' /\ CacheInv'
  <2>1. VolumeTypes'
    BY <1>1 DEF VolumesInv, VolumeTypes
  <2>2. RequestInv'
    BY DEF VolumesInv, RequestInv
  <2>3. DownInv'
    BY DEF VolumesInv, DownInv, cacheVars
  <2>4. CacheInv'
    BY CacheKept
  <2> QED BY <2>1, <2>2, <2>3, <2>4
<1>5. DevicesInv'
  <2>1. \A e \in Drives : e # d => DeviceInv(e)'
    BY OthersKept
  <2>2. \A e \in Drives : DeviceInv(e)'
    BY <2>1
  <2>3. mreq.pc = "create" => mreq.drive \in Drives
    BY DEF VolumesInv, RequestInv, LockPcs, MountPcs, VolumeTypes, Request, RequestOps
  <2> QED BY <1>3, <2>2, <2>3 DEF VolumesInv, DevicesInv
<1>6. AskedInv'
  BY <1>1, <1>2 DEF VolumesInv, AskedInv
<1>7. IdsInv'
  BY <1>3 DEF VolumesInv, IdsInv
<1>8. LoopInv'
  <2>1. mreq.pc \in LockPcs => mreq.drive \in Drives
    BY DEF VolumesInv, RequestInv
  <2> QED BY <1>3, <2>1 DEF VolumesInv, LoopInv
<1>9. NestInv'
  BY <1>2, <1>3, NestKept
<1> QED BY <1>4, <1>5, <1>6, <1>7, <1>8, <1>9 DEF VolumesInv

\* A volume whose thread runs is mounted, being unmounted, or about to get its link.
LEMMA RunningFacts ==
    ASSUME VolumesInv, NEW d \in Drives, device[d].thread \in Running
    PROVE  /\ device[d].open /\ device[d].host \in Hosts
           /\ New(d) => device[d].thread = "serving" /\ device[d].sem = 0 /\ mreq.pc = "link"
           /\ device[d].quit => device[d].locks = 0 /\ device[d].removing
           /\ (device[d].triggered => device[d].protect)
<1>1. Present(d) /\ DeviceInv(d)
  BY DEF VolumesInv, DevicesInv, Present, Running
<1>2. device[d].host \in Hosts /\ (device[d].triggered => device[d].protect)
  BY <1>1 DEF DeviceInv, VolumesInv, AskedInv
<1>3. CASE ~Handled(d)
  <2>1. Mounted(d) /\ ~New(d)
    BY <1>1, <1>3 DEF DeviceInv, Handled, New
  <2> QED BY <1>2, <2>1 DEF Mounted
<1>4. CASE Handled(d) /\ mreq.pc \in MountPcs
  <2>1. BeingMounted(device[d])
    BY <1>1, <1>4 DEF DeviceInv
  <2> QED BY <1>2, <1>4, <2>1 DEF BeingMounted, MountPcs, Running
<1>5. CASE Handled(d) /\ mreq.pc \notin MountPcs
  <2>1. BeingUnmounted(device[d]) /\ ~New(d)
    BY <1>1, <1>5 DEF DeviceInv, New
  <2> QED BY <1>2, <2>1 DEF BeingUnmounted, Running
<1> QED BY <1>3, <1>4, <1>5

\* A step of a thread that serves, and the thread's end when it is told to quit.
LEMMA ServedDevice ==
    ASSUME VolumesInv, NEW d \in Drives, NEW v \in Device, ChangeDevice(d, v),
           device[d].thread \in Running, ~New(d), SameVolume(v, device[d]),
           v.shutting = device[d].shutting, v.removing = device[d].removing, v.quit = device[d].quit,
           v.thread \in Running \cup {"ended"}, v.open <=> v.thread # "ended",
           v.thread = "ended" => v.quit, v.quit => v.locks = 0,
           UNCHANGED <<links, mreq, mounts>>
    PROVE  DeviceInv(d)'
<1>1. device'[d] = v
  BY OneChanged DEF VolumesInv
<1>2. Present(d) /\ DeviceInv(d) /\ Present(d)'
  BY <1>1 DEF VolumesInv, DevicesInv, Present, Running
<1>3. device'[d].host \in Hosts /\ device'[d].serial <= mounts'
  BY <1>1, <1>2 DEF DeviceInv, SameVolume
<1>4. CASE ~Handled(d)
  <2>1. Mounted(d) /\ d \in links
    BY <1>2, <1>4 DEF DeviceInv
  <2>2. Mounted(d)' /\ d \in links' /\ ~Handled(d)'
    BY <1>1, <1>4, <2>1 DEF Mounted, Handled
  <2> QED BY <1>2, <1>3, <2>2 DEF DeviceInv
<1>5. CASE Handled(d)
  <2>1. BeingUnmounted(device[d]) /\ d \notin links /\ mreq.pc \notin MountPcs
    BY <1>2, <1>5 DEF DeviceInv, New, Handled
  <2>2. BeingUnmounted(device[d])' /\ d \notin links' /\ Handled(d)'
    BY <1>1, <1>5, <2>1 DEF BeingUnmounted, Handled
  <2> QED BY <1>2, <1>3, <2>1, <2>2 DEF DeviceInv
<1> QED BY <1>4, <1>5

LEMMA WakeVolumeThreadKeeps == ASSUME VolumesInv, NEW d \in Drives, WakeVolumeThread(d) PROVE VolumesInv'
<1>1. /\ device[d].thread = "serving" /\ device[d].thread \in Running /\ device[d].sem > 0
      /\ UNCHANGED <<links, LastUniqueVolumeId, hostHandles, cacheVars, mreq, volIrp, down, mounts, orphaned>>
  BY DEF WakeVolumeThread, Running
<1>2. device[d] \in Device /\ device[d].sem \in Int /\ hostHandles \in [Hosts -> Int] /\ volIrp \in [VolIrps -> VolIrp]
  BY DEF VolumesInv, VolumeTypes, Device
<1>3. PICK m \in Int, t \in Threads : m = device[d].sem - 1 /\ t = "draining"
  BY <1>2 DEF Threads
<1>4. PICK v \in Device :
         /\ v = Awake(device[d], m, t) /\ SameVolume(v, device[d])
         /\ v.thread = t /\ v.id = device[d].id /\ v.triggered = device[d].triggered
         /\ v.open = device[d].open /\ v.shutting = device[d].shutting
         /\ v.removing = device[d].removing /\ v.locks = device[d].locks
         /\ v.list = device[d].list /\ v.sem = m /\ v.quit = device[d].quit
  BY <1>2, Woken
<1>5. ChangeDevice(d, v)
  BY <1>3, <1>4 DEF WakeVolumeThread, Awake
<1>6. device[d].open /\ ~New(d) /\ (device[d].quit => device[d].locks = 0) /\ (device[d].triggered => device[d].protect)
  BY <1>1, RunningFacts
<1>7. DeviceInv(d)'
  BY <1>1, <1>3, <1>4, <1>5, <1>6, ServedDevice, ZenonT(60) DEF Running
<1>8. v.serial = device[d].serial /\ v.host = device[d].host /\ v.protect = device[d].protect
  BY <1>4 DEF SameVolume
<1>9. SerialsInv'
  <2>1. (Old(d)' => Old(d)) /\ (Creating' => Creating) /\ \A e \in Drives : New(e)' <=> New(e)
    BY <1>1, <1>6 DEF Old, New, Creating, Present
  <2> QED BY <1>1, <1>5, <1>8, <2>1, SerialsKept
<1>10. LocksInv' /\ HandlesInv'
  <2>1. LocksInv'
    BY <1>1, <1>4, <1>5, LocksKept
  <2>2. HandlesInv'
    BY <1>1, <1>4, <1>5, <1>8, HandlesKept
  <2> QED BY <2>1, <2>2
<1>11. (v.thread = "none" <=> device[d].thread = "none") /\ (v.triggered => v.protect)
  BY <1>1, <1>3, <1>4, <1>6, <1>8
<1> QED BY <1>1, <1>2, <1>4, <1>5, <1>7, <1>9, <1>10, <1>11, ServeStepKeeps

LEMMA VolumeListEmptyKeeps == ASSUME VolumesInv, NEW d \in Drives, VolumeListEmpty(d) PROVE VolumesInv'
<1>1. /\ device[d].thread = "draining" /\ device[d].thread \in Running
      /\ UNCHANGED <<links, LastUniqueVolumeId, cacheVars, mreq, volIrp, down, mounts, orphaned>>
  BY DEF VolumeListEmpty, Running
<1>2. device[d] \in Device /\ hostHandles \in [Hosts -> Int] /\ volIrp \in [VolIrps -> VolIrp]
  BY DEF VolumesInv, VolumeTypes
<1>3. /\ device[d].open /\ device[d].host \in Hosts /\ ~New(d) /\ (device[d].quit => device[d].locks = 0)
      /\ (device[d].triggered => device[d].protect)
  BY <1>1, RunningFacts
<1>4. {"serving", "ended"} \subseteq Threads
  BY DEF Threads
<1>5. CASE device[d].quit
  <2>1. PICK v \in Device :
           /\ v = Closed(device[d], "ended") /\ SameVolume(v, device[d])
           /\ v.thread = "ended" /\ v.id = device[d].id /\ v.triggered = device[d].triggered
           /\ ~v.open /\ v.shutting = device[d].shutting
           /\ v.removing = device[d].removing /\ v.locks = device[d].locks
           /\ v.list = device[d].list /\ v.sem = device[d].sem /\ v.quit = device[d].quit
    BY <1>2, <1>4, VolumeClosed
  <2>2. ChangeDevice(d, v) /\ TCCloseVolume(d)
    BY <1>5, <2>1 DEF VolumeListEmpty, Closed
  <2>3. DeviceInv(d)'
    BY <1>1, <1>3, <1>5, <2>1, <2>2, ServedDevice DEF Running
  <2>4. v.serial = device[d].serial /\ v.host = device[d].host /\ v.protect = device[d].protect
    BY <2>1 DEF SameVolume
  <2>5. SerialsInv'
    <3>1. (Old(d)' => Old(d)) /\ (Creating' => Creating) /\ \A e \in Drives : New(e)' <=> New(e)
      BY <1>1, <1>3 DEF Old, New, Creating, Present
    <3> QED BY <1>1, <2>2, <2>4, <3>1, SerialsKept
  <2>6. LocksInv'
    BY <1>1, <2>1, <2>2, LocksKept
  <2>7. HandlesInv' /\ hostHandles' \in [Hosts -> Int]
    BY <1>3, <2>1, <2>2, HandlesClosed
  <2>8. (v.thread = "none" <=> device[d].thread = "none") /\ (v.triggered => v.protect)
    BY <1>1, <1>3, <2>1, <2>4
  <2> QED BY <1>1, <1>2, <2>1, <2>2, <2>3, <2>5, <2>6, <2>7, <2>8, ServeStepKeeps
<1>6. CASE ~device[d].quit
  <2>1. PICK v \in Device :
           /\ v = [device[d] EXCEPT !.thread = "serving"] /\ SameVolume(v, device[d])
           /\ v.thread = "serving" /\ v.id = device[d].id /\ v.triggered = device[d].triggered
           /\ v.open = device[d].open /\ v.shutting = device[d].shutting
           /\ v.removing = device[d].removing /\ v.locks = device[d].locks
           /\ v.list = device[d].list /\ v.sem = device[d].sem /\ v.quit = device[d].quit
    BY <1>2, <1>4, ThreadSet
  <2>2. ChangeDevice(d, v) /\ hostHandles' = hostHandles
    BY <1>6, <2>1 DEF VolumeListEmpty
  <2>3. DeviceInv(d)'
    BY <1>1, <1>3, <1>6, <2>1, <2>2, ServedDevice DEF Running
  <2>4. v.serial = device[d].serial /\ v.host = device[d].host /\ v.protect = device[d].protect
    BY <2>1 DEF SameVolume
  <2>5. SerialsInv'
    <3>1. (Old(d)' => Old(d)) /\ (Creating' => Creating) /\ \A e \in Drives : New(e)' <=> New(e)
      BY <1>1, <1>3 DEF Old, New, Creating, Present
    <3> QED BY <1>1, <2>2, <2>4, <3>1, SerialsKept
  <2>6. LocksInv'
    BY <1>1, <2>1, <2>2, LocksKept
  <2>7. HandlesInv'
    BY <1>3, <2>1, <2>2, <2>4, HandlesKept
  <2>8. (v.thread = "none" <=> device[d].thread = "none") /\ (v.triggered => v.protect)
    BY <1>1, <1>3, <2>1, <2>4
  <2> QED BY <1>1, <1>2, <2>1, <2>2, <2>3, <2>5, <2>6, <2>7, <2>8, ServeStepKeeps
<1> QED BY <1>5, <1>6

LEMMA TriggerProtectionKeeps == ASSUME VolumesInv, NEW d \in Drives, TriggerProtection(d) PROVE VolumesInv'
<1>1. /\ device[d].thread = "serving" /\ device[d].thread \in Running /\ device[d].protect
      /\ UNCHANGED <<links, LastUniqueVolumeId, hostHandles, cacheVars, mreq, volIrp, down, mounts, orphaned>>
  BY DEF TriggerProtection, Running
<1>2. device[d] \in Device /\ hostHandles \in [Hosts -> Int] /\ volIrp \in [VolIrps -> VolIrp]
  BY DEF VolumesInv, VolumeTypes
<1>3. device[d].open /\ (New(d) => mreq.pc = "link") /\ (device[d].quit => device[d].locks = 0)
  BY <1>1, RunningFacts
<1>4. PICK v \in Device :
         /\ v = [device[d] EXCEPT !.triggered = TRUE] /\ SameVolume(v, device[d])
         /\ v.thread = device[d].thread /\ v.id = device[d].id /\ v.triggered
         /\ v.open = device[d].open /\ v.shutting = device[d].shutting
         /\ v.removing = device[d].removing /\ v.locks = device[d].locks
         /\ v.list = device[d].list /\ v.sem = device[d].sem /\ v.quit = device[d].quit
  BY <1>2, TriggeredSet
<1>5. ChangeDevice(d, v)
  BY <1>4 DEF TriggerProtection
<1>6. v.serial = device[d].serial /\ v.host = device[d].host /\ v.protect = device[d].protect
  BY <1>4 DEF SameVolume
<1>7. DeviceInv(d)'
  <2>1. CASE ~New(d)
    BY <1>1, <1>3, <1>4, <1>5, <2>1, ServedDevice DEF Running
  <2>2. CASE New(d)
    <3>1. device'[d] = v /\ DeviceInv(d) /\ Handled(d) /\ mreq.pc = "link"
      BY <1>3, <1>5, <2>2, OneChanged DEF VolumesInv, DevicesInv, New, Handled
    <3>2. BeingMounted(device[d]) /\ Present(d) /\ d \notin links /\ mreq.pc \in MountPcs
      BY <1>1, <3>1 DEF DeviceInv, MountPcs, Present
    <3>3. BeingMounted(device[d])' /\ Handled(d)' /\ d \notin links' /\ mreq'.pc \in MountPcs
      BY <1>1, <1>4, <1>6, <3>1, <3>2 DEF BeingMounted, Handled
    <3>4. Present(d)' /\ device'[d].host \in Hosts /\ device'[d].serial <= mounts'
      BY <1>1, <1>4, <1>6, <3>1, <3>2 DEF DeviceInv, Present
    <3> QED BY <3>3, <3>4 DEF DeviceInv
  <2> QED BY <2>1, <2>2
<1>8. SerialsInv'
  <2>1. (Old(d)' => Old(d)) /\ (Creating' => Creating) /\ \A e \in Drives : New(e)' <=> New(e)
    BY <1>1, <1>3 DEF Old, New, Creating, Present
  <2> QED BY <1>1, <1>5, <1>6, <2>1, SerialsKept
<1>9. LocksInv' /\ HandlesInv'
  <2>1. LocksInv'
    BY <1>1, <1>4, <1>5, LocksKept
  <2>2. HandlesInv'
    BY <1>1, <1>4, <1>5, <1>6, HandlesKept
  <2> QED BY <2>1, <2>2
<1>10. (v.thread = "none" <=> device[d].thread = "none") /\ (v.triggered => v.protect)
  BY <1>1, <1>4, <1>6
<1> QED BY <1>1, <1>2, <1>4, <1>5, <1>7, <1>8, <1>9, <1>10, ServeStepKeeps

\* A step that changes one IRP, and the lists that do not hold it.
LEMMA OneIrpChanged ==
    ASSUME VolumesInv, NEW i \in VolIrps, NEW x \in VolIrp, volIrp' = [volIrp EXCEPT ![i] = x]
    PROVE  /\ volIrp'[i] = x /\ volIrp' \in [VolIrps -> VolIrp]
           /\ \A j \in VolIrps : j # i => volIrp'[j] = volIrp[j]
BY DEF VolumesInv, VolumeTypes

LEMMA IrpRecords ==
    /\ \A how \in VolIrpStates : Completed(how) \in VolIrp /\ Completed(how).state = how
    /\ \A w \in VolIrp, t \in VolIrpStates :
          \E x \in VolIrp : /\ x = [w EXCEPT !.state = t] /\ x.state = t
                           /\ x.drive = w.drive /\ x.serial = w.serial
<1>1. \A how \in VolIrpStates : Completed(how) \in VolIrp /\ Completed(how).state = how
  BY DEF Completed, VolIrp
<1>2. ASSUME NEW w \in VolIrp, NEW t \in VolIrpStates
      PROVE  \E x \in VolIrp : /\ x = [w EXCEPT !.state = t] /\ x.state = t
                              /\ x.drive = w.drive /\ x.serial = w.serial
  <2> DEFINE x == [w EXCEPT !.state = t]
  <2>1. x \in VolIrp /\ x.state = t /\ x.drive = w.drive /\ x.serial = w.serial
    BY DEF VolIrp
  <2>2. x = [w EXCEPT !.state = t]
    OBVIOUS
  <2> HIDE DEF x
  <2> QED BY <2>1, <2>2
<1> QED BY <1>1, <1>2

LEMMA ListsKept ==
    ASSUME VolumesInv, NEW i \in VolIrps, NEW e \in Drives, volIrp[i].state # "listed" \/ volIrp[i].drive # e,
           \A j \in VolIrps : j # i => volIrp'[j] = volIrp[j],
           device'[e].list = device[e].list
    PROVE  ListInv(e)'
<1>1. device[e].list \in Seq(VolIrps) /\ ListInv(e)
  BY DEF VolumesInv, VolumeTypes, Device, LocksInv
<1>2. \A k \in DOMAIN device[e].list : device[e].list[k] \in VolIrps /\ device[e].list[k] # i
  BY <1>1 DEF ListInv
<1> QED BY <1>1, <1>2 DEF ListInv

LEMMA LockedKept ==
    ASSUME NEW i \in VolIrps, NEW e \in Drives, \A j \in VolIrps : j # i => volIrp'[j] = volIrp[j],
           (volIrp'[i].drive = e /\ volIrp'[i].state \in Holding) <=> (volIrp[i].drive = e /\ volIrp[i].state \in Holding)
    PROVE  LockedOn(e)' = LockedOn(e)
<1>1. \A j \in VolIrps : j \in LockedOn(e)' <=> j \in LockedOn(e)
  BY DEF LockedOn
<1> QED BY <1>1 DEF LockedOn

\* A step that changes no device but an IRP without the lock.
LEMMA IrpStepKeeps ==
    ASSUME VolumesInv, NEW i \in VolIrps, NEW x \in VolIrp, volIrp' = [volIrp EXCEPT ![i] = x],
           volIrp[i].state \notin Holding, x.state \notin Holding,
           x.state = "checked" => /\ x.drive \in Drives /\ x.serial <= mounts
                                  /\ Creating => x.serial < mounts,
           UNCHANGED <<device, links, LastUniqueVolumeId, hostHandles, cacheVars, mreq, down, mounts, orphaned>>
    PROVE  VolumesInv'
<1>1. /\ volIrp'[i] = x /\ volIrp' \in [VolIrps -> VolIrp]
      /\ \A j \in VolIrps : j # i => volIrp'[j] = volIrp[j]
  BY OneIrpChanged
<1>2. LocksInv'
  <2>1. \A e \in Drives : ListInv(e)'
    BY <1>1, ListsKept DEF Holding
  <2>2. \A e \in Drives : LockedOn(e)' = LockedOn(e)
    BY <1>1, LockedKept
  <2> QED BY <2>1, <2>2 DEF VolumesInv, LocksInv
<1>3. SerialsInv'
  <2>1. (Creating' <=> Creating) /\ \A d \in Drives : Old(d)' <=> Old(d)
    BY DEF Creating, Old, New, Present
  <2> QED BY <1>1, <2>1 DEF VolumesInv, SerialsInv
<1>4. HandlesInv'
  <2>1. \A h \in Hosts : OpenOn(h)' = OpenOn(h)
    BY DEF OpenOn
  <2> QED BY <2>1 DEF VolumesInv, HandlesInv
<1>5. VolumeTypes' /\ RequestInv' /\ DownInv' /\ CacheInv' /\ AskedInv'
  <2>1. CacheInv'
    BY CacheKept
  <2> QED BY <1>1, <2>1 DEF VolumesInv, VolumeTypes, RequestInv, AskedInv, DownInv, cacheVars
<1>6. DevicesInv' /\ IdsInv'
  BY DEF VolumesInv, DevicesInv, DeviceInv, Handled, Present, Mounted, BeingMounted, BeingUnmounted,
         IdsInv, Old, New
<1>7. LoopInv'
  BY DEF VolumesInv, LoopInv, Present, Accessible
<1>8. NestInv'
  <2>1. NestedOn(mreq.drive)' = NestedOn(mreq.drive)
    BY DEF NestedOn, Present
  <2> QED BY <2>1 DEF VolumesInv, NestInv, New
<1> QED BY <1>2, <1>3, <1>4, <1>5, <1>6, <1>7, <1>8 DEF VolumesInv

LEMMA DispatchVolumeIrpKeeps ==
    ASSUME VolumesInv, NEW i \in VolIrps, NEW d \in Drives, DispatchVolumeIrp(i, d) PROVE VolumesInv'
<1>1. /\ volIrp[i].state = "new" /\ Present(d) /\ device[d].thread \in Running
      /\ ~(mreq.op = "mount" /\ mreq.pc = "link" /\ mreq.drive = d)
      /\ UNCHANGED <<device, links, LastUniqueVolumeId, hostHandles, cacheVars, mreq, down, mounts, orphaned>>
  BY DEF DispatchVolumeIrp, MountStep, Running
<1>2. device[d].serial \in Nat /\ device[d].serial <= mounts
  BY <1>1 DEF VolumesInv, VolumeTypes, Device, DevicesInv, DeviceInv
<1>3. Creating => device[d].serial < mounts
  <2>1. mreq.pc = "link" => mreq.op = "mount"
    BY DEF VolumesInv, RequestInv, LockPcs, VolumeTypes, Request, RequestOps
  <2>2. ~New(d)
    BY <1>1, <2>1, RunningFacts DEF New
  <2> QED BY <1>1, <2>2 DEF VolumesInv, SerialsInv, Old
<1>4. PICK x \in VolIrp :
         /\ x = IF device[d].shutting THEN Completed("refused")
                ELSE [state |-> "checked", drive |-> d, serial |-> device[d].serial]
         /\ x.state \notin Holding
         /\ x.state = "checked" => x.drive = d /\ x.serial = device[d].serial
  <2>1. Completed("refused") \in VolIrp /\ Completed("refused").state = "refused"
    BY DEF Completed, VolIrp, VolIrpStates
  <2>2. PICK n \in Nat : n = device[d].serial
    BY <1>2
  <2>3. [state |-> "checked", drive |-> d, serial |-> n] \in VolIrp
    BY DEF VolIrp, VolIrpStates
  <2>4. CASE device[d].shutting
    BY <2>1, <2>4 DEF Holding
  <2>5. CASE ~device[d].shutting
    BY <2>2, <2>3, <2>5 DEF Holding
  <2> QED BY <2>4, <2>5
<1>5. volIrp' = [volIrp EXCEPT ![i] = x] /\ volIrp[i].state \notin Holding
  BY <1>1, <1>4 DEF DispatchVolumeIrp, Holding
<1> QED BY <1>1, <1>2, <1>3, <1>4, <1>5, IrpStepKeeps

LEMMA AcquireRemoveLockKeeps ==
    ASSUME VolumesInv, NEW i \in VolIrps, AcquireRemoveLock(i) PROVE VolumesInv'
<1> DEFINE free == /\ Present(volIrp[i].drive) /\ device[volIrp[i].drive].serial = volIrp[i].serial
                   /\ ~device[volIrp[i].drive].removing
<1>1. /\ volIrp[i].state = "checked"
      /\ UNCHANGED <<links, LastUniqueVolumeId, hostHandles, cacheVars, mreq, down, mounts, orphaned>>
  BY DEF AcquireRemoveLock
<1>2. PICK d \in Drives : d = volIrp[i].drive /\ (Creating => volIrp[i].serial < mounts)
  BY <1>1 DEF VolumesInv, SerialsInv
<1>3. /\ device[d] \in Device /\ device[d].locks \in Int /\ volIrp[i] \in VolIrp /\ volIrp[i].serial \in Nat
      /\ hostHandles \in [Hosts -> Int] /\ mounts \in Nat
  BY DEF VolumesInv, VolumeTypes, Device, VolIrp
<1>s. "refused" \in VolIrpStates /\ "locked" \in VolIrpStates
  BY DEF VolIrpStates
<1> HIDE DEF free
<1>4. CASE ~free
  <2>1. PICK x \in VolIrp : x = Completed("refused") /\ x.state = "refused"
    BY <1>s, IrpRecords
  <2>2. volIrp' = [volIrp EXCEPT ![i] = x] /\ UNCHANGED device
    BY <1>4, <2>1 DEF AcquireRemoveLock, free
  <2>3. volIrp[i].state \notin Holding /\ x.state \notin Holding /\ x.state # "checked"
    BY <1>1, <2>1 DEF Holding
  <2> QED BY <1>1, <2>2, <2>3, IrpStepKeeps
<1>5. CASE free
  <2>1. Present(d) /\ device[d].serial = volIrp[i].serial /\ ~device[d].removing
    BY <1>2, <1>5 DEF free
  <2>2. PICK x \in VolIrp : /\ x = [volIrp[i] EXCEPT !.state = "locked"] /\ x.state = "locked"
                            /\ x.drive = volIrp[i].drive /\ x.serial = volIrp[i].serial
    BY <1>3, <1>s, IrpRecords, ZenonT(60)
  <2>3. volIrp' = [volIrp EXCEPT ![i] = x]
    BY <1>5, <2>2 DEF AcquireRemoveLock, free
  <2>4. PICK m \in Int : m = device[d].locks + 1
    BY <1>3
  <2>5. PICK v \in Device :
           /\ v = WithLocks(device[d], m) /\ SameVolume(v, device[d])
           /\ v.thread = device[d].thread /\ v.id = device[d].id /\ v.triggered = device[d].triggered
           /\ v.open = device[d].open /\ v.shutting = device[d].shutting
           /\ v.removing = device[d].removing /\ v.locks = m
           /\ v.list = device[d].list /\ v.sem = device[d].sem /\ v.quit = device[d].quit
    <3>1. device[d] \in Device
      BY <1>3, Zenon
    <3> QED BY <3>1, LocksSet, SMTT(60)
  <2>6. ChangeDevice(d, v)
    BY <1>2, <1>5, <2>4, <2>5 DEF AcquireRemoveLock, free, WithLocks
  <2>7. /\ volIrp'[i] = x /\ volIrp' \in [VolIrps -> VolIrp]
        /\ \A j \in VolIrps : j # i => volIrp'[j] = volIrp[j]
    BY <2>3, OneIrpChanged
  <2>8. device'[d] = v /\ \A e \in Drives : e # d => device'[e] = device[e]
    BY <2>6, OneChanged DEF VolumesInv
  <2>9. ~New(d)
    <3>1. New(d) => BeingMounted(device[d]) /\ Creating
      BY DEF VolumesInv, DevicesInv, DeviceInv, New, Handled, RequestInv, MountPcs, LockPcs, Creating,
             VolumeTypes, Request, RequestOps
    <3> QED BY <1>2, <1>3, <2>1, <3>1 DEF BeingMounted
  <2>10. device[d].thread \in Running
    <3>1. DeviceInv(d)
      BY DEF VolumesInv, DevicesInv
    <3>2. CASE Handled(d)
      <4>1. BeingUnmounted(device[d])
        BY <2>9, <3>1, <3>2 DEF DeviceInv, New, Handled
      <4> QED BY <2>1, <4>1 DEF BeingUnmounted
    <3>3. CASE ~Handled(d)
      BY <2>1, <3>1, <3>3 DEF DeviceInv, Mounted
    <3> QED BY <3>2, <3>3
  <2>11. device[d].open /\ ~device[d].quit /\ (device[d].triggered => device[d].protect)
    BY <2>1, <2>10, RunningFacts
  <2>12. v.serial = device[d].serial /\ v.host = device[d].host /\ v.protect = device[d].protect
    BY <2>5 DEF SameVolume
  <2>13. DeviceInv(d)'
    BY <1>1, <2>5, <2>6, <2>9, <2>10, <2>11, ServedDevice DEF Running
  <2>14. LocksInv'
    <3>1. \A e \in Drives : device'[e].list = device[e].list
      BY <2>5, <2>8
    <3>2. \A e \in Drives : ListInv(e)'
      BY <1>1, <2>7, <3>1, ListsKept
    <3>3. \A e \in Drives : e # d => LockedOn(e)' = LockedOn(e)
      BY <1>2, <2>2, <2>7, LockedKept, ZenonT(60)
    <3>4. LockedOn(d)' = LockedOn(d) \cup {i} /\ i \notin LockedOn(d)
      <4>1. volIrp[i].state \notin Holding /\ volIrp'[i].state \in Holding /\ volIrp'[i].drive = d
        BY <1>1, <1>2, <2>2, <2>7 DEF Holding
      <4>2. \A j \in VolIrps : j \in LockedOn(d)' <=> (j \in LockedOn(d) \/ j = i)
        BY <2>7, <4>1 DEF LockedOn
      <4> QED BY <4>1, <4>2 DEF LockedOn
    <3>5. IsFiniteSet(LockedOn(d))
      <4>1. LockedOn(d) \subseteq VolIrps
        BY DEF LockedOn
      <4> QED BY <4>1, MountAssumption, FS_Subset
    <3>6. Cardinality(LockedOn(d) \cup {i}) = Cardinality(LockedOn(d)) + 1
      BY <3>4, <3>5, FS_AddElement
    <3>7. device[d].locks = Cardinality(LockedOn(d)) /\ \A e \in Drives : device[e].locks = Cardinality(LockedOn(e))
      BY DEF VolumesInv, LocksInv
    <3>8. device'[d].locks = Cardinality(LockedOn(d)')
      BY <2>4, <2>5, <2>8, <3>4, <3>6, <3>7
    <3>9. \A e \in Drives : e # d => device'[e].locks = Cardinality(LockedOn(e)')
      BY <2>8, <3>3, <3>7
    <3> QED BY <3>2, <3>8, <3>9 DEF LocksInv
  <2>15. SerialsInv'
    <3>0. \A e \in Drives : device'[e].thread = device[e].thread /\ device'[e].serial = device[e].serial
      BY <2>5, <2>8, <2>12
    <3>1. (Creating' <=> Creating) /\ \A e \in Drives : (Old(e)' <=> Old(e)) /\ device'[e].serial = device[e].serial
      BY <1>1, <3>0 DEF Creating, Old, New, Present
    <3>2. /\ volIrp[i].serial <= mounts
          /\ \A j \in VolIrps : volIrp'[j].drive = volIrp[j].drive /\ volIrp'[j].serial = volIrp[j].serial
          /\ \A j \in VolIrps : j # i => volIrp'[j].state = volIrp[j].state
      BY <1>1, <2>2, <2>7 DEF VolumesInv, SerialsInv
    <3>3. \A j \in VolIrps : volIrp'[j].state \in Holding \cup {"checked"} => volIrp[j].state \in Holding \cup {"checked"}
      BY <1>1, <3>2
    <3>4. \A j \in VolIrps : volIrp'[j].state \in Holding => device[volIrp[j].drive].serial = volIrp[j].serial
      BY <1>2, <2>1, <3>2 DEF VolumesInv, SerialsInv
    <3> QED BY <1>1, <3>1, <3>2, <3>3, <3>4 DEF VolumesInv, SerialsInv
  <2>16. HandlesInv' /\ hostHandles' \in [Hosts -> Int]
    BY <1>1, <1>3, <2>5, <2>6, <2>12, HandlesKept
  <2>17. (v.thread = "none" <=> device[d].thread = "none") /\ (v.triggered => v.protect)
    BY <2>5, <2>11, <2>12
  <2> QED BY <1>1, <2>5, <2>6, <2>7, <2>13, <2>14, <2>15, <2>16, <2>17, ServeStepKeeps
<1> QED BY <1>4, <1>5

\* An IRP that passed the remove lock has its volume.
LEMMA HeldFacts ==
    ASSUME VolumesInv, NEW i \in VolIrps, volIrp[i].state \in Holding, NEW d, d = volIrp[i].drive
    PROVE  /\ d \in Drives /\ i \in LockedOn(d) /\ device[d].thread \in Running /\ ~New(d)
           /\ device[d].serial = volIrp[i].serial /\ device[d].open /\ ~device[d].quit
           /\ IsFiniteSet(LockedOn(d))
<1>1. d \in Drives /\ device[d].serial = volIrp[i].serial
  BY DEF VolumesInv, SerialsInv
<1>2. i \in LockedOn(d) /\ LockedOn(d) \subseteq VolIrps
  BY DEF LockedOn
<1>3. IsFiniteSet(LockedOn(d))
  BY <1>2, MountAssumption, FS_Subset
<1>4. Cardinality(LockedOn(d)) # 0
  BY <1>2, <1>3, FS_EmptySet
<1>5. device[d].locks # 0
  BY <1>1, <1>4 DEF VolumesInv, LocksInv
<1>6. DeviceInv(d)
  BY <1>1 DEF VolumesInv, DevicesInv
<1>7. Present(d)
  BY <1>5, <1>6, NoDeviceFields DEF DeviceInv
<1>8. ~New(d)
  BY <1>5, <1>6 DEF DeviceInv, New, Handled, BeingMounted
<1>9. CASE Handled(d)
  <2>1. BeingUnmounted(device[d])
    BY <1>6, <1>8, <1>9 DEF DeviceInv, New, Handled
  <2> QED BY <1>1, <1>2, <1>3, <1>5, <1>8, <2>1 DEF BeingUnmounted, Running
<1>10. CASE ~Handled(d)
  <2>1. Mounted(d)
    BY <1>6, <1>7, <1>10 DEF DeviceInv
  <2> QED BY <1>1, <1>2, <1>3, <1>8, <2>1 DEF Mounted
<1> QED BY <1>9, <1>10

\* The serials of the IRPs do not change.
LEMMA HeldSerials ==
    ASSUME VolumesInv, NEW d \in Drives, NEW v \in Device, ChangeDevice(d, v),
           SameVolume(v, device[d]), v.thread = device[d].thread, UNCHANGED <<mreq, mounts>>,
           \A j \in VolIrps :
              \/ volIrp'[j].state \notin Holding \cup {"checked"}
              \/ /\ volIrp'[j].drive = volIrp[j].drive /\ volIrp'[j].serial = volIrp[j].serial
                 /\ volIrp[j].state = volIrp'[j].state \/ volIrp[j].state \in Holding
    PROVE  SerialsInv'
<1>1. device'[d] = v /\ \A e \in Drives : e # d => device'[e] = device[e]
  BY OneChanged DEF VolumesInv
<1>2. \A e \in Drives : device'[e].thread = device[e].thread /\ device'[e].serial = device[e].serial
  BY <1>1 DEF SameVolume
<1>3. (Creating' <=> Creating) /\ \A e \in Drives : Old(e)' <=> Old(e)
  BY <1>2 DEF Creating, Old, New, Present
<1>4. ASSUME NEW j \in VolIrps, volIrp'[j].state \in Holding \cup {"checked"}
      PROVE  /\ volIrp'[j].drive = volIrp[j].drive /\ volIrp'[j].serial = volIrp[j].serial
             /\ volIrp[j].state \in Holding \cup {"checked"}
             /\ volIrp'[j].state \in Holding => volIrp[j].state \in Holding
  BY <1>4
<1>5. \A j \in VolIrps : volIrp'[j].state \in Holding \cup {"checked"} =>
          /\ volIrp'[j].drive \in Drives
          /\ Creating' => volIrp'[j].serial < mounts'
          /\ volIrp'[j].serial <= mounts'
          /\ volIrp'[j].state \in Holding => device'[volIrp'[j].drive].serial = volIrp'[j].serial
  BY <1>2, <1>3, <1>4 DEF VolumesInv, SerialsInv
<1>6. \A e \in Drives : Old(e)' /\ Creating' => device'[e].serial < mounts'
  BY <1>2, <1>3 DEF VolumesInv, SerialsInv
<1> QED BY <1>5, <1>6 DEF SerialsInv

LEMMA QueueVolumeIrpKeeps ==
    ASSUME VolumesInv, NEW i \in VolIrps, QueueVolumeIrp(i) PROVE VolumesInv'
<1>1. /\ volIrp[i].state = "locked" /\ volIrp[i].state \in Holding
      /\ UNCHANGED <<links, LastUniqueVolumeId, hostHandles, cacheVars, mreq, down, mounts, orphaned>>
  BY DEF QueueVolumeIrp, Holding
<1>2. PICK d \in Drives : /\ d = volIrp[i].drive /\ device[d].thread \in Running /\ ~New(d)
                          /\ device[d].open /\ ~device[d].quit
  BY <1>1, HeldFacts
<1>3. /\ device[d] \in Device /\ device[d].sem \in Int /\ device[d].list \in Seq(VolIrps)
      /\ volIrp[i] \in VolIrp /\ hostHandles \in [Hosts -> Int]
  BY DEF VolumesInv, VolumeTypes, Device
<1>4. PICK m \in Int, q \in Seq(VolIrps) : m = device[d].sem + 1 /\ q = Append(device[d].list, i)
  <2>1. device[d].sem + 1 \in Int
    BY <1>3
  <2>2. Append(device[d].list, i) \in Seq(VolIrps)
    BY <1>3
  <2> QED BY <2>1, <2>2
<1>5. PICK v \in Device :
         /\ v = WithList(device[d], q, m) /\ SameVolume(v, device[d])
         /\ v.thread = device[d].thread /\ v.id = device[d].id /\ v.triggered = device[d].triggered
         /\ v.open = device[d].open /\ v.shutting = device[d].shutting
         /\ v.removing = device[d].removing /\ v.locks = device[d].locks
         /\ v.list = q /\ v.sem = m /\ v.quit = device[d].quit
  <2>1. device[d] \in Device
    BY <1>3, Zenon
  <2> QED BY <2>1, ListSet, SMTT(60)
<1>6. ChangeDevice(d, v)
  BY <1>2, <1>4, <1>5 DEF QueueVolumeIrp, WithList
<1>s. "listed" \in VolIrpStates
  BY DEF VolIrpStates
<1>7. PICK x \in VolIrp : /\ x = [volIrp[i] EXCEPT !.state = "listed"] /\ x.state = "listed"
                          /\ x.drive = volIrp[i].drive /\ x.serial = volIrp[i].serial
  BY <1>3, <1>s, IrpRecords
<1>8. volIrp' = [volIrp EXCEPT ![i] = x]
  BY <1>7 DEF QueueVolumeIrp
<1>9. /\ volIrp'[i] = x /\ volIrp' \in [VolIrps -> VolIrp]
      /\ \A j \in VolIrps : j # i => volIrp'[j] = volIrp[j]
  BY <1>8, OneIrpChanged
<1>10. device'[d] = v /\ \A e \in Drives : e # d => device'[e] = device[e]
  BY <1>6, OneChanged DEF VolumesInv
<1>11. v.host = device[d].host /\ v.protect = device[d].protect /\ (device[d].triggered => device[d].protect)
  BY <1>2, <1>5, RunningFacts DEF SameVolume
<1>12. DeviceInv(d)'
  BY <1>1, <1>2, <1>5, <1>6, ServedDevice DEF Running
<1>13. LocksInv'
  <2>1. \A e \in Drives : LockedOn(e)' = LockedOn(e)
    <3>1. volIrp'[i].state \in Holding /\ volIrp'[i].drive = volIrp[i].drive
      BY <1>7, <1>9 DEF Holding
    <3> QED BY <1>1, <1>9, <3>1, LockedKept
  <2>2. \A e \in Drives : device'[e].locks = device[e].locks
    BY <1>5, <1>10
  <2>3. \A e \in Drives : e # d => ListInv(e)'
    BY <1>1, <1>9, <1>10, ListsKept
  <2>4. ListInv(d)'
    <3> DEFINE l == device[d].list  n == Len(l)
    <3>1. ListInv(d) /\ l \in Seq(VolIrps) /\ n \in Nat /\ DOMAIN l = 1 .. n
      BY <1>3 DEF VolumesInv, LocksInv
    <3>2. \A k \in 1 .. n : l[k] \in VolIrps /\ volIrp[l[k]].state = "listed" /\ volIrp[l[k]].drive = d /\ l[k] # i
      BY <1>1, <3>1, SMTT(60) DEF ListInv
    <3>3. \A j, k \in 1 .. n : l[j] = l[k] => j = k
      BY <3>1 DEF ListInv
    <3> HIDE DEF l, n
    <3>4. q = Append(l, i) /\ device'[d].list = q
      BY <1>4, <1>5, <1>10 DEF l
    <3>n. n = Len(l)
      BY DEF n
    <3>5. DOMAIN q = 1 .. n + 1 /\ q[n + 1] = i /\ \A k \in 1 .. n : q[k] = l[k]
      BY <3>1, <3>4, <3>n
    <3>6. \A k \in 1 .. n + 1 : k = n + 1 \/ k \in 1 .. n
      BY <3>1
    <3>7. \A k \in DOMAIN q : volIrp'[q[k]].state = "listed" /\ volIrp'[q[k]].drive = d
      <4> SUFFICES ASSUME NEW k \in DOMAIN q PROVE volIrp'[q[k]].state = "listed" /\ volIrp'[q[k]].drive = d
        OBVIOUS
      <4>1. CASE k = n + 1
        BY <1>2, <1>7, <1>9, <3>5, <4>1
      <4>2. CASE k \in 1 .. n
        BY <1>9, <3>2, <3>5, <4>2
      <4> QED BY <3>5, <3>6, <4>1, <4>2
    <3>8. \A j, k \in DOMAIN q : q[j] = q[k] => j = k
      BY <3>2, <3>3, <3>5, <3>6
    <3> QED BY <3>4, <3>7, <3>8 DEF ListInv
  <2> QED BY <2>1, <2>2, <2>3, <2>4 DEF VolumesInv, LocksInv
<1>14. SerialsInv'
  BY <1>1, <1>5, <1>6, <1>7, <1>9, HeldSerials
<1>15. HandlesInv' /\ hostHandles' \in [Hosts -> Int]
  BY <1>1, <1>3, <1>5, <1>6, <1>11, HandlesKept
<1>16. (v.thread = "none" <=> device[d].thread = "none") /\ (v.triggered => v.protect)
  BY <1>5, <1>11
<1> QED BY <1>1, <1>5, <1>6, <1>9, <1>12, <1>13, <1>14, <1>15, <1>16, ServeStepKeeps

LEMMA ProcessVolumeIrpKeeps ==
    ASSUME VolumesInv, NEW d \in Drives, ProcessVolumeIrp(d) PROVE VolumesInv'
<1>1. /\ device[d].thread = "draining" /\ device[d].thread \in Running /\ device[d].list # <<>>
      /\ UNCHANGED <<links, LastUniqueVolumeId, hostHandles, cacheVars, mreq, down, mounts, orphaned>>
  BY DEF ProcessVolumeIrp, Running
<1>2. /\ device[d] \in Device /\ device[d].locks \in Int /\ hostHandles \in [Hosts -> Int]
  BY DEF VolumesInv, VolumeTypes, Device
<1> DEFINE l == device[d].list  n == Len(l)
<1>3. l \in Seq(VolIrps) /\ ListInv(d) /\ l # <<>>
  BY <1>1 DEF VolumesInv, VolumeTypes, Device, LocksInv
<1>4. PICK i \in VolIrps : i = Head(l) /\ i = l[1] /\ 1 \in DOMAIN l
  BY <1>3
<1>5. volIrp[i].state = "listed" /\ volIrp[i].drive = d
  BY <1>3, <1>4 DEF ListInv
<1>6. /\ ~New(d) /\ device[d].open /\ ~device[d].quit /\ i \in LockedOn(d) /\ IsFiniteSet(LockedOn(d))
      /\ (device[d].triggered => device[d].protect)
  BY <1>1, <1>5, HeldFacts, RunningFacts DEF Holding
<1>7. PICK m \in Int, q \in Seq(VolIrps) : m = device[d].locks - 1 /\ q = Tail(l)
  <2>1. device[d].locks - 1 \in Int
    BY <1>2
  <2>2. Tail(l) \in Seq(VolIrps)
    BY <1>3
  <2> QED BY <2>1, <2>2
<1>8. PICK v \in Device :
         /\ v = WithListAndLocks(device[d], q, m) /\ SameVolume(v, device[d])
         /\ v.thread = device[d].thread /\ v.id = device[d].id /\ v.triggered = device[d].triggered
         /\ v.open = device[d].open /\ v.shutting = device[d].shutting
         /\ v.removing = device[d].removing /\ v.locks = m
         /\ v.list = q /\ v.sem = device[d].sem /\ v.quit = device[d].quit
  <2>1. device[d] \in Device
    BY <1>2
  <2> QED BY <2>1, ListAndLocksSet, SMTT(60)
<1>9. ChangeDevice(d, v)
  BY <1>7, <1>8 DEF ProcessVolumeIrp, WithListAndLocks
<1>10. PICK x \in VolIrp : x = Completed("done") /\ x.state = "done"
  <2>1. "done" \in VolIrpStates
    BY DEF VolIrpStates
  <2> QED BY <2>1, IrpRecords
<1>11. volIrp' = [volIrp EXCEPT ![i] = x]
  BY <1>4, <1>6, <1>10 DEF ProcessVolumeIrp, VolumeAnswer
<1>12. /\ volIrp'[i] = x /\ volIrp' \in [VolIrps -> VolIrp]
       /\ \A j \in VolIrps : j # i => volIrp'[j] = volIrp[j]
  BY <1>11, OneIrpChanged
<1>13. device'[d] = v /\ \A e \in Drives : e # d => device'[e] = device[e]
  BY <1>9, OneChanged DEF VolumesInv
<1>14. v.host = device[d].host /\ v.protect = device[d].protect
  BY <1>8 DEF SameVolume
<1>15. DeviceInv(d)'
  BY <1>1, <1>6, <1>8, <1>9, ServedDevice DEF Running
<1>16. LocksInv'
  <2>1. \A e \in Drives : e # d => ListInv(e)'
    BY <1>5, <1>12, <1>13, ListsKept
  <2>2. \A e \in Drives : e # d => LockedOn(e)' = LockedOn(e)
    <3>1. volIrp'[i].state \notin Holding
      BY <1>10, <1>12 DEF Holding
    <3> QED BY <1>5, <1>12, <3>1, LockedKept
  <2>3. LockedOn(d)' = LockedOn(d) \ {i}
    <3>1. volIrp'[i].state \notin Holding
      BY <1>10, <1>12 DEF Holding
    <3>2. \A j \in VolIrps : j \in LockedOn(d)' <=> (j \in LockedOn(d) /\ j # i)
      BY <1>12, <3>1 DEF LockedOn
    <3> QED BY <3>2 DEF LockedOn
  <2>4. Cardinality(LockedOn(d) \ {i}) = Cardinality(LockedOn(d)) - 1
    BY <1>6, FS_RemoveElement
  <2>5. \A e \in Drives : device[e].locks = Cardinality(LockedOn(e))
    BY DEF VolumesInv, LocksInv
  <2>6. device'[d].locks = Cardinality(LockedOn(d)')
    BY <1>7, <1>8, <1>13, <2>3, <2>4, <2>5
  <2>7. \A e \in Drives : e # d => device'[e].locks = Cardinality(LockedOn(e)')
    BY <1>13, <2>2, <2>5
  <2>8. ListInv(d)'
    <3>1. n \in Nat /\ DOMAIN l = 1 .. n /\ n # 0
      BY <1>3
    <3>2. \A k \in 1 .. n : l[k] \in VolIrps /\ volIrp[l[k]].state = "listed" /\ volIrp[l[k]].drive = d
      BY <1>3, <3>1 DEF ListInv
    <3>3. \A j, k \in 1 .. n : l[j] = l[k] => j = k
      BY <1>3, <3>1 DEF ListInv
    <3>n. n = Len(l)
      OBVIOUS
    <3> HIDE DEF l, n
    <3>4. DOMAIN q = 1 .. n - 1 /\ \A k \in 1 .. n - 1 : q[k] = l[k + 1]
      BY <1>3, <1>7, <3>1, <3>n
    <3>5. \A k \in 1 .. n - 1 : k + 1 \in 1 .. n /\ k + 1 # 1
      BY <3>1
    <3>6. 1 \in 1 .. n /\ \A j, k \in 1 .. n - 1 : j + 1 = k + 1 => j = k
      BY <3>1
    <3>7. \A k \in 1 .. n - 1 : q[k] \in VolIrps /\ q[k] # i /\ volIrp[q[k]].state = "listed" /\ volIrp[q[k]].drive = d
      BY <1>4, <3>2, <3>3, <3>4, <3>5, <3>6
    <3>8. \A k \in DOMAIN q : volIrp'[q[k]].state = "listed" /\ volIrp'[q[k]].drive = d
      BY <1>12, <3>4, <3>7
    <3>9. \A j, k \in DOMAIN q : q[j] = q[k] => j = k
      BY <3>3, <3>4, <3>5, <3>6
    <3> QED BY <1>8, <1>13, <3>8, <3>9 DEF ListInv
  <2>9. \A e \in Drives : ListInv(e)' /\ device'[e].locks = Cardinality(LockedOn(e)')
    BY <2>1, <2>6, <2>7, <2>8
  <2> QED BY <2>9 DEF LocksInv
<1>17. SerialsInv'
  <2>1. volIrp'[i].state \notin Holding \cup {"checked"}
    BY <1>10, <1>12 DEF Holding
  <2> QED BY <1>1, <1>8, <1>9, <1>12, <2>1, HeldSerials
<1>18. HandlesInv' /\ hostHandles' \in [Hosts -> Int]
  BY <1>1, <1>2, <1>8, <1>9, <1>14, HandlesKept
<1>19. (v.thread = "none" <=> device[d].thread = "none") /\ (v.triggered => v.protect)
  BY <1>6, <1>8, <1>14
<1> QED BY <1>1, <1>8, <1>9, <1>12, <1>15, <1>16, <1>17, <1>18, <1>19, ServeStepKeeps

-----------------------------------------------------------------------------
(* The theorems.                                                            *)

LEMMA VolumesNext == ASSUME VolumesInv, [MNext]_mVars PROVE VolumesInv'
<1>1. CASE UNCHANGED mVars
  <2>1. /\ UNCHANGED <<device, links, LastUniqueVolumeId, hostHandles, cacheVars, mreq, volIrp, down, mounts, orphaned>>
    BY <1>1 DEF mVars, cacheVars
  <2>2. VolumeTypes' /\ RequestInv' /\ AskedInv' /\ SerialsInv' /\ DownInv' /\ CacheInv'
    BY <2>1, CacheKept DEF VolumesInv, VolumeTypes, RequestInv, AskedInv, SerialsInv, Creating, Old, New,
                           Present, DownInv, cacheVars
  <2>3. DevicesInv' /\ IdsInv'
    BY <2>1 DEF VolumesInv, DevicesInv, DeviceInv, Handled, Present, Mounted, BeingMounted, BeingUnmounted,
                IdsInv, Old, New
  <2>4. LocksInv' /\ HandlesInv'
    <3>1. \A h \in Hosts : OpenOn(h)' = OpenOn(h)
      BY <2>1 DEF OpenOn
    <3>2. \A d \in Drives : LockedOn(d)' = LockedOn(d) /\ (ListInv(d)' <=> ListInv(d))
      BY <2>1 DEF LockedOn, ListInv
    <3> QED BY <2>1, <3>1, <3>2 DEF VolumesInv, HandlesInv, LocksInv
  <2>5. LoopInv'
    BY <2>1 DEF VolumesInv, LoopInv, Present, Accessible
  <2>6. NestInv'
    <3>1. NestedOn(mreq.drive)' = NestedOn(mreq.drive)
      BY <2>1 DEF NestedOn, Present
    <3> QED BY <2>1, <3>1 DEF VolumesInv, NestInv, New
  <2> QED BY <2>2, <2>3, <2>4, <2>5, <2>6 DEF VolumesInv
<1>2. CASE RequestSteps
  BY <1>2, CreateVolumeDeviceKeeps, VolumeOpensKeeps, PasswordWrongKeeps, HostFailsKeeps,
     StartVolumeQueueKeeps, MountSucceedsKeeps, MountFailsKeeps, NextVolumeKeeps, LockFileSystemKeeps,
     RemoveLinkKeeps, BeginRemovalKeeps, StopVolumeThreadKeeps, DeleteVolumeDeviceKeeps,
     ReturnRequestKeeps DEF RequestSteps
<1>3. CASE \E d \in Drives, m \in MountRequests : MountRequest(d, m)
  BY <1>3, MountRequestKeeps
<1>4. CASE \E u \in MountUsers, d \in Drives, f \in BOOLEAN : UnmountRequest(u, d, f)
  BY <1>4, UnmountRequestKeeps
<1>5. CASE \E u \in Requesters, f \in BOOLEAN : UnmountAllRequest(u, f)
  BY <1>5, UnmountAllRequestKeeps
<1>6. CASE \E u \in Requesters : WipeCache(u)
  BY <1>6, WipeCacheKeeps
<1>7. CASE Shutdown
  BY <1>7, ShutdownKeeps
<1>8. CASE \E i \in VolIrps, d \in Drives : DispatchVolumeIrp(i, d)
  BY <1>8, DispatchVolumeIrpKeeps
<1>9. CASE \E i \in VolIrps : IrpSteps(i)
  BY <1>9, AcquireRemoveLockKeeps, QueueVolumeIrpKeeps DEF IrpSteps
<1>10. CASE \E d \in Drives : VolumeThread(d) \/ TriggerProtection(d)
  BY <1>10, WakeVolumeThreadKeeps, ProcessVolumeIrpKeeps, VolumeListEmptyKeeps, TriggerProtectionKeeps
     DEF VolumeThread
<1> QED BY <1>1, <1>2, <1>3, <1>4, <1>5, <1>6, <1>7, <1>8, <1>9, <1>10 DEF MNext

(* In every state of the driver the devices, links, threads, remove locks, IRPs, handles and
   the password cache agree with each other and with how far the request is that holds
   RootDeviceControlMutex (Ntdriver.c, Ntvol.c, Cache.c). *)
THEOREM VolumesInvariant == MSpec => []VolumesInv
<1>1. MInit => VolumesInv
  BY VolumesInit
<1>2. VolumesInv /\ [MNext]_mVars => VolumesInv'
  BY VolumesNext
<1> QED BY <1>1, <1>2, PTL DEF MSpec

LEMMA InvGivesSound == ASSUME VolumesInv PROVE DriverVolumesSound
<1>1. MTypeOK
  <2>1. mreq.by \in Requesters /\ links \subseteq Drives /\ down \in {"up", "unmounting", "wiping", "down"}
    BY DEF VolumesInv, VolumeTypes, Request
  <2>2. nPasswordIdx \in 0 .. CacheSize - 1 /\ \A i \in VolIrps : volIrp[i].state \in VolIrpStates
    BY DEF VolumesInv, CacheInv, VolumeTypes, VolIrp
  <2>3. ASSUME NEW d \in Drives, Present(d) PROVE device[d].id <= LastUniqueVolumeId /\ device[d].locks >= 0
    <3>1. LockedOn(d) \subseteq VolIrps
      BY DEF LockedOn
    <3>2. IsFiniteSet(LockedOn(d))
      BY <3>1, MountAssumption, FS_Subset
    <3>3. Cardinality(LockedOn(d)) \in Nat
      BY <3>2, FS_CardinalityType
    <3>4. device[d].locks \in Nat
      BY <3>3 DEF VolumesInv, LocksInv
    <3> QED BY <2>3, <3>4 DEF VolumesInv, IdsInv
  <2> QED BY <2>1, <2>2, <2>3 DEF MTypeOK, VolIrpStates
<1>2. NothingLeftBehind
  <2> SUFFICES ASSUME mreq.op = "none"
               PROVE  /\ links = {d \in Drives : Present(d)}
                      /\ \A d \in links : device[d].open /\ ~device[d].quit
                      /\ \A h \in Hosts : hostHandles[h] = Cardinality({d \in links : device[d].host = h})
    BY DEF NothingLeftBehind
  <2>1. \A d \in Drives : ~Handled(d) /\ DeviceInv(d)
    BY NoneRuns DEF VolumesInv, DevicesInv, Handled, Quiet
  <2>2. \A d \in Drives : (d \in links <=> Present(d)) /\ (d \in links => Mounted(d))
    BY <2>1 DEF DeviceInv, Mounted, Present, Running
  <2>3. links = {d \in Drives : Present(d)}
    BY <2>2 DEF VolumesInv, VolumeTypes
  <2>4. \A d \in links : device[d].open /\ ~device[d].quit
    BY <2>2 DEF VolumesInv, VolumeTypes, Mounted
  <2>5. ASSUME NEW h \in Hosts PROVE hostHandles[h] = Cardinality({d \in links : device[d].host = h})
    <3>1. \A d \in Drives : device[d].open => d \in links
      BY <2>1, <2>2, NoDeviceFields DEF DeviceInv
    <3>2. {d \in links : device[d].host = h} = OpenOn(h)
      BY <2>4, <3>1 DEF OpenOn, VolumesInv, VolumeTypes
    <3> QED BY <3>2 DEF VolumesInv, HandlesInv
  <2> QED BY <2>3, <2>4, <2>5
<1>3. LockedIrpsHaveVolume
  <2> SUFFICES ASSUME NEW i \in VolIrps, volIrp[i].state \in {"locked", "listed"}
               PROVE  /\ Present(volIrp[i].drive) /\ device[volIrp[i].drive].open
                      /\ device[volIrp[i].drive].serial = volIrp[i].serial
    BY DEF LockedIrpsHaveVolume
  <2> QED BY HeldFacts DEF Holding, Present, Running
<1>4. UniqueIds
  <2>1. \A d \in links : d \in Drives /\ Old(d)
    <3> TAKE d \in links
    <3>1. d \in Drives
      BY DEF VolumesInv, VolumeTypes
    <3>2. DeviceInv(d)
      BY <3>1 DEF VolumesInv, DevicesInv
    <3>3. ~Handled(d)
      BY <3>2 DEF DeviceInv
    <3> QED BY <3>1, <3>2, <3>3 DEF DeviceInv, Old, New, Handled, Mounted, Present, Running
  <2> QED BY <2>1 DEF VolumesInv, IdsInv, UniqueIds
<1>5. MountedAsAsked
  BY DEF VolumesInv, AskedInv, VolumeTypes, MountedAsAsked
<1>6. CacheConsistent
  <2>1. DOMAIN CachedPasswords = 0 .. CacheSize - 1
    BY DEF VolumesInv, CacheInv
  <2>2. Cached = {} <=> \A i \in 0 .. CacheSize - 1 : CachedPasswords[i] = NoPassword
    BY <2>1 DEF Cached
  <2> QED BY <2>1, <2>2 DEF VolumesInv, CacheInv, CacheConsistent
<1>7. ShutdownComplete
  <2> SUFFICES ASSUME down = "down" PROVE links = {} /\ Cached = {} /\ \A h \in Hosts : hostHandles[h] = 0
    BY DEF ShutdownComplete
  <2>1. links = {} /\ mreq.op = "none" /\ \A i \in 0 .. CacheSize - 1 : CachedPasswords[i] = NoPassword
    BY DEF VolumesInv, DownInv
  <2>2. Cached = {}
    BY <2>1 DEF Cached, VolumesInv, CacheInv
  <2>3. \A h \in Hosts : hostHandles[h] = 0
    <3> TAKE h \in Hosts
    <3>1. {d \in links : device[d].host = h} = {}
      BY <2>1
    <3>2. Cardinality({d \in links : device[d].host = h}) = 0
      BY <3>1, FS_EmptySet
    <3> QED BY <1>2, <2>1, <3>2 DEF NothingLeftBehind
  <2> QED BY <2>1, <2>2, <2>3
<1> QED BY <1>1, <1>2, <1>3, <1>4, <1>5, <1>6, <1>7 DEF DriverVolumesSound

(* No error path of a mount leaves a device, a link or an open host behind, an IRP that passed
   the remove lock has its volume until it is completed, identifiers are unique, a volume is
   mounted as asked, the cache holds a password once, and after a shutdown nothing is mounted
   and nothing cached. *)
THEOREM VolumesAreSound == MSpec => []DriverVolumesSound
<1>1. VolumesInv => DriverVolumesSound
  BY InvGivesSound
<1> QED BY <1>1, VolumesInvariant, PTL

LEMMA NestedStep ==
    ASSUME VolumesInv, [MNext]_mVars
    PROVE  orphaned' /\ ~orphaned =>
              /\ mreq.force
              /\ mreq.op = "unmount" \/ \E e \in NestedOn(mreq.drive) : ~Accessible(mreq.by, e)
<1> SUFFICES ASSUME orphaned', ~orphaned
             PROVE  /\ mreq.force
                    /\ mreq.op = "unmount" \/ \E e \in NestedOn(mreq.drive) : ~Accessible(mreq.by, e)
  OBVIOUS
<1>1. orphaned' # orphaned
  BY Zenon DEF VolumesInv, VolumeTypes
<1>2. LockFileSystem
  BY <1>1, ZenonT(60) DEF MNext, mVars, RequestSteps, IrpSteps, VolumeThread, MountRequest, UnmountRequest,
     UnmountAllRequest, WipeCache, Shutdown, DispatchVolumeIrp, AcquireRemoveLock, QueueVolumeIrp,
     WakeVolumeThread, ProcessVolumeIrp, VolumeListEmpty, TriggerProtection, CreateVolumeDevice, VolumeOpens,
     PasswordWrong, HostFails, StartVolumeQueue, MountSucceeds, MountFails, NextVolume, RemoveLink,
     BeginRemoval, StopVolumeThread, DeleteVolumeDevice, ReturnRequest
<1>3. /\ mreq.op \in {"unmount", "unmountAll"} /\ mreq.pc = "lock" /\ mreq.pc \in LockPcs
      /\ mreq.force /\ NestedOn(mreq.drive) # {}
  BY <1>1, <1>2 DEF LockFileSystem, UnmountStep, LockPcs
<1>4. CASE mreq.op = "unmountAll"
  <2>1. PICK e \in NestedOn(mreq.drive) : TRUE
    BY <1>3
  <2>2. e \in Drives /\ Present(e) /\ device[e].open /\ device[e].base = mreq.drive
    BY <2>1 DEF NestedOn
  <2>3. mreq.drive \in Drives /\ ~New(e) /\ mreq.maxId = device[mreq.drive].id
    BY <1>3, <1>4 DEF VolumesInv, RequestInv, New, MountPcs, LoopInv
  <2>4. mreq.drive # 0
    BY <2>3, MountAssumption
  <2>5. e # mreq.drive /\ device[mreq.drive].id < device[e].id
    BY <2>2, <2>3, <2>4 DEF VolumesInv, NestInv
  <2>6. device[e].id >= mreq.maxId
    <3>1. device[e].id \in Nat /\ device[mreq.drive].id \in Nat
      BY <2>2, <2>3 DEF VolumesInv, VolumeTypes, Device
    <3> QED BY <2>3, <2>5, <3>1
  <2>7. ~Accessible(mreq.by, e)
    BY <1>3, <1>4, <2>2, <2>5, <2>6 DEF VolumesInv, LoopInv
  <2> QED BY <1>3, <2>1, <2>7
<1> QED BY <1>3, <1>4

(* Without force no mounted volume loses the volume its host is on (UnmountDevice), and
   UnmountAllDevices never takes one away under a volume that its caller may access: it
   unmounts nested volumes first. *)
THEOREM NestedGoFirst == MSpec => NestedFirst
<1>1. VolumesInv /\ [MNext]_mVars =>
         [orphaned' /\ ~orphaned =>
            /\ mreq.force
            /\ mreq.op = "unmount" \/ \E e \in NestedOn(mreq.drive) : ~Accessible(mreq.by, e)]_mVars
  BY NestedStep
<1> QED BY <1>1, VolumesInvariant, PTL DEF MSpec, NestedFirst

-----------------------------------------------------------------------------
(***************************************************************************)
(* The timer that dismounts idle volumes.                                  *)
(***************************************************************************)
(* A minute more on two clocks keeps them in order, whichever has reached the limit. *)
LEMMA MinuteMonotone ==
    ASSUME NEW s \in Nat, NEW t \in Nat, s <= t
    PROVE  Minute(s) \in Nat /\ Minute(t) \in Nat /\ Minute(s) <= Minute(t)
BY IdleAssumption DEF Minute

(* A poll counts a minute for the volumes that did not change and starts again for the
   others, whose id it stores. *)
LEMMA PollCounts ==
    ASSUME IdleCounted, DismountIdleVolumes
    PROVE  IdleCounted'
<1> DEFINE seen == {l \in idleKnown : idleMnt[l] # 0}
           idle == {l \in seen : Unchanged(l)}
           gone == {l \in idle : IdleLongEnough(l) /\ l \notin filesOpen}
<1>1. /\ idleMnt' = [l \in IdleLetters |-> IF l \in gone THEN 0 ELSE idleMnt[l]]
      /\ InactivityTime' = [l \in IdleLetters |-> CASE l \in idle \ gone -> Minute(InactivityTime[l])
                                                    [] l \in gone \cup (seen \ idle) -> 0
                                                    [] OTHER -> InactivityTime[l]]
      /\ LastId' = [l \in IdleLetters |-> IF l \in seen THEN idleMnt[l] ELSE LastId[l]]
      /\ usedSince' = usedSince \ seen
      /\ restful' = [l \in IdleLetters |-> IF l \in seen THEN Minute(restful[l]) ELSE restful[l]]
      /\ idleIds' = idleIds
  BY DEF DismountIdleVolumes
<1>2. ASSUME NEW l \in IdleLetters
      PROVE  /\ idleMnt'[l] \in Nat /\ LastId'[l] \in Nat /\ InactivityTime'[l] \in Nat /\ restful'[l] \in Nat
             /\ idleMnt'[l] <= idleIds' /\ LastId'[l] <= idleIds'
             /\ idleMnt'[l] # 0 /\ l \notin usedSince' /\ LastId'[l] = idleMnt'[l]
                   => InactivityTime'[l] <= restful'[l]
  <2> USE DEF IdleCounted
  <2>1. Minute(InactivityTime[l]) \in Nat /\ Minute(restful[l]) \in Nat
    BY IdleAssumption DEF Minute
  <2>2. CASE l \in gone
    BY <1>1, <2>1, <2>2
  <2>3. CASE l \in idle \ gone
    BY <1>1, <2>1, <2>3, MinuteMonotone DEF Unchanged
  <2>4. CASE l \in seen \ idle
    BY <1>1, <2>1, <2>4
  <2>5. CASE l \notin seen
    BY <1>1, <2>1, <2>5 DEF Unchanged
  <2> QED BY <2>2, <2>3, <2>4, <2>5
<1> QED BY <1>1, <1>2 DEF IdleCounted, Unchanged

(* What the program knows of the idle time of a volume is never too much. *)
LEMMA CountedInvariant == IdleSpec => []IdleCounted
<1>1. IdleInit => IdleCounted
  BY DEF IdleInit, IdleCounted, Zero, Unchanged
<1>2. IdleCounted /\ [IdleNext]_idleVars => IdleCounted'
  <2> SUFFICES ASSUME IdleCounted, [IdleNext]_idleVars
               PROVE  IdleCounted'
    OBVIOUS
  <2>1. CASE DismountIdleVolumes
    BY <2>1, PollCounts
  <2>2. CASE KnowMounted
    BY <2>2 DEF KnowMounted, IdleCounted, Unchanged
  <2>3. ASSUME NEW l \in IdleLetters, UseVolume(l)
        PROVE  IdleCounted'
    BY <2>3 DEF UseVolume, IdleCounted, Unchanged
  <2>4. ASSUME NEW l \in IdleLetters, Exchange(l)
        PROVE  IdleCounted'
    BY <2>4 DEF Exchange, IdleCounted, Unchanged
  <2>5. CASE UNCHANGED idleVars
    BY <2>5 DEF idleVars, IdleCounted, Unchanged
  <2> QED BY <2>1, <2>2, <2>3, <2>4, <2>5 DEF IdleNext
<1> QED BY <1>1, <1>2, PTL DEF IdleSpec

(* The timer dismounts only volumes that nobody used during MaxVolumeIdleTime polls
   (Mount.c, DismountIdleVolumes), also when another volume took the letter. *)
THEOREM IdleOnly == IdleSpec => OnlyIdleDismounted
<1>1. IdleCounted /\ [IdleNext]_idleVars =>
        [DismountIdleVolumes => \A l \in IdleLetters : idleMnt[l] # 0 /\ idleMnt'[l] = 0 =>
            l \notin usedSince /\ restful[l] + 1 >= MaxVolumeIdleTime]_idleVars
  BY IdleAssumption DEF IdleCounted, DismountIdleVolumes, Unchanged, IdleLongEnough, idleVars
<1> QED BY <1>1, CountedInvariant, PTL DEF IdleSpec, OnlyIdleDismounted
=============================================================================
