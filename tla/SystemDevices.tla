---------------------------- MODULE SystemDevices ----------------------------
(***************************************************************************)
(* The filter devices of the driver over one session of Windows: which     *)
(* drive is taken for the boot drive (Driver/DriveFilter.c), what the      *)
(* crash dump and hibernation filters write while the encrypted area moves *)
(* (Driver/DumpFilter.c and the legacy filter), the wiping of the decoy    *)
(* system, and the write protection of the other volumes under a hidden    *)
(* system (Driver/VolumeFilter.c).                                         *)
(*                                                                         *)
(* The drive: units 1 .. AreaUnits are the system partition, the same      *)
(* number of units after them is the partition of a hidden system.         *)
(***************************************************************************)
EXTENDS Integers, FiniteSets

CONSTANTS
    AreaUnits,      \* units of the area to be encrypted
    DecoyWipePasses,     \* GetWipePassCount
    MaxImages,      \* bound: hibernation drivers loaded
    MaxDevFaults    \* bound: allocations, reads and writes that fail

ASSUME DevAssumption == AreaUnits \in Nat

VARIABLES
    win,            \* Windows: starts, runs, hibernates, is off or has stopped; its version;
                    \* whether the other drive and its volume are one device
    args,           \* BootArgs of the loader
    dev,            \* the filter device of each drive
    mountMutex,     \* MountMutex: the drive that is being mounted
    bootExt,        \* BootDriveFound and BootDriveFilterExtension
    dumps,          \* CrashDumpEnabled, HibernationEnabled, the filters that are loaded
    area,           \* the encrypted area in memory and in the header, and the set-up
    written,        \* the last write of a dump: unit, place on the drive and key unit
    wipe,           \* the decoy system wipe
    devFaults

devVars == <<win, args, dev, mountMutex, bootExt, dumps, area, written, wipe, devFaults>>

\* The boot drive, and a drive to which its header was restored.
Drives == {"boot", "copy"}
NoDrive == "none"
Partition == 1 .. AreaUnits
NoArgs == [valid |-> FALSE, signature |-> FALSE, password |-> FALSE, hidden |-> FALSE, extra |-> FALSE]
NewDevice == [at |-> "absent", inside |-> 0, role |-> "drive", mounted |-> FALSE, bootDrive |-> FALSE]
NoSlot == 0
Slots == 1 .. 3
NoWipe == [thread |-> FALSE, at |-> "off", off |-> 0, pass |-> 0, end |-> 0, abort |-> FALSE,
           result |-> "none", clean |-> [u \in Partition |-> 0]]

DevInit ==
    /\ win \in {w \in [at : {"load"}, vista : BOOLEAN, merged : BOOLEAN] : w.merged = ~w.vista}
    /\ args = NoArgs
    /\ dev = [d \in Drives |-> NewDevice]
    /\ mountMutex = NoDrive
    /\ bootExt = [found |-> FALSE, drive |-> NoDrive]
    /\ dumps = [crash |-> FALSE, hibernation |-> FALSE, legacy |-> FALSE, files |-> {}, loaded |-> FALSE, last |-> 1,
                original |-> [s \in Slots |-> NoSlot], images |-> 0, live |-> {}]
    /\ \E n \in {0, AreaUnits} : area = [end |-> n, header |-> n, pending |-> FALSE, setup |-> "off", keys |-> TRUE]
    /\ written = {} /\ wipe = NoWipe /\ devFaults = 0

DevFault == devFaults < MaxDevFaults /\ devFaults' = devFaults + 1
Stopped == win' = [win EXCEPT !.at = "stopped"]
Running == win.at = "run"

-----------------------------------------------------------------------------
(* The start of the driver.  A loader before 0x710 does not tell the signature
   of the boot drive, one before 0x630 sets no flags, one before 0x600 knows no
   hidden systems. *)
LoadBootArguments ==
    /\ win.at = "load"
    /\ \/ args' = NoArgs /\ win' = [win EXCEPT !.at = "run"]
       \/ \E v \in {"new", "0x630", "0x600", "older"}, h, x \in BOOLEAN :
             /\ h => area.end = AreaUnits
             /\ args' = [valid |-> TRUE, signature |-> v = "new", password |-> TRUE,
                         hidden |-> h /\ v # "older", extra |-> x /\ v \in {"new", "0x630"}]
             /\ win' = [win EXCEPT !.at = "run"]
       \/ Stopped /\ UNCHANGED args    \* the checksum of the arguments is wrong
    /\ UNCHANGED <<dev, mountMutex, bootExt, dumps, area, written, wipe, devFaults>>

DriveFilterAddDevice(d) ==
    /\ Running /\ dev[d].at = "absent"
    /\ dev' = [dev EXCEPT ![d].at = "added"]
    /\ UNCHANGED <<win, args, mountMutex, bootExt, dumps, area, written, wipe, devFaults>>

\* IRP_MN_START_DEVICE has passed the lower devices (OnStartDeviceCompleted).
OnStartDeviceCompleted(d) ==
    /\ Running /\ dev[d].at = "added"
    /\ \/ dev' = [dev EXCEPT ![d].at = IF args.valid THEN "checked" ELSE "started",
                             ![d].inside = IF args.valid THEN 1 ELSE 0] /\ UNCHANGED devFaults
       \/ DevFault /\ args.valid /\ dev' = [dev EXCEPT ![d].at = "started"]     \* no work item
    /\ UNCHANGED <<win, args, mountMutex, bootExt, dumps, area, written, wipe>>

\* Under a hidden system a drive that is merged with its volume is left to the volume filter.
CheckDeviceTypeAndMount(d) ==
    /\ Running /\ dev[d].at = "checked"
    /\ \/ /\ args.hidden /\ win.merged /\ d = "copy"
          /\ dev' = [dev EXCEPT ![d].role = "volume", ![d].at = "started", ![d].inside = 0]
          /\ UNCHANGED mountMutex
       \/ /\ ~(args.hidden /\ win.merged /\ d = "copy")
          /\ mountMutex = NoDrive /\ mountMutex' = d /\ dev' = [dev EXCEPT ![d].at = "mounting"]
    /\ UNCHANGED <<win, args, bootExt, dumps, area, written, wipe, devFaults>>

(* The drive is the one that was booted if its signature says so (if it can be
   read at all) and the salt of its header and the password agree. *)
IsBootedDrive(d, readable) == (args.signature /\ readable => d = "boot") /\ args.password
LegacyFilter == ~win.vista /\ ~dumps.legacy
MountSucceeds(d) ==
    /\ dev' = [dev EXCEPT ![d].at = "started", ![d].inside = 0, ![d].mounted = TRUE, ![d].bootDrive = TRUE]
    /\ bootExt' = [found |-> TRUE, drive |-> d]
    /\ args' = [args EXCEPT !.password = FALSE]
    /\ \E ok \in BOOLEAN :                        \* StartLegacyHibernationDriverFilter
          /\ ok \/ LegacyFilter
          /\ dumps' = IF args.hidden /\ args.extra
                      THEN [dumps EXCEPT !.legacy = @ \/ (LegacyFilter /\ ok), !.crash = FALSE, !.hibernation = FALSE]
                      ELSE IF win.vista THEN [dumps EXCEPT !.crash = TRUE, !.hibernation = TRUE]
                      ELSE IF LegacyFilter
                      THEN [dumps EXCEPT !.legacy = ok, !.crash = FALSE, !.hibernation = ok]
                      ELSE dumps
MountDrive(d) ==
    /\ Running /\ dev[d].at = "mounting"
    /\ mountMutex' = NoDrive
    /\ LET notMounted == /\ dev' = [dev EXCEPT ![d].at = "started", ![d].inside = 0]
                         /\ UNCHANGED <<args, bootExt, dumps>>
       IN  \/ bootExt.found /\ notMounted /\ UNCHANGED devFaults
           \/ /\ ~bootExt.found
              /\ \/ IsBootedDrive(d, TRUE) /\ MountSucceeds(d) /\ UNCHANGED devFaults
                 \/ ~IsBootedDrive(d, TRUE) /\ notMounted /\ UNCHANGED devFaults
                 \/ DevFault /\ notMounted                                  \* no memory, or no header read
                 \/ DevFault /\ IsBootedDrive(d, FALSE) /\ MountSucceeds(d) \* the first sector is not read
    /\ UNCHANGED <<win, area, written, wipe>>

\* IRP_MN_REMOVE_DEVICE waits for the IRPs inside the device.
RemoveDrive(d) ==
    /\ Running /\ dev[d].at = "started" /\ dev[d].inside = 0
    /\ area.setup = "off" /\ wipe.at = "off"
    /\ dev' = [dev EXCEPT ![d] = NewDevice]
    /\ bootExt' = IF dev[d].bootDrive THEN [found |-> FALSE, drive |-> NoDrive] ELSE bootExt
    /\ UNCHANGED <<win, args, mountMutex, dumps, area, written, wipe, devFaults>>

HiddenSystem == bootExt.drive # NoDrive /\ args.hidden
BootMounted == bootExt.drive # NoDrive /\ dev[bootExt.drive].mounted

-----------------------------------------------------------------------------
(* The set-up as far as dumps see it: a block is written, then the end of the
   area, in two halves, is moved under EncryptedAreaEndUpdatePending; the header
   follows later and when the set-up is aborted. *)
StartSetup ==
    /\ Running /\ BootMounted /\ ~HiddenSystem /\ area.setup = "off" /\ area.end < AreaUnits
    /\ area' = [area EXCEPT !.setup = "block"]
    /\ UNCHANGED <<win, args, dev, mountMutex, bootExt, dumps, written, wipe, devFaults>>
SaveHeaderThen(then) ==
    IF area.header = area.end \/ area.keys
    THEN area' = [area EXCEPT !.setup = then, !.header = area.end] /\ UNCHANGED win
    ELSE Stopped /\ UNCHANGED area
EndMoves ==
    /\ Running
    /\ \/ area.setup = "block" /\ area' = [area EXCEPT !.setup = "half", !.pending = TRUE] /\ UNCHANGED win
       \/ area.setup = "half" /\ area' = [area EXCEPT !.setup = "moved", !.end = @ + 1] /\ UNCHANGED win
       \/ /\ area.setup = "moved" /\ UNCHANGED win
          /\ \E next \in {"block", "save"} : /\ area.end = AreaUnits => next = "save"
                                           /\ area' = [area EXCEPT !.setup = next, !.pending = FALSE]
       \/ area.setup = "save" /\ SaveHeaderThen(IF area.end = AreaUnits THEN "off" ELSE "block")
    /\ UNCHANGED <<args, dev, mountMutex, bootExt, dumps, written, wipe, devFaults>>

(* ReopenBootVolumeHeader, after the password was changed: the keys of the header
   are lost when the password does not open it. *)
ReopenBootVolumeHeader ==
    /\ Running /\ BootMounted /\ area.keys /\ area.setup = "off"
    /\ DevFault /\ area' = [area EXCEPT !.keys = FALSE]
    /\ UNCHANGED <<win, args, dev, mountMutex, bootExt, dumps, written, wipe>>

-----------------------------------------------------------------------------
(* Dumps.  The end of the area as it is read at a high interrupt level: half
   moved it may be any value.  Units of a hidden system lie behind the decoy
   system and are numbered from there. *)
SeenEnds == IF area.setup = "half" THEN {0, AreaUnits} ELSE {area.end}
StoredUnit(u, end, shifted) ==
    [unit |-> u, at |-> IF shifted THEN u + AreaUnits ELSE u,
     key |-> IF u > end THEN 0 ELSE IF HiddenSystem THEN u + AreaUnits ELSE u]

\* IRP_MN_DEVICE_USAGE_NOTIFICATION: no dump or hibernation file where no filter would encrypt it.
DeviceUsageNotification(type) ==
    /\ Running /\ wipe = NoWipe /\ bootExt.found /\ type \notin dumps.files
    /\ IF type = "crash" THEN dumps.crash ELSE dumps.hibernation
    /\ dumps' = [dumps EXCEPT !.files = @ \cup {type}]
    /\ UNCHANGED <<win, args, dev, mountMutex, bootExt, area, written, wipe, devFaults>>
\* The dump volume has to be on the mounted system drive.
DumpFilterEntry ==
    /\ Running /\ win.vista /\ dumps.files # {} /\ BootMounted /\ ~dumps.loaded
    /\ dumps' = [dumps EXCEPT !.loaded = TRUE]
    /\ UNCHANGED <<win, args, dev, mountMutex, bootExt, area, written, wipe, devFaults>>
\* Hibernation ends the set-up, which saves the header, before the power goes down.
DispatchPower ==
    /\ Running /\ "hibernation" \in dumps.files /\ area.setup \in {"off", "block"}
    /\ IF win.vista THEN dumps.loaded ELSE dumps.live # {}
    /\ IF area.header = area.end \/ area.keys
       THEN /\ win' = [win EXCEPT !.at = "hibernate"]
            /\ area' = [area EXCEPT !.setup = "off", !.header = area.end]
       ELSE Stopped /\ UNCHANGED area
    /\ UNCHANGED <<args, dev, mountMutex, bootExt, dumps, written, wipe, devFaults>>
BugCheck ==
    /\ Running /\ dumps.loaded /\ "crash" \in dumps.files
    /\ win' = [win EXCEPT !.at = "crash"]
    /\ UNCHANGED <<args, dev, mountMutex, bootExt, dumps, area, written, wipe, devFaults>>
DumpFilterWrite ==
    /\ win.at \in {"hibernate", "crash"} /\ win.vista /\ BootMounted
    /\ \E u \in Partition, n \in 1 .. 2 :
          /\ u + n - 1 <= AreaUnits
          /\ IF area.pending THEN Stopped /\ UNCHANGED written
             ELSE /\ UNCHANGED win
                  /\ \E end \in SeenEnds :
                        written' = {StoredUnit(v, end, HiddenSystem /\ u <= end) : v \in u .. u + n - 1}
    /\ UNCHANGED <<args, dev, mountMutex, bootExt, dumps, area, wipe, devFaults>>

\* A driver whose name begins with "hiber" is loaded, at most one for each filter at a time.
LoadImageNotifyRoutine ==
    /\ Running /\ wipe = NoWipe /\ area.setup = "off" /\ dumps.legacy /\ dumps.images < MaxImages /\ Cardinality(dumps.live) < Cardinality(Slots)
    /\ dumps' = [dumps EXCEPT !.images = @ + 1, !.original[dumps.last] = dumps.images + 1,
                              !.live = @ \cup {[image |-> dumps.images + 1, filter |-> dumps.last]},
                              !.last = IF @ = Cardinality(Slots) THEN 1 ELSE @ + 1]
    /\ UNCHANGED <<win, args, dev, mountMutex, bootExt, area, written, wipe, devFaults>>
\* Windows unloads the drivers of a hibernation it has given up.
ImagesUnloaded ==
    /\ Running /\ dumps.live # {} /\ dumps' = [dumps EXCEPT !.live = {}]
    /\ UNCHANGED <<win, args, dev, mountMutex, bootExt, area, written, wipe, devFaults>>
HiberDriverWriteFunctionFilter ==
    /\ win.at = "hibernate" /\ dumps.legacy /\ dumps.live # {} /\ BootMounted
    /\ \E u \in Partition, n \in 1 .. 2 :
          /\ u + n - 1 <= AreaUnits
          /\ written' = {StoredUnit(v, area.end, HiddenSystem) : v \in u .. u + n - 1}
    /\ UNCHANGED <<win, args, dev, mountMutex, bootExt, dumps, area, wipe, devFaults>>
PowerOff ==
    /\ win.at \in {"hibernate", "crash"} /\ win' = [win EXCEPT !.at = "off"]
    /\ UNCHANGED <<args, dev, mountMutex, bootExt, dumps, area, written, wipe, devFaults>>

-----------------------------------------------------------------------------
(* The wiping of the partition of the decoy system, from the hidden system.
   Dumps share no state with it and are not set up meanwhile. *)
StartDecoySystemWipe ==
    /\ dumps.images = 0 /\ dumps.files = {} /\ Running /\ HiddenSystem /\ BootMounted /\ wipe.at = "off" /\ ~wipe.thread
    /\ wipe' = [wipe EXCEPT !.thread = TRUE, !.at = "open", !.off = 1, !.pass = 1, !.end = 0, !.abort = FALSE]
    /\ UNCHANGED <<win, args, dev, mountMutex, bootExt, dumps, area, written, devFaults>>
WipeStep(w) == /\ Running /\ wipe' = w
               /\ UNCHANGED <<win, args, dev, mountMutex, bootExt, dumps, area, written>>
\* Buffers and keys of the wipe.
WipeOpens ==
    /\ wipe.at = "open"
    /\ \/ WipeStep([wipe EXCEPT !.at = "loop", !.result = "fail"]) /\ UNCHANGED devFaults
       \/ DevFault /\ WipeStep([wipe EXCEPT !.at = "off", !.result = "fail"])
\* The next block, or the next pass of this one: the queue is held, the block written.
WipeEnds == wipe.at = "loop" /\ (wipe.abort \/ wipe.off > AreaUnits)
            /\ WipeStep([wipe EXCEPT !.at = "off", !.result = "ok"]) /\ UNCHANGED devFaults
WipeWrites ==
    /\ wipe.at = "loop" /\ wipe.off <= AreaUnits /\ (wipe.abort => wipe.pass > 1)
    /\ \/ /\ UNCHANGED devFaults
          /\ LET last == wipe.pass = DecoyWipePasses
             IN  WipeStep([wipe EXCEPT !.clean[wipe.off] = wipe.pass,
                                       !.pass = IF last THEN 1 ELSE @ + 1,
                                       !.off = IF last THEN @ + 1 ELSE @,
                                       !.end = IF last THEN wipe.off ELSE @])
       \/ DevFault /\ WipeStep([wipe EXCEPT !.at = "off", !.result = "fail"])
\* AbortDecoySystemWipe sets the flag and waits for the thread.
AbortDecoySystemWipe ==
    /\ wipe.thread /\ UNCHANGED devFaults
    /\ IF wipe.at = "off" THEN WipeStep([wipe EXCEPT !.thread = FALSE])
       ELSE ~wipe.abort /\ WipeStep([wipe EXCEPT !.abort = TRUE])

-----------------------------------------------------------------------------
(* Volumes answer "is it writable".  Under a hidden system only the system volume is.
   A drive that is one device with its volume has no volume filter of its own. *)
Volumes == {"system", "sameDrive", "otherDrive"}
Filtered(v) == v # "otherDrive" \/ ~win.merged \/ dev["copy"].role = "volume"
DiskIsWritable(v) == HiddenSystem /\ Filtered(v) => v = "system"

DevNext ==
    \/ LoadBootArguments
    \/ \E d \in Drives : \/ DriveFilterAddDevice(d) \/ OnStartDeviceCompleted(d) \/ CheckDeviceTypeAndMount(d)
                         \/ MountDrive(d) \/ RemoveDrive(d)
    \/ StartSetup \/ EndMoves \/ ReopenBootVolumeHeader
    \/ (\E f \in {"crash", "hibernation"} : DeviceUsageNotification(f)) \/ DumpFilterEntry \/ DispatchPower \/ BugCheck \/ DumpFilterWrite
    \/ LoadImageNotifyRoutine \/ ImagesUnloaded \/ HiberDriverWriteFunctionFilter \/ PowerOff
    \/ StartDecoySystemWipe \/ WipeOpens \/ WipeEnds \/ WipeWrites \/ AbortDecoySystemWipe
DevSpec == DevInit /\ [][DevNext]_devVars

-----------------------------------------------------------------------------
\* One drive at most is mounted as the boot drive, and as long as it could be read it is the one that was booted.
BootDriveIsBooted ==
    /\ \A d \in Drives : dev[d].mounted <=> bootExt.found /\ bootExt.drive = d
    /\ args.signature /\ devFaults = 0 => ~dev["copy"].mounted

(* What a dump wrote can be read after the restart, by the header on the drive: at its
   place, under its unit number, encrypted or not.  Only a crash may find the header
   behind the area, in the units in between. *)
DumpReadable ==
    \A w \in written :
       \/ w.unit > area.header /\ w.unit <= area.end
       \/ w = [unit |-> w.unit, at |-> IF args.hidden THEN w.unit + AreaUnits ELSE w.unit,
               key |-> IF w.unit > area.header THEN 0
                       ELSE IF args.hidden THEN w.unit + AreaUnits ELSE w.unit]

\* A hibernation driver is called through the filter that has kept its own entry.
HiberEntryOwn == \A i \in dumps.live : dumps.original[i.filter] = i.image

\* A wipe that is reported as complete has made every pass over every unit.
WipeComplete == wipe.result = "ok" /\ wipe.end = AreaUnits => \A u \in Partition : wipe.clean[u] = DecoyWipePasses

(* A hidden system leaves no trace on other volumes: none of them is writable (unless the
   check of the type of the device had no memory). *)
OthersReadOnly ==
    args.hidden /\ BootMounted /\ Running /\ devFaults = 0
       => \A v \in Volumes : (v = "otherDrive" => dev["copy"].at = "started") /\ DiskIsWritable(v) => v = "system"

(* The devices of the system: the drive that was booted, dumps that are filtered, and can be
   read, a decoy system that is wiped completely and other volumes that stay untouched. *)
DevicesSound == BootDriveIsBooted /\ DumpReadable /\ HiberEntryOwn /\ WipeComplete /\ OthersReadOnly
=============================================================================
