----------------------------- MODULE MCVolumes -----------------------------
(***************************************************************************)
(* How volumes are mounted and dismounted, side by side: in the Windows    *)
(* driver, by the Windows program, by its idle timer, by the Unix core and *)
(* through the privileged service; and the keyfile lists that the dialogs  *)
(* keep, and the backups of headers.  The components share no state;       *)
(* "active" is the one that runs, so that the numbers of their states add  *)
(* up.                                                                     *)
(***************************************************************************)
EXTENDS MountedVolumes, VolumeManager, IdleVolumes, UnixMounts, CoreService, KeyfilePool,
        HeaderBackup

VARIABLE active

(* A partition with an outer volume "a" and a hidden one "b", and a container file
   with the password "b" that lies on the outer volume. *)
MCHostOn == [h \in Hosts |-> IF h = "file" THEN "disk" ELSE "noHost"]
MCOuter  == [h \in Hosts |-> IF h = "file" THEN "b" ELSE "a"]
MCHidden == [h \in Hosts |-> IF h = "file" THEN "noPassword" ELSE "b"]
MountOf(u, h, p, q, prot, c) ==
    [by |-> u, host |-> h, pwd |-> p, hpwd |-> q, protect |-> prot, cache |-> c]
MCMounts ==
    {MountOf("u1", "disk", "a", "noPassword", FALSE, TRUE),
     MountOf("u1", "disk", "b", "noPassword", FALSE, FALSE),
     MountOf("u1", "disk", "a", "b", TRUE, TRUE), MountOf("u1", "disk", "a", "a", TRUE, FALSE),
     MountOf("u1", "disk", "noPassword", "noPassword", FALSE, FALSE),
     MountOf("u1", "file", "b", "noPassword", FALSE, TRUE),
     MountOf("u1", "file", "b", "b", TRUE, FALSE),
     MountOf("u2", "file", "b", "noPassword", FALSE, FALSE)}
OneLetter == [v \in Containers |-> 1]

\* The components that do not run are in one of their initial states.
VolumesInit ==
    /\ active \in {"driver", "program", "idle", "unix", "service", "keyfiles", "backup"}
    /\ MInit /\ VInit /\ IdleInit /\ UxInit /\ KfInit /\ HbInit /\ CsInit /\ (active # "service" => sudo = "nothing")
    /\ (active # "backup" => hbHost.bigSectors)

VolumesNext ==
    LET others == <<kfVars, hbVars>>
        mounting == <<mVars, vVars, idleVars>>
        unix == <<uxVars, csVars>>
    IN  /\ UNCHANGED active
        /\ \/ active = "driver" /\ MNext /\ UNCHANGED <<vVars, idleVars, unix, others>>
           \/ active = "program" /\ VNext /\ UNCHANGED <<mVars, idleVars, unix, others>>
           \/ active = "idle" /\ IdleNext /\ UNCHANGED <<mVars, vVars, unix, others>>
           \/ active = "unix" /\ UxNext /\ UNCHANGED <<mounting, csVars, others>>
           \/ active = "service" /\ CsNext /\ UNCHANGED <<mounting, uxVars, others>>
           \/ active = "keyfiles" /\ KfNext /\ UNCHANGED <<mounting, unix, hbVars>>
           \/ active = "backup" /\ HbNext /\ UNCHANGED <<mounting, unix, kfVars>>

VolumesSpec ==
    VolumesInit /\ [][VolumesNext]_<<active, mVars, vVars, idleVars, uxVars, csVars, kfVars, hbVars>>

(* What the Windows program and the Unix core promise of the volumes they mount, beside
   the driver's DriverVolumesSound; a component that does not run stays as it was initially. *)
MountsSound ==
    /\ active = "program" => ManagerSound
    /\ active = "unix" => UnixMountsSound

(* What the privileged service, the keyfile dialogs and the backups of headers promise
   of the passwords and keys they handle. *)
SecretsSound ==
    /\ active = "service" => ServiceSound
    /\ active = "keyfiles" => KeyfilesSound
    /\ active = "backup" => HeaderBackupSound
=============================================================================
