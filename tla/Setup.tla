------------------------------- MODULE Setup --------------------------------
(***************************************************************************)
(* The installer of Windows (Setup/Setup.c, Wizard.c, SelfExtract.c and    *)
(* DoDriverInstall of Common/Dlgcode.c): installation, upgrade with or     *)
(* without an encrypted system, roll-back, repair and uninstallation.      *)
(*                                                                         *)
(* Every step may fail, the computer may stop between two steps, and the   *)
(* user mounts volumes and opens the programs meanwhile.                   *)
(***************************************************************************)
EXTENDS Naturals, FiniteSets

CONSTANTS
    MaxInstalls,       \* bound: runs of the installer
    MaxSetupFaults   \* bound: steps that fail

VARIABLES
    computer,       \* the computer: service, loaded driver, files, registry, ...
    ins,      \* the installer: step and global flags
    before,   \* history: the computer when the installer began to change it
    suLog,    \* history: see the properties
    suCount   \* counters: runs, faults

suVars == <<computer, ins, before, suLog, suCount>>

\* Versions: 0 nothing, 1 an old one (before 7.0), 2 this one, 3 a newer one.
This == 2
NoVersion == 0

\* A computer: "svc" is the driver's service ("marked": to be deleted when it stops),
\* "drvFile" the driver on disk (9: written in part), "sysEnc" an encrypted system.
Blank == [svc |-> "none", loaded |-> 0, portable |-> FALSE, files |-> 0, drvFile |-> 0, reg |-> 0,
          links |-> 0, data |-> FALSE, filter |-> FALSE, dump |-> FALSE, loader |-> 0, sysEnc |-> FALSE, busy |-> FALSE,
          legacy |-> FALSE]
\* TrueCrypt, the old version, has its programs and shortcuts in folders of its own.
WithVersion(v) ==
    LET own == IF v = 1 THEN NoVersion ELSE v
    IN [Blank EXCEPT !.svc = "system", !.loaded = v, !.files = own, !.drvFile = v, !.reg = v, !.links = own,
                     !.data = TRUE, !.legacy = (v = 1)]
WithSystemEncryption(v) ==
    [WithVersion(v) EXCEPT !.svc = "boot", !.filter = TRUE, !.dump = TRUE, !.loader = v, !.sysEnc = TRUE]
Portable(v) == [Blank EXCEPT !.svc = "marked", !.loaded = v, !.portable = TRUE]
Computers == {Blank, Portable(1), Portable(This)}
             \cup {WithVersion(v) : v \in 1 .. 3} \cup {WithSystemEncryption(v) : v \in 1 .. 3}
             \cup {[WithSystemEncryption(This) EXCEPT !.sysEnc = FALSE]}
NoSetup == [at |-> "off", kind |-> "none", upgrade |-> FALSE, downgrade |-> FALSE, installed |-> 0, portable |-> FALSE,
            sysUpdate |-> FALSE, unload |-> TRUE, rollback |-> FALSE, handle |-> FALSE, ok |-> TRUE, restart |-> FALSE]

SuInit ==
    /\ computer \in Computers /\ ins = NoSetup /\ before = computer
    /\ suLog = {} /\ suCount = [runs |-> 0, faults |-> 0]

-----------------------------------------------------------------------------
(* What happens beside the installer. *)
\* A volume is mounted or a program opened, or all are closed.
UserActivity ==
    /\ computer.loaded # NoVersion /\ computer' = [computer EXCEPT !.busy = ~@]
    /\ UNCHANGED <<ins, before, suLog, suCount>>
\* The computer starts again.  A service marked for deletion is gone, the
\* driver is the one on disk; an encrypted system without it does not start.
Starts == ~(computer.sysEnc /\ (computer.svc # "boot" \/ computer.drvFile \notin 1 .. 3))
ComputerStops ==
    /\ Starts \/ ins.at = "off"
    /\ LET svc == IF computer.svc = "marked" THEN "none" ELSE computer.svc
       IN computer' = [computer EXCEPT !.svc = svc, !.portable = FALSE, !.busy = FALSE,
                           !.loaded = IF svc # "none" /\ computer.drvFile \in 1 .. 3 THEN computer.drvFile ELSE NoVersion]
    /\ suLog' = IF computer.drvFile = 9 /\ ins.at # "off" THEN suLog \cup {"cut"} ELSE suLog
    /\ ins' = NoSetup /\ UNCHANGED <<before, suCount>>

-----------------------------------------------------------------------------
(* The wizard.  An attempt that failed can only be closed. *)
\* DetermineUpgradeDowngradeStatus keeps what it knew when there is no driver.
DetermineUpgradeDowngradeStatus(i) ==
    IF computer.loaded = NoVersion THEN i
    ELSE [i EXCEPT !.upgrade = computer.loaded < This, !.downgrade = computer.loaded > This,
                   !.installed = computer.loaded, !.portable = computer.portable]
StartWizard(kind) ==
    /\ ins.at = "off" /\ suCount.runs < MaxInstalls /\ Starts
    /\ kind = "uninstall" => computer.reg = This
    /\ LET i == IF kind = "install" THEN DetermineUpgradeDowngradeStatus(NoSetup) ELSE NoSetup
       IN ins' = [i EXCEPT !.at = "unload", !.kind = kind]
    /\ before' = computer /\ suCount' = [suCount EXCEPT !.runs = @ + 1] /\ UNCHANGED <<computer, suLog>>
CloseWizard ==
    /\ ins.at \in {"failed", "done"} /\ ins' = NoSetup /\ UNCHANGED <<computer, before, suLog, suCount>>

-----------------------------------------------------------------------------
(* The steps.  "Then" goes on with the next one; a step that fails ends the
   sequence, and the roll-back of a roll-back is not told of failures. *)
At(s) == ins.at = s
Then(s) == ins' = [ins EXCEPT !.at = s]
Fails(s) ==
    /\ suCount.faults < MaxSetupFaults /\ suCount' = [suCount EXCEPT !.faults = @ + 1]
    /\ ins' = [ins EXCEPT !.ok = FALSE, !.at = s]
Migration == ins.upgrade /\ ins.installed = 1
Uninstalling == ins.kind = "uninstall" \/ ins.rollback
\* Where a failure leads.
Failed == IF Uninstalling THEN "ended" ELSE "finish"

\* The driver is asked whether the system is encrypted, whether volumes are
\* mounted and whether other programs use it.
SystemRefuses ==
    /\ computer.svc = "boot"
    /\ \/ ins.kind = "uninstall" /\ computer.sysEnc
       \/ ins.kind = "install" /\ ~ins.rollback /\ ins.downgrade
DriverFlags(i) ==
    LET d == DetermineUpgradeDowngradeStatus(i)
        sys == d.sysUpdate \/ (computer.svc = "boot" /\ ins.kind = "install")
        e == [d EXCEPT !.sysUpdate = sys, !.portable = @ /\ ~sys]
        f == [e EXCEPT !.unload = IF ~Uninstalling /\ (e.upgrade \/ e.sysUpdate) THEN FALSE ELSE @]
    IN [f EXCEPT !.unload = IF f.portable /\ ~f.sysUpdate THEN TRUE ELSE @]
DoDriverUnload ==
    /\ At("unload")
    /\ LET i == DriverFlags(ins)
           refused == SystemRefuses \/ (computer.busy /\ (i.unload \/ ~i.upgrade))
       IN IF computer.loaded = NoVersion THEN Then("stop") /\ UNCHANGED computer
          ELSE IF refused
          THEN ins' = [ins EXCEPT !.ok = FALSE, !.at = IF Uninstalling THEN "ended" ELSE "failed"] /\ UNCHANGED computer
          ELSE /\ ins' = [i EXCEPT !.at = "inUse", !.handle = ~i.unload]
               /\ computer' = IF ins.kind = "uninstall" /\ computer.svc = "boot"
                        THEN [computer EXCEPT !.filter = FALSE, !.dump = FALSE, !.svc = "system"] ELSE computer
    /\ UNCHANGED <<before, suLog, suCount>>
IsFileInUse ==
    /\ At("inUse")
    /\ IF ~Uninstalling /\ ins.upgrade /\ computer.busy
       THEN ins' = [ins EXCEPT !.ok = FALSE, !.at = "failed"]
       ELSE Then("stop")
    /\ UNCHANGED <<computer, before, suLog, suCount>>
\* The keys are removed before they are written anew, unless the system is encrypted;
\* there the dump filter of an old version is exchanged.
RemoveDeprecated ==
    /\ At("stop") /\ ~Uninstalling
    /\ \/ /\ computer' = [computer EXCEPT !.reg = IF ins.sysUpdate THEN @ ELSE NoVersion,
                              !.dump = IF ins.sysUpdate /\ ins.installed = 1 THEN TRUE ELSE @]
          /\ Then("service") /\ UNCHANGED suCount
       \/ /\ ins.sysUpdate /\ ins.installed = 1
          /\ computer' = [computer EXCEPT !.dump = FALSE] /\ Fails("failed")
    /\ UNCHANGED <<before, suLog>>

\* The service is stopped, if it can be, and deleted; it remains marked while
\* the driver runs.  A portable driver's service is marked already.
ServiceDeleted ==
    LET p == IF computer.svc = "boot" THEN [computer EXCEPT !.filter = FALSE, !.dump = FALSE] ELSE computer
        runs == p.loaded # NoVersion /\ (p.busy \/ ins.handle)
    IN [p EXCEPT !.svc = IF runs THEN "marked" ELSE "none", !.loaded = IF runs THEN @ ELSE NoVersion,
                 !.portable = @ /\ runs]
DoServiceUninstall ==
    /\ \/ At("service") /\ (ins.unload \/ Uninstalling)
       \/ At("stop") /\ Uninstalling
    /\ \/ computer' = (IF computer.svc = "none" THEN computer ELSE ServiceDeleted) /\ Then("files") /\ UNCHANGED suCount
       \/ computer.svc # "none" /\ Fails(Failed) /\ UNCHANGED computer
    /\ UNCHANGED <<before, suLog>>
SkipService ==
    /\ At("service") /\ ~ins.unload /\ ~Uninstalling /\ Then("files") /\ UNCHANGED <<computer, before, suLog, suCount>>

\* The package is checked and unpacked in memory before the first file is written.
SelfExtractInMemory ==
    /\ At("files") /\ ~Uninstalling
    /\ (Then("programs") /\ UNCHANGED suCount) \/ Fails(Failed)
    /\ UNCHANGED <<computer, before, suLog>>
\* The user may go on after a file that could not be written.
FileWrite(next, written, broken) ==
    \/ computer' = written /\ Then(next) /\ UNCHANGED <<suCount, suLog>>
    \/ computer' = broken /\ Fails(Failed) /\ UNCHANGED suLog
    \/ /\ suCount.faults < MaxSetupFaults /\ suCount' = [suCount EXCEPT !.faults = @ + 1]
       /\ computer' = broken /\ Then(next) /\ suLog' = suLog \cup {"ignored"}
InstallPrograms ==
    /\ At("programs") /\ FileWrite("driverOpen", [computer EXCEPT !.files = This], computer) /\ UNCHANGED before
\* The driver's file is created empty and then written.
OpenDriverFile ==
    /\ At("driverOpen") /\ FileWrite("driverWrite", [computer EXCEPT !.drvFile = 9], computer) /\ UNCHANGED before
WriteDriverFile ==
    /\ At("driverWrite")
    /\ IF computer.drvFile = 9 THEN FileWrite("reg", [computer EXCEPT !.drvFile = This], computer)
       ELSE Then("reg") /\ UNCHANGED <<computer, suLog, suCount>>
    /\ UNCHANGED before
\* The folder that is emptied is the one of the version that was installed.
RemoveFiles ==
    /\ At("files") /\ Uninstalling
    /\ computer' = [computer EXCEPT !.reg = NoVersion, !.files = IF ins.rollback /\ Migration THEN @ ELSE NoVersion, !.drvFile = NoVersion]
    /\ Then("links") /\ UNCHANGED <<before, suLog, suCount>>

DoRegInstall ==
    /\ At("reg")
    /\ \/ computer' = [computer EXCEPT !.reg = This] /\ Then("driver") /\ UNCHANGED suCount
       \/ (~ins.sysUpdate \/ Migration) /\ Fails(Failed) /\ UNCHANGED computer
    /\ UNCHANGED <<before, suLog>>
\* A service that is still marked for deletion cannot be created.
DoDriverInstall ==
    /\ At("driver") /\ ins.unload
    /\ \/ /\ computer.svc = "none" /\ computer.drvFile \in 1 .. 3
          /\ computer' = [computer EXCEPT !.svc = "system", !.loaded = computer.drvFile] /\ Then("loader") /\ UNCHANGED suCount
       \/ /\ computer.svc # "none" \/ computer.drvFile \notin 1 .. 3
          /\ ins' = [ins EXCEPT !.ok = FALSE, !.at = Failed]
          /\ computer' = IF computer.svc = "none" THEN [computer EXCEPT !.svc = "system"] ELSE computer
          /\ UNCHANGED suCount
       \/ Fails(Failed) /\ UNCHANGED computer
    /\ UNCHANGED <<before, suLog>>
SkipDriver == At("driver") /\ ~ins.unload /\ Then("loader") /\ UNCHANGED <<computer, before, suLog, suCount>>
UpgradeBootLoader ==
    /\ At("loader")
    /\ \/ /\ computer' = IF ins.sysUpdate /\ computer.loader < This THEN [computer EXCEPT !.loader = This] ELSE computer
          /\ Then("links") /\ UNCHANGED suCount
       \/ ins.sysUpdate /\ computer.loader < This /\ Fails(Failed) /\ UNCHANGED computer
    /\ UNCHANGED <<before, suLog>>
DoShortcutsInstall ==
    /\ At("links") /\ ~Uninstalling
    /\ (computer' = [computer EXCEPT !.links = This] /\ Then("migrate") /\ UNCHANGED suCount) \/ (Fails(Failed) /\ UNCHANGED computer)
    /\ UNCHANGED <<before, suLog>>
\* The files and shortcuts of TrueCrypt are removed, as far as they can be.
MigrateTrueCrypt ==
    /\ At("migrate")
    /\ computer' = [computer EXCEPT !.legacy = @ /\ ~Migration] \/ UNCHANGED computer
    /\ Then("finish") /\ UNCHANGED <<before, suLog, suCount>>
DoShortcutsUninstall ==
    /\ At("links") /\ Uninstalling
    /\ (computer' = [computer EXCEPT !.links = NoVersion] /\ Then("data") /\ UNCHANGED suCount) \/ (Fails("ended") /\ UNCHANGED computer)
    /\ UNCHANGED <<before, suLog>>
\* The files of the user's settings are deleted; the folder may hold others.
DoApplicationDataUninstall ==
    /\ At("data") /\ computer' = [computer EXCEPT !.data = FALSE]
    /\ (Then("ended") /\ UNCHANGED suCount) \/ Fails("ended")
    /\ UNCHANGED <<before, suLog>>

\* The end of DoInstall: a failure is rolled back by uninstalling, but not
\* where the system is encrypted; there it is warned of.
FinishInstall ==
    /\ At("finish")
    /\ LET i == [ins EXCEPT !.restart = @ \/ ~ins.unload]
       IN IF ins.ok THEN ins' = [i EXCEPT !.at = "done"] /\ UNCHANGED suLog
          ELSE IF ins.sysUpdate
          THEN ins' = [i EXCEPT !.at = "failed"] /\ suLog' = suLog \cup {"warned"}
          ELSE ins' = [i EXCEPT !.rollback = TRUE, !.at = "unload"] /\ UNCHANGED suLog
    /\ UNCHANGED <<computer, before, suCount>>
\* The end of DoUninstall.
FinishUninstall ==
    /\ At("ended")
    /\ ins' = [ins EXCEPT !.at = IF ins.rollback \/ ~ins.ok THEN "failed" ELSE "done"]
    /\ suLog' = IF ins.rollback THEN suLog \cup {"rolledBack"} ELSE suLog
    /\ UNCHANGED <<computer, before, suCount>>

SuNext ==
    \/ UserActivity \/ ComputerStops \/ CloseWizard
    \/ \E k \in {"install", "uninstall"} : StartWizard(k)
    \/ DoDriverUnload \/ IsFileInUse \/ RemoveDeprecated \/ DoServiceUninstall \/ SkipService
    \/ SelfExtractInMemory \/ InstallPrograms \/ OpenDriverFile \/ WriteDriverFile \/ RemoveFiles
    \/ DoRegInstall \/ DoDriverInstall \/ SkipDriver \/ UpgradeBootLoader
    \/ DoShortcutsInstall \/ MigrateTrueCrypt \/ DoShortcutsUninstall \/ DoApplicationDataUninstall
    \/ FinishInstall \/ FinishUninstall
SuSpec == SuInit /\ [][SuNext]_suVars

-----------------------------------------------------------------------------
\* Whatever fails and wherever the computer stops, the installer never takes
\* the boot driver, its filter or its file from an encrypted system, unless
\* the write of that very file was cut short, or failed and the user was told.
BootDriverKept ==
    computer.sysEnc => /\ computer.svc = "boot" /\ computer.filter
                 /\ \/ computer.drvFile \in 1 .. 3
                    \/ ins.at \in {"driverWrite", "finish"}
                    \/ suLog \cap {"cut", "ignored", "warned"} # {}

\* The boot loader of an encrypted system is upgraded only when the new driver,
\* which reads what it hands over, is in place.
LoaderNotNewer ==
    computer.sysEnc /\ computer.loader = This /\ before.loader # This => computer.drvFile = This \/ suLog \cap {"cut", "ignored"} # {}

\* "Successfully installed": programs, keys and shortcuts are the new ones, and
\* the new driver runs or will run after the restart that is asked for.  The
\* exception: a driver that a rolled-back upgrade left running keeps a service
\* marked for deletion, which the next attempt takes for a sound one.
SuccessMeansInstalled ==
    ins.at = "done" /\ ins.kind = "install" /\ suLog \cap {"ignored", "cut"} = {} =>
        /\ computer.files = This /\ computer.reg = This /\ computer.links = This /\ computer.drvFile = This
        /\ computer.loaded = This \/ ins.restart
        /\ computer.svc \in {"system", "boot"} \/ (before.svc = "marked" /\ ~before.portable)

\* "Successfully uninstalled": nothing is left but a driver that ends with the session.
UninstalledMeansGone ==
    ins.at = "done" /\ ins.kind = "uninstall" =>
        /\ computer.svc \in {"none", "marked"} /\ ~computer.filter /\ ~computer.data
        /\ computer.files = NoVersion /\ computer.drvFile = NoVersion /\ computer.reg = NoVersion /\ computer.links = NoVersion

\* "The installation has been rolled back": the computer is as it was before.
RolledBack ==
    ins.at = "failed" /\ "rolledBack" \in suLog =>
        <<computer.files, computer.svc, computer.data>> = <<before.files, before.svc, before.data>>

(* The installer: what an encrypted system needs to boot stays, success and removal
   are what they say. *)
SetupSound == BootDriverKept /\ LoaderNotNewer /\ SuccessMeansInstalled /\ UninstalledMeansGone
=============================================================================
