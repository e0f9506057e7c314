-------------------------- MODULE SystemEncryption --------------------------
(***************************************************************************)
(* The encryption of the system drive from the first restart on: the       *)
(* wizard that starts, resumes and ends it (Format/Tcformat.c), what it    *)
(* installs and removes (Common/BootEncryption.cpp), the commands of the   *)
(* main program (Mount/Mount.c), the boot loader and the rescue disk       *)
(* (Boot/Windows/BootMain.cpp), and the creation of a hidden system.       *)
(*                                                                         *)
(* The computer may stop between any two writes.  The wizard's writes are  *)
(* therefore a list that is worked off one by one.                         *)
(***************************************************************************)
EXTENDS Naturals, Sequences

CONSTANTS
    SysUnits,         \* units of the area to be encrypted, the system partition the last
    MaxBoots,         \* bound: starts of the computer
    MaxSysFaults      \* bound: writes or set-ups that fail, and crashes of the wizard

ASSUME SysAssumption == SysUnits \in Nat

VARIABLES
    sysDrive,             \* the first track: mbr, hdr, phase, crc; area encrypted;
                      \* clone: the hidden system is complete; orig: the original system is intact
    whole,            \* the drive is to be encrypted, not only the partition
    conf,             \* of both systems: configuration file, startup sequence, filters registered
    run,              \* system that runs, filter active, drive mounted, set-up in the driver
    wiz,              \* the wizard: page, SystemEncryptionStatus, writes to do
    sysCount,         \* counters of starts and faults
    odd               \* history: see the properties

sysVars == <<sysDrive, whole, conf, run, wiz, sysCount, odd>>

Systems == {"main", "hidden"}
NoConf == [cfg |-> "none", startup |-> FALSE, filter |-> FALSE]
Off == [os |-> "off", active |-> FALSE, mounted |-> FALSE, setup |-> "off"]
NoWizard == [at |-> "off", cmd |-> "none", status |-> "none", dirty |-> FALSE, inprog |-> FALSE, todo |-> <<>>]

SysInit ==
    /\ sysDrive = [mbr |-> "sys", hdr |-> FALSE, phase |-> "none", crc |-> FALSE, area |-> 0,
               clone |-> FALSE, orig |-> TRUE]
    /\ whole \in BOOLEAN
    /\ conf = [s \in Systems |-> NoConf]
    /\ run = Off /\ wiz = NoWizard
    /\ sysCount = [boots |-> 0, faults |-> 0] /\ odd = {}

\* The system partition can only be read with the keys.
SysCovered == sysDrive.area = SysUnits \/ (~whole /\ sysDrive.area > 0)

-----------------------------------------------------------------------------
(* The boot loader.  A phase of the creation of a hidden system prevents the
   normal system from being booted with the password. *)
Boots == run.os = "off" /\ sysCount.boots < MaxBoots
Booted(s, mounted) ==
    /\ run' = [os |-> s, active |-> conf[s].filter, mounted |-> mounted /\ conf[s].filter, setup |-> "off"]
    /\ sysCount' = [sysCount EXCEPT !.boots = @ + 1] /\ UNCHANGED <<sysDrive, whole, conf, wiz, odd>>
PreventNormalSystemBoot == sysDrive.phase # "none"
BootEncryptedDrive ==
    /\ Boots /\ sysDrive.mbr = "cs"
    /\ \/ /\ sysDrive.hdr /\ sysDrive.orig /\ ~PreventNormalSystemBoot
          /\ SysCovered => conf["main"].filter
          /\ Booted("main", TRUE)
       \/ sysDrive.clone /\ sysDrive.phase # "cloning" /\ Booted("hidden", TRUE)
\* Esc, or the loader of the system.
BootMenu == Boots /\ sysDrive.orig /\ ~SysCovered /\ Booted("main", FALSE)
CopySystemPartitionToHiddenVolume(done) ==
    /\ run.os = "off" /\ sysDrive.mbr = "cs" /\ sysDrive.phase = "cloning" /\ sysDrive.crc /\ sysDrive.orig
    /\ sysDrive' = [sysDrive EXCEPT !.clone = done, !.phase = IF done THEN "wiping" ELSE @]
    /\ conf' = [conf EXCEPT !["hidden"] = conf["main"]]
    /\ UNCHANGED <<whole, run, wiz, sysCount, odd>>

\* The rescue disk.
Rescue(d) == run.os = "off" /\ sysDrive' = d /\ sysDrive' # sysDrive /\ odd' = odd \cup {"rescue"}
             /\ UNCHANGED <<whole, conf, run, wiz, sysCount>>
DecryptDrive == sysDrive.hdr /\ \E n \in 0 .. sysDrive.area : Rescue([sysDrive EXCEPT !.area = n])
RestoreLoader == sysDrive.hdr /\ Rescue([sysDrive EXCEPT !.mbr = "cs", !.phase = "none", !.crc = FALSE])
RestoreOriginal == sysDrive.area = 0 /\ sysDrive.hdr
                   /\ Rescue([sysDrive EXCEPT !.mbr = "sys", !.hdr = FALSE, !.phase = "none", !.crc = FALSE])

\* What tells of the process is about to be written.
SettingsPending ==
    \E i \in DOMAIN wiz.todo : wiz.todo[i].do = "write" \/ (wiz.todo[i].do = "startup" /\ wiz.todo[i].v)
\* The computer is restarted, or stops: what the wizard had not written is lost.
Restart ==
    /\ run.os # "off" /\ run' = Off /\ wiz' = NoWizard
    /\ odd' = IF SettingsPending THEN odd \cup {"cut"} ELSE odd
    /\ UNCHANGED <<sysDrive, whole, conf, sysCount>>
\* The user installs a decoy system where the original was wiped.
InstallDecoySystem ==
    /\ run.os = "off" /\ sysDrive.phase = "wiped" /\ ~sysDrive.orig
    /\ sysDrive' = [sysDrive EXCEPT !.mbr = "sys", !.hdr = FALSE, !.phase = "none", !.crc = FALSE, !.area = 0, !.orig = TRUE]
    /\ conf' = [conf EXCEPT !["main"] = NoConf]
    /\ UNCHANGED <<whole, run, wiz, sysCount, odd>>

-----------------------------------------------------------------------------
(* The driver: set-up as seen from user space, and the status it reports.  A
   hidden system is fully encrypted from the start.  Nothing is known of a
   drive that is not mounted: all its fields are zero. *)
Hidden == run.os = "hidden"
DriveEncrypted == run.mounted /\ (Hidden \/ sysDrive.area > 0)
AreaAsConfigured == run.mounted => Hidden \/ sysDrive.area = SysUnits
Configured == run.mounted
DriverStep ==
    /\ \/ /\ run.setup = "enc"
          /\ sysDrive' = [sysDrive EXCEPT !.area = IF @ < SysUnits THEN @ + 1 ELSE @]
          /\ run' = IF sysDrive'.area = SysUnits THEN [run EXCEPT !.setup = "off"] ELSE run
       \/ /\ run.setup = "dec"
          /\ sysDrive' = [sysDrive EXCEPT !.area = IF @ > 0 THEN @ - 1 ELSE @, !.hdr = sysDrive.area > 1]
          /\ run' = IF sysDrive'.area = 0 THEN [run EXCEPT !.setup = "off", !.mounted = FALSE] ELSE run
       \/ run.setup = "wipe" /\ run' = [run EXCEPT !.setup = "wiped"] /\ UNCHANGED sysDrive
    /\ UNCHANGED <<whole, conf, wiz, sysCount, odd>>
SetupFails ==
    /\ run.setup \in {"enc", "dec"} /\ sysCount.faults < MaxSysFaults
    /\ run' = [run EXCEPT !.setup = "off"] /\ sysCount' = [sysCount EXCEPT !.faults = @ + 1]
    /\ UNCHANGED <<sysDrive, whole, conf, wiz, odd>>

-----------------------------------------------------------------------------
(* The writes of the wizard; "no" is what it still does when the write fails. *)
W(d, v, no) == [do |-> d, v |-> v, no |-> no]
Page(p) == <<W("page", p, <<>>)>>
WipeHiddenOSCreationConfig == IF Hidden THEN <<>> ELSE <<W("random", "none", <<>>), W("phase", "none", <<>>)>>
Save(s, no) == IF s = "none" THEN <<W("remove", s, no)>> ELSE <<W("open", s, no), W("write", s, no)>>
ChangeSystemEncryptionStatus(s, no) ==
    <<W("status", s, <<>>)>>
    \o (IF s = "none" /\ ~Hidden THEN <<W("phaseNone", "none", no)>> ELSE <<>>)
    \o (IF s \in {"none", "enc"} THEN WipeHiddenOSCreationConfig ELSE <<>>) \o Save(s, no)
ManageStartupSeqWiz(on) == <<W("startup", on, <<>>)>>
\* Deinstall refuses a drive that is mounted.
Deinstall(no) ==
    IF run.mounted THEN no
    ELSE <<W("filter", FALSE, <<W("filter", TRUE, no)>> \o no), W("phaseNone", "none", no), W("restore", "none", no)>>
\* EndMainDlg saves once more what could not be saved.
SaveAgain == Save("none", Page("off")) \o Page("off")
Ended(no) == ManageStartupSeqWiz(FALSE) \o ChangeSystemEncryptionStatus("none", no)

Ready == wiz.at # "off" /\ wiz.todo = <<>>
Cur == Head(wiz.todo)
\* What the write does to the sysDrive and to the configuration of the running system.
DriveAfter(o) ==
    CASE o.do = "loader" -> [sysDrive EXCEPT !.mbr = "cs", !.phase = "none", !.crc = o.v]
      [] o.do = "header" -> [sysDrive EXCEPT !.hdr = TRUE, !.area = 0]
      [] o.do = "restore" -> [sysDrive EXCEPT !.mbr = "sys", !.hdr = FALSE, !.phase = "none", !.crc = FALSE]
      [] o.do \in {"phase", "phaseNone"} -> [sysDrive EXCEPT !.phase = o.v]
      [] OTHER -> sysDrive
ConfWritten(o) ==
    CASE o.do = "filter" -> [conf EXCEPT ![run.os].filter = o.v]
      [] o.do = "startup" -> [conf EXCEPT ![run.os].startup = o.v]
      [] o.do \in {"open", "remove"} -> [conf EXCEPT ![run.os].cfg = "none"]
      [] o.do = "write" -> [conf EXCEPT ![run.os].cfg = o.v]
      [] OTHER -> conf
WizWritten(o) ==
    CASE o.do = "page" -> [wiz EXCEPT !.at = o.v]
      [] o.do = "status" -> [wiz EXCEPT !.status = o.v, !.dirty = TRUE]
      [] o.do \in {"write", "remove"} -> [wiz EXCEPT !.dirty = FALSE]
      [] OTHER -> wiz
Write ==
    /\ wiz.todo # <<>>
    /\ \/ Cur.do # "random" /\ sysDrive' = DriveAfter(Cur)
       \/ Cur.do = "random" /\ \E p \in {"none", "cloning", "wiping", "wiped"} :
             sysDrive' = [sysDrive EXCEPT !.phase = p, !.crc = FALSE]
    /\ conf' = ConfWritten(Cur)
    /\ wiz' = [WizWritten(Cur) EXCEPT !.todo = Tail(@)]
    /\ odd' = IF (Cur.do = "restore" \/ (Cur.do = "filter" /\ Cur.v = FALSE)) /\ sysDrive.area > 0 THEN odd \cup {"blind"} ELSE odd
    /\ UNCHANGED <<whole, run, sysCount>>
SetupWriteFails ==
    /\ wiz.todo # <<>> /\ sysCount.faults < MaxSysFaults
    /\ Cur.do \notin {"page", "status"} /\ (Cur.do = "phaseNone" => sysDrive.phase # "none")
    /\ wiz' = [wiz EXCEPT !.todo = IF Cur.do \in {"startup", "random", "phase"} /\ Cur.no = <<>> THEN Tail(@) ELSE Cur.no]
    /\ sysCount' = [sysCount EXCEPT !.faults = @ + 1]
    /\ UNCHANGED <<sysDrive, whole, conf, run, odd>>

-----------------------------------------------------------------------------
(* The commands of the main program and the startup sequence. *)
SysEncryptionOrDecryptionRequired(s) ==
    s \in {"enc", "dec"} \/ (Configured /\ ~AreaAsConfigured)
FullyEncrypted == run.setup = "off" /\ Configured /\ AreaAsConfigured
EncryptSystemDevice == SysEncryptionOrDecryptionRequired(conf[run.os].cfg) \/ (~DriveEncrypted /\ ~run.mounted)
DecryptSystemDevice ==
    ~Hidden /\ (run.mounted \/ run.active \/ SysEncryptionOrDecryptionRequired(conf[run.os].cfg))
StartSysWizard(c) ==
    /\ run.os # "off" /\ wiz.at = "off"
    /\ c = "startup" => conf[run.os].startup
    /\ c = "encrypt" => EncryptSystemDevice
    /\ c = "decrypt" => DecryptSystemDevice
    /\ wiz' = [NoWizard EXCEPT !.at = "init", !.cmd = c, !.status = conf[run.os].cfg]
    /\ run' = IF c = "decrypt" /\ run.setup \in {"enc", "dec"} THEN [run EXCEPT !.setup = "off"] ELSE run
    /\ UNCHANGED <<sysDrive, whole, conf, sysCount, odd>>

Goes(page, writes) ==
    /\ wiz' = [wiz EXCEPT !.at = page, !.todo = writes, !.cmd = "none"]
    /\ UNCHANGED <<sysDrive, whole, conf, run, sysCount, odd>>
EndMainDlg == Goes("end", (IF wiz.dirty THEN Save(wiz.status, Page("off")) ELSE <<>>) \o Page("off"))

(* AfterWMInitTasks *)
AtInit == wiz.at = "init" /\ Ready
InitDecrypt ==
    /\ AtInit /\ wiz.cmd = "decrypt"
    /\ Goes("page", ManageStartupSeqWiz(TRUE) \o ChangeSystemEncryptionStatus("dec", <<>>))
InProcess == wiz.status \in {"enc", "dec"}
Unauthenticated == InProcess /\ ~run.mounted
InitInconsistent ==
    /\ AtInit /\ wiz.cmd # "decrypt" /\ Unauthenticated /\ ~run.active
    /\ Goes("end", Ended(SaveAgain) \o Page("off"))
InitNotAuthenticated == AtInit /\ wiz.cmd \notin {"decrypt", "user"} /\ Unauthenticated /\ run.active /\ EndMainDlg
PastChecks == AtInit /\ (Unauthenticated => run.active /\ wiz.cmd = "user")
ResolveUnknownSysEncDirection ==
    \E s \in IF run.setup \in {"enc", "dec"} THEN {run.setup} ELSE {"enc", "dec"} :
        Goes("page", ChangeSystemEncryptionStatus(s, Page("off")))
InitResume ==
    /\ PastChecks /\ wiz.status # "pretest" /\ wiz.cmd \in {"resume", "startup"}
    /\ IF ~SysEncryptionOrDecryptionRequired(wiz.status) THEN EndMainDlg
       ELSE \/ EndMainDlg
            \/ InProcess /\ Goes("page", <<>>)
            \/ ~InProcess /\ ResolveUnknownSysEncDirection
\* SwitchWizardToSysEncMode
SwitchToSysEncMode ==
    IF run.setup \in {"enc", "dec"} \/ run.mounted \/ SysEncryptionOrDecryptionRequired(wiz.status) THEN
        \/ EndMainDlg
        \/ ~FullyEncrypted /\ InProcess /\ Goes("page", <<>>)
        \/ ~FullyEncrypted /\ ~InProcess /\ ResolveUnknownSysEncDirection
    ELSE Goes("prep", <<>>)
InitEncrypt ==
    /\ PastChecks /\ wiz.status # "pretest" /\ wiz.cmd = "encrypt"
    /\ IF FullyEncrypted THEN EndMainDlg
       ELSE IF SysEncryptionOrDecryptionRequired(wiz.status)
            THEN Goes("page", ChangeSystemEncryptionStatus("enc", <<>>))
       ELSE SwitchToSysEncMode
\* Mutant of ForceRemoveSysEnc: also an encrypted drive loses its header.
ForceRemoveAnyDrive ==
    /\ run.mounted /\ run.setup = "off"
    /\ sysDrive' = [sysDrive EXCEPT !.hdr = FALSE] /\ run' = [run EXCEPT !.mounted = FALSE]
    /\ wiz' = [wiz EXCEPT !.at = "intro", !.cmd = "none"] /\ UNCHANGED <<whole, conf, sysCount, odd>>

\* ForceRemoveSysEnc: the decryption of a drive that is not encrypted removes the header.
ForceRemoveSysEnc ==
    /\ run.mounted /\ ~DriveEncrypted /\ run.setup = "off"
    /\ sysDrive' = [sysDrive EXCEPT !.hdr = FALSE]
    /\ run' = [run EXCEPT !.mounted = FALSE]
    /\ wiz' = [wiz EXCEPT !.at = "intro", !.cmd = "none",
                          !.todo = <<W("filter", FALSE, <<W("filter", TRUE, <<>>)>>), W("phaseNone", "none", <<>>), W("restore", "none", <<>>)>>]
    /\ UNCHANGED <<whole, conf, sysCount, odd>>
InitByUser ==
    /\ PastChecks /\ wiz.cmd = "user"
    /\ \/ InProcess /\ Goes("page", <<>>)
       \/ InProcess /\ Goes("intro", <<>>)
       \/ wiz.status = "none" /\ ForceRemoveSysEnc
       \/ wiz.status = "none" /\ ~(run.mounted /\ ~DriveEncrypted) /\ Goes("intro", <<>>)
IntroSysEnc == wiz.at = "intro" /\ Ready /\ SwitchToSysEncMode

\* The pretest, or a phase of the creation of a hidden system.
AtPretest == AtInit /\ wiz.cmd # "decrypt" /\ wiz.status = "pretest"
PretestPassed ==
    /\ AtPretest /\ run.mounted
    /\ CASE sysDrive.phase = "none" /\ Hidden -> Goes("end", Ended(SaveAgain) \o Page("off"))
         [] sysDrive.phase = "none" /\ ~Hidden -> Goes("result", <<>>)
         [] sysDrive.phase = "wiping" -> Goes("info", <<>>)
         [] OTHER -> EndMainDlg
PretestRetry == AtPretest /\ ~run.mounted /\ Goes("end", <<W("filter", TRUE, Page("off"))>> \o Page("off"))
PretestTerminate ==
    /\ AtPretest /\ ~run.mounted
    /\ Goes("end", Deinstall(Page("off")) \o Ended(SaveAgain) \o Page("off"))
PretestLater == AtPretest /\ ~run.mounted /\ sysDrive.phase # "none" /\ Goes("off", <<>>)

-----------------------------------------------------------------------------
(* SYSENC_PRETEST_INFO_PAGE: Install, and the pretest or the cloning will follow. *)
Install(hiddenOS, then) ==
    LET no == <<W("restore", "none", Page("prep"))>> \o Page("prep")
    IN <<W("loader", hiddenOS, no)>> \o (IF hiddenOS THEN <<>> ELSE <<W("header", "none", no)>>)
       \o <<W("filter", TRUE, no)>> \o then
SysPretestNext(hiddenOS) ==
    LET no == IF hiddenOS THEN ChangeSystemEncryptionStatus("none", Page("prep")) \o Page("prep") ELSE Page("prep")
    IN /\ wiz.at = "prep" /\ Ready /\ ~run.mounted
       /\ Goes("end", Install(hiddenOS,
                 ChangeSystemEncryptionStatus("pretest", no)
                 \o (IF hiddenOS THEN <<W("phase", "cloning", no)>> ELSE <<>>)
                 \o ManageStartupSeqWiz(TRUE) \o Page("off")))
\* SYSENC_PRETEST_RESULT_PAGE
PretestResultNext == wiz.at = "result" /\ Ready /\ Goes("page", ChangeSystemEncryptionStatus("enc", <<>>))
Cancel == wiz.at \in {"intro", "prep", "info"} /\ Ready /\ EndMainDlg

-----------------------------------------------------------------------------
(* SYSENC_ENCRYPTION_PAGE *)
\* StartBootEncryptionSetup: the driver refuses a drive that is not mounted, and a hidden system.
SetupAccepted == run.mounted /\ ~Hidden
SysEncResume ==
    LET underWay == run.setup \in {"enc", "dec"}
        starts == ~underWay /\ wiz.status \in {"enc", "dec"} /\ run.active /\ SetupAccepted
        \* if the drive is not mounted, just deinstall
        goes == underWay \/ starts \/ (wiz.status = "dec" /\ ~run.mounted)
    IN /\ run' = IF starts THEN [run EXCEPT !.setup = wiz.status] ELSE run
       /\ wiz' = [wiz EXCEPT !.at = "progress", !.inprog = goes]
       /\ UNCHANGED <<sysDrive, whole, conf, sysCount, odd>>
\* The drive is reported as fully encrypted.
Finished(at) ==
    /\ wiz' = [wiz EXCEPT !.at = "end", !.inprog = FALSE,
                          !.todo = ManageStartupSeqWiz(FALSE) \o WipeHiddenOSCreationConfig
                                   \o ChangeSystemEncryptionStatus("none", IF at = "off" THEN SaveAgain ELSE Page(at))
                                   \o Page(at)]
    /\ odd' = IF sysDrive.area < SysUnits THEN odd \cup {"toldFull"} ELSE odd
    /\ UNCHANGED <<sysDrive, whole, conf, run, sysCount>>
AfterSysEncProgressWMInitTasks ==
    /\ wiz.at = "page" /\ Ready
    /\ IF wiz.status = "enc" /\ AreaAsConfigured THEN Finished("off") ELSE SysEncResume
TimerSysEncProgress ==
    /\ wiz.at = "progress" /\ Ready /\ wiz.inprog /\ run.setup = "off"
    /\ IF wiz.status = "enc" /\ AreaAsConfigured THEN Finished("progress")
       ELSE /\ wiz' = [wiz EXCEPT !.inprog = FALSE,
                       !.todo = IF wiz.status = "dec" /\ ~DriveEncrypted
                                THEN Deinstall(Ended(<<>>)) \o (IF run.mounted THEN <<>> ELSE Ended(<<>>)) ELSE <<>>]
            /\ UNCHANGED <<sysDrive, whole, conf, run, sysCount, odd>>
SysEncPause ==
    /\ wiz.at = "progress" /\ Ready /\ run.setup \in {"enc", "dec"}
    /\ run' = [run EXCEPT !.setup = "off"] /\ UNCHANGED <<sysDrive, whole, conf, wiz, sysCount, odd>>
EncryptionNext ==
    /\ wiz.at = "progress" /\ Ready /\ ~wiz.inprog
    /\ IF wiz.status # "none" THEN SysEncResume ELSE EndMainDlg
\* The user defers the process.
Defer ==
    /\ wiz.at \in {"progress", "result"} /\ Ready /\ wiz.status # "none"
    /\ run' = [run EXCEPT !.setup = IF @ \in {"enc", "dec"} THEN "off" ELSE @]
    /\ wiz' = [wiz EXCEPT !.at = "end", !.todo = (IF wiz.dirty THEN Save(wiz.status, Page("off")) ELSE <<>>) \o Page("off")]
    /\ UNCHANGED <<sysDrive, whole, conf, sysCount, odd>>
\* The process of the wizard ends by itself; the driver goes on.
WizardCrashes ==
    /\ wiz.at # "off" /\ sysCount.faults < MaxSysFaults
    /\ wiz' = NoWizard /\ odd' = IF SettingsPending THEN odd \cup {"cut"} ELSE odd
    /\ sysCount' = [sysCount EXCEPT !.faults = @ + 1]
    /\ UNCHANGED <<sysDrive, whole, conf, run>>

-----------------------------------------------------------------------------
(* The hidden system wipes the original one. *)
WipeStart ==
    /\ wiz.at \in {"info", "wipe"} /\ Ready /\ Hidden /\ run.setup = "off"
    /\ run' = [run EXCEPT !.setup = "wipe"] /\ sysDrive' = [sysDrive EXCEPT !.orig = FALSE]
    /\ wiz' = [wiz EXCEPT !.at = "wipe", !.inprog = TRUE]
    /\ UNCHANGED <<whole, conf, sysCount, odd>>
WipeAbort ==
    /\ wiz.at = "wipe" /\ Ready /\ run.setup = "wipe" /\ run' = [run EXCEPT !.setup = "off"]
    /\ wiz' = [wiz EXCEPT !.inprog = FALSE] /\ UNCHANGED <<sysDrive, whole, conf, sysCount, odd>>
TimerWipeProgress ==
    /\ wiz.at = "wipe" /\ Ready /\ wiz.inprog /\ run.setup = "wiped"
    /\ run' = [run EXCEPT !.setup = "off"]
    /\ wiz' = [wiz EXCEPT !.inprog = FALSE, !.at = "end", !.todo = <<W("phase", "wiped", Page("off"))>> \o Page("off")]
    /\ UNCHANGED <<sysDrive, whole, conf, sysCount, odd>>

SysNext ==
    \/ BootEncryptedDrive \/ BootMenu \/ Restart \/ InstallDecoySystem
    \/ \E done \in BOOLEAN : CopySystemPartitionToHiddenVolume(done)
    \/ DecryptDrive \/ RestoreLoader \/ RestoreOriginal
    \/ DriverStep \/ SetupFails \/ Write \/ SetupWriteFails
    \/ \E c \in {"startup", "user", "resume", "encrypt", "decrypt"} : StartSysWizard(c)
    \/ InitDecrypt \/ InitInconsistent \/ InitNotAuthenticated \/ InitResume \/ InitEncrypt \/ InitByUser
    \/ IntroSysEnc \/ PretestPassed \/ PretestRetry \/ PretestTerminate \/ PretestLater
    \/ \E hiddenOS \in BOOLEAN : SysPretestNext(hiddenOS)
    \/ PretestResultNext \/ Cancel \/ AfterSysEncProgressWMInitTasks \/ TimerSysEncProgress
    \/ SysEncPause \/ EncryptionNext \/ Defer \/ WizardCrashes
    \/ WipeStart \/ WipeAbort \/ TimerWipeProgress

SysSpec == SysInit /\ [][SysNext]_sysVars
\* The driver's thread runs, the wizard's message loop runs.
SysFairness == WF_sysVars(DriverStep) /\ WF_sysVars(Write) /\ WF_sysVars(TimerSysEncProgress)
SysFairSpec == SysSpec /\ SysFairness

-----------------------------------------------------------------------------
SysTypeOK ==
    /\ sysDrive \in [mbr : {"sys", "cs"}, hdr : BOOLEAN, phase : {"none", "cloning", "wiping", "wiped"},
                 crc : BOOLEAN, area : 0 .. SysUnits, clone : BOOLEAN, orig : BOOLEAN]
    /\ conf \in [Systems -> [cfg : {"none", "pretest", "enc", "dec"}, startup : BOOLEAN, filter : BOOLEAN]]
    /\ run \in [os : Systems \cup {"off"}, active : BOOLEAN, mounted : BOOLEAN,
                setup : {"off", "enc", "dec", "wipe", "wiped"}]

(* While a part of the drive is encrypted, the boot loader, the header with the
   key and the registered filter are in place, whatever step the computer stops
   at, unless the deinstallation ran in a session that was not authenticated. *)
EncryptedIsReachable ==
    sysDrive.area > 0 /\ "blind" \notin odd => sysDrive.mbr = "cs" /\ sysDrive.hdr /\ conf["main"].filter

(* An interrupted encryption or decryption is not forgotten: the wizard is in the
   startup sequence or the configuration tells of it, unless a write of these
   failed or was cut off. *)
PartialIsRemembered ==
    wiz.at = "off" /\ 0 < sysDrive.area /\ sysDrive.area < SysUnits /\ odd = {} /\ sysCount.faults = 0 => conf["main"].startup \/ conf["main"].cfg # "none"

(* The original system is wiped only when the hidden system is a complete copy of it. *)
WipedMeansCloned == ~sysDrive.orig => sysDrive.clone

(* The encryption or decryption that the wizard shows as being in progress comes to an end. *)
ProgressEnds == (wiz.at = "progress" /\ wiz.inprog) ~> ~(wiz.at = "progress" /\ wiz.inprog)

(* The drive is reported as encrypted only when all of it is (Finished). *)
FinishedMeansEncrypted == "toldFull" \notin odd

(* The loader and the header are removed only from a drive that is not encrypted (Deinstall). *)
DeinstalledMeansDecrypted == "blind" \notin odd

(* A restart at any time leaves an encrypted system that its password boots. *)
EncryptedBoots ==
    run.os = "off" /\ SysCovered /\ sysDrive.orig /\ "blind" \notin odd => ~PreventNormalSystemBoot

(* Whatever the order of restarts and failing writes: an encrypted drive keeps a
   loader that reads it, a partial encryption is remembered, and the original system
   is wiped only after its clone is complete. *)
SystemReachable == SysTypeOK /\ EncryptedIsReachable /\ PartialIsRemembered /\ WipedMeansCloned
=============================================================================
