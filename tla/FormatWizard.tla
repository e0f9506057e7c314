---------------------------- MODULE FormatWizard ----------------------------
(***************************************************************************)
(* The volume creation wizard (Format/Tcformat.c) up to the restart of the *)
(* computer: its pages, the flags that the pages and the 'Back' and 'Next' *)
(* buttons share, the thread that formats a volume, and the preparation    *)
(* of system encryption.  The progress of system encryption is in          *)
(* SystemEncryption, that of a partition with data in InPlaceEncryption.   *)
(***************************************************************************)
EXTENDS Naturals, Sequences, SequencesExt

CONSTANTS
    MaxKeyGens,       \* bound: key generations (PrepareInstallation)
    MaxFormats        \* bound: formats that are started

\* enum wizard_pages
WizardPages ==
    <<"INTRO", "SYSENC_TYPE", "HIDDEN_OS_REQ_CHECK", "SYSENC_SPAN", "PRE_DRIVE_ANALYSIS",
      "DRIVE_ANALYSIS", "MULTI_BOOT_MODE", "SYS_EQ_BOOT", "NBR_SYS_DRIVES", "ADJACENT_SYS",
      "NONWIN_BOOT_LOADER", "MULTI_BOOT_OUTCOME", "VOLUME_TYPE", "HIDDEN_VOL_WIZARD_MODE",
      "VOLUME_LOCATION", "DEVICE_TRANSFORM_MODE", "HOST_PRE_CIPHER", "HIDDEN_PRE_CIPHER", "CIPHER",
      "SIZE", "HOST_PASSWORD", "PASSWORD", "FILESYS", "COLLECTING_RANDOM_DATA", "KEYS_GEN",
      "RESCUE_CREATION", "RESCUE_BURN", "RESCUE_VERIFIED", "SYSENC_WIPE_MODE", "PRETEST_INFO",
      "INPLACE_RAND_DATA", "INPLACE_WIPE_MODE", "INPLACE_ENCRYPTION", "INPLACE_FINISHED",
      "FORMAT", "FORMAT_FINISHED">>
PageNo(p) == CHOOSE i \in DOMAIN WizardPages : WizardPages[i] = p
Before(p) == WizardPages[PageNo(p) - 1]

VARIABLES
    nCurPageNo,       \* nCurPageNo, "END" when the wizard has ended
    WizardMode,       \* WizardMode: "file", "nonsys", "sys"
    flg,              \* the flags: bHiddenOS, bHiddenVol, bHiddenVolHost, bHiddenVolDirect,
                      \* bInPlaceEncNonSys, bWholeSysDrive, bHiddenVolFinished, multi-boot
    sysEncMutex,      \* "free", "self" or "other"
    volumePassword,   \* volumePassword: the volume it was typed for, "none" if burnt
    hiddenVolHost,    \* hiddenVolHostDriveNo: "none", "rw" or "ro"
    hostScanned,      \* nMaximumHiddenVolSize is that of the outer volume made or chosen
    transformThread,  \* "off", "toRun", "running", "finished" (message posted)
    keyGen,           \* generation of the master key that was prepared
    rescueGen,        \* generation of the keys in the rescue disk image
    discGen,          \* generation of the keys on the disc that was burnt, 0: none
    dontVerify,       \* bDontVerifyRescueDisk
    bootInstalled,    \* the boot loader is installed and the pretest will follow
    formatCount,      \* counter
    switchFailed      \* history: SwitchWizardToSysEncMode failed after it changed the mode

wVars == <<nCurPageNo, WizardMode, flg, sysEncMutex, volumePassword, hiddenVolHost, hostScanned, transformThread, keyGen, rescueGen, discGen, dontVerify,
           bootInstalled, formatCount, switchFailed>>
sysPrep == <<keyGen, rescueGen, discGen, dontVerify, bootInstalled>>
volPrep == <<hiddenVolHost, hostScanned, transformThread, formatCount>>
wizardRest == <<sysPrep, volPrep, switchFailed>>

NoFlags == [os |-> FALSE, hidden |-> FALSE, outer |-> FALSE, direct |-> FALSE, inPlace |-> FALSE,
            whole |-> FALSE, finished |-> FALSE, multi |-> 0, device |-> FALSE]
CreatingHiddenSysVol(g) == g.os /\ g.hidden /\ ~g.outer
SysEncInEffect(m, g) == m = "sys" \/ CreatingHiddenSysVol(g)
\* The volume the pages are about.
VolumeRole == CASE WizardMode = "sys" -> "sys" [] CreatingHiddenSysVol(flg) -> "hiddenSys"
          [] flg.hidden /\ flg.outer -> "outer" [] flg.hidden /\ ~flg.outer -> "hidden" [] OTHER -> "plain"

WInit ==
    /\ nCurPageNo = "INTRO" /\ WizardMode = "file" /\ flg = NoFlags /\ sysEncMutex \in {"free", "other"}
    /\ volumePassword = "none" /\ hiddenVolHost = "none" /\ hostScanned = FALSE /\ transformThread = "off"
    /\ keyGen = 0 /\ rescueGen = 0 /\ discGen = 0 /\ dontVerify \in BOOLEAN /\ bootInstalled = FALSE /\ formatCount = 0
    /\ switchFailed = FALSE

OnPage(p) == nCurPageNo = p /\ transformThread = "off"
\* CreateSysEncMutex succeeds; CloseSysEncMutex.
TakeMutex == sysEncMutex # "other" /\ sysEncMutex' = "self"
MutexClosed == IF sysEncMutex = "self" THEN "free" ELSE sysEncMutex
\* ChangeWizardMode: a change from or to system encryption burns the passwords.
PwdAfter(m) == IF m # WizardMode /\ "sys" \in {m, WizardMode} THEN "none" ELSE volumePassword
FlagsAfter(m, g) == [g EXCEPT !.inPlace = @ /\ m = "nonsys", !.device = m # "file"]
ChangeWizardMode(m, g) ==
    /\ WizardMode' = m /\ volumePassword' = PwdAfter(m) /\ flg' = FlagsAfter(m, g)
    /\ IF m = "sys" THEN (IF m # WizardMode THEN TakeMutex ELSE UNCHANGED sysEncMutex)
       ELSE sysEncMutex' = IF g.os THEN sysEncMutex ELSE MutexClosed
StayInMode == UNCHANGED <<WizardMode, sysEncMutex, volumePassword>>
GoPage(p) == nCurPageNo' = p

-----------------------------------------------------------------------------
(* 'Next' on the first pages. *)
IntroNext(m) ==
    /\ OnPage("INTRO") /\ m \in {"file", "nonsys"}
    /\ WizardMode' = m /\ volumePassword' = PwdAfter(m) /\ sysEncMutex' = MutexClosed
    /\ flg' = FlagsAfter(m, [flg EXCEPT !.os = FALSE, !.inPlace = @ /\ m = "nonsys"])
    /\ GoPage("VOLUME_TYPE") /\ UNCHANGED wizardRest

\* Not elevated: the mutex is closed, the mode stays.
IntroNotElevated ==
    /\ OnPage("INTRO") /\ WizardMode # "nonsys" /\ sysEncMutex' = MutexClosed
    /\ UNCHANGED <<nCurPageNo, WizardMode, flg, volumePassword, wizardRest>>

\* SwitchWizardToSysEncMode, of the drive or partition the user selected on a page for
\* other devices (g.device), or from the first page.
SysEncSwitch(target, g) ==
    /\ TakeMutex /\ WizardMode' = "sys" /\ volumePassword' = PwdAfter("sys")
    /\ flg' = FlagsAfter("sys", g) /\ GoPage(target)
\* SYSENC_TYPE_PAGE, WM_INITDIALOG
TypePageFlags(g) == [g EXCEPT !.hidden = g.os, !.outer = g.os]
IntroNextSys ==
    /\ OnPage("INTRO") /\ SysEncSwitch("SYSENC_TYPE", TypePageFlags([flg EXCEPT !.hidden = FALSE, !.inPlace = FALSE]))
    /\ UNCHANGED wizardRest
SwitchRefused ==
    /\ nCurPageNo \in {"INTRO", "VOLUME_LOCATION"} /\ transformThread = "off"
    /\ sysEncMutex' = MutexClosed /\ sysEncMutex # MutexClosed
    /\ UNCHANGED <<nCurPageNo, WizardMode, flg, volumePassword, wizardRest>>

ChooseSysEncType(os) ==
    /\ OnPage("SYSENC_TYPE") /\ flg.os # os
    /\ flg' = [flg EXCEPT !.os = os, !.hidden = os, !.outer = os]
    /\ UNCHANGED nCurPageNo /\ StayInMode /\ UNCHANGED wizardRest
SysEncTypeNext ==
    /\ OnPage("SYSENC_TYPE")
    /\ IF flg.os THEN GoPage("HIDDEN_OS_REQ_CHECK") /\ flg' = [flg EXCEPT !.whole = FALSE, !.direct = FALSE]
       ELSE GoPage("SYSENC_SPAN") /\ UNCHANGED flg
    /\ StayInMode /\ UNCHANGED wizardRest
ReqCheckNext == OnPage("HIDDEN_OS_REQ_CHECK") /\ GoPage("MULTI_BOOT_MODE") /\ UNCHANGED flg /\ StayInMode /\ UNCHANGED wizardRest
SpanNext(whole) ==
    /\ OnPage("SYSENC_SPAN") /\ flg' = [flg EXCEPT !.whole = whole]
    /\ GoPage(IF whole THEN "PRE_DRIVE_ANALYSIS" ELSE "MULTI_BOOT_MODE") /\ StayInMode /\ UNCHANGED wizardRest
PreDriveAnalysisNext(detect) ==
    /\ OnPage("PRE_DRIVE_ANALYSIS") /\ GoPage(IF detect THEN "DRIVE_ANALYSIS" ELSE "MULTI_BOOT_MODE")
    /\ UNCHANGED flg /\ StayInMode /\ UNCHANGED wizardRest
\* sysEncDriveAnalysisThread ends.
DriveAnalysisDone ==
    /\ OnPage("DRIVE_ANALYSIS") /\ GoPage("MULTI_BOOT_MODE") /\ UNCHANGED flg /\ StayInMode /\ UNCHANGED wizardRest
MultiBootNext(n) ==
    /\ OnPage("MULTI_BOOT_MODE")
    /\ IF flg.os THEN ChangeWizardMode("nonsys", [flg EXCEPT !.multi = n]) /\ GoPage("HOST_PRE_CIPHER")
       ELSE flg' = [flg EXCEPT !.multi = n] /\ StayInMode /\ GoPage(IF n > 1 THEN "SYS_EQ_BOOT" ELSE "CIPHER")
    /\ UNCHANGED wizardRest
\* The questions about several systems; a drive with more than one is not encrypted whole.
MultiBootAnswer ==
    /\ \/ OnPage("SYS_EQ_BOOT") /\ GoPage("NBR_SYS_DRIVES")
       \/ OnPage("NBR_SYS_DRIVES") /\ (GoPage("ADJACENT_SYS") \/ (~flg.whole /\ GoPage("NONWIN_BOOT_LOADER")))
       \/ OnPage("ADJACENT_SYS") /\ GoPage("NONWIN_BOOT_LOADER")
       \/ OnPage("NONWIN_BOOT_LOADER") /\ GoPage("MULTI_BOOT_OUTCOME")
       \/ OnPage("MULTI_BOOT_OUTCOME") /\ ~flg.os /\ GoPage("CIPHER")
       \/ nCurPageNo \in {"SYS_EQ_BOOT", "NONWIN_BOOT_LOADER"} /\ GoPage("END")       \* not supported
    /\ UNCHANGED flg /\ StayInMode /\ UNCHANGED wizardRest

-----------------------------------------------------------------------------
(* 'Next' on the pages for volumes. *)
VolumeTypeNext(hidden) ==
    /\ OnPage("VOLUME_TYPE")
    /\ flg' = IF hidden THEN [flg EXCEPT !.hidden = TRUE, !.outer = TRUE, !.inPlace = FALSE]
            ELSE [flg EXCEPT !.hidden = FALSE, !.outer = FALSE, !.direct = FALSE]
    /\ GoPage(IF hidden THEN "HIDDEN_VOL_WIZARD_MODE" ELSE "VOLUME_LOCATION") /\ StayInMode /\ UNCHANGED wizardRest
HiddenVolModeNext(direct) ==
    /\ OnPage("HIDDEN_VOL_WIZARD_MODE") /\ flg' = [flg EXCEPT !.direct = direct]
    /\ GoPage("VOLUME_LOCATION") /\ StayInMode /\ UNCHANGED wizardRest

\* The path is read again; what was known of another host is not.
LocationNext ==
    /\ OnPage("VOLUME_LOCATION")
    /\ GoPage(CASE flg.direct /\ flg.outer -> "HOST_PASSWORD"
            [] ~(flg.direct /\ flg.outer) /\ flg.hidden -> (IF flg.outer THEN "HOST_PRE_CIPHER" ELSE "HIDDEN_PRE_CIPHER")
            [] ~flg.hidden /\ flg.device -> "DEVICE_TRANSFORM_MODE"
            [] OTHER -> "CIPHER")
    /\ hostScanned' = FALSE
    /\ UNCHANGED <<WizardMode, flg, sysEncMutex, volumePassword, sysPrep, hiddenVolHost, transformThread, formatCount, switchFailed>>
\* A device path was typed in the mode for containers.
LocationIsDevice ==
    /\ OnPage("VOLUME_LOCATION") /\ ~flg.device /\ ChangeWizardMode("nonsys", flg) /\ GoPage("VOLUME_TYPE")
    /\ UNCHANGED wizardRest
\* The system drive or partition was selected.
LocationIsSystem(whole) ==
    /\ OnPage("VOLUME_LOCATION") /\ flg.device
    /\ IF flg.hidden THEN SysEncSwitch("SYSENC_TYPE", TypePageFlags([flg EXCEPT !.whole = FALSE]))
       ELSE SysEncSwitch(IF whole THEN "PRE_DRIVE_ANALYSIS" ELSE "MULTI_BOOT_MODE", [flg EXCEPT !.whole = whole])
    /\ UNCHANGED wizardRest
\* The drive cannot be examined: the mode has been changed, the page is the same.
LocationSwitchFails ==
    /\ OnPage("VOLUME_LOCATION") /\ flg.device /\ SysEncSwitch("VOLUME_LOCATION", flg)
    /\ switchFailed' = TRUE /\ UNCHANGED <<sysPrep, volPrep>>

TransformModeNext(inPlace) ==
    /\ OnPage("DEVICE_TRANSFORM_MODE")
    /\ flg' = IF inPlace THEN [flg EXCEPT !.inPlace = TRUE, !.hidden = FALSE, !.direct = FALSE, !.outer = FALSE]
            ELSE [flg EXCEPT !.inPlace = FALSE]
    /\ GoPage(IF inPlace THEN "CIPHER" ELSE "HOST_PRE_CIPHER") /\ StayInMode /\ UNCHANGED wizardRest
PreCipherNext ==
    /\ nCurPageNo \in {"HOST_PRE_CIPHER", "HIDDEN_PRE_CIPHER"} /\ transformThread = "off"
    /\ GoPage(IF nCurPageNo = "HOST_PRE_CIPHER" /\ ~flg.outer THEN "HIDDEN_PRE_CIPHER" ELSE "CIPHER")
    /\ UNCHANGED flg /\ StayInMode /\ UNCHANGED wizardRest
CipherNext ==
    /\ OnPage("CIPHER") /\ GoPage(IF SysEncInEffect(WizardMode, flg) \/ flg.inPlace THEN "PASSWORD" ELSE "SIZE")
    /\ UNCHANGED flg /\ StayInMode /\ UNCHANGED wizardRest
SizeNext ==
    /\ OnPage("SIZE") /\ GoPage(IF flg.direct /\ flg.outer THEN "HOST_PASSWORD" ELSE "PASSWORD")
    /\ UNCHANGED flg /\ StayInMode /\ UNCHANGED wizardRest
\* over4GB: FileSize4GBLimitQuestionNeeded
PasswordNext(over4GB) ==
    /\ OnPage("PASSWORD") /\ volumePassword' = VolumeRole
    /\ GoPage(CASE flg.inPlace -> "INPLACE_RAND_DATA"
            [] ~flg.inPlace /\ ((WizardMode # "sys" /\ ~over4GB) \/ CreatingHiddenSysVol(flg)) -> "FORMAT"
            [] ~flg.inPlace /\ WizardMode = "sys" -> "COLLECTING_RANDOM_DATA"
            [] OTHER -> "FILESYS")
    /\ UNCHANGED <<WizardMode, flg, sysEncMutex, wizardRest>>
FilesysNext == OnPage("FILESYS") /\ GoPage("FORMAT") /\ UNCHANGED flg /\ StayInMode /\ UNCHANGED wizardRest

\* Mutant of ScanHost: the hidden volume is made although the scan failed.
ScanFailureIgnored(found) ==
    /\ hiddenVolHost' = "none" /\ hostScanned' = found /\ volumePassword' = "none"
    /\ flg' = [flg EXCEPT !.outer = FALSE, !.finished = FALSE] /\ GoPage("HIDDEN_PRE_CIPHER")

\* The host of the hidden volume is mounted read-only, scanned and dismounted again.
ScanHost(found) ==
    \/ /\ found /\ hiddenVolHost' = "none" /\ hostScanned' = TRUE /\ volumePassword' = "none"
       /\ flg' = [flg EXCEPT !.outer = FALSE, !.finished = FALSE] /\ GoPage("HIDDEN_PRE_CIPHER")
    \/ /\ ~found /\ hiddenVolHost' \in {"none", "ro"} /\ UNCHANGED <<hostScanned, volumePassword, flg, nCurPageNo>>
HostPasswordNext(found) ==
    /\ OnPage("HOST_PASSWORD") /\ ScanHost(found)
    /\ UNCHANGED <<WizardMode, sysEncMutex, transformThread, formatCount, sysPrep, switchFailed>>

-----------------------------------------------------------------------------
(* The format of a volume: 'Next' on FORMAT_PAGE starts volTransformThreadFunction. *)
FormatNext ==
    /\ OnPage("FORMAT") /\ formatCount < MaxFormats
    /\ transformThread' = "running" /\ formatCount' = formatCount + 1
    /\ hiddenVolHost' = (IF flg.outer THEN "none" ELSE hiddenVolHost) /\ hostScanned' = (hostScanned /\ ~flg.outer)
    /\ UNCHANGED <<nCurPageNo, WizardMode, flg, sysEncMutex, volumePassword, sysPrep, switchFailed>>
\* The outer volume is mounted for the user to fill it.
FormatEnds ==
    /\ transformThread = "running" /\ nCurPageNo = "FORMAT"
    /\ transformThread' = "finished"
    /\ IF flg.outer THEN hiddenVolHost' = "rw" /\ flg' = [flg EXCEPT !.outer = FALSE, !.finished = FALSE]
       ELSE UNCHANGED hiddenVolHost /\ flg' = [flg EXCEPT !.finished = @ \/ flg.hidden]
    /\ UNCHANGED <<nCurPageNo, WizardMode, sysEncMutex, volumePassword, hostScanned, formatCount, sysPrep, switchFailed>>
FormatFails ==
    /\ transformThread = "running" /\ transformThread' = "off"
    /\ UNCHANGED <<nCurPageNo, WizardMode, flg, sysEncMutex, volumePassword, hiddenVolHost, hostScanned, formatCount, sysPrep, switchFailed>>
\* TC_APPMSG_FORMAT_FINISHED, TC_APPMSG_NONSYS_INPLACE_ENC_FINISHED
FormatFinished ==
    /\ transformThread = "finished" /\ transformThread' = "off"
    /\ GoPage(IF flg.inPlace THEN "INPLACE_FINISHED" ELSE "FORMAT_FINISHED")
    /\ UNCHANGED <<WizardMode, flg, sysEncMutex, volumePassword, hiddenVolHost, hostScanned, formatCount, sysPrep, switchFailed>>

\* The volume is complete: the wizard starts again, or goes on with the hidden system.
Complete == ~flg.hidden \/ flg.finished
FinishedNext ==
    /\ OnPage("FORMAT_FINISHED") /\ Complete /\ ~flg.os
    /\ GoPage("INTRO") /\ flg' = [flg EXCEPT !.finished = FALSE] /\ volumePassword' = "none"
    /\ UNCHANGED <<WizardMode, sysEncMutex, wizardRest>>
FinishedNextHiddenOS ==
    /\ OnPage("FORMAT_FINISHED") /\ Complete /\ flg.os /\ keyGen < MaxKeyGens
    /\ \E ok \in BOOLEAN :                          \* PrepareHiddenOSCreation
         IF ok THEN /\ ChangeWizardMode("sys", [flg EXCEPT !.hidden = FALSE, !.finished = FALSE])
                    /\ GoPage("PRETEST_INFO") /\ keyGen' = keyGen + 1
         ELSE ChangeWizardMode("sys", flg) /\ UNCHANGED <<nCurPageNo, keyGen>>
    /\ UNCHANGED <<rescueGen, discGen, dontVerify, bootInstalled, volPrep, switchFailed>>
FinishedNextScan(found) ==
    /\ OnPage("FORMAT_FINISHED") /\ ~Complete /\ ScanHost(found)
    /\ UNCHANGED <<WizardMode, sysEncMutex, transformThread, formatCount, sysPrep, switchFailed>>

\* In-place encryption of a partition.
InPlaceNext ==
    /\ \/ OnPage("INPLACE_RAND_DATA") /\ GoPage("INPLACE_WIPE_MODE")
       \/ OnPage("INPLACE_WIPE_MODE") /\ GoPage("INPLACE_ENCRYPTION")
       \/ OnPage("INPLACE_FINISHED") /\ GoPage("END")
    /\ UNCHANGED flg /\ StayInMode /\ UNCHANGED wizardRest
InPlaceStart ==
    /\ OnPage("INPLACE_ENCRYPTION") /\ formatCount < MaxFormats /\ formatCount' = formatCount + 1 /\ transformThread' = "running"
    /\ UNCHANGED <<nCurPageNo, WizardMode, flg, sysEncMutex, volumePassword, hiddenVolHost, hostScanned, sysPrep, switchFailed>>
InPlaceThreadEnds ==
    /\ transformThread = "running" /\ nCurPageNo = "INPLACE_ENCRYPTION" /\ transformThread' = "finished"
    /\ UNCHANGED <<nCurPageNo, WizardMode, flg, sysEncMutex, volumePassword, hiddenVolHost, hostScanned, formatCount, sysPrep, switchFailed>>

-----------------------------------------------------------------------------
(* The preparation of system encryption. *)
CollectingNext ==
    /\ OnPage("COLLECTING_RANDOM_DATA") /\ keyGen < MaxKeyGens
    /\ keyGen' = keyGen + 1 /\ GoPage("KEYS_GEN")       \* PrepareInstallation
    /\ UNCHANGED <<flg, rescueGen, discGen, dontVerify, bootInstalled, volPrep, switchFailed>> /\ StayInMode
KeysGenNext == OnPage("KEYS_GEN") /\ GoPage("RESCUE_CREATION") /\ UNCHANGED flg /\ StayInMode /\ UNCHANGED wizardRest
\* CreateRescueIsoImage; without a drive to burn it the user may do without the check.
RescueCreationNext(store) ==
    /\ OnPage("RESCUE_CREATION") /\ rescueGen' = keyGen /\ (store => ~dontVerify)
    /\ dontVerify' = (dontVerify \/ store) /\ GoPage(IF store THEN "SYSENC_WIPE_MODE" ELSE "RESCUE_BURN")
    /\ UNCHANGED <<flg, keyGen, discGen, bootInstalled, volPrep, switchFailed>> /\ StayInMode
BurnDisc ==
    /\ OnPage("RESCUE_BURN") /\ discGen' = rescueGen
    /\ UNCHANGED <<nCurPageNo, flg, keyGen, rescueGen, dontVerify, bootInstalled, volPrep, switchFailed>> /\ StayInMode
\* VerifyRescueDisk compares the disc with the image in memory.
RescueBurnNext ==
    /\ OnPage("RESCUE_BURN") /\ (dontVerify \/ discGen = rescueGen)
    /\ GoPage(IF dontVerify THEN "SYSENC_WIPE_MODE" ELSE "RESCUE_VERIFIED")
    /\ UNCHANGED flg /\ StayInMode /\ UNCHANGED wizardRest
RescueVerifiedNext ==
    /\ \/ OnPage("RESCUE_VERIFIED") /\ GoPage("SYSENC_WIPE_MODE")
       \/ OnPage("SYSENC_WIPE_MODE") /\ GoPage("PRETEST_INFO")
    /\ UNCHANGED flg /\ StayInMode /\ UNCHANGED wizardRest
\* Install, then the status is saved and the computer restarted.
PretestInfoNext ==
    /\ OnPage("PRETEST_INFO") /\ bootInstalled' = TRUE /\ TakeMutex /\ GoPage("END")
    /\ UNCHANGED <<WizardMode, flg, volumePassword, keyGen, rescueGen, discGen, dontVerify, volPrep, switchFailed>>

-----------------------------------------------------------------------------
(* 'Back'. *)
BackEnabled ==
    /\ nCurPageNo \notin {"INTRO", "DRIVE_ANALYSIS", "HIDDEN_PRE_CIPHER", "RESCUE_BURN", "RESCUE_VERIFIED",
                    "INPLACE_FINISHED", "END"}
    /\ nCurPageNo = "FORMAT_FINISHED" => Complete /\ ~flg.os
    /\ nCurPageNo = "PRETEST_INFO" => ~flg.os
BackPage ==
    CASE nCurPageNo = "SYSENC_SPAN" /\ ~flg.os -> "SYSENC_TYPE"
      [] nCurPageNo = "MULTI_BOOT_MODE" /\ flg.os -> "HIDDEN_OS_REQ_CHECK"
      [] nCurPageNo = "MULTI_BOOT_MODE" /\ ~flg.os -> (IF flg.whole THEN "PRE_DRIVE_ANALYSIS" ELSE "SYSENC_SPAN")
      [] nCurPageNo = "HOST_PRE_CIPHER" -> (IF flg.os THEN "MULTI_BOOT_MODE" ELSE "VOLUME_LOCATION")
      [] nCurPageNo = "VOLUME_TYPE" /\ WizardMode # "sys" -> "INTRO"
      [] nCurPageNo = "VOLUME_LOCATION" /\ ~flg.hidden -> "VOLUME_TYPE"
      [] nCurPageNo = "CIPHER" /\ WizardMode = "sys" -> (IF flg.multi > 1 THEN "MULTI_BOOT_OUTCOME" ELSE "MULTI_BOOT_MODE")
      [] nCurPageNo = "CIPHER" /\ WizardMode # "sys" /\ ~flg.hidden -> (IF flg.device THEN "DEVICE_TRANSFORM_MODE" ELSE "VOLUME_LOCATION")
      [] nCurPageNo = "CIPHER" /\ WizardMode # "sys" /\ flg.hidden /\ flg.outer -> "HOST_PRE_CIPHER"
      [] nCurPageNo = "PASSWORD" -> (IF SysEncInEffect(WizardMode, flg) \/ flg.inPlace THEN "CIPHER" ELSE "SIZE")
      [] nCurPageNo = "HOST_PASSWORD" -> "VOLUME_LOCATION"
      [] nCurPageNo \in {"COLLECTING_RANDOM_DATA", "INPLACE_RAND_DATA"} -> "PASSWORD"
      [] nCurPageNo = "SYSENC_WIPE_MODE" -> (IF dontVerify THEN "RESCUE_BURN" ELSE "RESCUE_VERIFIED")
      [] nCurPageNo = "FORMAT" /\ WizardMode # "sys" -> "PASSWORD"
      [] OTHER -> Before(nCurPageNo)
PrevButton ==
    /\ transformThread = "off" /\ BackEnabled /\ GoPage(BackPage)
    /\ IF nCurPageNo = "HOST_PRE_CIPHER" /\ flg.os THEN ChangeWizardMode("sys", flg)
       ELSE /\ flg' = IF BackPage = "SYSENC_TYPE" THEN TypePageFlags(flg) ELSE flg
            /\ volumePassword' = IF nCurPageNo = "PASSWORD" THEN VolumeRole ELSE volumePassword
            /\ UNCHANGED <<WizardMode, sysEncMutex>>
    /\ UNCHANGED wizardRest
\* FILESYS_PAGE lies between, when the question about large files was asked.
BackToFilesys ==
    /\ OnPage("FORMAT") /\ WizardMode # "sys" /\ ~CreatingHiddenSysVol(flg) /\ ~flg.inPlace
    /\ GoPage("FILESYS") /\ UNCHANGED flg /\ StayInMode /\ UNCHANGED wizardRest

-----------------------------------------------------------------------------
(* The end (TC_APPMSG_FORMAT_USER_QUIT): the host of the hidden volume is dismounted,
   unless a format is aborted. *)
QuitWizard ==
    /\ nCurPageNo # "END" /\ GoPage("END")
    /\ hiddenVolHost' = IF transformThread \in {"running", "toRun"} THEN hiddenVolHost ELSE "none"
    /\ sysEncMutex' = MutexClosed
    /\ UNCHANGED <<WizardMode, flg, volumePassword, hostScanned, transformThread, formatCount, sysPrep, switchFailed>>
\* Another wizard takes and leaves the mutex.
OtherInstance ==
    /\ sysEncMutex' = CASE sysEncMutex = "free" -> "other" [] sysEncMutex = "other" -> "free"
                        [] OTHER -> "self"
    /\ UNCHANGED <<nCurPageNo, WizardMode, flg, volumePassword, wizardRest>>

NextButton ==
    \/ \E m \in {"file", "nonsys"} : IntroNext(m)
    \/ IntroNextSys \/ SysEncTypeNext \/ ReqCheckNext \/ MultiBootAnswer
    \/ \E b \in BOOLEAN : \/ ChooseSysEncType(b) \/ SpanNext(b) \/ PreDriveAnalysisNext(b)
                          \/ VolumeTypeNext(b) \/ HiddenVolModeNext(b) \/ LocationIsSystem(b)
                          \/ TransformModeNext(b) \/ PasswordNext(b) \/ HostPasswordNext(b)
                          \/ FinishedNextScan(b) \/ RescueCreationNext(b)
    \/ \E n \in 1 .. 2 : MultiBootNext(n)
    \/ LocationNext \/ LocationIsDevice \/ PreCipherNext \/ CipherNext \/ SizeNext \/ FilesysNext
    \/ FormatNext \/ FinishedNext \/ FinishedNextHiddenOS \/ InPlaceNext \/ InPlaceStart
    \/ CollectingNext \/ KeysGenNext \/ BurnDisc \/ RescueBurnNext \/ RescueVerifiedNext \/ PretestInfoNext
ThreadStep == DriveAnalysisDone \/ FormatEnds \/ FormatFails \/ FormatFinished \/ InPlaceThreadEnds
Failures == IntroNotElevated \/ SwitchRefused \/ LocationSwitchFails
WNext == nCurPageNo # "END" /\ (NextButton \/ ThreadStep \/ Failures \/ PrevButton \/ BackToFilesys \/ QuitWizard \/ OtherInstance)
WSpec == WInit /\ [][WNext]_wVars

-----------------------------------------------------------------------------
(* The types of the wizard's state. *)
WTypeOK ==
    /\ nCurPageNo \in Range(WizardPages) \cup {"END"} /\ WizardMode \in {"file", "nonsys", "sys"}
    /\ volumePassword \in {"none", "plain", "outer", "hidden", "sys", "hiddenSys"} /\ hiddenVolHost \in {"none", "rw", "ro"}
    /\ flg.outer => flg.hidden

(* A hidden volume is formatted only in a host whose free space was scanned after the host
   was chosen or made, whatever the user did with 'Back' and 'Next': it must not overlap
   the files of the outer volume. *)
HiddenVolumeFits == transformThread = "running" /\ VolumeRole \in {"hidden", "hiddenSys"} => hostScanned /\ hiddenVolHost # "rw"

(* The password a volume is formatted with was typed for this volume: that of the outer
   volume never becomes that of the hidden one, and one that was typed with another
   keyboard layout never that of a system ("the password may have been typed using a
   different keyboard layout", Tcformat.c:570). *)
PasswordIsOfItsVolume == transformThread = "running" /\ ~switchFailed => volumePassword = VolumeRole

(* On every page of system encryption this wizard is the only one that deals with it
   (SwitchWizardToSysEncMode: "From now on, we should be the only instance"). *)
SysModeHasMutex ==
    WizardMode = "sys" /\ nCurPageNo \notin {"INTRO", "END"} /\ ~switchFailed => sysEncMutex = "self"

(* The pages for other volumes are never left in the mode for system encryption, which
   would encrypt the system instead of the volume chosen (except when the examination of
   the drive fails, see README). *)
OtherVolumesNotInSysMode ==
    nCurPageNo \in {"VOLUME_TYPE", "HIDDEN_VOL_WIZARD_MODE", "VOLUME_LOCATION", "DEVICE_TRANSFORM_MODE", "SIZE",
              "HOST_PASSWORD"} /\ ~switchFailed => WizardMode # "sys"

(* The rescue disk holds the keys that are installed, and a disk that was burnt stays the
   right one: "the user could burn a Rescue Disk, then go back, and generate a different
   master key" (Tcformat.c:4106). *)
RescueDiskCurrent ==
    /\ discGen # 0 => discGen = keyGen
    /\ bootInstalled /\ ~flg.os => rescueGen = keyGen /\ (dontVerify \/ discGen = keyGen)

(* The wizard: sizes of hidden volumes fit, the password belongs to the volume it is
   used for, and system mode and its mutex go together. *)
WizardSound ==
    /\ WTypeOK
    /\ HiddenVolumeFits
    /\ PasswordIsOfItsVolume
    /\ SysModeHasMutex
    /\ OtherVolumesNotInSysMode
    /\ RescueDiskCurrent
=============================================================================
