--------------------------- MODULE MCSystemDrive ---------------------------
(***************************************************************************)
(* Encryption of a drive or partition that is in use, side by side: the    *)
(* set-up in the driver, the pages of the wizard that prepare it, the      *)
(* wizard, boot loader and rescue disk from the first restart on, the      *)
(* encryption of a partition with data, the installer that replaces the    *)
(* boot driver, and the filter devices and dumps of a running system.  The *)
(* components share no state; "active" is the one that runs, so that the   *)
(* numbers of their states add up.                                         *)
(***************************************************************************)
EXTENDS DriveFilter, FormatWizard, SystemEncryption, InPlaceEncryption, Setup, SystemDevices

VARIABLE active

SetupRequestOf(mode, w, skip) == [mode |-> mode, wipe |-> w, skip |-> skip]
\* Both directions.
PlainRequests == {SetupRequestOf("encryption", FALSE, FALSE), SetupRequestOf("decryption", FALSE, FALSE)}

\* The components that do not run are in one of their initial states.
DriveInit ==
    /\ active \in {"driver", "wizard", "system", "partition", "installer", "devices"}
    /\ WInit /\ (active # "wizard" => sysEncMutex = "free" /\ dontVerify)
    /\ SysInit /\ (active # "system" => whole)
    /\ IInit
    /\ SuInit /\ (active # "installer" => computer = CHOOSE c \in Computers : TRUE)
    /\ DevInit /\ (active # "devices" => win.vista /\ area.end = 0)
    /\ Init /\ (active # "driver" => /\ header.length = 0 /\ content = [u \in Units |-> 1]
                                    /\ SetupRequest = CHOOSE r \in SetupRequests : TRUE)

DriveNext ==
    /\ UNCHANGED active
    /\ \/ active = "driver" /\ Next /\ UNCHANGED <<wVars, sysVars, iVars, suVars, devVars>>
       \/ active = "wizard" /\ WNext /\ UNCHANGED <<vars, sysVars, iVars, suVars, devVars>>
       \/ active = "system" /\ SysNext /\ UNCHANGED <<vars, wVars, iVars, suVars, devVars>>
       \/ active = "partition" /\ INext /\ UNCHANGED <<vars, wVars, sysVars, suVars, devVars>>
       \/ active = "installer" /\ SuNext /\ UNCHANGED <<vars, wVars, sysVars, iVars, devVars>>
       \/ active = "devices" /\ DevNext /\ UNCHANGED <<vars, wVars, sysVars, iVars, suVars>>

DriveSpec == DriveInit /\ [][DriveNext]_<<active, vars, wVars, sysVars, iVars, suVars, devVars>>

(* The encrypted system can be reached whatever is interrupted; a component that does
   not run stays as it was initially. *)
SystemStays == active = "system" => SystemReachable

(* What the wizard, the installer and the filter devices promise. *)
ProgramsSound ==
    /\ active = "wizard" => WizardSound
    /\ active = "installer" => SetupSound
    /\ active = "devices" => DevicesSound
=============================================================================
