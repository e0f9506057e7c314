------------------------- MODULE MCDriveProgress -------------------------
(***************************************************************************)
(* Encryption in place with failing accesses, power losses and restarts,   *)
(* side by side: the set-up thread of the driver, the wizard and the boot  *)
(* loader around it, and the encryption of a partition with data.          *)
(* "active" is the component that runs, so that the numbers of their       *)
(* states add up.                                                          *)
(***************************************************************************)
EXTENDS DriveFilter, SystemEncryption, InPlaceEncryption

VARIABLE active

SetupRequestOf(mode, wipe, skip) == [mode |-> mode, wipe |-> wipe, skip |-> skip]
\* With wiping, and with and without skipping of bad sectors.
FaultRequests == {SetupRequestOf("encryption", TRUE, TRUE), SetupRequestOf("decryption", FALSE, TRUE),
                  SetupRequestOf("decryption", FALSE, FALSE)}

\* The components that do not run are in one of their initial states.
ProgressInit ==
    /\ active \in {"driver", "wizard", "partition"}
    /\ SysInit /\ (active # "wizard" => whole)
    /\ Init /\ (active # "driver" => header.length = 0 /\ SetupRequest = CHOOSE r \in SetupRequests : TRUE)
    /\ IInit

ProgressNext ==
    /\ UNCHANGED active
    /\ \/ active = "driver" /\ Next /\ UNCHANGED <<sysVars, iVars>>
       \/ active = "wizard" /\ SysNext /\ UNCHANGED <<vars, iVars>>
       \/ active = "partition" /\ INext /\ UNCHANGED <<vars, sysVars>>

\* The fairness of the components, each for the behaviours in which it runs.
ProgressFairness ==
    /\ WF_vars(active = "driver" /\ SetupStep) /\ WF_vars(active = "driver" /\ IoctlLeaves)
    /\ WF_sysVars(active = "wizard" /\ DriverStep) /\ WF_sysVars(active = "wizard" /\ Write)
    /\ WF_sysVars(active = "wizard" /\ TimerSysEncProgress)
    /\ WF_iVars(active = "partition" /\ InPlaceStep)

ProgressSpec ==
    /\ ProgressInit /\ [][ProgressNext]_<<active, vars, sysVars, iVars>>
    /\ ProgressFairness

(* System encryption that is shown as being in progress and in-place encryption come
   to an end. *)
EncryptionEnds == ProgressEnds /\ InPlaceEnds
=============================================================================
