----------------------------- MODULE MCLiveness -----------------------------
(***************************************************************************)
(* What must happen in the end, side by side for the components that wait  *)
(* for threads, processes, timers and answers, on instances smaller than   *)
(* those of MCVolumes; and the key search and the random pool.  "active"   *)
(* is the component that runs.                                             *)
(***************************************************************************)
EXTENDS MountedVolumes, VolumeManager, IdleVolumes, UnixMounts, CoreService, HeaderKeys, RandomPool

VARIABLE active

(* A partition, and a container file on it; each has the password "a". *)
MCHostOn == [h \in Hosts |-> IF h = "file" THEN "disk" ELSE "noHost"]
MCOuter  == [h \in Hosts |-> "a"]
MCHidden == [h \in Hosts |-> "noPassword"]
MCMounts == {[by |-> "u1", host |-> h, pwd |-> "a", hpwd |-> "noPassword", protect |-> FALSE, cache |-> FALSE] : h \in Hosts}
OneLetter == [v \in Containers |-> 1]

LivenessInit ==
    /\ active \in {"driver", "program", "idle", "unix", "service", "search", "random"}
    /\ MInit /\ VInit /\ IdleInit /\ UxInit /\ CsInit /\ (active # "service" => sudo = "nothing")
    /\ KeyInit /\ RndInit /\ (active # "random" => program = "windows")

LivenessNext ==
    LET mounting == <<mVars, vVars, idleVars>>
        unix == <<uxVars, csVars>>
    IN  /\ UNCHANGED active
        /\ \/ active = "driver" /\ MNext /\ UNCHANGED <<vVars, idleVars, unix, keyVars, rndVars>>
           \/ active = "program" /\ VNext /\ UNCHANGED <<mVars, idleVars, unix, keyVars, rndVars>>
           \/ active = "idle" /\ IdleNext /\ UNCHANGED <<mVars, vVars, unix, keyVars, rndVars>>
           \/ active = "unix" /\ UxNext /\ UNCHANGED <<mounting, csVars, keyVars, rndVars>>
           \/ active = "service" /\ CsNext /\ UNCHANGED <<mounting, uxVars, keyVars, rndVars>>
           \/ active = "search" /\ KeyNext /\ UNCHANGED <<mounting, unix, rndVars>>
           \/ active = "random" /\ RndNext /\ UNCHANGED <<mounting, unix, keyVars>>

\* The fairness of the components, each for the behaviours in which it runs.
LivenessFairness ==
    /\ WF_mVars(active = "driver" /\ RequestSteps) /\ WF_mVars(active = "driver" /\ ShutdownSteps /\ down # "up")
    /\ \A i \in VolIrps : WF_mVars(active = "driver" /\ IrpSteps(i))
    /\ \A d \in Drives : WF_mVars(active = "driver" /\ VolumeThread(d))
    /\ WF_vVars(active = "program" /\ HandlerStep)
    /\ WF_idleVars(active = "idle" /\ DismountIdleVolumes) /\ WF_idleVars(active = "idle" /\ KnowMounted)
    /\ WF_uxVars(active = "unix" /\ UxCore) /\ \A i \in AuxIndexes : WF_uxVars(active = "unix" /\ UxHandler(i))
    /\ WF_csVars(active = "service" /\ CsService) /\ WF_csVars(active = "service" /\ CsElevated)
    /\ \A t \in CsThreads :
          /\ WF_csVars(active = "service" /\ CsThread(t))
          /\ WF_csVars(active = "service" /\ (AdminPasswordCallback(t, "right") \/ AdminPasswordCallback(t, "cancel")))
    /\ WF_keyVars(active = "search" /\ CallerNext)
    /\ \A w \in KeyWorkers : WF_keyVars(active = "search" /\ WorkerNext(w))
    /\ WF_rndVars(active = "random" /\ PeriodicFastPollThreadProc)
    /\ WF_rndVars(active = "random" /\ RandStopEnd)

LivenessSpec ==
    /\ LivenessInit
    /\ [][LivenessNext]_<<active, mVars, vVars, idleVars, uxVars, csVars, keyVars, rndVars>>
    /\ LivenessFairness

(* Retried mounts stop asking, and idle volumes are dismounted. *)
ProgramsLive == RetriesEnd /\ IdleDismounted

(* Requests of the Unix program and of its privileged service end. *)
UnixLive == UxRequestEnds /\ ServiceLive

(* Reading a header returns, and so does stopping the random pool. *)
KeysLive == HeaderReadReturns /\ RandStopReturns
=============================================================================
