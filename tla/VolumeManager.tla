--------------------------- MODULE VolumeManager ---------------------------
(***************************************************************************)
(* The program that mounts and dismounts volumes on Windows (Mount/Mount.c *)
(* and the calls of Common/Dlgcode.c it makes).  One thread runs all of    *)
(* it: a handler that shows a dialog lets messages through, so a timer     *)
(* handler may run on top of it and use the same globals (mountOptions,    *)
(* VolumePassword).  The driver is the set of mounted volumes (see         *)
(* MountedVolumes); programs that use the volumes, a second instance and   *)
(* the removal of host devices are the environment.                        *)
(***************************************************************************)
EXTENDS Naturals, Sequences, FiniteSets, SequencesExt

CONSTANTS
    Letters,          \* drive letters, numbers
    Containers,       \* volume paths
    DamagedHeaders,   \* containers that open with their backup header only
    ArrivalFavorites, \* favorite volumes to mount when their host is connected
    FavoriteLetter,   \* the drive letter of each
    ForceAutoDismount,
    UserOptions,      \* the mount options the user chooses from: read-only or not
    WrongPwdLimit,    \* TC_TRY_HEADER_BAK_AFTER_NBR_WRONG_PWD_TRIES
    DismountRetries,  \* UNMOUNT_MAX_AUTO_RETRIES
    MaxVolumeIds,     \* bound: mounts
    MaxEvents         \* bound: events of the environment

NoVolume == [vol |-> "none", id |-> 0, ro |-> FALSE, by |-> "none", open |-> FALSE, hit |-> FALSE]

VARIABLES
    mnt,              \* what the driver has mounted at each letter
    connected,        \* containers whose host device is connected
    handlers,         \* the handlers on the stack of the thread, the running one last
    opts,             \* mountOptions
    volumePassword,   \* VolumePassword is not burnt
    multi,            \* MultipleMountOperationInProgress
    wrongPwds,        \* WrongPwdRetryCounter
    known,            \* LastKnownMountList: the ids at the letters
    reported,         \* VolumeNotificationsList.bHidVolDamagePrevReported
    stillConnected,   \* FavoritesMountedOnArrivalStillConnected
    lastId, events,   \* counters
    arrivals,         \* history: arrivals mounted since the host was connected
    unreported        \* history: letters whose triggered protection nobody was told of

vVars == <<mnt, connected, handlers, opts, volumePassword, multi, wrongPwds, known, reported,
           stillConnected, lastId, events, arrivals, unreported>>
arrivalVars == <<stillConnected, arrivals>>
secretVars == <<opts, volumePassword, multi, wrongPwds>>

Options(ro) == [ro |-> ro, backup |-> FALSE]
Mounted(v) == \E l \in Letters : mnt[l].vol = v
Free == {l \in Letters : mnt[l] = NoVolume}
NoHandler == [kind |-> "none", pc |-> "none", l |-> 0, vol |-> "none", ro |-> FALSE,
              force |-> FALSE, interact |-> FALSE, tries |-> 0, vols |-> {}]

VInit ==
    /\ mnt = [l \in Letters |-> NoVolume] /\ connected = Containers /\ handlers = <<>>
    /\ opts = Options(FALSE) /\ volumePassword = FALSE /\ multi = FALSE /\ wrongPwds = 0
    /\ known = [l \in Letters |-> 0] /\ reported = [l \in Letters |-> FALSE]
    /\ stillConnected = {}
    /\ lastId = 0 /\ events = 0
    /\ arrivals = [v \in Containers |-> 0] /\ unreported = {}

-----------------------------------------------------------------------------
(* The stack of handlers.  A message is handled when nothing runs, or on top of a
   handler that waits in a dialog. *)
Running == Last(handlers)
InDialog(h) == h.pc \in {"ask", "question", "notice"}
Pumping == handlers = <<>> \/ (Len(handlers) = 1 /\ InDialog(Running))
Set(h) == handlers' = Front(handlers) \o <<h>>
Return == handlers' = Front(handlers)

\* LoadDriveLetters: the notifications of a letter follow the volume that is listed there.
Notified(m) == [l \in Letters |-> m[l].hit]
\* CheckMountList: the list is loaded again when it differs from the last known one.
CheckMountList ==
    /\ known' = [l \in Letters |-> mnt[l].id]
    /\ reported' = Notified(mnt)
    /\ unreported' = unreported \ {mnt[l].id : l \in Letters}

\* MountVolume succeeds: a new volume at the letter with the options in force; the list
\* on the screen is loaded again (RefreshMainDlg).
NewVolume(l, v, ro, by) == [mnt EXCEPT ![l] = [NoVolume EXCEPT !.vol = v, !.id = lastId + 1,
                                                               !.ro = ro, !.by = by]]
Mountable(l, v) == l \in Free /\ ~Mounted(v) /\ v \in connected /\ lastId < MaxVolumeIds
MountAt(l, v, ro, by) ==
    /\ mnt' = NewVolume(l, v, ro, by) /\ lastId' = lastId + 1
RefreshMainDlg == reported' = Notified(mnt') /\ unreported' = unreported \ {mnt'[l].id : l \in Letters}

\* DriverUnmountVolume: the volumes at ls go; a triggered protection is shown once.
UnmountAt(ls) ==
    /\ mnt' = [l \in Letters |-> IF l \in ls THEN NoVolume ELSE mnt[l]]
    /\ reported' = [l \in Letters |-> reported[l] \/ (l \in ls /\ mnt[l].hit)]
    /\ unreported' = unreported \ {mnt[l].id : l \in {k \in ls : ~reported[k]}}

-----------------------------------------------------------------------------
(* MountSelectedVolume and Mount: the options are set, the mount list is checked, and the
   password is asked for.  (The cached passwords are tried first: CachedMount.) *)
MountSelectedVolume(l, v, ro) ==
    /\ handlers = <<>> /\ Mountable(l, v)
    /\ opts' = Options(ro)
    /\ CheckMountList
    /\ handlers' = <<[NoHandler EXCEPT !.kind = "mount", !.pc = "ask", !.l = l, !.vol = v, !.ro = ro]>>
    /\ wrongPwds' = 0 /\ volumePassword' = FALSE
    /\ UNCHANGED <<mnt, connected, multi, arrivalVars, lastId, events>>

\* ret: of Mount, and of MountFavoriteVolumes for a favorite.
MountReturns ==
    /\ volumePassword' = FALSE /\ multi' = FALSE
    /\ stillConnected' = IF Running.kind = "arrival" THEN stillConnected \cup {Running.vol}
                         ELSE stillConnected
    /\ Return
Asking == handlers # <<>> /\ Running.kind \in {"mount", "arrival"} /\ Running.pc = "ask"

CachedMount ==
    /\ Asking /\ wrongPwds = 0
    /\ Mountable(Running.l, Running.vol) /\ Running.vol \notin DamagedHeaders
    /\ MountAt(Running.l, Running.vol, opts.ro, Running.kind) /\ RefreshMainDlg
    /\ MountReturns
    /\ UNCHANGED <<connected, opts, wrongPwds, known, arrivals, events>>

\* MountVolume with the password of the dialog; after too many wrong ones the backup
\* header is tried as well.
OverLimit(n) == n > WrongPwdLimit
OpensContainer(v, right, backup) == right /\ (v \notin DamagedHeaders \/ backup)
AnswerPassword(right) ==
    /\ Asking
    /\ LET v == Running.vol
           wrong == Running.kind = "mount" /\ ~OpensContainer(v, right, FALSE)
           n == IF wrong THEN wrongPwds + 1 ELSE wrongPwds
       IN \/ /\ Mountable(Running.l, v) /\ OpensContainer(v, right, OverLimit(n))
             /\ MountAt(Running.l, v, opts.ro, Running.kind) /\ RefreshMainDlg
             /\ wrongPwds' = 0 /\ MountReturns
          \/ /\ Mountable(Running.l, v) /\ ~OpensContainer(v, right, OverLimit(n))   \* asked again
             /\ wrongPwds' = IF OverLimit(n) THEN WrongPwdLimit + 1 ELSE n
             /\ volumePassword' = multi              \* burnt unless several are mounted
             /\ UNCHANGED <<mnt, lastId, handlers, multi, stillConnected, reported,
                            unreported>>
    /\ UNCHANGED <<connected, opts, known, arrivals, events>>

\* The dialog is cancelled, or MountVolume fails for another reason.
CancelPassword ==
    /\ Asking /\ MountReturns
    /\ UNCHANGED <<mnt, connected, opts, wrongPwds, known, reported, arrivals, lastId, events,
                   unreported>>

-----------------------------------------------------------------------------
(* MountAllDevices: one password for all devices, each on the first free letter; when
   nothing opens too often, the same password once more with the backup headers. *)
MountAllDevices ==
    /\ handlers = <<>> /\ Free # {} /\ lastId < MaxVolumeIds
    /\ handlers' = <<[NoHandler EXCEPT !.kind = "mountAll", !.pc = "ask"]>>
    /\ opts' = Options(FALSE) /\ wrongPwds' = 0 /\ multi' = TRUE /\ volumePassword' = FALSE
    /\ UNCHANGED <<mnt, connected, known, reported, arrivalVars, lastId,
                   events, unreported>>

AnswerAll(right) ==
    /\ handlers # <<>> /\ Running.kind = "mountAll" /\ Running.pc = "ask"
    /\ LET n == wrongPwds + 1
           opened == {v \in Containers : OpensContainer(v, right, OverLimit(n))
                                         /\ \E l \in Letters : Mountable(l, v)}
       IN \/ /\ opened # {} /\ wrongPwds' = 0 /\ volumePassword' = TRUE
             /\ Set([Running EXCEPT !.pc = "devices", !.vols = opened])
             /\ opts' = [opts EXCEPT !.backup = OverLimit(n)]
          \/ /\ opened = {} /\ Free # {} /\ wrongPwds' = IF OverLimit(n) THEN WrongPwdLimit + 1 ELSE n
             /\ volumePassword' = FALSE
             /\ UNCHANGED <<handlers, opts>>
    /\ UNCHANGED <<mnt, connected, multi, known, reported, arrivalVars, lastId, events,
                   unreported>>

MountNextDevice ==
    /\ handlers # <<>> /\ Running.kind = "mountAll" /\ Running.pc = "devices"
    /\ \E v \in Running.vols :
         /\ \/ \E l \in Free : /\ Mountable(l, v) /\ \A k \in Free : l <= k
                               /\ MountAt(l, v, opts.ro, "mountAll") /\ RefreshMainDlg
            \/ /\ \A l \in Free : ~Mountable(l, v)
               /\ UNCHANGED <<mnt, lastId, reported, unreported>>
         /\ Set([Running EXCEPT !.vols = @ \ {v}])
    /\ UNCHANGED <<connected, secretVars, known, arrivalVars, events>>

MountAllReturns ==
    /\ handlers # <<>> /\ Running.kind = "mountAll"
    /\ Running.pc = "ask" \/ Running.vols = {}
    /\ volumePassword' = FALSE /\ multi' = FALSE /\ opts' = [opts EXCEPT !.backup = FALSE]
    /\ Return
    /\ UNCHANGED <<mnt, connected, wrongPwds, known, reported, arrivalVars,
                   lastId, events, unreported>>

-----------------------------------------------------------------------------
(* UnmountVolume of one letter and DismountAll: the driver is called again while files
   are open; then the user may force it. *)
Dismount(l) ==
    /\ handlers = <<>> /\ mnt[l] # NoVolume
    /\ CheckMountList
    /\ handlers' = <<[NoHandler EXCEPT !.kind = "dismount", !.pc = "call", !.l = l,
                                       !.interact = TRUE, !.tries = DismountRetries]>>
    /\ UNCHANGED <<mnt, connected, secretVars, arrivalVars, lastId,
                   events>>

StartDismountAll(force, interact, tries) ==
    /\ Pumping /\ (\A h \in Range(handlers) : h.kind # "all") /\ Free # Letters
    /\ handlers' = Append(handlers, [NoHandler EXCEPT !.kind = "all", !.pc = "call", !.force = force,
                                                      !.interact = interact, !.tries = tries])
    /\ UNCHANGED <<mnt, connected, secretVars, known, reported, arrivalVars,
                   lastId, events, unreported>>

Unmountable(l, force) == mnt[l] # NoVolume /\ (force \/ ~mnt[l].open)
CallUnmount ==
    /\ handlers # <<>> /\ Running.kind = "dismount" /\ Running.pc = "call"
    /\ \/ /\ mnt[Running.l] = NoVolume \/ Unmountable(Running.l, Running.force)
          /\ UnmountAt({Running.l} \ Free)
          /\ Return
       \/ /\ mnt[Running.l] # NoVolume /\ ~Unmountable(Running.l, Running.force)
          /\ Set(IF Running.tries > 1 THEN [Running EXCEPT !.tries = @ - 1]
                 ELSE [Running EXCEPT !.pc = "question", !.tries = 0])
          /\ UNCHANGED <<mnt, reported, unreported>>
    /\ UNCHANGED <<connected, secretVars, known, arrivalVars, lastId,
                   events>>

\* UnmountAllDevices: from the last mounted to the first, until one whose protection was
\* triggered is dismounted.
UnmountedBy(force) ==
    LET able == {l \in Letters : Unmountable(l, force)}
        hits == {l \in able : mnt[l].hit}
        from == IF hits = {} THEN 0 ELSE CHOOSE i \in {mnt[l].id : l \in hits} :
                                            \A l \in hits : mnt[l].id <= i
    IN {l \in able : mnt[l].id >= from}
AllCallResult(force) ==
    LET gone == UnmountedBy(force)
        hits == {l \in gone : mnt[l].hit}
        past == {l \in Letters \ gone : mnt[l] # NoVolume
                    /\ (hits = {} \/ \E h \in hits : mnt[l].id > mnt[h].id)}
    IN CASE past # {} -> "filesOpen"
         [] past = {} /\ \E l \in hits : ~reported[l] -> "tell"
         [] OTHER -> "success"

\* The list is loaded again at the end (RefreshMainDlg); the retries are not renewed
\* when the user forces the dismounting.
CallUnmountAll ==
    /\ handlers # <<>> /\ Running.kind = "all" /\ Running.pc = "call"
    /\ LET r == AllCallResult(Running.force)
           left == IF Running.tries = 0 THEN 0 ELSE Running.tries - 1
       IN /\ UnmountAt(UnmountedBy(Running.force))
          /\ CASE r = "tell" -> Set([Running EXCEPT !.pc = "notice", !.tries = left])
               [] r = "filesOpen" /\ left > 0 -> Set([Running EXCEPT !.tries = left])
               [] r = "filesOpen" /\ left = 0 /\ Running.interact ->
                     Set([Running EXCEPT !.pc = "question", !.tries = 0])
               [] OTHER -> Return
    /\ UNCHANGED <<connected, secretVars, known, arrivalVars, lastId, events>>

\* The message about the protected hidden volume is closed: the loop goes on while
\* retries are left.
CloseNotice ==
    /\ handlers # <<>> /\ Running.pc = "notice"
    /\ IF Running.tries > 0 THEN Set([Running EXCEPT !.pc = "call"]) ELSE Return
    /\ UNCHANGED <<mnt, connected, secretVars, known, reported, arrivalVars, lastId,
                   events, unreported>>

\* DismountAll returns TRUE.
DismountAllSucceeds == CallUnmountAll /\ AllCallResult(Running.force) = "success"

AnswerForce(yes) ==
    /\ handlers # <<>> /\ Running.pc = "question"
    /\ IF yes THEN Set([Running EXCEPT !.pc = "call", !.force = TRUE]) ELSE Return
    /\ UNCHANGED <<mnt, connected, secretVars, known, reported, arrivalVars, lastId,
                   events, unreported>>

-----------------------------------------------------------------------------
(* WM_TIMER, every half second, also while a dialog is open. *)
TimerCheck ==
    /\ Pumping /\ (known # [l \in Letters |-> mnt[l].id] \/ reported # Notified(mnt))
    /\ CheckMountList
    /\ UNCHANGED <<mnt, connected, handlers, secretVars, arrivalVars, lastId, events>>

\* DismountIdleVolumes dismounts one of the last known volumes (when: IdleVolumes).
DismountIdle(l) ==
    /\ Pumping /\ known[l] # 0 /\ Unmountable(l, ForceAutoDismount)
    /\ UnmountAt({l})
    /\ UNCHANGED <<connected, handlers, secretVars, known, arrivalVars, lastId, events>>

\* Favorites on arrival: mounted once while their host stays connected.
MountOnArrival(v) ==
    /\ Pumping /\ (\A h \in Range(handlers) : h.kind # "arrival")
    /\ v \in ArrivalFavorites \ stillConnected /\ v \in connected /\ ~Mounted(v)
    /\ known[FavoriteLetter[v]] = 0
    /\ opts' = Options(TRUE) /\ volumePassword' = FALSE /\ multi' = TRUE /\ wrongPwds' = 0
    /\ handlers' = Append(handlers, [NoHandler EXCEPT !.kind = "arrival", !.pc = "ask",
                                         !.l = FavoriteLetter[v], !.vol = v, !.ro = TRUE])
    /\ arrivals' = [arrivals EXCEPT ![v] = @ + 1]
    /\ UNCHANGED <<mnt, connected, known, reported, stillConnected, lastId, events, unreported>>

\* The letter of the favorite is in use: it counts as mounted until its host is removed.
SkipArrival(v) ==
    /\ Pumping /\ v \in ArrivalFavorites \ stillConnected /\ v \in connected
    /\ Mounted(v) \/ known[FavoriteLetter[v]] # 0
    /\ stillConnected' = stillConnected \cup {v}
    /\ UNCHANGED <<mnt, connected, handlers, secretVars, known, reported, arrivals,
                   lastId, events, unreported>>

ForgetArrivals ==
    /\ Pumping
    /\ \E v \in stillConnected : v \notin connected /\ ~Mounted(v)
    /\ stillConnected' = {v \in stillConnected : v \in connected \/ Mounted(v)}
    /\ UNCHANGED <<mnt, connected, handlers, secretVars, known, reported, arrivals,
                   lastId, events, unreported>>

\* WM_DEVICECHANGE: volumes whose host is gone are dismounted by force.
DeviceRemoved ==
    /\ Pumping
    /\ LET gone == {l \in Letters : mnt[l] # NoVolume /\ mnt[l].vol \notin connected}
       IN gone # {} /\ UnmountAt(gone)
    /\ known' = [l \in Letters |-> mnt[l].id]
    /\ UNCHANGED <<connected, handlers, secretVars, arrivalVars, lastId,
                   events>>

-----------------------------------------------------------------------------
(* The environment: programs use the volumes, hosts come and go, a second instance
   mounts and dismounts. *)
EnvStep == events < MaxEvents /\ events' = events + 1
VolumeIo(l) ==
    /\ EnvStep /\ mnt[l] # NoVolume
    /\ \/ \E o \in BOOLEAN : mnt' = [mnt EXCEPT ![l].open = o] /\ UNCHANGED unreported
       \/ /\ ~mnt[l].hit /\ mnt' = [mnt EXCEPT ![l].hit = TRUE]
          /\ unreported' = unreported \cup {mnt[l].id}
    /\ UNCHANGED <<connected, handlers, secretVars, known, reported, arrivalVars,
                   lastId>>
HostRemoved(v) ==
    /\ EnvStep /\ v \in connected /\ connected' = connected \ {v}
    /\ UNCHANGED <<mnt, handlers, secretVars, known, reported, arrivalVars,
                   lastId, unreported>>
HostConnected(v) ==
    /\ EnvStep /\ v \notin connected /\ connected' = connected \cup {v}
    /\ arrivals' = [arrivals EXCEPT ![v] = 0]
    /\ UNCHANGED <<mnt, handlers, secretVars, known, reported, stillConnected,
                   lastId, unreported>>
\* It does not replace, between two timer messages, a volume whose warning was shown.
OtherMount(l, v) ==
    /\ EnvStep /\ Mountable(l, v) /\ ~reported[l]
    /\ MountAt(l, v, FALSE, "other")
    /\ UNCHANGED <<connected, handlers, secretVars, known, reported, arrivalVars,
                   unreported>>
OtherUnmount(l) ==
    /\ EnvStep /\ Unmountable(l, FALSE)
    /\ mnt' = [mnt EXCEPT ![l] = NoVolume] /\ unreported' = unreported \ {mnt[l].id}
    /\ UNCHANGED <<connected, handlers, secretVars, known, reported, arrivalVars,
                   lastId>>

HandlerStep ==
    \/ MountNextDevice \/ CallUnmount \/ CallUnmountAll
UserStep ==
    \/ \E l \in Letters, v \in Containers, ro \in UserOptions : MountSelectedVolume(l, v, ro)
    \/ CachedMount \/ CancelPassword \/ MountAllDevices \/ MountAllReturns \/ CloseNotice
    \/ \E b \in BOOLEAN : AnswerPassword(b) \/ AnswerAll(b) \/ AnswerForce(b)
    \/ \E l \in Letters : Dismount(l)
    \/ StartDismountAll(FALSE, TRUE, DismountRetries)           \* menu, hot key, power saving
    \/ StartDismountAll(TRUE, FALSE, DismountRetries)           \* hot key, screen saver
    \/ StartDismountAll(FALSE, FALSE, 1)                        \* end of the session
TimerStep ==
    \/ TimerCheck \/ ForgetArrivals \/ DeviceRemoved
    \/ \E l \in Letters : DismountIdle(l)
    \/ \E v \in Containers : MountOnArrival(v) \/ SkipArrival(v)
Environment ==
    \/ \E l \in Letters : VolumeIo(l) \/ OtherUnmount(l) \/ \E v \in Containers : OtherMount(l, v)
    \/ \E v \in Containers : HostRemoved(v) \/ HostConnected(v)

VNext == HandlerStep \/ UserStep \/ TimerStep \/ Environment
VSpec == VInit /\ [][VNext]_vVars
VFairSpec == VSpec /\ WF_vVars(HandlerStep)

-----------------------------------------------------------------------------
(* The types of the mount list and of the handlers. *)
VTypeOK ==
    /\ \A l \in Letters : mnt[l].id \in 0 .. MaxVolumeIds
    /\ Len(handlers) <= 2 /\ wrongPwds \in 0 .. WrongPwdLimit + 1
    /\ \A h \in Range(handlers) : h.tries \in 0 .. DismountRetries

(* When no handler runs the password is burnt, no operation on several volumes is in
   progress and the next mount does not use the backup header unasked, whatever handler
   ran on top of which ("These items should have already been cleared by the functions
   that used them", Mount.c:162). *)
IdleIsClean == handlers = <<>> => ~volumePassword /\ ~multi /\ ~opts.backup

(* A favorite volume that is mounted on arrival is mounted with its own options, also
   when it arrives while the user is being asked for another password. *)
FavoriteOptions == \A l \in Letters : mnt[l].by = "arrival" => mnt[l].ro

(* A favorite is mounted on arrival at most once while its host stays connected: a
   volume the user dismounts is not mounted again. *)
ArrivalOnce == \A v \in Containers : arrivals[v] <= 1

(* The user is told of every prevented damage to a hidden volume before the volume is
   gone, and the note of it never passes to the next volume at the letter. *)
PreventionReported ==
    \A i \in unreported : \E l \in Letters : mnt[l].id = i

(* A dismounting that is not waiting for the user ends or asks: the retries are bounded. *)
RetriesEnd ==
    \A k \in 1 .. 2 : (Len(handlers) = k /\ Running.pc = "call") ~>
                      (Len(handlers) # k \/ Running.pc # "call")

(* "CipherShed volumes have been dismounted" (Language.xml:955), the message for a
   DismountAll that returns TRUE: no volume is mounted. *)
AllDismounted == [][DismountAllSucceeds => \A l \in Letters : mnt'[l] = NoVolume]_vVars

(* The options that were in force when the user started a mount are those the volume is
   mounted with: "some code calling this relies on the content of the mountOptions struct
   to remain unmodified" (Dlgcode.c:5622). *)
OptionsUnmodified ==
    [][\A l \in Letters : mnt[l] = NoVolume /\ mnt'[l].by = "mount" => mnt'[l].ro = Running.ro]_vVars

(* The mount manager: no option of one mount stays for the next, favorites get their
   own, an arriving device is mounted once and a triggered protection is reported. *)
ManagerSound == VTypeOK /\ IdleIsClean /\ FavoriteOptions /\ ArrivalOnce /\ PreventionReported
=============================================================================
