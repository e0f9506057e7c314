--------------------------- MODULE VolumeHeaders ---------------------------
(***************************************************************************)
(* The headers of a volume on its host and the operations that rewrite     *)
(* them: the change of the password (ChangePwd, Common/Password.c), the    *)
(* external backup of the headers and the restoration from the backup in   *)
(* the volume or from the external one (BackupVolumeHeader and             *)
(* RestoreVolumeHeader, Mount/Mount.c).  A header is what it opens with    *)
(* and the volume it opens; the salt of each writing is left out.  A       *)
(* writing of a header is one sector: it happens or not, unless power is   *)
(* lost in the middle of it, which leaves junk.                            *)
(***************************************************************************)
EXTENDS Naturals, FiniteSets

CONSTANTS
    HeaderPasswords,   \* the passwords of the user
    HeaderPasses,      \* PRAND_DISK_WIPE_PASSES
    MaxHeaderOps,      \* bound: operations
    MaxTorn            \* bound: writings cut in the middle

\* "none" stands for no password; a header is written at least once (PRAND_DISK_WIPE_PASSES).
ASSUME HeaderAssumption == "none" \notin HeaderPasswords /\ HeaderPasses \in Nat \ {0}

Kinds == {"outer", "hidden"}
HeaderSlots == {"normal", "hidden", "hiddenLegacy", "backupNormal", "backupHidden"}
Junk == [pwd |-> "none", kind |-> "none"]
HeaderWith(p, k) == [pwd |-> p, kind |-> k]

VARIABLES
    layout,            \* "current", "legacy" (no backup headers) or "inPlace" (version 4)
    kinds,             \* the volumes on the host
    slots,             \* the headers on the host
    backupFile,        \* the external backup: its state and a header per kind
    hop,               \* the operation in progress
    interrupted,       \* kinds whose last rewriting did not end well
    torn, headerOps

hVars == <<layout, kinds, slots, backupFile, hop, interrupted, torn, headerOps>>

Idle == [op |-> "idle", kind |-> "none", old |-> "none", new |-> "none", copy |-> "primary",
         pass |-> 0, status |-> "none"]

SlotIn(l, k, copy) ==
    CASE copy = "primary" /\ k = "outer" -> "normal"
      [] copy = "primary" /\ k = "hidden" -> IF l = "legacy" THEN "hiddenLegacy" ELSE "hidden"
      [] copy = "backup"  /\ k = "outer" -> "backupNormal"
      [] copy = "backup"  /\ k = "hidden" -> "backupHidden"
HeaderCopies(l) == IF l = "legacy" THEN {"primary"} ELSE {"primary", "backup"}
SlotOf(k, copy) == SlotIn(layout, k, copy)
Copies == HeaderCopies(layout)

HInit ==
    /\ layout = "none" /\ kinds = {} /\ slots = [s \in HeaderSlots |-> Junk]
    /\ backupFile = [state |-> "none", outer |-> Junk, hidden |-> Junk]
    /\ hop = Idle /\ interrupted = {} /\ torn = 0 /\ headerOps = 0

\* The volume, and perhaps a hidden volume in it, is created: both copies of its headers.
CreateVolumes(l, ks, outerPwd, hiddenPwd) ==
    /\ layout = "none" /\ (l = "inPlace" => ks = {"outer"})
    /\ layout' = l /\ kinds' = ks
    /\ slots' = [s \in HeaderSlots |->
                   CASE \E c \in HeaderCopies(l) : s = SlotIn(l, "outer", c) -> HeaderWith(outerPwd, "outer")
                     [] "hidden" \in ks /\ (\E c \in HeaderCopies(l) : s = SlotIn(l, "hidden", c)) ->
                           HeaderWith(hiddenPwd, "hidden")
                     [] OTHER -> Junk]
    /\ UNCHANGED <<backupFile, hop, interrupted, torn, headerOps>>

-----------------------------------------------------------------------------
(* ReadVolumeHeader on the slots of the volume types in turn: the kind the password
   opens first, or "none". *)
OpensAt(s, p) == slots[s].pwd = p
FirstOpen(p, order) ==
    IF \E i \in DOMAIN order : OpensAt(order[i], p)
    THEN slots[order[CHOOSE i \in DOMAIN order : /\ OpensAt(order[i], p)
                                                 /\ \A j \in 1 .. i - 1 : ~OpensAt(order[j], p)]].kind
    ELSE "none"
OpenPrimary(p) == FirstOpen(p, <<"normal", "hidden", "hiddenLegacy">>)
OpenBackup(p)  == FirstOpen(p, <<"backupNormal", "backupHidden">>)
OpenBackupFile(p) ==
    CASE backupFile.outer.pwd = p -> "outer"
      [] backupFile.outer.pwd # p /\ backupFile.hidden.pwd = p -> "hidden"
      [] OTHER -> "none"

StartOp(o) ==
    /\ hop.op = "idle" /\ headerOps < MaxHeaderOps
    /\ hop' = o /\ headerOps' = headerOps + 1

\* ChangePwd up to the first writing: the type of the volume the old password opens.
ChangePwd(old, new) ==
    /\ OpenPrimary(old) # "none"
    /\ StartOp([Idle EXCEPT !.op = "change", !.kind = OpenPrimary(old), !.old = old, !.new = new])
    /\ UNCHANGED <<layout, kinds, slots, backupFile, interrupted, torn>>

\* RestoreVolumeHeader from the backup in the volume: only the primary header is written.
RestoreInternal(p) ==
    /\ OpenBackup(p) # "none" /\ layout # "legacy"
    /\ StartOp([Idle EXCEPT !.op = "restoreInternal", !.kind = OpenBackup(p), !.new = p])
    /\ UNCHANGED <<layout, kinds, slots, backupFile, interrupted, torn>>

\* RestoreVolumeHeader from a file: the primary header, then the backup.
RestoreExternal(p) ==
    /\ backupFile.state = "written"
    /\ OpenBackupFile(p) # "none"
    /\ StartOp([Idle EXCEPT !.op = "restoreExternal", !.kind = OpenBackupFile(p), !.new = p])
    /\ UNCHANGED <<layout, kinds, slots, backupFile, interrupted, torn>>

-----------------------------------------------------------------------------
\* Mutant of Target: the header of a hidden volume is written over the outer one.
TargetNormal == SlotOf("outer", hop.copy)

Target == SlotOf(hop.kind, hop.copy)
ReservedOf(copy) == IF copy = "primary" THEN "hidden" ELSE "backupHidden"
WithHeader(content) ==
    [s \in HeaderSlots |->
        CASE s = Target -> content
          [] layout = "inPlace" /\ hop.op = "change" /\ s = ReservedOf(hop.copy) -> Junk
          [] OTHER -> slots[s]]

Passes == IF hop.op = "change" THEN HeaderPasses ELSE 1
HasBackupStage == hop.op # "restoreInternal" /\ layout # "legacy"
Advance ==
    CASE hop.pass + 1 < Passes -> [hop EXCEPT !.pass = @ + 1]
      [] hop.pass + 1 = Passes /\ hop.copy = "primary" /\ HasBackupStage ->
            [hop EXCEPT !.pass = 0, !.copy = "backup"]
      [] OTHER -> [hop EXCEPT !.op = "done", !.pass = 0, !.status = "success"]

WriteHeader ==
    /\ hop.op \in {"change", "restoreInternal", "restoreExternal"}
    /\ slots' = WithHeader(HeaderWith(hop.new, hop.kind))
    /\ hop' = Advance
    /\ interrupted' = IF Advance.status = "success" THEN interrupted \ {hop.kind} ELSE interrupted
    /\ UNCHANGED <<layout, kinds, backupFile, torn, headerOps>>

\* No random data, a failed seek or a failed writing: the operation ends where it is.
WriteHeaderFails ==
    /\ hop.op \in {"change", "restoreInternal", "restoreExternal"}
    /\ hop' = [hop EXCEPT !.op = "done", !.status = "error"]
    /\ interrupted' = interrupted \cup {hop.kind}
    /\ UNCHANGED <<layout, kinds, slots, backupFile, torn, headerOps>>

\* The computer stops between two writings, or in the middle of one.
HeaderCrash ==
    /\ hop.op \in {"change", "restoreInternal", "restoreExternal"}
    /\ \/ UNCHANGED <<slots, torn>>
       \/ torn < MaxTorn /\ torn' = torn + 1 /\ slots' = [slots EXCEPT ![Target] = Junk]
    /\ hop' = Idle /\ interrupted' = interrupted \cup {hop.kind}
    /\ UNCHANGED <<layout, kinds, backupFile, headerOps>>

HeaderOpReturns ==
    /\ hop.op = "done"
    /\ hop' = Idle
    /\ UNCHANGED <<layout, kinds, slots, backupFile, interrupted, torn, headerOps>>

-----------------------------------------------------------------------------
(* BackupVolumeHeader: both volumes are opened, the file is truncated, and only then the
   headers are encrypted with new salts and written to it. *)
BackupVolumeHeader(p, q, withHidden) ==
    /\ OpenPrimary(p) = "outer" /\ (withHidden => OpenPrimary(q) = "hidden")
    /\ StartOp([Idle EXCEPT !.op = "backup", !.old = p, !.new = IF withHidden THEN q ELSE "none"])
    /\ backupFile' = [state |-> "empty", outer |-> Junk, hidden |-> Junk]
    /\ UNCHANGED <<layout, kinds, slots, interrupted, torn>>

WriteBackupFile ==
    /\ hop.op = "backup"
    /\ backupFile' = [state |-> "written", outer |-> HeaderWith(hop.old, "outer"),
                      hidden |-> IF hop.new = "none" THEN Junk ELSE HeaderWith(hop.new, "hidden")]
    /\ hop' = [hop EXCEPT !.op = "done", !.status = "success"]
    /\ UNCHANGED <<layout, kinds, slots, interrupted, torn, headerOps>>

BackupFileFails ==
    /\ hop.op = "backup"
    /\ hop' = [hop EXCEPT !.op = "done", !.status = "error"]
    /\ UNCHANGED <<layout, kinds, slots, backupFile, interrupted, torn, headerOps>>

HNext ==
    \/ \E l \in {"current", "legacy", "inPlace"}, ks \in {{"outer"}, Kinds}, p, q \in HeaderPasswords :
          CreateVolumes(l, ks, p, q)
    \/ \E p, q \in HeaderPasswords : ChangePwd(p, q)
    \/ \E p \in HeaderPasswords : RestoreInternal(p) \/ RestoreExternal(p)
    \/ \E p, q \in HeaderPasswords, h \in BOOLEAN : BackupVolumeHeader(p, q, h)
    \/ WriteHeader \/ WriteHeaderFails \/ HeaderCrash \/ HeaderOpReturns
    \/ WriteBackupFile \/ BackupFileFails

HSpec == HInit /\ [][HNext]_hVars

-----------------------------------------------------------------------------
(* The types of the headers on the host and of the operation. *)
HTypeOK ==
    /\ slots \in [HeaderSlots -> {Junk} \cup [pwd : HeaderPasswords, kind : Kinds]]
    /\ hop.pass \in 0 .. HeaderPasses /\ hop.copy \in {"primary", "backup"}
    /\ interrupted \subseteq kinds

(* Some header of every volume on the host opens it, whatever operation was interrupted
   and wherever: a volume with backup headers survives one writing cut in the middle, a
   legacy volume none ("During each pass we will write a valid working header"). *)
SomeHeaderOpens ==
    torn < Cardinality(Copies) =>
        \A k \in kinds : \E c \in Copies : slots[SlotOf(k, c)].kind = k

(* A password change that reports success leaves no header of that volume that the old
   password opens: the backup header is rewritten too. *)
OldPasswordGone ==
    hop.op = "done" /\ hop.status = "success" /\ hop.old \notin {hop.new, "none"} /\ hop.kind # "none" =>
        \A c \in Copies : slots[SlotOf(hop.kind, c)].pwd = hop.new

(* The two headers of a volume open with the same password unless a rewriting is in
   progress or was the last one and failed. *)
CopiesAgree ==
    \A k \in kinds \ interrupted :
        hop.kind # k => \A c \in Copies : slots[SlotOf(k, c)] = slots[SlotOf(k, "primary")]

(* Rewriting the headers of one volume never touches a header of the other. *)
KindsApart ==
    [][\A k \in kinds : k # hop.kind => \A c \in Copies :
           slots'[SlotOf(k, c)] = slots[SlotOf(k, c)]]_hVars

(* Through failures and power losses some header opens, the old password does not
   outlive a completed change, and the two copies agree. *)
HeadersSound == HTypeOK /\ SomeHeaderOpens /\ OldPasswordGone /\ CopiesAgree
=============================================================================
