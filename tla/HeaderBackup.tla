---------------------------- MODULE HeaderBackup ----------------------------
(***************************************************************************)
(* Backup and restoration of volume headers by the three programs: Mount   *)
(* of Windows (Mount.c, OpenVolume of Dlgcode.c), the graphical and the    *)
(* text program of Unix (GraphicUserInterface.cpp, TextUserInterface.cpp,  *)
(* Volume::Open and the layouts of VolumeLayout.cpp), and the change of    *)
(* the password by CoreBase.cpp, which rewrites the same headers.          *)
(*                                                                         *)
(* A host has five places for headers.  A header is what it decrypts to:   *)
(* the volume it opens (outer or hidden, one key each), its layout and the *)
(* password that opens it.  A write replaces the first sector of a place,  *)
(* all that is read of it, and is atomic.  The two volumes of a host have  *)
(* different passwords.                                                    *)
(***************************************************************************)
EXTENDS Integers, Sequences, FiniteSets

CONSTANTS HbPasses,      \* PRAND_DISK_WIPE_PASSES, SecureWipePassCount
          MaxHbOps,      \* operations started, a bound of the model
          MaxHbFaults    \* failures of a request, crashes and damaged headers, a bound of the model

ASSUME HeaderBackupConstants == HbPasses \in Nat \ {0} /\ MaxHbOps \in Nat /\ MaxHbFaults \in Nat

VARIABLES hbHost,  \* the host of the volume
          hdr,     \* the headers in its places
          bak,     \* the backup file
          hb,      \* the operation that runs
          hbPast   \* what happened so far

hbVars == <<hbHost, hdr, bak, hb, hbPast>>

HbPrograms == {"win", "gui", "text"}
Kinds == {"outer", "hidden"}
Places == {"normal", "hidden", "bnormal", "bhidden", "lhidden"}
HbPasswords == {"a", "b", "c"}
Garbage == [kind |-> "none", layout |-> "none", pwd |-> "none"]
HeaderOf(kind, layout, p) == [kind |-> kind, layout |-> layout, pwd |-> p]

(* A partition with a hidden volume on a disk of 4096-byte sectors, a file with an
   outer volume only, the same two in the old layout, the last too short for a
   header of the new layout, and a volume the Windows program keeps off. *)
HostOf(layout, hid, dev, big, small, refused) ==
    [layout |-> layout, hidden |-> hid, device |-> dev, bigSectors |-> big, small |-> small,
     mounted |-> refused]
HbHosts == {HostOf("V2", TRUE, TRUE, TRUE, FALSE, FALSE), HostOf("V2", FALSE, FALSE, FALSE, FALSE, TRUE),
            HostOf("V1", TRUE, TRUE, FALSE, FALSE, FALSE), HostOf("V1", FALSE, FALSE, FALSE, TRUE, FALSE)}

KindsOf(h) == IF h.hidden THEN Kinds ELSE {"outer"}

\* Where the layouts keep the header of a volume, and its copy.
HeaderOffset(kind, layout) ==
    IF kind = "outer" THEN "normal" ELSE IF layout = "V1" THEN "lhidden" ELSE "hidden"
BackupHeaderOffset(kind) == IF kind = "outer" THEN "bnormal" ELSE "bhidden"
HasBackupHeader(layout) == layout = "V2"

PlacesOf(kind, layout) ==
    {HeaderOffset(kind, layout)} \union (IF HasBackupHeader(layout) THEN {BackupHeaderOffset(kind)} ELSE {})

---------------------------------------------------------------------------
(* Opening a volume.  The result is the header and where it was read.      *)

Fails(how) == [status |-> how, kind |-> "none", layout |-> "none"]
HeaderOpened(h) == [status |-> "ok", kind |-> h.kind, layout |-> h.layout]

\* The first of the places whose header the password decrypts.
FirstOf(places, p) ==
    LET hits == {i \in 1 .. Len(places) : hdr[places[i]].pwd = p}
    IN  IF hits = {} THEN Fails("wrong")
        ELSE HeaderOpened(hdr[places[CHOOSE i \in hits : \A j \in hits : i <= j]])

\* OpenVolume of Dlgcode.c: normal, hidden, legacy hidden; the last has no backup.
OpenVolume(p, useBackupHeader) ==
    IF useBackupHeader
    THEN IF hbHost.small THEN Fails("error") ELSE FirstOf(<<"bnormal", "bhidden">>, p)
    ELSE FirstOf(<<"normal">> \o (IF hbHost.small THEN <<>> ELSE <<"hidden">>)
                 \o (IF hbHost.device /\ hbHost.bigSectors THEN <<>> ELSE <<"lhidden">>), p)

(* The layouts in the order of GetAvailableLayouts.  V2Normal also decrypts what
   V1Normal would and then becomes it, so V1Normal is skipped unless the host was
   too short for V2Normal. *)
LayoutsOf(type) ==
    SelectSeq(<<[kind |-> "outer", layout |-> "V2"], [kind |-> "outer", layout |-> "V1"],
                [kind |-> "hidden", layout |-> "V2"], [kind |-> "hidden", layout |-> "V1"]>>,
              LAMBDA l : type \in {"unknown", l.kind})

Tested(l, useBackupHeaders) ==
    /\ useBackupHeaders => HasBackupHeader(l.layout)
    /\ ~(l.kind = "hidden" /\ l.layout = "V1" /\ hbHost.device /\ hbHost.bigSectors)
    /\ IF l.layout = "V2" THEN ~hbHost.small ELSE l.kind = "outer" => hbHost.small

VolumeOpen(p, type, useBackupHeaders) ==
    IF useBackupHeaders /\ hbHost.small THEN Fails("error")
    ELSE LET tested == SelectSeq(LayoutsOf(type), LAMBDA l : Tested(l, useBackupHeaders))
         IN  FirstOf([i \in 1 .. Len(tested) |->
                         IF useBackupHeaders THEN BackupHeaderOffset(tested[i].kind)
                         ELSE HeaderOffset(tested[i].kind, tested[i].layout)], p)

\* What a program opens when it asks for a volume of some type.
OpenedBy(prog, p, type, useBackupHeaders) ==
    IF prog = "win"
    THEN LET r == OpenVolume(p, useBackupHeaders)
         IN  IF r.status = "ok" /\ type \notin {"unknown", r.kind} THEN Fails("wrong") ELSE r
    ELSE VolumeOpen(p, type, useBackupHeaders)

---------------------------------------------------------------------------

Idle == [op |-> "none", prog |-> "none", pc |-> "none", kind |-> "none", layout |-> "none",
         pwd |-> "none", hpwd |-> "none", pass |-> 0]

InitialHeader(h, s) ==
    LET kind == CHOOSE k \in Kinds : k = "outer" <=> s \in {"normal", "bnormal"}
    IN  IF kind \in KindsOf(h) /\ s \in PlacesOf(kind, h.layout)
        THEN HeaderOf(kind, h.layout, IF kind = "outer" THEN "a" ELSE "b") ELSE Garbage

HbInit ==
    /\ hbHost \in HbHosts
    /\ hdr = [s \in Places |-> InitialHeader(hbHost, s)]
    /\ bak = [state |-> "absent", layout |-> "none", headers |-> <<>>]
    /\ hb = Idle
    /\ hbPast = [ops |-> 0, faults |-> 0, damaged |-> {}, crashed |-> FALSE, owner |-> "root",
                 given |-> [k \in Kinds |-> IF k = "outer" THEN {"a"} ELSE {"b"}],
                 restored |-> <<"none", "none">>]

Fault == hbPast.faults < MaxHbFaults
Faulted == [hbPast EXCEPT !.faults = @ + 1]

(* The operation ends; the graphical program gives the device back (finally_do). *)
EndsWith(past) ==
    /\ hb' = Idle
    /\ hbPast' = [past EXCEPT !.owner = IF hb.prog = "gui" THEN "root" ELSE @]

\* The program starts; the graphical one makes the user the owner of a device first.
StartOperation(prog, op) ==
    /\ hb.op = "none" /\ hbPast.ops < MaxHbOps
    /\ prog = "win" => ~hbHost.mounted
    /\ hb' = [Idle EXCEPT !.op = op, !.prog = prog, !.kind = "outer",
                          !.pc = IF op = "restore" THEN "askFile" ELSE "askPassword"]
    /\ hbPast' = [hbPast EXCEPT !.ops = @ + 1, !.restored = <<"none", "none">>,
                                !.owner = IF prog = "gui" /\ hbHost.device THEN "user" ELSE @]
    /\ UNCHANGED <<hbHost, hdr, bak>>

\* The user cancels a dialog or a question before anything is written.
Cancel ==
    /\ hb.pc \in {"askPassword", "askHidden", "askFile", "askBackupPassword"}
    /\ EndsWith(hbPast)
    /\ UNCHANGED <<hbHost, hdr, bak>>

---------------------------------------------------------------------------
(* BackupVolumeHeader(s): both volumes are opened, then the file is        *)
(* truncated and written, at once on Windows, header by header on Unix.    *)

\* A wrong password is asked for again, any other error ends the operation.
EnterPassword(p) ==
    /\ hb.op = "backup" /\ hb.pc = "askPassword"
    /\ LET r == OpenedBy(hb.prog, p, hb.kind, FALSE)
       IN  /\ r.status = "ok"
           /\ IF hb.kind = "hidden" /\ r.layout # hb.layout THEN EndsWith(hbPast)   \* ParameterIncorrect
              ELSE /\ hb' = IF hb.kind = "outer" THEN [hb EXCEPT !.pc = "askHidden", !.layout = r.layout, !.pwd = p]
                            ELSE [hb EXCEPT !.pc = "createFile", !.hpwd = p]
                   /\ UNCHANGED hbPast
    /\ UNCHANGED <<hbHost, hdr, bak>>

\* Does the volume contain a hidden volume?
AnswerHidden(yes) ==
    /\ hb.pc = "askHidden"
    /\ hb' = IF yes THEN [hb EXCEPT !.pc = "askPassword", !.kind = "hidden"]
             ELSE [hb EXCEPT !.pc = "createFile"]
    /\ UNCHANGED <<hbHost, hdr, bak, hbPast>>

CreateBackupFile ==
    /\ hb.pc = "createFile"
    /\ bak' = [state |-> "partial", layout |-> hb.layout, headers |-> <<>>]
    /\ hb' = [hb EXCEPT !.pc = "writeFile"]
    /\ UNCHANGED <<hbHost, hdr, hbPast>>

\* The header of a volume re-encrypted with a new salt under the same password.
ReEncryptVolumeHeader(kind) ==
    IF kind = "hidden" /\ hb.hpwd = "none" THEN Garbage
    ELSE HeaderOf(kind, hb.layout, IF kind = "hidden" THEN hb.hpwd ELSE hb.pwd)

WriteBackupFile ==
    /\ hb.pc = "writeFile"
    /\ LET written == IF hb.prog = "win" THEN <<ReEncryptVolumeHeader("outer"), ReEncryptVolumeHeader("hidden")>>
                      ELSE Append(bak.headers,
                                  ReEncryptVolumeHeader(IF bak.headers = <<>> THEN "outer" ELSE "hidden"))
       IN  IF Len(written) = 2
           THEN bak' = [bak EXCEPT !.headers = written, !.state = "complete"] /\ EndsWith(hbPast)
           ELSE bak' = [bak EXCEPT !.headers = written] /\ UNCHANGED <<hb, hbPast>>
    /\ UNCHANGED <<hbHost, hdr>>

---------------------------------------------------------------------------
(* RestoreVolumeHeader(s) from the backup file: the size tells the format, *)
(* the first header the password decrypts is written to its place and,     *)
(* in the new layout, to that of the copy.                                 *)

ChooseBackup(internal) ==
    /\ hb.op = "restore" /\ hb.pc = "askFile"
    /\ IF internal THEN hb' = [hb EXCEPT !.pc = "askPassword"] /\ UNCHANGED hbPast
       ELSE /\ bak.state # "absent"
            /\ IF Len(bak.headers) = 2 THEN hb' = [hb EXCEPT !.pc = "askBackupPassword"] /\ UNCHANGED hbPast
               ELSE EndsWith(hbPast)                   \* HEADER_BACKUP_SIZE_INCORRECT
    /\ UNCHANGED <<hbHost, hdr, bak>>

EnterBackupPassword(p) ==
    /\ hb.pc = "askBackupPassword"
    /\ \E i \in 1 .. 2 :
          /\ bak.headers[i].pwd = p
          /\ \A j \in 1 .. i - 1 : bak.headers[j].pwd # p
          /\ hb' = [hb EXCEPT !.pc = "writeHeader", !.kind = bak.headers[i].kind,
                              !.layout = bak.layout, !.pwd = p, !.pass = 1]
    /\ UNCHANGED <<hbHost, hdr, bak, hbPast>>

\* RestoreVolumeHeader from the copy in the volume: only the header itself is written.
EnterInternalPassword(p) ==
    /\ hb.op = "restore" /\ hb.pc = "askPassword"
    /\ LET r == OpenedBy(hb.prog, p, "unknown", TRUE)
       IN  \/ r.status = "error" /\ EndsWith(hbPast)
           \/ /\ r.status = "ok"
              /\ IF r.layout = "V1" THEN EndsWith(hbPast)   \* VOLUME_HAS_NO_BACKUP_HEADER
                 ELSE hb' = [hb EXCEPT !.pc = "writeLast", !.kind = r.kind, !.layout = r.layout, !.pwd = p]
                      /\ UNCHANGED hbPast
    /\ UNCHANGED <<hbHost, hdr, bak>>

---------------------------------------------------------------------------
(* CoreBase::ChangePassword: the passes over the header, then over the     *)
(* copy of the new layout.                                                 *)

EnterOldPassword(p, q) ==
    /\ hb.op = "change" /\ hb.pc = "askPassword"
    /\ \A k \in Kinds : q \notin hbPast.given[k]
    /\ LET r == OpenedBy(hb.prog, p, "unknown", FALSE)
       IN  /\ r.status = "ok"
           /\ hb' = [hb EXCEPT !.pc = "writeHeader", !.kind = r.kind, !.layout = r.layout,
                               !.pwd = q, !.pass = HbPasses]
           /\ hbPast' = [hbPast EXCEPT !.given[r.kind] = @ \union {q}]
    /\ UNCHANGED <<hbHost, hdr, bak>>

\* Mutant of WriteTo: the restored header is taken for that of the outer volume.
WriteOuter(place) == hdr' = [hdr EXCEPT ![place] = HeaderOf("outer", hb.layout, hb.pwd)]

WriteTo(place) == hdr' = [hdr EXCEPT ![place] = HeaderOf(hb.kind, hb.layout, hb.pwd)]

\* One pass over the header; the last one goes on with the copy.
WriteHeader ==
    /\ hb.pc = "writeHeader"
    /\ WriteTo(HeaderOffset(hb.kind, hb.layout))
    /\ IF hb.pass > 1 THEN hb' = [hb EXCEPT !.pass = @ - 1] /\ UNCHANGED hbPast
       ELSE IF HasBackupHeader(hb.layout)
            THEN /\ hb' = [hb EXCEPT !.pc = "writeBackup", !.pass = IF hb.op = "change" THEN HbPasses ELSE 1]
                 /\ UNCHANGED hbPast
            ELSE EndsWith([hbPast EXCEPT !.restored = <<hb.pwd, hb.kind>>])
    /\ UNCHANGED <<hbHost, bak>>

WriteBackupHeader ==
    /\ hb.pc = "writeBackup"
    /\ WriteTo(BackupHeaderOffset(hb.kind))
    /\ IF hb.pass > 1 THEN hb' = [hb EXCEPT !.pass = @ - 1] /\ UNCHANGED hbPast
       ELSE EndsWith([hbPast EXCEPT !.restored = <<hb.pwd, hb.kind>>])
    /\ UNCHANGED <<hbHost, bak>>

WriteInternalHeader ==
    /\ hb.pc = "writeLast"
    /\ WriteTo(HeaderOffset(hb.kind, hb.layout))
    /\ EndsWith([hbPast EXCEPT !.restored = <<hb.pwd, hb.kind>>])
    /\ UNCHANGED <<hbHost, bak>>

---------------------------------------------------------------------------
(* What else happens.                                                      *)

\* A request fails: the operation ends with the handlers of an error.
RequestFails ==
    /\ hb.op # "none" /\ Fault
    /\ EndsWith(Faulted)
    /\ UNCHANGED <<hbHost, hdr, bak>>

\* The program is killed or the power fails.
HbCrash ==
    /\ hb.op # "none" /\ Fault
    /\ hb' = Idle
    /\ hbPast' = [Faulted EXCEPT !.crashed = TRUE]
    /\ UNCHANGED <<hbHost, hdr, bak>>

\* Something else overwrites a header of the volume (a format, a bad sector).
HeaderDamaged(s) ==
    /\ hb.op = "none" /\ Fault /\ hdr[s] # Garbage
    /\ hdr' = [hdr EXCEPT ![s] = Garbage]
    /\ hbPast' = [Faulted EXCEPT !.damaged = @ \union {s}, !.restored = <<"none", "none">>]
    /\ UNCHANGED <<hbHost, bak, hb>>

HbNext ==
    \/ \E prog \in HbPrograms : StartOperation(prog, "backup") \/ StartOperation(prog, "restore")
    \/ \E prog \in {"gui", "text"} : StartOperation(prog, "change")
    \/ Cancel \/ \E p \in HbPasswords : EnterPassword(p)
    \/ \E yes \in BOOLEAN : AnswerHidden(yes)
    \/ CreateBackupFile \/ WriteBackupFile
    \/ \E i \in BOOLEAN : ChooseBackup(i)
    \/ \E p \in HbPasswords : EnterBackupPassword(p) \/ EnterInternalPassword(p)
    \/ \E p, q \in HbPasswords : EnterOldPassword(p, q)
    \/ WriteHeader \/ WriteBackupHeader \/ WriteInternalHeader
    \/ RequestFails \/ HbCrash
    \/ \E s \in Places : HeaderDamaged(s)

HbSpec == HbInit /\ [][HbNext]_hbVars

---------------------------------------------------------------------------

HbTypeOK ==
    /\ hbHost \in HbHosts
    /\ \A s \in Places : hdr[s] \in {Garbage} \union {HeaderOf(k, l, p) : k \in Kinds, l \in {"V1", "V2"}, p \in HbPasswords}
    /\ bak.state \in {"absent", "partial", "complete"} /\ Len(bak.headers) <= 2
    /\ hb.pass \in 0 .. HbPasses /\ hbPast.damaged \subseteq Places

(* Whatever was backed up, restored, changed, interrupted or damaged, a place holds a
   header of the volume that belongs there, under a password it was given, and no
   place is written that the layout of the host gives to data. *)
HeadersInPlace ==
    \A s \in Places :
        /\ hdr[s] # Garbage => /\ hdr[s].kind \in KindsOf(hbHost) /\ hdr[s].layout = hbHost.layout
                               /\ s \in PlacesOf(hdr[s].kind, hbHost.layout)
                               /\ hdr[s].pwd \in hbPast.given[hdr[s].kind]
        /\ InitialHeader(hbHost, s) # Garbage /\ s \notin hbPast.damaged => hdr[s] # Garbage

(* The programs agree: a password opens the same volume, or none, in all of them, through
   the headers as well as through their copies. *)
ProgramsOpenAlike ==
    \A p \in HbPasswords, b \in BOOLEAN :
        LET w == OpenedBy("win", p, "unknown", b)
        IN  /\ w = OpenedBy("gui", p, "unknown", b)
            /\ \A k \in Kinds : OpenedBy("win", p, k, b) = OpenedBy("text", p, k, b)

(* After a restoration or a change that succeeded every program opens the volume with
   that password. *)
RestoredOpens ==
    hbPast.restored[1] # "none" =>
        \A prog \in HbPrograms : OpenedBy(prog, hbPast.restored[1], "unknown", FALSE).kind = hbPast.restored[2]

(* A backup file of the right size can be restored: its first header is that of the
   outer volume and its second, if it is one, of the hidden volume, under passwords
   that were theirs; a file that was not finished is recognised by its size. *)
BackupRestores ==
    Len(bak.headers) = 2 =>
        /\ bak.state = "complete"
        /\ bak.headers[1].kind = "outer" /\ bak.headers[1].pwd \in hbPast.given["outer"]
        /\ bak.headers[2] # Garbage => /\ bak.headers[2].kind = "hidden"
                                       /\ bak.headers[2].pwd \in hbPast.given["hidden"]
        /\ bak.layout = hbHost.layout

(* Between operations the device belongs to its owner again, unless a program was killed. *)
OwnerRestored == hb.op = "none" /\ ~hbPast.crashed => hbPast.owner = "root"

(* What the backup and the restoration of headers promise. *)
HeaderBackupSound ==
    HbTypeOK /\ HeadersInPlace /\ ProgramsOpenAlike /\ RestoredOpens /\ BackupRestores /\ OwnerRestored
=============================================================================
