---------------------------- MODULE KeyfilePool ----------------------------
(***************************************************************************)
(* Keyfiles: the lists of keyfiles the Windows programs keep (Keyfiles.c,  *)
(* Mount.c, Dlgcode.c), how the keyfiles of a list are mixed into a        *)
(* password by Keyfiles.c and by Volume/Keyfile.cpp, and the keyfiles kept *)
(* on a security token (SecurityToken.cpp and its dialogs).                *)
(*                                                                         *)
(* A list is an allocation that a program variable points to; 0 is NULL.   *)
(* The bytes added to the pool are counted: <<slot, file, i>> is the CRC   *)
(* of the first i bytes of the file, added to four cells of the pool.      *)
(***************************************************************************)
EXTENDS Integers, Sequences, FiniteSets

CONSTANTS KfNames,        \* what the list of a mount may name
          KfListed,       \* what the lists of the dialogs may name
          MaxKeyLists,    \* lists allocated in a run, a bound of the model
          MaxListLength,  \* longest list, a bound of the model
          MaxTokenObjects \* objects ever created on the token, a bound of the model

VARIABLES heap,    \* allocation -> the list there, or "free"
          used,    \* allocations made
          kf,      \* the program's variables that hold or describe lists
          token,   \* the security token, the session, the dialog that lists its keyfiles
          applied  \* what the two programs made of a list

kfVars == <<heap, used, kf, token, applied>>

---------------------------------------------------------------------------
(* What the names stand for.                                               *)

KEYFILE_POOL_SLOTS == 3
KEYFILE_MAX_READ_LEN == 4

KfLength == [f |-> 2, big |-> 6, empty |-> 0, t |-> 3]
KfDirs == [dir |-> <<"f", ".f", "big">>, hdir |-> <<".f">>]
IsToken(n) == n = "t"
IsHidden(n) == n = ".f"

Contributions == {<<s, n, i>> : s \in 0 .. KEYFILE_POOL_SLOTS - 1, n \in DOMAIN KfLength, i \in 1 .. KEYFILE_MAX_READ_LEN}
EmptyKeyPool == [c \in Contributions |-> 0]

\* The bytes read of a file and where the CRC after each of them goes.
Spread(n) == {<<(i - 1) % KEYFILE_POOL_SLOTS, n, i>> : i \in 1 .. (IF KfLength[n] < KEYFILE_MAX_READ_LEN THEN KfLength[n] ELSE KEYFILE_MAX_READ_LEN)}

PoolWithFile(pool, n) == [c \in Contributions |-> IF c \in Spread(n) THEN pool[c] + 1 ELSE pool[c]]

---------------------------------------------------------------------------
(* KeyFilesApply of Keyfiles.c: a keyfile that cannot be processed makes   *)
(* the status FALSE, the others are still mixed in; a token's exception    *)
(* ends it.                                                                *)

\* KeyFileProcess: FALSE for a file that is missing or empty.
KeyFileProcess(r, n) ==
    IF n \notin DOMAIN KfLength \/ (n \in DOMAIN KfLength /\ KfLength[n] = 0) THEN [r EXCEPT !.ok = FALSE]
    ELSE [r EXCEPT !.pool = PoolWithFile(@, n)]

ProcessDirectory(r, d) ==
    LET files == SelectSeq(KfDirs[d], LAMBDA n : ~IsHidden(n))
        f[i \in 0 .. Len(files)] == IF i = 0 THEN r ELSE KeyFileProcess(f[i - 1], files[i])
    IN IF files = <<>> THEN [r EXCEPT !.ok = FALSE] ELSE f[Len(files)]

ApplyOne(r, n, tokenData) ==
    IF r.thrown THEN r
    ELSE IF IsToken(n)
         THEN IF tokenData THEN [r EXCEPT !.pool = PoolWithFile(@, n)] ELSE [r EXCEPT !.ok = FALSE, !.thrown = TRUE]
    ELSE IF n \in DOMAIN KfDirs THEN ProcessDirectory(r, n)
    ELSE KeyFileProcess(r, n)

KeyFilesApply(names, tokenData) ==
    LET f[i \in 0 .. Len(names)] ==
            IF i = 0 THEN [ok |-> TRUE, thrown |-> FALSE, pool |-> EmptyKeyPool]
            ELSE ApplyOne(f[i - 1], names[i], tokenData)
    IN f[Len(names)]

---------------------------------------------------------------------------
(* Keyfile::ApplyListToPassword: directories are expanded first, and any   *)
(* failure is an exception.                                                *)

NoKeyPassword == [ok |-> FALSE, thrown |-> TRUE, pool |-> EmptyKeyPool]

ExpandedKeyfile(n) == IF n \in DOMAIN KfDirs THEN SelectSeq(KfDirs[n], LAMBDA x : ~IsHidden(x)) ELSE <<n>>

UxKeyfileApply(r, n, tokenData) ==
    IF r.thrown THEN r
    ELSE IF IsToken(n) /\ ~tokenData THEN NoKeyPassword
    ELSE IF n \notin DOMAIN KfLength THEN NoKeyPassword
    ELSE IF KfLength[n] < 1 THEN NoKeyPassword
    ELSE [r EXCEPT !.pool = PoolWithFile(@, n)]

ApplyListToPassword(names, tokenData) ==
    LET e[i \in 0 .. Len(names)] == IF i = 0 THEN <<>> ELSE e[i - 1] \o ExpandedKeyfile(names[i])
        exp == e[Len(names)]
        f[i \in 0 .. Len(exp)] == IF i = 0 THEN [ok |-> TRUE, thrown |-> FALSE, pool |-> EmptyKeyPool]
                                  ELSE UxKeyfileApply(f[i - 1], exp[i], tokenData)
    IN IF \E i \in 1 .. Len(names) : ExpandedKeyfile(names[i]) = <<>> THEN NoKeyPassword ELSE f[Len(exp)]

---------------------------------------------------------------------------
(* The lists.  KeyFileAdd, KeyFileRemove, KeyFileRemoveAll, KeyFileCloneAll. *)

Items(l) == IF l = 0 THEN <<>> ELSE heap[l]
AllocOk == used < MaxKeyLists
Fresh == used + 1

\* The heap with list l freed.
Freed(h, l) == IF l = 0 THEN h ELSE [h EXCEPT ![l] = <<"free">>]

\* The heap with a copy of a list in the next allocation, and the pointer to it: NULL for an empty list.
CloneInto(h, names) == IF names = <<>> THEN h ELSE [h EXCEPT ![Fresh] = names]
ClonePtr(names) == IF names = <<>> THEN 0 ELSE Fresh
Allocs(names) == IF names = <<>> THEN used ELSE used + 1

\* RestoreDefaultKeyFilesParam
RestoreDefaultKeyFilesParam(k) ==
    /\ AllocOk
    /\ heap' = CloneInto(Freed(heap, k.first), Items(k.deflt))
    /\ used' = Allocs(Items(k.deflt))
    /\ kf' = [k EXCEPT !.first = ClonePtr(Items(k.deflt)),
                       !.enable = Items(k.deflt) # <<>> /\ k.defltEnable]

\* The dialog works on a copy of the list; the caller's list is remembered by its pointer.
KeyFilesDlgInit(owner) ==
    /\ kf.dlg = "none"
    /\ AllocOk
    /\ LET l == IF owner = "default" THEN kf.deflt ELSE kf.first
       IN /\ heap' = CloneInto(heap, Items(l))
          /\ used' = Allocs(Items(l))
          /\ kf' = [kf EXCEPT !.dlg = owner, !.param = ClonePtr(Items(l)), !.orig = l,
                              !.before = Items(l)]
    /\ UNCHANGED token

\* KeyFileAdd: the first keyfile of an empty list is a new allocation.
KeyFilesDlgAdd(n) ==
    /\ kf.dlg # "none"
    /\ Len(Items(kf.param)) < MaxListLength
    /\ kf.param = 0 => AllocOk
    /\ LET l == IF kf.param = 0 THEN Fresh ELSE kf.param
       IN /\ heap' = [heap EXCEPT ![l] = Append(Items(kf.param), n)]
          /\ kf' = [kf EXCEPT !.param = l]
    /\ used' = (IF kf.param = 0 THEN used + 1 ELSE used)
    /\ UNCHANGED token

\* KeyFileRemove of one, or KeyFileRemoveAll
KeyFilesDlgRemove(i) ==
    /\ kf.dlg # "none"
    /\ i \in 1 .. Len(Items(kf.param))
    /\ LET left == SubSeq(Items(kf.param), 1, i - 1) \o SubSeq(Items(kf.param), i + 1, Len(Items(kf.param)))
       IN IF left = <<>>
          THEN heap' = Freed(heap, kf.param) /\ kf' = [kf EXCEPT !.param = 0]
          ELSE heap' = [heap EXCEPT ![kf.param] = left] /\ UNCHANGED kf
    /\ UNCHANGED <<used, token>>

KeyFilesDlgCancel ==
    /\ kf.dlg # "none"
    /\ heap' = Freed(heap, kf.param)
    /\ kf' = [kf EXCEPT !.dlg = "none", !.param = 0, !.orig = 0, !.before = <<>>]
    /\ UNCHANGED <<used, token>>

\* The password dialog takes the copy; the list it had is left to itself.
KeyFilesDlgOk(enable) ==
    /\ kf.dlg = "first"
    /\ kf' = [kf EXCEPT !.dlg = "none", !.first = kf.param, !.enable = enable, !.param = 0, !.orig = 0, !.before = <<>>]
    /\ UNCHANGED <<heap, used, token>>

\* KeyfileDefaultsDlg: the old default list is freed, the list in use restored from the new one, and saved.
SaveDefaultKeyFilesParam(deflt, names) == IF deflt = 0 THEN <<>> ELSE names

KeyfileDefaultsDlgOk(enable, confirmed) ==
    /\ kf.dlg = "default"
    /\ AllocOk
    /\ LET names == Items(kf.param)
           closed == [kf EXCEPT !.dlg = "none", !.param = 0, !.orig = 0, !.before = <<>>]
       IN IF enable /\ ~confirmed
          THEN kf' = closed /\ UNCHANGED <<heap, used>>
          ELSE /\ heap' = CloneInto(Freed(Freed(heap, kf.deflt), kf.first), names)
               /\ used' = Allocs(names)
               /\ kf' = [closed EXCEPT !.deflt = kf.param, !.defltEnable = enable,
                                       !.first = ClonePtr(names), !.enable = names # <<>> /\ enable,
                                       !.saved = SaveDefaultKeyFilesParam(kf.param, names)]
    /\ UNCHANGED token

\* KeyfilesPopupMenu adds to the list in use itself.
KeyfilesPopupMenu(n) ==
    /\ kf.dlg = "none"
    /\ Len(Items(kf.first)) < MaxListLength
    /\ kf.first = 0 => AllocOk
    /\ LET l == IF kf.first = 0 THEN Fresh ELSE kf.first
       IN /\ heap' = [heap EXCEPT ![l] = Append(Items(kf.first), n)]
          /\ kf' = [kf EXCEPT !.first = l, !.enable = TRUE]
    /\ used' = (IF kf.first = 0 THEN used + 1 ELSE used)
    /\ UNCHANGED token

\* A mount is over: the default list is in use again.
MountEnds ==
    /\ kf.dlg = "none"
    /\ RestoreDefaultKeyFilesParam(kf)
    /\ UNCHANGED token

\* LoadDefaultKeyFilesParam: nothing changes if there is no file.
LoadDefaultKeyFilesParam ==
    /\ kf.dlg = "none"
    /\ kf.saved # <<>>
    /\ AllocOk
    /\ heap' = CloneInto(Freed(heap, kf.deflt), kf.saved)
    /\ used' = Allocs(kf.saved)
    /\ kf' = [kf EXCEPT !.deflt = ClonePtr(kf.saved), !.enable = kf.defltEnable]
    /\ UNCHANGED token

\* The keyfiles of the command line: an automount clones them into the two lists.
CommandLineKeyfiles(n) ==
    /\ kf.cmd = 0
    /\ kf.dlg = "none"
    /\ used + 3 <= MaxKeyLists
    /\ heap' = [heap EXCEPT ![used + 1] = <<n>>, ![used + 2] = <<n>>, ![used + 3] = <<n>>]
    /\ used' = used + 3
    /\ kf' = [kf EXCEPT !.cmd = used + 1, !.first = used + 2, !.deflt = used + 3, !.enable = TRUE, !.defltEnable = TRUE]
    /\ UNCHANGED token

\* "Wipe command line keyfiles"
WipeCommandLineKeyfiles ==
    /\ kf.cmd # 0
    /\ kf.dlg = "none"
    /\ heap' = Freed(heap, kf.deflt)
    /\ kf' = [kf EXCEPT !.deflt = 0, !.defltEnable = FALSE]
    /\ UNCHANGED <<used, token>>

---------------------------------------------------------------------------
(* The security token.                                                     *)

NewObject(label, whole) == [h |-> token.next, label |-> label, whole |-> whole]

\* LoginUserIfRequired: a session the token does not know any more is closed and opened again; the user enters the
\* PIN, again after a wrong one, or gives up.
Session(t, pin) ==
    IF ~t.init \/ ~t.present THEN [ok |-> FALSE, sess |-> IF t.sess = "dead" THEN "none" ELSE t.sess]
    ELSE IF t.sess = "in" THEN [ok |-> TRUE, sess |-> "in"]
    ELSE IF pin THEN [ok |-> TRUE, sess |-> "in"] ELSE [ok |-> FALSE, sess |-> "open"]

GetAvailableKeyfiles(t) == t.objs

TokenInitLibrary(ok) ==
    /\ token' = [token EXCEPT !.init = ok, !.sess = "none"]
    /\ UNCHANGED <<heap, used, kf>>

CloseAllSessions ==
    /\ token.init
    /\ token' = [token EXCEPT !.sess = "none"]
    /\ UNCHANGED <<heap, used, kf>>

TokenRemoved ==
    /\ token.present
    /\ token' = [token EXCEPT !.present = FALSE, !.sess = IF @ = "none" THEN "none" ELSE "dead"]
    /\ UNCHANGED <<heap, used, kf>>

TokenInserted ==
    /\ ~token.present
    /\ token' = [token EXCEPT !.present = TRUE]
    /\ UNCHANGED <<heap, used, kf>>

\* The dialog lists the keyfiles; without them it closes.
TokenDialogOpens(pin) ==
    /\ token.listed = {}
    /\ LET s == Session(token, pin)
       IN token' = [token EXCEPT !.sess = s.sess, !.listed = IF s.ok THEN GetAvailableKeyfiles(token) ELSE {}]
    /\ UNCHANGED <<heap, used, kf>>

TokenDialogCloses ==
    /\ token.listed # {}
    /\ token' = [token EXCEPT !.listed = {}]
    /\ UNCHANGED <<heap, used, kf>>

\* CreateKeyfile: a label of the token is refused; an object the token cut short is destroyed again.
CreateKeyfile(label, pin, whole) ==
    /\ token.next <= MaxTokenObjects
    /\ LET s == Session(token, pin)
           refused == \E o \in GetAvailableKeyfiles(token) : o.label = label
           objs == IF whole THEN token.objs \cup {NewObject(label, TRUE)} ELSE token.objs
       IN token' = IF ~s.ok \/ refused THEN [token EXCEPT !.sess = s.sess]
                   ELSE [token EXCEPT !.sess = s.sess, !.objs = objs, !.next = @ + 1,
                                      !.listed = IF whole THEN objs ELSE @]
    /\ UNCHANGED <<heap, used, kf>>

\* DeleteKeyfile for each selected keyfile; the first that fails ends it, and the list is not read again.
DeleteKeyfiles(selected, gone, pin) ==
    /\ selected # {} /\ selected \subseteq token.listed
    /\ (gone = selected /\ selected \subseteq token.objs) \/ (gone \subseteq selected \cap token.objs /\ ~(selected \subseteq token.objs))
    /\ LET s == Session(token, pin)
       IN token' = IF ~s.ok THEN [token EXCEPT !.sess = s.sess]
                   ELSE [token EXCEPT !.sess = s.sess, !.objs = @ \ gone,
                                      !.listed = IF gone = selected THEN token.objs \ gone ELSE @]
    /\ UNCHANGED <<heap, used, kf>>

---------------------------------------------------------------------------

KfInit ==
    /\ heap = [l \in 1 .. MaxKeyLists |-> <<"free">>]
    /\ used = 0
    /\ kf = [first |-> 0, deflt |-> 0, cmd |-> 0, param |-> 0, orig |-> 0, before |-> <<>>, dlg |-> "none",
             enable |-> FALSE, defltEnable |-> FALSE, saved |-> <<>>]
    /\ applied = {}
    /\ token = [init |-> FALSE, present |-> FALSE, sess |-> "none", objs |-> {}, listed |-> {}, next |-> 1]

ListStep ==
    \/ \E o \in {"first", "default"} : KeyFilesDlgInit(o)
    \/ \E n \in KfListed : KeyFilesDlgAdd(n) \/ KeyfilesPopupMenu(n) \/ CommandLineKeyfiles(n)
    \/ \E i \in 1 .. MaxListLength : KeyFilesDlgRemove(i)
    \/ KeyFilesDlgCancel
    \/ \E e \in BOOLEAN : KeyFilesDlgOk(e) \/ \E c \in BOOLEAN : KeyfileDefaultsDlgOk(e, c)
    \/ MountEnds
    \/ LoadDefaultKeyFilesParam
    \/ WipeCommandLineKeyfiles

TokenStep ==
    \/ \E ok \in BOOLEAN : TokenInitLibrary(ok)
    \/ CloseAllSessions
    \/ TokenRemoved
    \/ TokenInserted
    \/ \E pin \in BOOLEAN : TokenDialogOpens(pin)
    \/ TokenDialogCloses
    \/ \E l \in {"t", "u"}, pin, whole \in BOOLEAN : CreateKeyfile(l, pin, whole)
    \/ \E S \in SUBSET token.listed, pin \in BOOLEAN : \E gone \in SUBSET S : DeleteKeyfiles(S, gone, pin)

Permuted(names) == {[i \in 1 .. Len(names) |-> names[p[i]]] :
                        p \in {q \in [1 .. Len(names) -> 1 .. Len(names)] : \A i, j \in DOMAIN q : i # j => q[i] # q[j]}}

\* A list is mixed into a password by Keyfiles.c, and in another order by Keyfile.cpp.
ApplyKeyfiles(names, order, tokenData) ==
    /\ applied' = {[win |-> KeyFilesApply(names, tokenData), ux |-> ApplyListToPassword(order, tokenData), names |-> names]}
    /\ UNCHANGED <<heap, used, kf, token>>

\* The lists, the token and the mixing are independent of each other: one of them is looked at in a behaviour.
KfNext ==
    \/ token.next = 1 /\ ~token.present /\ applied = {} /\ ListStep /\ UNCHANGED applied
    \/ used = 0 /\ kf.dlg = "none" /\ applied = {} /\ TokenStep /\ UNCHANGED applied
    \/ /\ used = 0 /\ kf.dlg = "none" /\ token.next = 1 /\ ~token.present
       /\ \E len \in 1 .. MaxListLength : \E names \in [1 .. len -> KfNames] : \E order \in Permuted(names), tokenData \in BOOLEAN :
              ApplyKeyfiles(names, order, tokenData)

KfSpec == KfInit /\ [][KfNext]_kfVars

---------------------------------------------------------------------------

\* Both programs make the same password of a list of keyfiles, whatever the order they are listed in, or neither
\* makes one: KeyFilesApply says so by its status, Keyfile::ApplyListToPassword by an exception.
SamePassword == \A a \in applied : a.win.ok = a.ux.ok /\ (a.win.ok => a.win.pool = a.ux.pool)

\* The lists in use, the default one and the one a dialog works on are never ones that were freed, and no two of them
\* are the same allocation, so that emptying one cannot empty another.
ListsAreLive ==
    /\ \A l \in {kf.first, kf.deflt, kf.param} \ {0} : heap[l] # <<"free">>
    /\ kf.first # 0 => kf.first \notin {kf.deflt, kf.param}
    /\ kf.deflt # 0 => kf.deflt # kf.param

\* While a dialog is open, the list it was opened for stays as it was: cancelling it changes nothing.
CancelKeepsList == kf.dlg # "none" => Items(kf.orig) = kf.before /\ kf.orig = IF kf.dlg = "default" THEN kf.deflt ELSE kf.first

\* Keyfiles on the token that have one label are one keyfile, and each is whole: a path names its data.
TokenPathNamesData ==
    /\ \A o, p \in token.objs : o.label = p.label => o = p
    /\ \A o \in token.objs : o.whole

\* A session is used only with a token that is there: a session of a token that was removed is not taken for one that
\* is logged in.
SessionIsOfToken == token.sess \in {"in", "open"} => token.present /\ token.init

(* Keyfiles and tokens: the same files give the same password everywhere, lists in
   use are never freed and a token path names its data. *)
KeyfilesSound ==
    /\ SamePassword
    /\ ListsAreLive
    /\ CancelKeepsList
    /\ TokenPathNamesData
    /\ SessionIsOfToken
===========================================================================
