--------------------------- MODULE SystemProofs ----------------------------
(***************************************************************************)
(* That the encrypted system stays reachable: for any number of units,     *)
(* restarts and faults, an encrypted drive keeps its loader, header and    *)
(* filter, an interrupted encryption or decryption is remembered and the   *)
(* original system is wiped only after it was cloned.  And that the        *)
(* programs beside it keep their promises: the filter devices, the         *)
(* installer and the wizard that creates volumes.                          *)
(***************************************************************************)
EXTENDS MCSystemDrive, FiniteSetTheorems, TLAPS

(***************************************************************************)
(* The writes of the wizard.  A write holds what is still done when it     *)
(* fails, at most two levels deep.  While the drive is mounted no write is *)
(* under way that removes the loader, the header or the filter.            *)
(***************************************************************************)
SysStatuses == {"none", "pretest", "enc", "dec"}
InMotion == {"enc", "dec"}
ClonePhases == {"none", "cloning", "wiping", "wiped"}
PagesAfter == {"off", "prep", "progress"}
WriteKinds == {"page", "random", "phase", "phaseNone", "status", "open", "write", "remove",
               "startup", "filter", "loader", "header", "restore"}
ValueFits(w) ==
    /\ w.do = "page" => w.v \in PagesAfter
    /\ w.do \in {"phase", "phaseNone"} => w.v \in ClonePhases
    /\ w.do \in {"status", "open", "write", "remove"} => w.v \in SysStatuses
    /\ w.do \in {"startup", "filter", "loader"} => w.v \in BOOLEAN
Gentle(w) == w.do \notin {"loader", "header", "restore"} /\ (w.do = "filter" => w.v = TRUE)
WriteValues == SysStatuses \cup ClonePhases \cup PagesAfter \cup BOOLEAN
WritesWith(gentle, rests) ==
    {w \in [do : WriteKinds, v : WriteValues, no : rests] : ValueFits(w) /\ (gentle => Gentle(w))}
Writes0(gentle) == WritesWith(gentle, {<<>>})
Writes1(gentle) == WritesWith(gentle, Seq(Writes0(gentle)))
Writes2(gentle) == WritesWith(gentle, Seq(Writes1(gentle)))

\* A single write of each kind.
LEMMA WriteIn ==
    ASSUME NEW gentle \in BOOLEAN, NEW rests, NEW d \in WriteKinds, NEW v, NEW no \in rests,
           ValueFits(W(d, v, no)), v \in WriteValues, gentle => Gentle(W(d, v, no))
    PROVE  W(d, v, no) \in WritesWith(gentle, rests)
BY DEF WritesWith, W

\* Sequences in general.
LEMMA JoinIn ==
    ASSUME NEW S, NEW s \in Seq(S), NEW t \in Seq(S)
    PROVE  /\ s \o t \in Seq(S) /\ Len(s \o t) = Len(s) + Len(t)
           /\ \A i \in 1 .. Len(s) + Len(t) : (s \o t)[i] = IF i <= Len(s) THEN s[i] ELSE t[i - Len(s)]
OBVIOUS

LEMMA JoinAssoc ==
    ASSUME NEW S, NEW f \in Seq(S), NEW g \in Seq(S), NEW h \in Seq(S)
    PROVE  (f \o g) \o h = f \o (g \o h)
OBVIOUS

LEMMA OneIn == ASSUME NEW S, NEW x \in S PROVE <<x>> \in Seq(S)
OBVIOUS

LEMMA ThreeIn ==
    ASSUME NEW S, NEW x \in S, NEW y \in S, NEW z \in S
    PROVE  /\ <<x, y, z>> \in Seq(S) /\ Len(<<x, y, z>>) = 3
           /\ <<x, y, z>>[1] = x /\ <<x, y, z>>[2] = y /\ <<x, y, z>>[3] = z
OBVIOUS

LEMMA EmptyIn == ASSUME NEW S, NEW s \in Seq(S), Len(s) = 0 PROVE s = <<>>
OBVIOUS

LEMMA SeqWider == ASSUME NEW S, NEW T, S \subseteq T, NEW s \in Seq(S) PROVE s \in Seq(T)
OBVIOUS

LEMMA TailIn ==
    ASSUME NEW S, NEW s \in Seq(S), s # <<>>
    PROVE  /\ Tail(s) \in Seq(S) /\ Head(s) \in S /\ Head(s) = s[1] /\ Len(s) \in Nat /\ Len(s) > 0
           /\ Len(Tail(s)) = Len(s) - 1
           /\ \A i \in 1 .. Len(s) - 1 : Tail(s)[i] = s[i + 1]
OBVIOUS

\* More may be done after a failure.
LEMMA WritesWider ==
    ASSUME NEW gentle \in BOOLEAN, NEW R, NEW T, R \subseteq T
    PROVE  WritesWith(gentle, R) \subseteq WritesWith(gentle, T) /\ WritesWith(TRUE, R) \subseteq WritesWith(gentle, T)
BY DEF WritesWith

\* Less deep lists of writes are lists of writes, gentle ones are lists of any.
LEMMA LevelsNested ==
    ASSUME NEW gentle \in BOOLEAN
    PROVE  /\ Seq(Writes0(gentle)) \subseteq Seq(Writes1(gentle))
           /\ Seq(Writes1(gentle)) \subseteq Seq(Writes2(gentle))
           /\ Seq(Writes2(TRUE)) \subseteq Seq(Writes2(gentle))
<1>1. {<<>>} \subseteq Seq(Writes0(gentle))
  OBVIOUS
<1>2. Writes0(gentle) \subseteq Writes1(gentle) /\ Writes0(TRUE) \subseteq Writes0(gentle)
  BY <1>1, WritesWider DEF Writes0, Writes1
<1>3. Seq(Writes0(gentle)) \subseteq Seq(Writes1(gentle)) /\ Seq(Writes0(TRUE)) \subseteq Seq(Writes0(gentle))
  BY <1>2, SeqWider
<1>4. Writes1(gentle) \subseteq Writes2(gentle) /\ Writes1(TRUE) \subseteq Writes1(gentle)
  BY <1>3, WritesWider DEF Writes1, Writes2
<1>5. Seq(Writes1(gentle)) \subseteq Seq(Writes2(gentle)) /\ Seq(Writes1(TRUE)) \subseteq Seq(Writes1(gentle))
  BY <1>4, SeqWider
<1>6. Writes2(TRUE) \subseteq Writes2(gentle)
  BY <1>5, WritesWider DEF Writes2
<1> QED BY <1>3, <1>5, <1>6, SeqWider

-----------------------------------------------------------------------------
(***************************************************************************)
(* The order of the writes.  A list of writes keeps what is told of the    *)
(* process (what it clears it writes again) or drops it, and then it has   *)
(* changed the status before; the page that follows comes last.            *)
(***************************************************************************)
Aside(w) == w.do \notin {"status", "open", "write", "remove"}
Keeps(w) == Aside(w) \/ (w.do # "remove" /\ w.v \in InMotion)
Drops(w) == Aside(w) \/ w.v \notin InMotion
AllAside(s) == \A i \in 1 .. Len(s) : Aside(s[i])
AllKeep(s) == \A i \in 1 .. Len(s) : Keeps(s[i])
AllDrop(s) == \A i \in 1 .. Len(s) : Drops(s[i])
Settled(s) ==
    \A j \in 1 .. Len(s) : s[j].do \in {"status", "open"} => \E i \in j + 1 .. Len(s) : s[i].do = "write"
StatusFirst(s) ==
    \A i \in 1 .. Len(s) : s[i].do \in {"open", "write", "remove"} => \E j \in 1 .. i - 1 : s[j].do = "status"
KeepList(s) == AllKeep(s) /\ Settled(s)
DropList(s) == AllDrop(s) /\ StatusFirst(s)
NoPage(s) == \A i \in 1 .. Len(s) : s[i].do # "page"
PageLast(s) == \A i \in 1 .. Len(s) : s[i].do = "page" => i = Len(s) /\ s[i].v # "prep"

\* The shapes are kept when lists are joined.
LEMMA JoinShapes ==
    ASSUME NEW S, NEW s \in Seq(S), NEW t \in Seq(S)
    PROVE  /\ AllAside(s) /\ AllAside(t) => AllAside(s \o t)
           /\ AllKeep(s) /\ AllKeep(t) => AllKeep(s \o t)
           /\ AllDrop(s) /\ AllDrop(t) => AllDrop(s \o t)
           /\ KeepList(s) /\ KeepList(t) => KeepList(s \o t)
           /\ DropList(s) /\ DropList(t) => DropList(s \o t)
           /\ NoPage(s) /\ NoPage(t) => NoPage(s \o t)
           /\ NoPage(s) /\ PageLast(t) => PageLast(s \o t)
<1> DEFINE u == s \o t  m == Len(s)  n == Len(t)
<1>1. /\ m \in Nat /\ n \in Nat /\ Len(u) = m + n
      /\ \A i \in 1 .. m : u[i] = s[i]
      /\ \A i \in 1 .. n : u[m + i] = t[i]
  BY JoinIn
<1>2. ASSUME NEW i \in 1 .. Len(u), i \notin 1 .. m PROVE i - m \in 1 .. n /\ u[i] = t[i - m]
  <2>1. i - m \in 1 .. n
    BY <1>1, <1>2
  <2> QED BY <1>1, <2>1
<1> HIDE DEF u, m, n
<1>3. AllAside(s) /\ AllAside(t) => AllAside(u)
  BY <1>1, <1>2 DEF AllAside, m, n
<1>4. AllKeep(s) /\ AllKeep(t) => AllKeep(u)
  BY <1>1, <1>2 DEF AllKeep, m, n
<1>5. AllDrop(s) /\ AllDrop(t) => AllDrop(u)
  BY <1>1, <1>2 DEF AllDrop, m, n
<1>6. NoPage(s) /\ NoPage(t) => NoPage(u)
  BY <1>1, <1>2 DEF NoPage, m, n
<1>7. NoPage(s) /\ PageLast(t) => PageLast(u)
  <2> SUFFICES ASSUME NoPage(s), PageLast(t), NEW i \in 1 .. Len(u), u[i].do = "page"
               PROVE  i = Len(u) /\ u[i].v # "prep"
    BY DEF PageLast
  <2>1. i \notin 1 .. m
    BY <1>1 DEF NoPage, m
  <2>2. i - m \in 1 .. n /\ u[i] = t[i - m]
    BY <1>2, <2>1
  <2>3. i - m = n /\ t[i - m].v # "prep"
    BY <2>2 DEF PageLast, n
  <2> QED BY <1>1, <2>2, <2>3
<1>8. Settled(s) /\ Settled(t) => Settled(u)
  <2> SUFFICES ASSUME Settled(s), Settled(t), NEW j \in 1 .. Len(u), u[j].do \in {"status", "open"}
               PROVE  \E i \in j + 1 .. Len(u) : u[i].do = "write"
    BY DEF Settled
  <2>1. CASE j \in 1 .. m
    <3>1. PICK i \in j + 1 .. m : s[i].do = "write"
      BY <1>1, <2>1 DEF Settled, m
    <3> QED BY <1>1, <2>1, <3>1
  <2>2. CASE j \notin 1 .. m
    <3>1. PICK i \in (j - m) + 1 .. n : t[i].do = "write"
      BY <1>2, <2>2 DEF Settled, n
    <3>2. m + i \in j + 1 .. Len(u) /\ i \in 1 .. n
      BY <1>1, <1>2, <2>2, <3>1
    <3> QED BY <1>1, <3>1, <3>2
  <2> QED BY <2>1, <2>2
<1>9. StatusFirst(s) /\ StatusFirst(t) => StatusFirst(u)
  <2> SUFFICES ASSUME StatusFirst(s), StatusFirst(t), NEW i \in 1 .. Len(u),
                      u[i].do \in {"open", "write", "remove"}
               PROVE  \E j \in 1 .. i - 1 : u[j].do = "status"
    BY DEF StatusFirst
  <2>1. CASE i \in 1 .. m
    <3>1. PICK j \in 1 .. i - 1 : s[j].do = "status"
      BY <1>1, <2>1 DEF StatusFirst, m
    <3> QED BY <1>1, <2>1, <3>1
  <2>2. CASE i \notin 1 .. m
    <3>1. PICK j \in 1 .. (i - m) - 1 : t[j].do = "status"
      BY <1>2, <2>2 DEF StatusFirst, n
    <3>2. m + j \in 1 .. i - 1 /\ j \in 1 .. n
      BY <1>1, <1>2, <2>2, <3>1
    <3> QED BY <1>1, <3>1, <3>2
  <2> QED BY <2>1, <2>2
<1> QED BY <1>3, <1>4, <1>5, <1>6, <1>7, <1>8, <1>9 DEF KeepList, DropList, u

\* A list of other writes neither drops nor clears anything.
LEMMA AsideShapes ==
    ASSUME NEW s, AllAside(s)
    PROVE  KeepList(s) /\ DropList(s)
BY DEF AllAside, Aside, KeepList, DropList, AllKeep, AllDrop, Keeps, Drops, Settled, StatusFirst

-----------------------------------------------------------------------------
(***************************************************************************)
(* The lists the wizard makes.                                             *)
(***************************************************************************)
\* The page that follows.
LEMMA PageWrites ==
    ASSUME NEW gentle \in BOOLEAN, NEW R, <<>> \in R, NEW p \in PagesAfter
    PROVE  /\ Page(p) \in Seq(WritesWith(gentle, R)) /\ AllAside(Page(p))
           /\ p # "prep" => PageLast(Page(p))
<1> DEFINE w == W("page", p, <<>>)
<1>1. w \in WritesWith(gentle, R) /\ w.do = "page" /\ w.v = p
  BY DEF WritesWith, W, WriteKinds, WriteValues, ValueFits, Gentle
<1> HIDE DEF w
<1>2. Page(p) = <<w>> /\ Page(p) \in Seq(WritesWith(gentle, R)) /\ Len(Page(p)) = 1
  BY <1>1 DEF Page, w
<1> QED BY <1>1, <1>2 DEF AllAside, Aside, PageLast

\* Nothing to write.
LEMMA NoWrites ==
    ASSUME NEW S
    PROVE  <<>> \in Seq(S) /\ AllAside(<<>>) /\ NoPage(<<>>) /\ PageLast(<<>>) /\ Len(<<>>) = 0
BY DEF AllAside, NoPage, PageLast

\* The startup sequence.
LEMMA StartupWrites ==
    ASSUME NEW gentle \in BOOLEAN, NEW R, <<>> \in R, NEW on \in BOOLEAN
    PROVE  /\ ManageStartupSeqWiz(on) \in Seq(WritesWith(gentle, R))
           /\ AllAside(ManageStartupSeqWiz(on)) /\ NoPage(ManageStartupSeqWiz(on))
<1> DEFINE w == W("startup", on, <<>>)
<1>1. w \in WritesWith(gentle, R) /\ w.do = "startup"
  BY DEF WritesWith, W, WriteKinds, WriteValues, ValueFits, Gentle
<1> HIDE DEF w
<1>2. ManageStartupSeqWiz(on) = <<w>> /\ <<w>> \in Seq(WritesWith(gentle, R)) /\ Len(<<w>>) = 1
  BY <1>1 DEF ManageStartupSeqWiz, w
<1> QED BY <1>1, <1>2 DEF AllAside, Aside, NoPage

\* The wiping of the phase.
LEMMA PhaseWrites ==
    ASSUME NEW gentle \in BOOLEAN, NEW R, <<>> \in R
    PROVE  /\ WipeHiddenOSCreationConfig \in Seq(WritesWith(gentle, R))
           /\ AllAside(WipeHiddenOSCreationConfig) /\ NoPage(WipeHiddenOSCreationConfig)
<1> DEFINE v == W("random", "none", <<>>)
           w == W("phase", "none", <<>>)
<1>1. /\ v \in WritesWith(gentle, R) /\ v.do = "random"
      /\ w \in WritesWith(gentle, R) /\ w.do = "phase"
  BY DEF WritesWith, W, WriteKinds, WriteValues, ValueFits, Gentle, ClonePhases
<1>2. WipeHiddenOSCreationConfig = IF Hidden THEN <<>> ELSE <<v, w>>
  BY DEF WipeHiddenOSCreationConfig
<1> HIDE DEF v, w
<1>3. WipeHiddenOSCreationConfig \in Seq(WritesWith(gentle, R))
  BY <1>1, <1>2
<1>4. Len(<<v, w>>) = 2 /\ <<v, w>>[1] = v /\ <<v, w>>[2] = w /\ Len(<<>>) = 0
  OBVIOUS
<1>5. AllAside(<<v, w>>) /\ NoPage(<<v, w>>) /\ AllAside(<<>>) /\ NoPage(<<>>)
  BY <1>1, <1>4 DEF AllAside, Aside, NoPage
<1> QED BY <1>2, <1>3, <1>5

\* The configuration file.
LEMMA SaveWrites ==
    ASSUME NEW gentle \in BOOLEAN, NEW R, NEW no \in R, NEW st \in SysStatuses
    PROVE  /\ Save(st, no) \in Seq(WritesWith(gentle, R)) /\ NoPage(Save(st, no))
           /\ st \in InMotion => KeepList(Save(st, no))
           /\ st \notin InMotion => AllDrop(Save(st, no))
<1> DEFINE r == W("remove", st, no)
           o == W("open", st, no)
           w == W("write", st, no)
<1>1. /\ r \in WritesWith(gentle, R) /\ r.do = "remove" /\ r.v = st
      /\ o \in WritesWith(gentle, R) /\ o.do = "open" /\ o.v = st
      /\ w \in WritesWith(gentle, R) /\ w.do = "write" /\ w.v = st
  BY DEF WritesWith, W, WriteKinds, WriteValues, ValueFits, Gentle
<1>2. Save(st, no) = IF st = "none" THEN <<r>> ELSE <<o, w>>
  BY DEF Save
<1> HIDE DEF r, o, w
<1>3. Len(<<r>>) = 1 /\ <<r>>[1] = r /\ Len(<<o, w>>) = 2 /\ <<o, w>>[1] = o /\ <<o, w>>[2] = w
  OBVIOUS
<1>4. Save(st, no) \in Seq(WritesWith(gentle, R))
  BY <1>1, <1>2
<1>5. CASE st = "none"
  BY <1>1, <1>2, <1>3, <1>4, <1>5 DEF NoPage, AllDrop, Drops, InMotion
<1>6. CASE st # "none"
  <2>1. Save(st, no) = <<o, w>>
    BY <1>2, <1>6
  <2>2. NoPage(<<o, w>>) /\ (st \notin InMotion => AllDrop(<<o, w>>)) /\ (st \in InMotion => AllKeep(<<o, w>>))
    BY <1>1, <1>3 DEF NoPage, AllDrop, Drops, AllKeep, Keeps
  <2>3. Settled(<<o, w>>)
    BY <1>1, <1>3 DEF Settled
  <2> QED BY <1>4, <2>1, <2>2, <2>3 DEF KeepList
<1> QED BY <1>5, <1>6

\* A change of the status.
LEMMA ChangeWrites ==
    ASSUME NEW gentle \in BOOLEAN, NEW R, <<>> \in R, NEW no \in R, NEW st \in SysStatuses
    PROVE  LET c == ChangeSystemEncryptionStatus(st, no)
           IN  /\ c \in Seq(WritesWith(gentle, R)) /\ NoPage(c)
               /\ st \in InMotion => KeepList(c)
               /\ st \notin InMotion => DropList(c)
<1> DEFINE w == W("status", st, <<>>)
           p == W("phaseNone", "none", no)
           a == <<w>>
           b == IF st = "none" /\ ~Hidden THEN <<p>> ELSE <<>>
           d == IF st \in {"none", "enc"} THEN WipeHiddenOSCreationConfig ELSE <<>>
           e == Save(st, no)
           X == WritesWith(gentle, R)
           c == ChangeSystemEncryptionStatus(st, no)
           middle == b \o d
           rest == (b \o d) \o e
<1>1. w \in X /\ w.do = "status" /\ w.v = st /\ p \in X /\ p.do = "phaseNone"
  BY DEF WritesWith, W, WriteKinds, WriteValues, ValueFits, Gentle, ClonePhases
<1>2. c = ((a \o b) \o d) \o e
  BY DEF ChangeSystemEncryptionStatus
<1> HIDE DEF w, p
<1>3. b \in Seq(X) /\ AllAside(b) /\ NoPage(b)
  <2>1. <<p>> \in Seq(X) /\ AllAside(<<p>>) /\ NoPage(<<p>>)
    BY <1>1 DEF AllAside, Aside, NoPage
  <2>2. <<>> \in Seq(X) /\ AllAside(<<>>) /\ NoPage(<<>>)
    BY DEF AllAside, NoPage
  <2> QED BY <2>1, <2>2
<1>4. d \in Seq(X) /\ AllAside(d) /\ NoPage(d)
  <2>2. <<>> \in Seq(X) /\ AllAside(<<>>) /\ NoPage(<<>>)
    BY DEF AllAside, NoPage
  <2> QED BY <2>2, PhaseWrites
<1>5. /\ e \in Seq(X) /\ NoPage(e)
      /\ st \in InMotion => KeepList(e)
      /\ st \notin InMotion => AllDrop(e)
  BY SaveWrites
<1>6. a \in Seq(X) /\ NoPage(a) /\ Len(a) = 1 /\ a[1] = w
  BY <1>1 DEF NoPage
<1> HIDE DEF b, d, e, X, c, a
<1>7. middle \in Seq(X) /\ AllAside(middle) /\ NoPage(middle)
  BY <1>3, <1>4, JoinIn, JoinShapes
<1> HIDE DEF middle
<1>8. rest \in Seq(X) /\ NoPage(rest)
  BY <1>5, <1>7, JoinIn, JoinShapes DEF middle
<1>9. (st \in InMotion => KeepList(rest)) /\ (st \notin InMotion => AllDrop(rest))
  BY <1>5, <1>7, AsideShapes, JoinShapes DEF middle, DropList
<1>10. c = a \o rest
  <2>1. ((a \o b) \o d) \o e = a \o ((b \o d) \o e)
    <3>1. (a \o b) \o d = a \o (b \o d)
      BY <1>3, <1>4, <1>6, JoinAssoc
    <3>2. (a \o middle) \o e = a \o (middle \o e)
      <4>1. a \in Seq(X) /\ middle \in Seq(X) /\ e \in Seq(X)
        BY <1>5, <1>6, <1>7
      <4> HIDE DEF rest
      <4> QED BY <4>1, JoinAssoc
    <3> QED BY <3>1, <3>2 DEF middle
  <2> QED BY <1>2, <2>1
<1> HIDE DEF rest
<1>11. /\ c \in Seq(X) /\ NoPage(c) /\ Len(c) = 1 + Len(rest) /\ Len(rest) \in Nat
       /\ c[1] = w /\ \A i \in 1 .. Len(rest) : c[i + 1] = rest[i]
  <2>1. c \in Seq(X) /\ NoPage(c)
    BY <1>6, <1>8, <1>10, JoinIn, JoinShapes
  <2>2. /\ Len(c) = 1 + Len(rest) /\ Len(rest) \in Nat
        /\ \A i \in 1 .. 1 + Len(rest) : c[i] = IF i <= 1 THEN a[i] ELSE rest[i - 1]
    <3>1. /\ Len(a \o rest) = Len(a) + Len(rest)
          /\ \A i \in 1 .. Len(a) + Len(rest) : (a \o rest)[i] = IF i <= Len(a) THEN a[i] ELSE rest[i - Len(a)]
      BY <1>6, <1>8, JoinIn
    <3>2. Len(rest) \in Nat
      BY <1>8
    <3> QED BY <1>6, <1>10, <3>1, <3>2
  <2>3. ASSUME NEW i \in 1 .. Len(rest) PROVE c[i + 1] = rest[i]
    <3>1. i + 1 \in 1 .. 1 + Len(rest) /\ ~(i + 1 <= 1) /\ (i + 1) - 1 = i
      BY <2>2
    <3> QED BY <2>2, <3>1
  <2> QED BY <1>6, <2>1, <2>2, <2>3
<1>12. ASSUME st \notin InMotion PROVE DropList(c)
  <2>1. AllDrop(c)
    <3>1. AllDrop(a)
      BY <1>1, <1>6, <1>12 DEF AllDrop, Drops
    <3> QED BY <1>6, <1>8, <1>9, <1>10, <1>12, <3>1, JoinShapes
  <2>2. StatusFirst(c)
    <3> SUFFICES ASSUME NEW i \in 1 .. Len(c), c[i].do \in {"open", "write", "remove"}
                 PROVE  \E j \in 1 .. i - 1 : c[j].do = "status"
      BY DEF StatusFirst
    <3>1. i # 1
      BY <1>1, <1>11
    <3>2. 1 \in 1 .. i - 1
      BY <1>11, <3>1
    <3> QED BY <1>1, <1>11, <3>2
  <2> QED BY <2>1, <2>2 DEF DropList
<1>13. ASSUME st \in InMotion PROVE KeepList(c)
  <2>1. st # "none"
    BY <1>13 DEF InMotion
  <2>2. PICK k \in 1 .. Len(rest) : rest[k].do = "write"
    <3>1. Len(e) = 2 /\ e[2].do = "write"
      BY <2>1 DEF e, Save, W
    <3>2. /\ Len(rest) = Len(middle) + Len(e) /\ Len(middle) \in Nat
          /\ \A i \in 1 .. Len(middle) + Len(e) :
                rest[i] = IF i <= Len(middle) THEN middle[i] ELSE e[i - Len(middle)]
      <4>1. rest = middle \o e
        BY DEF rest, middle
      <4> QED BY <1>5, <1>7, <4>1, JoinIn
    <3>3. /\ Len(middle) + 2 \in 1 .. Len(middle) + Len(e)
          /\ ~(Len(middle) + 2 <= Len(middle)) /\ (Len(middle) + 2) - Len(middle) = 2
      BY <3>1, <3>2
    <3>4. rest[Len(middle) + 2] = e[2]
      BY <3>2, <3>3
    <3> QED BY <3>1, <3>2, <3>3, <3>4
  <2>3. AllKeep(c)
    <3>1. AllKeep(a)
      BY <1>1, <1>6, <1>13 DEF AllKeep, Keeps
    <3> QED BY <1>6, <1>8, <1>9, <1>10, <1>13, <3>1, JoinShapes DEF KeepList
  <2>4. Settled(c)
    <3> SUFFICES ASSUME NEW j \in 1 .. Len(c), c[j].do \in {"status", "open"}
                 PROVE  \E i \in j + 1 .. Len(c) : c[i].do = "write"
      BY DEF Settled
    <3>1. CASE j = 1
      BY <1>11, <2>2, <3>1
    <3>2. CASE j # 1
      <4>1. j - 1 \in 1 .. Len(rest) /\ c[j] = rest[j - 1]
        BY <1>11, <3>2
      <4>2. PICK i \in (j - 1) + 1 .. Len(rest) : rest[i].do = "write"
        BY <1>9, <1>13, <4>1 DEF KeepList, Settled
      <4>3. i + 1 \in j + 1 .. Len(c) /\ c[i + 1] = rest[i]
        BY <1>11, <4>1, <4>2
      <4> QED BY <4>2, <4>3
    <3> QED BY <3>1, <3>2
  <2> QED BY <2>3, <2>4 DEF KeepList
<1> QED BY <1>11, <1>12, <1>13 DEF c, X

\* The end of the process: out of the startup sequence, and nothing is told of it.
LEMMA EndedWrites ==
    ASSUME NEW gentle \in BOOLEAN, NEW R, <<>> \in R, NEW no \in R
    PROVE  Ended(no) \in Seq(WritesWith(gentle, R)) /\ NoPage(Ended(no)) /\ DropList(Ended(no))
<1> DEFINE a == ManageStartupSeqWiz(FALSE)
           c == ChangeSystemEncryptionStatus("none", no)
<1>1. a \in Seq(WritesWith(gentle, R)) /\ NoPage(a) /\ DropList(a)
  BY StartupWrites, AsideShapes
<1>2. c \in Seq(WritesWith(gentle, R)) /\ NoPage(c) /\ DropList(c)
  <2>1. "none" \in SysStatuses /\ "none" \notin InMotion
    BY DEF SysStatuses, InMotion
  <2> QED BY <2>1, ChangeWrites
<1>3. Ended(no) = a \o c
  BY DEF Ended
<1> HIDE DEF a, c
<1> QED BY <1>1, <1>2, <1>3, JoinIn, JoinShapes

\* A list that a page follows.
LEMMA PageFollows ==
    ASSUME NEW gentle \in BOOLEAN, NEW R, <<>> \in R, NEW p \in PagesAfter, p # "prep",
           NEW s \in Seq(WritesWith(gentle, R)), NoPage(s)
    PROVE  /\ s \o Page(p) \in Seq(WritesWith(gentle, R)) /\ PageLast(s \o Page(p))
           /\ AllAside(s) => AllAside(s \o Page(p))
           /\ AllDrop(s) => AllDrop(s \o Page(p))
           /\ KeepList(s) => KeepList(s \o Page(p))
           /\ DropList(s) => DropList(s \o Page(p))
<1> DEFINE t == Page(p)
<1>1. t \in Seq(WritesWith(gentle, R)) /\ AllAside(t) /\ PageLast(t)
  BY PageWrites
<1>2. KeepList(t) /\ DropList(t) /\ AllDrop(t)
  BY <1>1, AsideShapes DEF DropList
<1> HIDE DEF t
<1>3. s \o t \in Seq(WritesWith(gentle, R)) /\ PageLast(s \o t)
  BY <1>1, JoinIn, JoinShapes
<1>4. /\ AllAside(s) => AllAside(s \o t)
      /\ AllDrop(s) => AllDrop(s \o t)
      /\ KeepList(s) => KeepList(s \o t)
      /\ DropList(s) => DropList(s \o t)
  BY <1>1, <1>2, JoinShapes
<1> QED BY <1>3, <1>4 DEF t

\* The list of a failure that is only a page, and the last attempt to save.
LEMMA FailureWrites ==
    ASSUME NEW gentle \in BOOLEAN
    PROVE  /\ \A p \in PagesAfter : Page(p) \in Seq(Writes0(gentle)) /\ Page(p) \in Seq(Writes1(gentle))
           /\ SaveAgain \in Seq(Writes1(gentle))
           /\ <<>> \in Seq(Writes0(gentle)) /\ <<>> \in Seq(Writes1(gentle))
<1>1. <<>> \in Seq(Writes0(gentle)) /\ <<>> \in Seq(Writes1(gentle)) /\ <<>> \in {<<>>}
  OBVIOUS
<1>2. ASSUME NEW p \in PagesAfter PROVE Page(p) \in Seq(Writes0(gentle)) /\ Page(p) \in Seq(Writes1(gentle))
  BY <1>1, PageWrites DEF Writes0, Writes1
<1>3. "off" \in PagesAfter /\ "none" \in SysStatuses
  BY DEF PagesAfter, SysStatuses
<1>4. Save("none", Page("off")) \in Seq(Writes1(gentle))
  BY <1>2, <1>3, SaveWrites DEF Writes1
<1>5. SaveAgain \in Seq(Writes1(gentle))
  BY <1>2, <1>3, <1>4, JoinIn DEF SaveAgain
<1> QED BY <1>1, <1>2, <1>5

\* What EndMainDlg writes: the status that is not yet saved.
EndWrites == (IF wiz.dirty THEN Save(wiz.status, Page("off")) ELSE <<>>) \o Page("off")

LEMMA EndShapes ==
    ASSUME NEW gentle \in BOOLEAN, wiz.status \in SysStatuses
    PROVE  /\ EndWrites \in Seq(Writes2(gentle)) /\ PageLast(EndWrites)
           /\ wiz.status \in InMotion => KeepList(EndWrites)
           /\ wiz.status \notin InMotion => AllDrop(EndWrites)
<1> DEFINE R == Seq(Writes1(gentle))
           s == IF wiz.dirty THEN Save(wiz.status, Page("off")) ELSE <<>>
<1>1. Page("off") \in R /\ <<>> \in R /\ "off" \in PagesAfter
  BY FailureWrites DEF PagesAfter
<1>2. /\ Save(wiz.status, Page("off")) \in Seq(WritesWith(gentle, R)) /\ NoPage(Save(wiz.status, Page("off")))
      /\ wiz.status \in InMotion => KeepList(Save(wiz.status, Page("off")))
      /\ wiz.status \notin InMotion => AllDrop(Save(wiz.status, Page("off")))
  BY <1>1, SaveWrites
<1>3. <<>> \in Seq(WritesWith(gentle, R)) /\ NoPage(<<>>) /\ KeepList(<<>>) /\ AllDrop(<<>>)
  BY NoWrites, AsideShapes DEF DropList
<1>4. /\ s \in Seq(WritesWith(gentle, R)) /\ NoPage(s)
      /\ wiz.status \in InMotion => KeepList(s)
      /\ wiz.status \notin InMotion => AllDrop(s)
  BY <1>2, <1>3
<1>5. EndWrites = s \o Page("off")
  BY DEF EndWrites
<1> HIDE DEF s
<1> QED BY <1>1, <1>4, <1>5, PageFollows DEF Writes2

\* A deinstallation.
LEMMA DeinstallWrites ==
    ASSUME ~run.mounted, NEW no \in Seq(Writes0(FALSE))
    PROVE  /\ Deinstall(no) \in Seq(Writes2(FALSE)) /\ AllAside(Deinstall(no)) /\ NoPage(Deinstall(no))
           /\ Len(Deinstall(no)) = 3 /\ Deinstall(no)[1].do = "filter" /\ Deinstall(no)[1].v = FALSE
<1> DEFINE h == <<W("filter", TRUE, no)>> \o no
           x == W("filter", FALSE, h)
           y == W("phaseNone", "none", no)
           z == W("restore", "none", no)
<1>1. no \in Seq(Writes1(FALSE))
  BY LevelsNested
<1>2. h \in Seq(Writes1(FALSE))
  <2>1. W("filter", TRUE, no) \in Writes1(FALSE)
    BY DEF Writes1, WritesWith, W, WriteKinds, WriteValues, ValueFits
  <2> QED BY <1>1, <2>1, JoinIn, OneIn
<1>3. /\ x \in Writes2(FALSE) /\ x.do = "filter" /\ x.v = FALSE
      /\ y \in Writes2(FALSE) /\ y.do = "phaseNone"
      /\ z \in Writes2(FALSE) /\ z.do = "restore"
  BY <1>1, <1>2 DEF Writes2, WritesWith, W, WriteKinds, WriteValues, ValueFits, ClonePhases, SysStatuses
<1>4. Deinstall(no) = <<x, y, z>>
  BY DEF Deinstall
<1> HIDE DEF x, y, z
<1>5. /\ <<x, y, z>> \in Seq(Writes2(FALSE)) /\ Len(<<x, y, z>>) = 3
      /\ <<x, y, z>>[1] = x /\ <<x, y, z>>[2] = y /\ <<x, y, z>>[3] = z
  BY <1>3, ThreeIn
<1>6. AllAside(<<x, y, z>>) /\ NoPage(<<x, y, z>>)
  BY <1>3, <1>5 DEF AllAside, Aside, NoPage
<1> QED BY <1>3, <1>4, <1>5, <1>6

\* The lists that end the process.
LEMMA FinalWrites ==
    ASSUME NEW gentle \in BOOLEAN
    PROVE  LET e == Ended(SaveAgain) \o Page("off")
           IN  e \in Seq(Writes2(gentle)) /\ PageLast(e) /\ DropList(e)
<1>1. SaveAgain \in Seq(Writes1(gentle)) /\ <<>> \in Seq(Writes1(gentle)) /\ "off" \in PagesAfter
  BY FailureWrites DEF PagesAfter
<1>2. /\ Ended(SaveAgain) \in Seq(WritesWith(gentle, Seq(Writes1(gentle))))
      /\ NoPage(Ended(SaveAgain)) /\ DropList(Ended(SaveAgain))
  BY <1>1, EndedWrites
<1> QED BY <1>1, <1>2, PageFollows DEF Writes2

LEMMA TerminateWrites ==
    ASSUME ~run.mounted
    PROVE  LET t == Deinstall(Page("off")) \o Ended(SaveAgain) \o Page("off")
           IN  t \in Seq(Writes2(FALSE)) /\ PageLast(t) /\ DropList(t)
<1> DEFINE a == Deinstall(Page("off"))
           e == Ended(SaveAgain)
<1>1. SaveAgain \in Seq(Writes1(FALSE)) /\ <<>> \in Seq(Writes1(FALSE)) /\ "off" \in PagesAfter
  BY FailureWrites DEF PagesAfter
<1>2. e \in Seq(Writes2(FALSE)) /\ NoPage(e) /\ DropList(e)
  BY <1>1, EndedWrites DEF Writes2
<1>3. a \in Seq(Writes2(FALSE)) /\ NoPage(a) /\ DropList(a)
  <2>1. Page("off") \in Seq(Writes0(FALSE))
    BY <1>1, FailureWrites
  <2> QED BY <2>1, DeinstallWrites, AsideShapes
<1> HIDE DEF a, e
<1>4. a \o e \in Seq(Writes2(FALSE)) /\ NoPage(a \o e) /\ DropList(a \o e)
  BY <1>2, <1>3, JoinIn, JoinShapes
<1>5. LET t == (a \o e) \o Page("off")
      IN  t \in Seq(Writes2(FALSE)) /\ PageLast(t) /\ DropList(t)
  BY <1>1, <1>4, PageFollows DEF Writes2
<1> QED BY <1>5 DEF a, e

LEMMA DecryptedWrites ==
    ASSUME ~run.mounted
    PROVE  LET t == Deinstall(Ended(<<>>)) \o Ended(<<>>)
           IN  /\ t \in Seq(Writes2(FALSE)) /\ NoPage(t) /\ DropList(t)
               /\ t # <<>> /\ t[1].do = "filter" /\ t[1].v = FALSE
<1> DEFINE a == Deinstall(Ended(<<>>))
           e == Ended(<<>>)
<1>1. <<>> \in {<<>>} /\ <<>> \in Seq(Writes1(FALSE))
  OBVIOUS
<1>2. e \in Seq(Writes2(FALSE)) /\ NoPage(e) /\ DropList(e)
  BY <1>1, EndedWrites DEF Writes2
<1>3. /\ a \in Seq(Writes2(FALSE)) /\ NoPage(a) /\ DropList(a)
      /\ Len(a) = 3 /\ a[1].do = "filter" /\ a[1].v = FALSE
  <2>1. e \in Seq(Writes0(FALSE))
    BY <1>1, EndedWrites DEF Writes0
  <2> QED BY <2>1, DeinstallWrites, AsideShapes
<1> HIDE DEF a, e
<1>4. a \o e \in Seq(Writes2(FALSE)) /\ NoPage(a \o e) /\ DropList(a \o e)
  BY <1>2, <1>3, JoinIn, JoinShapes
<1>5. Len(a \o e) > 0 /\ (a \o e)[1] = a[1]
  BY <1>2, <1>3, JoinIn
<1>6. a \o e # <<>>
  BY <1>5
<1> QED BY <1>3, <1>4, <1>5, <1>6 DEF a, e

LEMMA FinishedWrites ==
    ASSUME NEW gentle \in BOOLEAN, NEW p \in {"off", "progress"}
    PROVE  LET t == ManageStartupSeqWiz(FALSE) \o WipeHiddenOSCreationConfig
                    \o ChangeSystemEncryptionStatus("none", IF p = "off" THEN SaveAgain ELSE Page(p)) \o Page(p)
           IN  t \in Seq(Writes2(gentle)) /\ PageLast(t) /\ DropList(t)
<1> DEFINE no == IF p = "off" THEN SaveAgain ELSE Page(p)
           a == ManageStartupSeqWiz(FALSE)
           b == WipeHiddenOSCreationConfig
           c == ChangeSystemEncryptionStatus("none", no)
<1>1. p \in PagesAfter /\ p # "prep" /\ "none" \in SysStatuses /\ "none" \notin InMotion
  BY DEF PagesAfter, SysStatuses, InMotion
<1>2. no \in Seq(Writes1(gentle)) /\ <<>> \in Seq(Writes1(gentle))
  BY <1>1, FailureWrites
<1> HIDE DEF no
<1>3. a \in Seq(Writes2(gentle)) /\ NoPage(a) /\ DropList(a)
  BY <1>2, StartupWrites, AsideShapes DEF Writes2
<1>4. b \in Seq(Writes2(gentle)) /\ NoPage(b) /\ DropList(b)
  BY <1>2, PhaseWrites, AsideShapes DEF Writes2
<1>5. c \in Seq(Writes2(gentle)) /\ NoPage(c) /\ DropList(c)
  BY <1>1, <1>2, ChangeWrites DEF Writes2
<1> HIDE DEF a, b, c
<1> DEFINE d == a \o b
<1>6. d \in Seq(Writes2(gentle)) /\ NoPage(d) /\ DropList(d)
  BY <1>3, <1>4, JoinIn, JoinShapes
<1> HIDE DEF d
<1> DEFINE f == d \o c
<1>7. f \in Seq(Writes2(gentle)) /\ NoPage(f) /\ DropList(f)
  BY <1>5, <1>6, JoinIn, JoinShapes
<1> HIDE DEF f
<1>8. f \o Page(p) \in Seq(Writes2(gentle)) /\ PageLast(f \o Page(p)) /\ DropList(f \o Page(p))
  BY <1>1, <1>2, <1>7, PageFollows DEF Writes2
<1> QED BY <1>8 DEF a, b, c, d, f, no

\* The installation, and the pretest or the cloning to follow.
PretestFailure(hiddenOS) ==
    IF hiddenOS THEN ChangeSystemEncryptionStatus("none", Page("prep")) \o Page("prep") ELSE Page("prep")
PretestWrites(hiddenOS) ==
    Install(hiddenOS, ChangeSystemEncryptionStatus("pretest", PretestFailure(hiddenOS))
                      \o (IF hiddenOS THEN <<W("phase", "cloning", PretestFailure(hiddenOS))>> ELSE <<>>)
                      \o ManageStartupSeqWiz(TRUE) \o Page("off"))

LEMMA InstallWrites ==
    ASSUME NEW hiddenOS \in BOOLEAN
    PROVE  /\ PretestWrites(hiddenOS) \in Seq(Writes2(FALSE)) /\ PageLast(PretestWrites(hiddenOS))
           /\ DropList(PretestWrites(hiddenOS))
<1> DEFINE X == Writes2(FALSE)
           Y == Seq(Writes1(FALSE))
           no == <<W("restore", "none", Page("prep"))>> \o Page("prep")
           no2 == PretestFailure(hiddenOS)
<1>1. "prep" \in PagesAfter /\ "off" \in PagesAfter /\ {"none", "pretest"} \subseteq SysStatuses \ InMotion
  BY DEF PagesAfter, SysStatuses, InMotion
<1>2. Page("prep") \in Seq(Writes0(FALSE)) /\ Page("prep") \in Y /\ <<>> \in Y /\ <<>> \in Seq(Writes0(FALSE))
  BY <1>1, FailureWrites
<1>3. no \in Y
  <2>1. W("restore", "none", Page("prep")) \in Writes1(FALSE)
    BY <1>2 DEF Writes1, WritesWith, W, WriteKinds, WriteValues, ValueFits, SysStatuses
  <2> QED BY <1>2, <2>1, OneIn, JoinIn
<1>4. no2 \in Y
  <2>1. ChangeSystemEncryptionStatus("none", Page("prep")) \in Seq(WritesWith(FALSE, Seq(Writes0(FALSE))))
    BY <1>1, <1>2, ChangeWrites
  <2>2. ChangeSystemEncryptionStatus("none", Page("prep")) \o Page("prep") \in Y
    BY <1>2, <2>1, JoinIn DEF Writes1
  <2> QED BY <1>2, <2>2 DEF PretestFailure
<1> HIDE DEF no, no2
<1> DEFINE l == W("loader", hiddenOS, no)
           h == W("header", "none", no)
           f == W("filter", TRUE, no)
           q == W("phase", "cloning", no2)
<1>5. /\ l \in X /\ l.do = "loader" /\ h \in X /\ h.do = "header"
      /\ f \in X /\ f.do = "filter" /\ q \in X /\ q.do = "phase"
  BY <1>3, <1>4 DEF Writes2, WritesWith, W, WriteKinds, WriteValues, ValueFits, SysStatuses, ClonePhases
<1> HIDE DEF l, h, f, q
<1>6. ASSUME NEW w \in X, w.do \in {"loader", "header", "filter", "phase"}
      PROVE  <<w>> \in Seq(X) /\ NoPage(<<w>>) /\ DropList(<<w>>)
  <2>1. AllAside(<<w>>) /\ NoPage(<<w>>)
    BY <1>6 DEF AllAside, Aside, NoPage
  <2> QED BY <2>1, OneIn, AsideShapes
<1>7. <<>> \in Seq(X) /\ NoPage(<<>>) /\ DropList(<<>>)
  BY NoWrites, AsideShapes
<1> DEFINE a1 == <<l>>
           a2 == IF hiddenOS THEN <<>> ELSE <<h>>
           a3 == <<f>>
           b1 == ChangeSystemEncryptionStatus("pretest", no2)
           b2 == IF hiddenOS THEN <<q>> ELSE <<>>
           b3 == ManageStartupSeqWiz(TRUE)
           Good(s) == s \in Seq(X) /\ NoPage(s) /\ DropList(s)
<1>8. Good(a1) /\ Good(a2) /\ Good(a3) /\ Good(b2)
  BY <1>5, <1>6, <1>7
<1>9. Good(b1) /\ Good(b3)
  <2>1. Good(b1)
    BY <1>1, <1>2, <1>4, ChangeWrites DEF Writes2
  <2>2. Good(b3)
    BY <1>2, StartupWrites, AsideShapes DEF Writes2
  <2> QED BY <2>1, <2>2
<1>10. PretestWrites(hiddenOS) = ((a1 \o a2) \o a3) \o (((b1 \o b2) \o b3) \o Page("off"))
  BY DEF PretestWrites, Install, l, h, f, q, no, no2
<1> HIDE DEF a1, a2, a3, b1, b2, b3, X, Y
<1>11. ASSUME NEW s, NEW t, Good(s), Good(t) PROVE Good(s \o t)
  BY <1>11, JoinIn, JoinShapes
<1> DEFINE a == (a1 \o a2) \o a3
           b == (b1 \o b2) \o b3
<1>12. Good(a) /\ Good(b)
  BY <1>8, <1>9, <1>11
<1> HIDE DEF a, b
<1>13. b \o Page("off") \in Seq(X) /\ PageLast(b \o Page("off")) /\ DropList(b \o Page("off"))
  BY <1>1, <1>2, <1>12, PageFollows DEF Writes2, X, Y
<1> DEFINE c == b \o Page("off")
<1>14. PretestWrites(hiddenOS) = a \o c
  BY <1>10 DEF a, b
<1> HIDE DEF c
<1>15. c \in Seq(X) /\ PageLast(c) /\ DropList(c)
  BY <1>13 DEF c
<1> QED BY <1>12, <1>14, <1>15, JoinIn, JoinShapes DEF X

-----------------------------------------------------------------------------
(***************************************************************************)
(* The inductive invariant.  What is said in the state Calm, in which no   *)
(* write failed and nothing was cut off, relates the writes under way to   *)
(* the status that the wizard remembers and to the area encrypted.         *)
(***************************************************************************)
SysPages == {"off", "init", "intro", "prep", "page", "progress", "result", "info", "wipe", "end"}
SysCommands == {"none", "startup", "user", "resume", "encrypt", "decrypt"}
DriveStates == [mbr : {"sys", "cs"}, hdr : BOOLEAN, phase : {"none", "cloning", "wiping", "wiped"},
                crc : BOOLEAN, area : 0 .. SysUnits, clone : BOOLEAN, orig : BOOLEAN]
ConfStates == [cfg : {"none", "pretest", "enc", "dec"}, startup : BOOLEAN, filter : BOOLEAN]
RunStates == [os : Systems \cup {"off"}, active : BOOLEAN, mounted : BOOLEAN,
              setup : {"off", "enc", "dec", "wipe", "wiped"}]
WizStates == [at : SysPages, cmd : SysCommands, status : SysStatuses, dirty : BOOLEAN, inprog : BOOLEAN,
              todo : Seq(Writes2(FALSE))]
WizTypes ==
    /\ wiz \in WizStates
    /\ run.mounted => wiz.todo \in Seq(Writes2(TRUE))
CountTypes == sysCount \in [boots : Nat, faults : Nat]
OffInv == run.os = "off" => run = Off /\ wiz = NoWizard
MountInv ==
    /\ run.mounted => run.active
    /\ run.mounted /\ run.os = "main" => sysDrive.mbr = "cs" /\ sysDrive.hdr /\ conf["main"].filter
    /\ run.setup \in InMotion => run.mounted /\ run.os = "main"
CloneInv == (run.os = "hidden" => sysDrive.clone) /\ WipedMeansCloned

Calm == odd = {} /\ sysCount.faults = 0
Listed(page, s) ==
    /\ PageLast(s) /\ (page = "off" => s = <<>>)
    /\ KeepList(s) \/ (AllDrop(s) /\ (wiz.status \notin InMotion \/ StatusFirst(s)))
ListInv == Listed(wiz.at, wiz.todo)
WritePending == \E i \in 1 .. Len(wiz.todo) : wiz.todo[i].do = "write" /\ wiz.todo[i].v \in InMotion
Told == conf["main"].cfg \in InMotion \/ (run.os = "main" /\ WritePending)
StatusInv == run.os = "main" /\ wiz.status \in InMotion => Told
SetupInv == run.setup \in InMotion =>
    wiz.at = "progress" /\ wiz.todo = <<>> /\ wiz.inprog /\ wiz.status \in InMotion
Partial == 0 < sysDrive.area /\ sysDrive.area < SysUnits
PartialPages == {"off", "init", "intro", "page", "progress", "end"}
ActiveInv == run.os = "main" /\ sysDrive.area > 0 => run.active
ToldInv == Partial => Told
PartialInv ==
    Partial /\ run.os = "main" /\ wiz.at # "off" =>
        /\ wiz.status \in InMotion /\ wiz.at \in PartialPages
        /\ \/ AllKeep(wiz.todo)
           \/ wiz.todo # <<>> /\ wiz.todo[1].do = "filter" /\ wiz.todo[1].v = FALSE
CalmInv == Calm => ListInv /\ StatusInv /\ SetupInv /\ ActiveInv /\ ToldInv /\ PartialInv
SysInv ==
    /\ SysTypeOK /\ WizTypes /\ CountTypes /\ OffInv /\ MountInv /\ CloneInv /\ EncryptedIsReachable /\ CalmInv

\* The invariant says what the run checks.
LEMMA SysInvReaches == SysInv => SystemReachable
<1> SUFFICES ASSUME SysInv PROVE SystemReachable
  OBVIOUS
<1>1. SysTypeOK /\ EncryptedIsReachable /\ WipedMeansCloned
  BY DEF SysInv, CloneInv
<1>2. PartialIsRemembered
  <2> SUFFICES ASSUME wiz.at = "off", Partial, Calm PROVE conf["main"].cfg # "none"
    BY DEF PartialIsRemembered, Partial, Calm
  <2>1. wiz.todo = <<>> /\ Told
    BY DEF SysInv, CalmInv, ListInv, Listed, ToldInv
  <2>2. ~WritePending
    BY <2>1, NoWrites DEF WritePending
  <2> QED BY <2>1, <2>2 DEF Told, InMotion
<1> QED BY <1>1, <1>2 DEF SystemReachable

\* It holds initially.
LEMMA SysInvInit == SysInit => SysInv
<1> SUFFICES ASSUME SysInit PROVE SysInv
  OBVIOUS
<1>1. SysTypeOK
  BY SysAssumption DEF SysInit, SysTypeOK, DriveStates, ConfStates, RunStates, NoConf, Off, Systems
<1>2. WizTypes /\ CountTypes /\ OffInv
  BY DEF SysInit, WizTypes, WizStates, CountTypes, OffInv, NoWizard, Off, SysPages, SysCommands, SysStatuses
<1>3. MountInv /\ CloneInv /\ EncryptedIsReachable
  BY DEF SysInit, MountInv, CloneInv, WipedMeansCloned, EncryptedIsReachable, Off, InMotion
<1>4. StatusInv /\ SetupInv /\ ActiveInv /\ ToldInv /\ PartialInv
  BY DEF SysInit, StatusInv, SetupInv, ActiveInv, ToldInv, PartialInv, Partial, Off, InMotion
<1>5. ListInv
  <2>1. wiz.todo = <<>>
    BY DEF SysInit, NoWizard
  <2> QED BY <2>1, NoWrites, AsideShapes DEF ListInv, Listed
<1> QED BY <1>1, <1>2, <1>3, <1>4, <1>5 DEF SysInv, CalmInv

\* A step that changes neither the drive nor the files, only the wizard, which was
\* waiting, and the set-up in the driver.
LEMMA WizardStep ==
    ASSUME SysInv, Ready, UNCHANGED <<sysDrive, conf, sysCount>>, odd \subseteq odd',
           WizTypes', wiz'.status = wiz.status,
           run' = [run EXCEPT !.setup = run'.setup], run'.setup \in {"off", "enc", "dec", "wipe", "wiped"},
           run'.setup \in InMotion => run.mounted /\ run.os = "main",
           Calm' => ListInv' /\ SetupInv' /\ PartialInv'
    PROVE  SysInv'
<1>1. /\ run'.os = run.os /\ run'.active = run.active /\ run'.mounted = run.mounted
      /\ run' \in RunStates
  BY DEF SysInv, SysTypeOK, DriveStates, ConfStates, RunStates
<1>2. SysTypeOK' /\ CountTypes'
  BY <1>1 DEF SysInv, SysTypeOK, DriveStates, ConfStates, RunStates, CountTypes
<1>3. OffInv'
  BY <1>1 DEF SysInv, OffInv, Ready, NoWizard
<1>4. MountInv' /\ CloneInv' /\ EncryptedIsReachable'
  <2>1. MountInv'
    BY <1>1 DEF SysInv, MountInv
  <2>2. CloneInv'
    BY <1>1 DEF SysInv, CloneInv, WipedMeansCloned
  <2>3. EncryptedIsReachable'
    BY DEF SysInv, EncryptedIsReachable
  <2> QED BY <2>1, <2>2, <2>3
<1>5. ASSUME Calm' PROVE StatusInv' /\ ActiveInv' /\ ToldInv'
  <2>1. Calm
    BY <1>5 DEF Calm
  <2>2. ~WritePending
    BY NoWrites DEF Ready, WritePending
  <2>3. StatusInv'
    BY <1>1, <2>1, <2>2 DEF SysInv, CalmInv, StatusInv, Told
  <2>4. ActiveInv' /\ ToldInv'
    BY <1>1, <2>1, <2>2 DEF SysInv, CalmInv, ActiveInv, ToldInv, Told, Partial
  <2> QED BY <2>3, <2>4
<1> QED BY <1>2, <1>3, <1>4, <1>5 DEF SysInv, CalmInv

\* What is known of the wizard while it waits.
LEMMA Waiting ==
    ASSUME SysInv, wiz.at # "off"
    PROVE  /\ run.os \in Systems /\ run.mounted \in BOOLEAN /\ wiz.status \in SysStatuses
           /\ Calm /\ run.setup \in InMotion => wiz.at = "progress" /\ wiz.inprog /\ wiz.status \in InMotion
           /\ Calm /\ Partial /\ run.os = "main" => /\ wiz.status \in InMotion /\ wiz.at \in PartialPages
                                                   /\ run.active
BY DEF SysInv, SysTypeOK, DriveStates, ConfStates, RunStates, WizTypes, WizStates, OffInv, NoWizard, CalmInv, SetupInv, PartialInv, ActiveInv, Partial

\* A step to a page with a list of writes.
LEMMA GoesStep ==
    ASSUME SysInv, Ready, wiz.at # "progress" \/ ~wiz.inprog,
           NEW page \in SysPages, NEW s \in Seq(Writes2(FALSE)), run.mounted => s \in Seq(Writes2(TRUE)),
           Goes(page, s),
           Calm => Listed(page, s),
           Calm /\ Partial /\ run.os = "main" => page \in PartialPages /\ AllKeep(s)
    PROVE  SysInv'
<1>1. /\ wiz' = [wiz EXCEPT !.at = page, !.todo = s, !.cmd = "none"]
      /\ sysDrive' = sysDrive /\ conf' = conf /\ run' = run /\ sysCount' = sysCount /\ odd' = odd
  BY DEF Goes
<1>2. wiz \in WizStates
  BY DEF SysInv, WizTypes, WizStates
<1>3. wiz'.at = page /\ wiz'.todo = s /\ wiz'.status = wiz.status
  BY <1>1, <1>2
<1>4. WizTypes'
  BY <1>1, <1>2, <1>3 DEF WizTypes, WizStates, SysCommands
<1>5. run' = [run EXCEPT !.setup = run'.setup] /\ run'.setup \in {"off", "enc", "dec", "wipe", "wiped"}
  BY <1>1 DEF SysInv, SysTypeOK, DriveStates, ConfStates, RunStates
<1>6. run'.setup \in InMotion => run.mounted /\ run.os = "main"
  BY <1>1 DEF SysInv, MountInv
<1>7. ASSUME Calm' PROVE ListInv' /\ SetupInv' /\ PartialInv'
  <2>1. Calm
    BY <1>1, <1>7 DEF Calm
  <2>2. ListInv'
    BY <1>3, <2>1 DEF ListInv, Listed
  <2>3. SetupInv'
    BY <1>1, <2>1, Waiting DEF SetupInv, Ready
  <2>4. PartialInv'
    BY <1>1, <1>3, <2>1, Waiting DEF PartialInv, Partial, Ready
  <2> QED BY <2>2, <2>3, <2>4
<1> QED BY <1>1, <1>3, <1>4, <1>5, <1>6, <1>7, WizardStep

-----------------------------------------------------------------------------
(***************************************************************************)
(* The steps outside the wizard.                                           *)
(***************************************************************************)
\* No wizard, nothing to write.
LEMMA NoWizardFacts ==
    ASSUME wiz = NoWizard
    PROVE  wiz.at = "off" /\ wiz.todo = <<>> /\ wiz.status = "none" /\ wiz.status \notin InMotion /\ ~WritePending
BY NoWrites DEF NoWizard, InMotion, WritePending

\* A computer that starts.
LEMMA BootedStep ==
    ASSUME SysInv, run.os = "off", NEW sys \in Systems, NEW mounted \in BOOLEAN, Booted(sys, mounted),
           sys = "main" /\ mounted => sysDrive.mbr = "cs" /\ sysDrive.hdr,
           sys = "hidden" => sysDrive.clone
    PROVE  SysInv'
<1>1. /\ run' = [os |-> sys, active |-> conf[sys].filter, mounted |-> mounted /\ conf[sys].filter, setup |-> "off"]
      /\ sysCount' = [sysCount EXCEPT !.boots = @ + 1]
      /\ sysDrive' = sysDrive /\ conf' = conf /\ wiz' = wiz /\ odd' = odd
  BY DEF Booted
<1>2. wiz = NoWizard
  BY DEF SysInv, OffInv
<1>3. conf[sys].filter \in BOOLEAN
  BY DEF SysInv, SysTypeOK, DriveStates, ConfStates, RunStates
<1>4. SysTypeOK' /\ CountTypes'
  BY <1>1, <1>3 DEF SysInv, SysTypeOK, DriveStates, ConfStates, RunStates, CountTypes
<1>5. WizTypes'
  BY <1>1, <1>2, NoWizardFacts, NoWrites DEF SysInv, WizTypes, WizStates
<1>6. OffInv'
  BY <1>1 DEF OffInv, Systems
<1>7. MountInv'
  BY <1>1, <1>3 DEF MountInv, InMotion
<1>8. CloneInv' /\ EncryptedIsReachable'
  BY <1>1 DEF SysInv, CloneInv, WipedMeansCloned, EncryptedIsReachable
<1>9. ASSUME Calm' PROVE ListInv' /\ StatusInv' /\ SetupInv' /\ ActiveInv' /\ ToldInv' /\ PartialInv'
  <2>1. Calm /\ "blind" \notin odd
    BY <1>1, <1>9 DEF Calm, SysInv, CountTypes
  <2>2. ListInv'
    BY <1>1, <2>1 DEF SysInv, CalmInv, ListInv, Listed
  <2>3. ActiveInv'
    BY <1>1, <2>1 DEF SysInv, EncryptedIsReachable, ActiveInv
  <2>4. ToldInv'
    BY <1>1, <1>2, <2>1, NoWizardFacts DEF SysInv, CalmInv, ToldInv, Told, Partial
  <2>5. StatusInv' /\ PartialInv'
    BY <1>1, <1>2, NoWizardFacts DEF StatusInv, PartialInv
  <2>6. SetupInv'
    BY <1>1 DEF SetupInv, InMotion
  <2> QED BY <2>2, <2>3, <2>4, <2>5, <2>6
<1> QED BY <1>4, <1>5, <1>6, <1>7, <1>8, <1>9 DEF SysInv, CalmInv

LEMMA BootSteps == SysInv /\ (BootEncryptedDrive \/ BootMenu) => SysInv'
<1> SUFFICES ASSUME SysInv, BootEncryptedDrive \/ BootMenu PROVE SysInv'
  OBVIOUS
<1>1. "main" \in Systems /\ "hidden" \in Systems
  BY DEF Systems
<1>2. CASE BootEncryptedDrive
  <2>1. run.os = "off" /\ sysDrive.mbr = "cs"
    BY <1>2 DEF BootEncryptedDrive, Boots
  <2>2. CASE sysDrive.hdr /\ Booted("main", TRUE)
    BY <1>1, <2>1, <2>2, BootedStep
  <2>3. CASE sysDrive.clone /\ Booted("hidden", TRUE)
    BY <1>1, <2>1, <2>3, BootedStep
  <2> QED BY <1>2, <2>2, <2>3 DEF BootEncryptedDrive
<1>3. CASE BootMenu
  BY <1>1, <1>3, BootedStep DEF BootMenu, Boots
<1> QED BY <1>2, <1>3

\* The steps of a computer that is off change neither the wizard nor the running system.
LEMMA OffStep ==
    ASSUME SysInv, run.os = "off", UNCHANGED <<run, wiz, sysCount>>, odd \subseteq odd',
           SysTypeOK', CloneInv', EncryptedIsReachable', Calm' => ToldInv'
    PROVE  SysInv'
<1>1. wiz = NoWizard /\ run = Off
  BY DEF SysInv, OffInv
<1>2. WizTypes' /\ CountTypes' /\ OffInv'
  BY DEF SysInv, WizTypes, WizStates, CountTypes, OffInv
<1>3. MountInv'
  BY <1>1 DEF MountInv, Off, InMotion
<1>4. ASSUME Calm' PROVE ListInv' /\ StatusInv' /\ SetupInv' /\ ActiveInv' /\ PartialInv'
  <2>1. Calm
    BY <1>4 DEF Calm
  <2>2. ListInv'
    BY <2>1 DEF SysInv, CalmInv, ListInv, Listed
  <2>3. StatusInv' /\ SetupInv' /\ ActiveInv' /\ PartialInv'
    BY <1>1, NoWizardFacts DEF StatusInv, SetupInv, ActiveInv, PartialInv, Off, InMotion
  <2> QED BY <2>2, <2>3
<1> QED BY <1>2, <1>3, <1>4 DEF SysInv, CalmInv

LEMMA DecoyStep == SysInv /\ InstallDecoySystem => SysInv'
<1> SUFFICES ASSUME SysInv, InstallDecoySystem PROVE SysInv'
  OBVIOUS
<1>1. SysTypeOK'
  <2>1. 0 \in 0 .. SysUnits
    BY SysAssumption
  <2>2. sysDrive' \in DriveStates
    BY <2>1 DEF SysInv, SysTypeOK, DriveStates, ConfStates, RunStates, InstallDecoySystem
  <2>3. NoConf \in ConfStates
    BY DEF NoConf, ConfStates
  <2>4. conf' \in [Systems -> ConfStates]
    BY <2>3 DEF SysInv, SysTypeOK, DriveStates, ConfStates, RunStates, InstallDecoySystem
  <2> QED BY <2>2, <2>4 DEF SysInv, SysTypeOK, DriveStates, ConfStates, RunStates, InstallDecoySystem
<1>2. sysDrive'.area = 0 /\ sysDrive'.orig /\ sysDrive'.clone = sysDrive.clone
  BY DEF SysInv, SysTypeOK, DriveStates, ConfStates, RunStates, InstallDecoySystem
<1>3. CloneInv' /\ EncryptedIsReachable' /\ ToldInv'
  BY <1>2 DEF InstallDecoySystem, SysInv, CloneInv, WipedMeansCloned, EncryptedIsReachable, ToldInv, Partial
<1> QED BY <1>1, <1>3, OffStep DEF InstallDecoySystem

LEMMA CloneStep ==
    ASSUME SysInv, NEW done \in BOOLEAN, CopySystemPartitionToHiddenVolume(done)
    PROVE  SysInv'
<1>1. SysTypeOK'
  <2>1. sysDrive' \in DriveStates
    BY DEF SysInv, SysTypeOK, DriveStates, ConfStates, RunStates, CopySystemPartitionToHiddenVolume
  <2>2. conf["main"] \in ConfStates
    BY DEF SysInv, SysTypeOK, DriveStates, ConfStates, RunStates, Systems
  <2>3. conf' \in [Systems -> ConfStates]
    BY <2>2 DEF SysInv, SysTypeOK, DriveStates, ConfStates, RunStates, CopySystemPartitionToHiddenVolume
  <2> QED BY <2>1, <2>3 DEF SysInv, SysTypeOK, DriveStates, ConfStates, RunStates, CopySystemPartitionToHiddenVolume
<1>2. /\ sysDrive'.area = sysDrive.area /\ sysDrive'.mbr = sysDrive.mbr /\ sysDrive'.hdr = sysDrive.hdr
      /\ sysDrive'.orig /\ conf'["main"] = conf["main"]
  BY DEF SysInv, SysTypeOK, DriveStates, ConfStates, RunStates, CopySystemPartitionToHiddenVolume, Systems
<1>3. CloneInv' /\ EncryptedIsReachable'
  BY <1>2 DEF CopySystemPartitionToHiddenVolume, SysInv, CloneInv, WipedMeansCloned, EncryptedIsReachable
<1>4. ASSUME Calm' PROVE ToldInv'
  <2>1. Calm /\ run.os = "off" /\ run' = run
    BY <1>4 DEF Calm, CopySystemPartitionToHiddenVolume
  <2> QED BY <1>2, <2>1 DEF SysInv, CalmInv, ToldInv, Told, Partial
<1> QED BY <1>1, <1>3, <1>4, OffStep DEF CopySystemPartitionToHiddenVolume

LEMMA RescueSteps == SysInv /\ (DecryptDrive \/ RestoreLoader \/ RestoreOriginal) => SysInv'
<1> SUFFICES ASSUME SysInv, DecryptDrive \/ RestoreLoader \/ RestoreOriginal PROVE SysInv'
  OBVIOUS
<1>1. /\ run.os = "off" /\ odd' = odd \cup {"rescue"} /\ conf' = conf /\ run' = run /\ wiz' = wiz
      /\ sysCount' = sysCount
  BY DEF DecryptDrive, RestoreLoader, RestoreOriginal, Rescue
<1>2. /\ SysTypeOK' /\ sysDrive'.clone = sysDrive.clone /\ sysDrive'.orig = sysDrive.orig
      /\ sysDrive'.area > 0 => /\ sysDrive.area > 0 /\ sysDrive'.hdr = sysDrive.hdr
                               /\ sysDrive'.mbr \in {sysDrive.mbr, "cs"}
  <2>1. CASE DecryptDrive
    <3>1. PICK n \in 0 .. sysDrive.area : sysDrive' = [sysDrive EXCEPT !.area = n]
      BY <2>1 DEF DecryptDrive, Rescue
    <3>2. n \in 0 .. SysUnits
      BY SysAssumption DEF SysInv, SysTypeOK, DriveStates, ConfStates, RunStates
    <3>3. SysTypeOK'
      BY <1>1, <3>1, <3>2 DEF SysInv, SysTypeOK, DriveStates, ConfStates, RunStates
    <3>4. /\ sysDrive'.clone = sysDrive.clone /\ sysDrive'.orig = sysDrive.orig /\ sysDrive'.area = n
          /\ sysDrive'.hdr = sysDrive.hdr /\ sysDrive'.mbr = sysDrive.mbr /\ sysDrive.area \in Nat
      BY <3>1, SysAssumption DEF SysInv, SysTypeOK, DriveStates, ConfStates, RunStates
    <3> QED BY <3>3, <3>4
  <2>2. CASE RestoreLoader
    BY <1>1, <2>2 DEF RestoreLoader, Rescue, SysInv, SysTypeOK, DriveStates, ConfStates, RunStates
  <2>3. CASE RestoreOriginal
    <3>1. /\ sysDrive' = [sysDrive EXCEPT !.mbr = "sys", !.hdr = FALSE, !.phase = "none", !.crc = FALSE]
          /\ sysDrive.area = 0
      BY <2>3 DEF RestoreOriginal, Rescue
    <3>2. SysTypeOK'
      BY <1>1, <3>1 DEF SysInv, SysTypeOK, DriveStates, ConfStates, RunStates
    <3>3. sysDrive'.clone = sysDrive.clone /\ sysDrive'.orig = sysDrive.orig /\ sysDrive'.area = 0
      BY <3>1 DEF SysInv, SysTypeOK, DriveStates, ConfStates, RunStates
    <3> QED BY <3>2, <3>3
  <2> QED BY <2>1, <2>2, <2>3
<1>3. CloneInv' /\ EncryptedIsReachable'
  BY <1>1, <1>2 DEF SysInv, CloneInv, WipedMeansCloned, EncryptedIsReachable
<1>4. ~Calm'
  BY <1>1 DEF Calm
<1> QED BY <1>1, <1>2, <1>3, <1>4, OffStep

LEMMA RestartStep == SysInv /\ Restart => SysInv'
<1> SUFFICES ASSUME SysInv, Restart PROVE SysInv'
  OBVIOUS
<1>1. /\ run' = Off /\ wiz' = NoWizard /\ sysDrive' = sysDrive /\ conf' = conf /\ sysCount' = sysCount
      /\ odd' = IF SettingsPending THEN odd \cup {"cut"} ELSE odd
  BY DEF Restart
<1>2. SysTypeOK' /\ CountTypes'
  BY <1>1 DEF SysInv, SysTypeOK, DriveStates, ConfStates, RunStates, CountTypes, Off
<1>3. WizTypes' /\ OffInv'
  BY <1>1, NoWrites DEF WizTypes, WizStates, OffInv, NoWizard, SysPages, SysCommands, SysStatuses
<1>4. MountInv' /\ CloneInv' /\ EncryptedIsReachable'
  BY <1>1 DEF MountInv, SysInv, CloneInv, WipedMeansCloned, EncryptedIsReachable, Off, InMotion
<1>5. ASSUME Calm' PROVE ListInv' /\ StatusInv' /\ SetupInv' /\ ActiveInv' /\ ToldInv' /\ PartialInv'
  <2>1. Calm /\ ~SettingsPending
    BY <1>1, <1>5 DEF Calm
  <2>2. ~WritePending
    <3>1. wiz.todo \in Seq(Writes2(FALSE))
      BY DEF SysInv, WizTypes, WizStates
    <3>2. DOMAIN wiz.todo = 1 .. Len(wiz.todo)
      BY <3>1
    <3> QED BY <2>1, <3>2 DEF SettingsPending, WritePending
  <2>3. ToldInv'
    BY <1>1, <2>1, <2>2 DEF SysInv, CalmInv, ToldInv, Told, Partial
  <2>4. ListInv'
    BY <1>1, NoWrites, AsideShapes DEF ListInv, Listed, NoWizard
  <2>5. StatusInv' /\ SetupInv' /\ ActiveInv' /\ PartialInv'
    BY <1>1 DEF StatusInv, SetupInv, ActiveInv, PartialInv, Off, InMotion
  <2> QED BY <2>3, <2>4, <2>5
<1> QED BY <1>2, <1>3, <1>4, <1>5 DEF SysInv, CalmInv

\* One unit of the set-up in the driver.
LEMMA DriverSteps == SysInv /\ DriverStep => SysInv'
<1> SUFFICES ASSUME SysInv, DriverStep PROVE SysInv'
  OBVIOUS
<1>1. conf' = conf /\ wiz' = wiz /\ sysCount' = sysCount /\ odd' = odd
  BY DEF DriverStep
<1>2. /\ sysDrive \in DriveStates
      /\ run \in RunStates
  BY DEF SysInv, SysTypeOK, DriveStates, ConfStates, RunStates
<1>3. CountTypes'
  BY <1>1 DEF SysInv, CountTypes
<1>4. CASE run.setup \in InMotion
  <2>1. run.mounted /\ run.active /\ run.os = "main" /\ sysDrive.mbr = "cs" /\ sysDrive.hdr /\ conf["main"].filter
    BY <1>4 DEF SysInv, MountInv
  <2>2. /\ sysDrive' \in DriveStates
        /\ run' \in RunStates
        /\ sysDrive'.mbr = "cs" /\ sysDrive'.clone = sysDrive.clone /\ sysDrive'.orig = sysDrive.orig
        /\ run'.os = "main" /\ run'.active /\ run'.setup \in {run.setup, "off"}
        /\ run'.mounted => sysDrive'.hdr
        /\ sysDrive'.area > 0 => run'.mounted
        /\ run'.setup \in InMotion => run'.mounted
    <3>1. CASE run.setup = "enc"
      <4>1. /\ sysDrive' = [sysDrive EXCEPT !.area = IF @ < SysUnits THEN @ + 1 ELSE @]
            /\ run' = IF sysDrive'.area = SysUnits THEN [run EXCEPT !.setup = "off"] ELSE run
        BY <3>1 DEF DriverStep
      <4>2. (IF sysDrive.area < SysUnits THEN sysDrive.area + 1 ELSE sysDrive.area) \in 0 .. SysUnits
        BY <1>2, SysAssumption DEF DriveStates
      <4>3. /\ sysDrive' \in DriveStates
            /\ sysDrive'.mbr = sysDrive.mbr /\ sysDrive'.clone = sysDrive.clone
            /\ sysDrive'.orig = sysDrive.orig /\ sysDrive'.hdr = sysDrive.hdr
        BY <1>2, <4>1, <4>2 DEF DriveStates
      <4>4. /\ run' \in RunStates
            /\ run'.os = run.os /\ run'.active = run.active /\ run'.mounted = run.mounted
            /\ run'.setup \in {run.setup, "off"}
        BY <1>2, <4>1 DEF RunStates
      <4> QED BY <2>1, <4>3, <4>4
    <3>2. CASE run.setup = "dec"
      <4> DEFINE n == IF sysDrive.area > 0 THEN sysDrive.area - 1 ELSE sysDrive.area
      <4>1. /\ sysDrive' = [sysDrive EXCEPT !.area = n, !.hdr = sysDrive.area > 1]
            /\ run' = IF sysDrive'.area = 0 THEN [run EXCEPT !.setup = "off", !.mounted = FALSE] ELSE run
        BY <3>2 DEF DriverStep
      <4>2. n \in 0 .. SysUnits /\ (n > 0 => sysDrive.area > 1) /\ (sysDrive.area > 1) \in BOOLEAN
        BY <1>2, SysAssumption DEF DriveStates
      <4> HIDE DEF n
      <4>3. /\ sysDrive' \in DriveStates
            /\ sysDrive'.mbr = sysDrive.mbr /\ sysDrive'.clone = sysDrive.clone
            /\ sysDrive'.orig = sysDrive.orig /\ sysDrive'.hdr = (sysDrive.area > 1) /\ sysDrive'.area = n
        BY <1>2, <4>1, <4>2 DEF DriveStates
      <4>4. CASE n = 0
        <5>1. run' = [run EXCEPT !.setup = "off", !.mounted = FALSE]
          BY <4>1, <4>3, <4>4
        <5>2. /\ run' \in RunStates
              /\ run'.os = run.os /\ run'.active = run.active /\ run'.mounted = FALSE /\ run'.setup = "off"
          BY <1>2, <5>1 DEF RunStates
        <5> QED BY <2>1, <4>3, <4>4, <5>2 DEF InMotion
      <4>5. CASE n # 0
        <5>1. run' = run /\ n > 0
          BY <4>1, <4>2, <4>3, <4>5, SysAssumption
        <5> QED BY <1>2, <2>1, <4>2, <4>3, <5>1
      <4> QED BY <4>4, <4>5
    <3> QED BY <1>4, <3>1, <3>2 DEF InMotion
  <2>3. SysTypeOK' /\ OffInv'
    BY <1>1, <2>2 DEF SysInv, SysTypeOK, DriveStates, ConfStates, RunStates, OffInv
  <2>4. WizTypes'
    BY <1>1, <2>1 DEF SysInv, WizTypes, WizStates
  <2>5. MountInv' /\ CloneInv' /\ EncryptedIsReachable'
    BY <1>1, <2>1, <2>2 DEF SysInv, MountInv, CloneInv, WipedMeansCloned, EncryptedIsReachable
  <2>6. ASSUME Calm' PROVE ListInv' /\ StatusInv' /\ SetupInv' /\ ActiveInv' /\ ToldInv' /\ PartialInv'
    <3>1. Calm /\ wiz.at = "progress" /\ wiz.todo = <<>> /\ wiz.inprog /\ wiz.status \in InMotion
      BY <1>1, <1>4, <2>6 DEF Calm, SysInv, CalmInv, SetupInv
    <3>2. Told
      BY <2>1, <3>1 DEF SysInv, CalmInv, StatusInv
    <3>3. Told'
      BY <1>1, <2>1, <2>2, <3>2 DEF Told, WritePending
    <3>4. ListInv'
      BY <1>1, <3>1 DEF SysInv, CalmInv, ListInv, Listed
    <3>5. StatusInv' /\ SetupInv' /\ ActiveInv' /\ ToldInv'
      BY <1>1, <2>2, <3>1, <3>3 DEF StatusInv, SetupInv, ActiveInv, ToldInv
    <3>6. PartialInv'
      <4>1. AllKeep(<<>>)
        BY NoWrites, AsideShapes DEF KeepList
      <4> QED BY <1>1, <3>1, <4>1 DEF PartialInv, PartialPages
    <3> QED BY <3>4, <3>5, <3>6
  <2> QED BY <1>3, <2>3, <2>4, <2>5, <2>6 DEF SysInv, CalmInv
<1>5. CASE run.setup \notin InMotion
  <2>1. run' = [run EXCEPT !.setup = "wiped"] /\ sysDrive' = sysDrive
    BY <1>5 DEF DriverStep, InMotion
  <2>2. /\ run' \in RunStates
        /\ run'.os = run.os /\ run'.active = run.active /\ run'.mounted = run.mounted /\ run'.setup = "wiped"
    BY <1>2, <2>1 DEF RunStates
  <2>3. run.setup = "wipe"
    BY <1>5 DEF DriverStep, InMotion
  <2>4. run.os # "off"
    BY <2>3 DEF SysInv, OffInv, Off
  <2>5. SysTypeOK' /\ WizTypes' /\ OffInv'
    BY <1>1, <2>1, <2>2, <2>4 DEF SysInv, SysTypeOK, DriveStates, ConfStates, RunStates, WizTypes, WizStates, OffInv
  <2>6. MountInv' /\ CloneInv' /\ EncryptedIsReachable'
    BY <1>1, <2>1, <2>2 DEF SysInv, MountInv, CloneInv, WipedMeansCloned, EncryptedIsReachable, InMotion
  <2>7. ASSUME Calm' PROVE ListInv' /\ StatusInv' /\ SetupInv' /\ ActiveInv' /\ ToldInv' /\ PartialInv'
    <3>1. Calm /\ CalmInv
      BY <1>1, <2>7 DEF Calm, SysInv
    <3>2. ListInv' /\ StatusInv' /\ SetupInv'
      BY <1>1, <2>1, <2>2, <3>1 DEF CalmInv, ListInv, Listed, StatusInv, SetupInv, Told, WritePending, InMotion
    <3>3. ActiveInv' /\ ToldInv' /\ PartialInv'
      BY <1>1, <2>1, <2>2, <3>1 DEF CalmInv, ActiveInv, ToldInv, PartialInv, Partial, Told, WritePending
    <3> QED BY <3>2, <3>3
  <2> QED BY <1>3, <2>5, <2>6, <2>7 DEF SysInv, CalmInv
<1> QED BY <1>4, <1>5

\* What fails is counted: nothing more is said of the wizard then.
LEMMA FaultStep ==
    ASSUME SysInv, UNCHANGED <<sysDrive, conf>>, odd \subseteq odd',
           sysCount' = [sysCount EXCEPT !.faults = @ + 1], WizTypes',
           run' = [run EXCEPT !.setup = run'.setup], run'.setup \in {run.setup, "off"},
           run.os = "off" => wiz' = wiz /\ run' = run
    PROVE  SysInv'
<1>1. /\ run'.os = run.os /\ run'.active = run.active /\ run'.mounted = run.mounted
      /\ run' \in RunStates
  BY DEF SysInv, SysTypeOK, RunStates
<1>2. SysTypeOK' /\ OffInv'
  BY <1>1 DEF SysInv, SysTypeOK, OffInv, RunStates
<1>3. CountTypes' /\ sysCount'.faults # 0
  BY DEF SysInv, CountTypes
<1>4. MountInv' /\ CloneInv'
  BY <1>1 DEF SysInv, MountInv, CloneInv, WipedMeansCloned, InMotion
<1>5. EncryptedIsReachable'
  BY DEF SysInv, EncryptedIsReachable
<1>6. CalmInv'
  BY <1>3 DEF CalmInv, Calm
<1> QED BY <1>2, <1>3, <1>4, <1>5, <1>6 DEF SysInv

LEMMA SetupFailsStep == SysInv /\ SetupFails => SysInv'
<1> SUFFICES ASSUME SysInv, SetupFails PROVE SysInv'
  OBVIOUS
<1>1. /\ run' = [run EXCEPT !.setup = "off"] /\ run.setup \in InMotion
      /\ wiz' = wiz /\ sysDrive' = sysDrive /\ conf' = conf /\ odd' = odd
      /\ sysCount' = [sysCount EXCEPT !.faults = @ + 1]
  BY DEF SetupFails, InMotion
<1>2. run'.setup = "off" /\ run'.mounted = run.mounted
  BY <1>1 DEF SysInv, SysTypeOK
<1>3. run.os # "off"
  BY <1>1 DEF SysInv, OffInv, Off, InMotion
<1>4. WizTypes'
  BY <1>1, <1>2 DEF SysInv, WizTypes, WizStates
<1> QED BY <1>1, <1>2, <1>3, <1>4, FaultStep

LEMMA CrashStep == SysInv /\ WizardCrashes => SysInv'
<1> SUFFICES ASSUME SysInv, WizardCrashes PROVE SysInv'
  OBVIOUS
<1>1. /\ run' = run /\ wiz' = NoWizard /\ sysDrive' = sysDrive /\ conf' = conf
      /\ odd' \in {odd, odd \cup {"cut"}} /\ sysCount' = [sysCount EXCEPT !.faults = @ + 1]
  BY DEF WizardCrashes
<1>2. run' = [run EXCEPT !.setup = run'.setup]
  BY <1>1 DEF SysInv, SysTypeOK
<1>3. run.os = "off" => wiz' = wiz
  BY <1>1 DEF SysInv, OffInv
<1>4. WizTypes'
  BY <1>1, NoWrites DEF WizTypes, WizStates, NoWizard, SysPages, SysCommands, SysStatuses
<1> QED BY <1>1, <1>2, <1>3, <1>4, FaultStep

\* The write that is next.
LEMMA NextWrite ==
    ASSUME SysInv, wiz.todo # <<>>
    PROVE  /\ Cur \in Writes2(FALSE) /\ Tail(wiz.todo) \in Seq(Writes2(FALSE))
           /\ run.mounted => Gentle(Cur) /\ Tail(wiz.todo) \in Seq(Writes2(TRUE)) /\ Cur.no \in Seq(Writes1(TRUE))
           /\ Cur.do \in WriteKinds /\ ValueFits(Cur) /\ Cur.no \in Seq(Writes1(FALSE))
           /\ run.os \in Systems
<1>1. wiz.todo \in Seq(Writes2(FALSE)) /\ (run.mounted => wiz.todo \in Seq(Writes2(TRUE)))
  BY DEF SysInv, WizTypes, WizStates
<1>2. /\ Cur \in Writes2(FALSE) /\ Tail(wiz.todo) \in Seq(Writes2(FALSE))
      /\ run.mounted => Cur \in Writes2(TRUE) /\ Tail(wiz.todo) \in Seq(Writes2(TRUE))
  BY <1>1, TailIn DEF Cur
<1>3. run.os \in Systems
  BY DEF SysInv, SysTypeOK, OffInv, NoWizard
<1> QED BY <1>2, <1>3 DEF Writes2, WritesWith

LEMMA WriteFailsStep == SysInv /\ SetupWriteFails => SysInv'
<1> SUFFICES ASSUME SysInv, SetupWriteFails PROVE SysInv'
  OBVIOUS
<1>1. /\ wiz.todo # <<>> /\ run' = run /\ sysDrive' = sysDrive /\ conf' = conf /\ odd' = odd
      /\ sysCount' = [sysCount EXCEPT !.faults = @ + 1]
  BY DEF SetupWriteFails
<1>2. PICK s \in {Tail(wiz.todo), Cur.no} : wiz' = [wiz EXCEPT !.todo = s]
  BY DEF SetupWriteFails
<1>3. s \in Seq(Writes2(FALSE)) /\ (run.mounted => s \in Seq(Writes2(TRUE))) /\ run.os # "off"
  BY <1>1, NextWrite, LevelsNested DEF Systems
<1>4. WizTypes'
  BY <1>1, <1>2, <1>3 DEF SysInv, WizTypes, WizStates
<1>5. run' = [run EXCEPT !.setup = run'.setup]
  BY <1>1 DEF SysInv, SysTypeOK
<1> QED BY <1>1, <1>3, <1>4, <1>5, FaultStep

-----------------------------------------------------------------------------
(***************************************************************************)
(* The next write of the list.                                             *)
(***************************************************************************)
LEMMA TailShapes ==
    ASSUME NEW S, NEW s \in Seq(S), s # <<>>
    PROVE  /\ PageLast(s) => /\ PageLast(Tail(s))
                             /\ Head(s).do = "page" => Tail(s) = <<>> /\ Head(s).v # "prep"
           /\ AllKeep(s) => AllKeep(Tail(s)) /\ Keeps(Head(s))
           /\ AllDrop(s) => AllDrop(Tail(s)) /\ Drops(Head(s))
           /\ Settled(s) => /\ Settled(Tail(s))
                            /\ Head(s).do \in {"status", "open"} =>
                                 \E i \in 1 .. Len(Tail(s)) : Tail(s)[i].do = "write"
           /\ StatusFirst(s) => /\ Head(s).do \notin {"open", "write", "remove"}
                                /\ Head(s).do # "status" => StatusFirst(Tail(s))
<1> DEFINE t == Tail(s)  n == Len(s)  h == Head(s)
<1>1. /\ t \in Seq(S) /\ h = s[1] /\ n \in Nat /\ n > 0 /\ Len(t) = n - 1
      /\ \A i \in 1 .. n - 1 : t[i] = s[i + 1]
  BY TailIn
<1>2. ASSUME Len(t) = 0 PROVE t = <<>>
  <2> HIDE DEF t
  <2> QED BY <1>1, <1>2, EmptyIn
<1> HIDE DEF t, h, n
<1>3. ASSUME PageLast(s) PROVE PageLast(t) /\ (h.do = "page" => t = <<>> /\ h.v # "prep")
  <2>1. PageLast(t)
    <3> SUFFICES ASSUME NEW i \in 1 .. Len(t), t[i].do = "page" PROVE i = Len(t) /\ t[i].v # "prep"
      BY DEF PageLast
    <3>1. i + 1 \in 1 .. n /\ t[i] = s[i + 1]
      BY <1>1
    <3>2. i + 1 = n /\ s[i + 1].v # "prep"
      BY <1>3, <3>1 DEF PageLast, n
    <3> QED BY <1>1, <3>1, <3>2
  <2>2. ASSUME h.do = "page" PROVE t = <<>> /\ h.v # "prep"
    <3>1. 1 \in 1 .. n
      BY <1>1
    <3>2. 1 = n /\ h.v # "prep"
      BY <1>1, <1>3, <2>2, <3>1 DEF PageLast, n
    <3> QED BY <1>1, <1>2, <3>2
  <2> QED BY <2>1, <2>2
<1>4. (AllKeep(s) => AllKeep(t) /\ Keeps(h)) /\ (AllDrop(s) => AllDrop(t) /\ Drops(h))
  <2>1. 1 \in 1 .. n /\ \A i \in 1 .. Len(t) : i + 1 \in 1 .. n /\ t[i] = s[i + 1]
    BY <1>1
  <2> QED BY <1>1, <2>1 DEF AllKeep, AllDrop, n
<1>5. ASSUME Settled(s)
      PROVE  Settled(t) /\ (h.do \in {"status", "open"} => \E i \in 1 .. Len(t) : t[i].do = "write")
  <2>1. ASSUME NEW j \in 1 .. n, s[j].do \in {"status", "open"}
        PROVE  \E i \in j .. Len(t) : t[i].do = "write"
    <3>1. PICK i \in j + 1 .. n : s[i].do = "write"
      BY <1>5, <2>1 DEF Settled, n
    <3>2. i - 1 \in j .. Len(t) /\ i - 1 \in 1 .. n - 1 /\ (i - 1) + 1 = i
      BY <1>1, <3>1
    <3>3. t[i - 1] = s[i]
      BY <1>1, <3>2
    <3> QED BY <3>1, <3>2, <3>3
  <2>2. Settled(t)
    <3> SUFFICES ASSUME NEW j \in 1 .. Len(t), t[j].do \in {"status", "open"}
                 PROVE  \E i \in j + 1 .. Len(t) : t[i].do = "write"
      BY DEF Settled
    <3>1. j + 1 \in 1 .. n /\ t[j] = s[j + 1]
      BY <1>1
    <3> QED BY <2>1, <3>1
  <2>3. 1 \in 1 .. n
    BY <1>1
  <2> QED BY <1>1, <2>1, <2>2, <2>3
<1>6. ASSUME StatusFirst(s)
      PROVE  h.do \notin {"open", "write", "remove"} /\ (h.do # "status" => StatusFirst(t))
  <2>1. 1 \in 1 .. n /\ ~ \E j \in 1 .. 1 - 1 : TRUE
    BY <1>1
  <2>2. h.do \notin {"open", "write", "remove"}
    BY <1>1, <1>6, <2>1 DEF StatusFirst, n
  <2>3. ASSUME h.do # "status" PROVE StatusFirst(t)
    <3> SUFFICES ASSUME NEW i \in 1 .. Len(t), t[i].do \in {"open", "write", "remove"}
                 PROVE  \E j \in 1 .. i - 1 : t[j].do = "status"
      BY DEF StatusFirst
    <3>1. i + 1 \in 1 .. n /\ t[i] = s[i + 1]
      BY <1>1
    <3>2. PICK j \in 1 .. (i + 1) - 1 : s[j].do = "status"
      BY <1>6, <3>1 DEF StatusFirst, n
    <3>3. j # 1
      BY <1>1, <2>3, <3>2
    <3>4. j - 1 \in 1 .. i - 1 /\ j - 1 \in 1 .. n - 1 /\ (j - 1) + 1 = j
      BY <1>1, <3>1, <3>2, <3>3
    <3>5. t[j - 1] = s[j]
      BY <1>1, <3>4
    <3> QED BY <3>2, <3>4, <3>5
  <2> QED BY <2>2, <2>3
<1> QED BY <1>3, <1>4, <1>5, <1>6 DEF t, h, n

\* What a write changes of the wizard, of the drive and of the files.
LEMMA WrittenWizard ==
    ASSUME SysInv, Write
    PROVE  /\ wiz' \in WizStates /\ wiz'.todo = Tail(wiz.todo)
           /\ wiz'.at = (IF Cur.do = "page" THEN Cur.v ELSE wiz.at)
           /\ wiz'.status = (IF Cur.do = "status" THEN Cur.v ELSE wiz.status)
<1>1. wiz \in WizStates /\ wiz.todo # <<>> /\ wiz' = [WizWritten(Cur) EXCEPT !.todo = Tail(@)]
  BY DEF SysInv, WizTypes, Write
<1>2. Tail(wiz.todo) \in Seq(Writes2(FALSE)) /\ ValueFits(Cur)
  BY <1>1, NextWrite
<1>3. /\ WizWritten(Cur) \in WizStates /\ WizWritten(Cur).todo = wiz.todo
      /\ WizWritten(Cur).at = (IF Cur.do = "page" THEN Cur.v ELSE wiz.at)
      /\ WizWritten(Cur).status = (IF Cur.do = "status" THEN Cur.v ELSE wiz.status)
  <2>1. CASE Cur.do = "page"
    <3>1. WizWritten(Cur) = [wiz EXCEPT !.at = Cur.v] /\ Cur.v \in SysPages
      BY <1>2, <2>1 DEF WizWritten, ValueFits, PagesAfter, SysPages
    <3> QED BY <1>1, <2>1, <3>1 DEF WizStates
  <2>2. CASE Cur.do = "status"
    <3>1. WizWritten(Cur) = [wiz EXCEPT !.status = Cur.v, !.dirty = TRUE] /\ Cur.v \in SysStatuses
      BY <1>2, <2>2 DEF WizWritten, ValueFits
    <3> QED BY <1>1, <2>2, <3>1 DEF WizStates
  <2>3. CASE Cur.do \in {"write", "remove"}
    <3>1. WizWritten(Cur) = [wiz EXCEPT !.dirty = FALSE]
      BY <2>3 DEF WizWritten
    <3> QED BY <1>1, <2>3, <3>1 DEF WizStates
  <2>4. CASE Cur.do \notin {"page", "status", "write", "remove"}
    <3>1. WizWritten(Cur) = wiz
      BY <2>4 DEF WizWritten
    <3> QED BY <1>1, <2>4, <3>1
  <2> QED BY <2>1, <2>2, <2>3, <2>4
<1> QED BY <1>1, <1>2, <1>3 DEF WizStates

LEMMA WrittenDrive ==
    ASSUME SysInv, Write
    PROVE  /\ sysDrive' \in DriveStates /\ sysDrive'.clone = sysDrive.clone /\ sysDrive'.orig = sysDrive.orig
           /\ sysDrive'.area = (IF Cur.do = "header" THEN 0 ELSE sysDrive.area)
           /\ Cur.do # "restore" => /\ sysDrive'.mbr \in {"cs", sysDrive.mbr}
                                    /\ sysDrive.hdr => sysDrive'.hdr
<1>1. sysDrive \in DriveStates /\ wiz.todo # <<>>
  BY DEF SysInv, SysTypeOK, DriveStates, Write
<1>2. ValueFits(Cur) /\ 0 \in 0 .. SysUnits
  BY <1>1, NextWrite, SysAssumption
<1>3. CASE Cur.do = "random"
  <2>1. PICK q \in {"none", "cloning", "wiping", "wiped"} : sysDrive' = [sysDrive EXCEPT !.phase = q, !.crc = FALSE]
    BY <1>3 DEF Write
  <2> QED BY <1>1, <1>3, <2>1 DEF DriveStates
<1>4. CASE Cur.do # "random"
  <2>1. sysDrive' = DriveAfter(Cur)
    BY <1>4 DEF Write
  <2>2. CASE Cur.do = "loader"
    <3>1. sysDrive' = [sysDrive EXCEPT !.mbr = "cs", !.phase = "none", !.crc = Cur.v] /\ Cur.v \in BOOLEAN
      BY <1>2, <2>1, <2>2 DEF DriveAfter, ValueFits
    <3> QED BY <1>1, <2>2, <3>1 DEF DriveStates
  <2>3. CASE Cur.do = "header"
    <3>1. sysDrive' = [sysDrive EXCEPT !.hdr = TRUE, !.area = 0]
      BY <2>1, <2>3 DEF DriveAfter
    <3> QED BY <1>1, <1>2, <2>3, <3>1 DEF DriveStates
  <2>4. CASE Cur.do = "restore"
    <3>1. sysDrive' = [sysDrive EXCEPT !.mbr = "sys", !.hdr = FALSE, !.phase = "none", !.crc = FALSE]
      BY <2>1, <2>4 DEF DriveAfter
    <3> QED BY <1>1, <2>4, <3>1 DEF DriveStates
  <2>5. CASE Cur.do \in {"phase", "phaseNone"}
    <3>1. sysDrive' = [sysDrive EXCEPT !.phase = Cur.v] /\ Cur.v \in {"none", "cloning", "wiping", "wiped"}
      BY <1>2, <2>1, <2>5 DEF DriveAfter, ValueFits, ClonePhases
    <3> QED BY <1>1, <2>5, <3>1 DEF DriveStates
  <2>6. CASE Cur.do \notin {"loader", "header", "restore", "phase", "phaseNone"}
    <3>1. sysDrive' = sysDrive
      BY <2>1, <2>6 DEF DriveAfter
    <3> QED BY <1>1, <2>6, <3>1
  <2> QED BY <2>2, <2>3, <2>4, <2>5, <2>6
<1> QED BY <1>3, <1>4

LEMMA WrittenConf ==
    ASSUME SysInv, Write
    PROVE  /\ conf' \in [Systems -> ConfStates]
           /\ conf'["main"].filter = (IF run.os = "main" /\ Cur.do = "filter" THEN Cur.v ELSE conf["main"].filter)
           /\ run.os # "main" \/ Cur.do \notin {"open", "write", "remove"} => conf'["main"].cfg = conf["main"].cfg
           /\ run.os = "main" /\ Cur.do = "write" => conf'["main"].cfg = Cur.v
<1>1. conf \in [Systems -> ConfStates] /\ wiz.todo # <<>> /\ conf' = ConfWritten(Cur) /\ "main" \in Systems
  BY DEF SysInv, SysTypeOK, ConfStates, Write, Systems
<1>2. ValueFits(Cur) /\ run.os \in Systems
  BY <1>1, NextWrite
<1>3. ASSUME NEW c \in ConfStates, conf' = [conf EXCEPT ![run.os] = c]
      PROVE  /\ conf' \in [Systems -> ConfStates] /\ (run.os # "main" => conf'["main"] = conf["main"])
             /\ run.os = "main" => conf'["main"] = c
  BY <1>1, <1>2, <1>3
<1>4. conf[run.os] \in ConfStates
  BY <1>1, <1>2
<1>5. CASE Cur.do = "filter"
  <2> DEFINE c == [conf[run.os] EXCEPT !.filter = Cur.v]
  <2>1. conf' = [conf EXCEPT ![run.os] = c] /\ Cur.v \in BOOLEAN
    BY <1>1, <1>2, <1>5 DEF ConfWritten, ValueFits
  <2>2. c \in ConfStates /\ c.filter = Cur.v /\ c.cfg = conf[run.os].cfg
    BY <1>4, <2>1 DEF ConfStates
  <2> HIDE DEF c
  <2>3. /\ conf' \in [Systems -> ConfStates] /\ (run.os # "main" => conf'["main"] = conf["main"])
        /\ run.os = "main" => conf'["main"] = c
    BY <1>3, <2>1, <2>2
  <2> QED BY <1>5, <2>2, <2>3
<1>6. CASE Cur.do = "startup"
  <2> DEFINE c == [conf[run.os] EXCEPT !.startup = Cur.v]
  <2>1. conf' = [conf EXCEPT ![run.os] = c] /\ Cur.v \in BOOLEAN
    BY <1>1, <1>2, <1>6 DEF ConfWritten, ValueFits
  <2>2. c \in ConfStates /\ c.filter = conf[run.os].filter /\ c.cfg = conf[run.os].cfg
    BY <1>4, <2>1 DEF ConfStates
  <2> HIDE DEF c
  <2>3. /\ conf' \in [Systems -> ConfStates] /\ (run.os # "main" => conf'["main"] = conf["main"])
        /\ run.os = "main" => conf'["main"] = c
    BY <1>3, <2>1, <2>2
  <2> QED BY <1>6, <2>2, <2>3
<1>7. CASE Cur.do \in {"open", "remove"}
  <2> DEFINE c == [conf[run.os] EXCEPT !.cfg = "none"]
  <2>1. conf' = [conf EXCEPT ![run.os] = c]
    BY <1>1, <1>7 DEF ConfWritten
  <2>2. c \in ConfStates /\ c.filter = conf[run.os].filter
    BY <1>4 DEF ConfStates
  <2> HIDE DEF c
  <2>3. /\ conf' \in [Systems -> ConfStates] /\ (run.os # "main" => conf'["main"] = conf["main"])
        /\ run.os = "main" => conf'["main"] = c
    BY <1>3, <2>1, <2>2
  <2> QED BY <1>7, <2>2, <2>3
<1>8. CASE Cur.do = "write"
  <2> DEFINE c == [conf[run.os] EXCEPT !.cfg = Cur.v]
  <2>1. conf' = [conf EXCEPT ![run.os] = c] /\ Cur.v \in {"none", "pretest", "enc", "dec"}
    BY <1>1, <1>2, <1>8 DEF ConfWritten, ValueFits, SysStatuses
  <2>2. c \in ConfStates /\ c.filter = conf[run.os].filter /\ c.cfg = Cur.v
    BY <1>4, <2>1 DEF ConfStates
  <2> HIDE DEF c
  <2>3. /\ conf' \in [Systems -> ConfStates] /\ (run.os # "main" => conf'["main"] = conf["main"])
        /\ run.os = "main" => conf'["main"] = c
    BY <1>3, <2>1, <2>2
  <2> QED BY <1>8, <2>2, <2>3
<1>9. CASE Cur.do \notin {"filter", "startup", "open", "remove", "write"}
  <2>1. conf' = conf
    BY <1>1, <1>9 DEF ConfWritten
  <2> QED BY <1>1, <1>9, <2>1
<1> QED BY <1>5, <1>6, <1>7, <1>8, <1>9

\* What is told of the process survives the write.
LEMMA WrittenTold ==
    ASSUME SysInv, Write, Calm, Calm'
    PROVE  ListInv' /\ StatusInv' /\ ToldInv' /\ PartialInv'
<1> DEFINE t == Tail(wiz.todo)
<1>1. /\ wiz.todo # <<>> /\ run' = run /\ wiz.todo \in Seq(Writes2(FALSE))
      /\ (Cur.do = "restore" \/ (Cur.do = "filter" /\ Cur.v = FALSE)) => sysDrive.area \in Nat /\ ~(sysDrive.area > 0)
  <2>1. odd = {} /\ odd' = {} /\ sysDrive.area \in Nat
    BY SysAssumption DEF Calm, SysInv, SysTypeOK
  <2> QED BY <2>1 DEF Write, SysInv, WizTypes, WizStates
<1>2. ListInv /\ StatusInv /\ ToldInv /\ PartialInv /\ wiz.at # "off"
  BY <1>1 DEF SysInv, CalmInv, ListInv, Listed
<1>3. /\ wiz'.todo = t /\ wiz'.at = (IF Cur.do = "page" THEN Cur.v ELSE wiz.at)
      /\ wiz'.status = (IF Cur.do = "status" THEN Cur.v ELSE wiz.status)
  BY WrittenWizard
<1>4. /\ run.os # "main" \/ Cur.do \notin {"open", "write", "remove"} => conf'["main"].cfg = conf["main"].cfg
      /\ run.os = "main" /\ Cur.do = "write" => conf'["main"].cfg = Cur.v
  BY WrittenConf
<1>5. Cur.do = "page" => t = <<>> /\ Cur.v \in {"off", "progress"}
  BY <1>1, <1>2, TailShapes, NextWrite DEF ListInv, Listed, Cur, ValueFits, PagesAfter
<1>6. ListInv'
  <2>1. PageLast(t)
    BY <1>1, <1>2, TailShapes DEF ListInv, Listed
  <2>2. wiz'.at = "off" => t = <<>>
    BY <1>2, <1>3, <1>5
  <2>3. CASE KeepList(wiz.todo)
    <3>1. KeepList(t)
      BY <1>1, <2>3, TailShapes DEF KeepList
    <3> QED BY <1>3, <2>1, <2>2, <3>1 DEF ListInv, Listed
  <2>4. CASE AllDrop(wiz.todo) /\ (wiz.status \notin InMotion \/ StatusFirst(wiz.todo))
    <3>1. AllDrop(t) /\ Drops(Cur)
      BY <1>1, <2>4, TailShapes DEF Cur
    <3>2. wiz'.status \notin InMotion \/ StatusFirst(t)
      <4>1. CASE Cur.do = "status"
        BY <1>3, <3>1, <4>1 DEF Drops, Aside
      <4>2. CASE Cur.do # "status"
        BY <1>1, <1>3, <2>4, <4>2, TailShapes DEF Cur
      <4> QED BY <4>1, <4>2
    <3> QED BY <1>3, <2>1, <2>2, <3>1, <3>2 DEF ListInv, Listed
  <2> QED BY <1>2, <2>3, <2>4 DEF ListInv, Listed
\* A pending write that is not the next one stays pending.
<1>7. ASSUME Cur.do # "write", WritePending PROVE WritePending'
  <2>1. PICK i \in 1 .. Len(wiz.todo) : wiz.todo[i].do = "write" /\ wiz.todo[i].v \in InMotion
    BY <1>7 DEF WritePending
  <2>2. i # 1
    BY <1>1, <1>7, <2>1, TailIn DEF Cur
  <2>3. i - 1 \in 1 .. Len(t) /\ t[i - 1] = wiz.todo[i]
    <3>1. /\ Len(wiz.todo) \in Nat /\ Len(t) = Len(wiz.todo) - 1
          /\ \A k \in 1 .. Len(wiz.todo) - 1 : t[k] = wiz.todo[k + 1]
      BY <1>1, TailIn
    <3>2. i - 1 \in 1 .. Len(wiz.todo) - 1 /\ (i - 1) + 1 = i
      BY <2>1, <2>2, <3>1
    <3> QED BY <3>1, <3>2
  <2> QED BY <1>3, <2>1, <2>3 DEF WritePending
<1>8. StatusInv'
  <2> SUFFICES ASSUME run.os = "main", wiz'.status \in InMotion PROVE Told'
    BY <1>1 DEF StatusInv
  <2>1. CASE Aside(Cur)
    <3>1. Told /\ Cur.do \notin {"status", "open", "write", "remove"}
      BY <1>2, <1>3, <2>1 DEF StatusInv, Aside
    <3> QED BY <1>1, <1>4, <1>7, <3>1 DEF Told
  <2>2. CASE ~Aside(Cur) /\ KeepList(wiz.todo)
    <3>1. Cur.do # "remove" /\ Cur.v \in InMotion /\ AllKeep(t)
      BY <1>1, <2>2, TailShapes DEF KeepList, Keeps, Cur
    <3>2. CASE Cur.do = "write"
      BY <1>4, <3>1, <3>2 DEF Told
    <3>3. CASE Cur.do \in {"status", "open"}
      <4>1. PICK i \in 1 .. Len(t) : t[i].do = "write"
        BY <1>1, <2>2, <3>3, TailShapes DEF KeepList, Cur
      <4>2. t[i].v \in InMotion
        BY <3>1, <4>1 DEF AllKeep, Keeps, Aside
      <4> QED BY <1>1, <1>3, <4>1, <4>2 DEF Told, WritePending
    <3> QED BY <2>2, <3>1, <3>2, <3>3 DEF Aside
  <2>3. CASE /\ ~Aside(Cur) /\ AllDrop(wiz.todo)
             /\ wiz.status \notin InMotion \/ StatusFirst(wiz.todo)
    <3>1. Drops(Cur)
      BY <1>1, <2>3, TailShapes DEF Cur
    <3>2. Cur.do # "status"
      BY <1>3, <3>1 DEF Drops, Aside
    <3>3. wiz.status \in InMotion /\ Cur.do \in {"open", "write", "remove"}
      BY <1>3, <2>3, <3>2 DEF Aside
    <3> QED BY <1>1, <2>3, <3>3, TailShapes DEF Cur
  <2> QED BY <1>2, <2>1, <2>2, <2>3 DEF ListInv, Listed
<1>9. Partial' => Partial
  BY WrittenDrive DEF Partial
<1>10. ASSUME Partial', run.os = "main"
       PROVE  AllKeep(t) /\ wiz'.status \in InMotion
  <2>1. wiz.status \in InMotion /\ AllKeep(wiz.todo)
    <3>1. ~(wiz.todo[1].do = "filter" /\ wiz.todo[1].v = FALSE)
      <4>1. Cur = wiz.todo[1]
        BY <1>1, TailIn DEF Cur
      <4> QED BY <1>1, <1>9, <1>10, <4>1 DEF Partial
    <3> QED BY <1>2, <1>9, <1>10, <3>1 DEF PartialInv
  <2>2. AllKeep(t) /\ Keeps(Cur)
    BY <1>1, <2>1, TailShapes DEF Cur
  <2> QED BY <1>3, <2>1, <2>2 DEF Keeps, Aside
<1>11. ToldInv'
  <2> SUFFICES ASSUME Partial' PROVE Told'
    BY DEF ToldInv
  <2>1. CASE run.os = "main"
    BY <1>1, <1>8, <1>10, <2>1 DEF StatusInv
  <2>2. CASE run.os # "main"
    BY <1>1, <1>2, <1>4, <1>9, <2>2 DEF ToldInv, Told
  <2> QED BY <2>1, <2>2
<1>12. PartialInv'
  <2> SUFFICES ASSUME Partial', run.os = "main", wiz'.at # "off"
               PROVE  wiz'.status \in InMotion /\ wiz'.at \in PartialPages /\ AllKeep(wiz'.todo)
    BY <1>1 DEF PartialInv
  <2>1. wiz'.at \in PartialPages
    BY <1>2, <1>3, <1>5, <1>9 DEF PartialInv, PartialPages
  <2> QED BY <1>3, <1>10, <2>1
<1> QED BY <1>6, <1>8, <1>11, <1>12

LEMMA WriteStep == SysInv /\ Write => SysInv'
<1> SUFFICES ASSUME SysInv, Write PROVE SysInv'
  OBVIOUS
<1>1. /\ wiz.todo # <<>> /\ run' = run /\ sysCount' = sysCount
      /\ odd' = IF (Cur.do = "restore" \/ (Cur.do = "filter" /\ Cur.v = FALSE)) /\ sysDrive.area > 0
                THEN odd \cup {"blind"} ELSE odd
  BY DEF Write
<1>2. /\ ValueFits(Cur) /\ run.os \in Systems
      /\ run.mounted => Gentle(Cur) /\ Tail(wiz.todo) \in Seq(Writes2(TRUE))
  BY <1>1, NextWrite
<1>3. SysTypeOK' /\ CountTypes'
  <2>1. sysDrive' \in DriveStates /\ conf' \in [Systems -> ConfStates]
    BY WrittenDrive, WrittenConf
  <2> QED BY <1>1, <2>1 DEF SysInv, SysTypeOK, CountTypes, DriveStates, ConfStates
<1>4. WizTypes'
  BY <1>1, <1>2, WrittenWizard DEF WizTypes
<1>5. OffInv'
  BY <1>1, <1>2 DEF OffInv, Systems
<1>6. MountInv'
  BY <1>1, <1>2, WrittenDrive, WrittenConf DEF SysInv, MountInv, Gentle
<1>7. CloneInv'
  BY <1>1, WrittenDrive DEF SysInv, CloneInv, WipedMeansCloned
<1>8. EncryptedIsReachable'
  <2> SUFFICES ASSUME sysDrive'.area > 0, "blind" \notin odd'
               PROVE  sysDrive'.mbr = "cs" /\ sysDrive'.hdr /\ conf'["main"].filter
    BY DEF EncryptedIsReachable
  <2>1. sysDrive'.area = sysDrive.area /\ sysDrive.area > 0 /\ "blind" \notin odd
    BY <1>1, WrittenDrive
  <2>2. Cur.do # "restore" /\ (Cur.do = "filter" => Cur.v = TRUE)
    BY <1>1, <1>2, <2>1 DEF ValueFits
  <2>3. sysDrive.mbr = "cs" /\ sysDrive.hdr /\ conf["main"].filter
    BY <2>1 DEF SysInv, EncryptedIsReachable
  <2> QED BY <2>2, <2>3, WrittenDrive, WrittenConf
<1>9. ASSUME Calm' PROVE ListInv' /\ StatusInv' /\ SetupInv' /\ ActiveInv' /\ ToldInv' /\ PartialInv'
  <2>1. Calm
    BY <1>1, <1>9 DEF Calm
  <2>2. SetupInv'
    BY <1>1, <2>1 DEF SysInv, CalmInv, SetupInv
  <2>3. ActiveInv'
    BY <1>1, <2>1, WrittenDrive DEF SysInv, CalmInv, ActiveInv
  <2> QED BY <1>9, <2>1, <2>2, <2>3, WrittenTold
<1> QED BY <1>3, <1>4, <1>5, <1>6, <1>7, <1>8, <1>9 DEF SysInv, CalmInv

-----------------------------------------------------------------------------
(***************************************************************************)
(* The pages of the wizard.                                                *)
(***************************************************************************)
LEMMA EndStep ==
    ASSUME SysInv, Ready, wiz.at # "progress" \/ ~wiz.inprog, EndMainDlg
    PROVE  SysInv'
<1>1. Goes("end", EndWrites) /\ wiz.at # "off" /\ wiz.status \in SysStatuses
  BY Waiting DEF EndMainDlg, EndWrites, Ready
<1>2. /\ EndWrites \in Seq(Writes2(FALSE)) /\ EndWrites \in Seq(Writes2(TRUE)) /\ PageLast(EndWrites)
      /\ wiz.status \in InMotion => KeepList(EndWrites)
      /\ wiz.status \notin InMotion => AllDrop(EndWrites)
  BY <1>1, EndShapes
<1>3. Listed("end", EndWrites)
  BY <1>2 DEF Listed
<1>4. Calm /\ Partial /\ run.os = "main" => "end" \in PartialPages /\ AllKeep(EndWrites)
  BY <1>1, <1>2, Waiting DEF PartialPages, KeepList
<1> QED BY <1>1, <1>2, <1>3, <1>4, GoesStep DEF SysPages

\* A step to a page without writes.
LEMMA PageStep ==
    ASSUME SysInv, Ready, wiz.at # "progress", NEW page \in SysPages, Goes(page, <<>>),
           Calm /\ Partial /\ run.os = "main" => page \in PartialPages
    PROVE  SysInv'
<1>1. /\ <<>> \in Seq(Writes2(FALSE)) /\ <<>> \in Seq(Writes2(TRUE))
      /\ PageLast(<<>>) /\ KeepList(<<>>) /\ AllKeep(<<>>)
  BY NoWrites, AsideShapes DEF KeepList
<1> QED BY <1>1, GoesStep DEF Listed

\* A step to the page of the process with a new direction.
LEMMA DirectionStep ==
    ASSUME SysInv, Ready, wiz.at # "progress", NEW st \in InMotion, NEW no \in {<<>>, Page("off")},
           NEW a \in {<<>>, ManageStartupSeqWiz(TRUE)},
           Goes("page", a \o ChangeSystemEncryptionStatus(st, no))
    PROVE  SysInv'
<1> DEFINE c == ChangeSystemEncryptionStatus(st, no)
<1>1. ASSUME NEW gentle \in BOOLEAN
      PROVE  a \o c \in Seq(Writes2(gentle)) /\ PageLast(a \o c) /\ KeepList(a \o c)
  <2>1. no \in Seq(Writes1(gentle)) /\ <<>> \in Seq(Writes1(gentle)) /\ st \in SysStatuses
    BY FailureWrites DEF PagesAfter, InMotion, SysStatuses
  <2>2. c \in Seq(Writes2(gentle)) /\ NoPage(c) /\ KeepList(c)
    BY <2>1, ChangeWrites DEF Writes2
  <2>3. a \in Seq(Writes2(gentle)) /\ NoPage(a) /\ KeepList(a)
    BY <2>1, StartupWrites, NoWrites, AsideShapes DEF Writes2
  <2> HIDE DEF c
  <2>4. a \o c \in Seq(Writes2(gentle)) /\ NoPage(a \o c) /\ KeepList(a \o c)
    BY <2>2, <2>3, JoinIn, JoinShapes
  <2> QED BY <2>4 DEF NoPage, PageLast
<1>2. Listed("page", a \o c) /\ AllKeep(a \o c)
  BY <1>1 DEF Listed, KeepList
<1> HIDE DEF c
<1>3. a \o c \in Seq(Writes2(FALSE)) /\ a \o c \in Seq(Writes2(TRUE)) /\ Goes("page", a \o c)
  BY <1>1 DEF c
<1> QED BY <1>2, <1>3, GoesStep DEF SysPages, PartialPages

\* The same without the startup sequence.
LEMMA ChangeStep ==
    ASSUME SysInv, Ready, wiz.at # "progress", NEW st \in InMotion, NEW no \in {<<>>, Page("off")},
           Goes("page", ChangeSystemEncryptionStatus(st, no))
    PROVE  SysInv'
<1> DEFINE c == ChangeSystemEncryptionStatus(st, no)
<1>1. c \in Seq(Writes2(FALSE))
  <2>1. no \in Seq(Writes1(FALSE)) /\ <<>> \in Seq(Writes1(FALSE)) /\ st \in SysStatuses
    BY FailureWrites DEF PagesAfter, InMotion, SysStatuses
  <2> QED BY <2>1, ChangeWrites DEF Writes2
<1> HIDE DEF c
<1>2. <<>> \o c = c
  BY <1>1
<1> QED BY <1>2, DirectionStep DEF c

LEMMA ResolveStep ==
    ASSUME SysInv, Ready, wiz.at # "progress", ResolveUnknownSysEncDirection
    PROVE  SysInv'
<1>1. PICK st \in InMotion : Goes("page", ChangeSystemEncryptionStatus(st, Page("off")))
  BY DEF ResolveUnknownSysEncDirection, InMotion
<1> QED BY <1>1, ChangeStep

\* A list that ends the process.
LEMMA DropStep ==
    ASSUME SysInv, Ready, wiz.at # "progress",
           NEW s \in Seq(Writes2(FALSE)), run.mounted => s \in Seq(Writes2(TRUE)),
           PageLast(s), DropList(s), Goes("end", s), ~(Calm /\ Partial /\ run.os = "main")
    PROVE  SysInv'
<1>1. Listed("end", s)
  BY DEF Listed, DropList
<1> QED BY <1>1, GoesStep DEF SysPages

LEMMA StartStep ==
    ASSUME SysInv, NEW c \in SysCommands, StartSysWizard(c)
    PROVE  SysInv'
<1>1. /\ run.os # "off" /\ wiz.at = "off" /\ sysDrive' = sysDrive /\ conf' = conf /\ sysCount' = sysCount /\ odd' = odd
      /\ wiz' = [NoWizard EXCEPT !.at = "init", !.cmd = c, !.status = conf[run.os].cfg]
      /\ run' = IF c = "decrypt" /\ run.setup \in {"enc", "dec"} THEN [run EXCEPT !.setup = "off"] ELSE run
  BY DEF StartSysWizard
<1>2. run.os \in Systems /\ conf[run.os].cfg \in SysStatuses /\ run \in RunStates
  BY <1>1 DEF SysInv, SysTypeOK, RunStates, SysStatuses
<1>3. /\ run' \in RunStates /\ run'.os = run.os /\ run'.active = run.active /\ run'.mounted = run.mounted
      /\ run'.setup \in {run.setup, "off"}
  BY <1>1, <1>2 DEF RunStates
<1>4. /\ wiz' \in WizStates /\ wiz'.at = "init" /\ wiz'.todo = <<>> /\ wiz'.status = conf[run.os].cfg
  BY <1>1, <1>2, NoWrites DEF WizStates, NoWizard, SysPages
<1>5. SysTypeOK' /\ CountTypes' /\ OffInv'
  BY <1>1, <1>3 DEF SysInv, SysTypeOK, CountTypes, OffInv, RunStates
<1>6. WizTypes'
  BY <1>4, NoWrites DEF WizTypes
<1>7. MountInv' /\ CloneInv' /\ EncryptedIsReachable'
  BY <1>1, <1>3 DEF SysInv, MountInv, CloneInv, WipedMeansCloned, EncryptedIsReachable, InMotion
<1>8. ASSUME Calm' PROVE ListInv' /\ StatusInv' /\ SetupInv' /\ ActiveInv' /\ ToldInv' /\ PartialInv'
  <2>1. Calm /\ wiz.todo = <<>> /\ run.setup \notin InMotion
    BY <1>1, <1>8 DEF Calm, SysInv, CalmInv, ListInv, Listed, SetupInv
  <2>2. ~WritePending
    BY <2>1, NoWrites DEF WritePending
  <2>3. ToldInv /\ ActiveInv
    BY <2>1 DEF SysInv, CalmInv
  <2>4. ListInv'
    BY <1>4, NoWrites, AsideShapes DEF ListInv, Listed
  <2>5. StatusInv' /\ SetupInv' /\ ActiveInv'
    BY <1>1, <1>3, <1>4, <2>1, <2>3 DEF StatusInv, Told, SetupInv, ActiveInv, InMotion
  <2>6. ToldInv'
    BY <1>1, <1>3, <2>2, <2>3 DEF ToldInv, Told, Partial
  <2>7. AllKeep(<<>>)
    BY NoWrites, AsideShapes DEF KeepList
  <2>8. PartialInv'
    BY <1>1, <1>3, <1>4, <2>2, <2>3, <2>7 DEF PartialInv, PartialPages, ToldInv, Told, Partial
  <2> QED BY <2>4, <2>5, <2>6, <2>8
<1> QED BY <1>5, <1>6, <1>7, <1>8 DEF SysInv, CalmInv

LEMMA InitSteps ==
    ASSUME SysInv, InitDecrypt \/ InitInconsistent \/ InitNotAuthenticated \/ InitResume
    PROVE  SysInv'
<1>1. AtInit /\ Ready /\ wiz.at = "init" /\ wiz.at # "progress" /\ wiz.at # "off"
  BY DEF InitDecrypt, InitInconsistent, InitNotAuthenticated, InitResume, PastChecks, AtInit
<1>2. CASE InitDecrypt
  <2>1. Goes("page", ManageStartupSeqWiz(TRUE) \o ChangeSystemEncryptionStatus("dec", <<>>)) /\ "dec" \in InMotion
    BY <1>2 DEF InitDecrypt, InMotion
  <2> QED BY <1>1, <2>1, DirectionStep
<1>3. CASE InitInconsistent
  <2>1. Goes("end", Ended(SaveAgain) \o Page("off")) /\ ~run.active
    BY <1>3 DEF InitInconsistent
  <2>2. ~(Calm /\ Partial /\ run.os = "main")
    BY <1>1, <2>1, Waiting
  <2> QED BY <1>1, <2>1, <2>2, FinalWrites, DropStep
<1>4. CASE InitNotAuthenticated
  BY <1>1, <1>4, EndStep DEF InitNotAuthenticated
<1>5. CASE InitResume
  <2>1. EndMainDlg \/ Goes("page", <<>>) \/ ResolveUnknownSysEncDirection
    BY <1>5 DEF InitResume
  <2>2. "page" \in SysPages /\ "page" \in PartialPages
    BY DEF SysPages, PartialPages
  <2> QED BY <1>1, <2>1, <2>2, EndStep, PageStep, ResolveStep
<1> QED BY <1>2, <1>3, <1>4, <1>5

LEMMA SwitchStep ==
    ASSUME SysInv, Ready, wiz.at # "progress", SwitchToSysEncMode
    PROVE  SysInv'
<1>1. CASE EndMainDlg \/ Goes("page", <<>>) \/ ResolveUnknownSysEncDirection
  <2>1. "page" \in SysPages /\ "page" \in PartialPages
    BY DEF SysPages, PartialPages
  <2> QED BY <1>1, <2>1, EndStep, PageStep, ResolveStep
<1>2. CASE Goes("prep", <<>>) /\ ~SysEncryptionOrDecryptionRequired(wiz.status)
  <2>1. wiz.status \notin InMotion
    BY <1>2 DEF SysEncryptionOrDecryptionRequired, InMotion
  <2>2. ~(Calm /\ Partial /\ run.os = "main")
    BY <2>1, Waiting DEF Ready
  <2> QED BY <1>2, <2>2, PageStep DEF SysPages
<1> QED BY <1>1, <1>2 DEF SwitchToSysEncMode

LEMMA EncryptStep == SysInv /\ InitEncrypt => SysInv'
<1> SUFFICES ASSUME SysInv, InitEncrypt PROVE SysInv'
  OBVIOUS
<1>1. Ready /\ wiz.at # "progress" /\ "enc" \in InMotion
  BY DEF InitEncrypt, PastChecks, AtInit, InMotion
<1>2. EndMainDlg \/ Goes("page", ChangeSystemEncryptionStatus("enc", <<>>)) \/ SwitchToSysEncMode
  BY DEF InitEncrypt
<1> QED BY <1>1, <1>2, EndStep, ChangeStep, SwitchStep

\* The header of a drive that is not encrypted is removed, and then the rest.
LEMMA ForceRemoveStep ==
    ASSUME SysInv, Ready, ForceRemoveSysEnc
    PROVE  SysInv'
<1> DEFINE x == W("filter", FALSE, <<W("filter", TRUE, <<>>)>>)
           y == W("phaseNone", "none", <<>>)
           z == W("restore", "none", <<>>)
           s == <<x, y, z>>
<1>1. /\ run.mounted /\ ~DriveEncrypted /\ run.setup = "off" /\ conf' = conf /\ sysCount' = sysCount /\ odd' = odd
      /\ sysDrive' = [sysDrive EXCEPT !.hdr = FALSE] /\ run' = [run EXCEPT !.mounted = FALSE]
      /\ wiz' = [wiz EXCEPT !.at = "intro", !.cmd = "none", !.todo = s]
  BY DEF ForceRemoveSysEnc
<1>2. s \in Seq(Writes2(FALSE)) /\ AllAside(s) /\ PageLast(s)
  <2>1. <<W("filter", TRUE, <<>>)>> \in Seq(Writes1(FALSE))
    <3>1. W("filter", TRUE, <<>>) \in Writes1(FALSE)
      BY NoWrites DEF Writes1, WritesWith, W, WriteKinds, WriteValues, ValueFits
    <3> QED BY <3>1, OneIn
  <2>2. /\ x \in Writes2(FALSE) /\ x.do = "filter"
        /\ y \in Writes2(FALSE) /\ y.do = "phaseNone"
        /\ z \in Writes2(FALSE) /\ z.do = "restore"
    BY <2>1, NoWrites DEF Writes2, WritesWith, W, WriteKinds, WriteValues, ValueFits, ClonePhases, SysStatuses
  <2> HIDE DEF x, y, z
  <2>3. /\ s \in Seq(Writes2(FALSE)) /\ Len(s) = 3 /\ s[1] = x /\ s[2] = y /\ s[3] = z
    BY <2>2, ThreeIn
  <2> HIDE DEF s
  <2>4. \A i \in 1 .. Len(s) : s[i].do \in {"filter", "phaseNone", "restore"}
    BY <2>2, <2>3
  <2> QED BY <2>3, <2>4 DEF AllAside, Aside, PageLast
<1> HIDE DEF s
<1>3. ~(sysDrive.area > 0) /\ run.os = "main"
  <2>1. run.os # "hidden" /\ run.os \in Systems
    BY <1>1, Waiting DEF DriveEncrypted, Hidden, Ready
  <2> QED BY <1>1, <2>1 DEF DriveEncrypted, Systems
<1>4. /\ sysDrive' \in DriveStates /\ sysDrive'.area = sysDrive.area
      /\ sysDrive'.clone = sysDrive.clone /\ sysDrive'.orig = sysDrive.orig
  BY <1>1 DEF SysInv, SysTypeOK, DriveStates
<1>5. run' \in RunStates /\ run'.os = "main" /\ run'.mounted = FALSE /\ run'.setup = "off"
  BY <1>1, <1>3 DEF SysInv, SysTypeOK, RunStates
<1>6. wiz' \in WizStates /\ wiz'.at = "intro" /\ wiz'.todo = s /\ wiz'.status = wiz.status
  BY <1>1, <1>2 DEF SysInv, WizTypes, WizStates, SysPages, SysCommands
<1>7. SysTypeOK' /\ WizTypes' /\ CountTypes' /\ OffInv'
  BY <1>1, <1>4, <1>5, <1>6 DEF SysInv, SysTypeOK, WizTypes, CountTypes, OffInv, DriveStates, RunStates
<1>8. MountInv' /\ CloneInv' /\ EncryptedIsReachable'
  BY <1>3, <1>4, <1>5 DEF SysInv, MountInv, CloneInv, WipedMeansCloned, EncryptedIsReachable, InMotion
<1>9. ASSUME Calm' PROVE ListInv' /\ StatusInv' /\ SetupInv' /\ ActiveInv' /\ ToldInv' /\ PartialInv'
  <2>1. Calm /\ StatusInv
    BY <1>1, <1>9 DEF Calm, SysInv, CalmInv
  <2>2. ListInv'
    BY <1>2, <1>6, AsideShapes DEF ListInv, Listed
  <2>3. ~WritePending
    BY NoWrites DEF Ready, WritePending
  <2>4. StatusInv'
    BY <1>1, <1>3, <1>6, <2>1, <2>3 DEF StatusInv, Told
  <2>5. SetupInv' /\ ActiveInv' /\ ToldInv' /\ PartialInv'
    BY <1>3, <1>4, <1>5 DEF SetupInv, ActiveInv, ToldInv, PartialInv, Partial, InMotion
  <2> QED BY <2>2, <2>4, <2>5
<1> QED BY <1>7, <1>8, <1>9 DEF SysInv, CalmInv

LEMMA UserStep == SysInv /\ (InitByUser \/ IntroSysEnc) => SysInv'
<1> SUFFICES ASSUME SysInv, InitByUser \/ IntroSysEnc PROVE SysInv'
  OBVIOUS
<1>1. Ready /\ wiz.at # "progress"
  BY DEF InitByUser, PastChecks, AtInit, IntroSysEnc
<1>2. {"page", "intro"} \subseteq SysPages \cap PartialPages
  BY DEF SysPages, PartialPages
<1>3. CASE InitByUser
  <2>1. Goes("page", <<>>) \/ Goes("intro", <<>>) \/ ForceRemoveSysEnc
    BY <1>3 DEF InitByUser
  <2> QED BY <1>1, <1>2, <2>1, PageStep, ForceRemoveStep
<1>4. CASE IntroSysEnc
  BY <1>1, <1>4, SwitchStep DEF IntroSysEnc
<1> QED BY <1>3, <1>4

LEMMA PretestSteps ==
    ASSUME SysInv, PretestPassed \/ PretestRetry \/ PretestTerminate \/ PretestLater
    PROVE  SysInv'
<1>1. AtPretest
  BY DEF PretestPassed, PretestRetry, PretestTerminate, PretestLater
<1>2. Ready /\ wiz.at # "progress" /\ wiz.at # "off" /\ wiz.status = "pretest"
  BY <1>1 DEF AtPretest, AtInit
<1>3. ~(Calm /\ Partial /\ run.os = "main")
  BY <1>2, Waiting DEF InMotion
<1>4. CASE PretestPassed
  <2>1. \/ Goes("end", Ended(SaveAgain) \o Page("off"))
        \/ Goes("result", <<>>) \/ Goes("info", <<>>) \/ EndMainDlg
    BY <1>4 DEF PretestPassed
  <2>2. {"result", "info"} \subseteq SysPages
    BY DEF SysPages
  <2> QED BY <1>2, <1>3, <2>1, <2>2, FinalWrites, DropStep, PageStep, EndStep
<1>5. CASE PretestRetry
  <2> DEFINE w == W("filter", TRUE, Page("off"))
  <2>1. Goes("end", <<w>> \o Page("off"))
    BY <1>5 DEF PretestRetry
  <2>2. ASSUME NEW gentle \in BOOLEAN
        PROVE  LET t == <<w>> \o Page("off") IN t \in Seq(Writes2(gentle)) /\ PageLast(t) /\ DropList(t)
    <3>1. Page("off") \in Seq(Writes1(gentle)) /\ <<>> \in Seq(Writes1(gentle)) /\ "off" \in PagesAfter
      BY FailureWrites DEF PagesAfter
    <3>2. w \in Writes2(gentle) /\ w.do = "filter"
      BY <3>1 DEF Writes2, WritesWith, W, WriteKinds, WriteValues, ValueFits, Gentle
    <3> HIDE DEF w
    <3>3. <<w>> \in Seq(Writes2(gentle)) /\ NoPage(<<w>>) /\ AllAside(<<w>>)
      BY <3>2 DEF NoPage, AllAside, Aside
    <3>4. DropList(<<w>>)
      BY <3>3, AsideShapes
    <3> QED BY <3>1, <3>3, <3>4, PageFollows DEF Writes2
  <2> HIDE DEF w
  <2> QED BY <1>2, <1>3, <2>1, <2>2, DropStep
<1>6. CASE PretestTerminate
  <2>1. Goes("end", Deinstall(Page("off")) \o Ended(SaveAgain) \o Page("off")) /\ ~run.mounted
    BY <1>6 DEF PretestTerminate
  <2> QED BY <1>2, <1>3, <2>1, TerminateWrites, DropStep
<1>7. CASE PretestLater
  BY <1>2, <1>3, <1>7, PageStep DEF PretestLater, SysPages
<1> QED BY <1>4, <1>5, <1>6, <1>7

LEMMA InstallStep ==
    ASSUME SysInv, NEW hiddenOS \in BOOLEAN, SysPretestNext(hiddenOS)
    PROVE  SysInv'
<1>1. Ready /\ wiz.at = "prep" /\ wiz.at # "progress" /\ wiz.at # "off" /\ ~run.mounted
  BY DEF SysPretestNext
<1>2. Goes("end", PretestWrites(hiddenOS))
  BY DEF SysPretestNext, PretestWrites, PretestFailure
<1>3. ~(Calm /\ Partial /\ run.os = "main")
  BY <1>1, Waiting DEF PartialPages
<1> QED BY <1>1, <1>2, <1>3, InstallWrites, DropStep

LEMMA ResultStep == SysInv /\ (PretestResultNext \/ Cancel) => SysInv'
<1> SUFFICES ASSUME SysInv, PretestResultNext \/ Cancel PROVE SysInv'
  OBVIOUS
<1>1. Ready /\ wiz.at # "progress" /\ "enc" \in InMotion
  BY DEF PretestResultNext, Cancel, InMotion
<1>2. Goes("page", ChangeSystemEncryptionStatus("enc", <<>>)) \/ EndMainDlg
  BY DEF PretestResultNext, Cancel
<1> QED BY <1>1, <1>2, ChangeStep, EndStep

-----------------------------------------------------------------------------
(***************************************************************************)
(* The page of the process.                                                *)
(***************************************************************************)
\* The set-up in the driver is started, or its end awaited.
LEMMA ResumeStep ==
    ASSUME SysInv, Ready, wiz.at \in PartialPages, SysEncResume
    PROVE  SysInv'
<1> DEFINE underWay == run.setup \in {"enc", "dec"}
           starts == ~underWay /\ wiz.status \in {"enc", "dec"} /\ run.active /\ SetupAccepted
           goes == underWay \/ starts \/ (wiz.status = "dec" /\ ~run.mounted)
<1>1. /\ run' = IF starts THEN [run EXCEPT !.setup = wiz.status] ELSE run
      /\ wiz' = [wiz EXCEPT !.at = "progress", !.inprog = goes]
      /\ sysDrive' = sysDrive /\ conf' = conf /\ sysCount' = sysCount /\ odd' = odd
  BY DEF SysEncResume
<1>2. wiz \in WizStates /\ run \in RunStates /\ wiz.todo = <<>> /\ run.os \in Systems
  BY Waiting DEF SysInv, WizTypes, SysTypeOK, RunStates, Ready
<1>3. starts => run.mounted /\ run.os = "main" /\ wiz.status \in InMotion
  BY <1>2 DEF SetupAccepted, Hidden, Systems, InMotion
<1>4. goes \in BOOLEAN /\ (underWay \/ starts => goes)
  OBVIOUS
<1>5. underWay = (run.setup \in InMotion)
  BY DEF InMotion
<1> HIDE DEF underWay, starts, goes
<1>6. /\ wiz' \in WizStates /\ wiz'.at = "progress" /\ wiz'.todo = <<>> /\ wiz'.status = wiz.status
      /\ wiz'.inprog = goes
  BY <1>1, <1>2, <1>4 DEF WizStates, SysPages
<1>7. WizTypes'
  BY <1>6, NoWrites DEF WizTypes
<1>8. /\ run' = [run EXCEPT !.setup = run'.setup]
      /\ run'.setup = (IF starts THEN wiz.status ELSE run.setup)
      /\ run'.setup \in {"off", "enc", "dec", "wipe", "wiped"}
  BY <1>1, <1>2, <1>3 DEF RunStates, InMotion
<1>9. run'.setup \in InMotion => run.mounted /\ run.os = "main"
  BY <1>3, <1>8 DEF SysInv, MountInv
<1>10. ASSUME Calm' PROVE ListInv' /\ SetupInv' /\ PartialInv'
  <2>1. Calm
    BY <1>1, <1>10 DEF Calm
  <2>2. ListInv'
    BY <1>6, NoWrites, AsideShapes DEF ListInv, Listed
  <2>3. SetupInv'
    BY <1>3, <1>4, <1>5, <1>6, <1>8, <2>1, Waiting DEF SetupInv, Ready
  <2>4. AllKeep(<<>>)
    BY NoWrites, AsideShapes DEF KeepList
  <2>5. run'.os = run.os
    BY <1>2, <1>8 DEF RunStates
  <2>6. PartialInv'
    BY <1>1, <1>6, <2>1, <2>4, <2>5, Waiting DEF PartialInv, PartialPages, Partial, Ready
  <2> QED BY <2>2, <2>3, <2>6
<1> QED BY <1>1, <1>6, <1>7, <1>8, <1>9, <1>10, WizardStep

\* The process is over.
LEMMA FinishedStep ==
    ASSUME SysInv, Ready, wiz.at # "progress" \/ run.setup = "off", NEW p \in {"off", "progress"}, Finished(p)
    PROVE  SysInv'
<1> DEFINE s == ManageStartupSeqWiz(FALSE) \o WipeHiddenOSCreationConfig
                \o ChangeSystemEncryptionStatus("none", IF p = "off" THEN SaveAgain ELSE Page(p)) \o Page(p)
<1>1. /\ wiz' = [wiz EXCEPT !.at = "end", !.inprog = FALSE, !.todo = s]
      /\ odd' = IF sysDrive.area < SysUnits THEN odd \cup {"toldFull"} ELSE odd
      /\ sysDrive' = sysDrive /\ conf' = conf /\ run' = run /\ sysCount' = sysCount
  BY DEF Finished
<1>2. s \in Seq(Writes2(FALSE)) /\ s \in Seq(Writes2(TRUE)) /\ PageLast(s) /\ DropList(s)
  BY FinishedWrites
<1> HIDE DEF s
<1>3. wiz' \in WizStates /\ wiz'.at = "end" /\ wiz'.todo = s /\ wiz'.status = wiz.status
  BY <1>1, <1>2 DEF SysInv, WizTypes, WizStates, SysPages
<1>4. WizTypes'
  BY <1>2, <1>3 DEF WizTypes
<1>5. /\ run' = [run EXCEPT !.setup = run'.setup] /\ run'.setup \in {"off", "enc", "dec", "wipe", "wiped"}
      /\ run'.setup \in InMotion => run.mounted /\ run.os = "main"
  BY <1>1 DEF SysInv, SysTypeOK, MountInv
<1>6. ASSUME Calm' PROVE ListInv' /\ SetupInv' /\ PartialInv'
  <2>1. Calm /\ ~Partial
    BY <1>1, <1>6 DEF Calm, Partial
  <2>2. ListInv'
    BY <1>2, <1>3 DEF ListInv, Listed, DropList
  <2>3. SetupInv'
    BY <1>1, <2>1, Waiting DEF SetupInv, Ready, InMotion
  <2>4. PartialInv'
    BY <1>1, <2>1 DEF PartialInv, Partial
  <2> QED BY <2>2, <2>3, <2>4
<1>7. odd \subseteq odd'
  BY <1>1
<1> QED BY <1>1, <1>3, <1>4, <1>5, <1>6, <1>7, WizardStep

LEMMA TimerStep == SysInv /\ (AfterSysEncProgressWMInitTasks \/ TimerSysEncProgress) => SysInv'
<1> SUFFICES ASSUME SysInv, AfterSysEncProgressWMInitTasks \/ TimerSysEncProgress PROVE SysInv'
  OBVIOUS
<1>1. CASE AfterSysEncProgressWMInitTasks
  <2>1. wiz.at = "page" /\ Ready /\ (Finished("off") \/ SysEncResume)
    BY <1>1 DEF AfterSysEncProgressWMInitTasks
  <2> QED BY <2>1, FinishedStep, ResumeStep DEF PartialPages
<1>2. CASE TimerSysEncProgress /\ Finished("progress")
  BY <1>2, FinishedStep DEF TimerSysEncProgress
<1>3. CASE TimerSysEncProgress /\ ~(wiz.status = "enc" /\ AreaAsConfigured)
  <2> DEFINE s == IF wiz.status = "dec" /\ ~DriveEncrypted
                  THEN Deinstall(Ended(<<>>)) \o (IF run.mounted THEN <<>> ELSE Ended(<<>>)) ELSE <<>>
  <2>1. /\ wiz.at = "progress" /\ Ready /\ run.setup = "off" /\ wiz' = [wiz EXCEPT !.inprog = FALSE, !.todo = s]
        /\ sysDrive' = sysDrive /\ conf' = conf /\ run' = run /\ sysCount' = sysCount /\ odd' = odd
    BY <1>3 DEF TimerSysEncProgress
  <2>2. run.os \in Systems /\ run.mounted \in BOOLEAN
    BY <2>1, Waiting
  <2>3. /\ s \in Seq(Writes2(FALSE)) /\ (run.mounted => s \in Seq(Writes2(TRUE)))
        /\ PageLast(s) /\ (KeepList(s) \/ DropList(s))
        /\ Partial /\ run.os = "main" => \/ AllKeep(s)
                                         \/ s # <<>> /\ s[1].do = "filter" /\ s[1].v = FALSE
    <3>1. CASE ~(wiz.status = "dec" /\ ~DriveEncrypted)
      <4>1. s = <<>>
        BY <3>1
      <4> HIDE DEF s
      <4> QED BY <4>1, NoWrites, AsideShapes DEF KeepList
    <3>2. CASE wiz.status = "dec" /\ ~DriveEncrypted /\ run.mounted
      <4>1. /\ Ended(<<>>) \in Seq(Writes2(FALSE)) /\ Ended(<<>>) \in Seq(Writes2(TRUE))
            /\ NoPage(Ended(<<>>)) /\ DropList(Ended(<<>>))
        <5>1. <<>> \in Seq(Writes1(FALSE)) /\ <<>> \in Seq(Writes1(TRUE))
          OBVIOUS
        <5> QED BY <5>1, EndedWrites DEF Writes2
      <4>2. s = Ended(<<>>) \o <<>>
        BY <3>2 DEF Deinstall
      <4> HIDE DEF s
      <4>3. s = Ended(<<>>)
        BY <4>1, <4>2
      <4>4. ~(Partial /\ run.os = "main")
        BY <3>2 DEF DriveEncrypted, Partial
      <4> QED BY <4>1, <4>3, <4>4 DEF NoPage, PageLast
    <3>3. CASE wiz.status = "dec" /\ ~DriveEncrypted /\ ~run.mounted
      <4>1. s = Deinstall(Ended(<<>>)) \o Ended(<<>>)
        BY <3>3
      <4> HIDE DEF s
      <4>2. s \in Seq(Writes2(FALSE)) /\ NoPage(s) /\ DropList(s) /\ s # <<>> /\ s[1].do = "filter" /\ s[1].v = FALSE
        BY <3>3, <4>1, DecryptedWrites
      <4> QED BY <3>3, <4>2 DEF NoPage, PageLast
    <3> QED BY <3>1, <3>2, <3>3
  <2> HIDE DEF s
  <2>4. wiz' \in WizStates /\ wiz'.at = "progress" /\ wiz'.todo = s /\ wiz'.status = wiz.status
    BY <2>1, <2>3 DEF SysInv, WizTypes, WizStates
  <2>5. WizTypes'
    BY <2>1, <2>3, <2>4 DEF WizTypes
  <2>6. /\ run' = [run EXCEPT !.setup = run'.setup] /\ run'.setup = "off" /\ "off" \notin InMotion
        /\ run'.setup \in {"off", "enc", "dec", "wipe", "wiped"}
    BY <2>1 DEF SysInv, SysTypeOK, InMotion
  <2>7. ASSUME Calm' PROVE ListInv' /\ SetupInv' /\ PartialInv'
    <3>1. Calm
      BY <2>1, <2>7 DEF Calm
    <3>2. ListInv'
      BY <2>3, <2>4 DEF ListInv, Listed, DropList
    <3>3. SetupInv'
      BY <2>6 DEF SetupInv
    <3>4. PartialInv'
      BY <2>1, <2>3, <2>4, <3>1, Waiting DEF PartialInv, PartialPages, Partial
    <3> QED BY <3>2, <3>3, <3>4
  <2> QED BY <2>1, <2>4, <2>5, <2>6, <2>7, WizardStep
<1> QED BY <1>1, <1>2, <1>3 DEF TimerSysEncProgress

\* The user pauses, goes on or defers the process.
LEMMA PauseSteps == SysInv /\ (SysEncPause \/ EncryptionNext \/ Defer) => SysInv'
<1> SUFFICES ASSUME SysInv, SysEncPause \/ EncryptionNext \/ Defer PROVE SysInv'
  OBVIOUS
<1>1. CASE SysEncPause
  <2>1. /\ Ready /\ run' = [run EXCEPT !.setup = "off"] /\ wiz' = wiz
        /\ sysDrive' = sysDrive /\ conf' = conf /\ sysCount' = sysCount /\ odd' = odd
    BY <1>1 DEF SysEncPause
  <2>2. /\ run' = [run EXCEPT !.setup = run'.setup] /\ run'.setup = "off" /\ "off" \notin InMotion
        /\ run'.os = run.os /\ run'.mounted = run.mounted
        /\ run'.setup \in {"off", "enc", "dec", "wipe", "wiped"}
    BY <2>1 DEF SysInv, SysTypeOK, InMotion
  <2>3. WizTypes'
    BY <2>1, <2>2 DEF SysInv, WizTypes, WizStates
  <2>4. ASSUME Calm' PROVE ListInv' /\ SetupInv' /\ PartialInv'
    <3>1. Calm
      BY <2>1, <2>4 DEF Calm
    <3>2. ListInv'
      BY <2>1, <3>1 DEF SysInv, CalmInv, ListInv, Listed
    <3>3. SetupInv' /\ PartialInv'
      BY <2>1, <2>2, <3>1 DEF SysInv, CalmInv, SetupInv, PartialInv, Partial
    <3> QED BY <3>2, <3>3
  <2> QED BY <2>1, <2>2, <2>3, <2>4, WizardStep
<1>2. CASE EncryptionNext
  <2>1. wiz.at = "progress" /\ Ready /\ ~wiz.inprog /\ (SysEncResume \/ EndMainDlg)
    BY <1>2 DEF EncryptionNext
  <2> QED BY <2>1, ResumeStep, EndStep DEF PartialPages
<1>3. CASE Defer
  <2>1. /\ Ready /\ run' = [run EXCEPT !.setup = IF @ \in {"enc", "dec"} THEN "off" ELSE @]
        /\ wiz' = [wiz EXCEPT !.at = "end", !.todo = EndWrites]
        /\ sysDrive' = sysDrive /\ conf' = conf /\ sysCount' = sysCount /\ odd' = odd
    BY <1>3 DEF Defer, EndWrites
  <2>2. wiz.status \in SysStatuses /\ wiz.at # "off"
    BY <2>1, Waiting DEF Ready
  <2>3. /\ EndWrites \in Seq(Writes2(FALSE)) /\ EndWrites \in Seq(Writes2(TRUE)) /\ PageLast(EndWrites)
        /\ wiz.status \in InMotion => KeepList(EndWrites)
        /\ wiz.status \notin InMotion => AllDrop(EndWrites)
    BY <2>2, EndShapes
  <2>4. /\ run' = [run EXCEPT !.setup = run'.setup] /\ run'.setup \notin InMotion
        /\ run'.os = run.os /\ run'.mounted = run.mounted
        /\ run'.setup \in {"off", "enc", "dec", "wipe", "wiped"}
    BY <2>1 DEF SysInv, SysTypeOK, InMotion
  <2>5. wiz' \in WizStates /\ wiz'.at = "end" /\ wiz'.todo = EndWrites /\ wiz'.status = wiz.status
    BY <2>1, <2>3 DEF SysInv, WizTypes, WizStates, SysPages
  <2>6. WizTypes'
    BY <2>3, <2>5 DEF WizTypes
  <2>7. ASSUME Calm' PROVE ListInv' /\ SetupInv' /\ PartialInv'
    <3>1. Calm
      BY <2>1, <2>7 DEF Calm
    <3>2. ListInv'
      BY <2>3, <2>5 DEF ListInv, Listed
    <3>3. SetupInv'
      BY <2>4 DEF SetupInv
    <3>4. PartialInv'
      BY <2>1, <2>2, <2>3, <2>4, <2>5, <3>1, Waiting DEF PartialInv, PartialPages, Partial, KeepList
    <3> QED BY <3>2, <3>3, <3>4
  <2> QED BY <2>1, <2>4, <2>5, <2>6, <2>7, WizardStep
<1> QED BY <1>1, <1>2, <1>3

\* The wiping of the original system.
LEMMA WipeSteps == SysInv /\ (WipeStart \/ WipeAbort \/ TimerWipeProgress) => SysInv'
<1> SUFFICES ASSUME SysInv, WipeStart \/ WipeAbort \/ TimerWipeProgress PROVE SysInv'
  OBVIOUS
<1>1. CASE WipeStart
  <2>1. /\ Ready /\ Hidden /\ conf' = conf /\ sysCount' = sysCount /\ odd' = odd
        /\ run' = [run EXCEPT !.setup = "wipe"] /\ sysDrive' = [sysDrive EXCEPT !.orig = FALSE]
        /\ wiz' = [wiz EXCEPT !.at = "wipe", !.inprog = TRUE]
    BY <1>1 DEF WipeStart
  <2>2. /\ sysDrive' \in DriveStates /\ sysDrive'.area = sysDrive.area /\ sysDrive'.mbr = sysDrive.mbr
        /\ sysDrive'.hdr = sysDrive.hdr /\ sysDrive'.clone = sysDrive.clone
    BY <2>1 DEF SysInv, SysTypeOK, DriveStates
  <2>3. /\ run' \in RunStates /\ run'.os = run.os /\ run'.active = run.active /\ run'.mounted = run.mounted
        /\ run'.setup = "wipe" /\ run.os = "hidden"
    BY <2>1 DEF SysInv, SysTypeOK, RunStates, Hidden
  <2>4. wiz' \in WizStates /\ wiz'.at = "wipe" /\ wiz'.todo = <<>>
    BY <2>1 DEF SysInv, WizTypes, WizStates, SysPages, Ready
  <2>5. SysTypeOK' /\ CountTypes' /\ OffInv'
    BY <2>1, <2>2, <2>3 DEF SysInv, SysTypeOK, CountTypes, OffInv, DriveStates, RunStates
  <2>6. WizTypes'
    BY <2>4, NoWrites DEF WizTypes
  <2>7. MountInv' /\ CloneInv' /\ EncryptedIsReachable'
    BY <2>1, <2>2, <2>3 DEF SysInv, MountInv, CloneInv, WipedMeansCloned, EncryptedIsReachable, InMotion
  <2>8. ASSUME Calm' PROVE ListInv' /\ StatusInv' /\ SetupInv' /\ ActiveInv' /\ ToldInv' /\ PartialInv'
    <3>1. Calm /\ ToldInv
      BY <2>1, <2>8 DEF Calm, SysInv, CalmInv
    <3>2. ListInv'
      BY <2>4, NoWrites, AsideShapes DEF ListInv, Listed
    <3>3. StatusInv' /\ SetupInv' /\ ActiveInv' /\ PartialInv'
      BY <2>3 DEF StatusInv, SetupInv, ActiveInv, PartialInv, InMotion
    <3>4. ToldInv'
      BY <2>1, <2>2, <2>3, <3>1 DEF ToldInv, Told, Partial
    <3> QED BY <3>2, <3>3, <3>4
  <2> QED BY <2>5, <2>6, <2>7, <2>8 DEF SysInv, CalmInv
<1>2. CASE WipeAbort \/ TimerWipeProgress
  <2> DEFINE w == W("phase", "wiped", Page("off"))
             t == <<w>> \o Page("off")
  <2>1. /\ Ready /\ wiz.at = "wipe" /\ conf' = conf /\ sysCount' = sysCount /\ odd' = odd /\ sysDrive' = sysDrive
        /\ run' = [run EXCEPT !.setup = "off"]
        /\ \/ wiz' = [wiz EXCEPT !.inprog = FALSE]
           \/ wiz' = [wiz EXCEPT !.inprog = FALSE, !.at = "end", !.todo = t]
    BY <1>2 DEF WipeAbort, TimerWipeProgress
  <2>2. ASSUME NEW gentle \in BOOLEAN PROVE t \in Seq(Writes2(gentle)) /\ PageLast(t) /\ KeepList(t)
    <3>1. Page("off") \in Seq(Writes1(gentle)) /\ <<>> \in Seq(Writes1(gentle)) /\ "off" \in PagesAfter
      BY FailureWrites DEF PagesAfter
    <3>2. w \in Writes2(gentle) /\ w.do = "phase"
      BY <3>1 DEF Writes2, WritesWith, W, WriteKinds, WriteValues, ValueFits, Gentle, ClonePhases
    <3> HIDE DEF w
    <3>3. <<w>> \in Seq(Writes2(gentle)) /\ NoPage(<<w>>) /\ AllAside(<<w>>)
      BY <3>2 DEF NoPage, AllAside, Aside
    <3>4. KeepList(<<w>>)
      BY <3>3, AsideShapes
    <3> QED BY <3>1, <3>3, <3>4, PageFollows DEF Writes2
  <2> HIDE DEF t
  <2>3. /\ wiz' \in WizStates /\ wiz'.status = wiz.status /\ wiz'.at \in {"wipe", "end"}
        /\ wiz'.todo \in {<<>>, t}
    BY <2>1, <2>2 DEF SysInv, WizTypes, WizStates, SysPages, Ready
  <2>4. /\ run' = [run EXCEPT !.setup = run'.setup] /\ run'.setup = "off" /\ "off" \notin InMotion
        /\ run'.os = run.os /\ run'.setup \in {"off", "enc", "dec", "wipe", "wiped"}
    BY <2>1 DEF SysInv, SysTypeOK, InMotion
  <2>5. WizTypes'
    BY <2>2, <2>3, NoWrites DEF WizTypes
  <2>6. ASSUME Calm' PROVE ListInv' /\ SetupInv' /\ PartialInv'
    <3>1. Calm
      BY <2>1, <2>6 DEF Calm
    <3>2. ~(Partial /\ run.os = "main")
      BY <2>1, <3>1, Waiting DEF PartialPages
    <3>3. ListInv'
      BY <2>2, <2>3, NoWrites, AsideShapes DEF ListInv, Listed
    <3>4. SetupInv' /\ PartialInv'
      BY <2>1, <2>4, <3>2 DEF SetupInv, PartialInv, Partial
    <3> QED BY <3>3, <3>4
  <2> QED BY <2>1, <2>3, <2>4, <2>5, <2>6, WizardStep
<1> QED BY <1>1, <1>2

-----------------------------------------------------------------------------
\* Every step keeps the invariant.
LEMMA SysInvStep == SysInv /\ [SysNext]_sysVars => SysInv'
<1> SUFFICES ASSUME SysInv, [SysNext]_sysVars PROVE SysInv'
  OBVIOUS
<1>1. CASE BootEncryptedDrive \/ BootMenu \/ Restart \/ InstallDecoySystem
  BY <1>1, BootSteps, RestartStep, DecoyStep
<1>2. CASE \E done \in BOOLEAN : CopySystemPartitionToHiddenVolume(done)
  BY <1>2, CloneStep
<1>3. CASE DecryptDrive \/ RestoreLoader \/ RestoreOriginal
  BY <1>3, RescueSteps
<1>4. CASE DriverStep \/ SetupFails \/ Write \/ SetupWriteFails \/ WizardCrashes
  BY <1>4, DriverSteps, SetupFailsStep, WriteStep, WriteFailsStep, CrashStep
<1>5. CASE \E c \in {"startup", "user", "resume", "encrypt", "decrypt"} : StartSysWizard(c)
  <2>1. PICK c \in {"startup", "user", "resume", "encrypt", "decrypt"} : StartSysWizard(c)
    BY <1>5
  <2>2. c \in SysCommands
    BY DEF SysCommands
  <2> QED BY <2>1, <2>2, StartStep
<1>6. CASE InitDecrypt \/ InitInconsistent \/ InitNotAuthenticated \/ InitResume
  BY <1>6, InitSteps
<1>7. CASE InitEncrypt \/ InitByUser \/ IntroSysEnc
  BY <1>7, EncryptStep, UserStep
<1>8. CASE PretestPassed \/ PretestRetry \/ PretestTerminate \/ PretestLater
  BY <1>8, PretestSteps
<1>9. CASE \E hiddenOS \in BOOLEAN : SysPretestNext(hiddenOS)
  BY <1>9, InstallStep
<1>10. CASE PretestResultNext \/ Cancel
  BY <1>10, ResultStep
<1>11. CASE AfterSysEncProgressWMInitTasks \/ TimerSysEncProgress
  BY <1>11, TimerStep
<1>12. CASE SysEncPause \/ EncryptionNext \/ Defer
  BY <1>12, PauseSteps
<1>13. CASE WipeStart \/ WipeAbort \/ TimerWipeProgress
  BY <1>13, WipeSteps
<1>14. CASE UNCHANGED sysVars
  <2>1. /\ sysDrive' = sysDrive /\ conf' = conf /\ run' = run /\ wiz' = wiz /\ sysCount' = sysCount /\ odd' = odd
    BY <1>14 DEF sysVars
  <2>2. SysTypeOK' /\ WizTypes' /\ CountTypes' /\ OffInv'
    <3>1. SysTypeOK'
      BY <2>1 DEF SysInv, SysTypeOK
    <3>2. WizTypes'
      BY <2>1 DEF SysInv, WizTypes, WizStates
    <3>3. CountTypes' /\ OffInv'
      BY <2>1 DEF SysInv, CountTypes, OffInv
    <3> QED BY <3>1, <3>2, <3>3
  <2>3. MountInv' /\ CloneInv' /\ EncryptedIsReachable'
    BY <2>1 DEF SysInv, MountInv, CloneInv, WipedMeansCloned, EncryptedIsReachable
  <2>4. ASSUME Calm' PROVE ListInv' /\ StatusInv' /\ SetupInv' /\ ActiveInv' /\ ToldInv' /\ PartialInv'
    <3>1. CalmInv /\ Calm
      BY <2>1, <2>4 DEF SysInv, Calm
    <3>2. ListInv' /\ StatusInv' /\ SetupInv'
      BY <2>1, <3>1 DEF CalmInv, ListInv, Listed, StatusInv, SetupInv, Told, WritePending
    <3>3. ActiveInv' /\ ToldInv' /\ PartialInv'
      BY <2>1, <3>1 DEF CalmInv, ActiveInv, ToldInv, PartialInv, Partial, Told, WritePending
    <3> QED BY <3>2, <3>3
  <2> QED BY <2>2, <2>3, <2>4 DEF SysInv, CalmInv
<1> QED BY <1>1, <1>2, <1>3, <1>4, <1>5, <1>6, <1>7, <1>8, <1>9, <1>10, <1>11, <1>12, <1>13, <1>14 DEF SysNext

(* Whatever the order of restarts, failing writes and crashes of the wizard, and for
   any number of units and of faults: an encrypted drive keeps its loader, header and
   filter, a partial encryption is remembered, and the original system is wiped only
   after it was cloned. *)
THEOREM SystemAlwaysReachable == SysSpec => []SystemReachable
<1>1. SysInit => SysInv
  BY SysInvInit
<1>2. SysInv /\ [SysNext]_sysVars => SysInv'
  BY SysInvStep
<1>3. SysInv => SystemReachable
  BY SysInvReaches
<1> QED BY <1>1, <1>2, <1>3, PTL DEF SysSpec

(* The same beside the other components that encrypt a drive in use: what the run
   system_drive checks of the system's encryption. *)
THEOREM SystemStaysReachable == DriveSpec => []SystemStays
<1>1. DriveInit => SysInv
  BY SysInvInit DEF DriveInit
<1>2. SysInv /\ [DriveNext]_<<active, vars, wVars, sysVars, iVars, suVars, devVars>> => SysInv'
  <2> SUFFICES ASSUME SysInv, [DriveNext]_<<active, vars, wVars, sysVars, iVars, suVars, devVars>> PROVE SysInv'
    OBVIOUS
  <2>1. [SysNext]_sysVars
    BY DEF DriveNext
  <2> QED BY <2>1, SysInvStep
<1>3. SysInv => SystemStays
  BY SysInvReaches DEF SystemStays
<1> QED BY <1>1, <1>2, <1>3, PTL DEF DriveSpec

-----------------------------------------------------------------------------
(***************************************************************************)
(* The filter devices of a running system.                                 *)
(***************************************************************************)
WindowsStates == {"load", "run", "hibernate", "crash", "off", "stopped"}
DeviceStates == [at : {"absent", "added", "checked", "mounting", "started"}, inside : {0, 1},
                 role : {"drive", "volume"}, mounted : BOOLEAN, bootDrive : BOOLEAN]
DumpStates == [crash : BOOLEAN, hibernation : BOOLEAN, legacy : BOOLEAN, files : SUBSET {"crash", "hibernation"},
               loaded : BOOLEAN, last : Slots, original : [Slots -> Nat], images : Nat,
               live : SUBSET [image : Int, filter : Slots]]
AreaStates == [end : 0 .. AreaUnits, header : 0 .. AreaUnits, pending : BOOLEAN,
               setup : {"off", "block", "half", "moved", "save"}, keys : BOOLEAN]
WipeStates == [thread : BOOLEAN, at : {"off", "open", "loop"}, off : Nat, pass : Nat, end : Nat, abort : BOOLEAN,
               result : {"none", "fail", "ok"}, clean : [Partition -> Nat]]
DevTypes ==
    /\ win \in [at : WindowsStates, vista : BOOLEAN, merged : BOOLEAN]
    /\ args \in [valid : BOOLEAN, signature : BOOLEAN, password : BOOLEAN, hidden : BOOLEAN, extra : BOOLEAN]
    /\ dev \in [Drives -> DeviceStates]
    /\ bootExt \in [found : BOOLEAN, drive : Drives \cup {NoDrive}]
    /\ dumps \in DumpStates /\ area \in AreaStates /\ wipe \in WipeStates /\ devFaults \in Nat

\* Before the loader's arguments are read there is no device and no set-up.
LoadInv == win.at = "load" =>
    /\ area.setup = "off" /\ bootExt = [found |-> FALSE, drive |-> NoDrive]
    /\ \A d \in Drives : dev[d] = NewDevice
\* A device is mounted at the end of its start only, and the extension is that of the mounted one.
BootInv ==
    /\ args.hidden => args.valid
    /\ \A d \in Drives : /\ dev[d].mounted <=> bootExt.found /\ bootExt.drive = d
                         /\ dev[d].bootDrive <=> dev[d].mounted
                         /\ dev[d].mounted => dev[d].at = "started"
    /\ bootExt.found <=> bootExt.drive # NoDrive
    /\ args.signature /\ devFaults = 0 => ~dev["copy"].mounted
\* A drive that is merged with its volume is left to the volume filter.
RoleInv == args.hidden /\ win.merged =>
    /\ dev["copy"].at # "mounting"
    /\ dev["copy"].at = "started" /\ devFaults = 0 => dev["copy"].role = "volume"
\* The header is behind the area only while a set-up runs, and the end is in motion only
\* while that is marked; there is no set-up in a hidden system.
AreaInv ==
    /\ area.header <= area.end
    /\ area.setup \in {"half", "moved"} => area.pending
    /\ area.setup \in {"block", "half"} => area.end < AreaUnits
    /\ args.hidden => area.end = AreaUnits /\ area.setup = "off"
DumpInv == (written # {} => win.at \notin {"load", "run"}) /\ DumpReadable
\* The filters of the hibernation drivers are used in turn: Age is how many loads ago
\* one was used, and the drivers that are loaded are the youngest.
Age(s) == IF s < dumps.last THEN dumps.last - s ELSE dumps.last + 3 - s
LiveImage(s) == [image |-> dumps.images + 1 - Age(s), filter |-> s]
SlotInv ==
    /\ \A i \in dumps.live : i = LiveImage(i.filter) /\ dumps.original[i.filter] = i.image
    /\ \A i \in dumps.live, s \in Slots : Age(s) < Age(i.filter) => LiveImage(s) \in dumps.live
\* The wipe goes over the units in order, and reports success at its end only.
WipeInv ==
    /\ wipe.at = "open" => wipe.end = 0 /\ wipe.off = 1 /\ wipe.pass = 1
    /\ wipe.at = "loop" => /\ wipe.off > 0 /\ wipe.end = wipe.off - 1 /\ wipe.off <= AreaUnits + 1
                           /\ \A u \in Partition : u < wipe.off => wipe.clean[u] = DecoyWipePasses
                           /\ wipe.result = "fail"
    /\ WipeComplete
DevInv == DevTypes /\ LoadInv /\ BootInv /\ RoleInv /\ AreaInv /\ DumpInv /\ SlotInv /\ WipeInv

LEMMA DevInvSound == DevInv => DevicesSound
<1> SUFFICES ASSUME DevInv PROVE DevicesSound
  OBVIOUS
<1>1. BootDriveIsBooted
  BY DEF DevInv, BootInv, BootDriveIsBooted
<1>2. DumpReadable /\ HiberEntryOwn /\ WipeComplete
  BY DEF DevInv, DumpInv, SlotInv, WipeInv, HiberEntryOwn
<1>3. OthersReadOnly
  BY DEF DevInv, RoleInv, OthersReadOnly, DiskIsWritable, Filtered, HiddenSystem, BootMounted, Volumes
<1> QED BY <1>1, <1>2, <1>3 DEF DevicesSound

LEMMA DevInvInit == DevInit => DevInv
<1> SUFFICES ASSUME DevInit PROVE DevInv
  OBVIOUS
<1>1. DevTypes
  <2>1. win \in [at : WindowsStates, vista : BOOLEAN, merged : BOOLEAN] /\ devFaults \in Nat
    BY DEF DevInit, WindowsStates
  <2>2. args \in [valid : BOOLEAN, signature : BOOLEAN, password : BOOLEAN, hidden : BOOLEAN, extra : BOOLEAN]
        /\ bootExt \in [found : BOOLEAN, drive : Drives \cup {NoDrive}]
    BY DEF DevInit, NoArgs
  <2>3. dev \in [Drives -> DeviceStates]
    BY DEF DevInit, NewDevice, DeviceStates
  <2>4. dumps \in DumpStates
    BY DEF DevInit, DumpStates, Slots, NoSlot
  <2>5. area \in AreaStates
    BY DevAssumption DEF DevInit, AreaStates
  <2>6. wipe \in WipeStates
    BY DEF DevInit, WipeStates, NoWipe
  <2> QED BY <2>1, <2>2, <2>3, <2>4, <2>5, <2>6 DEF DevTypes
<1>2. LoadInv /\ BootInv /\ RoleInv
  BY DEF DevInit, LoadInv, BootInv, RoleInv, NewDevice, NoArgs, Drives, NoDrive
<1>3. AreaInv
  BY DevAssumption DEF DevInit, AreaInv, NoArgs
<1>4. DumpInv /\ SlotInv
  BY DEF DevInit, DumpInv, DumpReadable, SlotInv
<1>5. WipeInv
  BY DEF DevInit, WipeInv, NoWipe, WipeComplete
<1> QED BY <1>1, <1>2, <1>3, <1>4, <1>5 DEF DevInv

-----------------------------------------------------------------------------
\* A step that leaves the wipe, or the dumps that are loaded, alone.
LEMMA WipeFrame == ASSUME DevInv, UNCHANGED wipe PROVE WipeInv' /\ wipe' \in WipeStates
BY DEF DevInv, DevTypes, WipeInv, WipeComplete

LEMMA SlotFrame ==
    ASSUME DevInv, dumps'.live = dumps.live, dumps'.original = dumps.original, dumps'.images = dumps.images,
           dumps'.last = dumps.last
    PROVE  SlotInv'
<1>1. \A s \in Slots : Age(s)' = Age(s) /\ LiveImage(s)' = LiveImage(s)
  BY DEF Age, LiveImage
<1>2. \A i \in dumps.live : i.filter \in Slots
  BY DEF DevInv, DevTypes, DumpStates
<1> QED BY <1>1, <1>2 DEF DevInv, SlotInv

\* What was dumped is readable as long as area and arguments stay.
LEMMA DumpFrame ==
    ASSUME DevInv, UNCHANGED written, written = {} \/ (area' = area /\ args'.hidden = args.hidden),
           written = {} \/ win'.at \notin {"load", "run"}
    PROVE  DumpInv'
BY DEF DevInv, DumpInv, DumpReadable

-----------------------------------------------------------------------------
\* The start of the driver.
LEMMA LoadStep == ASSUME DevInv, LoadBootArguments PROVE DevInv'
<1> USE DEF LoadBootArguments
<1>1. DevTypes'
  <2>1. win' \in [at : WindowsStates, vista : BOOLEAN, merged : BOOLEAN]
    BY DEF DevInv, DevTypes, Stopped, WindowsStates
  <2>2. args' \in [valid : BOOLEAN, signature : BOOLEAN, password : BOOLEAN, hidden : BOOLEAN, extra : BOOLEAN]
    <3>1. CASE args' = args
      BY <3>1 DEF DevInv, DevTypes
    <3>2. CASE args' = NoArgs
      BY <3>2 DEF NoArgs
    <3>3. CASE \E v \in {"new", "0x630", "0x600", "older"}, h, x \in BOOLEAN :
                 args' = [valid |-> TRUE, signature |-> v = "new", password |-> TRUE,
                          hidden |-> h /\ v # "older", extra |-> x /\ v \in {"new", "0x630"}]
      <4>1. PICK v \in {"new", "0x630", "0x600", "older"}, h \in BOOLEAN, x \in BOOLEAN :
                 args' = [valid |-> TRUE, signature |-> v = "new", password |-> TRUE,
                          hidden |-> h /\ v # "older", extra |-> x /\ v \in {"new", "0x630"}]
        BY <3>3
      <4>2. PICK a \in BOOLEAN, b \in BOOLEAN, c \in BOOLEAN :
              a = (v = "new") /\ b = (h /\ v # "older") /\ c = (x /\ v \in {"new", "0x630"})
        BY Zenon
      <4>3. args' = [valid |-> TRUE, signature |-> a, password |-> TRUE, hidden |-> b, extra |-> c]
        BY <4>1, <4>2, Zenon
      <4> QED BY <4>3
    <3> QED BY <3>1, <3>2, <3>3, Zenon
  <2> QED BY <2>1, <2>2 DEF DevInv, DevTypes
<1>2. LoadInv' /\ RoleInv'
  BY DEF DevInv, DevTypes, LoadInv, RoleInv, NoArgs, Stopped, NewDevice, Drives
<1>3. BootInv'
  BY DEF DevInv, DevTypes, LoadInv, BootInv, NoArgs, Stopped, NewDevice, Drives
<1>4. AreaInv'
  BY DEF DevInv, LoadInv, AreaInv, NoArgs, Stopped
<1>5. DumpInv'
  BY DumpFrame DEF DevInv, DumpInv
<1>6. SlotInv' /\ WipeInv'
  BY SlotFrame, WipeFrame
<1> QED BY <1>1, <1>2, <1>3, <1>4, <1>5, <1>6 DEF DevInv

\* A device is added, started and its type is checked.
LEMMA StartSteps ==
    ASSUME DevInv, NEW d \in Drives,
           DriveFilterAddDevice(d) \/ OnStartDeviceCompleted(d) \/ CheckDeviceTypeAndMount(d)
    PROVE  DevInv'
<1>1. /\ UNCHANGED <<win, args, bootExt, dumps, area, written, wipe>> /\ win.at = "run"
      /\ devFaults' = devFaults \/ (DevFault /\ args.valid)
  BY DEF DriveFilterAddDevice, OnStartDeviceCompleted, CheckDeviceTypeAndMount, Running
<1>2. PICK a \in {"absent", "added", "checked", "mounting", "started"}, n \in {0, 1}, r \in {"drive", "volume"} :
        /\ dev' = [dev EXCEPT ![d] = [dev[d] EXCEPT !.at = a, !.inside = n, !.role = r]]
        /\ dev[d].at # "started"
        /\ a = "mounting" => ~(args.hidden /\ win.merged /\ d = "copy")
        /\ a = "started" /\ devFaults' = 0 /\ args.hidden /\ win.merged /\ d = "copy" => r = "volume"
  <2>1. dev \in [Drives -> DeviceStates] /\ (args.hidden => args.valid) /\ devFaults \in Nat
    BY DEF DevInv, DevTypes, BootInv
  <2> DEFINE To(a, n, r) == dev' = [dev EXCEPT ![d] = [dev[d] EXCEPT !.at = a, !.inside = n, !.role = r]]
  <2>2. CASE DriveFilterAddDevice(d)
    <3>1. To("added", dev[d].inside, dev[d].role)
      BY <2>1, <2>2 DEF DriveFilterAddDevice, DeviceStates
    <3> QED BY <2>1, <2>2, <3>1 DEF DriveFilterAddDevice, DeviceStates
  <2>3. CASE OnStartDeviceCompleted(d)
    <3>1. CASE devFaults' = devFaults
      <4>1. dev' = [dev EXCEPT ![d].at = IF args.valid THEN "checked" ELSE "started",
                               ![d].inside = IF args.valid THEN 1 ELSE 0]
        BY <2>1, <2>3, <3>1 DEF OnStartDeviceCompleted, DevFault
      <4>2. CASE args.valid
        <5>1. To("checked", 1, dev[d].role)
          BY <2>1, <4>1, <4>2 DEF DeviceStates
        <5> QED BY <2>1, <2>3, <5>1 DEF OnStartDeviceCompleted, DeviceStates
      <4>3. CASE ~args.valid
        <5>1. To("started", 0, dev[d].role)
          BY <2>1, <4>1, <4>3 DEF DeviceStates
        <5> QED BY <2>1, <2>3, <4>3, <5>1 DEF OnStartDeviceCompleted, DeviceStates
      <4> QED BY <4>2, <4>3
    <3>2. CASE devFaults' # devFaults
      <4>0. devFaults' # 0 /\ dev[d].at = "added" /\ dev' = [dev EXCEPT ![d].at = "started"]
        BY <2>1, <2>3, <3>2 DEF OnStartDeviceCompleted, DevFault
      <4>1. To("started", dev[d].inside, dev[d].role)
        BY <2>1, <4>0 DEF DeviceStates
      <4> QED BY <2>1, <4>0, <4>1 DEF DeviceStates
    <3> QED BY <3>1, <3>2
  <2>4. CASE CheckDeviceTypeAndMount(d)
    <3>1. \/ To("started", 0, "volume")
          \/ To("mounting", dev[d].inside, dev[d].role) /\ ~(args.hidden /\ win.merged /\ d = "copy")
      BY <2>1, <2>4 DEF CheckDeviceTypeAndMount, DeviceStates
    <3> QED BY <2>1, <2>4, <3>1 DEF CheckDeviceTypeAndMount, DeviceStates
  <2> QED BY <2>2, <2>3, <2>4
<1>3. DevTypes'
  <2>1. dev' \in [Drives -> DeviceStates]
    <3>1. dev \in [Drives -> DeviceStates] /\ dev[d] \in DeviceStates
      BY DEF DevInv, DevTypes
    <3>2. [dev[d] EXCEPT !.at = a, !.inside = n, !.role = r] \in DeviceStates
      BY <3>1 DEF DeviceStates
    <3> QED BY <1>2, <3>1, <3>2
  <2> QED BY <1>1, <2>1 DEF DevInv, DevTypes, DevFault
<1>4. LoadInv' /\ AreaInv'
  BY <1>1 DEF DevInv, LoadInv, AreaInv
<1>5. BootInv'
  BY <1>1, <1>2 DEF DevInv, DevTypes, DeviceStates, BootInv, DevFault
<1>6. RoleInv'
  BY <1>1, <1>2 DEF DevInv, DevTypes, DeviceStates, RoleInv, DevFault, Drives
<1>7. DumpInv' /\ SlotInv' /\ WipeInv'
  BY <1>1, SlotFrame, WipeFrame, DumpFrame DEF DevInv, DumpInv
<1> QED BY <1>3, <1>4, <1>5, <1>6, <1>7 DEF DevInv

\* The drive is mounted or not.
LEMMA MountStep == ASSUME DevInv, NEW d \in Drives, MountDrive(d) PROVE DevInv'
<1>1. /\ UNCHANGED <<win, area, written, wipe>> /\ win.at = "run" /\ dev[d].at = "mounting"
      /\ devFaults' = devFaults \/ DevFault
  BY DEF MountDrive, Running
<1>2. dev \in [Drives -> DeviceStates] /\ dev[d] \in DeviceStates /\ devFaults \in Nat /\ d \in {"boot", "copy"}
  BY DEF DevInv, DevTypes, Drives
<1>3. devFaults' \in Nat /\ (devFaults' = 0 => devFaults = 0)
  BY <1>1, <1>2 DEF DevFault
<1>4. CASE dev' = [dev EXCEPT ![d].at = "started", ![d].inside = 0] /\ UNCHANGED <<args, bootExt, dumps>>
  <2>1. dev' = [dev EXCEPT ![d] = [dev[d] EXCEPT !.at = "started", !.inside = 0]]
    BY <1>2, <1>4 DEF DeviceStates
  <2>2. [dev[d] EXCEPT !.at = "started", !.inside = 0] \in DeviceStates
    BY <1>2 DEF DeviceStates
  <2>3. DevTypes'
    BY <1>1, <1>2, <1>3, <1>4, <2>1, <2>2 DEF DevInv, DevTypes
  <2>4. LoadInv' /\ AreaInv'
    BY <1>1, <1>4 DEF DevInv, LoadInv, AreaInv
  <2>5. BootInv'
    <3>1. \A c \in Drives : /\ dev'[c].mounted = dev[c].mounted /\ dev'[c].bootDrive = dev[c].bootDrive
                            /\ dev[c].at = "started" => dev'[c].at = "started"
      BY <1>2, <2>1 DEF DeviceStates
    <3>2. "copy" \in Drives
      BY DEF Drives
    <3> QED BY <1>2, <1>3, <1>4, <3>1, <3>2 DEF DevInv, BootInv
  <2>6. RoleInv'
    <3>1. d # "copy" => dev'["copy"] = dev["copy"]
      BY <1>2, <2>1 DEF Drives
    <3>2. args.hidden /\ win.merged => d # "copy"
      BY <1>1 DEF DevInv, RoleInv
    <3> QED BY <1>1, <1>3, <1>4, <3>1, <3>2 DEF DevInv, RoleInv
  <2>7. DumpInv' /\ SlotInv' /\ WipeInv'
    BY <1>1, <1>4, SlotFrame, WipeFrame, DumpFrame DEF DevInv, DumpInv
  <2> QED BY <2>3, <2>4, <2>5, <2>6, <2>7 DEF DevInv
<1>5. CASE ~bootExt.found /\ MountSucceeds(d) /\ (devFaults' = 0 => IsBootedDrive(d, TRUE))
  <2>1. dev' = [dev EXCEPT ![d] = [dev[d] EXCEPT !.at = "started", !.inside = 0, !.mounted = TRUE, !.bootDrive = TRUE]]
    BY <1>2, <1>5 DEF DeviceStates, MountSucceeds
  <2>2. [dev[d] EXCEPT !.at = "started", !.inside = 0, !.mounted = TRUE, !.bootDrive = TRUE] \in DeviceStates
    BY <1>2 DEF DeviceStates
  <2>3. args' = [args EXCEPT !.password = FALSE] /\ bootExt' = [found |-> TRUE, drive |-> d]
    BY <1>5 DEF MountSucceeds
  <2>4. /\ dumps' \in DumpStates /\ dumps'.live = dumps.live /\ dumps'.original = dumps.original
        /\ dumps'.images = dumps.images /\ dumps'.last = dumps.last
    <3>1. dumps \in DumpStates
      BY DEF DevInv, DevTypes
    <3>2. PICK ok \in BOOLEAN :
            dumps' = IF args.hidden /\ args.extra
                      THEN [dumps EXCEPT !.legacy = @ \/ (LegacyFilter /\ ok), !.crash = FALSE, !.hibernation = FALSE]
                      ELSE IF win.vista THEN [dumps EXCEPT !.crash = TRUE, !.hibernation = TRUE]
                      ELSE IF LegacyFilter
                      THEN [dumps EXCEPT !.legacy = ok, !.crash = FALSE, !.hibernation = ok]
                      ELSE dumps
      BY <1>5 DEF MountSucceeds
    <3>3. PICK l \in BOOLEAN : l = (dumps.legacy \/ (LegacyFilter /\ ok))
      BY Zenon
    <3>4. \/ dumps' = [dumps EXCEPT !.legacy = l, !.crash = FALSE, !.hibernation = FALSE]
          \/ dumps' = [dumps EXCEPT !.crash = TRUE, !.hibernation = TRUE]
          \/ dumps' = [dumps EXCEPT !.legacy = ok, !.crash = FALSE, !.hibernation = ok]
          \/ dumps' = dumps
      BY <3>2, <3>3, Zenon
    <3> QED BY <3>1, <3>4 DEF DumpStates
  <2>5. /\ args' \in [valid : BOOLEAN, signature : BOOLEAN, password : BOOLEAN, hidden : BOOLEAN, extra : BOOLEAN]
        /\ args'.hidden = args.hidden /\ args'.signature = args.signature /\ args'.valid = args.valid
    BY <2>3 DEF DevInv, DevTypes
  <2>6. DevTypes'
    BY <1>1, <1>2, <1>3, <2>1, <2>2, <2>3, <2>4, <2>5 DEF DevInv, DevTypes
  <2>7. LoadInv' /\ AreaInv'
    BY <1>1, <2>5 DEF DevInv, LoadInv, AreaInv
  <2>8. BootInv'
    <3>1. \A c \in Drives : ~dev[c].mounted /\ ~dev[c].bootDrive
      BY <1>5 DEF DevInv, BootInv
    <3>2. args.signature /\ devFaults' = 0 => d = "boot"
      BY <1>5 DEF IsBootedDrive
    <3>3. \A c \in Drives : /\ dev'[c].mounted <=> c = d
                            /\ dev'[c].bootDrive <=> c = d
                            /\ dev'[c].mounted => dev'[c].at = "started"
      BY <1>2, <2>1, <3>1 DEF DeviceStates
    <3> QED BY <1>2, <2>3, <2>5, <3>2, <3>3 DEF DevInv, BootInv, Drives, NoDrive
  <2>9. RoleInv'
    BY <1>1, <1>2, <1>3, <2>1, <2>5 DEF DevInv, RoleInv, DeviceStates
  <2>10. DumpInv' /\ SlotInv' /\ WipeInv'
    BY <1>1, <2>4, <2>5, SlotFrame, WipeFrame, DumpFrame DEF DevInv, DumpInv
  <2> QED BY <2>6, <2>7, <2>8, <2>9, <2>10 DEF DevInv
<1>6. ~bootExt.found /\ DevFault => devFaults' # 0
  BY <1>2 DEF DevFault
<1> QED BY <1>4, <1>5, <1>6 DEF MountDrive

\* A drive is removed.
LEMMA RemoveStep == ASSUME DevInv, NEW d \in Drives, RemoveDrive(d) PROVE DevInv'
<1>1. /\ UNCHANGED <<win, args, dumps, area, written, wipe, devFaults>> /\ win.at = "run"
      /\ dev' = [dev EXCEPT ![d] = NewDevice]
      /\ bootExt' = IF dev[d].bootDrive THEN [found |-> FALSE, drive |-> NoDrive] ELSE bootExt
  BY DEF RemoveDrive, Running
<1>2. dev \in [Drives -> DeviceStates] /\ NewDevice \in DeviceStates /\ d \in {"boot", "copy"}
  BY DEF DevInv, DevTypes, Drives, NewDevice, DeviceStates
<1>3. DevTypes'
  BY <1>1, <1>2 DEF DevInv, DevTypes
<1>4. LoadInv' /\ AreaInv' /\ DumpInv' /\ SlotInv' /\ WipeInv'
  BY <1>1, SlotFrame, WipeFrame, DumpFrame DEF DevInv, LoadInv, AreaInv, DumpInv
<1>5. BootInv'
  BY <1>1, <1>2 DEF DevInv, BootInv, NewDevice, Drives, NoDrive
<1>6. RoleInv'
  BY <1>1, <1>2 DEF DevInv, RoleInv, NewDevice, Drives
<1> QED BY <1>3, <1>4, <1>5, <1>6 DEF DevInv

-----------------------------------------------------------------------------
\* The set-up and the header.  In a hidden system there is none.
LEMMA AreaSteps == ASSUME DevInv, StartSetup \/ EndMoves \/ ReopenBootVolumeHeader PROVE DevInv'
<1>1. /\ UNCHANGED <<args, dev, bootExt, dumps, written, wipe>> /\ win.at = "run"
      /\ win' = win \/ win' = [win EXCEPT !.at = "stopped"]
      /\ devFaults' = devFaults \/ DevFault
  BY DEF StartSetup, EndMoves, ReopenBootVolumeHeader, SaveHeaderThen, Stopped, Running
<1>2. area \in AreaStates /\ AreaInv /\ devFaults \in Nat /\ written = {} /\ AreaUnits \in Nat
  BY <1>1, DevAssumption DEF DevInv, DevTypes, DumpInv
<1>3. area' \in AreaStates /\ AreaInv'
  <2>1. CASE StartSetup
    <3>1. ~args.hidden
      BY <2>1 DEF StartSetup, HiddenSystem, BootMounted
    <3> QED BY <1>1, <1>2, <2>1, <3>1 DEF StartSetup, AreaStates, AreaInv
  <2>2. CASE EndMoves
    <3>1. CASE area' = area
      BY <1>1, <1>2, <3>1 DEF AreaInv
    <3>2. CASE area.setup = "block" /\ area' = [area EXCEPT !.setup = "half", !.pending = TRUE]
      BY <1>1, <1>2, <3>2 DEF AreaStates, AreaInv
    <3>3. CASE area.setup = "half" /\ area' = [area EXCEPT !.setup = "moved", !.end = @ + 1]
      <4>1. area'.setup = "moved" /\ area'.end = area.end + 1 /\ area'.pending = area.pending /\ area'.header = area.header
        BY <1>1, <1>2, <3>3 DEF AreaStates
      <4>2. area' \in AreaStates
        <5>1. area.end + 1 \in 0 .. AreaUnits
          BY <1>2, <3>3 DEF AreaStates, AreaInv
        <5> QED BY <1>2, <3>3, <5>1 DEF AreaStates
      <4>3. AreaInv'
        BY <1>1, <1>2, <3>3, <4>1 DEF AreaStates, AreaInv
      <4> QED BY <4>2, <4>3
    <3>4. CASE /\ area.setup = "moved"
               /\ \E next \in {"block", "save"} : /\ area.end = AreaUnits => next = "save"
                                                  /\ area' = [area EXCEPT !.setup = next, !.pending = FALSE]
      <4>1. /\ area'.setup \in {"block", "save"} /\ (area.end = AreaUnits => area'.setup = "save")
            /\ area'.end = area.end /\ area'.header = area.header
        BY <1>1, <1>2, <3>4 DEF AreaStates
      <4>2. area' \in AreaStates
        BY <1>1, <1>2, <3>4 DEF AreaStates
      <4>3. AreaInv'
        BY <1>1, <1>2, <3>4, <4>1 DEF AreaStates, AreaInv
      <4> QED BY <4>2, <4>3
    <3>5. CASE /\ area.setup = "save"
               /\ area' = [area EXCEPT !.setup = IF area.end = AreaUnits THEN "off" ELSE "block", !.header = area.end]
      <4>1. /\ area'.setup = (IF area.end = AreaUnits THEN "off" ELSE "block")
            /\ area'.end = area.end /\ area'.header = area.end
        BY <1>1, <1>2, <3>5 DEF AreaStates
      <4>2. area' \in AreaStates
        BY <1>1, <1>2, <3>5 DEF AreaStates
      <4>3. AreaInv'
        BY <1>1, <1>2, <3>5, <4>1 DEF AreaStates, AreaInv
      <4> QED BY <4>2, <4>3
    <3> QED BY <2>2, <3>1, <3>2, <3>3, <3>4, <3>5 DEF EndMoves, SaveHeaderThen
  <2>3. CASE ReopenBootVolumeHeader
    BY <1>1, <1>2, <2>3 DEF ReopenBootVolumeHeader, AreaStates, AreaInv
  <2> QED BY <2>1, <2>2, <2>3
<1>4. devFaults' \in Nat /\ (devFaults' = 0 => devFaults = 0)
  BY <1>1, <1>2 DEF DevFault
<1>5. win' \in [at : WindowsStates, vista : BOOLEAN, merged : BOOLEAN] /\ win'.at # "load" /\ win'.merged = win.merged
  BY <1>1 DEF DevInv, DevTypes, WindowsStates
<1>6. DevTypes'
  BY <1>1, <1>3, <1>4, <1>5 DEF DevInv, DevTypes
<1>7. LoadInv' /\ BootInv' /\ RoleInv'
  BY <1>1, <1>4, <1>5 DEF DevInv, LoadInv, BootInv, RoleInv
<1>8. DumpInv' /\ SlotInv' /\ WipeInv'
  BY <1>1, <1>2, SlotFrame, WipeFrame, DumpFrame
<1> QED BY <1>3, <1>6, <1>7, <1>8 DEF DevInv

-----------------------------------------------------------------------------
\* A step that only changes the state of Windows and which dump files there are.
LEMMA WindowsSteps ==
    ASSUME DevInv,
           (\E f \in {"crash", "hibernation"} : DeviceUsageNotification(f)) \/ DumpFilterEntry \/ BugCheck \/ PowerOff
           \/ ImagesUnloaded
    PROVE  DevInv'
<1>1. /\ UNCHANGED <<args, dev, bootExt, area, written, wipe, devFaults>> /\ win.at # "load"
      /\ win' = win \/ win' = [win EXCEPT !.at = "crash"] \/ win' = [win EXCEPT !.at = "off"]
  BY DEF DeviceUsageNotification, DumpFilterEntry, BugCheck, PowerOff, ImagesUnloaded, Running
<1>2. /\ win' \in [at : WindowsStates, vista : BOOLEAN, merged : BOOLEAN] /\ win'.at # "load" /\ win'.merged = win.merged
      /\ win'.at = "run" => win.at = "run"
  BY <1>1 DEF DevInv, DevTypes, WindowsStates
<1>3. /\ dumps' \in DumpStates /\ dumps'.original = dumps.original
      /\ dumps'.images = dumps.images /\ dumps'.last = dumps.last
      /\ dumps'.live = dumps.live \/ dumps'.live = {}
  <2>1. dumps \in DumpStates
    BY DEF DevInv, DevTypes
  <2>2. CASE \E f \in {"crash", "hibernation"} : DeviceUsageNotification(f)
    BY <2>1, <2>2 DEF DumpStates, DeviceUsageNotification
  <2>3. CASE DumpFilterEntry \/ BugCheck \/ PowerOff \/ ImagesUnloaded
    BY <2>1, <2>3 DEF DumpStates, DumpFilterEntry, BugCheck, PowerOff, ImagesUnloaded
  <2> QED BY <2>2, <2>3
<1>4. DevTypes'
  BY <1>1, <1>2, <1>3 DEF DevInv, DevTypes
<1>5. LoadInv' /\ BootInv' /\ RoleInv' /\ AreaInv'
  BY <1>1, <1>2 DEF DevInv, LoadInv, BootInv, RoleInv, AreaInv
<1>6. DumpInv' /\ WipeInv'
  BY <1>1, <1>2, WipeFrame, DumpFrame DEF DevInv, DumpInv
<1>7. SlotInv'
  BY <1>3, SlotFrame DEF SlotInv
<1> QED BY <1>4, <1>5, <1>6, <1>7 DEF DevInv

\* The set-up is ended and the header saved before a hibernation.
LEMMA PowerStep == ASSUME DevInv, DispatchPower PROVE DevInv'
<1>1. /\ UNCHANGED <<args, dev, bootExt, dumps, written, wipe, devFaults>> /\ win.at = "run" /\ written = {}
      /\ win' = [win EXCEPT !.at = "hibernate"] \/ win' = [win EXCEPT !.at = "stopped"]
      /\ area' = area \/ area' = [area EXCEPT !.setup = "off", !.header = area.end]
  BY DEF DevInv, DumpInv, DispatchPower, Stopped, Running
<1>2. /\ win' \in [at : WindowsStates, vista : BOOLEAN, merged : BOOLEAN] /\ win'.at \notin {"load", "run"}
      /\ win'.merged = win.merged
  BY <1>1 DEF DevInv, DevTypes, WindowsStates
<1>3. area' \in AreaStates /\ AreaInv'
  <2>0. area \in AreaStates /\ AreaInv
    BY DEF DevInv, DevTypes
  <2>1. CASE area' = area
    BY <1>1, <2>0, <2>1 DEF AreaInv
  <2>2. CASE area' = [area EXCEPT !.setup = "off", !.header = area.end]
    <3>1. area'.setup = "off" /\ area'.end = area.end /\ area'.header = area.end
      BY <1>1, <2>0, <2>2 DEF AreaStates
    <3>2. area' \in AreaStates
      BY <1>1, <2>0, <2>2 DEF AreaStates
    <3>3. AreaInv'
      BY <1>1, <2>0, <2>2, <3>1 DEF AreaStates, AreaInv
    <3> QED BY <3>2, <3>3
  <2> QED BY <1>1, <2>1, <2>2
<1>4. DevTypes'
  BY <1>1, <1>2, <1>3 DEF DevInv, DevTypes
<1>5. LoadInv' /\ BootInv' /\ RoleInv'
  BY <1>1, <1>2 DEF DevInv, LoadInv, BootInv, RoleInv
<1>6. DumpInv' /\ WipeInv' /\ SlotInv'
  BY <1>1, <1>2, WipeFrame, DumpFrame, SlotFrame
<1> QED BY <1>3, <1>4, <1>5, <1>6 DEF DevInv

\* A dump is written while the area stands still.
LEMMA DumpSteps == ASSUME DevInv, DumpFilterWrite \/ HiberDriverWriteFunctionFilter PROVE DevInv'
<1>1. /\ UNCHANGED <<args, dev, bootExt, dumps, area, wipe, devFaults>> /\ win.at \in {"hibernate", "crash"}
      /\ bootExt.drive # NoDrive
      /\ win' = win \/ win' = [win EXCEPT !.at = "stopped"]
  BY DEF DumpFilterWrite, HiberDriverWriteFunctionFilter, BootMounted, Stopped
<1>2. /\ win' \in [at : WindowsStates, vista : BOOLEAN, merged : BOOLEAN] /\ win'.at \notin {"load", "run"}
      /\ win'.merged = win.merged
  BY <1>1 DEF DevInv, DevTypes, WindowsStates
<1>3. DevTypes'
  BY <1>1, <1>2 DEF DevInv, DevTypes
<1>4. LoadInv' /\ BootInv' /\ RoleInv' /\ AreaInv'
  BY <1>1, <1>2 DEF DevInv, LoadInv, BootInv, RoleInv, AreaInv
<1>5. DumpInv'
  <2>1. CASE written' = written
    BY <1>1, <1>2, <2>1, DumpFrame
  <2>2. CASE \E u \in Partition, n \in 1 .. 2, s \in BOOLEAN :
                /\ u + n - 1 <= AreaUnits /\ (s <=> args.hidden)
                /\ written' = {StoredUnit(v, area.end, s) : v \in u .. u + n - 1}
    <3>1. PICK u \in Partition, n \in 1 .. 2, s \in BOOLEAN :
                /\ u + n - 1 <= AreaUnits /\ (s <=> args.hidden)
                /\ written' = {StoredUnit(v, area.end, s) : v \in u .. u + n - 1}
      BY <2>2
    <3>2. ASSUME NEW w \in written'
          PROVE  \/ w.unit > area.header /\ w.unit <= area.end
                 \/ w = [unit |-> w.unit, at |-> IF args.hidden THEN w.unit + AreaUnits ELSE w.unit,
                         key |-> IF w.unit > area.header THEN 0
                                 ELSE IF args.hidden THEN w.unit + AreaUnits ELSE w.unit]
      <4>1. PICK v \in u .. u + n - 1 : w = StoredUnit(v, area.end, s)
        BY <3>1, <3>2
      <4>2. v \in Int /\ area.end \in Int /\ area.header \in Int /\ area.header <= area.end
        BY DevAssumption DEF Partition, DevInv, DevTypes, AreaStates, AreaInv
      <4>3. w = [unit |-> v, at |-> IF args.hidden THEN v + AreaUnits ELSE v,
                 key |-> IF v > area.end THEN 0 ELSE IF args.hidden THEN v + AreaUnits ELSE v]
        BY <1>1, <3>1, <4>1 DEF StoredUnit, HiddenSystem
      <4>4. w.unit = v
        BY <4>3
      <4>5. CASE v > area.header /\ v <= area.end
        BY <4>4, <4>5
      <4>6. CASE v > area.end
        BY <4>2, <4>3, <4>4, <4>6
      <4>7. CASE v <= area.header
        BY <4>2, <4>3, <4>4, <4>7
      <4> QED BY <4>2, <4>5, <4>6, <4>7
    <3> QED BY <1>1, <1>2, <3>2 DEF DumpInv, DumpReadable
  <2>3. CASE HiberDriverWriteFunctionFilter
    <3>1. PICK s \in BOOLEAN : s = HiddenSystem
      BY Zenon DEF HiddenSystem
    <3>2. s <=> args.hidden
      BY <1>1, <3>1 DEF HiddenSystem
    <3>3. PICK u \in Partition, n \in 1 .. 2 :
             /\ u + n - 1 <= AreaUnits
             /\ written' = {StoredUnit(v, area.end, HiddenSystem) : v \in u .. u + n - 1}
      BY <2>3 DEF HiberDriverWriteFunctionFilter
    <3>4. written' = {StoredUnit(v, area.end, s) : v \in u .. u + n - 1}
      BY <3>1, <3>3, Zenon
    <3> QED BY <2>2, <3>2, <3>3, <3>4, Zenon
  <2>4. CASE DumpFilterWrite /\ written' # written
    <3>1. PICK u \in Partition, n \in 1 .. 2, end \in SeenEnds :
             /\ u + n - 1 <= AreaUnits /\ ~area.pending
             /\ written' = {StoredUnit(v, end, HiddenSystem /\ u <= end) : v \in u .. u + n - 1}
      BY <2>4 DEF DumpFilterWrite
    <3>2. end = area.end
      BY <3>1 DEF SeenEnds, DevInv, AreaInv
    <3>3. args.hidden => u <= end
      BY <3>1, <3>2 DEF DevInv, AreaInv, Partition
    <3>4. PICK s \in BOOLEAN : s = (HiddenSystem /\ u <= end)
      BY Zenon
    <3>5. s <=> args.hidden
      BY <1>1, <3>3, <3>4 DEF HiddenSystem
    <3>6. written' = {StoredUnit(v, area.end, s) : v \in u .. u + n - 1}
      BY <3>1, <3>2, <3>4, Zenon
    <3> QED BY <2>2, <3>1, <3>5, <3>6, Zenon
  <2> QED BY <2>1, <2>3, <2>4
<1>6. WipeInv' /\ SlotInv'
  BY <1>1, WipeFrame, SlotFrame
<1> QED BY <1>3, <1>4, <1>5, <1>6 DEF DevInv

\* A hibernation driver gets the filter that was used longest ago, and none that is loaded has it.
LEMMA ImageStep == ASSUME DevInv, LoadImageNotifyRoutine PROVE DevInv'
<1> DEFINE new == [image |-> dumps.images + 1, filter |-> dumps.last]
<1>1. /\ UNCHANGED <<win, args, dev, bootExt, area, written, wipe, devFaults>> /\ Cardinality(dumps.live) < Cardinality(Slots)
      /\ dumps' = [dumps EXCEPT !.images = @ + 1, !.original[dumps.last] = dumps.images + 1, !.live = @ \cup {new},
                              !.last = IF @ = Cardinality(Slots) THEN 1 ELSE @ + 1]
  BY DEF LoadImageNotifyRoutine
<1>2. Cardinality(Slots) = 3
  <2>1. 1 \in Int /\ 3 \in Int
    OBVIOUS
  <2>2. Cardinality(1 .. 3) = IF 1 > 3 THEN 0 ELSE 3 - 1 + 1
    BY <2>1, FS_Interval, Zenon
  <2> QED BY <2>2 DEF Slots
<1>3. /\ dumps \in DumpStates /\ dumps.last \in {1, 2, 3} /\ dumps.images \in Nat
      /\ dumps.live \subseteq [image : Int, filter : Slots] /\ dumps.original \in [Slots -> Nat]
  BY DEF DevInv, DevTypes, DumpStates, Slots
<1>4. /\ dumps' \in DumpStates /\ dumps'.live = dumps.live \cup {new} /\ dumps'.images = dumps.images + 1
      /\ dumps'.last = (IF dumps.last = 3 THEN 1 ELSE dumps.last + 1)
      /\ dumps'.original = [dumps.original EXCEPT ![dumps.last] = dumps.images + 1]
  <2>1. /\ dumps'.live = dumps.live \cup {new} /\ dumps'.images = dumps.images + 1
        /\ dumps'.last = (IF dumps.last = 3 THEN 1 ELSE dumps.last + 1)
        /\ dumps'.original = [dumps.original EXCEPT ![dumps.last] = dumps.images + 1]
    BY <1>1, <1>2, <1>3 DEF DumpStates
  <2>2. /\ dumps'.live \subseteq [image : Int, filter : Slots] /\ dumps'.images \in Nat /\ dumps'.last \in Slots
        /\ dumps'.original \in [Slots -> Nat]
    BY <1>3, <2>1 DEF Slots
  <2> QED BY <1>1, <1>3, <2>1, <2>2 DEF DumpStates
<1>5. /\ \A s \in Slots : Age(s) \in {1, 2, 3} /\ (s # dumps.last => Age(s)' = Age(s) + 1 /\ LiveImage(s)' = LiveImage(s))
      /\ Age(dumps.last) = 3 /\ (\A s \in Slots : s # dumps.last => Age(s) < 3)
      /\ \A s \in Slots : s = dumps.last => Age(s)' = 1 /\ LiveImage(s)' = new
  BY <1>3, <1>4 DEF Age, LiveImage, Slots
<1>6. \A i \in dumps.live : i.filter \in Slots /\ i.filter # dumps.last
  <2> SUFFICES ASSUME NEW i \in dumps.live, i.filter = dumps.last PROVE FALSE
    BY <1>3
  <2>1. dumps.live = {LiveImage(1), LiveImage(2), LiveImage(3)}
    <3>1. \A s \in Slots : LiveImage(s) \in dumps.live
      <4>1. i = LiveImage(dumps.last)
        BY DEF DevInv, SlotInv
      <4>2. \A s \in Slots : s # dumps.last => LiveImage(s) \in dumps.live
        BY <1>5 DEF DevInv, SlotInv
      <4> QED BY <4>1, <4>2
    <3>2. \A j \in dumps.live : j.filter \in {1, 2, 3} /\ j = LiveImage(j.filter)
      BY <1>3 DEF DevInv, SlotInv, Slots
    <3> QED BY <3>1, <3>2 DEF Slots
  <2>2. LiveImage(1) # LiveImage(2) /\ LiveImage(1) # LiveImage(3) /\ LiveImage(2) # LiveImage(3)
    BY DEF LiveImage
  <2> HIDE DEF LiveImage
  <2>3. Cardinality({}) = 0 /\ IsFiniteSet({})
    BY FS_EmptySet
  <2>4. Cardinality({LiveImage(1)}) = 1 /\ IsFiniteSet({LiveImage(1)})
    BY FS_Singleton
  <2>5. /\ Cardinality({LiveImage(1)} \cup {LiveImage(2)}) = 2
        /\ IsFiniteSet({LiveImage(1)} \cup {LiveImage(2)})
    BY <2>2, <2>4, FS_AddElement
  <2>6. Cardinality(({LiveImage(1)} \cup {LiveImage(2)}) \cup {LiveImage(3)}) = 3
    BY <2>2, <2>5, FS_AddElement
  <2>7. dumps.live = ({LiveImage(1)} \cup {LiveImage(2)}) \cup {LiveImage(3)}
    BY <2>1
  <2> QED BY <1>1, <1>2, <2>6, <2>7
<1>7. SlotInv'
  <2>1. ASSUME NEW i \in dumps'.live PROVE i = LiveImage(i.filter)' /\ dumps'.original[i.filter] = i.image
    <3>1. CASE i \in dumps.live
      BY <1>3, <1>4, <1>5, <1>6, <3>1 DEF DevInv, SlotInv
    <3>2. CASE i = new
      BY <1>3, <1>4, <1>5, <3>2 DEF Slots
    <3> QED BY <1>4, <2>1, <3>1, <3>2
  <2>2. ASSUME NEW i \in dumps'.live, NEW s \in Slots, Age(s)' < Age(i.filter)' PROVE LiveImage(s)' \in dumps'.live
    <3>1. CASE s = dumps.last
      BY <1>4, <1>5, <3>1
    <3>2. CASE s # dumps.last /\ i \in dumps.live
      <4>1. Age(s) < Age(i.filter)
        BY <1>5, <1>6, <2>2, <3>2
      <4> QED BY <1>4, <1>5, <3>2, <4>1 DEF DevInv, SlotInv
    <3>3. CASE s # dumps.last /\ i = new
      BY <1>3, <1>5, <2>2, <3>3 DEF Slots
    <3> QED BY <1>4, <2>2, <3>1, <3>2, <3>3
  <2> QED BY <2>1, <2>2 DEF SlotInv
<1>8. DevTypes'
  BY <1>1, <1>4 DEF DevInv, DevTypes
<1>9. LoadInv' /\ BootInv' /\ RoleInv' /\ AreaInv'
  BY <1>1 DEF DevInv, LoadInv, BootInv, RoleInv, AreaInv
<1>10. DumpInv' /\ WipeInv'
  BY <1>1, WipeFrame, DumpFrame DEF DevInv, DumpInv
<1> QED BY <1>7, <1>8, <1>9, <1>10 DEF DevInv

-----------------------------------------------------------------------------
\* The wiping of the decoy system.
LEMMA WipeStepsKeep ==
    ASSUME DevInv, StartDecoySystemWipe \/ WipeOpens \/ WipeEnds \/ WipeWrites \/ AbortDecoySystemWipe
    PROVE  DevInv'
<1>1. /\ UNCHANGED <<win, args, dev, bootExt, dumps, area, written>>
      /\ devFaults' = devFaults \/ DevFault
  BY DEF StartDecoySystemWipe, WipeOpens, WipeEnds, WipeWrites, AbortDecoySystemWipe, WipeStep
<1>2. devFaults' \in Nat /\ (devFaults' = 0 => devFaults = 0)
  BY <1>1 DEF DevFault, DevInv, DevTypes
<1>3. wipe \in WipeStates /\ WipeInv /\ AreaUnits \in Nat
  BY DevAssumption DEF DevInv, DevTypes
<1>4. wipe' \in WipeStates /\ WipeInv'
  <2>1. CASE StartDecoySystemWipe
    <3>1. wipe' = [wipe EXCEPT !.thread = TRUE, !.at = "open", !.off = 1, !.pass = 1, !.end = 0, !.abort = FALSE]
      BY <2>1 DEF StartDecoySystemWipe
    <3>2. wipe' \in WipeStates /\ wipe'.at = "open" /\ wipe'.off = 1 /\ wipe'.pass = 1 /\ wipe'.end = 0
      BY <1>3, <3>1 DEF WipeStates
    <3>3. wipe'.end = AreaUnits => Partition = {}
      BY <3>2 DEF Partition
    <3> QED BY <3>2, <3>3 DEF WipeInv, WipeComplete
  <2>2. CASE WipeOpens
    <3>1. /\ wipe' = [wipe EXCEPT !.at = wipe'.at, !.result = "fail"] /\ wipe'.at \in {"off", "loop"} /\ wipe.at = "open"
          /\ wipe' \in WipeStates
      BY <1>3, <2>2 DEF WipeOpens, WipeStep, WipeStates
    <3>2. /\ wipe'.result = "fail" /\ wipe'.off = 1 /\ wipe'.end = 0 /\ wipe'.clean = wipe.clean
      BY <1>3, <3>1 DEF WipeStates, WipeInv
    <3>3. \A u \in Partition : ~(u < 1)
      BY DEF Partition
    <3> QED BY <1>3, <3>1, <3>2, <3>3 DEF WipeInv, WipeComplete
  <2>3. CASE WipeEnds
    <3>1. wipe' = [wipe EXCEPT !.at = "off", !.result = "ok"] /\ wipe.at = "loop"
      BY <2>3 DEF WipeEnds, WipeStep
    <3>2. wipe' \in WipeStates /\ wipe'.at = "off" /\ wipe'.end = wipe.end /\ wipe'.clean = wipe.clean
      BY <1>3, <3>1 DEF WipeStates
    <3>3. WipeComplete'
      BY <1>3, <3>1, <3>2 DEF WipeInv, WipeComplete, WipeStates, Partition
    <3> QED BY <3>2, <3>3 DEF WipeInv
  <2>4. CASE WipeWrites
    <3>1. wipe.at = "loop" /\ wipe.off <= AreaUnits
      BY <2>4 DEF WipeWrites
    <3>2. CASE wipe' = [wipe EXCEPT !.at = "off", !.result = "fail"]
      BY <1>3, <3>2 DEF WipeStates, WipeInv, WipeComplete
    <3>3. CASE wipe' # [wipe EXCEPT !.at = "off", !.result = "fail"]
      <4> DEFINE last == wipe.pass = DecoyWipePasses
      <4>1. wipe' = [wipe EXCEPT !.clean[wipe.off] = wipe.pass, !.pass = IF last THEN 1 ELSE @ + 1,
                                 !.off = IF last THEN @ + 1 ELSE @, !.end = IF last THEN wipe.off ELSE @]
        BY <2>4, <3>3 DEF WipeWrites, WipeStep
      <4>2. wipe.off \in Partition /\ wipe.off \in Nat /\ wipe.pass \in Nat /\ wipe.clean \in [Partition -> Nat]
        BY <1>3, <3>1 DEF WipeStates, WipeInv, Partition
      <4>3. /\ wipe'.at = "loop" /\ wipe'.result = wipe.result /\ wipe'.clean = [wipe.clean EXCEPT ![wipe.off] = wipe.pass]
            /\ wipe'.off = (IF last THEN wipe.off + 1 ELSE wipe.off) /\ wipe'.end = (IF last THEN wipe.off ELSE wipe.end)
            /\ wipe'.pass = (IF last THEN 1 ELSE wipe.pass + 1)
        BY <1>3, <3>1, <4>1 DEF WipeStates
      <4>4. wipe' \in WipeStates
        <5>1. wipe'.clean \in [Partition -> Nat] /\ wipe'.off \in Nat /\ wipe'.end \in Nat /\ wipe'.pass \in Nat
          BY <1>3, <4>2, <4>3 DEF WipeStates
        <5> QED BY <1>3, <4>1, <4>3, <5>1 DEF WipeStates
      <4>5. \A u \in Partition : u < wipe'.off => wipe'.clean[u] = DecoyWipePasses
        <5> SUFFICES ASSUME NEW u \in Partition, u < wipe'.off PROVE wipe'.clean[u] = DecoyWipePasses
          OBVIOUS
        <5>1. CASE u = wipe.off
          BY <4>2, <4>3, <5>1
        <5>2. CASE u # wipe.off
          <6>1. u < wipe.off
            BY <4>2, <4>3, <5>2 DEF Partition
          <6> QED BY <1>3, <3>1, <4>2, <4>3, <5>2, <6>1 DEF WipeInv
        <5> QED BY <5>1, <5>2
      <4> QED BY <1>3, <3>1, <4>2, <4>3, <4>4, <4>5 DEF WipeInv, WipeComplete, WipeStates
    <3> QED BY <3>2, <3>3
  <2>5. CASE AbortDecoySystemWipe
    BY <1>3, <2>5 DEF AbortDecoySystemWipe, WipeStep, WipeStates, WipeInv, WipeComplete
  <2> QED BY <2>1, <2>2, <2>3, <2>4, <2>5
<1>5. DevTypes'
  BY <1>1, <1>2, <1>4 DEF DevInv, DevTypes
<1>6. LoadInv' /\ BootInv' /\ RoleInv' /\ AreaInv'
  BY <1>1, <1>2 DEF DevInv, LoadInv, BootInv, RoleInv, AreaInv
<1>7. DumpInv' /\ SlotInv'
  BY <1>1, SlotFrame, DumpFrame DEF DevInv, DumpInv
<1> QED BY <1>4, <1>5, <1>6, <1>7 DEF DevInv

\* Every step of the devices keeps the invariant.
LEMMA DevInvStep == DevInv /\ [DevNext]_devVars => DevInv'
<1> SUFFICES ASSUME DevInv, [DevNext]_devVars PROVE DevInv'
  OBVIOUS
<1>1. CASE LoadBootArguments
  BY <1>1, LoadStep
<1>2. CASE \E d \in Drives : \/ DriveFilterAddDevice(d) \/ OnStartDeviceCompleted(d) \/ CheckDeviceTypeAndMount(d)
                             \/ MountDrive(d) \/ RemoveDrive(d)
  BY <1>2, StartSteps, MountStep, RemoveStep
<1>3. CASE StartSetup \/ EndMoves \/ ReopenBootVolumeHeader
  BY <1>3, AreaSteps
<1>4. CASE (\E f \in {"crash", "hibernation"} : DeviceUsageNotification(f)) \/ DumpFilterEntry \/ BugCheck \/ PowerOff
           \/ ImagesUnloaded
  BY <1>4, WindowsSteps
<1>5. CASE DispatchPower \/ DumpFilterWrite \/ HiberDriverWriteFunctionFilter \/ LoadImageNotifyRoutine
  BY <1>5, PowerStep, DumpSteps, ImageStep
<1>6. CASE StartDecoySystemWipe \/ WipeOpens \/ WipeEnds \/ WipeWrites \/ AbortDecoySystemWipe
  BY <1>6, WipeStepsKeep
<1>7. CASE UNCHANGED devVars
  <2>1. UNCHANGED <<win, args, dev, bootExt, dumps, area, written, wipe, devFaults>>
    BY <1>7 DEF devVars
  <2>2. DevTypes' /\ LoadInv' /\ BootInv' /\ RoleInv' /\ AreaInv'
    BY <2>1 DEF DevInv, DevTypes, LoadInv, BootInv, RoleInv, AreaInv
  <2>3. DumpInv' /\ SlotInv' /\ WipeInv'
    BY <2>1, SlotFrame, DumpFrame, WipeFrame DEF DevInv, DumpInv
  <2> QED BY <2>2, <2>3 DEF DevInv
<1> QED BY <1>1, <1>2, <1>3, <1>4, <1>5, <1>6, <1>7 DEF DevNext

(* For any size of the area, any number of hibernation drivers, wipe passes and faults:
   the drive that was booted is the one that is mounted, dumps are readable by the
   header that is on the drive, a hibernation driver is called through its own filter,
   a decoy system reported as wiped is wiped, and under a hidden system the other
   volumes are read-only. *)
THEOREM DevicesAreSound == DevSpec => []DevicesSound
<1> QED BY DevInvInit, DevInvStep, DevInvSound, PTL DEF DevSpec

-----------------------------------------------------------------------------
(***************************************************************************)
(* The installer.                                                          *)
(***************************************************************************)
SuSteps == {"off", "unload", "inUse", "stop", "service", "files", "programs", "driverOpen", "driverWrite", "reg",
            "driver", "loader", "links", "migrate", "finish", "data", "ended", "failed", "done"}
ComputerStates ==
    [svc : {"none", "system", "boot", "marked"}, loaded : 0 .. 3, portable : BOOLEAN, files : 0 .. 3,
     drvFile : 0 .. 9, reg : 0 .. 3, links : 0 .. 3, data : BOOLEAN, filter : BOOLEAN, dump : BOOLEAN,
     loader : 0 .. 3, sysEnc : BOOLEAN, busy : BOOLEAN, legacy : BOOLEAN]
InstallerStates ==
    [at : SuSteps, kind : {"none", "install", "uninstall"}, upgrade : BOOLEAN, downgrade : BOOLEAN,
     installed : 0 .. 3, portable : BOOLEAN, sysUpdate : BOOLEAN, unload : BOOLEAN, rollback : BOOLEAN,
     handle : BOOLEAN, ok : BOOLEAN, restart : BOOLEAN]
SuTypes == computer \in ComputerStates /\ before \in ComputerStates /\ ins \in InstallerStates
Spoilt == "ignored" \in suLog \/ "cut" \in suLog

\* A driver runs only with its service, the filters belong to a service that starts at
\* boot, and an encrypted system that starts has its driver loaded.
ComputerInv ==
    /\ computer.svc = "none" => computer.loaded = 0
    /\ computer.portable => computer.svc = "marked"
    /\ computer.filter => computer.svc = "boot"
    /\ computer.sysEnc => computer.svc = "boot" /\ computer.filter
    /\ computer.sysEnc /\ (ins.at # "off" \/ computer.drvFile \in 1 .. 3) => computer.loaded # 0
\* Which steps belong to an installation and which to a removal or roll-back.
KindInv ==
    /\ ins.at \notin {"off"} => ins.kind \in {"install", "uninstall"}
    /\ ins.rollback => ins.kind = "install" /\ ins.at # "done"
    /\ ins.at \in {"service", "programs", "driverOpen", "driverWrite", "reg", "driver", "loader", "migrate", "finish"} => ~Uninstalling
    /\ ins.at \in {"data", "ended"} => Uninstalling
    /\ ins.at = "unload" /\ ~ins.rollback => /\ ~ins.sysUpdate /\ ins.unload
                                             /\ before.svc = computer.svc /\ before.portable = computer.portable
\* An encrypted system is upgraded without the driver being unloaded, never removed.
EncryptedInv == computer.sysEnc =>
    /\ ins.at \notin {"off", "unload", "ended", "failed", "done"} => ins.kind = "install" /\ ins.sysUpdate /\ ~ins.unload
    /\ ins.at # "off" => ~ins.rollback
    /\ ins.at \in {"unload", "inUse", "stop", "service", "files", "programs", "driverOpen", "driverWrite", "reg", "driver", "loader"}
          => before.loader = computer.loader
    /\ \/ computer.drvFile \in 1 .. 3 \/ ins.at = "driverWrite" \/ (ins.at = "finish" /\ ~ins.ok)
       \/ Spoilt \/ "warned" \in suLog
\* How far the installation is.
Past(steps) ==
    \/ ins.at \in steps /\ ~Uninstalling
    \/ ins.at = "finish" /\ ins.ok
    \/ ins.at = "done" /\ ins.kind = "install"
InstallInv ==
    /\ ins.at = "driverWrite" => computer.drvFile = 9 \/ Spoilt
    /\ Past({"driverOpen", "driverWrite", "reg", "driver", "loader", "links", "migrate"}) => computer.files = This \/ Spoilt
    /\ Past({"reg", "driver", "loader", "links", "migrate"}) => computer.drvFile = This \/ Spoilt
    /\ Past({"driver", "loader", "links", "migrate"}) => computer.reg = This
    /\ Past({"loader", "links", "migrate"}) /\ ins.unload => computer.svc = "system" /\ (computer.loaded = This \/ Spoilt)
    /\ Past({"inUse", "stop", "service", "files", "programs", "driverOpen", "driverWrite", "reg", "driver", "loader", "links", "migrate"})
          /\ ~ins.unload => computer.svc \in {"system", "boot"} \/ (before.svc = "marked" /\ ~before.portable)
    /\ Past({"migrate"}) => computer.links = This
    /\ ins.at = "done" /\ ins.kind = "install" => ins.unload \/ ins.restart
\* How far the removal is.
Gone(steps) ==
    ins.kind = "uninstall" /\ (ins.at \in steps \/ (ins.at = "ended" /\ ins.ok) \/ ins.at = "done")
RemovalInv ==
    /\ Gone({"files", "links", "data"}) => computer.svc \in {"none", "marked"} /\ ~computer.filter
    /\ Gone({"links", "data"}) => computer.files = 0 /\ computer.drvFile = 0 /\ computer.reg = 0
    /\ Gone({"data"}) => computer.links = 0
    /\ Gone({}) => ~computer.data
SuInv == SuTypes /\ ComputerInv /\ KindInv /\ EncryptedInv /\ InstallInv /\ RemovalInv /\ LoaderNotNewer

LEMMA SuInvSound == SuInv => SetupSound
<1> SUFFICES ASSUME SuInv PROVE SetupSound
  OBVIOUS
<1>1. BootDriverKept /\ LoaderNotNewer
  BY DEF SuInv, ComputerInv, EncryptedInv, BootDriverKept, Spoilt
<1>2. SuccessMeansInstalled
  BY DEF SuInv, InstallInv, Past, SuccessMeansInstalled, Spoilt
<1>3. UninstalledMeansGone
  BY DEF SuInv, RemovalInv, Gone, UninstalledMeansGone, NoVersion
<1> QED BY <1>1, <1>2, <1>3 DEF SetupSound

LEMMA ComputersTyped == ASSUME NEW c \in Computers PROVE
    /\ c \in ComputerStates /\ (c.svc = "none" => c.loaded = 0) /\ (c.portable => c.svc = "marked")
    /\ (c.filter => c.svc = "boot") /\ (c.sysEnc => c.svc = "boot" /\ c.filter /\ c.loaded # 0 /\ c.drvFile \in 1 .. 3)
<1> USE DEF NoVersion, This, ComputerStates
<1>0. PICK b \in ComputerStates : /\ b = Blank /\ b.svc = "none" /\ b.loaded = 0 /\ ~b.portable
                                  /\ ~b.filter /\ ~b.sysEnc
  <2>1. Blank \in ComputerStates
    BY DEF Blank
  <2>2. Blank.svc = "none" /\ Blank.loaded = 0 /\ ~Blank.portable /\ ~Blank.filter /\ ~Blank.sysEnc
    BY DEF Blank
  <2> QED BY <2>1, <2>2, Zenon
<1>1. CASE c \in {Blank, Portable(1), Portable(This)}
  <2>1. CASE c = Blank
    BY <1>0, <2>1
  <2>2. CASE \E v \in {1, 2} : c = Portable(v)
    <3>0. PICK v \in {1, 2} : c = Portable(v)
      BY <2>2
    <3>1. PICK n \in 0 .. 3 : n = v
      OBVIOUS
    <3>4. c = [b EXCEPT !.svc = "marked", !.loaded = n, !.portable = TRUE]
      BY <1>0, <3>0, <3>1 DEF Portable
    <3>2. c \in ComputerStates
      BY <1>0, <3>4
    <3>3. c.svc = "marked" /\ ~c.filter /\ ~c.sysEnc
      BY <1>0, <3>4
    <3> QED BY <3>2, <3>3
  <2> QED BY <1>1, <2>1, <2>2
<1>2. ASSUME NEW v \in 1 .. 3
      PROVE  /\ WithVersion(v) \in ComputerStates /\ WithVersion(v).svc = "system" /\ WithVersion(v).loaded = v
             /\ WithVersion(v).drvFile = v /\ ~WithVersion(v).portable /\ ~WithVersion(v).filter /\ ~WithVersion(v).sysEnc
  <2>0. PICK own \in 0 .. 3, n \in 0 .. 3, f \in 0 .. 9 : own = (IF v = 1 THEN 0 ELSE v) /\ n = v /\ f = v
    OBVIOUS
  <2>1. PICK l \in BOOLEAN : l = (v = 1)
    BY Zenon
  <2>2. WithVersion(v) = [b EXCEPT !.svc = "system", !.loaded = n, !.files = own, !.drvFile = f, !.reg = n,
                                   !.links = own, !.data = TRUE, !.legacy = l]
    BY <1>0, <2>0, <2>1, Zenon DEF WithVersion
  <2>3. WithVersion(v) \in ComputerStates
    BY <2>2
  <2>4. /\ WithVersion(v).svc = "system" /\ WithVersion(v).loaded = v
        /\ WithVersion(v).drvFile = v /\ ~WithVersion(v).portable /\ ~WithVersion(v).filter /\ ~WithVersion(v).sysEnc
    BY <1>0, <2>0, <2>2
  <2> QED BY <2>3, <2>4
<1>3. ASSUME NEW v \in 1 .. 3
      PROVE  /\ WithSystemEncryption(v) \in ComputerStates /\ WithSystemEncryption(v).svc = "boot"
             /\ WithSystemEncryption(v).filter /\ WithSystemEncryption(v).loaded = v
             /\ WithSystemEncryption(v).drvFile = v /\ ~WithSystemEncryption(v).portable
  <2>1. PICK w \in ComputerStates : w = WithVersion(v) /\ w.loaded = v /\ w.drvFile = v /\ ~w.portable
    BY <1>2
  <2>2. PICK n \in 0 .. 3 : n = v
    OBVIOUS
  <2>3. WithSystemEncryption(v) = [w EXCEPT !.svc = "boot", !.filter = TRUE, !.dump = TRUE, !.loader = n, !.sysEnc = TRUE]
    BY <2>1, <2>2 DEF WithSystemEncryption
  <2>4. WithSystemEncryption(v) \in ComputerStates
    BY <2>3
  <2> QED BY <2>1, <2>3, <2>4
<1>4. CASE \E v \in 1 .. 3 : c = WithSystemEncryption(v)
  BY <1>3, <1>4
<1>6. CASE \E v \in 1 .. 3 : c = WithVersion(v)
  BY <1>2, <1>6
<1>5. CASE c = [WithSystemEncryption(This) EXCEPT !.sysEnc = FALSE]
  <2>1. PICK w \in ComputerStates : w = WithSystemEncryption(2) /\ w.svc = "boot" /\ ~w.portable
    BY <1>3
  <2>2. c = [w EXCEPT !.sysEnc = FALSE]
    BY <1>5, <2>1
  <2> QED BY <2>1, <2>2
<1> QED BY <1>1, <1>4, <1>5, <1>6 DEF Computers

LEMMA SuInvInit == SuInit => SuInv
<1> SUFFICES ASSUME SuInit PROVE SuInv
  OBVIOUS
<1>1. ins = NoSetup /\ before = computer /\ computer \in Computers
  BY DEF SuInit
<1>2. ins \in InstallerStates /\ ins.at = "off" /\ ins.kind = "none" /\ ~ins.rollback
  BY <1>1 DEF NoSetup, InstallerStates, SuSteps
<1>3. SuTypes /\ ComputerInv
  BY <1>1, <1>2, ComputersTyped DEF SuTypes, ComputerInv
<1>4. KindInv /\ EncryptedInv /\ InstallInv /\ RemovalInv /\ LoaderNotNewer
  BY <1>1, <1>2, ComputersTyped DEF KindInv, EncryptedInv, InstallInv, Past, RemovalInv, Gone, LoaderNotNewer
<1> QED BY <1>3, <1>4 DEF SuInv

-----------------------------------------------------------------------------
\* What a step leaves as it was, of the installer and of the computer.
ComputerFields == {"svc", "loaded", "portable", "files", "drvFile", "reg", "links", "data", "filter", "loader", "sysEnc"}
KeptBut(S) == \A f \in ComputerFields \ S : computer'[f] = computer[f]
Moved(s) ==
    /\ ins' \in InstallerStates /\ ins'.at = s /\ ins'.kind = ins.kind /\ ins'.rollback = ins.rollback
    /\ ins'.sysUpdate = ins.sysUpdate /\ ins'.unload = ins.unload /\ ins'.restart = ins.restart

LEMMA ThenMoves == ASSUME SuInv, NEW s \in SuSteps, Then(s) PROVE Moved(s) /\ ins'.ok = ins.ok
BY DEF SuInv, SuTypes, InstallerStates, Then, Moved

LEMMA FailMoves == ASSUME SuInv, NEW s \in SuSteps, ins' = [ins EXCEPT !.ok = FALSE, !.at = s] PROVE Moved(s) /\ ~ins'.ok
BY DEF SuInv, SuTypes, InstallerStates, Moved

\* What the driver says of its version changes nothing else.
LEMMA StatusKept ==
    ASSUME SuInv, NEW i \in InstallerStates
    PROVE  \E j \in InstallerStates :
              /\ j = DetermineUpgradeDowngradeStatus(i) /\ j.at = i.at /\ j.kind = i.kind /\ j.rollback = i.rollback
              /\ j.sysUpdate = i.sysUpdate /\ j.unload = i.unload /\ j.ok = i.ok
              /\ computer.loaded # 0 => j.portable = computer.portable
<1>1. computer.loaded \in 0 .. 3 /\ computer.portable \in BOOLEAN
  BY DEF SuInv, SuTypes, ComputerStates
<1>6. (computer.loaded < This) \in BOOLEAN /\ (computer.loaded > This) \in BOOLEAN
  BY <1>1 DEF This
<1>2. PICK u \in BOOLEAN : u = (computer.loaded < This)
  BY <1>6, Zenon
<1>5. PICK d \in BOOLEAN : d = (computer.loaded > This)
  BY <1>6, Zenon
<1>3. CASE computer.loaded = 0
  BY <1>3 DEF DetermineUpgradeDowngradeStatus, NoVersion
<1>4. CASE computer.loaded # 0
  <2> DEFINE j == [i EXCEPT !.upgrade = u, !.downgrade = d, !.installed = computer.loaded, !.portable = computer.portable]
  <2>1. j \in InstallerStates
    BY <1>1 DEF InstallerStates
  <2>2. /\ j.at = i.at /\ j.kind = i.kind /\ j.rollback = i.rollback
        /\ j.sysUpdate = i.sysUpdate /\ j.unload = i.unload /\ j.ok = i.ok /\ j.portable = computer.portable
    BY DEF InstallerStates
  <2>3. j = DetermineUpgradeDowngradeStatus(i)
    BY <1>2, <1>4, <1>5, Zenon DEF DetermineUpgradeDowngradeStatus, NoVersion
  <2> QED BY <2>1, <2>2, <2>3
<1> QED BY <1>3, <1>4

FlagsOf(i) ==
    /\ i.kind = ins.kind /\ i.rollback = ins.rollback /\ i.ok = ins.ok
    /\ i.sysUpdate <=> ins.sysUpdate \/ (computer.svc = "boot" /\ ins.kind = "install")
    /\ ~Uninstalling /\ i.sysUpdate => ~i.unload
    /\ ~i.unload /\ computer.loaded # 0 => i.sysUpdate \/ ~computer.portable

\* The driver is not unloaded under an encrypted system, and a portable one is.
LEMMA FlagsTaken == ASSUME SuInv PROVE \E i \in InstallerStates : i = DriverFlags(ins) /\ FlagsOf(i)
<1>1. ins \in InstallerStates
  BY DEF SuInv, SuTypes
<1>2. PICK d \in InstallerStates :
              /\ d = DetermineUpgradeDowngradeStatus(ins) /\ d.kind = ins.kind /\ d.rollback = ins.rollback
              /\ d.sysUpdate = ins.sysUpdate /\ d.ok = ins.ok
              /\ computer.loaded # 0 => d.portable = computer.portable
  BY <1>1, StatusKept
<1>3. PICK sys \in BOOLEAN : sys = (d.sysUpdate \/ (computer.svc = "boot" /\ ins.kind = "install"))
  BY Zenon
<1>4. PICK p \in BOOLEAN : p = (d.portable /\ ~sys)
  BY Zenon
<1>5. PICK e \in InstallerStates :
        /\ e = [d EXCEPT !.sysUpdate = sys, !.portable = p] /\ e.sysUpdate = sys /\ e.portable = p
        /\ e.kind = d.kind /\ e.rollback = d.rollback /\ e.ok = d.ok /\ e.upgrade = d.upgrade /\ e.unload = d.unload
  <2> DEFINE e == [d EXCEPT !.sysUpdate = sys, !.portable = p]
  <2>1. e \in InstallerStates
    BY DEF InstallerStates
  <2>2. /\ e.sysUpdate = sys /\ e.portable = p
        /\ e.kind = d.kind /\ e.rollback = d.rollback /\ e.ok = d.ok /\ e.upgrade = d.upgrade /\ e.unload = d.unload
    BY DEF InstallerStates
  <2> QED BY <2>1, <2>2, Zenon
<1>6. PICK u \in BOOLEAN : u = IF ~Uninstalling /\ (e.upgrade \/ e.sysUpdate) THEN FALSE ELSE e.unload
  BY DEF InstallerStates
<1>7. PICK f \in InstallerStates :
        /\ f = [e EXCEPT !.unload = u] /\ f.unload = u /\ f.sysUpdate = sys /\ f.portable = p
        /\ f.kind = e.kind /\ f.rollback = e.rollback /\ f.ok = e.ok
  <2> DEFINE f == [e EXCEPT !.unload = u]
  <2>1. f \in InstallerStates
    BY DEF InstallerStates
  <2>2. /\ f.unload = u /\ f.sysUpdate = sys /\ f.portable = p
        /\ f.kind = e.kind /\ f.rollback = e.rollback /\ f.ok = e.ok
    BY <1>5 DEF InstallerStates
  <2> QED BY <2>1, <2>2, Zenon
<1>8. PICK v \in BOOLEAN : v = IF f.portable /\ ~f.sysUpdate THEN TRUE ELSE f.unload
  BY DEF InstallerStates
<1>9. PICK i \in InstallerStates :
        /\ i = [f EXCEPT !.unload = v] /\ i.unload = v /\ i.sysUpdate = sys
        /\ i.kind = f.kind /\ i.rollback = f.rollback /\ i.ok = f.ok
  <2> DEFINE i == [f EXCEPT !.unload = v]
  <2>1. i \in InstallerStates
    BY DEF InstallerStates
  <2>2. /\ i.unload = v /\ i.sysUpdate = sys
        /\ i.kind = f.kind /\ i.rollback = f.rollback /\ i.ok = f.ok
    BY <1>7 DEF InstallerStates
  <2> QED BY <2>1, <2>2, Zenon
<1>10. i = DriverFlags(ins)
  BY <1>2, <1>3, <1>4, <1>5, <1>6, <1>7, <1>8, <1>9, Zenon DEF DriverFlags
<1>11. FlagsOf(i)
  BY <1>2, <1>3, <1>4, <1>5, <1>6, <1>7, <1>8, <1>9 DEF FlagsOf
<1> QED BY <1>10, <1>11

\* A deleted service is gone, or marked while its driver runs, and has no filters.
LEMMA DeletedService ==
    ASSUME SuInv, computer' = ServiceDeleted
    PROVE  /\ computer' \in ComputerStates /\ KeptBut({"svc", "loaded", "portable", "filter"})
           /\ computer'.svc \in {"none", "marked"} /\ (computer'.svc = "none" => computer'.loaded = 0)
           /\ (computer'.portable => computer'.svc = "marked") /\ ~computer'.filter
<1>1. PICK p \in ComputerStates :
        /\ p = (IF computer.svc = "boot" THEN [computer EXCEPT !.filter = FALSE, !.dump = FALSE] ELSE computer)
        /\ ~p.filter /\ \A f \in ComputerFields \ {"filter"} : p[f] = computer[f]
  <2>1. CASE computer.svc = "boot"
    <3>1. [computer EXCEPT !.filter = FALSE, !.dump = FALSE] \in ComputerStates
      BY DEF SuInv, SuTypes, ComputerStates
    <3>2. /\ ~[computer EXCEPT !.filter = FALSE, !.dump = FALSE].filter
          /\ \A f \in ComputerFields \ {"filter"} : [computer EXCEPT !.filter = FALSE, !.dump = FALSE][f] = computer[f]
      BY DEF SuInv, SuTypes, ComputerStates, ComputerFields
    <3> QED BY <2>1, <3>1, <3>2
  <2>2. CASE computer.svc # "boot"
    BY <2>2 DEF SuInv, SuTypes, ComputerInv
  <2> QED BY <2>1, <2>2
<1>2. PICK runs \in BOOLEAN : runs = (p.loaded # NoVersion /\ (p.busy \/ ins.handle))
  BY Zenon
<1>3. PICK b \in BOOLEAN : b = (p.portable /\ runs)
  BY Zenon
<1>4. PICK s \in {"none", "system", "boot", "marked"}, n \in 0 .. 3 :
        s = (IF runs THEN "marked" ELSE "none") /\ n = IF runs THEN p.loaded ELSE 0
  BY DEF ComputerStates
<1>5. computer' = [p EXCEPT !.svc = s, !.loaded = n, !.portable = b]
  BY <1>1, <1>2, <1>3, <1>4, Zenon DEF ServiceDeleted, NoVersion
<1>6. computer' \in ComputerStates
  BY <1>5 DEF ComputerStates
<1>7. KeptBut({"svc", "loaded", "portable", "filter"})
  BY <1>1, <1>5 DEF ComputerStates, KeptBut, ComputerFields
<1>8. computer'.svc = s /\ computer'.loaded = n /\ computer'.portable = b /\ computer'.filter = p.filter
  BY <1>5 DEF ComputerStates
<1> QED BY <1>1, <1>3, <1>4, <1>6, <1>7, <1>8

\* A step that changes nothing of the computer and goes on.
LEMMA KeepStep ==
    ASSUME SuInv, UNCHANGED <<computer, before, suLog>>, SkipService \/ SelfExtractInMemory \/ SkipDriver
    PROVE  SuInv'
<1>1. \/ ins.at = "service" /\ ~ins.unload /\ ~Uninstalling /\ Moved("files") /\ ins'.ok = ins.ok
      \/ ins.at = "files" /\ ~Uninstalling /\ Moved("programs") /\ ins'.ok = ins.ok
      \/ ins.at = "files" /\ ~Uninstalling /\ Moved("finish") /\ ~ins'.ok
      \/ ins.at = "driver" /\ ~ins.unload /\ Moved("loader") /\ ins'.ok = ins.ok
  BY ThenMoves, FailMoves DEF SkipService, SelfExtractInMemory, SkipDriver, At, Fails, Failed, SuSteps
<1>2. SuTypes' /\ ComputerInv' /\ KindInv'
  BY <1>1 DEF SuInv, Moved, KeptBut, ComputerFields, Uninstalling, KindInv, SuTypes, ComputerInv, EncryptedInv, SuSteps
<1>3. EncryptedInv' /\ LoaderNotNewer'
  BY <1>1 DEF SuInv, Moved, KeptBut, ComputerFields, Uninstalling, KindInv, ComputerInv, EncryptedInv, LoaderNotNewer, Spoilt, This
<1>4. InstallInv'
  BY <1>1 DEF SuInv, Moved, KeptBut, ComputerFields, Uninstalling, KindInv, ComputerInv, InstallInv, Past, Spoilt, This
<1>5. RemovalInv'
  BY <1>1 DEF SuInv, Moved, KeptBut, ComputerFields, Uninstalling, KindInv, ComputerInv, RemovalInv, Gone
<1> QED BY <1>2, <1>3, <1>4, <1>5 DEF SuInv

\* The keys are written.
LEMMA RegStep ==
    ASSUME SuInv, DoRegInstall
    PROVE  SuInv'
<1>1. ins.at = "reg" /\ UNCHANGED <<before, suLog>>
  BY DEF DoRegInstall, At
<1>2. \/ Moved("driver") /\ ins'.ok = ins.ok /\ computer' = [computer EXCEPT !.reg = 2]
      \/ Moved("finish") /\ ~ins'.ok /\ computer' = computer
  BY <1>1, ThenMoves, FailMoves DEF DoRegInstall, Fails, Failed, SuSteps, SuInv, KindInv, This
<1>3. computer' \in ComputerStates /\ KeptBut({"reg"}) /\ (ins'.at = "driver" => computer'.reg = 2)
  BY <1>2 DEF SuInv, SuTypes, ComputerStates, KeptBut, ComputerFields, Moved
<1>4. SuTypes' /\ ComputerInv' /\ KindInv'
  BY <1>1, <1>2, <1>3 DEF SuInv, Moved, KeptBut, ComputerFields, Uninstalling, KindInv, SuTypes, ComputerInv, EncryptedInv, SuSteps
<1>5. EncryptedInv' /\ LoaderNotNewer'
  BY <1>1, <1>2, <1>3 DEF SuInv, Moved, KeptBut, ComputerFields, Uninstalling, KindInv, ComputerInv, EncryptedInv, LoaderNotNewer, Spoilt, This
<1>6. InstallInv'
  BY <1>1, <1>2, <1>3 DEF SuInv, Moved, KeptBut, ComputerFields, Uninstalling, KindInv, ComputerInv, InstallInv, Past, Spoilt, This
<1>7. RemovalInv'
  BY <1>1, <1>2, <1>3 DEF SuInv, Moved, KeptBut, ComputerFields, Uninstalling, KindInv, ComputerInv, RemovalInv, Gone
<1> QED BY <1>4, <1>5, <1>6, <1>7 DEF SuInv

\* The keys are removed before they are written anew, the dump filter is exchanged.
LEMMA DeprecatedStep ==
    ASSUME SuInv, RemoveDeprecated
    PROVE  SuInv'
<1>1. ins.at = "stop" /\ ~Uninstalling /\ UNCHANGED <<before, suLog>>
  BY DEF RemoveDeprecated, At
<1>2. \/ /\ Moved("service") /\ ins'.ok = ins.ok
         /\ computer' = [computer EXCEPT !.reg = IF ins.sysUpdate THEN @ ELSE NoVersion,
                                         !.dump = IF ins.sysUpdate /\ ins.installed = 1 THEN TRUE ELSE @]
      \/ Moved("failed") /\ ~ins'.ok /\ computer' = [computer EXCEPT !.dump = FALSE]
  BY <1>1, ThenMoves, FailMoves DEF RemoveDeprecated, Fails, SuSteps
<1>3. computer' \in ComputerStates /\ KeptBut({"reg"})
  <2>0. computer.reg \in 0 .. 3 /\ computer.dump \in BOOLEAN /\ NoVersion \in 0 .. 3
    BY DEF SuInv, SuTypes, ComputerStates, NoVersion
  <2>1. PICK n \in 0 .. 3, b \in BOOLEAN :
          /\ n = (IF ins.sysUpdate THEN computer.reg ELSE NoVersion)
          /\ b = (IF ins.sysUpdate /\ ins.installed = 1 THEN TRUE ELSE computer.dump)
    BY <2>0, Zenon
  <2>2. computer' = [computer EXCEPT !.reg = n, !.dump = b] \/ computer' = [computer EXCEPT !.dump = FALSE]
    BY <1>2, <2>1, Zenon
  <2> QED BY <2>2 DEF SuInv, SuTypes, ComputerStates, KeptBut, ComputerFields
<1>4. SuTypes' /\ ComputerInv' /\ KindInv'
  BY <1>1, <1>2, <1>3 DEF SuInv, Moved, KeptBut, ComputerFields, Uninstalling, KindInv, SuTypes, ComputerInv, EncryptedInv, SuSteps
<1>5. EncryptedInv' /\ LoaderNotNewer'
  BY <1>1, <1>2, <1>3 DEF SuInv, Moved, KeptBut, ComputerFields, Uninstalling, KindInv, ComputerInv, EncryptedInv, LoaderNotNewer, Spoilt, This
<1>6. InstallInv'
  BY <1>1, <1>2, <1>3 DEF SuInv, Moved, KeptBut, ComputerFields, Uninstalling, KindInv, ComputerInv, InstallInv, Past, Spoilt, This
<1>7. RemovalInv'
  BY <1>1, <1>2, <1>3 DEF SuInv, Moved, KeptBut, ComputerFields, Uninstalling, KindInv, ComputerInv, RemovalInv, Gone
<1> QED BY <1>4, <1>5, <1>6, <1>7 DEF SuInv

\* The programs are written.
LEMMA ProgramsStep ==
    ASSUME SuInv, InstallPrograms
    PROVE  SuInv'
<1>1. ins.at = "programs" /\ UNCHANGED before /\ suLog \subseteq suLog' /\ suLog' \subseteq suLog \cup {"ignored"}
  BY DEF InstallPrograms, FileWrite, At
<1>2. \/ Moved("driverOpen") /\ ins'.ok = ins.ok /\ computer' = [computer EXCEPT !.files = 2]
      \/ Moved("driverOpen") /\ ins'.ok = ins.ok /\ computer' = computer /\ "ignored" \in suLog'
      \/ Moved("finish") /\ ~ins'.ok /\ computer' = computer
  BY <1>1, ThenMoves, FailMoves DEF InstallPrograms, FileWrite, Fails, Failed, SuSteps, SuInv, KindInv, This
<1>3. computer' \in ComputerStates /\ KeptBut({"files"}) /\ (ins'.at = "driverOpen" => computer'.files = 2 \/ "ignored" \in suLog')
  BY <1>2 DEF SuInv, SuTypes, ComputerStates, KeptBut, ComputerFields, Moved
<1>4. SuTypes' /\ ComputerInv' /\ KindInv'
  BY <1>1, <1>2, <1>3 DEF SuInv, Moved, KeptBut, ComputerFields, Uninstalling, KindInv, SuTypes, ComputerInv, EncryptedInv, SuSteps
<1>5. EncryptedInv' /\ LoaderNotNewer'
  BY <1>1, <1>2, <1>3 DEF SuInv, Moved, KeptBut, ComputerFields, Uninstalling, KindInv, ComputerInv, EncryptedInv, LoaderNotNewer, Spoilt, This
<1>6. InstallInv'
  BY <1>1, <1>2, <1>3 DEF SuInv, Moved, KeptBut, ComputerFields, Uninstalling, KindInv, ComputerInv, InstallInv, Past, Spoilt, This
<1>7. RemovalInv'
  BY <1>1, <1>2, <1>3 DEF SuInv, Moved, KeptBut, ComputerFields, Uninstalling, KindInv, ComputerInv, RemovalInv, Gone
<1> QED BY <1>4, <1>5, <1>6, <1>7 DEF SuInv

\* The driver's file is created empty.
LEMMA OpenStep ==
    ASSUME SuInv, OpenDriverFile
    PROVE  SuInv'
<1>1. ins.at = "driverOpen" /\ UNCHANGED before /\ suLog \subseteq suLog' /\ suLog' \subseteq suLog \cup {"ignored"}
  BY DEF OpenDriverFile, FileWrite, At
<1>2. \/ Moved("driverWrite") /\ ins'.ok = ins.ok /\ computer' = [computer EXCEPT !.drvFile = 9]
      \/ Moved("driverWrite") /\ ins'.ok = ins.ok /\ computer' = computer /\ "ignored" \in suLog'
      \/ Moved("finish") /\ ~ins'.ok /\ computer' = computer
  BY <1>1, ThenMoves, FailMoves DEF OpenDriverFile, FileWrite, Fails, Failed, SuSteps, SuInv, KindInv
<1>3. /\ computer' \in ComputerStates /\ KeptBut({"drvFile"})
      /\ ins'.at = "driverWrite" => computer'.drvFile = 9 \/ "ignored" \in suLog'
      /\ ins'.at = "finish" => computer'.drvFile = computer.drvFile
  BY <1>2 DEF SuInv, SuTypes, ComputerStates, KeptBut, ComputerFields, Moved
<1>4. SuTypes' /\ ComputerInv' /\ KindInv'
  BY <1>1, <1>2, <1>3 DEF SuInv, Moved, KeptBut, ComputerFields, Uninstalling, KindInv, SuTypes, ComputerInv, EncryptedInv, SuSteps
<1>5. EncryptedInv' /\ LoaderNotNewer'
  BY <1>1, <1>2, <1>3 DEF SuInv, Moved, KeptBut, ComputerFields, Uninstalling, KindInv, ComputerInv, EncryptedInv, LoaderNotNewer, Spoilt, This
<1>6. InstallInv'
  BY <1>1, <1>2, <1>3 DEF SuInv, Moved, KeptBut, ComputerFields, Uninstalling, KindInv, ComputerInv, InstallInv, Past, Spoilt, This
<1>7. RemovalInv'
  BY <1>1, <1>2, <1>3 DEF SuInv, Moved, KeptBut, ComputerFields, Uninstalling, KindInv, ComputerInv, RemovalInv, Gone
<1> QED BY <1>4, <1>5, <1>6, <1>7 DEF SuInv

\* The driver's file is written.
LEMMA WriteFileStep ==
    ASSUME SuInv, WriteDriverFile
    PROVE  SuInv'
<1>1. ins.at = "driverWrite" /\ UNCHANGED before /\ suLog \subseteq suLog' /\ suLog' \subseteq suLog \cup {"ignored"}
  BY DEF WriteDriverFile, FileWrite, At
<1>2. \/ Moved("reg") /\ ins'.ok = ins.ok /\ computer' = [computer EXCEPT !.drvFile = 2]
      \/ Moved("reg") /\ ins'.ok = ins.ok /\ computer' = computer /\ ("ignored" \in suLog' \/ computer.drvFile # 9)
      \/ Moved("finish") /\ ~ins'.ok /\ computer' = computer
  BY <1>1, ThenMoves, FailMoves DEF WriteDriverFile, FileWrite, Fails, Failed, SuSteps, SuInv, KindInv, This
<1>3. /\ computer' \in ComputerStates /\ KeptBut({"drvFile"})
      /\ ins'.at = "reg" => computer'.drvFile = 2 \/ "ignored" \in suLog' \/ (computer.drvFile # 9 /\ computer'.drvFile = computer.drvFile)
      /\ ins'.at = "finish" => computer'.drvFile = computer.drvFile
  BY <1>2 DEF SuInv, SuTypes, ComputerStates, KeptBut, ComputerFields, Moved
<1>4. SuTypes' /\ ComputerInv' /\ KindInv'
  BY <1>1, <1>2, <1>3 DEF SuInv, Moved, KeptBut, ComputerFields, Uninstalling, KindInv, SuTypes, ComputerInv, EncryptedInv, SuSteps
<1>5. EncryptedInv' /\ LoaderNotNewer'
  BY <1>1, <1>2, <1>3 DEF SuInv, Moved, KeptBut, ComputerFields, Uninstalling, KindInv, ComputerInv, EncryptedInv, LoaderNotNewer, Spoilt, This, InstallInv, Past
<1>6. InstallInv'
  BY <1>1, <1>2, <1>3 DEF SuInv, Moved, KeptBut, ComputerFields, Uninstalling, KindInv, ComputerInv, InstallInv, Past, Spoilt, This
<1>7. RemovalInv'
  BY <1>1, <1>2, <1>3 DEF SuInv, Moved, KeptBut, ComputerFields, Uninstalling, KindInv, ComputerInv, RemovalInv, Gone
<1> QED BY <1>4, <1>5, <1>6, <1>7 DEF SuInv

\* The files are removed.
LEMMA RemoveFilesStep ==
    ASSUME SuInv, RemoveFiles
    PROVE  SuInv'
<1>1. ins.at = "files" /\ Uninstalling /\ UNCHANGED <<before, suLog>> /\ Moved("links") /\ ins'.ok = ins.ok
  BY ThenMoves DEF RemoveFiles, At, SuSteps
<1>2. /\ computer' \in ComputerStates /\ KeptBut({"drvFile", "reg", "files"}) /\ computer'.drvFile = 0 /\ computer'.reg = 0
      /\ ~ins.rollback => computer'.files = 0
  <2>1. PICK n \in 0 .. 3 : n = (IF ins.rollback /\ Migration THEN computer.files ELSE NoVersion)
    BY DEF SuInv, SuTypes, ComputerStates, NoVersion
  <2>5. PICK z \in 0 .. 3, y \in 0 .. 9 : z = 0 /\ y = 0
    OBVIOUS
  <2>2. computer' = [computer EXCEPT !.reg = z, !.files = n, !.drvFile = y]
    BY <2>1, <2>5 DEF RemoveFiles, NoVersion
  <2>3. computer' \in ComputerStates
    BY <2>2 DEF SuInv, SuTypes, ComputerStates
  <2>4. /\ KeptBut({"drvFile", "reg", "files"}) /\ computer'.drvFile = 0 /\ computer'.reg = 0
        /\ computer'.files = n
    BY <2>2, <2>5 DEF SuInv, SuTypes, ComputerStates, KeptBut, ComputerFields
  <2> QED BY <2>1, <2>3, <2>4 DEF NoVersion
<1>3. SuTypes' /\ ComputerInv' /\ KindInv'
  BY <1>1, <1>2 DEF SuInv, Moved, KeptBut, ComputerFields, Uninstalling, KindInv, SuTypes, ComputerInv, EncryptedInv, SuSteps
<1>4. EncryptedInv' /\ LoaderNotNewer'
  BY <1>1, <1>2 DEF SuInv, Moved, KeptBut, ComputerFields, Uninstalling, KindInv, ComputerInv, EncryptedInv, LoaderNotNewer, Spoilt, This
<1>5. InstallInv'
  BY <1>1, <1>2 DEF SuInv, Moved, KeptBut, ComputerFields, Uninstalling, KindInv, ComputerInv, InstallInv, Past, Spoilt, This
<1>6. RemovalInv'
  BY <1>1, <1>2 DEF SuInv, Moved, KeptBut, ComputerFields, Uninstalling, KindInv, ComputerInv, RemovalInv, Gone
<1> QED BY <1>3, <1>4, <1>5, <1>6 DEF SuInv

\* The boot loader is upgraded.
LEMMA LoaderStep ==
    ASSUME SuInv, UpgradeBootLoader
    PROVE  SuInv'
<1>1. ins.at = "loader" /\ UNCHANGED <<before, suLog>>
  BY DEF UpgradeBootLoader, At
<1>2. \/ Moved("links") /\ ins'.ok = ins.ok /\ (computer' = [computer EXCEPT !.loader = 2] \/ computer' = computer)
      \/ Moved("finish") /\ ~ins'.ok /\ computer' = computer
  BY <1>1, ThenMoves, FailMoves DEF UpgradeBootLoader, Fails, Failed, SuSteps, SuInv, KindInv, This
<1>3. computer' \in ComputerStates /\ KeptBut({"loader"}) /\ (ins'.at = "finish" => computer'.loader = computer.loader)
  BY <1>2 DEF SuInv, SuTypes, ComputerStates, KeptBut, ComputerFields, Moved
<1>4. SuTypes' /\ ComputerInv' /\ KindInv'
  BY <1>1, <1>2, <1>3 DEF SuInv, Moved, KeptBut, ComputerFields, Uninstalling, KindInv, SuTypes, ComputerInv, EncryptedInv, SuSteps
<1>5. EncryptedInv' /\ LoaderNotNewer'
  BY <1>1, <1>2, <1>3 DEF SuInv, Moved, KeptBut, ComputerFields, Uninstalling, KindInv, ComputerInv, EncryptedInv, LoaderNotNewer, Spoilt, This, InstallInv, Past
<1>6. InstallInv'
  BY <1>1, <1>2, <1>3 DEF SuInv, Moved, KeptBut, ComputerFields, Uninstalling, KindInv, ComputerInv, InstallInv, Past, Spoilt, This
<1>7. RemovalInv'
  BY <1>1, <1>2, <1>3 DEF SuInv, Moved, KeptBut, ComputerFields, Uninstalling, KindInv, ComputerInv, RemovalInv, Gone
<1> QED BY <1>4, <1>5, <1>6, <1>7 DEF SuInv

\* The shortcuts are made, and those of TrueCrypt removed.
LEMMA LinksStep ==
    ASSUME SuInv, DoShortcutsInstall \/ MigrateTrueCrypt
    PROVE  SuInv'
<1>1. UNCHANGED <<before, suLog>> /\ ~Uninstalling
  BY DEF DoShortcutsInstall, MigrateTrueCrypt, At, SuInv, KindInv
<1>2. \/ ins.at = "links" /\ Moved("migrate") /\ ins'.ok = ins.ok /\ computer' = [computer EXCEPT !.links = 2]
      \/ ins.at = "links" /\ Moved("finish") /\ ~ins'.ok /\ computer' = computer
      \/ /\ ins.at = "migrate" /\ Moved("finish") /\ ins'.ok = ins.ok
         /\ computer' = computer \/ computer' = [computer EXCEPT !.legacy = @ /\ ~Migration]
  BY <1>1, ThenMoves, FailMoves DEF DoShortcutsInstall, MigrateTrueCrypt, At, Fails, Failed, SuSteps, SuInv, KindInv, This
<1>3. /\ computer' \in ComputerStates /\ KeptBut({"links"}) /\ (ins.at = "migrate" => computer'.links = computer.links)
      /\ ins'.at = "migrate" => computer'.links = 2
  <2>1. PICK l \in BOOLEAN : l = (computer.legacy /\ ~Migration)
    BY Zenon
  <2>2. computer' = [computer EXCEPT !.legacy = @ /\ ~Migration] => computer' = [computer EXCEPT !.legacy = l]
    BY <2>1, Zenon
  <2> QED BY <1>2, <2>2 DEF SuInv, SuTypes, ComputerStates, KeptBut, ComputerFields, Moved
<1>4. SuTypes' /\ ComputerInv' /\ KindInv'
  BY <1>1, <1>2, <1>3 DEF SuInv, Moved, KeptBut, ComputerFields, Uninstalling, KindInv, SuTypes, ComputerInv, EncryptedInv, SuSteps
<1>5. EncryptedInv' /\ LoaderNotNewer'
  BY <1>1, <1>2, <1>3 DEF SuInv, Moved, KeptBut, ComputerFields, Uninstalling, KindInv, ComputerInv, EncryptedInv, LoaderNotNewer, Spoilt, This
<1>6. InstallInv'
  BY <1>1, <1>2, <1>3 DEF SuInv, Moved, KeptBut, ComputerFields, Uninstalling, KindInv, ComputerInv, InstallInv, Past, Spoilt, This
<1>7. RemovalInv'
  BY <1>1, <1>2, <1>3 DEF SuInv, Moved, KeptBut, ComputerFields, Uninstalling, KindInv, ComputerInv, RemovalInv, Gone
<1> QED BY <1>4, <1>5, <1>6, <1>7 DEF SuInv

\* The shortcuts and the settings are removed.
LEMMA UnlinkStep ==
    ASSUME SuInv, DoShortcutsUninstall \/ DoApplicationDataUninstall
    PROVE  SuInv'
<1>1. UNCHANGED <<before, suLog>> /\ Uninstalling
  BY DEF DoShortcutsUninstall, DoApplicationDataUninstall, At, SuInv, KindInv
<1>2. \/ ins.at = "links" /\ Moved("data") /\ ins'.ok = ins.ok /\ computer' = [computer EXCEPT !.links = 0]
      \/ ins.at = "links" /\ Moved("ended") /\ ~ins'.ok /\ computer' = computer
      \/ /\ ins.at = "data" /\ Moved("ended") /\ (ins'.ok = ins.ok \/ ~ins'.ok)
         /\ computer' = [computer EXCEPT !.data = FALSE]
  BY <1>1, ThenMoves, FailMoves DEF DoShortcutsUninstall, DoApplicationDataUninstall, At, Fails, SuSteps, NoVersion
<1>3. /\ computer' \in ComputerStates /\ KeptBut({"links", "data"}) /\ (ins.at = "data" => computer'.links = computer.links /\ ~computer'.data)
      /\ ins'.at = "data" => computer'.links = 0
  <2>1. computer' \in ComputerStates
    <3>1. CASE computer' = [computer EXCEPT !.data = FALSE]
      BY <3>1 DEF SuInv, SuTypes, ComputerStates
    <3>2. CASE computer' = [computer EXCEPT !.links = 0]
      BY <3>2 DEF SuInv, SuTypes, ComputerStates
    <3> QED BY <1>2, <3>1, <3>2 DEF SuInv, SuTypes
  <2>2. KeptBut({"links", "data"})
    BY <1>2 DEF SuInv, SuTypes, ComputerStates, KeptBut, ComputerFields
  <2> QED BY <1>2, <2>1, <2>2 DEF SuInv, SuTypes, ComputerStates, Moved
<1>4. SuTypes' /\ ComputerInv' /\ KindInv'
  BY <1>1, <1>2, <1>3 DEF SuInv, Moved, KeptBut, ComputerFields, Uninstalling, KindInv, SuTypes, ComputerInv, EncryptedInv, SuSteps
<1>5. EncryptedInv' /\ LoaderNotNewer'
  BY <1>1, <1>2, <1>3 DEF SuInv, Moved, KeptBut, ComputerFields, Uninstalling, KindInv, ComputerInv, EncryptedInv, LoaderNotNewer, Spoilt, This
<1>6. InstallInv'
  BY <1>1, <1>2, <1>3 DEF SuInv, Moved, KeptBut, ComputerFields, Uninstalling, KindInv, ComputerInv, InstallInv, Past, Spoilt, This
<1>7. RemovalInv'
  BY <1>1, <1>2, <1>3 DEF SuInv, Moved, KeptBut, ComputerFields, Uninstalling, KindInv, ComputerInv, RemovalInv, Gone
<1> QED BY <1>4, <1>5, <1>6, <1>7 DEF SuInv

\* A program that is open stops an upgrade.
LEMMA InUseStep ==
    ASSUME SuInv, IsFileInUse
    PROVE  SuInv'
<1>1. /\ ins.at = "inUse" /\ UNCHANGED <<computer, before, suLog>>
      /\ \/ ~Uninstalling /\ Moved("failed") /\ ~ins'.ok
         \/ Moved("stop") /\ ins'.ok = ins.ok
  BY ThenMoves, FailMoves DEF IsFileInUse, At, SuSteps
<1>2. SuTypes' /\ ComputerInv' /\ KindInv'
  BY <1>1 DEF SuInv, Moved, KeptBut, ComputerFields, Uninstalling, KindInv, SuTypes, ComputerInv, EncryptedInv, SuSteps
<1>3. EncryptedInv' /\ LoaderNotNewer'
  BY <1>1 DEF SuInv, Moved, KeptBut, ComputerFields, Uninstalling, KindInv, ComputerInv, EncryptedInv, LoaderNotNewer, Spoilt, This
<1>4. InstallInv'
  BY <1>1 DEF SuInv, Moved, KeptBut, ComputerFields, Uninstalling, KindInv, ComputerInv, InstallInv, Past, Spoilt, This
<1>5. RemovalInv'
  BY <1>1 DEF SuInv, Moved, KeptBut, ComputerFields, Uninstalling, KindInv, ComputerInv, RemovalInv, Gone
<1> QED BY <1>2, <1>3, <1>4, <1>5 DEF SuInv

\* The user opens and closes programs.
LEMMA ActivityStep ==
    ASSUME SuInv, UserActivity
    PROVE  SuInv'
<1>1. UNCHANGED <<ins, before, suLog>>
  BY DEF UserActivity
<1>2. computer' \in ComputerStates /\ KeptBut({})
  <2>1. PICK b \in BOOLEAN : b = ~computer.busy
    BY Zenon
  <2>2. computer' = [computer EXCEPT !.busy = b]
    BY <2>1, Zenon DEF UserActivity
  <2> QED BY <2>2 DEF SuInv, SuTypes, ComputerStates, KeptBut, ComputerFields
<1>3. SuTypes' /\ ComputerInv' /\ KindInv'
  BY <1>1, <1>2 DEF SuInv, Moved, KeptBut, ComputerFields, Uninstalling, KindInv, InstallerStates, SuTypes, ComputerInv, EncryptedInv, SuSteps
<1>4. EncryptedInv' /\ LoaderNotNewer'
  BY <1>1, <1>2 DEF SuInv, Moved, KeptBut, ComputerFields, Uninstalling, KindInv, InstallerStates, ComputerInv, EncryptedInv, LoaderNotNewer, Spoilt, This
<1>5. InstallInv'
  BY <1>1, <1>2 DEF SuInv, Moved, KeptBut, ComputerFields, Uninstalling, KindInv, InstallerStates, ComputerInv, InstallInv, Past, Spoilt, This
<1>6. RemovalInv'
  BY <1>1, <1>2 DEF SuInv, Moved, KeptBut, ComputerFields, Uninstalling, KindInv, InstallerStates, ComputerInv, RemovalInv, Gone
<1> QED BY <1>3, <1>4, <1>5, <1>6 DEF SuInv

\* The wizard is closed.
LEMMA CloseStep ==
    ASSUME SuInv, CloseWizard
    PROVE  SuInv'
<1>1. UNCHANGED <<computer, before, suLog>> /\ ins.at \in {"failed", "done"} /\ ins' = NoSetup
  BY DEF CloseWizard
<1>2. ins' \in InstallerStates /\ ins'.at = "off" /\ ins'.kind = "none" /\ ~ins'.rollback
  BY <1>1 DEF NoSetup, InstallerStates, SuSteps
<1>3. SuTypes' /\ ComputerInv' /\ KindInv'
  BY <1>1, <1>2 DEF SuInv, Moved, KeptBut, ComputerFields, Uninstalling, KindInv, SuTypes, ComputerInv, EncryptedInv, SuSteps
<1>4. EncryptedInv' /\ LoaderNotNewer'
  BY <1>1, <1>2 DEF SuInv, Moved, KeptBut, ComputerFields, Uninstalling, KindInv, ComputerInv, EncryptedInv, LoaderNotNewer, Spoilt, This
<1>5. InstallInv'
  BY <1>1, <1>2 DEF SuInv, Moved, KeptBut, ComputerFields, Uninstalling, KindInv, ComputerInv, InstallInv, Past, Spoilt, This
<1>6. RemovalInv'
  BY <1>1, <1>2 DEF SuInv, Moved, KeptBut, ComputerFields, Uninstalling, KindInv, ComputerInv, RemovalInv, Gone
<1> QED BY <1>3, <1>4, <1>5, <1>6 DEF SuInv

\* The computer stops and starts again.
LEMMA StopStep ==
    ASSUME SuInv, ComputerStops
    PROVE  SuInv'
<1>1. /\ UNCHANGED before /\ ins' = NoSetup /\ suLog \subseteq suLog'
      /\ Starts \/ ins.at = "off"
  BY DEF ComputerStops
<1>2. ins' \in InstallerStates /\ ins'.at = "off" /\ ins'.kind = "none" /\ ~ins'.rollback
  BY <1>1 DEF NoSetup, InstallerStates, SuSteps
<1>3. /\ computer' \in ComputerStates /\ KeptBut({"svc", "portable", "loaded"}) /\ ~computer'.portable
      /\ computer'.svc = (IF computer.svc = "marked" THEN "none" ELSE computer.svc)
      /\ computer'.loaded = (IF computer'.svc # "none" /\ computer.drvFile \in 1 .. 3 THEN computer.drvFile ELSE 0)
  <2>1. PICK s \in {"none", "system", "boot", "marked"} : s = IF computer.svc = "marked" THEN "none" ELSE computer.svc
    BY DEF SuInv, SuTypes, ComputerStates
  <2>2. PICK n \in 0 .. 3 : n = IF s # "none" /\ computer.drvFile \in 1 .. 3 THEN computer.drvFile ELSE 0
    BY DEF SuInv, SuTypes, ComputerStates
  <2>3. computer' = [computer EXCEPT !.svc = s, !.portable = FALSE, !.busy = FALSE, !.loaded = n]
    BY <2>1, <2>2 DEF ComputerStops, NoVersion
  <2>4. computer' \in ComputerStates
    BY <2>3 DEF SuInv, SuTypes, ComputerStates
  <2>5. KeptBut({"svc", "portable", "loaded"}) /\ ~computer'.portable /\ computer'.svc = s /\ computer'.loaded = n
    BY <2>3 DEF SuInv, SuTypes, ComputerStates, KeptBut, ComputerFields
  <2> QED BY <2>1, <2>2, <2>4, <2>5
<1>4. SuTypes' /\ ComputerInv' /\ KindInv'
  BY <1>1, <1>2, <1>3 DEF SuInv, Moved, KeptBut, ComputerFields, Uninstalling, KindInv, Starts, SuTypes, ComputerInv, EncryptedInv, SuSteps
<1>5. EncryptedInv' /\ LoaderNotNewer'
  BY <1>1, <1>2, <1>3 DEF SuInv, Moved, KeptBut, ComputerFields, Uninstalling, KindInv, Starts, ComputerInv, EncryptedInv, LoaderNotNewer, Spoilt, This
<1>6. InstallInv'
  BY <1>1, <1>2, <1>3 DEF SuInv, Moved, KeptBut, ComputerFields, Uninstalling, KindInv, Starts, ComputerInv, InstallInv, Past, Spoilt, This
<1>7. RemovalInv'
  BY <1>1, <1>2, <1>3 DEF SuInv, Moved, KeptBut, ComputerFields, Uninstalling, KindInv, Starts, ComputerInv, RemovalInv, Gone
<1> QED BY <1>4, <1>5, <1>6, <1>7 DEF SuInv

\* The installer is started.
LEMMA StartInstallerStep ==
    ASSUME SuInv, NEW kind \in {"install", "uninstall"}, StartWizard(kind)
    PROVE  SuInv'
<1>1. /\ ins.at = "off" /\ Starts /\ before' = computer /\ UNCHANGED <<computer, suLog>>
      /\ \/ ins' = [DetermineUpgradeDowngradeStatus(NoSetup) EXCEPT !.at = "unload", !.kind = kind]
         \/ ins' = [NoSetup EXCEPT !.at = "unload", !.kind = kind]
  BY DEF StartWizard
<1>2. /\ ins' \in InstallerStates /\ ins'.at = "unload" /\ ins'.kind = kind /\ ~ins'.rollback
      /\ ~ins'.sysUpdate /\ ins'.unload
  <2>1. PICK i \in InstallerStates : i = NoSetup /\ ~i.rollback /\ ~i.sysUpdate /\ i.unload
    <3>1. NoSetup \in InstallerStates
      BY DEF NoSetup, InstallerStates, SuSteps
    <3>2. ~NoSetup.rollback /\ ~NoSetup.sysUpdate /\ NoSetup.unload
      BY DEF NoSetup
    <3> QED BY <3>1, <3>2, Zenon
  <2>5. PICK k \in InstallerStates : k = DetermineUpgradeDowngradeStatus(i) /\ ~k.rollback /\ ~k.sysUpdate /\ k.unload
    BY <2>1, StatusKept
  <2>2. PICK j \in InstallerStates : ins' = [j EXCEPT !.at = "unload", !.kind = kind] /\ ~j.rollback /\ ~j.sysUpdate /\ j.unload
    BY <1>1, <2>1, <2>5, Zenon
  <2>3. ins' \in InstallerStates
    BY <2>2 DEF InstallerStates, SuSteps
  <2>4. ins'.at = "unload" /\ ins'.kind = kind /\ ~ins'.rollback /\ ~ins'.sysUpdate /\ ins'.unload
    BY <2>2 DEF InstallerStates
  <2> QED BY <2>3, <2>4
<1>3. SuTypes' /\ ComputerInv' /\ KindInv'
  BY <1>1, <1>2 DEF SuInv, Moved, KeptBut, ComputerFields, Uninstalling, KindInv, Starts, SuTypes, ComputerInv, EncryptedInv, SuSteps
<1>4. EncryptedInv' /\ LoaderNotNewer'
  BY <1>1, <1>2 DEF SuInv, Moved, KeptBut, ComputerFields, Uninstalling, KindInv, Starts, ComputerInv, EncryptedInv, LoaderNotNewer, Spoilt, This
<1>5. InstallInv'
  BY <1>1, <1>2 DEF SuInv, Moved, KeptBut, ComputerFields, Uninstalling, KindInv, Starts, ComputerInv, InstallInv, Past, Spoilt, This
<1>6. RemovalInv'
  BY <1>1, <1>2 DEF SuInv, Moved, KeptBut, ComputerFields, Uninstalling, KindInv, Starts, ComputerInv, RemovalInv, Gone
<1> QED BY <1>3, <1>4, <1>5, <1>6 DEF SuInv

\* The driver is asked, and its flags are taken.
LEMMA UnloadStep ==
    ASSUME SuInv, DoDriverUnload
    PROVE  SuInv'
<1>1. ins.at = "unload" /\ UNCHANGED <<before, suLog>>
  BY DEF DoDriverUnload, At
<1>2. PICK i \in InstallerStates : /\ i = DriverFlags(ins) /\ FlagsOf(i)
  BY <1>1, FlagsTaken
<1>3. \/ computer.loaded = 0 /\ Moved("stop") /\ ins'.ok = ins.ok /\ computer' = computer
      \/ ~Uninstalling /\ Moved("failed") /\ ~ins'.ok /\ computer' = computer
      \/ Uninstalling /\ Moved("ended") /\ ~ins'.ok /\ computer' = computer
      \/ /\ computer.loaded # 0 /\ ~SystemRefuses /\ ins' = [i EXCEPT !.at = "inUse", !.handle = ~i.unload]
         /\ \/ computer' = computer /\ ~(ins.kind = "uninstall" /\ computer.svc = "boot")
            \/ /\ ins.kind = "uninstall" /\ computer.svc = "boot"
               /\ computer' = [computer EXCEPT !.filter = FALSE, !.dump = FALSE, !.svc = "system"]
  BY <1>1, <1>2, ThenMoves, FailMoves DEF DoDriverUnload, SuSteps, NoVersion
<1>4. /\ computer' \in ComputerStates /\ KeptBut({"filter", "svc"})
      /\ \/ computer'.filter = computer.filter /\ computer'.svc = computer.svc
         \/ ~computer'.filter /\ computer'.svc = "system" /\ ins.kind = "uninstall" /\ computer.svc = "boot"
  <2>1. computer' \in ComputerStates
    <3>1. CASE computer' = [computer EXCEPT !.filter = FALSE, !.dump = FALSE, !.svc = "system"]
      BY <3>1 DEF SuInv, SuTypes, ComputerStates
    <3> QED BY <1>3, <3>1 DEF SuInv, SuTypes
  <2> QED BY <1>3, <2>1 DEF SuInv, SuTypes, ComputerStates, KeptBut, ComputerFields
<1>5. ins' = [i EXCEPT !.at = "inUse", !.handle = ~i.unload] =>
        /\ ins' \in InstallerStates /\ ins'.at = "inUse" /\ ins'.ok = ins.ok /\ ins'.kind = ins.kind
        /\ ins'.rollback = ins.rollback /\ ins'.sysUpdate = i.sysUpdate /\ ins'.unload = i.unload
  <2>1. PICK b \in BOOLEAN : b = ~i.unload
    BY Zenon
  <2>2. ASSUME ins' = [i EXCEPT !.at = "inUse", !.handle = b]
        PROVE  /\ ins' \in InstallerStates /\ ins'.at = "inUse" /\ ins'.ok = i.ok /\ ins'.kind = i.kind
               /\ ins'.rollback = i.rollback /\ ins'.sysUpdate = i.sysUpdate /\ ins'.unload = i.unload
    BY <2>2 DEF InstallerStates, SuSteps
  <2> QED BY <1>2, <2>1, <2>2 DEF FlagsOf
<1>6. SuTypes' /\ ComputerInv' /\ KindInv'
  BY <1>1, <1>2, <1>3, <1>4, <1>5 DEF SuInv, Moved, KeptBut, ComputerFields, Uninstalling, KindInv, FlagsOf, SystemRefuses, SuTypes, ComputerInv, EncryptedInv, SuSteps
<1>7. EncryptedInv' /\ LoaderNotNewer'
  BY <1>1, <1>2, <1>3, <1>4, <1>5 DEF SuInv, Moved, KeptBut, ComputerFields, Uninstalling, KindInv, FlagsOf, SystemRefuses, ComputerInv, EncryptedInv, LoaderNotNewer, Spoilt, This
<1>8. InstallInv'
  <2>1. CASE ins'.at = "inUse" /\ ins' \in InstallerStates /\ ~ins'.unload /\ ~Uninstalling'
    <3>1. computer.loaded # 0 /\ ins'.sysUpdate = i.sysUpdate /\ ~i.unload /\ ins.kind = "install" /\ ~ins.rollback
      BY <1>1, <1>3, <1>5, <2>1 DEF Moved, Uninstalling, SuInv, KindInv
    <3>2. computer'.svc = computer.svc
      BY <1>4, <3>1
    <3>3. computer.svc \in {"system", "boot", "marked"}
      BY <3>1 DEF SuInv, SuTypes, ComputerStates, ComputerInv
    <3>4. computer.svc = "marked" => before.svc = "marked" /\ ~before.portable
      BY <1>1, <1>2, <3>1 DEF SuInv, KindInv, FlagsOf
    <3> QED BY <1>1, <2>1, <3>2, <3>3, <3>4 DEF InstallInv, Past
  <2>2. CASE ins'.at = "stop" /\ ins'.unload
    BY <2>2 DEF InstallInv, Past
  <2>3. CASE ins'.at = "inUse" /\ (ins'.unload \/ Uninstalling')
    BY <2>3 DEF InstallInv, Past
  <2>4. CASE ins'.at \in {"failed", "ended"}
    BY <2>4 DEF InstallInv, Past
  <2>5. CASE ins'.at = "stop" /\ ins.rollback
    <3>1. Uninstalling'
      BY <1>3, <1>5, <2>5 DEF Uninstalling, Moved
    <3> QED BY <2>5, <3>1 DEF InstallInv, Past
  <2>6. ins'.at = "stop" \/ (ins'.at = "inUse" /\ ins' \in InstallerStates) \/ ins'.at \in {"failed", "ended"}
    BY <1>3, <1>5 DEF Moved
  <2>7. ASSUME ins'.at = "stop" PROVE ins'.unload \/ ins.rollback
    BY <1>1, <1>3, <1>5, <2>7 DEF Moved, SuInv, KindInv
  <2> QED BY <2>1, <2>2, <2>3, <2>4, <2>5, <2>6, <2>7
<1>9. RemovalInv'
  BY <1>1, <1>2, <1>3, <1>4, <1>5 DEF SuInv, Moved, KeptBut, ComputerFields, Uninstalling, KindInv, FlagsOf, SystemRefuses, ComputerInv, RemovalInv, Gone
<1> QED BY <1>6, <1>7, <1>8, <1>9 DEF SuInv

\* The service is deleted.
LEMMA ServiceStep ==
    ASSUME SuInv, DoServiceUninstall
    PROVE  SuInv'
<1>1. /\ UNCHANGED <<before, suLog>> /\ ~computer.sysEnc
      /\ (ins.at = "service" /\ ins.unload /\ ~Uninstalling) \/ (ins.at = "stop" /\ Uninstalling)
  BY DEF DoServiceUninstall, At, SuInv, KindInv, EncryptedInv, Uninstalling
<1>2. \/ Moved("files") /\ ins'.ok = ins.ok /\ computer' = (IF computer.svc = "none" THEN computer ELSE ServiceDeleted)
      \/ Moved("finish") /\ ~ins'.ok /\ computer' = computer /\ ~Uninstalling
      \/ Moved("ended") /\ ~ins'.ok /\ computer' = computer /\ Uninstalling
  BY ThenMoves, FailMoves DEF DoServiceUninstall, Fails, Failed, SuSteps
<1>3. /\ computer' \in ComputerStates /\ KeptBut({"svc", "loaded", "portable", "filter"})
      /\ \/ computer' = computer /\ (computer.svc = "none" \/ (ins'.at # "files" /\ ~ins'.ok))
         \/ /\ computer'.svc \in {"none", "marked"} /\ (computer'.svc = "none" => computer'.loaded = 0)
            /\ computer'.portable => computer'.svc = "marked"
            /\ ~computer'.filter
  <2>1. CASE computer' = computer /\ (computer.svc = "none" \/ (ins'.at # "files" /\ ~ins'.ok))
    BY <2>1 DEF SuInv, SuTypes, KeptBut
  <2>2. CASE computer' = ServiceDeleted
    BY <2>2, DeletedService
  <2> QED BY <1>2, <2>1, <2>2 DEF Moved
<1>4. SuTypes' /\ ComputerInv' /\ KindInv'
  BY <1>1, <1>2, <1>3 DEF SuInv, Moved, KeptBut, ComputerFields, Uninstalling, KindInv, SuTypes, ComputerInv, EncryptedInv, SuSteps
<1>5. EncryptedInv' /\ LoaderNotNewer'
  BY <1>1, <1>2, <1>3 DEF SuInv, Moved, KeptBut, ComputerFields, Uninstalling, KindInv, ComputerInv, EncryptedInv, LoaderNotNewer, Spoilt, This
<1>6. InstallInv'
  BY <1>1, <1>2, <1>3 DEF SuInv, Moved, KeptBut, ComputerFields, Uninstalling, KindInv, ComputerInv, InstallInv, Past, Spoilt, This
<1>7. RemovalInv'
  BY <1>1, <1>2, <1>3 DEF SuInv, Moved, KeptBut, ComputerFields, Uninstalling, KindInv, ComputerInv, RemovalInv, Gone
<1> QED BY <1>4, <1>5, <1>6, <1>7 DEF SuInv

\* The service is created and the driver started.
LEMMA InstallDriverStep ==
    ASSUME SuInv, DoDriverInstall
    PROVE  SuInv'
<1>1. /\ UNCHANGED <<before, suLog>> /\ ins.at = "driver" /\ ins.unload /\ ~computer.sysEnc /\ ~Uninstalling
  BY DEF DoDriverInstall, At, SuInv, KindInv, EncryptedInv
<1>2. \/ /\ Moved("loader") /\ ins'.ok = ins.ok /\ computer.svc = "none" /\ computer.drvFile \in 1 .. 3
         /\ computer' = [computer EXCEPT !.svc = "system", !.loaded = computer.drvFile]
      \/ /\ Moved("finish") /\ ~ins'.ok
         /\ computer' = computer \/ (computer.svc = "none" /\ computer' = [computer EXCEPT !.svc = "system"])
  BY <1>1, ThenMoves, FailMoves DEF DoDriverInstall, Fails, Failed, SuSteps
<1>3. /\ computer' \in ComputerStates /\ KeptBut({"svc", "loaded"})
      /\ \/ computer'.svc = computer.svc /\ computer'.loaded = computer.loaded /\ ins'.at = "finish"
         \/ computer.svc = "none" /\ computer'.svc = "system" /\ (ins'.at = "loader" => computer'.loaded = computer.drvFile)
  <2>1. CASE computer' = computer /\ ins'.at = "finish"
    BY <2>1 DEF SuInv, SuTypes, KeptBut
  <2>2. CASE computer' = [computer EXCEPT !.svc = "system"] /\ ins'.at = "finish" /\ computer.svc = "none"
    BY <2>2 DEF SuInv, SuTypes, ComputerStates, KeptBut, ComputerFields
  <2>3. CASE /\ computer.svc = "none" /\ computer.drvFile \in 1 .. 3
             /\ computer' = [computer EXCEPT !.svc = "system", !.loaded = computer.drvFile]
    <3>1. PICK n \in 0 .. 3 : n = computer.drvFile
      BY <2>3
    <3>2. computer' = [computer EXCEPT !.svc = "system", !.loaded = n]
      BY <2>3, <3>1
    <3>3. computer' \in ComputerStates
      BY <3>2 DEF SuInv, SuTypes, ComputerStates
    <3> QED BY <2>3, <3>1, <3>2, <3>3 DEF SuInv, SuTypes, ComputerStates, KeptBut, ComputerFields
  <2> QED BY <1>2, <2>1, <2>2, <2>3 DEF Moved
<1>4. SuTypes' /\ ComputerInv' /\ KindInv'
  BY <1>1, <1>2, <1>3 DEF SuInv, Moved, KeptBut, ComputerFields, Uninstalling, KindInv, SuTypes, ComputerInv, EncryptedInv, SuSteps
<1>5. EncryptedInv' /\ LoaderNotNewer'
  BY <1>1, <1>2, <1>3 DEF SuInv, Moved, KeptBut, ComputerFields, Uninstalling, KindInv, ComputerInv, EncryptedInv, LoaderNotNewer, Spoilt, This
<1>6. InstallInv'
  <2>1. CASE ins'.at = "finish" /\ ~ins'.ok
    BY <2>1 DEF InstallInv, Past
  <2>2. CASE ins'.at = "loader" /\ Moved("loader")
    <3>1. computer'.svc = "system" /\ computer'.loaded = computer.drvFile
      BY <1>3, <2>2
    <3>2. /\ computer.files = This \/ Spoilt
          /\ computer.drvFile = This \/ Spoilt
          /\ computer.reg = This
      BY <1>1 DEF SuInv, InstallInv, Past
    <3>3. computer'.files = computer.files /\ computer'.drvFile = computer.drvFile /\ computer'.reg = computer.reg
      BY <1>3 DEF KeptBut, ComputerFields
    <3> QED BY <1>1, <2>2, <3>1, <3>2, <3>3 DEF InstallInv, Past, Spoilt, Moved
  <2> QED BY <1>2, <2>1, <2>2 DEF Moved
<1>7. RemovalInv'
  BY <1>1, <1>2, <1>3 DEF SuInv, Moved, KeptBut, ComputerFields, Uninstalling, KindInv, ComputerInv, RemovalInv, Gone
<1> QED BY <1>4, <1>5, <1>6, <1>7 DEF SuInv

\* The installation ends: done, failed or rolled back.
LEMMA FinishStep ==
    ASSUME SuInv, FinishInstall
    PROVE  SuInv'
<1>1. /\ UNCHANGED <<computer, before>> /\ suLog \subseteq suLog' /\ suLog' \subseteq suLog \cup {"warned"} /\ ins.at = "finish" /\ ~Uninstalling
  BY DEF FinishInstall, At, SuInv, KindInv
<1>2. /\ ins' \in InstallerStates /\ ins'.kind = ins.kind /\ ins'.unload = ins.unload /\ (ins.unload \/ ins'.restart)
      /\ \/ ins.ok /\ ins'.at = "done" /\ ~ins'.rollback
         \/ ~ins.ok /\ ins.sysUpdate /\ ins'.at = "failed" /\ ~ins'.rollback /\ "warned" \in suLog'
         \/ ~ins.ok /\ ~ins.sysUpdate /\ ins'.at = "unload" /\ ins'.rollback
  <2>0. ins \in InstallerStates /\ ~ins.rollback
    BY <1>1 DEF SuInv, SuTypes, Uninstalling
  <2>1. PICK b \in BOOLEAN : b = (ins.restart \/ ~ins.unload)
    BY Zenon
  <2>2. PICK i \in InstallerStates :
          /\ i = [ins EXCEPT !.restart = b] /\ i.kind = ins.kind /\ i.unload = ins.unload /\ (ins.unload \/ i.restart) /\ ~i.rollback
    <3> DEFINE i == [ins EXCEPT !.restart = b]
    <3>1. i \in InstallerStates
      BY <2>0 DEF InstallerStates
    <3>2. i.kind = ins.kind /\ i.unload = ins.unload /\ (ins.unload \/ i.restart) /\ ~i.rollback
      BY <2>0, <2>1 DEF InstallerStates
    <3> QED BY <3>1, <3>2, Zenon
  <2>3. i = [ins EXCEPT !.restart = @ \/ ~ins.unload]
    BY <2>1, <2>2, Zenon
  <2>4. \/ ins.ok /\ ins' = [i EXCEPT !.at = "done"]
        \/ ~ins.ok /\ ins.sysUpdate /\ ins' = [i EXCEPT !.at = "failed"] /\ "warned" \in suLog'
        \/ ~ins.ok /\ ~ins.sysUpdate /\ ins' = [i EXCEPT !.rollback = TRUE, !.at = "unload"]
    BY <2>3 DEF FinishInstall
  <2>5. CASE ins' = [i EXCEPT !.at = "done"] /\ ins.ok
    <3>1. ins' \in InstallerStates
      BY <2>5 DEF InstallerStates, SuSteps
    <3>2. ins'.kind = i.kind /\ ins'.unload = i.unload /\ ins'.restart = i.restart /\ ins'.at = "done" /\ ~ins'.rollback
      BY <2>2, <2>5 DEF InstallerStates
    <3> QED BY <2>2, <2>5, <3>1, <3>2
  <2>6. CASE ins' = [i EXCEPT !.at = "failed"] /\ ~ins.ok /\ ins.sysUpdate /\ "warned" \in suLog'
    <3>1. ins' \in InstallerStates
      BY <2>6 DEF InstallerStates, SuSteps
    <3>2. ins'.kind = i.kind /\ ins'.unload = i.unload /\ ins'.restart = i.restart /\ ins'.at = "failed" /\ ~ins'.rollback
      BY <2>2, <2>6 DEF InstallerStates
    <3> QED BY <2>2, <2>6, <3>1, <3>2
  <2>7. CASE ins' = [i EXCEPT !.rollback = TRUE, !.at = "unload"] /\ ~ins.ok /\ ~ins.sysUpdate
    <3>1. ins' \in InstallerStates
      BY <2>7 DEF InstallerStates, SuSteps
    <3>2. ins'.kind = i.kind /\ ins'.unload = i.unload /\ ins'.restart = i.restart /\ ins'.at = "unload" /\ ins'.rollback
      BY <2>2, <2>7 DEF InstallerStates
    <3> QED BY <2>2, <2>7, <3>1, <3>2
  <2> QED BY <2>4, <2>5, <2>6, <2>7
<1>3. SuTypes' /\ ComputerInv' /\ KindInv'
  BY <1>1, <1>2 DEF SuInv, Moved, KeptBut, ComputerFields, Uninstalling, KindInv, SuTypes, ComputerInv, EncryptedInv, SuSteps
<1>4. EncryptedInv' /\ LoaderNotNewer'
  BY <1>1, <1>2 DEF SuInv, Moved, KeptBut, ComputerFields, Uninstalling, KindInv, ComputerInv, EncryptedInv, LoaderNotNewer, Spoilt, This
<1>5. InstallInv'
  BY <1>1, <1>2 DEF SuInv, Moved, KeptBut, ComputerFields, Uninstalling, KindInv, ComputerInv, InstallInv, Past, Spoilt, This
<1>6. RemovalInv'
  BY <1>1, <1>2 DEF SuInv, Moved, KeptBut, ComputerFields, Uninstalling, KindInv, ComputerInv, RemovalInv, Gone
<1> QED BY <1>3, <1>4, <1>5, <1>6 DEF SuInv

\* The removal or roll-back ends.
LEMMA FinishRemovalStep ==
    ASSUME SuInv, FinishUninstall
    PROVE  SuInv'
<1>1. /\ UNCHANGED <<computer, before>> /\ suLog \subseteq suLog' /\ suLog' \subseteq suLog \cup {"rolledBack"} /\ ins.at = "ended" /\ Uninstalling
  BY DEF FinishUninstall, At, SuInv, KindInv
<1>2. /\ ins' \in InstallerStates /\ ins'.kind = ins.kind /\ ins'.rollback = ins.rollback
      /\ ins'.at \in {"failed", "done"} /\ (ins'.at = "done" => ins.ok /\ ~ins.rollback)
  <2>1. PICK s \in SuSteps : s = (IF ins.rollback \/ ~ins.ok THEN "failed" ELSE "done") /\ s \in {"failed", "done"}
    BY DEF SuSteps
  <2>2. ins' = [ins EXCEPT !.at = s]
    BY <2>1 DEF FinishUninstall
  <2> QED BY <2>1, <2>2 DEF SuInv, SuTypes, InstallerStates
<1>3. SuTypes' /\ ComputerInv' /\ KindInv'
  BY <1>1, <1>2 DEF SuInv, Moved, KeptBut, ComputerFields, Uninstalling, KindInv, SuTypes, ComputerInv, EncryptedInv, SuSteps
<1>4. EncryptedInv' /\ LoaderNotNewer'
  BY <1>1, <1>2 DEF SuInv, Moved, KeptBut, ComputerFields, Uninstalling, KindInv, ComputerInv, EncryptedInv, LoaderNotNewer, Spoilt, This
<1>5. InstallInv'
  BY <1>1, <1>2 DEF SuInv, Moved, KeptBut, ComputerFields, Uninstalling, KindInv, ComputerInv, InstallInv, Past, Spoilt, This
<1>6. RemovalInv'
  BY <1>1, <1>2 DEF SuInv, Moved, KeptBut, ComputerFields, Uninstalling, KindInv, ComputerInv, RemovalInv, Gone
<1> QED BY <1>3, <1>4, <1>5, <1>6 DEF SuInv

\* Every step of the installer keeps the invariant.
LEMMA SuInvStep == SuInv /\ [SuNext]_suVars => SuInv'
<1> SUFFICES ASSUME SuInv, [SuNext]_suVars PROVE SuInv'
  OBVIOUS
<1>1. CASE UserActivity \/ ComputerStops \/ CloseWizard
  BY <1>1, ActivityStep, StopStep, CloseStep
<1>2. CASE \E k \in {"install", "uninstall"} : StartWizard(k)
  BY <1>2, StartInstallerStep
<1>3. CASE DoDriverUnload \/ IsFileInUse \/ RemoveDeprecated \/ DoServiceUninstall
  BY <1>3, UnloadStep, InUseStep, DeprecatedStep, ServiceStep
<1>4. CASE SkipService \/ SelfExtractInMemory \/ SkipDriver
  <2>1. UNCHANGED <<computer, before, suLog>>
    BY <1>4 DEF SkipService, SelfExtractInMemory, SkipDriver
  <2> QED BY <1>4, <2>1, KeepStep
<1>5. CASE InstallPrograms \/ OpenDriverFile \/ WriteDriverFile \/ RemoveFiles
  BY <1>5, ProgramsStep, OpenStep, WriteFileStep, RemoveFilesStep
<1>6. CASE DoRegInstall \/ DoDriverInstall \/ UpgradeBootLoader
  BY <1>6, RegStep, InstallDriverStep, LoaderStep
<1>7. CASE DoShortcutsInstall \/ MigrateTrueCrypt \/ DoShortcutsUninstall \/ DoApplicationDataUninstall
  BY <1>7, LinksStep, UnlinkStep
<1>8. CASE FinishInstall \/ FinishUninstall
  BY <1>8, FinishStep, FinishRemovalStep
<1>9. CASE UNCHANGED suVars
  <2>1. UNCHANGED <<computer, ins, before, suLog>>
    BY <1>9 DEF suVars
  <2>2. SuTypes' /\ ComputerInv' /\ KindInv'
    BY <2>1 DEF SuInv, SuTypes, ComputerInv, KindInv, Uninstalling
  <2>3. EncryptedInv' /\ InstallInv' /\ RemovalInv' /\ LoaderNotNewer'
    BY <2>1 DEF SuInv, EncryptedInv, InstallInv, Past, Uninstalling, Spoilt, RemovalInv, Gone, LoaderNotNewer
  <2> QED BY <2>2, <2>3 DEF SuInv
<1> QED BY <1>1, <1>2, <1>3, <1>4, <1>5, <1>6, <1>7, <1>8, <1>9 DEF SuNext

(* Whatever fails and wherever the computer stops, for any number of installations and
   faults: an encrypted system keeps the driver it boots with, the loader is not newer
   than the driver, and what is reported as installed or removed is so. *)
THEOREM InstallerIsSound == SuSpec => []SetupSound
<1> QED BY SuInvInit, SuInvStep, SuInvSound, PTL DEF SuSpec

-----------------------------------------------------------------------------
(***************************************************************************)
(* The volume creation wizard.                                             *)
(***************************************************************************)
PageNames ==
    {"INTRO", "SYSENC_TYPE", "HIDDEN_OS_REQ_CHECK", "SYSENC_SPAN", "PRE_DRIVE_ANALYSIS",
     "DRIVE_ANALYSIS", "MULTI_BOOT_MODE", "SYS_EQ_BOOT", "NBR_SYS_DRIVES", "ADJACENT_SYS",
     "NONWIN_BOOT_LOADER", "MULTI_BOOT_OUTCOME", "VOLUME_TYPE", "HIDDEN_VOL_WIZARD_MODE",
     "VOLUME_LOCATION", "DEVICE_TRANSFORM_MODE", "HOST_PRE_CIPHER", "HIDDEN_PRE_CIPHER", "CIPHER",
     "SIZE", "HOST_PASSWORD", "PASSWORD", "FILESYS", "COLLECTING_RANDOM_DATA", "KEYS_GEN",
     "RESCUE_CREATION", "RESCUE_BURN", "RESCUE_VERIFIED", "SYSENC_WIPE_MODE", "PRETEST_INFO",
     "INPLACE_RAND_DATA", "INPLACE_WIPE_MODE", "INPLACE_ENCRYPTION", "INPLACE_FINISHED",
     "FORMAT", "FORMAT_FINISHED", "END"}
\* The pages that belong to system encryption, and those that belong to other volumes.
SysEncPages ==
    {"SYSENC_TYPE", "HIDDEN_OS_REQ_CHECK", "SYSENC_SPAN", "PRE_DRIVE_ANALYSIS", "DRIVE_ANALYSIS", "MULTI_BOOT_MODE",
     "SYS_EQ_BOOT", "NBR_SYS_DRIVES", "ADJACENT_SYS", "NONWIN_BOOT_LOADER", "MULTI_BOOT_OUTCOME", "COLLECTING_RANDOM_DATA",
     "KEYS_GEN", "RESCUE_CREATION", "RESCUE_BURN", "RESCUE_VERIFIED", "SYSENC_WIPE_MODE", "PRETEST_INFO"}
VolumePages ==
    {"VOLUME_TYPE", "HIDDEN_VOL_WIZARD_MODE", "VOLUME_LOCATION", "DEVICE_TRANSFORM_MODE", "SIZE", "HOST_PASSWORD",
     "HOST_PRE_CIPHER"}
InPlacePages == {"INPLACE_RAND_DATA", "INPLACE_WIPE_MODE", "INPLACE_ENCRYPTION", "INPLACE_FINISHED"}
FlagSets == [os : BOOLEAN, hidden : BOOLEAN, outer : BOOLEAN, direct : BOOLEAN, inPlace : BOOLEAN,
             whole : BOOLEAN, finished : BOOLEAN, multi : 0 .. 2, device : BOOLEAN]
WTypes ==
    /\ nCurPageNo \in PageNames /\ WizardMode \in {"file", "nonsys", "sys"} /\ flg \in FlagSets
    /\ sysEncMutex \in {"free", "self", "other"} /\ hostScanned \in BOOLEAN
    /\ volumePassword \in {"none", "plain", "outer", "hidden", "sys", "hiddenSys"} /\ hiddenVolHost \in {"none", "rw", "ro"}
    /\ transformThread \in {"off", "running", "finished"} /\ keyGen \in Nat /\ rescueGen \in Nat /\ discGen \in Nat
    /\ dontVerify \in BOOLEAN /\ bootInstalled \in BOOLEAN /\ switchFailed \in BOOLEAN
    /\ transformThread # "off" => nCurPageNo \in {"FORMAT", "INPLACE_ENCRYPTION", "END"}

\* Where a hidden system may be under construction, and which volume of it.
OsInv ==
    flg.os =>
        /\ nCurPageNo \notin {"PRETEST_INFO", "END"} => flg.hidden
        /\ nCurPageNo \in {"INTRO", "SYSENC_TYPE", "HIDDEN_OS_REQ_CHECK", "MULTI_BOOT_MODE", "HOST_PRE_CIPHER"} => flg.outer
        /\ WizardMode = "sys" => nCurPageNo \in {"INTRO", "SYSENC_TYPE", "HIDDEN_OS_REQ_CHECK", "MULTI_BOOT_MODE",
                                                 "FORMAT_FINISHED", "PRETEST_INFO", "END"}
        /\ nCurPageNo \notin {"INTRO", "SYSENC_TYPE", "END"} => ~flg.direct
        /\ nCurPageNo \notin VolumePages \ {"SIZE", "HOST_PRE_CIPHER"}
\* Which volume the pages are about.
PageRoleInv ==
    /\ flg.outer => flg.hidden
    /\ nCurPageNo \in {"HIDDEN_VOL_WIZARD_MODE", "HOST_PASSWORD"} => flg.outer
    /\ nCurPageNo \in {"VOLUME_LOCATION", "HOST_PRE_CIPHER"} \cup InPlacePages /\ flg.hidden => flg.outer
    /\ nCurPageNo = "DEVICE_TRANSFORM_MODE" => ~flg.hidden
    /\ nCurPageNo = "FORMAT_FINISHED" \/ (nCurPageNo = "FORMAT" /\ transformThread = "finished") => ~flg.outer
    /\ nCurPageNo \in InPlacePages => flg.inPlace
    /\ flg.inPlace =>
        /\ flg.hidden => flg.outer
        /\ nCurPageNo \notin {"FORMAT", "FORMAT_FINISHED", "FILESYS", "HOST_PASSWORD", "SIZE", "HIDDEN_VOL_WIZARD_MODE", "HIDDEN_PRE_CIPHER"}
        /\ nCurPageNo = "VOLUME_LOCATION" => ~flg.hidden
        /\ nCurPageNo = "HOST_PRE_CIPHER" => flg.os
        /\ nCurPageNo \in {"CIPHER", "PASSWORD"} \cup InPlacePages /\ WizardMode # "sys" /\ flg.hidden => flg.os
\* The mode of the pages.
ModeInv ==
    /\ nCurPageNo \in SysEncPages => WizardMode = "sys"
    /\ nCurPageNo \in {"FORMAT", "FILESYS"} => WizardMode # "sys"
    /\ nCurPageNo = "FORMAT_FINISHED" /\ WizardMode = "sys" => flg.os /\ Complete
    /\ ~switchFailed => /\ nCurPageNo \in VolumePages => WizardMode # "sys"
                        /\ WizardMode = "sys" /\ nCurPageNo \notin {"INTRO", "END"} => sysEncMutex = "self"
\* A hidden volume that is being made lies in a host that was scanned, and the password is its own.
Typed ==
    \/ nCurPageNo \in {"FILESYS", "INPLACE_RAND_DATA", "INPLACE_WIPE_MODE", "INPLACE_ENCRYPTION"}
    \/ nCurPageNo = "FORMAT" /\ (transformThread = "finished" => Complete)
    \/ nCurPageNo = "FORMAT_FINISHED" /\ Complete /\ ~flg.os
    \/ nCurPageNo = "END" /\ transformThread = "running"
VolumeInv ==
    /\ /\ flg.hidden /\ ~flg.outer
       /\ nCurPageNo = "END" => transformThread = "running"
       /\ transformThread = "finished" \/ nCurPageNo = "FORMAT_FINISHED" => flg.finished
       => hostScanned /\ hiddenVolHost # "rw"
    /\ Typed /\ ~switchFailed => volumePassword = VolumeRole
\* The disc was burnt for the last key.
RescueInv ==
    /\ nCurPageNo \notin {"RESCUE_BURN", "RESCUE_VERIFIED", "SYSENC_WIPE_MODE", "PRETEST_INFO", "END"} => discGen = 0
    /\ discGen # 0 => discGen = keyGen
    /\ nCurPageNo \in {"RESCUE_BURN", "RESCUE_VERIFIED", "SYSENC_WIPE_MODE"} \/ (nCurPageNo = "PRETEST_INFO" /\ ~flg.os) => rescueGen = keyGen
    /\ nCurPageNo \in {"RESCUE_VERIFIED", "SYSENC_WIPE_MODE"} \/ (nCurPageNo = "PRETEST_INFO" /\ ~flg.os) => dontVerify \/ discGen = keyGen
    /\ bootInstalled => nCurPageNo = "END" /\ (~flg.os => rescueGen = keyGen /\ (dontVerify \/ discGen = keyGen))
WInv == WTypes /\ OsInv /\ PageRoleInv /\ ModeInv /\ VolumeInv /\ RescueInv

\* The pages in the order of the enumeration.
LEMMA PageCount == DOMAIN WizardPages = 1 .. 36
BY DEF WizardPages

LEMMA PagesDiffer == \A i, k \in 1 .. 36 : WizardPages[i] = WizardPages[k] => i = k
BY DEF WizardPages

LEMMA PageBefore == \A k \in 2 .. 36 : Before(WizardPages[k]) = WizardPages[k - 1]
<1> SUFFICES ASSUME NEW k \in 2 .. 36 PROVE Before(WizardPages[k]) = WizardPages[k - 1]
  OBVIOUS
<1>1. PageNo(WizardPages[k]) = k
  BY PageCount, PagesDiffer DEF PageNo
<1> QED BY <1>1 DEF Before

LEMMA PagesKnown == Range(WizardPages) \cup {"END"} = PageNames
<1>1. \A k \in 1 .. 36 : WizardPages[k] \in PageNames
  BY DEF WizardPages, PageNames
<1>2. \A p \in PageNames : p = "END" \/ \E k \in 1 .. 36 : WizardPages[k] = p
  <2>1. /\ WizardPages[1] = "INTRO" /\ WizardPages[2] = "SYSENC_TYPE"
        /\ WizardPages[3] = "HIDDEN_OS_REQ_CHECK" /\ WizardPages[4] = "SYSENC_SPAN"
        /\ WizardPages[5] = "PRE_DRIVE_ANALYSIS" /\ WizardPages[6] = "DRIVE_ANALYSIS"
        /\ WizardPages[7] = "MULTI_BOOT_MODE" /\ WizardPages[8] = "SYS_EQ_BOOT"
        /\ WizardPages[9] = "NBR_SYS_DRIVES" /\ WizardPages[10] = "ADJACENT_SYS"
        /\ WizardPages[11] = "NONWIN_BOOT_LOADER" /\ WizardPages[12] = "MULTI_BOOT_OUTCOME"
        /\ WizardPages[13] = "VOLUME_TYPE" /\ WizardPages[14] = "HIDDEN_VOL_WIZARD_MODE"
        /\ WizardPages[15] = "VOLUME_LOCATION" /\ WizardPages[16] = "DEVICE_TRANSFORM_MODE"
        /\ WizardPages[17] = "HOST_PRE_CIPHER" /\ WizardPages[18] = "HIDDEN_PRE_CIPHER"
        /\ WizardPages[19] = "CIPHER" /\ WizardPages[20] = "SIZE" /\ WizardPages[21] = "HOST_PASSWORD"
        /\ WizardPages[22] = "PASSWORD" /\ WizardPages[23] = "FILESYS"
        /\ WizardPages[24] = "COLLECTING_RANDOM_DATA" /\ WizardPages[25] = "KEYS_GEN"
        /\ WizardPages[26] = "RESCUE_CREATION" /\ WizardPages[27] = "RESCUE_BURN"
        /\ WizardPages[28] = "RESCUE_VERIFIED" /\ WizardPages[29] = "SYSENC_WIPE_MODE"
        /\ WizardPages[30] = "PRETEST_INFO" /\ WizardPages[31] = "INPLACE_RAND_DATA"
        /\ WizardPages[32] = "INPLACE_WIPE_MODE" /\ WizardPages[33] = "INPLACE_ENCRYPTION"
        /\ WizardPages[34] = "INPLACE_FINISHED" /\ WizardPages[35] = "FORMAT"
        /\ WizardPages[36] = "FORMAT_FINISHED"
    BY DEF WizardPages
  <2> QED BY <2>1 DEF PageNames
<1> QED BY <1>1, <1>2, PageCount DEF Range, PageNames

\* The page 'Back' leads to where no other is given.
LEMMA PagesBefore ==
    /\ Before("SYSENC_TYPE") = "INTRO" /\ Before("HIDDEN_OS_REQ_CHECK") = "SYSENC_TYPE"
    /\ Before("PRE_DRIVE_ANALYSIS") = "SYSENC_SPAN" /\ Before("SYS_EQ_BOOT") = "MULTI_BOOT_MODE"
    /\ Before("NBR_SYS_DRIVES") = "SYS_EQ_BOOT" /\ Before("ADJACENT_SYS") = "NBR_SYS_DRIVES"
    /\ Before("NONWIN_BOOT_LOADER") = "ADJACENT_SYS"
    /\ Before("MULTI_BOOT_OUTCOME") = "NONWIN_BOOT_LOADER"
    /\ Before("VOLUME_TYPE") = "MULTI_BOOT_OUTCOME" /\ Before("HIDDEN_VOL_WIZARD_MODE") = "VOLUME_TYPE"
    /\ Before("VOLUME_LOCATION") = "HIDDEN_VOL_WIZARD_MODE"
    /\ Before("DEVICE_TRANSFORM_MODE") = "VOLUME_LOCATION" /\ Before("CIPHER") = "HIDDEN_PRE_CIPHER"
    /\ Before("SIZE") = "CIPHER" /\ Before("FILESYS") = "PASSWORD"
    /\ Before("KEYS_GEN") = "COLLECTING_RANDOM_DATA" /\ Before("RESCUE_CREATION") = "KEYS_GEN"
    /\ Before("PRETEST_INFO") = "SYSENC_WIPE_MODE" /\ Before("INPLACE_WIPE_MODE") = "INPLACE_RAND_DATA"
    /\ Before("INPLACE_ENCRYPTION") = "INPLACE_WIPE_MODE" /\ Before("FORMAT_FINISHED") = "FORMAT"
<1>1. /\ WizardPages[1] = "INTRO" /\ WizardPages[2] = "SYSENC_TYPE"
      /\ WizardPages[3] = "HIDDEN_OS_REQ_CHECK" /\ WizardPages[4] = "SYSENC_SPAN"
      /\ WizardPages[5] = "PRE_DRIVE_ANALYSIS" /\ WizardPages[7] = "MULTI_BOOT_MODE"
      /\ WizardPages[8] = "SYS_EQ_BOOT" /\ WizardPages[9] = "NBR_SYS_DRIVES"
      /\ WizardPages[10] = "ADJACENT_SYS" /\ WizardPages[11] = "NONWIN_BOOT_LOADER"
      /\ WizardPages[12] = "MULTI_BOOT_OUTCOME" /\ WizardPages[13] = "VOLUME_TYPE"
      /\ WizardPages[14] = "HIDDEN_VOL_WIZARD_MODE" /\ WizardPages[15] = "VOLUME_LOCATION"
      /\ WizardPages[16] = "DEVICE_TRANSFORM_MODE" /\ WizardPages[18] = "HIDDEN_PRE_CIPHER"
      /\ WizardPages[19] = "CIPHER" /\ WizardPages[20] = "SIZE" /\ WizardPages[22] = "PASSWORD"
      /\ WizardPages[23] = "FILESYS" /\ WizardPages[24] = "COLLECTING_RANDOM_DATA"
      /\ WizardPages[25] = "KEYS_GEN" /\ WizardPages[26] = "RESCUE_CREATION"
      /\ WizardPages[29] = "SYSENC_WIPE_MODE" /\ WizardPages[30] = "PRETEST_INFO"
      /\ WizardPages[31] = "INPLACE_RAND_DATA" /\ WizardPages[32] = "INPLACE_WIPE_MODE"
      /\ WizardPages[33] = "INPLACE_ENCRYPTION" /\ WizardPages[35] = "FORMAT"
      /\ WizardPages[36] = "FORMAT_FINISHED"
  BY DEF WizardPages
<1>2. /\ Before(WizardPages[2]) = WizardPages[1] /\ Before(WizardPages[3]) = WizardPages[2]
      /\ Before(WizardPages[5]) = WizardPages[4] /\ Before(WizardPages[8]) = WizardPages[7]
      /\ Before(WizardPages[9]) = WizardPages[8] /\ Before(WizardPages[10]) = WizardPages[9]
      /\ Before(WizardPages[11]) = WizardPages[10] /\ Before(WizardPages[12]) = WizardPages[11]
      /\ Before(WizardPages[13]) = WizardPages[12] /\ Before(WizardPages[14]) = WizardPages[13]
      /\ Before(WizardPages[15]) = WizardPages[14] /\ Before(WizardPages[16]) = WizardPages[15]
      /\ Before(WizardPages[19]) = WizardPages[18] /\ Before(WizardPages[20]) = WizardPages[19]
      /\ Before(WizardPages[23]) = WizardPages[22] /\ Before(WizardPages[25]) = WizardPages[24]
      /\ Before(WizardPages[26]) = WizardPages[25] /\ Before(WizardPages[30]) = WizardPages[29]
      /\ Before(WizardPages[32]) = WizardPages[31] /\ Before(WizardPages[33]) = WizardPages[32]
      /\ Before(WizardPages[36]) = WizardPages[35]
  BY PageBefore
<1> QED BY <1>1, <1>2

LEMMA WInvSound == WInv => WizardSound
<1> SUFFICES ASSUME WInv PROVE WizardSound
  OBVIOUS
<1>1. WTypeOK
  <2>1. Range(WizardPages) \cup {"END"} = PageNames
    BY PagesKnown
  <2> QED BY <2>1 DEF WInv, WTypes, PageRoleInv, WTypeOK
<1>2. HiddenVolumeFits
  BY DEF WInv, WTypes, PageRoleInv, InPlacePages, VolumeInv, HiddenVolumeFits, VolumeRole, CreatingHiddenSysVol
<1>3. PasswordIsOfItsVolume
  BY DEF WInv, WTypes, VolumeInv, Typed, PasswordIsOfItsVolume
<1>4. SysModeHasMutex /\ OtherVolumesNotInSysMode
  BY DEF WInv, ModeInv, VolumePages, SysModeHasMutex, OtherVolumesNotInSysMode
<1>5. RescueDiskCurrent
  BY DEF WInv, RescueInv, RescueDiskCurrent
<1> QED BY <1>1, <1>2, <1>3, <1>4, <1>5 DEF WizardSound

LEMMA WInvInit == WInit => WInv
<1> SUFFICES ASSUME WInit PROVE WInv
  OBVIOUS
<1>1. flg \in FlagSets /\ ~flg.os /\ ~flg.hidden /\ ~flg.outer /\ ~flg.inPlace
  BY DEF WInit, NoFlags, FlagSets
<1>2. WTypes
  BY <1>1 DEF WInit, WTypes, PageNames
<1>3. OsInv /\ PageRoleInv /\ ModeInv
  BY <1>1 DEF WInit, OsInv, PageRoleInv, ModeInv, SysEncPages, VolumePages, InPlacePages
<1>4. VolumeInv /\ RescueInv
  BY <1>1 DEF WInit, VolumeInv, Typed, RescueInv
<1> QED BY <1>2, <1>3, <1>4 DEF WInv

-----------------------------------------------------------------------------
(* Turning a page, forwards or back: nothing but the page changes, and the password when
   its page is left. *)
RestKept == /\ hiddenVolHost' = hiddenVolHost /\ hostScanned' = hostScanned /\ transformThread' = transformThread
            /\ keyGen' = keyGen /\ rescueGen' = rescueGen /\ discGen' = discGen /\ dontVerify' = dontVerify
            /\ bootInstalled' = bootInstalled /\ switchFailed' = switchFailed
Turns ==
    /\ WizardMode' = WizardMode /\ flg' = flg /\ sysEncMutex' = sysEncMutex /\ RestKept /\ transformThread = "off"
    /\ volumePassword' = IF nCurPageNo = "PASSWORD" THEN VolumeRole ELSE volumePassword
FromTo(S, T) == nCurPageNo \in S /\ nCurPageNo' \in T

\* Between the first pages of system encryption.
SysTurn ==
    \/ FromTo({"HIDDEN_OS_REQ_CHECK", "PRE_DRIVE_ANALYSIS", "DRIVE_ANALYSIS"}, {"MULTI_BOOT_MODE"})
    \/ FromTo({"PRE_DRIVE_ANALYSIS"}, {"DRIVE_ANALYSIS", "SYSENC_SPAN"})
    \/ FromTo({"SYS_EQ_BOOT", "NBR_SYS_DRIVES", "ADJACENT_SYS", "NONWIN_BOOT_LOADER", "MULTI_BOOT_OUTCOME"},
              {"SYS_EQ_BOOT", "NBR_SYS_DRIVES", "ADJACENT_SYS", "NONWIN_BOOT_LOADER", "MULTI_BOOT_OUTCOME", "END"})
    \/ FromTo({"MULTI_BOOT_OUTCOME"}, {"CIPHER"}) /\ ~flg.os
    \/ FromTo({"SYSENC_TYPE"}, {"SYSENC_SPAN"}) /\ ~flg.os
    \/ FromTo({"SYSENC_TYPE"}, {"INTRO"})
    \/ FromTo({"MULTI_BOOT_MODE"}, {"HIDDEN_OS_REQ_CHECK"}) /\ flg.os
    \/ FromTo({"MULTI_BOOT_MODE"}, {"PRE_DRIVE_ANALYSIS", "SYSENC_SPAN"}) /\ ~flg.os
    \/ FromTo({"SYS_EQ_BOOT"}, {"MULTI_BOOT_MODE"})
    \/ FromTo({"CIPHER"}, {"MULTI_BOOT_MODE", "MULTI_BOOT_OUTCOME"}) /\ WizardMode = "sys"
    \/ FromTo({"VOLUME_TYPE"}, {"MULTI_BOOT_OUTCOME"}) /\ WizardMode = "sys"
\* Between the pages for a volume.
VolumeTurn ==
    \/ FromTo({"HOST_PRE_CIPHER"}, {"HIDDEN_PRE_CIPHER"}) /\ ~flg.outer
    \/ FromTo({"HOST_PRE_CIPHER"}, {"CIPHER"}) /\ flg.outer
    \/ FromTo({"HIDDEN_PRE_CIPHER"}, {"CIPHER"})
    \/ FromTo({"HOST_PRE_CIPHER"}, {"VOLUME_LOCATION"}) /\ ~flg.os
    \/ FromTo({"VOLUME_TYPE"}, {"INTRO"}) /\ WizardMode # "sys"
    \/ FromTo({"VOLUME_LOCATION"}, {"VOLUME_TYPE"}) /\ ~flg.hidden
    \/ FromTo({"VOLUME_LOCATION"}, {"HIDDEN_VOL_WIZARD_MODE"}) /\ flg.hidden
    \/ FromTo({"HIDDEN_VOL_WIZARD_MODE"}, {"VOLUME_TYPE"})
    \/ FromTo({"DEVICE_TRANSFORM_MODE", "HOST_PASSWORD"}, {"VOLUME_LOCATION"})
    \/ FromTo({"CIPHER"}, {"DEVICE_TRANSFORM_MODE", "VOLUME_LOCATION"}) /\ WizardMode # "sys" /\ ~flg.hidden
    \/ FromTo({"CIPHER"}, {"HOST_PRE_CIPHER"}) /\ WizardMode # "sys" /\ flg.hidden /\ flg.outer
    \/ FromTo({"CIPHER"}, {"HIDDEN_PRE_CIPHER"}) /\ WizardMode # "sys" /\ flg.hidden /\ ~flg.outer
\* Between the pages about size and password.
PasswordTurn ==
    \/ FromTo({"CIPHER"}, {"SIZE"}) /\ ~SysEncInEffect(WizardMode, flg) /\ ~flg.inPlace
    \/ FromTo({"CIPHER"}, {"PASSWORD"})
    \/ FromTo({"SIZE"}, {"HOST_PASSWORD"}) /\ flg.direct /\ flg.outer
    \/ FromTo({"SIZE"}, {"PASSWORD", "CIPHER"})
    \/ FromTo({"PASSWORD"}, {"CIPHER"})
    \/ FromTo({"PASSWORD"}, {"SIZE"}) /\ ~SysEncInEffect(WizardMode, flg) /\ ~flg.inPlace
    \/ FromTo({"PASSWORD"}, {"INPLACE_RAND_DATA"}) /\ flg.inPlace
    \/ FromTo({"PASSWORD"}, {"FORMAT"}) /\ ~flg.inPlace /\ (WizardMode # "sys" \/ CreatingHiddenSysVol(flg))
    \/ FromTo({"PASSWORD"}, {"COLLECTING_RANDOM_DATA"}) /\ ~flg.inPlace /\ WizardMode = "sys"
    \/ FromTo({"PASSWORD"}, {"FILESYS"}) /\ ~flg.inPlace /\ WizardMode # "sys"
    \/ FromTo({"FILESYS"}, {"FORMAT", "PASSWORD"})
    \/ FromTo({"FORMAT"}, {"PASSWORD"})
    \/ FromTo({"FORMAT"}, {"FILESYS"})
    \/ FromTo({"FORMAT_FINISHED"}, {"FORMAT"}) /\ Complete /\ ~flg.os
    \/ FromTo({"COLLECTING_RANDOM_DATA", "INPLACE_RAND_DATA"}, {"PASSWORD"})
\* Between the last pages.
LastTurn ==
    \/ FromTo({"INPLACE_RAND_DATA", "INPLACE_WIPE_MODE", "INPLACE_ENCRYPTION"}, {"INPLACE_RAND_DATA", "INPLACE_WIPE_MODE", "INPLACE_ENCRYPTION"})
    \/ FromTo({"INPLACE_FINISHED"}, {"END"})
    \/ FromTo({"KEYS_GEN"}, {"RESCUE_CREATION", "COLLECTING_RANDOM_DATA"})
    \/ FromTo({"RESCUE_CREATION"}, {"KEYS_GEN"})
    \/ FromTo({"RESCUE_BURN"}, {"SYSENC_WIPE_MODE"}) /\ dontVerify
    \/ FromTo({"RESCUE_BURN"}, {"RESCUE_VERIFIED"}) /\ ~dontVerify /\ discGen = rescueGen
    \/ FromTo({"RESCUE_VERIFIED"}, {"SYSENC_WIPE_MODE"})
    \/ FromTo({"SYSENC_WIPE_MODE"}, {"PRETEST_INFO", "RESCUE_BURN", "RESCUE_VERIFIED"})
    \/ FromTo({"PRETEST_INFO"}, {"SYSENC_WIPE_MODE"}) /\ ~flg.os

\* Turning between the first pages of system encryption keeps the invariant.
LEMMA SysTurnStep ==
    ASSUME WInv, Turns, SysTurn
    PROVE  WInv'
<1>1. nCurPageNo # "END"
  BY DEF SysTurn, FromTo
<1>2. VolumeRole \in {"plain", "outer", "hidden", "sys", "hiddenSys"}
  BY DEF VolumeRole
<1>3. WTypes'
  BY <1>1, <1>2 DEF WInv, WTypes, PageNames, Turns, RestKept, FromTo, SysTurn
<1>4. OsInv'
  BY <1>1, <1>2 DEF WInv, WTypes, FlagSets, OsInv, PageRoleInv, ModeInv, SysEncPages, VolumePages, InPlacePages, Turns, RestKept, FromTo, SysTurn
<1>5. PageRoleInv'
  BY <1>1, <1>2 DEF WInv, WTypes, FlagSets, OsInv, PageRoleInv, ModeInv, SysEncPages, VolumePages, InPlacePages, Turns, RestKept, FromTo, SysTurn
<1>6. ModeInv'
  BY <1>1, <1>2 DEF WInv, WTypes, FlagSets, OsInv, PageRoleInv, ModeInv, SysEncPages, VolumePages, InPlacePages, Complete, Turns, RestKept, FromTo, SysTurn
<1>7. VolumeInv'
  BY <1>1, <1>2 DEF WInv, WTypes, FlagSets, OsInv, PageRoleInv, ModeInv, SysEncPages, VolumePages, InPlacePages, VolumeInv, Typed, Complete, VolumeRole, CreatingHiddenSysVol, Turns, RestKept, FromTo, SysTurn
<1>8. RescueInv'
  BY <1>1, <1>2 DEF WInv, WTypes, FlagSets, OsInv, PageRoleInv, ModeInv, SysEncPages, VolumePages, InPlacePages, RescueInv, Turns, RestKept, FromTo, SysTurn
<1> QED BY <1>3, <1>4, <1>5, <1>6, <1>7, <1>8 DEF WInv

\* Turning between the pages for a volume keeps the invariant.
LEMMA VolumeTurnStep ==
    ASSUME WInv, Turns, VolumeTurn
    PROVE  WInv'
<1>1. nCurPageNo # "END"
  BY DEF VolumeTurn, FromTo
<1>2. VolumeRole \in {"plain", "outer", "hidden", "sys", "hiddenSys"}
  BY DEF VolumeRole
<1>3. WTypes'
  BY <1>1, <1>2 DEF WInv, WTypes, PageNames, Turns, RestKept, FromTo, VolumeTurn
<1>4. OsInv'
  BY <1>1, <1>2 DEF WInv, WTypes, FlagSets, OsInv, PageRoleInv, ModeInv, SysEncPages, VolumePages, InPlacePages, Turns, RestKept, FromTo, VolumeTurn
<1>5. PageRoleInv'
  BY <1>1, <1>2 DEF WInv, WTypes, FlagSets, OsInv, PageRoleInv, ModeInv, SysEncPages, VolumePages, InPlacePages, Turns, RestKept, FromTo, VolumeTurn
<1>6. ModeInv'
  BY <1>1, <1>2 DEF WInv, WTypes, FlagSets, OsInv, PageRoleInv, ModeInv, SysEncPages, VolumePages, InPlacePages, Complete, Turns, RestKept, FromTo, VolumeTurn
<1>7. VolumeInv'
  BY <1>1, <1>2 DEF WInv, WTypes, FlagSets, OsInv, PageRoleInv, ModeInv, SysEncPages, VolumePages, InPlacePages, VolumeInv, Typed, Complete, VolumeRole, CreatingHiddenSysVol, Turns, RestKept, FromTo, VolumeTurn
<1>8. RescueInv'
  BY <1>1, <1>2 DEF WInv, WTypes, FlagSets, OsInv, PageRoleInv, ModeInv, SysEncPages, VolumePages, InPlacePages, RescueInv, Turns, RestKept, FromTo, VolumeTurn
<1> QED BY <1>3, <1>4, <1>5, <1>6, <1>7, <1>8 DEF WInv

\* Turning the pages about size and password keeps the invariant.
LEMMA PasswordTurnStep ==
    ASSUME WInv, Turns, PasswordTurn
    PROVE  WInv'
<1>1. nCurPageNo # "END"
  BY DEF PasswordTurn, FromTo
<1>2. VolumeRole \in {"plain", "outer", "hidden", "sys", "hiddenSys"}
  BY DEF VolumeRole
<1>3. WTypes'
  BY <1>1, <1>2 DEF WInv, WTypes, PageNames, Turns, RestKept, FromTo, PasswordTurn, SysEncInEffect, CreatingHiddenSysVol
<1>4. OsInv'
  BY <1>1, <1>2 DEF WInv, WTypes, FlagSets, OsInv, PageRoleInv, ModeInv, SysEncPages, VolumePages, InPlacePages, Turns, RestKept, FromTo, PasswordTurn, SysEncInEffect, CreatingHiddenSysVol
<1>5. PageRoleInv'
  BY <1>1, <1>2 DEF WInv, WTypes, FlagSets, OsInv, PageRoleInv, ModeInv, SysEncPages, VolumePages, InPlacePages, Turns, RestKept, FromTo, PasswordTurn, SysEncInEffect, CreatingHiddenSysVol
<1>6. ModeInv'
  BY <1>1, <1>2 DEF WInv, WTypes, FlagSets, OsInv, PageRoleInv, ModeInv, SysEncPages, VolumePages, InPlacePages, Complete, Turns, RestKept, FromTo, PasswordTurn, SysEncInEffect, CreatingHiddenSysVol
<1>7. VolumeInv'
  BY <1>1, <1>2 DEF WInv, WTypes, FlagSets, OsInv, PageRoleInv, ModeInv, SysEncPages, VolumePages, InPlacePages, VolumeInv, Typed, Complete, VolumeRole, CreatingHiddenSysVol, Turns, RestKept, FromTo, PasswordTurn, SysEncInEffect, CreatingHiddenSysVol
<1>8. RescueInv'
  BY <1>1, <1>2 DEF WInv, WTypes, FlagSets, OsInv, PageRoleInv, ModeInv, SysEncPages, VolumePages, InPlacePages, RescueInv, Turns, RestKept, FromTo, PasswordTurn, SysEncInEffect, CreatingHiddenSysVol
<1> QED BY <1>3, <1>4, <1>5, <1>6, <1>7, <1>8 DEF WInv

\* Turning between the last pages keeps the invariant.
LEMMA LastTurnStep ==
    ASSUME WInv, Turns, LastTurn
    PROVE  WInv'
<1>1. nCurPageNo # "END"
  BY DEF LastTurn, FromTo
<1>2. VolumeRole \in {"plain", "outer", "hidden", "sys", "hiddenSys"}
  BY DEF VolumeRole
<1>3. WTypes'
  BY <1>1, <1>2 DEF WInv, WTypes, PageNames, Turns, RestKept, FromTo, LastTurn
<1>4. OsInv'
  BY <1>1, <1>2 DEF WInv, WTypes, FlagSets, OsInv, PageRoleInv, ModeInv, SysEncPages, VolumePages, InPlacePages, Turns, RestKept, FromTo, LastTurn
<1>5. PageRoleInv'
  BY <1>1, <1>2 DEF WInv, WTypes, FlagSets, OsInv, PageRoleInv, ModeInv, SysEncPages, VolumePages, InPlacePages, Turns, RestKept, FromTo, LastTurn
<1>6. ModeInv'
  BY <1>1, <1>2 DEF WInv, WTypes, FlagSets, OsInv, PageRoleInv, ModeInv, SysEncPages, VolumePages, InPlacePages, Complete, Turns, RestKept, FromTo, LastTurn
<1>7. VolumeInv'
  BY <1>1, <1>2 DEF WInv, WTypes, FlagSets, OsInv, PageRoleInv, ModeInv, SysEncPages, VolumePages, InPlacePages, VolumeInv, Typed, Complete, VolumeRole, CreatingHiddenSysVol, Turns, RestKept, FromTo, LastTurn
<1>8. RescueInv'
  BY <1>1, <1>2 DEF WInv, WTypes, FlagSets, OsInv, PageRoleInv, ModeInv, SysEncPages, VolumePages, InPlacePages, RescueInv, Turns, RestKept, FromTo, LastTurn
<1> QED BY <1>3, <1>4, <1>5, <1>6, <1>7, <1>8 DEF WInv

-----------------------------------------------------------------------------
(* The pages that change flags. *)

\* The first page leads to the pages for other volumes.
LEMMA IntroStep ==
    ASSUME WInv, NEW m \in {"file", "nonsys"}, IntroNext(m)
    PROVE  WInv'
<1>1. /\ RestKept /\ nCurPageNo = "INTRO" /\ transformThread = "off" /\ nCurPageNo' = "VOLUME_TYPE" /\ WizardMode' = m
      /\ volumePassword' \in {"none", volumePassword} /\ sysEncMutex' \in {"free", sysEncMutex}
  BY DEF IntroNext, OnPage, GoPage, PwdAfter, MutexClosed, RestKept, wizardRest, sysPrep, volPrep
<1>2. PICK b \in BOOLEAN : b = (flg.inPlace /\ m = "nonsys")
  BY Zenon
<1>3. PICK d \in BOOLEAN : d = (m # "file")
  BY Zenon
<1>4. flg' = [flg EXCEPT !.os = FALSE, !.inPlace = b, !.device = d]
  <2>1. PICK c \in BOOLEAN : c = (b /\ m = "nonsys")
    BY Zenon
  <2>2. c = b
    BY <1>2, <2>1
  <2>3. PICK g \in FlagSets : g = [flg EXCEPT !.os = FALSE, !.inPlace = b] /\ g.inPlace = b
    <3>1. [flg EXCEPT !.os = FALSE, !.inPlace = b] \in FlagSets
      BY DEF WInv, WTypes, FlagSets
    <3>2. [flg EXCEPT !.os = FALSE, !.inPlace = b].inPlace = b
      BY DEF WInv, WTypes, FlagSets
    <3> QED BY <3>1, <3>2, Zenon
  <2>4. g = [flg EXCEPT !.os = FALSE, !.inPlace = @ /\ m = "nonsys"]
    BY <1>2, <2>3, Zenon
  <2>5. flg' = [g EXCEPT !.inPlace = c, !.device = d]
    BY <1>3, <2>1, <2>3, <2>4, Zenon DEF IntroNext, FlagsAfter
  <2> QED BY <2>2, <2>3, <2>5 DEF WInv, WTypes, FlagSets
<1>5. flg' \in FlagSets
  BY <1>4 DEF WInv, WTypes, FlagSets
<1>6. /\ ~flg'.os /\ flg'.hidden = flg.hidden /\ flg'.outer = flg.outer /\ flg'.finished = flg.finished
      /\ flg'.inPlace => flg.inPlace
  BY <1>2, <1>4 DEF WInv, WTypes, FlagSets
<1>7. WTypes'
  BY <1>1, <1>2, <1>3, <1>4, <1>5, <1>6 DEF WInv, WTypes, PageNames, RestKept
<1>8. OsInv'
  BY <1>1, <1>2, <1>3, <1>4, <1>5, <1>6 DEF WInv, WTypes, FlagSets, OsInv, PageRoleInv, ModeInv, SysEncPages, VolumePages, InPlacePages, RestKept
<1>9. PageRoleInv'
  BY <1>1, <1>2, <1>3, <1>4, <1>5, <1>6 DEF WInv, WTypes, FlagSets, OsInv, PageRoleInv, ModeInv, SysEncPages, VolumePages, InPlacePages, RestKept
<1>10. ModeInv'
  BY <1>1, <1>2, <1>3, <1>4, <1>5, <1>6 DEF WInv, WTypes, FlagSets, OsInv, PageRoleInv, ModeInv, SysEncPages, VolumePages, InPlacePages, Complete, RestKept
<1>11. VolumeInv'
  BY <1>1, <1>2, <1>3, <1>4, <1>5, <1>6 DEF WInv, WTypes, FlagSets, OsInv, PageRoleInv, ModeInv, SysEncPages, VolumePages, InPlacePages, VolumeInv, Typed, Complete, VolumeRole, CreatingHiddenSysVol, RestKept
<1>12. RescueInv'
  BY <1>1, <1>2, <1>3, <1>4, <1>5, <1>6 DEF WInv, WTypes, FlagSets, OsInv, PageRoleInv, ModeInv, SysEncPages, VolumePages, InPlacePages, RescueInv, RestKept
<1> QED BY <1>7, <1>8, <1>9, <1>10, <1>11, <1>12 DEF WInv

\* A refusal closes the mutex; another wizard takes and leaves it.
LEMMA RefusedStep ==
    ASSUME WInv, IntroNotElevated \/ SwitchRefused \/ OtherInstance
    PROVE  WInv'
<1>1. RestKept /\ nCurPageNo' = nCurPageNo /\ WizardMode' = WizardMode /\ flg' = flg /\ volumePassword' = volumePassword
  BY DEF IntroNotElevated, SwitchRefused, OtherInstance, RestKept, wizardRest, sysPrep, volPrep
<1>2. /\ sysEncMutex' \in {"free", "self", "other"}
      /\ nCurPageNo \in {"INTRO", "VOLUME_LOCATION"} \/ (sysEncMutex = "self" => sysEncMutex' = "self")
  BY DEF IntroNotElevated, SwitchRefused, OtherInstance, MutexClosed, OnPage, WInv, WTypes
<1>3. WTypes'
  BY <1>1, <1>2 DEF WInv, WTypes, PageNames, RestKept
<1>4. OsInv'
  BY <1>1, <1>2 DEF WInv, WTypes, FlagSets, OsInv, PageRoleInv, ModeInv, SysEncPages, VolumePages, InPlacePages, RestKept
<1>5. PageRoleInv'
  BY <1>1, <1>2 DEF WInv, WTypes, FlagSets, OsInv, PageRoleInv, ModeInv, SysEncPages, VolumePages, InPlacePages, RestKept
<1>6. ModeInv'
  BY <1>1, <1>2 DEF WInv, WTypes, FlagSets, OsInv, PageRoleInv, ModeInv, SysEncPages, VolumePages, InPlacePages, Complete, RestKept
<1>7. VolumeInv'
  BY <1>1, <1>2 DEF WInv, WTypes, FlagSets, OsInv, PageRoleInv, ModeInv, SysEncPages, VolumePages, InPlacePages, VolumeInv, Typed, Complete, VolumeRole, CreatingHiddenSysVol, RestKept
<1>8. RescueInv'
  BY <1>1, <1>2 DEF WInv, WTypes, FlagSets, OsInv, PageRoleInv, ModeInv, SysEncPages, VolumePages, InPlacePages, RescueInv, RestKept
<1> QED BY <1>3, <1>4, <1>5, <1>6, <1>7, <1>8 DEF WInv

\* A switch to system encryption, of the flags g.
SwitchTo(g) ==
    /\ WizardMode' = "sys" /\ sysEncMutex' = "self" /\ volumePassword' \in {"none", volumePassword}
    /\ flg' \in FlagSets /\ flg'.os = g.os /\ flg'.hidden = g.hidden /\ flg'.outer = g.outer /\ flg'.direct = g.direct
    /\ ~flg'.inPlace /\ flg'.finished = g.finished

LEMMA SwitchIs == ASSUME NEW target, NEW g \in FlagSets, SysEncSwitch(target, g) PROVE SwitchTo(g) /\ nCurPageNo' = target
<1>1. WizardMode' = "sys" /\ sysEncMutex' = "self" /\ volumePassword' \in {"none", volumePassword} /\ nCurPageNo' = target
  BY DEF SysEncSwitch, TakeMutex, PwdAfter, GoPage
<1>2. flg' = [g EXCEPT !.inPlace = FALSE, !.device = TRUE]
  <2>1. PICK b \in BOOLEAN : b = (g.inPlace /\ "sys" = "nonsys")
    BY Zenon
  <2>2. PICK d \in BOOLEAN : d = ("sys" # "file")
    BY Zenon
  <2>3. flg' = [g EXCEPT !.inPlace = b, !.device = d]
    BY <2>1, <2>2, Zenon DEF SysEncSwitch, FlagsAfter
  <2>4. b = FALSE /\ d = TRUE
    BY <2>1, <2>2
  <2> QED BY <2>3, <2>4, Zenon
<1>3. flg' \in FlagSets
  BY <1>2 DEF FlagSets
<1>4. /\ flg'.os = g.os /\ flg'.hidden = g.hidden /\ flg'.outer = g.outer /\ flg'.direct = g.direct
      /\ ~flg'.inPlace /\ flg'.finished = g.finished
  BY <1>2 DEF FlagSets
<1> QED BY <1>1, <1>3, <1>4 DEF SwitchTo

LEMMA TypePageIs ==
    ASSUME NEW g \in FlagSets
    PROVE  \E h \in FlagSets : h = TypePageFlags(g) /\ h.os = g.os /\ h.hidden = g.os /\ h.outer = g.os /\ h.direct = g.direct
<1>1. TypePageFlags(g) \in FlagSets
  BY DEF TypePageFlags, FlagSets
<1>2. /\ TypePageFlags(g).os = g.os /\ TypePageFlags(g).hidden = g.os /\ TypePageFlags(g).outer = g.os
      /\ TypePageFlags(g).direct = g.direct
  BY DEF TypePageFlags, FlagSets
<1> QED BY <1>1, <1>2, Zenon

\* The first page leads to system encryption.
LEMMA IntroSysStep ==
    ASSUME WInv, IntroNextSys
    PROVE  WInv'
<1>1. RestKept /\ nCurPageNo = "INTRO" /\ transformThread = "off"
  BY DEF IntroNextSys, OnPage, RestKept, wizardRest, sysPrep, volPrep
<1>2. PICK g \in FlagSets : g = [flg EXCEPT !.hidden = FALSE, !.inPlace = FALSE] /\ g.os = flg.os
  <2>1. [flg EXCEPT !.hidden = FALSE, !.inPlace = FALSE] \in FlagSets
    BY DEF WInv, WTypes, FlagSets
  <2>2. [flg EXCEPT !.hidden = FALSE, !.inPlace = FALSE].os = flg.os
    BY DEF WInv, WTypes, FlagSets
  <2> QED BY <2>1, <2>2, Zenon
<1>3. PICK h \in FlagSets : h = TypePageFlags(g) /\ h.os = g.os /\ h.hidden = g.os /\ h.outer = g.os
  BY TypePageIs
<1>4. SwitchTo(h) /\ nCurPageNo' = "SYSENC_TYPE"
  BY <1>2, <1>3, SwitchIs DEF IntroNextSys
<1>5. WizardMode' = "sys" /\ flg'.os = flg.os /\ flg'.hidden = flg.os /\ flg'.outer = flg.os /\ ~flg'.inPlace
  BY <1>2, <1>3, <1>4 DEF SwitchTo
<1>6. WTypes'
  BY <1>1, <1>2, <1>3, <1>4, <1>5 DEF WInv, WTypes, PageNames, RestKept, SwitchTo
<1>7. OsInv'
  BY <1>1, <1>2, <1>3, <1>4, <1>5 DEF WInv, WTypes, FlagSets, OsInv, PageRoleInv, ModeInv, SysEncPages, VolumePages, InPlacePages, RestKept, SwitchTo
<1>8. PageRoleInv'
  BY <1>1, <1>2, <1>3, <1>4, <1>5 DEF WInv, WTypes, FlagSets, OsInv, PageRoleInv, ModeInv, SysEncPages, VolumePages, InPlacePages, RestKept, SwitchTo
<1>9. ModeInv'
  BY <1>1, <1>2, <1>3, <1>4, <1>5 DEF WInv, WTypes, FlagSets, OsInv, PageRoleInv, ModeInv, SysEncPages, VolumePages, InPlacePages, Complete, RestKept, SwitchTo
<1>10. VolumeInv'
  BY <1>1, <1>2, <1>3, <1>4, <1>5 DEF WInv, WTypes, FlagSets, OsInv, PageRoleInv, ModeInv, SysEncPages, VolumePages, InPlacePages, VolumeInv, Typed, Complete, VolumeRole, CreatingHiddenSysVol, RestKept, SwitchTo
<1>11. RescueInv'
  BY <1>1, <1>2, <1>3, <1>4, <1>5 DEF WInv, WTypes, FlagSets, OsInv, PageRoleInv, ModeInv, SysEncPages, VolumePages, InPlacePages, RescueInv, RestKept, SwitchTo
<1> QED BY <1>6, <1>7, <1>8, <1>9, <1>10, <1>11 DEF WInv

\* The system drive or partition was selected.
LEMMA LocationSysStep ==
    ASSUME WInv, NEW entire \in BOOLEAN, LocationIsSystem(entire)
    PROVE  WInv'
<1>1. RestKept /\ nCurPageNo = "VOLUME_LOCATION" /\ transformThread = "off"
  BY DEF LocationIsSystem, OnPage, RestKept, wizardRest, sysPrep, volPrep
<1>2. PICK g \in FlagSets : /\ g = [flg EXCEPT !.whole = IF flg.hidden THEN FALSE ELSE entire] /\ g.os = flg.os /\ g.hidden = flg.hidden
                            /\ g.outer = flg.outer /\ g.direct = flg.direct
  <2> DEFINE g == [flg EXCEPT !.whole = IF flg.hidden THEN FALSE ELSE entire]
  <2>1. g \in FlagSets
    <3>1. PICK w \in BOOLEAN : w = IF flg.hidden THEN FALSE ELSE entire
      OBVIOUS
    <3>2. g = [flg EXCEPT !.whole = w]
      BY <3>1
    <3> QED BY <3>2 DEF WInv, WTypes, FlagSets
  <2>2. g.os = flg.os /\ g.hidden = flg.hidden /\ g.outer = flg.outer /\ g.direct = flg.direct
    BY DEF WInv, WTypes, FlagSets
  <2> QED BY <2>1, <2>2, Zenon
<1>3. PICK h \in FlagSets : h = TypePageFlags(g) /\ h.os = g.os /\ h.hidden = g.os /\ h.outer = g.os
  BY TypePageIs
<1>4. \/ SwitchTo(h) /\ nCurPageNo' = "SYSENC_TYPE"
      \/ ~flg.hidden /\ SwitchTo(g) /\ nCurPageNo' \in {"PRE_DRIVE_ANALYSIS", "MULTI_BOOT_MODE"}
  <2>1. CASE flg.hidden
    <3>1. SysEncSwitch("SYSENC_TYPE", h)
      BY <1>2, <1>3, <2>1 DEF LocationIsSystem
    <3> QED BY <3>1, SwitchIs
  <2>2. CASE ~flg.hidden
    <3>1. SysEncSwitch(IF entire THEN "PRE_DRIVE_ANALYSIS" ELSE "MULTI_BOOT_MODE", g)
      BY <1>2, <2>2 DEF LocationIsSystem
    <3>2. SwitchTo(g) /\ nCurPageNo' = IF entire THEN "PRE_DRIVE_ANALYSIS" ELSE "MULTI_BOOT_MODE"
      BY <3>1, SwitchIs
    <3> QED BY <2>2, <3>2
  <2> QED BY <2>1, <2>2
<1>5. /\ WizardMode' = "sys" /\ flg'.os = flg.os /\ ~flg'.inPlace
      /\ \/ flg'.hidden = flg.os /\ flg'.outer = flg.os
         \/ ~flg.hidden /\ flg'.hidden = flg.hidden /\ flg'.outer = flg.outer
  BY <1>2, <1>3, <1>4 DEF SwitchTo
<1>6. WTypes'
  BY <1>1, <1>2, <1>3, <1>4, <1>5 DEF WInv, WTypes, PageNames, RestKept, SwitchTo
<1>7. OsInv'
  BY <1>1, <1>2, <1>3, <1>4, <1>5 DEF WInv, WTypes, FlagSets, OsInv, PageRoleInv, ModeInv, SysEncPages, VolumePages, InPlacePages, RestKept, SwitchTo
<1>8. PageRoleInv'
  BY <1>1, <1>2, <1>3, <1>4, <1>5 DEF WInv, WTypes, FlagSets, OsInv, PageRoleInv, ModeInv, SysEncPages, VolumePages, InPlacePages, RestKept, SwitchTo
<1>9. ModeInv'
  BY <1>1, <1>2, <1>3, <1>4, <1>5 DEF WInv, WTypes, FlagSets, OsInv, PageRoleInv, ModeInv, SysEncPages, VolumePages, InPlacePages, Complete, RestKept, SwitchTo
<1>10. VolumeInv'
  BY <1>1, <1>2, <1>3, <1>4, <1>5 DEF WInv, WTypes, FlagSets, OsInv, PageRoleInv, ModeInv, SysEncPages, VolumePages, InPlacePages, VolumeInv, Typed, Complete, VolumeRole, CreatingHiddenSysVol, RestKept, SwitchTo
<1>11. RescueInv'
  BY <1>1, <1>2, <1>3, <1>4, <1>5 DEF WInv, WTypes, FlagSets, OsInv, PageRoleInv, ModeInv, SysEncPages, VolumePages, InPlacePages, RescueInv, RestKept, SwitchTo
<1> QED BY <1>6, <1>7, <1>8, <1>9, <1>10, <1>11 DEF WInv

\* The drive cannot be examined.
LEMMA LocationFailsStep ==
    ASSUME WInv, LocationSwitchFails
    PROVE  WInv'
<1>1. /\ nCurPageNo = "VOLUME_LOCATION" /\ transformThread = "off" /\ switchFailed' = TRUE
      /\ hiddenVolHost' = hiddenVolHost /\ hostScanned' = hostScanned /\ transformThread' = transformThread
      /\ keyGen' = keyGen /\ rescueGen' = rescueGen /\ discGen' = discGen /\ dontVerify' = dontVerify
      /\ bootInstalled' = bootInstalled
  BY DEF LocationSwitchFails, OnPage, sysPrep, volPrep
<1>2. SwitchTo(flg) /\ nCurPageNo' = "VOLUME_LOCATION"
  BY SwitchIs DEF LocationSwitchFails, WInv, WTypes
<1>3. WTypes'
  BY <1>1, <1>2 DEF WInv, WTypes, PageNames, SwitchTo
<1>4. OsInv'
  BY <1>1, <1>2 DEF WInv, WTypes, FlagSets, OsInv, PageRoleInv, ModeInv, SysEncPages, VolumePages, InPlacePages, SwitchTo
<1>5. PageRoleInv'
  BY <1>1, <1>2 DEF WInv, WTypes, FlagSets, OsInv, PageRoleInv, ModeInv, SysEncPages, VolumePages, InPlacePages, SwitchTo
<1>6. ModeInv'
  BY <1>1, <1>2 DEF WInv, WTypes, FlagSets, OsInv, PageRoleInv, ModeInv, SysEncPages, VolumePages, InPlacePages, Complete, SwitchTo
<1>7. VolumeInv'
  BY <1>1, <1>2 DEF WInv, WTypes, FlagSets, OsInv, PageRoleInv, ModeInv, SysEncPages, VolumePages, InPlacePages, VolumeInv, Typed, Complete, VolumeRole, CreatingHiddenSysVol, SwitchTo
<1>8. RescueInv'
  BY <1>1, <1>2 DEF WInv, WTypes, FlagSets, OsInv, PageRoleInv, ModeInv, SysEncPages, VolumePages, InPlacePages, RescueInv, SwitchTo
<1> QED BY <1>3, <1>4, <1>5, <1>6, <1>7, <1>8 DEF WInv

\* An ordinary or a hidden system is chosen.
LEMMA TypeStep ==
    ASSUME WInv, NEW os \in BOOLEAN, ChooseSysEncType(os)
    PROVE  WInv'
<1>1. /\ RestKept /\ nCurPageNo = "SYSENC_TYPE" /\ transformThread = "off" /\ nCurPageNo' = nCurPageNo
      /\ WizardMode' = WizardMode /\ sysEncMutex' = sysEncMutex /\ volumePassword' = volumePassword /\ flg' = [flg EXCEPT !.os = os, !.hidden = os, !.outer = os]
  BY DEF ChooseSysEncType, OnPage, GoPage, StayInMode, RestKept, wizardRest, sysPrep, volPrep
<1>2. flg' \in FlagSets
  BY <1>1 DEF WInv, WTypes, FlagSets
<1>3. flg'.os = os /\ flg'.hidden = os /\ flg'.outer = os /\ flg'.inPlace = flg.inPlace /\ flg'.finished = flg.finished
  BY <1>1 DEF WInv, WTypes, FlagSets
<1>4. WTypes'
  BY <1>1, <1>2, <1>3 DEF WInv, WTypes, PageNames, RestKept
<1>5. OsInv'
  BY <1>1, <1>2, <1>3 DEF WInv, WTypes, FlagSets, OsInv, PageRoleInv, ModeInv, SysEncPages, VolumePages, InPlacePages, RestKept
<1>6. PageRoleInv'
  BY <1>1, <1>2, <1>3 DEF WInv, WTypes, FlagSets, OsInv, PageRoleInv, ModeInv, SysEncPages, VolumePages, InPlacePages, RestKept
<1>7. ModeInv'
  BY <1>1, <1>2, <1>3 DEF WInv, WTypes, FlagSets, OsInv, PageRoleInv, ModeInv, SysEncPages, VolumePages, InPlacePages, Complete, RestKept
<1>8. VolumeInv'
  BY <1>1, <1>2, <1>3 DEF WInv, WTypes, FlagSets, OsInv, PageRoleInv, ModeInv, SysEncPages, VolumePages, InPlacePages, VolumeInv, Typed, Complete, VolumeRole, CreatingHiddenSysVol, RestKept
<1>9. RescueInv'
  BY <1>1, <1>2, <1>3 DEF WInv, WTypes, FlagSets, OsInv, PageRoleInv, ModeInv, SysEncPages, VolumePages, InPlacePages, RescueInv, RestKept
<1> QED BY <1>4, <1>5, <1>6, <1>7, <1>8, <1>9 DEF WInv

\* On from the choice of a hidden system.
LEMMA TypeNextStep ==
    ASSUME WInv, SysEncTypeNext, flg.os
    PROVE  WInv'
<1>1. /\ RestKept /\ nCurPageNo = "SYSENC_TYPE" /\ transformThread = "off" /\ nCurPageNo' = "HIDDEN_OS_REQ_CHECK"
      /\ WizardMode' = WizardMode /\ sysEncMutex' = sysEncMutex /\ volumePassword' = volumePassword /\ flg' = [flg EXCEPT !.whole = FALSE, !.direct = FALSE]
  BY DEF SysEncTypeNext, OnPage, GoPage, StayInMode, RestKept, wizardRest, sysPrep, volPrep
<1>2. flg' \in FlagSets
  BY <1>1 DEF WInv, WTypes, FlagSets
<1>3. ~flg'.direct /\ flg'.os = flg.os /\ flg'.hidden = flg.hidden /\ flg'.outer = flg.outer /\ flg'.inPlace = flg.inPlace /\ flg'.finished = flg.finished
  BY <1>1 DEF WInv, WTypes, FlagSets
<1>4. WTypes'
  BY <1>1, <1>2, <1>3 DEF WInv, WTypes, PageNames, RestKept
<1>5. OsInv'
  BY <1>1, <1>2, <1>3 DEF WInv, WTypes, FlagSets, OsInv, PageRoleInv, ModeInv, SysEncPages, VolumePages, InPlacePages, RestKept
<1>6. PageRoleInv'
  BY <1>1, <1>2, <1>3 DEF WInv, WTypes, FlagSets, OsInv, PageRoleInv, ModeInv, SysEncPages, VolumePages, InPlacePages, RestKept
<1>7. ModeInv'
  BY <1>1, <1>2, <1>3 DEF WInv, WTypes, FlagSets, OsInv, PageRoleInv, ModeInv, SysEncPages, VolumePages, InPlacePages, Complete, RestKept
<1>8. VolumeInv'
  BY <1>1, <1>2, <1>3 DEF WInv, WTypes, FlagSets, OsInv, PageRoleInv, ModeInv, SysEncPages, VolumePages, InPlacePages, VolumeInv, Typed, Complete, VolumeRole, CreatingHiddenSysVol, RestKept
<1>9. RescueInv'
  BY <1>1, <1>2, <1>3 DEF WInv, WTypes, FlagSets, OsInv, PageRoleInv, ModeInv, SysEncPages, VolumePages, InPlacePages, RescueInv, RestKept
<1> QED BY <1>4, <1>5, <1>6, <1>7, <1>8, <1>9 DEF WInv

\* The whole drive or the partition is chosen.
LEMMA SpanStep ==
    ASSUME WInv, NEW entire \in BOOLEAN, SpanNext(entire)
    PROVE  WInv'
<1>1. /\ RestKept /\ nCurPageNo = "SYSENC_SPAN" /\ transformThread = "off" /\ nCurPageNo' \in {"PRE_DRIVE_ANALYSIS", "MULTI_BOOT_MODE"}
      /\ WizardMode' = WizardMode /\ sysEncMutex' = sysEncMutex /\ volumePassword' = volumePassword
      /\ flg' = [flg EXCEPT !.whole = entire]
  BY DEF SpanNext, OnPage, GoPage, StayInMode, RestKept, wizardRest, sysPrep, volPrep
<1>2. flg' \in FlagSets
  BY <1>1 DEF WInv, WTypes, FlagSets
<1>3. flg'.os = flg.os /\ flg'.hidden = flg.hidden /\ flg'.outer = flg.outer /\ flg'.direct = flg.direct /\ flg'.inPlace = flg.inPlace /\ flg'.finished = flg.finished
  BY <1>1 DEF WInv, WTypes, FlagSets
<1>4. WTypes'
  BY <1>1, <1>2, <1>3 DEF WInv, WTypes, PageNames, RestKept
<1>5. OsInv'
  BY <1>1, <1>2, <1>3 DEF WInv, WTypes, FlagSets, OsInv, PageRoleInv, ModeInv, SysEncPages, VolumePages, InPlacePages, RestKept
<1>6. PageRoleInv'
  BY <1>1, <1>2, <1>3 DEF WInv, WTypes, FlagSets, OsInv, PageRoleInv, ModeInv, SysEncPages, VolumePages, InPlacePages, RestKept
<1>7. ModeInv'
  BY <1>1, <1>2, <1>3 DEF WInv, WTypes, FlagSets, OsInv, PageRoleInv, ModeInv, SysEncPages, VolumePages, InPlacePages, Complete, RestKept
<1>8. VolumeInv'
  BY <1>1, <1>2, <1>3 DEF WInv, WTypes, FlagSets, OsInv, PageRoleInv, ModeInv, SysEncPages, VolumePages, InPlacePages, VolumeInv, Typed, Complete, VolumeRole, CreatingHiddenSysVol, RestKept
<1>9. RescueInv'
  BY <1>1, <1>2, <1>3 DEF WInv, WTypes, FlagSets, OsInv, PageRoleInv, ModeInv, SysEncPages, VolumePages, InPlacePages, RescueInv, RestKept
<1> QED BY <1>4, <1>5, <1>6, <1>7, <1>8, <1>9 DEF WInv

\* A change to the mode for devices, of the flags g.
NonSysMode(g) ==
    /\ WizardMode' = "nonsys" /\ sysEncMutex' \in {"free", sysEncMutex} /\ volumePassword' \in {"none", volumePassword}
    /\ flg' \in FlagSets /\ flg'.os = g.os /\ flg'.hidden = g.hidden /\ flg'.outer = g.outer /\ flg'.direct = g.direct
    /\ flg'.inPlace = g.inPlace /\ flg'.finished = g.finished

LEMMA NonSysIs == ASSUME NEW g \in FlagSets, ChangeWizardMode("nonsys", g) PROVE NonSysMode(g)
<1>1. WizardMode' = "nonsys" /\ sysEncMutex' \in {"free", sysEncMutex} /\ volumePassword' \in {"none", volumePassword}
  BY DEF ChangeWizardMode, MutexClosed, PwdAfter
<1>2. PICK b \in BOOLEAN : b = (g.inPlace /\ "nonsys" = "nonsys")
  BY Zenon
<1>3. PICK d \in BOOLEAN : d = ("nonsys" # "file")
  BY Zenon
<1>4. flg' = [g EXCEPT !.inPlace = b, !.device = d]
  BY <1>2, <1>3, Zenon DEF ChangeWizardMode, FlagsAfter
<1>5. b = g.inPlace
  BY <1>2 DEF FlagSets
<1>6. flg' \in FlagSets
  BY <1>4 DEF FlagSets
<1>7. /\ flg'.os = g.os /\ flg'.hidden = g.hidden /\ flg'.outer = g.outer /\ flg'.direct = g.direct
      /\ flg'.inPlace = g.inPlace /\ flg'.finished = g.finished
  BY <1>4, <1>5 DEF FlagSets
<1> QED BY <1>1, <1>6, <1>7 DEF NonSysMode

\* The number of systems is given; a hidden system goes on with its outer volume.
LEMMA MultiBootStep ==
    ASSUME WInv, NEW n \in 1 .. 2, MultiBootNext(n)
    PROVE  WInv'
<1>1. RestKept /\ nCurPageNo = "MULTI_BOOT_MODE" /\ transformThread = "off"
  BY DEF MultiBootNext, OnPage, RestKept, wizardRest, sysPrep, volPrep
<1>2. PICK k \in 0 .. 2 : k = n
  OBVIOUS
<1>3. PICK g \in FlagSets : /\ g = [flg EXCEPT !.multi = k] /\ g.os = flg.os /\ g.hidden = flg.hidden /\ g.outer = flg.outer
                            /\ g.direct = flg.direct /\ g.inPlace = flg.inPlace /\ g.finished = flg.finished
  <2>1. [flg EXCEPT !.multi = k] \in FlagSets
    BY DEF WInv, WTypes, FlagSets
  <2>2. /\ [flg EXCEPT !.multi = k].os = flg.os /\ [flg EXCEPT !.multi = k].hidden = flg.hidden
        /\ [flg EXCEPT !.multi = k].outer = flg.outer /\ [flg EXCEPT !.multi = k].direct = flg.direct
        /\ [flg EXCEPT !.multi = k].inPlace = flg.inPlace /\ [flg EXCEPT !.multi = k].finished = flg.finished
    BY DEF WInv, WTypes, FlagSets
  <2> QED BY <2>1, <2>2, Zenon
<1>4. \/ flg.os /\ NonSysMode(g) /\ nCurPageNo' = "HOST_PRE_CIPHER"
      \/ /\ ~flg.os /\ flg' = g /\ WizardMode' = WizardMode /\ sysEncMutex' = sysEncMutex /\ volumePassword' = volumePassword
         /\ nCurPageNo' \in {"SYS_EQ_BOOT", "CIPHER"}
  <2>1. CASE flg.os
    <3>1. ChangeWizardMode("nonsys", g) /\ nCurPageNo' = "HOST_PRE_CIPHER"
      BY <1>2, <1>3, <2>1 DEF MultiBootNext, GoPage
    <3> QED BY <2>1, <3>1, NonSysIs
  <2>2. CASE ~flg.os
    BY <1>2, <1>3, <2>2 DEF MultiBootNext, GoPage, StayInMode
  <2> QED BY <2>1, <2>2
<1>5. WTypes'
  BY <1>1, <1>2, <1>3, <1>4 DEF WInv, WTypes, PageNames, RestKept, NonSysMode
<1>6. OsInv'
  BY <1>1, <1>2, <1>3, <1>4 DEF WInv, WTypes, FlagSets, OsInv, PageRoleInv, ModeInv, SysEncPages, VolumePages, InPlacePages, RestKept, NonSysMode
<1>7. PageRoleInv'
  BY <1>1, <1>2, <1>3, <1>4 DEF WInv, WTypes, FlagSets, OsInv, PageRoleInv, ModeInv, SysEncPages, VolumePages, InPlacePages, RestKept, NonSysMode
<1>8. ModeInv'
  BY <1>1, <1>2, <1>3, <1>4 DEF WInv, WTypes, FlagSets, OsInv, PageRoleInv, ModeInv, SysEncPages, VolumePages, InPlacePages, Complete, RestKept, NonSysMode
<1>9. VolumeInv'
  BY <1>1, <1>2, <1>3, <1>4 DEF WInv, WTypes, FlagSets, OsInv, PageRoleInv, ModeInv, SysEncPages, VolumePages, InPlacePages, VolumeInv, Typed, Complete, VolumeRole, CreatingHiddenSysVol, RestKept, NonSysMode
<1>10. RescueInv'
  BY <1>1, <1>2, <1>3, <1>4 DEF WInv, WTypes, FlagSets, OsInv, PageRoleInv, ModeInv, SysEncPages, VolumePages, InPlacePages, RescueInv, RestKept, NonSysMode
<1> QED BY <1>5, <1>6, <1>7, <1>8, <1>9, <1>10 DEF WInv

\* An ordinary or a hidden volume is chosen.
LEMMA VolumeTypeStep ==
    ASSUME WInv, NEW hidden \in BOOLEAN, VolumeTypeNext(hidden)
    PROVE  WInv'
<1>1. /\ RestKept /\ nCurPageNo = "VOLUME_TYPE" /\ transformThread = "off" /\ nCurPageNo' = (IF hidden THEN "HIDDEN_VOL_WIZARD_MODE" ELSE "VOLUME_LOCATION")
      /\ WizardMode' = WizardMode /\ sysEncMutex' = sysEncMutex /\ volumePassword' = volumePassword
      /\ \/ hidden /\ flg' = [flg EXCEPT !.hidden = TRUE, !.outer = TRUE, !.inPlace = FALSE]
         \/ ~hidden /\ flg' = [flg EXCEPT !.hidden = FALSE, !.outer = FALSE, !.direct = FALSE]
  BY DEF VolumeTypeNext, OnPage, GoPage, StayInMode, RestKept, wizardRest, sysPrep, volPrep
<1>2. flg' \in FlagSets
  <2>1. CASE flg' = [flg EXCEPT !.hidden = TRUE, !.outer = TRUE, !.inPlace = FALSE]
    BY <2>1 DEF WInv, WTypes, FlagSets
  <2>2. CASE flg' = [flg EXCEPT !.hidden = FALSE, !.outer = FALSE, !.direct = FALSE]
    BY <2>2 DEF WInv, WTypes, FlagSets
  <2> QED BY <1>1, <2>1, <2>2
<1>3. flg'.os = flg.os /\ flg'.hidden = hidden /\ flg'.outer = hidden /\ (hidden => ~flg'.inPlace)
  BY <1>1 DEF WInv, WTypes, FlagSets
<1>4. WTypes'
  BY <1>1, <1>2, <1>3 DEF WInv, WTypes, PageNames, RestKept
<1>5. OsInv'
  BY <1>1, <1>2, <1>3 DEF WInv, WTypes, FlagSets, OsInv, PageRoleInv, ModeInv, SysEncPages, VolumePages, InPlacePages, RestKept
<1>6. PageRoleInv'
  BY <1>1, <1>2, <1>3 DEF WInv, WTypes, FlagSets, OsInv, PageRoleInv, ModeInv, SysEncPages, VolumePages, InPlacePages, RestKept
<1>7. ModeInv'
  BY <1>1, <1>2, <1>3 DEF WInv, WTypes, FlagSets, OsInv, PageRoleInv, ModeInv, SysEncPages, VolumePages, InPlacePages, Complete, RestKept
<1>8. VolumeInv'
  BY <1>1, <1>2, <1>3 DEF WInv, WTypes, FlagSets, OsInv, PageRoleInv, ModeInv, SysEncPages, VolumePages, InPlacePages, VolumeInv, Typed, Complete, VolumeRole, CreatingHiddenSysVol, RestKept
<1>9. RescueInv'
  BY <1>1, <1>2, <1>3 DEF WInv, WTypes, FlagSets, OsInv, PageRoleInv, ModeInv, SysEncPages, VolumePages, InPlacePages, RescueInv, RestKept
<1> QED BY <1>4, <1>5, <1>6, <1>7, <1>8, <1>9 DEF WInv

\* The outer volume is to be made, or is there.
LEMMA HiddenModeStep ==
    ASSUME WInv, NEW direct \in BOOLEAN, HiddenVolModeNext(direct)
    PROVE  WInv'
<1>1. /\ RestKept /\ nCurPageNo = "HIDDEN_VOL_WIZARD_MODE" /\ transformThread = "off" /\ nCurPageNo' = "VOLUME_LOCATION"
      /\ WizardMode' = WizardMode /\ sysEncMutex' = sysEncMutex /\ volumePassword' = volumePassword
      /\ flg' = [flg EXCEPT !.direct = direct]
  BY DEF HiddenVolModeNext, OnPage, GoPage, StayInMode, RestKept, wizardRest, sysPrep, volPrep
<1>2. flg' \in FlagSets
  BY <1>1 DEF WInv, WTypes, FlagSets
<1>3. flg'.os = flg.os /\ flg'.hidden = flg.hidden /\ flg'.outer = flg.outer /\ flg'.inPlace = flg.inPlace /\ flg'.finished = flg.finished
  BY <1>1 DEF WInv, WTypes, FlagSets
<1>4. WTypes'
  BY <1>1, <1>2, <1>3 DEF WInv, WTypes, PageNames, RestKept
<1>5. OsInv'
  BY <1>1, <1>2, <1>3 DEF WInv, WTypes, FlagSets, OsInv, PageRoleInv, ModeInv, SysEncPages, VolumePages, InPlacePages, RestKept
<1>6. PageRoleInv'
  BY <1>1, <1>2, <1>3 DEF WInv, WTypes, FlagSets, OsInv, PageRoleInv, ModeInv, SysEncPages, VolumePages, InPlacePages, RestKept
<1>7. ModeInv'
  BY <1>1, <1>2, <1>3 DEF WInv, WTypes, FlagSets, OsInv, PageRoleInv, ModeInv, SysEncPages, VolumePages, InPlacePages, Complete, RestKept
<1>8. VolumeInv'
  BY <1>1, <1>2, <1>3 DEF WInv, WTypes, FlagSets, OsInv, PageRoleInv, ModeInv, SysEncPages, VolumePages, InPlacePages, VolumeInv, Typed, Complete, VolumeRole, CreatingHiddenSysVol, RestKept
<1>9. RescueInv'
  BY <1>1, <1>2, <1>3 DEF WInv, WTypes, FlagSets, OsInv, PageRoleInv, ModeInv, SysEncPages, VolumePages, InPlacePages, RescueInv, RestKept
<1> QED BY <1>4, <1>5, <1>6, <1>7, <1>8, <1>9 DEF WInv

\* The location of the volume is given.
LEMMA LocationStep ==
    ASSUME WInv, LocationNext
    PROVE  WInv'
<1>1. /\ nCurPageNo = "VOLUME_LOCATION" /\ transformThread = "off" /\ transformThread' = "off" /\ hostScanned' = FALSE
      /\ WizardMode' = WizardMode /\ flg' = flg /\ sysEncMutex' = sysEncMutex /\ volumePassword' = volumePassword
      /\ hiddenVolHost' = hiddenVolHost /\ keyGen' = keyGen /\ rescueGen' = rescueGen /\ discGen' = discGen
      /\ dontVerify' = dontVerify /\ bootInstalled' = bootInstalled /\ switchFailed' = switchFailed
  BY DEF LocationNext, OnPage, sysPrep
<1>2. \/ nCurPageNo' = "HOST_PASSWORD" /\ flg.direct /\ flg.outer
      \/ nCurPageNo' = "HOST_PRE_CIPHER" /\ flg.hidden /\ flg.outer
      \/ nCurPageNo' = "DEVICE_TRANSFORM_MODE" /\ ~flg.hidden
      \/ nCurPageNo' = "CIPHER" /\ ~flg.hidden
  BY <1>1 DEF LocationNext, GoPage, WInv, WTypes, FlagSets, PageRoleInv
<1>3. WTypes'
  <2>1. nCurPageNo' \in {"HOST_PASSWORD", "HOST_PRE_CIPHER", "DEVICE_TRANSFORM_MODE", "CIPHER"}
    BY <1>2
  <2>2. hostScanned' \in BOOLEAN /\ nCurPageNo' \in PageNames /\ transformThread' = "off"
    BY <1>1, <2>1 DEF PageNames
  <2> QED BY <1>1, <2>2 DEF WInv, WTypes
<1>4. OsInv'
  BY <1>1, <1>2 DEF WInv, WTypes, FlagSets, OsInv, PageRoleInv, ModeInv, SysEncPages, VolumePages, InPlacePages
<1>5. PageRoleInv'
  BY <1>1, <1>2 DEF WInv, WTypes, FlagSets, OsInv, PageRoleInv, ModeInv, SysEncPages, VolumePages, InPlacePages
<1>6. ModeInv'
  BY <1>1, <1>2 DEF WInv, WTypes, FlagSets, OsInv, PageRoleInv, ModeInv, SysEncPages, VolumePages, InPlacePages, Complete
<1>7. VolumeInv'
  BY <1>1, <1>2 DEF WInv, WTypes, FlagSets, OsInv, PageRoleInv, ModeInv, SysEncPages, VolumePages, InPlacePages, VolumeInv, Typed, Complete, VolumeRole, CreatingHiddenSysVol
<1>8. RescueInv'
  BY <1>1, <1>2 DEF WInv, WTypes, FlagSets, OsInv, PageRoleInv, ModeInv, SysEncPages, VolumePages, InPlacePages, RescueInv
<1> QED BY <1>3, <1>4, <1>5, <1>6, <1>7, <1>8 DEF WInv

\* A device was typed in the mode for containers.
LEMMA LocationDeviceStep ==
    ASSUME WInv, LocationIsDevice
    PROVE  WInv'
<1>1. RestKept /\ nCurPageNo = "VOLUME_LOCATION" /\ transformThread = "off" /\ nCurPageNo' = "VOLUME_TYPE"
  BY DEF LocationIsDevice, OnPage, GoPage, RestKept, wizardRest, sysPrep, volPrep
<1>2. NonSysMode(flg)
  BY NonSysIs DEF LocationIsDevice, WInv, WTypes
<1>3. WTypes'
  BY <1>1, <1>2 DEF WInv, WTypes, PageNames, RestKept, NonSysMode
<1>4. OsInv'
  BY <1>1, <1>2 DEF WInv, WTypes, FlagSets, OsInv, PageRoleInv, ModeInv, SysEncPages, VolumePages, InPlacePages, RestKept, NonSysMode
<1>5. PageRoleInv'
  BY <1>1, <1>2 DEF WInv, WTypes, FlagSets, OsInv, PageRoleInv, ModeInv, SysEncPages, VolumePages, InPlacePages, RestKept, NonSysMode
<1>6. ModeInv'
  BY <1>1, <1>2 DEF WInv, WTypes, FlagSets, OsInv, PageRoleInv, ModeInv, SysEncPages, VolumePages, InPlacePages, Complete, RestKept, NonSysMode
<1>7. VolumeInv'
  BY <1>1, <1>2 DEF WInv, WTypes, FlagSets, OsInv, PageRoleInv, ModeInv, SysEncPages, VolumePages, InPlacePages, VolumeInv, Typed, Complete, VolumeRole, CreatingHiddenSysVol, RestKept, NonSysMode
<1>8. RescueInv'
  BY <1>1, <1>2 DEF WInv, WTypes, FlagSets, OsInv, PageRoleInv, ModeInv, SysEncPages, VolumePages, InPlacePages, RescueInv, RestKept, NonSysMode
<1> QED BY <1>3, <1>4, <1>5, <1>6, <1>7, <1>8 DEF WInv

\* The partition is encrypted in place or formatted.
LEMMA TransformStep ==
    ASSUME WInv, NEW inPlace \in BOOLEAN, TransformModeNext(inPlace)
    PROVE  WInv'
<1>1. /\ RestKept /\ nCurPageNo = "DEVICE_TRANSFORM_MODE" /\ transformThread = "off" /\ nCurPageNo' = (IF inPlace THEN "CIPHER" ELSE "HOST_PRE_CIPHER")
      /\ WizardMode' = WizardMode /\ sysEncMutex' = sysEncMutex /\ volumePassword' = volumePassword
      /\ \/ inPlace /\ flg' = [flg EXCEPT !.inPlace = TRUE, !.hidden = FALSE, !.direct = FALSE, !.outer = FALSE]
         \/ ~inPlace /\ flg' = [flg EXCEPT !.inPlace = FALSE]
  BY DEF TransformModeNext, OnPage, GoPage, StayInMode, RestKept, wizardRest, sysPrep, volPrep
<1>2. flg' \in FlagSets
  <2>1. CASE flg' = [flg EXCEPT !.inPlace = TRUE, !.hidden = FALSE, !.direct = FALSE, !.outer = FALSE]
    BY <2>1 DEF WInv, WTypes, FlagSets
  <2>2. CASE flg' = [flg EXCEPT !.inPlace = FALSE]
    BY <2>2 DEF WInv, WTypes, FlagSets
  <2> QED BY <1>1, <2>1, <2>2
<1>3. /\ flg'.os = flg.os /\ flg'.inPlace = inPlace /\ (flg'.hidden => flg.hidden) /\ (flg'.outer => flg.outer)
      /\ ~inPlace => flg'.hidden = flg.hidden /\ flg'.outer = flg.outer
  BY <1>1 DEF WInv, WTypes, FlagSets
<1>4. WTypes'
  BY <1>1, <1>2, <1>3 DEF WInv, WTypes, PageNames, RestKept
<1>5. OsInv'
  BY <1>1, <1>2, <1>3 DEF WInv, WTypes, FlagSets, OsInv, PageRoleInv, ModeInv, SysEncPages, VolumePages, InPlacePages, RestKept
<1>6. PageRoleInv'
  BY <1>1, <1>2, <1>3 DEF WInv, WTypes, FlagSets, OsInv, PageRoleInv, ModeInv, SysEncPages, VolumePages, InPlacePages, RestKept
<1>7. ModeInv'
  BY <1>1, <1>2, <1>3 DEF WInv, WTypes, FlagSets, OsInv, PageRoleInv, ModeInv, SysEncPages, VolumePages, InPlacePages, Complete, RestKept
<1>8. VolumeInv'
  BY <1>1, <1>2, <1>3 DEF WInv, WTypes, FlagSets, OsInv, PageRoleInv, ModeInv, SysEncPages, VolumePages, InPlacePages, VolumeInv, Typed, Complete, VolumeRole, CreatingHiddenSysVol, RestKept
<1>9. RescueInv'
  BY <1>1, <1>2, <1>3 DEF WInv, WTypes, FlagSets, OsInv, PageRoleInv, ModeInv, SysEncPages, VolumePages, InPlacePages, RescueInv, RestKept
<1> QED BY <1>4, <1>5, <1>6, <1>7, <1>8, <1>9 DEF WInv

\* The host of the hidden volume is scanned.
LEMMA ScanStep ==
    ASSUME WInv, NEW found \in BOOLEAN, HostPasswordNext(found) \/ FinishedNextScan(found)
    PROVE  WInv'
<1>1. /\ nCurPageNo = "HOST_PASSWORD" \/ (nCurPageNo = "FORMAT_FINISHED" /\ ~Complete)
      /\ transformThread = "off" /\ transformThread' = "off" /\ WizardMode' = WizardMode /\ sysEncMutex' = sysEncMutex
      /\ keyGen' = keyGen /\ rescueGen' = rescueGen /\ discGen' = discGen /\ dontVerify' = dontVerify
      /\ bootInstalled' = bootInstalled /\ switchFailed' = switchFailed
  BY DEF HostPasswordNext, FinishedNextScan, OnPage, sysPrep
<1>2. \/ /\ hiddenVolHost' = "none" /\ hostScanned' = TRUE /\ volumePassword' = "none" /\ nCurPageNo' = "HIDDEN_PRE_CIPHER"
         /\ flg' = [flg EXCEPT !.outer = FALSE, !.finished = FALSE]
      \/ /\ hiddenVolHost' \in {"none", "ro"} /\ hostScanned' = hostScanned /\ volumePassword' = volumePassword /\ flg' = flg
         /\ nCurPageNo' = nCurPageNo
  BY DEF HostPasswordNext, FinishedNextScan, ScanHost, GoPage
<1>3. flg' \in FlagSets
  <2>1. CASE flg' = [flg EXCEPT !.outer = FALSE, !.finished = FALSE]
    BY <2>1 DEF WInv, WTypes, FlagSets
  <2> QED BY <1>2, <2>1 DEF WInv, WTypes
<1>4. /\ flg'.os = flg.os /\ flg'.hidden = flg.hidden /\ flg'.direct = flg.direct /\ flg'.inPlace = flg.inPlace
      /\ flg' = flg \/ (nCurPageNo' = "HIDDEN_PRE_CIPHER" /\ ~flg'.outer)
  BY <1>2 DEF WInv, WTypes, FlagSets
<1>5. WTypes'
  BY <1>1, <1>2, <1>3, <1>4 DEF WInv, WTypes, PageNames
<1>6. OsInv'
  BY <1>1, <1>2, <1>3, <1>4 DEF WInv, WTypes, FlagSets, OsInv, PageRoleInv, ModeInv, SysEncPages, VolumePages, InPlacePages
<1>7. PageRoleInv'
  BY <1>1, <1>2, <1>3, <1>4 DEF WInv, WTypes, FlagSets, OsInv, PageRoleInv, ModeInv, SysEncPages, VolumePages, InPlacePages
<1>8. ModeInv'
  BY <1>1, <1>2, <1>3, <1>4 DEF WInv, WTypes, FlagSets, OsInv, PageRoleInv, ModeInv, SysEncPages, VolumePages, InPlacePages, Complete
<1>9. VolumeInv'
  BY <1>1, <1>2, <1>3, <1>4 DEF WInv, WTypes, FlagSets, OsInv, PageRoleInv, ModeInv, SysEncPages, VolumePages, InPlacePages, VolumeInv, Typed, Complete, VolumeRole, CreatingHiddenSysVol
<1>10. RescueInv'
  BY <1>1, <1>2, <1>3, <1>4 DEF WInv, WTypes, FlagSets, OsInv, PageRoleInv, ModeInv, SysEncPages, VolumePages, InPlacePages, RescueInv
<1> QED BY <1>5, <1>6, <1>7, <1>8, <1>9, <1>10 DEF WInv

\* A format begins.
LEMMA FormatStep ==
    ASSUME WInv, FormatNext
    PROVE  WInv'
<1>1. /\ nCurPageNo = "FORMAT" /\ nCurPageNo' = "FORMAT" /\ transformThread = "off" /\ transformThread' = "running"
      /\ WizardMode' = WizardMode /\ flg' = flg /\ sysEncMutex' = sysEncMutex /\ volumePassword' = volumePassword
      /\ keyGen' = keyGen /\ rescueGen' = rescueGen /\ discGen' = discGen /\ dontVerify' = dontVerify
      /\ bootInstalled' = bootInstalled /\ switchFailed' = switchFailed
      /\ flg.outer \/ hiddenVolHost' = hiddenVolHost
      /\ hiddenVolHost' \in {hiddenVolHost, "none"} /\ hostScanned' = (hostScanned /\ ~flg.outer)
  BY DEF FormatNext, OnPage, sysPrep
<1>2. hostScanned' \in BOOLEAN /\ (~flg.outer => hostScanned' = hostScanned)
  BY <1>1 DEF WInv, WTypes
<1>3. WTypes'
  BY <1>1, <1>2 DEF WInv, WTypes, PageNames
<1>4. OsInv'
  BY <1>1, <1>2 DEF WInv, WTypes, FlagSets, OsInv, PageRoleInv, ModeInv, SysEncPages, VolumePages, InPlacePages
<1>5. PageRoleInv'
  BY <1>1, <1>2 DEF WInv, WTypes, FlagSets, OsInv, PageRoleInv, ModeInv, SysEncPages, VolumePages, InPlacePages
<1>6. ModeInv'
  BY <1>1, <1>2 DEF WInv, WTypes, FlagSets, OsInv, PageRoleInv, ModeInv, SysEncPages, VolumePages, InPlacePages, Complete
<1>7. VolumeInv'
  BY <1>1, <1>2 DEF WInv, WTypes, FlagSets, OsInv, PageRoleInv, ModeInv, SysEncPages, VolumePages, InPlacePages, VolumeInv, Typed, Complete, VolumeRole, CreatingHiddenSysVol
<1>8. RescueInv'
  BY <1>1, <1>2 DEF WInv, WTypes, FlagSets, OsInv, PageRoleInv, ModeInv, SysEncPages, VolumePages, InPlacePages, RescueInv
<1> QED BY <1>3, <1>4, <1>5, <1>6, <1>7, <1>8 DEF WInv

\* The format ends; the outer volume is mounted for the user.
LEMMA FormatEndsStep ==
    ASSUME WInv, FormatEnds
    PROVE  WInv'
<1>1. /\ nCurPageNo = "FORMAT" /\ nCurPageNo' = "FORMAT" /\ transformThread = "running" /\ transformThread' = "finished"
      /\ WizardMode' = WizardMode /\ sysEncMutex' = sysEncMutex /\ volumePassword' = volumePassword /\ hostScanned' = hostScanned
      /\ keyGen' = keyGen /\ rescueGen' = rescueGen /\ discGen' = discGen /\ dontVerify' = dontVerify
      /\ bootInstalled' = bootInstalled /\ switchFailed' = switchFailed
  BY DEF FormatEnds, sysPrep
<1>2. PICK b \in BOOLEAN : b = (flg.finished \/ flg.hidden)
  BY Zenon
<1>3. \/ flg.outer /\ hiddenVolHost' = "rw" /\ flg' = [flg EXCEPT !.outer = FALSE, !.finished = FALSE]
      \/ ~flg.outer /\ hiddenVolHost' = hiddenVolHost /\ flg' = [flg EXCEPT !.finished = b]
  <2>1. CASE flg.outer
    BY <2>1 DEF FormatEnds
  <2>2. CASE ~flg.outer
    BY <1>2, <2>2, Zenon DEF FormatEnds
  <2> QED BY <2>1, <2>2
<1>4. flg' \in FlagSets
  <2>1. CASE flg' = [flg EXCEPT !.outer = FALSE, !.finished = FALSE]
    BY <2>1 DEF WInv, WTypes, FlagSets
  <2>2. CASE flg' = [flg EXCEPT !.finished = b]
    BY <2>2 DEF WInv, WTypes, FlagSets
  <2> QED BY <1>3, <2>1, <2>2
<1>5. /\ flg'.os = flg.os /\ flg'.hidden = flg.hidden /\ flg'.direct = flg.direct /\ flg'.inPlace = flg.inPlace /\ ~flg'.outer
      /\ \/ flg.outer /\ ~flg'.finished
         \/ ~flg.outer /\ hiddenVolHost' = hiddenVolHost /\ (flg.hidden => flg'.finished)
  BY <1>2, <1>3 DEF WInv, WTypes, FlagSets
<1>6. hiddenVolHost' \in {"none", "rw", "ro"}
  BY <1>3 DEF WInv, WTypes
<1>7. WTypes'
  BY <1>1, <1>2, <1>3, <1>4, <1>5, <1>6 DEF WInv, WTypes, PageNames
<1>8. OsInv'
  BY <1>1, <1>2, <1>3, <1>4, <1>5, <1>6 DEF WInv, WTypes, FlagSets, OsInv, PageRoleInv, ModeInv, SysEncPages, VolumePages, InPlacePages
<1>9. PageRoleInv'
  BY <1>1, <1>2, <1>3, <1>4, <1>5, <1>6 DEF WInv, WTypes, FlagSets, OsInv, PageRoleInv, ModeInv, SysEncPages, VolumePages, InPlacePages
<1>10. ModeInv'
  BY <1>1, <1>2, <1>3, <1>4, <1>5, <1>6 DEF WInv, WTypes, FlagSets, OsInv, PageRoleInv, ModeInv, SysEncPages, VolumePages, InPlacePages, Complete
<1>11. VolumeInv'
  BY <1>1, <1>2, <1>3, <1>4, <1>5, <1>6 DEF WInv, WTypes, FlagSets, OsInv, PageRoleInv, ModeInv, SysEncPages, VolumePages, InPlacePages, VolumeInv, Typed, Complete, VolumeRole, CreatingHiddenSysVol
<1>12. RescueInv'
  BY <1>1, <1>2, <1>3, <1>4, <1>5, <1>6 DEF WInv, WTypes, FlagSets, OsInv, PageRoleInv, ModeInv, SysEncPages, VolumePages, InPlacePages, RescueInv
<1> QED BY <1>7, <1>8, <1>9, <1>10, <1>11, <1>12 DEF WInv

\* The format fails, or its end is reported.
LEMMA ThreadStopStep ==
    ASSUME WInv, nCurPageNo # "END", FormatFails \/ FormatFinished
    PROVE  WInv'
<1>1. /\ transformThread \in {"running", "finished"} /\ transformThread' = "off"
      /\ WizardMode' = WizardMode /\ flg' = flg /\ sysEncMutex' = sysEncMutex /\ volumePassword' = volumePassword
      /\ hiddenVolHost' = hiddenVolHost /\ hostScanned' = hostScanned
      /\ keyGen' = keyGen /\ rescueGen' = rescueGen /\ discGen' = discGen /\ dontVerify' = dontVerify
      /\ bootInstalled' = bootInstalled /\ switchFailed' = switchFailed
  BY DEF FormatFails, FormatFinished, sysPrep
<1>2. \/ transformThread = "running" /\ nCurPageNo' = nCurPageNo
      \/ transformThread = "finished" /\ flg.inPlace /\ nCurPageNo' = "INPLACE_FINISHED"
      \/ transformThread = "finished" /\ ~flg.inPlace /\ nCurPageNo' = "FORMAT_FINISHED"
  BY DEF FormatFails, FormatFinished, GoPage
<1>3. nCurPageNo \in {"FORMAT", "INPLACE_ENCRYPTION"} /\ nCurPageNo' \in PageNames
  BY <1>1, <1>2 DEF WInv, WTypes, PageNames
<1>4. WTypes'
  BY <1>1, <1>2, <1>3 DEF WInv, WTypes, PageNames
<1>5. OsInv'
  BY <1>1, <1>2, <1>3 DEF WInv, WTypes, FlagSets, OsInv, PageRoleInv, ModeInv, SysEncPages, VolumePages, InPlacePages
<1>6. PageRoleInv'
  BY <1>1, <1>2, <1>3 DEF WInv, WTypes, FlagSets, OsInv, PageRoleInv, ModeInv, SysEncPages, VolumePages, InPlacePages
<1>7. ModeInv'
  BY <1>1, <1>2, <1>3 DEF WInv, WTypes, FlagSets, OsInv, PageRoleInv, ModeInv, SysEncPages, VolumePages, InPlacePages, Complete
<1>8. VolumeInv'
  BY <1>1, <1>2, <1>3 DEF WInv, WTypes, FlagSets, OsInv, PageRoleInv, ModeInv, SysEncPages, VolumePages, InPlacePages, VolumeInv, Typed, Complete, VolumeRole, CreatingHiddenSysVol
<1>9. RescueInv'
  BY <1>1, <1>2, <1>3 DEF WInv, WTypes, FlagSets, OsInv, PageRoleInv, ModeInv, SysEncPages, VolumePages, InPlacePages, RescueInv
<1> QED BY <1>4, <1>5, <1>6, <1>7, <1>8, <1>9 DEF WInv

\* The encryption of a partition in place begins or ends.
LEMMA PartitionThreadStep ==
    ASSUME WInv, InPlaceStart \/ InPlaceThreadEnds
    PROVE  WInv'
<1>1. /\ nCurPageNo = "INPLACE_ENCRYPTION" /\ nCurPageNo' = nCurPageNo /\ transformThread' \in {"running", "finished"}
      /\ WizardMode' = WizardMode /\ flg' = flg /\ sysEncMutex' = sysEncMutex /\ volumePassword' = volumePassword
      /\ hiddenVolHost' = hiddenVolHost /\ hostScanned' = hostScanned
      /\ keyGen' = keyGen /\ rescueGen' = rescueGen /\ discGen' = discGen /\ dontVerify' = dontVerify
      /\ bootInstalled' = bootInstalled /\ switchFailed' = switchFailed
  BY DEF InPlaceStart, InPlaceThreadEnds, OnPage, sysPrep
<1>2. WTypes'
  BY <1>1 DEF WInv, WTypes, PageNames
<1>3. OsInv'
  BY <1>1 DEF WInv, WTypes, FlagSets, OsInv, PageRoleInv, ModeInv, SysEncPages, VolumePages, InPlacePages
<1>4. PageRoleInv'
  BY <1>1 DEF WInv, WTypes, FlagSets, OsInv, PageRoleInv, ModeInv, SysEncPages, VolumePages, InPlacePages
<1>5. ModeInv'
  BY <1>1 DEF WInv, WTypes, FlagSets, OsInv, PageRoleInv, ModeInv, SysEncPages, VolumePages, InPlacePages, Complete
<1>6. VolumeInv'
  BY <1>1 DEF WInv, WTypes, FlagSets, OsInv, PageRoleInv, ModeInv, SysEncPages, VolumePages, InPlacePages, VolumeInv, Typed, Complete, VolumeRole, CreatingHiddenSysVol
<1>7. RescueInv'
  BY <1>1 DEF WInv, WTypes, FlagSets, OsInv, PageRoleInv, ModeInv, SysEncPages, VolumePages, InPlacePages, RescueInv
<1> QED BY <1>2, <1>3, <1>4, <1>5, <1>6, <1>7 DEF WInv

\* The wizard starts again.
LEMMA StartAgainStep ==
    ASSUME WInv, FinishedNext
    PROVE  WInv'
<1>1. /\ RestKept /\ nCurPageNo = "FORMAT_FINISHED" /\ transformThread = "off" /\ nCurPageNo' = "INTRO" /\ Complete /\ ~flg.os
      /\ WizardMode' = WizardMode /\ sysEncMutex' = sysEncMutex /\ volumePassword' = "none"
      /\ flg' = [flg EXCEPT !.finished = FALSE]
  BY DEF FinishedNext, OnPage, GoPage, RestKept, wizardRest, sysPrep, volPrep
<1>2. flg' \in FlagSets
  BY <1>1 DEF WInv, WTypes, FlagSets
<1>3. flg'.os = flg.os /\ flg'.hidden = flg.hidden /\ flg'.outer = flg.outer /\ flg'.direct = flg.direct /\ flg'.inPlace = flg.inPlace
  BY <1>1 DEF WInv, WTypes, FlagSets
<1>4. WTypes'
  BY <1>1, <1>2, <1>3 DEF WInv, WTypes, PageNames, RestKept
<1>5. OsInv'
  BY <1>1, <1>2, <1>3 DEF WInv, WTypes, FlagSets, OsInv, PageRoleInv, ModeInv, SysEncPages, VolumePages, InPlacePages, RestKept
<1>6. PageRoleInv'
  BY <1>1, <1>2, <1>3 DEF WInv, WTypes, FlagSets, OsInv, PageRoleInv, ModeInv, SysEncPages, VolumePages, InPlacePages, RestKept
<1>7. ModeInv'
  BY <1>1, <1>2, <1>3 DEF WInv, WTypes, FlagSets, OsInv, PageRoleInv, ModeInv, SysEncPages, VolumePages, InPlacePages, Complete, RestKept
<1>8. VolumeInv'
  BY <1>1, <1>2, <1>3 DEF WInv, WTypes, FlagSets, OsInv, PageRoleInv, ModeInv, SysEncPages, VolumePages, InPlacePages, VolumeInv, Typed, Complete, VolumeRole, CreatingHiddenSysVol, RestKept
<1>9. RescueInv'
  BY <1>1, <1>2, <1>3 DEF WInv, WTypes, FlagSets, OsInv, PageRoleInv, ModeInv, SysEncPages, VolumePages, InPlacePages, RescueInv, RestKept
<1> QED BY <1>4, <1>5, <1>6, <1>7, <1>8, <1>9 DEF WInv

\* A change to the mode for system encryption, of the flags g.
LEMMA SysModeIs ==
    ASSUME NEW g \in FlagSets, ChangeWizardMode("sys", g)
    PROVE  /\ WizardMode' = "sys" /\ (sysEncMutex' = "self" \/ (WizardMode = "sys" /\ sysEncMutex' = sysEncMutex))
           /\ volumePassword' \in {"none", volumePassword}
           /\ flg' \in FlagSets /\ flg'.os = g.os /\ flg'.hidden = g.hidden /\ flg'.outer = g.outer /\ flg'.direct = g.direct
           /\ ~flg'.inPlace /\ flg'.finished = g.finished
<1>1. /\ WizardMode' = "sys" /\ (sysEncMutex' = "self" \/ (WizardMode = "sys" /\ sysEncMutex' = sysEncMutex))
      /\ volumePassword' \in {"none", volumePassword}
  BY DEF ChangeWizardMode, TakeMutex, PwdAfter
<1>2. flg' = [g EXCEPT !.inPlace = FALSE, !.device = TRUE]
  <2>1. PICK b \in BOOLEAN : b = (g.inPlace /\ "sys" = "nonsys")
    BY Zenon
  <2>2. PICK d \in BOOLEAN : d = ("sys" # "file")
    BY Zenon
  <2>3. flg' = [g EXCEPT !.inPlace = b, !.device = d]
    BY <2>1, <2>2, Zenon DEF ChangeWizardMode, FlagsAfter
  <2>4. b = FALSE /\ d = TRUE
    BY <2>1, <2>2
  <2> QED BY <2>3, <2>4, Zenon
<1>3. flg' \in FlagSets
  BY <1>2 DEF FlagSets
<1>4. /\ flg'.os = g.os /\ flg'.hidden = g.hidden /\ flg'.outer = g.outer /\ flg'.direct = g.direct
      /\ ~flg'.inPlace /\ flg'.finished = g.finished
  BY <1>2 DEF FlagSets
<1> QED BY <1>1, <1>3, <1>4

\* The hidden volume is made, the hidden system is prepared.
LEMMA FinishedOsStep ==
    ASSUME WInv, FinishedNextHiddenOS
    PROVE  WInv'
<1>1. /\ nCurPageNo = "FORMAT_FINISHED" /\ transformThread = "off" /\ Complete /\ flg.os
      /\ hiddenVolHost' = hiddenVolHost /\ hostScanned' = hostScanned /\ transformThread' = transformThread
      /\ rescueGen' = rescueGen /\ discGen' = discGen /\ dontVerify' = dontVerify
      /\ bootInstalled' = bootInstalled /\ switchFailed' = switchFailed
  BY DEF FinishedNextHiddenOS, OnPage, volPrep
<1>2. PICK g \in FlagSets : /\ g = [flg EXCEPT !.hidden = FALSE, !.finished = FALSE] /\ g.os = flg.os /\ ~g.hidden
                            /\ g.outer = flg.outer /\ g.direct = flg.direct
  <2> DEFINE g == [flg EXCEPT !.hidden = FALSE, !.finished = FALSE]
  <2>1. g \in FlagSets
    BY DEF WInv, WTypes, FlagSets
  <2>2. g.os = flg.os /\ ~g.hidden /\ g.outer = flg.outer /\ g.direct = flg.direct
    BY DEF WInv, WTypes, FlagSets
  <2> QED BY <2>1, <2>2, Zenon
<1>3. \/ ChangeWizardMode("sys", g) /\ nCurPageNo' = "PRETEST_INFO" /\ keyGen' = keyGen + 1
      \/ ChangeWizardMode("sys", flg) /\ nCurPageNo' = nCurPageNo /\ keyGen' = keyGen
  BY <1>2 DEF FinishedNextHiddenOS, GoPage
<1>4. /\ WizardMode' = "sys" /\ (sysEncMutex' = "self" \/ (WizardMode = "sys" /\ sysEncMutex' = sysEncMutex))
      /\ volumePassword' \in {"none", volumePassword} /\ flg' \in FlagSets
      /\ flg'.os = flg.os /\ flg'.outer = flg.outer /\ flg'.direct = flg.direct /\ ~flg'.inPlace
      /\ \/ nCurPageNo' = "PRETEST_INFO" /\ keyGen' = keyGen + 1 /\ ~flg'.hidden
         \/ nCurPageNo' = nCurPageNo /\ keyGen' = keyGen /\ flg'.hidden = flg.hidden /\ flg'.finished = flg.finished
  <2>1. CASE ChangeWizardMode("sys", g) /\ nCurPageNo' = "PRETEST_INFO" /\ keyGen' = keyGen + 1
    BY <1>2, <2>1, SysModeIs
  <2>2. CASE ChangeWizardMode("sys", flg) /\ nCurPageNo' = nCurPageNo /\ keyGen' = keyGen
    BY <2>2, SysModeIs DEF WInv, WTypes
  <2> QED BY <1>3, <2>1, <2>2
<1>5. WTypes'
  BY <1>1, <1>2, <1>3, <1>4 DEF WInv, WTypes, PageNames
<1>6. OsInv'
  BY <1>1, <1>2, <1>3, <1>4 DEF WInv, WTypes, FlagSets, OsInv, PageRoleInv, ModeInv, SysEncPages, VolumePages, InPlacePages
<1>7. PageRoleInv'
  BY <1>1, <1>2, <1>3, <1>4 DEF WInv, WTypes, FlagSets, OsInv, PageRoleInv, ModeInv, SysEncPages, VolumePages, InPlacePages
<1>8. ModeInv'
  BY <1>1, <1>2, <1>3, <1>4 DEF WInv, WTypes, FlagSets, OsInv, PageRoleInv, ModeInv, SysEncPages, VolumePages, InPlacePages, Complete
<1>9. VolumeInv'
  BY <1>1, <1>2, <1>3, <1>4 DEF WInv, WTypes, FlagSets, OsInv, PageRoleInv, ModeInv, SysEncPages, VolumePages, InPlacePages, VolumeInv, Typed, Complete, VolumeRole, CreatingHiddenSysVol
<1>10. RescueInv'
  BY <1>1, <1>2, <1>3, <1>4 DEF WInv, WTypes, FlagSets, OsInv, PageRoleInv, ModeInv, SysEncPages, VolumePages, InPlacePages, RescueInv
<1> QED BY <1>5, <1>6, <1>7, <1>8, <1>9, <1>10 DEF WInv

\* A key is made, the rescue disk written and burnt.
LEMMA KeyStep ==
    ASSUME WInv, CollectingNext \/ (\E s \in BOOLEAN : RescueCreationNext(s)) \/ BurnDisc
    PROVE  WInv'
<1>1. /\ transformThread = "off" /\ WizardMode' = WizardMode /\ flg' = flg /\ sysEncMutex' = sysEncMutex
      /\ volumePassword' = volumePassword /\ hiddenVolHost' = hiddenVolHost /\ hostScanned' = hostScanned /\ transformThread' = transformThread
      /\ bootInstalled' = bootInstalled /\ switchFailed' = switchFailed
  BY DEF CollectingNext, RescueCreationNext, BurnDisc, OnPage, StayInMode, volPrep
<1>2. \/ /\ nCurPageNo = "COLLECTING_RANDOM_DATA" /\ nCurPageNo' = "KEYS_GEN" /\ keyGen' = keyGen + 1
         /\ rescueGen' = rescueGen /\ discGen' = discGen /\ dontVerify' = dontVerify
      \/ /\ nCurPageNo = "RESCUE_CREATION" /\ nCurPageNo' = "RESCUE_BURN" /\ rescueGen' = keyGen
         /\ keyGen' = keyGen /\ discGen' = discGen /\ dontVerify' \in BOOLEAN
      \/ /\ nCurPageNo = "RESCUE_CREATION" /\ nCurPageNo' = "SYSENC_WIPE_MODE" /\ rescueGen' = keyGen
         /\ keyGen' = keyGen /\ discGen' = discGen /\ dontVerify' = TRUE
      \/ /\ nCurPageNo = "RESCUE_BURN" /\ nCurPageNo' = "RESCUE_BURN" /\ discGen' = rescueGen
         /\ keyGen' = keyGen /\ rescueGen' = rescueGen /\ dontVerify' = dontVerify
  <2>1. CASE CollectingNext \/ BurnDisc
    BY <2>1 DEF CollectingNext, BurnDisc, OnPage, GoPage
  <2>2. CASE \E s \in BOOLEAN : RescueCreationNext(s)
    BY <2>2 DEF RescueCreationNext, OnPage, GoPage, WInv, WTypes
  <2> QED BY <2>1, <2>2
<1>3. WTypes'
  <2>1. nCurPageNo' \in PageNames
    BY <1>2 DEF PageNames
  <2>2. keyGen' \in Nat /\ rescueGen' \in Nat /\ discGen' \in Nat
    BY <1>2 DEF WInv, WTypes
  <2>3. dontVerify' \in BOOLEAN
    BY <1>2 DEF WInv, WTypes
  <2> QED BY <1>1, <2>1, <2>2, <2>3 DEF WInv, WTypes
<1>4. OsInv'
  BY <1>1, <1>2 DEF WInv, WTypes, FlagSets, OsInv, PageRoleInv, ModeInv, SysEncPages, VolumePages, InPlacePages
<1>5. PageRoleInv'
  BY <1>1, <1>2 DEF WInv, WTypes, FlagSets, OsInv, PageRoleInv, ModeInv, SysEncPages, VolumePages, InPlacePages
<1>6. ModeInv'
  BY <1>1, <1>2 DEF WInv, WTypes, FlagSets, OsInv, PageRoleInv, ModeInv, SysEncPages, VolumePages, InPlacePages, Complete
<1>7. VolumeInv'
  BY <1>1, <1>2 DEF WInv, WTypes, FlagSets, OsInv, PageRoleInv, ModeInv, SysEncPages, VolumePages, InPlacePages, VolumeInv, Typed, Complete, VolumeRole, CreatingHiddenSysVol
<1>8. RescueInv'
  BY <1>1, <1>2 DEF WInv, WTypes, FlagSets, OsInv, PageRoleInv, ModeInv, SysEncPages, VolumePages, InPlacePages, RescueInv
<1> QED BY <1>3, <1>4, <1>5, <1>6, <1>7, <1>8 DEF WInv

\* The loader is installed.
LEMMA PretestStep ==
    ASSUME WInv, PretestInfoNext
    PROVE  WInv'
<1>1. /\ nCurPageNo = "PRETEST_INFO" /\ nCurPageNo' = "END" /\ transformThread = "off" /\ WizardMode' = WizardMode /\ flg' = flg
      /\ sysEncMutex' = "self" /\ volumePassword' = volumePassword /\ bootInstalled' = TRUE
      /\ keyGen' = keyGen /\ rescueGen' = rescueGen /\ discGen' = discGen /\ dontVerify' = dontVerify
      /\ hiddenVolHost' = hiddenVolHost /\ hostScanned' = hostScanned /\ transformThread' = transformThread /\ switchFailed' = switchFailed
  BY DEF PretestInfoNext, OnPage, GoPage, TakeMutex, volPrep
<1>2. WTypes'
  BY <1>1 DEF WInv, WTypes, PageNames
<1>3. OsInv'
  BY <1>1 DEF WInv, WTypes, FlagSets, OsInv, PageRoleInv, ModeInv, SysEncPages, VolumePages, InPlacePages
<1>4. PageRoleInv'
  BY <1>1 DEF WInv, WTypes, FlagSets, OsInv, PageRoleInv, ModeInv, SysEncPages, VolumePages, InPlacePages
<1>5. ModeInv'
  BY <1>1 DEF WInv, WTypes, FlagSets, OsInv, PageRoleInv, ModeInv, SysEncPages, VolumePages, InPlacePages, Complete
<1>6. VolumeInv'
  BY <1>1 DEF WInv, WTypes, FlagSets, OsInv, PageRoleInv, ModeInv, SysEncPages, VolumePages, InPlacePages, VolumeInv, Typed, Complete, VolumeRole, CreatingHiddenSysVol
<1>7. RescueInv'
  BY <1>1 DEF WInv, WTypes, FlagSets, OsInv, PageRoleInv, ModeInv, SysEncPages, VolumePages, InPlacePages, RescueInv
<1> QED BY <1>2, <1>3, <1>4, <1>5, <1>6, <1>7 DEF WInv

\* The wizard ends.
LEMMA QuitStep ==
    ASSUME WInv, QuitWizard
    PROVE  WInv'
<1>1. /\ nCurPageNo # "END" /\ nCurPageNo' = "END" /\ WizardMode' = WizardMode /\ flg' = flg /\ sysEncMutex' \in {"free", sysEncMutex}
      /\ volumePassword' = volumePassword /\ hostScanned' = hostScanned /\ transformThread' = transformThread
      /\ hiddenVolHost' \in {hiddenVolHost, "none"} /\ keyGen' = keyGen /\ rescueGen' = rescueGen /\ discGen' = discGen /\ dontVerify' = dontVerify
      /\ bootInstalled' = bootInstalled /\ switchFailed' = switchFailed
  BY DEF QuitWizard, GoPage, MutexClosed, sysPrep
<1>2. WTypes'
  BY <1>1 DEF WInv, WTypes, PageNames
<1>3. OsInv'
  BY <1>1 DEF WInv, WTypes, FlagSets, OsInv, PageRoleInv, ModeInv, SysEncPages, VolumePages, InPlacePages
<1>4. PageRoleInv'
  BY <1>1 DEF WInv, WTypes, FlagSets, OsInv, PageRoleInv, ModeInv, SysEncPages, VolumePages, InPlacePages
<1>5. ModeInv'
  BY <1>1 DEF WInv, WTypes, FlagSets, OsInv, PageRoleInv, ModeInv, SysEncPages, VolumePages, InPlacePages, Complete
<1>6. VolumeInv'
  BY <1>1 DEF WInv, WTypes, FlagSets, OsInv, PageRoleInv, ModeInv, SysEncPages, VolumePages, InPlacePages, VolumeInv, Typed, Complete, VolumeRole, CreatingHiddenSysVol
<1>7. RescueInv'
  BY <1>1 DEF WInv, WTypes, FlagSets, OsInv, PageRoleInv, ModeInv, SysEncPages, VolumePages, InPlacePages, RescueInv
<1> QED BY <1>2, <1>3, <1>4, <1>5, <1>6, <1>7 DEF WInv

-----------------------------------------------------------------------------
(* 'Back'. *)
\* Where 'Back' leads on the pages where it is given and where it is the page before.
LEMMA BackOfSystem ==
    ASSUME WInv, nCurPageNo \in SysEncPages, BackEnabled
    PROVE  \/ nCurPageNo \in {"SYSENC_SPAN", "HIDDEN_OS_REQ_CHECK"} /\ BackPage = "SYSENC_TYPE"
           \/ nCurPageNo = "SYSENC_TYPE" /\ BackPage = "INTRO"
           \/ nCurPageNo = "PRE_DRIVE_ANALYSIS" /\ BackPage = "SYSENC_SPAN"
           \/ nCurPageNo = "MULTI_BOOT_MODE" /\ flg.os /\ BackPage = "HIDDEN_OS_REQ_CHECK"
           \/ nCurPageNo = "MULTI_BOOT_MODE" /\ ~flg.os /\ BackPage \in {"PRE_DRIVE_ANALYSIS", "SYSENC_SPAN"}
           \/ nCurPageNo = "SYS_EQ_BOOT" /\ BackPage = "MULTI_BOOT_MODE"
           \/ /\ nCurPageNo \in {"NBR_SYS_DRIVES", "ADJACENT_SYS", "NONWIN_BOOT_LOADER", "MULTI_BOOT_OUTCOME"}
              /\ BackPage \in {"SYS_EQ_BOOT", "NBR_SYS_DRIVES", "ADJACENT_SYS", "NONWIN_BOOT_LOADER"}
           \/ nCurPageNo = "COLLECTING_RANDOM_DATA" /\ BackPage = "PASSWORD"
           \/ nCurPageNo = "KEYS_GEN" /\ BackPage = "COLLECTING_RANDOM_DATA"
           \/ nCurPageNo = "RESCUE_CREATION" /\ BackPage = "KEYS_GEN"
           \/ nCurPageNo = "SYSENC_WIPE_MODE" /\ BackPage \in {"RESCUE_BURN", "RESCUE_VERIFIED"}
           \/ nCurPageNo = "PRETEST_INFO" /\ ~flg.os /\ BackPage = "SYSENC_WIPE_MODE"
<1>0. nCurPageNo = "SYSENC_SPAN" => ~flg.os
  BY DEF WInv, OsInv, ModeInv, SysEncPages
<1>1. CASE nCurPageNo \in {"SYSENC_SPAN", "HIDDEN_OS_REQ_CHECK", "SYSENC_TYPE", "PRE_DRIVE_ANALYSIS", "MULTI_BOOT_MODE"}
  BY <1>0, <1>1, PagesBefore DEF BackPage
<1>2. CASE nCurPageNo \in {"SYS_EQ_BOOT", "NBR_SYS_DRIVES", "ADJACENT_SYS", "NONWIN_BOOT_LOADER", "MULTI_BOOT_OUTCOME"}
  BY <1>2, PagesBefore DEF BackPage
<1>3. CASE nCurPageNo \in {"COLLECTING_RANDOM_DATA", "KEYS_GEN", "RESCUE_CREATION", "SYSENC_WIPE_MODE", "PRETEST_INFO"}
  BY <1>3, PagesBefore DEF BackPage, BackEnabled
<1> QED BY <1>1, <1>2, <1>3 DEF SysEncPages, BackEnabled

LEMMA BackOfVolume ==
    ASSUME WInv, nCurPageNo \notin SysEncPages, BackEnabled
    PROVE  \/ nCurPageNo = "VOLUME_TYPE" /\ WizardMode # "sys" /\ BackPage = "INTRO"
           \/ nCurPageNo = "VOLUME_TYPE" /\ WizardMode = "sys" /\ BackPage = "MULTI_BOOT_OUTCOME"
           \/ nCurPageNo = "HIDDEN_VOL_WIZARD_MODE" /\ BackPage = "VOLUME_TYPE"
           \/ nCurPageNo = "VOLUME_LOCATION" /\ ~flg.hidden /\ BackPage = "VOLUME_TYPE"
           \/ nCurPageNo = "VOLUME_LOCATION" /\ flg.hidden /\ BackPage = "HIDDEN_VOL_WIZARD_MODE"
           \/ nCurPageNo \in {"DEVICE_TRANSFORM_MODE", "HOST_PASSWORD"} /\ BackPage = "VOLUME_LOCATION"
           \/ nCurPageNo = "HOST_PRE_CIPHER" /\ flg.os /\ BackPage = "MULTI_BOOT_MODE"
           \/ nCurPageNo = "HOST_PRE_CIPHER" /\ ~flg.os /\ BackPage = "VOLUME_LOCATION"
           \/ nCurPageNo = "CIPHER" /\ WizardMode = "sys" /\ BackPage \in {"MULTI_BOOT_OUTCOME", "MULTI_BOOT_MODE"}
           \/ nCurPageNo = "CIPHER" /\ WizardMode # "sys" /\ ~flg.hidden /\ BackPage \in {"DEVICE_TRANSFORM_MODE", "VOLUME_LOCATION"}
           \/ nCurPageNo = "CIPHER" /\ WizardMode # "sys" /\ flg.hidden /\ flg.outer /\ BackPage = "HOST_PRE_CIPHER"
           \/ nCurPageNo = "CIPHER" /\ WizardMode # "sys" /\ flg.hidden /\ ~flg.outer /\ BackPage = "HIDDEN_PRE_CIPHER"
           \/ nCurPageNo = "SIZE" /\ BackPage = "CIPHER"
           \/ nCurPageNo = "PASSWORD" /\ BackPage = "CIPHER"
           \/ nCurPageNo = "PASSWORD" /\ ~SysEncInEffect(WizardMode, flg) /\ ~flg.inPlace /\ BackPage = "SIZE"
           \/ nCurPageNo \in {"FILESYS", "FORMAT", "INPLACE_RAND_DATA"} /\ BackPage = "PASSWORD"
           \/ nCurPageNo = "INPLACE_WIPE_MODE" /\ BackPage = "INPLACE_RAND_DATA"
           \/ nCurPageNo = "INPLACE_ENCRYPTION" /\ BackPage = "INPLACE_WIPE_MODE"
           \/ nCurPageNo = "FORMAT_FINISHED" /\ Complete /\ ~flg.os /\ BackPage = "FORMAT"
<1>0. nCurPageNo = "FORMAT" => WizardMode # "sys"
  BY DEF WInv, ModeInv
<1>1. CASE nCurPageNo \in {"VOLUME_TYPE", "HIDDEN_VOL_WIZARD_MODE", "VOLUME_LOCATION", "DEVICE_TRANSFORM_MODE", "HOST_PASSWORD"}
  BY <1>1, PagesBefore DEF BackPage
<1>2. CASE nCurPageNo \in {"HOST_PRE_CIPHER", "CIPHER"}
  BY <1>2, PagesBefore DEF BackPage
<1>3. CASE nCurPageNo \in {"SIZE", "PASSWORD"}
  BY <1>3, PagesBefore DEF BackPage
<1>4. CASE nCurPageNo \in {"FILESYS", "FORMAT", "INPLACE_RAND_DATA", "INPLACE_WIPE_MODE", "INPLACE_ENCRYPTION", "FORMAT_FINISHED"}
  BY <1>0, <1>4, PagesBefore DEF BackPage, BackEnabled
<1> QED BY <1>1, <1>2, <1>3, <1>4 DEF SysEncPages, BackEnabled, WInv, WTypes, PageNames

\* Back to the choice of the kind of system encryption.
LEMMA BackToTypeStep ==
    ASSUME WInv, nCurPageNo \in {"SYSENC_SPAN", "HIDDEN_OS_REQ_CHECK"}, RestKept, transformThread = "off",
           nCurPageNo' = "SYSENC_TYPE", flg' = TypePageFlags(flg), UNCHANGED <<WizardMode, sysEncMutex, volumePassword>>
    PROVE  WInv'
<1>1. /\ flg' \in FlagSets /\ flg'.os = flg.os /\ flg'.hidden = flg.os /\ flg'.outer = flg.os
  BY TypePageIs DEF WInv, WTypes
<1>2. flg'.inPlace = flg.inPlace
  BY DEF TypePageFlags, WInv, WTypes, FlagSets
<1>3. WTypes'
  BY <1>1, <1>2 DEF WInv, WTypes, PageNames, RestKept
<1>4. OsInv'
  BY <1>1, <1>2 DEF WInv, WTypes, FlagSets, OsInv, PageRoleInv, ModeInv, SysEncPages, VolumePages, InPlacePages, RestKept
<1>5. PageRoleInv'
  BY <1>1, <1>2 DEF WInv, WTypes, FlagSets, OsInv, PageRoleInv, ModeInv, SysEncPages, VolumePages, InPlacePages, RestKept
<1>6. ModeInv'
  BY <1>1, <1>2 DEF WInv, WTypes, FlagSets, OsInv, PageRoleInv, ModeInv, SysEncPages, VolumePages, InPlacePages, Complete, RestKept
<1>7. VolumeInv'
  BY <1>1, <1>2 DEF WInv, WTypes, FlagSets, OsInv, PageRoleInv, ModeInv, SysEncPages, VolumePages, InPlacePages, VolumeInv, Typed, Complete, VolumeRole, CreatingHiddenSysVol, RestKept
<1>8. RescueInv'
  BY <1>1, <1>2 DEF WInv, WTypes, FlagSets, OsInv, PageRoleInv, ModeInv, SysEncPages, VolumePages, InPlacePages, RescueInv, RestKept
<1> QED BY <1>3, <1>4, <1>5, <1>6, <1>7, <1>8 DEF WInv

\* Back from the outer volume of a hidden system.
LEMMA BackToSystemStep ==
    ASSUME WInv, nCurPageNo = "HOST_PRE_CIPHER", flg.os, RestKept, transformThread = "off",
           nCurPageNo' = "MULTI_BOOT_MODE", ChangeWizardMode("sys", flg)
    PROVE  WInv'
<1>1. /\ WizardMode' = "sys" /\ (sysEncMutex' = "self" \/ (WizardMode = "sys" /\ sysEncMutex' = sysEncMutex))
      /\ volumePassword' \in {"none", volumePassword} /\ flg' \in FlagSets
      /\ flg'.os = flg.os /\ flg'.hidden = flg.hidden /\ flg'.outer = flg.outer /\ flg'.direct = flg.direct /\ ~flg'.inPlace
  BY SysModeIs DEF WInv, WTypes
<1>2. WTypes'
  BY <1>1 DEF WInv, WTypes, PageNames, RestKept
<1>3. OsInv'
  BY <1>1 DEF WInv, WTypes, FlagSets, OsInv, PageRoleInv, ModeInv, SysEncPages, VolumePages, InPlacePages, RestKept
<1>4. PageRoleInv'
  BY <1>1 DEF WInv, WTypes, FlagSets, OsInv, PageRoleInv, ModeInv, SysEncPages, VolumePages, InPlacePages, RestKept
<1>5. ModeInv'
  BY <1>1 DEF WInv, WTypes, FlagSets, OsInv, PageRoleInv, ModeInv, SysEncPages, VolumePages, InPlacePages, Complete, RestKept
<1>6. VolumeInv'
  BY <1>1 DEF WInv, WTypes, FlagSets, OsInv, PageRoleInv, ModeInv, SysEncPages, VolumePages, InPlacePages, VolumeInv, Typed, Complete, VolumeRole, CreatingHiddenSysVol, RestKept
<1>7. RescueInv'
  BY <1>1 DEF WInv, WTypes, FlagSets, OsInv, PageRoleInv, ModeInv, SysEncPages, VolumePages, InPlacePages, RescueInv, RestKept
<1> QED BY <1>2, <1>3, <1>4, <1>5, <1>6, <1>7 DEF WInv

\* 'Back' keeps the invariant.
LEMMA BackStep == ASSUME WInv, PrevButton PROVE WInv'
<1>1. RestKept /\ transformThread = "off" /\ BackEnabled /\ nCurPageNo' = BackPage
  BY DEF PrevButton, GoPage, RestKept, wizardRest, sysPrep, volPrep
<1>2. CASE nCurPageNo = "HOST_PRE_CIPHER" /\ flg.os
  <2>1. BackPage = "MULTI_BOOT_MODE"
    BY <1>1, <1>2, BackOfVolume DEF SysEncPages
  <2>2. ChangeWizardMode("sys", flg)
    BY <1>2 DEF PrevButton
  <2> QED BY <1>1, <1>2, <2>1, <2>2, BackToSystemStep
<1>3. CASE ~(nCurPageNo = "HOST_PRE_CIPHER" /\ flg.os) /\ BackPage = "SYSENC_TYPE"
  <2>1. nCurPageNo \in {"SYSENC_SPAN", "HIDDEN_OS_REQ_CHECK"}
    BY <1>1, <1>3, BackOfSystem, BackOfVolume
  <2>2. flg' = TypePageFlags(flg) /\ UNCHANGED <<WizardMode, sysEncMutex, volumePassword>>
    BY <1>3, <2>1 DEF PrevButton
  <2> QED BY <1>1, <1>3, <2>1, <2>2, BackToTypeStep
<1>4. CASE ~(nCurPageNo = "HOST_PRE_CIPHER" /\ flg.os) /\ BackPage # "SYSENC_TYPE"
  <2>1. Turns
    BY <1>1, <1>4 DEF PrevButton, Turns
  <2>2. CASE nCurPageNo \in SysEncPages
    <3>1. SysTurn \/ LastTurn \/ PasswordTurn
      BY <1>1, <1>4, <2>2, BackOfSystem DEF SysTurn, LastTurn, PasswordTurn, FromTo
    <3> QED BY <2>1, <3>1, SysTurnStep, LastTurnStep, PasswordTurnStep
  <2>3. CASE nCurPageNo \notin SysEncPages
    <3>1. SysTurn \/ VolumeTurn \/ LastTurn \/ PasswordTurn
      BY <1>1, <1>4, <2>3, BackOfVolume DEF SysTurn, VolumeTurn, LastTurn, PasswordTurn, FromTo
    <3> QED BY <2>1, <3>1, SysTurnStep, VolumeTurnStep, LastTurnStep, PasswordTurnStep
  <2> QED BY <2>2, <2>3
<1> QED BY <1>2, <1>3, <1>4

\* 'Next' on the pages that change nothing else keeps the invariant.
LEMMA NextTurns ==
    ASSUME WInv,
           \/ ReqCheckNext \/ MultiBootAnswer \/ DriveAnalysisDone \/ (\E b \in BOOLEAN : PreDriveAnalysisNext(b))
           \/ PreCipherNext \/ CipherNext \/ SizeNext \/ FilesysNext \/ InPlaceNext \/ KeysGenNext
           \/ RescueBurnNext \/ RescueVerifiedNext \/ BackToFilesys
           \/ (SysEncTypeNext /\ ~flg.os)
    PROVE  WInv'
<1> USE DEF OnPage, GoPage, StayInMode, FromTo
<1>1. CASE ReqCheckNext \/ MultiBootAnswer \/ DriveAnalysisDone \/ (\E b \in BOOLEAN : PreDriveAnalysisNext(b)) \/ (SysEncTypeNext /\ ~flg.os)
  <2>1. transformThread = "off"
    BY <1>1 DEF ReqCheckNext, MultiBootAnswer, DriveAnalysisDone, PreDriveAnalysisNext, SysEncTypeNext, WInv, WTypes
  <2>2. nCurPageNo # "PASSWORD"
    BY <1>1 DEF ReqCheckNext, MultiBootAnswer, DriveAnalysisDone, PreDriveAnalysisNext, SysEncTypeNext
  <2>3. Turns
    BY <1>1, <2>1, <2>2 DEF ReqCheckNext, MultiBootAnswer, DriveAnalysisDone, PreDriveAnalysisNext, SysEncTypeNext, Turns, RestKept, wizardRest, sysPrep, volPrep
  <2>4. SysTurn
    BY <1>1 DEF ReqCheckNext, MultiBootAnswer, DriveAnalysisDone, PreDriveAnalysisNext, SysEncTypeNext, SysTurn
  <2> QED BY <2>3, <2>4, SysTurnStep
<1>2. CASE PreCipherNext
  <2>1. Turns
    BY <1>2 DEF PreCipherNext, Turns, RestKept, wizardRest, sysPrep, volPrep
  <2>2. VolumeTurn
    BY <1>2 DEF PreCipherNext, VolumeTurn
  <2> QED BY <2>1, <2>2, VolumeTurnStep
<1>3. CASE CipherNext \/ SizeNext \/ FilesysNext \/ BackToFilesys
  <2>1. Turns
    BY <1>3 DEF CipherNext, SizeNext, FilesysNext, BackToFilesys, Turns, RestKept, wizardRest, sysPrep, volPrep
  <2>2. PasswordTurn
    BY <1>3 DEF CipherNext, SizeNext, FilesysNext, BackToFilesys, PasswordTurn
  <2> QED BY <2>1, <2>2, PasswordTurnStep
<1>4. CASE InPlaceNext \/ KeysGenNext \/ RescueBurnNext \/ RescueVerifiedNext
  <2>1. Turns
    BY <1>4 DEF InPlaceNext, KeysGenNext, RescueBurnNext, RescueVerifiedNext, Turns, RestKept, wizardRest, sysPrep, volPrep
  <2>2. LastTurn
    BY <1>4 DEF InPlaceNext, KeysGenNext, RescueBurnNext, RescueVerifiedNext, LastTurn
  <2> QED BY <2>1, <2>2, LastTurnStep
<1> QED BY <1>1, <1>2, <1>3, <1>4

\* The password is typed.
LEMMA TypedStep == ASSUME WInv, NEW over4GB \in BOOLEAN, PasswordNext(over4GB) PROVE WInv'
<1>1. nCurPageNo = "PASSWORD" /\ Turns
  BY DEF PasswordNext, OnPage, Turns, RestKept, wizardRest, sysPrep, volPrep
<1>2. \/ nCurPageNo' = "INPLACE_RAND_DATA" /\ flg.inPlace
      \/ nCurPageNo' = "FORMAT" /\ ~flg.inPlace /\ (WizardMode # "sys" \/ CreatingHiddenSysVol(flg))
      \/ nCurPageNo' = "COLLECTING_RANDOM_DATA" /\ ~flg.inPlace /\ WizardMode = "sys"
      \/ nCurPageNo' = "FILESYS" /\ ~flg.inPlace /\ WizardMode # "sys"
  BY DEF PasswordNext, GoPage
<1>3. PasswordTurn
  BY <1>1, <1>2 DEF PasswordTurn, FromTo
<1> QED BY <1>1, <1>3, PasswordTurnStep

\* Every step of the wizard keeps the invariant.
LEMMA WInvStep == WInv /\ [WNext]_wVars => WInv'
<1> SUFFICES ASSUME WInv, [WNext]_wVars PROVE WInv'
  OBVIOUS
<1>1. CASE \/ ReqCheckNext \/ MultiBootAnswer \/ DriveAnalysisDone \/ (\E b \in BOOLEAN : PreDriveAnalysisNext(b))
           \/ PreCipherNext \/ CipherNext \/ SizeNext \/ FilesysNext \/ InPlaceNext \/ KeysGenNext
           \/ RescueBurnNext \/ RescueVerifiedNext \/ BackToFilesys \/ (SysEncTypeNext /\ ~flg.os)
  BY <1>1, NextTurns
<1>2. CASE SysEncTypeNext /\ flg.os
  BY <1>2, TypeNextStep
<1>3. CASE \E m \in {"file", "nonsys"} : IntroNext(m)
  BY <1>3, IntroStep
<1>4. CASE IntroNextSys \/ LocationNext \/ LocationIsDevice \/ LocationSwitchFails
  BY <1>4, IntroSysStep, LocationStep, LocationDeviceStep, LocationFailsStep
<1>5. CASE IntroNotElevated \/ SwitchRefused \/ OtherInstance
  BY <1>5, RefusedStep
<1>6. CASE \E b \in BOOLEAN : ChooseSysEncType(b) \/ SpanNext(b) \/ VolumeTypeNext(b) \/ HiddenVolModeNext(b)
  BY <1>6, TypeStep, SpanStep, VolumeTypeStep, HiddenModeStep
<1>7. CASE \E b \in BOOLEAN : LocationIsSystem(b) \/ TransformModeNext(b) \/ PasswordNext(b)
  BY <1>7, LocationSysStep, TransformStep, TypedStep
<1>8. CASE \E b \in BOOLEAN : HostPasswordNext(b) \/ FinishedNextScan(b)
  BY <1>8, ScanStep
<1>9. CASE \E n \in 1 .. 2 : MultiBootNext(n)
  BY <1>9, MultiBootStep
<1>10. CASE FormatNext \/ FormatEnds \/ InPlaceStart \/ InPlaceThreadEnds
  BY <1>10, FormatStep, FormatEndsStep, PartitionThreadStep
<1>11. CASE nCurPageNo # "END" /\ (FormatFails \/ FormatFinished)
  BY <1>11, ThreadStopStep
<1>12. CASE FinishedNext \/ FinishedNextHiddenOS
  BY <1>12, StartAgainStep, FinishedOsStep
<1>13. CASE CollectingNext \/ (\E s \in BOOLEAN : RescueCreationNext(s)) \/ BurnDisc
  BY <1>13, KeyStep
<1>14. CASE PretestInfoNext \/ QuitWizard \/ PrevButton
  BY <1>14, PretestStep, QuitStep, BackStep
<1>15. CASE UNCHANGED wVars
  <2>1. /\ UNCHANGED <<nCurPageNo, WizardMode, flg, sysEncMutex, volumePassword, hiddenVolHost, hostScanned>>
        /\ UNCHANGED <<transformThread, keyGen, rescueGen, discGen, dontVerify, bootInstalled, switchFailed>>
    BY <1>15 DEF wVars
  <2>2. WTypes' /\ OsInv' /\ PageRoleInv'
    BY <2>1 DEF WInv, WTypes, OsInv, PageRoleInv
  <2>3. ModeInv' /\ VolumeInv' /\ RescueInv'
    BY <2>1 DEF WInv, ModeInv, Complete, VolumeInv, Typed, VolumeRole, CreatingHiddenSysVol, RescueInv
  <2> QED BY <2>2, <2>3 DEF WInv
<1>16. CASE nCurPageNo # "END" /\ NextButton
  BY <1>1, <1>2, <1>3, <1>4, <1>6, <1>7, <1>8, <1>9, <1>10, <1>12, <1>13, <1>14, <1>16 DEF NextButton
<1>17. CASE nCurPageNo # "END" /\ (ThreadStep \/ Failures)
  BY <1>1, <1>4, <1>5, <1>10, <1>11, <1>17 DEF ThreadStep, Failures
<1> QED BY <1>1, <1>5, <1>14, <1>15, <1>16, <1>17 DEF WNext

(* The wizard promises what its comments say, for any number of formats and keys and in
   whatever order the user turns the pages. *)
THEOREM WizardIsSound == WSpec => []WizardSound
<1> QED BY WInvInit, WInvStep, WInvSound, PTL DEF WSpec

-----------------------------------------------------------------------------
(* What the run system_drive checks of the wizard, the installer and the filter devices,
   for every size of the area and any number of keys, formats, installations and faults. *)
THEOREM ProgramsAlwaysSound == DriveSpec => []ProgramsSound
<1> DEFINE dVars == <<active, vars, wVars, sysVars, iVars, suVars, devVars>>
<1>1. DriveInit => WInv /\ SuInv /\ DevInv
  BY WInvInit, SuInvInit, DevInvInit DEF DriveInit
<1>2. WInv /\ SuInv /\ DevInv /\ [DriveNext]_dVars => WInv' /\ SuInv' /\ DevInv'
  <2> SUFFICES ASSUME WInv, SuInv, DevInv, [DriveNext]_dVars PROVE WInv' /\ SuInv' /\ DevInv'
    OBVIOUS
  <2>1. [WNext]_wVars /\ [SuNext]_suVars /\ [DevNext]_devVars
    BY DEF DriveNext
  <2> QED BY <2>1, WInvStep, SuInvStep, DevInvStep
<1>3. WInv /\ SuInv /\ DevInv => ProgramsSound
  BY WInvSound, SuInvSound, DevInvSound DEF ProgramsSound
<1> QED BY <1>1, <1>2, <1>3, PTL DEF DriveSpec
============================================================================
