------------------------------ MODULE BootDisk ------------------------------
(***************************************************************************)
(* What the boot loader leaves in memory when it starts the system, and    *)
(* the disk routines it is built on (Boot/Windows): the filter of the BIOS *)
(* disk interrupt 13h with encryption on the fly and the remapping of a    *)
(* hidden system, the memory map handed out by the filter of interrupt     *)
(* 15h, the conversion of sector numbers to cylinder, head and sector, and *)
(* the search of the partition tables.                                     *)
(*                                                                         *)
(* "bdJob" chooses the part that is exercised; its input is chosen in the  *)
(* initial state.                                                          *)
(***************************************************************************)
EXTENDS Naturals, Sequences, FiniteSets, SequencesExt

CONSTANTS
    MaxDiskSector,        \* bound: last sector of the boot drive
    BdValues,             \* contents of a sector
    MaxRequest,           \* bound: sectors of a request
    MaxMemory,            \* bound: last address of the memory map
    TC_MAX_MEMORY_MAP_SIZE

VARIABLES
    bdJob,                \* "io", "map", "chs", "part"
    bdIn,                 \* layout of the drive, or input of the computation
    bdDev,                \* sector -> content and the data unit it is encrypted for
    bdView,               \* sector as the system knows it -> content last written
    bdOut                 \* outcome of the last request or of the computation

bdVars == <<bdJob, bdIn, bdDev, bdView, bdOut>>

DiskSectors == 0 .. MaxDiskSector
InTheClear == MaxDiskSector + 1                   \* "data unit" of a sector in the clear
Garbled == "garbled"                         \* a sector decrypted for another data unit

-----------------------------------------------------------------------------
(* Interrupt 13h.  A layout: the encrypted virtual partition is [s, e]; in a
   hidden system its sectors are those of the hidden volume that starts at
   sector h, whose data units are numbered from u. *)
Layouts == {[hidden |-> FALSE, s |-> 1, e |-> 3, h |-> 0, u |-> 0],
            [hidden |-> TRUE, s |-> 1, e |-> 2, h |-> 4, u |-> 0],
            [hidden |-> TRUE, s |-> 0, e |-> 1, h |-> 3, u |-> 1]}
InPartition(l, i) == i >= l.s /\ i <= l.e
\* Where the sector of the system partition is, and the data unit it is encrypted for.
HomeSector(l, i) == IF l.hidden /\ InPartition(l, i) THEN i - l.s + l.h ELSE i
HomeUnit(l, i) ==
    IF ~InPartition(l, i) THEN InTheClear ELSE IF l.hidden THEN i - l.s + l.u ELSE i
DevOf(l) ==
    [p \in DiskSectors |->
        LET own == {i \in DiskSectors : InPartition(l, i) /\ HomeSector(l, i) = p}
        IN [val |-> CHOOSE v \in BdValues : TRUE,
            unit |-> IF own = {} THEN InTheClear ELSE HomeUnit(l, CHOOSE i \in own : TRUE)]]

ReadWritePartiallyCoversEncryptedArea(l, i, n) ==
    LET readWriteEnd == i + n - 1
    IN \/ i < l.s /\ readWriteEnd >= l.s
       \/ i >= l.s /\ readWriteEnd > l.e
Refused(l, i, n) == l.hidden /\ ReadWritePartiallyCoversEncryptedArea(l, i, n)
Decrypted(cell, unit) ==
    IF cell.unit = unit THEN cell.val ELSE Garbled

\* The remapping is decided once, for the first sector of the request.
ReadEncryptedSectors(i, n) ==
    LET l == bdIn
        remap == l.hidden /\ InPartition(l, i)
        from(k) == IF remap THEN i + k - l.s + l.h ELSE i + k
        data(k) ==
            LET cell == bdDev[from(k)]
            IN IF l.hidden
               THEN IF remap THEN Decrypted(cell, from(k) - l.h + l.u) ELSE Decrypted(cell, InTheClear)
               ELSE IF InPartition(l, i + k) THEN Decrypted(cell, i + k) ELSE Decrypted(cell, InTheClear)
    IN [k \in 0 .. n - 1 |-> data(k)]
Read13 ==
    /\ bdJob = "io"
    /\ \E i \in DiskSectors, n \in 1 .. MaxRequest :
        /\ i + n - 1 <= MaxDiskSector
        /\ \/ /\ ~Refused(bdIn, i, n)
              /\ bdOut' = [do |-> "read", ok |-> TRUE, at |-> i, data |-> ReadEncryptedSectors(i, n)]
           \/ bdOut' = [do |-> "read", ok |-> FALSE, at |-> i, data |-> <<>>]   \* refused, or failed
    /\ UNCHANGED <<bdJob, bdIn, bdDev, bdView>>

\* The sectors are written one by one; "done" of them before a failure.
WriteEncryptedSectors(i, done, v) ==
    LET l == bdIn
        writeOffset(j) == IF l.hidden THEN j + l.h - l.s ELSE j
        dataUnitNo(j) == IF l.hidden THEN j - l.s + l.u ELSE j
        sectors == i .. (i + done - 1)
    IN [p \in DiskSectors |->
            IF \E j \in sectors : writeOffset(j) = p
            THEN LET j == CHOOSE j \in sectors : writeOffset(j) = p
                 IN [val |-> v, unit |-> IF InPartition(l, j) THEN dataUnitNo(j) ELSE InTheClear]
            ELSE bdDev[p]]
Write13 ==
    /\ bdJob = "io"
    /\ \E i \in DiskSectors, n \in 1 .. MaxRequest, v \in BdValues :
        /\ i + n - 1 <= MaxDiskSector
        /\ \/ /\ ~Refused(bdIn, i, n)
              /\ \E done \in 0 .. n :
                    /\ bdDev' = WriteEncryptedSectors(i, done, v)
                    /\ bdView' = [j \in DiskSectors |-> IF j \in i .. (i + done - 1) THEN v ELSE bdView[j]]
                    /\ bdOut' = [do |-> "write", ok |-> done = n, at |-> i, data |-> <<>>]
           \/ /\ Refused(bdIn, i, n)
              /\ bdOut' = [do |-> "write", ok |-> FALSE, at |-> i, data |-> <<>>]
              /\ UNCHANGED <<bdDev, bdView>>
    /\ UNCHANGED <<bdJob, bdIn>>

-----------------------------------------------------------------------------
(* Interrupt 15h.  The memory map that shows the loader as reserved. *)
FreeType == 1
Entries == [base : 0 .. MaxMemory, len : 1 .. 3, type : {1, 2}]
EntryEnd(e) == e.base + e.len
LoaderEntry(b) == [base |-> b.start, len |-> b.size, type |-> 2]
RegionsIntersect(s1, l1, s2, e2) ==
    LET end1 == s1 + l1 - 1
        intersectEnd == IF end1 <= e2 THEN end1 ELSE e2
        intersectStart == IF s1 >= s2 THEN s1 ELSE s2
    IN intersectStart <= intersectEnd
\* Appends while there is room; the map is given up at the first entry without.
Put(m, e) == IF m.over \/ Len(m.map) >= TC_MAX_MEMORY_MAP_SIZE THEN [m EXCEPT !.over = TRUE]
             ELSE [m EXCEPT !.map = Append(@, e)]
PutLoader(m, b) == LET p == Put(m, LoaderEntry(b)) IN IF p.over THEN p ELSE [p EXCEPT !.loader = TRUE]
\* A free entry that covers the loader is split.
SplitEntry(m, e, b) ==
    LET end == b.start + b.size
        below == IF e.base < b.start THEN Put(m, [e EXCEPT !.len = b.start - e.base]) ELSE m
        loader == IF below.loader THEN below ELSE PutLoader(below, b)
    IN IF end < EntryEnd(e)
       THEN Put(loader, [type |-> FreeType, base |-> end, len |-> EntryEnd(e) - end])
       ELSE loader
\* One test of the room for the two entries that may be added here.
CopyEntry(m, e, b) ==
    IF m.over \/ Len(m.map) >= TC_MAX_MEMORY_MAP_SIZE THEN [m EXCEPT !.over = TRUE]
    ELSE IF ~m.loader /\ e.base > b.start
    THEN [m EXCEPT !.map = @ \o <<LoaderEntry(b), e>>, !.loader = TRUE]
    ELSE [m EXCEPT !.map = Append(@, e)]
AddEntry(m, e, b) ==
    IF e.type = FreeType /\ RegionsIntersect(b.start, b.size, e.base, EntryEnd(e) - 1)
    THEN SplitEntry(m, e, b)
    ELSE CopyEntry(m, e, b)
CreateNewBiosMemoryMap(entries, b) ==
    FoldLeft(LAMBDA m, e : AddEntry(m, e, b), [map |-> <<>>, loader |-> FALSE, over |-> FALSE], entries)

MapInputs == {i \in [map : UNION {[1 .. n -> Entries] : n \in 1 .. 2},
                     loader : {[start |-> 2, size |-> 2]}] : TRUE}
MakeMap ==
    /\ bdJob = "map" /\ bdOut.do = "none"
    /\ LET m == CreateNewBiosMemoryMap(bdIn.map, bdIn.loader)
       IN bdOut' = IF m.over THEN [do |-> "refused"]
                   ELSE [do |-> "issue", map |-> m.map, ebx |-> 0, got |-> <<>>, issued |-> 0]
    /\ UNCHANGED <<bdJob, bdIn, bdDev, bdView>>
\* The system asks for the entries one by one; 0 in ebx tells it that it has the last.
Int15Filter ==
    /\ bdJob = "map" /\ bdOut.do = "issue" /\ bdOut.issued < 2
    /\ LET next == bdOut.ebx + 1
           ebx == IF next >= Len(bdOut.map) THEN 0 ELSE next
           sofar == IF bdOut.ebx = 0 THEN <<>> ELSE bdOut.got
       IN bdOut' = [bdOut EXCEPT !.got = Append(sofar, bdOut.map[next]), !.ebx = ebx,
                                 !.issued = IF ebx = 0 THEN @ + 1 ELSE @]
    /\ UNCHANGED <<bdJob, bdIn, bdDev, bdView>>

-----------------------------------------------------------------------------
(* Cylinder, head and sector. *)
LbaToChs(g, lba) ==
    LET ch == lba \div g.sectors
    IN [sector |-> ((lba % g.sectors) + 1) % 256, head |-> (ch % g.heads) % 256,
        cylinder |-> (ch \div g.heads) % 65536]
ChsToLba(g, a) == (a.cylinder * g.heads + a.head) * g.sectors + a.sector - 1
\* Registers of the BIOS: bits 8 and 9 of the cylinder are above the six of the sector.
PackChs(a) ==
    [ch |-> a.cylinder % 256, cl |-> a.sector + 64 * ((a.cylinder \div 256) % 4), dh |-> a.head]
UnpackChs(r) ==
    [cylinder |-> r.ch + 256 * (r.cl \div 64), head |-> r.dh, sector |-> r.cl % 64]
GetDriveGeometry(r) ==
    [cylinders |-> r.ch + 256 * (r.cl \div 64) + 1, heads |-> r.dh + 1, sectors |-> r.cl % 64]
ChsInputs == [cylinders : {1, 256, 257, 1024}, heads : {1, 2, 255}, sectors : {1, 2, 63}]
Convert ==
    /\ bdJob = "chs" /\ bdOut.do = "none"
    /\ LET g == GetDriveGeometry([ch |-> (bdIn.cylinders - 1) % 256, dh |-> bdIn.heads - 1,
                                  cl |-> bdIn.sectors + 64 * ((bdIn.cylinders - 1) \div 256)])
           last == bdIn.cylinders * bdIn.heads * bdIn.sectors - 1
       IN \E lba \in {0, 1, last \div 2, last} \cap (0 .. last) :
            bdOut' = [do |-> "chs", lba |-> lba, back |-> ChsToLba(g, UnpackChs(PackChs(LbaToChs(g, lba))))]
    /\ UNCHANGED <<bdJob, bdIn, bdDev, bdView>>

-----------------------------------------------------------------------------
(* Partition tables.  An entry: start, count, kind ("data" or "ext"), active.
   The extended partition holds a chain of logical partitions; "starts" of the
   chain are relative to it. *)
Table(a, x, chain) == [primary |-> <<[start |-> a, count |-> 2, kind |-> "data", active |-> TRUE],
                                     [start |-> x, count |-> 2, kind |-> "data", active |-> FALSE],
                                     [start |-> 10, count |-> 6, kind |-> "ext", active |-> FALSE]>>,
                       chain |-> chain]
Chains == UNION {[1 .. n -> [start : {0, 2, 4}, count : {0, 1}]] : n \in 0 .. 2}
PartInputs == {Table(a, x, c) : a \in {1, 16}, x \in {4, 7, 18, 21}, c \in Chains}
PartitionEntryMBRToPartition(e) ==
    [start |-> e.start, end |-> e.start + e.count - 1, active |-> e.active]
LogicalPartition(e, base) == [start |-> base + e.start, end |-> base + e.start + e.count - 1, active |-> FALSE]
None4 == [start |-> 1000, end |-> 1000, active |-> FALSE]
\* The nearer of the one found so far and the one at hand.
Nearer(found, p, this) == IF p.start > this.end /\ p.start < found.start THEN p ELSE found
InChain(found, chain, base, this) ==
    FoldLeft(LAMBDA f, e : IF e.count > 0 THEN Nearer(f, LogicalPartition(e, base), this) ELSE f, found, chain)
GetDrivePartitions(t, this) ==
    FoldLeft(LAMBDA f, e : IF e.count = 0 THEN f
                           ELSE IF e.kind = "ext" THEN InChain(f, t.chain, e.start, this)
                           ELSE Nearer(f, PartitionEntryMBRToPartition(e), this),
             None4, t.primary)
GetActivePartition(t) ==
    LET i == CHOOSE i \in DOMAIN t.primary :
                t.primary[i].active /\ \A j \in 1 .. i - 1 : ~t.primary[j].active
    IN PartitionEntryMBRToPartition(t.primary[i])
FindFollowing ==
    /\ bdJob = "part" /\ bdOut.do = "none"
    /\ bdOut' = [do |-> "part", found |-> GetDrivePartitions(bdIn, GetActivePartition(bdIn))]
    /\ UNCHANGED <<bdJob, bdIn, bdDev, bdView>>

-----------------------------------------------------------------------------
BdInit ==
    /\ \/ bdJob = "io" /\ bdIn \in Layouts
       \/ bdJob = "map" /\ bdIn \in MapInputs
       \/ bdJob = "chs" /\ bdIn \in ChsInputs
       \/ bdJob = "part" /\ bdIn \in PartInputs
    /\ bdDev = IF bdJob = "io" THEN DevOf(bdIn) ELSE <<>>
    /\ bdView = IF bdJob = "io" THEN [i \in DiskSectors |-> CHOOSE v \in BdValues : TRUE] ELSE <<>>
    /\ bdOut = [do |-> "none"]
BdNext == Read13 \/ Write13 \/ MakeMap \/ Int15Filter \/ Convert \/ FindFollowing
BdSpec == BdInit /\ [][BdNext]_bdVars

-----------------------------------------------------------------------------
\* What the system reads through interrupt 13h is what it wrote last: every
\* sector of an encrypted drive, and every sector of a hidden system's
\* partition, after any sequence of requests that cross the borders of the
\* encrypted area, are refused there or fail half way.
ReadReturnsWritten ==
    bdJob = "io" /\ bdOut.do = "read" /\ bdOut.ok
        => \A k \in DOMAIN bdOut.data :
             ~bdIn.hidden \/ InPartition(bdIn, bdOut.at + k) => bdOut.data[k] = bdView[bdOut.at + k]

\* Free memory of the new map is the free memory of the old one without the
\* loader, whatever the order and the overlaps of the entries, and the system
\* gets the entries it is told of, in a map that was not given up.
LoaderMemoryReserved ==
    bdJob = "map" /\ bdOut.do = "issue" =>
        LET Free(m) == UNION {m[i].base .. EntryEnd(m[i]) - 1 : i \in {j \in DOMAIN m : m[j].type = FreeType}}
            b == bdIn.loader
        IN /\ Free(bdOut.map) = Free(bdIn.map) \ (b.start .. b.start + b.size - 1)
           /\ bdOut.issued > 0 /\ bdOut.ebx = 0 => bdOut.got = bdOut.map

\* The sector number survives the conversion to the registers of the BIOS and
\* back, up to the last of 1024 cylinders.
ChsRoundTrip == bdJob = "chs" /\ bdOut.do = "chs" => bdOut.back = bdOut.lba

\* The partition that follows the active one is the nearest one behind it,
\* primary or logical, in whatever order the tables list them: a hidden system
\* is looked for there.
FollowingIsNearest ==
    bdJob = "part" /\ bdOut.do = "part" =>
        LET this == GetActivePartition(bdIn)
            starts == {e.start : e \in {x \in Range(bdIn.primary) : x.kind = "data" /\ x.count > 0}}
                      \cup {10 + e.start : e \in {x \in Range(bdIn.chain) : x.count > 0}}
            behind == {s \in starts : s > this.end}
        IN IF behind = {} THEN bdOut.found = None4
           ELSE bdOut.found.start \in behind /\ \A s \in behind : bdOut.found.start <= s

\* A write of the system is only carried out in the sectors of its own volume
\* or, outside the encrypted area, in place ("Remap the request to the hidden
\* volume").
WritesStayInVolume ==
    bdJob = "io" => \A p \in DiskSectors :
        bdDev[p].val # (CHOOSE v \in BdValues : TRUE)
            => \E i \in DiskSectors : HomeSector(bdIn, i) = p /\ bdView[i] = bdDev[p].val

(* The sector layer of the boot loader: reads return what was written, its memory
   stays reserved, geometry conversions agree and the partition after the active one
   is found. *)
BootIoSound == ReadReturnsWritten /\ LoaderMemoryReserved /\ ChsRoundTrip /\ FollowingIsNearest
=============================================================================
