--------------------------- MODULE QueueDataProofs ---------------------------
(***************************************************************************)
(* That the encrypted I/O queue is transparent, for a device, an area,     *)
(* requests and numbers of IRPs of any size: reads return what is stored,  *)
(* units are stored as the encrypted area says, and protected units are    *)
(* never written.                                                          *)
(*                                                                         *)
(* The fragments of an IRP carry disjoint pieces of its data (Pieces), and *)
(* the part of each that is encrypted was computed from the area of now,   *)
(* because the area moves only while none is on its way (FragmentsOk).     *)
(* What is in a fragment buffer, in the read-ahead buffer and in the data  *)
(* of a read that was not decrypted yet is encoded accordingly.            *)
(***************************************************************************)
EXTENDS IoQueueProofs

(***************************************************************************)
(* Where the fragments are.                                                *)
(***************************************************************************)
Entries(s) == {s[n] : n \in DOMAIN s}
If(b, q) == IF b THEN {q} ELSE {}
IoBusy == io.pc \in {"access", "accessed", "handOver", "handOverAhead"}
\* Fragments the main thread has queued and that are not finished; and the one it has,
\* from when its encrypted part is fixed.
Sent == Entries(IoThreadQueue) \cup If(IoBusy, io.req) \cup Entries(CompletionThreadQueue)
        \cup If(completion.pc = "decrypt", completion.req)
Pipe == If(main.pc \in {"acquire", "enqueue"}, main.req) \cup Sent
\* Fragments with their data in the buffer, if they write.
Filled == If(main.pc = "enqueue", main.req) \cup Entries(IoThreadQueue)
          \cup If(io.pc = "access", io.req)
\* Fragments with their data in the IRP, not decrypted.
Fetched == If(io.pc \in {"handOver", "handOverAhead"}, io.req) \cup Entries(CompletionThreadQueue)
           \cup If(completion.pc = "decrypt", completion.req)

\* Where the main thread will cut the next fragment.
MainCuts ==
    \/ main.pc \in {"fragment", "getRequest", "waitRequest", "acquire", "enqueue"}
    \/ main.pc = "signalIo" /\ ~main.req.last
MainPos == IF main.pc = "signalIo" THEN main.pos + MaxFragment ELSE main.pos

(***************************************************************************)
(* What a request may touch.                                               *)
(***************************************************************************)
Intact == Protected \cup Header \cup Forbidden
Allowed(r) ==
    /\ r.op \in {"read", "write"} /\ r.len > 0 /\ r.mis = "no"
    /\ HostOffset(r) + r.len <= DeviceUnits
    /\ r.op = "write" => (HostOffset(r) .. HostOffset(r) + r.len - 1) \cap Intact = {}

(***************************************************************************)
(* The device.                                                             *)
(***************************************************************************)
\* The area as the device is encoded now.
AreaNow ==
    IF holder.pc = "encrypted" THEN FirstPlain
    ELSE IF holder.pc = "decrypted" THEN EncryptedAreaEnd - 1 ELSE EncryptedAreaEnd
AreaEnds == {-1} \cup (AreaStart - 1 .. AreaEnd)
DeviceTypes ==
    /\ disk \in [Units -> Cells] /\ content \in [Units -> Nat]
    /\ seen \in [Irps -> [Units -> SUBSET Nat]]
    /\ EncryptedAreaEnd \in AreaEnds /\ AreaNow \in AreaEnds
    /\ holder.pc # "idle" => IsFilterDevice /\ ~Remap
    /\ Remap => EncryptedAreaEnd = InitialEnd
\* Places of the device that other units are remapped to.
Target(u) ==
    Remap /\ InitialEnd # -1 /\ AreaStart + RemapOffset <= u /\ u <= InitialEnd + RemapOffset
DeviceOk ==
    \A u \in Units : ~Target(u) => disk[DeviceUnit(u, AreaNow)] = Encoded(u, content[u], AreaNow)
IntactOk == \A u \in Units \cap Intact : content[u] = 0
SeenOk ==
    \A i \in Irps : irp[i].disp # "new" /\ irp[i].done = 0 /\ irp[i].req.op # "other" =>
        \A u \in Units : content[u] \in seen[i][u]

\* The read-ahead buffer mirrors the device; a write invalidates it before the next read,
\* a hold before the device is re-encoded.
Holding == holder.pc \in {"held", "encrypted", "decrypted", "moved"}
Overwriting == io.pc = "accessed" /\ irp[io.req.irp].req.op = "write"
AheadOk ==
    /\ lastRead \in [off : Nat, len : Nat]
    /\ readAhead.valid /\ ~Overwriting =>
          /\ readAhead.off \in Nat /\ readAhead.len \in Nat
          /\ \A k \in 1 .. readAhead.len : /\ readAhead.off + k - 1 \in Units
                                           /\ readAhead.data[k] = disk[readAhead.off + k - 1]
    /\ Holding => ~readAhead.valid

(***************************************************************************)
(* Fragments.                                                              *)
(***************************************************************************)
Placed(q, r) ==
    /\ q.pos >= 1 /\ q.len >= 1 /\ q.pos + q.len - 1 <= r.len /\ q.off = HostOffset(r) + q.pos - 1
Covered(q) ==
    IF IsFilterDevice THEN Intersection(q.off, q.len, EncryptedAreaEnd)
    ELSE q.off .. q.off + q.len - 1
FragmentOk(q) ==
    LET r == irp[q.irp].req
    IN  /\ q \in Fragments /\ q.irp \in Irps
        /\ Allowed(r) /\ Placed(q, r) /\ q.enc = Covered(q)
        /\ DOMAIN irp[q.irp].data = 1 .. r.len
MainOk ==
    /\ MainCuts => LET r == irp[main.irp].req
                   IN  /\ Allowed(r) /\ DOMAIN irp[main.irp].data = 1 .. r.len
                       /\ main.pos >= 1 /\ main.left >= 1 /\ main.pos + main.left - 1 = r.len
                       /\ main.off = HostOffset(r) + main.pos - 1
    /\ main.pc \in {"getRequest", "waitRequest", "acquire", "enqueue", "signalIo"} =>
          /\ main.req.pos = main.pos /\ main.req.off = main.off
          /\ main.req.len = IF main.left <= MaxFragment THEN main.left ELSE MaxFragment
FragmentsOk == (\A q \in Pipe : FragmentOk(q)) /\ MainOk

\* A piece that is ahead of another one of the same IRP ends before it.
InFrontOf(p, q) == p.irp = q.irp => p.pos + p.len <= q.pos
Pieces ==
    /\ \A m, n \in DOMAIN IoThreadQueue : m < n => InFrontOf(IoThreadQueue[m], IoThreadQueue[n])
    /\ IoBusy => \A n \in DOMAIN IoThreadQueue : InFrontOf(io.req, IoThreadQueue[n])
    /\ \A m, n \in DOMAIN CompletionThreadQueue :
          m < n => InFrontOf(CompletionThreadQueue[m], CompletionThreadQueue[n])
    /\ \A m \in DOMAIN CompletionThreadQueue :
          /\ IoBusy => InFrontOf(CompletionThreadQueue[m], io.req)
          /\ \A n \in DOMAIN IoThreadQueue : InFrontOf(CompletionThreadQueue[m], IoThreadQueue[n])
    /\ completion.pc = "decrypt" =>
          /\ IoBusy => InFrontOf(completion.req, io.req)
          /\ \A n \in DOMAIN IoThreadQueue : InFrontOf(completion.req, IoThreadQueue[n])
          /\ \A n \in DOMAIN CompletionThreadQueue : InFrontOf(completion.req, CompletionThreadQueue[n])
    /\ MainCuts => \A q \in Sent : q.irp = main.irp => q.pos + q.len <= MainPos

(***************************************************************************)
(* Data on its way.                                                        *)
(***************************************************************************)
Stored(q, u, v) == IF u \in q.enc THEN [as |-> u + DataUnitOffset, v |-> v] ELSE Plain(v)
BufferOf(q) == [k \in 1 .. q.len |-> Stored(q, q.off + k - 1, q.irp)]
\* The cell is what some value the unit had while the IRP was pending is stored as.
RawCell(q, k, cell) == \E v \in seen[q.irp][q.off + k - 1] : cell = Stored(q, q.off + k - 1, v)
BuffersOk ==
    /\ \A b \in Buffers : fragment[b] \in Seq(Cells)
    /\ DOMAIN fragment = Buffers
    /\ \A q \in Filled : irp[q.irp].req.op = "write" => fragment[q.buf] = BufferOf(q)
    /\ io.pc = "accessed" /\ irp[io.req.irp].req.op = "read" /\ Success(io.req.irp) =>
          \A k \in 1 .. io.req.len : RawCell(io.req, k, fragment[io.req.buf][k])
RawOk ==
    \A q \in Fetched : Success(q.irp) =>
        \A k \in 1 .. q.len : RawCell(q, k, irp[q.irp].data[q.pos + k - 1])

Carries(q, i, k) == q.irp = i /\ q.pos <= k /\ k < q.pos + q.len
Fetching(i, k) ==
    \/ MainCuts /\ main.irp = i /\ MainPos <= k
    \/ \E q \in Pipe : Carries(q, i, k)
UnitOf(i, k) == HostOffset(irp[i].req) + k - 1
GoodCell(i, k) ==
    irp[i].data[k].as = -1 /\ irp[i].data[k].v \in seen[i][UnitOf(i, k)]
ReadOk(i) ==
    /\ irp[i].status = "pending" => DOMAIN irp[i].data = {}
    /\ irp[i].req.op = "read" => \A k \in DOMAIN irp[i].data :
          /\ k \in Nat \ {0} /\ UnitOf(i, k) \in Units
          /\ Success(i) => Fetching(i, k) \/ GoodCell(i, k)
ReadsOk == \A i \in Irps : ReadOk(i)
CheckOk == main.pc = "check" => DOMAIN irp[main.irp].data = {}

DataInv ==
    /\ DeviceTypes /\ DeviceOk /\ IntactOk /\ SeenOk /\ AheadOk /\ FragmentsOk /\ Pieces
    /\ BuffersOk /\ RawOk /\ ReadsOk /\ CheckOk

\* The two ways in which a hidden system is not transparent (see the findings) are
\* excluded: an access that fails in one of several parts, and misaligned reads.
RemapIsPlain == Remap => ~Faults /\ \A r \in Requests : ~MisalignedRead(r)

-----------------------------------------------------------------------------
(***************************************************************************)
(* The area and the device.                                                *)
(***************************************************************************)
InArea(u, e) == e # -1 /\ AreaStart <= u /\ u <= e

\* Which units are remapped and encrypted.
LEMMA AreaFacts ==
    ASSUME NEW u \in Nat, NEW e \in AreaEnds
    PROVE  /\ DeviceUnit(u, e) = IF Remap /\ InArea(u, e) THEN u + RemapOffset ELSE u
           /\ \A v : Encoded(u, v, e) = IF ~IsFilterDevice \/ InArea(u, e)
                                       THEN [as |-> u + DataUnitOffset, v |-> v] ELSE Plain(v)
<1>1. e \in Int /\ AreaStart \in Int
  BY QueueAssumption DEF QueueAssumption, AreaEnds, Units
<1>2. Intersection(u, 1, e) # {} <=> InArea(u, e)
  <2>1. u .. u + 1 - 1 = {u}
    OBVIOUS
  <2> QED BY <1>1, <2>1 DEF Intersection, InArea
<1> QED BY <1>2 DEF DeviceUnit, Encoded

\* Distinct units that no other is remapped to are at distinct places.
LEMMA DistinctPlaces ==
    ASSUME NEW u \in Units, NEW w \in Units, ~Target(u), ~Target(w),
           NEW e \in AreaEnds, Remap => e = InitialEnd, DeviceUnit(u, e) = DeviceUnit(w, e)
    PROVE  u = w
<1>1. u \in Nat /\ w \in Nat
  BY QueueAssumption DEF QueueAssumption, Units
<1>2. CASE ~Remap
  BY <1>1, <1>2, AreaFacts
<1>3. CASE Remap
  <2>1. RemapOffset \in Nat /\ AreaStart \in Nat /\ InitialEnd \in Int
    BY QueueAssumption DEF QueueAssumption, Units
  <2>2. /\ DeviceUnit(u, e) = IF InArea(u, e) THEN u + RemapOffset ELSE u
        /\ DeviceUnit(w, e) = IF InArea(w, e) THEN w + RemapOffset ELSE w
    BY <1>1, <1>3, AreaFacts
  <2>3. e = InitialEnd
    BY <1>3
  <2>4. ASSUME NEW x \in Nat, NEW y \in Nat, InArea(x, e), y = x + RemapOffset PROVE Target(y)
    BY <1>3, <2>1, <2>3, <2>4 DEF InArea, Target
  <2>5. InArea(u, e) <=> InArea(w, e)
    BY <1>1, <2>2, <2>4
  <2>6. CASE InArea(u, e)
    <3>1. u + RemapOffset = w + RemapOffset
      BY <2>2, <2>5, <2>6
    <3> QED BY <1>1, <2>1, <3>1
  <2>7. CASE ~InArea(u, e)
    BY <2>2, <2>5, <2>7
  <2> QED BY <2>6, <2>7
<1> QED BY <1>2, <1>3

\* A unit that may be accessed has its place on the device.
LEMMA PlaceOnDevice ==
    ASSUME NEW u \in Units, NEW e \in AreaEnds, Remap => e = InitialEnd
    PROVE  DeviceUnit(u, e) \in Units
<1>1. u \in Nat /\ DeviceUnits \in Nat /\ AreaStart \in Nat /\ AreaEnd \in Nat
  BY QueueAssumption DEF QueueAssumption, Units
<1>2. CASE ~Remap
  BY <1>1, <1>2, AreaFacts
<1>3. CASE Remap
  <2>1. RemapOffset \in Nat /\ InitialEnd \in {-1} \cup (AreaStart .. AreaEnd)
    BY QueueAssumption DEF QueueAssumption
  <2>2. AreaEnd + RemapOffset < DeviceUnits
    BY <1>3, LayoutAssumption DEF LayoutAssumption
  <2>3. DeviceUnit(u, e) = IF InArea(u, e) THEN u + RemapOffset ELSE u
    BY <1>1, <1>3, AreaFacts
  <2>4. CASE InArea(u, e)
    BY <1>1, <1>3, <2>1, <2>2, <2>3, <2>4 DEF InArea, Units
  <2>5. CASE ~InArea(u, e)
    BY <2>3, <2>5
  <2> QED BY <2>4, <2>5
<1> QED BY <1>2, <1>3

\* The part of an access that lies in the area is an interval.
LEMMA AreaInterval ==
    ASSUME NEW off \in Nat, NEW len \in Nat, NEW e \in AreaEnds, Intersection(off, len, e) # {}
    PROVE  LET enc == Intersection(off, len, e)
               first == CHOOSE u \in enc : \A w \in enc : u <= w
               n == Cardinality(enc)
           IN  /\ first \in Nat /\ n \in Nat \ {0} /\ off <= first /\ first + n <= off + len
               /\ \A u \in off .. off + len - 1 : InArea(u, e) <=> first <= u /\ u < first + n
<1> DEFINE enc == Intersection(off, len, e)
           first == CHOOSE u \in enc : \A w \in enc : u <= w
           n == Cardinality(enc)
           lo == IF AreaStart <= off THEN off ELSE AreaStart
           hi == IF off + len - 1 <= e THEN off + len - 1 ELSE e
<1>1. e \in Int /\ AreaStart \in Nat
  BY QueueAssumption DEF QueueAssumption, AreaEnds, Units
<1>2. enc = {u \in off .. off + len - 1 : InArea(u, e)} /\ enc # {} /\ e # -1
  BY DEF Intersection, InArea
<1>3. lo \in Int /\ hi \in Int
  BY <1>1
<1>4. enc = lo .. hi
  <2>1. ASSUME NEW u \in enc PROVE u \in lo .. hi
    BY <1>1, <1>2, <2>1 DEF InArea
  <2>2. ASSUME NEW u \in lo .. hi PROVE u \in enc
    BY <1>1, <1>2, <2>2 DEF InArea
  <2> QED BY <2>1, <2>2
<1>5. lo <= hi /\ lo \in enc
  <2> HIDE DEF enc, lo, hi
  <2>1. PICK u \in enc : TRUE
    BY <1>2
  <2> QED BY <1>3, <1>4, <2>1
<1>6. n = hi - lo + 1
  <2>1. Cardinality(lo .. hi) = IF lo > hi THEN 0 ELSE hi - lo + 1
    BY <1>3, FS_Interval
  <2> HIDE DEF enc, lo, hi
  <2> QED BY <1>3, <1>4, <1>5, <2>1
<1>7. first = lo
  <2> HIDE DEF enc, lo, hi
  <2>1. \A w \in enc : lo <= w
    BY <1>3, <1>4
  <2>2. \E u \in enc : \A w \in enc : u <= w
    BY <1>5, <2>1
  <2>3. first \in enc /\ \A w \in enc : first <= w
    BY <2>2, Zenon
  <2>4. first <= lo /\ lo <= first /\ first \in Int
    BY <1>3, <1>4, <1>5, <2>1, <2>3
  <2> QED BY <1>3, <2>4
<1>8. ASSUME NEW u \in off .. off + len - 1 PROVE InArea(u, e) <=> lo <= u /\ u < lo + n
  <2>1. InArea(u, e) <=> u \in enc
    BY <1>2
  <2>2. u \in enc <=> lo <= u /\ u <= hi
    <3> HIDE DEF enc, lo, hi
    <3> QED BY <1>3, <1>4
  <2> HIDE DEF enc, lo, hi, n
  <2> QED BY <1>3, <1>6, <2>1, <2>2
<1>9. off <= lo /\ hi <= off + len - 1 /\ lo \in Nat
  BY <1>1
<1>10. n \in Nat \ {0} /\ lo + n <= off + len
  <2> HIDE DEF lo, hi, n, enc
  <2> QED BY <1>3, <1>5, <1>6, <1>9
<1> QED BY <1>7, <1>8, <1>9, <1>10

\* A part is a run of units of the request at consecutive places.
PartOk(a, q, e) ==
    /\ a.k \in Nat \ {0} /\ a.n \in Nat \ {0} /\ a.dev \in Nat
    /\ \A k \in PartUnits(a) :
          k \in 1 .. q.len /\ a.dev + (k - a.k) = DeviceUnit(q.off + k - 1, e)

\* The parts of an access lie where the units of the request are stored, and cover it.
LEMMA PartsFacts ==
    ASSUME NEW q, q.off \in Nat, q.len \in Nat \ {0}, NEW e \in AreaEnds,
           Remap => q.enc = Intersection(q.off, q.len, e)
    PROVE  /\ Len(Parts(q)) \in Nat \ {0} /\ DOMAIN Parts(q) = 1 .. Len(Parts(q))
           /\ \A p \in DOMAIN Parts(q) : PartOk(Parts(q)[p], q, e)
           /\ \A k \in 1 .. q.len : \E p \in DOMAIN Parts(q) : k \in PartUnits(Parts(q)[p])
           /\ ~Remap => Len(Parts(q)) = 1
<1> DEFINE whole == [k |-> 1, n |-> q.len, dev |-> q.off]
<1>1. CASE ~Remap \/ q.enc = {}
  <2>1. Parts(q) = <<whole>>
    BY <1>1 DEF Parts
  <2>2. ASSUME NEW k \in 1 .. q.len PROVE DeviceUnit(q.off + k - 1, e) = q.off + k - 1
    <3>1. q.off + k - 1 \in Nat
      OBVIOUS
    <3>2. ~(Remap /\ InArea(q.off + k - 1, e))
      <4>1. CASE ~Remap
        BY <4>1
      <4>2. CASE Remap
        <5>1. q.off + k - 1 \in q.off .. q.off + q.len - 1
          OBVIOUS
        <5>2. Intersection(q.off, q.len, e) = {}
          BY <1>1, <4>2
        <5> QED BY <5>1, <5>2 DEF Intersection, InArea
      <4> QED BY <4>1, <4>2
    <3> QED BY <3>1, <3>2, AreaFacts
  <2>3. PartUnits(whole) = 1 .. q.len
    BY DEF PartUnits
  <2>4. ASSUME NEW k \in PartUnits(whole)
        PROVE  k \in 1 .. q.len /\ whole.dev + (k - whole.k) = DeviceUnit(q.off + k - 1, e)
    BY <2>2, <2>3, <2>4
  <2>5. PartOk(whole, q, e)
    BY <2>4 DEF PartOk
  <2>6. Len(<<whole>>) = 1 /\ DOMAIN <<whole>> = 1 .. 1 /\ <<whole>>[1] = whole /\ 1 .. 1 = {1}
    OBVIOUS
  <2> HIDE DEF whole
  <2> QED BY <2>1, <2>3, <2>5, <2>6
<1>2. CASE Remap /\ q.enc # {}
  <2> DEFINE first == CHOOSE u \in q.enc : \A w \in q.enc : u <= w
             n == Cardinality(q.enc)
             before == [k |-> 1, n |-> first - q.off, dev |-> q.off]
             inside == [k |-> first - q.off + 1, n |-> n, dev |-> first + RemapOffset]
             after  == [k |-> first - q.off + n + 1, n |-> q.off + q.len - (first + n), dev |-> first + n]
  <2>1. /\ first \in Nat /\ n \in Nat \ {0} /\ q.off <= first /\ first + n <= q.off + q.len
        /\ \A u \in q.off .. q.off + q.len - 1 : InArea(u, e) <=> first <= u /\ u < first + n
    BY <1>2, AreaInterval
  <2>2. RemapOffset \in Nat
    BY QueueAssumption DEF QueueAssumption
  <2>3. Parts(q) = IF before.n > 0 /\ after.n > 0 THEN <<before, inside, after>>
                   ELSE IF before.n > 0 THEN <<before, inside>>
                   ELSE IF after.n > 0 THEN <<inside, after>> ELSE <<inside>>
    BY <1>2, Zenon DEF Parts
  <2> HIDE DEF first, n
  <2>4. ASSUME NEW k \in 1 .. q.len
        PROVE  DeviceUnit(q.off + k - 1, e) =
                  IF first <= q.off + k - 1 /\ q.off + k - 1 < first + n
                  THEN q.off + k - 1 + RemapOffset ELSE q.off + k - 1
    <3>1. q.off + k - 1 \in Nat /\ q.off + k - 1 \in q.off .. q.off + q.len - 1
      OBVIOUS
    <3>2. InArea(q.off + k - 1, e) <=> first <= q.off + k - 1 /\ q.off + k - 1 < first + n
      BY <2>1, <3>1
    <3>3. DeviceUnit(q.off + k - 1, e) =
             IF Remap /\ InArea(q.off + k - 1, e) THEN q.off + k - 1 + RemapOffset ELSE q.off + k - 1
      BY <3>1, AreaFacts
    <3>4. CASE InArea(q.off + k - 1, e)
      BY <1>2, <3>2, <3>3, <3>4
    <3>5. CASE ~InArea(q.off + k - 1, e)
      BY <1>2, <3>2, <3>3, <3>5
    <3> QED BY <3>4, <3>5
  <2>5. before.n > 0 => PartOk(before, q, e)
    <3> SUFFICES ASSUME before.n > 0 PROVE PartOk(before, q, e)
      OBVIOUS
    <3>1. ASSUME NEW k \in PartUnits(before)
          PROVE  k \in 1 .. q.len /\ before.dev + (k - before.k) = DeviceUnit(q.off + k - 1, e)
      <4>1. k \in 1 .. q.len /\ q.off + k - 1 < first
        BY <2>1, <3>1 DEF PartUnits
      <4> QED BY <2>1, <2>4, <4>1
    <3> QED BY <2>1, <3>1 DEF PartOk
  <2>6. PartOk(inside, q, e)
    <3>1. ASSUME NEW k \in PartUnits(inside)
          PROVE  k \in 1 .. q.len /\ inside.dev + (k - inside.k) = DeviceUnit(q.off + k - 1, e)
      <4>1. k \in 1 .. q.len /\ first <= q.off + k - 1 /\ q.off + k - 1 < first + n
        BY <2>1, <3>1 DEF PartUnits
      <4> QED BY <2>1, <2>2, <2>4, <4>1
    <3> QED BY <2>1, <2>2, <3>1 DEF PartOk
  <2>7. after.n > 0 => PartOk(after, q, e)
    <3> SUFFICES ASSUME after.n > 0 PROVE PartOk(after, q, e)
      OBVIOUS
    <3>1. ASSUME NEW k \in PartUnits(after)
          PROVE  k \in 1 .. q.len /\ after.dev + (k - after.k) = DeviceUnit(q.off + k - 1, e)
      <4>1. k \in 1 .. q.len /\ ~(q.off + k - 1 < first + n)
        BY <2>1, <3>1 DEF PartUnits
      <4> QED BY <2>1, <2>4, <4>1
    <3> QED BY <2>1, <3>1 DEF PartOk
  <2>8. ASSUME NEW k \in 1 .. q.len
        PROVE  \/ before.n > 0 /\ k \in PartUnits(before)
               \/ k \in PartUnits(inside)
               \/ after.n > 0 /\ k \in PartUnits(after)
    BY <2>1, <2>8 DEF PartUnits
  <2> HIDE DEF before, inside, after
  <2>9. CASE before.n > 0 /\ after.n > 0
    <3>1. Parts(q) = <<before, inside, after>>
      BY <2>3, <2>9
    <3>2. /\ Len(Parts(q)) = 3 /\ DOMAIN Parts(q) = {1, 2, 3} /\ 1 .. 3 = {1, 2, 3}
          /\ Parts(q)[1] = before /\ Parts(q)[2] = inside /\ Parts(q)[3] = after
      BY <3>1
    <3> QED BY <1>2, <2>5, <2>6, <2>7, <2>8, <2>9, <3>2
  <2>10. CASE before.n > 0 /\ ~(after.n > 0)
    <3>1. Parts(q) = <<before, inside>>
      BY <2>3, <2>10
    <3>2. /\ Len(Parts(q)) = 2 /\ DOMAIN Parts(q) = {1, 2} /\ 1 .. 2 = {1, 2}
          /\ Parts(q)[1] = before /\ Parts(q)[2] = inside
      BY <3>1
    <3> QED BY <1>2, <2>5, <2>6, <2>7, <2>8, <2>10, <3>2
  <2>11. CASE ~(before.n > 0) /\ after.n > 0
    <3>1. Parts(q) = <<inside, after>>
      BY <2>3, <2>11
    <3>2. /\ Len(Parts(q)) = 2 /\ DOMAIN Parts(q) = {1, 2} /\ 1 .. 2 = {1, 2}
          /\ Parts(q)[1] = inside /\ Parts(q)[2] = after
      BY <3>1
    <3> QED BY <1>2, <2>5, <2>6, <2>7, <2>8, <2>11, <3>2
  <2>12. CASE ~(before.n > 0) /\ ~(after.n > 0)
    <3>1. Parts(q) = <<inside>>
      BY <2>3, <2>12
    <3>2. Len(Parts(q)) = 1 /\ DOMAIN Parts(q) = {1} /\ 1 .. 1 = {1} /\ Parts(q)[1] = inside
      BY <3>1
    <3> QED BY <1>2, <2>5, <2>6, <2>7, <2>8, <2>12, <3>2
  <2> QED BY <2>9, <2>10, <2>11, <2>12
<1> QED BY <1>1, <1>2

-----------------------------------------------------------------------------
(***************************************************************************)
(* What the parts of the invariant depend on.                              *)
(***************************************************************************)
\* A unit of a fragment is on the device, no other one is remapped to it, and it is
\* stored as the fragment's encrypted part says.
LEMMA FragmentUnits ==
    ASSUME IrpTypes, DeviceTypes, NEW q, FragmentOk(q), NEW k \in 1 .. q.len
    PROVE  /\ q.off + k - 1 \in Units /\ ~Target(q.off + k - 1)
           /\ \A v : Encoded(q.off + k - 1, v, EncryptedAreaEnd) = Stored(q, q.off + k - 1, v)
           /\ UnitOf(q.irp, q.pos + k - 1) = q.off + k - 1
           /\ q.pos + k - 1 \in 1 .. irp[q.irp].req.len
<1> DEFINE r == irp[q.irp].req
           u == q.off + k - 1
<1>1. /\ q \in Fragments /\ q.irp \in Irps /\ Allowed(r) /\ Placed(q, r) /\ q.enc = Covered(q)
  BY DEF FragmentOk
<1>2. q.off \in Nat /\ q.len \in Nat /\ q.pos \in Nat /\ k \in Nat /\ k >= 1 /\ k <= q.len
  BY <1>1 DEF Fragments
<1>3. r \in Requests
  BY <1>1 DEF IrpTypes, Allowed, NoRequest
<1>4. r.off \in Nat /\ r.len \in Nat /\ DataOffset \in Nat /\ DeviceUnits \in Nat
  BY <1>3, QueueAssumption DEF QueueAssumption
<1>5. HostOffset(r) \in Nat /\ HostOffset(r) + r.len <= DeviceUnits
  BY <1>1, <1>4 DEF HostOffset, Allowed
<1>6. /\ q.pos >= 1 /\ q.pos + q.len - 1 <= r.len /\ q.off = HostOffset(r) + q.pos - 1
  BY <1>1 DEF Placed
<1> HIDE DEF r
<1>7. u \in Nat /\ u < DeviceUnits /\ HostOffset(r) <= u /\ u <= HostOffset(r) + r.len - 1
  BY <1>2, <1>4, <1>5, <1>6
<1>8. u \in Units
  BY <1>4, <1>7 DEF Units
<1>9. ~Target(u)
  <2> SUFFICES ASSUME Target(u) PROVE FALSE
    OBVIOUS
  <2>1. Remap /\ InitialEnd # -1 /\ AreaStart + RemapOffset <= u /\ u <= InitialEnd + RemapOffset
    BY DEF Target
  <2>2. IsFilterDevice
    BY <2>1, LayoutAssumption DEF LayoutAssumption
  <2>3. \/ r.off + r.len <= AreaStart + RemapOffset
        \/ AreaEnd + RemapOffset < r.off
    BY <1>3, <2>1, LayoutAssumption DEF LayoutAssumption
  <2>4. /\ RemapOffset \in Nat /\ AreaStart \in Nat /\ AreaEnd \in Nat
        /\ InitialEnd \in {-1} \cup (AreaStart .. AreaEnd)
    BY QueueAssumption DEF QueueAssumption, Units
  <2>5. HostOffset(r) = r.off
    BY <2>2 DEF HostOffset
  <2> QED BY <1>4, <1>7, <2>1, <2>3, <2>4, <2>5
<1>10. EncryptedAreaEnd \in AreaEnds
  BY DEF DeviceTypes
<1>11. u \in q.enc <=> ~IsFilterDevice \/ InArea(u, EncryptedAreaEnd)
  <2>1. u \in q.off .. q.off + q.len - 1
    BY <1>2
  <2>2. CASE IsFilterDevice
    BY <1>1, <2>1, <2>2 DEF Covered, Intersection, InArea
  <2>3. CASE ~IsFilterDevice
    BY <1>1, <2>1, <2>3 DEF Covered
  <2> QED BY <2>2, <2>3
<1>12. ASSUME NEW v PROVE Encoded(u, v, EncryptedAreaEnd) = Stored(q, u, v)
  <2>1. Encoded(u, v, EncryptedAreaEnd) =
           IF ~IsFilterDevice \/ InArea(u, EncryptedAreaEnd)
           THEN [as |-> u + DataUnitOffset, v |-> v] ELSE Plain(v)
    BY <1>7, <1>10, AreaFacts
  <2> QED BY <1>11, <2>1 DEF Stored
<1>13. UnitOf(q.irp, q.pos + k - 1) = u
  <2>1. UnitOf(q.irp, q.pos + k - 1) = HostOffset(r) + (q.pos + k - 1) - 1
    BY DEF UnitOf, r
  <2> QED BY <1>2, <1>5, <1>6, <2>1
<1>14. q.pos + k - 1 \in 1 .. r.len
  BY <1>2, <1>4, <1>6
<1> QED BY <1>8, <1>9, <1>12, <1>13, <1>14 DEF r

\* A fragment stays sound while its request and the area stay.
LEMMA FragmentKept ==
    ASSUME NEW q, FragmentOk(q), irp'[q.irp].req = irp[q.irp].req,
           DOMAIN irp'[q.irp].data = DOMAIN irp[q.irp].data,
           EncryptedAreaEnd' = EncryptedAreaEnd
    PROVE  FragmentOk(q)'
  BY DEF FragmentOk, Covered

\* What a step leaves of the IRPs, of the device and of the fragments.
SameRequests ==
    \A j \in Irps : /\ irp'[j].req = irp[j].req
                    /\ (irp'[j].status = "ok" => irp[j].status \in {"ok", "pending"})
                    /\ (irp'[j].status = "pending" => irp[j].status = "pending")
SameData == SameRequests /\ \A j \in Irps : irp'[j].data = irp[j].data
SamePending ==
    \A j \in Irps : irp'[j].disp # "new" /\ irp'[j].done = 0 => irp[j].disp # "new" /\ irp[j].done = 0
SameDevice ==
    /\ UNCHANGED <<disk, content, seen, EncryptedAreaEnd>> /\ AreaNow' = AreaNow
    /\ holder'.pc # "idle" => IsFilterDevice /\ ~Remap
    /\ Holding' => Holding
SameAccess ==
    /\ io.pc = "accessed" => io'.pc = "accessed" /\ io'.req = io.req
    /\ io'.pc = "accessed" =>
          io'.req = io.req /\ (io.pc = "accessed" \/ (io.pc = "access" /\ ~Success(io.req.irp)))
SameFetching(i) == \A k \in DOMAIN irp[i].data : Fetching(i, k) => Fetching(i, k)'
SameCuts == MainCuts => MainCuts' /\ main'.irp = main.irp /\ MainPos' = MainPos

\* The fragments stay in order where they are, and before what the main thread cuts.
LEMMA PiecesInOrder ==
    ASSUME Pieces, Sent' \subseteq Sent,
           UNCHANGED <<IoThreadQueue, CompletionThreadQueue>>,
           IoBusy' => IoBusy /\ io'.req = io.req,
           completion'.pc = "decrypt" => completion.pc = "decrypt" /\ completion'.req = completion.req,
           MainCuts' => \A q \in Sent : q.irp = main'.irp => q.pos + q.len <= MainPos'
    PROVE  Pieces'
<1>1. /\ \A m, n \in DOMAIN IoThreadQueue' : m < n => InFrontOf(IoThreadQueue'[m], IoThreadQueue'[n])
      /\ IoBusy' => \A n \in DOMAIN IoThreadQueue' : InFrontOf(io'.req, IoThreadQueue'[n])
  BY Zenon DEF Pieces
<1>2. /\ \A m, n \in DOMAIN CompletionThreadQueue' :
             m < n => InFrontOf(CompletionThreadQueue'[m], CompletionThreadQueue'[n])
      /\ \A m \in DOMAIN CompletionThreadQueue' :
             /\ IoBusy' => InFrontOf(CompletionThreadQueue'[m], io'.req)
             /\ \A n \in DOMAIN IoThreadQueue' : InFrontOf(CompletionThreadQueue'[m], IoThreadQueue'[n])
  BY Zenon DEF Pieces
<1>3. completion'.pc = "decrypt" =>
          /\ IoBusy' => InFrontOf(completion'.req, io'.req)
          /\ \A n \in DOMAIN IoThreadQueue' : InFrontOf(completion'.req, IoThreadQueue'[n])
          /\ \A n \in DOMAIN CompletionThreadQueue' : InFrontOf(completion'.req, CompletionThreadQueue'[n])
  BY Zenon DEF Pieces
<1>4. MainCuts' => \A q \in Sent' : q.irp = main'.irp => q.pos + q.len <= MainPos'
  BY Zenon DEF Pieces
<1> QED BY <1>1, <1>2, <1>3, <1>4, Zenon DEF Pieces

\* The fragments stay in order while the threads that have them keep them.
LEMMA PiecesKept ==
    ASSUME Pieces, Sent' = Sent,
           UNCHANGED <<IoThreadQueue, CompletionThreadQueue>>,
           IoBusy' => IoBusy /\ io'.req = io.req,
           completion'.pc = "decrypt" => completion.pc = "decrypt" /\ completion'.req = completion.req,
           MainCuts' => MainCuts /\ main'.irp = main.irp /\ MainPos' = MainPos
    PROVE  Pieces'
<1>1. MainCuts' => \A q \in Sent : q.irp = main'.irp => q.pos + q.len <= MainPos'
  BY DEF Pieces
<1> QED BY <1>1, PiecesInOrder

\* The device as it was.
LEMMA DeviceKept ==
    ASSUME DeviceTypes, DeviceOk, IntactOk, SameDevice
    PROVE  DeviceTypes' /\ DeviceOk' /\ IntactOk'
<1>1. DeviceTypes'
  BY DEF DeviceTypes, SameDevice
<1>2. DeviceOk'
  BY Zenon DEF DeviceOk, SameDevice
<1>3. IntactOk'
  BY Zenon DEF IntactOk, SameDevice
<1> QED BY <1>1, <1>2, <1>3

\* What an IRP has seen.
LEMMA SeenKept ==
    ASSUME SeenOk, UNCHANGED <<content, seen>>, SamePending,
           \A j \in Irps : irp'[j].req = irp[j].req
    PROVE  SeenOk'
  BY Zenon DEF SeenOk, SamePending

\* What was read ahead.
LEMMA AheadKept ==
    ASSUME AheadOk, UNCHANGED <<disk, readAhead, lastRead>>, Overwriting => Overwriting',
           Holding' => Holding
    PROVE  AheadOk'
<1>1. lastRead' \in [off : Nat, len : Nat] /\ (Holding' => ~readAhead'.valid)
  BY DEF AheadOk
<1>2. readAhead'.valid /\ ~Overwriting' =>
          /\ readAhead'.off \in Nat /\ readAhead'.len \in Nat
          /\ \A k \in 1 .. readAhead'.len : /\ readAhead'.off + k - 1 \in Units
                                            /\ readAhead'.data[k] = disk'[readAhead'.off + k - 1]
  BY Zenon DEF AheadOk
<1> QED BY <1>1, <1>2, Zenon DEF AheadOk

\* The fragments on their way.
LEMMA PipeFragmentsKept ==
    ASSUME \A q \in Pipe : FragmentOk(q), NEW S, S \subseteq Pipe, SameRequests,
           \A q \in S : DOMAIN irp'[q.irp].data = DOMAIN irp[q.irp].data,
           EncryptedAreaEnd' = EncryptedAreaEnd
    PROVE  \A q \in S : FragmentOk(q)'
<1> SUFFICES ASSUME NEW q \in S PROVE FragmentOk(q)'
  OBVIOUS
<1>1. FragmentOk(q)
  OBVIOUS
<1>2. q.irp \in Irps
  BY <1>1 DEF FragmentOk
<1>3. irp'[q.irp].req = irp[q.irp].req /\ DOMAIN irp'[q.irp].data = DOMAIN irp[q.irp].data
  BY <1>2 DEF SameRequests
<1> QED BY <1>1, <1>3, FragmentKept

\* The contents of the fragment buffers.
LEMMA FilledKept ==
    ASSUME BuffersOk, UNCHANGED fragment, Filled' \subseteq Filled, \A q \in Filled : q.irp \in Irps,
           SameRequests, SameAccess, UNCHANGED seen,
           io'.pc = "accessed" => io.req.irp \in Irps /\ irp[io.req.irp].status # "pending"
    PROVE  BuffersOk'
<1>1. /\ \A b \in Buffers : fragment'[b] \in Seq(Cells)
      /\ DOMAIN fragment' = Buffers
  BY Zenon DEF BuffersOk
<1>2. \A q \in Filled' : irp'[q.irp].req.op = "write" => fragment'[q.buf] = BufferOf(q)
  <2> SUFFICES ASSUME NEW q \in Filled', irp'[q.irp].req.op = "write" PROVE fragment'[q.buf] = BufferOf(q)
    OBVIOUS
  <2>1. q \in Filled /\ irp'[q.irp].req = irp[q.irp].req
    BY DEF SameRequests
  <2> QED BY <2>1 DEF BuffersOk
<1>3. ASSUME (io.pc = "accessed" /\ irp[io.req.irp].req.op = "read" /\ Success(io.req.irp))'
      PROVE  (\A k \in 1 .. io.req.len : RawCell(io.req, k, fragment[io.req.buf][k]))'
  <2>1. /\ io'.req = io.req /\ (io.pc = "accessed" \/ ~Success(io.req.irp))
        /\ io.req.irp \in Irps /\ irp[io.req.irp].status # "pending"
    BY <1>3 DEF SameAccess
  <2>2. /\ irp'[io.req.irp].req.op = "read" /\ irp'[io.req.irp].status = "ok"
        /\ irp'[io.req.irp].req = irp[io.req.irp].req
        /\ irp[io.req.irp].status = "ok"
    BY <1>3, <2>1 DEF Success, SameRequests
  <2>3. io.pc = "accessed" /\ irp[io.req.irp].req.op = "read" /\ Success(io.req.irp)
    BY <2>1, <2>2 DEF Success
  <2>4. \A k \in 1 .. io.req.len : RawCell(io.req, k, fragment[io.req.buf][k])
    BY <2>3, Zenon DEF BuffersOk
  <2>5. \A k \in 1 .. io.req.len : \E v \in seen'[io.req.irp][io.req.off + k - 1] :
           fragment'[io.req.buf][k] = Stored(io.req, io.req.off + k - 1, v)
    BY <2>4, Zenon DEF RawCell
  <2> QED BY <2>1, <2>5, Zenon DEF RawCell, Stored
<1> QED BY <1>1, <1>2, <1>3, Zenon DEF BuffersOk

\* What was read and not decrypted.
LEMMA RawKept ==
    ASSUME RawOk, Fetched' \subseteq Fetched, SameRequests, UNCHANGED seen,
           \A q \in Fetched : /\ q.irp \in Irps /\ irp[q.irp].status # "pending"
                              /\ irp'[q.irp].data = irp[q.irp].data
    PROVE  RawOk'
<1> SUFFICES ASSUME NEW q \in Fetched', Success(q.irp)', NEW k \in 1 .. q.len
             PROVE  RawCell(q, k, irp[q.irp].data[q.pos + k - 1])'
  BY DEF RawOk
<1>1. q \in Fetched /\ q.irp \in Irps /\ irp[q.irp].status # "pending"
  OBVIOUS
<1>2. Success(q.irp) /\ irp'[q.irp].data = irp[q.irp].data
  BY <1>1 DEF SameRequests, Success
<1>3. RawCell(q, k, irp[q.irp].data[q.pos + k - 1])
  BY <1>1, <1>2 DEF RawOk
<1> QED BY <1>2, <1>3, Zenon DEF RawCell, Stored

\* Where main thread and fragments leave a read, its cells are fetched as before.
LEMMA FetchingKept ==
    ASSUME SameCuts, Pipe \subseteq Pipe', NEW i
    PROVE  SameFetching(i)
  BY Zenon DEF SameCuts, Fetching, Carries, SameFetching

\* What a read will return.
LEMMA ReadKept ==
    ASSUME NEW i \in Irps, ReadOk(i), SameRequests, irp'[i].data = irp[i].data, SameFetching(i), UNCHANGED seen
    PROVE  ReadOk(i)'
<1>1. /\ irp'[i].req = irp[i].req /\ irp'[i].data = irp[i].data
      /\ (Success(i)' => Success(i) \/ irp[i].status = "pending")
      /\ (irp'[i].status = "pending" => irp[i].status = "pending")
  BY DEF SameRequests, Success
<1>2. ASSUME NEW k \in DOMAIN irp[i].data PROVE Fetching(i, k) => Fetching(i, k)'
  BY DEF SameFetching
<1>3. ASSUME NEW k PROVE UnitOf(i, k)' = UnitOf(i, k) /\ (GoodCell(i, k) => GoodCell(i, k)')
  BY <1>1 DEF UnitOf, GoodCell
<1> QED BY <1>1, <1>2, <1>3, Zenon DEF ReadOk

\* What the fragments on their way are.
LEMMA PipeFacts ==
    ASSUME QueueInv, \A q \in Pipe : FragmentOk(q)
    PROVE  /\ Sent \subseteq Pipe /\ Filled \subseteq Pipe /\ Fetched \subseteq Pipe
           /\ Fetched \subseteq Sent
           /\ IoBusy => io.req \in Sent
           /\ completion.pc = "decrypt" => completion.req \in Sent
           /\ \A q \in Pipe : q.irp \in Irps /\ q \in Fragments
           /\ \A q \in Sent : Flowing(q) /\ irp[q.irp].status # "pending"
<1>1. Sent \subseteq Pipe
  BY DEF Pipe
<1>2. Entries(IoThreadQueue) \subseteq Sent /\ Entries(CompletionThreadQueue) \subseteq Sent
  BY DEF Sent
<1>3. IoBusy => io.req \in Sent
  BY DEF Sent, If
<1>4. completion.pc = "decrypt" => completion.req \in Sent
  BY DEF Sent, If
<1>5. Fetched \subseteq Sent
  BY <1>2, <1>3, <1>4 DEF Fetched, If, IoBusy
<1>6. Filled \subseteq Pipe
  BY <1>1, <1>2, <1>3 DEF Filled, If, IoBusy, Pipe
<1>7. \A q \in Pipe : q.irp \in Irps /\ q \in Fragments
  BY DEF FragmentOk
<1>8. Stages
  BY DEF QueueInv, PipeInv
<1>9. \A q \in Sent : Flowing(q)
  <2> SUFFICES ASSUME NEW q \in Sent PROVE Flowing(q)
    OBVIOUS
  <2>1. CASE q \in Entries(IoThreadQueue)
    BY <1>8, <2>1 DEF Entries, Stages
  <2>2. CASE q \in Entries(CompletionThreadQueue)
    BY <1>8, <2>2 DEF Entries, Stages
  <2>3. CASE q \in If(IoBusy, io.req)
    BY <1>8, <2>3 DEF If, Stages, IoBusy, IoHas
  <2>4. CASE q \in If(completion.pc = "decrypt", completion.req)
    BY <1>8, <2>4 DEF If, Stages, CompletionHas
  <2> QED BY <2>1, <2>2, <2>3, <2>4 DEF Sent
<1>10. \A q \in Sent : irp[q.irp].status # "pending"
  BY <1>9 DEF Flowing
<1> QED BY <1>1, <1>3, <1>4, <1>5, <1>6, <1>7, <1>9, <1>10

\* A step that leaves the data and the device alone.
LEMMA DataKept ==
    ASSUME QueueInv, DataInv, SameData, SamePending, SameDevice, AheadOk', BuffersOk', RawOk',
           \A q \in Pipe' \ Pipe : FragmentOk(q)', \A i \in Irps : SameFetching(i),
           MainOk', Pieces', CheckOk'
    PROVE  DataInv'
<1>1. /\ DeviceTypes /\ DeviceOk /\ IntactOk /\ SeenOk /\ ReadsOk
      /\ \A q \in Pipe : FragmentOk(q)
  BY DEF DataInv, FragmentsOk
<1>2. \A q \in Pipe : q.irp \in Irps
  BY <1>1, PipeFacts
<1>3. DeviceTypes' /\ DeviceOk' /\ IntactOk'
  BY <1>1, DeviceKept
<1>4. /\ SameRequests /\ \A j \in Irps : irp'[j].req = irp[j].req /\ irp'[j].data = irp[j].data
      /\ UNCHANGED <<seen, content, EncryptedAreaEnd>>
  BY DEF SameData, SameRequests, SameDevice
<1>5. SeenOk'
  BY <1>1, <1>4, SeenKept
<1>6. \A q \in Pipe' : FragmentOk(q)'
  <2>1. \A q \in Pipe : DOMAIN irp'[q.irp].data = DOMAIN irp[q.irp].data
    BY <1>2, <1>4
  <2>2. \A q \in Pipe : FragmentOk(q)'
    BY <1>1, <1>4, <2>1, PipeFragmentsKept
  <2> QED BY <2>2
<1>7. ReadsOk'
  <2> SUFFICES ASSUME NEW i \in Irps PROVE ReadOk(i)'
    BY DEF ReadsOk
  <2>1. ReadOk(i) /\ SameFetching(i) /\ irp'[i].data = irp[i].data /\ UNCHANGED seen
    BY <1>1, <1>4 DEF ReadsOk
  <2> QED BY <1>4, <2>1, ReadKept
<1>8. FragmentsOk'
  BY <1>6, Zenon DEF FragmentsOk
<1> QED BY <1>3, <1>5, <1>7, <1>8 DEF DataInv

\* A step that leaves the fragments, their buffers and what was read ahead alone as well.
LEMMA QuietData ==
    ASSUME QueueInv, DataInv, SameData, SamePending, SameDevice,
           UNCHANGED <<readAhead, lastRead, fragment>>,
           \A q \in Pipe' \ Pipe : FragmentOk(q)', \A i \in Irps : SameFetching(i),
           Fetched' \subseteq Fetched, Filled' \subseteq Filled, SameAccess, MainOk', Pieces', CheckOk'
    PROVE  DataInv'
<1>1. AheadOk /\ BuffersOk /\ RawOk /\ \A q \in Pipe : FragmentOk(q)
  BY DEF DataInv, FragmentsOk
<1>2. /\ Filled \subseteq Pipe /\ Fetched \subseteq Sent /\ Sent \subseteq Pipe /\ (IoBusy => io.req \in Sent)
      /\ \A q \in Pipe : q.irp \in Irps
      /\ \A q \in Sent : irp[q.irp].status # "pending"
  BY <1>1, PipeFacts
<1>3. SameRequests /\ \A j \in Irps : irp'[j].req = irp[j].req /\ irp'[j].data = irp[j].data
  BY DEF SameData, SameRequests
<1>4. io.pc \in {"access", "accessed"} => io.req.irp \in Irps /\ irp[io.req.irp].status # "pending"
  BY <1>2 DEF IoBusy
<1>5. AheadOk'
  <2>1. Overwriting => Overwriting'
    BY <1>3, <1>4 DEF Overwriting, SameAccess
  <2> QED BY <1>1, <2>1, AheadKept DEF SameDevice
<1>6. BuffersOk'
  <2>1. \A q \in Filled : q.irp \in Irps
    BY <1>2
  <2>2. io'.pc = "accessed" => io.req.irp \in Irps /\ irp[io.req.irp].status # "pending"
    BY <1>4 DEF SameAccess
  <2>3. UNCHANGED seen
    BY DEF SameDevice
  <2> QED BY <1>1, <1>3, <2>1, <2>2, <2>3, FilledKept
<1>7. RawOk'
  <2>1. \A q \in Fetched : /\ q.irp \in Irps /\ irp[q.irp].status # "pending"
                            /\ irp'[q.irp].data = irp[q.irp].data
    BY <1>2, <1>3
  <2> QED BY <1>1, <1>3, <2>1, RawKept DEF SameDevice
<1> QED BY <1>5, <1>6, <1>7, DataKept

-----------------------------------------------------------------------------
(***************************************************************************)
(* The steps of the main thread.                                           *)
(***************************************************************************)
\* The device is untouched as long as no holder runs and nothing is written.
LEMMA StillDevice ==
    ASSUME DeviceTypes, UNCHANGED <<disk, content, seen, EncryptedAreaEnd, holder>>
    PROVE  SameDevice
<1>1. AreaNow' = AreaNow /\ Holding' = Holding
  BY DEF AreaNow, Holding, FirstPlain
<1> QED BY <1>1 DEF SameDevice, DeviceTypes

MainKeeps ==
    /\ UNCHANGED <<aheadVars, CompletionThreadQueue, io, completion, holder, diskVars>>
    /\ UNCHANGED <<IoThreadQueue, fragment>>

\* A step of the main thread that leaves the fragments alone.
LEMMA MainQuietData ==
    ASSUME QueueInv, DataInv, MainKeeps, SameData, SamePending,
           main.pc \notin {"acquire", "enqueue"}, main'.pc \notin {"acquire", "enqueue"},
           MainCuts' <=> MainCuts, MainCuts => main'.irp = main.irp /\ MainPos' = MainPos,
           MainOk', CheckOk'
    PROVE  DataInv'
<1>1. /\ UNCHANGED <<readAhead, lastRead, fragment>>
      /\ UNCHANGED <<disk, content, seen, EncryptedAreaEnd, holder>>
      /\ UNCHANGED <<CompletionThreadQueue, io, completion, IoThreadQueue>>
  BY DEF MainKeeps, aheadVars, diskVars
<1>2. SameDevice
  BY <1>1, StillDevice DEF DataInv
<1>3. Sent' = Sent
  BY <1>1 DEF Sent, IoBusy, If, Entries
<1>4. Pipe' = Pipe
  BY <1>3 DEF Pipe, If
<1>5. Fetched' = Fetched
  BY <1>1 DEF Fetched, If, Entries
<1>6. Filled' = Filled
  BY <1>1 DEF Filled, If, Entries
<1>7. SameAccess
  BY <1>1 DEF SameAccess
<1>8. \A i \in Irps : SameFetching(i)
  BY <1>4, FetchingKept DEF SameCuts
<1>9. Pieces'
  BY <1>1, <1>3, PiecesKept DEF DataInv, IoBusy
<1> QED BY <1>1, <1>2, <1>4, <1>5, <1>6, <1>7, <1>8, <1>9, QuietData

\* The IRPs as they were, or one of them completed.
LEMMA IrpsStay ==
    ASSUME IrpTypes
    PROVE  /\ UNCHANGED irp => SameData /\ SamePending
           /\ \A i \in Irps : CompleteIrp(i) => SameData /\ SamePending
           /\ \A i \in Irps, st \in Statuses \ {"pending"} :
                 irp' = [irp EXCEPT ![i].status = st] /\ (st = "ok" => irp[i].status \in {"ok", "pending"}) =>
                     SameData /\ SamePending
<1>1. UNCHANGED irp => SameData /\ SamePending
  BY DEF SameData, SameRequests, SamePending, IrpTypes, Statuses
<1>2. ASSUME NEW i \in Irps, CompleteIrp(i) PROVE SameData /\ SamePending
  <2>1. irp' = [irp EXCEPT ![i].done = @ + 1]
    BY <1>2 DEF CompleteIrp
  <2>2. \A j \in Irps : /\ irp'[j].req = irp[j].req /\ irp'[j].data = irp[j].data
                        /\ irp'[j].status = irp[j].status /\ irp'[j].disp = irp[j].disp
                        /\ irp'[j].done = IF j = i THEN irp[j].done + 1 ELSE irp[j].done
    BY <2>1 DEF IrpTypes, IrpFields
  <2>3. irp[i].done \in {0, 1}
    BY DEF IrpTypes
  <2> QED BY <2>2, <2>3 DEF SameData, SameRequests, SamePending
<1>3. ASSUME NEW i \in Irps, NEW st \in Statuses \ {"pending"},
             irp' = [irp EXCEPT ![i].status = st], st = "ok" => irp[i].status \in {"ok", "pending"}
      PROVE  SameData /\ SamePending
  <2>1. \A j \in Irps : /\ irp'[j].req = irp[j].req /\ irp'[j].data = irp[j].data
                        /\ irp'[j].status = (IF j = i THEN st ELSE irp[j].status)
                        /\ irp'[j].disp = irp[j].disp /\ irp'[j].done = irp[j].done
    BY <1>3 DEF IrpTypes, IrpFields
  <2> QED BY <1>3, <2>1 DEF SameData, SameRequests, SamePending
<1> QED BY <1>1, <1>2, <1>3

\* The steps before the first fragment and after the last.
LEMMA MainControlData ==
    ASSUME QueueInv, DataInv,
           \/ MainWait \/ MainDequeue \/ MainGate \/ MainWaitResumed \/ MainGetItem
           \/ MainRefuse \/ MainComplete \/ MainSignalIdle \/ MainReleaseItem
    PROVE  DataInv'
<1>1. IrpTypes /\ main \in MainStates /\ Waiting
  BY DEF QueueInv, ShapeInv, ThreadTypes, PipeInv
<1>2. MainKeeps
  BY DEF MainKeeps, mainRest, bufVars, MainWait, MainDequeue, MainGate, MainWaitResumed, MainGetItem,
         MainRefuse, MainComplete, MainSignalIdle, MainReleaseItem
<1>3. /\ main.pc \in {"wait", "dequeue", "gate", "suspended", "getItem", "check", "complete",
                      "signalIdle", "releaseItem"}
      /\ main'.pc \in {"wait", "dequeue", "exited", "gate", "suspended", "getItem", "waitItem", "check",
                       "complete", "signalIdle", "releaseItem"}
      /\ main'.pc = "check" => MainGetItem
  <2>1. ASSUME MainWait \/ MainDequeue \/ MainGate \/ MainWaitResumed
        PROVE <1>3!:
    BY <1>1, <2>1 DEF MainStates, MainWait, MainDequeue, MainGate, MainWaitResumed, MainGoTo
  <2>2. ASSUME MainRefuse \/ MainComplete \/ MainSignalIdle
        PROVE <1>3!:
    BY <1>1, <2>2 DEF MainStates, MainRefuse, MainComplete, MainSignalIdle, MainGoTo, AfterComplete
  <2>3. ASSUME MainReleaseItem
        PROVE <1>3!:
    BY <1>1, <2>3 DEF MainReleaseItem, MainDone, IdleMain
  <2>4. ASSUME MainGetItem
        PROVE <1>3!:
    BY <1>1, <2>4 DEF MainStates, MainGetItem, MainGoTo
  <2> QED BY <2>1, <2>2, <2>3, <2>4
<1>4. ~MainCuts /\ ~MainCuts'
  BY <1>3 DEF MainCuts
<1>5. MainOk'
  BY <1>3, <1>4 DEF MainOk
<1>6. MainHas => main.irp \in Irps
  BY <1>1 DEF Waiting, MainOwns, Live
<1>7. SameData /\ SamePending
  <2>1. CASE MainWait \/ MainDequeue \/ MainGate \/ MainWaitResumed \/ MainSignalIdle \/ MainReleaseItem
    <3>1. UNCHANGED irp
      BY <2>1 DEF MainWait, MainDequeue, MainGate, MainWaitResumed, MainSignalIdle, MainReleaseItem
    <3> QED BY <1>1, <3>1, IrpsStay
  <2>2. CASE MainGetItem
    <3>1. main.pc = "getItem" /\ main.irp \in Irps /\ irp[main.irp].status = "pending"
      BY <1>1, <1>6, <2>2 DEF MainGetItem, MainHas, MainEarly, Waiting, MainOwns
    <3>2. irp' = [irp EXCEPT ![main.irp].status = "ok"] \/ UNCHANGED irp
      BY <2>2 DEF MainGetItem
    <3>3. "ok" \in Statuses \ {"pending"}
      BY DEF Statuses
    <3> QED BY <1>1, <3>1, <3>2, <3>3, IrpsStay
  <2>3. CASE MainRefuse
    <3>1. PICK st \in SystemRefusals \cup {Refusal(irp[main.irp].req)} :
             /\ st = Refusal(irp[main.irp].req) => Refusal(irp[main.irp].req) # "no"
             /\ irp' = [irp EXCEPT ![main.irp].status = st]
      BY <2>3 DEF MainRefuse
    <3>2. st \in Statuses \ {"pending"}
      BY <3>1, RefusalStatus, QueueAssumption
    <3>3. st # "ok"
      BY <3>1, QueueAssumption DEF Refusal, QueueAssumption
    <3>4. main.irp \in Irps
      BY <1>6, <2>3 DEF MainRefuse, MainHas, MainEarly
    <3> QED BY <1>1, <3>1, <3>2, <3>3, <3>4, IrpsStay
  <2>4. CASE MainComplete
    <3>1. main.irp \in Irps /\ CompleteIrp(main.irp)
      BY <1>6, <2>4 DEF MainComplete, MainHas, MainEarly
    <3> QED BY <1>1, <3>1, IrpsStay
  <2> QED BY <2>1, <2>2, <2>3, <2>4
<1>8. CheckOk'
  <2> SUFFICES ASSUME main'.pc = "check" PROVE DOMAIN irp'[main'.irp].data = {}
    BY DEF CheckOk
  <2>1. MainGetItem
    BY <1>3
  <2>2. main.pc = "getItem" /\ main'.irp = main.irp
    BY <1>1, <2>1 DEF MainGetItem, MainGoTo, MainStates
  <2>3. main.irp \in Irps /\ irp[main.irp].status = "pending"
    BY <1>1, <1>6, <2>2 DEF MainHas, MainEarly, Waiting, MainOwns
  <2>4. DOMAIN irp[main.irp].data = {}
    BY <2>3 DEF DataInv, ReadsOk, ReadOk
  <2> QED BY <1>7, <2>2, <2>3, <2>4 DEF SameData
<1> QED BY <1>2, <1>3, <1>4, <1>5, <1>7, <1>8, MainQuietData

\* Where a request lies.
LEMMA RequestNumbers ==
    ASSUME IrpTypes, NEW i \in Irps
    PROVE  /\ HostOffset(irp[i].req) \in Nat /\ irp[i].req.len \in Nat /\ irp[i].req.off \in Nat
           /\ irp[i].req.op # "other" => irp[i].req \in Requests
<1>1. irp[i].req \in Requests \cup {NoRequest}
  BY DEF IrpTypes
<1>2. irp[i].req.len \in Nat /\ irp[i].req.off \in Nat
  BY <1>1, QueueAssumption DEF QueueAssumption, NoRequest
<1>3. DataOffset \in Nat
  BY QueueAssumption DEF QueueAssumption
<1> QED BY <1>1, <1>2, <1>3 DEF HostOffset, NoRequest

\* What the main thread knows of the rest of the IRP it cuts.
CutFacts(r) ==
    /\ Allowed(r) /\ DOMAIN irp[main.irp].data = 1 .. r.len
    /\ main.pos >= 1 /\ main.left >= 1 /\ main.pos + main.left - 1 = r.len
    /\ main.off = HostOffset(r) + main.pos - 1

\* The next fragment is cut, and the main thread goes on after it.
LEMMA MainCuttingData ==
    ASSUME QueueInv, DataInv,
           \/ MainNextFragment \/ MainWaitPool \/ MainSignalIo
           \/ MainGetRequest /\ main'.pc # "acquire"
    PROVE  DataInv'
<1>1. IrpTypes /\ main \in MainStates /\ Waiting /\ FragmentMade
  BY DEF QueueInv, ShapeInv, ThreadTypes, PipeInv
<1>2. MainKeeps /\ UNCHANGED irp
  BY DEF MainKeeps, mainRest, bufVars, MainNextFragment, MainWaitPool, MainSignalIo, MainGetRequest
<1>3. SameData /\ SamePending
  BY <1>1, <1>2, IrpsStay
<1>4. MaxFragment \in Nat \ {0}
  BY QueueAssumption DEF QueueAssumption
<1>5. /\ main.off \in Nat /\ main.left \in Nat /\ main.pos \in Nat
  BY <1>1 DEF MainStates
<1>6. MainCuts => main.irp \in Irps
  BY <1>1 DEF MainCuts, Waiting, MainOwns, MainHas, Live
<1>7. MainCuts => CutFacts(irp[main.irp].req)
  BY DEF DataInv, FragmentsOk, MainOk, CutFacts
<1>8. CASE MainNextFragment
  <2>1. /\ main.pc = "fragment" /\ main'.pc = "getRequest" /\ main'.irp = main.irp /\ main'.off = main.off
        /\ main'.left = main.left /\ main'.pos = main.pos
        /\ main'.req.pos = main.pos /\ main'.req.off = main.off
        /\ main'.req.len = IF main.left <= MaxFragment THEN main.left ELSE MaxFragment
    BY <1>1, <1>8 DEF MainNextFragment, MainStates
  <2>2. MainCuts /\ MainCuts' /\ MainPos' = MainPos
    BY <2>1 DEF MainCuts, MainPos
  <2>3. MainOk'
    BY <1>2, <1>7, <2>1, <2>2 DEF MainOk, CutFacts
  <2> QED BY <1>2, <1>3, <2>1, <2>2, <2>3, MainQuietData DEF CheckOk
<1>9. CASE MainWaitPool
  <2>1. /\ \/ main.pc = "waitItem" /\ main'.pc = "getItem"
           \/ main.pc = "waitRequest" /\ main'.pc = "getRequest"
        /\ main'.irp = main.irp /\ main'.off = main.off
        /\ main'.left = main.left /\ main'.pos = main.pos /\ main'.req = main.req
    BY <1>1, <1>9 DEF MainWaitPool, MainGoTo, MainStates
  <2>2. (MainCuts <=> MainCuts') /\ MainPos' = MainPos
    BY <2>1 DEF MainCuts, MainPos
  <2>3. MainOk'
    <3>1. CASE main.pc = "waitItem"
      BY <2>1, <3>1 DEF MainOk, MainCuts
    <3>2. CASE main.pc = "waitRequest"
      <4>1. /\ main.req.pos = main.pos /\ main.req.off = main.off
            /\ main.req.len = IF main.left <= MaxFragment THEN main.left ELSE MaxFragment
        BY <3>2 DEF DataInv, FragmentsOk, MainOk
      <4> QED BY <1>2, <1>7, <2>1, <2>2, <4>1 DEF MainOk, CutFacts
    <3> QED BY <2>1, <3>1, <3>2
  <2> QED BY <1>2, <1>3, <2>1, <2>2, <2>3, MainQuietData DEF CheckOk
<1>10. CASE MainGetRequest /\ main'.pc # "acquire"
  <2>1. /\ main.pc = "getRequest" /\ main'.pc = "waitRequest"
        /\ main'.irp = main.irp /\ main'.off = main.off
        /\ main'.left = main.left /\ main'.pos = main.pos /\ main'.req = main.req
    BY <1>1, <1>10 DEF MainGetRequest, MainGoTo, MainStates
  <2>2. MainCuts /\ MainCuts' /\ MainPos' = MainPos
    BY <2>1 DEF MainCuts, MainPos
  <2>3. MainOk'
    <3>1. /\ main.req.pos = main.pos /\ main.req.off = main.off
          /\ main.req.len = IF main.left <= MaxFragment THEN main.left ELSE MaxFragment
      BY <2>1 DEF DataInv, FragmentsOk, MainOk
    <3> QED BY <1>2, <1>7, <2>1, <2>2, <3>1 DEF MainOk, CutFacts
  <2> QED BY <1>2, <1>3, <2>1, <2>2, <2>3, MainQuietData DEF CheckOk
<1>11. CASE MainSignalIo /\ main.req.last
  <2>1. main.pc = "signalIo" /\ main'.pc = "dequeue"
    BY <1>11 DEF MainSignalIo, MainDone, IdleMain
  <2>2. ~MainCuts /\ ~MainCuts'
    BY <1>11, <2>1 DEF MainCuts
  <2>3. MainOk'
    BY <2>1, <2>2 DEF MainOk
  <2> QED BY <1>2, <1>3, <2>1, <2>2, <2>3, MainQuietData DEF CheckOk
<1>12. CASE MainSignalIo /\ ~main.req.last
  <2>1. /\ main.pc = "signalIo" /\ main'.pc = "fragment" /\ main'.irp = main.irp
        /\ main'.off = main.off + MaxFragment /\ main'.left = main.left - MaxFragment
        /\ main'.pos = main.pos + MaxFragment
    BY <1>1, <1>12 DEF MainSignalIo, MainStates
  <2>2. MainCuts /\ MainCuts' /\ MainPos' = MainPos
    BY <1>12, <2>1 DEF MainCuts, MainPos
  <2>3. ~(main.left <= MaxFragment)
    BY <1>1, <1>12, <2>1 DEF FragmentMade, MainMakes
  <2>4. CutFacts(irp[main.irp].req)'
    <3> DEFINE r == irp[main.irp].req
    <3>1. CutFacts(r) /\ irp'[main'.irp] = irp[main.irp]
      BY <1>2, <1>7, <2>1, <2>2
    <3>2. HostOffset(r) \in Nat /\ r.len \in Nat
      BY <1>1, <1>6, <2>2, RequestNumbers
    <3>3. /\ main'.pos >= 1 /\ main'.left >= 1 /\ main'.pos + main'.left - 1 = r.len
          /\ main'.off = HostOffset(r) + main'.pos - 1
      BY <1>4, <1>5, <2>1, <2>3, <3>1, <3>2, SMTT(60) DEF CutFacts
    <3>4. Allowed(r) /\ DOMAIN irp'[main'.irp].data = 1 .. r.len
      BY <3>1 DEF CutFacts
    <3> QED BY <3>1, <3>3, <3>4 DEF CutFacts
  <2>5. MainOk'
    BY <2>1, <2>2, <2>4 DEF MainOk, CutFacts
  <2> QED BY <1>2, <1>3, <2>1, <2>2, <2>5, MainQuietData DEF CheckOk
<1> QED BY <1>8, <1>9, <1>10, <1>11, <1>12

\* The request gets its encrypted part from the area of now.
LEMMA MainGetRequestData ==
    ASSUME QueueInv, DataInv, MainGetRequest, main'.pc = "acquire"
    PROVE  DataInv'
<1>1. IrpTypes /\ main \in MainStates /\ Waiting /\ FragmentMade
  BY DEF QueueInv, ShapeInv, ThreadTypes, PipeInv
<1>2. MainKeeps /\ UNCHANGED irp
  BY DEF MainKeeps, mainRest, MainGetRequest
<1>3. SameData /\ SamePending
  BY <1>1, <1>2, IrpsStay
<1>4. /\ UNCHANGED <<readAhead, lastRead, fragment>>
      /\ UNCHANGED <<disk, content, seen, EncryptedAreaEnd, holder>>
      /\ UNCHANGED <<CompletionThreadQueue, io, completion, IoThreadQueue>>
  BY <1>2 DEF MainKeeps, aheadVars, diskVars
<1>5. main' = [main EXCEPT !.pc = "acquire", !.req.enc = Covered(main.req)] /\ main.pc = "getRequest"
  BY <1>1 DEF MainGetRequest, MainGoTo, Covered, MainStates
<1>6. /\ main'.irp = main.irp /\ main'.off = main.off /\ main'.left = main.left /\ main'.pos = main.pos
      /\ main'.req = [main.req EXCEPT !.enc = Covered(main.req)]
  BY <1>1, <1>5 DEF MainStates
<1>7. /\ main'.req.irp = main.req.irp /\ main'.req.off = main.req.off /\ main'.req.len = main.req.len
      /\ main'.req.pos = main.req.pos /\ main'.req.enc = Covered(main.req)
      /\ main'.req.last = main.req.last /\ main'.req.buf = main.req.buf
  BY <1>1, <1>6 DEF MainStates, Fragments
<1>8. MainCuts /\ MainCuts' /\ MainPos' = MainPos
  BY <1>5, <1>6 DEF MainCuts, MainPos
<1>9. /\ main.req.pos = main.pos /\ main.req.off = main.off
      /\ main.req.len = IF main.left <= MaxFragment THEN main.left ELSE MaxFragment
  BY <1>5 DEF DataInv, FragmentsOk, MainOk
<1>10. main.irp \in Irps /\ main.req.irp = main.irp /\ CutFacts(irp[main.irp].req)
  BY <1>1, <1>5, <1>8 DEF Waiting, MainOwns, MainHas, Live, FragmentMade, MainMakes,
       DataInv, FragmentsOk, MainOk, CutFacts
<1>11. MainOk'
  BY <1>2, <1>6, <1>7, <1>9, <1>10 DEF MainOk, CutFacts
<1>12. /\ main.off \in Nat /\ main.left \in Nat /\ main.pos \in Nat /\ MaxFragment \in Nat \ {0}
       /\ main.req \in Fragments
  BY <1>1, QueueAssumption DEF MainStates, QueueAssumption
<1>13. FragmentOk(main'.req)
  <2> DEFINE r == irp[main.irp].req
  <2>1. Placed(main'.req, r)
    <3>1. HostOffset(r) \in Nat /\ r.len \in Nat
      BY <1>1, <1>10, RequestNumbers
    <3> QED BY <1>7, <1>9, <1>10, <1>12, <3>1 DEF Placed, CutFacts
  <2>2. Covered(main.req) \subseteq Nat
    <3>1. main.req.off .. main.req.off + main.req.len - 1 \subseteq Nat
      BY <1>12 DEF Fragments
    <3> QED BY <3>1 DEF Covered, Intersection
  <2>3. main'.req \in Fragments
    BY <1>6, <1>12, <2>2 DEF Fragments
  <2>4. Covered(main'.req) = Covered(main.req)
    BY <1>7 DEF Covered
  <2>5. Allowed(r) /\ DOMAIN irp[main.irp].data = 1 .. r.len
    BY <1>10 DEF CutFacts
  <2>6. main'.req.irp = main.irp /\ main'.req.enc = Covered(main'.req)
    BY <1>7, <1>10, <2>4
  <2> HIDE DEF r
  <2> QED BY <1>10, <2>1, <2>3, <2>5, <2>6 DEF FragmentOk, r
<1>14. FragmentOk(main.req)'
  BY <1>2, <1>4, <1>13 DEF FragmentOk, Covered
<1>15. Sent' = Sent
  BY <1>4 DEF Sent, IoBusy, If, Entries
<1>16. Pipe' = Pipe \cup {main'.req}
  BY <1>5, <1>15 DEF Pipe, If
<1>17. Fetched' = Fetched
  BY <1>4 DEF Fetched, If, Entries
<1>18. Filled' = Filled
  BY <1>4, <1>5 DEF Filled, If, Entries
<1>19. SameDevice /\ SameAccess
  BY <1>4, StillDevice DEF DataInv, SameAccess
<1>20. \A i \in Irps : SameFetching(i)
  BY <1>6, <1>8, <1>16, FetchingKept DEF SameCuts
<1>21. Pieces'
  BY <1>4, <1>6, <1>8, <1>15, PiecesKept DEF DataInv, IoBusy
<1>22. CheckOk'
  BY DEF CheckOk
<1>23. \A q \in Pipe' \ Pipe : FragmentOk(q)'
  BY <1>14, <1>16
<1> QED BY <1>3, <1>4, <1>11, <1>17, <1>18, <1>19, <1>20, <1>21, <1>22, <1>23, QuietData

\* The buffer that is filled is with no other fragment.
LEMMA MainAcquireBufferData ==
    ASSUME QueueInv, BufferInv, DataInv, MainAcquireBuffer
    PROVE  DataInv'
<1> DEFINE q0 == main.req
<1>1. IrpTypes /\ main \in MainStates /\ Waiting /\ FragmentMade
  BY DEF QueueInv, ShapeInv, ThreadTypes, PipeInv
<1>2. UNCHANGED <<irp, IoThreadQueue, mainRest>>
  BY DEF MainAcquireBuffer
<1>3. SameData /\ SamePending
  BY <1>1, <1>2, IrpsStay
<1>4. /\ UNCHANGED <<readAhead, lastRead>>
      /\ UNCHANGED <<disk, content, seen, EncryptedAreaEnd, holder>>
      /\ UNCHANGED <<CompletionThreadQueue, io, completion, IoThreadQueue>>
  BY <1>2 DEF mainRest, aheadVars, diskVars
<1>5. /\ main.pc = "acquire" /\ main'.pc = "enqueue" /\ event[q0.buf]
      /\ main'.irp = main.irp /\ main'.off = main.off /\ main'.left = main.left /\ main'.pos = main.pos
      /\ main'.req = main.req
  BY <1>1 DEF MainAcquireBuffer, MainGoTo, Wait, MainStates
<1>6. MainCuts /\ MainCuts' /\ MainPos' = MainPos
  BY <1>5 DEF MainCuts, MainPos
<1>7. q0 \in Pipe /\ FragmentOk(q0) /\ q0.buf \in Buffers /\ q0 \in Fragments
  BY <1>5 DEF Pipe, If, DataInv, FragmentsOk, FragmentOk, Fragments, Buffers
<1>8. fragment' = IF irp[q0.irp].req.op = "write" THEN [fragment EXCEPT ![q0.buf] = BufferOf(q0)] ELSE fragment
  <2>1. \A k : (IF q0.off + k - 1 \in q0.enc
                THEN EncryptDataUnit(Plain(q0.irp), q0.off + k - 1 + DataUnitOffset) ELSE Plain(q0.irp))
               = Stored(q0, q0.off + k - 1, q0.irp)
    BY DEF EncryptDataUnit, Plain, Stored
  <2> QED BY <2>1 DEF MainAcquireBuffer, BufferOf
<1>9. BuffersOk
  BY DEF DataInv
<1>10. ~InUse(q0.buf)
  BY <1>5, <1>7 DEF BufferInv, BuffersMarked
<1>11. MainOk'
  BY <1>2, <1>5, <1>6 DEF DataInv, FragmentsOk, MainOk
<1>12. Sent' = Sent
  BY <1>4 DEF Sent, IoBusy, If, Entries
<1>13. Pipe' = Pipe
  BY <1>5, <1>12 DEF Pipe, If
<1>14. Fetched' = Fetched
  BY <1>4 DEF Fetched, If, Entries
<1>15. /\ Filled' = Filled \cup {q0}
       /\ \A q \in Filled : q.buf # q0.buf
  <2>1. Filled' = Filled \cup {q0}
    BY <1>4, <1>5 DEF Filled, If, Entries
  <2>2. ASSUME NEW q \in Filled PROVE q.buf # q0.buf
    <3>1. q \in Entries(IoThreadQueue) \/ (io.pc = "access" /\ q = io.req)
      BY <1>5 DEF Filled, If
    <3> QED BY <1>10, <3>1 DEF InUse, IoUses, Entries
  <2> QED BY <2>1, <2>2
<1>16. SameDevice
  BY <1>4, StillDevice DEF DataInv
<1>17. BuffersOk'
  <2>1. BufferOf(q0) \in Seq(Cells)
    <3>1. q0.len \in Nat /\ q0.off \in Nat /\ DataUnitOffset \in Nat /\ q0.irp \in Nat
      BY <1>7, QueueAssumption DEF Fragments, FragmentOk, QueueAssumption
    <3>2. ASSUME NEW k \in 1 .. q0.len PROVE Stored(q0, q0.off + k - 1, q0.irp) \in Cells
      BY <3>1 DEF Stored, Plain, Cells
    <3> QED BY <3>1, <3>2 DEF BufferOf
  <2>2. DOMAIN fragment = Buffers /\ \A b \in Buffers : fragment[b] \in Seq(Cells)
    BY <1>9 DEF BuffersOk
  <2>3. DOMAIN fragment' = Buffers /\ \A b \in Buffers : fragment'[b] \in Seq(Cells)
    BY <1>7, <1>8, <2>1, <2>2
  <2>4. ASSUME NEW q \in Filled', irp'[q.irp].req.op = "write" PROVE fragment'[q.buf] = BufferOf(q)
    <3>1. CASE q = q0
      BY <1>2, <1>7, <1>8, <2>2, <2>4, <3>1
    <3>2. CASE q \in Filled /\ q.buf # q0.buf
      BY <1>2, <1>8, <1>9, <2>4, <3>2 DEF BuffersOk
    <3> QED BY <1>15, <3>1, <3>2
  <2>5. ASSUME (io.pc = "accessed" /\ irp[io.req.irp].req.op = "read" /\ Success(io.req.irp))'
        PROVE  (\A k \in 1 .. io.req.len : RawCell(io.req, k, fragment[io.req.buf][k]))'
    <3>1. io.pc = "accessed" /\ irp[io.req.irp].req.op = "read" /\ Success(io.req.irp)
      BY <1>2, <1>4, <2>5 DEF Success
    <3>2. \A k \in 1 .. io.req.len : RawCell(io.req, k, fragment[io.req.buf][k])
      BY <1>9, <3>1 DEF BuffersOk
    <3>3. fragment'[io.req.buf] = fragment[io.req.buf]
      BY <1>8, <1>10, <3>1 DEF InUse, IoUses
    <3>4. \A k \in 1 .. io.req.len : \E v \in seen'[io.req.irp][io.req.off + k - 1] :
           fragment'[io.req.buf][k] = Stored(io.req, io.req.off + k - 1, v)
      BY <1>4, <3>2, <3>3, Zenon DEF RawCell
    <3> QED BY <1>4, <3>4, Zenon DEF RawCell, Stored
  <2> QED BY <2>3, <2>4, <2>5, Zenon DEF BuffersOk
<1>18. AheadOk'
  <2>1. Overwriting => Overwriting'
    BY <1>2, <1>4 DEF Overwriting
  <2> QED BY <1>4, <1>16, <2>1, AheadKept DEF SameDevice, DataInv
<1>19. RawOk'
  BY <1>2, <1>4, <1>14, Zenon DEF DataInv, RawOk, RawCell, Stored, Success
<1>20. \A i \in Irps : SameFetching(i)
  BY <1>5, <1>6, <1>13, FetchingKept DEF SameCuts
<1>21. Pieces'
  BY <1>4, <1>5, <1>6, <1>12, PiecesKept DEF DataInv, IoBusy
<1>22. CheckOk'
  BY <1>5 DEF CheckOk
<1> QED BY <1>3, <1>11, <1>13, <1>16, <1>17, <1>18, <1>19, <1>20, <1>21, <1>22, DataKept

\* The fragment that is queued continues where those sent before it end.
LEMMA MainEnqueueData ==
    ASSUME QueueInv, DataInv, MainEnqueue
    PROVE  DataInv'
<1> DEFINE q0 == main.req
           Q == IoThreadQueue
<1>1. IrpTypes /\ main \in MainStates /\ Waiting /\ FragmentMade /\ IoThreadQueue \in Seq(Fragments)
  BY DEF QueueInv, ShapeInv, ThreadTypes, PipeInv, QueueTypes
<1>2. UNCHANGED <<irp, fragment, mainRest>> /\ IoThreadQueue' = Append(IoThreadQueue, q0)
  BY DEF MainEnqueue, bufVars
<1>3. SameData /\ SamePending
  BY <1>1, <1>2, IrpsStay
<1>4. /\ UNCHANGED <<readAhead, lastRead>>
      /\ UNCHANGED <<disk, content, seen, EncryptedAreaEnd, holder>>
      /\ UNCHANGED <<CompletionThreadQueue, io, completion>>
  BY <1>2 DEF mainRest, aheadVars, diskVars
<1>5. /\ main.pc = "enqueue" /\ main'.pc = "signalIo"
      /\ main'.irp = main.irp /\ main'.off = main.off /\ main'.left = main.left /\ main'.pos = main.pos
      /\ main'.req = main.req
  BY <1>1 DEF MainEnqueue, MainGoTo, MainStates
<1>6. /\ MainCuts /\ (MainCuts' <=> ~q0.last) /\ MainPos = main.pos /\ MainPos' = main.pos + MaxFragment
  BY <1>5 DEF MainCuts, MainPos
<1>7. q0 \in Pipe /\ FragmentOk(q0) /\ q0 \in Fragments
  BY <1>5 DEF Pipe, If, DataInv, FragmentsOk, FragmentOk
<1>8. /\ q0.pos = main.pos /\ q0.off = main.off /\ q0.irp = main.irp /\ main.irp \in Irps
      /\ q0.len = IF main.left <= MaxFragment THEN main.left ELSE MaxFragment
      /\ q0.last = (main.left <= MaxFragment)
      /\ CutFacts(irp[main.irp].req)
  BY <1>1, <1>5, <1>6 DEF DataInv, FragmentsOk, MainOk, FragmentMade, MainMakes, CutFacts,
       Waiting, MainOwns, MainHas, Live
<1>9. /\ main.off \in Nat /\ main.left \in Nat /\ main.pos \in Nat /\ MaxFragment \in Nat \ {0}
  BY <1>1, QueueAssumption DEF MainStates, QueueAssumption
<1>10. MainOk'
  BY <1>2, <1>5, <1>6, <1>8 DEF MainOk, CutFacts
<1>11. /\ DOMAIN Q' = 1 .. Len(Q) + 1 /\ DOMAIN Q = 1 .. Len(Q) /\ Len(Q) \in Nat
       /\ \A n \in DOMAIN Q' : Q'[n] = IF n = Len(Q) + 1 THEN q0 ELSE Q[n]
  BY <1>1, <1>2, <1>7, AppendFacts
<1>12. Entries(Q') = Entries(Q) \cup {q0}
  <2>1. ASSUME NEW x \in Entries(Q') PROVE x \in Entries(Q) \cup {q0}
    <3>1. PICK n \in DOMAIN Q' : x = Q'[n]
      BY <2>1 DEF Entries
    <3>2. n = Len(Q) + 1 \/ n \in DOMAIN Q
      BY <1>11, <3>1
    <3>3. x = q0 \/ (n \in DOMAIN Q /\ x = Q[n])
      BY <1>11, <3>1, <3>2
    <3> QED BY <3>3 DEF Entries
  <2>2. ASSUME NEW x \in Entries(Q) PROVE x \in Entries(Q')
    <3>1. PICK n \in DOMAIN Q : x = Q[n]
      BY <2>2 DEF Entries
    <3>2. n \in DOMAIN Q' /\ n # Len(Q) + 1
      BY <1>11, <3>1
    <3>3. Q'[n] = Q[n]
      BY <1>11, <3>2
    <3> QED BY <3>1, <3>2, <3>3 DEF Entries
  <2>3. q0 \in Entries(Q')
    <3>1. Len(Q) + 1 \in DOMAIN Q' /\ Q'[Len(Q) + 1] = q0
      BY <1>11
    <3> QED BY <3>1 DEF Entries
  <2> QED BY <2>1, <2>2, <2>3
<1> HIDE DEF Q
<1>13. Sent' = Sent \cup {q0}
  BY <1>4, <1>12 DEF Sent, IoBusy, If, Q, Entries
<1>14. Pipe' = Pipe
  BY <1>5, <1>7, <1>13 DEF Pipe, If
<1>15. Fetched' = Fetched
  BY <1>4 DEF Fetched, If, Entries
<1>16. Filled' = Filled
  BY <1>4, <1>5, <1>12 DEF Filled, If, Entries, Q
<1>17. SameDevice /\ SameAccess
  BY <1>4, StillDevice DEF DataInv, SameAccess
<1>18. ASSUME NEW i \in Irps PROVE SameFetching(i)
  <2> SUFFICES ASSUME NEW k \in DOMAIN irp[i].data, Fetching(i, k) PROVE Fetching(i, k)'
    BY DEF SameFetching
  <2>1. CASE \E q \in Pipe : Carries(q, i, k)
    BY <1>14, <2>1 DEF Fetching, Carries
  <2>2. CASE main.irp = i /\ MainPos <= k
    <3> DEFINE r == irp[i].req
    <3>1. k \in 1 .. r.len /\ r.len \in Nat /\ main.pos + main.left - 1 = r.len
      BY <1>1, <1>8, <2>2, RequestNumbers DEF CutFacts
    <3>2. CASE k < q0.pos + q0.len
      <4>1. Carries(q0, i, k)
        BY <1>6, <1>8, <2>2, <3>2 DEF Carries
      <4> QED BY <1>7, <1>14, <4>1 DEF Fetching, Carries
    <3>3. CASE ~(k < q0.pos + q0.len)
      <4>1. k \in Nat /\ k <= r.len
        BY <3>1
      <4>2. ~(main.left <= MaxFragment)
        <5> SUFFICES ASSUME main.left <= MaxFragment PROVE FALSE
          OBVIOUS
        <5>1. q0.pos + q0.len = main.pos + main.left
          BY <1>8
        <5> HIDE DEF r, q0
        <5> QED BY <1>9, <3>1, <3>3, <4>1, <5>1
      <4>3. ~q0.last /\ q0.pos + q0.len = main.pos + MaxFragment
        BY <1>8, <4>2
      <4>4. MainPos' <= k
        <5> HIDE DEF q0
        <5> QED BY <1>6, <1>9, <3>3, <4>1, <4>3
      <4> QED BY <1>5, <1>6, <2>2, <4>3, <4>4 DEF Fetching
    <3> QED BY <3>2, <3>3
  <2> QED BY <2>1, <2>2 DEF Fetching
<1>19. Pieces'
  <2>1. \A q \in Sent : q.irp = q0.irp => q.pos + q.len <= q0.pos
    BY <1>6, <1>8 DEF DataInv, Pieces
  <2>2. /\ \A n \in DOMAIN Q : Q[n] \in Sent
        /\ IoBusy => io.req \in Sent
        /\ \A n \in DOMAIN CompletionThreadQueue : CompletionThreadQueue[n] \in Sent
        /\ completion.pc = "decrypt" => completion.req \in Sent
    BY DEF Sent, Entries, If, Q
  <2>3. \A q \in Sent : InFrontOf(q, q0)
    BY <2>1 DEF InFrontOf
  <2>4. Pieces
    BY DEF DataInv
  <2>5. ASSUME NEW p, \A n \in DOMAIN Q : InFrontOf(p, Q[n]), p \in Sent
        PROVE  \A n \in DOMAIN Q' : InFrontOf(p, Q'[n])
    <3> SUFFICES ASSUME NEW n \in DOMAIN Q' PROVE InFrontOf(p, Q'[n])
      OBVIOUS
    <3>1. (n = Len(Q) + 1 /\ Q'[n] = q0) \/ (n \in DOMAIN Q /\ Q'[n] = Q[n])
      BY <1>11
    <3> QED BY <2>3, <2>5, <3>1
  <2>6. ASSUME NEW m \in DOMAIN Q', NEW n \in DOMAIN Q', m < n PROVE InFrontOf(Q'[m], Q'[n])
    <3>1. m \in DOMAIN Q /\ Q'[m] = Q[m]
      BY <1>11, <2>6
    <3>2. (n = Len(Q) + 1 /\ Q'[n] = q0) \/ (n \in DOMAIN Q /\ Q'[n] = Q[n])
      BY <1>11
    <3> QED BY <2>2, <2>3, <2>4, <2>6, <3>1, <3>2 DEF Pieces, Q
  <2>7. IoBusy' => \A n \in DOMAIN Q' : InFrontOf(io'.req, Q'[n])
    BY <1>4, <2>2, <2>4, <2>5 DEF Pieces, IoBusy, Q
  <2>8. /\ \A m, n \in DOMAIN CompletionThreadQueue' :
             m < n => InFrontOf(CompletionThreadQueue'[m], CompletionThreadQueue'[n])
        /\ \A m \in DOMAIN CompletionThreadQueue' : IoBusy' => InFrontOf(CompletionThreadQueue'[m], io'.req)
    BY <1>4, <2>4 DEF Pieces, IoBusy
  <2>9. ASSUME NEW m \in DOMAIN CompletionThreadQueue'
        PROVE  \A n \in DOMAIN Q' : InFrontOf(CompletionThreadQueue'[m], Q'[n])
    BY <1>4, <2>2, <2>4, <2>5 DEF Pieces, Q
  <2>10. completion'.pc = "decrypt" =>
            /\ IoBusy' => InFrontOf(completion'.req, io'.req)
            /\ \A n \in DOMAIN CompletionThreadQueue' : InFrontOf(completion'.req, CompletionThreadQueue'[n])
    BY <1>4, <2>4 DEF Pieces, IoBusy
  <2>11. completion'.pc = "decrypt" => \A n \in DOMAIN Q' : InFrontOf(completion'.req, Q'[n])
    BY <1>4, <2>2, <2>4, <2>5 DEF Pieces, Q
  <2>12. MainCuts' => \A q \in Sent' : q.irp = main'.irp => q.pos + q.len <= MainPos'
    <3> SUFFICES ASSUME MainCuts', NEW q \in Sent', q.irp = main'.irp PROVE q.pos + q.len <= MainPos'
      OBVIOUS
    <3>1. CASE q = q0
      BY <1>6, <1>8, <1>9, <3>1
    <3>2. CASE q \in Sent
      <4>1. q.pos + q.len <= main.pos
        BY <1>5, <1>8, <2>1, <3>2
      <4>2. q \in Fragments
        BY <3>2, PipeFacts DEF DataInv, FragmentsOk
      <4> QED BY <1>6, <1>9, <4>1, <4>2 DEF Fragments
    <3> QED BY <1>13, <3>1, <3>2
  <2> QED BY <2>6, <2>7, <2>8, <2>9, <2>10, <2>11, <2>12, Zenon DEF Pieces, Q
<1>20. CheckOk'
  BY <1>5 DEF CheckOk
<1> QED BY <1>2, <1>3, <1>4, <1>10, <1>14, <1>15, <1>16, <1>17, <1>18, <1>19, <1>20, QuietData

\* The main thread sets up or reads the data of the IRP it has checked.
LEMMA MainFillsData ==
    ASSUME QueueInv, DataInv, MainKeeps, main.pc = "check", NEW d,
           irp' = [irp EXCEPT ![main.irp].data = d],
           main'.pc \in {"fragment", "complete"}, MainOk', main'.irp = main.irp, ReadOk(main.irp)'
    PROVE  DataInv'
<1> DEFINE i == main.irp
<1>1. IrpTypes /\ main \in MainStates /\ Waiting
  BY DEF QueueInv, ShapeInv, ThreadTypes, PipeInv
<1>2. i \in Irps /\ irp[i].status # "pending" /\ MainHas /\ MainEarly
  BY <1>1 DEF Waiting, MainOwns, MainHas, MainEarly, Live
<1>3. /\ UNCHANGED <<readAhead, lastRead, fragment>>
      /\ UNCHANGED <<disk, content, seen, EncryptedAreaEnd, holder>>
      /\ UNCHANGED <<CompletionThreadQueue, io, completion, IoThreadQueue>>
  BY DEF MainKeeps, aheadVars, diskVars
<1>4. \A j \in Irps : /\ irp'[j].req = irp[j].req /\ irp'[j].status = irp[j].status
                      /\ irp'[j].disp = irp[j].disp /\ irp'[j].done = irp[j].done
                      /\ j # i => irp'[j].data = irp[j].data
  BY <1>1, <1>2 DEF IrpTypes, IrpFields
<1>5. SameRequests /\ SamePending
  BY <1>4 DEF SameRequests, SamePending
<1>6. /\ DeviceTypes /\ DeviceOk /\ IntactOk /\ SeenOk /\ AheadOk /\ BuffersOk /\ RawOk /\ ReadsOk /\ Pieces
      /\ \A q \in Pipe : FragmentOk(q)
  BY DEF DataInv, FragmentsOk
<1>7. /\ Filled \subseteq Pipe /\ Fetched \subseteq Sent /\ Sent \subseteq Pipe /\ (IoBusy => io.req \in Sent)
      /\ \A q \in Pipe : q.irp \in Irps
      /\ \A q \in Sent : irp[q.irp].status # "pending" /\ Flowing(q)
  BY <1>6, PipeFacts
<1>8. Sent' = Sent
  BY <1>3 DEF Sent, IoBusy, If, Entries
<1>9. Pipe' = Pipe /\ Pipe = Sent
  BY <1>8 DEF Pipe, If
<1>10. \A q \in Pipe : q.irp # i
  BY <1>2, <1>7, <1>9 DEF Flowing
<1>11. SameDevice
  BY <1>3, <1>6, StillDevice
<1>12. DeviceTypes' /\ DeviceOk' /\ IntactOk'
  BY <1>6, <1>11, DeviceKept
<1>13. SeenOk'
  BY <1>3, <1>4, <1>5, <1>6, SeenKept
<1>14. io.pc \in {"access", "accessed"} => io.req.irp \in Irps /\ irp[io.req.irp].status # "pending"
  BY <1>7 DEF IoBusy
<1>15. AheadOk'
  <2>1. Overwriting => Overwriting'
    BY <1>3, <1>4, <1>14 DEF Overwriting
  <2>2. Holding' => Holding
    BY <1>11 DEF SameDevice
  <2> QED BY <1>3, <1>6, <2>1, <2>2, AheadKept
<1>16. \A q \in Pipe' : FragmentOk(q)'
  <2>1. \A q \in Pipe : DOMAIN irp'[q.irp].data = DOMAIN irp[q.irp].data
    BY <1>4, <1>7, <1>10
  <2> QED BY <1>3, <1>5, <1>6, <1>9, <2>1, PipeFragmentsKept
<1>17. FragmentsOk'
  BY <1>16, Zenon DEF FragmentsOk
<1>18. Pieces'
  <2>1. IoBusy' => IoBusy /\ io'.req = io.req
    BY <1>3 DEF IoBusy
  <2> QED BY <1>3, <1>6, <1>8, <1>9, <1>10, <2>1, PiecesInOrder
<1>19. BuffersOk'
  <2>1. \A q \in Filled : q.irp \in Irps
    BY <1>7
  <2>2. Filled' \subseteq Filled
    BY <1>3 DEF Filled, If, Entries
  <2>3. SameAccess
    BY <1>3 DEF SameAccess
  <2>4. io'.pc = "accessed" => io.req.irp \in Irps /\ irp[io.req.irp].status # "pending"
    BY <1>3, <1>14
  <2> QED BY <1>3, <1>5, <1>6, <2>1, <2>2, <2>3, <2>4, FilledKept
<1>20. RawOk'
  <2>1. \A q \in Fetched : /\ q.irp \in Irps /\ irp[q.irp].status # "pending"
                           /\ irp'[q.irp].data = irp[q.irp].data
    BY <1>4, <1>7, <1>10
  <2>2. Fetched' \subseteq Fetched
    BY <1>3 DEF Fetched, If, Entries
  <2> QED BY <1>3, <1>5, <1>6, <2>1, <2>2, RawKept
<1>21. ReadsOk'
  <2> SUFFICES ASSUME NEW j \in Irps PROVE ReadOk(j)'
    BY DEF ReadsOk
  <2>1. CASE j = i
    BY <2>1 DEF ReadOk, Success, Fetching, Carries, GoodCell, UnitOf
  <2>2. CASE j # i
    <3>1. SameCuts
      BY DEF SameCuts, MainCuts
    <3>2. SameFetching(j)
      BY <1>9, <3>1, FetchingKept
    <3>3. ReadOk(j) /\ irp'[j].data = irp[j].data /\ UNCHANGED seen
      BY <1>3, <1>4, <1>6, <2>2 DEF ReadsOk
    <3> QED BY <1>5, <3>2, <3>3, ReadKept
  <2> QED BY <2>1, <2>2
<1>22. CheckOk'
  BY DEF CheckOk
<1> QED BY <1>12, <1>13, <1>15, <1>17, <1>18, <1>19, <1>20, <1>21, <1>22 DEF DataInv

\* A request that passed the checks lies on the device, and a write spares what must
\* stay intact.
LEMMA CheckedRequest ==
    ASSUME NEW r \in Requests, ~MisalignedRead(r), Refusal(r) = "no"
    PROVE  Allowed(r)
<1>1. /\ r.op \in Ops /\ r.off \in Nat /\ r.len \in Nat /\ DataOffset \in Nat
      /\ VirtualDeviceLength \in Nat /\ DataOffset + VirtualDeviceLength <= DeviceUnits /\ DeviceUnits \in Nat
  BY QueueAssumption DEF QueueAssumption
<1>2. ~InvalidParameter(r)
  BY DEF Refusal
<1>3. r.op \in {"read", "write"} /\ r.len > 0 /\ r.mis = "no"
  BY <1>1, <1>2 DEF InvalidParameter, Aligned, Ops
<1>4. HostOffset(r) + r.len <= DeviceUnits
  <2>1. CASE IsFilterDevice
    <3>1. r.off + r.len + 0 <= DeviceUnits
      BY <1>3, <2>1, LayoutAssumption DEF LayoutAssumption
    <3> QED BY <1>1, <2>1, <3>1 DEF HostOffset
  <2>2. CASE ~IsFilterDevice
    <3>1. ~(r.off + r.len > VirtualDeviceLength)
      BY <1>2, <2>2 DEF InvalidParameter
    <3> QED BY <1>1, <2>2, <3>1 DEF HostOffset
  <2> QED BY <2>1, <2>2
<1>5. r.op = "write" => (HostOffset(r) .. HostOffset(r) + r.len - 1) \cap Intact = {}
  <2> SUFFICES ASSUME r.op = "write" PROVE (HostOffset(r) .. HostOffset(r) + r.len - 1) \cap Intact = {}
    OBVIOUS
  <2>1. CASE IsFilterDevice
    <3>1. Intact = Header \cup Forbidden
      BY <2>1, LayoutAssumption DEF LayoutAssumption, Intact
    <3>2. ~Overlap(r.off, r.len, Header \cup Forbidden)
      BY <2>1 DEF Refusal
    <3> QED BY <2>1, <3>1, <3>2 DEF Overlap, HostOffset
  <2>2. CASE ~IsFilterDevice
    <3>1. Intact = Protected
      BY <2>2, LayoutAssumption DEF LayoutAssumption, Intact
    <3>2. Protected = {} \/ ~Overlap(HostOffset(r), r.len, Protected)
      BY <1>2, <2>2 DEF InvalidParameter
    <3> QED BY <3>1, <3>2 DEF Overlap
  <2> QED BY <2>1, <2>2
<1> QED BY <1>3, <1>4, <1>5 DEF Allowed

\* The first fragment will start where the request does; the data is still to be fetched.
LEMMA MainBeginData ==
    ASSUME QueueInv, DataInv, MainBeginFragments
    PROVE  DataInv'
<1> DEFINE i == main.irp
           r == irp[i].req
<1>1. IrpTypes /\ main \in MainStates /\ Waiting
  BY DEF QueueInv, ShapeInv, ThreadTypes, PipeInv
<1>2. /\ main.pc = "check" /\ ~MisalignedRead(r) /\ Refusal(r) = "no"
      /\ irp' = [irp EXCEPT ![i].data = [k \in 1 .. r.len |-> Garbage]]
      /\ MainKeeps
  BY DEF MainBeginFragments, MainKeeps, mainRest, bufVars
<1>3. /\ main'.pc = "fragment" /\ main'.irp = i /\ main'.off = HostOffset(r) /\ main'.left = r.len
      /\ main'.pos = 1
  BY <1>1 DEF MainBeginFragments, MainStates
<1>4. i \in Irps /\ irp[i].status # "pending"
  BY <1>1, <1>2 DEF Waiting, MainOwns, MainHas, MainEarly, Live
<1>5. /\ irp'[i].data = [k \in 1 .. r.len |-> Garbage] /\ irp'[i].req = r
      /\ irp'[i].status = irp[i].status
  BY <1>1, <1>2, <1>4 DEF IrpTypes, IrpFields
<1>6. r \in Requests
  <2>1. r.op # "other"
    BY <1>2 DEF Refusal, InvalidParameter
  <2> QED BY <1>1, <1>4, <2>1, RequestNumbers
<1>7. Allowed(r)
  BY <1>2, <1>6, CheckedRequest
<1>8. HostOffset(r) \in Nat /\ r.len \in Nat /\ DeviceUnits \in Nat
  BY <1>1, <1>4, RequestNumbers, QueueAssumption DEF QueueAssumption
<1>9. DOMAIN irp'[i].data = 1 .. r.len
  BY <1>5
<1>10. MainCuts' /\ MainPos' = 1
  BY <1>3 DEF MainCuts, MainPos
<1> HIDE DEF r
<1>11. r.len >= 1 /\ HostOffset(r) + r.len <= DeviceUnits
  BY <1>7, <1>8 DEF Allowed
<1>12. MainOk'
  BY <1>3, <1>5, <1>7, <1>8, <1>9, <1>11 DEF MainOk
<1>13. ReadOk(i)'
  <2>1. irp'[i].status # "pending"
    BY <1>4, <1>5
  <2>2. ASSUME NEW k \in 1 .. r.len PROVE k \in Nat \ {0} /\ UnitOf(i, k)' \in Units /\ Fetching(i, k)'
    <3>1. UnitOf(i, k)' = HostOffset(r) + k - 1
      BY <1>3, <1>5 DEF UnitOf
    <3>2. UnitOf(i, k)' \in Units
      BY <1>8, <1>11, <3>1 DEF Units
    <3>3. Fetching(i, k)'
      BY <1>3, <1>8, <1>10 DEF Fetching
    <3> QED BY <3>2, <3>3
  <2> QED BY <1>3, <1>9, <2>1, <2>2 DEF ReadOk, UnitOf, Fetching, Carries
<1> QED BY <1>2, <1>3, <1>12, <1>13, MainFillsData

\* A misaligned read returns what the device stores, since no block is being re-encoded.
LEMMA MainMisalignedData ==
    ASSUME QueueInv, DataInv, RemapIsPlain, MainReadMisaligned
    PROVE  DataInv'
<1> DEFINE i == main.irp
           r == irp[i].req
           Read(k) == LET u == r.off + k - 1
                      IN  IF u \in Intersection(r.off, r.len + 1, EncryptedAreaEnd)
                          THEN DecryptDataUnit(disk[u], u) ELSE disk[u]
           d == [k \in 1 .. r.len + 1 |-> Read(k)]
<1>1. IrpTypes /\ main \in MainStates /\ Waiting /\ HoldInv
  BY DEF QueueInv, ShapeInv, ThreadTypes, PipeInv
<1>2. /\ main.pc = "check" /\ MisalignedRead(r) /\ MainKeeps
      /\ irp' = [irp EXCEPT ![i].data = d] \/ irp' = [irp EXCEPT ![i].status = "failed"]
  BY DEF MainReadMisaligned, MainKeeps, mainRest, bufVars
<1>3. main'.pc = "complete" /\ main'.irp = i
  BY <1>1 DEF MainReadMisaligned, MainGoTo, MainStates
<1>4. i \in Irps /\ irp[i].status # "pending" /\ MainHas /\ irp[i].disp # "new" /\ irp[i].done = 0
  BY <1>1, <1>2 DEF Waiting, MainOwns, MainHas, MainEarly, Live, Accepted
<1>5. ~MainCuts /\ ~MainCuts'
  BY <1>2, <1>3 DEF MainCuts
<1>6. MainOk'
  BY <1>3, <1>5 DEF MainOk
<1>7. CASE irp' = [irp EXCEPT ![i].status = "failed"]
  <2>1. "failed" \in Statuses \ {"pending"} /\ "failed" # "ok"
    BY DEF Statuses
  <2>2. SameData /\ SamePending
    BY <1>1, <1>4, <1>7, <2>1, IrpsStay
  <2>3. CheckOk'
    BY <1>3 DEF CheckOk
  <2> QED BY <1>2, <1>3, <1>5, <1>6, <2>2, <2>3, MainQuietData
<1>8. CASE irp' = [irp EXCEPT ![i].data = d]
  <2>1. /\ irp'[i].data = d /\ irp'[i].req = r /\ irp'[i].status = irp[i].status
    BY <1>1, <1>4, <1>8 DEF IrpTypes, IrpFields
  <2>2. r \in Requests /\ IsFilterDevice /\ r.op = "read" /\ r.mis = "offset"
    BY <1>1, <1>2, <1>4, RequestNumbers DEF MisalignedRead
  <2>3. ~Remap /\ DataUnitOffset = 0
    BY <1>2, <2>2, LayoutAssumption DEF RemapIsPlain, LayoutAssumption
  <2>4. r.off \in Nat /\ r.len \in Nat /\ DeviceUnits \in Nat
    BY <1>1, <1>4, RequestNumbers, QueueAssumption DEF QueueAssumption
  <2>5. r.off + r.len + 1 <= DeviceUnits
    BY <2>2, LayoutAssumption DEF LayoutAssumption
  <2>6. AreaNow = EncryptedAreaEnd
    <3>1. ~Held
      BY <1>1, <1>2, <1>4 DEF HoldInv, HeldQuiet
    <3> QED BY <3>1 DEF Held, AreaNow
  <2>7. DeviceTypes /\ DeviceOk /\ SeenOk /\ EncryptedAreaEnd \in AreaEnds
    BY DEF DataInv, DeviceTypes
  <2>8. ASSUME NEW k \in 1 .. r.len + 1
        PROVE  /\ r.off + k - 1 \in Units /\ Read(k) = Plain(content[r.off + k - 1])
               /\ content[r.off + k - 1] \in seen[i][r.off + k - 1]
    <3> DEFINE u == r.off + k - 1
    <3> HIDE DEF r
    <3>1. u \in Units /\ u \in Nat /\ u \in r.off .. r.off + (r.len + 1) - 1
      BY <2>4, <2>5 DEF Units
    <3>2. ~Target(u)
      BY <2>3 DEF Target
    <3>3. DeviceUnit(u, EncryptedAreaEnd) = u
      BY <2>3 DEF DeviceUnit
    <3>4. disk[u] = Encoded(u, content[u], EncryptedAreaEnd)
      BY <2>6, <2>7, <3>1, <3>2, <3>3 DEF DeviceOk
    <3>5. Encoded(u, content[u], EncryptedAreaEnd) =
             IF InArea(u, EncryptedAreaEnd) THEN [as |-> u, v |-> content[u]] ELSE Plain(content[u])
      <4>1. Encoded(u, content[u], EncryptedAreaEnd) =
               IF ~IsFilterDevice \/ InArea(u, EncryptedAreaEnd)
               THEN [as |-> u + DataUnitOffset, v |-> content[u]] ELSE Plain(content[u])
        BY <2>7, <3>1, AreaFacts
      <4> QED BY <2>2, <2>3, <3>1, <4>1
    <3>6. u \in Intersection(r.off, r.len + 1, EncryptedAreaEnd) <=> InArea(u, EncryptedAreaEnd)
      BY <3>1 DEF Intersection, InArea
    <3>7. Read(k) = Plain(content[u])
      <4>1. CASE InArea(u, EncryptedAreaEnd)
        BY <3>4, <3>5, <3>6, <4>1 DEF DecryptDataUnit
      <4>2. CASE ~InArea(u, EncryptedAreaEnd)
        BY <3>4, <3>5, <3>6, <4>2
      <4> QED BY <4>1, <4>2
    <3>8. irp[i].req.op # "other"
      BY <2>2 DEF r
    <3>9. content[u] \in seen[i][u]
      BY <1>4, <2>7, <3>1, <3>8 DEF SeenOk
    <3> QED BY <3>1, <3>7, <3>9
  <2>9. DOMAIN irp'[i].data = 1 .. r.len + 1
    BY <2>1
  <2>10. ASSUME NEW k \in 1 .. r.len + 1
         PROVE  k \in Nat \ {0} /\ UnitOf(i, k)' \in Units /\ GoodCell(i, k)'
    <3>1. UnitOf(i, k)' = r.off + k - 1
      BY <1>3, <2>1, <2>2 DEF UnitOf, HostOffset
    <3>2. irp'[i].data[k] = Plain(content[r.off + k - 1])
      BY <2>1, <2>8
    <3>3. UNCHANGED seen
      BY <1>2 DEF MainKeeps, diskVars
    <3>4. /\ r.off + k - 1 \in Units /\ content[r.off + k - 1] \in seen[i][r.off + k - 1]
      BY <2>8
    <3> HIDE DEF r, d
    <3> QED BY <1>3, <2>4, <3>1, <3>2, <3>3, <3>4 DEF GoodCell, Plain
  <2> HIDE DEF d
  <2>11. ReadOk(i)'
    <3>1. irp'[i].status # "pending"
      BY <1>4, <2>1
    <3> QED BY <1>3, <2>9, <2>10, <3>1 DEF ReadOk, UnitOf, GoodCell
  <2> QED BY <1>2, <1>3, <1>6, <1>8, <2>11, MainFillsData
<1> HIDE DEF d
<1> QED BY <1>2, <1>7, <1>8

\* Every step of the main thread keeps the invariant.
LEMMA MainData ==
    ASSUME QueueInv, BufferInv, DataInv, RemapIsPlain, MainThread
    PROVE  DataInv'
<1>1. CASE MainGetRequest
  BY <1>1, MainGetRequestData, MainCuttingData
<1> QED BY <1>1, MainControlData, MainCuttingData, MainAcquireBufferData, MainEnqueueData, MainBeginData,
           MainMisalignedData DEF MainThread

-----------------------------------------------------------------------------
(***************************************************************************)
(* The steps of the completion thread.                                     *)
(***************************************************************************)
\* What other steps leave of the main thread.
LEMMA MainStill ==
    ASSUME QueueInv, DataInv, UNCHANGED main, SameRequests,
           \A j \in Irps : DOMAIN irp'[j].data = DOMAIN irp[j].data
    PROVE  MainOk' /\ CheckOk' /\ SameCuts /\ (MainCuts' <=> MainCuts) /\ MainPos' = MainPos
<1>1. (MainCuts' <=> MainCuts) /\ MainPos' = MainPos
  BY DEF MainCuts, MainPos
<1>2. MainHas => main.irp \in Irps
  BY DEF QueueInv, PipeInv, Waiting, MainOwns, Live
<1>3. MainHas => irp'[main.irp].req = irp[main.irp].req /\ DOMAIN irp'[main.irp].data = DOMAIN irp[main.irp].data
  BY <1>2 DEF SameRequests
<1>4. MainOk'
  <2>1. MainCuts => MainHas
    BY DEF MainCuts, MainHas
  <2> QED BY <1>1, <1>3, <2>1 DEF DataInv, FragmentsOk, MainOk
<1>5. CheckOk'
  BY <1>3 DEF DataInv, CheckOk, MainHas, MainEarly
<1> QED BY <1>1, <1>4, <1>5 DEF SameCuts

\* A step that changes the data of an IRP, but not its length.
LEMMA ShapeKept ==
    ASSUME QueueInv, DataInv, SameRequests, SamePending, SameDevice, Pipe' \subseteq Pipe,
           \A j \in Irps : DOMAIN irp'[j].data = DOMAIN irp[j].data,
           AheadOk', BuffersOk', RawOk', ReadsOk', MainOk', Pieces', CheckOk'
    PROVE  DataInv'
<1>1. /\ DeviceTypes /\ DeviceOk /\ IntactOk /\ SeenOk /\ \A q \in Pipe : FragmentOk(q)
  BY DEF DataInv, FragmentsOk
<1>2. \A q \in Pipe : q.irp \in Irps
  BY <1>1, PipeFacts
<1>3. DeviceTypes' /\ DeviceOk' /\ IntactOk'
  BY <1>1, DeviceKept
<1>4. (\A j \in Irps : irp'[j].req = irp[j].req) /\ UNCHANGED <<seen, content, EncryptedAreaEnd>>
  BY DEF SameRequests, SameDevice
<1>5. SeenOk'
  BY <1>1, <1>4, SeenKept
<1>6. \A q \in Pipe' : FragmentOk(q)'
  <2>1. \A q \in Pipe' : DOMAIN irp'[q.irp].data = DOMAIN irp[q.irp].data
    BY <1>2
  <2> QED BY <1>1, <1>4, <2>1, PipeFragmentsKept
<1>7. FragmentsOk'
  BY <1>6, Zenon DEF FragmentsOk
<1> QED BY <1>3, <1>5, <1>7 DEF DataInv

CompletionKeeps ==
    /\ UNCHANGED <<aheadVars, IoThreadQueue, main, io, holder, diskVars, fragment>>

\* A step of the completion thread without a request to decrypt.
LEMMA CompletionQuietData ==
    ASSUME QueueInv, DataInv, CompletionKeeps, UNCHANGED CompletionThreadQueue,
           completion.pc # "decrypt", completion'.pc # "decrypt", SameData, SamePending
    PROVE  DataInv'
<1>1. /\ UNCHANGED <<readAhead, lastRead, fragment>>
      /\ UNCHANGED <<disk, content, seen, EncryptedAreaEnd, holder>>
      /\ UNCHANGED <<main, io, IoThreadQueue>>
  BY DEF CompletionKeeps, aheadVars, diskVars
<1>2. SameDevice /\ SameAccess
  BY <1>1, StillDevice DEF DataInv, SameAccess
<1>3. Sent' = Sent
  BY <1>1 DEF Sent, IoBusy, If, Entries
<1>4. Pipe' = Pipe
  BY <1>1, <1>3 DEF Pipe, If
<1>5. Fetched' = Fetched
  BY <1>1 DEF Fetched, If, Entries
<1>6. Filled' = Filled
  BY <1>1 DEF Filled, If, Entries
<1>7. MainOk' /\ CheckOk' /\ SameCuts /\ (MainCuts' <=> MainCuts) /\ MainPos' = MainPos
  BY <1>1, MainStill DEF SameData
<1>8. \A i \in Irps : SameFetching(i)
  BY <1>4, <1>7, FetchingKept
<1>9. Pieces'
  BY <1>1, <1>3, <1>7, PiecesKept DEF DataInv, IoBusy
<1> QED BY <1>1, <1>2, <1>4, <1>5, <1>6, <1>7, <1>8, <1>9, QuietData

\* The entries of a queue without its head.
LEMMA EntriesTail ==
    ASSUME NEW S, NEW s \in Seq(S), s # <<>>
    PROVE  Entries(s) = Entries(Tail(s)) \cup {Head(s)}
<1>1. /\ Head(s) = s[1] /\ 1 \in DOMAIN s /\ DOMAIN s = 1 .. Len(s) /\ Len(s) \in Nat
      /\ DOMAIN Tail(s) = 1 .. Len(s) - 1
      /\ \A n \in DOMAIN Tail(s) : n + 1 \in DOMAIN s /\ Tail(s)[n] = s[n + 1]
  BY TailFacts, EmptyFacts
<1>2. ASSUME NEW x \in Entries(s) PROVE x \in Entries(Tail(s)) \cup {Head(s)}
  <2>1. PICK n \in DOMAIN s : x = s[n]
    BY DEF Entries
  <2>2. CASE n = 1
    BY <1>1, <2>1, <2>2
  <2>3. CASE n # 1
    <3>1. n - 1 \in DOMAIN Tail(s) /\ (n - 1) + 1 = n
      BY <1>1, <2>1, <2>3
    <3>2. Tail(s)[n - 1] = s[n]
      BY <1>1, <3>1
    <3> QED BY <2>1, <3>1, <3>2 DEF Entries
  <2> QED BY <2>2, <2>3
<1>3. ASSUME NEW x \in Entries(Tail(s)) PROVE x \in Entries(s)
  BY <1>1 DEF Entries
<1>4. Head(s) \in Entries(s)
  BY <1>1 DEF Entries
<1> QED BY <1>2, <1>3, <1>4

\* The entries of a queue with one more.
LEMMA EntriesAppend ==
    ASSUME NEW S, NEW s \in Seq(S), NEW x \in S
    PROVE  Entries(Append(s, x)) = Entries(s) \cup {x}
<1> DEFINE t == Append(s, x)
<1>1. /\ DOMAIN t = 1 .. Len(s) + 1 /\ DOMAIN s = 1 .. Len(s) /\ Len(s) \in Nat
      /\ \A n \in DOMAIN t : t[n] = IF n = Len(s) + 1 THEN x ELSE s[n]
  BY AppendFacts, EmptyFacts
<1> HIDE DEF t
<1>2. ASSUME NEW y \in Entries(t) PROVE y \in Entries(s) \cup {x}
  <2>1. PICK n \in DOMAIN t : y = t[n]
    BY DEF Entries
  <2>2. y = x \/ (n \in DOMAIN s /\ y = s[n])
    BY <1>1, <2>1
  <2> QED BY <2>2 DEF Entries
<1>3. ASSUME NEW y \in Entries(s) PROVE y \in Entries(t)
  <2>1. PICK n \in DOMAIN s : y = s[n]
    BY DEF Entries
  <2>2. n \in DOMAIN t /\ n # Len(s) + 1
    BY <1>1, <2>1
  <2>3. t[n] = s[n]
    BY <1>1, <2>2
  <2> QED BY <2>1, <2>2, <2>3 DEF Entries
<1>4. x \in Entries(t)
  <2>1. Len(s) + 1 \in DOMAIN t /\ t[Len(s) + 1] = x
    BY <1>1
  <2> QED BY <2>1 DEF Entries
<1> QED BY <1>2, <1>3, <1>4 DEF t

\* The oldest read is taken out of the queue.
LEMMA CompletionDequeueData ==
    ASSUME QueueInv, DataInv, CompletionDequeue, CompletionThreadQueue # <<>>
    PROVE  DataInv'
<1> DEFINE C == CompletionThreadQueue
           q0 == Head(C)
<1>1. IrpTypes /\ C \in Seq(Fragments)
  BY DEF QueueInv, ShapeInv, QueueTypes
<1>2. /\ completion.pc = "dequeue" /\ completion' = [pc |-> "decrypt", req |-> q0] /\ C' = Tail(C)
      /\ UNCHANGED <<irp, fragment>>
      /\ UNCHANGED <<readAhead, lastRead>>
      /\ UNCHANGED <<disk, content, seen, EncryptedAreaEnd, holder>>
      /\ UNCHANGED <<main, io, IoThreadQueue>>
  BY DEF CompletionDequeue, completionRest, aheadVars, diskVars
<1>3. completion'.pc = "decrypt" /\ completion'.req = q0
  BY <1>2
<1>4. SameData /\ SamePending
  BY <1>1, <1>2, IrpsStay
<1>5. SameDevice /\ SameAccess
  BY <1>2, StillDevice DEF DataInv, SameAccess
<1>6. Entries(C) = Entries(Tail(C)) \cup {q0}
  BY <1>1, EntriesTail
<1>7. /\ q0 = C[1] /\ 1 \in DOMAIN C /\ DOMAIN C = 1 .. Len(C) /\ Len(C) \in Nat
      /\ DOMAIN C' = 1 .. Len(C) - 1
      /\ \A n \in DOMAIN C' : n + 1 \in DOMAIN C /\ C'[n] = C[n + 1]
  BY <1>1, <1>2, TailFacts, EmptyFacts
<1> HIDE DEF C
<1>8. Entries(CompletionThreadQueue') = Entries(Tail(C))
  BY <1>2 DEF C
<1>9. Sent' = Sent
  BY <1>2, <1>3, <1>6, <1>8 DEF Sent, IoBusy, If, C, Entries
<1>10. Pipe' = Pipe
  BY <1>2, <1>9 DEF Pipe, If
<1>11. Fetched' = Fetched
  BY <1>2, <1>3, <1>6, <1>8 DEF Fetched, If, C, Entries
<1>12. Filled' = Filled
  BY <1>2 DEF Filled, If, Entries
<1>13. MainOk' /\ CheckOk' /\ SameCuts /\ (MainCuts' <=> MainCuts) /\ MainPos' = MainPos
  BY <1>2, <1>4, MainStill DEF SameData
<1>14. \A i \in Irps : SameFetching(i)
  BY <1>10, <1>13, FetchingKept
<1>15. Pieces'
  <2>1. Pieces
    BY DEF DataInv
  <2>2. /\ (\A m, n \in DOMAIN IoThreadQueue' : m < n => InFrontOf(IoThreadQueue'[m], IoThreadQueue'[n]))
        /\ (IoBusy' => \A n \in DOMAIN IoThreadQueue' : InFrontOf(io'.req, IoThreadQueue'[n]))
    BY <1>2, <2>1, Zenon DEF Pieces, IoBusy
  <2>3. ASSUME NEW m \in DOMAIN C', NEW n \in DOMAIN C', m < n PROVE InFrontOf(C'[m], C'[n])
    <3>1. m + 1 \in DOMAIN C /\ n + 1 \in DOMAIN C /\ m + 1 < n + 1
      BY <1>7, <2>3
    <3>2. InFrontOf(C[m + 1], C[n + 1])
      BY <2>1, <3>1 DEF Pieces, C
    <3> QED BY <1>7, <3>2
  <2>4. ASSUME NEW m \in DOMAIN C'
        PROVE  /\ IoBusy' => InFrontOf(C'[m], io'.req)
               /\ \A n \in DOMAIN IoThreadQueue' : InFrontOf(C'[m], IoThreadQueue'[n])
    <3>1. m + 1 \in DOMAIN C /\ C'[m] = C[m + 1]
      BY <1>7
    <3>2. /\ IoBusy => InFrontOf(C[m + 1], io.req)
          /\ \A n \in DOMAIN IoThreadQueue : InFrontOf(C[m + 1], IoThreadQueue[n])
      BY <2>1, <3>1, Zenon DEF Pieces, C
    <3> QED BY <1>2, <3>1, <3>2 DEF IoBusy
  <2>5. /\ IoBusy' => InFrontOf(q0, io'.req)
        /\ \A n \in DOMAIN IoThreadQueue' : InFrontOf(q0, IoThreadQueue'[n])
    <3>1. /\ IoBusy => InFrontOf(C[1], io.req)
          /\ \A n \in DOMAIN IoThreadQueue : InFrontOf(C[1], IoThreadQueue[n])
      BY <1>7, <2>1, Zenon DEF Pieces, C
    <3> QED BY <1>2, <1>7, <3>1 DEF IoBusy
  <2>6. ASSUME NEW n \in DOMAIN C' PROVE InFrontOf(q0, C'[n])
    <3>1. n + 1 \in DOMAIN C /\ 1 < n + 1 /\ C'[n] = C[n + 1]
      BY <1>7
    <3>2. InFrontOf(C[1], C[n + 1])
      BY <1>7, <2>1, <3>1 DEF Pieces, C
    <3> QED BY <1>7, <3>1, <3>2
  <2>7. MainCuts' => \A q \in Sent' : q.irp = main'.irp => q.pos + q.len <= MainPos'
    BY <1>2, <1>9, <1>13, <2>1, Zenon DEF Pieces
  <2> QED BY <1>3, <2>2, <2>3, <2>4, <2>5, <2>6, <2>7, Zenon DEF Pieces, C
<1> QED BY <1>2, <1>4, <1>5, <1>10, <1>11, <1>12, <1>13, <1>14, <1>15, QuietData

\* A piece of a read is decrypted, and no other one is touched.
LEMMA CompletionDecryptData ==
    ASSUME QueueInv, DataInv, CompletionDecrypt
    PROVE  DataInv'
<1> DEFINE q0 == completion.req
           i == q0.irp
           Cell(k, cell) == LET u == q0.off + k - q0.pos
                            IN  IF k >= q0.pos /\ u \in q0.enc
                                THEN DecryptDataUnit(cell, u + DataUnitOffset) ELSE cell
<1>1. IrpTypes /\ completion \in [pc : CompletionPcs, req : Fragments]
  BY DEF QueueInv, ShapeInv, ThreadTypes
<1>2. /\ completion.pc = "decrypt" /\ completion'.pc # "decrypt"
      /\ irp' = IF Success(i) THEN [irp EXCEPT ![i].data = [k \in DOMAIN @ |-> Cell(k, @[k])]] ELSE irp
  BY <1>1 DEF CompletionDecrypt, CompletionGoTo
<1>3. /\ UNCHANGED <<readAhead, lastRead, fragment, CompletionThreadQueue>>
      /\ UNCHANGED <<disk, content, seen, EncryptedAreaEnd, holder>>
      /\ UNCHANGED <<main, io, IoThreadQueue>>
  BY DEF CompletionDecrypt, completionRest, aheadVars, diskVars
<1>4. /\ DeviceTypes /\ SeenOk /\ AheadOk /\ BuffersOk /\ RawOk /\ ReadsOk /\ Pieces
      /\ \A q \in Pipe : FragmentOk(q)
  BY DEF DataInv, FragmentsOk
<1>5. /\ Filled \subseteq Pipe /\ Fetched \subseteq Sent /\ Sent \subseteq Pipe /\ (IoBusy => io.req \in Sent)
      /\ \A q \in Pipe : q.irp \in Irps /\ q \in Fragments
      /\ \A q \in Sent : irp[q.irp].status # "pending"
      /\ q0 \in Sent
  BY <1>2, <1>4, PipeFacts
<1>6. i \in Irps /\ FragmentOk(q0) /\ irp[i].status # "pending" /\ q0 \in Fragments
  BY <1>4, <1>5
<1>7. \A j \in Irps : /\ irp'[j].req = irp[j].req /\ irp'[j].status = irp[j].status
                      /\ irp'[j].disp = irp[j].disp /\ irp'[j].done = irp[j].done
                      /\ DOMAIN irp'[j].data = DOMAIN irp[j].data
                      /\ j # i => irp'[j].data = irp[j].data
  BY <1>1, <1>2, <1>6 DEF IrpTypes, IrpFields
<1>8. ~Success(i) => irp'[i].data = irp[i].data
  BY <1>2
<1>9. Success(i) => \A k \in DOMAIN irp[i].data : irp'[i].data[k] = Cell(k, irp[i].data[k])
  BY <1>1, <1>2, <1>6 DEF IrpTypes, IrpFields
<1>10. SameRequests /\ SamePending /\ SameDevice /\ SameAccess
  BY <1>3, <1>4, <1>7, StillDevice DEF SameRequests, SamePending, SameAccess
<1>11. Sent' \subseteq Sent /\ Sent \subseteq Sent' \cup {q0}
  BY <1>2, <1>3 DEF Sent, IoBusy, If, Entries
<1>12. Pipe' \subseteq Pipe /\ Pipe \subseteq Pipe' \cup {q0}
  BY <1>3, <1>11 DEF Pipe, If
<1>13. Filled' = Filled
  BY <1>3 DEF Filled, If, Entries
<1>14. Fetched' \subseteq Fetched
  BY <1>2, <1>3 DEF Fetched, If, Entries
<1>15. MainOk' /\ CheckOk' /\ SameCuts /\ (MainCuts' <=> MainCuts) /\ MainPos' = MainPos
  BY <1>3, <1>7, <1>10, MainStill
<1>16. Pieces'
  <2>1. MainCuts' => \A q \in Sent : q.irp = main'.irp => q.pos + q.len <= MainPos'
    BY <1>3, <1>4, <1>15 DEF Pieces
  <2> QED BY <1>2, <1>3, <1>4, <1>11, <2>1, PiecesInOrder DEF IoBusy
<1>17. AheadOk'
  <2>1. Overwriting => Overwriting'
    BY <1>3, <1>5, <1>7 DEF Overwriting, IoBusy
  <2> QED BY <1>3, <1>4, <1>10, <2>1, AheadKept DEF SameDevice
<1>18. BuffersOk'
  <2>1. \A q \in Filled : q.irp \in Irps
    BY <1>5
  <2>2. io'.pc = "accessed" => io.req.irp \in Irps /\ irp[io.req.irp].status # "pending"
    BY <1>3, <1>5 DEF IoBusy
  <2>3. Filled' \subseteq Filled
    BY <1>13
  <2> QED BY <1>3, <1>4, <1>10, <2>1, <2>2, <2>3, FilledKept
\* Cells outside of the fragment's piece.
<1>19. /\ q0.off \in Nat /\ q0.pos \in Nat /\ q0.len \in Nat /\ DataUnitOffset \in Nat
       /\ \A k \in Nat : ~(q0.pos <= k /\ k < q0.pos + q0.len) => \A c : Cell(k, c) = c
  <2>1. q0.off \in Nat /\ q0.pos \in Nat /\ q0.len \in Nat /\ DataUnitOffset \in Nat
    BY <1>6, QueueAssumption DEF Fragments, QueueAssumption
  <2>2. \A u \in q0.enc : u \in q0.off .. q0.off + q0.len - 1
    BY <1>6 DEF FragmentOk, Covered, Intersection
  <2>3. ASSUME NEW k \in Nat, ~(q0.pos <= k /\ k < q0.pos + q0.len), NEW c PROVE Cell(k, c) = c
    <3>1. ~(k >= q0.pos /\ q0.off + k - q0.pos \in q0.enc)
      <4> SUFFICES ASSUME k >= q0.pos, q0.off + k - q0.pos \in q0.enc PROVE FALSE
        OBVIOUS
      <4>1. q0.off + k - q0.pos <= q0.off + q0.len - 1
        BY <2>2
      <4> HIDE DEF q0
      <4> QED BY <2>1, <2>3, <4>1
    <3> QED BY <3>1
  <2> QED BY <2>1, <2>3
<1>20. RawOk'
  <2> SUFFICES ASSUME NEW q \in Fetched', Success(q.irp)', NEW k \in 1 .. q.len
               PROVE  RawCell(q, k, irp[q.irp].data[q.pos + k - 1])'
    BY DEF RawOk
  <2>1. q \in Fetched /\ q \in Sent /\ q.irp \in Irps /\ q \in Fragments /\ FragmentOk(q)
    BY <1>4, <1>5, <1>14
  <2>2. Success(q.irp)
    BY <1>7, <2>1 DEF Success
  <2>3. RawCell(q, k, irp[q.irp].data[q.pos + k - 1])
    BY <1>4, <2>1, <2>2 DEF RawOk
  <2>4. irp'[q.irp].data[q.pos + k - 1] = irp[q.irp].data[q.pos + k - 1]
    <3>1. CASE q.irp # i
      BY <1>7, <2>1, <3>1
    <3>2. CASE q.irp = i
      <4>1. InFrontOf(q0, q)
        BY <1>2, <1>3, <1>4 DEF Fetched, Pieces, If, Entries, IoBusy
      <4>2. q0.pos + q0.len <= q.pos
        BY <3>2, <4>1 DEF InFrontOf
      <4>3. q.pos \in Nat /\ q.len \in Nat /\ q.pos >= 1
        BY <2>1 DEF Fragments, FragmentOk, Placed
      <4>4. q.pos + k - 1 \in Nat /\ ~(q.pos + k - 1 < q0.pos + q0.len)
        BY <1>19, <4>2, <4>3
      <4>5. q.pos + k - 1 \in 1 .. irp[i].req.len
        BY <1>1, <1>4, <2>1, <3>2, FragmentUnits
      <4>6. q.pos + k - 1 \in DOMAIN irp[i].data
        BY <1>6, <4>5 DEF FragmentOk
      <4> HIDE DEF Cell, i
      <4> QED BY <1>8, <1>9, <1>19, <3>2, <4>4, <4>6
    <3> QED BY <3>1, <3>2
  <2> QED BY <1>3, <2>3, <2>4, Zenon DEF RawCell, Stored
<1>21. ASSUME NEW j \in Irps PROVE ReadOk(j)'
  <2>1. ReadOk(j)
    BY <1>4 DEF ReadsOk
  <2>2. ASSUME NEW k, ~Carries(q0, j, k), Fetching(j, k) PROVE Fetching(j, k)'
    BY <1>3, <1>12, <1>15, <2>2 DEF Fetching, Carries
  <2>3. CASE j # i
    <3>1. SameFetching(j)
      BY <2>2, <2>3 DEF SameFetching, Carries
    <3>2. UNCHANGED seen /\ irp'[j].data = irp[j].data
      BY <1>3, <1>7, <2>3
    <3> QED BY <1>10, <2>1, <3>1, <3>2, ReadKept
  <2>4. CASE j = i
    <3>1. irp'[i].req = irp[i].req /\ irp'[i].status = irp[i].status /\ DOMAIN irp'[i].data = DOMAIN irp[i].data
      BY <1>6, <1>7
    <3>2. /\ irp'[i].status # "pending"
          /\ \A k : UnitOf(j, k)' = UnitOf(j, k)
      BY <1>6, <2>4, <3>1 DEF UnitOf
    <3>3. ASSUME NEW k \in DOMAIN irp[i].data, Success(i), irp[i].req.op = "read"
          PROVE  Fetching(j, k)' \/ GoodCell(j, k)'
      <4>1. k \in Nat \ {0} /\ (Fetching(j, k) \/ GoodCell(j, k))
        BY <2>1, <2>4, <3>3 DEF ReadOk
      <4>2. irp'[j].data[k] = Cell(k, irp[i].data[k])
        BY <1>9, <2>4, <3>3
      <4>3. CASE Carries(q0, j, k)
        <5> DEFINE m == k - q0.pos + 1
                   u == q0.off + m - 1
        <5>1. q0.pos <= k /\ k < q0.pos + q0.len
          BY <4>3 DEF Carries
        <5> HIDE DEF q0, Cell, i
        <5>2. m \in 1 .. q0.len /\ q0.pos + m - 1 = k /\ q0.off + k - q0.pos = u
          BY <1>19, <4>1, <5>1
        <5> HIDE DEF m
        <5>3. u \in Units /\ UnitOf(i, k) = u
          BY <1>1, <1>4, <1>6, <5>2, FragmentUnits DEF i
        <5>4. q0 \in Fetched
          BY <1>2 DEF Fetched, If, q0
        <5>5. PICK v \in seen[i][u] : irp[i].data[k] = Stored(q0, u, v)
          BY <1>4, <3>3, <5>2, <5>4 DEF RawOk, RawCell, i
        <5>6. Cell(k, irp[i].data[k]) = Plain(v)
          <6>1. Cell(k, irp[i].data[k]) = IF k >= q0.pos /\ u \in q0.enc
                          THEN DecryptDataUnit(irp[i].data[k], u + DataUnitOffset) ELSE irp[i].data[k]
            BY <5>2 DEF Cell
          <6>2. CASE u \in q0.enc
            <7>1. irp[i].data[k] = [as |-> u + DataUnitOffset, v |-> v]
              BY <5>5, <6>2 DEF Stored
            <7> QED BY <1>19, <4>1, <5>1, <6>1, <6>2, <7>1 DEF DecryptDataUnit
          <6>3. CASE u \notin q0.enc
            BY <5>5, <6>1, <6>3 DEF Stored
          <6> QED BY <6>2, <6>3
        <5>7. GoodCell(j, k)'
          BY <1>3, <2>4, <3>2, <4>2, <5>3, <5>5, <5>6 DEF GoodCell, Plain
        <5> QED BY <5>7
      <4>4. CASE ~Carries(q0, j, k)
        <5>1. ~(q0.pos <= k /\ k < q0.pos + q0.len)
          BY <2>4, <4>4 DEF Carries
        <5>2. irp'[j].data[k] = irp[j].data[k]
          <6> HIDE DEF Cell, i
          <6> QED BY <1>19, <2>4, <4>1, <4>2, <5>1
        <5>3. GoodCell(j, k) => GoodCell(j, k)'
          BY <1>3, <3>2, <5>2 DEF GoodCell
        <5> QED BY <2>2, <4>1, <4>4, <5>3
      <4> QED BY <4>3, <4>4
    <3> HIDE DEF i, Cell
    <3>4. irp'[j].status = irp[j].status
      BY <2>4, <3>1
    <3> QED BY <2>1, <2>4, <3>1, <3>2, <3>3, <3>4 DEF ReadOk, Success
  <2> QED BY <2>3, <2>4
<1>22. ReadsOk'
  BY <1>21 DEF ReadsOk
<1>23. \A j \in Irps : DOMAIN irp'[j].data = DOMAIN irp[j].data
  BY <1>7
<1> QED BY <1>10, <1>12, <1>15, <1>16, <1>17, <1>18, <1>20, <1>22, <1>23, ShapeKept

\* Every step of the completion thread keeps the invariant.
LEMMA CompletionData ==
    ASSUME QueueInv, DataInv, CompletionThread
    PROVE  DataInv'
<1>1. IrpTypes /\ completion \in [pc : CompletionPcs, req : Fragments] /\ Stages
  BY DEF QueueInv, ShapeInv, ThreadTypes, PipeInv
<1>2. CompletionKeeps
  BY DEF CompletionKeeps, completionRest, CompletionThread, CompletionWait, CompletionDequeue, CompletionDecrypt,
         CompletionComplete, CompletionSignalIdle, CompletionReleaseItem, CompletionReleaseRequest
<1>3. CASE \/ CompletionWait \/ CompletionSignalIdle \/ CompletionReleaseItem \/ CompletionReleaseRequest
           \/ CompletionDequeue /\ CompletionThreadQueue = <<>>
  <2>1. UNCHANGED irp /\ UNCHANGED CompletionThreadQueue
    BY <1>3 DEF CompletionWait, CompletionDequeue, CompletionSignalIdle, CompletionReleaseItem,
                CompletionReleaseRequest
  <2>2. completion.pc # "decrypt" /\ completion'.pc # "decrypt"
    BY <1>1, <1>3 DEF CompletionWait, CompletionDequeue, CompletionSignalIdle, CompletionReleaseItem,
                CompletionReleaseRequest, CompletionGoTo
  <2>3. SameData /\ SamePending
    BY <1>1, <2>1, IrpsStay
  <2> QED BY <1>2, <2>1, <2>2, <2>3, CompletionQuietData
<1>4. CASE CompletionComplete
  <2>1. /\ CompleteIrp(completion.req.irp) /\ UNCHANGED CompletionThreadQueue /\ completion.pc = "complete"
        /\ completion'.pc # "decrypt"
    BY <1>1, <1>4 DEF CompletionComplete, CompletionGoTo, AfterComplete
  <2>2. completion.req.irp \in Irps
    BY <1>1, <2>1 DEF Stages, CompletionHas, Flowing, Live
  <2>3. SameData /\ SamePending
    BY <1>1, <2>1, <2>2, IrpsStay
  <2> QED BY <1>2, <2>1, <2>3, CompletionQuietData
<1>5. CASE CompletionDequeue /\ CompletionThreadQueue # <<>>
  BY <1>5, CompletionDequeueData
<1>6. CASE CompletionDecrypt
  BY <1>6, CompletionDecryptData
<1> QED BY <1>3, <1>4, <1>5, <1>6 DEF CompletionThread

-----------------------------------------------------------------------------
(***************************************************************************)
(* The steps of the I/O thread.                                            *)
(***************************************************************************)
IoKeeps == UNCHANGED <<main, completion, holder, EncryptedAreaEnd>>

\* A step of the I/O thread that hands nothing on.
LEMMA IoQuietData ==
    ASSUME QueueInv, DataInv, IoKeeps, UNCHANGED <<IoThreadQueue, CompletionThreadQueue>>,
           UNCHANGED <<readAhead, lastRead, fragment, disk, content, seen>>,
           \/ ~IoBusy /\ ~IoBusy'
           \/ io.pc = "access" /\ ~Success(io.req.irp) /\ io'.pc = "accessed" /\ io'.req = io.req,
           SameData, SamePending
    PROVE  DataInv'
<1>1. /\ UNCHANGED <<disk, content, seen, EncryptedAreaEnd, holder>> /\ UNCHANGED <<main, completion>>
      /\ UNCHANGED <<readAhead, lastRead, fragment>>
  BY DEF IoKeeps
<1>2. SameDevice
  BY <1>1, StillDevice DEF DataInv
<1>3. SameAccess
  BY DEF SameAccess, IoBusy
<1>4. Sent' = Sent
  BY <1>1 DEF Sent, IoBusy, If, Entries
<1>5. Pipe' = Pipe
  BY <1>1, <1>4 DEF Pipe, If
<1>6. Fetched' \subseteq Fetched
  BY <1>1 DEF Fetched, If, Entries, IoBusy
<1>7. Filled' \subseteq Filled
  BY <1>1 DEF Filled, If, Entries, IoBusy
<1>8. MainOk' /\ CheckOk' /\ SameCuts /\ (MainCuts' <=> MainCuts) /\ MainPos' = MainPos
  BY <1>1, MainStill DEF SameData
<1>9. \A i \in Irps : SameFetching(i)
  BY <1>5, <1>8, FetchingKept
<1>10. Pieces'
  <2>1. IoBusy' => IoBusy /\ io'.req = io.req
    BY DEF IoBusy
  <2> QED BY <1>1, <1>4, <1>8, <2>1, PiecesKept DEF DataInv
<1> QED BY <1>1, <1>2, <1>3, <1>5, <1>6, <1>7, <1>8, <1>9, <1>10, QuietData

\* The steps around the accesses.
LEMMA IoControlData ==
    ASSUME QueueInv, DataInv,
           \/ IoWait \/ IoSkip \/ IoSignalCompletion \/ IoReadAheadDone \/ IoComplete \/ IoSignalIdle
           \/ IoReleaseItem \/ IoReleaseRequest \/ (IoDequeue /\ IoThreadQueue = <<>>)
    PROVE  DataInv'
<1>1. IrpTypes /\ io \in [pc : IoPcs, req : Fragments] /\ Stages
  BY DEF QueueInv, ShapeInv, ThreadTypes, PipeInv
<1>2. /\ IoKeeps /\ UNCHANGED <<IoThreadQueue, CompletionThreadQueue>>
      /\ UNCHANGED <<readAhead, lastRead, fragment, disk, content, seen>>
  BY DEF IoKeeps, ioRest, aheadVars, bufVars, IoWait, IoSkip, IoSignalCompletion, IoReadAheadDone, IoComplete,
         IoSignalIdle, IoReleaseItem, IoReleaseRequest, IoDequeue
<1>3. CASE IoComplete
  <2>1. CompleteIrp(io.req.irp) /\ io.pc = "complete" /\ ~IoBusy /\ ~IoBusy'
    BY <1>1, <1>3 DEF IoComplete, IoGoTo, AfterComplete, IoBusy
  <2>2. io.req.irp \in Irps
    BY <1>1, <2>1 DEF Stages, IoHas, Flowing, Live
  <2>3. SameData /\ SamePending
    BY <1>1, <2>1, <2>2, IrpsStay
  <2> QED BY <1>2, <2>1, <2>3, IoQuietData
<1>4. CASE IoSkip
  <2>1. UNCHANGED irp /\ io.pc = "access" /\ ~Success(io.req.irp) /\ io'.pc = "accessed" /\ io'.req = io.req
    BY <1>1, <1>4 DEF IoSkip, IoGoTo
  <2>2. SameData /\ SamePending
    BY <1>1, <2>1, IrpsStay
  <2> QED BY <1>2, <2>1, <2>2, IoQuietData
<1>5. CASE \/ IoWait \/ IoSignalCompletion \/ IoReadAheadDone \/ IoSignalIdle
           \/ IoReleaseItem \/ IoReleaseRequest \/ (IoDequeue /\ IoThreadQueue = <<>>)
  <2>1. UNCHANGED irp
    BY <1>5 DEF IoWait, IoSignalCompletion, IoReadAheadDone, IoSignalIdle, IoReleaseItem, IoReleaseRequest, IoDequeue
  <2>2. ~IoBusy /\ ~IoBusy'
    BY <1>1, <1>5 DEF IoWait, IoSignalCompletion, IoReadAheadDone, IoSignalIdle, IoReleaseItem, IoReleaseRequest,
       IoDequeue, IoGoTo, IoDone, IoBusy
  <2>3. SameData /\ SamePending
    BY <1>1, <2>1, IrpsStay
  <2> QED BY <1>2, <2>2, <2>3, IoQuietData
<1> QED BY <1>3, <1>4, <1>5

\* The oldest fragment is taken out of the queue.
LEMMA IoDequeueData ==
    ASSUME QueueInv, DataInv, IoDequeue, IoThreadQueue # <<>>
    PROVE  DataInv'
<1> DEFINE Q == IoThreadQueue
           q0 == Head(Q)
<1>1. IrpTypes /\ Q \in Seq(Fragments)
  BY DEF QueueInv, ShapeInv, QueueTypes
<1>2. /\ io.pc = "dequeue" /\ io' = [pc |-> "access", req |-> q0] /\ Q' = Tail(Q)
      /\ UNCHANGED <<irp, fragment>>
      /\ UNCHANGED <<readAhead, lastRead>>
      /\ UNCHANGED <<disk, content, seen, EncryptedAreaEnd, holder>>
      /\ UNCHANGED <<main, completion, CompletionThreadQueue>>
  BY DEF IoDequeue, ioRest, aheadVars, bufVars
<1>3. io'.pc = "access" /\ io'.req = q0 /\ IoBusy' /\ ~IoBusy
  BY <1>2 DEF IoBusy
<1>4. SameData /\ SamePending
  BY <1>1, <1>2, IrpsStay
<1>5. SameDevice /\ SameAccess
  BY <1>2, <1>3, StillDevice DEF DataInv, SameAccess
<1>6. Entries(Q) = Entries(Tail(Q)) \cup {q0}
  BY <1>1, EntriesTail
<1>7. /\ q0 = Q[1] /\ 1 \in DOMAIN Q /\ DOMAIN Q = 1 .. Len(Q) /\ Len(Q) \in Nat
      /\ DOMAIN Q' = 1 .. Len(Q) - 1
      /\ \A n \in DOMAIN Q' : n + 1 \in DOMAIN Q /\ Q'[n] = Q[n + 1]
  BY <1>1, <1>2, TailFacts, EmptyFacts
<1> HIDE DEF Q
<1>8. Entries(IoThreadQueue') = Entries(Tail(Q))
  BY <1>2 DEF Q
<1>9. Sent' = Sent
  BY <1>2, <1>3, <1>6, <1>8 DEF Sent, If, Q, Entries
<1>10. Pipe' = Pipe
  BY <1>2, <1>9 DEF Pipe, If
<1>11. Fetched' = Fetched
  BY <1>2, <1>3 DEF Fetched, If, Entries
<1>12. Filled' = Filled
  BY <1>2, <1>3, <1>6, <1>8 DEF Filled, If, Q, Entries
<1>13. MainOk' /\ CheckOk' /\ SameCuts /\ (MainCuts' <=> MainCuts) /\ MainPos' = MainPos
  BY <1>2, <1>4, MainStill DEF SameData
<1>14. \A i \in Irps : SameFetching(i)
  BY <1>10, <1>13, FetchingKept
<1>15. Pieces'
  <2>1. Pieces
    BY DEF DataInv
  <2>2. \A m, n \in DOMAIN CompletionThreadQueue' :
          m < n => InFrontOf(CompletionThreadQueue'[m], CompletionThreadQueue'[n])
    BY <1>2, <2>1, Zenon DEF Pieces
  <2>3. ASSUME NEW m \in DOMAIN Q', NEW n \in DOMAIN Q', m < n PROVE InFrontOf(Q'[m], Q'[n])
    <3>1. m + 1 \in DOMAIN Q /\ n + 1 \in DOMAIN Q /\ m + 1 < n + 1
      BY <1>7, <2>3
    <3>2. InFrontOf(Q[m + 1], Q[n + 1])
      BY <2>1, <3>1 DEF Pieces, Q
    <3> QED BY <1>7, <3>2
  <2>4. ASSUME NEW n \in DOMAIN Q' PROVE InFrontOf(q0, Q'[n])
    <3>1. n + 1 \in DOMAIN Q /\ 1 < n + 1 /\ Q'[n] = Q[n + 1]
      BY <1>7
    <3>2. InFrontOf(Q[1], Q[n + 1])
      BY <1>7, <2>1, <3>1 DEF Pieces, Q
    <3> QED BY <1>7, <3>1, <3>2
  <2>5. ASSUME NEW p, \A n \in DOMAIN Q : InFrontOf(p, Q[n])
        PROVE  InFrontOf(p, q0) /\ \A n \in DOMAIN Q' : InFrontOf(p, Q'[n])
    BY <1>7, <2>5
  <2>6. ASSUME NEW m \in DOMAIN CompletionThreadQueue'
        PROVE  /\ InFrontOf(CompletionThreadQueue'[m], q0)
               /\ \A n \in DOMAIN Q' : InFrontOf(CompletionThreadQueue'[m], Q'[n])
    <3>1. \A n \in DOMAIN Q : InFrontOf(CompletionThreadQueue[m], Q[n])
      BY <1>2, <2>1, Zenon DEF Pieces, Q
    <3> QED BY <1>2, <2>5, <3>1
  <2>7. completion'.pc = "decrypt" =>
           /\ InFrontOf(completion'.req, q0)
           /\ \A n \in DOMAIN Q' : InFrontOf(completion'.req, Q'[n])
           /\ \A n \in DOMAIN CompletionThreadQueue' : InFrontOf(completion'.req, CompletionThreadQueue'[n])
    <3> SUFFICES ASSUME completion.pc = "decrypt"
                 PROVE  /\ InFrontOf(completion.req, q0)
                        /\ \A n \in DOMAIN Q' : InFrontOf(completion.req, Q'[n])
                        /\ \A n \in DOMAIN CompletionThreadQueue : InFrontOf(completion.req, CompletionThreadQueue[n])
      BY <1>2
    <3>1. /\ \A n \in DOMAIN Q : InFrontOf(completion.req, Q[n])
          /\ \A n \in DOMAIN CompletionThreadQueue : InFrontOf(completion.req, CompletionThreadQueue[n])
      BY <2>1, Zenon DEF Pieces, Q
    <3> QED BY <2>5, <3>1
  <2>8. MainCuts' => \A q \in Sent' : q.irp = main'.irp => q.pos + q.len <= MainPos'
    BY <1>2, <1>9, <1>13, <2>1, Zenon DEF Pieces
  <2> QED BY <1>3, <2>2, <2>3, <2>4, <2>6, <2>7, <2>8, Zenon DEF Pieces, Q
<1> QED BY <1>2, <1>4, <1>5, <1>10, <1>11, <1>12, <1>13, <1>14, <1>15, QuietData

\* A fragment that was read goes to the completion thread.
LEMMA IoHandOverData ==
    ASSUME QueueInv, DataInv, IoHandOver
    PROVE  DataInv'
<1> DEFINE C == CompletionThreadQueue
           q0 == io.req
<1>1. IrpTypes /\ C \in Seq(Fragments) /\ io \in [pc : IoPcs, req : Fragments]
  BY DEF QueueInv, ShapeInv, QueueTypes, ThreadTypes
<1>2. /\ io.pc \in {"handOver", "handOverAhead"} /\ C' = Append(C, q0)
      /\ UNCHANGED <<irp, fragment>>
      /\ UNCHANGED <<readAhead, lastRead>>
      /\ UNCHANGED <<disk, content, seen, EncryptedAreaEnd, holder>>
      /\ UNCHANGED <<main, completion, IoThreadQueue>>
  BY DEF IoHandOver, ioRest, aheadVars, bufVars
<1>3. io'.pc \in {"signal", "signalAhead"} /\ IoBusy /\ ~IoBusy'
  BY <1>1, <1>2 DEF IoBusy, IoHandOver, IoGoTo
<1>4. SameData /\ SamePending
  BY <1>1, <1>2, IrpsStay
<1>5. SameDevice /\ SameAccess
  BY <1>2, <1>3, StillDevice DEF DataInv, SameAccess
<1>6. Entries(Append(C, q0)) = Entries(C) \cup {q0}
  BY <1>1, EntriesAppend
<1>7. /\ DOMAIN C' = 1 .. Len(C) + 1 /\ DOMAIN C = 1 .. Len(C) /\ Len(C) \in Nat
      /\ \A n \in DOMAIN C' : C'[n] = IF n = Len(C) + 1 THEN q0 ELSE C[n]
  BY <1>1, <1>2, AppendFacts, EmptyFacts
<1> HIDE DEF C
<1>8. Entries(CompletionThreadQueue') = Entries(C) \cup {q0}
  BY <1>2, <1>6 DEF C
<1>9. Sent' = Sent
  BY <1>2, <1>3, <1>8 DEF Sent, If, C, Entries
<1>10. Pipe' = Pipe
  BY <1>2, <1>9 DEF Pipe, If
<1>11. Fetched' = Fetched
  BY <1>2, <1>3, <1>8 DEF Fetched, If, C, Entries
<1>12. Filled' = Filled
  BY <1>2, <1>3 DEF Filled, If, Entries
<1>13. MainOk' /\ CheckOk' /\ SameCuts /\ (MainCuts' <=> MainCuts) /\ MainPos' = MainPos
  BY <1>2, <1>4, MainStill DEF SameData
<1>14. \A i \in Irps : SameFetching(i)
  BY <1>10, <1>13, FetchingKept
<1>15. Pieces'
  <2>1. Pieces
    BY DEF DataInv
  <2>2. \A m, n \in DOMAIN IoThreadQueue' : m < n => InFrontOf(IoThreadQueue'[m], IoThreadQueue'[n])
    BY <1>2, <2>1, Zenon DEF Pieces
  <2>3. ASSUME NEW n \in DOMAIN C'
        PROVE  (n = Len(C) + 1 /\ C'[n] = q0) \/ (n \in DOMAIN C /\ C'[n] = C[n])
    BY <1>7
  <2>4. /\ \A n \in DOMAIN IoThreadQueue : InFrontOf(q0, IoThreadQueue[n])
        /\ \A m \in DOMAIN C : InFrontOf(C[m], q0)
        /\ \A m \in DOMAIN C, n \in DOMAIN IoThreadQueue : InFrontOf(C[m], IoThreadQueue[n])
    BY <1>3, <2>1, Zenon DEF Pieces, C
  <2>5. ASSUME NEW m \in DOMAIN C', NEW n \in DOMAIN C', m < n PROVE InFrontOf(C'[m], C'[n])
    <3>1. m \in DOMAIN C /\ C'[m] = C[m]
      BY <1>7, <2>5
    <3> QED BY <2>1, <2>3, <2>4, <2>5, <3>1 DEF Pieces, C
  <2>6. ASSUME NEW m \in DOMAIN C', NEW n \in DOMAIN IoThreadQueue' PROVE InFrontOf(C'[m], IoThreadQueue'[n])
    BY <1>2, <2>3, <2>4
  <2>7. completion'.pc = "decrypt" =>
           /\ \A n \in DOMAIN IoThreadQueue' : InFrontOf(completion'.req, IoThreadQueue'[n])
           /\ \A n \in DOMAIN C' : InFrontOf(completion'.req, C'[n])
    <3> SUFFICES ASSUME completion.pc = "decrypt"
                 PROVE  /\ \A n \in DOMAIN IoThreadQueue : InFrontOf(completion.req, IoThreadQueue[n])
                        /\ \A n \in DOMAIN C' : InFrontOf(completion.req, C'[n])
      BY <1>2
    <3>1. /\ \A n \in DOMAIN IoThreadQueue : InFrontOf(completion.req, IoThreadQueue[n])
          /\ \A n \in DOMAIN C : InFrontOf(completion.req, C[n])
          /\ InFrontOf(completion.req, q0)
      BY <1>3, <2>1, Zenon DEF Pieces, C
    <3> QED BY <2>3, <3>1
  <2>8. MainCuts' => \A q \in Sent' : q.irp = main'.irp => q.pos + q.len <= MainPos'
    BY <1>2, <1>9, <1>13, <2>1, Zenon DEF Pieces
  <2> QED BY <1>3, <2>2, <2>5, <2>6, <2>7, <2>8, Zenon DEF Pieces, C
<1> QED BY <1>2, <1>4, <1>5, <1>10, <1>11, <1>12, <1>13, <1>14, <1>15, QuietData

\* A buffer that is released is with no other fragment.
LEMMA ReleaseData ==
    ASSUME BufferInv, BuffersOk, io.pc = "accessed", ReleaseFragmentBuffer(io.req.buf),
           io.req.buf \in Buffers, Filled' = Filled, io'.pc # "accessed", SameRequests,
           \A q \in Filled : q.irp \in Irps
    PROVE  BuffersOk'
<1>1. fragment' = [fragment EXCEPT ![io.req.buf] = <<>>]
  BY DEF ReleaseFragmentBuffer
<1>2. DOMAIN fragment' = Buffers /\ \A b \in Buffers : fragment'[b] \in Seq(Cells)
  <2>1. <<>> \in Seq(Cells)
    OBVIOUS
  <2> QED BY <1>1, <2>1 DEF BuffersOk
<1>3. ASSUME NEW q \in Filled' PROVE q.buf # io.req.buf
  <2>1. \/ main.pc = "enqueue" /\ q = main.req
        \/ q \in Entries(IoThreadQueue)
    BY DEF Filled, If
  <2> QED BY <2>1 DEF BufferInv, BuffersApart, MainUses, IoUses, Entries
<1>4. ASSUME NEW q \in Filled', irp'[q.irp].req.op = "write" PROVE fragment'[q.buf] = BufferOf(q)
  <2>1. irp[q.irp].req.op = "write"
    BY <1>4 DEF SameRequests
  <2> QED BY <1>1, <1>3, <2>1 DEF BuffersOk
<1> QED BY <1>2, <1>4, Zenon DEF BuffersOk

\* After a write, what was read ahead is dropped.
LEMMA IoAfterWriteData ==
    ASSUME QueueInv, BufferInv, DataInv, IoAfterWrite
    PROVE  DataInv'
<1> DEFINE q0 == io.req
<1>1. IrpTypes /\ io \in [pc : IoPcs, req : Fragments]
  BY DEF QueueInv, ShapeInv, QueueTypes, ThreadTypes
<1>2. /\ io.pc = "accessed" /\ irp[q0.irp].req.op = "write" /\ readAhead' = NoReadAhead
      /\ ReleaseFragmentBuffer(q0.buf)
      /\ UNCHANGED <<irp, lastRead>>
      /\ UNCHANGED <<disk, content, seen, EncryptedAreaEnd, holder>>
      /\ UNCHANGED <<main, completion, IoThreadQueue, CompletionThreadQueue>>
  BY DEF IoAfterWrite, ioRest
<1>3. io'.pc \in {"complete", "releaseRequest"} /\ ~IoBusy' /\ IoBusy
  BY <1>1, <1>2 DEF IoAfterWrite, IoGoTo, IoBusy
<1>4. SameData /\ SamePending /\ SameRequests
  BY <1>1, <1>2, IrpsStay DEF SameData
<1>5. SameDevice
  BY <1>2, StillDevice DEF DataInv
<1>6. /\ AheadOk /\ BuffersOk /\ RawOk /\ ReadsOk /\ Pieces /\ \A q \in Pipe : FragmentOk(q)
  BY DEF DataInv, FragmentsOk
<1>7. /\ Filled \subseteq Pipe /\ Fetched \subseteq Sent /\ Sent \subseteq Pipe /\ q0 \in Sent
      /\ \A q \in Pipe : q.irp \in Irps /\ q \in Fragments
      /\ \A q \in Sent : irp[q.irp].status # "pending"
  BY <1>3, <1>6, PipeFacts
<1>8. Sent' \subseteq Sent /\ Sent \subseteq Sent' \cup {q0}
  BY <1>2, <1>3 DEF Sent, If, Entries
<1>9. Pipe' \subseteq Pipe /\ Pipe \subseteq Pipe' \cup {q0}
  BY <1>2, <1>8 DEF Pipe, If
<1>10. Fetched' = Fetched
  BY <1>2, <1>3 DEF Fetched, If, Entries
<1>11. Filled' = Filled
  BY <1>2, <1>3 DEF Filled, If, Entries
<1>12. MainOk' /\ CheckOk' /\ SameCuts /\ (MainCuts' <=> MainCuts) /\ MainPos' = MainPos
  BY <1>2, <1>4, MainStill DEF SameData
<1>13. Pieces'
  <2>1. MainCuts' => \A q \in Sent : q.irp = main'.irp => q.pos + q.len <= MainPos'
    BY <1>2, <1>6, <1>12 DEF Pieces
  <2> QED BY <1>2, <1>3, <1>6, <1>8, <2>1, PiecesInOrder
<1>14. AheadOk'
  <2>1. ~readAhead'.valid /\ lastRead' \in [off : Nat, len : Nat]
    BY <1>2, <1>6 DEF AheadOk, NoReadAhead
  <2> QED BY <2>1 DEF AheadOk
<1>15. BuffersOk'
  <2>1. q0.buf \in Buffers
    BY <1>1 DEF Fragments, Buffers
  <2>2. \A q \in Filled : q.irp \in Irps
    BY <1>7
  <2> QED BY <1>2, <1>3, <1>4, <1>6, <1>11, <2>1, <2>2, ReleaseData
<1>16. RawOk'
  BY <1>2, <1>6, <1>10, Zenon DEF RawOk, RawCell, Stored, Success
<1>17. ASSUME NEW j \in Irps PROVE ReadOk(j)'
  <2>1. ReadOk(j)
    BY <1>6 DEF ReadsOk
  <2>2. CASE j # q0.irp
    <3>1. SameFetching(j)
      BY <1>2, <1>9, <1>12, <2>2 DEF SameFetching, Fetching, Carries
    <3>2. UNCHANGED seen /\ irp'[j].data = irp[j].data
      BY <1>2
    <3> QED BY <1>4, <2>1, <3>1, <3>2, ReadKept
  <2>3. CASE j = q0.irp
    BY <1>2, <2>1, <2>3 DEF ReadOk
  <2> QED BY <2>2, <2>3
<1>18. ReadsOk'
  BY <1>17 DEF ReadsOk
<1> QED BY <1>2, <1>4, <1>5, <1>9, <1>12, <1>13, <1>14, <1>15, <1>16, <1>18, ShapeKept

\* What was read is copied out of the buffer, into the piece of its fragment.
LEMMA IoAfterReadData ==
    ASSUME QueueInv, BufferInv, DataInv, IoAfterRead
    PROVE  DataInv'
<1> DEFINE q0 == io.req
           i == q0.irp
           Copied(k, cell) == IF k \in q0.pos .. q0.pos + q0.len - 1
                              THEN fragment[q0.buf][k - q0.pos + 1] ELSE cell
<1>1. IrpTypes /\ io \in [pc : IoPcs, req : Fragments]
  BY DEF QueueInv, ShapeInv, QueueTypes, ThreadTypes
<1>2. /\ io.pc = "accessed" /\ irp[i].req.op = "read" /\ ReleaseFragmentBuffer(q0.buf)
      /\ UNCHANGED <<readAhead, lastRead>>
      /\ UNCHANGED <<disk, content, seen, EncryptedAreaEnd, holder>>
      /\ UNCHANGED <<main, completion, IoThreadQueue, CompletionThreadQueue>>
      /\ irp' = IF Success(i) THEN [irp EXCEPT ![i].data = [k \in DOMAIN @ |-> Copied(k, @[k])]] ELSE irp
  BY DEF IoAfterRead, ioRest, aheadVars
<1>3. io'.pc \in {"handOver", "handOverAhead"} /\ io'.req = q0 /\ IoBusy' /\ IoBusy
  BY <1>1, <1>2 DEF IoAfterRead, IoGoTo, IoBusy
<1>4. /\ DeviceTypes /\ AheadOk /\ BuffersOk /\ RawOk /\ ReadsOk /\ Pieces /\ \A q \in Pipe : FragmentOk(q)
  BY DEF DataInv, FragmentsOk
<1>5. /\ Filled \subseteq Pipe /\ Fetched \subseteq Sent /\ Sent \subseteq Pipe /\ q0 \in Sent
      /\ \A q \in Pipe : q.irp \in Irps /\ q \in Fragments
      /\ \A q \in Sent : irp[q.irp].status # "pending"
  BY <1>3, <1>4, PipeFacts
<1>6. i \in Irps /\ FragmentOk(q0) /\ irp[i].status # "pending" /\ q0 \in Fragments /\ q0 \in Pipe
  BY <1>4, <1>5
<1>7. \A j \in Irps : /\ irp'[j].req = irp[j].req /\ irp'[j].status = irp[j].status
                      /\ irp'[j].disp = irp[j].disp /\ irp'[j].done = irp[j].done
                      /\ DOMAIN irp'[j].data = DOMAIN irp[j].data
                      /\ j # i => irp'[j].data = irp[j].data
  BY <1>1, <1>2, <1>6 DEF IrpTypes, IrpFields
<1>8. ~Success(i) => irp'[i].data = irp[i].data
  BY <1>2
<1>9. Success(i) => \A k \in DOMAIN irp[i].data : irp'[i].data[k] = Copied(k, irp[i].data[k])
  BY <1>1, <1>2, <1>6 DEF IrpTypes, IrpFields
<1>10. SameRequests /\ SamePending /\ SameDevice
  BY <1>2, <1>4, <1>7, StillDevice DEF SameRequests, SamePending
<1>11. Sent' = Sent
  BY <1>2, <1>3 DEF Sent, If, Entries
<1>12. Pipe' = Pipe
  BY <1>2, <1>11 DEF Pipe, If
<1>13. Filled' = Filled
  BY <1>2, <1>3 DEF Filled, If, Entries
<1>14. Fetched' = Fetched \cup {q0}
  BY <1>2, <1>3 DEF Fetched, If, Entries
<1>15. MainOk' /\ CheckOk' /\ SameCuts /\ (MainCuts' <=> MainCuts) /\ MainPos' = MainPos
  BY <1>2, <1>7, <1>10, MainStill
<1>16. Pieces'
  BY <1>2, <1>3, <1>4, <1>11, <1>15, PiecesKept
<1>17. AheadOk'
  <2>1. ~Overwriting /\ (Holding' => Holding)
    BY <1>2, <1>10 DEF Overwriting, SameDevice
  <2> QED BY <1>2, <1>4, <2>1, AheadKept
<1>18. BuffersOk'
  <2>1. q0.buf \in Buffers
    BY <1>1 DEF Fragments, Buffers
  <2>2. \A q \in Filled : q.irp \in Irps
    BY <1>5
  <2> QED BY <1>2, <1>3, <1>4, <1>10, <1>13, <2>1, <2>2, ReleaseData
<1>19. /\ q0.off \in Nat /\ q0.pos \in Nat /\ q0.len \in Nat /\ q0.pos >= 1
  BY <1>6 DEF Fragments, FragmentOk, Placed
<1>20. RawOk'
  <2> SUFFICES ASSUME NEW q \in Fetched', Success(q.irp)', NEW k \in 1 .. q.len
               PROVE  RawCell(q, k, irp[q.irp].data[q.pos + k - 1])'
    BY DEF RawOk
  <2>1. q \in Sent /\ q.irp \in Irps /\ q \in Fragments /\ FragmentOk(q)
    BY <1>4, <1>5, <1>14
  <2>2. Success(q.irp)
    BY <1>7, <2>1 DEF Success
  <2>3. RawCell(q, k, irp'[q.irp].data[q.pos + k - 1])
    <3>1. CASE q = q0
      <4>1. RawCell(q0, k, fragment[q0.buf][k])
        BY <1>2, <1>4, <2>2, <3>1 DEF BuffersOk
      <4>2. q0.pos + k - 1 \in 1 .. irp[i].req.len
        BY <1>1, <1>4, <1>6, <3>1, FragmentUnits
      <4>3. q0.pos + k - 1 \in DOMAIN irp[i].data
        BY <1>6, <4>2 DEF FragmentOk
      <4>4. q0.pos + k - 1 \in q0.pos .. q0.pos + q0.len - 1 /\ (q0.pos + k - 1) - q0.pos + 1 = k
        BY <1>19, <3>1
      <4>5. irp'[i].data[q0.pos + k - 1] = Copied(q0.pos + k - 1, irp[i].data[q0.pos + k - 1])
        BY <1>9, <2>2, <3>1, <4>3
      <4>6. irp'[i].data[q0.pos + k - 1] = fragment[q0.buf][k]
        BY <4>4, <4>5
      <4> HIDE DEF q0
      <4> QED BY <3>1, <4>1, <4>6
    <3>2. CASE q \in Fetched /\ q.irp # i
      BY <1>4, <1>7, <2>1, <2>2, <3>2 DEF RawOk
    <3>3. CASE q \in Fetched /\ q.irp = i
      <4>1. InFrontOf(q, q0)
        BY <1>2, <1>3, <1>4, <3>3 DEF Fetched, Pieces, If, Entries
      <4>2. q.pos + q.len <= q0.pos
        BY <3>3, <4>1 DEF InFrontOf
      <4>3. q.pos \in Nat /\ q.len \in Nat
        BY <2>1 DEF Fragments
      <4>4. q.pos + k - 1 \notin q0.pos .. q0.pos + q0.len - 1
        BY <1>19, <4>2, <4>3
      <4>5. q.pos + k - 1 \in 1 .. irp[i].req.len
        BY <1>1, <1>4, <2>1, <3>3, FragmentUnits
      <4>6. q.pos + k - 1 \in DOMAIN irp[i].data
        BY <1>6, <4>5 DEF FragmentOk
      <4>7. irp'[i].data[q.pos + k - 1] = irp[i].data[q.pos + k - 1]
        BY <1>9, <2>2, <3>3, <4>4, <4>6
      <4>8. RawCell(q, k, irp[q.irp].data[q.pos + k - 1])
        BY <1>4, <2>2, <3>3 DEF RawOk
      <4> QED BY <3>3, <4>7, <4>8
    <3> QED BY <1>14, <3>1, <3>2, <3>3
  <2> QED BY <1>2, <2>3, Zenon DEF RawCell, Stored
<1>21. ASSUME NEW j \in Irps PROVE ReadOk(j)'
  <2>1. ReadOk(j) /\ UNCHANGED seen
    BY <1>2, <1>4 DEF ReadsOk
  <2>2. SameFetching(j)
    BY <1>12, <1>15, FetchingKept
  <2>3. CASE irp'[j].data = irp[j].data
    BY <1>10, <2>1, <2>2, <2>3, ReadKept
  <2>4. CASE irp'[j].data # irp[j].data
    <3>1. j = i /\ Success(i)
      BY <1>7, <1>8, <2>4
    <3>2. irp'[i].req = irp[i].req /\ irp'[i].status = irp[i].status /\ DOMAIN irp'[i].data = DOMAIN irp[i].data
      BY <1>6, <1>7
    <3>3. irp'[i].status # "pending" /\ \A k : UnitOf(j, k)' = UnitOf(j, k)
      BY <1>6, <3>1, <3>2 DEF UnitOf
    <3>4. ASSUME NEW k \in DOMAIN irp[i].data PROVE Fetching(j, k)' \/ GoodCell(j, k)'
      <4>1. k \in Nat \ {0} /\ (Fetching(j, k) \/ GoodCell(j, k))
        BY <1>2, <2>1, <3>1 DEF ReadOk
      <4>2. CASE k \in q0.pos .. q0.pos + q0.len - 1
        <5>1. q0.pos <= k /\ k < q0.pos + q0.len
          BY <1>19, <4>2
        <5>2. Carries(q0, j, k)
          BY <3>1, <5>1 DEF Carries
        <5> QED BY <1>6, <1>12, <5>2 DEF Fetching, Carries
      <4>3. CASE k \notin q0.pos .. q0.pos + q0.len - 1
        <5>1. irp'[j].data[k] = irp[j].data[k]
          BY <1>9, <3>1, <4>3, SMTT(60)
        <5>2. GoodCell(j, k) => GoodCell(j, k)'
          BY <1>2, <3>3, <5>1 DEF GoodCell
        <5> QED BY <2>2, <3>1, <4>1, <5>2 DEF SameFetching
      <4> QED BY <4>2, <4>3
    <3> HIDE DEF i, Copied
    <3> QED BY <2>1, <3>1, <3>2, <3>3, <3>4 DEF ReadOk
  <2> QED BY <2>3, <2>4
<1>22. ReadsOk'
  BY <1>21 DEF ReadsOk
<1>23. Pipe' \subseteq Pipe /\ \A j \in Irps : DOMAIN irp'[j].data = DOMAIN irp[j].data
  BY <1>7, <1>12
<1> QED BY <1>10, <1>15, <1>16, <1>17, <1>18, <1>20, <1>22, <1>23, ShapeKept

\* Reading ahead mirrors the device.
LEMMA IoReadAheadData ==
    ASSUME QueueInv, DataInv, IoReadAhead
    PROVE  DataInv'
<1> DEFINE o == lastRead.off + lastRead.len
           within == o + lastRead.len <= MaxReadAheadOffset
           new == [valid |-> TRUE, off |-> o, len |-> lastRead.len,
                   data |-> [k \in 1 .. lastRead.len |-> disk[o + k - 1]]]
<1>1. IrpTypes /\ io \in [pc : IoPcs, req : Fragments] /\ HoldInv
  BY DEF QueueInv, ShapeInv, QueueTypes, ThreadTypes
<1>2. /\ io.pc = "readAhead" /\ UNCHANGED <<irp, lastRead, fragment>>
      /\ readAhead' = NoReadAhead \/ (within /\ readAhead' = new)
      /\ UNCHANGED <<disk, content, seen, EncryptedAreaEnd, holder>>
      /\ UNCHANGED <<main, completion, IoThreadQueue, CompletionThreadQueue>>
  BY DEF IoReadAhead, ioRest, bufVars
<1>3. io'.pc = "aheadDone" /\ ~IoBusy /\ ~IoBusy'
  BY <1>1, <1>2 DEF IoReadAhead, IoGoTo, IoBusy
<1>4. SameData /\ SamePending /\ SameRequests
  BY <1>1, <1>2, IrpsStay DEF SameData
<1>5. SameDevice
  BY <1>2, StillDevice DEF DataInv
<1>6. /\ AheadOk /\ BuffersOk /\ RawOk /\ \A q \in Pipe : FragmentOk(q)
  BY DEF DataInv, FragmentsOk
<1>7. Sent' = Sent
  BY <1>2, <1>3 DEF Sent, If, Entries
<1>8. Pipe' = Pipe
  BY <1>2, <1>7 DEF Pipe, If
<1>9. Fetched' = Fetched
  BY <1>2, <1>3 DEF Fetched, If, Entries
<1>10. Filled' = Filled
  BY <1>2, <1>3 DEF Filled, If, Entries
<1>11. MainOk' /\ CheckOk' /\ SameCuts /\ (MainCuts' <=> MainCuts) /\ MainPos' = MainPos
  BY <1>2, <1>4, MainStill DEF SameData
<1>12. \A i \in Irps : SameFetching(i)
  BY <1>8, <1>11, FetchingKept
<1>13. Pieces'
  BY <1>2, <1>3, <1>7, <1>11, PiecesKept DEF DataInv
<1>14. AheadOk'
  <2>1. lastRead \in [off : Nat, len : Nat] /\ lastRead' = lastRead
    BY <1>2, <1>6 DEF AheadOk
  <2>2. ~Holding'
    <3>1. ~Held
      BY <1>1, <1>2 DEF HoldInv, HeldQuiet, Ahead
    <3> QED BY <1>2, <3>1 DEF Held, Holding
  <2>3. CASE readAhead' = NoReadAhead
    BY <2>1, <2>2, <2>3 DEF AheadOk, NoReadAhead
  <2>4. CASE within /\ readAhead' = new
    <3>1. o \in Nat /\ lastRead.len \in Nat /\ MaxReadAheadOffset \in Nat /\ DeviceUnits \in Nat
      BY <2>1, QueueAssumption DEF QueueAssumption
    <3>2. MaxReadAheadOffset <= DeviceUnits
      BY LayoutAssumption DEF LayoutAssumption
    <3>3. /\ readAhead'.off = o /\ readAhead'.len = lastRead.len
          /\ readAhead'.data = [k \in 1 .. lastRead.len |-> disk[o + k - 1]]
      BY <2>4
    <3>4. ASSUME NEW k \in 1 .. lastRead.len
          PROVE  o + k - 1 \in Units /\ readAhead'.data[k] = disk[o + k - 1]
      <4> HIDE DEF o
      <4>1. o + k - 1 \in Units
        BY <2>4, <3>1, <3>2, <3>4 DEF Units
      <4> QED BY <3>3, <4>1
    <3> HIDE DEF o, new
    <3> QED BY <1>2, <2>1, <2>2, <3>1, <3>3, <3>4 DEF AheadOk
  <2> QED BY <1>2, <2>3, <2>4
<1>15. BuffersOk'
  <2>1. \A q \in Filled : q.irp \in Irps
    BY <1>6, PipeFacts
  <2>2. io'.pc # "accessed" /\ SameAccess /\ Filled' \subseteq Filled
    BY <1>2, <1>3, <1>10 DEF SameAccess
  <2> QED BY <1>2, <1>4, <1>6, <2>1, <2>2, FilledKept
<1>16. RawOk'
  BY <1>2, <1>6, <1>9, Zenon DEF RawOk, RawCell, Stored, Success
<1> QED BY <1>4, <1>5, <1>8, <1>11, <1>12, <1>13, <1>14, <1>15, <1>16, DataKept

\* The place of a part on the device is that of a unit of the request.
LEMMA PartPlace ==
    ASSUME IrpTypes, DeviceTypes, NEW q, FragmentOk(q), NEW p \in DOMAIN Parts(q),
           NEW d \in Parts(q)[p].dev .. Parts(q)[p].dev + Parts(q)[p].n - 1
    PROVE  LET k == Parts(q)[p].k + d - Parts(q)[p].dev
           IN  /\ k \in PartUnits(Parts(q)[p]) /\ k \in 1 .. q.len
               /\ DeviceUnit(q.off + k - 1, EncryptedAreaEnd) = d
<1> DEFINE a == Parts(q)[p]
           k == a.k + d - a.dev
<1>1. q.off \in Nat /\ q.len \in Nat \ {0} /\ EncryptedAreaEnd \in AreaEnds
  BY DEF FragmentOk, Fragments, Placed, DeviceTypes
<1>2. Remap => q.enc = Intersection(q.off, q.len, EncryptedAreaEnd)
  <2>1. Remap => IsFilterDevice
    BY LayoutAssumption DEF LayoutAssumption
  <2> QED BY <2>1 DEF FragmentOk, Covered
<1>3. PartOk(a, q, EncryptedAreaEnd)
  BY <1>1, <1>2, PartsFacts
<1> HIDE DEF a
<1>4. a.k \in Nat \ {0} /\ a.n \in Nat \ {0} /\ a.dev \in Nat
  BY <1>3 DEF PartOk
<1>5. d \in a.dev .. a.dev + a.n - 1
  BY DEF a
<1>6. k \in PartUnits(a) /\ a.dev + (k - a.k) = d
  BY <1>4, <1>5 DEF PartUnits
<1>7. k \in 1 .. q.len /\ a.dev + (k - a.k) = DeviceUnit(q.off + k - 1, EncryptedAreaEnd)
  BY <1>3, <1>6 DEF PartOk
<1> QED BY <1>6, <1>7 DEF a

\* A unit of a part is at its place.
LEMMA UnitPlace ==
    ASSUME IrpTypes, DeviceTypes, NEW q, FragmentOk(q), NEW p \in DOMAIN Parts(q),
           NEW k \in PartUnits(Parts(q)[p])
    PROVE  LET d == DeviceUnit(q.off + k - 1, EncryptedAreaEnd)
           IN  /\ k \in 1 .. q.len /\ d \in Parts(q)[p].dev .. Parts(q)[p].dev + Parts(q)[p].n - 1
               /\ Parts(q)[p].dev + k - Parts(q)[p].k = d
               /\ k - Parts(q)[p].k + 1 \in 1 .. Parts(q)[p].n
               /\ d = Parts(q)[p].dev + (k - Parts(q)[p].k + 1) - 1
<1> DEFINE a == Parts(q)[p]
<1>1. q.off \in Nat /\ q.len \in Nat \ {0} /\ EncryptedAreaEnd \in AreaEnds
  BY DEF FragmentOk, Fragments, Placed, DeviceTypes
<1>2. Remap => q.enc = Intersection(q.off, q.len, EncryptedAreaEnd)
  <2>1. Remap => IsFilterDevice
    BY LayoutAssumption DEF LayoutAssumption
  <2> QED BY <2>1 DEF FragmentOk, Covered
<1>3. PartOk(a, q, EncryptedAreaEnd)
  BY <1>1, <1>2, PartsFacts
<1> HIDE DEF a
<1>4. a.k \in Nat \ {0} /\ a.n \in Nat \ {0} /\ a.dev \in Nat
  BY <1>3 DEF PartOk
<1>5. k \in PartUnits(a) /\ k \in a.k .. a.k + a.n - 1
  BY DEF a, PartUnits
<1>6. k \in 1 .. q.len /\ a.dev + (k - a.k) = DeviceUnit(q.off + k - 1, EncryptedAreaEnd)
  BY <1>3, <1>5 DEF PartOk
<1>7. /\ a.dev + (k - a.k) \in a.dev .. a.dev + a.n - 1 /\ a.dev + k - a.k = a.dev + (k - a.k)
      /\ k - a.k + 1 \in 1 .. a.n /\ a.dev + (k - a.k) = a.dev + (k - a.k + 1) - 1
  BY <1>4, <1>5
<1> QED BY <1>6, <1>7 DEF a

\* The fragment the I/O thread is about to access, while no block is being re-encoded.
LEMMA AccessFacts ==
    ASSUME QueueInv, DataInv, io.pc = "access"
    PROVE  /\ FragmentOk(io.req) /\ io.req \in Sent /\ io.req \in Filled /\ io.req.irp \in Irps
           /\ io.req \in Fragments /\ irp[io.req.irp].status # "pending" /\ Live(io.req.irp)
           /\ AreaNow = EncryptedAreaEnd /\ ~Held
           /\ EncryptedAreaEnd \in AreaEnds /\ (Remap => EncryptedAreaEnd = InitialEnd)
<1>1. \A q \in Pipe : FragmentOk(q)
  BY DEF DataInv, FragmentsOk
<1>2. /\ Sent \subseteq Pipe /\ io.req \in Sent /\ \A q \in Pipe : q.irp \in Irps /\ q \in Fragments
      /\ \A q \in Sent : irp[q.irp].status # "pending" /\ Flowing(q)
  BY <1>1, PipeFacts DEF IoBusy
<1>3. io.req \in Filled
  BY DEF Filled, If
<1>4. ~Held
  BY DEF QueueInv, HoldInv, HeldQuiet, IoHas
<1>5. AreaNow = EncryptedAreaEnd
  BY <1>4 DEF Held, AreaNow
<1>6. Live(io.req.irp)
  BY <1>2 DEF Flowing
<1> QED BY <1>1, <1>2, <1>3, <1>4, <1>5, <1>6 DEF DataInv, DeviceTypes

\* What a write does: some of its units get the value of the IRP, stored as the area says.
WriteDoes(q, W, st) ==
    /\ \A u \in W : u \in Units /\ \E k \in 1 .. q.len : u = q.off + k - 1
    /\ content' = [u \in Units |-> IF u \in W THEN q.irp ELSE content[u]]
    /\ disk' \in [Units -> Cells]
    /\ \A u \in Units : ~Target(u) =>
          disk'[DeviceUnit(u, EncryptedAreaEnd)] =
             IF u \in W THEN Encoded(u, q.irp, EncryptedAreaEnd) ELSE disk[DeviceUnit(u, EncryptedAreaEnd)]
    /\ seen' = [i \in Irps |-> [u \in Units |->
                    IF irp[i].disp # "new" /\ irp[i].done = 0
                    THEN seen[i][u] \cup {content'[u]} ELSE seen[i][u]]]
    /\ st \in {"ok", "failed"} /\ irp' = [irp EXCEPT ![q.irp].status = st]

\* The effect of IoWrite, whichever of its accesses fail.
LEMMA WriteEffect ==
    ASSUME QueueInv, DataInv, IoWrite
    PROVE  \E W, st : WriteDoes(io.req, W, st)
<1> DEFINE q == io.req
           parts == Parts(q)
           e == EncryptedAreaEnd
           Run(p) == parts[p].dev .. parts[p].dev + parts[p].n - 1
           Written(ok) == {k \in 1 .. q.len : \E p \in DOMAIN ok : ok[p] /\ k \in PartUnits(parts[p])}
           Logical(ks) == {q.off + k - 1 : k \in ks}
<1>1. /\ io.pc = "access" /\ irp[q.irp].req.op = "write"
      /\ \E ok \in Outcomes(q) :
            /\ disk' = [d \in Units |->
                  IF \E p \in DOMAIN ok : ok[p] /\ d \in Run(p)
                  THEN LET p == CHOOSE p \in DOMAIN ok : d \in Run(p)
                       IN  fragment[q.buf][parts[p].k + d - parts[p].dev]
                  ELSE disk[d]]
            /\ content' = [u \in Units |-> IF u \in Logical(Written(ok)) THEN q.irp ELSE content[u]]
            /\ seen' = [i \in Irps |-> [u \in Units |->
                           IF irp[i].disp # "new" /\ irp[i].done = 0
                           THEN seen[i][u] \cup {content'[u]} ELSE seen[i][u]]]
            /\ irp' = [irp EXCEPT ![q.irp].status = StatusOf(ok)]
  BY ZenonT(60) DEF IoWrite
<1>2. PICK ok \in Outcomes(q) :
            /\ disk' = [d \in Units |->
                  IF \E p \in DOMAIN ok : ok[p] /\ d \in Run(p)
                  THEN LET p == CHOOSE p \in DOMAIN ok : d \in Run(p)
                       IN  fragment[q.buf][parts[p].k + d - parts[p].dev]
                  ELSE disk[d]]
            /\ content' = [u \in Units |-> IF u \in Logical(Written(ok)) THEN q.irp ELSE content[u]]
            /\ seen' = [i \in Irps |-> [u \in Units |->
                           IF irp[i].disp # "new" /\ irp[i].done = 0
                           THEN seen[i][u] \cup {content'[u]} ELSE seen[i][u]]]
            /\ irp' = [irp EXCEPT ![q.irp].status = StatusOf(ok)]
  BY <1>1, Zenon
<1>3. /\ FragmentOk(q) /\ q \in Filled /\ q.irp \in Irps /\ q \in Fragments
      /\ AreaNow = e /\ e \in AreaEnds /\ (Remap => e = InitialEnd)
  BY <1>1, AccessFacts
<1>4. IrpTypes /\ DeviceTypes /\ BuffersOk
  BY DEF QueueInv, ShapeInv, DataInv
<1>5. DOMAIN ok = DOMAIN parts
  BY SMTT(60) DEF Outcomes
<1>6. fragment[q.buf] = BufferOf(q)
  BY <1>1, <1>3, <1>4 DEF BuffersOk
<1> DEFINE W == Logical(Written(ok))
<1>7. ASSUME NEW k \in 1 .. q.len
      PROVE  /\ q.off + k - 1 \in Units /\ ~Target(q.off + k - 1)
             /\ \A v : Encoded(q.off + k - 1, v, e) = Stored(q, q.off + k - 1, v)
  BY <1>3, <1>4, FragmentUnits
<1>8. ASSUME NEW p \in DOMAIN parts, NEW d \in Run(p)
      PROVE  LET k == parts[p].k + d - parts[p].dev
             IN  k \in PartUnits(parts[p]) /\ k \in 1 .. q.len /\ DeviceUnit(q.off + k - 1, e) = d
  BY <1>3, <1>4, PartPlace
<1>9. ASSUME NEW d \in Units, \E p \in DOMAIN ok : ok[p] /\ d \in Run(p)
      PROVE  \E k \in 1 .. q.len : DeviceUnit(q.off + k - 1, e) = d /\ disk'[d] = BufferOf(q)[k]
  <2> DEFINE p == CHOOSE p \in DOMAIN ok : d \in Run(p)
             k == parts[p].k + d - parts[p].dev
  <2>1. p \in DOMAIN ok /\ d \in Run(p)
    BY <1>9, Zenon
  <2>2. disk'[d] = fragment[q.buf][k]
    BY <1>2, <1>9, Zenon
  <2> HIDE DEF p, parts, Run
  <2>3. k \in 1 .. q.len /\ DeviceUnit(q.off + k - 1, e) = d
    BY <1>5, <1>8, <2>1
  <2> QED BY <1>6, <2>2, <2>3
<1>10. ASSUME NEW d \in Units, ~\E p \in DOMAIN ok : ok[p] /\ d \in Run(p)
       PROVE  disk'[d] = disk[d]
  BY <1>2, <1>10, Zenon
<1>11. ASSUME NEW k \in 1 .. q.len
       PROVE  BufferOf(q)[k] = Stored(q, q.off + k - 1, q.irp) /\ BufferOf(q)[k] \in Cells
  <2>1. q.off \in Nat /\ DataUnitOffset \in Nat /\ q.irp \in Nat /\ q.len \in Nat
    BY <1>3, QueueAssumption DEF Fragments, QueueAssumption
  <2>2. BufferOf(q)[k] = Stored(q, q.off + k - 1, q.irp)
    BY DEF BufferOf
  <2> QED BY <2>1, <2>2 DEF Stored, Plain, Cells
<1>12. disk' \in [Units -> Cells]
  <2>1. ASSUME NEW d \in Units PROVE disk'[d] \in Cells
    <3>1. CASE \E p \in DOMAIN ok : ok[p] /\ d \in Run(p)
      BY <1>9, <1>11, <3>1
    <3>2. CASE ~\E p \in DOMAIN ok : ok[p] /\ d \in Run(p)
      BY <1>4, <1>10, <3>2, SMTT(60) DEF DeviceTypes
    <3> QED BY <3>1, <3>2
  <2> DEFINE F(d) == IF \E p \in DOMAIN ok : ok[p] /\ d \in Run(p)
                     THEN LET p == CHOOSE p \in DOMAIN ok : d \in Run(p)
                          IN  fragment[q.buf][parts[p].k + d - parts[p].dev]
                     ELSE disk[d]
  <2>2. disk' = [d \in Units |-> F(d)]
    BY <1>2
  <2> HIDE DEF F
  <2> QED BY <2>1, <2>2
<1>13. ASSUME NEW u \in Units, ~Target(u)
       PROVE  disk'[DeviceUnit(u, e)] = IF u \in W THEN Encoded(u, q.irp, e) ELSE disk[DeviceUnit(u, e)]
  <2> DEFINE d == DeviceUnit(u, e)
  <2>1. d \in Units
    BY <1>3, PlaceOnDevice
  <2>2. ASSUME NEW k \in 1 .. q.len, DeviceUnit(q.off + k - 1, e) = d PROVE u = q.off + k - 1
    <3>1. q.off + k - 1 \in Units /\ ~Target(q.off + k - 1)
      BY <1>7
    <3> QED BY <1>3, <1>13, <2>2, <3>1, DistinctPlaces
  <2>3. u \in W => \E p \in DOMAIN ok : ok[p] /\ d \in Run(p)
    <3> SUFFICES ASSUME u \in W PROVE \E p \in DOMAIN ok : ok[p] /\ d \in Run(p)
      OBVIOUS
    <3>1. PICK k \in 1 .. q.len : u = q.off + k - 1 /\ \E p \in DOMAIN ok : ok[p] /\ k \in PartUnits(parts[p])
      BY Zenon
    <3>2. PICK p \in DOMAIN ok : ok[p] /\ k \in PartUnits(parts[p])
      BY <3>1
    <3>3. d \in Run(p)
      BY <1>3, <1>4, <1>5, <3>1, <3>2, UnitPlace
    <3> QED BY <3>2, <3>3
  <2>4. CASE \E p \in DOMAIN ok : ok[p] /\ d \in Run(p)
    <3>1. PICK p \in DOMAIN ok : ok[p] /\ d \in Run(p)
      BY <2>4
    <3> DEFINE k == parts[p].k + d - parts[p].dev
    <3>2. k \in PartUnits(parts[p]) /\ k \in 1 .. q.len /\ DeviceUnit(q.off + k - 1, e) = d
      <4> HIDE DEF parts, d
      <4> QED BY <1>5, <1>8, <3>1
    <3>3. k \in Written(ok)
      <4> HIDE DEF k, parts
      <4> QED BY <3>1, <3>2
    <3>4. u = q.off + k - 1
      BY <2>2, <3>2
    <3>5. u \in W
      <4> HIDE DEF k, parts, Written
      <4> QED BY <3>3, <3>4
    <3>6. PICK m \in 1 .. q.len : DeviceUnit(q.off + m - 1, e) = d /\ disk'[d] = BufferOf(q)[m]
      BY <1>9, <2>1, <2>4
    <3>7. u = q.off + m - 1
      BY <2>2, <3>6
    <3>8. disk'[d] = Encoded(u, q.irp, e)
      BY <1>7, <1>11, <3>6, <3>7
    <3> HIDE DEF W, k, parts
    <3> QED BY <3>5, <3>8
  <2>5. CASE ~\E p \in DOMAIN ok : ok[p] /\ d \in Run(p)
    <3>1. disk'[d] = disk[d]
      BY <1>10, <2>1, <2>5
    <3> HIDE DEF W
    <3> QED BY <2>3, <2>5, <3>1
  <2> QED BY <2>4, <2>5
<1>14. ASSUME NEW u \in W PROVE u \in Units /\ \E k \in 1 .. q.len : u = q.off + k - 1
  <2>1. PICK k \in 1 .. q.len : u = q.off + k - 1
    BY <1>14, Zenon
  <2> QED BY <1>7, <2>1
<1>15. StatusOf(ok) \in {"ok", "failed"}
  BY DEF StatusOf
<1>16. WriteDoes(q, W, StatusOf(ok))
  <2>1. content' = [u \in Units |-> IF u \in W THEN q.irp ELSE content[u]]
    BY <1>2
  <2>2. /\ seen' = [i \in Irps |-> [u \in Units |->
                           IF irp[i].disp # "new" /\ irp[i].done = 0
                           THEN seen[i][u] \cup {content'[u]} ELSE seen[i][u]]]
        /\ irp' = [irp EXCEPT ![q.irp].status = StatusOf(ok)]
    BY <1>2
  <2> HIDE DEF W, q
  <2> QED BY <1>12, <1>13, <1>14, <1>15, <2>1, <2>2, Zenon DEF WriteDoes
<1> QED BY <1>16

\* What an IRP has seen grows as units are written.
SeenGrows == \A j \in Irps, u \in Units : seen[j][u] \subseteq seen'[j][u]

\* What was read and not decrypted, while units are written.
LEMMA RawGrown ==
    ASSUME RawOk, Fetched' \subseteq Fetched, SameData, SeenGrows,
           \A q \in Fetched : /\ q.irp \in Irps /\ irp[q.irp].status # "pending"
                              /\ \A k \in 1 .. q.len : q.off + k - 1 \in Units
    PROVE  RawOk'
<1> SUFFICES ASSUME NEW q \in Fetched', Success(q.irp)', NEW k \in 1 .. q.len
             PROVE  RawCell(q, k, irp[q.irp].data[q.pos + k - 1])'
  BY DEF RawOk
<1>1. q \in Fetched /\ q.irp \in Irps /\ irp[q.irp].status # "pending" /\ q.off + k - 1 \in Units
  OBVIOUS
<1>2. Success(q.irp) /\ irp'[q.irp].data = irp[q.irp].data
  BY <1>1 DEF SameRequests, SameData, Success
<1>3. RawCell(q, k, irp[q.irp].data[q.pos + k - 1])
  BY <1>1, <1>2 DEF RawOk
<1>4. seen[q.irp][q.off + k - 1] \subseteq seen'[q.irp][q.off + k - 1]
  BY <1>1 DEF SeenGrows
<1> QED BY <1>2, <1>3, <1>4, Zenon DEF RawCell, Stored

\* What a read will return, while units are written.
LEMMA ReadGrown ==
    ASSUME NEW i \in Irps, ReadOk(i), SameData, SameFetching(i), SeenGrows
    PROVE  ReadOk(i)'
<1>1. /\ irp'[i].req = irp[i].req /\ irp'[i].data = irp[i].data
      /\ (Success(i)' => Success(i) \/ irp[i].status = "pending")
      /\ (irp'[i].status = "pending" => irp[i].status = "pending")
  BY DEF SameData, SameRequests, Success
<1>2. ASSUME NEW k \in DOMAIN irp[i].data PROVE Fetching(i, k) => Fetching(i, k)'
  BY DEF SameFetching
<1>3. ASSUME NEW k PROVE UnitOf(i, k)' = UnitOf(i, k)
  BY <1>1 DEF UnitOf
<1>4. ASSUME NEW k, UnitOf(i, k) \in Units PROVE GoodCell(i, k) => GoodCell(i, k)'
  <2>1. seen[i][UnitOf(i, k)] \subseteq seen'[i][UnitOf(i, k)]
    BY <1>4 DEF SeenGrows
  <2> QED BY <1>1, <1>3, <2>1 DEF GoodCell
<1> QED BY <1>1, <1>2, <1>3, <1>4, Zenon DEF ReadOk

\* What a write leaves of the device: it stays encoded as the area says.
LEMMA WriteDevice ==
    ASSUME QueueInv, DataInv, io.pc = "access", irp[io.req.irp].req.op = "write",
           UNCHANGED <<holder, EncryptedAreaEnd>>, NEW W, NEW st, WriteDoes(io.req, W, st)
    PROVE  DeviceTypes' /\ DeviceOk' /\ IntactOk' /\ SeenOk' /\ SeenGrows
<1> DEFINE q == io.req
           e == EncryptedAreaEnd
<1>1. /\ FragmentOk(q) /\ q.irp \in Irps /\ q \in Fragments
      /\ AreaNow = e /\ e \in AreaEnds /\ (Remap => e = InitialEnd)
  BY AccessFacts
<1>2. DeviceTypes /\ DeviceOk /\ IntactOk /\ SeenOk /\ IrpTypes
  BY DEF DataInv, QueueInv, ShapeInv
<1>3. AreaNow' = AreaNow
  BY DEF AreaNow, FirstPlain
<1>4. q.irp \in Nat
  BY <1>1, QueueAssumption DEF QueueAssumption
<1>5. content' = [u \in Units |-> IF u \in W THEN q.irp ELSE content[u]]
  BY DEF WriteDoes
<1>6. content' \in [Units -> Nat]
  BY <1>2, <1>4, <1>5 DEF DeviceTypes
<1>7. seen' = [i \in Irps |-> [u \in Units |->
                   IF irp[i].disp # "new" /\ irp[i].done = 0
                   THEN seen[i][u] \cup {content'[u]} ELSE seen[i][u]]]
  BY DEF WriteDoes
<1>8. ASSUME NEW i \in Irps, NEW u \in Units
      PROVE  /\ seen'[i][u] = IF irp[i].disp # "new" /\ irp[i].done = 0
                              THEN seen[i][u] \cup {content'[u]} ELSE seen[i][u]
             /\ seen'[i][u] \in SUBSET Nat
  <2>1. seen'[i][u] = IF irp[i].disp # "new" /\ irp[i].done = 0
                      THEN seen[i][u] \cup {content'[u]} ELSE seen[i][u]
    BY <1>7
  <2>2. content'[u] \in Nat /\ seen[i][u] \in SUBSET Nat
    BY <1>2, <1>6 DEF DeviceTypes
  <2> QED BY <2>1, <2>2
<1>9. seen' \in [Irps -> [Units -> SUBSET Nat]]
  <2> DEFINE F(i, u) == IF irp[i].disp # "new" /\ irp[i].done = 0
                        THEN seen[i][u] \cup {content'[u]} ELSE seen[i][u]
  <2>1. seen' = [i \in Irps |-> [u \in Units |-> F(i, u)]]
    BY <1>7
  <2>2. \A i \in Irps, u \in Units : F(i, u) \in SUBSET Nat
    BY <1>8
  <2> HIDE DEF F
  <2> QED BY <2>1, <2>2
<1>10. DeviceTypes'
  BY <1>2, <1>3, <1>6, <1>9 DEF DeviceTypes, WriteDoes
<1>11. DeviceOk'
  <2> SUFFICES ASSUME NEW u \in Units, ~Target(u)
               PROVE  disk'[DeviceUnit(u, e)] = Encoded(u, content'[u], e)
    BY <1>1, <1>3 DEF DeviceOk, Target
  <2>1. disk'[DeviceUnit(u, e)] =
             IF u \in W THEN Encoded(u, q.irp, e) ELSE disk[DeviceUnit(u, e)]
    BY DEF WriteDoes
  <2>2. content'[u] = IF u \in W THEN q.irp ELSE content[u]
    BY <1>5
  <2>3. disk[DeviceUnit(u, e)] = Encoded(u, content[u], e)
    BY <1>1, <1>2 DEF DeviceOk
  <2> HIDE DEF e
  <2> QED BY <2>1, <2>2, <2>3
<1>12. IntactOk'
  <2> SUFFICES ASSUME NEW u \in Units \cap Intact PROVE content'[u] = 0
    BY DEF IntactOk
  <2>1. u \notin W
    <3> SUFFICES ASSUME u \in W PROVE FALSE
      OBVIOUS
    <3> DEFINE r == irp[q.irp].req
    <3>1. PICK k \in 1 .. q.len : u = q.off + k - 1
      BY DEF WriteDoes
    <3>2. /\ Placed(q, r) /\ q.off \in Nat /\ q.len \in Nat /\ q.pos \in Nat
          /\ (HostOffset(r) .. HostOffset(r) + r.len - 1) \cap Intact = {}
      BY <1>1 DEF FragmentOk, Allowed, Fragments
    <3>3. HostOffset(r) \in Nat /\ r.len \in Nat
      BY <1>1, <1>2, RequestNumbers
    <3> HIDE DEF r, q
    <3>4. u \in HostOffset(r) .. HostOffset(r) + r.len - 1
      BY <3>1, <3>2, <3>3 DEF Placed
    <3> QED BY <3>2, <3>4
  <2> QED BY <1>2, <1>5, <2>1 DEF IntactOk
<1>13. SeenOk'
  <2> SUFFICES ASSUME NEW i \in Irps, irp'[i].disp # "new", irp'[i].done = 0, NEW u \in Units
               PROVE  content'[u] \in seen'[i][u]
    BY DEF SeenOk
  <2>1. irp'[i].disp = irp[i].disp /\ irp'[i].done = irp[i].done
    BY <1>1, <1>2 DEF WriteDoes, IrpTypes, IrpFields
  <2> QED BY <1>8, <2>1
<1>14. SeenGrows
  BY <1>8 DEF SeenGrows
<1> QED BY <1>10, <1>11, <1>12, <1>13, <1>14

\* A write of a fragment.
LEMMA IoWriteData ==
    ASSUME QueueInv, DataInv, IoWrite
    PROVE  DataInv'
<1>1. PICK W, st : WriteDoes(io.req, W, st)
  BY WriteEffect
<1>2. /\ io.pc = "access" /\ irp[io.req.irp].req.op = "write" /\ Success(io.req.irp) /\ IoGoTo("accessed")
      /\ UNCHANGED <<ioRest, countVars, IoThreadQueue, CompletionThreadQueue, event, bufVars,
                     aheadVars, removeLock>>
  BY Zenon DEF IoWrite
<1>3. /\ UNCHANGED <<holder, EncryptedAreaEnd>>
      /\ UNCHANGED <<main, completion>> /\ UNCHANGED <<IoThreadQueue, CompletionThreadQueue>>
      /\ UNCHANGED <<readAhead, lastRead, fragment>>
  BY <1>2 DEF ioRest, bufVars, aheadVars
<1>4. IrpTypes /\ io \in [pc : IoPcs, req : Fragments]
  BY DEF QueueInv, ShapeInv, ThreadTypes
<1>5. io'.pc = "accessed" /\ io'.req = io.req
  BY <1>2, <1>4 DEF IoGoTo
<1>6. /\ DeviceTypes' /\ DeviceOk' /\ IntactOk' /\ SeenOk' /\ SeenGrows
  BY <1>1, <1>2, <1>3, WriteDevice
<1>7. io.req.irp \in Irps
  BY <1>2, AccessFacts
<1>8. SameData /\ SamePending
  <2>1. st \in Statuses \ {"pending"} /\ irp' = [irp EXCEPT ![io.req.irp].status = st]
    BY <1>1 DEF WriteDoes, Statuses
  <2>2. irp[io.req.irp].status = "ok"
    BY <1>2 DEF Success
  <2> QED BY <1>4, <1>7, <2>1, <2>2, IrpsStay
<1>9. /\ AheadOk /\ BuffersOk /\ RawOk /\ ReadsOk /\ Pieces /\ DeviceTypes
      /\ \A q \in Pipe : FragmentOk(q)
  BY DEF DataInv, FragmentsOk
<1>10. /\ Filled \subseteq Pipe /\ Fetched \subseteq Sent /\ Sent \subseteq Pipe
       /\ \A q \in Pipe : q.irp \in Irps /\ q \in Fragments
       /\ \A q \in Sent : irp[q.irp].status # "pending"
  BY <1>9, PipeFacts
<1>11. IoBusy /\ IoBusy'
  BY <1>2, <1>5 DEF IoBusy
<1>12. Sent' = Sent
  BY <1>3, <1>5, <1>11 DEF Sent, If, Entries
<1>13. Pipe' = Pipe
  BY <1>3, <1>12 DEF Pipe, If
<1>14. Fetched' \subseteq Fetched
  BY <1>3, <1>5 DEF Fetched, If, Entries
<1>15. Filled' \subseteq Filled
  BY <1>3, <1>5 DEF Filled, If, Entries
<1>16. \A j \in Irps : irp'[j].req = irp[j].req /\ irp'[j].data = irp[j].data
  BY <1>8 DEF SameData, SameRequests
<1>17. MainOk' /\ CheckOk' /\ SameCuts /\ (MainCuts' <=> MainCuts) /\ MainPos' = MainPos
  BY <1>3, <1>8, MainStill DEF SameData
<1>18. Pieces'
  BY <1>3, <1>5, <1>9, <1>11, <1>12, <1>17, PiecesKept
<1>19. FragmentsOk'
  <2>1. \A q \in Pipe : FragmentOk(q)'
    BY <1>3, <1>8, <1>9, <1>10, <1>16, PipeFragmentsKept DEF SameData
  <2> QED BY <1>13, <1>17, <2>1 DEF FragmentsOk
<1>20. irp'[io.req.irp].req.op = "write"
  BY <1>2, <1>7, <1>16
<1>21. AheadOk'
  <2>1. Overwriting' /\ Holding' = Holding
    BY <1>3, <1>5, <1>20 DEF Overwriting, Holding
  <2>2. lastRead' \in [off : Nat, len : Nat] /\ (Holding' => ~readAhead'.valid)
    BY <1>3, <1>9, <2>1 DEF AheadOk
  <2> QED BY <2>1, <2>2, Zenon DEF AheadOk
<1>22. BuffersOk'
  <2>1. /\ \A b \in Buffers : fragment'[b] \in Seq(Cells)
        /\ DOMAIN fragment' = Buffers
    BY <1>3, <1>9, Zenon DEF BuffersOk
  <2>2. ASSUME NEW q \in Filled', irp'[q.irp].req.op = "write" PROVE fragment'[q.buf] = BufferOf(q)
    <3>1. q \in Filled /\ irp'[q.irp].req = irp[q.irp].req
      BY <1>10, <1>15, <1>16
    <3> QED BY <1>3, <1>9, <2>2, <3>1 DEF BuffersOk
  <2>3. irp'[io'.req.irp].req.op # "read"
    BY <1>5, <1>20
  <2> QED BY <2>1, <2>2, <2>3, Zenon DEF BuffersOk
<1>23. RawOk'
  <2>1. \A q \in Fetched : /\ q.irp \in Irps /\ irp[q.irp].status # "pending"
                           /\ \A k \in 1 .. q.len : q.off + k - 1 \in Units
    BY <1>4, <1>9, <1>10, FragmentUnits
  <2> QED BY <1>6, <1>8, <1>9, <1>14, <2>1, RawGrown
<1>24. ReadsOk'
  <2> SUFFICES ASSUME NEW i \in Irps PROVE ReadOk(i)'
    BY DEF ReadsOk
  <2>1. SameFetching(i)
    BY <1>13, <1>17, FetchingKept
  <2> QED BY <1>6, <1>8, <1>9, <2>1, ReadGrown DEF ReadsOk
<1> QED BY <1>6, <1>17, <1>18, <1>19, <1>21, <1>22, <1>23, <1>24 DEF DataInv

\* What a read does: unless it fails, every cell is what its unit is stored as.
ReadDoes(q, cells, st) ==
    /\ fragment' = [fragment EXCEPT ![q.buf] = cells] /\ cells \in Seq(Cells)
    /\ st = "ok" => \A k \in 1 .. q.len : RawCell(q, k, cells[k])
    /\ st \in {"ok", "failed"} /\ irp' = [irp EXCEPT ![q.irp].status = st]
    /\ lastRead' \in [off : Nat, len : Nat]

\* The length of a function on 1 .. n.
LEMMA FunctionLen ==
    ASSUME NEW S, NEW n \in Nat, NEW f \in [1 .. n -> S]
    PROVE  Len(f) = n
<1>1. f \in Seq(S)
  OBVIOUS
<1>2. DOMAIN f = 1 .. Len(f) /\ Len(f) \in Nat
  BY <1>1
<1>3. DOMAIN f = 1 .. n
  OBVIOUS
<1> QED BY <1>2, <1>3

\* A read that is not split into several parts, or whose parts do not fail, succeeds in all.
LEMMA ReadSucceeds ==
    ASSUME RemapIsPlain, NEW q, NEW ok \in Outcomes(q), StatusOf(ok) = "ok",
           Len(Parts(q)) \in Nat \ {0}, DOMAIN Parts(q) = 1 .. Len(Parts(q)),
           ~Remap => Len(Parts(q)) = 1
    PROVE  \A p \in DOMAIN Parts(q) : ok[p]
<1>1. /\ ok \in [1 .. Len(Parts(q)) -> BOOLEAN]
      /\ \A p \in DOMAIN ok : ~ok[p] => Faults
  BY DEF Outcomes
<1>2. CASE Remap
  BY <1>1, <1>2 DEF RemapIsPlain
<1>3. CASE ~Remap
  <2>1. Len(ok) = Len(Parts(q))
    BY <1>1, FunctionLen
  <2>2. Len(ok) = 1
    BY <1>3, <2>1
  <2>3. ok[1]
    BY <2>2 DEF StatusOf
  <2>4. DOMAIN Parts(q) = 1 .. 1
    BY <1>3
  <2>5. ASSUME NEW p \in 1 .. 1 PROVE p = 1
    OBVIOUS
  <2> QED BY <2>3, <2>4, <2>5, Zenon
<1> QED BY <1>2, <1>3

\* The cell that a read delivers for a unit: from the device or from the read-ahead buffer.
LEMMA CellRead ==
    ASSUME QueueInv, DataInv, io.pc = "access", NEW p \in DOMAIN Parts(io.req),
           NEW k \in PartUnits(Parts(io.req)[p])
    PROVE  LET a == Parts(io.req)[p]
               cell == disk[a.dev + k - a.k]
           IN  /\ cell \in Cells
               /\ Cached(a) => readAhead.data[k - a.k + 1] = cell
               /\ irp[io.req.irp].req.op = "read" => RawCell(io.req, k, cell)
<1> DEFINE q == io.req
           a == Parts(q)[p]
           e == EncryptedAreaEnd
           u == q.off + k - 1
           d == DeviceUnit(u, e)
           m == k - a.k + 1
<1>1. /\ FragmentOk(q) /\ q.irp \in Irps /\ q \in Fragments /\ Live(q.irp)
      /\ AreaNow = e /\ e \in AreaEnds /\ (Remap => e = InitialEnd)
  BY AccessFacts
<1>2. DeviceTypes /\ DeviceOk /\ SeenOk /\ AheadOk /\ IrpTypes
  BY DEF DataInv, QueueInv, ShapeInv
<1>3. /\ k \in 1 .. q.len /\ a.dev + k - a.k = d /\ m \in 1 .. a.n
      /\ d = a.dev + m - 1
  BY <1>1, <1>2, UnitPlace
<1>4. /\ u \in Units /\ ~Target(u) /\ \A v : Encoded(u, v, e) = Stored(q, u, v)
  BY <1>1, <1>2, <1>3, FragmentUnits
<1>5. d \in Units
  BY <1>1, <1>4, PlaceOnDevice
<1>6. disk[d] \in Cells
  BY <1>2, <1>5 DEF DeviceTypes
<1>7. Cached(a) => readAhead.data[m] = disk[d]
  <2> SUFFICES ASSUME Cached(a) PROVE readAhead.data[m] = disk[d]
    OBVIOUS
  <2>1. readAhead.valid /\ readAhead.off = a.dev /\ readAhead.len >= a.n
    BY DEF Cached
  <2>2. /\ readAhead.off \in Nat /\ readAhead.len \in Nat
        /\ \A n \in 1 .. readAhead.len : readAhead.data[n] = disk[readAhead.off + n - 1]
    BY <1>2, <2>1 DEF AheadOk, Overwriting
  <2>3. a.n \in Nat \ {0}
    <3>1. q.off \in Nat /\ q.len \in Nat \ {0} /\ (Remap => q.enc = Intersection(q.off, q.len, e))
      <4>1. Remap => IsFilterDevice
        BY LayoutAssumption DEF LayoutAssumption
      <4> QED BY <1>1, <4>1 DEF FragmentOk, Fragments, Placed, Covered
    <3> QED BY <1>1, <3>1, PartsFacts DEF PartOk
  <2> HIDE DEF m, a, d
  <2>4. m \in 1 .. readAhead.len
    BY <1>3, <2>1, <2>2, <2>3
  <2> QED BY <1>3, <2>1, <2>2, <2>4
<1>8. disk[d] = Stored(q, u, content[u])
  BY <1>1, <1>2, <1>4 DEF DeviceOk
<1>9. irp[q.irp].req.op = "read" => content[u] \in seen[q.irp][u]
  BY <1>1, <1>2, <1>4 DEF SeenOk, Live, Accepted
<1>10. irp[q.irp].req.op = "read" => RawCell(q, k, disk[d])
  BY <1>8, <1>9, SMTT(60) DEF RawCell
<1> QED BY <1>3, <1>6, <1>7, <1>10

\* The effect of IoRead, whichever of its accesses fail.
LEMMA ReadEffect ==
    ASSUME QueueInv, DataInv, RemapIsPlain, IoRead
    PROVE  \E cells, st : ReadDoes(io.req, cells, st)
<1> DEFINE q == io.req
           parts == Parts(q)
           Cell(k, ok) ==
               LET p == CHOOSE p \in DOMAIN parts : k \in PartUnits(parts[p])
               IN  IF Cached(parts[p]) THEN readAhead.data[k - parts[p].k + 1]
                   ELSE IF ok[p] THEN disk[parts[p].dev + k - parts[p].k] ELSE Garbage
<1>1. /\ io.pc = "access" /\ irp[q.irp].req.op = "read"
      /\ \E ok \in Outcomes(q) :
            /\ fragment' = [fragment EXCEPT ![q.buf] = [k \in 1 .. q.len |-> Cell(k, ok)]]
            /\ irp' = [irp EXCEPT ![q.irp].status = StatusOf(ok)]
      /\ lastRead' = [off |-> parts[Len(parts)].dev, len |-> parts[Len(parts)].n]
  BY ZenonT(60) DEF IoRead
<1>2. PICK ok \in Outcomes(q) :
            /\ fragment' = [fragment EXCEPT ![q.buf] = [k \in 1 .. q.len |-> Cell(k, ok)]]
            /\ irp' = [irp EXCEPT ![q.irp].status = StatusOf(ok)]
  BY <1>1, Zenon
<1>3. /\ FragmentOk(q) /\ q.irp \in Irps /\ q \in Fragments
      /\ EncryptedAreaEnd \in AreaEnds
  BY <1>1, AccessFacts
<1>4. q.off \in Nat /\ q.len \in Nat \ {0} /\ (Remap => q.enc = Intersection(q.off, q.len, EncryptedAreaEnd))
  <2>1. Remap => IsFilterDevice
    BY LayoutAssumption DEF LayoutAssumption
  <2> QED BY <1>3, <2>1 DEF FragmentOk, Fragments, Placed, Covered
<1>5. /\ Len(parts) \in Nat \ {0} /\ DOMAIN parts = 1 .. Len(parts)
      /\ \A p \in DOMAIN parts : PartOk(parts[p], q, EncryptedAreaEnd)
      /\ \A k \in 1 .. q.len : \E p \in DOMAIN parts : k \in PartUnits(parts[p])
      /\ ~Remap => Len(parts) = 1
  BY <1>3, <1>4, PartsFacts, SMTT(60)
<1>6. lastRead' \in [off : Nat, len : Nat]
  <2>1. Len(parts) \in DOMAIN parts
    <3> HIDE DEF parts
    <3> QED BY <1>5
  <2>2. parts[Len(parts)].dev \in Nat /\ parts[Len(parts)].n \in Nat
    BY <1>5, <2>1 DEF PartOk
  <2> QED BY <1>1, <2>2
<1>7. ASSUME NEW k \in 1 .. q.len
      PROVE  \E p \in DOMAIN parts, cell \in Cells :
                /\ RawCell(q, k, cell)
                /\ Cell(k, ok) = cell \/ (~ok[p] /\ Cell(k, ok) = Garbage)
  <2> DEFINE p == CHOOSE p \in DOMAIN parts : k \in PartUnits(parts[p])
             a == parts[p]
             cell == disk[a.dev + k - a.k]
  <2>1. p \in DOMAIN parts /\ k \in PartUnits(parts[p])
    BY <1>5, Zenon
  <2>2. Cell(k, ok) = IF Cached(a) THEN readAhead.data[k - a.k + 1]
                      ELSE IF ok[p] THEN cell ELSE Garbage
    BY Zenon
  <2> HIDE DEF p
  <2>3. cell \in Cells /\ (Cached(a) => readAhead.data[k - a.k + 1] = cell) /\ RawCell(q, k, cell)
    BY <1>1, <2>1, CellRead
  <2> HIDE DEF cell, a, Cell
  <2>4. Cell(k, ok) = cell \/ (~ok[p] /\ Cell(k, ok) = Garbage)
    BY <2>2, <2>3
  <2> QED BY <2>1, <2>3, <2>4
<1> DEFINE cells == [k \in 1 .. q.len |-> Cell(k, ok)]
<1>8. cells \in Seq(Cells)
  <2>1. Garbage \in Cells
    BY DEF Garbage, Cells
  <2>2. ASSUME NEW k \in 1 .. q.len PROVE Cell(k, ok) \in Cells
    <3> HIDE DEF Cell
    <3> QED BY <1>7, <2>1
  <2> HIDE DEF Cell
  <2>3. cells \in [1 .. q.len -> Cells]
    BY <2>2
  <2> HIDE DEF cells
  <2> QED BY <1>4, <2>3
<1>9. ASSUME StatusOf(ok) = "ok", NEW k \in 1 .. q.len PROVE RawCell(q, k, cells[k])
  <2>1. \A p \in DOMAIN parts : ok[p]
    BY <1>5, <1>9, ReadSucceeds
  <2> HIDE DEF Cell, parts
  <2>2. cells[k] = Cell(k, ok)
    OBVIOUS
  <2> QED BY <1>7, <2>1, <2>2
<1>10. StatusOf(ok) \in {"ok", "failed"}
  BY DEF StatusOf
<1>11. ReadDoes(q, cells, StatusOf(ok))
  <2>1. fragment' = [fragment EXCEPT ![q.buf] = cells] /\ irp' = [irp EXCEPT ![q.irp].status = StatusOf(ok)]
    BY <1>2
  <2> HIDE DEF cells, q
  <2> QED BY <1>6, <1>8, <1>9, <1>10, <2>1, Zenon DEF ReadDoes
<1> QED BY <1>11

\* A read of a fragment.
LEMMA IoReadData ==
    ASSUME QueueInv, BufferInv, DataInv, RemapIsPlain, IoRead
    PROVE  DataInv'
<1> DEFINE q0 == io.req
<1>1. PICK cells, st : ReadDoes(q0, cells, st)
  BY ReadEffect
<1>2. /\ io.pc = "access" /\ irp[q0.irp].req.op = "read" /\ Success(q0.irp) /\ IoGoTo("accessed")
      /\ UNCHANGED <<ioRest, countVars, IoThreadQueue, CompletionThreadQueue, event, freeItems,
                     freeRequests, readAhead, disk, content, seen, removeLock>>
  BY Zenon DEF IoRead
<1>3. /\ UNCHANGED <<holder, EncryptedAreaEnd, disk, content, seen, readAhead>>
      /\ UNCHANGED <<main, completion>> /\ UNCHANGED <<IoThreadQueue, CompletionThreadQueue>>
  BY <1>2 DEF ioRest
<1>4. IrpTypes /\ io \in [pc : IoPcs, req : Fragments]
  BY DEF QueueInv, ShapeInv, ThreadTypes
<1>5. io'.pc = "accessed" /\ io'.req = q0
  BY <1>2, <1>4 DEF IoGoTo
<1>6. q0.irp \in Irps /\ q0.buf \in Buffers
  BY <1>2, <1>4, AccessFacts DEF Fragments, Buffers
<1>7. SameData /\ SamePending
  <2>1. st \in Statuses \ {"pending"} /\ irp' = [irp EXCEPT ![q0.irp].status = st]
    BY <1>1 DEF ReadDoes, Statuses
  <2>2. irp[q0.irp].status = "ok"
    BY <1>2 DEF Success
  <2> QED BY <1>4, <1>6, <2>1, <2>2, IrpsStay
<1>8. SameDevice
  BY <1>3, StillDevice DEF DataInv
<1>9. /\ AheadOk /\ BuffersOk /\ RawOk /\ Pieces /\ \A q \in Pipe : FragmentOk(q)
  BY DEF DataInv, FragmentsOk
<1>10. /\ Filled \subseteq Pipe /\ Fetched \subseteq Sent /\ Sent \subseteq Pipe
       /\ \A q \in Pipe : q.irp \in Irps /\ q \in Fragments
       /\ \A q \in Sent : irp[q.irp].status # "pending"
  BY <1>9, PipeFacts
<1>11. IoBusy /\ IoBusy'
  BY <1>2, <1>5 DEF IoBusy
<1>12. Sent' = Sent
  BY <1>3, <1>5, <1>11 DEF Sent, If, Entries
<1>13. Pipe' = Pipe
  BY <1>3, <1>12 DEF Pipe, If
<1>14. Fetched' \subseteq Fetched
  BY <1>3, <1>5 DEF Fetched, If, Entries
<1>15. \A j \in Irps : irp'[j].req = irp[j].req /\ irp'[j].data = irp[j].data
  BY <1>7 DEF SameData, SameRequests
<1>16. MainOk' /\ CheckOk' /\ SameCuts /\ (MainCuts' <=> MainCuts) /\ MainPos' = MainPos
  BY <1>3, <1>7, MainStill DEF SameData
<1>17. Pieces'
  BY <1>3, <1>5, <1>9, <1>11, <1>12, <1>16, PiecesKept
<1>18. AheadOk'
  <2>1. ~Overwriting /\ ~Overwriting' /\ Holding' = Holding
    BY <1>2, <1>3, <1>5, <1>6, <1>15 DEF Overwriting, Holding
  <2>2. lastRead' \in [off : Nat, len : Nat] /\ (Holding' => ~readAhead'.valid)
    BY <1>1, <1>3, <1>9, <2>1 DEF AheadOk, ReadDoes
  <2>3. readAhead'.valid =>
          /\ readAhead'.off \in Nat /\ readAhead'.len \in Nat
          /\ \A k \in 1 .. readAhead'.len : /\ readAhead'.off + k - 1 \in Units
                                            /\ readAhead'.data[k] = disk'[readAhead'.off + k - 1]
    BY <1>3, <1>9, <2>1, Zenon DEF AheadOk
  <2> QED BY <2>1, <2>2, <2>3, Zenon DEF AheadOk
<1>19. BuffersOk'
  <2>1. fragment' = [fragment EXCEPT ![q0.buf] = cells] /\ cells \in Seq(Cells)
    BY <1>1 DEF ReadDoes
  <2>2. DOMAIN fragment = Buffers /\ \A b \in Buffers : fragment[b] \in Seq(Cells)
    BY <1>9 DEF BuffersOk
  <2>3. DOMAIN fragment' = Buffers /\ \A b \in Buffers : fragment'[b] = IF b = q0.buf THEN cells ELSE fragment[b]
    BY <2>1, <2>2
  <2>4. \A b \in Buffers : fragment'[b] \in Seq(Cells)
    BY <2>1, <2>2, <2>3
  <2>5. ASSUME NEW q \in Filled', irp'[q.irp].req.op = "write" PROVE fragment'[q.buf] = BufferOf(q)
    <3>1. \/ main.pc = "enqueue" /\ q = main.req
          \/ q \in Entries(IoThreadQueue)
      BY <1>3, <1>5 DEF Filled, If, Entries
    <3>2. q.buf # q0.buf
      BY <1>2, <3>1 DEF BufferInv, BuffersApart, MainUses, IoUses, Entries
    <3>3. q \in Filled
      BY <3>1 DEF Filled, If
    <3>4. q.buf \in Buffers /\ q.irp \in Irps
      BY <1>10, <3>3 DEF Fragments, Buffers
    <3>5. fragment[q.buf] = BufferOf(q)
      BY <1>9, <1>15, <2>5, <3>3, <3>4 DEF BuffersOk
    <3> QED BY <2>3, <3>2, <3>4, <3>5
  <2>6. ASSUME irp'[q0.irp].status = "ok", NEW k \in 1 .. q0.len
        PROVE  RawCell(io.req, k, fragment[io.req.buf][k])'
    <3>1. st = "ok"
      BY <1>1, <1>4, <1>6, <2>6 DEF ReadDoes, IrpTypes, IrpFields
    <3>2. RawCell(q0, k, cells[k])
      BY <1>1, <3>1 DEF ReadDoes
    <3>3. fragment'[q0.buf] = cells
      BY <1>6, <2>3
    <3>4. \E v \in seen'[q0.irp][q0.off + k - 1] : fragment'[q0.buf][k] = Stored(q0, q0.off + k - 1, v)
      BY <1>3, <3>2, <3>3 DEF RawCell
    <3> QED BY <1>5, <3>4, Zenon DEF RawCell, Stored
  <2> QED BY <1>5, <2>3, <2>4, <2>5, <2>6, Zenon DEF BuffersOk, Success
<1>20. RawOk'
  <2>1. \A q \in Fetched : /\ q.irp \in Irps /\ irp[q.irp].status # "pending"
                           /\ irp'[q.irp].data = irp[q.irp].data
    BY <1>10, <1>15
  <2> QED BY <1>3, <1>7, <1>9, <1>14, <2>1, RawKept DEF SameData
<1>21. \A i \in Irps : SameFetching(i)
  BY <1>13, <1>16, FetchingKept
<1> QED BY <1>7, <1>8, <1>13, <1>16, <1>17, <1>18, <1>19, <1>20, <1>21, DataKept

\* The steps of the I/O thread preserve the invariant.
LEMMA IoData ==
    ASSUME QueueInv, BufferInv, DataInv, RemapIsPlain, IoThread
    PROVE  DataInv'
<1>1. CASE \/ IoWait \/ IoSkip \/ IoSignalCompletion \/ IoReadAheadDone \/ IoComplete \/ IoSignalIdle
           \/ IoReleaseItem \/ IoReleaseRequest \/ (IoDequeue /\ IoThreadQueue = <<>>)
  BY <1>1, IoControlData
<1>2. CASE IoDequeue /\ IoThreadQueue # <<>>
  BY <1>2, IoDequeueData
<1>3. CASE IoWrite
  BY <1>3, IoWriteData
<1>4. CASE IoRead
  BY <1>4, IoReadData
<1>5. CASE IoAfterWrite
  BY <1>5, IoAfterWriteData
<1>6. CASE IoAfterRead
  BY <1>6, IoAfterReadData
<1>7. CASE IoHandOver
  BY <1>7, IoHandOverData
<1>8. CASE IoReadAhead
  BY <1>8, IoReadAheadData
<1> QED BY <1>1, <1>2, <1>3, <1>4, <1>5, <1>6, <1>7, <1>8 DEF IoThread

-----------------------------------------------------------------------------
(***************************************************************************)
(* The other steps: of the dispatch routines, the set-up thread and the    *)
(* thread that stops the queue.                                            *)
(***************************************************************************)
ThreadsSame == UNCHANGED <<main, io, completion, IoThreadQueue, CompletionThreadQueue>>

\* Where the threads and the queues stay, so do the fragments.
LEMMA StillFragments ==
    ASSUME ThreadsSame
    PROVE  /\ Sent' = Sent /\ Pipe' = Pipe /\ Fetched' = Fetched /\ Filled' = Filled
           /\ IoBusy' = IoBusy /\ SameAccess /\ SameCuts /\ MainCuts' = MainCuts /\ MainPos' = MainPos
<1>1. UNCHANGED main /\ UNCHANGED io /\ UNCHANGED completion
      /\ UNCHANGED IoThreadQueue /\ UNCHANGED CompletionThreadQueue
  BY DEF ThreadsSame
<1>2. IoBusy' = IoBusy /\ SameAccess
  BY <1>1 DEF IoBusy, SameAccess
<1>3. Sent' = Sent
  BY <1>1, <1>2, Zenon DEF Sent, If, Entries
<1>4. Pipe' = Pipe
  BY <1>1, <1>3, Zenon DEF Pipe, If
<1>5. Fetched' = Fetched
  BY <1>1, Zenon DEF Fetched, If, Entries
<1>6. Filled' = Filled
  BY <1>1, Zenon DEF Filled, If, Entries
<1>7. MainCuts' = MainCuts /\ MainPos' = MainPos
  BY <1>1 DEF MainCuts, MainPos
<1> QED BY <1>1, <1>2, <1>3, <1>4, <1>5, <1>6, <1>7 DEF SameCuts

\* A step outside the threads that leaves data and device alone.
LEMMA StillData ==
    ASSUME QueueInv, DataInv, ThreadsSame, UNCHANGED <<readAhead, lastRead, fragment>>,
           SameData, SamePending, SameDevice
    PROVE  DataInv'
<1>1. /\ Sent' = Sent /\ Pipe' = Pipe /\ Fetched' = Fetched /\ Filled' = Filled
      /\ IoBusy' = IoBusy /\ SameAccess /\ SameCuts /\ MainCuts' = MainCuts /\ MainPos' = MainPos
  BY StillFragments
<1>2. MainOk' /\ CheckOk'
  BY MainStill DEF SameData, ThreadsSame
<1>3. \A i \in Irps : SameFetching(i)
  BY <1>1, FetchingKept
<1>4. Pieces'
  BY <1>1, PiecesKept DEF DataInv, ThreadsSame
<1> QED BY <1>1, <1>2, <1>3, <1>4, QuietData

\* The dispatch of an IRP that was counted.
LEMMA DispatcherData ==
    ASSUME QueueInv, DataInv, NEW i \in Irps, Dispatcher(i)
    PROVE  DataInv'
<1>1. IrpTypes
  BY DEF QueueInv, ShapeInv
<1>2. UNCHANGED dispatchRest /\ UNCHANGED seen
  BY Zenon DEF Dispatcher, AddIrpCheck, AddIrpInsert, AddIrpSignal, AddIrpErr, AddIrpErrSignal
<1>3. /\ ThreadsSame /\ UNCHANGED <<readAhead, lastRead, fragment>>
      /\ UNCHANGED <<disk, content, seen, EncryptedAreaEnd, holder>>
  BY <1>2 DEF dispatchRest, bufVars, aheadVars, thrVars, ThreadsSame
<1>4. SameDevice
  BY <1>3, StillDevice DEF DataInv
<1>5. irp[i].disp # "new" /\ \E d : Dispatch(i, d)
  BY Zenon DEF Dispatcher, AddIrpCheck, AddIrpInsert, AddIrpSignal, AddIrpErr, AddIrpErrSignal
<1>6. SameData /\ SamePending
  <2>1. PICK d : irp' = [irp EXCEPT ![i].disp = d]
    BY <1>5 DEF Dispatch
  <2>2. \A j \in Irps : /\ irp'[j].req = irp[j].req /\ irp'[j].data = irp[j].data
                        /\ irp'[j].status = irp[j].status /\ irp'[j].done = irp[j].done
                        /\ (j # i => irp'[j].disp = irp[j].disp)
    BY <1>1, <2>1 DEF IrpTypes, IrpFields
  <2> QED BY <1>5, <2>2 DEF SameData, SameRequests, SamePending
<1> QED BY <1>3, <1>4, <1>6, StillData

\* The arrival of an IRP: it sees the units as they are.
LEMMA AddIrpData ==
    ASSUME QueueInv, DataInv, NEW i \in Irps, NEW req \in Requests, AddIrp(i, req)
    PROVE  DataInv'
<1>1. IrpTypes /\ Locks /\ Waiting /\ Stages
  BY DEF QueueInv, ShapeInv, PipeInv
<1>2. /\ irp[i].disp = "new"
      /\ irp' = [irp EXCEPT ![i].disp = "counted", ![i].req = req]
      /\ seen' = [seen EXCEPT ![i] = IF req.op = "other" THEN @ ELSE [u \in Units |-> {content[u]}]]
      /\ UNCHANGED dispatchRest
  BY DEF AddIrp
<1>3. /\ ThreadsSame /\ UNCHANGED <<readAhead, lastRead, fragment>>
      /\ UNCHANGED <<disk, content, EncryptedAreaEnd, holder>>
  BY <1>2 DEF dispatchRest, bufVars, aheadVars, thrVars, ThreadsSame
<1>4. /\ irp'[i].disp = "counted" /\ irp'[i].req = req /\ irp'[i].data = irp[i].data
      /\ irp'[i].status = irp[i].status /\ irp'[i].done = irp[i].done
      /\ \A j \in Irps \ {i} : irp'[j] = irp[j]
  BY <1>1, <1>2 DEF IrpTypes, IrpFields
<1>5. irp[i].status = "pending" /\ irp[i].done = 0 /\ ~Live(i)
  BY <1>1, <1>2 DEF Locks, Live, Accepted
<1>6. /\ DeviceTypes /\ DeviceOk /\ IntactOk /\ SeenOk /\ AheadOk /\ FragmentsOk /\ Pieces
      /\ BuffersOk /\ RawOk /\ ReadsOk /\ CheckOk
  BY DEF DataInv
<1>7. seen \in [Irps -> [Units -> SUBSET Nat]] /\ content \in [Units -> Nat]
  BY <1>6 DEF DeviceTypes
<1>8. /\ \A j \in Irps \ {i} : seen'[j] = seen[j]
      /\ seen'[i] = IF req.op = "other" THEN seen[i] ELSE [u \in Units |-> {content[u]}]
      /\ seen' \in [Irps -> [Units -> SUBSET Nat]]
  <2> DEFINE new == IF req.op = "other" THEN seen[i] ELSE [u \in Units |-> {content[u]}]
  <2>1. new \in [Units -> SUBSET Nat]
    BY <1>7
  <2>2. seen' = [seen EXCEPT ![i] = new]
    BY <1>2
  <2> HIDE DEF new
  <2>3. /\ \A j \in Irps \ {i} : seen'[j] = seen[j]
        /\ seen'[i] = new /\ seen' \in [Irps -> [Units -> SUBSET Nat]]
    BY <1>7, <2>1, <2>2
  <2> QED BY <2>3 DEF new
<1>9. AreaNow' = AreaNow /\ Holding' = Holding
  BY <1>3 DEF AreaNow, Holding, FirstPlain
<1>10. DeviceTypes' /\ DeviceOk' /\ IntactOk'
  <2>1. DeviceTypes'
    BY <1>3, <1>6, <1>8, <1>9 DEF DeviceTypes
  <2>2. DeviceOk'
    BY <1>3, <1>6, <1>9, Zenon DEF DeviceOk
  <2>3. IntactOk'
    BY <1>3, <1>6, Zenon DEF IntactOk
  <2> QED BY <2>1, <2>2, <2>3
<1>11. SeenOk'
  <2> SUFFICES ASSUME NEW j \in Irps, irp'[j].disp # "new", irp'[j].done = 0, irp'[j].req.op # "other",
                      NEW u \in Units
               PROVE  content'[u] \in seen'[j][u]
    BY DEF SeenOk
  <2>1. CASE j = i
    BY <1>3, <1>4, <1>8, <2>1
  <2>2. CASE j # i
    BY <1>3, <1>4, <1>6, <1>8, <2>2 DEF SeenOk
  <2> QED BY <2>1, <2>2
<1>12. /\ Sent' = Sent /\ Pipe' = Pipe /\ Fetched' = Fetched /\ Filled' = Filled
       /\ IoBusy' = IoBusy /\ SameAccess /\ SameCuts /\ MainCuts' = MainCuts /\ MainPos' = MainPos
  BY <1>3, StillFragments
<1>13. /\ \A q \in Sent : q.irp # i /\ q.irp \in Irps
       /\ MainHas => main.irp # i /\ main.irp \in Irps
       /\ \A q \in Pipe : q.irp # i /\ q.irp \in Irps
  <2>1. \A q \in Sent : Flowing(q)
    BY <1>6, PipeFacts DEF FragmentsOk
  <2>2. MainHas => main.irp # i /\ main.irp \in Irps
    BY <1>1, <1>5 DEF Waiting, MainOwns, Live
  <2>3. \A q \in Sent : q.irp # i /\ q.irp \in Irps
    BY <1>5, <2>1 DEF Flowing, Live
  <2>4. main.pc \in {"acquire", "enqueue"} => main.req.irp = main.irp /\ MainHas
    BY DEF QueueInv, ShapeInv, FragmentMade, MainMakes, MainHas
  <2>5. \A q \in Pipe : q.irp # i /\ q.irp \in Irps
    BY <2>2, <2>3, <2>4 DEF Pipe, If
  <2> QED BY <2>2, <2>3, <2>5
<1>14. /\ Filled \subseteq Pipe /\ Fetched \subseteq Pipe /\ (IoBusy => io.req \in Pipe)
  BY <1>6, PipeFacts DEF FragmentsOk
<1>15. AheadOk'
  <2>1. Overwriting' = Overwriting
    <3>1. io.pc = "accessed" => irp'[io.req.irp] = irp[io.req.irp]
      BY <1>4, <1>13, <1>14 DEF IoBusy
    <3> QED BY <1>3, <3>1 DEF Overwriting, ThreadsSame
  <2> QED BY <1>3, <1>6, <1>9, <2>1, AheadKept
<1>16. FragmentsOk'
  <2>1. ASSUME NEW q \in Pipe PROVE FragmentOk(q)'
    <3>1. irp'[q.irp] = irp[q.irp]
      BY <1>4, <1>13
    <3> QED BY <1>3, <1>6, <3>1, FragmentKept DEF FragmentsOk
  <2>2. MainOk'
    <3>1. MainCuts => irp'[main.irp] = irp[main.irp]
      BY <1>4, <1>13 DEF MainCuts, MainHas
    <3> QED BY <1>3, <1>6, <1>12, <3>1 DEF MainOk, FragmentsOk, ThreadsSame
  <2> QED BY <1>12, <2>1, <2>2 DEF FragmentsOk
<1>17. Pieces'
  BY <1>3, <1>6, <1>12, PiecesKept DEF ThreadsSame
<1>18. CheckOk'
  <2>1. main.pc = "check" => irp'[main.irp] = irp[main.irp]
    BY <1>4, <1>13 DEF MainHas, MainEarly
  <2> QED BY <1>3, <1>6, <2>1 DEF CheckOk, ThreadsSame
<1>19. ASSUME NEW q \in Pipe, NEW k, NEW cell
       PROVE  RawCell(q, k, cell) => \E v \in seen'[q.irp][q.off + k - 1] : cell = Stored(q, q.off + k - 1, v)
  BY <1>8, <1>13 DEF RawCell
<1>20. BuffersOk'
  <2>1. /\ \A b \in Buffers : fragment'[b] \in Seq(Cells)
        /\ DOMAIN fragment' = Buffers
    BY <1>3, <1>6, Zenon DEF BuffersOk
  <2>2. ASSUME NEW q \in Filled', irp'[q.irp].req.op = "write" PROVE fragment'[q.buf] = BufferOf(q)
    <3>1. q \in Filled /\ irp'[q.irp] = irp[q.irp]
      BY <1>4, <1>12, <1>13, <1>14
    <3> QED BY <1>3, <1>6, <2>2, <3>1 DEF BuffersOk
  <2>3. ASSUME (io.pc = "accessed" /\ irp[io.req.irp].req.op = "read" /\ Success(io.req.irp))',
               NEW k \in (1 .. io.req.len)'
        PROVE  RawCell(io.req, k, fragment[io.req.buf][k])'
    <3>1. UNCHANGED io /\ UNCHANGED fragment /\ io.pc = "accessed"
      BY <1>3, <2>3 DEF ThreadsSame
    <3>2. io.req \in Pipe /\ irp'[io.req.irp] = irp[io.req.irp]
      BY <1>4, <1>13, <1>14, <3>1 DEF IoBusy
    <3>3. irp[io.req.irp].req.op = "read" /\ Success(io.req.irp) /\ k \in 1 .. io.req.len
      BY <2>3, <3>1, <3>2 DEF Success
    <3>4. RawCell(io.req, k, fragment[io.req.buf][k])
      BY <1>6, <3>1, <3>3, Zenon DEF BuffersOk
    <3>5. \E v \in seen'[io.req.irp][io.req.off + k - 1] :
             fragment[io.req.buf][k] = Stored(io.req, io.req.off + k - 1, v)
      BY <1>19, <3>2, <3>4
    <3> QED BY <3>1, <3>5, Zenon DEF RawCell, Stored
  <2> QED BY <2>1, <2>2, <2>3, Zenon DEF BuffersOk
<1>21. RawOk'
  <2> SUFFICES ASSUME NEW q \in Fetched', Success(q.irp)', NEW k \in 1 .. q.len
               PROVE  RawCell(q, k, irp[q.irp].data[q.pos + k - 1])'
    BY DEF RawOk
  <2>1. q \in Fetched /\ q \in Pipe /\ irp'[q.irp] = irp[q.irp]
    BY <1>4, <1>12, <1>13, <1>14
  <2>2. RawCell(q, k, irp[q.irp].data[q.pos + k - 1])
    BY <1>6, <2>1 DEF RawOk, Success
  <2>3. \E v \in seen'[q.irp][q.off + k - 1] :
             irp[q.irp].data[q.pos + k - 1] = Stored(q, q.off + k - 1, v)
    BY <1>19, <2>1, <2>2
  <2> QED BY <2>1, <2>3, Zenon DEF RawCell, Stored
<1>22. ASSUME NEW j \in Irps PROVE ReadOk(j)'
  <2>1. CASE j = i
    <3>1. irp'[i].status = "pending" /\ DOMAIN irp'[i].data = {}
      BY <1>4, <1>5, <1>6 DEF ReadsOk, ReadOk
    <3> QED BY <2>1, <3>1 DEF ReadOk
  <2>2. CASE j # i
    <3>1. irp'[j] = irp[j] /\ seen'[j] = seen[j]
      BY <1>4, <1>8, <2>2
    <3>2. \A k \in DOMAIN irp[j].data : Fetching(j, k) => Fetching(j, k)'
      BY <1>12, FetchingKept DEF SameFetching
    <3>3. ASSUME NEW k PROVE UnitOf(j, k)' = UnitOf(j, k) /\ (GoodCell(j, k) => GoodCell(j, k)')
      BY <3>1 DEF UnitOf, GoodCell
    <3>4. ReadOk(j)
      BY <1>6 DEF ReadsOk
    <3> QED BY <3>1, <3>2, <3>3, <3>4, Zenon DEF ReadOk, Success
  <2> QED BY <2>1, <2>2
<1>23. ReadsOk'
  BY <1>22 DEF ReadsOk
<1> QED BY <1>10, <1>11, <1>15, <1>16, <1>17, <1>18, <1>20, <1>21, <1>23 DEF DataInv

\* The set-up thread before and after it holds the queue.
LEMMA HolderQuietData ==
    ASSUME QueueInv, DataInv,
           \/ HoldWhenIdle \/ HoldCheckIdle \/ HoldWait \/ HoldFails \/ HoldRecheck \/ HoldSuspend
           \/ HoldConfirm \/ HoldBackOut \/ ResumeFromHold \/ ResumeSignals
    PROVE  DataInv'
<1>1. IrpTypes /\ DeviceTypes /\ holder \in [pc : HolderPcs, holds : Nat]
  BY DEF QueueInv, ShapeInv, ThreadTypes, DataInv
<1>2. UNCHANGED holderRest /\ UNCHANGED <<readAhead, disk, EncryptedAreaEnd>>
  BY Zenon DEF HoldWhenIdle, HoldCheckIdle, HoldWait, HoldFails, HoldRecheck, HoldSuspend,
     HoldConfirm, HoldBackOut, ResumeFromHold, ResumeSignals
<1>3. /\ ThreadsSame /\ UNCHANGED <<readAhead, lastRead, fragment>> /\ UNCHANGED irp
      /\ UNCHANGED <<disk, content, seen, EncryptedAreaEnd>>
  BY <1>2 DEF holderRest, queueVars, bufVars, ThreadsSame
<1>4. /\ holder.pc \notin {"encrypted", "decrypted"}
      /\ holder'.pc \notin {"held", "encrypted", "decrypted", "moved"}
      /\ holder.pc = "idle" => IsFilterDevice /\ ~Remap
  BY <1>1 DEF HoldWhenIdle, HoldCheckIdle, HoldWait, HoldFails, HoldRecheck, HoldSuspend,
     HoldConfirm, HoldBackOut, ResumeFromHold, ResumeSignals, HolderGoTo
<1>5. AreaNow' = AreaNow /\ ~Holding'
  BY <1>3, <1>4 DEF AreaNow, Holding
<1>6. SameDevice
  BY <1>1, <1>3, <1>4, <1>5 DEF SameDevice, DeviceTypes
<1>7. SameData /\ SamePending
  BY <1>1, <1>3, IrpsStay
<1> QED BY <1>3, <1>6, <1>7, StillData

\* No fragment is on its way while the queue is held.
LEMMA HeldPipe ==
    ASSUME QueueInv, Held
    PROVE  Pipe = {} /\ Sent = {} /\ Filled = {} /\ Fetched = {} /\ ~IoBusy
<1>1. /\ IoThreadQueue = <<>> /\ CompletionThreadQueue = <<>> /\ ~IoHas /\ ~CompletionHas
      /\ MainHas => main.pc \in {"gate", "suspended"}
  BY DEF QueueInv, HoldInv, HeldQuiet
<1>2. Entries(IoThreadQueue) = {} /\ Entries(CompletionThreadQueue) = {}
  BY <1>1 DEF Entries
<1>3. ~IoBusy /\ completion.pc # "decrypt" /\ main.pc \notin {"acquire", "enqueue"}
  BY <1>1 DEF IoBusy, IoHas, CompletionHas, MainHas
<1>4. Sent = {} /\ Pipe = {}
  BY <1>2, <1>3 DEF Sent, Pipe, If
<1>5. Filled = {} /\ Fetched = {}
  BY <1>2, <1>3 DEF Filled, Fetched, If, IoBusy
<1> QED BY <1>3, <1>4, <1>5

\* Whatever happens to the device while the queue is held concerns only the device.
LEMMA HeldData ==
    ASSUME QueueInv, DataInv, Held, ThreadsSame,
           UNCHANGED <<irp, content, seen, fragment, lastRead>>,
           DeviceTypes', DeviceOk', ~readAhead'.valid
    PROVE  DataInv'
<1>1. Pipe = {} /\ Sent = {} /\ Filled = {} /\ Fetched = {} /\ ~IoBusy
  BY HeldPipe
<1>2. /\ Sent' = Sent /\ Pipe' = Pipe /\ Fetched' = Fetched /\ Filled' = Filled
      /\ IoBusy' = IoBusy /\ SameAccess /\ SameCuts /\ MainCuts' = MainCuts /\ MainPos' = MainPos
  BY StillFragments
<1>3. SameData /\ SamePending
  BY IrpsStay DEF QueueInv, ShapeInv
<1>4. MainOk' /\ CheckOk'
  BY <1>3, MainStill DEF SameData, ThreadsSame
<1>5. FragmentsOk'
  BY <1>1, <1>2, <1>4 DEF FragmentsOk
<1>6. Pieces'
  BY <1>1, <1>2, PiecesKept DEF DataInv, ThreadsSame
<1>7. IntactOk' /\ SeenOk'
  <2>1. IntactOk'
    BY Zenon DEF DataInv, IntactOk
  <2>2. SeenOk'
    BY <1>3, SeenKept DEF DataInv
  <2> QED BY <2>1, <2>2
<1>8. AheadOk'
  BY DEF DataInv, AheadOk
<1>9. BuffersOk'
  <2>1. io'.pc # "accessed"
    BY <1>1, <1>2 DEF IoBusy
  <2>2. /\ \A b \in Buffers : fragment'[b] \in Seq(Cells)
        /\ DOMAIN fragment' = Buffers
    BY Zenon DEF DataInv, BuffersOk
  <2> QED BY <1>1, <1>2, <2>1, <2>2 DEF BuffersOk
<1>10. RawOk'
  BY <1>1, <1>2 DEF RawOk
<1>11. ReadsOk'
  <2> SUFFICES ASSUME NEW i \in Irps PROVE ReadOk(i)'
    BY DEF ReadsOk
  <2>1. SameFetching(i)
    BY <1>2, FetchingKept
  <2> QED BY <1>3, <2>1, ReadKept DEF DataInv, ReadsOk, SameData
<1> QED BY <1>4, <1>5, <1>6, <1>7, <1>8, <1>9, <1>10, <1>11 DEF DataInv

\* The first plain unit behind the area, and where the area ends.
LEMMA AreaMoves ==
    ASSUME DeviceTypes
    PROVE  /\ FirstPlain \in Nat /\ AreaStart <= FirstPlain /\ ~InArea(FirstPlain, EncryptedAreaEnd)
           /\ FirstPlain <= AreaEnd =>
                 /\ FirstPlain \in Units /\ FirstPlain \in AreaEnds
                 /\ \A u \in Units : InArea(u, FirstPlain) <=> u = FirstPlain \/ InArea(u, EncryptedAreaEnd)
           /\ EncryptedAreaEnd >= AreaStart =>
                 /\ EncryptedAreaEnd \in Units /\ EncryptedAreaEnd - 1 \in AreaEnds
                 /\ \A u \in Units : InArea(u, EncryptedAreaEnd)
                                       <=> u = EncryptedAreaEnd \/ InArea(u, EncryptedAreaEnd - 1)
                 /\ ~InArea(EncryptedAreaEnd, EncryptedAreaEnd - 1)
<1> DEFINE e == EncryptedAreaEnd
<1>1. /\ AreaStart \in Nat /\ AreaEnd \in Nat /\ AreaEnd < DeviceUnits /\ DeviceUnits \in Nat
      /\ \A u \in Units : u \in Nat
  BY QueueAssumption DEF QueueAssumption, Units
<1>2. e \in Int /\ (e = -1 \/ (AreaStart - 1 <= e /\ e <= AreaEnd))
  BY <1>1 DEF DeviceTypes, AreaEnds
<1>3. FirstPlain = IF e = -1 THEN AreaStart ELSE e + 1
  BY DEF FirstPlain
<1> HIDE DEF e
<1>4. FirstPlain \in Nat /\ AreaStart <= FirstPlain /\ ~InArea(FirstPlain, e)
  BY <1>1, <1>2, <1>3 DEF InArea
<1>5. ASSUME FirstPlain <= AreaEnd PROVE FirstPlain \in Units /\ FirstPlain \in AreaEnds
  BY <1>1, <1>4, <1>5 DEF Units, AreaEnds
<1>6. ASSUME FirstPlain <= AreaEnd, NEW u \in Units
      PROVE  InArea(u, FirstPlain) <=> u = FirstPlain \/ InArea(u, e)
  BY <1>1, <1>2, <1>3, <1>4, <1>6 DEF InArea
<1>7. ASSUME e >= AreaStart PROVE e \in Units /\ e - 1 \in AreaEnds /\ ~InArea(e, e - 1)
  BY <1>1, <1>2, <1>7 DEF Units, AreaEnds, InArea
<1>8. ASSUME e >= AreaStart, NEW u \in Units
      PROVE  InArea(u, e) <=> u = e \/ InArea(u, e - 1)
  BY <1>1, <1>2, <1>8 DEF InArea
<1> QED BY <1>4, <1>5, <1>6, <1>7, <1>8 DEF e

\* A drive that is being set up is not remapped: units are encoded in place.
LEMMA EncodedInPlace ==
    ASSUME DeviceTypes, holder.pc # "idle", NEW u \in Units, NEW e \in AreaEnds
    PROVE  /\ DeviceUnit(u, e) = u /\ ~Target(u)
           /\ \A v : Encoded(u, v, e) = IF InArea(u, e) THEN [as |-> u + DataUnitOffset, v |-> v] ELSE Plain(v)
<1>1. u \in Nat
  BY QueueAssumption DEF QueueAssumption, Units
<1>2. IsFilterDevice /\ ~Remap
  BY DEF DeviceTypes
<1> QED BY <1>1, <1>2, AreaFacts DEF Target

\* While the queue is held, a block is encrypted or decrypted, then the end of the area moves.
LEMMA SetupData ==
    ASSUME QueueInv, DataInv,
           HoldReturns \/ SetupEncryptsBlock \/ SetupDecryptsBlock \/ SetupMovesEnd
    PROVE  DataInv'
<1> DEFINE e == EncryptedAreaEnd
<1>1. DeviceTypes /\ DeviceOk /\ AheadOk /\ holder \in [pc : HolderPcs, holds : Nat]
  BY DEF QueueInv, ShapeInv, ThreadTypes, DataInv
<1>2. UNCHANGED holderRest
  BY Zenon DEF HoldReturns, SetupEncryptsBlock, SetupDecryptsBlock, SetupMovesEnd
<1>3. ThreadsSame /\ UNCHANGED <<irp, content, seen, fragment, lastRead>>
  BY <1>2 DEF holderRest, queueVars, bufVars, ThreadsSame
<1>4. Held /\ holder.pc # "idle" /\ IsFilterDevice /\ ~Remap
  BY <1>1 DEF HoldReturns, SetupEncryptsBlock, SetupDecryptsBlock, SetupMovesEnd, Held, DeviceTypes
<1>5. ~readAhead'.valid
  <2>1. CASE HoldReturns
    BY <2>1 DEF HoldReturns, NoReadAhead
  <2>2. CASE SetupEncryptsBlock \/ SetupDecryptsBlock \/ SetupMovesEnd
    BY <1>1, <2>2 DEF SetupEncryptsBlock, SetupDecryptsBlock, SetupMovesEnd, AheadOk, Holding
  <2> QED BY <2>1, <2>2
<1>6. ASSUME AreaNow' \in AreaEnds, e' \in AreaEnds, disk' \in [Units -> Cells] PROVE DeviceTypes'
  BY <1>1, <1>3, <1>4, <1>6 DEF DeviceTypes
<1>7. ASSUME AreaNow' \in AreaEnds,
             \A u \in Units : disk'[u] = IF InArea(u, AreaNow') THEN [as |-> u + DataUnitOffset, v |-> content[u]]
                                          ELSE Plain(content[u])
      PROVE  DeviceOk'
  <2>1. \A u \in Units : DeviceUnit(u, AreaNow') = u
    BY <1>1, <1>4, <1>7, EncodedInPlace
  <2>2. \A u \in Units : Encoded(u, content[u], AreaNow') =
            IF InArea(u, AreaNow') THEN [as |-> u + DataUnitOffset, v |-> content[u]] ELSE Plain(content[u])
    BY <1>1, <1>4, <1>7, EncodedInPlace
  <2>3. ASSUME NEW u \in Units PROVE disk'[DeviceUnit(u, AreaNow')] = Encoded(u, content'[u], AreaNow')
    BY <1>3, <1>7, <2>1, <2>2
  <2> QED BY <2>3, Zenon DEF DeviceOk
<1>8. \A u \in Units : /\ disk[u] \in Cells /\ content[u] \in Nat
                       /\ disk[u] = IF InArea(u, AreaNow) THEN [as |-> u + DataUnitOffset, v |-> content[u]]
                                    ELSE Plain(content[u])
  <2> SUFFICES ASSUME NEW u \in Units
               PROVE  /\ disk[u] \in Cells /\ content[u] \in Nat
                      /\ disk[u] = IF InArea(u, AreaNow) THEN [as |-> u + DataUnitOffset, v |-> content[u]]
                                   ELSE Plain(content[u])
    OBVIOUS
  <2>1. AreaNow \in AreaEnds /\ disk[u] \in Cells /\ content[u] \in Nat
    BY <1>1 DEF DeviceTypes
  <2>2. DeviceUnit(u, AreaNow) = u /\ ~Target(u)
    BY <1>1, <1>4, <2>1, EncodedInPlace
  <2>3. disk[u] = Encoded(u, content[u], AreaNow)
    BY <1>1, <2>2 DEF DeviceOk
  <2>4. Encoded(u, content[u], AreaNow) =
            IF InArea(u, AreaNow) THEN [as |-> u + DataUnitOffset, v |-> content[u]] ELSE Plain(content[u])
    BY <1>1, <1>4, <2>1, EncodedInPlace
  <2> QED BY <2>1, <2>3, <2>4
<1>9. DataUnitOffset \in Nat /\ \A u \in Units : u \in Nat
  BY QueueAssumption DEF QueueAssumption, Units
<1>10. CASE HoldReturns \/ SetupMovesEnd
  <2>1. UNCHANGED disk /\ AreaNow' = AreaNow
    <3>1. CASE HoldReturns
      BY <1>1, <3>1 DEF HoldReturns, HolderGoTo, AreaNow
    <3>2. CASE SetupMovesEnd
      BY <1>1, <3>2 DEF SetupMovesEnd, HolderGoTo, AreaNow
    <3> QED BY <1>10, <3>1, <3>2
  <2>2. e' \in AreaEnds
    <3>1. CASE HoldReturns
      BY <1>1, <3>1 DEF HoldReturns, DeviceTypes
    <3>2. CASE SetupMovesEnd
      BY <1>1, <3>2 DEF SetupMovesEnd, DeviceTypes, AreaNow
    <3> QED BY <1>10, <3>1, <3>2
  <2>3. DeviceTypes'
    BY <1>1, <1>6, <2>1, <2>2 DEF DeviceTypes
  <2>4. DeviceOk'
    BY <1>1, <1>3, <2>1, Zenon DEF DeviceOk
  <2> QED BY <1>3, <1>4, <1>5, <2>3, <2>4, HeldData
<1>11. CASE SetupEncryptsBlock
  <2> DEFINE f == FirstPlain
  <2>1. /\ disk' = [disk EXCEPT ![f] = EncryptDataUnit(@, f + DataUnitOffset)]
        /\ f <= AreaEnd /\ UNCHANGED EncryptedAreaEnd /\ holder.pc = "held" /\ holder'.pc = "encrypted"
    BY <1>1, <1>11 DEF SetupEncryptsBlock, HolderGoTo
  <2>2. AreaNow' = f /\ AreaNow = e
    BY <2>1 DEF AreaNow, FirstPlain
  <2>3. /\ f \in Nat /\ f \in Units /\ f \in AreaEnds /\ ~InArea(f, e)
        /\ \A u \in Units : InArea(u, f) <=> u = f \/ InArea(u, e)
    BY <1>1, <2>1, AreaMoves
  <2> HIDE DEF f
  <2>4. disk[f] = Plain(content[f]) /\ content[f] \in Nat
    BY <1>8, <2>2, <2>3
  <2>5. EncryptDataUnit(disk[f], f + DataUnitOffset) = [as |-> f + DataUnitOffset, v |-> content[f]]
    BY <2>4 DEF EncryptDataUnit, Plain
  <2>6. /\ disk'[f] = [as |-> f + DataUnitOffset, v |-> content[f]]
        /\ \A u \in Units \ {f} : disk'[u] = disk[u]
        /\ DOMAIN disk' = Units /\ disk' = [u \in Units |-> disk'[u]]
    BY <1>1, <2>1, <2>3, <2>5 DEF DeviceTypes
  <2>7. disk' \in [Units -> Cells]
    <3>1. disk'[f] \in Cells
      BY <1>9, <2>3, <2>4, <2>6 DEF Cells
    <3> QED BY <1>8, <2>6, <3>1
  <2>8. DeviceTypes'
    BY <1>1, <1>6, <2>1, <2>2, <2>3, <2>7 DEF DeviceTypes
  <2>9. DeviceOk'
    <3>1. ASSUME NEW u \in Units
          PROVE  disk'[u] = IF InArea(u, f) THEN [as |-> u + DataUnitOffset, v |-> content[u]]
                            ELSE Plain(content[u])
      BY <1>8, <2>2, <2>3, <2>6
    <3> QED BY <1>7, <2>2, <2>3, <3>1
  <2> QED BY <1>3, <1>4, <1>5, <2>8, <2>9, HeldData
<1>12. CASE SetupDecryptsBlock
  <2>1. /\ disk' = [disk EXCEPT ![e] = DecryptDataUnit(@, e + DataUnitOffset)]
        /\ e >= AreaStart /\ UNCHANGED EncryptedAreaEnd /\ holder.pc = "held" /\ holder'.pc = "decrypted"
    BY <1>1, <1>12 DEF SetupDecryptsBlock, HolderGoTo
  <2>2. AreaNow' = e - 1 /\ AreaNow = e
    BY <2>1 DEF AreaNow
  <2>3. /\ e \in Units /\ e - 1 \in AreaEnds /\ ~InArea(e, e - 1)
        /\ \A u \in Units : InArea(u, e) <=> u = e \/ InArea(u, e - 1)
    BY <1>1, <2>1, AreaMoves
  <2>4. e' = e
    BY <2>1
  <2> HIDE DEF e
  <2>5. disk[e] = [as |-> e + DataUnitOffset, v |-> content[e]] /\ content[e] \in Nat
    BY <1>8, <2>2, <2>3
  <2>6. DecryptDataUnit(disk[e], e + DataUnitOffset) = Plain(content[e])
    BY <2>5 DEF DecryptDataUnit
  <2>7. /\ disk'[e] = Plain(content[e])
        /\ \A u \in Units \ {e} : disk'[u] = disk[u]
        /\ DOMAIN disk' = Units /\ disk' = [u \in Units |-> disk'[u]]
    BY <1>1, <2>1, <2>3, <2>6 DEF DeviceTypes
  <2>8. disk' \in [Units -> Cells]
    <3>1. disk'[e] \in Cells
      BY <2>5, <2>7 DEF Cells, Plain
    <3> QED BY <1>8, <2>7, <3>1
  <2>9. DeviceTypes'
    BY <1>1, <1>6, <2>2, <2>3, <2>4, <2>8 DEF DeviceTypes, e
  <2>10. DeviceOk'
    <3>1. ASSUME NEW u \in Units
          PROVE  disk'[u] = IF InArea(u, e - 1) THEN [as |-> u + DataUnitOffset, v |-> content[u]]
                            ELSE Plain(content[u])
      BY <1>8, <2>2, <2>3, <2>7
    <3> QED BY <1>7, <2>2, <2>3, <3>1
  <2> QED BY <1>3, <1>4, <1>5, <2>9, <2>10, HeldData
<1> QED BY <1>10, <1>11, <1>12

\* The steps of the set-up thread preserve the invariant.
LEMMA HolderData ==
    ASSUME QueueInv, DataInv, HoldWhenIdle \/ HolderStep
    PROVE  DataInv'
<1>1. CASE \/ HoldWhenIdle \/ HoldCheckIdle \/ HoldWait \/ HoldFails \/ HoldRecheck \/ HoldSuspend
           \/ HoldConfirm \/ HoldBackOut \/ ResumeFromHold \/ ResumeSignals
  BY <1>1, HolderQuietData
<1>2. CASE HoldReturns \/ SetupEncryptsBlock \/ SetupDecryptsBlock \/ SetupMovesEnd
  BY <1>2, SetupData
<1> QED BY <1>1, <1>2 DEF HolderStep

\* The thread that stops the queue leaves the data alone, as does stuttering.
LEMMA StopperData ==
    ASSUME QueueInv, DataInv, RemoveDevice \/ StopperStep \/ UNCHANGED vars
    PROVE  DataInv'
<1>1. UNCHANGED stopRest
  <2>1. CASE RemoveDevice \/ StopQueue \/ StopCheckIdle \/ StopWait
    BY <2>1, Zenon DEF RemoveDevice, StopQueue, StopCheckIdle, StopWait
  <2>2. CASE StopThreads
    BY <2>2, Zenon DEF StopThreads, StopThread, Joined
  <2>3. CASE UNCHANGED vars
    BY <2>3 DEF vars, stopRest, countVars, flagVars, queueVars, bufVars, aheadVars, thrVars, diskVars, envVars
  <2> QED BY <2>1, <2>2, <2>3 DEF StopperStep
<1>2. /\ ThreadsSame /\ UNCHANGED <<readAhead, lastRead, fragment>> /\ UNCHANGED irp
      /\ UNCHANGED <<disk, content, seen, EncryptedAreaEnd, holder>>
  BY <1>1 DEF stopRest, queueVars, bufVars, aheadVars, diskVars, ThreadsSame
<1>3. SameDevice
  BY <1>2, StillDevice DEF DataInv
<1>4. SameData /\ SamePending
  BY <1>2, IrpsStay DEF QueueInv, ShapeInv
<1> QED BY <1>2, <1>3, <1>4, StillData

\* No step breaks the invariant of the data.
LEMMA DataStep == RemapIsPlain /\ QueueInv /\ BufferInv /\ DataInv /\ [Next]_vars => DataInv'
<1> SUFFICES ASSUME RemapIsPlain, QueueInv, BufferInv, DataInv, [Next]_vars PROVE DataInv'
  OBVIOUS
<1>1. CASE Arrival
  BY <1>1, AddIrpData DEF Arrival
<1>2. CASE \E i \in Irps : Dispatcher(i)
  BY <1>2, DispatcherData
<1>3. CASE MainThread
  BY <1>3, MainData
<1>4. CASE IoThread
  BY <1>4, IoData
<1>5. CASE CompletionThread
  BY <1>5, CompletionData
<1>6. CASE HoldWhenIdle \/ HolderStep
  BY <1>6, HolderData
<1>7. CASE RemoveDevice \/ StopperStep \/ UNCHANGED vars
  BY <1>7, StopperData
<1> QED BY <1>1, <1>2, <1>3, <1>4, <1>5, <1>6, <1>7 DEF Next

-----------------------------------------------------------------------------
(***************************************************************************)
(* The invariant.                                                          *)
(***************************************************************************)
\* At first every unit holds 0, stored as the area says.
LEMMA DeviceInit ==
    ASSUME Init
    PROVE  DeviceTypes /\ DeviceOk
<1> DEFINE e == InitialEnd
           Moved(d) == \E u \in Units : DeviceUnit(u, e) = d /\ d # u
<1>1. /\ EncryptedAreaEnd = e /\ AreaNow = e /\ holder.pc = "idle"
      /\ content = [u \in Units |-> 0] /\ seen = [i \in Irps |-> [u \in Units |-> {}]]
  BY DEF Init, AreaNow
<1>2. disk = [d \in Units |-> IF Moved(d) THEN Encoded(d - RemapOffset, 0, e)
                              ELSE IF DeviceUnit(d, e) # d THEN Garbage ELSE Encoded(d, 0, e)]
  BY Zenon DEF Init
<1>3. /\ e \in AreaEnds /\ DataUnitOffset \in Nat /\ RemapOffset \in Nat
      /\ \A u \in Units : u \in Nat
  BY QueueAssumption DEF QueueAssumption, AreaEnds, Units
<1>4. \A x \in Nat : Encoded(x, 0, e) \in Cells
  BY <1>3, AreaFacts DEF Cells, Plain
<1>5. ASSUME NEW d \in Units, NEW u \in Units, DeviceUnit(u, e) = d, d # u
      PROVE  d - RemapOffset = u /\ d = u + RemapOffset /\ Remap /\ InArea(u, e)
  <2>1. DeviceUnit(u, e) = IF Remap /\ InArea(u, e) THEN u + RemapOffset ELSE u
    BY <1>3, AreaFacts
  <2>2. d = u + RemapOffset /\ Remap /\ InArea(u, e)
    BY <1>5, <2>1
  <2> QED BY <1>3, <2>2
<1>6. ASSUME NEW d \in Units PROVE disk[d] \in Cells
  <2>1. CASE Moved(d)
    <3>1. PICK u \in Units : DeviceUnit(u, e) = d /\ d # u
      BY <2>1
    <3>2. d - RemapOffset \in Nat
      BY <1>3, <1>5, <3>1
    <3>3. disk[d] = Encoded(d - RemapOffset, 0, e)
      BY <1>2, <2>1, Zenon
    <3> QED BY <1>4, <3>2, <3>3
  <2>2. CASE ~Moved(d)
    <3>1. disk[d] = Garbage \/ disk[d] = Encoded(d, 0, e)
      BY <1>2, <2>2, Zenon
    <3>2. Garbage \in Cells /\ Encoded(d, 0, e) \in Cells
      BY <1>3, <1>4 DEF Garbage, Cells
    <3> QED BY <3>1, <3>2
  <2> QED BY <2>1, <2>2
<1>7. DeviceTypes
  <2>1. disk \in [Units -> Cells]
    <3> DEFINE F(d) == IF Moved(d) THEN Encoded(d - RemapOffset, 0, e)
                       ELSE IF DeviceUnit(d, e) # d THEN Garbage ELSE Encoded(d, 0, e)
    <3>1. disk = [d \in Units |-> F(d)]
      BY <1>2, Zenon
    <3> HIDE DEF F
    <3> QED BY <1>6, <3>1
  <2> QED BY <1>1, <1>3, <2>1 DEF DeviceTypes
<1>8. ASSUME NEW u \in Units, ~Target(u) PROVE disk[DeviceUnit(u, e)] = Encoded(u, 0, e)
  <2> DEFINE d == DeviceUnit(u, e)
  <2>1. d \in Units
    BY <1>3, PlaceOnDevice
  <2>2. CASE d # u
    <3>1. Moved(d) /\ d - RemapOffset = u
      BY <1>5, <2>1, <2>2
    <3> QED BY <1>2, <2>1, <3>1, Zenon
  <2>3. CASE d = u
    <3>1. ~Moved(u)
      <4> SUFFICES ASSUME NEW w \in Units, DeviceUnit(w, e) = u, u # w PROVE FALSE
        OBVIOUS
      <4>1. u = w + RemapOffset /\ Remap /\ InArea(w, e)
        BY <1>5
      <4>2. w \in Nat /\ AreaStart \in Int /\ InitialEnd \in Int
        BY <1>3, QueueAssumption DEF QueueAssumption, Units
      <4>3. Target(u)
        BY <1>3, <4>1, <4>2 DEF Target, InArea
      <4> QED BY <1>8, <4>3
    <3> QED BY <1>2, <2>3, <3>1, Zenon
  <2> QED BY <2>2, <2>3
<1>9. DeviceOk
  <2> SUFFICES ASSUME NEW u \in Units, ~Target(u)
               PROVE  disk[DeviceUnit(u, AreaNow)] = Encoded(u, content[u], AreaNow)
    BY DEF DeviceOk
  <2>1. content[u] = 0
    BY <1>1
  <2> QED BY <1>1, <1>8, <2>1
<1> QED BY <1>7, <1>9

\* The invariant of the data holds at first.
LEMMA DataInit == Init => DataInv
<1> SUFFICES ASSUME Init PROVE DataInv
  OBVIOUS
<1>1. DeviceTypes /\ DeviceOk
  BY DeviceInit
<1>2. /\ main.pc = "wait" /\ io.pc = "wait" /\ completion.pc = "wait"
      /\ IoThreadQueue = <<>> /\ CompletionThreadQueue = <<>>
      /\ DOMAIN IoThreadQueue = {} /\ DOMAIN CompletionThreadQueue = {}
      /\ \A i \in Irps : irp[i] = [disp |-> "new", req |-> NoRequest, done |-> 0,
                                   status |-> "pending", data |-> <<>>]
  BY DEF Init, IdleMain
<1>3. Pipe = {} /\ Sent = {} /\ Filled = {} /\ Fetched = {} /\ ~IoBusy /\ ~MainCuts
  <2>1. Entries(IoThreadQueue) = {} /\ Entries(CompletionThreadQueue) = {}
    BY <1>2 DEF Entries
  <2>2. ~IoBusy /\ ~MainCuts
    BY <1>2 DEF IoBusy, MainCuts
  <2>3. Sent = {} /\ Fetched = {} /\ Filled = {}
    BY <1>2, <2>1, <2>2 DEF Sent, Fetched, Filled, If
  <2> QED BY <1>2, <2>2, <2>3 DEF Pipe, If
<1>4. IntactOk /\ SeenOk /\ CheckOk
  BY <1>2 DEF Init, IntactOk, SeenOk, CheckOk
<1>5. AheadOk
  BY DEF Init, AheadOk, NoReadAhead, Holding
<1>6. FragmentsOk /\ RawOk
  BY <1>2, <1>3 DEF FragmentsOk, MainOk, RawOk
<1>7. Pieces
  BY <1>2, <1>3 DEF Pieces
<1>8. BuffersOk
  <2>1. fragment = [b \in Buffers |-> <<>>] /\ <<>> \in Seq(Cells)
    BY DEF Init, Buffers
  <2>2. DOMAIN fragment = Buffers /\ \A b \in Buffers : fragment[b] \in Seq(Cells)
    BY <2>1
  <2> QED BY <1>2, <1>3, <2>2 DEF BuffersOk
<1>9. ReadsOk
  <2>1. \A i \in Irps : DOMAIN irp[i].data = {}
    BY <1>2
  <2> QED BY <2>1 DEF ReadsOk, ReadOk
<1> QED BY <1>1, <1>4, <1>5, <1>6, <1>7, <1>8, <1>9 DEF DataInv

\* The data of the queue is sound all the time: fragments are disjoint pieces of their
\* IRPs and encoded for the area of now, the fragment and read-ahead buffers mirror the
\* device, and what a read has fetched is what its units held while it was pending.
THEOREM DataInvariant ==
    ASSUME RemapIsPlain
    PROVE  Spec => []DataInv
<1>1. Init => QueueInv /\ BufferInv /\ DataInv
  BY QueueInit, BufferInit, DataInit
<1>2. QueueInv /\ BufferInv /\ DataInv /\ [Next]_vars => (QueueInv /\ BufferInv /\ DataInv)'
  BY QueueStep, BufferStep, DataStep
<1> QED BY <1>1, <1>2, PTL DEF Spec

\* A read that is completed has no cell left to be fetched.
LEMMA ReadsDone == QueueInv /\ DataInv => ReadsReturnCurrentData
<1> SUFFICES ASSUME QueueInv, DataInv, NEW i \in Irps, irp[i].done > 0, irp[i].req.op = "read", Success(i),
                    NEW k \in DOMAIN irp[i].data
             PROVE  irp[i].data[k].as = -1 /\ irp[i].data[k].v \in seen[i][HostOffset(irp[i].req) + k - 1]
  BY DEF ReadsReturnCurrentData
<1>1. ~Live(i)
  BY DEF Live, QueueInv, ShapeInv, IrpTypes
<1>2. MainHas => main.irp # i
  BY <1>1 DEF QueueInv, PipeInv, Waiting, MainOwns
<1>3. MainCuts => main.irp # i
  BY <1>2 DEF MainCuts, MainHas
<1>4. \A q \in Sent : q.irp # i
  BY <1>1, PipeFacts DEF DataInv, FragmentsOk, Flowing
<1>5. main.pc \in {"acquire", "enqueue"} => main.req.irp = main.irp /\ MainHas
  BY DEF QueueInv, ShapeInv, FragmentMade, MainMakes, MainHas
<1>6. \A q \in Pipe : q.irp # i
  BY <1>2, <1>4, <1>5 DEF Pipe, If
<1>7. ~Fetching(i, k)
  BY <1>3, <1>6 DEF Fetching, Carries
<1>8. GoodCell(i, k)
  BY <1>7 DEF DataInv, ReadsOk, ReadOk
<1> QED BY <1>8 DEF GoodCell, UnitOf

\* Between the steps of the set-up thread the device is encoded as the area says.
LEMMA DeviceEncoded == DataInv => DeviceMatchesArea
<1> SUFFICES ASSUME DataInv, holder.pc \notin {"encrypted", "decrypted"}, NEW u \in LogicalUnits
             PROVE  disk[DeviceUnit(u, EncryptedAreaEnd)] = Encoded(u, content[u], EncryptedAreaEnd)
  BY DEF DeviceMatchesArea
<1>1. AreaNow = EncryptedAreaEnd
  BY DEF AreaNow
<1>2. u \in Units /\ ~\E w \in Units \ {u} : /\ DeviceUnit(w, EncryptedAreaEnd) # w
                                               /\ DeviceUnit(w, EncryptedAreaEnd) = u
  BY DEF LogicalUnits
<1>3. ~Target(u)
  <2> SUFFICES ASSUME Target(u) PROVE FALSE
    OBVIOUS
  <2> DEFINE w == u - RemapOffset
  <2>1. /\ Remap /\ InitialEnd # -1 /\ AreaStart + RemapOffset <= u /\ u <= InitialEnd + RemapOffset
        /\ RemapOffset # 0
    BY DEF Target, Remap
  <2>2. /\ RemapOffset \in Nat /\ AreaStart \in Nat /\ InitialEnd \in Int /\ u \in Nat
        /\ u < DeviceUnits /\ DeviceUnits \in Nat
    BY <1>2, QueueAssumption DEF QueueAssumption, Units
  <2>3. EncryptedAreaEnd = InitialEnd /\ InitialEnd \in AreaEnds
    BY <2>1 DEF DataInv, DeviceTypes
  <2>4. w \in Nat /\ w \in Units /\ w # u /\ w + RemapOffset = u /\ InArea(w, InitialEnd)
    BY <2>1, <2>2 DEF Units, InArea
  <2> HIDE DEF w
  <2>5. DeviceUnit(w, InitialEnd) = u
    BY <2>1, <2>3, <2>4, AreaFacts
  <2> QED BY <1>2, <2>3, <2>4, <2>5
<1> QED BY <1>1, <1>2, <1>3 DEF DataInv, DeviceOk

\* The queue is transparent: a read that is completed with success returns what its units
\* held while it was pending, whatever was written, read ahead or re-encoded meanwhile;
\* every unit is stored as the encrypted area says; and no write reaches the protected
\* hidden volume, the boot volume header or what a hidden system must not write.
THEOREM QueueIsTransparent ==
    ASSUME RemapIsPlain
    PROVE  Spec => []QueueTransparent
<1>1. QueueInv /\ DataInv => QueueTransparent
  <2>1. IntactOk => ProtectedUnitsIntact
    BY DEF IntactOk, ProtectedUnitsIntact, Intact
  <2> QED BY <2>1, ReadsDone, DeviceEncoded DEF QueueTransparent, DataInv
<1> QED BY <1>1, QueueInvariant, DataInvariant, PTL

-----------------------------------------------------------------------------
(***************************************************************************)
(* Types.                                                                  *)
(***************************************************************************)
\* What remains of the fragments that the threads are done with.
InUnits(q) == \A u \in q.enc : u \in Units
RestTypes ==
    InUnits(main.req) /\ InUnits(io.req) /\ InUnits(completion.req) /\ hiddenVolProtectionAction \in BOOLEAN

\* The encrypted part of a fragment on its way lies on the device.
LEMMA FragmentInUnits ==
    ASSUME IrpTypes, DeviceTypes, NEW q, FragmentOk(q)
    PROVE  IsFragment(q) /\ InUnits(q)
<1>1. q \in Fragments /\ q.enc = Covered(q) /\ q.off \in Nat /\ q.len \in Nat
  BY DEF FragmentOk, Fragments
<1>2. ASSUME NEW u \in q.enc PROVE u \in Units
  <2>1. u \in q.off .. q.off + q.len - 1
    BY <1>1 DEF Covered, Intersection
  <2>2. PICK k \in 1 .. q.len : u = q.off + k - 1
    <3>1. u - q.off + 1 \in 1 .. q.len /\ u = q.off + (u - q.off + 1) - 1
      BY <1>1, <2>1
    <3> QED BY <3>1
  <2> QED BY <2>2, FragmentUnits
<1> QED BY <1>1, <1>2 DEF Fragments, IsFragment, InUnits

PipeInUnits == \A q \in Pipe : IsFragment(q) /\ InUnits(q)

\* The fragments on their way.
LEMMA PipeTypes == QueueInv /\ DataInv => PipeInUnits
<1> SUFFICES ASSUME QueueInv, DataInv, NEW q \in Pipe PROVE IsFragment(q) /\ InUnits(q)
  BY DEF PipeInUnits
<1>1. IrpTypes /\ DeviceTypes /\ FragmentOk(q)
  BY DEF QueueInv, ShapeInv, DataInv, FragmentsOk
<1> QED BY <1>1, FragmentInUnits

\* The main thread keeps its fragment, forgets it or begins one.
LEMMA MainRest ==
    ASSUME ShapeInv, MainThread, RestTypes, PipeInUnits'
    PROVE  InUnits(main.req)' /\ hiddenVolProtectionAction' \in BOOLEAN
<1>1. main \in MainStates
  BY DEF ShapeInv, ThreadTypes
<1>2. NoFragment.enc = {} /\ \A b, pc : IdleMain(b, pc).req.enc = {}
  BY DEF NoFragment, IdleMain
<1>3. \/ main'.req = main.req
      \/ main'.req.enc = {}
      \/ main'.pc = "acquire"
  <2>1. CASE \/ MainWait \/ MainDequeue \/ MainGate \/ MainWaitResumed \/ MainGetItem \/ MainWaitPool
             \/ MainRefuse \/ MainReadMisaligned \/ MainBeginFragments \/ MainComplete \/ MainSignalIdle
             \/ MainAcquireBuffer \/ MainEnqueue
    BY <1>1, <2>1 DEF MainGoTo, MainStates, MainWait, MainDequeue, MainGate, MainWaitResumed, MainGetItem,
       MainWaitPool, MainRefuse, MainReadMisaligned, MainBeginFragments, MainComplete, MainSignalIdle,
       MainAcquireBuffer, MainEnqueue
  <2>2. CASE MainReleaseItem \/ MainSignalIo
    BY <1>1, <1>2, <2>2 DEF MainReleaseItem, MainSignalIo, MainDone, MainStates
  <2>3. CASE MainNextFragment
    BY <1>1, <2>3 DEF MainNextFragment, MainStates
  <2>4. CASE MainGetRequest
    <3>1. CASE freeRequests > 0
      BY <1>1, <2>4, <3>1 DEF MainGetRequest, MainStates
    <3>2. CASE ~(freeRequests > 0)
      BY <1>1, <2>4, <3>2 DEF MainGetRequest, MainGoTo, MainStates
    <3> QED BY <3>1, <3>2
  <2> QED BY <2>1, <2>2, <2>3, <2>4 DEF MainThread
<1>4. InUnits(main.req)'
  <2>1. CASE main'.pc = "acquire"
    <3>1. main'.req \in Pipe'
      BY <2>1 DEF Pipe, If
    <3> QED BY <3>1 DEF PipeInUnits, InUnits
  <2> QED BY <1>3, <2>1 DEF RestTypes, InUnits
<1>5. hiddenVolProtectionAction' \in BOOLEAN
  <2>1. CASE MainRefuse
    BY <2>1, Zenon DEF MainRefuse
  <2>2. CASE ~MainRefuse
    <3>1. UNCHANGED hiddenVolProtectionAction
      BY <2>2 DEF MainThread, MainWait, MainDequeue, MainGate, MainWaitResumed, MainGetItem, MainWaitPool,
         MainReadMisaligned, MainBeginFragments, MainComplete, MainSignalIdle, MainReleaseItem,
         MainNextFragment, MainGetRequest, MainAcquireBuffer, MainEnqueue, MainSignalIo, envVars
    <3> QED BY <3>1 DEF RestTypes
  <2> QED BY <2>1, <2>2
<1> QED BY <1>4, <1>5

\* The I/O thread keeps its fragment, forgets it or takes one out of the queue.
LEMMA IoRest ==
    ASSUME ShapeInv, IoThread, RestTypes, PipeInUnits'
    PROVE  InUnits(io.req)'
<1>1. io \in [pc : IoPcs, req : Fragments]
  BY DEF ShapeInv, ThreadTypes
<1>2. NoFragment.enc = {}
  BY DEF NoFragment
<1>3. \/ io'.req = io.req
      \/ io'.req.enc = {}
      \/ io'.pc = "access"
  <2>1. CASE IoWrite \/ IoRead
    <3>1. IoGoTo("accessed")
      BY <2>1, Zenon DEF IoWrite, IoRead
    <3> QED BY <1>1, <3>1 DEF IoGoTo
  <2>2. CASE \/ IoWait \/ IoSkip \/ IoAfterWrite \/ IoAfterRead \/ IoHandOver
             \/ IoReadAhead \/ IoComplete \/ IoReleaseItem
    <3>1. \E pc : IoGoTo(pc)
      BY <2>2, Zenon DEF IoWait, IoSkip, IoAfterWrite, IoAfterRead, IoHandOver, IoReadAhead, IoComplete,
         IoReleaseItem
    <3> QED BY <1>1, <3>1 DEF IoGoTo
  <2>3. CASE IoSignalCompletion \/ IoReadAheadDone \/ IoSignalIdle \/ IoReleaseRequest
    <3>1. IoDone \/ \E pc : IoGoTo(pc)
      BY <2>3, Zenon DEF IoSignalCompletion, IoReadAheadDone, IoSignalIdle, IoReleaseRequest
    <3> QED BY <1>1, <1>2, <3>1 DEF IoGoTo, IoDone
  <2>4. CASE IoDequeue
    BY <1>1, <2>4 DEF IoDequeue, IoGoTo
  <2> QED BY <2>1, <2>2, <2>3, <2>4 DEF IoThread
<1>4. CASE io'.pc = "access"
  <2>1. io'.req \in Pipe'
    BY <1>4 DEF Pipe, Sent, If, IoBusy
  <2> QED BY <2>1 DEF PipeInUnits, InUnits
<1> QED BY <1>3, <1>4 DEF RestTypes, InUnits

\* The completion thread likewise.
LEMMA CompletionRest ==
    ASSUME ShapeInv, CompletionThread, RestTypes, PipeInUnits'
    PROVE  InUnits(completion.req)'
<1>1. completion \in [pc : CompletionPcs, req : Fragments]
  BY DEF ShapeInv, ThreadTypes
<1>2. NoFragment.enc = {}
  BY DEF NoFragment
<1>3. \/ completion'.req = completion.req
      \/ completion'.req.enc = {}
      \/ completion'.pc = "decrypt"
  BY <1>1, <1>2 DEF CompletionThread, CompletionWait, CompletionDequeue, CompletionDecrypt,
     CompletionComplete, CompletionSignalIdle, CompletionReleaseItem, CompletionReleaseRequest, CompletionGoTo
<1>4. CASE completion'.pc = "decrypt"
  <2>1. completion'.req \in Pipe'
    BY <1>4 DEF Pipe, Sent, If
  <2> QED BY <2>1 DEF PipeInUnits, InUnits
<1> QED BY <1>3, <1>4 DEF RestTypes, InUnits

\* No step breaks these types.
LEMMA RestStep == QueueInv /\ RestTypes /\ PipeInUnits' /\ [Next]_vars => RestTypes'
<1> SUFFICES ASSUME QueueInv, RestTypes, PipeInUnits', [Next]_vars PROVE RestTypes'
  OBVIOUS
<1>1. ShapeInv
  BY DEF QueueInv
<1>2. CASE MainThread
  <2>1. UNCHANGED <<io, completion>>
    BY <1>2, MainFrames DEF MainFrame
  <2> QED BY <1>1, <1>2, <2>1, MainRest DEF RestTypes, InUnits
<1>3. CASE IoThread
  <2>1. UNCHANGED ioRest
    BY <1>3, Zenon DEF IoThread, IoWait, IoDequeue, IoSkip, IoWrite, IoRead, IoAfterWrite, IoAfterRead, IoHandOver,
       IoSignalCompletion, IoReadAhead, IoReadAheadDone, IoComplete, IoSignalIdle, IoReleaseItem, IoReleaseRequest
  <2>2. UNCHANGED <<main, completion, hiddenVolProtectionAction>>
    BY <2>1 DEF ioRest
  <2> QED BY <1>1, <1>3, <2>2, IoRest DEF RestTypes, InUnits
<1>4. CASE CompletionThread
  <2>1. UNCHANGED completionRest
    BY <1>4, Zenon DEF CompletionThread, CompletionWait, CompletionDequeue, CompletionDecrypt,
       CompletionComplete, CompletionSignalIdle, CompletionReleaseItem, CompletionReleaseRequest
  <2>2. UNCHANGED <<main, io, hiddenVolProtectionAction>>
    BY <2>1 DEF completionRest
  <2> QED BY <1>1, <1>4, <2>2, CompletionRest DEF RestTypes, InUnits
<1>5. CASE \/ Arrival \/ HoldWhenIdle \/ RemoveDevice \/ (\E i \in Irps : Dispatcher(i))
           \/ HolderStep \/ StopperStep \/ UNCHANGED vars
  <2>1. UNCHANGED <<main, io, completion, hiddenVolProtectionAction>>
    <3>1. CASE Arrival \/ \E i \in Irps : Dispatcher(i)
      <4>1. UNCHANGED dispatchRest
        BY <3>1, Zenon DEF Arrival, AddIrp, Dispatcher, AddIrpCheck, AddIrpInsert, AddIrpSignal, AddIrpErr,
           AddIrpErrSignal
      <4> QED BY <4>1 DEF dispatchRest, thrVars
    <3>2. CASE HoldWhenIdle \/ HolderStep
      <4>1. UNCHANGED holderRest
        BY <3>2, Zenon DEF HoldWhenIdle, HolderStep, HoldCheckIdle, HoldWait, HoldFails, HoldRecheck, HoldSuspend,
           HoldConfirm, HoldBackOut, HoldReturns, SetupEncryptsBlock, SetupDecryptsBlock, SetupMovesEnd,
           ResumeFromHold, ResumeSignals
      <4> QED BY <4>1 DEF holderRest, envVars
    <3>3. CASE RemoveDevice \/ StopperStep
      <4>1. UNCHANGED stopRest
        BY <3>3, Zenon DEF RemoveDevice, StopperStep, StopQueue, StopCheckIdle, StopWait, StopThreads,
           StopThread, Joined
      <4> QED BY <4>1 DEF stopRest
    <3>4. CASE UNCHANGED vars
      BY <3>4 DEF vars, thrVars, envVars
    <3> QED BY <1>5, <3>1, <3>2, <3>3, <3>4
  <2> QED BY <2>1 DEF RestTypes, InUnits
<1> QED BY <1>2, <1>3, <1>4, <1>5 DEF Next

\* The pools and the counters stay in their ranges.
LEMMA CountTypes ==
    ASSUME QueueInv
    PROVE  /\ OutstandingIoCount \in Nat /\ IoThreadPendingRequestCount \in Nat
           /\ freeItems \in 0 .. ItemCount /\ freeRequests \in 0 .. RequestCount
<1>1. /\ freeRequests \in Nat /\ freeItems \in Nat
      /\ RequestsCounted /\ PendingCounted /\ ItemsCounted /\ OutstandingCounted /\ IrpTypes /\ QueueTypes
  BY DEF QueueInv, CountInv, ShapeInv
<1>2. Len(IoThreadQueue) \in Nat /\ Len(CompletionThreadQueue) \in Nat
  BY <1>1 DEF QueueTypes
<1>3. \A b : One(b) \in Nat
  BY DEF One
<1>4. Cardinality(OutstandingIrps) \in Nat /\ Cardinality(ItemHolders) \in Nat
  <2>1. removeLock.held \subseteq Irps /\ IsFiniteSet(Irps)
    BY <1>1, QueueAssumption DEF QueueTypes, QueueAssumption
  <2>2. OutstandingIrps \subseteq Irps /\ ItemHolders \subseteq Irps
    BY <2>1 DEF OutstandingIrps, ItemHolders
  <2> QED BY <2>1, <2>2, FS_Subset, FS_CardinalityType
<1>5. ItemCount \in Nat /\ RequestCount \in Nat
  BY QueueAssumption DEF QueueAssumption
<1>6. OutstandingIoCount \in Nat
  BY <1>1, <1>3, <1>4 DEF OutstandingCounted
<1>7. IoThreadPendingRequestCount \in Nat
  BY <1>1, <1>2, <1>3 DEF PendingCounted
<1>8. freeItems \in 0 .. ItemCount
  BY <1>1, <1>4, <1>5 DEF ItemsCounted
<1>9. freeRequests \in 0 .. RequestCount
  <2>1. One(MainRequest) \in Nat /\ One(IoRequest) \in Nat /\ One(CompletionRequest) \in Nat
    BY <1>3
  <2> QED BY <1>1, <1>2, <1>5, <2>1 DEF RequestsCounted
<1> QED BY <1>6, <1>7, <1>8, <1>9

\* Type correctness of the queue's fields, of the threads' locals and of the device: the
\* pools never hand out more than they have, and no fragment leaves the device.
THEOREM QueueTypeCorrect ==
    ASSUME RemapIsPlain
    PROVE  Spec => []TypeOK
<1>1. QueueInv /\ DataInv => PipeInUnits
  BY PipeTypes
<1>2. Init => RestTypes
  <2> SUFFICES ASSUME Init PROVE RestTypes
    OBVIOUS
  <2>1. main.req.enc = {} /\ io.req.enc = {} /\ completion.req.enc = {}
    BY DEF Init, NoFragment, IdleMain
  <2>2. hiddenVolProtectionAction \in BOOLEAN
    BY DEF Init
  <2> QED BY <2>1, <2>2 DEF RestTypes, InUnits
<1>3. QueueInv /\ RestTypes /\ PipeInUnits' /\ [Next]_vars => RestTypes'
  BY RestStep
<1>4. QueueInv /\ DataInv /\ PipeInUnits /\ RestTypes => TypeOK
  <2> SUFFICES ASSUME QueueInv, DataInv, PipeInUnits, RestTypes PROVE TypeOK
    OBVIOUS
  <2>1. ShapeInv
    BY DEF QueueInv
  <2>2. /\ OutstandingIoCount \in Nat /\ IoThreadPendingRequestCount \in Nat
        /\ freeItems \in 0 .. ItemCount /\ freeRequests \in 0 .. RequestCount
    BY CountTypes
  <2>3. {StopPending, SuspendPending, Suspended, ThreadExitRequested, hiddenVolProtectionAction} \subseteq BOOLEAN
    BY <2>1, Zenon DEF ShapeInv, ThreadTypes, RestTypes
  <2>4. /\ \A n \in DOMAIN IoThreadQueue : IsFragment(IoThreadQueue[n])
        /\ \A n \in DOMAIN CompletionThreadQueue : IsFragment(CompletionThreadQueue[n])
    BY DEF PipeInUnits, Pipe, Sent, Entries
  <2>5. /\ MainThreadQueue \in Seq(Irps) /\ \A e \in DOMAIN event : event[e] \in BOOLEAN
        /\ removeLock.held \subseteq Irps /\ removeLock.removing \in BOOLEAN
    BY <2>1 DEF ShapeInv, QueueTypes
  <2>6. \A i \in Irps : irp[i].status \in Statuses /\ irp[i].done \in Nat
    BY <2>1 DEF ShapeInv, IrpTypes
  <2>7. IsFragment(main.req) /\ IsFragment(io.req) /\ IsFragment(completion.req)
    BY <2>1 DEF ShapeInv, ThreadTypes, MainStates, RestTypes, InUnits, IsFragment, Fragments
  <2>8. /\ \A b \in DOMAIN fragment : fragment[b] \in Seq(Cells)
        /\ disk \in [Units -> Cells] /\ EncryptedAreaEnd \in {-1} \cup (AreaStart - 1 .. AreaEnd)
    BY DEF DataInv, BuffersOk, DeviceTypes, AreaEnds
  <2> QED BY <2>2, <2>3, <2>4, <2>5, <2>6, <2>7, <2>8 DEF TypeOK
<1> QED BY <1>1, <1>2, <1>3, <1>4, QueueInvariant, DataInvariant, PTL DEF Spec
=============================================================================
