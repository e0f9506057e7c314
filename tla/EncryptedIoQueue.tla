-------------------------- MODULE EncryptedIoQueue --------------------------
(***************************************************************************)
(* The I/O queue of Driver/EncryptedIoQueue.c, through which every read    *)
(* and write of a mounted volume, or of the encrypted system drive, goes.  *)
(*                                                                         *)
(* Dispatch routines put IRPs into the main queue (EncryptedIoQueueAddIrp).*)
(* The main thread checks an IRP and cuts it into fragments, encrypting    *)
(* the data of a write into one of two fragment buffers; the I/O thread    *)
(* does the device accesses, in order, and reads ahead when it is idle;    *)
(* the completion thread decrypts what was read.  The set-up thread of the *)
(* drive filter can hold the queue when it is idle, re-encode a block of   *)
(* the drive under it and resume it.  The owner removes the device and     *)
(* stops the queue.                                                        *)
(*                                                                         *)
(* Offsets and lengths are in data units.  A cell of the device is         *)
(* plaintext, or is encrypted as one data unit number; decrypting it as    *)
(* another number, or encrypting it twice, gives Garbage.  IRP i writes    *)
(* the value i into every unit it covers; the device holds 0 at first.     *)
(* All events are auto-reset.                                              *)
(***************************************************************************)
EXTENDS Integers, Sequences, FiniteSets

CONSTANTS
    Irps,                \* numbers of the IRPs: a set of positive integers
    Requests,            \* what an IRP may ask for: [op, off, len, mis]
    IsFilterDevice,      \* drive filter, or mounted volume
    DeviceUnits,         \* units of the lower device or of the host file
    MaxFragment,         \* TC_ENC_IO_QUEUE_MAX_FRAGMENT_SIZE
    ItemCount,           \* pool buffers for items
    RequestCount,        \* pool buffers for I/O requests
    MaxReadAheadOffset,
    Faults,              \* whether device accesses may fail
    SystemRefusals,      \* "cancelled", "noResources": what else may befall an IRP
    DataOffset,          \* volume: volDataAreaOffset or hiddenVolumeOffset
    VirtualDeviceLength, \* volume: units it offers
    DataUnitOffset,      \* added to unit numbers: FirstDataUnitNo, RemappedAreaDataUnitOffset
    Protected,           \* volume: units of the protected hidden volume, {} if none
    Header,              \* filter: units of the boot volume header
    Forbidden,           \* filter: units a running hidden system must not write
    AreaStart, AreaEnd,  \* filter: configured encrypted area
    InitialEnd,          \* filter: EncryptedAreaEnd at start, -1 if nothing is encrypted
    RemapOffset,         \* filter: RemappedAreaOffset, 0 if the area is not remapped
    MaxPending,          \* bound: IRPs that are pending at a time
    MaxHolds,            \* bound: how often the set-up thread tries to hold
    Removable,           \* whether the device may be removed
    Nobody               \* no IRP

Units == 0 .. DeviceUnits - 1
Ops == {"read", "write", "other"}
Remap == RemapOffset # 0

ASSUME QueueAssumption ==
    /\ Irps \subseteq Nat \ {0} /\ IsFiniteSet(Irps) /\ Nobody \notin Irps
    /\ Requests \subseteq [op : Ops, off : Nat, len : Nat, mis : {"no", "offset", "length"}]
    /\ DeviceUnits \in Nat \ {0} /\ MaxFragment \in Nat \ {0}
    /\ ItemCount \in Nat \ {0} /\ RequestCount \in Nat \ {0}
    /\ IsFilterDevice \in BOOLEAN /\ Faults \in BOOLEAN
    /\ SystemRefusals \subseteq {"cancelled", "noResources"}
    /\ DataOffset \in Nat /\ DataUnitOffset \in Nat /\ MaxReadAheadOffset \in Nat
    /\ VirtualDeviceLength \in Nat /\ DataOffset + VirtualDeviceLength <= DeviceUnits
    /\ AreaStart \in Nat /\ AreaEnd \in Units /\ InitialEnd \in {-1} \cup (AreaStart .. AreaEnd)
    /\ RemapOffset \in Nat /\ MaxHolds \in Nat /\ MaxPending \in Nat /\ Removable \in BOOLEAN
    /\ Protected \subseteq Units /\ Header \subseteq Units /\ Forbidden \subseteq Nat

\* What the owner of the queue configures and which requests the system makes: inside
\* the drive, one unit longer if misaligned; read-ahead stays inside the device; only
\* the number of a remapped unit differs from its place; a hidden system is remapped
\* out of its partition, behind it, and does not access where it is stored.
ASSUME LayoutAssumption ==
    /\ IF IsFilterDevice THEN Protected = {} ELSE Header = {} /\ Forbidden = {} /\ ~Remap
    /\ MaxReadAheadOffset <= DeviceUnits
    /\ IsFilterDevice =>
          \A r \in Requests : r.off + r.len + (IF r.mis = "offset" THEN 1 ELSE 0) <= DeviceUnits
    /\ IsFilterDevice /\ ~Remap => DataUnitOffset = 0
    /\ Remap => /\ AreaEnd < AreaStart + RemapOffset /\ AreaEnd + RemapOffset < DeviceUnits
                /\ \A r \in Requests : \/ r.off + r.len <= AreaStart + RemapOffset
                                        \/ AreaEnd + RemapOffset < r.off

-----------------------------------------------------------------------------
(***************************************************************************)
(* Data.                                                                   *)
(***************************************************************************)
Plain(v) == [as |-> -1, v |-> v]
Garbage == [as |-> -2, v |-> 0]
EncryptDataUnit(cell, n) == IF cell.as = -1 THEN [cell EXCEPT !.as = n] ELSE Garbage
DecryptDataUnit(cell, n) == IF cell.as = n THEN Plain(cell.v) ELSE Garbage

\* Units of [off, len) in the encrypted area with end e: GetIntersection.
Intersection(off, len, e) ==
    IF e = -1 THEN {}
    ELSE {u \in off .. off + len - 1 : AreaStart <= u /\ u <= e}

\* Mutant of Overlap: the last unit of the access is not looked at.
OverlapButLast(off, len, region) == (off .. off + len - 2) \cap region # {}

Overlap(off, len, region) == (off .. off + len - 1) \cap region # {}

VARIABLES
    OutstandingIoCount, IoThreadPendingRequestCount,
    StopPending, SuspendPending, Suspended, ThreadExitRequested,
    MainThreadQueue, IoThreadQueue, CompletionThreadQueue,
    event,          \* events: main, io, completion, noOutstanding, poolFree, resumed, A, B
    fragment,       \* contents of FragmentBufferA and FragmentBufferB
    readAhead,      \* [valid, off, len, data]
    lastRead,       \* [off, len]
    freeItems, freeRequests,
    removeLock,     \* [held, removing]
    irp,            \* [disp, req, done, status, data] of every IRP
    main, io, completion,     \* the three threads
    holder, stopper,          \* the set-up thread; the thread that removes the device
    disk, EncryptedAreaEnd,
    hiddenVolProtectionAction,
    content, seen             \* history: plaintext of a unit; what it was while an IRP was pending

countVars == <<OutstandingIoCount, IoThreadPendingRequestCount>>
flagVars  == <<StopPending, SuspendPending, Suspended, ThreadExitRequested>>
queueVars == <<MainThreadQueue, IoThreadQueue, CompletionThreadQueue>>
bufVars   == <<fragment, freeItems, freeRequests>>
aheadVars == <<readAhead, lastRead>>
diskVars  == <<disk, EncryptedAreaEnd, content, seen>>
envVars   == <<removeLock, hiddenVolProtectionAction>>
thrVars   == <<main, io, completion, holder, stopper>>
vars == <<countVars, flagVars, queueVars, event, bufVars, aheadVars, irp, thrVars,
          diskVars, envVars>>

\* Where on the device the logical unit u is, given the end of the encrypted area.
DeviceUnit(u, e) == IF Remap /\ Intersection(u, 1, e) # {} THEN u + RemapOffset ELSE u

\* The plaintext v of logical unit u as it is stored.
Encoded(u, v, e) ==
    IF ~IsFilterDevice \/ Intersection(u, 1, e) # {}
    THEN [as |-> u + DataUnitOffset, v |-> v] ELSE Plain(v)

NoReadAhead == [valid |-> FALSE, off |-> 0, len |-> 0, data |-> <<>>]
NoRequest == [op |-> "other", off |-> 0, len |-> 0, mis |-> "no"]
NoFragment == [irp |-> Nobody, off |-> 0, len |-> 0, pos |-> 0, last |-> TRUE,
               enc |-> {}, buf |-> "A"]

\* The main thread between two IRPs remembers only the active fragment buffer.
IdleMain(b, pc) == [pc |-> pc, irp |-> Nobody, off |-> 0, left |-> 0, pos |-> 0,
                    req |-> [NoFragment EXCEPT !.buf = b]]

Init ==
    /\ OutstandingIoCount = 0 /\ IoThreadPendingRequestCount = 0
    /\ StopPending = FALSE /\ SuspendPending = FALSE
    /\ Suspended = FALSE /\ ThreadExitRequested = FALSE
    /\ MainThreadQueue = <<>> /\ IoThreadQueue = <<>> /\ CompletionThreadQueue = <<>>
    /\ event = [e \in {"main", "io", "completion", "noOutstanding", "poolFree", "resumed",
                       "A", "B"} |-> e \in {"A", "B"}]
    /\ fragment = [b \in {"A", "B"} |-> <<>>]
    /\ readAhead = NoReadAhead
    /\ lastRead = [off |-> 0, len |-> 0]
    /\ freeItems = ItemCount /\ freeRequests = RequestCount
    /\ removeLock = [held |-> {}, removing |-> FALSE]
    /\ irp = [i \in Irps |-> [disp |-> "new", req |-> NoRequest, done |-> 0,
                              status |-> "pending", data |-> <<>>]]
    /\ main = IdleMain("A", "wait")
    /\ io = [pc |-> "wait", req |-> NoFragment]
    /\ completion = [pc |-> "wait", req |-> NoFragment]
    /\ holder = [pc |-> "idle", holds |-> 0]
    /\ stopper = "idle"
    /\ EncryptedAreaEnd = InitialEnd
    /\ disk = [d \in Units |->
                 IF \E u \in Units : DeviceUnit(u, InitialEnd) = d /\ d # u
                 THEN Encoded(d - RemapOffset, 0, InitialEnd)
                 ELSE IF DeviceUnit(d, InitialEnd) # d THEN Garbage
                 ELSE Encoded(d, 0, InitialEnd)]
    /\ hiddenVolProtectionAction = FALSE
    /\ content = [u \in Units |-> 0]
    /\ seen = [i \in Irps |-> [u \in Units |-> {}]]

Set(e) == event' = [event EXCEPT ![e] = TRUE]

\* A wait on an auto-reset event.
Wait(e) == event[e] /\ event' = [event EXCEPT ![e] = FALSE]

\* CompleteOriginalIrp in three steps: the IRP is completed and counted off; the
\* thread that counted to zero looks whether somebody waits for that; the remove
\* lock and the item are released.
CompleteIrp(i) ==
    /\ irp' = [irp EXCEPT ![i].done = @ + 1]
    /\ OutstandingIoCount' = OutstandingIoCount - 1
AfterComplete == IF OutstandingIoCount - 1 = 0 THEN "signalIdle" ELSE "releaseItem"
SignalIfIdle ==
    event' = [event EXCEPT !["noOutstanding"] = @ \/ SuspendPending \/ StopPending]
\* Mutant of ReleaseItem: the item goes back to the pool twice.
ReleaseItemTwice(i) ==
    /\ freeItems' = freeItems + 2
    /\ removeLock' = [removeLock EXCEPT !.held = @ \ {i}]
    /\ Set("poolFree")

ReleaseItem(i) ==
    /\ freeItems' = freeItems + 1
    /\ removeLock' = [removeLock EXCEPT !.held = @ \ {i}]
    /\ Set("poolFree")
ReleaseRequest == freeRequests' = freeRequests + 1 /\ Set("poolFree")

Success(i) == irp[i].status = "ok"

-----------------------------------------------------------------------------
(***************************************************************************)
(* EncryptedIoQueueAddIrp, called by the dispatch routines.                *)
(***************************************************************************)
Dispatch(i, pc) == irp' = [irp EXCEPT ![i].disp = pc]
dispatchRest == <<bufVars, aheadVars, flagVars, IoThreadPendingRequestCount, IoThreadQueue,
                  CompletionThreadQueue, thrVars, disk, EncryptedAreaEnd, content,
                  hiddenVolProtectionAction>>

\* IRPs are numbered in the order in which they arrive.
AddIrp(i, req) ==
    /\ irp[i].disp = "new" /\ \A j \in Irps : j < i => irp[j].disp # "new"
    /\ Cardinality({j \in Irps : irp[j].disp \notin {"new", "rejected"} /\ irp[j].done = 0}) < MaxPending
    /\ OutstandingIoCount' = OutstandingIoCount + 1
    /\ irp' = [irp EXCEPT ![i].disp = "counted", ![i].req = req]
    /\ seen' = [seen EXCEPT ![i] = IF req.op = "other" THEN @ ELSE [u \in Units |-> {content[u]}]]
    /\ UNCHANGED <<dispatchRest, MainThreadQueue, event, removeLock>>

\* The remove lock cannot be acquired once the device is being removed.
AddIrpCheck(i) ==
    /\ irp[i].disp = "counted"
    /\ IF StopPending \/ removeLock.removing
       THEN Dispatch(i, "refused") /\ UNCHANGED removeLock
       ELSE /\ Dispatch(i, "locked")
            /\ removeLock' = [removeLock EXCEPT !.held = @ \cup {i}]
    /\ UNCHANGED <<dispatchRest, OutstandingIoCount, MainThreadQueue, event, seen>>

AddIrpInsert(i) ==
    /\ irp[i].disp = "locked"
    /\ Dispatch(i, "inserted")
    /\ MainThreadQueue' = Append(MainThreadQueue, i)
    /\ UNCHANGED <<dispatchRest, OutstandingIoCount, event, removeLock, seen>>

AddIrpSignal(i) ==
    /\ irp[i].disp = "inserted"
    /\ Dispatch(i, "returned")
    /\ Set("main")
    /\ UNCHANGED <<dispatchRest, OutstandingIoCount, MainThreadQueue, removeLock, seen>>

\* Mutant of AddIrpErr: a refused IRP is not counted off.
AddIrpErrCounted(i) ==
    /\ irp[i].disp = "refused"
    /\ Dispatch(i, "rejected")
    /\ UNCHANGED <<dispatchRest, OutstandingIoCount, MainThreadQueue, event, removeLock, seen>>

AddIrpErr(i) ==
    /\ irp[i].disp = "refused"
    /\ OutstandingIoCount' = OutstandingIoCount - 1
    /\ Dispatch(i, IF OutstandingIoCount' = 0 THEN "refusedIdle" ELSE "rejected")
    /\ UNCHANGED <<dispatchRest, MainThreadQueue, event, removeLock, seen>>

AddIrpErrSignal(i) ==
    /\ irp[i].disp = "refusedIdle"
    /\ Dispatch(i, "rejected")
    /\ SignalIfIdle
    /\ UNCHANGED <<dispatchRest, OutstandingIoCount, MainThreadQueue, removeLock, seen>>

-----------------------------------------------------------------------------
(***************************************************************************)
(* MainThreadProc.                                                         *)
(***************************************************************************)
MainGoTo(pc) == main' = [main EXCEPT !.pc = pc]
MainDone == main' = IdleMain(main.req.buf, "dequeue")
mainRest == <<flagVars, aheadVars, CompletionThreadQueue, io, completion, holder, stopper, diskVars>>

MainWait ==
    /\ main.pc = "wait"
    /\ Wait("main")
    /\ MainGoTo("dequeue")
    /\ UNCHANGED <<mainRest, countVars, MainThreadQueue, IoThreadQueue, bufVars, irp, envVars>>

\* The exit request is only looked at when the queue is empty.
MainDequeue ==
    /\ main.pc = "dequeue"
    /\ IF MainThreadQueue = <<>>
       THEN /\ MainGoTo(IF ThreadExitRequested THEN "exited" ELSE "wait")
            /\ UNCHANGED MainThreadQueue
       ELSE /\ main' = [main EXCEPT !.pc = "gate", !.irp = Head(MainThreadQueue)]
            /\ MainThreadQueue' = Tail(MainThreadQueue)
    /\ UNCHANGED <<mainRest, countVars, IoThreadQueue, event, bufVars, irp, envVars>>

MainGate ==
    /\ main.pc = "gate"
    /\ MainGoTo(IF Suspended THEN "suspended" ELSE "getItem")
    /\ UNCHANGED <<mainRest, countVars, MainThreadQueue, IoThreadQueue, event, bufVars, irp, envVars>>

\* One wait: the flag is not looked at again.
MainWaitResumed ==
    /\ main.pc = "suspended"
    /\ Wait("resumed")
    /\ MainGoTo("getItem")
    /\ UNCHANGED <<mainRest, countVars, MainThreadQueue, IoThreadQueue, bufVars, irp, envVars>>

\* GetPoolBuffer: take a free buffer of the size, or wait until one is released.
MainGetItem ==
    /\ main.pc = "getItem"
    /\ IF freeItems > 0
       THEN /\ freeItems' = freeItems - 1
            /\ irp' = [irp EXCEPT ![main.irp].status = "ok"]
            /\ MainGoTo("check")
       ELSE MainGoTo("waitItem") /\ UNCHANGED <<freeItems, irp>>
    /\ UNCHANGED <<mainRest, countVars, MainThreadQueue, IoThreadQueue, event, fragment,
                   freeRequests, envVars>>

MainWaitPool ==
    /\ main.pc \in {"waitItem", "waitRequest"}
    /\ Wait("poolFree")
    /\ MainGoTo(IF main.pc = "waitItem" THEN "getItem" ELSE "getRequest")
    /\ UNCHANGED <<mainRest, countVars, MainThreadQueue, IoThreadQueue, bufVars, irp, envVars>>

\* Offset on the host of a volume.
HostOffset(r) == IF IsFilterDevice THEN r.off ELSE r.off + DataOffset

Aligned(r) == r.len > 0 /\ r.mis = "no"
MisalignedRead(r) == IsFilterDevice /\ r.op = "read" /\ r.len > 0 /\ r.mis = "offset"

\* A request that is malformed, past the end of the volume, or a write into the
\* protected hidden volume, or after such a write.
InvalidParameter(r) ==
    \/ r.op = "other" \/ ~Aligned(r)
    \/ ~IsFilterDevice /\ r.off + r.len > VirtualDeviceLength
    \/ /\ r.op = "write" /\ ~IsFilterDevice /\ Protected # {}
       /\ hiddenVolProtectionAction \/ Overlap(HostOffset(r), r.len, Protected)

\* Why the main thread completes an IRP without I/O; "no" if it does not.  A
\* cancelled IRP and one whose buffer cannot be mapped are choices of the system.
Refusal(r) ==
    IF InvalidParameter(r) THEN "invalid"
    ELSE IF /\ r.op = "write" /\ IsFilterDevice
            /\ Overlap(r.off, r.len, Header \cup Forbidden)
         THEN "writeProtected" ELSE "no"

\* The hidden volume protection is triggered by the first write that reaches into it.
Triggers(r) ==
    /\ r.op = "write" /\ Aligned(r) /\ ~IsFilterDevice
    /\ r.off + r.len <= VirtualDeviceLength
    /\ Overlap(HostOffset(r), r.len, Protected)

MainRefuse ==
    LET r == irp[main.irp].req
    IN  /\ main.pc = "check"
        /\ \E st \in SystemRefusals \cup {Refusal(r)} :
              /\ st = "noResources" => Refusal(r) = "no" \/ MisalignedRead(r)
              /\ st = Refusal(r) => Refusal(r) # "no" /\ ~MisalignedRead(r)
              /\ irp' = [irp EXCEPT ![main.irp].status = st]
              /\ hiddenVolProtectionAction' =
                    (hiddenVolProtectionAction \/ (st = Refusal(r) /\ Triggers(r)))
        /\ MainGoTo("complete")
        /\ UNCHANGED <<mainRest, countVars, MainThreadQueue, IoThreadQueue, event, bufVars, removeLock>>

\* A misaligned read of the drive is done by the main thread itself, one unit
\* longer, past the I/O thread; the area is decrypted, but not remapped.
MainReadMisaligned ==
    LET r == irp[main.irp].req
        Read(k) == LET u == r.off + k - 1
                   IN  IF u \in Intersection(r.off, r.len + 1, EncryptedAreaEnd)
                       THEN DecryptDataUnit(disk[u], u) ELSE disk[u]
    IN  /\ main.pc = "check"
        /\ MisalignedRead(r)
        /\ \/ irp' = [irp EXCEPT ![main.irp].data = [k \in 1 .. r.len + 1 |-> Read(k)]]
           \/ Faults /\ irp' = [irp EXCEPT ![main.irp].status = "failed"]
        /\ MainGoTo("complete")
        /\ UNCHANGED <<mainRest, countVars, MainThreadQueue, IoThreadQueue, event, bufVars, envVars>>

MainBeginFragments ==
    LET r == irp[main.irp].req
    IN  /\ main.pc = "check"
        /\ ~MisalignedRead(r) /\ Refusal(r) = "no"
        /\ main' = [main EXCEPT !.pc = "fragment", !.off = HostOffset(r), !.left = r.len, !.pos = 1]
        /\ irp' = [irp EXCEPT ![main.irp].data = [k \in 1 .. r.len |-> Garbage]]
        /\ UNCHANGED <<mainRest, countVars, MainThreadQueue, IoThreadQueue, event, bufVars, envVars>>

MainComplete ==
    /\ main.pc = "complete"
    /\ CompleteIrp(main.irp)
    /\ MainGoTo(AfterComplete)
    /\ UNCHANGED <<mainRest, IoThreadPendingRequestCount, MainThreadQueue, IoThreadQueue, event,
                   bufVars, envVars>>

MainSignalIdle ==
    /\ main.pc = "signalIdle"
    /\ SignalIfIdle
    /\ MainGoTo("releaseItem")
    /\ UNCHANGED <<mainRest, countVars, MainThreadQueue, IoThreadQueue, bufVars, irp, envVars>>

MainReleaseItem ==
    /\ main.pc = "releaseItem"
    /\ ReleaseItem(main.irp)
    /\ MainDone
    /\ UNCHANGED <<mainRest, countVars, MainThreadQueue, IoThreadQueue, irp, fragment,
                   freeRequests, hiddenVolProtectionAction>>

OtherBuffer(b) == IF b = "A" THEN "B" ELSE "A"

\* The other fragment buffer becomes active and the request is counted.
MainNextFragment ==
    LET last == main.left <= MaxFragment
    IN  /\ main.pc = "fragment"
        /\ IoThreadPendingRequestCount' = IoThreadPendingRequestCount + 1
        /\ main' = [main EXCEPT !.pc = "getRequest",
                      !.req = [irp |-> main.irp, off |-> main.off, last |-> last, pos |-> main.pos,
                               len |-> IF last THEN main.left ELSE MaxFragment,
                               enc |-> {}, buf |-> OtherBuffer(main.req.buf)]]
        /\ UNCHANGED <<mainRest, OutstandingIoCount, MainThreadQueue, IoThreadQueue, event,
                       bufVars, irp, envVars>>

\* The part of the fragment in the encrypted area is taken from the area of now.
MainGetRequest ==
    /\ main.pc = "getRequest"
    /\ IF freeRequests > 0
       THEN /\ freeRequests' = freeRequests - 1
            /\ main' = [main EXCEPT !.pc = "acquire", !.req.enc =
                          IF IsFilterDevice
                          THEN Intersection(main.req.off, main.req.len, EncryptedAreaEnd)
                          ELSE main.req.off .. main.req.off + main.req.len - 1]
       ELSE MainGoTo("waitRequest") /\ UNCHANGED freeRequests
    /\ UNCHANGED <<mainRest, countVars, MainThreadQueue, IoThreadQueue, event, fragment,
                   freeItems, irp, envVars>>

\* Mutant of MainAcquireBuffer: the buffer is used without waiting for its release.
MainTakesBuffer ==
    LET q == main.req
        Cell(k) == LET u == q.off + k - 1
                   IN  IF u \in q.enc
                       THEN EncryptDataUnit(Plain(q.irp), u + DataUnitOffset) ELSE Plain(q.irp)
    IN  /\ main.pc = "acquire"
        /\ event' = [event EXCEPT ![q.buf] = FALSE]
        /\ fragment' = IF irp[q.irp].req.op = "write"
                       THEN [fragment EXCEPT ![q.buf] = [k \in 1 .. q.len |-> Cell(k)]]
                       ELSE fragment
        /\ MainGoTo("enqueue")
        /\ UNCHANGED <<mainRest, countVars, MainThreadQueue, IoThreadQueue, freeItems,
                       freeRequests, irp, envVars>>

\* The data of a write is copied into the buffer and encrypted there.
MainAcquireBuffer ==
    LET q == main.req
        Cell(k) == LET u == q.off + k - 1
                   IN  IF u \in q.enc
                       THEN EncryptDataUnit(Plain(q.irp), u + DataUnitOffset) ELSE Plain(q.irp)
    IN  /\ main.pc = "acquire"
        /\ Wait(q.buf)
        /\ fragment' = IF irp[q.irp].req.op = "write"
                       THEN [fragment EXCEPT ![q.buf] = [k \in 1 .. q.len |-> Cell(k)]]
                       ELSE fragment
        /\ MainGoTo("enqueue")
        /\ UNCHANGED <<mainRest, countVars, MainThreadQueue, IoThreadQueue, freeItems,
                       freeRequests, irp, envVars>>

MainEnqueue ==
    /\ main.pc = "enqueue"
    /\ IoThreadQueue' = Append(IoThreadQueue, main.req)
    /\ MainGoTo("signalIo")
    /\ UNCHANGED <<mainRest, countVars, MainThreadQueue, event, bufVars, irp, envVars>>

MainSignalIo ==
    /\ main.pc = "signalIo"
    /\ Set("io")
    /\ IF main.req.last THEN MainDone
       ELSE main' = [main EXCEPT !.pc = "fragment", !.off = @ + MaxFragment,
                                 !.left = @ - MaxFragment, !.pos = @ + MaxFragment]
    /\ UNCHANGED <<mainRest, countVars, MainThreadQueue, IoThreadQueue, bufVars, irp, envVars>>

-----------------------------------------------------------------------------
(***************************************************************************)
(* IoThreadProc.                                                           *)
(***************************************************************************)
IoGoTo(pc) == io' = [io EXCEPT !.pc = pc]
IoDone == io' = [pc |-> "dequeue", req |-> NoFragment]
ioRest == <<flagVars, MainThreadQueue, main, completion, holder, stopper, EncryptedAreaEnd,
            hiddenVolProtectionAction>>

IoWait ==
    /\ io.pc = "wait"
    /\ Wait("io")
    /\ IoGoTo(IF ThreadExitRequested THEN "exited" ELSE "dequeue")
    /\ UNCHANGED <<ioRest, countVars, IoThreadQueue, CompletionThreadQueue, bufVars, aheadVars,
                   irp, disk, content, seen, removeLock>>

IoDequeue ==
    /\ io.pc = "dequeue"
    /\ IF IoThreadQueue = <<>>
       THEN /\ IoGoTo(IF ThreadExitRequested THEN "exited" ELSE "wait")
            /\ UNCHANGED <<IoThreadQueue, IoThreadPendingRequestCount>>
       ELSE /\ io' = [pc |-> "access", req |-> Head(IoThreadQueue)]
            /\ IoThreadQueue' = Tail(IoThreadQueue)
            /\ IoThreadPendingRequestCount' = IoThreadPendingRequestCount - 1
    /\ UNCHANGED <<ioRest, OutstandingIoCount, CompletionThreadQueue, event, bufVars, aheadVars,
                   irp, disk, content, seen, removeLock>>

\* The device accesses of a request, as [k, n, dev]: n units from the k-th of the
\* request, at dev on the device.  A remapped area cuts a request into up to three.
Parts(q) ==
    LET first == CHOOSE u \in q.enc : \A w \in q.enc : u <= w
        n == Cardinality(q.enc)
        before == [k |-> 1, n |-> first - q.off, dev |-> q.off]
        inside == [k |-> first - q.off + 1, n |-> n, dev |-> first + RemapOffset]
        after  == [k |-> first - q.off + n + 1, n |-> q.off + q.len - (first + n), dev |-> first + n]
    IN  IF ~Remap \/ q.enc = {} THEN <<[k |-> 1, n |-> q.len, dev |-> q.off]>>
        ELSE IF before.n > 0 /\ after.n > 0 THEN <<before, inside, after>>
        ELSE IF before.n > 0 THEN <<before, inside>>
        ELSE IF after.n > 0 THEN <<inside, after>> ELSE <<inside>>

PartUnits(part) == part.k .. part.k + part.n - 1

\* TCCachedRead: the part is served from the read-ahead buffer.
Cached(part) == readAhead.valid /\ readAhead.off = part.dev /\ readAhead.len >= part.n

\* Device accesses may fail; a part served from the buffer does not.
Outcomes(q) ==
    {ok \in [DOMAIN Parts(q) -> BOOLEAN] :
        \A p \in DOMAIN ok : ~ok[p] => Faults /\ (irp[q.irp].req.op = "read" => ~Cached(Parts(q)[p]))}

\* Item->Status is what the last access returned.
StatusOf(ok) == IF ok[Len(ok)] THEN "ok" ELSE "failed"

\* An earlier request of the item failed: no access.
IoSkip ==
    /\ io.pc = "access" /\ ~Success(io.req.irp)
    /\ IoGoTo("accessed")
    /\ UNCHANGED <<ioRest, countVars, IoThreadQueue, CompletionThreadQueue, event, bufVars,
                   aheadVars, irp, disk, content, seen, removeLock>>

IoWrite ==
    LET q == io.req
        parts == Parts(q)
        Written(ok) == {k \in 1 .. q.len : \E p \in DOMAIN ok : ok[p] /\ k \in PartUnits(parts[p])}
        Logical(ks) == {q.off + k - 1 : k \in ks}
    IN  /\ io.pc = "access" /\ Success(q.irp) /\ irp[q.irp].req.op = "write"
        /\ \E ok \in Outcomes(q) :
              /\ disk' = [d \in Units |->
                    IF \E p \in DOMAIN ok : ok[p] /\ d \in parts[p].dev .. parts[p].dev + parts[p].n - 1
                    THEN LET p == CHOOSE p \in DOMAIN ok :
                                    d \in parts[p].dev .. parts[p].dev + parts[p].n - 1
                         IN  fragment[q.buf][parts[p].k + d - parts[p].dev]
                    ELSE disk[d]]
              /\ content' = [u \in Units |-> IF u \in Logical(Written(ok)) THEN q.irp ELSE content[u]]
              /\ seen' = [i \in Irps |-> [u \in Units |->
                             IF irp[i].disp # "new" /\ irp[i].done = 0
                             THEN seen[i][u] \cup {content'[u]} ELSE seen[i][u]]]
              /\ irp' = [irp EXCEPT ![q.irp].status = StatusOf(ok)]
        /\ IoGoTo("accessed")
        /\ UNCHANGED <<ioRest, countVars, IoThreadQueue, CompletionThreadQueue, event, bufVars,
                       aheadVars, removeLock>>

IoRead ==
    LET q == io.req
        parts == Parts(q)
        Cell(k, ok) ==
            LET p == CHOOSE p \in DOMAIN parts : k \in PartUnits(parts[p])
            IN  IF Cached(parts[p]) THEN readAhead.data[k - parts[p].k + 1]
                ELSE IF ok[p] THEN disk[parts[p].dev + k - parts[p].k] ELSE Garbage
    IN  /\ io.pc = "access" /\ Success(q.irp) /\ irp[q.irp].req.op = "read"
        /\ \E ok \in Outcomes(q) :
              /\ fragment' = [fragment EXCEPT ![q.buf] = [k \in 1 .. q.len |-> Cell(k, ok)]]
              /\ irp' = [irp EXCEPT ![q.irp].status = StatusOf(ok)]
        /\ lastRead' = [off |-> parts[Len(parts)].dev, len |-> parts[Len(parts)].n]
        /\ IoGoTo("accessed")
        /\ UNCHANGED <<ioRest, countVars, IoThreadQueue, CompletionThreadQueue, event, freeItems,
                       freeRequests, readAhead, disk, content, seen, removeLock>>

\* The contents of a released buffer are of no interest.
ReleaseFragmentBuffer(b) == Set(b) /\ fragment' = [fragment EXCEPT ![b] = <<>>]

\* Mutant of IoAfterWrite: the read-ahead buffer survives a write.
IoAfterWriteStale ==
    /\ io.pc = "accessed" /\ irp[io.req.irp].req.op = "write"
    /\ ReleaseFragmentBuffer(io.req.buf)
    /\ IoGoTo(IF io.req.last THEN "complete" ELSE "releaseRequest")
    /\ UNCHANGED <<ioRest, countVars, IoThreadQueue, CompletionThreadQueue, freeItems, freeRequests,
                   aheadVars, irp, disk, content, seen, removeLock>>

IoAfterWrite ==
    /\ io.pc = "accessed" /\ irp[io.req.irp].req.op = "write"
    /\ readAhead' = NoReadAhead
    /\ ReleaseFragmentBuffer(io.req.buf)
    /\ IoGoTo(IF io.req.last THEN "complete" ELSE "releaseRequest")
    /\ UNCHANGED <<ioRest, countVars, IoThreadQueue, CompletionThreadQueue, freeItems, freeRequests, lastRead,
                   irp, disk, content, seen, removeLock>>

\* Whether the I/O thread will read ahead after the request: it was the last of
\* its IRP, it succeeded and no other request is under way.
ReadAheadWanted(q) ==
    q.last /\ lastRead.len > 0 /\ Success(q.irp) /\ IoThreadPendingRequestCount = 0

\* The data is copied out of the fragment buffer; a read-ahead counts as outstanding.
IoAfterRead ==
    LET q == io.req
    IN  /\ io.pc = "accessed" /\ irp[q.irp].req.op = "read"
        /\ irp' = IF Success(q.irp)
                  THEN [irp EXCEPT ![q.irp].data =
                          [k \in DOMAIN @ |-> IF k \in q.pos .. q.pos + q.len - 1
                                              THEN fragment[q.buf][k - q.pos + 1] ELSE @[k]]]
                  ELSE irp
        /\ ReleaseFragmentBuffer(q.buf)
        /\ OutstandingIoCount' = OutstandingIoCount + (IF ReadAheadWanted(q) THEN 1 ELSE 0)
        /\ IoGoTo(IF ReadAheadWanted(q) THEN "handOverAhead" ELSE "handOver")
        /\ UNCHANGED <<ioRest, IoThreadPendingRequestCount, IoThreadQueue, CompletionThreadQueue,
                       freeItems, freeRequests, aheadVars, disk, content, seen, removeLock>>

IoHandOver ==
    /\ io.pc \in {"handOver", "handOverAhead"}
    /\ CompletionThreadQueue' = Append(CompletionThreadQueue, io.req)
    /\ IoGoTo(IF io.pc = "handOver" THEN "signal" ELSE "signalAhead")
    /\ UNCHANGED <<ioRest, countVars, IoThreadQueue, event, bufVars, aheadVars,
                   irp, disk, content, seen, removeLock>>

IoSignalCompletion ==
    /\ io.pc \in {"signal", "signalAhead"}
    /\ Set("completion")
    /\ IF io.pc = "signal" THEN IoDone ELSE IoGoTo("readAhead")
    /\ UNCHANGED <<ioRest, countVars, IoThreadQueue, CompletionThreadQueue, bufVars, aheadVars,
                   irp, disk, content, seen, removeLock>>

\* As much as the last read, from where it ended.
IoReadAhead ==
    LET o == lastRead.off + lastRead.len
        within == o + lastRead.len <= MaxReadAheadOffset
    IN  /\ io.pc = "readAhead"
        /\ \E ok \in IF Faults THEN BOOLEAN ELSE {TRUE} :
              readAhead' = IF ok /\ within
                           THEN [valid |-> TRUE, off |-> o, len |-> lastRead.len,
                                 data |-> [k \in 1 .. lastRead.len |-> disk[o + k - 1]]]
                           ELSE NoReadAhead
        /\ IoGoTo("aheadDone")
        /\ UNCHANGED <<ioRest, countVars, IoThreadQueue, CompletionThreadQueue, event, bufVars,
                       lastRead, irp, disk, content, seen, removeLock>>

IoReadAheadDone ==
    /\ io.pc = "aheadDone"
    /\ OutstandingIoCount' = OutstandingIoCount - 1
    /\ IF OutstandingIoCount' = 0 THEN IoGoTo("aheadIdle") ELSE IoDone
    /\ UNCHANGED <<ioRest, IoThreadPendingRequestCount, IoThreadQueue, CompletionThreadQueue, event,
                   bufVars, aheadVars, irp, disk, content, seen, removeLock>>

IoComplete ==
    /\ io.pc = "complete"
    /\ CompleteIrp(io.req.irp)
    /\ IoGoTo(AfterComplete)
    /\ UNCHANGED <<ioRest, IoThreadPendingRequestCount, IoThreadQueue, CompletionThreadQueue, event,
                   bufVars, aheadVars, disk, content, seen, removeLock>>

IoSignalIdle ==
    /\ io.pc \in {"signalIdle", "aheadIdle"}
    /\ SignalIfIdle
    /\ IF io.pc = "signalIdle" THEN IoGoTo("releaseItem") ELSE IoDone
    /\ UNCHANGED <<ioRest, countVars, IoThreadQueue, CompletionThreadQueue, bufVars, aheadVars,
                   irp, disk, content, seen, removeLock>>

IoReleaseItem ==
    /\ io.pc = "releaseItem"
    /\ ReleaseItem(io.req.irp)
    /\ IoGoTo("releaseRequest")
    /\ UNCHANGED <<ioRest, countVars, IoThreadQueue, CompletionThreadQueue, fragment, freeRequests,
                   aheadVars, irp, disk, content, seen>>

IoReleaseRequest ==
    /\ io.pc = "releaseRequest"
    /\ ReleaseRequest
    /\ IoDone
    /\ UNCHANGED <<ioRest, countVars, IoThreadQueue, CompletionThreadQueue, fragment, freeItems,
                   aheadVars, irp, disk, content, seen, removeLock>>

-----------------------------------------------------------------------------
(***************************************************************************)
(* CompletionThreadProc.                                                   *)
(***************************************************************************)
CompletionGoTo(pc) == completion' = [completion EXCEPT !.pc = pc]
completionRest == <<flagVars, IoThreadPendingRequestCount, MainThreadQueue, IoThreadQueue,
                    aheadVars, fragment, main, io, holder, stopper, diskVars,
                    hiddenVolProtectionAction>>

CompletionWait ==
    /\ completion.pc = "wait"
    /\ Wait("completion")
    /\ CompletionGoTo(IF ThreadExitRequested THEN "exited" ELSE "dequeue")
    /\ UNCHANGED <<completionRest, OutstandingIoCount, CompletionThreadQueue, freeItems,
                   freeRequests, irp, removeLock>>

CompletionDequeue ==
    /\ completion.pc = "dequeue"
    /\ IF CompletionThreadQueue = <<>>
       THEN /\ CompletionGoTo(IF ThreadExitRequested THEN "exited" ELSE "wait")
            /\ UNCHANGED CompletionThreadQueue
       ELSE /\ completion' = [pc |-> "decrypt", req |-> Head(CompletionThreadQueue)]
            /\ CompletionThreadQueue' = Tail(CompletionThreadQueue)
    /\ UNCHANGED <<completionRest, OutstandingIoCount, event, freeItems, freeRequests, irp, removeLock>>

\* What was in the encrypted area when the request was made is decrypted in place.
CompletionDecrypt ==
    LET q == completion.req
        Cell(k, cell) == LET u == q.off + k - q.pos
                         IN  IF k >= q.pos /\ u \in q.enc
                             THEN DecryptDataUnit(cell, u + DataUnitOffset) ELSE cell
    IN  /\ completion.pc = "decrypt"
        /\ irp' = IF Success(q.irp)
                  THEN [irp EXCEPT ![q.irp].data = [k \in DOMAIN @ |-> Cell(k, @[k])]]
                  ELSE irp
        /\ CompletionGoTo(IF q.last THEN "complete" ELSE "releaseRequest")
        /\ UNCHANGED <<completionRest, OutstandingIoCount, CompletionThreadQueue, event, freeItems,
                       freeRequests, removeLock>>

CompletionComplete ==
    /\ completion.pc = "complete"
    /\ CompleteIrp(completion.req.irp)
    /\ CompletionGoTo(AfterComplete)
    /\ UNCHANGED <<completionRest, CompletionThreadQueue, event, freeItems, freeRequests, removeLock>>

CompletionSignalIdle ==
    /\ completion.pc = "signalIdle"
    /\ SignalIfIdle
    /\ CompletionGoTo("releaseItem")
    /\ UNCHANGED <<completionRest, OutstandingIoCount, CompletionThreadQueue, freeItems,
                   freeRequests, irp, removeLock>>

CompletionReleaseItem ==
    /\ completion.pc = "releaseItem"
    /\ ReleaseItem(completion.req.irp)
    /\ CompletionGoTo("releaseRequest")
    /\ UNCHANGED <<completionRest, OutstandingIoCount, CompletionThreadQueue, freeRequests, irp>>

CompletionReleaseRequest ==
    /\ completion.pc = "releaseRequest"
    /\ ReleaseRequest
    /\ completion' = [pc |-> "dequeue", req |-> NoFragment]
    /\ UNCHANGED <<completionRest, OutstandingIoCount, CompletionThreadQueue, freeItems, irp, removeLock>>

-----------------------------------------------------------------------------
(***************************************************************************)
(* EncryptedIoQueueHoldWhenIdle and EncryptedIoQueueResumeFromHold, called *)
(* by the set-up thread of the drive filter, and what it does in between.  *)
(***************************************************************************)
HolderGoTo(pc) == holder' = [holder EXCEPT !.pc = pc]
holderRest == <<countVars, StopPending, ThreadExitRequested, queueVars, bufVars, lastRead, irp,
                main, io, completion, stopper, content, seen, envVars>>

HoldWhenIdle ==
    /\ IsFilterDevice /\ ~Remap /\ ~removeLock.removing
    /\ holder.pc = "idle" /\ holder.holds < MaxHolds
    /\ SuspendPending' = TRUE
    /\ holder' = [pc |-> "checkIdle", holds |-> holder.holds + 1]
    /\ UNCHANGED <<holderRest, Suspended, event, readAhead, disk, EncryptedAreaEnd>>

HoldCheckIdle ==
    /\ holder.pc = "checkIdle"
    /\ HolderGoTo(IF OutstandingIoCount > 0 THEN "waitIdle" ELSE "suspend")
    /\ UNCHANGED <<holderRest, SuspendPending, Suspended, event, readAhead, disk, EncryptedAreaEnd>>

HoldWait ==
    /\ holder.pc = "waitIdle"
    /\ Wait("noOutstanding")
    /\ HolderGoTo("recheck")
    /\ UNCHANGED <<holderRest, SuspendPending, Suspended, readAhead, disk, EncryptedAreaEnd>>

\* The wait times out, or there is I/O again after it: the hold fails.
HoldFails ==
    /\ \/ holder.pc = "waitIdle"
       \/ holder.pc = "recheck" /\ OutstandingIoCount > 0
    /\ SuspendPending' = FALSE
    /\ HolderGoTo("idle")
    /\ UNCHANGED <<holderRest, Suspended, event, readAhead, disk, EncryptedAreaEnd>>

HoldRecheck ==
    /\ holder.pc = "recheck" /\ OutstandingIoCount = 0
    /\ HolderGoTo("checkIdle")
    /\ UNCHANGED <<holderRest, SuspendPending, Suspended, event, readAhead, disk, EncryptedAreaEnd>>

\* Mutant of HoldSuspend: a resume event that nobody waited for stays set.
HoldSuspendKeepsEvent ==
    /\ holder.pc = "suspend"
    /\ Suspended' = TRUE
    /\ HolderGoTo("confirm")
    /\ UNCHANGED <<holderRest, SuspendPending, event, readAhead, disk, EncryptedAreaEnd>>

HoldSuspend ==
    /\ holder.pc = "suspend"
    /\ event' = [event EXCEPT !["resumed"] = FALSE]
    /\ Suspended' = TRUE
    /\ HolderGoTo("confirm")
    /\ UNCHANGED <<holderRest, SuspendPending, readAhead, disk, EncryptedAreaEnd>>

\* I/O that came in before the queue was suspended is let through.
HoldConfirm ==
    /\ holder.pc = "confirm"
    /\ IF OutstandingIoCount = 0
       THEN HolderGoTo("suspended") /\ UNCHANGED Suspended
       ELSE HolderGoTo("backOut") /\ Suspended' = FALSE
    /\ UNCHANGED <<holderRest, SuspendPending, event, readAhead, disk, EncryptedAreaEnd>>

HoldBackOut ==
    /\ holder.pc = "backOut"
    /\ Set("resumed")
    /\ HolderGoTo("checkIdle")
    /\ UNCHANGED <<holderRest, SuspendPending, Suspended, readAhead, disk, EncryptedAreaEnd>>

\* Mutant of HoldReturns: the read-ahead buffer stays valid.
HoldReturnsStale ==
    /\ holder.pc = "suspended"
    /\ SuspendPending' = FALSE
    /\ HolderGoTo("held")
    /\ UNCHANGED <<holderRest, Suspended, event, readAhead, disk, EncryptedAreaEnd>>

\* What was read ahead may be re-encoded under the hold.
HoldReturns ==
    /\ holder.pc = "suspended"
    /\ readAhead' = NoReadAhead
    /\ SuspendPending' = FALSE
    /\ HolderGoTo("held")
    /\ UNCHANGED <<holderRest, Suspended, event, disk, EncryptedAreaEnd>>

FirstPlain == IF EncryptedAreaEnd = -1 THEN AreaStart ELSE EncryptedAreaEnd + 1

\* The set-up thread encrypts the block after the encrypted area, or decrypts the
\* last one of it, and only then moves the end of the area.
SetupEncryptsBlock ==
    /\ holder.pc = "held" /\ FirstPlain <= AreaEnd
    /\ disk' = [disk EXCEPT ![FirstPlain] = EncryptDataUnit(@, FirstPlain + DataUnitOffset)]
    /\ HolderGoTo("encrypted")
    /\ UNCHANGED <<holderRest, SuspendPending, Suspended, event, readAhead, EncryptedAreaEnd>>

SetupDecryptsBlock ==
    /\ holder.pc = "held" /\ EncryptedAreaEnd >= AreaStart
    /\ disk' = [disk EXCEPT ![EncryptedAreaEnd] = DecryptDataUnit(@, EncryptedAreaEnd + DataUnitOffset)]
    /\ HolderGoTo("decrypted")
    /\ UNCHANGED <<holderRest, SuspendPending, Suspended, event, readAhead, EncryptedAreaEnd>>

SetupMovesEnd ==
    /\ holder.pc \in {"encrypted", "decrypted"}
    /\ EncryptedAreaEnd' = IF holder.pc = "encrypted" THEN FirstPlain ELSE EncryptedAreaEnd - 1
    /\ HolderGoTo("moved")
    /\ UNCHANGED <<holderRest, SuspendPending, Suspended, event, readAhead, disk>>

ResumeFromHold ==
    /\ holder.pc = "moved"
    /\ Suspended' = FALSE
    /\ HolderGoTo("resuming")
    /\ UNCHANGED <<holderRest, SuspendPending, event, readAhead, disk, EncryptedAreaEnd>>

\* Mutant of ResumeSignals: the main thread is not woken.
ResumeSilently ==
    /\ holder.pc = "resuming"
    /\ HolderGoTo("idle")
    /\ UNCHANGED <<holderRest, SuspendPending, Suspended, event, readAhead, disk, EncryptedAreaEnd>>

ResumeSignals ==
    /\ holder.pc = "resuming"
    /\ Set("resumed")
    /\ HolderGoTo("idle")
    /\ UNCHANGED <<holderRest, SuspendPending, Suspended, readAhead, disk, EncryptedAreaEnd>>

-----------------------------------------------------------------------------
(***************************************************************************)
(* Removal of the device: UnmountDevice or IRP_MN_REMOVE_DEVICE, then      *)
(* EncryptedIoQueueStop.  The drive that is being set up is not removed.   *)
(***************************************************************************)
stopRest == <<countVars, SuspendPending, Suspended, queueVars, bufVars, aheadVars, irp,
              main, io, completion, holder, diskVars, hiddenVolProtectionAction>>

RemoveDevice ==
    /\ Removable /\ stopper = "idle" /\ holder.pc = "idle"
    /\ removeLock' = [removeLock EXCEPT !.removing = TRUE]
    /\ stopper' = "draining"
    /\ UNCHANGED <<stopRest, StopPending, ThreadExitRequested, event>>

\* IoReleaseRemoveLockAndWait has returned.
StopQueue ==
    /\ stopper = "draining" /\ removeLock.held = {}
    /\ StopPending' = TRUE
    /\ stopper' = "checkIdle"
    /\ UNCHANGED <<stopRest, ThreadExitRequested, event, removeLock>>

StopCheckIdle ==
    /\ stopper = "checkIdle"
    /\ IF OutstandingIoCount > 0
       THEN stopper' = "waitIdle" /\ UNCHANGED ThreadExitRequested
       ELSE stopper' = "stopMain" /\ ThreadExitRequested' = TRUE
    /\ UNCHANGED <<stopRest, StopPending, event, removeLock>>

StopWait ==
    /\ stopper = "waitIdle"
    /\ Wait("noOutstanding")
    /\ stopper' = "checkIdle"
    /\ UNCHANGED <<stopRest, StopPending, ThreadExitRequested, removeLock>>

\* TCStopThread: wake the thread, then wait until it has exited.
StopThread(pc, e, next) ==
    /\ stopper = pc
    /\ Set(e)
    /\ stopper' = next
    /\ UNCHANGED <<stopRest, StopPending, ThreadExitRequested, removeLock>>

Joined(pc, exited, next) ==
    /\ stopper = pc /\ exited
    /\ stopper' = next
    /\ UNCHANGED <<stopRest, StopPending, ThreadExitRequested, event, removeLock>>

StopThreads ==
    \/ StopThread("stopMain", "main", "joinMain")
    \/ Joined("joinMain", main.pc = "exited", "stopIo")
    \/ StopThread("stopIo", "io", "joinIo")
    \/ Joined("joinIo", io.pc = "exited", "stopCompletion")
    \/ StopThread("stopCompletion", "completion", "joinCompletion")
    \/ Joined("joinCompletion", completion.pc = "exited", "freeBuffers")

-----------------------------------------------------------------------------
Dispatcher(i) ==
    \/ AddIrpCheck(i) \/ AddIrpInsert(i) \/ AddIrpSignal(i) \/ AddIrpErr(i) \/ AddIrpErrSignal(i)
Arrival == \E i \in Irps, req \in Requests : AddIrp(i, req)

MainThread ==
    \/ MainWait \/ MainDequeue \/ MainGate \/ MainWaitResumed \/ MainGetItem \/ MainWaitPool
    \/ MainRefuse \/ MainReadMisaligned \/ MainBeginFragments \/ MainComplete \/ MainSignalIdle
    \/ MainReleaseItem \/ MainNextFragment \/ MainGetRequest \/ MainAcquireBuffer \/ MainEnqueue
    \/ MainSignalIo

IoThread ==
    \/ IoWait \/ IoDequeue \/ IoSkip \/ IoWrite \/ IoRead \/ IoAfterWrite \/ IoAfterRead
    \/ IoHandOver \/ IoSignalCompletion \/ IoReadAhead \/ IoReadAheadDone \/ IoComplete
    \/ IoSignalIdle \/ IoReleaseItem \/ IoReleaseRequest

CompletionThread ==
    \/ CompletionWait \/ CompletionDequeue \/ CompletionDecrypt \/ CompletionComplete
    \/ CompletionSignalIdle \/ CompletionReleaseItem \/ CompletionReleaseRequest

HolderStep ==
    \/ HoldCheckIdle \/ HoldWait \/ HoldFails \/ HoldRecheck \/ HoldSuspend \/ HoldConfirm
    \/ HoldBackOut \/ HoldReturns \/ SetupEncryptsBlock \/ SetupDecryptsBlock \/ SetupMovesEnd
    \/ ResumeFromHold \/ ResumeSignals

StopperStep == StopQueue \/ StopCheckIdle \/ StopWait \/ StopThreads

Next ==
    \/ Arrival \/ HoldWhenIdle \/ RemoveDevice
    \/ \E i \in Irps : Dispatcher(i)
    \/ MainThread \/ IoThread \/ CompletionThread \/ HolderStep \/ StopperStep

Spec == Init /\ [][Next]_vars

(***************************************************************************)
(* Every thread that can run does: the scheduler starves none.  Nothing    *)
(* forces an IRP, a hold or a removal to come.                             *)
(***************************************************************************)
Fairness ==
    /\ \A i \in Irps : WF_vars(Dispatcher(i))
    /\ WF_vars(MainThread) /\ WF_vars(IoThread) /\ WF_vars(CompletionThread)
    /\ WF_vars(HolderStep) /\ WF_vars(StopperStep)

FairSpec == Spec /\ Fairness

-----------------------------------------------------------------------------
(***************************************************************************)
(* Properties.                                                             *)
(***************************************************************************)
Cells == [as : Int, v : Nat]
Fragments == [irp : Irps \cup {Nobody}, off : Nat, len : Nat, pos : Nat, last : BOOLEAN,
              enc : SUBSET Nat, buf : {"A", "B"}]
Statuses == {"pending", "ok", "failed", "cancelled", "noResources", "invalid", "writeProtected"}

IsFragment(q) ==
    /\ q.irp \in Irps \cup {Nobody} /\ q.off \in Nat /\ q.len \in Nat /\ q.pos \in Nat
    /\ q.last \in BOOLEAN /\ q.buf \in {"A", "B"} /\ \A u \in q.enc : u \in Units

\* Type invariant of the queue's fields, the threads' locals and the device.
TypeOK ==
    /\ OutstandingIoCount \in Nat /\ IoThreadPendingRequestCount \in Nat
    /\ {StopPending, SuspendPending, Suspended, ThreadExitRequested,
        hiddenVolProtectionAction} \subseteq BOOLEAN
    /\ MainThreadQueue \in Seq(Irps)
    /\ \A n \in DOMAIN IoThreadQueue : IsFragment(IoThreadQueue[n])
    /\ \A n \in DOMAIN CompletionThreadQueue : IsFragment(CompletionThreadQueue[n])
    /\ \A e \in DOMAIN event : event[e] \in BOOLEAN
    /\ freeItems \in 0 .. ItemCount /\ freeRequests \in 0 .. RequestCount
    /\ removeLock.held \subseteq Irps /\ removeLock.removing \in BOOLEAN
    /\ \A i \in Irps : irp[i].status \in Statuses /\ irp[i].done \in Nat
    /\ IsFragment(main.req) /\ IsFragment(io.req) /\ IsFragment(completion.req)
    /\ \A b \in DOMAIN fragment : fragment[b] \in Seq(Cells)
    /\ disk \in [Units -> Cells] /\ EncryptedAreaEnd \in {-1} \cup (AreaStart - 1 .. AreaEnd)

\* Logical units that are on the device, except where another one is remapped to.
LogicalUnits ==
    {u \in Units : /\ DeviceUnit(u, EncryptedAreaEnd) \in Units
                   /\ ~\E w \in Units \ {u} : /\ DeviceUnit(w, EncryptedAreaEnd) # w
                                               /\ DeviceUnit(w, EncryptedAreaEnd) = u}

\* Every read that is completed with success returns plaintext that its units had
\* on the device at some time while the read was pending, whatever was written,
\* read ahead or re-encoded meanwhile.
ReadsReturnCurrentData ==
    \A i \in Irps :
        irp[i].done > 0 /\ irp[i].req.op = "read" /\ Success(i) =>
            \A k \in DOMAIN irp[i].data :
                LET cell == irp[i].data[k]
                IN  cell.as = -1 /\ cell.v \in seen[i][HostOffset(irp[i].req) + k - 1]

\* Except while the set-up thread is between re-encoding a block and moving the
\* end of the area, every unit is stored as the encrypted area says: no write was
\* encrypted for bounds that changed before it reached the device.
DeviceMatchesArea ==
    holder.pc \notin {"encrypted", "decrypted"} =>
        \A u \in LogicalUnits :
            disk[DeviceUnit(u, EncryptedAreaEnd)] = Encoded(u, content[u], EncryptedAreaEnd)

\* An IRP the main thread has let through and that is not completed.
Queued(i) == \E n \in DOMAIN MainThreadQueue : MainThreadQueue[n] = i
AtGate(i) == main.irp = i /\ main.pc \in {"gate", "suspended"}
Admitted(i) ==
    irp[i].disp \in {"inserted", "returned"} /\ irp[i].done = 0 /\ ~Queued(i) /\ ~AtGate(i)

\* From the moment EncryptedIoQueueHoldWhenIdle has confirmed the hold until the
\* resume, no IRP is between the gate and its completion, no request is queued and
\* the I/O thread is not reading ahead.
Held == holder.pc \in {"suspended", "held", "encrypted", "decrypted", "moved"}
HeldMeansQuiet ==
    Held => /\ \A i \in Irps : ~Admitted(i)
            /\ IoThreadQueue = <<>> /\ CompletionThreadQueue = <<>>
            /\ io.pc \notin {"access", "accessed", "readAhead", "signalAhead", "handOverAhead"}

\* OutstandingIoCount is the number of IRPs that entered AddIrp and were neither
\* completed nor refused, and of read-aheads: it never drops to zero early.
OutstandingCountExact ==
    OutstandingIoCount =
        Cardinality({i \in Irps : /\ irp[i].done = 0
                                  /\ irp[i].disp \in {"counted", "locked", "inserted",
                                                      "returned", "refused"}})
        + (IF io.pc \in {"handOverAhead", "signalAhead", "readAhead", "aheadDone"} THEN 1 ELSE 0)

\* Each fragment buffer is free or belongs to exactly one request between its
\* acquisition by the main thread and its release by the I/O thread.
FragmentBufferUsers(b) ==
    Cardinality({n \in DOMAIN IoThreadQueue : IoThreadQueue[n].buf = b})
    + (IF main.pc = "enqueue" /\ main.req.buf = b THEN 1 ELSE 0)
    + (IF io.pc \in {"access", "accessed"} /\ io.req.buf = b THEN 1 ELSE 0)
FragmentBuffersExclusive ==
    \A b \in {"A", "B"} : FragmentBufferUsers(b) = IF event[b] THEN 0 ELSE 1

\* No IRP is completed twice, by whichever thread.
CompletedOnce == \A i \in Irps : irp[i].done <= 1

\* When EncryptedIoQueueStop frees the buffers, none is in use (its assertion in
\* FreePoolBuffers), no queue holds anything and every accepted IRP is completed.
StoppedClean ==
    stopper = "freeBuffers" =>
        /\ freeItems = ItemCount /\ freeRequests = RequestCount
        /\ MainThreadQueue = <<>> /\ IoThreadQueue = <<>> /\ CompletionThreadQueue = <<>>
        /\ \A i \in Irps : irp[i].disp \in {"locked", "inserted", "returned"} => irp[i].done = 1

\* Nothing is ever written into the protected hidden volume, into the boot volume
\* header of the drive, nor, by a hidden system, into the boot loader or past the end
\* of the drive, whichever fragment of a write would reach there.
ProtectedUnitsIntact ==
    \A u \in Units \cap (Protected \cup Header \cup Forbidden) : content[u] = 0

\* Every accepted IRP is completed, through holds, resumes and exhausted pools.
IrpsComplete == \A i \in Irps : irp[i].disp = "locked" ~> irp[i].done = 1

\* The removal of the device, and with it EncryptedIoQueueStop, ends.
StopEnds == stopper = "draining" ~> stopper = "freeBuffers"

\* An IRP that is completed with success had all its device accesses succeed; for a
\* write: all its units are, or were after a later write, on the device.
SuccessMeansWritten ==
    \A i \in Irps :
        irp[i].done > 0 /\ irp[i].req.op = "write" /\ Success(i) =>
            \A k \in 1 .. irp[i].req.len :
                i \in seen[i][HostOffset(irp[i].req) + k - 1]

(***************************************************************************)
(* The queue implements the gate: it is held from the confirmation of a    *)
(* hold to the resume, and an IRP is admitted when the main thread passes  *)
(* the gate with it.                                                       *)
(***************************************************************************)
Gate == INSTANCE IoGate WITH
            waiting  <- {i \in Irps : irp[i].disp \in {"inserted", "returned"} /\ irp[i].done = 0
                                      /\ ~Admitted(i)},
            admitted <- {i \in Irps : Admitted(i)},
            finished <- {i \in Irps : irp[i].done > 0},
            held     <- Held

\* The specification of the gate, as a property of the queue.
ImplementsGate == Gate!Spec

(* What reads return, what is stored and what writes may touch, together. *)
QueueTransparent == ReadsReturnCurrentData /\ DeviceMatchesArea /\ ProtectedUnitsIntact

(* Fragments and IRPs: a fragment buffer has one user at a time, and an IRP is
   completed at most once, by whichever thread. *)
IrpsOnce == FragmentBuffersExclusive /\ CompletedOnce

(* Stopping frees nothing that is still counted or queued. *)
StopIsClean == StoppedClean /\ OutstandingCountExact

(* Accepted IRPs are completed and a removal ends. *)
QueueLive == IrpsComplete /\ StopEnds
=============================================================================
