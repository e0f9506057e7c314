---------------------------- MODULE IoQueueProofs ----------------------------
(***************************************************************************)
(* That the encrypted I/O queue completes every IRP at most once, counts   *)
(* what is outstanding exactly, is quiet while it is held, and has given   *)
(* everything back when it is stopped, for any number of IRPs, fragments,  *)
(* pool buffers and holds; and that it implements IoGate.                  *)
(*                                                                         *)
(* The fragments of an IRP pass the stages of the queue in order, and the  *)
(* one that completes the IRP is the last of them: wherever that one is,   *)
(* no stage behind it holds a fragment of the same IRP.                    *)
(***************************************************************************)
EXTENDS EncryptedIoQueue, FiniteSetTheorems, TLAPS

Dispositions == {"new", "counted", "locked", "refused", "refusedIdle", "rejected",
                 "inserted", "returned"}
Events == {"main", "io", "completion", "noOutstanding", "poolFree", "resumed", "A", "B"}
MainPcs == {"wait", "dequeue", "exited", "gate", "suspended", "getItem", "waitItem", "check",
            "complete", "signalIdle", "releaseItem", "fragment", "getRequest", "waitRequest",
            "acquire", "enqueue", "signalIo"}
IoPcs == {"wait", "dequeue", "exited", "access", "accessed", "handOver", "handOverAhead", "signal",
          "signalAhead", "readAhead", "aheadDone", "aheadIdle", "complete", "signalIdle",
          "releaseItem", "releaseRequest"}
CompletionPcs == {"wait", "dequeue", "exited", "decrypt", "complete", "signalIdle", "releaseItem",
                  "releaseRequest"}
HolderPcs == {"idle", "checkIdle", "waitIdle", "recheck", "suspend", "confirm", "backOut",
              "suspended", "held", "encrypted", "decrypted", "moved", "resuming"}
StopperPcs == {"idle", "draining", "checkIdle", "waitIdle", "stopMain", "joinMain", "stopIo",
               "joinIo", "stopCompletion", "joinCompletion", "freeBuffers"}

(***************************************************************************)
(* The types of the control state.  The data of an IRP is left open.       *)
(***************************************************************************)
IrpFields == {"disp", "req", "done", "status", "data"}
IrpTypes ==
    /\ DOMAIN irp = Irps
    /\ \A i \in Irps : /\ DOMAIN irp[i] = IrpFields
                       /\ irp[i].disp \in Dispositions
                       /\ irp[i].req \in Requests \cup {NoRequest}
                       /\ irp[i].done \in {0, 1}
                       /\ irp[i].status \in Statuses
QueueTypes ==
    /\ MainThreadQueue \in Seq(Irps)
    /\ IoThreadQueue \in Seq(Fragments) /\ CompletionThreadQueue \in Seq(Fragments)
    /\ event \in [Events -> BOOLEAN]
    /\ removeLock \in [held : SUBSET Irps, removing : BOOLEAN]
MainStates == [pc : MainPcs, irp : Irps \cup {Nobody}, off : Nat, left : Nat, pos : Nat,
               req : Fragments]
ThreadTypes ==
    /\ main \in MainStates
    /\ io \in [pc : IoPcs, req : Fragments]
    /\ completion \in [pc : CompletionPcs, req : Fragments]
    /\ holder \in [pc : HolderPcs, holds : Nat] /\ stopper \in StopperPcs
    /\ StopPending \in BOOLEAN /\ SuspendPending \in BOOLEAN
    /\ Suspended \in BOOLEAN /\ ThreadExitRequested \in BOOLEAN

\* What the main thread knows of the fragment it is making.
MainMakes == main.pc \in {"getRequest", "waitRequest", "acquire", "enqueue", "signalIo"}
FragmentMade ==
    MainMakes => /\ main.req.irp = main.irp
                 /\ main.req.last = (main.left <= MaxFragment)

ShapeInv == IrpTypes /\ QueueTypes /\ ThreadTypes /\ FragmentMade

(***************************************************************************)
(* Where an IRP may be.                                                    *)
(***************************************************************************)
Accepted(i) == irp[i].disp \in {"inserted", "returned"}
Live(i) == i \in Irps /\ Accepted(i) /\ irp[i].done = 0 /\ i \in removeLock.held
Ended(i) ==
    /\ i \in Irps /\ Accepted(i) /\ irp[i].done = 1 /\ i \in removeLock.held
    /\ irp[i].status # "pending"

\* The main thread has an IRP that it has not completed or handed on; it has made
\* no fragment of it so far.
MainEarly == main.pc \in {"gate", "suspended", "getItem", "waitItem", "check", "complete"}
MainHas ==
    \/ MainEarly
    \/ main.pc \in {"fragment", "getRequest", "waitRequest", "acquire", "enqueue"}
    \/ main.pc = "signalIo" /\ ~main.req.last
IoHas == io.pc \in {"access", "accessed", "handOver", "handOverAhead", "complete"}
CompletionHas == completion.pc \in {"decrypt", "complete"}

\* No IRP is in the queue of the main thread twice, nor with the main thread as well.
QueuedLive ==
    \A n \in DOMAIN MainThreadQueue : /\ Live(MainThreadQueue[n])
                                      /\ irp[MainThreadQueue[n]].status = "pending"
QueuedOnce ==
    \A m, n \in DOMAIN MainThreadQueue : MainThreadQueue[m] = MainThreadQueue[n] => m = n
MainOwns ==
    MainHas => /\ Live(main.irp)
               /\ \A n \in DOMAIN MainThreadQueue : MainThreadQueue[n] # main.irp
               /\ (irp[main.irp].status = "pending"
                     <=> main.pc \in {"gate", "suspended", "getItem", "waitItem"})
Waiting == QueuedLive /\ QueuedOnce /\ MainOwns

\* A fragment on its way: its IRP is not completed; nobody makes fragments after the last.
Flowing(q) ==
    /\ Live(q.irp) /\ irp[q.irp].status # "pending"
    /\ \A n \in DOMAIN MainThreadQueue : MainThreadQueue[n] # q.irp
    /\ MainHas /\ (q.last \/ MainEarly) => main.irp # q.irp
Stages ==
    /\ \A n \in DOMAIN IoThreadQueue : Flowing(IoThreadQueue[n])
    /\ IoHas => Flowing(io.req)
    /\ \A n \in DOMAIN CompletionThreadQueue : Flowing(CompletionThreadQueue[n])
    /\ CompletionHas => Flowing(completion.req)

\* No stage behind the fragment p holds one of the same IRP if p is the last.
NoneInIo(p) == \A n \in DOMAIN IoThreadQueue : IoThreadQueue[n].irp # p.irp
NoneAtIo(p) == IoHas => io.req.irp # p.irp
NoneInCompletion(p) == \A n \in DOMAIN CompletionThreadQueue : CompletionThreadQueue[n].irp # p.irp
Order ==
    /\ \A m, n \in DOMAIN IoThreadQueue :
          m < n /\ IoThreadQueue[m].last => IoThreadQueue[n].irp # IoThreadQueue[m].irp
    /\ IoHas /\ io.req.last => NoneInIo(io.req)
    /\ \A m \in DOMAIN CompletionThreadQueue : CompletionThreadQueue[m].last =>
          /\ NoneInIo(CompletionThreadQueue[m]) /\ NoneAtIo(CompletionThreadQueue[m])
          /\ \A n \in DOMAIN CompletionThreadQueue :
                m < n => CompletionThreadQueue[n].irp # CompletionThreadQueue[m].irp
    /\ CompletionHas /\ completion.req.last =>
          NoneInIo(completion.req) /\ NoneAtIo(completion.req) /\ NoneInCompletion(completion.req)

\* Reads are completed by the completion thread, writes by the I/O thread, and only
\* with their last fragment.
IsRead(q) == irp[q.irp].req.op = "read"
Completers ==
    /\ \A n \in DOMAIN CompletionThreadQueue : IsRead(CompletionThreadQueue[n])
    /\ CompletionHas => IsRead(completion.req)
    /\ io.pc \in {"handOver", "handOverAhead"} => IsRead(io.req)
    /\ io.pc = "complete" => ~IsRead(io.req) /\ io.req.last
    /\ completion.pc = "complete" => completion.req.last

\* A thread that has completed an IRP still has its item and its remove lock.
MainEnds == main.pc \in {"signalIdle", "releaseItem"}
IoEnds == io.pc \in {"signalIdle", "releaseItem"}
CompletionEnds == completion.pc \in {"signalIdle", "releaseItem"}
Endings ==
    /\ MainEnds => Ended(main.irp)
    /\ IoEnds => Ended(io.req.irp)
    /\ CompletionEnds => Ended(completion.req.irp)
    /\ MainEnds /\ IoEnds => main.irp # io.req.irp
    /\ MainEnds /\ CompletionEnds => main.irp # completion.req.irp
    /\ IoEnds /\ CompletionEnds => io.req.irp # completion.req.irp

\* The remove lock is held for an IRP from its check to the release of its item.
Locks ==
    \A i \in Irps :
        /\ irp[i].disp \in {"new", "counted", "refused", "refusedIdle", "rejected"} =>
              i \notin removeLock.held
        /\ irp[i].disp = "locked" => i \in removeLock.held
        /\ Accepted(i) /\ irp[i].done = 0 => i \in removeLock.held
        /\ ~Accepted(i) => irp[i].done = 0
        /\ irp[i].disp \in {"new", "counted", "locked"} => irp[i].status = "pending"

PipeInv == Waiting /\ Stages /\ Order /\ Completers /\ Endings /\ Locks

(***************************************************************************)
(* What is counted.                                                        *)
(***************************************************************************)
One(b) == IF b THEN 1 ELSE 0
MainRequest == main.pc \in {"acquire", "enqueue"}
MainPending == main.pc \in {"getRequest", "waitRequest", "acquire", "enqueue"}
IoRequest == IoHas \/ IoEnds \/ io.pc = "releaseRequest"
CompletionRequest == CompletionHas \/ CompletionEnds \/ completion.pc = "releaseRequest"
RequestsCounted ==
    freeRequests + Len(IoThreadQueue) + Len(CompletionThreadQueue)
    + One(MainRequest) + One(IoRequest) + One(CompletionRequest) = RequestCount
PendingCounted == IoThreadPendingRequestCount = Len(IoThreadQueue) + One(MainPending)
ItemHolders == {i \in removeLock.held : irp[i].status # "pending"}
ItemsCounted == freeItems + Cardinality(ItemHolders) = ItemCount
OutstandingIrps ==
    {i \in Irps : irp[i].done = 0 /\ irp[i].disp \in {"counted", "locked", "inserted",
                                                       "returned", "refused"}}
Ahead == io.pc \in {"handOverAhead", "signalAhead", "readAhead", "aheadDone"}
OutstandingCounted == OutstandingIoCount = Cardinality(OutstandingIrps) + One(Ahead)
CountInv ==
    /\ freeRequests \in Nat /\ freeItems \in Nat
    /\ RequestsCounted /\ PendingCounted /\ ItemsCounted /\ OutstandingCounted

(***************************************************************************)
(* What holds while the queue is suspended, and once it is being stopped.  *)
(***************************************************************************)
Suspending == holder.pc \in {"confirm", "suspended", "held", "encrypted", "decrypted", "moved"}
\* A resume event of an earlier hold does not let the main thread through.
NotResumed == Suspended => ~event["resumed"]
\* What is accepted and not completed waits in the queue or at the gate.
HeldQuiet ==
    Held => /\ IoThreadQueue = <<>> /\ CompletionThreadQueue = <<>>
            /\ ~IoHas /\ ~Ahead /\ ~CompletionHas
            /\ MainHas => main.pc \in {"gate", "suspended"}
            /\ \A i \in Irps : Accepted(i) /\ irp[i].done = 0 => Queued(i) \/ AtGate(i)
HoldInv == (Suspended <=> Suspending) /\ NotResumed /\ HeldQuiet
StopInv ==
    /\ stopper # "idle" => removeLock.removing
    /\ stopper \notin {"idle", "draining"} => removeLock.held = {}
    /\ stopper \in {"stopCompletion", "joinCompletion", "freeBuffers"} => io.pc = "exited"
    /\ stopper = "freeBuffers" => completion.pc = "exited"

QueueInv == ShapeInv /\ PipeInv /\ CountInv /\ HoldInv /\ StopInv

-----------------------------------------------------------------------------
(***************************************************************************)
(* Queues as sequences.                                                    *)
(***************************************************************************)
LEMMA TailFacts ==
    ASSUME NEW S, NEW q \in Seq(S), q # <<>>
    PROVE  /\ Head(q) \in S /\ Head(q) = q[1] /\ 1 \in DOMAIN q
           /\ Tail(q) \in Seq(S) /\ Len(Tail(q)) = Len(q) - 1
           /\ DOMAIN q = 1 .. Len(q) /\ DOMAIN Tail(q) = 1 .. Len(q) - 1
           /\ \A n \in DOMAIN Tail(q) : n + 1 \in DOMAIN q /\ Tail(q)[n] = q[n + 1]
  OBVIOUS

\* Appending adds one element at the end and keeps the others.
LEMMA AppendFacts ==
    ASSUME NEW S, NEW q \in Seq(S), NEW x \in S
    PROVE  /\ Append(q, x) \in Seq(S) /\ Len(Append(q, x)) = Len(q) + 1
           /\ DOMAIN q = 1 .. Len(q) /\ DOMAIN Append(q, x) = 1 .. Len(q) + 1
           /\ \A n \in DOMAIN Append(q, x) :
                 Append(q, x)[n] = IF n = Len(q) + 1 THEN x ELSE q[n]
  OBVIOUS

\* A queue is empty exactly if its length, or its domain, is.
LEMMA EmptyFacts ==
    ASSUME NEW S, NEW q \in Seq(S)
    PROVE  (q = <<>> <=> Len(q) = 0) /\ (q = <<>> <=> DOMAIN q = {}) /\ Len(q) \in Nat
           /\ DOMAIN q = 1 .. Len(q)
  OBVIOUS

-----------------------------------------------------------------------------
(***************************************************************************)
(* What a step does to the IRPs.                                           *)
(***************************************************************************)
SameFields == DOMAIN irp' = Irps /\ \A j \in Irps : DOMAIN irp'[j] = IrpFields
Kept(j) ==
    /\ irp'[j].disp = irp[j].disp /\ irp'[j].req = irp[j].req /\ irp'[j].done = irp[j].done
    /\ irp'[j].status \in Statuses
    /\ irp'[j].status = "pending" <=> irp[j].status = "pending"
AllKept == SameFields /\ \A j \in Irps : Kept(j)
OthersKept(i) == SameFields /\ \A j \in Irps : j # i => Kept(j)

\* A dispatch routine takes IRP i to the disposition d.
Disposed(i, d) ==
    /\ OthersKept(i)
    /\ irp'[i].disp = d /\ irp'[i].done = irp[i].done /\ irp'[i].status = irp[i].status
    /\ irp'[i].req \in Requests \cup {NoRequest}

\* IRP i is completed.
Completed(i) ==
    /\ OthersKept(i)
    /\ irp'[i].disp = irp[i].disp /\ irp'[i].req = irp[i].req
    /\ irp'[i].done = irp[i].done + 1 /\ irp'[i].status = irp[i].status

\* IRP i gets its item.
Equipped(i) ==
    /\ OthersKept(i)
    /\ irp'[i].disp = irp[i].disp /\ irp'[i].req = irp[i].req /\ irp'[i].done = irp[i].done
    /\ irp'[i].status = "ok"

\* What AddIrp and the dispatch steps do to the IRPs, whose data they leave alone.
LEMMA DispatchEffect ==
    ASSUME IrpTypes, NEW i \in Irps
    PROVE  /\ \A req \in Requests : AddIrp(i, req) => Disposed(i, "counted")
           /\ \A d : Dispatch(i, d) => Disposed(i, d)
  BY DEF IrpTypes, IrpFields, AddIrp, Dispatch, Disposed, OthersKept, SameFields, Kept

\* A step that changes the data of an IRP, or the status of one that has its item.
LEMMA DataEffect ==
    ASSUME IrpTypes, NEW i \in Irps, NEW v, irp' = [irp EXCEPT ![i].data = v]
    PROVE  AllKept
  BY DEF IrpTypes, IrpFields, AllKept, SameFields, Kept

\* A later fragment may only replace the status of an IRP by another final one.
LEMMA StatusEffect ==
    ASSUME IrpTypes, NEW i \in Irps, irp[i].status # "pending", NEW v \in Statuses \ {"pending"},
           irp' = [irp EXCEPT ![i].status = v]
    PROVE  AllKept
  BY DEF IrpTypes, IrpFields, AllKept, SameFields, Kept

\* A step that touches no IRP keeps them all.
LEMMA NoEffect ==
    ASSUME IrpTypes, UNCHANGED irp
    PROVE  AllKept
  BY DEF IrpTypes, IrpFields, AllKept, SameFields, Kept

\* TCCompleteDiskIrp completes the one IRP it is called for.
LEMMA CompleteEffect ==
    ASSUME IrpTypes, NEW i \in Irps, CompleteIrp(i)
    PROVE  Completed(i)
  BY DEF IrpTypes, IrpFields, CompleteIrp, Completed, OthersKept, SameFields, Kept

\* The main thread gives the IRP it dequeued an item.
LEMMA EquipEffect ==
    ASSUME IrpTypes, NEW i \in Irps, irp' = [irp EXCEPT ![i].status = "ok"]
    PROVE  Equipped(i)
  BY DEF IrpTypes, IrpFields, Equipped, OthersKept, SameFields, Kept, Statuses

\* A refused request ends with a final status.
LEMMA RefusalStatus ==
    ASSUME QueueAssumption, NEW r, NEW st \in SystemRefusals \cup {Refusal(r)}, st = Refusal(r) => Refusal(r) # "no"
    PROVE  st \in Statuses \ {"pending"}
  BY DEF Refusal, Statuses, QueueAssumption

\* An access ends with a final status.
LEMMA OutcomeStatus ==
    ASSUME NEW ok
    PROVE  StatusOf(ok) \in Statuses \ {"pending"}
  BY DEF StatusOf, Statuses

\* The steps between the start of an item and its completion keep what the
\* invariant says of the IRPs.
LEMMA MainEffect ==
    ASSUME IrpTypes, Waiting, MainRefuse \/ MainReadMisaligned \/ MainBeginFragments
    PROVE  AllKept
<1> DEFINE i == main.irp
<1>1. i \in Irps /\ irp[i].status # "pending"
  BY DEF Waiting, QueuedLive, QueuedOnce, MainOwns, MainHas, MainEarly, Live, MainRefuse, MainReadMisaligned, MainBeginFragments
<1>2. CASE MainRefuse
  <2>1. PICK st \in SystemRefusals \cup {Refusal(irp[i].req)} :
           /\ st = Refusal(irp[i].req) => Refusal(irp[i].req) # "no"
           /\ irp' = [irp EXCEPT ![i].status = st]
    BY <1>2 DEF MainRefuse
  <2>2. st \in Statuses \ {"pending"}
    BY <2>1, RefusalStatus, QueueAssumption
  <2> QED BY <1>1, <2>1, <2>2, StatusEffect
<1>3. CASE MainReadMisaligned
  <2>1. \/ \E v : irp' = [irp EXCEPT ![i].data = v]
        \/ irp' = [irp EXCEPT ![i].status = "failed"]
    BY <1>3 DEF MainReadMisaligned
  <2>2. "failed" \in Statuses \ {"pending"}
    BY DEF Statuses
  <2> QED BY <1>1, <2>1, <2>2, StatusEffect, DataEffect
<1>4. CASE MainBeginFragments
  <2>1. \E v : irp' = [irp EXCEPT ![i].data = v]
    BY <1>4, ZenonT(60) DEF MainBeginFragments
  <2> QED BY <1>1, <2>1, DataEffect
<1> QED BY <1>2, <1>3, <1>4

\* The accesses of the I/O thread change at most the status of a live IRP.
LEMMA IoEffect ==
    ASSUME IrpTypes, Stages, IoWrite \/ IoRead \/ IoAfterRead
    PROVE  AllKept
<1> DEFINE i == io.req.irp
<1>1. i \in Irps /\ irp[i].status # "pending"
  BY ZenonT(60) DEF Stages, IoHas, Flowing, Live, IoWrite, IoRead, IoAfterRead
<1>2. CASE IoWrite \/ IoRead
  <2>1. \E ok : irp' = [irp EXCEPT ![i].status = StatusOf(ok)]
    BY <1>2, ZenonT(60) DEF IoWrite, IoRead
  <2> QED BY <1>1, <2>1, OutcomeStatus, StatusEffect, ZenonT(60)
<1>3. CASE IoAfterRead
  <2>1. \/ \E v : irp' = [irp EXCEPT ![i].data = v]
        \/ UNCHANGED irp
    BY <1>3 DEF IoAfterRead
  <2> QED BY <1>1, <2>1, DataEffect, NoEffect
<1> QED BY <1>2, <1>3

\* Decryption changes at most the data of a live IRP.
LEMMA CompletionEffect ==
    ASSUME IrpTypes, Stages, CompletionDecrypt
    PROVE  AllKept
<1> DEFINE i == completion.req.irp
<1>1. i \in Irps
  BY DEF Stages, CompletionHas, Flowing, Live, CompletionDecrypt
<1>2. \/ \E v : irp' = [irp EXCEPT ![i].data = v]
      \/ UNCHANGED irp
  BY DEF CompletionDecrypt
<1> QED BY <1>1, <1>2, DataEffect, NoEffect

(***************************************************************************)
(* The types are preserved.                                                *)
(***************************************************************************)
LEMMA EventTypes ==
    ASSUME event \in [Events -> BOOLEAN]
    PROVE  /\ \A e \in Events : Set(e) => event' \in [Events -> BOOLEAN]
           /\ \A e \in Events : Wait(e) => event' \in [Events -> BOOLEAN]
           /\ StopPending \in BOOLEAN /\ SuspendPending \in BOOLEAN /\ SignalIfIdle =>
                  event' \in [Events -> BOOLEAN]
<1>1. \A e \in Events : Set(e) => event' \in [Events -> BOOLEAN]
  BY DEF Set
<1>2. \A e \in Events : Wait(e) => event' \in [Events -> BOOLEAN]
  BY DEF Wait
<1>3. ASSUME StopPending \in BOOLEAN, SuspendPending \in BOOLEAN, SignalIfIdle
      PROVE  event' \in [Events -> BOOLEAN]
  <2>1. "noOutstanding" \in Events
    BY DEF Events
  <2>2. (event["noOutstanding"] \/ SuspendPending \/ StopPending) \in BOOLEAN
    BY <1>3
  <2>3. event' = [event EXCEPT !["noOutstanding"] =
                    event["noOutstanding"] \/ SuspendPending \/ StopPending]
    BY <1>3 DEF SignalIfIdle
  <2> HIDE <1>3
  <2> QED BY <2>1, <2>2, <2>3
<1> QED BY <1>1, <1>2, <1>3

\* ReleasePoolBuffer and IoReleaseRemoveLock keep the types and give the lock of this IRP
\* back.
LEMMA ReleaseTypes ==
    ASSUME QueueTypes, NEW i, ReleaseItem(i)
    PROVE  /\ event' \in [Events -> BOOLEAN]
           /\ removeLock' \in [held : SUBSET Irps, removing : BOOLEAN]
           /\ removeLock'.held = removeLock.held \ {i}
           /\ removeLock'.removing = removeLock.removing
<1>1. "poolFree" \in Events
  BY DEF Events
<1>2. event' \in [Events -> BOOLEAN]
  BY <1>1, EventTypes DEF ReleaseItem, QueueTypes
<1> QED BY <1>2 DEF ReleaseItem, QueueTypes

\* The idle states of the main thread are well typed.
LEMMA NoFragmentType ==
    /\ NoFragment \in Fragments
    /\ \A b \in {"A", "B"}, pc \in MainPcs : IdleMain(b, pc) \in MainStates
  BY DEF NoFragment, Fragments, IdleMain, MainStates

\* What the steps of the main thread leave alone.
MainFrame == UNCHANGED <<flagVars, CompletionThreadQueue, io, completion, holder, stopper>>

\* What no step of the main thread touches.
LEMMA MainFrames == MainThread => MainFrame
<1> USE DEF mainRest, MainFrame
<1>1. MainWait \/ MainDequeue \/ MainGate \/ MainWaitResumed \/ MainGetItem \/ MainWaitPool => MainFrame
  BY DEF MainWait, MainDequeue, MainGate, MainWaitResumed, MainGetItem, MainWaitPool
<1>2. MainRefuse \/ MainReadMisaligned \/ MainBeginFragments \/ MainComplete \/ MainSignalIdle => MainFrame
  BY DEF MainRefuse, MainReadMisaligned, MainBeginFragments, MainComplete, MainSignalIdle
<1>3. MainReleaseItem \/ MainNextFragment \/ MainGetRequest \/ MainAcquireBuffer => MainFrame
  BY DEF MainReleaseItem, MainNextFragment, MainGetRequest, MainAcquireBuffer
<1>4. MainEnqueue \/ MainSignalIo => MainFrame
  BY DEF MainEnqueue, MainSignalIo
<1> QED BY <1>1, <1>2, <1>3, <1>4 DEF MainThread

\* The locals of the main thread stay typed.
LEMMA MainStateTypes ==
    ASSUME ShapeInv, Waiting, MainThread
    PROVE  main' \in MainStates /\ FragmentMade'
<1> USE QueueAssumption
<1>1. main \in MainStates /\ MainThreadQueue \in Seq(Irps)
  BY DEF ShapeInv, ThreadTypes, QueueTypes
<1>2. FragmentMade
  BY DEF ShapeInv
<1>3. ASSUME NEW pc \in MainPcs, MainGoTo(pc) PROVE main' \in MainStates /\ main' = [main EXCEPT !.pc = pc]
  BY <1>1, <1>3 DEF MainGoTo, MainStates
<1>4. ASSUME MainDone PROVE main' \in MainStates /\ main'.pc = "dequeue"
  <2>1. "dequeue" \in MainPcs /\ main.req.buf \in {"A", "B"}
    BY <1>1 DEF MainPcs, MainStates, Fragments
  <2>2. main' = IdleMain(main.req.buf, "dequeue")
    BY <1>4 DEF MainDone
  <2> QED BY <2>1, <2>2, NoFragmentType DEF IdleMain
<1>5. CASE \/ MainWait \/ MainGate \/ MainWaitResumed \/ MainGetItem \/ MainWaitPool
           \/ MainRefuse \/ MainReadMisaligned \/ MainComplete \/ MainSignalIdle
  <2>1. \E pc \in MainPcs : MainGoTo(pc) /\ (pc = "getRequest" => main.pc = "waitRequest")
                             /\ pc \notin {"waitRequest", "acquire", "enqueue", "signalIo"}
    BY <1>5 DEF MainWait, MainGate, MainWaitResumed, MainGetItem, MainWaitPool,
         MainRefuse, MainReadMisaligned, MainComplete, MainSignalIdle, AfterComplete, MainPcs
  <2>2. PICK pc \in MainPcs : MainGoTo(pc) /\ (pc = "getRequest" => main.pc = "waitRequest")
                             /\ pc \notin {"waitRequest", "acquire", "enqueue", "signalIo"}
    BY <2>1
  <2>3. main' \in MainStates /\ main' = [main EXCEPT !.pc = pc]
    BY <2>2, <1>3
  <2> QED BY <1>1, <1>2, <2>2, <2>3 DEF FragmentMade, MainMakes, MainStates
<1>6. CASE MainDequeue
  <2>1. CASE MainThreadQueue = <<>>
    <3>1. PICK pc \in {"exited", "wait"} : MainGoTo(pc)
      BY <1>6, <2>1 DEF MainDequeue
    <3>2. pc \in MainPcs
      BY DEF MainPcs
    <3>3. main' \in MainStates /\ main' = [main EXCEPT !.pc = pc]
      BY <3>1, <3>2, <1>3
    <3> QED BY <1>1, <3>3 DEF FragmentMade, MainMakes, MainStates
  <2>2. CASE MainThreadQueue # <<>>
    <3>1. Head(MainThreadQueue) \in Irps /\ "gate" \in MainPcs
      BY <1>1, <2>2 DEF MainPcs
    <3>2. main' = [main EXCEPT !.pc = "gate", !.irp = Head(MainThreadQueue)]
      BY <1>6, <2>2 DEF MainDequeue
    <3> QED BY <1>1, <3>1, <3>2 DEF FragmentMade, MainMakes, MainStates
  <2> QED BY <2>1, <2>2
<1>7. CASE MainBeginFragments
  <2> DEFINE r == irp[main.irp].req
  <2>1. Refusal(r) = "no" /\ main.pc = "check"
    BY <1>7 DEF MainBeginFragments
  <2>2. main' = [main EXCEPT !.pc = "fragment", !.off = HostOffset(r), !.left = r.len, !.pos = 1]
    BY <1>7 DEF MainBeginFragments
  <2>3. r.off \in Nat /\ r.len \in Nat
    <3>1. main.irp \in Irps
      BY <2>1 DEF Waiting, QueuedLive, QueuedOnce, MainOwns, MainHas, MainEarly, Live
    <3>2. r \in Requests \cup {NoRequest}
      BY <3>1 DEF ShapeInv, IrpTypes
    <3> HIDE DEF r
    <3> QED BY <3>2 DEF NoRequest, QueueAssumption
  <2>4. HostOffset(r) \in Nat /\ "fragment" \in MainPcs
    BY <2>3 DEF HostOffset, QueueAssumption, MainPcs
  <2> QED BY <1>1, <2>2, <2>3, <2>4 DEF FragmentMade, MainMakes, MainStates
<1>8. CASE MainReleaseItem
  BY <1>8, <1>4 DEF MainReleaseItem, FragmentMade, MainMakes
<1>9. CASE MainNextFragment
  <2> DEFINE last == main.left <= MaxFragment
             q == [irp |-> main.irp, off |-> main.off, last |-> last, pos |-> main.pos,
                   len |-> IF last THEN main.left ELSE MaxFragment,
                   enc |-> {}, buf |-> OtherBuffer(main.req.buf)]
  <2>1. main' = [main EXCEPT !.pc = "getRequest", !.req = q]
    BY <1>9 DEF MainNextFragment
  <2>2. last \in BOOLEAN
    OBVIOUS
  <2>3. q \in Fragments
    BY <1>1, <2>2 DEF Fragments, MainStates, OtherBuffer, QueueAssumption
  <2>4. q.irp = main.irp /\ q.last = (main.left <= MaxFragment) /\ "getRequest" \in MainPcs
    BY DEF MainPcs
  <2> HIDE DEF q, last
  <2> QED BY <1>1, <2>1, <2>3, <2>4 DEF FragmentMade, MainMakes, MainStates
<1>10. CASE MainGetRequest
  <2>1. CASE freeRequests > 0
    <3> DEFINE e == IF IsFilterDevice
                    THEN Intersection(main.req.off, main.req.len, EncryptedAreaEnd)
                    ELSE main.req.off .. main.req.off + main.req.len - 1
               q == [main.req EXCEPT !.enc = e]
    <3>1. main' = [main EXCEPT !.pc = "acquire", !.req = q]
      BY <1>10, <2>1 DEF MainGetRequest
    <3>2. main.req.off \in Nat /\ main.req.len \in Nat /\ main.req \in Fragments
      BY <1>1 DEF MainStates, Fragments
    <3>3. e \in SUBSET Nat
      BY <3>2 DEF Intersection
    <3>4. q \in Fragments /\ q.irp = main.req.irp /\ q.last = main.req.last
      BY <3>2, <3>3 DEF Fragments
    <3>5. main.pc = "getRequest" /\ "acquire" \in MainPcs
      BY <1>10 DEF MainGetRequest, MainPcs
    <3> HIDE DEF q, e
    <3> QED BY <1>1, <1>2, <3>1, <3>4, <3>5 DEF FragmentMade, MainMakes, MainStates
  <2>2. CASE ~(freeRequests > 0)
    <3>1. MainGoTo("waitRequest") /\ main.pc = "getRequest" /\ "waitRequest" \in MainPcs
      BY <1>10, <2>2 DEF MainGetRequest, MainPcs
    <3>2. main' \in MainStates /\ main' = [main EXCEPT !.pc = "waitRequest"]
      BY <3>1, <1>3
    <3> QED BY <1>1, <1>2, <3>1, <3>2 DEF FragmentMade, MainMakes, MainStates
  <2> QED BY <2>1, <2>2
<1>11. CASE MainAcquireBuffer \/ MainEnqueue
  <2>1. PICK pc \in {"enqueue", "signalIo"} : MainGoTo(pc) /\ main.pc \in {"acquire", "enqueue"}
    BY <1>11 DEF MainAcquireBuffer, MainEnqueue
  <2>2. pc \in MainPcs
    BY DEF MainPcs
  <2>3. main' \in MainStates /\ main' = [main EXCEPT !.pc = pc]
    BY <2>1, <2>2, <1>3
  <2> QED BY <1>1, <1>2, <2>1, <2>3 DEF FragmentMade, MainMakes, MainStates
<1>12. CASE MainSignalIo
  <2>1. CASE main.req.last
    BY <1>12, <2>1, <1>4 DEF MainSignalIo, FragmentMade, MainMakes
  <2>2. CASE ~main.req.last
    <3>1. main' = [main EXCEPT !.pc = "fragment", !.off = main.off + MaxFragment,
                               !.left = main.left - MaxFragment, !.pos = main.pos + MaxFragment]
      BY <1>12, <2>2 DEF MainSignalIo
    <3>2. ~(main.left <= MaxFragment)
      BY <1>2, <1>12, <2>2 DEF MainSignalIo, FragmentMade, MainMakes
    <3>3. /\ main.off + MaxFragment \in Nat /\ main.left - MaxFragment \in Nat
          /\ main.pos + MaxFragment \in Nat /\ "fragment" \in MainPcs
      BY <1>1, <3>2 DEF MainStates, QueueAssumption, MainPcs
    <3> QED BY <1>1, <3>1, <3>3 DEF FragmentMade, MainMakes, MainStates
  <2> QED BY <2>1, <2>2
<1> QED BY <1>5, <1>6, <1>7, <1>8, <1>9, <1>10, <1>11, <1>12 DEF MainThread

\* The steps of the main thread keep the types of the queue.
LEMMA MainQueueTypes ==
    ASSUME ShapeInv, MainThread
    PROVE  QueueTypes'
<1> USE DEF QueueTypes
<1>1. QueueTypes /\ main \in MainStates /\ StopPending \in BOOLEAN /\ SuspendPending \in BOOLEAN
  BY DEF ShapeInv, ThreadTypes
<1>2. UNCHANGED CompletionThreadQueue
  BY MainFrames DEF MainFrame
<1>3. {"main", "io", "poolFree", "resumed", "A", "B"} \subseteq Events
  BY DEF Events
<1>4. CASE MainWait \/ MainWaitResumed \/ MainWaitPool
  <2>1. \E e \in Events : Wait(e)
    BY <1>3, <1>4 DEF MainWait, MainWaitResumed, MainWaitPool
  <2>2. event' \in [Events -> BOOLEAN]
    BY <2>1, <1>1, EventTypes
  <2>3. UNCHANGED <<MainThreadQueue, IoThreadQueue, removeLock>>
    BY <1>4 DEF MainWait, MainWaitResumed, MainWaitPool, envVars
  <2> QED BY <1>1, <1>2, <2>2, <2>3
<1>5. CASE MainDequeue
  <2>1. UNCHANGED <<IoThreadQueue, removeLock, event>>
    BY <1>5 DEF MainDequeue, envVars
  <2>2. MainThreadQueue' = MainThreadQueue \/ (MainThreadQueue # <<>> /\ MainThreadQueue' = Tail(MainThreadQueue))
    BY <1>5 DEF MainDequeue
  <2>3. MainThreadQueue' \in Seq(Irps)
    <3>1. MainThreadQueue # <<>> => Tail(MainThreadQueue) \in Seq(Irps)
      BY <1>1, TailFacts
    <3> QED BY <1>1, <2>2, <3>1
  <2> QED BY <1>1, <1>2, <2>1, <2>3
<1>6. CASE \/ MainGate \/ MainGetItem \/ MainRefuse \/ MainReadMisaligned \/ MainBeginFragments
           \/ MainComplete \/ MainNextFragment \/ MainGetRequest
  <2>1. UNCHANGED <<MainThreadQueue, IoThreadQueue, removeLock, event>>
    BY <1>6 DEF MainGate, MainGetItem, MainRefuse, MainReadMisaligned, MainBeginFragments,
         MainComplete, MainNextFragment, MainGetRequest, envVars
  <2> QED BY <1>1, <1>2, <2>1
<1>7. CASE MainSignalIdle
  <2>1. event' \in [Events -> BOOLEAN]
    BY <1>1, <1>7, EventTypes DEF MainSignalIdle
  <2> QED BY <1>1, <1>2, <1>7, <2>1 DEF MainSignalIdle, envVars
<1>8. CASE MainReleaseItem
  <2>1. ReleaseItem(main.irp) /\ UNCHANGED <<MainThreadQueue, IoThreadQueue>>
    BY <1>8 DEF MainReleaseItem
  <2> QED BY <1>1, <1>2, <2>1, ReleaseTypes
<1>9. CASE MainAcquireBuffer
  <2>1. Wait(main.req.buf) /\ UNCHANGED <<MainThreadQueue, IoThreadQueue, removeLock>>
    BY <1>9 DEF MainAcquireBuffer, envVars
  <2>2. main.req.buf \in Events
    BY <1>1, <1>3 DEF MainStates, Fragments
  <2>3. event' \in [Events -> BOOLEAN]
    BY <1>1, <2>1, <2>2, EventTypes
  <2> QED BY <1>1, <1>2, <2>1, <2>3
<1>10. CASE MainEnqueue
  <2>1. IoThreadQueue' = Append(IoThreadQueue, main.req) /\ UNCHANGED <<MainThreadQueue, event, removeLock>>
    BY <1>10 DEF MainEnqueue, envVars
  <2>2. main.req \in Fragments
    BY <1>1 DEF MainStates
  <2> QED BY <1>1, <1>2, <2>1, <2>2
<1>11. CASE MainSignalIo
  <2>1. Set("io") /\ UNCHANGED <<MainThreadQueue, IoThreadQueue, removeLock>>
    BY <1>11 DEF MainSignalIo, envVars
  <2>2. event' \in [Events -> BOOLEAN]
    BY <1>1, <1>3, <2>1, EventTypes
  <2> QED BY <1>1, <1>2, <2>1, <2>2
<1> QED BY <1>4, <1>5, <1>6, <1>7, <1>8, <1>9, <1>10, <1>11 DEF MainThread

\* What the steps of the I/O thread leave alone.
IoFrame == UNCHANGED <<flagVars, MainThreadQueue, main, completion, holder, stopper>>

\* The steps of the I/O thread keep the types and leave the rest alone.
LEMMA IoTypes ==
    ASSUME ShapeInv, IoThread
    PROVE  IoFrame /\ QueueTypes' /\ io' \in [pc : IoPcs, req : Fragments]
<1> DEFINE IoStates == [pc : IoPcs, req : Fragments]
<1> USE DEF IoFrame, ioRest
<1>1. /\ QueueTypes /\ StopPending \in BOOLEAN /\ SuspendPending \in BOOLEAN
      /\ io \in IoStates /\ NoFragment \in Fragments
  BY NoFragmentType DEF ShapeInv, ThreadTypes
<1>2. \A e \in {"io", "completion", "poolFree", "A", "B"} : e \in Events
  BY DEF Events
<1>3. /\ \A pc \in IoPcs : IoGoTo(pc) => io' \in IoStates
      /\ IoDone => io' \in IoStates
  BY <1>1 DEF IoGoTo, IoDone, IoPcs
<1>4. io.req \in Fragments /\ io.req.buf \in {"A", "B"}
  BY <1>1 DEF Fragments
<1>5. CASE IoWait
  <2>1. event' \in [Events -> BOOLEAN]
    BY <1>1, <1>2, <1>5, EventTypes DEF IoWait, QueueTypes
  <2> QED BY <1>1, <1>3, <1>5, <2>1 DEF IoWait, IoPcs, QueueTypes
<1>6. CASE IoDequeue
  <2>1. CASE IoThreadQueue = <<>>
    BY <1>1, <1>3, <1>6, <2>1 DEF IoDequeue, IoPcs, QueueTypes
  <2>2. CASE IoThreadQueue # <<>>
    <3>1. /\ Head(IoThreadQueue) \in Fragments /\ Tail(IoThreadQueue) \in Seq(Fragments)
          /\ "access" \in IoPcs
      BY <1>1, <2>2, TailFacts DEF QueueTypes, IoPcs
    <3>2. /\ io' = [pc |-> "access", req |-> Head(IoThreadQueue)]
          /\ IoThreadQueue' = Tail(IoThreadQueue)
          /\ IoFrame /\ UNCHANGED <<CompletionThreadQueue, event, removeLock>>
      BY <1>6, <2>2 DEF IoDequeue
    <3>3. io' \in IoStates
      BY <3>1, <3>2
    <3> QED BY <1>1, <3>1, <3>2, <3>3 DEF QueueTypes
  <2> QED BY <2>1, <2>2
<1>7. CASE IoSkip \/ IoWrite \/ IoRead \/ IoReadAhead \/ IoReadAheadDone \/ IoComplete
  <2>1. IoFrame /\ UNCHANGED <<IoThreadQueue, CompletionThreadQueue, event, removeLock>>
    BY <1>7, ZenonT(60) DEF IoSkip, IoWrite, IoRead, IoReadAhead, IoReadAheadDone, IoComplete
  <2>2. io' \in IoStates
    BY <1>3, <1>7, ZenonT(60) DEF IoSkip, IoWrite, IoRead, IoReadAhead, IoReadAheadDone, IoComplete,
         AfterComplete, IoPcs
  <2> QED BY <1>1, <2>1, <2>2, SMTT(60) DEF QueueTypes
<1>8. CASE IoAfterWrite \/ IoAfterRead
  <2>1. /\ IoFrame /\ UNCHANGED <<IoThreadQueue, CompletionThreadQueue, removeLock>>
        /\ Set(io.req.buf)
    BY <1>8 DEF IoAfterWrite, IoAfterRead, ReleaseFragmentBuffer
  <2>2. event' \in [Events -> BOOLEAN]
    BY <1>1, <1>2, <1>4, <2>1, EventTypes DEF QueueTypes
  <2>3. io' \in IoStates
    BY <1>3, <1>8 DEF IoAfterWrite, IoAfterRead, IoPcs
  <2> QED BY <1>1, <2>1, <2>2, <2>3 DEF QueueTypes
<1>9. CASE IoHandOver
  BY <1>1, <1>3, <1>4, <1>9 DEF IoHandOver, IoPcs, QueueTypes
<1>10. CASE IoSignalCompletion
  <2>1. event' \in [Events -> BOOLEAN]
    BY <1>1, <1>2, <1>10, EventTypes DEF IoSignalCompletion, QueueTypes
  <2> QED BY <1>1, <1>3, <1>10, <2>1 DEF IoSignalCompletion, IoPcs, QueueTypes
<1>11. CASE IoSignalIdle
  <2>1. event' \in [Events -> BOOLEAN]
    BY <1>1, <1>11, EventTypes DEF IoSignalIdle, QueueTypes
  <2> QED BY <1>1, <1>3, <1>11, <2>1 DEF IoSignalIdle, IoPcs, QueueTypes
<1>12. CASE IoReleaseItem
  <2>1. /\ event' \in [Events -> BOOLEAN]
        /\ removeLock' \in [held : SUBSET Irps, removing : BOOLEAN]
    BY <1>1, <1>12, ReleaseTypes DEF IoReleaseItem
  <2> QED BY <1>1, <1>3, <1>12, <2>1 DEF IoReleaseItem, IoPcs, QueueTypes
<1>13. CASE IoReleaseRequest
  <2>1. event' \in [Events -> BOOLEAN]
    BY <1>1, <1>2, <1>13, EventTypes DEF IoReleaseRequest, ReleaseRequest, QueueTypes
  <2> QED BY <1>1, <1>3, <1>13, <2>1 DEF IoReleaseRequest, IoPcs, QueueTypes
<1> QED BY <1>5, <1>6, <1>7, <1>8, <1>9, <1>10, <1>11, <1>12, <1>13 DEF IoThread

\* What the steps of the completion thread leave alone.
CompletionFrame == UNCHANGED <<flagVars, MainThreadQueue, IoThreadQueue, main, io, holder, stopper>>

\* The steps of the completion thread keep the types and leave the rest alone.
LEMMA CompletionTypes ==
    ASSUME ShapeInv, CompletionThread
    PROVE  CompletionFrame /\ QueueTypes' /\ completion' \in [pc : CompletionPcs, req : Fragments]
<1> DEFINE States == [pc : CompletionPcs, req : Fragments]
<1> USE DEF CompletionFrame, completionRest
<1>1. /\ QueueTypes /\ StopPending \in BOOLEAN /\ SuspendPending \in BOOLEAN
      /\ completion \in States /\ NoFragment \in Fragments
  BY NoFragmentType DEF ShapeInv, ThreadTypes
<1>2. \A e \in {"completion", "poolFree"} : e \in Events
  BY DEF Events
<1>3. \A pc \in CompletionPcs : CompletionGoTo(pc) => completion' \in States
  BY <1>1 DEF CompletionGoTo
<1>4. CASE CompletionWait
  <2>1. event' \in [Events -> BOOLEAN]
    BY <1>1, <1>2, <1>4, EventTypes DEF CompletionWait, QueueTypes
  <2> QED BY <1>1, <1>3, <1>4, <2>1 DEF CompletionWait, CompletionPcs, QueueTypes
<1>5. CASE CompletionDequeue
  <2>1. CASE CompletionThreadQueue = <<>>
    BY <1>1, <1>3, <1>5, <2>1 DEF CompletionDequeue, CompletionPcs, QueueTypes
  <2>2. CASE CompletionThreadQueue # <<>>
    <3>1. /\ Head(CompletionThreadQueue) \in Fragments
          /\ Tail(CompletionThreadQueue) \in Seq(Fragments)
          /\ "decrypt" \in CompletionPcs
      BY <1>1, <2>2, TailFacts DEF QueueTypes, CompletionPcs
    <3>2. /\ completion' = [pc |-> "decrypt", req |-> Head(CompletionThreadQueue)]
          /\ CompletionThreadQueue' = Tail(CompletionThreadQueue)
          /\ CompletionFrame /\ UNCHANGED <<event, removeLock>>
      BY <1>5, <2>2 DEF CompletionDequeue
    <3>3. completion' \in States
      BY <3>1, <3>2
    <3> QED BY <1>1, <3>1, <3>2, <3>3 DEF QueueTypes
  <2> QED BY <2>1, <2>2
<1>6. CASE CompletionDecrypt \/ CompletionComplete
  BY <1>1, <1>3, <1>6 DEF CompletionDecrypt, CompletionComplete, AfterComplete, CompletionPcs, QueueTypes
<1>7. CASE CompletionSignalIdle
  <2>1. event' \in [Events -> BOOLEAN]
    BY <1>1, <1>7, EventTypes DEF CompletionSignalIdle, QueueTypes
  <2> QED BY <1>1, <1>3, <1>7, <2>1 DEF CompletionSignalIdle, CompletionPcs, QueueTypes
<1>8. CASE CompletionReleaseItem
  <2>1. /\ event' \in [Events -> BOOLEAN]
        /\ removeLock' \in [held : SUBSET Irps, removing : BOOLEAN]
    BY <1>1, <1>8, ReleaseTypes DEF CompletionReleaseItem
  <2> QED BY <1>1, <1>3, <1>8, <2>1 DEF CompletionReleaseItem, CompletionPcs, QueueTypes
<1>9. CASE CompletionReleaseRequest
  <2>1. event' \in [Events -> BOOLEAN]
    BY <1>1, <1>2, <1>9, EventTypes DEF CompletionReleaseRequest, ReleaseRequest, QueueTypes
  <2> QED BY <1>1, <1>9, <2>1 DEF CompletionReleaseRequest, CompletionPcs, QueueTypes
<1> QED BY <1>4, <1>5, <1>6, <1>7, <1>8, <1>9 DEF CompletionThread

\* The holder and the stopper touch no IRP, no queue and no thread.
OtherFrame == UNCHANGED <<irp, queueVars, bufVars, countVars, main, io, completion>>

\* The caller that holds the queue touches no IRP, queue or pool.
LEMMA HolderTypes ==
    ASSUME ShapeInv, HoldWhenIdle \/ HolderStep
    PROVE  /\ OtherFrame /\ UNCHANGED <<removeLock, stopper, StopPending, ThreadExitRequested>>
           /\ event' \in [Events -> BOOLEAN] /\ holder' \in [pc : HolderPcs, holds : Nat]
           /\ SuspendPending' \in BOOLEAN /\ Suspended' \in BOOLEAN
<1> USE DEF OtherFrame, holderRest, envVars
<1>1. /\ event \in [Events -> BOOLEAN] /\ holder \in [pc : HolderPcs, holds : Nat]
      /\ SuspendPending \in BOOLEAN /\ Suspended \in BOOLEAN
  BY DEF ShapeInv, ThreadTypes, QueueTypes
<1>2. \A pc \in HolderPcs : HolderGoTo(pc) => holder' \in [pc : HolderPcs, holds : Nat]
  BY <1>1 DEF HolderGoTo
<1>3. "resumed" \in Events /\ "noOutstanding" \in Events
  BY DEF Events
<1>4. CASE HoldWhenIdle
  BY <1>1, <1>4 DEF HoldWhenIdle, HolderPcs
<1>5. CASE HoldCheckIdle \/ HoldFails \/ HoldRecheck \/ HoldConfirm \/ HoldReturns
  BY <1>1, <1>2, <1>5 DEF HoldCheckIdle, HoldFails, HoldRecheck, HoldConfirm, HoldReturns, HolderPcs
<1>6. CASE SetupEncryptsBlock \/ SetupDecryptsBlock \/ SetupMovesEnd \/ ResumeFromHold
  BY <1>1, <1>2, <1>6 DEF SetupEncryptsBlock, SetupDecryptsBlock, SetupMovesEnd, ResumeFromHold, HolderPcs
<1>7. CASE HoldWait
  <2>1. event' \in [Events -> BOOLEAN]
    BY <1>1, <1>3, <1>7, EventTypes DEF HoldWait
  <2> QED BY <1>1, <1>2, <1>7, <2>1 DEF HoldWait, HolderPcs
<1>8. CASE HoldSuspend
  BY <1>1, <1>2, <1>8 DEF HoldSuspend, HolderPcs
<1>9. CASE HoldBackOut \/ ResumeSignals
  <2>1. event' \in [Events -> BOOLEAN]
    BY <1>1, <1>3, <1>9, EventTypes DEF HoldBackOut, ResumeSignals
  <2> QED BY <1>1, <1>2, <1>9, <2>1 DEF HoldBackOut, ResumeSignals, HolderPcs
<1> QED BY <1>4, <1>5, <1>6, <1>7, <1>8, <1>9 DEF HolderStep

\* The thread that removes the device touches no IRP, queue or pool.
LEMMA StopperTypes ==
    ASSUME ShapeInv, RemoveDevice \/ StopperStep
    PROVE  /\ OtherFrame /\ UNCHANGED <<holder, SuspendPending, Suspended>>
           /\ event' \in [Events -> BOOLEAN] /\ stopper' \in StopperPcs
           /\ removeLock' \in [held : SUBSET Irps, removing : BOOLEAN]
           /\ removeLock'.held = removeLock.held
           /\ StopPending' \in BOOLEAN /\ ThreadExitRequested' \in BOOLEAN
<1> USE DEF OtherFrame, stopRest
<1>1. /\ event \in [Events -> BOOLEAN] /\ stopper \in StopperPcs
      /\ removeLock \in [held : SUBSET Irps, removing : BOOLEAN]
      /\ StopPending \in BOOLEAN /\ ThreadExitRequested \in BOOLEAN
  BY DEF ShapeInv, ThreadTypes, QueueTypes
<1>2. \A e \in {"main", "io", "completion", "noOutstanding"} : e \in Events
  BY DEF Events
<1>3. CASE RemoveDevice \/ StopQueue \/ StopCheckIdle
  BY <1>1, <1>3 DEF RemoveDevice, StopQueue, StopCheckIdle, StopperPcs
<1>4. CASE StopWait
  <2>1. event' \in [Events -> BOOLEAN]
    BY <1>1, <1>2, <1>4, EventTypes DEF StopWait
  <2> QED BY <1>1, <1>4, <2>1 DEF StopWait, StopperPcs
<1>5. ASSUME NEW pc, NEW e \in {"main", "io", "completion"}, NEW next \in StopperPcs,
             StopThread(pc, e, next)
      PROVE  /\ OtherFrame /\ UNCHANGED <<holder, SuspendPending, Suspended, removeLock, StopPending, ThreadExitRequested>>
             /\ event' \in [Events -> BOOLEAN] /\ stopper' \in StopperPcs
  <2>1. event' \in [Events -> BOOLEAN]
    BY <1>1, <1>2, <1>5, EventTypes DEF StopThread
  <2> QED BY <1>1, <1>5, <2>1 DEF StopThread
<1>6. ASSUME NEW pc, NEW x, NEW next \in StopperPcs, Joined(pc, x, next)
      PROVE  /\ OtherFrame /\ UNCHANGED <<holder, SuspendPending, Suspended, removeLock, StopPending, ThreadExitRequested>>
             /\ event' \in [Events -> BOOLEAN] /\ stopper' \in StopperPcs
  BY <1>1, <1>6 DEF Joined
<1>7. {"joinMain", "stopIo", "joinIo", "stopCompletion", "joinCompletion", "freeBuffers"} \subseteq StopperPcs
  BY DEF StopperPcs
<1>8. CASE StopThreads
  BY <1>1, <1>5, <1>6, <1>7, <1>8 DEF StopThreads
<1> QED BY <1>3, <1>4, <1>8 DEF StopperStep

\* What arriving IRPs leave alone.
DispatchFrame == UNCHANGED <<bufVars, flagVars, IoThreadPendingRequestCount, IoThreadQueue,
                             CompletionThreadQueue, thrVars>>

\* EncryptedIoQueueAddIrp touches one IRP and the main queue.
LEMMA DispatchTypes ==
    ASSUME ShapeInv, NEW i \in Irps, Dispatcher(i) \/ \E req \in Requests : AddIrp(i, req)
    PROVE  DispatchFrame /\ QueueTypes'
<1> USE DEF DispatchFrame, dispatchRest
<1>1. QueueTypes /\ StopPending \in BOOLEAN /\ SuspendPending \in BOOLEAN /\ "main" \in Events
  BY DEF ShapeInv, ThreadTypes, Events
<1>2. CASE \E req \in Requests : AddIrp(i, req)
  BY <1>1, <1>2 DEF AddIrp, QueueTypes
<1>3. CASE AddIrpCheck(i) \/ AddIrpErr(i)
  BY <1>1, <1>3, SMTT(60) DEF AddIrpCheck, AddIrpErr, QueueTypes
<1>4. CASE AddIrpInsert(i)
  BY <1>1, <1>4, AppendFacts DEF AddIrpInsert, QueueTypes
<1>5. CASE AddIrpSignal(i)
  <2>1. event' \in [Events -> BOOLEAN]
    BY <1>1, <1>5, EventTypes DEF AddIrpSignal, QueueTypes
  <2> QED BY <1>1, <1>5, <2>1 DEF AddIrpSignal, QueueTypes
<1>6. CASE AddIrpErrSignal(i)
  <2>1. event' \in [Events -> BOOLEAN]
    BY <1>1, <1>6, EventTypes DEF AddIrpErrSignal, QueueTypes
  <2> QED BY <1>1, <1>6, <2>1 DEF AddIrpErrSignal, QueueTypes
<1> QED BY <1>2, <1>3, <1>4, <1>5, <1>6 DEF Dispatcher

-----------------------------------------------------------------------------
(***************************************************************************)
(* When the parts of the invariant of the pipeline are kept: what is on    *)
(* its way stays as it is, except perhaps an IRP x, and no thread gets     *)
(* anything it did not have.                                               *)
(***************************************************************************)
StaysLive(j) ==
    /\ j \in Irps /\ irp'[j].disp \in {"inserted", "returned"} /\ irp'[j].done = 0
    /\ j \in removeLock'.held /\ irp'[j].req = irp[j].req
    /\ irp'[j].status = "pending" <=> irp[j].status = "pending"
LiveKept(x) == \A j \in Irps : j # x /\ Live(j) => StaysLive(j)
StaysEnded(j) ==
    /\ j \in Irps /\ irp'[j].disp \in {"inserted", "returned"} /\ irp'[j].done = 1
    /\ j \in removeLock'.held /\ irp'[j].status # "pending"
EndedKept(x) == \A j \in Irps : j # x /\ Ended(j) => StaysEnded(j)

MainWaits == main.pc \in {"gate", "suspended", "getItem", "waitItem"}
MainStays ==
    /\ MainHas' => MainHas /\ main'.irp = main.irp /\ (MainWaits' <=> MainWaits)
    /\ MainEarly' => MainEarly
IoStays == IoHas' => IoHas /\ io'.req = io.req
CompletionStays == CompletionHas' => CompletionHas /\ completion'.req = completion.req
MainEndStays == MainEnds' => MainEnds /\ main'.irp = main.irp
IoEndStays == IoEnds' => IoEnds /\ io'.req = io.req
CompletionEndStays == CompletionEnds' => CompletionEnds /\ completion'.req = completion.req

\* Nothing but IRP x itself is concerned.
Apart(x) ==
    /\ \A n \in DOMAIN MainThreadQueue : MainThreadQueue[n] # x
    /\ MainHas' => main.irp # x
    /\ \A n \in DOMAIN IoThreadQueue : IoThreadQueue[n].irp # x
    /\ IoHas' => io.req.irp # x
    /\ \A n \in DOMAIN CompletionThreadQueue : CompletionThreadQueue[n].irp # x
    /\ CompletionHas' => completion.req.irp # x

\* The IRPs before the gate stay as they are if x is none of them.
LEMMA WaitingKept ==
    ASSUME Waiting, NEW x, LiveKept(x), MainStays, UNCHANGED MainThreadQueue,
           \A n \in DOMAIN MainThreadQueue : MainThreadQueue[n] # x, MainHas' => main.irp # x
    PROVE  Waiting'
<1>1. \A n \in DOMAIN MainThreadQueue : StaysLive(MainThreadQueue[n])
  BY DEF Waiting, QueuedLive, QueuedOnce, MainOwns, LiveKept, Live, StaysLive
<1>2. MainHas' => StaysLive(main.irp)
  BY DEF Waiting, QueuedLive, QueuedOnce, MainOwns, LiveKept, MainStays, Live, StaysLive
<1> QED BY <1>1, <1>2 DEF Waiting, QueuedLive, QueuedOnce, MainOwns, MainStays, StaysLive, MainWaits, Live, Accepted

\* A fragment stays sound if its IRP is not the one that changes.
LEMMA FlowKept ==
    ASSUME NEW q, Flowing(q), NEW x, q.irp # x, LiveKept(x), MainStays, UNCHANGED MainThreadQueue
    PROVE  Flowing(q)'
<1>1. StaysLive(q.irp)
  BY DEF Flowing, LiveKept, Live, StaysLive
<1> QED BY <1>1 DEF Flowing, MainStays, StaysLive, Live, Accepted

\* So do all fragments, if none of them belongs to x.
LEMMA StagesKept ==
    ASSUME Stages, NEW x, LiveKept(x), Apart(x), MainStays, IoStays, CompletionStays,
           UNCHANGED queueVars
    PROVE  Stages'
<1> USE DEF queueVars
<1>1. (\A n \in DOMAIN IoThreadQueue : Flowing(IoThreadQueue[n]))'
  BY FlowKept DEF Stages, Apart, Flowing
<1>2. (\A n \in DOMAIN CompletionThreadQueue : Flowing(CompletionThreadQueue[n]))'
  BY FlowKept DEF Stages, Apart, Flowing
<1>3. IoHas' => Flowing(io.req)'
  BY FlowKept DEF Stages, Apart, Flowing, IoStays
<1>4. CompletionHas' => Flowing(completion.req)'
  BY FlowKept DEF Stages, Apart, Flowing, CompletionStays
<1> QED BY <1>1, <1>2, <1>3, <1>4 DEF Stages

\* The order of the stages depends only on the fragments in them.
LEMMA OrderKept ==
    ASSUME Order, IoStays, CompletionStays, UNCHANGED <<IoThreadQueue, CompletionThreadQueue>>
    PROVE  Order'
  BY DEF Order, IoStays, CompletionStays, NoneInIo, NoneAtIo, NoneInCompletion

\* The I/O thread and the completion thread come to no point where it matters what
\* they have.
IoPassive ==
    /\ io'.pc \in {"handOver", "handOverAhead"} => io.pc \in {"handOver", "handOverAhead"}
    /\ io'.pc = "complete" => io.pc = "complete"
CompletionPassive == completion'.pc = "complete" => completion.pc = "complete"

\* A last fragment on its way to completion stays the only one of its IRP.
LEMMA CompletersKept ==
    ASSUME Completers, Stages, NEW x, LiveKept(x), Apart(x), IoStays, IoPassive,
           CompletionStays, CompletionPassive, UNCHANGED CompletionThreadQueue
    PROVE  Completers'
<1>1. \A n \in DOMAIN CompletionThreadQueue :
         irp'[CompletionThreadQueue[n].irp].req = irp[CompletionThreadQueue[n].irp].req
  BY DEF Stages, Flowing, Live, LiveKept, StaysLive, Apart
<1>2. CompletionHas' => irp'[completion.req.irp].req = irp[completion.req.irp].req
  BY DEF Stages, Flowing, Live, LiveKept, StaysLive, Apart, CompletionStays
<1>3. IoHas' => irp'[io.req.irp].req = irp[io.req.irp].req
  BY DEF Stages, Flowing, Live, LiveKept, StaysLive, Apart, IoStays
<1>4. (io.pc \in {"handOver", "handOverAhead", "complete"})' => IoHas'
  BY DEF IoHas
<1>5. (completion.pc = "complete")' => CompletionHas'
  BY DEF CompletionHas
<1>6. (\A n \in DOMAIN CompletionThreadQueue : IsRead(CompletionThreadQueue[n]))'
  BY <1>1 DEF Completers, IsRead
<1>7. (CompletionHas => IsRead(completion.req))'
  BY <1>2 DEF Completers, IsRead, CompletionStays
<1>8. (io.pc \in {"handOver", "handOverAhead"} => IsRead(io.req))'
  BY <1>3, <1>4 DEF Completers, IsRead, IoStays, IoPassive
<1>9. (io.pc = "complete" => ~IsRead(io.req) /\ io.req.last)'
  BY <1>3, <1>4 DEF Completers, IsRead, IoStays, IoPassive
<1>10. (completion.pc = "complete" => completion.req.last)'
  BY <1>5 DEF Completers, CompletionStays, CompletionPassive
<1> QED BY <1>6, <1>7, <1>8, <1>9, <1>10 DEF Completers

\* What a thread has completed and not yet released stays so.
LEMMA EndingsKept ==
    ASSUME Endings, NEW x, EndedKept(x), MainEndStays, IoEndStays, CompletionEndStays,
           MainEnds' => main.irp # x, IoEnds' => io.req.irp # x, CompletionEnds' => completion.req.irp # x
    PROVE  Endings'
<1>1. MainEnds' => MainEnds /\ main'.irp = main.irp /\ StaysEnded(main.irp)
  BY DEF Endings, EndedKept, MainEndStays, Ended, StaysEnded
<1>2. IoEnds' => IoEnds /\ io'.req = io.req /\ StaysEnded(io.req.irp)
  BY DEF Endings, EndedKept, IoEndStays, Ended, StaysEnded
<1>3. CompletionEnds' => CompletionEnds /\ completion'.req = completion.req /\ StaysEnded(completion.req.irp)
  BY DEF Endings, EndedKept, CompletionEndStays, Ended, StaysEnded
<1> QED BY <1>1, <1>2, <1>3 DEF Endings, Ended, Accepted, StaysEnded

\* Nobody is no IRP.
LEMMA EndingsSame ==
    ASSUME Endings, EndedKept(Nobody), MainEndStays, IoEndStays, CompletionEndStays
    PROVE  Endings'
<1>1. /\ MainEnds' => main.irp # Nobody
      /\ IoEnds' => io.req.irp # Nobody
      /\ CompletionEnds' => completion.req.irp # Nobody
  BY QueueAssumption DEF QueueAssumption, Endings, Ended, MainEndStays, IoEndStays, CompletionEndStays
<1> QED BY <1>1, EndingsKept

\* Whoever holds the remove lock still holds it.
LEMMA LocksKept ==
    ASSUME Locks, AllKept, removeLock'.held = removeLock.held
    PROVE  Locks' /\ LiveKept(Nobody) /\ EndedKept(Nobody)
<1>1. Locks'
  BY DEF Locks, AllKept, Kept, Accepted
<1> QED BY <1>1 DEF AllKept, Kept, LiveKept, StaysLive, EndedKept, StaysEnded, Live, Ended, Accepted

\* No fragment under way belongs to Nobody.
LEMMA NobodyApart ==
    ASSUME Waiting, Stages, MainStays, IoStays, CompletionStays
    PROVE  Apart(Nobody)
  BY QueueAssumption DEF QueueAssumption, Waiting, QueuedLive, QueuedOnce, MainOwns, Stages, Flowing, Live, MainStays, IoStays,
     CompletionStays, Apart

\* A step that gives no thread anything and changes no IRP that is on its way.
LEMMA PipeKept ==
    ASSUME PipeInv, LiveKept(Nobody), EndedKept(Nobody), Locks', MainStays, IoStays, IoPassive,
           CompletionStays, CompletionPassive, UNCHANGED queueVars,
           MainEndStays, IoEndStays, CompletionEndStays
    PROVE  PipeInv'
<1>1. Apart(Nobody)
  BY NobodyApart DEF PipeInv
<1>2. Waiting'
  BY <1>1, WaitingKept DEF PipeInv, Apart, queueVars
<1>3. Stages'
  BY <1>1, StagesKept DEF PipeInv
<1>4. Order'
  BY OrderKept DEF PipeInv, queueVars
<1>5. Completers'
  BY <1>1, CompletersKept DEF PipeInv, queueVars
<1>6. Endings'
  BY EndingsSame DEF PipeInv
<1> QED BY <1>2, <1>3, <1>4, <1>5, <1>6 DEF PipeInv

\* Changes of status and data keep the types.
LEMMA TypesKept ==
    ASSUME IrpTypes, AllKept
    PROVE  IrpTypes'
  BY DEF IrpTypes, AllKept, SameFields, Kept

ThreadsStay ==
    /\ MainStays /\ MainEndStays /\ IoStays /\ IoEndStays /\ IoPassive
    /\ CompletionStays /\ CompletionEndStays /\ CompletionPassive

\* A thread that does not move stays where it was.
LEMMA StillThreads ==
    /\ UNCHANGED main => MainStays /\ MainEndStays
    /\ UNCHANGED io => IoStays /\ IoEndStays /\ IoPassive
    /\ UNCHANGED completion => CompletionStays /\ CompletionEndStays /\ CompletionPassive
  BY DEF MainEndStays, IoEndStays, CompletionEndStays, MainStays, IoStays, IoPassive, CompletionStays, CompletionPassive, MainHas, MainEarly,
     MainWaits, MainEnds, IoHas, IoEnds, CompletionHas, CompletionEnds

\* EncryptedIoQueueAddIrp keeps the pipeline sound: the IRP enters as a new, counted and
\* locked one.
LEMMA DispatchPipe ==
    ASSUME ShapeInv, PipeInv, NEW i \in Irps,
           Dispatcher(i) \/ \E req \in Requests : AddIrp(i, req)
    PROVE  PipeInv' /\ IrpTypes'
<1>1. IrpTypes /\ Locks /\ QueueTypes /\ Waiting
  BY DEF ShapeInv, PipeInv
<1>2. DispatchFrame
  BY DispatchTypes
<1>3. ThreadsStay /\ UNCHANGED <<IoThreadQueue, CompletionThreadQueue, main, io, completion>>
  BY <1>2, StillThreads DEF DispatchFrame, thrVars, ThreadsStay
<1>4. removeLock \in [held : SUBSET Irps, removing : BOOLEAN]
  BY <1>1 DEF QueueTypes
<1>5. ASSUME NEW d \in Dispositions, Disposed(i, d), UNCHANGED MainThreadQueue,
             \/ irp[i].disp = "new" /\ d = "counted" /\ removeLock'.held = removeLock.held
             \/ irp[i].disp = "counted" /\ d = "refused" /\ removeLock'.held = removeLock.held
             \/ irp[i].disp = "counted" /\ d = "locked" /\ removeLock'.held = removeLock.held \cup {i}
             \/ irp[i].disp = "inserted" /\ d = "returned" /\ removeLock'.held = removeLock.held
                /\ irp'[i].req = irp[i].req
             \/ /\ irp[i].disp \in {"refused", "refusedIdle"} /\ d \in {"refusedIdle", "rejected"}
                /\ removeLock'.held = removeLock.held
      PROVE  PipeInv' /\ IrpTypes'
  <2>1. IrpTypes'
    BY <1>1, <1>5 DEF IrpTypes, Disposed, OthersKept, SameFields, Kept
  <2>2. Locks'
    BY <1>1, <1>5 DEF Locks, Disposed, OthersKept, Kept, Accepted
  <2>3. LiveKept(Nobody)
    BY <1>1, <1>5 DEF LiveKept, StaysLive, Live, Accepted, Disposed, OthersKept, Kept
  <2>4. EndedKept(Nobody)
    BY <1>1, <1>5 DEF EndedKept, StaysEnded, Ended, Accepted, Disposed, OthersKept, Kept
  <2> QED BY <1>3, <1>5, <2>1, <2>2, <2>3, <2>4, PipeKept DEF queueVars, ThreadsStay
<1>6. CASE \E req \in Requests : AddIrp(i, req)
  <2>1. Disposed(i, "counted")
    BY <1>1, <1>6, DispatchEffect
  <2>2. irp[i].disp = "new" /\ UNCHANGED <<MainThreadQueue, removeLock>> /\ "counted" \in Dispositions
    BY <1>6 DEF AddIrp, Dispositions
  <2> QED BY <2>1, <2>2, <1>5
<1>7. CASE AddIrpCheck(i)
  <2>1. /\ irp[i].disp = "counted" /\ UNCHANGED MainThreadQueue
        /\ \/ Dispatch(i, "refused") /\ UNCHANGED removeLock
           \/ Dispatch(i, "locked") /\ removeLock' = [removeLock EXCEPT !.held = removeLock.held \cup {i}]
        /\ "refused" \in Dispositions /\ "locked" \in Dispositions
    BY <1>7 DEF AddIrpCheck, Dispositions
  <2>2. CASE Dispatch(i, "refused") /\ UNCHANGED removeLock
    <3>1. Disposed(i, "refused")
      BY <1>1, <2>2, DispatchEffect
    <3> QED BY <2>1, <2>2, <3>1, <1>5
  <2>3. CASE Dispatch(i, "locked") /\ removeLock' = [removeLock EXCEPT !.held = removeLock.held \cup {i}]
    <3>1. Disposed(i, "locked")
      BY <1>1, <2>3, DispatchEffect
    <3>2. removeLock'.held = removeLock.held \cup {i}
      BY <1>4, <2>3
    <3> QED BY <2>1, <3>1, <3>2, <1>5
  <2> QED BY <2>1, <2>2, <2>3
<1>8. CASE AddIrpSignal(i)
  <2>1. /\ irp[i].disp = "inserted" /\ Dispatch(i, "returned") /\ "returned" \in Dispositions
        /\ UNCHANGED <<MainThreadQueue, removeLock>>
    BY <1>8 DEF AddIrpSignal, Dispositions
  <2>2. Disposed(i, "returned")
    BY <1>1, <2>1, DispatchEffect
  <2>3. irp'[i].req = irp[i].req
    BY <1>1, <2>1 DEF Dispatch, IrpTypes, IrpFields
  <2> QED BY <2>1, <2>2, <2>3, <1>5
<1>9. CASE AddIrpErr(i) \/ AddIrpErrSignal(i)
  <2>1. PICK d \in {"refusedIdle", "rejected"} :
           /\ irp[i].disp \in {"refused", "refusedIdle"} /\ Dispatch(i, d)
           /\ UNCHANGED <<MainThreadQueue, removeLock>>
    BY <1>9 DEF AddIrpErr, AddIrpErrSignal
  <2>2. d \in Dispositions
    BY DEF Dispositions
  <2>3. Disposed(i, d)
    BY <1>1, <2>1, DispatchEffect
  <2> QED BY <2>1, <2>2, <2>3, <1>5
<1>10. CASE AddIrpInsert(i)
  <2>1. /\ irp[i].disp = "locked" /\ Dispatch(i, "inserted") /\ UNCHANGED removeLock
        /\ MainThreadQueue' = Append(MainThreadQueue, i) /\ "inserted" \in Dispositions
    BY <1>10 DEF AddIrpInsert, Dispositions
  <2>2. Disposed(i, "inserted")
    BY <1>1, <2>1, DispatchEffect
  <2>3. IrpTypes'
    BY <1>1, <2>1, <2>2 DEF IrpTypes, Disposed, OthersKept, SameFields, Kept
  <2>4. Locks'
    BY <1>1, <2>1, <2>2 DEF Locks, Disposed, OthersKept, Kept, Accepted
  <2>5. LiveKept(Nobody) /\ ~Live(i)
    BY <1>1, <2>1, <2>2 DEF LiveKept, StaysLive, Live, Accepted, Disposed, OthersKept, Kept
  <2>6. EndedKept(Nobody)
    BY <1>1, <2>1, <2>2 DEF EndedKept, StaysEnded, Ended, Accepted, Disposed, OthersKept, Kept
  <2>7. Apart(Nobody) /\ Stages
    BY <1>3, NobodyApart DEF PipeInv, ThreadsStay
  <2>8. /\ i \in removeLock'.held /\ irp'[i].disp = "inserted" /\ irp'[i].done = 0
        /\ irp'[i].status = "pending"
    BY <1>1, <2>1, <2>2 DEF Locks, Disposed, Accepted
  <2>9. /\ DOMAIN MainThreadQueue = 1 .. Len(MainThreadQueue) /\ Len(MainThreadQueue) \in Nat
        /\ DOMAIN MainThreadQueue' = 1 .. Len(MainThreadQueue) + 1
        /\ \A n \in DOMAIN MainThreadQueue' :
              MainThreadQueue'[n] = IF n = Len(MainThreadQueue) + 1 THEN i ELSE MainThreadQueue[n]
    BY <1>1, <2>1, AppendFacts DEF QueueTypes
  <2>10. Waiting'
    <3>1. \A n \in DOMAIN MainThreadQueue :
             StaysLive(MainThreadQueue[n]) /\ MainThreadQueue[n] # i
      BY <1>1, <2>5, <2>7 DEF Waiting, QueuedLive, QueuedOnce, MainOwns, LiveKept, Live, Accepted, StaysLive, Apart
    <3>2. MainHas' => MainHas /\ StaysLive(main.irp) /\ main.irp # i
      BY <1>1, <1>3, <2>5, <2>7 DEF Waiting, QueuedLive, QueuedOnce, MainOwns, LiveKept, Live, Accepted, StaysLive, Apart, ThreadsStay, MainStays
    <3>3. QueuedLive'
      BY <1>1, <2>8, <2>9, <3>1 DEF Waiting, QueuedLive, QueuedOnce, MainOwns, StaysLive, Live, Accepted
    <3>4. QueuedOnce'
      BY <1>1, <2>9, <3>1 DEF Waiting, QueuedLive, QueuedOnce, MainOwns
    <3>5. MainOwns'
      BY <1>1, <1>3, <2>9, <3>2 DEF Waiting, QueuedLive, QueuedOnce, MainOwns, StaysLive, Live, Accepted
    <3> QED BY <3>3, <3>4, <3>5 DEF Waiting
  <2>11. Stages'
    <3>1. ASSUME NEW q, Flowing(q) PROVE Flowing(q)'
      <4>1. StaysLive(q.irp) /\ q.irp # i
        BY <2>5, <3>1, QueueAssumption DEF Flowing, Live, LiveKept, StaysLive, QueueAssumption
      <4> QED BY <1>3, <2>9, <3>1, <4>1 DEF Flowing, StaysLive, Live, Accepted, ThreadsStay, MainStays
    <3>2. (\A n \in DOMAIN IoThreadQueue : Flowing(IoThreadQueue[n]))'
      BY <1>3, <2>7, <3>1 DEF Stages, Flowing
    <3>3. (\A n \in DOMAIN CompletionThreadQueue : Flowing(CompletionThreadQueue[n]))'
      BY <1>3, <2>7, <3>1 DEF Stages, Flowing
    <3>4. IoHas' => Flowing(io.req)'
      BY <1>3, <2>7, <3>1 DEF Stages, Flowing, ThreadsStay, IoStays
    <3>5. CompletionHas' => Flowing(completion.req)'
      BY <1>3, <2>7, <3>1 DEF Stages, Flowing, ThreadsStay, CompletionStays
    <3> QED BY <3>2, <3>3, <3>4, <3>5 DEF Stages
  <2>12. Order' /\ Completers' /\ Endings'
    BY <1>3, <2>5, <2>6, <2>7, OrderKept, CompletersKept, EndingsSame DEF PipeInv, ThreadsStay
  <2> QED BY <2>3, <2>4, <2>10, <2>11, <2>12 DEF PipeInv
<1> QED BY <1>6, <1>7, <1>8, <1>9, <1>10 DEF Dispatcher

\* The main thread may go on with what it has, or lose it.
LEMMA MainQuiet ==
    ASSUME main \in MainStates,
           \/ MainWait \/ MainGate \/ MainWaitResumed \/ MainWaitPool \/ MainRefuse
           \/ MainReadMisaligned \/ MainBeginFragments \/ MainNextFragment \/ MainGetRequest
           \/ MainAcquireBuffer \/ MainSignalIdle \/ MainSignalIo
           \/ (MainDequeue /\ MainThreadQueue = <<>>) \/ (MainGetItem /\ ~(freeItems > 0))
    PROVE  MainStays /\ MainEndStays /\ UNCHANGED <<MainThreadQueue, IoThreadQueue, removeLock>>
<1> USE DEF MainStays, MainEndStays, MainHas, MainEarly, MainWaits, MainEnds, MainStates, MainGoTo, envVars
<1>1. CASE MainWait \/ MainGate \/ MainWaitResumed \/ MainWaitPool
  BY <1>1, SMTT(60) DEF MainWait, MainGate, MainWaitResumed, MainWaitPool
<1>2. CASE MainRefuse \/ MainReadMisaligned \/ MainBeginFragments
  BY <1>2 DEF MainRefuse, MainReadMisaligned, MainBeginFragments
<1>3. CASE MainNextFragment
  <2>1. main'.pc = "getRequest" /\ main'.irp = main.irp /\ main.pc = "fragment"
    BY <1>3 DEF MainNextFragment
  <2> QED BY <1>3, <2>1 DEF MainNextFragment
<1>7. CASE MainAcquireBuffer \/ MainSignalIdle
  <2>1. /\ main' = [main EXCEPT !.pc = IF main.pc = "acquire" THEN "enqueue" ELSE "releaseItem"]
        /\ main.pc \in {"acquire", "signalIdle"}
        /\ UNCHANGED <<MainThreadQueue, IoThreadQueue, removeLock>>
    BY <1>7 DEF MainAcquireBuffer, MainSignalIdle
  <2> QED BY <2>1
<1>4. CASE MainGetRequest
  <2>1. main'.pc \in {"acquire", "waitRequest"} /\ main'.irp = main.irp /\ main.pc = "getRequest"
    BY <1>4 DEF MainGetRequest
  <2> QED BY <1>4, <2>1 DEF MainGetRequest
<1>5. CASE MainSignalIo
  <2>1. /\ main.pc = "signalIo" /\ UNCHANGED <<MainThreadQueue, IoThreadQueue, removeLock>>
        /\ IF main.req.last THEN MainDone
           ELSE main' = [main EXCEPT !.pc = "fragment", !.off = main.off + MaxFragment,
                           !.left = main.left - MaxFragment, !.pos = main.pos + MaxFragment]
    BY <1>5 DEF MainSignalIo
  <2>2. CASE main.req.last
    <3>1. main'.pc = "dequeue"
      BY <2>1, <2>2 DEF MainDone, IdleMain
    <3> QED BY <2>1, <3>1
  <2>3. CASE ~main.req.last
    <3>1. main'.pc = "fragment" /\ main'.irp = main.irp
      BY <2>1, <2>3
    <3> QED BY <2>1, <2>3, <3>1
  <2> QED BY <2>2, <2>3
<1>6. CASE (MainDequeue /\ MainThreadQueue = <<>>) \/ (MainGetItem /\ ~(freeItems > 0))
  BY <1>6 DEF MainDequeue, MainGetItem
<1> QED BY <1>1, <1>2, <1>3, <1>4, <1>5, <1>6, <1>7

\* The quiet steps of the main thread keep the pipeline.
LEMMA MainPipeQuiet ==
    ASSUME ShapeInv, PipeInv,
           \/ MainWait \/ MainGate \/ MainWaitResumed \/ MainWaitPool \/ MainRefuse
           \/ MainReadMisaligned \/ MainBeginFragments \/ MainNextFragment \/ MainGetRequest
           \/ MainAcquireBuffer \/ MainSignalIdle \/ MainSignalIo
           \/ (MainDequeue /\ MainThreadQueue = <<>>) \/ (MainGetItem /\ ~(freeItems > 0))
    PROVE  PipeInv' /\ IrpTypes' /\ AllKept /\ UNCHANGED removeLock
<1>1. main \in MainStates /\ IrpTypes /\ Locks /\ Waiting
  BY DEF ShapeInv, ThreadTypes, PipeInv
<1>2. MainStays /\ MainEndStays /\ UNCHANGED <<MainThreadQueue, IoThreadQueue, removeLock>>
  BY <1>1, MainQuiet
<1>3. MainFrame
  BY MainFrames DEF MainThread
<1>4. AllKept
  <2>1. CASE MainRefuse \/ MainReadMisaligned \/ MainBeginFragments
    BY <1>1, <2>1, MainEffect
  <2>2. CASE ~(MainRefuse \/ MainReadMisaligned \/ MainBeginFragments)
    <3>1. UNCHANGED irp
      BY <2>2 DEF MainWait, MainGate, MainWaitResumed, MainWaitPool, MainNextFragment,
           MainGetRequest, MainAcquireBuffer, MainSignalIdle, MainSignalIo, MainDequeue, MainGetItem
    <3> QED BY <1>1, <3>1, NoEffect
  <2> QED BY <2>1, <2>2
<1>5. Locks' /\ LiveKept(Nobody) /\ EndedKept(Nobody) /\ IrpTypes'
  BY <1>1, <1>2, <1>4, LocksKept, TypesKept
<1>6. /\ IoStays /\ IoPassive /\ CompletionStays /\ CompletionPassive /\ UNCHANGED queueVars
      /\ IoEndStays /\ CompletionEndStays
  BY <1>2, <1>3, StillThreads DEF MainFrame, queueVars
<1> QED BY <1>2, <1>4, <1>5, <1>6, PipeKept

\* The main thread takes the first IRP of its queue.
LEMMA MainDequeuePipe ==
    ASSUME ShapeInv, PipeInv, MainDequeue, MainThreadQueue # <<>>
    PROVE  PipeInv' /\ IrpTypes'
<1> DEFINE h == Head(MainThreadQueue)
<1>1. main \in MainStates /\ IrpTypes /\ Locks /\ Waiting /\ Stages /\ MainThreadQueue \in Seq(Irps)
  BY DEF ShapeInv, ThreadTypes, PipeInv, QueueTypes
<1>2. /\ main.pc = "dequeue" /\ main' = [main EXCEPT !.pc = "gate", !.irp = h]
      /\ MainThreadQueue' = Tail(MainThreadQueue)
      /\ UNCHANGED <<irp, removeLock, IoThreadQueue, CompletionThreadQueue, io, completion>>
  BY MainFrames DEF MainDequeue, envVars, MainThread, MainFrame
<1>3. /\ h = MainThreadQueue[1] /\ 1 \in DOMAIN MainThreadQueue
      /\ Len(MainThreadQueue) \in Nat /\ DOMAIN MainThreadQueue = 1 .. Len(MainThreadQueue)
      /\ DOMAIN MainThreadQueue' = 1 .. Len(MainThreadQueue) - 1
      /\ \A n \in DOMAIN MainThreadQueue' :
            n + 1 \in DOMAIN MainThreadQueue /\ MainThreadQueue'[n] = MainThreadQueue[n + 1]
  BY <1>1, <1>2, TailFacts
<1>4. Live(h) /\ irp[h].status = "pending"
  BY <1>1, <1>3 DEF Waiting, QueuedLive
<1>5. main'.pc = "gate" /\ main'.irp = h
  BY <1>1, <1>2 DEF MainStates
<1>6. \A n \in DOMAIN MainThreadQueue' : MainThreadQueue'[n] # h
  BY <1>1, <1>3 DEF Waiting, QueuedOnce
<1>7. AllKept /\ IrpTypes'
  BY <1>1, <1>2, NoEffect, TypesKept
<1>8. Locks' /\ LiveKept(Nobody) /\ EndedKept(Nobody)
  BY <1>1, <1>2, <1>7, LocksKept
<1>9. IoStays /\ IoPassive /\ CompletionStays /\ CompletionPassive
  BY <1>2, StillThreads
<1>10. Waiting'
  <2>1. QueuedLive'
    BY <1>1, <1>2, <1>3 DEF Waiting, QueuedLive, Live, Accepted
  <2>2. QueuedOnce'
    BY <1>1, <1>3 DEF Waiting, QueuedOnce
  <2>3. MainOwns'
    BY <1>2, <1>4, <1>5, <1>6 DEF MainOwns, Live, Accepted
  <2> QED BY <2>1, <2>2, <2>3 DEF Waiting
<1>11. Stages'
  <2>1. ASSUME NEW q, Flowing(q) PROVE Flowing(q)'
    BY <1>2, <1>3, <1>5, <2>1 DEF Flowing, Live, Accepted
  <2>2. (\A n \in DOMAIN IoThreadQueue : Flowing(IoThreadQueue[n]))'
    BY <1>1, <1>2, <2>1 DEF Stages, Flowing
  <2>3. (\A n \in DOMAIN CompletionThreadQueue : Flowing(CompletionThreadQueue[n]))'
    BY <1>1, <1>2, <2>1 DEF Stages, Flowing
  <2>4. IoHas' => Flowing(io.req)'
    BY <1>1, <1>2, <2>1 DEF Stages, Flowing, IoHas
  <2>5. CompletionHas' => Flowing(completion.req)'
    BY <1>1, <1>2, <2>1 DEF Stages, Flowing, CompletionHas
  <2> QED BY <2>2, <2>3, <2>4, <2>5 DEF Stages
<1>12. Order'
  BY <1>2, <1>9, OrderKept DEF PipeInv
<1>13. Completers'
  BY <1>2 DEF PipeInv, Completers, IsRead, CompletionHas
<1>14. Endings'
  BY <1>2, <1>5 DEF PipeInv, Endings, Ended, Accepted, MainEnds, IoEnds, CompletionEnds
<1> QED BY <1>7, <1>8, <1>10, <1>11, <1>12, <1>13, <1>14 DEF PipeInv

\* What a completion, a release and the start of an item do to the other IRPs.
LEMMA CompletedKeeps ==
    ASSUME IrpTypes, Locks, NEW i, Live(i), irp[i].status # "pending", Completed(i), UNCHANGED removeLock
    PROVE  IrpTypes' /\ Locks' /\ LiveKept(i) /\ EndedKept(Nobody) /\ StaysEnded(i)
<1> USE DEF Completed, OthersKept, Kept
<1>1. i \in Irps /\ Accepted(i) /\ irp[i].done = 0 /\ i \in removeLock.held
  BY DEF Live
<1>2. IrpTypes'
  BY <1>1 DEF IrpTypes, SameFields
<1>3. Locks'
  BY <1>1 DEF Locks, Accepted
<1>4. LiveKept(i)
  BY <1>1 DEF LiveKept, StaysLive, Live, Accepted
<1>5. StaysEnded(i)
  BY <1>1 DEF StaysEnded, Accepted
<1>6. EndedKept(Nobody)
  BY <1>1 DEF EndedKept, StaysEnded, Ended, Accepted
<1> QED BY <1>2, <1>3, <1>4, <1>5, <1>6

\* Releasing a completed IRP takes only its own lock.
LEMMA ReleasedKeeps ==
    ASSUME IrpTypes, Locks, NEW i, Ended(i), UNCHANGED irp, removeLock'.held = removeLock.held \ {i}
    PROVE  IrpTypes' /\ Locks' /\ LiveKept(Nobody) /\ EndedKept(i)
<1>1. i \in Irps /\ Accepted(i) /\ irp[i].done = 1
  BY DEF Ended
<1>2. IrpTypes'
  BY DEF IrpTypes
<1>3. Locks'
  BY <1>1 DEF Locks, Accepted
<1>4. LiveKept(Nobody)
  BY <1>1 DEF LiveKept, StaysLive, Live, Accepted
<1>5. EndedKept(i)
  BY DEF EndedKept, StaysEnded, Ended, Accepted
<1> QED BY <1>2, <1>3, <1>4, <1>5

\* An IRP that gets its item is at the start of its fragments.
LEMMA MainGetItemPipe ==
    ASSUME ShapeInv, PipeInv, MainGetItem, freeItems > 0
    PROVE  PipeInv' /\ IrpTypes'
<1> DEFINE i == main.irp
<1>1. main \in MainStates /\ IrpTypes /\ Locks /\ Waiting /\ Stages
  BY DEF ShapeInv, ThreadTypes, PipeInv
<1>2. /\ main.pc = "getItem" /\ main' = [main EXCEPT !.pc = "check"]
      /\ irp' = [irp EXCEPT ![i].status = "ok"]
      /\ UNCHANGED <<queueVars, removeLock, io, completion>>
  BY MainFrames DEF MainGetItem, MainGoTo, envVars, MainThread, MainFrame, queueVars
<1>3. main'.pc = "check" /\ main'.irp = i
  BY <1>1, <1>2 DEF MainStates
<1>4. Live(i) /\ irp[i].status = "pending" /\ i \in Irps
  BY <1>1, <1>2 DEF Waiting, MainOwns, MainHas, MainEarly, Live
<1>5. Equipped(i)
  BY <1>1, <1>2, <1>4, EquipEffect
<1> USE DEF Equipped, OthersKept, Kept
<1>6. IrpTypes'
  BY <1>1, <1>4, <1>5 DEF IrpTypes, SameFields, Statuses
<1>7. Locks'
  BY <1>1, <1>2, <1>4, <1>5 DEF Locks, Live, Accepted
<1>8. LiveKept(i) /\ EndedKept(Nobody)
  BY <1>1, <1>2, <1>4, <1>5 DEF LiveKept, StaysLive, EndedKept, StaysEnded, Live, Ended, Accepted
<1>9. IoStays /\ IoPassive /\ CompletionStays /\ CompletionPassive /\ IoEndStays /\ CompletionEndStays
  BY <1>2, StillThreads
<1>10. MainEndStays /\ MainHas /\ MainHas' /\ MainEarly /\ MainEarly'
  BY <1>2, <1>3 DEF MainEndStays, MainEnds, MainHas, MainEarly
<1>11. Waiting'
  <2>1. \A n \in DOMAIN MainThreadQueue : MainThreadQueue[n] # i
    BY <1>1, <1>10 DEF Waiting, MainOwns
  <2>2. QueuedLive'
    BY <1>1, <1>2, <1>8, <2>1 DEF Waiting, QueuedLive, LiveKept, StaysLive, Live, Accepted, queueVars
  <2>3. QueuedOnce'
    BY <1>1, <1>2 DEF Waiting, QueuedOnce, queueVars
  <2>4. Live(i)'
    BY <1>2, <1>3, <1>4, <1>5 DEF Live, Accepted
  <2>5. MainOwns'
    BY <1>2, <1>3, <1>4, <1>5, <2>1 DEF MainOwns, Live, Accepted, queueVars
  <2> QED BY <2>2, <2>3, <2>5 DEF Waiting
<1>13. Stages'
  <2>1. ASSUME NEW q, Flowing(q) PROVE Flowing(q)' /\ irp'[q.irp].req = irp[q.irp].req
    <3>1. q.irp # i
      BY <1>10, <2>1 DEF Flowing
    <3>2. StaysLive(q.irp)
      BY <1>8, <2>1, <3>1 DEF Flowing, LiveKept, StaysLive, Live
    <3> QED BY <1>2, <1>3, <2>1, <3>1, <3>2 DEF Flowing, StaysLive, Live, Accepted, queueVars
  <2>2. (\A n \in DOMAIN IoThreadQueue : Flowing(IoThreadQueue[n]))'
    BY <1>1, <1>2, <2>1 DEF Stages, Flowing, queueVars
  <2>3. (\A n \in DOMAIN CompletionThreadQueue : Flowing(CompletionThreadQueue[n]))'
    BY <1>1, <1>2, <2>1 DEF Stages, Flowing, queueVars
  <2>4. IoHas' => Flowing(io.req)'
    BY <1>1, <1>2, <2>1 DEF Stages, Flowing, IoHas
  <2>5. CompletionHas' => Flowing(completion.req)'
    BY <1>1, <1>2, <2>1 DEF Stages, Flowing, CompletionHas
  <2> QED BY <2>2, <2>3, <2>4, <2>5 DEF Stages
<1>14. Order'
  BY <1>2, <1>9, OrderKept DEF PipeInv, queueVars
<1>15. Completers'
  BY <1>1, <1>2, <1>4, <1>5 DEF PipeInv, Completers, IsRead, CompletionHas, Stages, Flowing, Live, IoHas, queueVars
<1>16. Endings'
  BY <1>8, <1>9, <1>10, EndingsSame DEF PipeInv
<1> QED BY <1>6, <1>7, <1>11, <1>13, <1>14, <1>15, <1>16 DEF PipeInv

\* A thread completes an IRP that no other stage knows of.
LEMMA CompletePipe ==
    ASSUME IrpTypes, PipeInv, NEW i, Live(i), irp[i].status # "pending", Completed(i),
           UNCHANGED <<queueVars, removeLock>>, Apart(i),
           MainStays, IoStays, IoPassive, CompletionStays, CompletionPassive,
           \/ /\ MainEnds' => main'.irp = i
              /\ UNCHANGED <<io, completion>>
           \/ /\ IoEnds' => io'.req.irp = i
              /\ UNCHANGED <<main, completion>>
           \/ /\ CompletionEnds' => completion'.req.irp = i
              /\ UNCHANGED <<main, io>>
    PROVE  PipeInv' /\ IrpTypes'
<1>1. Waiting /\ Stages /\ Order /\ Completers /\ Endings /\ Locks
  BY DEF PipeInv
<1>2. IrpTypes' /\ Locks' /\ LiveKept(i) /\ EndedKept(Nobody) /\ StaysEnded(i)
  BY <1>1, CompletedKeeps
<1>3. Waiting'
  BY <1>1, <1>2, WaitingKept DEF Apart, queueVars
<1>4. Stages'
  BY <1>1, <1>2, StagesKept
<1>5. Order'
  BY <1>1, OrderKept DEF queueVars
<1>6. Completers'
  BY <1>1, <1>2, CompletersKept DEF queueVars
<1>7. Endings'
  <2>1. \A j : Ended(j) => StaysEnded(j) /\ j # i
    BY <1>2, QueueAssumption DEF QueueAssumption, EndedKept, Ended, Live, StaysEnded
  <2>2. CASE (MainEnds' => main'.irp = i) /\ UNCHANGED <<io, completion>>
    <3>1. (IoEnds' <=> IoEnds) /\ (CompletionEnds' <=> CompletionEnds)
      BY <2>2 DEF IoEnds, CompletionEnds
    <3> QED BY <1>1, <1>2, <2>1, <2>2, <3>1 DEF Endings, StaysEnded, Ended, Accepted
  <2>3. CASE (IoEnds' => io'.req.irp = i) /\ UNCHANGED <<main, completion>>
    <3>1. (MainEnds' <=> MainEnds) /\ (CompletionEnds' <=> CompletionEnds)
      BY <2>3 DEF MainEnds, CompletionEnds
    <3> QED BY <1>1, <1>2, <2>1, <2>3, <3>1 DEF Endings, StaysEnded, Ended, Accepted
  <2>4. CASE (CompletionEnds' => completion'.req.irp = i) /\ UNCHANGED <<main, io>>
    <3>1. (MainEnds' <=> MainEnds) /\ (IoEnds' <=> IoEnds)
      BY <2>4 DEF MainEnds, IoEnds
    <3> QED BY <1>1, <1>2, <2>1, <2>4, <3>1 DEF Endings, StaysEnded, Ended, Accepted
  <2> QED BY <2>2, <2>3, <2>4
<1> QED BY <1>2, <1>3, <1>4, <1>5, <1>6, <1>7 DEF PipeInv

\* A thread releases the item of the IRP it has completed.
LEMMA ReleasePipe ==
    ASSUME IrpTypes, PipeInv, NEW i, Ended(i), UNCHANGED <<queueVars, irp>>,
           removeLock'.held = removeLock.held \ {i}, ThreadsStay,
           MainEnds' => main.irp # i, IoEnds' => io.req.irp # i,
           CompletionEnds' => completion.req.irp # i
    PROVE  PipeInv' /\ IrpTypes'
<1>1. Waiting /\ Stages /\ Order /\ Completers /\ Endings /\ Locks
  BY DEF PipeInv
<1>2. IrpTypes' /\ Locks' /\ LiveKept(Nobody) /\ EndedKept(i)
  BY <1>1, ReleasedKeeps
<1>3. Apart(Nobody)
  BY <1>1, NobodyApart DEF ThreadsStay
<1>4. Waiting'
  BY <1>1, <1>2, <1>3, WaitingKept DEF Apart, queueVars, ThreadsStay
<1>5. Stages'
  BY <1>1, <1>2, <1>3, StagesKept DEF ThreadsStay
<1>6. Order'
  BY <1>1, OrderKept DEF queueVars, ThreadsStay
<1>7. Completers'
  BY <1>1, <1>2, <1>3, CompletersKept DEF queueVars, ThreadsStay
<1>8. Endings'
  BY <1>1, <1>2, EndingsKept DEF ThreadsStay
<1> QED BY <1>2, <1>4, <1>5, <1>6, <1>7, <1>8 DEF PipeInv

\* An IRP the main thread ends itself has no fragment anywhere.
LEMMA MainEndsPipe ==
    ASSUME ShapeInv, PipeInv, MainComplete \/ MainReleaseItem
    PROVE  PipeInv' /\ IrpTypes'
<1> DEFINE i == main.irp
<1>1. main \in MainStates /\ IrpTypes /\ Waiting /\ Stages /\ Endings /\ QueueTypes
  BY DEF ShapeInv, ThreadTypes, PipeInv
<1>2. UNCHANGED <<queueVars, io, completion>>
  BY MainFrames DEF MainThread, MainFrame, queueVars, MainComplete, MainReleaseItem
<1>3. IoStays /\ IoPassive /\ CompletionStays /\ CompletionPassive /\ IoEndStays /\ CompletionEndStays
  BY <1>2, StillThreads
<1>4. CASE MainComplete
  <2>1. main.pc = "complete" /\ CompleteIrp(i) /\ UNCHANGED removeLock
    BY <1>4 DEF MainComplete, envVars
  <2>2. main'.pc \in {"signalIdle", "releaseItem"} /\ main'.irp = i
    BY <1>1, <1>4 DEF MainComplete, MainGoTo, AfterComplete, MainStates
  <2>3. MainHas /\ MainEarly /\ ~MainHas' /\ ~MainEarly'
    BY <2>1, <2>2 DEF MainHas, MainEarly
  <2>4. /\ Live(i) /\ irp[i].status # "pending" /\ i \in Irps
        /\ \A n \in DOMAIN MainThreadQueue : MainThreadQueue[n] # i
    BY <1>1, <2>1, <2>3 DEF Waiting, MainOwns, Live
  <2>5. Completed(i)
    BY <1>1, <2>1, <2>4, CompleteEffect
  <2>6. MainStays
    BY <2>3 DEF MainStays
  <2>7. Apart(i)
    BY <1>1, <1>2, <2>3, <2>4 DEF Apart, Stages, Flowing, IoHas, CompletionHas
  <2> QED BY <1>1, <1>2, <1>3, <2>1, <2>2, <2>4, <2>5, <2>6, <2>7, CompletePipe
<1>5. CASE MainReleaseItem
  <2>1. main.pc = "releaseItem" /\ ReleaseItem(i) /\ UNCHANGED irp /\ MainDone
    BY <1>5 DEF MainReleaseItem
  <2>2. main'.pc = "dequeue"
    BY <2>1 DEF MainDone, IdleMain
  <2>3. MainEnds /\ ~MainEnds' /\ ~MainHas' /\ ~MainEarly'
    BY <2>1, <2>2 DEF MainHas, MainEarly, MainEnds
  <2>4. /\ Ended(i) /\ (IoEnds => io.req.irp # i)
        /\ (CompletionEnds => completion.req.irp # i)
    BY <1>1, <2>3 DEF Endings
  <2>5. removeLock'.held = removeLock.held \ {i}
    BY <1>1, <2>1, ReleaseTypes
  <2>6. ThreadsStay
    BY <1>3, <2>3 DEF ThreadsStay, MainStays, MainEndStays
  <2>7. /\ IoEnds' => io.req.irp # i
        /\ CompletionEnds' => completion.req.irp # i
    BY <2>4, <2>6 DEF ThreadsStay, IoEndStays, CompletionEndStays
  <2> QED BY <1>1, <1>2, <2>1, <2>3, <2>4, <2>5, <2>6, <2>7, ReleasePipe
<1> QED BY <1>4, <1>5

\* The main thread puts a fragment behind the others of its IRP.
LEMMA MainEnqueuePipe ==
    ASSUME ShapeInv, PipeInv, MainEnqueue
    PROVE  PipeInv' /\ IrpTypes'
<1> DEFINE p == main.req
           Q == IoThreadQueue
<1>1. /\ main \in MainStates /\ IrpTypes /\ Locks /\ Waiting /\ Stages /\ Order /\ Completers
      /\ Endings /\ IoThreadQueue \in Seq(Fragments) /\ FragmentMade
  BY DEF ShapeInv, ThreadTypes, PipeInv, QueueTypes
<1>2. /\ main.pc = "enqueue" /\ main' = [main EXCEPT !.pc = "signalIo"]
      /\ Q' = Append(Q, p)
      /\ UNCHANGED <<irp, removeLock, MainThreadQueue, CompletionThreadQueue, io, completion>>
  BY MainFrames DEF MainEnqueue, MainGoTo, envVars, MainThread, MainFrame
<1>3. p \in Fragments
  BY <1>1 DEF MainStates
<1>4. /\ DOMAIN Q = 1 .. Len(Q) /\ Len(Q) \in Nat /\ DOMAIN Q' = 1 .. Len(Q) + 1
      /\ \A n \in DOMAIN Q' : Q'[n] = IF n = Len(Q) + 1 THEN p ELSE Q[n]
  BY <1>1, <1>2, <1>3, AppendFacts
<1>5. main'.pc = "signalIo" /\ main'.irp = main.irp /\ main'.req = p /\ p.irp = main.irp
  BY <1>1, <1>2 DEF MainStates, FragmentMade, MainMakes
<1>6. MainHas /\ ~MainEarly /\ ~MainEarly' /\ (MainHas' <=> ~p.last) /\ ~MainEnds /\ ~MainEnds'
  BY <1>2, <1>5 DEF MainHas, MainEarly, MainEnds
<1>7. MainStays /\ MainEndStays
  BY <1>2, <1>5, <1>6 DEF MainStays, MainEndStays, MainWaits
<1>8. /\ IoStays /\ IoPassive /\ CompletionStays /\ CompletionPassive
      /\ IoEndStays /\ CompletionEndStays
  BY <1>2, StillThreads
<1>9. AllKept /\ IrpTypes'
  BY <1>1, <1>2, NoEffect, TypesKept
<1>10. Locks' /\ LiveKept(Nobody) /\ EndedKept(Nobody)
  BY <1>1, <1>2, <1>9, LocksKept
<1>11. Apart(Nobody)
  BY <1>1, <1>7, <1>8, NobodyApart
<1>12. Waiting'
  BY <1>1, <1>2, <1>7, <1>10, <1>11, WaitingKept DEF Apart
<1>13. Flowing(p)'
  <2>1. /\ Live(p.irp) /\ irp[p.irp].status # "pending"
        /\ \A n \in DOMAIN MainThreadQueue : MainThreadQueue[n] # p.irp
    BY <1>1, <1>2, <1>5, <1>6 DEF Waiting, MainOwns
  <2> QED BY <1>2, <1>5, <1>6, <2>1 DEF Flowing, Live, Accepted
<1>14. Stages'
  <2>1. ASSUME NEW q, Flowing(q) PROVE Flowing(q)'
    <3>1. q.irp # Nobody
      BY <2>1, QueueAssumption DEF Flowing, Live, QueueAssumption
    <3> QED BY <1>2, <1>7, <1>10, <2>1, <3>1, FlowKept
  <2>2. (\A n \in DOMAIN IoThreadQueue : Flowing(IoThreadQueue[n]))'
    <3>1. SUFFICES ASSUME NEW n \in DOMAIN Q' PROVE Flowing(Q[n])'
      OBVIOUS
    <3>2. CASE n = Len(Q) + 1
      <4>1. Q'[n] = p
        BY <1>4, <3>2
      <4> QED BY <1>5, <1>13, <4>1 DEF Flowing
    <3>3. CASE n # Len(Q) + 1
      <4>1. Q'[n] = Q[n] /\ n \in DOMAIN Q
        BY <1>4, <3>3
      <4>2. Flowing(Q[n])
        BY <1>1, <4>1 DEF Stages
      <4> DEFINE q == Q[n]
      <4>3. Flowing(q) /\ Q'[n] = q
        BY <4>1, <4>2
      <4>4. q.irp # Nobody
        BY <4>3, QueueAssumption DEF Flowing, Live, QueueAssumption
      <4>5. StaysLive(q.irp)
        BY <4>3, <4>4, <1>10 DEF Flowing, LiveKept, Live, StaysLive
      <4> HIDE DEF q
      <4> QED BY <1>2, <1>7, <4>3, <4>5 DEF Flowing, MainStays, StaysLive, Live, Accepted
    <3> QED BY <3>2, <3>3
  <2>3. (\A n \in DOMAIN CompletionThreadQueue : Flowing(CompletionThreadQueue[n]))'
    BY <1>1, <1>2, <2>1 DEF Stages, Flowing
  <2>4. IoHas' => Flowing(io.req)'
    BY <1>1, <1>2, <2>1 DEF Stages, Flowing, IoHas
  <2>5. CompletionHas' => Flowing(completion.req)'
    BY <1>1, <1>2, <2>1 DEF Stages, Flowing, CompletionHas
  <2> QED BY <2>2, <2>3, <2>4, <2>5 DEF Stages
<1>15. Order'
  <2>1. \A n \in DOMAIN Q : Q[n].last => Q[n].irp # p.irp
    BY <1>1, <1>5, <1>6 DEF Stages, Flowing
  <2>2. IoHas /\ io.req.last => io.req.irp # p.irp
    BY <1>1, <1>5, <1>6 DEF Stages, Flowing
  <2>3. \A n \in DOMAIN CompletionThreadQueue :
           CompletionThreadQueue[n].last => CompletionThreadQueue[n].irp # p.irp
    BY <1>1, <1>5, <1>6 DEF Stages, Flowing
  <2>4. CompletionHas /\ completion.req.last => completion.req.irp # p.irp
    BY <1>1, <1>5, <1>6 DEF Stages, Flowing
  <2>5. ASSUME NEW q, NoneInIo(q), q.irp # p.irp PROVE \A n \in DOMAIN Q' : Q'[n].irp # q.irp
    BY <1>4, <2>5 DEF NoneInIo
  <2>6. (\A m, n \in DOMAIN IoThreadQueue :
          m < n /\ IoThreadQueue[m].last => IoThreadQueue[n].irp # IoThreadQueue[m].irp)'
    <3> HIDE DEF p
    <3>1. \A m, n \in DOMAIN Q : m < n /\ Q[m].last => Q[n].irp # Q[m].irp
      BY <1>1 DEF Order
    <3> QED BY <1>4, <2>1, <3>1
  <2>7. (IoHas /\ io.req.last => NoneInIo(io.req))'
    BY <1>1, <1>2, <2>2, <2>5 DEF Order, NoneInIo, IoHas
  <2>8. (\A m \in DOMAIN CompletionThreadQueue : CompletionThreadQueue[m].last =>
          /\ NoneInIo(CompletionThreadQueue[m]) /\ NoneAtIo(CompletionThreadQueue[m])
          /\ \A n \in DOMAIN CompletionThreadQueue :
                m < n => CompletionThreadQueue[n].irp # CompletionThreadQueue[m].irp)'
    BY <1>1, <1>2, <2>3, <2>5 DEF Order, NoneInIo, NoneAtIo, IoHas
  <2>9. (CompletionHas /\ completion.req.last =>
          NoneInIo(completion.req) /\ NoneAtIo(completion.req) /\ NoneInCompletion(completion.req))'
    BY <1>1, <1>2, <2>4, <2>5 DEF Order, NoneInIo, NoneAtIo, NoneInCompletion, IoHas, CompletionHas
  <2> QED BY <2>6, <2>7, <2>8, <2>9 DEF Order
<1>16. Completers'
  BY <1>1, <1>2 DEF Completers, IsRead, CompletionHas
<1>17. Endings'
  BY <1>1, <1>7, <1>8, <1>10, EndingsSame
<1> QED BY <1>9, <1>10, <1>12, <1>14, <1>15, <1>16, <1>17 DEF PipeInv

\* The I/O thread may go on with what it has, or lose it.
LEMMA IoQuiet ==
    ASSUME io \in [pc : IoPcs, req : Fragments],
           \/ IoWait \/ IoSkip \/ IoWrite \/ IoRead \/ IoAfterWrite \/ IoAfterRead
           \/ IoSignalCompletion \/ IoReadAhead \/ IoReadAheadDone \/ IoSignalIdle
           \/ IoReleaseRequest \/ (IoDequeue /\ IoThreadQueue = <<>>)
    PROVE  /\ IoStays /\ IoEndStays /\ UNCHANGED <<IoThreadQueue, CompletionThreadQueue, removeLock>>
           /\ IoPassive \/ IoAfterWrite \/ IoAfterRead
<1> USE DEF IoStays, IoEndStays, IoPassive, IoHas, IoEnds, IoGoTo, IoDone
<1>1. CASE IoWait \/ IoSkip \/ IoWrite \/ IoRead
  BY <1>1, ZenonT(60) DEF IoWait, IoSkip, IoWrite, IoRead
<1>2. CASE IoAfterWrite \/ IoAfterRead
  BY <1>2 DEF IoAfterWrite, IoAfterRead
<1>3. CASE IoSignalCompletion \/ IoReadAhead \/ IoReadAheadDone
  <2>1. /\ io.pc \in {"signal", "signalAhead", "readAhead", "aheadDone"}
        /\ io'.pc \in {"dequeue", "readAhead", "aheadDone", "aheadIdle"}
    <3>1. CASE IoSignalCompletion
      BY <3>1 DEF IoSignalCompletion
    <3>2. CASE IoReadAhead
      <4>1. io.pc = "readAhead" /\ IoGoTo("aheadDone")
        BY <3>2 DEF IoReadAhead
      <4> QED BY <4>1
    <3>3. CASE IoReadAheadDone
      <4>1. io.pc = "aheadDone" /\ (IoGoTo("aheadIdle") \/ IoDone)
        BY <3>3 DEF IoReadAheadDone
      <4> QED BY <4>1
    <3> QED BY <1>3, <3>1, <3>2, <3>3
  <2>2. UNCHANGED <<IoThreadQueue, CompletionThreadQueue, removeLock>>
    BY <1>3 DEF IoSignalCompletion, IoReadAhead, IoReadAheadDone
  <2> QED BY <2>1, <2>2
<1>4. CASE IoSignalIdle \/ IoReleaseRequest \/ (IoDequeue /\ IoThreadQueue = <<>>)
  <2>1. CASE IoSignalIdle
    BY <2>1 DEF IoSignalIdle
  <2>2. CASE IoReleaseRequest
    BY <2>2 DEF IoReleaseRequest
  <2>3. CASE IoDequeue /\ IoThreadQueue = <<>>
    BY <2>3 DEF IoDequeue
  <2> QED BY <1>4, <2>1, <2>2, <2>3
<1> QED BY <1>1, <1>2, <1>3, <1>4, SMTT(60)

\* The quiet steps of the I/O thread keep the pipeline.
LEMMA IoPipeQuiet ==
    ASSUME ShapeInv, PipeInv,
           \/ IoWait \/ IoSkip \/ IoWrite \/ IoRead \/ IoAfterWrite \/ IoAfterRead
           \/ IoSignalCompletion \/ IoReadAhead \/ IoReadAheadDone \/ IoSignalIdle
           \/ IoReleaseRequest \/ (IoDequeue /\ IoThreadQueue = <<>>)
    PROVE  PipeInv' /\ IrpTypes' /\ AllKept /\ UNCHANGED removeLock
<1>1. /\ io \in [pc : IoPcs, req : Fragments] /\ IrpTypes /\ Locks /\ Waiting /\ Stages /\ Order
      /\ Endings /\ Completers
  BY DEF ShapeInv, ThreadTypes, PipeInv
<1>2. /\ IoStays /\ IoEndStays /\ UNCHANGED <<IoThreadQueue, CompletionThreadQueue, removeLock>>
      /\ IoPassive \/ IoAfterWrite \/ IoAfterRead
  BY <1>1, IoQuiet
<1>3. IoFrame
  BY IoTypes DEF IoThread
<1>4. AllKept
  <2>1. CASE IoWrite \/ IoRead \/ IoAfterRead
    BY <1>1, <2>1, IoEffect
  <2>2. CASE ~(IoWrite \/ IoRead \/ IoAfterRead)
    <3>1. UNCHANGED irp
      BY <2>2 DEF IoWait, IoSkip, IoAfterWrite, IoSignalCompletion, IoReadAhead, IoReadAheadDone,
           IoSignalIdle, IoReleaseRequest, IoDequeue
    <3> QED BY <1>1, <3>1, NoEffect
  <2> QED BY <2>1, <2>2
<1>5. Locks' /\ LiveKept(Nobody) /\ EndedKept(Nobody) /\ IrpTypes'
  BY <1>1, <1>2, <1>4, LocksKept, TypesKept
<1>6. /\ MainStays /\ CompletionStays /\ CompletionPassive /\ UNCHANGED <<queueVars, completion>>
      /\ MainEndStays /\ CompletionEndStays
  BY <1>2, <1>3, StillThreads DEF IoFrame, queueVars
<1>7. CASE IoPassive
  BY <1>2, <1>4, <1>5, <1>6, <1>7, PipeKept
<1>8. CASE IoAfterWrite \/ IoAfterRead
  <2>1. Apart(Nobody)
    BY <1>1, <1>2, <1>6, NobodyApart
  <2>2. Waiting' /\ Stages' /\ Order'
    BY <1>1, <1>2, <1>5, <1>6, <2>1, WaitingKept, StagesKept, OrderKept DEF Apart, queueVars
  <2>3. Endings'
    BY <1>1, <1>2, <1>5, <1>6, EndingsSame
  <2>4. /\ io.pc = "accessed" /\ io'.req = io.req
        /\ \/ /\ irp[io.req.irp].req.op = "read" /\ io'.pc \in {"handOver", "handOverAhead"}
           \/ /\ irp[io.req.irp].req.op # "read"
              /\ io'.pc = "releaseRequest" \/ (io'.pc = "complete" /\ io.req.last)
    <3>1. CASE IoAfterWrite
      BY <1>1, <3>1 DEF IoAfterWrite, IoGoTo
    <3>2. CASE IoAfterRead
      BY <1>1, <3>2 DEF IoAfterRead, IoGoTo
    <3> QED BY <1>8, <3>1, <3>2
  <2>5. Live(io.req.irp)
    BY <1>1, <2>4 DEF Stages, IoHas, Flowing
  <2>6. irp'[io.req.irp].req = irp[io.req.irp].req
    BY <1>4, <2>5 DEF AllKept, Kept, Live
  <2>7. /\ \A n \in DOMAIN CompletionThreadQueue :
              irp'[CompletionThreadQueue[n].irp].req = irp[CompletionThreadQueue[n].irp].req
        /\ CompletionHas => irp'[completion.req.irp].req = irp[completion.req.irp].req
    BY <1>1, <1>4 DEF Stages, Flowing, Live, AllKept, Kept
  <2>8. Completers'
    BY <1>1, <1>6, <2>4, <2>6, <2>7 DEF Completers, IsRead, CompletionHas, queueVars
  <2> QED BY <1>2, <1>4, <1>5, <2>2, <2>3, <2>8 DEF PipeInv
<1> QED BY <1>2, <1>4, <1>7, <1>8

\* The I/O thread takes the first fragment of its queue.
LEMMA IoDequeuePipe ==
    ASSUME ShapeInv, PipeInv, IoDequeue, IoThreadQueue # <<>>
    PROVE  PipeInv' /\ IrpTypes'
<1> DEFINE Q == IoThreadQueue
           p == Head(Q)
<1>1. /\ IrpTypes /\ Locks /\ Waiting /\ Stages /\ Order /\ Completers
      /\ Endings /\ IoThreadQueue \in Seq(Fragments)
  BY DEF ShapeInv, PipeInv, QueueTypes
<1>2. /\ io.pc = "dequeue" /\ io' = [pc |-> "access", req |-> p]
      /\ Q' = Tail(Q)
      /\ UNCHANGED <<irp, removeLock, MainThreadQueue, CompletionThreadQueue, main, completion>>
  BY DEF IoDequeue, ioRest
<1>3. /\ p = Q[1] /\ 1 \in DOMAIN Q
      /\ DOMAIN Q = 1 .. Len(Q) /\ DOMAIN Q' = 1 .. Len(Q) - 1 /\ Len(Q) \in Nat
      /\ \A n \in DOMAIN Q' : n + 1 \in DOMAIN Q /\ Q'[n] = Q[n + 1]
  BY <1>1, <1>2, TailFacts
<1>4. io'.pc = "access" /\ io'.req = p
  BY <1>2
<1>5. ~IoHas /\ IoHas' /\ ~IoEnds' /\ IoEndStays
  BY <1>2, <1>4 DEF IoHas, IoEnds, IoEndStays
<1> HIDE DEF p
<1>6. /\ MainStays /\ CompletionStays /\ CompletionPassive
      /\ MainEndStays /\ CompletionEndStays
  BY <1>2, StillThreads
<1>7. AllKept /\ IrpTypes'
  BY <1>1, <1>2, NoEffect, TypesKept
<1>8. Locks' /\ LiveKept(Nobody) /\ EndedKept(Nobody)
  BY <1>1, <1>2, <1>7, LocksKept
<1>9. Waiting'
  BY <1>1, <1>2 DEF Waiting, QueuedLive, QueuedOnce, MainOwns, MainHas, MainEarly, Live, Accepted
<1>10. ASSUME NEW q, Flowing(q)
       PROVE  /\ q.irp \in Irps /\ irp'[q.irp].disp \in {"inserted", "returned"}
              /\ irp'[q.irp].done = 0 /\ q.irp \in removeLock'.held
              /\ irp'[q.irp].status # "pending"
              /\ \A n \in DOMAIN MainThreadQueue' : MainThreadQueue'[n] # q.irp
              /\ MainHas' /\ (q.last \/ MainEarly') => main'.irp # q.irp
  BY <1>2, <1>10 DEF Flowing, MainHas, MainEarly, Live, Accepted
<1>11. Stages'
  <2>1. (\A n \in DOMAIN IoThreadQueue : Flowing(IoThreadQueue[n]))'
    <3>1. SUFFICES ASSUME NEW n \in DOMAIN Q' PROVE Flowing(Q[n])'
      OBVIOUS
    <3> DEFINE q == Q[n + 1]
    <3>2. Q'[n] = q /\ Flowing(q)
      BY <1>1, <1>3, <3>1 DEF Stages
    <3> HIDE DEF q
    <3> QED BY <1>10, <3>2 DEF Flowing, Live, Accepted
  <2>2. Flowing(p)
    BY <1>1, <1>3 DEF Stages
  <2>3. Flowing(io.req)'
    BY <1>4, <1>10, <2>2 DEF Flowing, Live, Accepted
  <2>4. (\A n \in DOMAIN CompletionThreadQueue : Flowing(CompletionThreadQueue[n]))'
    BY <1>1, <1>2, <1>10 DEF Stages, Flowing, Live, Accepted
  <2>5. CompletionHas' => Flowing(completion.req)'
    BY <1>1, <1>2, <1>10 DEF Stages, Flowing, CompletionHas, Live, Accepted
  <2> QED BY <2>1, <2>3, <2>4, <2>5 DEF Stages
<1>12. Order'
  <2>1. \A m, n \in DOMAIN Q : m < n /\ Q[m].last => Q[n].irp # Q[m].irp
    BY <1>1 DEF Order
  <2>2. (\A m, n \in DOMAIN IoThreadQueue :
          m < n /\ IoThreadQueue[m].last => IoThreadQueue[n].irp # IoThreadQueue[m].irp)'
    BY <1>3, <2>1
  <2>3. (IoHas /\ io.req.last => NoneInIo(io.req))'
    BY <1>3, <1>4, <2>1 DEF NoneInIo
  <2>4. ASSUME NEW q, NoneInIo(q)
        PROVE  (\A n \in DOMAIN Q' : Q'[n].irp # q.irp) /\ p.irp # q.irp
    BY <1>3, <2>4 DEF NoneInIo
  <2>5. (\A m \in DOMAIN CompletionThreadQueue : CompletionThreadQueue[m].last =>
          /\ NoneInIo(CompletionThreadQueue[m]) /\ NoneAtIo(CompletionThreadQueue[m])
          /\ \A n \in DOMAIN CompletionThreadQueue :
                m < n => CompletionThreadQueue[n].irp # CompletionThreadQueue[m].irp)'
    BY <1>1, <1>2, <1>4, <2>4 DEF Order, NoneInIo, NoneAtIo
  <2>6. (CompletionHas /\ completion.req.last =>
          NoneInIo(completion.req) /\ NoneAtIo(completion.req) /\ NoneInCompletion(completion.req))'
    BY <1>1, <1>2, <1>4, <2>4 DEF Order, NoneInIo, NoneAtIo, NoneInCompletion, CompletionHas
  <2> QED BY <2>2, <2>3, <2>5, <2>6 DEF Order
<1>13. Completers'
  BY <1>1, <1>2, <1>4 DEF Completers, IsRead, CompletionHas
<1>14. Endings'
  BY <1>1, <1>5, <1>6, <1>8, EndingsSame
<1> QED BY <1>7, <1>8, <1>9, <1>11, <1>12, <1>13, <1>14 DEF PipeInv

\* The I/O thread hands a fragment of a read over to the completion thread.
LEMMA IoHandOverPipe ==
    ASSUME ShapeInv, PipeInv, IoHandOver
    PROVE  PipeInv' /\ IrpTypes'
<1> DEFINE p == io.req
           Q == CompletionThreadQueue
<1>1. /\ io \in [pc : IoPcs, req : Fragments] /\ IrpTypes /\ Locks /\ Waiting /\ Stages /\ Order
      /\ Completers /\ Endings /\ CompletionThreadQueue \in Seq(Fragments)
  BY DEF ShapeInv, ThreadTypes, PipeInv, QueueTypes
<1>2. /\ io.pc \in {"handOver", "handOverAhead"}
      /\ Q' = Append(Q, p)
      /\ UNCHANGED <<irp, removeLock, MainThreadQueue, IoThreadQueue, main, completion>>
  BY DEF IoHandOver, ioRest
<1>3. io'.pc \in {"signal", "signalAhead"} /\ io'.req = p /\ p \in Fragments
  BY <1>1 DEF IoHandOver, IoGoTo
<1>4. IoHas /\ ~IoHas' /\ ~IoEnds' /\ IoEndStays /\ IoStays
  BY <1>2, <1>3 DEF IoHas, IoEnds, IoEndStays, IoStays
<1>5. /\ DOMAIN Q = 1 .. Len(Q) /\ Len(Q) \in Nat /\ DOMAIN Q' = 1 .. Len(Q) + 1
      /\ \A n \in DOMAIN Q' : Q'[n] = IF n = Len(Q) + 1 THEN p ELSE Q[n]
  BY <1>1, <1>2, <1>3, AppendFacts
<1>6. /\ MainStays /\ CompletionStays /\ CompletionPassive
      /\ MainEndStays /\ CompletionEndStays
  BY <1>2, StillThreads
<1>7. AllKept /\ IrpTypes'
  BY <1>1, <1>2, NoEffect, TypesKept
<1>8. Locks' /\ LiveKept(Nobody) /\ EndedKept(Nobody)
  BY <1>1, <1>2, <1>7, LocksKept
<1>9. Waiting'
  BY <1>1, <1>2 DEF Waiting, QueuedLive, QueuedOnce, MainOwns, MainHas, MainEarly, Live, Accepted
<1>10. ASSUME NEW q, Flowing(q)
       PROVE  /\ q.irp \in Irps /\ irp'[q.irp].disp \in {"inserted", "returned"}
              /\ irp'[q.irp].done = 0 /\ q.irp \in removeLock'.held
              /\ irp'[q.irp].status # "pending"
              /\ \A n \in DOMAIN MainThreadQueue' : MainThreadQueue'[n] # q.irp
              /\ MainHas' /\ (q.last \/ MainEarly') => main'.irp # q.irp
  BY <1>2, <1>10 DEF Flowing, MainHas, MainEarly, Live, Accepted
<1>11. Flowing(p) /\ IsRead(p)
  BY <1>1, <1>2, <1>4 DEF Stages, Completers
<1> HIDE DEF p
<1>12. ASSUME NEW n \in DOMAIN Q'
       PROVE  \E q : Q'[n] = q /\ Flowing(q) /\ IsRead(q)
  BY <1>1, <1>5, <1>11 DEF Stages, Completers
<1>13. Stages'
  <2>1. (\A n \in DOMAIN CompletionThreadQueue : Flowing(CompletionThreadQueue[n]))'
    <3>1. SUFFICES ASSUME NEW n \in DOMAIN Q' PROVE Flowing(Q[n])'
      OBVIOUS
    <3>2. PICK q : Q'[n] = q /\ Flowing(q)
      BY <1>12
    <3> QED BY <1>10, <3>2 DEF Flowing, Live, Accepted
  <2>2. (\A n \in DOMAIN IoThreadQueue : Flowing(IoThreadQueue[n]))'
    BY <1>1, <1>2, <1>10 DEF Stages, Flowing, Live, Accepted
  <2>3. CompletionHas' => Flowing(completion.req)'
    BY <1>1, <1>2, <1>10 DEF Stages, Flowing, CompletionHas, Live, Accepted
  <2> QED BY <1>4, <2>1, <2>2, <2>3 DEF Stages
<1>14. Order'
  <2>1. \A m \in DOMAIN Q : Q[m].last =>
           /\ NoneInIo(Q[m]) /\ p.irp # Q[m].irp
           /\ \A n \in DOMAIN Q : m < n => Q[n].irp # Q[m].irp
    BY <1>1, <1>4 DEF Order, NoneAtIo, p
  <2>2. p.last => NoneInIo(p)
    BY <1>1, <1>4 DEF Order, p
  <2>3. (\A m \in DOMAIN CompletionThreadQueue : CompletionThreadQueue[m].last =>
          /\ NoneInIo(CompletionThreadQueue[m]) /\ NoneAtIo(CompletionThreadQueue[m])
          /\ \A n \in DOMAIN CompletionThreadQueue :
                m < n => CompletionThreadQueue[n].irp # CompletionThreadQueue[m].irp)'
    <3>1. SUFFICES ASSUME NEW m \in DOMAIN Q', Q'[m].last
                   PROVE  /\ \A n \in DOMAIN IoThreadQueue : IoThreadQueue[n].irp # Q'[m].irp
                          /\ \A n \in DOMAIN Q' : m < n => Q'[n].irp # Q'[m].irp
      BY <1>2, <1>4 DEF NoneInIo, NoneAtIo
    <3>2. CASE m = Len(Q) + 1
      BY <1>5, <2>2, <3>1, <3>2 DEF NoneInIo
    <3>3. CASE m # Len(Q) + 1
      BY <1>5, <2>1, <3>1, <3>3 DEF NoneInIo
    <3> QED BY <3>2, <3>3
  <2>4. (CompletionHas /\ completion.req.last =>
          NoneInIo(completion.req) /\ NoneAtIo(completion.req) /\ NoneInCompletion(completion.req))'
    <3>1. CompletionHas /\ completion.req.last =>
             /\ NoneInIo(completion.req) /\ p.irp # completion.req.irp
             /\ NoneInCompletion(completion.req)
      BY <1>1, <1>4 DEF Order, NoneAtIo, p
    <3> QED BY <1>2, <1>4, <1>5, <3>1 DEF NoneInIo, NoneAtIo, NoneInCompletion, CompletionHas
  <2> QED BY <1>1, <1>2, <1>4, <2>3, <2>4 DEF Order, NoneInIo
<1>15. Completers'
  <2>1. (\A n \in DOMAIN CompletionThreadQueue : IsRead(CompletionThreadQueue[n]))'
    BY <1>2, <1>12 DEF IsRead
  <2> QED BY <1>1, <1>2, <1>3, <2>1 DEF Completers, IsRead, CompletionHas
<1>16. Endings'
  BY <1>1, <1>4, <1>6, <1>8, EndingsSame
<1> QED BY <1>7, <1>8, <1>9, <1>13, <1>14, <1>15, <1>16 DEF PipeInv

\* The IRP the I/O thread completes has no fragment behind it.
LEMMA IoEndsPipe ==
    ASSUME ShapeInv, PipeInv, IoComplete \/ IoReleaseItem
    PROVE  PipeInv' /\ IrpTypes'
<1> DEFINE i == io.req.irp
<1>1. /\ io \in [pc : IoPcs, req : Fragments] /\ IrpTypes /\ Waiting /\ Stages /\ Order
      /\ Completers /\ Endings /\ QueueTypes
  BY DEF ShapeInv, ThreadTypes, PipeInv
<1>2. UNCHANGED <<queueVars, main, completion>>
  BY DEF queueVars, IoComplete, IoReleaseItem, ioRest
<1>3. /\ MainStays /\ MainEndStays /\ CompletionStays /\ CompletionPassive /\ CompletionEndStays
  BY <1>2, StillThreads
<1>4. CASE IoComplete
  <2>1. io.pc = "complete" /\ CompleteIrp(i) /\ UNCHANGED removeLock
    BY <1>4 DEF IoComplete
  <2>2. io'.pc \in {"signalIdle", "releaseItem"} /\ io'.req = io.req
    BY <1>1, <1>4 DEF IoComplete, IoGoTo, AfterComplete
  <2>3. IoHas /\ ~IoHas' /\ IoStays /\ IoPassive
    BY <2>1, <2>2 DEF IoHas, IoStays, IoPassive
  <2>4. Flowing(io.req) /\ ~IsRead(io.req) /\ io.req.last /\ NoneInIo(io.req)
    BY <1>1, <2>1, <2>3 DEF Stages, Completers, Order
  <2>5. Live(i) /\ irp[i].status # "pending" /\ i \in Irps
    BY <2>4 DEF Flowing, Live
  <2>6. Completed(i)
    BY <1>1, <2>1, <2>5, CompleteEffect
  <2>7. Apart(i)
    <3>1. /\ \A n \in DOMAIN MainThreadQueue : MainThreadQueue[n] # i
          /\ MainHas' => main.irp # i
      BY <1>3, <2>4 DEF Flowing, MainStays
    <3>2. \A n \in DOMAIN CompletionThreadQueue : CompletionThreadQueue[n].irp # i
      BY <1>1, <2>4 DEF Completers, IsRead
    <3>3. CompletionHas' => completion.req.irp # i
      BY <1>1, <1>3, <2>4 DEF Completers, IsRead, CompletionStays
    <3> QED BY <2>3, <2>4, <3>1, <3>2, <3>3 DEF Apart, NoneInIo
  <2> QED BY <1>1, <1>2, <1>3, <2>1, <2>2, <2>3, <2>5, <2>6, <2>7, CompletePipe
<1>5. CASE IoReleaseItem
  <2>1. io.pc = "releaseItem" /\ ReleaseItem(i) /\ UNCHANGED irp
    BY <1>5 DEF IoReleaseItem
  <2>2. io'.pc = "releaseRequest"
    BY <1>1, <1>5 DEF IoReleaseItem, IoGoTo
  <2>3. IoEnds /\ ~IoEnds' /\ IoEndStays /\ IoStays /\ IoPassive
    BY <2>1, <2>2 DEF IoEnds, IoHas, IoEndStays, IoStays, IoPassive
  <2>4. Ended(i) /\ (MainEnds => main.irp # i) /\ (CompletionEnds => completion.req.irp # i)
    BY <1>1, <2>3 DEF Endings
  <2>5. removeLock'.held = removeLock.held \ {i}
    BY <1>1, <2>1, ReleaseTypes
  <2>6. ThreadsStay
    BY <1>3, <2>3 DEF ThreadsStay
  <2>7. /\ MainEnds' => main.irp # i
        /\ CompletionEnds' => completion.req.irp # i
    BY <2>4, <2>6 DEF ThreadsStay, MainEndStays, CompletionEndStays
  <2> QED BY <1>1, <1>2, <2>1, <2>3, <2>4, <2>5, <2>6, <2>7, ReleasePipe
<1> QED BY <1>4, <1>5

\* The completion thread may go on with what it has, or lose it.
LEMMA CompletionQuiet ==
    ASSUME completion \in [pc : CompletionPcs, req : Fragments],
           \/ CompletionWait \/ CompletionDecrypt \/ CompletionSignalIdle
           \/ CompletionReleaseRequest \/ (CompletionDequeue /\ CompletionThreadQueue = <<>>)
    PROVE  /\ CompletionStays /\ CompletionEndStays /\ UNCHANGED <<CompletionThreadQueue, removeLock>>
           /\ CompletionPassive \/ CompletionDecrypt
<1> USE DEF CompletionStays, CompletionEndStays, CompletionPassive, CompletionHas, CompletionEnds,
            CompletionGoTo
<1>1. CASE CompletionWait \/ CompletionSignalIdle
  BY <1>1 DEF CompletionWait, CompletionSignalIdle
<1>2. CASE CompletionDecrypt
  <2>1. /\ completion.pc = "decrypt" /\ UNCHANGED <<CompletionThreadQueue, removeLock>>
        /\ CompletionGoTo(IF completion.req.last THEN "complete" ELSE "releaseRequest")
    BY <1>2 DEF CompletionDecrypt
  <2> QED BY <1>2, <2>1
<1>3. CASE CompletionReleaseRequest
  BY <1>3 DEF CompletionReleaseRequest
<1>4. CASE CompletionDequeue /\ CompletionThreadQueue = <<>>
  BY <1>4 DEF CompletionDequeue
<1> QED BY <1>1, <1>2, <1>3, <1>4

\* The quiet steps of the completion thread keep the pipeline.
LEMMA CompletionPipeQuiet ==
    ASSUME ShapeInv, PipeInv,
           \/ CompletionWait \/ CompletionDecrypt \/ CompletionSignalIdle
           \/ CompletionReleaseRequest \/ (CompletionDequeue /\ CompletionThreadQueue = <<>>)
    PROVE  PipeInv' /\ IrpTypes' /\ AllKept /\ UNCHANGED removeLock
<1>1. /\ completion \in [pc : CompletionPcs, req : Fragments] /\ IrpTypes /\ Locks /\ Waiting
      /\ Stages /\ Order /\ Endings /\ Completers
  BY DEF ShapeInv, ThreadTypes, PipeInv
<1>2. /\ CompletionStays /\ CompletionEndStays /\ UNCHANGED <<CompletionThreadQueue, removeLock>>
      /\ CompletionPassive \/ CompletionDecrypt
  BY <1>1, CompletionQuiet
<1>3. CompletionFrame
  BY CompletionTypes DEF CompletionThread
<1>4. AllKept
  <2>1. CASE CompletionDecrypt
    BY <1>1, <2>1, CompletionEffect
  <2>2. CASE ~CompletionDecrypt
    <3>1. UNCHANGED irp
      BY <2>2 DEF CompletionWait, CompletionSignalIdle, CompletionReleaseRequest, CompletionDequeue
    <3> QED BY <1>1, <3>1, NoEffect
  <2> QED BY <2>1, <2>2
<1>5. Locks' /\ LiveKept(Nobody) /\ EndedKept(Nobody) /\ IrpTypes'
  BY <1>1, <1>2, <1>4, LocksKept, TypesKept
<1>6. /\ MainStays /\ IoStays /\ IoPassive /\ UNCHANGED <<queueVars, io>>
      /\ MainEndStays /\ IoEndStays
  BY <1>2, <1>3, StillThreads DEF CompletionFrame, queueVars
<1>7. CASE CompletionPassive
  BY <1>2, <1>4, <1>5, <1>6, <1>7, PipeKept
<1>8. CASE CompletionDecrypt
  <2>1. Apart(Nobody)
    BY <1>1, <1>2, <1>6, NobodyApart
  <2>2. Waiting' /\ Stages' /\ Order'
    BY <1>1, <1>2, <1>5, <1>6, <2>1, WaitingKept, StagesKept, OrderKept DEF Apart, queueVars
  <2>3. Endings'
    BY <1>1, <1>2, <1>5, <1>6, EndingsSame
  <2>4. /\ completion'.req = completion.req /\ CompletionHas
        /\ completion'.pc = "complete" => completion.req.last
    <3>1. /\ completion.pc = "decrypt"
          /\ CompletionGoTo(IF completion.req.last THEN "complete" ELSE "releaseRequest")
      BY <1>8 DEF CompletionDecrypt
    <3> QED BY <1>1, <3>1 DEF CompletionGoTo, CompletionHas
  <2>5. /\ \A n \in DOMAIN CompletionThreadQueue :
              irp'[CompletionThreadQueue[n].irp].req = irp[CompletionThreadQueue[n].irp].req
        /\ irp'[completion.req.irp].req = irp[completion.req.irp].req
        /\ IoHas => irp'[io.req.irp].req = irp[io.req.irp].req
    BY <1>1, <1>4, <2>4 DEF Stages, Flowing, Live, AllKept, Kept
  <2>6. Completers'
    BY <1>1, <1>6, <2>4, <2>5 DEF Completers, IsRead, IoHas, queueVars
  <2> QED BY <1>2, <1>4, <1>5, <2>2, <2>3, <2>6 DEF PipeInv
<1> QED BY <1>2, <1>4, <1>7, <1>8

\* The completion thread takes the first fragment of its queue.
LEMMA CompletionDequeuePipe ==
    ASSUME ShapeInv, PipeInv, CompletionDequeue, CompletionThreadQueue # <<>>
    PROVE  PipeInv' /\ IrpTypes'
<1> DEFINE Q == CompletionThreadQueue
           p == Head(Q)
<1>1. /\ IrpTypes /\ Locks /\ Waiting /\ Stages /\ Order /\ Completers
      /\ Endings /\ CompletionThreadQueue \in Seq(Fragments)
  BY DEF ShapeInv, PipeInv, QueueTypes
<1>2. /\ completion.pc = "dequeue" /\ completion' = [pc |-> "decrypt", req |-> p]
      /\ Q' = Tail(Q)
      /\ UNCHANGED <<irp, removeLock, MainThreadQueue, IoThreadQueue, main, io>>
  BY DEF CompletionDequeue, completionRest
<1>3. /\ p = Q[1] /\ 1 \in DOMAIN Q
      /\ DOMAIN Q = 1 .. Len(Q) /\ DOMAIN Q' = 1 .. Len(Q) - 1 /\ Len(Q) \in Nat
      /\ \A n \in DOMAIN Q' : n + 1 \in DOMAIN Q /\ Q'[n] = Q[n + 1]
  BY <1>1, <1>2, TailFacts
<1>4. completion'.pc = "decrypt" /\ completion'.req = p
  BY <1>2
<1>5. ~CompletionHas /\ CompletionHas' /\ ~CompletionEnds' /\ CompletionEndStays
  BY <1>2, <1>4 DEF CompletionHas, CompletionEnds, CompletionEndStays
<1> HIDE DEF p
<1>6. /\ MainStays /\ IoStays /\ IoPassive
      /\ MainEndStays /\ IoEndStays
  BY <1>2, StillThreads
<1>7. AllKept /\ IrpTypes'
  BY <1>1, <1>2, NoEffect, TypesKept
<1>8. Locks' /\ LiveKept(Nobody) /\ EndedKept(Nobody)
  BY <1>1, <1>2, <1>7, LocksKept
<1>9. Waiting'
  BY <1>1, <1>2 DEF Waiting, QueuedLive, QueuedOnce, MainOwns, MainHas, MainEarly, Live, Accepted
<1>10. ASSUME NEW q, Flowing(q)
       PROVE  /\ q.irp \in Irps /\ irp'[q.irp].disp \in {"inserted", "returned"}
              /\ irp'[q.irp].done = 0 /\ q.irp \in removeLock'.held
              /\ irp'[q.irp].status # "pending"
              /\ \A n \in DOMAIN MainThreadQueue' : MainThreadQueue'[n] # q.irp
              /\ MainHas' /\ (q.last \/ MainEarly') => main'.irp # q.irp
  BY <1>2, <1>10 DEF Flowing, MainHas, MainEarly, Live, Accepted
<1>11. Stages'
  <2>1. (\A n \in DOMAIN CompletionThreadQueue : Flowing(CompletionThreadQueue[n]))'
    <3>1. SUFFICES ASSUME NEW n \in DOMAIN Q' PROVE Flowing(Q[n])'
      OBVIOUS
    <3> DEFINE q == Q[n + 1]
    <3>2. Q'[n] = q /\ Flowing(q)
      BY <1>1, <1>3, <3>1 DEF Stages
    <3> HIDE DEF q
    <3> QED BY <1>10, <3>2 DEF Flowing, Live, Accepted
  <2>2. Flowing(p)
    BY <1>1, <1>3 DEF Stages
  <2>3. Flowing(completion.req)'
    BY <1>4, <1>10, <2>2 DEF Flowing, Live, Accepted
  <2>4. (\A n \in DOMAIN IoThreadQueue : Flowing(IoThreadQueue[n]))'
    BY <1>1, <1>2, <1>10 DEF Stages, Flowing, Live, Accepted
  <2>5. IoHas' => Flowing(io.req)'
    BY <1>1, <1>2, <1>10 DEF Stages, Flowing, IoHas, Live, Accepted
  <2> QED BY <2>1, <2>3, <2>4, <2>5 DEF Stages
<1>12. Order'
  <2>1. \A m \in DOMAIN Q : Q[m].last =>
           /\ NoneInIo(Q[m]) /\ NoneAtIo(Q[m])
           /\ \A n \in DOMAIN Q : m < n => Q[n].irp # Q[m].irp
    BY <1>1 DEF Order
  <2>2. (\A m \in DOMAIN CompletionThreadQueue : CompletionThreadQueue[m].last =>
          /\ NoneInIo(CompletionThreadQueue[m]) /\ NoneAtIo(CompletionThreadQueue[m])
          /\ \A n \in DOMAIN CompletionThreadQueue :
                m < n => CompletionThreadQueue[n].irp # CompletionThreadQueue[m].irp)'
    <3>1. SUFFICES ASSUME NEW m \in DOMAIN Q', Q'[m].last
                   PROVE  /\ NoneInIo(Q[m])' /\ NoneAtIo(Q[m])'
                          /\ \A n \in DOMAIN Q' : m < n => Q'[n].irp # Q'[m].irp
      OBVIOUS
    <3>2. m + 1 \in DOMAIN Q /\ Q'[m] = Q[m + 1]
      BY <1>3, <3>1
    <3>3. \A n \in DOMAIN Q' : m < n => Q'[n].irp # Q'[m].irp
      BY <1>3, <2>1, <3>1, <3>2
    <3> QED BY <1>2, <2>1, <3>1, <3>2, <3>3 DEF NoneInIo, NoneAtIo, IoHas
  <2>3. (CompletionHas /\ completion.req.last =>
          NoneInIo(completion.req) /\ NoneAtIo(completion.req) /\ NoneInCompletion(completion.req))'
    BY <1>2, <1>3, <1>4, <2>1 DEF NoneInIo, NoneAtIo, NoneInCompletion, IoHas
  <2> QED BY <1>1, <1>2, <2>2, <2>3 DEF Order, NoneInIo, IoHas
<1>13. Completers'
  <2>1. IsRead(p) /\ \A n \in DOMAIN Q : IsRead(Q[n])
    BY <1>1, <1>3 DEF Completers
  <2>2. (\A n \in DOMAIN CompletionThreadQueue : IsRead(CompletionThreadQueue[n]))'
    BY <1>2, <1>3, <2>1 DEF IsRead
  <2> QED BY <1>1, <1>2, <1>4, <2>1, <2>2 DEF Completers, IsRead
<1>14. Endings'
  BY <1>1, <1>5, <1>6, <1>8, EndingsSame
<1> QED BY <1>7, <1>8, <1>9, <1>11, <1>12, <1>13, <1>14 DEF PipeInv

\* The IRP the completion thread completes has no fragment left.
LEMMA CompletionEndsPipe ==
    ASSUME ShapeInv, PipeInv, CompletionComplete \/ CompletionReleaseItem
    PROVE  PipeInv' /\ IrpTypes'
<1> DEFINE i == completion.req.irp
<1>1. /\ completion \in [pc : CompletionPcs, req : Fragments] /\ IrpTypes /\ Waiting /\ Stages
      /\ Order /\ Completers /\ Endings /\ QueueTypes
  BY DEF ShapeInv, ThreadTypes, PipeInv
<1>2. UNCHANGED <<queueVars, main, io>>
  BY DEF queueVars, CompletionComplete, CompletionReleaseItem, completionRest
<1>3. /\ MainStays /\ MainEndStays /\ IoStays /\ IoPassive /\ IoEndStays
  BY <1>2, StillThreads
<1>4. CASE CompletionComplete
  <2>1. completion.pc = "complete" /\ CompleteIrp(i) /\ UNCHANGED removeLock
    BY <1>4 DEF CompletionComplete
  <2>2. completion'.pc \in {"signalIdle", "releaseItem"} /\ completion'.req = completion.req
    BY <1>1, <1>4 DEF CompletionComplete, CompletionGoTo, AfterComplete
  <2>3. CompletionHas /\ ~CompletionHas' /\ CompletionStays /\ CompletionPassive
    BY <2>1, <2>2 DEF CompletionHas, CompletionStays, CompletionPassive
  <2>4. /\ Flowing(completion.req) /\ completion.req.last
        /\ NoneInIo(completion.req) /\ NoneAtIo(completion.req) /\ NoneInCompletion(completion.req)
    BY <1>1, <2>1, <2>3 DEF Stages, Completers, Order
  <2>5. Live(i) /\ irp[i].status # "pending" /\ i \in Irps
    BY <2>4 DEF Flowing, Live
  <2>6. Completed(i)
    BY <1>1, <2>1, <2>5, CompleteEffect
  <2>7. Apart(i)
    <3>1. /\ \A n \in DOMAIN MainThreadQueue : MainThreadQueue[n] # i
          /\ MainHas' => main.irp # i
      BY <1>3, <2>4 DEF Flowing, MainStays
    <3>2. IoHas' => io.req.irp # i
      BY <1>3, <2>4 DEF NoneAtIo, IoStays
    <3> QED BY <2>3, <2>4, <3>1, <3>2 DEF Apart, NoneInIo, NoneInCompletion
  <2> QED BY <1>1, <1>2, <1>3, <2>1, <2>2, <2>3, <2>5, <2>6, <2>7, CompletePipe
<1>5. CASE CompletionReleaseItem
  <2>1. completion.pc = "releaseItem" /\ ReleaseItem(i) /\ UNCHANGED irp
    BY <1>5 DEF CompletionReleaseItem
  <2>2. completion'.pc = "releaseRequest"
    BY <1>1, <1>5 DEF CompletionReleaseItem, CompletionGoTo
  <2>3. /\ CompletionEnds /\ ~CompletionEnds' /\ CompletionEndStays /\ CompletionStays
        /\ CompletionPassive
    BY <2>1, <2>2 DEF CompletionEnds, CompletionHas, CompletionEndStays, CompletionStays,
       CompletionPassive
  <2>4. Ended(i) /\ (MainEnds => main.irp # i) /\ (IoEnds => io.req.irp # i)
    BY <1>1, <2>3 DEF Endings
  <2>5. removeLock'.held = removeLock.held \ {i}
    BY <1>1, <2>1, ReleaseTypes
  <2>6. ThreadsStay
    BY <1>3, <2>3 DEF ThreadsStay
  <2>7. /\ MainEnds' => main.irp # i
        /\ IoEnds' => io.req.irp # i
    BY <2>4, <2>6 DEF ThreadsStay, MainEndStays, IoEndStays
  <2> QED BY <1>1, <1>2, <2>1, <2>3, <2>4, <2>5, <2>6, <2>7, ReleasePipe
<1> QED BY <1>4, <1>5

\* Holding and stopping the queue concern no IRP.
LEMMA OtherPipe ==
    ASSUME ShapeInv, PipeInv, OtherFrame, removeLock'.held = removeLock.held
    PROVE  PipeInv' /\ IrpTypes'
<1>1. IrpTypes /\ Locks
  BY DEF ShapeInv, PipeInv
<1>2. AllKept /\ IrpTypes'
  BY <1>1, NoEffect, TypesKept DEF OtherFrame
<1>3. Locks' /\ LiveKept(Nobody) /\ EndedKept(Nobody)
  BY <1>1, <1>2, LocksKept
<1>4. ThreadsStay /\ UNCHANGED queueVars
  BY StillThreads DEF OtherFrame, ThreadsStay
<1> QED BY <1>2, <1>3, <1>4, PipeKept DEF ThreadsStay

\* Every step keeps the types and the order of the fragments.
LEMMA ShapeAndPipe ==
    ASSUME ShapeInv, PipeInv, [Next]_vars
    PROVE  ShapeInv' /\ PipeInv'
<1>1. CASE UNCHANGED vars
  <2> USE <1>1 DEF vars, thrVars, queueVars, envVars, flagVars
  <2>1. OtherFrame /\ removeLock'.held = removeLock.held
    BY DEF OtherFrame
  <2>2. PipeInv' /\ IrpTypes'
    BY <2>1, OtherPipe
  <2>3. QueueTypes' /\ ThreadTypes' /\ FragmentMade'
    BY DEF ShapeInv, QueueTypes, ThreadTypes, FragmentMade, MainMakes
  <2> QED BY <2>2, <2>3 DEF ShapeInv
<1>2. CASE Arrival \/ \E i \in Irps : Dispatcher(i)
  <2>1. PICK i \in Irps : Dispatcher(i) \/ \E req \in Requests : AddIrp(i, req)
    BY <1>2 DEF Arrival
  <2>2. PipeInv' /\ IrpTypes'
    BY <2>1, DispatchPipe
  <2>3. DispatchFrame /\ QueueTypes'
    BY <2>1, DispatchTypes
  <2>4. ThreadTypes' /\ FragmentMade'
    BY <2>3 DEF DispatchFrame, thrVars, flagVars, ShapeInv, ThreadTypes, FragmentMade, MainMakes
  <2> QED BY <2>2, <2>3, <2>4 DEF ShapeInv
<1>3. CASE MainThread
  <2>1. PipeInv' /\ IrpTypes'
    BY <1>3, MainPipeQuiet, MainDequeuePipe, MainGetItemPipe, MainEndsPipe, MainEnqueuePipe
       DEF MainThread
  <2>2. Waiting
    BY DEF PipeInv
  <2>3. main' \in MainStates /\ FragmentMade' /\ QueueTypes' /\ MainFrame
    BY <1>3, <2>2, MainStateTypes, MainQueueTypes, MainFrames
  <2>4. ThreadTypes'
    BY <2>3 DEF MainFrame, flagVars, ShapeInv, ThreadTypes
  <2> QED BY <2>1, <2>3, <2>4 DEF ShapeInv
<1>4. CASE IoThread
  <2>1. PipeInv' /\ IrpTypes'
    BY <1>4, IoPipeQuiet, IoDequeuePipe, IoHandOverPipe, IoEndsPipe DEF IoThread
  <2>2. IoFrame /\ QueueTypes' /\ io' \in [pc : IoPcs, req : Fragments]
    BY <1>4, IoTypes
  <2>3. ThreadTypes' /\ FragmentMade'
    BY <2>2 DEF IoFrame, flagVars, ShapeInv, ThreadTypes, FragmentMade, MainMakes
  <2> QED BY <2>1, <2>2, <2>3 DEF ShapeInv
<1>5. CASE CompletionThread
  <2>1. PipeInv' /\ IrpTypes'
    BY <1>5, CompletionPipeQuiet, CompletionDequeuePipe, CompletionEndsPipe DEF CompletionThread
  <2>2. CompletionFrame /\ QueueTypes' /\ completion' \in [pc : CompletionPcs, req : Fragments]
    BY <1>5, CompletionTypes
  <2>3. ThreadTypes' /\ FragmentMade'
    BY <2>2 DEF CompletionFrame, flagVars, ShapeInv, ThreadTypes, FragmentMade, MainMakes
  <2> QED BY <2>1, <2>2, <2>3 DEF ShapeInv
<1>6. CASE HoldWhenIdle \/ HolderStep
  <2>1. /\ OtherFrame /\ UNCHANGED <<removeLock, stopper, StopPending, ThreadExitRequested>>
        /\ event' \in [Events -> BOOLEAN] /\ holder' \in [pc : HolderPcs, holds : Nat]
        /\ SuspendPending' \in BOOLEAN /\ Suspended' \in BOOLEAN
    BY <1>6, HolderTypes
  <2>2. PipeInv' /\ IrpTypes'
    BY <2>1, OtherPipe
  <2>3. QueueTypes' /\ ThreadTypes' /\ FragmentMade'
    BY <2>1 DEF OtherFrame, queueVars, ShapeInv, QueueTypes, ThreadTypes, FragmentMade, MainMakes
  <2> QED BY <2>2, <2>3 DEF ShapeInv
<1>7. CASE RemoveDevice \/ StopperStep
  <2>1. /\ OtherFrame /\ UNCHANGED <<holder, SuspendPending, Suspended>>
        /\ event' \in [Events -> BOOLEAN] /\ stopper' \in StopperPcs
        /\ removeLock' \in [held : SUBSET Irps, removing : BOOLEAN]
        /\ removeLock'.held = removeLock.held
        /\ StopPending' \in BOOLEAN /\ ThreadExitRequested' \in BOOLEAN
    BY <1>7, StopperTypes
  <2>2. PipeInv' /\ IrpTypes'
    BY <2>1, OtherPipe
  <2>3. QueueTypes' /\ ThreadTypes' /\ FragmentMade'
    BY <2>1 DEF OtherFrame, queueVars, ShapeInv, QueueTypes, ThreadTypes, FragmentMade, MainMakes
  <2> QED BY <2>2, <2>3 DEF ShapeInv
<1> QED BY <1>1, <1>2, <1>3, <1>4, <1>5, <1>6, <1>7 DEF Next

-----------------------------------------------------------------------------
(***************************************************************************)
(* What a step does to the IRPs and to what is counted.                    *)
(***************************************************************************)
\* No IRP starts, ends, gets or loses its item; a read-ahead may be counted in or off.
QuietStep ==
    /\ AllKept /\ removeLock'.held = removeLock.held /\ UNCHANGED freeItems
    /\ \/ OutstandingIoCount' = OutstandingIoCount /\ Ahead' = Ahead
       \/ OutstandingIoCount' = OutstandingIoCount + 1 /\ ~Ahead /\ Ahead'
       \/ OutstandingIoCount' = OutstandingIoCount - 1 /\ Ahead /\ ~Ahead'
DispatchStep(i) ==
    /\ UNCHANGED <<freeItems, io>>
    /\ \/ /\ irp[i].disp = "new" /\ Disposed(i, "counted") /\ removeLock'.held = removeLock.held
          /\ OutstandingIoCount' = OutstandingIoCount + 1
       \/ /\ irp[i].disp = "counted" /\ Disposed(i, "refused") /\ removeLock'.held = removeLock.held
          /\ OutstandingIoCount' = OutstandingIoCount
       \/ /\ irp[i].disp = "counted" /\ Disposed(i, "locked") /\ ~removeLock.removing
          /\ removeLock'.held = removeLock.held \cup {i} /\ OutstandingIoCount' = OutstandingIoCount
       \/ /\ irp[i].disp = "locked" /\ Disposed(i, "inserted") /\ removeLock'.held = removeLock.held
          /\ OutstandingIoCount' = OutstandingIoCount
       \/ /\ irp[i].disp = "inserted" /\ Disposed(i, "returned") /\ removeLock'.held = removeLock.held
          /\ OutstandingIoCount' = OutstandingIoCount
       \/ /\ irp[i].disp = "refused" /\ (Disposed(i, "refusedIdle") \/ Disposed(i, "rejected"))
          /\ removeLock'.held = removeLock.held /\ OutstandingIoCount' = OutstandingIoCount - 1
       \/ /\ irp[i].disp = "refusedIdle" /\ Disposed(i, "rejected")
          /\ removeLock'.held = removeLock.held /\ OutstandingIoCount' = OutstandingIoCount
EquipStep(i) ==
    /\ Live(i) /\ irp[i].status = "pending" /\ Equipped(i) /\ removeLock'.held = removeLock.held
    /\ freeItems > 0 /\ freeItems' = freeItems - 1 /\ UNCHANGED <<OutstandingIoCount, io>>
CompleteStep(i) ==
    /\ Live(i) /\ Completed(i) /\ removeLock'.held = removeLock.held /\ UNCHANGED freeItems
    /\ OutstandingIoCount' = OutstandingIoCount - 1 /\ Ahead' = Ahead
ReleaseStep(i) ==
    /\ Ended(i) /\ UNCHANGED irp /\ removeLock'.held = removeLock.held \ {i}
    /\ freeItems' = freeItems + 1 /\ UNCHANGED OutstandingIoCount /\ Ahead' = Ahead

\* A step of AddIrp as the counters see it.
LEMMA DispatchKind ==
    ASSUME ShapeInv, NEW i \in Irps, Dispatcher(i) \/ \E req \in Requests : AddIrp(i, req)
    PROVE  DispatchStep(i)
<1>1. IrpTypes /\ removeLock \in [held : SUBSET Irps, removing : BOOLEAN]
  BY DEF ShapeInv, QueueTypes
<1>2. UNCHANGED <<freeItems, io>>
  BY DispatchTypes DEF DispatchFrame, bufVars, thrVars
<1>3. CASE \E req \in Requests : AddIrp(i, req)
  <2>1. Disposed(i, "counted")
    BY <1>1, <1>3, DispatchEffect
  <2> QED BY <1>2, <1>3, <2>1 DEF AddIrp, DispatchStep
<1>4. CASE AddIrpCheck(i)
  <2>1. /\ irp[i].disp = "counted" /\ OutstandingIoCount' = OutstandingIoCount
        /\ \/ Dispatch(i, "refused") /\ UNCHANGED removeLock
           \/ /\ Dispatch(i, "locked") /\ ~removeLock.removing
              /\ removeLock' = [removeLock EXCEPT !.held = removeLock.held \cup {i}]
    BY <1>4 DEF AddIrpCheck
  <2>2. CASE Dispatch(i, "refused") /\ UNCHANGED removeLock
    <3>1. Disposed(i, "refused")
      BY <1>1, <2>2, DispatchEffect
    <3> QED BY <1>2, <2>1, <2>2, <3>1 DEF DispatchStep
  <2>3. CASE /\ Dispatch(i, "locked") /\ ~removeLock.removing
             /\ removeLock' = [removeLock EXCEPT !.held = removeLock.held \cup {i}]
    <3>1. Disposed(i, "locked")
      BY <1>1, <2>3, DispatchEffect
    <3>2. removeLock'.held = removeLock.held \cup {i}
      BY <1>1, <2>3
    <3> QED BY <1>2, <2>1, <2>3, <3>1, <3>2 DEF DispatchStep
  <2> QED BY <2>1, <2>2, <2>3
<1>5. CASE AddIrpInsert(i)
  <2>1. irp[i].disp = "locked" /\ Dispatch(i, "inserted") /\ UNCHANGED <<removeLock, OutstandingIoCount>>
    BY <1>5 DEF AddIrpInsert
  <2> QED BY <1>1, <1>2, <2>1, DispatchEffect DEF DispatchStep
<1>6. CASE AddIrpSignal(i)
  <2>1. irp[i].disp = "inserted" /\ Dispatch(i, "returned") /\ UNCHANGED <<removeLock, OutstandingIoCount>>
    BY <1>6 DEF AddIrpSignal
  <2> QED BY <1>1, <1>2, <2>1, DispatchEffect DEF DispatchStep
<1>7. CASE AddIrpErr(i)
  <2>1. /\ irp[i].disp = "refused" /\ UNCHANGED removeLock
        /\ OutstandingIoCount' = OutstandingIoCount - 1
        /\ Dispatch(i, "refusedIdle") \/ Dispatch(i, "rejected")
    BY <1>7 DEF AddIrpErr
  <2>2. Disposed(i, "refusedIdle") \/ Disposed(i, "rejected")
    BY <1>1, <2>1, DispatchEffect
  <2> QED BY <1>2, <2>1, <2>2 DEF DispatchStep
<1>8. CASE AddIrpErrSignal(i)
  <2>1. irp[i].disp = "refusedIdle" /\ Dispatch(i, "rejected") /\ UNCHANGED <<removeLock, OutstandingIoCount>>
    BY <1>8 DEF AddIrpErrSignal
  <2> QED BY <1>1, <1>2, <2>1, DispatchEffect DEF DispatchStep
<1> QED BY <1>3, <1>4, <1>5, <1>6, <1>7, <1>8 DEF Dispatcher

\* A step of the main thread as the counters see it.
LEMMA MainKind ==
    ASSUME ShapeInv, PipeInv, MainThread
    PROVE  \/ QuietStep
           \/ EquipStep(main.irp) \/ CompleteStep(main.irp) \/ ReleaseStep(main.irp)
<1>1. main \in MainStates /\ IrpTypes /\ Waiting /\ Endings /\ QueueTypes
  BY DEF ShapeInv, ThreadTypes, PipeInv
<1>2. UNCHANGED io /\ Ahead' = Ahead
  BY MainFrames DEF MainFrame, Ahead
<1>3. CASE \/ MainWait \/ MainGate \/ MainWaitResumed \/ MainWaitPool \/ MainRefuse
           \/ MainReadMisaligned \/ MainBeginFragments \/ MainNextFragment \/ MainGetRequest
           \/ MainAcquireBuffer \/ MainSignalIdle \/ MainSignalIo
           \/ (MainDequeue /\ MainThreadQueue = <<>>) \/ (MainGetItem /\ ~(freeItems > 0))
  <2>1. AllKept /\ UNCHANGED removeLock
    BY <1>3, MainPipeQuiet, SMTT(60)
  <2>2. UNCHANGED <<freeItems, OutstandingIoCount>>
    BY <1>3 DEF MainWait, MainGate, MainWaitResumed, MainWaitPool, MainRefuse, MainReadMisaligned,
         MainBeginFragments, MainNextFragment, MainGetRequest, MainAcquireBuffer, MainSignalIdle,
         MainSignalIo, MainDequeue, MainGetItem, bufVars, countVars
  <2> QED BY <1>2, <2>1, <2>2 DEF QuietStep
<1>4. CASE (MainDequeue /\ MainThreadQueue # <<>>) \/ MainEnqueue
  <2>1. UNCHANGED <<irp, freeItems, OutstandingIoCount, removeLock>>
    BY <1>4 DEF MainDequeue, MainEnqueue, bufVars, countVars, envVars
  <2> QED BY <1>1, <1>2, <2>1, NoEffect DEF QuietStep
<1>5. CASE MainGetItem /\ freeItems > 0
  <2>1. /\ main.pc = "getItem" /\ irp' = [irp EXCEPT ![main.irp].status = "ok"]
        /\ freeItems' = freeItems - 1 /\ UNCHANGED <<OutstandingIoCount, removeLock>>
    BY <1>5 DEF MainGetItem, countVars, envVars
  <2>2. Live(main.irp) /\ irp[main.irp].status = "pending" /\ main.irp \in Irps
    BY <1>1, <2>1 DEF Waiting, MainOwns, MainHas, MainEarly, Live
  <2> QED BY <1>1, <1>2, <1>5, <2>1, <2>2, EquipEffect DEF EquipStep
<1>6. CASE MainComplete
  <2>1. main.pc = "complete" /\ CompleteIrp(main.irp) /\ UNCHANGED <<freeItems, removeLock>>
    BY <1>6 DEF MainComplete, bufVars, envVars
  <2>2. Live(main.irp) /\ main.irp \in Irps
    BY <1>1, <2>1 DEF Waiting, MainOwns, MainHas, MainEarly, Live
  <2>3. OutstandingIoCount' = OutstandingIoCount - 1
    BY <2>1 DEF CompleteIrp
  <2>4. Completed(main.irp)
    BY <1>1, <2>1, <2>2, CompleteEffect
  <2> QED BY <1>2, <2>1, <2>2, <2>3, <2>4 DEF CompleteStep
<1>7. CASE MainReleaseItem
  <2>1. /\ main.pc = "releaseItem" /\ ReleaseItem(main.irp) /\ UNCHANGED <<irp, OutstandingIoCount>>
        /\ freeItems' = freeItems + 1
    BY <1>7 DEF MainReleaseItem, ReleaseItem, countVars
  <2>2. Ended(main.irp) /\ removeLock'.held = removeLock.held \ {main.irp}
    BY <1>1, <2>1, ReleaseTypes DEF Endings, MainEnds
  <2> QED BY <1>2, <2>1, <2>2 DEF ReleaseStep
<1> QED BY <1>3, <1>4, <1>5, <1>6, <1>7 DEF MainThread

\* The accesses of the I/O thread change no counter.
LEMMA AccessFrame ==
    /\ IoWrite \/ IoRead => io.pc = "access" /\ IoGoTo("accessed")
    /\ IoReadAhead => io.pc = "readAhead" /\ IoGoTo("aheadDone")
    /\ IoWrite \/ IoRead \/ IoReadAhead => UNCHANGED <<countVars, freeItems, freeRequests>>
<1>1. ASSUME IoWrite
      PROVE  /\ io.pc = "access" /\ IoGoTo("accessed")
             /\ UNCHANGED countVars /\ UNCHANGED bufVars
  BY <1>1, ZenonT(60) DEF IoWrite
<1>2. IoRead => /\ io.pc = "access" /\ IoGoTo("accessed")
                /\ UNCHANGED countVars /\ UNCHANGED freeItems /\ UNCHANGED freeRequests
  BY DEF IoRead
<1>3. IoReadAhead => /\ io.pc = "readAhead" /\ IoGoTo("aheadDone")
                     /\ UNCHANGED countVars /\ UNCHANGED bufVars
  BY DEF IoReadAhead
<1>4. UNCHANGED bufVars => UNCHANGED freeItems /\ UNCHANGED freeRequests
  BY DEF bufVars
<1> QED BY <1>1, <1>2, <1>3, <1>4

\* A step of the I/O thread as the counters see it.
LEMMA IoKind ==
    ASSUME ShapeInv, PipeInv, OutstandingIoCount \in Int, IoThread
    PROVE  QuietStep \/ (IoHas /\ CompleteStep(io.req.irp)) \/ ReleaseStep(io.req.irp)
<1>1. /\ io \in [pc : IoPcs, req : Fragments] /\ IrpTypes /\ Stages /\ Endings /\ QueueTypes
  BY DEF ShapeInv, ThreadTypes, PipeInv
<1>2. CASE \/ IoWait \/ IoSkip \/ IoWrite \/ IoRead \/ IoAfterWrite \/ IoAfterRead
           \/ IoSignalCompletion \/ IoReadAhead \/ IoReadAheadDone \/ IoSignalIdle
           \/ IoReleaseRequest \/ (IoDequeue /\ IoThreadQueue = <<>>)
  <2>1. AllKept /\ UNCHANGED removeLock
    BY <1>2, IoPipeQuiet
  <2>2. UNCHANGED freeItems
    <3>1. IoWrite \/ IoRead \/ IoReadAhead => UNCHANGED freeItems
      BY AccessFrame
    <3>2. IoWait \/ IoSkip \/ IoAfterWrite \/ IoAfterRead \/ IoSignalCompletion => UNCHANGED freeItems
      BY DEF IoWait, IoSkip, IoAfterWrite, IoAfterRead, IoSignalCompletion, bufVars
    <3>3. IoReadAheadDone \/ IoSignalIdle \/ IoReleaseRequest \/ IoDequeue => UNCHANGED freeItems
      BY DEF IoReadAheadDone, IoSignalIdle, IoReleaseRequest, IoDequeue, bufVars
    <3> QED BY <1>2, <3>1, <3>2, <3>3
  <2>3. CASE IoAfterRead
    <3>1. /\ io.pc = "accessed"
          /\ OutstandingIoCount' = OutstandingIoCount + (IF ReadAheadWanted(io.req) THEN 1 ELSE 0)
          /\ io' = [io EXCEPT !.pc = IF ReadAheadWanted(io.req) THEN "handOverAhead" ELSE "handOver"]
      BY <2>3 DEF IoAfterRead, IoGoTo
    <3>2. CASE ReadAheadWanted(io.req)
      <4>1. ~Ahead /\ Ahead' /\ OutstandingIoCount' = OutstandingIoCount + 1
        BY <1>1, <3>1, <3>2 DEF Ahead
      <4> QED BY <2>1, <2>2, <4>1 DEF QuietStep
    <3>3. CASE ~ReadAheadWanted(io.req)
      <4>1. ~Ahead /\ ~Ahead' /\ OutstandingIoCount' = OutstandingIoCount + 0
        BY <1>1, <3>1, <3>3 DEF Ahead
      <4>2. Ahead' = Ahead
        BY <4>1 DEF Ahead
      <4> QED BY <2>1, <2>2, <4>1, <4>2 DEF QuietStep
    <3> QED BY <3>2, <3>3
  <2>4. CASE IoReadAheadDone
    <3>1. /\ io.pc = "aheadDone" /\ OutstandingIoCount' = OutstandingIoCount - 1
          /\ IoGoTo("aheadIdle") \/ IoDone
      BY <2>4 DEF IoReadAheadDone
    <3>2. Ahead /\ ~Ahead'
      BY <1>1, <3>1 DEF Ahead, IoGoTo, IoDone
    <3> QED BY <2>1, <2>2, <3>1, <3>2 DEF QuietStep
  <2>5. CASE ~IoAfterRead /\ ~IoReadAheadDone
    <3>1. UNCHANGED OutstandingIoCount
      <4>1. IoWrite \/ IoRead \/ IoReadAhead => UNCHANGED OutstandingIoCount
        BY AccessFrame DEF countVars
      <4>2. IoWait \/ IoSkip \/ IoAfterWrite \/ IoSignalCompletion => UNCHANGED OutstandingIoCount
        BY DEF IoWait, IoSkip, IoAfterWrite, IoSignalCompletion, countVars
      <4>3. IoSignalIdle \/ IoReleaseRequest \/ IoDequeue => UNCHANGED OutstandingIoCount
        BY DEF IoSignalIdle, IoReleaseRequest, IoDequeue, countVars
      <4> QED BY <1>2, <2>5, <4>1, <4>2, <4>3
    <3>2. Ahead' = Ahead
      <4> USE DEF Ahead, IoGoTo, IoDone
      <4>1. CASE IoWait \/ IoSkip \/ IoWrite \/ IoRead \/ IoAfterWrite
        <5>1. /\ io.pc \in {"wait", "access", "accessed"}
              /\ \E pc \in {"exited", "dequeue", "accessed", "complete", "releaseRequest"} : IoGoTo(pc)
          BY <4>1, AccessFrame DEF IoWait, IoSkip, IoAfterWrite
        <5> QED BY <1>1, <5>1
      <4>2. CASE IoReadAhead
        <5>1. io.pc = "readAhead" /\ IoGoTo("aheadDone")
          BY <4>2, AccessFrame
        <5> QED BY <1>1, <5>1
      <4>3. CASE IoSignalCompletion
        BY <1>1, <4>3 DEF IoSignalCompletion
      <4>4. CASE IoSignalIdle
        BY <1>1, <4>4 DEF IoSignalIdle
      <4>5. CASE IoReleaseRequest
        BY <1>1, <4>5 DEF IoReleaseRequest
      <4>6. CASE IoDequeue /\ IoThreadQueue = <<>>
        BY <1>1, <4>6 DEF IoDequeue
      <4> QED BY <1>2, <2>5, <4>1, <4>2, <4>3, <4>4, <4>5, <4>6
    <3> QED BY <2>1, <2>2, <3>1, <3>2 DEF QuietStep
  <2> QED BY <2>3, <2>4, <2>5
<1>3. CASE (IoDequeue /\ IoThreadQueue # <<>>) \/ IoHandOver
  <2>1. UNCHANGED <<irp, freeItems, OutstandingIoCount, removeLock>>
    BY <1>3 DEF IoDequeue, IoHandOver, bufVars, countVars
  <2>2. Ahead' = Ahead
    BY <1>1, <1>3 DEF IoDequeue, IoHandOver, IoGoTo, Ahead
  <2> QED BY <1>1, <2>1, <2>2, NoEffect DEF QuietStep
<1>4. CASE IoComplete
  <2>1. io.pc = "complete" /\ CompleteIrp(io.req.irp) /\ UNCHANGED <<freeItems, removeLock>>
    BY <1>4 DEF IoComplete, bufVars
  <2>2. Live(io.req.irp) /\ io.req.irp \in Irps
    BY <1>1, <2>1 DEF Stages, Flowing, IoHas, Live
  <2>3. OutstandingIoCount' = OutstandingIoCount - 1
    BY <2>1 DEF CompleteIrp
  <2>4. Completed(io.req.irp)
    BY <1>1, <2>1, <2>2, CompleteEffect
  <2>5. Ahead' = Ahead
    BY <1>1, <1>4 DEF IoComplete, IoGoTo, AfterComplete, Ahead
  <2> QED BY <2>1, <2>2, <2>3, <2>4, <2>5 DEF CompleteStep, IoHas
<1>5. CASE IoReleaseItem
  <2>1. /\ io.pc = "releaseItem" /\ ReleaseItem(io.req.irp) /\ UNCHANGED <<irp, OutstandingIoCount>>
        /\ freeItems' = freeItems + 1
    BY <1>5 DEF IoReleaseItem, ReleaseItem, countVars
  <2>2. Ended(io.req.irp) /\ removeLock'.held = removeLock.held \ {io.req.irp}
    BY <1>1, <2>1, ReleaseTypes DEF Endings, IoEnds
  <2>3. Ahead' = Ahead
    BY <1>1, <1>5 DEF IoReleaseItem, IoGoTo, Ahead
  <2> QED BY <2>1, <2>2, <2>3 DEF ReleaseStep
<1> QED BY <1>2, <1>3, <1>4, <1>5 DEF IoThread

\* A step of the completion thread as the counters see it.
LEMMA CompletionKind ==
    ASSUME ShapeInv, PipeInv, CompletionThread
    PROVE  \/ QuietStep \/ (CompletionHas /\ CompleteStep(completion.req.irp))
           \/ ReleaseStep(completion.req.irp)
<1>1. IrpTypes /\ Stages /\ Endings /\ QueueTypes
  BY DEF ShapeInv, PipeInv
<1>2. UNCHANGED io /\ Ahead' = Ahead
  BY CompletionTypes DEF CompletionFrame, Ahead
<1>3. CASE \/ CompletionWait \/ CompletionDecrypt \/ CompletionSignalIdle
           \/ CompletionReleaseRequest \/ (CompletionDequeue /\ CompletionThreadQueue = <<>>)
  <2>1. AllKept /\ UNCHANGED removeLock
    BY <1>3, CompletionPipeQuiet
  <2>2. UNCHANGED <<freeItems, OutstandingIoCount>>
    BY <1>3 DEF CompletionWait, CompletionDecrypt, CompletionSignalIdle, CompletionReleaseRequest,
         CompletionDequeue
  <2> QED BY <1>2, <2>1, <2>2 DEF QuietStep
<1>4. CASE CompletionDequeue /\ CompletionThreadQueue # <<>>
  <2>1. UNCHANGED <<irp, freeItems, OutstandingIoCount, removeLock>>
    BY <1>4 DEF CompletionDequeue
  <2> QED BY <1>1, <1>2, <2>1, NoEffect DEF QuietStep
<1>5. CASE CompletionComplete
  <2>1. /\ completion.pc = "complete" /\ CompleteIrp(completion.req.irp)
        /\ UNCHANGED <<freeItems, removeLock>>
    BY <1>5 DEF CompletionComplete
  <2>2. Live(completion.req.irp) /\ completion.req.irp \in Irps
    BY <1>1, <2>1 DEF Stages, Flowing, CompletionHas, Live
  <2>3. OutstandingIoCount' = OutstandingIoCount - 1
    BY <2>1 DEF CompleteIrp
  <2>4. Completed(completion.req.irp)
    BY <1>1, <2>1, <2>2, CompleteEffect
  <2> QED BY <1>2, <2>1, <2>2, <2>3, <2>4 DEF CompleteStep, CompletionHas
<1>6. CASE CompletionReleaseItem
  <2>1. /\ completion.pc = "releaseItem" /\ ReleaseItem(completion.req.irp)
        /\ UNCHANGED <<irp, OutstandingIoCount>> /\ freeItems' = freeItems + 1
    BY <1>6 DEF CompletionReleaseItem, ReleaseItem
  <2>2. Ended(completion.req.irp) /\ removeLock'.held = removeLock.held \ {completion.req.irp}
    BY <1>1, <2>1, ReleaseTypes DEF Endings, CompletionEnds
  <2> QED BY <1>2, <2>1, <2>2 DEF ReleaseStep
<1> QED BY <1>3, <1>4, <1>5, <1>6 DEF CompletionThread

\* Holding and removing are nothing to the counters of IRPs and items.
LEMMA OtherKind ==
    ASSUME ShapeInv, OtherFrame, removeLock'.held = removeLock.held
    PROVE  QuietStep
<1>1. AllKept
  BY NoEffect DEF ShapeInv, OtherFrame
<1>2. UNCHANGED <<freeItems, OutstandingIoCount, io>>
  BY DEF OtherFrame, bufVars, countVars
<1> QED BY <1>1, <1>2 DEF QuietStep, Ahead

(***************************************************************************)
(* Items and outstanding IRPs are counted.                                 *)
(***************************************************************************)
LEMMA CountedSets ==
    ASSUME QueueTypes
    PROVE  /\ IsFiniteSet(ItemHolders) /\ Cardinality(ItemHolders) \in Nat
           /\ IsFiniteSet(OutstandingIrps) /\ Cardinality(OutstandingIrps) \in Nat
<1>1. ItemHolders \subseteq Irps /\ OutstandingIrps \subseteq Irps /\ IsFiniteSet(Irps)
  BY QueueAssumption DEF QueueTypes, ItemHolders, OutstandingIrps, QueueAssumption
<1>2. IsFiniteSet(ItemHolders) /\ IsFiniteSet(OutstandingIrps)
  BY <1>1, FS_Subset
<1> QED BY <1>2, FS_CardinalityType

\* Quiet steps keep the counters exact.
LEMMA QuietCount ==
    ASSUME QueueTypes, ItemsCounted, OutstandingCounted, freeItems \in Nat, QuietStep
    PROVE  ItemsCounted' /\ OutstandingCounted' /\ freeItems' \in Nat
<1>1. Cardinality(OutstandingIrps) \in Nat
  BY CountedSets
<1>2. removeLock.held \subseteq Irps
  BY DEF QueueTypes
<1>3. ItemHolders' = ItemHolders
  BY <1>2 DEF QuietStep, AllKept, Kept, ItemHolders
<1>4. OutstandingIrps' = OutstandingIrps
  BY DEF QuietStep, AllKept, Kept, OutstandingIrps
<1>5. OutstandingCounted'
  BY <1>1, <1>4 DEF OutstandingCounted, One, QuietStep
<1> QED BY <1>3, <1>5 DEF ItemsCounted, QuietStep

\* An IRP is counted before it is queued and counted off when it is refused.
LEMMA DispatchCount ==
    ASSUME QueueTypes, Locks, ItemsCounted, OutstandingCounted, freeItems \in Nat,
           NEW i \in Irps, DispatchStep(i)
    PROVE  ItemsCounted' /\ OutstandingCounted' /\ freeItems' \in Nat
<1>1. /\ Cardinality(OutstandingIrps) \in Nat /\ IsFiniteSet(OutstandingIrps)
      /\ removeLock.held \subseteq Irps /\ Ahead' = Ahead
  BY CountedSets DEF QueueTypes, DispatchStep, Ahead
<1>2. /\ irp[i].disp \in {"new", "counted", "refused", "refusedIdle"} => i \notin removeLock.held
      /\ irp[i].disp \in {"new", "counted", "locked"} => irp[i].status = "pending"
      /\ irp[i].disp # "inserted" => irp[i].done = 0
  BY DEF Locks, Accepted, DispatchStep
<1>3. /\ \A j \in Irps : j # i => Kept(j)
      /\ irp'[i].status = irp[i].status /\ irp'[i].done = irp[i].done
  BY DEF DispatchStep, Disposed, OthersKept
<1>4. ItemHolders' = ItemHolders
  <2>1. irp[i].disp = "counted" \/ removeLock'.held = removeLock.held
    BY DEF DispatchStep
  <2>2. removeLock'.held = removeLock.held \/ removeLock'.held = removeLock.held \cup {i}
    BY DEF DispatchStep
  <2> QED BY <1>1, <1>2, <1>3, <2>1, <2>2 DEF Kept, ItemHolders
<1>5. CASE irp[i].disp = "new"
  <2>1. irp'[i].disp = "counted" /\ OutstandingIoCount' = OutstandingIoCount + 1
    BY <1>5 DEF DispatchStep, Disposed
  <2>2. OutstandingIrps' = OutstandingIrps \cup {i} /\ i \notin OutstandingIrps
    BY <1>2, <1>3, <1>5, <2>1 DEF OutstandingIrps, Kept
  <2>3. Cardinality(OutstandingIrps \cup {i}) = Cardinality(OutstandingIrps) + 1
    BY <1>1, <2>2, FS_AddElement
  <2> QED BY <1>1, <1>4, <2>1, <2>2, <2>3 DEF ItemsCounted, OutstandingCounted, One, DispatchStep
<1>6. CASE irp[i].disp = "refused"
  <2>1. irp'[i].disp \in {"refusedIdle", "rejected"} /\ OutstandingIoCount' = OutstandingIoCount - 1
    BY <1>6 DEF DispatchStep, Disposed
  <2>2. OutstandingIrps' = OutstandingIrps \ {i} /\ i \in OutstandingIrps
    BY <1>2, <1>3, <1>6, <2>1 DEF OutstandingIrps, Kept
  <2>3. Cardinality(OutstandingIrps \ {i}) = Cardinality(OutstandingIrps) - 1
    BY <1>1, <2>2, FS_RemoveElement
  <2> QED BY <1>1, <1>4, <2>1, <2>2, <2>3 DEF ItemsCounted, OutstandingCounted, One, DispatchStep
<1>7. CASE irp[i].disp \notin {"new", "refused"}
  <2>1. /\ OutstandingIoCount' = OutstandingIoCount
        /\ \/ irp[i].disp = "counted" /\ irp'[i].disp \in {"refused", "locked"}
           \/ irp[i].disp = "locked" /\ irp'[i].disp = "inserted"
           \/ irp[i].disp = "inserted" /\ irp'[i].disp = "returned"
           \/ irp[i].disp = "refusedIdle" /\ irp'[i].disp = "rejected"
    BY <1>7 DEF DispatchStep, Disposed
  <2>2. OutstandingIrps' = OutstandingIrps
    BY <1>3, <2>1 DEF OutstandingIrps, Kept
  <2> QED BY <1>1, <1>4, <2>1, <2>2 DEF ItemsCounted, OutstandingCounted, DispatchStep
<1> QED BY <1>5, <1>6, <1>7

\* An item is taken for one IRP.
LEMMA EquipCount ==
    ASSUME QueueTypes, ItemsCounted, OutstandingCounted, freeItems \in Nat, NEW i, EquipStep(i)
    PROVE  ItemsCounted' /\ OutstandingCounted' /\ freeItems' \in Nat
<1>1. /\ Cardinality(ItemHolders) \in Nat /\ IsFiniteSet(ItemHolders)
      /\ removeLock.held \subseteq Irps /\ Ahead' = Ahead
  BY CountedSets DEF QueueTypes, EquipStep, Ahead
<1>2. /\ i \in Irps /\ i \in removeLock.held /\ irp[i].status = "pending" /\ irp'[i].status = "ok"
      /\ irp'[i].done = irp[i].done /\ irp'[i].disp = irp[i].disp
      /\ \A j \in Irps : j # i => Kept(j)
  BY DEF EquipStep, Live, Equipped, OthersKept
<1>3. ItemHolders' = ItemHolders \cup {i} /\ i \notin ItemHolders
  BY <1>1, <1>2 DEF ItemHolders, Kept, EquipStep
<1>4. Cardinality(ItemHolders \cup {i}) = Cardinality(ItemHolders) + 1
  BY <1>1, <1>3, FS_AddElement
<1>5. OutstandingIrps' = OutstandingIrps
  BY <1>2 DEF OutstandingIrps, Kept
<1> QED BY <1>1, <1>3, <1>4, <1>5 DEF ItemsCounted, OutstandingCounted, EquipStep

\* A completed IRP is counted off once.
LEMMA CompleteCount ==
    ASSUME QueueTypes, ItemsCounted, OutstandingCounted, freeItems \in Nat, NEW i, CompleteStep(i)
    PROVE  ItemsCounted' /\ OutstandingCounted' /\ freeItems' \in Nat
<1>1. /\ Cardinality(OutstandingIrps) \in Nat /\ IsFiniteSet(OutstandingIrps)
      /\ removeLock.held \subseteq Irps
  BY CountedSets DEF QueueTypes
<1>2. /\ i \in Irps /\ irp[i].disp \in {"inserted", "returned"} /\ irp[i].done = 0
      /\ irp'[i].done = 1 /\ irp'[i].status = irp[i].status
      /\ \A j \in Irps : j # i => Kept(j)
  BY DEF CompleteStep, Live, Accepted, Completed, OthersKept
<1>3. OutstandingIrps' = OutstandingIrps \ {i} /\ i \in OutstandingIrps
  BY <1>2 DEF OutstandingIrps, Kept
<1>4. Cardinality(OutstandingIrps \ {i}) = Cardinality(OutstandingIrps) - 1
  BY <1>1, <1>3, FS_RemoveElement
<1>5. ItemHolders' = ItemHolders
  BY <1>1, <1>2 DEF ItemHolders, Kept, CompleteStep
<1> QED BY <1>1, <1>3, <1>4, <1>5 DEF ItemsCounted, OutstandingCounted, One, CompleteStep

\* Its item goes back to the pool once.
LEMMA ReleaseCount ==
    ASSUME QueueTypes, ItemsCounted, OutstandingCounted, freeItems \in Nat, NEW i, ReleaseStep(i)
    PROVE  ItemsCounted' /\ OutstandingCounted' /\ freeItems' \in Nat
<1>1. Cardinality(ItemHolders) \in Nat /\ IsFiniteSet(ItemHolders)
  BY CountedSets
<1>2. ItemHolders' = ItemHolders \ {i} /\ i \in ItemHolders /\ OutstandingIrps' = OutstandingIrps
  BY DEF ItemHolders, OutstandingIrps, ReleaseStep, Ended
<1>3. Cardinality(ItemHolders \ {i}) = Cardinality(ItemHolders) - 1
  BY <1>1, <1>2, FS_RemoveElement
<1> QED BY <1>1, <1>2, <1>3 DEF ItemsCounted, OutstandingCounted, ReleaseStep

(***************************************************************************)
(* Requests are counted: each is in the pool, with a thread or in a queue. *)
(***************************************************************************)
RequestsInv == freeRequests \in Nat /\ RequestsCounted /\ PendingCounted

\* The terms of the sums are numbers.
LEMMA QueueLengths ==
    ASSUME QueueTypes
    PROVE  /\ Len(IoThreadQueue) \in Nat /\ Len(CompletionThreadQueue) \in Nat
           /\ \A b : One(b) \in Nat
  BY DEF QueueTypes, One

\* A step that neither takes nor returns a request, nor hands one on.
LEMMA RequestsKept ==
    ASSUME RequestsInv, UNCHANGED <<freeRequests, IoThreadPendingRequestCount, IoThreadQueue,
           CompletionThreadQueue>>, MainRequest' = MainRequest, MainPending' = MainPending,
           IoRequest' = IoRequest, CompletionRequest' = CompletionRequest
    PROVE  RequestsInv'
  BY DEF RequestsInv, RequestsCounted, PendingCounted

\* The main thread takes a request for each fragment it queues.
LEMMA MainRequests ==
    ASSUME ShapeInv, RequestsInv, MainThread
    PROVE  RequestsInv'
<1>1. main \in MainStates /\ QueueTypes /\ main.req \in Fragments
  BY DEF ShapeInv, ThreadTypes, MainStates
<1>2. /\ UNCHANGED <<CompletionThreadQueue, io, completion>>
      /\ IoRequest' = IoRequest /\ CompletionRequest' = CompletionRequest
  BY MainFrames DEF MainFrame, IoRequest, CompletionRequest, IoHas, IoEnds, CompletionHas, CompletionEnds
<1>3. Len(IoThreadQueue) \in Nat /\ Len(CompletionThreadQueue) \in Nat
  BY <1>1, QueueLengths
<1>4. ASSUME UNCHANGED <<freeRequests, IoThreadPendingRequestCount, IoThreadQueue>>,
             \/ main.pc \notin {"getRequest", "waitRequest", "acquire", "enqueue"}
                /\ main'.pc \notin {"getRequest", "waitRequest", "acquire", "enqueue"}
             \/ main.pc \in {"getRequest", "waitRequest"} /\ main'.pc \in {"getRequest", "waitRequest"}
             \/ main.pc = "acquire" /\ main'.pc = "enqueue"
      PROVE  RequestsInv'
  <2>1. MainRequest' = MainRequest /\ MainPending' = MainPending
    BY <1>4 DEF MainRequest, MainPending
  <2> QED BY <1>2, <1>4, <2>1, RequestsKept
<1>5. CASE \/ MainWait \/ MainGate \/ MainWaitResumed \/ MainWaitPool \/ MainAcquireBuffer
           \/ MainComplete \/ MainSignalIdle
  <2>1. UNCHANGED <<freeRequests, IoThreadPendingRequestCount, IoThreadQueue>>
    BY <1>5 DEF MainWait, MainGate, MainWaitResumed, MainWaitPool, MainAcquireBuffer,
         MainComplete, MainSignalIdle, bufVars, countVars
  <2>2. \/ main.pc \notin {"getRequest", "waitRequest", "acquire", "enqueue"}
           /\ main'.pc \notin {"getRequest", "waitRequest", "acquire", "enqueue"}
        \/ main.pc \in {"getRequest", "waitRequest"} /\ main'.pc \in {"getRequest", "waitRequest"}
        \/ main.pc = "acquire" /\ main'.pc = "enqueue"
    BY <1>1, <1>5 DEF MainWait, MainGate, MainWaitResumed, MainWaitPool, MainAcquireBuffer,
         MainComplete, MainSignalIdle, MainGoTo, AfterComplete, MainStates
  <2> QED BY <1>4, <2>1, <2>2
<1>6. CASE \/ MainDequeue \/ MainGetItem \/ MainRefuse \/ MainReadMisaligned \/ MainBeginFragments
           \/ MainReleaseItem \/ MainSignalIo
  <2>1. UNCHANGED <<freeRequests, IoThreadPendingRequestCount, IoThreadQueue>>
    BY <1>6 DEF MainDequeue, MainGetItem, MainRefuse, MainReadMisaligned, MainBeginFragments,
         MainReleaseItem, MainSignalIo, bufVars, countVars
  <2>2. /\ main.pc \in {"dequeue", "getItem", "check", "releaseItem", "signalIo"}
        /\ main'.pc \notin {"getRequest", "waitRequest", "acquire", "enqueue"}
    <3>1. CASE MainDequeue
      BY <1>1, <3>1 DEF MainDequeue, MainGoTo, MainStates
    <3>2. CASE MainGetItem
      BY <1>1, <3>2 DEF MainGetItem, MainGoTo, MainStates
    <3>3. CASE MainRefuse \/ MainReadMisaligned
      <4>1. main.pc = "check" /\ MainGoTo("complete")
        BY <3>3 DEF MainRefuse, MainReadMisaligned
      <4> QED BY <1>1, <4>1 DEF MainGoTo, MainStates
    <3>4. CASE MainBeginFragments
      BY <1>1, <3>4 DEF MainBeginFragments, MainStates
    <3>5. CASE MainReleaseItem
      BY <3>5 DEF MainReleaseItem, MainDone, IdleMain
    <3>6. CASE MainSignalIo
      <4>1. /\ main.pc = "signalIo"
            /\ \/ MainDone
               \/ main' = [main EXCEPT !.pc = "fragment", !.off = main.off + MaxFragment,
                             !.left = main.left - MaxFragment, !.pos = main.pos + MaxFragment]
        BY <3>6 DEF MainSignalIo
      <4>2. MainDone => main'.pc = "dequeue"
        BY DEF MainDone, IdleMain
      <4> QED BY <1>1, <4>1, <4>2 DEF MainStates
    <3> QED BY <1>6, <3>1, <3>2, <3>3, <3>4, <3>5, <3>6
  <2> QED BY <1>4, <2>1, <2>2, SMTT(60)
<1>7. CASE MainNextFragment
  <2>1. /\ main.pc = "fragment" /\ main'.pc = "getRequest"
        /\ IoThreadPendingRequestCount' = IoThreadPendingRequestCount + 1
        /\ UNCHANGED <<freeRequests, IoThreadQueue>>
    BY <1>1, <1>7 DEF MainNextFragment, bufVars, MainStates
  <2>2. ~MainPending /\ MainPending' /\ ~MainRequest /\ ~MainRequest'
    BY <2>1 DEF MainPending, MainRequest
  <2> QED BY <1>2, <1>3, <2>1, <2>2 DEF RequestsInv, RequestsCounted, PendingCounted, One
<1>8. CASE MainGetRequest
  <2>1. /\ main.pc = "getRequest" /\ UNCHANGED <<IoThreadQueue, IoThreadPendingRequestCount>>
        /\ \/ freeRequests > 0 /\ freeRequests' = freeRequests - 1 /\ main'.pc = "acquire"
           \/ UNCHANGED freeRequests /\ main'.pc = "waitRequest"
    BY <1>1, <1>8 DEF MainGetRequest, MainGoTo, countVars, MainStates
  <2>2. CASE freeRequests > 0 /\ freeRequests' = freeRequests - 1 /\ main'.pc = "acquire"
    <3>1. MainPending /\ MainPending' /\ ~MainRequest /\ MainRequest'
      BY <2>1, <2>2 DEF MainPending, MainRequest
    <3>2. One(IoRequest) \in Nat /\ One(CompletionRequest) \in Nat /\ RequestCount \in Nat
      BY QueueAssumption DEF One, QueueAssumption
    <3> QED BY <1>2, <1>3, <2>1, <2>2, <3>1, <3>2 DEF RequestsInv, RequestsCounted, PendingCounted, One
  <2>3. CASE UNCHANGED freeRequests /\ main'.pc = "waitRequest"
    BY <1>4, <2>1, <2>3
  <2> QED BY <2>1, <2>2, <2>3
<1>9. CASE MainEnqueue
  <2>1. /\ main.pc = "enqueue" /\ main'.pc = "signalIo"
        /\ UNCHANGED <<freeRequests, IoThreadPendingRequestCount>>
        /\ IoThreadQueue' = Append(IoThreadQueue, main.req)
    BY <1>1, <1>9 DEF MainEnqueue, MainGoTo, bufVars, countVars, MainStates
  <2>2. Len(IoThreadQueue') = Len(IoThreadQueue) + 1
    BY <1>1, <2>1, AppendFacts DEF QueueTypes
  <2>3. MainPending /\ ~MainPending' /\ MainRequest /\ ~MainRequest'
    BY <2>1 DEF MainPending, MainRequest
  <2>4. One(IoRequest) \in Nat /\ One(CompletionRequest) \in Nat
    BY DEF One
  <2> QED BY <1>2, <1>3, <2>1, <2>2, <2>3, <2>4 DEF RequestsInv, RequestsCounted, PendingCounted, One
<1> QED BY <1>5, <1>6, <1>7, <1>8, <1>9 DEF MainThread

\* The I/O thread passes a request on, or gives it back, and takes one for a read-ahead.
LEMMA IoRequests ==
    ASSUME ShapeInv, RequestsInv, IoThread
    PROVE  RequestsInv'
<1>1. io \in [pc : IoPcs, req : Fragments] /\ QueueTypes
  BY DEF ShapeInv, ThreadTypes
<1>2. /\ UNCHANGED <<main, completion>> /\ MainRequest' = MainRequest /\ MainPending' = MainPending
      /\ CompletionRequest' = CompletionRequest /\ One(MainRequest)' = One(MainRequest)
      /\ One(MainPending)' = One(MainPending) /\ One(CompletionRequest)' = One(CompletionRequest)
  BY IoTypes DEF IoFrame, One, MainRequest, MainPending, CompletionRequest, CompletionHas, CompletionEnds
<1>3. /\ Len(IoThreadQueue) \in Nat /\ Len(CompletionThreadQueue) \in Nat
      /\ One(MainRequest) \in Nat /\ One(MainPending) \in Nat /\ One(CompletionRequest) \in Nat
      /\ RequestCount \in Nat
  BY <1>1, QueueLengths, QueueAssumption DEF QueueAssumption
<1> USE DEF IoRequest, IoHas, IoEnds, IoGoTo, IoDone
<1>4. CASE IoWrite \/ IoRead \/ IoReadAhead
  <2>1. IoRequest' = IoRequest
    BY <1>1, <1>4, AccessFrame
  <2>2. UNCHANGED <<IoThreadQueue, CompletionThreadQueue>>
    BY <1>1, <1>4, IoQuiet
  <2>3. UNCHANGED <<freeRequests, IoThreadPendingRequestCount>>
    BY <1>4, AccessFrame DEF countVars
  <2> QED BY <1>2, <2>1, <2>2, <2>3, RequestsKept
<1>5. CASE IoWait \/ IoSkip \/ IoAfterWrite \/ IoAfterRead
  <2>1. IoRequest' = IoRequest
    BY <1>1, <1>5 DEF IoWait, IoSkip, IoAfterWrite, IoAfterRead
  <2>2. UNCHANGED <<freeRequests, IoThreadPendingRequestCount, IoThreadQueue, CompletionThreadQueue>>
    BY <1>5 DEF IoWait, IoSkip, IoAfterWrite, IoAfterRead, bufVars, countVars
  <2> QED BY <1>2, <2>1, <2>2, RequestsKept
<1>6. CASE IoSignalCompletion \/ IoReadAheadDone \/ IoComplete \/ IoSignalIdle \/ IoReleaseItem
  <2>1. IoRequest' = IoRequest
    <3>1. CASE IoSignalCompletion
      BY <1>1, <3>1 DEF IoSignalCompletion
    <3>2. CASE IoReadAheadDone
      BY <1>1, <3>2 DEF IoReadAheadDone
    <3>3. CASE IoComplete
      BY <1>1, <3>3 DEF IoComplete, AfterComplete
    <3>4. CASE IoSignalIdle
      BY <1>1, <3>4 DEF IoSignalIdle
    <3>5. CASE IoReleaseItem
      BY <1>1, <3>5 DEF IoReleaseItem
    <3> QED BY <1>6, <3>1, <3>2, <3>3, <3>4, <3>5
  <2>2. UNCHANGED <<freeRequests, IoThreadPendingRequestCount, IoThreadQueue, CompletionThreadQueue>>
    BY <1>6 DEF IoSignalCompletion, IoReadAheadDone, IoComplete, IoSignalIdle, IoReleaseItem,
         bufVars, countVars
  <2> QED BY <1>2, <2>1, <2>2, RequestsKept
<1>7. CASE IoDequeue /\ IoThreadQueue = <<>>
  <2>1. IoRequest' = IoRequest
    BY <1>1, <1>7 DEF IoDequeue
  <2>2. UNCHANGED <<freeRequests, IoThreadPendingRequestCount, IoThreadQueue, CompletionThreadQueue>>
    BY <1>7 DEF IoDequeue, bufVars
  <2> QED BY <1>2, <2>1, <2>2, RequestsKept
<1>8. CASE IoDequeue /\ IoThreadQueue # <<>>
  <2>1. /\ io.pc = "dequeue" /\ io'.pc = "access" /\ IoThreadQueue' = Tail(IoThreadQueue)
        /\ IoThreadPendingRequestCount' = IoThreadPendingRequestCount - 1
        /\ UNCHANGED <<freeRequests, CompletionThreadQueue>>
    BY <1>8 DEF IoDequeue, bufVars
  <2>2. Len(IoThreadQueue') = Len(IoThreadQueue) - 1
    BY <1>1, <1>8, <2>1, TailFacts DEF QueueTypes
  <2>3. One(IoRequest) = 0 /\ One(IoRequest)' = 1
    BY <2>1 DEF One
  <2> HIDE DEF IoRequest, IoHas, IoEnds, IoGoTo, IoDone
  <2>4. /\ freeRequests' = freeRequests /\ Len(CompletionThreadQueue)' = Len(CompletionThreadQueue)
        /\ Len(IoThreadQueue)' = Len(IoThreadQueue) - 1
        /\ IoThreadPendingRequestCount' = IoThreadPendingRequestCount - 1
        /\ One(MainRequest)' = One(MainRequest) /\ One(CompletionRequest)' = One(CompletionRequest)
        /\ One(MainPending)' = One(MainPending)
    BY <1>2, <2>1, <2>2
  <2> QED BY <1>3, <2>3, <2>4, SMTT(60) DEF RequestsInv, RequestsCounted, PendingCounted
<1>9. CASE IoHandOver
  <2>1. /\ io.pc \in {"handOver", "handOverAhead"} /\ io'.pc \in {"signal", "signalAhead"}
        /\ CompletionThreadQueue' = Append(CompletionThreadQueue, io.req) /\ io.req \in Fragments
        /\ UNCHANGED <<freeRequests, IoThreadQueue, IoThreadPendingRequestCount>>
    BY <1>1, <1>9 DEF IoHandOver, bufVars, countVars
  <2>2. Len(CompletionThreadQueue') = Len(CompletionThreadQueue) + 1
    BY <1>1, <2>1, AppendFacts DEF QueueTypes
  <2>3. One(IoRequest) = 1 /\ One(IoRequest)' = 0
    BY <2>1 DEF One
  <2> HIDE DEF IoRequest, IoHas, IoEnds, IoGoTo, IoDone
  <2> QED BY <1>2, <1>3, <2>1, <2>2, <2>3 DEF RequestsInv, RequestsCounted, PendingCounted
<1>10. CASE IoReleaseRequest
  <2>1. /\ io.pc = "releaseRequest" /\ io'.pc = "dequeue" /\ freeRequests' = freeRequests + 1
        /\ UNCHANGED <<IoThreadQueue, CompletionThreadQueue, IoThreadPendingRequestCount>>
    BY <1>10 DEF IoReleaseRequest, ReleaseRequest, countVars
  <2>2. One(IoRequest) = 1 /\ One(IoRequest)' = 0
    BY <2>1 DEF One
  <2> HIDE DEF IoRequest, IoHas, IoEnds, IoGoTo, IoDone
  <2> QED BY <1>2, <1>3, <2>1, <2>2 DEF RequestsInv, RequestsCounted, PendingCounted
<1> QED BY <1>4, <1>5, <1>6, <1>7, <1>8, <1>9, <1>10 DEF IoThread

\* The completion thread gives each request back.
LEMMA CompletionRequests ==
    ASSUME ShapeInv, RequestsInv, CompletionThread
    PROVE  RequestsInv'
<1>1. completion \in [pc : CompletionPcs, req : Fragments] /\ QueueTypes
  BY DEF ShapeInv, ThreadTypes
<1>2. /\ UNCHANGED <<main, io, IoThreadQueue>> /\ MainRequest' = MainRequest
      /\ MainPending' = MainPending /\ IoRequest' = IoRequest
      /\ One(MainRequest)' = One(MainRequest) /\ One(MainPending)' = One(MainPending)
      /\ One(IoRequest)' = One(IoRequest)
  BY CompletionTypes DEF CompletionFrame, One, MainRequest, MainPending, IoRequest, IoHas, IoEnds
<1>3. /\ Len(IoThreadQueue) \in Nat /\ Len(CompletionThreadQueue) \in Nat
      /\ One(MainRequest) \in Nat /\ One(MainPending) \in Nat /\ One(IoRequest) \in Nat
      /\ RequestCount \in Nat
  BY <1>1, QueueLengths, QueueAssumption DEF QueueAssumption
<1>4. UNCHANGED IoThreadPendingRequestCount
  BY DEF CompletionThread, CompletionWait, CompletionDequeue, CompletionDecrypt, CompletionComplete,
     CompletionSignalIdle, CompletionReleaseItem, CompletionReleaseRequest, completionRest
<1> USE DEF CompletionRequest, CompletionHas, CompletionEnds, CompletionGoTo
<1>5. CASE CompletionWait \/ CompletionComplete \/ CompletionSignalIdle \/ CompletionReleaseItem
  <2>1. CompletionRequest' = CompletionRequest
    BY <1>1, <1>5 DEF CompletionWait, CompletionComplete, CompletionSignalIdle, CompletionReleaseItem,
         AfterComplete
  <2>2. UNCHANGED <<freeRequests, CompletionThreadQueue>>
    BY <1>5 DEF CompletionWait, CompletionComplete, CompletionSignalIdle, CompletionReleaseItem
  <2> QED BY <1>2, <1>4, <2>1, <2>2, RequestsKept
<1>6. CASE CompletionDecrypt
  <2>1. /\ completion.pc = "decrypt" /\ UNCHANGED <<freeRequests, CompletionThreadQueue>>
        /\ CompletionGoTo(IF completion.req.last THEN "complete" ELSE "releaseRequest")
    BY <1>6 DEF CompletionDecrypt
  <2>2. CompletionRequest' = CompletionRequest
    BY <1>1, <2>1
  <2> QED BY <1>2, <1>4, <2>1, <2>2, RequestsKept
<1>7. CASE CompletionDequeue /\ CompletionThreadQueue = <<>>
  <2>1. CompletionRequest' = CompletionRequest /\ UNCHANGED <<freeRequests, CompletionThreadQueue>>
    BY <1>1, <1>7 DEF CompletionDequeue
  <2> QED BY <1>2, <1>4, <2>1, RequestsKept
<1>8. CASE CompletionDequeue /\ CompletionThreadQueue # <<>>
  <2>1. /\ completion.pc = "dequeue" /\ completion'.pc = "decrypt" /\ UNCHANGED freeRequests
        /\ CompletionThreadQueue' = Tail(CompletionThreadQueue)
    BY <1>8 DEF CompletionDequeue
  <2>2. Len(CompletionThreadQueue') = Len(CompletionThreadQueue) - 1
    BY <1>1, <1>8, <2>1, TailFacts DEF QueueTypes
  <2>3. One(CompletionRequest) = 0 /\ One(CompletionRequest)' = 1
    BY <2>1 DEF One
  <2> HIDE DEF CompletionRequest, CompletionHas, CompletionEnds, CompletionGoTo
  <2>4. /\ freeRequests' = freeRequests /\ Len(IoThreadQueue)' = Len(IoThreadQueue)
        /\ Len(CompletionThreadQueue)' = Len(CompletionThreadQueue) - 1
        /\ One(MainRequest)' = One(MainRequest) /\ One(IoRequest)' = One(IoRequest)
        /\ One(MainPending)' = One(MainPending)
    BY <1>2, <2>1, <2>2
  <2> QED BY <1>3, <1>4, <2>3, <2>4 DEF RequestsInv, RequestsCounted, PendingCounted
<1>9. CASE CompletionReleaseRequest
  <2>1. /\ completion.pc = "releaseRequest" /\ completion'.pc = "dequeue"
        /\ freeRequests' = freeRequests + 1 /\ UNCHANGED CompletionThreadQueue
    BY <1>9 DEF CompletionReleaseRequest, ReleaseRequest
  <2>2. One(CompletionRequest) = 1 /\ One(CompletionRequest)' = 0
    BY <2>1 DEF One
  <2> HIDE DEF CompletionRequest, CompletionHas, CompletionEnds, CompletionGoTo
  <2>3. /\ freeRequests' = freeRequests + 1 /\ Len(IoThreadQueue)' = Len(IoThreadQueue)
        /\ Len(CompletionThreadQueue)' = Len(CompletionThreadQueue)
        /\ One(MainRequest)' = One(MainRequest) /\ One(IoRequest)' = One(IoRequest)
        /\ One(MainPending)' = One(MainPending)
    BY <1>2, <2>1
  <2> QED BY <1>3, <1>4, <2>2, <2>3 DEF RequestsInv, RequestsCounted, PendingCounted
<1> QED BY <1>5, <1>6, <1>7, <1>8, <1>9 DEF CompletionThread

\* The steps of the queue, by what they do to the IRPs.
LEMMA StepKind ==
    ASSUME ShapeInv, PipeInv, OutstandingIoCount \in Int, [Next]_vars
    PROVE  \/ QuietStep
           \/ \E i \in Irps : DispatchStep(i) \/ EquipStep(i) \/ CompleteStep(i) \/ ReleaseStep(i)
<1>1. \A i : EquipStep(i) \/ CompleteStep(i) \/ ReleaseStep(i) => i \in Irps
  BY DEF EquipStep, CompleteStep, ReleaseStep, Live, Ended
<1>2. CASE UNCHANGED vars
  <2>1. OtherFrame /\ removeLock'.held = removeLock.held
    BY <1>2 DEF vars, thrVars, queueVars, envVars, OtherFrame
  <2> QED BY <2>1, OtherKind
<1>3. CASE Arrival \/ \E i \in Irps : Dispatcher(i)
  <2>1. PICK i \in Irps : Dispatcher(i) \/ \E req \in Requests : AddIrp(i, req)
    BY <1>3 DEF Arrival
  <2> QED BY <2>1, DispatchKind
<1>4. CASE MainThread
  BY <1>1, <1>4, MainKind
<1>5. CASE IoThread
  BY <1>1, <1>5, IoKind
<1>6. CASE CompletionThread
  BY <1>1, <1>6, CompletionKind
<1>7. CASE HoldWhenIdle \/ HolderStep
  <2>1. OtherFrame /\ UNCHANGED removeLock
    BY <1>7, HolderTypes
  <2> QED BY <2>1, OtherKind
<1>8. CASE RemoveDevice \/ StopperStep
  <2>1. OtherFrame /\ removeLock'.held = removeLock.held
    BY <1>8, StopperTypes
  <2> QED BY <2>1, OtherKind
<1> QED BY <1>2, <1>3, <1>4, <1>5, <1>6, <1>7, <1>8 DEF Next

\* Every step keeps the counters exact.
LEMMA CountStep ==
    ASSUME ShapeInv, PipeInv, CountInv, [Next]_vars
    PROVE  CountInv'
<1>1. QueueTypes /\ Locks /\ ItemsCounted /\ OutstandingCounted /\ freeItems \in Nat /\ RequestsInv
  BY DEF ShapeInv, PipeInv, CountInv, RequestsInv
<1>2. OutstandingIoCount \in Int
  <2>1. Cardinality(OutstandingIrps) \in Nat /\ One(Ahead) \in Nat
    BY <1>1, CountedSets DEF One
  <2> QED BY <1>1, <2>1 DEF OutstandingCounted
<1>3. ItemsCounted' /\ OutstandingCounted' /\ freeItems' \in Nat
  BY <1>1, <1>2, StepKind, QuietCount, DispatchCount, EquipCount, CompleteCount, ReleaseCount
<1>4. ASSUME UNCHANGED <<main, io, completion, freeRequests, IoThreadPendingRequestCount,
                         IoThreadQueue, CompletionThreadQueue>>
      PROVE  RequestsInv'
  <2>1. /\ MainRequest' = MainRequest /\ MainPending' = MainPending
        /\ IoRequest' = IoRequest /\ CompletionRequest' = CompletionRequest
    BY <1>4 DEF MainRequest, MainPending, IoRequest, IoHas, IoEnds, CompletionRequest,
         CompletionHas, CompletionEnds
  <2> QED BY <1>1, <1>4, <2>1, RequestsKept
<1>5. ASSUME OtherFrame PROVE RequestsInv'
  BY <1>4, <1>5 DEF OtherFrame, queueVars, bufVars, countVars
<1>6. RequestsInv'
  <2>1. CASE UNCHANGED vars
    BY <1>5, <2>1 DEF vars, thrVars, OtherFrame
  <2>2. CASE Arrival \/ \E i \in Irps : Dispatcher(i)
    <3>1. PICK i \in Irps : Dispatcher(i) \/ \E req \in Requests : AddIrp(i, req)
      BY <2>2 DEF Arrival
    <3>2. DispatchFrame
      BY <3>1, DispatchTypes
    <3> QED BY <1>4, <3>2 DEF DispatchFrame, bufVars, thrVars
  <2>3. CASE MainThread \/ IoThread \/ CompletionThread
    BY <1>1, <2>3, MainRequests, IoRequests, CompletionRequests
  <2>4. CASE HoldWhenIdle \/ HolderStep \/ RemoveDevice \/ StopperStep
    <3>1. OtherFrame
      BY <2>4, HolderTypes, StopperTypes
    <3> QED BY <1>5, <3>1
  <2> QED BY <2>1, <2>2, <2>3, <2>4 DEF Next
<1> QED BY <1>3, <1>6 DEF CountInv, RequestsInv

-----------------------------------------------------------------------------
(***************************************************************************)
(* Stopping: the remove lock is not acquired again, and a thread that has  *)
(* exited does not run.                                                    *)
(***************************************************************************)
Dispatching == Arrival \/ \E i \in Irps : Dispatcher(i)

\* Only the removal of the device sets the removing flag.
LEMMA RemovingKept ==
    ASSUME ShapeInv, Dispatching \/ MainThread \/ IoThread \/ CompletionThread
    PROVE  removeLock'.removing = removeLock.removing
<1>1. /\ removeLock \in [held : SUBSET Irps, removing : BOOLEAN] /\ QueueTypes
      /\ main \in MainStates /\ io \in [pc : IoPcs, req : Fragments]
      /\ completion \in [pc : CompletionPcs, req : Fragments]
  BY DEF ShapeInv, QueueTypes, ThreadTypes
<1>2. CASE Dispatching
  <2>1. PICK i \in Irps : Dispatcher(i) \/ \E req \in Requests : AddIrp(i, req)
    BY <1>2 DEF Arrival, Dispatching
  <2>2. CASE AddIrpCheck(i)
    <3>1. \/ UNCHANGED removeLock
          \/ removeLock' = [removeLock EXCEPT !.held = removeLock.held \cup {i}]
      BY <2>2 DEF AddIrpCheck
    <3> QED BY <1>1, <3>1
  <2>3. CASE ~AddIrpCheck(i)
    BY <2>1, <2>3 DEF Dispatcher, AddIrp, AddIrpInsert, AddIrpSignal, AddIrpErr, AddIrpErrSignal
  <2> QED BY <2>2, <2>3
<1>3. CASE MainThread
  <2>1. CASE MainReleaseItem
    <3>1. ReleaseItem(main.irp)
      BY <2>1 DEF MainReleaseItem
    <3> QED BY <1>1, <3>1, ReleaseTypes
  <2>2. CASE \/ (MainDequeue /\ MainThreadQueue # <<>>) \/ MainEnqueue \/ MainComplete
             \/ (MainGetItem /\ freeItems > 0)
    BY <2>2 DEF MainDequeue, MainEnqueue, MainComplete, MainGetItem, envVars
  <2>3. CASE \/ MainWait \/ MainGate \/ MainWaitResumed \/ MainWaitPool \/ MainRefuse
             \/ MainReadMisaligned \/ MainBeginFragments \/ MainNextFragment \/ MainGetRequest
             \/ MainAcquireBuffer \/ MainSignalIdle \/ MainSignalIo
             \/ (MainDequeue /\ MainThreadQueue = <<>>) \/ (MainGetItem /\ ~(freeItems > 0))
    BY <1>1, <2>3, MainQuiet
  <2> QED BY <1>3, <2>1, <2>2, <2>3 DEF MainThread
<1>4. CASE IoThread
  <2>1. CASE IoReleaseItem
    <3>1. ReleaseItem(io.req.irp)
      BY <2>1 DEF IoReleaseItem
    <3> QED BY <1>1, <3>1, ReleaseTypes
  <2>2. CASE (IoDequeue /\ IoThreadQueue # <<>>) \/ IoHandOver \/ IoComplete
    BY <2>2 DEF IoDequeue, IoHandOver, IoComplete
  <2>3. CASE \/ IoWait \/ IoSkip \/ IoWrite \/ IoRead \/ IoAfterWrite \/ IoAfterRead
             \/ IoSignalCompletion \/ IoReadAhead \/ IoReadAheadDone \/ IoSignalIdle
             \/ IoReleaseRequest \/ (IoDequeue /\ IoThreadQueue = <<>>)
    BY <1>1, <2>3, IoQuiet
  <2> QED BY <1>4, <2>1, <2>2, <2>3 DEF IoThread
<1>5. CASE CompletionThread
  <2>1. CASE CompletionReleaseItem
    <3>1. ReleaseItem(completion.req.irp)
      BY <2>1 DEF CompletionReleaseItem
    <3> QED BY <1>1, <3>1, ReleaseTypes
  <2>2. CASE ~CompletionReleaseItem
    BY <1>5, <2>2 DEF CompletionThread, CompletionWait, CompletionDequeue, CompletionDecrypt,
         CompletionComplete, CompletionSignalIdle, CompletionReleaseRequest
  <2> QED BY <2>1, <2>2
<1> QED BY <1>2, <1>3, <1>4, <1>5

\* A thread that has exited takes no step.
LEMMA ExitedRests ==
    /\ IoThread => io.pc # "exited"
    /\ CompletionThread => completion.pc # "exited"
<1>1. IoWrite \/ IoRead \/ IoReadAhead => io.pc # "exited"
  BY AccessFrame
<1>2. IoWait \/ IoDequeue \/ IoSkip \/ IoAfterWrite \/ IoAfterRead \/ IoHandOver => io.pc # "exited"
  BY DEF IoWait, IoDequeue, IoSkip, IoAfterWrite, IoAfterRead, IoHandOver
<1>3. (IoSignalCompletion \/ IoReadAheadDone \/ IoComplete \/ IoSignalIdle \/ IoReleaseItem
          \/ IoReleaseRequest) => io.pc # "exited"
  BY DEF IoSignalCompletion, IoReadAheadDone, IoComplete, IoSignalIdle, IoReleaseItem, IoReleaseRequest
<1>4. CompletionThread => completion.pc # "exited"
  BY DEF CompletionThread, CompletionWait, CompletionDequeue, CompletionDecrypt,
         CompletionComplete, CompletionSignalIdle, CompletionReleaseItem, CompletionReleaseRequest
<1> QED BY <1>1, <1>2, <1>3, <1>4 DEF IoThread

\* The remove lock is acquired only while the device is not being removed.
LEMMA HeldShrinks ==
    ASSUME ShapeInv, PipeInv, OutstandingIoCount \in Int, removeLock.removing, [Next]_vars
    PROVE  removeLock'.held \subseteq removeLock.held
<1>1. ASSUME NEW i \in Irps, DispatchStep(i)
      PROVE  removeLock'.held = removeLock.held
  BY <1>1 DEF DispatchStep
<1>2. \A i \in Irps : EquipStep(i) \/ CompleteStep(i) \/ ReleaseStep(i) =>
          removeLock'.held \subseteq removeLock.held
  BY DEF EquipStep, CompleteStep, ReleaseStep
<1>3. QuietStep => removeLock'.held = removeLock.held
  BY DEF QuietStep
<1> QED BY <1>1, <1>2, <1>3, StepKind

\* Once the remove lock is drained no IRP enters the queue any more, and the threads are
\* joined in order.
LEMMA StopStep ==
    ASSUME ShapeInv, PipeInv, StopInv, OutstandingIoCount \in Int, [Next]_vars
    PROVE  StopInv'
<1>1. removeLock.removing => removeLock'.held \subseteq removeLock.held
  BY HeldShrinks
<1>2. removeLock \in [held : SUBSET Irps, removing : BOOLEAN] /\ stopper \in StopperPcs
  BY DEF ShapeInv, QueueTypes, ThreadTypes
<1>3. CASE Dispatching \/ MainThread \/ IoThread \/ CompletionThread
  <2>1. removeLock'.removing = removeLock.removing
    BY <1>3, RemovingKept
  <2>2. UNCHANGED stopper
    <3>1. Dispatching => DispatchFrame
      BY DispatchTypes DEF Dispatching, Arrival
    <3>2. MainThread \/ IoThread \/ CompletionThread => UNCHANGED stopper
      BY MainFrames, IoTypes, CompletionTypes DEF MainFrame, IoFrame, CompletionFrame
    <3> QED BY <1>3, <3>1, <3>2 DEF DispatchFrame, thrVars
  <2>3. io.pc = "exited" => io'.pc = "exited"
    <3>1. Dispatching => DispatchFrame
      BY DispatchTypes DEF Dispatching, Arrival
    <3>2. MainThread \/ CompletionThread => UNCHANGED io
      BY MainFrames, CompletionTypes DEF MainFrame, CompletionFrame
    <3> QED BY <1>3, <3>1, <3>2, ExitedRests DEF DispatchFrame, thrVars
  <2>4. completion.pc = "exited" => completion'.pc = "exited"
    <3>1. Dispatching => DispatchFrame
      BY DispatchTypes DEF Dispatching, Arrival
    <3>2. MainThread \/ IoThread => UNCHANGED completion
      BY MainFrames, IoTypes DEF MainFrame, IoFrame
    <3> QED BY <1>3, <3>1, <3>2, ExitedRests DEF DispatchFrame, thrVars
  <2> QED BY <1>1, <2>1, <2>2, <2>3, <2>4 DEF StopInv
<1>4. CASE UNCHANGED vars \/ HoldWhenIdle \/ HolderStep
  <2>1. UNCHANGED <<removeLock, stopper, io, completion>>
    BY <1>4, HolderTypes DEF OtherFrame, vars, thrVars, envVars
  <2> QED BY <2>1 DEF StopInv
<1>5. CASE RemoveDevice \/ StopperStep
  <2>1. UNCHANGED <<io, completion>> /\ removeLock'.held = removeLock.held
    BY <1>5, StopperTypes DEF OtherFrame
  <2>2. CASE RemoveDevice
    BY <1>2, <2>1, <2>2 DEF RemoveDevice, StopInv
  <2>3. CASE StopQueue \/ StopCheckIdle \/ StopWait
    BY <1>2, <2>1, <2>3 DEF StopQueue, StopCheckIdle, StopWait, StopInv
  <2>4. CASE StopThreads
    BY <1>2, <2>1, <2>4 DEF StopThreads, StopThread, Joined, StopInv
  <2> QED BY <1>5, <2>2, <2>3, <2>4 DEF StopperStep
<1> QED BY <1>3, <1>4, <1>5 DEF Next, Dispatching

-----------------------------------------------------------------------------
(***************************************************************************)
(* Holding: nothing but the holder lets the main thread through, and what  *)
(* was confirmed when the hold began stays so.                             *)
(***************************************************************************)
Unwoken == event'["resumed"] => event["resumed"]

\* Signalling any other event, or waiting, does not set the resume event.
LEMMA EventUnwoken ==
    ASSUME event \in [Events -> BOOLEAN]
    PROVE  /\ \A e \in Events \ {"resumed"} : Set(e) => Unwoken
           /\ \A e \in Events : Wait(e) => Unwoken
           /\ SignalIfIdle => Unwoken
           /\ UNCHANGED event => Unwoken
  BY DEF Set, Wait, SignalIfIdle, Unwoken, Events

\* AddIrp does not resume the main thread.
LEMMA DispatchUnwoken ==
    ASSUME ShapeInv, Dispatching
    PROVE  Unwoken
<1>1. event \in [Events -> BOOLEAN] /\ "main" \in Events \ {"resumed"}
  BY DEF ShapeInv, QueueTypes, Events
<1>2. PICK i \in Irps : Dispatcher(i) \/ \E req \in Requests : AddIrp(i, req)
  BY DEF Arrival, Dispatching
<1>3. UNCHANGED event \/ Set("main") \/ SignalIfIdle
  BY <1>2 DEF Dispatcher, AddIrp, AddIrpCheck, AddIrpInsert, AddIrpSignal, AddIrpErr, AddIrpErrSignal
<1> QED BY <1>1, <1>3, EventUnwoken

\* Nor does the main thread itself.
LEMMA MainUnwoken ==
    ASSUME ShapeInv, MainThread
    PROVE  Unwoken
<1>1. event \in [Events -> BOOLEAN] /\ main \in MainStates
  BY DEF ShapeInv, QueueTypes, ThreadTypes
<1>2. /\ {"main", "resumed", "poolFree", "A", "B"} \subseteq Events
      /\ {"io", "poolFree"} \subseteq Events \ {"resumed"}
  BY DEF Events
<1>3. main.req.buf \in {"A", "B"}
  BY <1>1 DEF MainStates, Fragments
<1>4. \/ UNCHANGED event \/ SignalIfIdle
      \/ \E e \in {"main", "resumed", "poolFree", "A", "B"} : Wait(e)
      \/ \E e \in {"io", "poolFree"} : Set(e)
  <2>1. MainDequeue \/ MainGate \/ MainGetItem \/ MainBeginFragments \/ MainComplete \/ MainEnqueue
          => UNCHANGED event
    BY DEF MainDequeue, MainGate, MainGetItem, MainBeginFragments, MainComplete, MainEnqueue
  <2>2. MainRefuse \/ MainReadMisaligned \/ MainNextFragment \/ MainGetRequest => UNCHANGED event
    BY DEF MainRefuse, MainReadMisaligned, MainNextFragment, MainGetRequest
  <2>3. MainWait \/ MainWaitResumed \/ MainWaitPool =>
          \E e \in {"main", "resumed", "poolFree", "A", "B"} : Wait(e)
    BY DEF MainWait, MainWaitResumed, MainWaitPool
  <2>4. MainAcquireBuffer => \E e \in {"main", "resumed", "poolFree", "A", "B"} : Wait(e)
    BY <1>3 DEF MainAcquireBuffer
  <2>5. MainReleaseItem \/ MainSignalIo => \E e \in {"io", "poolFree"} : Set(e)
    BY DEF MainReleaseItem, ReleaseItem, MainSignalIo
  <2>6. MainSignalIdle => SignalIfIdle
    BY DEF MainSignalIdle
  <2> QED BY <2>1, <2>2, <2>3, <2>4, <2>5, <2>6 DEF MainThread
<1> QED BY <1>1, <1>2, <1>4, EventUnwoken

\* Nor does the I/O thread.
LEMMA IoUnwoken ==
    ASSUME ShapeInv, IoThread
    PROVE  Unwoken
<1>1. event \in [Events -> BOOLEAN] /\ io \in [pc : IoPcs, req : Fragments]
  BY DEF ShapeInv, QueueTypes, ThreadTypes
<1>2. {"completion", "poolFree", "A", "B"} \subseteq Events \ {"resumed"} /\ "io" \in Events
  BY DEF Events
<1>3. io.req.buf \in {"A", "B"}
  BY <1>1 DEF Fragments
<1>4. \/ UNCHANGED event \/ SignalIfIdle \/ Wait("io")
      \/ \E e \in {"completion", "poolFree", "A", "B"} : Set(e)
  <2>1. ASSUME IoWrite PROVE UNCHANGED event
    BY <2>1, ZenonT(60) DEF IoWrite
  <2>2. IoRead => UNCHANGED event
    BY DEF IoRead
  <2>3. IoDequeue \/ IoSkip \/ IoHandOver \/ IoReadAhead \/ IoReadAheadDone \/ IoComplete => UNCHANGED event
    BY DEF IoDequeue, IoSkip, IoHandOver, IoReadAhead, IoReadAheadDone, IoComplete
  <2>4. IoAfterWrite \/ IoAfterRead => \E e \in {"completion", "poolFree", "A", "B"} : Set(e)
    BY <1>3 DEF IoAfterWrite, IoAfterRead, ReleaseFragmentBuffer
  <2>5. IoSignalCompletion \/ IoReleaseItem \/ IoReleaseRequest =>
          \E e \in {"completion", "poolFree", "A", "B"} : Set(e)
    BY DEF IoSignalCompletion, IoReleaseItem, ReleaseItem, IoReleaseRequest, ReleaseRequest
  <2>6. IoWait \/ IoSignalIdle => Wait("io") \/ SignalIfIdle
    BY DEF IoWait, IoSignalIdle
  <2> QED BY <2>1, <2>2, <2>3, <2>4, <2>5, <2>6 DEF IoThread
<1> QED BY <1>1, <1>2, <1>4, EventUnwoken

\* Nor does the completion thread.
LEMMA CompletionUnwoken ==
    ASSUME ShapeInv, CompletionThread
    PROVE  Unwoken
<1>1. event \in [Events -> BOOLEAN] /\ "completion" \in Events /\ "poolFree" \in Events \ {"resumed"}
  BY DEF ShapeInv, QueueTypes, Events
<1>2. UNCHANGED event \/ SignalIfIdle \/ Wait("completion") \/ Set("poolFree")
  BY DEF CompletionThread, CompletionWait, CompletionDequeue, CompletionDecrypt,
         CompletionComplete, CompletionSignalIdle, CompletionReleaseItem, CompletionReleaseRequest,
         ReleaseItem, ReleaseRequest
<1> QED BY <1>1, <1>2, EventUnwoken

\* Nor does the removal of the device.
LEMMA StopperUnwoken ==
    ASSUME ShapeInv, RemoveDevice \/ StopperStep
    PROVE  Unwoken
<1>1. /\ event \in [Events -> BOOLEAN] /\ "noOutstanding" \in Events
      /\ {"main", "io", "completion"} \subseteq Events \ {"resumed"}
  BY DEF ShapeInv, QueueTypes, Events
<1>2. \/ UNCHANGED event \/ Wait("noOutstanding")
      \/ \E e \in {"main", "io", "completion"} : Set(e)
  BY DEF RemoveDevice, StopperStep, StopQueue, StopCheckIdle, StopWait, StopThreads, StopThread, Joined
<1> QED BY <1>1, <1>2, EventUnwoken

\* A step that leaves the threads and their queues alone.
LEMMA HeldSame ==
    ASSUME HeldQuiet, Held' => Held, OtherFrame
    PROVE  HeldQuiet'
  BY DEF OtherFrame, queueVars, HeldQuiet, IoHas, Ahead, CompletionHas, MainHas, MainEarly, Accepted,
     Queued, AtGate

\* A new IRP waits before the gate.
LEMMA HeldDispatch ==
    ASSUME ShapeInv, PipeInv, HeldQuiet, Dispatching
    PROVE  HeldQuiet'
<1>1. PICK i \in Irps : Dispatcher(i) \/ \E req \in Requests : AddIrp(i, req)
  BY DEF Arrival, Dispatching
<1>2. DispatchFrame /\ DispatchStep(i)
  BY <1>1, DispatchTypes, DispatchKind
<1>3. SUFFICES ASSUME Held' PROVE HeldQuiet'
  BY DEF HeldQuiet
<1>4. /\ UNCHANGED <<main, io, completion, holder, IoThreadQueue, CompletionThreadQueue>> /\ Held
  BY <1>2, <1>3 DEF DispatchFrame, thrVars, Held
<1>5. MainThreadQueue \in Seq(Irps)
  BY DEF ShapeInv, QueueTypes
<1>6. /\ \A j \in Irps : Queued(j) => Queued(j)'
      /\ AddIrpInsert(i) => Queued(i)'
  <2>1. CASE AddIrpInsert(i)
    <3>1. MainThreadQueue' = Append(MainThreadQueue, i)
      BY <2>1 DEF AddIrpInsert
    <3>2. /\ \A n \in DOMAIN MainThreadQueue : n \in DOMAIN MainThreadQueue'
                                               /\ MainThreadQueue'[n] = MainThreadQueue[n]
          /\ Len(MainThreadQueue) + 1 \in DOMAIN MainThreadQueue'
          /\ MainThreadQueue'[Len(MainThreadQueue) + 1] = i
      BY <1>5, <3>1
    <3> QED BY <3>2 DEF Queued
  <2>2. CASE ~AddIrpInsert(i)
    <3>1. UNCHANGED MainThreadQueue
      BY <1>1, <2>2 DEF Dispatcher, AddIrp, AddIrpCheck, AddIrpSignal, AddIrpErr, AddIrpErrSignal
    <3> QED BY <2>2, <3>1 DEF Queued
  <2> QED BY <2>1, <2>2
<1>7. ASSUME NEW j \in Irps, Accepted(j)', irp'[j].done = 0
      PROVE  Queued(j)' \/ AtGate(j)'
  <2>1. CASE Accepted(j) /\ irp[j].done = 0
    BY <1>4, <1>6, <2>1 DEF HeldQuiet, AtGate
  <2>2. CASE ~(Accepted(j) /\ irp[j].done = 0)
    <3>1. j = i
      BY <1>2, <1>7, <2>2 DEF DispatchStep, Disposed, OthersKept, Kept, Accepted
    <3>2. irp'[i].done = irp[i].done /\ irp'[i].disp \in {"inserted", "returned"}
      BY <1>2, <1>7, <3>1 DEF DispatchStep, Disposed, Accepted
    <3>3. irp[i].disp = "locked"
      BY <1>2, <1>7, <2>2, <3>1, <3>2 DEF DispatchStep, Disposed, Accepted
    <3>4. AddIrpInsert(i)
      BY <1>1, <3>3 DEF Dispatcher, AddIrp, AddIrpCheck, AddIrpSignal, AddIrpErr, AddIrpErrSignal
    <3> QED BY <1>6, <3>1, <3>4
  <2> QED BY <2>1, <2>2
<1>8. /\ IoThreadQueue' = <<>> /\ CompletionThreadQueue' = <<>> /\ ~IoHas' /\ ~Ahead' /\ ~CompletionHas'
      /\ MainHas' => main'.pc \in {"gate", "suspended"}
  BY <1>4 DEF HeldQuiet, IoHas, Ahead, CompletionHas, MainHas, MainEarly
<1> QED BY <1>7, <1>8 DEF HeldQuiet, Accepted

\* The main thread lets no IRP pass while the queue is held.
LEMMA HeldMain ==
    ASSUME ShapeInv, PipeInv, HoldInv, MainThread
    PROVE  HeldQuiet'
<1>1. /\ main \in MainStates /\ IrpTypes /\ MainThreadQueue \in Seq(Irps)
      /\ event \in [Events -> BOOLEAN] /\ Suspended \in BOOLEAN
  BY DEF ShapeInv, ThreadTypes, QueueTypes
<1>2. UNCHANGED <<CompletionThreadQueue, io, completion, holder>>
  BY MainFrames DEF MainFrame
<1>3. SUFFICES ASSUME Held' PROVE HeldQuiet'
  BY DEF HeldQuiet
<1>4. /\ Held /\ Suspended /\ ~event["resumed"] /\ HeldQuiet
  BY <1>1, <1>2, <1>3 DEF HoldInv, NotResumed, Held, Suspending
<1>5. main.pc \in {"wait", "dequeue", "gate", "suspended", "signalIo", "signalIdle", "releaseItem", "exited"}
      /\ (main.pc = "signalIo" => main.req.last)
  BY <1>1, <1>4 DEF HeldQuiet, MainHas, MainEarly, MainStates, MainPcs
<1>6. MainWait \/ MainDequeue \/ MainGate \/ MainSignalIdle \/ MainReleaseItem \/ MainSignalIo
  <2>1. ~(MainGetItem \/ MainWaitPool \/ MainComplete \/ MainNextFragment \/ MainGetRequest
          \/ MainAcquireBuffer \/ MainEnqueue)
    BY <1>5 DEF MainGetItem, MainWaitPool, MainComplete, MainNextFragment, MainGetRequest,
         MainAcquireBuffer, MainEnqueue
  <2>2. ~(MainRefuse \/ MainReadMisaligned \/ MainBeginFragments)
    BY <1>5 DEF MainRefuse, MainReadMisaligned, MainBeginFragments
  <2>3. ~MainWaitResumed
    BY <1>4 DEF MainWaitResumed, Wait
  <2> QED BY <2>1, <2>2, <2>3 DEF MainThread
<1>7. UNCHANGED <<irp, IoThreadQueue>>
  BY <1>6 DEF MainWait, MainDequeue, MainGate, MainSignalIdle, MainReleaseItem, MainSignalIo
<1>8. /\ IoThreadQueue' = <<>> /\ CompletionThreadQueue' = <<>> /\ ~IoHas' /\ ~Ahead' /\ ~CompletionHas'
  BY <1>2, <1>4, <1>7 DEF HeldQuiet, IoHas, Ahead, CompletionHas
<1>9. /\ MainHas' => main'.pc \in {"gate", "suspended"}
      /\ \A i \in Irps : Queued(i) \/ AtGate(i) => Queued(i)' \/ AtGate(i)'
  <2>1. CASE MainWait \/ MainSignalIdle \/ MainReleaseItem
    <3>1. /\ main'.pc \in {"dequeue", "releaseItem"} /\ UNCHANGED MainThreadQueue
          /\ main.pc \in {"wait", "signalIdle", "releaseItem"}
      BY <1>1, <2>1 DEF MainWait, MainSignalIdle, MainReleaseItem, MainGoTo, MainDone, IdleMain, MainStates
    <3> QED BY <3>1 DEF MainHas, MainEarly, Queued, AtGate
  <2>2. CASE MainSignalIo
    <3>1. main'.pc = "dequeue" /\ UNCHANGED MainThreadQueue /\ main.pc = "signalIo"
      BY <1>5, <2>2 DEF MainSignalIo, MainDone, IdleMain
    <3> QED BY <3>1 DEF MainHas, MainEarly, Queued, AtGate
  <2>3. CASE MainGate
    <3>1. main.pc = "gate" /\ main' = [main EXCEPT !.pc = "suspended"] /\ UNCHANGED MainThreadQueue
      BY <1>4, <2>3 DEF MainGate, MainGoTo
    <3>2. main'.pc = "suspended" /\ main'.irp = main.irp
      BY <1>1, <3>1 DEF MainStates
    <3> QED BY <3>1, <3>2 DEF MainHas, MainEarly, Queued, AtGate
  <2>4. CASE MainDequeue /\ MainThreadQueue = <<>>
    <3>1. main.pc = "dequeue" /\ main'.pc \in {"exited", "wait"} /\ UNCHANGED MainThreadQueue
      BY <1>1, <2>4 DEF MainDequeue, MainGoTo, MainStates
    <3> QED BY <3>1 DEF MainHas, MainEarly, Queued, AtGate
  <2>5. CASE MainDequeue /\ MainThreadQueue # <<>>
    <3>1. /\ main.pc = "dequeue" /\ MainThreadQueue' = Tail(MainThreadQueue)
          /\ main' = [main EXCEPT !.pc = "gate", !.irp = Head(MainThreadQueue)]
      BY <2>5 DEF MainDequeue
    <3>2. main'.pc = "gate" /\ main'.irp = MainThreadQueue[1]
      BY <1>1, <2>5, <3>1, TailFacts DEF MainStates
    <3>3. /\ DOMAIN MainThreadQueue = 1 .. Len(MainThreadQueue) /\ Len(MainThreadQueue) \in Nat
          /\ DOMAIN MainThreadQueue' = 1 .. Len(MainThreadQueue) - 1
          /\ \A n \in DOMAIN MainThreadQueue' : MainThreadQueue'[n] = MainThreadQueue[n + 1]
      BY <1>1, <2>5, <3>1, TailFacts
    <3>4. ASSUME NEW n \in DOMAIN MainThreadQueue, n # 1
          PROVE  \E m \in DOMAIN MainThreadQueue' : MainThreadQueue'[m] = MainThreadQueue[n]
      <4>1. n - 1 \in DOMAIN MainThreadQueue' /\ (n - 1) + 1 = n
        BY <3>3, <3>4
      <4> QED BY <3>3, <4>1
    <3>5. \A i \in Irps : Queued(i) => Queued(i)' \/ AtGate(i)'
      BY <3>2, <3>4 DEF Queued, AtGate
    <3> QED BY <3>1, <3>2, <3>5 DEF MainHas, AtGate
  <2> QED BY <1>6, <2>1, <2>2, <2>3, <2>4, <2>5
<1> QED BY <1>4, <1>7, <1>8, <1>9 DEF HeldQuiet, Accepted

\* The I/O thread of a quiet queue has nothing to do.
LEMMA HeldIo ==
    ASSUME ShapeInv, HeldQuiet, IoThread
    PROVE  HeldQuiet'
<1>1. io \in [pc : IoPcs, req : Fragments] /\ IrpTypes
  BY DEF ShapeInv, ThreadTypes
<1>2. UNCHANGED <<MainThreadQueue, main, completion, holder>>
  BY IoTypes DEF IoFrame
<1>3. SUFFICES ASSUME Held' PROVE HeldQuiet'
  BY DEF HeldQuiet
<1>4. Held /\ IoThreadQueue = <<>> /\ ~IoHas /\ ~Ahead
  BY <1>2, <1>3 DEF Held, HeldQuiet
<1>5. io.pc \in {"wait", "dequeue", "exited", "signal", "aheadIdle", "signalIdle", "releaseItem", "releaseRequest"}
  BY <1>1, <1>4 DEF IoHas, Ahead, IoPcs
<1>6. IoWait \/ IoDequeue \/ IoSignalCompletion \/ IoSignalIdle \/ IoReleaseItem \/ IoReleaseRequest
  <2>1. ~(IoWrite \/ IoRead \/ IoReadAhead)
    BY <1>5, AccessFrame
  <2>2. ~(IoSkip \/ IoAfterWrite \/ IoAfterRead \/ IoHandOver \/ IoReadAheadDone \/ IoComplete)
    BY <1>5 DEF IoSkip, IoAfterWrite, IoAfterRead, IoHandOver, IoReadAheadDone, IoComplete
  <2> QED BY <2>1, <2>2 DEF IoThread
<1>7. UNCHANGED <<irp, CompletionThreadQueue, IoThreadQueue>>
  BY <1>4, <1>6 DEF IoWait, IoDequeue, IoSignalCompletion, IoSignalIdle, IoReleaseItem, IoReleaseRequest
<1>8. io'.pc \in {"wait", "dequeue", "exited", "releaseItem", "releaseRequest"}
  <2> USE DEF IoGoTo, IoDone
  <2>1. CASE IoWait \/ IoDequeue
    BY <1>1, <1>4, <2>1 DEF IoWait, IoDequeue
  <2>2. CASE IoSignalCompletion
    BY <1>1, <1>5, <2>2 DEF IoSignalCompletion
  <2>3. CASE IoSignalIdle
    BY <1>1, <2>3 DEF IoSignalIdle
  <2>4. CASE IoReleaseItem \/ IoReleaseRequest
    BY <1>1, <2>4 DEF IoReleaseItem, IoReleaseRequest
  <2> QED BY <1>6, <2>1, <2>2, <2>3, <2>4
<1>9. ~IoHas' /\ ~Ahead'
  BY <1>8 DEF IoHas, Ahead
<1> QED BY <1>2, <1>4, <1>7, <1>9 DEF HeldQuiet, CompletionHas, MainHas, MainEarly, Accepted, Queued, AtGate

\* Nor has its completion thread.
LEMMA HeldCompletion ==
    ASSUME ShapeInv, HeldQuiet, CompletionThread
    PROVE  HeldQuiet'
<1>1. completion \in [pc : CompletionPcs, req : Fragments]
  BY DEF ShapeInv, ThreadTypes
<1>2. UNCHANGED <<MainThreadQueue, IoThreadQueue, main, io, holder>>
  BY CompletionTypes DEF CompletionFrame
<1>3. SUFFICES ASSUME Held' PROVE HeldQuiet'
  BY DEF HeldQuiet
<1>4. Held /\ CompletionThreadQueue = <<>> /\ ~CompletionHas
  BY <1>2, <1>3 DEF Held, HeldQuiet
<1>5. completion.pc \notin {"decrypt", "complete"}
  BY <1>4 DEF CompletionHas
<1>6. /\ UNCHANGED <<irp, CompletionThreadQueue>>
      /\ completion'.pc \in {"wait", "dequeue", "exited", "releaseItem", "releaseRequest"}
  <2> USE DEF CompletionGoTo
  <2>1. ~CompletionDecrypt /\ ~CompletionComplete
    BY <1>5 DEF CompletionDecrypt, CompletionComplete
  <2>2. CASE CompletionWait \/ CompletionSignalIdle \/ CompletionReleaseItem \/ CompletionReleaseRequest
    BY <1>1, <2>2 DEF CompletionWait, CompletionSignalIdle, CompletionReleaseItem, CompletionReleaseRequest
  <2>3. CASE CompletionDequeue
    BY <1>1, <1>4, <2>3 DEF CompletionDequeue
  <2> QED BY <2>1, <2>2, <2>3 DEF CompletionThread
<1>7. ~CompletionHas'
  BY <1>6 DEF CompletionHas
<1> QED BY <1>2, <1>4, <1>6, <1>7 DEF HeldQuiet, IoHas, Ahead, MainHas, MainEarly, Accepted, Queued, AtGate

\* When the count is zero after Suspended was set, nothing is on its way.
LEMMA ZeroMeansQuiet ==
    ASSUME ShapeInv, PipeInv, OutstandingCounted, OutstandingIoCount = 0
    PROVE  /\ IoThreadQueue = <<>> /\ CompletionThreadQueue = <<>>
           /\ ~IoHas /\ ~Ahead /\ ~CompletionHas /\ ~MainHas
           /\ \A i \in Irps : ~(Accepted(i) /\ irp[i].done = 0)
<1>1. Cardinality(OutstandingIrps) \in Nat /\ IsFiniteSet(OutstandingIrps)
  BY CountedSets DEF ShapeInv
<1>2. Cardinality(OutstandingIrps) = 0 /\ ~Ahead
  BY <1>1 DEF OutstandingCounted, One
<1>3. OutstandingIrps = {}
  BY <1>1, <1>2, FS_EmptySet
<1>4. \A i \in Irps : ~(Accepted(i) /\ irp[i].done = 0)
  BY <1>3 DEF OutstandingIrps, Accepted
<1>5. \A i : ~Live(i)
  BY <1>4 DEF Live
<1>6. /\ \A n \in DOMAIN IoThreadQueue : FALSE
      /\ \A n \in DOMAIN CompletionThreadQueue : FALSE
      /\ ~IoHas /\ ~CompletionHas /\ ~MainHas
  BY <1>5 DEF PipeInv, Waiting, MainOwns, Stages, Flowing
<1>7. IoThreadQueue \in Seq(Fragments) /\ CompletionThreadQueue \in Seq(Fragments)
  BY DEF ShapeInv, QueueTypes
<1>8. DOMAIN IoThreadQueue = {} /\ DOMAIN CompletionThreadQueue = {}
  BY <1>6
<1>9. IoThreadQueue = <<>> /\ CompletionThreadQueue = <<>>
  BY <1>7, <1>8, EmptyFacts
<1> QED BY <1>2, <1>4, <1>6, <1>9

\* EncryptedIoQueueHoldWhenIdle returns only if the count was zero after Suspended was
\* set, and the resume event of an earlier hold is reset by then.
LEMMA HeldHolder ==
    ASSUME ShapeInv, PipeInv, HoldInv, OutstandingCounted, HoldWhenIdle \/ HolderStep
    PROVE  HoldInv'
<1>1. /\ event \in [Events -> BOOLEAN] /\ "resumed" \in Events /\ Suspended \in BOOLEAN
      /\ holder \in [pc : HolderPcs, holds : Nat]
  BY DEF ShapeInv, QueueTypes, ThreadTypes, Events
<1>2. OtherFrame
  BY HolderTypes
<1>3. (Suspended <=> Suspending) /\ NotResumed /\ HeldQuiet
  BY DEF HoldInv
<1> USE DEF HolderGoTo, Suspending, Held
<1>4. CASE HoldConfirm /\ OutstandingIoCount = 0
  <2>1. holder.pc = "confirm" /\ holder'.pc = "suspended" /\ UNCHANGED <<event, Suspended>>
    BY <1>1, <1>4 DEF HoldConfirm
  <2>2. HeldQuiet
    BY <1>3
  <2>3. /\ IoThreadQueue = <<>> /\ CompletionThreadQueue = <<>>
        /\ ~IoHas /\ ~Ahead /\ ~CompletionHas /\ ~MainHas
        /\ \A i \in Irps : ~(Accepted(i) /\ irp[i].done = 0)
    BY <1>4, ZeroMeansQuiet
  <2>4. HeldQuiet'
    BY <1>2, <2>3 DEF HeldQuiet, OtherFrame, queueVars, IoHas, Ahead, CompletionHas, MainHas,
         MainEarly, Accepted
  <2> QED BY <1>3, <2>1, <2>4 DEF HoldInv, NotResumed
<1>5. CASE ~(HoldConfirm /\ OutstandingIoCount = 0)
  <2>1. (Held' => Held) /\ (Suspended' <=> Suspending') /\ NotResumed'
    <3> USE DEF NotResumed
    <3>1. CASE HoldWhenIdle
      BY <1>1, <1>3, <3>1 DEF HoldWhenIdle
    <3>2. CASE HoldCheckIdle \/ HoldFails \/ HoldRecheck \/ HoldReturns
      BY <1>1, <1>3, <3>2 DEF HoldCheckIdle, HoldFails, HoldRecheck, HoldReturns
    <3>3. CASE HoldConfirm
      BY <1>1, <1>3, <1>5, <3>3 DEF HoldConfirm
    <3>4. CASE SetupEncryptsBlock \/ SetupDecryptsBlock \/ SetupMovesEnd
      BY <1>1, <1>3, <3>4 DEF SetupEncryptsBlock, SetupDecryptsBlock, SetupMovesEnd
    <3>5. CASE HoldSuspend
      BY <1>1, <1>3, <3>5 DEF HoldSuspend
    <3>6. CASE HoldWait \/ HoldBackOut \/ ResumeSignals
      BY <1>1, <1>3, <3>6 DEF HoldWait, Wait, HoldBackOut, ResumeSignals, Set
    <3>7. CASE ResumeFromHold
      BY <1>1, <1>3, <3>7 DEF ResumeFromHold
    <3> QED BY <3>1, <3>2, <3>3, <3>4, <3>5, <3>6, <3>7 DEF HolderStep
  <2>2. HeldQuiet'
    BY <1>2, <1>3, <2>1, HeldSame
  <2> QED BY <2>1, <2>2 DEF HoldInv
<1> QED BY <1>4, <1>5

\* Every step keeps the queue quiet while it is held.
LEMMA HoldStep ==
    ASSUME ShapeInv, PipeInv, CountInv, HoldInv, [Next]_vars
    PROVE  HoldInv'
<1>1. OutstandingCounted /\ HeldQuiet
  BY DEF CountInv, HoldInv
<1>2. ASSUME UNCHANGED <<Suspended, holder>>, Unwoken, HeldQuiet'
      PROVE  HoldInv'
  BY <1>2 DEF HoldInv, NotResumed, Suspending, Unwoken
<1>3. CASE UNCHANGED vars
  <2>1. OtherFrame /\ UNCHANGED <<event, Suspended, holder>> /\ (Held' => Held)
    BY <1>3 DEF vars, thrVars, flagVars, OtherFrame, Held
  <2>2. HeldQuiet' /\ Unwoken
    BY <1>1, <2>1, HeldSame DEF Unwoken
  <2> QED BY <1>2, <2>1, <2>2
<1>4. CASE Dispatching
  <2>1. DispatchFrame
    BY <1>4, DispatchTypes DEF Dispatching, Arrival
  <2>2. UNCHANGED <<Suspended, holder>>
    BY <2>1 DEF DispatchFrame, flagVars, thrVars
  <2> QED BY <1>1, <1>2, <1>4, <2>2, HeldDispatch, DispatchUnwoken
<1>5. CASE MainThread
  <2>1. UNCHANGED <<Suspended, holder>>
    BY <1>5, MainFrames DEF MainFrame, flagVars
  <2> QED BY <1>2, <1>5, <2>1, HeldMain, MainUnwoken
<1>6. CASE IoThread
  <2>1. UNCHANGED <<Suspended, holder>>
    BY <1>6, IoTypes DEF IoFrame, flagVars
  <2> QED BY <1>1, <1>2, <1>6, <2>1, HeldIo, IoUnwoken
<1>7. CASE CompletionThread
  <2>1. UNCHANGED <<Suspended, holder>>
    BY <1>7, CompletionTypes DEF CompletionFrame, flagVars
  <2> QED BY <1>1, <1>2, <1>7, <2>1, HeldCompletion, CompletionUnwoken
<1>8. CASE HoldWhenIdle \/ HolderStep
  BY <1>1, <1>8, HeldHolder
<1>9. CASE RemoveDevice \/ StopperStep
  <2>1. OtherFrame /\ UNCHANGED <<Suspended, holder>>
    BY <1>9, StopperTypes
  <2>2. Held' => Held
    BY <2>1 DEF Held
  <2> QED BY <1>1, <1>2, <1>9, <2>1, <2>2, HeldSame, StopperUnwoken
<1> QED BY <1>3, <1>4, <1>5, <1>6, <1>7, <1>8, <1>9 DEF Next, Dispatching

-----------------------------------------------------------------------------
(***************************************************************************)
(* The invariant.                                                          *)
(***************************************************************************)
LEMMA QueueInit == Init => QueueInv
<1> SUFFICES ASSUME Init PROVE QueueInv
  OBVIOUS
<1>1. /\ \A i \in Irps : irp[i] = [disp |-> "new", req |-> NoRequest, done |-> 0,
                                  status |-> "pending", data |-> <<>>]
      /\ DOMAIN irp = Irps
  BY DEF Init
<1>2. IrpTypes
  BY <1>1 DEF IrpTypes, IrpFields, Dispositions, Statuses
<1>3. QueueTypes
  <2>1. event \in [Events -> BOOLEAN]
    BY DEF Init, Events
  <2>2. removeLock \in [held : SUBSET Irps, removing : BOOLEAN]
    BY DEF Init
  <2> QED BY <2>1, <2>2 DEF Init, QueueTypes
<1>4. main \in MainStates /\ main.pc = "wait"
  <2>1. main = IdleMain("A", "wait") /\ "wait" \in MainPcs
    BY DEF Init, MainPcs
  <2> QED BY <2>1, NoFragmentType DEF IdleMain
<1>5. /\ io \in [pc : IoPcs, req : Fragments] /\ io.pc = "wait"
      /\ completion \in [pc : CompletionPcs, req : Fragments] /\ completion.pc = "wait"
  BY NoFragmentType DEF Init, IoPcs, CompletionPcs
<1>6. holder \in [pc : HolderPcs, holds : Nat] /\ holder.pc = "idle" /\ stopper = "idle"
  BY DEF Init, HolderPcs
<1>7. ShapeInv
  <2>1. ThreadTypes
    BY <1>4, <1>5, <1>6 DEF Init, ThreadTypes, StopperPcs
  <2> QED BY <1>2, <1>3, <1>4, <2>1 DEF ShapeInv, FragmentMade, MainMakes
<1>8. /\ MainThreadQueue = <<>> /\ IoThreadQueue = <<>> /\ CompletionThreadQueue = <<>>
      /\ DOMAIN MainThreadQueue = {} /\ DOMAIN IoThreadQueue = {} /\ DOMAIN CompletionThreadQueue = {}
      /\ Len(IoThreadQueue) = 0 /\ Len(CompletionThreadQueue) = 0
  BY DEF Init
<1>9. ~MainHas /\ ~IoHas /\ ~CompletionHas /\ ~MainEnds /\ ~IoEnds /\ ~CompletionEnds /\ ~Ahead
  BY <1>4, <1>5 DEF MainHas, MainEarly, IoHas, CompletionHas, MainEnds, IoEnds, CompletionEnds, Ahead
<1>10. PipeInv
  <2>1. Waiting /\ Stages /\ Order
    BY <1>8, <1>9 DEF Waiting, QueuedLive, QueuedOnce, MainOwns, Stages, Order
  <2>2. Completers /\ Endings
    BY <1>5, <1>8, <1>9 DEF Completers, Endings
  <2>3. Locks
    BY <1>1 DEF Init, Locks, Accepted
  <2> QED BY <2>1, <2>2, <2>3 DEF PipeInv
<1>11. CountInv
  <2>1. ItemHolders = {} /\ OutstandingIrps = {}
    BY <1>1 DEF Init, ItemHolders, OutstandingIrps
  <2>2. Cardinality(ItemHolders) = 0 /\ Cardinality(OutstandingIrps) = 0
    BY <2>1, FS_EmptySet
  <2>3. ~MainRequest /\ ~MainPending /\ ~IoRequest /\ ~CompletionRequest
    BY <1>4, <1>5, <1>9 DEF MainRequest, MainPending, IoRequest, CompletionRequest
  <2>4. /\ freeItems = ItemCount /\ freeRequests = RequestCount /\ OutstandingIoCount = 0
        /\ IoThreadPendingRequestCount = 0 /\ ItemCount \in Nat /\ RequestCount \in Nat
    BY QueueAssumption DEF Init, QueueAssumption
  <2> QED BY <1>8, <1>9, <2>2, <2>3, <2>4 DEF CountInv, RequestsCounted, PendingCounted,
         ItemsCounted, OutstandingCounted, One
<1>12. HoldInv /\ StopInv
  BY <1>6 DEF Init, HoldInv, NotResumed, HeldQuiet, Suspending, Held, StopInv
<1> QED BY <1>7, <1>10, <1>11, <1>12 DEF QueueInv

\* The invariant is inductive.
LEMMA QueueStep == QueueInv /\ [Next]_vars => QueueInv'
<1> SUFFICES ASSUME QueueInv, [Next]_vars PROVE QueueInv'
  OBVIOUS
<1>1. ShapeInv /\ PipeInv /\ CountInv /\ HoldInv /\ StopInv
  BY DEF QueueInv
<1>2. OutstandingIoCount \in Int
  <2>1. Cardinality(OutstandingIrps) \in Nat /\ One(Ahead) \in Nat
    BY <1>1, CountedSets DEF ShapeInv, One
  <2> QED BY <1>1, <2>1 DEF CountInv, OutstandingCounted
<1> QED BY <1>1, <1>2, ShapeAndPipe, CountStep, HoldStep, StopStep DEF QueueInv

\* The inductive invariant of the queue: the control state of EncryptedIoQueue.c is
\* well formed, fragments pass its stages in order, the pools and counters are exact,
\* a confirmed hold finds nothing on its way, and a stopped queue takes nothing in.
THEOREM QueueInvariant == Spec => []QueueInv
<1>1. Init => QueueInv
  BY QueueInit
<1>2. QueueInv /\ [Next]_vars => QueueInv'
  BY QueueStep
<1> QED BY <1>1, <1>2, PTL DEF Spec

-----------------------------------------------------------------------------
(***************************************************************************)
(* What it means for the users of the queue.                               *)
(***************************************************************************)
LEMMA InvCounts == QueueInv => OutstandingCountExact
  BY DEF QueueInv, CountInv, OutstandingCounted, OutstandingIrps, Ahead, One, OutstandingCountExact

\* A stopped queue has nothing left, since its threads are joined only when nothing was
\* outstanding.
LEMMA InvStopped == QueueInv => StoppedClean
<1> SUFFICES ASSUME QueueInv, stopper = "freeBuffers" PROVE StoppedClean
  BY DEF StoppedClean
<1>1. ShapeInv /\ PipeInv /\ CountInv /\ StopInv
  BY DEF QueueInv
<1>2. removeLock.held = {} /\ io.pc = "exited" /\ completion.pc = "exited"
  BY <1>1 DEF StopInv
<1>3. \A i : ~Live(i)
  BY <1>2 DEF Live
<1>4. /\ DOMAIN MainThreadQueue = {} /\ DOMAIN IoThreadQueue = {}
      /\ DOMAIN CompletionThreadQueue = {} /\ ~MainHas
  BY <1>1, <1>3 DEF PipeInv, Waiting, QueuedLive, MainOwns, Stages, Flowing
<1>5. /\ MainThreadQueue \in Seq(Irps)
      /\ IoThreadQueue \in Seq(Fragments) /\ CompletionThreadQueue \in Seq(Fragments)
  BY <1>1 DEF ShapeInv, QueueTypes
<1>6. MainThreadQueue = <<>> /\ IoThreadQueue = <<>> /\ CompletionThreadQueue = <<>>
  BY <1>4, <1>5, EmptyFacts
<1>7. freeItems = ItemCount
  <2>1. ItemHolders = {}
    BY <1>2 DEF ItemHolders
  <2>2. Cardinality(ItemHolders) = 0
    BY <2>1, FS_EmptySet
  <2> QED BY <1>1, <2>2 DEF CountInv, ItemsCounted
<1>8. freeRequests = RequestCount
  <2>1. ~MainRequest /\ ~IoRequest /\ ~CompletionRequest
    BY <1>2, <1>4 DEF MainRequest, MainHas, IoRequest, IoHas, IoEnds, CompletionRequest,
         CompletionHas, CompletionEnds
  <2>2. Len(IoThreadQueue) = 0 /\ Len(CompletionThreadQueue) = 0
    BY <1>6
  <2> QED BY <1>1, <2>1, <2>2 DEF CountInv, RequestsCounted, One
<1>9. ASSUME NEW i \in Irps, irp[i].disp \in {"locked", "inserted", "returned"}
      PROVE  irp[i].done = 1
  <2>1. i \notin removeLock.held
    BY <1>2
  <2>2. irp[i].disp \in {"inserted", "returned"} /\ irp[i].done # 0
    BY <1>1, <1>9, <2>1 DEF PipeInv, Locks, Accepted
  <2>3. irp[i].done \in {0, 1}
    BY <1>1 DEF ShapeInv, IrpTypes
  <2> QED BY <2>2, <2>3
<1> QED BY <1>6, <1>7, <1>8, <1>9 DEF StoppedClean

\* EncryptedIoQueueStop frees only what nobody uses: no pool buffer is taken, no queue
\* holds anything and every accepted IRP is completed; and OutstandingIoCount, which it
\* and EncryptedIoQueueHoldWhenIdle wait on, is exact all the time.
THEOREM QueueStopsClean == Spec => []StopIsClean
<1>1. QueueInv => StopIsClean
  BY InvCounts, InvStopped DEF StopIsClean
<1> QED BY <1>1, QueueInvariant, PTL

\* A held queue is quiet.
LEMMA InvHeld == QueueInv => HeldMeansQuiet
<1> SUFFICES ASSUME QueueInv, Held PROVE HeldMeansQuiet
  BY DEF HeldMeansQuiet
<1>1. HeldQuiet
  BY DEF QueueInv, HoldInv
<1>2. \A i \in Irps : ~Admitted(i)
  BY <1>1 DEF HeldQuiet, Admitted, Accepted
<1>3. io.pc \notin {"access", "accessed", "readAhead", "signalAhead", "handOverAhead"}
  BY <1>1 DEF HeldQuiet, IoHas, Ahead
<1> QED BY <1>1, <1>2, <1>3 DEF HeldQuiet, HeldMeansQuiet

\* From the confirmation of a hold to the resume the set-up thread of the drive filter
\* has the device to itself.
THEOREM HoldIsExclusive == Spec => []HeldMeansQuiet
  BY QueueInvariant, InvHeld, PTL

-----------------------------------------------------------------------------
(***************************************************************************)
(* The queue implements the gate.  An IRP is behind the gate if it is      *)
(* neither in the main queue nor at the gate; only the main thread moves   *)
(* it there, only while the queue is not held, and a thread completes only *)
(* what is behind the gate.                                                *)
(***************************************************************************)
Before(i) == Queued(i) \/ AtGate(i)
GateWaiting == {i \in Irps : Accepted(i) /\ irp[i].done = 0 /\ Before(i)}
GateAdmitted == {i \in Irps : Accepted(i) /\ irp[i].done = 0 /\ ~Before(i)}
GateFinished == {i \in Irps : irp[i].done > 0}
GateStep == [Gate!Next]_(Gate!gateVars)

\* The state of IoGate under the refinement mapping.
LEMMA GateState ==
    /\ GateWaiting = Gate!gateVars[1] /\ GateAdmitted = Gate!gateVars[2]
    /\ GateFinished = Gate!gateVars[3] /\ Held = Gate!gateVars[4]
    /\ GateWaiting' = Gate!gateVars'[1] /\ GateAdmitted' = Gate!gateVars'[2]
    /\ GateFinished' = Gate!gateVars'[3] /\ Held' = Gate!gateVars'[4]
  BY DEF GateWaiting, GateAdmitted, GateFinished, Admitted, Accepted, Before, Gate!gateVars

\* The steps of the gate, for the state of the queue.
LEMMA GateSteps ==
    /\ UNCHANGED <<GateWaiting, GateAdmitted, GateFinished, Held>> => GateStep
    /\ \A i \in Irps :
          /\ i \notin GateWaiting \cup GateAdmitted \cup GateFinished
          /\ GateWaiting' = GateWaiting \cup {i}
          /\ UNCHANGED <<GateAdmitted, GateFinished, Held>>
          => GateStep
    /\ \A i \in Irps :
          /\ i \in GateWaiting /\ ~Held /\ GateWaiting' = GateWaiting \ {i}
          /\ GateAdmitted' = GateAdmitted \cup {i} /\ UNCHANGED <<GateFinished, Held>>
          => GateStep
    /\ \A i \in Irps :
          /\ i \in GateAdmitted /\ GateAdmitted' = GateAdmitted \ {i}
          /\ GateFinished' = GateFinished \cup {i} /\ UNCHANGED <<GateWaiting, Held>>
          => GateStep
    /\ /\ ~Held /\ Held' /\ GateAdmitted = {}
       /\ UNCHANGED <<GateWaiting, GateAdmitted, GateFinished>>
       => GateStep
    /\ /\ Held /\ ~Held'
       /\ UNCHANGED <<GateWaiting, GateAdmitted, GateFinished>>
       => GateStep
<1> USE GateState DEF GateFinished, GateStep, Gate!Next, Gate!gateVars
<1>1. UNCHANGED <<GateWaiting, GateAdmitted, GateFinished, Held>> => GateStep
  OBVIOUS
<1>2. ASSUME NEW i \in Irps, i \notin GateWaiting \cup GateAdmitted \cup GateFinished,
             GateWaiting' = GateWaiting \cup {i},
             UNCHANGED <<GateAdmitted, GateFinished, Held>>
      PROVE  GateStep
  BY <1>2 DEF Gate!Arrive
<1>3. ASSUME NEW i \in Irps, i \in GateWaiting, ~Held, GateWaiting' = GateWaiting \ {i},
             GateAdmitted' = GateAdmitted \cup {i}, UNCHANGED <<GateFinished, Held>>
      PROVE  GateStep
  BY <1>3 DEF Gate!Admit
<1>4. ASSUME NEW i \in Irps, i \in GateAdmitted, GateAdmitted' = GateAdmitted \ {i},
             GateFinished' = GateFinished \cup {i}, UNCHANGED <<GateWaiting, Held>>
      PROVE  GateStep
  BY <1>4 DEF Gate!Finish
<1>5. ASSUME ~Held, Held', GateAdmitted = {}, UNCHANGED <<GateWaiting, GateAdmitted, GateFinished>>
      PROVE  GateStep
  BY <1>5 DEF Gate!Hold
<1>6. ASSUME Held, ~Held', UNCHANGED <<GateWaiting, GateAdmitted, GateFinished>>
      PROVE  GateStep
  BY <1>6 DEF Gate!Resume, Held
<1> QED BY <1>1, <1>2, <1>3, <1>4, <1>5, <1>6

\* A step that moves no IRP past the gate and neither accepts nor completes one.
SameBefore == \A i \in Irps : Before(i)' <=> Before(i)
SameIrps == \A i \in Irps : irp'[i].disp = irp[i].disp /\ irp'[i].done = irp[i].done

\* A step that moves no IRP through the gate is a stuttering step of it.
LEMMA GateStutters ==
    ASSUME SameBefore, SameIrps, UNCHANGED Held
    PROVE  GateStep
<1>1. GateWaiting' = GateWaiting /\ GateAdmitted' = GateAdmitted /\ GateFinished' = GateFinished
  BY DEF SameBefore, SameIrps, GateWaiting, GateAdmitted, GateFinished, Accepted
<1> QED BY <1>1, GateSteps

\* The holder moves only itself.
LEMMA GateHolder ==
    ASSUME QueueInv', OtherFrame
    PROVE  GateStep
<1>1. GateWaiting' = GateWaiting /\ GateAdmitted' = GateAdmitted /\ GateFinished' = GateFinished
  BY DEF OtherFrame, queueVars, GateWaiting, GateAdmitted, GateFinished, Accepted, Before, Queued, AtGate
<1>2. CASE Held' /\ ~Held
  <2>1. \A i \in Irps : Accepted(i)' /\ irp'[i].done = 0 => Before(i)'
    BY <1>2 DEF QueueInv, HoldInv, HeldQuiet, Before
  <2>2. GateAdmitted' = {}
    BY <2>1 DEF GateAdmitted
  <2> QED BY <1>1, <1>2, <2>2, GateSteps
<1>3. CASE ~Held' /\ Held
  BY <1>1, <1>3, GateSteps
<1>4. CASE Held' <=> Held
  <2>1. Held' = Held
    BY <1>4 DEF Held
  <2> QED BY <1>1, <2>1, GateSteps
<1> QED BY <1>2, <1>3, <1>4

\* A thread completes an IRP that is behind the gate.
LEMMA GateCompletes ==
    ASSUME NEW i \in Irps, CompleteStep(i), ~Before(i), SameBefore, UNCHANGED Held
    PROVE  GateStep
<1>1. /\ Accepted(i) /\ irp[i].done = 0 /\ irp'[i].done = 1
      /\ \A j \in Irps : j # i => irp'[j].disp = irp[j].disp /\ irp'[j].done = irp[j].done
  BY DEF CompleteStep, Live, Completed, OthersKept, Kept
<1>2. i \in GateAdmitted
  BY <1>1 DEF GateAdmitted
<1>3. GateAdmitted' = GateAdmitted \ {i} /\ GateFinished' = GateFinished \cup {i}
  BY <1>1 DEF SameBefore, GateAdmitted, GateFinished, Accepted
<1>4. GateWaiting' = GateWaiting
  BY <1>1 DEF SameBefore, GateWaiting, Accepted
<1> QED BY <1>2, <1>3, <1>4, GateSteps

\* The main thread lets an IRP through.
LEMMA GateAdmits ==
    ASSUME ShapeInv, PipeInv, ~Held, UNCHANGED <<holder, irp, MainThreadQueue>>,
           main.pc \in {"gate", "suspended"}, main'.pc = "getItem"
    PROVE  GateStep
<1>0. PICK i : i = main.irp
  OBVIOUS
<1>1. Live(i) /\ ~Queued(i) /\ AtGate(i)
  BY <1>0 DEF PipeInv, Waiting, MainOwns, MainHas, MainEarly, Queued, AtGate
<1>2. i \in Irps /\ Accepted(i) /\ irp[i].done = 0 /\ ~Before(i)' /\ Before(i)
  BY <1>1 DEF Live, Before, Queued, AtGate
<1>3. \A j \in Irps : j # i => (Before(j)' <=> Before(j))
  BY <1>0 DEF Before, Queued, AtGate
<1>4. i \in GateWaiting
  BY <1>2 DEF GateWaiting
<1>5. GateWaiting' = GateWaiting \ {i} /\ GateAdmitted' = GateAdmitted \cup {i}
  BY <1>2, <1>3 DEF GateWaiting, GateAdmitted, Accepted
<1>6. GateFinished' = GateFinished /\ Held' = Held
  BY DEF GateFinished, Held
<1> QED BY <1>2, <1>4, <1>5, <1>6, GateSteps

\* AddIrp queues an IRP before the gate, or is a stutter.
LEMMA GateDispatch ==
    ASSUME QueueInv, Dispatching
    PROVE  GateStep
<1>1. PICK i \in Irps : Dispatcher(i) \/ \E req \in Requests : AddIrp(i, req)
  BY DEF Arrival, Dispatching
<1>2. ShapeInv /\ Locks /\ DispatchFrame /\ DispatchStep(i) /\ MainThreadQueue \in Seq(Irps)
  BY <1>1, DispatchTypes, DispatchKind DEF QueueInv, PipeInv, ShapeInv, QueueTypes
<1>3. UNCHANGED <<main, holder>> /\ Held' = Held
  BY <1>2 DEF DispatchFrame, thrVars, Held
<1>4. /\ \A j \in Irps : j # i => irp'[j].disp = irp[j].disp /\ irp'[j].done = irp[j].done
      /\ irp'[i].done = irp[i].done
  BY <1>2 DEF DispatchStep, Disposed, OthersKept, Kept
<1>5. CASE AddIrpInsert(i)
  <2>1. irp[i].disp = "locked" /\ MainThreadQueue' = Append(MainThreadQueue, i) /\ irp[i].done = 0
    BY <1>2, <1>5 DEF AddIrpInsert, Locks, Accepted
  <2>2. irp'[i].disp = "inserted"
    BY <1>2, <2>1 DEF DispatchStep, Disposed
  <2>3. /\ \A n \in DOMAIN MainThreadQueue : n \in DOMAIN MainThreadQueue'
                                             /\ MainThreadQueue'[n] = MainThreadQueue[n]
        /\ \A n \in DOMAIN MainThreadQueue' : n \in DOMAIN MainThreadQueue \/ MainThreadQueue'[n] = i
        /\ \E n \in DOMAIN MainThreadQueue' : MainThreadQueue'[n] = i
    <3>1. /\ Len(MainThreadQueue) + 1 \in DOMAIN MainThreadQueue'
          /\ MainThreadQueue'[Len(MainThreadQueue) + 1] = i
      BY <1>2, <2>1
    <3> QED BY <1>2, <2>1, <3>1
  <2>4. Before(i)'
    BY <2>3 DEF Before, Queued
  <2>5. \A j \in Irps : j # i => (Before(j)' <=> Before(j))
    BY <1>3, <2>3 DEF Before, Queued, AtGate
  <2>6. GateWaiting' = GateWaiting \cup {i}
    BY <1>4, <2>1, <2>2, <2>4, <2>5 DEF GateWaiting, Accepted
  <2>7. GateAdmitted' = GateAdmitted
    BY <1>4, <2>1, <2>2, <2>4, <2>5 DEF GateAdmitted, Accepted
  <2>8. GateFinished' = GateFinished /\ i \notin GateWaiting \cup GateAdmitted \cup GateFinished
    BY <1>4, <2>1 DEF GateFinished, GateWaiting, GateAdmitted, Accepted
  <2> QED BY <1>3, <2>6, <2>7, <2>8, GateSteps
<1>6. CASE ~AddIrpInsert(i)
  <2>1. UNCHANGED MainThreadQueue /\ irp[i].disp # "locked"
    BY <1>1, <1>6 DEF Dispatcher, AddIrp, AddIrpCheck, AddIrpSignal, AddIrpErr, AddIrpErrSignal
  <2>2. \A j \in Irps : Before(j)' <=> Before(j)
    BY <1>3, <2>1 DEF Before, Queued, AtGate
  <2>3. irp'[i].disp \in {"inserted", "returned"} <=> irp[i].disp \in {"inserted", "returned"}
    BY <1>2, <2>1 DEF DispatchStep, Disposed
  <2>4. GateWaiting' = GateWaiting /\ GateAdmitted' = GateAdmitted /\ GateFinished' = GateFinished
    BY <1>4, <2>2, <2>3 DEF GateWaiting, GateAdmitted, GateFinished, Accepted
  <2> QED BY <1>3, <2>4, GateSteps
<1> QED BY <1>5, <1>6

\* The main thread admits an IRP while the gate is open, or completes one it has
\* admitted, or stutters.
LEMMA GateMain ==
    ASSUME QueueInv, MainThread
    PROVE  GateStep
<1>1. /\ ShapeInv /\ PipeInv /\ HoldInv /\ main \in MainStates /\ MainThreadQueue \in Seq(Irps)
      /\ Waiting /\ Suspended \in BOOLEAN /\ IrpTypes
  BY DEF QueueInv, ShapeInv, ThreadTypes, QueueTypes, PipeInv
<1>2. UNCHANGED holder /\ Held' = Held
  BY MainFrames DEF MainFrame, Held
<1>3. ~Suspended => ~Held
  BY <1>1 DEF HoldInv, Suspending, Held
<1>4. CASE MainGate /\ ~Suspended
  <2>1. UNCHANGED <<irp, MainThreadQueue>> /\ main.pc = "gate" /\ main'.pc = "getItem"
    BY <1>1, <1>4 DEF MainGate, MainGoTo, MainStates
  <2> QED BY <1>1, <1>2, <1>3, <1>4, <2>1, GateAdmits
<1>5. CASE MainWaitResumed
  <2>1. /\ UNCHANGED <<irp, MainThreadQueue>> /\ main.pc = "suspended" /\ main'.pc = "getItem"
        /\ event["resumed"]
    BY <1>1, <1>5 DEF MainWaitResumed, MainGoTo, Wait, MainStates
  <2>2. ~Held
    BY <1>1, <1>3, <2>1 DEF HoldInv, NotResumed
  <2> QED BY <1>1, <1>2, <2>1, <2>2, GateAdmits
<1>6. CASE MainComplete
  <2>1. /\ main.pc = "complete" /\ UNCHANGED MainThreadQueue
        /\ main'.pc \in {"signalIdle", "releaseItem"} /\ CompleteIrp(main.irp)
    BY <1>1, <1>6 DEF MainComplete, MainGoTo, AfterComplete, MainStates
  <2>2. /\ Live(main.irp) /\ main.irp \in Irps
        /\ \A n \in DOMAIN MainThreadQueue : MainThreadQueue[n] # main.irp
    BY <1>1, <2>1 DEF Waiting, MainOwns, MainHas, MainEarly, Live
  <2>3. Completed(main.irp)
    BY <1>1, <2>1, <2>2, CompleteEffect
  <2>4. CompleteStep(main.irp)
    <3>1. QuietStep => irp'[main.irp].done = irp[main.irp].done
      BY <2>2 DEF QuietStep, AllKept, Kept
    <3>2. EquipStep(main.irp) => irp'[main.irp].done = irp[main.irp].done
      BY DEF EquipStep, Equipped
    <3>3. ReleaseStep(main.irp) => irp'[main.irp].done = irp[main.irp].done
      BY DEF ReleaseStep
    <3>4. irp'[main.irp].done = irp[main.irp].done + 1 /\ irp[main.irp].done = 0
      BY <2>2, <2>3 DEF Completed, Live
    <3> QED BY <1>1, <3>1, <3>2, <3>3, <3>4, MainKind
  <2>5. SameBefore /\ ~Before(main.irp)
    BY <2>1, <2>2 DEF SameBefore, Before, Queued, AtGate
  <2> QED BY <1>2, <2>2, <2>4, <2>5, GateCompletes
<1>7. CASE MainDequeue /\ MainThreadQueue # <<>>
  <2>1. /\ main.pc = "dequeue" /\ MainThreadQueue' = Tail(MainThreadQueue) /\ UNCHANGED irp
        /\ main' = [main EXCEPT !.pc = "gate", !.irp = Head(MainThreadQueue)]
    BY <1>7 DEF MainDequeue
  <2>2. main'.pc = "gate" /\ main'.irp = MainThreadQueue[1] /\ 1 \in DOMAIN MainThreadQueue
    BY <1>1, <1>7, <2>1, TailFacts DEF MainStates
  <2>3. /\ DOMAIN MainThreadQueue = 1 .. Len(MainThreadQueue) /\ Len(MainThreadQueue) \in Nat
        /\ DOMAIN MainThreadQueue' = 1 .. Len(MainThreadQueue) - 1
        /\ \A n \in DOMAIN MainThreadQueue' : n + 1 \in DOMAIN MainThreadQueue
                                              /\ MainThreadQueue'[n] = MainThreadQueue[n + 1]
    BY <1>1, <1>7, <2>1, TailFacts
  <2>4. ASSUME NEW n \in DOMAIN MainThreadQueue, n # 1
        PROVE  \E m \in DOMAIN MainThreadQueue' : MainThreadQueue'[m] = MainThreadQueue[n]
    <3>1. n - 1 \in DOMAIN MainThreadQueue' /\ (n - 1) + 1 = n
      BY <2>3, <2>4
    <3> QED BY <2>3, <3>1
  <2>5. \A i \in Irps : Before(i) => Before(i)'
    BY <2>1, <2>2, <2>4 DEF Before, Queued, AtGate
  <2>6. \A i \in Irps : Before(i)' => Before(i)
    BY <2>2, <2>3 DEF Before, Queued, AtGate
  <2> QED BY <1>2, <2>1, <2>5, <2>6, GateStutters DEF SameBefore, SameIrps
<1>8. CASE MainGate /\ Suspended
  <2>1. main.pc = "gate" /\ main' = [main EXCEPT !.pc = "suspended"] /\ UNCHANGED <<irp, MainThreadQueue>>
    BY <1>8 DEF MainGate, MainGoTo
  <2>2. main'.pc = "suspended" /\ main'.irp = main.irp
    BY <1>1, <2>1 DEF MainStates
  <2>3. SameBefore
    BY <2>1, <2>2 DEF SameBefore, Before, Queued, AtGate
  <2> QED BY <1>2, <2>1, <2>3, GateStutters DEF SameIrps
<1>9. CASE ~(MainGate \/ MainWaitResumed \/ MainComplete \/ (MainDequeue /\ MainThreadQueue # <<>>))
  <2>1. UNCHANGED MainThreadQueue
    BY <1>9 DEF MainThread, MainWait, MainDequeue, MainGetItem, MainWaitPool, MainRefuse,
         MainReadMisaligned, MainBeginFragments, MainSignalIdle, MainReleaseItem, MainNextFragment,
         MainGetRequest, MainAcquireBuffer, MainEnqueue, MainSignalIo
  <2>2. main.pc \notin {"gate", "suspended"} /\ main'.pc \notin {"gate", "suspended"}
    <3> USE DEF MainGoTo
    <3>1. CASE MainWait \/ MainGetItem \/ MainWaitPool \/ MainSignalIdle
      BY <1>1, <3>1 DEF MainWait, MainGetItem, MainWaitPool, MainSignalIdle, MainStates
    <3>2. CASE MainDequeue /\ MainThreadQueue = <<>>
      BY <1>1, <3>2 DEF MainDequeue, MainStates
    <3>3. CASE MainRefuse \/ MainReadMisaligned
      <4>1. main.pc = "check" /\ MainGoTo("complete")
        BY <3>3 DEF MainRefuse, MainReadMisaligned
      <4> QED BY <1>1, <4>1 DEF MainStates
    <3>4. CASE MainBeginFragments
      BY <1>1, <3>4 DEF MainBeginFragments, MainStates
    <3>5. CASE MainReleaseItem
      BY <3>5 DEF MainReleaseItem, MainDone, IdleMain
    <3>6. CASE MainNextFragment \/ MainGetRequest
      <4>1. /\ main.pc \in {"fragment", "getRequest"}
            /\ main'.pc \in {"getRequest", "acquire", "waitRequest"}
        BY <1>1, <3>6 DEF MainNextFragment, MainGetRequest, MainStates
      <4> QED BY <4>1
    <3>7. CASE MainAcquireBuffer \/ MainEnqueue
      BY <1>1, <3>7 DEF MainAcquireBuffer, MainEnqueue, MainStates
    <3>8. CASE MainSignalIo
      <4>1. /\ main.pc = "signalIo"
            /\ \/ MainDone
               \/ main' = [main EXCEPT !.pc = "fragment", !.off = main.off + MaxFragment,
                             !.left = main.left - MaxFragment, !.pos = main.pos + MaxFragment]
        BY <3>8 DEF MainSignalIo
      <4>2. MainDone => main'.pc = "dequeue"
        BY DEF MainDone, IdleMain
      <4> QED BY <1>1, <4>1, <4>2 DEF MainStates
    <3> QED BY <1>9, <3>1, <3>2, <3>3, <3>4, <3>5, <3>6, <3>7, <3>8 DEF MainThread
  <2>3. SameBefore
    BY <2>1, <2>2 DEF SameBefore, Before, Queued, AtGate
  <2>4. SameIrps
    <3>1. CASE MainRefuse \/ MainReadMisaligned \/ MainBeginFragments
      <4>1. AllKept
        BY <1>1, <3>1, MainEffect
      <4> QED BY <4>1 DEF AllKept, Kept, SameIrps
    <3>2. CASE MainGetItem /\ freeItems > 0
      <4>1. main.pc = "getItem" /\ irp' = [irp EXCEPT ![main.irp].status = "ok"]
        BY <3>2 DEF MainGetItem
      <4>2. main.irp \in Irps
        BY <1>1, <4>1 DEF Waiting, MainOwns, MainHas, MainEarly, Live
      <4>3. Equipped(main.irp)
        BY <1>1, <4>1, <4>2, EquipEffect
      <4> QED BY <4>3 DEF Equipped, OthersKept, Kept, SameIrps
    <3>3. CASE ~(MainRefuse \/ MainReadMisaligned \/ MainBeginFragments \/ (MainGetItem /\ freeItems > 0))
      <4>1. UNCHANGED irp
        BY <1>9, <3>3 DEF MainThread, MainWait, MainDequeue, MainGetItem, MainWaitPool,
             MainSignalIdle, MainReleaseItem, MainNextFragment, MainGetRequest,
             MainAcquireBuffer, MainEnqueue, MainSignalIo
      <4> QED BY <4>1 DEF SameIrps
    <3> QED BY <3>1, <3>2, <3>3
  <2> QED BY <1>2, <2>3, <2>4, GateStutters, SMTT(60)
<1> QED BY <1>4, <1>5, <1>6, <1>7, <1>8, <1>9

\* The other two threads move no IRP past the gate; those they complete are behind it.
LEMMA GateOther ==
    ASSUME QueueInv, UNCHANGED <<main, MainThreadQueue, holder>>, NEW q,
           QuietStep \/ CompleteStep(q.irp) \/ ReleaseStep(q.irp),
           CompleteStep(q.irp) => Flowing(q)
    PROVE  GateStep
<1>1. SameBefore /\ Held' = Held
  BY DEF SameBefore, Before, Queued, AtGate, Held
<1>2. CASE QuietStep \/ ReleaseStep(q.irp)
  <2>1. SameIrps
    BY <1>2 DEF QuietStep, AllKept, Kept, ReleaseStep, SameIrps
  <2> QED BY <1>1, <2>1, GateStutters
<1>3. CASE CompleteStep(q.irp)
  <2>1. q.irp \in Irps /\ ~Before(q.irp)
    BY <1>3 DEF Flowing, Live, Before, Queued, AtGate, MainHas, MainEarly
  <2> QED BY <1>1, <1>3, <2>1, GateCompletes
<1> QED BY <1>2, <1>3

\* Every step of the queue is a step of the gate, or none.
LEMMA GateSimulation == QueueInv /\ QueueInv' /\ [Next]_vars => GateStep
<1> SUFFICES ASSUME QueueInv, QueueInv', [Next]_vars PROVE GateStep
  OBVIOUS
<1>1. ShapeInv /\ PipeInv /\ Stages
  BY DEF QueueInv, PipeInv
<1>2. OutstandingIoCount \in Int
  <2>1. Cardinality(OutstandingIrps) \in Nat /\ One(Ahead) \in Nat
    BY <1>1, CountedSets DEF ShapeInv, One
  <2> QED BY <2>1 DEF QueueInv, CountInv, OutstandingCounted
<1>3. CASE UNCHANGED vars
  <2>1. OtherFrame
    BY <1>3 DEF vars, thrVars, OtherFrame
  <2> QED BY <2>1, GateHolder
<1>4. CASE Dispatching
  BY <1>4, GateDispatch
<1>5. CASE MainThread
  BY <1>5, GateMain
<1>6. CASE IoThread
  <2>1. UNCHANGED <<main, MainThreadQueue, holder>>
    BY <1>1, <1>6, IoTypes DEF IoFrame
  <2>2. QuietStep \/ (IoHas /\ CompleteStep(io.req.irp)) \/ ReleaseStep(io.req.irp)
    BY <1>1, <1>2, <1>6, IoKind
  <2>3. IoHas => Flowing(io.req)
    BY <1>1 DEF Stages
  <2>4. CASE IoHas
    BY <2>1, <2>2, <2>3, <2>4, GateOther
  <2>5. CASE ~IoHas
    <3>1. SameIrps
      BY <2>2, <2>5 DEF QuietStep, AllKept, Kept, ReleaseStep, SameIrps
    <3>2. SameBefore /\ Held' = Held
      BY <2>1 DEF SameBefore, Before, Queued, AtGate, Held
    <3> QED BY <3>1, <3>2, GateStutters
  <2> QED BY <2>4, <2>5
<1>7. CASE CompletionThread
  <2>1. UNCHANGED <<main, MainThreadQueue, holder>>
    BY <1>1, <1>7, CompletionTypes DEF CompletionFrame
  <2>2. QuietStep \/ (CompletionHas /\ CompleteStep(completion.req.irp)) \/ ReleaseStep(completion.req.irp)
    BY <1>1, <1>7, CompletionKind
  <2>3. CompletionHas => Flowing(completion.req)
    BY <1>1 DEF Stages
  <2>4. CASE CompletionHas
    BY <2>1, <2>2, <2>3, <2>4, GateOther
  <2>5. CASE ~CompletionHas
    <3>1. SameIrps
      BY <2>2, <2>5 DEF QuietStep, AllKept, Kept, ReleaseStep, SameIrps
    <3>2. SameBefore /\ Held' = Held
      BY <2>1 DEF SameBefore, Before, Queued, AtGate, Held
    <3> QED BY <3>1, <3>2, GateStutters
  <2> QED BY <2>4, <2>5
<1>8. CASE HoldWhenIdle \/ HolderStep \/ RemoveDevice \/ StopperStep
  <2>1. OtherFrame
    BY <1>1, <1>8, HolderTypes, StopperTypes
  <2> QED BY <2>1, GateHolder
<1> QED BY <1>3, <1>4, <1>5, <1>6, <1>7, <1>8 DEF Next, Dispatching

\* EncryptedIoQueue.c keeps the promise of IoGate to the set-up thread: an IRP passes the
\* gate of the main thread only while the queue is not held, a hold begins only when
\* everything behind the gate is completed, and each IRP is admitted and finished once.
THEOREM QueueImplementsGate == Spec => ImplementsGate
<1>1. Init => Gate!Init
  <2> SUFFICES ASSUME Init PROVE Gate!Init
    OBVIOUS
  <2>1. \A i \in Irps : irp[i].disp = "new" /\ irp[i].done = 0
    BY DEF Init
  <2>2. Held = FALSE
    BY DEF Init, Held
  <2> QED BY <2>1, <2>2 DEF Gate!Init, Admitted
<1>2. QueueInv /\ QueueInv' /\ [Next]_vars => [Gate!Next]_(Gate!gateVars)
  BY GateSimulation DEF GateStep
<1> QED BY <1>1, <1>2, QueueInvariant, PTL DEF Spec, ImplementsGate, Gate!Spec

-----------------------------------------------------------------------------
(***************************************************************************)
(* The fragment buffers.  A buffer whose event is reset is with exactly    *)
(* one request: the one the main thread is about to queue, one in the      *)
(* queue of the I/O thread, or the one that thread is at.                  *)
(***************************************************************************)
Buffers == {"A", "B"}
MainUses == main.pc = "enqueue"
IoUses == io.pc \in {"access", "accessed"}
BuffersApart ==
    /\ \A m, n \in DOMAIN IoThreadQueue : IoThreadQueue[m].buf = IoThreadQueue[n].buf => m = n
    /\ MainUses => \A n \in DOMAIN IoThreadQueue : IoThreadQueue[n].buf # main.req.buf
    /\ IoUses => \A n \in DOMAIN IoThreadQueue : IoThreadQueue[n].buf # io.req.buf
    /\ MainUses /\ IoUses => main.req.buf # io.req.buf
InUse(b) ==
    \/ MainUses /\ main.req.buf = b
    \/ IoUses /\ io.req.buf = b
    \/ \E n \in DOMAIN IoThreadQueue : IoThreadQueue[n].buf = b
BuffersMarked == \A b \in Buffers : event[b] <=> ~InUse(b)
BufferInv == BuffersApart /\ BuffersMarked

SameBufferEvents == \A b \in Buffers : event'[b] <=> event[b]

\* The other events do not concern the buffers.
LEMMA OtherEvents ==
    ASSUME event \in [Events -> BOOLEAN]
    PROVE  /\ \A e \in Events \ Buffers : Set(e) => SameBufferEvents
           /\ \A e \in Events \ Buffers : Wait(e) => SameBufferEvents
           /\ SignalIfIdle => SameBufferEvents
           /\ UNCHANGED event => SameBufferEvents
  BY DEF Set, Wait, SignalIfIdle, SameBufferEvents, Buffers, Events

\* A step that neither acquires, hands on nor releases a buffer.
LEMMA BuffersKept ==
    ASSUME BufferInv, SameBufferEvents, UNCHANGED IoThreadQueue,
           MainUses' <=> MainUses, MainUses => main'.req = main.req,
           IoUses' <=> IoUses, IoUses => io'.req = io.req
    PROVE  BufferInv'
<1>1. BuffersApart'
  BY DEF BufferInv, BuffersApart
<1>2. \A b \in Buffers : InUse(b)' <=> InUse(b)
  BY DEF InUse
<1> QED BY <1>1, <1>2 DEF BufferInv, BuffersMarked, SameBufferEvents

\* AddIrp touches no buffer.
LEMMA BufferDispatch ==
    ASSUME ShapeInv, BufferInv, Dispatching
    PROVE  BufferInv'
<1>1. event \in [Events -> BOOLEAN] /\ "main" \in Events \ Buffers
  BY DEF ShapeInv, QueueTypes, Events, Buffers
<1>2. PICK i \in Irps : Dispatcher(i) \/ \E req \in Requests : AddIrp(i, req)
  BY DEF Arrival, Dispatching
<1>3. UNCHANGED event \/ Set("main") \/ SignalIfIdle
  BY <1>2 DEF Dispatcher, AddIrp, AddIrpCheck, AddIrpInsert, AddIrpSignal, AddIrpErr, AddIrpErrSignal
<1>4. SameBufferEvents
  BY <1>1, <1>3, OtherEvents
<1>5. UNCHANGED <<IoThreadQueue, main, io>>
  BY <1>2, DispatchTypes DEF DispatchFrame, thrVars
<1> QED BY <1>4, <1>5, BuffersKept DEF MainUses, IoUses

\* Nor do holding and removing.
LEMMA BufferOther ==
    ASSUME ShapeInv, BufferInv, HoldWhenIdle \/ HolderStep \/ RemoveDevice \/ StopperStep
    PROVE  BufferInv'
<1>1. /\ event \in [Events -> BOOLEAN]
      /\ {"main", "io", "completion", "resumed", "noOutstanding"} \subseteq Events \ Buffers
  BY DEF ShapeInv, QueueTypes, Events, Buffers
<1>2. UNCHANGED <<IoThreadQueue, main, io>>
  BY HolderTypes, StopperTypes DEF OtherFrame, queueVars
<1>3. SameBufferEvents
  <2>1. CASE RemoveDevice \/ StopperStep
    <3>1. \/ UNCHANGED event \/ Wait("noOutstanding")
          \/ \E e \in {"main", "io", "completion"} : Set(e)
      BY <2>1 DEF RemoveDevice, StopperStep, StopQueue, StopCheckIdle, StopWait, StopThreads, StopThread, Joined
    <3> QED BY <1>1, <3>1, OtherEvents
  <2>2. CASE HoldSuspend
    BY <1>1, <2>2 DEF HoldSuspend, SameBufferEvents, Buffers, Events
  <2>3. CASE HoldWhenIdle \/ (HolderStep /\ ~HoldSuspend)
    <3>1. UNCHANGED event \/ Wait("noOutstanding") \/ Set("resumed")
      BY <2>3 DEF HoldWhenIdle, HolderStep, HoldCheckIdle, HoldWait, HoldFails, HoldRecheck,
           HoldConfirm, HoldBackOut, HoldReturns, SetupEncryptsBlock, SetupDecryptsBlock,
           SetupMovesEnd, ResumeFromHold, ResumeSignals
    <3> QED BY <1>1, <3>1, OtherEvents
  <2> QED BY <2>1, <2>2, <2>3
<1> QED BY <1>2, <1>3, BuffersKept DEF MainUses, IoUses

\* Nor does the completion thread: its requests no longer use a fragment buffer.
LEMMA BufferCompletion ==
    ASSUME ShapeInv, BufferInv, CompletionThread
    PROVE  BufferInv'
<1>1. event \in [Events -> BOOLEAN] /\ {"completion", "poolFree"} \subseteq Events \ Buffers
  BY DEF ShapeInv, QueueTypes, Events, Buffers
<1>2. UNCHANGED event \/ SignalIfIdle \/ Wait("completion") \/ Set("poolFree")
  BY DEF CompletionThread, CompletionWait, CompletionDequeue, CompletionDecrypt,
         CompletionComplete, CompletionSignalIdle, CompletionReleaseItem, CompletionReleaseRequest,
         ReleaseItem, ReleaseRequest
<1>3. SameBufferEvents
  BY <1>1, <1>2, OtherEvents
<1>4. UNCHANGED <<IoThreadQueue, main, io>>
  BY CompletionTypes DEF CompletionFrame
<1> QED BY <1>3, <1>4, BuffersKept DEF MainUses, IoUses

\* The main thread waits for the event of the buffer before it fills it, and alternates
\* between the two.
LEMMA BufferMain ==
    ASSUME ShapeInv, BufferInv, MainThread
    PROVE  BufferInv'
<1>1. /\ event \in [Events -> BOOLEAN] /\ main \in MainStates /\ IoThreadQueue \in Seq(Fragments)
      /\ main.req \in Fragments
  BY DEF ShapeInv, QueueTypes, ThreadTypes, MainStates
<1>2. {"main", "resumed", "poolFree", "io"} \subseteq Events \ Buffers /\ Buffers \subseteq Events
  BY DEF Events, Buffers
<1>3. UNCHANGED io /\ (IoUses' <=> IoUses)
  BY MainFrames DEF MainFrame, IoUses
<1>4. CASE MainAcquireBuffer
  <2>1. PICK b \in Buffers : b = main.req.buf
    BY <1>1 DEF Fragments, Buffers
  <2>2. /\ main.pc = "acquire" /\ event[b] /\ event' = [event EXCEPT ![b] = FALSE]
        /\ main' = [main EXCEPT !.pc = "enqueue"] /\ UNCHANGED IoThreadQueue
    BY <1>4, <2>1 DEF MainAcquireBuffer, Wait, MainGoTo
  <2>3. /\ main'.pc = "enqueue" /\ main'.req = main.req /\ ~event'[b]
        /\ \A c \in Buffers : c # b => (event'[c] <=> event[c])
    BY <1>1, <1>2, <2>2 DEF MainStates
  <2>4. ~InUse(b)
    BY <2>2 DEF BufferInv, BuffersMarked
  <2>5. BuffersApart'
    BY <1>3, <2>1, <2>2, <2>3, <2>4 DEF BufferInv, BuffersApart, InUse, MainUses, IoUses
  <2>6. \A c \in Buffers : InUse(c)' <=> InUse(c) \/ c = b
    BY <1>3, <2>1, <2>2, <2>3 DEF InUse, MainUses, IoUses
  <2> QED BY <2>3, <2>5, <2>6 DEF BufferInv, BuffersMarked
<1>5. CASE MainEnqueue
  <2>1. /\ main.pc = "enqueue" /\ main'.pc = "signalIo" /\ UNCHANGED event
        /\ IoThreadQueue' = Append(IoThreadQueue, main.req)
    BY <1>1, <1>5 DEF MainEnqueue, MainGoTo, MainStates
  <2>2. /\ DOMAIN IoThreadQueue = 1 .. Len(IoThreadQueue) /\ Len(IoThreadQueue) \in Nat
        /\ DOMAIN IoThreadQueue' = 1 .. Len(IoThreadQueue) + 1
        /\ \A n \in DOMAIN IoThreadQueue' :
              IoThreadQueue'[n] = IF n = Len(IoThreadQueue) + 1 THEN main.req ELSE IoThreadQueue[n]
    BY <1>1, <2>1, AppendFacts, EmptyFacts
  <2>3. MainUses /\ ~MainUses'
    BY <2>1 DEF MainUses
  <2>4. BuffersApart'
    BY <1>3, <2>2, <2>3 DEF BufferInv, BuffersApart, IoUses
  <2>5. ASSUME NEW c \in Buffers PROVE InUse(c)' <=> InUse(c)
    <3>1. /\ \A n \in DOMAIN IoThreadQueue : n \in DOMAIN IoThreadQueue'
                                             /\ IoThreadQueue'[n] = IoThreadQueue[n]
          /\ Len(IoThreadQueue) + 1 \in DOMAIN IoThreadQueue'
          /\ IoThreadQueue'[Len(IoThreadQueue) + 1] = main.req
          /\ \A n \in DOMAIN IoThreadQueue' : n \in DOMAIN IoThreadQueue \/ n = Len(IoThreadQueue) + 1
      BY <2>2
    <3> QED BY <1>3, <2>3, <3>1 DEF InUse
  <2> QED BY <2>1, <2>4, <2>5 DEF BufferInv, BuffersMarked
<1>6. CASE ~MainAcquireBuffer /\ ~MainEnqueue
  <2>1. SameBufferEvents
    <3>1. \/ UNCHANGED event \/ SignalIfIdle
          \/ \E e \in {"main", "resumed", "poolFree"} : Wait(e)
          \/ \E e \in {"io", "poolFree"} : Set(e)
      <4>1. MainDequeue \/ MainGate \/ MainGetItem \/ MainBeginFragments \/ MainComplete
              => UNCHANGED event
        BY DEF MainDequeue, MainGate, MainGetItem, MainBeginFragments, MainComplete
      <4>2. MainRefuse \/ MainReadMisaligned \/ MainNextFragment \/ MainGetRequest => UNCHANGED event
        BY DEF MainRefuse, MainReadMisaligned, MainNextFragment, MainGetRequest
      <4>3. MainWait \/ MainWaitResumed \/ MainWaitPool =>
              \E e \in {"main", "resumed", "poolFree"} : Wait(e)
        BY DEF MainWait, MainWaitResumed, MainWaitPool
      <4>4. MainReleaseItem \/ MainSignalIo => \E e \in {"io", "poolFree"} : Set(e)
        BY DEF MainReleaseItem, ReleaseItem, MainSignalIo
      <4>5. MainSignalIdle => SignalIfIdle
        BY SMTT(60) DEF MainSignalIdle
      <4> QED BY <1>6, <4>1, <4>2, <4>3, <4>4, <4>5 DEF MainThread
    <3> QED BY <1>1, <1>2, <3>1, OtherEvents
  <2>2. UNCHANGED IoThreadQueue
    BY <1>6 DEF MainThread, MainWait, MainDequeue, MainGate, MainWaitResumed, MainGetItem,
         MainWaitPool, MainRefuse, MainReadMisaligned, MainBeginFragments, MainComplete,
         MainSignalIdle, MainReleaseItem, MainNextFragment, MainGetRequest, MainSignalIo
  <2>3. ~MainUses /\ ~MainUses'
    <3> USE DEF MainUses, MainGoTo
    <3>1. CASE MainWait \/ MainGate \/ MainWaitResumed \/ MainGetItem \/ MainWaitPool \/ MainSignalIdle
      BY <1>1, <3>1 DEF MainWait, MainGate, MainWaitResumed, MainGetItem, MainWaitPool,
           MainSignalIdle, MainStates
    <3>2. CASE MainDequeue \/ MainBeginFragments
      BY <1>1, <3>2 DEF MainDequeue, MainBeginFragments, MainStates
    <3>3. CASE MainRefuse \/ MainReadMisaligned \/ MainComplete
      <4>1. main.pc \in {"check", "complete"} /\ \E pc \in {"complete", "signalIdle", "releaseItem"} : MainGoTo(pc)
        BY <3>3 DEF MainRefuse, MainReadMisaligned, MainComplete, AfterComplete
      <4> QED BY <1>1, <4>1 DEF MainStates
    <3>4. CASE MainReleaseItem
      BY <3>4 DEF MainReleaseItem, MainDone, IdleMain
    <3>5. CASE MainNextFragment \/ MainGetRequest
      <4>1. /\ main.pc \in {"fragment", "getRequest"}
            /\ main'.pc \in {"getRequest", "acquire", "waitRequest"}
        BY <1>1, <3>5 DEF MainNextFragment, MainGetRequest, MainStates
      <4> QED BY <4>1
    <3>6. CASE MainSignalIo
      <4>1. /\ main.pc = "signalIo"
            /\ \/ MainDone
               \/ main' = [main EXCEPT !.pc = "fragment", !.off = main.off + MaxFragment,
                             !.left = main.left - MaxFragment, !.pos = main.pos + MaxFragment]
        BY <3>6 DEF MainSignalIo
      <4>2. MainDone => main'.pc = "dequeue"
        BY DEF MainDone, IdleMain
      <4> QED BY <1>1, <4>1, <4>2 DEF MainStates
    <3> QED BY <1>6, <3>1, <3>2, <3>3, <3>4, <3>5, <3>6 DEF MainThread
  <2> QED BY <1>3, <2>1, <2>2, <2>3, BuffersKept
<1> QED BY <1>4, <1>5, <1>6

\* The I/O thread sets the event of a buffer after its last use of it.
LEMMA BufferIo ==
    ASSUME ShapeInv, BufferInv, IoThread
    PROVE  BufferInv'
<1>1. /\ event \in [Events -> BOOLEAN] /\ io \in [pc : IoPcs, req : Fragments]
      /\ IoThreadQueue \in Seq(Fragments)
  BY DEF ShapeInv, QueueTypes, ThreadTypes
<1>2. {"completion", "poolFree", "io"} \subseteq Events \ Buffers /\ Buffers \subseteq Events
  BY DEF Events, Buffers
<1>3. UNCHANGED main /\ (MainUses' <=> MainUses)
  BY IoTypes DEF IoFrame, MainUses
<1>4. CASE IoSkip \/ IoWrite \/ IoRead
  <2>1. io.pc = "access" /\ IoGoTo("accessed")
    BY <1>4, AccessFrame DEF IoSkip
  <2>2. IoUses /\ IoUses' /\ io'.req = io.req
    BY <1>1, <2>1 DEF IoUses, IoGoTo
  <2>3. UNCHANGED event
    <3>1. ASSUME IoWrite PROVE UNCHANGED event
      BY <3>1, ZenonT(60) DEF IoWrite
    <3>2. IoSkip \/ IoRead => UNCHANGED event
      BY ZenonT(60) DEF IoSkip, IoRead
    <3> QED BY <1>4, <3>1, <3>2
  <2>4. UNCHANGED IoThreadQueue
    BY <1>1, <1>4, IoQuiet
  <2> QED BY <1>1, <1>3, <2>2, <2>3, <2>4, BuffersKept, OtherEvents
<1>5. CASE IoAfterWrite \/ IoAfterRead
  <2>1. PICK b \in Buffers : b = io.req.buf
    BY <1>1 DEF Fragments, Buffers
  <2>2. /\ io.pc = "accessed" /\ Set(b) /\ UNCHANGED IoThreadQueue
        /\ \E pc \in {"complete", "releaseRequest", "handOver", "handOverAhead"} : IoGoTo(pc)
    BY <1>5, <2>1 DEF IoAfterWrite, IoAfterRead, ReleaseFragmentBuffer
  <2>3. IoUses /\ ~IoUses'
    BY <1>1, <2>2 DEF IoUses, IoGoTo
  <2>4. event'[b] /\ \A c \in Buffers : c # b => (event'[c] <=> event[c])
    BY <1>1, <1>2, <2>2 DEF Set
  <2>5. BuffersApart'
    BY <1>3, <2>2, <2>3 DEF BufferInv, BuffersApart
  <2>6. \A c \in Buffers : InUse(c)' <=> InUse(c) /\ c # b
    BY <1>3, <2>1, <2>2, <2>3 DEF InUse, BufferInv, BuffersApart
  <2> QED BY <2>4, <2>5, <2>6 DEF BufferInv, BuffersMarked
<1>6. CASE IoDequeue /\ IoThreadQueue # <<>>
  <2>1. /\ io.pc = "dequeue" /\ io' = [pc |-> "access", req |-> Head(IoThreadQueue)]
        /\ IoThreadQueue' = Tail(IoThreadQueue) /\ UNCHANGED event
    BY <1>6 DEF IoDequeue
  <2>2. /\ DOMAIN IoThreadQueue = 1 .. Len(IoThreadQueue) /\ Len(IoThreadQueue) \in Nat
        /\ 1 \in DOMAIN IoThreadQueue /\ Head(IoThreadQueue) = IoThreadQueue[1]
        /\ DOMAIN IoThreadQueue' = 1 .. Len(IoThreadQueue) - 1
        /\ \A n \in DOMAIN IoThreadQueue' : n + 1 \in DOMAIN IoThreadQueue
                                            /\ IoThreadQueue'[n] = IoThreadQueue[n + 1]
    BY <1>1, <1>6, <2>1, TailFacts, EmptyFacts
  <2>3. ~IoUses /\ IoUses' /\ io'.req = IoThreadQueue[1]
    BY <2>1, <2>2 DEF IoUses
  <2>4. BuffersApart'
    <3>1. \A m, n \in DOMAIN IoThreadQueue' : IoThreadQueue'[m].buf = IoThreadQueue'[n].buf => m = n
      BY <2>2 DEF BufferInv, BuffersApart
    <3>2. \A n \in DOMAIN IoThreadQueue' : IoThreadQueue'[n].buf # io'.req.buf
      BY <2>2, <2>3 DEF BufferInv, BuffersApart
    <3>3. MainUses => /\ \A n \in DOMAIN IoThreadQueue' : IoThreadQueue'[n].buf # main.req.buf
                      /\ main.req.buf # io'.req.buf
      BY <2>2, <2>3 DEF BufferInv, BuffersApart
    <3> QED BY <1>3, <3>1, <3>2, <3>3 DEF BuffersApart
  <2>5. ASSUME NEW c \in Buffers PROVE InUse(c)' <=> InUse(c)
    <3>1. ASSUME NEW n \in DOMAIN IoThreadQueue, n # 1
          PROVE  \E m \in DOMAIN IoThreadQueue' : IoThreadQueue'[m] = IoThreadQueue[n]
      <4>1. n - 1 \in DOMAIN IoThreadQueue' /\ (n - 1) + 1 = n
        BY <2>2, <3>1
      <4> QED BY <2>2, <4>1
    <3>2. InUse(c) => InUse(c)'
      BY <1>3, <2>3, <3>1 DEF InUse
    <3>3. InUse(c)' => InUse(c)
      BY <1>3, <2>2, <2>3 DEF InUse
    <3> QED BY <3>2, <3>3
  <2> QED BY <2>1, <2>4, <2>5 DEF BufferInv, BuffersMarked
<1>7. CASE \/ IoWait \/ IoHandOver \/ IoSignalCompletion \/ IoReadAhead \/ IoReadAheadDone
           \/ IoComplete \/ IoSignalIdle \/ IoReleaseItem \/ IoReleaseRequest
           \/ (IoDequeue /\ IoThreadQueue = <<>>)
  <2>1. SameBufferEvents
    <3>1. \/ UNCHANGED event \/ SignalIfIdle \/ Wait("io")
          \/ \E e \in {"completion", "poolFree"} : Set(e)
      <4>1. IoDequeue \/ IoHandOver \/ IoReadAhead \/ IoReadAheadDone \/ IoComplete => UNCHANGED event
        BY DEF IoDequeue, IoHandOver, IoReadAhead, IoReadAheadDone, IoComplete
      <4>2. IoSignalCompletion \/ IoReleaseItem \/ IoReleaseRequest =>
              \E e \in {"completion", "poolFree"} : Set(e)
        BY DEF IoSignalCompletion, IoReleaseItem, ReleaseItem, IoReleaseRequest, ReleaseRequest
      <4>3. IoWait \/ IoSignalIdle => Wait("io") \/ SignalIfIdle
        BY DEF IoWait, IoSignalIdle
      <4> QED BY <1>7, <4>1, <4>2, <4>3
    <3> QED BY <1>1, <1>2, <3>1, OtherEvents
  <2>2. UNCHANGED IoThreadQueue
    <3>1. IoReadAhead => UNCHANGED IoThreadQueue
      BY <1>1, IoQuiet
    <3> QED BY <1>7, <3>1 DEF IoWait, IoHandOver, IoSignalCompletion, IoReadAheadDone, IoComplete,
         IoSignalIdle, IoReleaseItem, IoReleaseRequest, IoDequeue
  <2>3. ~IoUses /\ ~IoUses'
    <3> USE DEF IoUses, IoGoTo, IoDone
    <3>1. CASE IoReadAhead
      BY <1>1, <3>1, AccessFrame
    <3>2. CASE IoWait \/ IoHandOver \/ IoComplete \/ IoReleaseItem \/ IoReleaseRequest
      BY <1>1, <3>2 DEF IoWait, IoHandOver, IoComplete, AfterComplete, IoReleaseItem, IoReleaseRequest
    <3>3. CASE IoSignalCompletion
      BY <1>1, <3>3 DEF IoSignalCompletion
    <3>4. CASE IoReadAheadDone
      BY <1>1, <3>4 DEF IoReadAheadDone
    <3>5. CASE IoSignalIdle
      BY <1>1, <3>5 DEF IoSignalIdle
    <3>6. CASE IoDequeue /\ IoThreadQueue = <<>>
      BY <1>1, <3>6 DEF IoDequeue
    <3> QED BY <1>7, <3>1, <3>2, <3>3, <3>4, <3>5, <3>6
  <2> QED BY <1>3, <2>1, <2>2, <2>3, BuffersKept
<1> QED BY <1>4, <1>5, <1>6, <1>7 DEF IoThread

\* The invariant of the buffers is inductive.
LEMMA BufferStep == QueueInv /\ BufferInv /\ [Next]_vars => BufferInv'
<1> SUFFICES ASSUME QueueInv, BufferInv, [Next]_vars PROVE BufferInv'
  OBVIOUS
<1>1. ShapeInv /\ event \in [Events -> BOOLEAN]
  BY DEF QueueInv, ShapeInv, QueueTypes
<1>2. CASE UNCHANGED vars
  <2>1. UNCHANGED <<event, IoThreadQueue, main, io>>
    BY <1>2 DEF vars, queueVars, thrVars
  <2> QED BY <1>1, <2>1, OtherEvents, BuffersKept DEF MainUses, IoUses
<1> QED BY <1>1, <1>2, BufferDispatch, BufferMain, BufferIo, BufferCompletion, BufferOther
        DEF Next, Dispatching

\* A buffer whose event is reset has exactly one user.
LEMMA BuffersCounted ==
    ASSUME QueueInv, BufferInv
    PROVE  FragmentBuffersExclusive
<1> SUFFICES ASSUME NEW b \in Buffers
             PROVE  FragmentBufferUsers(b) = IF event[b] THEN 0 ELSE 1
  BY DEF FragmentBuffersExclusive, Buffers
<1> DEFINE S == {n \in DOMAIN IoThreadQueue : IoThreadQueue[n].buf = b}
<1>1. FragmentBufferUsers(b) = Cardinality(S) + One(MainUses /\ main.req.buf = b)
                                + One(IoUses /\ io.req.buf = b)
  BY DEF FragmentBufferUsers, One, MainUses, IoUses
<1>2. /\ S = {} => Cardinality(S) = 0
      /\ \A n : S = {n} => Cardinality(S) = 1
  BY FS_EmptySet, FS_Singleton
<1>3. event[b] <=> ~InUse(b)
  BY DEF BufferInv, BuffersMarked
<1> HIDE DEF FragmentBufferUsers
<1>4. CASE event[b]
  <2>1. S = {} /\ ~(MainUses /\ main.req.buf = b) /\ ~(IoUses /\ io.req.buf = b)
    BY <1>3, <1>4 DEF InUse
  <2>2. One(MainUses /\ main.req.buf = b) = 0 /\ One(IoUses /\ io.req.buf = b) = 0
    BY <2>1 DEF One
  <2> QED BY <1>1, <1>2, <1>4, <2>1, <2>2
<1>5. CASE ~event[b] /\ S # {}
  <2>1. PICK n \in DOMAIN IoThreadQueue : IoThreadQueue[n].buf = b
    BY <1>5
  <2>2. S = {n} /\ ~(MainUses /\ main.req.buf = b) /\ ~(IoUses /\ io.req.buf = b)
    BY <2>1 DEF BufferInv, BuffersApart
  <2>3. One(MainUses /\ main.req.buf = b) = 0 /\ One(IoUses /\ io.req.buf = b) = 0
    BY <2>2 DEF One
  <2>4. Cardinality(S) = 1
    BY <1>2, <2>2
  <2> QED BY <1>1, <1>5, <2>3, <2>4
<1>6. CASE ~event[b] /\ S = {}
  <2>1. \/ (MainUses /\ main.req.buf = b) /\ ~(IoUses /\ io.req.buf = b)
        \/ ~(MainUses /\ main.req.buf = b) /\ (IoUses /\ io.req.buf = b)
    BY <1>3, <1>6 DEF InUse, BufferInv, BuffersApart
  <2>2. \/ One(MainUses /\ main.req.buf = b) = 1 /\ One(IoUses /\ io.req.buf = b) = 0
        \/ One(MainUses /\ main.req.buf = b) = 0 /\ One(IoUses /\ io.req.buf = b) = 1
    BY <2>1 DEF One
  <2>3. Cardinality(S) = 0
    BY <1>2, <1>6
  <2> QED BY <1>1, <1>6, <2>2, <2>3
<1> QED BY <1>4, <1>5, <1>6

\* At first both buffers are free.
LEMMA BufferInit == Init => BufferInv
<1> SUFFICES ASSUME Init PROVE BufferInv
  OBVIOUS
<1>1. DOMAIN IoThreadQueue = {} /\ ~MainUses /\ ~IoUses
  BY DEF Init, MainUses, IoUses, IdleMain
<1>2. \A b \in Buffers : event[b]
  BY DEF Init, Buffers
<1> QED BY <1>1, <1>2 DEF BufferInv, BuffersApart, BuffersMarked, InUse

\* No IRP is completed twice, by whichever of the three threads, and each of the two
\* fragment buffers is free or belongs to exactly one request from the time the main
\* thread acquires it to its release by the I/O thread.
THEOREM QueueServesOnce == Spec => []IrpsOnce
<1>1. Init => BufferInv
  BY BufferInit
<1>2. QueueInv /\ BufferInv /\ [Next]_vars => BufferInv'
  BY BufferStep
<1>3. QueueInv /\ BufferInv => IrpsOnce
  BY BuffersCounted DEF IrpsOnce, QueueInv, ShapeInv, IrpTypes, CompletedOnce
<1> QED BY <1>1, <1>2, <1>3, QueueInvariant, PTL DEF Spec
=============================================================================
