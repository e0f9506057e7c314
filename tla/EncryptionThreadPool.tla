------------------------ MODULE EncryptionThreadPool ------------------------
(***************************************************************************)
(* The encryption thread pool of Common/EncryptionThreadPool.c: a ring of  *)
(* work items between the callers of EncryptionThreadPoolDoWork and        *)
(* EncryptionThreadPoolBeginKeyDerivation and a set of worker threads.     *)
(*                                                                         *)
(* Both positions of the ring are advanced under a mutex; the state of an  *)
(* item (Free, Ready, Busy) and the fragment counter are interlocked; all  *)
(* events are auto-reset.  One action is one step between two accesses to  *)
(* shared memory.  A data unit that a worker transforms gets the number of *)
(* the unit it was transformed as appended to its history, so a unit that  *)
(* was skipped, transformed twice or under another number shows.           *)
(***************************************************************************)
EXTENDS Naturals, Sequences, FiniteSets

CONSTANTS Threads,     \* worker threads the pool may create
          QueueSize,   \* TC_ENC_THREAD_POOL_QUEUE_SIZE
          Callers,     \* threads that use the pool
          Jobs,        \* what a caller may ask for: [type, units]
          StartUnitNo, \* number of the first data unit of every call
          MaxCalls,    \* bound: calls made by one caller
          None         \* no thread, no slot

(***************************************************************************)
(* The ring has twice as many items as the pool can have threads.          *)
(***************************************************************************)
ASSUME PoolAssumption ==
    /\ IsFiniteSet(Threads) /\ Cardinality(Threads) >= 2
    /\ QueueSize \in Nat /\ QueueSize = 2 * Cardinality(Threads)
    /\ Jobs \subseteq [type : {"data", "key"}, units : Nat]
    /\ MaxCalls \in Nat /\ StartUnitNo \in Nat
    /\ None \notin Threads /\ None \notin Callers /\ None \notin Nat

Slots == 0 .. QueueSize - 1

VARIABLES
    ThreadPoolRunning, StopPending, ThreadCount,
    WorkItemQueue,        \* slot -> work item
    EnqueuePosition, DequeuePosition,
    EnqueueMutex, DequeueMutex,                  \* holder or None
    WorkItemReadyEvent, WorkItemCompletedEvent,
    manager,    \* control of the thread that starts and stops the pool
    worker,     \* thread -> [pc, item]
    caller,     \* caller -> [pc, job, first, item, left, per, rem, data, calls]
    buffer,     \* caller -> data unit -> unit numbers it was transformed as
    keys        \* caller -> [outstanding, none, derived] of its key derivations

poolVars   == <<ThreadPoolRunning, StopPending, ThreadCount, manager>>
eventVars  == <<WorkItemReadyEvent, WorkItemCompletedEvent>>
lockVars   == <<EnqueuePosition, DequeuePosition, EnqueueMutex, DequeueMutex>>
vars == <<poolVars, eventVars, lockVars, WorkItemQueue, worker, caller, buffer, keys>>

FreeItem == [State |-> "Free", Type |-> "data", owner |-> None, FirstFragment |-> None,
             OutstandingFragmentCount |-> 0, ItemCompletedEvent |-> FALSE,
             Data |-> 1, StartUnitNo |-> 0, UnitCount |-> 0]

IdleCaller == [pc |-> "idle", job |-> [type |-> "data", units |-> 0], first |-> None,
               item |-> None, left |-> 0, per |-> 0, rem |-> 0, data |-> 1, calls |-> 0]

Init ==
    /\ ThreadPoolRunning = FALSE /\ StopPending = FALSE /\ ThreadCount = 0
    /\ manager = "unstarted"
    /\ WorkItemQueue = [s \in Slots |-> FreeItem]
    /\ EnqueuePosition = 0 /\ DequeuePosition = 0
    /\ EnqueueMutex = None /\ DequeueMutex = None
    /\ WorkItemReadyEvent = FALSE /\ WorkItemCompletedEvent = FALSE
    /\ worker = [w \in Threads |-> [pc |-> "none", item |-> None]]
    /\ caller = [c \in Callers |-> IdleCaller]
    /\ buffer = [c \in Callers |-> <<>>]
    /\ keys = [c \in Callers |-> [outstanding |-> 0, none |-> FALSE, derived |-> 0]]

NextPosition(p) == IF p + 1 >= QueueSize THEN 0 ELSE p + 1

-----------------------------------------------------------------------------
(***************************************************************************)
(* EncryptionThreadPoolStart and EncryptionThreadPoolStop.                 *)
(***************************************************************************)

\* The queue is reset before the first thread is created.
StartPool ==
    /\ manager = "unstarted"
    /\ manager' = "creating"
    /\ StopPending' = FALSE /\ ThreadCount' = 0
    /\ EnqueuePosition' = 0 /\ DequeuePosition' = 0
    /\ WorkItemQueue' = [s \in Slots |-> FreeItem]
    /\ WorkItemReadyEvent' = FALSE /\ WorkItemCompletedEvent' = FALSE
    /\ EnqueueMutex' = None /\ DequeueMutex' = None
    /\ UNCHANGED <<ThreadPoolRunning, worker, caller, buffer, keys>>

\* Fewer than two usable processors: no pool, DoWork runs in its caller.
StartWithoutThreads ==
    /\ manager = "unstarted"
    /\ manager' = "single"
    /\ UNCHANGED <<ThreadPoolRunning, StopPending, ThreadCount, eventVars, lockVars,
                   WorkItemQueue, worker, caller, buffer, keys>>

StartThread(w) ==
    /\ manager = "creating" /\ worker[w].pc = "none"
    /\ worker' = [worker EXCEPT ![w].pc = "loop"]
    /\ ThreadCount' = ThreadCount + 1
    /\ UNCHANGED <<ThreadPoolRunning, StopPending, manager, eventVars, lockVars,
                   WorkItemQueue, caller, buffer, keys>>

\* A thread cannot be created: EncryptionThreadPoolStop returns at once, since
\* ThreadPoolRunning is still FALSE, and the threads created so far stay.
StartThreadFails ==
    /\ manager = "creating" /\ ThreadCount < Cardinality(Threads)
    /\ manager' = "failed"
    /\ UNCHANGED <<ThreadPoolRunning, StopPending, ThreadCount, eventVars, lockVars,
                   WorkItemQueue, worker, caller, buffer, keys>>

StartReturns ==
    /\ manager = "creating" /\ ThreadCount = Cardinality(Threads)
    /\ manager' = "running"
    /\ ThreadPoolRunning' = TRUE
    /\ UNCHANGED <<StopPending, ThreadCount, eventVars, lockVars,
                   WorkItemQueue, worker, caller, buffer, keys>>

\* The process exits or the driver is unloaded: no call is in progress.  A pool
\* that is not running is left as it is.
StopPool ==
    /\ manager \in {"running", "single", "failed"}
    /\ \A c \in Callers : caller[c].pc = "idle" /\ keys[c].outstanding = 0
    /\ IF ThreadPoolRunning
       THEN StopPending' = TRUE /\ manager' = "stopping"
       ELSE UNCHANGED StopPending /\ manager' = "stopped"
    /\ UNCHANGED <<ThreadPoolRunning, ThreadCount, eventVars, lockVars,
                   WorkItemQueue, worker, caller, buffer, keys>>

StopSignals ==
    /\ manager = "stopping"
    /\ manager' = "joining"
    /\ WorkItemReadyEvent' = TRUE
    /\ UNCHANGED <<ThreadPoolRunning, StopPending, ThreadCount, WorkItemCompletedEvent,
                   lockVars, WorkItemQueue, worker, caller, buffer, keys>>

StopReturns ==
    /\ manager = "joining"
    /\ \A w \in Threads : worker[w].pc = "exited"
    /\ manager' = "stopped"
    /\ ThreadCount' = 0 /\ ThreadPoolRunning' = FALSE
    /\ UNCHANGED <<StopPending, eventVars, lockVars, WorkItemQueue, worker,
                   caller, buffer, keys>>

-----------------------------------------------------------------------------
(***************************************************************************)
(* EncryptionThreadProc.                                                   *)
(***************************************************************************)

GoTo(w, pc) == worker' = [worker EXCEPT ![w].pc = pc]

WorkerLoop(w) ==
    /\ worker[w].pc = "loop"
    /\ GoTo(w, IF StopPending THEN "exited" ELSE "acquire")
    /\ UNCHANGED <<poolVars, eventVars, lockVars, WorkItemQueue, caller, buffer, keys>>

WorkerAcquire(w) ==
    /\ worker[w].pc = "acquire" /\ DequeueMutex = None
    /\ DequeueMutex' = w
    /\ worker' = [worker EXCEPT ![w] = [pc |-> "poll", item |-> DequeuePosition]]
    /\ DequeuePosition' = NextPosition(DequeuePosition)
    /\ UNCHANGED <<poolVars, eventVars, EnqueuePosition, EnqueueMutex, WorkItemQueue,
                   caller, buffer, keys>>

\* The item is taken when it is Ready, or whatever its state once a stop is
\* pending; otherwise the worker waits, holding the mutex.
WorkerPoll(w) ==
    /\ worker[w].pc = "poll"
    /\ IF ~StopPending /\ WorkItemQueue[worker[w].item].State # "Ready"
       THEN /\ GoTo(w, "waitReady")
            /\ UNCHANGED <<DequeueMutex, WorkItemQueue>>
       ELSE /\ WorkItemQueue' = [WorkItemQueue EXCEPT ![worker[w].item].State = "Busy"]
            /\ DequeueMutex' = None
            /\ GoTo(w, "taken")
    /\ UNCHANGED <<poolVars, eventVars, EnqueuePosition, DequeuePosition, EnqueueMutex,
                   caller, buffer, keys>>

WorkerWaitReady(w) ==
    /\ worker[w].pc = "waitReady" /\ WorkItemReadyEvent
    /\ WorkItemReadyEvent' = FALSE
    /\ GoTo(w, "poll")
    /\ UNCHANGED <<poolVars, WorkItemCompletedEvent, lockVars, WorkItemQueue,
                   caller, buffer, keys>>

WorkerTaken(w) ==
    /\ worker[w].pc = "taken"
    /\ GoTo(w, IF StopPending THEN "exited" ELSE "work")
    /\ UNCHANGED <<poolVars, eventVars, lockVars, WorkItemQueue, caller, buffer, keys>>

\* EncryptDataUnitsCurrentThread on n units from index d of c's buffer, the first
\* of which has number u.
Transform(c, d, u, n) ==
    buffer' = [buffer EXCEPT ![c] =
                 [i \in DOMAIN @ \cup d .. d + n - 1 |->
                     LET old == IF i \in DOMAIN @ THEN @[i] ELSE <<>>
                     IN  IF i \in d .. d + n - 1 THEN Append(old, u + (i - d)) ELSE old]]

\* Mutant of WorkerTransforms: the first fragment is freed like any other.
WorkerTransformsAndFrees(w) ==
    LET item == WorkItemQueue[worker[w].item]
    IN  /\ worker[w].pc = "work" /\ item.Type = "data"
        /\ Transform(item.owner, item.Data, item.StartUnitNo, item.UnitCount)
        /\ GoTo(w, "free")
        /\ UNCHANGED <<poolVars, eventVars, lockVars, WorkItemQueue, caller, keys>>

WorkerTransforms(w) ==
    LET item == WorkItemQueue[worker[w].item]
    IN  /\ worker[w].pc = "work" /\ item.Type = "data"
        /\ Transform(item.owner, item.Data, item.StartUnitNo, item.UnitCount)
        /\ GoTo(w, IF worker[w].item # item.FirstFragment THEN "free" ELSE "decrement")
        /\ UNCHANGED <<poolVars, eventVars, lockVars, WorkItemQueue, caller, keys>>

\* The key is derived, the completion flag set and the completion event signalled.
WorkerDerivesKey(w) ==
    LET item == WorkItemQueue[worker[w].item]
    IN  /\ worker[w].pc = "work" /\ item.Type = "key"
        /\ keys' = [keys EXCEPT ![item.owner].derived = @ + 1]
        /\ GoTo(w, "keyDecrement")
        /\ UNCHANGED <<poolVars, eventVars, lockVars, WorkItemQueue, caller, buffer>>

WorkerKeyDecrement(w) ==
    LET c == WorkItemQueue[worker[w].item].owner
    IN  /\ worker[w].pc = "keyDecrement"
        /\ keys' = [keys EXCEPT ![c].outstanding = @ - 1]
        /\ GoTo(w, IF keys'[c].outstanding = 0 THEN "keySignal" ELSE "keyFree")
        /\ UNCHANGED <<poolVars, eventVars, lockVars, WorkItemQueue, caller, buffer>>

WorkerKeySignal(w) ==
    /\ worker[w].pc = "keySignal"
    /\ keys' = [keys EXCEPT ![WorkItemQueue[worker[w].item].owner].none = TRUE]
    /\ GoTo(w, "keyFree")
    /\ UNCHANGED <<poolVars, eventVars, lockVars, WorkItemQueue, caller, buffer>>

\* A key derivation item, or a fragment other than the first, is given back to
\* the callers; the first fragment stays Busy until its caller frees it.
WorkerFree(w) ==
    /\ worker[w].pc \in {"free", "keyFree"}
    /\ WorkItemQueue' = [WorkItemQueue EXCEPT ![worker[w].item].State = "Free"]
    /\ GoTo(w, IF worker[w].pc = "free" THEN "freed" ELSE "keyFreed")
    /\ UNCHANGED <<poolVars, eventVars, lockVars, caller, buffer, keys>>

WorkerSignalCompleted(w) ==
    /\ worker[w].pc \in {"freed", "keyFreed"}
    /\ WorkItemCompletedEvent' = TRUE
    /\ GoTo(w, IF worker[w].pc = "freed" THEN "decrement" ELSE "loop")
    /\ UNCHANGED <<poolVars, WorkItemReadyEvent, lockVars, WorkItemQueue, caller, buffer, keys>>

\* workItem->FirstFragment is read although the item itself may be Free by now.
WorkerDecrement(w) ==
    LET f == WorkItemQueue[worker[w].item].FirstFragment
    IN  /\ worker[w].pc = "decrement"
        /\ WorkItemQueue' = [WorkItemQueue EXCEPT ![f].OutstandingFragmentCount = @ - 1]
        /\ GoTo(w, IF WorkItemQueue'[f].OutstandingFragmentCount = 0 THEN "signal" ELSE "loop")
        /\ UNCHANGED <<poolVars, eventVars, lockVars, caller, buffer, keys>>

WorkerSignalItem(w) ==
    LET f == WorkItemQueue[worker[w].item].FirstFragment
    IN  /\ worker[w].pc = "signal"
        /\ WorkItemQueue' = [WorkItemQueue EXCEPT ![f].ItemCompletedEvent = TRUE]
        /\ GoTo(w, "loop")
        /\ UNCHANGED <<poolVars, eventVars, lockVars, caller, buffer, keys>>

-----------------------------------------------------------------------------
(***************************************************************************)
(* EncryptionThreadPoolDoWork and EncryptionThreadPoolBeginKeyDerivation.  *)
(***************************************************************************)

\* Number of fragments, units of the first one, and how many get that many.
FragmentCount(n) == IF n <= ThreadCount THEN n ELSE ThreadCount
Remainder(n) == IF n <= ThreadCount THEN 0 ELSE n % ThreadCount
UnitsPerFragment(n) ==
    IF n <= ThreadCount THEN 1
    ELSE (n \div ThreadCount) + (IF Remainder(n) > 0 THEN 1 ELSE 0)

\* The histories of a buffer that every unit of which was transformed once.
Transformed(n) == [i \in 1 .. n |-> <<StartUnitNo + i - 1>>]

\* Nothing to do, or done by the calling thread itself.
DoWorkInline(c, job) ==
    /\ caller[c].pc = "idle" /\ caller[c].calls < MaxCalls
    /\ manager \notin {"stopping", "joining"}
    /\ job.type = "data" /\ (job.units <= 1 \/ ~ThreadPoolRunning)
    /\ caller' = [caller EXCEPT ![c].calls = @ + 1, ![c].job = job]
    /\ buffer' = [buffer EXCEPT ![c] = Transformed(job.units)]
    /\ UNCHANGED <<poolVars, eventVars, lockVars, WorkItemQueue, worker, keys>>

DoWork(c, job) ==
    /\ caller[c].pc = "idle" /\ caller[c].calls < MaxCalls
    /\ manager = "running"
    /\ job.type = "data" /\ job.units > 1
    /\ caller' = [caller EXCEPT ![c] =
                    [pc |-> "acquire", job |-> job, first |-> None, item |-> None,
                     left |-> FragmentCount(job.units), per |-> UnitsPerFragment(job.units),
                     rem |-> Remainder(job.units), data |-> 1, calls |-> @.calls + 1]]
    /\ buffer' = [buffer EXCEPT ![c] = [i \in 1 .. job.units |-> <<>>]]
    /\ UNCHANGED <<poolVars, eventVars, lockVars, WorkItemQueue, worker, keys>>

\* A caller may have key derivations outstanding when it asks for another one.
BeginKeyDerivation(c, job) ==
    /\ caller[c].pc = "idle" /\ caller[c].calls < MaxCalls
    /\ manager = "running"
    /\ job.type = "key"
    /\ caller' = [caller EXCEPT ![c] =
                    [IdleCaller EXCEPT !.pc = "acquire", !.job = job, !.left = 1,
                                       !.calls = caller[c].calls + 1]]
    /\ UNCHANGED <<poolVars, eventVars, lockVars, WorkItemQueue, worker, buffer, keys>>

CallerGoTo(c, pc) == caller' = [caller EXCEPT ![c].pc = pc]

CallerAcquire(c) ==
    /\ caller[c].pc = "acquire" /\ EnqueueMutex = None
    /\ EnqueueMutex' = c
    /\ caller' = [caller EXCEPT ![c].pc = IF caller[c].job.type = "data"
                                          THEN "pollFirst" ELSE "next",
                                ![c].first = EnqueuePosition]
    /\ UNCHANGED <<poolVars, eventVars, EnqueuePosition, DequeuePosition, DequeueMutex,
                   WorkItemQueue, worker, buffer, keys>>

\* The first item has to be free before its fragment counter is set.
CallerPollFirst(c) ==
    /\ caller[c].pc = "pollFirst"
    /\ IF WorkItemQueue[caller[c].first].State # "Free"
       THEN CallerGoTo(c, "waitFirst") /\ UNCHANGED WorkItemQueue
       ELSE /\ WorkItemQueue' = [WorkItemQueue EXCEPT
                   ![caller[c].first].OutstandingFragmentCount = caller[c].left]
            /\ CallerGoTo(c, "next")
    /\ UNCHANGED <<poolVars, eventVars, lockVars, worker, buffer, keys>>

CallerNextItem(c) ==
    /\ caller[c].pc = "next" /\ caller[c].left > 0
    /\ caller' = [caller EXCEPT ![c].pc = "poll", ![c].item = EnqueuePosition]
    /\ EnqueuePosition' = NextPosition(EnqueuePosition)
    /\ UNCHANGED <<poolVars, eventVars, DequeuePosition, EnqueueMutex, DequeueMutex,
                   WorkItemQueue, worker, buffer, keys>>

CallerWaitCompleted(c) ==
    /\ caller[c].pc \in {"waitFirst", "waitItem"} /\ WorkItemCompletedEvent
    /\ WorkItemCompletedEvent' = FALSE
    /\ CallerGoTo(c, IF caller[c].pc = "waitFirst" THEN "pollFirst" ELSE "poll")
    /\ UNCHANGED <<poolVars, WorkItemReadyEvent, lockVars, WorkItemQueue, worker, buffer, keys>>

CallerPollBusy(c) ==
    /\ caller[c].pc = "poll" /\ WorkItemQueue[caller[c].item].State # "Free"
    /\ CallerGoTo(c, "waitItem")
    /\ UNCHANGED <<poolVars, eventVars, lockVars, WorkItemQueue, worker, buffer, keys>>

\* Mutant of NextPer: the extra unit is not taken back after the remainder.
NextPerConstant(k) == k.per

\* The units of the fragments after this one: the first rem fragments have one more.
NextPer(k) == IF k.rem = 1 THEN k.per - 1 ELSE k.per
NextRem(k) == IF k.rem > 0 THEN k.rem - 1 ELSE 0

\* The fragment is filled in, then becomes Ready.
CallerEnqueueFragment(c) ==
    LET k == caller[c]
    IN  /\ k.pc = "poll" /\ WorkItemQueue[k.item].State = "Free" /\ k.job.type = "data"
        /\ WorkItemQueue' = [WorkItemQueue EXCEPT ![k.item] =
              [@ EXCEPT !.State = "Ready", !.Type = "data", !.owner = c,
                        !.FirstFragment = k.first, !.Data = k.data,
                        !.StartUnitNo = StartUnitNo + k.data - 1, !.UnitCount = k.per]]
        /\ caller' = [caller EXCEPT ![c] =
              [@ EXCEPT !.pc = "signalReady", !.left = k.left - 1, !.data = k.data + k.per,
                        !.per = NextPer(k), !.rem = NextRem(k)]]
        /\ UNCHANGED <<poolVars, eventVars, lockVars, worker, buffer, keys>>

\* The caller's counter is incremented and its event cleared before the item is Ready.
CallerEnqueueKey(c) ==
    LET k == caller[c]
    IN  /\ k.pc = "poll" /\ WorkItemQueue[k.item].State = "Free" /\ k.job.type = "key"
        /\ WorkItemQueue' = [WorkItemQueue EXCEPT ![k.item] =
              [@ EXCEPT !.State = "Ready", !.Type = "key", !.owner = c]]
        /\ keys' = [keys EXCEPT ![c].outstanding = @ + 1, ![c].none = FALSE]
        /\ caller' = [caller EXCEPT ![c].pc = "signalReady", ![c].left = 0]
        /\ UNCHANGED <<poolVars, eventVars, lockVars, worker, buffer>>

\* Mutant of CallerSignalReady: no worker is woken.
CallerReadySilently(c) ==
    /\ caller[c].pc = "signalReady"
    /\ CallerGoTo(c, "next")
    /\ UNCHANGED <<poolVars, eventVars, lockVars, WorkItemQueue, worker, buffer, keys>>

CallerSignalReady(c) ==
    /\ caller[c].pc = "signalReady"
    /\ WorkItemReadyEvent' = TRUE
    /\ CallerGoTo(c, "next")
    /\ UNCHANGED <<poolVars, WorkItemCompletedEvent, lockVars, WorkItemQueue, worker, buffer, keys>>

\* Key derivation returns here; DoWork goes on to wait for its fragments.
CallerRelease(c) ==
    /\ caller[c].pc = "next" /\ caller[c].left = 0
    /\ EnqueueMutex' = None
    /\ CallerGoTo(c, IF caller[c].job.type = "data" THEN "waitDone" ELSE "idle")
    /\ UNCHANGED <<poolVars, eventVars, EnqueuePosition, DequeuePosition, DequeueMutex,
                   WorkItemQueue, worker, buffer, keys>>

CallerWaitDone(c) ==
    LET f == caller[c].first
    IN  /\ caller[c].pc = "waitDone" /\ WorkItemQueue[f].ItemCompletedEvent
        /\ WorkItemQueue' = [WorkItemQueue EXCEPT ![f].ItemCompletedEvent = FALSE]
        /\ CallerGoTo(c, "freeFirst")
        /\ UNCHANGED <<poolVars, eventVars, lockVars, worker, buffer, keys>>

CallerFreeFirst(c) ==
    /\ caller[c].pc = "freeFirst"
    /\ WorkItemQueue' = [WorkItemQueue EXCEPT ![caller[c].first].State = "Free"]
    /\ CallerGoTo(c, "signalCompleted")
    /\ UNCHANGED <<poolVars, eventVars, lockVars, worker, buffer, keys>>

CallerReturns(c) ==
    /\ caller[c].pc = "signalCompleted"
    /\ WorkItemCompletedEvent' = TRUE
    /\ CallerGoTo(c, "idle")
    /\ UNCHANGED <<poolVars, WorkItemReadyEvent, lockVars, WorkItemQueue, worker, buffer, keys>>

-----------------------------------------------------------------------------
Manager == StartPool \/ StartWithoutThreads \/ StartThreadFails \/ StartReturns
           \/ StopPool \/ StopSignals \/ StopReturns \/ \E w \in Threads : StartThread(w)

Worker(w) ==
    \/ WorkerLoop(w) \/ WorkerAcquire(w) \/ WorkerPoll(w) \/ WorkerWaitReady(w)
    \/ WorkerTaken(w) \/ WorkerTransforms(w) \/ WorkerDerivesKey(w)
    \/ WorkerKeyDecrement(w) \/ WorkerKeySignal(w) \/ WorkerFree(w)
    \/ WorkerSignalCompleted(w) \/ WorkerDecrement(w) \/ WorkerSignalItem(w)

Call(c) == \E job \in Jobs :
              DoWorkInline(c, job) \/ DoWork(c, job) \/ BeginKeyDerivation(c, job)

CallerStep(c) ==
    \/ CallerAcquire(c) \/ CallerPollFirst(c) \/ CallerNextItem(c) \/ CallerWaitCompleted(c)
    \/ CallerPollBusy(c) \/ CallerEnqueueFragment(c) \/ CallerEnqueueKey(c)
    \/ CallerSignalReady(c) \/ CallerRelease(c) \/ CallerWaitDone(c)
    \/ CallerFreeFirst(c) \/ CallerReturns(c)

Next == Manager \/ (\E w \in Threads : Worker(w)) \/ (\E c \in Callers : Call(c) \/ CallerStep(c))

Spec == Init /\ [][Next]_vars

(***************************************************************************)
(* Every thread that can run does.  Calls are bounded, so a thread waiting *)
(* for a mutex is not passed over for ever; nothing forces a call or the   *)
(* stop of the pool to be made, but a stop that was begun is carried out.  *)
(***************************************************************************)
Fairness ==
    /\ \A w \in Threads : WF_vars(Worker(w))
    /\ \A c \in Callers : WF_vars(CallerStep(c))
    /\ WF_vars(StopSignals \/ StopReturns)

FairSpec == Spec /\ Fairness

-----------------------------------------------------------------------------
(***************************************************************************)
(* Properties.                                                             *)
(***************************************************************************)

WorkItems ==
    [State : {"Free", "Ready", "Busy"}, Type : {"data", "key"}, owner : Callers \cup {None},
     FirstFragment : Slots \cup {None}, OutstandingFragmentCount : Nat,
     ItemCompletedEvent : BOOLEAN, Data : Nat, StartUnitNo : Nat, UnitCount : Nat]

CallerPcs == {"idle", "acquire", "pollFirst", "waitFirst", "next", "poll", "waitItem",
              "signalReady", "waitDone", "freeFirst", "signalCompleted"}
CallerStates ==
    [pc : CallerPcs, job : [type : {"data", "key"}, units : Nat], first : Slots \cup {None},
     item : Slots \cup {None}, left : Nat, per : Nat, rem : Nat, data : Nat, calls : Nat]

WorkerPcs == {"none", "loop", "acquire", "poll", "waitReady", "taken", "work", "free", "freed",
              "decrement", "signal", "keyDecrement", "keySignal", "keyFree", "keyFreed", "exited"}
WorkerStates == [pc : WorkerPcs, item : Slots \cup {None}]

\* Type invariant of the pool's static variables and of the threads' locals.
TypeOK ==
    /\ ThreadPoolRunning \in BOOLEAN /\ StopPending \in BOOLEAN /\ ThreadCount \in Nat
    /\ manager \in {"unstarted", "creating", "failed", "single", "running", "stopping",
                    "joining", "stopped"}
    /\ WorkItemQueue \in [Slots -> WorkItems]
    /\ EnqueuePosition \in Slots /\ DequeuePosition \in Slots
    /\ EnqueueMutex \in Callers \cup {None} /\ DequeueMutex \in Threads \cup {None}
    /\ WorkItemReadyEvent \in BOOLEAN /\ WorkItemCompletedEvent \in BOOLEAN
    /\ worker \in [Threads -> WorkerStates]
    /\ caller \in [Callers -> CallerStates]
    /\ DOMAIN buffer = Callers
    /\ \A c \in Callers : \A i \in DOMAIN buffer[c] : buffer[c][i] \in Seq(Nat)
    /\ keys \in [Callers -> [outstanding : Nat, none : BOOLEAN, derived : Nat]]

\* When EncryptionThreadPoolDoWork has seen its completion event, and for as long
\* as its caller then uses the data, every unit has been transformed exactly once,
\* under its own number, and no byte outside the data has been touched.
ReturnedDataTransformed ==
    \A c \in Callers :
        caller[c].pc \in {"idle", "freeFirst", "signalCompleted"} /\ caller[c].job.type = "data"
            => buffer[c] = Transformed(caller[c].job.units)

\* The call that fragment i belongs to has not seen its completion event.
CallOpen(i) ==
    \E c \in Callers :
        /\ caller[c].pc \in {"next", "poll", "waitItem", "signalReady", "waitDone"}
        /\ WorkItemQueue[i].owner = c /\ WorkItemQueue[i].FirstFragment = caller[c].first

\* A worker that has already given its item back reads FirstFragment from it: the
\* item still belongs to the same, unfinished call, since the enqueue position
\* cannot pass the Busy first fragment.
FirstFragmentStable ==
    \A w \in Threads :
        worker[w].pc \in {"free", "freed", "decrement", "signal"} => CallOpen(worker[w].item)

\* Fragments of the call with first fragment f that are enqueued and not yet counted off.
Uncounted(f) ==
    {s \in Slots : /\ WorkItemQueue[s].Type = "data" /\ WorkItemQueue[s].FirstFragment = f
                   /\ \/ WorkItemQueue[s].State = "Ready"
                      \/ \E w \in Threads : /\ worker[w].item = s
                                            /\ worker[w].pc \in {"taken", "work", "free",
                                                                 "freed", "decrement"}}

\* The fragment counter of an open call is the number of its fragments that are
\* still to be enqueued, waiting or being worked on.
FragmentCountExact ==
    \A c \in Callers :
        caller[c].job.type = "data"
        /\ caller[c].pc \in {"next", "poll", "waitItem", "signalReady", "waitDone"} =>
            WorkItemQueue[caller[c].first].OutstandingFragmentCount
                = caller[c].left + Cardinality(Uncounted(caller[c].first))

\* No two workers work on one item, and an item that is worked on is Busy: the
\* dequeue position never laps a worker that has not given its item back.
ItemsExclusive ==
    \A w \in Threads :
        worker[w].pc \in {"work", "free", "keyDecrement", "keySignal", "keyFree"} =>
            /\ WorkItemQueue[worker[w].item].State = "Busy"
            /\ \A v \in Threads \ {w} :
                  worker[v].pc \in {"work", "free", "keyDecrement", "keySignal", "keyFree"}
                      => worker[v].item # worker[w].item

\* Items of a caller of BeginKeyDerivation that are waiting or whose worker has not yet
\* counted them off.
KeyItems(c) ==
    {s \in Slots : /\ WorkItemQueue[s].Type = "key" /\ WorkItemQueue[s].owner = c
                   /\ \/ WorkItemQueue[s].State = "Ready"
                      \/ \E w \in Threads : /\ worker[w].item = s
                                            /\ worker[w].pc \in {"taken", "work", "keyDecrement"}}

\* OutstandingWorkItemCount is the number of those items (a stopping worker takes
\* whatever item it is at).
KeyCountExact == ~StopPending => \A c \in Callers : keys[c].outstanding = Cardinality(KeyItems(c))

\* Every call of DoWork and of BeginKeyDerivation returns: no wake-up of a caller
\* waiting for a free item or of a worker waiting for a ready one is lost.
CallsReturn == \A c \in Callers : caller[c].pc # "idle" ~> caller[c].pc = "idle"

\* EncryptionThreadPoolStop returns, although it signals the ready event only once
\* and all workers have to leave.
StopReturnsEventually == manager = "stopping" ~> manager = "stopped"

(* The work items: typed, each taken by one worker at a time, the first fragment of a
   call stays its own until the call returns, and its count is the number of
   fragments still to be done (EncryptionThreadPoolDoWork, EncryptionThreadProc). *)
ItemsSound == TypeOK /\ FirstFragmentStable /\ FragmentCountExact /\ ItemsExclusive /\ KeyCountExact

(* Every call of the pool returns, and so does the stop. *)
CallsAndStopReturn == CallsReturn /\ StopReturnsEventually
=============================================================================
