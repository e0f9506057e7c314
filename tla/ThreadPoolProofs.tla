-------------------------- MODULE ThreadPoolProofs --------------------------
(***************************************************************************)
(* That the encryption thread pool transforms every unit of every call     *)
(* exactly once, and that its items and counters are sound, for any number *)
(* of threads, callers and calls, and any size of the calls.               *)
(*                                                                         *)
(* A worker that has freed its item still reads FirstFragment from it.     *)
(* The item cannot be reused in between: the enqueue position comes round  *)
(* to the first fragment of the call first, and that one is not free       *)
(* before the call has counted off all its fragments.                      *)
(***************************************************************************)
EXTENDS EncryptionThreadPool, FiniteSetTheorems, TLAPS

Item(w) == WorkItemQueue[worker[w].item]

(* A call of DoWork whose counter is set, and one with fragments in the queue. *)
Open(c) ==
    /\ caller[c].job.type = "data"
    /\ caller[c].pc \in {"next", "poll", "waitItem", "signalReady", "waitDone"}
Begun(c) == Open(c) /\ caller[c].data > 1
InCall(s, c) ==
    /\ Begun(c) /\ WorkItemQueue[s].Type = "data"
    /\ WorkItemQueue[s].owner = c /\ WorkItemQueue[s].FirstFragment = caller[c].first

(* A worker that has an item; once a stop is pending a worker takes any item, and leaves. *)
DataPcs == {"free", "freed", "decrement", "signal"}
KeyPcs  == {"keyDecrement", "keySignal", "keyFree"}
HeldPcs == {"taken", "work", "free"} \cup KeyPcs
HasPcs  == {"taken", "work"} \cup DataPcs \cup KeyPcs
Has(w) == /\ worker[w].pc \in HasPcs
          /\ worker[w].pc = "taken" => ~StopPending

(* The phases of the pool: no call is open outside of its run. *)
PhaseFlags ==
    /\ ThreadPoolRunning <=> manager \in {"running", "stopping", "joining"}
    /\ StopPending => manager \in {"stopping", "joining", "stopped"}
    /\ manager \in {"stopping", "joining"} => StopPending
    /\ manager = "running" => ThreadCount = Cardinality(Threads)
BeforeStart ==
    manager = "unstarted" => /\ \A w \in Threads : worker[w].pc = "none"
                             /\ \A c \in Callers : keys[c].outstanding = 0
AfterStop ==
    StopPending => /\ \A c \in Callers : keys[c].outstanding = 0
                   /\ \A w \in Threads : worker[w].pc \notin {"work", "keyDecrement"} \cup DataPcs
Phases ==
    /\ PhaseFlags /\ BeforeStart /\ AfterStop
    /\ \A c \in Callers : caller[c].pc # "idle" => manager = "running"

(* The items that the workers have. *)
ItemSound(w) ==
    /\ worker[w].pc \in HeldPcs => Item(w).State = "Busy"
    /\ worker[w].pc \in DataPcs => Item(w).Type = "data"
    /\ worker[w].pc \in KeyPcs  => Item(w).Type = "key"
    /\ Item(w).Type = "data" => \E c \in Callers : InCall(worker[w].item, c)
    /\ Item(w).Type = "key"  => Item(w).owner \in Callers
    /\ worker[w].pc \in {"free", "freed"} => Item(w).FirstFragment # worker[w].item
    /\ worker[w].pc \in {"freed", "decrement", "signal"} =>
          Item(w).State = IF Item(w).FirstFragment = worker[w].item THEN "Busy" ELSE "Free"
ItemsKnown ==
    \A w \in Threads : worker[w].pc \notin {"none", "loop", "acquire", "exited"} => worker[w].item \in Slots
OneWorkerEach ==
    \A w, v \in Threads : Has(w) /\ Has(v) /\ v # w => worker[v].item # worker[w].item
Owned == ItemsKnown /\ OneWorkerEach /\ \A w \in Threads : Has(w) => ItemSound(w)

ReadyItems ==
    \A s \in Slots : WorkItemQueue[s].State = "Ready" =>
        /\ WorkItemQueue[s].Type = "data" => \E c \in Callers : InCall(s, c)
        /\ WorkItemQueue[s].Type = "key"  => WorkItemQueue[s].owner \in Callers

(* The calls: only one at a time enqueues, and the first fragment is the call's own. *)
FirstIsOwn(c) ==
    LET f == WorkItemQueue[caller[c].first]
    IN  f.State # "Free" /\ f.Type = "data" /\ f.owner = c /\ f.FirstFragment = caller[c].first
CallSound(c) ==
    /\ caller[c].pc \in {"pollFirst", "waitFirst", "next", "poll", "waitItem", "signalReady"} =>
          EnqueueMutex = c
    /\ caller[c].pc \in {"pollFirst", "waitFirst"} =>
          /\ caller[c].job.type = "data" /\ caller[c].first = EnqueuePosition
          /\ caller[c].data = 1 /\ caller[c].left > 0
    /\ caller[c].pc = "acquire" => caller[c].left > 0 /\ caller[c].data = 1
    /\ caller[c].pc \in {"poll", "waitItem"} =>
          /\ caller[c].item \in Slots /\ EnqueuePosition = NextPosition(caller[c].item)
          /\ caller[c].left > 0
    /\ caller[c].pc = "waitDone" => caller[c].left = 0
    /\ caller[c].pc \in {"waitDone", "freeFirst"} => caller[c].job.type = "data"
    /\ Open(c) => caller[c].first \in Slots /\ caller[c].data >= 1
    /\ Open(c) /\ caller[c].data = 1 =>
          /\ WorkItemQueue[caller[c].first].State = "Free" /\ caller[c].left > 0
          /\ caller[c].pc \in {"next", "poll", "waitItem"}
          /\ caller[c].pc = "next" => caller[c].first = EnqueuePosition
          /\ caller[c].pc \in {"poll", "waitItem"} => caller[c].first = caller[c].item
    /\ Begun(c) => FirstIsOwn(c)
    /\ caller[c].pc = "freeFirst" => caller[c].first \in Slots /\ FirstIsOwn(c)
    /\ caller[c].pc # "idle" /\ caller[c].job.type = "data" /\ caller[c].left > 0 =>
          caller[c].per >= 1 /\ (caller[c].rem >= 1 => caller[c].per >= 2)
Calls == \A c \in Callers : CallSound(c)

(* The completion event of a call is set once, after its last fragment. *)
Events ==
    /\ \A s \in Slots : WorkItemQueue[s].ItemCompletedEvent =>
          /\ WorkItemQueue[s].OutstandingFragmentCount = 0
          /\ \E c \in Callers : Begun(c) /\ caller[c].first = s
          /\ \A w \in Threads : worker[w].pc = "signal" => Item(w).FirstFragment # s
    /\ \A w \in Threads : worker[w].pc = "signal" =>
          /\ WorkItemQueue[Item(w).FirstFragment].OutstandingFragmentCount = 0
          /\ \A v \in Threads : worker[v].pc = "signal" /\ Item(v).FirstFragment = Item(w).FirstFragment => v = w

(* Where the next item is going to be enqueued, and how far ahead of that a slot is. *)
Position ==
    IF EnqueueMutex # None /\ caller[EnqueueMutex].pc \in {"poll", "waitItem"}
    THEN caller[EnqueueMutex].item ELSE EnqueuePosition
Ahead(s) == IF s >= Position THEN s - Position ELSE s + QueueSize - Position
InUse(s) == WorkItemQueue[s].State = "Ready" \/ \E w \in Threads : Has(w) /\ worker[w].item = s
FirstBlocks ==
    \A c \in Callers, s \in Slots : InCall(s, c) /\ InUse(s) => Ahead(caller[c].first) <= Ahead(s)

PoolInv ==
    /\ TypeOK /\ Phases /\ Owned /\ ReadyItems /\ Calls /\ Events /\ FirstBlocks
    /\ FragmentCountExact /\ KeyCountExact

-----------------------------------------------------------------------------
(* The units that are still to be enqueued. *)
Rest(k) == IF k.rem > 0 THEN k.rem * k.per + (k.left - k.rem) * (k.per - 1) ELSE k.left * k.per
(* A fragment of a call whose units have not been transformed, and those units. *)
Waiting(s) ==
    \/ WorkItemQueue[s].State = "Ready"
    \/ \E w \in Threads : worker[w].pc \in {"taken", "work"} /\ worker[w].item = s
Left(s, c) == InCall(s, c) /\ Waiting(s)
UnitsOf(s) == WorkItemQueue[s].Data .. WorkItemQueue[s].Data + WorkItemQueue[s].UnitCount - 1
InTodo(i, c) == \E s \in Slots : Left(s, c) /\ i \in UnitsOf(s)

Working(c) ==
    Open(c) \/ (caller[c].job.type = "data" /\ caller[c].pc \in {"acquire", "pollFirst", "waitFirst"})

(* The fragments of a call are disjoint; what of the data is in no waiting fragment has been transformed. *)
CallFragments(c) ==
    \A s \in Slots : Left(s, c) =>
        /\ UnitsOf(s) \subseteq 1 .. caller[c].data - 1
        /\ WorkItemQueue[s].StartUnitNo = StartUnitNo + WorkItemQueue[s].Data - 1
        /\ \A t \in Slots : Left(t, c) /\ t # s => UnitsOf(s) \cap UnitsOf(t) = {}
CallBuffer(c) ==
    Working(c) =>
        /\ caller[c].rem <= caller[c].left
        /\ caller[c].data + Rest(caller[c]) = caller[c].job.units + 1
        /\ buffer[c] = [i \in 1 .. caller[c].job.units |-> buffer[c][i]]
        /\ \A i \in 1 .. caller[c].job.units :
              buffer[c][i] = IF i < caller[c].data /\ ~InTodo(i, c) THEN <<StartUnitNo + i - 1>> ELSE <<>>
CallUnits(c) == CallFragments(c) /\ CallBuffer(c)
DataInv == (\A c \in Callers : CallUnits(c)) /\ ReturnedDataTransformed

-----------------------------------------------------------------------------
LEMMA SlotsFinite == QueueSize \in Nat /\ QueueSize > 0 /\ 0 \in Slots /\ IsFiniteSet(Slots)
                     /\ \A s \in Slots : s \in Nat /\ s < QueueSize /\ NextPosition(s) \in Slots /\ s # None
<1>1. Cardinality(Threads) \in Nat /\ QueueSize \in Nat /\ QueueSize > 0 /\ None \notin Nat
  BY PoolAssumption, FS_CardinalityType
<1>2. IsFiniteSet(Slots)
  BY <1>1, FS_Interval DEF Slots
<1> QED BY <1>1, <1>2 DEF Slots, NextPosition

LEMMA OneMore ==
    ASSUME NEW S, IsFiniteSet(S), NEW x, x \notin S
    PROVE  Cardinality(S \cup {x}) = Cardinality(S) + 1 /\ Cardinality(S) \in Nat
BY FS_AddElement, FS_CardinalityType

LEMMA OneLess ==
    ASSUME NEW S, IsFiniteSet(S), NEW x \in S
    PROVE  /\ Cardinality(S \ {x}) = Cardinality(S) - 1
           /\ Cardinality(S) \in Nat /\ Cardinality(S) >= 1
<1>1. IsFiniteSet(S \ {x}) /\ Cardinality(S \ {x}) = Cardinality(S) - 1
  BY FS_RemoveElement
<1> QED BY <1>1, FS_CardinalityType

(* The items and the workers that the counters count. *)
LEMMA CountedItems ==
    /\ \A f : IsFiniteSet(Uncounted(f)) /\ Cardinality(Uncounted(f)) \in Nat
    /\ \A c : IsFiniteSet(KeyItems(c)) /\ Cardinality(KeyItems(c)) \in Nat
<1>1. \A f : Uncounted(f) \subseteq Slots
  BY DEF Uncounted
<1>2. \A c : KeyItems(c) \subseteq Slots
  BY DEF KeyItems
<1> QED BY <1>1, <1>2, SlotsFinite, FS_Subset, FS_CardinalityType

(* A worker changes neither the calls nor what belongs to them. *)
CallsFrame == UNCHANGED <<caller, EnqueueMutex, EnqueuePosition>>
ItemsFrame ==
    \A s \in Slots : /\ WorkItemQueue'[s].Type = WorkItemQueue[s].Type
                     /\ WorkItemQueue'[s].owner = WorkItemQueue[s].owner
                     /\ WorkItemQueue'[s].FirstFragment = WorkItemQueue[s].FirstFragment
PhaseFrame == UNCHANGED <<StopPending, manager, ThreadPoolRunning, ThreadCount>>
UnitsFrame ==
    \A s \in Slots : /\ WorkItemQueue'[s].Data = WorkItemQueue[s].Data
                     /\ WorkItemQueue'[s].StartUnitNo = WorkItemQueue[s].StartUnitNo
                     /\ WorkItemQueue'[s].UnitCount = WorkItemQueue[s].UnitCount
StatesFrame == \A s \in Slots : WorkItemQueue'[s].State = WorkItemQueue[s].State
CountsFrame ==
    \A s \in Slots : WorkItemQueue'[s].OutstandingFragmentCount = WorkItemQueue[s].OutstandingFragmentCount
EventsFrame ==
    \A s \in Slots : WorkItemQueue'[s].ItemCompletedEvent = WorkItemQueue[s].ItemCompletedEvent

(* What a change of one field of an item, a worker or a caller leaves alone. *)
LEMMA WorkerAt ==
    ASSUME TypeOK, NEW w \in Threads, NEW p \in WorkerPcs, GoTo(w, p)
    PROVE  /\ worker' \in [Threads -> WorkerStates]
           /\ worker'[w].pc = p /\ worker'[w].item = worker[w].item
           /\ \A v \in Threads : v # w => worker'[v] = worker[v]
BY DEF GoTo, TypeOK, WorkerStates

LEMMA CallerAt ==
    ASSUME TypeOK, NEW c \in Callers, NEW p \in CallerPcs, CallerGoTo(c, p)
    PROVE  /\ caller' \in [Callers -> CallerStates]
           /\ caller'[c] = [caller[c] EXCEPT !.pc = p]
           /\ \A d \in Callers : d # c => caller'[d] = caller[d]
<1>1. [caller[c] EXCEPT !.pc = p] \in CallerStates
  BY ZenonT(60) DEF TypeOK, CallerStates
<1>2. caller'[c] = [caller[c] EXCEPT !.pc = p]
  BY DEF TypeOK, CallerGoTo
<1>3. \A t \in DOMAIN caller : t # c => caller'[t] = caller[t]
  BY DEF TypeOK, CallerGoTo
<1>4. caller' \in [DOMAIN caller -> CallerStates]
  BY <1>1 DEF TypeOK, CallerGoTo
<1> QED BY <1>1, <1>2, <1>3, <1>4 DEF TypeOK, CallerStates

LEMMA StateSet ==
    ASSUME TypeOK, NEW s \in Slots, NEW x \in {"Free", "Ready", "Busy"},
           WorkItemQueue' = [WorkItemQueue EXCEPT ![s].State = x]
    PROVE  /\ WorkItemQueue' \in [Slots -> WorkItems]
           /\ WorkItemQueue'[s].State = x
           /\ ItemsFrame /\ UnitsFrame /\ CountsFrame /\ EventsFrame
           /\ \A t \in Slots : t # s => WorkItemQueue'[t] = WorkItemQueue[t]
<1>0. WorkItemQueue \in [Slots -> WorkItems]
  BY DEF TypeOK
<1>1. [WorkItemQueue[s] EXCEPT !.State = x] \in WorkItems
  BY <1>0 DEF WorkItems
<1>2. WorkItemQueue'[s] = [WorkItemQueue[s] EXCEPT !.State = x]
  BY <1>0
<1>3. \A t \in DOMAIN WorkItemQueue : t # s => WorkItemQueue'[t] = WorkItemQueue[t]
  BY <1>0
<1>4. WorkItemQueue' \in [DOMAIN WorkItemQueue -> WorkItems]
  BY <1>0, <1>1
<1>5. /\ WorkItemQueue'[s].Type = WorkItemQueue[s].Type
      /\ WorkItemQueue'[s].owner = WorkItemQueue[s].owner
      /\ WorkItemQueue'[s].FirstFragment = WorkItemQueue[s].FirstFragment
      /\ WorkItemQueue'[s].OutstandingFragmentCount = WorkItemQueue[s].OutstandingFragmentCount
      /\ WorkItemQueue'[s].ItemCompletedEvent = WorkItemQueue[s].ItemCompletedEvent
      /\ WorkItemQueue'[s].Data = WorkItemQueue[s].Data
      /\ WorkItemQueue'[s].StartUnitNo = WorkItemQueue[s].StartUnitNo
      /\ WorkItemQueue'[s].UnitCount = WorkItemQueue[s].UnitCount
      /\ WorkItemQueue'[s].State = x
  BY <1>0, <1>2 DEF WorkItems
<1>6. \A t \in Slots : t # s => WorkItemQueue'[t] = WorkItemQueue[t]
  BY <1>0, <1>3
<1>7. WorkItemQueue' \in [Slots -> WorkItems]
  BY <1>0, <1>4
<1> QED BY <1>5, <1>6, <1>7 DEF ItemsFrame, UnitsFrame, CountsFrame, EventsFrame

LEMMA CountSet ==
    ASSUME TypeOK, NEW s \in Slots, NEW n \in Nat,
           WorkItemQueue' = [WorkItemQueue EXCEPT ![s].OutstandingFragmentCount = n]
    PROVE  /\ WorkItemQueue' \in [Slots -> WorkItems]
           /\ WorkItemQueue'[s].OutstandingFragmentCount = n
           /\ ItemsFrame /\ UnitsFrame /\ StatesFrame /\ EventsFrame
           /\ \A t \in Slots : t # s => WorkItemQueue'[t] = WorkItemQueue[t]
<1>0. WorkItemQueue \in [Slots -> WorkItems]
  BY DEF TypeOK
<1>1. [WorkItemQueue[s] EXCEPT !.OutstandingFragmentCount = n] \in WorkItems
  BY <1>0 DEF WorkItems
<1>2. WorkItemQueue'[s] = [WorkItemQueue[s] EXCEPT !.OutstandingFragmentCount = n]
  BY <1>0
<1>3. \A t \in DOMAIN WorkItemQueue : t # s => WorkItemQueue'[t] = WorkItemQueue[t]
  BY <1>0
<1>4. WorkItemQueue' \in [DOMAIN WorkItemQueue -> WorkItems]
  BY <1>0, <1>1
<1>5. /\ WorkItemQueue'[s].State = WorkItemQueue[s].State
      /\ WorkItemQueue'[s].Type = WorkItemQueue[s].Type
      /\ WorkItemQueue'[s].owner = WorkItemQueue[s].owner
      /\ WorkItemQueue'[s].FirstFragment = WorkItemQueue[s].FirstFragment
      /\ WorkItemQueue'[s].ItemCompletedEvent = WorkItemQueue[s].ItemCompletedEvent
      /\ WorkItemQueue'[s].Data = WorkItemQueue[s].Data
      /\ WorkItemQueue'[s].StartUnitNo = WorkItemQueue[s].StartUnitNo
      /\ WorkItemQueue'[s].UnitCount = WorkItemQueue[s].UnitCount
      /\ WorkItemQueue'[s].OutstandingFragmentCount = n
  BY <1>0, <1>2 DEF WorkItems
<1>6. \A t \in Slots : t # s => WorkItemQueue'[t] = WorkItemQueue[t]
  BY <1>0, <1>3
<1>7. WorkItemQueue' \in [Slots -> WorkItems]
  BY <1>0, <1>4
<1> QED BY <1>5, <1>6, <1>7 DEF ItemsFrame, UnitsFrame, StatesFrame, EventsFrame

LEMMA EventSet ==
    ASSUME TypeOK, NEW s \in Slots, NEW b \in BOOLEAN,
           WorkItemQueue' = [WorkItemQueue EXCEPT ![s].ItemCompletedEvent = b]
    PROVE  /\ WorkItemQueue' \in [Slots -> WorkItems]
           /\ WorkItemQueue'[s].ItemCompletedEvent = b
           /\ ItemsFrame /\ UnitsFrame /\ StatesFrame /\ CountsFrame
           /\ \A t \in Slots : t # s => WorkItemQueue'[t] = WorkItemQueue[t]
<1>0. WorkItemQueue \in [Slots -> WorkItems]
  BY DEF TypeOK
<1>1. [WorkItemQueue[s] EXCEPT !.ItemCompletedEvent = b] \in WorkItems
  BY <1>0 DEF WorkItems
<1>2. WorkItemQueue'[s] = [WorkItemQueue[s] EXCEPT !.ItemCompletedEvent = b]
  BY <1>0
<1>3. \A t \in DOMAIN WorkItemQueue : t # s => WorkItemQueue'[t] = WorkItemQueue[t]
  BY <1>0
<1>4. WorkItemQueue' \in [DOMAIN WorkItemQueue -> WorkItems]
  BY <1>0, <1>1
<1>5. /\ WorkItemQueue'[s].State = WorkItemQueue[s].State
      /\ WorkItemQueue'[s].Type = WorkItemQueue[s].Type
      /\ WorkItemQueue'[s].owner = WorkItemQueue[s].owner
      /\ WorkItemQueue'[s].FirstFragment = WorkItemQueue[s].FirstFragment
      /\ WorkItemQueue'[s].OutstandingFragmentCount = WorkItemQueue[s].OutstandingFragmentCount
      /\ WorkItemQueue'[s].Data = WorkItemQueue[s].Data
      /\ WorkItemQueue'[s].StartUnitNo = WorkItemQueue[s].StartUnitNo
      /\ WorkItemQueue'[s].UnitCount = WorkItemQueue[s].UnitCount
      /\ WorkItemQueue'[s].ItemCompletedEvent = b
  BY <1>0, <1>2 DEF WorkItems
<1>6. \A t \in Slots : t # s => WorkItemQueue'[t] = WorkItemQueue[t]
  BY <1>0, <1>3
<1>7. WorkItemQueue' \in [Slots -> WorkItems]
  BY <1>0, <1>4
<1> QED BY <1>5, <1>6, <1>7 DEF ItemsFrame, UnitsFrame, StatesFrame, CountsFrame

-----------------------------------------------------------------------------
LEMMA FrameKeeps ==
    ASSUME CallsFrame, ItemsFrame
    PROVE  /\ \A c \in Callers : (Open(c)' <=> Open(c)) /\ (Begun(c)' <=> Begun(c))
           /\ \A c \in Callers, s \in Slots : InCall(s, c)' <=> InCall(s, c)
           /\ \A s \in Slots : Ahead(s)' = Ahead(s)
<1>1. \A c \in Callers : (Open(c)' <=> Open(c)) /\ (Begun(c)' <=> Begun(c))
  BY DEF CallsFrame, Open, Begun
<1>2. \A c \in Callers, s \in Slots : InCall(s, c)' <=> InCall(s, c)
  BY <1>1 DEF CallsFrame, ItemsFrame, InCall
<1>3. \A s \in Slots : Ahead(s)' = Ahead(s)
  BY DEF CallsFrame, Ahead, Position
<1> QED BY <1>1, <1>2, <1>3

LEMMA FirstBlocksFrame ==
    ASSUME PoolInv, CallsFrame, ItemsFrame, \A s \in Slots : InUse(s)' => InUse(s)
    PROVE  FirstBlocks'
<1> SUFFICES ASSUME NEW c \in Callers, NEW s \in Slots, InCall(s, c)', InUse(s)'
             PROVE  Ahead(caller[c].first)' <= Ahead(s)'
  BY DEF FirstBlocks
<1>1. InCall(s, c) /\ InUse(s) /\ caller[c].first \in Slots
  BY FrameKeeps DEF PoolInv, Calls, CallSound, InCall, Begun
<1>2. Ahead(caller[c].first) <= Ahead(s)
  BY <1>1 DEF PoolInv, FirstBlocks
<1>3. Ahead(caller[c].first)' = Ahead(caller[c].first)
  BY <1>1 DEF CallsFrame, Ahead, Position
<1> QED BY <1>2, <1>3, FrameKeeps

(* A worker that has no item before and after its step. *)
LEMMA WorkerAside ==
    ASSUME PoolInv, TypeOK', NEW w \in Threads, CallsFrame, PhaseFrame,
           UNCHANGED <<WorkItemQueue, keys>>,
           \A v \in Threads : v # w => worker'[v] = worker[v],
           ~Has(w), worker[w].pc \notin HasPcs \/ StopPending, worker[w].pc # "none",
           worker'[w].pc \notin HasPcs,
           worker'[w].pc \notin {"none", "loop", "acquire", "exited"} => worker'[w].item \in Slots
    PROVE  PoolInv'
<1>0. /\ ItemsFrame
      /\ \A v \in Threads : Has(v)' => Has(v) /\ worker'[v] = worker[v]
      /\ \A v \in Threads : worker'[v].pc \in HasPcs => worker'[v] = worker[v]
  BY DEF ItemsFrame, Has, PhaseFrame
<1>1. Phases'
  <2>1. PhaseFlags'
    BY DEF PoolInv, Phases, PhaseFlags, PhaseFrame
  <2>2. BeforeStart'
    BY DEF PoolInv, Phases, BeforeStart, PhaseFrame
  <2>3. AfterStop'
    BY <1>0 DEF PoolInv, Phases, AfterStop, PhaseFrame, HasPcs, KeyPcs
  <2> QED BY <2>1, <2>2, <2>3 DEF PoolInv, Phases, PhaseFrame, CallsFrame
<1>2. Owned'
  <2>1. ItemsKnown'
    BY DEF PoolInv, Owned, ItemsKnown
  <2>2. OneWorkerEach'
    BY <1>0 DEF PoolInv, Owned, OneWorkerEach
  <2>3. ASSUME NEW v \in Threads, Has(v)'
        PROVE  ItemSound(v)'
    <3>1. worker'[v] = worker[v] /\ Item(v)' = Item(v) /\ ItemSound(v) /\ worker[v].item \in Slots
      BY <1>0, <2>3 DEF PoolInv, Owned, Item, ItemsKnown, Has, HasPcs, DataPcs, KeyPcs
    <3> QED BY <1>0, <3>1, FrameKeeps DEF ItemSound
  <2> QED BY <2>1, <2>2, <2>3 DEF Owned
<1>3. ReadyItems'
  BY <1>0, FrameKeeps DEF PoolInv, ReadyItems
<1>4. Calls'
  BY <1>0, FrameKeeps DEF PoolInv, Calls, CallSound, CallsFrame, FirstIsOwn
<1>5. Events'
  BY <1>0, FrameKeeps DEF PoolInv, Events, CallsFrame, Item, Has, HasPcs, DataPcs
<1>6. FirstBlocks'
  <2>1. \A s \in Slots : InUse(s)' => InUse(s)
    BY <1>0 DEF InUse
  <2> QED BY <1>0, <2>1, FirstBlocksFrame
<1>7. FragmentCountExact'
  <2>1. CASE StopPending
    BY <2>1 DEF FragmentCountExact, PoolInv, Phases, PhaseFlags, CallsFrame
  <2>2. CASE ~StopPending
    <3>1. \A c \in Callers : Uncounted(caller[c].first)' = Uncounted(caller[c].first)
      BY <1>0, <2>2 DEF Uncounted, HasPcs, DataPcs, CallsFrame
    <3> QED BY <3>1 DEF PoolInv, FragmentCountExact, CallsFrame
  <2> QED BY <2>1, <2>2
<1>8. KeyCountExact'
  <2> SUFFICES ASSUME ~StopPending PROVE KeyCountExact'
    BY DEF KeyCountExact, PhaseFrame
  <2>1. \A c : KeyItems(c)' = KeyItems(c)
    BY <1>0 DEF KeyItems, HasPcs, KeyPcs
  <2> QED BY <2>1 DEF PoolInv, KeyCountExact
<1> QED BY <1>1, <1>2, <1>3, <1>4, <1>5, <1>6, <1>7, <1>8 DEF PoolInv

CountPcs == {"taken", "work", "free", "freed", "decrement"}
KeyCountPcs == {"taken", "work", "keyDecrement"}

(* A worker that goes on with its item. *)
LEMMA WorkerOnward ==
    ASSUME PoolInv, TypeOK', NEW w \in Threads, ~StopPending, CallsFrame, PhaseFrame,
           UNCHANGED WorkItemQueue, \A c \in Callers : keys'[c].outstanding = keys[c].outstanding,
           \A v \in Threads : v # w => worker'[v] = worker[v],
           worker'[w].item = worker[w].item, Has(w), Has(w)',
           "signal" \notin {worker[w].pc, worker'[w].pc},
           Item(w).Type = "data" => {worker[w].pc, worker'[w].pc} \subseteq CountPcs,
           Item(w).Type = "key" => (worker[w].pc \in KeyCountPcs <=> worker'[w].pc \in KeyCountPcs),
           ItemSound(w)'
    PROVE  PoolInv'
<1>0. /\ ItemsFrame /\ worker[w].item \in Slots
      /\ \A v \in Threads : (Has(v)' <=> Has(v)) /\ worker'[v].item = worker[v].item
      /\ \A v \in Threads : worker'[v].pc = "signal" <=> worker[v].pc = "signal"
  BY DEF ItemsFrame, Has, PhaseFrame, PoolInv, Owned, ItemsKnown, HasPcs, DataPcs, KeyPcs
<1>1. Phases'
  <2>1. PhaseFlags'
    BY DEF PoolInv, Phases, PhaseFlags, PhaseFrame
  <2>2. BeforeStart'
    BY DEF PoolInv, Phases, BeforeStart, PhaseFrame, Has, HasPcs, DataPcs, KeyPcs
  <2>3. AfterStop'
    BY <1>0 DEF AfterStop, PhaseFrame
  <2> QED BY <2>1, <2>2, <2>3 DEF PoolInv, Phases, PhaseFrame, CallsFrame
<1>2. Owned'
  <2>1. ItemsKnown'
    BY <1>0 DEF PoolInv, Owned, ItemsKnown
  <2>2. OneWorkerEach'
    BY <1>0 DEF PoolInv, Owned, OneWorkerEach
  <2>3. ASSUME NEW v \in Threads, Has(v)', v # w
        PROVE  ItemSound(v)'
    <3>1. worker'[v] = worker[v] /\ Item(v)' = Item(v) /\ ItemSound(v) /\ worker[v].item \in Slots
      BY <1>0, <2>3 DEF PoolInv, Owned, Item, ItemsKnown, Has, HasPcs, DataPcs, KeyPcs
    <3> QED BY <1>0, <3>1, FrameKeeps DEF ItemSound
  <2> QED BY <2>1, <2>2, <2>3 DEF Owned
<1>3. ReadyItems'
  BY <1>0, FrameKeeps DEF PoolInv, ReadyItems
<1>4. Calls'
  BY <1>0, FrameKeeps DEF PoolInv, Calls, CallSound, CallsFrame, FirstIsOwn
<1>5. Events'
  BY <1>0, FrameKeeps DEF PoolInv, Events, CallsFrame, Item
<1>6. FirstBlocks'
  <2>1. \A s \in Slots : InUse(s)' => InUse(s)
    BY <1>0 DEF InUse
  <2> QED BY <1>0, <2>1, FirstBlocksFrame
<1>7. FragmentCountExact'
  <2>1. \A c \in Callers : Uncounted(caller[c].first)' = Uncounted(caller[c].first)
    BY <1>0 DEF Uncounted, CountPcs, CallsFrame, Item
  <2> QED BY <2>1 DEF PoolInv, FragmentCountExact, CallsFrame
<1>8. KeyCountExact'
  <2>1. \A c : KeyItems(c)' = KeyItems(c)
    BY <1>0 DEF KeyItems, KeyCountPcs, Item
  <2> QED BY <2>1 DEF PoolInv, KeyCountExact, PhaseFrame
<1> QED BY <1>1, <1>2, <1>3, <1>4, <1>5, <1>6, <1>7, <1>8 DEF PoolInv

(* What every step of a worker with its item keeps. *)
LEMMA WorkerKeeps ==
    ASSUME PoolInv, TypeOK', NEW w \in Threads, ~StopPending, CallsFrame, PhaseFrame, ItemsFrame,
           \A v \in Threads : v # w => worker'[v] = worker[v],
           worker'[w].item = worker[w].item, worker[w].item \in Slots, worker[w].pc # "none", worker'[w].pc # "none",
           \A s \in Slots : WorkItemQueue'[s].State = "Ready" => WorkItemQueue[s].State = "Ready",
           \A c \in Callers : Open(c) \/ caller[c].pc = "freeFirst" =>
              (WorkItemQueue'[caller[c].first].State = "Free" <=> WorkItemQueue[caller[c].first].State = "Free"),
           Has(w)' => InUse(worker[w].item)
    PROVE  Phases' /\ ReadyItems' /\ Calls' /\ FirstBlocks' /\ ItemsKnown'
<1>1. Phases'
  <2>1. PhaseFlags'
    BY DEF PoolInv, Phases, PhaseFlags, PhaseFrame
  <2>2. BeforeStart'
    BY DEF PoolInv, Phases, BeforeStart, PhaseFrame
  <2>3. AfterStop'
    BY DEF AfterStop, PhaseFrame
  <2> QED BY <2>1, <2>2, <2>3 DEF PoolInv, Phases, PhaseFrame, CallsFrame
<1>2. ReadyItems'
  BY FrameKeeps DEF PoolInv, ReadyItems, ItemsFrame
<1>3. Calls'
  <2>1. ASSUME NEW c \in Callers, Open(c) \/ caller[c].pc = "freeFirst"
        PROVE  FirstIsOwn(c)' <=> FirstIsOwn(c)
    <3>1. caller[c].first \in Slots
      BY <2>1 DEF PoolInv, Calls, CallSound
    <3> QED BY <2>1, <3>1 DEF FirstIsOwn, ItemsFrame, CallsFrame
  <2> QED BY <2>1, FrameKeeps DEF PoolInv, Calls, CallSound, CallsFrame, Begun
<1>4. FirstBlocks'
  <2>1. \A s \in Slots : InUse(s)' => InUse(s)
    <3>1. \A v \in Threads : v # w => (Has(v)' <=> Has(v))
      BY DEF Has, PhaseFrame
    <3> QED BY <3>1 DEF InUse
  <2> QED BY <2>1, FirstBlocksFrame
<1>5. ItemsKnown'
  BY DEF PoolInv, Owned, ItemsKnown
<1> QED BY <1>1, <1>2, <1>3, <1>4, <1>5

(* Another worker's item stays as it was. *)
LEMMA OthersSound ==
    ASSUME PoolInv, NEW w \in Threads, CallsFrame, PhaseFrame, ItemsFrame,
           NEW v \in Threads, worker'[v] = worker[v], Has(v),
           WorkItemQueue'[worker[v].item].State = WorkItemQueue[worker[v].item].State
    PROVE  ItemSound(v)'
<1>1. ItemSound(v) /\ worker[v].item \in Slots
  BY DEF PoolInv, Owned, ItemsKnown, Has, HasPcs, DataPcs, KeyPcs
<1>2. /\ Item(v)'.State = Item(v).State /\ Item(v)'.Type = Item(v).Type /\ Item(v)'.owner = Item(v).owner
      /\ Item(v)'.FirstFragment = Item(v).FirstFragment
  BY <1>1 DEF Item, ItemsFrame
<1> QED BY <1>1, <1>2, FrameKeeps DEF ItemSound

(* The items of the workers are in use, and those of data belong to a call that has begun. *)
LEMMA HasItem ==
    ASSUME PoolInv, NEW w \in Threads, Has(w)
    PROVE  /\ worker[w].item \in Slots /\ InUse(worker[w].item) /\ ItemSound(w)
           /\ Item(w).Type \in {"data", "key"}
           /\ Item(w).Type = "data" => \E c \in Callers : /\ InCall(worker[w].item, c) /\ Begun(c) /\ FirstIsOwn(c)
                                                          /\ caller[c].first \in Slots
                                                          /\ Item(w).FirstFragment = caller[c].first
<1>1. worker[w].item \in Slots /\ InUse(worker[w].item) /\ ItemSound(w)
  BY DEF PoolInv, Owned, ItemsKnown, Has, HasPcs, DataPcs, KeyPcs, InUse
<1>2. Item(w).Type \in {"data", "key"}
  BY <1>1 DEF PoolInv, TypeOK, WorkItems, Item
<1>3. ASSUME Item(w).Type = "data"
      PROVE  \E c \in Callers : /\ InCall(worker[w].item, c) /\ Begun(c) /\ FirstIsOwn(c)
                                /\ caller[c].first \in Slots /\ Item(w).FirstFragment = caller[c].first
  <2>1. PICK c \in Callers : InCall(worker[w].item, c)
    BY <1>1, <1>3 DEF ItemSound
  <2> QED BY <2>1 DEF InCall, Begun, Item, PoolInv, Calls, CallSound
<1> QED BY <1>1, <1>2, <1>3

(* Two calls that have begun do not share their first fragment. *)
LEMMA FirstsDiffer ==
    ASSUME PoolInv, NEW c \in Callers, NEW d \in Callers,
           Begun(c) \/ caller[c].pc = "freeFirst", Open(d) \/ caller[d].pc = "freeFirst", caller[c].first = caller[d].first
    PROVE  c = d
<1>1. FirstIsOwn(c) /\ caller[c].first \in Slots
  BY DEF PoolInv, Calls, CallSound, Begun
<1>2. Begun(d) \/ caller[d].pc = "freeFirst"
  <2> SUFFICES ASSUME Open(d), ~(caller[d].data > 1) PROVE FALSE
    BY DEF Begun
  <2>1. caller[d].data >= 1 /\ caller[d].data \in Nat
    BY DEF PoolInv, Calls, CallSound, TypeOK, CallerStates
  <2>2. caller[d].data = 1
    BY <2>1
  <2> QED BY <1>1, <2>2 DEF PoolInv, Calls, CallSound, FirstIsOwn
<1>3. FirstIsOwn(d)
  BY <1>2 DEF PoolInv, Calls, CallSound
<1> QED BY <1>1, <1>3 DEF FirstIsOwn

(* Without a new signal and without a change of the counters the events stay sound. *)
LEMMA EventsKept ==
    ASSUME PoolInv, CallsFrame, ItemsFrame, CountsFrame, EventsFrame,
           \A v \in Threads : worker'[v].pc = "signal" => worker'[v] = worker[v]
    PROVE  Events'
<1>1. \A v \in Threads : worker'[v].pc = "signal" =>
         worker[v].pc = "signal" /\ Item(v)'.FirstFragment = Item(v).FirstFragment /\ Item(v).FirstFragment \in Slots
  <2> SUFFICES ASSUME NEW v \in Threads, worker'[v].pc = "signal"
               PROVE  worker[v].pc = "signal" /\ Item(v)'.FirstFragment = Item(v).FirstFragment
                      /\ Item(v).FirstFragment \in Slots
    OBVIOUS
  <2>1. worker'[v] = worker[v] /\ worker[v].pc = "signal" /\ Has(v)
    BY DEF Has, HasPcs, DataPcs
  <2>2. worker[v].item \in Slots /\ Item(v).Type = "data" /\ Item(v).FirstFragment \in Slots
    BY <2>1, HasItem DEF ItemSound, DataPcs
  <2> QED BY <2>1, <2>2 DEF ItemsFrame, Item
<1> QED BY <1>1, FrameKeeps DEF PoolInv, Events, CallsFrame, CountsFrame, EventsFrame

(* A Ready item is taken: it was nobody's. *)
LEMMA TakeKeeps ==
    ASSUME PoolInv, TypeOK', NEW w \in Threads, ~StopPending, CallsFrame, PhaseFrame, UNCHANGED keys,
           \A v \in Threads : v # w => worker'[v] = worker[v],
           worker[w].pc = "poll", worker'[w].pc = "taken", worker'[w].item = worker[w].item,
           WorkItemQueue[worker[w].item].State = "Ready",
           WorkItemQueue' = [WorkItemQueue EXCEPT ![worker[w].item].State = "Busy"]
    PROVE  PoolInv'
<1> DEFINE i == worker[w].item
<1>1. i \in Slots
  BY DEF PoolInv, Owned, ItemsKnown
<1>2. /\ WorkItemQueue'[i].State = "Busy"
      /\ \A t \in Slots : t # i => WorkItemQueue'[t] = WorkItemQueue[t]
  BY <1>1, StateSet DEF PoolInv
<1>3. ItemsFrame /\ CountsFrame /\ EventsFrame
  BY <1>1, StateSet DEF PoolInv
<1>4. ~Has(w) /\ Has(w)' /\ \A v \in Threads : v # w => (Has(v)' <=> Has(v)) /\ worker'[v].item = worker[v].item
  BY DEF Has, HasPcs, DataPcs, KeyPcs, PhaseFrame
<1>5. \A v \in Threads : Has(v) => worker[v].item # i
  <2> SUFFICES ASSUME NEW v \in Threads, Has(v), worker[v].item = i PROVE FALSE
    OBVIOUS
  <2>1. ItemSound(v)
    BY HasItem
  <2> QED BY <2>1 DEF ItemSound, Has, HasPcs, DataPcs, KeyPcs, HeldPcs, Item
<1>6. Phases' /\ ReadyItems' /\ Calls' /\ FirstBlocks' /\ ItemsKnown'
  <2>1. \A s \in Slots : WorkItemQueue'[s].State = "Ready" => WorkItemQueue[s].State = "Ready"
    BY <1>1, <1>2
  <2>2. \A c \in Callers : Open(c) \/ caller[c].pc = "freeFirst" =>
              (WorkItemQueue'[caller[c].first].State = "Free" <=> WorkItemQueue[caller[c].first].State = "Free")
    BY <1>1, <1>2 DEF PoolInv, Calls, CallSound
  <2>3. InUse(i)
    BY DEF InUse
  <2> QED BY <1>1, <1>3, <2>1, <2>2, <2>3, WorkerKeeps
<1>7. OneWorkerEach'
  BY <1>4, <1>5 DEF PoolInv, Owned, OneWorkerEach
<1>8. ASSUME NEW v \in Threads, Has(v)'
      PROVE  ItemSound(v)'
  <2>1. CASE v = w
    <3>1. Item(w)'.State = "Busy" /\ worker'[w].item = i /\ Item(w)' = WorkItemQueue'[i]
      BY <1>2 DEF Item
    <3>2. /\ Item(w)'.Type = "data" => \E c \in Callers : InCall(i, c)'
          /\ Item(w)'.Type = "key" => Item(w)'.owner \in Callers
      BY <1>1, <1>3, <3>1, FrameKeeps DEF PoolInv, ReadyItems, ItemsFrame
    <3>3. worker'[w].pc \notin DataPcs \cup KeyPcs
      BY DEF DataPcs, KeyPcs
    <3> QED BY <2>1, <3>1, <3>2, <3>3 DEF ItemSound, DataPcs
  <2>2. CASE v # w
    <3>1. Has(v) /\ worker[v].item # i /\ worker'[v] = worker[v] /\ worker[v].item \in Slots
      BY <1>4, <1>5, <1>8, <2>2, HasItem
    <3> QED BY <1>2, <1>3, <3>1, OthersSound
  <2> QED BY <2>1, <2>2
<1>9. Events'
  BY <1>3, EventsKept
<1>10. FragmentCountExact'
  <2>1. \A c \in Callers : Uncounted(caller[c].first)' = Uncounted(caller[c].first)
    BY <1>1, <1>2, <1>3, <1>4 DEF Uncounted, CallsFrame, ItemsFrame
  <2>2. \A c \in Callers : Open(c) => caller[c].first \in Slots
    BY DEF PoolInv, Calls, CallSound
  <2> QED BY <1>3, <2>1, <2>2 DEF PoolInv, FragmentCountExact, CallsFrame, Open, CountsFrame
<1>11. KeyCountExact'
  <2>1. \A c : KeyItems(c)' = KeyItems(c)
    BY <1>1, <1>2, <1>3, <1>4 DEF KeyItems, ItemsFrame
  <2> QED BY <2>1 DEF PoolInv, KeyCountExact, PhaseFrame
<1> QED BY <1>6, <1>7, <1>8, <1>9, <1>10, <1>11 DEF PoolInv, Owned

(* The first fragment of a call is not an item that a worker may free. *)
LEMMA FirstNotFreed ==
    ASSUME PoolInv, NEW w \in Threads, Has(w), worker[w].pc \in {"free", "keyFree"},
           NEW c \in Callers, Open(c) \/ caller[c].pc = "freeFirst"
    PROVE  caller[c].first # worker[w].item /\ caller[c].first \in Slots
<1>1. caller[c].first \in Slots
  BY DEF PoolInv, Calls, CallSound
<1>2. ASSUME caller[c].first = worker[w].item PROVE FALSE
  <2>1. Item(w).State = "Busy" /\ (Item(w).Type = "key" \/ Item(w).FirstFragment # worker[w].item)
    BY HasItem DEF ItemSound, HeldPcs, KeyPcs
  <2>2. CASE Open(c) /\ ~Begun(c)
    <3>1. caller[c].data = 1
      BY <2>2 DEF Begun, PoolInv, Calls, CallSound, TypeOK, CallerStates
    <3> QED BY <1>2, <2>1, <2>2, <3>1 DEF PoolInv, Calls, CallSound, Item
  <2>3. CASE Begun(c) \/ caller[c].pc = "freeFirst"
    BY <1>2, <2>1, <2>3 DEF PoolInv, Calls, CallSound, FirstIsOwn, Item
  <2> QED BY <2>2, <2>3
<1> QED BY <1>1, <1>2

LEMMA FreeKeeps ==
    ASSUME PoolInv, TypeOK', NEW w \in Threads, ~StopPending, CallsFrame, PhaseFrame, UNCHANGED keys,
           \A v \in Threads : v # w => worker'[v] = worker[v],
           worker[w].pc \in {"free", "keyFree"}, worker'[w].item = worker[w].item,
           worker'[w].pc = IF worker[w].pc = "free" THEN "freed" ELSE "keyFreed",
           WorkItemQueue' = [WorkItemQueue EXCEPT ![worker[w].item].State = "Free"]
    PROVE  PoolInv'
<1> DEFINE i == worker[w].item
<1>0. Has(w) /\ (Has(w)' <=> worker[w].pc = "free")
  BY DEF Has, HasPcs, DataPcs, KeyPcs, PhaseFrame
<1>1. i \in Slots /\ InUse(i) /\ ItemSound(w)
  BY <1>0, HasItem
<1>2. /\ WorkItemQueue'[i].State = "Free" /\ WorkItemQueue[i].State = "Busy"
      /\ \A t \in Slots : t # i => WorkItemQueue'[t] = WorkItemQueue[t]
  BY <1>1, StateSet DEF PoolInv, ItemSound, HeldPcs, KeyPcs, Item
<1>3. ItemsFrame /\ CountsFrame /\ EventsFrame
  BY <1>1, StateSet DEF PoolInv
<1>4. \A v \in Threads : v # w => (Has(v)' <=> Has(v)) /\ worker'[v].item = worker[v].item
  BY DEF Has, PhaseFrame
<1>5. \A v \in Threads : Has(v) /\ v # w => worker[v].item # i
  BY <1>0 DEF PoolInv, Owned, OneWorkerEach
<1>6. Phases' /\ ReadyItems' /\ Calls' /\ FirstBlocks' /\ ItemsKnown'
  <2>1. \A s \in Slots : WorkItemQueue'[s].State = "Ready" => WorkItemQueue[s].State = "Ready"
    BY <1>1, <1>2
  <2>2. \A c \in Callers : Open(c) \/ caller[c].pc = "freeFirst" =>
              (WorkItemQueue'[caller[c].first].State = "Free" <=> WorkItemQueue[caller[c].first].State = "Free")
    BY <1>0, <1>2, FirstNotFreed
  <2> QED BY <1>1, <1>3, <2>1, <2>2, WorkerKeeps
<1>7. OneWorkerEach'
  BY <1>0, <1>4 DEF PoolInv, Owned, OneWorkerEach
<1>8. ASSUME NEW v \in Threads, Has(v)'
      PROVE  ItemSound(v)'
  <2>1. CASE v = w
    <3>1. /\ Item(w)'.State = "Free" /\ worker'[w].item = i /\ worker'[w].pc = "freed"
          /\ Item(w)'.Type = "data" /\ Item(w)'.FirstFragment # i
      BY <1>0, <1>1, <1>2, <1>3, <1>8, <2>1 DEF Item, ItemsFrame, ItemSound, DataPcs
    <3>2. \E c \in Callers : InCall(i, c)'
      BY <1>1, <1>3, <3>1, FrameKeeps DEF ItemSound, Item, ItemsFrame
    <3> QED BY <2>1, <3>1, <3>2 DEF ItemSound, HeldPcs, KeyPcs
  <2>2. CASE v # w
    <3>1. Has(v) /\ worker[v].item # i /\ worker'[v] = worker[v] /\ worker[v].item \in Slots
      BY <1>4, <1>5, <1>8, <2>2, HasItem
    <3> QED BY <1>2, <1>3, <3>1, OthersSound
  <2> QED BY <2>1, <2>2
<1>9. Events'
  BY <1>3, EventsKept
<1>10. FragmentCountExact'
  <2>1. \A c \in Callers : Uncounted(caller[c].first)' = Uncounted(caller[c].first)
    BY <1>1, <1>2, <1>3, <1>4 DEF Uncounted, CallsFrame, ItemsFrame
  <2>2. \A c \in Callers : Open(c) => caller[c].first \in Slots
    BY DEF PoolInv, Calls, CallSound
  <2> QED BY <1>3, <2>1, <2>2 DEF PoolInv, FragmentCountExact, CallsFrame, Open, CountsFrame
<1>11. KeyCountExact'
  <2>1. \A c : KeyItems(c)' = KeyItems(c)
    BY <1>1, <1>2, <1>3, <1>4 DEF KeyItems, ItemsFrame
  <2> QED BY <2>1 DEF PoolInv, KeyCountExact, PhaseFrame
<1> QED BY <1>6, <1>7, <1>8, <1>9, <1>10, <1>11 DEF PoolInv, Owned

(* The counter of an open call is at least one as long as a fragment is not counted off. *)
LEMMA CounterPositive ==
    ASSUME PoolInv, NEW w \in Threads, worker[w].pc \in CountPcs, Has(w), Item(w).Type = "data"
    PROVE  /\ Item(w).FirstFragment \in Slots
           /\ worker[w].item \in Uncounted(Item(w).FirstFragment)
           /\ WorkItemQueue[Item(w).FirstFragment].OutstandingFragmentCount >= 1
           /\ WorkItemQueue[Item(w).FirstFragment].OutstandingFragmentCount \in Nat
<1> DEFINE f == Item(w).FirstFragment
<1>1. PICK c \in Callers : /\ InCall(worker[w].item, c) /\ Begun(c) /\ caller[c].first \in Slots /\ f = caller[c].first
  BY HasItem
<1>2. worker[w].item \in Uncounted(f)
  BY HasItem DEF Uncounted, CountPcs, Item
<1>3. Cardinality(Uncounted(f)) \in Nat /\ Cardinality(Uncounted(f)) >= 1
  BY <1>2, CountedItems, OneLess
<1>4. WorkItemQueue[f].OutstandingFragmentCount = caller[c].left + Cardinality(Uncounted(f))
  BY <1>1 DEF PoolInv, FragmentCountExact, Begun, Open
<1>5. caller[c].left \in Nat
  BY DEF PoolInv, TypeOK, CallerStates
<1>6. WorkItemQueue[f].OutstandingFragmentCount >= 1 /\ WorkItemQueue[f].OutstandingFragmentCount \in Nat
  BY <1>3, <1>4, <1>5
<1> QED BY <1>1, <1>2, <1>6

LEMMA KeyCounterPositive ==
    ASSUME PoolInv, NEW w \in Threads, worker[w].pc \in KeyCountPcs, Has(w), Item(w).Type = "key", ~StopPending
    PROVE  /\ Item(w).owner \in Callers /\ worker[w].item \in KeyItems(Item(w).owner)
           /\ keys[Item(w).owner].outstanding \in Nat /\ keys[Item(w).owner].outstanding >= 1
<1>1. Item(w).owner \in Callers
  BY HasItem DEF ItemSound
<1>2. worker[w].item \in KeyItems(Item(w).owner)
  BY HasItem DEF KeyItems, KeyCountPcs, Item
<1>3. Cardinality(KeyItems(Item(w).owner)) \in Nat /\ Cardinality(KeyItems(Item(w).owner)) >= 1
  BY <1>2, CountedItems, OneLess
<1> QED BY <1>1, <1>2, <1>3 DEF PoolInv, KeyCountExact

(* A fragment is counted off. *)
LEMMA DecrementKeeps ==
    ASSUME PoolInv, TypeOK', NEW w \in Threads, ~StopPending,
           NEW i, NEW f, i = worker[w].item, f = Item(w).FirstFragment, CallsFrame, PhaseFrame, UNCHANGED keys,
           \A v \in Threads : v # w => worker'[v] = worker[v],
           worker[w].pc = "decrement", worker'[w].item = worker[w].item, NEW n \in Nat,
           n = WorkItemQueue[f].OutstandingFragmentCount - 1,
           worker'[w].pc = IF n = 0 THEN "signal" ELSE "loop",
           ItemsFrame, StatesFrame, EventsFrame, WorkItemQueue'[f].OutstandingFragmentCount = n,
           \A s \in Slots : s # f => WorkItemQueue'[s] = WorkItemQueue[s]
    PROVE  PoolInv'
<1>0. Has(w) /\ (Has(w)' <=> n = 0) /\ Item(w).Type = "data"
  BY HasItem DEF Has, HasPcs, DataPcs, KeyPcs, PhaseFrame, ItemSound
<1>1. i \in Slots /\ InUse(i) /\ ItemSound(w) /\ f \in Slots
      /\ i \in Uncounted(f) /\ WorkItemQueue[f].OutstandingFragmentCount >= 1
      /\ WorkItemQueue[f].OutstandingFragmentCount \in Nat
  BY <1>0, HasItem, CounterPositive DEF CountPcs
<1>2. PICK c \in Callers : InCall(i, c) /\ Begun(c) /\ caller[c].first = f
  BY <1>0, HasItem
<1>3. ItemsFrame /\ StatesFrame /\ EventsFrame /\ WorkItemQueue'[f].OutstandingFragmentCount = n
      /\ \A s \in Slots : s # f => WorkItemQueue'[s] = WorkItemQueue[s]
  OBVIOUS
<1>4. \A v \in Threads : v # w => (Has(v)' <=> Has(v)) /\ worker'[v].item = worker[v].item
  BY DEF Has, PhaseFrame
<1>5. \A v \in Threads : Has(v) /\ v # w => worker[v].item # i
  BY <1>0 DEF PoolInv, Owned, OneWorkerEach
<1>6. Phases' /\ ReadyItems' /\ Calls' /\ FirstBlocks' /\ ItemsKnown'
  <2>1. \A d \in Callers : Open(d) \/ caller[d].pc = "freeFirst" =>
              (WorkItemQueue'[caller[d].first].State = "Free" <=> WorkItemQueue[caller[d].first].State = "Free")
    BY <1>3 DEF StatesFrame, PoolInv, Calls, CallSound
  <2> QED BY <1>1, <1>3, <2>1, WorkerKeeps DEF StatesFrame
<1>7. OneWorkerEach'
  BY <1>0, <1>4 DEF PoolInv, Owned, OneWorkerEach
<1>8. ASSUME NEW v \in Threads, Has(v)'
      PROVE  ItemSound(v)'
  <2>1. CASE v = w
    <3>1. /\ Item(w)'.State = Item(w).State /\ worker'[w].item = i /\ worker'[w].pc = "signal"
          /\ Item(w)'.Type = "data" /\ Item(w)'.FirstFragment = f
      BY <1>0, <1>1, <1>3, <1>8, <2>1 DEF Item, ItemsFrame, StatesFrame
    <3>2. InCall(i, c)'
      BY <1>1, <1>2, <1>3, FrameKeeps
    <3> QED BY <1>1, <2>1, <3>1, <3>2, SMTT(60) DEF ItemSound, HeldPcs, KeyPcs
  <2>2. CASE v # w
    <3>1. Has(v) /\ worker'[v] = worker[v] /\ worker[v].item \in Slots
      BY <1>4, <1>8, <2>2, HasItem
    <3> QED BY <1>3, <3>1, OthersSound DEF StatesFrame
  <2> QED BY <2>1, <2>2
<1>9. Events'
  <2>1. \A v \in Threads : worker'[v].pc = "signal" =>
           \/ v = w /\ n = 0 /\ Item(v)'.FirstFragment = f
           \/ /\ v # w /\ worker[v].pc = "signal" /\ Item(v)'.FirstFragment = Item(v).FirstFragment
              /\ Item(v).FirstFragment \in Slots /\ Item(v).FirstFragment # f
    <3>0. Item(w)'.FirstFragment = f /\ (worker'[w].pc = "signal" => n = 0)
      BY <1>1, <1>3 DEF Item, ItemsFrame
    <3> SUFFICES ASSUME NEW v \in Threads, worker'[v].pc = "signal", v # w
                 PROVE  /\ worker[v].pc = "signal" /\ Item(v)'.FirstFragment = Item(v).FirstFragment
                        /\ Item(v).FirstFragment \in Slots /\ Item(v).FirstFragment # f
      BY <3>0
    <3>1. worker'[v] = worker[v] /\ worker[v].pc = "signal" /\ Has(v)
      BY DEF Has, HasPcs, DataPcs
    <3>2. worker[v].item \in Slots /\ Item(v).Type = "data" /\ Item(v).FirstFragment \in Slots
      BY <3>1, HasItem DEF ItemSound, DataPcs
    <3>3. WorkItemQueue[Item(v).FirstFragment].OutstandingFragmentCount = 0
      BY <3>1 DEF PoolInv, Events
    <3>4. Item(v)'.FirstFragment = Item(v).FirstFragment
      BY <1>3, <3>1, <3>2 DEF ItemsFrame, Item
    <3> QED BY <1>1, <3>1, <3>2, <3>3, <3>4
  <2>2. \A s \in Slots : WorkItemQueue'[s].ItemCompletedEvent => WorkItemQueue[s].ItemCompletedEvent /\ s # f
    BY <1>1, <1>3 DEF EventsFrame, PoolInv, Events
  <2> QED BY <1>3, <2>1, <2>2, FrameKeeps DEF PoolInv, Events, CallsFrame
<1>10. FragmentCountExact'
  <2>0. \A v \in Threads : v # w /\ worker[v].item = i => worker[v].pc \notin CountPcs
    BY <1>5 DEF Has, HasPcs, DataPcs, CountPcs
  <2>1. Uncounted(f)' = Uncounted(f) \ {i}
    <3>1. WorkItemQueue[i].State # "Ready"
      BY <1>1 DEF ItemSound, Item
    <3>2. i \notin Uncounted(f)'
      BY <1>1, <1>3, <1>4, <2>0, <3>1 DEF Uncounted, StatesFrame, CountPcs
    <3>3. \A s \in Slots : s # i => (s \in Uncounted(f)' <=> s \in Uncounted(f))
      BY <1>3, <1>4 DEF Uncounted, ItemsFrame, StatesFrame
    <3>4. Uncounted(f)' \subseteq Slots /\ Uncounted(f) \subseteq Slots
      BY DEF Uncounted
    <3> QED BY <3>2, <3>3, <3>4
  <2>2. Cardinality(Uncounted(f)') = Cardinality(Uncounted(f)) - 1 /\ Cardinality(Uncounted(f)) \in Nat
    BY <1>1, <2>1, OneLess, CountedItems
  <2>3. ASSUME NEW d \in Callers, Open(d), d # c
        PROVE  /\ caller[d].first \in Slots /\ caller[d].first # f
               /\ Uncounted(caller[d].first)' = Uncounted(caller[d].first)
    <3>1. caller[d].first \in Slots /\ caller[d].first # f
      BY <1>2, <2>3, FirstsDiffer DEF PoolInv, Calls, CallSound
    <3>2. WorkItemQueue[i].FirstFragment = f
      BY DEF Item
    <3> QED BY <1>1, <1>3, <1>4, <3>1, <3>2 DEF Uncounted, ItemsFrame, StatesFrame, CallsFrame
  <2>4. ASSUME NEW d \in Callers, Open(d)
        PROVE  WorkItemQueue'[caller[d].first].OutstandingFragmentCount
                  = caller[d].left + Cardinality(Uncounted(caller[d].first)')
    <3>1. WorkItemQueue[caller[d].first].OutstandingFragmentCount
             = caller[d].left + Cardinality(Uncounted(caller[d].first)) /\ caller[d].left \in Nat
      BY <2>4 DEF PoolInv, FragmentCountExact, Open, TypeOK, CallerStates
    <3>2. CASE d = c
      <4>1. Uncounted(caller[d].first)' = Uncounted(f)'
        BY <1>2, <3>2 DEF Uncounted, CallsFrame
      <4>2. caller[d].first = f
        BY <1>2, <3>2
      <4> QED BY <1>1, <1>3, <2>2, <3>1, <4>1, <4>2
    <3>3. CASE d # c
      BY <1>3, <2>3, <2>4, <3>1, <3>3
    <3> QED BY <3>2, <3>3
  <2> QED BY <2>4 DEF FragmentCountExact, CallsFrame, Open
<1>11. KeyCountExact'
  <2>1. \A d : KeyItems(d)' = KeyItems(d)
    BY <1>1, <1>3, <1>4 DEF KeyItems, ItemsFrame, StatesFrame
  <2> QED BY <2>1 DEF PoolInv, KeyCountExact, PhaseFrame
<1> QED BY <1>6, <1>7, <1>8, <1>9, <1>10, <1>11 DEF PoolInv, Owned

(* The completion event of the call is set. *)
LEMMA SignalKeeps ==
    ASSUME PoolInv, TypeOK', NEW w \in Threads, ~StopPending, CallsFrame, PhaseFrame, UNCHANGED keys,
           \A v \in Threads : v # w => worker'[v] = worker[v],
           worker[w].pc = "signal", worker'[w].item = worker[w].item, worker'[w].pc = "loop",
           WorkItemQueue' = [WorkItemQueue EXCEPT ![Item(w).FirstFragment].ItemCompletedEvent = TRUE]
    PROVE  PoolInv'
<1> DEFINE i == worker[w].item
           f == Item(w).FirstFragment
<1>0. Has(w) /\ ~Has(w)' /\ Item(w).Type = "data"
  BY HasItem DEF Has, HasPcs, DataPcs, KeyPcs, PhaseFrame, ItemSound
<1>1. i \in Slots /\ ItemSound(w)
  BY <1>0, HasItem
<1>2. PICK c \in Callers : InCall(i, c) /\ Begun(c) /\ caller[c].first = f /\ f \in Slots
  BY <1>0, HasItem
<1>3. ItemsFrame /\ StatesFrame /\ CountsFrame
      /\ \A s \in Slots : s # f => WorkItemQueue'[s] = WorkItemQueue[s]
  BY <1>2, EventSet DEF PoolInv
<1>4. \A v \in Threads : v # w => (Has(v)' <=> Has(v)) /\ worker'[v].item = worker[v].item
  BY DEF Has, PhaseFrame
<1>6. Phases' /\ ReadyItems' /\ Calls' /\ FirstBlocks' /\ ItemsKnown'
  <2>1. \A d \in Callers : Open(d) \/ caller[d].pc = "freeFirst" =>
              (WorkItemQueue'[caller[d].first].State = "Free" <=> WorkItemQueue[caller[d].first].State = "Free")
    BY <1>3 DEF StatesFrame, PoolInv, Calls, CallSound
  <2> QED BY <1>0, <1>1, <1>3, <2>1, WorkerKeeps DEF StatesFrame
<1>7. OneWorkerEach'
  BY <1>0, <1>4 DEF PoolInv, Owned, OneWorkerEach
<1>8. ASSUME NEW v \in Threads, Has(v)'
      PROVE  ItemSound(v)'
  <2>1. Has(v) /\ worker'[v] = worker[v] /\ worker[v].item \in Slots
    BY <1>0, <1>4, <1>8, HasItem
  <2> QED BY <1>3, <2>1, OthersSound DEF StatesFrame
<1>9. Events'
  <2>1. \A v \in Threads : worker'[v].pc = "signal" =>
           /\ v # w /\ worker[v].pc = "signal" /\ Item(v)'.FirstFragment = Item(v).FirstFragment
           /\ Item(v).FirstFragment \in Slots /\ Item(v).FirstFragment # f
    <3> SUFFICES ASSUME NEW v \in Threads, worker'[v].pc = "signal"
                 PROVE  /\ v # w /\ worker[v].pc = "signal" /\ Item(v)'.FirstFragment = Item(v).FirstFragment
                        /\ Item(v).FirstFragment \in Slots /\ Item(v).FirstFragment # f
      OBVIOUS
    <3>1. worker'[v] = worker[v] /\ worker[v].pc = "signal" /\ Has(v) /\ v # w
      BY DEF Has, HasPcs, DataPcs
    <3>2. worker[v].item \in Slots /\ Item(v).Type = "data" /\ Item(v).FirstFragment \in Slots
      BY <3>1, HasItem DEF ItemSound, DataPcs
    <3>3. Item(v).FirstFragment # f
      BY <3>1 DEF PoolInv, Events
    <3> QED BY <1>3, <3>1, <3>2, <3>3 DEF ItemsFrame, Item
  <2>2. WorkItemQueue[f].OutstandingFragmentCount = 0
    BY DEF PoolInv, Events
  <2> QED BY <1>2, <1>3, <2>1, <2>2, FrameKeeps, SMTT(60) DEF PoolInv, Events, CallsFrame, CountsFrame
<1>10. FragmentCountExact'
  <2>1. \A d \in Callers : Uncounted(caller[d].first)' = Uncounted(caller[d].first)
    BY <1>1, <1>3, <1>4 DEF Uncounted, CallsFrame, ItemsFrame, StatesFrame
  <2>2. \A d \in Callers : Open(d) => caller[d].first \in Slots
    BY DEF PoolInv, Calls, CallSound
  <2> QED BY <1>3, <2>1, <2>2 DEF PoolInv, FragmentCountExact, CallsFrame, Open, CountsFrame
<1>11. KeyCountExact'
  <2>1. \A d : KeyItems(d)' = KeyItems(d)
    BY <1>1, <1>3, <1>4 DEF KeyItems, ItemsFrame, StatesFrame
  <2> QED BY <2>1 DEF PoolInv, KeyCountExact, PhaseFrame
<1> QED BY <1>6, <1>7, <1>8, <1>9, <1>10, <1>11 DEF PoolInv, Owned

(* A derived key is counted off. *)
LEMMA KeyDecrementKeeps ==
    ASSUME PoolInv, TypeOK', NEW w \in Threads, ~StopPending,
           NEW i, NEW o, i = worker[w].item, o = Item(w).owner, CallsFrame, PhaseFrame, UNCHANGED WorkItemQueue,
           \A v \in Threads : v # w => worker'[v] = worker[v],
           worker[w].pc = "keyDecrement", worker'[w].item = worker[w].item,
           worker'[w].pc \in {"keySignal", "keyFree"},
           \A c \in Callers : keys'[c].outstanding = keys[c].outstanding - (IF c = o THEN 1 ELSE 0)
    PROVE  PoolInv'
<1>0. Has(w) /\ Has(w)' /\ Item(w).Type = "key"
  BY HasItem DEF Has, HasPcs, DataPcs, KeyPcs, PhaseFrame, ItemSound
<1>1. i \in Slots /\ InUse(i) /\ ItemSound(w)
  BY <1>0, HasItem
<1>3. ItemsFrame /\ CountsFrame /\ EventsFrame
  BY DEF ItemsFrame, CountsFrame, EventsFrame
<1>4. \A v \in Threads : v # w => (Has(v)' <=> Has(v)) /\ worker'[v].item = worker[v].item
  BY DEF Has, PhaseFrame
<1>5. \A v \in Threads : Has(v) /\ v # w => worker[v].item # i
  BY <1>0 DEF PoolInv, Owned, OneWorkerEach
<1>6. Phases' /\ ReadyItems' /\ Calls' /\ FirstBlocks' /\ ItemsKnown'
  BY <1>1, <1>3, WorkerKeeps
<1>7. OneWorkerEach'
  BY <1>0, <1>4 DEF PoolInv, Owned, OneWorkerEach
<1>8. ASSUME NEW v \in Threads, Has(v)'
      PROVE  ItemSound(v)'
  <2>1. CASE v = w
    <3>1. Item(w)' = Item(w) /\ Item(w).State = "Busy" /\ Item(w).owner \in Callers
      BY <1>0, <1>1 DEF Item, ItemSound, HeldPcs, KeyPcs
    <3> QED BY <1>0, <2>1, <3>1 DEF ItemSound, HeldPcs, KeyPcs, DataPcs
  <2>2. CASE v # w
    <3>1. Has(v) /\ worker'[v] = worker[v]
      BY <1>4, <1>8, <2>2
    <3> QED BY <1>3, <3>1, OthersSound
  <2> QED BY <2>1, <2>2
<1>9. Events'
  BY <1>3, EventsKept
<1>10. FragmentCountExact'
  <2>1. \A c \in Callers : Uncounted(caller[c].first)' = Uncounted(caller[c].first)
    BY <1>0, <1>4 DEF Uncounted, CallsFrame, Item
  <2> QED BY <2>1 DEF PoolInv, FragmentCountExact, CallsFrame
<1>11. KeyCountExact'
  <2>1. o \in Callers /\ i \in KeyItems(o)
    BY <1>0, KeyCounterPositive DEF KeyCountPcs
  <2>2. \A v \in Threads : v # w /\ worker[v].item = i => worker[v].pc \notin KeyCountPcs
    BY <1>5 DEF Has, HasPcs, KeyPcs, KeyCountPcs
  <2>3. KeyItems(o)' = KeyItems(o) \ {i}
    <3>1. WorkItemQueue[i].State # "Ready"
      BY <1>1 DEF ItemSound, Item, HeldPcs, KeyPcs
    <3>2. i \notin KeyItems(o)'
      BY <1>4, <2>2, <3>1 DEF KeyItems, KeyCountPcs
    <3>3. \A s \in Slots : s # i => (s \in KeyItems(o)' <=> s \in KeyItems(o))
      BY <1>4 DEF KeyItems
    <3>4. KeyItems(o)' \subseteq Slots /\ KeyItems(o) \subseteq Slots
      BY DEF KeyItems
    <3> QED BY <3>2, <3>3, <3>4
  <2>4. \A c \in Callers : c # o => KeyItems(c)' = KeyItems(c)
    BY <1>4 DEF KeyItems, Item
  <2>5. Cardinality(KeyItems(o)') = Cardinality(KeyItems(o)) - 1
    BY <2>1, <2>3, OneLess, CountedItems
  <2>6. \A c \in Callers : keys[c].outstanding = Cardinality(KeyItems(c)) /\ Cardinality(KeyItems(c)) \in Nat
    BY CountedItems DEF PoolInv, KeyCountExact
  <2>7. ASSUME NEW c \in Callers
        PROVE  keys'[c].outstanding = Cardinality(KeyItems(c)')
    <3>1. CASE c = o
      BY <2>5, <2>6, <3>1
    <3>2. CASE c # o
      <4>1. keys'[c].outstanding = keys[c].outstanding - 0
        BY <3>2
      <4> QED BY <2>4, <2>6, <3>2, <4>1
    <3> QED BY <3>1, <3>2
  <2> QED BY <2>7 DEF KeyCountExact
<1> QED BY <1>6, <1>7, <1>8, <1>9, <1>10, <1>11 DEF PoolInv, Owned

(* Once a stop is pending no call is open, and a worker only leaves its item or takes one and leaves. *)
LEMMA StopKeeps ==
    ASSUME PoolInv, TypeOK', NEW w \in Threads, StopPending, CallsFrame, PhaseFrame, ItemsFrame, EventsFrame,
           \A c \in Callers : keys'[c].outstanding = keys[c].outstanding,
           \A v \in Threads : v # w => worker'[v] = worker[v],
           NEW i \in Slots, i = worker[w].item, worker'[w].item = i,
           \A s \in Slots : s # i => WorkItemQueue'[s] = WorkItemQueue[s],
           \/ worker'[w].pc = "taken" /\ WorkItemQueue'[i].State = "Busy"
           \/ worker[w].pc = "keySignal" /\ worker'[w].pc = "keyFree" /\ WorkItemQueue'[i].State = WorkItemQueue[i].State
           \/ worker[w].pc = "keyFree" /\ worker'[w].pc = "keyFreed" /\ WorkItemQueue'[i].State = "Free"
    PROVE  PoolInv'
<1>1. /\ \A c \in Callers : caller[c].pc = "idle" /\ caller'[c].pc = "idle"
      /\ \A c \in Callers : ~Open(c) /\ ~Begun(c) /\ ~Open(c)' /\ ~Begun(c)'
  BY DEF PoolInv, Phases, PhaseFlags, CallsFrame, Open, Begun
<1>2. /\ \A v \in Threads : v # w => (Has(v)' <=> Has(v))
      /\ Has(w)' => Has(w) /\ worker'[w].pc = "keyFree" /\ WorkItemQueue'[i].State = WorkItemQueue[i].State
      /\ worker'[w].pc # "none" /\ worker[w].pc = "keyFree" => Has(w)
  BY DEF Has, PhaseFrame, HasPcs, DataPcs, KeyPcs
<1>3. Phases'
  <2>1. PhaseFlags'
    BY DEF PoolInv, Phases, PhaseFlags, PhaseFrame
  <2>2. BeforeStart'
    BY DEF PoolInv, Phases, PhaseFlags, BeforeStart, PhaseFrame
  <2>3. AfterStop'
    BY DEF PoolInv, Phases, AfterStop, PhaseFrame, DataPcs
  <2> QED BY <1>1, <2>1, <2>2, <2>3 DEF Phases
<1>4. ASSUME NEW v \in Threads, Has(v)'
      PROVE  ItemSound(v)' /\ Has(v) /\ worker'[v].item = worker[v].item
  <2>1. Has(v) /\ worker'[v].item = worker[v].item
    BY <1>2, <1>4
  <2>2. ItemSound(v) /\ worker[v].item \in Slots /\ Item(v).Type # "data"
    BY <1>1, <2>1, HasItem
  <2>3. Item(v).Type = "key" /\ Item(v).owner \in Callers
    BY <2>1, <2>2, HasItem DEF ItemSound
  <2>4. worker[v].pc \in KeyPcs /\ worker'[v].pc \in KeyPcs
    BY <1>2, <1>4, <2>1, <2>2, <2>3 DEF ItemSound, Has, HasPcs, DataPcs, PoolInv, Phases, AfterStop, KeyPcs
  <2>5. Item(v).State = "Busy"
    BY <2>2, <2>4 DEF ItemSound, HeldPcs
  <2>6. Item(v)'.State = "Busy"
    <3>1. CASE v = w
      BY <1>2, <1>4, <2>1, <2>5, <3>1 DEF Item
    <3>2. CASE v # w /\ worker[v].item # i
      BY <2>1, <2>2, <2>5, <3>2 DEF Item
    <3>3. CASE v # w /\ worker[v].item = i
      <4>1. ~Has(w)
        BY <2>1, <3>3 DEF PoolInv, Owned, OneWorkerEach
      <4>2. WorkItemQueue'[i].State = "Busy"
        BY <4>1 DEF Has, HasPcs, KeyPcs
      <4> QED BY <2>1, <3>3, <4>2 DEF Item
    <3> QED BY <3>1, <3>2, <3>3
  <2>7. Item(v)'.Type = "key" /\ Item(v)'.owner \in Callers
    BY <2>1, <2>2, <2>3 DEF Item, ItemsFrame
  <2> QED BY <2>1, <2>4, <2>6, <2>7 DEF ItemSound, HeldPcs, KeyPcs, DataPcs
<1>5. Owned'
  <2>1. ItemsKnown'
    BY DEF PoolInv, Owned, ItemsKnown
  <2>2. OneWorkerEach'
    BY <1>4 DEF PoolInv, Owned, OneWorkerEach
  <2> QED BY <1>4, <2>1, <2>2 DEF Owned
<1>6. ReadyItems'
  <2>1. \A s \in Slots : WorkItemQueue'[s].State = "Ready" => WorkItemQueue[s].State = "Ready"
    OBVIOUS
  <2> QED BY <2>1, FrameKeeps DEF PoolInv, ReadyItems, ItemsFrame
<1>7. Calls'
  BY <1>1, FrameKeeps DEF PoolInv, Calls, CallSound, CallsFrame
<1>8. Events'
  <2>1. \A s \in Slots : ~WorkItemQueue'[s].ItemCompletedEvent
    BY <1>1 DEF PoolInv, Events, EventsFrame
  <2>2. \A v \in Threads : worker'[v].pc # "signal"
    BY DEF PoolInv, Phases, AfterStop, DataPcs
  <2> QED BY <2>1, <2>2 DEF Events
<1>9. FirstBlocks' /\ FragmentCountExact' /\ KeyCountExact'
  BY <1>1 DEF FirstBlocks, InCall, FragmentCountExact, KeyCountExact, PhaseFrame
<1> QED BY <1>3, <1>5, <1>6, <1>7, <1>8, <1>9 DEF PoolInv

-----------------------------------------------------------------------------
(* The steps of the workers, one after the other. *)
WorkerFrame == UNCHANGED <<poolVars, caller, EnqueuePosition, EnqueueMutex>>

LEMMA WorkerTypes ==
    ASSUME TypeOK, WorkerFrame, worker' \in [Threads -> WorkerStates], WorkItemQueue' \in [Slots -> WorkItems],
           WorkItemReadyEvent' \in BOOLEAN, WorkItemCompletedEvent' \in BOOLEAN,
           DequeuePosition' \in Slots, DequeueMutex' \in Threads \cup {None},
           DOMAIN buffer' = Callers, \A c \in Callers : \A j \in DOMAIN buffer'[c] : buffer'[c][j] \in Seq(Nat),
           keys' \in [Callers -> [outstanding : Nat, none : BOOLEAN, derived : Nat]]
    PROVE  TypeOK' /\ CallsFrame /\ PhaseFrame
BY DEF TypeOK, WorkerFrame, poolVars, CallsFrame, PhaseFrame

LEMMA StaysTyped ==
    ASSUME TypeOK
    PROVE  /\ UNCHANGED WorkItemQueue => WorkItemQueue' \in [Slots -> WorkItems]
           /\ UNCHANGED eventVars => WorkItemReadyEvent' \in BOOLEAN /\ WorkItemCompletedEvent' \in BOOLEAN
           /\ UNCHANGED DequeuePosition => DequeuePosition' \in Slots
           /\ UNCHANGED DequeueMutex => DequeueMutex' \in Threads \cup {None}
           /\ UNCHANGED buffer => DOMAIN buffer' = Callers /\ \A c \in Callers : \A j \in DOMAIN buffer'[c] : buffer'[c][j] \in Seq(Nat)
           /\ UNCHANGED keys => keys' \in [Callers -> [outstanding : Nat, none : BOOLEAN, derived : Nat]]
           /\ UNCHANGED worker => worker' \in [Threads -> WorkerStates]
           /\ UNCHANGED caller => caller' \in [Callers -> CallerStates]
BY DEF TypeOK, eventVars

LEMMA LoopKeeps == ASSUME PoolInv, NEW w \in Threads, WorkerLoop(w) PROVE PoolInv'
<1>1. PICK p \in {"exited", "acquire"} : GoTo(w, p)
  BY DEF WorkerLoop
<1>2. TypeOK /\ p \in WorkerPcs
  BY DEF PoolInv, WorkerPcs
<1>3. /\ worker' \in [Threads -> WorkerStates]
      /\ worker'[w].pc = p /\ worker'[w].item = worker[w].item
      /\ \A v \in Threads : v # w => worker'[v] = worker[v]
  BY <1>1, <1>2, WorkerAt
<1>4. TypeOK' /\ CallsFrame /\ PhaseFrame
  BY <1>2, <1>3, WorkerTypes, StaysTyped DEF WorkerLoop, WorkerFrame, poolVars, lockVars
<1> QED BY <1>3, <1>4, WorkerAside DEF WorkerLoop, Has, HasPcs, DataPcs, KeyPcs

LEMMA AcquireKeeps == ASSUME PoolInv, NEW w \in Threads, WorkerAcquire(w) PROVE PoolInv'
<1>1. TypeOK /\ DequeuePosition \in Slots /\ NextPosition(DequeuePosition) \in Slots
  BY SlotsFinite DEF PoolInv, TypeOK
<1>2. /\ worker' \in [Threads -> WorkerStates]
      /\ worker'[w].pc = "poll" /\ worker'[w].item \in Slots
      /\ \A v \in Threads : v # w => worker'[v] = worker[v]
  BY <1>1 DEF WorkerAcquire, TypeOK, WorkerStates, WorkerPcs
<1>3. TypeOK' /\ CallsFrame /\ PhaseFrame
  BY <1>1, <1>2, WorkerTypes, StaysTyped DEF WorkerAcquire, WorkerFrame, poolVars
<1> QED BY <1>2, <1>3, WorkerAside DEF WorkerAcquire, Has, HasPcs, DataPcs, KeyPcs

LEMMA PollKeeps == ASSUME PoolInv, NEW w \in Threads, WorkerPoll(w) PROVE PoolInv'
<1>0. TypeOK /\ worker[w].item \in Slots /\ worker[w].pc = "poll"
  BY DEF PoolInv, Owned, ItemsKnown, WorkerPoll
<1>1. CASE ~StopPending /\ WorkItemQueue[worker[w].item].State # "Ready"
  <2>1. GoTo(w, "waitReady") /\ "waitReady" \in WorkerPcs
    BY <1>1 DEF WorkerPoll, WorkerPcs
  <2>2. /\ worker' \in [Threads -> WorkerStates]
        /\ worker'[w].pc = "waitReady" /\ worker'[w].item = worker[w].item
        /\ \A v \in Threads : v # w => worker'[v] = worker[v]
    BY <1>0, <2>1, WorkerAt
  <2>3. TypeOK' /\ CallsFrame /\ PhaseFrame
    BY <1>0, <1>1, <2>2, WorkerTypes, StaysTyped DEF WorkerPoll, WorkerFrame, poolVars
  <2> QED BY <1>0, <1>1, <2>2, <2>3, WorkerAside DEF WorkerPoll, Has, HasPcs, DataPcs, KeyPcs
<1>2. CASE StopPending \/ WorkItemQueue[worker[w].item].State = "Ready"
  <2>1. GoTo(w, "taken") /\ "taken" \in WorkerPcs
    BY <1>2 DEF WorkerPoll, WorkerPcs
  <2>2. /\ worker' \in [Threads -> WorkerStates]
        /\ worker'[w].pc = "taken" /\ worker'[w].item = worker[w].item
        /\ \A v \in Threads : v # w => worker'[v] = worker[v]
    BY <1>0, <2>1, WorkerAt
  <2>3. WorkItemQueue' = [WorkItemQueue EXCEPT ![worker[w].item].State = "Busy"]
    BY <1>2 DEF WorkerPoll
  <2>4. /\ WorkItemQueue' \in [Slots -> WorkItems] /\ ItemsFrame /\ EventsFrame
        /\ WorkItemQueue'[worker[w].item].State = "Busy"
        /\ \A t \in Slots : t # worker[w].item => WorkItemQueue'[t] = WorkItemQueue[t]
    BY <1>0, <2>3, StateSet
  <2>5. TypeOK' /\ CallsFrame /\ PhaseFrame
    BY <1>0, <1>2, <2>2, <2>4, WorkerTypes, StaysTyped DEF WorkerPoll, WorkerFrame, poolVars
  <2>6. UNCHANGED keys
    BY DEF WorkerPoll
  <2>7. CASE StopPending
    BY <1>0, <2>2, <2>4, <2>5, <2>6, <2>7, StopKeeps
  <2>8. CASE ~StopPending
    BY <1>0, <1>2, <2>2, <2>3, <2>5, <2>6, <2>8, TakeKeeps
  <2> QED BY <2>7, <2>8
<1> QED BY <1>1, <1>2

LEMMA WaitReadyKeeps == ASSUME PoolInv, NEW w \in Threads, WorkerWaitReady(w) PROVE PoolInv'
<1>0. TypeOK /\ worker[w].item \in Slots /\ "poll" \in WorkerPcs
  BY DEF PoolInv, Owned, ItemsKnown, WorkerWaitReady, WorkerPcs
<1>1. /\ worker' \in [Threads -> WorkerStates]
      /\ worker'[w].pc = "poll" /\ worker'[w].item = worker[w].item
      /\ \A v \in Threads : v # w => worker'[v] = worker[v]
  BY <1>0, WorkerAt DEF WorkerWaitReady
<1>2. WorkItemReadyEvent' \in BOOLEAN /\ WorkItemCompletedEvent' \in BOOLEAN
  BY <1>0 DEF WorkerWaitReady, TypeOK
<1>3. TypeOK' /\ CallsFrame /\ PhaseFrame
  BY <1>0, <1>1, <1>2, WorkerTypes, StaysTyped DEF WorkerWaitReady, WorkerFrame, poolVars, lockVars
<1> QED BY <1>0, <1>1, <1>3, WorkerAside DEF WorkerWaitReady, Has, HasPcs, DataPcs, KeyPcs

LEMMA TakenKeeps == ASSUME PoolInv, NEW w \in Threads, WorkerTaken(w) PROVE PoolInv'
<1>0. TypeOK /\ worker[w].pc = "taken" /\ {"exited", "work"} \subseteq WorkerPcs
  BY DEF PoolInv, WorkerTaken, WorkerPcs
<1>1. /\ worker' \in [Threads -> WorkerStates]
      /\ worker'[w].pc = (IF StopPending THEN "exited" ELSE "work") /\ worker'[w].item = worker[w].item
      /\ \A v \in Threads : v # w => worker'[v] = worker[v]
  BY <1>0, WorkerAt DEF WorkerTaken
<1>2. TypeOK' /\ CallsFrame /\ PhaseFrame
  BY <1>0, <1>1, WorkerTypes, StaysTyped DEF WorkerTaken, WorkerFrame, poolVars, lockVars
<1>3. UNCHANGED <<WorkItemQueue, keys>>
  BY DEF WorkerTaken
<1>4. CASE StopPending
  BY <1>0, <1>1, <1>2, <1>3, <1>4, WorkerAside DEF Has, HasPcs, DataPcs, KeyPcs
<1>5. CASE ~StopPending
  <2>1. Has(w) /\ Has(w)'
    BY <1>0, <1>1, <1>2, <1>5 DEF Has, HasPcs, PhaseFrame
  <2>2. ItemSound(w) /\ worker[w].item \in Slots /\ ItemsFrame
    BY <1>3, <2>1, HasItem DEF ItemsFrame
  <2>3. Item(w)' = Item(w) /\ worker'[w].pc = "work"
    BY <1>1, <1>3, <1>5 DEF Item
  <2>4. ItemSound(w)'
    BY <1>0, <1>1, <1>2, <2>2, <2>3, FrameKeeps DEF ItemSound, HeldPcs, DataPcs, KeyPcs
  <2> QED BY <1>0, <1>1, <1>2, <1>3, <1>5, <2>1, <2>3, <2>4, WorkerOnward DEF CountPcs, KeyCountPcs
<1> QED BY <1>4, <1>5

LEMMA AfterWork ==
    ASSUME PoolInv, NEW w \in Threads, Has(w), worker[w].pc \notin {"taken", "keySignal", "keyFree"}
    PROVE  ~StopPending
BY DEF PoolInv, Phases, AfterStop, Has, HasPcs, DataPcs, KeyPcs

LEMMA TransformTyped ==
    ASSUME TypeOK, NEW c \in Callers, NEW d \in Nat, NEW u \in Nat, NEW n \in Nat, Transform(c, d, u, n)
    PROVE  /\ DOMAIN buffer' = Callers
           /\ \A e \in Callers : \A j \in DOMAIN buffer'[e] : buffer'[e][j] \in Seq(Nat)
           /\ \A e \in Callers : e # c => buffer'[e] = buffer[e]
<1> DEFINE old(j) == IF j \in DOMAIN buffer[c] THEN buffer[c][j] ELSE <<>>
           new == [j \in DOMAIN buffer[c] \cup d .. d + n - 1 |->
                     IF j \in d .. d + n - 1 THEN Append(old(j), u + (j - d)) ELSE old(j)]
<1>1. DOMAIN buffer' = Callers /\ buffer'[c] = new /\ \A e \in Callers : e # c => buffer'[e] = buffer[e]
  BY DEF Transform, TypeOK
<1>2. \A j : old(j) \in Seq(Nat)
  BY DEF TypeOK
<1>3. ASSUME NEW j \in d .. d + n - 1 PROVE Append(old(j), u + (j - d)) \in Seq(Nat)
  <2>1. u + (j - d) \in Nat
    OBVIOUS
  <2> HIDE DEF old
  <2> QED BY <1>2, <2>1
<1>4. \A j \in DOMAIN new : new[j] \in Seq(Nat)
  <2> HIDE DEF old
  <2> QED BY <1>2, <1>3
<1> QED BY <1>1, <1>4 DEF TypeOK

LEMMA TransformsKeeps == ASSUME PoolInv, NEW w \in Threads, WorkerTransforms(w) PROVE PoolInv'
<1>0. TypeOK /\ worker[w].pc = "work" /\ Item(w).Type = "data" /\ {"free", "decrement"} \subseteq WorkerPcs
  BY DEF PoolInv, WorkerTransforms, WorkerPcs, Item
<1>1. Has(w) /\ ~StopPending /\ ItemSound(w)
  BY <1>0, AfterWork, HasItem DEF Has, HasPcs
<1>2. PICK c \in Callers : InCall(worker[w].item, c) /\ worker[w].item \in Slots /\ Item(w).FirstFragment = caller[c].first
                           /\ caller[c].first \in Slots
  BY <1>0, <1>1, HasItem
<1>3. /\ worker' \in [Threads -> WorkerStates]
      /\ worker'[w].pc = (IF worker[w].item # Item(w).FirstFragment THEN "free" ELSE "decrement")
      /\ worker'[w].item = worker[w].item
      /\ \A v \in Threads : v # w => worker'[v] = worker[v]
  BY <1>0, WorkerAt DEF WorkerTransforms, Item
<1>4. DOMAIN buffer' = Callers /\ \A d \in Callers : \A j \in DOMAIN buffer'[d] : buffer'[d][j] \in Seq(Nat)
  <2>1. Item(w).StartUnitNo \in Nat /\ Item(w).Data \in Nat /\ Item(w).UnitCount \in Nat /\ Item(w).owner = c
    BY <1>0, <1>2 DEF Item, TypeOK, WorkItems, InCall
  <2>2. Transform(c, Item(w).Data, Item(w).StartUnitNo, Item(w).UnitCount)
    BY <2>1 DEF WorkerTransforms, Item
  <2> QED BY <1>0, <2>1, <2>2, TransformTyped
<1>5. TypeOK' /\ CallsFrame /\ PhaseFrame
  BY <1>0, <1>3, <1>4, WorkerTypes, StaysTyped DEF WorkerTransforms, WorkerFrame, poolVars, lockVars
<1>6. UNCHANGED <<WorkItemQueue, keys>>
  BY DEF WorkerTransforms
<1>7. Has(w)' /\ ItemsFrame /\ Item(w)' = Item(w)
  BY <1>1, <1>3, <1>5, <1>6 DEF Has, HasPcs, DataPcs, PhaseFrame, Item, ItemsFrame
<1>8. InCall(worker[w].item, c)'
  BY <1>2, <1>3, <1>5, <1>7, FrameKeeps
<1>9. ItemSound(w)'
  BY <1>0, <1>1, <1>3, <1>7, <1>8 DEF ItemSound, HeldPcs, DataPcs, KeyPcs
<1> QED BY <1>0, <1>1, <1>3, <1>5, <1>6, <1>7, <1>9, WorkerOnward DEF CountPcs, KeyCountPcs

LEMMA DerivesKeeps == ASSUME PoolInv, NEW w \in Threads, WorkerDerivesKey(w) PROVE PoolInv'
<1>0. TypeOK /\ worker[w].pc = "work" /\ Item(w).Type = "key" /\ "keyDecrement" \in WorkerPcs
  BY DEF PoolInv, WorkerDerivesKey, WorkerPcs, Item
<1>1. Has(w) /\ ~StopPending /\ ItemSound(w) /\ Item(w).owner \in Callers
  BY <1>0, AfterWork, HasItem DEF Has, HasPcs, ItemSound
<1>3. /\ worker' \in [Threads -> WorkerStates]
      /\ worker'[w].pc = "keyDecrement" /\ worker'[w].item = worker[w].item
      /\ \A v \in Threads : v # w => worker'[v] = worker[v]
  BY <1>0, WorkerAt DEF WorkerDerivesKey
<1>4. /\ keys' \in [Callers -> [outstanding : Nat, none : BOOLEAN, derived : Nat]]
      /\ \A c \in Callers : keys'[c].outstanding = keys[c].outstanding
  <2>1. keys[Item(w).owner].derived + 1 \in Nat
    BY <1>0, <1>1 DEF TypeOK
  <2>2. keys' = [keys EXCEPT ![Item(w).owner].derived = @ + 1]
    BY DEF WorkerDerivesKey, Item
  <2> QED BY <1>0, <1>1, <2>1, <2>2 DEF TypeOK
<1>5. TypeOK' /\ CallsFrame /\ PhaseFrame
  BY <1>0, <1>3, <1>4, WorkerTypes, StaysTyped, Zenon DEF WorkerDerivesKey, WorkerFrame, poolVars, lockVars
<1>6. UNCHANGED WorkItemQueue
  BY DEF WorkerDerivesKey
<1>7. Has(w)' /\ Item(w)' = Item(w)
  BY <1>1, <1>3, <1>5, <1>6 DEF Has, HasPcs, KeyPcs, PhaseFrame, Item
<1>9. ItemSound(w)'
  BY <1>0, <1>1, <1>3, <1>7 DEF ItemSound, HeldPcs, DataPcs, KeyPcs
<1> QED BY <1>0, <1>1, <1>3, <1>4, <1>5, <1>6, <1>7, <1>9, WorkerOnward DEF CountPcs, KeyCountPcs

LEMMA KeyCountedKeeps == ASSUME PoolInv, NEW w \in Threads, WorkerKeyDecrement(w) PROVE PoolInv'
<1>0. TypeOK /\ worker[w].pc = "keyDecrement" /\ {"keySignal", "keyFree"} \subseteq WorkerPcs
  BY DEF PoolInv, WorkerKeyDecrement, WorkerPcs
<1>1. Has(w) /\ ~StopPending /\ ItemSound(w) /\ Item(w).Type = "key"
  BY <1>0, AfterWork, HasItem DEF Has, HasPcs, KeyPcs, ItemSound
<1>2. /\ Item(w).owner \in Callers
      /\ keys[Item(w).owner].outstanding \in Nat /\ keys[Item(w).owner].outstanding >= 1
  BY <1>0, <1>1, KeyCounterPositive DEF KeyCountPcs
<1>3. /\ worker' \in [Threads -> WorkerStates]
      /\ worker'[w].pc \in {"keySignal", "keyFree"} /\ worker'[w].item = worker[w].item
      /\ \A v \in Threads : v # w => worker'[v] = worker[v]
  BY <1>0, WorkerAt DEF WorkerKeyDecrement
<1>4. /\ keys' \in [Callers -> [outstanding : Nat, none : BOOLEAN, derived : Nat]]
      /\ \A c \in Callers : keys'[c].outstanding = keys[c].outstanding - (IF c = Item(w).owner THEN 1 ELSE 0)
  <2>1. keys[Item(w).owner].outstanding - 1 \in Nat
    BY <1>2
  <2>2. keys' = [keys EXCEPT ![Item(w).owner].outstanding = @ - 1]
    BY DEF WorkerKeyDecrement, Item
  <2>3. keys \in [Callers -> [outstanding : Nat, none : BOOLEAN, derived : Nat]]
    BY <1>0 DEF TypeOK
  <2>4. /\ keys'[Item(w).owner] \in [outstanding : Nat, none : BOOLEAN, derived : Nat]
        /\ keys'[Item(w).owner].outstanding = keys[Item(w).owner].outstanding - 1
        /\ \A c \in Callers : c # Item(w).owner => keys'[c] = keys[c]
        /\ DOMAIN keys' = Callers
    BY <1>2, <2>1, <2>2, <2>3
  <2>5. \A c \in Callers : keys[c].outstanding - 0 = keys[c].outstanding
    BY <2>3, SMTT(60)
  <2> QED BY <1>2, <2>2, <2>3, <2>4, <2>5
<1>5. TypeOK' /\ CallsFrame /\ PhaseFrame
  BY <1>0, <1>3, <1>4, WorkerTypes, StaysTyped, ZenonT(60) DEF WorkerKeyDecrement, WorkerFrame, poolVars, lockVars
<1>6. UNCHANGED WorkItemQueue
  BY DEF WorkerKeyDecrement
<1> QED BY <1>0, <1>1, <1>3, <1>4, <1>5, <1>6, KeyDecrementKeeps

LEMMA KeySignalKeeps == ASSUME PoolInv, NEW w \in Threads, WorkerKeySignal(w) PROVE PoolInv'
<1>0. TypeOK /\ worker[w].pc = "keySignal" /\ "keyFree" \in WorkerPcs
  BY DEF PoolInv, WorkerKeySignal, WorkerPcs
<1>1. Has(w) /\ ItemSound(w) /\ Item(w).Type = "key" /\ Item(w).owner \in Callers /\ worker[w].item \in Slots
  BY <1>0, HasItem DEF Has, HasPcs, KeyPcs, ItemSound
<1>3. /\ worker' \in [Threads -> WorkerStates]
      /\ worker'[w].pc = "keyFree" /\ worker'[w].item = worker[w].item
      /\ \A v \in Threads : v # w => worker'[v] = worker[v]
  BY <1>0, WorkerAt DEF WorkerKeySignal
<1>4. /\ keys' \in [Callers -> [outstanding : Nat, none : BOOLEAN, derived : Nat]]
      /\ \A c \in Callers : keys'[c].outstanding = keys[c].outstanding
  <2>2. keys' = [keys EXCEPT ![Item(w).owner].none = TRUE]
    BY DEF WorkerKeySignal, Item
  <2>3. keys \in [Callers -> [outstanding : Nat, none : BOOLEAN, derived : Nat]]
    BY <1>0, SMTT(60) DEF TypeOK
  <2> QED BY <1>1, <2>2, <2>3
<1>5. TypeOK' /\ CallsFrame /\ PhaseFrame
  BY <1>0, <1>3, <1>4, WorkerTypes, StaysTyped, Zenon DEF WorkerKeySignal, WorkerFrame, poolVars, lockVars
<1>6. UNCHANGED WorkItemQueue /\ ItemsFrame /\ EventsFrame
  BY DEF WorkerKeySignal, ItemsFrame, EventsFrame
<1>7. Has(w)' /\ Item(w)' = Item(w)
  BY <1>1, <1>3, <1>5, <1>6 DEF Has, HasPcs, KeyPcs, PhaseFrame, Item
<1>8. CASE StopPending
  BY <1>0, <1>1, <1>3, <1>4, <1>5, <1>6, <1>8, StopKeeps
<1>9. CASE ~StopPending
  <2>1. ItemSound(w)'
    BY <1>0, <1>1, <1>3, <1>7 DEF ItemSound, HeldPcs, DataPcs, KeyPcs
  <2> QED BY <1>0, <1>1, <1>3, <1>4, <1>5, <1>6, <1>7, <1>9, <2>1, WorkerOnward DEF CountPcs, KeyCountPcs
<1> QED BY <1>8, <1>9

LEMMA WorkerFreeKeeps == ASSUME PoolInv, NEW w \in Threads, WorkerFree(w) PROVE PoolInv'
<1>0. TypeOK /\ worker[w].pc \in {"free", "keyFree"} /\ {"freed", "keyFreed"} \subseteq WorkerPcs
  BY DEF PoolInv, WorkerFree, WorkerPcs
<1>1. Has(w) /\ worker[w].item \in Slots
  BY <1>0, HasItem DEF Has, HasPcs, KeyPcs, DataPcs
<1>2. /\ worker' \in [Threads -> WorkerStates]
      /\ worker'[w].pc = (IF worker[w].pc = "free" THEN "freed" ELSE "keyFreed")
      /\ worker'[w].item = worker[w].item
      /\ \A v \in Threads : v # w => worker'[v] = worker[v]
  BY <1>0, WorkerAt DEF WorkerFree
<1>3. WorkItemQueue' = [WorkItemQueue EXCEPT ![worker[w].item].State = "Free"] /\ UNCHANGED keys
  BY DEF WorkerFree
<1>4. /\ WorkItemQueue' \in [Slots -> WorkItems] /\ ItemsFrame /\ EventsFrame
      /\ WorkItemQueue'[worker[w].item].State = "Free"
      /\ \A t \in Slots : t # worker[w].item => WorkItemQueue'[t] = WorkItemQueue[t]
  BY <1>0, <1>1, <1>3, StateSet
<1>5. TypeOK' /\ CallsFrame /\ PhaseFrame
  BY <1>0, <1>2, <1>4, WorkerTypes, StaysTyped DEF WorkerFree, WorkerFrame, poolVars, lockVars
<1>6. CASE StopPending
  <2>1. worker[w].pc = "keyFree"
    BY <1>0, <1>6 DEF PoolInv, Phases, AfterStop, DataPcs
  <2> QED BY <1>1, <1>2, <1>3, <1>4, <1>5, <1>6, <2>1, StopKeeps
<1>7. CASE ~StopPending
  BY <1>0, <1>2, <1>3, <1>5, <1>7, FreeKeeps
<1> QED BY <1>6, <1>7

LEMMA SignalCompletedKeeps == ASSUME PoolInv, NEW w \in Threads, WorkerSignalCompleted(w) PROVE PoolInv'
<1>0. TypeOK /\ worker[w].pc \in {"freed", "keyFreed"} /\ {"decrement", "loop"} \subseteq WorkerPcs
  BY DEF PoolInv, WorkerSignalCompleted, WorkerPcs
<1>1. /\ worker' \in [Threads -> WorkerStates]
      /\ worker'[w].pc = (IF worker[w].pc = "freed" THEN "decrement" ELSE "loop")
      /\ worker'[w].item = worker[w].item
      /\ \A v \in Threads : v # w => worker'[v] = worker[v]
  BY <1>0, WorkerAt DEF WorkerSignalCompleted
<1>2. WorkItemReadyEvent' \in BOOLEAN /\ WorkItemCompletedEvent' \in BOOLEAN
  BY <1>0 DEF WorkerSignalCompleted, TypeOK
<1>3. TypeOK' /\ CallsFrame /\ PhaseFrame
  BY <1>0, <1>1, <1>2, WorkerTypes, StaysTyped DEF WorkerSignalCompleted, WorkerFrame, poolVars, lockVars
<1>4. UNCHANGED <<WorkItemQueue, keys>>
  BY DEF WorkerSignalCompleted
<1>5. CASE worker[w].pc = "keyFreed"
  BY <1>1, <1>3, <1>4, <1>5, WorkerAside DEF Has, HasPcs, DataPcs, KeyPcs
<1>6. CASE worker[w].pc = "freed"
  <2>1. Has(w) /\ ~StopPending /\ ItemSound(w) /\ Item(w).Type = "data"
    BY <1>6, AfterWork, HasItem DEF Has, HasPcs, DataPcs, ItemSound
  <2>2. PICK c \in Callers : InCall(worker[w].item, c) /\ worker[w].item \in Slots
    BY <2>1, HasItem
  <2>3. Has(w)' /\ ItemsFrame /\ Item(w)' = Item(w)
    BY <1>1, <1>3, <1>4, <1>6, <2>1 DEF Has, HasPcs, DataPcs, PhaseFrame, Item, ItemsFrame
  <2>4. InCall(worker[w].item, c)'
    BY <1>1, <1>3, <2>2, <2>3, FrameKeeps
  <2>5. ItemSound(w)'
    BY <1>1, <1>6, <2>1, <2>3, <2>4 DEF ItemSound, HeldPcs, DataPcs, KeyPcs
  <2> QED BY <1>1, <1>3, <1>4, <1>6, <2>1, <2>3, <2>5, WorkerOnward DEF CountPcs, KeyCountPcs
<1> QED BY <1>0, <1>5, <1>6

LEMMA WorkerDecrementKeeps == ASSUME PoolInv, NEW w \in Threads, WorkerDecrement(w) PROVE PoolInv'
<1>0. TypeOK /\ worker[w].pc = "decrement" /\ {"signal", "loop"} \subseteq WorkerPcs
  BY DEF PoolInv, WorkerDecrement, WorkerPcs
<1>1. Has(w) /\ ~StopPending /\ ItemSound(w) /\ Item(w).Type = "data"
  BY <1>0, AfterWork, HasItem DEF Has, HasPcs, DataPcs, ItemSound
<1>2. PICK f \in Slots : f = Item(w).FirstFragment
  BY <1>0, <1>1, CounterPositive DEF CountPcs
<1>3. PICK n \in Nat : n = WorkItemQueue[f].OutstandingFragmentCount - 1
  BY <1>0, <1>1, <1>2, CounterPositive DEF CountPcs
<1>4. WorkItemQueue' = [WorkItemQueue EXCEPT ![f].OutstandingFragmentCount = n]
  BY <1>0, <1>2, <1>3 DEF WorkerDecrement, Item, TypeOK
<1>5. /\ WorkItemQueue' \in [Slots -> WorkItems] /\ ItemsFrame /\ StatesFrame /\ EventsFrame
      /\ WorkItemQueue'[f].OutstandingFragmentCount = n
      /\ \A t \in Slots : t # f => WorkItemQueue'[t] = WorkItemQueue[t]
  <2> HIDE <1>2, <1>3
  <2> QED BY <1>0, <1>4, CountSet
<1>6. /\ worker' \in [Threads -> WorkerStates]
      /\ worker'[w].pc = (IF n = 0 THEN "signal" ELSE "loop")
      /\ worker'[w].item = worker[w].item
      /\ \A v \in Threads : v # w => worker'[v] = worker[v]
  <2>1. GoTo(w, IF n = 0 THEN "signal" ELSE "loop")
    BY <1>2, <1>5, ZenonT(60) DEF WorkerDecrement, Item
  <2> QED BY <1>0, <2>1, WorkerAt
<1>7. TypeOK' /\ CallsFrame /\ PhaseFrame
  BY <1>0, <1>5, <1>6, WorkerTypes, StaysTyped, Zenon DEF WorkerDecrement, WorkerFrame, poolVars, lockVars
<1>8. UNCHANGED keys
  BY DEF WorkerDecrement
<1> QED BY <1>0, <1>1, <1>2, <1>3, <1>5, <1>6, <1>7, <1>8, DecrementKeeps, ZenonT(60)

LEMMA WorkerSignalKeeps == ASSUME PoolInv, NEW w \in Threads, WorkerSignalItem(w) PROVE PoolInv'
<1>0. TypeOK /\ worker[w].pc = "signal" /\ "loop" \in WorkerPcs
  BY DEF PoolInv, WorkerSignalItem, WorkerPcs
<1>1. Has(w) /\ ~StopPending /\ Item(w).Type = "data"
  BY <1>0, AfterWork, HasItem DEF Has, HasPcs, DataPcs, ItemSound
<1>2. Item(w).FirstFragment \in Slots
  BY <1>1, HasItem
<1>3. WorkItemQueue' = [WorkItemQueue EXCEPT ![Item(w).FirstFragment].ItemCompletedEvent = TRUE]
  BY DEF WorkerSignalItem, Item
<1>4. WorkItemQueue' \in [Slots -> WorkItems]
  BY <1>0, <1>2, <1>3, EventSet
<1>5. /\ worker' \in [Threads -> WorkerStates]
      /\ worker'[w].pc = "loop" /\ worker'[w].item = worker[w].item
      /\ \A v \in Threads : v # w => worker'[v] = worker[v]
  BY <1>0, WorkerAt DEF WorkerSignalItem
<1>6. TypeOK' /\ CallsFrame /\ PhaseFrame
  BY <1>0, <1>4, <1>5, WorkerTypes, StaysTyped DEF WorkerSignalItem, WorkerFrame, poolVars, lockVars
<1>7. UNCHANGED keys
  BY DEF WorkerSignalItem
<1> QED BY <1>0, <1>1, <1>3, <1>5, <1>6, <1>7, SignalKeeps

LEMMA WorkerStepKeeps == ASSUME PoolInv, NEW w \in Threads, Worker(w) PROVE PoolInv'
BY LoopKeeps, AcquireKeeps, PollKeeps, WaitReadyKeeps, TakenKeeps, TransformsKeeps, DerivesKeeps, KeyCountedKeeps,
   KeySignalKeeps, WorkerFreeKeeps, SignalCompletedKeeps, WorkerDecrementKeeps, WorkerSignalKeeps DEF Worker

-----------------------------------------------------------------------------
(* The steps of the callers. *)
CallerFrame(c) ==
    /\ UNCHANGED <<poolVars, worker, DequeuePosition, DequeueMutex>>
    /\ \A d \in Callers : d # c => caller'[d] = caller[d] /\ buffer'[d] = buffer[d]
    /\ \A d \in Callers : d # c /\ EnqueueMutex = d => UNCHANGED <<EnqueueMutex, EnqueuePosition>>

(* The calls of the others are as sound as before if their first fragments stay as they are. *)
LEMMA OthersCalls ==
    ASSUME PoolInv, NEW c \in Callers, CallerFrame(c), NEW d \in Callers, d # c,
           Open(d) \/ caller[d].pc = "freeFirst" =>
              /\ (WorkItemQueue'[caller[d].first].State = "Free") <=> (WorkItemQueue[caller[d].first].State = "Free")
              /\ WorkItemQueue'[caller[d].first].Type = WorkItemQueue[caller[d].first].Type
              /\ WorkItemQueue'[caller[d].first].owner = WorkItemQueue[caller[d].first].owner
              /\ WorkItemQueue'[caller[d].first].FirstFragment = WorkItemQueue[caller[d].first].FirstFragment
    PROVE  CallSound(d)' /\ (Open(d)' <=> Open(d)) /\ (Begun(d)' <=> Begun(d))
<1>1. caller'[d] = caller[d] /\ (EnqueueMutex = d => UNCHANGED <<EnqueueMutex, EnqueuePosition>>) /\ CallSound(d)
  BY DEF CallerFrame, PoolInv, Calls
<1>2. (Open(d)' <=> Open(d)) /\ (Begun(d)' <=> Begun(d))
  BY <1>1 DEF Open, Begun
<1>3. (Open(d) \/ caller[d].pc = "freeFirst") /\ FirstIsOwn(d) => FirstIsOwn(d)'
  BY <1>1 DEF FirstIsOwn
<1>4. Open(d) => ((WorkItemQueue'[caller[d].first].State = "Free") <=> (WorkItemQueue[caller[d].first].State = "Free"))
  OBVIOUS
<1>5. Open(d) /\ caller[d].pc # "waitDone" => EnqueueMutex = d
  BY <1>1 DEF CallSound, Open
<1> QED BY <1>1, <1>2, <1>3, <1>4, <1>5 DEF CallSound, Begun, Open

(* A step that changes only where the call is. *)
LEMMA CallerKeeps ==
    ASSUME PoolInv, TypeOK', NEW c \in Callers, CallerFrame(c), UNCHANGED <<WorkItemQueue, keys>>,
           Open(c)' <=> Open(c),
           Open(c) => caller'[c].first = caller[c].first /\ caller'[c].data = caller[c].data /\ caller'[c].left = caller[c].left,
           Position' = Position, CallSound(c)', caller'[c].pc # "idle" => manager = "running"
    PROVE  PoolInv'
<1>1. UNCHANGED <<worker, WorkItemQueue, keys, StopPending, manager, ThreadPoolRunning, ThreadCount>>
  BY DEF CallerFrame, poolVars
<1>2. \A d \in Callers : d # c => caller'[d] = caller[d]
  BY DEF CallerFrame
<1>3. Phases'
  BY <1>1, <1>2 DEF PoolInv, Phases, PhaseFlags, BeforeStart, AfterStop
<1>4. \A d \in Callers : /\ (Open(d)' <=> Open(d)) /\ (Begun(d)' <=> Begun(d)) /\ CallSound(d)'
                         /\ Open(d) => caller'[d].first = caller[d].first /\ caller'[d].left = caller[d].left
  <2>1. ASSUME NEW d \in Callers, d # c PROVE (Open(d)' <=> Open(d)) /\ (Begun(d)' <=> Begun(d)) /\ CallSound(d)'
    BY <1>1, <2>1, OthersCalls
  <2>2. Begun(c)' <=> Begun(c)
    BY DEF Begun
  <2> QED BY <1>2, <2>1, <2>2
<1>5. \A d \in Callers, s \in Slots : InCall(s, d)' <=> InCall(s, d)
  BY <1>1, <1>4 DEF InCall, Begun
<1>6. \A v \in Threads : (Has(v)' <=> Has(v)) /\ Item(v)' = Item(v) /\ worker'[v] = worker[v]
  BY <1>1 DEF Has, Item
<1>7. Owned'
  <2>1. ItemsKnown' /\ OneWorkerEach'
    BY <1>1, <1>6 DEF PoolInv, Owned, ItemsKnown, OneWorkerEach
  <2>2. ASSUME NEW v \in Threads, Has(v)' PROVE ItemSound(v)'
    <3>1. ItemSound(v) /\ worker[v].item \in Slots
      BY <1>6, <2>2, HasItem
    <3> QED BY <1>5, <1>6, <3>1 DEF ItemSound
  <2> QED BY <2>1, <2>2 DEF Owned
<1>8. ReadyItems'
  BY <1>1, <1>5 DEF PoolInv, ReadyItems
<1>9. Calls'
  BY <1>4 DEF Calls
<1>10. Events'
  BY <1>1, <1>4, <1>6 DEF PoolInv, Events, Begun
<1>11. FirstBlocks'
  <2>1. \A s \in Slots : (InUse(s)' <=> InUse(s)) /\ Ahead(s)' = Ahead(s)
    BY <1>1, <1>6 DEF InUse, Ahead
  <2> SUFFICES ASSUME NEW d \in Callers, NEW s \in Slots, InCall(s, d)', InUse(s)'
               PROVE  Ahead(caller[d].first)' <= Ahead(s)'
    BY DEF FirstBlocks
  <2>2. InCall(s, d) /\ InUse(s) /\ caller[d].first \in Slots /\ Open(d)
    BY <1>5, <2>1 DEF PoolInv, Calls, CallSound, InCall, Begun
  <2>3. caller'[d].first = caller[d].first
    BY <1>4, <2>2
  <2>4. Ahead(caller[d].first)' = Ahead(caller[d].first)
    BY <2>3 DEF Ahead
  <2> QED BY <2>1, <2>2, <2>4 DEF PoolInv, FirstBlocks
<1>12. FragmentCountExact'
  <2>1. \A f : Uncounted(f)' = Uncounted(f)
    BY <1>1 DEF Uncounted
  <2>2. \A d \in Callers : Open(d) => Uncounted(caller[d].first)' = Uncounted(caller[d].first)
    BY <1>1, <1>4 DEF Uncounted
  <2> QED BY <1>1, <1>4, <2>2 DEF PoolInv, FragmentCountExact, Open
<1>13. KeyCountExact'
  <2>1. \A d : KeyItems(d)' = KeyItems(d)
    BY <1>1 DEF KeyItems
  <2> QED BY <1>1, <2>1 DEF PoolInv, KeyCountExact
<1> QED BY <1>3, <1>7, <1>8, <1>9, <1>10, <1>11, <1>12, <1>13 DEF PoolInv

LEMMA CallerTypes ==
    ASSUME TypeOK, NEW c \in Callers, CallerFrame(c), caller' \in [Callers -> CallerStates],
           WorkItemQueue' \in [Slots -> WorkItems],
           WorkItemReadyEvent' \in BOOLEAN, WorkItemCompletedEvent' \in BOOLEAN,
           EnqueuePosition' \in Slots, EnqueueMutex' \in Callers \cup {None},
           DOMAIN buffer' = Callers, \A j \in DOMAIN buffer'[c] : buffer'[c][j] \in Seq(Nat),
           keys' \in [Callers -> [outstanding : Nat, none : BOOLEAN, derived : Nat]]
    PROVE  TypeOK'
<1>1. \A d \in Callers : \A j \in DOMAIN buffer'[d] : buffer'[d][j] \in Seq(Nat)
  BY DEF TypeOK, CallerFrame
<1> QED BY <1>1 DEF TypeOK, CallerFrame, poolVars

(* Of a call that goes from one program point to the next; nothing but its mutex is changed. *)
LEMMA CallerMoves ==
    ASSUME PoolInv, NEW c \in Callers, NEW p \in CallerPcs, CallerGoTo(c, p), EnqueueMutex' \in {EnqueueMutex, None},
           EnqueueMutex' # EnqueueMutex => EnqueueMutex = c,
           UNCHANGED <<poolVars, worker, DequeuePosition, DequeueMutex, buffer, WorkItemQueue, keys, EnqueuePosition>>,
           WorkItemReadyEvent' \in BOOLEAN, WorkItemCompletedEvent' \in BOOLEAN
    PROVE  /\ TypeOK' /\ CallerFrame(c) /\ caller'[c] = [caller[c] EXCEPT !.pc = p] /\ CallSound(c)
           /\ caller'[c] \in CallerStates /\ caller[c] \in CallerStates
           /\ caller'[c].pc = p /\ caller'[c].job = caller[c].job /\ caller'[c].first = caller[c].first
           /\ caller'[c].item = caller[c].item /\ caller'[c].data = caller[c].data /\ caller'[c].left = caller[c].left
           /\ caller'[c].per = caller[c].per /\ caller'[c].rem = caller[c].rem
<1>1. TypeOK /\ CallSound(c) /\ caller[c] \in CallerStates
  BY DEF PoolInv, Calls, TypeOK
<1>2. /\ caller' \in [Callers -> CallerStates] /\ caller'[c] = [caller[c] EXCEPT !.pc = p]
      /\ \A d \in Callers : d # c => caller'[d] = caller[d]
  BY <1>1, CallerAt
<1>3. CallerFrame(c)
  BY <1>2 DEF CallerFrame
<1>4. EnqueuePosition' \in Slots /\ EnqueueMutex' \in Callers \cup {None}
  BY <1>1 DEF TypeOK
<1>5. TypeOK'
  BY <1>1, <1>2, <1>3, <1>4, CallerTypes, StaysTyped DEF TypeOK
<1>6. /\ caller'[c].pc = p /\ caller'[c].job = caller[c].job /\ caller'[c].first = caller[c].first
      /\ caller'[c].item = caller[c].item /\ caller'[c].data = caller[c].data /\ caller'[c].left = caller[c].left
      /\ caller'[c].per = caller[c].per /\ caller'[c].rem = caller[c].rem
  BY <1>1, <1>2 DEF CallerStates
<1> QED BY <1>1, <1>2, <1>3, <1>5, <1>6

LEMMA WaitCompletedKeeps == ASSUME PoolInv, NEW c \in Callers, CallerWaitCompleted(c) PROVE PoolInv'
<1> DEFINE p == IF caller[c].pc = "waitFirst" THEN "pollFirst" ELSE "poll"
<1>0. p \in CallerPcs /\ caller[c].pc \in {"waitFirst", "waitItem"} /\ CallerGoTo(c, p)
  BY DEF CallerWaitCompleted, CallerPcs
<1>1. /\ UNCHANGED <<poolVars, worker, DequeuePosition, DequeueMutex, buffer, WorkItemQueue, keys, EnqueuePosition, EnqueueMutex>>
      /\ WorkItemReadyEvent' \in BOOLEAN /\ WorkItemCompletedEvent' \in BOOLEAN
  BY DEF CallerWaitCompleted, lockVars, PoolInv, TypeOK
<1>2. /\ TypeOK' /\ CallerFrame(c) /\ CallSound(c)
      /\ caller'[c].pc = p /\ caller'[c].job = caller[c].job /\ caller'[c].first = caller[c].first
      /\ caller'[c].item = caller[c].item /\ caller'[c].data = caller[c].data /\ caller'[c].left = caller[c].left
      /\ caller'[c].per = caller[c].per /\ caller'[c].rem = caller[c].rem
  BY <1>0, <1>1, CallerMoves
<1>3. EnqueueMutex = c /\ c # None
  BY <1>0, <1>2, PoolAssumption DEF CallSound
<1>4. Position' = Position /\ (Open(c)' <=> Open(c)) /\ manager = "running"
  BY <1>0, <1>1, <1>2, <1>3 DEF Position, Open, PoolInv, Phases
<1>5. CallSound(c)'
  BY <1>0, <1>1, <1>2, <1>3 DEF CallSound, Open, Begun, FirstIsOwn
<1> QED BY <1>1, <1>2, <1>4, <1>5, CallerKeeps

LEMMA PollBusyKeeps == ASSUME PoolInv, NEW c \in Callers, CallerPollBusy(c) PROVE PoolInv'
<1>0. "waitItem" \in CallerPcs /\ caller[c].pc = "poll" /\ CallerGoTo(c, "waitItem")
  BY DEF CallerPollBusy, CallerPcs
<1>1. /\ UNCHANGED <<poolVars, worker, DequeuePosition, DequeueMutex, buffer, WorkItemQueue, keys, EnqueuePosition, EnqueueMutex>>
      /\ WorkItemReadyEvent' \in BOOLEAN /\ WorkItemCompletedEvent' \in BOOLEAN
  BY DEF CallerPollBusy, lockVars, eventVars, PoolInv, TypeOK
<1>2. /\ TypeOK' /\ CallerFrame(c) /\ CallSound(c)
      /\ caller'[c].pc = "waitItem" /\ caller'[c].job = caller[c].job /\ caller'[c].first = caller[c].first
      /\ caller'[c].item = caller[c].item /\ caller'[c].data = caller[c].data /\ caller'[c].left = caller[c].left
      /\ caller'[c].per = caller[c].per /\ caller'[c].rem = caller[c].rem
  BY <1>0, <1>1, CallerMoves
<1>3. EnqueueMutex = c /\ c # None
  BY <1>0, <1>2, PoolAssumption DEF CallSound
<1>4. Position' = Position /\ (Open(c)' <=> Open(c)) /\ manager = "running"
  BY <1>0, <1>1, <1>2, <1>3 DEF Position, Open, PoolInv, Phases
<1>5. CallSound(c)'
  BY <1>0, <1>1, <1>2, <1>3 DEF CallSound, Open, Begun, FirstIsOwn
<1> QED BY <1>1, <1>2, <1>4, <1>5, CallerKeeps

LEMMA SignalReadyKeeps == ASSUME PoolInv, NEW c \in Callers, CallerSignalReady(c) PROVE PoolInv'
<1>0. "next" \in CallerPcs /\ caller[c].pc = "signalReady" /\ CallerGoTo(c, "next")
  BY DEF CallerSignalReady, CallerPcs
<1>1. /\ UNCHANGED <<poolVars, worker, DequeuePosition, DequeueMutex, buffer, WorkItemQueue, keys, EnqueuePosition, EnqueueMutex>>
      /\ WorkItemReadyEvent' \in BOOLEAN /\ WorkItemCompletedEvent' \in BOOLEAN
  BY DEF CallerSignalReady, lockVars, PoolInv, TypeOK
<1>2. /\ TypeOK' /\ CallerFrame(c) /\ CallSound(c)
      /\ caller'[c].pc = "next" /\ caller'[c].job = caller[c].job /\ caller'[c].first = caller[c].first
      /\ caller'[c].item = caller[c].item /\ caller'[c].data = caller[c].data /\ caller'[c].left = caller[c].left
      /\ caller'[c].per = caller[c].per /\ caller'[c].rem = caller[c].rem
  BY <1>0, <1>1, CallerMoves
<1>3. EnqueueMutex = c /\ c # None
  BY <1>0, <1>2, PoolAssumption DEF CallSound
<1>4. Position' = Position /\ (Open(c)' <=> Open(c)) /\ manager = "running"
  BY <1>0, <1>1, <1>2, <1>3 DEF Position, Open, PoolInv, Phases
<1>5. CallSound(c)'
  BY <1>0, <1>1, <1>2, <1>3 DEF CallSound, Open, Begun, FirstIsOwn
<1> QED BY <1>1, <1>2, <1>4, <1>5, CallerKeeps

LEMMA ReleaseKeeps == ASSUME PoolInv, NEW c \in Callers, CallerRelease(c) PROVE PoolInv'
<1> DEFINE p == IF caller[c].job.type = "data" THEN "waitDone" ELSE "idle"
<1>0. p \in CallerPcs /\ caller[c].pc = "next" /\ caller[c].left = 0 /\ CallerGoTo(c, p)
  BY DEF CallerRelease, CallerPcs
<1>1. /\ UNCHANGED <<poolVars, worker, DequeuePosition, DequeueMutex, buffer, WorkItemQueue, keys, EnqueuePosition>>
      /\ WorkItemReadyEvent' \in BOOLEAN /\ WorkItemCompletedEvent' \in BOOLEAN /\ EnqueueMutex' = None
  BY DEF CallerRelease, eventVars, PoolInv, TypeOK
<1>2. EnqueueMutex = c /\ c # None
  BY <1>0, PoolAssumption DEF CallSound, Calls, PoolInv
<1>3. /\ TypeOK' /\ CallerFrame(c) /\ CallSound(c)
      /\ caller'[c].pc = p /\ caller'[c].job = caller[c].job /\ caller'[c].first = caller[c].first
      /\ caller'[c].item = caller[c].item /\ caller'[c].data = caller[c].data /\ caller'[c].left = caller[c].left
      /\ caller'[c].per = caller[c].per /\ caller'[c].rem = caller[c].rem
  BY <1>0, <1>1, <1>2, CallerMoves
<1>4. Position' = Position /\ (Open(c)' <=> Open(c)) /\ manager = "running"
  BY <1>0, <1>1, <1>2, <1>3 DEF Position, Open, PoolInv, Phases
<1>5. CallSound(c)'
  BY <1>0, <1>1, <1>2, <1>3 DEF CallSound, Open, Begun, FirstIsOwn
<1> QED BY <1>1, <1>3, <1>4, <1>5, CallerKeeps

LEMMA ReturnsKeeps == ASSUME PoolInv, NEW c \in Callers, CallerReturns(c) PROVE PoolInv'
<1>0. "idle" \in CallerPcs /\ caller[c].pc = "signalCompleted" /\ CallerGoTo(c, "idle")
  BY DEF CallerReturns, CallerPcs
<1>1. /\ UNCHANGED <<poolVars, worker, DequeuePosition, DequeueMutex, buffer, WorkItemQueue, keys, EnqueuePosition, EnqueueMutex>>
      /\ WorkItemReadyEvent' \in BOOLEAN /\ WorkItemCompletedEvent' \in BOOLEAN
  BY DEF CallerReturns, lockVars, PoolInv, TypeOK
<1>2. /\ TypeOK' /\ CallerFrame(c) /\ CallSound(c)
      /\ caller'[c].pc = "idle" /\ caller'[c].job = caller[c].job /\ caller'[c].first = caller[c].first
      /\ caller'[c].item = caller[c].item /\ caller'[c].data = caller[c].data /\ caller'[c].left = caller[c].left
      /\ caller'[c].per = caller[c].per /\ caller'[c].rem = caller[c].rem
  BY <1>0, <1>1, CallerMoves
<1>4. Position' = Position /\ (Open(c)' <=> Open(c))
  BY <1>0, <1>1, <1>2 DEF Position, Open, CallerFrame, PoolInv, TypeOK
<1>5. CallSound(c)'
  BY <1>0, <1>1, <1>2 DEF CallSound, Open, Begun, FirstIsOwn
<1> QED BY <1>1, <1>2, <1>4, <1>5, CallerKeeps

LEMMA CallerAcquireKeeps == ASSUME PoolInv, NEW c \in Callers, CallerAcquire(c) PROVE PoolInv'
<1> DEFINE p == IF caller[c].job.type = "data" THEN "pollFirst" ELSE "next"
<1>0. /\ TypeOK /\ CallSound(c) /\ caller[c].pc = "acquire" /\ EnqueueMutex = None /\ EnqueueMutex' = c
      /\ EnqueuePosition \in Slots /\ caller[c] \in CallerStates /\ None \notin Callers /\ p \in CallerPcs
  BY PoolAssumption DEF CallerAcquire, PoolInv, Calls, TypeOK, CallerPcs
<1>1. /\ UNCHANGED <<poolVars, worker, DequeuePosition, DequeueMutex, buffer, WorkItemQueue, keys, EnqueuePosition, eventVars>>
      /\ caller' = [caller EXCEPT ![c] = [caller[c] EXCEPT !.pc = p, !.first = EnqueuePosition]]
  BY <1>0 DEF CallerAcquire, TypeOK
<1>2. [caller[c] EXCEPT !.pc = p, !.first = EnqueuePosition] \in CallerStates
  BY <1>0 DEF CallerStates
<1>3. /\ caller' \in [Callers -> CallerStates] /\ caller'[c] = [caller[c] EXCEPT !.pc = p, !.first = EnqueuePosition]
      /\ \A d \in Callers : d # c => caller'[d] = caller[d]
  <2>1. caller \in [Callers -> CallerStates]
    BY <1>0 DEF TypeOK
  <2> QED BY <1>1, <1>2, <2>1
<1>4. /\ caller'[c].pc = p /\ caller'[c].job = caller[c].job /\ caller'[c].first = EnqueuePosition
      /\ caller'[c].data = caller[c].data /\ caller'[c].left = caller[c].left
      /\ caller'[c].per = caller[c].per /\ caller'[c].rem = caller[c].rem
  BY <1>0, <1>3 DEF CallerStates
<1>5. CallerFrame(c)
  BY <1>0, <1>1, <1>3 DEF CallerFrame
<1>6. TypeOK'
  BY <1>0, <1>1, <1>3, <1>5, CallerTypes, StaysTyped DEF TypeOK
<1>7. ~Open(c) /\ ~Open(c)' /\ manager = "running"
  BY <1>0, <1>4 DEF Open, PoolInv, Phases
<1>8. Position' = Position
  BY <1>0, <1>1, <1>4 DEF Position
<1>9. CallSound(c)'
  <2>1. p = "pollFirst" => caller[c].job.type = "data"
    OBVIOUS
  <2> QED BY <1>0, <1>1, <1>4, <1>7, <2>1 DEF CallSound, Begun
<1> QED BY <1>1, <1>5, <1>6, <1>7, <1>8, <1>9, CallerKeeps

LEMMA NextItemKeeps == ASSUME PoolInv, NEW c \in Callers, CallerNextItem(c) PROVE PoolInv'
<1>0. /\ TypeOK /\ CallSound(c) /\ caller[c].pc = "next" /\ caller[c].left > 0 /\ EnqueueMutex = c /\ c # None
      /\ EnqueuePosition \in Slots /\ NextPosition(EnqueuePosition) \in Slots /\ caller[c] \in CallerStates
      /\ "poll" \in CallerPcs /\ EnqueuePosition # None
  BY PoolAssumption, SlotsFinite DEF CallerNextItem, PoolInv, Calls, CallSound, TypeOK, CallerPcs
<1>1. /\ UNCHANGED <<poolVars, worker, DequeuePosition, DequeueMutex, buffer, WorkItemQueue, keys, EnqueueMutex, eventVars>>
      /\ caller' = [caller EXCEPT ![c] = [caller[c] EXCEPT !.pc = "poll", !.item = EnqueuePosition]]
      /\ EnqueuePosition' = NextPosition(EnqueuePosition)
  BY <1>0 DEF CallerNextItem, TypeOK
<1>2. [caller[c] EXCEPT !.pc = "poll", !.item = EnqueuePosition] \in CallerStates
  BY <1>0 DEF CallerStates
<1>3. /\ caller' \in [Callers -> CallerStates] /\ caller'[c] = [caller[c] EXCEPT !.pc = "poll", !.item = EnqueuePosition]
      /\ \A d \in Callers : d # c => caller'[d] = caller[d]
  <2>1. caller \in [Callers -> CallerStates]
    BY <1>0 DEF TypeOK
  <2> QED BY <1>1, <1>2, <2>1
<1>4. /\ caller'[c].pc = "poll" /\ caller'[c].job = caller[c].job /\ caller'[c].first = caller[c].first
      /\ caller'[c].data = caller[c].data /\ caller'[c].left = caller[c].left /\ caller'[c].item = EnqueuePosition
      /\ caller'[c].per = caller[c].per /\ caller'[c].rem = caller[c].rem
  BY <1>0, <1>3 DEF CallerStates
<1>5. CallerFrame(c)
  BY <1>0, <1>1, <1>3 DEF CallerFrame
<1>6. TypeOK'
  BY <1>0, <1>1, <1>3, <1>5, CallerTypes, StaysTyped DEF TypeOK
<1>7. (Open(c)' <=> Open(c)) /\ manager = "running"
  BY <1>0, <1>4 DEF Open, PoolInv, Phases
<1>8. Position' = Position
  BY <1>0, <1>1, <1>4 DEF Position
<1>9. CallSound(c)'
  <2>1. (Begun(c)' <=> Begun(c)) /\ (Begun(c) => FirstIsOwn(c)')
    BY <1>0, <1>1, <1>4, <1>7 DEF Begun, FirstIsOwn, CallSound
  <2> QED BY <1>0, <1>1, <1>4, <1>7, <2>1 DEF CallSound
<1> QED BY <1>1, <1>4, <1>5, <1>6, <1>7, <1>8, <1>9, CallerKeeps

(* A call is made. *)
LEMMA CallBegins ==
    ASSUME PoolInv, NEW c \in Callers, caller[c].pc = "idle", NEW k \in CallerStates, k.pc \in {"idle", "acquire"},
           caller' = [caller EXCEPT ![c] = k],
           k.pc = "acquire" => /\ k.left > 0 /\ k.data = 1 /\ manager = "running"
                               /\ k.job.type = "data" => k.per >= 1 /\ (k.rem >= 1 => k.per >= 2),
           DOMAIN buffer' = Callers, \A d \in Callers : d # c => buffer'[d] = buffer[d],
           \A j \in DOMAIN buffer'[c] : buffer'[c][j] \in Seq(Nat),
           UNCHANGED <<poolVars, eventVars, lockVars, WorkItemQueue, worker, keys>>
    PROVE  PoolInv'
<1>0. TypeOK /\ CallSound(c)
  BY DEF PoolInv, Calls
<1>1. /\ caller' \in [Callers -> CallerStates] /\ caller'[c] = k
      /\ \A d \in Callers : d # c => caller'[d] = caller[d] /\ buffer'[d] = buffer[d]
  <2>1. caller \in [Callers -> CallerStates]
    BY <1>0 DEF TypeOK
  <2> QED BY <2>1
<1>2. CallerFrame(c)
  BY <1>1 DEF CallerFrame, lockVars
<1>3. TypeOK'
  <2>1. EnqueuePosition' \in Slots /\ EnqueueMutex' \in Callers \cup {None}
    BY <1>0 DEF lockVars, TypeOK
  <2> QED BY <1>0, <1>1, <1>2, <2>1, CallerTypes, StaysTyped
<1>4. ~Open(c) /\ ~Open(c)' /\ ~Begun(c)'
  BY <1>1 DEF Open, Begun
<1>5. Position' = Position
  BY <1>0, <1>1 DEF Position, lockVars, TypeOK
<1>6. CallSound(c)'
  BY <1>1, <1>4 DEF CallSound
<1>7. caller'[c].pc # "idle" => manager = "running"
  BY <1>1
<1> QED BY <1>2, <1>3, <1>4, <1>5, <1>6, <1>7, CallerKeeps

LEMMA InlineKeeps == ASSUME PoolInv, NEW c \in Callers, NEW job \in Jobs, DoWorkInline(c, job) PROVE PoolInv'
<1>0. TypeOK /\ caller[c] \in CallerStates /\ job \in [type : {"data", "key"}, units : Nat] /\ StartUnitNo \in Nat
  BY PoolAssumption DEF PoolInv, TypeOK
<1> DEFINE k == [caller[c] EXCEPT !.calls = @ + 1, !.job = job]
<1>1. caller[c].calls + 1 \in Nat
  BY <1>0 DEF CallerStates
<1>2. k \in CallerStates /\ k.pc = "idle" /\ caller[c].pc = "idle"
  BY <1>0, <1>1 DEF CallerStates, DoWorkInline
<1>3. caller' = [caller EXCEPT ![c] = k]
  BY <1>0 DEF DoWorkInline, TypeOK
<1>4. /\ DOMAIN buffer' = Callers /\ \A d \in Callers : d # c => buffer'[d] = buffer[d]
      /\ \A j \in DOMAIN buffer'[c] : buffer'[c][j] \in Seq(Nat)
  BY <1>0 DEF Transformed, DoWorkInline, TypeOK
<1> HIDE DEF k
<1> QED BY <1>2, <1>3, <1>4, CallBegins, ZenonT(60) DEF DoWorkInline

LEMMA BeginKeyKeeps == ASSUME PoolInv, NEW c \in Callers, NEW job \in Jobs, BeginKeyDerivation(c, job) PROVE PoolInv'
<1>0. TypeOK /\ caller[c] \in CallerStates /\ job \in [type : {"data", "key"}, units : Nat] /\ job.type = "key"
  BY PoolAssumption DEF PoolInv, TypeOK, BeginKeyDerivation
<1> DEFINE k == [IdleCaller EXCEPT !.pc = "acquire", !.job = job, !.left = 1, !.calls = caller[c].calls + 1]
<1>1. caller[c].calls + 1 \in Nat
  BY <1>0 DEF CallerStates
<1>2. k \in CallerStates /\ k.pc = "acquire" /\ k.left = 1 /\ k.data = 1 /\ k.job = job
  BY <1>0, <1>1 DEF CallerStates, IdleCaller, CallerPcs
<1>3. caller' = [caller EXCEPT ![c] = k] /\ caller[c].pc = "idle" /\ manager = "running"
  BY DEF BeginKeyDerivation
<1>4. /\ DOMAIN buffer' = Callers /\ \A d \in Callers : d # c => buffer'[d] = buffer[d]
      /\ \A j \in DOMAIN buffer'[c] : buffer'[c][j] \in Seq(Nat)
  BY <1>0 DEF BeginKeyDerivation, TypeOK
<1>5. UNCHANGED <<poolVars, eventVars, lockVars, WorkItemQueue, worker, keys>>
  BY DEF BeginKeyDerivation
<1>6. k.left > 0 /\ k.job.type # "data"
  BY <1>0, <1>2
<1> HIDE DEF k
<1> QED BY <1>2, <1>3, <1>4, <1>5, <1>6, CallBegins

LEMMA Divided ==
    ASSUME NEW n \in Nat, NEW t \in Nat, t > 0, n > t
    PROVE  /\ n \div t \in Nat /\ n \div t >= 1 /\ n % t \in Nat /\ n % t < t
           /\ n = t * (n \div t) + (n % t)
OBVIOUS

(* The fragments of a call have at least one unit. *)
LEMMA FragmentSizes ==
    ASSUME TypeOK, manager = "running", PhaseFlags, NEW n \in Nat, n > 1
    PROVE  /\ FragmentCount(n) \in Nat /\ FragmentCount(n) > 0
           /\ UnitsPerFragment(n) \in Nat /\ UnitsPerFragment(n) >= 1
           /\ Remainder(n) \in Nat /\ (Remainder(n) >= 1 => UnitsPerFragment(n) >= 2)
<1>1. ThreadCount \in Nat /\ ThreadCount >= 2
  BY PoolAssumption, FS_CardinalityType DEF PhaseFlags
<1>2. CASE n <= ThreadCount
  BY <1>1, <1>2 DEF FragmentCount, UnitsPerFragment, Remainder
<1>3. CASE ~(n <= ThreadCount)
  BY <1>1, <1>3, Divided DEF FragmentCount, UnitsPerFragment, Remainder
<1> QED BY <1>2, <1>3

LEMMA DoWorkKeeps == ASSUME PoolInv, NEW c \in Callers, NEW job \in Jobs, DoWork(c, job) PROVE PoolInv'
<1>0. /\ TypeOK /\ caller[c] \in CallerStates /\ job \in [type : {"data", "key"}, units : Nat]
      /\ job.units \in Nat /\ job.units > 1 /\ manager = "running" /\ PhaseFlags
  BY PoolAssumption DEF PoolInv, TypeOK, DoWork, Phases
<1> DEFINE k == [pc |-> "acquire", job |-> job, first |-> None, item |-> None,
                 left |-> FragmentCount(job.units), per |-> UnitsPerFragment(job.units),
                 rem |-> Remainder(job.units), data |-> 1, calls |-> caller[c].calls + 1]
<1>1. caller[c].calls + 1 \in Nat
  BY <1>0 DEF CallerStates
<1>2. k \in CallerStates /\ k.pc = "acquire" /\ k.left > 0 /\ k.data = 1 /\ k.per >= 1 /\ (k.rem >= 1 => k.per >= 2)
  BY <1>0, <1>1, FragmentSizes DEF CallerStates, CallerPcs
<1>3. caller' = [caller EXCEPT ![c] = k] /\ caller[c].pc = "idle"
  BY <1>0 DEF DoWork, TypeOK
<1>4. /\ DOMAIN buffer' = Callers /\ \A d \in Callers : d # c => buffer'[d] = buffer[d]
      /\ \A j \in DOMAIN buffer'[c] : buffer'[c][j] \in Seq(Nat)
  BY <1>0 DEF DoWork, TypeOK
<1>5. UNCHANGED <<poolVars, eventVars, lockVars, WorkItemQueue, worker, keys>>
  BY DEF DoWork
<1> HIDE DEF k
<1> QED BY <1>0, <1>2, <1>3, <1>4, <1>5, CallBegins

(* What a caller keeps that changes counters, events or an item that nobody uses. *)
LEMMA CallerAlters ==
    ASSUME PoolInv, TypeOK', NEW c \in Callers, CallerFrame(c), UNCHANGED keys, ItemsFrame, Position' = Position,
           caller'[c].pc # "idle" => manager = "running",
           \A d \in Callers, s \in Slots : InUse(s) => (InCall(s, d)' <=> InCall(s, d)),
           \A d \in Callers : Begun(d)' => caller'[d].first = caller[d].first,
           \A s \in Slots : \/ WorkItemQueue'[s].State = WorkItemQueue[s].State
                            \/ ~InUse(s) /\ WorkItemQueue'[s].State = "Free"
    PROVE  /\ Phases' /\ Owned' /\ ReadyItems' /\ FirstBlocks' /\ KeyCountExact'
           /\ \A v \in Threads : worker'[v] = worker[v] /\ (Has(v) => Item(v)'.FirstFragment = Item(v).FirstFragment)
<1>1. UNCHANGED <<worker, keys, StopPending, manager, ThreadPoolRunning, ThreadCount>>
  BY DEF CallerFrame, poolVars
<1>2. \A d \in Callers : d # c => caller'[d] = caller[d]
  BY DEF CallerFrame
<1>3. Phases'
  BY <1>1, <1>2 DEF PoolInv, Phases, PhaseFlags, BeforeStart, AfterStop
<1>4. \A v \in Threads : (Has(v)' <=> Has(v)) /\ worker'[v] = worker[v]
  BY <1>1 DEF Has
<1>5. ASSUME NEW v \in Threads, Has(v)
      PROVE  /\ worker[v].item \in Slots /\ InUse(worker[v].item) /\ ItemSound(v) /\ Item(v)'.State = Item(v).State
             /\ Item(v)'.Type = Item(v).Type /\ Item(v)'.owner = Item(v).owner
             /\ Item(v)'.FirstFragment = Item(v).FirstFragment
  <2>1. worker[v].item \in Slots /\ InUse(worker[v].item) /\ ItemSound(v)
    BY <1>5, HasItem
  <2> QED BY <1>4, <2>1 DEF Item, ItemsFrame
<1>6. Owned'
  <2>1. ItemsKnown' /\ OneWorkerEach'
    BY <1>1, <1>4 DEF PoolInv, Owned, ItemsKnown, OneWorkerEach
  <2>2. ASSUME NEW v \in Threads, Has(v)' PROVE ItemSound(v)'
    <3>1. Has(v) /\ worker'[v] = worker[v]
      BY <1>4, <2>2
    <3>2. \A d \in Callers : InCall(worker[v].item, d)' <=> InCall(worker[v].item, d)
      BY <1>5, <3>1
    <3> QED BY <1>5, <3>1, <3>2 DEF ItemSound
  <2> QED BY <2>1, <2>2 DEF Owned
<1>7. \A s \in Slots : WorkItemQueue'[s].State = "Ready" => WorkItemQueue[s].State = "Ready" /\ InUse(s)
  BY DEF InUse
<1>8. ReadyItems'
  BY <1>7 DEF PoolInv, ReadyItems, ItemsFrame
<1>9. FirstBlocks'
  <2> SUFFICES ASSUME NEW d \in Callers, NEW s \in Slots, InCall(s, d)', InUse(s)'
               PROVE  Ahead(caller[d].first)' <= Ahead(s)'
    BY DEF FirstBlocks
  <2>1. InUse(s)
    BY <1>4, <1>7 DEF InUse
  <2>2. InCall(s, d) /\ caller[d].first \in Slots /\ caller'[d].first = caller[d].first
    BY <2>1 DEF PoolInv, Calls, CallSound, InCall, Begun
  <2>3. Ahead(caller[d].first)' = Ahead(caller[d].first) /\ Ahead(s)' = Ahead(s)
    BY <2>2 DEF Ahead
  <2> QED BY <2>1, <2>2, <2>3 DEF PoolInv, FirstBlocks
<1>10. KeyCountExact'
  <2>1. ASSUME ~StopPending, NEW d \in Callers PROVE KeyItems(d)' = KeyItems(d)
    <3>1. \A s \in Slots : WorkItemQueue'[s].State = "Ready" <=> WorkItemQueue[s].State = "Ready"
      BY DEF InUse
    <3> QED BY <1>1, <3>1 DEF KeyItems, ItemsFrame
  <2> QED BY <1>1, <2>1 DEF PoolInv, KeyCountExact
<1> QED BY <1>3, <1>4, <1>5, <1>6, <1>8, <1>9, <1>10

(* The items of a call with a free first item have all been done. *)
LEMMA NoneOfAnother ==
    ASSUME PoolInv, ~StopPending, NEW f \in Slots, WorkItemQueue[f].State = "Free"
    PROVE  /\ Uncounted(f) = {}
           /\ ~WorkItemQueue[f].ItemCompletedEvent
           /\ \A w \in Threads : worker[w].pc = "signal" => Item(w).FirstFragment # f
<1>1. ASSUME NEW c \in Callers, NEW s \in Slots, InCall(s, c), WorkItemQueue[s].FirstFragment = f PROVE FALSE
  <2>1. Begun(c) /\ caller[c].first = f
    BY <1>1 DEF InCall
  <2>2. FirstIsOwn(c)
    BY <2>1 DEF PoolInv, Calls, CallSound
  <2> QED BY <2>1, <2>2 DEF FirstIsOwn
<1>2. ASSUME NEW s \in Uncounted(f) PROVE FALSE
  <2>1. s \in Slots /\ WorkItemQueue[s].Type = "data" /\ WorkItemQueue[s].FirstFragment = f
    BY DEF Uncounted
  <2>2. CASE WorkItemQueue[s].State = "Ready"
    BY <1>1, <2>1, <2>2 DEF PoolInv, ReadyItems
  <2>3. CASE WorkItemQueue[s].State # "Ready"
    <3>1. PICK w \in Threads : worker[w].item = s /\ worker[w].pc \in CountPcs
      BY <2>3 DEF Uncounted, CountPcs
    <3>2. Has(w) /\ Item(w) = WorkItemQueue[s]
      BY <3>1 DEF Has, HasPcs, DataPcs, CountPcs, Item
    <3> QED BY <1>1, <2>1, <3>1, <3>2, HasItem
  <2> QED BY <2>2, <2>3
<1>3. ~WorkItemQueue[f].ItemCompletedEvent
  BY DEF PoolInv, Events, Calls, CallSound, FirstIsOwn
<1>4. ASSUME NEW w \in Threads, worker[w].pc = "signal", Item(w).FirstFragment = f PROVE FALSE
  <2>1. Has(w)
    BY <1>4 DEF Has, HasPcs, DataPcs
  <2>2. worker[w].item \in Slots /\ Item(w).Type = "data"
    BY <1>4, <2>1, HasItem DEF ItemSound, DataPcs
  <2> QED BY <1>1, <1>4, <2>1, <2>2, HasItem DEF Item
<1> QED BY <1>2, <1>3, <1>4

LEMMA PollFirstKeeps == ASSUME PoolInv, NEW c \in Callers, CallerPollFirst(c) PROVE PoolInv'
<1>0. /\ TypeOK /\ CallSound(c) /\ caller[c].pc = "pollFirst" /\ EnqueueMutex = c /\ c # None /\ manager = "running"
      /\ caller[c].first \in Slots /\ {"waitFirst", "next"} \subseteq CallerPcs /\ ~StopPending
  BY PoolAssumption DEF CallerPollFirst, PoolInv, Calls, CallSound, TypeOK, CallerPcs, Phases, PhaseFlags
<1>1. /\ UNCHANGED <<poolVars, worker, DequeuePosition, DequeueMutex, buffer, keys, EnqueuePosition, EnqueueMutex, eventVars>>
      /\ WorkItemReadyEvent' \in BOOLEAN /\ WorkItemCompletedEvent' \in BOOLEAN
  BY <1>0 DEF CallerPollFirst, lockVars, eventVars, TypeOK
<1>2. CASE WorkItemQueue[caller[c].first].State # "Free"
  <2>1. CallerGoTo(c, "waitFirst") /\ UNCHANGED WorkItemQueue
    BY <1>2 DEF CallerPollFirst
  <2>2. /\ TypeOK' /\ CallerFrame(c)
        /\ caller'[c].pc = "waitFirst" /\ caller'[c].job = caller[c].job /\ caller'[c].first = caller[c].first
        /\ caller'[c].item = caller[c].item /\ caller'[c].data = caller[c].data /\ caller'[c].left = caller[c].left
        /\ caller'[c].per = caller[c].per /\ caller'[c].rem = caller[c].rem
    BY <1>0, <1>1, <2>1, CallerMoves
  <2>4. Position' = Position /\ (Open(c)' <=> Open(c))
    BY <1>0, <1>1, <2>2 DEF Position, Open
  <2>5. CallSound(c)'
    BY <1>0, <1>1, <2>2 DEF CallSound, Open, Begun, FirstIsOwn
  <2> QED BY <1>0, <1>1, <2>1, <2>2, <2>4, <2>5, CallerKeeps
<1>3. CASE WorkItemQueue[caller[c].first].State = "Free"
  <2>0. PICK f \in Slots : f = caller[c].first
    BY <1>0
  <2>1. /\ CallerGoTo(c, "next") /\ caller[c] \in CallerStates /\ caller[c].left \in Nat
        /\ WorkItemQueue' = [WorkItemQueue EXCEPT ![f].OutstandingFragmentCount = caller[c].left]
    BY <1>0, <1>3, <2>0 DEF CallerPollFirst, TypeOK, CallerStates
  <2>2. /\ caller' \in [Callers -> CallerStates] /\ caller'[c] = [caller[c] EXCEPT !.pc = "next"]
        /\ \A d \in Callers : d # c => caller'[d] = caller[d]
    BY <1>0, <2>1, CallerAt
  <2>3. /\ caller'[c].pc = "next" /\ caller'[c].job = caller[c].job /\ caller'[c].first = caller[c].first
        /\ caller'[c].data = caller[c].data /\ caller'[c].left = caller[c].left
        /\ caller'[c].per = caller[c].per /\ caller'[c].rem = caller[c].rem
    BY <2>1, <2>2 DEF CallerStates
  <2>4. /\ WorkItemQueue' \in [Slots -> WorkItems] /\ ItemsFrame /\ StatesFrame /\ EventsFrame
        /\ WorkItemQueue'[f].OutstandingFragmentCount = caller[c].left
        /\ \A t \in Slots : t # f => WorkItemQueue'[t] = WorkItemQueue[t]
    BY <1>0, <2>1, CountSet
  <2>5. CallerFrame(c)
    BY <1>1, <2>2 DEF CallerFrame
  <2>6. TypeOK'
    BY <1>0, <1>1, <2>2, <2>4, <2>5, CallerTypes, StaysTyped DEF TypeOK
  <2>7. Position' = Position /\ ~Open(c) /\ Open(c)' /\ ~Begun(c)'
    BY <1>0, <1>1, <2>3 DEF Position, Open, Begun, CallSound
  <2>8. \A d \in Callers : d # c => (Open(d)' <=> Open(d)) /\ (Begun(d)' <=> Begun(d)) /\ CallSound(d)'
    <3>1. ASSUME NEW d \in Callers, d # c PROVE (Open(d)' <=> Open(d)) /\ (Begun(d)' <=> Begun(d)) /\ CallSound(d)'
      <4>1. Open(d) \/ caller[d].pc = "freeFirst" => caller[d].first \in Slots
        BY DEF PoolInv, Calls, CallSound
      <4> QED BY <2>4, <2>5, <3>1, <4>1, OthersCalls DEF ItemsFrame, StatesFrame
    <3> QED BY <3>1
  <2>9. \A d \in Callers, s \in Slots : InCall(s, d)' <=> InCall(s, d)
    <3>1. \A s \in Slots : ~InCall(s, c)' /\ ~InCall(s, c)
      BY <2>7 DEF InCall, Begun
    <3>2. \A d \in Callers, s \in Slots : d # c => (InCall(s, d)' <=> InCall(s, d))
      BY <2>2, <2>4, <2>8 DEF InCall, ItemsFrame
    <3> QED BY <3>1, <3>2
  <2>10. /\ Phases' /\ Owned' /\ ReadyItems' /\ FirstBlocks' /\ KeyCountExact'
         /\ \A v \in Threads : worker'[v] = worker[v] /\ (Has(v) => Item(v)'.FirstFragment = Item(v).FirstFragment)
    <3>1. \A d \in Callers : Begun(d)' => caller'[d].first = caller[d].first
      BY <2>2, <2>3
    <3> QED BY <1>0, <1>1, <2>4, <2>5, <2>6, <2>7, <2>9, <3>1, CallerAlters DEF StatesFrame
  <2>11. Calls'
    <3>1. CallSound(c)'
      BY <1>0, <1>1, <1>3, <2>0, <2>3, <2>4, <2>7 DEF CallSound, StatesFrame
    <3> QED BY <2>8, <3>1 DEF Calls
  <2>12. Events'
    <3>1. /\ ~WorkItemQueue[f].ItemCompletedEvent
          /\ \A w \in Threads : worker[w].pc = "signal" => Item(w).FirstFragment # f
      BY <1>0, <1>3, <2>0, NoneOfAnother
    <3>2. \A w \in Threads : worker'[w].pc = "signal" =>
             worker[w].pc = "signal" /\ Item(w)'.FirstFragment = Item(w).FirstFragment /\ Item(w).FirstFragment \in Slots
      <4> SUFFICES ASSUME NEW w \in Threads, worker'[w].pc = "signal"
                   PROVE  worker[w].pc = "signal" /\ Item(w)'.FirstFragment = Item(w).FirstFragment
                          /\ Item(w).FirstFragment \in Slots
        OBVIOUS
      <4>1. worker[w].pc = "signal" /\ Has(w)
        BY <2>10 DEF Has, HasPcs, DataPcs
      <4> QED BY <2>10, <4>1, HasItem DEF ItemSound, DataPcs
    <3>3. \A s \in Slots : WorkItemQueue'[s].ItemCompletedEvent => s # f /\ WorkItemQueue[s].ItemCompletedEvent
      BY <2>4, <3>1 DEF EventsFrame
    <3>4. \A d \in Callers : Begun(d) => Begun(d)' /\ caller'[d].first = caller[d].first
      BY <2>2, <2>7, <2>8 DEF Begun
    <3> QED BY <2>4, <3>1, <3>2, <3>3, <3>4 DEF PoolInv, Events
  <2>13. FragmentCountExact'
    <3>1. ASSUME NEW d \in Callers, Open(d)'
          PROVE  WorkItemQueue'[caller'[d].first].OutstandingFragmentCount
                    = caller'[d].left + Cardinality(Uncounted(caller[d].first)')
      <4>0. caller'[d].first = caller[d].first /\ caller'[d].left = caller[d].left /\ caller[d].left \in Nat
        BY <1>0, <2>2, <2>3 DEF TypeOK, CallerStates
      <4>1. Uncounted(caller[d].first)' = Uncounted(caller[d].first)
        BY <1>1, <2>4, <4>0 DEF Uncounted, ItemsFrame, StatesFrame
      <4>2. CASE d = c
        <5>1. Uncounted(f) = {}
          BY <1>0, <1>3, <2>0, NoneOfAnother
        <5>2. Cardinality(Uncounted(caller[d].first)') = 0
          BY <2>0, <4>1, <4>2, <5>1, FS_EmptySet
        <5> QED BY <2>0, <2>4, <4>0, <4>2, <5>2
      <4>3. CASE d # c
        <5>1. Open(d)
          BY <2>8, <3>1, <4>3
        <5>2. caller[d].first \in Slots /\ caller[d].first # f
          <6>1. Begun(d) \/ (~Begun(d) /\ caller[d].data = 1)
            BY <5>1, SMTT(60) DEF Begun, PoolInv, Calls, CallSound, TypeOK, CallerStates
          <6>2. CASE Begun(d)
            BY <1>3, <2>0, <6>2 DEF PoolInv, Calls, CallSound, FirstIsOwn, Begun
          <6>3. CASE ~Begun(d) /\ caller[d].data = 1
            BY <1>0, <4>3, <5>1, <6>3 DEF PoolInv, Calls, CallSound
          <6> QED BY <6>1, <6>2, <6>3
        <5>3. WorkItemQueue[caller[d].first].OutstandingFragmentCount
                 = caller[d].left + Cardinality(Uncounted(caller[d].first))
          BY <5>1 DEF PoolInv, FragmentCountExact, Open
        <5> QED BY <2>4, <4>0, <4>1, <5>2, <5>3
      <4> QED BY <4>2, <4>3
    <3> QED BY <3>1 DEF FragmentCountExact, Open
  <2> QED BY <2>6, <2>10, <2>11, <2>12, <2>13 DEF PoolInv
<1> QED BY <1>2, <1>3

(* A call whose completion event is set has no item left. *)
LEMMA AllDone ==
    ASSUME PoolInv, NEW c \in Callers, caller[c].pc = "waitDone", WorkItemQueue[caller[c].first].ItemCompletedEvent
    PROVE  /\ Begun(c) /\ FirstIsOwn(c) /\ caller[c].first \in Slots
           /\ \A s \in Slots : InCall(s, c) => ~InUse(s)
<1>1. /\ Begun(c) /\ FirstIsOwn(c) /\ caller[c].first \in Slots /\ Open(c)
      /\ caller[c].left = 0 /\ ~StopPending
  <2>1. CallSound(c) /\ manager = "running" /\ caller[c] \in CallerStates
    BY DEF PoolInv, Calls, Phases, TypeOK
  <2>2. Open(c) /\ caller[c].data \in Nat
    BY <2>1 DEF CallSound, Open, CallerStates
  <2>3. caller[c].data # 1 /\ caller[c].data >= 1
    BY <2>1, <2>2 DEF CallSound
  <2>4. Begun(c)
    BY <2>2, <2>3 DEF Begun
  <2> QED BY <2>1, <2>2, <2>4 DEF CallSound, PoolInv, Phases, PhaseFlags
<1> DEFINE f == caller[c].first
<1>2. WorkItemQueue[f].OutstandingFragmentCount = 0 /\ \A w \in Threads : worker[w].pc = "signal" => Item(w).FirstFragment # f
  BY <1>1 DEF PoolInv, Events
<1>3. WorkItemQueue[f].OutstandingFragmentCount = caller[c].left + Cardinality(Uncounted(f))
  BY <1>1 DEF PoolInv, FragmentCountExact, Open
<1>4. Cardinality(Uncounted(f)) = 0 /\ IsFiniteSet(Uncounted(f))
  BY <1>1, <1>2, <1>3, CountedItems
<1>5. Uncounted(f) = {}
  BY <1>4, FS_EmptySet
<1>6. ASSUME NEW s \in Slots, InCall(s, c), InUse(s) PROVE FALSE
  <2>1. WorkItemQueue[s].Type = "data" /\ WorkItemQueue[s].FirstFragment = f /\ WorkItemQueue[s].State # "Ready"
    BY <1>5, <1>6 DEF InCall, Uncounted
  <2>2. PICK w \in Threads : Has(w) /\ worker[w].item = s
    BY <1>6, <2>1 DEF InUse
  <2>3. worker[w].pc \notin CountPcs
    BY <1>5, <2>1, <2>2 DEF Uncounted, CountPcs
  <2>4. worker[w].pc \notin KeyPcs
    BY <2>1, <2>2, HasItem DEF ItemSound, Item
  <2> QED BY <1>2, <2>1, <2>2, <2>3, <2>4 DEF Has, HasPcs, DataPcs, CountPcs, Item
<1> QED BY <1>1, <1>6

(* The counters of the calls that are open before and after. *)
LEMMA CountsKept ==
    ASSUME PoolInv, TypeOK', NEW c \in Callers, CallerFrame(c), ItemsFrame, CountsFrame, ~Open(c)',
           \A s \in Slots : WorkItemQueue'[s].State = "Ready" <=> WorkItemQueue[s].State = "Ready",
           \A d \in Callers : d # c => (Open(d)' <=> Open(d))
    PROVE  FragmentCountExact'
<1>1. ASSUME NEW d \in Callers, Open(d)'
      PROVE  WorkItemQueue'[caller'[d].first].OutstandingFragmentCount
                = caller'[d].left + Cardinality(Uncounted(caller[d].first)')
  <2>1. d # c /\ Open(d) /\ caller'[d] = caller[d] /\ caller[d].first \in Slots /\ UNCHANGED worker
    BY <1>1 DEF CallerFrame, PoolInv, Calls, CallSound
  <2>2. Uncounted(caller[d].first)' = Uncounted(caller[d].first)
    BY <2>1 DEF Uncounted, ItemsFrame
  <2>3. WorkItemQueue[caller[d].first].OutstandingFragmentCount
           = caller[d].left + Cardinality(Uncounted(caller[d].first))
    BY <2>1 DEF PoolInv, FragmentCountExact, Open
  <2> QED BY <2>1, <2>2, <2>3 DEF CountsFrame
<1> QED BY <1>1 DEF FragmentCountExact, Open

(* The events, when no event is set and no counter is changed. *)
LEMMA EventsStay ==
    ASSUME PoolInv, NEW c \in Callers, CallerFrame(c), CountsFrame,
           \A v \in Threads : worker'[v] = worker[v] /\ (Has(v) => Item(v)'.FirstFragment = Item(v).FirstFragment),
           \A s \in Slots : WorkItemQueue'[s].ItemCompletedEvent =>
               WorkItemQueue[s].ItemCompletedEvent /\ \A d \in Callers : Begun(d) /\ caller[d].first = s =>
                                                         Begun(d)' /\ caller'[d].first = s
    PROVE  Events'
<1>1. \A w \in Threads : worker'[w].pc = "signal" =>
         worker[w].pc = "signal" /\ Item(w)'.FirstFragment = Item(w).FirstFragment /\ Item(w).FirstFragment \in Slots
  <2> SUFFICES ASSUME NEW w \in Threads, worker'[w].pc = "signal"
               PROVE  worker[w].pc = "signal" /\ Item(w)'.FirstFragment = Item(w).FirstFragment
                      /\ Item(w).FirstFragment \in Slots
    OBVIOUS
  <2>1. worker[w].pc = "signal" /\ Has(w)
    BY DEF Has, HasPcs, DataPcs
  <2> QED BY <2>1, HasItem DEF ItemSound, DataPcs
<1> QED BY <1>1 DEF PoolInv, Events, CountsFrame

LEMMA WaitDoneKeeps == ASSUME PoolInv, NEW c \in Callers, CallerWaitDone(c) PROVE PoolInv'
<1>0. /\ TypeOK /\ CallSound(c) /\ caller[c].pc = "waitDone" /\ manager = "running" /\ "freeFirst" \in CallerPcs
      /\ WorkItemQueue[caller[c].first].ItemCompletedEvent /\ CallerGoTo(c, "freeFirst") /\ caller[c] \in CallerStates
  BY DEF CallerWaitDone, PoolInv, Calls, TypeOK, CallerPcs, Phases
<1>1. /\ UNCHANGED <<poolVars, worker, DequeuePosition, DequeueMutex, buffer, keys, EnqueuePosition, EnqueueMutex, eventVars>>
  BY DEF CallerWaitDone, lockVars
<1>2. Begun(c) /\ FirstIsOwn(c) /\ \A s \in Slots : InCall(s, c) => ~InUse(s)
  BY <1>0, AllDone
<1>3. PICK f \in Slots : f = caller[c].first
  BY <1>0, AllDone
<1>4. WorkItemQueue' = [WorkItemQueue EXCEPT ![f].ItemCompletedEvent = FALSE]
  BY <1>3 DEF CallerWaitDone
<1>5. /\ WorkItemQueue' \in [Slots -> WorkItems] /\ ItemsFrame /\ StatesFrame /\ CountsFrame
      /\ WorkItemQueue'[f].ItemCompletedEvent = FALSE
      /\ \A t \in Slots : t # f => WorkItemQueue'[t] = WorkItemQueue[t]
  BY <1>0, <1>4, EventSet
<1>6. /\ caller' \in [Callers -> CallerStates] /\ caller'[c] = [caller[c] EXCEPT !.pc = "freeFirst"]
      /\ \A d \in Callers : d # c => caller'[d] = caller[d]
  BY <1>0, CallerAt
<1>7. /\ caller'[c].pc = "freeFirst" /\ caller'[c].job = caller[c].job /\ caller'[c].first = caller[c].first
      /\ caller'[c].data = caller[c].data /\ caller'[c].left = caller[c].left
  BY <1>0, <1>6 DEF CallerStates
<1>8. CallerFrame(c)
  BY <1>1, <1>6 DEF CallerFrame
<1>9. TypeOK'
  BY <1>0, <1>1, <1>5, <1>6, <1>8, CallerTypes, StaysTyped DEF TypeOK
<1>10. Position' = Position /\ ~Open(c)' /\ ~Begun(c)'
  BY <1>0, <1>1, <1>6, <1>7 DEF Position, Open, Begun, TypeOK
<1>11. ASSUME NEW d \in Callers, d # c PROVE (Open(d)' <=> Open(d)) /\ (Begun(d)' <=> Begun(d)) /\ CallSound(d)'
  <2>1. Open(d) \/ caller[d].pc = "freeFirst" => caller[d].first \in Slots
    BY DEF PoolInv, Calls, CallSound
  <2> QED BY <1>5, <1>8, <1>11, <2>1, OthersCalls DEF ItemsFrame, StatesFrame
<1>12. \A d \in Callers, s \in Slots : InUse(s) => (InCall(s, d)' <=> InCall(s, d))
  <2>1. \A s \in Slots : InUse(s) => ~InCall(s, c)' /\ ~InCall(s, c)
    BY <1>2, <1>10 DEF InCall
  <2>2. \A d \in Callers, s \in Slots : d # c => (InCall(s, d)' <=> InCall(s, d))
    BY <1>5, <1>6, <1>11 DEF InCall, ItemsFrame
  <2> QED BY <2>1, <2>2
<1>13. /\ Phases' /\ Owned' /\ ReadyItems' /\ FirstBlocks' /\ KeyCountExact'
       /\ \A v \in Threads : worker'[v] = worker[v] /\ (Has(v) => Item(v)'.FirstFragment = Item(v).FirstFragment)
  <2>1. \A d \in Callers : Begun(d)' => caller'[d].first = caller[d].first
    BY <1>6, <1>7
  <2> QED BY <1>0, <1>1, <1>5, <1>8, <1>9, <1>10, <1>12, <2>1, CallerAlters DEF StatesFrame
<1>14. Calls'
  <2>1. FirstIsOwn(c)'
    BY <1>2, <1>3, <1>5, <1>7 DEF FirstIsOwn, ItemsFrame, StatesFrame
  <2>2. CallSound(c)'
    BY <1>0, <1>3, <1>7, <1>10, <2>1 DEF CallSound
  <2> QED BY <1>11, <2>2 DEF Calls
<1>15. Events'
  <2>1. \A s \in Slots : WorkItemQueue'[s].ItemCompletedEvent => s # f /\ WorkItemQueue[s].ItemCompletedEvent
    BY <1>5
  <2>2. \A d \in Callers : d # c => (Begun(d)' <=> Begun(d)) /\ caller'[d] = caller[d]
    BY <1>6, <1>11
  <2> QED BY <1>3, <1>5, <1>8, <1>13, <2>1, <2>2, EventsStay
<1>16. FragmentCountExact'
  BY <1>5, <1>8, <1>9, <1>10, <1>11, CountsKept DEF StatesFrame
<1> QED BY <1>9, <1>13, <1>14, <1>15, <1>16 DEF PoolInv

LEMMA FreeFirstKeeps == ASSUME PoolInv, NEW c \in Callers, CallerFreeFirst(c) PROVE PoolInv'
<1>0. /\ TypeOK /\ CallSound(c) /\ caller[c].pc = "freeFirst" /\ manager = "running" /\ "signalCompleted" \in CallerPcs
      /\ CallerGoTo(c, "signalCompleted") /\ caller[c] \in CallerStates /\ FirstIsOwn(c) /\ ~Open(c)
  BY DEF CallerFreeFirst, PoolInv, Calls, CallSound, TypeOK, CallerPcs, Phases, Open
<1>1. /\ UNCHANGED <<poolVars, worker, DequeuePosition, DequeueMutex, buffer, keys, EnqueuePosition, EnqueueMutex, eventVars>>
  BY DEF CallerFreeFirst, lockVars
<1>3. PICK f \in Slots : f = caller[c].first
  BY <1>0 DEF CallSound
<1>2. ~InUse(f)
  <2>1. \A d \in Callers : ~InCall(f, d)
    BY <1>0, <1>3 DEF InCall, FirstIsOwn, Begun
  <2>2. WorkItemQueue[f].Type = "data"
    BY <1>0, <1>3 DEF FirstIsOwn
  <2>3. WorkItemQueue[f].State # "Ready"
    BY <2>1, <2>2 DEF PoolInv, ReadyItems
  <2>4. ASSUME NEW w \in Threads, Has(w), worker[w].item = f PROVE FALSE
    BY <2>1, <2>2, <2>4, HasItem DEF Item
  <2> QED BY <2>3, <2>4 DEF InUse
<1>4. WorkItemQueue' = [WorkItemQueue EXCEPT ![f].State = "Free"]
  BY <1>3 DEF CallerFreeFirst
<1>5. /\ WorkItemQueue' \in [Slots -> WorkItems] /\ ItemsFrame /\ CountsFrame /\ EventsFrame
      /\ WorkItemQueue'[f].State = "Free"
      /\ \A t \in Slots : t # f => WorkItemQueue'[t] = WorkItemQueue[t]
  BY <1>0, <1>4, StateSet
<1>6. /\ caller' \in [Callers -> CallerStates] /\ caller'[c] = [caller[c] EXCEPT !.pc = "signalCompleted"]
      /\ \A d \in Callers : d # c => caller'[d] = caller[d]
  BY <1>0, CallerAt
<1>7. /\ caller'[c].pc = "signalCompleted" /\ caller'[c].job = caller[c].job /\ caller'[c].first = caller[c].first
      /\ caller'[c].data = caller[c].data /\ caller'[c].left = caller[c].left
      /\ caller'[c].per = caller[c].per /\ caller'[c].rem = caller[c].rem
  BY <1>0, <1>6 DEF CallerStates
<1>8. CallerFrame(c)
  BY <1>1, <1>6 DEF CallerFrame
<1>9. TypeOK'
  BY <1>0, <1>1, <1>5, <1>6, <1>8, CallerTypes, StaysTyped DEF TypeOK
<1>10. Position' = Position /\ ~Open(c)' /\ ~Begun(c)' /\ ~Begun(c)
  BY <1>0, <1>1, <1>6, <1>7 DEF Position, Open, Begun, TypeOK
<1>11. ASSUME NEW d \in Callers, d # c PROVE (Open(d)' <=> Open(d)) /\ (Begun(d)' <=> Begun(d)) /\ CallSound(d)'
  <2>1. Open(d) \/ caller[d].pc = "freeFirst" => caller[d].first \in Slots /\ caller[d].first # f
    BY <1>0, <1>3, <1>11, FirstsDiffer DEF PoolInv, Calls, CallSound
  <2> QED BY <1>5, <1>8, <1>11, <2>1, OthersCalls
<1>12. \A d \in Callers, s \in Slots : InCall(s, d)' <=> InCall(s, d)
  <2>1. \A s \in Slots : ~InCall(s, c)' /\ ~InCall(s, c)
    BY <1>10 DEF InCall
  <2>2. \A d \in Callers, s \in Slots : d # c => (InCall(s, d)' <=> InCall(s, d))
    BY <1>5, <1>6, <1>11 DEF InCall, ItemsFrame
  <2> QED BY <2>1, <2>2
<1>13. /\ Phases' /\ Owned' /\ ReadyItems' /\ FirstBlocks' /\ KeyCountExact'
       /\ \A v \in Threads : worker'[v] = worker[v] /\ (Has(v) => Item(v)'.FirstFragment = Item(v).FirstFragment)
  <2>1. \A d \in Callers : Begun(d)' => caller'[d].first = caller[d].first
    BY <1>6, <1>7
  <2>2. \A s \in Slots : \/ WorkItemQueue'[s].State = WorkItemQueue[s].State
                         \/ ~InUse(s) /\ WorkItemQueue'[s].State = "Free"
    BY <1>2, <1>5
  <2> QED BY <1>0, <1>1, <1>5, <1>8, <1>9, <1>10, <1>12, <2>1, <2>2, CallerAlters
<1>14. Calls'
  <2>2. CallSound(c)'
    BY <1>0, <1>3, <1>7, <1>10 DEF CallSound
  <2> QED BY <1>11, <2>2 DEF Calls
<1>15. Events'
  <2>2. \A d \in Callers : Begun(d) => Begun(d)' /\ caller'[d].first = caller[d].first
    BY <1>6, <1>7, <1>10, <1>11
  <2> QED BY <1>5, <1>8, <1>13, <2>2, EventsStay DEF EventsFrame
<1>16. FragmentCountExact'
  <2>1. \A s \in Slots : WorkItemQueue'[s].State = "Ready" <=> WorkItemQueue[s].State = "Ready"
    BY <1>2, <1>5 DEF InUse
  <2> QED BY <1>5, <1>8, <1>9, <1>10, <1>11, <2>1, CountsKept
<1> QED BY <1>9, <1>13, <1>14, <1>15, <1>16 DEF PoolInv

-----------------------------------------------------------------------------
(* How far ahead the slots are when the enqueue position moves on. *)
LEMMA AheadMoves ==
    ASSUME PoolInv, NEW p \in Slots, Position = p, Position' = NextPosition(p)
    PROVE  /\ Ahead(p) = 0 /\ \A s \in Slots : Ahead(s) \in Nat /\ (Ahead(s) <= 0 => s = p)
           /\ \A s \in Slots : s # p => Ahead(s)' = Ahead(s) - 1
           /\ Ahead(p)' = QueueSize - 1 /\ \A s \in Slots : Ahead(s)' <= QueueSize - 1
<1>1. QueueSize \in Nat /\ QueueSize > 0 /\ p \in Nat /\ p < QueueSize
  BY SlotsFinite
<1>2. ASSUME NEW s \in Slots
      PROVE  /\ Ahead(s) \in Nat /\ (Ahead(s) <= 0 => s = p) /\ Ahead(s)' <= QueueSize - 1
             /\ s # p => Ahead(s)' = Ahead(s) - 1
  <2>1. s \in Nat /\ s < QueueSize
    BY SlotsFinite
  <2>2. Ahead(s) = IF s >= p THEN s - p ELSE s + QueueSize - p
    BY DEF Ahead
  <2>3. Ahead(s)' = IF s >= NextPosition(p) THEN s - NextPosition(p) ELSE s + QueueSize - NextPosition(p)
    BY DEF Ahead
  <2> QED BY <1>1, <2>1, <2>2, <2>3 DEF NextPosition
<1>3. Ahead(p) = 0 /\ Ahead(p)' = QueueSize - 1
  <2>2. Ahead(p) = IF p >= p THEN p - p ELSE p + QueueSize - p
    BY DEF Ahead
  <2>3. Ahead(p)' = IF p >= NextPosition(p) THEN p - NextPosition(p) ELSE p + QueueSize - NextPosition(p)
    BY DEF Ahead
  <2> QED BY <1>1, <2>2, <2>3 DEF NextPosition
<1> QED BY <1>2, <1>3

(* A free item at the enqueue position is nobody's: the first fragment of its call would be there. *)
LEMMA FreeIsUnused ==
    ASSUME PoolInv, NEW p \in Slots, Position = p, WorkItemQueue[p].State = "Free"
    PROVE  ~InUse(p)
<1> SUFFICES ASSUME NEW w \in Threads, Has(w), worker[w].item = p PROVE FALSE
  BY DEF InUse
<1>1. worker[w].pc \notin HeldPcs /\ ItemSound(w) /\ InUse(p) /\ Item(w) = WorkItemQueue[p]
  BY HasItem DEF ItemSound, Item
<1>2. Item(w).Type = "data"
  BY <1>1 DEF ItemSound, Has, HasPcs, HeldPcs, DataPcs
<1>3. PICK d \in Callers : InCall(p, d) /\ FirstIsOwn(d) /\ caller[d].first \in Slots
  BY <1>2, HasItem
<1>4. Ahead(caller[d].first) <= Ahead(p)
  BY <1>1, <1>3 DEF PoolInv, FirstBlocks
<1>5. caller[d].first = p
  <2>1. QueueSize \in Nat /\ p \in Nat /\ p < QueueSize /\ caller[d].first \in Nat /\ caller[d].first < QueueSize
    BY <1>3, SlotsFinite
  <2> QED BY <1>4, <2>1 DEF Ahead
<1> QED BY <1>3, <1>5 DEF FirstIsOwn

(* An item is enqueued: what the two kinds of calls have in common. *)
LEMMA EnqueueKeeps ==
    ASSUME PoolInv, TypeOK', NEW c \in Callers, caller[c].pc = "poll", NEW p \in Slots, p = caller[c].item,
           WorkItemQueue[p].State = "Free", CallerFrame(c), UNCHANGED <<EnqueuePosition, EnqueueMutex>>,
           caller'[c].pc = "signalReady", caller'[c].first = caller[c].first, caller'[c].job = caller[c].job,
           \A s \in Slots : s # p => WorkItemQueue'[s] = WorkItemQueue[s],
           WorkItemQueue'[p].State = "Ready", WorkItemQueue'[p].owner = c, CountsFrame, EventsFrame,
           WorkItemQueue'[p].Type = caller[c].job.type,
           caller[c].job.type = "data" => /\ WorkItemQueue'[p].FirstFragment = caller[c].first /\ caller'[c].data > 1
                                          /\ caller'[c].left > 0 => caller'[c].per >= 1 /\ (caller'[c].rem >= 1 => caller'[c].per >= 2)
    PROVE  /\ Phases' /\ Owned' /\ ReadyItems' /\ Calls' /\ Events' /\ FirstBlocks'
           /\ ~InUse(p) /\ ~StopPending /\ caller[c].job.type \in {"data", "key"}
           /\ \A d \in Callers : d # c => /\ (Open(d)' <=> Open(d)) /\ caller'[d] = caller[d]
                                          /\ Open(d) => caller[d].first # p
<1>0. /\ TypeOK /\ CallSound(c) /\ EnqueueMutex = c /\ c # None /\ manager = "running" /\ ~StopPending
      /\ caller[c] \in CallerStates /\ caller[c].job.type \in {"data", "key"} /\ EnqueuePosition = NextPosition(p)
  BY PoolAssumption DEF PoolInv, Calls, CallSound, TypeOK, CallerStates, Phases, PhaseFlags
<1>1. /\ UNCHANGED <<worker, StopPending, manager, ThreadPoolRunning, ThreadCount>>
      /\ \A d \in Callers : d # c => caller'[d] = caller[d]
  BY DEF CallerFrame, poolVars
<1>2. Position = p /\ Position' = NextPosition(p)
  BY <1>0 DEF Position
<1>3. ~InUse(p)
  BY <1>2, FreeIsUnused
<1>4. ASSUME NEW d \in Callers, d # c
      PROVE  /\ (Open(d)' <=> Open(d)) /\ (Begun(d)' <=> Begun(d)) /\ CallSound(d)'
             /\ Open(d) \/ caller[d].pc = "freeFirst" => caller[d].first # p /\ caller[d].first \in Slots
  <2>1. ASSUME Open(d) \/ caller[d].pc = "freeFirst" PROVE caller[d].first # p /\ caller[d].first \in Slots
    <3>1. CallSound(d) /\ caller[d] \in CallerStates
      BY <1>0 DEF PoolInv, Calls, TypeOK
    <3>2. Open(d) => Begun(d)
      BY <1>0, <1>4, <3>1 DEF CallSound, Begun, CallerStates
    <3> QED BY <2>1, <3>1, <3>2 DEF CallSound, FirstIsOwn
  <2> QED BY <1>4, <2>1, OthersCalls
<1>5. (Open(c) <=> caller[c].job.type = "data") /\ (Open(c)' <=> Open(c)) /\ (Begun(c) => Begun(c)')
  BY DEF Open, Begun
<1>6. Phases'
  BY <1>0, <1>1 DEF PoolInv, Phases, PhaseFlags, BeforeStart, AfterStop
<1>7. \A d \in Callers, s \in Slots : s # p /\ InCall(s, d) => InCall(s, d)'
  BY <1>1, <1>4, <1>5 DEF InCall, Begun
<1>8. \A v \in Threads : /\ (Has(v)' <=> Has(v)) /\ worker'[v] = worker[v]
                         /\ Has(v) => Item(v)' = Item(v) /\ worker[v].item \in Slots /\ worker[v].item # p
  <2> SUFFICES ASSUME NEW v \in Threads
               PROVE  /\ (Has(v)' <=> Has(v)) /\ worker'[v] = worker[v]
                      /\ Has(v) => Item(v)' = Item(v) /\ worker[v].item \in Slots /\ worker[v].item # p
    OBVIOUS
  <2>1. (Has(v)' <=> Has(v)) /\ worker'[v] = worker[v]
    BY <1>1 DEF Has
  <2>2. Has(v) => worker[v].item # p
    BY <1>3 DEF InUse
  <2> QED BY <2>1, <2>2, HasItem DEF Item
<1>9. Owned'
  <2>1. ItemsKnown' /\ OneWorkerEach'
    BY <1>1, <1>8 DEF PoolInv, Owned, ItemsKnown, OneWorkerEach
  <2>2. ASSUME NEW v \in Threads, Has(v)' PROVE ItemSound(v)'
    <3>1. Has(v) /\ ItemSound(v)
      BY <1>8, <2>2, HasItem
    <3> QED BY <1>7, <1>8, <3>1 DEF ItemSound
  <2> QED BY <2>1, <2>2 DEF Owned
<1>10. ReadyItems'
  <2>1. caller[c].job.type = "data" => InCall(p, c)'
    BY <1>5 DEF InCall, Begun
  <2> SUFFICES ASSUME NEW s \in Slots, WorkItemQueue'[s].State = "Ready"
               PROVE  /\ WorkItemQueue'[s].Type = "data" => \E d \in Callers : InCall(s, d)'
                      /\ WorkItemQueue'[s].Type = "key" => WorkItemQueue'[s].owner \in Callers
    BY DEF ReadyItems
  <2>2. CASE s = p
    BY <2>1, <2>2
  <2>3. CASE s # p
    BY <1>7, <2>3 DEF PoolInv, ReadyItems
  <2> QED BY <2>2, <2>3
<1>11. Calls'
  <2>1. ASSUME Open(c) PROVE FirstIsOwn(c)' /\ caller[c].first \in Slots
    <3>1. CASE Begun(c)
      BY <1>0, <3>1 DEF CallSound, FirstIsOwn, Begun
    <3>2. CASE ~Begun(c)
      <4>1. caller[c].data = 1
        BY <1>0, <2>1, <3>2 DEF CallSound, Begun, CallerStates
      <4>2. caller[c].first = p
        BY <1>0, <2>1, <4>1 DEF CallSound
      <4> QED BY <1>5, <2>1, <4>2 DEF FirstIsOwn
    <3> QED BY <3>1, <3>2
  <2>2. CallSound(c)'
    <3>1. Open(c)' => caller'[c].data > 1 /\ caller'[c].data >= 1 /\ caller'[c].data # 1
      <4>1. caller'[c].data \in Nat
        BY DEF TypeOK, CallerStates
      <4> QED BY <1>5, <4>1
    <3> QED BY <1>0, <1>5, <2>1, <3>1 DEF CallSound, Begun
  <2> QED BY <1>4, <2>2 DEF Calls
<1>12. Events'
  <2>1. \A d \in Callers : Begun(d) => Begun(d)' /\ caller'[d].first = caller[d].first
    BY <1>1, <1>4, <1>5
  <2> QED BY <1>8, <2>1, EventsStay DEF EventsFrame
<1>13. FirstBlocks'
  <2> SUFFICES ASSUME NEW d \in Callers, NEW s \in Slots, InCall(s, d)', InUse(s)'
               PROVE  Ahead(caller[d].first)' <= Ahead(s)'
    BY DEF FirstBlocks
  <2>0. caller'[d].first = caller[d].first /\ caller[d].first \in Slots
    BY <1>1, <1>11 DEF Calls, CallSound, InCall, Begun
  <2>1. CASE s = p
    <3>1. Ahead(s)' = QueueSize - 1 /\ \A t \in Slots : Ahead(t)' <= QueueSize - 1
      BY <1>2, <2>1, AheadMoves
    <3>2. Ahead(caller[d].first)' = (IF caller[d].first >= NextPosition(p) THEN caller[d].first - NextPosition(p)
                                      ELSE caller[d].first + QueueSize - NextPosition(p))
      BY <1>2, <2>0 DEF Ahead
    <3>3. QueueSize \in Nat /\ caller[d].first \in Nat /\ caller[d].first < QueueSize /\ NextPosition(p) \in Nat
          /\ NextPosition(p) < QueueSize
      BY <2>0, SlotsFinite
    <3> QED BY <3>1, <3>2, <3>3
  <2>2. CASE s # p
    <3>1. InUse(s)
      BY <1>8, <2>2 DEF InUse
    <3>2. InCall(s, d)
      <4>1. WorkItemQueue[s] = WorkItemQueue'[s] /\ WorkItemQueue[s].Type = "data" /\ WorkItemQueue[s].owner = d
            /\ WorkItemQueue[s].FirstFragment = caller[d].first
        BY <2>0, <2>2 DEF InCall
      <4>2. \E e \in Callers : InCall(s, e)
        <5>1. CASE WorkItemQueue[s].State = "Ready"
          BY <4>1, <5>1 DEF PoolInv, ReadyItems
        <5>2. CASE WorkItemQueue[s].State # "Ready"
          <6>1. PICK w \in Threads : Has(w) /\ worker[w].item = s
            BY <3>1, <5>2 DEF InUse
          <6> QED BY <4>1, <6>1, HasItem DEF Item
        <5> QED BY <5>1, <5>2
      <4> QED BY <4>1, <4>2 DEF InCall
    <3>3. caller[d].first # p
      BY <3>2 DEF InCall, PoolInv, Calls, CallSound, FirstIsOwn, Begun
    <3>4. Ahead(caller[d].first) <= Ahead(s)
      BY <3>1, <3>2 DEF PoolInv, FirstBlocks
    <3>5. /\ Ahead(s) \in Nat /\ Ahead(s)' = Ahead(s) - 1
          /\ \A t \in Slots : Ahead(t) \in Nat
      BY <1>2, <2>2, AheadMoves
    <3>6. Ahead(caller[d].first)' = Ahead(caller[d].first) - 1
      <4>1. QueueSize \in Nat /\ p \in Nat /\ p < QueueSize /\ caller[d].first \in Nat /\ caller[d].first < QueueSize
        BY <2>0, SlotsFinite
      <4>2. Ahead(caller[d].first)' = (IF caller[d].first >= NextPosition(p) THEN caller[d].first - NextPosition(p)
                                        ELSE caller[d].first + QueueSize - NextPosition(p))
        BY <1>2, <2>0 DEF Ahead
      <4>3. Ahead(caller[d].first) = (IF caller[d].first >= p THEN caller[d].first - p ELSE caller[d].first + QueueSize - p)
        BY <1>2 DEF Ahead
      <4> QED BY <3>3, <4>1, <4>2, <4>3 DEF NextPosition
    <3> QED BY <2>0, <3>4, <3>5, <3>6
  <2> QED BY <2>1, <2>2
<1> QED BY <1>0, <1>1, <1>3, <1>4, <1>6, <1>9, <1>10, <1>11, <1>12, <1>13

LEMMA EnqueueFragmentKeeps == ASSUME PoolInv, NEW c \in Callers, CallerEnqueueFragment(c) PROVE PoolInv'
<1>0. /\ TypeOK /\ CallSound(c) /\ caller[c].pc = "poll" /\ caller[c].job.type = "data" /\ caller[c] \in CallerStates
      /\ caller[c].left > 0 /\ caller[c].first \in Slots /\ caller[c].data >= 1
      /\ caller[c].per >= 1 /\ (caller[c].rem >= 1 => caller[c].per >= 2)
  BY DEF CallerEnqueueFragment, PoolInv, Calls, CallSound, TypeOK, Open
<1>1. /\ caller[c].left \in Nat /\ caller[c].per \in Nat /\ caller[c].rem \in Nat /\ caller[c].data \in Nat
      /\ StartUnitNo \in Nat
  BY <1>0, PoolAssumption DEF CallerStates
<1>2. PICK p \in Slots : p = caller[c].item
  BY <1>0 DEF CallSound
<1>3. /\ WorkItemQueue[p].State = "Free" /\ WorkItemQueue \in [Slots -> WorkItems] /\ caller \in [Callers -> CallerStates]
      /\ UNCHANGED <<poolVars, worker, DequeuePosition, DequeueMutex, buffer, keys, EnqueuePosition, EnqueueMutex, eventVars>>
  BY <1>0, <1>2 DEF CallerEnqueueFragment, lockVars, TypeOK
<1> DEFINE x == [WorkItemQueue[p] EXCEPT !.State = "Ready", !.Type = "data", !.owner = c, !.FirstFragment = caller[c].first,
                    !.Data = caller[c].data, !.StartUnitNo = StartUnitNo + caller[c].data - 1, !.UnitCount = caller[c].per]
           k == [caller[c] EXCEPT !.pc = "signalReady", !.left = caller[c].left - 1, !.data = caller[c].data + caller[c].per,
                    !.per = NextPer(caller[c]), !.rem = NextRem(caller[c])]
<1>4. /\ caller[c].left - 1 \in Nat /\ caller[c].data + caller[c].per \in Nat /\ caller[c].data + caller[c].per > 1
      /\ NextPer(caller[c]) \in Nat /\ NextRem(caller[c]) \in Nat /\ NextPer(caller[c]) >= 1
      /\ (NextRem(caller[c]) >= 1 => NextPer(caller[c]) >= 2) /\ StartUnitNo + caller[c].data - 1 \in Nat
  BY <1>0, <1>1 DEF NextPer, NextRem
<1>5. x \in WorkItems
  BY <1>0, <1>1, <1>3, <1>4 DEF WorkItems
<1>6. k \in CallerStates
  BY <1>0, <1>4 DEF CallerStates, CallerPcs
<1>7. /\ x.State = "Ready" /\ x.Type = "data" /\ x.owner = c /\ x.FirstFragment = caller[c].first
      /\ x.OutstandingFragmentCount = WorkItemQueue[p].OutstandingFragmentCount
      /\ x.ItemCompletedEvent = WorkItemQueue[p].ItemCompletedEvent
      /\ k.pc = "signalReady" /\ k.first = caller[c].first /\ k.job = caller[c].job /\ k.left = caller[c].left - 1
      /\ k.data = caller[c].data + caller[c].per /\ k.per = NextPer(caller[c]) /\ k.rem = NextRem(caller[c])
  BY <1>0, <1>3 DEF WorkItems, CallerStates
<1>8. WorkItemQueue' = [WorkItemQueue EXCEPT ![p] = x] /\ caller' = [caller EXCEPT ![c] = k]
  BY <1>0, <1>2, <1>3 DEF CallerEnqueueFragment
<1> HIDE DEF x, k
<1>9. /\ WorkItemQueue' \in [Slots -> WorkItems] /\ WorkItemQueue'[p] = x
      /\ \A s \in Slots : s # p => WorkItemQueue'[s] = WorkItemQueue[s]
      /\ caller' \in [Callers -> CallerStates] /\ caller'[c] = k /\ \A d \in Callers : d # c => caller'[d] = caller[d]
  BY <1>3, <1>5, <1>6, <1>8
<1>10. CallerFrame(c) /\ CountsFrame /\ EventsFrame
  BY <1>3, <1>7, <1>9 DEF CallerFrame, CountsFrame, EventsFrame
<1>11. TypeOK'
  BY <1>0, <1>3, <1>9, <1>10, CallerTypes, StaysTyped DEF TypeOK
<1>12. /\ Phases' /\ Owned' /\ ReadyItems' /\ Calls' /\ Events' /\ FirstBlocks'
       /\ ~InUse(p) /\ ~StopPending
       /\ \A d \in Callers : d # c => /\ (Open(d)' <=> Open(d)) /\ caller'[d] = caller[d]
                                      /\ Open(d) => caller[d].first # p
  BY <1>0, <1>2, <1>3, <1>4, <1>7, <1>9, <1>10, <1>11, EnqueueKeeps
<1>13. UNCHANGED worker /\ UNCHANGED StopPending
  BY <1>3 DEF poolVars
<1>14. \A w \in Threads : worker[w].item = p => worker[w].pc \notin CountPcs \cup KeyCountPcs
  BY <1>12 DEF InUse, Has, HasPcs, DataPcs, KeyPcs, CountPcs, KeyCountPcs
<1>15. FragmentCountExact'
  <2>1. PICK f \in Slots : f = caller[c].first
    BY <1>0
  <2>2. Uncounted(f)' = Uncounted(f) \cup {p} /\ p \notin Uncounted(f)
    <3>1. p \notin Uncounted(f)
      BY <1>3, <1>14 DEF Uncounted, CountPcs
    <3>2. p \in Uncounted(f)'
      BY <1>7, <1>9, <2>1 DEF Uncounted
    <3>3. \A s \in Slots : s # p => (s \in Uncounted(f)' <=> s \in Uncounted(f))
      BY <1>9, <1>13 DEF Uncounted
    <3>4. Uncounted(f)' \subseteq Slots /\ Uncounted(f) \subseteq Slots
      BY DEF Uncounted
    <3> QED BY <3>1, <3>2, <3>3, <3>4
  <2>3. Cardinality(Uncounted(f)') = Cardinality(Uncounted(f)) + 1 /\ Cardinality(Uncounted(f)) \in Nat
    BY <2>2, OneMore, CountedItems
  <2>4. ASSUME NEW d \in Callers, Open(d)'
        PROVE  WorkItemQueue'[caller'[d].first].OutstandingFragmentCount
                  = caller'[d].left + Cardinality(Uncounted(caller[d].first)')
    <3>0. caller'[d].first = caller[d].first /\ Open(d) /\ caller[d].first \in Slots
      BY <1>0, <1>7, <1>9, <1>12, <2>4 DEF Open, PoolInv, Calls, CallSound
    <3>1. WorkItemQueue[caller[d].first].OutstandingFragmentCount
             = caller[d].left + Cardinality(Uncounted(caller[d].first)) /\ caller[d].left \in Nat
      BY <1>0, <3>0 DEF PoolInv, FragmentCountExact, Open, TypeOK, CallerStates
    <3>2. CASE d = c
      <4>1. Uncounted(caller[d].first)' = Uncounted(f)'
        BY <2>1, <3>0, <3>2 DEF Uncounted
      <4>2. caller[d].first = f /\ caller'[d].left = caller[d].left - 1
        BY <1>7, <1>9, <2>1, <3>2
      <4> QED BY <1>10, <2>3, <3>0, <3>1, <4>1, <4>2 DEF CountsFrame
    <3>3. CASE d # c
      <4>1. caller[d].first # f
        <5>1. CASE Begun(c)
          BY <2>1, <3>0, <3>3, <5>1, FirstsDiffer
        <5>2. CASE ~Begun(c)
          <6>1. caller[c].data = 1 /\ Open(c)
            BY <1>0, <1>1, <5>2 DEF Begun, Open
          <6>2. f = p
            BY <1>0, <1>2, <2>1, <6>1 DEF CallSound
          <6> QED BY <1>12, <3>0, <3>3, <6>2
        <5> QED BY <5>1, <5>2
      <4>2. p \notin Uncounted(caller[d].first) /\ p \notin Uncounted(caller[d].first)'
        BY <1>3, <1>7, <1>9, <1>14, <2>1, <3>0, <4>1 DEF Uncounted, CountPcs
      <4>3. \A s \in Slots : s # p => (s \in Uncounted(caller[d].first)' <=> s \in Uncounted(caller[d].first))
        BY <1>9, <1>13, <3>0 DEF Uncounted
      <4>4. Uncounted(caller[d].first)' \subseteq Slots /\ Uncounted(caller[d].first) \subseteq Slots
        BY DEF Uncounted
      <4>5. Uncounted(caller[d].first)' = Uncounted(caller[d].first)
        BY <4>2, <4>3, <4>4
      <4> QED BY <1>10, <1>12, <3>0, <3>1, <3>3, <4>5 DEF CountsFrame
    <3> QED BY <3>2, <3>3
  <2> QED BY <2>4 DEF FragmentCountExact, Open
<1>16. KeyCountExact'
  <2>1. ASSUME NEW d \in Callers PROVE KeyItems(d)' = KeyItems(d)
    <3>1. p \notin KeyItems(d) /\ p \notin KeyItems(d)'
      BY <1>3, <1>7, <1>9, <1>14 DEF KeyItems, KeyCountPcs
    <3>2. \A s \in Slots : s # p => (s \in KeyItems(d)' <=> s \in KeyItems(d))
      BY <1>9, <1>13 DEF KeyItems
    <3>3. KeyItems(d)' \subseteq Slots /\ KeyItems(d) \subseteq Slots
      BY DEF KeyItems
    <3> QED BY <3>1, <3>2, <3>3
  <2> QED BY <1>3, <1>13, <2>1 DEF PoolInv, KeyCountExact
<1> QED BY <1>11, <1>12, <1>15, <1>16 DEF PoolInv

LEMMA EnqueueKeyKeeps == ASSUME PoolInv, NEW c \in Callers, CallerEnqueueKey(c) PROVE PoolInv'
<1>0. /\ TypeOK /\ CallSound(c) /\ caller[c].pc = "poll" /\ caller[c].job.type = "key" /\ caller[c] \in CallerStates
  BY DEF CallerEnqueueKey, PoolInv, Calls, TypeOK
<1>2. PICK p \in Slots : p = caller[c].item
  BY <1>0 DEF CallSound
<1>3. /\ WorkItemQueue[p].State = "Free" /\ WorkItemQueue \in [Slots -> WorkItems] /\ caller \in [Callers -> CallerStates]
      /\ keys \in [Callers -> [outstanding : Nat, none : BOOLEAN, derived : Nat]]
      /\ UNCHANGED <<poolVars, worker, DequeuePosition, DequeueMutex, buffer, EnqueuePosition, EnqueueMutex, eventVars>>
  BY <1>0, <1>2 DEF CallerEnqueueKey, lockVars, TypeOK
<1> DEFINE x == [WorkItemQueue[p] EXCEPT !.State = "Ready", !.Type = "key", !.owner = c]
           k == [caller[c] EXCEPT !.pc = "signalReady", !.left = 0]
           y == [keys[c] EXCEPT !.outstanding = @ + 1, !.none = FALSE]
<1>5. x \in WorkItems
  BY <1>3, ZenonT(60) DEF WorkItems
<1>6. k \in CallerStates
  BY <1>0 DEF CallerStates, CallerPcs
<1>4. y \in [outstanding : Nat, none : BOOLEAN, derived : Nat] /\ y.outstanding = keys[c].outstanding + 1
  <2>1. keys[c].outstanding + 1 \in Nat
    BY <1>3
  <2> QED BY <1>3, <2>1
<1>7. /\ x.State = "Ready" /\ x.Type = "key" /\ x.owner = c
      /\ x.OutstandingFragmentCount = WorkItemQueue[p].OutstandingFragmentCount
      /\ x.ItemCompletedEvent = WorkItemQueue[p].ItemCompletedEvent
      /\ k.pc = "signalReady" /\ k.first = caller[c].first /\ k.job = caller[c].job
  BY <1>0, <1>3 DEF WorkItems, CallerStates
<1>8. WorkItemQueue' = [WorkItemQueue EXCEPT ![p] = x] /\ caller' = [caller EXCEPT ![c] = k] /\ keys' = [keys EXCEPT ![c] = y]
  <2>1. WorkItemQueue' = [WorkItemQueue EXCEPT ![p] = x]
    BY <1>2 DEF CallerEnqueueKey
  <2>2. caller' = [caller EXCEPT ![c] = k]
    BY <1>3 DEF CallerEnqueueKey
  <2>3. keys' = [keys EXCEPT ![c] = y]
    BY <1>3 DEF CallerEnqueueKey
  <2> QED BY <2>1, <2>2, <2>3
<1> HIDE DEF x, k, y
<1>9. /\ WorkItemQueue' \in [Slots -> WorkItems] /\ WorkItemQueue'[p] = x
      /\ \A s \in Slots : s # p => WorkItemQueue'[s] = WorkItemQueue[s]
      /\ caller' \in [Callers -> CallerStates] /\ caller'[c] = k /\ \A d \in Callers : d # c => caller'[d] = caller[d]
      /\ keys' \in [Callers -> [outstanding : Nat, none : BOOLEAN, derived : Nat]]
      /\ keys'[c] = y /\ \A d \in Callers : d # c => keys'[d] = keys[d]
  BY <1>3, <1>4, <1>5, <1>6, <1>8
<1>10. CallerFrame(c) /\ CountsFrame /\ EventsFrame
  BY <1>3, <1>7, <1>9 DEF CallerFrame, CountsFrame, EventsFrame
<1>11. TypeOK'
  BY <1>0, <1>3, <1>9, <1>10, CallerTypes, StaysTyped DEF TypeOK
<1>12. /\ Phases' /\ Owned' /\ ReadyItems' /\ Calls' /\ Events' /\ FirstBlocks'
       /\ ~InUse(p) /\ ~StopPending
       /\ \A d \in Callers : d # c => /\ (Open(d)' <=> Open(d)) /\ caller'[d] = caller[d]
                                      /\ Open(d) => caller[d].first # p
  BY <1>0, <1>2, <1>3, <1>7, <1>9, <1>10, <1>11, EnqueueKeeps
<1>13. UNCHANGED worker /\ UNCHANGED StopPending
  BY <1>3 DEF poolVars
<1>14. \A w \in Threads : worker[w].item = p => worker[w].pc \notin CountPcs \cup KeyCountPcs
  BY <1>12 DEF InUse, Has, HasPcs, DataPcs, KeyPcs, CountPcs, KeyCountPcs
<1>15. FragmentCountExact'
  <2>4. ASSUME NEW d \in Callers, Open(d)'
        PROVE  WorkItemQueue'[caller'[d].first].OutstandingFragmentCount
                  = caller'[d].left + Cardinality(Uncounted(caller[d].first)')
    <3>0. d # c /\ caller'[d] = caller[d] /\ Open(d) /\ caller[d].first \in Slots
      BY <1>0, <1>7, <1>9, <1>12, <2>4 DEF Open, PoolInv, Calls, CallSound
    <3>1. WorkItemQueue[caller[d].first].OutstandingFragmentCount
             = caller[d].left + Cardinality(Uncounted(caller[d].first))
      BY <3>0 DEF PoolInv, FragmentCountExact, Open
    <3>2. p \notin Uncounted(caller[d].first) /\ p \notin Uncounted(caller[d].first)'
      BY <1>3, <1>7, <1>9, <1>14, <3>0 DEF Uncounted, CountPcs
    <3>3. \A s \in Slots : s # p => (s \in Uncounted(caller[d].first)' <=> s \in Uncounted(caller[d].first))
      BY <1>9, <1>13, <3>0 DEF Uncounted
    <3>4. Uncounted(caller[d].first)' \subseteq Slots /\ Uncounted(caller[d].first) \subseteq Slots
      BY DEF Uncounted
    <3>5. Uncounted(caller[d].first)' = Uncounted(caller[d].first)
      BY <3>2, <3>3, <3>4
    <3> QED BY <1>10, <3>0, <3>1, <3>5 DEF CountsFrame
  <2> QED BY <2>4 DEF FragmentCountExact, Open
<1>16. KeyCountExact'
  <2>1. \A d \in Callers : keys[d].outstanding = Cardinality(KeyItems(d)) /\ Cardinality(KeyItems(d)) \in Nat
    BY <1>12, CountedItems DEF PoolInv, KeyCountExact
  <2>2. \A d \in Callers, s \in Slots : s # p => (s \in KeyItems(d)' <=> s \in KeyItems(d))
    BY <1>9, <1>13 DEF KeyItems
  <2>3. \A d \in Callers : KeyItems(d)' \subseteq Slots /\ KeyItems(d) \subseteq Slots /\ p \notin KeyItems(d)
    BY <1>3, <1>14 DEF KeyItems, KeyCountPcs
  <2>4. \A d \in Callers : p \in KeyItems(d)' <=> d = c
    BY <1>7, <1>9, <1>13, <1>14 DEF KeyItems, KeyCountPcs
  <2>5. KeyItems(c)' = KeyItems(c) \cup {p}
    BY <2>2, <2>3, <2>4
  <2>6. Cardinality(KeyItems(c)') = Cardinality(KeyItems(c)) + 1
    BY <2>3, <2>5, OneMore, CountedItems
  <2>7. \A d \in Callers : d # c => KeyItems(d)' = KeyItems(d)
    BY <2>2, <2>3, <2>4
  <2>8. ASSUME NEW d \in Callers PROVE keys'[d].outstanding = Cardinality(KeyItems(d)')
    <3>1. CASE d = c
      BY <1>4, <1>9, <2>1, <2>6, <3>1
    <3>2. CASE d # c
      BY <1>9, <2>1, <2>7, <3>2
    <3> QED BY <3>1, <3>2
  <2> QED BY <2>8 DEF KeyCountExact
<1> QED BY <1>11, <1>12, <1>15, <1>16 DEF PoolInv

LEMMA CallerStepKeeps == ASSUME PoolInv, NEW c \in Callers, CallerStep(c) \/ Call(c) PROVE PoolInv'
<1>1. CASE CallerStep(c)
  BY <1>1, CallerAcquireKeeps, PollFirstKeeps, NextItemKeeps, WaitCompletedKeeps, PollBusyKeeps, EnqueueFragmentKeeps,
     EnqueueKeyKeeps, SignalReadyKeeps, ReleaseKeeps, WaitDoneKeeps, FreeFirstKeeps, ReturnsKeeps DEF CallerStep
<1>2. CASE Call(c)
  BY <1>2, InlineKeeps, DoWorkKeeps, BeginKeyKeeps DEF Call
<1> QED BY <1>1, <1>2

-----------------------------------------------------------------------------
(* The steps of the thread that starts and stops the pool. *)
LEMMA ManagerKeeps ==
    ASSUME PoolInv, TypeOK', Phases', StopPending => StopPending',
           UNCHANGED <<WorkItemQueue, caller, keys, EnqueuePosition, EnqueueMutex>>,
           \A v \in Threads : worker'[v] = worker[v] \/ (worker[v].pc = "none" /\ worker'[v].pc = "loop")
    PROVE  PoolInv'
<1>1. ItemsFrame /\ CallsFrame
  BY DEF ItemsFrame, CallsFrame
<1>2. \A v \in Threads : worker'[v].pc \in HasPcs \/ worker[v].pc \in HasPcs => worker'[v] = worker[v]
  BY DEF HasPcs, DataPcs, KeyPcs
<1>3. \A v \in Threads : Has(v)' => Has(v) /\ worker'[v] = worker[v]
  BY <1>2 DEF Has
<1>4. Owned'
  <2>1. ItemsKnown'
    BY DEF PoolInv, Owned, ItemsKnown
  <2>2. OneWorkerEach'
    BY <1>3 DEF PoolInv, Owned, OneWorkerEach
  <2>3. ASSUME NEW v \in Threads, Has(v)' PROVE ItemSound(v)'
    <3>1. worker'[v] = worker[v] /\ Item(v)' = Item(v) /\ ItemSound(v) /\ worker[v].item \in Slots
      BY <1>3, <2>3, HasItem DEF Item
    <3> QED BY <1>1, <3>1, FrameKeeps DEF ItemSound
  <2> QED BY <2>1, <2>2, <2>3 DEF Owned
<1>5. ReadyItems'
  BY <1>1, FrameKeeps DEF PoolInv, ReadyItems
<1>6. Calls'
  BY <1>1, FrameKeeps DEF PoolInv, Calls, CallSound, FirstIsOwn
<1>7. Events'
  <2>1. \A v \in Threads : worker'[v].pc = "signal" => worker[v].pc = "signal" /\ Item(v)' = Item(v)
    BY DEF Item
  <2> QED BY <1>1, <2>1, FrameKeeps DEF PoolInv, Events
<1>8. FirstBlocks'
  <2>1. \A s \in Slots : InUse(s)' => InUse(s)
    BY <1>3 DEF InUse
  <2> QED BY <1>1, <2>1, FirstBlocksFrame
<1>9. FragmentCountExact'
  <2>1. \A c \in Callers : Uncounted(caller[c].first)' = Uncounted(caller[c].first)
    BY <1>2 DEF Uncounted, HasPcs, DataPcs
  <2> QED BY <2>1 DEF PoolInv, FragmentCountExact
<1>10. KeyCountExact'
  <2>1. \A c : KeyItems(c)' = KeyItems(c)
    BY <1>2 DEF KeyItems, HasPcs, KeyPcs
  <2> QED BY <2>1 DEF PoolInv, KeyCountExact
<1> QED BY <1>4, <1>5, <1>6, <1>7, <1>8, <1>9, <1>10 DEF PoolInv

(* An empty queue that nobody works on. *)
EmptyPool ==
    /\ TypeOK /\ Phases /\ manager \in {"unstarted", "creating"} /\ WorkItemQueue = [s \in Slots |-> FreeItem]
    /\ \A w \in Threads : worker[w].pc = "none"
    /\ \A c \in Callers : keys[c].outstanding = 0

LEMMA EmptyIsSound == EmptyPool => PoolInv
<1> SUFFICES ASSUME EmptyPool PROVE PoolInv
  OBVIOUS
<1> USE DEF EmptyPool
<1>1. \A c \in Callers : caller[c].pc = "idle" /\ ~Open(c) /\ ~Begun(c)
  BY DEF Phases, Open, Begun
<1>2. \A s \in Slots : WorkItemQueue[s].State = "Free" /\ WorkItemQueue[s].ItemCompletedEvent = FALSE
  BY DEF FreeItem
<1>3. \A w \in Threads : ~Has(w)
  BY DEF Has, HasPcs, DataPcs, KeyPcs
<1>4. Owned /\ ReadyItems /\ Calls /\ Events
  BY <1>1, <1>2, <1>3 DEF Owned, ItemsKnown, OneWorkerEach, ReadyItems, Calls, CallSound, Events
<1>5. FirstBlocks /\ FragmentCountExact
  BY <1>1 DEF FirstBlocks, InCall, FragmentCountExact
<1>6. KeyCountExact
  <2>1. \A c : KeyItems(c) = {}
    BY <1>2 DEF KeyItems
  <2> QED BY <2>1, FS_EmptySet DEF KeyCountExact
<1> QED BY <1>4, <1>5, <1>6 DEF PoolInv

LEMMA EmptyIsSoundNext == EmptyPool' => PoolInv'
BY EmptyIsSound, PTL

LEMMA FreeItemTyped == FreeItem \in WorkItems
BY SlotsFinite DEF FreeItem, WorkItems

LEMMA InitKeeps == ASSUME Init PROVE PoolInv
<1>1. TypeOK
  <2>1. WorkItemQueue \in [Slots -> WorkItems]
    BY FreeItemTyped DEF Init
  <2>2. worker \in [Threads -> WorkerStates]
    BY DEF Init, WorkerStates, WorkerPcs
  <2>3. caller \in [Callers -> CallerStates]
    BY DEF Init, CallerStates, CallerPcs, IdleCaller
  <2>4. DOMAIN buffer = Callers /\ \A c \in Callers : \A i \in DOMAIN buffer[c] : buffer[c][i] \in Seq(Nat)
    BY DEF Init
  <2>5. keys \in [Callers -> [outstanding : Nat, none : BOOLEAN, derived : Nat]]
    BY DEF Init
  <2>6. 0 \in Slots
    BY SlotsFinite
  <2> QED BY <2>1, <2>2, <2>3, <2>4, <2>5, <2>6 DEF Init, TypeOK
<1>2. Phases
  BY DEF Init, Phases, PhaseFlags, BeforeStart, AfterStop, IdleCaller
<1> QED BY <1>1, <1>2, EmptyIsSound DEF Init, EmptyPool

ManagerMoves == StartWithoutThreads \/ StartThreadFails \/ StartReturns \/ StopSignals \/ StopReturns

LEMMA ManagerStepKeeps == ASSUME PoolInv, Manager PROVE PoolInv'
<1>0. TypeOK /\ Phases
  BY DEF PoolInv
<1>1. CASE StartPool
  <2>1. WorkItemQueue' \in [Slots -> WorkItems] /\ 0 \in Slots
    BY <1>1, FreeItemTyped, SlotsFinite DEF StartPool
  <2>2. TypeOK'
    BY <1>0, <1>1, <2>1 DEF StartPool, TypeOK
  <2>3. Phases'
    BY <1>0, <1>1 DEF StartPool, Phases, PhaseFlags, BeforeStart, AfterStop
  <2>4. /\ \A w \in Threads : worker'[w].pc = "none"
        /\ \A c \in Callers : keys'[c].outstanding = 0
    BY <1>0, <1>1 DEF StartPool, Phases, BeforeStart
  <2>5. manager' \in {"unstarted", "creating"} /\ WorkItemQueue' = [s \in Slots |-> FreeItem]
    BY <1>1 DEF StartPool
  <2> QED BY <2>2, <2>3, <2>4, <2>5, EmptyIsSoundNext DEF EmptyPool
<1>2. ASSUME ManagerMoves PROVE PoolInv'
  <2>1. TypeOK'
    <3>1. ThreadPoolRunning' \in {ThreadPoolRunning, TRUE, FALSE} /\ WorkItemReadyEvent' \in {WorkItemReadyEvent, TRUE}
          /\ ThreadCount' \in {ThreadCount, 0}
      BY <1>2, Zenon DEF ManagerMoves, StartWithoutThreads, StartThreadFails, StartReturns, StopSignals, StopReturns, eventVars
    <3>3. ThreadPoolRunning' \in BOOLEAN /\ WorkItemReadyEvent' \in BOOLEAN
      BY <1>0, <3>1, Zenon DEF TypeOK
    <3>4. ThreadCount' \in Nat
      BY <1>0, <3>1 DEF TypeOK
    <3>2. /\ UNCHANGED <<StopPending, WorkItemCompletedEvent, lockVars, WorkItemQueue, worker, caller, buffer, keys>>
          /\ manager' \in {"failed", "single", "running", "joining", "stopped"}
      BY <1>2 DEF ManagerMoves, StartWithoutThreads, StartThreadFails, StartReturns, StopSignals, StopReturns, eventVars
    <3> QED BY <1>0, <3>2, <3>3, <3>4 DEF TypeOK, lockVars
  <2>2. Phases'
    BY <1>0, <1>2 DEF ManagerMoves, StartWithoutThreads, StartThreadFails, StartReturns, StopSignals, StopReturns, Phases,
                      PhaseFlags, BeforeStart, AfterStop
  <2> QED BY <1>2, <2>1, <2>2, ManagerKeeps
          DEF ManagerMoves, StartWithoutThreads, StartThreadFails, StartReturns, StopSignals, StopReturns, lockVars
<1>3. ASSUME NEW w \in Threads, StartThread(w) PROVE PoolInv'
  <2>1. /\ worker' \in [Threads -> WorkerStates] /\ worker'[w].pc = "loop" /\ worker[w].pc = "none"
        /\ \A v \in Threads : v # w => worker'[v] = worker[v]
    BY <1>0, <1>3, WorkerAt DEF StartThread, GoTo, WorkerPcs
  <2>2. TypeOK'
    BY <1>0, <1>3, <2>1 DEF StartThread, TypeOK, eventVars, lockVars
  <2>3. Phases'
    BY <1>0, <1>3, <2>1 DEF StartThread, Phases, PhaseFlags, BeforeStart, AfterStop
  <2> QED BY <1>3, <2>1, <2>2, <2>3, ManagerKeeps DEF StartThread, lockVars
<1>4. CASE StopPool
  <2>1. TypeOK'
    BY <1>0, <1>4 DEF StopPool, TypeOK, eventVars, lockVars
  <2>2. AfterStop'
    <3> SUFFICES ASSUME StopPending', NEW w \in Threads
                 PROVE  worker[w].pc \notin {"work", "keyDecrement"} \cup DataPcs
      BY <1>4 DEF StopPool, AfterStop
    <3>1. CASE StopPending
      BY <1>0, <3>1 DEF Phases, AfterStop
    <3>2. CASE ~StopPending
      <4> SUFFICES ASSUME worker[w].pc \in {"work", "keyDecrement"} \cup DataPcs PROVE FALSE
        OBVIOUS
      <4>1. Has(w)
        BY <3>2 DEF Has, HasPcs, KeyPcs
      <4>2. Item(w).Type # "data"
        BY <1>4, <4>1, HasItem DEF StopPool, InCall, Begun, Open
      <4>3. Item(w).Type = "key" /\ worker[w].pc \in KeyCountPcs
        BY <4>1, <4>2, HasItem DEF ItemSound, DataPcs, KeyCountPcs
      <4>4. Item(w).owner \in Callers /\ keys[Item(w).owner].outstanding >= 1
        BY <3>2, <4>1, <4>3, KeyCounterPositive
      <4> QED BY <1>4, <4>4 DEF StopPool
    <3> QED BY <3>1, <3>2
  <2>3. Phases'
    BY <1>0, <1>4, <2>2 DEF StopPool, Phases, PhaseFlags, BeforeStart
  <2> QED BY <1>4, <2>1, <2>3, ManagerKeeps DEF StopPool, lockVars
<1> QED BY <1>1, <1>2, <1>3, <1>4 DEF Manager, ManagerMoves

LEMMA PoolStep == PoolInv /\ [Next]_vars => PoolInv'
<1> SUFFICES ASSUME PoolInv, [Next]_vars PROVE PoolInv'
  OBVIOUS
<1>1. CASE Next
  BY <1>1, ManagerStepKeeps, WorkerStepKeeps, CallerStepKeeps DEF Next
<1>2. CASE UNCHANGED vars
  <2>1. TypeOK'
    BY <1>2 DEF PoolInv, TypeOK, vars, poolVars, eventVars, lockVars
  <2>2. Phases'
    BY <1>2 DEF PoolInv, Phases, PhaseFlags, BeforeStart, AfterStop, vars, poolVars
  <2> QED BY <1>2, <2>1, <2>2, ManagerKeeps DEF vars, poolVars, lockVars
<1> QED BY <1>1, <1>2

(* The pool's items and calls are sound in every reachable state, for any number of threads,
   callers and calls: EncryptionThreadProc, EncryptionThreadPoolDoWork and
   EncryptionThreadPoolBeginKeyDerivation. *)
THEOREM PoolInvariant == Spec => []PoolInv
<1>1. Init => PoolInv
  BY InitKeeps
<1>2. PoolInv /\ [Next]_vars => PoolInv'
  BY PoolStep
<1> QED BY <1>1, <1>2, PTL DEF Spec

(* No item is worked on by two threads, a worker that has freed its item still reads the first
   fragment of its own, unfinished call, and both counters are exact. *)
THEOREM ItemsAreSound == Spec => []ItemsSound
<1>1. PoolInv => ItemsSound
  <2> SUFFICES ASSUME PoolInv PROVE ItemsSound
    OBVIOUS
  <2>1. FirstFragmentStable
    <3> SUFFICES ASSUME NEW w \in Threads, worker[w].pc \in DataPcs PROVE CallOpen(worker[w].item)
      BY DEF FirstFragmentStable, DataPcs
    <3>1. Has(w)
      BY DEF Has, HasPcs, DataPcs
    <3>2. Item(w).Type = "data"
      BY <3>1, HasItem DEF ItemSound
    <3>3. PICK c \in Callers : InCall(worker[w].item, c)
      BY <3>1, <3>2, HasItem
    <3> QED BY <3>3 DEF InCall, Begun, Open, CallOpen
  <2>2. ItemsExclusive
    <3>1. \A w \in Threads : worker[w].pc \in {"work", "free", "keyDecrement", "keySignal", "keyFree"} =>
             Has(w) /\ worker[w].pc \in HeldPcs
      BY DEF Has, HasPcs, HeldPcs, KeyPcs, DataPcs
    <3> QED BY <3>1, HasItem DEF ItemsExclusive, ItemSound, Item, PoolInv, Owned, OneWorkerEach
  <2> QED BY <2>1, <2>2 DEF ItemsSound, PoolInv
<1> QED BY <1>1, PoolInvariant, PTL

-----------------------------------------------------------------------------
(* The units of the data. *)
LEMMA UnitsKept ==
    ASSUME NEW c \in Callers, CallUnits(c),
           \A s \in Slots : /\ Left(s, c)' <=> Left(s, c)
                            /\ Left(s, c) => /\ WorkItemQueue'[s].Data = WorkItemQueue[s].Data
                                             /\ WorkItemQueue'[s].UnitCount = WorkItemQueue[s].UnitCount
                                             /\ WorkItemQueue'[s].StartUnitNo = WorkItemQueue[s].StartUnitNo,
           Working(c)' => /\ Working(c) /\ caller'[c].data = caller[c].data /\ caller'[c].rem = caller[c].rem
                          /\ caller'[c].left = caller[c].left /\ caller'[c].per = caller[c].per
                          /\ caller'[c].job = caller[c].job /\ buffer'[c] = buffer[c]
    PROVE  CallUnits(c)'
<1>1. \A s \in Slots : Left(s, c) => UnitsOf(s)' = UnitsOf(s)
  BY DEF UnitsOf
<1>2. \A s \in Slots : Left(s, c)' => Working(c)'
  BY DEF Left, InCall, Begun, Working
<1>3. \A i : InTodo(i, c)' <=> InTodo(i, c)
  BY <1>1 DEF InTodo
<1>4. CallFragments(c)'
  BY <1>1, <1>2 DEF CallUnits, CallFragments
<1>5. CallBuffer(c)'
  <2> SUFFICES ASSUME Working(c)' PROVE CallBuffer(c)'
    BY DEF CallBuffer
  <2>1. Rest(caller[c])' = Rest(caller[c])
    BY DEF Rest
  <2> QED BY <1>3, <2>1 DEF CallUnits, CallBuffer
<1> QED BY <1>4, <1>5 DEF CallUnits

(* A worker that transforms nothing. *)
LEMMA WorkerUnits ==
    ASSUME PoolInv, CallsFrame, ItemsFrame, UnitsFrame, UNCHANGED buffer,
           \A s \in Slots, c \in Callers : InCall(s, c) => (Waiting(s)' <=> Waiting(s)),
           DataInv
    PROVE  DataInv'
<1>1. ASSUME NEW c \in Callers PROVE CallUnits(c)'
  <2>1. \A s \in Slots : Left(s, c)' <=> Left(s, c)
    BY FrameKeeps DEF Left
  <2>2. Working(c)' <=> Working(c)
    BY FrameKeeps DEF Working, CallsFrame
  <2>3. caller'[c] = caller[c] /\ buffer'[c] = buffer[c] /\ CallUnits(c)
    BY DEF CallsFrame, DataInv
  <2> QED BY <2>1, <2>2, <2>3, UnitsKept DEF UnitsFrame
<1>2. ReturnedDataTransformed'
  BY DEF DataInv, ReturnedDataTransformed, CallsFrame
<1> QED BY <1>1, <1>2 DEF DataInv

(* Once a stop is pending there is no call. *)
LEMMA NoCallAtStop ==
    ASSUME PoolInv, StopPending
    PROVE  \A s \in Slots, c \in Callers : ~InCall(s, c)
BY DEF PoolInv, Phases, PhaseFlags, InCall, Begun, Open

LEMMA PlainWorkerUnits ==
    ASSUME PoolInv, DataInv, NEW w \in Threads,
           \/ WorkerLoop(w) \/ WorkerAcquire(w) \/ WorkerWaitReady(w) \/ WorkerTaken(w) \/ WorkerDerivesKey(w)
           \/ WorkerKeyDecrement(w) \/ WorkerKeySignal(w) \/ WorkerSignalCompleted(w)
    PROVE  DataInv'
<1>1. CallsFrame /\ UNCHANGED <<WorkItemQueue, buffer>>
  BY Zenon DEF WorkerLoop, WorkerAcquire, WorkerWaitReady, WorkerTaken, WorkerDerivesKey, WorkerKeyDecrement, WorkerKeySignal,
         WorkerSignalCompleted, CallsFrame, lockVars
<1>2. ItemsFrame /\ UnitsFrame
  BY <1>1 DEF ItemsFrame, UnitsFrame
<1>3. TypeOK /\ worker \in [Threads -> WorkerStates]
  BY SMTT(60) DEF PoolInv, TypeOK
<1>4. /\ \A v \in Threads : v # w => worker'[v] = worker[v]
      /\ worker'[w].item = worker[w].item \/ worker[w].pc = "acquire"
      /\ (worker'[w].pc \in {"taken", "work"} => worker[w].pc = "taken")
      /\ (worker[w].pc = "taken" /\ worker'[w].pc # "work" => StopPending)
      /\ worker'[w].pc \in {"poll"} \/ worker'[w].item = worker[w].item
      /\ (worker[w].pc = "work" => WorkItemQueue[worker[w].item].Type = "key")
  BY <1>3 DEF WorkerLoop, WorkerAcquire, WorkerWaitReady, WorkerTaken, WorkerDerivesKey, WorkerKeyDecrement, WorkerKeySignal,
         WorkerSignalCompleted, GoTo, WorkerStates
<1>5. \A s \in Slots, c \in Callers : InCall(s, c) => (Waiting(s)' <=> Waiting(s))
  BY <1>1, <1>4, NoCallAtStop DEF Waiting, InCall
<1> QED BY <1>1, <1>2, <1>5, WorkerUnits, SMTT(60)

LEMMA QueueWorkerUnits ==
    ASSUME PoolInv, DataInv, NEW w \in Threads,
           WorkerPoll(w) \/ WorkerFree(w) \/ WorkerDecrement(w) \/ WorkerSignalItem(w)
    PROVE  DataInv'
<1>0. TypeOK /\ worker \in [Threads -> WorkerStates] /\ CallsFrame /\ UNCHANGED buffer
  BY DEF PoolInv, TypeOK, WorkerPoll, WorkerFree, WorkerDecrement, WorkerSignalItem, lockVars, CallsFrame
<1>1. CASE WorkerPoll(w)
  <2>1. worker[w].item \in Slots /\ worker[w].pc = "poll"
    BY <1>1 DEF WorkerPoll, PoolInv, Owned, ItemsKnown
  <2>2. CASE ~StopPending /\ WorkItemQueue[worker[w].item].State # "Ready"
    <3>1. /\ UNCHANGED WorkItemQueue /\ worker'[w].pc = "waitReady"
          /\ \A v \in Threads : v # w => worker'[v] = worker[v]
      BY <1>0, <1>1, <2>2 DEF WorkerPoll, GoTo, WorkerStates
    <3>2. \A s \in Slots, c \in Callers : InCall(s, c) => (Waiting(s)' <=> Waiting(s))
      BY <2>1, <3>1 DEF Waiting
    <3>3. ItemsFrame /\ UnitsFrame
      BY <3>1 DEF ItemsFrame, UnitsFrame
    <3> QED BY <1>0, <3>2, <3>3, WorkerUnits
  <2>3. CASE ~(~StopPending /\ WorkItemQueue[worker[w].item].State # "Ready")
    <3>1. /\ WorkItemQueue' = [WorkItemQueue EXCEPT ![worker[w].item].State = "Busy"] /\ worker'[w].pc = "taken"
          /\ \A v \in Threads : v # w => worker'[v] = worker[v]
          /\ worker'[w].item = worker[w].item
      BY <1>0, <1>1, <2>3 DEF WorkerPoll, GoTo, WorkerStates
    <3>2. ItemsFrame /\ UnitsFrame /\ WorkItemQueue'[worker[w].item].State = "Busy"
          /\ \A t \in Slots : t # worker[w].item => WorkItemQueue'[t] = WorkItemQueue[t]
      BY <1>0, <2>1, <3>1, StateSet
    <3>3. \A s \in Slots, c \in Callers : InCall(s, c) => (Waiting(s)' <=> Waiting(s))
      BY <2>1, <2>3, <3>1, <3>2, NoCallAtStop DEF Waiting
    <3> QED BY <1>0, <3>2, <3>3, WorkerUnits
  <2> QED BY <2>2, <2>3
<1>2. CASE WorkerFree(w)
  <2>1. worker[w].item \in Slots /\ Has(w) /\ worker[w].pc \in {"free", "keyFree"} /\ WorkItemQueue[worker[w].item].State = "Busy"
    <3>1. worker[w].pc \in {"free", "keyFree"} /\ Has(w)
      BY <1>2 DEF WorkerFree, Has, HasPcs, DataPcs, KeyPcs
    <3> QED BY <3>1, HasItem DEF ItemSound, HeldPcs, KeyPcs, Item
  <2>2. /\ WorkItemQueue' = [WorkItemQueue EXCEPT ![worker[w].item].State = "Free"] /\ worker'[w].pc \in {"freed", "keyFreed"}
        /\ \A v \in Threads : v # w => worker'[v] = worker[v]
    BY <1>0, <1>2 DEF WorkerFree, GoTo, WorkerStates
  <2>3. ItemsFrame /\ UnitsFrame /\ WorkItemQueue'[worker[w].item].State = "Free"
        /\ \A t \in Slots : t # worker[w].item => WorkItemQueue'[t] = WorkItemQueue[t]
    BY <1>0, <2>1, <2>2, StateSet
  <2>4. \A s \in Slots, c \in Callers : InCall(s, c) => (Waiting(s)' <=> Waiting(s))
    BY <2>1, <2>2, <2>3 DEF Waiting
  <2> QED BY <1>0, <2>3, <2>4, WorkerUnits
<1>3. CASE WorkerDecrement(w) \/ WorkerSignalItem(w)
  <2>1. Has(w) /\ worker[w].pc \in {"decrement", "signal"}
    BY <1>3 DEF WorkerDecrement, WorkerSignalItem, Has, HasPcs, DataPcs
  <2>2. Item(w).Type = "data"
    BY <2>1, HasItem DEF ItemSound, DataPcs
  <2>3. Item(w).FirstFragment \in Slots
    BY <2>1, <2>2, HasItem
  <2>4. ItemsFrame /\ UnitsFrame /\ StatesFrame
    <3>1. CASE WorkerDecrement(w)
      <4>1. PICK f \in Slots : f = Item(w).FirstFragment
        BY <2>3
      <4>2. PICK n \in Nat : n = WorkItemQueue[f].OutstandingFragmentCount - 1
        BY <2>1, <2>2, <3>1, <4>1, CounterPositive DEF CountPcs, WorkerDecrement
      <4>3. WorkItemQueue' = [WorkItemQueue EXCEPT ![f].OutstandingFragmentCount = n]
        BY <1>0, <3>1, <4>1, <4>2 DEF WorkerDecrement, Item, TypeOK
      <4> HIDE <4>1, <4>2
      <4> QED BY <1>0, <4>3, CountSet
    <3>2. CASE WorkerSignalItem(w)
      <4>1. WorkItemQueue' = [WorkItemQueue EXCEPT ![Item(w).FirstFragment].ItemCompletedEvent = TRUE]
        BY <3>2 DEF WorkerSignalItem, Item
      <4> QED BY <1>0, <2>3, <4>1, EventSet
    <3> QED BY <1>3, <3>1, <3>2
  <2>5. worker'[w].pc \in {"signal", "loop"} /\ \A v \in Threads : v # w => worker'[v] = worker[v]
    BY <1>0, <1>3 DEF WorkerDecrement, WorkerSignalItem, GoTo, WorkerStates
  <2>6. \A s \in Slots, c \in Callers : InCall(s, c) => (Waiting(s)' <=> Waiting(s))
    BY <2>1, <2>4, <2>5 DEF Waiting, StatesFrame
  <2> QED BY <1>0, <2>4, <2>6, WorkerUnits
<1> QED BY <1>1, <1>2, <1>3

(* A call that goes on, or comes back, with its data as it is. *)
LEMMA CallerUnits ==
    ASSUME PoolInv, DataInv, NEW c \in Callers, UNCHANGED buffer, ItemsFrame, UnitsFrame,
           \A d \in Callers : d # c => caller'[d] = caller[d],
           \A s \in Slots, d \in Callers : InCall(s, d) => (Waiting(s)' <=> Waiting(s)),
           Begun(c)' <=> Begun(c), Begun(c) => caller'[c].first = caller[c].first,
           Working(c)' => Working(c),
           caller'[c].data = caller[c].data, caller'[c].rem = caller[c].rem, caller'[c].left = caller[c].left,
           caller'[c].per = caller[c].per, caller'[c].job = caller[c].job,
           caller'[c].pc \in {"idle", "freeFirst", "signalCompleted"} /\ caller[c].job.type = "data"
              => caller[c].pc \in {"idle", "freeFirst", "signalCompleted"}
    PROVE  DataInv'
<1>1. ASSUME NEW d \in Callers PROVE CallUnits(d)'
  <2>1. (Begun(d)' <=> Begun(d)) /\ (Begun(d) => caller'[d].first = caller[d].first)
    BY DEF Begun, Open
  <2>2. \A s \in Slots : InCall(s, d)' <=> InCall(s, d)
    BY <2>1 DEF InCall, ItemsFrame
  <2>3. \A s \in Slots : Left(s, d)' <=> Left(s, d)
    BY <2>2 DEF Left
  <2>4. Working(d)' => /\ Working(d) /\ caller'[d].data = caller[d].data /\ caller'[d].rem = caller[d].rem
                       /\ caller'[d].left = caller[d].left /\ caller'[d].per = caller[d].per
                       /\ caller'[d].job = caller[d].job /\ buffer'[d] = buffer[d]
    BY DEF Working, Open
  <2>5. CallUnits(d)
    BY DEF DataInv
  <2> QED BY <2>3, <2>4, <2>5, UnitsKept DEF UnitsFrame
<1>2. ReturnedDataTransformed'
  <2> SUFFICES ASSUME NEW d \in Callers, caller'[d].pc \in {"idle", "freeFirst", "signalCompleted"}, caller'[d].job.type = "data"
               PROVE  buffer'[d] = Transformed(caller'[d].job.units)
    BY DEF ReturnedDataTransformed, Transformed
  <2>1. caller[d].pc \in {"idle", "freeFirst", "signalCompleted"} /\ caller'[d].job = caller[d].job
    OBVIOUS
  <2> QED BY <2>1 DEF DataInv, ReturnedDataTransformed
<1> QED BY <1>1, <1>2 DEF DataInv

LEMMA MovingCallerUnits ==
    ASSUME PoolInv, DataInv, NEW c \in Callers,
           \/ CallerWaitCompleted(c) \/ CallerPollBusy(c) \/ CallerSignalReady(c) \/ CallerRelease(c) \/ CallerReturns(c)
    PROVE  DataInv'
<1>1. /\ UNCHANGED <<buffer, WorkItemQueue, worker>> /\ TypeOK
      /\ \E p \in CallerPcs : CallerGoTo(c, p)
  BY DEF CallerWaitCompleted, CallerPollBusy, CallerSignalReady, CallerRelease, CallerReturns, CallerPcs, PoolInv
<1>2. PICK p \in CallerPcs : CallerGoTo(c, p)
  BY <1>1
<1>3. caller'[c] = [caller[c] EXCEPT !.pc = p] /\ caller[c] \in CallerStates /\ \A d \in Callers : d # c => caller'[d] = caller[d]
  BY <1>1, <1>2, CallerAt DEF TypeOK
<1>4. /\ caller'[c].pc = p /\ caller'[c].job = caller[c].job /\ caller'[c].first = caller[c].first
      /\ caller'[c].data = caller[c].data /\ caller'[c].left = caller[c].left
      /\ caller'[c].per = caller[c].per /\ caller'[c].rem = caller[c].rem
  BY <1>3 DEF CallerStates
<1>5. caller \in [Callers -> CallerStates]
  BY <1>1 DEF TypeOK
<1>6. /\ caller[c].pc = "waitFirst" => p = "pollFirst" /\ CallSound(c)
      /\ caller[c].pc = "waitItem" => p = "poll"
      /\ caller[c].pc = "poll" => p = "waitItem"
      /\ caller[c].pc = "signalReady" => p = "next"
      /\ caller[c].pc = "next" => p = (IF caller[c].job.type = "data" THEN "waitDone" ELSE "idle")
      /\ caller[c].pc = "signalCompleted" => p = "idle"
      /\ caller[c].pc \in {"waitFirst", "waitItem", "poll", "signalReady", "next", "signalCompleted"}
  BY <1>4, <1>5 DEF CallerWaitCompleted, CallerPollBusy, CallerSignalReady, CallerRelease, CallerReturns, CallerGoTo,
         CallerStates, PoolInv, Calls
<1>7. (Begun(c)' <=> Begun(c)) /\ (Working(c)' => Working(c))
  BY <1>4, <1>6 DEF Begun, Open, Working
<1>8. ItemsFrame /\ UnitsFrame /\ \A s \in Slots : Waiting(s)' <=> Waiting(s)
  BY <1>1 DEF ItemsFrame, UnitsFrame, Waiting
<1>9. caller'[c].pc \in {"idle", "freeFirst", "signalCompleted"} /\ caller[c].job.type = "data"
              => caller[c].pc \in {"idle", "freeFirst", "signalCompleted"}
  BY <1>4, <1>6
<1> QED BY <1>1, <1>3, <1>4, <1>7, <1>8, <1>9, CallerUnits

LEMMA PlacingCallerUnits ==
    ASSUME PoolInv, DataInv, NEW c \in Callers, CallerAcquire(c) \/ CallerNextItem(c)
    PROVE  DataInv'
<1>1. /\ UNCHANGED <<buffer, WorkItemQueue, worker>> /\ TypeOK /\ caller \in [Callers -> CallerStates]
  BY DEF CallerAcquire, CallerNextItem, PoolInv, TypeOK
<1>2. /\ caller'[c].job = caller[c].job
      /\ caller'[c].data = caller[c].data /\ caller'[c].left = caller[c].left
      /\ caller'[c].per = caller[c].per /\ caller'[c].rem = caller[c].rem
      /\ \A d \in Callers : d # c => caller'[d] = caller[d]
      /\ caller[c].pc = "acquire" => caller'[c].pc = IF caller[c].job.type = "data" THEN "pollFirst" ELSE "next"
      /\ caller[c].pc = "next" => caller'[c].pc = "poll" /\ caller'[c].first = caller[c].first
      /\ caller[c].pc \in {"acquire", "next"}
  BY <1>1 DEF CallerAcquire, CallerNextItem, CallerStates
<1>3. (Begun(c)' <=> Begun(c)) /\ (Working(c)' => Working(c)) /\ (Begun(c) => caller'[c].first = caller[c].first)
  BY <1>2 DEF Begun, Open, Working
<1>4. ItemsFrame /\ UnitsFrame /\ \A s \in Slots : Waiting(s)' <=> Waiting(s)
  BY <1>1 DEF ItemsFrame, UnitsFrame, Waiting
<1> QED BY <1>1, <1>2, <1>3, <1>4, CallerUnits

LEMMA FirstCallerUnits ==
    ASSUME PoolInv, DataInv, NEW c \in Callers, CallerPollFirst(c) \/ CallerFreeFirst(c)
    PROVE  DataInv'
<1>0. /\ TypeOK /\ CallSound(c) /\ caller[c] \in CallerStates /\ caller \in [Callers -> CallerStates]
      /\ UNCHANGED <<buffer, worker>> /\ {"waitFirst", "next", "signalCompleted"} \subseteq CallerPcs
  BY DEF CallerPollFirst, CallerFreeFirst, PoolInv, TypeOK, Calls, CallerPcs
<1>1. PICK f \in Slots : f = caller[c].first
  BY <1>0 DEF CallerPollFirst, CallerFreeFirst, CallSound, TypeOK
<1>2. CASE CallerPollFirst(c)
  <2>1. PICK p \in {"waitFirst", "next"} : CallerGoTo(c, p)
    BY <1>2 DEF CallerPollFirst
  <2>2. caller'[c] = [caller[c] EXCEPT !.pc = p] /\ \A d \in Callers : d # c => caller'[d] = caller[d]
    BY <1>0, <2>1, CallerAt
  <2>3. /\ caller'[c].pc = p /\ caller'[c].job = caller[c].job /\ caller'[c].first = caller[c].first
        /\ caller'[c].data = caller[c].data /\ caller'[c].left = caller[c].left
        /\ caller'[c].per = caller[c].per /\ caller'[c].rem = caller[c].rem
    BY <1>0, <2>2 DEF CallerStates
  <2>4. caller[c].pc = "pollFirst" /\ caller[c].data = 1 /\ caller[c].job.type = "data" /\ caller[c].left \in Nat
    BY <1>0, <1>2 DEF CallerPollFirst, CallSound, CallerStates
  <2>5. (Begun(c)' <=> Begun(c)) /\ (Working(c)' => Working(c))
    BY <2>3, <2>4 DEF Begun, Open, Working
  <2>6. ItemsFrame /\ UnitsFrame /\ StatesFrame
    <3>1. CASE UNCHANGED WorkItemQueue
      BY <3>1 DEF ItemsFrame, UnitsFrame, StatesFrame
    <3>2. CASE WorkItemQueue' = [WorkItemQueue EXCEPT ![f].OutstandingFragmentCount = caller[c].left]
      <4>1. PICK n \in Nat : n = caller[c].left
        BY <2>4
      <4>2. WorkItemQueue' = [WorkItemQueue EXCEPT ![f].OutstandingFragmentCount = n]
        BY <3>2, <4>1
      <4> HIDE <4>1
      <4> QED BY <1>0, <4>2, CountSet
    <3> QED BY <1>1, <1>2, <3>1, <3>2 DEF CallerPollFirst
  <2>7. \A s \in Slots : Waiting(s)' <=> Waiting(s)
    BY <1>0, <2>6 DEF Waiting, StatesFrame
  <2> QED BY <1>0, <2>2, <2>3, <2>4, <2>5, <2>6, <2>7, CallerUnits
<1>3. CASE CallerFreeFirst(c)
  <2>1. CallerGoTo(c, "signalCompleted") /\ caller[c].pc = "freeFirst" /\ FirstIsOwn(c)
    BY <1>0, <1>3 DEF CallerFreeFirst, CallSound
  <2>2. caller'[c] = [caller[c] EXCEPT !.pc = "signalCompleted"] /\ \A d \in Callers : d # c => caller'[d] = caller[d]
    BY <1>0, <2>1, CallerAt
  <2>3. /\ caller'[c].pc = "signalCompleted" /\ caller'[c].job = caller[c].job /\ caller'[c].first = caller[c].first
        /\ caller'[c].data = caller[c].data /\ caller'[c].left = caller[c].left
        /\ caller'[c].per = caller[c].per /\ caller'[c].rem = caller[c].rem
    BY <1>0, <2>2 DEF CallerStates
  <2>4. ~Begun(c)' /\ ~Begun(c) /\ ~Working(c)'
    BY <2>1, <2>3 DEF Begun, Open, Working
  <2>5. WorkItemQueue' = [WorkItemQueue EXCEPT ![f].State = "Free"]
    BY <1>1, <1>3 DEF CallerFreeFirst
  <2>6. ItemsFrame /\ UnitsFrame /\ \A t \in Slots : t # f => WorkItemQueue'[t] = WorkItemQueue[t]
    BY <1>0, <2>5, StateSet
  <2>7. \A s \in Slots, d \in Callers : InCall(s, d) => s # f
    BY <1>1, <2>1, <2>4 DEF InCall, FirstIsOwn
  <2>8. \A s \in Slots, d \in Callers : InCall(s, d) => (Waiting(s)' <=> Waiting(s))
    BY <1>0, <2>6, <2>7 DEF Waiting
  <2> QED BY <1>0, <2>1, <2>2, <2>3, <2>4, <2>6, <2>8, CallerUnits
<1> QED BY <1>2, <1>3

(* The data of the others stays as it is. *)
LEMMA OneCallUnits ==
    ASSUME DataInv, NEW c \in Callers,
           \A d \in Callers : d # c => caller'[d] = caller[d] /\ buffer'[d] = buffer[d],
           \A s \in Slots, d \in Callers : d # c =>
               /\ Left(s, d)' <=> Left(s, d)
               /\ Left(s, d) => /\ WorkItemQueue'[s].Data = WorkItemQueue[s].Data
                                /\ WorkItemQueue'[s].UnitCount = WorkItemQueue[s].UnitCount
                                /\ WorkItemQueue'[s].StartUnitNo = WorkItemQueue[s].StartUnitNo,
           CallUnits(c)',
           caller'[c].pc \in {"idle", "freeFirst", "signalCompleted"} /\ caller'[c].job.type = "data"
              => buffer'[c] = Transformed(caller'[c].job.units)
    PROVE  DataInv'
<1>1. ASSUME NEW d \in Callers PROVE CallUnits(d)'
  <2>1. CASE d = c
    BY <2>1
  <2>2. CASE d # c
    <3>1. Working(d)' => /\ Working(d) /\ caller'[d].data = caller[d].data /\ caller'[d].rem = caller[d].rem
                         /\ caller'[d].left = caller[d].left /\ caller'[d].per = caller[d].per
                         /\ caller'[d].job = caller[d].job /\ buffer'[d] = buffer[d]
      BY <2>2 DEF Working, Open
    <3>2. CallUnits(d)
      BY DEF DataInv
    <3> QED BY <2>2, <3>1, <3>2, UnitsKept
  <2> QED BY <2>1, <2>2
<1>2. ReturnedDataTransformed'
  <2> SUFFICES ASSUME NEW d \in Callers, caller'[d].pc \in {"idle", "freeFirst", "signalCompleted"}, caller'[d].job.type = "data"
               PROVE  buffer'[d] = Transformed(caller'[d].job.units)
    BY DEF ReturnedDataTransformed, Transformed
  <2> QED BY DEF DataInv, ReturnedDataTransformed
<1> QED BY <1>1, <1>2 DEF DataInv

(* A call that is not at work has no units waiting. *)
LEMMA NoUnits ==
    ASSUME NEW c \in Callers, ~Working(c)
    PROVE  CallUnits(c) /\ \A s \in Slots : ~Left(s, c)
BY DEF CallUnits, CallFragments, CallBuffer, Left, InCall, Begun, Working
LEMMA NoUnitsNext == (\A c \in Callers : ~Working(c) => CallUnits(c))'
<1>1. \A c \in Callers : ~Working(c) => CallUnits(c)
  BY NoUnits
<1> QED BY <1>1, PTL

LEMMA InlineUnits ==
    ASSUME PoolInv, DataInv, NEW c \in Callers, NEW job \in Jobs, DoWorkInline(c, job) \/ BeginKeyDerivation(c, job)
    PROVE  DataInv'
<1>0. /\ TypeOK /\ caller \in [Callers -> CallerStates] /\ DOMAIN buffer = Callers /\ UNCHANGED <<WorkItemQueue, worker>>
      /\ caller[c].pc = "idle"
  BY DEF PoolInv, TypeOK, DoWorkInline, BeginKeyDerivation
<1>1. \A d \in Callers : d # c => caller'[d] = caller[d] /\ buffer'[d] = buffer[d]
  BY <1>0 DEF DoWorkInline, BeginKeyDerivation
<1>2. \A s \in Slots, d \in Callers : d # c => (Left(s, d)' <=> Left(s, d))
  BY <1>0, <1>1 DEF Left, InCall, Begun, Open, Waiting
<1>3. CASE DoWorkInline(c, job)
  <2>1. caller'[c].pc = "idle" /\ caller'[c].job = job /\ buffer'[c] = Transformed(job.units)
    BY <1>0, <1>3 DEF DoWorkInline, CallerStates
  <2>2. ~Working(c)'
    BY <2>1 DEF Working, Open
  <2> QED BY <1>0, <1>1, <1>2, <2>1, <2>2, NoUnitsNext, OneCallUnits
<1>4. CASE BeginKeyDerivation(c, job)
  <2>1. caller'[c].pc = "acquire" /\ caller'[c].job = job /\ job.type = "key"
    BY <1>0, <1>4 DEF BeginKeyDerivation, IdleCaller
  <2>2. ~Working(c)'
    BY <2>1 DEF Working, Open
  <2> QED BY <1>0, <1>1, <1>2, <2>1, <2>2, NoUnitsNext, OneCallUnits
<1> QED BY <1>3, <1>4

(* The fragments of a new call have all its units. *)
LEMMA AllUnits ==
    ASSUME TypeOK, manager = "running", PhaseFlags, NEW n \in Nat, n > 1, NEW k,
           k.left = FragmentCount(n), k.per = UnitsPerFragment(n), k.rem = Remainder(n)
    PROVE  Rest(k) = n /\ k.rem <= k.left
<1>1. ThreadCount \in Nat /\ ThreadCount >= 2
  BY PoolAssumption, FS_CardinalityType DEF PhaseFlags
<1>2. CASE n <= ThreadCount
  BY <1>1, <1>2 DEF Rest, FragmentCount, UnitsPerFragment, Remainder
<1>3. CASE ~(n <= ThreadCount)
  <2>1. PICK q \in Nat, r \in Nat : q = n \div ThreadCount /\ r = n % ThreadCount
    BY <1>1, <1>3, Divided
  <2>2. n = ThreadCount * q + r /\ r < ThreadCount
    BY <1>1, <1>3, <2>1, Divided
  <2>3. k.left = ThreadCount /\ k.rem = r /\ k.per = q + (IF r > 0 THEN 1 ELSE 0)
    BY <1>1, <1>3, <2>1 DEF FragmentCount, UnitsPerFragment, Remainder
  <2> HIDE <2>1
  <2>4. CASE r = 0
    BY <1>1, <2>2, <2>3, <2>4 DEF Rest
  <2>5. CASE r > 0
    <3>1. Rest(k) = r * (q + 1) + (ThreadCount - r) * q
      BY <1>1, <2>2, <2>3, <2>5 DEF Rest
    <3>2. r * (q + 1) + (ThreadCount - r) * q = ThreadCount * q + r
      BY <1>1
    <3> QED BY <2>2, <2>3, <3>1, <3>2, <1>1
  <2> QED BY <2>4, <2>5
<1> QED BY <1>2, <1>3

LEMMA DoWorkUnits ==
    ASSUME PoolInv, DataInv, NEW c \in Callers, NEW job \in Jobs, DoWork(c, job)
    PROVE  DataInv'
<1>0. /\ TypeOK /\ caller \in [Callers -> CallerStates] /\ DOMAIN buffer = Callers /\ UNCHANGED <<WorkItemQueue, worker>>
      /\ caller[c].pc = "idle" /\ job.units \in Nat /\ job.units > 1 /\ manager = "running" /\ PhaseFlags /\ job.type = "data"
  BY PoolAssumption DEF PoolInv, TypeOK, DoWork, Phases
<1>1. \A d \in Callers : d # c => caller'[d] = caller[d] /\ buffer'[d] = buffer[d]
  BY <1>0 DEF DoWork
<1>2. \A s \in Slots, d \in Callers : d # c => (Left(s, d)' <=> Left(s, d))
  BY <1>0, <1>1 DEF Left, InCall, Begun, Open, Waiting
<1>3. /\ caller'[c].pc = "acquire" /\ caller'[c].job = job /\ caller'[c].data = 1
      /\ caller'[c].left = FragmentCount(job.units) /\ caller'[c].per = UnitsPerFragment(job.units)
      /\ caller'[c].rem = Remainder(job.units) /\ buffer'[c] = [i \in 1 .. job.units |-> <<>>]
  BY <1>0 DEF DoWork
<1>4. PICK k : k = caller'[c]
  OBVIOUS
<1>5. Rest(k) = job.units /\ k.rem <= k.left
  BY <1>0, <1>3, <1>4, AllUnits
<1>6. Rest(caller[c])' = job.units /\ caller'[c].rem <= caller'[c].left
  BY <1>4, <1>5 DEF Rest
<1>7. \A s \in Slots : ~Left(s, c)'
  BY <1>3 DEF Left, InCall, Begun, Open
<1>8. CallBuffer(c)'
  BY <1>0, <1>3, <1>6 DEF CallBuffer
<1>9. CallUnits(c)'
  BY <1>7, <1>8 DEF CallUnits, CallFragments
<1> QED BY <1>0, <1>1, <1>2, <1>3, <1>9, OneCallUnits

(* The caller sees its event: nothing is left to enqueue, and nothing waits. *)
LEMMA WaitDoneUnits ==
    ASSUME PoolInv, DataInv, NEW c \in Callers, CallerWaitDone(c)
    PROVE  DataInv'
<1>0. /\ TypeOK /\ CallSound(c) /\ caller[c].pc = "waitDone" /\ manager = "running" /\ "freeFirst" \in CallerPcs
      /\ WorkItemQueue[caller[c].first].ItemCompletedEvent /\ CallerGoTo(c, "freeFirst") /\ caller[c] \in CallerStates
      /\ UNCHANGED <<buffer, worker>> /\ ~StopPending
  BY DEF CallerWaitDone, PoolInv, Calls, TypeOK, CallerPcs, Phases, PhaseFlags
<1>1. /\ Begun(c) /\ caller[c].first \in Slots /\ \A s \in Slots : InCall(s, c) => ~InUse(s)
  BY <1>0, AllDone
<1>2. PICK f \in Slots : f = caller[c].first
  BY <1>1
<1>3. WorkItemQueue' = [WorkItemQueue EXCEPT ![f].ItemCompletedEvent = FALSE]
  BY <1>2 DEF CallerWaitDone
<1>4. ItemsFrame /\ StatesFrame /\ UnitsFrame
  BY <1>0, <1>3, EventSet
<1>5. caller'[c] = [caller[c] EXCEPT !.pc = "freeFirst"] /\ \A d \in Callers : d # c => caller'[d] = caller[d]
  BY <1>0, CallerAt
<1>6. caller'[c].pc = "freeFirst" /\ caller'[c].job = caller[c].job
  BY <1>0, <1>5 DEF CallerStates
<1>7. ~Working(c)'
  BY <1>6 DEF Working, Open
<1>8. \A s \in Slots, d \in Callers : d # c => (Left(s, d)' <=> Left(s, d))
  BY <1>0, <1>4, <1>5 DEF Left, InCall, Begun, Open, Waiting, ItemsFrame, StatesFrame
<1>9. \A s \in Slots : ~Left(s, c)
  BY <1>0, <1>1 DEF Left, Waiting, InUse, Has, HasPcs
<1>10. buffer[c] = Transformed(caller[c].job.units)
  <2>1. Working(c) /\ CallBuffer(c)
    BY <1>1 DEF Begun, Working, DataInv, CallUnits
  <2>2. /\ caller[c].rem \in Nat /\ caller[c].per \in Nat /\ caller[c].data \in Nat /\ caller[c].job.units \in Nat
        /\ caller[c].left = 0
    BY <1>0 DEF CallerStates, CallSound
  <2>3. caller[c].rem = 0
    BY <2>1, <2>2 DEF CallBuffer
  <2>4. Rest(caller[c]) = 0
    BY <2>2, <2>3 DEF Rest
  <2>5. caller[c].data = caller[c].job.units + 1
    BY <2>1, <2>2, <2>4 DEF CallBuffer
  <2>6. \A i \in 1 .. caller[c].job.units : i < caller[c].data /\ ~InTodo(i, c)
    BY <1>9, <2>2, <2>5 DEF InTodo
  <2>7. \A i \in 1 .. caller[c].job.units : buffer[c][i] = <<StartUnitNo + i - 1>>
    BY <2>1, <2>6 DEF CallBuffer
  <2>8. buffer[c] = [i \in 1 .. caller[c].job.units |-> buffer[c][i]]
    BY <2>1 DEF CallBuffer
  <2> QED BY <2>7, <2>8 DEF Transformed
<1> QED BY <1>0, <1>4, <1>5, <1>6, <1>7, <1>8, <1>10, NoUnitsNext, OneCallUnits, ZenonT(60) DEF UnitsFrame

(* A free item is nobody's, and every item that waits belongs to a call or to a key derivation. *)
LEMMA FreeIsNotWaiting ==
    ASSUME PoolInv, ~StopPending
    PROVE  /\ \A s \in Slots : Waiting(s) => WorkItemQueue[s].State # "Free"
           /\ \A s \in Slots : Waiting(s) /\ WorkItemQueue[s].Type = "data" => \E c \in Callers : InCall(s, c)
<1>1. ASSUME NEW s \in Slots, Waiting(s)
      PROVE  /\ WorkItemQueue[s].State # "Free"
             /\ WorkItemQueue[s].Type = "data" => \E c \in Callers : InCall(s, c)
  <2>1. CASE WorkItemQueue[s].State = "Ready"
    BY <2>1 DEF PoolInv, ReadyItems
  <2>2. ASSUME NEW w \in Threads, worker[w].pc \in {"taken", "work"}, worker[w].item = s
        PROVE  /\ WorkItemQueue[s].State # "Free"
               /\ WorkItemQueue[s].Type = "data" => \E c \in Callers : InCall(s, c)
    <3>1. Has(w)
      BY <2>2 DEF Has, HasPcs
    <3> QED BY <2>2, <3>1, HasItem DEF ItemSound, HeldPcs, Item
  <2> QED BY <1>1, <2>1, <2>2 DEF Waiting
<1> QED BY <1>1

LEMMA EnqueueKeyUnits ==
    ASSUME PoolInv, DataInv, NEW c \in Callers, CallerEnqueueKey(c)
    PROVE  DataInv'
<1>0. /\ TypeOK /\ CallSound(c) /\ caller[c].pc = "poll" /\ caller[c].job.type = "key" /\ caller \in [Callers -> CallerStates]
      /\ WorkItemQueue \in [Slots -> WorkItems] /\ UNCHANGED <<buffer, worker>> /\ ~StopPending
  BY DEF CallerEnqueueKey, PoolInv, Calls, TypeOK, Phases, PhaseFlags
<1>1. PICK p \in Slots : p = caller[c].item
  BY <1>0 DEF CallSound
<1>2. /\ caller'[c].pc = "signalReady" /\ caller'[c].job = caller[c].job
      /\ \A d \in Callers : d # c => caller'[d] = caller[d]
      /\ WorkItemQueue[p].State = "Free" /\ WorkItemQueue'[p].Type = "key"
      /\ \A s \in Slots : s # p => WorkItemQueue'[s] = WorkItemQueue[s]
  BY <1>0, <1>1 DEF CallerEnqueueKey, CallerStates, WorkItems
<1>3. ~Working(c)'
  BY <1>0, <1>2 DEF Working, Open
<1>4. ~Waiting(p)
  BY <1>0, <1>2, FreeIsNotWaiting
<1>5. \A s \in Slots, d \in Callers : d # c => (Left(s, d)' <=> Left(s, d)) /\ (Left(s, d) => s # p)
  BY <1>0, <1>2, <1>4 DEF Left, InCall, Begun, Open, Waiting
<1> QED BY <1>0, <1>2, <1>3, <1>5, NoUnitsNext, OneCallUnits

(* What one fragment takes from the units that are to be enqueued. *)
LEMMA RestStep ==
    ASSUME NEW left \in Nat, NEW rem \in Nat, NEW per \in Nat, left > 0, rem <= left, per >= 1
    PROVE  /\ rem > 1 => rem * per + (left - rem) * (per - 1)
                            = per + ((rem - 1) * per + (left - 1 - (rem - 1)) * (per - 1))
           /\ rem = 1 => rem * per + (left - rem) * (per - 1) = per + (left - 1) * (per - 1)
           /\ left * per = per + (left - 1) * per
OBVIOUS

LEMMA RestOfCall ==
    ASSUME NEW k, NEW j, k.left \in Nat, k.rem \in Nat, k.per \in Nat, k.left > 0, k.rem <= k.left, k.per >= 1,
           j.left = k.left - 1, j.per = NextPer(k), j.rem = NextRem(k)
    PROVE  Rest(k) = k.per + Rest(j) /\ j.rem <= j.left
<1>1. PICK left \in Nat, rem \in Nat, per \in Nat : left = k.left /\ rem = k.rem /\ per = k.per
  OBVIOUS
<1>2. CASE rem > 1
  <2>1. j.rem = rem - 1 /\ j.left = left - 1 /\ j.per = per /\ j.rem > 0
    BY <1>1, <1>2 DEF NextPer, NextRem
  <2>2. Rest(j) = (rem - 1) * per + (left - 1 - (rem - 1)) * (per - 1)
    BY <2>1 DEF Rest
  <2>3. Rest(k) = rem * per + (left - rem) * (per - 1)
    BY <1>1, <1>2 DEF Rest
  <2>4. rem * per + (left - rem) * (per - 1) = per + ((rem - 1) * per + (left - 1 - (rem - 1)) * (per - 1))
    BY <1>1, <1>2, RestStep
  <2>5. j.rem <= j.left
    BY <1>1, <2>1
  <2> QED BY <1>1, <2>2, <2>3, <2>4, <2>5
<1>3. CASE rem = 1
  <2>1. j.rem = 0 /\ j.left = left - 1 /\ j.per = per - 1
    BY <1>1, <1>3 DEF NextPer, NextRem
  <2>2. Rest(j) = (left - 1) * (per - 1)
    BY <2>1 DEF Rest
  <2>3. Rest(k) = rem * per + (left - rem) * (per - 1)
    BY <1>1, <1>3 DEF Rest
  <2> QED BY <1>1, <1>3, <2>1, <2>2, <2>3, RestStep
<1>4. CASE rem = 0
  <2>1. j.rem = 0 /\ j.left = left - 1 /\ j.per = per
    BY <1>1, <1>4 DEF NextPer, NextRem
  <2>2. Rest(j) = (left - 1) * per
    <3>1. ~(j.rem > 0)
      BY <2>1
    <3>2. Rest(j) = j.left * j.per
      BY <3>1 DEF Rest
    <3> QED BY <2>1, <3>2
  <2>3. Rest(k) = left * per
    BY <1>1, <1>4 DEF Rest
  <2> QED BY <1>1, <1>4, <2>1, <2>2, <2>3, RestStep
<1> QED BY <1>2, <1>3, <1>4

LEMMA RestNat ==
    ASSUME NEW k, k.left \in Nat, k.rem \in Nat, k.per \in Nat, k.rem <= k.left, k.left > 0 => k.per >= 1
    PROVE  Rest(k) \in Nat
<1>1. PICK left \in Nat, rem \in Nat, per \in Nat : left = k.left /\ rem = k.rem /\ per = k.per
  OBVIOUS
<1>2. CASE rem = 0
  BY <1>1, <1>2 DEF Rest
<1>3. CASE rem > 0
  <2>1. left - rem \in Nat /\ per - 1 \in Nat
    BY <1>1, <1>3
  <2>2. rem * per \in Nat /\ (left - rem) * (per - 1) \in Nat
    BY <2>1
  <2> QED BY <1>1, <1>3, <2>2 DEF Rest
<1> QED BY <1>2, <1>3

LEMMA EnqueueFragmentUnits ==
    ASSUME PoolInv, DataInv, NEW c \in Callers, CallerEnqueueFragment(c)
    PROVE  DataInv'
<1>0. /\ TypeOK /\ CallSound(c) /\ caller[c].pc = "poll" /\ caller[c].job.type = "data" /\ caller[c] \in CallerStates
      /\ caller[c].left > 0 /\ caller[c].data >= 1 /\ caller[c].per >= 1
      /\ WorkItemQueue \in [Slots -> WorkItems] /\ caller \in [Callers -> CallerStates]
      /\ UNCHANGED <<buffer, worker>> /\ ~StopPending
  BY DEF CallerEnqueueFragment, PoolInv, Calls, CallSound, TypeOK, Open, Phases, PhaseFlags
<1>1. PICK p \in Slots : p = caller[c].item
  BY <1>0 DEF CallSound
<1>2. PICK k : k = caller[c]
  OBVIOUS
<1>3. k.left \in Nat /\ k.per \in Nat /\ k.rem \in Nat /\ k.data \in Nat /\ StartUnitNo \in Nat /\ k.job.units \in Nat
  BY <1>0, <1>2, PoolAssumption DEF CallerStates
<1>4. /\ caller'[c].pc = "signalReady" /\ caller'[c].job = k.job /\ caller'[c].first = k.first
      /\ caller'[c].left = k.left - 1 /\ caller'[c].data = k.data + k.per
      /\ caller'[c].per = NextPer(k) /\ caller'[c].rem = NextRem(k)
      /\ \A d \in Callers : d # c => caller'[d] = caller[d]
  BY <1>0, <1>2 DEF CallerEnqueueFragment, CallerStates
<1>5. /\ WorkItemQueue[p].State = "Free"
      /\ WorkItemQueue'[p].State = "Ready" /\ WorkItemQueue'[p].Type = "data" /\ WorkItemQueue'[p].owner = c
      /\ WorkItemQueue'[p].FirstFragment = k.first /\ WorkItemQueue'[p].Data = k.data
      /\ WorkItemQueue'[p].StartUnitNo = StartUnitNo + k.data - 1 /\ WorkItemQueue'[p].UnitCount = k.per
      /\ \A s \in Slots : s # p => WorkItemQueue'[s] = WorkItemQueue[s]
  BY <1>0, <1>1, <1>2 DEF CallerEnqueueFragment, WorkItems
<1>6. ~Waiting(p)
  BY <1>0, <1>5, FreeIsNotWaiting
<1>7. \A s \in Slots, d \in Callers : d # c => (Left(s, d)' <=> Left(s, d)) /\ (Left(s, d) => s # p)
  BY <1>0, <1>4, <1>5, <1>6 DEF Left, InCall, Begun, Open, Waiting
<1>8. Begun(c)' /\ Left(p, c)'
  BY <1>0, <1>2, <1>3, <1>4, <1>5 DEF Left, InCall, Begun, Open, Waiting
<1>9. ASSUME NEW s \in Slots, s # p PROVE Left(s, c)' <=> Left(s, c)
  <2>1. Waiting(s)' <=> Waiting(s)
    BY <1>0, <1>5, <1>9 DEF Waiting
  <2>2. InCall(s, c) => InCall(s, c)'
    BY <1>2, <1>4, <1>5, <1>8, <1>9 DEF InCall
  <2>3. InCall(s, c)' /\ Waiting(s) => WorkItemQueue[s].Type = "data" /\ WorkItemQueue[s].owner = c
                                       /\ WorkItemQueue[s].FirstFragment = caller[c].first
    BY <1>2, <1>4, <1>5, <1>9 DEF InCall
  <2>4. InCall(s, c)' /\ Waiting(s) => InCall(s, c)
    BY <1>0, <2>3, FreeIsNotWaiting DEF InCall
  <2> QED BY <2>1, <2>2, <2>4 DEF Left
<1>10. \A s \in Slots : s # p => UnitsOf(s)' = UnitsOf(s)
  BY <1>5 DEF UnitsOf
<1>11. UnitsOf(p)' = k.data .. k.data + k.per - 1
  BY <1>5 DEF UnitsOf
<1>12. \A s \in Slots : Left(s, c) => UnitsOf(s) \subseteq 1 .. k.data - 1
  BY <1>2 DEF DataInv, CallUnits, CallFragments
<1>13. CallFragments(c)'
  <2> SUFFICES ASSUME NEW s \in Slots, Left(s, c)'
               PROVE  /\ UnitsOf(s)' \subseteq 1 .. caller'[c].data - 1
                      /\ WorkItemQueue'[s].StartUnitNo = StartUnitNo + WorkItemQueue'[s].Data - 1
                      /\ \A t \in Slots : Left(t, c)' /\ t # s => UnitsOf(s)' \cap UnitsOf(t)' = {}
    BY DEF CallFragments
  <2>1. CASE s = p
    <3>1. UnitsOf(s)' \subseteq 1 .. caller'[c].data - 1
      BY <1>0, <1>2, <1>3, <1>4, <1>11, <2>1
    <3>2. ASSUME NEW t \in Slots, Left(t, c)', t # s PROVE UnitsOf(s)' \cap UnitsOf(t)' = {}
      <4>1. Left(t, c) /\ UnitsOf(t)' = UnitsOf(t) /\ UnitsOf(t) \subseteq 1 .. k.data - 1
        BY <1>9, <1>10, <1>12, <2>1, <3>2
      <4> QED BY <1>3, <1>11, <2>1, <4>1
    <3> QED BY <1>5, <2>1, <3>1, <3>2
  <2>2. CASE s # p
    <3>1. Left(s, c) /\ UnitsOf(s)' = UnitsOf(s) /\ UnitsOf(s) \subseteq 1 .. k.data - 1
      BY <1>9, <1>10, <1>12, <2>2
    <3>2. UnitsOf(s)' \subseteq 1 .. caller'[c].data - 1
      BY <1>3, <1>4, <3>1
    <3>3. WorkItemQueue'[s].StartUnitNo = StartUnitNo + WorkItemQueue'[s].Data - 1
      BY <1>5, <2>2, <3>1 DEF DataInv, CallUnits, CallFragments
    <3>4. ASSUME NEW t \in Slots, Left(t, c)', t # s PROVE UnitsOf(s)' \cap UnitsOf(t)' = {}
      <4>1. CASE t = p
        BY <1>3, <1>11, <3>1, <4>1
      <4>2. CASE t # p
        <5>1. Left(t, c) /\ UnitsOf(t)' = UnitsOf(t)
          BY <1>9, <1>10, <3>4, <4>2
        <5> QED BY <3>1, <3>4, <5>1 DEF DataInv, CallUnits, CallFragments
      <4> QED BY <4>1, <4>2
    <3> QED BY <3>2, <3>3, <3>4
  <2> QED BY <2>1, <2>2
<1>14. CallBuffer(c)'
  <2>1. Working(c) /\ CallBuffer(c)
    BY <1>0 DEF Working, Open, DataInv, CallUnits
  <2>2. k.rem <= k.left /\ k.data + Rest(k) = k.job.units + 1
    BY <1>2, <2>1 DEF CallBuffer
  <2>3. PICK j : j = caller'[c]
    OBVIOUS
  <2>4. Rest(k) = k.per + Rest(j) /\ j.rem <= j.left
    BY <1>0, <1>2, <1>3, <1>4, <2>2, <2>3, RestOfCall
  <2>5. Rest(caller[c])' = Rest(j)
    BY <2>3 DEF Rest
  <2>6. Rest(j) \in Nat
    <3>1. j.left \in Nat /\ j.rem \in Nat /\ j.per \in Nat /\ (j.left > 0 => j.per >= 1)
      BY <1>0, <1>2, <1>3, <1>4, <2>2, <2>3 DEF NextPer, NextRem, CallSound
    <3> QED BY <2>4, <3>1, RestNat
  <2>7. caller'[c].data + Rest(caller[c])' = caller'[c].job.units + 1 /\ caller'[c].rem <= caller'[c].left
    BY <1>3, <1>4, <2>2, <2>3, <2>4, <2>5, <2>6
  <2>8. ASSUME NEW i \in 1 .. k.job.units
        PROVE  (i < caller'[c].data /\ ~InTodo(i, c)') <=> (i < k.data /\ ~InTodo(i, c))
    <3>1. InTodo(i, c)' <=> InTodo(i, c) \/ i \in k.data .. k.data + k.per - 1
      BY <1>6, <1>8, <1>9, <1>10, <1>11 DEF InTodo, Left
    <3>2. InTodo(i, c) => i < k.data
      BY <1>3, <1>12 DEF InTodo
    <3> QED BY <1>0, <1>2, <1>3, <1>4, <3>1, <3>2
  <2>9. /\ buffer'[c] = [i \in 1 .. caller'[c].job.units |-> buffer'[c][i]]
        /\ \A i \in 1 .. caller'[c].job.units :
              buffer'[c][i] = IF i < caller'[c].data /\ ~InTodo(i, c)' THEN <<StartUnitNo + i - 1>> ELSE <<>>
    BY <1>0, <1>2, <1>4, <2>1, <2>8 DEF CallBuffer
  <2> QED BY <2>7, <2>9 DEF CallBuffer
<1>15. CallUnits(c)' /\ caller'[c].pc \notin {"idle", "freeFirst", "signalCompleted"}
  BY <1>4, <1>13, <1>14 DEF CallUnits
<1> QED BY <1>0, <1>4, <1>5, <1>7, <1>15, OneCallUnits

Written(c, d, n, m) ==
    /\ buffer'[c] = [i \in 1 .. m |-> buffer'[c][i]]
    /\ \A i \in 1 .. m : buffer'[c][i] = IF i \in d .. d + n - 1 THEN <<StartUnitNo + i - 1>> ELSE buffer[c][i]

(* What EncryptDataUnitsCurrentThread writes, of units that have not been transformed. *)
LEMMA TransformedUnits ==
    ASSUME TypeOK, NEW c \in Callers, NEW d \in Nat, NEW n \in Nat, NEW m \in Nat,
           Transform(c, d, StartUnitNo + d - 1, n), d .. d + n - 1 \subseteq 1 .. m,
           DOMAIN buffer[c] = 1 .. m, \A i \in d .. d + n - 1 : buffer[c][i] = <<>>
    PROVE  Written(c, d, n, m)
<1> DEFINE u == StartUnitNo + d - 1
           old(j) == IF j \in DOMAIN buffer[c] THEN buffer[c][j] ELSE <<>>
           new == [j \in DOMAIN buffer[c] \cup d .. d + n - 1 |->
                     IF j \in d .. d + n - 1 THEN Append(old(j), u + (j - d)) ELSE old(j)]
<1>1. buffer'[c] = new
  BY DEF Transform, TypeOK
<1>2. DOMAIN buffer[c] \cup d .. d + n - 1 = 1 .. m
  OBVIOUS
<1>3. \A i \in 1 .. m : old(i) = buffer[c][i]
  OBVIOUS
<1>4. ASSUME NEW i \in d .. d + n - 1 PROVE Append(old(i), u + (i - d)) = <<StartUnitNo + i - 1>>
  <2>1. old(i) = <<>>
    BY <1>3
  <2>2. u + (i - d) = StartUnitNo + i - 1
    BY PoolAssumption
  <2> HIDE DEF old, u
  <2> QED BY <2>1, <2>2
<1> HIDE DEF old, u
<1>5. new = [j \in 1 .. m |-> IF j \in d .. d + n - 1 THEN Append(old(j), u + (j - d)) ELSE old(j)]
  BY <1>2
<1>6. \A i \in 1 .. m : new[i] = IF i \in d .. d + n - 1 THEN <<StartUnitNo + i - 1>> ELSE buffer[c][i]
  BY <1>3, <1>4, <1>5
<1>7. new = [i \in 1 .. m |-> new[i]]
  BY <1>5
<1> HIDE DEF new
<1> QED BY <1>1, <1>6, <1>7 DEF Written

LEMMA TransformsUnits ==
    ASSUME PoolInv, DataInv, NEW w \in Threads, WorkerTransforms(w)
    PROVE  DataInv'
<1>0. /\ TypeOK /\ worker[w].pc = "work" /\ Item(w).Type = "data" /\ {"free", "decrement"} \subseteq WorkerPcs
      /\ UNCHANGED <<caller, WorkItemQueue>>
  BY DEF PoolInv, WorkerTransforms, WorkerPcs, Item
<1>1. Has(w) /\ ~StopPending /\ ItemSound(w)
  BY <1>0, AfterWork, HasItem DEF Has, HasPcs
<1>2. PICK c \in Callers : InCall(worker[w].item, c)
  BY <1>0, <1>1, HasItem
<1>3. PICK p \in Slots : p = worker[w].item
  BY <1>0, <1>1, HasItem
<1>4. PICK d \in Nat, n \in Nat : d = WorkItemQueue[p].Data /\ n = WorkItemQueue[p].UnitCount
  BY <1>0 DEF TypeOK, WorkItems
<1>5. /\ WorkItemQueue[p].State = "Busy" /\ WorkItemQueue[p].owner = c /\ Left(p, c) /\ Begun(c)
      /\ WorkItemQueue[p].StartUnitNo \in Nat
  BY <1>0, <1>1, <1>2, <1>3 DEF ItemSound, HeldPcs, Item, InCall, Left, Waiting, TypeOK, WorkItems
<1>6. /\ worker'[w].pc \in {"free", "decrement"} /\ \A v \in Threads : v # w => worker'[v] = worker[v]
  BY <1>0, WorkerAt DEF WorkerTransforms, Item
<1>7. \A v \in Threads : v # w /\ worker[v].pc \in {"taken", "work"} => worker[v].item # p
  BY <1>1, <1>3 DEF PoolInv, Owned, OneWorkerEach, Has, HasPcs
<1>8. ~Waiting(p)' /\ \A s \in Slots : s # p => (Waiting(s)' <=> Waiting(s))
  <2>1. \A v \in Threads : worker'[v].pc \in {"taken", "work"} => worker[v] = worker'[v] /\ v # w
    BY <1>6
  <2>2. \A v \in Threads : v # w /\ worker[v].pc \in {"taken", "work"} => worker'[v] = worker[v]
    BY <1>6
  <2> QED BY <1>0, <1>3, <1>5, <1>7, <2>1, <2>2 DEF Waiting
<1>9. \A s \in Slots, e \in Callers : (InCall(s, e)' <=> InCall(s, e)) /\ UnitsOf(s)' = UnitsOf(s)
  BY <1>0 DEF InCall, Begun, Open, UnitsOf
<1>10. \A s \in Slots, e \in Callers : Left(s, e)' <=> Left(s, e) /\ s # p
  BY <1>8, <1>9 DEF Left
<1>11. /\ CallSound(c) /\ caller[c] \in CallerStates /\ Working(c) /\ CallFragments(c) /\ CallBuffer(c)
       /\ Open(c) /\ caller[c].pc # "idle"
  BY <1>0, <1>5 DEF PoolInv, Calls, TypeOK, DataInv, CallUnits, Begun, Working, Open
<1>12. PICK m \in Nat : m = caller[c].job.units
  BY <1>11 DEF CallerStates
<1>13. caller[c].data \in Nat /\ caller[c].data - 1 <= m
  <2>1. Rest(caller[c]) \in Nat
    <3>1. /\ caller[c].left \in Nat /\ caller[c].rem \in Nat /\ caller[c].per \in Nat /\ caller[c].rem <= caller[c].left
          /\ (caller[c].left > 0 => caller[c].per >= 1)
      BY <1>11 DEF CallerStates, CallBuffer, CallSound, Open
    <3> QED BY <3>1, RestNat
  <2>2. caller[c].data \in Nat /\ caller[c].data + Rest(caller[c]) = m + 1
    BY <1>11, <1>12 DEF CallerStates, CallBuffer
  <2> QED BY <2>1, <2>2
<1>14. UnitsOf(p) = d .. d + n - 1 /\ UnitsOf(p) \subseteq 1 .. caller[c].data - 1 /\ UnitsOf(p) \subseteq 1 .. m
  BY <1>4, <1>5, <1>11, <1>13 DEF UnitsOf, CallFragments
<1>15. WorkItemQueue[p].StartUnitNo = StartUnitNo + d - 1
  BY <1>4, <1>5, <1>11 DEF CallFragments
<1>16. \A i \in 1 .. m : buffer[c][i] = IF i < caller[c].data /\ ~InTodo(i, c) THEN <<StartUnitNo + i - 1>> ELSE <<>>
  BY <1>11, <1>12 DEF CallBuffer
<1>17. \A i \in d .. d + n - 1 : InTodo(i, c) /\ i \in 1 .. m /\ buffer[c][i] = <<>> /\ i < caller[c].data
  <2>1. \A i \in d .. d + n - 1 : InTodo(i, c) /\ i \in 1 .. m /\ i < caller[c].data
    BY <1>5, <1>13, <1>14 DEF InTodo
  <2> QED BY <1>16, <2>1
<1>18. DOMAIN buffer[c] = 1 .. m
  BY <1>11, <1>12 DEF CallBuffer
<1>19. Transform(c, d, StartUnitNo + d - 1, n)
  BY <1>3, <1>4, <1>5, <1>15 DEF WorkerTransforms
<1>20. \A e \in Callers : e # c => buffer'[e] = buffer[e]
  BY <1>0, <1>5, <1>15, <1>19, TransformTyped
<1>21. Written(c, d, n, m)
  <2>1. d .. d + n - 1 \subseteq 1 .. m
    BY <1>14
  <2>2. \A i \in d .. d + n - 1 : buffer[c][i] = <<>>
    BY <1>17
  <2>3. TypeOK
    BY <1>0
  <2> HIDE <1>4, <1>12
  <2> QED BY <1>18, <1>19, <2>1, <2>2, <2>3, TransformedUnits
<1>22. \A i \in 1 .. m : InTodo(i, c)' <=> InTodo(i, c) /\ i \notin d .. d + n - 1
  <2>1. \A s \in Slots : Left(s, c) /\ s # p => UnitsOf(s) \cap UnitsOf(p) = {}
    BY <1>5, <1>11 DEF CallFragments
  <2> QED BY <1>9, <1>10, <1>14, <2>1 DEF InTodo
<1>23. CallFragments(c)'
  BY <1>0, <1>9, <1>10, <1>11 DEF CallFragments
<1>24. CallBuffer(c)'
  <2>1. Rest(caller[c])' = Rest(caller[c])
    BY <1>0 DEF Rest
  <2>2. \A i \in 1 .. m :
           buffer'[c][i] = IF i < caller[c].data /\ ~InTodo(i, c)' THEN <<StartUnitNo + i - 1>> ELSE <<>>
    BY <1>16, <1>17, <1>21, <1>22 DEF Written
  <2> QED BY <1>0, <1>11, <1>12, <1>21, <2>1, <2>2 DEF CallBuffer, Written
<1>25. CallUnits(c)' /\ caller'[c].pc \notin {"idle", "freeFirst", "signalCompleted"}
  BY <1>0, <1>11, <1>23, <1>24 DEF CallUnits, Open
<1>26. \A s \in Slots, e \in Callers : e # c => (Left(s, e)' <=> Left(s, e))
  BY <1>2, <1>3, <1>10 DEF Left, InCall
<1> QED BY <1>0, <1>20, <1>25, <1>26, OneCallUnits

LEMMA WorkerStepUnits == ASSUME PoolInv, DataInv, NEW w \in Threads, Worker(w) PROVE DataInv'
BY PlainWorkerUnits, QueueWorkerUnits, TransformsUnits DEF Worker

LEMMA CallerStepUnits == ASSUME PoolInv, DataInv, NEW c \in Callers, CallerStep(c) \/ Call(c) PROVE DataInv'
<1>1. CASE CallerStep(c)
  BY <1>1, MovingCallerUnits, PlacingCallerUnits, FirstCallerUnits, WaitDoneUnits, EnqueueKeyUnits, EnqueueFragmentUnits
     DEF CallerStep
<1>2. CASE Call(c)
  BY <1>2, InlineUnits, DoWorkUnits DEF Call
<1> QED BY <1>1, <1>2

(* Nothing that the manager or a stuttering step changes belongs to a call. *)
LEMMA ManagerUnits ==
    ASSUME PoolInv, DataInv, UNCHANGED <<caller, buffer>>,
           \/ UNCHANGED <<WorkItemQueue, worker>>
           \/ UNCHANGED WorkItemQueue /\ \E w \in Threads : StartThread(w)
           \/ manager = "unstarted"
    PROVE  DataInv'
<1>1. \A s \in Slots, c \in Callers : (Left(s, c)' <=> Left(s, c)) /\
         (Left(s, c) => WorkItemQueue'[s] = WorkItemQueue[s])
  <2>1. CASE UNCHANGED <<WorkItemQueue, worker>>
    BY <2>1 DEF Left, InCall, Begun, Open, Waiting
  <2>2. ASSUME UNCHANGED WorkItemQueue, NEW w \in Threads, StartThread(w)
        PROVE  \A s \in Slots, c \in Callers : Left(s, c)' <=> Left(s, c)
    <3>1. /\ worker'[w].pc = "loop" /\ worker[w].pc = "none"
          /\ \A v \in Threads : v # w => worker'[v] = worker[v]
      BY <2>2 DEF StartThread, PoolInv, TypeOK, WorkerStates
    <3> QED BY <2>2, <3>1 DEF Left, InCall, Begun, Open, Waiting
  <2>3. CASE manager = "unstarted"
    <3>1. \A c \in Callers : caller[c].pc = "idle" /\ caller'[c].pc = "idle"
      BY <2>3 DEF PoolInv, Phases
    <3> QED BY <3>1 DEF Left, InCall, Begun, Open
  <2> QED BY <2>1, <2>2, <2>3
<1>2. \A c \in Callers : Working(c)' => Working(c)
  BY DEF Working, Open
<1>3. ASSUME NEW c \in Callers PROVE CallUnits(c)'
  <2>1. CallUnits(c)
    BY DEF DataInv
  <2> QED BY <1>1, <1>2, <2>1, UnitsKept
<1>4. ReturnedDataTransformed'
  BY DEF DataInv, ReturnedDataTransformed, Transformed
<1> QED BY <1>3, <1>4 DEF DataInv

LEMMA ManagerStepUnits == ASSUME PoolInv, DataInv, Manager PROVE DataInv'
<1>1. CASE StartPool
  BY <1>1, ManagerUnits DEF StartPool
<1>2. CASE StartWithoutThreads \/ StartThreadFails \/ StartReturns \/ StopPool \/ StopSignals \/ StopReturns
  BY <1>2, ManagerUnits
     DEF StartWithoutThreads, StartThreadFails, StartReturns, StopPool, StopSignals, StopReturns
<1>3. ASSUME NEW w \in Threads, StartThread(w) PROVE DataInv'
  BY <1>3, ManagerUnits DEF StartThread
<1> QED BY <1>1, <1>2, <1>3 DEF Manager

LEMMA InitUnits == ASSUME Init PROVE DataInv
<1>1. \A c \in Callers : caller[c] = IdleCaller /\ buffer[c] = <<>>
  BY DEF Init
<1>2. \A c \in Callers : ~Working(c)
  BY <1>1 DEF IdleCaller, Working, Open
<1>3. Transformed(0) = <<>>
  BY DEF Transformed
<1>4. ReturnedDataTransformed
  BY <1>1, <1>3 DEF ReturnedDataTransformed, IdleCaller
<1> QED BY <1>2, <1>4, NoUnits DEF DataInv

(* The fragments of a call are disjoint, cover its data, and what is in no waiting fragment has
   been transformed once under its own number, with any number of calls and threads at work. *)
THEOREM DataInvariant == Spec => [](PoolInv /\ DataInv)
<1>1. Init => PoolInv /\ DataInv
  BY InitKeeps, InitUnits
<1>2. PoolInv /\ DataInv /\ [Next]_vars => DataInv'
  <2> SUFFICES ASSUME PoolInv, DataInv, [Next]_vars PROVE DataInv'
    OBVIOUS
  <2>1. CASE Next
    BY <2>1, ManagerStepUnits, WorkerStepUnits, CallerStepUnits DEF Next
  <2>2. CASE UNCHANGED vars
    BY <2>2, ManagerUnits DEF vars
  <2> QED BY <2>1, <2>2
<1>3. PoolInv /\ [Next]_vars => PoolInv'
  BY PoolStep
<1> QED BY <1>1, <1>2, <1>3, PTL DEF Spec

(* When EncryptionThreadPoolDoWork has seen its completion event, every unit of its data has been
   transformed exactly once, under its own number, and nothing else has been touched. *)
THEOREM ReturnedDataIsTransformed == Spec => []ReturnedDataTransformed
<1>1. PoolInv /\ DataInv => ReturnedDataTransformed
  BY DEF DataInv
<1> QED BY <1>1, DataInvariant, PTL
=============================================================================
