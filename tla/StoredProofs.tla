--------------------------- MODULE StoredProofs ---------------------------
(***************************************************************************)
(* What is stored of a volume: the headers, the search for the key of a    *)
(* header and the pool the keys come from, for any number of passes, PRFs, *)
(* threads and workers, any size of the pool and any number of events; and *)
(* what the composition of these components (MCHiddenSystem) inherits.     *)
(*                                                                         *)
(* The key search: ReadVolumeHeader tries the key of every PRF, each under *)
(* its own name, before it reports a wrong password, and counts the        *)
(* derivations that are outstanding.                                       *)
(* The caller queues one PRF after the other, takes enqPkcs5Prf back when  *)
(* it waits for a key, and adds one after each key that does not fit.  The *)
(* PRF it will queue next (NextPrf) therefore never moves by more than the *)
(* item it queues, and every PRF before it was tested, is in an item, or   *)
(* is being tested.                                                        *)
(*                                                                         *)
(* The headers: a header lies where the headers of its volume lie, what an *)
(* operation has left behind is the new header, and only a writing that    *)
(* was cut in the middle destroys one.                                     *)
(*                                                                         *)
(* The pool: a mixing makes every cell depend on all the pool was fed, and *)
(* each output takes its bytes from a pool mixed just before.              *)
(***************************************************************************)
EXTENDS MCHiddenSystem, FiniteSetTheorems, TLAPS

ReadPcs == {"idle", "loop", "clear", "scan", "wait", "test", "finish", "returned"}
Steps == {"take", "derive", "flag", "completed", "decrement", "none"}
KeyItem == [free : BOOLEAN, ready : BOOLEAN, prf : 0 .. PrfCount, key : 0 .. PrfCount]

KeyTypes ==
    /\ readPc \in ReadPcs
    /\ enqPkcs5Prf \in Nat /\ queuedWorkItems \in Nat /\ outstanding \in Nat
    /\ threadCount \in Nat /\ headerPrf \in 0 .. PrfCount
    /\ keyItems \in [Prfs -> KeyItem]
    /\ poolQueue \in Seq(Prfs)
    /\ deriving \in [KeyWorkers -> [step : Steps, item : Nat]]

(* The PRF that is queued next, and the items that are in use. *)
NextPrf == IF readPc \in {"idle", "loop"} THEN enqPkcs5Prf ELSE enqPkcs5Prf + 1
InUse == {i \in Prfs : ~keyItems[i].free}
EnqueueBounds ==
    /\ readPc = "idle" => enqPkcs5Prf = 1
    /\ readPc = "loop" => enqPkcs5Prf \in 1 .. PrfCount + 1
    /\ readPc = "clear" => enqPkcs5Prf \in 1 .. PrfCount
    /\ readPc \in {"scan", "wait", "test"} => enqPkcs5Prf \in 0 .. PrfCount
    /\ readPc \in {"finish", "returned"} => enqPkcs5Prf \in 0 .. PrfCount + 1
    /\ outstanding <= PrfCount /\ outstanding <= NextPrf - 1

(* An item has one user: the caller between its claim and the queue, the queue, or a
   worker up to the completion flag. *)
Works(w) == deriving[w].step \in {"derive", "flag"}
Untouched(i) ==
    /\ \A n \in DOMAIN poolQueue : poolQueue[n] # i
    /\ \A w \in KeyWorkers : Works(w) => deriving[w].item # i
QueuedItems ==
    /\ \A n \in DOMAIN poolQueue : ~keyItems[poolQueue[n]].free /\ ~keyItems[poolQueue[n]].ready
    /\ \A m, n \in DOMAIN poolQueue : poolQueue[m] = poolQueue[n] => m = n
WorkedItems ==
    /\ \A w \in KeyWorkers : Works(w) =>
          /\ deriving[w].item \in Prfs
          /\ ~keyItems[deriving[w].item].free /\ ~keyItems[deriving[w].item].ready
          /\ \A n \in DOMAIN poolQueue : poolQueue[n] # deriving[w].item
    /\ \A v, w \in KeyWorkers : Works(v) /\ Works(w) /\ deriving[v].item = deriving[w].item => v = w
ClaimedItem ==
    readPc = "clear" =>
        /\ \E i \in InUse : keyItems[i].prf = enqPkcs5Prf
        /\ \A i \in InUse : keyItems[i].prf = enqPkcs5Prf => ~keyItems[i].ready /\ Untouched(i)
ItemsApart == QueuedItems /\ WorkedItems /\ ClaimedItem

(* Each item in use is for a PRF of its own, before the next one; a key that is ready, or
   tested, is of the PRF it is taken for. *)
ItemPrfs ==
    /\ \A i \in InUse : keyItems[i].prf \in 1 .. NextPrf - 1
    /\ \A i, j \in InUse : keyItems[i].prf = keyItems[j].prf => i = j
ItemKeys ==
    /\ \A w \in KeyWorkers : deriving[w].step = "flag" =>
          keyItems[deriving[w].item].key = keyItems[deriving[w].item].prf
    /\ \A i \in InUse : keyItems[i].ready => keyItems[i].key = keyItems[i].prf
    /\ readPc = "test" => dkPrf = dkClaimed

(* The two counters. *)
Claims == IF readPc = "clear" THEN 1 ELSE 0
Deriving == {w \in KeyWorkers : deriving[w].step \in {"derive", "flag", "completed", "decrement"}}
KeyCounts ==
    /\ queuedWorkItems + Claims = Cardinality(InUse)
    /\ outstanding = Len(poolQueue) + Cardinality(Deriving) + Claims

(* The PRF of the header is not passed over. *)
NotPassed ==
    readPc \in {"loop", "clear", "scan", "wait", "test"} /\ headerPrf # NoPrf =>
        \/ headerPrf >= NextPrf
        \/ \E i \in InUse : keyItems[i].prf = headerPrf
        \/ readPc = "test" /\ dkClaimed = headerPrf
ResultSound ==
    /\ readPc \notin {"finish", "returned"} => readStatus = "none"
    /\ WrongOnlyIfNoPrf

KeyInv ==
    /\ KeyTypes /\ EnqueueBounds /\ ItemsApart /\ ItemPrfs /\ ItemKeys /\ KeyCounts
    /\ NotPassed /\ ResultSound

-----------------------------------------------------------------------------
\* The tail of a queue that is not empty.
LEMMA KeyTailFacts ==
    ASSUME NEW S, NEW q \in Seq(S), q # <<>>
    PROVE  /\ Head(q) \in S /\ Head(q) = q[1] /\ 1 \in DOMAIN q
           /\ Tail(q) \in Seq(S) /\ Len(Tail(q)) = Len(q) - 1 /\ Len(q) \in Nat /\ Len(q) >= 1
           /\ \A n \in DOMAIN Tail(q) : n + 1 \in DOMAIN q /\ Tail(q)[n] = q[n + 1] /\ n \in Nat /\ n >= 1
OBVIOUS

\* Appending to a queue.
LEMMA KeyAppendFacts ==
    ASSUME NEW S, NEW q \in Seq(S), NEW x \in S
    PROVE  /\ Append(q, x) \in Seq(S) /\ Len(Append(q, x)) = Len(q) + 1 /\ Len(q) \in Nat
           /\ \A n \in DOMAIN Append(q, x) :
                 \/ n \in DOMAIN q /\ Append(q, x)[n] = q[n]
                 \/ n = Len(q) + 1 /\ Append(q, x)[n] = x
OBVIOUS

\* The sets that are counted are finite.
LEMMA KeySets ==
    ASSUME KeyTypes
    PROVE  /\ IsFiniteSet(InUse) /\ Cardinality(InUse) \in Nat /\ Cardinality(InUse) <= PrfCount
           /\ IsFiniteSet(Deriving) /\ Cardinality(Deriving) \in Nat
           /\ Len(poolQueue) \in Nat /\ Claims \in {0, 1}
<1>1. IsFiniteSet(Prfs) /\ Cardinality(Prfs) = PrfCount
  BY KeyAssumption, FS_Interval DEF Prfs
<1>2. InUse \in SUBSET Prfs /\ Deriving \in SUBSET KeyWorkers
  BY DEF InUse, Deriving
<1>3. IsFiniteSet(InUse) /\ Cardinality(InUse) <= PrfCount
  BY <1>1, <1>2, FS_Subset
<1>4. IsFiniteSet(Deriving)
  BY <1>2, KeyAssumption, FS_Subset
<1>5. Cardinality(InUse) \in Nat /\ Cardinality(Deriving) \in Nat
  BY <1>3, <1>4, FS_CardinalityType
<1> QED BY <1>3, <1>4, <1>5 DEF KeyTypes, Claims

\* The invariant holds at first.
LEMMA KeyInvInit == KeyInit => KeyInv
<1> SUFFICES ASSUME KeyInit PROVE KeyInv
  OBVIOUS
<1> USE KeyAssumption
<1>1. KeyTypes
  BY DEF KeyInit, KeyTypes, ReadPcs, Steps, KeyItem, NoItem, Resting, NoPrf, Prfs
<1>2. InUse = {} /\ Deriving = {} /\ poolQueue = <<>> /\ Claims = 0
  BY DEF KeyInit, InUse, Deriving, NoItem, Resting, Claims
<1>3. Cardinality({}) = 0
  BY FS_EmptySet
<1>4. EnqueueBounds
  BY DEF KeyInit, EnqueueBounds, NextPrf
<1>5. ItemsApart
  BY <1>2 DEF KeyInit, ItemsApart, QueuedItems, WorkedItems, ClaimedItem, Works, Resting
<1>6. ItemPrfs /\ ItemKeys
  BY <1>2 DEF KeyInit, ItemPrfs, ItemKeys, Resting
<1>7. KeyCounts
  BY <1>2, <1>3 DEF KeyInit, KeyCounts
<1>8. NotPassed /\ ResultSound
  BY DEF KeyInit, NotPassed, ResultSound, WrongOnlyIfNoPrf
<1> QED BY <1>1, <1>4, <1>5, <1>6, <1>7, <1>8 DEF KeyInv

-----------------------------------------------------------------------------
(***************************************************************************)
(* The steps of the caller.                                                *)
(***************************************************************************)
CallerOnly ==
    \/ \E n \in KeyThreadCounts, prf \in Prfs \cup {NoPrf} : ReadVolumeHeader(n, prf)
    \/ KeysQueued \/ NoKeyReady \/ AwaitKeyCompleted \/ DeriveInline \/ TestKey
    \/ AllPrfsTested \/ FinishRead

\* Steps that leave the items and the pool alone keep what is known of them.
LEMMA CallerFrame ==
    ASSUME KeyInv, CallerOnly
    PROVE  /\ UNCHANGED <<keyItems, poolQueue, deriving, outstanding, queuedWorkItems>>
           /\ readPc # "clear" /\ readPc' # "clear" /\ readPc' \in ReadPcs
           /\ InUse' = InUse /\ Deriving' = Deriving /\ Claims = 0 /\ Claims' = 0
           /\ ItemsApart' /\ KeyCounts'
<1>1. /\ UNCHANGED <<keyItems, poolQueue, deriving, outstanding, queuedWorkItems>>
      /\ readPc # "clear" /\ readPc' # "clear" /\ readPc' \in ReadPcs
  <2>1. CASE \E n \in KeyThreadCounts, prf \in Prfs \cup {NoPrf} : ReadVolumeHeader(n, prf)
    BY <2>1 DEF ReadVolumeHeader, ReadPcs, workerVars
  <2>2. CASE KeysQueued
    BY <2>2 DEF KeysQueued, ReadPcs, workerVars
  <2>3. CASE NoKeyReady \/ AwaitKeyCompleted \/ DeriveInline
    BY <2>3 DEF NoKeyReady, AwaitKeyCompleted, DeriveInline, ReadPcs, workerVars
  <2>4. CASE TestKey
    BY <2>4 DEF TestKey, KeyOutcome, ReadPcs, workerVars
  <2>5. CASE AllPrfsTested \/ FinishRead
    BY <2>5 DEF AllPrfsTested, FinishRead, ReadPcs, workerVars
  <2> QED BY <2>1, <2>2, <2>3, <2>4, <2>5 DEF CallerOnly
<1>2. InUse' = InUse /\ Deriving' = Deriving /\ Claims = 0 /\ Claims' = 0
  BY <1>1 DEF InUse, Deriving, Claims
<1>3. ItemsApart'
  BY <1>1 DEF KeyInv, ItemsApart, QueuedItems, WorkedItems, ClaimedItem, Works
<1>4. KeyCounts'
  BY <1>1, <1>2 DEF KeyInv, KeyCounts
<1> QED BY <1>1, <1>2, <1>3, <1>4

\* A step that moves the next PRF neither way passes nothing over.
LEMMA NextPrfKept ==
    ASSUME KeyInv, CallerOnly, NextPrf' = NextPrf, UNCHANGED headerPrf
    PROVE  ItemPrfs'
<1>1. UNCHANGED keyItems /\ InUse' = InUse
  BY CallerFrame
<1> QED BY <1>1 DEF KeyInv, ItemPrfs

\* The call begins: no item is in use.
LEMMA ReadStarts ==
    ASSUME KeyInv, NEW n \in KeyThreadCounts, NEW prf \in Prfs \cup {NoPrf}, ReadVolumeHeader(n, prf)
    PROVE  KeyInv'
<1> USE KeyAssumption
<1>0. CallerOnly
  BY DEF CallerOnly
<1>1. /\ UNCHANGED <<keyItems, poolQueue, deriving, outstanding, queuedWorkItems>>
      /\ readPc' \in ReadPcs /\ InUse' = InUse /\ ItemsApart' /\ KeyCounts'
  BY <1>0, CallerFrame
<1>2. /\ readPc = "idle" /\ readPc' \in {"loop", "returned"} /\ UNCHANGED enqPkcs5Prf
      /\ threadCount' = n /\ headerPrf' = prf
      /\ readPc' = "loop" => UNCHANGED readStatus
      /\ readPc' = "returned" => readStatus' = "outOfMemory"
  BY DEF ReadVolumeHeader
<1>3. KeyTypes'
  BY <1>1, <1>2 DEF KeyInv, KeyTypes, NoPrf, Prfs
<1>4. EnqueueBounds' /\ NextPrf = enqPkcs5Prf /\ NextPrf' >= NextPrf /\ NextPrf' \in Nat /\ NextPrf \in Nat
  BY <1>1, <1>2 DEF KeyInv, KeyTypes, EnqueueBounds, NextPrf
<1>5. ItemPrfs'
  <2>1. \A i \in InUse : keyItems[i].prf \in 1 .. NextPrf' - 1
    BY <1>4 DEF KeyInv, ItemPrfs
  <2> QED BY <1>1, <2>1 DEF KeyInv, ItemPrfs
<1>6. ItemKeys'
  BY <1>1, <1>2 DEF KeyInv, ItemKeys
<1>7. NotPassed'
  BY <1>2, <1>4 DEF KeyInv, NotPassed, EnqueueBounds, NextPrf, NoPrf, Prfs
<1>8. ResultSound'
  BY <1>2 DEF KeyInv, ResultSound, WrongOnlyIfNoPrf
<1> QED BY <1>1, <1>3, <1>4, <1>5, <1>6, <1>7, <1>8 DEF KeyInv

\* The caller waits for a key, or goes on after the wait: the next PRF stays the same.
LEMMA CallerWaits ==
    ASSUME KeyInv, KeysQueued \/ NoKeyReady \/ AwaitKeyCompleted
    PROVE  KeyInv'
<1> USE KeyAssumption
<1>0. CallerOnly
  BY DEF CallerOnly
<1>1. /\ UNCHANGED <<keyItems, poolQueue, deriving, outstanding, queuedWorkItems>>
      /\ readPc' \in ReadPcs /\ InUse' = InUse /\ ItemsApart' /\ KeyCounts'
  BY <1>0, CallerFrame
<1>2. /\ UNCHANGED <<threadCount, headerPrf, dkPrf, dkClaimed, readStatus>>
      /\ readPc \in {"loop", "scan", "wait"} /\ readPc' \in {"scan", "wait"}
      /\ \/ readPc = "loop" /\ enqPkcs5Prf' = enqPkcs5Prf - 1
         \/ readPc # "loop" /\ enqPkcs5Prf' = enqPkcs5Prf
  BY DEF KeysQueued, NoKeyReady, AwaitKeyCompleted, headerVars, resultVars
<1>3. /\ enqPkcs5Prf' \in 0 .. PrfCount /\ NextPrf' = NextPrf /\ NextPrf \in Nat
  BY <1>2 DEF KeyInv, KeyTypes, EnqueueBounds, NextPrf
<1>4. KeyTypes'
  BY <1>1, <1>2, <1>3 DEF KeyInv, KeyTypes
<1>5. EnqueueBounds'
  BY <1>1, <1>2, <1>3 DEF KeyInv, EnqueueBounds
<1>6. ItemPrfs'
  BY <1>0, <1>2, <1>3, NextPrfKept
<1>7. ItemKeys'
  BY <1>1, <1>2 DEF KeyInv, ItemKeys
<1>8. NotPassed' /\ ResultSound'
  BY <1>1, <1>2, <1>3 DEF KeyInv, NotPassed, ResultSound, WrongOnlyIfNoPrf
<1> QED BY <1>1, <1>4, <1>5, <1>6, <1>7, <1>8 DEF KeyInv

\* With one thread the next PRF is derived and tested at once.
LEMMA CallerDerives ==
    ASSUME KeyInv, DeriveInline
    PROVE  KeyInv'
<1> USE KeyAssumption
<1>0. CallerOnly
  BY DEF CallerOnly
<1>1. /\ UNCHANGED <<keyItems, poolQueue, deriving, outstanding, queuedWorkItems>>
      /\ readPc' \in ReadPcs /\ InUse' = InUse /\ ItemsApart' /\ KeyCounts'
  BY <1>0, CallerFrame
<1>2. /\ UNCHANGED <<enqPkcs5Prf, threadCount, headerPrf, readStatus>>
      /\ readPc = "loop" /\ readPc' = "test" /\ enqPkcs5Prf <= PrfCount
      /\ dkPrf' = enqPkcs5Prf /\ dkClaimed' = enqPkcs5Prf
  BY DEF DeriveInline, headerVars, resultVars
<1>3. /\ enqPkcs5Prf \in 1 .. PrfCount /\ NextPrf = enqPkcs5Prf /\ NextPrf' = NextPrf + 1
  BY <1>2 DEF KeyInv, KeyTypes, EnqueueBounds, NextPrf
<1>4. KeyTypes'
  BY <1>1, <1>2 DEF KeyInv, KeyTypes
<1>5. EnqueueBounds'
  BY <1>1, <1>2, <1>3 DEF KeyInv, EnqueueBounds, KeyTypes
<1>6. ItemPrfs'
  <2>1. \A i \in InUse : keyItems[i].prf \in 1 .. NextPrf' - 1
    BY <1>3 DEF KeyInv, ItemPrfs
  <2> QED BY <1>1, <2>1 DEF KeyInv, ItemPrfs
<1>7. ItemKeys'
  BY <1>1, <1>2 DEF KeyInv, ItemKeys
<1>8. NotPassed'
  BY <1>1, <1>2, <1>3 DEF KeyInv, KeyTypes, NotPassed
<1>9. ResultSound'
  BY <1>2 DEF KeyInv, ResultSound, WrongOnlyIfNoPrf
<1> QED BY <1>1, <1>4, <1>5, <1>6, <1>7, <1>8, <1>9 DEF KeyInv

\* A key that does not open the header is not of the header's PRF; one that does is.
LEMMA CallerTests ==
    ASSUME KeyInv, TestKey
    PROVE  KeyInv'
<1> USE KeyAssumption
<1>0. CallerOnly
  BY DEF CallerOnly
<1>1. /\ UNCHANGED <<keyItems, poolQueue, deriving, outstanding, queuedWorkItems>>
      /\ readPc' \in ReadPcs /\ InUse' = InUse /\ ItemsApart' /\ KeyCounts'
  BY <1>0, CallerFrame
<1>2. UNCHANGED <<threadCount, headerPrf, dkPrf, dkClaimed>> /\ readPc = "test"
  BY DEF TestKey, headerVars
<1>3. \/ /\ readPc' = "loop" /\ enqPkcs5Prf' = enqPkcs5Prf + 1 /\ dkPrf # headerPrf /\ UNCHANGED readStatus
      \/ /\ readPc' = "finish" /\ UNCHANGED enqPkcs5Prf
         /\ readStatus' = "success" => dkPrf # NoPrf /\ dkPrf = headerPrf
         /\ readStatus' # "passwordWrong"
  BY DEF TestKey, KeyOutcome
<1>4. /\ enqPkcs5Prf \in 0 .. PrfCount /\ NextPrf' = NextPrf /\ NextPrf \in Nat /\ enqPkcs5Prf' \in Nat
  BY <1>2, <1>3 DEF KeyInv, KeyTypes, EnqueueBounds, NextPrf
<1>5. KeyTypes'
  BY <1>1, <1>2, <1>4 DEF KeyInv, KeyTypes
<1>6. EnqueueBounds'
  BY <1>1, <1>2, <1>3, <1>4 DEF KeyInv, EnqueueBounds
<1>7. ItemPrfs'
  BY <1>0, <1>2, <1>4, NextPrfKept
<1>8. dkPrf = dkClaimed /\ readStatus = "none"
  BY <1>2 DEF KeyInv, ItemKeys, ResultSound
<1>9. ItemKeys'
  BY <1>1, <1>2, <1>3 DEF KeyInv, ItemKeys
<1>10. NotPassed'
  BY <1>1, <1>2, <1>3, <1>4, <1>8 DEF KeyInv, NotPassed
<1>11. ResultSound'
  BY <1>2, <1>3, <1>8 DEF ResultSound, WrongOnlyIfNoPrf
<1> QED BY <1>1, <1>5, <1>6, <1>7, <1>9, <1>10, <1>11 DEF KeyInv

\* The password is reported wrong when no PRF is left and no item is in use: then the
\* header has no PRF.
LEMMA CallerEnds ==
    ASSUME KeyInv, AllPrfsTested \/ FinishRead
    PROVE  KeyInv'
<1> USE KeyAssumption
<1>0. CallerOnly
  BY DEF CallerOnly
<1>1. /\ UNCHANGED <<keyItems, poolQueue, deriving, outstanding, queuedWorkItems>>
      /\ readPc' \in ReadPcs /\ InUse' = InUse /\ ItemsApart' /\ KeyCounts' /\ Claims = 0
  BY <1>0, CallerFrame
<1>2. /\ UNCHANGED <<enqPkcs5Prf, threadCount, headerPrf, dkPrf, dkClaimed>>
      /\ readPc \in {"loop", "finish"} /\ readPc' \in {"finish", "returned"}
      /\ readPc = "finish" => UNCHANGED readStatus
      /\ readPc = "loop" => readStatus' = "passwordWrong" /\ enqPkcs5Prf > PrfCount /\ queuedWorkItems = 0
  BY DEF AllPrfsTested, FinishRead, headerVars
<1>3. /\ enqPkcs5Prf \in 0 .. PrfCount + 1 /\ NextPrf' >= NextPrf /\ NextPrf \in Nat /\ NextPrf' \in Nat
  BY <1>2 DEF KeyInv, KeyTypes, EnqueueBounds, NextPrf
<1>4. KeyTypes'
  BY <1>1, <1>2 DEF KeyInv, KeyTypes
<1>5. EnqueueBounds'
  <2>1. outstanding \in Nat /\ outstanding <= PrfCount /\ outstanding <= NextPrf - 1
    BY DEF KeyInv, KeyTypes, EnqueueBounds
  <2>2. outstanding' <= PrfCount /\ outstanding' <= NextPrf' - 1
    <3>1. outstanding' = outstanding
      BY <1>1
    <3>2. \A k \in Nat, m, n \in Nat : k <= m - 1 /\ n >= m => k <= n - 1
      OBVIOUS
    <3> QED BY <1>3, <2>1, <3>1, <3>2
  <2> QED BY <1>2, <1>3, <2>2 DEF EnqueueBounds
<1>6. ItemPrfs'
  <2>1. \A i \in InUse : keyItems[i].prf \in 1 .. NextPrf' - 1
    BY <1>3 DEF KeyInv, ItemPrfs
  <2> QED BY <1>1, <2>1 DEF KeyInv, ItemPrfs
<1>7. ItemKeys'
  BY <1>1, <1>2 DEF KeyInv, ItemKeys
<1>8. NotPassed'
  BY <1>2 DEF NotPassed
<1>9. readPc = "loop" => headerPrf = NoPrf
  <2> SUFFICES ASSUME readPc = "loop" PROVE headerPrf = NoPrf
    OBVIOUS
  <2>0. IsFiniteSet(InUse) /\ Cardinality(InUse) \in Nat
    BY KeySets DEF KeyInv
  <2>1. Cardinality(InUse) = 0 /\ IsFiniteSet(InUse)
    BY <1>1, <1>2, <2>0 DEF KeyInv, KeyCounts
  <2>2. InUse = {}
    BY <2>1, FS_EmptySet
  <2>3. NextPrf > PrfCount
    BY <1>2 DEF NextPrf
  <2> QED BY <1>3, <2>2, <2>3 DEF KeyInv, KeyTypes, NotPassed
<1>10. ResultSound'
  BY <1>2, <1>9 DEF KeyInv, ResultSound, WrongOnlyIfNoPrf
<1> QED BY <1>1, <1>4, <1>5, <1>6, <1>7, <1>8, <1>10 DEF KeyInv

-----------------------------------------------------------------------------
(***************************************************************************)
(* The steps in which the caller claims, queues and frees an item.         *)
(***************************************************************************)
\* A free item is claimed for the next PRF; nobody else uses a free item.
LEMMA CallerClaims ==
    ASSUME KeyInv, EnqueueDerivation
    PROVE  KeyInv'
<1> USE KeyAssumption
<1>1. PICK i \in Prfs :
         /\ keyItems[i].free
         /\ keyItems' = [keyItems EXCEPT ![i] = [@ EXCEPT !.free = FALSE, !.ready = FALSE,
                                                          !.prf = enqPkcs5Prf]]
  BY DEF EnqueueDerivation
<1>2. /\ readPc = "loop" /\ readPc' = "clear" /\ enqPkcs5Prf <= PrfCount /\ outstanding' = outstanding + 1
      /\ UNCHANGED <<enqPkcs5Prf, queuedWorkItems, threadCount, headerPrf, dkPrf, dkClaimed,
                     poolQueue, deriving, readStatus>>
  BY DEF EnqueueDerivation, headerVars, workerVars, resultVars
<1>3. keyItems \in [Prfs -> KeyItem] /\ enqPkcs5Prf \in 1 .. PrfCount /\ outstanding \in Nat
  BY <1>2 DEF KeyInv, KeyTypes, EnqueueBounds
<1>4. /\ keyItems' \in [Prfs -> KeyItem]
      /\ ~keyItems'[i].free /\ ~keyItems'[i].ready /\ keyItems'[i].prf = enqPkcs5Prf
      /\ \A j \in Prfs : j # i => keyItems'[j] = keyItems[j]
  <2>1. PICK x : x = [keyItems[i] EXCEPT !.free = FALSE, !.ready = FALSE, !.prf = enqPkcs5Prf]
    OBVIOUS
  <2>2. keyItems[i] \in KeyItem /\ enqPkcs5Prf \in 0 .. PrfCount
    BY <1>3
  <2>3. x \in KeyItem /\ ~x.free /\ ~x.ready /\ x.prf = enqPkcs5Prf
    BY <2>1, <2>2 DEF KeyItem
  <2>4. keyItems' = [keyItems EXCEPT ![i] = x]
    BY <1>1, <2>1
  <2> QED BY <1>3, <2>3, <2>4
<1>5. InUse' = InUse \cup {i} /\ i \notin InUse /\ Deriving' = Deriving /\ Claims = 0 /\ Claims' = 1
  BY <1>1, <1>2, <1>4 DEF InUse, Deriving, Claims
<1>6. NextPrf = enqPkcs5Prf /\ NextPrf' = enqPkcs5Prf + 1
  BY <1>2 DEF NextPrf
<1>7. KeyTypes'
  BY <1>2, <1>3, <1>4 DEF KeyInv, KeyTypes, ReadPcs
<1>8. EnqueueBounds'
  <2>1. outstanding <= PrfCount /\ outstanding <= enqPkcs5Prf - 1
    BY <1>6 DEF KeyInv, EnqueueBounds
  <2>2. outstanding' <= PrfCount /\ outstanding' <= NextPrf' - 1
    BY <1>2, <1>3, <1>6, <2>1
  <2> QED BY <1>2, <1>3, <2>2 DEF EnqueueBounds
<1>9. Untouched(i)
  BY <1>1, <1>3 DEF KeyInv, ItemsApart, QueuedItems, WorkedItems, Untouched
<1>10. poolQueue \in Seq(Prfs) /\ \A n \in DOMAIN poolQueue : poolQueue[n] \in Prfs
  BY DEF KeyInv, KeyTypes
<1>11. QueuedItems'
  BY <1>2, <1>4, <1>9, <1>10 DEF KeyInv, ItemsApart, QueuedItems, Untouched
<1>12. WorkedItems'
  BY <1>2, <1>4, <1>9 DEF KeyInv, ItemsApart, WorkedItems, Untouched, Works
<1>13. \A j \in InUse : keyItems[j].prf < enqPkcs5Prf /\ keyItems'[j] = keyItems[j] /\ j # i
  BY <1>3, <1>4, <1>5, <1>6 DEF KeyInv, ItemPrfs, InUse
<1>14. ClaimedItem'
  <2>1. \A j \in InUse' : keyItems'[j].prf = enqPkcs5Prf' => j = i
    BY <1>2, <1>3, <1>5, <1>13
  <2>2. Untouched(i)'
    BY <1>2, <1>9 DEF Untouched, Works
  <2> QED BY <1>2, <1>4, <1>5, <2>1, <2>2 DEF ClaimedItem
<1>15. ItemPrfs'
  <2>1. \A j \in InUse : keyItems'[j].prf \in 1 .. NextPrf' - 1
    BY <1>3, <1>6, <1>13 DEF KeyInv, ItemPrfs
  <2>2. keyItems'[i].prf \in 1 .. NextPrf' - 1
    BY <1>3, <1>4, <1>6
  <2>3. \A j, k \in InUse' : keyItems'[j].prf = keyItems'[k].prf => j = k
    BY <1>3, <1>4, <1>5, <1>13 DEF KeyInv, ItemPrfs
  <2> QED BY <1>5, <2>1, <2>2, <2>3 DEF ItemPrfs
<1>16. ItemKeys'
  <2>1. \A w \in KeyWorkers : deriving[w].step = "flag" => deriving[w].item # i /\ deriving[w].item \in Prfs
    BY <1>9 DEF KeyInv, ItemsApart, WorkedItems, Untouched, Works
  <2> QED BY <1>2, <1>4, <1>5, <1>13, <2>1 DEF KeyInv, ItemKeys
<1>17. KeyCounts'
  <2>1. /\ IsFiniteSet(InUse) /\ Cardinality(InUse) \in Nat
        /\ Cardinality(Deriving) \in Nat /\ Len(poolQueue) \in Nat
    BY KeySets DEF KeyInv
  <2>2. Cardinality(InUse') = Cardinality(InUse) + 1
    BY <1>5, <2>1, FS_AddElement
  <2> QED BY <1>2, <1>3, <1>5, <2>1, <2>2 DEF KeyInv, KeyTypes, KeyCounts
<1>18. NotPassed'
  <2>1. SUFFICES ASSUME headerPrf # NoPrf PROVE headerPrf >= NextPrf' \/ \E j \in InUse' : keyItems'[j].prf = headerPrf
    BY <1>2 DEF NotPassed
  <2>2. headerPrf >= NextPrf \/ \E j \in InUse : keyItems[j].prf = headerPrf
    BY <1>2, <2>1 DEF KeyInv, NotPassed
  <2>3. headerPrf \in Nat
    BY DEF KeyInv, KeyTypes
  <2> QED BY <1>3, <1>4, <1>5, <1>6, <1>13, <2>2, <2>3
<1>19. ResultSound'
  BY <1>2 DEF KeyInv, ResultSound, WrongOnlyIfNoPrf
<1> QED BY <1>7, <1>8, <1>11, <1>12, <1>14, <1>15, <1>16, <1>17, <1>18, <1>19 DEF KeyInv, ItemsApart

\* The claimed item, the only one of its PRF, enters the queue.
LEMMA CallerQueues ==
    ASSUME KeyInv, EnqueueKeyDerivation
    PROVE  KeyInv'
<1> USE KeyAssumption
<1>1. PICK i \in Prfs : /\ ~keyItems[i].free /\ keyItems[i].prf = enqPkcs5Prf
                        /\ poolQueue' = Append(poolQueue, i)
  BY DEF EnqueueKeyDerivation
<1>2. /\ readPc = "clear" /\ queuedWorkItems' = queuedWorkItems + 1
      /\ UNCHANGED <<threadCount, headerPrf, keyItems, dkPrf, dkClaimed, outstanding, deriving, readStatus>>
      /\ \/ readPc' = "loop" /\ enqPkcs5Prf' = enqPkcs5Prf + 1
         \/ readPc' = "scan" /\ enqPkcs5Prf' = enqPkcs5Prf
  BY DEF EnqueueKeyDerivation, headerVars, resultVars
<1>3. enqPkcs5Prf \in 1 .. PrfCount /\ poolQueue \in Seq(Prfs) /\ queuedWorkItems \in Nat
  BY <1>2 DEF KeyInv, KeyTypes, EnqueueBounds
<1>4. NextPrf' = NextPrf /\ NextPrf \in Nat /\ enqPkcs5Prf' \in Nat
  BY <1>2, <1>3 DEF NextPrf
<1>5. InUse' = InUse /\ Deriving' = Deriving /\ Claims = 1 /\ Claims' = 0 /\ i \in InUse
  BY <1>1, <1>2 DEF InUse, Deriving, Claims
<1>6. ~keyItems[i].ready /\ Untouched(i)
  BY <1>1, <1>2, <1>5 DEF KeyInv, ItemsApart, ClaimedItem
<1>7. /\ poolQueue' \in Seq(Prfs) /\ Len(poolQueue') = Len(poolQueue) + 1 /\ Len(poolQueue) \in Nat
      /\ \A n \in DOMAIN poolQueue' :
            \/ n \in DOMAIN poolQueue /\ poolQueue'[n] = poolQueue[n]
            \/ n = Len(poolQueue) + 1 /\ poolQueue'[n] = i
  BY <1>1, <1>3, KeyAppendFacts
<1>8. KeyTypes'
  BY <1>2, <1>3, <1>4, <1>7 DEF KeyInv, KeyTypes, ReadPcs
<1>9. EnqueueBounds'
  BY <1>2, <1>3, <1>4 DEF KeyInv, EnqueueBounds
<1>10. QueuedItems'
  BY <1>1, <1>2, <1>6, <1>7 DEF KeyInv, ItemsApart, QueuedItems, Untouched
<1>11. WorkedItems'
  BY <1>2, <1>6, <1>7 DEF KeyInv, ItemsApart, WorkedItems, Untouched, Works
<1>12. ClaimedItem' /\ ItemPrfs' /\ ItemKeys'
  BY <1>2, <1>4, <1>5 DEF KeyInv, ClaimedItem, ItemPrfs, ItemKeys
<1>13. KeyCounts'
  <2>1. Cardinality(InUse) \in Nat /\ Cardinality(Deriving) \in Nat
    BY KeySets DEF KeyInv
  <2> QED BY <1>2, <1>3, <1>5, <1>7, <2>1 DEF KeyInv, KeyCounts
<1>14. NotPassed'
  BY <1>2, <1>4, <1>5 DEF KeyInv, NotPassed
<1>15. ResultSound'
  BY <1>2 DEF KeyInv, ResultSound, WrongOnlyIfNoPrf
<1> QED BY <1>8, <1>9, <1>10, <1>11, <1>12, <1>13, <1>14, <1>15 DEF KeyInv, ItemsApart

\* A ready key is taken and its item freed: no queue and no worker has a ready item.
LEMMA CallerTakes ==
    ASSUME KeyInv, NEW i \in Prfs, TakeKey(i)
    PROVE  KeyInv'
<1> USE KeyAssumption
<1>1. /\ readPc = "scan" /\ readPc' = "test" /\ queuedWorkItems' = queuedWorkItems - 1
      /\ ~keyItems[i].free /\ keyItems[i].ready
      /\ dkPrf' = keyItems[i].key /\ dkClaimed' = keyItems[i].prf
      /\ keyItems' = [keyItems EXCEPT ![i].free = TRUE]
      /\ UNCHANGED <<enqPkcs5Prf, threadCount, headerPrf, outstanding, poolQueue, deriving, readStatus>>
  BY DEF TakeKey, headerVars, workerVars, resultVars
<1>2. keyItems \in [Prfs -> KeyItem] /\ poolQueue \in Seq(Prfs) /\ queuedWorkItems \in Nat
  BY DEF KeyInv, KeyTypes
<1>3. /\ keyItems' \in [Prfs -> KeyItem] /\ keyItems'[i].free
      /\ \A j \in Prfs : j # i => keyItems'[j] = keyItems[j]
  BY <1>1, <1>2 DEF KeyItem
<1>4. InUse' = InUse \ {i} /\ i \in InUse /\ Deriving' = Deriving /\ Claims = 0 /\ Claims' = 0
  BY <1>1, <1>3 DEF InUse, Deriving, Claims
<1>5. NextPrf' = NextPrf
  BY <1>1 DEF NextPrf
<1>6. KeyCounts' /\ queuedWorkItems' \in Nat
  <2>1. IsFiniteSet(InUse) /\ Cardinality(InUse) \in Nat
    BY KeySets DEF KeyInv
  <2>2. Cardinality(InUse') = Cardinality(InUse) - 1 /\ IsFiniteSet(InUse')
    BY <1>4, <2>1, FS_RemoveElement
  <2>3. Cardinality(InUse') \in Nat
    BY <2>2, FS_CardinalityType
  <2> QED BY <1>1, <1>2, <1>4, <2>1, <2>2, <2>3 DEF KeyInv, KeyCounts
<1>7. KeyTypes'
  BY <1>1, <1>3, <1>6 DEF KeyInv, KeyTypes, ReadPcs
<1>8. EnqueueBounds'
  BY <1>1, <1>5 DEF KeyInv, EnqueueBounds
<1>9. /\ \A n \in DOMAIN poolQueue : poolQueue[n] # i /\ poolQueue[n] \in Prfs
      /\ \A w \in KeyWorkers : Works(w) => deriving[w].item # i
  BY <1>1, <1>2 DEF KeyInv, ItemsApart, QueuedItems, WorkedItems
<1>10. QueuedItems'
  BY <1>1, <1>3, <1>9 DEF KeyInv, ItemsApart, QueuedItems
<1>11. WorkedItems'
  BY <1>1, <1>3, <1>9 DEF KeyInv, ItemsApart, WorkedItems, Works
<1>12. ClaimedItem'
  BY <1>1 DEF ClaimedItem
<1>13. \A j \in InUse' : j \in InUse /\ keyItems'[j] = keyItems[j]
  BY <1>3, <1>4 DEF InUse
<1>14. ItemPrfs'
  BY <1>5, <1>13 DEF KeyInv, ItemPrfs
<1>15. ItemKeys'
  <2>1. \A w \in KeyWorkers : deriving[w].step = "flag" => deriving[w].item # i /\ deriving[w].item \in Prfs
    BY <1>9 DEF KeyInv, ItemsApart, WorkedItems, Works
  <2>2. keyItems[i].key = keyItems[i].prf
    BY <1>1, <1>4 DEF KeyInv, ItemKeys
  <2> QED BY <1>1, <1>3, <1>13, <2>1, <2>2 DEF KeyInv, ItemKeys
<1>16. NotPassed'
  <2>1. SUFFICES ASSUME headerPrf # NoPrf
                 PROVE  \/ headerPrf >= NextPrf \/ dkClaimed' = headerPrf
                        \/ \E j \in InUse' : keyItems'[j].prf = headerPrf
    BY <1>1, <1>5 DEF NotPassed
  <2>2. headerPrf >= NextPrf \/ \E j \in InUse : keyItems[j].prf = headerPrf
    BY <1>1, <2>1 DEF KeyInv, NotPassed
  <2> QED BY <1>1, <1>3, <1>4, <2>2 DEF InUse
<1>17. ResultSound'
  BY <1>1 DEF KeyInv, ResultSound, WrongOnlyIfNoPrf
<1> QED BY <1>6, <1>7, <1>8, <1>10, <1>11, <1>12, <1>14, <1>15, <1>16, <1>17 DEF KeyInv, ItemsApart

-----------------------------------------------------------------------------
(***************************************************************************)
(* The steps of a worker.  None of them moves the caller.                  *)
(***************************************************************************)
CallerStays ==
    UNCHANGED <<readPc, enqPkcs5Prf, queuedWorkItems, threadCount, headerPrf, dkPrf, dkClaimed, readStatus>>

\* What only depends on the caller is kept.
LEMMA CallerKept ==
    ASSUME KeyInv, CallerStays
    PROVE  ResultSound' /\ NextPrf' = NextPrf /\ Claims' = Claims
BY DEF KeyInv, CallerStays, ResultSound, WrongOnlyIfNoPrf, NextPrf, Claims

\* A step that frees or claims no item keeps the PRFs of the items.
LEMMA PrfsKept ==
    ASSUME KeyInv, CallerStays, keyItems' \in [Prfs -> KeyItem],
           \A i \in Prfs : keyItems'[i].free = keyItems[i].free /\ keyItems'[i].prf = keyItems[i].prf
    PROVE  InUse' = InUse /\ ItemPrfs' /\ NotPassed'
<1>1. InUse' = InUse
  BY DEF InUse
<1>2. \A i \in InUse : keyItems'[i].prf = keyItems[i].prf
  BY DEF InUse
<1>3. NextPrf' = NextPrf
  BY CallerKept
<1>4. ItemPrfs'
  BY <1>1, <1>2, <1>3 DEF KeyInv, ItemPrfs
<1>5. NotPassed'
  BY <1>1, <1>2, <1>3 DEF KeyInv, NotPassed, CallerStays
<1> QED BY <1>1, <1>4, <1>5

\* The head of the queue becomes the item of the worker.
LEMMA WorkerTakes ==
    ASSUME KeyInv, NEW w \in KeyWorkers, TakeDerivation(w)
    PROVE  KeyInv'
<1> USE KeyAssumption
<1>1. /\ deriving[w].step = "take" /\ poolQueue # <<>> /\ poolQueue' = Tail(poolQueue)
      /\ deriving' = [deriving EXCEPT ![w] = [step |-> "derive", item |-> Head(poolQueue)]]
      /\ UNCHANGED <<keyItems, outstanding>> /\ CallerStays
  BY DEF TakeDerivation, CallerStays, headerVars, resultVars
<1>2. /\ poolQueue \in Seq(Prfs) /\ deriving \in [KeyWorkers -> [step : Steps, item : Nat]]
      /\ keyItems \in [Prfs -> KeyItem]
  BY DEF KeyInv, KeyTypes
<1>3. /\ Head(poolQueue) \in Prfs /\ Head(poolQueue) = poolQueue[1] /\ 1 \in DOMAIN poolQueue
      /\ Tail(poolQueue) \in Seq(Prfs) /\ Len(Tail(poolQueue)) = Len(poolQueue) - 1 /\ Len(poolQueue) \in Nat
      /\ \A n \in DOMAIN Tail(poolQueue) :
            /\ n + 1 \in DOMAIN poolQueue /\ Tail(poolQueue)[n] = poolQueue[n + 1] /\ n \in Nat /\ n >= 1
  BY <1>1, <1>2, KeyTailFacts
<1>4. /\ deriving'[w].step = "derive" /\ deriving'[w].item = Head(poolQueue)
      /\ \A v \in KeyWorkers : v # w => deriving'[v] = deriving[v]
      /\ deriving' \in [KeyWorkers -> [step : Steps, item : Nat]]
  BY <1>1, <1>2, <1>3 DEF Steps, Prfs
<1>5. KeyTypes'
  BY <1>1, <1>3, <1>4 DEF KeyInv, KeyTypes, CallerStays
<1>6. EnqueueBounds'
  BY <1>1, CallerKept DEF KeyInv, EnqueueBounds, CallerStays
<1>7. \A n \in DOMAIN poolQueue' : poolQueue'[n] # Head(poolQueue)
  BY <1>1, <1>3 DEF KeyInv, ItemsApart, QueuedItems
<1>8. QueuedItems'
  <2>1. \A n \in DOMAIN poolQueue' : ~keyItems'[poolQueue'[n]].free /\ ~keyItems'[poolQueue'[n]].ready
    BY <1>1, <1>3 DEF KeyInv, ItemsApart, QueuedItems
  <2>2. \A m, n \in DOMAIN poolQueue' : poolQueue'[m] = poolQueue'[n] => m + 1 = n + 1
    BY <1>1, <1>3 DEF KeyInv, ItemsApart, QueuedItems
  <2>3. \A m, n \in DOMAIN poolQueue' : m \in Nat /\ n \in Nat
    BY <1>1, <1>3
  <2>4. \A m, n \in DOMAIN poolQueue' : poolQueue'[m] = poolQueue'[n] => m = n
    BY <2>2, <2>3
  <2> QED BY <2>1, <2>4 DEF QueuedItems
<1>9. ~keyItems[Head(poolQueue)].free /\ ~keyItems[Head(poolQueue)].ready
  BY <1>3 DEF KeyInv, ItemsApart, QueuedItems
<1>10. \A v \in KeyWorkers : Works(v) => deriving[v].item # Head(poolQueue)
  BY <1>3 DEF KeyInv, ItemsApart, WorkedItems
<1>11. \A v \in KeyWorkers : Works(v)' => v = w \/ (v # w /\ Works(v) /\ deriving'[v] = deriving[v])
  BY <1>4 DEF Works
<1>12. WorkedItems'
  <2>1. \A v \in KeyWorkers : Works(v)' =>
           /\ deriving'[v].item \in Prfs
           /\ ~keyItems'[deriving'[v].item].free /\ ~keyItems'[deriving'[v].item].ready
           /\ \A n \in DOMAIN poolQueue' : poolQueue'[n] # deriving'[v].item
    <3> SUFFICES ASSUME NEW v \in KeyWorkers, Works(v)'
                 PROVE  /\ deriving'[v].item \in Prfs
                        /\ ~keyItems'[deriving'[v].item].free /\ ~keyItems'[deriving'[v].item].ready
                        /\ \A n \in DOMAIN poolQueue' : poolQueue'[n] # deriving'[v].item
      OBVIOUS
    <3>1. CASE v = w
      BY <3>1, <1>1, <1>3, <1>4, <1>7, <1>9
    <3>2. CASE v # w
      BY <3>2, <1>1, <1>3, <1>11 DEF KeyInv, ItemsApart, WorkedItems
    <3> QED BY <3>1, <3>2
  <2>2. \A u, v \in KeyWorkers : Works(u)' /\ Works(v)' /\ deriving'[u].item = deriving'[v].item => u = v
    BY <1>4, <1>10, <1>11 DEF KeyInv, ItemsApart, WorkedItems
  <2> QED BY <2>1, <2>2 DEF WorkedItems
<1>13. ClaimedItem'
  <2>1. \A i : Untouched(i) => Untouched(i)'
    <3> SUFFICES ASSUME NEW i, Untouched(i) PROVE Untouched(i)'
      OBVIOUS
    <3>1. \A n \in DOMAIN poolQueue' : poolQueue'[n] # i
      BY <1>1, <1>3 DEF Untouched
    <3>2. \A v \in KeyWorkers : Works(v)' => deriving'[v].item # i
      BY <1>3, <1>4, <1>11 DEF Untouched
    <3> QED BY <3>1, <3>2 DEF Untouched
  <2> QED BY <1>1, <2>1 DEF KeyInv, ItemsApart, ClaimedItem, CallerStays, InUse
<1>14. InUse' = InUse /\ ItemPrfs' /\ NotPassed'
  BY <1>1, <1>2, PrfsKept
<1>15. ItemKeys'
  BY <1>1, <1>4, <1>14 DEF KeyInv, ItemKeys, CallerStays
<1>16. KeyCounts'
  <2>1. Deriving' = Deriving \cup {w} /\ w \notin Deriving
    BY <1>1, <1>4 DEF Deriving
  <2>2. IsFiniteSet(Deriving) /\ Cardinality(Deriving) \in Nat /\ Claims \in Nat
    BY KeySets DEF KeyInv
  <2>3. Cardinality(Deriving') = Cardinality(Deriving) + 1
    BY <2>1, <2>2, FS_AddElement
  <2>4. Claims' = Claims
    BY <1>1, CallerKept
  <2> QED BY <1>1, <1>3, <1>14, <2>2, <2>3, <2>4 DEF KeyInv, KeyCounts, CallerStays
<1> QED BY <1>1, <1>5, <1>6, <1>8, <1>12, <1>13, <1>14, <1>15, <1>16, CallerKept DEF KeyInv, ItemsApart

\* A step of the worker w alone.
LEMMA WorkerFrame ==
    ASSUME KeyInv, NEW w \in KeyWorkers, NEW from, NEW to \in Steps, WorkerStep(w, from, to)
    PROVE  /\ deriving[w].step = from /\ CallerStays
           /\ deriving'[w].step = to /\ deriving'[w].item = deriving[w].item
           /\ \A v \in KeyWorkers : v # w => deriving'[v] = deriving[v]
           /\ deriving' \in [KeyWorkers -> [step : Steps, item : Nat]]
<1>1. /\ deriving[w].step = from /\ CallerStays /\ deriving' = [deriving EXCEPT ![w].step = to]
  BY DEF WorkerStep, CallerStays, headerVars, resultVars
<1>2. deriving \in [KeyWorkers -> [step : Steps, item : Nat]]
  BY DEF KeyInv, KeyTypes
<1> QED BY <1>1, <1>2

\* The worker derives the key of its item with the PRF of the item.
LEMMA WorkerDerives ==
    ASSUME KeyInv, NEW w \in KeyWorkers, DeriveKey(w)
    PROVE  KeyInv'
<1> USE KeyAssumption
<1> DEFINE x == deriving[w].item
<1>0. WorkerStep(w, "derive", "flag") /\ "flag" \in Steps
  BY DEF DeriveKey, Steps
<1>1. /\ deriving[w].step = "derive" /\ CallerStays /\ deriving'[w].step = "flag" /\ deriving'[w].item = x
      /\ \A v \in KeyWorkers : v # w => deriving'[v] = deriving[v]
      /\ deriving' \in [KeyWorkers -> [step : Steps, item : Nat]]
  BY <1>0, WorkerFrame
<1>2. UNCHANGED <<outstanding, poolQueue>> /\ keyItems' = [keyItems EXCEPT ![x].key = keyItems[x].prf]
  BY DEF DeriveKey
<1>3. /\ keyItems \in [Prfs -> KeyItem] /\ poolQueue \in Seq(Prfs)
      /\ \A n \in DOMAIN poolQueue : poolQueue[n] \in Prfs
  BY DEF KeyInv, KeyTypes
<1>4. x \in Prfs /\ ~keyItems[x].ready
  BY <1>1 DEF KeyInv, ItemsApart, WorkedItems, Works
<1>5. keyItems[x] \in KeyItem /\ keyItems[x].prf \in 0 .. PrfCount
  BY <1>3, <1>4 DEF KeyItem
<1>6. /\ keyItems' \in [Prfs -> KeyItem] /\ keyItems'[x].key = keyItems[x].prf
      /\ \A i \in Prfs : /\ keyItems'[i].free = keyItems[i].free /\ keyItems'[i].prf = keyItems[i].prf
                         /\ keyItems'[i].ready = keyItems[i].ready
      /\ \A i \in Prfs : i # x => keyItems'[i] = keyItems[i]
  BY <1>2, <1>3, <1>4, <1>5 DEF KeyItem
<1> HIDE DEF x
<1>7. KeyTypes'
  BY <1>1, <1>2, <1>6 DEF KeyInv, KeyTypes, CallerStays
<1>8. EnqueueBounds'
  BY <1>1, <1>2, CallerKept DEF KeyInv, EnqueueBounds, CallerStays
<1>9. \A v \in KeyWorkers : (Works(v)' <=> Works(v)) /\ deriving'[v].item = deriving[v].item
  BY <1>1 DEF Works, x
<1>10. QueuedItems'
  BY <1>2, <1>3, <1>6 DEF KeyInv, ItemsApart, QueuedItems
<1>11. WorkedItems'
  <2>1. \A v \in KeyWorkers : Works(v) =>
           /\ deriving[v].item \in Prfs
           /\ ~keyItems[deriving[v].item].free /\ ~keyItems[deriving[v].item].ready
           /\ \A n \in DOMAIN poolQueue : poolQueue[n] # deriving[v].item
    BY DEF KeyInv, ItemsApart, WorkedItems
  <2>2. \A v \in KeyWorkers : Works(v)' =>
           /\ deriving'[v].item \in Prfs
           /\ ~keyItems'[deriving'[v].item].free /\ ~keyItems'[deriving'[v].item].ready
           /\ \A n \in DOMAIN poolQueue' : poolQueue'[n] # deriving'[v].item
    BY <1>2, <1>6, <1>9, <2>1
  <2>3. \A u, v \in KeyWorkers : Works(u)' /\ Works(v)' /\ deriving'[u].item = deriving'[v].item => u = v
    BY <1>9 DEF KeyInv, ItemsApart, WorkedItems
  <2> QED BY <2>2, <2>3 DEF WorkedItems
<1>12. InUse' = InUse /\ ItemPrfs' /\ NotPassed' /\ InUse \subseteq Prfs
  BY <1>1, <1>6, PrfsKept DEF InUse
<1>13. ClaimedItem'
  <2>1. \A i : Untouched(i) => Untouched(i)'
    BY <1>2, <1>9 DEF Untouched
  <2> QED BY <1>1, <1>6, <1>12, <2>1 DEF KeyInv, ItemsApart, ClaimedItem, CallerStays
<1>14. ItemKeys'
  <2>1. \A v \in KeyWorkers : deriving'[v].step = "flag" =>
           keyItems'[deriving'[v].item].key = keyItems'[deriving'[v].item].prf
    <3> SUFFICES ASSUME NEW v \in KeyWorkers, deriving'[v].step = "flag"
                 PROVE  keyItems'[deriving'[v].item].key = keyItems'[deriving'[v].item].prf
      OBVIOUS
    <3>1. CASE v = w
      BY <3>1, <1>1, <1>4, <1>6
    <3>2. CASE v # w
      <4>1. deriving[v].step = "flag" /\ deriving'[v].item = deriving[v].item
        BY <3>2, <1>1
      <4>2. Works(v) /\ Works(w)
        BY <1>1, <4>1 DEF Works
      <4>3. deriving[v].item \in Prfs /\ deriving[v].item # x
        BY <3>2, <4>2 DEF KeyInv, ItemsApart, WorkedItems, x
      <4> QED BY <1>6, <4>1, <4>3 DEF KeyInv, ItemKeys
    <3> QED BY <3>1, <3>2
  <2>2. \A i \in InUse' : keyItems'[i].ready => keyItems'[i].key = keyItems'[i].prf
    BY <1>4, <1>6, <1>12 DEF KeyInv, ItemKeys
  <2> QED BY <1>1, <2>1, <2>2 DEF KeyInv, ItemKeys, CallerStays
<1>15. KeyCounts'
  <2>1. Deriving' = Deriving
    BY <1>1 DEF Deriving
  <2> QED BY <1>1, <1>2, <1>12, <2>1, CallerKept DEF KeyInv, KeyCounts, CallerStays
<1> QED BY <1>1, <1>7, <1>8, <1>10, <1>11, <1>12, <1>13, <1>14, <1>15, CallerKept DEF KeyInv, ItemsApart

\* The flag makes the key of the item available; the worker does not use the item any more.
LEMMA WorkerFlags ==
    ASSUME KeyInv, NEW w \in KeyWorkers, SetCompletionFlag(w)
    PROVE  KeyInv'
<1> USE KeyAssumption
<1> DEFINE x == deriving[w].item
<1>0. WorkerStep(w, "flag", "completed") /\ "completed" \in Steps
  BY DEF SetCompletionFlag, Steps
<1>1. /\ deriving[w].step = "flag" /\ CallerStays /\ deriving'[w].step = "completed" /\ deriving'[w].item = x
      /\ \A v \in KeyWorkers : v # w => deriving'[v] = deriving[v]
      /\ deriving' \in [KeyWorkers -> [step : Steps, item : Nat]]
  BY <1>0, WorkerFrame
<1>2. UNCHANGED <<outstanding, poolQueue>> /\ keyItems' = [keyItems EXCEPT ![x].ready = TRUE]
  BY DEF SetCompletionFlag
<1>3. /\ keyItems \in [Prfs -> KeyItem] /\ poolQueue \in Seq(Prfs)
      /\ \A n \in DOMAIN poolQueue : poolQueue[n] \in Prfs
  BY DEF KeyInv, KeyTypes
<1>4. /\ x \in Prfs /\ \A n \in DOMAIN poolQueue : poolQueue[n] # x
      /\ keyItems[x].key = keyItems[x].prf
      /\ \A v \in KeyWorkers : Works(v) /\ v # w => deriving[v].item # x
  BY <1>1 DEF KeyInv, ItemsApart, WorkedItems, Works, ItemKeys
<1>5. keyItems[x] \in KeyItem
  BY <1>3, <1>4
<1>6. /\ keyItems' \in [Prfs -> KeyItem]
      /\ \A i \in Prfs : /\ keyItems'[i].free = keyItems[i].free /\ keyItems'[i].prf = keyItems[i].prf
                         /\ keyItems'[i].key = keyItems[i].key
      /\ \A i \in Prfs : i # x => keyItems'[i] = keyItems[i]
  BY <1>2, <1>3, <1>4, <1>5 DEF KeyItem
<1> HIDE DEF x
<1>7. KeyTypes'
  BY <1>1, <1>2, <1>6 DEF KeyInv, KeyTypes, CallerStays
<1>8. EnqueueBounds'
  BY <1>1, <1>2, CallerKept DEF KeyInv, EnqueueBounds, CallerStays
<1>9. \A v \in KeyWorkers : Works(v)' => Works(v) /\ v # w /\ deriving'[v] = deriving[v]
  BY <1>1 DEF Works
<1>10. QueuedItems'
  BY <1>2, <1>3, <1>4, <1>6 DEF KeyInv, ItemsApart, QueuedItems
<1>11. WorkedItems'
  <2>1. \A v \in KeyWorkers : Works(v) =>
           /\ deriving[v].item \in Prfs
           /\ ~keyItems[deriving[v].item].free /\ ~keyItems[deriving[v].item].ready
           /\ \A n \in DOMAIN poolQueue : poolQueue[n] # deriving[v].item
    BY DEF KeyInv, ItemsApart, WorkedItems
  <2>2. \A v \in KeyWorkers : Works(v)' =>
           /\ deriving'[v].item \in Prfs
           /\ ~keyItems'[deriving'[v].item].free /\ ~keyItems'[deriving'[v].item].ready
           /\ \A n \in DOMAIN poolQueue' : poolQueue'[n] # deriving'[v].item
    BY <1>2, <1>4, <1>6, <1>9, <2>1
  <2>3. \A u, v \in KeyWorkers : Works(u)' /\ Works(v)' /\ deriving'[u].item = deriving'[v].item => u = v
    BY <1>9 DEF KeyInv, ItemsApart, WorkedItems
  <2> QED BY <2>2, <2>3 DEF WorkedItems
<1>12. InUse' = InUse /\ ItemPrfs' /\ NotPassed' /\ InUse \subseteq Prfs
  BY <1>1, <1>6, PrfsKept DEF InUse
<1>13. ClaimedItem'
  <2>1. \A i : Untouched(i) => Untouched(i)' /\ i # x
    BY <1>1, <1>2, <1>9 DEF Untouched, Works, x
  <2> QED BY <1>1, <1>6, <1>12, <2>1 DEF KeyInv, ItemsApart, ClaimedItem, CallerStays
<1>14. ItemKeys'
  <2>1. \A v \in KeyWorkers : deriving'[v].step = "flag" =>
           keyItems'[deriving'[v].item].key = keyItems'[deriving'[v].item].prf
    <3> SUFFICES ASSUME NEW v \in KeyWorkers, deriving'[v].step = "flag"
                 PROVE  keyItems'[deriving'[v].item].key = keyItems'[deriving'[v].item].prf
      OBVIOUS
    <3>1. deriving'[v] = deriving[v] /\ Works(v)
      BY <1>1 DEF Works
    <3>2. deriving[v].item \in Prfs
      BY <3>1 DEF KeyInv, ItemsApart, WorkedItems
    <3> QED BY <1>6, <3>1, <3>2 DEF KeyInv, ItemKeys
  <2>2. \A i \in InUse' : keyItems'[i].ready => keyItems'[i].key = keyItems'[i].prf
    BY <1>4, <1>6, <1>12 DEF KeyInv, ItemKeys
  <2> QED BY <1>1, <2>1, <2>2 DEF KeyInv, ItemKeys, CallerStays
<1>15. KeyCounts'
  <2>1. Deriving' = Deriving
    BY <1>1 DEF Deriving
  <2> QED BY <1>1, <1>2, <1>12, <2>1, CallerKept DEF KeyInv, KeyCounts, CallerStays
<1> QED BY <1>1, <1>7, <1>8, <1>10, <1>11, <1>12, <1>13, <1>14, <1>15, CallerKept DEF KeyInv, ItemsApart

\* The steps of a worker after the flag touch only the events and the counter.
LEMMA WorkerSignals ==
    ASSUME KeyInv, NEW w \in KeyWorkers,
           SetCompletionEvent(w) \/ DecrementOutstanding(w) \/ SetNoOutstanding(w)
    PROVE  KeyInv'
<1> USE KeyAssumption
<1>1. PICK from \in {"completed", "decrement", "none"}, to \in {"decrement", "none", "take"} :
         /\ WorkerStep(w, from, to) /\ UNCHANGED <<keyItems, poolQueue>>
         /\ \/ from = "decrement" /\ to # "decrement" /\ outstanding' = outstanding - 1
            \/ from = "completed" /\ to = "decrement" /\ outstanding' = outstanding
            \/ from = "none" /\ to = "take" /\ outstanding' = outstanding
  <2>1. CASE SetCompletionEvent(w)
    BY <2>1 DEF SetCompletionEvent
  <2>2. CASE DecrementOutstanding(w)
    <3>1. CASE outstanding = 1
      BY <2>2, <3>1 DEF DecrementOutstanding
    <3>2. CASE outstanding # 1
      BY <2>2, <3>2 DEF DecrementOutstanding
    <3> QED BY <3>1, <3>2
  <2>3. CASE SetNoOutstanding(w)
    BY <2>3 DEF SetNoOutstanding
  <2> QED BY <2>1, <2>2, <2>3
<1>2. /\ deriving[w].step = from /\ CallerStays /\ deriving'[w].step = to
      /\ \A v \in KeyWorkers : v # w => deriving'[v] = deriving[v]
      /\ deriving' \in [KeyWorkers -> [step : Steps, item : Nat]]
  BY <1>1, WorkerFrame, ZenonT(60) DEF Steps
<1>3. \A v \in KeyWorkers : /\ Works(v)' <=> Works(v)
                            /\ Works(v) => deriving'[v] = deriving[v]
                            /\ deriving'[v].step = "flag" => deriving'[v] = deriving[v]
  BY <1>1, <1>2 DEF Works
<1>4. /\ Cardinality(InUse) \in Nat /\ IsFiniteSet(Deriving) /\ Cardinality(Deriving) \in Nat
      /\ Len(poolQueue) \in Nat /\ Claims \in Nat /\ outstanding \in Nat
  BY KeySets DEF KeyInv, KeyTypes
<1>5. /\ outstanding' \in Nat /\ outstanding' <= outstanding
      /\ outstanding' = Len(poolQueue) + Cardinality(Deriving') + Claims
  <2>1. CASE from = "decrement" /\ to # "decrement" /\ outstanding' = outstanding - 1
    <3>1. Deriving' = Deriving \ {w} /\ w \in Deriving
      BY <1>1, <1>2, <2>1 DEF Deriving
    <3>2. Cardinality(Deriving') = Cardinality(Deriving) - 1 /\ IsFiniteSet(Deriving')
      BY <1>4, <3>1, FS_RemoveElement
    <3>3. Cardinality(Deriving') \in Nat
      BY <3>2, FS_CardinalityType
    <3>4. outstanding = Len(poolQueue) + Cardinality(Deriving) + Claims
      BY DEF KeyInv, KeyCounts
    <3> QED BY <1>4, <2>1, <3>2, <3>3, <3>4, SMTT(60)
  <2>2. CASE from = "completed" /\ to = "decrement" /\ outstanding' = outstanding
    <3>1. Deriving' = Deriving
      BY <1>2, <2>2 DEF Deriving
    <3>2. outstanding = Len(poolQueue) + Cardinality(Deriving) + Claims
      BY DEF KeyInv, KeyCounts
    <3> QED BY <1>4, <2>2, <3>1, <3>2
  <2>3. CASE from = "none" /\ to = "take" /\ outstanding' = outstanding
    <3>1. Deriving' = Deriving
      BY <1>2, <2>3 DEF Deriving
    <3>2. outstanding = Len(poolQueue) + Cardinality(Deriving) + Claims
      BY DEF KeyInv, KeyCounts
    <3> QED BY <1>4, <2>3, <3>1, <3>2
  <2>4. \/ from = "decrement" /\ to # "decrement" /\ outstanding' = outstanding - 1
        \/ from = "completed" /\ to = "decrement" /\ outstanding' = outstanding
        \/ from = "none" /\ to = "take" /\ outstanding' = outstanding
    BY <1>1
  <2> QED BY <2>1, <2>2, <2>3, <2>4
<1>6. KeyTypes'
  BY <1>1, <1>2, <1>5 DEF KeyInv, KeyTypes, CallerStays
<1>7. EnqueueBounds'
  <2>1. outstanding <= PrfCount /\ outstanding <= NextPrf - 1 /\ NextPrf \in Nat
    BY DEF KeyInv, KeyTypes, EnqueueBounds, NextPrf
  <2>2. NextPrf' = NextPrf
    BY <1>2, CallerKept
  <2>3. outstanding' <= PrfCount /\ outstanding' <= NextPrf' - 1
    BY <1>4, <1>5, <2>1, <2>2
  <2> QED BY <1>2, <2>3 DEF KeyInv, EnqueueBounds, CallerStays
<1>8. QueuedItems'
  BY <1>1 DEF KeyInv, ItemsApart, QueuedItems
<1>9. WorkedItems'
  BY <1>1, <1>3 DEF KeyInv, ItemsApart, WorkedItems
<1>10. InUse' = InUse /\ ItemPrfs' /\ NotPassed'
  <2>1. keyItems' \in [Prfs -> KeyItem]
    BY <1>1 DEF KeyInv, KeyTypes
  <2> QED BY <1>1, <1>2, <2>1, PrfsKept
<1>11. ClaimedItem'
  <2>1. \A i : Untouched(i) => Untouched(i)'
    BY <1>1, <1>3 DEF Untouched
  <2> QED BY <1>1, <1>2, <1>10, <2>1 DEF KeyInv, ItemsApart, ClaimedItem, CallerStays
<1>12. ItemKeys'
  BY <1>1, <1>2, <1>3, <1>10 DEF KeyInv, ItemKeys, CallerStays
<1>13. KeyCounts'
  BY <1>1, <1>2, <1>5, <1>10, CallerKept DEF KeyInv, KeyCounts, CallerStays
<1> QED BY <1>2, <1>6, <1>7, <1>8, <1>9, <1>10, <1>11, <1>12, <1>13, CallerKept DEF KeyInv, ItemsApart

-----------------------------------------------------------------------------
\* The invariant is inductive.
LEMMA KeyInvStep == KeyInv /\ [KeyNext]_keyVars => KeyInv'
<1> SUFFICES ASSUME KeyInv, [KeyNext]_keyVars PROVE KeyInv'
  OBVIOUS
<1>1. CASE CallerNext
  BY <1>1, ReadStarts, CallerWaits, CallerDerives, CallerTests, CallerEnds, CallerClaims,
     CallerQueues, CallerTakes DEF CallerNext
<1>2. ASSUME NEW w \in KeyWorkers, WorkerNext(w) PROVE KeyInv'
  BY <1>2, WorkerTakes, WorkerDerives, WorkerFlags, WorkerSignals DEF WorkerNext
<1>3. CASE UNCHANGED keyVars
  <2>1. /\ CallerStays /\ UNCHANGED <<keyItems, poolQueue, deriving, outstanding>>
    BY <1>3 DEF keyVars, CallerStays
  <2>2. keyItems' \in [Prfs -> KeyItem] /\ KeyTypes'
    BY <2>1 DEF KeyInv, KeyTypes, CallerStays
  <2>3. InUse' = InUse /\ Deriving' = Deriving /\ ItemPrfs' /\ NotPassed'
    BY <2>1, <2>2, PrfsKept DEF Deriving
  <2>4. EnqueueBounds' /\ KeyCounts'
    BY <2>1, <2>3, CallerKept DEF KeyInv, EnqueueBounds, KeyCounts, CallerStays
  <2>5. QueuedItems' /\ WorkedItems' /\ ItemKeys'
    BY <2>1, <2>3 DEF KeyInv, ItemsApart, QueuedItems, WorkedItems, Works, ItemKeys, CallerStays
  <2>6. ClaimedItem'
    BY <2>1, <2>3 DEF KeyInv, ItemsApart, ClaimedItem, Untouched, Works, CallerStays
  <2> QED BY <2>1, <2>2, <2>3, <2>4, <2>5, <2>6, CallerKept DEF KeyInv, ItemsApart
<1> QED BY <1>1, <1>2, <1>3 DEF KeyNext

(* The inductive invariant of the search for the header key, for any number of PRFs,
   threads and workers (ReadVolumeHeader with EncryptionThreadPoolBeginKeyDerivation). *)
THEOREM KeySearchInvariant == KeySpec => []KeyInv
<1>1. KeyInit => KeyInv
  BY KeyInvInit
<1>2. KeyInv /\ [KeyNext]_keyVars => KeyInv'
  BY KeyInvStep
<1> QED BY <1>1, <1>2, PTL DEF KeySpec

\* The invariant implies what is promised of the keys.
LEMMA KeyInvSound == KeyInv => KeysSound
<1> SUFFICES ASSUME KeyInv PROVE KeysSound
  OBVIOUS
<1> USE KeyAssumption
<1>1. /\ Cardinality(InUse) \in Nat /\ Cardinality(InUse) <= PrfCount
      /\ Cardinality(Deriving) \in Nat /\ Len(poolQueue) \in Nat /\ Claims \in Nat
  BY KeySets DEF KeyInv
<1>2. KeyTypeOK
  <2>1. queuedWorkItems \in 0 .. PrfCount
    BY <1>1 DEF KeyInv, KeyTypes, KeyCounts
  <2>2. enqPkcs5Prf \in 0 .. PrfCount + 1
    BY DEF KeyInv, KeyTypes, EnqueueBounds, ReadPcs
  <2>3. outstanding \in 0 .. PrfCount
    BY DEF KeyInv, KeyTypes, EnqueueBounds
  <2> QED BY <2>1, <2>2, <2>3 DEF KeyTypeOK, KeyInv, KeyTypes, ReadPcs, KeyItem
<1>3. KeyIsOfItsPrf /\ WrongOnlyIfNoPrf
  BY DEF KeyInv, ItemKeys, KeyIsOfItsPrf, ResultSound
<1>4. OutstandingCovers
  BY <1>1 DEF KeyInv, KeyCounts, Deriving, OutstandingCovers
<1> QED BY <1>2, <1>3, <1>4 DEF KeysSound

(* For any number of PRFs, threads and workers: a key is tested under the name of the PRF
   it was derived with, the password is reported wrong only if no PRF opens the header,
   and the counter covers the derivations that are under way (ReadVolumeHeader). *)
THEOREM KeysAreSound == KeySpec => []KeysSound
BY KeySearchInvariant, KeyInvSound, PTL

-----------------------------------------------------------------------------

(***************************************************************************)
(* The headers of a volume and the operations that rewrite them.           *)
(***************************************************************************)
HeaderLayouts == {"none", "current", "legacy", "inPlace"}
HeaderOps == {"idle", "change", "restoreInternal", "restoreExternal", "backup", "done"}
Rewriting == {"change", "restoreInternal", "restoreExternal"}
Headers == [pwd : HeaderPasswords, kind : Kinds]
HopStates == [op : HeaderOps, kind : Kinds \cup {"none"}, old : HeaderPasswords \cup {"none"},
              new : HeaderPasswords \cup {"none"}, copy : {"primary", "backup"},
              pass : 0 .. HeaderPasses, status : {"none", "success", "error"}]
HdrTypes ==
    /\ layout \in HeaderLayouts /\ kinds \in SUBSET Kinds
    /\ slots \in [HeaderSlots -> {Junk} \cup Headers]
    /\ backupFile \in [state : {"none", "empty", "written"}, outer : {Junk} \cup Headers, hidden : {Junk} \cup Headers]
    /\ hop \in HopStates /\ interrupted \in SUBSET kinds /\ torn \in Nat /\ headerOps \in Nat
\* A header is where the headers of its volume are, on the host and in the external backup.
PlaceInv ==
    /\ layout = "none" => kinds = {}
    /\ layout = "inPlace" => kinds \subseteq {"outer"}
    /\ \A s \in HeaderSlots : slots[s] # Junk =>
          slots[s].kind \in kinds /\ \E c \in Copies : s = SlotOf(slots[s].kind, c)
    /\ backupFile.outer # Junk => backupFile.outer.kind = "outer" /\ "outer" \in kinds
    /\ backupFile.hidden # Junk => backupFile.hidden.kind = "hidden" /\ "hidden" \in kinds
\* An operation rewrites a volume of the host, with a password; a copy it has left behind
\* is the new one, and so is the backup that the primary header is restored from.
OpInv ==
    /\ hop.op = "idle" => hop = Idle
    /\ hop.op = "backup" => /\ hop.kind = "none" /\ hop.old \in HeaderPasswords
                            /\ "outer" \in kinds /\ (hop.new # "none" => "hidden" \in kinds)
    /\ hop.kind # "none" => hop.kind \in kinds /\ hop.new \in HeaderPasswords
    /\ hop.op \in Rewriting => /\ hop.kind # "none" /\ hop.pass < Passes /\ hop.status = "none"
                               /\ hop.copy = "backup" => hop.op # "restoreInternal" /\ layout # "legacy"
                               /\ hop.copy = "backup" => slots[SlotOf(hop.kind, "primary")] = HeaderWith(hop.new, hop.kind)
    /\ hop.op = "restoreInternal" => /\ layout # "legacy" /\ hop.old = "none"
                                     /\ slots[SlotOf(hop.kind, "backup")] = HeaderWith(hop.new, hop.kind)
    /\ hop.op = "done" /\ hop.kind # "none" =>
          \/ hop.status = "error" /\ hop.kind \in interrupted
          \/ hop.status = "success" /\ \A c \in Copies : slots[SlotOf(hop.kind, c)] = HeaderWith(hop.new, hop.kind)
\* Only writings that were cut in the middle destroy headers, one each.
TornInv ==
    /\ torn = 0 => \A k \in kinds : \A c \in Copies : slots[SlotOf(k, c)] # Junk
    /\ torn = 1 /\ layout # "legacy" => \A k \in kinds : \E c \in Copies : slots[SlotOf(k, c)] # Junk
HeadersInv == HdrTypes /\ PlaceInv /\ OpInv /\ TornInv /\ CopiesAgree

\* Where the headers of a volume are.
LEMMA SlotTable == ASSUME NEW l \in HeaderLayouts PROVE
    /\ SlotIn(l, "outer", "primary") = "normal" /\ SlotIn(l, "outer", "backup") = "backupNormal"
    /\ SlotIn(l, "hidden", "backup") = "backupHidden"
    /\ l = "legacy" => SlotIn(l, "hidden", "primary") = "hiddenLegacy"
    /\ l # "legacy" => SlotIn(l, "hidden", "primary") = "hidden"
    /\ HeaderCopies(l) \subseteq {"primary", "backup"} /\ "primary" \in HeaderCopies(l)
    /\ "backup" \in HeaderCopies(l) <=> l # "legacy"
BY DEF SlotIn, HeaderCopies, HeaderLayouts

LEMMA SlotTyped == ASSUME NEW l \in HeaderLayouts, NEW k \in Kinds, NEW c \in {"primary", "backup"}
                   PROVE SlotIn(l, k, c) \in HeaderSlots
BY DEF SlotIn, HeaderSlots, Kinds

\* No place belongs to two volumes or to two copies.
LEMMA SlotsDiffer ==
    ASSUME NEW l \in HeaderLayouts, NEW k \in Kinds, NEW m \in Kinds, NEW c \in {"primary", "backup"},
           NEW d \in {"primary", "backup"}, SlotIn(l, k, c) = SlotIn(l, m, d)
    PROVE k = m /\ c = d
BY DEF SlotIn, Kinds

LEMMA HeaderIsNoJunk == ASSUME NEW p \in HeaderPasswords, NEW k PROVE HeaderWith(p, k) # Junk
BY HeaderAssumption DEF HeaderWith, Junk

\* What a password opens is a header of the volume that is reported.
LEMMA OpenedHeader ==
    ASSUME HdrTypes, PlaceInv, NEW s \in HeaderSlots, NEW p \in HeaderPasswords, OpensAt(s, p)
    PROVE slots[s].kind \in kinds /\ slots[s] = HeaderWith(p, slots[s].kind)
          /\ \E c \in Copies : s = SlotOf(slots[s].kind, c)
<1>1. slots[s] # Junk
  BY HeaderAssumption DEF OpensAt, Junk
<1>2. slots[s] \in Headers
  BY <1>1 DEF HdrTypes
<1> QED BY <1>1, <1>2 DEF PlaceInv, OpensAt, HeaderWith, Headers

LEMMA OpenPrimaryKind ==
    ASSUME HdrTypes, PlaceInv, NEW p \in HeaderPasswords, OpenPrimary(p) # "none" PROVE OpenPrimary(p) \in kinds
<1> DEFINE order == <<"normal", "hidden", "hiddenLegacy">>
           First(i) == OpensAt(order[i], p) /\ \A j \in 1 .. i - 1 : ~OpensAt(order[j], p)
<1>1. \E i \in DOMAIN order : OpensAt(order[i], p)
  BY DEF OpenPrimary, FirstOpen
<1>2. \E i \in DOMAIN order : First(i)
  <2>1. CASE OpensAt("normal", p)
    <3>1. First(1)
      BY <2>1
    <3> QED BY <3>1
  <2>2. CASE ~OpensAt("normal", p) /\ OpensAt("hidden", p)
    <3>1. First(2)
      BY <2>2
    <3> QED BY <3>1
  <2>3. CASE ~OpensAt("normal", p) /\ ~OpensAt("hidden", p) /\ OpensAt("hiddenLegacy", p)
    <3>1. First(3)
      BY <2>3
    <3> QED BY <3>1
  <2> QED BY <1>1, <2>1, <2>2, <2>3
<1> DEFINE i == CHOOSE x \in DOMAIN order : First(x)
<1>3. i \in DOMAIN order /\ First(i)
  BY <1>2
<1>4. OpenPrimary(p) = slots[order[i]].kind
  BY <1>1 DEF OpenPrimary, FirstOpen
<1>5. order[i] \in HeaderSlots
  BY <1>3 DEF HeaderSlots
<1> HIDE DEF i
<1> QED BY <1>3, <1>4, <1>5, OpenedHeader

LEMMA OpenBackupKind ==
    ASSUME HdrTypes, PlaceInv, NEW p \in HeaderPasswords, OpenBackup(p) # "none"
    PROVE OpenBackup(p) \in kinds /\ slots[SlotOf(OpenBackup(p), "backup")] = HeaderWith(p, OpenBackup(p))
<1> DEFINE order == <<"backupNormal", "backupHidden">>
           First(i) == OpensAt(order[i], p) /\ \A j \in 1 .. i - 1 : ~OpensAt(order[j], p)
<1>1. \E i \in DOMAIN order : OpensAt(order[i], p)
  BY DEF OpenBackup, FirstOpen
<1>2. \E i \in DOMAIN order : First(i)
  <2>1. CASE OpensAt("backupNormal", p)
    <3>1. First(1)
      BY <2>1
    <3> QED BY <3>1
  <2>2. CASE ~OpensAt("backupNormal", p) /\ OpensAt("backupHidden", p)
    <3>1. First(2)
      BY <2>2
    <3> QED BY <3>1
  <2> QED BY <1>1, <2>1, <2>2
<1> DEFINE i == CHOOSE x \in DOMAIN order : First(x)
<1>3. i \in DOMAIN order /\ First(i)
  BY <1>2
<1>4. OpenBackup(p) = slots[order[i]].kind
  BY <1>1 DEF OpenBackup, FirstOpen
<1>5. order[i] \in {"backupNormal", "backupHidden"}
  BY <1>3
<1>6. PICK s \in {"backupNormal", "backupHidden"} : OpensAt(s, p) /\ OpenBackup(p) = slots[s].kind
  BY <1>3, <1>4, <1>5
<1>7. /\ slots[s].kind \in kinds /\ slots[s] = HeaderWith(p, slots[s].kind)
      /\ \E c \in Copies : s = SlotOf(slots[s].kind, c)
  BY <1>6, OpenedHeader DEF HeaderSlots
<1>8. \A k \in Kinds : \A c \in Copies : s = SlotOf(k, c) => c = "backup"
  BY SlotTable DEF HdrTypes, Copies, SlotOf, Kinds
<1>9. slots[s].kind \in Kinds
  BY <1>7 DEF HdrTypes
<1> QED BY <1>6, <1>7, <1>8, <1>9

LEMMA OpenFileKind ==
    ASSUME HdrTypes, PlaceInv, NEW p \in HeaderPasswords, OpenBackupFile(p) # "none" PROVE OpenBackupFile(p) \in kinds
BY HeaderAssumption DEF OpenBackupFile, HdrTypes, PlaceInv, Junk

-----------------------------------------------------------------------------
LEMMA HeadersInit == HInit => HeadersInv
<1> SUFFICES ASSUME HInit PROVE HeadersInv
  OBVIOUS
<1>1. HdrTypes
  BY HeaderAssumption DEF HInit, HdrTypes, HopStates, Idle, HeaderLayouts, HeaderOps, Kinds
<1>2. PlaceInv
  BY DEF HInit, PlaceInv
<1>3. OpInv
  BY DEF HInit, OpInv, Idle, Rewriting
<1>4. TornInv /\ CopiesAgree
  BY DEF HInit, TornInv, CopiesAgree
<1> QED BY <1>1, <1>2, <1>3, <1>4 DEF HeadersInv

LEMMA CreateKeeps ==
    ASSUME HeadersInv, NEW l \in {"current", "legacy", "inPlace"}, NEW ks \in {{"outer"}, Kinds},
           NEW p \in HeaderPasswords, NEW q \in HeaderPasswords, CreateVolumes(l, ks, p, q)
    PROVE HeadersInv'
<1> USE DEF HeadersInv
<1> DEFINE pwd(k) == IF k = "outer" THEN p ELSE q
<1>1. /\ layout = "none" /\ kinds = {} /\ interrupted = {} /\ hop.kind = "none" /\ hop.op \notin Rewriting
      /\ backupFile.outer = Junk /\ backupFile.hidden = Junk
  BY DEF CreateVolumes, PlaceInv, HdrTypes, OpInv
<1>2. /\ l \in HeaderLayouts /\ layout' = l /\ kinds' = ks /\ ks \subseteq Kinds /\ "outer" \in ks /\ (l = "inPlace" => ks = {"outer"})
      /\ UNCHANGED <<backupFile, hop, interrupted, torn, headerOps>>
  BY DEF CreateVolumes, HeaderLayouts, Kinds
<1>3. \A k \in ks : \A c \in HeaderCopies(l) : slots'[SlotIn(l, k, c)] = HeaderWith(pwd(k), k)
  <2> SUFFICES ASSUME NEW k \in ks, NEW c \in HeaderCopies(l) PROVE slots'[SlotIn(l, k, c)] = HeaderWith(pwd(k), k)
    OBVIOUS
  <2>1. k \in Kinds /\ c \in {"primary", "backup"} /\ SlotIn(l, k, c) \in HeaderSlots
    BY <1>2, SlotTable, SlotTyped
  <2>2. CASE k = "outer"
    <3>1. ~\E d \in HeaderCopies(l) : SlotIn(l, k, c) = SlotIn(l, "hidden", d)
      BY <2>1, <2>2, <1>2, SlotTable, SlotsDiffer DEF Kinds
    <3> QED BY <2>1, <2>2, <3>1 DEF CreateVolumes
  <2>3. CASE k = "hidden"
    <3>1. ~\E d \in HeaderCopies(l) : SlotIn(l, k, c) = SlotIn(l, "outer", d)
      BY <2>1, <2>3, <1>2, SlotTable, SlotsDiffer DEF Kinds
    <3> QED BY <2>1, <2>3, <3>1 DEF CreateVolumes
  <2> QED BY <2>1, <2>2, <2>3 DEF Kinds
<1>4. \A s \in HeaderSlots : \/ slots'[s] = Junk
                             \/ \E k \in ks : \E c \in HeaderCopies(l) : s = SlotIn(l, k, c) /\ slots'[s] = HeaderWith(pwd(k), k)
  BY <1>2, <1>3 DEF CreateVolumes
<1>5. slots' \in [HeaderSlots -> {Junk} \cup Headers]
  <2>1. \A k \in ks : HeaderWith(pwd(k), k) \in Headers
    BY <1>2 DEF HeaderWith, Headers
  <2>3. \A s \in HeaderSlots : slots'[s] \in {Junk} \cup Headers
    BY <1>4, <2>1
  <2>2. slots' = [s \in HeaderSlots |-> slots'[s]]
    BY DEF CreateVolumes
  <2> QED BY <2>2, <2>3
<1>6. HdrTypes'
  BY <1>1, <1>2, <1>5 DEF HdrTypes
<1>7. PlaceInv'
  <2>1. ASSUME NEW s \in HeaderSlots, slots'[s] # Junk
        PROVE slots'[s].kind \in ks /\ \E c \in HeaderCopies(l) : s = SlotIn(l, slots'[s].kind, c)
    <3>1. PICK k \in ks, c \in HeaderCopies(l) : s = SlotIn(l, k, c) /\ slots'[s] = HeaderWith(pwd(k), k)
      BY <1>4, <2>1
    <3>2. slots'[s].kind = k
      BY <3>1 DEF HeaderWith
    <3> QED BY <3>1, <3>2
  <2> QED BY <1>1, <1>2, <2>1 DEF PlaceInv, Copies, SlotOf
<1>8. OpInv'
  BY <1>1, <1>2 DEF OpInv, Rewriting
<1>9. TornInv'
  <2>1. \A k \in ks : \A c \in HeaderCopies(l) : slots'[SlotIn(l, k, c)] # Junk
    BY <1>3, HeaderIsNoJunk
  <2> QED BY <1>2, <2>1, SlotTable DEF TornInv, Copies, SlotOf
<1>10. CopiesAgree'
  BY <1>2, <1>3, SlotTable DEF CopiesAgree, Copies, SlotOf
<1> QED BY <1>6, <1>7, <1>8, <1>9, <1>10

\* The start of an operation.
LEMMA StartKeeps ==
    ASSUME HeadersInv, hop = Idle, UNCHANGED <<layout, kinds, slots, interrupted, torn>>,
           hop' \in HopStates, headerOps' \in Nat, hop'.op \in Rewriting \cup {"backup"},
           UNCHANGED backupFile \/ backupFile' = [state |-> "empty", outer |-> Junk, hidden |-> Junk],
           hop'.op = "backup" => /\ hop'.kind = "none" /\ hop'.old \in HeaderPasswords
                                 /\ "outer" \in kinds /\ (hop'.new # "none" => "hidden" \in kinds),
           hop'.op \in Rewriting => /\ hop'.kind \in kinds /\ hop'.new \in HeaderPasswords /\ hop'.copy = "primary"
                                    /\ hop'.pass = 0 /\ hop'.status = "none",
           hop'.op = "restoreInternal" => /\ layout # "legacy" /\ hop'.old = "none"
                                          /\ slots[SlotOf(hop'.kind, "backup")] = HeaderWith(hop'.new, hop'.kind)
    PROVE HeadersInv'
<1> USE DEF HeadersInv
<1>1. HdrTypes' /\ PlaceInv' /\ TornInv'
  BY DEF HdrTypes, PlaceInv, TornInv, Copies, SlotOf
<1>2. Passes' \in Nat /\ Passes' > 0
  BY HeaderAssumption DEF Passes
<1>3. OpInv'
  BY <1>2, HeaderAssumption DEF OpInv, Rewriting, SlotOf, Copies, HdrTypes, Kinds
<1>4. hop.kind = "none"
  BY DEF Idle
<1>5. CopiesAgree'
  BY <1>4 DEF CopiesAgree, SlotOf, Copies, HdrTypes, Kinds
<1> QED BY <1>1, <1>3, <1>5

LEMMA IdleTyped == Idle \in HopStates
BY HeaderAssumption DEF HopStates, Idle, HeaderOps

LEMMA StartStates == ASSUME HeadersInv, NEW o \in HopStates, StartOp(o) PROVE hop = Idle /\ hop' = o /\ headerOps' \in Nat
BY DEF StartOp, HeadersInv, OpInv, HdrTypes

LEMMA ChangeKeeps == ASSUME HeadersInv, NEW p \in HeaderPasswords, NEW q \in HeaderPasswords, ChangePwd(p, q) PROVE HeadersInv'
<1>1. OpenPrimary(p) \in kinds
  BY OpenPrimaryKind DEF ChangePwd, HeadersInv
<1> DEFINE o == [Idle EXCEPT !.op = "change", !.kind = OpenPrimary(p), !.old = p, !.new = q]
<1>2. o \in HopStates
  BY IdleTyped, <1>1 DEF HopStates, HeaderOps, Kinds, HeadersInv, HdrTypes
<1>3. hop = Idle /\ hop' = o /\ headerOps' \in Nat
  BY <1>2, StartStates DEF ChangePwd
<1>4. o.op = "change" /\ o.kind = OpenPrimary(p) /\ o.new = q /\ o.copy = "primary" /\ o.pass = 0 /\ o.status = "none"
  BY DEF Idle
<1> HIDE DEF o
<1> QED BY <1>1, <1>2, <1>3, <1>4, StartKeeps DEF ChangePwd, Rewriting

LEMMA RestoreInternalKeeps == ASSUME HeadersInv, NEW p \in HeaderPasswords, RestoreInternal(p) PROVE HeadersInv'
<1>1. OpenBackup(p) \in kinds /\ slots[SlotOf(OpenBackup(p), "backup")] = HeaderWith(p, OpenBackup(p))
  BY OpenBackupKind DEF RestoreInternal, HeadersInv
<1> DEFINE o == [Idle EXCEPT !.op = "restoreInternal", !.kind = OpenBackup(p), !.new = p]
<1>2. o \in HopStates
  BY IdleTyped, <1>1 DEF HopStates, HeaderOps, Kinds, HeadersInv, HdrTypes
<1>3. hop = Idle /\ hop' = o /\ headerOps' \in Nat
  BY <1>2, StartStates DEF RestoreInternal
<1>4. /\ o.op = "restoreInternal" /\ o.kind = OpenBackup(p) /\ o.new = p /\ o.copy = "primary" /\ o.pass = 0
      /\ o.status = "none" /\ o.old = "none"
  BY DEF Idle
<1> HIDE DEF o
<1> QED BY <1>1, <1>2, <1>3, <1>4, StartKeeps DEF RestoreInternal, Rewriting

LEMMA RestoreExternalKeeps == ASSUME HeadersInv, NEW p \in HeaderPasswords, RestoreExternal(p) PROVE HeadersInv'
<1>1. OpenBackupFile(p) \in kinds
  BY OpenFileKind DEF RestoreExternal, HeadersInv
<1> DEFINE o == [Idle EXCEPT !.op = "restoreExternal", !.kind = OpenBackupFile(p), !.new = p]
<1>2. o \in HopStates
  BY IdleTyped, <1>1 DEF HopStates, HeaderOps, Kinds, HeadersInv, HdrTypes
<1>3. hop = Idle /\ hop' = o /\ headerOps' \in Nat
  BY <1>2, StartStates DEF RestoreExternal
<1>4. /\ o.op = "restoreExternal" /\ o.kind = OpenBackupFile(p) /\ o.new = p /\ o.copy = "primary" /\ o.pass = 0
      /\ o.status = "none"
  BY DEF Idle
<1> HIDE DEF o
<1> QED BY <1>1, <1>2, <1>3, <1>4, StartKeeps DEF RestoreExternal, Rewriting

LEMMA BackupKeeps ==
    ASSUME HeadersInv, NEW p \in HeaderPasswords, NEW q \in HeaderPasswords, NEW h \in BOOLEAN, BackupVolumeHeader(p, q, h)
    PROVE HeadersInv'
<1> DEFINE o == [Idle EXCEPT !.op = "backup", !.old = p, !.new = IF h THEN q ELSE "none"]
<1>2. o \in HopStates
  BY IdleTyped DEF HopStates, HeaderOps, Kinds, HeadersInv, HdrTypes
<1>3. hop = Idle /\ hop' = o /\ headerOps' \in Nat
  BY <1>2, StartStates DEF BackupVolumeHeader
<1>4. o.op = "backup" /\ o.kind = "none" /\ o.old = p /\ o.new = IF h THEN q ELSE "none"
  BY DEF Idle
<1>5. "outer" \in kinds /\ (h => "hidden" \in kinds)
  BY OpenPrimaryKind DEF BackupVolumeHeader, HeadersInv
<1> HIDE DEF o
<1> QED BY <1>2, <1>3, <1>4, <1>5, StartKeeps DEF BackupVolumeHeader, Rewriting

-----------------------------------------------------------------------------
\* The place that is written: that of the volume under way, and no header of another.
LEMMA TargetPlace ==
    ASSUME HeadersInv, hop.op \in Rewriting
    PROVE /\ layout \in HeaderLayouts /\ hop.kind \in kinds /\ hop.kind \in Kinds /\ hop.copy \in Copies
          /\ hop.new \in HeaderPasswords /\ Target \in HeaderSlots
          /\ \A k \in kinds : \A c \in Copies :
                /\ SlotOf(k, c) \in HeaderSlots
                /\ SlotOf(k, c) = Target => k = hop.kind /\ c = hop.copy
                /\ layout = "inPlace" => SlotOf(k, c) \notin {"hidden", "backupHidden"}
<1> USE DEF HeadersInv
<1>1. /\ layout \in HeaderLayouts /\ kinds \subseteq Kinds /\ hop.kind \in kinds /\ hop.copy \in {"primary", "backup"}
      /\ hop.new \in HeaderPasswords
  BY DEF HdrTypes, OpInv, HopStates
<1>2. hop.copy \in Copies
  BY <1>1, SlotTable DEF OpInv, Copies
<1>3. Target \in HeaderSlots
  BY <1>1, SlotTyped DEF Target, SlotOf
<1>4. ASSUME NEW k \in kinds, NEW c \in Copies
      PROVE /\ SlotOf(k, c) \in HeaderSlots
            /\ SlotOf(k, c) = Target => k = hop.kind /\ c = hop.copy
            /\ layout = "inPlace" => SlotOf(k, c) \notin {"hidden", "backupHidden"}
  <2>1. k \in Kinds /\ c \in {"primary", "backup"}
    BY <1>1, SlotTable DEF Copies
  <2>2. SlotOf(k, c) = Target => k = hop.kind /\ c = hop.copy
    BY <1>1, <2>1, SlotsDiffer DEF SlotOf, Target
  <2>3. layout = "inPlace" => SlotOf(k, c) \notin {"hidden", "backupHidden"}
    BY <1>1, <2>1, SlotTable DEF PlaceInv, SlotOf
  <2> QED BY <1>1, <2>1, <2>2, <2>3, SlotTyped DEF SlotOf
<1> QED BY <1>1, <1>2, <1>3, <1>4

\* What is on the host after a writing.
LEMMA WrittenSlots ==
    ASSUME HeadersInv, hop.op \in Rewriting, NEW h
    PROVE /\ WithHeader(h)[Target] = h
          /\ \A k \in kinds : \A c \in Copies :
                SlotOf(k, c) # Target => WithHeader(h)[SlotOf(k, c)] = slots[SlotOf(k, c)]
          /\ \A s \in HeaderSlots : WithHeader(h)[s] \in {Junk, slots[s]} \/ (s = Target /\ WithHeader(h)[s] = h)
          /\ WithHeader(h) = [s \in HeaderSlots |-> WithHeader(h)[s]]
<1>1. layout = "inPlace" => Target \notin {"hidden", "backupHidden"}
  BY TargetPlace DEF Target
<1>2. ReservedOf(hop.copy) \in {"hidden", "backupHidden"}
  BY DEF ReservedOf
<1>3. Target \in HeaderSlots
  BY TargetPlace
<1>4. WithHeader(h)[Target] = h
  BY <1>1, <1>2, <1>3 DEF WithHeader
<1>5. ASSUME NEW k \in kinds, NEW c \in Copies, SlotOf(k, c) # Target PROVE WithHeader(h)[SlotOf(k, c)] = slots[SlotOf(k, c)]
  <2>1. SlotOf(k, c) \in HeaderSlots /\ (layout = "inPlace" => SlotOf(k, c) # ReservedOf(hop.copy))
    BY <1>2, TargetPlace
  <2> QED BY <1>5, <2>1 DEF WithHeader
<1>6. \A s \in HeaderSlots : WithHeader(h)[s] \in {Junk, slots[s]} \/ (s = Target /\ WithHeader(h)[s] = h)
  BY <1>4 DEF WithHeader
<1>7. WithHeader(h) = [s \in HeaderSlots |-> WithHeader(h)[s]]
  BY DEF WithHeader
<1> QED BY <1>4, <1>5, <1>6, <1>7

\* The next writing of the operation, or its end.
LEMMA AdvanceCases ==
    ASSUME HeadersInv, hop.op \in Rewriting
    PROVE /\ Advance \in HopStates /\ Advance.kind = hop.kind /\ Advance.new = hop.new /\ Advance.old = hop.old
          /\ \/ /\ Advance.op = hop.op /\ Advance.status = "none" /\ Advance.copy = hop.copy /\ Advance.pass < Passes
             \/ /\ Advance.op = hop.op /\ Advance.status = "none" /\ hop.copy = "primary" /\ Advance.copy = "backup"
                /\ HasBackupStage /\ Advance.pass < Passes
             \/ /\ Advance.op = "done" /\ Advance.status = "success" /\ (hop.copy = "backup" \/ ~HasBackupStage)
<1> USE DEF HeadersInv
<1>1. hop \in HopStates /\ hop.pass \in Nat /\ hop.pass < Passes /\ hop.status = "none" /\ hop.copy \in {"primary", "backup"}
  BY HeaderAssumption DEF HdrTypes, OpInv, HopStates
<1>2. Passes \in 1 .. HeaderPasses
  BY HeaderAssumption DEF Passes
<1>6. hop \in HopStates /\ 0 \in 0 .. HeaderPasses
  BY <1>1, HeaderAssumption
<1>3. CASE hop.pass + 1 < Passes
  <2>1. Advance = [hop EXCEPT !.pass = hop.pass + 1]
    BY <1>1, <1>2, <1>3 DEF Advance
  <2>2. Advance \in HopStates
    BY <1>1, <1>2, <1>3, <2>1, HeaderAssumption DEF HopStates
  <2>3. /\ Advance.kind = hop.kind /\ Advance.new = hop.new /\ Advance.old = hop.old
        /\ Advance.op = hop.op /\ Advance.status = hop.status /\ Advance.copy = hop.copy /\ Advance.pass = hop.pass + 1
    BY <1>1, <2>1 DEF HopStates
  <2> QED BY <1>1, <1>2, <1>3, <2>2, <2>3
<1>4. CASE hop.pass + 1 = Passes /\ hop.copy = "primary" /\ HasBackupStage
  <2>1. Advance = [hop EXCEPT !.pass = 0, !.copy = "backup"]
    BY <1>1, <1>2, <1>4 DEF Advance
  <2>2. Advance \in HopStates
    BY <1>6, <2>1 DEF HopStates
  <2>3. /\ Advance.kind = hop.kind /\ Advance.new = hop.new /\ Advance.old = hop.old
        /\ Advance.op = hop.op /\ Advance.status = hop.status /\ Advance.copy = "backup" /\ Advance.pass = 0
    BY <1>1, <2>1 DEF HopStates
  <2> QED BY <1>1, <1>2, <1>4, <2>2, <2>3
<1>5. CASE hop.pass + 1 = Passes /\ ~(hop.copy = "primary" /\ HasBackupStage)
  <2>1. Advance = [hop EXCEPT !.op = "done", !.pass = 0, !.status = "success"]
    BY <1>1, <1>2, <1>5 DEF Advance
  <2>2. Advance \in HopStates
    BY <1>6, <2>1 DEF HopStates, HeaderOps
  <2>3. /\ Advance.kind = hop.kind /\ Advance.new = hop.new /\ Advance.old = hop.old
        /\ Advance.op = "done" /\ Advance.status = "success"
    BY <1>1, <2>1 DEF HopStates
  <2> QED BY <1>1, <1>2, <1>5, <2>2, <2>3
<1> QED BY <1>1, <1>2, <1>3, <1>4, <1>5

\* The parts of the invariant that speak of headers, when one was written or destroyed.
LEMMA SlotsKept ==
    ASSUME HeadersInv, hop.op \in Rewriting, UNCHANGED <<layout, kinds, backupFile>>, NEW h \in {Junk} \cup Headers,
           h # Junk => h.kind = hop.kind,
           slots' = [s \in HeaderSlots |-> slots'[s]],
           \A s \in HeaderSlots : slots'[s] \in {Junk, slots[s]} \/ (s = Target /\ slots'[s] = h)
    PROVE slots' \in [HeaderSlots -> {Junk} \cup Headers] /\ PlaceInv'
<1> USE DEF HeadersInv
<1>1. \A s \in HeaderSlots : slots'[s] \in {Junk} \cup Headers
  BY DEF HdrTypes
<1>2. ASSUME NEW s \in HeaderSlots, slots'[s] # Junk
      PROVE slots'[s].kind \in kinds /\ \E c \in Copies : s = SlotOf(slots'[s].kind, c)
  <2>1. CASE slots'[s] = slots[s]
    BY <1>2, <2>1 DEF PlaceInv
  <2>2. CASE s = Target /\ slots'[s] = h
    BY <1>2, <2>2, TargetPlace DEF Target
  <2> QED BY <1>2, <2>1, <2>2
<1>3. PlaceInv'
  BY <1>2 DEF PlaceInv, Copies, SlotOf
<1> QED BY <1>1, <1>3

LEMMA WriteKeeps == ASSUME HeadersInv, WriteHeader PROVE HeadersInv'
<1> USE DEF HeadersInv
<1> DEFINE h == HeaderWith(hop.new, hop.kind)
<1>1. hop.op \in Rewriting /\ slots' = WithHeader(h) /\ hop' = Advance /\ UNCHANGED <<layout, kinds, backupFile, torn, headerOps>>
  BY DEF WriteHeader, Rewriting
<1>2. /\ h \in Headers /\ h # Junk /\ h.kind = hop.kind
  BY <1>1, TargetPlace, HeaderIsNoJunk DEF HeaderWith, Headers
<1>3. /\ slots'[Target] = h
      /\ \A k \in kinds : \A c \in Copies : SlotOf(k, c) # Target => slots'[SlotOf(k, c)] = slots[SlotOf(k, c)]
      /\ \A s \in HeaderSlots : slots'[s] \in {Junk, slots[s]} \/ (s = Target /\ slots'[s] = h)
      /\ slots' = [s \in HeaderSlots |-> slots'[s]]
  BY <1>1, WrittenSlots
<1> HIDE DEF h
<1>4. slots' \in [HeaderSlots -> {Junk} \cup Headers] /\ PlaceInv'
  BY <1>1, <1>2, <1>3, SlotsKept
<1>5. interrupted' \in SUBSET kinds /\ interrupted' \subseteq interrupted
      /\ (Advance.status # "success" => interrupted' = interrupted)
  BY DEF WriteHeader, HdrTypes
<1>6. HdrTypes'
  BY <1>1, <1>4, <1>5, AdvanceCases DEF HdrTypes
<1>7. TornInv'
  <2>1. \A k \in kinds : \A c \in Copies : slots[SlotOf(k, c)] # Junk => slots'[SlotOf(k, c)] # Junk
    BY <1>2, <1>3
  <2> QED BY <1>1, <2>1 DEF TornInv, Copies, SlotOf
<1>8. "primary" \in Copies /\ Copies \subseteq {"primary", "backup"} /\ ("backup" \in Copies <=> layout # "legacy")
  BY SlotTable DEF Copies, HdrTypes
<1>9. hop.kind \in kinds /\ hop.kind # "none" /\ Target = SlotOf(hop.kind, hop.copy) /\ hop.copy \in Copies
  BY <1>1, TargetPlace DEF Target, Kinds
<1>10. \A c \in Copies : c # hop.copy => SlotOf(hop.kind, c) # Target
  BY <1>1, <1>9, TargetPlace
<1>11. hop.copy = "backup" => slots[SlotOf(hop.kind, "primary")] = h
  BY <1>1 DEF OpInv, h
<1>12. hop.op = "restoreInternal" => slots[SlotOf(hop.kind, "backup")] = h /\ layout # "legacy" /\ hop.copy = "primary" /\ hop.old = "none"
  BY <1>1, <1>8, <1>9 DEF OpInv, h
<1>13. hop.op = "restoreInternal" => slots'[SlotOf(hop.kind, "backup")] = h
  BY <1>3, <1>8, <1>9, <1>10, <1>12
<1>14. Advance.copy = "backup" /\ Advance.op \in Rewriting => slots'[SlotOf(hop.kind, "primary")] = h /\ HasBackupStage
  <2>1. CASE hop.copy = "primary"
    BY <1>1, <1>3, <1>9, <2>1, AdvanceCases DEF Rewriting
  <2>2. CASE hop.copy = "backup"
    <3>1. slots'[SlotOf(hop.kind, "primary")] = h
      BY <1>3, <1>8, <1>9, <1>10, <1>11, <2>2
    <3>2. HasBackupStage
      BY <1>1, <2>2 DEF HasBackupStage, OpInv
    <3> QED BY <3>1, <3>2
  <2> QED BY <1>8, <1>9, <2>1, <2>2
<1>15. Advance.op = "done" => \A c \in Copies : slots'[SlotOf(hop.kind, c)] = h
  <2> SUFFICES ASSUME Advance.op = "done", NEW c \in Copies PROVE slots'[SlotOf(hop.kind, c)] = h
    OBVIOUS
  <2>1. hop.copy = "backup" \/ ~HasBackupStage
    BY <1>1, AdvanceCases DEF Rewriting
  <2>2. CASE c = hop.copy
    BY <1>3, <1>9, <2>2
  <2>3. CASE c # hop.copy /\ hop.copy = "backup"
    BY <1>3, <1>8, <1>9, <1>10, <1>11, <2>3
  <2>4. CASE c # hop.copy /\ hop.copy = "primary"
    BY <1>1, <1>8, <1>13, <2>1, <2>4 DEF HasBackupStage, Rewriting
  <2> QED BY <1>8, <1>9, <2>2, <2>3, <2>4
<1>16. OpInv'
  <2>1. hop'.kind = hop.kind /\ hop'.new = hop.new /\ hop'.old = hop.old /\ hop'.op \in {hop.op, "done"}
    BY <1>1, AdvanceCases
  <2>2. hop'.kind \in kinds' /\ hop'.new \in HeaderPasswords
    BY <1>1, <2>1, TargetPlace
  <2>3. hop'.op \in Rewriting => /\ hop'.op = hop.op /\ hop'.pass < Passes' /\ hop'.status = "none"
                                 /\ hop'.copy = "backup" => hop'.op # "restoreInternal" /\ layout' # "legacy"
                                 /\ hop'.copy = "backup" => slots'[SlotOf(hop.kind, "primary")] = HeaderWith(hop.new, hop.kind)
    <3>1. hop'.op \in Rewriting => hop'.op = hop.op /\ hop'.pass < Passes /\ hop'.status = "none"
      BY <1>1, AdvanceCases DEF Rewriting
    <3>2. hop'.op = hop.op => Passes' = Passes
      BY DEF Passes
    <3> QED BY <1>1, <1>14, <3>1, <3>2 DEF HasBackupStage, h
  <2>4. hop'.op = "restoreInternal" => hop.op = "restoreInternal"
    BY <2>1
  <2>5. hop'.op = "done" => hop'.status = "success"
    BY <1>1, AdvanceCases DEF Rewriting
  <2> QED BY <1>1, <1>9, <1>12, <1>13, <1>15, <2>1, <2>2, <2>3, <2>4, <2>5 DEF OpInv, SlotOf, Copies, Rewriting, h
<1>17. CopiesAgree'
  <2> SUFFICES ASSUME NEW k \in kinds \ interrupted', hop'.kind # k, NEW c \in Copies
               PROVE slots'[SlotOf(k, c)] = slots'[SlotOf(k, "primary")]
    BY <1>1 DEF CopiesAgree, Copies, SlotOf
  <2>1. hop'.kind = hop.kind
    BY <1>1, AdvanceCases
  <2>2. k \notin interrupted
    BY <2>1 DEF WriteHeader
  <2>3. slots'[SlotOf(k, c)] = slots[SlotOf(k, c)] /\ slots'[SlotOf(k, "primary")] = slots[SlotOf(k, "primary")]
    BY <1>1, <1>3, <1>8, <2>1, TargetPlace
  <2> QED BY <2>1, <2>2, <2>3 DEF CopiesAgree
<1> QED BY <1>6, <1>4, <1>7, <1>16, <1>17

LEMMA FailKeeps == ASSUME HeadersInv, WriteHeaderFails PROVE HeadersInv'
<1> USE DEF HeadersInv
<1>1. /\ hop.op \in Rewriting /\ hop' = [hop EXCEPT !.op = "done", !.status = "error"]
      /\ interrupted' = interrupted \cup {hop.kind} /\ UNCHANGED <<layout, kinds, slots, backupFile, torn, headerOps>>
  BY DEF WriteHeaderFails, Rewriting
<1>2. hop \in HopStates /\ hop.kind \in kinds /\ hop.new \in HeaderPasswords
  BY <1>1, TargetPlace DEF HdrTypes
<1>3. hop' \in HopStates
  BY <1>1, <1>2 DEF HopStates, HeaderOps
<1>4. hop'.op = "done" /\ hop'.status = "error" /\ hop'.kind = hop.kind /\ hop'.new = hop.new
  BY <1>1, <1>2 DEF HopStates
<1>5. HdrTypes' /\ PlaceInv' /\ TornInv'
  BY <1>1, <1>2, <1>3 DEF HdrTypes, PlaceInv, TornInv, Copies, SlotOf
<1>6. OpInv'
  BY <1>1, <1>2, <1>4 DEF OpInv, Rewriting, SlotOf, Copies
<1>7. CopiesAgree'
  BY <1>1, <1>4 DEF CopiesAgree, Copies, SlotOf
<1> QED BY <1>5, <1>6, <1>7

LEMMA HeaderCrashKeeps == ASSUME HeadersInv, HeaderCrash PROVE HeadersInv'
<1> USE DEF HeadersInv
<1>1. /\ hop.op \in Rewriting /\ hop' = Idle
      /\ interrupted' = interrupted \cup {hop.kind} /\ UNCHANGED <<layout, kinds, backupFile, headerOps>>
  BY DEF HeaderCrash, Rewriting
<1>2. hop.kind \in kinds /\ Target \in HeaderSlots /\ hop.copy \in Copies /\ Target = SlotOf(hop.kind, hop.copy)
  BY <1>1, TargetPlace DEF Target
<1>3. Idle.op = "idle" /\ Idle.kind = "none" /\ Idle \in HopStates
  BY IdleTyped DEF Idle
<1>4. /\ \/ UNCHANGED <<slots, torn>>
         \/ torn' = torn + 1 /\ slots' = [slots EXCEPT ![Target] = Junk]
  BY DEF HeaderCrash
<1>5. /\ slots' = [s \in HeaderSlots |-> slots'[s]]
      /\ \A s \in HeaderSlots : slots'[s] \in {Junk, slots[s]}
      /\ \A s \in HeaderSlots : s # Target => slots'[s] = slots[s]
  BY <1>4 DEF HdrTypes
<1>6. slots' \in [HeaderSlots -> {Junk} \cup Headers] /\ PlaceInv'
  BY <1>1, <1>5, SlotsKept
<1>7. torn \in Nat /\ torn' \in Nat
  BY <1>4 DEF HdrTypes
<1>8. HdrTypes'
  BY <1>1, <1>2, <1>3, <1>6, <1>7 DEF HdrTypes
<1>9. OpInv'
  BY <1>1, <1>3 DEF OpInv, Rewriting
<1>10. TornInv'
  <2>1. CASE UNCHANGED <<slots, torn>>
    BY <1>1, <2>1 DEF TornInv, Copies, SlotOf
  <2>2. CASE torn' = torn + 1 /\ slots' = [slots EXCEPT ![Target] = Junk]
    <3>1. torn' # 0
      BY <1>7, <2>2
    <3>2. ASSUME torn' = 1, layout # "legacy", NEW k \in kinds PROVE \E c \in Copies : slots'[SlotOf(k, c)] # Junk
      <4>1. \A c \in Copies : slots[SlotOf(k, c)] # Junk
        BY <1>7, <2>2, <3>2 DEF TornInv
      <4>2. "primary" \in Copies /\ "backup" \in Copies
        BY <3>2, SlotTable DEF HdrTypes, Copies
      <4>3. PICK c \in Copies : c # hop.copy
        BY <4>2
      <4>4. SlotOf(k, c) \in HeaderSlots /\ SlotOf(k, c) # Target
        BY <1>1, <4>3, TargetPlace
      <4>5. slots'[SlotOf(k, c)] = slots[SlotOf(k, c)]
        BY <1>5, <4>4
      <4> QED BY <4>1, <4>3, <4>5
    <3> QED BY <1>1, <3>1, <3>2 DEF TornInv, Copies, SlotOf
  <2> QED BY <1>4, <2>1, <2>2
<1>11. CopiesAgree'
  <2> SUFFICES ASSUME NEW k \in kinds \ interrupted', NEW c \in Copies
               PROVE slots'[SlotOf(k, c)] = slots'[SlotOf(k, "primary")]
    BY <1>1 DEF CopiesAgree, Copies, SlotOf
  <2>1. k \notin interrupted /\ k # hop.kind /\ "primary" \in Copies
    BY <1>1, SlotTable DEF HdrTypes, Copies
  <2>2. slots'[SlotOf(k, c)] = slots[SlotOf(k, c)] /\ slots'[SlotOf(k, "primary")] = slots[SlotOf(k, "primary")]
    BY <1>1, <1>5, <2>1, TargetPlace
  <2> QED BY <2>1, <2>2 DEF CopiesAgree
<1> QED BY <1>6, <1>8, <1>9, <1>10, <1>11

LEMMA ReturnKeeps == ASSUME HeadersInv, HeaderOpReturns PROVE HeadersInv'
<1> USE DEF HeadersInv
<1>1. hop.op = "done" /\ hop' = Idle /\ UNCHANGED <<layout, kinds, slots, backupFile, interrupted, torn, headerOps>>
  BY DEF HeaderOpReturns
<1>2. Idle.op = "idle" /\ Idle.kind = "none" /\ Idle \in HopStates
  BY IdleTyped DEF Idle
<1>3. HdrTypes' /\ PlaceInv' /\ TornInv'
  BY <1>1, <1>2 DEF HdrTypes, PlaceInv, TornInv, Copies, SlotOf
<1>4. OpInv'
  BY <1>1, <1>2 DEF OpInv, Rewriting
<1>5. CopiesAgree'
  <2> SUFFICES ASSUME NEW k \in kinds \ interrupted, NEW c \in Copies
               PROVE slots[SlotOf(k, c)] = slots[SlotOf(k, "primary")]
    BY <1>1 DEF CopiesAgree, Copies, SlotOf
  <2>1. CASE hop.kind # k
    BY <2>1 DEF CopiesAgree
  <2>2. CASE hop.kind = k
    <3>1. k # "none" /\ "primary" \in Copies
      BY SlotTable DEF HdrTypes, Kinds, Copies
    <3> QED BY <1>1, <2>2, <3>1 DEF OpInv
  <2> QED BY <2>1, <2>2
<1> QED BY <1>3, <1>4, <1>5

LEMMA FileKeeps == ASSUME HeadersInv, WriteBackupFile \/ BackupFileFails PROVE HeadersInv'
<1> USE DEF HeadersInv
<1>1. /\ hop.op = "backup" /\ UNCHANGED <<layout, kinds, slots, interrupted, torn, headerOps>>
      /\ \E st \in {"success", "error"} : hop' = [hop EXCEPT !.op = "done", !.status = st]
  BY DEF WriteBackupFile, BackupFileFails
<1>2. /\ hop \in HopStates /\ hop.kind = "none" /\ hop.old \in HeaderPasswords /\ hop.new \in HeaderPasswords \cup {"none"}
      /\ "outer" \in kinds /\ (hop.new # "none" => "hidden" \in kinds)
  BY <1>1 DEF HdrTypes, OpInv, HopStates
<1>3. hop' \in HopStates
  BY <1>1, <1>2 DEF HopStates, HeaderOps
<1>4. hop'.op = "done" /\ hop'.kind = "none"
  BY <1>1, <1>2 DEF HopStates
<1>5. /\ backupFile' \in [state : {"none", "empty", "written"}, outer : {Junk} \cup Headers, hidden : {Junk} \cup Headers]
      /\ backupFile'.outer # Junk => backupFile'.outer.kind = "outer" /\ "outer" \in kinds
      /\ backupFile'.hidden # Junk => backupFile'.hidden.kind = "hidden" /\ "hidden" \in kinds
  <2>1. CASE BackupFileFails
    BY <2>1 DEF BackupFileFails, HdrTypes, PlaceInv
  <2>2. CASE WriteBackupFile
    <3>1. HeaderWith(hop.old, "outer") \in Headers /\ (hop.new # "none" => HeaderWith(hop.new, "hidden") \in Headers)
      BY <1>2 DEF HeaderWith, Headers, Kinds
    <3>2. HeaderWith(hop.old, "outer").kind = "outer" /\ HeaderWith(hop.new, "hidden").kind = "hidden"
      BY DEF HeaderWith
    <3> QED BY <1>2, <2>2, <3>1, <3>2 DEF WriteBackupFile
  <2> QED BY <2>1, <2>2
<1>6. HdrTypes' /\ PlaceInv' /\ TornInv'
  BY <1>1, <1>3, <1>5 DEF HdrTypes, PlaceInv, TornInv, Copies, SlotOf
<1>7. OpInv'
  BY <1>1, <1>4 DEF OpInv, Rewriting
<1>8. CopiesAgree'
  BY <1>1, <1>2, <1>4 DEF CopiesAgree, Copies, SlotOf
<1> QED BY <1>6, <1>7, <1>8

LEMMA HeadersStep == HeadersInv /\ [HNext]_hVars => HeadersInv'
<1> SUFFICES ASSUME HeadersInv, [HNext]_hVars PROVE HeadersInv'
  OBVIOUS
<1>1. CASE UNCHANGED hVars
  BY <1>1 DEF hVars, HeadersInv, HdrTypes, PlaceInv, OpInv, TornInv, CopiesAgree, Copies, SlotOf, Passes
<1>2. CASE HNext
  BY <1>2, CreateKeeps, ChangeKeeps, RestoreInternalKeeps, RestoreExternalKeeps, BackupKeeps, WriteKeeps, FailKeeps,
     HeaderCrashKeeps, ReturnKeeps, FileKeeps DEF HNext
<1> QED BY <1>1, <1>2

LEMMA HeadersInvSound == HeadersInv => HeadersSound
<1> SUFFICES ASSUME HeadersInv PROVE HeadersSound
  OBVIOUS
<1> USE DEF HeadersInv
<1>1. HTypeOK
  BY DEF HTypeOK, HdrTypes, HopStates, Headers
<1>2. SomeHeaderOpens
  <2> SUFFICES ASSUME torn < Cardinality(Copies), NEW k \in kinds PROVE \E c \in Copies : slots[SlotOf(k, c)].kind = k
    BY DEF SomeHeaderOpens
  <2>1. layout \in HeaderLayouts /\ torn \in Nat /\ k \in Kinds
    BY DEF HdrTypes
  <2>2. PICK c \in Copies : slots[SlotOf(k, c)] # Junk
    <3>1. CASE layout = "legacy"
      <4>1. Copies = {"primary"}
        BY <3>1 DEF Copies, HeaderCopies
      <4>2. torn = 0
        <5>1. Cardinality({"primary"}) = 1
          BY FS_Singleton
        <5> QED BY <2>1, <4>1, <5>1
      <4> QED BY <4>1, <4>2 DEF TornInv
    <3>2. CASE layout # "legacy"
      <4>1. Copies = {"primary", "backup"}
        BY <3>2 DEF Copies, HeaderCopies
      <4>2. Cardinality({"primary"}) = 1 /\ IsFiniteSet({"primary"})
        BY FS_Singleton
      <4>3. Cardinality({"primary"} \cup {"backup"}) = 2
        <5>1. "backup" \notin {"primary"}
          OBVIOUS
        <5>2. Cardinality({"primary"} \cup {"backup"}) = Cardinality({"primary"}) + 1
          BY <4>2, <5>1, FS_AddElement
        <5> QED BY <4>2, <5>2
      <4>4. {"primary"} \cup {"backup"} = {"primary", "backup"}
        OBVIOUS
      <4>5. torn \in {0, 1}
        BY <2>1, <4>1, <4>3, <4>4
      <4> QED BY <3>2, <4>1, <4>5 DEF TornInv
    <3> QED BY <3>1, <3>2
  <2>3. c \in {"primary", "backup"} /\ SlotOf(k, c) \in HeaderSlots
    BY <2>1, SlotTable, SlotTyped DEF Copies, SlotOf
  <2>4. PICK d \in Copies : SlotOf(k, c) = SlotOf(slots[SlotOf(k, c)].kind, d) /\ slots[SlotOf(k, c)].kind \in kinds
    BY <2>2, <2>3 DEF PlaceInv
  <2>5. slots[SlotOf(k, c)].kind \in Kinds /\ d \in {"primary", "backup"}
    BY <2>1, <2>4, SlotTable DEF HdrTypes, Copies
  <2>6. slots[SlotOf(k, c)].kind = k
    BY <2>1, <2>3, <2>4, <2>5, SlotsDiffer DEF SlotOf
  <2> QED BY <2>6
<1>3. OldPasswordGone
  <2> SUFFICES ASSUME hop.op = "done", hop.status = "success", hop.kind # "none", NEW c \in Copies
               PROVE slots[SlotOf(hop.kind, c)].pwd = hop.new
    BY DEF OldPasswordGone
  <2> QED BY DEF OpInv, HeaderWith
<1> QED BY <1>1, <1>2, <1>3 DEF HeadersSound

(* Headers survive (VolumeHeaders; ChangePwd of Common/Password.c, RestoreVolumeHeader and
   BackupVolumeHeader of Mount/Mount.c): for any passwords and any number of passes,
   operations, failures and power losses, some header of every volume opens as long as
   fewer writings were cut in the middle than there are copies; a completed change of the
   password leaves no header with the old one; and the copies agree unless a rewriting
   is under way or failed. *)
THEOREM HeadersAreSound == HSpec => []HeadersSound
<1>1. HSpec => []HeadersInv
  BY HeadersInit, HeadersStep, PTL DEF HSpec
<1> QED BY <1>1, HeadersInvSound, PTL

\* One step rewrites headers of one volume only.
LEMMA StepApart ==
    ASSUME HeadersInv, [HNext]_hVars, NEW k \in kinds, k # hop.kind, NEW c \in Copies
    PROVE slots'[SlotOf(k, c)] = slots[SlotOf(k, c)]
<1>1. CASE UNCHANGED slots
  BY <1>1
<1>2. CASE WriteHeader
  <2>1. hop.op \in Rewriting /\ slots' = WithHeader(HeaderWith(hop.new, hop.kind))
    BY <1>2 DEF WriteHeader, Rewriting
  <2> QED BY <2>1, TargetPlace, WrittenSlots
<1>3. CASE HeaderCrash
  <2>1. hop.op \in Rewriting /\ (slots' = slots \/ slots' = [slots EXCEPT ![Target] = Junk])
    BY <1>3 DEF HeaderCrash, Rewriting
  <2>2. SlotOf(k, c) \in HeaderSlots /\ SlotOf(k, c) # Target
    BY <2>1, TargetPlace
  <2> QED BY <2>1, <2>2 DEF HeadersInv, HdrTypes
<1>4. CASE \E l \in {"current", "legacy", "inPlace"}, ks \in {{"outer"}, Kinds}, p, q \in HeaderPasswords : CreateVolumes(l, ks, p, q)
  BY <1>4 DEF CreateVolumes, HeadersInv, PlaceInv
<1> QED BY <1>1, <1>2, <1>3, <1>4 DEF HNext, hVars, ChangePwd, RestoreInternal, RestoreExternal, BackupVolumeHeader,
           WriteHeaderFails, HeaderOpReturns, WriteBackupFile, BackupFileFails

(* Rewriting the headers of one volume never touches those of the other: neither a change of
   the password of the hidden volume those of the outer one, nor the other way round, also
   in the reserved area of a volume that was encrypted in place. *)
THEOREM KindsStayApart == HSpec => KindsApart
<1>1. HSpec => []HeadersInv
  BY HeadersInit, HeadersStep, PTL DEF HSpec
<1>2. HeadersInv /\ [HNext]_hVars => [\A k \in kinds : k # hop.kind => \A c \in Copies :
           slots'[SlotOf(k, c)] = slots[SlotOf(k, c)]]_hVars
  BY StepApart
<1> QED BY <1>1, <1>2, PTL DEF HSpec, KindsApart

-----------------------------------------------------------------------------

(***************************************************************************)
(* The random pools.                                                       *)
(***************************************************************************)
RndInputs == MouseEvents \cup KeyEvents \cup {"none", "slow", "fast", "urandom"}
Pools == [PoolCells -> SUBSET RndInputs]
Hashes == {"RIPEMD160", "SHA512"}
RndStates ==
    [init : BOOLEAN, pool : Pools, index : 0 .. RNG_POOL_SIZE, read : Nat, hash : Hashes,
     slow : BOOLEAN, enriched : BOOLEAN, taken : BOOLEAN, hooks : BOOLEAN,
     thread : {"none", "runs", "ended"}, terminate : BOOLEAN, stopping : {"no", "free", "keep"},
     section : BOOLEAN, mouse : (MouseEvents \cup {"none"}) \X (MouseEvents \cup {"none"}),
     key : (KeyEvents \cup {"none"}) \X (KeyEvents \cup {"none"}), dialog : {"none", "enrich", "keyfile"},
     moved : BOOLEAN, since : SUBSET Nat]
UxrStates ==
    [run : BOOLEAN, pool : Pools, index : Nat, read : Nat, added : Nat, hash : Hashes,
     enriched : BOOLEAN, taken : BOOLEAN]
Outputs == [common : SUBSET RndInputs, fed : SUBSET RndInputs, again : BOOLEAN]
RndTypes == rnd \in RndStates /\ uxr \in UxrStates /\ given \in [Programs -> Outputs]
\* A pool that counts as polled depends on a slow poll.
SlowInv == rnd.slow => "slow" \in Fed(rnd.pool)
\* The thread lives between the start and the end of the generator, and so do the hooks
\* until the end is requested.
ThreadInv ==
    /\ rnd.thread = "runs" => rnd.section /\ rnd.init
    /\ rnd.init /\ rnd.stopping = "no" => rnd.hooks
\* The pool of a running generator, or one that was kept, is enriched only by an event given to it;
\* a dialog without hooks is shown only for a generator that has not been started.
EnrichedInv ==
    /\ rnd.enriched /\ rnd.dialog # "enrich" /\ (rnd.init \/ rnd.pool # NoRndPool) => rnd.moved
    /\ rnd.dialog = "enrich" => rnd.stopping = "no" /\ (rnd.hooks \/ (rnd.pool = NoRndPool /\ ~rnd.init))
\* Events of this round are before the cursor.
CursorInv ==
    /\ \A c \in rnd.since : c < rnd.index
    /\ rnd.index = RNG_POOL_SIZE => rnd.since = {}
RndInv == RndTypes /\ OutputDependsOnAll /\ OutputSystemFed /\ PoolStateNotReused /\ SlowInv /\ ThreadInv /\ EnrichedInv /\ CursorInv

LEMMA DigestParts == \A h \in Hashes : DigestSize[h] \in Nat /\ (RNG_POOL_SIZE \div DigestSize[h]) * DigestSize[h] = RNG_POOL_SIZE
<1>1. PICK m \in Nat \ {0} : RNG_POOL_SIZE = 4 * m
  BY RndAssumption
<1>2. DigestSize["RIPEMD160"] = m /\ DigestSize["SHA512"] = 2 * m
  BY <1>1 DEF DigestSize
<1>3. (4 * m) \div m = 4
  BY <1>1
<1>4. (4 * m) \div (2 * m) = 2
  BY <1>1
<1> QED BY <1>1, <1>2, <1>3, <1>4 DEF Hashes

LEMMA CellsThere == 0 \in PoolCells /\ \A n \in Nat : n % RNG_POOL_SIZE \in PoolCells
BY RndAssumption DEF PoolCells

LEMMA TheOne == ASSUME NEW e PROVE The({e}) = e
BY DEF The

\* A mixed pool depends in every cell on all that was in it.
Flat(F) == [c \in PoolCells |-> F]

LEMMA FedFlat == ASSUME NEW F PROVE Fed(Flat(F)) = F
<1>1. \A c \in PoolCells : Flat(F)[c] = F
  BY DEF Flat
<1>2. {Flat(F)[c] : c \in PoolCells} = {F}
  BY <1>1, CellsThere
<1> QED BY <1>2 DEF Fed

LEMMA FedCells == ASSUME NEW p \in Pools PROVE Fed(p) \in SUBSET RndInputs /\ \A c \in PoolCells : p[c] \subseteq Fed(p)
BY DEF Fed, Pools

LEMMA MixFlat == ASSUME NEW p \in Pools, NEW h \in Hashes PROVE MixedPool(p, h) = Flat(Fed(p)) /\ Flat(Fed(p)) \in Pools
<1> DEFINE parts == RNG_POOL_SIZE \div DigestSize[h]
           mix(digest) == [c \in PoolCells |-> IF c < parts * DigestSize[h] THEN p[c] \cup digest ELSE p[c]]
<1>1. {mix(digest) : digest \in {Fed(p)}} = {mix(Fed(p))}
  OBVIOUS
<1>2. MixedPool(p, h) = mix(Fed(p))
  BY <1>1, TheOne DEF MixedPool
<1>3. \A c \in PoolCells : c < parts * DigestSize[h]
  BY DigestParts, RndAssumption DEF PoolCells
<1>4. \A c \in PoolCells : p[c] \cup Fed(p) = Fed(p)
  BY FedCells
<1>5. mix(Fed(p)) = Flat(Fed(p))
  BY <1>3, <1>4 DEF Flat
<1>6. Flat(Fed(p)) \in Pools
  BY FedCells DEF Flat, Pools
<1> QED BY <1>2, <1>5, <1>6

LEMMA RandmixIs ==
    ASSUME NEW s PROVE Randmix(s) = [s EXCEPT !.pool = MixedPool(s.pool, s.hash), !.taken = FALSE]
<1> DEFINE f(t) == [t EXCEPT !.pool = MixedPool(t.pool, t.hash), !.taken = FALSE]
<1>1. {f(t) : t \in {s}} = {f(s)}
  OBVIOUS
<1> QED BY <1>1, TheOne DEF Randmix

LEMMA WrittenCells ==
    ASSUME NEW i \in Nat, NEW len \in Nat \ {0} PROVE Written(i, len) \subseteq PoolCells /\ Written(i, len) # {}
<1>1. \A k \in 0 .. len - 1 : i + k \in Nat
  OBVIOUS
<1>2. (i + 0) % RNG_POOL_SIZE \in Written(i, len)
  BY DEF Written
<1> QED BY <1>1, <1>2, CellsThere DEF Written

\* The pool with an input added to some cells.
WithInput(p, cells, x) == [c \in PoolCells |-> IF c \in cells THEN p[c] \cup {x} ELSE p[c]]

LEMMA InputFed ==
    ASSUME NEW p \in Pools, NEW cells \in SUBSET PoolCells, NEW x \in RndInputs
    PROVE /\ WithInput(p, cells, x) \in Pools /\ Fed(p) \subseteq Fed(WithInput(p, cells, x))
          /\ cells # {} => x \in Fed(WithInput(p, cells, x))
<1>1. WithInput(p, cells, x) \in Pools
  BY DEF WithInput, Pools
<1>2. \A c \in PoolCells : p[c] \subseteq WithInput(p, cells, x)[c]
  BY DEF WithInput
<1>3. \A c \in cells : x \in WithInput(p, cells, x)[c]
  BY DEF WithInput
<1>4. Fed(p) \subseteq Fed(WithInput(p, cells, x))
  <2> SUFFICES ASSUME NEW y \in Fed(p) PROVE y \in Fed(WithInput(p, cells, x))
    OBVIOUS
  <2>1. PICK c \in PoolCells : y \in p[c]
    BY DEF Fed
  <2> QED BY <1>1, <1>2, <2>1, FedCells
<1>5. cells # {} => x \in Fed(WithInput(p, cells, x))
  BY <1>1, <1>3, FedCells
<1> QED BY <1>1, <1>4, <1>5

LEMMA PoolWithIs ==
    ASSUME NEW s, NEW cells, NEW x, NEW mixes
    PROVE PoolWith(s, cells, x, mixes) = IF mixes THEN Randmix([s EXCEPT !.pool = WithInput(s.pool, cells, x)])
                                         ELSE [s EXCEPT !.pool = WithInput(s.pool, cells, x)]
<1> DEFINE with(t) == [t EXCEPT !.pool = [c \in PoolCells |-> IF c \in cells THEN t.pool[c] \cup {x} ELSE t.pool[c]]]
           f(t) == IF mixes THEN Randmix(with(t)) ELSE with(t)
<1>1. {f(t) : t \in {s}} = {f(s)}
  OBVIOUS
<1>2. PoolWith(s, cells, x, mixes) = f(s)
  BY <1>1, TheOne DEF PoolWith
<1> QED BY <1>2 DEF WithInput

-----------------------------------------------------------------------------
\* The fields that no poll and no event added to the pool changes.
SameControl(s, t) ==
    /\ t.init = s.init /\ t.hash = s.hash /\ t.enriched = s.enriched /\ t.hooks = s.hooks /\ t.thread = s.thread
    /\ t.terminate = s.terminate /\ t.stopping = s.stopping /\ t.section = s.section /\ t.mouse = s.mouse
    /\ t.key = s.key /\ t.dialog = s.dialog /\ t.moved = s.moved

LEMMA RandmixState ==
    ASSUME NEW s \in RndStates
    PROVE LET t == Randmix(s)
          IN t \in RndStates /\ SameControl(s, t) /\ t.slow = s.slow /\ t.since = s.since /\ t.read = s.read /\ t.index = s.index
             /\ t.pool = Flat(Fed(s.pool)) /\ t.taken = FALSE
<1>1. s.pool \in Pools /\ s.hash \in Hashes
  BY DEF RndStates
<1>2. MixedPool(s.pool, s.hash) = Flat(Fed(s.pool)) /\ Flat(Fed(s.pool)) \in Pools
  BY <1>1, MixFlat
<1>3. Randmix(s) = [s EXCEPT !.pool = Flat(Fed(s.pool)), !.taken = FALSE]
  BY <1>2, RandmixIs
<1>4. Randmix(s) \in RndStates
  BY <1>2, <1>3 DEF RndStates
<1>5. SameControl(s, Randmix(s))
  BY <1>3 DEF RndStates, SameControl
<1> QED BY <1>3, <1>4, <1>5 DEF RndStates

LEMMA PoolWithState ==
    ASSUME NEW s \in RndStates, NEW cells \in SUBSET PoolCells, cells # {}, NEW x \in RndInputs, NEW mixes \in BOOLEAN
    PROVE LET t == PoolWith(s, cells, x, mixes)
          IN t \in RndStates /\ SameControl(s, t) /\ t.slow = s.slow /\ t.since = s.since /\ t.read = s.read /\ t.index = s.index
             /\ Fed(s.pool) \subseteq Fed(t.pool) /\ x \in Fed(t.pool)
<1> DEFINE w == [s EXCEPT !.pool = WithInput(s.pool, cells, x)]
<1>1. s.pool \in Pools
  BY DEF RndStates
<1>2. WithInput(s.pool, cells, x) \in Pools /\ Fed(s.pool) \subseteq Fed(WithInput(s.pool, cells, x)) /\ x \in Fed(WithInput(s.pool, cells, x))
  BY <1>1, InputFed
<1>3. w \in RndStates /\ w.pool = WithInput(s.pool, cells, x)
  BY <1>2 DEF RndStates
<1>4. SameControl(s, w) /\ w.slow = s.slow /\ w.since = s.since /\ w.read = s.read /\ w.index = s.index
  BY DEF RndStates, SameControl
<1>5. PoolWith(s, cells, x, mixes) = IF mixes THEN Randmix(w) ELSE w
  BY PoolWithIs
<1> HIDE DEF w
<1>6. CASE ~mixes
  BY <1>2, <1>3, <1>4, <1>5, <1>6
<1>7. CASE mixes
  <2>1. /\ Randmix(w) \in RndStates /\ SameControl(w, Randmix(w)) /\ Randmix(w).slow = w.slow /\ Randmix(w).since = w.since
        /\ Randmix(w).read = w.read /\ Randmix(w).index = w.index /\ Randmix(w).pool = Flat(Fed(w.pool))
    BY <1>3, RandmixState
  <2>2. Fed(Randmix(w).pool) = Fed(w.pool)
    BY <2>1, FedFlat
  <2>3. SameControl(s, Randmix(w))
    BY <1>4, <2>1 DEF SameControl
  <2> QED BY <1>2, <1>3, <1>4, <1>5, <1>7, <2>1, <2>2, <2>3
<1> QED BY <1>6, <1>7

LEMMA AddedState ==
    ASSUME NEW s \in RndStates, NEW x \in RndInputs, NEW len \in Nat \ {0}
    PROVE LET t == RandaddBuf(s, x, len)
          IN t \in RndStates /\ SameControl(s, t) /\ t.slow = s.slow /\ t.since = s.since /\ t.read = s.read
             /\ Fed(s.pool) \subseteq Fed(t.pool) /\ x \in Fed(t.pool) /\ t.index \in 1 .. RNG_POOL_SIZE
<1> DEFINE i == IF s.index = RNG_POOL_SIZE THEN 0 ELSE s.index
           cells == Written(i, len)
           mixes == \E c \in cells : c % RANDMIX_BYTE_INTERVAL = 0
           w == PoolWith(s, cells, x, mixes)
           n == ((i + len - 1) % RNG_POOL_SIZE) + 1
<1>1. i \in Nat
  BY DEF RndStates
<1>2. cells \in SUBSET PoolCells /\ cells # {}
  BY <1>1, WrittenCells
<1>3. mixes \in BOOLEAN
  OBVIOUS
<1>4. n \in 1 .. RNG_POOL_SIZE
  BY <1>1, RndAssumption
<1>5. RandaddBuf(s, x, len) = [w EXCEPT !.index = n]
  BY DEF RandaddBuf
<1> HIDE DEF cells, mixes, n
<1>6. /\ w \in RndStates /\ SameControl(s, w) /\ w.slow = s.slow /\ w.since = s.since /\ w.read = s.read
      /\ Fed(s.pool) \subseteq Fed(w.pool) /\ x \in Fed(w.pool)
  BY <1>2, <1>3, PoolWithState
<1> HIDE DEF w
<1>7. n \in 0 .. RNG_POOL_SIZE
  BY <1>4, RndAssumption
<1>8. RandaddBuf(s, x, len) \in RndStates
  BY <1>5, <1>6, <1>7 DEF RndStates
<1>9. /\ SameControl(w, RandaddBuf(s, x, len)) /\ RandaddBuf(s, x, len).slow = w.slow /\ RandaddBuf(s, x, len).since = w.since
      /\ RandaddBuf(s, x, len).read = w.read /\ RandaddBuf(s, x, len).pool = w.pool /\ RandaddBuf(s, x, len).index = n
  BY <1>5, <1>6 DEF RndStates, SameControl
<1> QED BY <1>4, <1>6, <1>8, <1>9 DEF SameControl

\* A fast poll leaves a mixed pool and the cursor where it was.
LEMMA FastState ==
    ASSUME NEW s \in RndStates
    PROVE LET t == FastPoll(s)
          IN t \in RndStates /\ SameControl(s, t) /\ t.slow = s.slow /\ t.since = s.since /\ t.read = s.read /\ t.index = s.index
             /\ Fed(s.pool) \subseteq Fed(t.pool) /\ t.pool = Flat(Fed(t.pool)) /\ t.taken = FALSE
<1> DEFINE a == RandaddBuf(s, "fast", FastPollBytes)
           m == Randmix(a)
<1>1. a \in RndStates /\ SameControl(s, a) /\ a.slow = s.slow /\ a.since = s.since /\ a.read = s.read /\ Fed(s.pool) \subseteq Fed(a.pool)
  BY AddedState, RndAssumption DEF RndInputs
<1> HIDE DEF a
<1>2. /\ m \in RndStates /\ SameControl(a, m) /\ m.slow = a.slow /\ m.since = a.since /\ m.read = a.read
      /\ m.pool = Flat(Fed(a.pool)) /\ m.taken = FALSE
  BY <1>1, RandmixState
<1>3. FastPoll(s) = [m EXCEPT !.index = s.index]
  BY DEF FastPoll, a, m
<1> HIDE DEF m
<1>4. FastPoll(s) \in RndStates
  BY <1>2, <1>3 DEF RndStates
<1>5. /\ SameControl(m, FastPoll(s)) /\ FastPoll(s).slow = m.slow /\ FastPoll(s).since = m.since /\ FastPoll(s).read = m.read
      /\ FastPoll(s).pool = m.pool /\ FastPoll(s).taken = m.taken /\ FastPoll(s).index = s.index
  BY <1>2, <1>3 DEF RndStates, SameControl
<1>6. SameControl(s, FastPoll(s))
  BY <1>1, <1>2, <1>5 DEF SameControl
<1>7. Fed(m.pool) = Fed(a.pool)
  BY <1>2, FedFlat
<1> QED BY <1>1, <1>2, <1>4, <1>5, <1>6, <1>7

LEMMA SlowState ==
    ASSUME NEW s \in RndStates
    PROVE LET t == SlowPoll(s)
          IN t \in RndStates /\ SameControl(s, t) /\ t.since = {} /\ t.read = s.read
             /\ Fed(s.pool) \subseteq Fed(t.pool) /\ "slow" \in Fed(t.pool)
<1> DEFINE a == RandaddBuf(s, "slow", SlowPollBytes)
           m == Randmix(a)
<1>1. a \in RndStates /\ SameControl(s, a) /\ a.read = s.read /\ Fed(s.pool) \subseteq Fed(a.pool) /\ "slow" \in Fed(a.pool)
  BY AddedState, RndAssumption DEF RndInputs
<1> HIDE DEF a
<1>2. m \in RndStates /\ SameControl(a, m) /\ m.read = a.read /\ m.pool = Flat(Fed(a.pool))
  BY <1>1, RandmixState
<1>3. SlowPoll(s) = [m EXCEPT !.since = {}]
  BY DEF SlowPoll, a, m
<1> HIDE DEF m
<1>4. SlowPoll(s) \in RndStates
  BY <1>2, <1>3 DEF RndStates
<1>5. /\ SameControl(m, SlowPoll(s)) /\ SlowPoll(s).since = {} /\ SlowPoll(s).read = m.read /\ SlowPoll(s).pool = m.pool
  BY <1>2, <1>3 DEF RndStates, SameControl
<1>6. SameControl(s, SlowPoll(s))
  BY <1>1, <1>2, <1>5 DEF SameControl
<1>7. Fed(m.pool) = Fed(a.pool)
  BY <1>2, FedFlat
<1> QED BY <1>1, <1>2, <1>4, <1>5, <1>6, <1>7

LEMMA SlowPolledState ==
    ASSUME NEW s \in RndStates, NEW force \in BOOLEAN, s.slow => "slow" \in Fed(s.pool)
    PROVE LET t == SlowPolled(s, force)
          IN t \in RndStates /\ SameControl(s, t) /\ t.read = s.read /\ "slow" \in Fed(t.pool)
             /\ (t.since = {} \/ (t.since = s.since /\ t.index = s.index))
<1>1. CASE ~s.slow \/ force
  <2> DEFINE p == SlowPoll(s)
  <2>1. p \in RndStates /\ SameControl(s, p) /\ p.since = {} /\ p.read = s.read /\ "slow" \in Fed(p.pool)
    BY SlowState
  <2> HIDE DEF p
  <2>2. SlowPolled(s, force) = [p EXCEPT !.slow = TRUE]
    BY <1>1 DEF SlowPolled, p
  <2>3. SlowPolled(s, force) \in RndStates
    BY <2>1, <2>2 DEF RndStates
  <2>4. /\ SameControl(p, SlowPolled(s, force)) /\ SlowPolled(s, force).since = p.since /\ SlowPolled(s, force).read = p.read
        /\ SlowPolled(s, force).pool = p.pool
    BY <2>1, <2>2 DEF RndStates, SameControl
  <2> QED BY <2>1, <2>3, <2>4 DEF SameControl
<1>2. CASE s.slow /\ ~force
  BY <1>2 DEF SlowPolled, SameControl
<1> QED BY <1>1, <1>2 DEF RndStates

LEMMA TakenState ==
    ASSUME NEW s \in RndStates, NEW len \in Nat
    PROVE LET t == Taken(s, len)
          IN t \in RndStates /\ SameControl(s, t) /\ t.slow = s.slow /\ t.since = s.since /\ t.index = s.index /\ t.pool = s.pool
<1>1. (s.read + len) % RNG_POOL_SIZE \in Nat
  BY RndAssumption DEF RndStates
<1>2. Taken(s, len) \in RndStates
  BY <1>1 DEF Taken, RndStates
<1>3. /\ SameControl(s, Taken(s, len)) /\ Taken(s, len).slow = s.slow /\ Taken(s, len).since = s.since
      /\ Taken(s, len).index = s.index /\ Taken(s, len).pool = s.pool
  BY DEF Taken, RndStates, SameControl
<1> QED BY <1>2, <1>3

\* An output from a pool that is mixed depends on all that the pool was fed.
LEMMA OutputState ==
    ASSUME NEW first, NEW second, NEW len \in Nat, second.read \in Nat, second.pool \in Pools,
           second.pool = Flat(Fed(second.pool)), first.taken = FALSE, second.taken = FALSE
    PROVE LET o == Output(first, second, len)
          IN o \in Outputs /\ o.fed = Fed(second.pool) /\ o.common = Fed(second.pool) /\ o.again = FALSE
<1> DEFINE F == Fed(second.pool)
           Cm == {x \in F : \A i \in 1 .. len : x \in first.pool[ReadCells(first, len)[i]] \cup second.pool[ReadCells(second, len)[i]]}
<1>1. \A i \in 1 .. len : second.pool[ReadCells(second, len)[i]] = F
  <2> SUFFICES ASSUME NEW i \in 1 .. len PROVE second.pool[ReadCells(second, len)[i]] = F
    OBVIOUS
  <2>1. second.read + i - 1 \in Nat
    OBVIOUS
  <2>2. ReadCells(second, len)[i] \in PoolCells
    BY <2>1, CellsThere DEF ReadCells
  <2> QED BY <2>2 DEF Flat
<1>2. Cm = F
  BY <1>1
<1>3. F \in SUBSET RndInputs
  BY FedCells
<1>4. Output(first, second, len) = [common |-> Cm, fed |-> F, again |-> FALSE]
  BY DEF Output
<1> HIDE DEF Cm, F
<1> QED BY <1>2, <1>3, <1>4 DEF Outputs, F

LEMMA GivenKeeps ==
    ASSUME RndInv, NEW prog \in Programs, NEW o \in Outputs, o.fed \subseteq o.common, ~o.again,
           prog = "windows" => "slow" \in o.common, prog = "unix" => "urandom" \in o.common,
           given' = [given EXCEPT ![prog] = o]
    PROVE given' \in [Programs -> Outputs] /\ OutputDependsOnAll' /\ OutputSystemFed' /\ PoolStateNotReused'
<1> USE DEF RndInv
<1>1. given \in [Programs -> Outputs]
  BY DEF RndTypes
<1>2. given' \in [Programs -> Outputs] /\ given'[prog] = o /\ \A q \in Programs : q # prog => given'[q] = given[q]
  BY <1>1
<1>3. OutputDependsOnAll' /\ PoolStateNotReused'
  BY <1>2 DEF OutputDependsOnAll, PoolStateNotReused
<1>4. OutputSystemFed'
  BY <1>2 DEF OutputSystemFed, Programs
<1> QED BY <1>2, <1>3, <1>4

\* What a step keeps that leaves the outputs and the pool of the other program alone.
LEMMA WindowsKeeps ==
    ASSUME RndInv, UNCHANGED <<given, uxr>>, rnd' \in RndStates, SlowInv', ThreadInv', EnrichedInv', CursorInv'
    PROVE RndInv'
BY DEF RndInv, RndTypes, OutputDependsOnAll, OutputSystemFed, PoolStateNotReused

LEMMA RandgetBytesKeeps ==
    ASSUME RndInv, NEW len \in Nat, NEW force \in BOOLEAN, RandgetBytes(len, force), UNCHANGED uxr, rnd.dialog # "enrich"
    PROVE RndInv'
<1> DEFINE slow == SlowPolled(rnd, force)
           first == FastPoll(slow)
           took == Taken(first, len)
           second == FastPoll(took)
<1> USE DEF RndInv
<1>1. rnd.init /\ given' = [given EXCEPT !["windows"] = Output(first, second, len)] /\ rnd' = Taken(second, len)
  BY DEF RandgetBytes
<1>2. /\ slow \in RndStates /\ SameControl(rnd, slow) /\ "slow" \in Fed(slow.pool)
      /\ (slow.since = {} \/ (slow.since = rnd.since /\ slow.index = rnd.index))
  BY SlowPolledState DEF RndTypes, SlowInv
<1> HIDE DEF slow
<1>3. /\ first \in RndStates /\ SameControl(slow, first) /\ first.since = slow.since /\ first.index = slow.index
      /\ Fed(slow.pool) \subseteq Fed(first.pool) /\ first.taken = FALSE
  BY <1>2, FastState
<1> HIDE DEF first
<1>4. took \in RndStates /\ SameControl(first, took) /\ took.since = first.since /\ took.index = first.index /\ took.pool = first.pool
  BY <1>3, TakenState
<1> HIDE DEF took
<1>5. /\ second \in RndStates /\ SameControl(took, second) /\ second.since = took.since /\ second.index = took.index
      /\ Fed(took.pool) \subseteq Fed(second.pool) /\ second.pool = Flat(Fed(second.pool)) /\ second.taken = FALSE
  BY <1>4, FastState
<1> HIDE DEF second
<1>6. rnd' \in RndStates /\ SameControl(second, rnd') /\ rnd'.since = second.since /\ rnd'.index = second.index /\ rnd'.pool = second.pool
  BY <1>1, <1>5, TakenState
<1>7. SameControl(rnd, rnd')
  BY <1>2, <1>3, <1>4, <1>5, <1>6 DEF SameControl
<1>8. "slow" \in Fed(second.pool)
  BY <1>2, <1>3, <1>4, <1>5
<1>9. second.read \in Nat /\ second.pool \in Pools
  BY <1>5 DEF RndStates
<1> DEFINE o == Output(first, second, len)
<1>10. o \in Outputs /\ o.fed = Fed(second.pool) /\ o.common = Fed(second.pool) /\ o.again = FALSE
  BY <1>3, <1>5, <1>9, OutputState
<1> HIDE DEF o
<1>11. given' \in [Programs -> Outputs] /\ OutputDependsOnAll' /\ OutputSystemFed' /\ PoolStateNotReused'
  BY <1>1, <1>8, <1>10, GivenKeeps DEF Programs, o
<1>12. SlowInv' /\ ThreadInv'
  BY <1>6, <1>7, <1>8 DEF SlowInv, ThreadInv, SameControl
<1>13. EnrichedInv'
  BY <1>1, <1>7 DEF EnrichedInv, SameControl
<1>14. CursorInv'
  BY <1>2, <1>3, <1>4, <1>5, <1>6 DEF CursorInv
<1> QED BY <1>6, <1>11, <1>12, <1>13, <1>14 DEF RndTypes

LEMMA RndInitHolds == RndInit => RndInv
<1> SUFFICES ASSUME RndInit PROVE RndInv
  OBVIOUS
<1>1. NoRndPool \in Pools
  BY DEF NoRndPool, Pools, RndInputs
<1>2. rnd \in RndStates
  BY <1>1, RndAssumption DEF RndInit, RndStart, RndStates, Hashes
<1>3. uxr \in UxrStates
  BY <1>1 DEF RndInit, UxrStart, UxrStates, Hashes
<1>4. NoOutput \in Outputs
  BY DEF NoOutput, Outputs, RndInputs
<1>5. given \in [Programs -> Outputs] /\ \A p \in Programs : given[p] = NoOutput
  BY <1>4 DEF RndInit
<1>6. OutputDependsOnAll /\ OutputSystemFed /\ PoolStateNotReused
  BY <1>5 DEF OutputDependsOnAll, OutputSystemFed, PoolStateNotReused, NoOutput, Programs
<1>7. SlowInv /\ ThreadInv /\ EnrichedInv /\ CursorInv
  BY RndAssumption DEF RndInit, RndStart, SlowInv, ThreadInv, EnrichedInv, CursorInv
<1> QED BY <1>2, <1>3, <1>5, <1>6, <1>7 DEF RndInv, RndTypes

LEMMA EventState ==
    ASSUME NEW s \in RndStates, NEW x \in RndInputs
    PROVE LET t == AddEvent(s, x)
          IN /\ t \in RndStates /\ t.init = s.init /\ t.enriched = s.enriched /\ t.hooks = s.hooks /\ t.thread = s.thread
             /\ t.terminate = s.terminate /\ t.stopping = s.stopping /\ t.section = s.section /\ t.dialog = s.dialog
             /\ t.mouse = s.mouse /\ t.key = s.key
             /\ t.slow = s.slow /\ t.moved /\ Fed(s.pool) \subseteq Fed(t.pool) /\ t.index \in 1 .. RNG_POOL_SIZE
             /\ t.since = IF t.index <= s.index \/ t.index = RNG_POOL_SIZE THEN {} ELSE s.since \cup {s.index}
<1> DEFINE a == RandaddBuf(s, x, EventBytes)
           f(t) == [t EXCEPT !.moved = TRUE,
                             !.since = IF t.index <= s.index \/ t.index = RNG_POOL_SIZE THEN {} ELSE @ \cup {s.index}]
           n == IF a.index <= s.index \/ a.index = RNG_POOL_SIZE THEN {} ELSE s.since \cup {s.index}
<1>1. {f(t) : t \in {a}} = {f(a)}
  OBVIOUS
<1>2. AddEvent(s, x) = f(a)
  BY <1>1, TheOne DEF AddEvent
<1>3. a \in RndStates /\ SameControl(s, a) /\ a.slow = s.slow /\ a.since = s.since /\ Fed(s.pool) \subseteq Fed(a.pool) /\ a.index \in 1 .. RNG_POOL_SIZE
  BY AddedState, RndAssumption
<1>4. AddEvent(s, x) = [a EXCEPT !.moved = TRUE, !.since = n]
  BY <1>2, <1>3 DEF RndStates
<1>5. n \in SUBSET Nat
  BY DEF RndStates
<1> HIDE DEF a, n
<1>6. AddEvent(s, x) \in RndStates
  BY <1>3, <1>4, <1>5 DEF RndStates
<1>7. LET t == AddEvent(s, x)
      IN /\ t.init = a.init /\ t.enriched = a.enriched /\ t.hooks = a.hooks /\ t.thread = a.thread
         /\ t.terminate = a.terminate /\ t.stopping = a.stopping /\ t.section = a.section /\ t.dialog = a.dialog
         /\ t.mouse = a.mouse /\ t.key = a.key
         /\ t.slow = a.slow /\ t.moved /\ t.pool = a.pool /\ t.index = a.index /\ t.since = n
  BY <1>3, <1>4 DEF RndStates
<1> QED BY <1>3, <1>6, <1>7 DEF SameControl, n

LEMMA MouseKeeps ==
    ASSUME RndInv, NEW e \in MouseEvents, rnd.stopping = "no", MouseProc(e)
    PROVE RndInv'
<1> USE DEF RndInv
<1> DEFINE t == AddEvent(rnd, e)
           m == <<e, t.mouse[1]>>
<1>1. rnd.hooks /\ rnd' = [t EXCEPT !.mouse = m] /\ UNCHANGED <<uxr, given>>
  BY DEF MouseProc
<1>2. /\ t \in RndStates /\ t.init = rnd.init /\ t.enriched = rnd.enriched /\ t.hooks = rnd.hooks /\ t.thread = rnd.thread
      /\ t.stopping = rnd.stopping /\ t.section = rnd.section /\ t.dialog = rnd.dialog /\ t.mouse = rnd.mouse
      /\ t.slow = rnd.slow /\ t.moved /\ Fed(rnd.pool) \subseteq Fed(t.pool) /\ t.index \in 1 .. RNG_POOL_SIZE
      /\ t.since = IF t.index <= rnd.index \/ t.index = RNG_POOL_SIZE THEN {} ELSE rnd.since \cup {rnd.index}
  BY EventState DEF RndTypes, RndInputs
<1> HIDE DEF t
<1>3. m \in (MouseEvents \cup {"none"}) \X (MouseEvents \cup {"none"})
  BY <1>2 DEF RndStates
<1> HIDE DEF m
<1>4. rnd' \in RndStates
  BY <1>1, <1>2, <1>3 DEF RndStates
<1>5. /\ rnd'.init = t.init /\ rnd'.enriched = t.enriched /\ rnd'.hooks = t.hooks /\ rnd'.thread = t.thread
      /\ rnd'.stopping = t.stopping /\ rnd'.section = t.section /\ rnd'.dialog = t.dialog /\ rnd'.pool = t.pool
      /\ rnd'.slow = t.slow /\ rnd'.moved = t.moved /\ rnd'.index = t.index /\ rnd'.since = t.since
  BY <1>1, <1>2 DEF RndStates
<1>6. SlowInv' /\ ThreadInv' /\ EnrichedInv'
  BY <1>1, <1>2, <1>5 DEF SlowInv, ThreadInv, EnrichedInv
<1>7. rnd.index \in Nat /\ rnd.since \in SUBSET Nat /\ RNG_POOL_SIZE \in Nat
  BY RndAssumption DEF RndTypes, RndStates
<1>8. CursorInv'
  BY <1>2, <1>5, <1>7 DEF CursorInv
<1> QED BY <1>1, <1>4, <1>6, <1>8, WindowsKeeps

LEMMA KeyboardKeeps ==
    ASSUME RndInv, NEW k \in KeyEvents, rnd.stopping = "no", KeyboardProc(k)
    PROVE RndInv'
<1> USE DEF RndInv
<1> DEFINE t == AddEvent(rnd, k)
           m == <<k, t.key[1]>>
<1>1. rnd.hooks /\ rnd' = [t EXCEPT !.key = m] /\ UNCHANGED <<uxr, given>>
  BY DEF KeyboardProc
<1>2. /\ t \in RndStates /\ t.init = rnd.init /\ t.enriched = rnd.enriched /\ t.hooks = rnd.hooks /\ t.thread = rnd.thread
      /\ t.stopping = rnd.stopping /\ t.section = rnd.section /\ t.dialog = rnd.dialog /\ t.key = rnd.key
      /\ t.slow = rnd.slow /\ t.moved /\ Fed(rnd.pool) \subseteq Fed(t.pool) /\ t.index \in 1 .. RNG_POOL_SIZE
      /\ t.since = IF t.index <= rnd.index \/ t.index = RNG_POOL_SIZE THEN {} ELSE rnd.since \cup {rnd.index}
  BY EventState DEF RndTypes, RndInputs
<1> HIDE DEF t
<1>3. m \in (KeyEvents \cup {"none"}) \X (KeyEvents \cup {"none"})
  BY <1>2 DEF RndStates
<1> HIDE DEF m
<1>4. rnd' \in RndStates
  BY <1>1, <1>2, <1>3 DEF RndStates
<1>5. /\ rnd'.init = t.init /\ rnd'.enriched = t.enriched /\ rnd'.hooks = t.hooks /\ rnd'.thread = t.thread
      /\ rnd'.stopping = t.stopping /\ rnd'.section = t.section /\ rnd'.dialog = t.dialog /\ rnd'.pool = t.pool
      /\ rnd'.slow = t.slow /\ rnd'.moved = t.moved /\ rnd'.index = t.index /\ rnd'.since = t.since
  BY <1>1, <1>2 DEF RndStates
<1>6. SlowInv' /\ ThreadInv' /\ EnrichedInv'
  BY <1>1, <1>2, <1>5 DEF SlowInv, ThreadInv, EnrichedInv
<1>7. rnd.index \in Nat /\ rnd.since \in SUBSET Nat /\ RNG_POOL_SIZE \in Nat
  BY RndAssumption DEF RndTypes, RndStates
<1>8. CursorInv'
  BY <1>2, <1>5, <1>7 DEF CursorInv
<1> QED BY <1>1, <1>4, <1>6, <1>8, WindowsKeeps

-----------------------------------------------------------------------------
\* What Randinit leaves, whether it succeeds or not.
InitResult(t) ==
    /\ t \in RndStates /\ t.dialog = "none" /\ t.stopping = "no"
    /\ t.slow => "slow" \in Fed(t.pool)
    /\ t.thread = "runs" => t.section /\ t.init
    /\ t.init => t.hooks
    /\ t.enriched /\ (t.init \/ t.pool # NoRndPool) => t.moved
    /\ t.init \/ t.pool = NoRndPool
    /\ \A c \in t.since : c < t.index
    /\ t.index = RNG_POOL_SIZE => t.since = {}

LEMMA AllocatedState ==
    ASSUME RndInv, ~rnd.init, rnd.dialog = "none", rnd.stopping = "no"
    PROVE LET t == Allocated(rnd)
          IN /\ t \in RndStates /\ t.dialog = "none" /\ t.stopping = "no" /\ t.thread # "runs" /\ (t.slow => "slow" \in Fed(t.pool))
             /\ (t.enriched => t.moved) /\ (\A c \in t.since : c < t.index) /\ (t.index = RNG_POOL_SIZE => t.since = {})
<1> USE DEF RndInv
<1>0. rnd \in RndStates /\ rnd.thread # "runs"
  BY DEF RndTypes, ThreadInv
<1>1. CASE rnd.pool = NoRndPool
  <2>1. ZeroPool \in Pools
    BY DEF ZeroPool, Pools
  <2>2. Allocated(rnd) = [rnd EXCEPT !.pool = ZeroPool, !.slow = FALSE, !.enriched = FALSE, !.moved = FALSE, !.taken = FALSE, !.since = {}]
    BY <1>1 DEF Allocated
  <2>3. Allocated(rnd) \in RndStates
    BY <1>0, <2>1, <2>2 DEF RndStates
  <2> QED BY <1>0, <2>2, <2>3 DEF RndStates
<1>2. CASE rnd.pool # NoRndPool
  BY <1>0, <1>2 DEF Allocated, SlowInv, EnrichedInv, CursorInv
<1> QED BY <1>1, <1>2

LEMMA RandinitState ==
    ASSUME RndInv, rnd.dialog = "none", rnd.stopping = "no", NEW ok \in BOOLEAN
    PROVE InitResult(RandinitFrom(rnd, ok)) /\ (ok \/ rnd.init => RandinitFrom(rnd, ok).init)
<1> USE DEF RndInv
<1>0. NoRndPool \in Pools
  BY DEF NoRndPool, Pools, RndInputs
<1>1. CASE rnd.init
  BY <1>1 DEF RandinitFrom, InitResult, RndTypes, SlowInv, ThreadInv, EnrichedInv, CursorInv
<1>2. CASE ~rnd.init
  <2> DEFINE t == Allocated(rnd)
  <2>1. /\ t \in RndStates /\ t.dialog = "none" /\ t.stopping = "no" /\ t.thread # "runs" /\ (t.slow => "slow" \in Fed(t.pool))
        /\ (t.enriched => t.moved) /\ (\A c \in t.since : c < t.index) /\ (t.index = RNG_POOL_SIZE => t.since = {})
    BY <1>2, AllocatedState
  <2>2. CASE ok
    <3> DEFINE u == [t EXCEPT !.init = TRUE, !.section = TRUE, !.hooks = TRUE, !.thread = "runs"]
    <3>1. RandinitFrom(rnd, ok) = u
      BY <1>2, <2>2 DEF RandinitFrom
    <3> HIDE DEF t
    <3>2. u \in RndStates
      BY <2>1 DEF RndStates
    <3>3. /\ u.dialog = t.dialog /\ u.stopping = t.stopping /\ u.slow = t.slow /\ u.pool = t.pool /\ u.section /\ u.init /\ u.hooks
          /\ u.enriched = t.enriched /\ u.moved = t.moved /\ u.since = t.since /\ u.index = t.index
      BY <2>1 DEF RndStates
    <3> HIDE DEF u
    <3> QED BY <2>1, <3>1, <3>2, <3>3 DEF InitResult
  <2>3. CASE ~ok
    <3> DEFINE u == [t EXCEPT !.init = TRUE, !.section = TRUE]
               v == [u EXCEPT !.hooks = FALSE, !.terminate = FALSE, !.section = FALSE, !.init = FALSE, !.stopping = "no"]
               w == [v EXCEPT !.slow = FALSE, !.enriched = FALSE, !.pool = NoRndPool]
    <3>1. RandinitFrom(rnd, ok) = w
      BY <1>2, <2>3 DEF RandinitFrom, Stopped, FreePool
    <3> HIDE DEF t
    <3>2. u \in RndStates /\ u.dialog = t.dialog /\ u.thread = t.thread /\ u.since = t.since /\ u.index = t.index
      BY <2>1 DEF RndStates
    <3> HIDE DEF u
    <3>3. v \in RndStates /\ v.dialog = u.dialog /\ v.thread = u.thread /\ v.since = u.since /\ v.index = u.index /\ v.stopping = "no"
      BY <3>2 DEF RndStates
    <3> HIDE DEF v
    <3>4. w \in RndStates
      BY <1>0, <3>3 DEF RndStates
    <3>5. /\ w.dialog = v.dialog /\ w.thread = v.thread /\ w.since = v.since /\ w.index = v.index /\ w.stopping = v.stopping
          /\ ~w.slow /\ ~w.enriched /\ w.pool = NoRndPool
      BY <3>3 DEF RndStates
    <3>6. ~w.init
      BY <2>1, <3>2, <3>3 DEF RndStates, v
    <3> HIDE DEF w
    <3> QED BY <1>2, <2>1, <2>3, <3>1, <3>2, <3>3, <3>4, <3>5, <3>6 DEF InitResult
  <2> QED BY <2>2, <2>3
<1> QED BY <1>1, <1>2

\* A dialog opened after Randinit, or none.
LEMMA InitResultKeeps ==
    ASSUME RndInv, UNCHANGED <<given, uxr>>, NEW t, InitResult(t), NEW d \in {"none", "enrich", "keyfile"},
           rnd' = [t EXCEPT !.dialog = d]
    PROVE RndInv'
<1> USE DEF RndInv
<1>1. rnd' \in RndStates
  BY DEF InitResult, RndStates
<1>2. /\ rnd'.dialog = d /\ rnd'.stopping = t.stopping /\ rnd'.slow = t.slow /\ rnd'.pool = t.pool /\ rnd'.thread = t.thread
      /\ rnd'.section = t.section /\ rnd'.init = t.init /\ rnd'.hooks = t.hooks /\ rnd'.enriched = t.enriched
      /\ rnd'.moved = t.moved /\ rnd'.since = t.since /\ rnd'.index = t.index
  BY DEF InitResult, RndStates
<1>3. SlowInv' /\ ThreadInv' /\ EnrichedInv' /\ CursorInv'
  BY <1>2 DEF InitResult, SlowInv, ThreadInv, EnrichedInv, CursorInv
<1> QED BY <1>1, <1>3, WindowsKeeps

LEMMA RandinitKeeps ==
    ASSUME RndInv, rnd.dialog = "none", rnd.stopping = "no", UNCHANGED uxr, NEW ok \in BOOLEAN,
           Randinit(ok) \/ UserEnrichRandomPool(ok) \/ KeyfileGenerator(ok)
    PROVE RndInv'
<1> DEFINE t == RandinitFrom(rnd, ok)
<1>1. InitResult(t)
  BY RandinitState
<1>2. rnd' = t \/ rnd' = [t EXCEPT !.dialog = "enrich"] \/ rnd' = [t EXCEPT !.dialog = "keyfile"]
  BY DEF Randinit, UserEnrichRandomPool, KeyfileGenerator
<1>3. UNCHANGED given
  BY DEF Randinit, UserEnrichRandomPool, KeyfileGenerator
<1> HIDE DEF t
<1>4. t = [t EXCEPT !.dialog = "none"]
  BY <1>1 DEF InitResult, RndStates
<1>5. \E d \in {"none", "enrich", "keyfile"} : rnd' = [t EXCEPT !.dialog = d]
  BY <1>2, <1>4
<1> QED BY <1>1, <1>3, <1>5, InitResultKeeps

LEMMA RandStopKeeps ==
    ASSUME RndInv, rnd.dialog = "none", rnd.stopping = "no", UNCHANGED uxr, NEW free \in BOOLEAN, RandStop(free)
    PROVE RndInv'
<1> USE DEF RndInv
<1>0. rnd \in RndStates /\ NoRndPool \in Pools /\ UNCHANGED given
  BY DEF RndTypes, NoRndPool, Pools, RndInputs, RandStop
<1>1. CASE rnd.init
  <2> DEFINE st == IF free THEN "free" ELSE "keep"
  <2>1. st \in {"free", "keep"}
    OBVIOUS
  <2>2. rnd' = [rnd EXCEPT !.hooks = FALSE, !.terminate = TRUE, !.stopping = st]
    BY <1>1 DEF RandStop
  <2> HIDE DEF st
  <2>3. rnd' \in RndStates
    BY <1>0, <2>1, <2>2 DEF RndStates
  <2>4. /\ rnd'.init = rnd.init /\ rnd'.pool = rnd.pool /\ rnd'.slow = rnd.slow /\ rnd'.thread = rnd.thread /\ rnd'.section = rnd.section
        /\ rnd'.enriched = rnd.enriched /\ rnd'.moved = rnd.moved /\ rnd'.dialog = rnd.dialog /\ rnd'.since = rnd.since
        /\ rnd'.index = rnd.index /\ rnd'.stopping = st
    BY <1>0, <2>2 DEF RndStates
  <2>5. SlowInv' /\ ThreadInv' /\ EnrichedInv' /\ CursorInv'
    BY <2>1, <2>4 DEF SlowInv, ThreadInv, EnrichedInv, CursorInv
  <2> QED BY <1>0, <2>3, <2>5, WindowsKeeps
<1>2. CASE ~rnd.init /\ free /\ rnd.pool # NoRndPool
  <2>1. rnd' = [rnd EXCEPT !.slow = FALSE, !.enriched = FALSE, !.pool = NoRndPool]
    BY <1>2 DEF RandStop, FreePool
  <2>2. rnd' \in RndStates
    BY <1>0, <2>1 DEF RndStates
  <2>3. /\ rnd'.init = rnd.init /\ ~rnd'.slow /\ rnd'.thread = rnd.thread /\ rnd'.section = rnd.section /\ rnd'.hooks = rnd.hooks
        /\ ~rnd'.enriched /\ rnd'.dialog = rnd.dialog /\ rnd'.since = rnd.since /\ rnd'.index = rnd.index
        /\ rnd'.stopping = rnd.stopping
    BY <1>0, <2>1 DEF RndStates
  <2>4. SlowInv' /\ ThreadInv' /\ EnrichedInv' /\ CursorInv'
    BY <2>3 DEF SlowInv, ThreadInv, EnrichedInv, CursorInv
  <2> QED BY <1>0, <2>2, <2>4, WindowsKeeps
<1>3. CASE ~rnd.init /\ ~(free /\ rnd.pool # NoRndPool)
  <2>1. rnd' = rnd
    BY <1>3 DEF RandStop
  <2> QED BY <1>0, <2>1, WindowsKeeps DEF SlowInv, ThreadInv, EnrichedInv, CursorInv
<1> QED BY <1>1, <1>2, <1>3

LEMMA RandStopEndKeeps ==
    ASSUME RndInv, RandStopEnd
    PROVE RndInv'
<1> USE DEF RndInv
<1> DEFINE t == [rnd EXCEPT !.hooks = FALSE, !.terminate = FALSE, !.section = FALSE, !.init = FALSE, !.stopping = "no"]
<1>0. /\ rnd \in RndStates /\ NoRndPool \in Pools /\ UNCHANGED <<uxr, given>> /\ rnd.stopping # "no" /\ rnd.thread # "runs"
      /\ rnd' = IF rnd.stopping = "free" THEN FreePool(t) ELSE t
  BY DEF RndTypes, NoRndPool, Pools, RndInputs, RandStopEnd, Stopped
<1>1. t \in RndStates
  BY <1>0 DEF RndStates
<1>2. /\ ~t.init /\ t.pool = rnd.pool /\ t.slow = rnd.slow /\ t.thread = rnd.thread /\ t.stopping = "no"
      /\ t.enriched = rnd.enriched /\ t.moved = rnd.moved /\ t.dialog = rnd.dialog /\ t.since = rnd.since /\ t.index = rnd.index
  BY <1>0 DEF RndStates
<1>3. rnd.dialog # "enrich"
  BY <1>0 DEF EnrichedInv
<1> HIDE DEF t
<1>4. NoRndPool \in Pools
  BY <1>0
<1>5. CASE rnd.stopping = "free"
  <2>1. rnd' = [t EXCEPT !.slow = FALSE, !.enriched = FALSE, !.pool = NoRndPool]
    BY <1>0, <1>5 DEF FreePool
  <2>2. rnd' \in RndStates
    BY <1>1, <1>4, <2>1 DEF RndStates
  <2>3. /\ rnd'.init = t.init /\ ~rnd'.slow /\ rnd'.thread = t.thread /\ ~rnd'.enriched /\ rnd'.dialog = t.dialog
        /\ rnd'.since = t.since /\ rnd'.index = t.index
    BY <1>1, <2>1 DEF RndStates
  <2>4. SlowInv' /\ ThreadInv' /\ EnrichedInv' /\ CursorInv'
    BY <1>0, <1>2, <1>3, <2>3 DEF SlowInv, ThreadInv, EnrichedInv, CursorInv
  <2> QED BY <1>0, <2>2, <2>4, WindowsKeeps
<1>6. CASE rnd.stopping # "free"
  <2>1. rnd' = t
    BY <1>0, <1>6
  <2>2. SlowInv' /\ ThreadInv' /\ EnrichedInv' /\ CursorInv'
    BY <1>0, <1>2, <1>3, <2>1 DEF SlowInv, ThreadInv, EnrichedInv, CursorInv
  <2> QED BY <1>0, <1>1, <2>1, <2>2, WindowsKeeps
<1> QED BY <1>5, <1>6

LEMMA PeriodicKeeps ==
    ASSUME RndInv, PeriodicFastPollThreadProc
    PROVE RndInv'
<1> USE DEF RndInv
<1>0. rnd \in RndStates /\ UNCHANGED <<uxr, given>> /\ rnd.thread = "runs"
  BY DEF RndTypes, PeriodicFastPollThreadProc
<1>1. CASE rnd.terminate
  <2>1. rnd' = [rnd EXCEPT !.terminate = FALSE, !.thread = "ended"]
    BY <1>1 DEF PeriodicFastPollThreadProc
  <2>2. rnd' \in RndStates
    BY <1>0, <2>1 DEF RndStates
  <2>3. /\ rnd'.init = rnd.init /\ rnd'.pool = rnd.pool /\ rnd'.slow = rnd.slow /\ rnd'.thread = "ended" /\ rnd'.hooks = rnd.hooks
        /\ rnd'.enriched = rnd.enriched /\ rnd'.moved = rnd.moved /\ rnd'.dialog = rnd.dialog /\ rnd'.since = rnd.since
        /\ rnd'.index = rnd.index /\ rnd'.stopping = rnd.stopping
    BY <1>0, <2>1 DEF RndStates
  <2>4. SlowInv' /\ ThreadInv' /\ EnrichedInv' /\ CursorInv'
    BY <2>3 DEF SlowInv, ThreadInv, EnrichedInv, CursorInv
  <2> QED BY <1>0, <2>2, <2>4, WindowsKeeps
<1>2. CASE ~rnd.terminate
  <2>1. rnd' = FastPoll(rnd)
    BY <1>2 DEF PeriodicFastPollThreadProc
  <2>2. /\ rnd' \in RndStates /\ SameControl(rnd, rnd') /\ rnd'.slow = rnd.slow /\ rnd'.since = rnd.since /\ rnd'.index = rnd.index
        /\ Fed(rnd.pool) \subseteq Fed(rnd'.pool)
    BY <1>0, <2>1, FastState
  <2>3. SlowInv' /\ ThreadInv' /\ EnrichedInv' /\ CursorInv'
    BY <1>0, <2>2 DEF SlowInv, ThreadInv, EnrichedInv, CursorInv, SameControl
  <2> QED BY <1>0, <2>2, <2>3, WindowsKeeps
<1> QED BY <1>1, <1>2

LEMMA RandSetHashKeeps ==
    ASSUME RndInv, UNCHANGED uxr, NEW h \in DOMAIN DigestSize, RandSetHashFunction(h)
    PROVE RndInv'
<1> USE DEF RndInv
<1>1. rnd \in RndStates /\ UNCHANGED given /\ rnd' = [rnd EXCEPT !.hash = h] /\ h \in Hashes
  BY DEF RndTypes, RandSetHashFunction, DigestSize, Hashes
<1>2. rnd' \in RndStates
  BY <1>1 DEF RndStates
<1>3. /\ rnd'.init = rnd.init /\ rnd'.pool = rnd.pool /\ rnd'.slow = rnd.slow /\ rnd'.thread = rnd.thread /\ rnd'.hooks = rnd.hooks
      /\ rnd'.section = rnd.section /\ rnd'.enriched = rnd.enriched /\ rnd'.moved = rnd.moved /\ rnd'.dialog = rnd.dialog
      /\ rnd'.since = rnd.since /\ rnd'.index = rnd.index /\ rnd'.stopping = rnd.stopping
  BY <1>1 DEF RndStates
<1>4. SlowInv' /\ ThreadInv' /\ EnrichedInv' /\ CursorInv'
  BY <1>3 DEF SlowInv, ThreadInv, EnrichedInv, CursorInv
<1> QED BY <1>1, <1>2, <1>4, WindowsKeeps

LEMMA DialogsKeep ==
    ASSUME RndInv, KeyfileDialogEnds \/ \E r \in {"OK", "close"} : EnrichDialogEnds(r)
    PROVE RndInv'
<1> USE DEF RndInv
<1>0. rnd \in RndStates /\ UNCHANGED <<uxr, given>>
  BY DEF RndTypes, KeyfileDialogEnds, EnrichDialogEnds
<1>1. ASSUME NEW r \in {"OK", "close"}, EnrichDialogEnds(r) PROVE RndInv'
  <2>1. /\ rnd.dialog = "enrich" /\ (r = "OK" /\ rnd.hooks => rnd.moved)
        /\ rnd' = [rnd EXCEPT !.dialog = "none", !.enriched = (r = "OK")]
    BY <1>1 DEF EnrichDialogEnds
  <2>2. rnd' \in RndStates
    BY <1>0, <2>1 DEF RndStates
  <2>3. /\ rnd'.init = rnd.init /\ rnd'.pool = rnd.pool /\ rnd'.slow = rnd.slow /\ rnd'.thread = rnd.thread /\ rnd'.hooks = rnd.hooks
        /\ rnd'.section = rnd.section /\ rnd'.moved = rnd.moved /\ rnd'.dialog = "none"
        /\ rnd'.since = rnd.since /\ rnd'.index = rnd.index /\ rnd'.stopping = rnd.stopping /\ (rnd'.enriched => r = "OK")
    BY <1>0, <2>1 DEF RndStates
  <2>4. SlowInv' /\ ThreadInv' /\ EnrichedInv' /\ CursorInv'
    BY <2>1, <2>3 DEF SlowInv, ThreadInv, EnrichedInv, CursorInv
  <2> QED BY <1>0, <2>2, <2>4, WindowsKeeps
<1>2. CASE KeyfileDialogEnds
  <2>1. /\ rnd.dialog = "keyfile"
        /\ rnd' = [rnd EXCEPT !.dialog = "none", !.hooks = FALSE, !.terminate = TRUE, !.stopping = "keep"]
    BY <1>2 DEF KeyfileDialogEnds
  <2>2. rnd' \in RndStates
    BY <1>0, <2>1 DEF RndStates
  <2>3. /\ rnd'.init = rnd.init /\ rnd'.pool = rnd.pool /\ rnd'.slow = rnd.slow /\ rnd'.thread = rnd.thread
        /\ rnd'.section = rnd.section /\ rnd'.enriched = rnd.enriched /\ rnd'.moved = rnd.moved /\ rnd'.dialog = "none"
        /\ rnd'.since = rnd.since /\ rnd'.index = rnd.index /\ rnd'.stopping = "keep"
    BY <1>0, <2>1 DEF RndStates
  <2>4. SlowInv' /\ ThreadInv' /\ EnrichedInv' /\ CursorInv'
    BY <2>1, <2>3 DEF SlowInv, ThreadInv, EnrichedInv, CursorInv
  <2> QED BY <1>0, <2>2, <2>4, WindowsKeeps
<1> QED BY <1>1, <1>2

-----------------------------------------------------------------------------
\* The pool of the other systems.
UnixSame(s, t) == t.run = s.run /\ t.hash = s.hash /\ t.enriched = s.enriched /\ t.read = s.read

LEMMA UxRandmixState ==
    ASSUME NEW s \in UxrStates
    PROVE LET t == Randmix(s)
          IN /\ t \in UxrStates /\ UnixSame(s, t) /\ t.index = s.index /\ t.added = s.added
             /\ t.pool = Flat(Fed(s.pool)) /\ t.taken = FALSE
<1>1. s.pool \in Pools /\ s.hash \in Hashes
  BY DEF UxrStates
<1>2. MixedPool(s.pool, s.hash) = Flat(Fed(s.pool)) /\ Flat(Fed(s.pool)) \in Pools
  BY <1>1, MixFlat
<1>3. Randmix(s) = [s EXCEPT !.pool = Flat(Fed(s.pool)), !.taken = FALSE]
  BY <1>2, RandmixIs
<1>4. Randmix(s) \in UxrStates
  BY <1>2, <1>3 DEF UxrStates
<1> QED BY <1>3, <1>4 DEF UxrStates, UnixSame

LEMMA UxPoolWithState ==
    ASSUME NEW s \in UxrStates, NEW cells \in SUBSET PoolCells, cells # {}, NEW x \in RndInputs, NEW mixes \in BOOLEAN
    PROVE LET t == PoolWith(s, cells, x, mixes)
          IN /\ t \in UxrStates /\ UnixSame(s, t) /\ t.index = s.index /\ t.added = s.added
             /\ Fed(s.pool) \subseteq Fed(t.pool) /\ x \in Fed(t.pool)
<1> DEFINE w == [s EXCEPT !.pool = WithInput(s.pool, cells, x)]
<1>1. s.pool \in Pools
  BY DEF UxrStates
<1>2. WithInput(s.pool, cells, x) \in Pools /\ Fed(s.pool) \subseteq Fed(WithInput(s.pool, cells, x)) /\ x \in Fed(WithInput(s.pool, cells, x))
  BY <1>1, InputFed
<1>3. w \in UxrStates /\ w.pool = WithInput(s.pool, cells, x)
  BY <1>2 DEF UxrStates
<1>4. UnixSame(s, w) /\ w.index = s.index /\ w.added = s.added
  BY DEF UxrStates, UnixSame
<1>5. PoolWith(s, cells, x, mixes) = IF mixes THEN Randmix(w) ELSE w
  BY PoolWithIs
<1> HIDE DEF w
<1>6. CASE ~mixes
  BY <1>2, <1>3, <1>4, <1>5, <1>6
<1>7. CASE mixes
  <2>1. /\ Randmix(w) \in UxrStates /\ UnixSame(w, Randmix(w)) /\ Randmix(w).index = w.index /\ Randmix(w).added = w.added
        /\ Randmix(w).pool = Flat(Fed(w.pool))
    BY <1>3, UxRandmixState
  <2>2. Fed(Randmix(w).pool) = Fed(w.pool)
    BY <2>1, FedFlat
  <2>3. UnixSame(s, Randmix(w))
    BY <1>4, <2>1 DEF UnixSame
  <2> QED BY <1>2, <1>3, <1>4, <1>5, <1>7, <2>1, <2>2, <2>3
<1> QED BY <1>6, <1>7

LEMMA AddToPoolState ==
    ASSUME NEW s \in UxrStates, NEW x \in RndInputs, NEW len \in Nat \ {0}
    PROVE LET t == AddToPool(s, x, len)
          IN t \in UxrStates /\ UnixSame(s, t) /\ Fed(s.pool) \subseteq Fed(t.pool) /\ x \in Fed(t.pool)
<1> DEFINE cells == Written(s.index, len)
           mixes == s.added + len >= RANDMIX_BYTE_INTERVAL
           w == PoolWith(s, cells, x, mixes)
           i == (w.index + len) % RNG_POOL_SIZE
           n == (w.added + len) % RANDMIX_BYTE_INTERVAL
<1>1. s.index \in Nat
  BY DEF UxrStates
<1>2. cells \in SUBSET PoolCells /\ cells # {}
  BY <1>1, WrittenCells
<1>3. mixes \in BOOLEAN
  OBVIOUS
<1>4. AddToPool(s, x, len) = [w EXCEPT !.index = i, !.added = n]
  BY DEF AddToPool
<1> HIDE DEF cells, mixes
<1>5. w \in UxrStates /\ UnixSame(s, w) /\ Fed(s.pool) \subseteq Fed(w.pool) /\ x \in Fed(w.pool)
  BY <1>2, <1>3, UxPoolWithState
<1> HIDE DEF w
<1>6. w.index \in Nat /\ w.added \in Nat
  BY <1>5 DEF UxrStates
<1>7. i \in Nat /\ n \in Nat
  BY <1>6, RndAssumption
<1> HIDE DEF i, n
<1>8. AddToPool(s, x, len) \in UxrStates
  BY <1>4, <1>5, <1>7 DEF UxrStates
<1>9. UnixSame(w, AddToPool(s, x, len)) /\ AddToPool(s, x, len).pool = w.pool
  BY <1>4, <1>5 DEF UxrStates, UnixSame
<1> QED BY <1>5, <1>8, <1>9 DEF UnixSame

\* The system's data reach the pool.
LEMMA SystemDataState ==
    ASSUME NEW s \in UxrStates, NEW fast \in BOOLEAN
    PROVE LET t == AddSystemDataToPool(s, fast)
          IN t \in UxrStates /\ UnixSame(s, t) /\ Fed(s.pool) \subseteq Fed(t.pool) /\ "urandom" \in Fed(t.pool)
<1> DEFINE a == AddToPool(s, "urandom", RNG_POOL_SIZE)
           b == AddToPool(a, "urandom", RNG_POOL_SIZE)
<1>0. "urandom" \in RndInputs /\ RNG_POOL_SIZE \in Nat \ {0}
  BY RndAssumption DEF RndInputs
<1>1. a \in UxrStates /\ UnixSame(s, a) /\ Fed(s.pool) \subseteq Fed(a.pool) /\ "urandom" \in Fed(a.pool)
  BY <1>0, AddToPoolState
<1> HIDE DEF a
<1>2. b \in UxrStates /\ UnixSame(a, b) /\ Fed(a.pool) \subseteq Fed(b.pool) /\ "urandom" \in Fed(b.pool)
  BY <1>0, <1>1, AddToPoolState
<1>3. UnixSame(s, b)
  BY <1>1, <1>2 DEF UnixSame
<1>4. AddSystemDataToPool(s, fast) = IF fast THEN a ELSE b
  BY DEF AddSystemDataToPool, a, b
<1> HIDE DEF b
<1> QED BY <1>1, <1>2, <1>3, <1>4

LEMMA HashMixState ==
    ASSUME NEW s \in UxrStates
    PROVE LET t == HashMixPool(s)
          IN t \in UxrStates /\ UnixSame(s, t) /\ t.pool = Flat(Fed(s.pool)) /\ Fed(t.pool) = Fed(s.pool) /\ t.taken = FALSE
<1> DEFINE m == Randmix(s)
<1>1. m \in UxrStates /\ UnixSame(s, m) /\ m.pool = Flat(Fed(s.pool)) /\ m.taken = FALSE
  BY UxRandmixState
<1>2. HashMixPool(s) = [m EXCEPT !.added = 0]
  BY DEF HashMixPool
<1> HIDE DEF m
<1>3. HashMixPool(s) \in UxrStates
  BY <1>1, <1>2 DEF UxrStates
<1>4. UnixSame(m, HashMixPool(s)) /\ HashMixPool(s).pool = m.pool /\ HashMixPool(s).taken = m.taken
  BY <1>1, <1>2 DEF UxrStates, UnixSame
<1>5. Fed(Flat(Fed(s.pool))) = Fed(s.pool)
  BY FedFlat
<1> QED BY <1>1, <1>3, <1>4, <1>5 DEF UnixSame

LEMMA UxTakenState ==
    ASSUME NEW s \in UxrStates, NEW len \in Nat
    PROVE Taken(s, len) \in UxrStates /\ Taken(s, len).pool = s.pool
<1>1. (s.read + len) % RNG_POOL_SIZE \in Nat
  BY RndAssumption DEF UxrStates
<1> QED BY <1>1 DEF Taken, UxrStates

\* What a step keeps that leaves the outputs and the pool of the Windows program alone.
LEMMA UnixKeeps ==
    ASSUME RndInv, UNCHANGED rnd, uxr' \in UxrStates,
           UNCHANGED given \/ (given' \in [Programs -> Outputs] /\ OutputDependsOnAll' /\ OutputSystemFed' /\ PoolStateNotReused')
    PROVE RndInv'
BY DEF RndInv, RndTypes, OutputDependsOnAll, OutputSystemFed, PoolStateNotReused, SlowInv, ThreadInv, EnrichedInv, CursorInv

LEMMA GetDataKeeps ==
    ASSUME RndInv, UNCHANGED rnd, NEW len \in Nat, NEW fast \in BOOLEAN, NEW failure, GetData(len, fast, failure)
    PROVE RndInv'
<1> DEFINE a == AddSystemDataToPool(uxr, fast)
           first == HashMixPool(a)
           took == Taken(first, len)
           b == AddSystemDataToPool(took, TRUE)
           second == HashMixPool(b)
           o == Output(first, second, len)
<1> USE DEF RndInv
<1>1. uxr \in UxrStates
  BY DEF RndTypes
<1>2. \/ UNCHANGED <<uxr, given>>
      \/ uxr' = took /\ UNCHANGED given
      \/ uxr' = Taken(second, len) /\ given' = [given EXCEPT !["unix"] = o]
  BY DEF GetData
<1>3. a \in UxrStates
  BY <1>1, SystemDataState
<1> HIDE DEF a
<1>4. first \in UxrStates /\ first.taken = FALSE
  BY <1>3, HashMixState
<1> HIDE DEF first
<1>5. took \in UxrStates
  BY <1>4, UxTakenState
<1> HIDE DEF took
<1>6. b \in UxrStates /\ "urandom" \in Fed(b.pool)
  BY <1>5, SystemDataState
<1> HIDE DEF b
<1>7. second \in UxrStates /\ second.pool = Flat(Fed(b.pool)) /\ Fed(second.pool) = Fed(b.pool) /\ second.taken = FALSE
  BY <1>6, HashMixState
<1> HIDE DEF second
<1>8. second.read \in Nat /\ second.pool \in Pools /\ second.pool = Flat(Fed(second.pool))
  BY <1>7 DEF UxrStates
<1>9. o \in Outputs /\ o.fed = Fed(second.pool) /\ o.common = Fed(second.pool) /\ o.again = FALSE
  BY <1>4, <1>7, <1>8, OutputState
<1>10. "urandom" \in Fed(second.pool)
  BY <1>6, <1>7
<1>11. Taken(second, len) \in UxrStates
  BY <1>7, UxTakenState
<1> HIDE DEF o
<1>12. CASE uxr' = Taken(second, len) /\ given' = [given EXCEPT !["unix"] = o]
  <2>1. given' \in [Programs -> Outputs] /\ OutputDependsOnAll' /\ OutputSystemFed' /\ PoolStateNotReused'
    BY <1>9, <1>10, <1>12, GivenKeeps DEF Programs
  <2> QED BY <1>11, <1>12, <2>1, UnixKeeps
<1>13. CASE uxr' = took /\ UNCHANGED given
  BY <1>5, <1>13, UnixKeeps
<1>14. CASE UNCHANGED <<uxr, given>>
  BY <1>1, <1>14, UnixKeeps
<1> QED BY <1>2, <1>12, <1>13, <1>14

LEMMA RngStartKeeps ==
    ASSUME RndInv, UNCHANGED rnd, NEW ok \in BOOLEAN, RngStart(ok)
    PROVE RndInv'
<1> DEFINE s == [uxr EXCEPT !.run = TRUE, !.enriched = FALSE, !.read = 0, !.taken = FALSE]
           t == [s EXCEPT !.pool = ZeroPool, !.index = 0, !.added = 0]
<1> USE DEF RndInv
<1>1. uxr \in UxrStates /\ UNCHANGED given /\ ZeroPool \in Pools
  BY DEF RndTypes, RngStart, ZeroPool, Pools
<1>2. uxr' = IF uxr.run THEN uxr ELSE IF ok THEN AddSystemDataToPool(t, TRUE) ELSE t
  BY DEF RngStart, TestPool
<1>3. s \in UxrStates
  BY <1>1 DEF UxrStates
<1> HIDE DEF s
<1>4. t \in UxrStates
  BY <1>1, <1>3 DEF UxrStates
<1> HIDE DEF t
<1>5. AddSystemDataToPool(t, TRUE) \in UxrStates
  BY <1>4, SystemDataState
<1>6. uxr' \in UxrStates
  BY <1>1, <1>2, <1>4, <1>5
<1> QED BY <1>1, <1>6, UnixKeeps

LEMMA UnixSmallKeeps ==
    ASSUME RndInv, UNCHANGED rnd,
           RngStop \/ (\E h \in DOMAIN DigestSize : SetHash(h)) \/ (\E e \in MouseEvents : UxEvent(e))
    PROVE RndInv'
<1> USE DEF RndInv
<1>1. uxr \in UxrStates /\ UNCHANGED given /\ NoRndPool \in Pools
  BY DEF RndTypes, RngStop, SetHash, UxEvent, NoRndPool, Pools, RndInputs
<1>2. CASE RngStop
  <2>1. uxr' = [uxr EXCEPT !.pool = NoRndPool, !.enriched = FALSE, !.run = FALSE, !.hash = "RIPEMD160"]
    BY <1>2 DEF RngStop
  <2>2. uxr' \in UxrStates
    BY <1>1, <2>1 DEF UxrStates, Hashes
  <2> QED BY <1>1, <2>2, UnixKeeps
<1>3. ASSUME NEW h \in DOMAIN DigestSize, SetHash(h) PROVE RndInv'
  <2>1. uxr' = [uxr EXCEPT !.hash = h] /\ h \in Hashes
    BY <1>3 DEF SetHash, DigestSize, Hashes
  <2>2. uxr' \in UxrStates
    BY <1>1, <2>1 DEF UxrStates
  <2> QED BY <1>1, <2>2, UnixKeeps
<1>4. ASSUME NEW e \in MouseEvents, UxEvent(e) PROVE RndInv'
  <2>1. uxr' = AddToPool(uxr, e, EventBytes)
    BY <1>4 DEF UxEvent
  <2>2. uxr' \in UxrStates
    BY <1>1, <2>1, AddToPoolState, RndAssumption DEF RndInputs
  <2> QED BY <1>1, <2>2, UnixKeeps
<1> QED BY <1>2, <1>3, <1>4

LEMMA RndNextKeeps == RndInv /\ RndNext => RndInv'
<1> SUFFICES ASSUME RndInv, RndNext PROVE RndInv'
  OBVIOUS
<1>0. \A len \in 1 .. MaxRequested : len \in Nat
  OBVIOUS
<1>1. CASE WindowsCall
  <2>1. rnd.stopping = "no" /\ UNCHANGED uxr
    BY <1>1 DEF WindowsCall
  <2>2. \/ /\ rnd.dialog = "none"
           /\ \/ \E ok \in BOOLEAN : Randinit(ok) \/ UserEnrichRandomPool(ok) \/ KeyfileGenerator(ok)
              \/ \E free \in BOOLEAN : RandStop(free)
              \/ \E h \in DOMAIN DigestSize : RandSetHashFunction(h)
        \/ /\ rnd.dialog # "enrich"
           /\ \E len \in 1 .. MaxRequested, force \in BOOLEAN : RandgetBytes(len, force)
    BY <1>1 DEF WindowsCall
  <2> QED BY <1>0, <2>1, <2>2, RandinitKeeps, RandStopKeeps, RandSetHashKeeps, RandgetBytesKeeps
<1>2. CASE UnixCall
  BY <1>0, <1>2, RngStartKeeps, GetDataKeeps, UnixSmallKeeps DEF UnixCall
<1>3. CASE RandStopEnd
  BY <1>3, RandStopEndKeeps
<1>4. CASE PeriodicFastPollThreadProc
  BY <1>4, PeriodicKeeps
<1>5. ASSUME NEW e \in MouseEvents, rnd.stopping = "no", MouseProc(e) PROVE RndInv'
  BY <1>5, MouseKeeps
<1>6. ASSUME NEW k \in KeyEvents, rnd.stopping = "no", KeyboardProc(k) PROVE RndInv'
  BY <1>6, KeyboardKeeps
<1>7. CASE KeyfileDialogEnds \/ \E r \in {"OK", "close"} : EnrichDialogEnds(r)
  BY <1>7, DialogsKeep
<1> QED BY <1>1, <1>2, <1>3, <1>4, <1>5, <1>6, <1>7 DEF RndNext

LEMMA RndStutter == RndInv /\ UNCHANGED rndVars => RndInv'
BY DEF RndInv, rndVars, RndTypes, OutputDependsOnAll, OutputSystemFed, PoolStateNotReused, SlowInv, ThreadInv, EnrichedInv, CursorInv

LEMMA RndInvSound == RndInv => PoolSound
BY DEF RndInv, PoolSound, SectionLivesWithThread, EnrichedIsOfThisPool, ThreadInv, EnrichedInv

\* The cell an event is written to holds no event of this round.
LEMMA CursorApart == RndInv => rnd.index % RNG_POOL_SIZE \notin rnd.since
<1> SUFFICES ASSUME RndInv PROVE rnd.index % RNG_POOL_SIZE \notin rnd.since
  OBVIOUS
<1>1. rnd.index \in 0 .. RNG_POOL_SIZE /\ rnd.since \in SUBSET Nat /\ CursorInv
  BY DEF RndInv, RndTypes, RndStates
<1>2. CASE rnd.index = RNG_POOL_SIZE
  BY <1>1, <1>2 DEF CursorInv
<1>3. CASE rnd.index < RNG_POOL_SIZE
  <2>1. rnd.index % RNG_POOL_SIZE = rnd.index
    BY <1>1, <1>3, RndAssumption
  <2> QED BY <1>1, <2>1 DEF CursorInv
<1> QED BY <1>1, <1>2, <1>3, RndAssumption

(* For every size of the pool, of the polls and of the events, and for any calls, events and
   failures: each byte a program is given depends on every input of its pool and on the
   system's data, no state of the pool is handed out twice, a pool counts as enriched only
   by an event of its own, and the section outlives the thread (Random.c and
   RandomNumberGenerator.cpp). *)
THEOREM RandomPoolIsSound == RndSpec => []PoolSound
<1>1. RndInv /\ [RndNext]_rndVars => RndInv'
  BY RndNextKeeps, RndStutter
<1> QED BY <1>1, RndInitHolds, RndInvSound, PTL DEF RndSpec

(* For every size of the pool: a mouse event is written where no event of this round was,
   since FastPoll restores the cursor (MouseProc and RandaddBuf of Random.c). *)
THEOREM EventsCover == RndSpec => EventsCoverPool
<1>1. RndInv /\ [RndNext]_rndVars => RndInv'
  BY RndNextKeeps, RndStutter
<1>2. RndInv => [rnd'.mouse # rnd.mouse => rnd.index % RNG_POOL_SIZE \notin rnd.since]_rndVars
  BY CursorApart
<1> QED BY <1>1, <1>2, RndInitHolds, PTL DEF RndSpec, EventsCoverPool

-----------------------------------------------------------------------------

(***************************************************************************)
(* The composition: each component steps by its own rules or stands still. *)
(***************************************************************************)
LEMMA StoredImplements == StoredSpec => HSpec /\ RndSpec /\ KeySpec
<1>1. StoredInit => HInit /\ RndInit /\ KeyInit
  BY DEF StoredInit
<1>2. StoredNext => [HNext]_hVars /\ [RndNext]_rndVars /\ [KeyNext]_keyVars
  BY DEF StoredNext
<1>3. UNCHANGED <<active, vars, bdVars, duVars, hVars, keyVars, rndVars>> =>
          [HNext]_hVars /\ [RndNext]_rndVars /\ [KeyNext]_keyVars
  OBVIOUS
<1> QED BY <1>1, <1>2, <1>3, PTL DEF StoredSpec, HSpec, RndSpec, KeySpec

(* In the composition too: the headers stay such that some header opens every volume, the
   output of the random pool depends on all it collected, and a header is opened only with
   the key of its PRF (ChangePwd, Random.c and ReadVolumeHeader). *)
THEOREM StoredPartsAreSound == StoredSpec => [](HeadersSound /\ PoolSound /\ KeysSound)
BY StoredImplements, HeadersAreSound, RandomPoolIsSound, KeysAreSound, PTL

(* Every step of the composition keeps the headers of the volume that is not being rewritten,
   and an event of the user goes to a cell of the pool that no event of this round was
   written to (ChangePwd, RestoreVolumeHeader, MouseProc with FastPoll). *)
THEOREM StoredStepsHold == StoredSpec => StoredSteps
BY StoredImplements, KindsStayApart, EventsCover, PTL DEF StoredSteps
=============================================================================
