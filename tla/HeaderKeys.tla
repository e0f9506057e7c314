----------------------------- MODULE HeaderKeys -----------------------------
(***************************************************************************)
(* ReadVolumeHeader (Common/Volumes.c): the caller derives a header key    *)
(* with every PRF and tries to decrypt the header with each.  With more    *)
(* than one encryption thread the derivations run on the thread pool: the  *)
(* work items, the two events and the counter belong to the caller and are *)
(* freed when it returns.  The pool is reduced to a queue of derivations   *)
(* and the workers' completion sequence; EncryptionThreadPool has the ring.*)
(***************************************************************************)
EXTENDS Naturals, Sequences, FiniteSets

CONSTANTS
    PrfCount,          \* the PRFs are FIRST_PRF_ID .. LAST_PRF_ID = 1 .. PrfCount
    KeyWorkers,        \* the threads of the pool
    KeyThreadCounts    \* what GetEncryptionThreadCount may return

ASSUME KeyAssumption ==
    /\ PrfCount \in Nat \ {0} /\ KeyThreadCounts \subseteq Nat \ {0}
    /\ IsFiniteSet(KeyWorkers)

Prfs == 1 .. PrfCount
NoPrf == 0             \* the PRF of a header that the password does not open

VARIABLES
    readPc,                      \* control point of the caller
    enqPkcs5Prf, queuedWorkItems,
    threadCount,                 \* encryptionThreadCount
    headerPrf,                   \* the PRF that opens the header, or NoPrf
    keyItems,                    \* keyDerivationWorkItems
    dkPrf,                       \* the PRF whose key is in dk, and
    dkClaimed,                   \* pkcs5_prf, the PRF the caller takes it for
    outstanding,                 \* outstandingWorkItemCount
    keyCompleted, noOutstanding, \* the two auto-reset events
    poolQueue,                   \* items given to the pool and not taken yet
    deriving,                    \* per worker: its step and its item
    itemsFreed,                  \* TCfree (keyDerivationWorkItems) was called
    cryptoOpen,                  \* the caller's CRYPTO_INFO is allocated
    readStatus

keyVars == <<readPc, enqPkcs5Prf, queuedWorkItems, threadCount, headerPrf, keyItems, dkPrf,
             dkClaimed, outstanding, keyCompleted, noOutstanding, poolQueue, deriving,
             itemsFreed, cryptoOpen, readStatus>>
headerVars == <<threadCount, headerPrf>>
workerVars == <<poolQueue, deriving>>
resultVars == <<itemsFreed, cryptoOpen, readStatus>>

NoItem == [free |-> TRUE, ready |-> FALSE, prf |-> NoPrf, key |-> NoPrf]
Resting == [step |-> "take", item |-> 1]

KeyInit ==
    /\ readPc = "idle" /\ enqPkcs5Prf = 1 /\ queuedWorkItems = 0
    /\ threadCount = 1 /\ headerPrf = NoPrf
    /\ keyItems = [i \in Prfs |-> NoItem]
    /\ dkPrf = NoPrf /\ dkClaimed = NoPrf
    /\ outstanding = 0 /\ keyCompleted = FALSE /\ noOutstanding = TRUE
    /\ poolQueue = <<>> /\ deriving = [w \in KeyWorkers |-> Resting]
    /\ itemsFreed = FALSE /\ cryptoOpen = FALSE /\ readStatus = "none"

-----------------------------------------------------------------------------
(* The call: crypto_open, then the work items and the events. *)
ReadVolumeHeader(n, prf) ==
    /\ readPc = "idle"
    /\ threadCount' = n /\ headerPrf' = prf
    /\ cryptoOpen' = TRUE
    /\ \/ readPc' = "loop" /\ UNCHANGED readStatus
       \/ /\ n > 1                \* TCalloc or CreateEvent fails
          /\ readPc' = "returned" /\ readStatus' = "outOfMemory"
    /\ UNCHANGED <<enqPkcs5Prf, queuedWorkItems, keyItems, dkPrf, dkClaimed, outstanding,
                   keyCompleted, noOutstanding, workerVars, itemsFreed>>

\* EncryptionThreadPoolBeginKeyDerivation up to the increment of the counter.
EnqueueDerivation ==
    /\ readPc = "loop" /\ threadCount > 1
    /\ queuedWorkItems < threadCount /\ enqPkcs5Prf <= PrfCount
    /\ \E i \in Prfs :
          /\ keyItems[i].free /\ \A j \in 1 .. (i - 1) : ~keyItems[j].free
          /\ keyItems' = [keyItems EXCEPT ![i] = [@ EXCEPT !.free = FALSE, !.ready = FALSE,
                                                           !.prf = enqPkcs5Prf]]
    /\ outstanding' = outstanding + 1
    /\ readPc' = "clear"
    /\ UNCHANGED <<enqPkcs5Prf, queuedWorkItems, headerVars, dkPrf, dkClaimed, keyCompleted,
                   noOutstanding, workerVars, resultVars>>

\* ... TC_CLEAR_EVENT (noOutstandingWorkItemEvent) and the item becomes ready.
EnqueueKeyDerivation ==
    /\ readPc = "clear"
    /\ noOutstanding' = FALSE
    /\ \E i \in Prfs : /\ ~keyItems[i].free /\ keyItems[i].prf = enqPkcs5Prf
                      /\ poolQueue' = Append(poolQueue, i)
    /\ queuedWorkItems' = queuedWorkItems + 1
    /\ IF enqPkcs5Prf < PrfCount
       THEN readPc' = "loop" /\ enqPkcs5Prf' = enqPkcs5Prf + 1
       ELSE readPc' = "scan" /\ UNCHANGED enqPkcs5Prf
    /\ UNCHANGED <<headerVars, keyItems, dkPrf, dkClaimed, outstanding, keyCompleted, deriving,
                   resultVars>>

\* All threads are busy or all PRFs are queued: --enqPkcs5Prf, then wait for a key.
KeysQueued ==
    /\ readPc = "loop" /\ threadCount > 1
    /\ queuedWorkItems > 0
    /\ queuedWorkItems >= threadCount \/ enqPkcs5Prf > PrfCount
    /\ enqPkcs5Prf' = enqPkcs5Prf - 1
    /\ readPc' = "scan"
    /\ UNCHANGED <<queuedWorkItems, headerVars, keyItems, dkPrf, dkClaimed, outstanding,
                   keyCompleted, noOutstanding, workerVars, resultVars>>

\* The scan of the items finds a ready one: its key is copied and the item is free.
TakeKey(i) ==
    /\ readPc = "scan"
    /\ ~keyItems[i].free /\ keyItems[i].ready
    /\ dkPrf' = keyItems[i].key /\ dkClaimed' = keyItems[i].prf
    /\ keyItems' = [keyItems EXCEPT ![i].free = TRUE]
    /\ queuedWorkItems' = queuedWorkItems - 1
    /\ readPc' = "test"
    /\ UNCHANGED <<enqPkcs5Prf, headerVars, outstanding, keyCompleted, noOutstanding, workerVars,
                   resultVars>>

NoKeyReady ==
    /\ readPc = "scan"
    /\ \A i \in Prfs : keyItems[i].free \/ ~keyItems[i].ready
    /\ readPc' = "wait"
    /\ UNCHANGED <<enqPkcs5Prf, queuedWorkItems, headerVars, keyItems, dkPrf, dkClaimed,
                   outstanding, keyCompleted, noOutstanding, workerVars, resultVars>>

AwaitKeyCompleted ==
    /\ readPc = "wait" /\ keyCompleted
    /\ keyCompleted' = FALSE
    /\ readPc' = "scan"
    /\ UNCHANGED <<enqPkcs5Prf, queuedWorkItems, headerVars, keyItems, dkPrf, dkClaimed,
                   outstanding, noOutstanding, workerVars, resultVars>>

\* With one thread the key is derived in place.
DeriveInline ==
    /\ readPc = "loop" /\ threadCount = 1 /\ enqPkcs5Prf <= PrfCount
    /\ dkPrf' = enqPkcs5Prf /\ dkClaimed' = enqPkcs5Prf
    /\ readPc' = "test"
    /\ UNCHANGED <<enqPkcs5Prf, queuedWorkItems, headerVars, keyItems, outstanding, keyCompleted,
                   noOutstanding, workerVars, resultVars>>

\* The header decrypted: its version is checked and the master key initialised.
KeyOutcome ==
    /\ readPc' = "finish"
    /\ \/ readStatus' = "success" /\ UNCHANGED cryptoOpen
       \/ readStatus' \in {"newVersionRequired", "modeInitFailed"} /\ cryptoOpen' = FALSE
    /\ UNCHANGED enqPkcs5Prf

(* All modes and ciphers with this key: only the key of the header's PRF yields the
   magic and the CRCs.  A header that needs a newer program, or a cipher that does not
   initialise, ends the search (err: the CRYPTO_INFO is closed). *)
TestKey ==
    /\ readPc = "test"
    /\ \/ /\ dkPrf # NoPrf /\ dkPrf = headerPrf
          /\ KeyOutcome
       \/ /\ dkPrf # headerPrf
          /\ \/ /\ readPc' = "loop" /\ enqPkcs5Prf' = enqPkcs5Prf + 1
                /\ UNCHANGED <<readStatus, cryptoOpen>>
             \/ /\ readPc' = "finish" /\ readStatus' = "cipherInitFailure"
                /\ cryptoOpen' = FALSE /\ UNCHANGED enqPkcs5Prf
    /\ UNCHANGED <<queuedWorkItems, headerVars, keyItems, dkPrf, dkClaimed, outstanding,
                   keyCompleted, noOutstanding, workerVars, itemsFreed>>

\* Mutant of AllPrfsTested: the loop ends while keys are still queued.
AllPrfsTestedEarly ==
    /\ readPc = "loop" /\ enqPkcs5Prf > PrfCount
    /\ readPc' = "finish" /\ readStatus' = "passwordWrong" /\ cryptoOpen' = FALSE
    /\ UNCHANGED <<enqPkcs5Prf, queuedWorkItems, headerVars, keyItems, dkPrf, dkClaimed,
                   outstanding, keyCompleted, noOutstanding, workerVars, itemsFreed>>

AllPrfsTested ==
    /\ readPc = "loop" /\ enqPkcs5Prf > PrfCount /\ queuedWorkItems = 0
    /\ readPc' = "finish" /\ readStatus' = "passwordWrong" /\ cryptoOpen' = FALSE
    /\ UNCHANGED <<enqPkcs5Prf, queuedWorkItems, headerVars, keyItems, dkPrf, dkClaimed,
                   outstanding, keyCompleted, noOutstanding, workerVars, itemsFreed>>

\* ret: wait until no derivation is outstanding, burn and free what they use.
FinishRead ==
    /\ readPc = "finish"
    /\ threadCount > 1 => noOutstanding
    /\ noOutstanding' = (threadCount = 1 /\ noOutstanding)
    /\ itemsFreed' = (threadCount > 1)
    /\ readPc' = "returned"
    /\ UNCHANGED <<enqPkcs5Prf, queuedWorkItems, headerVars, keyItems, dkPrf, dkClaimed,
                   outstanding, keyCompleted, workerVars, cryptoOpen, readStatus>>

-----------------------------------------------------------------------------
(* EncryptionThreadProc, DeriveKeyWork. *)
WorkerStep(w, from, to) ==
    /\ deriving[w].step = from
    /\ deriving' = [deriving EXCEPT ![w].step = to]
    /\ UNCHANGED <<readPc, enqPkcs5Prf, queuedWorkItems, headerVars, dkPrf, dkClaimed, resultVars>>

TakeDerivation(w) ==
    /\ deriving[w].step = "take" /\ poolQueue # <<>>
    /\ deriving' = [deriving EXCEPT ![w] = [step |-> "derive", item |-> Head(poolQueue)]]
    /\ poolQueue' = Tail(poolQueue)
    /\ UNCHANGED <<readPc, enqPkcs5Prf, queuedWorkItems, headerVars, keyItems, dkPrf, dkClaimed,
                   outstanding, keyCompleted, noOutstanding, resultVars>>

DeriveKey(w) ==
    /\ WorkerStep(w, "derive", "flag")
    /\ keyItems' = [keyItems EXCEPT ![deriving[w].item].key = keyItems[deriving[w].item].prf]
    /\ UNCHANGED <<outstanding, keyCompleted, noOutstanding, poolQueue>>

SetCompletionFlag(w) ==
    /\ WorkerStep(w, "flag", "completed")
    /\ keyItems' = [keyItems EXCEPT ![deriving[w].item].ready = TRUE]
    /\ UNCHANGED <<outstanding, keyCompleted, noOutstanding, poolQueue>>

\* Mutant of SetCompletionEvent: nobody is told that the key is ready.
SetCompletionEventFirst(w) ==
    /\ WorkerStep(w, "completed", "decrement")
    /\ UNCHANGED <<keyItems, keyCompleted, outstanding, noOutstanding, poolQueue>>

SetCompletionEvent(w) ==
    /\ WorkerStep(w, "completed", "decrement")
    /\ keyCompleted' = TRUE
    /\ UNCHANGED <<keyItems, outstanding, noOutstanding, poolQueue>>

DecrementOutstanding(w) ==
    /\ WorkerStep(w, "decrement", IF outstanding = 1 THEN "none" ELSE "take")
    /\ outstanding' = outstanding - 1
    /\ UNCHANGED <<keyItems, keyCompleted, noOutstanding, poolQueue>>

SetNoOutstanding(w) ==
    /\ WorkerStep(w, "none", "take")
    /\ noOutstanding' = TRUE
    /\ UNCHANGED <<keyItems, outstanding, keyCompleted, poolQueue>>

-----------------------------------------------------------------------------
CallerNext ==
    \/ \E n \in KeyThreadCounts, prf \in Prfs \cup {NoPrf} : ReadVolumeHeader(n, prf)
    \/ EnqueueDerivation \/ EnqueueKeyDerivation \/ KeysQueued
    \/ \E i \in Prfs : TakeKey(i)
    \/ NoKeyReady \/ AwaitKeyCompleted \/ DeriveInline \/ TestKey \/ AllPrfsTested \/ FinishRead

WorkerNext(w) ==
    \/ TakeDerivation(w) \/ DeriveKey(w) \/ SetCompletionFlag(w) \/ SetCompletionEvent(w)
    \/ DecrementOutstanding(w) \/ SetNoOutstanding(w)

KeyNext == CallerNext \/ \E w \in KeyWorkers : WorkerNext(w)

\* Threads are scheduled; the caller keeps running once it was called.
KeyFairness ==
    /\ WF_keyVars(CallerNext)
    /\ \A w \in KeyWorkers : WF_keyVars(WorkerNext(w))

KeySpec == KeyInit /\ [][KeyNext]_keyVars
KeyFairSpec == KeySpec /\ KeyFairness

-----------------------------------------------------------------------------
(* The types of the state of the search. *)
KeyTypeOK ==
    /\ readPc \in {"idle", "loop", "clear", "scan", "wait", "test", "finish", "returned"}
    /\ enqPkcs5Prf \in 0 .. PrfCount + 1 /\ queuedWorkItems \in 0 .. PrfCount
    /\ outstanding \in 0 .. PrfCount
    /\ keyItems \in [Prfs -> [free : BOOLEAN, ready : BOOLEAN, prf : 0 .. PrfCount,
                              key : 0 .. PrfCount]]

(* A key that is tried was derived with the PRF it is taken for: an item is reused
   only after its derivation is over (Volumes.c, KeyReady). *)
KeyIsOfItsPrf == readPc = "test" => dkPrf = dkClaimed

(* The header is reported wrong only when no PRF opens it, and opened only when one
   does: no PRF is skipped by the rewinding of enqPkcs5Prf while the pool is full. *)
WrongOnlyIfNoPrf ==
    /\ readStatus = "passwordWrong" => headerPrf = NoPrf
    /\ readStatus = "success" => headerPrf # NoPrf /\ dkClaimed = headerPrf

(* The counter never falls below the derivations that are in the pool. *)
OutstandingCovers ==
    outstanding >= Len(poolQueue)
        + Cardinality({w \in KeyWorkers : deriving[w].step \in {"derive", "flag", "completed",
                                                                "decrement"}})

(* Waiting for noOutstandingWorkItemEvent means that no derivation uses the caller's
   items, events and counter any more when they are freed. *)
FreedWhenNoneOutstanding ==
    itemsFreed => poolQueue = <<>> /\ \A w \in KeyWorkers : deriving[w].step = "take"

(* The call returns: no completion is lost between the scan of the items and the wait,
   and the event the caller waits for in the end is set after its last clearing. *)
HeaderReadReturns == readPc = "loop" ~> readPc = "returned"

(* The key used is of the PRF it was claimed for, a wrong password is reported only
   after every PRF was tried, and the counter covers the derivations under way. *)
KeysSound == KeyTypeOK /\ KeyIsOfItsPrf /\ WrongOnlyIfNoPrf /\ OutstandingCovers
=============================================================================
