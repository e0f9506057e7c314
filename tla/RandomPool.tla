---------------------------- MODULE RandomPool ----------------------------
(***************************************************************************)
(* The pool of random numbers: Common/Random.c of the Windows programs and *)
(* Core/RandomNumberGenerator.cpp of the others.                           *)
(*                                                                         *)
(* A byte of a pool is the set of the inputs it depends on.  Adding a byte *)
(* to a cell adds its input to that cell, a digest depends on every cell   *)
(* of the pool, XOR, addition and inversion keep what was there.  Inputs   *)
(* are mouse and key events, the system data of a fast and of a slow poll, *)
(* and the data of /dev/urandom.                                           *)
(*                                                                         *)
(* The functions of Random.c are called by the user interface's thread;    *)
(* the hooks run in it, and the periodic poll is a thread of its own.  A   *)
(* critical section is one step; RandStop is two, around its wait for the  *)
(* thread.                                                                 *)
(***************************************************************************)
EXTENDS Integers, FiniteSets

CONSTANTS RNG_POOL_SIZE,          \* cells of a pool
          RANDMIX_BYTE_INTERVAL,  \* bytes between two mixings
          EventBytes,             \* bytes an event adds
          FastPollBytes,          \* bytes a fast poll adds
          SlowPollBytes,          \* bytes a slow poll adds
          MouseEvents, KeyEvents, \* what the hooks are given
          MaxRequested,           \* longest request
          MaxRndCalls             \* calls of the program, a bound of the model

\* The pool is a multiple of every digest, which Randmix insists on.
ASSUME RndAssumption ==
    /\ RNG_POOL_SIZE \in Nat \ {0} /\ RNG_POOL_SIZE % 4 = 0
    /\ RANDMIX_BYTE_INTERVAL \in Nat \ {0} /\ EventBytes \in Nat \ {0}
    /\ FastPollBytes \in Nat \ {0} /\ SlowPollBytes \in Nat \ {0}

VARIABLES rnd,    \* the pool of Random.c
          uxr,    \* the pool of RandomNumberGenerator.cpp
          given,  \* the last output of each program
          program, \* the program that runs
          calls   \* calls made, for the bound

rndVars == <<rnd, uxr, given, program, calls>>

PoolCells == 0 .. RNG_POOL_SIZE - 1
Programs == {"windows", "unix"}
NoRndPool == [c \in PoolCells |-> {"none"}]
ZeroPool == [c \in PoolCells |-> {}]

\* The only element of a set; {f(t) : t \in {s}} evaluates s once.
The(S) == CHOOSE x \in S : TRUE

Fed(p) == UNION {p[c] : c \in PoolCells}

\* Sizes of the digests, scaled as the pool is.
DigestSize == [RIPEMD160 |-> RNG_POOL_SIZE \div 4, SHA512 |-> RNG_POOL_SIZE \div 2]

---------------------------------------------------------------------------
(* The pool of Random.c as a record: its cells, the cursors, the digest,   *)
(* and "taken": an output took bytes of the pool as it is now.             *)

\* The loop of the mixing puts the digest of the whole pool into one part of it after the other.
MixedPool(p, hash) ==
    LET parts == RNG_POOL_SIZE \div DigestSize[hash]
    IN The({[c \in PoolCells |-> IF c < parts * DigestSize[hash] THEN p[c] \cup digest ELSE p[c]] : digest \in {Fed(p)}})

Randmix(s) == The({[t EXCEPT !.pool = MixedPool(t.pool, t.hash), !.taken = FALSE] : t \in {s}})

\* The cells that len bytes written from cell i on go to.
Written(i, len) == {(i + k) % RNG_POOL_SIZE : k \in 0 .. len - 1}

\* The pool with x written to some cells; a byte that caused a mixing spread x over the pool.
PoolWith(s, cells, x, mixes) ==
    LET with(t) == [t EXCEPT !.pool = [c \in PoolCells |-> IF c \in cells THEN t.pool[c] \cup {x} ELSE t.pool[c]]]
    IN The({IF mixes THEN Randmix(with(t)) ELSE with(t) : t \in {s}})

\* RandaddByte for each byte of a buffer: the cursor wraps before a byte is written, and each cell whose number is a
\* multiple of the interval mixes.
RandaddBuf(s, x, len) ==
    LET i == IF s.index = RNG_POOL_SIZE THEN 0 ELSE s.index
        cells == Written(i, len)
    IN [PoolWith(s, cells, x, \E c \in cells : c % RANDMIX_BYTE_INTERVAL = 0) EXCEPT
           !.index = ((i + len - 1) % RNG_POOL_SIZE) + 1]

SlowPoll(s) == [Randmix(RandaddBuf(s, "slow", SlowPollBytes)) EXCEPT !.since = {}]

\* Mutant of FastPoll: the cursor is not restored.
FastPollMovesCursor(s) == Randmix(RandaddBuf(s, "fast", FastPollBytes))

\* The cursor is restored.
FastPoll(s) ==
    [Randmix(RandaddBuf(s, "fast", FastPollBytes)) EXCEPT !.index = s.index]

\* The cells a request of len bytes reads from the read cursor on.
ReadCells(s, len) == [i \in 1 .. len |-> (s.read + i - 1) % RNG_POOL_SIZE]

Taken(s, len) == [s EXCEPT !.read = (@ + len) % RNG_POOL_SIZE, !.taken = TRUE]

\* What an output of len bytes is: the inputs all of its bytes depend on, those the pool had been fed, and whether
\* a state of the pool it took from had given bytes to an output before.
Output(first, second, len) ==
    [common |-> {x \in Fed(second.pool) : \A i \in 1 .. len :
                    x \in first.pool[ReadCells(first, len)[i]] \cup second.pool[ReadCells(second, len)[i]]},
     fed |-> Fed(second.pool),
     again |-> first.taken \/ second.taken]

NoOutput == [common |-> {"slow", "urandom"}, fed |-> {}, again |-> FALSE]

SlowPolled(s, force) == IF ~s.slow \/ force THEN [SlowPoll(s) EXCEPT !.slow = TRUE] ELSE s

\* Inverting the pool keeps what a cell depends on, and the state an output took is not gone by it.
RandgetBytes(len, force) ==
    /\ rnd.init
    /\ \E slow \in {SlowPolled(rnd, force)} : \E first \in {FastPoll(slow)} : \E second \in {FastPoll(Taken(first, len))} :
          /\ given' = [given EXCEPT !["windows"] = Output(first, second, len)]
          /\ rnd' = Taken(second, len)

---------------------------------------------------------------------------
(* Starting and stopping of Random.c                                       *)

RndStart == [init |-> FALSE, pool |-> NoRndPool, index |-> 0, read |-> 0, hash |-> "RIPEMD160",
             slow |-> FALSE, enriched |-> FALSE, taken |-> FALSE, hooks |-> FALSE,
             thread |-> "none", terminate |-> FALSE, stopping |-> "no",
             section |-> FALSE, mouse |-> <<"none", "none">>, key |-> <<"none", "none">>, dialog |-> "none",
             moved |-> FALSE, since |-> {}]

Allocated(s) == IF s.pool = NoRndPool
                THEN [s EXCEPT !.pool = ZeroPool, !.slow = FALSE, !.enriched = FALSE, !.moved = FALSE, !.taken = FALSE,
                               !.since = {}]
                ELSE s

FreePool(s) == [s EXCEPT !.slow = FALSE, !.enriched = FALSE, !.pool = NoRndPool]

\* The end of RandStop: the thread has ended.
Stopped(s, free) ==
    LET t == [s EXCEPT !.hooks = FALSE, !.terminate = FALSE, !.section = FALSE, !.init = FALSE, !.stopping = "no"]
    IN IF free THEN FreePool(t) ELSE t

\* Randinit: the memory, the mouse hook or the thread may be refused; RandStop (TRUE) then finds no thread to wait for.
RandinitFrom(s, ok) ==
    IF s.init THEN s
    ELSE IF ok
    THEN [Allocated(s) EXCEPT !.init = TRUE, !.section = TRUE, !.hooks = TRUE, !.thread = "runs"]
    ELSE Stopped([Allocated(s) EXCEPT !.init = TRUE, !.section = TRUE], TRUE)

Randinit(ok) ==
    /\ rnd' = RandinitFrom(rnd, ok)
    /\ UNCHANGED given

\* RandStop up to its wait.
RandStop(free) ==
    /\ IF rnd.init
       THEN rnd' = [rnd EXCEPT !.hooks = FALSE, !.terminate = TRUE, !.stopping = IF free THEN "free" ELSE "keep"]
       ELSE rnd' = IF free /\ rnd.pool # NoRndPool THEN FreePool(rnd) ELSE rnd
    /\ UNCHANGED given

RandStopEnd ==
    /\ rnd.stopping # "no"
    /\ rnd.thread # "runs"
    /\ rnd' = Stopped(rnd, rnd.stopping = "free")
    /\ UNCHANGED <<uxr, given, program, calls>>

\* The periodic thread: it clears the flag as it ends.
PeriodicFastPollThreadProc ==
    /\ rnd.thread = "runs"
    /\ rnd.section
    /\ rnd' = IF rnd.terminate THEN [rnd EXCEPT !.terminate = FALSE, !.thread = "ended"] ELSE FastPoll(rnd)
    /\ UNCHANGED <<uxr, given, program, calls>>

RandSetHashFunction(h) ==
    /\ rnd' = [rnd EXCEPT !.hash = h]
    /\ UNCHANGED given

\* An event is added where the cursor is; "since" are the cells where events were added since the cursor last reached
\* the end of the pool, from which it wraps, "moved" says the pool has been given an event.
AddEvent(s, x) ==
    The({[t EXCEPT !.moved = TRUE,
                   !.since = IF t.index <= s.index \/ t.index = RNG_POOL_SIZE THEN {} ELSE @ \cup {s.index}] :
             t \in {RandaddBuf(s, x, EventBytes)}})

MouseProc(e) ==
    /\ rnd.hooks
    /\ e \notin {rnd.mouse[1], rnd.mouse[2]}
    /\ rnd' = [AddEvent(rnd, e) EXCEPT !.mouse = <<e, @[1]>>]
    /\ UNCHANGED <<uxr, given, program, calls>>

KeyboardProc(k) ==
    /\ rnd.hooks
    /\ k # rnd.key[1] \/ k # rnd.key[2]
    /\ rnd' = [AddEvent(rnd, k) EXCEPT !.key = <<k, @[1]>>]
    /\ UNCHANGED <<uxr, given, program, calls>>

\* UserEnrichRandomPool: whether Randinit succeeded is not looked at.
UserEnrichRandomPool(ok) ==
    LET s == RandinitFrom(rnd, ok)
    IN /\ rnd' = IF s.enriched THEN s ELSE [s EXCEPT !.dialog = "enrich"]
       /\ UNCHANGED given

\* The button of the dialog is clicked with the mouse: with the hooks in place the pool has been given the move to it.
EnrichDialogEnds(result) ==
    /\ rnd.dialog = "enrich"
    /\ result = "OK" /\ rnd.hooks => rnd.moved
    /\ rnd' = [rnd EXCEPT !.dialog = "none", !.enriched = (result = "OK")]
    /\ UNCHANGED <<uxr, given, program, calls>>

\* KeyfileGeneratorDlgProc of the Mount program.
KeyfileGenerator(ok) ==
    /\ LET s == RandinitFrom(rnd, ok)
       IN rnd' = IF ok \/ rnd.init THEN [s EXCEPT !.dialog = "keyfile"] ELSE s
    /\ UNCHANGED given

KeyfileDialogEnds ==
    /\ rnd.dialog = "keyfile"
    /\ rnd' = [rnd EXCEPT !.dialog = "none", !.hooks = FALSE, !.terminate = TRUE, !.stopping = "keep"]
    /\ UNCHANGED <<uxr, given, program, calls>>

---------------------------------------------------------------------------
(* RandomNumberGenerator.cpp                                               *)

UxrStart == [run |-> FALSE, pool |-> NoRndPool, index |-> 0, read |-> 0, added |-> 0, hash |-> "RIPEMD160",
             enriched |-> FALSE, taken |-> FALSE]

HashMixPool(s) == [Randmix(s) EXCEPT !.added = 0]

AddToPool(s, x, len) ==
    [PoolWith(s, Written(s.index, len), x, s.added + len >= RANDMIX_BYTE_INTERVAL) EXCEPT
        !.index = (@ + len) % RNG_POOL_SIZE,
        !.added = (@ + len) % RANDMIX_BYTE_INTERVAL]

\* /dev/random may give nothing: the buffer then still holds what /dev/urandom gave, and is added again.
AddSystemDataToPool(s, fast) ==
    LET t == AddToPool(s, "urandom", RNG_POOL_SIZE)
    IN IF fast THEN t ELSE AddToPool(t, "urandom", RNG_POOL_SIZE)

\* Test leaves a pool that depends on nothing but itself.
TestPool(s) == [s EXCEPT !.pool = ZeroPool, !.index = 0, !.added = 0]

\* Start: reading /dev/urandom may fail, with the generator already marked as running.
RngStart(ok) ==
    /\ uxr' = IF uxr.run THEN uxr
              ELSE LET s == TestPool([uxr EXCEPT !.run = TRUE, !.enriched = FALSE, !.read = 0, !.taken = FALSE])
                   IN IF ok THEN AddSystemDataToPool(s, TRUE) ELSE s
    /\ UNCHANGED given

RngStop ==
    /\ uxr' = [uxr EXCEPT !.pool = NoRndPool, !.enriched = FALSE, !.run = FALSE, !.hash = "RIPEMD160"]
    /\ UNCHANGED given

\* GetData: one of the two readings of the system may fail, which ends the request without an output.
GetData(len, fast, failure) ==
    /\ uxr.run
    /\ \E first \in {HashMixPool(AddSystemDataToPool(uxr, fast))} :
       \E second \in {HashMixPool(AddSystemDataToPool(Taken(first, len), TRUE))} :
          CASE failure = "first" -> UNCHANGED <<uxr, given>>
            [] failure = "second" -> /\ uxr' = Taken(first, len)
                                     /\ UNCHANGED given
            [] OTHER -> /\ given' = [given EXCEPT !["unix"] = Output(first, second, len)]
                        /\ uxr' = Taken(second, len)

SetHash(h) ==
    /\ uxr.run
    /\ uxr' = [uxr EXCEPT !.hash = h]
    /\ UNCHANGED given

\* Mouse moves of the dialogs and the wizard.
UxEvent(e) ==
    /\ uxr.run
    /\ uxr' = AddToPool(uxr, e, EventBytes)
    /\ UNCHANGED given

---------------------------------------------------------------------------

RndInit ==
    /\ rnd = RndStart
    /\ uxr = UxrStart
    /\ given = [p \in Programs |-> NoOutput]
    /\ program \in Programs
    /\ calls = 0

\* A call of the user interface's thread, which no dialog and no wait holds.
WindowsCall ==
    /\ program = "windows"
    /\ rnd.stopping = "no"
    /\ \/ /\ rnd.dialog = "none"
          /\ \/ \E ok \in BOOLEAN : Randinit(ok) \/ UserEnrichRandomPool(ok) \/ KeyfileGenerator(ok)
             \/ \E free \in BOOLEAN : RandStop(free)
             \/ \E h \in DOMAIN DigestSize : RandSetHashFunction(h)
       \/ /\ rnd.dialog \in {"none", "keyfile"}
          /\ \E len \in 1 .. MaxRequested, force \in BOOLEAN : RandgetBytes(len, force)
    /\ UNCHANGED uxr

UnixCall ==
    /\ program = "unix"
    /\ \/ \E ok \in BOOLEAN : RngStart(ok)
       \/ RngStop
       \/ \E len \in 1 .. MaxRequested, fast \in BOOLEAN, failure \in {"no", "first", "second"} : GetData(len, fast, failure)
       \/ \E h \in DOMAIN DigestSize : SetHash(h)
       \/ \E e \in MouseEvents : UxEvent(e)
    /\ UNCHANGED rnd

RndNext ==
    \/ /\ calls < MaxRndCalls
       /\ calls' = calls + 1
       /\ WindowsCall \/ UnixCall
       /\ UNCHANGED program
    \/ RandStopEnd
    \/ PeriodicFastPollThreadProc
    \/ \E e \in MouseEvents : rnd.stopping = "no" /\ MouseProc(e)
    \/ \E k \in KeyEvents : rnd.stopping = "no" /\ KeyboardProc(k)
    \/ \E r \in {"OK", "close"} : EnrichDialogEnds(r)
    \/ KeyfileDialogEnds

RndSpec == RndInit /\ [][RndNext]_rndVars

\* The scheduler runs the periodic thread again and again, and the thread that waits for its end goes on after it.
RndFairness == WF_rndVars(PeriodicFastPollThreadProc) /\ WF_rndVars(RandStopEnd)

RndFairSpec == RndSpec /\ RndFairness

---------------------------------------------------------------------------

\* Every byte a program is given depends on every input its pool has been given: on each event of the user, however
\* few bytes were added since the last mixing, and on the system's data.
OutputDependsOnAll == \A p \in Programs : given[p].fed \subseteq given[p].common

\* What is given depends on a slow poll (Windows) or on /dev/urandom, also when the pool was kept over a stop, was
\* freed and allocated again, or when starting the generator had failed half-way.
OutputSystemFed == "slow" \in given["windows"].common /\ "urandom" \in given["unix"].common

\* No state of a pool gives bytes to two outputs, or twice to one: between two of them the pool has been mixed.
PoolStateNotReused == \A p \in Programs : ~given[p].again

\* A pool counts as enriched by the user only if this pool, not one freed since, has been given an event.
EnrichedIsOfThisPool == rnd.enriched /\ rnd.pool # NoRndPool /\ rnd.dialog = "none" => rnd.moved

\* As long as no request for data was made, an event is written where no event of this round was: the fast polls in
\* between do not move the cursor (the comment at Random.c 763).
EventsCoverPool ==
    [][rnd'.mouse # rnd.mouse => rnd.index % RNG_POOL_SIZE \notin rnd.since]_rndVars

\* The thread never enters a section that was deleted under it.
SectionLivesWithThread == rnd.thread = "runs" => rnd.section

\* RandStop returns.
RandStopReturns == (rnd.stopping # "no") ~> (rnd.stopping = "no")

(* Output of the pool depends on everything collected and on the system's sources, no
   state is handed out twice and the critical section lives as long as its thread. *)
PoolSound ==
    /\ OutputDependsOnAll
    /\ OutputSystemFed
    /\ PoolStateNotReused
    /\ EnrichedIsOfThisPool
    /\ SectionLivesWithThread
===========================================================================
