---------------------------- MODULE CoreService -----------------------------
(***************************************************************************)
(* The core service of Unix (Core/Unix/CoreService.cpp): the threads of the *)
(* program send requests through pipes to a forked service, which starts a  *)
(* privileged one with sudo when a request needs it and then passes such    *)
(* requests on.  CoreServiceProxy.h and VolumePasswordCache.cpp are on top. *)
(***************************************************************************)
EXTENDS Naturals, Sequences, FiniteSets

CONSTANTS
    CsThreads,       \* threads of the program that make requests
    CacheCapacity,   \* capacity of the password cache
    MaxCsCalls,      \* bound: calls of the program
    MaxCsFaults      \* bound: processes that die, late answers of sudo, wrong passwords for it

VARIABLES
    thr,       \* thread -> its call
    csMutex,   \* the mutex of SendRequest: the thread that holds it, or 0
    csApp,     \* the program: running?, ElevatedServiceAvailable, password cache
    csSvc,     \* the service: state, request in work, ElevatedServiceAvailable
    elevated,  \* the privileged service: state and input not read yet
    toSvc, fromSvc, toElev, fromElev,   \* the pipes
    sudo,      \* what sudo asks for: "nothing" or "password"
    csLog,     \* history: "missed", a cached password that was not tried
    csCount    \* counters: calls, faults

csVars == <<thr, csMutex, csApp, csSvc, elevated, toSvc, fromSvc, toElev, fromElev, sudo, csLog, csCount>>
CsPipes == <<toSvc, fromSvc, toElev, fromElev>>

NoCall == [at |-> "idle", op |-> "none", id |-> 0, pws |-> <<>>, vol |-> 0, store |-> FALSE, had |-> FALSE, fast |-> FALSE, loop |-> FALSE, admin |-> ""]
\* Volume 1 opens with "a", volume 2 with "b".
OpensWith(vol) == IF vol = 1 THEN "a" ELSE "b"
NoMessage == [id |-> 0, op |-> "none", vol |-> 0, pw |-> "", elevate |-> FALSE, fast |-> FALSE, admin |-> ""]

\* The privileged process reads its input up to the code 00 11 22: what sudo
\* did not take of the password line comes before it.  0, 17 and 34 are the
\* bytes of the code, 1 and 10 stand for a letter and the end of the line.
Sync == <<0, 17, 34>>
SyncStep(state, b) ==
    IF state = 3 THEN 3
    ELSE IF state = 0 THEN (IF b = 0 THEN 1 ELSE 0)
    ELSE IF state = 1 THEN (IF b = 17 THEN 2 ELSE 0)
    ELSE (IF b = 34 THEN 3 ELSE 0)
\* The number of bytes read when the code was found, or 0.
SyncEnd(bytes) ==
    LET state[n \in 0 .. Len(bytes)] == IF n = 0 THEN 0 ELSE SyncStep(state[n - 1], bytes[n])
        found == {n \in 1 .. Len(bytes) : state[n] = 3}
    IN IF found = {} THEN 0 ELSE CHOOSE n \in found : \A m \in found : n <= m

CsInit ==
    /\ thr = [t \in CsThreads |-> NoCall] /\ csMutex = 0
    /\ csApp = [runs |-> TRUE, elev |-> FALSE, cache |-> <<>>]
    /\ csSvc = [at |-> "read", cur |-> NoMessage, elev |-> FALSE]
    /\ elevated = [at |-> "none", input |-> <<>>]
    /\ toSvc = <<>> /\ fromSvc = <<>> /\ toElev = <<>> /\ fromElev = <<>>
    /\ sudo \in {"nothing", "password"}
    /\ csLog = {} /\ csCount = [calls |-> 0, faults |-> 0]
CsFault == csCount.faults < MaxCsFaults /\ csCount' = [csCount EXCEPT !.faults = @ + 1]

-----------------------------------------------------------------------------
(* The program. *)
\* MountVolume of the proxy: without a password every cached one is tried.
CallMount(t, vol, pw, store) ==
    /\ csApp.runs /\ thr[t].at = "idle" /\ csCount.calls < MaxCsCalls
    /\ csCount' = [csCount EXCEPT !.calls = @ + 1]
    /\ LET pws == IF pw = "" /\ csApp.cache # <<>> THEN csApp.cache ELSE <<pw>>
       IN thr' = [thr EXCEPT ![t] = [NoCall EXCEPT !.at = "lock", !.op = "mount", !.id = csCount.calls + 1,
                                                   !.vol = vol, !.pws = pws, !.store = store /\ pw # "",
                                                   !.had = OpensWith(vol) \in {pws[i] : i \in 1 .. Len(pws)}]]
    /\ UNCHANGED <<csMutex, csApp, csSvc, elevated, CsPipes, sudo, csLog>>
\* Dismounting, checking a file system, asking for the size of a device, ...
CallOther(t) ==
    /\ csApp.runs /\ thr[t].at = "idle" /\ csCount.calls < MaxCsCalls
    /\ csCount' = [csCount EXCEPT !.calls = @ + 1]
    /\ thr' = [thr EXCEPT ![t] = [NoCall EXCEPT !.at = "lock", !.op = "other", !.id = csCount.calls + 1, !.pws = <<"">>]]
    /\ UNCHANGED <<csMutex, csApp, csSvc, elevated, CsPipes, sudo, csLog>>
\* SendRequest of a program without administrator privileges.
CsLock(t) ==
    /\ thr[t].at = "lock" /\ csMutex = 0 /\ csMutex' = t
    /\ thr' = [thr EXCEPT ![t].at = "send", ![t].fast = ~csApp.elev, ![t].loop = ~csApp.elev]
    /\ UNCHANGED <<csApp, csSvc, elevated, CsPipes, sudo, csLog, csCount>>
CsMessage(t) ==
    [id |-> thr[t].id, op |-> thr[t].op, vol |-> thr[t].vol, pw |-> Head(thr[t].pws), elevate |-> TRUE,
     fast |-> thr[t].fast, admin |-> thr[t].admin]
\* VolumePasswordCache::Store
CacheStore(cache, pw) ==
    LET l == <<pw>> \o SelectSeq(cache, LAMBDA x : x # pw)
    IN SubSeq(l, 1, IF Len(l) > CacheCapacity THEN CacheCapacity ELSE Len(l))
\* The call's end, or the next cached password after a wrong one.
CsReturn(t, result, elev) ==
    /\ csMutex' = 0
    /\ LET c == thr[t]
           again == result = "PasswordIncorrect" /\ Len(c.pws) > 1
           keep == result = "ok" /\ c.op = "mount" /\ c.store
       IN /\ thr' = [thr EXCEPT ![t] = IF again THEN [c EXCEPT !.at = "lock", !.pws = Tail(@), !.admin = ""] ELSE NoCall]
          /\ csApp' = [csApp EXCEPT !.elev = elev, !.cache = IF keep THEN CacheStore(@, Head(c.pws)) ELSE @]
          /\ csLog' = IF ~again /\ result = "PasswordIncorrect" /\ c.had THEN csLog \cup {"missed"} ELSE csLog
CsSend(t) ==
    /\ thr[t].at = "send"
    /\ IF csSvc.at = "dead" THEN CsReturn(t, "broken", csApp.elev) /\ UNCHANGED toSvc
       ELSE /\ toSvc' = Append(toSvc, CsMessage(t)) /\ thr' = [thr EXCEPT ![t].at = "wait"]
            /\ UNCHANGED <<csMutex, csApp, csLog>>
    /\ UNCHANGED <<csSvc, elevated, fromSvc, toElev, fromElev, sudo, csCount>>
CsReceive(t) ==
    /\ thr[t].at = "wait"
    /\ \/ /\ fromSvc # <<>> /\ fromSvc' = Tail(fromSvc)
          /\ LET r == Head(fromSvc).result
             IN IF thr[t].loop /\ r = "ElevationFailed"
                THEN thr' = [thr EXCEPT ![t].at = "ask", ![t].fast = FALSE] /\ UNCHANGED <<csMutex, csApp, csLog>>
                ELSE CsReturn(t, r, csApp.elev \/ (thr[t].loop /\ r = "ok"))
       \/ /\ fromSvc = <<>> /\ csSvc.at = "dead" /\ CsReturn(t, "broken", csApp.elev) /\ UNCHANGED fromSvc
    /\ UNCHANGED <<csSvc, elevated, toSvc, toElev, fromElev, sudo, csCount>>
\* The user types the administrator's password, or cancels.
AdminPasswordCallback(t, answer) ==
    /\ thr[t].at = "ask"
    /\ IF answer = "cancel" THEN CsReturn(t, "aborted", csApp.elev)
       ELSE thr' = [thr EXCEPT ![t].at = "send", ![t].admin = answer] /\ UNCHANGED <<csMutex, csApp, csLog>>
    /\ IF answer = "wrong" THEN CsFault ELSE UNCHANGED csCount
    /\ UNCHANGED <<csSvc, elevated, CsPipes, sudo>>
\* The program ends; it may also die without a word.
CsStop ==
    /\ csApp.runs /\ \A t \in CsThreads : thr[t].at = "idle"
    /\ csApp' = [csApp EXCEPT !.runs = FALSE]
    /\ toSvc' = IF csSvc.at = "dead" THEN toSvc ELSE Append(toSvc, [NoMessage EXCEPT !.op = "exit"])
    /\ UNCHANGED <<thr, csMutex, csSvc, elevated, fromSvc, toElev, fromElev, sudo, csLog, csCount>>
ProgramDies ==
    /\ csApp.runs /\ CsFault /\ csApp' = [csApp EXCEPT !.runs = FALSE]
    /\ thr' = [t \in CsThreads |-> NoCall] /\ csMutex' = 0
    /\ UNCHANGED <<csSvc, elevated, CsPipes, sudo, csLog>>

-----------------------------------------------------------------------------
(* The service. *)
CsAnswer(id, result) == [id |-> id, result |-> result]
CsReplies(result) ==
    /\ fromSvc' = Append(fromSvc, CsAnswer(csSvc.cur.id, result))
    /\ csSvc' = [csSvc EXCEPT !.at = "read", !.cur = NoMessage]
\* The next request; at the end of the input the service ends.
SvcRead ==
    /\ csSvc.at = "read"
    /\ \/ /\ toSvc # <<>> /\ toSvc' = Tail(toSvc)
          /\ IF Head(toSvc).op = "exit"
             THEN /\ csSvc' = [csSvc EXCEPT !.at = "dead"]
                  /\ toElev' = IF csSvc.elev THEN Append(toElev, Head(toSvc)) ELSE toElev
             ELSE /\ csSvc' = [csSvc EXCEPT !.cur = Head(toSvc), !.at = IF csSvc.elev THEN "forward" ELSE "start"]
                  /\ UNCHANGED toElev
       \/ /\ toSvc = <<>> /\ ~csApp.runs /\ csSvc' = [csSvc EXCEPT !.at = "dead"] /\ UNCHANGED <<toSvc, toElev>>
    /\ UNCHANGED <<thr, csMutex, csApp, elevated, fromSvc, fromElev, sudo, csLog, csCount>>
\* StartElevated.  A dummy password is tried first, with a short patience; the
\* privileged process of a sudo that came too late reads the end of its input.
PasswordLine == IF csSvc.cur.fast THEN <<1, 1, 10>> ELSE IF sudo = "nothing" THEN <<1, 17, 34, 10>> ELSE <<>>
StartElevated ==
    /\ csSvc.at = "start"
    /\ LET r == csSvc.cur
           granted == sudo = "nothing" \/ (~r.fast /\ r.admin = "right")
       IN \/ /\ granted
             /\ elevated' = [at |-> "sync", input |-> PasswordLine \o Sync]
             /\ csSvc' = [csSvc EXCEPT !.at = "forward", !.elev = TRUE, !.cur.admin = ""]
             /\ sudo' = "nothing" /\ UNCHANGED <<fromSvc, csCount>>
          \/ /\ IF granted THEN CsFault ELSE UNCHANGED csCount
             /\ CsReplies("ElevationFailed") /\ UNCHANGED <<elevated, sudo>>
    /\ UNCHANGED <<thr, csMutex, csApp, toSvc, toElev, fromElev, csLog>>
SvcForward ==
    /\ csSvc.at = "forward"
    /\ IF elevated.at \in {"none", "dead"} THEN CsReplies("broken") /\ UNCHANGED toElev
       ELSE /\ toElev' = Append(toElev, csSvc.cur) /\ csSvc' = [csSvc EXCEPT !.at = "relay"] /\ UNCHANGED fromSvc
    /\ UNCHANGED <<thr, csMutex, csApp, elevated, toSvc, fromElev, sudo, csLog, csCount>>
\* Mutant of SvcRelay: the end of the privileged process is not noticed.
SvcRelayWaits ==
    /\ csSvc.at = "relay" /\ fromElev # <<>> /\ fromElev' = Tail(fromElev)
    /\ fromSvc' = Append(fromSvc, Head(fromElev)) /\ csSvc' = [csSvc EXCEPT !.at = "read", !.cur = NoMessage]
    /\ UNCHANGED <<thr, csMutex, csApp, elevated, toSvc, toElev, sudo, csLog, csCount>>

SvcRelay ==
    /\ csSvc.at = "relay"
    /\ \/ /\ fromElev # <<>> /\ fromElev' = Tail(fromElev) /\ fromSvc' = Append(fromSvc, Head(fromElev))
          /\ csSvc' = [csSvc EXCEPT !.at = "read", !.cur = NoMessage]
       \/ fromElev = <<>> /\ elevated.at = "dead" /\ CsReplies("broken") /\ UNCHANGED fromElev
    /\ UNCHANGED <<thr, csMutex, csApp, elevated, toSvc, toElev, sudo, csLog, csCount>>
ServiceDies ==
    /\ csSvc.at # "dead" /\ CsFault /\ csSvc' = [csSvc EXCEPT !.at = "dead"]
    /\ UNCHANGED <<thr, csMutex, csApp, elevated, CsPipes, sudo, csLog>>

(* The privileged service. *)
ElevSync ==
    /\ elevated.at = "sync"
    /\ LET n == SyncEnd(elevated.input)
       IN elevated' = [at |-> IF n = Len(elevated.input) THEN "serve" ELSE "dead", input |-> <<>>]
    /\ UNCHANGED <<thr, csMutex, csApp, csSvc, CsPipes, sudo, csLog, csCount>>
\* What an operation answers: a volume opens with the right password only.
ElevServe ==
    /\ elevated.at = "serve"
    /\ \/ /\ toElev # <<>> /\ toElev' = Tail(toElev)
          /\ LET r == Head(toElev)
             IN IF r.op = "exit" THEN elevated' = [elevated EXCEPT !.at = "dead"] /\ UNCHANGED fromElev
                ELSE /\ \E result \in (IF r.op = "mount" /\ r.pw # OpensWith(r.vol) THEN {"PasswordIncorrect"} ELSE {"ok", "error"}) :
                           fromElev' = Append(fromElev, CsAnswer(r.id, result))
                     /\ UNCHANGED elevated
       \/ /\ toElev = <<>> /\ csSvc.at = "dead" /\ elevated' = [elevated EXCEPT !.at = "dead"]
          /\ UNCHANGED <<toElev, fromElev>>
    /\ UNCHANGED <<thr, csMutex, csApp, csSvc, toSvc, fromSvc, sudo, csLog, csCount>>
ElevatedDies ==
    /\ elevated.at \in {"sync", "serve"} /\ CsFault /\ elevated' = [elevated EXCEPT !.at = "dead"]
    /\ UNCHANGED <<thr, csMutex, csApp, csSvc, CsPipes, sudo, csLog>>

CsThread(t) == CsLock(t) \/ CsSend(t) \/ CsReceive(t)
CsService == SvcRead \/ StartElevated \/ SvcForward \/ SvcRelay
CsElevated == ElevSync \/ ElevServe
CsNext ==
    \/ \E t \in CsThreads :
          \/ \E vol \in {1, 2}, pw \in {"", "a", "b"} : CallMount(t, vol, pw, pw = OpensWith(vol))
          \/ CallOther(t) \/ CsThread(t)
          \/ \E answer \in {"right", "wrong", "cancel"} : AdminPasswordCallback(t, answer)
    \/ CsStop \/ ProgramDies \/ ServiceDies \/ ElevatedDies
    \/ CsService \/ CsElevated
CsSpec == CsInit /\ [][CsNext]_csVars
\* Processes and threads run on; the user answers in the end.
CsFairness ==
    /\ WF_csVars(CsService) /\ WF_csVars(CsElevated)
    /\ \A t \in CsThreads :
          /\ WF_csVars(CsThread(t))
          /\ WF_csVars(AdminPasswordCallback(t, "right") \/ AdminPasswordCallback(t, "cancel"))
CsFairSpec == CsSpec /\ CsFairness

-----------------------------------------------------------------------------
\* Whatever dies or fails in between, a thread never takes the answer to
\* another request for its own: requests and answers in the pipes stay in step.
AnswerIsOwn ==
    \A t \in CsThreads : thr[t].at \in {"lock", "send", "wait"} /\ csMutex \in {0, t} =>
        \A i \in 1 .. Len(fromSvc) : thr[t].at = "wait" /\ fromSvc[i].id = thr[t].id

\* The administrator's password goes to sudo and no further: the requests that
\* the privileged service reads hold none.
AdminPasswordConfined == \A i \in 1 .. Len(toElev) : toElev[i].admin = ""

\* A volume whose password is in the cache is not reported as protected by
\* another one: the cached passwords are tried to the last.
CachedOpens == "missed" \notin csLog

\* The privileged service finds the start of the requests behind any leftover
\* of the password line.
SyncIsFound == elevated.at = "sync" => SyncEnd(elevated.input) = Len(elevated.input)

\* Every call returns, although processes die and users mistype.
CsCallReturns == \A t \in CsThreads : []<>(thr[t].at = "idle")

\* No privileged process outlives the program, whether it ended or was killed.
ElevatedEnds == [](~csApp.runs => <>(elevated.at \in {"none", "dead"}))

(* The privileged service: an answer belongs to its request, the administrator password
   stays where it is needed, every cached password is tried, and the service finds the
   start of its requests. *)
ServiceSound == AnswerIsOwn /\ AdminPasswordConfined /\ CachedOpens /\ SyncIsFound

(* Every call of the service returns, and the elevated process ends. *)
ServiceLive == CsCallReturns /\ ElevatedEnds
=============================================================================
