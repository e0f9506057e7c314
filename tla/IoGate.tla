------------------------------- MODULE IoGate -------------------------------
(***************************************************************************)
(* What the I/O queue promises to a thread that holds it: requests arrive  *)
(* at any time, are admitted only while the queue is not held, and the     *)
(* queue becomes held only when no admitted request is unfinished.  So the *)
(* holder has the device, and the bounds of its encrypted area, for itself.*)
(***************************************************************************)
CONSTANT Irps

VARIABLES waiting,    \* requests in the queue that wait to be admitted
          admitted,   \* requests that may access the device
          finished,   \* requests that were completed
          held

gateVars == <<waiting, admitted, finished, held>>

Init == waiting = {} /\ admitted = {} /\ finished = {} /\ held = FALSE

Arrive(i) ==
    /\ i \notin waiting \cup admitted \cup finished
    /\ waiting' = waiting \cup {i}
    /\ UNCHANGED <<admitted, finished, held>>

Admit(i) ==
    /\ i \in waiting /\ ~held
    /\ waiting' = waiting \ {i}
    /\ admitted' = admitted \cup {i}
    /\ UNCHANGED <<finished, held>>

Finish(i) ==
    /\ i \in admitted
    /\ admitted' = admitted \ {i}
    /\ finished' = finished \cup {i}
    /\ UNCHANGED <<waiting, held>>

Hold ==
    /\ ~held /\ admitted = {}
    /\ held' = TRUE
    /\ UNCHANGED <<waiting, admitted, finished>>

Resume ==
    /\ held
    /\ held' = FALSE
    /\ UNCHANGED <<waiting, admitted, finished>>

Next == Hold \/ Resume \/ \E i \in Irps : Arrive(i) \/ Admit(i) \/ Finish(i)

Spec == Init /\ [][Next]_gateVars
=============================================================================
