----------------------- MODULE MCEncryptionThreadPool -----------------------
(* Small instances of the encryption thread pool for TLC. *)
EXTENDS EncryptionThreadPool, TLC

CONSTANTS w1, w2, c1, c2

MCThreads == {w1, w2}
MCCallers == {c1, c2}

\* No unit, fewer units than threads, one unit more than divides evenly, a key derivation.
AllJobs == [type : {"data"}, units : {0, 1, 3}] \cup [type : {"key"}, units : {0}]

\* A call that is split over the threads and a key derivation.
MixedJobs == {[type |-> "data", units |-> 3], [type |-> "key", units |-> 0]}

\* A caller that does not wait for its key derivations fills the ring by itself.
OneCaller == {c1}

PoolSymmetry == Permutations(MCThreads) \cup Permutations(MCCallers)
=============================================================================
