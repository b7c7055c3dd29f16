--------------------------- MODULE MCTrackerThreads ---------------------------
(* TrackerThreads with two threads. *)
EXTENDS TrackerThreads, TLC

OneAddress == [u \in Users |-> Addresses]

Symmetry == Permutations(Users) \cup Permutations(Threads) \cup Permutations(Objects)
            \cup Permutations(Passwords)
=============================================================================
