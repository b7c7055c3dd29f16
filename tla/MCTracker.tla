------------------------------ MODULE MCTracker ------------------------------
(* Tracker on small instances: users who log in from one address each, or  *)
(* all from the same one.                                                  *)
EXTENDS Tracker, TLC

OneAddress == [u \in Users |-> {CHOOSE a \in Addresses : TRUE}]

(* A fixed injection of the users into the addresses. *)
AtHome == CHOOSE home \in [Users -> {{a} : a \in Addresses}] :
            \A u, v \in Users : home[u] = home[v] => u = v

(* Users and addresses are not interchangeable under AtHome. *)
SymmetryAtHome == Permutations(Groups) \cup Permutations(Files) \cup Permutations(Passwords)
=============================================================================
