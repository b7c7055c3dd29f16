--------------------------- MODULE GroupMembership ---------------------------
(***************************************************************************)
(* What the tracker promises about groups, one role per user and group: a  *)
(* group is founded once, by the user who stays its admin for ever; anyone *)
(* else enters it only by asking and then being admitted, and may leave.   *)
(* Module Tracker is shown to implement this one.                          *)
(***************************************************************************)
CONSTANTS Users, Groups

VARIABLE role          \* role[g][u]

Role == {"none", "pending", "member", "admin"}

TypeOK == role \in [Groups -> [Users -> Role]]

Founded(g) == \E u \in Users : role[g][u] = "admin"

Become(g, u, r) == role' = [role EXCEPT ![g][u] = r]

Init == role = [g \in Groups |-> [u \in Users |-> "none"]]

Found(g, u) == ~Founded(g) /\ Become(g, u, "admin")

Ask(g, u) == Founded(g) /\ role[g][u] = "none" /\ Become(g, u, "pending")

Admit(g, u) == role[g][u] = "pending" /\ Become(g, u, "member")

Leave(g, u) == role[g][u] = "member" /\ Become(g, u, "none")

Next == \E g \in Groups, u \in Users :
          Found(g, u) \/ Ask(g, u) \/ Admit(g, u) \/ Leave(g, u)

Spec == Init /\ [][Next]_role
=============================================================================
