---------------------------- MODULE MCClientSession ----------------------------
(* ClientSession with two clients and two trackers, the users keeping to a *)
(* client each or sitting down at both.                                    *)
EXTENDS ClientSession, TLC

CONSTANTS c1, c2, u1, u2, t1, t2

TwoTrackers == <<t1, t2>>
OneTracker == <<t1>>

OwnClient == (c1 :> {u1}) @@ (c2 :> {u2})
AnyClient == [c \in Clients |-> Users]
=============================================================================
