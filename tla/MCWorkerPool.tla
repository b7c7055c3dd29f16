----------------------------- MODULE MCWorkerPool -----------------------------
(* WorkerPool with two workers and one connection more than there are      *)
(* descriptors: requests, a probe, and enough silent ones to pin the pool. *)
EXTENDS WorkerPool, TLC

CONSTANTS r1, r2, p1, s1, s2

MCConns == {r1, r2, p1, s1, s2}

MCKind == [c \in MCConns |-> CASE c \in {r1, r2} -> "request"
                               [] c = p1 -> "probe"
                               [] c \in {s1, s2} -> "silent"]
=============================================================================
