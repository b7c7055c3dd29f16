----------------------------- MODULE DownloadPool -----------------------------
(***************************************************************************)
(* A client's download of one file: downloadstart fetches chunk 0 (the     *)
(* seed), offers the file to the tracker, then starts a pool of threads    *)
(* (start_down_thread), queues the other chunks (the pieces) for them,     *)
(* destroys the queue's mutex and condition variable, and announces the    *)
(* end.  The threads fetch the pieces with downloadexec.                   *)
(*                                                                         *)
(* What the code leaves undefined is a choice over what the C library      *)
(* (glibc) and the unoptimised build do: a destroyed mutex locks nothing   *)
(* and makes pthread_cond_wait return at once; destroying one that is      *)
(* locked or waited with fails, and destroying a condition variable waits  *)
(* for its waiters; *arg read after downloadstart has returned is any      *)
(* number.  threadDownQueue is a deque: front reads at its cursor, pop     *)
(* loads the cursor, adds one and stores it, and empty compares it with    *)
(* the end; what lies behind the end is a null pointer or a wild one.      *)
(*                                                                         *)
(* A definition named X_Y is X with the slip Y, and no part of the model.  *)
(* Left out: a second download at the same time or of a file the client    *)
(* has already, and what is in the chunks.  A cursor more than one behind  *)
(* the end is taken for one behind it: both lead to nothing.               *)
(***************************************************************************)
EXTENDS Integers, Sequences, FiniteSets

CONSTANTS Workers,      \* the threads of the download pool
          Pieces,       \* the chunks but the seed
          Seed          \* chunk 0

ASSUME DownloadAssumption ==
  /\ IsFiniteSet(Workers) /\ IsFiniteSet(Pieces)
  /\ Seed \notin Pieces
  /\ Pieces \cap {"none", "null", "wild"} = {}

VARIABLES dpc,          \* where downloadstart is
          entry,        \* filetomap's entry for the file
          file,         \* whether the destination file exists
          topush,       \* the pieces downloadstart has not queued yet
          pushed,       \* the pieces in the memory of threadDownQueue
          first,        \* its cursor: how many of them are popped
          mutex,        \* mutexDownQueue, outside critical sections
          pc,           \* where each worker is in start_down_thread
          hand,         \* the pointer a worker has taken from the queue
          loaded,       \* the cursor that a worker's pop has loaded
          breakcond,    \* each worker's copy of breakcond
          strayed,      \* the workers that read breakcond from a frame that was gone
          taken,        \* the pieces some worker has taken
          arrived,      \* the chunks written to the destination file
          announced,    \* "Download Completed Successfully!" is printed
          alive         \* the client has not died

starterVars == <<dpc, entry, file, topush, announced>>
queueVars == <<pushed, first, taken>>
workerVars == <<pc, hand, loaded, breakcond, strayed>>
vars == <<starterVars, queueVars, workerVars, mutex, arrived, alive>>

Stage == {"seed", "offer", "setup", "push", "destroy mutex", "destroy cond",
          "finish", "returned"}

Place == {"unborn", "born", "top", "waiting", "woken", "front", "pop", "store", "exec",
          "check", "exited"}

Nothing == {"null", "wild"}

TypeOK == /\ dpc \in Stage
          /\ entry \in {"absent", "null", "file"}
          /\ file \in BOOLEAN
          /\ topush \in SUBSET Pieces
          /\ pushed \in Seq(Pieces)
          /\ first \in 0..(Len(pushed) + 1)
          /\ mutex \in {"unset", "free", "destroyed"}
          /\ pc \in [Workers -> Place]
          /\ hand \in [Workers -> Pieces \cup Nothing \cup {"none"}]
          /\ loaded \in [Workers -> 0..(Len(pushed) + 1)]
          /\ breakcond \in [Workers -> Int]
          /\ strayed \in SUBSET Workers
          /\ taken \in SUBSET Pieces
          /\ arrived \in SUBSET (Pieces \cup {Seed})
          /\ announced \in BOOLEAN
          /\ alive \in BOOLEAN
          /\ \A w \in Workers : pc[w] \in {"pop", "store", "exec"} <=> hand[w] # "none"

Init == /\ dpc = "seed"
        /\ entry = "absent"
        /\ file = FALSE
        /\ topush = Pieces
        /\ pushed = <<>>
        /\ first = 0
        /\ mutex = "unset"
        /\ pc = [w \in Workers |-> "unborn"]
        /\ hand = [w \in Workers |-> "none"]
        /\ loaded = [w \in Workers |-> 0]
        /\ breakcond = [w \in Workers |-> 0]
        /\ strayed = {}
        /\ taken = {}
        /\ arrived = {}
        /\ announced = FALSE
        /\ alive = TRUE

-----------------------------------------------------------------------------
(* downloadstart *)

(* downloadexec on chunk 0: it comes, or a peer breaks off and leaves an   *)
(* empty file or ends the client (a reply that was never read is used),    *)
(* or no peer answers in five attempts.  Looking for the file with         *)
(* operator[] leaves a null entry.                                         *)
FetchSeed == /\ dpc = "seed"
             /\ dpc' = "offer"
             /\ entry' = "null"
             /\ \/ arrived' = {Seed} /\ file' = TRUE
                \/ UNCHANGED arrived /\ file' \in BOOLEAN
             /\ alive' \in BOOLEAN
             /\ UNCHANGED <<topush, announced, queueVars, workerVars, mutex>>

(* ufile registers the file with the tracker and in filetomap, or fails:   *)
(* there is no file, no session, no tracker, or the tracker refuses.       *)
Offer == /\ dpc = "offer"
         /\ \/ file /\ entry' = "file" /\ dpc' = "setup"
            \/ UNCHANGED entry /\ dpc' = "returned"
         /\ UNCHANGED <<file, topush, announced, queueVars, workerVars, mutex, arrived, alive>>

SetUp == /\ dpc = "setup"
         /\ dpc' = "push"
         /\ mutex' = "free"
         /\ pc' = [w \in Workers |-> "born"]
         /\ UNCHANGED <<entry, file, topush, announced, queueVars,
                        hand, loaded, breakcond, strayed, arrived, alive>>

Waiting == {w \in Workers : pc[w] = "waiting"}

(* A push without a signal. *)
Signal_Forgotten == UNCHANGED pc

Signal == \/ Waiting = {} /\ UNCHANGED pc
          \/ \E w \in Waiting : pc' = [pc EXCEPT ![w] = "woken"]

Push(p) == /\ dpc = "push"
           /\ p \in topush
           /\ topush' = topush \ {p}
           /\ pushed' = Append(pushed, p)
           /\ Signal
           /\ UNCHANGED <<dpc, entry, file, announced, first, taken,
                          hand, loaded, breakcond, strayed, mutex, arrived, alive>>

(* The mutex is destroyed, unless a worker waits with it or is in its      *)
(* critical section.                                                       *)
DestroyMutex == /\ dpc = "push"
                /\ topush = {}
                /\ dpc' = "destroy cond"
                /\ \/ /\ \A w \in Workers : pc[w] \notin {"waiting", "woken"}
                      /\ mutex' = "destroyed"
                   \/ /\ \E w \in Workers : pc[w] \in {"top", "waiting", "woken"}
                      /\ UNCHANGED mutex
                /\ UNCHANGED <<entry, file, topush, announced, queueVars, workerVars,
                               arrived, alive>>

DestroyCond == /\ dpc = "destroy cond"
               /\ Waiting = {}
               /\ dpc' = "finish"
               /\ UNCHANGED <<entry, file, topush, announced, queueVars, workerVars,
                              mutex, arrived, alive>>

Finish == /\ dpc = "finish"
          /\ dpc' = "returned"
          /\ announced' = TRUE
          /\ UNCHANGED <<entry, file, topush, queueVars, workerVars, mutex, arrived, alive>>

-----------------------------------------------------------------------------
(* The workers *)

(* A count one short of the pieces. *)
ReadBreakcond_OneShort(w) ==
  \/ /\ dpc # "returned"
     /\ breakcond' = [breakcond EXCEPT ![w] = Cardinality(Pieces) - 1]
     /\ UNCHANGED strayed
  \/ /\ dpc = "returned"
     /\ \E n \in 0..(Cardinality(Pieces) + 1) : breakcond' = [breakcond EXCEPT ![w] = n]
     /\ strayed' = strayed \cup {w}

(* breakcond lives in the frame of downloadstart.  What is there later is  *)
(* bounded by one more than the pieces.                                    *)
ReadBreakcond(w) ==
  \/ /\ dpc # "returned"
     /\ breakcond' = [breakcond EXCEPT ![w] = Cardinality(Pieces)]
     /\ UNCHANGED strayed
  \/ /\ dpc = "returned"
     /\ \E n \in 0..(Cardinality(Pieces) + 1) : breakcond' = [breakcond EXCEPT ![w] = n]
     /\ strayed' = strayed \cup {w}

Enter(w) == /\ pc[w] = "born"
            /\ ReadBreakcond(w)
            /\ pc' = [pc EXCEPT ![w] = "top"]
            /\ UNCHANGED <<starterVars, queueVars, hand, loaded, mutex, arrived, alive>>

Filled == first # Len(pushed)

CountDown(w) == breakcond' = [breakcond EXCEPT ![w] = @ - 1]

(* front without pop *)
Pop_FrontOnly(w) == /\ hand' = [hand EXCEPT ![w] = pushed[first + 1]]
                    /\ taken' = taken \cup {pushed[first + 1]}
                    /\ pc' = [pc EXCEPT ![w] = "exec"]
                    /\ UNCHANGED first

Pop(w) == /\ hand' = [hand EXCEPT ![w] = pushed[first + 1]]
          /\ taken' = taken \cup {pushed[first + 1]}
          /\ first' = first + 1
          /\ pc' = [pc EXCEPT ![w] = "exec"]

(* The critical section, as long as there is a mutex.  Only the branch     *)
(* that need not wait counts down.                                         *)
Take(w) == /\ pc[w] \in {"top", "woken"}
           /\ mutex = "free"
           /\ Filled
           /\ Pop(w)
           /\ IF pc[w] = "top" THEN CountDown(w) ELSE UNCHANGED breakcond
           /\ UNCHANGED <<starterVars, pushed, loaded, strayed, mutex, arrived, alive>>

(* Without one, the look and front are steps of their own, and pop is two: *)
(* it may store a cursor that others have moved on since, and bring back   *)
(* what they have taken, or pass over what nobody has.                     *)
Look(w) == /\ pc[w] \in {"top", "woken"}
           /\ mutex = "destroyed"
           /\ Filled
           /\ pc' = [pc EXCEPT ![w] = "front"]
           /\ IF pc[w] = "top" THEN CountDown(w) ELSE UNCHANGED breakcond
           /\ UNCHANGED <<starterVars, queueVars, hand, loaded, strayed, mutex, arrived, alive>>

Front(w) ==
  /\ pc[w] = "front"
  /\ \E p \in IF first < Len(pushed) THEN {pushed[first + 1]} ELSE Nothing :
       /\ hand' = [hand EXCEPT ![w] = p]
       /\ taken' = taken \cup ({p} \cap Pieces)
  /\ pc' = [pc EXCEPT ![w] = "pop"]
  /\ UNCHANGED <<starterVars, pushed, first, loaded, breakcond, strayed, mutex, arrived, alive>>

PopLoads(w) == /\ pc[w] = "pop"
               /\ loaded' = [loaded EXCEPT ![w] = first]
               /\ pc' = [pc EXCEPT ![w] = "store"]
               /\ UNCHANGED <<starterVars, queueVars, hand, breakcond, strayed,
                              mutex, arrived, alive>>

(* A null pointer is not handed to downloadexec. *)
PopStores(w) ==
  /\ pc[w] = "store"
  /\ first' = IF loaded[w] > Len(pushed) THEN loaded[w] ELSE loaded[w] + 1
  /\ \/ /\ hand[w] # "null"
        /\ pc' = [pc EXCEPT ![w] = "exec"]
        /\ UNCHANGED hand
     \/ /\ hand[w] = "null"
        /\ pc' = [pc EXCEPT ![w] = "check"]
        /\ hand' = [hand EXCEPT ![w] = "none"]
  /\ UNCHANGED <<starterVars, pushed, taken, loaded, breakcond, strayed, mutex, arrived, alive>>

(* The queue is empty: the worker waits; if the mutex is gone the wait     *)
(* returns at once.                                                        *)
Wait(w) == /\ pc[w] = "top"
           /\ ~Filled
           /\ pc' = [pc EXCEPT ![w] = IF mutex = "free" THEN "waiting" ELSE "woken"]
           /\ UNCHANGED <<starterVars, queueVars, hand, loaded, breakcond, strayed,
                          mutex, arrived, alive>>

(* pthread_cond_wait may return without a signal. *)
SpuriousWakeup(w) ==
  /\ pc[w] = "waiting"
  /\ pc' = [pc EXCEPT ![w] = "woken"]
  /\ UNCHANGED <<starterVars, queueVars, hand, loaded, breakcond, strayed, mutex, arrived, alive>>

(* pclient not set to NULL before the wait: downloadexec is called with it. *)
NothingThere_NotNull(w) ==
  /\ pc[w] = "woken"
  /\ ~Filled
  /\ pc' = [pc EXCEPT ![w] = "exec"]
  /\ UNCHANGED <<starterVars, queueVars, hand, loaded, breakcond, strayed, mutex, arrived, alive>>

(* The queue is still empty after the wait. *)
NothingThere(w) ==
  /\ pc[w] = "woken"
  /\ ~Filled
  /\ pc' = [pc EXCEPT ![w] = "check"]
  /\ UNCHANGED <<starterVars, queueVars, hand, loaded, breakcond, strayed, mutex, arrived, alive>>

(* downloadexec: the piece arrives, or five attempts fail, or the client   *)
(* ends, with a peer that breaks off or a wild pointer.                    *)
Fetch(w) == /\ pc[w] = "exec"
            /\ \/ /\ hand[w] \in Pieces
                  /\ arrived' \in {arrived, arrived \cup {hand[w]}}
                  /\ alive' \in BOOLEAN
               \/ /\ hand[w] = "wild"
                  /\ UNCHANGED arrived
                  /\ alive' = FALSE
            /\ hand' = [hand EXCEPT ![w] = "none"]
            /\ pc' = [pc EXCEPT ![w] = "check"]
            /\ UNCHANGED <<starterVars, queueVars, loaded, breakcond, strayed, mutex>>

Check(w) == /\ pc[w] = "check"
            /\ pc' = [pc EXCEPT ![w] = IF breakcond[w] <= 0 THEN "exited" ELSE "top"]
            /\ UNCHANGED <<starterVars, queueVars, hand, loaded, breakcond, strayed,
                           mutex, arrived, alive>>

-----------------------------------------------------------------------------
(* A peer's getchunks or download, or the user's show_downloads, follows   *)
(* the entry.                                                              *)
FollowEntry == /\ entry = "null"
               /\ alive' = FALSE
               /\ UNCHANGED <<starterVars, queueVars, workerVars, mutex, arrived>>

Queueing == \/ SetUp \/ DestroyMutex \/ DestroyCond \/ Finish
            \/ \E p \in Pieces : Push(p)

downloadstart == FetchSeed \/ Offer \/ Queueing

Looping(w) == \/ Enter(w) \/ Take(w) \/ Look(w) \/ Front(w) \/ PopLoads(w) \/ PopStores(w)
              \/ Wait(w) \/ NothingThere(w) \/ Check(w)

start_down_thread(w) == Looping(w) \/ Fetch(w)

Next == /\ alive
        /\ \/ downloadstart
           \/ \E w \in Workers : start_down_thread(w) \/ SpuriousWakeup(w)
           \/ FollowEntry

(* The threads keep running.  What reads from a socket may never end, for  *)
(* no read has a timeout and no peer closes its end: fetching a chunk and  *)
(* the tracker's answer to ufile.  Nor need a wait return without a        *)
(* signal, or anybody follow the entry.                                    *)
Fairness == /\ WF_vars(alive /\ Queueing)
            /\ \A w \in Workers : WF_vars(alive /\ Looping(w))

Spec == Init /\ [][Next]_vars /\ Fairness

-----------------------------------------------------------------------------
queue == SubSeq(pushed, first + 1, Len(pushed))

Queued == {pushed[i] : i \in (first + 1)..Len(pushed)}

(* As long as the mutex is there, each piece is at one place: still to be  *)
(* queued, in the queue once, or taken by one worker.                      *)
PiecesInOnePlace ==
  mutex # "destroyed" =>
    /\ Len(queue) = Cardinality(Queued)
    /\ topush \cap Queued = {} /\ topush \cap taken = {} /\ Queued \cap taken = {}
    /\ topush \cup Queued \cup taken = Pieces
    /\ \A v, w \in Workers : hand[v] = hand[w] /\ hand[v] # "none" => v = w

(* As long as the mutex is there (for ever, if a worker waits with it or   *)
(* is in its critical section when it should be destroyed), a worker       *)
(* leaves only when every piece has been queued and none is left, unless   *)
(* it read breakcond too late: each worker counts the pieces for itself,   *)
(* so none leaves too early, and most never leave.  Once the mutex is      *)
(* gone, a pop that stores an old cursor brings pieces back behind a       *)
(* worker that has left.                                                   *)
NobodyLeavesWork ==
  mutex # "destroyed" =>
    \A w \in Workers : pc[w] = "exited" /\ w \notin strayed => topush = {} /\ queue = <<>>

(* Every queued piece is taken in the end, unless the client died, or each *)
(* worker has left for good, because of the breakcond it read, or hangs    *)
(* for good in downloadexec, with a peer that neither sends nor closes.    *)
QueueDrains ==
  \A p \in Pieces :
    p \in Queued ~> \/ p \notin Queued
                   \/ ~alive
                   \/ [](\A w \in Workers : pc[w] \in {"exited", "exec"})

(* When the client says "Download Completed Successfully!", every chunk    *)
(* has arrived.                                                            *)
CompletedMeansArrived == announced => arrived = Pieces \cup {Seed}
=============================================================================
