-------------------------- MODULE DownloadPoolProofs --------------------------
(* Proofs about module DownloadPool, for any workers and any pieces. *)
EXTENDS DownloadPool, FiniteSetTheorems, SequenceTheorems, TLAPS

(* How the stages of downloadstart go with the workers and the mutex. *)
Stages == /\ dpc \in {"seed", "offer", "setup"} => \A w \in Workers : pc[w] = "unborn"
          /\ mutex = "destroyed" =>
               topush = {} /\ dpc \in {"destroy cond", "finish", "returned"}
          /\ mutex # "destroyed" => first <= Len(pushed)
          /\ \A w \in Workers : pc[w] \in {"front", "pop", "store"} => mutex = "destroyed"

(* The pieces that no worker has taken yet, while the mutex is there. *)
Left == Len(pushed) - first + Cardinality(topush)

(* Until the mutex is destroyed each worker that read breakcond in time    *)
(* has as many to count as are left, or none is.                           *)
WorkCounted ==
  mutex # "destroyed" =>
    /\ Left <= Cardinality(Pieces)
    /\ \A w \in Workers : pc[w] = "exited" => breakcond[w] <= 0
    /\ \A w \in Workers \ strayed :
         pc[w] \notin {"unborn", "born"} => Left = 0 \/ Left <= breakcond[w]

-----------------------------------------------------------------------------
(* Each step of downloadstart keeps the types and the stages. *)
LEMMA StarterStep ==
  ASSUME TypeOK, Stages, downloadstart
  PROVE  TypeOK' /\ Stages'
<1> USE DEF TypeOK, Stages, Stage, Place, queueVars, workerVars
<1>1. CASE FetchSeed
  BY <1>1 DEF FetchSeed
<1>2. CASE Offer
  BY <1>2 DEF Offer
<1>3. CASE SetUp
  BY <1>3 DEF SetUp
<1>4. ASSUME NEW p \in Pieces, Push(p) PROVE TypeOK' /\ Stages'
  <2>1. pc' \in [Workers -> Place]
    BY <1>4 DEF Push, Signal, Waiting
  <2>2. pushed' \in Seq(Pieces) /\ Len(pushed') = Len(pushed) + 1
    BY <1>4 DEF Push
  <2>3. ASSUME NEW w \in Workers
        PROVE  pc'[w] = pc[w] \/ (pc[w] = "waiting" /\ pc'[w] = "woken")
    BY <1>4 DEF Push, Signal, Waiting
  <2>4. first' \in 0..(Len(pushed') + 1) /\ loaded' \in [Workers -> 0..(Len(pushed') + 1)]
    BY <1>4, <2>2 DEF Push
  <2>5. TypeOK'
    BY <1>4, <2>1, <2>2, <2>3, <2>4 DEF Push
  <2>6. Stages'
    BY <1>4, <2>1, <2>2, <2>3 DEF Push
  <2> QED BY <2>5, <2>6
<1>5. CASE DestroyMutex
  BY <1>5 DEF DestroyMutex
<1>6. CASE DestroyCond
  BY <1>6 DEF DestroyCond
<1>7. CASE Finish
  BY <1>7 DEF Finish
<1> QED BY <1>1, <1>2, <1>3, <1>4, <1>5, <1>6, <1>7 DEF downloadstart, Queueing

(* The cursor is a number. *)
LEMMA CursorIsNat ==
  ASSUME TypeOK
  PROVE  /\ Len(pushed) \in Nat /\ first \in Nat
         /\ \A n \in Int : n \in 0..(Len(pushed) + 1) <=> 0 <= n /\ n <= Len(pushed) + 1
         /\ \A w \in Workers : loaded[w] \in Int
<1>1. pushed \in Seq(Pieces)
  BY DEF TypeOK
<1>2. Len(pushed) \in Nat
  BY <1>1
<1> QED BY <1>2 DEF TypeOK

(* There is a piece at the cursor as long as it is not behind the end. *)
LEMMA PieceAtCursor ==
  ASSUME TypeOK, first < Len(pushed)
  PROVE  pushed[first + 1] \in Pieces
BY DEF TypeOK

(* What a worker counts stays a number. *)
LEMMA CountIsInt ==
  ASSUME breakcond \in [Workers -> Int], NEW w \in Workers,
         CountDown(w) \/ UNCHANGED breakcond \/ ReadBreakcond(w)
  PROVE  breakcond' \in [Workers -> Int]
<1>1. Cardinality(Pieces) \in Int
  BY DownloadAssumption, FS_CardinalityType
<1>2. CASE CountDown(w)
  BY <1>2 DEF CountDown
<1>3. CASE ReadBreakcond(w)
  BY <1>1, <1>3 DEF ReadBreakcond
<1> QED BY <1>2, <1>3

(* Each step of a worker keeps the types and the stages. *)
LEMMA WorkerStep ==
  ASSUME TypeOK, Stages, NEW w \in Workers, start_down_thread(w) \/ SpuriousWakeup(w)
  PROVE  TypeOK' /\ Stages'
<1> USE DEF TypeOK, Stages, Place, starterVars, queueVars
<1>1. CASE Enter(w)
  <2>2. breakcond' \in [Workers -> Int]
    BY <1>1, CountIsInt DEF Enter
  <2>3. strayed' \in SUBSET Workers
    BY <1>1 DEF Enter, ReadBreakcond
  <2>4. TypeOK'
    BY <1>1, <2>2, <2>3 DEF Enter
  <2>5. Stages'
    BY <1>1 DEF Enter
  <2> QED BY <2>4, <2>5
<1>2. CASE Take(w)
  <2>1. pushed[first + 1] \in Pieces /\ first' = first + 1 /\ first' <= Len(pushed)
    BY <1>2, PieceAtCursor DEF Take, Pop, Filled
  <2>2. breakcond' \in [Workers -> Int]
    BY <1>2, CountIsInt DEF Take
  <2>3. "none" \notin Pieces
    BY DownloadAssumption
  <2>4. first' \in 0..(Len(pushed) + 1) /\ UNCHANGED <<pushed, loaded, strayed>>
    BY <1>2, <2>1, CursorIsNat DEF Take
  <2>6. hand' = [hand EXCEPT ![w] = pushed[first + 1]] /\ pc' = [pc EXCEPT ![w] = "exec"]
    BY <1>2 DEF Take, Pop
  <2>7. \A v \in Workers : pc'[v] \in {"pop", "store", "exec"} <=> hand'[v] # "none"
    BY <2>1, <2>3, <2>6
  <2>8. TypeOK'
    BY <1>2, <2>1, <2>2, <2>4, <2>6, <2>7 DEF Take, Pop
  <2>5. Stages'
    BY <1>2, <2>1 DEF Take, Pop
  <2> QED BY <2>5, <2>8
<1>3. CASE Look(w)
  <2>1. breakcond' \in [Workers -> Int]
    BY <1>3, CountIsInt DEF Look
  <2> QED BY <1>3, <2>1 DEF Look
<1>4. CASE Front(w)
  <2>1. PICK p \in IF first < Len(pushed) THEN {pushed[first + 1]} ELSE Nothing :
               /\ hand' = [hand EXCEPT ![w] = p]
               /\ taken' = taken \cup ({p} \cap Pieces)
    BY <1>4 DEF Front
  <2>2. p \in Pieces \cup Nothing /\ p # "none"
    BY <2>1, PieceAtCursor, DownloadAssumption DEF Nothing
  <2>3. pc' = [pc EXCEPT ![w] = "pop"] /\ mutex = "destroyed"
    BY <1>4 DEF Front
  <2>4. TypeOK'
    BY <1>4, <2>1, <2>2, <2>3 DEF Front
  <2>5. Stages'
    BY <1>4, <2>3 DEF Front
  <2> QED BY <2>4, <2>5
<1>5. CASE PopLoads(w)
  BY <1>5 DEF PopLoads
<1>11. CASE PopStores(w)
  <2>1. mutex = "destroyed" /\ UNCHANGED mutex
    BY <1>11 DEF PopStores
  <2>2. first' \in 0..(Len(pushed) + 1)
    <3>1. loaded[w] \in Int /\ 0 <= loaded[w] /\ loaded[w] <= Len(pushed) + 1
      BY CursorIsNat
    <3>2. first' = IF loaded[w] > Len(pushed) THEN loaded[w] ELSE loaded[w] + 1
      BY <1>11 DEF PopStores
    <3>3. Len(pushed) \in Nat
      BY CursorIsNat
    <3> HIDE DEF TypeOK, Stages
    <3> QED BY <3>1, <3>2, <3>3
  <2>3. CASE UNCHANGED hand /\ pc' = [pc EXCEPT ![w] = "exec"]
    BY <1>11, <2>1, <2>2, <2>3 DEF PopStores
  <2>4. CASE hand' = [hand EXCEPT ![w] = "none"] /\ pc' = [pc EXCEPT ![w] = "check"]
    BY <1>11, <2>1, <2>2, <2>4 DEF PopStores
  <2> QED BY <1>11, <2>3, <2>4 DEF PopStores
<1>6. CASE Wait(w)
  BY <1>6 DEF Wait
<1>7. CASE NothingThere(w)
  BY <1>7 DEF NothingThere
<1>8. CASE Fetch(w)
  BY <1>8 DEF Fetch
<1>9. CASE Check(w)
  BY <1>9 DEF Check
<1>10. CASE SpuriousWakeup(w)
  BY <1>10 DEF SpuriousWakeup
<1> QED BY <1>1, <1>2, <1>3, <1>4, <1>5, <1>6, <1>7, <1>8, <1>9, <1>10, <1>11
        DEF start_down_thread, Looping

(* So each step of the system does. *)
LEMMA TypeStep == TypeOK /\ Stages /\ [Next]_vars => TypeOK' /\ Stages'
<1> SUFFICES ASSUME TypeOK, Stages, [Next]_vars PROVE TypeOK' /\ Stages'
  OBVIOUS
<1>1. CASE FollowEntry
  BY <1>1 DEF FollowEntry, TypeOK, Stages, starterVars, queueVars, workerVars
<1>2. CASE UNCHANGED vars
  BY <1>2 DEF vars, TypeOK, Stages, starterVars, queueVars, workerVars
<1> QED BY <1>1, <1>2, StarterStep, WorkerStep DEF Next

(* The download's state stays well-typed (TypeOK): a worker has a pointer  *)
(* in hand exactly from reading it in the queue to the end of              *)
(* downloadexec, or of the pop if it is null.                              *)
THEOREM TypeCorrect == Spec => [](TypeOK /\ Stages)
<1>1. ASSUME Init PROVE TypeOK /\ Stages
  <2>1. pushed \in Seq(Pieces) /\ Len(pushed) = 0
    BY <1>1 DEF Init
  <2>2. /\ pc \in [Workers -> Place]
        /\ hand \in [Workers -> Pieces \cup Nothing \cup {"none"}]
        /\ breakcond \in [Workers -> Int]
    BY <1>1 DEF Init, Place
  <2>3. first \in 0..(Len(pushed) + 1) /\ loaded \in [Workers -> 0..(Len(pushed) + 1)]
    BY <1>1, <2>1 DEF Init
  <2>5. TypeOK
    BY <1>1, <2>1, <2>2, <2>3 DEF Init, TypeOK, Stage
  <2>4. Stages
    BY <1>1, <2>1 DEF Init, Stages
  <2> QED BY <2>4, <2>5
<1> QED BY <1>1, TypeStep, PTL DEF Spec

-----------------------------------------------------------------------------
(* What is left is a number, and 0 once the queue and topush are empty. *)
LEMMA LeftIsNat ==
  ASSUME TypeOK, Stages, mutex # "destroyed"
  PROVE  /\ Cardinality(Pieces) \in Nat
         /\ Cardinality(topush) \in Nat
         /\ Left \in Nat
         /\ Left = 0 <=> topush = {} /\ first = Len(pushed)
<1>1. IsFiniteSet(topush) /\ Cardinality(Pieces) \in Nat
  BY DownloadAssumption, FS_Subset, FS_CardinalityType DEF TypeOK
<1>2. Cardinality(topush) \in Nat /\ (Cardinality(topush) = 0 <=> topush = {})
  BY <1>1, FS_EmptySet, FS_CardinalityType
<1>3. Len(pushed) \in Nat /\ first \in Nat /\ first <= Len(pushed)
  BY CursorIsNat DEF Stages
<1> QED BY <1>1, <1>2, <1>3 DEF Left

(* A step that leaves the pieces and the counts alone, and starts and ends *)
(* no worker that has still to count.                                      *)
LEMMA QuietStep ==
  ASSUME TypeOK, WorkCounted, mutex # "destroyed",
         UNCHANGED <<pushed, first, topush, breakcond, strayed>>,
         \A w \in Workers :
           /\ pc'[w] = "exited" => breakcond[w] <= 0
           /\ pc[w] \in {"unborn", "born"} => pc'[w] \in {"unborn", "born"}
  PROVE  WorkCounted'
<1>1. UNCHANGED Left
  BY DEF Left
<1> QED BY <1>1 DEF WorkCounted

(* Each step keeps the work counted. *)
LEMMA WorkStep ==
  TypeOK /\ Stages /\ WorkCounted /\ [Next]_vars => WorkCounted'
<1> SUFFICES ASSUME TypeOK, Stages, WorkCounted, [Next]_vars, mutex' # "destroyed"
             PROVE  WorkCounted'
  BY DEF WorkCounted
<1>0. /\ breakcond \in [Workers -> Int] /\ pc \in [Workers -> Place]
      /\ pushed \in Seq(Pieces) /\ first \in Nat /\ Len(pushed) \in Nat
  BY DEF TypeOK
<1>1. CASE UNCHANGED vars \/ FetchSeed \/ Offer \/ DestroyMutex \/ DestroyCond \/ Finish
           \/ FollowEntry
  <2>1. UNCHANGED <<pushed, first, topush, breakcond, strayed, pc>> /\ mutex # "destroyed"
    BY <1>1 DEF vars, FetchSeed, Offer, DestroyMutex, DestroyCond, Finish, FollowEntry,
                starterVars, queueVars, workerVars, Stages
  <2> QED BY <2>1, QuietStep DEF WorkCounted
<1>2. CASE SetUp
  <2>1. \A w \in Workers : pc[w] = "unborn" /\ pc'[w] = "born"
    BY <1>2 DEF SetUp, Stages
  <2>2. UNCHANGED <<pushed, first, topush, breakcond, strayed>> /\ mutex # "destroyed"
    BY <1>2 DEF SetUp, queueVars, Stages
  <2> QED BY <2>1, <2>2, QuietStep
<1>3. ASSUME NEW p \in Pieces, Push(p) PROVE WorkCounted'
  <2>1. \A w \in Workers : pc'[w] = pc[w] \/ (pc[w] = "waiting" /\ pc'[w] = "woken")
    BY <1>0, <1>3 DEF Push, Signal, Waiting
  <2>2. Len(pushed') = Len(pushed) + 1
    BY <1>3 DEF Push, TypeOK
  <2>3. Cardinality(topush') = Cardinality(topush) - 1 /\ Cardinality(topush) \in Nat
    <3>1. IsFiniteSet(topush)
      BY DownloadAssumption, FS_Subset DEF TypeOK
    <3> QED BY <1>3, <3>1, FS_RemoveElement, FS_CardinalityType DEF Push
  <2>4. UNCHANGED <<breakcond, strayed, first, mutex>>
    BY <1>3 DEF Push
  <2>5. Left' = Left
    BY <1>0, <2>2, <2>3, <2>4 DEF Left
  <2> QED BY <2>1, <2>4, <2>5 DEF WorkCounted
<1>4. ASSUME NEW w \in Workers, start_down_thread(w) \/ SpuriousWakeup(w)
      PROVE  WorkCounted'
  <2>1. mutex # "destroyed" /\ pc[w] \notin {"front", "pop", "store"}
    BY <1>4 DEF start_down_thread, Looping, SpuriousWakeup, Enter, Take, Look, Front, PopLoads,
                PopStores, Wait, NothingThere, Fetch, Check, Stages
  <2>2. Left \in Nat /\ Cardinality(Pieces) \in Nat
    BY <2>1, LeftIsNat
  <2>3. CASE Enter(w)
    <3>1. UNCHANGED Left
      BY <2>3 DEF Enter, starterVars, queueVars, Left
    <3>2. pc[w] = "born" /\ pc' = [pc EXCEPT ![w] = "top"] /\ ReadBreakcond(w)
      BY <2>3 DEF Enter
    <3>3. ASSUME NEW v \in Workers, v # w
          PROVE  pc'[v] = pc[v] /\ breakcond'[v] = breakcond[v]
                 /\ (v \notin strayed' => v \notin strayed)
      BY <1>0, <3>2, <3>3 DEF ReadBreakcond
    <3>4. w \notin strayed' => breakcond'[w] = Cardinality(Pieces)
      BY <1>0, <3>2 DEF ReadBreakcond
    <3>5. pc'[w] = "top"
      BY <1>0, <3>2
    <3> QED BY <2>1, <3>1, <3>3, <3>4, <3>5 DEF WorkCounted
  <2>4. CASE Take(w)
    <3>1. first' = first + 1 /\ UNCHANGED <<pushed, topush>>
      BY <2>4 DEF Take, Pop, starterVars
    <3>2. Left' = Left - 1
      <4>1. Cardinality(topush) \in Nat
        BY <2>1, LeftIsNat
      <4> QED BY <1>0, <3>1, <4>1 DEF Left
    <3>3. UNCHANGED strayed /\ pc' = [pc EXCEPT ![w] = "exec"] /\ pc[w] \in {"top", "woken"}
      BY <2>4 DEF Take, Pop
    <3>4. breakcond' = [breakcond EXCEPT ![w] = @ - 1] \/ breakcond' = breakcond
      BY <2>4 DEF Take, CountDown
    <3>5. ASSUME NEW v \in Workers, v # w
          PROVE  pc'[v] = pc[v] /\ breakcond'[v] = breakcond[v] /\ breakcond[v] \in Int
      BY <1>0, <3>3, <3>4, <3>5
    <3>6. /\ breakcond[w] \in Int /\ pc'[w] = "exec"
          /\ breakcond'[w] = breakcond[w] - 1 \/ breakcond'[w] = breakcond[w]
      BY <1>0, <3>3, <3>4
    <3>7. Left # 0
      BY <2>1, <2>4, LeftIsNat DEF Take, Filled
    <3> QED BY <2>1, <2>2, <3>2, <3>3, <3>5, <3>6, <3>7 DEF WorkCounted
  <2>5. CASE Wait(w) \/ SpuriousWakeup(w) \/ NothingThere(w) \/ Fetch(w)
    <3>1. UNCHANGED <<pushed, first, topush, breakcond, strayed>>
      BY <2>5 DEF Wait, SpuriousWakeup, NothingThere, Fetch, starterVars, queueVars
    <3>2. \E l \in {"waiting", "woken", "check"} : pc' = [pc EXCEPT ![w] = l]
      BY <2>5 DEF Wait, SpuriousWakeup, NothingThere, Fetch
    <3>3. pc[w] \in {"top", "waiting", "woken", "exec"}
      BY <2>5 DEF Wait, SpuriousWakeup, NothingThere, Fetch
    <3>4. ASSUME NEW v \in Workers
          PROVE  \/ pc'[v] = pc[v]
                 \/ /\ pc[v] \in {"top", "waiting", "woken", "exec"}
                    /\ pc'[v] \in {"waiting", "woken", "check"}
      BY <1>0, <3>2, <3>3
    <3> QED BY <2>1, <3>1, <3>4, QuietStep DEF WorkCounted
  <2>6. CASE Check(w)
    <3>1. UNCHANGED <<pushed, first, topush, breakcond, strayed>>
      BY <2>6 DEF Check, starterVars, queueVars
    <3>2. ASSUME NEW v \in Workers
          PROVE  \/ pc'[v] = pc[v]
                 \/ pc[v] = "check" /\ pc'[v] = "top"
                 \/ pc[v] = "check" /\ pc'[v] = "exited" /\ breakcond[v] <= 0
      BY <1>0, <2>6 DEF Check
    <3> QED BY <2>1, <3>1, <3>2, QuietStep DEF WorkCounted
  <2>7. ~Look(w) /\ ~Front(w) /\ ~PopLoads(w) /\ ~PopStores(w)
    BY <2>1 DEF Look, Front, PopLoads, PopStores
  <2> QED BY <1>4, <2>3, <2>4, <2>5, <2>6, <2>7 DEF start_down_thread, Looping
<1> QED BY <1>1, <1>2, <1>3, <1>4 DEF Next, downloadstart, Queueing

(* As long as the mutex is there, no worker that read breakcond in time    *)
(* leaves while a piece is queued or still to be queued                    *)
(* (NobodyLeavesWork), for any workers and pieces.                         *)
THEOREM NoWorkLeft == Spec => []NobodyLeavesWork
<1>1. Init => WorkCounted
  <2> SUFFICES ASSUME Init PROVE WorkCounted
    OBVIOUS
  <2>1. Cardinality(Pieces) \in Nat
    BY DownloadAssumption, FS_CardinalityType
  <2>2. Left = Cardinality(Pieces)
    BY <2>1 DEF Init, Left
  <2> QED BY <2>1, <2>2 DEF Init, WorkCounted
<1>2. TypeOK /\ Stages /\ WorkCounted => NobodyLeavesWork
  <2> SUFFICES ASSUME TypeOK, Stages, WorkCounted, mutex # "destroyed",
                      NEW w \in Workers, pc[w] = "exited", w \notin strayed
               PROVE  topush = {} /\ queue = <<>>
    BY DEF NobodyLeavesWork
  <2>1. breakcond[w] <= 0 /\ breakcond[w] \in Int
    BY DEF WorkCounted, TypeOK
  <2>2. Left = 0 \/ Left <= breakcond[w]
    BY DEF WorkCounted
  <2>3. topush = {} /\ first = Len(pushed)
    BY <2>1, <2>2, LeftIsNat
  <2>4. queue = <<>>
    BY <2>3 DEF queue, TypeOK
  <2> QED BY <2>3, <2>4
<1> QED BY <1>1, <1>2, WorkStep, TypeCorrect, PTL DEF Spec

-----------------------------------------------------------------------------
(* PiecesInOnePlace without cardinalities, and with the pieces in hand     *)
(* among those taken.                                                      *)
OnePlace ==
  mutex # "destroyed" =>
    /\ \A i, j \in (first + 1)..Len(pushed) : pushed[i] = pushed[j] => i = j
    /\ topush \cap Queued = {} /\ topush \cap taken = {} /\ Queued \cap taken = {}
    /\ topush \cup Queued \cup taken = Pieces
    /\ \A w \in Workers : hand[w] # "none" => hand[w] \in taken
    /\ \A v, w \in Workers : hand[v] = hand[w] /\ hand[v] # "none" => v = w

(* A queue without repetition is as long as its set of pieces is large.    *)
LEMMA QueueLength ==
  ASSUME TypeOK, first <= Len(pushed),
         \A i, j \in (first + 1)..Len(pushed) : pushed[i] = pushed[j] => i = j
  PROVE  Len(queue) = Cardinality(Queued)
<1>1. /\ pushed \in Seq(Pieces) /\ Len(pushed) \in Nat /\ first \in Nat
  BY DEF TypeOK
<1>2. /\ Len(queue) = Len(pushed) - first /\ Len(queue) \in Nat
      /\ queue = [i \in 1..Len(queue) |-> pushed[first + i]]
  BY <1>1 DEF queue
<1>3. ASSUME NEW i \in 1..Len(queue)
      PROVE  queue[i] = pushed[first + i] /\ queue[i] \in Queued
  <2>1. first + i \in (first + 1)..Len(pushed)
    BY <1>1, <1>2
  <2> QED BY <1>2, <2>1 DEF Queued
<1>4. queue \in [1..Len(queue) -> Queued]
  BY <1>2, <1>3
<1>5. \A i, j \in 1..Len(queue) : queue[i] = queue[j] => i = j
  BY <1>1, <1>2, <1>3
<1>6. ASSUME NEW p \in Queued PROVE \E i \in 1..Len(queue) : queue[i] = p
  <2>1. PICK k \in (first + 1)..Len(pushed) : pushed[k] = p
    BY DEF Queued
  <2>2. k - first \in 1..Len(queue) /\ first + (k - first) = k
    BY <1>1, <1>2
  <2> QED BY <1>3, <2>1, <2>2
<1>7. ExistsBijection(1..Len(queue), Queued)
  BY <1>4, <1>5, <1>6 DEF ExistsBijection, Bijection, Injection, Surjection, IsInjective
<1> QED BY <1>2, <1>7, FS_CountingElements

(* A step that moves no piece. *)
LEMMA NoPieceMoves ==
  ASSUME OnePlace, mutex # "destroyed",
         UNCHANGED <<topush, pushed, first, taken, hand>>
  PROVE  OnePlace'
BY DEF OnePlace, Queued

(* Each step keeps each piece in one place. *)
LEMMA PlaceStep == TypeOK /\ Stages /\ OnePlace /\ [Next]_vars => OnePlace'
<1> SUFFICES ASSUME TypeOK, Stages, OnePlace, [Next]_vars, mutex' # "destroyed"
             PROVE  OnePlace'
  BY DEF OnePlace
<1>0. /\ pushed \in Seq(Pieces) /\ Len(pushed) \in Nat /\ first \in Nat
      /\ hand \in [Workers -> Pieces \cup Nothing \cup {"none"}] /\ "none" \notin Pieces
  BY DownloadAssumption DEF TypeOK
<1>1. CASE UNCHANGED vars \/ FetchSeed \/ Offer \/ DestroyMutex \/ DestroyCond \/ Finish
           \/ FollowEntry
  <2>1. UNCHANGED <<topush, pushed, first, taken, hand>> /\ mutex # "destroyed"
    BY <1>1 DEF vars, FetchSeed, Offer, DestroyMutex, DestroyCond, Finish, FollowEntry,
                starterVars, queueVars, workerVars, Stages
  <2> QED BY <2>1, NoPieceMoves
<1>2. CASE SetUp
  <2>1. mutex # "destroyed" /\ UNCHANGED <<topush, pushed, first, taken, hand>>
    BY <1>2 DEF SetUp, Stages, queueVars
  <2> QED BY <2>1, NoPieceMoves
<1>3. ASSUME NEW p \in Pieces, Push(p) PROVE OnePlace'
  <2>1. /\ p \in topush /\ topush' = topush \ {p} /\ pushed' = Append(pushed, p)
        /\ UNCHANGED <<first, taken, hand, mutex>>
    BY <1>3 DEF Push
  <2>2. /\ Len(pushed') = Len(pushed) + 1
        /\ pushed'[Len(pushed) + 1] = p
        /\ \A i \in 1..Len(pushed) : pushed'[i] = pushed[i]
    BY <1>0, <2>1, AppendProperties
  <2>6. first <= Len(pushed)
    BY <2>1 DEF Stages
  <2>3. Queued' = Queued \cup {p}
    BY <1>0, <2>1, <2>2, <2>6 DEF Queued
  <2>4. p \notin Queued
    BY <2>1 DEF OnePlace
  <2>5. ASSUME NEW i \in (first + 1)..Len(pushed'), NEW j \in (first + 1)..Len(pushed'),
               pushed'[i] = pushed'[j]
        PROVE  i = j
    <3>1. \A k \in (first + 1)..Len(pushed) : pushed'[k] # p
      BY <1>0, <2>2, <2>4 DEF Queued
    <3>2. CASE i \in (first + 1)..Len(pushed) /\ j \in (first + 1)..Len(pushed)
      BY <1>0, <2>1, <2>2, <2>5, <3>2 DEF OnePlace
    <3>3. CASE i = Len(pushed) + 1 \/ j = Len(pushed) + 1
      BY <1>0, <2>2, <2>5, <3>1, <3>3
    <3>4. \A k \in (first + 1)..Len(pushed') : k \in (first + 1)..Len(pushed) \/ k = Len(pushed) + 1
      BY <1>0, <2>1, <2>2
    <3> QED BY <2>5, <3>2, <3>3, <3>4
  <2>7. /\ topush' \cap Queued' = {} /\ topush' \cap taken' = {} /\ Queued' \cap taken' = {}
        /\ topush' \cup Queued' \cup taken' = Pieces
    BY <2>1, <2>3 DEF OnePlace
  <2> QED BY <2>1, <2>5, <2>7 DEF OnePlace
<1>4. ASSUME NEW w \in Workers, start_down_thread(w) \/ SpuriousWakeup(w)
      PROVE  OnePlace'
  <2>1. mutex # "destroyed" /\ pc[w] \notin {"front", "pop", "store"}
    BY <1>4 DEF start_down_thread, Looping, SpuriousWakeup, Enter, Take, Look, Front, PopLoads,
                PopStores, Wait, NothingThere, Fetch, Check, Stages
  <2>2. CASE Take(w)
    <3> DEFINE p == pushed[first + 1]
    <3>1. /\ first' = first + 1 /\ taken' = taken \cup {p}
          /\ hand' = [hand EXCEPT ![w] = p] /\ UNCHANGED <<topush, pushed, mutex>>
      BY <2>2 DEF Take, Pop, starterVars
    <3>2. first < Len(pushed)
      BY <1>0, <2>1, <2>2 DEF Take, Filled, Stages
    <3>3. p \in Queued /\ p \in Pieces
      BY <1>0, <3>2 DEF Queued
    <3>4. Queued' = Queued \ {p}
      <4>1. \A i \in (first + 1)..Len(pushed) : pushed[i] = p <=> i = first + 1
        BY <1>0, <2>1, <3>2 DEF OnePlace
      <4>2. \A i \in Int : i \in (first + 1)..Len(pushed) <=>
                           i = first + 1 \/ i \in (first + 2)..Len(pushed)
        BY <1>0, <3>2
      <4>3. Queued' = {pushed[i] : i \in (first + 2)..Len(pushed)}
        <5>1. Queued' = {pushed[i] : i \in (first' + 1)..Len(pushed)}
          BY <3>1 DEF Queued
        <5>2. first' + 1 = first + 2
          BY <1>0, <3>1
        <5> QED BY <5>1, <5>2
      <4>4. \A i \in (first + 1)..Len(pushed) : i \in (first + 2)..Len(pushed) <=> pushed[i] # p
        BY <1>0, <4>1, <4>2
      <4>5. \A i \in (first + 2)..Len(pushed) : i \in (first + 1)..Len(pushed)
        BY <1>0
      <4> QED BY <4>3, <4>4, <4>5 DEF Queued
    <3> HIDE DEF p
    <3>5. p \notin taken
      BY <2>1, <3>3 DEF OnePlace
    <3>6. \A v \in Workers : hand'[v] = IF v = w THEN p ELSE hand[v]
      BY <1>0, <3>1
    <3>7. /\ \A v \in Workers : hand'[v] # "none" => hand'[v] \in taken'
          /\ \A u, v \in Workers : hand'[u] = hand'[v] /\ hand'[u] # "none" => u = v
      BY <2>1, <3>1, <3>5, <3>6 DEF OnePlace
    <3>8. /\ topush' \cap Queued' = {} /\ topush' \cap taken' = {} /\ Queued' \cap taken' = {}
          /\ topush' \cup Queued' \cup taken' = Pieces
      BY <2>1, <3>1, <3>3, <3>4 DEF OnePlace
    <3>9. \A i, j \in (first' + 1)..Len(pushed') : pushed'[i] = pushed'[j] => i = j
      BY <1>0, <2>1, <3>1 DEF OnePlace
    <3> QED BY <3>7, <3>8, <3>9 DEF OnePlace
  <2>3. CASE Fetch(w)
    <3>1. hand' = [hand EXCEPT ![w] = "none"] /\ UNCHANGED <<topush, pushed, first, taken>>
      BY <2>3 DEF Fetch, starterVars, queueVars
    <3>2. \A v \in Workers : hand'[v] = IF v = w THEN "none" ELSE hand[v]
      BY <1>0, <3>1
    <3> QED BY <2>1, <3>1, <3>2 DEF OnePlace, Queued
  <2>4. CASE Enter(w) \/ Wait(w) \/ NothingThere(w) \/ Check(w) \/ SpuriousWakeup(w)
    <3>1. UNCHANGED <<topush, pushed, first, taken, hand>>
      BY <2>4 DEF Enter, Wait, NothingThere, Check, SpuriousWakeup, starterVars, queueVars
    <3> QED BY <2>1, <3>1, NoPieceMoves
  <2>5. ~Look(w) /\ ~Front(w) /\ ~PopLoads(w) /\ ~PopStores(w)
    BY <2>1 DEF Look, Front, PopLoads, PopStores
  <2> QED BY <1>4, <2>2, <2>3, <2>4, <2>5 DEF start_down_thread, Looping
<1> QED BY <1>1, <1>2, <1>3, <1>4 DEF Next, downloadstart, Queueing

(* Until the mutex is destroyed each piece is still to be queued, in the   *)
(* queue once, or taken by one worker (PiecesInOnePlace), for any workers  *)
(* and pieces.                                                             *)
THEOREM EachPieceOnce == Spec => []PiecesInOnePlace
<1>1. Init => OnePlace
  BY DownloadAssumption DEF Init, OnePlace, Queued
<1>2. TypeOK /\ Stages /\ OnePlace => PiecesInOnePlace
  BY QueueLength DEF Stages, OnePlace, PiecesInOnePlace
<1> QED BY <1>1, <1>2, PlaceStep, TypeCorrect, PTL DEF Spec
=============================================================================
