--------------------------- MODULE WorkerPoolProofs ---------------------------
(* Proofs about module WorkerPool, for any finite pool and any connections. *)
EXTENDS WorkerPool, FiniteSetTheorems, TLAPS

-----------------------------------------------------------------------------
(* Each step keeps the pool's variables well-typed. *)
LEMMA TypeStep == TypeOK /\ [Next]_vars => TypeOK'
<1> SUFFICES ASSUME TypeOK, [Next]_vars PROVE TypeOK'
  OBVIOUS
<1> USE PoolAssumption DEF TypeOK, Socket
<1>1. ASSUME NEW c \in Conns, Connect(c) PROVE TypeOK'
  BY <1>1 DEF Connect
<1>2. ASSUME NEW c \in Conns, Quit(c) PROVE TypeOK'
  BY <1>2 DEF Quit
<1>3. ASSUME NEW c \in Conns, Accept(c) PROVE TypeOK'
  BY <1>3 DEF Accept
<1>4. CASE AcceptFails
  BY <1>4 DEF AcceptFails
<1>5. CASE Push
  <2>1. pc' \in [Workers -> {"top", "waiting", "woken", "serving"}]
    BY <1>5 DEF Push, Signal, Waiting
  <2>2. thread_queue' \in Seq(Socket)
    BY <1>5 DEF Push
  <2>3. ASSUME NEW w \in Workers PROVE pc'[w] = "serving" <=> pc[w] = "serving"
    BY <1>5 DEF Push, Signal, Waiting
  <2> QED BY <1>5, <2>1, <2>2, <2>3 DEF Push
<1>6. ASSUME NEW w \in Workers, thread_queue # <<>>, Pop(w),
             UNCHANGED <<backlog, closed, accepted, hand, done, alive>>
      PROVE  TypeOK'
  <2>1. Head(thread_queue) \in Socket /\ Tail(thread_queue) \in Seq(Socket)
    BY <1>6
  <2> QED BY <1>6, <2>1 DEF Pop
<1>7. ASSUME NEW w \in Workers, Worker(w) \/ SpuriousWakeup(w) PROVE TypeOK'
  <2>1. CASE Take(w)
    BY <2>1, <1>6 DEF Take
  <2>2. CASE Wait(w)
    BY <2>2 DEF Wait
  <2>3. CASE Resume(w)
    BY <2>3, <1>6 DEF Resume
  <2>4. CASE Serve(w)
    BY <2>4 DEF Serve, ReadReturns, Return
  <2>5. CASE ServeBad(w)
    BY <2>5 DEF ServeBad, Return
  <2>6. CASE SpuriousWakeup(w)
    BY <2>6 DEF SpuriousWakeup
  <2> QED BY <1>7, <2>1, <2>2, <2>3, <2>4, <2>5, <2>6 DEF Worker
<1>8. CASE UNCHANGED vars
  BY <1>8 DEF vars
<1> QED BY <1>1, <1>2, <1>3, <1>4, <1>5, <1>7, <1>8 DEF Next, Acceptor

(* The pool's variables stay well-typed (TypeOK). *)
THEOREM TypeCorrect == Spec => []TypeOK
<1>1. Init => TypeOK
  BY PoolAssumption DEF Init, TypeOK, Socket
<1> QED BY <1>1, TypeStep, PTL DEF Spec

-----------------------------------------------------------------------------
(* A worker that wakes up or starts over adds one to the awake. *)
LEMMA OneMoreAwake ==
  ASSUME TypeOK, NEW w \in Workers, w \notin Awake, Awake' = Awake \cup {w}
  PROVE  /\ Cardinality(Awake) \in Nat
         /\ Cardinality(Awake') = Cardinality(Awake) + 1
<1>1. IsFiniteSet(Awake)
  BY PoolAssumption, FS_Subset DEF Awake
<1> QED BY <1>1, FS_AddElement, FS_CardinalityType

(* A worker that takes a connection is one awake less. *)
LEMMA OneLessAwake ==
  ASSUME TypeOK, NEW w \in Workers, w \in Awake, Awake' = Awake \ {w}
  PROVE  /\ Cardinality(Awake) \in Nat
         /\ Cardinality(Awake') = Cardinality(Awake) - 1
<1>1. IsFiniteSet(Awake)
  BY PoolAssumption, FS_Subset DEF Awake
<1> QED BY <1>1, FS_RemoveElement, FS_CardinalityType

(* Each step keeps the queue covered by awake workers. *)
LEMMA WakeupStep == TypeOK /\ WakeupsCoverQueue /\ [Next]_vars => WakeupsCoverQueue'
<1> SUFFICES ASSUME TypeOK, WakeupsCoverQueue, [Next]_vars PROVE WakeupsCoverQueue'
  OBVIOUS
<1>0. Len(thread_queue) \in Nat /\ Cardinality(Awake) \in Nat
  BY PoolAssumption, FS_Subset, FS_CardinalityType DEF TypeOK, Awake
<1>1. CASE UNCHANGED <<pc, thread_queue>>
  BY <1>1 DEF WakeupsCoverQueue, Waiting, Awake
<1>2. CASE Push
  <2>1. Len(thread_queue') = Len(thread_queue) + 1
    BY <1>2, PoolAssumption DEF Push, TypeOK, Socket
  <2>2. CASE Waiting = {}
    BY <1>2, <2>2 DEF Push, Signal, WakeupsCoverQueue, Waiting
  <2>3. ASSUME NEW v \in Waiting, pc' = [pc EXCEPT ![v] = "woken"]
        PROVE  WakeupsCoverQueue'
    <3>1. v \in Workers /\ v \notin Awake /\ Awake' = Awake \cup {v}
      BY <2>3 DEF Waiting, Awake, TypeOK
    <3>2. Cardinality(Awake') = Cardinality(Awake) + 1
      BY <3>1, OneMoreAwake
    <3>3. Len(thread_queue) <= Cardinality(Awake)
      BY <2>3 DEF WakeupsCoverQueue
    <3> QED BY <1>0, <2>1, <3>2, <3>3 DEF WakeupsCoverQueue
  <2> QED BY <1>2, <2>2, <2>3 DEF Push, Signal
<1>3. ASSUME NEW w \in Workers, w \in Awake, thread_queue # <<>>, Pop(w)
      PROVE  WakeupsCoverQueue'
  <2>1. Len(thread_queue') = Len(thread_queue) - 1
    BY <1>3 DEF Pop, TypeOK
  <2>2. Awake' = Awake \ {w} /\ Waiting' = Waiting
    BY <1>3 DEF Pop, Awake, Waiting, TypeOK
  <2>3. Cardinality(Awake') = Cardinality(Awake) - 1
    BY <1>3, <2>2, OneLessAwake
  <2> QED BY <1>0, <2>1, <2>2, <2>3 DEF WakeupsCoverQueue
<1>4. ASSUME NEW w \in Workers, Wait(w) PROVE WakeupsCoverQueue'
  <2>1. Len(thread_queue') = 0
    BY <1>4 DEF Wait
  <2>2. Cardinality(Awake') \in Nat
    <3>1. Awake' \subseteq Workers
      BY DEF Awake
    <3> QED BY <3>1, PoolAssumption, FS_Subset, FS_CardinalityType
  <2> QED BY <2>1, <2>2 DEF WakeupsCoverQueue
<1>5. ASSUME NEW w \in Workers, w \notin Awake, pc'[w] \in {"top", "woken"},
             pc' = [pc EXCEPT ![w] = pc'[w]], UNCHANGED thread_queue
      PROVE  WakeupsCoverQueue'
  <2>1. Awake' = Awake \cup {w} /\ Waiting' \subseteq Waiting
    BY <1>5 DEF Awake, Waiting, TypeOK
  <2>2. Cardinality(Awake') = Cardinality(Awake) + 1
    BY <1>5, <2>1, OneMoreAwake
  <2> QED BY <1>0, <1>5, <2>1, <2>2 DEF WakeupsCoverQueue
<1>6. ASSUME NEW w \in Workers, Worker(w) \/ SpuriousWakeup(w) PROVE WakeupsCoverQueue'
  <2>1. CASE Take(w)
    BY <2>1, <1>3 DEF Take, Awake
  <2>2. CASE Wait(w)
    BY <2>2, <1>4
  <2>3. CASE Resume(w)
    <3>1. CASE thread_queue # <<>>
      BY <2>3, <3>1, <1>3 DEF Resume, Awake
    <3>2. CASE thread_queue = <<>>
      <4>1. Awake' = Awake /\ Waiting' = Waiting /\ UNCHANGED thread_queue
        BY <2>3, <3>2 DEF Resume, Awake, Waiting, TypeOK
      <4> QED BY <4>1 DEF WakeupsCoverQueue
    <3> QED BY <3>1, <3>2
  <2>4. CASE Serve(w)
    BY <2>4, <1>5 DEF Serve, ReadReturns, Return, Awake, TypeOK
  <2>5. CASE ServeBad(w)
    BY <2>5, <1>5, <1>1 DEF ServeBad, Return, Awake, TypeOK
  <2>6. CASE SpuriousWakeup(w)
    BY <2>6, <1>5 DEF SpuriousWakeup, Awake, TypeOK
  <2> QED BY <1>6, <2>1, <2>2, <2>3, <2>4, <2>5, <2>6 DEF Worker
<1> QED BY <1>1, <1>2, <1>6
           DEF Next, Acceptor, Connect, Quit, Accept, AcceptFails, vars

(* No wakeup is lost, whatever the number of workers: while one waits,     *)
(* every queued connection has an awake worker on its way to it.           *)
THEOREM NoLostWakeup == Spec => []WakeupsCoverQueue
<1>1. Init => WakeupsCoverQueue
  BY DEF Init, WakeupsCoverQueue, Waiting
<1> QED BY <1>1, WakeupStep, TypeCorrect, PTL DEF Spec

-----------------------------------------------------------------------------
(* The places of a connection, one kind at a time: it has one if it was    *)
(* accepted, and no two.                                                   *)
InHand(c) == hand = c
Queued(c, i) == i \in 1..Len(thread_queue) /\ thread_queue[i] = c
WithWorker(c, w) == w \in Workers /\ pclient[w] = c

SomePlace(c) == \/ InHand(c) \/ c \in done
                \/ \E i \in 1..Len(thread_queue) : Queued(c, i)
                \/ \E w \in Workers : WithWorker(c, w)

OnePlace(c) ==
  /\ c \in accepted <=> SomePlace(c)
  /\ InHand(c) => /\ c \notin done
                  /\ \A i \in 1..Len(thread_queue) : ~Queued(c, i)
                  /\ \A w \in Workers : ~WithWorker(c, w)
  /\ \A i \in 1..Len(thread_queue) : Queued(c, i) =>
       /\ c \notin done
       /\ \A j \in 1..Len(thread_queue) : Queued(c, j) => i = j
       /\ \A w \in Workers : ~WithWorker(c, w)
  /\ \A w \in Workers : WithWorker(c, w) =>
       /\ c \notin done
       /\ \A v \in Workers : WithWorker(c, v) => v = w

Exclusive == \A c \in Conns : OnePlace(c)

LEMMA PlacesFacts ==
  ASSUME TypeOK, NEW c \in Conns
  PROVE  Places(c) = {x \in {<<"hand", hand>>} : InHand(c)}
                     \cup {<<"queue", i>> : i \in {j \in 1..Len(thread_queue) : Queued(c, j)}}
                     \cup {<<"worker", w>> : w \in {v \in Workers : WithWorker(c, v)}}
                     \cup {<<"done", c>> : x \in {y \in done : y = c}}
<1>1. DOMAIN thread_queue = 1..Len(thread_queue)
  BY DEF TypeOK
<1> QED BY <1>1 DEF Places, InHand, Queued, WithWorker

LEMMA ExclusiveMeans == TypeOK /\ Exclusive => NothingLostOrServedTwice
<1> SUFFICES ASSUME TypeOK, Exclusive, NEW c \in Conns
             PROVE  IF c \in accepted THEN \E p \in Places(c) : Places(c) = {p} ELSE Places(c) = {}
  BY DEF NothingLostOrServedTwice
<1>1. OnePlace(c)
  BY DEF Exclusive
<1>2. CASE c \notin accepted
  BY <1>1, <1>2, PlacesFacts DEF OnePlace, SomePlace
<1>3. CASE InHand(c)
  <2>1. Places(c) = {<<"hand", hand>>}
    BY <1>1, <1>3, PlacesFacts DEF OnePlace
  <2> QED BY <1>1, <1>3, <2>1 DEF OnePlace, SomePlace
<1>4. ASSUME NEW i \in 1..Len(thread_queue), Queued(c, i) PROVE Places(c) = {<<"queue", i>>}
  BY <1>1, <1>4, PlacesFacts DEF OnePlace
<1>5. ASSUME NEW w \in Workers, WithWorker(c, w) PROVE Places(c) = {<<"worker", w>>}
  <2>1. {v \in Workers : WithWorker(c, v)} = {w}
    BY <1>1, <1>5 DEF OnePlace
  <2> QED BY <1>1, <1>5, <2>1, PlacesFacts DEF OnePlace
<1>6. CASE c \in done
  <2>1. {y \in done : y = c} = {c}
    BY <1>6
  <2>2. {<<"done", c>> : x \in {y \in done : y = c}} = {<<"done", c>>}
    BY <2>1
  <2>3. Places(c) = {<<"done", c>>}
    BY <1>1, <1>6, <2>2, PlacesFacts DEF OnePlace
  <2> QED BY <1>1, <1>6, <2>3 DEF OnePlace, SomePlace
<1>7. CASE c \in accepted
  <2>1. InHand(c) \/ c \in done \/ (\E i \in 1..Len(thread_queue) : Queued(c, i))
                  \/ \E w \in Workers : WithWorker(c, w)
    BY <1>1, <1>7 DEF OnePlace, SomePlace
  <2> QED BY <1>3, <1>4, <1>5, <1>6, <1>7, <2>1
<1> QED BY <1>2, <1>7

LEMMA ExclusiveStep == TypeOK /\ Exclusive /\ [Next]_vars => Exclusive'
<1> SUFFICES ASSUME TypeOK, Exclusive, [Next]_vars, NEW c \in Conns PROVE OnePlace(c)'
  BY DEF Exclusive
<1>0. /\ OnePlace(c) /\ thread_queue \in Seq(Socket) /\ pclient \in [Workers -> Socket \cup {"none"}]
      /\ "bad" # c /\ "none" # c /\ Len(thread_queue) \in Nat
      /\ accepted \subseteq Conns /\ hand \in Socket \cup {"none"}
  BY PoolAssumption DEF Exclusive, TypeOK
<1>1. CASE UNCHANGED <<accepted, hand, thread_queue, pclient, done>>
  BY <1>0, <1>1 DEF OnePlace, SomePlace, InHand, Queued, WithWorker
<1>2. ASSUME NEW d \in Conns, Accept(d) PROVE OnePlace(c)'
  <2>1. /\ accepted' = accepted \cup {d} /\ hand' = d /\ hand = "none" /\ d \notin accepted
        /\ UNCHANGED <<thread_queue, pclient, done>>
    BY <1>2 DEF Accept, TypeOK
  <2> QED BY <1>0, <2>1 DEF OnePlace, SomePlace, InHand, Queued, WithWorker
<1>3. CASE AcceptFails
  BY <1>0, <1>3 DEF AcceptFails, OnePlace, SomePlace, InHand, Queued, WithWorker
<1>4. CASE Push
  <2>1. /\ thread_queue' = Append(thread_queue, hand) /\ hand \in Socket /\ hand' = "none"
        /\ UNCHANGED <<accepted, pclient, done>>
    BY <1>0, <1>4 DEF Push
  <2>2. PICK n \in Nat : n = Len(thread_queue) /\ Len(thread_queue') = n + 1
    BY <1>0, <2>1
  <2>3. /\ \A i \in 1..n : Queued(c, i)' <=> Queued(c, i)
        /\ Queued(c, n + 1)' <=> InHand(c)
    BY <1>0, <2>1, <2>2 DEF Queued, InHand
  <2>4. ~InHand(c)' /\ \A w \in Workers : WithWorker(c, w)' <=> WithWorker(c, w)
    BY <1>0, <2>1 DEF InHand, WithWorker
  <2>5. \A i \in 1..Len(thread_queue') : i \in 1..n \/ i = n + 1
    BY <2>2
  <2>6. /\ n + 1 \in 1..Len(thread_queue')
        /\ \A i \in 1..n : i \in 1..Len(thread_queue') /\ i \in 1..Len(thread_queue) /\ i # n + 1
    BY <2>2
  <2>7. SomePlace(c)' <=> SomePlace(c)
    BY <2>1, <2>2, <2>3, <2>4, <2>5, <2>6 DEF SomePlace
  <2>8. \A i \in 1..Len(thread_queue') : Queued(c, i)' =>
           /\ c \notin done' /\ \A w \in Workers : ~WithWorker(c, w)'
           /\ \A j \in 1..Len(thread_queue') : Queued(c, j)' => i = j
    BY <1>0, <2>1, <2>2, <2>3, <2>4, <2>5, <2>6 DEF OnePlace
  <2>9. \A w \in Workers : WithWorker(c, w)' =>
           c \notin done' /\ \A v \in Workers : WithWorker(c, v)' => v = w
    BY <1>0, <2>1, <2>4 DEF OnePlace
  <2> QED BY <1>0, <2>1, <2>4, <2>7, <2>8, <2>9 DEF OnePlace
<1>5. ASSUME NEW w \in Workers, thread_queue # <<>>, pc[w] # "serving", Pop(w),
             UNCHANGED <<accepted, hand, done>>
      PROVE  OnePlace(c)'
  <2>1. /\ pclient' = [pclient EXCEPT ![w] = Head(thread_queue)]
        /\ thread_queue' = Tail(thread_queue) /\ pclient[w] = "none"
    BY <1>5 DEF Pop, TypeOK
  <2>2. Len(thread_queue') = Len(thread_queue) - 1 /\ Len(thread_queue) >= 1
    BY <1>0, <1>5, <2>1
  <2>3. \A i \in 1..Len(thread_queue') : thread_queue'[i] = thread_queue[i + 1]
    BY <1>0, <1>5, <2>1
  <2>4. Head(thread_queue) = thread_queue[1]
    BY <1>0, <1>5
  <2>5. /\ \A i \in 1..Len(thread_queue') : i + 1 \in 1..Len(thread_queue) /\ i + 1 # 1
        /\ \A i \in 1..Len(thread_queue) : i = 1 \/ (i - 1 \in 1..Len(thread_queue') /\ (i - 1) + 1 = i)
        /\ 1 \in 1..Len(thread_queue)
    BY <1>0, <2>2
  <2>6. \A i \in 1..Len(thread_queue') : Queued(c, i)' <=> Queued(c, i + 1)
    BY <2>3, <2>5 DEF Queued
  <2>7. /\ WithWorker(c, w)' <=> Queued(c, 1)
        /\ ~WithWorker(c, w)
        /\ \A v \in Workers : v # w => (WithWorker(c, v)' <=> WithWorker(c, v))
    BY <1>0, <2>1, <2>4, <2>5 DEF Queued, WithWorker
  <2>8. InHand(c)' <=> InHand(c)
    BY <1>5 DEF InHand
  <2>9. SomePlace(c)' <=> SomePlace(c)
    <3>1. ASSUME SomePlace(c)' PROVE SomePlace(c)
      BY <1>5, <2>5, <2>6, <2>7, <2>8, <3>1 DEF SomePlace
    <3>2. ASSUME NEW i \in 1..Len(thread_queue), Queued(c, i) PROVE SomePlace(c)'
      <4>1. CASE i = 1
        BY <2>7, <3>2, <4>1 DEF SomePlace
      <4>2. CASE i # 1
        <5>1. i - 1 \in 1..Len(thread_queue') /\ Queued(c, i - 1)'
          BY <2>5, <2>6, <3>2, <4>2
        <5> QED BY <5>1 DEF SomePlace
      <4> QED BY <4>1, <4>2
    <3>3. ASSUME NEW v \in Workers, WithWorker(c, v) PROVE SomePlace(c)'
      BY <2>7, <3>3 DEF SomePlace
    <3> QED BY <1>5, <2>8, <3>1, <3>2, <3>3 DEF SomePlace
  <2>10. \A i \in 1..Len(thread_queue'), j \in 1..Len(thread_queue') :
           Queued(c, i)' /\ Queued(c, j)' => i = j
    <3> SUFFICES ASSUME NEW i \in 1..Len(thread_queue'), NEW j \in 1..Len(thread_queue'),
                        Queued(c, i)', Queued(c, j)'
                 PROVE  i = j
      OBVIOUS
    <3>1. i + 1 = j + 1
      BY <1>0, <2>5, <2>6 DEF OnePlace
    <3> QED BY <3>1
  <2>11. \A i \in 1..Len(thread_queue') : Queued(c, i)' =>
           c \notin done' /\ \A v \in Workers : ~WithWorker(c, v)'
    BY <1>0, <1>5, <2>5, <2>6, <2>7 DEF OnePlace
  <2>12. \A v \in Workers : WithWorker(c, v)' =>
           c \notin done' /\ \A x \in Workers : WithWorker(c, x)' => x = v
    BY <1>0, <1>5, <2>5, <2>7 DEF OnePlace
  <2>13. InHand(c)' => /\ c \notin done'
                       /\ \A i \in 1..Len(thread_queue') : ~Queued(c, i)'
                       /\ \A v \in Workers : ~WithWorker(c, v)'
    BY <1>0, <1>5, <2>5, <2>6, <2>7, <2>8 DEF OnePlace
  <2>14. c \in accepted' <=> SomePlace(c)'
    BY <1>0, <1>5, <2>9 DEF OnePlace
  <2> QED BY <2>10, <2>11, <2>12, <2>13, <2>14 DEF OnePlace
<1>6. ASSUME NEW w \in Workers, Serve(w) PROVE OnePlace(c)'
  <2>1. /\ pclient' = [pclient EXCEPT ![w] = "none"] /\ done' = done \cup {pclient[w]}
        /\ pclient[w] \in Conns /\ UNCHANGED <<accepted, hand, thread_queue>>
    BY <1>6 DEF Serve, Return
  <2>2. CASE pclient[w] = c
    <3>1. WithWorker(c, w) /\ \A v \in Workers : ~WithWorker(c, v)'
      BY <1>0, <2>1, <2>2 DEF WithWorker, OnePlace
    <3>2. c \in accepted /\ ~InHand(c) /\ \A i \in 1..Len(thread_queue) : ~Queued(c, i)
      BY <1>0, <3>1 DEF OnePlace, SomePlace
    <3> QED BY <2>1, <2>2, <3>1, <3>2 DEF OnePlace, SomePlace, InHand, Queued
  <2>3. CASE pclient[w] # c
    <3>1. /\ c \in done' <=> c \in done
          /\ \A v \in Workers : WithWorker(c, v)' <=> WithWorker(c, v)
      BY <1>0, <2>1, <2>3 DEF WithWorker
    <3> QED BY <1>0, <2>1, <3>1 DEF OnePlace, SomePlace, InHand, Queued
  <2> QED BY <2>2, <2>3
<1>7. ASSUME NEW w \in Workers, ServeBad(w) PROVE OnePlace(c)'
  <2>1. UNCHANGED <<accepted, hand, thread_queue, done>>
    BY <1>7 DEF ServeBad
  <2>2. \A v \in Workers : WithWorker(c, v)' <=> WithWorker(c, v)
    BY <1>0, <1>7 DEF ServeBad, Return, WithWorker
  <2> QED BY <1>0, <2>1, <2>2 DEF OnePlace, SomePlace, InHand, Queued
<1>8. ASSUME NEW w \in Workers, Take(w) \/ Wait(w) \/ Resume(w) \/ SpuriousWakeup(w)
      PROVE  OnePlace(c)'
  BY <1>1, <1>5, <1>8 DEF Take, Wait, Resume, SpuriousWakeup
<1>9. ASSUME NEW d \in Conns, Connect(d) \/ Quit(d) PROVE OnePlace(c)'
  BY <1>1, <1>9 DEF Connect, Quit
<1>10. CASE UNCHANGED vars
  BY <1>1, <1>10 DEF vars
<1> QED BY <1>2, <1>3, <1>4, <1>6, <1>7, <1>8, <1>9, <1>10 DEF Next, Acceptor, Worker

(* Every accepted connection is in exactly one place, whatever the size of *)
(* the pool: none is lost, and none is served twice.                       *)
THEOREM EachServedOnce == Spec => []NothingLostOrServedTwice
<1>1. ASSUME Init PROVE Exclusive
  <2>1. hand = "none" /\ thread_queue = <<>> /\ done = {} /\ accepted = {}
        /\ \A w \in Workers : pclient[w] = "none"
    BY <1>1 DEF Init
  <2> QED BY <2>1, PoolAssumption DEF Exclusive, OnePlace, SomePlace, InHand, Queued, WithWorker
<1> QED BY <1>1, ExclusiveStep, ExclusiveMeans, TypeCorrect, PTL DEF Spec
=============================================================================
