------------------------------ MODULE WorkerPool ------------------------------
(***************************************************************************)
(* How a tracker serves its connections: the thread of server_function     *)
(* accepts them and queues them, a pool of threads (start_thread) takes    *)
(* them from the queue under a mutex and a condition variable and serves   *)
(* each one (handle_connection).  A client's server for its peers is the   *)
(* same code (client.cpp, 165-226, 968-990 and 1021-1033).                 *)
(* A definition named X_Y is X with the slip Y, and no part of the model.  *)
(*                                                                         *)
(* What a connection's client does is its kind: a "request" is written at  *)
(* once; a "probe" is closed without a byte (connecttotracker); a "silent" *)
(* one is left open without a byte until the client ends (client_function  *)
(* returning early).  The server closes no connection, so it keeps the     *)
(* descriptor of every one it ever accepted.                               *)
(***************************************************************************)
EXTENDS Integers, Sequences, FiniteSets

CONSTANTS Workers,      \* the threads of the pool
          Conns,        \* the connections the clients open
          Kind,         \* [Conns -> {"request", "probe", "silent"}]
          MaxFds,       \* how many connections the process can hold open
          MaxBad        \* bound: how many failed accepts wait in the queue

ASSUME PoolAssumption ==
  /\ IsFiniteSet(Workers) /\ IsFiniteSet(Conns)
  /\ Kind \in [Conns -> {"request", "probe", "silent"}]
  /\ MaxFds \in Nat /\ MaxBad \in Nat
  /\ "bad" \notin Conns /\ "none" \notin Conns

VARIABLES backlog,      \* connections made and not yet accepted
          closed,       \* connections their client has closed
          accepted,     \* connections the server holds a descriptor of
          hand,         \* what accept returned and the acceptor has to queue
          thread_queue, \* the queue of sockets
          pc,           \* where each worker is in start_thread
          pclient,      \* the socket a worker serves
          done,         \* connections handle_connection has returned from
          alive         \* the process has not died

vars == <<backlog, closed, accepted, hand, thread_queue, pc, pclient, done, alive>>

Socket == Conns \cup {"bad"}     \* "bad": the -1 of a failed accept

TypeOK == /\ backlog \in SUBSET Conns
          /\ closed \in SUBSET Conns
          /\ accepted \in SUBSET Conns
          /\ hand \in Socket \cup {"none"}
          /\ thread_queue \in Seq(Socket)
          /\ pc \in [Workers -> {"top", "waiting", "woken", "serving"}]
          /\ pclient \in [Workers -> Socket \cup {"none"}]
          /\ done \in SUBSET Conns
          /\ alive \in BOOLEAN
          /\ \A w \in Workers : pc[w] = "serving" <=> pclient[w] # "none"
          /\ backlog \cap accepted = {}

Init == /\ backlog = {}
        /\ closed = {}
        /\ accepted = {}
        /\ hand = "none"
        /\ thread_queue = <<>>
        /\ pc = [w \in Workers |-> "top"]
        /\ pclient = [w \in Workers |-> "none"]
        /\ done = {}
        /\ alive = TRUE

-----------------------------------------------------------------------------
(* Clients *)

Connect(c) == /\ c \notin backlog \cup accepted
              /\ backlog' = backlog \cup {c}
              /\ closed' = IF Kind[c] = "probe" THEN closed \cup {c} ELSE closed
              /\ UNCHANGED <<accepted, hand, thread_queue, pc, pclient, done, alive>>

(* The client of a silent connection ends. *)
Quit(c) == /\ Kind[c] = "silent"
           /\ c \in backlog \cup accepted
           /\ c \notin closed
           /\ closed' = closed \cup {c}
           /\ UNCHANGED <<backlog, accepted, hand, thread_queue, pc, pclient, done, alive>>

-----------------------------------------------------------------------------
(* The acceptor *)

Exhausted == Cardinality(accepted) >= MaxFds

(* accept looks for a free descriptor before it waits for a connection. *)
Accept(c) == /\ hand = "none"
             /\ ~Exhausted
             /\ c \in backlog
             /\ backlog' = backlog \ {c}
             /\ accepted' = accepted \cup {c}
             /\ hand' = c
             /\ UNCHANGED <<closed, thread_queue, pc, pclient, done, alive>>

(* check only prints: the -1 is queued as if it were a socket. *)
AcceptFails == /\ hand = "none"
               /\ Exhausted
               /\ Cardinality({i \in DOMAIN thread_queue : thread_queue[i] = "bad"}) < MaxBad
               /\ hand' = "bad"
               /\ UNCHANGED <<backlog, closed, accepted, thread_queue, pc, pclient, done, alive>>

Waiting == {w \in Workers : pc[w] = "waiting"}

(* A signal given only for the first connection in the queue. *)
Signal_FirstOnly == \/ (Waiting = {} \/ thread_queue # <<>>) /\ UNCHANGED pc
                    \/ \E w \in Waiting : /\ thread_queue = <<>>
                                          /\ pc' = [pc EXCEPT ![w] = "woken"]

(* pthread_cond_signal wakes a waiting thread, if there is one. *)
Signal == \/ Waiting = {} /\ UNCHANGED pc
          \/ \E w \in Waiting : pc' = [pc EXCEPT ![w] = "woken"]

Push == /\ hand # "none"
        /\ thread_queue' = Append(thread_queue, hand)
        /\ hand' = "none"
        /\ Signal
        /\ UNCHANGED <<backlog, closed, accepted, pclient, done, alive>>

-----------------------------------------------------------------------------
(* The workers.  A critical section of mutexQueue is one step, up to the   *)
(* wait that gives the mutex back.                                         *)

(* front without pop *)
Pop_FrontOnly(w) == /\ pclient' = [pclient EXCEPT ![w] = Head(thread_queue)]
                    /\ pc' = [pc EXCEPT ![w] = "serving"]
                    /\ UNCHANGED thread_queue

Pop(w) == /\ pclient' = [pclient EXCEPT ![w] = Head(thread_queue)]
          /\ thread_queue' = Tail(thread_queue)
          /\ pc' = [pc EXCEPT ![w] = "serving"]

Take(w) == /\ pc[w] = "top"
           /\ thread_queue # <<>>
           /\ Pop(w)
           /\ UNCHANGED <<backlog, closed, accepted, hand, done, alive>>

Wait(w) == /\ pc[w] = "top"
           /\ thread_queue = <<>>
           /\ pc' = [pc EXCEPT ![w] = "waiting"]
           /\ UNCHANGED <<backlog, closed, accepted, hand, thread_queue, pclient, done, alive>>

(* pthread_cond_wait may return without a signal. *)
SpuriousWakeup(w) ==
  /\ pc[w] = "waiting"
  /\ pc' = [pc EXCEPT ![w] = "woken"]
  /\ UNCHANGED <<backlog, closed, accepted, hand, thread_queue, pclient, done, alive>>

(* The woken thread has the mutex again and looks at the queue once more; *)
(* if another one was faster it starts over.                              *)
Resume(w) == /\ pc[w] = "woken"
             /\ \/ thread_queue # <<>> /\ Pop(w)
                \/ /\ thread_queue = <<>>
                   /\ pc' = [pc EXCEPT ![w] = "top"]
                   /\ UNCHANGED <<thread_queue, pclient>>
             /\ UNCHANGED <<backlog, closed, accepted, hand, done, alive>>

(* The worker starts over with the socket it just served. *)
Return_StaleSocket(w) == pc' = [pc EXCEPT ![w] = "top"] /\ UNCHANGED pclient

Return(w) == /\ pc' = [pc EXCEPT ![w] = "top"]
             /\ pclient' = [pclient EXCEPT ![w] = "none"]

(* The loop around read that goes on at the end of the stream. *)
ReadReturns_NotAtEnd(c) == Kind[c] = "request"

ReadReturns(c) == Kind[c] = "request" \/ c \in closed

(* handle_connection returns once read has: with the request, or with the  *)
(* end of the stream.  (The terminator it writes at request[-1] for an     *)
(* empty request falls into padding of the frame of the unoptimised build  *)
(* the Makefile makes.)                                                    *)
Serve(w) == /\ pc[w] = "serving"
            /\ pclient[w] \in Conns
            /\ ReadReturns(pclient[w])
            /\ done' = done \cup {pclient[w]}
            /\ Return(w)
            /\ UNCHANGED <<backlog, closed, accepted, hand, thread_queue, alive>>

(* read fails for the -1, and as bytes_read is unsigned the loop goes on,  *)
(* looking for a newline ever further below the buffer: it finds one, and  *)
(* the handler returns, or it leaves the stack, and the process dies.      *)
ServeBad(w) == /\ pc[w] = "serving"
               /\ pclient[w] = "bad"
               /\ \/ Return(w) /\ UNCHANGED alive
                  \/ alive' = FALSE /\ UNCHANGED <<pc, pclient>>
               /\ UNCHANGED <<backlog, closed, accepted, hand, thread_queue, done>>

-----------------------------------------------------------------------------
Acceptor == (\E c \in Conns : Accept(c)) \/ AcceptFails \/ Push

Worker(w) == Take(w) \/ Wait(w) \/ Resume(w) \/ Serve(w) \/ ServeBad(w)

Next == /\ alive
        /\ \/ \E c \in Conns : Connect(c) \/ Quit(c)
           \/ Acceptor
           \/ \E w \in Workers : Worker(w) \/ SpuriousWakeup(w)

(* The acceptor and every worker keep running; nothing makes a client      *)
(* connect or end, or a wait return without a signal.                      *)
Fairness == /\ WF_vars(alive /\ Acceptor)
            /\ \A w \in Workers : WF_vars(alive /\ Worker(w))

Spec == Init /\ [][Next]_vars /\ Fairness

-----------------------------------------------------------------------------
(* Where a connection is: in the acceptor's hand, at a place of the queue, *)
(* with a worker, or done with.                                            *)
Places(c) == {x \in {<<"hand", hand>>} : hand = c}
             \cup {<<"queue", i>> : i \in {j \in DOMAIN thread_queue : thread_queue[j] = c}}
             \cup {<<"worker", w>> : w \in {v \in Workers : pclient[v] = c}}
             \cup {<<"done", c>> : x \in {y \in done : y = c}}

(* Every accepted connection is in exactly one place: none is lost between *)
(* the acceptor and the workers, none is served twice or by two workers at *)
(* once (one int* goes through push, front and pop for each accept).       *)
NothingLostOrServedTwice ==
  \A c \in Conns : IF c \in accepted THEN \E p \in Places(c) : Places(c) = {p}
                                     ELSE Places(c) = {}

Awake == {w \in Workers : pc[w] \in {"top", "woken"}}

(* No wakeup is lost: while a worker waits on condQueue, each queued       *)
(* connection has an awake worker of its own on the way to the queue.      *)
WakeupsCoverQueue == Waiting # {} => Len(thread_queue) <= Cardinality(Awake)

(* All workers are inside read, for connections nothing will come from.    *)
Pinned == \A w \in Workers :
            /\ pclient[w] \in Conns
            /\ Kind[pclient[w]] = "silent"
            /\ pclient[w] \notin closed

(* A request is accepted unless the descriptors have run out, and once     *)
(* accepted it is answered, unless silent connections take up the whole    *)
(* pool or a failed accept kills the process.                              *)
RequestsAnswered ==
  \A c \in Conns : Kind[c] = "request" =>
    /\ c \in backlog ~> (c \in accepted \/ Exhausted \/ ~alive)
    /\ c \in accepted ~> (c \in done \/ Pinned \/ ~alive)
=============================================================================
