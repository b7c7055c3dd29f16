---------------------------- MODULE ClientSession ----------------------------
(***************************************************************************)
(* Login sessions, as the clients and the trackers see them.  A client     *)
(* keeps its own flag currUser.loggedin and changes it by the replies it   *)
(* gets; a tracker keeps loggedin_map.  A command is a connection of its   *)
(* own: the client writes a request and waits, a thread of the tracker     *)
(* carries it out, the client reads the reply.  Clients and trackers end   *)
(* and start again with nothing remembered.  There is no traffic between   *)
(* trackers: a client uses the first tracker of tracker_info.txt that is   *)
(* online when it starts, and no other until it ends.  A command the       *)
(* client refuses by itself has already opened its connection and leaves   *)
(* it open, silent: it takes up a thread of the tracker (module WorkerPool)*)
(* until the client ends.                                                  *)
(*                                                                         *)
(* A definition named X_Y is X with the slip Y, and no part of the model.  *)
(* Left out: the commands that do not change a session, and passwords      *)
(* beyond whether the one given is right.                                  *)
(***************************************************************************)
EXTENDS Naturals, Sequences, FiniteSets, FiniteSetsExt

CONSTANTS Clients, Users,
          TrackerInfo,     \* the sequence of the trackers, as in the file
          UsersOf,         \* the users who sit down at a client
          Mortal,          \* the trackers that may stop
          Hasty,           \* the clients that may end while a command waits
          Threads,         \* the threads in a tracker's pool
          MaxOrphans,      \* bound: how many requests of ended clients wait
          NoCall           \* no command: a client at its prompt

Trackers == {TrackerInfo[i] : i \in DOMAIN TrackerInfo}

Op == {"create_user", "login", "logout"}

Request == [op : Op, user : Users, right : BOOLEAN]   \* right: the password is

(* A call is a request, and from the tracker's handling on also its reply: *)
(* "2" for done, "1" for refused, "" if the tracker stopped.               *)
Call == [request : Request, reply : {"waiting", "1", "2", ""}]

ASSUME SessionAssumption ==
  /\ TrackerInfo # <<>>
  /\ IsFiniteSet(Clients)
  /\ UsersOf \in [Clients -> SUBSET Users]
  /\ Mortal \subseteq Trackers
  /\ Hasty \subseteq Clients
  /\ Threads \in Nat \ {0} /\ MaxOrphans \in Nat
  /\ "off" \notin Trackers
  /\ "none" \notin Users \cup Clients
  /\ NoCall \notin Call

VARIABLES up,              \* the trackers that run
          accounts,        \* tracker: the users it has an account for
          loggedin_map,    \* tracker: those of them that are logged in
          address,         \* tracker: the client each user is reached at
          connection_info, \* client: the tracker it uses, "off" if it is not running
          session,         \* client: currUser.userid while currUser.loggedin is set
          call,            \* client: the command it waits for
          leftopen,        \* client: how many silent connections it has left
          orphans          \* requests whose client ended before the reply

vars == <<up, accounts, loggedin_map, address,
          connection_info, session, call, leftopen, orphans>>

TypeOK == /\ up \subseteq Trackers
          /\ accounts \in [Trackers -> SUBSET Users]
          /\ loggedin_map \in [Trackers -> SUBSET Users]
          /\ address \in [Trackers -> [Users -> Clients \cup {"none"}]]
          /\ connection_info \in [Clients -> Trackers \cup {"off"}]
          /\ session \in [Clients -> Users \cup {"none"}]
          /\ \A c \in Clients : call[c] = NoCall \/ call[c] \in Call
          /\ leftopen \in [Clients -> 0..Threads]
          /\ orphans \subseteq [request : Request, client : Clients, tracker : Trackers]
          /\ \A t \in Trackers : loggedin_map[t] \subseteq accounts[t]

Init == /\ up = Trackers
        /\ accounts = [t \in Trackers |-> {}]
        /\ loggedin_map = [t \in Trackers |-> {}]
        /\ address = [t \in Trackers |-> [u \in Users |-> "none"]]
        /\ connection_info = [c \in Clients |-> "off"]
        /\ session = [c \in Clients |-> "none"]
        /\ call = [c \in Clients |-> NoCall]
        /\ leftopen = [c \in Clients |-> 0]
        /\ orphans = {}

trackerVars == <<up, accounts, loggedin_map, address>>
clientVars == <<connection_info, session, call, leftopen>>

-----------------------------------------------------------------------------
(* Trackers *)

TrackerStop(t) ==
  /\ t \in up \cap Mortal
  /\ up' = up \ {t}
  /\ accounts' = [accounts EXCEPT ![t] = {}]
  /\ loggedin_map' = [loggedin_map EXCEPT ![t] = {}]
  /\ address' = [address EXCEPT ![t] = [u \in Users |-> "none"]]
  /\ call' = [c \in Clients |->
                IF connection_info[c] = t /\ call[c] # NoCall /\ call[c].reply = "waiting"
                THEN [call[c] EXCEPT !.reply = ""] ELSE call[c]]
  /\ leftopen' = [c \in Clients |-> IF connection_info[c] = t THEN 0 ELSE leftopen[c]]
  /\ orphans' = {o \in orphans : o.tracker # t}
  /\ UNCHANGED <<connection_info, session>>

TrackerStart(t) == /\ t \notin up
                   /\ up' = up \cup {t}
                   /\ UNCHANGED <<accounts, loggedin_map, address, clientVars, orphans>>

MayCreate(t, u) == u \notin accounts[t]

(* A login that does not look for the account. *)
MayLogin_UnknownUser(t, u, right) == right

MayLogin(t, u, right) == u \in accounts[t] /\ right

MayLogout(t, u) == u \in loggedin_map[t]

Enter(t, u, c) == /\ loggedin_map' = [loggedin_map EXCEPT ![t] = @ \cup {u}]
                  /\ address' = [address EXCEPT ![t][u] = c]

Leave(t, u) == loggedin_map' = [loggedin_map EXCEPT ![t] = @ \ {u}] /\ UNCHANGED address

(* What the tracker t does with a request r from client c: its handler of  *)
(* create_user, login or logout.  A wrong password logs the user out.      *)
serve_create_user(t, r, c) ==
  /\ r.op = "create_user"
  /\ MayCreate(t, r.user)
  /\ accounts' = [accounts EXCEPT ![t] = @ \cup {r.user}]
  /\ Enter(t, r.user, c)

serve_login(t, r, c) ==
  /\ r.op = "login"
  /\ \/ MayLogin(t, r.user, r.right) /\ Enter(t, r.user, c)
     \/ ~r.right /\ Leave(t, r.user)
  /\ UNCHANGED accounts

serve_logout(t, r) ==
  /\ r.op = "logout"
  /\ MayLogout(t, r.user)
  /\ Leave(t, r.user)
  /\ UNCHANGED accounts

Accepted(t, r) == \/ r.op = "create_user" /\ MayCreate(t, r.user)
                  \/ r.op = "login" /\ MayLogin(t, r.user, r.right)
                  \/ r.op = "logout" /\ MayLogout(t, r.user)

Serve(t, r, c) ==
  /\ \/ serve_create_user(t, r, c) \/ serve_login(t, r, c) \/ serve_logout(t, r)
     \/ /\ ~Accepted(t, r)
        /\ r.op = "login" => r.right
        /\ UNCHANGED <<accounts, loggedin_map, address>>
  /\ UNCHANGED up

(* Every thread of the tracker waits for a request that will not come.     *)
Pinned(t) ==
  MapThenSumSet(LAMBDA c : leftopen[c], {c \in Clients : connection_info[c] = t}) >= Threads

Handle(c) ==
  /\ call[c] # NoCall
  /\ call[c].reply = "waiting"
  /\ ~Pinned(connection_info[c])
  /\ LET t == connection_info[c]
         r == call[c].request
     IN  /\ Serve(t, r, c)
         /\ call' = [call EXCEPT ![c].reply = IF Accepted(t, r) THEN "2" ELSE "1"]
  /\ UNCHANGED <<connection_info, session, leftopen, orphans>>

(* The tracker notices nothing when a client ends: it carries out the      *)
(* request all the same, possibly after later ones.                        *)
HandleOrphan(o) == /\ o \in orphans
                   /\ ~Pinned(o.tracker)
                   /\ Serve(o.tracker, o.request, o.client)
                   /\ orphans' = orphans \ {o}
                   /\ UNCHANGED clientVars

-----------------------------------------------------------------------------
(* Clients *)

(* The first tracker that is online. *)
Start(c) ==
  /\ connection_info[c] = "off"
  /\ \E i \in DOMAIN TrackerInfo :
       /\ TrackerInfo[i] \in up
       /\ \A j \in 1..(i - 1) : TrackerInfo[j] \notin up
       /\ connection_info' = [connection_info EXCEPT ![c] = TrackerInfo[i]]
  /\ UNCHANGED <<trackerVars, session, call, leftopen, orphans>>

Exit(c) ==
  /\ connection_info[c] # "off"
  /\ \/ call[c] = NoCall
     \/ c \in Hasty /\ Cardinality(orphans) < MaxOrphans
  /\ connection_info' = [connection_info EXCEPT ![c] = "off"]
  /\ session' = [session EXCEPT ![c] = "none"]
  /\ call' = [call EXCEPT ![c] = NoCall]
  /\ leftopen' = [leftopen EXCEPT ![c] = 0]
  /\ orphans' = IF call[c] # NoCall /\ call[c].reply = "waiting"
                THEN orphans \cup {[request |-> call[c].request, client |-> c,
                                    tracker |-> connection_info[c]]}
                ELSE orphans
  /\ UNCHANGED trackerVars

(* A command goes out only if the tracker can be connected to. *)
Send(c, r) ==
  /\ connection_info[c] \in up
  /\ call[c] = NoCall
  /\ call' = [call EXCEPT ![c] = [request |-> r, reply |-> "waiting"]]
  /\ UNCHANGED <<trackerVars, connection_info, session, leftopen, orphans>>

(* A command with the wrong number of arguments, a login while logged in,  *)
(* most others while not: client_function returns without closing.         *)
Refuse(c) ==
  /\ connection_info[c] \in up
  /\ call[c] = NoCall
  /\ ~Pinned(connection_info[c])
  /\ leftopen' = [leftopen EXCEPT ![c] = @ + 1]
  /\ UNCHANGED <<trackerVars, connection_info, session, call, orphans>>

create_user(c, u) ==
  Send(c, [op |-> "create_user", user |-> u, right |-> TRUE])

(* "You are already logged in ... Please logout first!" otherwise. *)
login(c, u, right) ==
  session[c] = "none" /\ Send(c, [op |-> "login", user |-> u, right |-> right])

logout(c) ==
  session[c] # "none" /\ Send(c, [op |-> "logout", user |-> session[c], right |-> TRUE])

(* Any reply but an empty one taken for a success, and a logout that does  *)
(* not reset the flag.                                                     *)
SessionAfter_AnyReply(c) ==
  IF call[c].reply = "" THEN session[c]
  ELSE IF call[c].request.op = "logout" THEN "none" ELSE call[c].request.user
SessionAfter_FlagStays(c) ==
  IF call[c].reply = "2" THEN call[c].request.user ELSE session[c]

(* Only a "2" changes what the client believes. *)
SessionAfter(c) ==
  IF call[c].reply # "2" THEN session[c]
  ELSE IF call[c].request.op = "logout" THEN "none" ELSE call[c].request.user

(* The client reads the reply. *)
Receive(c) ==
  /\ call[c] # NoCall
  /\ call[c].reply # "waiting"
  /\ call' = [call EXCEPT ![c] = NoCall]
  /\ session' = [session EXCEPT ![c] = SessionAfter(c)]
  /\ UNCHANGED <<trackerVars, connection_info, leftopen, orphans>>

-----------------------------------------------------------------------------
Next == \/ \E t \in Trackers : TrackerStop(t) \/ TrackerStart(t)
        \/ \E o \in orphans : HandleOrphan(o)
        \/ \E c \in Clients :
             \/ Start(c) \/ Exit(c) \/ Handle(c) \/ Receive(c) \/ Refuse(c) \/ logout(c)
             \/ \E u \in UsersOf[c] : \/ create_user(c, u)
                                      \/ \E right \in BOOLEAN : login(c, u, right)

(* A tracker that runs and has a thread left gets round to every request   *)
(* (WorkerPool!RequestsAnswered), and a client that waits reads its reply; *)
(* nobody has to type a command or end.                                    *)
Fairness == \A c \in Clients : WF_vars(Handle(c)) /\ WF_vars(Receive(c))

Spec == Init /\ [][Next]_vars /\ Fairness

-----------------------------------------------------------------------------
(* A client is steady if its tracker does not stop under it and it never   *)
(* ends while a command waits.                                             *)
Steady(c) == connection_info[c] \notin Mortal /\ c \notin Hasty

(* While a steady client believes it is logged in, and has not just been   *)
(* logged out by a reply on its way, its tracker has that user logged in   *)
(* and reaches it at this client (currUser.loggedin against loggedin_map   *)
(* and User::address).                                                     *)
BelievedSessionIsReal ==
  \A c \in Clients :
    LET t == connection_info[c]
        leaving == call[c] # NoCall /\ call[c].request.op = "logout" /\ call[c].reply = "2"
    IN  Steady(c) /\ session[c] # "none" /\ ~leaving
          => session[c] \in loggedin_map[t] /\ address[t][session[c]] = c

(* A steady client that asks to log out comes to believe it is logged out, *)
(* as it must before login lets it in again (client.cpp 353 and 949-956),  *)
(* unless left-open connections take up every thread of its tracker.       *)
LogoutWorks ==
  \A c \in Clients :
    (Steady(c) /\ call[c] # NoCall /\ call[c].request.op = "logout")
      ~> (session[c] = "none" \/ Pinned(connection_info[c]))
=============================================================================
