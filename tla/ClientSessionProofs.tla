-------------------------- MODULE ClientSessionProofs --------------------------
(* Proofs about module ClientSession, for any clients, trackers and users,  *)
(* as long as no user sits down at two clients.                             *)
EXTENDS ClientSession, FiniteSetTheorems, TLAPS

UsersApart == \A c, d \in Clients : c # d => UsersOf[c] \cap UsersOf[d] = {}

-----------------------------------------------------------------------------
(* The part of TypeOK that is about sessions. *)
TrackerTypes == /\ up \subseteq Trackers
                /\ loggedin_map \in [Trackers -> SUBSET Users]
                /\ address \in [Trackers -> [Users -> Clients \cup {"none"}]]

ClientTypes == /\ connection_info \in [Clients -> Trackers \cup {"off"}]
               /\ session \in [Clients -> Users \cup {"none"}]
               /\ call \in [Clients -> Call \cup {NoCall}]

(* What an ended client has left behind is the request of a user of its.   *)
OrphansKnown == \A o \in orphans : /\ o.client \in Hasty /\ o.tracker \in Trackers
                                   /\ o.request \in Request
                                   /\ o.request.user \in UsersOf[o.client]

(* A client that does not run has no session; its session and its command  *)
(* are those of users of its; it logs in only without a session, and out   *)
(* of the one it has.                                                      *)
OwnSession(c) ==
  /\ connection_info[c] = "off" => session[c] = "none" /\ call[c] = NoCall
  /\ session[c] # "none" => session[c] \in UsersOf[c]
  /\ call[c] # NoCall =>
       /\ call[c].request.user \in UsersOf[c]
       /\ call[c].request.op = "login" => session[c] = "none"
       /\ call[c].request.op = "logout" => session[c] # "none" /\ call[c].request.user = session[c]

Leaving(c) == call[c] # NoCall /\ call[c].request.op = "logout" /\ call[c].reply = "2"

AtTracker(c, t, u) == u \in loggedin_map[t] /\ address[t][u] = c

(* A session, and one that a reply is about to confirm, is the tracker's   *)
(* as well.                                                                *)
RealSession(c) ==
  Steady(c) =>
    /\ session[c] # "none" /\ ~Leaving(c) => AtTracker(c, connection_info[c], session[c])
    /\ call[c] # NoCall /\ call[c].reply = "2" /\ call[c].request.op # "logout"
         => AtTracker(c, connection_info[c], call[c].request.user)

Types == TrackerTypes /\ ClientTypes
SessionInvariant == /\ Types /\ OrphansKnown
                    /\ \A c \in Clients : OwnSession(c) /\ RealSession(c)

-----------------------------------------------------------------------------
(* What a request does to the sessions of a tracker: it concerns nobody    *)
(* but its own user, whom it enters unless it is refused.                  *)
LEMMA ServeFacts ==
  ASSUME TrackerTypes, NEW t \in Trackers, NEW r \in Request, NEW c \in Clients, Serve(t, r, c)
  PROVE  /\ TrackerTypes'
         /\ \A s \in Trackers, d \in Clients, u \in Users :
              (s # t \/ u # r.user) => (AtTracker(d, s, u) => AtTracker(d, s, u)')
         /\ Accepted(t, r) /\ r.op # "logout" => AtTracker(c, t, r.user)'
         /\ ~Accepted(t, r) /\ r.op # "login" => UNCHANGED <<loggedin_map, address>>
<1> USE DEF TrackerTypes
<1>0. r.user \in Users /\ r.op \in Op
  BY DEF Request
<1>1. CASE Enter(t, r.user, c) /\ Accepted(t, r)
  <2>1. /\ loggedin_map' = [loggedin_map EXCEPT ![t] = @ \cup {r.user}]
        /\ address' = [address EXCEPT ![t][r.user] = c]
    BY <1>1 DEF Enter
  <2>2. TrackerTypes'
    BY <1>0, <2>1 DEF Serve
  <2>3. AtTracker(c, t, r.user)'
    BY <1>0, <2>1 DEF AtTracker
  <2>4. ASSUME NEW s \in Trackers, NEW d \in Clients, NEW u \in Users, s # t \/ u # r.user, AtTracker(d, s, u)
        PROVE  AtTracker(d, s, u)'
    BY <1>0, <2>1, <2>4 DEF AtTracker
  <2> QED BY <1>1, <2>2, <2>3, <2>4
<1>2. CASE Leave(t, r.user) /\ ((r.op = "logout" /\ MayLogout(t, r.user)) \/ (r.op = "login" /\ ~r.right))
  <2>1. loggedin_map' = [loggedin_map EXCEPT ![t] = @ \ {r.user}] /\ UNCHANGED address
    BY <1>2 DEF Leave
  <2>2. TrackerTypes'
    BY <2>1 DEF Serve
  <2>3. ASSUME NEW s \in Trackers, NEW d \in Clients, NEW u \in Users, s # t \/ u # r.user, AtTracker(d, s, u)
        PROVE  AtTracker(d, s, u)'
    BY <1>0, <2>1, <2>3 DEF AtTracker
  <2>4. Accepted(t, r) => r.op = "logout"
    BY <1>2 DEF Accepted, MayLogin
  <2>5. r.op = "logout" => Accepted(t, r)
    BY <1>2 DEF Accepted
  <2>6. r.op = "login" \/ Accepted(t, r)
    BY <1>2, <2>5
  <2> QED BY <2>2, <2>3, <2>4, <2>6
<1>3. CASE UNCHANGED <<loggedin_map, address>> /\ ~Accepted(t, r)
  BY <1>3 DEF AtTracker, Serve
<1>4. \/ r.op = "create_user" /\ MayCreate(t, r.user) /\ Enter(t, r.user, c)
      \/ r.op = "login" /\ MayLogin(t, r.user, r.right) /\ Enter(t, r.user, c)
      \/ r.op = "login" /\ ~r.right /\ Leave(t, r.user)
      \/ r.op = "logout" /\ MayLogout(t, r.user) /\ Leave(t, r.user)
      \/ ~Accepted(t, r) /\ UNCHANGED <<loggedin_map, address>>
  BY DEF Serve, serve_create_user, serve_login, serve_logout
<1>5. CASE r.op = "create_user" /\ MayCreate(t, r.user) /\ Enter(t, r.user, c)
  <2>1. Accepted(t, r)
    BY <1>5 DEF Accepted
  <2> QED BY <1>1, <1>5, <2>1
<1>6. CASE r.op = "login" /\ MayLogin(t, r.user, r.right) /\ Enter(t, r.user, c)
  <2>1. Accepted(t, r)
    BY <1>6 DEF Accepted
  <2> QED BY <1>1, <1>6, <2>1
<1>7. CASE r.op = "login" /\ ~r.right /\ Leave(t, r.user)
  BY <1>2, <1>7
<1>8. CASE r.op = "logout" /\ MayLogout(t, r.user) /\ Leave(t, r.user)
  BY <1>2, <1>8
<1> HIDE DEF TrackerTypes
<1> QED BY ONLY <1>3, <1>4, <1>5, <1>6, <1>7, <1>8

(* So a request for none of its users leaves a client's sessions alone.    *)
LEMMA OthersReal ==
  ASSUME SessionInvariant, NEW t \in Trackers, NEW r \in Request, NEW c \in Clients, Serve(t, r, c),
         NEW d \in Clients, r.user \notin UsersOf[d],
         connection_info'[d] = connection_info[d], session'[d] = session[d], call'[d] = call[d]
  PROVE  (OwnSession(d) /\ RealSession(d))'
<1> USE DEF SessionInvariant, Types
<1>1. OwnSession(d) /\ RealSession(d) /\ UsersOf[d] \subseteq Users
  BY SessionAssumption
<1>2. OwnSession(d)'
  BY <1>1 DEF OwnSession
<1>3. ASSUME NEW u \in UsersOf[d], AtTracker(d, connection_info[d], u), connection_info[d] \in Trackers
      PROVE  AtTracker(d, connection_info[d], u)'
  <2>1. PICK s \in Trackers : s = connection_info[d]
    BY <1>3
  <2>2. u # r.user /\ u \in Users
    BY <1>1, <1>3
  <2>3. AtTracker(d, s, u) => AtTracker(d, s, u)'
    BY <2>2, ServeFacts
  <2> QED BY <1>3, <2>1, <2>3 DEF AtTracker
<1>4. session[d] # "none" \/ call[d] # NoCall => connection_info[d] \in Trackers
  BY <1>1 DEF OwnSession, ClientTypes
<1>5. RealSession(d)'
  <2>1. SUFFICES ASSUME Steady(d)'
                 PROVE  /\ session[d] # "none" /\ ~Leaving(d)
                             => AtTracker(d, connection_info[d], session[d])'
                        /\ call[d] # NoCall /\ call[d].reply = "2" /\ call[d].request.op # "logout"
                             => AtTracker(d, connection_info[d], call[d].request.user)'
    BY DEF RealSession, Leaving, AtTracker
  <2>2. Steady(d)
    BY <2>1 DEF Steady
  <2>3. session[d] # "none" /\ ~Leaving(d) => AtTracker(d, connection_info[d], session[d])'
    <3>1. SUFFICES ASSUME session[d] # "none", ~Leaving(d)
                   PROVE  AtTracker(d, connection_info[d], session[d])'
      OBVIOUS
    <3>2. PICK u \in UsersOf[d] : u = session[d] /\ AtTracker(d, connection_info[d], u)
      BY <1>1, <2>2, <3>1 DEF OwnSession, RealSession
    <3>3. AtTracker(d, connection_info[d], u)'
      BY <1>3, <1>4, <3>1, <3>2
    <3> QED BY <3>2, <3>3 DEF AtTracker
  <2>4. call[d] # NoCall /\ call[d].reply = "2" /\ call[d].request.op # "logout"
          => AtTracker(d, connection_info[d], call[d].request.user)'
    <3>1. SUFFICES ASSUME call[d] # NoCall, call[d].reply = "2", call[d].request.op # "logout"
                   PROVE  AtTracker(d, connection_info[d], call[d].request.user)'
      OBVIOUS
    <3>2. PICK u \in UsersOf[d] : u = call[d].request.user /\ AtTracker(d, connection_info[d], u)
      BY <1>1, <2>2, <3>1 DEF OwnSession, RealSession
    <3>3. AtTracker(d, connection_info[d], u)'
      BY <1>3, <1>4, <3>1, <3>2
    <3> QED BY <3>2, <3>3 DEF AtTracker
  <2> QED BY <2>3, <2>4
<1> QED BY <1>2, <1>5

-----------------------------------------------------------------------------
(* What a client sends: a login when it has no session, a logout for the   *)
(* one it has, or the creation of a user of its.                           *)
MaySend(c, r) == /\ r \in Request /\ r.user \in UsersOf[c]
                 /\ r.op = "login" => session[c] = "none"
                 /\ r.op = "logout" => session[c] # "none" /\ r.user = session[c]

LEMMA Sent ==
  ASSUME SessionInvariant, NEW c \in Clients,
         \/ logout(c)
         \/ \E u \in UsersOf[c] : create_user(c, u) \/ \E right \in BOOLEAN : login(c, u, right)
  PROVE  \E r \in Request : MaySend(c, r) /\ Send(c, r)
<1>1. UsersOf[c] \subseteq Users /\ OwnSession(c)
  BY SessionAssumption DEF SessionInvariant
<1>2. CASE logout(c)
  <2> DEFINE r == [op |-> "logout", user |-> session[c], right |-> TRUE]
  <2>1. session[c] # "none" /\ Send(c, r)
    BY <1>2 DEF logout
  <2>2. r \in Request /\ r.user = session[c] /\ r.op = "logout"
    BY <1>1, <2>1 DEF OwnSession, Request, Op
  <2> QED BY <1>1, <2>1, <2>2 DEF MaySend, OwnSession
<1>3. ASSUME NEW u \in UsersOf[c], create_user(c, u) PROVE \E r \in Request : MaySend(c, r) /\ Send(c, r)
  <2> DEFINE r == [op |-> "create_user", user |-> u, right |-> TRUE]
  <2>1. r \in Request /\ r.user = u /\ r.op = "create_user"
    BY <1>1 DEF Request, Op
  <2>2. Send(c, r)
    BY <1>3 DEF create_user
  <2> QED BY <2>1, <2>2 DEF MaySend
<1>4. ASSUME NEW u \in UsersOf[c], NEW right \in BOOLEAN, login(c, u, right)
      PROVE  \E r \in Request : MaySend(c, r) /\ Send(c, r)
  <2> DEFINE r == [op |-> "login", user |-> u, right |-> right]
  <2>1. r \in Request /\ r.user = u /\ r.op = "login"
    BY <1>1 DEF Request, Op
  <2>2. session[c] = "none" /\ Send(c, r)
    BY <1>4 DEF login
  <2> QED BY <2>1, <2>2 DEF MaySend
<1> QED BY <1>2, <1>3, <1>4

LEMMA TypeStep ==
  ASSUME SessionInvariant, [Next]_vars
  PROVE  Types'
<1> USE DEF SessionInvariant, Types, TrackerTypes, ClientTypes
<1>1. ASSUME NEW t \in Trackers, TrackerStop(t) PROVE Types'
  <2>1. loggedin_map' \in [Trackers -> SUBSET Users]
    BY <1>1 DEF TrackerStop
  <2>2. address' \in [Trackers -> [Users -> Clients \cup {"none"}]]
    BY <1>1 DEF TrackerStop
  <2>3. \A c \in Clients : call[c] # NoCall => [call[c] EXCEPT !.reply = ""] \in Call
    BY DEF Call
  <2>4. call' \in [Clients -> Call \cup {NoCall}]
    BY <1>1, <2>3 DEF TrackerStop
  <2> QED BY <1>1, <2>1, <2>2, <2>4 DEF TrackerStop
<1>2. ASSUME NEW t, NEW r, NEW c \in Clients, t \in Trackers, r \in Request, Serve(t, r, c)
      PROVE  TrackerTypes'
  BY <1>2, ServeFacts
<1>3. ASSUME NEW c \in Clients, Handle(c) PROVE Types'
  <2>1. /\ call[c] \in Call /\ call[c].request \in Request
        /\ UNCHANGED <<connection_info, session>>
    BY <1>3 DEF Handle, Call
  <2>2. PICK b \in {"1", "2"} : call' = [call EXCEPT ![c].reply = b]
    BY <1>3 DEF Handle
  <2>3. [call[c] EXCEPT !.reply = b] \in Call
    BY <2>1 DEF Call
  <2>4. ClientTypes'
    BY <2>1, <2>2, <2>3
  <2>5. connection_info[c] \in Trackers
    BY <1>3 DEF Handle, OwnSession
  <2>6. TrackerTypes'
    BY <1>2, <1>3, <2>1, <2>5 DEF Handle
  <2> QED BY <2>4, <2>6
<1>4. ASSUME NEW o \in orphans, HandleOrphan(o) PROVE Types'
  <2>1. o.tracker \in Trackers /\ o.request \in Request /\ o.client \in Clients
    BY SessionAssumption DEF OrphansKnown
  <2>2. TrackerTypes'
    BY <1>2, <1>4, <2>1 DEF HandleOrphan
  <2> QED BY <1>4, <2>2 DEF HandleOrphan, clientVars
<1>5. ASSUME NEW c \in Clients, Start(c) PROVE Types'
  <2>1. PICK t \in Trackers : connection_info' = [connection_info EXCEPT ![c] = t]
    BY <1>5 DEF Start, Trackers
  <2> QED BY <1>5, <2>1 DEF Start, trackerVars
<1>6. ASSUME NEW c \in Clients, Exit(c) PROVE Types'
  BY <1>6 DEF Exit, trackerVars
<1>7. ASSUME NEW c \in Clients, NEW r \in Request, Send(c, r) PROVE Types'
  <2>1. [request |-> r, reply |-> "waiting"] \in Call
    BY DEF Call
  <2> QED BY <1>7, <2>1 DEF Send, trackerVars
<1>8. ASSUME NEW c \in Clients, Receive(c) PROVE Types'
  <2>1. SessionAfter(c) \in Users \cup {"none"}
    BY <1>8 DEF SessionAfter, Receive, Call, Request
  <2> QED BY <1>8, <2>1 DEF Receive, trackerVars
<1>9. CASE up' \subseteq Trackers /\ UNCHANGED <<loggedin_map, address, connection_info, session, call>>
  BY <1>9
<1>10. CASE UNCHANGED vars
  BY <1>9, <1>10 DEF vars
<1>11. ASSUME NEW c \in Clients, \/ logout(c)
                                 \/ \E u \in UsersOf[c] : \/ create_user(c, u)
                                                          \/ \E right \in BOOLEAN : login(c, u, right)
       PROVE  \E r \in Request : Send(c, r)
  BY <1>11, Sent
<1> QED BY <1>1, <1>3, <1>4, <1>5, <1>6, <1>7, <1>8, <1>9, <1>10, <1>11
        DEF Next, TrackerStart, Refuse, trackerVars, clientVars

(* A step that concerns no session of a client leaves its sessions alone.  *)
LEMMA SameSession ==
  ASSUME NEW d \in Clients, OwnSession(d), RealSession(d),
         connection_info'[d] = connection_info[d], session'[d] = session[d], call'[d] = call[d],
         Steady(d) /\ (session[d] # "none" \/ call[d] # NoCall) =>
           /\ loggedin_map'[connection_info[d]] = loggedin_map[connection_info[d]]
           /\ address'[connection_info[d]] = address[connection_info[d]]
  PROVE  (OwnSession(d) /\ RealSession(d))'
  BY DEF OwnSession, RealSession, Steady, Leaving, AtTracker

LEMMA SessionStep ==
  ASSUME UsersApart, SessionInvariant, [Next]_vars
  PROVE  SessionInvariant'
<1> DEFINE Good(c) == OwnSession(c) /\ RealSession(c)
<1>0. /\ Types' /\ Types /\ OrphansKnown
      /\ \A c \in Clients : Good(c)
      /\ call \in [Clients -> Call \cup {NoCall}] /\ session \in [Clients -> Users \cup {"none"}]
      /\ connection_info \in [Clients -> Trackers \cup {"off"}]
  BY TypeStep DEF SessionInvariant, Types, ClientTypes
<1>1. ASSUME UNCHANGED <<loggedin_map, address>>, NEW c \in Clients, Good(c)',
             \A d \in Clients \ {c} : /\ connection_info'[d] = connection_info[d]
                                      /\ session'[d] = session[d] /\ call'[d] = call[d]
      PROVE  \A d \in Clients : Good(d)'
  BY <1>0, <1>1, SameSession
<1>2. ASSUME NEW t \in Trackers, TrackerStop(t) PROVE SessionInvariant'
  <2>1. OrphansKnown'
    BY <1>0, <1>2 DEF TrackerStop, OrphansKnown
  <2>2. ASSUME NEW d \in Clients PROVE Good(d)'
    <3>1. CASE connection_info[d] = t /\ call[d] # NoCall /\ call[d].reply = "waiting"
      <4>1. /\ call'[d] = [call[d] EXCEPT !.reply = ""]
            /\ UNCHANGED <<connection_info, session>>
        BY <1>2, <3>1 DEF TrackerStop
      <4>2. call'[d].request = call[d].request /\ call'[d].reply = ""
        <5>1. call[d] \in Call
          BY <1>0, <3>1
        <5>2. \A x \in Call : LET y == [x EXCEPT !.reply = ""]
                              IN y.request = x.request /\ y.reply = ""
          BY DEF Call
        <5> QED BY <4>1, <5>1, <5>2
      <4>3. OwnSession(d)'
        BY <1>0, <3>1, <4>1, <4>2 DEF OwnSession
      <4>4. ~Steady(d)'
        BY <1>2, <3>1, <4>1 DEF TrackerStop, Steady
      <4> QED BY <4>3, <4>4 DEF RealSession
    <3>2. CASE ~(connection_info[d] = t /\ call[d] # NoCall /\ call[d].reply = "waiting")
      <4>1. call'[d] = call[d] /\ UNCHANGED <<connection_info, session>>
        BY <1>2, <3>2 DEF TrackerStop
      <4>2. CASE connection_info[d] = t
        <5>1. ~Steady(d)'
          BY <1>2, <4>1, <4>2 DEF TrackerStop, Steady
        <5>2. OwnSession(d)'
          BY <1>0, <4>1 DEF OwnSession
        <5> QED BY <5>1, <5>2 DEF RealSession
      <4>3. CASE connection_info[d] # t
        <5>1. connection_info[d] \in Trackers =>
                /\ loggedin_map'[connection_info[d]] = loggedin_map[connection_info[d]]
                /\ address'[connection_info[d]] = address[connection_info[d]]
          BY <1>0, <1>2, <4>3 DEF TrackerStop, Types, TrackerTypes
        <5>2. session[d] # "none" \/ call[d] # NoCall => connection_info[d] \in Trackers
          BY <1>0 DEF OwnSession
        <5> QED BY <1>0, <4>1, <5>1, <5>2, SameSession
      <4> QED BY <4>2, <4>3
    <3> QED BY <3>1, <3>2
  <2> QED BY <1>0, <2>1, <2>2 DEF SessionInvariant
<1>3. ASSUME NEW o \in orphans, HandleOrphan(o) PROVE SessionInvariant'
  <2>1. /\ o.tracker \in Trackers /\ o.request \in Request /\ o.client \in Clients
        /\ o.client \in Hasty /\ o.request.user \in UsersOf[o.client]
    BY <1>0, SessionAssumption DEF OrphansKnown
  <2>2. Serve(o.tracker, o.request, o.client)
        /\ UNCHANGED <<connection_info, session, call>>
    BY <1>3 DEF HandleOrphan, clientVars
  <2>3. OrphansKnown'
    BY <1>0, <1>3 DEF HandleOrphan, OrphansKnown
  <2>4. ASSUME NEW d \in Clients PROVE Good(d)'
    <3>1. CASE d = o.client
      <4>1. OwnSession(d)'
        BY <1>0, <2>2 DEF OwnSession
      <4>2. ~Steady(d)'
        BY <2>1, <3>1 DEF Steady
      <4> QED BY <4>1, <4>2 DEF RealSession
    <3>2. CASE d # o.client
      <4>1. o.request.user \notin UsersOf[d]
        BY <2>1, <3>2 DEF UsersApart
      <4> QED BY <2>1, <2>2, <4>1, OthersReal
    <3> QED BY <3>1, <3>2
  <2> QED BY <1>0, <2>3, <2>4 DEF SessionInvariant
<1>4. ASSUME NEW c \in Clients, Start(c) PROVE SessionInvariant'
  <2>1. PICK t \in Trackers : connection_info' = [connection_info EXCEPT ![c] = t]
    BY <1>4 DEF Start, Trackers
  <2>2. /\ connection_info[c] = "off"
        /\ UNCHANGED <<loggedin_map, address, session, call, orphans>>
    BY <1>4 DEF Start, trackerVars
  <2>3. session[c] = "none" /\ call[c] = NoCall
    BY <1>0, <2>2 DEF OwnSession
  <2>4. Good(c)'
    BY <2>2, <2>3 DEF OwnSession, RealSession
  <2>5. \A d \in Clients : Good(d)'
    BY <1>0, <1>1, <2>1, <2>2, <2>4
  <2> QED BY <1>0, <2>2, <2>5 DEF SessionInvariant, OrphansKnown
<1>5. ASSUME NEW c \in Clients, Exit(c) PROVE SessionInvariant'
  <2>1. /\ connection_info' = [connection_info EXCEPT ![c] = "off"]
        /\ session' = [session EXCEPT ![c] = "none"]
        /\ call' = [call EXCEPT ![c] = NoCall]
        /\ UNCHANGED <<loggedin_map, address>>
    BY <1>5 DEF Exit, trackerVars
  <2>2. Good(c)'
    BY <1>0, <2>1 DEF OwnSession, RealSession
  <2>3. \A d \in Clients : Good(d)'
    BY <1>0, <1>1, <2>1, <2>2
  <2>4. OrphansKnown'
    <3>1. CASE call[c] # NoCall /\ call[c].reply = "waiting"
      <4> DEFINE o == [request |-> call[c].request, client |-> c, tracker |-> connection_info[c]]
      <4>1. orphans' = orphans \cup {o}
        BY <1>5, <3>1 DEF Exit
      <4>2. c \in Hasty /\ connection_info[c] \in Trackers
        BY <1>0, <1>5, <3>1 DEF Exit
      <4>3. call[c].request \in Request /\ call[c].request.user \in UsersOf[c]
        BY <1>0, <3>1 DEF Call, OwnSession
      <4>4. /\ o.client \in Hasty /\ o.tracker \in Trackers /\ o.request \in Request
            /\ o.request.user \in UsersOf[o.client]
        BY <4>2, <4>3
      <4> QED BY <1>0, <4>1, <4>4 DEF OrphansKnown
    <3>2. CASE ~(call[c] # NoCall /\ call[c].reply = "waiting")
      BY <1>0, <1>5, <3>2 DEF Exit, OrphansKnown
    <3> QED BY <3>1, <3>2
  <2> QED BY <1>0, <2>3, <2>4 DEF SessionInvariant
<1>6. ASSUME NEW c \in Clients, NEW r \in Request, MaySend(c, r), Send(c, r) PROVE SessionInvariant'
  <2>1. /\ call' = [call EXCEPT ![c] = [request |-> r, reply |-> "waiting"]]
        /\ UNCHANGED <<loggedin_map, address, connection_info, session, orphans>>
        /\ call[c] = NoCall /\ connection_info[c] # "off"
    BY <1>0, <1>6, SessionAssumption DEF Send, trackerVars, Types, TrackerTypes
  <2>2. call'[c].request = r /\ call'[c].reply = "waiting"
    BY <1>0, <2>1
  <2>3. OwnSession(c)'
    BY <1>0, <1>6, <2>1, <2>2 DEF OwnSession, MaySend
  <2>4. RealSession(c)'
    BY <1>0, <2>1, <2>2 DEF RealSession, Steady, Leaving, AtTracker
  <2>5. \A d \in Clients : Good(d)'
    BY <1>0, <1>1, <2>1, <2>3, <2>4
  <2> QED BY <1>0, <2>1, <2>5 DEF SessionInvariant, OrphansKnown
<1>7. ASSUME NEW c \in Clients, Receive(c) PROVE SessionInvariant'
  <2>1. /\ call[c] # NoCall /\ call' = [call EXCEPT ![c] = NoCall]
        /\ session' = [session EXCEPT ![c] = SessionAfter(c)]
        /\ UNCHANGED <<loggedin_map, address, connection_info, orphans>>
    BY <1>7 DEF Receive, trackerVars
  <2>2. call'[c] = NoCall /\ session'[c] = SessionAfter(c)
    BY <1>0, <2>1
  <2>3. connection_info[c] # "off" /\ call[c].request.user \in UsersOf[c]
    BY <1>0, <2>1 DEF OwnSession
  <2>4. SessionAfter(c) # "none" => SessionAfter(c) \in UsersOf[c]
    BY <1>0, <2>3 DEF SessionAfter, OwnSession
  <2>5. OwnSession(c)'
    BY <2>1, <2>2, <2>3, <2>4 DEF OwnSession
  <2>6. Steady(c) /\ SessionAfter(c) # "none" => AtTracker(c, connection_info[c], SessionAfter(c))
    BY <1>0, <2>1 DEF RealSession, SessionAfter, Leaving
  <2>7. RealSession(c)'
    BY <2>1, <2>2, <2>6 DEF RealSession, Steady, AtTracker
  <2>8. \A d \in Clients : Good(d)'
    BY <1>0, <1>1, <2>1, <2>5, <2>7
  <2> QED BY <1>0, <2>1, <2>8 DEF SessionInvariant, OrphansKnown
<1>8. ASSUME NEW c \in Clients, Handle(c) PROVE SessionInvariant'
  <2> DEFINE t == connection_info[c]
             r == call[c].request
  <2>1. /\ call[c] # NoCall /\ call[c].reply = "waiting" /\ Serve(t, r, c)
        /\ call' = [call EXCEPT ![c].reply = IF Accepted(t, r) THEN "2" ELSE "1"]
        /\ UNCHANGED <<connection_info, session, orphans>>
    BY <1>8 DEF Handle
  <2>2. /\ t \in Trackers /\ r \in Request /\ r.user \in UsersOf[c]
        /\ call[c] \in Call
    BY <1>0, <2>1 DEF OwnSession, Call
  <2>3. /\ call'[c] # NoCall /\ call'[c].request = r
        /\ call'[c].reply = IF Accepted(t, r) THEN "2" ELSE "1"
    <3>1. PICK x \in Call : x = call[c] /\ x.request = r
      BY <2>2
    <3>2. PICK b \in {"1", "2"} : b = IF Accepted(t, r) THEN "2" ELSE "1"
      OBVIOUS
    <3>3. call'[c] = [x EXCEPT !.reply = b]
      BY <1>0, <2>1, <3>1, <3>2
    <3>4. /\ [x EXCEPT !.reply = b] \in Call /\ [x EXCEPT !.reply = b].request = x.request
          /\ [x EXCEPT !.reply = b].reply = b
      BY DEF Call
    <3>5. call'[c] # NoCall
      BY <3>3, <3>4, SessionAssumption
    <3> QED BY <3>1, <3>2, <3>3, <3>4, <3>5
  <2>4. ASSUME NEW d \in Clients, d # c PROVE Good(d)'
    <3>1. r.user \notin UsersOf[d]
      BY <2>2, <2>4 DEF UsersApart
    <3>2. call'[d] = call[d]
      BY <1>0, <2>1, <2>4
    <3> QED BY <2>1, <2>2, <2>4, <3>1, <3>2, OthersReal
  <2>5. OwnSession(c)'
    BY <1>0, <2>1, <2>3 DEF OwnSession
  <2>6. RealSession(c)'
    <3>1. SUFFICES ASSUME Steady(c)
                   PROVE  /\ session[c] # "none" /\ ~Leaving(c)' => AtTracker(c, t, session[c])'
                          /\ Accepted(t, r) /\ r.op # "logout" => AtTracker(c, t, r.user)'
      BY <2>1, <2>3 DEF RealSession, Steady, AtTracker
    <3>2. /\ TrackerTypes /\ UsersOf[c] \subseteq Users
          /\ session[c] # "none" => session[c] \in Users /\ AtTracker(c, t, session[c])
      BY <1>0, <2>1, <3>1, SessionAssumption DEF RealSession, Leaving, Types
    <3>3. PICK s \in Trackers, q \in Request : s = t /\ q = r /\ Serve(s, q, c)
      BY <2>1, <2>2
    <3>4. /\ \A u \in Users : u # q.user => (AtTracker(c, s, u) => AtTracker(c, s, u)')
          /\ Accepted(s, q) /\ q.op # "logout" => AtTracker(c, s, q.user)'
          /\ ~Accepted(s, q) /\ q.op # "login" => UNCHANGED <<loggedin_map, address>>
      BY <3>2, <3>3, ServeFacts
    <3>5. Accepted(t, r) /\ r.op # "logout" => AtTracker(c, t, r.user)'
      BY <2>1, <3>3, <3>4 DEF AtTracker
    <3>6. ASSUME session[c] # "none", ~Leaving(c)' PROVE AtTracker(c, t, session[c])'
      <4>1. r.op # "login" /\ (r.op = "logout" => r.user = session[c])
        BY <1>0, <2>1, <3>6 DEF OwnSession
      <4>2. r.op = "logout" => ~Accepted(t, r)
        BY <2>3, <3>6 DEF Leaving
      <4>3. CASE ~Accepted(t, r)
        BY <2>1, <3>2, <3>3, <3>4, <3>6, <4>1, <4>3 DEF AtTracker
      <4>4. CASE Accepted(t, r) /\ session[c] = r.user
        BY <2>1, <3>5, <4>2, <4>4 DEF AtTracker
      <4>5. CASE session[c] # r.user
        <5>1. PICK u \in Users : u = session[c]
          BY <3>2, <3>6
        <5>2. AtTracker(c, s, u)'
          BY <3>2, <3>3, <3>4, <3>6, <4>5, <5>1
        <5> QED BY <2>1, <3>3, <5>1, <5>2 DEF AtTracker
      <4> QED BY <4>3, <4>4, <4>5
    <3> QED BY <3>5, <3>6
  <2> QED BY <1>0, <2>1, <2>4, <2>5, <2>6 DEF SessionInvariant, OrphansKnown
<1>9. CASE UNCHANGED <<loggedin_map, address, connection_info, session, call, orphans>>
  BY <1>0, <1>9, SameSession DEF SessionInvariant, OrphansKnown
<1>10. ASSUME NEW c \in Clients, \/ logout(c)
                                 \/ \E u \in UsersOf[c] : \/ create_user(c, u)
                                                          \/ \E right \in BOOLEAN : login(c, u, right)
       PROVE  SessionInvariant'
  BY <1>6, <1>10, Sent
<1>11. ASSUME NEW t \in Trackers, TrackerStart(t) PROVE SessionInvariant'
  BY <1>9, <1>11 DEF TrackerStart, clientVars
<1>12. ASSUME NEW c \in Clients, Refuse(c) PROVE SessionInvariant'
  BY <1>9, <1>12 DEF Refuse, trackerVars
<1>13. CASE UNCHANGED vars
  BY <1>9, <1>13 DEF vars
<1> QED BY <1>2, <1>3, <1>4, <1>5, <1>7, <1>8, <1>10, <1>11, <1>12, <1>13 DEF Next

(* If no user sits down at two clients, a steady client that believes it   *)
(* is logged in is logged in at its tracker and known by its own address,  *)
(* whatever the others do, end in the middle of, or restart (create_user,  *)
(* login and logout, at both ends).                                        *)
THEOREM SessionsReal ==
  ASSUME UsersApart PROVE Spec => []BelievedSessionIsReal
<1>1. ASSUME Init PROVE SessionInvariant
  <2>1. Types
    BY <1>1 DEF Init, Types, TrackerTypes, ClientTypes
  <2>2. \A c \in Clients : session[c] = "none" /\ call[c] = NoCall
    BY <1>1 DEF Init
  <2> QED BY <1>1, <2>1, <2>2 DEF Init, SessionInvariant, OrphansKnown, OwnSession, RealSession
<1>2. SessionInvariant => BelievedSessionIsReal
  BY DEF SessionInvariant, RealSession, Leaving, AtTracker, BelievedSessionIsReal
<1>3. ASSUME SessionInvariant, [Next]_vars PROVE SessionInvariant'
  BY <1>3, SessionStep
<1> QED BY <1>1, <1>2, <1>3, PTL DEF Spec

-----------------------------------------------------------------------------
(* The rest of TypeOK, whoever sits down where. *)
AccountTypes == /\ accounts \in [Trackers -> SUBSET Users]
                /\ \A t \in Trackers : loggedin_map[t] \subseteq accounts[t]

OrphanTypes == orphans \subseteq [request : Request, client : Clients, tracker : Trackers]

TypeInvariant == /\ Types /\ AccountTypes /\ OrphanTypes
                 /\ leftopen \in [Clients -> 0..Threads]
                 /\ \A c \in Clients : connection_info[c] = "off" => call[c] = NoCall

(* Nobody is logged in whose account the tracker has not got. *)
LEMMA ServeTypes ==
  ASSUME TrackerTypes, AccountTypes,
         NEW t \in Trackers, NEW r \in Request, NEW c \in Clients, Serve(t, r, c)
  PROVE  TrackerTypes' /\ AccountTypes'
<1>0. r.user \in Users /\ TrackerTypes'
  BY ServeFacts DEF Request
<1>1. CASE serve_create_user(t, r, c)
  BY <1>0, <1>1 DEF serve_create_user, Enter, TrackerTypes, AccountTypes
<1>2. CASE serve_login(t, r, c)
  BY <1>0, <1>2 DEF serve_login, MayLogin, Enter, Leave, TrackerTypes, AccountTypes
<1>3. CASE serve_logout(t, r)
  BY <1>0, <1>3 DEF serve_logout, Leave, TrackerTypes, AccountTypes
<1>4. CASE UNCHANGED <<accounts, loggedin_map, address>>
  BY <1>0, <1>4 DEF AccountTypes
<1> QED BY <1>0, <1>1, <1>2, <1>3, <1>4 DEF Serve

Plus(cx, x, sum) == x + sum

Adding == INSTANCE FiniteInduction WITH Step <- Plus

(* The sum of the numbers f[x] over a finite set. *)
SumOver(f, S) == MapThenSumSet(LAMBDA x : f[x], S)

Sums(g, f, S) == g = [s \in SUBSET S |->
                        IF s = {} THEN 0
                        ELSE f[CHOOSE x \in s : TRUE] + g[s \ {CHOOSE x \in s : TRUE}]]

LEMMA SumUnfolds ==
  ASSUME NEW S, IsFiniteSet(S), NEW f
  PROVE  \E g : SumOver(f, S) = g[S] /\ Sums(g, f, S)
<1> DEFINE pick == [s \in SUBSET S |-> CHOOSE x \in s : TRUE]
<1>1. \A s \in SUBSET S : s # {} => pick[s] \in s
  OBVIOUS
<1>2. \A s \in SUBSET S : pick[s] = CHOOSE x \in s : TRUE
  OBVIOUS
<1> HIDE DEF pick
<1>3. Adding!IsFiniteSet(S)
  BY DEF IsFiniteSet, Adding!IsFiniteSet
<1>4. PICK g : Adding!Folds(g, S, pick, f, 0, 0)
  BY <1>1, <1>3, Adding!FoldExists
<1>5. \A s \in SUBSET S : g[s] = IF s = {} THEN 0 ELSE f[pick[s]] + g[s \ {pick[s]}]
  BY <1>4 DEF Adding!Folds, Plus
<1>6. \A s \in SUBSET S :
        g[s] = IF s = {} THEN 0
               ELSE f[CHOOSE x \in s : TRUE] + g[s \ {CHOOSE x \in s : TRUE}]
  BY <1>2, <1>5
<1>7. g = [s \in SUBSET S |-> g[s]]
  BY <1>4 DEF Adding!Folds
<1>8. Sums(g, f, S)
  BY <1>6, <1>7 DEF Sums
<1>9. Sums(CHOOSE h : Sums(h, f, S), f, S)
  BY <1>8
<1>10. SumOver(f, S) = (CHOOSE h : Sums(h, f, S))[S]
  BY DEF SumOver, Sums, MapThenSumSet, MapThenFoldSet
<1> QED BY <1>9, <1>10

(* The sum of natural numbers is a natural number, and none of them is     *)
(* more than it.                                                           *)
LEMMA SumBounds ==
  ASSUME NEW S, IsFiniteSet(S), NEW f, \A x \in S : f[x] \in Nat
  PROVE  SumOver(f, S) \in Nat /\ \A x \in S : f[x] =< SumOver(f, S)
<1>0. Adding!IsFiniteSet(S)
  BY DEF IsFiniteSet, Adding!IsFiniteSet
<1>1. PICK g : SumOver(f, S) = g[S] /\ Sums(g, f, S)
  BY SumUnfolds
<1>2. g[{}] = 0
  BY <1>1 DEF Sums
<1>3. ASSUME NEW s \in SUBSET S, s # {}
      PROVE  \E x \in s : g[s] = f[x] + g[s \ {x}]
  BY <1>1, <1>3 DEF Sums
<1> DEFINE Good(s) == g[s] \in Nat /\ \A x \in s : f[x] =< g[s]
<1>4. \A s \in SUBSET S : Good(s)
  <2> SUFFICES ASSUME \E s \in SUBSET S : ~Good(s) PROVE FALSE
    OBVIOUS
  <2> DEFINE F == {s \in SUBSET S : ~Good(s)}
  <2>1. F \in SUBSET SUBSET S /\ F # {}
    OBVIOUS
  <2> HIDE DEF F
  <2>2. PICK s \in F : \A U \in F : U \subseteq s => U = s
    BY <1>0, <2>1, Adding!MinimalSet
  <2> USE DEF F
  <2>3. s # {}
    BY <1>2
  <2>4. PICK x \in s : g[s] = f[x] + g[s \ {x}]
    BY <1>3, <2>3
  <2>5. Good(s \ {x})
    BY <2>2
  <2>6. f[x] \in Nat /\ \A y \in s : f[y] \in Nat /\ (y = x \/ y \in s \ {x})
    OBVIOUS
  <2>7. g[s] \in Nat /\ \A y \in s : f[y] =< g[s]
    BY <2>4, <2>5, <2>6
  <2> QED BY <2>7
<1>5. Good(S)
  BY <1>4
<1> QED BY <1>1, <1>5

(* A tracker with a thread to spare is one for which each of its clients   *)
(* has left fewer connections open than it has threads.                    *)
LEMMA SpareThread ==
  ASSUME leftopen \in [Clients -> 0..Threads], NEW c \in Clients, ~Pinned(connection_info[c])
  PROVE  leftopen[c] + 1 \in 0..Threads
<1> DEFINE here == {d \in Clients : connection_info[d] = connection_info[c]}
<1>1. IsFiniteSet(here) /\ c \in here
  BY SessionAssumption, FS_Subset
<1>2. \A d \in here : leftopen[d] \in Nat
  BY SessionAssumption
<1>3. ~ (SumOver(leftopen, here) >= Threads)
  BY DEF Pinned, SumOver, MapThenSumSet, MapThenFoldSet
<1> HIDE DEF here
<1>4. SumOver(leftopen, here) \in Nat /\ leftopen[c] =< SumOver(leftopen, here)
  BY <1>1, <1>2, SumBounds
<1> QED BY <1>1, <1>2, <1>3, <1>4, SessionAssumption

LEMMA TypeInvariantStep ==
  ASSUME TypeInvariant, [Next]_vars
  PROVE  TypeInvariant'
<1> DEFINE Running == \A c \in Clients : connection_info[c] = "off" => call[c] = NoCall
<1> USE DEF TypeInvariant
<1>0. 0 \in 0..Threads /\ "off" \notin Trackers
  BY SessionAssumption
<1>1. ASSUME NEW t \in Trackers, TrackerStop(t) PROVE TypeInvariant'
  <2>1. TrackerTypes' /\ AccountTypes'
    BY <1>1 DEF TrackerStop, Types, TrackerTypes, AccountTypes
  <2>2. \A c \in Clients : call[c] # NoCall => [call[c] EXCEPT !.reply = ""] \in Call
    BY DEF Types, ClientTypes, Call
  <2>3. ClientTypes'
    BY <1>1, <2>2 DEF TrackerStop, Types, ClientTypes
  <2>4. OrphanTypes' /\ leftopen' \in [Clients -> 0..Threads]
    BY <1>0, <1>1 DEF TrackerStop, OrphanTypes
  <2>5. Running'
    BY <1>1 DEF TrackerStop
  <2> QED BY <2>1, <2>3, <2>4, <2>5 DEF Types
<1>2. ASSUME NEW t \in Trackers, TrackerStart(t) PROVE TypeInvariant'
  BY <1>2 DEF TrackerStart, clientVars, Types, TrackerTypes, ClientTypes, AccountTypes, OrphanTypes
<1>3. ASSUME NEW c \in Clients, Handle(c) PROVE TypeInvariant'
  <2>1. /\ call[c] \in Call /\ call[c].request \in Request /\ connection_info[c] \in Trackers
        /\ UNCHANGED <<connection_info, session, leftopen, orphans>>
    BY <1>3 DEF Handle, Call, Types, ClientTypes
  <2>2. TrackerTypes' /\ AccountTypes'
    BY <1>3, <2>1, ServeTypes DEF Handle, Types
  <2>3. PICK b \in {"1", "2"} : call' = [call EXCEPT ![c].reply = b]
    BY <1>3 DEF Handle
  <2>4. [call[c] EXCEPT !.reply = b] \in Call
    BY <2>1 DEF Call
  <2>5. ClientTypes'
    BY <2>1, <2>3, <2>4 DEF Types, ClientTypes
  <2>6. Running'
    BY <1>0, <2>1, <2>3 DEF Types, ClientTypes
  <2> QED BY <2>1, <2>2, <2>5, <2>6 DEF Types, OrphanTypes
<1>4. ASSUME NEW o \in orphans, HandleOrphan(o) PROVE TypeInvariant'
  <2>1. o.tracker \in Trackers /\ o.request \in Request /\ o.client \in Clients
    BY DEF OrphanTypes
  <2>2. TrackerTypes' /\ AccountTypes'
    BY <1>4, <2>1, ServeTypes DEF HandleOrphan, Types
  <2> QED BY <1>4, <2>2 DEF HandleOrphan, clientVars, Types, ClientTypes, OrphanTypes
<1>5. ASSUME NEW c \in Clients, Start(c) PROVE TypeInvariant'
  <2>1. PICK t \in Trackers : connection_info' = [connection_info EXCEPT ![c] = t]
    BY <1>5 DEF Start, Trackers
  <2>2. Running'
    BY <1>0, <1>5, <2>1 DEF Start, Types, ClientTypes
  <2> QED BY <1>5, <2>1, <2>2
          DEF Start, trackerVars, Types, TrackerTypes, ClientTypes, AccountTypes, OrphanTypes
<1>6. ASSUME NEW c \in Clients, Exit(c) PROVE TypeInvariant'
  <2>1. OrphanTypes'
    <3> DEFINE o == [request |-> call[c].request, client |-> c, tracker |-> connection_info[c]]
    <3>1. connection_info[c] \in Trackers /\ (call[c] = NoCall \/ call[c].request \in Request)
      BY <1>6 DEF Exit, Types, ClientTypes, Call
    <3>2. call[c] # NoCall => o \in [request : Request, client : Clients, tracker : Trackers]
      BY <3>1
    <3>3. orphans' = IF call[c] # NoCall /\ call[c].reply = "waiting"
                     THEN orphans \cup {o} ELSE orphans
      BY <1>6 DEF Exit
    <3> HIDE DEF o
    <3> QED BY <3>2, <3>3 DEF OrphanTypes
  <2>2. ClientTypes' /\ leftopen' \in [Clients -> 0..Threads] /\ Running'
    BY <1>0, <1>6 DEF Exit, Types, ClientTypes
  <2> QED BY <1>6, <2>1, <2>2 DEF Exit, trackerVars, Types, TrackerTypes, AccountTypes
<1>7. ASSUME NEW c \in Clients, NEW r \in Request, Send(c, r) PROVE TypeInvariant'
  <2>1. [request |-> r, reply |-> "waiting"] \in Call /\ connection_info[c] \in Trackers
    BY <1>7 DEF Call, Send, Types, TrackerTypes
  <2>2. ClientTypes' /\ Running'
    BY <1>0, <1>7, <2>1 DEF Send, Types, ClientTypes
  <2> QED BY <1>7, <2>2
          DEF Send, trackerVars, Types, TrackerTypes, AccountTypes, OrphanTypes
<1>8. ASSUME NEW c \in Clients, Receive(c) PROVE TypeInvariant'
  <2>1. SessionAfter(c) \in Users \cup {"none"}
    BY <1>8 DEF SessionAfter, Receive, Call, Request, Types, ClientTypes
  <2>2. ClientTypes' /\ Running'
    BY <1>8, <2>1 DEF Receive, Types, ClientTypes
  <2> QED BY <1>8, <2>2
          DEF Receive, trackerVars, Types, TrackerTypes, AccountTypes, OrphanTypes
<1>9. ASSUME NEW c \in Clients, Refuse(c) PROVE TypeInvariant'
  <2>1. leftopen[c] + 1 \in 0..Threads
    BY <1>9, SpareThread DEF Refuse
  <2>2. leftopen' \in [Clients -> 0..Threads]
    BY <1>9, <2>1 DEF Refuse
  <2> QED BY <1>9, <2>2
          DEF Refuse, trackerVars, Types, TrackerTypes, ClientTypes, AccountTypes, OrphanTypes
<1>10. ASSUME NEW c \in Clients, NEW u \in UsersOf[c], NEW right \in BOOLEAN,
              create_user(c, u) \/ login(c, u, right)
       PROVE  TypeInvariant'
  <2>1. u \in Users
    BY SessionAssumption
  <2>2. \A op \in Op, b \in BOOLEAN : [op |-> op, user |-> u, right |-> b] \in Request
    BY <2>1 DEF Request
  <2> QED BY <1>7, <1>10, <2>2 DEF create_user, login, Op
<1>11. ASSUME NEW c \in Clients, logout(c) PROVE TypeInvariant'
  <2>1. [op |-> "logout", user |-> session[c], right |-> TRUE] \in Request
    BY <1>11 DEF logout, Types, ClientTypes, Request, Op
  <2> QED BY <1>7, <1>11, <2>1 DEF logout
<1>12. CASE UNCHANGED vars
  BY <1>12 DEF vars, Types, TrackerTypes, ClientTypes, AccountTypes, OrphanTypes
<1> HIDE DEF TypeInvariant
<1>13. TRUE \in BOOLEAN
  OBVIOUS
<1> QED BY <1>1, <1>2, <1>3, <1>4, <1>5, <1>6, <1>8, <1>9, <1>10, <1>11, <1>12, <1>13 DEF Next

(* Whoever sits down where, the sessions, calls and orphaned requests are  *)
(* well-formed, a tracker has nobody logged in without an account, and the *)
(* silent connections of no client outnumber the threads of a tracker      *)
(* (TypeOK): the last of them that gets in takes the last thread.          *)
THEOREM TypeCorrect == Spec => []TypeOK
<1>1. Init => TypeInvariant
  BY SessionAssumption DEF Init, TypeInvariant, Types, TrackerTypes, ClientTypes, AccountTypes, OrphanTypes
<1>2. TypeInvariant => TypeOK
  BY DEF TypeInvariant, Types, TrackerTypes, ClientTypes, AccountTypes, OrphanTypes, TypeOK
<1>3. TypeInvariant /\ [Next]_vars => TypeInvariant'
  BY TypeInvariantStep
<1> QED BY <1>1, <1>2, <1>3, PTL DEF Spec

=============================================================================
