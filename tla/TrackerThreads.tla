---------------------------- MODULE TrackerThreads ----------------------------
(***************************************************************************)
(* The tracker's commands as its threads run them: no lock protects the    *)
(* registry, so that a handler looks at it first and updates it later, one *)
(* map or set after the other, while other handlers do the same.  Module   *)
(* Tracker has the same commands as atomic steps.                          *)
(*                                                                         *)
(* A handler's look-ups are one step; its updates are steps of their own,  *)
(* which the thread keeps in the sequence todo.  Records of files live in  *)
(* a heap: stop_share deletes them, and a pointer that another handler     *)
(* holds outlives them.  A step that the C++ memory model leaves undefined *)
(* is a choice: using a deleted record does nothing, hits the record that  *)
(* has got its storage, or ends the process; changing a map, or a set in a *)
(* record, that another thread uses may end it, or be lost to a change     *)
(* that the other makes; and a look into one that another thread changes   *)
(* may miss what is there.  A tracker that has ended is started again with *)
(* nothing.                                                                *)
(*                                                                         *)
(* A definition named X_Y is X with the slip Y, and no part of the model.  *)
(* Left out: a map or set that a race leaves in disorder, with an element  *)
(* twice or a size that is not the number of its elements.                 *)
(***************************************************************************)
EXTENDS Maps, Naturals, Sequences

CONSTANTS Users, Groups, Files, Addresses, Passwords,
          AddressesOf,     \* as in Tracker
          Threads,         \* the threads that run handle_connection
          Objects,         \* storage for records of files
          MaxClashes       \* bound: overlaps of two handlers about the same thing

ASSUME ThreadsAssumption == /\ AddressesOf \in [Users -> SUBSET Addresses]
                            /\ MaxClashes \in Nat

VARIABLES reg,             \* the registry, a record of its maps and the heap
          todo,            \* the updates each thread has left to do
          job,             \* what each thread's handler is about
          clashes          \* history: how often two such handlers overlapped

vars == <<reg, todo, job, clashes>>

-----------------------------------------------------------------------------
User == [password : Passwords, address : Addresses,
         groups : SUBSET Groups, mygroups : SUBSET Groups]

Group == [adminid : Users, members : SUBSET Users,
          files : SUBSET Files, requests : SUBSET Users]

FileStr == [filename : Files, userids : SUBSET Users, users : SUBSET Addresses]

(* loggedin is the set of the users whose flag is true: a missing flag and *)
(* a false one are the same to every handler.                              *)
Job == [users : SUBSET Users, files : SUBSET Files, founds : SUBSET Groups]

NoJob == [users |-> {}, files |-> {}, founds |-> {}]

TypeOK == /\ IsMap(reg.usertomap, Users, User)
          /\ IsMap(reg.grouptomap, Groups, Group)
          /\ IsMap(reg.filetomap, Files, Objects)
          /\ IsMap(reg.heap, Objects, FileStr)
          /\ reg.loggedin \subseteq Users
          /\ job \in [Threads -> Job]
          /\ clashes \in 0..MaxClashes
          /\ \A t \in Threads : todo[t] = <<>> <=> job[t] = NoJob

EmptyRegistry == [usertomap |-> EmptyMap, grouptomap |-> EmptyMap,
                  filetomap |-> EmptyMap, heap |-> EmptyMap, loggedin |-> {}]

Init == /\ reg = EmptyRegistry
        /\ todo = [t \in Threads |-> <<>>]
        /\ job = [t \in Threads |-> NoJob]
        /\ clashes = 0

(* The process ends and is started again. *)
Restart == /\ reg' = EmptyRegistry
           /\ todo' = [t \in Threads |-> <<>>]
           /\ job' = [t \in Threads |-> NoJob]
           /\ clashes' = 0

-----------------------------------------------------------------------------
(* What the handlers look at *)

LoggedIn(u) == u \in DOMAIN reg.usertomap /\ u \in reg.loggedin

IsMember(g, u) == g \in DOMAIN reg.grouptomap /\ u \in reg.grouptomap[g].members

(* The file is there, and so is the record its pointer leads to. *)
IsFile(f) == f \in DOMAIN reg.filetomap /\ reg.filetomap[f] \in DOMAIN reg.heap

-----------------------------------------------------------------------------
(* Single updates of the registry r; m says which.  One name for insert,   *)
(* operator[] = and erase of each map and set.                             *)

UpdateAccount(r, m) ==
  CASE m.op = "new_user" -> [r EXCEPT !.usertomap = Insert(@, m.user, m.record)]
    [] m.op = "log_in" -> [r EXCEPT !.loggedin = @ \cup {m.user}]
    [] m.op = "log_out" -> [r EXCEPT !.loggedin = @ \ {m.user}]
    [] m.op = "move" -> [r EXCEPT !.usertomap[m.user].address = m.address]
    [] m.op = "own" -> [r EXCEPT !.usertomap[m.user].groups = @ \cup {m.group},
                                 !.usertomap[m.user].mygroups = @ \cup {m.group}]

(* A new group put in the place of one that is there. *)
FoundGroup_Overwrites(r, m) == [r EXCEPT !.grouptomap = Put(@, m.group, m.record)]

FoundGroup(r, m) == [r EXCEPT !.grouptomap = Insert(@, m.group, m.record)]

UpdateGroup(r, m) ==
  CASE m.op = "new_group" -> FoundGroup(r, m)
    [] m.op = "ask" -> [r EXCEPT !.grouptomap[m.group].requests = @ \cup {m.user}]
    [] m.op = "answer" -> [r EXCEPT !.grouptomap[m.group].requests = @ \ {m.user}]
    [] m.op = "admit" -> [r EXCEPT !.grouptomap[m.group].members = @ \cup {m.user}]
    [] m.op = "leave" -> [r EXCEPT !.grouptomap[m.group].members = @ \ {m.user}]
    [] m.op = "list" -> [r EXCEPT !.grouptomap[m.group].files = @ \cup {m.file}]

(* A second record of one name stays out of the map, and nothing leads to  *)
(* it any more.                                                            *)
NewFile(r, m) == IF m.file \in DOMAIN r.filetomap
                 THEN [r EXCEPT !.heap = Erase(@, m.object)]
                 ELSE [r EXCEPT !.filetomap = Put(@, m.file, m.object)]

(* The updates that go through the pointer to a record. *)
UpdateRecord(r, m) ==
  LET name == r.heap[m.object].filename
  IN  CASE m.op = "share" -> [r EXCEPT !.heap[m.object].userids = @ \cup {m.user}]
        [] m.op = "share_at" ->
             [r EXCEPT !.heap[m.object].users = @ \cup {r.usertomap[m.user].address}]
        [] m.op = "unshare" -> [r EXCEPT !.heap[m.object].userids = @ \ {m.user}]
        [] m.op = "unshare_at" ->
             [r EXCEPT !.heap[m.object].users = @ \ {r.usertomap[m.user].address}]
        [] m.op = "erase_file" -> [r EXCEPT !.filetomap = Erase(@, name)]
        [] m.op = "unlist" -> [r EXCEPT !.grouptomap[m.group].files = @ \ {name}]
        [] m.op = "delete" -> [r EXCEPT !.heap = Erase(@, m.object)]

OnAccount == {"new_user", "log_in", "log_out", "move", "own"}
OnGroup == {"new_group", "ask", "answer", "admit", "leave", "list"}
OnRecord == {"share", "share_at", "unshare", "unshare_at", "size",
             "erase_file", "unlist", "delete"}

Deleted(r, m) == m.op \in OnRecord /\ m.object \notin DOMAIN r.heap

(* The name left in the group's list. *)
Drop_StaysListed(m) == <<[op |-> "erase_file", object |-> m.object],
                         [op |-> "delete", object |-> m.object]>>

(* What follows in stop_share when the last sharer has gone. *)
Drop(m) == <<[op |-> "erase_file", object |-> m.object],
             [op |-> "unlist", object |-> m.object, group |-> m.group],
             [op |-> "delete", object |-> m.object]>>

Update(r, m) == CASE m.op \in OnAccount -> UpdateAccount(r, m)
                  [] m.op \in OnGroup -> UpdateGroup(r, m)
                  [] m.op = "new_file" -> NewFile(r, m)
                  [] m.op \in OnRecord -> UpdateRecord(r, m)

-----------------------------------------------------------------------------
(* The first step of a handler: it looks, and plans its updates. *)

About(users, files, founds) == [users |-> users, files |-> files, founds |-> founds]

Overlap(j, k) == \/ j.users \cap k.users # {}
                 \/ j.files \cap k.files # {}
                 \/ j.founds \cap k.founds # {}

Clash == clashes < MaxClashes /\ clashes' = clashes + 1

Begin(t, about, plan) ==
  /\ todo[t] = <<>>
  /\ todo' = [todo EXCEPT ![t] = plan]
  /\ job' = [job EXCEPT ![t] = about]
  /\ \/ /\ \E s \in Threads : Overlap(job[s], about)
        /\ Clash
     \/ /\ \A s \in Threads : ~Overlap(job[s], about)
        /\ UNCHANGED clashes

ToCreateUser(u, p, a) ==
  <<[op |-> "new_user", user |-> u,
     record |-> [password |-> p, address |-> a, groups |-> {}, mygroups |-> {}]],
    [op |-> "log_in", user |-> u]>>

create_user(t, u, p, a) ==
  /\ u \notin DOMAIN reg.usertomap
  /\ Begin(t, About({u}, {}, {}), ToCreateUser(u, p, a))
  /\ UNCHANGED reg

login(t, u, p, a) ==
  /\ u \in DOMAIN reg.usertomap
  /\ Begin(t, About({u}, {}, {}),
           IF p = reg.usertomap[u].password
           THEN <<[op |-> "log_in", user |-> u], [op |-> "move", user |-> u, address |-> a]>>
           ELSE <<[op |-> "log_out", user |-> u]>>)
  /\ UNCHANGED reg

logout(t, u) ==
  /\ u \in reg.loggedin
  /\ Begin(t, About({u}, {}, {}), <<[op |-> "log_out", user |-> u]>>)
  /\ UNCHANGED reg

ToCreateGroup(g, u) ==
  <<[op |-> "new_group", group |-> g,
     record |-> [adminid |-> u, members |-> {u}, files |-> {}, requests |-> {}]],
    [op |-> "own", user |-> u, group |-> g]>>

create_group(t, g, u) ==
  /\ LoggedIn(u)
  /\ g \notin DOMAIN reg.grouptomap
  /\ Begin(t, About({u}, {}, {g}), ToCreateGroup(g, u))
  /\ UNCHANGED reg

(* join_group for whoever says so. *)
MayJoin_Anybody(g, u) == g \in DOMAIN reg.grouptomap /\ ~IsMember(g, u)

MayJoin(g, u) == LoggedIn(u) /\ g \in DOMAIN reg.grouptomap /\ ~IsMember(g, u)

ToJoin(g, u) == <<[op |-> "ask", group |-> g, user |-> u]>>

join_group(t, g, u) ==
  /\ MayJoin(g, u)
  /\ Begin(t, About({u}, {}, {}), ToJoin(g, u))
  /\ UNCHANGED reg

leave_group(t, g, u) ==
  /\ LoggedIn(u)
  /\ IsMember(g, u)
  /\ reg.grouptomap[g].adminid # u
  /\ Begin(t, About({u}, {}, {}), <<[op |-> "leave", group |-> g, user |-> u]>>)
  /\ UNCHANGED reg

accept_request(t, g, u, admin) ==
  /\ u \in DOMAIN reg.usertomap
  /\ LoggedIn(admin)
  /\ g \in DOMAIN reg.grouptomap
  /\ u \in reg.grouptomap[g].requests
  /\ reg.grouptomap[g].adminid = admin
  /\ Begin(t, About({u, admin}, {}, {}),
           <<[op |-> "answer", group |-> g, user |-> u],
             [op |-> "admit", group |-> g, user |-> u]>>)
  /\ UNCHANGED reg

WithRecord(o, f, u) ==
  [reg EXCEPT !.heap = Put(@, o, [filename |-> f, userids |-> {u},
                                  users |-> {reg.usertomap[u].address}])]

ToUpload(f, g, o) == <<[op |-> "new_file", file |-> f, object |-> o],
                       [op |-> "list", group |-> g, file |-> f]>>

upload_file(t, f, g, u) ==
  /\ LoggedIn(u)
  /\ IsMember(g, u)
  /\ \/ /\ IsFile(f)
        /\ LET o == reg.filetomap[f]
           IN  Begin(t, About({u}, {f}, {}),
                     <<[op |-> "share", object |-> o, user |-> u],
                       [op |-> "share_at", object |-> o, user |-> u]>>)
        /\ UNCHANGED reg
     \/ /\ f \notin DOMAIN reg.filetomap
        /\ \E o \in Objects \ DOMAIN reg.heap :
             /\ reg' = WithRecord(o, f, u)
             /\ Begin(t, About({u}, {f}, {}), ToUpload(f, g, o))

stop_share(t, g, f, u) ==
  /\ LoggedIn(u)
  /\ IsMember(g, u)
  /\ IsFile(f)
  /\ f \in reg.grouptomap[g].files
  /\ LET o == reg.filetomap[f]
     IN  /\ u \in reg.heap[o].userids
         /\ Begin(t, About({u}, {f}, {}),
                  <<[op |-> "unshare", object |-> o, user |-> u],
                    [op |-> "unshare_at", object |-> o, user |-> u],
                    [op |-> "size", object |-> o, group |-> g]>>)
  /\ UNCHANGED reg

-----------------------------------------------------------------------------
(* The further steps *)

(* The thread that is through with a handler keeps its job. *)
Continue_JobStays(t, rest) == todo' = [todo EXCEPT ![t] = rest] /\ UNCHANGED job

Continue(t, rest) == /\ todo' = [todo EXCEPT ![t] = rest]
                     /\ job' = IF rest = <<>> THEN [job EXCEPT ![t] = NoJob] ELSE job

Step(t) ==
  /\ todo[t] # <<>>
  /\ LET m == Head(todo[t])
     IN  /\ ~Deleted(reg, m)
         /\ \/ /\ m.op = "size"
               /\ Continue(t, IF reg.heap[m.object].userids = {} THEN Drop(m) ELSE <<>>)
               /\ UNCHANGED reg
            \/ /\ m.op # "size"
               /\ reg' = Update(reg, m)
               /\ Continue(t, Tail(todo[t]))
  /\ UNCHANGED clashes

(* The use of a deleted record whose storage nobody has got since. *)
UseAfterFree(t) ==
  /\ todo[t] # <<>>
  /\ Deleted(reg, Head(todo[t]))
  /\ \/ Restart
     \/ Continue(t, Tail(todo[t])) /\ UNCHANGED <<reg, clashes>>

(* A pointer in filetomap to a deleted record, followed. *)
FollowDangling == (\E f \in DOMAIN reg.filetomap : ~IsFile(f)) /\ Restart

-----------------------------------------------------------------------------
(* Races on the maps, and on the sets in the records. *)

(* The map or set that an update looks into and changes. *)
Container(m) ==
  CASE m.op = "new_user" -> <<"usertomap">>
    [] m.op \in {"log_in", "log_out"} -> <<"loggedin_map">>
    [] m.op = "new_group" -> <<"grouptomap">>
    [] m.op \in {"new_file", "erase_file"} -> <<"filetomap">>
    [] m.op = "own" -> <<"mygroups", m.user>>
    [] m.op \in {"ask", "answer"} -> <<"requests", m.group>>
    [] m.op \in {"admit", "leave"} -> <<"members", m.group>>
    [] m.op \in {"list", "unlist"} -> <<"files", m.group>>
    [] m.op \in {"share", "unshare", "size"} -> <<"userids", m.object>>
    [] m.op \in {"share_at", "unshare_at"} -> <<"users", m.object>>
    [] OTHER -> <<>>

(* Another thread than t is changing c. *)
Changing(t, c) == \E s \in Threads \ {t} : todo[s] # <<>> /\ Container(Head(todo[s])) = c

(* An update while another thread looks into the same map or set, or       *)
(* changes it as well: the update may be lost, or a size be wrong.         *)
DataRace(t) ==
  /\ todo[t] # <<>>
  /\ LET m == Head(todo[t])
     IN  /\ Container(m) # <<>>
         /\ \/ m.op # "size" /\ Threads # {t} /\ Restart
            \/ /\ Changing(t, Container(m))
               /\ \/ Continue(t, Tail(todo[t]))
                  \/ m.op = "size" /\ Continue(t, Drop(m))
               /\ Clash
               /\ UNCHANGED reg

BeginBlind(t, about, plan) == /\ todo[t] = <<>>
                              /\ todo' = [todo EXCEPT ![t] = plan]
                              /\ job' = [job EXCEPT ![t] = about]
                              /\ Clash

(* A handler goes on where it would have stopped, for it misses the user,  *)
(* the group, the member or the file.                                      *)
MissedLook(t) ==
  \/ /\ Changing(t, <<"usertomap">>)
     /\ \E u \in DOMAIN reg.usertomap, p \in Passwords : \E a \in AddressesOf[u] :
          BeginBlind(t, About({u}, {}, {}), ToCreateUser(u, p, a))
     /\ UNCHANGED reg
  \/ /\ Changing(t, <<"grouptomap">>)
     /\ \E g \in DOMAIN reg.grouptomap, u \in Users :
          LoggedIn(u) /\ BeginBlind(t, About({u}, {}, {g}), ToCreateGroup(g, u))
     /\ UNCHANGED reg
  \/ /\ \E g \in DOMAIN reg.grouptomap : \E u \in reg.grouptomap[g].members :
          /\ LoggedIn(u)
          /\ Changing(t, <<"members", g>>)
          /\ BeginBlind(t, About({u}, {}, {}), ToJoin(g, u))
     /\ UNCHANGED reg
  \/ /\ Changing(t, <<"filetomap">>)
     /\ \E f \in DOMAIN reg.filetomap, g \in DOMAIN reg.grouptomap, o \in Objects \ DOMAIN reg.heap :
          \E u \in reg.grouptomap[g].members :
            /\ LoggedIn(u)
            /\ reg' = WithRecord(o, f, u)
            /\ BeginBlind(t, About({u}, {f}, {}), ToUpload(f, g, o))

Next ==
  \/ \E t \in Threads :
       \/ \E u \in Users, p \in Passwords : \E a \in AddressesOf[u] :
            create_user(t, u, p, a) \/ login(t, u, p, a)
       \/ \E u \in Users : logout(t, u)
       \/ \E g \in Groups, u \in Users :
            create_group(t, g, u) \/ join_group(t, g, u) \/ leave_group(t, g, u)
       \/ \E g \in Groups, u \in Users, admin \in Users : accept_request(t, g, u, admin)
       \/ \E f \in Files, g \in Groups, u \in Users :
            upload_file(t, f, g, u) \/ stop_share(t, g, f, u)
       \/ Step(t) \/ UseAfterFree(t) \/ DataRace(t) \/ MissedLook(t)
  \/ FollowDangling

Spec == Init /\ [][Next]_vars

-----------------------------------------------------------------------------
(* The registry once every handler has done what it has to do: what is in  *)
(* the registry r, and what the updates P that are due add and take away.  *)

Left(t) == {todo[t][i] : i \in DOMAIN todo[t]}

Pending == UNION {Left(t) : t \in Threads}

Due(P, op) == {m \in P : m.op = op}

OneOf(updates) == CHOOSE m \in updates : TRUE

(* The users, in due updates of record o or of group g. *)
Whose(P, op) == {m.user : m \in Due(P, op)}
WhoseOf(P, op, o) == {m.user : m \in {n \in Due(P, op) : n.object = o}}
WhoseIn(P, op, g) == {m.user : m \in {n \in Due(P, op) : n.group = g}}

(* What an account, and a group, becomes that is there or is to come. *)
AccountAfter(r, P, u) ==
  LET moves == {m \in Due(P, "move") : m.user = u}
      owns == {m.group : m \in {n \in Due(P, "own") : n.user = u}}
      now == r.usertomap[u]
  IN  IF u \notin DOMAIN r.usertomap THEN OneOf({m \in Due(P, "new_user") : m.user = u}).record
      ELSE [password |-> now.password,
            address |-> IF moves = {} THEN now.address ELSE OneOf(moves).address,
            groups |-> now.groups \cup owns,
            mygroups |-> now.mygroups \cup owns]

UsersAfter(r, P) == [u \in DOMAIN r.usertomap \cup Whose(P, "new_user") |-> AccountAfter(r, P, u)]

FlagsAfter(r, P) == [u \in DOMAIN r.usertomap \cup Whose(P, "new_user") |->
                       u \in (r.loggedin \cup Whose(P, "log_in")) \ Whose(P, "log_out")]

(* What a record becomes; the last user to leave it takes it away. *)
SharersAfter(r, P, o) == (r.heap[o].userids \cup WhoseOf(P, "share", o)) \ WhoseOf(P, "unshare", o)

AddressesNow(r, users) == {r.usertomap[u].address : u \in users}

AddressesAfter(r, P, o) == (r.heap[o].users \cup AddressesNow(r, WhoseOf(P, "share_at", o)))
                             \ AddressesNow(r, WhoseOf(P, "unshare_at", o))

LastLeaves(r, P) == {m \in Due(P, "size") : SharersAfter(r, P, m.object) = {}}

Erased(r, P) == {m.object : m \in Due(P, "erase_file") \cup LastLeaves(r, P)}

Unlisted(r, P, g) == {r.heap[m.object].filename :
                        m \in {n \in Due(P, "unlist") \cup LastLeaves(r, P) : n.group = g}}

GroupAfter(r, P, g) ==
  LET now == r.grouptomap[g]
      listed == {m.file : m \in {n \in Due(P, "list") : n.group = g}}
  IN  IF g \notin DOMAIN r.grouptomap THEN OneOf({m \in Due(P, "new_group") : m.group = g}).record
      ELSE [adminid |-> now.adminid,
            members |-> (now.members \cup WhoseIn(P, "admit", g)) \ WhoseIn(P, "leave", g),
            files |-> (now.files \cup listed) \ Unlisted(r, P, g),
            requests |-> (now.requests \cup WhoseIn(P, "ask", g)) \ WhoseIn(P, "answer", g)]

GroupsAfter(r, P) == [g \in DOMAIN r.grouptomap \cup {m.group : m \in Due(P, "new_group")} |->
                        GroupAfter(r, P, g)]

ObjectAfter(r, P, f) == IF f \in DOMAIN r.filetomap THEN r.filetomap[f]
                        ELSE OneOf({m \in Due(P, "new_file") : m.file = f}).object

FilesAfter(r, P) ==
  [f \in {x \in DOMAIN r.filetomap \cup {m.file : m \in Due(P, "new_file")} :
             ObjectAfter(r, P, x) \in DOMAIN r.heap \ Erased(r, P)} |->
     [userids |-> SharersAfter(r, P, ObjectAfter(r, P, f)),
      users |-> AddressesAfter(r, P, ObjectAfter(r, P, f))]]

usersBar == UsersAfter(reg, Pending)
flagsBar == FlagsAfter(reg, Pending)
groupsBar == GroupsAfter(reg, Pending)
filesBar == FilesAfter(reg, Pending)

Registry == INSTANCE Tracker WITH
  usertomap <- usersBar, loggedin_map <- flagsBar, grouptomap <- groupsBar, filetomap <- filesBar

(* Handlers that overlap are commands done one after the other, as long as *)
(* no two of them are about one user, about one file or found one group,   *)
(* and no race on a map or set has come true (DataRace, MissedLook): so    *)
(* far each step is a command of Tracker, or part of one.  Handlers of     *)
(* different users may well race: two join_group of one group both insert  *)
(* into its requests.                                                      *)
CommandsApartAreAtomic ==
  [][clashes' > 0 \/ Restart \/ UNCHANGED <<usersBar, flagsBar, groupsBar, filesBar>> \/ Registry!Next]_vars

(* However handlers interleave, a user id in a group or on a file is that  *)
(* of an account: accounts are never erased, and a handler that lets a     *)
(* user in has seen its account.                                           *)
OnlyAccountsInvolved ==
  /\ \A g \in DOMAIN reg.grouptomap :
       reg.grouptomap[g].members \cup reg.grouptomap[g].requests \subseteq DOMAIN reg.usertomap
  /\ \A o \in DOMAIN reg.heap : reg.heap[o].userids \subseteq DOMAIN reg.usertomap

(* However handlers interleave, a group that is there keeps its admin: of  *)
(* two create_group of one id the insertion that comes second is ignored.  *)
FounderStays ==
  [][\/ Restart
     \/ \A g \in DOMAIN reg.grouptomap :
          /\ g \in DOMAIN reg'.grouptomap
          /\ reg'.grouptomap[g].adminid = reg.grouptomap[g].adminid]_vars

(* A group id is unique: no two users each have a group of one id as their *)
(* own, told by create_group that it was created.                          *)
GroupIdsAreUnique ==
  \A u, v \in DOMAIN reg.usertomap :
    u # v => reg.usertomap[u].mygroups \cap reg.usertomap[v].mygroups = {}
=============================================================================
