-------------------------- MODULE TrackerThreadsProofs --------------------------
(* Proofs about module TrackerThreads, for any users, groups and files, any *)
(* number of threads and of records, and any bound on the clashes.          *)
EXTENDS TrackerThreads, TLAPS

-----------------------------------------------------------------------------
(* What a handler may have left to do. *)
Task == [op : {"new_user"}, user : Users, record : User]
        \cup [op : {"log_in", "log_out"}, user : Users]
        \cup [op : {"move"}, user : Users, address : Addresses]
        \cup [op : {"own"}, user : Users, group : Groups]
        \cup [op : {"new_group"}, group : Groups, record : Group]
        \cup [op : {"ask", "answer", "admit", "leave"}, group : Groups, user : Users]
        \cup [op : {"list"}, group : Groups, file : Files]
        \cup [op : {"new_file"}, file : Files, object : Objects]
        \cup [op : {"share", "share_at", "unshare", "unshare_at"}, object : Objects, user : Users]
        \cup [op : {"erase_file", "delete"}, object : Objects]
        \cup [op : {"unlist", "size"}, object : Objects, group : Groups]

(* The registry is a record of maps. *)
Maplike(r) == /\ DOMAIN r = {"usertomap", "grouptomap", "filetomap", "heap", "loggedin"}
              /\ r = [usertomap |-> r.usertomap, grouptomap |-> r.grouptomap,
                      filetomap |-> r.filetomap, heap |-> r.heap, loggedin |-> r.loggedin]
              /\ IsMap(r.usertomap, Users, User)
              /\ IsMap(r.grouptomap, Groups, Group)
              /\ IsMap(r.filetomap, Files, Objects)
              /\ IsMap(r.heap, Objects, FileStr)
              /\ r.loggedin \subseteq Users

(* The accounts that a task takes to be there.                             *)
Relies(m) == CASE m.op \in {"move", "own", "ask", "answer", "admit", "leave", "share",
                            "share_at", "unshare", "unshare_at"} -> {m.user}
               [] m.op = "new_group" -> m.record.members \cup m.record.requests
               [] OTHER -> {}

(* Only accounts are in the registry r. *)
Accounted(r) ==
  /\ \A g \in DOMAIN r.grouptomap :
       r.grouptomap[g].members \cup r.grouptomap[g].requests \subseteq DOMAIN r.usertomap
  /\ \A o \in DOMAIN r.heap : r.heap[o].userids \subseteq DOMAIN r.usertomap

(* A plan can be carried out in the registry r. *)
Sensible(plan, r) == /\ plan \in Seq(Task)
                     /\ \A i \in 1..Len(plan) : Relies(plan[i]) \subseteq DOMAIN r.usertomap

JobsKept == /\ job \in [Threads -> Job]
            /\ clashes \in 0..MaxClashes
            /\ DOMAIN todo = Threads
            /\ \A t \in Threads : todo[t] = <<>> <=> job[t] = NoJob

ThreadsInvariant == /\ Maplike(reg) /\ Accounted(reg)
                    /\ todo \in [Threads -> Seq(Task)]
                    /\ \A t \in Threads : Sensible(todo[t], reg)
                    /\ JobsKept

(* What the steps of the handlers do to the registry: r becomes s.          *)
Grows(r, s) == /\ DOMAIN r.usertomap \subseteq DOMAIN s.usertomap
               /\ \A g \in DOMAIN r.grouptomap :
                    g \in DOMAIN s.grouptomap /\ s.grouptomap[g].adminid = r.grouptomap[g].adminid

Advances(r, s) == Maplike(s) /\ Accounted(s) /\ Grows(r, s)

-----------------------------------------------------------------------------
(* The parts of a task. *)
LEMMA TaskParts ==
  ASSUME NEW m \in Task
  PROVE  /\ m.op \in OnAccount \cup OnGroup \cup OnRecord \cup {"new_file"}
         /\ m.op \in OnAccount \ {"new_user"} => m.user \in Users
         /\ m.op \in {"ask", "answer", "admit", "leave"} => m.user \in Users /\ m.group \in Groups
         /\ m.op = "new_user" => m.user \in Users /\ m.record \in User
         /\ m.op = "move" => m.address \in Addresses
         /\ m.op \in {"own", "list", "new_group", "unlist", "size"} => m.group \in Groups
         /\ m.op = "new_group" => m.record \in Group
         /\ m.op \in {"list", "new_file"} => m.file \in Files
         /\ m.op \in {"new_file"} \cup OnRecord => m.object \in Objects
         /\ m.op \in {"share", "share_at", "unshare", "unshare_at"} => m.user \in Users
  BY DEF Task, OnAccount, OnGroup, OnRecord

LEMMA SameRegistry ==
  ASSUME NEW r, Maplike(r), Accounted(r)
  PROVE  Advances(r, r)
  BY DEF Advances, Grows

(* One account, group or record that is there is changed. *)
LEMMA EditAccount ==
  ASSUME NEW r, Maplike(r), Accounted(r), NEW u \in DOMAIN r.usertomap, NEW v \in User
  PROVE  Advances(r, [r EXCEPT !.usertomap = [r.usertomap EXCEPT ![u] = v]])
<1> DEFINE s == [r EXCEPT !.usertomap = [r.usertomap EXCEPT ![u] = v]]
<1>1. /\ s = [usertomap |-> [r.usertomap EXCEPT ![u] = v], grouptomap |-> r.grouptomap,
              filetomap |-> r.filetomap, heap |-> r.heap, loggedin |-> r.loggedin]
  BY DEF Maplike
<1>2. /\ s.usertomap = [r.usertomap EXCEPT ![u] = v] /\ s.grouptomap = r.grouptomap
      /\ s.filetomap = r.filetomap /\ s.heap = r.heap /\ s.loggedin = r.loggedin
  BY <1>1
<1>3. IsMap(s.usertomap, Users, User) /\ DOMAIN s.usertomap = DOMAIN r.usertomap
  BY <1>2 DEF Maplike, IsMap
<1>4. Maplike(s)
  BY <1>1, <1>2, <1>3 DEF Maplike
<1>5. Accounted(s) /\ Grows(r, s)
  BY <1>2, <1>3 DEF Accounted, Grows
<1> QED BY <1>4, <1>5 DEF Advances

LEMMA EditGroup ==
  ASSUME NEW r, Maplike(r), Accounted(r), NEW g \in DOMAIN r.grouptomap, NEW v \in Group,
         v.adminid = r.grouptomap[g].adminid,
         v.members \cup v.requests \subseteq DOMAIN r.usertomap
  PROVE  Advances(r, [r EXCEPT !.grouptomap = [r.grouptomap EXCEPT ![g] = v]])
<1> DEFINE s == [r EXCEPT !.grouptomap = [r.grouptomap EXCEPT ![g] = v]]
<1>1. s = [usertomap |-> r.usertomap, grouptomap |-> [r.grouptomap EXCEPT ![g] = v],
              filetomap |-> r.filetomap, heap |-> r.heap, loggedin |-> r.loggedin]
  BY DEF Maplike
<1>2. /\ s.usertomap = r.usertomap /\ s.grouptomap = [r.grouptomap EXCEPT ![g] = v]
      /\ s.filetomap = r.filetomap /\ s.heap = r.heap /\ s.loggedin = r.loggedin
  BY <1>1
<1>3. IsMap(s.grouptomap, Groups, Group) /\ DOMAIN s.grouptomap = DOMAIN r.grouptomap
  BY <1>2 DEF Maplike, IsMap
<1>4. Maplike(s)
  BY <1>1, <1>2, <1>3 DEF Maplike
<1>5. Accounted(s) /\ Grows(r, s)
  BY <1>2, <1>3 DEF Accounted, Grows
<1> QED BY <1>4, <1>5 DEF Advances

LEMMA EditRecord ==
  ASSUME NEW r, Maplike(r), Accounted(r), NEW o \in DOMAIN r.heap, NEW v \in FileStr,
         v.userids \subseteq DOMAIN r.usertomap
  PROVE  Advances(r, [r EXCEPT !.heap = [r.heap EXCEPT ![o] = v]])
<1> DEFINE s == [r EXCEPT !.heap = [r.heap EXCEPT ![o] = v]]
<1>1. s = [usertomap |-> r.usertomap, grouptomap |-> r.grouptomap,
              filetomap |-> r.filetomap, heap |-> [r.heap EXCEPT ![o] = v], loggedin |-> r.loggedin]
  BY DEF Maplike
<1>2. /\ s.usertomap = r.usertomap /\ s.grouptomap = r.grouptomap
      /\ s.filetomap = r.filetomap /\ s.heap = [r.heap EXCEPT ![o] = v] /\ s.loggedin = r.loggedin
  BY <1>1
<1>3. IsMap(s.heap, Objects, FileStr) /\ DOMAIN s.heap = DOMAIN r.heap
  BY <1>2 DEF Maplike, IsMap
<1>4. Maplike(s)
  BY <1>1, <1>2, <1>3 DEF Maplike
<1>5. Accounted(s) /\ Grows(r, s)
  BY <1>2, <1>3 DEF Accounted, Grows
<1> QED BY <1>4, <1>5 DEF Advances

(* An account or a group that is not there is inserted. *)
LEMMA InsertAccount ==
  ASSUME NEW r, Maplike(r), Accounted(r), NEW u \in Users, NEW v \in User
  PROVE  Advances(r, [r EXCEPT !.usertomap = Insert(@, u, v)])
<1> DEFINE users == Insert(r.usertomap, u, v)
           s == [usertomap |-> users, grouptomap |-> r.grouptomap,
                 filetomap |-> r.filetomap, heap |-> r.heap, loggedin |-> r.loggedin]
<1>1. [r EXCEPT !.usertomap = Insert(@, u, v)] = s
  BY DEF Maplike
<1>2. IsMap(users, Users, User) /\ DOMAIN r.usertomap \subseteq DOMAIN users
  BY DEF Maplike, IsMap, Insert, Put
<1> HIDE DEF users
<1>3. Maplike(s)
  BY <1>2 DEF Maplike
<1>4. Accounted(s) /\ Grows(r, s)
  BY <1>2 DEF Accounted, Grows
<1> QED BY <1>1, <1>3, <1>4 DEF Advances

LEMMA InsertGroup ==
  ASSUME NEW r, Maplike(r), Accounted(r), NEW g \in Groups, NEW v \in Group,
         v.members \cup v.requests \subseteq DOMAIN r.usertomap
  PROVE  Advances(r, [r EXCEPT !.grouptomap = Insert(@, g, v)])
<1> DEFINE groups == Insert(r.grouptomap, g, v)
           s == [usertomap |-> r.usertomap, grouptomap |-> groups,
                 filetomap |-> r.filetomap, heap |-> r.heap, loggedin |-> r.loggedin]
<1>1. [r EXCEPT !.grouptomap = Insert(@, g, v)] = s
  BY DEF Maplike
<1>2. /\ IsMap(groups, Groups, Group)
      /\ \A x \in DOMAIN r.grouptomap : x \in DOMAIN groups /\ groups[x] = r.grouptomap[x]
      /\ \A x \in DOMAIN groups : x \in DOMAIN r.grouptomap \/ groups[x] = v
  BY DEF Maplike, IsMap, Insert, Put
<1> HIDE DEF groups
<1>3. Maplike(s)
  BY <1>2 DEF Maplike
<1>4. Grows(r, s)
  BY <1>2 DEF Grows
<1>5. Accounted(s)
  BY <1>2 DEF Accounted
<1> QED BY <1>1, <1>3, <1>4, <1>5 DEF Advances

(* The login flags and the map of the files may become any of their type;  *)
(* the heap loses records or gets one that is accounted for.               *)
LEMMA ChangeLogins ==
  ASSUME NEW r, Maplike(r), Accounted(r), NEW v \in SUBSET Users
  PROVE  Advances(r, [r EXCEPT !.loggedin = v])
<1> DEFINE s == [usertomap |-> r.usertomap, grouptomap |-> r.grouptomap,
                 filetomap |-> r.filetomap, heap |-> r.heap, loggedin |-> v]
<1>1. [r EXCEPT !.loggedin = v] = s
  BY DEF Maplike
<1>2. Maplike(s)
  BY DEF Maplike
<1>3. Accounted(s) /\ Grows(r, s)
  BY DEF Accounted, Grows
<1> QED BY <1>1, <1>2, <1>3 DEF Advances

LEMMA ChangeFiles ==
  ASSUME NEW r, Maplike(r), Accounted(r), NEW v, IsMap(v, Files, Objects)
  PROVE  Advances(r, [r EXCEPT !.filetomap = v])
<1> DEFINE s == [usertomap |-> r.usertomap, grouptomap |-> r.grouptomap,
                 filetomap |-> v, heap |-> r.heap, loggedin |-> r.loggedin]
<1>1. [r EXCEPT !.filetomap = v] = s
  BY DEF Maplike
<1>2. Maplike(s)
  BY DEF Maplike
<1>3. Accounted(s) /\ Grows(r, s)
  BY DEF Accounted, Grows
<1> QED BY <1>1, <1>2, <1>3 DEF Advances

LEMMA ChangeHeap ==
  ASSUME NEW r, Maplike(r), Accounted(r), NEW v, IsMap(v, Objects, FileStr),
         \A o \in DOMAIN v : v[o].userids \subseteq DOMAIN r.usertomap
  PROVE  Advances(r, [r EXCEPT !.heap = v])
<1> DEFINE s == [usertomap |-> r.usertomap, grouptomap |-> r.grouptomap,
                 filetomap |-> r.filetomap, heap |-> v, loggedin |-> r.loggedin]
<1>1. [r EXCEPT !.heap = v] = s
  BY DEF Maplike
<1>2. Maplike(s)
  BY DEF Maplike
<1>3. Accounted(s) /\ Grows(r, s)
  BY DEF Accounted, Grows
<1> QED BY <1>1, <1>2, <1>3 DEF Advances

-----------------------------------------------------------------------------
(* Every update that finds the accounts it relies on advances the registry. *)
LEMMA AccountUpdated ==
  ASSUME NEW r, Maplike(r), Accounted(r), NEW m \in Task,
         Relies(m) \subseteq DOMAIN r.usertomap, m.op \in OnAccount
  PROVE  Advances(r, UpdateAccount(r, m))
<1>0. \A u \in DOMAIN r.usertomap : r.usertomap[u] \in User
  BY DEF Maplike, IsMap
<1>1. CASE m.op = "new_user"
  <2>1. m.user \in Users /\ m.record \in User
    BY <1>1, TaskParts
  <2> QED BY <1>1, <2>1, InsertAccount DEF UpdateAccount
<1>2. CASE m.op = "log_in"
  <2>1. m.user \in Users
    BY <1>2, TaskParts DEF OnAccount
  <2>2. r.loggedin \cup {m.user} \in SUBSET Users /\ r.loggedin \in SUBSET Users
    BY <2>1 DEF Maplike
  <2>3. Advances(r, [r EXCEPT !.loggedin = r.loggedin \cup {m.user}])
    BY <2>2, ChangeLogins
  <2>4. UpdateAccount(r, m) = [r EXCEPT !.loggedin = r.loggedin \cup {m.user}]
    BY <1>2 DEF UpdateAccount
  <2> QED BY <2>3, <2>4
<1>3. CASE m.op = "log_out"
  <2>2. r.loggedin \ {m.user} \in SUBSET Users
    BY DEF Maplike
  <2>3. Advances(r, [r EXCEPT !.loggedin = r.loggedin \ {m.user}])
    BY <2>2, ChangeLogins
  <2>4. UpdateAccount(r, m) = [r EXCEPT !.loggedin = r.loggedin \ {m.user}]
    BY <1>3 DEF UpdateAccount
  <2> QED BY <2>3, <2>4
<1>4. CASE m.op = "move"
  <2> DEFINE v == [r.usertomap[m.user] EXCEPT !.address = m.address]
  <2>1. m.user \in DOMAIN r.usertomap /\ m.address \in Addresses
    BY <1>4, TaskParts DEF Relies
  <2>2. v \in User
    BY <2>1, <1>0 DEF User
  <2>3. UpdateAccount(r, m) = [r EXCEPT !.usertomap = [r.usertomap EXCEPT ![m.user] = v]]
    BY <1>4, <2>1 DEF UpdateAccount, Maplike
  <2> HIDE DEF v
  <2> QED BY <2>1, <2>2, <2>3, EditAccount
<1>5. CASE m.op = "own"
  <2> DEFINE v == [r.usertomap[m.user] EXCEPT !.groups = @ \cup {m.group},
                                              !.mygroups = @ \cup {m.group}]
  <2>1. m.user \in DOMAIN r.usertomap /\ m.group \in Groups
    BY <1>5, TaskParts DEF Relies
  <2>2. v \in User
    BY <2>1, <1>0 DEF User
  <2>3. UpdateAccount(r, m) = [r EXCEPT !.usertomap = [r.usertomap EXCEPT ![m.user] = v]]
    BY <1>5, <2>1 DEF UpdateAccount, Maplike
  <2> HIDE DEF v
  <2> QED BY <2>1, <2>2, <2>3, EditAccount
<1> QED BY <1>1, <1>2, <1>3, <1>4, <1>5 DEF OnAccount

LEMMA GroupUpdated ==
  ASSUME NEW r, Maplike(r), Accounted(r), NEW m \in Task,
         Relies(m) \subseteq DOMAIN r.usertomap, m.op \in OnGroup
  PROVE  Advances(r, UpdateGroup(r, m))
<1>0. \A g \in DOMAIN r.grouptomap : r.grouptomap[g] \in Group
  BY DEF Maplike, IsMap
<1>1. CASE m.op = "new_group"
  <2>1. m.group \in Groups /\ m.record \in Group
    BY <1>1, TaskParts
  <2>2. m.record.members \cup m.record.requests \subseteq DOMAIN r.usertomap
    BY <1>1 DEF Relies
  <2>3. UpdateGroup(r, m) = [r EXCEPT !.grouptomap = Insert(@, m.group, m.record)]
    BY <1>1 DEF UpdateGroup, FoundGroup
  <2> QED BY <2>1, <2>2, <2>3, InsertGroup
(* Nothing happens to a group that is not there. *)
<1>2. CASE m.op \in OnGroup \ {"new_group"} /\ m.group \notin DOMAIN r.grouptomap
  <2>1. UpdateGroup(r, m) = r
    BY <1>2 DEF UpdateGroup, OnGroup, Maplike, IsMap
  <2> QED BY <2>1, SameRegistry
<1>3. ASSUME m.group \in DOMAIN r.grouptomap,
             NEW v \in Group, v.adminid = r.grouptomap[m.group].adminid,
             v.members \cup v.requests \subseteq DOMAIN r.usertomap,
             UpdateGroup(r, m) = [r EXCEPT !.grouptomap = [r.grouptomap EXCEPT ![m.group] = v]]
      PROVE  Advances(r, UpdateGroup(r, m))
  BY <1>3, EditGroup
<1> DEFINE G == r.grouptomap[m.group]
<1>4. m.group \in DOMAIN r.grouptomap =>
        G \in Group /\ G.members \cup G.requests \subseteq DOMAIN r.usertomap
  BY <1>0 DEF Accounted
<1>5. m.op \in {"ask", "answer", "admit", "leave"} =>
        m.user \in Users /\ m.user \in DOMAIN r.usertomap
  BY TaskParts DEF Relies
<1>6. CASE m.op = "ask" /\ m.group \in DOMAIN r.grouptomap
  <2> DEFINE v == [G EXCEPT !.requests = @ \cup {m.user}]
  <2>1. v \in Group /\ v.adminid = G.adminid
    BY <1>4, <1>5, <1>6 DEF Group
  <2>2. v.members \cup v.requests \subseteq DOMAIN r.usertomap
    BY <1>4, <1>5, <1>6 DEF Group
  <2>3. UpdateGroup(r, m) = [r EXCEPT !.grouptomap = [r.grouptomap EXCEPT ![m.group] = v]]
    BY <1>6 DEF UpdateGroup, Maplike
  <2> QED BY <1>3, <1>6, <2>1, <2>2, <2>3
<1>7. CASE m.op = "answer" /\ m.group \in DOMAIN r.grouptomap
  <2> DEFINE v == [G EXCEPT !.requests = @ \ {m.user}]
  <2>1. v \in Group /\ v.adminid = G.adminid
    BY <1>4, <1>7 DEF Group
  <2>2. v.members \cup v.requests \subseteq DOMAIN r.usertomap
    BY <1>4, <1>7 DEF Group
  <2>3. UpdateGroup(r, m) = [r EXCEPT !.grouptomap = [r.grouptomap EXCEPT ![m.group] = v]]
    BY <1>7 DEF UpdateGroup, Maplike
  <2> QED BY <1>3, <1>7, <2>1, <2>2, <2>3
<1>8. CASE m.op = "admit" /\ m.group \in DOMAIN r.grouptomap
  <2> DEFINE v == [G EXCEPT !.members = @ \cup {m.user}]
  <2>1. v \in Group /\ v.adminid = G.adminid
    BY <1>4, <1>5, <1>8 DEF Group
  <2>2. v.members \cup v.requests \subseteq DOMAIN r.usertomap
    BY <1>4, <1>5, <1>8 DEF Group
  <2>3. UpdateGroup(r, m) = [r EXCEPT !.grouptomap = [r.grouptomap EXCEPT ![m.group] = v]]
    BY <1>8 DEF UpdateGroup, Maplike
  <2> QED BY <1>3, <1>8, <2>1, <2>2, <2>3
<1>9. CASE m.op = "leave" /\ m.group \in DOMAIN r.grouptomap
  <2> DEFINE v == [G EXCEPT !.members = @ \ {m.user}]
  <2>1. v \in Group /\ v.adminid = G.adminid
    BY <1>4, <1>9 DEF Group
  <2>2. v.members \cup v.requests \subseteq DOMAIN r.usertomap
    BY <1>4, <1>9 DEF Group
  <2>3. UpdateGroup(r, m) = [r EXCEPT !.grouptomap = [r.grouptomap EXCEPT ![m.group] = v]]
    BY <1>9 DEF UpdateGroup, Maplike
  <2> QED BY <1>3, <1>9, <2>1, <2>2, <2>3
<1>10. CASE m.op = "list" /\ m.group \in DOMAIN r.grouptomap
  <2> DEFINE v == [G EXCEPT !.files = @ \cup {m.file}]
  <2>1. v \in Group /\ v.adminid = G.adminid
    BY <1>4, <1>10, TaskParts DEF Group
  <2>2. v.members \cup v.requests \subseteq DOMAIN r.usertomap
    BY <1>4, <1>10 DEF Group
  <2>3. UpdateGroup(r, m) = [r EXCEPT !.grouptomap = [r.grouptomap EXCEPT ![m.group] = v]]
    BY <1>10 DEF UpdateGroup, Maplike
  <2> QED BY <1>3, <1>10, <2>1, <2>2, <2>3
<1> QED BY <1>1, <1>2, <1>6, <1>7, <1>8, <1>9, <1>10 DEF OnGroup

LEMMA RecordUpdated ==
  ASSUME NEW r, Maplike(r), Accounted(r), NEW m \in Task,
         Relies(m) \subseteq DOMAIN r.usertomap, m.op \in OnRecord \ {"size"},
         m.object \in DOMAIN r.heap
  PROVE  Advances(r, UpdateRecord(r, m))
<1> DEFINE R == r.heap[m.object]
<1>0. R \in FileStr /\ R.userids \subseteq DOMAIN r.usertomap
  BY DEF Maplike, IsMap, Accounted
<1>1. ASSUME NEW v \in FileStr, v.userids \subseteq DOMAIN r.usertomap,
             UpdateRecord(r, m) = [r EXCEPT !.heap = [r.heap EXCEPT ![m.object] = v]]
      PROVE  Advances(r, UpdateRecord(r, m))
  BY <1>1, EditRecord
<1>2. m.op \in {"share", "share_at", "unshare", "unshare_at"} =>
        /\ m.user \in Users /\ m.user \in DOMAIN r.usertomap
        /\ r.usertomap[m.user].address \in Addresses
  BY TaskParts DEF Relies, Maplike, IsMap, User
<1>3. CASE m.op = "share"
  <2> DEFINE v == [R EXCEPT !.userids = @ \cup {m.user}]
  <2>1. v \in FileStr /\ v.userids \subseteq DOMAIN r.usertomap
    BY <1>0, <1>2, <1>3 DEF FileStr
  <2>2. UpdateRecord(r, m) = [r EXCEPT !.heap = [r.heap EXCEPT ![m.object] = v]]
    BY <1>3 DEF UpdateRecord, Maplike
  <2> QED BY <1>1, <2>1, <2>2
<1>4. CASE m.op = "share_at"
  <2> DEFINE v == [R EXCEPT !.users = @ \cup {r.usertomap[m.user].address}]
  <2>1. v \in FileStr /\ v.userids \subseteq DOMAIN r.usertomap
    BY <1>0, <1>2, <1>4 DEF FileStr
  <2>2. UpdateRecord(r, m) = [r EXCEPT !.heap = [r.heap EXCEPT ![m.object] = v]]
    BY <1>4 DEF UpdateRecord, Maplike
  <2> QED BY <1>1, <2>1, <2>2
<1>5. CASE m.op = "unshare"
  <2> DEFINE v == [R EXCEPT !.userids = @ \ {m.user}]
  <2>1. v \in FileStr /\ v.userids \subseteq DOMAIN r.usertomap
    BY <1>0 DEF FileStr
  <2>2. UpdateRecord(r, m) = [r EXCEPT !.heap = [r.heap EXCEPT ![m.object] = v]]
    BY <1>5 DEF UpdateRecord, Maplike
  <2> QED BY <1>1, <2>1, <2>2
<1>6. CASE m.op = "unshare_at"
  <2> DEFINE v == [R EXCEPT !.users = @ \ {r.usertomap[m.user].address}]
  <2>1. v \in FileStr /\ v.userids \subseteq DOMAIN r.usertomap
    BY <1>0 DEF FileStr
  <2>2. UpdateRecord(r, m) = [r EXCEPT !.heap = [r.heap EXCEPT ![m.object] = v]]
    BY <1>6 DEF UpdateRecord, Maplike
  <2> QED BY <1>1, <2>1, <2>2
<1>7. CASE m.op = "erase_file"
  <2> DEFINE v == Erase(r.filetomap, R.filename)
  <2>1. IsMap(v, Files, Objects)
    BY DEF Maplike, IsMap, Erase
  <2>2. UpdateRecord(r, m) = [r EXCEPT !.filetomap = v]
    BY <1>7 DEF UpdateRecord
  <2> HIDE DEF v
  <2> QED BY <2>1, <2>2, ChangeFiles
<1>8. CASE m.op = "unlist" /\ m.group \in DOMAIN r.grouptomap
  <2> DEFINE G == r.grouptomap[m.group]
             v == [G EXCEPT !.files = @ \ {R.filename}]
  <2>1. G \in Group /\ G.members \cup G.requests \subseteq DOMAIN r.usertomap
    BY <1>8 DEF Maplike, IsMap, Accounted
  <2>2. v \in Group /\ v.adminid = G.adminid /\ v.members = G.members /\ v.requests = G.requests
    BY <2>1 DEF Group
  <2>3. UpdateRecord(r, m) = [r EXCEPT !.grouptomap = [r.grouptomap EXCEPT ![m.group] = v]]
    BY <1>8 DEF UpdateRecord, Maplike
  <2> HIDE DEF v
  <2>4. v.members \cup v.requests \subseteq DOMAIN r.usertomap
    BY <2>1, <2>2
  <2> QED BY <1>8, <2>2, <2>3, <2>4, EditGroup
<1>9. CASE m.op = "unlist" /\ m.group \notin DOMAIN r.grouptomap
  <2>1. UpdateRecord(r, m) = r
    BY <1>9 DEF UpdateRecord, Maplike, IsMap
  <2> QED BY <2>1, SameRegistry
<1>10. CASE m.op = "delete"
  <2> DEFINE v == Erase(r.heap, m.object)
  <2>1. IsMap(v, Objects, FileStr) /\ \A o \in DOMAIN v : v[o].userids \subseteq DOMAIN r.usertomap
    BY DEF Maplike, IsMap, Erase, Accounted
  <2>2. UpdateRecord(r, m) = [r EXCEPT !.heap = v]
    BY <1>10 DEF UpdateRecord
  <2> HIDE DEF v
  <2> QED BY <2>1, <2>2, ChangeHeap
<1> QED BY <1>3, <1>4, <1>5, <1>6, <1>7, <1>8, <1>9, <1>10 DEF OnRecord

LEMMA FileInserted ==
  ASSUME NEW r, Maplike(r), Accounted(r), NEW m \in Task, m.op = "new_file"
  PROVE  Advances(r, NewFile(r, m))
<1>0. m.file \in Files /\ m.object \in Objects
  BY TaskParts
<1>1. CASE m.file \in DOMAIN r.filetomap
  <2> DEFINE v == Erase(r.heap, m.object)
  <2>1. IsMap(v, Objects, FileStr) /\ \A o \in DOMAIN v : v[o].userids \subseteq DOMAIN r.usertomap
    BY DEF Maplike, IsMap, Erase, Accounted
  <2>2. NewFile(r, m) = [r EXCEPT !.heap = v]
    BY <1>1 DEF NewFile
  <2> HIDE DEF v
  <2>3. Advances(r, [r EXCEPT !.heap = v])
    BY <2>1, ChangeHeap
  <2> QED BY <2>2, <2>3
<1>2. CASE m.file \notin DOMAIN r.filetomap
  <2> DEFINE v == Put(r.filetomap, m.file, m.object)
  <2>1. IsMap(v, Files, Objects)
    BY <1>0 DEF Maplike, IsMap, Put
  <2>2. NewFile(r, m) = [r EXCEPT !.filetomap = v]
    BY <1>2 DEF NewFile
  <2> HIDE DEF v
  <2>3. Advances(r, [r EXCEPT !.filetomap = v])
    BY <2>1, ChangeFiles
  <2> QED BY <2>2, <2>3
<1> QED BY <1>1, <1>2

LEMMA Updated ==
  ASSUME NEW r, Maplike(r), Accounted(r), NEW m \in Task,
         Relies(m) \subseteq DOMAIN r.usertomap, ~Deleted(r, m), m.op # "size"
  PROVE  Advances(r, Update(r, m))
<1>1. CASE m.op \in OnAccount
  <2>1. Update(r, m) = UpdateAccount(r, m)
    BY <1>1 DEF Update, OnGroup, OnAccount, OnRecord
  <2> QED BY <1>1, <2>1, AccountUpdated
<1>2. CASE m.op \in OnGroup
  <2>1. Update(r, m) = UpdateGroup(r, m)
    BY <1>2 DEF Update, OnGroup, OnAccount, OnRecord
  <2> QED BY <1>2, <2>1, GroupUpdated
<1>3. CASE m.op = "new_file"
  <2>1. Update(r, m) = NewFile(r, m)
    BY <1>3 DEF Update, OnGroup, OnAccount, OnRecord
  <2> QED BY <1>3, <2>1, FileInserted
<1>4. CASE m.op \in OnRecord
  <2>1. Update(r, m) = UpdateRecord(r, m)
    BY <1>4 DEF Update, OnGroup, OnAccount, OnRecord
  <2> QED BY <1>4, <2>1, RecordUpdated DEF Deleted
<1> QED BY <1>1, <1>2, <1>3, <1>4, TaskParts

-----------------------------------------------------------------------------
(* A plan that could be carried out still can when the registry has        *)
(* advanced: accounts are only ever added.                                 *)
LEMMA StaysSensible ==
  ASSUME NEW r, NEW s, Grows(r, s), NEW plan, Sensible(plan, r)
  PROVE  Sensible(plan, s)
  BY DEF Sensible, Grows

LEMMA TailSensible ==
  ASSUME NEW r, NEW plan, Sensible(plan, r), plan # <<>>
  PROVE  /\ Head(plan) \in Task /\ Relies(Head(plan)) \subseteq DOMAIN r.usertomap
         /\ Sensible(Tail(plan), r)
<1>1. plan \in Seq(Task) /\ Len(plan) \in Nat /\ Len(plan) > 0
  BY DEF Sensible
<1>2. Head(plan) = plan[1] /\ 1 \in 1..Len(plan)
  BY <1>1
<1>3. Tail(plan) \in Seq(Task) /\ Len(Tail(plan)) = Len(plan) - 1
  BY <1>1
<1>4. \A i \in 1..Len(Tail(plan)) : Tail(plan)[i] = plan[i + 1] /\ i + 1 \in 1..Len(plan)
  BY <1>1, <1>3
<1> QED BY <1>1, <1>2, <1>3, <1>4 DEF Sensible

(* Plans of one, two and three tasks. *)
LEMMA OneTask ==
  ASSUME NEW r, NEW a \in Task, Relies(a) \subseteq DOMAIN r.usertomap
  PROVE  Sensible(<<a>>, r) /\ <<a>> # <<>>
<1>1. <<a>> \in Seq(Task) /\ Len(<<a>>) = 1 /\ <<a>>[1] = a /\ <<a>> # <<>>
  OBVIOUS
<1> QED BY <1>1 DEF Sensible

LEMMA TwoTasks ==
  ASSUME NEW r, NEW a \in Task, Relies(a) \subseteq DOMAIN r.usertomap,
                NEW b \in Task, Relies(b) \subseteq DOMAIN r.usertomap
  PROVE  Sensible(<<a, b>>, r) /\ <<a, b>> # <<>>
<1>1. <<a, b>> \in Seq(Task) /\ Len(<<a, b>>) = 2 /\ <<a, b>> # <<>>
  OBVIOUS
<1>2. <<a, b>>[1] = a /\ <<a, b>>[2] = b /\ \A i \in 1..2 : i = 1 \/ i = 2
  OBVIOUS
<1> QED BY <1>1, <1>2 DEF Sensible

LEMMA ThreeTasks ==
  ASSUME NEW r, NEW a \in Task, Relies(a) \subseteq DOMAIN r.usertomap,
                NEW b \in Task, Relies(b) \subseteq DOMAIN r.usertomap,
                NEW c \in Task, Relies(c) \subseteq DOMAIN r.usertomap
  PROVE  Sensible(<<a, b, c>>, r) /\ <<a, b, c>> # <<>>
<1>1. <<a, b, c>> \in Seq(Task) /\ Len(<<a, b, c>>) = 3 /\ <<a, b, c>> # <<>>
  OBVIOUS
<1>2. /\ <<a, b, c>>[1] = a /\ <<a, b, c>>[2] = b /\ <<a, b, c>>[3] = c
      /\ \A i \in 1..3 : i = 1 \/ i = 2 \/ i = 3
  OBVIOUS
<1> QED BY <1>1, <1>2 DEF Sensible

LEMMA DropSensible ==
  ASSUME NEW r, NEW m \in Task, m.op = "size"
  PROVE  Sensible(Drop(m), r) /\ Drop(m) # <<>>
<1> DEFINE a == [op |-> "erase_file", object |-> m.object]
           b == [op |-> "unlist", object |-> m.object, group |-> m.group]
           c == [op |-> "delete", object |-> m.object]
<1>1. m.object \in Objects /\ m.group \in Groups
  BY TaskParts DEF OnRecord
<1>2. a \in Task /\ b \in Task /\ c \in Task
  BY <1>1 DEF Task
<1>3. Relies(a) = {} /\ Relies(b) = {} /\ Relies(c) = {}
  BY DEF Relies
<1>4. Drop(m) = <<a, b, c>>
  BY DEF Drop
<1> HIDE DEF a, b, c
<1> QED BY <1>2, <1>3, <1>4, ThreeTasks

(* A handler begins with a plan that can be carried out. *)
LEMMA Begun ==
  ASSUME ThreadsInvariant, NEW t \in Threads, NEW about \in Job, about # NoJob,
         NEW plan, plan # <<>>, Advances(reg, reg'), Sensible(plan, reg'),
         Begin(t, about, plan)
  PROVE  ThreadsInvariant'
<1>1. Maplike(reg') /\ Accounted(reg')
  BY DEF Advances
<1>2. todo' = [todo EXCEPT ![t] = plan] /\ job' = [job EXCEPT ![t] = about]
  BY DEF Begin
<1>3. plan \in Seq(Task)
  BY DEF Sensible
<1>4. todo' \in [Threads -> Seq(Task)]
  BY <1>2, <1>3 DEF ThreadsInvariant
<1>5. ASSUME NEW s \in Threads PROVE Sensible(todo'[s], reg')
  <2>1. CASE s = t
    BY <1>2, <2>1 DEF ThreadsInvariant
  <2>2. CASE s # t
    <3>1. todo'[s] = todo[s] /\ Sensible(todo[s], reg)
      BY <1>2, <2>2 DEF ThreadsInvariant
    <3> QED BY <3>1, StaysSensible DEF Advances
  <2> QED BY <2>1, <2>2
<1>6. clashes' \in 0..MaxClashes
  BY ThreadsAssumption DEF Begin, Clash, ThreadsInvariant, JobsKept
<1>7. job' \in [Threads -> Job] /\ DOMAIN todo' = Threads
  BY <1>2, <1>4 DEF ThreadsInvariant, JobsKept
<1>8. \A s \in Threads : todo'[s] = <<>> <=> job'[s] = NoJob
  BY <1>2 DEF ThreadsInvariant, JobsKept
<1> QED BY <1>1, <1>4, <1>5, <1>6, <1>7, <1>8 DEF ThreadsInvariant, JobsKept

(* A thread goes on with what is left of its plan. *)
LEMMA Continued ==
  ASSUME ThreadsInvariant, NEW t \in Threads, NEW rest,
         Advances(reg, reg'), Sensible(rest, reg'), todo[t] # <<>>,
         Continue(t, rest), clashes' \in 0..MaxClashes
  PROVE  ThreadsInvariant'
<1>1. Maplike(reg') /\ Accounted(reg')
  BY DEF Advances
<1>2. todo' = [todo EXCEPT ![t] = rest]
  BY DEF Continue
<1>3. rest \in Seq(Task)
  BY DEF Sensible
<1>4. todo' \in [Threads -> Seq(Task)]
  BY <1>2, <1>3 DEF ThreadsInvariant
<1>5. ASSUME NEW s \in Threads PROVE Sensible(todo'[s], reg')
  <2>1. CASE s = t
    BY <1>2, <2>1 DEF ThreadsInvariant
  <2>2. CASE s # t
    <3>1. todo'[s] = todo[s] /\ Sensible(todo[s], reg)
      BY <1>2, <2>2 DEF ThreadsInvariant
    <3> QED BY <3>1, StaysSensible DEF Advances
  <2> QED BY <2>1, <2>2
<1>6. NoJob \in Job
  BY DEF NoJob, Job
<1>7. job' \in [Threads -> Job] /\ DOMAIN todo' = Threads
  BY <1>4, <1>6 DEF Continue, ThreadsInvariant, JobsKept
<1>8. \A s \in Threads : todo'[s] = <<>> <=> job'[s] = NoJob
  BY <1>2 DEF Continue, ThreadsInvariant, JobsKept
<1> QED BY <1>1, <1>4, <1>5, <1>7, <1>8 DEF ThreadsInvariant, JobsKept

(* What every step but a new start does. *)
Progress == ThreadsInvariant' /\ Grows(reg, reg')

LEMMA JobOfUsers ==
  ASSUME NEW us \in SUBSET Users, us # {}, NEW fs \in SUBSET Files, NEW gs \in SUBSET Groups
  PROVE  About(us, fs, gs) \in Job /\ About(us, fs, gs) # NoJob
  BY DEF About, Job, NoJob

(* The commands that only look at the registry when they begin. *)
LEMMA BegunLooking ==
  ASSUME ThreadsInvariant, NEW t \in Threads, NEW about \in Job, about # NoJob,
         NEW plan, plan # <<>>, UNCHANGED reg, Sensible(plan, reg), Begin(t, about, plan)
  PROVE  Progress
<1>1. Advances(reg, reg')
  BY SameRegistry DEF ThreadsInvariant
<1> QED BY <1>1, Begun DEF Progress, Advances

LEMMA CreateUserStep ==
  ASSUME ThreadsInvariant, NEW t \in Threads, NEW u \in Users, NEW p \in Passwords,
         NEW a \in AddressesOf[u], create_user(t, u, p, a)
  PROVE  Progress
<1> DEFINE v == [password |-> p, address |-> a, groups |-> {}, mygroups |-> {}]
           m == [op |-> "new_user", user |-> u, record |-> v]
           n == [op |-> "log_in", user |-> u]
<1>1. v \in User
  BY ThreadsAssumption DEF User
<1>2. m \in Task /\ n \in Task /\ Relies(m) = {} /\ Relies(n) = {}
  BY <1>1 DEF Task, Relies
<1>3. About({u}, {}, {}) \in Job /\ About({u}, {}, {}) # NoJob
  BY JobOfUsers
<1>4. Begin(t, About({u}, {}, {}), <<m, n>>) /\ UNCHANGED reg
  BY DEF create_user, ToCreateUser
<1> HIDE DEF m, n
<1>5. Sensible(<<m, n>>, reg) /\ <<m, n>> # <<>>
  BY <1>2, TwoTasks
<1> QED BY <1>3, <1>4, <1>5, BegunLooking

LEMMA LoginStep ==
  ASSUME ThreadsInvariant, NEW t \in Threads, NEW u \in Users, NEW p \in Passwords,
         NEW a \in AddressesOf[u], login(t, u, p, a)
  PROVE  Progress
<1> DEFINE m == [op |-> "log_in", user |-> u]
           n == [op |-> "move", user |-> u, address |-> a]
           o == [op |-> "log_out", user |-> u]
           plan == IF p = reg.usertomap[u].password THEN <<m, n>> ELSE <<o>>
<1>1. a \in Addresses /\ u \in DOMAIN reg.usertomap
  BY ThreadsAssumption DEF login
<1>2. /\ m \in Task /\ n \in Task /\ o \in Task
      /\ Relies(m) = {} /\ Relies(n) = {u} /\ Relies(o) = {}
  BY <1>1 DEF Task, Relies
<1>3. About({u}, {}, {}) \in Job /\ About({u}, {}, {}) # NoJob
  BY JobOfUsers
<1>4. Begin(t, About({u}, {}, {}), plan) /\ UNCHANGED reg
  BY DEF login
<1> HIDE DEF m, n, o
<1>5. /\ Sensible(<<m, n>>, reg) /\ <<m, n>> # <<>>
      /\ Sensible(<<o>>, reg) /\ <<o>> # <<>>
  BY <1>1, <1>2, OneTask, TwoTasks
<1>6. Sensible(plan, reg) /\ plan # <<>>
  BY <1>5
<1> HIDE DEF plan
<1> QED BY <1>3, <1>4, <1>6, BegunLooking

LEMMA LogoutStep ==
  ASSUME ThreadsInvariant, NEW t \in Threads, NEW u \in Users, logout(t, u)
  PROVE  Progress
<1> DEFINE m == [op |-> "log_out", user |-> u]
<1>1. m \in Task /\ Relies(m) = {}
  BY DEF Task, Relies
<1>2. About({u}, {}, {}) \in Job /\ About({u}, {}, {}) # NoJob
  BY JobOfUsers
<1>3. Begin(t, About({u}, {}, {}), <<m>>) /\ UNCHANGED reg
  BY DEF logout
<1> HIDE DEF m
<1>4. Sensible(<<m>>, reg) /\ <<m>> # <<>>
  BY <1>1, OneTask
<1> QED BY <1>2, <1>3, <1>4, BegunLooking

LEMMA CreateGroupStep ==
  ASSUME ThreadsInvariant, NEW t \in Threads, NEW g \in Groups, NEW u \in Users,
         create_group(t, g, u)
  PROVE  Progress
<1> DEFINE v == [adminid |-> u, members |-> {u}, files |-> {}, requests |-> {}]
           m == [op |-> "new_group", group |-> g, record |-> v]
           n == [op |-> "own", user |-> u, group |-> g]
<1>1. u \in DOMAIN reg.usertomap
  BY DEF create_group, LoggedIn
<1>2. v \in Group
  BY DEF Group
<1>3. m \in Task /\ n \in Task /\ Relies(m) = {u} /\ Relies(n) = {u}
  BY <1>2 DEF Task, Relies
<1>4. About({u}, {}, {g}) \in Job /\ About({u}, {}, {g}) # NoJob
  BY JobOfUsers
<1>5. Begin(t, About({u}, {}, {g}), <<m, n>>) /\ UNCHANGED reg
  BY DEF create_group, ToCreateGroup
<1> HIDE DEF m, n
<1>6. Sensible(<<m, n>>, reg) /\ <<m, n>> # <<>>
  BY <1>1, <1>3, TwoTasks
<1> QED BY <1>4, <1>5, <1>6, BegunLooking

LEMMA JoinGroupStep ==
  ASSUME ThreadsInvariant, NEW t \in Threads, NEW g \in Groups, NEW u \in Users,
         join_group(t, g, u)
  PROVE  Progress
<1> DEFINE m == [op |-> "ask", group |-> g, user |-> u]
<1>1. m \in Task /\ Relies(m) = {u} /\ u \in DOMAIN reg.usertomap
  BY DEF Task, Relies, join_group, MayJoin, LoggedIn
<1>2. About({u}, {}, {}) \in Job /\ About({u}, {}, {}) # NoJob
  BY JobOfUsers
<1>3. Begin(t, About({u}, {}, {}), <<m>>) /\ UNCHANGED reg
  BY DEF join_group, ToJoin
<1> HIDE DEF m
<1>4. Sensible(<<m>>, reg) /\ <<m>> # <<>>
  BY <1>1, OneTask
<1> QED BY <1>2, <1>3, <1>4, BegunLooking

LEMMA LeaveGroupStep ==
  ASSUME ThreadsInvariant, NEW t \in Threads, NEW g \in Groups, NEW u \in Users,
         leave_group(t, g, u)
  PROVE  Progress
<1> DEFINE m == [op |-> "leave", group |-> g, user |-> u]
<1>1. m \in Task /\ Relies(m) = {u} /\ u \in DOMAIN reg.usertomap
  BY DEF Task, Relies, leave_group, LoggedIn
<1>2. About({u}, {}, {}) \in Job /\ About({u}, {}, {}) # NoJob
  BY JobOfUsers
<1>3. Begin(t, About({u}, {}, {}), <<m>>) /\ UNCHANGED reg
  BY DEF leave_group
<1> HIDE DEF m
<1>4. Sensible(<<m>>, reg) /\ <<m>> # <<>>
  BY <1>1, OneTask
<1> QED BY <1>2, <1>3, <1>4, BegunLooking

LEMMA AcceptRequestStep ==
  ASSUME ThreadsInvariant, NEW t \in Threads, NEW g \in Groups, NEW u \in Users,
         NEW admin \in Users, accept_request(t, g, u, admin)
  PROVE  Progress
<1> DEFINE m == [op |-> "answer", group |-> g, user |-> u]
           n == [op |-> "admit", group |-> g, user |-> u]
<1>1. u \in DOMAIN reg.usertomap
  BY DEF accept_request
<1>2. m \in Task /\ n \in Task /\ Relies(m) = {u} /\ Relies(n) = {u}
  BY DEF Task, Relies
<1>3. About({u, admin}, {}, {}) \in Job /\ About({u, admin}, {}, {}) # NoJob
  BY JobOfUsers
<1>4. Begin(t, About({u, admin}, {}, {}), <<m, n>>) /\ UNCHANGED reg
  BY DEF accept_request
<1> HIDE DEF m, n
<1>5. Sensible(<<m, n>>, reg) /\ <<m, n>> # <<>>
  BY <1>1, <1>2, TwoTasks
<1> QED BY <1>3, <1>4, <1>5, BegunLooking

(* A new file gets its record, with the user that uploads it, before the   *)
(* map has it.                                                             *)
LEMMA RecordMade ==
  ASSUME ThreadsInvariant, NEW o \in Objects, NEW f \in Files,
         NEW u \in DOMAIN reg.usertomap
  PROVE  Advances(reg, WithRecord(o, f, u))
<1> DEFINE v == [filename |-> f, userids |-> {u}, users |-> {reg.usertomap[u].address}]
           heap == Put(reg.heap, o, v)
<1>1. v \in FileStr /\ v.userids = {u}
  BY DEF ThreadsInvariant, Maplike, IsMap, User, FileStr
<1>2. WithRecord(o, f, u) = [reg EXCEPT !.heap = heap]
  BY DEF WithRecord
<1> HIDE DEF v
<1>3. IsMap(heap, Objects, FileStr)
  BY <1>1 DEF ThreadsInvariant, Maplike, IsMap, Put
<1>4. \A x \in DOMAIN heap : heap[x].userids \subseteq DOMAIN reg.usertomap
  BY <1>1 DEF ThreadsInvariant, Accounted, Put
<1> HIDE DEF heap
<1> QED BY <1>2, <1>3, <1>4, ChangeHeap DEF ThreadsInvariant

LEMMA UploadFileStep ==
  ASSUME ThreadsInvariant, NEW t \in Threads, NEW f \in Files, NEW g \in Groups,
         NEW u \in Users, upload_file(t, f, g, u)
  PROVE  Progress
<1>1. u \in DOMAIN reg.usertomap
  BY DEF upload_file, LoggedIn
<1>2. About({u}, {f}, {}) \in Job /\ About({u}, {f}, {}) # NoJob
  BY JobOfUsers
<1>3. ASSUME NEW o, o = reg.filetomap[f], IsFile(f), UNCHANGED reg,
             Begin(t, About({u}, {f}, {}),
                   <<[op |-> "share", object |-> o, user |-> u],
                     [op |-> "share_at", object |-> o, user |-> u]>>)
      PROVE  Progress
  <2> DEFINE m == [op |-> "share", object |-> o, user |-> u]
             n == [op |-> "share_at", object |-> o, user |-> u]
  <2>1. o \in Objects
    BY <1>3 DEF IsFile, ThreadsInvariant, Maplike, IsMap
  <2>2. m \in Task /\ n \in Task /\ Relies(m) = {u} /\ Relies(n) = {u}
    BY <2>1 DEF Task, Relies
  <2>3. Begin(t, About({u}, {f}, {}), <<m, n>>)
    BY <1>3
  <2> HIDE DEF m, n
  <2>4. Sensible(<<m, n>>, reg) /\ <<m, n>> # <<>>
    BY <1>1, <2>2, TwoTasks
  <2> QED BY <1>2, <1>3, <2>3, <2>4, BegunLooking
<1>4. ASSUME NEW o \in Objects \ DOMAIN reg.heap, reg' = WithRecord(o, f, u),
             Begin(t, About({u}, {f}, {}), ToUpload(f, g, o))
      PROVE  Progress
  <2> DEFINE m == [op |-> "new_file", file |-> f, object |-> o]
             n == [op |-> "list", group |-> g, file |-> f]
  <2>1. m \in Task /\ n \in Task /\ Relies(m) = {} /\ Relies(n) = {}
    BY DEF Task, Relies
  <2>2. Begin(t, About({u}, {f}, {}), <<m, n>>)
    BY <1>4 DEF ToUpload
  <2> HIDE DEF m, n
  <2>3. Advances(reg, reg')
    BY <1>1, <1>4, RecordMade
  <2>4. Sensible(<<m, n>>, reg') /\ <<m, n>> # <<>>
    BY <2>1, TwoTasks
  <2>5. ThreadsInvariant'
    BY <1>2, <2>2, <2>3, <2>4, Begun
  <2> QED BY <2>3, <2>5 DEF Progress, Advances
<1> QED BY <1>3, <1>4 DEF upload_file

LEMMA StopShareStep ==
  ASSUME ThreadsInvariant, NEW t \in Threads, NEW g \in Groups, NEW f \in Files,
         NEW u \in Users, stop_share(t, g, f, u)
  PROVE  Progress
<1> DEFINE o == reg.filetomap[f]
           k == [op |-> "unshare", object |-> o, user |-> u]
           m == [op |-> "unshare_at", object |-> o, user |-> u]
           n == [op |-> "size", object |-> o, group |-> g]
<1>1. u \in DOMAIN reg.usertomap
  BY DEF stop_share, LoggedIn
<1>2. o \in Objects
  BY DEF stop_share, IsFile, ThreadsInvariant, Maplike, IsMap
<1>3. /\ k \in Task /\ m \in Task /\ n \in Task
      /\ Relies(k) = {u} /\ Relies(m) = {u} /\ Relies(n) = {}
  BY <1>2 DEF Task, Relies
<1>4. About({u}, {f}, {}) \in Job /\ About({u}, {f}, {}) # NoJob
  BY JobOfUsers
<1>5. Begin(t, About({u}, {f}, {}), <<k, m, n>>) /\ UNCHANGED reg
  BY DEF stop_share
<1> HIDE DEF k, m, n
<1>6. Sensible(<<k, m, n>>, reg) /\ <<k, m, n>> # <<>>
  BY <1>1, <1>3, ThreeTasks
<1> QED BY <1>4, <1>5, <1>6, BegunLooking

-----------------------------------------------------------------------------
(* The further steps of a handler *)

LEMMA StepStep ==
  ASSUME ThreadsInvariant, NEW t \in Threads, Step(t)
  PROVE  Progress
<1> DEFINE m == Head(todo[t])
<1>1. todo[t] # <<>> /\ ~Deleted(reg, m) /\ clashes' \in 0..MaxClashes
  BY DEF Step, ThreadsInvariant, JobsKept
<1>2. /\ m \in Task /\ Relies(m) \subseteq DOMAIN reg.usertomap
      /\ Sensible(Tail(todo[t]), reg)
  BY <1>1, TailSensible DEF ThreadsInvariant
<1>3. CASE /\ m.op = "size" /\ UNCHANGED reg
           /\ Continue(t, IF reg.heap[m.object].userids = {} THEN Drop(m) ELSE <<>>)
  <2> DEFINE rest == IF reg.heap[m.object].userids = {} THEN Drop(m) ELSE <<>>
  <2>1. Advances(reg, reg')
    BY <1>3, SameRegistry DEF ThreadsInvariant
  <2>2. Sensible(<<>>, reg)
    BY DEF Sensible
  <2>3. Sensible(rest, reg')
    BY <1>2, <1>3, <2>2, DropSensible
  <2>4. Continue(t, rest)
    BY <1>3
  <2> HIDE DEF rest
  <2>5. ThreadsInvariant'
    BY <1>1, <2>1, <2>3, <2>4, Continued
  <2> QED BY <2>1, <2>5 DEF Progress, Advances
<1>4. CASE m.op # "size" /\ reg' = Update(reg, m) /\ Continue(t, Tail(todo[t]))
  <2>1. Advances(reg, Update(reg, m))
    BY <1>1, <1>2, <1>4, Updated DEF ThreadsInvariant
  <2>2. Advances(reg, reg')
    BY <1>4, <2>1
  <2>3. Sensible(Tail(todo[t]), reg')
    BY <1>2, <2>2, StaysSensible DEF Advances
  <2>4. ThreadsInvariant'
    BY <1>1, <1>4, <2>2, <2>3, Continued
  <2> QED BY <2>2, <2>4 DEF Progress, Advances
<1> QED BY <1>3, <1>4 DEF Step

(* A task is skipped, for the record it would change has been deleted, or  *)
(* for its insertion is lost.                                              *)
LEMMA Skipped ==
  ASSUME ThreadsInvariant, NEW t \in Threads, todo[t] # <<>>,
         Continue(t, Tail(todo[t])), UNCHANGED reg, clashes' \in 0..MaxClashes
  PROVE  Progress
<1>1. Advances(reg, reg')
  BY SameRegistry DEF ThreadsInvariant
<1>2. Sensible(Tail(todo[t]), reg')
  BY TailSensible DEF ThreadsInvariant
<1>3. ThreadsInvariant'
  BY <1>1, <1>2, Continued
<1> QED BY <1>1, <1>3 DEF Progress, Advances

LEMMA UseAfterFreeStep ==
  ASSUME ThreadsInvariant, NEW t \in Threads, UseAfterFree(t)
  PROVE  Restart \/ Progress
<1>1. clashes \in 0..MaxClashes
  BY DEF ThreadsInvariant, JobsKept
<1> QED BY <1>1, Skipped DEF UseAfterFree

LEMMA DataRaceStep ==
  ASSUME ThreadsInvariant, NEW t \in Threads, DataRace(t)
  PROVE  Restart \/ Progress
<1> DEFINE m == Head(todo[t])
<1>1. todo[t] # <<>>
  BY DEF DataRace
<1>2. Clash => clashes' \in 0..MaxClashes
  BY ThreadsAssumption DEF Clash, ThreadsInvariant, JobsKept
<1>3. CASE Continue(t, Tail(todo[t])) /\ Clash /\ UNCHANGED reg
  BY <1>1, <1>2, <1>3, Skipped
<1>4. CASE m.op = "size" /\ Continue(t, Drop(m)) /\ Clash /\ UNCHANGED reg
  <2>1. m \in Task
    BY <1>1, TailSensible DEF ThreadsInvariant
  <2>2. Advances(reg, reg')
    BY <1>4, SameRegistry DEF ThreadsInvariant
  <2>3. Sensible(Drop(m), reg')
    BY <1>4, <2>1, DropSensible
  <2> HIDE DEF m
  <2>4. ThreadsInvariant'
    BY <1>1, <1>2, <1>4, <2>2, <2>3, Continued
  <2> QED BY <2>2, <2>4 DEF Progress, Advances
<1> QED BY <1>3, <1>4 DEF DataRace

(* A handler that has missed what is there begins like one that has seen   *)
(* that it is not, but counts a clash.                                     *)
LEMMA BegunBlind ==
  ASSUME ThreadsInvariant, NEW t \in Threads, NEW about \in Job, about # NoJob,
         NEW plan, plan # <<>>, Advances(reg, reg'), Sensible(plan, reg'),
         BeginBlind(t, about, plan)
  PROVE  Progress
<1>1. Maplike(reg') /\ Accounted(reg')
  BY DEF Advances
<1>2. todo' = [todo EXCEPT ![t] = plan] /\ job' = [job EXCEPT ![t] = about]
  BY DEF BeginBlind
<1>3. plan \in Seq(Task)
  BY DEF Sensible
<1>4. todo' \in [Threads -> Seq(Task)]
  BY <1>2, <1>3 DEF ThreadsInvariant
<1>5. ASSUME NEW s \in Threads PROVE Sensible(todo'[s], reg')
  <2>1. CASE s = t
    BY <1>2, <2>1 DEF ThreadsInvariant
  <2>2. CASE s # t
    <3>1. todo'[s] = todo[s] /\ Sensible(todo[s], reg)
      BY <1>2, <2>2 DEF ThreadsInvariant
    <3> QED BY <3>1, StaysSensible DEF Advances
  <2> QED BY <2>1, <2>2
<1>6. clashes' \in 0..MaxClashes
  BY ThreadsAssumption DEF BeginBlind, Clash, ThreadsInvariant, JobsKept
<1>7. job' \in [Threads -> Job] /\ DOMAIN todo' = Threads
  BY <1>2, <1>4 DEF ThreadsInvariant, JobsKept
<1>8. \A s \in Threads : todo'[s] = <<>> <=> job'[s] = NoJob
  BY <1>2 DEF ThreadsInvariant, JobsKept
<1>9. ThreadsInvariant'
  BY <1>1, <1>4, <1>5, <1>6, <1>7, <1>8 DEF ThreadsInvariant, JobsKept
<1> QED BY <1>9 DEF Progress, Advances

(* The plans can be carried out. *)
LEMMA BlindPlans ==
  ASSUME ThreadsInvariant, NEW u \in Users
  PROVE  /\ \A p \in Passwords, a \in AddressesOf[u] :
              Sensible(ToCreateUser(u, p, a), reg) /\ ToCreateUser(u, p, a) # <<>>
         /\ \A g \in Groups : u \in DOMAIN reg.usertomap =>
              Sensible(ToCreateGroup(g, u), reg) /\ ToCreateGroup(g, u) # <<>>
         /\ \A g \in Groups : u \in DOMAIN reg.usertomap =>
              Sensible(ToJoin(g, u), reg) /\ ToJoin(g, u) # <<>>
<1>1. ASSUME NEW p \in Passwords, NEW a \in AddressesOf[u]
      PROVE  Sensible(ToCreateUser(u, p, a), reg) /\ ToCreateUser(u, p, a) # <<>>
  <2> DEFINE v == [password |-> p, address |-> a, groups |-> {}, mygroups |-> {}]
             m == [op |-> "new_user", user |-> u, record |-> v]
             n == [op |-> "log_in", user |-> u]
  <2>1. v \in User
    BY ThreadsAssumption DEF User
  <2>2. m \in Task /\ n \in Task /\ Relies(m) = {} /\ Relies(n) = {}
    BY <2>1 DEF Task, Relies
  <2>3. ToCreateUser(u, p, a) = <<m, n>>
    BY DEF ToCreateUser
  <2> HIDE DEF m, n
  <2> QED BY <2>2, <2>3, TwoTasks
<1>2. ASSUME NEW g \in Groups, u \in DOMAIN reg.usertomap
      PROVE  Sensible(ToCreateGroup(g, u), reg) /\ ToCreateGroup(g, u) # <<>>
  <2> DEFINE v == [adminid |-> u, members |-> {u}, files |-> {}, requests |-> {}]
             m == [op |-> "new_group", group |-> g, record |-> v]
             n == [op |-> "own", user |-> u, group |-> g]
  <2>1. v \in Group
    BY DEF Group
  <2>2. m \in Task /\ n \in Task /\ Relies(m) = {u} /\ Relies(n) = {u}
    BY <2>1 DEF Task, Relies
  <2>3. ToCreateGroup(g, u) = <<m, n>>
    BY DEF ToCreateGroup
  <2> HIDE DEF m, n
  <2> QED BY <1>2, <2>2, <2>3, TwoTasks
<1>3. ASSUME NEW g \in Groups, u \in DOMAIN reg.usertomap
      PROVE  Sensible(ToJoin(g, u), reg) /\ ToJoin(g, u) # <<>>
  <2> DEFINE m == [op |-> "ask", group |-> g, user |-> u]
  <2>1. m \in Task /\ Relies(m) = {u}
    BY DEF Task, Relies
  <2>2. ToJoin(g, u) = <<m>>
    BY DEF ToJoin
  <2> HIDE DEF m
  <2> QED BY <1>3, <2>1, <2>2, OneTask
<1> QED BY <1>1, <1>2, <1>3

LEMMA MissedLookStep ==
  ASSUME ThreadsInvariant, NEW t \in Threads, MissedLook(t)
  PROVE  Progress
<1>0. /\ DOMAIN reg.usertomap \subseteq Users /\ DOMAIN reg.grouptomap \subseteq Groups
      /\ DOMAIN reg.filetomap \subseteq Files
      /\ \A g \in DOMAIN reg.grouptomap : reg.grouptomap[g].members \subseteq Users
  BY DEF ThreadsInvariant, Maplike, IsMap, Group
<1>1. UNCHANGED reg => Advances(reg, reg')
  BY SameRegistry DEF ThreadsInvariant
<1>2. \A u \in Users, f \in Files, g \in Groups :
        /\ About({u}, {}, {}) \in Job /\ About({u}, {}, {}) # NoJob
        /\ About({u}, {}, {g}) \in Job /\ About({u}, {}, {g}) # NoJob
        /\ About({u}, {f}, {}) \in Job /\ About({u}, {f}, {}) # NoJob
  BY JobOfUsers
<1>3. ASSUME NEW u \in Users, NEW p \in Passwords, NEW a \in AddressesOf[u], UNCHANGED reg,
             BeginBlind(t, About({u}, {}, {}), ToCreateUser(u, p, a))
      PROVE  Progress
  <2>1. Sensible(ToCreateUser(u, p, a), reg') /\ ToCreateUser(u, p, a) # <<>>
    BY <1>3, BlindPlans
  <2>2. About({u}, {}, {}) \in Job /\ About({u}, {}, {}) # NoJob
    BY JobOfUsers
  <2> QED BY <1>1, <1>3, <2>1, <2>2, BegunBlind
<1>4. ASSUME NEW g \in Groups, NEW u \in Users, LoggedIn(u), UNCHANGED reg,
             BeginBlind(t, About({u}, {}, {g}), ToCreateGroup(g, u))
      PROVE  Progress
  <2>1. Sensible(ToCreateGroup(g, u), reg') /\ ToCreateGroup(g, u) # <<>>
    BY <1>4, BlindPlans DEF LoggedIn
  <2>2. About({u}, {}, {g}) \in Job /\ About({u}, {}, {g}) # NoJob
    BY JobOfUsers
  <2> QED BY <1>1, <1>4, <2>1, <2>2, BegunBlind
<1>5. ASSUME NEW g \in Groups, NEW u \in Users, LoggedIn(u), UNCHANGED reg,
             BeginBlind(t, About({u}, {}, {}), ToJoin(g, u))
      PROVE  Progress
  <2>1. Sensible(ToJoin(g, u), reg') /\ ToJoin(g, u) # <<>>
    BY <1>5, BlindPlans DEF LoggedIn
  <2>2. About({u}, {}, {}) \in Job /\ About({u}, {}, {}) # NoJob
    BY JobOfUsers
  <2> QED BY <1>1, <1>5, <2>1, <2>2, BegunBlind
<1>6. ASSUME NEW f \in Files, NEW g \in Groups, NEW o \in Objects \ DOMAIN reg.heap,
             NEW u \in Users, LoggedIn(u), reg' = WithRecord(o, f, u),
             BeginBlind(t, About({u}, {f}, {}), ToUpload(f, g, o))
      PROVE  Progress
  <2> DEFINE m == [op |-> "new_file", file |-> f, object |-> o]
             n == [op |-> "list", group |-> g, file |-> f]
  <2>1. m \in Task /\ n \in Task /\ Relies(m) = {} /\ Relies(n) = {}
    BY DEF Task, Relies
  <2>2. ToUpload(f, g, o) = <<m, n>>
    BY DEF ToUpload
  <2> HIDE DEF m, n
  <2>3. Sensible(ToUpload(f, g, o), reg') /\ ToUpload(f, g, o) # <<>>
    BY <2>1, <2>2, TwoTasks
  <2>4. Advances(reg, reg')
    BY <1>6, RecordMade DEF LoggedIn
  <2>5. About({u}, {f}, {}) \in Job /\ About({u}, {f}, {}) # NoJob
    BY JobOfUsers
  <2> QED BY <1>6, <2>3, <2>4, <2>5, BegunBlind
<1> QED BY <1>0, <1>3, <1>4, <1>5, <1>6 DEF MissedLook

(* A tracker that starts has an empty registry and idle threads. *)
LEMMA Started == Init => ThreadsInvariant
<1> SUFFICES ASSUME Init PROVE ThreadsInvariant
  OBVIOUS
<1>1. Maplike(reg) /\ Accounted(reg)
  BY DEF Init, EmptyRegistry, EmptyMap, Maplike, Accounted, IsMap
<1>2. todo \in [Threads -> Seq(Task)] /\ \A t \in Threads : Sensible(todo[t], reg)
  BY DEF Init, Sensible
<1>3. NoJob \in Job
  BY DEF NoJob, Job
<1>4. JobsKept
  BY <1>3, ThreadsAssumption DEF Init, JobsKept
<1> QED BY <1>1, <1>2, <1>4 DEF ThreadsInvariant

LEMMA Restarted == Restart => ThreadsInvariant'
<1> SUFFICES ASSUME Restart PROVE ThreadsInvariant'
  OBVIOUS
<1>1. Maplike(reg') /\ Accounted(reg')
  BY DEF Restart, EmptyRegistry, EmptyMap, Maplike, Accounted, IsMap
<1>2. todo' \in [Threads -> Seq(Task)] /\ \A t \in Threads : Sensible(todo'[t], reg')
  BY DEF Restart, Sensible
<1>3. NoJob \in Job
  BY DEF NoJob, Job
<1>4. JobsKept'
  BY <1>3, ThreadsAssumption DEF Restart, JobsKept
<1> QED BY <1>1, <1>2, <1>4 DEF ThreadsInvariant

LEMMA ThreadsStep == ThreadsInvariant /\ [Next]_vars => Restart \/ Progress
<1> SUFFICES ASSUME ThreadsInvariant, [Next]_vars PROVE Restart \/ Progress
  OBVIOUS
<1>1. CASE UNCHANGED vars
  <2>1. ThreadsInvariant' /\ reg' = reg
    BY <1>1 DEF vars, ThreadsInvariant, JobsKept
  <2> QED BY <2>1 DEF Progress, Grows
<1>2. CASE \E t \in Threads, u \in Users, p \in Passwords : \E a \in AddressesOf[u] :
             create_user(t, u, p, a) \/ login(t, u, p, a)
  BY <1>2, CreateUserStep, LoginStep
<1>3. CASE \E t \in Threads, u \in Users : logout(t, u)
  BY <1>3, LogoutStep
<1>4. CASE \E t \in Threads, g \in Groups, u \in Users :
             create_group(t, g, u) \/ join_group(t, g, u) \/ leave_group(t, g, u)
  BY <1>4, CreateGroupStep, JoinGroupStep, LeaveGroupStep
<1>5. CASE \E t \in Threads, g \in Groups, u \in Users, admin \in Users :
             accept_request(t, g, u, admin)
  BY <1>5, AcceptRequestStep
<1>6. CASE \E t \in Threads, f \in Files, g \in Groups, u \in Users :
             upload_file(t, f, g, u) \/ stop_share(t, g, f, u)
  BY <1>6, UploadFileStep, StopShareStep
<1>7. CASE \E t \in Threads : Step(t) \/ UseAfterFree(t) \/ DataRace(t) \/ MissedLook(t)
  BY <1>7, StepStep, UseAfterFreeStep, DataRaceStep, MissedLookStep
<1>8. CASE FollowDangling
  BY <1>8 DEF FollowDangling
<1> QED BY <1>1, <1>2, <1>3, <1>4, <1>5, <1>6, <1>7, <1>8 DEF Next

LEMMA ThreadsInvariantHolds == Spec => []ThreadsInvariant
<1>1. ThreadsInvariant /\ [Next]_vars => ThreadsInvariant'
  BY ThreadsStep, Restarted DEF Progress
<1> QED BY <1>1, Started, PTL DEF Spec

-----------------------------------------------------------------------------
(* However the steps of the tracker's threads interleave, and whatever the *)
(* races between them do, the registry stays one of well-formed records,   *)
(* and a thread has a job exactly as long as it has updates left (TypeOK). *)
THEOREM TypeCorrect == Spec => []TypeOK
<1>1. ThreadsInvariant => TypeOK
  BY DEF ThreadsInvariant, Maplike, JobsKept, TypeOK
<1> QED BY <1>1, ThreadsInvariantHolds, PTL

(* However they interleave, only accounts get into a group, into its       *)
(* requests or on a file (OnlyAccountsInvolved): each handler has seen the *)
(* account it lets in, and no account is ever erased while it goes on.     *)
THEOREM AccountsOnly == Spec => []OnlyAccountsInvolved
<1>1. ThreadsInvariant => OnlyAccountsInvolved
  BY DEF ThreadsInvariant, Accounted, OnlyAccountsInvolved
<1> QED BY <1>1, ThreadsInvariantHolds, PTL

(* However they interleave, a group that is there stays, with its admin,   *)
(* until the tracker ends (FounderStays).                                  *)
THEOREM FoundersStay == Spec => FounderStays
<1> DEFINE Founders == \A g \in DOMAIN reg.grouptomap :
                         /\ g \in DOMAIN reg'.grouptomap
                         /\ reg'.grouptomap[g].adminid = reg.grouptomap[g].adminid
<1>1. ThreadsInvariant /\ [Next]_vars => [Restart \/ Founders]_vars
  BY ThreadsStep DEF Progress, Grows
<1> QED BY <1>1, ThreadsInvariantHolds, PTL DEF Spec, FounderStays

-----------------------------------------------------------------------------
(* The rest of the module proves that handlers that are apart are done one *)
(* after the other (CommandsAtomic).  In the order of the proof:           *)
(*   - an update that is made was due: it changes nothing of what the      *)
(*     registry will be once all that is due is done (the Unseen lemmas);  *)
(*   - a handler that begins changes what will be as its command of        *)
(*     Tracker does (the Begins lemmas);                                   *)
(*   - as long as nothing clashed, the handlers are Apart, and for those   *)
(*     the hypotheses of both hold (ApartInvariantHolds).                  *)

(* What an update is about. *)
ByUser == {"new_user", "log_in", "log_out", "move", "own", "ask", "answer", "admit", "leave",
           "share", "share_at", "unshare", "unshare_at"}
ByFile == {"new_file", "list"}
ByObject == OnRecord \cup {"new_file"}
ByGroup == {"ask", "answer", "admit", "leave", "list", "unlist", "size"}

(* The job j covers the update m of the registry r. *)
Within(m, r, j) ==
  /\ m.op \in ByUser => m.user \in j.users
  /\ m.op \in ByFile => m.file \in j.files
  /\ m.op \in ByObject => m.object \in DOMAIN r.heap /\ r.heap[m.object].filename \in j.files
  /\ m.op = "new_group" => m.group \in j.founds

(* Nothing is in the way of the update. *)
Ready(m, r) ==
  /\ m.op = "new_user" => m.user \notin DOMAIN r.usertomap
  /\ m.op = "new_group" => m.group \notin DOMAIN r.grouptomap
  /\ m.op = "new_file" => m.file \notin DOMAIN r.filetomap /\ r.heap[m.object].filename = m.file
  /\ m.op \in ByGroup => m.group \in DOMAIN r.grouptomap
  /\ m.op \in {"unshare", "unshare_at", "size", "erase_file"} =>
       LET f == r.heap[m.object].filename
       IN  f \in DOMAIN r.filetomap /\ r.filetomap[f] = m.object

(* The updates that may follow one in a plan. *)
Later(op) == CASE op = "new_user" -> {"log_in"}
               [] op = "log_in" -> {"move"}
               [] op = "new_group" -> {"own"}
               [] op = "answer" -> {"admit"}
               [] op = "new_file" -> {"list"}
               [] op = "share" -> {"share_at"}
               [] op = "unshare" -> {"unshare_at", "size"}
               [] op = "unshare_at" -> {"size"}
               [] op = "erase_file" -> {"unlist", "delete"}
               [] op = "unlist" -> {"delete"}
               [] OTHER -> {}

Ordered(plan) == \A i, k \in DOMAIN plan : i < k => plan[k].op \in Later(plan[i].op)

(* A login is of an account that is there or is to come, and a record is   *)
(* deleted when nothing leads to it any more.                              *)
Linked(P, r) ==
  /\ \A m \in P : m.op = "log_in" =>
       \/ m.user \in DOMAIN r.usertomap
       \/ \E n \in P : n.op = "new_user" /\ n.user = m.user
  /\ \A m \in P : m.op = "delete" =>
       \/ r.heap[m.object].filename \notin DOMAIN r.filetomap
       \/ \E n \in P : n.op = "erase_file" /\ n.object = m.object

(* The maps lead to what is there. *)
Kept(r) == /\ r.loggedin \subseteq DOMAIN r.usertomap
           /\ \A f \in DOMAIN r.filetomap :
                r.filetomap[f] \in DOMAIN r.heap /\ r.heap[r.filetomap[f]].filename = f

-----------------------------------------------------------------------------
Does(m, op) == m.op = op

(* The updates that each part of the later registry depends on. *)
OfSharers == {"share", "unshare"}
OfAddresses == {"share_at", "unshare_at"}
OfLeaves == OfSharers \cup {"size"}
OfUnlisted == OfLeaves \cup {"unlist"}
OfUsers == {"new_user", "move", "own"}
OfFlags == {"new_user", "log_in", "log_out"}
OfObjects == {"new_file"}
OfErased == OfLeaves \cup {"erase_file"}
OfFiles == OfErased \cup OfObjects

LEMMA DueOther ==
  ASSUME NEW S, NEW m, NEW op, ~Does(m, op)
  PROVE  Due(S \cup {m}, op) = Due(S, op)
  BY DEF Due, Does

LEMMA DueOne ==
  ASSUME NEW S, NEW m, NEW op, Does(m, op)
  PROVE  Due(S \cup {m}, op) = Due(S, op) \cup {m}
  BY DEF Due, Does

LEMMA WhoseOther ==
  ASSUME NEW S, NEW m, NEW op, ~Does(m, op)
  PROVE  Whose(S \cup {m}, op) = Whose(S, op)
  BY DueOther DEF Whose

LEMMA WhoseOne ==
  ASSUME NEW S, NEW m, NEW op, Does(m, op)
  PROVE  Whose(S \cup {m}, op) = Whose(S, op) \cup {m.user}
  BY DueOne DEF Whose

LEMMA WhoseOfOther ==
  ASSUME NEW S, NEW m, NEW op, NEW o, ~Does(m, op) \/ m.object # o
  PROVE  WhoseOf(S \cup {m}, op, o) = WhoseOf(S, op, o)
  BY DEF WhoseOf, Due, Does

LEMMA WhoseOfOne ==
  ASSUME NEW S, NEW m, NEW op, Does(m, op)
  PROVE  WhoseOf(S \cup {m}, op, m.object) = WhoseOf(S, op, m.object) \cup {m.user}
  BY DEF WhoseOf, Due, Does

LEMMA WhoseInOther ==
  ASSUME NEW S, NEW m, NEW op, NEW g, ~Does(m, op) \/ m.group # g
  PROVE  WhoseIn(S \cup {m}, op, g) = WhoseIn(S, op, g)
  BY DEF WhoseIn, Due, Does

LEMMA WhoseInOne ==
  ASSUME NEW S, NEW m, NEW op, Does(m, op)
  PROVE  WhoseIn(S \cup {m}, op, m.group) = WhoseIn(S, op, m.group) \cup {m.user}
  BY DEF WhoseIn, Due, Does

(* What each part of the later registry will be does not depend on what is *)
(* done elsewhere.                                                         *)
LEMMA UsersSame ==
  ASSUME NEW r, NEW s, NEW S, NEW m, s.usertomap = r.usertomap, m.op \notin OfUsers
  PROVE  UsersAfter(s, S) = UsersAfter(r, S \cup {m})
<1>1. ~Does(m, "new_user") /\ ~Does(m, "move") /\ ~Does(m, "own")
  BY DEF Does, OfUsers
<1>2. /\ Due(S \cup {m}, "new_user") = Due(S, "new_user")
      /\ Due(S \cup {m}, "move") = Due(S, "move")
      /\ Due(S \cup {m}, "own") = Due(S, "own")
  BY <1>1, DueOther
<1>3. \A u : AccountAfter(s, S, u) = AccountAfter(r, S \cup {m}, u)
  BY <1>2 DEF AccountAfter
<1>4. Whose(S \cup {m}, "new_user") = Whose(S, "new_user")
  BY <1>2 DEF Whose
<1> QED BY <1>3, <1>4 DEF UsersAfter

LEMMA FlagsSame ==
  ASSUME NEW r, NEW s, NEW S, NEW m, DOMAIN s.usertomap = DOMAIN r.usertomap,
         s.loggedin = r.loggedin, m.op \notin OfFlags
  PROVE  FlagsAfter(s, S) = FlagsAfter(r, S \cup {m})
<1>1. ~Does(m, "new_user") /\ ~Does(m, "log_in") /\ ~Does(m, "log_out")
  BY DEF Does, OfFlags
<1>2. /\ Whose(S \cup {m}, "new_user") = Whose(S, "new_user")
      /\ Whose(S \cup {m}, "log_in") = Whose(S, "log_in")
      /\ Whose(S \cup {m}, "log_out") = Whose(S, "log_out")
  BY <1>1, WhoseOther
<1> QED BY <1>2 DEF FlagsAfter

LEMMA SharersSame ==
  ASSUME NEW r, NEW s, NEW S, NEW m, s.heap = r.heap, m.op \notin OfSharers, NEW o
  PROVE  SharersAfter(s, S, o) = SharersAfter(r, S \cup {m}, o)
<1>1. ~Does(m, "share") /\ ~Does(m, "unshare")
  BY DEF Does, OfSharers
<1>2. /\ WhoseOf(S \cup {m}, "share", o) = WhoseOf(S, "share", o)
      /\ WhoseOf(S \cup {m}, "unshare", o) = WhoseOf(S, "unshare", o)
  BY <1>1, WhoseOfOther
<1> QED BY <1>2 DEF SharersAfter

LEMMA LeavesSame ==
  ASSUME NEW r, NEW s, NEW S, NEW m, s.heap = r.heap, m.op \notin OfLeaves
  PROVE  LastLeaves(s, S) = LastLeaves(r, S \cup {m})
<1>1. m.op \notin OfSharers /\ ~Does(m, "size")
  BY DEF Does, OfLeaves
<1>2. \A o : SharersAfter(s, S, o) = SharersAfter(r, S \cup {m}, o)
  BY <1>1, SharersSame
<1>3. Due(S \cup {m}, "size") = Due(S, "size")
  BY <1>1, DueOther
<1> QED BY <1>2, <1>3 DEF LastLeaves

LEMMA UnlistedSame ==
  ASSUME NEW r, NEW s, NEW S, NEW m, s.heap = r.heap, m.op \notin OfUnlisted, NEW g
  PROVE  Unlisted(s, S, g) = Unlisted(r, S \cup {m}, g)
<1>1. m.op \notin OfLeaves /\ ~Does(m, "unlist")
  BY DEF Does, OfUnlisted
<1>2. LastLeaves(s, S) = LastLeaves(r, S \cup {m})
  BY <1>1, LeavesSame
<1>3. Due(S \cup {m}, "unlist") = Due(S, "unlist")
  BY <1>1, DueOther
<1> QED BY <1>2, <1>3 DEF Unlisted

LEMMA GroupsSame ==
  ASSUME NEW r, NEW s, NEW S, NEW m, s.grouptomap = r.grouptomap, m.op \notin OnGroup,
         \A g : Unlisted(s, S, g) = Unlisted(r, S \cup {m}, g)
  PROVE  GroupsAfter(s, S) = GroupsAfter(r, S \cup {m})
<1>1. /\ ~Does(m, "new_group") /\ ~Does(m, "list")
      /\ ~Does(m, "ask") /\ ~Does(m, "answer") /\ ~Does(m, "admit") /\ ~Does(m, "leave")
  BY DEF Does, OnGroup
<1>2. /\ \A g : WhoseIn(S \cup {m}, "ask", g) = WhoseIn(S, "ask", g)
      /\ \A g : WhoseIn(S \cup {m}, "answer", g) = WhoseIn(S, "answer", g)
      /\ \A g : WhoseIn(S \cup {m}, "admit", g) = WhoseIn(S, "admit", g)
      /\ \A g : WhoseIn(S \cup {m}, "leave", g) = WhoseIn(S, "leave", g)
  BY <1>1, WhoseInOther
<1>3. /\ Due(S \cup {m}, "new_group") = Due(S, "new_group")
      /\ Due(S \cup {m}, "list") = Due(S, "list")
  BY <1>1, DueOther
<1>4. \A g : GroupAfter(s, S, g) = GroupAfter(r, S \cup {m}, g)
  BY <1>2, <1>3 DEF GroupAfter
<1> QED BY <1>3, <1>4 DEF GroupsAfter

LEMMA AddressesSame ==
  ASSUME NEW r, NEW s, NEW S, NEW m, s.heap = r.heap, m.op \notin OfAddresses,
         \A n \in S : n.op \in OfAddresses =>
            s.usertomap[n.user].address = r.usertomap[n.user].address, NEW o
  PROVE  AddressesAfter(s, S, o) = AddressesAfter(r, S \cup {m}, o)
<1>1. ~Does(m, "share_at") /\ ~Does(m, "unshare_at")
  BY DEF Does, OfAddresses
<1>2. /\ WhoseOf(S \cup {m}, "share_at", o) = WhoseOf(S, "share_at", o)
      /\ WhoseOf(S \cup {m}, "unshare_at", o) = WhoseOf(S, "unshare_at", o)
  BY <1>1, WhoseOfOther
<1>3. /\ \A u \in WhoseOf(S, "share_at", o) : s.usertomap[u].address = r.usertomap[u].address
      /\ \A u \in WhoseOf(S, "unshare_at", o) : s.usertomap[u].address = r.usertomap[u].address
  BY DEF WhoseOf, Due, OfAddresses
<1>4. /\ AddressesNow(s, WhoseOf(S, "share_at", o)) = AddressesNow(r, WhoseOf(S, "share_at", o))
      /\ AddressesNow(s, WhoseOf(S, "unshare_at", o)) = AddressesNow(r, WhoseOf(S, "unshare_at", o))
  BY <1>3 DEF AddressesNow
<1> QED BY <1>2, <1>4 DEF AddressesAfter

LEMMA ErasedSame ==
  ASSUME NEW r, NEW s, NEW S, NEW m, s.heap = r.heap, m.op \notin OfErased
  PROVE  Erased(s, S) = Erased(r, S \cup {m})
<1>1. m.op \notin OfLeaves /\ ~Does(m, "erase_file")
  BY DEF OfErased, Does
<1>2. LastLeaves(s, S) = LastLeaves(r, S \cup {m})
  BY <1>1, LeavesSame
<1>3. Due(S \cup {m}, "erase_file") = Due(S, "erase_file")
  BY <1>1, DueOther
<1> QED BY <1>2, <1>3 DEF Erased

LEMMA ObjectSame ==
  ASSUME NEW r, NEW s, NEW S, NEW m, s.filetomap = r.filetomap, ~Does(m, "new_file"), NEW f
  PROVE  ObjectAfter(s, S, f) = ObjectAfter(r, S \cup {m}, f)
  BY DueOther DEF ObjectAfter

(* The files are the same if their names and what they lead to are. *)
Names(r, S) == DOMAIN r.filetomap \cup {m.file : m \in Due(S, "new_file")}

Listed(r, S) == {f \in Names(r, S) : ObjectAfter(r, S, f) \in DOMAIN r.heap \ Erased(r, S)}

FileAfter(r, S, f) == [userids |-> SharersAfter(r, S, ObjectAfter(r, S, f)),
                       users |-> AddressesAfter(r, S, ObjectAfter(r, S, f))]

LEMMA FilesAre ==
  ASSUME NEW r, NEW S
  PROVE  FilesAfter(r, S) = [f \in Listed(r, S) |-> FileAfter(r, S, f)]
  BY DEF FilesAfter, Listed, FileAfter, Names

LEMMA FilesSame ==
  ASSUME NEW r, NEW s, NEW S, NEW m, s.filetomap = r.filetomap, s.heap = r.heap,
         m.op \notin OfFiles,
         \A o : AddressesAfter(s, S, o) = AddressesAfter(r, S \cup {m}, o)
  PROVE  FilesAfter(s, S) = FilesAfter(r, S \cup {m})
<1>1. m.op \notin OfErased /\ ~Does(m, "new_file") /\ m.op \notin OfSharers
  BY DEF OfFiles, OfObjects, OfErased, OfLeaves, Does
<1>2. \A o : SharersAfter(s, S, o) = SharersAfter(r, S \cup {m}, o)
  BY <1>1, SharersSame
<1>3. Erased(s, S) = Erased(r, S \cup {m})
  BY <1>1, ErasedSame
<1>4. Due(S \cup {m}, "new_file") = Due(S, "new_file")
  BY <1>1, DueOther
<1>5. \A f : ObjectAfter(s, S, f) = ObjectAfter(r, S \cup {m}, f)
  BY <1>1, ObjectSame
<1>6. Listed(s, S) = Listed(r, S \cup {m})
  BY <1>3, <1>4, <1>5 DEF Listed, Names
<1>7. \A f : FileAfter(s, S, f) = FileAfter(r, S \cup {m}, f)
  BY <1>2, <1>5 DEF FileAfter
<1> QED BY <1>6, <1>7, FilesAre

LEMMA GroupsUnseen ==
  ASSUME NEW r, NEW s, NEW S, NEW m, s.grouptomap = r.grouptomap, s.heap = r.heap,
         m.op \notin OnGroup, m.op \notin OfUnlisted
  PROVE  GroupsAfter(s, S) = GroupsAfter(r, S \cup {m})
<1>1. \A g : Unlisted(s, S, g) = Unlisted(r, S \cup {m}, g)
  BY UnlistedSame
<1> QED BY <1>1, GroupsSame

SameAddresses(r, s, S) == \A n \in S : n.op \in OfAddresses =>
                            s.usertomap[n.user].address = r.usertomap[n.user].address

LEMMA FilesUnseen ==
  ASSUME NEW r, NEW s, NEW S, NEW m, s.filetomap = r.filetomap, s.heap = r.heap,
         m.op \notin OfFiles, m.op \notin OfAddresses, SameAddresses(r, s, S)
  PROVE  FilesAfter(s, S) = FilesAfter(r, S \cup {m})
<1>1. \A o : AddressesAfter(s, S, o) = AddressesAfter(r, S \cup {m}, o)
  BY AddressesSame DEF SameAddresses
<1> QED BY <1>1, FilesSame

-----------------------------------------------------------------------------
(* An update m that is done changes nothing about the later registry: it   *)
(* was due.                                                                *)
Unseen(r, s, S, m) == /\ UsersAfter(s, S) = UsersAfter(r, S \cup {m})
                      /\ FlagsAfter(s, S) = FlagsAfter(r, S \cup {m})
                      /\ GroupsAfter(s, S) = GroupsAfter(r, S \cup {m})
                      /\ FilesAfter(s, S) = FilesAfter(r, S \cup {m})

LEMMA OneIs ==
  ASSUME NEW m
  PROVE  OneOf({m}) = m
  BY DEF OneOf

LEMMA NewUserUnseen ==
  ASSUME NEW r, NEW s, NEW S, NEW m, m.op = "new_user", m.record \in User,
         m.user \notin DOMAIN r.usertomap,
         s.usertomap = Put(r.usertomap, m.user, m.record),
         s.grouptomap = r.grouptomap, s.filetomap = r.filetomap, s.heap = r.heap,
         s.loggedin = r.loggedin,
         \A n \in S : n.op \in OfUsers => n.user # m.user,
         \A n \in S : n.op \in OfAddresses => n.user \in DOMAIN r.usertomap
  PROVE  Unseen(r, s, S, m)
<1>1. /\ m.op \notin OnGroup /\ m.op \notin OfUnlisted /\ m.op \notin OfFiles /\ m.op \notin OfAddresses
      /\ Does(m, "new_user") /\ ~Does(m, "move") /\ ~Does(m, "own") /\ ~Does(m, "log_in") /\ ~Does(m, "log_out")
  BY DEF OnGroup, OfUnlisted, OfLeaves, OfSharers, OfFiles, OfErased, OfObjects, OfAddresses, Does
<1>2. GroupsAfter(s, S) = GroupsAfter(r, S \cup {m})
  BY <1>1, GroupsUnseen
<1>3. SameAddresses(r, s, S)
  BY DEF SameAddresses, Put
<1>4. FilesAfter(s, S) = FilesAfter(r, S \cup {m})
  BY <1>1, <1>3, FilesUnseen
<1>5. Whose(S \cup {m}, "new_user") = Whose(S, "new_user") \cup {m.user}
  BY <1>1, WhoseOne
<1>6. /\ Whose(S \cup {m}, "log_in") = Whose(S, "log_in")
      /\ Whose(S \cup {m}, "log_out") = Whose(S, "log_out")
  BY <1>1, WhoseOther
<1>7. DOMAIN s.usertomap = DOMAIN r.usertomap \cup {m.user}
  BY DEF Put
<1>8. FlagsAfter(s, S) = FlagsAfter(r, S \cup {m})
  BY <1>5, <1>6, <1>7 DEF FlagsAfter
<1>9. Due(S \cup {m}, "move") = Due(S, "move") /\ Due(S \cup {m}, "own") = Due(S, "own")
  BY <1>1, DueOther
<1>10. Due(S \cup {m}, "new_user") = Due(S, "new_user") \cup {m}
  BY <1>1, DueOne
<1>11. ASSUME NEW u, u # m.user PROVE AccountAfter(s, S, u) = AccountAfter(r, S \cup {m}, u)
  <2>1. s.usertomap[u] = r.usertomap[u] \/ u \notin DOMAIN r.usertomap
    BY <1>11 DEF Put
  <2>2. {n \in Due(S \cup {m}, "new_user") : n.user = u} = {n \in Due(S, "new_user") : n.user = u}
    BY <1>10, <1>11
  <2>3. u \in DOMAIN s.usertomap <=> u \in DOMAIN r.usertomap
    BY <1>7, <1>11
  <2> QED BY <1>9, <2>1, <2>2, <2>3 DEF AccountAfter
<1>12. AccountAfter(s, S, m.user) = AccountAfter(r, S \cup {m}, m.user)
  <2>1. AccountAfter(r, S \cup {m}, m.user) = m.record
    <3>1. {n \in Due(S \cup {m}, "new_user") : n.user = m.user} = {m}
      BY <1>10 DEF Due, OfUsers
    <3> QED BY <3>1, OneIs DEF AccountAfter
  <2>2. s.usertomap[m.user] = m.record /\ m.user \in DOMAIN s.usertomap
    BY DEF Put
  <2>3. /\ {n \in Due(S, "move") : n.user = m.user} = {}
        /\ {n \in Due(S, "own") : n.user = m.user} = {}
    BY DEF Due, OfUsers
  <2>4. m.record = [password |-> m.record.password, address |-> m.record.address,
                    groups |-> m.record.groups, mygroups |-> m.record.mygroups]
    BY DEF User
  <2>5. AccountAfter(s, S, m.user) = [password |-> m.record.password, address |-> m.record.address,
                    groups |-> m.record.groups, mygroups |-> m.record.mygroups]
    BY <2>2, <2>3 DEF AccountAfter
  <2> QED BY <2>1, <2>4, <2>5
<1>13. UsersAfter(s, S) = UsersAfter(r, S \cup {m})
  BY <1>5, <1>7, <1>11, <1>12 DEF UsersAfter
<1> QED BY <1>2, <1>4, <1>8, <1>13 DEF Unseen

LEMMA LogInUnseen ==
  ASSUME NEW r, NEW s, NEW S, NEW m, m.op = "log_in",
         s.usertomap = r.usertomap, s.grouptomap = r.grouptomap,
         s.filetomap = r.filetomap, s.heap = r.heap,
         s.loggedin = r.loggedin \cup {m.user}
  PROVE  Unseen(r, s, S, m)
<1>1. /\ m.op \notin OnGroup /\ m.op \notin OfUnlisted /\ m.op \notin OfFiles /\ m.op \notin OfAddresses
      /\ m.op \notin OfUsers /\ Does(m, "log_in") /\ ~Does(m, "new_user") /\ ~Does(m, "log_out")
  BY DEF OnGroup, OfUnlisted, OfLeaves, OfSharers, OfFiles, OfErased, OfObjects, OfAddresses, OfUsers, Does
<1>2. GroupsAfter(s, S) = GroupsAfter(r, S \cup {m})
  BY <1>1, GroupsUnseen
<1>3. SameAddresses(r, s, S)
  BY DEF SameAddresses
<1>4. FilesAfter(s, S) = FilesAfter(r, S \cup {m})
  BY <1>1, <1>3, FilesUnseen
<1>5. UsersAfter(s, S) = UsersAfter(r, S \cup {m})
  BY <1>1, UsersSame
<1>6. /\ Whose(S \cup {m}, "new_user") = Whose(S, "new_user")
      /\ Whose(S \cup {m}, "log_out") = Whose(S, "log_out")
  BY <1>1, WhoseOther
<1>7. Whose(S \cup {m}, "log_in") = Whose(S, "log_in") \cup {m.user}
  BY <1>1, WhoseOne
<1>8. FlagsAfter(s, S) = FlagsAfter(r, S \cup {m})
  BY <1>6, <1>7 DEF FlagsAfter
<1> QED BY <1>2, <1>4, <1>5, <1>8 DEF Unseen

LEMMA LogOutUnseen ==
  ASSUME NEW r, NEW s, NEW S, NEW m, m.op = "log_out",
         s.usertomap = r.usertomap, s.grouptomap = r.grouptomap,
         s.filetomap = r.filetomap, s.heap = r.heap,
         s.loggedin = r.loggedin \ {m.user},
         \A n \in S : n.op \in OfFlags => n.user # m.user
  PROVE  Unseen(r, s, S, m)
<1>1. /\ m.op \notin OnGroup /\ m.op \notin OfUnlisted /\ m.op \notin OfFiles /\ m.op \notin OfAddresses
      /\ m.op \notin OfUsers /\ Does(m, "log_out") /\ ~Does(m, "new_user") /\ ~Does(m, "log_in")
  BY DEF OnGroup, OfUnlisted, OfLeaves, OfSharers, OfFiles, OfErased, OfObjects, OfAddresses, OfUsers, Does
<1>2. GroupsAfter(s, S) = GroupsAfter(r, S \cup {m})
  BY <1>1, GroupsUnseen
<1>3. SameAddresses(r, s, S)
  BY DEF SameAddresses
<1>4. FilesAfter(s, S) = FilesAfter(r, S \cup {m})
  BY <1>1, <1>3, FilesUnseen
<1>5. UsersAfter(s, S) = UsersAfter(r, S \cup {m})
  BY <1>1, UsersSame
<1>6. /\ Whose(S \cup {m}, "new_user") = Whose(S, "new_user")
      /\ Whose(S \cup {m}, "log_in") = Whose(S, "log_in")
  BY <1>1, WhoseOther
<1>7. Whose(S \cup {m}, "log_out") = Whose(S, "log_out") \cup {m.user}
  BY <1>1, WhoseOne
<1>8. m.user \notin Whose(S, "log_in")
  BY DEF Whose, Due, OfFlags
<1>9. FlagsAfter(s, S) = FlagsAfter(r, S \cup {m})
  BY <1>6, <1>7, <1>8 DEF FlagsAfter
<1> QED BY <1>2, <1>4, <1>5, <1>9 DEF Unseen

(* An account's record is edited: the one that says where its user is, and *)
(* the one that gives the user a group.                                    *)
LEMMA AccountUnseen ==
  ASSUME NEW r, NEW s, NEW S, NEW m, m.op \in {"move", "own"},
         m.user \in DOMAIN r.usertomap, DOMAIN s.usertomap = DOMAIN r.usertomap,
         \A u \in DOMAIN r.usertomap : u # m.user => s.usertomap[u] = r.usertomap[u],
         AccountAfter(s, S, m.user) = AccountAfter(r, S \cup {m}, m.user),
         s.grouptomap = r.grouptomap,
         s.filetomap = r.filetomap, s.heap = r.heap, s.loggedin = r.loggedin,
         \A n \in S : n.op \in OfAddresses => n.user \in DOMAIN r.usertomap \ {m.user}
  PROVE  Unseen(r, s, S, m)
<1>1. /\ m.op \notin OnGroup /\ m.op \notin OfUnlisted /\ m.op \notin OfFiles /\ m.op \notin OfAddresses
      /\ m.op \notin OfFlags /\ ~Does(m, "new_user")
  BY DEF OnGroup, OfUnlisted, OfLeaves, OfSharers, OfFiles, OfErased, OfObjects, OfAddresses, OfFlags, Does
<1>2. GroupsAfter(s, S) = GroupsAfter(r, S \cup {m})
  BY <1>1, GroupsUnseen
<1>3. SameAddresses(r, s, S)
  BY DEF SameAddresses
<1>4. FilesAfter(s, S) = FilesAfter(r, S \cup {m})
  BY <1>1, <1>3, FilesUnseen
<1>5. FlagsAfter(s, S) = FlagsAfter(r, S \cup {m})
  BY <1>1, FlagsSame
<1>6. Whose(S \cup {m}, "new_user") = Whose(S, "new_user")
  BY <1>1, WhoseOther
<1>7. Due(S \cup {m}, "new_user") = Due(S, "new_user")
  BY <1>1, DueOther
<1>8. ASSUME NEW u, u # m.user PROVE AccountAfter(s, S, u) = AccountAfter(r, S \cup {m}, u)
  <2>1. /\ {n \in Due(S \cup {m}, "move") : n.user = u} = {n \in Due(S, "move") : n.user = u}
        /\ {n \in Due(S \cup {m}, "own") : n.user = u} = {n \in Due(S, "own") : n.user = u}
    BY <1>8 DEF Due
  <2>2. u \in DOMAIN r.usertomap => s.usertomap[u] = r.usertomap[u]
    BY <1>8
  <2> QED BY <1>7, <2>1, <2>2 DEF AccountAfter
<1>9. UsersAfter(s, S) = UsersAfter(r, S \cup {m})
  BY <1>6, <1>8 DEF UsersAfter
<1> QED BY <1>2, <1>4, <1>5, <1>9 DEF Unseen

LEMMA MoveUnseen ==
  ASSUME NEW r, NEW s, NEW S, NEW m, m.op = "move",
         m.user \in DOMAIN r.usertomap, r.usertomap[m.user] \in User,
         s.usertomap = [r.usertomap EXCEPT ![m.user].address = m.address],
         s.grouptomap = r.grouptomap,
         s.filetomap = r.filetomap, s.heap = r.heap, s.loggedin = r.loggedin,
         \A n \in S : n.op \in OfUsers => n.user # m.user,
         \A n \in S : n.op \in OfAddresses => n.user \in DOMAIN r.usertomap \ {m.user}
  PROVE  Unseen(r, s, S, m)
<1>1. Does(m, "move") /\ ~Does(m, "own")
  BY DEF Does
<1>2. Due(S \cup {m}, "own") = Due(S, "own")
  BY <1>1, DueOther
<1>3. /\ {n \in Due(S, "move") : n.user = m.user} = {}
      /\ {n \in Due(S, "own") : n.user = m.user} = {}
      /\ {n \in Due(S \cup {m}, "move") : n.user = m.user} = {m}
  BY DEF Due, OfUsers
<1>4. s.usertomap[m.user] = [r.usertomap[m.user] EXCEPT !.address = m.address]
  OBVIOUS
<1> DEFINE now == r.usertomap[m.user]
<1>5. s.usertomap[m.user] = [password |-> now.password, address |-> m.address,
                             groups |-> now.groups, mygroups |-> now.mygroups]
  BY <1>4 DEF User
<1>6. AccountAfter(s, S, m.user) = [password |-> now.password, address |-> m.address,
                                    groups |-> now.groups, mygroups |-> now.mygroups]
  <2>1. AccountAfter(s, S, m.user) =
          [password |-> s.usertomap[m.user].password, address |-> s.usertomap[m.user].address,
           groups |-> s.usertomap[m.user].groups \cup {}, mygroups |-> s.usertomap[m.user].mygroups \cup {}]
    BY <1>3 DEF AccountAfter
  <2> QED BY <1>5, <2>1
<1>7. AccountAfter(r, S \cup {m}, m.user) = [password |-> now.password, address |-> m.address,
                                             groups |-> now.groups, mygroups |-> now.mygroups]
  <2>1. OneOf({m}) = m
    BY OneIs
  <2>2. AccountAfter(r, S \cup {m}, m.user) =
          [password |-> now.password, address |-> m.address,
           groups |-> now.groups \cup {}, mygroups |-> now.mygroups \cup {}]
    BY <1>2, <1>3, <2>1 DEF AccountAfter
  <2> QED BY <2>2
<1>8. AccountAfter(s, S, m.user) = AccountAfter(r, S \cup {m}, m.user)
  BY <1>6, <1>7
<1>9. DOMAIN s.usertomap = DOMAIN r.usertomap
      /\ \A u \in DOMAIN r.usertomap : u # m.user => s.usertomap[u] = r.usertomap[u]
  OBVIOUS
<1>10. m.op \in {"move", "own"}
  OBVIOUS
<1> QED BY <1>8, <1>9, <1>10, AccountUnseen, SMTT(30)

Owned(now, then, g) == then = [password |-> now.password, address |-> now.address,
                               groups |-> now.groups \cup {g}, mygroups |-> now.mygroups \cup {g}]

LEMMA OwnUnseen ==
  ASSUME NEW r, NEW s, NEW S, NEW m, m.op = "own", m.user \in DOMAIN r.usertomap,
         DOMAIN s.usertomap = DOMAIN r.usertomap,
         \A u \in DOMAIN r.usertomap : u # m.user => s.usertomap[u] = r.usertomap[u],
         Owned(r.usertomap[m.user], s.usertomap[m.user], m.group),
         s.grouptomap = r.grouptomap,
         s.filetomap = r.filetomap, s.heap = r.heap, s.loggedin = r.loggedin,
         \A n \in S : n.op \in OfUsers => n.user # m.user,
         \A n \in S : n.op \in OfAddresses => n.user \in DOMAIN r.usertomap \ {m.user}
  PROVE  Unseen(r, s, S, m)
<1> DEFINE now == r.usertomap[m.user]
<1>1. ~Does(m, "move") /\ Does(m, "own")
  BY DEF Does
<1>2. Due(S \cup {m}, "move") = Due(S, "move") /\ Due(S \cup {m}, "own") = Due(S, "own") \cup {m}
  BY <1>1, DueOther, DueOne
<1>3. /\ {n \in Due(S, "move") : n.user = m.user} = {}
      /\ {n \in Due(S, "own") : n.user = m.user} = {}
  BY DEF Due, OfUsers
<1>4. {n \in Due(S \cup {m}, "own") : n.user = m.user} = {m}
  BY <1>2, <1>3
<1> DEFINE gs == {n.group : n \in {x \in Due(S \cup {m}, "own") : x.user = m.user}}
           hs == {n.group : n \in {x \in Due(S, "own") : x.user = m.user}}
<1>5. gs = {m.group} /\ hs = {}
  BY <1>3, <1>4
<1> DEFINE later == [password |-> now.password, address |-> now.address,
                     groups |-> now.groups \cup {m.group}, mygroups |-> now.mygroups \cup {m.group}]
<1>6. s.usertomap[m.user] = later
  BY DEF Owned
<1>7. later.password = now.password /\ later.address = now.address
      /\ later.groups = now.groups \cup {m.group} /\ later.mygroups = now.mygroups \cup {m.group}
  OBVIOUS
<1>8. AccountAfter(s, S, m.user) = [password |-> now.password, address |-> now.address,
         groups |-> (now.groups \cup {m.group}) \cup hs, mygroups |-> (now.mygroups \cup {m.group}) \cup hs]
  <2> HIDE DEF later
  <2> QED BY <1>3, <1>6, <1>7 DEF AccountAfter
<1>9. AccountAfter(r, S \cup {m}, m.user) = [password |-> now.password, address |-> now.address,
         groups |-> now.groups \cup gs, mygroups |-> now.mygroups \cup gs]
  BY <1>2, <1>3 DEF AccountAfter
<1>10. AccountAfter(s, S, m.user) = AccountAfter(r, S \cup {m}, m.user)
  <2> HIDE DEF gs, hs, later
  <2> QED BY <1>5, <1>8, <1>9
<1>11. m.op \in {"move", "own"}
  OBVIOUS
<1> QED BY <1>10, <1>11, AccountUnseen, SMTT(30)

(* A group's record is edited. *)
Regrouped(now, then, members, files, requests) ==
  /\ then.adminid = now.adminid
  /\ then.members = members
  /\ then.files = files
  /\ then.requests = requests

LEMMA GroupUnseen ==
  ASSUME NEW r, NEW s, NEW S, NEW m, m.op \in OnGroup, ~Does(m, "new_group"),
         DOMAIN s.grouptomap = DOMAIN r.grouptomap,
         \A g \in DOMAIN r.grouptomap : g # m.group => s.grouptomap[g] = r.grouptomap[g],
         GroupAfter(s, S, m.group) = GroupAfter(r, S \cup {m}, m.group),
         s.usertomap = r.usertomap,
         s.filetomap = r.filetomap, s.heap = r.heap, s.loggedin = r.loggedin
  PROVE  Unseen(r, s, S, m)
<1>1. /\ m.op \notin OfUsers /\ m.op \notin OfUnlisted /\ m.op \notin OfFiles /\ m.op \notin OfAddresses
      /\ m.op \notin OfFlags
  BY DEF OnGroup, OfUnlisted, OfLeaves, OfSharers, OfFiles, OfErased, OfObjects, OfAddresses, OfFlags, OfUsers
<1>2. UsersAfter(s, S) = UsersAfter(r, S \cup {m})
  BY <1>1, UsersSame
<1>3. SameAddresses(r, s, S)
  BY DEF SameAddresses
<1>4. FilesAfter(s, S) = FilesAfter(r, S \cup {m})
  BY <1>1, <1>3, FilesUnseen
<1>5. FlagsAfter(s, S) = FlagsAfter(r, S \cup {m})
  BY <1>1, FlagsSame
<1>6. Due(S \cup {m}, "new_group") = Due(S, "new_group")
  BY DueOther
<1>7. ASSUME NEW g, g # m.group PROVE GroupAfter(s, S, g) = GroupAfter(r, S \cup {m}, g)
  <2>1. /\ WhoseIn(S \cup {m}, "ask", g) = WhoseIn(S, "ask", g)
        /\ WhoseIn(S \cup {m}, "answer", g) = WhoseIn(S, "answer", g)
        /\ WhoseIn(S \cup {m}, "admit", g) = WhoseIn(S, "admit", g)
        /\ WhoseIn(S \cup {m}, "leave", g) = WhoseIn(S, "leave", g)
    BY <1>7, WhoseInOther
  <2>2. {n \in Due(S \cup {m}, "list") : n.group = g} = {n \in Due(S, "list") : n.group = g}
    BY <1>7 DEF Due
  <2>3. Unlisted(s, S, g) = Unlisted(r, S \cup {m}, g)
    BY <1>1, UnlistedSame
  <2>4. g \in DOMAIN r.grouptomap => s.grouptomap[g] = r.grouptomap[g]
    BY <1>7
  <2> QED BY <1>6, <2>1, <2>2, <2>3, <2>4 DEF GroupAfter
<1>8. GroupsAfter(s, S) = GroupsAfter(r, S \cup {m})
  BY <1>6, <1>7 DEF GroupsAfter
<1> QED BY <1>2, <1>4, <1>5, <1>8 DEF Unseen

(* What a group that is there will be. *)
ListedIn(P, g) == {m.file : m \in {n \in Due(P, "list") : n.group = g}}

LEMMA GroupAfterIs ==
  ASSUME NEW r, NEW P, NEW g, g \in DOMAIN r.grouptomap
  PROVE  GroupAfter(r, P, g) =
           [adminid |-> r.grouptomap[g].adminid,
            members |-> (r.grouptomap[g].members \cup WhoseIn(P, "admit", g)) \ WhoseIn(P, "leave", g),
            files |-> (r.grouptomap[g].files \cup ListedIn(P, g)) \ Unlisted(r, P, g),
            requests |-> (r.grouptomap[g].requests \cup WhoseIn(P, "ask", g)) \ WhoseIn(P, "answer", g)]
  BY DEF GroupAfter, ListedIn

LEMMA ListedInOther ==
  ASSUME NEW S, NEW m, ~Does(m, "list"), NEW g
  PROVE  ListedIn(S \cup {m}, g) = ListedIn(S, g)
  BY DueOther DEF ListedIn

(* Its four parts may be compared one by one. *)
SameGroupAfter(r, s, P, R, g) ==
  /\ s.grouptomap[g].adminid = r.grouptomap[g].adminid
  /\ (s.grouptomap[g].members \cup WhoseIn(R, "admit", g)) \ WhoseIn(R, "leave", g)
       = (r.grouptomap[g].members \cup WhoseIn(P, "admit", g)) \ WhoseIn(P, "leave", g)
  /\ (s.grouptomap[g].files \cup ListedIn(R, g)) \ Unlisted(s, R, g)
       = (r.grouptomap[g].files \cup ListedIn(P, g)) \ Unlisted(r, P, g)
  /\ (s.grouptomap[g].requests \cup WhoseIn(R, "ask", g)) \ WhoseIn(R, "answer", g)
       = (r.grouptomap[g].requests \cup WhoseIn(P, "ask", g)) \ WhoseIn(P, "answer", g)

LEMMA GroupPartsSame ==
  ASSUME NEW r, NEW s, NEW P, NEW R, NEW g, g \in DOMAIN r.grouptomap, g \in DOMAIN s.grouptomap,
         SameGroupAfter(r, s, P, R, g)
  PROVE  GroupAfter(s, R, g) = GroupAfter(r, P, g)
<1> DEFINE now == r.grouptomap[g]
           then == s.grouptomap[g]
<1>1. GroupAfter(r, P, g) =
           [adminid |-> now.adminid,
            members |-> (now.members \cup WhoseIn(P, "admit", g)) \ WhoseIn(P, "leave", g),
            files |-> (now.files \cup ListedIn(P, g)) \ Unlisted(r, P, g),
            requests |-> (now.requests \cup WhoseIn(P, "ask", g)) \ WhoseIn(P, "answer", g)]
  BY GroupAfterIs
<1>2. GroupAfter(s, R, g) =
           [adminid |-> then.adminid,
            members |-> (then.members \cup WhoseIn(R, "admit", g)) \ WhoseIn(R, "leave", g),
            files |-> (then.files \cup ListedIn(R, g)) \ Unlisted(s, R, g),
            requests |-> (then.requests \cup WhoseIn(R, "ask", g)) \ WhoseIn(R, "answer", g)]
  BY GroupAfterIs
<1> QED BY <1>1, <1>2 DEF SameGroupAfter

LEMMA AskUnseen ==
  ASSUME NEW r, NEW s, NEW S, NEW m, m.op = "ask", m.group \in DOMAIN r.grouptomap,
         DOMAIN s.grouptomap = DOMAIN r.grouptomap,
         \A g \in DOMAIN r.grouptomap : g # m.group => s.grouptomap[g] = r.grouptomap[g],
         NEW now, now = r.grouptomap[m.group],
         Regrouped(now, s.grouptomap[m.group], now.members, now.files, now.requests \cup {m.user}),
         s.usertomap = r.usertomap,
         s.filetomap = r.filetomap, s.heap = r.heap, s.loggedin = r.loggedin
  PROVE  Unseen(r, s, S, m)
<1> DEFINE g == m.group
<1>1. /\ m.op \in OnGroup /\ m.op \notin OfUnlisted /\ ~Does(m, "new_group") /\ ~Does(m, "list")
      /\ Does(m, "ask") /\ ~Does(m, "answer") /\ ~Does(m, "admit") /\ ~Does(m, "leave")
  BY DEF OnGroup, OfUnlisted, OfLeaves, OfSharers, Does
<1>2. /\ WhoseIn(S \cup {m}, "answer", g) = WhoseIn(S, "answer", g)
      /\ WhoseIn(S \cup {m}, "admit", g) = WhoseIn(S, "admit", g)
      /\ WhoseIn(S \cup {m}, "leave", g) = WhoseIn(S, "leave", g)
  BY <1>1, WhoseInOther
<1>3. WhoseIn(S \cup {m}, "ask", g) = WhoseIn(S, "ask", g) \cup {m.user}
  BY <1>1, WhoseInOne
<1>4. ListedIn(S \cup {m}, g) = ListedIn(S, g)
  BY <1>1, ListedInOther
<1>5. Unlisted(s, S, g) = Unlisted(r, S \cup {m}, g)
  BY <1>1, UnlistedSame
<1>6. SameGroupAfter(r, s, S \cup {m}, S, g)
  BY <1>2, <1>3, <1>4, <1>5 DEF SameGroupAfter, Regrouped
<1>7. GroupAfter(s, S, g) = GroupAfter(r, S \cup {m}, g)
  BY <1>6, GroupPartsSame
<1> QED BY <1>1, <1>7, GroupUnseen

LEMMA AnswerUnseen ==
  ASSUME NEW r, NEW s, NEW S, NEW m, m.op = "answer", m.group \in DOMAIN r.grouptomap,
         DOMAIN s.grouptomap = DOMAIN r.grouptomap,
         \A g \in DOMAIN r.grouptomap : g # m.group => s.grouptomap[g] = r.grouptomap[g],
         NEW now, now = r.grouptomap[m.group],
         Regrouped(now, s.grouptomap[m.group], now.members, now.files, now.requests \ {m.user}),
         s.usertomap = r.usertomap,
         s.filetomap = r.filetomap, s.heap = r.heap, s.loggedin = r.loggedin,
         \A n \in S : n.op = "ask" => n.user # m.user
  PROVE  Unseen(r, s, S, m)
<1> DEFINE g == m.group
<1>1. /\ m.op \in OnGroup /\ m.op \notin OfUnlisted /\ ~Does(m, "new_group") /\ ~Does(m, "list")
      /\ Does(m, "answer") /\ ~Does(m, "ask") /\ ~Does(m, "admit") /\ ~Does(m, "leave")
  BY DEF OnGroup, OfUnlisted, OfLeaves, OfSharers, Does
<1>2. /\ WhoseIn(S \cup {m}, "ask", g) = WhoseIn(S, "ask", g)
      /\ WhoseIn(S \cup {m}, "admit", g) = WhoseIn(S, "admit", g)
      /\ WhoseIn(S \cup {m}, "leave", g) = WhoseIn(S, "leave", g)
  BY <1>1, WhoseInOther
<1>3. WhoseIn(S \cup {m}, "answer", g) = WhoseIn(S, "answer", g) \cup {m.user}
  BY <1>1, WhoseInOne
<1>4. ListedIn(S \cup {m}, g) = ListedIn(S, g)
  BY <1>1, ListedInOther
<1>5. Unlisted(s, S, g) = Unlisted(r, S \cup {m}, g)
  BY <1>1, UnlistedSame
<1>6. m.user \notin WhoseIn(S, "ask", g)
  BY DEF WhoseIn, Due
<1>7. SameGroupAfter(r, s, S \cup {m}, S, g)
  BY <1>2, <1>3, <1>4, <1>5, <1>6 DEF SameGroupAfter, Regrouped
<1>8. GroupAfter(s, S, g) = GroupAfter(r, S \cup {m}, g)
  BY <1>7, GroupPartsSame
<1> QED BY <1>1, <1>8, GroupUnseen

LEMMA AdmitUnseen ==
  ASSUME NEW r, NEW s, NEW S, NEW m, m.op = "admit", m.group \in DOMAIN r.grouptomap,
         DOMAIN s.grouptomap = DOMAIN r.grouptomap,
         \A g \in DOMAIN r.grouptomap : g # m.group => s.grouptomap[g] = r.grouptomap[g],
         NEW now, now = r.grouptomap[m.group],
         Regrouped(now, s.grouptomap[m.group], now.members \cup {m.user}, now.files, now.requests),
         s.usertomap = r.usertomap,
         s.filetomap = r.filetomap, s.heap = r.heap, s.loggedin = r.loggedin
  PROVE  Unseen(r, s, S, m)
<1> DEFINE g == m.group
<1>1. /\ m.op \in OnGroup /\ m.op \notin OfUnlisted /\ ~Does(m, "new_group") /\ ~Does(m, "list")
      /\ Does(m, "admit") /\ ~Does(m, "ask") /\ ~Does(m, "answer") /\ ~Does(m, "leave")
  BY DEF OnGroup, OfUnlisted, OfLeaves, OfSharers, Does
<1>2. /\ WhoseIn(S \cup {m}, "ask", g) = WhoseIn(S, "ask", g)
      /\ WhoseIn(S \cup {m}, "answer", g) = WhoseIn(S, "answer", g)
      /\ WhoseIn(S \cup {m}, "leave", g) = WhoseIn(S, "leave", g)
  BY <1>1, WhoseInOther
<1>3. WhoseIn(S \cup {m}, "admit", g) = WhoseIn(S, "admit", g) \cup {m.user}
  BY <1>1, WhoseInOne
<1>4. ListedIn(S \cup {m}, g) = ListedIn(S, g)
  BY <1>1, ListedInOther
<1>5. Unlisted(s, S, g) = Unlisted(r, S \cup {m}, g)
  BY <1>1, UnlistedSame
<1>6. SameGroupAfter(r, s, S \cup {m}, S, g)
  BY <1>2, <1>3, <1>4, <1>5 DEF SameGroupAfter, Regrouped
<1>7. GroupAfter(s, S, g) = GroupAfter(r, S \cup {m}, g)
  BY <1>6, GroupPartsSame
<1> QED BY <1>1, <1>7, GroupUnseen

LEMMA LeaveUnseen ==
  ASSUME NEW r, NEW s, NEW S, NEW m, m.op = "leave", m.group \in DOMAIN r.grouptomap,
         DOMAIN s.grouptomap = DOMAIN r.grouptomap,
         \A g \in DOMAIN r.grouptomap : g # m.group => s.grouptomap[g] = r.grouptomap[g],
         NEW now, now = r.grouptomap[m.group],
         Regrouped(now, s.grouptomap[m.group], now.members \ {m.user}, now.files, now.requests),
         s.usertomap = r.usertomap,
         s.filetomap = r.filetomap, s.heap = r.heap, s.loggedin = r.loggedin,
         \A n \in S : n.op = "admit" => n.user # m.user
  PROVE  Unseen(r, s, S, m)
<1> DEFINE g == m.group
<1>1. /\ m.op \in OnGroup /\ m.op \notin OfUnlisted /\ ~Does(m, "new_group") /\ ~Does(m, "list")
      /\ Does(m, "leave") /\ ~Does(m, "ask") /\ ~Does(m, "answer") /\ ~Does(m, "admit")
  BY DEF OnGroup, OfUnlisted, OfLeaves, OfSharers, Does
<1>2. /\ WhoseIn(S \cup {m}, "ask", g) = WhoseIn(S, "ask", g)
      /\ WhoseIn(S \cup {m}, "answer", g) = WhoseIn(S, "answer", g)
      /\ WhoseIn(S \cup {m}, "admit", g) = WhoseIn(S, "admit", g)
  BY <1>1, WhoseInOther
<1>3. WhoseIn(S \cup {m}, "leave", g) = WhoseIn(S, "leave", g) \cup {m.user}
  BY <1>1, WhoseInOne
<1>4. ListedIn(S \cup {m}, g) = ListedIn(S, g)
  BY <1>1, ListedInOther
<1>5. Unlisted(s, S, g) = Unlisted(r, S \cup {m}, g)
  BY <1>1, UnlistedSame
<1>6. m.user \notin WhoseIn(S, "admit", g)
  BY DEF WhoseIn, Due
<1>7. SameGroupAfter(r, s, S \cup {m}, S, g)
  BY <1>2, <1>3, <1>4, <1>5, <1>6 DEF SameGroupAfter, Regrouped
<1>8. GroupAfter(s, S, g) = GroupAfter(r, S \cup {m}, g)
  BY <1>7, GroupPartsSame
<1> QED BY <1>1, <1>8, GroupUnseen

LEMMA ListUnseen ==
  ASSUME NEW r, NEW s, NEW S, NEW m, m.op = "list", m.group \in DOMAIN r.grouptomap,
         DOMAIN s.grouptomap = DOMAIN r.grouptomap,
         \A g \in DOMAIN r.grouptomap : g # m.group => s.grouptomap[g] = r.grouptomap[g],
         NEW now, now = r.grouptomap[m.group],
         Regrouped(now, s.grouptomap[m.group], now.members, now.files \cup {m.file}, now.requests),
         s.usertomap = r.usertomap,
         s.filetomap = r.filetomap, s.heap = r.heap, s.loggedin = r.loggedin
  PROVE  Unseen(r, s, S, m)
<1> DEFINE g == m.group
<1>1. /\ m.op \in OnGroup /\ m.op \notin OfUnlisted /\ ~Does(m, "new_group")
      /\ ~Does(m, "ask") /\ ~Does(m, "answer") /\ ~Does(m, "admit") /\ ~Does(m, "leave")
  BY DEF OnGroup, OfUnlisted, OfLeaves, OfSharers, Does
<1>2. /\ WhoseIn(S \cup {m}, "ask", g) = WhoseIn(S, "ask", g)
      /\ WhoseIn(S \cup {m}, "answer", g) = WhoseIn(S, "answer", g)
      /\ WhoseIn(S \cup {m}, "admit", g) = WhoseIn(S, "admit", g)
      /\ WhoseIn(S \cup {m}, "leave", g) = WhoseIn(S, "leave", g)
  BY <1>1, WhoseInOther
<1>3. ListedIn(S \cup {m}, g) = ListedIn(S, g) \cup {m.file}
  BY DEF ListedIn, Due
<1>4. Unlisted(s, S, g) = Unlisted(r, S \cup {m}, g)
  BY <1>1, UnlistedSame
<1>5. SameGroupAfter(r, s, S \cup {m}, S, g)
  BY <1>2, <1>3, <1>4 DEF SameGroupAfter, Regrouped
<1>6. GroupAfter(s, S, g) = GroupAfter(r, S \cup {m}, g)
  BY <1>5, GroupPartsSame
<1> QED BY <1>1, <1>6, GroupUnseen

LEMMA NewGroupUnseen ==
  ASSUME NEW r, NEW s, NEW S, NEW m, m.op = "new_group", m.group \notin DOMAIN r.grouptomap,
         m.record \in Group,
         s.grouptomap = Put(r.grouptomap, m.group, m.record),
         s.usertomap = r.usertomap,
         s.filetomap = r.filetomap, s.heap = r.heap, s.loggedin = r.loggedin,
         \A n \in S : n.op = "new_group" => n.group # m.group,
         \A n \in S : n.op \in ByGroup => n.group \in DOMAIN r.grouptomap
  PROVE  Unseen(r, s, S, m)
<1> DEFINE g == m.group
<1>1. /\ m.op \notin OfUsers /\ m.op \notin OfUnlisted /\ m.op \notin OfFiles /\ m.op \notin OfAddresses
      /\ m.op \notin OfFlags /\ Does(m, "new_group") /\ ~Does(m, "list") /\ m.op \notin OfLeaves
      /\ ~Does(m, "ask") /\ ~Does(m, "answer") /\ ~Does(m, "admit") /\ ~Does(m, "leave")
  BY DEF OfUnlisted, OfLeaves, OfSharers, OfFiles, OfErased, OfObjects, OfAddresses, OfFlags, OfUsers, Does
<1>2. UsersAfter(s, S) = UsersAfter(r, S \cup {m})
  BY <1>1, UsersSame
<1>3. SameAddresses(r, s, S)
  BY DEF SameAddresses
<1>4. FilesAfter(s, S) = FilesAfter(r, S \cup {m})
  BY <1>1, <1>3, FilesUnseen
<1>5. FlagsAfter(s, S) = FlagsAfter(r, S \cup {m})
  BY <1>1, FlagsSame
<1>6. Due(S \cup {m}, "new_group") = Due(S, "new_group") \cup {m}
  BY <1>1, DueOne
<1>7. DOMAIN s.grouptomap = DOMAIN r.grouptomap \cup {g} /\ s.grouptomap[g] = m.record
      /\ \A x \in DOMAIN r.grouptomap : s.grouptomap[x] = r.grouptomap[x]
  BY DEF Put
<1>8. ASSUME NEW x, x # g PROVE GroupAfter(s, S, x) = GroupAfter(r, S \cup {m}, x)
  <2>1. /\ WhoseIn(S \cup {m}, "ask", x) = WhoseIn(S, "ask", x)
        /\ WhoseIn(S \cup {m}, "answer", x) = WhoseIn(S, "answer", x)
        /\ WhoseIn(S \cup {m}, "admit", x) = WhoseIn(S, "admit", x)
        /\ WhoseIn(S \cup {m}, "leave", x) = WhoseIn(S, "leave", x)
    BY <1>1, WhoseInOther
  <2>2. ListedIn(S \cup {m}, x) = ListedIn(S, x)
    BY <1>1, ListedInOther
  <2>3. Unlisted(s, S, x) = Unlisted(r, S \cup {m}, x)
    BY <1>1, UnlistedSame
  <2>4. CASE x \in DOMAIN r.grouptomap
    <3>1. x \in DOMAIN s.grouptomap /\ s.grouptomap[x] = r.grouptomap[x]
      BY <1>7, <2>4
    <3>2. SameGroupAfter(r, s, S \cup {m}, S, x)
      BY <2>1, <2>2, <2>3, <3>1 DEF SameGroupAfter
    <3> QED BY <2>4, <3>1, <3>2, GroupPartsSame
  <2>5. CASE x \notin DOMAIN r.grouptomap
    <3>1. x \notin DOMAIN s.grouptomap
      BY <1>7, <1>8, <2>5
    <3>2. {n \in Due(S \cup {m}, "new_group") : n.group = x} = {n \in Due(S, "new_group") : n.group = x}
      BY <1>6, <1>8
    <3> QED BY <2>5, <3>1, <3>2 DEF GroupAfter
  <2> QED BY <2>4, <2>5
<1>9. GroupAfter(s, S, g) = GroupAfter(r, S \cup {m}, g)
  <2>1. GroupAfter(r, S \cup {m}, g) = m.record
    <3>1. {n \in Due(S \cup {m}, "new_group") : n.group = g} = {m}
      BY <1>6 DEF Due
    <3> QED BY <3>1, OneIs DEF GroupAfter
  <2>2. /\ WhoseIn(S, "ask", g) = {} /\ WhoseIn(S, "answer", g) = {}
        /\ WhoseIn(S, "admit", g) = {} /\ WhoseIn(S, "leave", g) = {}
    BY DEF WhoseIn, Due, ByGroup
  <2>3. ListedIn(S, g) = {}
    BY DEF ListedIn, Due, ByGroup
  <2>4. Unlisted(s, S, g) = {}
    BY DEF Unlisted, LastLeaves, Due, ByGroup
  <2>5. GroupAfter(s, S, g) = [adminid |-> m.record.adminid, members |-> m.record.members,
                               files |-> m.record.files, requests |-> m.record.requests]
    <3> DEFINE now == s.grouptomap[g]
    <3>1. GroupAfter(s, S, g) =
           [adminid |-> now.adminid,
            members |-> (now.members \cup WhoseIn(S, "admit", g)) \ WhoseIn(S, "leave", g),
            files |-> (now.files \cup ListedIn(S, g)) \ Unlisted(s, S, g),
            requests |-> (now.requests \cup WhoseIn(S, "ask", g)) \ WhoseIn(S, "answer", g)]
      <4>1. g \in DOMAIN s.grouptomap
        BY <1>7
      <4> QED BY <4>1, GroupAfterIs
    <3>2. /\ (now.members \cup WhoseIn(S, "admit", g)) \ WhoseIn(S, "leave", g) = m.record.members
          /\ (now.files \cup ListedIn(S, g)) \ Unlisted(s, S, g) = m.record.files
          /\ (now.requests \cup WhoseIn(S, "ask", g)) \ WhoseIn(S, "answer", g) = m.record.requests
          /\ now.adminid = m.record.adminid
      BY <1>7, <2>2, <2>3, <2>4
    <3> QED BY <3>1, <3>2
  <2>6. m.record = [adminid |-> m.record.adminid, members |-> m.record.members,
                    files |-> m.record.files, requests |-> m.record.requests]
    BY DEF Group
  <2> QED BY <2>1, <2>5, <2>6
<1>10. DOMAIN s.grouptomap \cup {n.group : n \in Due(S, "new_group")}
         = DOMAIN r.grouptomap \cup {n.group : n \in Due(S \cup {m}, "new_group")}
  BY <1>6, <1>7
<1>11. \A x : GroupAfter(s, S, x) = GroupAfter(r, S \cup {m}, x)
  BY <1>8, <1>9
<1>12. GroupsAfter(s, S) = GroupsAfter(r, S \cup {m})
  BY <1>10, <1>11 DEF GroupsAfter
<1> QED BY <1>2, <1>4, <1>5, <1>12 DEF Unseen

LEMMA UnlistUnseen ==
  ASSUME NEW r, NEW s, NEW S, NEW m, m.op = "unlist", m.group \in DOMAIN r.grouptomap,
         DOMAIN s.grouptomap = DOMAIN r.grouptomap,
         \A g \in DOMAIN r.grouptomap : g # m.group => s.grouptomap[g] = r.grouptomap[g],
         NEW now, now = r.grouptomap[m.group],
         NEW name, name = r.heap[m.object].filename,
         Regrouped(now, s.grouptomap[m.group], now.members, now.files \ {name}, now.requests),
         s.usertomap = r.usertomap,
         s.filetomap = r.filetomap, s.heap = r.heap, s.loggedin = r.loggedin,
         \A n \in S : n.op = "list" => n.file # name
  PROVE  Unseen(r, s, S, m)
<1> DEFINE g == m.group
<1>1. /\ m.op \notin OfUsers /\ m.op \notin OfFiles /\ m.op \notin OfAddresses /\ m.op \notin OfLeaves
      /\ m.op \notin OfFlags /\ ~Does(m, "new_group") /\ ~Does(m, "list") /\ Does(m, "unlist")
      /\ ~Does(m, "ask") /\ ~Does(m, "answer") /\ ~Does(m, "admit") /\ ~Does(m, "leave")
  BY DEF OfLeaves, OfSharers, OfFiles, OfErased, OfObjects, OfAddresses, OfFlags, OfUsers, Does
<1>2. UsersAfter(s, S) = UsersAfter(r, S \cup {m})
  BY <1>1, UsersSame
<1>3. SameAddresses(r, s, S)
  BY DEF SameAddresses
<1>4. FilesAfter(s, S) = FilesAfter(r, S \cup {m})
  BY <1>1, <1>3, FilesUnseen
<1>5. FlagsAfter(s, S) = FlagsAfter(r, S \cup {m})
  BY <1>1, FlagsSame
<1>6. Due(S \cup {m}, "new_group") = Due(S, "new_group")
  BY <1>1, DueOther
<1>7. LastLeaves(s, S) = LastLeaves(r, S \cup {m})
  BY <1>1, LeavesSame
<1>8. Due(S \cup {m}, "unlist") = Due(S, "unlist") \cup {m}
  BY <1>1, DueOne
<1> DEFINE leaves == LastLeaves(r, S \cup {m})
<1>9. \A x : /\ Unlisted(s, S, x) =
                  {r.heap[k.object].filename : k \in {n \in Due(S, "unlist") \cup leaves : n.group = x}}
             /\ Unlisted(r, S \cup {m}, x) =
                  {r.heap[k.object].filename :
                     k \in {n \in Due(S \cup {m}, "unlist") \cup leaves : n.group = x}}
  BY <1>7 DEF Unlisted
<1> HIDE DEF leaves
<1>10. Unlisted(r, S \cup {m}, g) = Unlisted(s, S, g) \cup {name}
  <2>1. {n \in Due(S \cup {m}, "unlist") \cup leaves : n.group = g}
          = {n \in Due(S, "unlist") \cup leaves : n.group = g} \cup {m}
    BY <1>8
  <2> DEFINE A == {n \in Due(S, "unlist") \cup leaves : n.group = g}
  <2>2. {r.heap[k.object].filename : k \in A \cup {m}} = {r.heap[k.object].filename : k \in A} \cup {name}
    OBVIOUS
  <2> QED BY <1>9, <2>1, <2>2
<1>11. ASSUME NEW x, x # g PROVE Unlisted(r, S \cup {m}, x) = Unlisted(s, S, x)
  <2>1. {n \in Due(S \cup {m}, "unlist") \cup leaves : n.group = x}
          = {n \in Due(S, "unlist") \cup leaves : n.group = x}
    BY <1>8, <1>11
  <2> QED BY <1>9, <2>1
<1>12. /\ \A x : WhoseIn(S \cup {m}, "ask", x) = WhoseIn(S, "ask", x)
       /\ \A x : WhoseIn(S \cup {m}, "answer", x) = WhoseIn(S, "answer", x)
       /\ \A x : WhoseIn(S \cup {m}, "admit", x) = WhoseIn(S, "admit", x)
       /\ \A x : WhoseIn(S \cup {m}, "leave", x) = WhoseIn(S, "leave", x)
  BY <1>1, WhoseInOther
<1>13. \A x : ListedIn(S \cup {m}, x) = ListedIn(S, x)
  BY <1>1, ListedInOther
<1>14. name \notin ListedIn(S, g)
  BY DEF ListedIn, Due
<1>15. SameGroupAfter(r, s, S \cup {m}, S, g)
  BY <1>10, <1>12, <1>13, <1>14 DEF SameGroupAfter, Regrouped
<1>16. ASSUME NEW x PROVE GroupAfter(s, S, x) = GroupAfter(r, S \cup {m}, x)
  <2>1. CASE x = g
    BY <1>15, <2>1, GroupPartsSame
  <2>2. CASE x # g /\ x \in DOMAIN r.grouptomap
    <3>1. s.grouptomap[x] = r.grouptomap[x]
      BY <2>2
    <3>2. SameGroupAfter(r, s, S \cup {m}, S, x)
      BY <1>11, <1>12, <1>13, <2>2, <3>1 DEF SameGroupAfter
    <3> QED BY <2>2, <3>2, GroupPartsSame
  <2>3. CASE x # g /\ x \notin DOMAIN r.grouptomap
    BY <1>6, <2>3 DEF GroupAfter
  <2> QED BY <2>1, <2>2, <2>3
<1>17. GroupsAfter(s, S) = GroupsAfter(r, S \cup {m})
  BY <1>6, <1>16 DEF GroupsAfter
<1> QED BY <1>2, <1>4, <1>5, <1>17 DEF Unseen

(* A file's record is edited. *)
LEMMA RecordUnseen ==
  ASSUME NEW r, NEW s, NEW S, NEW m, m.op \in OfSharers \cup OfAddresses,
         DOMAIN s.heap = DOMAIN r.heap,
         \A o \in DOMAIN r.heap : s.heap[o].filename = r.heap[o].filename,
         \A o \in DOMAIN r.heap : SharersAfter(s, S, o) = SharersAfter(r, S \cup {m}, o),
         \A o \in DOMAIN r.heap : AddressesAfter(s, S, o) = AddressesAfter(r, S \cup {m}, o),
         s.usertomap = r.usertomap, s.grouptomap = r.grouptomap,
         s.filetomap = r.filetomap, s.loggedin = r.loggedin,
         \A n \in S : n.op \in OnRecord => n.object \in DOMAIN r.heap
  PROVE  Unseen(r, s, S, m)
<1>1. /\ m.op \notin OfUsers /\ m.op \notin OfFlags /\ m.op \notin OnGroup
      /\ ~Does(m, "size") /\ ~Does(m, "unlist") /\ ~Does(m, "erase_file") /\ ~Does(m, "new_file")
  BY DEF OfSharers, OfAddresses, OfFlags, OfUsers, OnGroup, Does
<1>2. UsersAfter(s, S) = UsersAfter(r, S \cup {m})
  BY <1>1, UsersSame
<1>3. FlagsAfter(s, S) = FlagsAfter(r, S \cup {m})
  BY <1>1, FlagsSame
<1>4. /\ Due(S \cup {m}, "size") = Due(S, "size")
      /\ Due(S \cup {m}, "unlist") = Due(S, "unlist")
      /\ Due(S \cup {m}, "erase_file") = Due(S, "erase_file")
      /\ Due(S \cup {m}, "new_file") = Due(S, "new_file")
  BY <1>1, DueOther
<1>5. \A n \in Due(S, "size") \cup Due(S, "unlist") : n.object \in DOMAIN r.heap
  BY DEF Due, OnRecord
<1>6. LastLeaves(s, S) = LastLeaves(r, S \cup {m})
  BY <1>4, <1>5 DEF LastLeaves
<1>7. \A n \in LastLeaves(s, S) : n.object \in DOMAIN r.heap
  BY <1>5 DEF LastLeaves
<1>8. ASSUME NEW g PROVE Unlisted(s, S, g) = Unlisted(r, S \cup {m}, g)
  <2>1. \A n \in Due(S, "unlist") \cup LastLeaves(s, S) :
          s.heap[n.object].filename = r.heap[n.object].filename
    BY <1>5, <1>7
  <2> QED BY <1>4, <1>6, <2>1 DEF Unlisted
<1>9. GroupsAfter(s, S) = GroupsAfter(r, S \cup {m})
  BY <1>1, <1>8, GroupsSame
<1>10. Erased(s, S) = Erased(r, S \cup {m})
  BY <1>4, <1>6 DEF Erased
<1>11. \A f : ObjectAfter(s, S, f) = ObjectAfter(r, S \cup {m}, f)
  BY <1>1, ObjectSame
<1>12. Listed(s, S) = Listed(r, S \cup {m})
  <2>1. Names(s, S) = Names(r, S \cup {m})
    BY <1>4 DEF Names
  <2>2. \A f : ObjectAfter(s, S, f) \in DOMAIN s.heap \ Erased(s, S)
                <=> ObjectAfter(r, S \cup {m}, f) \in DOMAIN r.heap \ Erased(r, S \cup {m})
    BY <1>10, <1>11
  <2> QED BY <2>1, <2>2 DEF Listed
<1>13. \A f \in Listed(s, S) : ObjectAfter(s, S, f) \in DOMAIN r.heap
  BY DEF Listed
<1>14. \A f \in Listed(s, S) : FileAfter(s, S, f) = FileAfter(r, S \cup {m}, f)
  BY <1>11, <1>13 DEF FileAfter
<1>15. FilesAfter(s, S) = FilesAfter(r, S \cup {m})
  BY <1>12, <1>14, FilesAre
<1> QED BY <1>2, <1>3, <1>9, <1>15 DEF Unseen

(* The addresses of a record do not change with who shares it. *)
LEMMA AddressesBeside ==
  ASSUME NEW r, NEW s, NEW S, NEW m, m.op \notin OfAddresses, s.usertomap = r.usertomap,
         NEW o, s.heap[o].users = r.heap[o].users
  PROVE  AddressesAfter(s, S, o) = AddressesAfter(r, S \cup {m}, o)
<1>1. ~Does(m, "share_at") /\ ~Does(m, "unshare_at")
  BY DEF OfAddresses, Does
<1>2. /\ WhoseOf(S \cup {m}, "share_at", o) = WhoseOf(S, "share_at", o)
      /\ WhoseOf(S \cup {m}, "unshare_at", o) = WhoseOf(S, "unshare_at", o)
  BY <1>1, WhoseOfOther
<1>3. \A us : AddressesNow(s, us) = AddressesNow(r, us)
  BY DEF AddressesNow
<1> QED BY <1>2, <1>3 DEF AddressesAfter

LEMMA SharersBeside ==
  ASSUME NEW r, NEW s, NEW S, NEW m, NEW o, m.op \notin OfSharers \/ m.object # o,
         s.heap[o].userids = r.heap[o].userids
  PROVE  SharersAfter(s, S, o) = SharersAfter(r, S \cup {m}, o)
<1>1. (~Does(m, "share") /\ ~Does(m, "unshare")) \/ m.object # o
  BY DEF OfSharers, Does
<1>2. /\ WhoseOf(S \cup {m}, "share", o) = WhoseOf(S, "share", o)
      /\ WhoseOf(S \cup {m}, "unshare", o) = WhoseOf(S, "unshare", o)
  BY <1>1, WhoseOfOther
<1> QED BY <1>2 DEF SharersAfter

(* What the record is that is edited. *)
Rerecorded(now, then, userids, users) ==
  then.filename = now.filename /\ then.userids = userids /\ then.users = users

LEMMA ShareUnseen ==
  ASSUME NEW r, NEW s, NEW S, NEW m, m.op = "share", m.object \in DOMAIN r.heap,
         DOMAIN s.heap = DOMAIN r.heap,
         \A o \in DOMAIN r.heap : o # m.object => s.heap[o] = r.heap[o],
         NEW now, now = r.heap[m.object],
         Rerecorded(now, s.heap[m.object], now.userids \cup {m.user}, now.users),
         s.usertomap = r.usertomap, s.grouptomap = r.grouptomap,
         s.filetomap = r.filetomap, s.loggedin = r.loggedin,
         \A n \in S : n.op \in OnRecord => n.object \in DOMAIN r.heap
  PROVE  Unseen(r, s, S, m)
<1>1. /\ m.op \in OfSharers \cup OfAddresses /\ m.op \notin OfAddresses
      /\ Does(m, "share") /\ ~Does(m, "unshare")
  BY DEF OfSharers, OfAddresses, Does
<1>2. /\ \A o \in DOMAIN r.heap : s.heap[o].filename = r.heap[o].filename
      /\ \A o \in DOMAIN r.heap : s.heap[o].users = r.heap[o].users
      /\ \A o \in DOMAIN r.heap : o # m.object => s.heap[o].userids = r.heap[o].userids
  BY DEF Rerecorded
<1>3. \A o \in DOMAIN r.heap : AddressesAfter(s, S, o) = AddressesAfter(r, S \cup {m}, o)
  BY <1>1, <1>2, AddressesBeside
<1>4. \A o \in DOMAIN r.heap : o # m.object =>
        SharersAfter(s, S, o) = SharersAfter(r, S \cup {m}, o)
  BY <1>2, SharersBeside
<1>5. /\ WhoseOf(S \cup {m}, "share", m.object) = WhoseOf(S, "share", m.object) \cup {m.user}
      /\ WhoseOf(S \cup {m}, "unshare", m.object) = WhoseOf(S, "unshare", m.object)
  <2>1. WhoseOf(S \cup {m}, "share", m.object) = WhoseOf(S, "share", m.object) \cup {m.user}
    BY <1>1, WhoseOfOne
  <2>2. WhoseOf(S \cup {m}, "unshare", m.object) = WhoseOf(S, "unshare", m.object)
    BY <1>1, WhoseOfOther
  <2> QED BY <2>1, <2>2
<1>6. SharersAfter(s, S, m.object) = SharersAfter(r, S \cup {m}, m.object)
  BY <1>5 DEF SharersAfter, Rerecorded
<1>7. \A o \in DOMAIN r.heap : SharersAfter(s, S, o) = SharersAfter(r, S \cup {m}, o)
  BY <1>4, <1>6
<1> QED BY <1>1, <1>2, <1>3, <1>7, RecordUnseen

LEMMA UnshareUnseen ==
  ASSUME NEW r, NEW s, NEW S, NEW m, m.op = "unshare", m.object \in DOMAIN r.heap,
         DOMAIN s.heap = DOMAIN r.heap,
         \A o \in DOMAIN r.heap : o # m.object => s.heap[o] = r.heap[o],
         NEW now, now = r.heap[m.object],
         Rerecorded(now, s.heap[m.object], now.userids \ {m.user}, now.users),
         s.usertomap = r.usertomap, s.grouptomap = r.grouptomap,
         s.filetomap = r.filetomap, s.loggedin = r.loggedin,
         \A n \in S : n.op \in OnRecord => n.object \in DOMAIN r.heap,
         \A n \in S : n.op = "share" => n.object # m.object
  PROVE  Unseen(r, s, S, m)
<1>1. /\ m.op \in OfSharers \cup OfAddresses /\ m.op \notin OfAddresses
      /\ Does(m, "unshare") /\ ~Does(m, "share")
  BY DEF OfSharers, OfAddresses, Does
<1>2. /\ \A o \in DOMAIN r.heap : s.heap[o].filename = r.heap[o].filename
      /\ \A o \in DOMAIN r.heap : s.heap[o].users = r.heap[o].users
      /\ \A o \in DOMAIN r.heap : o # m.object => s.heap[o].userids = r.heap[o].userids
  BY DEF Rerecorded
<1>3. \A o \in DOMAIN r.heap : AddressesAfter(s, S, o) = AddressesAfter(r, S \cup {m}, o)
  BY <1>1, <1>2, AddressesBeside
<1>4. \A o \in DOMAIN r.heap : o # m.object =>
        SharersAfter(s, S, o) = SharersAfter(r, S \cup {m}, o)
  BY <1>2, SharersBeside
<1>5. /\ WhoseOf(S \cup {m}, "unshare", m.object) = WhoseOf(S, "unshare", m.object) \cup {m.user}
      /\ WhoseOf(S \cup {m}, "share", m.object) = WhoseOf(S, "share", m.object)
  <2>1. WhoseOf(S \cup {m}, "unshare", m.object) = WhoseOf(S, "unshare", m.object) \cup {m.user}
    BY <1>1, WhoseOfOne
  <2>2. WhoseOf(S \cup {m}, "share", m.object) = WhoseOf(S, "share", m.object)
    BY <1>1, WhoseOfOther
  <2> QED BY <2>1, <2>2
<1>6. WhoseOf(S, "share", m.object) = {}
  BY DEF WhoseOf, Due
<1>7. SharersAfter(s, S, m.object) = SharersAfter(r, S \cup {m}, m.object)
  BY <1>5, <1>6 DEF SharersAfter, Rerecorded
<1>8. \A o \in DOMAIN r.heap : SharersAfter(s, S, o) = SharersAfter(r, S \cup {m}, o)
  BY <1>4, <1>7
<1> QED BY <1>1, <1>2, <1>3, <1>8, RecordUnseen

LEMMA ShareAtUnseen ==
  ASSUME NEW r, NEW s, NEW S, NEW m, m.op = "share_at", m.object \in DOMAIN r.heap,
         DOMAIN s.heap = DOMAIN r.heap,
         \A o \in DOMAIN r.heap : o # m.object => s.heap[o] = r.heap[o],
         NEW now, now = r.heap[m.object],
         Rerecorded(now, s.heap[m.object], now.userids,
                    now.users \cup {r.usertomap[m.user].address}),
         s.usertomap = r.usertomap, s.grouptomap = r.grouptomap,
         s.filetomap = r.filetomap, s.loggedin = r.loggedin,
         \A n \in S : n.op \in OnRecord => n.object \in DOMAIN r.heap
  PROVE  Unseen(r, s, S, m)
<1>1. /\ m.op \in OfSharers \cup OfAddresses /\ m.op \notin OfSharers
      /\ Does(m, "share_at") /\ ~Does(m, "unshare_at")
  BY DEF OfSharers, OfAddresses, Does
<1>2. /\ \A o \in DOMAIN r.heap : s.heap[o].filename = r.heap[o].filename
      /\ \A o \in DOMAIN r.heap : s.heap[o].userids = r.heap[o].userids
      /\ \A o \in DOMAIN r.heap : o # m.object => s.heap[o].users = r.heap[o].users
  BY DEF Rerecorded
<1>3. \A o \in DOMAIN r.heap : SharersAfter(s, S, o) = SharersAfter(r, S \cup {m}, o)
  BY <1>1, <1>2, SharersBeside
<1>4. \A us : AddressesNow(s, us) = AddressesNow(r, us)
  BY DEF AddressesNow
<1>5. \A o \in DOMAIN r.heap : o # m.object =>
        AddressesAfter(s, S, o) = AddressesAfter(r, S \cup {m}, o)
  <2>1. \A o : o # m.object =>
          /\ WhoseOf(S \cup {m}, "share_at", o) = WhoseOf(S, "share_at", o)
          /\ WhoseOf(S \cup {m}, "unshare_at", o) = WhoseOf(S, "unshare_at", o)
    BY DEF WhoseOf, Due
  <2> QED BY <1>2, <1>4, <2>1 DEF AddressesAfter
<1>6. WhoseOf(S \cup {m}, "share_at", m.object) = WhoseOf(S, "share_at", m.object) \cup {m.user}
  BY <1>1, WhoseOfOne
<1>7. WhoseOf(S \cup {m}, "unshare_at", m.object) = WhoseOf(S, "unshare_at", m.object)
  BY <1>1, WhoseOfOther
<1>8. AddressesNow(r, WhoseOf(S, "share_at", m.object) \cup {m.user})
        = AddressesNow(r, WhoseOf(S, "share_at", m.object)) \cup {r.usertomap[m.user].address}
  BY DEF AddressesNow
<1>9. AddressesAfter(s, S, m.object) = AddressesAfter(r, S \cup {m}, m.object)
  BY <1>4, <1>6, <1>7, <1>8 DEF AddressesAfter, Rerecorded
<1>10. \A o \in DOMAIN r.heap : AddressesAfter(s, S, o) = AddressesAfter(r, S \cup {m}, o)
  BY <1>5, <1>9
<1> QED BY <1>1, <1>2, <1>3, <1>10, RecordUnseen

LEMMA UnshareAtUnseen ==
  ASSUME NEW r, NEW s, NEW S, NEW m, m.op = "unshare_at", m.object \in DOMAIN r.heap,
         DOMAIN s.heap = DOMAIN r.heap,
         \A o \in DOMAIN r.heap : o # m.object => s.heap[o] = r.heap[o],
         NEW now, now = r.heap[m.object],
         Rerecorded(now, s.heap[m.object], now.userids,
                    now.users \ {r.usertomap[m.user].address}),
         s.usertomap = r.usertomap, s.grouptomap = r.grouptomap,
         s.filetomap = r.filetomap, s.loggedin = r.loggedin,
         \A n \in S : n.op \in OnRecord => n.object \in DOMAIN r.heap,
         \A n \in S : n.op = "share_at" => n.object # m.object
  PROVE  Unseen(r, s, S, m)
<1>1. /\ m.op \in OfSharers \cup OfAddresses /\ m.op \notin OfSharers
      /\ Does(m, "unshare_at") /\ ~Does(m, "share_at")
  BY DEF OfSharers, OfAddresses, Does
<1>2. /\ \A o \in DOMAIN r.heap : s.heap[o].filename = r.heap[o].filename
      /\ \A o \in DOMAIN r.heap : s.heap[o].userids = r.heap[o].userids
      /\ \A o \in DOMAIN r.heap : o # m.object => s.heap[o].users = r.heap[o].users
  BY DEF Rerecorded
<1>3. \A o \in DOMAIN r.heap : SharersAfter(s, S, o) = SharersAfter(r, S \cup {m}, o)
  BY <1>1, <1>2, SharersBeside
<1>4. \A us : AddressesNow(s, us) = AddressesNow(r, us)
  BY DEF AddressesNow
<1>5. \A o \in DOMAIN r.heap : o # m.object =>
        AddressesAfter(s, S, o) = AddressesAfter(r, S \cup {m}, o)
  <2>1. \A o : o # m.object =>
          /\ WhoseOf(S \cup {m}, "share_at", o) = WhoseOf(S, "share_at", o)
          /\ WhoseOf(S \cup {m}, "unshare_at", o) = WhoseOf(S, "unshare_at", o)
    BY DEF WhoseOf, Due
  <2> QED BY <1>2, <1>4, <2>1 DEF AddressesAfter
<1>6. WhoseOf(S \cup {m}, "unshare_at", m.object) = WhoseOf(S, "unshare_at", m.object) \cup {m.user}
  BY <1>1, WhoseOfOne
<1>7. WhoseOf(S \cup {m}, "share_at", m.object) = WhoseOf(S, "share_at", m.object)
  BY <1>1, WhoseOfOther
<1>8. AddressesNow(r, WhoseOf(S, "unshare_at", m.object) \cup {m.user})
        = AddressesNow(r, WhoseOf(S, "unshare_at", m.object)) \cup {r.usertomap[m.user].address}
  BY DEF AddressesNow
<1>9. WhoseOf(S, "share_at", m.object) = {}
  BY DEF WhoseOf, Due
<1>10. AddressesNow(r, WhoseOf(S, "share_at", m.object)) = {}
  BY <1>9 DEF AddressesNow
<1>11. AddressesAfter(s, S, m.object) = AddressesAfter(r, S \cup {m}, m.object)
  BY <1>4, <1>6, <1>7, <1>8, <1>10 DEF AddressesAfter, Rerecorded
<1>12. \A o \in DOMAIN r.heap : AddressesAfter(s, S, o) = AddressesAfter(r, S \cup {m}, o)
  BY <1>5, <1>11
<1> QED BY <1>1, <1>2, <1>3, <1>12, RecordUnseen

-----------------------------------------------------------------------------
(* The map of the files *)

LEMMA OneOfThem ==
  ASSUME NEW P, P # {}
  PROVE  OneOf(P) \in P
  BY DEF OneOf

LEMMA NewFileUnseen ==
  ASSUME NEW r, NEW s, NEW S, NEW m, m.op = "new_file", m.file \notin DOMAIN r.filetomap,
         s.filetomap = Put(r.filetomap, m.file, m.object),
         s.usertomap = r.usertomap, s.grouptomap = r.grouptomap,
         s.heap = r.heap, s.loggedin = r.loggedin,
         \A n \in S : n.op = "new_file" => n.file # m.file
  PROVE  Unseen(r, s, S, m)
<1>1. /\ m.op \notin OfUsers /\ m.op \notin OfFlags /\ m.op \notin OnGroup /\ m.op \notin OfUnlisted
      /\ m.op \notin OfErased /\ m.op \notin OfSharers /\ m.op \notin OfAddresses /\ Does(m, "new_file")
  BY DEF OfSharers, OfAddresses, OfFlags, OfUsers, OnGroup, OfUnlisted, OfLeaves, OfErased, Does
<1>2. UsersAfter(s, S) = UsersAfter(r, S \cup {m})
  BY <1>1, UsersSame
<1>3. FlagsAfter(s, S) = FlagsAfter(r, S \cup {m})
  BY <1>1, FlagsSame
<1>4. GroupsAfter(s, S) = GroupsAfter(r, S \cup {m})
  BY <1>1, GroupsUnseen
<1>5. \A o : SharersAfter(s, S, o) = SharersAfter(r, S \cup {m}, o)
  BY <1>1, SharersSame
<1>6. \A o : AddressesAfter(s, S, o) = AddressesAfter(r, S \cup {m}, o)
  BY <1>1, AddressesSame
<1>7. Erased(s, S) = Erased(r, S \cup {m})
  BY <1>1, ErasedSame
<1>8. Due(S \cup {m}, "new_file") = Due(S, "new_file") \cup {m}
  BY <1>1, DueOne
<1>9. DOMAIN s.filetomap = DOMAIN r.filetomap \cup {m.file} /\ s.filetomap[m.file] = m.object
      /\ \A f \in DOMAIN r.filetomap : s.filetomap[f] = r.filetomap[f]
  BY DEF Put
<1>10. ASSUME NEW f PROVE ObjectAfter(s, S, f) = ObjectAfter(r, S \cup {m}, f)
  <2>1. CASE f = m.file
    <3>1. {n \in Due(S \cup {m}, "new_file") : n.file = f} = {m}
      BY <1>8, <2>1 DEF Due
    <3> QED BY <1>9, <2>1, <3>1, OneIs DEF ObjectAfter
  <2>2. CASE f # m.file
    <3>1. {n \in Due(S \cup {m}, "new_file") : n.file = f} = {n \in Due(S, "new_file") : n.file = f}
      BY <1>8, <2>2
    <3> QED BY <1>9, <2>2, <3>1 DEF ObjectAfter
  <2> QED BY <2>1, <2>2
<1>11. Names(s, S) = Names(r, S \cup {m})
  BY <1>8, <1>9 DEF Names
<1>12. Listed(s, S) = Listed(r, S \cup {m})
  BY <1>7, <1>10, <1>11 DEF Listed
<1>13. \A f : FileAfter(s, S, f) = FileAfter(r, S \cup {m}, f)
  BY <1>5, <1>6, <1>10 DEF FileAfter
<1>14. FilesAfter(s, S) = FilesAfter(r, S \cup {m})
  BY <1>12, <1>13, FilesAre
<1> QED BY <1>2, <1>3, <1>4, <1>14 DEF Unseen

LEMMA EraseFileUnseen ==
  ASSUME NEW r, NEW s, NEW S, NEW m, m.op = "erase_file",
         NEW name, s.filetomap = Erase(r.filetomap, name),
         \A f \in DOMAIN r.filetomap : r.filetomap[f] = m.object <=> f = name,
         s.usertomap = r.usertomap, s.grouptomap = r.grouptomap,
         s.heap = r.heap, s.loggedin = r.loggedin,
         \A n \in S : n.op = "new_file" => n.file # name /\ n.object # m.object
  PROVE  Unseen(r, s, S, m)
<1>1. /\ m.op \notin OfUsers /\ m.op \notin OfFlags /\ m.op \notin OnGroup /\ m.op \notin OfUnlisted
      /\ m.op \notin OfSharers /\ m.op \notin OfAddresses /\ m.op \notin OfLeaves
      /\ ~Does(m, "new_file") /\ Does(m, "erase_file")
  BY DEF OfSharers, OfAddresses, OfFlags, OfUsers, OnGroup, OfUnlisted, OfLeaves, OfErased, Does
<1>2. UsersAfter(s, S) = UsersAfter(r, S \cup {m})
  BY <1>1, UsersSame
<1>3. FlagsAfter(s, S) = FlagsAfter(r, S \cup {m})
  BY <1>1, FlagsSame
<1>4. GroupsAfter(s, S) = GroupsAfter(r, S \cup {m})
  BY <1>1, GroupsUnseen
<1>5. \A o : SharersAfter(s, S, o) = SharersAfter(r, S \cup {m}, o)
  BY <1>1, SharersSame
<1>6. \A o : AddressesAfter(s, S, o) = AddressesAfter(r, S \cup {m}, o)
  BY <1>1, AddressesSame
<1>7. LastLeaves(s, S) = LastLeaves(r, S \cup {m})
  BY <1>1, LeavesSame
<1>8. Due(S \cup {m}, "new_file") = Due(S, "new_file")
  BY <1>1, DueOther
<1>9. Due(S \cup {m}, "erase_file") = Due(S, "erase_file") \cup {m}
  BY <1>1, DueOne
<1>10. Erased(r, S \cup {m}) = Erased(s, S) \cup {m.object}
  BY <1>7, <1>9 DEF Erased
<1>11. DOMAIN s.filetomap = DOMAIN r.filetomap \ {name}
       /\ \A f \in DOMAIN s.filetomap : s.filetomap[f] = r.filetomap[f]
  BY DEF Erase
<1>12. \A f : f # name => ObjectAfter(s, S, f) = ObjectAfter(r, S \cup {m}, f)
  BY <1>8, <1>11 DEF ObjectAfter
<1>13. name \notin Listed(s, S)
  BY <1>11 DEF Listed, Names, Due
<1>14. name \notin Listed(r, S \cup {m})
  <2>1. name \in Names(r, S \cup {m}) => name \in DOMAIN r.filetomap
    BY <1>8 DEF Names, Due
  <2>2. name \in DOMAIN r.filetomap => ObjectAfter(r, S \cup {m}, name) = m.object
    BY DEF ObjectAfter
  <2> QED BY <1>10, <2>1, <2>2 DEF Listed
<1>15. ASSUME NEW f \in Names(s, S), f # name PROVE ObjectAfter(s, S, f) # m.object
  <2>1. CASE f \in DOMAIN s.filetomap
    BY <1>11, <1>15, <2>1 DEF ObjectAfter
  <2>2. CASE f \notin DOMAIN s.filetomap
    <3> DEFINE P == {n \in Due(S, "new_file") : n.file = f}
    <3>1. P # {}
      BY <1>15, <2>2 DEF Names
    <3>2. OneOf(P) \in P
      BY <3>1, OneOfThem
    <3>3. OneOf(P).object # m.object
      BY <3>2 DEF Due
    <3> QED BY <2>2, <3>3 DEF ObjectAfter
  <2> QED BY <2>1, <2>2
<1>16. \A f : f # name => (f \in Names(s, S) <=> f \in Names(r, S \cup {m}))
  BY <1>8, <1>11 DEF Names
<1>17. \A f : f # name => (f \in Listed(s, S) <=> f \in Listed(r, S \cup {m}))
  BY <1>10, <1>12, <1>15, <1>16 DEF Listed
<1>18. Listed(s, S) = Listed(r, S \cup {m})
  BY <1>13, <1>14, <1>17, SMTT(30)
<1>19. \A f \in Listed(s, S) : FileAfter(s, S, f) = FileAfter(r, S \cup {m}, f)
  BY <1>5, <1>6, <1>12, <1>13 DEF FileAfter
<1>20. FilesAfter(s, S) = FilesAfter(r, S \cup {m})
  BY <1>18, <1>19, FilesAre
<1> QED BY <1>2, <1>3, <1>4, <1>20 DEF Unseen

LEMMA DeleteUnseen ==
  ASSUME NEW r, NEW s, NEW S, NEW m, m.op = "delete",
         s.heap = Erase(r.heap, m.object), s.filetomap = r.filetomap,
         \A f \in DOMAIN r.filetomap : r.filetomap[f] # m.object,
         s.usertomap = r.usertomap, s.grouptomap = r.grouptomap, s.loggedin = r.loggedin,
         \A n \in S : n.op \in ByObject => n.object \in DOMAIN r.heap \ {m.object}
  PROVE  Unseen(r, s, S, m)
<1>1. /\ m.op \notin OfUsers /\ m.op \notin OfFlags /\ m.op \notin OnGroup
      /\ m.op \notin OfSharers /\ m.op \notin OfAddresses /\ ~Does(m, "size") /\ ~Does(m, "unlist")
      /\ ~Does(m, "new_file") /\ ~Does(m, "erase_file")
  BY DEF OfSharers, OfAddresses, OfFlags, OfUsers, OnGroup, Does
<1>2. UsersAfter(s, S) = UsersAfter(r, S \cup {m})
  BY <1>1, UsersSame
<1>3. FlagsAfter(s, S) = FlagsAfter(r, S \cup {m})
  BY <1>1, FlagsSame
<1>4. DOMAIN s.heap = DOMAIN r.heap \ {m.object}
      /\ \A o \in DOMAIN s.heap : s.heap[o] = r.heap[o]
  BY DEF Erase
<1>5. \A o \in DOMAIN s.heap : SharersAfter(s, S, o) = SharersAfter(r, S \cup {m}, o)
  BY <1>1, <1>4, SharersBeside
<1>6. \A o \in DOMAIN s.heap : AddressesAfter(s, S, o) = AddressesAfter(r, S \cup {m}, o)
  BY <1>1, <1>4, AddressesBeside
<1>7. /\ Due(S \cup {m}, "size") = Due(S, "size")
      /\ Due(S \cup {m}, "unlist") = Due(S, "unlist")
      /\ Due(S \cup {m}, "erase_file") = Due(S, "erase_file")
      /\ Due(S \cup {m}, "new_file") = Due(S, "new_file")
  BY <1>1, DueOther
<1>8. \A n \in Due(S, "size") \cup Due(S, "unlist") : n.object \in DOMAIN s.heap
  BY <1>4 DEF Due, ByObject, OnRecord
<1>9. LastLeaves(s, S) = LastLeaves(r, S \cup {m})
  BY <1>5, <1>7, <1>8 DEF LastLeaves
<1>10. \A n \in Due(S, "unlist") \cup LastLeaves(s, S) : s.heap[n.object] = r.heap[n.object]
  BY <1>4, <1>8 DEF LastLeaves
<1>11. \A g : Unlisted(s, S, g) = Unlisted(r, S \cup {m}, g)
  BY <1>7, <1>9, <1>10 DEF Unlisted
<1>12. GroupsAfter(s, S) = GroupsAfter(r, S \cup {m})
  BY <1>1, <1>11, GroupsSame
<1>13. Erased(s, S) = Erased(r, S \cup {m})
  BY <1>7, <1>9 DEF Erased
<1>14. \A f : ObjectAfter(s, S, f) = ObjectAfter(r, S \cup {m}, f)
  BY <1>1, ObjectSame
<1>15. Names(s, S) = Names(r, S \cup {m})
  BY <1>7 DEF Names
<1>16. ASSUME NEW f \in Names(s, S) PROVE ObjectAfter(s, S, f) # m.object
  <2>1. CASE f \in DOMAIN s.filetomap
    BY <2>1 DEF ObjectAfter
  <2>2. CASE f \notin DOMAIN s.filetomap
    <3> DEFINE P == {n \in Due(S, "new_file") : n.file = f}
    <3>1. P # {}
      BY <2>2 DEF Names
    <3>2. OneOf(P) \in P
      BY <3>1, OneOfThem
    <3>3. OneOf(P).object # m.object
      BY <3>2 DEF Due, ByObject
    <3> QED BY <2>2, <3>3 DEF ObjectAfter
  <2> QED BY <2>1, <2>2
<1>17. Listed(s, S) = Listed(r, S \cup {m})
  BY <1>4, <1>13, <1>14, <1>15, <1>16 DEF Listed
<1>18. \A f \in Listed(s, S) : FileAfter(s, S, f) = FileAfter(r, S \cup {m}, f)
  BY <1>5, <1>6, <1>14 DEF FileAfter, Listed
<1>19. FilesAfter(s, S) = FilesAfter(r, S \cup {m})
  BY <1>17, <1>18, FilesAre
<1> QED BY <1>2, <1>3, <1>12, <1>19 DEF Unseen

(* The look at the size of userids, by a handler that leaves sharers.      *)
LEMMA SizeUnseen ==
  ASSUME NEW r, NEW S, NEW m, m.op = "size", r.heap[m.object].userids # {},
         \A n \in S : n.op \in OfSharers => n.object # m.object
  PROVE  Unseen(r, r, S, m)
<1>1. /\ m.op \notin OfUsers /\ m.op \notin OfFlags /\ m.op \notin OnGroup
      /\ m.op \notin OfSharers /\ m.op \notin OfAddresses /\ ~Does(m, "unlist")
      /\ ~Does(m, "new_file") /\ ~Does(m, "erase_file")
  BY DEF OfSharers, OfAddresses, OfFlags, OfUsers, OnGroup, Does
<1>2. UsersAfter(r, S) = UsersAfter(r, S \cup {m})
  BY <1>1, UsersSame
<1>3. FlagsAfter(r, S) = FlagsAfter(r, S \cup {m})
  BY <1>1, FlagsSame
<1>4. \A o : SharersAfter(r, S, o) = SharersAfter(r, S \cup {m}, o)
  BY <1>1, SharersSame
<1>5. \A o : AddressesAfter(r, S, o) = AddressesAfter(r, S \cup {m}, o)
  BY <1>1, AddressesSame
<1>6. /\ Due(S \cup {m}, "unlist") = Due(S, "unlist")
      /\ Due(S \cup {m}, "erase_file") = Due(S, "erase_file")
      /\ Due(S \cup {m}, "new_file") = Due(S, "new_file")
  BY <1>1, DueOther
<1>7. WhoseOf(S, "unshare", m.object) = {} /\ WhoseOf(S, "share", m.object) = {}
  BY DEF WhoseOf, Due, OfSharers
<1>8. SharersAfter(r, S, m.object) # {}
  BY <1>7 DEF SharersAfter
<1>9. Due(S \cup {m}, "size") = Due(S, "size") \cup {m}
  BY DueOne DEF Does
<1>10. LastLeaves(r, S) = LastLeaves(r, S \cup {m})
  BY <1>4, <1>8, <1>9 DEF LastLeaves
<1>11. \A g : Unlisted(r, S, g) = Unlisted(r, S \cup {m}, g)
  BY <1>6, <1>10 DEF Unlisted
<1>12. GroupsAfter(r, S) = GroupsAfter(r, S \cup {m})
  BY <1>1, <1>11, GroupsSame
<1>13. Erased(r, S) = Erased(r, S \cup {m})
  BY <1>6, <1>10 DEF Erased
<1>14. \A f : ObjectAfter(r, S, f) = ObjectAfter(r, S \cup {m}, f)
  BY <1>1, ObjectSame
<1>15. Names(r, S) = Names(r, S \cup {m})
  BY <1>6 DEF Names
<1>16. Listed(r, S) = Listed(r, S \cup {m})
  <2>1. \A f : ObjectAfter(r, S, f) \in DOMAIN r.heap \ Erased(r, S)
                <=> ObjectAfter(r, S \cup {m}, f) \in DOMAIN r.heap \ Erased(r, S \cup {m})
    BY <1>13, <1>14
  <2> QED BY <1>15, <2>1 DEF Listed
<1>17. \A f : FileAfter(r, S, f) = FileAfter(r, S \cup {m}, f)
  BY <1>4, <1>5, <1>14 DEF FileAfter
<1>18. FilesAfter(r, S) = FilesAfter(r, S \cup {m})
  BY <1>16, <1>17, FilesAre
<1> QED BY <1>2, <1>3, <1>12, <1>18 DEF Unseen

(* The registry that will be is the same with P due as with R.            *)
AlikeAfter(r, P, R) == /\ UsersAfter(r, P) = UsersAfter(r, R)
                       /\ FlagsAfter(r, P) = FlagsAfter(r, R)
                       /\ GroupsAfter(r, P) = GroupsAfter(r, R)
                       /\ FilesAfter(r, P) = FilesAfter(r, R)

(* The same by the handler of the last sharer, which goes on with Drop. *)
LEMMA DropUnseen ==
  ASSUME NEW r, NEW S, NEW m, m.op = "size", r.heap[m.object].userids = {},
         \A n \in S : n.op \in OfSharers => n.object # m.object,
         NEW a, NEW b, NEW c, a.op = "erase_file", b.op = "unlist", c.op = "delete",
         a.object = m.object, b.object = m.object, b.group = m.group
  PROVE  AlikeAfter(r, S \cup {a, b, c}, S \cup {m})
<1> DEFINE P == S \cup {m}
           R == S \cup {a, b, c}
<1>1. /\ Due(R, "new_user") = Due(P, "new_user") /\ Due(R, "move") = Due(P, "move")
      /\ Due(R, "own") = Due(P, "own") /\ Due(R, "log_in") = Due(P, "log_in")
      /\ Due(R, "log_out") = Due(P, "log_out")
  BY DEF Due
<1>2. /\ Due(R, "new_group") = Due(P, "new_group") /\ Due(R, "list") = Due(P, "list")
      /\ Due(R, "ask") = Due(P, "ask") /\ Due(R, "answer") = Due(P, "answer")
      /\ Due(R, "admit") = Due(P, "admit") /\ Due(R, "leave") = Due(P, "leave")
  BY DEF Due
<1>3. /\ Due(R, "new_file") = Due(P, "new_file") /\ Due(R, "share") = Due(P, "share")
      /\ Due(R, "share_at") = Due(P, "share_at") /\ Due(R, "unshare") = Due(P, "unshare")
      /\ Due(R, "unshare_at") = Due(P, "unshare_at")
  BY DEF Due
<1>4. /\ Due(P, "size") = Due(S, "size") \cup {m} /\ Due(R, "size") = Due(S, "size")
      /\ Due(P, "unlist") = Due(S, "unlist") /\ Due(R, "unlist") = Due(S, "unlist") \cup {b}
      /\ Due(P, "erase_file") = Due(S, "erase_file")
      /\ Due(R, "erase_file") = Due(S, "erase_file") \cup {a}
  BY DEF Due
<1>5. WhoseOf(P, "unshare", m.object) = {} /\ WhoseOf(P, "share", m.object) = {}
  BY DEF WhoseOf, Due, OfSharers
<1> HIDE DEF P, R
<1>6. \A o : SharersAfter(r, R, o) = SharersAfter(r, P, o)
  BY <1>3 DEF SharersAfter, WhoseOf
<1>7. \A o : AddressesAfter(r, R, o) = AddressesAfter(r, P, o)
  BY <1>3 DEF AddressesAfter, WhoseOf
<1>8. SharersAfter(r, P, m.object) = {}
  BY <1>5 DEF SharersAfter
<1>9. LastLeaves(r, P) = LastLeaves(r, R) \cup {m}
  BY <1>4, <1>6, <1>8 DEF LastLeaves
<1>10. Erased(r, R) = Erased(r, P)
  BY <1>4, <1>9 DEF Erased
<1>11. \A g : Unlisted(r, R, g) = Unlisted(r, P, g)
  BY <1>4, <1>9 DEF Unlisted
<1>12. \A g : WhoseIn(R, "ask", g) = WhoseIn(P, "ask", g) /\ WhoseIn(R, "answer", g) = WhoseIn(P, "answer", g)
              /\ WhoseIn(R, "admit", g) = WhoseIn(P, "admit", g) /\ WhoseIn(R, "leave", g) = WhoseIn(P, "leave", g)
  BY <1>2 DEF WhoseIn
<1>13. \A g : GroupAfter(r, R, g) = GroupAfter(r, P, g)
  BY <1>2, <1>11, <1>12 DEF GroupAfter
<1>14. GroupsAfter(r, R) = GroupsAfter(r, P)
  BY <1>2, <1>13 DEF GroupsAfter
<1>15. \A f : ObjectAfter(r, R, f) = ObjectAfter(r, P, f)
  BY <1>3 DEF ObjectAfter
<1>16. Names(r, R) = Names(r, P)
  BY <1>3 DEF Names
<1>17. Listed(r, R) = Listed(r, P)
  BY <1>10, <1>15, <1>16 DEF Listed
<1>18. \A f : FileAfter(r, R, f) = FileAfter(r, P, f)
  BY <1>6, <1>7, <1>15 DEF FileAfter
<1>19. FilesAfter(r, R) = FilesAfter(r, P)
  BY <1>17, <1>18, FilesAre
<1>20. \A u : AccountAfter(r, R, u) = AccountAfter(r, P, u)
  BY <1>1 DEF AccountAfter
<1>21. Whose(R, "new_user") = Whose(P, "new_user") /\ Whose(R, "log_in") = Whose(P, "log_in")
       /\ Whose(R, "log_out") = Whose(P, "log_out")
  BY <1>1 DEF Whose
<1>22. UsersAfter(r, R) = UsersAfter(r, P)
  BY <1>20, <1>21 DEF UsersAfter
<1>23. FlagsAfter(r, R) = FlagsAfter(r, P)
  BY <1>21 DEF FlagsAfter
<1> QED BY <1>14, <1>19, <1>22, <1>23 DEF P, R, AlikeAfter

-----------------------------------------------------------------------------
(* A handler begins: the updates N are due as well.                        *)

LEMMA DueBeside ==
  ASSUME NEW Q, NEW N, NEW op, \A n \in N : ~Does(n, op)
  PROVE  Due(Q \cup N, op) = Due(Q, op)
  BY DEF Due, Does

LEMMA UsersBeside ==
  ASSUME NEW r, NEW Q, NEW N, \A n \in N : n.op \notin OfUsers
  PROVE  UsersAfter(r, Q \cup N) = UsersAfter(r, Q)
<1>1. \A n \in N : ~Does(n, "new_user") /\ ~Does(n, "move") /\ ~Does(n, "own")
  BY DEF OfUsers, Does
<1>2. /\ Due(Q \cup N, "new_user") = Due(Q, "new_user")
      /\ Due(Q \cup N, "move") = Due(Q, "move")
      /\ Due(Q \cup N, "own") = Due(Q, "own")
  BY <1>1, DueBeside
<1>3. \A u : AccountAfter(r, Q \cup N, u) = AccountAfter(r, Q, u)
  BY <1>2 DEF AccountAfter
<1>4. Whose(Q \cup N, "new_user") = Whose(Q, "new_user")
  BY <1>2 DEF Whose
<1> QED BY <1>3, <1>4 DEF UsersAfter

LEMMA FlagsBeside ==
  ASSUME NEW r, NEW Q, NEW N, \A n \in N : n.op \notin OfFlags
  PROVE  FlagsAfter(r, Q \cup N) = FlagsAfter(r, Q)
<1>1. \A n \in N : ~Does(n, "new_user") /\ ~Does(n, "log_in") /\ ~Does(n, "log_out")
  BY DEF OfFlags, Does
<1>2. /\ Due(Q \cup N, "new_user") = Due(Q, "new_user")
      /\ Due(Q \cup N, "log_in") = Due(Q, "log_in")
      /\ Due(Q \cup N, "log_out") = Due(Q, "log_out")
  BY <1>1, DueBeside
<1>3. /\ Whose(Q \cup N, "new_user") = Whose(Q, "new_user")
      /\ Whose(Q \cup N, "log_in") = Whose(Q, "log_in")
      /\ Whose(Q \cup N, "log_out") = Whose(Q, "log_out")
  BY <1>2 DEF Whose
<1> QED BY <1>3 DEF FlagsAfter

LEMMA UnlistedBeside ==
  ASSUME NEW r, NEW Q, NEW N, \A n \in N : n.op \notin OfUnlisted
  PROVE  \A g : Unlisted(r, Q \cup N, g) = Unlisted(r, Q, g)
<1>1. \A n \in N : ~Does(n, "share") /\ ~Does(n, "unshare") /\ ~Does(n, "size") /\ ~Does(n, "unlist")
  BY DEF OfUnlisted, OfLeaves, OfSharers, Does
<1>2. Due(Q \cup N, "share") = Due(Q, "share") /\ Due(Q \cup N, "unshare") = Due(Q, "unshare")
  BY <1>1, DueBeside
<1>3. Due(Q \cup N, "size") = Due(Q, "size") /\ Due(Q \cup N, "unlist") = Due(Q, "unlist")
  BY <1>1, DueBeside
<1>4. \A o : SharersAfter(r, Q \cup N, o) = SharersAfter(r, Q, o)
  BY <1>2 DEF SharersAfter, WhoseOf
<1>5. LastLeaves(r, Q \cup N) = LastLeaves(r, Q)
  BY <1>3, <1>4 DEF LastLeaves
<1> QED BY <1>3, <1>5 DEF Unlisted

LEMMA GroupsBeside ==
  ASSUME NEW r, NEW Q, NEW N, \A n \in N : n.op \notin OnGroup,
         \A g : Unlisted(r, Q \cup N, g) = Unlisted(r, Q, g)
  PROVE  GroupsAfter(r, Q \cup N) = GroupsAfter(r, Q)
<1>1. \A n \in N : /\ ~Does(n, "new_group") /\ ~Does(n, "list")
                   /\ ~Does(n, "ask") /\ ~Does(n, "answer") /\ ~Does(n, "admit") /\ ~Does(n, "leave")
  BY DEF OnGroup, Does
<1>2. Due(Q \cup N, "new_group") = Due(Q, "new_group") /\ Due(Q \cup N, "list") = Due(Q, "list")
  BY <1>1, DueBeside
<1>3. Due(Q \cup N, "ask") = Due(Q, "ask") /\ Due(Q \cup N, "answer") = Due(Q, "answer")
  BY <1>1, DueBeside
<1>4. Due(Q \cup N, "admit") = Due(Q, "admit") /\ Due(Q \cup N, "leave") = Due(Q, "leave")
  BY <1>1, DueBeside
<1>5. \A g : GroupAfter(r, Q \cup N, g) = GroupAfter(r, Q, g)
  BY <1>2, <1>3, <1>4 DEF GroupAfter, WhoseIn
<1> QED BY <1>2, <1>5 DEF GroupsAfter

LEMMA FilesBeside ==
  ASSUME NEW r, NEW Q, NEW N, \A n \in N : n.op \notin OfFiles /\ n.op \notin OfAddresses
  PROVE  FilesAfter(r, Q \cup N) = FilesAfter(r, Q)
<1>1. \A n \in N : /\ ~Does(n, "share") /\ ~Does(n, "unshare") /\ ~Does(n, "size")
                   /\ ~Does(n, "erase_file") /\ ~Does(n, "new_file")
                   /\ ~Does(n, "share_at") /\ ~Does(n, "unshare_at")
  BY DEF OfFiles, OfErased, OfLeaves, OfSharers, OfObjects, OfAddresses, Does
<1>2. Due(Q \cup N, "share") = Due(Q, "share") /\ Due(Q \cup N, "unshare") = Due(Q, "unshare")
  BY <1>1, DueBeside
<1>3. Due(Q \cup N, "size") = Due(Q, "size") /\ Due(Q \cup N, "erase_file") = Due(Q, "erase_file")
  BY <1>1, DueBeside
<1>4. Due(Q \cup N, "share_at") = Due(Q, "share_at") /\ Due(Q \cup N, "unshare_at") = Due(Q, "unshare_at")
  BY <1>1, DueBeside
<1>5. Due(Q \cup N, "new_file") = Due(Q, "new_file")
  BY <1>1, DueBeside
<1>6. \A o : SharersAfter(r, Q \cup N, o) = SharersAfter(r, Q, o)
  BY <1>2 DEF SharersAfter, WhoseOf
<1>7. \A o : AddressesAfter(r, Q \cup N, o) = AddressesAfter(r, Q, o)
  BY <1>4 DEF AddressesAfter, WhoseOf
<1>8. LastLeaves(r, Q \cup N) = LastLeaves(r, Q)
  BY <1>3, <1>6 DEF LastLeaves
<1>9. Erased(r, Q \cup N) = Erased(r, Q)
  BY <1>3, <1>8 DEF Erased
<1>10. \A f : ObjectAfter(r, Q \cup N, f) = ObjectAfter(r, Q, f)
  BY <1>5 DEF ObjectAfter
<1>11. Names(r, Q \cup N) = Names(r, Q)
  BY <1>5 DEF Names
<1>12. Listed(r, Q \cup N) = Listed(r, Q)
  BY <1>9, <1>10, <1>11 DEF Listed
<1>13. \A f : FileAfter(r, Q \cup N, f) = FileAfter(r, Q, f)
  BY <1>6, <1>7, <1>10 DEF FileAfter
<1> QED BY <1>12, <1>13, FilesAre

(* The updates Q are of handlers that overlap with none about these. *)
Away(Q, r, users, files, founds) ==
  \A n \in Q :
    /\ n.op \in ByUser => n.user \notin users
    /\ n.op \in ByFile => n.file \notin files
    /\ n.op \in ByObject => n.object \in DOMAIN r.heap /\ r.heap[n.object].filename \notin files
    /\ n.op = "new_group" => n.group \notin founds
    /\ n.op \in ByGroup => n.group \in DOMAIN r.grouptomap

(* So they are about nothing of the account u. *)
LEMMA AccountNow ==
  ASSUME NEW r, NEW Q, NEW us, NEW fs, NEW gs, Away(Q, r, us, fs, gs),
         NEW u \in us, u \in DOMAIN r.usertomap, r.usertomap[u] \in User
  PROVE  /\ AccountAfter(r, Q, u) = r.usertomap[u]
         /\ u \in DOMAIN UsersAfter(r, Q)
         /\ UsersAfter(r, Q)[u] = r.usertomap[u]
<1>1. /\ {n \in Due(Q, "move") : n.user = u} = {}
      /\ {n \in Due(Q, "own") : n.user = u} = {}
  BY DEF Away, Due, ByUser
<1>2. AccountAfter(r, Q, u) = r.usertomap[u]
  BY <1>1 DEF AccountAfter, User
<1>3. u \in DOMAIN UsersAfter(r, Q) /\ UsersAfter(r, Q)[u] = AccountAfter(r, Q, u)
  BY DEF UsersAfter
<1> QED BY <1>2, <1>3

LEMMA FlagNow ==
  ASSUME NEW r, NEW Q, NEW us, NEW fs, NEW gs, Away(Q, r, us, fs, gs),
         NEW u \in us, u \in DOMAIN r.usertomap
  PROVE  u \in DOMAIN FlagsAfter(r, Q) /\ FlagsAfter(r, Q)[u] = (u \in r.loggedin)
<1>1. u \notin Whose(Q, "log_in") /\ u \notin Whose(Q, "log_out")
  BY DEF Away, Whose, Due, ByUser
<1> QED BY <1>1 DEF FlagsAfter

Becomes(r, P, users, flags, groups, files) ==
  /\ UsersAfter(r, P) = users
  /\ FlagsAfter(r, P) = flags
  /\ GroupsAfter(r, P) = groups
  /\ FilesAfter(r, P) = files

(* The later registry differs in nothing but ... *)
LEMMA CreateUserBegins ==
  ASSUME NEW r, NEW Q, NEW u, NEW fs, NEW gs, Away(Q, r, {u}, fs, gs), u \notin DOMAIN r.usertomap,
         NEW m, NEW n, m.op = "new_user", m.user = u, n.op = "log_in", n.user = u
  PROVE  /\ u \notin DOMAIN UsersAfter(r, Q)
         /\ Becomes(r, Q \cup {m, n},
                    Put(UsersAfter(r, Q), u, m.record),
                    Put(FlagsAfter(r, Q), u, TRUE),
                    GroupsAfter(r, Q),
                    FilesAfter(r, Q))
<1> DEFINE N == {m, n}
<1>1. \A k \in N : /\ k.op \notin OfUnlisted /\ k.op \notin OnGroup
                   /\ k.op \notin OfFiles /\ k.op \notin OfAddresses
  BY DEF OnGroup, OfUnlisted, OfLeaves, OfSharers, OfFiles, OfErased, OfObjects, OfAddresses
<1>2. /\ Due(Q \cup N, "new_user") = Due(Q, "new_user") \cup {m}
      /\ Due(Q \cup N, "move") = Due(Q, "move") /\ Due(Q \cup N, "own") = Due(Q, "own")
      /\ Due(Q \cup N, "log_in") = Due(Q, "log_in") \cup {n}
      /\ Due(Q \cup N, "log_out") = Due(Q, "log_out")
  BY DEF Due
<1>3. {k \in Due(Q, "new_user") : k.user = u} = {} /\ {k \in Due(Q, "log_out") : k.user = u} = {}
  BY DEF Away, Due, ByUser
<1> HIDE DEF N
<1>4. GroupsAfter(r, Q \cup N) = GroupsAfter(r, Q)
  <2>1. \A g : Unlisted(r, Q \cup N, g) = Unlisted(r, Q, g)
    BY <1>1, UnlistedBeside
  <2> QED BY <1>1, <2>1, GroupsBeside
<1>5. FilesAfter(r, Q \cup N) = FilesAfter(r, Q)
  BY <1>1, FilesBeside
<1>6. u \notin Whose(Q, "new_user") /\ u \notin Whose(Q, "log_out")
  BY <1>3 DEF Whose
<1>7. /\ Whose(Q \cup N, "new_user") = Whose(Q, "new_user") \cup {u}
      /\ Whose(Q \cup N, "log_in") = Whose(Q, "log_in") \cup {u}
      /\ Whose(Q \cup N, "log_out") = Whose(Q, "log_out")
  BY <1>2 DEF Whose
<1>8. \A x : x # u => AccountAfter(r, Q \cup N, x) = AccountAfter(r, Q, x)
  <2> TAKE x
  <2> HAVE x # u
  <2>1. {k \in Due(Q \cup N, "new_user") : k.user = x} = {k \in Due(Q, "new_user") : k.user = x}
    BY <1>2
  <2> QED BY <1>2, <2>1 DEF AccountAfter
<1>9. AccountAfter(r, Q \cup N, u) = m.record
  <2>1. {k \in Due(Q \cup N, "new_user") : k.user = u} = {m}
    BY <1>2, <1>3
  <2> QED BY <2>1, OneIs DEF AccountAfter
<1>10. UsersAfter(r, Q \cup N) = Put(UsersAfter(r, Q), u, m.record)
  BY <1>7, <1>8, <1>9 DEF UsersAfter, Put
<1>11. FlagsAfter(r, Q \cup N) = Put(FlagsAfter(r, Q), u, TRUE)
  <2> DEFINE D == DOMAIN r.usertomap \cup Whose(Q, "new_user")
             B == (r.loggedin \cup Whose(Q, "log_in")) \ Whose(Q, "log_out")
             C == (r.loggedin \cup Whose(Q \cup N, "log_in")) \ Whose(Q \cup N, "log_out")
  <2>1. u \in C /\ \A x : x # u => (x \in C <=> x \in B)
    BY <1>6, <1>7
  <2>2. FlagsAfter(r, Q \cup N) = [x \in D \cup {u} |-> x \in C]
    BY <1>7 DEF FlagsAfter
  <2>3. FlagsAfter(r, Q) = [x \in D |-> x \in B]
    BY DEF FlagsAfter
  <2> HIDE DEF D, B, C
  <2>4. Put(FlagsAfter(r, Q), u, TRUE) = [x \in D \cup {u} |-> IF x = u THEN TRUE ELSE FlagsAfter(r, Q)[x]]
    BY <2>3 DEF Put
  <2>5. ASSUME NEW x \in D \cup {u}
        PROVE  (x \in C) = (IF x = u THEN TRUE ELSE FlagsAfter(r, Q)[x])
    <3>1. CASE x = u
      BY <2>1, <3>1, Zenon
    <3>2. CASE x # u
      <4>1. FlagsAfter(r, Q)[x] = (x \in B)
        BY <2>3, <3>2
      <4>2. (x \in C) = (x \in B)
        BY <2>1, <3>2
      <4> QED BY <3>2, <4>1, <4>2, Zenon
    <3> QED BY <3>1, <3>2
  <2> QED BY <2>2, <2>4, <2>5, Zenon
<1>12. u \notin DOMAIN UsersAfter(r, Q)
  BY <1>6 DEF UsersAfter
<1> QED BY <1>4, <1>5, <1>10, <1>11, <1>12 DEF Becomes, N

-----------------------------------------------------------------------------
(* What will be when the handler of each command begins *)

Changed(f, k, v) == [f EXCEPT ![k] = v]

(* None of the updates N makes an account, or changes one that is not u's. *)
OnlyAccountOf(u, N) == \A n \in N : ~Does(n, "new_user") /\ (n.op \in OfUsers => n.user = u)

(* A handler that changes the account u alone. *)
LEMMA AccountBegins ==
  ASSUME NEW r, NEW Q, NEW N, NEW u, OnlyAccountOf(u, N)
  PROVE  UsersAfter(r, Q \cup N) = Changed(UsersAfter(r, Q), u, AccountAfter(r, Q \cup N, u))
<1>1. Due(Q \cup N, "new_user") = Due(Q, "new_user")
  BY DueBeside DEF OnlyAccountOf
<1>2. Whose(Q \cup N, "new_user") = Whose(Q, "new_user")
  BY <1>1 DEF Whose
<1>3. ASSUME NEW x, x # u PROVE AccountAfter(r, Q \cup N, x) = AccountAfter(r, Q, x)
  <2>1. \A n \in N : ~(n.op = "move" /\ n.user = x) /\ ~(n.op = "own" /\ n.user = x)
    BY <1>3 DEF OfUsers, OnlyAccountOf
  <2>2. {n \in Due(Q \cup N, "move") : n.user = x} = {n \in Due(Q, "move") : n.user = x}
    BY <2>1 DEF Due
  <2>3. {n \in Due(Q \cup N, "own") : n.user = x} = {n \in Due(Q, "own") : n.user = x}
    BY <2>1 DEF Due
  <2> QED BY <1>1, <2>2, <2>3 DEF AccountAfter
<1> QED BY <1>2, <1>3 DEF UsersAfter, Changed

LEMMA LogInBegins ==
  ASSUME NEW r, NEW Q, NEW N, NEW m \in N, m.op = "log_in",
         \A n \in N : ~Does(n, "new_user") /\ ~Does(n, "log_out"),
         \A n \in N : Does(n, "log_in") => n = m,
         m.user \notin Whose(Q, "log_out")
  PROVE  FlagsAfter(r, Q \cup N) = [FlagsAfter(r, Q) EXCEPT ![m.user] = TRUE]
<1> DEFINE D == DOMAIN r.usertomap \cup Whose(Q, "new_user")
           B == (r.loggedin \cup Whose(Q, "log_in")) \ Whose(Q, "log_out")
           C == (r.loggedin \cup Whose(Q \cup N, "log_in")) \ Whose(Q \cup N, "log_out")
           u == m.user
<1>1. Due(Q \cup N, "new_user") = Due(Q, "new_user") /\ Due(Q \cup N, "log_out") = Due(Q, "log_out")
  BY DueBeside
<1>2. Due(Q \cup N, "log_in") = Due(Q, "log_in") \cup {m}
  BY DEF Due, Does
<1>3. u \in C /\ \A x : x # u => (x \in C <=> x \in B)
  BY <1>1, <1>2 DEF Whose
<1>4. FlagsAfter(r, Q \cup N) = [x \in D |-> x \in C]
  BY <1>1 DEF FlagsAfter, Whose
<1>5. FlagsAfter(r, Q) = [x \in D |-> x \in B]
  BY DEF FlagsAfter
<1> HIDE DEF D, B, C, u
<1>6. [FlagsAfter(r, Q) EXCEPT ![u] = TRUE] = [x \in D |-> IF x = u THEN TRUE ELSE FlagsAfter(r, Q)[x]]
  BY <1>5, Zenon
<1>7. ASSUME NEW x \in D
      PROVE  (x \in C) = (IF x = u THEN TRUE ELSE FlagsAfter(r, Q)[x])
  <2>1. CASE x = u
    BY <1>3, <2>1, Zenon
  <2>2. CASE x # u
    <3>1. FlagsAfter(r, Q)[x] = (x \in B)
      BY <1>5
    <3>2. (x \in C) = (x \in B)
      BY <1>3, <2>2
    <3> QED BY <2>2, <3>1, <3>2, Zenon
  <2> QED BY <2>1, <2>2
<1>8. FlagsAfter(r, Q \cup N) = [FlagsAfter(r, Q) EXCEPT ![u] = TRUE]
  BY <1>4, <1>6, <1>7, Zenon
<1> QED BY <1>8 DEF u

LEMMA LogOutBegins ==
  ASSUME NEW r, NEW Q, NEW m, m.op = "log_out"
  PROVE  FlagsAfter(r, Q \cup {m}) = [FlagsAfter(r, Q) EXCEPT ![m.user] = FALSE]
<1> DEFINE D == DOMAIN r.usertomap \cup Whose(Q, "new_user")
           B == (r.loggedin \cup Whose(Q, "log_in")) \ Whose(Q, "log_out")
           C == (r.loggedin \cup Whose(Q \cup {m}, "log_in")) \ Whose(Q \cup {m}, "log_out")
           u == m.user
<1>1. Due(Q \cup {m}, "new_user") = Due(Q, "new_user") /\ Due(Q \cup {m}, "log_in") = Due(Q, "log_in")
  BY DueOther DEF Does
<1>2. Due(Q \cup {m}, "log_out") = Due(Q, "log_out") \cup {m}
  BY DEF Due, Does
<1>3. u \notin C /\ \A x : x # u => (x \in C <=> x \in B)
  BY <1>1, <1>2 DEF Whose
<1>4. FlagsAfter(r, Q \cup {m}) = [x \in D |-> x \in C]
  BY <1>1 DEF FlagsAfter, Whose
<1>5. FlagsAfter(r, Q) = [x \in D |-> x \in B]
  BY DEF FlagsAfter
<1> HIDE DEF D, B, C, u
<1>6. [FlagsAfter(r, Q) EXCEPT ![u] = FALSE] = [x \in D |-> IF x = u THEN FALSE ELSE FlagsAfter(r, Q)[x]]
  BY <1>5, Zenon
<1>7. ASSUME NEW x \in D
      PROVE  (x \in C) = (IF x = u THEN FALSE ELSE FlagsAfter(r, Q)[x])
  <2>1. CASE x = u
    <3>1. (x \in C) = FALSE
      BY <1>3, <2>1
    <3> QED BY <2>1, <3>1, Zenon
  <2>2. CASE x # u
    <3>1. FlagsAfter(r, Q)[x] = (x \in B)
      BY <1>5
    <3>2. (x \in C) = (x \in B)
      BY <1>3, <2>2
    <3> QED BY <2>2, <3>1, <3>2, Zenon
  <2> QED BY <2>1, <2>2
<1>8. FlagsAfter(r, Q \cup {m}) = [FlagsAfter(r, Q) EXCEPT ![u] = FALSE]
  BY <1>4, <1>6, <1>7, Zenon
<1> QED BY <1>8 DEF u

(* What the updates of an account leave alone. *)
LEMMA NoGroupsBegin ==
  ASSUME NEW r, NEW Q, NEW N, \A n \in N : n.op \in OnAccount
  PROVE  /\ GroupsAfter(r, Q \cup N) = GroupsAfter(r, Q)
         /\ FilesAfter(r, Q \cup N) = FilesAfter(r, Q)
<1>1. \A k \in N : /\ k.op \notin OfUnlisted /\ k.op \notin OnGroup
                   /\ k.op \notin OfFiles /\ k.op \notin OfAddresses
  BY DEF OnAccount, OnGroup, OfUnlisted, OfLeaves, OfSharers, OfFiles, OfErased, OfObjects, OfAddresses
<1>2. \A g : Unlisted(r, Q \cup N, g) = Unlisted(r, Q, g)
  BY <1>1, UnlistedBeside
<1>3. GroupsAfter(r, Q \cup N) = GroupsAfter(r, Q)
  BY <1>1, <1>2, GroupsBeside
<1>4. FilesAfter(r, Q \cup N) = FilesAfter(r, Q)
  BY <1>1, FilesBeside
<1> QED BY <1>3, <1>4

LEMMA LoginBegins ==
  ASSUME NEW r, NEW Q, NEW u, NEW fs, NEW gs, Away(Q, r, {u}, fs, gs),
         u \in DOMAIN r.usertomap, r.usertomap[u] \in User,
         NEW m, NEW n, m.op = "log_in", m.user = u, n.op = "move", n.user = u
  PROVE  Becomes(r, Q \cup {m, n},
                  [UsersAfter(r, Q) EXCEPT ![u].address = n.address],
                  [FlagsAfter(r, Q) EXCEPT ![u] = TRUE],
                  GroupsAfter(r, Q),
                  FilesAfter(r, Q))
<1>1. GroupsAfter(r, Q \cup {m, n}) = GroupsAfter(r, Q) /\ FilesAfter(r, Q \cup {m, n}) = FilesAfter(r, Q)
  <2>1. \A k \in {m, n} : k.op \in OnAccount
    BY DEF OnAccount
  <2> QED BY <2>1, NoGroupsBegin
<1>2. FlagsAfter(r, Q \cup {m, n}) = [FlagsAfter(r, Q) EXCEPT ![u] = TRUE]
  <2> DEFINE N == {m, n}
  <2>1. /\ \A k \in N : ~Does(k, "new_user") /\ ~Does(k, "log_out")
        /\ \A k \in N : Does(k, "log_in") => k = m
        /\ m \in N
    BY DEF Does
  <2>2. m.user \notin Whose(Q, "log_out")
    BY DEF Away, Whose, Due, ByUser
  <2> HIDE DEF N
  <2>3. FlagsAfter(r, Q \cup N) = [FlagsAfter(r, Q) EXCEPT ![m.user] = TRUE]
    BY <2>1, <2>2, LogInBegins
  <2> QED BY <2>3 DEF N
<1>3. UsersAfter(r, Q \cup {m, n}) = [UsersAfter(r, Q) EXCEPT ![u] = AccountAfter(r, Q \cup {m, n}, u)]
  <2> DEFINE N == {m, n}
  <2>1. OnlyAccountOf(u, N)
    BY DEF Does, OnlyAccountOf
  <2> HIDE DEF N
  <2>2. UsersAfter(r, Q \cup N) = Changed(UsersAfter(r, Q), u, AccountAfter(r, Q \cup N, u))
    BY <2>1, AccountBegins
  <2> QED BY <2>2 DEF N, Changed
<1>4. {k \in Due(Q \cup {m, n}, "move") : k.user = u} = {n}
  BY DEF Due, Away, ByUser
<1>5. {k.group : k \in {l \in Due(Q \cup {m, n}, "own") : l.user = u}} = {}
  BY DEF Due, Away, ByUser
<1>6. AccountAfter(r, Q \cup {m, n}, u) =
        [password |-> r.usertomap[u].password, address |-> n.address,
         groups |-> r.usertomap[u].groups, mygroups |-> r.usertomap[u].mygroups]
  BY <1>4, <1>5, OneIs DEF AccountAfter
<1>7. UsersAfter(r, Q)[u] = r.usertomap[u]
  BY AccountNow
<1>8. [UsersAfter(r, Q)[u] EXCEPT !.address = n.address] = AccountAfter(r, Q \cup {m, n}, u)
  BY <1>6, <1>7 DEF User
<1>9. UsersAfter(r, Q \cup {m, n}) = [UsersAfter(r, Q) EXCEPT ![u].address = n.address]
  BY <1>3, <1>8
<1> QED BY <1>1, <1>2, <1>9 DEF Becomes

LEMMA LogoutBegins ==
  ASSUME NEW r, NEW Q, NEW m, m.op = "log_out"
  PROVE  Becomes(r, Q \cup {m},
                  UsersAfter(r, Q),
                  [FlagsAfter(r, Q) EXCEPT ![m.user] = FALSE],
                  GroupsAfter(r, Q),
                  FilesAfter(r, Q))
<1>1. GroupsAfter(r, Q \cup {m}) = GroupsAfter(r, Q) /\ FilesAfter(r, Q \cup {m}) = FilesAfter(r, Q)
  <2>1. \A k \in {m} : k.op \in OnAccount
    BY DEF OnAccount
  <2> QED BY <2>1, NoGroupsBegin
<1>2. UsersAfter(r, Q \cup {m}) = UsersAfter(r, Q)
  <2>1. \A k \in {m} : k.op \notin OfUsers
    BY DEF OfUsers
  <2> QED BY <2>1, UsersBeside
<1>3. FlagsAfter(r, Q \cup {m}) = [FlagsAfter(r, Q) EXCEPT ![m.user] = FALSE]
  BY LogOutBegins
<1> QED BY <1>1, <1>2, <1>3 DEF Becomes

LEMMA OwnedBoth ==
  ASSUME NEW v \in User, NEW g
  PROVE  [v EXCEPT !.groups = @ \cup {g}, !.mygroups = @ \cup {g}] =
           [password |-> v.password, address |-> v.address,
            groups |-> v.groups \cup {g}, mygroups |-> v.mygroups \cup {g}]
<1>1. [v EXCEPT !.groups = v.groups \cup {g}] =
          [password |-> v.password, address |-> v.address,
           groups |-> v.groups \cup {g}, mygroups |-> v.mygroups]
  BY DEF User
<1>2. [v EXCEPT !.groups = @ \cup {g}, !.mygroups = @ \cup {g}]
      = [[v EXCEPT !.groups = v.groups \cup {g}] EXCEPT !.mygroups = v.mygroups \cup {g}]
  OBVIOUS
<1>3. [[password |-> v.password, address |-> v.address,
        groups |-> v.groups \cup {g}, mygroups |-> v.mygroups] EXCEPT !.mygroups = v.mygroups \cup {g}] =
          [password |-> v.password, address |-> v.address,
           groups |-> v.groups \cup {g}, mygroups |-> v.mygroups \cup {g}]
  OBVIOUS
<1> QED BY <1>1, <1>2, <1>3

LEMMA CreateGroupBegins ==
  ASSUME NEW r, NEW Q, NEW u, NEW g, Away(Q, r, {u}, {}, {g}), g \notin DOMAIN r.grouptomap,
         u \in DOMAIN r.usertomap, r.usertomap[u] \in User,
         NEW m, NEW n, m.op = "new_group", m.group = g, n.op = "own", n.user = u, n.group = g
  PROVE  /\ g \notin DOMAIN GroupsAfter(r, Q)
         /\ Becomes(r, Q \cup {m, n},
                    [UsersAfter(r, Q) EXCEPT ![u].groups = @ \cup {g}, ![u].mygroups = @ \cup {g}],
                    FlagsAfter(r, Q),
                    Put(GroupsAfter(r, Q), g, m.record),
                    FilesAfter(r, Q))
<1> DEFINE N == {m, n}
<1>1. /\ \A k \in N : k.op \notin OfFiles /\ k.op \notin OfAddresses
      /\ \A k \in N : k.op \notin OfUnlisted
      /\ \A k \in N : k.op \notin OfFlags
  BY DEF OfUnlisted, OfLeaves, OfSharers, OfFiles, OfErased, OfObjects, OfAddresses, OfFlags
<1>2. OnlyAccountOf(u, N)
  BY DEF OnlyAccountOf, Does, OfUsers
<1>3. /\ {k \in Due(Q \cup N, "move") : k.user = u} = {}
      /\ {k \in Due(Q \cup N, "own") : k.user = u} = {n}
  BY DEF Due, Away, ByUser
<1>4. /\ Due(Q \cup N, "new_group") = Due(Q, "new_group") \cup {m}
      /\ Due(Q \cup N, "list") = Due(Q, "list")
      /\ Due(Q \cup N, "ask") = Due(Q, "ask") /\ Due(Q \cup N, "answer") = Due(Q, "answer")
      /\ Due(Q \cup N, "admit") = Due(Q, "admit") /\ Due(Q \cup N, "leave") = Due(Q, "leave")
  BY DEF Due
<1>5. {k \in Due(Q, "new_group") : k.group = g} = {}
  BY DEF Away, Due
<1> HIDE DEF N
<1>6. FilesAfter(r, Q \cup N) = FilesAfter(r, Q)
  BY <1>1, FilesBeside
<1>7. FlagsAfter(r, Q \cup N) = FlagsAfter(r, Q)
  BY <1>1, FlagsBeside
<1>8. \A h : Unlisted(r, Q \cup N, h) = Unlisted(r, Q, h)
  BY <1>1, UnlistedBeside
<1>9. \A h : h # g => GroupAfter(r, Q \cup N, h) = GroupAfter(r, Q, h)
  <2> TAKE h
  <2> HAVE h # g
  <2>1. {k \in Due(Q \cup N, "new_group") : k.group = h} = {k \in Due(Q, "new_group") : k.group = h}
    BY <1>4
  <2> QED BY <1>4, <1>8, <2>1 DEF GroupAfter, WhoseIn
<1>10. GroupAfter(r, Q \cup N, g) = m.record
  <2>1. {k \in Due(Q \cup N, "new_group") : k.group = g} = {m}
    BY <1>4, <1>5
  <2> QED BY <2>1, OneIs DEF GroupAfter
<1>11. {k.group : k \in Due(Q \cup N, "new_group")} = {k.group : k \in Due(Q, "new_group")} \cup {g}
  BY <1>4
<1>12. GroupsAfter(r, Q \cup N) = Put(GroupsAfter(r, Q), g, m.record)
  BY <1>9, <1>10, <1>11 DEF GroupsAfter, Put
<1>13. g \notin DOMAIN GroupsAfter(r, Q)
  BY <1>5 DEF GroupsAfter
<1>14. UsersAfter(r, Q \cup N) = Changed(UsersAfter(r, Q), u, AccountAfter(r, Q \cup N, u))
  BY <1>2, AccountBegins
<1>15. UsersAfter(r, Q)[u] = r.usertomap[u] /\ u \in DOMAIN UsersAfter(r, Q)
  BY AccountNow
<1>16. {k.group : k \in {l \in Due(Q \cup N, "own") : l.user = u}} = {g}
  BY <1>3
<1>17. AccountAfter(r, Q \cup N, u) =
        [password |-> r.usertomap[u].password, address |-> r.usertomap[u].address,
         groups |-> r.usertomap[u].groups \cup {g}, mygroups |-> r.usertomap[u].mygroups \cup {g}]
  BY <1>3, <1>16 DEF AccountAfter
<1>18. [UsersAfter(r, Q)[u] EXCEPT !.groups = @ \cup {g}, !.mygroups = @ \cup {g}] = AccountAfter(r, Q \cup N, u)
  <2> DEFINE v == r.usertomap[u]
  <2>1. [v EXCEPT !.groups = @ \cup {g}, !.mygroups = @ \cup {g}] =
          [password |-> v.password, address |-> v.address,
           groups |-> v.groups \cup {g}, mygroups |-> v.mygroups \cup {g}]
    BY OwnedBoth
  <2> QED BY <1>15, <1>17, <2>1
<1>19. [UsersAfter(r, Q) EXCEPT ![u].groups = @ \cup {g}, ![u].mygroups = @ \cup {g}] =
       [UsersAfter(r, Q) EXCEPT ![u] = [UsersAfter(r, Q)[u] EXCEPT !.groups = @ \cup {g}, !.mygroups = @ \cup {g}]]
  BY <1>15
<1> QED BY <1>6, <1>7, <1>12, <1>13, <1>14, <1>18, <1>19 DEF Becomes, N, Changed

(* The parts of a group that a handler looks at. *)
LEMMA GroupNow ==
  ASSUME NEW r, NEW Q, NEW us, NEW fs, NEW gs, Away(Q, r, us, fs, gs), NEW g, g \in DOMAIN r.grouptomap
  PROVE  /\ g \in DOMAIN GroupsAfter(r, Q)
         /\ GroupsAfter(r, Q)[g] = GroupAfter(r, Q, g)
         /\ GroupAfter(r, Q, g).adminid = r.grouptomap[g].adminid
         /\ \A u \in us : /\ u \in GroupAfter(r, Q, g).members <=> u \in r.grouptomap[g].members
                          /\ u \in GroupAfter(r, Q, g).requests <=> u \in r.grouptomap[g].requests
         /\ \A f \in fs : f \in GroupAfter(r, Q, g).files <=> f \in r.grouptomap[g].files
<1>1. g \in DOMAIN GroupsAfter(r, Q) /\ GroupsAfter(r, Q)[g] = GroupAfter(r, Q, g)
  BY DEF GroupsAfter
<1>2. \A u \in us : /\ u \notin WhoseIn(Q, "ask", g) /\ u \notin WhoseIn(Q, "answer", g)
                    /\ u \notin WhoseIn(Q, "admit", g) /\ u \notin WhoseIn(Q, "leave", g)
  BY DEF Away, WhoseIn, Due, ByUser
<1>3. \A f \in fs : f \notin ListedIn(Q, g)
  BY DEF Away, ListedIn, Due, ByFile
<1>4. \A f \in fs : f \notin Unlisted(r, Q, g)
  <2>1. \A n \in Due(Q, "unlist") \cup LastLeaves(r, Q) : n \in Q /\ n.op \in ByObject
    BY DEF LastLeaves, Due, ByObject, OnRecord
  <2>2. \A n \in Due(Q, "unlist") \cup LastLeaves(r, Q) : r.heap[n.object].filename \notin fs
    BY <2>1 DEF Away
  <2> QED BY <2>2 DEF Unlisted
<1>5. /\ GroupAfter(r, Q, g).adminid = r.grouptomap[g].adminid
      /\ GroupAfter(r, Q, g).members = (r.grouptomap[g].members \cup WhoseIn(Q, "admit", g)) \ WhoseIn(Q, "leave", g)
      /\ GroupAfter(r, Q, g).files = (r.grouptomap[g].files \cup ListedIn(Q, g)) \ Unlisted(r, Q, g)
      /\ GroupAfter(r, Q, g).requests = (r.grouptomap[g].requests \cup WhoseIn(Q, "ask", g)) \ WhoseIn(Q, "answer", g)
  BY GroupAfterIs
<1>6. \A u \in us : /\ u \in GroupAfter(r, Q, g).members <=> u \in r.grouptomap[g].members
                    /\ u \in GroupAfter(r, Q, g).requests <=> u \in r.grouptomap[g].requests
  BY <1>2, <1>5
<1>7. \A f \in fs : f \in GroupAfter(r, Q, g).files <=> f \in r.grouptomap[g].files
  BY <1>3, <1>4, <1>5
<1> QED BY <1>1, <1>5, <1>6, <1>7

(* None of the updates N makes a group, or changes one that is not g. *)
OnlyGroup(g, N) == \A n \in N : ~Does(n, "new_group") /\ (n.op \in OnGroup => n.group = g)

LEMMA GroupBegins ==
  ASSUME NEW r, NEW Q, NEW N, NEW g, OnlyGroup(g, N),
         \A h : h # g => Unlisted(r, Q \cup N, h) = Unlisted(r, Q, h)
  PROVE  GroupsAfter(r, Q \cup N) = Changed(GroupsAfter(r, Q), g, GroupAfter(r, Q \cup N, g))
<1>1. Due(Q \cup N, "new_group") = Due(Q, "new_group")
  BY DueBeside DEF OnlyGroup
<1>2. ASSUME NEW h, h # g PROVE GroupAfter(r, Q \cup N, h) = GroupAfter(r, Q, h)
  <2>1. \A n \in N : /\ ~(n.op = "ask" /\ n.group = h) /\ ~(n.op = "answer" /\ n.group = h)
                     /\ ~(n.op = "admit" /\ n.group = h) /\ ~(n.op = "leave" /\ n.group = h)
                     /\ ~(n.op = "list" /\ n.group = h)
    BY <1>2 DEF OnlyGroup, OnGroup
  <2>2. /\ {n \in Due(Q \cup N, "ask") : n.group = h} = {n \in Due(Q, "ask") : n.group = h}
        /\ {n \in Due(Q \cup N, "answer") : n.group = h} = {n \in Due(Q, "answer") : n.group = h}
    BY <2>1 DEF Due
  <2>3. /\ {n \in Due(Q \cup N, "admit") : n.group = h} = {n \in Due(Q, "admit") : n.group = h}
        /\ {n \in Due(Q \cup N, "leave") : n.group = h} = {n \in Due(Q, "leave") : n.group = h}
    BY <2>1 DEF Due
  <2>4. {n \in Due(Q \cup N, "list") : n.group = h} = {n \in Due(Q, "list") : n.group = h}
    BY <2>1 DEF Due
  <2>5. Unlisted(r, Q \cup N, h) = Unlisted(r, Q, h)
    BY <1>2
  <2> QED BY <1>1, <2>2, <2>3, <2>4, <2>5 DEF GroupAfter, WhoseIn
<1> QED BY <1>1, <1>2 DEF GroupsAfter, Changed

(* The updates N are of who is in the group g, or wants to be. *)
Membership(g, N) == \A n \in N : n.op \in {"ask", "answer", "admit", "leave"} /\ n.group = g

GroupAlone(r, Q, N, g) ==
  /\ UsersAfter(r, Q \cup N) = UsersAfter(r, Q)
  /\ FlagsAfter(r, Q \cup N) = FlagsAfter(r, Q)
  /\ FilesAfter(r, Q \cup N) = FilesAfter(r, Q)
  /\ GroupsAfter(r, Q \cup N) = Changed(GroupsAfter(r, Q), g, GroupAfter(r, Q \cup N, g))
  /\ GroupAfter(r, Q \cup N, g) =
       [adminid |-> GroupAfter(r, Q, g).adminid,
        members |-> (r.grouptomap[g].members \cup WhoseIn(Q \cup N, "admit", g)) \ WhoseIn(Q \cup N, "leave", g),
        files |-> GroupAfter(r, Q, g).files,
        requests |-> (r.grouptomap[g].requests \cup WhoseIn(Q \cup N, "ask", g)) \ WhoseIn(Q \cup N, "answer", g)]

LEMMA MembershipBegins ==
  ASSUME NEW r, NEW Q, NEW N, NEW g, g \in DOMAIN r.grouptomap, Membership(g, N)
  PROVE  GroupAlone(r, Q, N, g)
<1>1. /\ \A k \in N : k.op \notin OfFiles /\ k.op \notin OfAddresses
      /\ \A k \in N : k.op \notin OfUnlisted
      /\ \A k \in N : k.op \notin OfFlags
      /\ \A k \in N : k.op \notin OfUsers
  BY DEF Membership, OfUnlisted, OfLeaves, OfSharers, OfFiles, OfErased, OfObjects, OfAddresses, OfFlags, OfUsers
<1>2. OnlyGroup(g, N) /\ \A k \in N : ~Does(k, "list")
  BY DEF Membership, OnlyGroup, Does
<1>3. FilesAfter(r, Q \cup N) = FilesAfter(r, Q)
  BY <1>1, FilesBeside
<1>4. FlagsAfter(r, Q \cup N) = FlagsAfter(r, Q)
  BY <1>1, FlagsBeside
<1>5. UsersAfter(r, Q \cup N) = UsersAfter(r, Q)
  BY <1>1, UsersBeside
<1>6. \A h : Unlisted(r, Q \cup N, h) = Unlisted(r, Q, h)
  BY <1>1, UnlistedBeside
<1>7. GroupsAfter(r, Q \cup N) = Changed(GroupsAfter(r, Q), g, GroupAfter(r, Q \cup N, g))
  BY <1>2, <1>6, GroupBegins
<1>8. Due(Q \cup N, "list") = Due(Q, "list")
  BY <1>2, DueBeside
<1>9. ListedIn(Q \cup N, g) = ListedIn(Q, g)
  BY <1>8 DEF ListedIn
<1>10. GroupAfter(r, Q, g).adminid = r.grouptomap[g].adminid
       /\ GroupAfter(r, Q, g).files = (r.grouptomap[g].files \cup ListedIn(Q, g)) \ Unlisted(r, Q, g)
  BY GroupAfterIs
<1>11. GroupAfter(r, Q \cup N, g) =
           [adminid |-> r.grouptomap[g].adminid,
            members |-> (r.grouptomap[g].members \cup WhoseIn(Q \cup N, "admit", g)) \ WhoseIn(Q \cup N, "leave", g),
            files |-> (r.grouptomap[g].files \cup ListedIn(Q \cup N, g)) \ Unlisted(r, Q \cup N, g),
            requests |-> (r.grouptomap[g].requests \cup WhoseIn(Q \cup N, "ask", g)) \ WhoseIn(Q \cup N, "answer", g)]
  BY GroupAfterIs
<1>12. (r.grouptomap[g].files \cup ListedIn(Q \cup N, g)) \ Unlisted(r, Q \cup N, g) = GroupAfter(r, Q, g).files
  BY <1>6, <1>9, <1>10
<1>13. GroupAfter(r, Q \cup N, g) =
              [adminid |-> GroupAfter(r, Q, g).adminid,
               members |-> (r.grouptomap[g].members \cup WhoseIn(Q \cup N, "admit", g)) \ WhoseIn(Q \cup N, "leave", g),
               files |-> GroupAfter(r, Q, g).files,
               requests |-> (r.grouptomap[g].requests \cup WhoseIn(Q \cup N, "ask", g)) \ WhoseIn(Q \cup N, "answer", g)]
  BY <1>10, <1>11, <1>12
<1> QED BY <1>3, <1>4, <1>5, <1>7, <1>13 DEF GroupAlone

(* A group with other members or requests. *)
LEMMA OtherRequests ==
  ASSUME NEW now, now = [adminid |-> now.adminid, members |-> now.members,
                         files |-> now.files, requests |-> now.requests], NEW R
  PROVE  [now EXCEPT !.requests = R] =
           [adminid |-> now.adminid, members |-> now.members, files |-> now.files, requests |-> R]
<1> DEFINE a == now.adminid
           b == now.members
           c == now.files
           d == now.requests
<1>1. now = [adminid |-> a, members |-> b, files |-> c, requests |-> d]
  OBVIOUS
<1> HIDE DEF a, b, c, d
<1>2. [[adminid |-> a, members |-> b, files |-> c, requests |-> d] EXCEPT !.requests = R] =
        [adminid |-> a, members |-> b, files |-> c, requests |-> R]
  OBVIOUS
<1> QED BY <1>1, <1>2 DEF a, b, c, d

LEMMA OtherMembers ==
  ASSUME NEW now, now = [adminid |-> now.adminid, members |-> now.members,
                         files |-> now.files, requests |-> now.requests], NEW M
  PROVE  [now EXCEPT !.members = M] =
           [adminid |-> now.adminid, members |-> M, files |-> now.files, requests |-> now.requests]
<1> DEFINE a == now.adminid
           b == now.members
           c == now.files
           d == now.requests
<1>1. now = [adminid |-> a, members |-> b, files |-> c, requests |-> d]
  OBVIOUS
<1> HIDE DEF a, b, c, d
<1>2. [[adminid |-> a, members |-> b, files |-> c, requests |-> d] EXCEPT !.members = M] =
        [adminid |-> a, members |-> M, files |-> c, requests |-> d]
  OBVIOUS
<1> QED BY <1>1, <1>2 DEF a, b, c, d

LEMMA OtherFiles ==
  ASSUME NEW now, now = [adminid |-> now.adminid, members |-> now.members,
                         files |-> now.files, requests |-> now.requests], NEW F
  PROVE  [now EXCEPT !.files = F] =
           [adminid |-> now.adminid, members |-> now.members, files |-> F, requests |-> now.requests]
<1> DEFINE a == now.adminid
           b == now.members
           c == now.files
           d == now.requests
<1>1. now = [adminid |-> a, members |-> b, files |-> c, requests |-> d]
  OBVIOUS
<1> HIDE DEF a, b, c, d
<1>2. [[adminid |-> a, members |-> b, files |-> c, requests |-> d] EXCEPT !.files = F] =
        [adminid |-> a, members |-> b, files |-> F, requests |-> d]
  OBVIOUS
<1> QED BY <1>1, <1>2 DEF a, b, c, d

LEMMA GroupShape ==
  ASSUME NEW r, NEW P, NEW g, g \in DOMAIN r.grouptomap, NEW now, now = GroupAfter(r, P, g)
  PROVE  /\ now = [adminid |-> now.adminid, members |-> now.members,
                   files |-> now.files, requests |-> now.requests]
         /\ now.members = (r.grouptomap[g].members \cup WhoseIn(P, "admit", g)) \ WhoseIn(P, "leave", g)
         /\ now.files = (r.grouptomap[g].files \cup ListedIn(P, g)) \ Unlisted(r, P, g)
         /\ now.requests = (r.grouptomap[g].requests \cup WhoseIn(P, "ask", g)) \ WhoseIn(P, "answer", g)
<1>1. now =
           [adminid |-> r.grouptomap[g].adminid,
            members |-> (r.grouptomap[g].members \cup WhoseIn(P, "admit", g)) \ WhoseIn(P, "leave", g),
            files |-> (r.grouptomap[g].files \cup ListedIn(P, g)) \ Unlisted(r, P, g),
            requests |-> (r.grouptomap[g].requests \cup WhoseIn(P, "ask", g)) \ WhoseIn(P, "answer", g)]
  BY GroupAfterIs
<1> QED BY <1>1

LEMMA AskBegins ==
  ASSUME NEW r, NEW Q, NEW u, NEW fs, NEW gs, Away(Q, r, {u}, fs, gs),
         NEW g, g \in DOMAIN r.grouptomap, NEW m, m.op = "ask", m.group = g, m.user = u
  PROVE  Becomes(r, Q \cup {m},
                  UsersAfter(r, Q),
                  FlagsAfter(r, Q),
                  [GroupsAfter(r, Q) EXCEPT ![g].requests = @ \cup {u}],
                  FilesAfter(r, Q))
<1> DEFINE N == {m}
           now == GroupAfter(r, Q, g)
           then == GroupAfter(r, Q \cup N, g)
<1>1. Membership(g, N)
  BY DEF Membership
<1>2. /\ Due(Q \cup N, "ask") = Due(Q, "ask") \cup {m} /\ Due(Q \cup N, "answer") = Due(Q, "answer")
      /\ Due(Q \cup N, "admit") = Due(Q, "admit") /\ Due(Q \cup N, "leave") = Due(Q, "leave")
  BY DEF Due
<1> HIDE DEF N
<1>3. GroupAlone(r, Q, N, g)
  BY <1>1, MembershipBegins
<1>4. /\ WhoseIn(Q \cup N, "answer", g) = WhoseIn(Q, "answer", g)
      /\ WhoseIn(Q \cup N, "admit", g) = WhoseIn(Q, "admit", g)
      /\ WhoseIn(Q \cup N, "leave", g) = WhoseIn(Q, "leave", g)
      /\ WhoseIn(Q \cup N, "ask", g) = WhoseIn(Q, "ask", g) \cup {u}
  BY <1>2 DEF WhoseIn
<1>5. u \notin WhoseIn(Q, "answer", g)
  BY DEF Away, WhoseIn, Due, ByUser
<1> HIDE DEF now, then
<1>6. /\ now = [adminid |-> now.adminid, members |-> now.members,
                files |-> now.files, requests |-> now.requests]
      /\ now.members = (r.grouptomap[g].members \cup WhoseIn(Q, "admit", g)) \ WhoseIn(Q, "leave", g)
      /\ now.requests = (r.grouptomap[g].requests \cup WhoseIn(Q, "ask", g)) \ WhoseIn(Q, "answer", g)
  BY GroupShape DEF now
<1>7. then = [adminid |-> now.adminid,
               members |-> (r.grouptomap[g].members \cup WhoseIn(Q \cup N, "admit", g)) \ WhoseIn(Q \cup N, "leave", g),
               files |-> now.files,
               requests |-> (r.grouptomap[g].requests \cup WhoseIn(Q \cup N, "ask", g)) \ WhoseIn(Q \cup N, "answer", g)]
  BY <1>3 DEF GroupAlone, now, then
<1>8. then = [adminid |-> now.adminid, members |-> now.members, files |-> now.files, requests |-> now.requests \cup {u}]
  <2>1. (r.grouptomap[g].requests \cup WhoseIn(Q \cup N, "ask", g)) \ WhoseIn(Q \cup N, "answer", g) = now.requests \cup {u}
    BY <1>4, <1>5, <1>6
  <2>2. (r.grouptomap[g].members \cup WhoseIn(Q \cup N, "admit", g)) \ WhoseIn(Q \cup N, "leave", g) = now.members
    BY <1>4, <1>6
  <2> QED BY <1>7, <2>1, <2>2
<1>9. then = [now EXCEPT !.requests = now.requests \cup {u}]
  BY <1>6, <1>8, OtherRequests
<1>10. g \in DOMAIN GroupsAfter(r, Q) /\ GroupsAfter(r, Q)[g] = now
  BY GroupNow DEF now
<1>11. GroupsAfter(r, Q \cup N) = Changed(GroupsAfter(r, Q), g, then)
  BY <1>3 DEF GroupAlone, then
<1>12. GroupsAfter(r, Q \cup N) = [GroupsAfter(r, Q) EXCEPT ![g].requests = @ \cup {u}]
  BY <1>9, <1>10, <1>11 DEF Changed
<1>13. /\ UsersAfter(r, Q \cup N) = UsersAfter(r, Q)
       /\ FlagsAfter(r, Q \cup N) = FlagsAfter(r, Q)
       /\ FilesAfter(r, Q \cup N) = FilesAfter(r, Q)
  BY <1>3 DEF GroupAlone
<1> QED BY <1>12, <1>13 DEF Becomes, N

LEMMA LeaveBegins ==
  ASSUME NEW r, NEW Q, NEW u, NEW fs, NEW gs, Away(Q, r, {u}, fs, gs),
         NEW g, g \in DOMAIN r.grouptomap, NEW m, m.op = "leave", m.group = g, m.user = u
  PROVE  Becomes(r, Q \cup {m},
                  UsersAfter(r, Q),
                  FlagsAfter(r, Q),
                  [GroupsAfter(r, Q) EXCEPT ![g].members = @ \ {u}],
                  FilesAfter(r, Q))
<1> DEFINE N == {m}
           now == GroupAfter(r, Q, g)
           then == GroupAfter(r, Q \cup N, g)
<1>1. Membership(g, N)
  BY DEF Membership
<1>2. /\ Due(Q \cup N, "ask") = Due(Q, "ask") /\ Due(Q \cup N, "answer") = Due(Q, "answer")
      /\ Due(Q \cup N, "admit") = Due(Q, "admit") /\ Due(Q \cup N, "leave") = Due(Q, "leave") \cup {m}
  BY DEF Due
<1> HIDE DEF N
<1>3. GroupAlone(r, Q, N, g)
  BY <1>1, MembershipBegins
<1>4. /\ WhoseIn(Q \cup N, "answer", g) = WhoseIn(Q, "answer", g)
      /\ WhoseIn(Q \cup N, "admit", g) = WhoseIn(Q, "admit", g)
      /\ WhoseIn(Q \cup N, "leave", g) = WhoseIn(Q, "leave", g) \cup {u}
      /\ WhoseIn(Q \cup N, "ask", g) = WhoseIn(Q, "ask", g)
  BY <1>2 DEF WhoseIn
<1> HIDE DEF now, then
<1>5. /\ now = [adminid |-> now.adminid, members |-> now.members,
                files |-> now.files, requests |-> now.requests]
      /\ now.members = (r.grouptomap[g].members \cup WhoseIn(Q, "admit", g)) \ WhoseIn(Q, "leave", g)
      /\ now.requests = (r.grouptomap[g].requests \cup WhoseIn(Q, "ask", g)) \ WhoseIn(Q, "answer", g)
  BY GroupShape DEF now
<1>6. then = [adminid |-> now.adminid,
               members |-> (r.grouptomap[g].members \cup WhoseIn(Q \cup N, "admit", g)) \ WhoseIn(Q \cup N, "leave", g),
               files |-> now.files,
               requests |-> (r.grouptomap[g].requests \cup WhoseIn(Q \cup N, "ask", g)) \ WhoseIn(Q \cup N, "answer", g)]
  BY <1>3 DEF GroupAlone, now, then
<1>7. then = [adminid |-> now.adminid, members |-> now.members \ {u}, files |-> now.files, requests |-> now.requests]
  <2>1. (r.grouptomap[g].requests \cup WhoseIn(Q \cup N, "ask", g)) \ WhoseIn(Q \cup N, "answer", g) = now.requests
    BY <1>4, <1>5
  <2>2. (r.grouptomap[g].members \cup WhoseIn(Q \cup N, "admit", g)) \ WhoseIn(Q \cup N, "leave", g) = now.members \ {u}
    BY <1>4, <1>5
  <2> QED BY <1>6, <2>1, <2>2
<1>8. then = [now EXCEPT !.members = now.members \ {u}]
  BY <1>5, <1>7, OtherMembers
<1>9. g \in DOMAIN GroupsAfter(r, Q) /\ GroupsAfter(r, Q)[g] = now
  BY GroupNow DEF now
<1>10. GroupsAfter(r, Q \cup N) = Changed(GroupsAfter(r, Q), g, then)
  BY <1>3 DEF GroupAlone, then
<1>11. GroupsAfter(r, Q \cup N) = [GroupsAfter(r, Q) EXCEPT ![g].members = @ \ {u}]
  BY <1>8, <1>9, <1>10 DEF Changed
<1>12. /\ UsersAfter(r, Q \cup N) = UsersAfter(r, Q)
       /\ FlagsAfter(r, Q \cup N) = FlagsAfter(r, Q)
       /\ FilesAfter(r, Q \cup N) = FilesAfter(r, Q)
  BY <1>3 DEF GroupAlone
<1> QED BY <1>11, <1>12 DEF Becomes, N

LEMMA AcceptBegins ==
  ASSUME NEW r, NEW Q, NEW us, NEW u \in us, NEW fs, NEW gs, Away(Q, r, us, fs, gs),
         NEW g, g \in DOMAIN r.grouptomap, NEW m, m.op = "answer", m.group = g, m.user = u,
         NEW n, n.op = "admit", n.group = g, n.user = u
  PROVE  Becomes(r, Q \cup {m, n},
                  UsersAfter(r, Q),
                  FlagsAfter(r, Q),
                  [GroupsAfter(r, Q) EXCEPT ![g].requests = @ \ {u}, ![g].members = @ \cup {u}],
                  FilesAfter(r, Q))
<1> DEFINE N == {m, n}
           now == GroupAfter(r, Q, g)
           then == GroupAfter(r, Q \cup N, g)
<1>1. Membership(g, N)
  BY DEF Membership
<1>2. /\ Due(Q \cup N, "ask") = Due(Q, "ask") /\ Due(Q \cup N, "answer") = Due(Q, "answer") \cup {m}
      /\ Due(Q \cup N, "admit") = Due(Q, "admit") \cup {n} /\ Due(Q \cup N, "leave") = Due(Q, "leave")
  BY DEF Due
<1> HIDE DEF N
<1>3. GroupAlone(r, Q, N, g)
  BY <1>1, MembershipBegins
<1>4. /\ WhoseIn(Q \cup N, "answer", g) = WhoseIn(Q, "answer", g) \cup {u}
      /\ WhoseIn(Q \cup N, "admit", g) = WhoseIn(Q, "admit", g) \cup {u}
      /\ WhoseIn(Q \cup N, "leave", g) = WhoseIn(Q, "leave", g)
      /\ WhoseIn(Q \cup N, "ask", g) = WhoseIn(Q, "ask", g)
  BY <1>2 DEF WhoseIn
<1>5. u \notin WhoseIn(Q, "leave", g)
  BY DEF Away, WhoseIn, Due, ByUser
<1> HIDE DEF now, then
<1>6. /\ now = [adminid |-> now.adminid, members |-> now.members,
                files |-> now.files, requests |-> now.requests]
      /\ now.members = (r.grouptomap[g].members \cup WhoseIn(Q, "admit", g)) \ WhoseIn(Q, "leave", g)
      /\ now.requests = (r.grouptomap[g].requests \cup WhoseIn(Q, "ask", g)) \ WhoseIn(Q, "answer", g)
  BY GroupShape DEF now
<1>7. then = [adminid |-> now.adminid,
               members |-> (r.grouptomap[g].members \cup WhoseIn(Q \cup N, "admit", g)) \ WhoseIn(Q \cup N, "leave", g),
               files |-> now.files,
               requests |-> (r.grouptomap[g].requests \cup WhoseIn(Q \cup N, "ask", g)) \ WhoseIn(Q \cup N, "answer", g)]
  BY <1>3 DEF GroupAlone, now, then
<1>8. then = [adminid |-> now.adminid, members |-> now.members \cup {u}, files |-> now.files, requests |-> now.requests \ {u}]
  <2>1. (r.grouptomap[g].requests \cup WhoseIn(Q \cup N, "ask", g)) \ WhoseIn(Q \cup N, "answer", g) = now.requests \ {u}
    BY <1>4, <1>6
  <2>2. (r.grouptomap[g].members \cup WhoseIn(Q \cup N, "admit", g)) \ WhoseIn(Q \cup N, "leave", g) = now.members \cup {u}
    BY <1>4, <1>5, <1>6
  <2> QED BY <1>7, <2>1, <2>2
<1> DEFINE asked == [adminid |-> now.adminid, members |-> now.members,
                     files |-> now.files, requests |-> now.requests \ {u}]
<1>9. then = [now EXCEPT !.requests = now.requests \ {u}, !.members = now.members \cup {u}]
  <2>1. [now EXCEPT !.requests = now.requests \ {u}] = asked
    BY <1>6, OtherRequests
  <2>2. [asked EXCEPT !.members = now.members \cup {u}] = then
    BY <1>8
  <2>3. [now EXCEPT !.requests = now.requests \ {u}, !.members = now.members \cup {u}] =
        [[now EXCEPT !.requests = now.requests \ {u}] EXCEPT !.members = now.members \cup {u}]
    OBVIOUS
  <2> QED BY <2>1, <2>2, <2>3
<1>10. g \in DOMAIN GroupsAfter(r, Q) /\ GroupsAfter(r, Q)[g] = now
  BY GroupNow DEF now
<1>11. GroupsAfter(r, Q \cup N) = Changed(GroupsAfter(r, Q), g, then)
  BY <1>3 DEF GroupAlone, then
<1>12. [GroupsAfter(r, Q) EXCEPT ![g].requests = @ \ {u}, ![g].members = @ \cup {u}] =
       [GroupsAfter(r, Q) EXCEPT ![g] =
           [now EXCEPT !.requests = now.requests \ {u}, !.members = now.members \cup {u}]]
  BY <1>10
<1>13. /\ UsersAfter(r, Q \cup N) = UsersAfter(r, Q)
       /\ FlagsAfter(r, Q \cup N) = FlagsAfter(r, Q)
       /\ FilesAfter(r, Q \cup N) = FilesAfter(r, Q)
  BY <1>3 DEF GroupAlone
<1> QED BY <1>9, <1>11, <1>12, <1>13 DEF Becomes, N, Changed

(* The updates N are of the record o, and the others, Q, of no record of f. *)
OnlyRecord(o, N) ==
  \A n \in N : n.op \in {"share", "share_at", "unshare", "unshare_at", "size"} /\ n.object = o

Elsewhere(Q, o) == \A n \in Q : n.op \in ByObject => n.object # o

LEMMA AwayElsewhere ==
  ASSUME NEW r, NEW Q, NEW us, NEW fs, NEW gs, Away(Q, r, us, fs, gs),
         NEW o, r.heap[o].filename \in fs
  PROVE  Elsewhere(Q, o)
  BY DEF Away, Elsewhere

LEMMA RecordNow ==
  ASSUME NEW r, NEW Q, NEW o, Elsewhere(Q, o), NEW f \in DOMAIN r.filetomap, r.filetomap[f] = o, o \in DOMAIN r.heap
  PROVE  /\ f \in DOMAIN FilesAfter(r, Q)
         /\ FilesAfter(r, Q)[f] = [userids |-> r.heap[o].userids, users |-> r.heap[o].users]
<1>1. /\ WhoseOf(Q, "share", o) = {} /\ WhoseOf(Q, "unshare", o) = {}
      /\ WhoseOf(Q, "share_at", o) = {} /\ WhoseOf(Q, "unshare_at", o) = {}
  BY DEF WhoseOf, Due, Elsewhere, ByObject, OnRecord
<1>2. SharersAfter(r, Q, o) = r.heap[o].userids
  BY <1>1 DEF SharersAfter
<1>3. AddressesAfter(r, Q, o) = r.heap[o].users
  BY <1>1 DEF AddressesAfter, AddressesNow
<1>4. o \notin Erased(r, Q)
  <2>1. \A n \in Due(Q, "erase_file") \cup LastLeaves(r, Q) : n \in Q /\ n.op \in ByObject
    BY DEF LastLeaves, Due, ByObject, OnRecord
  <2> QED BY <2>1 DEF Erased, Elsewhere
<1>5. ObjectAfter(r, Q, f) = o
  BY DEF ObjectAfter
<1>6. f \in Listed(r, Q)
  BY <1>4, <1>5 DEF Listed, Names
<1>7. FileAfter(r, Q, f) = [userids |-> r.heap[o].userids, users |-> r.heap[o].users]
  BY <1>2, <1>3, <1>5 DEF FileAfter
<1> QED BY <1>6, <1>7, FilesAre

(* They do nothing to the accounts, and nothing to other records. *)
OtherRecordsSame(r, Q, N, o) ==
  /\ \A x : x # o => SharersAfter(r, Q \cup N, x) = SharersAfter(r, Q, x)
  /\ \A x : x # o => AddressesAfter(r, Q \cup N, x) = AddressesAfter(r, Q, x)
  /\ LastLeaves(r, Q) = {m \in LastLeaves(r, Q \cup N) : m.object # o}
  /\ \A f : ObjectAfter(r, Q \cup N, f) = ObjectAfter(r, Q, f)
  /\ Names(r, Q \cup N) = Names(r, Q)
  /\ UsersAfter(r, Q \cup N) = UsersAfter(r, Q)
  /\ FlagsAfter(r, Q \cup N) = FlagsAfter(r, Q)

LEMMA RecordsBegin ==
  ASSUME NEW r, NEW Q, NEW N, NEW o, OnlyRecord(o, N), Elsewhere(Q, o)
  PROVE  OtherRecordsSame(r, Q, N, o)
<1>1. ASSUME NEW x, x # o
      PROVE  /\ WhoseOf(Q \cup N, "share", x) = WhoseOf(Q, "share", x)
             /\ WhoseOf(Q \cup N, "unshare", x) = WhoseOf(Q, "unshare", x)
             /\ WhoseOf(Q \cup N, "share_at", x) = WhoseOf(Q, "share_at", x)
             /\ WhoseOf(Q \cup N, "unshare_at", x) = WhoseOf(Q, "unshare_at", x)
  <2>1. \A n \in N : n.object # x
    BY <1>1 DEF OnlyRecord
  <2>2. \A op : {n \in Due(Q \cup N, op) : n.object = x} = {n \in Due(Q, op) : n.object = x}
    BY <2>1 DEF Due
  <2> QED BY <2>2 DEF WhoseOf
<1>2. \A x : x # o => SharersAfter(r, Q \cup N, x) = SharersAfter(r, Q, x)
  BY <1>1 DEF SharersAfter
<1>3. \A x : x # o => AddressesAfter(r, Q \cup N, x) = AddressesAfter(r, Q, x)
  BY <1>1 DEF AddressesAfter
<1>4. LastLeaves(r, Q) = {m \in LastLeaves(r, Q \cup N) : m.object # o}
  <2>1. \A m : m \in Due(Q, "size") <=> m \in Due(Q \cup N, "size") /\ m.object # o
    BY DEF Due, Elsewhere, ByObject, OnRecord, OnlyRecord
  <2> QED BY <1>2, <2>1 DEF LastLeaves
<1>5. \A n \in N : ~Does(n, "new_file") /\ n.op \notin OfUsers /\ n.op \notin OfFlags
  BY DEF OnlyRecord, Does, OfUsers, OfFlags
<1>6. Due(Q \cup N, "new_file") = Due(Q, "new_file")
  BY <1>5, DueBeside
<1>7. \A f : ObjectAfter(r, Q \cup N, f) = ObjectAfter(r, Q, f)
  BY <1>6 DEF ObjectAfter
<1>8. Names(r, Q \cup N) = Names(r, Q)
  BY <1>6 DEF Names
<1>9. UsersAfter(r, Q \cup N) = UsersAfter(r, Q)
  BY <1>5, UsersBeside
<1>10. FlagsAfter(r, Q \cup N) = FlagsAfter(r, Q)
  BY <1>5, FlagsBeside
<1> QED BY <1>2, <1>3, <1>4, <1>7, <1>8, <1>9, <1>10 DEF OtherRecordsSame

(* Another file is in another record. *)
LEMMA OtherObject ==
  ASSUME NEW r, NEW Q, NEW o, Elsewhere(Q, o), NEW f, r.heap[o].filename = f, Kept(r),
         NEW x \in Names(r, Q), x # f
  PROVE  ObjectAfter(r, Q, x) # o
<1>1. CASE x \in DOMAIN r.filetomap
  BY <1>1 DEF ObjectAfter, Kept
<1>2. CASE x \notin DOMAIN r.filetomap
  <2>1. {m \in Due(Q, "new_file") : m.file = x} # {}
    BY <1>2 DEF Names
  <2> DEFINE m == OneOf({n \in Due(Q, "new_file") : n.file = x})
  <2>2. m \in {n \in Due(Q, "new_file") : n.file = x}
    BY <2>1, OneOfThem
  <2>3. m \in Q /\ m.op = "new_file"
    BY <2>2 DEF Due
  <2>4. m.object # o
    BY <2>3 DEF Elsewhere, ByObject
  <2>5. ObjectAfter(r, Q, x) = m.object
    BY <1>2 DEF ObjectAfter
  <2> QED BY <2>4, <2>5
<1> QED BY <1>1, <1>2

(* The updates N change no group and no other file. *)
RecordOnly(r, Q, N, f) ==
  /\ GroupsAfter(r, Q \cup N) = GroupsAfter(r, Q)
  /\ FilesAfter(r, Q \cup N) = Changed(FilesAfter(r, Q), f, FileAfter(r, Q \cup N, f))

(* The record stays in use. *)
LEMMA RecordStays ==
  ASSUME NEW r, NEW Q, NEW N, NEW o, OnlyRecord(o, N), Elsewhere(Q, o), o \in DOMAIN r.heap,
         NEW f \in DOMAIN r.filetomap, r.filetomap[f] = o, r.heap[o].filename = f, Kept(r),
         \A m \in Due(N, "size") : SharersAfter(r, Q \cup N, o) # {}
  PROVE  RecordOnly(r, Q, N, f)
<1>1. OtherRecordsSame(r, Q, N, o)
  BY RecordsBegin
<1>2. LastLeaves(r, Q \cup N) = LastLeaves(r, Q)
  <2>1. LastLeaves(r, Q) = {m \in LastLeaves(r, Q \cup N) : m.object # o}
    BY <1>1 DEF OtherRecordsSame
  <2>2. \A m \in LastLeaves(r, Q \cup N) : m.object # o
    <3>1. \A m \in Due(Q, "size") : m.object # o
      BY DEF Due, Elsewhere, ByObject, OnRecord
    <3>2. \A m \in LastLeaves(r, Q \cup N) : m \in Due(Q, "size") \/ m \in Due(N, "size")
      BY DEF LastLeaves, Due
    <3> QED BY <3>1, <3>2 DEF LastLeaves
  <2> QED BY <2>1, <2>2
<1>3. \A n \in N : /\ ~Does(n, "unlist") /\ ~Does(n, "erase_file")
                   /\ n.op \notin OnGroup
  BY DEF OnlyRecord, Does, OnGroup
<1>4. Due(Q \cup N, "unlist") = Due(Q, "unlist") /\ Due(Q \cup N, "erase_file") = Due(Q, "erase_file")
  BY <1>3, DueBeside
<1>5. \A g : Unlisted(r, Q \cup N, g) = Unlisted(r, Q, g)
  BY <1>2, <1>4 DEF Unlisted
<1>6. GroupsAfter(r, Q \cup N) = GroupsAfter(r, Q)
  BY <1>3, <1>5, GroupsBeside
<1>7. Erased(r, Q \cup N) = Erased(r, Q)
  BY <1>2, <1>4 DEF Erased
<1>8. \A x : ObjectAfter(r, Q \cup N, x) = ObjectAfter(r, Q, x)
  BY <1>1 DEF OtherRecordsSame
<1>9. Names(r, Q \cup N) = Names(r, Q)
  BY <1>1 DEF OtherRecordsSame
<1>10. Listed(r, Q \cup N) = Listed(r, Q)
  BY <1>7, <1>8, <1>9 DEF Listed
<1>11. \A x \in Listed(r, Q) : x # f => FileAfter(r, Q \cup N, x) = FileAfter(r, Q, x)
  <2> TAKE x \in Listed(r, Q)
  <2> HAVE x # f
  <2>1. ObjectAfter(r, Q, x) # o
    BY OtherObject DEF Listed
  <2>2. SharersAfter(r, Q \cup N, ObjectAfter(r, Q, x)) = SharersAfter(r, Q, ObjectAfter(r, Q, x))
    BY <1>1, <2>1 DEF OtherRecordsSame
  <2>3. AddressesAfter(r, Q \cup N, ObjectAfter(r, Q, x)) = AddressesAfter(r, Q, ObjectAfter(r, Q, x))
    BY <1>1, <2>1 DEF OtherRecordsSame
  <2> QED BY <1>8, <2>2, <2>3 DEF FileAfter
<1>12. FilesAfter(r, Q \cup N) = Changed(FilesAfter(r, Q), f, FileAfter(r, Q \cup N, f))
  BY <1>10, <1>11, FilesAre DEF Changed
<1> QED BY <1>6, <1>12 DEF RecordOnly

(* The record goes with its last sharer. *)
LEMMA RecordGoes ==
  ASSUME NEW r, NEW Q, NEW N, NEW o, OnlyRecord(o, N), Elsewhere(Q, o), o \in DOMAIN r.heap,
         NEW f \in DOMAIN r.filetomap, r.filetomap[f] = o, r.heap[o].filename = f, Kept(r),
         SharersAfter(r, Q \cup N, o) = {}, NEW m, Due(N, "size") = {m},
         NEW g \in DOMAIN r.grouptomap, m.group = g
  PROVE  /\ GroupsAfter(r, Q \cup N) = [GroupsAfter(r, Q) EXCEPT ![g].files = @ \ {f}]
         /\ FilesAfter(r, Q \cup N) = Erase(FilesAfter(r, Q), f)
<1>1. OtherRecordsSame(r, Q, N, o)
  BY RecordsBegin
<1>2. m \in N /\ m.object = o /\ m.op = "size"
  BY DEF Due, OnlyRecord
<1>3. LastLeaves(r, Q \cup N) = LastLeaves(r, Q) \cup {m}
  <2>1. LastLeaves(r, Q) = {k \in LastLeaves(r, Q \cup N) : k.object # o}
    BY <1>1 DEF OtherRecordsSame
  <2>2. m \in LastLeaves(r, Q \cup N)
    BY <1>2 DEF LastLeaves, Due
  <2>3. \A k \in LastLeaves(r, Q \cup N) : k.object = o => k = m
    <3>1. \A k \in Due(Q, "size") : k.object # o
      BY DEF Due, Elsewhere, ByObject, OnRecord
    <3>2. \A k \in LastLeaves(r, Q \cup N) : k \in Due(Q, "size") \/ k \in Due(N, "size")
      BY DEF LastLeaves, Due
    <3> QED BY <3>1, <3>2
  <2> QED BY <2>1, <2>2, <2>3, <1>2
<1>4. \A n \in N : /\ ~Does(n, "unlist") /\ ~Does(n, "erase_file") /\ ~Does(n, "list")
                   /\ ~Does(n, "ask") /\ ~Does(n, "answer") /\ ~Does(n, "admit") /\ ~Does(n, "leave")
  BY DEF OnlyRecord, Does
<1>5. \A op : (\A n \in N : ~Does(n, op)) => Due(Q \cup N, op) = Due(Q, op)
  BY DueBeside
<1>6. Due(Q \cup N, "unlist") = Due(Q, "unlist") /\ Due(Q \cup N, "erase_file") = Due(Q, "erase_file")
  BY <1>4, <1>5
<1>7. /\ Due(Q \cup N, "list") = Due(Q, "list")
      /\ Due(Q \cup N, "ask") = Due(Q, "ask") /\ Due(Q \cup N, "answer") = Due(Q, "answer")
      /\ Due(Q \cup N, "admit") = Due(Q, "admit") /\ Due(Q \cup N, "leave") = Due(Q, "leave")
  BY <1>4, <1>5
<1>8. /\ \A h : h # g => Unlisted(r, Q \cup N, h) = Unlisted(r, Q, h)
      /\ Unlisted(r, Q \cup N, g) = Unlisted(r, Q, g) \cup {f}
  BY <1>2, <1>3, <1>6 DEF Unlisted
<1>9. OnlyGroup(g, N)
  BY DEF OnlyRecord, OnlyGroup, OnGroup, Does
<1>10. GroupsAfter(r, Q \cup N) = Changed(GroupsAfter(r, Q), g, GroupAfter(r, Q \cup N, g))
  BY <1>8, <1>9, GroupBegins
<1> DEFINE now == GroupAfter(r, Q, g)
<1>11. GroupsAfter(r, Q)[g] = now
  BY DEF GroupsAfter
<1>12. GroupAfter(r, Q \cup N, g) =
         [adminid |-> now.adminid, members |-> now.members, files |-> now.files \ {f}, requests |-> now.requests]
  <2>1. now = [adminid |-> r.grouptomap[g].adminid,
            members |-> (r.grouptomap[g].members \cup WhoseIn(Q, "admit", g)) \ WhoseIn(Q, "leave", g),
            files |-> (r.grouptomap[g].files \cup ListedIn(Q, g)) \ Unlisted(r, Q, g),
            requests |-> (r.grouptomap[g].requests \cup WhoseIn(Q, "ask", g)) \ WhoseIn(Q, "answer", g)]
    BY GroupAfterIs
  <2>2. GroupAfter(r, Q \cup N, g) =
           [adminid |-> r.grouptomap[g].adminid,
            members |-> (r.grouptomap[g].members \cup WhoseIn(Q \cup N, "admit", g)) \ WhoseIn(Q \cup N, "leave", g),
            files |-> (r.grouptomap[g].files \cup ListedIn(Q \cup N, g)) \ Unlisted(r, Q \cup N, g),
            requests |-> (r.grouptomap[g].requests \cup WhoseIn(Q \cup N, "ask", g)) \ WhoseIn(Q \cup N, "answer", g)]
    BY GroupAfterIs
  <2>3. /\ WhoseIn(Q \cup N, "admit", g) = WhoseIn(Q, "admit", g)
        /\ WhoseIn(Q \cup N, "leave", g) = WhoseIn(Q, "leave", g)
        /\ WhoseIn(Q \cup N, "ask", g) = WhoseIn(Q, "ask", g)
        /\ WhoseIn(Q \cup N, "answer", g) = WhoseIn(Q, "answer", g)
        /\ ListedIn(Q \cup N, g) = ListedIn(Q, g)
    BY <1>7 DEF WhoseIn, ListedIn
  <2> HIDE DEF now
  <2>4. (r.grouptomap[g].files \cup ListedIn(Q \cup N, g)) \ Unlisted(r, Q \cup N, g) = now.files \ {f}
    BY <1>8, <2>1, <2>3
  <2> QED BY <2>1, <2>2, <2>3, <2>4
<1>13. now = [adminid |-> now.adminid, members |-> now.members, files |-> now.files, requests |-> now.requests]
  BY GroupShape
<1>14. GroupAfter(r, Q \cup N, g) = [now EXCEPT !.files = now.files \ {f}]
  BY <1>12, <1>13, OtherFiles
<1> HIDE DEF now
<1>15. GroupsAfter(r, Q \cup N) = [GroupsAfter(r, Q) EXCEPT ![g].files = @ \ {f}]
  BY <1>10, <1>11, <1>14 DEF Changed
<1>16. Erased(r, Q \cup N) = Erased(r, Q) \cup {o}
  BY <1>2, <1>3, <1>6 DEF Erased
<1>17. \A x : ObjectAfter(r, Q \cup N, x) = ObjectAfter(r, Q, x)
  BY <1>1 DEF OtherRecordsSame
<1>18. Names(r, Q \cup N) = Names(r, Q)
  BY <1>1 DEF OtherRecordsSame
<1>19. \A x \in Names(r, Q) : x # f => ObjectAfter(r, Q, x) # o
  BY OtherObject
<1>20. ObjectAfter(r, Q, f) = o
  BY DEF ObjectAfter
<1>21. Listed(r, Q \cup N) = Listed(r, Q) \ {f}
  BY <1>16, <1>17, <1>18, <1>19, <1>20 DEF Listed
<1>22. \A x \in Listed(r, Q) : x # f => FileAfter(r, Q \cup N, x) = FileAfter(r, Q, x)
  <2> TAKE x \in Listed(r, Q)
  <2> HAVE x # f
  <2>1. ObjectAfter(r, Q, x) # o
    BY <1>19 DEF Listed
  <2>2. SharersAfter(r, Q \cup N, ObjectAfter(r, Q, x)) = SharersAfter(r, Q, ObjectAfter(r, Q, x))
    BY <1>1, <2>1 DEF OtherRecordsSame
  <2>3. AddressesAfter(r, Q \cup N, ObjectAfter(r, Q, x)) = AddressesAfter(r, Q, ObjectAfter(r, Q, x))
    BY <1>1, <2>1 DEF OtherRecordsSame
  <2> QED BY <1>17, <2>2, <2>3 DEF FileAfter
<1>23. FilesAfter(r, Q \cup N) = Erase(FilesAfter(r, Q), f)
  BY <1>21, <1>22, FilesAre DEF Erase
<1> QED BY <1>15, <1>23

(* A record with other sharers and addresses. *)
Joined(F, f, u, x) == [F EXCEPT ![f].userids = @ \cup {u}, ![f].users = @ \cup {x}]
Parted(F, f, u, x) == [F EXCEPT ![f].userids = @ \ {u}, ![f].users = @ \ {x}]

Shared(a, b) == [userids |-> a, users |-> b]

LEMMA SharersJoin ==
  ASSUME NEW F, NEW f, NEW a, NEW b, NEW u, NEW x, f \in DOMAIN F, F[f] = Shared(a, b)
  PROVE  Joined(F, f, u, x) = Changed(F, f, Shared(a \cup {u}, b \cup {x}))
<1> DEFINE w == [userids |-> a, users |-> b]
<1>1. Joined(F, f, u, x)
       = [F EXCEPT ![f] = [w EXCEPT !.userids = w.userids \cup {u}, !.users = w.users \cup {x}]]
  BY DEF Shared, Joined
<1>2. w.userids = a /\ w.users = b
  OBVIOUS
<1>3. ASSUME NEW A, NEW B
      PROVE  [w EXCEPT !.userids = A, !.users = B] = [userids |-> A, users |-> B]
  <2>1. [w EXCEPT !.userids = A, !.users = B] = [[w EXCEPT !.userids = A] EXCEPT !.users = B]
    OBVIOUS
  <2>2. [w EXCEPT !.userids = A] = [userids |-> A, users |-> b]
    OBVIOUS
  <2>3. [[userids |-> A, users |-> b] EXCEPT !.users = B] = [userids |-> A, users |-> B]
    OBVIOUS
  <2> HIDE DEF w
  <2> QED BY <2>1, <2>2, <2>3
<1> HIDE DEF w
<1>4. [w EXCEPT !.userids = w.userids \cup {u}, !.users = w.users \cup {x}]
        = [userids |-> w.userids \cup {u}, users |-> w.users \cup {x}]
  BY <1>3
<1> QED BY <1>1, <1>2, <1>4 DEF Changed, Shared

LEMMA SharersPart ==
  ASSUME NEW F, NEW f, NEW a, NEW b, NEW u, NEW x, f \in DOMAIN F, F[f] = Shared(a, b)
  PROVE  Parted(F, f, u, x) = Changed(F, f, Shared(a \ {u}, b \ {x}))
<1> DEFINE w == [userids |-> a, users |-> b]
<1>1. Parted(F, f, u, x)
       = [F EXCEPT ![f] = [w EXCEPT !.userids = w.userids \ {u}, !.users = w.users \ {x}]]
  BY DEF Shared, Parted
<1>2. w.userids = a /\ w.users = b
  OBVIOUS
<1>3. ASSUME NEW A, NEW B
      PROVE  [w EXCEPT !.userids = A, !.users = B] = [userids |-> A, users |-> B]
  <2>1. [w EXCEPT !.userids = A, !.users = B] = [[w EXCEPT !.userids = A] EXCEPT !.users = B]
    OBVIOUS
  <2>2. [w EXCEPT !.userids = A] = [userids |-> A, users |-> b]
    OBVIOUS
  <2>3. [[userids |-> A, users |-> b] EXCEPT !.users = B] = [userids |-> A, users |-> B]
    OBVIOUS
  <2> HIDE DEF w
  <2> QED BY <2>1, <2>2, <2>3
<1> HIDE DEF w
<1>4. [w EXCEPT !.userids = w.userids \ {u}, !.users = w.users \ {x}]
        = [userids |-> w.userids \ {u}, users |-> w.users \ {x}]
  BY <1>3
<1> QED BY <1>1, <1>2, <1>4 DEF Changed, Shared

(* What begins in upload_file of a file that is there. *)
LEMMA ShareBegins ==
  ASSUME NEW r, NEW Q, NEW u, NEW f, NEW gs, Away(Q, r, {u}, {f}, gs), Kept(r),
         u \in DOMAIN r.usertomap, r.usertomap[u] \in User,
         f \in DOMAIN r.filetomap, NEW o, o = r.filetomap[f],
         NEW m, m.op = "share", m.object = o, m.user = u,
         NEW n, n.op = "share_at", n.object = o, n.user = u
  PROVE  Becomes(r, Q \cup {m, n},
                  UsersAfter(r, Q),
                  FlagsAfter(r, Q),
                  GroupsAfter(r, Q),
                  [FilesAfter(r, Q) EXCEPT ![f].userids = @ \cup {u}, ![f].users = @ \cup {UsersAfter(r, Q)[u].address}])
<1> DEFINE N == {m, n}
           a == r.usertomap[u].address
<1>1. o \in DOMAIN r.heap /\ r.heap[o].filename = f
  BY DEF Kept
<1>2. OnlyRecord(o, N) /\ Due(N, "size") = {}
  BY DEF OnlyRecord, Due
<1>3. Elsewhere(Q, o)
  <2>1. r.heap[o].filename \in {f}
    BY <1>1
  <2> QED BY <2>1, AwayElsewhere
<1>4. /\ {l \in Due(Q, "share") : l.object = o} = {} /\ {l \in Due(Q, "unshare") : l.object = o} = {}
      /\ {l \in Due(Q, "share_at") : l.object = o} = {} /\ {l \in Due(Q, "unshare_at") : l.object = o} = {}
  BY <1>3 DEF Due, Elsewhere, ByObject, OnRecord
<1>5. /\ Due(Q \cup N, "share") = Due(Q, "share") \cup {m}
      /\ Due(Q \cup N, "unshare") = Due(Q, "unshare")
      /\ Due(Q \cup N, "share_at") = Due(Q, "share_at") \cup {n}
      /\ Due(Q \cup N, "unshare_at") = Due(Q, "unshare_at")
  BY DEF Due
<1> HIDE DEF N
<1>6. /\ WhoseOf(Q \cup N, "share", o) = {u} /\ WhoseOf(Q \cup N, "unshare", o) = {}
      /\ WhoseOf(Q \cup N, "share_at", o) = {u} /\ WhoseOf(Q \cup N, "unshare_at", o) = {}
  <2>1. /\ {l \in Due(Q \cup N, "share") : l.object = o} = {m}
        /\ {l \in Due(Q \cup N, "share_at") : l.object = o} = {n}
    BY <1>4, <1>5
  <2>2. /\ {l \in Due(Q \cup N, "unshare") : l.object = o} = {}
        /\ {l \in Due(Q \cup N, "unshare_at") : l.object = o} = {}
    BY <1>4, <1>5
  <2>3. WhoseOf(Q \cup N, "share", o) = {u} /\ WhoseOf(Q \cup N, "share_at", o) = {u}
    BY <2>1 DEF WhoseOf
  <2>4. WhoseOf(Q \cup N, "unshare", o) = {} /\ WhoseOf(Q \cup N, "unshare_at", o) = {}
    BY <2>2 DEF WhoseOf
  <2> QED BY <2>3, <2>4
<1>7. SharersAfter(r, Q \cup N, o) = r.heap[o].userids \cup {u}
  BY <1>6 DEF SharersAfter
<1>8. AddressesAfter(r, Q \cup N, o) = r.heap[o].users \cup {a}
  BY <1>6 DEF AddressesAfter, AddressesNow
<1>9. OtherRecordsSame(r, Q, N, o)
  BY <1>2, <1>3, RecordsBegin
<1>10. RecordOnly(r, Q, N, f)
  <2>1. \A k \in Due(N, "size") : SharersAfter(r, Q \cup N, o) # {}
    BY <1>2
  <2> QED BY <1>1, <1>2, <1>3, <2>1, RecordStays
<1>11. ObjectAfter(r, Q \cup N, f) = o
  BY DEF ObjectAfter
<1>12. FileAfter(r, Q \cup N, f) = [userids |-> r.heap[o].userids \cup {u}, users |-> r.heap[o].users \cup {a}]
  BY <1>7, <1>8, <1>11 DEF FileAfter
<1>13. f \in DOMAIN FilesAfter(r, Q) /\ FilesAfter(r, Q)[f] = [userids |-> r.heap[o].userids, users |-> r.heap[o].users]
  BY <1>1, <1>3, RecordNow
<1>14. UsersAfter(r, Q)[u].address = a
  BY AccountNow
<1> HIDE DEF a
<1>15. Joined(FilesAfter(r, Q), f, u, a)
         = Changed(FilesAfter(r, Q), f, Shared(r.heap[o].userids \cup {u}, r.heap[o].users \cup {a}))
  <2> DEFINE F == FilesAfter(r, Q)
             A == r.heap[o].userids
             B == r.heap[o].users
  <2>1. f \in DOMAIN F /\ F[f] = Shared(A, B)
    BY <1>13 DEF Shared
  <2> HIDE DEF F, A, B
  <2>2. Joined(F, f, u, a) = Changed(F, f, Shared(A \cup {u}, B \cup {a}))
    BY <2>1, SharersJoin
  <2> QED BY <2>2 DEF F, A, B
<1>16. FilesAfter(r, Q \cup N) =
         [FilesAfter(r, Q) EXCEPT ![f].userids = @ \cup {u},
                                  ![f].users = @ \cup {UsersAfter(r, Q)[u].address}]
  BY <1>10, <1>12, <1>14, <1>15 DEF Joined, RecordOnly, Shared
<1>17. UsersAfter(r, Q \cup N) = UsersAfter(r, Q) /\ FlagsAfter(r, Q \cup N) = FlagsAfter(r, Q)
  BY <1>9 DEF OtherRecordsSame
<1> QED BY <1>10, <1>16, <1>17 DEF Becomes, N, RecordOnly

(* What stop_share of user u makes of file f, in group g, that is record o. *)
StopShared(r, Q, P, u, f, g, o) ==
  \/ /\ r.heap[o].userids # {u}
     /\ Becomes(r, P, UsersAfter(r, Q), FlagsAfter(r, Q), GroupsAfter(r, Q),
                [FilesAfter(r, Q) EXCEPT ![f].userids = @ \ {u},
                                         ![f].users = @ \ {UsersAfter(r, Q)[u].address}])
  \/ /\ r.heap[o].userids = {u}
     /\ Becomes(r, P, UsersAfter(r, Q), FlagsAfter(r, Q),
                [GroupsAfter(r, Q) EXCEPT ![g].files = @ \ {f}], Erase(FilesAfter(r, Q), f))

(* What begins in stop_share. *)
LEMMA StopShareBegins ==
  ASSUME NEW r, NEW Q, NEW u, NEW f, NEW gs, Away(Q, r, {u}, {f}, gs), Kept(r),
         u \in DOMAIN r.usertomap, r.usertomap[u] \in User, NEW g, g \in DOMAIN r.grouptomap,
         f \in DOMAIN r.filetomap, NEW o, o = r.filetomap[f],
         NEW m, m.op = "unshare", m.object = o, m.user = u,
         NEW n, n.op = "unshare_at", n.object = o, n.user = u,
         NEW k, k.op = "size", k.object = o, k.group = g, u \in r.heap[o].userids
  PROVE  StopShared(r, Q, Q \cup {m, n, k}, u, f, g, o)
<1> DEFINE N == {m, n, k}
           a == r.usertomap[u].address
<1>1. o \in DOMAIN r.heap /\ r.heap[o].filename = f
  BY DEF Kept
<1>2. OnlyRecord(o, N) /\ Due(N, "size") = {k}
  BY DEF OnlyRecord, Due
<1>3. Elsewhere(Q, o)
  <2>1. r.heap[o].filename \in {f}
    BY <1>1
  <2> QED BY <2>1, AwayElsewhere
<1>4. /\ {l \in Due(Q, "share") : l.object = o} = {} /\ {l \in Due(Q, "unshare") : l.object = o} = {}
      /\ {l \in Due(Q, "share_at") : l.object = o} = {} /\ {l \in Due(Q, "unshare_at") : l.object = o} = {}
  BY <1>3 DEF Due, Elsewhere, ByObject, OnRecord
<1>5. /\ Due(Q \cup N, "share") = Due(Q, "share")
      /\ Due(Q \cup N, "unshare") = Due(Q, "unshare") \cup {m}
      /\ Due(Q \cup N, "share_at") = Due(Q, "share_at")
      /\ Due(Q \cup N, "unshare_at") = Due(Q, "unshare_at") \cup {n}
  BY DEF Due
<1> HIDE DEF N
<1>6. /\ WhoseOf(Q \cup N, "share", o) = {} /\ WhoseOf(Q \cup N, "unshare", o) = {u}
      /\ WhoseOf(Q \cup N, "share_at", o) = {} /\ WhoseOf(Q \cup N, "unshare_at", o) = {u}
  <2>1. /\ {l \in Due(Q \cup N, "unshare") : l.object = o} = {m}
        /\ {l \in Due(Q \cup N, "unshare_at") : l.object = o} = {n}
    BY <1>4, <1>5
  <2>2. /\ {l \in Due(Q \cup N, "share") : l.object = o} = {}
        /\ {l \in Due(Q \cup N, "share_at") : l.object = o} = {}
    BY <1>4, <1>5
  <2>3. WhoseOf(Q \cup N, "share", o) = {} /\ WhoseOf(Q \cup N, "share_at", o) = {}
    BY <2>2 DEF WhoseOf
  <2>4. WhoseOf(Q \cup N, "unshare", o) = {u} /\ WhoseOf(Q \cup N, "unshare_at", o) = {u}
    BY <2>1 DEF WhoseOf
  <2> QED BY <2>3, <2>4
<1>7. SharersAfter(r, Q \cup N, o) = r.heap[o].userids \ {u}
  BY <1>6 DEF SharersAfter
<1>8. AddressesAfter(r, Q \cup N, o) = r.heap[o].users \ {a}
  BY <1>6 DEF AddressesAfter, AddressesNow
<1>9. OtherRecordsSame(r, Q, N, o)
  BY <1>2, <1>3, RecordsBegin
<1>10. ObjectAfter(r, Q \cup N, f) = o
  BY DEF ObjectAfter
<1>11. FileAfter(r, Q \cup N, f) = [userids |-> r.heap[o].userids \ {u}, users |-> r.heap[o].users \ {a}]
  BY <1>7, <1>8, <1>10 DEF FileAfter
<1>12. f \in DOMAIN FilesAfter(r, Q) /\ FilesAfter(r, Q)[f] = [userids |-> r.heap[o].userids, users |-> r.heap[o].users]
  BY <1>1, <1>3, RecordNow
<1>13. UsersAfter(r, Q)[u].address = a
  BY AccountNow
<1> HIDE DEF a
<1>14. Parted(FilesAfter(r, Q), f, u, a)
         = Changed(FilesAfter(r, Q), f, Shared(r.heap[o].userids \ {u}, r.heap[o].users \ {a}))
  <2> DEFINE F == FilesAfter(r, Q)
             A == r.heap[o].userids
             B == r.heap[o].users
  <2>1. f \in DOMAIN F /\ F[f] = Shared(A, B)
    BY <1>12 DEF Shared
  <2> HIDE DEF F, A, B
  <2>2. Parted(F, f, u, a) = Changed(F, f, Shared(A \ {u}, B \ {a}))
    BY <2>1, SharersPart
  <2> QED BY <2>2 DEF F, A, B
<1>15. UsersAfter(r, Q \cup N) = UsersAfter(r, Q) /\ FlagsAfter(r, Q \cup N) = FlagsAfter(r, Q)
  BY <1>9 DEF OtherRecordsSame
<1>16. CASE r.heap[o].userids # {u}
  <2>1. \A l \in Due(N, "size") : SharersAfter(r, Q \cup N, o) # {}
    BY <1>7, <1>16
  <2>2. RecordOnly(r, Q, N, f)
    BY <1>1, <1>2, <1>3, <2>1, RecordStays
  <2>3. FilesAfter(r, Q \cup N) =
          [FilesAfter(r, Q) EXCEPT ![f].userids = @ \ {u},
                                   ![f].users = @ \ {UsersAfter(r, Q)[u].address}]
    BY <2>2, <1>11, <1>13, <1>14 DEF Parted, RecordOnly, Shared
  <2> QED BY <1>15, <1>16, <2>2, <2>3 DEF N, RecordOnly, Becomes, StopShared
<1>17. CASE r.heap[o].userids = {u}
  <2>1. SharersAfter(r, Q \cup N, o) = {}
    BY <1>7, <1>17
  <2>2. /\ GroupsAfter(r, Q \cup N) = [GroupsAfter(r, Q) EXCEPT ![g].files = @ \ {f}]
        /\ FilesAfter(r, Q \cup N) = Erase(FilesAfter(r, Q), f)
    BY <1>1, <1>2, <1>3, <2>1, RecordGoes
  <2> QED BY <1>15, <1>17, <2>2 DEF N, Becomes, StopShared
<1> QED BY <1>16, <1>17

(* A new record that nothing leads to yet. *)
SameAfter(r, s, Q) == /\ UsersAfter(s, Q) = UsersAfter(r, Q)
                      /\ FlagsAfter(s, Q) = FlagsAfter(r, Q)
                      /\ GroupsAfter(s, Q) = GroupsAfter(r, Q)
                      /\ FilesAfter(s, Q) = FilesAfter(r, Q)

LEMMA HeapGrows ==
  ASSUME NEW r, NEW s, NEW Q, NEW o, NEW rec, o \notin DOMAIN r.heap, s.heap = Put(r.heap, o, rec),
         s.usertomap = r.usertomap, s.grouptomap = r.grouptomap,
         s.filetomap = r.filetomap, s.loggedin = r.loggedin,
         \A n \in Q : n.op \in ByObject => n.object \in DOMAIN r.heap, Kept(r)
  PROVE  SameAfter(r, s, Q)
<1>1. UsersAfter(s, Q) = UsersAfter(r, Q)
  BY DEF UsersAfter, AccountAfter
<1>2. FlagsAfter(s, Q) = FlagsAfter(r, Q)
  BY DEF FlagsAfter
<1>3. DOMAIN s.heap = DOMAIN r.heap \cup {o} /\ \A x \in DOMAIN r.heap : s.heap[x] = r.heap[x]
  BY DEF Put
<1>4. \A x \in DOMAIN r.heap : SharersAfter(s, Q, x) = SharersAfter(r, Q, x)
  BY <1>3 DEF SharersAfter
<1>5. \A x \in DOMAIN r.heap : AddressesAfter(s, Q, x) = AddressesAfter(r, Q, x)
  BY <1>3 DEF AddressesAfter, AddressesNow
<1>6. \A n \in Due(Q, "size") \cup Due(Q, "unlist") \cup Due(Q, "erase_file") : n.object \in DOMAIN r.heap
  BY DEF Due, ByObject, OnRecord
<1>7. LastLeaves(s, Q) = LastLeaves(r, Q)
  BY <1>4, <1>6 DEF LastLeaves
<1>8. Erased(s, Q) = Erased(r, Q) /\ o \notin Erased(r, Q)
  BY <1>6, <1>7 DEF Erased, LastLeaves
<1>9. \A g : Unlisted(s, Q, g) = Unlisted(r, Q, g)
  <2> TAKE g
  <2>1. \A n \in {k \in Due(Q, "unlist") \cup LastLeaves(r, Q) : k.group = g} :
           s.heap[n.object].filename = r.heap[n.object].filename
    BY <1>3, <1>6 DEF LastLeaves
  <2> QED BY <1>7, <2>1 DEF Unlisted
<1>10. GroupsAfter(s, Q) = GroupsAfter(r, Q)
  <2>1. \A g : GroupAfter(s, Q, g) = GroupAfter(r, Q, g)
    BY <1>9 DEF GroupAfter
  <2> QED BY <2>1 DEF GroupsAfter
<1>11. \A x : ObjectAfter(s, Q, x) = ObjectAfter(r, Q, x)
  BY DEF ObjectAfter
<1>12. Names(s, Q) = Names(r, Q)
  BY DEF Names
<1>13. \A x \in Names(r, Q) : ObjectAfter(r, Q, x) \in DOMAIN r.heap
  <2> TAKE x \in Names(r, Q)
  <2>1. CASE x \in DOMAIN r.filetomap
    BY <2>1 DEF ObjectAfter, Kept
  <2>2. CASE x \notin DOMAIN r.filetomap
    <3>1. {m \in Due(Q, "new_file") : m.file = x} # {}
      BY <2>2 DEF Names
    <3> DEFINE m == OneOf({n \in Due(Q, "new_file") : n.file = x})
    <3>2. m \in {n \in Due(Q, "new_file") : n.file = x}
      BY <3>1, OneOfThem
    <3>3. m \in Q /\ m.op = "new_file"
      BY <3>2 DEF Due
    <3>4. m.object \in DOMAIN r.heap
      BY <3>3 DEF ByObject
    <3> QED BY <2>2, <3>4 DEF ObjectAfter
  <2> QED BY <2>1, <2>2
<1>14. Listed(s, Q) = Listed(r, Q)
  BY <1>3, <1>8, <1>11, <1>12, <1>13 DEF Listed
<1>15. \A x \in Listed(r, Q) : FileAfter(s, Q, x) = FileAfter(r, Q, x)
  BY <1>4, <1>5, <1>11 DEF FileAfter, Listed
<1>16. FilesAfter(s, Q) = FilesAfter(r, Q)
  BY <1>14, <1>15, FilesAre
<1> QED BY <1>1, <1>2, <1>10, <1>16 DEF SameAfter

(* No update in Q is about file f. *)
NoneAbout(Q, s, f) == \A n \in Q : /\ n.op \in ByFile => n.file # f
                                   /\ n.op \in ByObject => s.heap[n.object].filename # f

(* What upload_file makes of a new file f, in group g, with the record o.  *)
NewlyShared(s, Q, P, f, g, o) ==
  /\ f \notin DOMAIN FilesAfter(s, Q)
  /\ Becomes(s, P, UsersAfter(s, Q), FlagsAfter(s, Q),
             [GroupsAfter(s, Q) EXCEPT ![g].files = @ \cup {f}],
             Put(FilesAfter(s, Q), f, [userids |-> s.heap[o].userids, users |-> s.heap[o].users]))

(* What begins in upload_file of a file that is not there; s has the new *)
(* record already.                                                       *)
LEMMA NewFileBegins ==
  ASSUME NEW s, NEW Q, NEW f, NEW o, o \in DOMAIN s.heap, f \notin DOMAIN s.filetomap,
         NoneAbout(Q, s, f), Elsewhere(Q, o),
         NEW g, g \in DOMAIN s.grouptomap,
         NEW m, m.op = "new_file", m.file = f, m.object = o,
         NEW n, n.op = "list", n.group = g, n.file = f
  PROVE  NewlyShared(s, Q, Q \cup {m, n}, f, g, o)
<1>1. /\ \A k \in Q : k.op \in ByFile => k.file # f
      /\ \A k \in Q : k.op \in ByObject => s.heap[k.object].filename # f
  BY DEF NoneAbout
<1> DEFINE N == {m, n}
<1>2. /\ \A k \in N : k.op \notin OfUsers
      /\ \A k \in N : k.op \notin OfFlags
      /\ \A k \in N : k.op \notin OfUnlisted
  BY DEF OfUsers, OfFlags, OfUnlisted, OfLeaves, OfSharers
<1>3. \A k \in N : /\ ~Does(k, "share") /\ ~Does(k, "unshare") /\ ~Does(k, "size")
                   /\ ~Does(k, "share_at") /\ ~Does(k, "unshare_at")
                   /\ ~Does(k, "erase_file")
                   /\ ~Does(k, "ask") /\ ~Does(k, "answer") /\ ~Does(k, "admit") /\ ~Does(k, "leave")
  BY DEF Does
<1>4. OnlyGroup(g, N)
  BY DEF OnlyGroup, Does, OnGroup
<1>5. /\ Due(Q \cup N, "new_file") = Due(Q, "new_file") \cup {m}
      /\ Due(Q \cup N, "list") = Due(Q, "list") \cup {n}
  BY DEF Due
<1> HIDE DEF N
<1>6. UsersAfter(s, Q \cup N) = UsersAfter(s, Q)
  BY <1>2, UsersBeside
<1>7. FlagsAfter(s, Q \cup N) = FlagsAfter(s, Q)
  BY <1>2, FlagsBeside
<1>8. \A h : Unlisted(s, Q \cup N, h) = Unlisted(s, Q, h)
  BY <1>2, UnlistedBeside
<1>9. /\ Due(Q \cup N, "share") = Due(Q, "share") /\ Due(Q \cup N, "unshare") = Due(Q, "unshare")
      /\ Due(Q \cup N, "share_at") = Due(Q, "share_at") /\ Due(Q \cup N, "unshare_at") = Due(Q, "unshare_at")
      /\ Due(Q \cup N, "size") = Due(Q, "size") /\ Due(Q \cup N, "erase_file") = Due(Q, "erase_file")
  BY <1>3, DueBeside
<1>10. /\ Due(Q \cup N, "ask") = Due(Q, "ask") /\ Due(Q \cup N, "answer") = Due(Q, "answer")
      /\ Due(Q \cup N, "admit") = Due(Q, "admit") /\ Due(Q \cup N, "leave") = Due(Q, "leave")
  BY <1>3, DueBeside
<1> DEFINE now == GroupAfter(s, Q, g)
<1>11. /\ now = [adminid |-> now.adminid, members |-> now.members,
                 files |-> now.files, requests |-> now.requests]
       /\ now.files = (s.grouptomap[g].files \cup ListedIn(Q, g)) \ Unlisted(s, Q, g)
  BY GroupShape
<1>12. GroupAfter(s, Q \cup N, g) =
         [adminid |-> now.adminid, members |-> now.members, files |-> now.files \cup {f}, requests |-> now.requests]
  <2>1. now = [adminid |-> s.grouptomap[g].adminid,
            members |-> (s.grouptomap[g].members \cup WhoseIn(Q, "admit", g)) \ WhoseIn(Q, "leave", g),
            files |-> (s.grouptomap[g].files \cup ListedIn(Q, g)) \ Unlisted(s, Q, g),
            requests |-> (s.grouptomap[g].requests \cup WhoseIn(Q, "ask", g)) \ WhoseIn(Q, "answer", g)]
    BY GroupAfterIs
  <2>2. GroupAfter(s, Q \cup N, g) =
           [adminid |-> s.grouptomap[g].adminid,
            members |-> (s.grouptomap[g].members \cup WhoseIn(Q \cup N, "admit", g)) \ WhoseIn(Q \cup N, "leave", g),
            files |-> (s.grouptomap[g].files \cup ListedIn(Q \cup N, g)) \ Unlisted(s, Q \cup N, g),
            requests |-> (s.grouptomap[g].requests \cup WhoseIn(Q \cup N, "ask", g)) \ WhoseIn(Q \cup N, "answer", g)]
    BY GroupAfterIs
  <2>3. /\ WhoseIn(Q \cup N, "admit", g) = WhoseIn(Q, "admit", g)
        /\ WhoseIn(Q \cup N, "leave", g) = WhoseIn(Q, "leave", g)
        /\ WhoseIn(Q \cup N, "ask", g) = WhoseIn(Q, "ask", g)
        /\ WhoseIn(Q \cup N, "answer", g) = WhoseIn(Q, "answer", g)
    BY <1>10 DEF WhoseIn
  <2>4. ListedIn(Q \cup N, g) = ListedIn(Q, g) \cup {f}
    BY <1>5 DEF ListedIn
  <2>5. f \notin Unlisted(s, Q, g)
    <3>1. \A k \in Due(Q, "unlist") \cup LastLeaves(s, Q) : k \in Q /\ k.op \in ByObject
      BY DEF LastLeaves, Due, ByObject, OnRecord
    <3> QED BY <1>1, <3>1 DEF Unlisted
  <2> HIDE DEF now
  <2>6. (s.grouptomap[g].files \cup ListedIn(Q \cup N, g)) \ Unlisted(s, Q \cup N, g) = now.files \cup {f}
    <3>1. Unlisted(s, Q \cup N, g) = Unlisted(s, Q, g)
      BY <1>8
    <3>2. now.files = (s.grouptomap[g].files \cup ListedIn(Q, g)) \ Unlisted(s, Q, g)
      BY <1>11
    <3> QED BY <2>4, <2>5, <3>1, <3>2
  <2> QED BY <2>1, <2>2, <2>3, <2>6
<1>13. GroupAfter(s, Q \cup N, g) = [now EXCEPT !.files = now.files \cup {f}]
  BY <1>11, <1>12, OtherFiles
<1>14. GroupsAfter(s, Q \cup N) = Changed(GroupsAfter(s, Q), g, GroupAfter(s, Q \cup N, g))
  BY <1>4, <1>8, GroupBegins
<1>15. GroupsAfter(s, Q)[g] = now
  BY DEF GroupsAfter
<1> HIDE DEF now
<1>16. GroupsAfter(s, Q \cup N) = [GroupsAfter(s, Q) EXCEPT ![g].files = @ \cup {f}]
  BY <1>13, <1>14, <1>15 DEF Changed
<1>17. \A x : SharersAfter(s, Q \cup N, x) = SharersAfter(s, Q, x)
  BY <1>9 DEF SharersAfter, WhoseOf
<1>18. \A x : AddressesAfter(s, Q \cup N, x) = AddressesAfter(s, Q, x)
  BY <1>9 DEF AddressesAfter, WhoseOf
<1>19. Erased(s, Q \cup N) = Erased(s, Q)
  BY <1>9, <1>17 DEF Erased, LastLeaves
<1>20. o \notin Erased(s, Q)
  <2>1. \A k \in Due(Q, "erase_file") \cup LastLeaves(s, Q) : k \in Q /\ k.op \in ByObject
    BY DEF LastLeaves, Due, ByObject, OnRecord
  <2> QED BY <2>1 DEF Erased, Elsewhere
<1>21. /\ WhoseOf(Q, "share", o) = {} /\ WhoseOf(Q, "unshare", o) = {}
       /\ WhoseOf(Q, "share_at", o) = {} /\ WhoseOf(Q, "unshare_at", o) = {}
  BY DEF WhoseOf, Due, Elsewhere, ByObject, OnRecord
<1>22. SharersAfter(s, Q \cup N, o) = s.heap[o].userids /\ AddressesAfter(s, Q \cup N, o) = s.heap[o].users
  <2>1. SharersAfter(s, Q, o) = s.heap[o].userids
    BY <1>21 DEF SharersAfter
  <2>2. AddressesAfter(s, Q, o) = s.heap[o].users
    BY <1>21 DEF AddressesAfter, AddressesNow
  <2> QED BY <1>17, <1>18, <2>1, <2>2
<1>23. {k \in Due(Q, "new_file") : k.file = f} = {}
  BY <1>1 DEF Due, ByFile
<1>24. ObjectAfter(s, Q \cup N, f) = o
  <2>1. {k \in Due(Q \cup N, "new_file") : k.file = f} = {m}
    BY <1>5, <1>23
  <2> QED BY <2>1, OneIs DEF ObjectAfter
<1>25. \A x : x # f => ObjectAfter(s, Q \cup N, x) = ObjectAfter(s, Q, x)
  <2> TAKE x
  <2> HAVE x # f
  <2>1. {k \in Due(Q \cup N, "new_file") : k.file = x} = {k \in Due(Q, "new_file") : k.file = x}
    BY <1>5
  <2> QED BY <2>1 DEF ObjectAfter
<1>26. Names(s, Q \cup N) = Names(s, Q) \cup {f}
  BY <1>5 DEF Names
<1>27. f \notin Names(s, Q)
  BY <1>23 DEF Names
<1>28. Listed(s, Q \cup N) = Listed(s, Q) \cup {f}
  <2>1. \A x : x \in Listed(s, Q \cup N) <=> x \in Listed(s, Q) \/ x = f
    BY <1>19, <1>20, <1>24, <1>25, <1>26, <1>27 DEF Listed
  <2> QED BY <2>1
<1>29. \A x : x # f => FileAfter(s, Q \cup N, x) = FileAfter(s, Q, x)
  BY <1>17, <1>18, <1>25 DEF FileAfter
<1>30. FileAfter(s, Q \cup N, f) = [userids |-> s.heap[o].userids, users |-> s.heap[o].users]
  BY <1>22, <1>24 DEF FileAfter
<1>31. f \notin DOMAIN FilesAfter(s, Q)
  BY <1>27, FilesAre DEF Listed
<1>32. FilesAfter(s, Q \cup N) =
         Put(FilesAfter(s, Q), f, [userids |-> s.heap[o].userids, users |-> s.heap[o].users])
  BY <1>28, <1>29, <1>30, FilesAre DEF Put
<1> QED BY <1>6, <1>7, <1>16, <1>31, <1>32 DEF Becomes, NewlyShared, N

-----------------------------------------------------------------------------
(* What each update makes of the registry *)

(* The registry with one of its parts replaced. *)
Parts(s, users, groups, files, heap, flags) ==
  /\ s.usertomap = users /\ s.grouptomap = groups /\ s.filetomap = files
  /\ s.heap = heap /\ s.loggedin = flags

LEMMA PartReplaced ==
  ASSUME NEW r, Maplike(r), NEW v
  PROVE  /\ Parts([r EXCEPT !.usertomap = v], v, r.grouptomap, r.filetomap, r.heap, r.loggedin)
         /\ Parts([r EXCEPT !.grouptomap = v], r.usertomap, v, r.filetomap, r.heap, r.loggedin)
         /\ Parts([r EXCEPT !.filetomap = v], r.usertomap, r.grouptomap, v, r.heap, r.loggedin)
         /\ Parts([r EXCEPT !.heap = v], r.usertomap, r.grouptomap, r.filetomap, v, r.loggedin)
         /\ Parts([r EXCEPT !.loggedin = v], r.usertomap, r.grouptomap, r.filetomap, r.heap, v)
  BY DEF Maplike, Parts

(* Which kind of update it is. *)
LEMMA KindOfUpdate ==
  ASSUME NEW r, NEW m
  PROVE  /\ m.op \in OnAccount => Update(r, m) = UpdateAccount(r, m)
         /\ m.op \in OnGroup => Update(r, m) = UpdateGroup(r, m)
         /\ m.op = "new_file" => Update(r, m) = NewFile(r, m)
         /\ m.op \in OnRecord => Update(r, m) = UpdateRecord(r, m)
  BY DEF Update, OnGroup, OnAccount, OnRecord

(* What each update does to the registry. *)
LEMMA NewUserDone ==
  ASSUME NEW r, Maplike(r), NEW m, m.op = "new_user", m.user \notin DOMAIN r.usertomap
  PROVE  Parts(Update(r, m), Put(r.usertomap, m.user, m.record), r.grouptomap, r.filetomap, r.heap, r.loggedin)
<1> DEFINE v == Put(r.usertomap, m.user, m.record)
<1>1. Update(r, m) = UpdateAccount(r, m)
  <2>1. m.op \in OnAccount
    BY DEF OnAccount
  <2> QED BY <2>1, KindOfUpdate
<1>2. UpdateAccount(r, m) = [r EXCEPT !.usertomap = v]
  BY DEF UpdateAccount, Insert
<1> HIDE DEF v
<1>3. Parts([r EXCEPT !.usertomap = v], v, r.grouptomap, r.filetomap, r.heap, r.loggedin)
  BY PartReplaced
<1> QED BY <1>1, <1>2, <1>3 DEF v

LEMMA LogInDone ==
  ASSUME NEW r, Maplike(r), NEW m, m.op = "log_in"
  PROVE  Parts(Update(r, m), r.usertomap, r.grouptomap, r.filetomap, r.heap, r.loggedin \cup {m.user})
<1> DEFINE v == r.loggedin \cup {m.user}
<1>1. Update(r, m) = UpdateAccount(r, m)
  <2>1. m.op \in OnAccount
    BY DEF OnAccount
  <2> QED BY <2>1, KindOfUpdate
<1>2. UpdateAccount(r, m) = [r EXCEPT !.loggedin = v]
  BY DEF UpdateAccount
<1> HIDE DEF v
<1>3. Parts([r EXCEPT !.loggedin = v], r.usertomap, r.grouptomap, r.filetomap, r.heap, v)
  BY PartReplaced
<1> QED BY <1>1, <1>2, <1>3 DEF v

LEMMA LogOutDone ==
  ASSUME NEW r, Maplike(r), NEW m, m.op = "log_out"
  PROVE  Parts(Update(r, m), r.usertomap, r.grouptomap, r.filetomap, r.heap, r.loggedin \ {m.user})
<1> DEFINE v == r.loggedin \ {m.user}
<1>1. Update(r, m) = UpdateAccount(r, m)
  <2>1. m.op \in OnAccount
    BY DEF OnAccount
  <2> QED BY <2>1, KindOfUpdate
<1>2. UpdateAccount(r, m) = [r EXCEPT !.loggedin = v]
  BY DEF UpdateAccount
<1> HIDE DEF v
<1>3. Parts([r EXCEPT !.loggedin = v], r.usertomap, r.grouptomap, r.filetomap, r.heap, v)
  BY PartReplaced
<1> QED BY <1>1, <1>2, <1>3 DEF v

LEMMA MoveDone ==
  ASSUME NEW r, Maplike(r), NEW m, m.op = "move"
  PROVE  Parts(Update(r, m), [r.usertomap EXCEPT ![m.user].address = m.address], r.grouptomap, r.filetomap, r.heap, r.loggedin)
<1> DEFINE v == [r.usertomap EXCEPT ![m.user].address = m.address]
<1>1. Update(r, m) = UpdateAccount(r, m)
  <2>1. m.op \in OnAccount
    BY DEF OnAccount
  <2> QED BY <2>1, KindOfUpdate
<1>2. UpdateAccount(r, m) = [r EXCEPT !.usertomap = v]
  BY DEF UpdateAccount
<1> HIDE DEF v
<1>3. Parts([r EXCEPT !.usertomap = v], v, r.grouptomap, r.filetomap, r.heap, r.loggedin)
  BY PartReplaced
<1> QED BY <1>1, <1>2, <1>3 DEF v

LEMMA NewGroupDone ==
  ASSUME NEW r, Maplike(r), NEW m, m.op = "new_group", m.group \notin DOMAIN r.grouptomap
  PROVE  Parts(Update(r, m), r.usertomap, Put(r.grouptomap, m.group, m.record), r.filetomap, r.heap, r.loggedin)
<1> DEFINE v == Put(r.grouptomap, m.group, m.record)
<1>1. Update(r, m) = UpdateGroup(r, m)
  <2>1. m.op \in OnGroup
    BY DEF OnGroup
  <2> QED BY <2>1, KindOfUpdate
<1>2. UpdateGroup(r, m) = [r EXCEPT !.grouptomap = v]
  BY DEF UpdateGroup, FoundGroup, Insert
<1> HIDE DEF v
<1>3. Parts([r EXCEPT !.grouptomap = v], r.usertomap, v, r.filetomap, r.heap, r.loggedin)
  BY PartReplaced
<1> QED BY <1>1, <1>2, <1>3 DEF v

LEMMA NewFileDone ==
  ASSUME NEW r, Maplike(r), NEW m, m.op = "new_file", m.file \notin DOMAIN r.filetomap
  PROVE  Parts(Update(r, m), r.usertomap, r.grouptomap, Put(r.filetomap, m.file, m.object), r.heap, r.loggedin)
<1> DEFINE v == Put(r.filetomap, m.file, m.object)
<1>1. Update(r, m) = NewFile(r, m)
  BY KindOfUpdate
<1>2. NewFile(r, m) = [r EXCEPT !.filetomap = v]
  BY DEF NewFile
<1> HIDE DEF v
<1>3. Parts([r EXCEPT !.filetomap = v], r.usertomap, r.grouptomap, v, r.heap, r.loggedin)
  BY PartReplaced
<1> QED BY <1>1, <1>2, <1>3 DEF v

LEMMA EraseFileDone ==
  ASSUME NEW r, Maplike(r), NEW m, m.op = "erase_file"
  PROVE  Parts(Update(r, m), r.usertomap, r.grouptomap, Erase(r.filetomap, r.heap[m.object].filename), r.heap, r.loggedin)
<1> DEFINE v == Erase(r.filetomap, r.heap[m.object].filename)
<1>1. Update(r, m) = UpdateRecord(r, m)
  <2>1. m.op \in OnRecord
    BY DEF OnRecord
  <2> QED BY <2>1, KindOfUpdate
<1>2. UpdateRecord(r, m) = [r EXCEPT !.filetomap = v]
  BY DEF UpdateRecord
<1> HIDE DEF v
<1>3. Parts([r EXCEPT !.filetomap = v], r.usertomap, r.grouptomap, v, r.heap, r.loggedin)
  BY PartReplaced
<1> QED BY <1>1, <1>2, <1>3 DEF v

LEMMA DeleteDone ==
  ASSUME NEW r, Maplike(r), NEW m, m.op = "delete"
  PROVE  Parts(Update(r, m), r.usertomap, r.grouptomap, r.filetomap, Erase(r.heap, m.object), r.loggedin)
<1> DEFINE v == Erase(r.heap, m.object)
<1>1. Update(r, m) = UpdateRecord(r, m)
  <2>1. m.op \in OnRecord
    BY DEF OnRecord
  <2> QED BY <2>1, KindOfUpdate
<1>2. UpdateRecord(r, m) = [r EXCEPT !.heap = v]
  BY DEF UpdateRecord
<1> HIDE DEF v
<1>3. Parts([r EXCEPT !.heap = v], r.usertomap, r.grouptomap, r.filetomap, v, r.loggedin)
  BY PartReplaced
<1> QED BY <1>1, <1>2, <1>3 DEF v

LEMMA OwnDone ==
  ASSUME NEW r, Maplike(r), NEW m, m.op = "own", m.user \in DOMAIN r.usertomap,
         NEW now, now = r.usertomap[m.user]
  PROVE  \E v : /\ Owned(now, v, m.group)
                /\ Parts(Update(r, m), [r.usertomap EXCEPT ![m.user] = v], r.grouptomap, r.filetomap, r.heap, r.loggedin)
<1> DEFINE v == [now EXCEPT !.groups = @ \cup {m.group}, !.mygroups = @ \cup {m.group}]
<1>1. Update(r, m) = UpdateAccount(r, m)
  <2>1. m.op \in OnAccount
    BY DEF OnAccount
  <2> QED BY <2>1, KindOfUpdate
<1>2. UpdateAccount(r, m) = [r EXCEPT !.usertomap = [r.usertomap EXCEPT ![m.user] = v]]
  BY DEF UpdateAccount, Maplike
<1>3. now \in User
  BY DEF Maplike, IsMap
<1>4. Owned(now, v, m.group)
  <2> DEFINE g == m.group
  <2> HIDE DEF g
  <2>1. [now EXCEPT !.groups = @ \cup {g}, !.mygroups = @ \cup {g}] =
           [password |-> now.password, address |-> now.address,
            groups |-> now.groups \cup {g}, mygroups |-> now.mygroups \cup {g}]
    BY <1>3, OwnedBoth
  <2> QED BY <2>1 DEF Owned, g
<1> HIDE DEF v
<1>5. Parts([r EXCEPT !.usertomap = [r.usertomap EXCEPT ![m.user] = v]], [r.usertomap EXCEPT ![m.user] = v], r.grouptomap, r.filetomap, r.heap, r.loggedin)
  BY PartReplaced
<1> QED BY <1>1, <1>2, <1>4, <1>5

LEMMA AskDone ==
  ASSUME NEW r, Maplike(r), NEW m, m.op = "ask", m.group \in DOMAIN r.grouptomap,
         NEW now, now = r.grouptomap[m.group]
  PROVE  \E v : /\ Regrouped(now, v, now.members, now.files, now.requests \cup {m.user})
                /\ Parts(Update(r, m), r.usertomap, [r.grouptomap EXCEPT ![m.group] = v], r.filetomap, r.heap, r.loggedin)
<1> DEFINE v == [now EXCEPT !.requests = now.requests \cup {m.user}]
<1>1. Update(r, m) = UpdateGroup(r, m)
  <2>1. m.op \in OnGroup
    BY DEF OnGroup
  <2> QED BY <2>1, KindOfUpdate
<1>2. UpdateGroup(r, m) = [r EXCEPT !.grouptomap = [r.grouptomap EXCEPT ![m.group] = v]]
  BY DEF UpdateGroup, Maplike
<1>3. now \in Group
  BY DEF Maplike, IsMap
<1>4. Regrouped(now, v, now.members, now.files, now.requests \cup {m.user})
  BY <1>3 DEF Regrouped, Group
<1> HIDE DEF v
<1>5. Parts([r EXCEPT !.grouptomap = [r.grouptomap EXCEPT ![m.group] = v]], r.usertomap, [r.grouptomap EXCEPT ![m.group] = v], r.filetomap, r.heap, r.loggedin)
  BY PartReplaced
<1> QED BY <1>1, <1>2, <1>4, <1>5

LEMMA AnswerDone ==
  ASSUME NEW r, Maplike(r), NEW m, m.op = "answer", m.group \in DOMAIN r.grouptomap,
         NEW now, now = r.grouptomap[m.group]
  PROVE  \E v : /\ Regrouped(now, v, now.members, now.files, now.requests \ {m.user})
                /\ Parts(Update(r, m), r.usertomap, [r.grouptomap EXCEPT ![m.group] = v], r.filetomap, r.heap, r.loggedin)
<1> DEFINE v == [now EXCEPT !.requests = now.requests \ {m.user}]
<1>1. Update(r, m) = UpdateGroup(r, m)
  <2>1. m.op \in OnGroup
    BY DEF OnGroup
  <2> QED BY <2>1, KindOfUpdate
<1>2. UpdateGroup(r, m) = [r EXCEPT !.grouptomap = [r.grouptomap EXCEPT ![m.group] = v]]
  BY DEF UpdateGroup, Maplike
<1>3. now \in Group
  BY DEF Maplike, IsMap
<1>4. Regrouped(now, v, now.members, now.files, now.requests \ {m.user})
  BY <1>3 DEF Regrouped, Group
<1> HIDE DEF v
<1>5. Parts([r EXCEPT !.grouptomap = [r.grouptomap EXCEPT ![m.group] = v]], r.usertomap, [r.grouptomap EXCEPT ![m.group] = v], r.filetomap, r.heap, r.loggedin)
  BY PartReplaced
<1> QED BY <1>1, <1>2, <1>4, <1>5

LEMMA AdmitDone ==
  ASSUME NEW r, Maplike(r), NEW m, m.op = "admit", m.group \in DOMAIN r.grouptomap,
         NEW now, now = r.grouptomap[m.group]
  PROVE  \E v : /\ Regrouped(now, v, now.members \cup {m.user}, now.files, now.requests)
                /\ Parts(Update(r, m), r.usertomap, [r.grouptomap EXCEPT ![m.group] = v], r.filetomap, r.heap, r.loggedin)
<1> DEFINE v == [now EXCEPT !.members = now.members \cup {m.user}]
<1>1. Update(r, m) = UpdateGroup(r, m)
  <2>1. m.op \in OnGroup
    BY DEF OnGroup
  <2> QED BY <2>1, KindOfUpdate
<1>2. UpdateGroup(r, m) = [r EXCEPT !.grouptomap = [r.grouptomap EXCEPT ![m.group] = v]]
  BY DEF UpdateGroup, Maplike
<1>3. now \in Group
  BY DEF Maplike, IsMap
<1>4. Regrouped(now, v, now.members \cup {m.user}, now.files, now.requests)
  BY <1>3 DEF Regrouped, Group
<1> HIDE DEF v
<1>5. Parts([r EXCEPT !.grouptomap = [r.grouptomap EXCEPT ![m.group] = v]], r.usertomap, [r.grouptomap EXCEPT ![m.group] = v], r.filetomap, r.heap, r.loggedin)
  BY PartReplaced
<1> QED BY <1>1, <1>2, <1>4, <1>5

LEMMA LeaveDone ==
  ASSUME NEW r, Maplike(r), NEW m, m.op = "leave", m.group \in DOMAIN r.grouptomap,
         NEW now, now = r.grouptomap[m.group]
  PROVE  \E v : /\ Regrouped(now, v, now.members \ {m.user}, now.files, now.requests)
                /\ Parts(Update(r, m), r.usertomap, [r.grouptomap EXCEPT ![m.group] = v], r.filetomap, r.heap, r.loggedin)
<1> DEFINE v == [now EXCEPT !.members = now.members \ {m.user}]
<1>1. Update(r, m) = UpdateGroup(r, m)
  <2>1. m.op \in OnGroup
    BY DEF OnGroup
  <2> QED BY <2>1, KindOfUpdate
<1>2. UpdateGroup(r, m) = [r EXCEPT !.grouptomap = [r.grouptomap EXCEPT ![m.group] = v]]
  BY DEF UpdateGroup, Maplike
<1>3. now \in Group
  BY DEF Maplike, IsMap
<1>4. Regrouped(now, v, now.members \ {m.user}, now.files, now.requests)
  BY <1>3 DEF Regrouped, Group
<1> HIDE DEF v
<1>5. Parts([r EXCEPT !.grouptomap = [r.grouptomap EXCEPT ![m.group] = v]], r.usertomap, [r.grouptomap EXCEPT ![m.group] = v], r.filetomap, r.heap, r.loggedin)
  BY PartReplaced
<1> QED BY <1>1, <1>2, <1>4, <1>5

LEMMA ListDone ==
  ASSUME NEW r, Maplike(r), NEW m, m.op = "list", m.group \in DOMAIN r.grouptomap,
         NEW now, now = r.grouptomap[m.group]
  PROVE  \E v : /\ Regrouped(now, v, now.members, now.files \cup {m.file}, now.requests)
                /\ Parts(Update(r, m), r.usertomap, [r.grouptomap EXCEPT ![m.group] = v], r.filetomap, r.heap, r.loggedin)
<1> DEFINE v == [now EXCEPT !.files = now.files \cup {m.file}]
<1>1. Update(r, m) = UpdateGroup(r, m)
  <2>1. m.op \in OnGroup
    BY DEF OnGroup
  <2> QED BY <2>1, KindOfUpdate
<1>2. UpdateGroup(r, m) = [r EXCEPT !.grouptomap = [r.grouptomap EXCEPT ![m.group] = v]]
  BY DEF UpdateGroup, Maplike
<1>3. now \in Group
  BY DEF Maplike, IsMap
<1>4. Regrouped(now, v, now.members, now.files \cup {m.file}, now.requests)
  BY <1>3 DEF Regrouped, Group
<1> HIDE DEF v
<1>5. Parts([r EXCEPT !.grouptomap = [r.grouptomap EXCEPT ![m.group] = v]], r.usertomap, [r.grouptomap EXCEPT ![m.group] = v], r.filetomap, r.heap, r.loggedin)
  BY PartReplaced
<1> QED BY <1>1, <1>2, <1>4, <1>5

LEMMA UnlistDone ==
  ASSUME NEW r, Maplike(r), NEW m, m.op = "unlist", m.group \in DOMAIN r.grouptomap,
         NEW now, now = r.grouptomap[m.group]
  PROVE  \E v : /\ Regrouped(now, v, now.members, now.files \ {r.heap[m.object].filename}, now.requests)
                /\ Parts(Update(r, m), r.usertomap, [r.grouptomap EXCEPT ![m.group] = v], r.filetomap, r.heap, r.loggedin)
<1> DEFINE v == [now EXCEPT !.files = now.files \ {r.heap[m.object].filename}]
<1>1. Update(r, m) = UpdateRecord(r, m)
  <2>1. m.op \in OnRecord
    BY DEF OnRecord
  <2> QED BY <2>1, KindOfUpdate
<1>2. UpdateRecord(r, m) = [r EXCEPT !.grouptomap = [r.grouptomap EXCEPT ![m.group] = v]]
  BY DEF UpdateRecord, Maplike
<1>3. now \in Group
  BY DEF Maplike, IsMap
<1>4. Regrouped(now, v, now.members, now.files \ {r.heap[m.object].filename}, now.requests)
  BY <1>3 DEF Regrouped, Group
<1> HIDE DEF v
<1>5. Parts([r EXCEPT !.grouptomap = [r.grouptomap EXCEPT ![m.group] = v]], r.usertomap, [r.grouptomap EXCEPT ![m.group] = v], r.filetomap, r.heap, r.loggedin)
  BY PartReplaced
<1> QED BY <1>1, <1>2, <1>4, <1>5

LEMMA ShareDone ==
  ASSUME NEW r, Maplike(r), NEW m, m.op = "share", m.object \in DOMAIN r.heap,
         NEW now, now = r.heap[m.object]
  PROVE  \E v : /\ Rerecorded(now, v, now.userids \cup {m.user}, now.users)
                /\ Parts(Update(r, m), r.usertomap, r.grouptomap, r.filetomap, [r.heap EXCEPT ![m.object] = v], r.loggedin)
<1> DEFINE v == [now EXCEPT !.userids = now.userids \cup {m.user}]
<1>1. Update(r, m) = UpdateRecord(r, m)
  <2>1. m.op \in OnRecord
    BY DEF OnRecord
  <2> QED BY <2>1, KindOfUpdate
<1>2. UpdateRecord(r, m) = [r EXCEPT !.heap = [r.heap EXCEPT ![m.object] = v]]
  BY DEF UpdateRecord, Maplike
<1>3. now \in FileStr
  BY DEF Maplike, IsMap
<1>4. Rerecorded(now, v, now.userids \cup {m.user}, now.users)
  BY <1>3 DEF Rerecorded, FileStr
<1> HIDE DEF v
<1>5. Parts([r EXCEPT !.heap = [r.heap EXCEPT ![m.object] = v]], r.usertomap, r.grouptomap, r.filetomap, [r.heap EXCEPT ![m.object] = v], r.loggedin)
  BY PartReplaced
<1> QED BY <1>1, <1>2, <1>4, <1>5

LEMMA UnshareDone ==
  ASSUME NEW r, Maplike(r), NEW m, m.op = "unshare", m.object \in DOMAIN r.heap,
         NEW now, now = r.heap[m.object]
  PROVE  \E v : /\ Rerecorded(now, v, now.userids \ {m.user}, now.users)
                /\ Parts(Update(r, m), r.usertomap, r.grouptomap, r.filetomap, [r.heap EXCEPT ![m.object] = v], r.loggedin)
<1> DEFINE v == [now EXCEPT !.userids = now.userids \ {m.user}]
<1>1. Update(r, m) = UpdateRecord(r, m)
  <2>1. m.op \in OnRecord
    BY DEF OnRecord
  <2> QED BY <2>1, KindOfUpdate
<1>2. UpdateRecord(r, m) = [r EXCEPT !.heap = [r.heap EXCEPT ![m.object] = v]]
  BY DEF UpdateRecord, Maplike
<1>3. now \in FileStr
  BY DEF Maplike, IsMap
<1>4. Rerecorded(now, v, now.userids \ {m.user}, now.users)
  BY <1>3 DEF Rerecorded, FileStr
<1> HIDE DEF v
<1>5. Parts([r EXCEPT !.heap = [r.heap EXCEPT ![m.object] = v]], r.usertomap, r.grouptomap, r.filetomap, [r.heap EXCEPT ![m.object] = v], r.loggedin)
  BY PartReplaced
<1> QED BY <1>1, <1>2, <1>4, <1>5

LEMMA ShareAtDone ==
  ASSUME NEW r, Maplike(r), NEW m, m.op = "share_at", m.object \in DOMAIN r.heap,
         NEW now, now = r.heap[m.object]
  PROVE  \E v : /\ Rerecorded(now, v, now.userids, now.users \cup {r.usertomap[m.user].address})
                /\ Parts(Update(r, m), r.usertomap, r.grouptomap, r.filetomap, [r.heap EXCEPT ![m.object] = v], r.loggedin)
<1> DEFINE v == [now EXCEPT !.users = now.users \cup {r.usertomap[m.user].address}]
<1>1. Update(r, m) = UpdateRecord(r, m)
  <2>1. m.op \in OnRecord
    BY DEF OnRecord
  <2> QED BY <2>1, KindOfUpdate
<1>2. UpdateRecord(r, m) = [r EXCEPT !.heap = [r.heap EXCEPT ![m.object] = v]]
  BY DEF UpdateRecord, Maplike
<1>3. now \in FileStr
  BY DEF Maplike, IsMap
<1>4. Rerecorded(now, v, now.userids, now.users \cup {r.usertomap[m.user].address})
  BY <1>3 DEF Rerecorded, FileStr
<1> HIDE DEF v
<1>5. Parts([r EXCEPT !.heap = [r.heap EXCEPT ![m.object] = v]], r.usertomap, r.grouptomap, r.filetomap, [r.heap EXCEPT ![m.object] = v], r.loggedin)
  BY PartReplaced
<1> QED BY <1>1, <1>2, <1>4, <1>5

LEMMA UnshareAtDone ==
  ASSUME NEW r, Maplike(r), NEW m, m.op = "unshare_at", m.object \in DOMAIN r.heap,
         NEW now, now = r.heap[m.object]
  PROVE  \E v : /\ Rerecorded(now, v, now.userids, now.users \ {r.usertomap[m.user].address})
                /\ Parts(Update(r, m), r.usertomap, r.grouptomap, r.filetomap, [r.heap EXCEPT ![m.object] = v], r.loggedin)
<1> DEFINE v == [now EXCEPT !.users = now.users \ {r.usertomap[m.user].address}]
<1>1. Update(r, m) = UpdateRecord(r, m)
  <2>1. m.op \in OnRecord
    BY DEF OnRecord
  <2> QED BY <2>1, KindOfUpdate
<1>2. UpdateRecord(r, m) = [r EXCEPT !.heap = [r.heap EXCEPT ![m.object] = v]]
  BY DEF UpdateRecord, Maplike
<1>3. now \in FileStr
  BY DEF Maplike, IsMap
<1>4. Rerecorded(now, v, now.userids, now.users \ {r.usertomap[m.user].address})
  BY <1>3 DEF Rerecorded, FileStr
<1> HIDE DEF v
<1>5. Parts([r EXCEPT !.heap = [r.heap EXCEPT ![m.object] = v]], r.usertomap, r.grouptomap, r.filetomap, [r.heap EXCEPT ![m.object] = v], r.loggedin)
  BY PartReplaced
<1> QED BY <1>1, <1>2, <1>4, <1>5

-----------------------------------------------------------------------------
(* A handler that goes on *)

(* The update m, the rest P of its handler's plan, with the job j, and the *)
(* updates O of the others.                                                *)
Proceeds(r, j, m, O, P) ==
  /\ Maplike(r) /\ Kept(r)
  /\ Within(m, r, j) /\ Ready(m, r)
  /\ Away(O, r, j.users, j.files, j.founds)
  /\ \A n \in P : n.op \in Later(m.op) /\ Within(n, r, j)
  /\ Linked(P \cup {m}, r)
  /\ \A n \in O \cup P \cup {m} : Relies(n) \subseteq DOMAIN r.usertomap

LEMMA AddressesThere ==
  ASSUME NEW r, NEW j, NEW m, NEW O, NEW P, Proceeds(r, j, m, O, P)
  PROVE  \A n \in O \cup P : n.op \in OfAddresses => n.user \in DOMAIN r.usertomap
  BY DEF Proceeds, Relies, OfAddresses

LEMMA NewUserGoes ==
  ASSUME NEW r, NEW j, NEW m \in Task, NEW O, NEW P, Proceeds(r, j, m, O, P), m.op = "new_user"
  PROVE  Unseen(r, Update(r, m), O \cup P, m)
<1>1. m.user \notin DOMAIN r.usertomap /\ Maplike(r)
  BY DEF Proceeds, Ready
<1>2. Parts(Update(r, m), Put(r.usertomap, m.user, m.record), r.grouptomap, r.filetomap, r.heap, r.loggedin)
  BY <1>1, NewUserDone
<1>3. m.user \in j.users
  BY DEF Proceeds, Within, ByUser
<1>4. \A n \in O \cup P : n.op \in OfUsers => n.user # m.user
  BY <1>3 DEF Proceeds, Away, Later, ByUser, OfUsers
<1>5. m.record \in User
  BY TaskParts
<1>6. \A n \in O \cup P : n.op \in OfAddresses => n.user \in DOMAIN r.usertomap
  BY AddressesThere
<1> QED BY <1>1, <1>2, <1>4, <1>5, <1>6, NewUserUnseen DEF Parts

LEMMA LogInGoes ==
  ASSUME NEW r, NEW j, NEW m \in Task, NEW O, NEW P, Proceeds(r, j, m, O, P), m.op = "log_in"
  PROVE  Unseen(r, Update(r, m), O \cup P, m)
<1>1. Parts(Update(r, m), r.usertomap, r.grouptomap, r.filetomap, r.heap, r.loggedin \cup {m.user})
  BY LogInDone DEF Proceeds
<1> QED BY <1>1, LogInUnseen DEF Parts

LEMMA LogOutGoes ==
  ASSUME NEW r, NEW j, NEW m \in Task, NEW O, NEW P, Proceeds(r, j, m, O, P), m.op = "log_out"
  PROVE  Unseen(r, Update(r, m), O \cup P, m)
<1>1. Parts(Update(r, m), r.usertomap, r.grouptomap, r.filetomap, r.heap, r.loggedin \ {m.user})
  BY LogOutDone DEF Proceeds
<1>2. m.user \in j.users
  BY DEF Proceeds, Within, ByUser
<1>3. \A n \in O \cup P : n.op \in OfFlags => n.user # m.user
  BY <1>2 DEF Proceeds, Away, Later, ByUser, OfFlags
<1> QED BY <1>1, <1>3, LogOutUnseen DEF Parts

LEMMA MoveGoes ==
  ASSUME NEW r, NEW j, NEW m \in Task, NEW O, NEW P, Proceeds(r, j, m, O, P), m.op = "move"
  PROVE  Unseen(r, Update(r, m), O \cup P, m)
<1>1. Parts(Update(r, m), [r.usertomap EXCEPT ![m.user].address = m.address], r.grouptomap,
            r.filetomap, r.heap, r.loggedin)
  BY MoveDone DEF Proceeds
<1>2. m.user \in j.users
  BY DEF Proceeds, Within, ByUser
<1>3. \A n \in O \cup P : n.op \in OfUsers => n.user # m.user
  BY <1>2 DEF Proceeds, Away, Later, ByUser, OfUsers
<1>4. \A n \in O \cup P : n.op \in OfAddresses => n.user # m.user
  BY <1>2 DEF Proceeds, Away, Later, ByUser, OfAddresses
<1>5. m.user \in DOMAIN r.usertomap
  BY DEF Proceeds, Relies
<1>6. r.usertomap[m.user] \in User
  BY <1>5 DEF Proceeds, Maplike, IsMap
<1>7. \A n \in O \cup P : n.op \in OfAddresses => n.user \in DOMAIN r.usertomap \ {m.user}
  BY <1>4, AddressesThere
<1> QED BY <1>1, <1>3, <1>5, <1>6, <1>7, MoveUnseen DEF Parts

LEMMA OwnGoes ==
  ASSUME NEW r, NEW j, NEW m \in Task, NEW O, NEW P, Proceeds(r, j, m, O, P), m.op = "own"
  PROVE  Unseen(r, Update(r, m), O \cup P, m)
<1>1. m.user \in j.users
  BY DEF Proceeds, Within, ByUser
<1>2. \A n \in O \cup P : n.op \in OfUsers => n.user # m.user
  BY <1>1 DEF Proceeds, Away, Later, ByUser, OfUsers
<1>3. \A n \in O \cup P : n.op \in OfAddresses => n.user # m.user
  BY <1>1 DEF Proceeds, Away, Later, ByUser, OfAddresses
<1>4. m.user \in DOMAIN r.usertomap
  BY DEF Proceeds, Relies
<1>5. PICK v : /\ Owned(r.usertomap[m.user], v, m.group)
               /\ Parts(Update(r, m), [r.usertomap EXCEPT ![m.user] = v], r.grouptomap,
                        r.filetomap, r.heap, r.loggedin)
  BY <1>4, OwnDone DEF Proceeds
<1>6. r.usertomap[m.user] \in User
  BY <1>4 DEF Proceeds, Maplike, IsMap
<1>7. \A n \in O \cup P : n.op \in OfAddresses => n.user \in DOMAIN r.usertomap \ {m.user}
  BY <1>3, AddressesThere
<1> DEFINE s == Update(r, m)
<1> HIDE DEF s
<1>8. s.usertomap = [r.usertomap EXCEPT ![m.user] = v]
  BY <1>5 DEF Parts, s
<1>9. /\ DOMAIN s.usertomap = DOMAIN r.usertomap
      /\ \A u \in DOMAIN r.usertomap : u # m.user => s.usertomap[u] = r.usertomap[u]
      /\ s.usertomap[m.user] = v
  BY <1>4, <1>8
<1>10. Owned(r.usertomap[m.user], s.usertomap[m.user], m.group)
  BY <1>5, <1>9
<1>11. /\ s.grouptomap = r.grouptomap
       /\ s.filetomap = r.filetomap /\ s.heap = r.heap /\ s.loggedin = r.loggedin
  BY <1>5 DEF Parts, s
<1>12. Unseen(r, s, O \cup P, m)
  BY <1>2, <1>4, <1>7, <1>9, <1>10, <1>11, OwnUnseen
<1> QED BY <1>12 DEF s

LEMMA AskGoes ==
  ASSUME NEW r, NEW j, NEW m \in Task, NEW O, NEW P, Proceeds(r, j, m, O, P), m.op = "ask"
  PROVE  Unseen(r, Update(r, m), O \cup P, m)
<1> DEFINE now == r.grouptomap[m.group]
           s == Update(r, m)
<1>1. m.group \in DOMAIN r.grouptomap
  BY DEF Proceeds, Ready, ByGroup
<1>2. Maplike(r)
  BY DEF Proceeds
<1>3. \E v : /\ Regrouped(now, v, now.members, now.files, now.requests \cup {m.user})
             /\ Parts(s, r.usertomap, [r.grouptomap EXCEPT ![m.group] = v], r.filetomap,
                      r.heap, r.loggedin)
  BY <1>1, <1>2, AskDone
<1> HIDE DEF s, now
<1>4. PICK v : /\ Regrouped(now, v, now.members, now.files, now.requests \cup {m.user})
               /\ Parts(s, r.usertomap, [r.grouptomap EXCEPT ![m.group] = v], r.filetomap,
                        r.heap, r.loggedin)
  BY <1>3
<1>5. /\ s.grouptomap = [r.grouptomap EXCEPT ![m.group] = v] /\ s.usertomap = r.usertomap
      /\ s.filetomap = r.filetomap /\ s.heap = r.heap /\ s.loggedin = r.loggedin
  BY <1>4 DEF Parts
<1>6. /\ DOMAIN s.grouptomap = DOMAIN r.grouptomap
      /\ \A g \in DOMAIN r.grouptomap : g # m.group => s.grouptomap[g] = r.grouptomap[g]
      /\ s.grouptomap[m.group] = v
  BY <1>1, <1>5
<1>7. Regrouped(now, s.grouptomap[m.group], now.members, now.files, now.requests \cup {m.user})
  BY <1>4, <1>6
<1>8. now = r.grouptomap[m.group]
  BY DEF now
<1>9. Unseen(r, s, O \cup P, m)
  BY <1>1, <1>5, <1>6, <1>7, <1>8, AskUnseen
<1> QED BY <1>9 DEF s

LEMMA AnswerGoes ==
  ASSUME NEW r, NEW j, NEW m \in Task, NEW O, NEW P, Proceeds(r, j, m, O, P), m.op = "answer"
  PROVE  Unseen(r, Update(r, m), O \cup P, m)
<1> DEFINE now == r.grouptomap[m.group]
           s == Update(r, m)
<1>1. m.group \in DOMAIN r.grouptomap
  BY DEF Proceeds, Ready, ByGroup
<1>2. Maplike(r)
  BY DEF Proceeds
<1>3. \E v : /\ Regrouped(now, v, now.members, now.files, now.requests \ {m.user})
             /\ Parts(s, r.usertomap, [r.grouptomap EXCEPT ![m.group] = v], r.filetomap,
                      r.heap, r.loggedin)
  BY <1>1, <1>2, AnswerDone
<1> HIDE DEF s, now
<1>4. PICK v : /\ Regrouped(now, v, now.members, now.files, now.requests \ {m.user})
               /\ Parts(s, r.usertomap, [r.grouptomap EXCEPT ![m.group] = v], r.filetomap,
                        r.heap, r.loggedin)
  BY <1>3
<1>5. /\ s.grouptomap = [r.grouptomap EXCEPT ![m.group] = v] /\ s.usertomap = r.usertomap
      /\ s.filetomap = r.filetomap /\ s.heap = r.heap /\ s.loggedin = r.loggedin
  BY <1>4 DEF Parts
<1>6. /\ DOMAIN s.grouptomap = DOMAIN r.grouptomap
      /\ \A g \in DOMAIN r.grouptomap : g # m.group => s.grouptomap[g] = r.grouptomap[g]
      /\ s.grouptomap[m.group] = v
  BY <1>1, <1>5
<1>7. Regrouped(now, s.grouptomap[m.group], now.members, now.files, now.requests \ {m.user})
  BY <1>4, <1>6
<1>8. now = r.grouptomap[m.group]
  BY DEF now
<1>9. m.user \in j.users
  BY DEF Proceeds, Within, ByUser
<1>10. \A n \in O \cup P : n.op = "ask" => n.user # m.user
  BY <1>9 DEF Proceeds, Away, Later, ByUser
<1>11. Unseen(r, s, O \cup P, m)
  BY <1>1, <1>5, <1>6, <1>7, <1>8, <1>10, AnswerUnseen
<1> QED BY <1>11 DEF s

LEMMA AdmitGoes ==
  ASSUME NEW r, NEW j, NEW m \in Task, NEW O, NEW P, Proceeds(r, j, m, O, P), m.op = "admit"
  PROVE  Unseen(r, Update(r, m), O \cup P, m)
<1> DEFINE now == r.grouptomap[m.group]
           s == Update(r, m)
<1>1. m.group \in DOMAIN r.grouptomap
  BY DEF Proceeds, Ready, ByGroup
<1>2. Maplike(r)
  BY DEF Proceeds
<1>3. \E v : /\ Regrouped(now, v, now.members \cup {m.user}, now.files, now.requests)
             /\ Parts(s, r.usertomap, [r.grouptomap EXCEPT ![m.group] = v], r.filetomap,
                      r.heap, r.loggedin)
  BY <1>1, <1>2, AdmitDone
<1> HIDE DEF s, now
<1>4. PICK v : /\ Regrouped(now, v, now.members \cup {m.user}, now.files, now.requests)
               /\ Parts(s, r.usertomap, [r.grouptomap EXCEPT ![m.group] = v], r.filetomap,
                        r.heap, r.loggedin)
  BY <1>3
<1>5. /\ s.grouptomap = [r.grouptomap EXCEPT ![m.group] = v] /\ s.usertomap = r.usertomap
      /\ s.filetomap = r.filetomap /\ s.heap = r.heap /\ s.loggedin = r.loggedin
  BY <1>4 DEF Parts
<1>6. /\ DOMAIN s.grouptomap = DOMAIN r.grouptomap
      /\ \A g \in DOMAIN r.grouptomap : g # m.group => s.grouptomap[g] = r.grouptomap[g]
      /\ s.grouptomap[m.group] = v
  BY <1>1, <1>5
<1>7. Regrouped(now, s.grouptomap[m.group], now.members \cup {m.user}, now.files, now.requests)
  BY <1>4, <1>6
<1>8. now = r.grouptomap[m.group]
  BY DEF now
<1>9. Unseen(r, s, O \cup P, m)
  BY <1>1, <1>5, <1>6, <1>7, <1>8, AdmitUnseen
<1> QED BY <1>9 DEF s

LEMMA LeaveGoes ==
  ASSUME NEW r, NEW j, NEW m \in Task, NEW O, NEW P, Proceeds(r, j, m, O, P), m.op = "leave"
  PROVE  Unseen(r, Update(r, m), O \cup P, m)
<1> DEFINE now == r.grouptomap[m.group]
           s == Update(r, m)
<1>1. m.group \in DOMAIN r.grouptomap
  BY DEF Proceeds, Ready, ByGroup
<1>2. Maplike(r)
  BY DEF Proceeds
<1>3. \E v : /\ Regrouped(now, v, now.members \ {m.user}, now.files, now.requests)
             /\ Parts(s, r.usertomap, [r.grouptomap EXCEPT ![m.group] = v], r.filetomap,
                      r.heap, r.loggedin)
  BY <1>1, <1>2, LeaveDone
<1> HIDE DEF s, now
<1>4. PICK v : /\ Regrouped(now, v, now.members \ {m.user}, now.files, now.requests)
               /\ Parts(s, r.usertomap, [r.grouptomap EXCEPT ![m.group] = v], r.filetomap,
                        r.heap, r.loggedin)
  BY <1>3
<1>5. /\ s.grouptomap = [r.grouptomap EXCEPT ![m.group] = v] /\ s.usertomap = r.usertomap
      /\ s.filetomap = r.filetomap /\ s.heap = r.heap /\ s.loggedin = r.loggedin
  BY <1>4 DEF Parts
<1>6. /\ DOMAIN s.grouptomap = DOMAIN r.grouptomap
      /\ \A g \in DOMAIN r.grouptomap : g # m.group => s.grouptomap[g] = r.grouptomap[g]
      /\ s.grouptomap[m.group] = v
  BY <1>1, <1>5
<1>7. Regrouped(now, s.grouptomap[m.group], now.members \ {m.user}, now.files, now.requests)
  BY <1>4, <1>6
<1>8. now = r.grouptomap[m.group]
  BY DEF now
<1>9. m.user \in j.users
  BY DEF Proceeds, Within, ByUser
<1>10. \A n \in O \cup P : n.op = "admit" => n.user # m.user
  BY <1>9 DEF Proceeds, Away, Later, ByUser
<1>11. Unseen(r, s, O \cup P, m)
  BY <1>1, <1>5, <1>6, <1>7, <1>8, <1>10, LeaveUnseen
<1> QED BY <1>11 DEF s

LEMMA ListGoes ==
  ASSUME NEW r, NEW j, NEW m \in Task, NEW O, NEW P, Proceeds(r, j, m, O, P), m.op = "list"
  PROVE  Unseen(r, Update(r, m), O \cup P, m)
<1> DEFINE now == r.grouptomap[m.group]
           s == Update(r, m)
<1>1. m.group \in DOMAIN r.grouptomap
  BY DEF Proceeds, Ready, ByGroup
<1>2. Maplike(r)
  BY DEF Proceeds
<1>3. \E v : /\ Regrouped(now, v, now.members, now.files \cup {m.file}, now.requests)
             /\ Parts(s, r.usertomap, [r.grouptomap EXCEPT ![m.group] = v], r.filetomap,
                      r.heap, r.loggedin)
  BY <1>1, <1>2, ListDone
<1> HIDE DEF s, now
<1>4. PICK v : /\ Regrouped(now, v, now.members, now.files \cup {m.file}, now.requests)
               /\ Parts(s, r.usertomap, [r.grouptomap EXCEPT ![m.group] = v], r.filetomap,
                        r.heap, r.loggedin)
  BY <1>3
<1>5. /\ s.grouptomap = [r.grouptomap EXCEPT ![m.group] = v] /\ s.usertomap = r.usertomap
      /\ s.filetomap = r.filetomap /\ s.heap = r.heap /\ s.loggedin = r.loggedin
  BY <1>4 DEF Parts
<1>6. /\ DOMAIN s.grouptomap = DOMAIN r.grouptomap
      /\ \A g \in DOMAIN r.grouptomap : g # m.group => s.grouptomap[g] = r.grouptomap[g]
      /\ s.grouptomap[m.group] = v
  BY <1>1, <1>5
<1>7. Regrouped(now, s.grouptomap[m.group], now.members, now.files \cup {m.file}, now.requests)
  BY <1>4, <1>6
<1>8. now = r.grouptomap[m.group]
  BY DEF now
<1>9. Unseen(r, s, O \cup P, m)
  BY <1>1, <1>5, <1>6, <1>7, <1>8, ListUnseen
<1> QED BY <1>9 DEF s

LEMMA ShareGoes ==
  ASSUME NEW r, NEW j, NEW m \in Task, NEW O, NEW P, Proceeds(r, j, m, O, P), m.op = "share"
  PROVE  Unseen(r, Update(r, m), O \cup P, m)
<1> DEFINE now == r.heap[m.object]
           s == Update(r, m)
<1>1. m.object \in DOMAIN r.heap
  BY DEF Proceeds, Within, ByObject, OnRecord
<1>2. Maplike(r)
  BY DEF Proceeds
<1>3. \E v : /\ Rerecorded(now, v, now.userids \cup {m.user}, now.users)
             /\ Parts(s, r.usertomap, r.grouptomap, r.filetomap,
                      [r.heap EXCEPT ![m.object] = v], r.loggedin)
  BY <1>1, <1>2, ShareDone
<1> HIDE DEF s, now
<1>4. PICK v : /\ Rerecorded(now, v, now.userids \cup {m.user}, now.users)
               /\ Parts(s, r.usertomap, r.grouptomap, r.filetomap,
                        [r.heap EXCEPT ![m.object] = v], r.loggedin)
  BY <1>3
<1>5. /\ s.heap = [r.heap EXCEPT ![m.object] = v] /\ s.usertomap = r.usertomap
      /\ s.grouptomap = r.grouptomap /\ s.filetomap = r.filetomap /\ s.loggedin = r.loggedin
  BY <1>4 DEF Parts
<1>6. /\ DOMAIN s.heap = DOMAIN r.heap
      /\ \A o \in DOMAIN r.heap : o # m.object => s.heap[o] = r.heap[o]
      /\ s.heap[m.object] = v
  BY <1>1, <1>5
<1>7. Rerecorded(now, s.heap[m.object], now.userids \cup {m.user}, now.users)
  BY <1>4, <1>6
<1>8. now = r.heap[m.object]
  BY DEF now
<1>9. \A n \in O \cup P : n.op \in OnRecord => n.object \in DOMAIN r.heap
  BY DEF Proceeds, Away, Within, ByObject
<1>10. Unseen(r, s, O \cup P, m)
  BY <1>1, <1>5, <1>6, <1>7, <1>8, <1>9, ShareUnseen
<1> QED BY <1>10 DEF s

LEMMA UnshareGoes ==
  ASSUME NEW r, NEW j, NEW m \in Task, NEW O, NEW P, Proceeds(r, j, m, O, P), m.op = "unshare"
  PROVE  Unseen(r, Update(r, m), O \cup P, m)
<1> DEFINE now == r.heap[m.object]
           s == Update(r, m)
<1>1. m.object \in DOMAIN r.heap
  BY DEF Proceeds, Within, ByObject, OnRecord
<1>2. Maplike(r)
  BY DEF Proceeds
<1>3. \E v : /\ Rerecorded(now, v, now.userids \ {m.user}, now.users)
             /\ Parts(s, r.usertomap, r.grouptomap, r.filetomap,
                      [r.heap EXCEPT ![m.object] = v], r.loggedin)
  BY <1>1, <1>2, UnshareDone
<1> HIDE DEF s, now
<1>4. PICK v : /\ Rerecorded(now, v, now.userids \ {m.user}, now.users)
               /\ Parts(s, r.usertomap, r.grouptomap, r.filetomap,
                        [r.heap EXCEPT ![m.object] = v], r.loggedin)
  BY <1>3
<1>5. /\ s.heap = [r.heap EXCEPT ![m.object] = v] /\ s.usertomap = r.usertomap
      /\ s.grouptomap = r.grouptomap /\ s.filetomap = r.filetomap /\ s.loggedin = r.loggedin
  BY <1>4 DEF Parts
<1>6. /\ DOMAIN s.heap = DOMAIN r.heap
      /\ \A o \in DOMAIN r.heap : o # m.object => s.heap[o] = r.heap[o]
      /\ s.heap[m.object] = v
  BY <1>1, <1>5
<1>7. Rerecorded(now, s.heap[m.object], now.userids \ {m.user}, now.users)
  BY <1>4, <1>6
<1>8. now = r.heap[m.object]
  BY DEF now
<1>9. \A n \in O \cup P : n.op \in OnRecord => n.object \in DOMAIN r.heap
  BY DEF Proceeds, Away, Within, ByObject
<1>10. r.heap[m.object].filename \in j.files
  BY DEF Proceeds, Within, ByObject, OnRecord
<1>11. \A n \in O \cup P : n.op = "share" => n.object # m.object
  BY <1>10 DEF Proceeds, Away, Later, ByObject, OnRecord
<1>12. Unseen(r, s, O \cup P, m)
  BY <1>1, <1>5, <1>6, <1>7, <1>8, <1>9, <1>11, UnshareUnseen
<1> QED BY <1>12 DEF s

LEMMA ShareAtGoes ==
  ASSUME NEW r, NEW j, NEW m \in Task, NEW O, NEW P, Proceeds(r, j, m, O, P), m.op = "share_at"
  PROVE  Unseen(r, Update(r, m), O \cup P, m)
<1> DEFINE now == r.heap[m.object]
           s == Update(r, m)
<1>1. m.object \in DOMAIN r.heap
  BY DEF Proceeds, Within, ByObject, OnRecord
<1>2. Maplike(r)
  BY DEF Proceeds
<1>3. \E v : /\ Rerecorded(now, v, now.userids, now.users \cup {r.usertomap[m.user].address})
             /\ Parts(s, r.usertomap, r.grouptomap, r.filetomap,
                      [r.heap EXCEPT ![m.object] = v], r.loggedin)
  BY <1>1, <1>2, ShareAtDone
<1> HIDE DEF s, now
<1>4. PICK v : /\ Rerecorded(now, v, now.userids, now.users \cup {r.usertomap[m.user].address})
               /\ Parts(s, r.usertomap, r.grouptomap, r.filetomap,
                        [r.heap EXCEPT ![m.object] = v], r.loggedin)
  BY <1>3
<1>5. /\ s.heap = [r.heap EXCEPT ![m.object] = v] /\ s.usertomap = r.usertomap
      /\ s.grouptomap = r.grouptomap /\ s.filetomap = r.filetomap /\ s.loggedin = r.loggedin
  BY <1>4 DEF Parts
<1>6. /\ DOMAIN s.heap = DOMAIN r.heap
      /\ \A o \in DOMAIN r.heap : o # m.object => s.heap[o] = r.heap[o]
      /\ s.heap[m.object] = v
  BY <1>1, <1>5
<1>7. Rerecorded(now, s.heap[m.object], now.userids, now.users \cup {r.usertomap[m.user].address})
  BY <1>4, <1>6
<1>8. now = r.heap[m.object]
  BY DEF now
<1>9. \A n \in O \cup P : n.op \in OnRecord => n.object \in DOMAIN r.heap
  BY DEF Proceeds, Away, Within, ByObject
<1>10. Unseen(r, s, O \cup P, m)
  BY <1>1, <1>5, <1>6, <1>7, <1>8, <1>9, ShareAtUnseen
<1> QED BY <1>10 DEF s

LEMMA UnshareAtGoes ==
  ASSUME NEW r, NEW j, NEW m \in Task, NEW O, NEW P, Proceeds(r, j, m, O, P), m.op = "unshare_at"
  PROVE  Unseen(r, Update(r, m), O \cup P, m)
<1> DEFINE now == r.heap[m.object]
           s == Update(r, m)
<1>1. m.object \in DOMAIN r.heap
  BY DEF Proceeds, Within, ByObject, OnRecord
<1>2. Maplike(r)
  BY DEF Proceeds
<1>3. \E v : /\ Rerecorded(now, v, now.userids, now.users \ {r.usertomap[m.user].address})
             /\ Parts(s, r.usertomap, r.grouptomap, r.filetomap,
                      [r.heap EXCEPT ![m.object] = v], r.loggedin)
  BY <1>1, <1>2, UnshareAtDone
<1> HIDE DEF s, now
<1>4. PICK v : /\ Rerecorded(now, v, now.userids, now.users \ {r.usertomap[m.user].address})
               /\ Parts(s, r.usertomap, r.grouptomap, r.filetomap,
                        [r.heap EXCEPT ![m.object] = v], r.loggedin)
  BY <1>3
<1>5. /\ s.heap = [r.heap EXCEPT ![m.object] = v] /\ s.usertomap = r.usertomap
      /\ s.grouptomap = r.grouptomap /\ s.filetomap = r.filetomap /\ s.loggedin = r.loggedin
  BY <1>4 DEF Parts
<1>6. /\ DOMAIN s.heap = DOMAIN r.heap
      /\ \A o \in DOMAIN r.heap : o # m.object => s.heap[o] = r.heap[o]
      /\ s.heap[m.object] = v
  BY <1>1, <1>5
<1>7. Rerecorded(now, s.heap[m.object], now.userids, now.users \ {r.usertomap[m.user].address})
  BY <1>4, <1>6
<1>8. now = r.heap[m.object]
  BY DEF now
<1>9. \A n \in O \cup P : n.op \in OnRecord => n.object \in DOMAIN r.heap
  BY DEF Proceeds, Away, Within, ByObject
<1>10. r.heap[m.object].filename \in j.files
  BY DEF Proceeds, Within, ByObject, OnRecord
<1>11. \A n \in O \cup P : n.op = "share_at" => n.object # m.object
  BY <1>10 DEF Proceeds, Away, Later, ByObject, OnRecord
<1>12. Unseen(r, s, O \cup P, m)
  BY <1>1, <1>5, <1>6, <1>7, <1>8, <1>9, <1>11, UnshareAtUnseen
<1> QED BY <1>12 DEF s

LEMMA UnlistGoes ==
  ASSUME NEW r, NEW j, NEW m \in Task, NEW O, NEW P, Proceeds(r, j, m, O, P), m.op = "unlist"
  PROVE  Unseen(r, Update(r, m), O \cup P, m)
<1> DEFINE now == r.grouptomap[m.group]
           name == r.heap[m.object].filename
           s == Update(r, m)
<1>1. m.group \in DOMAIN r.grouptomap
  BY DEF Proceeds, Ready, ByGroup
<1>2. Maplike(r)
  BY DEF Proceeds
<1>3. \E v : /\ Regrouped(now, v, now.members, now.files \ {name}, now.requests)
             /\ Parts(s, r.usertomap, [r.grouptomap EXCEPT ![m.group] = v], r.filetomap,
                      r.heap, r.loggedin)
  BY <1>1, <1>2, UnlistDone
<1>4. name \in j.files
  BY DEF Proceeds, Within, ByObject, OnRecord
<1>5. now = r.grouptomap[m.group] /\ name = r.heap[m.object].filename
  OBVIOUS
<1> HIDE DEF s, now, name
<1>6. PICK v : /\ Regrouped(now, v, now.members, now.files \ {name}, now.requests)
               /\ Parts(s, r.usertomap, [r.grouptomap EXCEPT ![m.group] = v], r.filetomap,
                        r.heap, r.loggedin)
  BY <1>3
<1>7. /\ s.grouptomap = [r.grouptomap EXCEPT ![m.group] = v] /\ s.usertomap = r.usertomap
      /\ s.filetomap = r.filetomap /\ s.heap = r.heap /\ s.loggedin = r.loggedin
  BY <1>6 DEF Parts
<1>8. /\ DOMAIN s.grouptomap = DOMAIN r.grouptomap
      /\ \A g \in DOMAIN r.grouptomap : g # m.group => s.grouptomap[g] = r.grouptomap[g]
      /\ s.grouptomap[m.group] = v
  BY <1>1, <1>7
<1>9. Regrouped(now, s.grouptomap[m.group], now.members, now.files \ {name}, now.requests)
  BY <1>6, <1>8
<1>10. \A n \in O \cup P : n.op = "list" => n.file # name
  BY <1>4 DEF Proceeds, Away, Later, ByFile
<1>11. Unseen(r, s, O \cup P, m)
  BY <1>1, <1>7, <1>8, <1>9, <1>5, <1>10, UnlistUnseen
<1> QED BY <1>11 DEF s

LEMMA NewGroupGoes ==
  ASSUME NEW r, NEW j, NEW m \in Task, NEW O, NEW P, Proceeds(r, j, m, O, P), m.op = "new_group"
  PROVE  Unseen(r, Update(r, m), O \cup P, m)
<1>1. m.group \notin DOMAIN r.grouptomap /\ Maplike(r)
  BY DEF Proceeds, Ready
<1>2. Parts(Update(r, m), r.usertomap, Put(r.grouptomap, m.group, m.record), r.filetomap, r.heap, r.loggedin)
  BY <1>1, NewGroupDone
<1>3. m.group \in j.founds
  BY DEF Proceeds, Within
<1>4. \A n \in O \cup P : n.op = "new_group" => n.group # m.group
  BY <1>3 DEF Proceeds, Away, Later
<1>5. m.record \in Group
  BY TaskParts
<1>6. \A n \in O \cup P : n.op \in ByGroup => n.group \in DOMAIN r.grouptomap
  BY DEF Proceeds, Away, Later, ByGroup
<1> QED BY <1>1, <1>2, <1>4, <1>5, <1>6, NewGroupUnseen DEF Parts

LEMMA NewFileGoes ==
  ASSUME NEW r, NEW j, NEW m \in Task, NEW O, NEW P, Proceeds(r, j, m, O, P), m.op = "new_file"
  PROVE  Unseen(r, Update(r, m), O \cup P, m)
<1>1. m.file \notin DOMAIN r.filetomap /\ Maplike(r)
  BY DEF Proceeds, Ready
<1>2. Parts(Update(r, m), r.usertomap, r.grouptomap, Put(r.filetomap, m.file, m.object), r.heap, r.loggedin)
  BY <1>1, NewFileDone
<1>3. m.file \in j.files
  BY DEF Proceeds, Within, ByFile
<1>4. \A n \in O \cup P : n.op = "new_file" => n.file # m.file
  BY <1>3 DEF Proceeds, Away, Later, ByFile
<1> QED BY <1>1, <1>2, <1>4, NewFileUnseen DEF Parts

LEMMA EraseFileGoes ==
  ASSUME NEW r, NEW j, NEW m \in Task, NEW O, NEW P, Proceeds(r, j, m, O, P), m.op = "erase_file"
  PROVE  Unseen(r, Update(r, m), O \cup P, m)
<1> DEFINE name == r.heap[m.object].filename
<1>1. name \in DOMAIN r.filetomap /\ r.filetomap[name] = m.object
  BY DEF Proceeds, Ready
<1>2. Parts(Update(r, m), r.usertomap, r.grouptomap, Erase(r.filetomap, name), r.heap, r.loggedin)
  BY EraseFileDone DEF Proceeds
<1>3. name \in j.files
  BY DEF Proceeds, Within, ByObject, OnRecord
<1>4. \A f \in DOMAIN r.filetomap : r.filetomap[f] = m.object <=> f = name
  BY <1>1 DEF Proceeds, Kept
<1>5. \A n \in O \cup P : n.op = "new_file" => n.file # name
  BY <1>3 DEF Proceeds, Away, Later, ByFile
<1>6. \A n \in O \cup P : n.op = "new_file" => n.object # m.object
  BY <1>3 DEF Proceeds, Away, Later, ByObject
<1> HIDE DEF name
<1> QED BY <1>2, <1>4, <1>5, <1>6, EraseFileUnseen DEF Parts

LEMMA DeleteGoes ==
  ASSUME NEW r, NEW j, NEW m \in Task, NEW O, NEW P, Proceeds(r, j, m, O, P), m.op = "delete"
  PROVE  Unseen(r, Update(r, m), O \cup P, m)
<1>1. Parts(Update(r, m), r.usertomap, r.grouptomap, r.filetomap, Erase(r.heap, m.object), r.loggedin)
  BY DeleteDone DEF Proceeds
<1>2. r.heap[m.object].filename \in j.files
  BY DEF Proceeds, Within, ByObject, OnRecord
<1>3. P = {}
  BY DEF Proceeds, Later
<1>4. r.heap[m.object].filename \notin DOMAIN r.filetomap
  BY <1>3 DEF Proceeds, Linked
<1>5. \A f \in DOMAIN r.filetomap : r.filetomap[f] # m.object
  BY <1>4 DEF Proceeds, Kept
<1>6. \A n \in O \cup P : n.op \in ByObject => n.object \in DOMAIN r.heap \ {m.object}
  BY <1>2, <1>3 DEF Proceeds, Away
<1> QED BY <1>1, <1>5, <1>6, DeleteUnseen DEF Parts

(* An update of a handler that no other is about changes nothing of what   *)
(* the registry will be.                                                   *)
LEMMA UpdateUnseen ==
  ASSUME NEW r, NEW j, NEW m \in Task, NEW O, NEW P, Proceeds(r, j, m, O, P), m.op # "size"
  PROVE  Unseen(r, Update(r, m), O \cup P, m)
<1>1. CASE m.op \in OnAccount
  BY <1>1, NewUserGoes, LogInGoes, LogOutGoes, MoveGoes, OwnGoes DEF OnAccount
<1>2. CASE m.op \in OnGroup
  BY <1>2, NewGroupGoes, AskGoes, AnswerGoes, AdmitGoes, LeaveGoes, ListGoes DEF OnGroup
<1>3. CASE m.op = "new_file"
  BY <1>3, NewFileGoes
<1>4. CASE m.op \in OnRecord
  BY <1>4, ShareGoes, ShareAtGoes, UnshareGoes, UnshareAtGoes, EraseFileGoes, UnlistGoes,
     DeleteGoes DEF OnRecord
<1> QED BY <1>1, <1>2, <1>3, <1>4, TaskParts

-----------------------------------------------------------------------------
(* What a handler has seen stays while others go on *)

(* A plan, as a set of updates, that a handler with the job j may still    *)
(* carry out.                                                              *)
Fit(P, r, j) == /\ Linked(P, r)
                /\ \A m \in P : Within(m, r, j) /\ Ready(m, r)

(* From r to s, what a handler with the job j has seen stays.              *)
Spares(r, s, j) ==
  /\ \A u \in j.users : u \in DOMAIN r.usertomap <=> u \in DOMAIN s.usertomap
  /\ DOMAIN r.grouptomap \subseteq DOMAIN s.grouptomap
  /\ \A g \in j.founds : g \in DOMAIN s.grouptomap => g \in DOMAIN r.grouptomap
  /\ \A f \in j.files : f \in DOMAIN r.filetomap <=> f \in DOMAIN s.filetomap
  /\ \A f \in j.files : f \in DOMAIN r.filetomap => s.filetomap[f] = r.filetomap[f]
  /\ \A o \in DOMAIN r.heap : r.heap[o].filename \in j.files =>
       o \in DOMAIN s.heap /\ s.heap[o].filename = r.heap[o].filename

LEMMA FitStable ==
  ASSUME NEW P, NEW r, NEW s, NEW j, Fit(P, r, j), Spares(r, s, j)
  PROVE  Fit(P, s, j)
<1>1. ASSUME NEW m \in P PROVE Within(m, s, j)
  BY <1>1 DEF Fit, Spares, Within
<1>2. ASSUME NEW m \in P, m.op \in ByObject
      PROVE  /\ r.heap[m.object].filename \in j.files
             /\ s.heap[m.object].filename = r.heap[m.object].filename
  BY <1>2 DEF Fit, Spares, Within
<1>3. ASSUME NEW m \in P PROVE Ready(m, s)
  <2>1. m.op = "new_user" => m.user \notin DOMAIN s.usertomap
    BY <1>3 DEF Fit, Spares, Within, Ready, ByUser
  <2>2. m.op = "new_group" => m.group \notin DOMAIN s.grouptomap
    BY <1>3 DEF Fit, Spares, Within, Ready
  <2>3. m.op = "new_file" => m.file \notin DOMAIN s.filetomap /\ s.heap[m.object].filename = m.file
    BY <1>2, <1>3 DEF Fit, Spares, Within, Ready, ByFile, ByObject
  <2>4. m.op \in ByGroup => m.group \in DOMAIN s.grouptomap
    BY <1>3 DEF Fit, Spares, Ready
  <2>5. ASSUME m.op \in {"unshare", "unshare_at", "size", "erase_file"}
        PROVE  /\ s.heap[m.object].filename \in DOMAIN s.filetomap
               /\ s.filetomap[s.heap[m.object].filename] = m.object
    <3>1. m.op \in ByObject
      BY <2>5 DEF ByObject, OnRecord
    <3>2. /\ r.heap[m.object].filename \in DOMAIN r.filetomap
          /\ r.filetomap[r.heap[m.object].filename] = m.object
      BY <2>5, <1>3 DEF Fit, Ready
    <3> QED BY <1>2, <1>3, <3>1, <3>2 DEF Spares
  <2> QED BY <2>1, <2>2, <2>3, <2>4, <2>5 DEF Ready
<1>4. Linked(P, s)
  <2>1. ASSUME NEW m \in P, m.op = "log_in"
        PROVE  m.user \in DOMAIN s.usertomap \/ \E n \in P : n.op = "new_user" /\ n.user = m.user
    BY <2>1 DEF Fit, Linked, Spares, Within, ByUser
  <2>2. ASSUME NEW m \in P, m.op = "delete"
        PROVE  \/ s.heap[m.object].filename \notin DOMAIN s.filetomap
               \/ \E n \in P : n.op = "erase_file" /\ n.object = m.object
    <3>1. m.op \in ByObject
      BY <2>2 DEF ByObject, OnRecord
    <3> QED BY <1>2, <2>2, <3>1 DEF Fit, Linked, Spares
  <2> QED BY <2>1, <2>2 DEF Linked
<1> QED BY <1>1, <1>3, <1>4 DEF Fit

(* What an update does to what is there. *)
Calm(r, s) ==
  /\ DOMAIN s.usertomap = DOMAIN r.usertomap
  /\ DOMAIN s.grouptomap = DOMAIN r.grouptomap
  /\ s.filetomap = r.filetomap
  /\ DOMAIN s.heap = DOMAIN r.heap
  /\ \A o \in DOMAIN r.heap : s.heap[o].filename = r.heap[o].filename

Stirs == {"new_user", "new_group", "new_file", "erase_file", "delete"}

(* An update that can be made in r, as the handler with the job j plans it. *)
Possible(r, j, m) == /\ Maplike(r)
                     /\ Within(m, r, j) /\ Ready(m, r)
                     /\ Relies(m) \subseteq DOMAIN r.usertomap

LEMMA CalmAccount ==
  ASSUME NEW r, NEW j, NEW m \in Task, Possible(r, j, m), m.op \in OnAccount, m.op # "new_user"
  PROVE  Calm(r, Update(r, m))
<1>1. Maplike(r)
  BY DEF Possible
<1>2. CASE m.op = "log_in"
  BY <1>1, <1>2, LogInDone DEF Parts, Calm
<1>3. CASE m.op = "log_out"
  BY <1>1, <1>3, LogOutDone DEF Parts, Calm
<1>4. CASE m.op = "move"
  <2>1. Parts(Update(r, m), [r.usertomap EXCEPT ![m.user].address = m.address], r.grouptomap,
            r.filetomap, r.heap, r.loggedin)
    BY <1>1, <1>4, MoveDone
  <2> QED BY <2>1 DEF Parts, Calm
<1>5. CASE m.op = "own"
  <2>1. m.user \in DOMAIN r.usertomap
    BY <1>5 DEF Possible, Relies
  <2>2. \E v : Parts(Update(r, m), [r.usertomap EXCEPT ![m.user] = v], r.grouptomap,
                     r.filetomap, r.heap, r.loggedin)
    BY <1>1, <1>5, <2>1, OwnDone
  <2> QED BY <2>2 DEF Parts, Calm
<1> QED BY <1>2, <1>3, <1>4, <1>5 DEF OnAccount

LEMMA CalmGroup ==
  ASSUME NEW r, NEW j, NEW m \in Task, Possible(r, j, m),
         m.op \in {"ask", "answer", "admit", "leave", "list", "unlist"}
  PROVE  Calm(r, Update(r, m))
<1>1. Maplike(r) /\ m.group \in DOMAIN r.grouptomap
  BY DEF Possible, Ready, ByGroup
<1>2. \E v : Parts(Update(r, m), r.usertomap, [r.grouptomap EXCEPT ![m.group] = v],
                   r.filetomap, r.heap, r.loggedin)
  <2>1. CASE m.op = "ask"
    BY <1>1, <2>1, AskDone
  <2>2. CASE m.op = "answer"
    BY <1>1, <2>2, AnswerDone
  <2>3. CASE m.op = "admit"
    BY <1>1, <2>3, AdmitDone
  <2>4. CASE m.op = "leave"
    BY <1>1, <2>4, LeaveDone
  <2>5. CASE m.op = "list"
    BY <1>1, <2>5, ListDone
  <2>6. CASE m.op = "unlist"
    BY <1>1, <2>6, UnlistDone
  <2> QED BY <2>1, <2>2, <2>3, <2>4, <2>5, <2>6
<1> QED BY <1>2 DEF Parts, Calm

LEMMA CalmRecord ==
  ASSUME NEW r, NEW j, NEW m \in Task, Possible(r, j, m),
         m.op \in {"share", "share_at", "unshare", "unshare_at"}
  PROVE  Calm(r, Update(r, m))
<1>1. Maplike(r) /\ m.object \in DOMAIN r.heap
  BY DEF Possible, Within, ByObject, OnRecord
<1>2. \E v : /\ v.filename = r.heap[m.object].filename
             /\ Parts(Update(r, m), r.usertomap, r.grouptomap, r.filetomap,
                      [r.heap EXCEPT ![m.object] = v], r.loggedin)
  <2>1. CASE m.op = "share"
    BY <1>1, <2>1, ShareDone DEF Rerecorded
  <2>2. CASE m.op = "share_at"
    BY <1>1, <2>2, ShareAtDone DEF Rerecorded
  <2>3. CASE m.op = "unshare"
    BY <1>1, <2>3, UnshareDone DEF Rerecorded
  <2>4. CASE m.op = "unshare_at"
    BY <1>1, <2>4, UnshareAtDone DEF Rerecorded
  <2> QED BY <2>1, <2>2, <2>3, <2>4
<1> QED BY <1>2 DEF Parts, Calm

LEMMA CalmUpdate ==
  ASSUME NEW r, NEW j, NEW m \in Task, Possible(r, j, m), m.op # "size", m.op \notin Stirs
  PROVE  Calm(r, Update(r, m))
  BY TaskParts, CalmAccount, CalmGroup, CalmRecord DEF OnAccount, OnGroup, OnRecord, Stirs

LEMMA CalmSpares ==
  ASSUME NEW r, NEW s, NEW j, Calm(r, s)
  PROVE  Spares(r, s, j)
  BY DEF Calm, Spares

(* An update within one job spares the jobs that do not overlap with it.   *)
LEMMA UpdateSpares ==
  ASSUME NEW r, NEW i, NEW j, NEW m \in Task, Possible(r, i, m), m.op # "size", ~Overlap(i, j)
  PROVE  Spares(r, Update(r, m), j)
<1>1. /\ \A u : ~(u \in i.users /\ u \in j.users)
      /\ \A f : ~(f \in i.files /\ f \in j.files)
      /\ \A g : ~(g \in i.founds /\ g \in j.founds)
  BY DEF Overlap
<1>2. Maplike(r)
  BY DEF Possible
<1>3. CASE m.op = "new_user"
  <2>1. m.user \notin DOMAIN r.usertomap /\ m.user \notin j.users
    BY <1>1, <1>3 DEF Possible, Within, Ready, ByUser
  <2>2. Parts(Update(r, m), Put(r.usertomap, m.user, m.record), r.grouptomap, r.filetomap, r.heap, r.loggedin)
    BY <1>2, <1>3, <2>1, NewUserDone
  <2>3. DOMAIN Put(r.usertomap, m.user, m.record) = DOMAIN r.usertomap \cup {m.user}
    BY DEF Put
  <2> QED BY <2>1, <2>2, <2>3 DEF Parts, Spares
<1>4. CASE m.op = "new_group"
  <2>1. m.group \notin DOMAIN r.grouptomap /\ m.group \notin j.founds
    BY <1>1, <1>4 DEF Possible, Within, Ready
  <2>2. Parts(Update(r, m), r.usertomap, Put(r.grouptomap, m.group, m.record), r.filetomap, r.heap, r.loggedin)
    BY <1>2, <1>4, <2>1, NewGroupDone
  <2>3. DOMAIN Put(r.grouptomap, m.group, m.record) = DOMAIN r.grouptomap \cup {m.group}
    BY DEF Put
  <2> QED BY <2>1, <2>2, <2>3 DEF Parts, Spares
<1>5. CASE m.op = "new_file"
  <2>1. m.file \notin DOMAIN r.filetomap /\ m.file \notin j.files
    BY <1>1, <1>5 DEF Possible, Within, Ready, ByFile
  <2>2. Parts(Update(r, m), r.usertomap, r.grouptomap, Put(r.filetomap, m.file, m.object), r.heap, r.loggedin)
    BY <1>2, <1>5, <2>1, NewFileDone
  <2>3. /\ DOMAIN Put(r.filetomap, m.file, m.object) = DOMAIN r.filetomap \cup {m.file}
        /\ \A f \in DOMAIN r.filetomap : f # m.file =>
              Put(r.filetomap, m.file, m.object)[f] = r.filetomap[f]
    BY DEF Put
  <2> QED BY <2>1, <2>2, <2>3 DEF Parts, Spares
<1>6. CASE m.op = "erase_file"
  <2> DEFINE name == r.heap[m.object].filename
  <2>1. name \notin j.files
    BY <1>1, <1>6 DEF Possible, Within, ByObject, OnRecord
  <2>2. Parts(Update(r, m), r.usertomap, r.grouptomap, Erase(r.filetomap, name), r.heap, r.loggedin)
    BY <1>2, <1>6, EraseFileDone
  <2> HIDE DEF name
  <2>3. /\ DOMAIN Erase(r.filetomap, name) = DOMAIN r.filetomap \ {name}
        /\ \A f \in DOMAIN r.filetomap : f # name => Erase(r.filetomap, name)[f] = r.filetomap[f]
    BY DEF Erase
  <2> QED BY <2>1, <2>2, <2>3 DEF Parts, Spares
<1>7. CASE m.op = "delete"
  <2>1. r.heap[m.object].filename \notin j.files
    BY <1>1, <1>7 DEF Possible, Within, ByObject, OnRecord
  <2>2. Parts(Update(r, m), r.usertomap, r.grouptomap, r.filetomap, Erase(r.heap, m.object), r.loggedin)
    BY <1>2, <1>7, DeleteDone
  <2>3. /\ DOMAIN Erase(r.heap, m.object) = DOMAIN r.heap \ {m.object}
        /\ \A o \in DOMAIN r.heap : o # m.object => Erase(r.heap, m.object)[o] = r.heap[o]
    BY DEF Erase
  <2> QED BY <2>1, <2>2, <2>3 DEF Parts, Spares
<1>8. CASE m.op \notin Stirs
  BY <1>8, CalmUpdate, CalmSpares
<1> QED BY <1>3, <1>4, <1>5, <1>6, <1>7, <1>8 DEF Stirs

(* The rest of a plan stays fit when its first update has been made.       *)
LEMMA RestFits ==
  ASSUME NEW r, NEW j, NEW m \in Task, NEW P, Maplike(r), Fit(P \cup {m}, r, j),
         Relies(m) \subseteq DOMAIN r.usertomap,
         m.op # "size", \A n \in P : n.op \in Later(m.op)
  PROVE  Fit(P, Update(r, m), j)
<1> DEFINE s == Update(r, m)
<1>1. Possible(r, j, m)
  BY DEF Possible, Fit
<1>2. \A n \in P : Within(n, r, j) /\ Ready(n, r)
  BY DEF Fit
<1>3. Linked(P \cup {m}, r)
  BY DEF Fit
<1>4. CASE m.op \notin Stirs
  <2>1. Calm(r, s)
    BY <1>1, <1>4, CalmUpdate
  <2>2. m.op # "new_user" /\ m.op # "erase_file"
    BY <1>4 DEF Stirs
  <2>3. Linked(P, r)
    <3>1. ASSUME NEW n \in P, n.op = "log_in"
          PROVE  n.user \in DOMAIN r.usertomap \/ \E k \in P : k.op = "new_user" /\ k.user = n.user
      <4>1. n \in P \cup {m}
        OBVIOUS
      <4> QED BY <1>3, <2>2, <3>1, <4>1 DEF Linked
    <3>2. ASSUME NEW n \in P, n.op = "delete"
          PROVE  \/ r.heap[n.object].filename \notin DOMAIN r.filetomap
                 \/ \E k \in P : k.op = "erase_file" /\ k.object = n.object
      <4>1. n \in P \cup {m}
        OBVIOUS
      <4> QED BY <1>3, <2>2, <3>2, <4>1 DEF Linked
    <3> QED BY <3>1, <3>2 DEF Linked
  <2>4. Fit(P, r, j)
    BY <1>2, <2>3 DEF Fit
  <2> QED BY <2>1, <2>4, CalmSpares, FitStable
<1>5. CASE m.op = "new_user"
  <2>1. m.user \notin DOMAIN r.usertomap
    BY <1>1, <1>5 DEF Possible, Ready
  <2>2. Parts(s, Put(r.usertomap, m.user, m.record), r.grouptomap, r.filetomap, r.heap, r.loggedin)
    BY <1>5, <2>1, NewUserDone
  <2>3. DOMAIN s.usertomap = DOMAIN r.usertomap \cup {m.user}
    BY <2>2 DEF Parts, Put
  <2>4. \A n \in P : n.op = "log_in"
    BY <1>5 DEF Later
  <2> HIDE DEF s
  <2>5. \A n \in P : Within(n, s, j) /\ Ready(n, s)
    BY <1>2, <2>4 DEF Within, Ready, ByUser, ByFile, ByObject, OnRecord, ByGroup
  <2>6. Linked(P, s)
    <3>1. ASSUME NEW n \in P PROVE n.user \in DOMAIN s.usertomap
      <4>1. n.op = "log_in" /\ n \in P \cup {m}
        BY <2>4
      <4>2. \A k \in P \cup {m} : k.op = "new_user" => k = m
        BY <2>4
      <4>3. n.user \in DOMAIN r.usertomap \/ \E k \in P \cup {m} : k.op = "new_user" /\ k.user = n.user
        BY <1>3, <4>1 DEF Linked
      <4> QED BY <2>3, <4>2, <4>3
    <3> QED BY <2>4, <3>1 DEF Linked
  <2>7. Fit(P, s, j)
    BY <2>5, <2>6 DEF Fit
  <2> QED BY <2>7 DEF s
<1>6. CASE m.op = "new_group"
  <2>1. \A n \in P : n.op = "own"
    BY <1>6 DEF Later
  <2> HIDE DEF s
  <2>2. \A n \in P : Within(n, s, j) /\ Ready(n, s)
    BY <1>2, <2>1 DEF Within, Ready, ByUser, ByFile, ByObject, OnRecord, ByGroup
  <2>3. Fit(P, s, j)
    BY <2>1, <2>2 DEF Fit, Linked
  <2> QED BY <2>3 DEF s
<1>7. CASE m.op = "new_file"
  <2>1. m.file \notin DOMAIN r.filetomap
    BY <1>1, <1>7 DEF Possible, Ready
  <2>2. Parts(s, r.usertomap, r.grouptomap, Put(r.filetomap, m.file, m.object), r.heap, r.loggedin)
    BY <1>7, <2>1, NewFileDone
  <2>3. \A n \in P : n.op = "list"
    BY <1>7 DEF Later
  <2> HIDE DEF s
  <2>4. \A n \in P : Within(n, s, j) /\ Ready(n, s)
    BY <1>2, <2>2, <2>3 DEF Parts, Within, Ready, ByUser, ByFile, ByObject, OnRecord, ByGroup
  <2>5. Fit(P, s, j)
    BY <2>3, <2>4 DEF Fit, Linked
  <2> QED BY <2>5 DEF s
<1>8. CASE m.op = "erase_file"
  <2> DEFINE name == r.heap[m.object].filename
  <2>1. Parts(s, r.usertomap, r.grouptomap, Erase(r.filetomap, name), r.heap, r.loggedin)
    BY <1>8, EraseFileDone
  <2>2. \A n \in P : n.op \in {"unlist", "delete"}
    BY <1>8 DEF Later
  <2> HIDE DEF s
  <2>3. \A n \in P : Within(n, s, j) /\ Ready(n, s)
    BY <1>2, <2>1, <2>2 DEF Parts, Within, Ready, ByUser, ByFile, ByObject, OnRecord, ByGroup
  <2>4. Linked(P, s)
    <3>1. ASSUME NEW n \in P, n.op = "delete"
          PROVE  s.heap[n.object].filename \notin DOMAIN s.filetomap
      <4>1. n \in P \cup {m}
        OBVIOUS
      <4>2. \A k \in P \cup {m} : k.op = "erase_file" => k = m
        BY <2>2
      <4>3. \/ r.heap[n.object].filename \notin DOMAIN r.filetomap
            \/ \E k \in P \cup {m} : k.op = "erase_file" /\ k.object = n.object
        BY <1>3, <3>1, <4>1 DEF Linked
      <4>4. s.heap = r.heap /\ DOMAIN s.filetomap = DOMAIN r.filetomap \ {name}
        BY <2>1 DEF Parts, Erase
      <4> QED BY <4>2, <4>3, <4>4
    <3> QED BY <2>2, <3>1 DEF Linked
  <2>5. Fit(P, s, j)
    BY <2>3, <2>4 DEF Fit
  <2> QED BY <2>5 DEF s
<1>9. CASE m.op = "delete"
  <2>1. P = {}
    BY <1>9 DEF Later
  <2> QED BY <2>1 DEF Fit, Linked
<1> QED BY <1>4, <1>5, <1>6, <1>7, <1>8, <1>9 DEF Stirs

LEMMA LoginsStay ==
  ASSUME NEW r, NEW j, NEW m \in Task, Possible(r, j, m), m.op # "size", m.op \notin Stirs,
         m.op # "log_in", m.op # "log_out"
  PROVE  Update(r, m).loggedin = r.loggedin
<1>1. Maplike(r)
  BY DEF Possible
<1>2. CASE m.op = "move"
  BY <1>1, <1>2, MoveDone DEF Parts
<1>3. CASE m.op = "own"
  <2>1. m.user \in DOMAIN r.usertomap
    BY <1>3 DEF Possible, Relies
  <2> QED BY <1>1, <1>3, <2>1, OwnDone DEF Parts
<1>4. CASE m.op \in {"ask", "answer", "admit", "leave", "list", "unlist"}
  <2>1. m.group \in DOMAIN r.grouptomap
    BY <1>4 DEF Possible, Ready, ByGroup
  <2>2. CASE m.op = "ask"
    BY <1>1, <2>1, <2>2, AskDone DEF Parts
  <2>3. CASE m.op = "answer"
    BY <1>1, <2>1, <2>3, AnswerDone DEF Parts
  <2>4. CASE m.op = "admit"
    BY <1>1, <2>1, <2>4, AdmitDone DEF Parts
  <2>5. CASE m.op = "leave"
    BY <1>1, <2>1, <2>5, LeaveDone DEF Parts
  <2>6. CASE m.op = "list"
    BY <1>1, <2>1, <2>6, ListDone DEF Parts
  <2>7. CASE m.op = "unlist"
    BY <1>1, <2>1, <2>7, UnlistDone DEF Parts
  <2> QED BY <1>4, <2>2, <2>3, <2>4, <2>5, <2>6, <2>7
<1>5. CASE m.op \in {"share", "share_at", "unshare", "unshare_at"}
  <2>1. m.object \in DOMAIN r.heap
    BY <1>5 DEF Possible, Within, ByObject, OnRecord
  <2>2. CASE m.op = "share"
    BY <1>1, <2>1, <2>2, ShareDone DEF Parts
  <2>3. CASE m.op = "share_at"
    BY <1>1, <2>1, <2>3, ShareAtDone DEF Parts
  <2>4. CASE m.op = "unshare"
    BY <1>1, <2>1, <2>4, UnshareDone DEF Parts
  <2>5. CASE m.op = "unshare_at"
    BY <1>1, <2>1, <2>5, UnshareAtDone DEF Parts
  <2> QED BY <1>5, <2>2, <2>3, <2>4, <2>5
<1> QED BY <1>2, <1>3, <1>4, <1>5, TaskParts DEF OnAccount, OnGroup, OnRecord, Stirs

(* The maps keep leading to what is there.                                 *)
LEMMA KeptOn ==
  ASSUME NEW r, NEW j, NEW m \in Task, NEW P, Maplike(r), Kept(r), Fit(P \cup {m}, r, j),
         Relies(m) \subseteq DOMAIN r.usertomap,
         m.op # "size", \A n \in P : n.op \in Later(m.op)
  PROVE  Kept(Update(r, m))
<1> DEFINE s == Update(r, m)
<1>1. Possible(r, j, m)
  BY DEF Possible, Fit
<1>2. Linked(P \cup {m}, r)
  BY DEF Fit
<1>3. CASE m.op \notin Stirs
  <2>1. Calm(r, s)
    BY <1>1, <1>3, CalmUpdate
  <2>2. s.loggedin \subseteq DOMAIN r.usertomap
    <3>1. CASE m.op = "log_in"
      <4>1. s.loggedin = r.loggedin \cup {m.user}
        BY <3>1, LogInDone DEF Parts
      <4>2. \A n \in P \cup {m} : n.op # "new_user"
        BY <3>1 DEF Later
      <4>3. m.user \in DOMAIN r.usertomap
        BY <1>2, <3>1, <4>2 DEF Linked
      <4> QED BY <4>1, <4>3 DEF Kept
    <3>2. CASE m.op = "log_out"
      <4>1. s.loggedin = r.loggedin \ {m.user}
        BY <3>2, LogOutDone DEF Parts
      <4> QED BY <4>1 DEF Kept
    <3>3. CASE m.op # "log_in" /\ m.op # "log_out"
      <4>1. s.loggedin = r.loggedin
        BY <1>1, <1>3, <3>3, LoginsStay
      <4> QED BY <4>1 DEF Kept
    <3> QED BY <3>1, <3>2, <3>3
  <2> QED BY <2>1, <2>2 DEF Calm, Kept
<1>4. CASE m.op = "new_user"
  <2>1. m.user \notin DOMAIN r.usertomap
    BY <1>1, <1>4 DEF Possible, Ready
  <2>2. Parts(s, Put(r.usertomap, m.user, m.record), r.grouptomap, r.filetomap, r.heap, r.loggedin)
    BY <1>4, <2>1, NewUserDone
  <2> QED BY <2>2 DEF Parts, Put, Kept
<1>5. CASE m.op = "new_group"
  <2>1. m.group \notin DOMAIN r.grouptomap
    BY <1>1, <1>5 DEF Possible, Ready
  <2>2. Parts(s, r.usertomap, Put(r.grouptomap, m.group, m.record), r.filetomap, r.heap, r.loggedin)
    BY <1>5, <2>1, NewGroupDone
  <2> QED BY <2>2 DEF Parts, Kept
<1>6. CASE m.op = "new_file"
  <2>1. m.file \notin DOMAIN r.filetomap /\ r.heap[m.object].filename = m.file
    BY <1>1, <1>6 DEF Possible, Ready
  <2>2. Parts(s, r.usertomap, r.grouptomap, Put(r.filetomap, m.file, m.object), r.heap, r.loggedin)
    BY <1>6, <2>1, NewFileDone
  <2>3. m.object \in DOMAIN r.heap
    BY <1>1, <1>6 DEF Possible, Within, ByObject
  <2> QED BY <2>1, <2>2, <2>3 DEF Parts, Put, Kept
<1>7. CASE m.op = "erase_file"
  <2> DEFINE name == r.heap[m.object].filename
  <2>1. Parts(s, r.usertomap, r.grouptomap, Erase(r.filetomap, name), r.heap, r.loggedin)
    BY <1>7, EraseFileDone
  <2> QED BY <2>1 DEF Parts, Erase, Kept
<1>8. CASE m.op = "delete"
  <2>1. P = {}
    BY <1>8 DEF Later
  <2>2. r.heap[m.object].filename \notin DOMAIN r.filetomap
    BY <1>2, <1>8, <2>1 DEF Linked
  <2>3. Parts(s, r.usertomap, r.grouptomap, r.filetomap, Erase(r.heap, m.object), r.loggedin)
    BY <1>8, DeleteDone
  <2>4. \A f \in DOMAIN r.filetomap : r.filetomap[f] # m.object
    BY <2>2 DEF Kept
  <2> QED BY <2>3, <2>4 DEF Parts, Erase, Kept
<1> QED BY <1>3, <1>4, <1>5, <1>6, <1>7, <1>8 DEF Stirs

-----------------------------------------------------------------------------
(* Handlers that are apart *)

(* As long as nothing clashed: the maps lead to what is there, the jobs of *)
(* the handlers are apart, and each can carry out its plan.                *)
Apart ==
  /\ Kept(reg)
  /\ \A s, t \in Threads : s # t => ~Overlap(job[s], job[t])
  /\ \A t \in Threads : Ordered(todo[t]) /\ Fit(Left(t), reg, job[t])

SetOf(plan) == {plan[i] : i \in DOMAIN plan}

Others(t) == UNION {Left(s) : s \in Threads \ {t}}

LEMMA SetOfOne ==
  ASSUME NEW a
  PROVE  SetOf(<<a>>) = {a}
  BY DEF SetOf

LEMMA SetOfTwo ==
  ASSUME NEW a, NEW b
  PROVE  SetOf(<<a, b>>) = {a, b}
  BY DEF SetOf

LEMMA SetOfThree ==
  ASSUME NEW a, NEW b, NEW c
  PROVE  SetOf(<<a, b, c>>) = {a, b, c}
  BY DEF SetOf

LEMMA SetOfRest ==
  ASSUME NEW plan \in Seq(Task), plan # <<>>, Ordered(plan)
  PROVE  /\ SetOf(plan) = SetOf(Tail(plan)) \cup {Head(plan)}
         /\ \A n \in SetOf(Tail(plan)) : n.op \in Later(Head(plan).op)
         /\ Ordered(Tail(plan))
         /\ Tail(plan) \in Seq(Task)
<1>1. /\ DOMAIN plan = 1..Len(plan) /\ Len(plan) \in Nat /\ Len(plan) > 0
      /\ Head(plan) = plan[1] /\ Tail(plan) \in Seq(Task)
      /\ DOMAIN Tail(plan) = 1..(Len(plan) - 1)
  OBVIOUS
<1>2. \A i \in 1..(Len(plan) - 1) : Tail(plan)[i] = plan[i + 1]
  OBVIOUS
<1>3. SetOf(plan) \subseteq SetOf(Tail(plan)) \cup {Head(plan)}
  <2>1. ASSUME NEW i \in 1..Len(plan) PROVE plan[i] \in SetOf(Tail(plan)) \cup {Head(plan)}
    <3>1. CASE i = 1
      BY <1>1, <3>1
    <3>2. CASE i # 1
      <4>1. i - 1 \in 1..(Len(plan) - 1) /\ (i - 1) + 1 = i
        BY <1>1, <2>1, <3>2
      <4>2. plan[i] = Tail(plan)[i - 1]
        BY <1>2, <4>1
      <4> QED BY <1>1, <4>1, <4>2 DEF SetOf
    <3> QED BY <3>1, <3>2
  <2> QED BY <1>1, <2>1 DEF SetOf
<1>4. SetOf(Tail(plan)) \cup {Head(plan)} \subseteq SetOf(plan)
  <2>1. \A i \in 1..(Len(plan) - 1) : i + 1 \in 1..Len(plan)
    BY <1>1
  <2>2. 1 \in 1..Len(plan)
    BY <1>1
  <2> QED BY <1>1, <1>2, <2>1, <2>2 DEF SetOf
<1>5. ASSUME NEW i \in 1..(Len(plan) - 1) PROVE Tail(plan)[i].op \in Later(Head(plan).op)
  <2>1. 1 \in DOMAIN plan /\ i + 1 \in DOMAIN plan /\ 1 < i + 1
    BY <1>1, <1>5
  <2> QED BY <1>1, <1>2, <2>1 DEF Ordered
<1>6. Ordered(Tail(plan))
  <2>1. ASSUME NEW i \in 1..(Len(plan) - 1), NEW k \in 1..(Len(plan) - 1), i < k
        PROVE  Tail(plan)[k].op \in Later(Tail(plan)[i].op)
    <3>1. i + 1 \in DOMAIN plan /\ k + 1 \in DOMAIN plan /\ i + 1 < k + 1
      BY <1>1, <2>1
    <3> QED BY <1>2, <3>1 DEF Ordered
  <2> QED BY <1>1, <2>1 DEF Ordered
<1> QED BY <1>1, <1>3, <1>4, <1>5, <1>6 DEF SetOf

LEMMA PendingIs ==
  ASSUME NEW t \in Threads
  PROVE  Pending = Others(t) \cup Left(t)
  BY DEF Pending, Others

LEMMA PendingAfter ==
  ASSUME DOMAIN todo = Threads, NEW t \in Threads, NEW plan, todo' = [todo EXCEPT ![t] = plan]
  PROVE  /\ Left(t)' = SetOf(plan)
         /\ \A s \in Threads : s # t => Left(s)' = Left(s)
         /\ Pending' = Others(t) \cup SetOf(plan)
<1>1. Left(t)' = SetOf(plan)
  BY DEF Left, SetOf
<1>2. \A s \in Threads : s # t => Left(s)' = Left(s)
  BY DEF Left
<1>3. Pending' = UNION {Left(s)' : s \in Threads}
  BY DEF Pending
<1>4. \A x : x \in Pending' <=> x \in Others(t) \cup SetOf(plan)
  BY <1>1, <1>2, <1>3 DEF Others
<1> QED BY <1>1, <1>2, <1>4

LEMMA AwayFrom ==
  ASSUME NEW T \in SUBSET Threads, NEW j,
         \A s \in T : ~Overlap(job[s], j), \A s \in T : Fit(Left(s), reg, job[s])
  PROVE  Away(UNION {Left(s) : s \in T}, reg, j.users, j.files, j.founds)
<1>1. ASSUME NEW s \in T, NEW n \in Left(s)
      PROVE  /\ n.op \in ByUser => n.user \notin j.users
             /\ n.op \in ByFile => n.file \notin j.files
             /\ n.op \in ByObject =>
                  n.object \in DOMAIN reg.heap /\ reg.heap[n.object].filename \notin j.files
             /\ n.op = "new_group" => n.group \notin j.founds
             /\ n.op \in ByGroup => n.group \in DOMAIN reg.grouptomap
  <2>1. Within(n, reg, job[s]) /\ Ready(n, reg)
    BY <1>1 DEF Fit
  <2>2. /\ \A u : ~(u \in job[s].users /\ u \in j.users)
        /\ \A f : ~(f \in job[s].files /\ f \in j.files)
        /\ \A g : ~(g \in job[s].founds /\ g \in j.founds)
    BY DEF Overlap
  <2> QED BY <2>1, <2>2 DEF Within, Ready
<1> QED BY <1>1 DEF Away

(* No handler is about anything the one with the job of thread t is about. *)
LEMMA OthersAway ==
  ASSUME Apart, NEW t \in Threads
  PROVE  Away(Others(t), reg, job[t].users, job[t].files, job[t].founds)
<1>1. \A s \in Threads \ {t} : ~Overlap(job[s], job[t]) /\ Fit(Left(s), reg, job[s])
  BY DEF Apart
<1> DEFINE T == Threads \ {t}
<1>2. T \in SUBSET Threads /\ \A s \in T : ~Overlap(job[s], job[t]) /\ Fit(Left(s), reg, job[s])
  BY <1>1
<1>3. Others(t) = UNION {Left(s) : s \in T}
  BY DEF Others
<1> HIDE DEF T
<1> QED BY <1>2, <1>3, AwayFrom

LEMMA OverlapIsMutual ==
  ASSUME NEW i, NEW j, ~Overlap(i, j)
  PROVE  ~Overlap(j, i)
  BY DEF Overlap

LEMMA NoJobIsApart ==
  ASSUME NEW j
  PROVE  ~Overlap(NoJob, j) /\ ~Overlap(j, NoJob)
  BY DEF Overlap, NoJob

LEMMA NothingFits ==
  ASSUME NEW r, NEW j
  PROVE  Fit({}, r, j)
  BY DEF Fit, Linked

-----------------------------------------------------------------------------
LEMMA BegunApart ==
  ASSUME ThreadsInvariant, Apart, NEW t \in Threads, NEW about, NEW plan, todo[t] = <<>>,
         todo' = [todo EXCEPT ![t] = plan], job' = [job EXCEPT ![t] = about],
         \A s \in Threads : ~Overlap(job[s], about),
         Kept(reg'), \A s \in Threads : Spares(reg, reg', job[s]),
         Ordered(plan), Fit(SetOf(plan), reg', about)
  PROVE  Apart'
<1>1. DOMAIN todo = Threads /\ DOMAIN job = Threads
  BY DEF ThreadsInvariant, JobsKept
<1>2. /\ Left(t)' = SetOf(plan)
      /\ \A s \in Threads : s # t => Left(s)' = Left(s)
  BY <1>1, PendingAfter
<1>3. \A s \in Threads : s # t => job'[s] = job[s] /\ todo'[s] = todo[s]
  BY <1>1
<1>4. job'[t] = about /\ todo'[t] = plan
  BY <1>1
<1>5. ASSUME NEW s \in Threads PROVE Ordered(todo'[s]) /\ Fit(Left(s)', reg', job'[s])
  <2>1. CASE s = t
    BY <1>2, <1>4, <2>1
  <2>2. CASE s # t
    <3>1. Ordered(todo[s]) /\ Fit(Left(s), reg, job[s])
      BY DEF Apart
    <3>2. Fit(Left(s), reg', job[s])
      BY <3>1, FitStable
    <3> QED BY <1>2, <1>3, <2>2, <3>1, <3>2
  <2> QED BY <2>1, <2>2
<1>6. ASSUME NEW s \in Threads, NEW q \in Threads, s # q PROVE ~Overlap(job'[s], job'[q])
  <2>1. CASE s = t
    BY <1>3, <1>4, <1>6, <2>1, OverlapIsMutual
  <2>2. CASE q = t
    BY <1>3, <1>4, <1>6, <2>2
  <2>3. CASE s # t /\ q # t
    BY <1>3, <1>6, <2>3 DEF Apart
  <2> QED BY <2>1, <2>2, <2>3
<1> QED BY <1>5, <1>6 DEF Apart

LEMMA ContinuedApart ==
  ASSUME ThreadsInvariant, Apart, NEW t \in Threads, NEW rest, Continue(t, rest),
         Kept(reg'), \A s \in Threads : s # t => Spares(reg, reg', job[s]),
         Ordered(rest), Fit(SetOf(rest), reg', job[t])
  PROVE  Apart'
<1>1. DOMAIN todo = Threads /\ DOMAIN job = Threads
  BY DEF ThreadsInvariant, JobsKept
<1>2. todo' = [todo EXCEPT ![t] = rest]
  BY DEF Continue
<1>3. /\ Left(t)' = SetOf(rest)
      /\ \A s \in Threads : s # t => Left(s)' = Left(s)
  BY <1>2, <1>1, PendingAfter
<1>4. \A s \in Threads : s # t => job'[s] = job[s] /\ todo'[s] = todo[s]
  BY <1>1 DEF Continue
<1>5. todo'[t] = rest /\ job'[t] = IF rest = <<>> THEN NoJob ELSE job[t]
  BY <1>1 DEF Continue
<1>6. ASSUME NEW s \in Threads PROVE Ordered(todo'[s]) /\ Fit(Left(s)', reg', job'[s])
  <2>1. CASE s = t /\ rest # <<>>
    BY <1>3, <1>5, <2>1
  <2>2. CASE s = t /\ rest = <<>>
    <3>1. SetOf(rest) = {}
      BY <2>2 DEF SetOf
    <3> QED BY <1>3, <1>5, <2>2, <3>1, NothingFits
  <2>3. CASE s # t
    <3>1. Ordered(todo[s]) /\ Fit(Left(s), reg, job[s])
      BY DEF Apart
    <3>2. Fit(Left(s), reg', job[s])
      BY <2>3, <3>1, FitStable
    <3> QED BY <1>3, <1>4, <2>3, <3>1, <3>2
  <2> QED BY <2>1, <2>2, <2>3
<1>7. ASSUME NEW s \in Threads, NEW q \in Threads, s # q PROVE ~Overlap(job'[s], job'[q])
  <2>1. ~Overlap(job[s], job[q])
    BY <1>7 DEF Apart
  <2>2. (job'[s] = job[s] \/ job'[s] = NoJob) /\ (job'[q] = job[q] \/ job'[q] = NoJob)
    BY <1>4, <1>5
  <2> QED BY <2>1, <2>2, NoJobIsApart
<1> QED BY <1>6, <1>7 DEF Apart

LEMMA SparesItself ==
  ASSUME NEW r, NEW j
  PROVE  Spares(r, r, j)
  BY DEF Spares

(* A handler that begins without a clash is about nothing that another is. *)
LEMMA BeginsAlone ==
  ASSUME ThreadsInvariant, Apart, NEW t \in Threads, NEW about, NEW plan, Begin(t, about, plan),
         clashes' = 0
  PROVE  /\ \A s \in Threads : ~Overlap(job[s], about)
         /\ todo[t] = <<>> /\ todo' = [todo EXCEPT ![t] = plan] /\ job' = [job EXCEPT ![t] = about]
         /\ Away(Pending, reg, about.users, about.files, about.founds)
         /\ Pending' = Pending \cup SetOf(plan)
<1>1. \A s \in Threads : ~Overlap(job[s], about)
  <2>1. clashes + 1 # 0
    BY ThreadsAssumption DEF ThreadsInvariant, JobsKept
  <2> QED BY <2>1 DEF Begin, Clash
<1>2. todo[t] = <<>> /\ todo' = [todo EXCEPT ![t] = plan] /\ job' = [job EXCEPT ![t] = about]
  BY DEF Begin
<1>3. Threads \in SUBSET Threads /\ \A s \in Threads : Fit(Left(s), reg, job[s])
  BY DEF Apart
<1>4. Away(Pending, reg, about.users, about.files, about.founds)
  BY <1>1, <1>3, AwayFrom DEF Pending
<1>5. Left(t) = {}
  BY <1>2 DEF Left
<1>6. Pending = Others(t)
  BY <1>5, PendingIs
<1>7. Pending' = Others(t) \cup SetOf(plan)
  BY <1>2, PendingAfter DEF ThreadsInvariant, JobsKept
<1> QED BY <1>1, <1>2, <1>4, <1>6, <1>7

(* A command that only looks when it begins.                               *)
LEMMA LooksApart ==
  ASSUME ThreadsInvariant, Apart, NEW t \in Threads, NEW about, NEW plan, Begin(t, about, plan),
         clashes' = 0, UNCHANGED reg, Ordered(plan), Fit(SetOf(plan), reg, about)
  PROVE  Apart'
<1>1. Kept(reg') /\ (\A s \in Threads : Spares(reg, reg', job[s])) /\ Fit(SetOf(plan), reg', about)
  BY SparesItself DEF Apart
<1>2. /\ \A s \in Threads : ~Overlap(job[s], about)
      /\ todo[t] = <<>> /\ todo' = [todo EXCEPT ![t] = plan] /\ job' = [job EXCEPT ![t] = about]
  BY BeginsAlone
<1> QED BY <1>1, <1>2, BegunApart

LEMMA OrderedOne ==
  ASSUME NEW a
  PROVE  Ordered(<<a>>)
  BY DEF Ordered

LEMMA OrderedTwo ==
  ASSUME NEW a, NEW b, b.op \in Later(a.op)
  PROVE  Ordered(<<a, b>>)
  BY DEF Ordered

LEMMA OrderedThree ==
  ASSUME NEW a, NEW b, NEW c, b.op \in Later(a.op), c.op \in Later(a.op), c.op \in Later(b.op)
  PROVE  Ordered(<<a, b, c>>)
<1>1. DOMAIN <<a, b, c>> = 1..3 /\ <<a, b, c>>[1] = a /\ <<a, b, c>>[2] = b /\ <<a, b, c>>[3] = c
  OBVIOUS
<1>2. \A i, k \in 1..3 : i < k => (i = 1 /\ k = 2) \/ (i = 1 /\ k = 3) \/ (i = 2 /\ k = 3)
  OBVIOUS
<1> QED BY <1>1, <1>2 DEF Ordered

-----------------------------------------------------------------------------
(* The commands, of handlers that are apart *)

Bars == <<usersBar, flagsBar, groupsBar, filesBar>>

LEMMA AboutIs ==
  ASSUME NEW us, NEW fs, NEW gs
  PROVE  About(us, fs, gs).users = us /\ About(us, fs, gs).files = fs /\ About(us, fs, gs).founds = gs
  BY DEF About

(* Tracker has its own instance of the operators on maps. *)
LEMMA MapsAlike ==
  ASSUME NEW f, NEW k, NEW v
  PROVE  Registry!Put(f, k, v) = Put(f, k, v) /\ Registry!Erase(f, k) = Erase(f, k)
  BY DEF Registry!Put, Put, Registry!Erase, Erase

LEMMA CreateUserApart ==
  ASSUME ThreadsInvariant, Apart, clashes' = 0, NEW t \in Threads, NEW u \in Users,
         NEW p \in Passwords, NEW a \in AddressesOf[u], create_user(t, u, p, a)
  PROVE  Apart' /\ Registry!create_user(u, p, a)
<1> DEFINE v == [password |-> p, address |-> a, groups |-> {}, mygroups |-> {}]
           m == [op |-> "new_user", user |-> u, record |-> v]
           n == [op |-> "log_in", user |-> u]
           about == About({u}, {}, {})
<1>1. /\ m.op = "new_user" /\ m.user = u /\ m.record = v
      /\ n.op = "log_in" /\ n.user = u
      /\ u \notin DOMAIN reg.usertomap /\ reg' = reg
      /\ Begin(t, about, <<m, n>>)
  BY DEF create_user, ToCreateUser
<1>2. about.users = {u} /\ about.files = {} /\ about.founds = {}
  BY AboutIs
<1> HIDE DEF m, n, about
<1>3. Fit({m, n}, reg, about)
  <2>1. Linked({m, n}, reg)
    BY <1>1 DEF Linked
  <2>2. Within(m, reg, about) /\ Within(n, reg, about)
    BY <1>1, <1>2 DEF Within, ByFile, ByObject, OnRecord
  <2>3. Ready(m, reg) /\ Ready(n, reg)
    BY <1>1 DEF Ready, ByGroup
  <2> QED BY <2>1, <2>2, <2>3 DEF Fit
<1>4. Ordered(<<m, n>>)
  BY <1>1, OrderedTwo DEF Later
<1>5. SetOf(<<m, n>>) = {m, n}
  BY SetOfTwo
<1>6. Apart'
  BY <1>1, <1>3, <1>4, <1>5, LooksApart
<1>7. /\ Away(Pending, reg, about.users, about.files, about.founds)
      /\ Pending' = Pending \cup SetOf(<<m, n>>)
  BY <1>1, BeginsAlone
<1>8. Away(Pending, reg, {u}, {}, {}) /\ Pending' = Pending \cup {m, n}
  BY <1>2, <1>5, <1>7
<1>9. /\ u \notin DOMAIN UsersAfter(reg, Pending)
      /\ Becomes(reg, Pending \cup {m, n}, Put(UsersAfter(reg, Pending), u, m.record),
                 Put(FlagsAfter(reg, Pending), u, TRUE), GroupsAfter(reg, Pending),
                 FilesAfter(reg, Pending))
  BY <1>1, <1>8, CreateUserBegins
<1>10. /\ u \notin DOMAIN usersBar
       /\ usersBar' = Put(usersBar, u, v)
       /\ flagsBar' = Put(flagsBar, u, TRUE)
       /\ groupsBar' = groupsBar /\ filesBar' = filesBar
  BY <1>1, <1>8, <1>9 DEF Becomes, usersBar, flagsBar, groupsBar, filesBar
<1>11. Registry!create_user(u, p, a)
  BY <1>10, MapsAlike DEF Registry!create_user, Registry!Registered
<1> QED BY <1>6, <1>11

(* What the commands see of an account is what it will be.                 *)
LEMMA AccountSeen ==
  ASSUME ThreadsInvariant, NEW us, NEW fs, NEW gs, Away(Pending, reg, us, fs, gs),
         NEW u \in us, u \in DOMAIN reg.usertomap
  PROVE  /\ reg.usertomap[u] \in User
         /\ u \in DOMAIN usersBar /\ usersBar[u] = reg.usertomap[u]
         /\ u \in DOMAIN flagsBar /\ flagsBar[u] = (u \in reg.loggedin)
<1>1. reg.usertomap[u] \in User
  BY DEF ThreadsInvariant, Maplike, IsMap
<1>2. u \in DOMAIN UsersAfter(reg, Pending) /\ UsersAfter(reg, Pending)[u] = reg.usertomap[u]
  BY <1>1, AccountNow
<1>3. u \in DOMAIN FlagsAfter(reg, Pending) /\ FlagsAfter(reg, Pending)[u] = (u \in reg.loggedin)
  BY FlagNow
<1> QED BY <1>1, <1>2, <1>3 DEF usersBar, flagsBar

LEMMA LoggedInSeen ==
  ASSUME ThreadsInvariant, NEW us, NEW fs, NEW gs, Away(Pending, reg, us, fs, gs),
         NEW u \in us, LoggedIn(u)
  PROVE  Registry!LoggedIn(u)
<1>1. u \in DOMAIN reg.usertomap /\ u \in reg.loggedin
  BY DEF LoggedIn
<1>2. u \in DOMAIN usersBar /\ flagsBar[u] = (u \in reg.loggedin)
  BY <1>1, AccountSeen
<1> QED BY <1>1, <1>2 DEF Registry!LoggedIn, Registry!Registered

LEMMA LoginRightApart ==
  ASSUME ThreadsInvariant, Apart, clashes' = 0, NEW t \in Threads, NEW u \in Users,
         NEW p \in Passwords, NEW a \in AddressesOf[u], login(t, u, p, a),
         p = reg.usertomap[u].password
  PROVE  Apart' /\ Registry!login(u, p, a)
<1> DEFINE m == [op |-> "log_in", user |-> u]
           n == [op |-> "move", user |-> u, address |-> a]
           about == About({u}, {}, {})
<1>1. /\ m.op = "log_in" /\ m.user = u
      /\ n.op = "move" /\ n.user = u /\ n.address = a
      /\ u \in DOMAIN reg.usertomap /\ reg' = reg
      /\ Begin(t, about, <<m, n>>)
  BY DEF login
<1>2. about.users = {u} /\ about.files = {} /\ about.founds = {}
  BY AboutIs
<1> HIDE DEF m, n, about
<1>3. Fit({m, n}, reg, about)
  <2>1. Linked({m, n}, reg)
    BY <1>1 DEF Linked
  <2>2. Within(m, reg, about) /\ Within(n, reg, about)
    BY <1>1, <1>2 DEF Within, ByFile, ByObject, OnRecord
  <2>3. Ready(m, reg) /\ Ready(n, reg)
    BY <1>1 DEF Ready, ByGroup
  <2> QED BY <2>1, <2>2, <2>3 DEF Fit
<1>4. Ordered(<<m, n>>)
  BY <1>1, OrderedTwo DEF Later
<1>5. SetOf(<<m, n>>) = {m, n}
  BY SetOfTwo
<1>6. Apart'
  BY <1>1, <1>3, <1>4, <1>5, LooksApart
<1>7. /\ Away(Pending, reg, about.users, about.files, about.founds)
      /\ Pending' = Pending \cup SetOf(<<m, n>>)
  BY <1>1, BeginsAlone
<1>8. Away(Pending, reg, {u}, {}, {}) /\ Pending' = Pending \cup {m, n}
  BY <1>2, <1>5, <1>7
<1>9. /\ reg.usertomap[u] \in User
      /\ u \in DOMAIN usersBar /\ usersBar[u] = reg.usertomap[u]
  <2>1. u \in {u}
    OBVIOUS
  <2> QED BY <1>1, <1>8, <2>1, AccountSeen
<1>10. Becomes(reg, Pending \cup {m, n}, [UsersAfter(reg, Pending) EXCEPT ![u].address = n.address],
               [FlagsAfter(reg, Pending) EXCEPT ![u] = TRUE], GroupsAfter(reg, Pending),
               FilesAfter(reg, Pending))
  BY <1>1, <1>8, <1>9, LoginBegins
<1>11. /\ usersBar' = [usersBar EXCEPT ![u].address = a]
       /\ flagsBar' = [flagsBar EXCEPT ![u] = TRUE]
       /\ groupsBar' = groupsBar /\ filesBar' = filesBar
  BY <1>1, <1>8, <1>10 DEF Becomes, usersBar, flagsBar, groupsBar, filesBar
<1>12. Registry!login(u, p, a)
  BY <1>9, <1>11 DEF Registry!login, Registry!Registered
<1> QED BY <1>6, <1>12

(* A wrong password, and logout, do the same.                              *)
LEMMA LogsOutApart ==
  ASSUME ThreadsInvariant, Apart, clashes' = 0, NEW t \in Threads, NEW u \in Users, NEW m,
         m.op = "log_out", m.user = u, UNCHANGED reg, Begin(t, About({u}, {}, {}), <<m>>)
  PROVE  /\ Apart'
         /\ Away(Pending, reg, {u}, {}, {})
         /\ flagsBar' = [flagsBar EXCEPT ![u] = FALSE]
         /\ usersBar' = usersBar /\ groupsBar' = groupsBar /\ filesBar' = filesBar
<1> DEFINE about == About({u}, {}, {})
<1>1. reg' = reg /\ Begin(t, about, <<m>>)
  OBVIOUS
<1>2. about.users = {u} /\ about.files = {} /\ about.founds = {}
  BY AboutIs
<1> HIDE DEF about
<1>3. Fit({m}, reg, about)
  <2>1. Linked({m}, reg)
    BY DEF Linked
  <2>2. Within(m, reg, about)
    BY <1>2 DEF Within, ByFile, ByObject, OnRecord
  <2>3. Ready(m, reg)
    BY DEF Ready, ByGroup
  <2> QED BY <2>1, <2>2, <2>3 DEF Fit
<1>4. Ordered(<<m>>) /\ SetOf(<<m>>) = {m}
  BY OrderedOne, SetOfOne
<1>5. Apart'
  BY <1>1, <1>3, <1>4, LooksApart
<1>6. /\ Away(Pending, reg, about.users, about.files, about.founds)
      /\ Pending' = Pending \cup SetOf(<<m>>)
  BY <1>1, BeginsAlone
<1>7. Away(Pending, reg, {u}, {}, {}) /\ Pending' = Pending \cup {m}
  BY <1>2, <1>4, <1>6
<1>8. Becomes(reg, Pending \cup {m}, UsersAfter(reg, Pending),
               [FlagsAfter(reg, Pending) EXCEPT ![m.user] = FALSE], GroupsAfter(reg, Pending),
               FilesAfter(reg, Pending))
  BY LogoutBegins
<1>9. /\ flagsBar' = [flagsBar EXCEPT ![u] = FALSE]
       /\ usersBar' = usersBar /\ groupsBar' = groupsBar /\ filesBar' = filesBar
  BY <1>1, <1>7, <1>8 DEF Becomes, usersBar, flagsBar, groupsBar, filesBar
<1> QED BY <1>5, <1>7, <1>9

LEMMA LoginWrongApart ==
  ASSUME ThreadsInvariant, Apart, clashes' = 0, NEW t \in Threads, NEW u \in Users,
         NEW p \in Passwords, NEW a \in AddressesOf[u], login(t, u, p, a),
         p # reg.usertomap[u].password
  PROVE  Apart' /\ Registry!login(u, p, a)
<1> DEFINE m == [op |-> "log_out", user |-> u]
<1>1. /\ m.op = "log_out" /\ m.user = u
      /\ u \in DOMAIN reg.usertomap /\ reg' = reg
      /\ Begin(t, About({u}, {}, {}), <<m>>)
  BY DEF login
<1> HIDE DEF m
<1>2. /\ Apart' /\ Away(Pending, reg, {u}, {}, {})
      /\ flagsBar' = [flagsBar EXCEPT ![u] = FALSE]
      /\ usersBar' = usersBar /\ groupsBar' = groupsBar /\ filesBar' = filesBar
  BY <1>1, LogsOutApart
<1>3. u \in DOMAIN usersBar /\ usersBar[u] = reg.usertomap[u]
  <2>1. u \in {u}
    OBVIOUS
  <2> QED BY <1>1, <1>2, <2>1, AccountSeen
<1>4. Registry!login(u, p, a)
  BY <1>2, <1>3 DEF Registry!login, Registry!Registered
<1> QED BY <1>2, <1>4

LEMMA LogoutApart ==
  ASSUME ThreadsInvariant, Apart, clashes' = 0, NEW t \in Threads, NEW u \in Users, logout(t, u)
  PROVE  Apart' /\ Registry!logout(u)
<1> DEFINE m == [op |-> "log_out", user |-> u]
<1>1. /\ m.op = "log_out" /\ m.user = u
      /\ u \in reg.loggedin /\ reg' = reg
      /\ Begin(t, About({u}, {}, {}), <<m>>)
  BY DEF logout
<1> HIDE DEF m
<1>2. /\ Apart' /\ Away(Pending, reg, {u}, {}, {})
      /\ flagsBar' = [flagsBar EXCEPT ![u] = FALSE]
      /\ usersBar' = usersBar /\ groupsBar' = groupsBar /\ filesBar' = filesBar
  BY <1>1, LogsOutApart
<1>3. u \in DOMAIN reg.usertomap
  BY <1>1 DEF Apart, Kept
<1>4. u \in DOMAIN flagsBar /\ flagsBar[u] = (u \in reg.loggedin)
  <2>1. u \in {u}
    OBVIOUS
  <2> QED BY <1>2, <1>3, <2>1, AccountSeen
<1>5. Registry!logout(u)
  BY <1>1, <1>2, <1>4 DEF Registry!logout
<1> QED BY <1>2, <1>5

LEMMA CreateGroupApart ==
  ASSUME ThreadsInvariant, Apart, clashes' = 0, NEW t \in Threads, NEW g \in Groups,
         NEW u \in Users, create_group(t, g, u)
  PROVE  Apart' /\ Registry!create_group(g, u)
<1> DEFINE v == [adminid |-> u, members |-> {u}, files |-> {}, requests |-> {}]
           m == [op |-> "new_group", group |-> g, record |-> v]
           n == [op |-> "own", user |-> u, group |-> g]
           about == About({u}, {}, {g})
<1>1. /\ m.op = "new_group" /\ m.group = g /\ m.record = v
      /\ n.op = "own" /\ n.user = u /\ n.group = g
      /\ LoggedIn(u) /\ g \notin DOMAIN reg.grouptomap /\ reg' = reg
      /\ Begin(t, about, <<m, n>>)
  BY DEF create_group, ToCreateGroup
<1>2. about.users = {u} /\ about.files = {} /\ about.founds = {g}
  BY AboutIs
<1> HIDE DEF m, n, about
<1>3. Fit({m, n}, reg, about)
  <2>1. Linked({m, n}, reg)
    BY <1>1 DEF Linked
  <2>2. Within(m, reg, about) /\ Within(n, reg, about)
    BY <1>1, <1>2 DEF Within, ByUser, ByFile, ByObject, OnRecord
  <2>3. Ready(m, reg) /\ Ready(n, reg)
    BY <1>1 DEF Ready, ByGroup
  <2> QED BY <2>1, <2>2, <2>3 DEF Fit
<1>4. Ordered(<<m, n>>)
  BY <1>1, OrderedTwo DEF Later
<1>5. SetOf(<<m, n>>) = {m, n}
  BY SetOfTwo
<1>6. Apart'
  BY <1>1, <1>3, <1>4, <1>5, LooksApart
<1>7. /\ Away(Pending, reg, about.users, about.files, about.founds)
      /\ Pending' = Pending \cup SetOf(<<m, n>>)
  BY <1>1, BeginsAlone
<1>8. Away(Pending, reg, {u}, {}, {g}) /\ Pending' = Pending \cup {m, n}
  BY <1>2, <1>5, <1>7
<1>9. u \in DOMAIN reg.usertomap /\ u \in {u}
  BY <1>1 DEF LoggedIn
<1>10. reg.usertomap[u] \in User
  BY <1>8, <1>9, AccountSeen
<1>11. Registry!LoggedIn(u)
  BY <1>1, <1>8, <1>9, LoggedInSeen
<1>12. /\ g \notin DOMAIN GroupsAfter(reg, Pending)
       /\ Becomes(reg, Pending \cup {m, n},
                  [UsersAfter(reg, Pending) EXCEPT ![u].groups = @ \cup {g}, ![u].mygroups = @ \cup {g}],
                  FlagsAfter(reg, Pending), Put(GroupsAfter(reg, Pending), g, m.record),
                  FilesAfter(reg, Pending))
  BY <1>1, <1>8, <1>9, <1>10, CreateGroupBegins
<1>13. /\ g \notin DOMAIN groupsBar
       /\ usersBar' = [usersBar EXCEPT ![u].groups = @ \cup {g}, ![u].mygroups = @ \cup {g}]
       /\ groupsBar' = Put(groupsBar, g, v)
       /\ flagsBar' = flagsBar /\ filesBar' = filesBar
  BY <1>1, <1>8, <1>12 DEF Becomes, usersBar, flagsBar, groupsBar, filesBar
<1>14. Registry!create_group(g, u)
  BY <1>11, <1>13, MapsAlike DEF Registry!create_group
<1> QED BY <1>6, <1>14

(* A group that is there is seen as it will be, but for what a handler     *)
(* that is about others may still do.                                      *)
LEMMA GroupSeen ==
  ASSUME NEW us, NEW fs, NEW gs, Away(Pending, reg, us, fs, gs), NEW g, g \in DOMAIN reg.grouptomap
  PROVE  /\ g \in DOMAIN groupsBar
         /\ groupsBar[g].adminid = reg.grouptomap[g].adminid
         /\ \A u \in us : u \in groupsBar[g].members <=> u \in reg.grouptomap[g].members
         /\ \A u \in us : u \in groupsBar[g].requests <=> u \in reg.grouptomap[g].requests
         /\ \A f \in fs : f \in groupsBar[g].files <=> f \in reg.grouptomap[g].files
  BY GroupNow DEF groupsBar

LEMMA JoinGroupApart ==
  ASSUME ThreadsInvariant, Apart, clashes' = 0, NEW t \in Threads, NEW g \in Groups,
         NEW u \in Users, join_group(t, g, u)
  PROVE  Apart' /\ Registry!join_group(g, u)
<1> DEFINE m == [op |-> "ask", group |-> g, user |-> u]
           about == About({u}, {}, {})
<1>1. /\ m.op = "ask" /\ m.group = g /\ m.user = u
      /\ LoggedIn(u) /\ g \in DOMAIN reg.grouptomap /\ u \notin reg.grouptomap[g].members
      /\ reg' = reg /\ Begin(t, about, <<m>>)
  BY DEF join_group, ToJoin, MayJoin, IsMember
<1>2. about.users = {u} /\ about.files = {} /\ about.founds = {}
  BY AboutIs
<1> HIDE DEF m, about
<1>3. Fit({m}, reg, about)
  <2>1. Linked({m}, reg)
    BY <1>1 DEF Linked
  <2>2. Within(m, reg, about)
    BY <1>1, <1>2 DEF Within, ByUser, ByFile, ByObject, OnRecord
  <2>3. Ready(m, reg)
    BY <1>1 DEF Ready, ByGroup
  <2> QED BY <2>1, <2>2, <2>3 DEF Fit
<1>4. Ordered(<<m>>) /\ SetOf(<<m>>) = {m}
  BY OrderedOne, SetOfOne
<1>5. Apart'
  BY <1>1, <1>3, <1>4, LooksApart
<1>6. /\ Away(Pending, reg, about.users, about.files, about.founds)
      /\ Pending' = Pending \cup SetOf(<<m>>)
  BY <1>1, BeginsAlone
<1>7. Away(Pending, reg, {u}, {}, {}) /\ Pending' = Pending \cup {m}
  BY <1>2, <1>4, <1>6
<1>8. u \in {u}
  OBVIOUS
<1>9. Registry!LoggedIn(u)
  BY <1>1, <1>7, <1>8, LoggedInSeen
<1>10. Becomes(reg, Pending \cup {m}, UsersAfter(reg, Pending), FlagsAfter(reg, Pending),
               [GroupsAfter(reg, Pending) EXCEPT ![g].requests = @ \cup {u}], FilesAfter(reg, Pending))
  BY <1>1, <1>7, AskBegins
<1>11. /\ groupsBar' = [groupsBar EXCEPT ![g].requests = @ \cup {u}]
       /\ usersBar' = usersBar /\ flagsBar' = flagsBar /\ filesBar' = filesBar
  BY <1>1, <1>7, <1>10 DEF Becomes, usersBar, flagsBar, groupsBar, filesBar
<1>12. g \in DOMAIN groupsBar /\ u \notin groupsBar[g].members
  BY <1>1, <1>7, <1>8, GroupSeen
<1>13. Registry!join_group(g, u)
  BY <1>9, <1>11, <1>12 DEF Registry!join_group, Registry!MayJoin, Registry!IsMember
<1> QED BY <1>5, <1>13

LEMMA LeaveGroupApart ==
  ASSUME ThreadsInvariant, Apart, clashes' = 0, NEW t \in Threads, NEW g \in Groups,
         NEW u \in Users, leave_group(t, g, u)
  PROVE  Apart' /\ Registry!leave_group(g, u)
<1> DEFINE m == [op |-> "leave", group |-> g, user |-> u]
           about == About({u}, {}, {})
<1>1. /\ m.op = "leave" /\ m.group = g /\ m.user = u
      /\ LoggedIn(u) /\ g \in DOMAIN reg.grouptomap /\ u \in reg.grouptomap[g].members
      /\ reg.grouptomap[g].adminid # u
      /\ reg' = reg /\ Begin(t, about, <<m>>)
  BY DEF leave_group, IsMember
<1>2. about.users = {u} /\ about.files = {} /\ about.founds = {}
  BY AboutIs
<1> HIDE DEF m, about
<1>3. Fit({m}, reg, about)
  <2>1. Linked({m}, reg)
    BY <1>1 DEF Linked
  <2>2. Within(m, reg, about)
    BY <1>1, <1>2 DEF Within, ByUser, ByFile, ByObject, OnRecord
  <2>3. Ready(m, reg)
    BY <1>1 DEF Ready, ByGroup
  <2> QED BY <2>1, <2>2, <2>3 DEF Fit
<1>4. Ordered(<<m>>) /\ SetOf(<<m>>) = {m}
  BY OrderedOne, SetOfOne
<1>5. Apart'
  BY <1>1, <1>3, <1>4, LooksApart
<1>6. /\ Away(Pending, reg, about.users, about.files, about.founds)
      /\ Pending' = Pending \cup SetOf(<<m>>)
  BY <1>1, BeginsAlone
<1>7. Away(Pending, reg, {u}, {}, {}) /\ Pending' = Pending \cup {m}
  BY <1>2, <1>4, <1>6
<1>8. u \in {u}
  OBVIOUS
<1>9. Registry!LoggedIn(u)
  BY <1>1, <1>7, <1>8, LoggedInSeen
<1>10. Becomes(reg, Pending \cup {m}, UsersAfter(reg, Pending), FlagsAfter(reg, Pending),
               [GroupsAfter(reg, Pending) EXCEPT ![g].members = @ \ {u}], FilesAfter(reg, Pending))
  BY <1>1, <1>7, LeaveBegins
<1>11. /\ groupsBar' = [groupsBar EXCEPT ![g].members = @ \ {u}]
       /\ usersBar' = usersBar /\ flagsBar' = flagsBar /\ filesBar' = filesBar
  BY <1>1, <1>7, <1>10 DEF Becomes, usersBar, flagsBar, groupsBar, filesBar
<1>12. /\ g \in DOMAIN groupsBar /\ u \in groupsBar[g].members
       /\ groupsBar[g].adminid # u
  BY <1>1, <1>7, <1>8, GroupSeen
<1>13. Registry!leave_group(g, u)
  BY <1>9, <1>11, <1>12 DEF Registry!leave_group, Registry!MayLeave, Registry!IsMember
<1> QED BY <1>5, <1>13

LEMMA AcceptRequestApart ==
  ASSUME ThreadsInvariant, Apart, clashes' = 0, NEW t \in Threads, NEW g \in Groups,
         NEW u \in Users, NEW admin \in Users, accept_request(t, g, u, admin)
  PROVE  Apart' /\ Registry!accept_request(g, u, admin)
<1> DEFINE m == [op |-> "answer", group |-> g, user |-> u]
           n == [op |-> "admit", group |-> g, user |-> u]
           us == {u, admin}
           about == About(us, {}, {})
<1>1. /\ m.op = "answer" /\ m.group = g /\ m.user = u
      /\ n.op = "admit" /\ n.group = g /\ n.user = u
      /\ u \in DOMAIN reg.usertomap /\ LoggedIn(admin)
      /\ g \in DOMAIN reg.grouptomap /\ u \in reg.grouptomap[g].requests
      /\ reg.grouptomap[g].adminid = admin
      /\ reg' = reg /\ Begin(t, about, <<m, n>>)
  BY DEF accept_request
<1>2. about.users = us /\ about.files = {} /\ about.founds = {}
  BY AboutIs
<1>3. u \in us /\ admin \in us
  OBVIOUS
<1> HIDE DEF m, n, us, about
<1>4. Fit({m, n}, reg, about)
  <2>1. Linked({m, n}, reg)
    BY <1>1 DEF Linked
  <2>2. Within(m, reg, about) /\ Within(n, reg, about)
    BY <1>1, <1>2, <1>3 DEF Within, ByUser, ByFile, ByObject, OnRecord
  <2>3. Ready(m, reg) /\ Ready(n, reg)
    BY <1>1 DEF Ready, ByGroup
  <2> QED BY <2>1, <2>2, <2>3 DEF Fit
<1>5. Ordered(<<m, n>>)
  BY <1>1, OrderedTwo DEF Later
<1>6. SetOf(<<m, n>>) = {m, n}
  BY SetOfTwo
<1>7. Apart'
  BY <1>1, <1>4, <1>5, <1>6, LooksApart
<1>8. /\ Away(Pending, reg, about.users, about.files, about.founds)
      /\ Pending' = Pending \cup SetOf(<<m, n>>)
  BY <1>1, BeginsAlone
<1>9. Away(Pending, reg, us, {}, {}) /\ Pending' = Pending \cup {m, n}
  BY <1>2, <1>6, <1>8
<1>10. Registry!Registered(u)
  BY <1>1, <1>9, <1>3, AccountSeen DEF Registry!Registered
<1>11. Registry!LoggedIn(admin)
  BY <1>1, <1>9, <1>3, LoggedInSeen
<1>12. Becomes(reg, Pending \cup {m, n}, UsersAfter(reg, Pending), FlagsAfter(reg, Pending),
               [GroupsAfter(reg, Pending) EXCEPT ![g].requests = @ \ {u}, ![g].members = @ \cup {u}],
               FilesAfter(reg, Pending))
  BY <1>1, <1>9, <1>3, AcceptBegins
<1>13. /\ groupsBar' = [groupsBar EXCEPT ![g].requests = @ \ {u}, ![g].members = @ \cup {u}]
       /\ usersBar' = usersBar /\ flagsBar' = flagsBar /\ filesBar' = filesBar
  BY <1>1, <1>9, <1>12 DEF Becomes, usersBar, flagsBar, groupsBar, filesBar
<1>14. /\ g \in DOMAIN groupsBar /\ u \in groupsBar[g].requests
       /\ groupsBar[g].adminid = admin
  BY <1>1, <1>9, <1>3, GroupSeen
<1>15. Registry!accept_request(g, u, admin)
  BY <1>10, <1>11, <1>13, <1>14 DEF Registry!accept_request, Registry!MayAccept, Registry!Admit
<1> QED BY <1>7, <1>15

(* A file that is there is seen as it is by who is about it.               *)
LEMMA FileSeen ==
  ASSUME Apart, NEW us, NEW f, NEW gs, Away(Pending, reg, us, {f}, gs), f \in DOMAIN reg.filetomap
  PROVE  /\ f \in DOMAIN filesBar
         /\ filesBar[f].userids = reg.heap[reg.filetomap[f]].userids
<1> DEFINE o == reg.filetomap[f]
<1>1. o \in DOMAIN reg.heap /\ reg.heap[o].filename \in {f}
  BY DEF Apart, Kept
<1>2. o = reg.filetomap[f]
  OBVIOUS
<1> HIDE DEF o
<1>3. Elsewhere(Pending, o)
  BY <1>1, AwayElsewhere
<1>4. /\ f \in DOMAIN FilesAfter(reg, Pending)
      /\ FilesAfter(reg, Pending)[f] = [userids |-> reg.heap[o].userids, users |-> reg.heap[o].users]
  BY <1>1, <1>2, <1>3, RecordNow
<1>5. FilesAfter(reg, Pending)[f].userids = reg.heap[o].userids
  BY <1>4
<1> QED BY <1>2, <1>4, <1>5 DEF filesBar

LEMMA ShareApart ==
  ASSUME ThreadsInvariant, Apart, clashes' = 0, NEW t \in Threads, NEW f \in Files, NEW g \in Groups,
         NEW u \in Users, LoggedIn(u), IsMember(g, u), IsFile(f), NEW o, o = reg.filetomap[f],
         UNCHANGED reg,
         Begin(t, About({u}, {f}, {}), <<[op |-> "share", object |-> o, user |-> u],
                                         [op |-> "share_at", object |-> o, user |-> u]>>)
  PROVE  Apart' /\ Registry!upload_file(f, g, u)
<1> DEFINE m == [op |-> "share", object |-> o, user |-> u]
           n == [op |-> "share_at", object |-> o, user |-> u]
           about == About({u}, {f}, {})
<1>1. /\ m.op = "share" /\ m.object = o /\ m.user = u
      /\ n.op = "share_at" /\ n.object = o /\ n.user = u
      /\ g \in DOMAIN reg.grouptomap /\ u \in reg.grouptomap[g].members
      /\ u \in DOMAIN reg.usertomap
      /\ f \in DOMAIN reg.filetomap /\ o \in DOMAIN reg.heap
      /\ reg' = reg /\ Begin(t, about, <<m, n>>)
  BY DEF IsMember, IsFile, LoggedIn
<1>2. about.users = {u} /\ about.files = {f} /\ about.founds = {}
  BY AboutIs
<1>3. reg.heap[o].filename = f
  BY <1>1 DEF Apart, Kept
<1> HIDE DEF m, n, about
<1>4. Fit({m, n}, reg, about)
  <2>1. Linked({m, n}, reg)
    BY <1>1 DEF Linked
  <2>2. Within(m, reg, about) /\ Within(n, reg, about)
    BY <1>1, <1>2, <1>3 DEF Within, ByUser, ByFile, ByObject, OnRecord
  <2>3. Ready(m, reg) /\ Ready(n, reg)
    BY <1>1 DEF Ready, ByGroup
  <2> QED BY <2>1, <2>2, <2>3 DEF Fit
<1>5. Ordered(<<m, n>>)
  BY <1>1, OrderedTwo DEF Later
<1>6. SetOf(<<m, n>>) = {m, n}
  BY SetOfTwo
<1>7. Apart'
  BY <1>1, <1>4, <1>5, <1>6, LooksApart
<1>8. /\ Away(Pending, reg, about.users, about.files, about.founds)
      /\ Pending' = Pending \cup SetOf(<<m, n>>)
  BY <1>1, BeginsAlone
<1>9. Away(Pending, reg, {u}, {f}, {}) /\ Pending' = Pending \cup {m, n}
  BY <1>2, <1>6, <1>8
<1>10. u \in {u}
  OBVIOUS
<1>11. reg.usertomap[u] \in User
  BY <1>1, <1>9, <1>10, AccountSeen
<1>12. Registry!LoggedIn(u)
  BY <1>1, <1>9, <1>10, LoggedInSeen
<1>13. Becomes(reg, Pending \cup {m, n}, UsersAfter(reg, Pending), FlagsAfter(reg, Pending),
               GroupsAfter(reg, Pending),
               [FilesAfter(reg, Pending) EXCEPT ![f].userids = @ \cup {u},
                                                ![f].users = @ \cup {UsersAfter(reg, Pending)[u].address}])
  BY <1>1, <1>9, <1>11, ShareBegins DEF Apart
<1>14. /\ filesBar' = [filesBar EXCEPT ![f].userids = @ \cup {u},
                                       ![f].users = @ \cup {usersBar[u].address}]
       /\ usersBar' = usersBar /\ flagsBar' = flagsBar /\ groupsBar' = groupsBar
  BY <1>1, <1>9, <1>13 DEF Becomes, usersBar, flagsBar, groupsBar, filesBar
<1>15. g \in DOMAIN groupsBar /\ u \in groupsBar[g].members
  BY <1>1, <1>9, <1>10, GroupSeen
<1>16. f \in DOMAIN filesBar
  BY <1>1, <1>9, FileSeen
<1>17. Registry!upload_file(f, g, u)
  BY <1>12, <1>14, <1>15, <1>16 DEF Registry!upload_file, Registry!AddSharer, Registry!IsMember
<1> QED BY <1>7, <1>17

LEMMA StopShareApart ==
  ASSUME ThreadsInvariant, Apart, clashes' = 0, NEW t \in Threads, NEW g \in Groups, NEW f \in Files,
         NEW u \in Users, stop_share(t, g, f, u)
  PROVE  Apart' /\ Registry!stop_share(g, f, u)
<1> DEFINE o == reg.filetomap[f]
           m == [op |-> "unshare", object |-> o, user |-> u]
           n == [op |-> "unshare_at", object |-> o, user |-> u]
           k == [op |-> "size", object |-> o, group |-> g]
           about == About({u}, {f}, {})
<1>1. /\ m.op = "unshare" /\ m.object = o /\ m.user = u
      /\ n.op = "unshare_at" /\ n.object = o /\ n.user = u
      /\ k.op = "size" /\ k.object = o /\ k.group = g
      /\ LoggedIn(u) /\ u \in DOMAIN reg.usertomap
      /\ g \in DOMAIN reg.grouptomap /\ u \in reg.grouptomap[g].members
      /\ f \in reg.grouptomap[g].files
      /\ f \in DOMAIN reg.filetomap /\ o = reg.filetomap[f] /\ o \in DOMAIN reg.heap
      /\ u \in reg.heap[o].userids
      /\ reg' = reg /\ Begin(t, about, <<m, n, k>>)
  BY DEF stop_share, IsMember, IsFile, LoggedIn
<1>2. reg.heap[o].filename = f
  BY <1>1 DEF Apart, Kept
<1> HIDE DEF m, n, k, o
<1>3. about.users = {u} /\ about.files = {f} /\ about.founds = {}
  BY Zenon DEF About
<1> HIDE DEF about
<1>4. Fit({m, n, k}, reg, about)
  <2>1. Linked({m, n, k}, reg)
    BY <1>1 DEF Linked
  <2>2. Within(m, reg, about) /\ Within(n, reg, about) /\ Within(k, reg, about)
    BY <1>1, <1>3, <1>2 DEF Within, ByUser, ByFile, ByObject, OnRecord
  <2>3. Ready(m, reg) /\ Ready(n, reg) /\ Ready(k, reg)
    BY <1>1, <1>2 DEF Ready, ByGroup
  <2> QED BY <2>1, <2>2, <2>3 DEF Fit
<1>5. Ordered(<<m, n, k>>)
  BY <1>1, OrderedThree DEF Later
<1>6. SetOf(<<m, n, k>>) = {m, n, k}
  BY SetOfThree
<1>7. Apart'
  BY <1>1, <1>4, <1>5, <1>6, LooksApart
<1>8. /\ Away(Pending, reg, about.users, about.files, about.founds)
      /\ Pending' = Pending \cup SetOf(<<m, n, k>>)
  BY <1>1, BeginsAlone
<1>9. Away(Pending, reg, {u}, {f}, {}) /\ Pending' = Pending \cup {m, n, k}
  BY <1>3, <1>6, <1>8
<1>10. u \in {u} /\ f \in {f}
  OBVIOUS
<1>11. reg.usertomap[u] \in User
  BY <1>1, <1>9, <1>10, AccountSeen
<1>12. Registry!LoggedIn(u)
  BY <1>1, <1>9, <1>10, LoggedInSeen
<1>13. StopShared(reg, Pending, Pending \cup {m, n, k}, u, f, g, o)
  BY <1>1, <1>9, <1>11, StopShareBegins DEF Apart
<1>14. /\ g \in DOMAIN groupsBar /\ u \in groupsBar[g].members
       /\ f \in groupsBar[g].files
  BY <1>1, <1>9, <1>10, GroupSeen
<1>15. f \in DOMAIN filesBar /\ filesBar[f].userids = reg.heap[o].userids
  BY <1>1, <1>9, FileSeen
<1>16. CASE /\ reg.heap[o].userids # {u}
            /\ Becomes(reg, Pending \cup {m, n, k}, UsersAfter(reg, Pending), FlagsAfter(reg, Pending),
                     GroupsAfter(reg, Pending),
                     [FilesAfter(reg, Pending) EXCEPT ![f].userids = @ \ {u},
                                  ![f].users = @ \ {UsersAfter(reg, Pending)[u].address}])
  <2>1. /\ filesBar' = [filesBar EXCEPT ![f].userids = @ \ {u},
                                        ![f].users = @ \ {usersBar[u].address}]
        /\ usersBar' = usersBar /\ flagsBar' = flagsBar /\ groupsBar' = groupsBar
    BY <1>1, <1>9, <1>16, SMTT(30) DEF Becomes, usersBar, flagsBar, groupsBar, filesBar
  <2>2. Registry!stop_share(g, f, u)
    BY <1>1, <1>12, <1>14, <1>15, <1>16, <2>1
       DEF Registry!stop_share, Registry!LastSharer, Registry!RemoveSharer, Registry!IsMember
  <2> QED BY <1>7, <2>2
<1>17. CASE /\ reg.heap[o].userids = {u}
            /\ Becomes(reg, Pending \cup {m, n, k}, UsersAfter(reg, Pending), FlagsAfter(reg, Pending),
                     [GroupsAfter(reg, Pending) EXCEPT ![g].files = @ \ {f}],
                     Erase(FilesAfter(reg, Pending), f))
  <2>1. /\ filesBar' = Erase(filesBar, f)
        /\ groupsBar' = [groupsBar EXCEPT ![g].files = @ \ {f}]
        /\ usersBar' = usersBar /\ flagsBar' = flagsBar
    BY <1>1, <1>9, <1>17 DEF Becomes, usersBar, flagsBar, groupsBar, filesBar
  <2>2. Registry!stop_share(g, f, u)
    BY <1>1, <1>12, <1>14, <1>15, <1>17, <2>1, MapsAlike
       DEF Registry!stop_share, Registry!LastSharer, Registry!DropFile, Registry!IsMember
  <2> QED BY <1>7, <2>2
<1> QED BY <1>13, <1>16, <1>17 DEF StopShared

LEMMA NewFileApart ==
  ASSUME ThreadsInvariant, Apart, clashes' = 0, NEW t \in Threads, NEW f \in Files, NEW g \in Groups,
         NEW u \in Users, LoggedIn(u), IsMember(g, u), f \notin DOMAIN reg.filetomap,
         NEW o, o \in Objects \ DOMAIN reg.heap,
         reg' = [reg EXCEPT !.heap = Put(@, o, [filename |-> f, userids |-> {u},
                                                users |-> {reg.usertomap[u].address}])],
         Begin(t, About({u}, {f}, {}), <<[op |-> "new_file", file |-> f, object |-> o],
                                         [op |-> "list", group |-> g, file |-> f]>>)
  PROVE  Apart' /\ Registry!upload_file(f, g, u)
<1> DEFINE m == [op |-> "new_file", file |-> f, object |-> o]
           n == [op |-> "list", group |-> g, file |-> f]
           rec == [filename |-> f, userids |-> {u}, users |-> {reg.usertomap[u].address}]
           s == [reg EXCEPT !.heap = Put(reg.heap, o, rec)]
           about == About({u}, {f}, {})
<1>1. /\ m.op = "new_file" /\ m.file = f /\ m.object = o
      /\ n.op = "list" /\ n.group = g /\ n.file = f
      /\ g \in DOMAIN reg.grouptomap /\ u \in reg.grouptomap[g].members
      /\ u \in DOMAIN reg.usertomap
      /\ reg' = s /\ Begin(t, about, <<m, n>>)
  BY DEF IsMember, LoggedIn
<1>2. about.users = {u} /\ about.files = {f} /\ about.founds = {}
  BY Zenon DEF About
<1>3. rec.filename = f /\ rec.userids = {u} /\ rec.users = {reg.usertomap[u].address}
  OBVIOUS
<1> HIDE DEF m, n, about, rec
<1>4. Maplike(reg) /\ Kept(reg)
  BY DEF ThreadsInvariant, Apart
<1>5. /\ s.heap = Put(reg.heap, o, rec) /\ s.usertomap = reg.usertomap
      /\ s.grouptomap = reg.grouptomap /\ s.filetomap = reg.filetomap /\ s.loggedin = reg.loggedin
  <2>1. Parts(s, reg.usertomap, reg.grouptomap, reg.filetomap, Put(reg.heap, o, rec), reg.loggedin)
    BY <1>4, PartReplaced
  <2> QED BY <2>1 DEF Parts
<1> HIDE DEF s
<1>6. /\ DOMAIN s.heap = DOMAIN reg.heap \cup {o}
      /\ s.heap[o] = rec
      /\ \A x \in DOMAIN reg.heap : s.heap[x] = reg.heap[x]
  BY <1>5 DEF Put
<1>7. Fit({m, n}, s, about)
  <2>1. Linked({m, n}, s)
    BY <1>1 DEF Linked
  <2>2. Within(m, s, about) /\ Within(n, s, about)
    BY <1>1, <1>2, <1>3, <1>6 DEF Within, ByUser, ByFile, ByObject, OnRecord
  <2>3. Ready(m, s) /\ Ready(n, s)
    BY <1>1, <1>3, <1>5, <1>6 DEF Ready, ByGroup
  <2> QED BY <2>1, <2>2, <2>3 DEF Fit
<1>8. Ordered(<<m, n>>)
  BY <1>1, OrderedTwo DEF Later
<1>9. SetOf(<<m, n>>) = {m, n}
  BY SetOfTwo
<1>10. Kept(s)
  BY <1>4, <1>5, <1>6 DEF Kept
<1>11. \A j : Spares(reg, s, j)
  BY <1>5, <1>6 DEF Spares
<1>12. /\ \A q \in Threads : ~Overlap(job[q], about)
       /\ todo[t] = <<>> /\ todo' = [todo EXCEPT ![t] = <<m, n>>] /\ job' = [job EXCEPT ![t] = about]
       /\ Away(Pending, reg, about.users, about.files, about.founds)
       /\ Pending' = Pending \cup SetOf(<<m, n>>)
  BY <1>1, BeginsAlone
<1>13. Apart'
  <2>1. Kept(reg') /\ Fit(SetOf(<<m, n>>), reg', about) /\ \A q \in Threads : Spares(reg, reg', job[q])
    BY <1>1, <1>7, <1>9, <1>10, <1>11
  <2> QED BY <1>8, <1>12, <2>1, BegunApart
<1>14. Away(Pending, reg, {u}, {f}, {}) /\ Pending' = Pending \cup {m, n}
  BY <1>2, <1>9, <1>12
<1>15. u \in {u} /\ f \in {f}
  OBVIOUS
<1>16. Registry!LoggedIn(u)
  BY <1>14, <1>15, LoggedInSeen
<1>17. g \in DOMAIN groupsBar /\ u \in groupsBar[g].members
  BY <1>1, <1>14, <1>15, GroupSeen
<1>18. usersBar[u] = reg.usertomap[u]
  BY <1>1, <1>14, <1>15, AccountSeen
<1>19. /\ \A k \in Pending : k.op \in ByFile => k.file # f
       /\ \A k \in Pending : k.op \in ByObject =>
            k.object \in DOMAIN reg.heap /\ reg.heap[k.object].filename # f
  BY <1>14 DEF Away
<1>20. NoneAbout(Pending, s, f) /\ Elsewhere(Pending, o)
  BY <1>6, <1>19 DEF NoneAbout, Elsewhere
<1>21. SameAfter(reg, s, Pending)
  BY <1>4, <1>5, <1>19, HeapGrows
<1>22. NewlyShared(s, Pending, Pending \cup {m, n}, f, g, o)
  <2>1. o \in DOMAIN s.heap /\ f \notin DOMAIN s.filetomap /\ g \in DOMAIN s.grouptomap
    BY <1>1, <1>5, <1>6
  <2> QED BY <1>1, <1>20, <2>1, NewFileBegins
<1>23. [userids |-> s.heap[o].userids, users |-> s.heap[o].users]
         = [userids |-> {u}, users |-> {usersBar[u].address}]
  BY <1>3, <1>6, <1>18
<1>24. /\ f \notin DOMAIN filesBar
       /\ filesBar' = Put(filesBar, f, [userids |-> {u}, users |-> {usersBar[u].address}])
       /\ groupsBar' = [groupsBar EXCEPT ![g].files = @ \cup {f}]
       /\ usersBar' = usersBar /\ flagsBar' = flagsBar
  BY <1>1, <1>14, <1>21, <1>22, <1>23
     DEF Becomes, NewlyShared, SameAfter, usersBar, flagsBar, groupsBar, filesBar
<1>25. Registry!upload_file(f, g, u)
  BY <1>16, <1>17, <1>24, MapsAlike DEF Registry!upload_file, Registry!IsMember
<1> QED BY <1>13, <1>25

LEMMA UploadFileApart ==
  ASSUME ThreadsInvariant, Apart, clashes' = 0, NEW t \in Threads, NEW f \in Files, NEW g \in Groups,
         NEW u \in Users, upload_file(t, f, g, u)
  PROVE  Apart' /\ Registry!upload_file(f, g, u)
  BY ShareApart, NewFileApart DEF upload_file, WithRecord, ToUpload

-----------------------------------------------------------------------------
(* The further steps, of handlers that are apart *)

(* What is due relies on accounts that are there. *)
LEMMA AllRely ==
  ASSUME ThreadsInvariant
  PROVE  \A n \in Pending : Relies(n) \subseteq DOMAIN reg.usertomap
<1>1. ASSUME NEW t \in Threads, NEW n \in Left(t) PROVE Relies(n) \subseteq DOMAIN reg.usertomap
  <2>1. Sensible(todo[t], reg)
    BY DEF ThreadsInvariant
  <2>2. PICK i \in DOMAIN todo[t] : n = todo[t][i]
    BY DEF Left
  <2>3. DOMAIN todo[t] = 1..Len(todo[t])
    BY <2>1 DEF Sensible
  <2> QED BY <2>1, <2>2, <2>3 DEF Sensible
<1> QED BY <1>1 DEF Pending

(* The update that comes next, and what comes after it. *)
NextOf(t, m, rest) ==
  /\ m \in Task /\ rest \in Seq(Task) /\ Ordered(rest)
  /\ \A n \in SetOf(rest) : n.op \in Later(m.op)
  /\ Left(t) = SetOf(rest) \cup {m}
  /\ Fit(SetOf(rest) \cup {m}, reg, job[t])
  /\ Possible(reg, job[t], m)
  /\ Away(Others(t), reg, job[t].users, job[t].files, job[t].founds)

LEMMA StepIs ==
  ASSUME ThreadsInvariant, Apart, NEW t \in Threads, todo[t] # <<>>
  PROVE  NextOf(t, Head(todo[t]), Tail(todo[t]))
<1> DEFINE plan == todo[t]
           m == Head(plan)
           rest == Tail(plan)
<1>1. plan \in Seq(Task) /\ Sensible(plan, reg) /\ Ordered(plan)
  BY DEF ThreadsInvariant, Apart
<1>2. m \in Task /\ Relies(m) \subseteq DOMAIN reg.usertomap
  BY <1>1, TailSensible
<1>3. /\ SetOf(plan) = SetOf(rest) \cup {m}
      /\ \A n \in SetOf(rest) : n.op \in Later(m.op)
      /\ Ordered(rest) /\ rest \in Seq(Task)
  BY <1>1, SetOfRest
<1>4. Left(t) = SetOf(rest) \cup {m}
  BY <1>3 DEF Left, SetOf
<1>5. Fit(SetOf(rest) \cup {m}, reg, job[t])
  BY <1>4 DEF Apart
<1>6. Possible(reg, job[t], m)
  BY <1>2, <1>5 DEF Fit, Possible, ThreadsInvariant
<1>7. Away(Others(t), reg, job[t].users, job[t].files, job[t].founds)
  BY OthersAway
<1> QED BY <1>2, <1>3, <1>4, <1>5, <1>6, <1>7 DEF NextOf

(* A handler's next update changes nothing of the registry that will be.   *)
LEMMA UpdateApart ==
  ASSUME ThreadsInvariant, Apart, NEW t \in Threads, NEW m, NEW rest, NextOf(t, m, rest),
         m.op # "size", reg' = Update(reg, m), Continue(t, rest)
  PROVE  Apart' /\ UNCHANGED Bars
<1> DEFINE O == Others(t)
           P == SetOf(rest)
<1>1. /\ m \in Task /\ Ordered(rest)
      /\ \A n \in P : n.op \in Later(m.op)
      /\ Left(t) = P \cup {m}
      /\ Fit(P \cup {m}, reg, job[t])
      /\ Possible(reg, job[t], m)
      /\ Away(O, reg, job[t].users, job[t].files, job[t].founds)
  BY DEF NextOf
<1>2. Maplike(reg) /\ Kept(reg) /\ Relies(m) \subseteq DOMAIN reg.usertomap
  BY <1>1 DEF Possible, Apart
<1>3. Pending = O \cup (P \cup {m}) /\ Pending' = O \cup P
  <2>1. DOMAIN todo = Threads /\ todo' = [todo EXCEPT ![t] = rest]
    BY DEF Continue, ThreadsInvariant, JobsKept
  <2> QED BY <1>1, <2>1, PendingIs, PendingAfter
<1>4. Unseen(reg, Update(reg, m), O \cup P, m)
  <2>1. \A n \in O \cup P \cup {m} : Relies(n) \subseteq DOMAIN reg.usertomap
    BY <1>3, AllRely
  <2>2. \A n \in P \cup {m} : Within(n, reg, job[t]) /\ Ready(n, reg)
    BY <1>1 DEF Fit
  <2>3. Linked(P \cup {m}, reg)
    BY <1>1 DEF Fit
  <2>4. Proceeds(reg, job[t], m, O, P)
    BY <1>1, <1>2, <2>1, <2>2, <2>3 DEF Proceeds
  <2> QED BY <1>1, <2>4, UpdateUnseen
<1>5. UNCHANGED Bars
  <2>1. O \cup (P \cup {m}) = (O \cup P) \cup {m}
    OBVIOUS
  <2> QED BY <1>3, <1>4, <2>1 DEF Unseen, Bars, usersBar, flagsBar, groupsBar, filesBar
<1> HIDE DEF P
<1>6. Kept(reg')
  BY <1>1, <1>2, KeptOn
<1>7. Fit(P, reg', job[t])
  BY <1>1, <1>2, RestFits
<1>8. \A s \in Threads : s # t => Spares(reg, reg', job[s])
  <2>1. ASSUME NEW s \in Threads, s # t PROVE Spares(reg, reg', job[s])
    <3>1. ~Overlap(job[t], job[s])
      BY <2>1 DEF Apart
    <3> QED BY <1>1, <3>1, UpdateSpares
  <2> QED BY <2>1
<1>9. Apart'
  BY <1>1, <1>6, <1>7, <1>8, ContinuedApart DEF P
<1> QED BY <1>5, <1>9

(* Nor does the look at how many share a file, or what it plans.           *)
LEMMA DropFits ==
  ASSUME NEW r, NEW j, NEW m, m.op = "size", Fit({m}, r, j),
         NEW a, NEW b, NEW c, a.op = "erase_file", b.op = "unlist", c.op = "delete",
         a.object = m.object, b.object = m.object, c.object = m.object, b.group = m.group
  PROVE  Fit({a, b, c}, r, j)
<1>1. /\ m.object \in DOMAIN r.heap /\ r.heap[m.object].filename \in j.files
      /\ m.group \in DOMAIN r.grouptomap
      /\ r.heap[m.object].filename \in DOMAIN r.filetomap
      /\ r.filetomap[r.heap[m.object].filename] = m.object
  BY DEF Fit, Within, Ready, ByObject, ByGroup, OnRecord
<1>2. Within(a, r, j) /\ Within(b, r, j) /\ Within(c, r, j)
  BY <1>1 DEF Within, ByUser, ByFile
<1>3. Ready(a, r) /\ Ready(b, r) /\ Ready(c, r)
  BY <1>1 DEF Ready, ByGroup
<1>4. Linked({a, b, c}, r)
  BY DEF Linked
<1> QED BY <1>2, <1>3, <1>4 DEF Fit

LEMMA DropIs ==
  ASSUME NEW m
  PROVE  \E a, b, c : /\ Drop(m) = <<a, b, c>>
                      /\ a.op = "erase_file" /\ b.op = "unlist" /\ c.op = "delete"
                      /\ a.object = m.object /\ b.object = m.object /\ c.object = m.object
                      /\ b.group = m.group
<1> DEFINE a == [op |-> "erase_file", object |-> m.object]
           b == [op |-> "unlist", object |-> m.object, group |-> m.group]
           c == [op |-> "delete", object |-> m.object]
<1>1. Drop(m) = <<a, b, c>>
  BY DEF Drop
<1>2. /\ a.op = "erase_file" /\ b.op = "unlist" /\ c.op = "delete"
      /\ a.object = m.object /\ b.object = m.object /\ c.object = m.object
      /\ b.group = m.group
  OBVIOUS
<1> HIDE DEF a, b, c
<1> QED BY <1>1, <1>2

LEMMA SizeApart ==
  ASSUME ThreadsInvariant, Apart, NEW t \in Threads, NEW m, NEW rest, NextOf(t, m, rest),
         m.op = "size", UNCHANGED reg,
         Continue(t, IF reg.heap[m.object].userids = {} THEN Drop(m) ELSE <<>>)
  PROVE  Apart' /\ UNCHANGED Bars
<1> DEFINE O == Others(t)
<1>1. Left(t) = {m} /\ Fit({m}, reg, job[t])
  <2>1. Later(m.op) = {}
    BY DEF Later
  <2>2. SetOf(rest) = {}
    BY <2>1 DEF NextOf
  <2>3. SetOf(rest) \cup {m} = {m}
    BY <2>2
  <2> QED BY <2>3 DEF NextOf
<1>2. \A n \in O : n.op \in OfSharers => n.object # m.object
  <2>1. m.object \in DOMAIN reg.heap /\ reg.heap[m.object].filename \in job[t].files
    BY <1>1 DEF Fit, Within, ByObject, OnRecord
  <2>2. \A n \in O : n.op \in OfSharers => reg.heap[n.object].filename \notin job[t].files
    BY DEF NextOf, Away, ByObject, OnRecord, OfSharers
  <2> QED BY <2>1, <2>2
<1>3. Pending = O \cup {m}
  BY <1>1, PendingIs
<1>4. \A s \in Threads : s # t => Spares(reg, reg', job[s])
  BY SparesItself
<1>5. Kept(reg')
  BY DEF Apart
<1>6. ASSUME NEW plan, Continue(t, plan) PROVE Pending' = O \cup SetOf(plan)
  <2>1. DOMAIN todo = Threads /\ todo' = [todo EXCEPT ![t] = plan]
    BY <1>6 DEF Continue, ThreadsInvariant, JobsKept
  <2> QED BY <2>1, PendingAfter
<1>7. CASE reg.heap[m.object].userids # {}
  <2>1. Continue(t, <<>>)
    BY <1>7
  <2>2. SetOf(<<>>) = {}
    BY DEF SetOf
  <2>3. Ordered(<<>>)
    BY DEF Ordered
  <2>4. Fit(SetOf(<<>>), reg', job[t])
    BY <2>2, NothingFits
  <2>5. Apart'
    BY <1>4, <1>5, <2>1, <2>3, <2>4, ContinuedApart
  <2>6. Pending' = O
    BY <1>6, <2>1, <2>2
  <2>7. Unseen(reg, reg, O, m)
    BY <1>2, <1>7, SizeUnseen
  <2>8. UNCHANGED Bars
    BY <1>3, <2>6, <2>7 DEF Unseen, Bars, usersBar, flagsBar, groupsBar, filesBar
  <2> QED BY <2>5, <2>8
<1>8. CASE reg.heap[m.object].userids = {}
  <2>1. Continue(t, Drop(m))
    BY <1>8
  <2>2. PICK a, b, c : /\ Drop(m) = <<a, b, c>>
                       /\ a.op = "erase_file" /\ b.op = "unlist" /\ c.op = "delete"
                       /\ a.object = m.object /\ b.object = m.object /\ c.object = m.object
                       /\ b.group = m.group
    BY DropIs
  <2>3. SetOf(Drop(m)) = {a, b, c}
    BY <2>2, SetOfThree
  <2>4. Ordered(<<a, b, c>>)
    BY <2>2, OrderedThree DEF Later
  <2>5. Fit({a, b, c}, reg, job[t])
    BY <1>1, <2>2, DropFits
  <2>6. Ordered(Drop(m)) /\ Fit(SetOf(Drop(m)), reg', job[t])
    BY <2>2, <2>3, <2>4, <2>5
  <2>7. Apart'
    BY <1>4, <1>5, <2>1, <2>6, ContinuedApart
  <2>8. Pending' = O \cup {a, b, c}
    BY <1>6, <2>1, <2>3
  <2>9. AlikeAfter(reg, O \cup {a, b, c}, O \cup {m})
    BY <1>2, <1>8, <2>2, DropUnseen
  <2>10. UNCHANGED Bars
    BY <1>3, <2>8, <2>9 DEF AlikeAfter, Bars, usersBar, flagsBar, groupsBar, filesBar
  <2> QED BY <2>7, <2>10
<1> QED BY <1>7, <1>8

(* So every step of a handler is a part of its command.                    *)
LEMMA StepApart ==
  ASSUME ThreadsInvariant, Apart, NEW t \in Threads, Step(t)
  PROVE  Apart' /\ UNCHANGED Bars
<1> DEFINE m == Head(todo[t])
<1>1. todo[t] # <<>>
  BY DEF Step
<1>2. NextOf(t, m, Tail(todo[t]))
  BY <1>1, StepIs
<1>3. CASE /\ m.op = "size" /\ UNCHANGED reg
           /\ Continue(t, IF reg.heap[m.object].userids = {} THEN Drop(m) ELSE <<>>)
  BY <1>2, <1>3, SizeApart
<1>4. CASE m.op # "size" /\ reg' = Update(reg, m) /\ Continue(t, Tail(todo[t]))
  BY <1>2, <1>4, UpdateApart
<1> QED BY <1>3, <1>4 DEF Step

(* Handlers that are apart use no record that is gone.                     *)
LEMMA NoUseAfterFree ==
  ASSUME ThreadsInvariant, Apart, NEW t \in Threads
  PROVE  ~UseAfterFree(t)
<1>1. SUFFICES ASSUME todo[t] # <<>> PROVE ~Deleted(reg, Head(todo[t]))
  BY DEF UseAfterFree
<1>2. Possible(reg, job[t], Head(todo[t]))
  BY <1>1, StepIs DEF NextOf
<1> QED BY <1>2 DEF Possible, Within, Deleted, ByObject

LEMMA ClashCounts ==
  ASSUME ThreadsInvariant, Clash
  PROVE  clashes' # 0
<1>1. clashes \in Nat
  BY ThreadsAssumption DEF ThreadsInvariant, JobsKept
<1> QED BY <1>1 DEF Clash

LEMMA MissedLookClashes ==
  ASSUME NEW t, MissedLook(t)
  PROVE  Clash
  BY DEF MissedLook, BeginBlind

(* A clash is never forgotten, until the tracker starts anew.              *)
LEMMA BeginsQuiet ==
  ASSUME ThreadsInvariant, clashes' = 0, NEW t, NEW about, NEW plan, Begin(t, about, plan)
  PROVE  clashes = 0
  BY ClashCounts DEF Begin

LEMMA QuietBefore ==
  ASSUME ThreadsInvariant, clashes' = 0, [Next]_vars
  PROVE  Restart \/ clashes = 0
<1>1. CASE UNCHANGED vars
  BY <1>1 DEF vars
<1>2. CASE \E t \in Threads, u \in Users, p \in Passwords : \E a \in AddressesOf[u] :
             create_user(t, u, p, a) \/ login(t, u, p, a)
  BY <1>2, BeginsQuiet DEF create_user, login
<1>3. CASE \E t \in Threads, u \in Users : logout(t, u)
  BY <1>3, BeginsQuiet DEF logout
<1>4. CASE \E t \in Threads, g \in Groups, u \in Users :
             create_group(t, g, u) \/ join_group(t, g, u) \/ leave_group(t, g, u)
  BY <1>4, BeginsQuiet DEF create_group, join_group, leave_group
<1>5. CASE \E t \in Threads, g \in Groups, u \in Users, admin \in Users :
             accept_request(t, g, u, admin)
  BY <1>5, BeginsQuiet DEF accept_request
<1>6. CASE \E t \in Threads, f \in Files, g \in Groups, u \in Users :
             upload_file(t, f, g, u) \/ stop_share(t, g, f, u)
  <2>1. PICK t \in Threads, f \in Files, g \in Groups, u \in Users :
               upload_file(t, f, g, u) \/ stop_share(t, g, f, u)
    BY <1>6
  <2>2. CASE upload_file(t, f, g, u)
    <3>1. \E about, plan : Begin(t, about, plan)
      BY <2>2 DEF upload_file
    <3> QED BY <3>1, BeginsQuiet
  <2>3. CASE stop_share(t, g, f, u)
    <3>1. \E about, plan : Begin(t, about, plan)
      BY <2>3 DEF stop_share
    <3> QED BY <3>1, BeginsQuiet
  <2> QED BY <2>1, <2>2, <2>3
<1>7. CASE \E t \in Threads : Step(t) \/ UseAfterFree(t) \/ DataRace(t) \/ MissedLook(t)
  BY <1>7, ClashCounts, MissedLookClashes DEF Step, UseAfterFree, DataRace
<1>8. CASE FollowDangling
  BY <1>8 DEF FollowDangling
<1> QED BY <1>1, <1>2, <1>3, <1>4, <1>5, <1>6, <1>7, <1>8 DEF Next

LEMMA StepsApart ==
  ASSUME ThreadsInvariant, Apart, clashes' = 0, [Next]_vars
  PROVE  Restart \/ (Apart' /\ (UNCHANGED Bars \/ Registry!Next))
<1>1. CASE UNCHANGED vars
  <2>1. reg' = reg /\ todo' = todo /\ job' = job
    BY <1>1 DEF vars
  <2>2. \A t : Left(t)' = Left(t)
    BY <2>1 DEF Left
  <2>3. Pending' = Pending
    BY <2>2 DEF Pending
  <2>4. Apart'
    BY <2>1, <2>2 DEF Apart
  <2>5. UNCHANGED Bars
    BY <2>1, <2>3 DEF Bars, usersBar, flagsBar, groupsBar, filesBar
  <2> QED BY <2>4, <2>5
<1>2. ASSUME NEW t \in Threads, NEW u \in Users, NEW p \in Passwords, NEW a \in AddressesOf[u],
             create_user(t, u, p, a) \/ login(t, u, p, a)
      PROVE  Apart' /\ Registry!Next
  <2>1. Apart' /\ (Registry!create_user(u, p, a) \/ Registry!login(u, p, a))
    BY <1>2, CreateUserApart, LoginRightApart, LoginWrongApart
  <2> QED BY <2>1 DEF Registry!Next
<1>3. ASSUME NEW t \in Threads, NEW u \in Users, logout(t, u) PROVE Apart' /\ Registry!Next
  <2>1. Apart' /\ Registry!logout(u)
    BY <1>3, LogoutApart
  <2> QED BY <2>1 DEF Registry!Next
<1>4. ASSUME NEW t \in Threads, NEW g \in Groups, NEW u \in Users,
             create_group(t, g, u) \/ join_group(t, g, u) \/ leave_group(t, g, u)
      PROVE  Apart' /\ Registry!Next
  <2>1. Apart' /\ (Registry!create_group(g, u) \/ Registry!join_group(g, u) \/ Registry!leave_group(g, u))
    BY <1>4, CreateGroupApart, JoinGroupApart, LeaveGroupApart
  <2> QED BY <2>1 DEF Registry!Next
<1>5. ASSUME NEW t \in Threads, NEW g \in Groups, NEW u \in Users, NEW admin \in Users,
             accept_request(t, g, u, admin)
      PROVE  Apart' /\ Registry!Next
  <2>1. Apart' /\ Registry!accept_request(g, u, admin)
    BY <1>5, AcceptRequestApart
  <2> QED BY <2>1 DEF Registry!Next
<1>6. ASSUME NEW t \in Threads, NEW f \in Files, NEW g \in Groups, NEW u \in Users,
             upload_file(t, f, g, u) \/ stop_share(t, g, f, u)
      PROVE  Apart' /\ Registry!Next
  <2>1. Apart' /\ (Registry!upload_file(f, g, u) \/ Registry!stop_share(g, f, u))
    BY <1>6, UploadFileApart, StopShareApart
  <2> QED BY <2>1 DEF Registry!Next
<1>7. ASSUME NEW t \in Threads, Step(t) \/ UseAfterFree(t) \/ DataRace(t) \/ MissedLook(t)
      PROVE  Restart \/ (Apart' /\ UNCHANGED Bars)
  <2>1. CASE Step(t)
    BY <2>1, StepApart
  <2>2. CASE UseAfterFree(t)
    BY <2>2, NoUseAfterFree
  <2>3. CASE DataRace(t)
    BY <2>3, ClashCounts DEF DataRace
  <2>4. CASE MissedLook(t)
    BY <2>4, ClashCounts, MissedLookClashes
  <2> QED BY <1>7, <2>1, <2>2, <2>3, <2>4
<1>8. CASE FollowDangling
  BY <1>8 DEF FollowDangling
<1>9. CASE Next
  BY <1>9, <1>2, <1>3, <1>4, <1>5, <1>6, <1>7, <1>8 DEF Next
<1> QED BY <1>1, <1>9

LEMMA BeginApart ==
  ASSUME reg = EmptyRegistry, todo = [t \in Threads |-> <<>>], job = [t \in Threads |-> NoJob]
  PROVE  Apart
<1>1. Kept(reg)
  BY DEF EmptyRegistry, EmptyMap, Kept
<1>2. \A s, t \in Threads : ~Overlap(job[s], job[t])
  BY NoJobIsApart
<1>3. ASSUME NEW t \in Threads PROVE Ordered(todo[t]) /\ Fit(Left(t), reg, job[t])
  <2>1. todo[t] = <<>>
    OBVIOUS
  <2>2. Left(t) = {}
    BY <2>1 DEF Left
  <2> QED BY <2>1, <2>2, NothingFits DEF Ordered
<1> QED BY <1>1, <1>2, <1>3 DEF Apart

LEMMA RestartsApart ==
  ASSUME Restart
  PROVE  Apart'
<1>1. Kept(reg')
  BY DEF Restart, EmptyRegistry, EmptyMap, Kept
<1>2. \A s, t \in Threads : ~Overlap(job'[s], job'[t])
  BY NoJobIsApart DEF Restart
<1>3. ASSUME NEW t \in Threads PROVE Ordered(todo'[t]) /\ Fit(Left(t)', reg', job'[t])
  <2>1. todo'[t] = <<>>
    BY DEF Restart
  <2>2. Left(t)' = {}
    BY <2>1 DEF Left
  <2> QED BY <2>1, <2>2, NothingFits DEF Ordered
<1> QED BY <1>1, <1>2, <1>3 DEF Apart

ApartInvariant == clashes = 0 => Apart

LEMMA ApartInvariantHolds == Spec => []ApartInvariant
<1>1. Init => ApartInvariant
  BY BeginApart DEF Init, ApartInvariant
<1>2. ThreadsInvariant /\ ApartInvariant /\ [Next]_vars => ApartInvariant'
  BY QuietBefore, StepsApart, RestartsApart DEF ApartInvariant
<1> QED BY <1>1, <1>2, ThreadsInvariantHolds, PTL DEF Spec

-----------------------------------------------------------------------------
(* However the steps of the handlers interleave, as long as no two of them *)
(* are about one user, about one file or found one group, and no race on a *)
(* map or set has come true, the tracker is Tracker: what its maps will be *)
(* once the updates that are due are done changes in one step, by one      *)
(* command, or does not change (CommandsApartAreAtomic).                   *)
THEOREM CommandsAtomic == Spec => CommandsApartAreAtomic
<1>1. ThreadsInvariant /\ ThreadsInvariant' /\ ApartInvariant /\ [Next]_vars =>
        [\/ clashes' > 0
         \/ Restart
         \/ UNCHANGED <<usersBar, flagsBar, groupsBar, filesBar>>
         \/ Registry!Next]_vars
  <2> SUFFICES ASSUME ThreadsInvariant, ThreadsInvariant', ApartInvariant, [Next]_vars
               PROVE  \/ clashes' > 0
                      \/ Restart
                      \/ UNCHANGED <<usersBar, flagsBar, groupsBar, filesBar>>
                      \/ Registry!Next
    OBVIOUS
  <2>1. clashes' \in Nat
    BY ThreadsAssumption DEF ThreadsInvariant, JobsKept
  <2>2. CASE clashes' = 0
    <3>1. Restart \/ Apart
      BY <2>2, QuietBefore DEF ApartInvariant
    <3> QED BY <2>2, <3>1, StepsApart DEF Bars
  <2> QED BY <2>1, <2>2
<1> QED BY <1>1, ThreadsInvariantHolds, ApartInvariantHolds, PTL DEF Spec, CommandsApartAreAtomic

=============================================================================
