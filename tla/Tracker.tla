------------------------------- MODULE Tracker -------------------------------
(***************************************************************************)
(* The registry a tracker process keeps in memory and the commands that    *)
(* change it (handle_connection of tracker.cpp), each command as one       *)
(* atomic step.  A command the code refuses changes nothing and is no step *)
(* here, with the one exception the code has: a login with a wrong         *)
(* password logs the account out.  The four listing and lookup commands    *)
(* only read; what download_file answers is the operator PeersOf.          *)
(*                                                                         *)
(* A definition named X_Y is not part of the model: it is X with the slip  *)
(* Y, which some property below must notice (the README lists them).       *)
(*                                                                         *)
(* Left out: the text of requests and replies, and a file's SHA and size,  *)
(* which the tracker stores when the file is first uploaded and never      *)
(* reads again.                                                            *)
(***************************************************************************)
EXTENDS Maps

CONSTANTS Users, Groups, Files, Addresses, Passwords,
          AddressesOf      \* the addresses of the clients a user logs in from

ASSUME AddressesAssumption == AddressesOf \in [Users -> SUBSET Addresses]

VARIABLES usertomap,       \* the accounts, by user id
          loggedin_map,    \* whether the account is logged in, by user id
          grouptomap,      \* the groups, by group id
          filetomap        \* the shared files, by file name (of all groups)

vars == <<usertomap, loggedin_map, grouptomap, filetomap>>

-----------------------------------------------------------------------------
User == [password : Passwords, address : Addresses,
         groups : SUBSET Groups, mygroups : SUBSET Groups]

Group == [adminid : Users, members : SUBSET Users,
          files : SUBSET Files, requests : SUBSET Users]

FileStr == [userids : SUBSET Users, users : SUBSET Addresses]

(* The four maps hold records of their structs, and every account has a    *)
(* login flag.                                                             *)
TypeOK == /\ IsMap(usertomap, Users, User)
          /\ IsMap(loggedin_map, Users, BOOLEAN)
          /\ IsMap(grouptomap, Groups, Group)
          /\ IsMap(filetomap, Files, FileStr)
          /\ DOMAIN loggedin_map = DOMAIN usertomap

Init == /\ usertomap = EmptyMap
        /\ loggedin_map = EmptyMap
        /\ grouptomap = EmptyMap
        /\ filetomap = EmptyMap

Registered(u) == u \in DOMAIN usertomap

LoggedIn(u) == Registered(u) /\ loggedin_map[u]

IsMember(g, u) == g \in DOMAIN grouptomap /\ u \in grouptomap[g].members

-----------------------------------------------------------------------------
(* Accounts *)

(* create_user without the login flag. *)
create_user_NoFlag(u, p, a) ==
  /\ ~Registered(u)
  /\ usertomap' = Put(usertomap, u, [password |-> p, address |-> a,
                                     groups |-> {}, mygroups |-> {}])
  /\ UNCHANGED <<loggedin_map, grouptomap, filetomap>>

create_user(u, p, a) ==
  /\ ~Registered(u)
  /\ usertomap' = Put(usertomap, u, [password |-> p, address |-> a,
                                     groups |-> {}, mygroups |-> {}])
  /\ loggedin_map' = Put(loggedin_map, u, TRUE)
  /\ UNCHANGED <<grouptomap, filetomap>>

login(u, p, a) ==
  /\ Registered(u)
  /\ \/ /\ p = usertomap[u].password
        /\ loggedin_map' = [loggedin_map EXCEPT ![u] = TRUE]
        /\ usertomap' = [usertomap EXCEPT ![u].address = a]
     \/ /\ p # usertomap[u].password
        /\ loggedin_map' = [loggedin_map EXCEPT ![u] = FALSE]
        /\ UNCHANGED usertomap
  /\ UNCHANGED <<grouptomap, filetomap>>

logout(u) ==
  /\ u \in DOMAIN loggedin_map
  /\ loggedin_map[u]
  /\ loggedin_map' = [loggedin_map EXCEPT ![u] = FALSE]
  /\ UNCHANGED <<usertomap, grouptomap, filetomap>>

-----------------------------------------------------------------------------
(* Groups *)

create_group(g, u) ==
  /\ LoggedIn(u)
  /\ g \notin DOMAIN grouptomap
  /\ grouptomap' = Put(grouptomap, g, [adminid |-> u, members |-> {u},
                                       files |-> {}, requests |-> {}])
  /\ usertomap' = [usertomap EXCEPT ![u].groups = @ \cup {g},
                                    ![u].mygroups = @ \cup {g}]
  /\ UNCHANGED <<loggedin_map, filetomap>>

(* join_group without a look at the login. *)
MayJoin_Anybody(g, u) == g \in DOMAIN grouptomap /\ ~IsMember(g, u)

MayJoin(g, u) == LoggedIn(u) /\ g \in DOMAIN grouptomap /\ ~IsMember(g, u)

join_group(g, u) ==
  /\ MayJoin(g, u)
  /\ grouptomap' = [grouptomap EXCEPT ![g].requests = @ \cup {u}]
  /\ UNCHANGED <<usertomap, loggedin_map, filetomap>>

(* leave_group open to the admin as well. *)
MayLeave_Admin(g, u) == LoggedIn(u) /\ IsMember(g, u)

MayLeave(g, u) == LoggedIn(u) /\ IsMember(g, u) /\ grouptomap[g].adminid # u

leave_group(g, u) ==
  /\ MayLeave(g, u)
  /\ grouptomap' = [grouptomap EXCEPT ![g].members = @ \ {u}]
  /\ UNCHANGED <<usertomap, loggedin_map, filetomap>>

(* accept_request for a user who has not asked. *)
MayAccept_Unasked(g, u, admin) ==
  /\ Registered(u)
  /\ LoggedIn(admin)
  /\ g \in DOMAIN grouptomap
  /\ grouptomap[g].adminid = admin

MayAccept(g, u, admin) ==
  /\ Registered(u)
  /\ LoggedIn(admin)
  /\ g \in DOMAIN grouptomap
  /\ u \in grouptomap[g].requests
  /\ grouptomap[g].adminid = admin

(* accept_request leaving the request where it is. *)
Admit_RequestStays(g, u) == grouptomap' = [grouptomap EXCEPT ![g].members = @ \cup {u}]

Admit(g, u) == grouptomap' = [grouptomap EXCEPT ![g].requests = @ \ {u},
                                                ![g].members = @ \cup {u}]

accept_request(g, u, admin) ==
  /\ MayAccept(g, u, admin)
  /\ Admit(g, u)
  /\ UNCHANGED <<usertomap, loggedin_map, filetomap>>

-----------------------------------------------------------------------------
(* Files.  One name stands for one file over all groups: a second upload   *)
(* of a name, from whichever group, only adds its uploader as a sharer.    *)

(* A second upload of a name that forgets the uploader's address. *)
AddSharer_NoAddress(f, u) == filetomap' = [filetomap EXCEPT ![f].userids = @ \cup {u}]

AddSharer(f, u) == filetomap' = [filetomap EXCEPT ![f].userids = @ \cup {u},
                                      ![f].users = @ \cup {usertomap[u].address}]

upload_file(f, g, u) ==
  /\ LoggedIn(u)
  /\ IsMember(g, u)
  /\ \/ /\ f \in DOMAIN filetomap
        /\ AddSharer(f, u)
        /\ UNCHANGED grouptomap
     \/ /\ f \notin DOMAIN filetomap
        /\ filetomap' = Put(filetomap, f, [userids |-> {u},
                                           users |-> {usertomap[u].address}])
        /\ grouptomap' = [grouptomap EXCEPT ![g].files = @ \cup {f}]
  /\ UNCHANGED <<usertomap, loggedin_map>>

(* The size of userids looked at the wrong way: one sharer too early, and  *)
(* never.                                                                  *)
LastSharer_TooEarly(f, u) == \E v \in Users : filetomap[f].userids \subseteq {u, v}
LastSharer_Never(f, u) == FALSE

LastSharer(f, u) == filetomap[f].userids = {u}

RemoveSharer(f, u) == filetomap' = [filetomap EXCEPT ![f].userids = @ \ {u},
                                      ![f].users = @ \ {usertomap[u].address}]

(* stop_share leaving the name in the group's list. *)
DropFile_StaysListed(g, f) == filetomap' = Erase(filetomap, f) /\ UNCHANGED grouptomap

DropFile(g, f) == /\ filetomap' = Erase(filetomap, f)
                  /\ grouptomap' = [grouptomap EXCEPT ![g].files = @ \ {f}]

stop_share(g, f, u) ==
  /\ LoggedIn(u)
  /\ IsMember(g, u)
  /\ f \in DOMAIN filetomap
  /\ f \in grouptomap[g].files
  /\ u \in filetomap[f].userids
  /\ \/ ~LastSharer(f, u) /\ RemoveSharer(f, u) /\ UNCHANGED grouptomap
     \/ LastSharer(f, u) /\ DropFile(g, f)
  /\ UNCHANGED <<usertomap, loggedin_map>>

(* download_file offering the sharers that are not logged in. *)
PeersOf_Offline(f) ==
  LET offline == {u \in filetomap[f].userids : ~loggedin_map[u]}
  IN  {usertomap[u].address : u \in offline} \cap filetomap[f].users

(* The addresses download_file answers with: those of the sharers that are *)
(* logged in and whose current address is one the file was shared from.    *)
(* No address at all is the answer "File is currently unavailable".        *)
PeersOf(f) ==
  LET online == {u \in filetomap[f].userids : loggedin_map[u]}
  IN  {usertomap[u].address : u \in online} \cap filetomap[f].users

-----------------------------------------------------------------------------
Next ==
  \/ \E u \in Users, p \in Passwords : \E a \in AddressesOf[u] :
        create_user(u, p, a) \/ login(u, p, a)
  \/ \E u \in Users : logout(u)
  \/ \E g \in Groups, u \in Users :
        create_group(g, u) \/ join_group(g, u) \/ leave_group(g, u)
  \/ \E g \in Groups, u \in Users, admin \in Users : accept_request(g, u, admin)
  \/ \E f \in Files, g \in Groups, u \in Users :
        upload_file(f, g, u) \/ stop_share(g, f, u)

Spec == Init /\ [][Next]_vars

-----------------------------------------------------------------------------
(* The two places that name a file agree: every registered file is listed  *)
(* in exactly one group, and no group lists a file that is not registered  *)
(* (upload_file and stop_share keep filetomap and Group::files in step).   *)
CatalogueMatchesGroups ==
  /\ \A f \in DOMAIN filetomap : \E g \in DOMAIN grouptomap : f \in grouptomap[g].files
  /\ \A g, h \in DOMAIN grouptomap :
       \A f \in grouptomap[g].files :
         f \in DOMAIN filetomap /\ (f \in grouptomap[h].files => g = h)

(* A registered file has a sharer: the FileStr goes with its last one.     *)
EveryFileHasASharer ==
  \A f \in DOMAIN filetomap : filetomap[f].userids # {}

(* Nobody is at once a member of a group and waiting to be admitted to it, *)
(* over joins, admissions, leaves and joins again.                         *)
PendingIsNotMember ==
  \A g \in DOMAIN grouptomap : grouptomap[g].members \cap grouptomap[g].requests = {}

(* The admin of a group is in it, and the account lists it among its own   *)
(* groups, which no other account does (adminid against User::mygroups).   *)
AdminOwnsGroup ==
  /\ \A g \in DOMAIN grouptomap : IsMember(g, grouptomap[g].adminid)
  /\ \A u \in DOMAIN usertomap :
       usertomap[u].mygroups = {g \in DOMAIN grouptomap : grouptomap[g].adminid = u}

(* Every user id in a group or among a file's sharers is that of an        *)
(* account, so no lookup of one in usertomap yields the null pointer that  *)
(* operator[] makes of an unknown key (download_file dereferences it).     *)
OnlyAccountsInvolved ==
  /\ \A g \in DOMAIN grouptomap :
       grouptomap[g].members \cup grouptomap[g].requests \subseteq DOMAIN usertomap
  /\ \A f \in DOMAIN filetomap : filetomap[f].userids \subseteq DOMAIN usertomap

(* Taken together: the inductive invariant. *)
RegistryInvariant ==
  TypeOK /\ CatalogueMatchesGroups /\ EveryFileHasASharer /\ PendingIsNotMember
         /\ AdminOwnsGroup /\ OnlyAccountsInvolved

(* A file leaves the registry only when one last sharer is left, and while *)
(* it stays it stays in its group (upload_file in another group does not   *)
(* move it).                                                               *)
FileStaysWhileShared ==
  [][\A f \in DOMAIN filetomap :
        IF f \in DOMAIN filetomap'
        THEN \A g \in DOMAIN grouptomap :
               f \in grouptomap[g].files => f \in grouptomap'[g].files
        ELSE \E u \in Users : filetomap[f].userids = {u}]_vars

(* The users log in from one address each, and no two of them from the     *)
(* same: what the two properties below need.                               *)
FixedAddresses ==
  /\ \A u \in Users : \A a, b \in AddressesOf[u] : a = b
  /\ \A u, v \in Users : AddressesOf[u] \cap AddressesOf[v] # {} => u = v

(* The accounts' addresses and the addresses a file is shared from agree:  *)
(* the latter are exactly the current addresses of the file's sharers.     *)
AddressesMatchSharers ==
  \A f \in DOMAIN filetomap :
    filetomap[f].users = {usertomap[u].address : u \in filetomap[f].userids}

(* A sharer who is logged in is offered to downloaders: login brings back  *)
(* everything shared before the last logout (download_file, 741-753).      *)
OnlineSharersOffered ==
  \A f \in DOMAIN filetomap :
    \A u \in filetomap[f].userids :
      loggedin_map[u] => usertomap[u].address \in PeersOf(f)

(* Whoever shares a file of a group is a member of that group.             *)
SharersAreMembers ==
  \A g \in DOMAIN grouptomap :
    \A f \in grouptomap[g].files : filetomap[f].userids \subseteq grouptomap[g].members

-----------------------------------------------------------------------------
(* The registry implements GroupMembership: a user's role in a group, read *)
(* off the group's record.                                                 *)
RoleOf(g, u) ==
  IF g \notin DOMAIN grouptomap THEN "none"
  ELSE IF u \in grouptomap[g].members
       THEN IF u = grouptomap[g].adminid THEN "admin" ELSE "member"
       ELSE IF u \in grouptomap[g].requests THEN "pending" ELSE "none"

roleBar == [g \in Groups |-> [u \in Users |-> RoleOf(g, u)]]

Membership == INSTANCE GroupMembership WITH role <- roleBar

(* Groups follow the protocol of GroupMembership: founded once, entered    *)
(* only through a request the admin accepts, never left by the admin.      *)
ImplementsMembership == Membership!Spec
=============================================================================
