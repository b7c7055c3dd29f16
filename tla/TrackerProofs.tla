---------------------------- MODULE TrackerProofs ----------------------------
(* Proofs about module Tracker, for any users, groups, files, addresses    *)
(* and passwords.                                                          *)
EXTENDS Tracker, TLAPS

-----------------------------------------------------------------------------
(* Every command keeps the four maps well-typed, and every account has its *)
(* login flag.                                                             *)
LEMMA TypeStep == TypeOK /\ [Next]_vars => TypeOK'
<1> SUFFICES ASSUME TypeOK, [Next]_vars PROVE TypeOK'
  OBVIOUS
<1> USE DEF TypeOK
<1>1. ASSUME NEW u \in Users, NEW p \in Passwords, NEW a \in AddressesOf[u],
             create_user(u, p, a)
      PROVE  TypeOK'
  <2>1. [password |-> p, address |-> a, groups |-> {}, mygroups |-> {}] \in User
    BY AddressesAssumption DEF User
  <2>2. IsMap(usertomap', Users, User) /\ DOMAIN usertomap' = DOMAIN usertomap \cup {u}
    BY <2>1, <1>1 DEF create_user, IsMap, Put
  <2>3. /\ IsMap(loggedin_map', Users, BOOLEAN)
        /\ DOMAIN loggedin_map' = DOMAIN loggedin_map \cup {u}
    BY <1>1 DEF create_user, IsMap, Put
  <2> QED BY <2>2, <2>3, <1>1 DEF create_user
<1>2. ASSUME NEW u \in Users, NEW p \in Passwords, NEW a \in AddressesOf[u],
             login(u, p, a)
      PROVE  TypeOK'
  <2>0. u \in DOMAIN usertomap /\ u \in DOMAIN loggedin_map
    BY <1>2 DEF login, Registered
  <2>1. IsMap(loggedin_map', Users, BOOLEAN) /\ DOMAIN loggedin_map' = DOMAIN loggedin_map
    BY <2>0, <1>2 DEF login, IsMap
  <2>2. [usertomap[u] EXCEPT !.address = a] \in User
    BY <2>0, AddressesAssumption DEF User, IsMap
  <2>3. IsMap(usertomap', Users, User) /\ DOMAIN usertomap' = DOMAIN usertomap
    BY <2>0, <2>2, <1>2 DEF login, IsMap
  <2> QED BY <2>1, <2>3, <1>2 DEF login
<1>3. ASSUME NEW u \in Users, logout(u) PROVE TypeOK'
  <2>1. IsMap(loggedin_map', Users, BOOLEAN) /\ DOMAIN loggedin_map' = DOMAIN loggedin_map
    BY <1>3 DEF logout, IsMap
  <2> QED BY <2>1, <1>3 DEF logout
<1>4. ASSUME NEW g \in Groups, NEW u \in Users, create_group(g, u) PROVE TypeOK'
  <2>0. u \in DOMAIN usertomap
    BY <1>4 DEF create_group, LoggedIn, Registered
  <2>1. [adminid |-> u, members |-> {u}, files |-> {}, requests |-> {}] \in Group
    BY DEF Group
  <2>2. IsMap(grouptomap', Groups, Group)
    BY <2>1, <1>4 DEF create_group, IsMap, Put
  <2>3. [usertomap[u] EXCEPT !.groups = @ \cup {g}, !.mygroups = @ \cup {g}] \in User
    BY <2>0 DEF User, IsMap
  <2>4. usertomap' = [usertomap EXCEPT ![u] =
           [usertomap[u] EXCEPT !.groups = @ \cup {g}, !.mygroups = @ \cup {g}]]
    BY <2>0, <1>4 DEF create_group, IsMap
  <2>5. IsMap(usertomap', Users, User) /\ DOMAIN usertomap' = DOMAIN usertomap
    BY <2>0, <2>3, <2>4 DEF IsMap
  <2> QED BY <2>2, <2>5, <1>4 DEF create_group
<1>5. ASSUME NEW g \in Groups, NEW u \in Users, join_group(g, u) PROVE TypeOK'
  <2>1. g \in DOMAIN grouptomap
    BY <1>5 DEF join_group, MayJoin
  <2>2. [grouptomap[g] EXCEPT !.requests = @ \cup {u}] \in Group
    BY <2>1 DEF Group, IsMap
  <2>3. IsMap(grouptomap', Groups, Group)
    BY <2>1, <2>2, <1>5 DEF join_group, MayJoin, IsMap
  <2> QED BY <2>3, <1>5 DEF join_group, MayJoin
<1>6. ASSUME NEW g \in Groups, NEW u \in Users, leave_group(g, u) PROVE TypeOK'
  <2>1. g \in DOMAIN grouptomap
    BY <1>6 DEF leave_group, MayLeave, IsMember
  <2>2. [grouptomap[g] EXCEPT !.members = @ \ {u}] \in Group
    BY <2>1 DEF Group, IsMap
  <2>3. IsMap(grouptomap', Groups, Group)
    BY <2>1, <2>2, <1>6 DEF leave_group, MayLeave, IsMap
  <2> QED BY <2>3, <1>6 DEF leave_group, MayLeave
<1>7. ASSUME NEW g \in Groups, NEW u \in Users, NEW admin \in Users,
             accept_request(g, u, admin)
      PROVE  TypeOK'
  <2>1. g \in DOMAIN grouptomap
    BY <1>7 DEF accept_request, MayAccept, Admit
  <2>2. [grouptomap[g] EXCEPT !.requests = @ \ {u}, !.members = @ \cup {u}] \in Group
    BY <2>1 DEF Group, IsMap
  <2>3. grouptomap' = [grouptomap EXCEPT ![g] =
           [grouptomap[g] EXCEPT !.requests = @ \ {u}, !.members = @ \cup {u}]]
    BY <2>1, <1>7 DEF accept_request, MayAccept, Admit, IsMap
  <2>4. IsMap(grouptomap', Groups, Group)
    BY <2>1, <2>2, <2>3 DEF IsMap
  <2> QED BY <2>4, <1>7 DEF accept_request, MayAccept, Admit
<1>8. ASSUME NEW f \in Files, NEW g \in Groups, NEW u \in Users, upload_file(f, g, u)
      PROVE  TypeOK'
  <2>1. g \in DOMAIN grouptomap /\ u \in DOMAIN usertomap
    BY <1>8 DEF upload_file, AddSharer, IsMember, LoggedIn, Registered
  <2>2. usertomap[u].address \in Addresses
    BY <2>1 DEF User, IsMap
  <2>3. [grouptomap[g] EXCEPT !.files = @ \cup {f}] \in Group
    BY <2>1 DEF Group, IsMap
  <2>4. IsMap(grouptomap', Groups, Group)
    BY <2>1, <2>3, <1>8 DEF upload_file, AddSharer, IsMap
  <2>5. CASE f \in DOMAIN filetomap
    <3> DEFINE F == [filetomap[f] EXCEPT !.userids = @ \cup {u},
                                         !.users = @ \cup {usertomap[u].address}]
    <3>1. F \in FileStr
      BY <2>2, <2>5 DEF FileStr, IsMap
    <3>2. filetomap' = [filetomap EXCEPT ![f] = F]
      BY <2>5, <1>8 DEF upload_file, AddSharer, IsMap
    <3>3. IsMap(filetomap', Files, FileStr)
      BY <2>5, <3>1, <3>2 DEF IsMap
    <3> QED BY <3>3, <2>4, <1>8 DEF upload_file, AddSharer
  <2>6. CASE f \notin DOMAIN filetomap
    <3>1. [userids |-> {u}, users |-> {usertomap[u].address}] \in FileStr
      BY <2>2 DEF FileStr
    <3>2. IsMap(filetomap', Files, FileStr)
      BY <3>1, <2>6, <1>8 DEF upload_file, AddSharer, IsMap, Put
    <3> QED BY <3>2, <2>4, <1>8 DEF upload_file, AddSharer
  <2> QED BY <2>5, <2>6
<1>9. ASSUME NEW f \in Files, NEW g \in Groups, NEW u \in Users, stop_share(g, f, u)
      PROVE  TypeOK'
  <2>1. g \in DOMAIN grouptomap /\ f \in DOMAIN filetomap
    BY <1>9 DEF stop_share, LastSharer, RemoveSharer, DropFile, IsMember
  <2>2. [grouptomap[g] EXCEPT !.files = @ \ {f}] \in Group
    BY <2>1 DEF Group, IsMap
  <2>3. IsMap(grouptomap', Groups, Group)
    BY <2>1, <2>2, <1>9 DEF stop_share, LastSharer, RemoveSharer, DropFile, IsMap
  <2>4. CASE filetomap[f].userids = {u}
    BY <2>3, <2>4, <1>9 DEF stop_share, LastSharer, RemoveSharer, DropFile, IsMap, Erase
  <2>5. CASE filetomap[f].userids # {u}
    <3> DEFINE F == [filetomap[f] EXCEPT !.userids = @ \ {u},
                                         !.users = @ \ {usertomap[u].address}]
    <3>1. F \in FileStr
      BY <2>1 DEF FileStr, IsMap
    <3>2. filetomap' = [filetomap EXCEPT ![f] = F]
      BY <2>1, <2>5, <1>9 DEF stop_share, LastSharer, RemoveSharer, DropFile, IsMap
    <3>3. IsMap(filetomap', Files, FileStr)
      BY <2>1, <3>1, <3>2 DEF IsMap
    <3> QED BY <3>3, <2>3, <1>9 DEF stop_share, LastSharer, RemoveSharer, DropFile
  <2> QED BY <2>4, <2>5
<1>10. CASE UNCHANGED vars
  BY <1>10 DEF vars
<1> QED BY <1>1, <1>2, <1>3, <1>4, <1>5, <1>6, <1>7, <1>8, <1>9, <1>10 DEF Next

(* The maps of a tracker always hold well-formed records (TypeOK), whatever *)
(* commands it has carried out.                                             *)
THEOREM TypeCorrect == Spec => []TypeOK
<1>1. Init => TypeOK
  BY DEF Init, TypeOK, IsMap, EmptyMap
<1> QED BY <1>1, TypeStep, PTL DEF Spec

-----------------------------------------------------------------------------
(* Each command preserves the parts of the registry invariant. *)
LEMMA RegistryStep == RegistryInvariant /\ [Next]_vars => RegistryInvariant'
<1> SUFFICES ASSUME RegistryInvariant, [Next]_vars PROVE RegistryInvariant'
  OBVIOUS
<1>0. TypeOK /\ TypeOK'
  BY TypeStep DEF RegistryInvariant
<1> USE <1>0 DEF TypeOK, IsMap
<1>1. ASSUME NEW u \in Users, NEW p \in Passwords, NEW a \in AddressesOf[u],
             create_user(u, p, a)
      PROVE  RegistryInvariant'
  <2>1. (CatalogueMatchesGroups /\ EveryFileHasASharer /\ PendingIsNotMember)'
    BY <1>1 DEF create_user, RegistryInvariant, CatalogueMatchesGroups,
                EveryFileHasASharer, PendingIsNotMember
  <2>2. OnlyAccountsInvolved'
    BY <1>1 DEF create_user, Put, RegistryInvariant, OnlyAccountsInvolved
  <2>3. \A g \in DOMAIN grouptomap : grouptomap[g].adminid # u
    BY <1>1 DEF create_user, Registered, RegistryInvariant, OnlyAccountsInvolved,
                AdminOwnsGroup, IsMember
  <2>4. AdminOwnsGroup'
    BY <1>1, <2>3 DEF create_user, Put, RegistryInvariant, AdminOwnsGroup, IsMember
  <2> QED BY <2>1, <2>2, <2>4 DEF RegistryInvariant
<1>2. ASSUME NEW u \in Users, NEW p \in Passwords, NEW a \in AddressesOf[u],
             login(u, p, a)
      PROVE  RegistryInvariant'
  <2>1. (CatalogueMatchesGroups /\ EveryFileHasASharer /\ PendingIsNotMember)'
    BY <1>2 DEF login, RegistryInvariant, CatalogueMatchesGroups,
                EveryFileHasASharer, PendingIsNotMember
  <2>2. /\ DOMAIN usertomap' = DOMAIN usertomap
        /\ \A v \in DOMAIN usertomap : usertomap'[v].mygroups = usertomap[v].mygroups
    BY <1>2 DEF login, Registered, User
  <2>3. (AdminOwnsGroup /\ OnlyAccountsInvolved)'
    BY <1>2, <2>2 DEF login, RegistryInvariant, AdminOwnsGroup, OnlyAccountsInvolved, IsMember
  <2> QED BY <2>1, <2>3 DEF RegistryInvariant
<1>3. ASSUME NEW u \in Users, logout(u) PROVE RegistryInvariant'
  BY <1>3 DEF logout, RegistryInvariant, CatalogueMatchesGroups, EveryFileHasASharer,
              PendingIsNotMember, AdminOwnsGroup, OnlyAccountsInvolved, IsMember
<1>4. ASSUME NEW g \in Groups, NEW u \in Users, create_group(g, u)
      PROVE  RegistryInvariant'
  <2>1. /\ u \in DOMAIN usertomap /\ g \notin DOMAIN grouptomap
        /\ DOMAIN grouptomap' = DOMAIN grouptomap \cup {g}
        /\ grouptomap'[g] = [adminid |-> u, members |-> {u}, files |-> {}, requests |-> {}]
        /\ \A h \in DOMAIN grouptomap : grouptomap'[h] = grouptomap[h]
        /\ UNCHANGED filetomap
    BY <1>4 DEF create_group, Put, LoggedIn, Registered
  <2>2. (CatalogueMatchesGroups /\ EveryFileHasASharer /\ PendingIsNotMember)'
    BY <2>1 DEF RegistryInvariant, CatalogueMatchesGroups, EveryFileHasASharer,
                PendingIsNotMember
  <2>3. /\ DOMAIN usertomap' = DOMAIN usertomap
        /\ usertomap'[u].mygroups = usertomap[u].mygroups \cup {g}
        /\ \A v \in DOMAIN usertomap :
             v # u => usertomap'[v].mygroups = usertomap[v].mygroups
    BY <1>4, <2>1 DEF create_group, User
  <2>4. (AdminOwnsGroup /\ OnlyAccountsInvolved)'
    <3>1. (\A h \in DOMAIN grouptomap : IsMember(h, grouptomap[h].adminid))'
      BY <2>1 DEF RegistryInvariant, AdminOwnsGroup, IsMember
    <3>2. ASSUME NEW v \in DOMAIN usertomap
          PROVE  usertomap'[v].mygroups = {h \in DOMAIN grouptomap' : grouptomap'[h].adminid = v}
      BY <2>1, <2>3 DEF RegistryInvariant, AdminOwnsGroup
    <3>3. OnlyAccountsInvolved'
      BY <2>1, <2>3 DEF RegistryInvariant, OnlyAccountsInvolved
    <3> QED BY <3>1, <3>2, <3>3, <2>3 DEF AdminOwnsGroup
  <2> QED BY <2>2, <2>4 DEF RegistryInvariant
<1>5. ASSUME NEW g \in Groups, NEW u \in Users,
             join_group(g, u)
      PROVE  RegistryInvariant'
  <2>1. /\ g \in DOMAIN grouptomap /\ u \in DOMAIN usertomap /\ u \notin grouptomap[g].members
        /\ UNCHANGED <<usertomap, filetomap>>
        /\ DOMAIN grouptomap' = DOMAIN grouptomap
        /\ grouptomap'[g].members = grouptomap[g].members
        /\ grouptomap'[g].requests = grouptomap[g].requests \cup {u}
        /\ \A h \in DOMAIN grouptomap : h # g => grouptomap'[h] = grouptomap[h]
        /\ \A h \in DOMAIN grouptomap : /\ grouptomap'[h].files = grouptomap[h].files
                                        /\ grouptomap'[h].adminid = grouptomap[h].adminid
    BY <1>5 DEF join_group, MayJoin, LoggedIn, Registered, IsMember, Group
  <2>2. (CatalogueMatchesGroups /\ EveryFileHasASharer)'
    BY <2>1 DEF RegistryInvariant, CatalogueMatchesGroups, EveryFileHasASharer
  <2>3. PendingIsNotMember'
    BY <2>1 DEF RegistryInvariant, PendingIsNotMember
  <2>4. AdminOwnsGroup'
    BY <2>1 DEF RegistryInvariant, AdminOwnsGroup, IsMember
  <2>5. OnlyAccountsInvolved'
    BY <2>1 DEF RegistryInvariant, OnlyAccountsInvolved
  <2> QED BY <2>2, <2>3, <2>4, <2>5 DEF RegistryInvariant
<1>6. ASSUME NEW g \in Groups, NEW u \in Users,
             leave_group(g, u)
      PROVE  RegistryInvariant'
  <2>1. /\ g \in DOMAIN grouptomap /\ u # grouptomap[g].adminid
        /\ UNCHANGED <<usertomap, filetomap>>
        /\ DOMAIN grouptomap' = DOMAIN grouptomap
        /\ grouptomap'[g].members = grouptomap[g].members \ {u}
        /\ grouptomap'[g].requests = grouptomap[g].requests
        /\ \A h \in DOMAIN grouptomap : h # g => grouptomap'[h] = grouptomap[h]
        /\ \A h \in DOMAIN grouptomap : /\ grouptomap'[h].files = grouptomap[h].files
                                        /\ grouptomap'[h].adminid = grouptomap[h].adminid
    BY <1>6 DEF leave_group, MayLeave, IsMember, Group
  <2>2. (CatalogueMatchesGroups /\ EveryFileHasASharer)'
    BY <2>1 DEF RegistryInvariant, CatalogueMatchesGroups, EveryFileHasASharer
  <2>3. PendingIsNotMember'
    BY <2>1 DEF RegistryInvariant, PendingIsNotMember
  <2>4. AdminOwnsGroup'
    BY <2>1 DEF RegistryInvariant, AdminOwnsGroup, IsMember
  <2>5. OnlyAccountsInvolved'
    BY <2>1 DEF RegistryInvariant, OnlyAccountsInvolved
  <2> QED BY <2>2, <2>3, <2>4, <2>5 DEF RegistryInvariant
<1>7. ASSUME NEW g \in Groups, NEW u \in Users, NEW admin \in Users,
             accept_request(g, u, admin)
      PROVE  RegistryInvariant'
  <2>1. /\ g \in DOMAIN grouptomap /\ u \in DOMAIN usertomap
        /\ UNCHANGED <<usertomap, filetomap>>
        /\ DOMAIN grouptomap' = DOMAIN grouptomap
        /\ grouptomap'[g].members = grouptomap[g].members \cup {u}
        /\ grouptomap'[g].requests = grouptomap[g].requests \ {u}
        /\ \A h \in DOMAIN grouptomap : h # g => grouptomap'[h] = grouptomap[h]
        /\ \A h \in DOMAIN grouptomap : /\ grouptomap'[h].files = grouptomap[h].files
                                        /\ grouptomap'[h].adminid = grouptomap[h].adminid
    BY <1>7 DEF accept_request, MayAccept, Admit, Registered, Group
  <2>2. (CatalogueMatchesGroups /\ EveryFileHasASharer)'
    BY <2>1 DEF RegistryInvariant, CatalogueMatchesGroups, EveryFileHasASharer
  <2>3. PendingIsNotMember'
    BY <2>1 DEF RegistryInvariant, PendingIsNotMember
  <2>4. AdminOwnsGroup'
    BY <2>1 DEF RegistryInvariant, AdminOwnsGroup, IsMember
  <2>5. OnlyAccountsInvolved'
    BY <2>1 DEF RegistryInvariant, OnlyAccountsInvolved
  <2> QED BY <2>2, <2>3, <2>4, <2>5 DEF RegistryInvariant
<1>8. ASSUME NEW f \in Files, NEW g \in Groups, NEW u \in Users, upload_file(f, g, u)
      PROVE  RegistryInvariant'
  <2>1. /\ u \in DOMAIN usertomap /\ g \in DOMAIN grouptomap
        /\ UNCHANGED usertomap
    BY <1>8 DEF upload_file, AddSharer, IsMember, LoggedIn, Registered
  <2>2. CASE f \in DOMAIN filetomap
    <3>1. /\ DOMAIN filetomap' = DOMAIN filetomap
          /\ filetomap'[f].userids = filetomap[f].userids \cup {u}
          /\ \A e \in DOMAIN filetomap : e # f => filetomap'[e] = filetomap[e]
          /\ UNCHANGED grouptomap
      BY <2>2, <1>8 DEF upload_file, AddSharer, FileStr
    <3>2. (CatalogueMatchesGroups /\ PendingIsNotMember /\ AdminOwnsGroup)'
      BY <3>1, <2>1 DEF RegistryInvariant, CatalogueMatchesGroups, PendingIsNotMember,
                        AdminOwnsGroup, IsMember
    <3>3. EveryFileHasASharer'
      BY <3>1, <2>1, <2>2 DEF RegistryInvariant, EveryFileHasASharer
    <3>4. OnlyAccountsInvolved'
      BY <3>1, <2>1 DEF RegistryInvariant, OnlyAccountsInvolved
    <3> QED BY <3>2, <3>3, <3>4 DEF RegistryInvariant
  <2>3. CASE f \notin DOMAIN filetomap
    <3>1. /\ DOMAIN filetomap' = DOMAIN filetomap \cup {f}
          /\ filetomap'[f].userids = {u}
          /\ \A e \in DOMAIN filetomap : filetomap'[e] = filetomap[e]
      BY <2>3, <1>8 DEF upload_file, AddSharer, Put
    <3>2. /\ DOMAIN grouptomap' = DOMAIN grouptomap
          /\ grouptomap'[g].files = grouptomap[g].files \cup {f}
          /\ \A h \in DOMAIN grouptomap : h # g => grouptomap'[h].files = grouptomap[h].files
          /\ \A h \in DOMAIN grouptomap : /\ grouptomap'[h].members = grouptomap[h].members
                                          /\ grouptomap'[h].requests = grouptomap[h].requests
                                          /\ grouptomap'[h].adminid = grouptomap[h].adminid
      BY <2>1, <2>3, <1>8 DEF upload_file, AddSharer, Group
    <3>3. CatalogueMatchesGroups'
      <4>1. CatalogueMatchesGroups /\ \A h \in DOMAIN grouptomap : f \notin grouptomap[h].files
        BY <2>3 DEF RegistryInvariant, CatalogueMatchesGroups
      <4>2. \A e \in DOMAIN filetomap' : \E h \in DOMAIN grouptomap' : e \in grouptomap'[h].files
        <5>1. ASSUME NEW e \in DOMAIN filetomap
              PROVE  \E h \in DOMAIN grouptomap' : e \in grouptomap'[h].files
          BY <3>2, <4>1 DEF CatalogueMatchesGroups
        <5> QED BY <2>1, <3>1, <3>2, <5>1
      <4>3. ASSUME NEW h \in DOMAIN grouptomap, NEW i \in DOMAIN grouptomap, NEW e \in grouptomap'[h].files
            PROVE  e \in DOMAIN filetomap' /\ (e \in grouptomap'[i].files => h = i)
        <5>1. CASE e = f
          BY <3>1, <3>2, <4>1, <5>1
        <5>2. CASE e # f
          <6>1. e \in grouptomap[h].files /\ (e \in grouptomap'[i].files => e \in grouptomap[i].files)
            BY <3>2, <4>3, <5>2
          <6> QED BY <3>1, <4>1, <6>1 DEF CatalogueMatchesGroups
        <5> QED BY <5>1, <5>2
      <4> QED BY <3>2, <4>2, <4>3 DEF CatalogueMatchesGroups
    <3>4. (EveryFileHasASharer /\ PendingIsNotMember /\ OnlyAccountsInvolved)'
      BY <3>1, <3>2, <2>1 DEF RegistryInvariant, EveryFileHasASharer, PendingIsNotMember,
                              OnlyAccountsInvolved
    <3>5. AdminOwnsGroup'
      BY <3>2, <2>1 DEF RegistryInvariant, AdminOwnsGroup, IsMember
    <3> QED BY <3>3, <3>4, <3>5 DEF RegistryInvariant
  <2> QED BY <2>2, <2>3
<1>9. ASSUME NEW f \in Files, NEW g \in Groups, NEW u \in Users, stop_share(g, f, u)
      PROVE  RegistryInvariant'
  <2>1. /\ g \in DOMAIN grouptomap /\ f \in DOMAIN filetomap
        /\ f \in grouptomap[g].files
        /\ u \in filetomap[f].userids
        /\ UNCHANGED usertomap
    BY <1>9 DEF stop_share, LastSharer, RemoveSharer, DropFile, IsMember
  <2>2. CASE filetomap[f].userids # {u}
    <3>1. /\ DOMAIN filetomap' = DOMAIN filetomap
          /\ filetomap'[f].userids = filetomap[f].userids \ {u}
          /\ \A e \in DOMAIN filetomap : e # f => filetomap'[e] = filetomap[e]
          /\ UNCHANGED grouptomap
      BY <2>1, <2>2, <1>9 DEF stop_share, LastSharer, RemoveSharer, DropFile, FileStr
    <3>2. (CatalogueMatchesGroups /\ PendingIsNotMember /\ AdminOwnsGroup)'
      BY <3>1, <2>1 DEF RegistryInvariant, CatalogueMatchesGroups, PendingIsNotMember,
                        AdminOwnsGroup, IsMember
    <3>3. EveryFileHasASharer'
      BY <3>1, <2>1, <2>2 DEF RegistryInvariant, EveryFileHasASharer
    <3>4. OnlyAccountsInvolved'
      BY <3>1, <2>1 DEF RegistryInvariant, OnlyAccountsInvolved
    <3> QED BY <3>2, <3>3, <3>4 DEF RegistryInvariant
  <2>3. CASE filetomap[f].userids = {u}
    <3>1. /\ DOMAIN filetomap' = DOMAIN filetomap \ {f}
          /\ \A e \in DOMAIN filetomap' : filetomap'[e] = filetomap[e]
      BY <2>3, <1>9 DEF stop_share, LastSharer, RemoveSharer, DropFile, Erase
    <3>2. /\ DOMAIN grouptomap' = DOMAIN grouptomap
          /\ grouptomap'[g].files = grouptomap[g].files \ {f}
          /\ \A h \in DOMAIN grouptomap : h # g => grouptomap'[h].files = grouptomap[h].files
          /\ \A h \in DOMAIN grouptomap : /\ grouptomap'[h].members = grouptomap[h].members
                                          /\ grouptomap'[h].requests = grouptomap[h].requests
                                          /\ grouptomap'[h].adminid = grouptomap[h].adminid
      BY <2>1, <2>3, <1>9 DEF stop_share, LastSharer, RemoveSharer, DropFile, Group
    <3>3. CatalogueMatchesGroups'
      BY <3>1, <3>2, <2>1 DEF RegistryInvariant, CatalogueMatchesGroups
    <3>4. (EveryFileHasASharer /\ PendingIsNotMember /\ OnlyAccountsInvolved)'
      BY <3>1, <3>2, <2>1 DEF RegistryInvariant, EveryFileHasASharer, PendingIsNotMember,
                              OnlyAccountsInvolved
    <3>5. AdminOwnsGroup'
      BY <3>2, <2>1 DEF RegistryInvariant, AdminOwnsGroup, IsMember
    <3> QED BY <3>3, <3>4, <3>5 DEF RegistryInvariant
  <2> QED BY <2>2, <2>3
<1>10. CASE UNCHANGED vars
  BY <1>10 DEF vars, RegistryInvariant, CatalogueMatchesGroups, EveryFileHasASharer,
               PendingIsNotMember, AdminOwnsGroup, OnlyAccountsInvolved, IsMember
<1> QED BY <1>1, <1>2, <1>3, <1>4, <1>5, <1>6, <1>7, <1>8, <1>9, <1>10 DEF Next

(* The registry stays consistent over every sequence of commands: the      *)
(* file catalogue agrees with the groups, files have sharers, membership   *)
(* and waiting exclude each other, admins own their groups, and only       *)
(* accounts take part.                                                     *)
THEOREM RegistryConsistent == Spec => []RegistryInvariant
<1>1. Init => RegistryInvariant
  BY DEF Init, RegistryInvariant, TypeOK, IsMap, EmptyMap, CatalogueMatchesGroups,
         EveryFileHasASharer, PendingIsNotMember, AdminOwnsGroup, OnlyAccountsInvolved
<1> QED BY <1>1, RegistryStep, PTL DEF Spec

(* A file is registered exactly while some group lists it, and then one    *)
(* group only (upload_file, stop_share, DropFile).                         *)
THEOREM CatalogueRight == Spec => []CatalogueMatchesGroups
<1>1. RegistryInvariant => CatalogueMatchesGroups
  BY DEF RegistryInvariant
<1> QED BY <1>1, RegistryConsistent, PTL

(* No registered file is without a sharer: the last one takes the file     *)
(* with it (stop_share).                                                   *)
THEOREM SharersRemain == Spec => []EveryFileHasASharer
<1>1. RegistryInvariant => EveryFileHasASharer
  BY DEF RegistryInvariant
<1> QED BY <1>1, RegistryConsistent, PTL

(* Nobody waits for a group it is in (join_group, accept_request,          *)
(* leave_group).                                                           *)
THEOREM PendingOrMember == Spec => []PendingIsNotMember
<1>1. RegistryInvariant => PendingIsNotMember
  BY DEF RegistryInvariant
<1> QED BY <1>1, RegistryConsistent, PTL

(* The admin of a group is one of its members and its account knows        *)
(* (create_group, leave_group).                                            *)
THEOREM AdminsIn == Spec => []AdminOwnsGroup
<1>1. RegistryInvariant => AdminOwnsGroup
  BY DEF RegistryInvariant
<1> QED BY <1>1, RegistryConsistent, PTL

(* No group or file names a user without an account (create_group,         *)
(* join_group, upload_file): no lookup in usertomap makes a null pointer.  *)
THEOREM AccountsOnly == Spec => []OnlyAccountsInvolved
<1>1. RegistryInvariant => OnlyAccountsInvolved
  BY DEF RegistryInvariant
<1> QED BY <1>1, RegistryConsistent, PTL

-----------------------------------------------------------------------------
(* A file leaves the registry only with its last sharer, and keeps its     *)
(* group until then (upload_file, stop_share).                             *)
THEOREM FilesStay == Spec => FileStaysWhileShared
<1> DEFINE Stays ==
      \A f \in DOMAIN filetomap :
        IF f \in DOMAIN filetomap'
        THEN \A g \in DOMAIN grouptomap :
               f \in grouptomap[g].files => f \in grouptomap'[g].files
        ELSE \E u \in Users : filetomap[f].userids = {u}
<1>1. ASSUME TypeOK, [Next]_vars PROVE [Stays]_vars
  <2> USE <1>1 DEF TypeOK, IsMap
  <2>1. CASE UNCHANGED <<grouptomap, filetomap>>
    BY <2>1
  <2>2. ASSUME NEW g \in Groups, NEW u \in Users, create_group(g, u) PROVE Stays
    BY <2>2 DEF create_group, Put
  <2>3. ASSUME NEW g \in Groups, NEW u \in Users, join_group(g, u) PROVE Stays
    BY <2>3 DEF join_group, MayJoin, Group
  <2>4. ASSUME NEW g \in Groups, NEW u \in Users, leave_group(g, u) PROVE Stays
    BY <2>4 DEF leave_group, MayLeave, Group
  <2>5. ASSUME NEW g \in Groups, NEW u \in Users, NEW admin \in Users,
               accept_request(g, u, admin)
        PROVE  Stays
    BY <2>5 DEF accept_request, MayAccept, Admit, Group
  <2>6. ASSUME NEW f \in Files, NEW g \in Groups, NEW u \in Users, upload_file(f, g, u)
        PROVE  Stays
    BY <2>6 DEF upload_file, AddSharer, Put, Group
  <2>7. ASSUME NEW f \in Files, NEW g \in Groups, NEW u \in Users, stop_share(g, f, u)
        PROVE  Stays
    BY <2>7 DEF stop_share, LastSharer, RemoveSharer, DropFile, Erase, Group
  <2> HIDE DEF Stays
  <2> QED BY <2>1, <2>2, <2>3, <2>4, <2>5, <2>6, <2>7
             DEF Next, create_user, login, logout, vars
<1>2. [][Stays]_vars => FileStaysWhileShared
  BY DEF FileStaysWhileShared
<1> QED BY <1>1, <1>2, TypeCorrect, PTL DEF Spec

-----------------------------------------------------------------------------
(* The registry implements GroupMembership. *)

(* A step that gives one user another role in one group, and nobody else,  *)
(* is the abstract step Become.                                            *)
LEMMA OneRoleChanges ==
  ASSUME NEW g \in Groups, NEW u \in Users, NEW r,
         RoleOf(g, u)' = r,
         \A h \in Groups, v \in Users : <<h, v>> # <<g, u>> => RoleOf(h, v)' = RoleOf(h, v)
  PROVE  Membership!Become(g, u, r)
<1>1. ASSUME NEW h \in Groups, NEW v \in Users
      PROVE  roleBar'[h][v] = IF h = g /\ v = u THEN r ELSE roleBar[h][v]
  BY DEF roleBar
<1>2. ASSUME NEW h \in Groups
      PROVE  roleBar'[h] = IF h = g THEN [roleBar[h] EXCEPT ![u] = r] ELSE roleBar[h]
  BY <1>1 DEF roleBar
<1> QED BY <1>2 DEF roleBar, Membership!Become

(* A step that keeps every user's role is a stutter of the abstraction. *)
LEMMA NoRoleChanges ==
  ASSUME \A h \in Groups, v \in Users : RoleOf(h, v)' = RoleOf(h, v)
  PROVE  UNCHANGED roleBar
BY DEF roleBar

(* Every command is a step of GroupMembership or leaves all roles alone. *)
LEMMA RoleStep == RegistryInvariant /\ [Next]_vars => [Membership!Next]_roleBar
<1> SUFFICES ASSUME RegistryInvariant, [Next]_vars PROVE [Membership!Next]_roleBar
  OBVIOUS
<1> USE DEF RegistryInvariant, TypeOK, IsMap
<1>1. CASE UNCHANGED grouptomap
  <2>1. UNCHANGED roleBar
    BY <1>1, NoRoleChanges DEF RoleOf
  <2> QED BY <2>1
<1>2. ASSUME NEW g \in Groups, NEW u \in Users, create_group(g, u)
      PROVE  Membership!Next
  <2>1. Membership!Become(g, u, "admin")
    <3>1. RoleOf(g, u)' = "admin"
      BY <1>2 DEF create_group, Put, RoleOf
    <3>2. ASSUME NEW h \in Groups, NEW v \in Users, <<h, v>> # <<g, u>>
          PROVE  RoleOf(h, v)' = RoleOf(h, v)
      BY <1>2, <3>2 DEF create_group, Put, RoleOf
    <3> QED BY <3>1, <3>2, OneRoleChanges
  <2>2. ~Membership!Founded(g)
    BY <1>2 DEF create_group, Membership!Founded, roleBar, RoleOf
  <2> QED BY <2>1, <2>2 DEF Membership!Next, Membership!Found
<1>3. ASSUME NEW g \in Groups, NEW u \in Users, join_group(g, u)
      PROVE  Membership!Next \/ UNCHANGED roleBar
  <2>1. /\ g \in DOMAIN grouptomap /\ u \notin grouptomap[g].members
        /\ DOMAIN grouptomap' = DOMAIN grouptomap
        /\ grouptomap'[g].requests = grouptomap[g].requests \cup {u}
        /\ \A h \in DOMAIN grouptomap : h # g => grouptomap'[h] = grouptomap[h]
        /\ grouptomap'[g].members = grouptomap[g].members
        /\ grouptomap'[g].adminid = grouptomap[g].adminid
    BY <1>3 DEF join_group, MayJoin, IsMember, Group
  <2>2. CASE u \in grouptomap[g].requests
    <3>1. UNCHANGED roleBar
      BY <2>1, <2>2, NoRoleChanges DEF RoleOf
    <3> QED BY <3>1
  <2>3. CASE u \notin grouptomap[g].requests
    <3>1. RoleOf(g, u)' = "pending"
      BY <2>1 DEF RoleOf
    <3>2. ASSUME NEW h \in Groups, NEW v \in Users, <<h, v>> # <<g, u>>
          PROVE  RoleOf(h, v)' = RoleOf(h, v)
      BY <2>1, <3>2 DEF RoleOf
    <3>3. Membership!Become(g, u, "pending")
      BY <3>1, <3>2, OneRoleChanges
    <3>4. roleBar[g][u] = "none"
      BY <2>1, <2>3 DEF roleBar, RoleOf
    <3>5. Membership!Founded(g)
      BY <2>1 DEF Membership!Founded, roleBar, RoleOf, AdminOwnsGroup, IsMember, Group
    <3> QED BY <3>3, <3>4, <3>5 DEF Membership!Next, Membership!Ask
  <2> QED BY <2>2, <2>3
<1>4. ASSUME NEW g \in Groups, NEW u \in Users, leave_group(g, u)
      PROVE  Membership!Next
  <2>1. /\ g \in DOMAIN grouptomap /\ u \in grouptomap[g].members
        /\ u # grouptomap[g].adminid
        /\ u \notin grouptomap[g].requests
        /\ DOMAIN grouptomap' = DOMAIN grouptomap
        /\ grouptomap'[g].members = grouptomap[g].members \ {u}
        /\ \A h \in DOMAIN grouptomap : h # g => grouptomap'[h] = grouptomap[h]
        /\ grouptomap'[g].requests = grouptomap[g].requests
        /\ grouptomap'[g].adminid = grouptomap[g].adminid
    BY <1>4 DEF leave_group, MayLeave, IsMember, Group, PendingIsNotMember
  <2>2. RoleOf(g, u)' = "none"
    BY <2>1 DEF RoleOf
  <2>3. ASSUME NEW h \in Groups, NEW v \in Users, <<h, v>> # <<g, u>>
        PROVE  RoleOf(h, v)' = RoleOf(h, v)
    BY <2>1, <2>3 DEF RoleOf
  <2>4. Membership!Become(g, u, "none")
    BY <2>2, <2>3, OneRoleChanges
  <2>5. roleBar[g][u] = "member"
    BY <2>1 DEF roleBar, RoleOf
  <2> QED BY <2>4, <2>5 DEF Membership!Next, Membership!Leave
<1>5. ASSUME NEW g \in Groups, NEW u \in Users, NEW admin \in Users,
             accept_request(g, u, admin)
      PROVE  Membership!Next
  <2>0. \A h \in DOMAIN grouptomap : /\ grouptomap[h].adminid \in grouptomap[h].members
                                    /\ grouptomap[h].members \cap grouptomap[h].requests = {}
    BY DEF AdminOwnsGroup, IsMember, PendingIsNotMember
  <2>1. /\ g \in DOMAIN grouptomap /\ u \in grouptomap[g].requests
        /\ u \notin grouptomap[g].members
        /\ u # grouptomap[g].adminid
        /\ DOMAIN grouptomap' = DOMAIN grouptomap
        /\ grouptomap'[g].members = grouptomap[g].members \cup {u}
        /\ \A h \in DOMAIN grouptomap : h # g => grouptomap'[h] = grouptomap[h]
        /\ grouptomap'[g].requests = grouptomap[g].requests \ {u}
        /\ grouptomap'[g].adminid = grouptomap[g].adminid
    BY <2>0, <1>5 DEF accept_request, MayAccept, Admit, Group
  <2>2. RoleOf(g, u)' = "member"
    BY <2>1 DEF RoleOf
  <2>3. ASSUME NEW h \in Groups, NEW v \in Users, <<h, v>> # <<g, u>>
        PROVE  RoleOf(h, v)' = RoleOf(h, v)
    BY <2>1, <2>3 DEF RoleOf
  <2>4. Membership!Become(g, u, "member")
    BY <2>2, <2>3, OneRoleChanges
  <2>5. roleBar[g][u] = "pending"
    BY <2>1 DEF roleBar, RoleOf
  <2> QED BY <2>4, <2>5 DEF Membership!Next, Membership!Admit
<1>6. ASSUME NEW f \in Files, NEW g \in Groups, NEW u \in Users,
             upload_file(f, g, u) \/ stop_share(g, f, u)
      PROVE  UNCHANGED roleBar
  <2>1. /\ DOMAIN grouptomap' = DOMAIN grouptomap
        /\ \A h \in DOMAIN grouptomap : /\ grouptomap'[h].members = grouptomap[h].members
                                        /\ grouptomap'[h].requests = grouptomap[h].requests
                                        /\ grouptomap'[h].adminid = grouptomap[h].adminid
    BY <1>6 DEF upload_file, AddSharer, stop_share, LastSharer, RemoveSharer, DropFile, Group
  <2> QED BY <2>1, NoRoleChanges DEF RoleOf
<1> QED BY <1>1, <1>2, <1>3, <1>4, <1>5, <1>6
           DEF Next, create_user, login, logout, vars

(* Whatever happens to the registry, every user's role in a group follows  *)
(* GroupMembership: founded once, asked for, admitted, left.               *)
THEOREM MembershipImplemented == Spec => ImplementsMembership
<1>1. Init => Membership!Init
  BY DEF Init, Membership!Init, roleBar, RoleOf, EmptyMap
<1>2. Membership!Init /\ [][Membership!Next]_roleBar => ImplementsMembership
  BY DEF ImplementsMembership, Membership!Spec
<1> QED BY <1>1, <1>2, RoleStep, RegistryConsistent, PTL DEF Spec

-----------------------------------------------------------------------------
(* Every account's address is one its user logs in from. *)
AddressesAreOwn == \A u \in DOMAIN usertomap : usertomap[u].address \in AddressesOf[u]

LEMMA AddressStep ==
  ASSUME FixedAddresses, RegistryInvariant, AddressesAreOwn, AddressesMatchSharers,
         [Next]_vars
  PROVE  AddressesAreOwn' /\ AddressesMatchSharers'
<1> USE DEF RegistryInvariant, TypeOK, IsMap
<1>1. ASSUME NEW u \in Users, NEW p \in Passwords, NEW a \in AddressesOf[u],
             create_user(u, p, a)
      PROVE  AddressesAreOwn' /\ AddressesMatchSharers'
  <2>1. /\ DOMAIN usertomap' = DOMAIN usertomap \cup {u}
        /\ usertomap'[u].address = a
        /\ \A v \in DOMAIN usertomap : usertomap'[v] = usertomap[v]
        /\ UNCHANGED filetomap
    BY <1>1 DEF create_user, Put, Registered
  <2> QED BY <2>1 DEF AddressesAreOwn, AddressesMatchSharers, OnlyAccountsInvolved
<1>2. ASSUME \/ UNCHANGED usertomap
             \/ \E u \in Users, p \in Passwords : \E a \in AddressesOf[u] : login(u, p, a)
             \/ \E g \in Groups, u \in Users : create_group(g, u),
             UNCHANGED filetomap
      PROVE  AddressesAreOwn' /\ AddressesMatchSharers'
  <2>1. /\ DOMAIN usertomap' = DOMAIN usertomap
        /\ \A v \in DOMAIN usertomap : usertomap'[v].address = usertomap[v].address
    <3>1. CASE UNCHANGED usertomap
      BY <3>1
    <3>2. ASSUME NEW u \in Users, NEW p \in Passwords, NEW a \in AddressesOf[u],
                 login(u, p, a)
          PROVE  /\ DOMAIN usertomap' = DOMAIN usertomap
                 /\ \A v \in DOMAIN usertomap : usertomap'[v].address = usertomap[v].address
      <4>1. u \in DOMAIN usertomap /\ usertomap[u].address = a
        BY <3>2 DEF login, Registered, AddressesAreOwn, FixedAddresses
      <4> QED BY <3>2, <4>1 DEF login, User
    <3>3. ASSUME NEW g \in Groups, NEW u \in Users, create_group(g, u)
          PROVE  /\ DOMAIN usertomap' = DOMAIN usertomap
                 /\ \A v \in DOMAIN usertomap : usertomap'[v].address = usertomap[v].address
      BY <3>3 DEF create_group, User
    <3> QED BY <1>2, <3>1, <3>2, <3>3
  <2>2. AddressesAreOwn'
    BY <2>1 DEF AddressesAreOwn
  <2>3. AddressesMatchSharers'
    BY <2>1, <1>2 DEF AddressesMatchSharers, OnlyAccountsInvolved
  <2> QED BY <2>2, <2>3
<1>3. ASSUME NEW f \in Files, NEW g \in Groups, NEW u \in Users, upload_file(f, g, u)
      PROVE  AddressesAreOwn' /\ AddressesMatchSharers'
  <2>1. UNCHANGED usertomap /\ u \in DOMAIN usertomap
    BY <1>3 DEF upload_file, AddSharer, LoggedIn, Registered
  <2>2. CASE f \in DOMAIN filetomap
    <3>1. /\ DOMAIN filetomap' = DOMAIN filetomap
          /\ filetomap'[f].userids = filetomap[f].userids \cup {u}
          /\ filetomap'[f].users = filetomap[f].users \cup {usertomap[u].address}
          /\ \A e \in DOMAIN filetomap : e # f => filetomap'[e] = filetomap[e]
      BY <2>2, <1>3 DEF upload_file, AddSharer, FileStr
    <3> QED BY <2>1, <3>1 DEF AddressesAreOwn, AddressesMatchSharers
  <2>3. CASE f \notin DOMAIN filetomap
    <3>1. /\ DOMAIN filetomap' = DOMAIN filetomap \cup {f}
          /\ filetomap'[f].userids = {u}
          /\ filetomap'[f].users = {usertomap[u].address}
          /\ \A e \in DOMAIN filetomap : filetomap'[e] = filetomap[e]
      BY <2>3, <1>3 DEF upload_file, AddSharer, Put
    <3> QED BY <2>1, <3>1 DEF AddressesAreOwn, AddressesMatchSharers
  <2> QED BY <2>2, <2>3
<1>4. ASSUME NEW f \in Files, NEW g \in Groups, NEW u \in Users, stop_share(g, f, u)
      PROVE  AddressesAreOwn' /\ AddressesMatchSharers'
  <2>1. /\ UNCHANGED usertomap
        /\ f \in DOMAIN filetomap /\ u \in filetomap[f].userids
        /\ filetomap[f].userids \subseteq DOMAIN usertomap
    BY <1>4 DEF stop_share, LastSharer, RemoveSharer, DropFile, OnlyAccountsInvolved
  <2>2. CASE filetomap[f].userids # {u}
    <3>1. /\ DOMAIN filetomap' = DOMAIN filetomap
          /\ filetomap'[f].userids = filetomap[f].userids \ {u}
          /\ filetomap'[f].users = filetomap[f].users \ {usertomap[u].address}
          /\ \A e \in DOMAIN filetomap : e # f => filetomap'[e] = filetomap[e]
      BY <2>2, <2>1, <1>4 DEF stop_share, LastSharer, RemoveSharer, DropFile, FileStr
    <3>2. \A v \in filetomap[f].userids :
            usertomap[v].address = usertomap[u].address => v = u
      BY <2>1 DEF AddressesAreOwn, FixedAddresses
    <3>3. filetomap'[f].users = {usertomap[v].address : v \in filetomap'[f].userids}
      BY <3>1, <3>2, <2>1 DEF AddressesMatchSharers
    <3> QED BY <2>1, <3>1, <3>3 DEF AddressesAreOwn, AddressesMatchSharers
  <2>3. CASE filetomap[f].userids = {u}
    <3>1. /\ DOMAIN filetomap' = DOMAIN filetomap \ {f}
          /\ \A e \in DOMAIN filetomap' : filetomap'[e] = filetomap[e]
      BY <2>3, <1>4 DEF stop_share, LastSharer, RemoveSharer, DropFile, Erase
    <3> QED BY <2>1, <3>1 DEF AddressesAreOwn, AddressesMatchSharers
  <2> QED BY <2>2, <2>3
<1> QED BY <1>1, <1>2, <1>3, <1>4
           DEF Next, logout, join_group, leave_group, accept_request, Admit,
               create_group, login, vars

(* If each user has one address, which no other user has, every sharer of  *)
(* a file is known by the address of its account (upload_file, stop_share, *)
(* login).  Both are needed: two users at one address are enough for the   *)
(* code to forget a sharer.                                                *)
THEOREM AddressesAgree ==
  ASSUME FixedAddresses PROVE Spec => []AddressesMatchSharers
<1>1. Init => AddressesAreOwn /\ AddressesMatchSharers
  BY DEF Init, EmptyMap, AddressesAreOwn, AddressesMatchSharers
<1>2. ASSUME RegistryInvariant, AddressesAreOwn /\ AddressesMatchSharers, [Next]_vars
      PROVE  (AddressesAreOwn /\ AddressesMatchSharers)'
  BY <1>2, AddressStep
<1> QED BY <1>1, <1>2, RegistryConsistent, PTL DEF Spec

(* Under the same assumption (one address for each user, and none for two) *)
(* a sharer who is logged in is always offered to downloaders              *)
(* (download_file, login).                                                 *)
THEOREM SharersOffered ==
  ASSUME FixedAddresses PROVE Spec => []OnlineSharersOffered
<1>1. RegistryInvariant /\ AddressesMatchSharers => OnlineSharersOffered
  BY DEF RegistryInvariant, AddressesMatchSharers, OnlineSharersOffered, PeersOf
<1> QED BY <1>1, AddressesAgree, RegistryConsistent, PTL
=============================================================================
