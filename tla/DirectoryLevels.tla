--------------------------- MODULE DirectoryLevels ---------------------------
(* What the explorer of assignment 1 does with one directory when it       *)
(* copies, moves, deletes or searches it: copy_level is the body of        *)
(* copy_dir in Directories with CopyDir in place of its call of itself,    *)
(* and so on.                                                              *)
(* With copy_dir for CopyDir the two are the same; proofs use this one.    *)
EXTENDS FileTree

CONSTANTS CopyDir(_, _, _, _, _),       \* tree, source, destination, order, open
          MoveDir(_, _, _, _, _),
          RemoveDir(_, _, _, _),        \* tree, path, order, open
          SearchExec(_, _, _, _)        \* tree, source, key, open

CopyEntry(on, name, u) ==
  LET s == Append(on.source, name)
      d == Append(on.destination, name)
  IN IF ~InListing(on.tree, on.source, name) THEN u
     ELSE IF checkDir(u, s) THEN CopyDir(u, s, d, on.order, on.open + 1)
     ELSE copy_file(u, s, d)

CopyEntries(on) == FoldLeft(LAMBDA u, name : CopyEntry(on, name, u), on.tree, on.order)

copy_level(t, source, destination, order, open) ==
  LET made == mkdir(t, destination)
  IN IF ~CanMake(t, destination) THEN t
     ELSE IF open = MaxOpen THEN made
     ELSE CopyEntries([tree |-> made, source |-> source, destination |-> destination,
                       order |-> order, open |-> open])

MoveEntry(on, name, u) ==
  LET s == Append(on.source, name)
      d == Append(on.destination, name)
  IN IF ~InListing(on.tree, on.source, name) THEN u
     ELSE IF checkDir(u, s) THEN rmdir(MoveDir(u, s, d, on.order, on.open + 1), s)
     ELSE rename_file(u, s, d)

MoveEntries(on) == FoldLeft(LAMBDA u, name : MoveEntry(on, name, u), on.tree, on.order)

move_level(t, source, destination, order, open) ==
  LET made == mkdir(t, destination)
  IN IF ~CanMake(t, destination) THEN t
     ELSE IF open = MaxOpen THEN rmdir(made, source)
     ELSE rmdir(MoveEntries([tree |-> made, source |-> source, destination |-> destination,
                             order |-> order, open |-> open]), source)

RemoveEntry(on, name, u) ==
  LET q == Append(on.source, name)
  IN IF ~InListing(on.tree, on.source, name) THEN u
     ELSE IF checkDir(u, q) THEN rmdir(RemoveDir(u, q, on.order, on.open + 1), q)
     ELSE delete_file(u, q)

RemoveEntries(on) == FoldLeft(LAMBDA u, name : RemoveEntry(on, name, u), on.tree, on.order)

remove_level(t, path, order, open) ==
  LET p == pathresolver(t, path)
  IN IF ~IsDir(t, p) \/ open = MaxOpen THEN t
     ELSE rmdir(RemoveEntries([tree |-> t, source |-> p, order |-> order, open |-> open]), p)

search_level(t, source, key, open) ==
  /\ checkDir(t, source) /\ open < MaxOpen
  /\ \E name \in Names : /\ InListing(t, source, name)
                         /\ \/ name = key
                            \/ /\ SearchesIn(t, source, name)
                               /\ SearchExec(t, Append(source, name), key, open + 1)
=============================================================================
