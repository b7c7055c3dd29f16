----------------------------- MODULE Directories -----------------------------
(* How the explorer of assignment 1 copies, moves, deletes and searches    *)
(* directories with all that is in them.  order is the order in which      *)
(* readdir lists names, the same in every directory; open counts the       *)
(* directories the process has open.                                       *)
EXTENDS FileTree

RECURSIVE copy_dir(_, _, _, _, _)
copy_dir(t, source, destination, order, open) ==
  LET made == mkdir(t, destination)
      Copy(u, name) == LET s == Append(source, name)
                           d == Append(destination, name)
                       IN IF ~InListing(made, source, name) THEN u
                          ELSE IF checkDir(u, s) THEN copy_dir(u, s, d, order, open + 1)
                          ELSE copy_file(u, s, d)
  IN IF ~CanMake(t, destination) THEN t
     ELSE IF open = MaxOpen THEN made
     ELSE FoldLeft(Copy, made, order)

RECURSIVE move_dir(_, _, _, _, _)
move_dir(t, source, destination, order, open) ==
  LET made == mkdir(t, destination)
      Move(u, name) == LET s == Append(source, name)
                           d == Append(destination, name)
                       IN IF ~InListing(made, source, name) THEN u
                          ELSE IF checkDir(u, s) THEN rmdir(move_dir(u, s, d, order, open + 1), s)
                          ELSE rename_file(u, s, d)
  IN IF ~CanMake(t, destination) THEN t
     ELSE IF open = MaxOpen THEN rmdir(made, source)
     ELSE rmdir(FoldLeft(Move, made, order), source)

(* Links are followed: what they lead to is deleted, they are not. *)
RECURSIVE remove_dir(_, _, _, _)
remove_dir(t, path, order, open) ==
  LET p == pathresolver(t, path)
      Visit(u, name) == LET q == Append(p, name)
                        IN IF ~InListing(t, p, name) THEN u
                           ELSE IF checkDir(u, q) THEN rmdir(remove_dir(u, q, order, open + 1), q)
                           ELSE delete_file(u, q)
  IN IF ~IsDir(t, p) \/ open = MaxOpen THEN t
     ELSE rmdir(FoldLeft(Visit, t, order), p)

RECURSIVE searchexec(_, _, _, _)
searchexec(t, source, key, open) ==
  /\ checkDir(t, source) /\ open < MaxOpen
  /\ \E name \in Names : /\ InListing(t, source, name)
                         /\ \/ name = key
                            \/ /\ SearchesIn(t, source, name)
                               /\ searchexec(t, Append(source, name), key, open + 1)
=============================================================================
