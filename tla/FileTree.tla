------------------------------- MODULE FileTree -------------------------------
(***************************************************************************)
(* The part of the file system that the explorer of assignment 1 works on, *)
(* and its copying, moving and deleting of single files (module            *)
(* Directories has the recursive ones).  A definition X_Y is X with the    *)
(* slip Y.                                                                 *)
(*                                                                         *)
(* A path is the sequence of its names, <<>> the root.  A tree maps the    *)
(* paths of what exists below the root to nodes: directories, files with   *)
(* their blocks (numbers), and symbolic links with the path they lead to.  *)
(*                                                                         *)
(* An operator takes a tree and returns the tree it leaves.                *)
(*                                                                         *)
(* Left out: permissions and owners, limits on the length of a path, and   *)
(* the descriptors that copy_file needs for its two files, which it may    *)
(* not get at the last levels at which a directory can still be opened.    *)
(***************************************************************************)
EXTENDS Integers, FiniteSets, SequencesExt

CONSTANTS Names,        \* the names of files and directories
          MaxOpen       \* how many directories a process can have open

(* "ERR" is what pathresolver answers for a path that leads nowhere; no    *)
(* file is called so.                                                      *)
ASSUME FileTreeAssumption == /\ Names \cap {"ERR", ".", ".."} = {}
                             /\ MaxOpen \in Nat \ {0}

Err == <<"ERR">>
DirNode == [kind |-> "dir", data |-> <<>>]
FileNode(blocks) == [kind |-> "file", data |-> blocks]
LinkNode(path) == [kind |-> "link", data |-> path]

Without(t, paths) == [p \in DOMAIN t \ paths |-> t[p]]

With(t, path, node) == [p \in DOMAIN t \cup {path} |-> IF p = path THEN node ELSE t[p]]

IsDir(t, p) == p = <<>> \/ (p \in DOMAIN t /\ t[p].kind = "dir")

-----------------------------------------------------------------------------
(* The system calls, as the explorer uses them *)

MaxLinks == 3           \* links followed within links; the system follows 40 in one path

(* What a path may be made of, "ERR" where it has led nowhere before. *)
PathNames == Names \cup {".", "..", "ERR"}

Links(t) == {p \in DOMAIN t : t[p].kind = "link"}

(* Where name n leads from at, links leading to their ends. *)
Onto(t, ends, n, at) ==
  LET next == Append(at, n)
  IN IF ~IsDir(t, at) THEN Err
     ELSE IF n = "." THEN at
     ELSE IF n = ".." THEN Front(at)
     ELSE IF next \notin DOMAIN t THEN Err
     ELSE IF next \in Links(t) THEN ends[next]
     ELSE next

(* Where path p leads, after its first i names. *)
Along(t, ends, p) ==
  LET at[i \in 0..Len(p)] == IF i = 0 THEN <<>> ELSE Onto(t, ends, p[i], at[i - 1])
  IN at[Len(p)]

(* Where links lead to through links that lead to ends. *)
Further(t, ends) == [l \in Links(t) |-> Along(t, ends, t[l].data)]

(* Where links lead to; in circles, they lead nowhere. *)
LinkEnds(t) ==
  LET ends[i \in 0..MaxLinks] == IF i = 0 THEN [l \in Links(t) |-> Err] ELSE Further(t, ends[i - 1])
  IN ends[MaxLinks]

pathresolver(t, p) == Along(t, LinkEnds(t), p)

checkDir(t, p) == IsDir(t, pathresolver(t, p))

(* Only the directory itself is searched. *)
SearchesIn_Flat(t, source, name) == FALSE

(* Whether the search through source goes on within its entry name. *)
SearchesIn(t, source, name) == checkDir(t, Append(source, name))

(* Where p is, or would be made: its last name is not followed. *)
Spot(t, p) == IF p # <<>> /\ Last(p) \in Names /\ checkDir(t, Front(p))
              THEN Append(pathresolver(t, Front(p)), Last(p)) ELSE Err

CanMake(t, p) == Spot(t, p) \notin DOMAIN t \cup {Err}

mkdir(t, p) == With(t, Spot(t, p), DirNode)

rmdir(t, p) == LET s == Spot(t, p)
               IN IF IsDir(t, s) /\ \A q \in DOMAIN t : IsPrefix(s, q) => q = s
                  THEN Without(t, {s}) ELSE t

(* readdir of directory p, opened when the tree was t. *)
InListing(t, p, name) == Append(pathresolver(t, p), name) \in DOMAIN t

(* Whether the rename of the existing old to new is granted, and what it does. *)
CanRename(t, old, new) ==
  LET o == Spot(t, old)
      n == Spot(t, new)
  IN /\ o \in DOMAIN t /\ n # Err
     /\ n = o \/ ~IsPrefix(o, n)
     /\ n \in DOMAIN t => IF IsDir(t, o) THEN n = o \/ n \notin DOMAIN rmdir(t, n) ELSE ~IsDir(t, n)

(* The old name stays. *)
rename_file_OldStays(t, old, new) ==
  IF CanRename(t, old, new) THEN With(t, Spot(t, new), t[Spot(t, old)]) ELSE t

rename_file(t, old, new) ==
  LET o == Spot(t, old)
      n == Spot(t, new)
      Before(p) == o \o SubSeq(p, Len(n) + 1, Len(p))
  IN IF ~CanRename(t, old, new) THEN t
     ELSE [p \in {q \in DOMAIN t : ~IsPrefix(o, q) /\ q # n}
                 \cup {n \o SubSeq(q, Len(o) + 1, Len(q)) : q \in {r \in DOMAIN t : IsPrefix(o, r)}}
             |-> IF IsPrefix(n, p) THEN t[Before(p)] ELSE t[p]]

(* What open with O_CREAT opens: what there is, or else what it makes, also *)
(* where the links end that lead to nothing yet.                            *)
Opened(t, p) ==
  LET Over(s) == IF s \in Links(t) THEN Spot(t, t[s].data) ELSE s
      spot[i \in 0..MaxLinks] == IF i = 0 THEN Spot(t, p) ELSE Over(spot[i - 1])
  IN IF pathresolver(t, p) # Err THEN pathresolver(t, p)
     ELSE IF spot[MaxLinks] \in DOMAIN t THEN Err
     ELSE spot[MaxLinks]

-----------------------------------------------------------------------------
(* The destination is made and not filled. *)
copy_file_Empty(t, source, destination) ==
  IF CanMake(t, destination) THEN With(t, Spot(t, destination), FileNode(<<>>)) ELSE t

(* The destination is not truncated: what is longer keeps its end. *)
copy_file(t, source, destination) ==
  LET s == pathresolver(t, source)
      d == Opened(t, destination)
      old == IF d \in DOMAIN t THEN t[d].data ELSE <<>>
      new == t[s].data
  IN IF s = Err \/ d = Err \/ IsDir(t, d) THEN t
     ELSE With(t, d, FileNode(new \o SubSeq(old, Len(new) + 1, Len(old))))

(* rmdir, which leaves files alone. *)
delete_file_Rmdir(t, path) ==
  LET p == pathresolver(t, path)
  IN IF p \in {Err, <<>>} THEN t ELSE rmdir(t, p)

(* remove, which also takes an empty directory away. *)
delete_file(t, path) ==
  LET p == pathresolver(t, path)
  IN IF p \in {Err, <<>>} THEN t ELSE IF IsDir(t, p) THEN rmdir(t, p) ELSE Without(t, {p})

IsFunction(t) == t = [p \in DOMAIN t |-> t[p]]

IsNode(n) == \/ n = DirNode
             \/ n = FileNode(n.data) /\ n.data \in Seq(Nat)
             \/ n = LinkNode(n.data) /\ n.data \in Seq(PathNames)

(* What exists is in a directory that exists. *)
IsTree(t) == /\ IsFunction(t)
             /\ \A p \in DOMAIN t : /\ p \in Seq(Names) /\ p # <<>>
                                    /\ IsDir(t, Front(p))
                                    /\ IsNode(t[p])
=============================================================================
