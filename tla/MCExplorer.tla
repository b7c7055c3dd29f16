------------------------------ MODULE MCExplorer ------------------------------
(* Explorer on small trees of two names, one with links. *)
EXTENDS Explorer, Directories

A == <<"a">>
B == <<"b">>
AA == <<"a", "a">>
AB == <<"a", "b">>
BA == <<"b", "a">>
ABA == <<"a", "b", "a">>

(* Directories in directories; and two links, to a directory and to a      *)
(* file, which delete_dir of /a leaves without what they led to.           *)
SmallTrees ==
  {(A :> DirNode) @@ (AA :> FileNode(<<1, 2>>)) @@ (AB :> DirNode) @@ (ABA :> DirNode)
     @@ (B :> DirNode),
   (A :> DirNode) @@ (AA :> LinkNode(B)) @@ (AB :> LinkNode(BA))
     @@ (B :> DirNode) @@ (BA :> FileNode(<<1>>))}

Sorted == <<".", "..", "a", "b">>
Readdir == {<<"b", ".", "..", "a">>}

Do(task, args) == [task |-> task, args |-> args]

Typed ==
  {Do("copy", <<A, B>>), Do("copy", <<A, AB>>), Do("copy", <<AA, AB, B>>),
   Do("move", <<A, B>>), Do("move", <<A, AB>>), Do("move", <<AA, AB, B>>),
   Do("rename", <<A, B>>),
   Do("create_file", <<B, A>>), Do("create_dir", <<A, AB>>),
   Do("delete_file", <<AA>>), Do("delete_file", <<>>), Do("delete_dir", <<A>>),
   Do("goto", <<AB>>), Do("quit", <<>>)}

Unknown == [name |-> "?", dir |-> FALSE]
Listed == [name : Names \cup {".", ".."}, dir : BOOLEAN]

(* What the proofs assume of the constants, DirectoriesRecur and           *)
(* SearchRecurs, is how Directories defines them; on the small trees, TLC  *)
(* looks.                                                                  *)
ASSUME LevelsAgree ==
  \A t \in SmallTrees, s, d \in {<<>>, A, B, AA, AB, BA, ABA, Err},
     names \in Readdir, open \in 0..MaxOpen :
    /\ CopyDir(t, s, d, names, open) = copy_level(t, s, d, names, open)
    /\ MoveDir(t, s, d, names, open) = move_level(t, s, d, names, open)
    /\ RemoveDir(t, s, names, open) = remove_level(t, s, names, open)
    /\ \A key \in Names : SearchExec(t, s, key, open) = search_level(t, s, key, open)
=============================================================================
