------------------------------ MODULE Explorer ------------------------------
(***************************************************************************)
(* The terminal file explorer of assignment 1: in normal mode keys move    *)
(* the cursor (module Pager) and go from directory to directory, in        *)
(* command mode typed commands work on the files (modules FileTree and     *)
(* Directories).                                                           *)
(*                                                                         *)
(* Reading what was never written, which the code does behind the end of   *)
(* filesarr and of cmdkeys, gives what the vector held there before or     *)
(* ends the program.  The program is the only one that changes the tree;   *)
(* a resize of the window comes between two keys.                          *)
(*                                                                         *)
(* Left out: relative paths but "..", permissions, the program a file is   *)
(* opened with; entering the "." of the directory listed before, which     *)
(* filesarr still holds when a dangling link has emptied the list; the     *)
(* directory that getAllFiles leaves open when stat fails, until no other  *)
(* can be opened; and listing CWD when a link has taken the place of the   *)
(* directory that had this path.                                           *)
(* MaxHistory bounds the entries of the histories, MaxEffort these plus    *)
(* twice the commands carried out.  A definition X_Y is X with the slip Y. *)
(***************************************************************************)
EXTENDS DirectoryLevels, Pager

CONSTANTS Trees,        \* the trees to start from
          Start,        \* the directory the explorer is started in
          HOME,
          Alphabet,     \* Names, "." and ".." in the order of the listings
          Orders,       \* orders in which readdir may list them
          Rows,         \* heights of the window
          Commands,     \* what the user may type: a task and its arguments
          CwdLimit,     \* names in the longest path that getcurrdir has room for
          MaxHistory, MaxEffort

VARIABLES fs,           \* the tree
          order,        \* the order in which its directories are read
          wd,           \* the working directory, Gone when it was deleted
          CWD,          \* the path it had when it was entered
          backstk, forwardstk,
          mode,         \* "normal" or "command"
          keys,         \* the command line, also of a command mode that was left
          cmdkeys,      \* the arguments, with what is left of earlier ones behind them
          done,         \* the commands carried out
          state         \* "running", "quit", or "dead": ended by an error

placeVars == <<wd, CWD>>
historyVars == <<backstk, forwardstk>>
lineVars == <<keys, cmdkeys, done>>
vars == <<pagerVars, fs, order, placeVars, historyVars, mode, lineVars, state>>

Gone == <<"gone">>
NoKeys == [task |-> "", args |-> <<>>]
Garbled == [task |-> "garbled", args |-> <<>>]

Push(stk) == <<CWD>> \o stk

-----------------------------------------------------------------------------
(* Listing the directory *)

(* n is added to the list if the directory has it. *)
AddEntry(place, n, list) ==
  LET q == Append(place.path, n)
  IN IF n \notin Names \/ q \in DOMAIN place.tree
     THEN Append(list, [name |-> n, dir |-> checkDir(place.tree, q)])
     ELSE list

Entries(t, p, names) ==
  FoldLeft(LAMBDA list, n : AddEntry([tree |-> t, path |-> p], n, list), <<>>, names)

(* The entries that stat fails on: links to what is not there. *)
Dangling(t, p) ==
  {n \in Names : LET q == Append(p, n)
                 IN q \in DOMAIN t /\ t[q].kind = "link" /\ pathresolver(t, q) = Err}

(* The list ends before the first entry that stat fails on, in the order   *)
(* of readdir, and is not printed.                                         *)
UpToDangling(t, p, names) ==
  LET cut == CHOOSE i \in DOMAIN names : /\ names[i] \in Dangling(t, p)
                                         /\ \A j \in 1..(i - 1) : names[j] \notin Dangling(t, p)
  IN Entries(t, p, SubSeq(names, 1, cut - 1))

(* The explorer is started in a directory that it can list; every listing  *)
(* has the entries "." and "..", also of an empty directory; and readdir   *)
(* lists each name once.                                                   *)
ASSUME ExplorerAssumption ==
  LET Listable == Names \cup {".", ".."}
  IN /\ \A t \in Trees : IsTree(t) /\ IsDir(t, Start) /\ Dangling(t, Start) = {}
     /\ Alphabet \in Seq(Listable) /\ \E i \in DOMAIN Alphabet : Alphabet[i] = "."
     /\ \A names \in Orders : /\ names \in Seq(Listable)
                              /\ \A n \in Names : \E i \in DOMAIN names : names[i] = n
                              /\ \A i, j \in DOMAIN names : names[i] = names[j] => i = j
     /\ [name : Listable, dir : BOOLEAN] \subseteq Entry
     /\ Rows \subseteq Int
     /\ \A c \in Commands : c.args \in Seq(Seq(PathNames))
     /\ "gone" \notin Names
     /\ CwdLimit \in Nat /\ Len(Start) <= CwdLimit
     /\ MaxHistory \in Nat /\ MaxEffort \in Nat

Overruns == file_start' + MinOf(Len(filesarr'), maxRows') > Len(filesarr')

getAllFiles ==
  IF ~checkDir(fs', CWD') THEN filesarr' = <<>> /\ UNCHANGED <<screen, state>>
  ELSE IF Dangling(fs', CWD') # {}
  THEN /\ filesarr' = UpToDangling(fs', CWD', order)
       /\ UNCHANGED <<screen, state>>
  ELSE /\ filesarr' = Entries(fs', CWD', Alphabet)
       /\ printfiles
       /\ state' = "running" \/ (Overruns /\ state' = "dead")

Init == /\ fs \in Trees /\ order \in Orders
        /\ wd = Start /\ CWD = Start
        /\ backstk = <<>> /\ forwardstk = <<>>
        /\ mode = "normal" /\ keys = NoKeys /\ cmdkeys = <<>> /\ done = 0
        /\ state = "running"
        /\ cur_x = 1 /\ file_idx = 0 /\ file_start = 0 /\ maxRows \in Rows
        /\ filesarr = Entries(fs, Start, Alphabet)
        /\ screen = Shown(filesarr, 0, maxRows)

-----------------------------------------------------------------------------
(* Going from directory to directory *)

(* getcurrdir has no room for it: getcwd fails, and the null pointer that  *)
(* is made a string ends the program.                                      *)
TooLong(p) == Len(p) > CwdLimit

(* A path of any length has room. *)
change_dir_NoLimit(p) == wd' = p /\ CWD' = p /\ init /\ UNCHANGED maxRows /\ getAllFiles

(* The cursor is left where it was in the directory before. *)
change_dir_CursorStays(p) ==
  /\ wd' = p
  /\ UNCHANGED <<cursorVars, maxRows>>
  /\ IF TooLong(p) THEN state' = "dead" /\ UNCHANGED <<CWD, filesarr, screen>>
     ELSE CWD' = p /\ getAllFiles

change_dir(p) ==
  /\ wd' = p
  /\ init /\ UNCHANGED maxRows
  /\ IF TooLong(p) THEN state' = "dead" /\ UNCHANGED <<CWD, filesarr, screen>>
     ELSE CWD' = p /\ getAllFiles

(* change_dir and, whether it succeeds or not, getAllFiles *)
Visit(p) == /\ UNCHANGED <<fs, mode, lineVars>>
            /\ IF IsDir(fs, p) THEN change_dir(p)
               ELSE UNCHANGED <<placeVars, cursorVars, maxRows>> /\ getAllFiles

History == Len(backstk) + Len(forwardstk)

Effort == History + 2 * done

RoomInHistory == History < MaxHistory /\ Effort < MaxEffort

goto_parent_dir == /\ RoomInHistory
                   /\ backstk' = Push(backstk) /\ UNCHANGED forwardstk
                   /\ Visit(IF wd = Gone THEN Err ELSE pathresolver(fs, Append(wd, "..")))

goHome == /\ RoomInHistory
          /\ backstk' = Push(backstk) /\ UNCHANGED forwardstk
          /\ Visit(pathresolver(fs, HOME))

(* Nothing is pushed for the way forward. *)
goback_Forgets == /\ backstk # <<>>
                  /\ UNCHANGED forwardstk
                  /\ backstk' = Tail(backstk)
                  /\ Visit(pathresolver(fs, Head(backstk)))

goback == /\ backstk # <<>>
          /\ forwardstk' = Push(forwardstk)
          /\ backstk' = Tail(backstk)
          /\ Visit(pathresolver(fs, Head(backstk)))

goforward == /\ forwardstk # <<>>
             /\ backstk' = Push(backstk)
             /\ forwardstk' = Tail(forwardstk)
             /\ Visit(pathresolver(fs, Head(forwardstk)))

Selected == filesarr[file_idx + 1]

EnterDirectory == /\ file_idx < Len(filesarr) /\ Selected.dir
                  /\ RoomInHistory
                  /\ backstk' = Push(backstk) /\ UNCHANGED forwardstk
                  /\ Visit(pathresolver(fs, Append(CWD, Selected.name)))

OpenFile == /\ file_idx < Len(filesarr) /\ ~Selected.dir
            /\ UNCHANGED historyVars
            /\ Visit(Err)

(* The list is empty: what is selected is a file or a directory of the     *)
(* directory that is gone, or nothing that can be read.                    *)
EnterNothing == /\ file_idx >= Len(filesarr)
                /\ \/ UNCHANGED historyVars /\ Visit(Err)
                   \/ RoomInHistory /\ backstk' = Push(backstk) /\ UNCHANGED forwardstk /\ Visit(Err)
                   \/ /\ state' = "dead"
                      /\ UNCHANGED <<pagerVars, fs, placeVars, historyVars, mode, lineVars>>

enter == EnterDirectory \/ OpenFile \/ EnterNothing

cursorKey == /\ upkey \/ downkey
             /\ UNCHANGED <<fs, placeVars, historyVars, mode, lineVars, state>>

(* The cursor is left where it was in the larger window. *)
resizehandler_NoInit(rows) == /\ maxRows' = rows
                              /\ UNCHANGED cursorVars
                              /\ UNCHANGED <<fs, placeVars, historyVars, mode, lineVars>>
                              /\ getAllFiles

resizehandler(rows) == /\ maxRows' = rows
                       /\ init
                       /\ UNCHANGED <<fs, placeVars, historyVars, mode, lineVars>>
                       /\ getAllFiles

-----------------------------------------------------------------------------
(* What the commands do to the tree: [tree, listed, stopped], where listed *)
(* says whether getAllFiles is called and stopped that an argument is no   *)
(* path.                                                                   *)

Untouched(t) == [tree |-> t, listed |-> FALSE, stopped |-> FALSE]

(* The root has no last name. *)
Target(t, args, source) ==
  pathresolver(t, Last(args)) \o (IF source = <<>> THEN <<>> ELSE <<Last(source)>>)

(* One source of copy, and of move; on tells whereto and how directories   *)
(* are read.                                                               *)
CopyOne(on, source, r) ==
  LET s == pathresolver(r.tree, source)
      d == Target(r.tree, on.args, source)
  IN IF r.stopped \/ s = Err THEN [tree |-> r.tree, listed |-> r.listed, stopped |-> TRUE]
     ELSE [tree |-> IF checkDir(r.tree, s) THEN CopyDir(r.tree, s, d, on.order, 0)
                    ELSE copy_file(r.tree, s, d),
           listed |-> TRUE,
           stopped |-> FALSE]

MoveOne(on, source, r) ==
  LET s == pathresolver(r.tree, source)
      d == Target(r.tree, on.args, source)
  IN IF r.stopped \/ s = Err THEN [tree |-> r.tree, listed |-> r.listed, stopped |-> TRUE]
     ELSE [tree |-> IF checkDir(r.tree, s) THEN MoveDir(r.tree, s, d, on.order, 0)
                    ELSE rename_file(r.tree, s, d),
           listed |-> r.listed \/ checkDir(r.tree, s) \/ CanRename(r.tree, s, d),
           stopped |-> FALSE]

copyexec(t, args) ==
  IF Len(args) < 2 THEN Untouched(t)
  ELSE FoldLeft(LAMBDA r, source : CopyOne([args |-> args, order |-> order], source, r),
                Untouched(t), Front(args))

moveexec(t, args) ==
  IF Len(args) < 2 THEN Untouched(t)
  ELSE FoldLeft(LAMBDA r, source : MoveOne([args |-> args, order |-> order], source, r),
                Untouched(t), Front(args))

create_file(t, p) ==
  IF pathresolver(t, p) # Err \/ Opened(t, p) = Err THEN Untouched(t)
  ELSE [Untouched(t) EXCEPT !.tree = With(t, Opened(t, p), FileNode(<<>>)), !.listed = TRUE]

make_dir(t, p) == IF ~CanMake(t, p) THEN Untouched(t)
                  ELSE [Untouched(t) EXCEPT !.tree = mkdir(t, p), !.listed = TRUE]

(* The name comes first, then the directory. *)
Made(t, args) == Append(pathresolver(t, args[2]), Last(args[1]))

create_fileexec(t, args) ==
  IF Len(args) # 2 THEN Untouched(t) ELSE create_file(t, Made(t, args))

create_direxec(t, args) ==
  IF Len(args) # 2 THEN Untouched(t) ELSE make_dir(t, Made(t, args))

(* The list is not read anew. *)
delete_fileexec_NoListing(t, arg) == [Untouched(t) EXCEPT !.tree = delete_file(t, arg)]

delete_fileexec(t, arg) ==
  LET left == delete_file(t, arg)
  IN [Untouched(t) EXCEPT !.tree = left, !.listed = left # t]

delete_direxec(t, args) ==
  IF Len(args) # 1 \/ pathresolver(t, args[1]) = Err THEN Untouched(t)
  ELSE [Untouched(t) EXCEPT !.tree = RemoveDir(t, args[1], order, 0), !.listed = TRUE]

(* The new name is one in the directory of the old one. *)
Renamed(t, old, new) == Append(Front(pathresolver(t, old)), Last(new))

renameexec(t, old, new) ==
  LET p == pathresolver(t, old)
  IN [Untouched(t) EXCEPT !.tree = rename_file(t, p, Renamed(t, old, new)),
                          !.listed = CanRename(t, p, Renamed(t, old, new))]
Args(c) == c.args \o SubSeq(cmdkeys, Len(c.args) + 1, Len(cmdkeys))

(* delete_file, rename and goto read their arguments without counting them *)
(* first, or after counting them in vain.                                  *)
Needed(task) == CASE task = "rename" -> 2
                  [] task \in {"delete_file", "goto"} -> 1
                  [] OTHER -> 0

Arg(c, i) == IF i <= Len(Args(c)) THEN Args(c)[i] ELSE Err

Result(c) == CASE c.task = "copy" -> copyexec(fs, c.args)
               [] c.task = "move" -> moveexec(fs, c.args)
               [] c.task = "rename" -> renameexec(fs, Arg(c, 1), Arg(c, 2))
               [] c.task = "create_file" -> create_fileexec(fs, c.args)
               [] c.task = "create_dir" -> create_direxec(fs, c.args)
               [] c.task = "delete_file" -> delete_fileexec(fs, Arg(c, 1))
               [] c.task = "delete_dir" -> delete_direxec(fs, c.args)
               [] OTHER -> Untouched(fs)

(* The process stays in the directory it is in when that is renamed. *)
Follow(c) ==
  LET p == pathresolver(fs, Arg(c, 1))
      new == Spot(fs, Renamed(fs, Arg(c, 1), Arg(c, 2)))
  IN IF c.task = "rename" /\ Result(c).listed /\ IsPrefix(p, wd)
     THEN new \o SubSeq(wd, Len(p) + 1, Len(wd))
     ELSE IF ~IsDir(fs', wd) \/ (c.task = "rename" /\ Result(c).listed /\ wd = new) THEN Gone ELSE wd

(* An exception ends the renaming of what does not exist; while delete_dir *)
(* takes the current directory away, the list is printed after each file.  *)
FileCommand(c) ==
  /\ c.task # "goto"
  /\ fs' = Result(c).tree
  /\ wd' = Follow(c)
  /\ UNCHANGED <<CWD, historyVars, cursorVars, maxRows>>
  /\ IF c.task = "rename" /\ pathresolver(fs, Arg(c, 1)) = Err
     THEN state' = "dead" /\ UNCHANGED <<filesarr, screen>>
     ELSE IF Result(c).listed THEN getAllFiles
     ELSE UNCHANGED <<filesarr, screen, state>>

DiesOnTheWay(c) == /\ \/ Needed(c.task) > Len(c.args)
                      \/ /\ c.task = "delete_dir" /\ file_start > 0
                         /\ Result(c).listed /\ ~checkDir(Result(c).tree, CWD)
                   /\ state' = "dead"
                   /\ UNCHANGED <<pagerVars, fs, placeVars, historyVars>>

goto(c) == /\ c.task = "goto"
           /\ LET p == pathresolver(fs, Arg(c, 1))
              IN IF IsDir(fs, p)
                 THEN /\ RoomInHistory /\ Effort + 3 <= MaxEffort
                      /\ backstk' = Push(backstk)
                      /\ UNCHANGED <<fs, forwardstk>>
                      /\ change_dir(p)
                 ELSE UNCHANGED <<pagerVars, fs, placeVars, historyVars, state>>

commandexec == /\ mode = "command"
               /\ Effort + 2 <= MaxEffort
               /\ done' = done + 1
               /\ keys' = NoKeys
               /\ cmdkeys' = Args(keys)
               /\ UNCHANGED mode
               /\ FileCommand(keys) \/ goto(keys) \/ DiesOnTheWay(keys)

-----------------------------------------------------------------------------
(* The command line *)

colon == /\ mode = "normal"
         /\ mode' = "command"
         /\ UNCHANGED <<pagerVars, fs, placeVars, historyVars, lineVars, state>>

(* What is typed behind a command already there garbles it. *)
Type(c) == /\ mode = "command" /\ Effort + 2 <= MaxEffort
           /\ IF keys = NoKeys THEN keys' = c ELSE c = Garbled /\ keys' = Garbled
           /\ UNCHANGED <<pagerVars, fs, placeVars, historyVars, mode, cmdkeys, done, state>>

backspace == /\ mode = "command"
             /\ keys # NoKeys
             /\ keys' = NoKeys
             /\ UNCHANGED <<pagerVars, fs, placeVars, historyVars, mode, cmdkeys, done, state>>

(* The cursor goes to the top; nothing is printed, nothing typed is lost. *)
exitcommandmode == /\ mode = "command"
                   /\ mode' = "normal"
                   /\ init
                   /\ UNCHANGED <<maxRows, filesarr, screen, fs, placeVars, historyVars, lineVars, state>>

quit == /\ mode = "normal" \/ keys.task = "quit"
        /\ state' = "quit"
        /\ UNCHANGED <<pagerVars, fs, placeVars, historyVars, mode, lineVars>>

normalmode == /\ mode = "normal"
              /\ \/ cursorKey \/ enter \/ goto_parent_dir \/ goforward \/ goback \/ goHome

commandmode == commandexec \/ backspace \/ exitcommandmode \/ \E c \in Commands \cup {Garbled} : Type(c)

Next == /\ state = "running"
        /\ UNCHANGED order
        /\ normalmode \/ colon \/ commandmode \/ quit \/ \E rows \in Rows : resizehandler(rows)

Spec == Init /\ [][Next]_vars

-----------------------------------------------------------------------------
TypeOK == /\ PagerTypeOK
          /\ IsTree(fs)
          /\ wd = Gone \/ IsDir(fs, wd)
          /\ Len(CWD) <= CwdLimit
          /\ Effort <= MaxEffort
          /\ mode \in {"normal", "command"}
          /\ keys \in Commands \cup {NoKeys, Garbled}
          /\ done \in Nat
          /\ state \in {"running", "quit", "dead"}

Unlistable == ~checkDir(fs, CWD) \/ Dangling(fs, CWD) # {}

(* In normal mode the selected entry is in the list, whatever was listed,  *)
(* deleted or resized before: what enter reads is there, unless the whole  *)
(* list is empty.                                                          *)
SelectionInRange ==
  state = "running" /\ mode = "normal" => file_idx \in 0..(Len(filesarr) - 1) \/ Unlistable

(* The list is what the directory called CWD holds: every command that     *)
(* changes the tree, whichever way it ends, reads the list anew.           *)
ListingIsCurrent ==
  state = "running" /\ Dangling(fs, CWD) = {} =>
    filesarr = IF checkDir(fs, CWD) THEN Entries(fs, CWD, Alphabet) ELSE <<>>

(* In normal mode only a directory that cannot be listed parts the screen  *)
(* from the selection (leaving command mode with ESC, which parts them on  *)
(* a list that is scrolled, is a step out of command mode and not meant);  *)
(* and a directory newly entered is shown from its first entry, with the   *)
(* cursor on it, as long as it can be listed.                              *)
AgreementKept ==
  [][state' = "running" =>
       \/ /\ Agree /\ mode = "normal" => Agree'
          /\ CWD' # CWD => Agree' /\ file_idx' = 0
       \/ Unlistable']_vars

Visited == {CWD} \cup Range(backstk) \cup Range(forwardstk)

(* A directory once visited can be gone back or forward to for as long as  *)
(* it exists: no way of going on, back or forward drops it from the        *)
(* histories, also when the directory gone to cannot be entered.           *)
HistoryForgetsNothing == [][\A p \in Visited \ Visited' : ~IsDir(fs, p)]_vars

(* The histories and the cursor do what module Pager allows. *)
ImplementsPager == PagerSpec

-----------------------------------------------------------------------------
Below(t, p) == {q \in DOMAIN t : IsPrefix(p, q)}

(* A copy of what is at s, put at d. *)
Grafted(t, s, d) ==
  LET Origin(p) == s \o SubSeq(p, Len(d) + 1, Len(p))
  IN [p \in DOMAIN t \cup {d \o SubSeq(q, Len(s) + 1, Len(q)) : q \in Below(t, s)} |->
        IF IsPrefix(d, p) THEN t[Origin(p)] ELSE t[p]]

(* No links, and no deeper than directories can be opened. *)
Plain(t, s) == \A q \in Below(t, s) : t[q].kind # "link" /\ Len(q) - Len(s) <= MaxOpen

Carries(task) == done' = done + 1 /\ keys.task = task

Source == pathresolver(fs, keys.args[1])
Destination == Target(fs, keys.args, keys.args[1])

(* One plain source, to a directory outside of it that has nothing of that *)
(* name.                                                                   *)
Clean == /\ Len(keys.args) = 2
         /\ Source \in DOMAIN fs /\ Plain(fs, Source)
         /\ CanMake(fs, Destination)
         /\ ~IsPrefix(Source, Spot(fs, Destination))

(* copy adds an exact copy and changes nothing else; also where it goes    *)
(* over what is there, into itself or through links, nothing disappears.   *)
CopyIsExact ==
  [][Carries("copy") =>
       /\ DOMAIN fs \subseteq DOMAIN fs'
       /\ Clean => fs' = Grafted(fs, Source, Spot(fs, Destination))]_vars

Blocks(t) == {t[p].data : p \in {q \in DOMAIN t : t[q].kind = "file"}}

(* move puts all of the source in its new place and nothing stays behind;  *)
(* also where it moves a directory into itself or through links, no file's *)
(* content is lost, unless a file of that name was there or another of     *)
(* that name is moved there too.                                           *)
MoveIsExact ==
  [][Carries("move") =>
       /\ \/ Blocks(fs) \subseteq Blocks(fs')
          \/ \E i \in 1..(Len(keys.args) - 1) :
               LET d == Target(fs, keys.args, keys.args[i])
               IN \/ pathresolver(fs, d) # Err
                  \/ \E j \in 1..(i - 1) : Target(fs, keys.args, keys.args[j]) = d
       /\ Clean => LET d == Spot(fs, Destination)
                   IN fs' = Without(Grafted(fs, Source, d), Below(fs, Source))]_vars

(* paths and what their links lead to *)
Reached(t, paths) ==
  paths \cup UNION {Below(t, pathresolver(t, p)) : p \in {q \in paths \cap DOMAIN t : t[q].kind = "link"}}

(* delete_dir deletes the directory with all that is in it; where links    *)
(* are in it, it deletes at most what they lead to beside that, and what   *)
(* links in there lead to.                                                 *)
DeleteIsExact ==
  [][Carries("delete_dir") /\ Len(keys.args) = 1 =>
       LET d == pathresolver(fs, keys.args[1])
           here == Below(fs, d)
       IN /\ \A p \in DOMAIN fs' : p \in DOMAIN fs /\ fs'[p] = fs[p]
          /\ \A paths \in SUBSET DOMAIN fs :
               here \cup Reached(fs, paths) \subseteq paths => DOMAIN fs \ DOMAIN fs' \subseteq paths
          /\ state' = "running" /\ IsDir(fs, d) /\ Plain(fs, d) => DOMAIN fs \ DOMAIN fs' = here]_vars

(* In command mode, search finds a name exactly if it is somewhere below   *)
(* the directory that CWD leads to, which is another than the one it led   *)
(* to when it was entered if a link has taken its place.                   *)
SearchIsExact ==
  LET here == pathresolver(fs, CWD)
  IN mode = "command" /\ IsDir(fs, here) /\ Plain(fs, here) =>
       \A key \in Names :
         SearchExec(fs, CWD, key, 0) <=> \E q \in Below(fs, here) : q # here /\ Last(q) = key
=============================================================================
