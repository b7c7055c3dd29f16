-------------------------------- MODULE Pager --------------------------------
(***************************************************************************)
(* How the explorer of assignment 1 shows a directory: the cursor, the     *)
(* selected entry, and the window of the list that is on the screen.       *)
(*                                                                         *)
(* PagerSpec says what can happen to them at all: the two cursor keys, a   *)
(* list read anew, with the cursor sent to the top (init) or left where it *)
(* is, printed or not, and a cursor sent to the top without a new list.    *)
(* Explorer says when.  Beside the entries, a row of the screen may show   *)
(* what lies behind the end of filesarr.                                   *)
(***************************************************************************)
EXTENDS Integers, Sequences

CONSTANTS Entry,        \* the entries of directories
          Garbage       \* what lies behind the end of filesarr

VARIABLES cur_x,        \* the cursor's row, from 1
          file_idx,     \* index of the selected entry, from 0
          file_start,   \* index of the first entry shown, from 0
          maxRows,      \* how many entries the window has room for
          filesarr,     \* the entries of the directory
          screen        \* the rows printed last

cursorVars == <<cur_x, file_idx, file_start>>
pagerVars == <<cursorVars, maxRows, filesarr, screen>>

MinOf(a, b) == IF a <= b THEN a ELSE b

Shown(list, start, rows) ==
  [i \in 1..MinOf(Len(list), rows) |->
     IF start + i <= Len(list) THEN list[start + i] ELSE Garbage]

PagerTypeOK == /\ cur_x \in Int /\ file_idx \in Int /\ file_start \in Int /\ maxRows \in Int
               /\ filesarr \in Seq(Entry)
               /\ screen \in Seq(Entry \cup {Garbage})

(* Leaving out the first line shown. *)
init_StartStays == cur_x' = 1 /\ file_idx' = 0 /\ UNCHANGED file_start

init == cur_x' = 1 /\ file_idx' = 0 /\ file_start' = 0

printfiles == screen' = Shown(filesarr', file_start', maxRows')

(* The window scrolls, the selection stays. *)
upkey_SelectionStays ==
  \/ /\ cur_x > 1
     /\ cur_x' = cur_x - 1 /\ file_idx' = file_idx - 1
     /\ UNCHANGED <<file_start, maxRows, filesarr, screen>>
  \/ /\ cur_x <= 1 /\ file_start > 0
     /\ file_start' = file_start - 1
     /\ UNCHANGED <<cur_x, file_idx, maxRows, filesarr>>
     /\ printfiles

upkey == \/ /\ cur_x > 1
            /\ cur_x' = cur_x - 1 /\ file_idx' = file_idx - 1
            /\ UNCHANGED <<file_start, maxRows, filesarr, screen>>
         \/ /\ cur_x <= 1 /\ file_start > 0
            /\ file_start' = file_start - 1 /\ file_idx' = file_idx - 1
            /\ UNCHANGED <<cur_x, maxRows, filesarr>>
            /\ printfiles

downkey ==
  LET sz == Len(filesarr) - file_start
  IN \/ /\ cur_x + 1 <= MinOf(maxRows, sz)
        /\ cur_x' = cur_x + 1 /\ file_idx' = file_idx + 1
        /\ UNCHANGED <<file_start, maxRows, filesarr, screen>>
     \/ /\ cur_x + 1 > MinOf(maxRows, sz)
        /\ maxRows < sz
        /\ file_idx + 1 < Len(filesarr)
        /\ file_start' = file_start + 1 /\ file_idx' = file_idx + 1
        /\ UNCHANGED <<cur_x, maxRows, filesarr>>
        /\ printfiles

PagerInit == /\ cur_x = 1 /\ file_idx = 0 /\ file_start = 0
             /\ maxRows \in Int
             /\ filesarr \in Seq(Entry)
             /\ screen \in {<<>>, Shown(filesarr, 0, maxRows)}

(* A list is read, or the cursor is sent to the top, or both. *)
Turn == /\ init \/ UNCHANGED <<cursorVars, maxRows>>
        /\ maxRows' \in Int
        /\ filesarr' \in Seq(Entry)
        /\ printfiles \/ UNCHANGED screen

PagerSpec == PagerInit /\ [][upkey \/ downkey \/ Turn]_pagerVars

-----------------------------------------------------------------------------
(* The cursor's row, the first line shown and the selected entry, which    *)
(* every key and every new list sets one by one, always go together.       *)
CursorArithmetic == /\ file_idx = file_start + cur_x - 1
                    /\ cur_x >= 1
                    /\ file_start >= 0

(* The row under the cursor shows the selected entry, and every row shows  *)
(* the entry that it stands for.                                           *)
Agree == /\ file_start + Len(screen) <= Len(filesarr)
         /\ screen = Shown(filesarr, file_start, maxRows)
         /\ file_idx < Len(filesarr)
         /\ cur_x <= Len(screen) => screen[cur_x] = filesarr[file_idx + 1]
         /\ cur_x <= Len(screen) \/ cur_x = 1

(* The cursor keys keep the screen, the cursor and the list in agreement:  *)
(* scrolling prints the window again exactly when it moves.                *)
KeysKeepAgreement == [][Agree /\ (upkey \/ downkey) => Agree']_pagerVars
=============================================================================
