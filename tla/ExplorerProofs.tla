---------------------------- MODULE ExplorerProofs ----------------------------
(* Proofs about the explorer: about Pager, for every list, window and      *)
(* sequence of keys; and about Explorer, for every tree.  What is said of  *)
(* the cursor, the list and the screen holds whatever the recursive        *)
(* operations on directories do to the tree; what is said of the tree and  *)
(* the histories uses the recursion that defines these (DirectoriesRecur). *)
EXTENDS Explorer, FiniteSetTheorems, SequenceTheorems, TLAPS

PagerInv == PagerTypeOK /\ CursorArithmetic

-----------------------------------------------------------------------------
(* How many rows are shown of a list. *)
RowCount(list, rows) == IF MinOf(Len(list), rows) < 0 THEN 0 ELSE MinOf(Len(list), rows)

(* What is shown has a row for every entry that fits, and each row stands  *)
(* for the entry it should, or for garbage behind the end of the list.     *)
LEMMA ShownRows ==
  ASSUME NEW list \in Seq(Entry), NEW start \in Nat, NEW rows \in Int
  PROVE  /\ Shown(list, start, rows) \in Seq(Entry \cup {Garbage})
         /\ Len(Shown(list, start, rows)) = RowCount(list, rows)
         /\ RowCount(list, rows) \in Nat
         /\ \A i \in 1..Len(Shown(list, start, rows)) :
              start + i <= Len(list) => Shown(list, start, rows)[i] = list[start + i]
<1> DEFINE n == MinOf(Len(list), rows)
           k == IF n < 0 THEN 0 ELSE n
<1>1. n \in Int /\ k \in Nat
  BY DEF MinOf
<1>2. 1..n = 1..k
  BY <1>1
<1>3. \A i \in 1..k : start + i \in Nat \ {0}
  BY <1>1
<1>4. Shown(list, start, rows) =
        [i \in 1..k |-> IF start + i <= Len(list) THEN list[start + i] ELSE Garbage]
  BY <1>2 DEF Shown
<1>5. \A i \in 1..k : (IF start + i <= Len(list) THEN list[start + i] ELSE Garbage)
                        \in Entry \cup {Garbage}
  BY <1>1, <1>3
<1>6. Shown(list, start, rows) \in [1..k -> Entry \cup {Garbage}]
  BY <1>4, <1>5
<1>7. Shown(list, start, rows) \in Seq(Entry \cup {Garbage}) /\ Len(Shown(list, start, rows)) = k
  BY <1>1, <1>6
<1> QED
  BY <1>1, <1>4, <1>7 DEF RowCount

-----------------------------------------------------------------------------
(* Where the window has scrolled and where the selection is follow from    *)
(* each other after every key: the cursor keys.                            *)
LEMMA KeyKeepsInv ==
  ASSUME PagerInv, upkey \/ downkey
  PROVE  PagerInv'
<1> USE DEF PagerInv, PagerTypeOK, CursorArithmetic
<1>1. CASE upkey
  <2>1. /\ cur_x' \in Int /\ file_idx' \in Int /\ file_start' \in Int
        /\ maxRows' = maxRows /\ filesarr' = filesarr
        /\ CursorArithmetic'
    BY <1>1 DEF upkey
  <2>2. screen' = screen \/ screen' = Shown(filesarr, file_start', maxRows)
    BY <1>1, <2>1 DEF upkey, printfiles
  <2> QED
    BY <2>1, <2>2, ShownRows
<1>2. CASE downkey
  <2>1. /\ cur_x' \in Int /\ file_idx' \in Int /\ file_start' \in Int
        /\ maxRows' = maxRows /\ filesarr' = filesarr
        /\ CursorArithmetic'
    BY <1>2 DEF downkey
  <2>2. screen' = screen \/ screen' = Shown(filesarr, file_start', maxRows)
    BY <1>2, <2>1 DEF downkey, printfiles
  <2> QED
    BY <2>1, <2>2, ShownRows
<1> QED
  BY <1>1, <1>2

(* ... and after reading a list, printing it or going to its top.          *)
LEMMA TurnKeepsInv ==
  ASSUME PagerInv, Turn
  PROVE  PagerInv'
<1> USE DEF PagerInv, PagerTypeOK, CursorArithmetic
<1>1. /\ cur_x' \in Int /\ file_idx' \in Int /\ file_start' \in Nat
      /\ maxRows' \in Int /\ filesarr' \in Seq(Entry)
      /\ CursorArithmetic'
  BY DEF Turn, init, cursorVars
<1>2. screen' = screen \/ screen' = Shown(filesarr', file_start', maxRows')
  BY DEF Turn, printfiles
<1>3. screen' \in Seq(Entry \cup {Garbage})
  BY <1>1, <1>2, ShownRows
<1> QED
  BY <1>1, <1>3

LEMMA PagerStep ==
  ASSUME PagerInv, [upkey \/ downkey \/ Turn]_pagerVars
  PROVE  PagerInv'
<1>1. CASE upkey \/ downkey
  BY <1>1, KeyKeepsInv
<1>2. CASE Turn
  BY <1>2, TurnKeepsInv
<1>3. CASE UNCHANGED pagerVars
  BY <1>3 DEF PagerInv, PagerTypeOK, CursorArithmetic, pagerVars, cursorVars
<1> QED BY <1>1, <1>2, <1>3

LEMMA PagerInitTyped ==
  ASSUME PagerInit
  PROVE  PagerInv
<1>1. /\ cur_x = 1 /\ file_idx = 0 /\ file_start = 0 /\ maxRows \in Int
      /\ filesarr \in Seq(Entry)
      /\ screen = <<>> \/ screen = Shown(filesarr, 0, maxRows)
  BY DEF PagerInit
<1>2. screen \in Seq(Entry \cup {Garbage})
  <2>1. Shown(filesarr, 0, maxRows) \in Seq(Entry \cup {Garbage})
    BY <1>1, ShownRows
  <2>2. <<>> \in Seq(Entry \cup {Garbage})
    OBVIOUS
  <2> QED
    BY <1>1, <2>1, <2>2
<1> QED
  BY <1>1, <1>2 DEF PagerInv, PagerTypeOK, CursorArithmetic

THEOREM PagerInvariant == PagerSpec => []PagerInv
<1>1. PagerInit => PagerInv
  BY PagerInitTyped
<1>2. PagerInv /\ [upkey \/ downkey \/ Turn]_pagerVars => PagerInv'
  BY PagerStep
<1> QED
  BY <1>1, <1>2, PTL DEF PagerSpec

(* The cursor's row, the first line shown and the selected entry go        *)
(* together, whatever keys are pressed and whatever lists are read.        *)
THEOREM CursorAlwaysConsistent == PagerSpec => []CursorArithmetic
<1>1. PagerInv => CursorArithmetic
  BY DEF PagerInv
<1> QED
  BY <1>1, PagerInvariant, PTL

-----------------------------------------------------------------------------
(* What agreement says, with the types it says it of. *)
LEMMA AgreeFacts ==
  ASSUME PagerInv, Agree
  PROVE  /\ file_start \in Nat /\ file_idx \in Nat /\ cur_x \in Nat \ {0} /\ maxRows \in Int
         /\ filesarr \in Seq(Entry) /\ Len(filesarr) \in Nat
         /\ file_idx = file_start + cur_x - 1
         /\ screen = Shown(filesarr, file_start, maxRows)
         /\ Len(screen) = RowCount(filesarr, maxRows) /\ Len(screen) \in Nat
         /\ file_start + Len(screen) <= Len(filesarr)
         /\ file_idx < Len(filesarr)
         /\ cur_x <= Len(screen) \/ cur_x = 1
<1>1. /\ file_start \in Nat /\ file_idx \in Nat /\ cur_x \in Nat \ {0} /\ maxRows \in Int
      /\ filesarr \in Seq(Entry) /\ Len(filesarr) \in Nat
      /\ file_idx = file_start + cur_x - 1
  BY DEF PagerInv, PagerTypeOK, CursorArithmetic
<1>2. /\ screen = Shown(filesarr, file_start, maxRows)
      /\ file_start + Len(screen) <= Len(filesarr)
      /\ file_idx < Len(filesarr)
      /\ cur_x <= Len(screen) \/ cur_x = 1
  BY DEF Agree
<1>3. Len(screen) = RowCount(filesarr, maxRows) /\ RowCount(filesarr, maxRows) \in Nat
  BY <1>1, <1>2, ShownRows
<1> QED
  BY <1>1, <1>2, <1>3

(* The numbers among them. *)
LEMMA AgreeNumbers ==
  ASSUME PagerInv, Agree
  PROVE  /\ file_start \in Int /\ file_idx \in Int /\ cur_x \in Int /\ maxRows \in Int
         /\ Len(filesarr) \in Int /\ Len(screen) \in Int
         /\ file_start >= 0 /\ cur_x >= 1 /\ Len(screen) >= 0
         /\ file_idx = file_start + cur_x - 1
         /\ file_start + Len(screen) <= Len(filesarr)
         /\ file_idx < Len(filesarr)
         /\ cur_x <= Len(screen) \/ cur_x = 1
  BY AgreeFacts

(* A key that moves the cursor within the window keeps the agreement. *)
LEMMA MoveKeepsAgreement ==
  ASSUME PagerInv, Agree,
         UNCHANGED <<file_start, maxRows, filesarr, screen>>,
         cur_x' \in Nat \ {0}, cur_x' <= Len(screen),
         file_idx' = file_start + cur_x' - 1
  PROVE  Agree'
<1>1. file_start \in Int /\ Len(screen) \in Int /\ Len(filesarr) \in Int
      /\ file_start + Len(screen) <= Len(filesarr)
  BY AgreeNumbers
<1>2. file_idx' + 1 = file_start + cur_x'
  BY <1>1
<1>3. file_idx' + 1 <= Len(filesarr)
  BY <1>1, <1>2
<1>4. screen[cur_x'] = filesarr[file_start + cur_x']
  <2>1. /\ filesarr \in Seq(Entry) /\ file_start \in Nat /\ maxRows \in Int
        /\ screen = Shown(filesarr, file_start, maxRows)
    BY AgreeFacts
  <2>2. cur_x' \in 1..Len(screen)
    BY AgreeNumbers
  <2>3. file_start + cur_x' <= Len(filesarr)
    BY <1>2, <1>3
  <2>4. \A i \in 1..Len(screen) :
           file_start + i <= Len(filesarr) => screen[i] = filesarr[file_start + i]
    BY <2>1, ShownRows
  <2> QED
    BY <2>2, <2>3, <2>4
<1>5. screen[cur_x'] = filesarr[file_idx' + 1]
  BY <1>2, <1>4
<1> QED
  BY <1>2, <1>3, <1>5, AgreeFacts DEF Agree

(* A key that moves the window prints it. *)
LEMMA ScrollKeepsAgreement ==
  ASSUME PagerInv, PagerInv', Agree,
         UNCHANGED <<cur_x, maxRows, filesarr>>, printfiles,
         file_start' + Len(screen) <= Len(filesarr),
         file_idx' < Len(filesarr)
  PROVE  Agree'
<1>1. /\ file_start' \in Nat /\ file_idx' = file_start' + cur_x - 1
      /\ screen' = Shown(filesarr, file_start', maxRows)
  BY DEF PagerInv, PagerTypeOK, CursorArithmetic, printfiles
<1>2. Len(screen') = Len(screen)
  BY <1>1, AgreeFacts, ShownRows
<1>3. cur_x <= Len(screen') => screen'[cur_x] = filesarr[file_idx' + 1]
  <2> SUFFICES ASSUME cur_x <= Len(screen') PROVE screen'[cur_x] = filesarr[file_idx' + 1]
    OBVIOUS
  <2>1. file_idx' + 1 = file_start' + cur_x /\ cur_x \in 1..Len(screen')
    BY <1>1, <1>2, AgreeFacts, SMTT(30)
  <2>2. file_start' + cur_x <= Len(filesarr)
    BY <1>1, <1>2, <2>1, AgreeNumbers
  <2>3. screen'[cur_x] = filesarr[file_start' + cur_x]
    BY <1>1, <2>1, <2>2, ShownRows, AgreeFacts
  <2> QED
    BY <2>1, <2>3
<1> QED
  BY <1>1, <1>2, <1>3, AgreeFacts DEF Agree

(* A cursor key keeps screen, cursor and list in agreement. *)
LEMMA KeyKeepsAgreement ==
  ASSUME PagerInv, PagerInv', Agree, upkey \/ downkey
  PROVE  Agree'
<1>1. Len(screen) = RowCount(filesarr, maxRows) /\ Len(screen) \in Nat
  BY AgreeFacts
<1>2. CASE upkey
  <2>1. CASE /\ cur_x > 1
             /\ cur_x' = cur_x - 1 /\ file_idx' = file_idx - 1
             /\ UNCHANGED <<file_start, maxRows, filesarr, screen>>
    <3>1. cur_x <= Len(screen)
      BY <2>1, AgreeNumbers
    <3>2. /\ cur_x' \in Nat \ {0} /\ cur_x' <= Len(screen)
          /\ file_idx' = file_start + cur_x' - 1
      BY <2>1, <3>1, AgreeNumbers, SMTT(30)
    <3> QED
      BY <2>1, <3>2, MoveKeepsAgreement
  <2>2. CASE /\ file_start > 0
             /\ file_start' = file_start - 1 /\ file_idx' = file_idx - 1
             /\ UNCHANGED <<cur_x, maxRows, filesarr>>
             /\ printfiles
    <3>1. file_start' + Len(screen) <= Len(filesarr) /\ file_idx' < Len(filesarr)
      BY <2>2, AgreeNumbers
    <3> QED
      BY <2>2, <3>1, ScrollKeepsAgreement
  <2> QED
    BY <1>2, <2>1, <2>2 DEF upkey
<1>3. CASE downkey
  <2> DEFINE sz == Len(filesarr) - file_start
  <2>1. /\ sz \in Int /\ Len(filesarr) \in Nat /\ sz <= Len(filesarr)
        /\ MinOf(maxRows, sz) \in Int
        /\ MinOf(maxRows, sz) <= maxRows /\ MinOf(maxRows, sz) <= sz
    BY AgreeNumbers DEF MinOf
  <2>2. CASE /\ cur_x + 1 <= MinOf(maxRows, sz)
             /\ cur_x' = cur_x + 1 /\ file_idx' = file_idx + 1
             /\ UNCHANGED <<file_start, maxRows, filesarr, screen>>
    <3>1. cur_x + 1 <= maxRows /\ cur_x + 1 <= Len(filesarr)
      BY <2>1, <2>2, AgreeNumbers, SMTT(30)
    <3>2. cur_x + 1 <= Len(screen)
      BY <1>1, <2>1, <3>1, AgreeNumbers DEF MinOf, RowCount
    <3>3. cur_x' = cur_x + 1 /\ file_idx' = file_idx + 1
      BY <2>2
    <3>4. /\ cur_x' \in Nat \ {0} /\ cur_x' <= Len(screen)
          /\ file_idx' = file_start + cur_x' - 1
      BY <3>2, <3>3, AgreeNumbers, SMTT(30)
    <3> QED
      BY <2>2, <3>4, MoveKeepsAgreement
  <2>3. CASE /\ maxRows < sz /\ file_idx + 1 < Len(filesarr)
             /\ file_start' = file_start + 1 /\ file_idx' = file_idx + 1
             /\ UNCHANGED <<cur_x, maxRows, filesarr>>
             /\ printfiles
    <3>1. Len(screen) <= (IF maxRows < 0 THEN 0 ELSE maxRows)
      BY <1>1, <2>1, AgreeNumbers DEF MinOf, RowCount
    <3>2. /\ file_start' + Len(screen) <= Len(filesarr) /\ file_idx' < Len(filesarr)
      BY <2>3, <3>1, AgreeNumbers, SMTT(30)
    <3> QED
      BY <2>3, <3>2, ScrollKeepsAgreement
  <2> QED
    BY <1>3, <2>2, <2>3 DEF downkey
<1> QED
  BY <1>2, <1>3

(* Under the spec the cursor keys keep screen, cursor and list in          *)
(* agreement: the row under the cursor shows what enter would open.        *)
THEOREM KeysAgree == PagerSpec => KeysKeepAgreement
<1>1. PagerInv /\ PagerInv' => [Agree /\ (upkey \/ downkey) => Agree']_pagerVars
  BY KeyKeepsAgreement
<1> QED
  BY <1>1, PagerInvariant, PTL DEF KeysKeepAgreement

-----------------------------------------------------------------------------
(* What the directory is listed as. *)
Listable == Names \cup {".", ".."}

Listing == INSTANCE FiniteInduction WITH Step <- AddEntry

LEMMA EntriesListed ==
  ASSUME NEW t, NEW p, NEW names \in Seq(Listable)
  PROVE  /\ Entries(t, p, names) \in Seq(Entry)
         /\ (\E i \in DOMAIN names : names[i] = ".") => Entries(t, p, names) # <<>>
<1> DEFINE place == [tree |-> t, path |-> p]
<1>1. Entries(t, p, names) = Listing!SeqFold(names, place, <<>>)
  BY DEF Entries, FoldLeft, MapThenFoldSet, Max, Listing!SeqFold, Listing!SeqFolds, Listing!Greatest
<1>2. place.tree = t /\ place.path = p
  OBVIOUS
<1> HIDE DEF place
<1>3. PICK g : /\ Entries(t, p, names) = g[Len(names)]
               /\ g[0] = <<>>
               /\ \A i \in 1..Len(names) : g[i] = AddEntry(place, names[i], g[i - 1])
  BY <1>1, Listing!SeqFoldSteps
<1> DEFINE Q == {i \in 0..Len(names) : /\ g[i] \in Seq(Entry)
                                       /\ \A j \in 1..i : names[j] = "." => g[i] # <<>>}
<1>4. 0 \in Q
  <2>1. <<>> \in Seq(Entry) /\ 0 \in 0..Len(names)
    OBVIOUS
  <2>2. \A j \in 1..0 : FALSE
    OBVIOUS
  <2> QED BY <1>3, <2>1, <2>2
<1>5. ASSUME NEW i \in 1..Len(names), i - 1 \in Q PROVE i \in Q
  <2> DEFINE n == names[i]
             e == [name |-> n, dir |-> checkDir(t, Append(p, n))]
  <2>1. n \in Listable /\ e \in Entry
    <3>1. checkDir(t, Append(p, n)) \in BOOLEAN
      BY DEF checkDir, IsDir
    <3> QED BY <3>1, ExplorerAssumption DEF Listable
  <2>2. g[i - 1] \in Seq(Entry) /\ \A j \in 1..(i - 1) : names[j] = "." => g[i - 1] # <<>>
    BY <1>5
  <2>3. \/ g[i] = Append(g[i - 1], e)
        \/ g[i] = g[i - 1] /\ n \in Names
    BY <1>2, <1>3 DEF AddEntry
  <2>4. n \in Names => n # "."
    BY FileTreeAssumption
  <2> HIDE DEF e
  <2>5. CASE g[i] = Append(g[i - 1], e)
    <3>1. g[i] \in Seq(Entry) /\ g[i] # <<>>
      BY <2>1, <2>2, <2>5
    <3>2. i \in 0..Len(names)
      OBVIOUS
    <3> QED BY <3>1, <3>2
  <2>6. CASE g[i] = g[i - 1] /\ n \in Names
    <3>1. \A j \in 1..i : j \in 1..(i - 1) \/ j = i
      OBVIOUS
    <3> QED BY <2>2, <2>4, <2>6, <3>1
  <2> QED BY <2>3, <2>5, <2>6
<1>6. Len(names) \in Q
  <2> DEFINE l == Len(names)
  <2>1. l \in Nat /\ 0 \in Q /\ \A i \in 1..l : i - 1 \in Q => i \in Q
    BY <1>4, <1>5
  <2> HIDE DEF Q, l
  <2>2. l \in Q
    BY <2>1, Listing!StepByStep
  <2> QED BY <2>2 DEF l
<1> QED BY <1>3, <1>6

(* What is listed up to the first entry that stat fails on. *)
LEMMA UpToDanglingListed ==
  ASSUME NEW t, NEW p, NEW names \in Orders, Dangling(t, p) # {}
  PROVE  UpToDangling(t, p, names) \in Seq(Entry)
<1> DEFINE D == Dangling(t, p)
           First(i) == names[i] \in D /\ \A j \in 1..(i - 1) : names[j] \notin D
           Q == {i \in 0..Len(names) : \A j \in 1..i : names[j] \notin D}
<1>1. names \in Seq(Listable) /\ \E k \in DOMAIN names : names[k] \in D
  BY ExplorerAssumption DEF Listable, Dangling
<1> HIDE DEF D
<1>2. \E i \in DOMAIN names : First(i)
  <2> SUFFICES ASSUME \A i \in 1..Len(names) : ~First(i) PROVE FALSE
    BY <1>1
  <2> DEFINE l == Len(names)
  <2>1. l \in Nat /\ 0 \in Q
    BY <1>1
  <2>2. ASSUME NEW i \in 1..l, i - 1 \in Q PROVE i \in Q
    <3>1. names[i] \notin D
      BY <2>2
    <3>2. \A j \in 1..i : j \in 1..(i - 1) \/ j = i
      OBVIOUS
    <3>3. i \in 0..Len(names) /\ \A j \in 1..(i - 1) : names[j] \notin D
      BY <2>2
    <3> QED BY <3>1, <3>2, <3>3
  <2>3. l \in Q
    <3> HIDE DEF l, Q
    <3> QED BY <2>1, <2>2, Listing!StepByStep
  <2> QED BY <1>1, <2>3
<1> DEFINE cut == CHOOSE i \in DOMAIN names : First(i)
<1>3. cut \in DOMAIN names
  BY <1>2
<1>4. UpToDangling(t, p, names) = Entries(t, p, SubSeq(names, 1, cut - 1))
  BY DEF UpToDangling, D
<1> HIDE DEF cut
<1>5. SubSeq(names, 1, cut - 1) \in Seq(Listable)
  BY <1>1, <1>3
<1> QED BY <1>4, <1>5, EntriesListed

-----------------------------------------------------------------------------
(* The steps of a path, and of the search for where links lead. *)
Stepping(on, n, at) == Onto(on.tree, on.ends, n, at)
Deepening(t, i, ends) == Further(t, ends)

Following == INSTANCE FiniteInduction WITH Step <- Stepping
Nesting == INSTANCE FiniteInduction WITH Step <- Deepening

LEMMA PathSteps ==
  ASSUME NEW t, NEW ends, NEW p \in Seq(PathNames)
  PROVE  \E g : /\ Along(t, ends, p) = g[Len(p)]
                /\ g[0] = <<>>
                /\ \A i \in 1..Len(p) : g[i] = Onto(t, ends, p[i], g[i - 1])
<1> DEFINE on == [tree |-> t, ends |-> ends]
           l == Len(p)
           Steps(f) == f = [i \in 0..l |-> IF i = 0 THEN <<>> ELSE Onto(t, ends, p[i], f[i - 1])]
           at == CHOOSE f : Steps(f)
<1>1. l \in Nat /\ on.tree = t /\ on.ends = ends
  OBVIOUS
<1>2. PICK h : /\ h[0] = <<>>
               /\ \A i \in 1..l : h[i] = Onto(t, ends, p[i], h[i - 1])
  <2> HIDE DEF on
  <2>1. \E g : /\ Following!SeqFold(p, on, <<>>) = g[Len(p)]
               /\ g[0] = <<>>
               /\ \A i \in 1..Len(p) : g[i] = Stepping(on, p[i], g[i - 1])
    BY Following!SeqFoldSteps
  <2> QED BY <1>1, <2>1 DEF Stepping
<1> HIDE DEF l
<1>3. Steps([i \in 0..l |-> h[i]])
  BY <1>1, <1>2
<1>4. Steps(at)
  <2> HIDE DEF Steps
  <2> QED BY <1>3
<1>5. Along(t, ends, p) = at[l]
  BY DEF Along, l
<1> HIDE DEF at
<1>6. at[0] = <<>> /\ \A i \in 1..l : at[i] = Onto(t, ends, p[i], at[i - 1])
  BY <1>1, <1>4
<1> QED
  BY <1>5, <1>6 DEF l

(* What a path can lead to. *)
Places(t) == {Err, <<>>} \cup (DOMAIN t \ Links(t))

(* The names that are no names of files. *)
LEMMA SpecialNames ==
  /\ "." \notin Names /\ ".." \notin Names /\ "ERR" \notin Names
  /\ Err \notin Seq(Names) /\ Err \in Seq(PathNames) /\ Err # <<>>
  /\ Seq(Names) \subseteq Seq(PathNames)
<1>1. "." \notin Names /\ ".." \notin Names /\ "ERR" \notin Names
  BY FileTreeAssumption
<1>2. Err \in Seq(PathNames) /\ Err # <<>> /\ Len(Err) = 1 /\ Err[1] = "ERR"
  BY DEF Err, PathNames
<1>3. Err \notin Seq(Names)
  BY <1>1, <1>2
<1>4. Seq(Names) \subseteq Seq(PathNames)
  BY DEF PathNames
<1> QED
  BY <1>1, <1>2, <1>3, <1>4

LEMMA FrontAppend ==
  ASSUME NEW S, NEW s \in Seq(S), NEW x
  PROVE  /\ Front(Append(s, x)) = s /\ Last(Append(s, x)) = x
         /\ Append(s, x) # <<>> /\ Len(Append(s, x)) = Len(s) + 1
<1>1. s \in Seq(S \cup {x}) /\ x \in S \cup {x}
  OBVIOUS
<1> DEFINE a == Append(s, x)
<1>2. a \in Seq(S \cup {x}) /\ Len(a) = Len(s) + 1 /\ a[Len(a)] = x
  BY <1>1
<1>3. Front(a) \in Seq(S \cup {x}) /\ Len(Front(a)) = Len(s)
  BY <1>2 DEF Front
<1>4. \A i \in 1..Len(s) : Front(a)[i] = s[i]
  BY <1>1, <1>2 DEF Front
<1>5. Front(a) = s
  BY <1>1, <1>3, <1>4
<1> QED
  BY <1>2, <1>5 DEF Last

LEMMA FrontLast ==
  ASSUME NEW S, NEW s \in Seq(S), s # <<>>
  PROVE  /\ Front(s) \in Seq(S) /\ Last(s) \in S /\ s = Append(Front(s), Last(s))
         /\ Len(Front(s)) = Len(s) - 1 /\ Len(s) \in Nat \ {0}
<1>1. Len(s) \in Nat \ {0}
  OBVIOUS
<1>2. Front(s) \in Seq(S) /\ Len(Front(s)) = Len(s) - 1 /\ Last(s) \in S
  <2>1. Len(s) - 1 \in Int /\ \A i \in 1..(Len(s) - 1) : s[i] \in S
    BY <1>1
  <2> DEFINE n == Len(s) - 1
  <2>2. n \in Nat /\ \A i \in 1..n : s[i] \in S
    BY <1>1, <2>1
  <2> HIDE DEF n
  <2>3. /\ SubSeq(s, 1, n) \in Seq(S)
        /\ Len(SubSeq(s, 1, n)) = IF 1 <= n THEN n - 1 + 1 ELSE 0
    BY <2>2, SubSeqProperties
  <2>4. Len(SubSeq(s, 1, n)) = n
    BY <2>2, <2>3
  <2>5. Last(s) \in S
    BY <1>1 DEF Last
  <2> QED
    BY <2>3, <2>4, <2>5 DEF Front, n
<1>3. \A i \in 1..(Len(s) - 1) : Front(s)[i] = s[i]
  BY <1>1 DEF Front
<1> DEFINE a == Append(Front(s), Last(s))
<1>4. a \in Seq(S) /\ Len(a) = Len(s) /\ a[Len(s)] = s[Len(s)]
  BY <1>1, <1>2 DEF Last
<1>5. \A i \in 1..(Len(s) - 1) : a[i] = s[i]
  BY <1>1, <1>2, <1>3
<1>6. \A i \in 1..Len(s) : a[i] = s[i]
  BY <1>1, <1>4, <1>5
<1>7. a = s
  BY <1>4, <1>6
<1> QED
  BY <1>1, <1>2, <1>7

(* A directory is the root or one of the tree. *)
LEMMA DirFacts ==
  ASSUME NEW t, IsTree(t), NEW p, IsDir(t, p)
  PROVE  /\ p \in Seq(Names) /\ p # Err /\ p \notin Links(t)
         /\ p = <<>> \/ (p \in DOMAIN t /\ IsDir(t, Front(p)))
<1>1. p = <<>> \/ (p \in DOMAIN t /\ t[p].kind = "dir")
  BY DEF IsDir
<1>2. p \in Seq(Names) /\ (p = <<>> \/ (p \in DOMAIN t /\ IsDir(t, Front(p))))
  <2>1. CASE p = <<>>
    BY <2>1
  <2>2. CASE p \in DOMAIN t
    BY <2>2 DEF IsTree
  <2> QED
    BY <1>1, <2>1, <2>2
<1>3. p \notin Links(t)
  BY <1>1 DEF Links, IsTree
<1> QED
  BY <1>2, <1>3, SpecialNames

LEMMA FrontOfRoot == Front(<<>>) = <<>>
  BY DEF Front

LEMMA OntoPlace ==
  ASSUME NEW t, IsTree(t), NEW ends, \A l \in Links(t) : ends[l] \in Places(t),
         NEW n, NEW at \in Places(t)
  PROVE  Onto(t, ends, n, at) \in Places(t)
<1>1. IsDir(t, at) => Front(at) \in Places(t)
  <2>1. IsDir(t, Front(at)) => Front(at) \in Places(t)
    BY DirFacts DEF Places
  <2> QED
    BY <2>1, DirFacts, FrontOfRoot DEF Places
<1> QED
  BY <1>1 DEF Onto, Places

LEMMA AlongPlace ==
  ASSUME NEW t, IsTree(t), NEW ends, \A l \in Links(t) : ends[l] \in Places(t),
         NEW p \in Seq(PathNames)
  PROVE  Along(t, ends, p) \in Places(t)
<1>1. PICK g : /\ Along(t, ends, p) = g[Len(p)]
               /\ g[0] = <<>>
               /\ \A i \in 1..Len(p) : g[i] = Onto(t, ends, p[i], g[i - 1])
  BY PathSteps
<1> DEFINE l == Len(p)
           Q == {i \in 0..l : g[i] \in Places(t)}
<1>2. l \in Nat /\ 0 \in Q
  BY <1>1 DEF Places
<1>3. ASSUME NEW i \in 1..l, i - 1 \in Q PROVE i \in Q
  <2>1. i \in 0..l /\ g[i - 1] \in Places(t)
    BY <1>2, <1>3
  <2>2. g[i] = Onto(t, ends, p[i], g[i - 1])
    BY <1>1
  <2> QED
    BY <2>1, <2>2, OntoPlace
<1>4. l \in Q
  <2> HIDE DEF l, Q
  <2> QED BY <1>2, <1>3, Following!StepByStep
<1> QED
  BY <1>1, <1>4

(* Where links lead to is what they lead to through so many others. *)
LEMMA EndsSteps ==
  ASSUME NEW t
  PROVE  \E e : /\ LinkEnds(t) = e[MaxLinks]
                /\ \A l \in Links(t) : e[0][l] = Err
                /\ \A i \in 1..MaxLinks : e[i] = Further(t, e[i - 1])
<1> DEFINE none == [l \in Links(t) |-> Err]
           Steps(f) == f = [i \in 0..MaxLinks |-> IF i = 0 THEN none ELSE Further(t, f[i - 1])]
           ends == CHOOSE f : Steps(f)
           depths == [i \in 1..MaxLinks |-> i]
<1>1. MaxLinks \in Nat /\ depths \in Seq(Nat) /\ Len(depths) = MaxLinks
  BY DEF MaxLinks
<1>2. PICK h : /\ h[0] = none
               /\ \A i \in 1..MaxLinks : h[i] = Further(t, h[i - 1])
  <2> HIDE DEF none, depths
  <2>1. \E g : /\ Nesting!SeqFold(depths, t, none) = g[Len(depths)]
               /\ g[0] = none
               /\ \A i \in 1..Len(depths) : g[i] = Deepening(t, depths[i], g[i - 1])
    <3>1. depths \in Seq(Nat)
      BY <1>1
    <3> QED BY <3>1, Nesting!SeqFoldSteps
  <2> QED BY <1>1, <2>1 DEF Deepening
<1>3. Steps([i \in 0..MaxLinks |-> h[i]])
  <2> HIDE DEF none
  <2> QED BY <1>1, <1>2
<1>4. Steps(ends)
  <2> HIDE DEF Steps
  <2> QED BY <1>3
<1>5. LinkEnds(t) = ends[MaxLinks]
  BY DEF LinkEnds
<1> HIDE DEF ends
<1>6. ends[0] = none /\ \A i \in 1..MaxLinks : ends[i] = Further(t, ends[i - 1])
  BY <1>1, <1>4
<1>7. \A l \in Links(t) : ends[0][l] = Err
  BY <1>6
<1> QED
  BY <1>5, <1>6, <1>7

LEMMA LinkData ==
  ASSUME NEW t, IsTree(t), NEW l \in Links(t)
  PROVE  t[l].data \in Seq(PathNames)
BY DEF IsTree, IsNode, Links, DirNode, FileNode, LinkNode

LEMMA EndsPlaces ==
  ASSUME NEW t, IsTree(t)
  PROVE  \A l \in Links(t) : LinkEnds(t)[l] \in Places(t)
<1> DEFINE Ends(f) == \A l \in Links(t) : f[l] \in Places(t)
<1>1. PICK e : /\ LinkEnds(t) = e[MaxLinks]
               /\ \A l \in Links(t) : e[0][l] = Err
               /\ \A i \in 1..MaxLinks : e[i] = Further(t, e[i - 1])
  BY EndsSteps
<1>2. ASSUME NEW f, Ends(f) PROVE Ends(Further(t, f))
  BY <1>2, AlongPlace, LinkData DEF Further
<1> DEFINE Q == {i \in 0..MaxLinks : Ends(e[i])}
<1>3. MaxLinks \in Nat /\ 0 \in Q
  BY <1>1 DEF MaxLinks, Places
<1>4. ASSUME NEW i \in 1..MaxLinks, i - 1 \in Q PROVE i \in Q
  <2>1. i \in 0..MaxLinks /\ Ends(e[i - 1])
    BY <1>3, <1>4
  <2>2. e[i] = Further(t, e[i - 1])
    BY <1>1
  <2> HIDE DEF Ends
  <2> QED
    BY <1>2, <2>1, <2>2
<1>5. MaxLinks \in Q
  <2> HIDE DEF Q
  <2> QED BY <1>3, <1>4, Nesting!StepByStep
<1> QED
  BY <1>1, <1>5

(* A path leads nowhere or to something that exists. *)
LEMMA ResolvedPlace ==
  ASSUME NEW t, IsTree(t), NEW p \in Seq(PathNames)
  PROVE  pathresolver(t, p) \in Places(t)
  BY EndsPlaces, AlongPlace DEF pathresolver

LEMMA PrefixEnds ==
  ASSUME NEW S, NEW p \in Seq(S)
  PROVE  Len(p) \in Nat /\ SubSeq(p, 1, 0) = <<>> /\ SubSeq(p, 1, Len(p)) = p
  BY SubSeqEmpty, SubSeqFull

LEMMA PrefixTyped ==
  ASSUME NEW S, NEW p \in Seq(S), NEW i \in 0..Len(p)
  PROVE  SubSeq(p, 1, i) \in Seq(S) /\ Len(SubSeq(p, 1, i)) = i
<1>1. i \in Int /\ \A j \in 1..i : p[j] \in S
  OBVIOUS
<1>2. SubSeq(p, 1, i) \in Seq(S) /\ Len(SubSeq(p, 1, i)) = IF 1 <= i THEN i - 1 + 1 ELSE 0
  BY <1>1, SubSeqProperties
<1> QED
  BY <1>1, <1>2

LEMMA PrefixStep ==
  ASSUME NEW S, NEW p \in Seq(S), NEW i \in 1..Len(p)
  PROVE  /\ SubSeq(p, 1, i) = Append(SubSeq(p, 1, i - 1), p[i])
         /\ Front(SubSeq(p, 1, i)) = SubSeq(p, 1, i - 1)
         /\ p[i] \in S /\ SubSeq(p, 1, i) # <<>>
<1>1. p[i] \in S /\ 1 \in 1..Len(p) /\ i \in 1..Len(p) /\ i - 1 \in 0..Len(p)
  OBVIOUS
<1>2. SubSeq(p, 1, i) = SubSeq(p, 1, i - 1) \o <<p[i]>>
  BY <1>1, SubSeqRecursiveSecond
<1>3. SubSeq(p, 1, i - 1) \in Seq(S)
  BY <1>1, PrefixTyped
<1> DEFINE f == SubSeq(p, 1, i - 1)
           e == p[i]
<1>4. f \in Seq(S) /\ e \in S
  BY <1>1, <1>3
<1>5. f \o <<e>> = Append(f, e) /\ Front(Append(f, e)) = f /\ Append(f, e) # <<>>
  <2> HIDE DEF f, e
  <2>1. Append(f, e) = f \o <<e>>
    BY <1>4, AppendIsConcat
  <2> QED
    BY <1>4, <2>1, FrontAppend
<1> QED
  BY <1>1, <1>2, <1>5

(* All directories on the way to a directory exist. *)
LEMMA Ancestors ==
  ASSUME NEW t, IsTree(t), NEW p, IsDir(t, p)
  PROVE  \A i \in 0..Len(p) : IsDir(t, SubSeq(p, 1, i))
<1>1. p \in Seq(Names)
  BY DirFacts
<1> DEFINE l == Len(p)
<1>2. l \in Nat /\ SubSeq(p, 1, l) = p
  BY <1>1, PrefixEnds
<1>3. \A i \in 1..l : Front(SubSeq(p, 1, i)) = SubSeq(p, 1, i - 1) /\ SubSeq(p, 1, i) # <<>>
  BY <1>1, PrefixStep
<1> SUFFICES ASSUME NEW k \in 0..l PROVE IsDir(t, SubSeq(p, 1, k))
  OBVIOUS
<1> HIDE DEF l
<1> DEFINE m == l - k
           Q == {j \in 0..m : IsDir(t, SubSeq(p, 1, l - j))}
<1>4. m \in Nat /\ 0 \in Q
  <2>1. m \in Nat /\ 0 \in 0..m /\ l - 0 = l
    BY <1>2
  <2> QED
    BY <1>2, <2>1
<1>5. ASSUME NEW j \in 1..m, j - 1 \in Q PROVE j \in Q
  <2> DEFINE i == l - (j - 1)
  <2>1. i \in 1..l /\ IsDir(t, SubSeq(p, 1, i)) /\ i - 1 = l - j
    BY <1>2, <1>5
  <2>2. IsDir(t, SubSeq(p, 1, i - 1))
    BY <1>3, <2>1, DirFacts
  <2> QED
    BY <2>1, <2>2
<1>6. m \in Q
  <2> HIDE DEF m, Q
  <2> QED BY <1>4, <1>5, Following!StepByStep
<1>7. l - m = k
  BY <1>2
<1> QED
  BY <1>6, <1>7

(* The path of a directory leads to it. *)
LEMMA DirResolves ==
  ASSUME NEW t, IsTree(t), NEW p, IsDir(t, p)
  PROVE  pathresolver(t, p) = p
<1>1. p \in Seq(Names) /\ p \in Seq(PathNames)
  BY DirFacts, SpecialNames
<1>2. \A i \in 0..Len(p) : IsDir(t, SubSeq(p, 1, i))
  BY Ancestors
<1>3. PICK g : /\ pathresolver(t, p) = g[Len(p)]
               /\ g[0] = <<>>
               /\ \A i \in 1..Len(p) : g[i] = Onto(t, LinkEnds(t), p[i], g[i - 1])
  BY <1>1, PathSteps DEF pathresolver
<1> DEFINE l == Len(p)
           Q == {i \in 0..l : g[i] = SubSeq(p, 1, i)}
<1>4. l \in Nat /\ 0 \in Q
  <2>1. l \in Nat /\ 0 \in 0..l /\ SubSeq(p, 1, 0) = <<>>
    BY <1>1, PrefixEnds
  <2> QED
    BY <1>3, <2>1
<1>5. ASSUME NEW i \in 1..l, i - 1 \in Q PROVE i \in Q
  <2>1. i \in 0..l /\ i - 1 \in 0..l
    BY <1>4
  <2>2. g[i - 1] = SubSeq(p, 1, i - 1)
    BY <1>5
  <2>3. /\ SubSeq(p, 1, i) = Append(SubSeq(p, 1, i - 1), p[i])
        /\ p[i] \in Names /\ SubSeq(p, 1, i) # <<>>
    BY <1>1, PrefixStep
  <2>4. IsDir(t, SubSeq(p, 1, i)) /\ IsDir(t, SubSeq(p, 1, i - 1))
    BY <1>2, <2>1
  <2>5. SubSeq(p, 1, i) \in DOMAIN t /\ SubSeq(p, 1, i) \notin Links(t)
    BY <2>3, <2>4, DirFacts
  <2>6. p[i] # "." /\ p[i] # ".."
    BY <2>3, SpecialNames
  <2>7. Onto(t, LinkEnds(t), p[i], SubSeq(p, 1, i - 1)) = SubSeq(p, 1, i)
    BY <2>3, <2>4, <2>5, <2>6 DEF Onto
  <2> QED
    BY <1>3, <2>1, <2>2, <2>7
<1>6. l \in Q
  <2> HIDE DEF l, Q
  <2> QED BY <1>4, <1>5, Following!StepByStep
<1>7. SubSeq(p, 1, l) = p
  BY <1>1, PrefixEnds
<1> QED
  BY <1>3, <1>6, <1>7

(* A place for something new, or of something there is, in a directory. *)
Place(t, s) == s \in Seq(Names) /\ s # <<>> /\ IsDir(t, Front(s))

LEMMA SpotFacts ==
  ASSUME NEW t, IsTree(t), NEW p
  PROVE  Spot(t, p) = Err \/ Place(t, Spot(t, p))
<1> SUFFICES ASSUME Spot(t, p) # Err PROVE Place(t, Spot(t, p))
  OBVIOUS
<1> DEFINE d == pathresolver(t, Front(p))
<1>1. Last(p) \in Names /\ IsDir(t, d) /\ Spot(t, p) = Append(d, Last(p))
  BY DEF Spot, checkDir
<1> HIDE DEF d
<1>2. d \in Seq(Names)
  BY <1>1, DirFacts
<1>3. Append(d, Last(p)) \in Seq(Names)
  BY <1>1, <1>2
<1> QED
  BY <1>1, <1>2, <1>3, FrontAppend DEF Place

(* What is in a directory is where its path says. *)
LEMMA SpotSame ==
  ASSUME NEW t, IsTree(t), NEW p, Place(t, p)
  PROVE  Spot(t, p) = p /\ p # Err
<1>1. p = Append(Front(p), Last(p)) /\ Last(p) \in Names
  BY FrontLast DEF Place
<1>2. pathresolver(t, Front(p)) = Front(p) /\ checkDir(t, Front(p))
  BY DirResolves DEF Place, checkDir
<1> QED
  BY <1>1, <1>2, SpecialNames DEF Spot, Place

LEMMA TreePlaces ==
  ASSUME NEW t, IsTree(t), NEW p \in DOMAIN t
  PROVE  Place(t, p)
  BY DEF IsTree, Place

-----------------------------------------------------------------------------
(* What the operators on trees return are functions. *)
LEMMA TreeFunctions ==
  ASSUME NEW t
  PROVE  /\ \A p, node : IsFunction(With(t, p, node))
         /\ \A paths : IsFunction(Without(t, paths))
         /\ \A old, new : CanRename(t, old, new) => IsFunction(rename_file(t, old, new))
<1>1. \A p, node : IsFunction(With(t, p, node))
  BY DEF IsFunction, With
<1>2. \A paths : IsFunction(Without(t, paths))
  BY DEF IsFunction, Without
<1>3. ASSUME NEW old, NEW new, CanRename(t, old, new) PROVE IsFunction(rename_file(t, old, new))
  <2> DEFINE o == Spot(t, old)
             n == Spot(t, new)
             Before(p) == o \o SubSeq(p, Len(n) + 1, Len(p))
             D == {q \in DOMAIN t : ~IsPrefix(o, q) /\ q # n}
                    \cup {n \o SubSeq(q, Len(o) + 1, Len(q)) : q \in {r \in DOMAIN t : IsPrefix(o, r)}}
  <2>1. rename_file(t, old, new) = [p \in D |-> IF IsPrefix(n, p) THEN t[Before(p)] ELSE t[p]]
    BY <1>3 DEF rename_file
  <2> HIDE DEF D, Before, n, o
  <2> QED BY <2>1 DEF IsFunction
<1> QED
  BY <1>1, <1>2, <1>3

(* Something that is no directory, or was not there, is put in its place. *)
LEMMA WithKeeps ==
  ASSUME NEW t, IsTree(t), NEW s, Place(t, s), ~IsDir(t, s), NEW node, IsNode(node)
  PROVE  IsTree(With(t, s, node))
<1> DEFINE u == With(t, s, node)
<1>1. DOMAIN u = DOMAIN t \cup {s} /\ u[s] = node /\ \A p \in DOMAIN t : p # s => u[p] = t[p]
  BY DEF With
<1>2. IsFunction(u)
  BY TreeFunctions
<1> HIDE DEF u
<1>3. ASSUME NEW p, IsDir(t, p) PROVE IsDir(u, p)
  BY <1>1, <1>3 DEF IsDir
<1>4. ASSUME NEW p \in DOMAIN u
      PROVE  /\ p \in Seq(Names) /\ p # <<>> /\ IsDir(u, Front(p))
             /\ IsNode(u[p])
  <2>1. CASE p = s
    BY <1>1, <1>3, <2>1 DEF Place, Links
  <2>2. CASE p # s
    BY <1>1, <1>3, <2>2 DEF IsTree, Links
  <2> QED
    BY <2>1, <2>2
<1> QED
  BY <1>4, <1>2 DEF IsTree, u

(* Something is taken away that nothing is in. *)
LEMMA WithoutKeeps ==
  ASSUME NEW t, IsTree(t), NEW s, \A p \in DOMAIN t : p # s => Front(p) # s
  PROVE  IsTree(Without(t, {s}))
<1> DEFINE u == Without(t, {s})
<1>1. DOMAIN u = DOMAIN t \ {s} /\ \A p \in DOMAIN u : u[p] = t[p]
  BY DEF Without
<1>2. IsFunction(u)
  BY TreeFunctions
<1> HIDE DEF u
<1>3. ASSUME NEW p, IsDir(t, p), p # s PROVE IsDir(u, p)
  BY <1>1, <1>3 DEF IsDir
<1>4. ASSUME NEW p \in DOMAIN u
      PROVE  /\ p \in Seq(Names) /\ p # <<>> /\ IsDir(u, Front(p))
             /\ IsNode(u[p])
  BY <1>1, <1>3 DEF IsTree, Links
<1> QED
  BY <1>4, <1>2 DEF IsTree, u

LEMMA MkdirKeeps ==
  ASSUME NEW t, IsTree(t), NEW p, CanMake(t, p)
  PROVE  IsTree(mkdir(t, p))
<1>1. Place(t, Spot(t, p)) /\ ~IsDir(t, Spot(t, p))
  BY SpotFacts DEF CanMake, IsDir, Place
<1>2. IsNode(DirNode)
  BY DEF IsNode
<1> QED
  BY <1>1, <1>2, WithKeeps DEF mkdir

LEMMA OpenedSteps ==
  ASSUME NEW t, NEW p, pathresolver(t, p) = Err
  PROVE  \E g : /\ Opened(t, p) = (IF g[MaxLinks] \in DOMAIN t THEN Err ELSE g[MaxLinks])
                /\ g[0] = Spot(t, p)
                /\ \A i \in 1..MaxLinks :
                     g[i] = IF g[i - 1] \in Links(t) THEN Spot(t, t[g[i - 1]].data) ELSE g[i - 1]
<1> DEFINE Over(s) == IF s \in Links(t) THEN Spot(t, t[s].data) ELSE s
           first == Spot(t, p)
           Steps(f) == f = [i \in 0..MaxLinks |-> IF i = 0 THEN first ELSE Over(f[i - 1])]
           spot == CHOOSE f : Steps(f)
           h == [i \in 0..3 |-> IF i = 0 THEN first ELSE IF i = 1 THEN Over(first)
                                ELSE IF i = 2 THEN Over(Over(first)) ELSE Over(Over(Over(first)))]
<1>1. Opened(t, p) = IF spot[MaxLinks] \in DOMAIN t THEN Err ELSE spot[MaxLinks]
  BY DEF Opened
<1> HIDE DEF Over, first
<1>2. Steps(h)
  BY DEF MaxLinks
<1>3. Steps(spot)
  <2> HIDE DEF Steps, h
  <2> QED BY <1>2
<1> HIDE DEF spot
<1>4. spot[0] = first /\ \A i \in 1..MaxLinks : spot[i] = Over(spot[i - 1])
  BY <1>3 DEF MaxLinks
<1> QED
  BY <1>1, <1>4 DEF Over, first

(* What is made to be opened is made in a directory. *)
LEMMA OpenedAnew ==
  ASSUME NEW t, IsTree(t), NEW p, pathresolver(t, p) = Err, Opened(t, p) # Err
  PROVE  Place(t, Opened(t, p)) /\ Opened(t, p) \notin DOMAIN t /\ ~IsDir(t, Opened(t, p))
<1> DEFINE Spots(x) == x = Err \/ Place(t, x)
<1>1. PICK g : /\ Opened(t, p) = (IF g[MaxLinks] \in DOMAIN t THEN Err ELSE g[MaxLinks])
               /\ g[0] = Spot(t, p)
               /\ \A i \in 1..MaxLinks :
                    g[i] = IF g[i - 1] \in Links(t) THEN Spot(t, t[g[i - 1]].data) ELSE g[i - 1]
  BY OpenedSteps
<1>2. \A x : Spots(Spot(t, x))
  BY SpotFacts
<1> HIDE DEF Spots
<1>3. Spots(g[0]) /\ \A i \in 1..MaxLinks : Spots(g[i - 1]) => Spots(g[i])
  BY <1>1, <1>2
<1>4. Spots(g[0]) /\ Spots(g[1]) /\ Spots(g[2]) /\ Spots(g[3])
  BY <1>3 DEF MaxLinks
<1>5. Opened(t, p) = g[3] /\ g[3] \notin DOMAIN t
  BY <1>1 DEF MaxLinks
<1> QED
  BY <1>4, <1>5 DEF Spots, Place, IsDir

LEMMA OpenedPlace ==
  ASSUME NEW t, IsTree(t), NEW p \in Seq(PathNames), NEW d, d = Opened(t, p)
  PROVE  d = Err \/ IsDir(t, d) \/ (Place(t, d) /\ d \notin Links(t))
<1>1. CASE pathresolver(t, p) # Err
  <2>1. d = pathresolver(t, p)
    BY <1>1 DEF Opened
  <2> QED
    BY <2>1, ResolvedPlace, TreePlaces DEF Places, IsDir
<1>2. CASE pathresolver(t, p) = Err
  BY <1>2, OpenedAnew DEF Links
<1> QED
  BY <1>1, <1>2

(* What is neither a directory nor a link is a file. *)
LEMMA FileData ==
  ASSUME NEW t, IsTree(t), NEW p \in DOMAIN t \ Links(t), ~IsDir(t, p)
  PROVE  t[p] = FileNode(t[p].data) /\ t[p].data \in Seq(Nat)
BY DEF IsTree, IsNode, IsDir, Links, DirNode, LinkNode

(* What is to be copied is no directory. *)
LEMMA CopyFileKeeps ==
  ASSUME NEW t, IsTree(t), NEW source \in Seq(PathNames), ~checkDir(t, source),
         NEW destination \in Seq(PathNames)
  PROVE  IsTree(copy_file(t, source, destination))
<1> DEFINE s == pathresolver(t, source)
           d == Opened(t, destination)
           old == IF d \in DOMAIN t THEN t[d].data ELSE <<>>
           new == t[s].data
           all == new \o SubSeq(old, Len(new) + 1, Len(old))
<1>1. copy_file(t, source, destination)
        = IF s = Err \/ d = Err \/ IsDir(t, d) THEN t ELSE With(t, d, FileNode(all))
  BY DEF copy_file
<1>2. CASE s = Err \/ d = Err \/ IsDir(t, d)
  BY <1>1, <1>2
<1>3. CASE ~(s = Err \/ d = Err \/ IsDir(t, d))
  <2>1. s \in DOMAIN t \ Links(t) /\ ~IsDir(t, s)
    BY <1>3, ResolvedPlace DEF Places, checkDir, IsDir
  <2>2. new \in Seq(Nat)
    BY <2>1, FileData
  <2>3. Place(t, d) /\ d \notin Links(t) /\ ~IsDir(t, d)
    BY <1>3, OpenedPlace
  <2>4. old \in Seq(Nat)
    BY <2>3, FileData
  <2> HIDE DEF old, new, d
  <2>5. all \in Seq(Nat)
    BY <2>2, <2>4
  <2> HIDE DEF all
  <2>6. IsNode(FileNode(all))
    BY <2>5 DEF IsNode, FileNode
  <2> QED
    BY <1>1, <1>3, <2>3, <2>6, WithKeeps
<1> QED
  BY <1>2, <1>3

-----------------------------------------------------------------------------
LEMMA PrefixPoints ==
  ASSUME NEW S, NEW p \in Seq(S), NEW q \in Seq(S)
  PROVE  IsPrefix(p, q) <=> Len(p) <= Len(q) /\ \A i \in 1..Len(p) : p[i] = q[i]
<1>1. SubSeq(p, 1, Len(p)) = p /\ Len(p) \in Nat /\ Len(q) \in Nat
  BY PrefixEnds
<1>2. CASE Len(p) <= Len(q)
  <2> DEFINE n == Len(p)
             r == SubSeq(q, 1, n)
  <2>1. n \in 0..Len(q) /\ \A i \in 1..n : q[i] \in S
    BY <1>1, <1>2
  <2>2. r \in Seq(S) /\ Len(r) = n
    BY <2>1, PrefixTyped
  <2>3. \A i \in 1..(n - 1 + 1) : r[i] = q[1 + i - 1]
    <3> HIDE DEF n
    <3> QED BY <2>1, SubSeqProperties
  <2>4. \A i \in 1..n : r[i] = q[i]
    BY <1>1, <2>3
  <2>5. p = r <=> \A i \in 1..n : p[i] = q[i]
    <3> HIDE DEF r
    <3>1. (\A i \in 1..n : p[i] = r[i]) => p = r
      BY <2>2, SeqEqual
    <3> QED BY <2>4, <3>1
  <2> QED
    BY <1>1, <1>2, <2>5 DEF IsPrefix
<1> QED
  BY <1>2 DEF IsPrefix

LEMMA PrefixFacts ==
  ASSUME NEW S, NEW p \in Seq(S), NEW q \in Seq(S)
  PROVE  /\ IsPrefix(p, p)
         /\ IsPrefix(p, q) => Len(p) <= Len(q)
         /\ q # <<>> => /\ IsPrefix(p, Front(q)) => IsPrefix(p, q)
                        /\ IsPrefix(p, q) /\ p # q => IsPrefix(p, Front(q))
         /\ q # <<>> => IsPrefix(Front(q), q)
<1>1. IsPrefix(p, p) /\ (IsPrefix(p, q) => Len(p) <= Len(q))
  BY PrefixPoints
<1>2. ASSUME q # <<>>
      PROVE  /\ IsPrefix(p, Front(q)) => IsPrefix(p, q)
             /\ IsPrefix(p, q) /\ p # q => IsPrefix(p, Front(q))
             /\ IsPrefix(Front(q), q)
  <2> DEFINE f == Front(q)
  <2>1. f \in Seq(S) /\ Len(f) = Len(q) - 1 /\ Len(q) \in Nat \ {0}
    BY <1>2, FrontLast
  <2>2. \A i \in 1..Len(f) : f[i] = q[i]
    BY <1>2, <2>1 DEF Front
  <2> HIDE DEF f
  <2>3. IsPrefix(p, f) => IsPrefix(p, q)
    <3>1. IsPrefix(p, f) => Len(p) <= Len(f) /\ \A i \in 1..Len(p) : p[i] = f[i]
      BY <2>1, PrefixPoints
    <3> QED
      BY <2>1, <2>2, <3>1, PrefixPoints
  <2>4. IsPrefix(p, q) /\ p # q => IsPrefix(p, f)
    <3> SUFFICES ASSUME IsPrefix(p, q), p # q PROVE IsPrefix(p, f)
      OBVIOUS
    <3>1. Len(p) <= Len(q) /\ \A i \in 1..Len(p) : p[i] = q[i]
      BY PrefixPoints
    <3>2. Len(p) # Len(q)
      BY <3>1, SeqEqual
    <3>3. Len(p) <= Len(f) /\ \A i \in 1..Len(p) : p[i] = f[i]
      BY <2>1, <2>2, <3>1, <3>2
    <3> QED
      BY <2>1, <3>3, PrefixPoints
  <2>5. IsPrefix(f, q)
    BY <2>1, <2>2, PrefixPoints
  <2> QED
    BY <2>3, <2>4, <2>5 DEF f
<1> QED
  BY <1>1, <1>2

(* A directory nothing is in can be taken away. *)
LEMMA RmdirKeeps ==
  ASSUME NEW t, IsTree(t), NEW p
  PROVE  IsTree(rmdir(t, p))
<1> DEFINE s == Spot(t, p)
<1>1. CASE IsDir(t, s) /\ \A q \in DOMAIN t : IsPrefix(s, q) => q = s
  <2>1. s \in Seq(Names)
    BY <1>1, DirFacts
  <2>2. ASSUME NEW q \in DOMAIN t, q # s PROVE Front(q) # s
    <3>1. q \in Seq(Names) /\ q # <<>>
      BY DEF IsTree
    <3>2. IsPrefix(Front(q), q)
      BY <3>1, PrefixFacts
    <3> QED
      BY <1>1, <2>2, <3>2
  <2>3. rmdir(t, p) = Without(t, {s})
    BY <1>1 DEF rmdir
  <2> HIDE DEF s
  <2> QED
    BY <2>2, <2>3, WithoutKeeps
<1>2. CASE ~(IsDir(t, s) /\ \A q \in DOMAIN t : IsPrefix(s, q) => q = s)
  BY <1>2 DEF rmdir
<1> QED
  BY <1>1, <1>2

LEMMA DeleteFileKeeps ==
  ASSUME NEW t, IsTree(t), NEW path
  PROVE  IsTree(delete_file(t, path))
<1> DEFINE p == pathresolver(t, path)
<1>1. ASSUME ~IsDir(t, p) PROVE IsTree(Without(t, {p}))
  <2>1. \A q \in DOMAIN t : Front(q) # p
    BY <1>1 DEF IsTree
  <2> QED
    BY <2>1, WithoutKeeps
<1> QED
  BY <1>1, RmdirKeeps DEF delete_file

-----------------------------------------------------------------------------
(* The path below n of what is at q, below o. *)
Carried(o, n, q) == n \o SubSeq(q, Len(o) + 1, Len(q))

LEMMA CarriedPoints ==
  ASSUME NEW S, NEW o \in Seq(S), NEW n \in Seq(S), NEW q \in Seq(S), IsPrefix(o, q)
  PROVE  /\ Carried(o, n, q) \in Seq(S)
         /\ Len(Carried(o, n, q)) = Len(n) + Len(q) - Len(o)
         /\ Len(o) <= Len(q) /\ Len(o) \in Nat /\ Len(n) \in Nat /\ Len(q) \in Nat
         /\ Len(Carried(o, n, q)) \in Nat
         /\ \A i \in 1..Len(Carried(o, n, q)) :
              Carried(o, n, q)[i] = IF i <= Len(n) THEN n[i] ELSE q[i - Len(n) + Len(o)]
<1>1. Len(o) \in Nat /\ Len(q) \in Nat /\ Len(n) \in Nat /\ Len(o) <= Len(q)
  BY PrefixFacts
<1>2. \A i \in (Len(o) + 1)..Len(q) : q[i] \in S
  BY <1>1
<1> DEFINE a == Len(o)
           b == Len(q)
           c == Len(n)
           r == SubSeq(q, a + 1, b)
<1>3. r \in Seq(S) /\ Len(r) = b - a /\ \A i \in 1..Len(r) : r[i] = q[a + i]
  <2> HIDE DEF a, b
  <2>1. a + 1 \in Int /\ b \in Int
    BY <1>1 DEF a, b
  <2>2. /\ r \in Seq(S)
        /\ Len(r) = IF a + 1 <= b THEN b - (a + 1) + 1 ELSE 0
        /\ \A i \in 1..(b - (a + 1) + 1) : r[i] = q[(a + 1) + i - 1]
    BY <1>2, <2>1, SubSeqProperties DEF a, b
  <2>3. a \in Nat /\ b \in Nat /\ a <= b
    BY <1>1 DEF a, b
  <2> QED
    BY <2>2, <2>3
<1> HIDE DEF r
<1>4. /\ n \o r \in Seq(S) /\ Len(n \o r) = c + Len(r)
      /\ \A i \in 1..(c + Len(r)) : (n \o r)[i] = IF i <= c THEN n[i] ELSE r[i - c]
  BY <1>3, ConcatProperties
<1> DEFINE m == n \o r
<1> HIDE DEF a, b, c, m
<1>5. a \in Nat /\ b \in Nat /\ c \in Nat /\ a <= b
  BY <1>1 DEF a, b, c
<1>6. m \in Seq(S) /\ Len(m) = c + b - a /\ Len(m) = c + Len(r)
  BY <1>3, <1>4, <1>5 DEF m
<1>7. ASSUME NEW i \in 1..Len(m) PROVE m[i] = IF i <= c THEN n[i] ELSE q[i - c + a]
  <2>1. m[i] = IF i <= c THEN n[i] ELSE r[i - c]
    BY <1>4, <1>6 DEF m
  <2>2. CASE ~(i <= c)
    <3>1. i - c \in 1..Len(r) /\ a + (i - c) = i - c + a
      BY <1>3, <1>5, <1>6, <2>2
    <3> QED
      BY <1>3, <2>1, <2>2, <3>1
  <2> QED
    BY <2>1, <2>2
<1>8. Carried(o, n, q) = m
  BY DEF Carried, m, r, a, b
<1>9. Len(m) \in Nat
  BY <1>5, <1>6
<1> QED
  BY <1>5, <1>6, <1>7, <1>8, <1>9 DEF a, b, c

(* Carried and back again, it is where it was; it stays below what it was  *)
(* below.                                                                  *)
LEMMA CarriedThere ==
  ASSUME NEW S, NEW o \in Seq(S), NEW n \in Seq(S), NEW q \in Seq(S), IsPrefix(o, q)
  PROVE  /\ IsPrefix(n, Carried(o, n, q))
         /\ n # <<>> => Carried(o, n, q) # <<>>
<1> DEFINE m == Carried(o, n, q)
<1>1. /\ m \in Seq(S) /\ Len(m) = Len(n) + Len(q) - Len(o)
      /\ Len(o) \in Nat /\ Len(q) \in Nat /\ Len(n) \in Nat /\ Len(o) <= Len(q)
      /\ \A i \in 1..Len(m) : m[i] = IF i <= Len(n) THEN n[i] ELSE q[i - Len(n) + Len(o)]
  BY CarriedPoints
<1> HIDE DEF m
<1>2. Len(n) <= Len(m)
  BY <1>1
<1>3. \A i \in 1..Len(n) : n[i] = m[i]
  BY <1>1, <1>2
<1>4. IsPrefix(n, m)
  BY <1>1, <1>2, <1>3, PrefixPoints
<1>5. n # <<>> => m # <<>>
  BY <1>1, <1>2
<1> QED
  BY <1>4, <1>5 DEF m

LEMMA CarriedBack ==
  ASSUME NEW S, NEW o \in Seq(S), NEW n \in Seq(S), NEW q \in Seq(S), IsPrefix(o, q)
  PROVE  Carried(n, o, Carried(o, n, q)) = q
<1> DEFINE m == Carried(o, n, q)
<1>1. /\ m \in Seq(S) /\ Len(m) = Len(n) + Len(q) - Len(o)
      /\ Len(o) \in Nat /\ Len(q) \in Nat /\ Len(n) \in Nat /\ Len(o) <= Len(q)
      /\ \A i \in 1..Len(m) : m[i] = IF i <= Len(n) THEN n[i] ELSE q[i - Len(n) + Len(o)]
      /\ IsPrefix(n, m)
  BY CarriedPoints, CarriedThere
<1>2. \A i \in 1..Len(o) : o[i] = q[i]
  BY PrefixPoints
<1> HIDE DEF m
<1> DEFINE k == Carried(n, o, m)
<1>3. /\ k \in Seq(S) /\ Len(k) = Len(o) + Len(m) - Len(n)
      /\ \A i \in 1..Len(k) : k[i] = IF i <= Len(o) THEN o[i] ELSE m[i - Len(o) + Len(n)]
  <2>1. m \in Seq(S) /\ IsPrefix(n, m)
    BY <1>1
  <2>2. k \in Seq(S)
    BY <2>1, CarriedPoints
  <2>3. Len(k) = Len(o) + Len(m) - Len(n)
    BY <2>1, CarriedPoints
  <2>4. \A i \in 1..Len(k) : k[i] = IF i <= Len(o) THEN o[i] ELSE m[i - Len(o) + Len(n)]
    BY <2>1, CarriedPoints
  <2> QED
    BY <2>2, <2>3, <2>4
<1> HIDE DEF k
<1>4. Len(k) = Len(q)
  BY <1>1, <1>3
<1>5. ASSUME NEW i \in 1..Len(k) PROVE k[i] = q[i]
  <2>1. k[i] = IF i <= Len(o) THEN o[i] ELSE m[i - Len(o) + Len(n)]
    BY <1>3
  <2>2. CASE i <= Len(o)
    BY <1>1, <1>2, <2>1, <2>2
  <2>3. CASE ~(i <= Len(o))
    <3> DEFINE j == i - Len(o) + Len(n)
    <3>1. j \in 1..Len(m) /\ ~(j <= Len(n)) /\ j - Len(n) + Len(o) = i
      BY <1>1, <1>4, <2>3
    <3> HIDE DEF j
    <3>2. m[j] = q[j - Len(n) + Len(o)]
      BY <1>1, <3>1
    <3> QED
      BY <2>1, <2>3, <3>1, <3>2 DEF j
  <2> QED
    BY <2>2, <2>3
<1>6. k = q
  BY <1>3, <1>4, <1>5, SeqEqual
<1> QED
  BY <1>6 DEF k, m

LEMMA CarriedItself ==
  ASSUME NEW S, NEW o \in Seq(S), NEW n \in Seq(S)
  PROVE  Carried(o, n, o) = n
<1> DEFINE k == Carried(o, n, o)
<1>1. /\ k \in Seq(S) /\ Len(k) = Len(n) + Len(o) - Len(o)
      /\ Len(o) \in Nat /\ Len(n) \in Nat
      /\ \A i \in 1..Len(k) : k[i] = IF i <= Len(n) THEN n[i] ELSE o[i - Len(n) + Len(o)]
  <2>1. IsPrefix(o, o)
    BY PrefixFacts
  <2>2. k \in Seq(S) /\ Len(o) \in Nat /\ Len(n) \in Nat
    BY <2>1, CarriedPoints
  <2>3. Len(k) = Len(n) + Len(o) - Len(o)
    BY <2>1, CarriedPoints
  <2>4. \A i \in 1..Len(k) : k[i] = IF i <= Len(n) THEN n[i] ELSE o[i - Len(n) + Len(o)]
    BY <2>1, CarriedPoints
  <2> QED
    BY <2>2, <2>3, <2>4
<1> HIDE DEF k
<1>2. Len(k) = Len(n)
  BY <1>1
<1>3. \A i \in 1..Len(k) : k[i] = n[i]
  BY <1>1, <1>2
<1>4. k = n
  BY <1>1, <1>2, <1>3, SeqEqual
<1> QED
  BY <1>4 DEF k

LEMMA CarriedFront ==
  ASSUME NEW S, NEW o \in Seq(S), NEW n \in Seq(S), n # <<>>,
         NEW q \in Seq(S), IsPrefix(o, q), q # o, q # <<>>
  PROVE  IsPrefix(o, Front(q)) /\ Front(Carried(o, n, q)) = Carried(o, n, Front(q))
<1> DEFINE m == Carried(o, n, q)
           f == Front(q)
<1>1. /\ m \in Seq(S) /\ Len(m) = Len(n) + Len(q) - Len(o) /\ m # <<>>
      /\ Len(o) \in Nat /\ Len(q) \in Nat /\ Len(n) \in Nat /\ Len(o) <= Len(q)
      /\ \A i \in 1..Len(m) : m[i] = IF i <= Len(n) THEN n[i] ELSE q[i - Len(n) + Len(o)]
  BY CarriedPoints, CarriedThere
<1>2. f \in Seq(S) /\ Len(f) = Len(q) - 1 /\ IsPrefix(o, f)
  BY FrontLast, PrefixFacts
<1>3. \A i \in 1..Len(f) : f[i] = q[i]
  BY <1>1, <1>2 DEF Front
<1> HIDE DEF m
<1> DEFINE g == Front(m)
<1>4. g \in Seq(S) /\ Len(g) = Len(m) - 1
  BY <1>1, FrontLast
<1>5. \A i \in 1..Len(g) : g[i] = m[i]
  BY <1>1, <1>4 DEF Front
<1> HIDE DEF f, g
<1> DEFINE k == Carried(o, n, f)
<1>6. /\ k \in Seq(S) /\ Len(k) = Len(n) + Len(f) - Len(o) /\ Len(o) <= Len(f)
      /\ \A i \in 1..Len(k) : k[i] = IF i <= Len(n) THEN n[i] ELSE f[i - Len(n) + Len(o)]
  <2>1. f \in Seq(S) /\ IsPrefix(o, f)
    BY <1>2
  <2>2. k \in Seq(S) /\ Len(o) <= Len(f)
    BY <2>1, CarriedPoints
  <2>3. Len(k) = Len(n) + Len(f) - Len(o)
    BY <2>1, CarriedPoints
  <2>4. \A i \in 1..Len(k) : k[i] = IF i <= Len(n) THEN n[i] ELSE f[i - Len(n) + Len(o)]
    BY <2>1, CarriedPoints
  <2> QED
    BY <2>2, <2>3, <2>4
<1> HIDE DEF k
<1>7. Len(g) = Len(k)
  BY <1>1, <1>2, <1>4, <1>6
<1>8. ASSUME NEW i \in 1..Len(g) PROVE g[i] = k[i]
  <2>1. g[i] = m[i] /\ m[i] = IF i <= Len(n) THEN n[i] ELSE q[i - Len(n) + Len(o)]
    BY <1>1, <1>4, <1>5
  <2>2. k[i] = IF i <= Len(n) THEN n[i] ELSE f[i - Len(n) + Len(o)]
    BY <1>6, <1>7
  <2>3. CASE ~(i <= Len(n))
    <3> DEFINE j == i - Len(n) + Len(o)
    <3>1. j \in 1..Len(f)
      BY <1>1, <1>2, <1>6, <1>7, <2>3
    <3> HIDE DEF j
    <3>2. f[j] = q[j]
      BY <1>3, <3>1
    <3> QED
      BY <2>1, <2>2, <2>3, <3>2 DEF j
  <2> QED
    BY <2>1, <2>2, <2>3
<1>9. g = k
  BY <1>4, <1>6, <1>7, <1>8, SeqEqual
<1> QED
  BY <1>2, <1>9 DEF g, k, f, m

-----------------------------------------------------------------------------
(* What a granted rename of o to n may assume. *)
LEMMA Granted ==
  ASSUME NEW t, IsTree(t), NEW old, NEW new, CanRename(t, old, new),
         NEW o, o = Spot(t, old), NEW n, n = Spot(t, new)
  PROVE  /\ o \in DOMAIN t /\ Place(t, o) /\ Place(t, n)
         /\ n = o \/ ~IsPrefix(o, n)
         /\ \A q \in DOMAIN t : IsPrefix(n, q) /\ ~IsPrefix(o, q) => q = n
<1>1. /\ o \in DOMAIN t /\ n # Err
      /\ n = o \/ ~IsPrefix(o, n)
      /\ n \in DOMAIN t => IF IsDir(t, o) THEN n = o \/ n \notin DOMAIN rmdir(t, n) ELSE ~IsDir(t, n)
  BY DEF CanRename
<1>2. Place(t, o) /\ Place(t, n)
  BY <1>1, TreePlaces, SpotFacts
<1>3. ASSUME NEW q \in DOMAIN t, IsPrefix(n, q), ~IsPrefix(o, q), q # n PROVE FALSE
  <2>1. q \in Seq(Names) /\ q # <<>> /\ IsDir(t, Front(q)) /\ n \in Seq(Names) /\ n # <<>>
    BY <1>2 DEF IsTree, Place
  <2>2. IsPrefix(n, Front(q)) /\ Front(q) \in Seq(Names)
    BY <1>3, <2>1, PrefixFacts, FrontLast
  <2>3. Len(n) \in 0..Len(Front(q)) /\ SubSeq(Front(q), 1, Len(n)) = n
    <3>1. Len(n) <= Len(Front(q)) /\ SubSeq(n, 1, Len(n)) = SubSeq(Front(q), 1, Len(n))
      BY <2>2 DEF IsPrefix
    <3>2. SubSeq(n, 1, Len(n)) = n
      BY <2>1, SubSeqFull
    <3> QED
      BY <2>1, <2>2, <3>1, <3>2
  <2>4. IsDir(t, n)
    BY <2>1, <2>3, Ancestors
  <2>5. n \in DOMAIN t /\ n # o
    BY <1>3, <2>1, <2>4 DEF IsDir
  <2>6. n \notin DOMAIN rmdir(t, n) /\ Spot(t, n) = n
    BY <1>1, <1>2, <2>4, <2>5, SpotSame
  <2>7. \A r \in DOMAIN t : IsPrefix(n, r) => r = n
    BY <2>5, <2>6 DEF rmdir
  <2> QED
    BY <1>3, <2>7
<1> QED
  BY <1>1, <1>2, <1>3

(* A rename carries what is at o, and below it, and nothing else. *)
LEMMA Renaming ==
  ASSUME NEW t, IsTree(t), NEW old, NEW new, CanRename(t, old, new),
         NEW o, o = Spot(t, old), NEW n, n = Spot(t, new),
         NEW u, u = rename_file(t, old, new)
  PROVE  /\ DOMAIN u = {q \in DOMAIN t : ~IsPrefix(o, q) /\ q # n}
                        \cup {Carried(o, n, q) : q \in {r \in DOMAIN t : IsPrefix(o, r)}}
         /\ \A q \in DOMAIN t : ~IsPrefix(o, q) /\ q # n => q \in DOMAIN u /\ u[q] = t[q]
         /\ \A q \in DOMAIN t : IsPrefix(o, q) => /\ Carried(o, n, q) \in DOMAIN u
                                                  /\ u[Carried(o, n, q)] = t[q]
<1> DEFINE stays == {q \in DOMAIN t : ~IsPrefix(o, q) /\ q # n}
           goes == {q \in DOMAIN t : IsPrefix(o, q)}
           D == stays \cup {Carried(o, n, q) : q \in goes}
<1>1. u = [p \in D |-> IF IsPrefix(n, p) THEN t[Carried(n, o, p)] ELSE t[p]]
  BY DEF rename_file, Carried
<1>2. /\ o \in Seq(Names) /\ n \in Seq(Names) /\ n # <<>>
      /\ \A q \in DOMAIN t : IsPrefix(n, q) /\ ~IsPrefix(o, q) => q = n
  BY Granted DEF Place
<1>3. ASSUME NEW q \in stays PROVE q \in DOMAIN u /\ u[q] = t[q]
  BY <1>1, <1>2
<1>4. ASSUME NEW q \in goes PROVE Carried(o, n, q) \in DOMAIN u /\ u[Carried(o, n, q)] = t[q]
  <2>1. q \in Seq(Names) /\ IsPrefix(o, q)
    BY DEF IsTree
  <2>2. IsPrefix(n, Carried(o, n, q))
    BY <1>2, <2>1, CarriedThere
  <2>3. Carried(n, o, Carried(o, n, q)) = q
    BY <1>2, <2>1, CarriedBack
  <2> DEFINE m == Carried(o, n, q)
  <2>4. m \in D
    OBVIOUS
  <2> HIDE DEF m, D
  <2> QED
    BY <1>1, <2>2, <2>3, <2>4 DEF m
<1> QED
  BY <1>1, <1>3, <1>4

LEMMA RenamedFrom ==
  ASSUME NEW t, IsTree(t), NEW old, NEW new, CanRename(t, old, new),
         NEW q \in DOMAIN t, IsPrefix(Spot(t, old), q)
  PROVE  /\ Carried(Spot(t, old), Spot(t, new), q) \in DOMAIN rename_file(t, old, new)
         /\ rename_file(t, old, new)[Carried(Spot(t, old), Spot(t, new), q)] = t[q]
<1> DEFINE o == Spot(t, old)
           n == Spot(t, new)
           u == rename_file(t, old, new)
<1>1. /\ DOMAIN u = {r \in DOMAIN t : ~IsPrefix(o, r) /\ r # n}
                      \cup {Carried(o, n, r) : r \in {i \in DOMAIN t : IsPrefix(o, i)}}
      /\ \A r \in DOMAIN t : ~IsPrefix(o, r) /\ r # n => r \in DOMAIN u /\ u[r] = t[r]
      /\ \A r \in DOMAIN t : IsPrefix(o, r) => /\ Carried(o, n, r) \in DOMAIN u
                                               /\ u[Carried(o, n, r)] = t[r]
  BY Renaming
<1> QED
  BY <1>1

LEMMA RenameKeeps ==
  ASSUME NEW t, IsTree(t), NEW old, NEW new
  PROVE  IsTree(rename_file(t, old, new))
<1>1. CASE ~CanRename(t, old, new)
  BY <1>1 DEF rename_file
<1>2. CASE CanRename(t, old, new)
  <2> DEFINE o == Spot(t, old)
             n == Spot(t, new)
             u == rename_file(t, old, new)
  <2>1. /\ o \in DOMAIN t /\ Place(t, o) /\ Place(t, n)
        /\ n = o \/ ~IsPrefix(o, n)
        /\ \A q \in DOMAIN t : IsPrefix(n, q) /\ ~IsPrefix(o, q) => q = n
    BY <1>2, Granted
  <2>2. /\ DOMAIN u = {q \in DOMAIN t : ~IsPrefix(o, q) /\ q # n}
                        \cup {Carried(o, n, q) : q \in {r \in DOMAIN t : IsPrefix(o, r)}}
        /\ \A q \in DOMAIN t : ~IsPrefix(o, q) /\ q # n => q \in DOMAIN u /\ u[q] = t[q]
        /\ \A q \in DOMAIN t : IsPrefix(o, q) => /\ Carried(o, n, q) \in DOMAIN u
                                                 /\ u[Carried(o, n, q)] = t[q]
    BY <1>2, Renaming
  <2>3. IsFunction(u)
    BY <1>2, TreeFunctions
  <2> HIDE DEF o, n, u
  <2>4. o \in Seq(Names) /\ o # <<>> /\ n \in Seq(Names) /\ n # <<>>
    BY <2>1 DEF Place
  (* A directory that nothing of what is carried is above stays. *)
  <2>5. ASSUME NEW d, IsDir(t, d), ~IsPrefix(o, d), d # n PROVE IsDir(u, d)
    BY <2>2, <2>5 DEF IsDir
  <2>6. ASSUME NEW q \in DOMAIN t, ~IsPrefix(o, q), q # n
        PROVE  /\ q \in Seq(Names) /\ q # <<>> /\ IsDir(u, Front(q))
               /\ IsNode(u[q])
    <3>1. q \in Seq(Names) /\ q # <<>> /\ IsDir(t, Front(q))
      BY DEF IsTree
    <3>2. ~IsPrefix(o, Front(q)) /\ Front(q) # n
      <4>1. IsPrefix(Front(q), q) /\ (IsPrefix(o, Front(q)) => IsPrefix(o, q))
        BY <2>4, <3>1, PrefixFacts
      <4> QED
        BY <2>1, <2>6, <4>1
    <3>3. u[q] = t[q]
      BY <2>2, <2>6
    <3> QED
      BY <2>5, <3>1, <3>2, <3>3 DEF IsTree, Links
  <2>7. ASSUME NEW q \in DOMAIN t, IsPrefix(o, q), NEW p, p = Carried(o, n, q)
        PROVE  /\ p \in Seq(Names) /\ p # <<>> /\ IsDir(u, Front(p))
               /\ IsNode(u[p])
    <3>1. q \in Seq(Names) /\ q # <<>> /\ IsDir(t, Front(q))
      BY DEF IsTree
    <3>2. p \in Seq(Names)
      BY <2>4, <2>7, <3>1, CarriedPoints
    <3>3. p # <<>>
      BY <2>4, <2>7, <3>1, CarriedThere
    <3>4. u[p] = t[q]
      BY <2>2, <2>7
    <3>5. CASE q = o
      <4>1. p = n
        BY <2>4, <2>7, <3>5, CarriedItself
      <4>2. IsDir(t, Front(n)) /\ Front(n) \in Seq(Names) /\ Len(Front(n)) = Len(n) - 1 /\ Len(n) \in Nat
        BY <2>1, <2>4, FrontLast DEF Place
      <4>3. ~IsPrefix(o, Front(n))
        <5>1. IsPrefix(o, Front(n)) => IsPrefix(o, n) /\ Len(o) <= Len(Front(n))
          BY <2>4, <4>2, PrefixFacts
        <5>2. n = o => ~(Len(o) <= Len(Front(n)))
          BY <4>2
        <5> QED
          BY <2>1, <5>1, <5>2
      <4>4. Front(n) # n
        BY <4>2
      <4> QED
        BY <2>5, <3>2, <3>3, <3>4, <4>1, <4>2, <4>3, <4>4 DEF IsTree, Links
    <3>6. CASE q # o
      <4>1. IsPrefix(o, Front(q)) /\ Front(p) = Carried(o, n, Front(q))
        BY <2>4, <2>7, <3>1, <3>6, CarriedFront
      <4>2. Front(q) # <<>>
        <5>1. Len(o) > 0
          BY <2>4
        <5>2. Front(q) \in Seq(Names)
          BY <3>1, FrontLast
        <5>3. Len(o) <= Len(Front(q))
          BY <2>4, <4>1, <5>2, PrefixFacts
        <5> QED
          BY <2>4, <5>1, <5>3
      <4>3. Front(q) \in DOMAIN t /\ t[Front(q)].kind = "dir"
        BY <3>1, <4>2 DEF IsDir
      <4>4. Front(p) \in DOMAIN u /\ u[Front(p)] = t[Front(q)]
        BY <2>2, <4>1, <4>3
      <4>5. IsDir(u, Front(p))
        BY <4>3, <4>4 DEF IsDir
      <4> QED
        BY <3>2, <3>3, <3>4, <4>5 DEF IsTree, Links
    <3> QED
      BY <3>5, <3>6
  <2>8. ASSUME NEW p \in DOMAIN u
        PROVE  /\ p \in Seq(Names) /\ p # <<>> /\ IsDir(u, Front(p))
               /\ IsNode(u[p])
    BY <2>2, <2>6, <2>7
  <2>9. IsTree(u)
    BY <2>8, <2>3 DEF IsTree
  <2> QED
    BY <2>9 DEF u
<1> QED
  BY <1>1, <1>2

-----------------------------------------------------------------------------
(* Copying, moving and deleting directories takes trees to trees, if it    *)
(* is what module Directories says: at every level what DirectoryLevels    *)
(* says, with itself below.                                                *)
DirectoriesRecur ==
  \A t, s, d, names : \A open \in 0..MaxOpen :
    /\ CopyDir(t, s, d, names, open) = copy_level(t, s, d, names, open)
    /\ MoveDir(t, s, d, names, open) = move_level(t, s, d, names, open)
    /\ RemoveDir(t, s, names, open) = remove_level(t, s, names, open)

KeepTrees(open) ==
  \A t : IsTree(t) =>
    \A s, d \in Seq(PathNames), names \in Orders :
      /\ IsTree(CopyDir(t, s, d, names, open))
      /\ IsTree(MoveDir(t, s, d, names, open))
      /\ IsTree(RemoveDir(t, s, names, open))

DirectoriesKeepTrees == KeepTrees(0)

LEMMA ResolvedTyped ==
  ASSUME NEW t, IsTree(t), NEW p \in Seq(PathNames)
  PROVE  pathresolver(t, p) \in Seq(PathNames)
<1>1. \A q \in DOMAIN t : q \in Seq(Names)
  BY DEF IsTree
<1>2. <<>> \in Seq(PathNames)
  OBVIOUS
<1>3. \A q \in Places(t) : q \in Seq(PathNames)
  BY <1>1, <1>2, SpecialNames DEF Places
<1> QED
  BY <1>3, ResolvedPlace

CopyingEach == INSTANCE FiniteInduction WITH Step <- CopyEntry

LEMMA CopyEntriesKeep ==
  ASSUME NEW on, IsTree(on.tree), on.order \in Seq(Names \cup {".", ".."}),
         \A name \in Names \cup {".", ".."} : \A u : IsTree(u) => IsTree(CopyEntry(on, name, u))
  PROVE  IsTree(CopyEntries(on))
<1> DEFINE S == Names \cup {".", ".."}
           t == on.tree
           names == on.order
           l == Len(names)
           whole == CopyEntries(on)
<1>1. whole = CopyingEach!SeqFold(names, on, t)
  BY DEF CopyEntries, FoldLeft, MapThenFoldSet, Max,
         CopyingEach!SeqFold, CopyingEach!SeqFolds, CopyingEach!Greatest
<1>2. names \in Seq(S) /\ l \in Nat
  OBVIOUS
<1> HIDE DEF S, l, whole, t, names
<1>3. PICK g : /\ whole = g[l] /\ g[0] = t
               /\ \A i \in 1..l : g[i] = CopyEntry(on, names[i], g[i - 1])
  BY <1>1, <1>2, CopyingEach!SeqFoldSteps DEF l
<1> DEFINE Q == {i \in 0..l : IsTree(g[i])}
<1>4. 0 \in Q
  BY <1>2, <1>3 DEF t
<1>5. ASSUME NEW i \in 1..l, i - 1 \in Q PROVE i \in Q
  <2>1. i \in 0..l /\ IsTree(g[i - 1]) /\ names[i] \in S
    BY <1>2, <1>5 DEF l
  <2>2. g[i] = CopyEntry(on, names[i], g[i - 1])
    BY <1>3
  <2> QED
    BY <2>1, <2>2 DEF S
<1>6. l \in Q
  <2> HIDE DEF Q
  <2> QED BY <1>2, <1>4, <1>5, CopyingEach!StepByStep
<1> QED
  BY <1>3, <1>6 DEF whole

MovingEach == INSTANCE FiniteInduction WITH Step <- MoveEntry

LEMMA MoveEntriesKeep ==
  ASSUME NEW on, IsTree(on.tree), on.order \in Seq(Names \cup {".", ".."}),
         \A name \in Names \cup {".", ".."} : \A u : IsTree(u) => IsTree(MoveEntry(on, name, u))
  PROVE  IsTree(MoveEntries(on))
<1> DEFINE S == Names \cup {".", ".."}
           t == on.tree
           names == on.order
           l == Len(names)
           whole == MoveEntries(on)
<1>1. whole = MovingEach!SeqFold(names, on, t)
  BY DEF MoveEntries, FoldLeft, MapThenFoldSet, Max,
         MovingEach!SeqFold, MovingEach!SeqFolds, MovingEach!Greatest
<1>2. names \in Seq(S) /\ l \in Nat
  OBVIOUS
<1> HIDE DEF S, l, whole, t, names
<1>3. PICK g : /\ whole = g[l] /\ g[0] = t
               /\ \A i \in 1..l : g[i] = MoveEntry(on, names[i], g[i - 1])
  BY <1>1, <1>2, MovingEach!SeqFoldSteps DEF l
<1> DEFINE Q == {i \in 0..l : IsTree(g[i])}
<1>4. 0 \in Q
  BY <1>2, <1>3 DEF t
<1>5. ASSUME NEW i \in 1..l, i - 1 \in Q PROVE i \in Q
  <2>1. i \in 0..l /\ IsTree(g[i - 1]) /\ names[i] \in S
    BY <1>2, <1>5 DEF l
  <2>2. g[i] = MoveEntry(on, names[i], g[i - 1])
    BY <1>3
  <2> QED
    BY <2>1, <2>2 DEF S
<1>6. l \in Q
  <2> HIDE DEF Q
  <2> QED BY <1>2, <1>4, <1>5, MovingEach!StepByStep
<1> QED
  BY <1>3, <1>6 DEF whole

RemovingEach == INSTANCE FiniteInduction WITH Step <- RemoveEntry

LEMMA RemoveEntriesKeep ==
  ASSUME NEW on, IsTree(on.tree), on.order \in Seq(Names \cup {".", ".."}),
         \A name \in Names \cup {".", ".."} : \A u : IsTree(u) => IsTree(RemoveEntry(on, name, u))
  PROVE  IsTree(RemoveEntries(on))
<1> DEFINE S == Names \cup {".", ".."}
           t == on.tree
           names == on.order
           l == Len(names)
           whole == RemoveEntries(on)
<1>1. whole = RemovingEach!SeqFold(names, on, t)
  BY DEF RemoveEntries, FoldLeft, MapThenFoldSet, Max,
         RemovingEach!SeqFold, RemovingEach!SeqFolds, RemovingEach!Greatest
<1>2. names \in Seq(S) /\ l \in Nat
  OBVIOUS
<1> HIDE DEF S, l, whole, t, names
<1>3. PICK g : /\ whole = g[l] /\ g[0] = t
               /\ \A i \in 1..l : g[i] = RemoveEntry(on, names[i], g[i - 1])
  BY <1>1, <1>2, RemovingEach!SeqFoldSteps DEF l
<1> DEFINE Q == {i \in 0..l : IsTree(g[i])}
<1>4. 0 \in Q
  BY <1>2, <1>3 DEF t
<1>5. ASSUME NEW i \in 1..l, i - 1 \in Q PROVE i \in Q
  <2>1. i \in 0..l /\ IsTree(g[i - 1]) /\ names[i] \in S
    BY <1>2, <1>5 DEF l
  <2>2. g[i] = RemoveEntry(on, names[i], g[i - 1])
    BY <1>3
  <2> QED
    BY <2>1, <2>2 DEF S
<1>6. l \in Q
  <2> HIDE DEF Q
  <2> QED BY <1>2, <1>4, <1>5, RemovingEach!StepByStep
<1> QED
  BY <1>3, <1>6 DEF whole

LEMMA NamesTyped ==
  ASSUME NEW p \in Seq(PathNames), NEW name \in Names \cup {".", ".."}
  PROVE  Append(p, name) \in Seq(PathNames)
  BY DEF PathNames

LEMMA CopyLevelKeeps ==
  ASSUME NEW open, open = MaxOpen \/ KeepTrees(open + 1), NEW t, IsTree(t),
         NEW s \in Seq(PathNames), NEW d \in Seq(PathNames), NEW names \in Orders
  PROVE  IsTree(copy_level(t, s, d, names, open))
<1> DEFINE made == mkdir(t, d)
           on == [tree |-> made, source |-> s, destination |-> d, order |-> names, open |-> open]
           filled == CopyEntries(on)
<1>1. CASE ~CanMake(t, d)
  BY <1>1 DEF copy_level
<1>2. CASE CanMake(t, d) /\ open = MaxOpen
  BY <1>2, MkdirKeeps DEF copy_level
<1>3. CASE CanMake(t, d) /\ open # MaxOpen
  <2>1. IsTree(made) /\ names \in Seq(Names \cup {".", ".."})
    BY <1>3, MkdirKeeps, ExplorerAssumption
  <2>2. ASSUME NEW name \in Names \cup {".", ".."}, NEW u, IsTree(u)
        PROVE  IsTree(CopyEntry(on, name, u))
    <3> DEFINE p == Append(s, name)
               q == Append(d, name)
    <3>1. p \in Seq(PathNames) /\ q \in Seq(PathNames)
      BY NamesTyped
    <3>2. /\ IsTree(CopyDir(u, p, q, names, open + 1))
          /\ ~checkDir(u, p) => IsTree(copy_file(u, p, q))
      BY <1>3, <2>2, <3>1, CopyFileKeeps DEF KeepTrees
    <3> QED
      BY <2>2, <3>2 DEF CopyEntry
  <2>3. on.tree = made /\ on.order = names
    OBVIOUS
  <2> HIDE DEF on, made
  <2>4. IsTree(filled)
    BY <2>3, <2>1, <2>2, CopyEntriesKeep
  <2> QED
    BY <1>3, <2>4 DEF copy_level, on, made
<1> QED
  BY <1>1, <1>2, <1>3

LEMMA MoveLevelKeeps ==
  ASSUME NEW open, open = MaxOpen \/ KeepTrees(open + 1), NEW t, IsTree(t),
         NEW s \in Seq(PathNames), NEW d \in Seq(PathNames), NEW names \in Orders
  PROVE  IsTree(move_level(t, s, d, names, open))
<1> DEFINE made == mkdir(t, d)
           on == [tree |-> made, source |-> s, destination |-> d, order |-> names, open |-> open]
           filled == MoveEntries(on)
<1>1. CASE ~CanMake(t, d)
  BY <1>1 DEF move_level
<1>2. CASE CanMake(t, d) /\ open = MaxOpen
  BY <1>2, MkdirKeeps, RmdirKeeps DEF move_level
<1>3. CASE CanMake(t, d) /\ open # MaxOpen
  <2>1. IsTree(made) /\ names \in Seq(Names \cup {".", ".."})
    BY <1>3, MkdirKeeps, ExplorerAssumption
  <2>2. ASSUME NEW name \in Names \cup {".", ".."}, NEW u, IsTree(u)
        PROVE  IsTree(MoveEntry(on, name, u))
    <3> DEFINE p == Append(s, name)
               q == Append(d, name)
    <3>1. p \in Seq(PathNames) /\ q \in Seq(PathNames)
      BY NamesTyped
    <3>2. IsTree(MoveDir(u, p, q, names, open + 1)) /\ IsTree(rename_file(u, p, q))
      BY <1>3, <2>2, <3>1, RenameKeeps DEF KeepTrees
    <3>3. IsTree(rmdir(MoveDir(u, p, q, names, open + 1), p))
      BY <3>2, RmdirKeeps
    <3> QED
      BY <2>2, <3>2, <3>3 DEF MoveEntry
  <2>3. on.tree = made /\ on.order = names
    OBVIOUS
  <2> HIDE DEF on, made
  <2>4. IsTree(filled)
    BY <2>3, <2>1, <2>2, MoveEntriesKeep
  <2>5. IsTree(rmdir(filled, s))
    BY <2>4, RmdirKeeps
  <2> QED
    BY <1>3, <2>5 DEF move_level, on, made
<1> QED
  BY <1>1, <1>2, <1>3

LEMMA RemoveLevelKeeps ==
  ASSUME NEW open, open = MaxOpen \/ KeepTrees(open + 1), NEW t, IsTree(t),
         NEW s \in Seq(PathNames), NEW names \in Orders
  PROVE  IsTree(remove_level(t, s, names, open))
<1> DEFINE p == pathresolver(t, s)
           on == [tree |-> t, source |-> p, order |-> names, open |-> open]
           emptied == RemoveEntries(on)
<1>1. CASE ~IsDir(t, p) \/ open = MaxOpen
  BY <1>1 DEF remove_level
<1>2. CASE IsDir(t, p) /\ open # MaxOpen
  <2>1. p \in Seq(PathNames) /\ names \in Seq(Names \cup {".", ".."})
    BY ResolvedTyped, ExplorerAssumption
  <2>2. ASSUME NEW name \in Names \cup {".", ".."}, NEW u, IsTree(u)
        PROVE  IsTree(RemoveEntry(on, name, u))
    <3> DEFINE q == Append(p, name)
    <3> HIDE DEF p
    <3>1. q \in Seq(PathNames)
      BY <2>1, NamesTyped
    <3>2. IsTree(RemoveDir(u, q, names, open + 1)) /\ IsTree(delete_file(u, q))
      BY <1>2, <2>2, <3>1, DeleteFileKeeps DEF KeepTrees
    <3>3. IsTree(rmdir(RemoveDir(u, q, names, open + 1), q))
      BY <3>2, RmdirKeeps
    <3> QED
      BY <2>2, <3>2, <3>3 DEF RemoveEntry
  <2>3. on.tree = t /\ on.order = names
    OBVIOUS
  <2> HIDE DEF on, p
  <2>4. IsTree(emptied)
    BY <2>3, <2>1, <2>2, RemoveEntriesKeep
  <2>5. IsTree(rmdir(emptied, p))
    BY <2>4, RmdirKeeps
  <2> QED
    BY <1>2, <2>5 DEF remove_level, on, p
<1> QED
  BY <1>1, <1>2

LEMMA LevelKeeps ==
  ASSUME DirectoriesRecur, NEW open \in 0..MaxOpen, open = MaxOpen \/ KeepTrees(open + 1)
  PROVE  KeepTrees(open)
<1> SUFFICES ASSUME NEW t, IsTree(t), NEW s \in Seq(PathNames), NEW d \in Seq(PathNames),
                    NEW names \in Orders
             PROVE  /\ IsTree(CopyDir(t, s, d, names, open))
                    /\ IsTree(MoveDir(t, s, d, names, open))
                    /\ IsTree(RemoveDir(t, s, names, open))
  BY DEF KeepTrees
<1>1. /\ CopyDir(t, s, d, names, open) = copy_level(t, s, d, names, open)
      /\ MoveDir(t, s, d, names, open) = move_level(t, s, d, names, open)
      /\ RemoveDir(t, s, names, open) = remove_level(t, s, names, open)
  BY DEF DirectoriesRecur
<1>2. /\ IsTree(copy_level(t, s, d, names, open))
      /\ IsTree(move_level(t, s, d, names, open))
      /\ IsTree(remove_level(t, s, names, open))
  BY CopyLevelKeeps, MoveLevelKeeps, RemoveLevelKeeps
<1> QED
  BY <1>1, <1>2

(* However deep they go, the recursive operations take trees to trees.     *)
THEOREM RecursionKeepsTrees ==
  ASSUME DirectoriesRecur
  PROVE  DirectoriesKeepTrees
<1> DEFINE Q == {k \in 0..MaxOpen : KeepTrees(MaxOpen - k)}
<1>1. MaxOpen \in Nat /\ MaxOpen - MaxOpen = 0
  BY FileTreeAssumption
<1>2. 0 \in Q
  BY <1>1, LevelKeeps
<1>3. ASSUME NEW i \in 1..MaxOpen, i - 1 \in Q PROVE i \in Q
  <2>1. MaxOpen - i \in 0..MaxOpen /\ MaxOpen - (i - 1) = (MaxOpen - i) + 1
    BY <1>1
  <2>2. KeepTrees((MaxOpen - i) + 1)
    BY <1>3, <2>1
  <2> QED
    BY <1>1, <2>1, <2>2, LevelKeeps
<1>4. MaxOpen \in Q
  <2> HIDE DEF Q
  <2> QED BY <1>1, <1>2, <1>3, CopyingEach!StepByStep
<1> QED
  BY <1>1, <1>4 DEF DirectoriesKeepTrees

-----------------------------------------------------------------------------
LEMMA TargetTyped ==
  ASSUME NEW t, IsTree(t), NEW args \in Seq(Seq(PathNames)), Len(args) >= 2,
         NEW source \in Seq(PathNames)
  PROVE  Target(t, args, source) \in Seq(PathNames)
<1>1. Last(args) \in Seq(PathNames)
  BY DEF Last
<1>2. pathresolver(t, Last(args)) \in Seq(PathNames)
  BY <1>1, ResolvedTyped
<1>3. (IF source = <<>> THEN <<>> ELSE <<Last(source)>>) \in Seq(PathNames)
  <2>1. source # <<>> => Last(source) \in PathNames
    BY FrontLast
  <2> QED
    BY <2>1
<1> QED
  BY <1>2, <1>3, ConcatProperties DEF Target

LEMMA CopyOneKeeps ==
  ASSUME DirectoriesKeepTrees, NEW args \in Seq(Seq(PathNames)), Len(args) >= 2,
         NEW names \in Orders, NEW source \in Seq(PathNames), NEW r, IsTree(r.tree)
  PROVE  IsTree(CopyOne([args |-> args, order |-> names], source, r).tree)
<1> DEFINE s == pathresolver(r.tree, source)
           d == Target(r.tree, args, source)
<1>1. s \in Seq(PathNames) /\ d \in Seq(PathNames)
  BY ResolvedTyped, TargetTyped
<1>2. /\ IsTree(CopyDir(r.tree, s, d, names, 0))
      /\ ~checkDir(r.tree, s) => IsTree(copy_file(r.tree, s, d))
  BY <1>1, CopyFileKeeps DEF DirectoriesKeepTrees, KeepTrees
<1> QED
  BY <1>2 DEF CopyOne

LEMMA MoveOneKeeps ==
  ASSUME DirectoriesKeepTrees, NEW args \in Seq(Seq(PathNames)), Len(args) >= 2,
         NEW names \in Orders, NEW source \in Seq(PathNames), NEW r, IsTree(r.tree)
  PROVE  IsTree(MoveOne([args |-> args, order |-> names], source, r).tree)
<1> DEFINE s == pathresolver(r.tree, source)
           d == Target(r.tree, args, source)
<1>1. s \in Seq(PathNames) /\ d \in Seq(PathNames)
  BY ResolvedTyped, TargetTyped
<1>2. IsTree(MoveDir(r.tree, s, d, names, 0)) /\ IsTree(rename_file(r.tree, s, d))
  BY <1>1, RenameKeeps DEF DirectoriesKeepTrees, KeepTrees
<1> QED
  BY <1>2 DEF MoveOne

LEMMA CreateKeeps ==
  ASSUME NEW t, IsTree(t), NEW p
  PROVE  IsTree(create_file(t, p).tree)
<1>1. CASE pathresolver(t, p) # Err \/ Opened(t, p) = Err
  BY <1>1 DEF create_file, Untouched
<1>2. CASE ~(pathresolver(t, p) # Err \/ Opened(t, p) = Err)
  <2>1. create_file(t, p).tree = With(t, Opened(t, p), FileNode(<<>>))
    BY <1>2 DEF create_file, Untouched
  <2>2. Place(t, Opened(t, p)) /\ ~IsDir(t, Opened(t, p))
    BY <1>2, OpenedAnew
  <2>3. IsNode(FileNode(<<>>))
    BY DEF FileNode, IsNode
  <2> QED
    BY <2>1, <2>2, <2>3, WithKeeps
<1> QED
  BY <1>1, <1>2

LEMMA MakeKeeps ==
  ASSUME NEW t, IsTree(t), NEW p
  PROVE  IsTree(make_dir(t, p).tree)
<1>1. CASE CanMake(t, p)
  BY <1>1, MkdirKeeps DEF make_dir, Untouched
<1>2. CASE ~CanMake(t, p)
  BY <1>2 DEF make_dir, Untouched
<1> QED
  BY <1>1, <1>2

-----------------------------------------------------------------------------
(* A command that does not read the list anew has left the tree as it was. *)
Copying == INSTANCE FiniteInduction WITH Step <- CopyOne
Moving == INSTANCE FiniteInduction WITH Step <- MoveOne

LEMMA SourcesTyped ==
  ASSUME NEW args \in Seq(Seq(PathNames)), Len(args) >= 2
  PROVE  Front(args) \in Seq(Seq(PathNames)) /\ Len(Front(args)) \in Nat
  BY DEF Front

LEMMA CopySteps ==
  ASSUME NEW t, NEW args \in Seq(Seq(PathNames)), Len(args) >= 2
  PROVE  \E g : /\ copyexec(t, args) = g[Len(Front(args))]
                /\ g[0] = Untouched(t)
                /\ \A i \in 1..Len(Front(args)) :
                     g[i] = CopyOne([args |-> args, order |-> order], Front(args)[i], g[i - 1])
<1> DEFINE on == [args |-> args, order |-> order]
           sources == Front(args)
<1>1. copyexec(t, args) = Copying!SeqFold(sources, on, Untouched(t))
  BY DEF copyexec, FoldLeft, MapThenFoldSet, Max, Copying!SeqFold, Copying!SeqFolds, Copying!Greatest
<1>2. sources \in Seq(Seq(PathNames)) /\ Len(sources) \in Nat
  BY SourcesTyped
<1> HIDE DEF on, sources
<1>3. PICK h : /\ copyexec(t, args) = h[Len(sources)]
               /\ h[0] = Untouched(t)
               /\ \A i \in 1..Len(sources) : h[i] = CopyOne(on, sources[i], h[i - 1])
  <2> DEFINE base == Untouched(t)
             X == Seq(PathNames)
  <2>1. sources \in Seq(X)
    BY <1>2
  <2> HIDE DEF base, X
  <2>2. PICK g : /\ Copying!SeqFold(sources, on, base) = g[Len(sources)]
                 /\ Copying!Walks(g, sources, on, base)
    BY <2>1, Copying!SeqFoldWalks, Zenon
  <2>3. /\ g[0] = base
        /\ \A i \in 1..Len(sources) : g[i] = CopyOne(on, sources[i], g[i - 1])
    BY <2>2 DEF Copying!Walks
  <2> QED
    BY <1>1, <2>2, <2>3 DEF base
<1>4. \A i \in 1..Len(Front(args)) :
         h[i] = CopyOne([args |-> args, order |-> order], Front(args)[i], h[i - 1])
  BY <1>3 DEF on, sources
<1>5. copyexec(t, args) = h[Len(Front(args))] /\ h[0] = Untouched(t)
  BY <1>3 DEF sources
<1> QED
  BY <1>4, <1>5

LEMMA CopyKeepsTree ==
  ASSUME NEW t, NEW args \in Seq(Seq(PathNames)), ~copyexec(t, args).listed
  PROVE  copyexec(t, args).tree = t
<1> DEFINE on == [args |-> args, order |-> order]
           Idle(r) == ~r.listed => r.tree = t
           l == Len(Front(args))
<1>1. Idle(Untouched(t))
  BY DEF Untouched
<1>2. CASE Len(args) < 2
  BY <1>1, <1>2 DEF copyexec
<1>3. CASE Len(args) >= 2
  <2> HIDE DEF l
  <2>1. PICK g : /\ copyexec(t, args) = g[l]
                 /\ g[0] = Untouched(t)
                 /\ \A i \in 1..l : g[i] = CopyOne(on, Front(args)[i], g[i - 1])
    BY <1>3, CopySteps DEF l
  <2> USE DEF l
  <2> HIDE DEF on
  <2>2. ASSUME NEW source, NEW r, Idle(r) PROVE Idle(CopyOne(on, source, r))
    BY <2>2 DEF CopyOne
  <2> DEFINE Q == {i \in 0..l : Idle(g[i])}
  <2>3. l \in Nat /\ 0 \in Q
    BY <1>1, <1>3, <2>1, SourcesTyped
  <2>4. ASSUME NEW i \in 1..l, i - 1 \in Q PROVE i \in Q
    <3>1. i \in 0..l /\ Idle(g[i - 1])
      BY <2>3, <2>4
    <3>2. g[i] = CopyOne(on, Front(args)[i], g[i - 1])
      BY <2>1
    <3> QED
      BY <2>2, <3>1, <3>2
  <2>5. l \in Q
    <3> HIDE DEF l, Q
    <3> QED BY <2>3, <2>4, Copying!StepByStep
  <2> QED
    BY <2>1, <2>5
<1> QED
  BY <1>2, <1>3

LEMMA CopyStaysTree ==
  ASSUME DirectoriesKeepTrees, NEW t, IsTree(t), NEW args \in Seq(Seq(PathNames)), order \in Orders
  PROVE  IsTree(copyexec(t, args).tree)
<1> DEFINE on == [args |-> args, order |-> order]
           l == Len(Front(args))
<1>1. IsTree(Untouched(t).tree)
  BY DEF Untouched
<1>2. CASE Len(args) < 2
  BY <1>1, <1>2 DEF copyexec
<1>3. CASE Len(args) >= 2
  <2> HIDE DEF l
  <2>1. PICK g : /\ copyexec(t, args) = g[l]
                 /\ g[0] = Untouched(t)
                 /\ \A i \in 1..l : g[i] = CopyOne(on, Front(args)[i], g[i - 1])
    BY <1>3, CopySteps DEF l
  <2> USE DEF l
  <2>2. l \in Nat /\ \A i \in 1..l : Front(args)[i] \in Seq(PathNames)
    BY <1>3, SourcesTyped
  <2> DEFINE Q == {i \in 0..l : IsTree(g[i].tree)}
  <2>3. 0 \in Q
    BY <1>1, <2>1, <2>2
  <2>4. ASSUME NEW i \in 1..l, i - 1 \in Q PROVE i \in Q
    <3>1. i \in 0..l /\ IsTree(g[i - 1].tree) /\ Front(args)[i] \in Seq(PathNames)
      BY <2>2, <2>4
    <3>2. g[i] = CopyOne(on, Front(args)[i], g[i - 1])
      BY <2>1
    <3> QED
      BY <1>3, <3>1, <3>2, CopyOneKeeps
  <2>5. l \in Q
    <3> HIDE DEF l, Q
    <3> QED BY <2>2, <2>3, <2>4, Copying!StepByStep
  <2> QED
    BY <2>1, <2>5
<1> QED
  BY <1>2, <1>3

LEMMA MoveSteps ==
  ASSUME NEW t, NEW args \in Seq(Seq(PathNames)), Len(args) >= 2
  PROVE  \E g : /\ moveexec(t, args) = g[Len(Front(args))]
                /\ g[0] = Untouched(t)
                /\ \A i \in 1..Len(Front(args)) :
                     g[i] = MoveOne([args |-> args, order |-> order], Front(args)[i], g[i - 1])
<1> DEFINE on == [args |-> args, order |-> order]
           sources == Front(args)
<1>1. moveexec(t, args) = Moving!SeqFold(sources, on, Untouched(t))
  BY DEF moveexec, FoldLeft, MapThenFoldSet, Max, Moving!SeqFold, Moving!SeqFolds, Moving!Greatest
<1>2. sources \in Seq(Seq(PathNames)) /\ Len(sources) \in Nat
  BY SourcesTyped
<1> HIDE DEF on, sources
<1>3. PICK h : /\ moveexec(t, args) = h[Len(sources)]
               /\ h[0] = Untouched(t)
               /\ \A i \in 1..Len(sources) : h[i] = MoveOne(on, sources[i], h[i - 1])
  <2> DEFINE base == Untouched(t)
             X == Seq(PathNames)
  <2>1. sources \in Seq(X)
    BY <1>2
  <2> HIDE DEF base, X
  <2>2. PICK g : /\ Moving!SeqFold(sources, on, base) = g[Len(sources)]
                 /\ Moving!Walks(g, sources, on, base)
    BY <2>1, Moving!SeqFoldWalks, Zenon
  <2>3. /\ g[0] = base
        /\ \A i \in 1..Len(sources) : g[i] = MoveOne(on, sources[i], g[i - 1])
    BY <2>2 DEF Moving!Walks
  <2> QED
    BY <1>1, <2>2, <2>3 DEF base
<1>4. \A i \in 1..Len(Front(args)) :
         h[i] = MoveOne([args |-> args, order |-> order], Front(args)[i], h[i - 1])
  BY <1>3 DEF on, sources
<1>5. moveexec(t, args) = h[Len(Front(args))] /\ h[0] = Untouched(t)
  BY <1>3 DEF sources
<1> QED
  BY <1>4, <1>5

LEMMA MoveKeepsTree ==
  ASSUME NEW t, NEW args \in Seq(Seq(PathNames)), ~moveexec(t, args).listed
  PROVE  moveexec(t, args).tree = t
<1> DEFINE on == [args |-> args, order |-> order]
           Idle(r) == ~r.listed => r.tree = t
           l == Len(Front(args))
<1>1. Idle(Untouched(t))
  BY DEF Untouched
<1>2. CASE Len(args) < 2
  BY <1>1, <1>2 DEF moveexec
<1>3. CASE Len(args) >= 2
  <2> HIDE DEF l
  <2>1. PICK g : /\ moveexec(t, args) = g[l]
                 /\ g[0] = Untouched(t)
                 /\ \A i \in 1..l : g[i] = MoveOne(on, Front(args)[i], g[i - 1])
    BY <1>3, MoveSteps DEF l
  <2> USE DEF l
  <2> HIDE DEF on
  <2>2. ASSUME NEW source, NEW r, Idle(r) PROVE Idle(MoveOne(on, source, r))
    BY <2>2 DEF MoveOne, rename_file
  <2> DEFINE Q == {i \in 0..l : Idle(g[i])}
  <2>3. l \in Nat /\ 0 \in Q
    BY <1>1, <1>3, <2>1, SourcesTyped
  <2>4. ASSUME NEW i \in 1..l, i - 1 \in Q PROVE i \in Q
    <3>1. i \in 0..l /\ Idle(g[i - 1])
      BY <2>3, <2>4
    <3>2. g[i] = MoveOne(on, Front(args)[i], g[i - 1])
      BY <2>1
    <3> QED
      BY <2>2, <3>1, <3>2
  <2>5. l \in Q
    <3> HIDE DEF l, Q
    <3> QED BY <2>3, <2>4, Moving!StepByStep
  <2> QED
    BY <2>1, <2>5
<1> QED
  BY <1>2, <1>3

LEMMA MoveStaysTree ==
  ASSUME DirectoriesKeepTrees, NEW t, IsTree(t), NEW args \in Seq(Seq(PathNames)), order \in Orders
  PROVE  IsTree(moveexec(t, args).tree)
<1> DEFINE on == [args |-> args, order |-> order]
           l == Len(Front(args))
<1>1. IsTree(Untouched(t).tree)
  BY DEF Untouched
<1>2. CASE Len(args) < 2
  BY <1>1, <1>2 DEF moveexec
<1>3. CASE Len(args) >= 2
  <2> HIDE DEF l
  <2>1. PICK g : /\ moveexec(t, args) = g[l]
                 /\ g[0] = Untouched(t)
                 /\ \A i \in 1..l : g[i] = MoveOne(on, Front(args)[i], g[i - 1])
    BY <1>3, MoveSteps DEF l
  <2> USE DEF l
  <2>2. l \in Nat /\ \A i \in 1..l : Front(args)[i] \in Seq(PathNames)
    BY <1>3, SourcesTyped
  <2> DEFINE Q == {i \in 0..l : IsTree(g[i].tree)}
  <2>3. 0 \in Q
    BY <1>1, <2>1, <2>2
  <2>4. ASSUME NEW i \in 1..l, i - 1 \in Q PROVE i \in Q
    <3>1. i \in 0..l /\ IsTree(g[i - 1].tree) /\ Front(args)[i] \in Seq(PathNames)
      BY <2>2, <2>4
    <3>2. g[i] = MoveOne(on, Front(args)[i], g[i - 1])
      BY <2>1
    <3> QED
      BY <1>3, <3>1, <3>2, MoveOneKeeps
  <2>5. l \in Q
    <3> HIDE DEF l, Q
    <3> QED BY <2>2, <2>3, <2>4, Moving!StepByStep
  <2> QED
    BY <2>1, <2>5
<1> QED
  BY <1>2, <1>3

LineTyped == /\ keys \in Commands \cup {NoKeys, Garbled}
             /\ cmdkeys \in Seq(Seq(PathNames))

LEMMA LineArgs ==
  ASSUME LineTyped
  PROVE  /\ keys.args \in Seq(Seq(PathNames))
         /\ Args(keys) \in Seq(Seq(PathNames))
         /\ \A i \in {1, 2} : Arg(keys, i) \in Seq(PathNames)
<1>1. keys.args \in Seq(Seq(PathNames))
  <2>1. \A c \in Commands : c.args \in Seq(Seq(PathNames))
    BY ExplorerAssumption
  <2>2. <<>> \in Seq(Seq(PathNames))
    OBVIOUS
  <2>3. keys \in Commands \/ keys.args = <<>>
    <3>1. keys \in Commands \/ keys = NoKeys \/ keys = Garbled
      BY DEF LineTyped
    <3>2. NoKeys.args = <<>> /\ Garbled.args = <<>>
      BY DEF NoKeys, Garbled
    <3> QED BY <3>1, <3>2, Zenon
  <2> QED BY <2>1, <2>2, <2>3
<1>2. SubSeq(cmdkeys, Len(keys.args) + 1, Len(cmdkeys)) \in Seq(Seq(PathNames))
  <2> DEFINE m == Len(keys.args) + 1
             n == Len(cmdkeys)
             S == Seq(PathNames)
  <2>1. m \in Nat \ {0} /\ n \in Nat /\ cmdkeys \in Seq(S)
    BY <1>1 DEF LineTyped
  <2> HIDE DEF m, S
  <2>2. \A i \in m..n : cmdkeys[i] \in S
    BY <2>1
  <2> HIDE DEF n
  <2>3. SubSeq(cmdkeys, m, n) \in Seq(S)
    BY <2>1, <2>2, SubSeqProperties
  <2> QED
    BY <2>3 DEF m, n, S
<1>3. Args(keys) \in Seq(Seq(PathNames))
  BY <1>1, <1>2, ConcatProperties DEF Args
<1>4. \A i \in {1, 2} : Arg(keys, i) \in Seq(PathNames)
  <2>1. \A i \in {1, 2} : i <= Len(Args(keys)) => Args(keys)[i] \in Seq(PathNames)
    BY <1>3
  <2> QED
    BY <2>1, SpecialNames DEF Arg
<1> QED
  BY <1>1, <1>3, <1>4

LEMMA CommandKeepsTree ==
  ASSUME LineTyped, ~Result(keys).listed
  PROVE  Result(keys).tree = fs
<1>1. keys.args \in Seq(Seq(PathNames))
  BY LineArgs
<1>2. CASE keys.task = "copy"
  <2>1. Result(keys) = copyexec(fs, keys.args)
    BY <1>2 DEF Result
  <2> QED BY <1>1, <2>1, CopyKeepsTree
<1>3. CASE keys.task = "move"
  <2>1. Result(keys) = moveexec(fs, keys.args)
    BY <1>3 DEF Result
  <2> QED BY <1>1, <2>1, MoveKeepsTree
<1>4. CASE keys.task = "rename"
  BY <1>4 DEF Result, renameexec, rename_file, Untouched
<1>5. CASE keys.task = "create_file"
  BY <1>5 DEF Result, create_fileexec, create_file, Untouched
<1>6. CASE keys.task = "create_dir"
  BY <1>6 DEF Result, create_direxec, make_dir, Untouched
<1>7. CASE keys.task = "delete_file"
  BY <1>7 DEF Result, delete_fileexec, Untouched
<1>8. CASE keys.task = "delete_dir"
  BY <1>8 DEF Result, delete_direxec, Untouched
<1>9. CASE keys.task \notin {"copy", "move", "rename", "create_file", "create_dir",
                             "delete_file", "delete_dir"}
  BY <1>9 DEF Result, Untouched
<1> QED BY <1>2, <1>3, <1>4, <1>5, <1>6, <1>7, <1>8, <1>9

LEMMA CommandStaysTree ==
  ASSUME DirectoriesKeepTrees, IsTree(fs), LineTyped, order \in Orders
  PROVE  IsTree(Result(keys).tree)
<1>1. keys.args \in Seq(Seq(PathNames)) /\ IsTree(Untouched(fs).tree)
  BY LineArgs DEF Untouched
<1>2. CASE keys.task = "copy"
  <2>1. Result(keys) = copyexec(fs, keys.args)
    BY <1>2 DEF Result
  <2> QED BY <1>1, <2>1, CopyStaysTree
<1>3. CASE keys.task = "move"
  <2>1. Result(keys) = moveexec(fs, keys.args)
    BY <1>3 DEF Result
  <2> QED BY <1>1, <2>1, MoveStaysTree
<1>4. CASE keys.task = "rename"
  BY <1>4, RenameKeeps DEF Result, renameexec, Untouched
<1>5. CASE keys.task = "create_file"
  BY <1>1, <1>5, CreateKeeps DEF Result, create_fileexec
<1>6. CASE keys.task = "create_dir"
  BY <1>1, <1>6, MakeKeeps DEF Result, create_direxec
<1>7. CASE keys.task = "delete_file"
  BY <1>7, DeleteFileKeeps DEF Result, delete_fileexec, Untouched
<1>8. CASE keys.task = "delete_dir"
  <2>1. Len(keys.args) = 1 => keys.args[1] \in Seq(PathNames)
    BY <1>1
  <2>2. Result(keys) = delete_direxec(fs, keys.args)
    BY <1>8 DEF Result
  <2> QED
    BY <1>1, <2>1, <2>2 DEF delete_direxec, Untouched, DirectoriesKeepTrees, KeepTrees
<1>9. CASE keys.task \notin {"copy", "move", "rename", "create_file", "create_dir",
                             "delete_file", "delete_dir"}
  BY <1>9 DEF Result, Untouched
<1> QED BY <1>2, <1>3, <1>4, <1>5, <1>6, <1>7, <1>8, <1>9

-----------------------------------------------------------------------------
(* What a reading of the list leaves. *)
LEMMA ReadingFacts ==
  ASSUME order \in Orders, state = "running", getAllFiles
  PROVE  /\ filesarr' \in Seq(Entry)
         /\ printfiles \/ UNCHANGED screen
         /\ ListingIsCurrent'
         /\ ~Unlistable' => filesarr' # <<>> /\ printfiles
<1>1. /\ Alphabet \in Seq(Listable) /\ \E i \in DOMAIN Alphabet : Alphabet[i] = "."
      /\ order \in Seq(Listable)
  BY ExplorerAssumption DEF Listable
<1>2. CASE ~checkDir(fs', CWD')
  <2>1. filesarr' = <<>> /\ UNCHANGED screen
    BY <1>2 DEF getAllFiles
  <2> QED BY <1>2, <2>1 DEF ListingIsCurrent, Unlistable
<1>3. CASE checkDir(fs', CWD') /\ Dangling(fs', CWD') # {}
  <2>1. filesarr' = UpToDangling(fs', CWD', order) /\ UNCHANGED screen
    BY <1>3 DEF getAllFiles
  <2>2. filesarr' \in Seq(Entry)
    BY <1>3, <2>1, UpToDanglingListed
  <2> QED BY <1>3, <2>1, <2>2 DEF ListingIsCurrent, Unlistable
<1>4. CASE checkDir(fs', CWD') /\ Dangling(fs', CWD') = {}
  <2>1. filesarr' = Entries(fs', CWD', Alphabet) /\ printfiles
    BY <1>4 DEF getAllFiles
  <2>2. filesarr' \in Seq(Entry) /\ filesarr' # <<>>
    BY <1>1, <2>1, EntriesListed
  <2> QED BY <1>4, <2>1, <2>2 DEF ListingIsCurrent
<1> QED BY <1>2, <1>3, <1>4

(* The steps by what they do to cursor, list and screen: a cursor key; the *)
(* same list read again; a list read with the cursor sent to its top; the  *)
(* list read after a command; nothing but, in command mode, the cursor     *)
(* sent to the top; and the end of the program.                            *)
Key == (upkey \/ downkey) /\ UNCHANGED <<fs, CWD, mode>>

Again == getAllFiles /\ UNCHANGED <<fs, CWD, mode, cursorVars, maxRows>>

Anew == getAllFiles /\ init /\ maxRows' \in Int

Worked == /\ mode = "command" /\ getAllFiles
          /\ UNCHANGED <<CWD, mode, cursorVars, maxRows>>

Quiet == /\ UNCHANGED <<fs, CWD, maxRows, filesarr, screen>>
         /\ \/ UNCHANGED cursorVars /\ mode' \in {mode, "command"}
            \/ init /\ mode = "command"

Ends == /\ state' # "running"
        /\ init \/ UNCHANGED cursorVars
        /\ UNCHANGED <<maxRows, filesarr, screen>>

Kinds == Key \/ Again \/ Anew \/ Worked \/ Quiet \/ Ends

LEMMA ChangeKinds ==
  ASSUME NEW p, change_dir(p), maxRows \in Int
  PROVE  Anew \/ Ends
  BY DEF change_dir, Anew, Ends

LEMMA VisitKinds ==
  ASSUME NEW p, Visit(p), maxRows \in Int
  PROVE  /\ Again \/ Anew \/ Ends
         /\ UNCHANGED <<keys, cmdkeys>>
<1>1. CASE IsDir(fs, p)
  BY <1>1, ChangeKinds DEF Visit, lineVars
<1>2. CASE ~IsDir(fs, p)
  BY <1>2 DEF Visit, Again, placeVars, lineVars
<1> QED BY <1>1, <1>2

LEMMA StepKinds ==
  ASSUME LineTyped, maxRows \in Int, Next
  PROVE  Kinds /\ LineTyped' /\ state = "running" /\ UNCHANGED order
<1> USE DEF Kinds
<1>1. state = "running" /\ UNCHANGED order
  BY DEF Next
<1>2. CASE cursorKey
  BY <1>1, <1>2 DEF cursorKey, Key, placeVars, lineVars, LineTyped
<1>3. CASE enter \/ goto_parent_dir \/ goforward \/ goback \/ goHome
  <2>1. \/ \E p \in {Err} : Visit(p)
        \/ Visit(IF wd = Gone THEN Err ELSE pathresolver(fs, Append(wd, "..")))
        \/ Visit(pathresolver(fs, HOME))
        \/ Visit(pathresolver(fs, Head(backstk)))
        \/ Visit(pathresolver(fs, Head(forwardstk)))
        \/ Visit(pathresolver(fs, Append(CWD, Selected.name)))
        \/ /\ state' = "dead"
           /\ UNCHANGED <<pagerVars, fs, placeVars, historyVars, mode, lineVars>>
    BY <1>3 DEF enter, EnterDirectory, OpenFile, EnterNothing, goto_parent_dir, goforward, goback, goHome
  <2>2. CASE \E p : Visit(p)
    BY <1>1, <2>2, VisitKinds DEF LineTyped
  <2>3. CASE /\ state' = "dead"
             /\ UNCHANGED <<pagerVars, fs, placeVars, historyVars, mode, lineVars>>
    BY <1>1, <2>3 DEF Ends, pagerVars, lineVars, LineTyped
  <2> QED BY <2>1, <2>2, <2>3
<1>4. CASE colon
  BY <1>1, <1>4 DEF colon, Quiet, pagerVars, placeVars, lineVars, LineTyped
<1>5. CASE commandexec
  <2>1. mode = "command" /\ mode' = mode /\ LineTyped'
    BY <1>5, LineArgs DEF commandexec, LineTyped
  <2>2. CASE FileCommand(keys)
    <3>1. UNCHANGED <<CWD, cursorVars, maxRows>> /\ fs' = Result(keys).tree
      BY <2>2 DEF FileCommand
    <3>2. CASE state' = "dead" /\ UNCHANGED <<filesarr, screen>>
      BY <1>1, <2>1, <3>1, <3>2 DEF Ends
    <3>3. CASE Result(keys).listed /\ getAllFiles
      BY <1>1, <2>1, <3>1, <3>3 DEF Worked
    <3>4. CASE ~Result(keys).listed /\ UNCHANGED <<filesarr, screen, state>>
      BY <1>1, <2>1, <3>1, <3>4, CommandKeepsTree DEF Quiet
    <3> QED BY <2>2, <3>2, <3>3, <3>4 DEF FileCommand
  <2>3. CASE goto(keys)
    <3>1. CASE \E p : change_dir(p)
      BY <1>1, <2>1, <3>1, ChangeKinds
    <3>2. CASE UNCHANGED <<pagerVars, fs, placeVars, historyVars, state>>
      BY <1>1, <2>1, <3>2 DEF Quiet, pagerVars, placeVars
    <3> QED BY <2>3, <3>1, <3>2 DEF goto
  <2>4. CASE DiesOnTheWay(keys)
    BY <1>1, <2>1, <2>4 DEF DiesOnTheWay, Ends, pagerVars
  <2> QED BY <1>5, <2>2, <2>3, <2>4 DEF commandexec
<1>6. CASE backspace
  BY <1>1, <1>6 DEF backspace, Quiet, pagerVars, placeVars, LineTyped
<1>7. CASE exitcommandmode
  BY <1>1, <1>7 DEF exitcommandmode, Quiet, placeVars, lineVars, LineTyped
<1>8. CASE \E c \in Commands \cup {Garbled} : Type(c)
  BY <1>1, <1>8 DEF Type, Quiet, pagerVars, placeVars, LineTyped
<1>9. CASE quit
  BY <1>1, <1>9 DEF quit, Ends, pagerVars, lineVars, LineTyped
<1>10. CASE \E rows \in Rows : resizehandler(rows)
  BY <1>1, <1>10, ExplorerAssumption DEF resizehandler, Anew, lineVars, LineTyped
<1> QED BY <1>2, <1>3, <1>4, <1>5, <1>6, <1>7, <1>8, <1>9, <1>10 DEF Next, normalmode, commandmode

-----------------------------------------------------------------------------
(* A list that is read is never empty, so what is listed can be selected:  *)
(* for that the list must be known to be the one of the directory.         *)
ExplorerInv == /\ PagerInv
               /\ LineTyped
               /\ order \in Orders
               /\ ListingIsCurrent
               /\ SelectionInRange

(* A list read with the cursor at its top. *)
LEMMA TopAgrees ==
  ASSUME PagerInv', init, printfiles, filesarr' # <<>>
  PROVE  Agree'
<1>1. /\ filesarr' \in Seq(Entry) /\ maxRows' \in Int
      /\ cur_x' = 1 /\ file_idx' = 0 /\ file_start' = 0
      /\ screen' = Shown(filesarr', 0, maxRows')
  BY DEF PagerInv, PagerTypeOK, init, printfiles
<1>2. Len(filesarr') \in Nat \ {0}
  BY <1>1
<1>3. /\ Len(screen') = RowCount(filesarr', maxRows') /\ Len(screen') \in Nat
      /\ \A i \in 1..Len(screen') : 0 + i <= Len(filesarr') => screen'[i] = filesarr'[0 + i]
  BY <1>1, ShownRows
<1>4. 0 + Len(screen') <= Len(filesarr')
  BY <1>1, <1>2, <1>3 DEF RowCount, MinOf
<1>5. 1 <= Len(screen') => screen'[1] = filesarr'[1]
  BY <1>2, <1>3
<1> QED BY <1>1, <1>2, <1>4, <1>5 DEF Agree

(* The step of module Pager that each kind of step is. *)
LEMMA KindsRefine ==
  ASSUME PagerInv, order \in Orders, state = "running", Kinds
  PROVE  [upkey \/ downkey \/ Turn]_pagerVars
<1>1. maxRows \in Int /\ filesarr \in Seq(Entry)
  BY DEF PagerInv, PagerTypeOK
<1>2. CASE Key
  BY <1>2 DEF Key
<1>3. CASE Again \/ Anew \/ Worked
  <2>1. filesarr' \in Seq(Entry) /\ (printfiles \/ UNCHANGED screen)
    BY <1>3, ReadingFacts DEF Again, Anew, Worked
  <2>2. init \/ UNCHANGED <<cursorVars, maxRows>>
    BY <1>3 DEF Again, Anew, Worked
  <2>3. maxRows' \in Int
    BY <1>1, <1>3 DEF Again, Anew, Worked
  <2> QED BY <2>1, <2>2, <2>3 DEF Turn
<1>4. CASE Quiet \/ Ends
  <2>1. init \/ UNCHANGED cursorVars
    BY <1>4 DEF Quiet, Ends
  <2>2. UNCHANGED <<maxRows, filesarr, screen>>
    BY <1>4 DEF Quiet, Ends
  <2> QED BY <1>1, <2>1, <2>2 DEF Turn
<1> QED BY <1>2, <1>3, <1>4 DEF Kinds

LEMMA ListingStep ==
  ASSUME PagerInv, order \in Orders, state = "running", ListingIsCurrent, Kinds
  PROVE  ListingIsCurrent'
<1>1. CASE Key
  <2>1. UNCHANGED <<fs, CWD, filesarr>>
    BY <1>1 DEF Key, upkey, downkey
  <2> QED BY <2>1 DEF ListingIsCurrent
<1>2. CASE Again \/ Anew \/ Worked
  BY <1>2, ReadingFacts DEF Again, Anew, Worked
<1>3. CASE Quiet
  BY <1>3 DEF Quiet, ListingIsCurrent
<1>4. CASE Ends
  BY <1>4 DEF Ends, ListingIsCurrent
<1> QED BY <1>1, <1>2, <1>3, <1>4 DEF Kinds

(* A list that is current, of a directory that can be listed, is the list  *)
(* of its entries, and those are some.                                     *)
LEMMA CurrentList ==
  ASSUME ListingIsCurrent, state = "running", ~Unlistable
  PROVE  filesarr = Entries(fs, CWD, Alphabet) /\ filesarr # <<>>
<1>1. Alphabet \in Seq(Listable) /\ \E i \in DOMAIN Alphabet : Alphabet[i] = "."
  BY ExplorerAssumption DEF Listable
<1>2. filesarr = Entries(fs, CWD, Alphabet)
  BY DEF ListingIsCurrent, Unlistable
<1> QED BY <1>1, <1>2, EntriesListed

(* Reading it again gives the same list. *)
LEMMA AgainSame ==
  ASSUME ListingIsCurrent, ListingIsCurrent', state = "running", state' = "running",
         Again, ~Unlistable
  PROVE  filesarr' = filesarr
<1>1. fs' = fs /\ CWD' = CWD
  BY DEF Again
<1>2. filesarr' = Entries(fs, CWD, Alphabet)
  BY <1>1 DEF ListingIsCurrent, Unlistable
<1> QED BY <1>2, CurrentList

LEMMA NonEmpty ==
  ASSUME NEW list \in Seq(Entry), list # <<>>
  PROVE  Len(list) > 0
  OBVIOUS

LEMMA SelectionStep ==
  ASSUME PagerInv, PagerInv', order \in Orders, state = "running",
         ListingIsCurrent, ListingIsCurrent', SelectionInRange, Kinds
  PROVE  SelectionInRange'
<1> SUFFICES ASSUME state' = "running", mode' = "normal", ~Unlistable'
             PROVE  file_idx' \in 0..(Len(filesarr') - 1)
  BY DEF SelectionInRange
<1>1. filesarr \in Seq(Entry) /\ filesarr' \in Seq(Entry)
  BY DEF PagerInv, PagerTypeOK
<1>2. /\ file_idx' \in Int /\ file_start' \in Int /\ cur_x' \in Int
      /\ file_idx' = file_start' + cur_x' - 1 /\ cur_x' >= 1 /\ file_start' >= 0
  BY DEF PagerInv, PagerTypeOK, CursorArithmetic
<1>3. file_idx' >= 0
  <2>1. \A a, b \in Int : a >= 0 /\ b >= 1 => a + b - 1 >= 0
    OBVIOUS
  <2> QED BY <1>2, <2>1
<1>4. /\ filesarr # <<>> => Len(filesarr) > 0
      /\ filesarr' # <<>> => Len(filesarr') > 0
  BY <1>1, NonEmpty
<1>5. Len(filesarr) \in Int /\ Len(filesarr') \in Int
  BY <1>1
<1>6. /\ file_idx \in Int /\ file_start \in Int /\ cur_x \in Int /\ maxRows \in Int
      /\ file_idx = file_start + cur_x - 1
  BY DEF PagerInv, PagerTypeOK, CursorArithmetic
<1>7. /\ file_idx \in Int /\ file_start \in Int /\ cur_x \in Int /\ maxRows \in Int
      /\ file_idx = file_start + cur_x - 1
      /\ file_idx' \in Int /\ file_idx' >= 0
      /\ Len(filesarr) \in Int /\ Len(filesarr') \in Int
  BY <1>2, <1>3, <1>5, <1>6
<1>8. CASE Key
  <2>1. mode = "normal" /\ ~Unlistable /\ filesarr' = filesarr
    BY <1>8 DEF Key, upkey, downkey, Unlistable
  <2>2. file_idx \in 0..(Len(filesarr) - 1)
    BY <2>1 DEF SelectionInRange
  <2>3. file_idx' < Len(filesarr) /\ file_idx' >= 0
    <3>1. CASE upkey
      BY <1>7, <2>2, <3>1 DEF upkey
    <3>2. CASE downkey
      <4>1. CASE cur_x + 1 <= Len(filesarr) - file_start /\ file_idx' = file_idx + 1
        BY <1>7, <2>2, <4>1
      <4>2. CASE file_idx + 1 < Len(filesarr) /\ file_idx' = file_idx + 1
        BY <1>7, <2>2, <4>2
      <4> QED BY <1>7, <3>2, <4>1, <4>2 DEF downkey, MinOf
    <3> QED BY <1>8, <3>1, <3>2 DEF Key
  <2> QED BY <1>7, <2>1, <2>3
<1>9. CASE Again
  <2>1. mode = "normal" /\ ~Unlistable /\ file_idx' = file_idx
    BY <1>9 DEF Again, Unlistable, cursorVars
  <2>2. filesarr' = filesarr
    BY <1>9, <2>1, AgainSame
  <2> QED BY <2>1, <2>2 DEF SelectionInRange
<1>10. CASE Anew
  <2>1. filesarr' # <<>> /\ file_idx' = 0
    BY <1>10, ReadingFacts DEF Anew, init
  <2> QED BY <1>7, <1>4, <2>1
<1>11. CASE Worked
  BY <1>11 DEF Worked
<1>12. CASE Quiet
  <2>1. ~Unlistable /\ filesarr' = filesarr
    BY <1>12 DEF Quiet, Unlistable
  <2>2. CASE UNCHANGED cursorVars /\ mode' \in {mode, "command"}
    BY <2>1, <2>2 DEF SelectionInRange, cursorVars
  <2>3. CASE init
    <3>1. filesarr # <<>> /\ file_idx' = 0
      BY <2>1, <2>3, CurrentList DEF init
    <3> QED BY <1>7, <1>4, <2>1, <3>1
  <2> QED BY <1>12, <2>2, <2>3 DEF Quiet
<1>13. CASE Ends
  BY <1>13 DEF Ends
<1> QED BY <1>8, <1>9, <1>10, <1>11, <1>12, <1>13 DEF Kinds

LEMMA InitRefines == Init => PagerInit
<1> SUFFICES ASSUME Init PROVE PagerInit
  OBVIOUS
<1>1. Alphabet \in Seq(Listable) /\ Rows \subseteq Int
  BY ExplorerAssumption DEF Listable
<1>2. filesarr \in Seq(Entry) /\ maxRows \in Int
  BY <1>1, EntriesListed DEF Init
<1> QED BY <1>2 DEF Init, PagerInit

(* The directory shown is what the explorer knows of it, for every tree.   *)
THEOREM ExplorerInvariant == Spec => []ExplorerInv
<1>1. Init => ExplorerInv
  <2> SUFFICES ASSUME Init PROVE ExplorerInv
    OBVIOUS
  <2>1. PagerInv
    BY InitRefines, PagerInitTyped
  <2>2. LineTyped /\ order \in Orders
    BY DEF Init, LineTyped
  <2>3. checkDir(fs, CWD)
    <3>1. IsTree(fs) /\ IsDir(fs, CWD)
      BY ExplorerAssumption DEF Init
    <3> QED BY <3>1, DirResolves DEF checkDir
  <2>4. ListingIsCurrent
    BY <2>3 DEF Init, ListingIsCurrent
  <2>5. SelectionInRange
    <3>1. state = "running" /\ file_idx = 0 /\ filesarr \in Seq(Entry)
      BY <2>1 DEF Init, PagerInv, PagerTypeOK
    <3>2. Unlistable \/ filesarr # <<>>
      BY <2>4, <3>1, CurrentList
    <3> QED BY <3>1, <3>2 DEF SelectionInRange
  <2> QED BY <2>1, <2>2, <2>4, <2>5 DEF ExplorerInv
<1>2. ExplorerInv /\ [Next]_vars => ExplorerInv'
  <2> SUFFICES ASSUME ExplorerInv, [Next]_vars PROVE ExplorerInv'
    OBVIOUS
  <2>1. CASE Next
    <3>1. PagerInv /\ LineTyped /\ order \in Orders /\ ListingIsCurrent /\ SelectionInRange
      BY DEF ExplorerInv
    <3>2. maxRows \in Int
      BY <3>1 DEF PagerInv, PagerTypeOK
    <3>3. Kinds /\ LineTyped' /\ state = "running" /\ UNCHANGED order
      BY <2>1, <3>1, <3>2, StepKinds
    <3>4. PagerInv'
      BY <3>1, <3>3, KindsRefine, PagerStep
    <3>5. ListingIsCurrent'
      BY <3>1, <3>3, ListingStep
    <3>6. SelectionInRange'
      BY <3>1, <3>3, <3>4, <3>5, SelectionStep
    <3> QED BY <3>1, <3>3, <3>4, <3>5, <3>6 DEF ExplorerInv
  <2>2. CASE UNCHANGED vars
    BY <2>2 DEF vars, pagerVars, cursorVars, placeVars, historyVars, lineVars, ExplorerInv,
                PagerInv, PagerTypeOK, CursorArithmetic, LineTyped, ListingIsCurrent,
                SelectionInRange, Unlistable
  <2> QED BY <2>1, <2>2
<1> QED BY <1>1, <1>2, PTL DEF Spec

(* Whatever commands have done to the tree, the list is what the directory *)
(* called CWD holds.                                                       *)
THEOREM ListStaysCurrent == Spec => []ListingIsCurrent
<1>1. ExplorerInv => ListingIsCurrent
  BY DEF ExplorerInv
<1> QED BY <1>1, ExplorerInvariant, PTL

(* What enter reads in normal mode is an entry of the list. *)
THEOREM SelectionStaysInRange == Spec => []SelectionInRange
<1>1. ExplorerInv => SelectionInRange
  BY DEF ExplorerInv
<1> QED BY <1>1, ExplorerInvariant, PTL

(* The cursor's row, the first line shown and the selected entry go        *)
(* together, whatever is done with the explorer.                           *)
THEOREM CursorConsistent == Spec => []CursorArithmetic
<1>1. ExplorerInv => CursorArithmetic
  BY DEF ExplorerInv, PagerInv
<1> QED BY <1>1, ExplorerInvariant, PTL

(* The explorer does to cursor, list and screen what module Pager allows. *)
THEOREM ExplorerImplementsPager == Spec => ImplementsPager
<1>1. Init => PagerInit
  BY InitRefines
<1>2. ExplorerInv /\ [Next]_vars => [upkey \/ downkey \/ Turn]_pagerVars
  <2> SUFFICES ASSUME ExplorerInv, [Next]_vars PROVE [upkey \/ downkey \/ Turn]_pagerVars
    OBVIOUS
  <2>1. CASE Next
    <3>1. PagerInv /\ LineTyped /\ order \in Orders /\ maxRows \in Int
      BY DEF ExplorerInv, PagerInv, PagerTypeOK
    <3> QED BY <2>1, <3>1, StepKinds, KindsRefine
  <2>2. CASE UNCHANGED vars
    BY <2>2 DEF vars, pagerVars, cursorVars
  <2> QED BY <2>1, <2>2
<1> QED BY <1>1, <1>2, ExplorerInvariant, PTL DEF Spec, PagerSpec, ImplementsPager

-----------------------------------------------------------------------------
LEMMA AgreementStep ==
  ASSUME ExplorerInv, ExplorerInv', Next, state' = "running", ~Unlistable'
  PROVE  /\ Agree /\ mode = "normal" => Agree'
         /\ CWD' # CWD => Agree' /\ file_idx' = 0
<1>1. /\ PagerInv /\ LineTyped /\ order \in Orders /\ ListingIsCurrent
      /\ PagerInv' /\ ListingIsCurrent' /\ maxRows \in Int
  BY DEF ExplorerInv, PagerInv, PagerTypeOK
<1>2. Kinds /\ state = "running"
  BY <1>1, StepKinds
<1>3. CASE Key
  BY <1>1, <1>3, KeyKeepsAgreement DEF Key
<1>4. CASE Again
  <2>1. UNCHANGED <<cursorVars, maxRows, CWD>> /\ ~Unlistable
    BY <1>4 DEF Again, Unlistable
  <2>2. filesarr' = filesarr
    BY <1>1, <1>2, <1>4, <2>1, AgainSame
  <2>3. screen' = Shown(filesarr, file_start, maxRows)
    BY <1>1, <1>2, <1>4, <2>1, <2>2, ReadingFacts DEF Again, printfiles, cursorVars
  <2> QED BY <2>1, <2>2, <2>3 DEF Agree, cursorVars
<1>5. CASE Anew
  <2>1. filesarr' # <<>> /\ printfiles /\ init
    BY <1>1, <1>2, <1>5, ReadingFacts DEF Anew
  <2> QED BY <1>1, <2>1, TopAgrees DEF init
<1>6. CASE Worked
  BY <1>6 DEF Worked
<1>7. CASE Quiet
  BY <1>7 DEF Quiet, Agree, cursorVars
<1>8. CASE Ends
  BY <1>8 DEF Ends
<1> QED BY <1>2, <1>3, <1>4, <1>5, <1>6, <1>7, <1>8 DEF Kinds

(* In normal mode the row under the cursor goes on showing what enter      *)
(* would open, and a directory newly entered is shown from its top, unless *)
(* it cannot be listed.                                                    *)
THEOREM AgreementIsKept == Spec => AgreementKept
<1>1. ExplorerInv /\ ExplorerInv' /\ [Next]_vars =>
        [state' = "running" =>
           \/ /\ Agree /\ mode = "normal" => Agree'
              /\ CWD' # CWD => Agree' /\ file_idx' = 0
           \/ Unlistable']_vars
  BY AgreementStep
<1> QED BY <1>1, ExplorerInvariant, PTL DEF Spec, AgreementKept

-----------------------------------------------------------------------------
(* The places, the histories and the tree. *)
ShortPaths == {p \in Seq(Names) : Len(p) <= CwdLimit}

Modes == {"normal", "command"}
States == {"running", "quit", "dead"}

PlaceInv == /\ IsTree(fs)
            /\ wd = Gone \/ IsDir(fs, wd)
            /\ CWD \in ShortPaths
            /\ backstk \in Seq(ShortPaths) /\ forwardstk \in Seq(ShortPaths)
            /\ done \in Nat /\ Effort <= MaxEffort
            /\ mode \in Modes /\ state \in States

LEMMA PushFacts ==
  ASSUME CWD \in ShortPaths, NEW stk \in Seq(ShortPaths)
  PROVE  /\ Push(stk) \in Seq(ShortPaths) /\ Len(Push(stk)) = Len(stk) + 1 /\ Len(stk) \in Nat
         /\ Range(Push(stk)) = {CWD} \cup Range(stk)
<1>1. <<CWD>> \in Seq(ShortPaths) /\ Len(<<CWD>>) = 1 /\ Range(<<CWD>>) = {CWD} /\ Len(stk) \in Nat
  BY DEF Range
<1>2. Push(stk) \in Seq(ShortPaths) /\ Len(Push(stk)) = 1 + Len(stk)
  BY <1>1, ConcatProperties DEF Push
<1>3. Range(Push(stk)) = Range(<<CWD>>) \cup Range(stk)
  <2> DEFINE top == <<CWD>>
             S == ShortPaths
  <2>1. top \in Seq(S) /\ stk \in Seq(S) /\ Push(stk) = top \o stk
    BY <1>1 DEF Push
  <2> HIDE DEF top, S
  <2>2. Range(top \o stk) = Range(top) \cup Range(stk)
    BY <2>1, RangeConcatenation
  <2> QED
    BY <2>1, <2>2 DEF top
<1> QED
  BY <1>1, <1>2, <1>3

LEMMA PopFacts ==
  ASSUME NEW stk \in Seq(ShortPaths), stk # <<>>
  PROVE  /\ Tail(stk) \in Seq(ShortPaths) /\ Len(Tail(stk)) = Len(stk) - 1 /\ Len(stk) \in Nat
         /\ Head(stk) \in ShortPaths
         /\ Range(stk) \subseteq {Head(stk)} \cup Range(Tail(stk))
<1>1. Tail(stk) \in Seq(ShortPaths) /\ Len(Tail(stk)) = Len(stk) - 1 /\ Len(stk) \in Nat
      /\ Head(stk) \in ShortPaths
  OBVIOUS
<1>2. ASSUME NEW i \in 1..Len(stk) PROVE stk[i] \in {Head(stk)} \cup Range(Tail(stk))
  <2>1. CASE i = 1
    BY <2>1
  <2>2. CASE i # 1
    <3>1. i - 1 \in 1..Len(Tail(stk)) /\ Tail(stk)[i - 1] = stk[i]
      BY <1>1, <2>2
    <3>2. DOMAIN Tail(stk) = 1..Len(Tail(stk))
      BY <1>1
    <3> QED
      BY <3>1, <3>2 DEF Range
  <2> QED
    BY <2>1, <2>2
<1> QED
  BY <1>1, <1>2 DEF Range

LEMMA ReadingState ==
  ASSUME getAllFiles, state \in States
  PROVE  state' \in States
  BY DEF getAllFiles, States

(* A change of directory that succeeds: to a directory, unless its path is *)
(* too long.                                                               *)
LEMMA ChangePlaces ==
  ASSUME PlaceInv, NEW p, IsDir(fs, p), change_dir(p), fs' = fs
  PROVE  /\ wd' = Gone \/ IsDir(fs', wd')
         /\ CWD' \in ShortPaths /\ state' \in States
         /\ p \in ShortPaths => CWD' = p
<1>1. p \in Seq(Names) /\ wd' = p
  BY DirFacts DEF PlaceInv, change_dir
<1>2. CASE TooLong(p)
  BY <1>1, <1>2, ExplorerAssumption DEF change_dir, PlaceInv, States, ShortPaths, TooLong
<1>3. CASE ~TooLong(p)
  <2>1. CWD' = p /\ getAllFiles
    BY <1>3 DEF change_dir
  <2>2. Len(p) \in Nat /\ CwdLimit \in Nat
    BY <1>1, ExplorerAssumption
  <2>3. p \in ShortPaths
    BY <1>1, <1>3, <2>2 DEF ShortPaths, TooLong
  <2> QED
    BY <1>1, <2>1, <2>3, ReadingState DEF PlaceInv
<1> QED
  BY <1>2, <1>3

LEMMA VisitPlaces ==
  ASSUME PlaceInv, NEW p, Visit(p)
  PROVE  /\ IsTree(fs') /\ UNCHANGED <<fs, mode, done>>
         /\ wd' = Gone \/ IsDir(fs', wd')
         /\ CWD' \in ShortPaths /\ state' \in States
         /\ p \in ShortPaths /\ IsDir(fs, p) => CWD' = p
<1>1. UNCHANGED <<fs, mode, done>> /\ IsTree(fs')
  BY DEF Visit, PlaceInv, lineVars
<1>2. CASE IsDir(fs, p)
  BY <1>1, <1>2, ChangePlaces DEF Visit
<1>3. CASE ~IsDir(fs, p)
  BY <1>1, <1>3, ReadingState DEF Visit, placeVars, PlaceInv
<1> QED
  BY <1>1, <1>2, <1>3

(* The process stays in a directory that there is. *)
LEMMA FollowFacts ==
  ASSUME PlaceInv, LineTyped, fs' = Result(keys).tree
  PROVE  Follow(keys) = Gone \/ IsDir(fs', Follow(keys))
<1> DEFINE p == pathresolver(fs, Arg(keys, 1))
           moved == Renamed(fs, Arg(keys, 1), Arg(keys, 2))
           new == Spot(fs, moved)
<1>1. CASE keys.task = "rename" /\ Result(keys).listed /\ IsPrefix(p, wd)
  <2>1. /\ CanRename(fs, p, moved)
        /\ fs' = rename_file(fs, p, moved)
        /\ Follow(keys) = Carried(p, new, wd)
    BY <1>1 DEF Result, renameexec, Follow, Untouched, Carried
  <2>2. p \in Places(fs) /\ IsTree(fs)
    BY LineArgs, ResolvedPlace DEF PlaceInv
  <2> HIDE DEF p, moved
  <2>3. Spot(fs, p) \in DOMAIN fs
    BY <2>1 DEF CanRename
  <2>4. p \in DOMAIN fs
    <3>1. Spot(fs, <<>>) = Err
      BY DEF Spot
    <3>2. Spot(fs, Err) = Err
      <4>1. Last(Err) = "ERR"
        BY DEF Err, Last
      <4> QED
        BY <4>1, SpecialNames DEF Spot
    <3>3. Err \notin DOMAIN fs
      BY <2>2, SpecialNames DEF IsTree
    <3> QED
      BY <2>2, <2>3, <3>1, <3>2, <3>3 DEF Places
  <2>5. Place(fs, p) /\ Spot(fs, p) = p /\ p \in Seq(Names) /\ p # <<>>
    BY <2>2, <2>4, TreePlaces, SpotSame DEF Place
  <2>6. wd \in DOMAIN fs /\ fs[wd].kind = "dir"
    <3>1. Len(p) \in Nat /\ Len(p) > 0
      BY <2>5
    <3>2. wd # Gone
      <4> SUFFICES ASSUME wd = Gone PROVE FALSE
        OBVIOUS
      <4>1. Len(Gone) = 1 /\ Gone[1] = "gone"
        BY DEF Gone
      <4>2. Gone \in Seq(Names \cup {"gone"}) /\ p \in Seq(Names \cup {"gone"})
        BY <2>5 DEF Gone
      <4>3. Len(p) <= 1 /\ \A i \in 1..Len(p) : p[i] = Gone[i]
        BY <1>1, <4>1, <4>2, PrefixPoints DEF p
      <4>4. p[1] = "gone" /\ p[1] \in Names
        BY <2>5, <3>1, <4>1, <4>3
      <4> QED
        BY <4>4, ExplorerAssumption
    <3>3. IsDir(fs, wd)
      BY <3>2 DEF PlaceInv
    <3>4. wd # <<>>
      <4>1. Len(p) <= Len(wd)
        BY <1>1 DEF IsPrefix, p
      <4> QED
        BY <3>1, <4>1
    <3> QED
      BY <3>3, <3>4 DEF IsDir
  <2>7. Carried(p, new, wd) \in DOMAIN fs' /\ fs'[Carried(p, new, wd)] = fs[wd]
    <3>1. new = Spot(fs, moved) /\ IsPrefix(p, wd)
      BY <1>1 DEF p, moved
    <3>2. IsPrefix(Spot(fs, p), wd)
      BY <2>5, <3>1
    <3>3. /\ Carried(Spot(fs, p), new, wd) \in DOMAIN fs'
          /\ fs'[Carried(Spot(fs, p), new, wd)] = fs[wd]
      BY <2>1, <2>2, <2>6, <3>2, RenamedFrom
    <3> QED
      BY <2>5, <3>3
  <2> QED
    BY <2>1, <2>6, <2>7 DEF IsDir
<1>2. CASE ~(keys.task = "rename" /\ Result(keys).listed /\ IsPrefix(p, wd))
  <2>1. Follow(keys) = Gone \/ (Follow(keys) = wd /\ IsDir(fs', wd))
    BY <1>2 DEF Follow
  <2> QED
    BY <2>1
<1> QED
  BY <1>1, <1>2

(* A command carried out. *)
LEMMA CommandPlaces ==
  ASSUME DirectoriesKeepTrees, PlaceInv, LineTyped, order \in Orders, FileCommand(keys)
  PROVE  /\ IsTree(fs') /\ (wd' = Gone \/ IsDir(fs', wd')) /\ state' \in States
         /\ UNCHANGED <<CWD, historyVars>>
<1>1. IsTree(fs')
  BY CommandStaysTree DEF FileCommand, PlaceInv
<1>2. wd' = Gone \/ IsDir(fs', wd')
  BY FollowFacts DEF FileCommand
<1>3. state' \in States
  <2>1. state \in States
    BY DEF PlaceInv
  <2>2. state' = "dead" \/ getAllFiles \/ UNCHANGED state
    BY DEF FileCommand
  <2> QED
    BY <2>1, <2>2, ReadingState DEF States
<1> QED
  BY <1>1, <1>2, <1>3 DEF FileCommand

(* How the histories change: p is put on one, or taken from it. *)
Pushed == /\ backstk' = Push(backstk) /\ UNCHANGED forwardstk
WentBack == /\ backstk # <<>>
            /\ forwardstk' = Push(forwardstk) /\ backstk' = Tail(backstk)
WentForward == /\ forwardstk # <<>>
               /\ backstk' = Push(backstk) /\ forwardstk' = Tail(forwardstk)

LEMMA PushedFacts ==
  ASSUME PlaceInv, Pushed
  PROVE  /\ backstk' \in Seq(ShortPaths) /\ forwardstk' \in Seq(ShortPaths)
         /\ Effort \in Int /\ done' = done => Effort' = Effort + 1
         /\ done' = done + 1 => Effort' = Effort + 3
         /\ Visited \subseteq Range(backstk') \cup Range(forwardstk')
<1>1. /\ backstk \in Seq(ShortPaths) /\ forwardstk \in Seq(ShortPaths)
      /\ CWD \in ShortPaths /\ done \in Nat
  BY DEF PlaceInv
<1>2. /\ Push(backstk) \in Seq(ShortPaths) /\ Len(Push(backstk)) = Len(backstk) + 1
      /\ Len(backstk) \in Nat /\ Range(Push(backstk)) = {CWD} \cup Range(backstk)
  BY <1>1, PushFacts
<1>3. Len(forwardstk) \in Nat
  BY <1>1
<1> QED
  BY <1>1, <1>2, <1>3 DEF Pushed, Effort, History, Visited

LEMMA WentFacts ==
  ASSUME PlaceInv, WentBack \/ WentForward
  PROVE  /\ backstk' \in Seq(ShortPaths) /\ forwardstk' \in Seq(ShortPaths)
         /\ done' = done => Effort' = Effort
<1>1. /\ backstk \in Seq(ShortPaths) /\ forwardstk \in Seq(ShortPaths)
      /\ CWD \in ShortPaths /\ done \in Nat
  BY DEF PlaceInv
<1>2. CASE WentBack
  <2>1. /\ Push(forwardstk) \in Seq(ShortPaths) /\ Len(Push(forwardstk)) = Len(forwardstk) + 1
        /\ Len(forwardstk) \in Nat
    BY <1>1, PushFacts
  <2>2. /\ Tail(backstk) \in Seq(ShortPaths) /\ Len(Tail(backstk)) = Len(backstk) - 1
        /\ Len(backstk) \in Nat
    BY <1>1, <1>2, PopFacts DEF WentBack
  <2> QED
    BY <1>1, <1>2, <2>1, <2>2 DEF WentBack, Effort, History
<1>3. CASE WentForward
  <2>1. /\ Push(backstk) \in Seq(ShortPaths) /\ Len(Push(backstk)) = Len(backstk) + 1
        /\ Len(backstk) \in Nat
    BY <1>1, PushFacts
  <2>2. /\ Tail(forwardstk) \in Seq(ShortPaths) /\ Len(Tail(forwardstk)) = Len(forwardstk) - 1
        /\ Len(forwardstk) \in Nat
    BY <1>1, <1>3, PopFacts DEF WentForward
  <2> QED
    BY <1>1, <1>3, <2>1, <2>2 DEF WentForward, Effort, History
<1> QED
  BY <1>2, <1>3

(* What a step does to the places and the histories. *)
Spends == done' = done + 1 /\ Effort + 2 <= MaxEffort

Idles == /\ UNCHANGED <<fs, placeVars, historyVars>>
         /\ UNCHANGED done \/ Spends
         /\ mode' \in Modes \cup {mode}
         /\ getAllFiles \/ state' \in {state, "quit", "dead"}

Works == FileCommand(keys) /\ Spends /\ UNCHANGED mode

Opens == UNCHANGED historyVars /\ Visit(Err)

Moves == \E p : /\ Visit(p)
                /\ \/ RoomInHistory /\ Pushed
                   \/ WentBack /\ p = pathresolver(fs, Head(backstk))
                   \/ WentForward /\ p = pathresolver(fs, Head(forwardstk))

Goes == /\ Effort + 3 <= MaxEffort /\ Pushed /\ done' = done + 1
        /\ UNCHANGED <<fs, mode>>
        /\ \E p : IsDir(fs, p) /\ change_dir(p)

LEMMA HistorySteps ==
  ASSUME Next
  PROVE  Idles \/ Works \/ Opens \/ Moves \/ Goes
<1>1. CASE cursorKey \/ colon \/ quit \/ backspace \/ exitcommandmode
  BY <1>1 DEF cursorKey, colon, quit, backspace, exitcommandmode, lineVars, Modes, Idles
<1>2. CASE \E c \in Commands \cup {Garbled} : Type(c)
  BY <1>2 DEF Type, Idles
<1>3. CASE \E rows \in Rows : resizehandler(rows)
  BY <1>3 DEF resizehandler, lineVars, Idles
<1>4. CASE goto_parent_dir \/ goHome
  BY <1>4 DEF goto_parent_dir, goHome, Moves, Pushed
<1>5. CASE goback \/ goforward
  BY <1>5 DEF goback, goforward, Moves, WentBack, WentForward
<1>6. CASE enter
  <2>1. CASE EnterDirectory
    BY <2>1 DEF EnterDirectory, Moves, Pushed
  <2>2. CASE OpenFile
    BY <2>2 DEF OpenFile, Opens
  <2>3. CASE EnterNothing
    BY <2>3 DEF EnterNothing, Moves, Pushed, Opens, Idles, lineVars
  <2> QED
    BY <1>6, <2>1, <2>2, <2>3 DEF enter
<1>7. CASE commandexec
  <2>1. CASE FileCommand(keys)
    BY <1>7, <2>1 DEF commandexec, Works, Spends
  <2>2. CASE goto(keys)
    BY <1>7, <2>2 DEF goto, commandexec, Goes, Pushed, Idles, Spends
  <2>3. CASE DiesOnTheWay(keys)
    BY <1>7, <2>3 DEF DiesOnTheWay, commandexec, Idles, Spends
  <2> QED
    BY <1>7, <2>1, <2>2, <2>3 DEF commandexec
<1> QED
  BY <1>1, <1>2, <1>3, <1>4, <1>5, <1>6, <1>7 DEF Next, normalmode, commandmode

LEMMA PlaceStep ==
  ASSUME DirectoriesKeepTrees, PlaceInv, LineTyped, order \in Orders, Next
  PROVE  PlaceInv'
<1>1. /\ CWD \in ShortPaths /\ done \in Nat /\ Effort \in Int /\ Effort <= MaxEffort
      /\ MaxEffort \in Nat /\ Effort = History + 2 * done /\ History \in Nat
  <2>1. Len(backstk) \in Nat /\ Len(forwardstk) \in Nat
    BY DEF PlaceInv
  <2> QED
    BY <2>1, ExplorerAssumption DEF PlaceInv, Effort, History
<1>2. /\ UNCHANGED historyVars => UNCHANGED <<backstk, forwardstk>> /\ History' = History
      /\ Effort' = History' + 2 * done'
  BY DEF historyVars, History, Effort
<1>3. CASE Idles
  <2>1. state' \in States
    <3>1. state \in States
      BY DEF PlaceInv
    <3> QED
      BY <1>3, <3>1, ReadingState DEF Idles, States
  <2>2. done' \in Nat /\ Effort' <= MaxEffort
    BY <1>1, <1>2, <1>3 DEF Idles, Spends
  <2> QED
    BY <1>2, <1>3, <2>1, <2>2 DEF Idles, placeVars, PlaceInv
<1>4. CASE Works
  <2>1. /\ IsTree(fs') /\ (wd' = Gone \/ IsDir(fs', wd')) /\ state' \in States
        /\ UNCHANGED <<CWD, historyVars>>
    BY <1>4, CommandPlaces DEF Works
  <2>2. done' \in Nat /\ Effort' <= MaxEffort
    BY <1>1, <1>2, <1>4, <2>1 DEF Works, Spends
  <2> QED
    BY <1>2, <1>4, <2>1, <2>2 DEF Works, PlaceInv
<1>5. CASE Opens
  <2>1. /\ IsTree(fs') /\ UNCHANGED <<fs, mode, done>>
        /\ wd' = Gone \/ IsDir(fs', wd')
        /\ CWD' \in ShortPaths /\ state' \in States
    BY <1>5, VisitPlaces DEF Opens
  <2>2. UNCHANGED historyVars
    BY <1>5 DEF Opens
  <2> QED
    BY <1>1, <1>2, <2>1, <2>2 DEF PlaceInv
<1>6. CASE Moves
  <2>1. PICK p : /\ Visit(p)
                 /\ (RoomInHistory /\ Pushed) \/ WentBack \/ WentForward
    BY <1>6 DEF Moves
  <2>2. /\ IsTree(fs') /\ UNCHANGED <<fs, mode, done>>
        /\ wd' = Gone \/ IsDir(fs', wd')
        /\ CWD' \in ShortPaths /\ state' \in States
    BY <2>1, VisitPlaces
  <2>3. /\ backstk' \in Seq(ShortPaths) /\ forwardstk' \in Seq(ShortPaths)
        /\ Effort' <= MaxEffort
    <3>1. CASE RoomInHistory /\ Pushed
      BY <1>1, <2>2, <3>1, PushedFacts DEF RoomInHistory
    <3>2. CASE WentBack \/ WentForward
      BY <1>1, <2>2, <3>2, WentFacts
    <3> QED
      BY <2>1, <3>1, <3>2
  <2> QED
    BY <2>2, <2>3 DEF PlaceInv
<1>7. CASE Goes
  <2>1. PICK p : IsDir(fs, p) /\ change_dir(p)
    BY <1>7 DEF Goes
  <2>2. /\ wd' = Gone \/ IsDir(fs', wd')
        /\ CWD' \in ShortPaths /\ state' \in States
    BY <1>7, <2>1, ChangePlaces DEF Goes
  <2>3. /\ backstk' \in Seq(ShortPaths) /\ forwardstk' \in Seq(ShortPaths)
        /\ Effort' <= MaxEffort /\ done' \in Nat
    BY <1>1, <1>7, PushedFacts DEF Goes
  <2> QED
    BY <1>7, <2>2, <2>3 DEF Goes, PlaceInv
<1> QED
  BY <1>3, <1>4, <1>5, <1>6, <1>7, HistorySteps

LEMMA PlaceInit == Init => PlaceInv
<1> SUFFICES ASSUME Init PROVE PlaceInv
  OBVIOUS
<1>1. IsTree(fs) /\ IsDir(fs, Start) /\ Len(Start) <= CwdLimit /\ CwdLimit \in Nat
      /\ MaxEffort \in Nat
  BY ExplorerAssumption DEF Init
<1>2. Start \in Seq(Names)
  BY <1>1, DirFacts
<1>3. Effort = 0
  BY DEF Init, Effort, History
<1> QED
  BY <1>1, <1>2, <1>3 DEF Init, PlaceInv, ShortPaths, Modes, States

LEMMA PlaceStays ==
  ASSUME DirectoriesKeepTrees, ExplorerInv, PlaceInv, [Next]_vars
  PROVE  PlaceInv'
<1>1. CASE Next
  BY <1>1, PlaceStep DEF ExplorerInv
<1>2. CASE UNCHANGED vars
  BY <1>2 DEF vars, placeVars, historyVars, lineVars, PlaceInv, Effort, History
<1> QED
  BY <1>1, <1>2

(* Whatever is typed, the file system stays a tree, the process in a       *)
(* directory of it unless that is deleted, and the path it has in mind one *)
(* it has room for.                                                        *)
THEOREM ExplorerTyped ==
  ASSUME DirectoriesRecur
  PROVE  Spec => []TypeOK
<1>1. Init => PlaceInv
  BY PlaceInit
<1>2. ExplorerInv /\ PlaceInv /\ [Next]_vars => PlaceInv'
  BY RecursionKeepsTrees, PlaceStays
<1>3. ExplorerInv /\ PlaceInv => TypeOK
  BY DEF ExplorerInv, PagerInv, PlaceInv, TypeOK, LineTyped, ShortPaths, Modes, States
<1> QED
  BY <1>1, <1>2, <1>3, ExplorerInvariant, PTL DEF Spec

LEMMA NothingForgotten ==
  ASSUME PlaceInv, Next
  PROVE  \A p \in Visited \ Visited' : ~IsDir(fs, p)
<1>1. /\ backstk \in Seq(ShortPaths) /\ forwardstk \in Seq(ShortPaths)
      /\ CWD \in ShortPaths /\ IsTree(fs)
  BY DEF PlaceInv
<1>2. CASE UNCHANGED <<CWD, historyVars>>
  BY <1>2 DEF Visited, historyVars
<1>3. CASE Pushed
  BY <1>3, PushedFacts DEF Visited
<1>4. CASE WentBack /\ Visit(pathresolver(fs, Head(backstk)))
  <2> DEFINE h == Head(backstk)
  <2>1. h \in ShortPaths /\ Range(backstk) \subseteq {h} \cup Range(backstk')
    BY <1>1, <1>4, PopFacts DEF WentBack
  <2>2. Range(forwardstk') = {CWD} \cup Range(forwardstk)
    BY <1>1, <1>4, PushFacts DEF WentBack
  <2>3. IsDir(fs, h) => CWD' = h
    BY <1>1, <1>4, <2>1, DirResolves, VisitPlaces
  <2> HIDE DEF h
  <2> QED
    BY <2>1, <2>2, <2>3 DEF Visited
<1>5. CASE WentForward /\ Visit(pathresolver(fs, Head(forwardstk)))
  <2> DEFINE h == Head(forwardstk)
  <2>1. h \in ShortPaths /\ Range(forwardstk) \subseteq {h} \cup Range(forwardstk')
    BY <1>1, <1>5, PopFacts DEF WentForward
  <2>2. Range(backstk') = {CWD} \cup Range(backstk)
    BY <1>1, <1>5, PushFacts DEF WentForward
  <2>3. IsDir(fs, h) => CWD' = h
    BY <1>1, <1>5, <2>1, DirResolves, VisitPlaces
  <2> HIDE DEF h
  <2> QED
    BY <2>1, <2>2, <2>3 DEF Visited
<1>6. CASE Opens
  <2>1. Err \notin DOMAIN fs /\ Err # <<>>
    BY <1>1, SpecialNames DEF IsTree
  <2>2. ~IsDir(fs, Err)
    BY <2>1 DEF IsDir
  <2> QED
    BY <1>2, <1>6, <2>2 DEF Opens, Visit, placeVars
<1>7. Idles \/ Works \/ Opens \/ Moves \/ Goes
  BY HistorySteps
<1> QED
  BY <1>2, <1>3, <1>4, <1>5, <1>6, <1>7 DEF Idles, placeVars, Works, FileCommand, Moves, Goes

(* Whatever the tree, the keys and the commands: no way of going on, back  *)
(* or forward drops from the histories a directory that still exists.      *)
THEOREM HistoriesForgetNothing ==
  ASSUME DirectoriesRecur
  PROVE  Spec => HistoryForgetsNothing
<1>1. Init => PlaceInv
  BY PlaceInit
<1>2. ExplorerInv /\ PlaceInv /\ [Next]_vars => PlaceInv'
  BY RecursionKeepsTrees, PlaceStays
<1>3. PlaceInv /\ [Next]_vars => [\A p \in Visited \ Visited' : ~IsDir(fs, p)]_vars
  BY NothingForgotten
<1> QED
  BY <1>1, <1>2, <1>3, ExplorerInvariant, PTL DEF Spec, HistoryForgetsNothing

-----------------------------------------------------------------------------
(* Searching, if it is at every level what DirectoryLevels says. *)
SearchRecurs ==
  \A t, s, key : \A open \in 0..MaxOpen :
    SearchExec(t, s, key, open) <=> search_level(t, s, key, open)

(* A name that follows a path leads on from where the path leads. *)
LEMMA LeadsOn ==
  ASSUME NEW t, NEW s \in Seq(PathNames), NEW n \in PathNames
  PROVE  pathresolver(t, Append(s, n)) = Onto(t, LinkEnds(t), n, pathresolver(t, s))
<1> DEFINE l == Len(s)
           r == Append(s, n)
<1>1. l \in Nat /\ r \in Seq(PathNames) /\ Len(r) = l + 1 /\ r[l + 1] = n
      /\ \A i \in 1..l : r[i] = s[i]
  OBVIOUS
<1>2. PICK g : /\ pathresolver(t, r) = g[Len(r)]
               /\ g[0] = <<>>
               /\ \A i \in 1..Len(r) : g[i] = Onto(t, LinkEnds(t), r[i], g[i - 1])
  <2> HIDE DEF r
  <2>1. r \in Seq(PathNames)
    BY <1>1
  <2> QED BY <2>1, PathSteps DEF pathresolver
<1>3. PICK h : /\ pathresolver(t, s) = h[Len(s)]
               /\ h[0] = <<>>
               /\ \A i \in 1..Len(s) : h[i] = Onto(t, LinkEnds(t), s[i], h[i - 1])
  BY PathSteps DEF pathresolver
<1> HIDE DEF l, r
<1>4. l = Len(s)
  BY DEF l
<1> DEFINE Q == {i \in 0..l : g[i] = h[i]}
<1>5. 0 \in Q
  BY <1>1, <1>2, <1>3
<1>6. ASSUME NEW i \in 1..l, i - 1 \in Q PROVE i \in Q
  <2>1. i \in 0..l /\ i \in 1..Len(r) /\ g[i - 1] = h[i - 1] /\ r[i] = s[i]
    BY <1>1, <1>6
  <2> QED
    BY <1>2, <1>3, <1>4, <2>1
<1>7. l \in Q
  <2> HIDE DEF Q
  <2> QED BY <1>1, <1>5, <1>6, Following!StepByStep
<1>8. g[l + 1] = Onto(t, LinkEnds(t), n, g[l])
  <2>1. l + 1 \in 1..Len(r) /\ (l + 1) - 1 = l
    BY <1>1
  <2> QED
    BY <1>1, <1>2, <2>1
<1> QED
  BY <1>1, <1>2, <1>3, <1>7, <1>8, <1>4 DEF r

(* What is in a directory and no link is where its name leads. *)
LEMMA EntryResolves ==
  ASSUME NEW t, IsTree(t), NEW s \in Seq(Names), NEW n \in Names,
         IsDir(t, pathresolver(t, s)),
         Append(pathresolver(t, s), n) \in DOMAIN t \ Links(t)
  PROVE  /\ Append(s, n) \in Seq(Names)
         /\ pathresolver(t, Append(s, n)) = Append(pathresolver(t, s), n)
<1>1. s \in Seq(PathNames) /\ n \in PathNames /\ n # "." /\ n # ".."
  BY SpecialNames DEF PathNames
<1>2. pathresolver(t, Append(s, n)) = Onto(t, LinkEnds(t), n, pathresolver(t, s))
  BY <1>1, LeadsOn
<1> QED
  BY <1>1, <1>2 DEF Onto

-----------------------------------------------------------------------------
(* What is below an entry of a directory is below the directory. *)
LEMMA BelowEntry ==
  ASSUME NEW S, NEW d \in Seq(S), NEW n \in S, NEW q \in Seq(S),
         IsPrefix(Append(d, n), q)
  PROVE  IsPrefix(d, q) /\ q # d /\ Len(q) >= Len(d) + 1
<1> DEFINE e == Append(d, n)
<1>1. e \in Seq(S) /\ Len(e) = Len(d) + 1 /\ Len(d) \in Nat /\ \A i \in 1..Len(d) : e[i] = d[i]
  OBVIOUS
<1> HIDE DEF e
<1>2. Len(e) <= Len(q) /\ \A i \in 1..Len(e) : e[i] = q[i]
  BY <1>1, PrefixPoints DEF e
<1>3. Len(d) <= Len(q) /\ \A i \in 1..Len(d) : d[i] = q[i]
  BY <1>1, <1>2
<1> QED
  BY <1>1, <1>2, <1>3, PrefixPoints

(* What is below a directory is below one of its entries. *)
LEMMA EntryAbove ==
  ASSUME NEW S, NEW d \in Seq(S), NEW q \in Seq(S), IsPrefix(d, q), q # d
  PROVE  \E n \in S : IsPrefix(Append(d, n), q) /\ (q = Append(d, n) => Last(q) = n)
<1>1. Len(d) \in Nat /\ Len(q) \in Nat /\ Len(d) <= Len(q) /\ \A i \in 1..Len(d) : d[i] = q[i]
  BY PrefixPoints
<1>2. Len(d) # Len(q)
  BY <1>1, SeqEqual
<1> DEFINE n == q[Len(d) + 1]
           e == Append(d, n)
<1>3. n \in S /\ Len(d) + 1 \in 1..Len(q)
  BY <1>1, <1>2
<1>4. e \in Seq(S) /\ Len(e) = Len(d) + 1 /\ e[Len(d) + 1] = n /\ \A i \in 1..Len(d) : e[i] = d[i]
  BY <1>3
<1>5. \A i \in 1..Len(e) : e[i] = q[i]
  <2> HIDE DEF e
  <2> QED BY <1>1, <1>4
<1>6. IsPrefix(e, q)
  <2> HIDE DEF e, n
  <2> QED BY <1>1, <1>3, <1>4, <1>5, PrefixPoints
<1>7. q = e => Last(q) = n
  <2>1. Last(e) = n
    <3> HIDE DEF n
    <3> QED BY <1>3, FrontAppend
  <2> QED
    BY <2>1
<1> QED
  BY <1>3, <1>6, <1>7

(* In a tree that entry exists, and is a directory if more is below it. *)
LEMMA EntryExists ==
  ASSUME NEW t, IsTree(t), NEW e \in Seq(Names), e # <<>>, NEW q \in DOMAIN t, IsPrefix(e, q)
  PROVE  e \in DOMAIN t /\ (q # e => IsDir(t, e))
<1>1. q \in Seq(Names) /\ q # <<>> /\ IsDir(t, Front(q))
  BY DEF IsTree
<1>2. CASE q = e
  BY <1>2
<1>3. CASE q # e
  <2> DEFINE f == Front(q)
  <2>1. f \in Seq(Names) /\ IsDir(t, f)
    BY <1>1, FrontLast
  <2>2. IsPrefix(e, f)
    BY <1>1, <1>3, PrefixFacts
  <2> HIDE DEF f
  <2>3. Len(e) \in 0..Len(f)
    BY <2>1, <2>2, PrefixFacts
  <2>4. e = SubSeq(f, 1, Len(e))
    BY <2>2, PrefixEnds DEF IsPrefix
  <2>5. IsDir(t, e)
    BY <2>1, <2>3, <2>4, Ancestors
  <2> QED
    BY <2>5 DEF IsDir
<1> QED
  BY <1>2, <1>3

-----------------------------------------------------------------------------
(* What search is to find: a name below a directory, but not its own. *)
Found(t, d, key) == \E q \in Below(t, d) : q # d /\ Last(q) = key

(* No links below d, and nothing deeper than directories can be opened. *)
Shallow(t, d, open) ==
  \A q \in Below(t, d) : q \notin Links(t) /\ Len(q) - Len(d) <= MaxOpen - open

Finds(open) ==
  \A t, s, key : /\ IsTree(t) /\ s \in Seq(Names) /\ key \in Names
                 /\ IsDir(t, pathresolver(t, s))
                 /\ Shallow(t, pathresolver(t, s), open)
                 => (SearchExec(t, s, key, open) <=> Found(t, pathresolver(t, s), key))

(* One level of it: the entries that have the name, and what is found in   *)
(* those that are directories.                                             *)
LEMMA LevelFinds ==
  ASSUME SearchRecurs, NEW open \in 0..MaxOpen, open < MaxOpen => Finds(open + 1)
  PROVE  Finds(open)
<1> SUFFICES ASSUME NEW t, IsTree(t), NEW s \in Seq(Names), NEW key \in Names,
                    IsDir(t, pathresolver(t, s)),
                    Shallow(t, pathresolver(t, s), open)
             PROVE  SearchExec(t, s, key, open) <=> Found(t, pathresolver(t, s), key)
  BY DEF Finds
<1> DEFINE d == pathresolver(t, s)
<1>1. d \in Seq(Names) /\ Len(d) \in Nat
  BY DirFacts
<1>2. MaxOpen \in Nat
  BY FileTreeAssumption
<1>3. \A q \in DOMAIN t : q \in Seq(Names) /\ Len(q) \in Nat
  BY DEF IsTree
<1>4. SearchExec(t, s, key, open) <=>
        /\ open < MaxOpen
        /\ \E n \in Names : /\ Append(d, n) \in DOMAIN t
                            /\ \/ n = key
                               \/ /\ SearchesIn(t, s, n)
                                  /\ SearchExec(t, Append(s, n), key, open + 1)
  BY DEF SearchRecurs, search_level, checkDir, InListing
<1>5. IsDir(t, d) /\ Shallow(t, d, open)
  OBVIOUS
<1>6. ASSUME NEW n \in Names, Append(d, n) \in DOMAIN t
      PROVE  /\ Append(d, n) \in Seq(Names) /\ Last(Append(d, n)) = n
             /\ Append(d, n) # d /\ Append(d, n) # <<>>
             /\ Append(d, n) \in Below(t, d) /\ Append(d, n) \notin Links(t)
             /\ open < MaxOpen
             /\ Append(s, n) \in Seq(Names) /\ pathresolver(t, Append(s, n)) = Append(d, n)
  <2> DEFINE e == Append(d, n)
  <2>1. e \in Seq(Names) /\ Last(e) = n /\ Len(e) = Len(d) + 1 /\ e # <<>> /\ e # d
    <3> HIDE DEF d
    <3>1. Last(e) = n /\ Len(e) = Len(d) + 1 /\ e # <<>>
      BY <1>1, FrontAppend
    <3> QED BY <1>1, <3>1
  <2>2. IsPrefix(d, e)
    <3> HIDE DEF d
    <3>1. IsPrefix(e, e)
      <4> HIDE DEF e
      <4> QED BY <2>1, PrefixFacts
    <3> QED BY <1>1, <2>1, <3>1, BelowEntry
  <2>3. e \in Below(t, d)
    <3> HIDE DEF d
    <3> QED BY <1>6, <2>2 DEF Below
  <2>4. e \notin Links(t) /\ Len(e) - Len(d) <= MaxOpen - open
    <3> HIDE DEF d, e
    <3> QED BY <1>5, <2>3 DEF Shallow
  <2>5. open < MaxOpen
    <3> HIDE DEF d, e
    <3> QED BY <1>1, <1>2, <2>1, <2>4
  <2>6. Append(s, n) \in Seq(Names) /\ pathresolver(t, Append(s, n)) = e
    BY <1>6, <2>4, EntryResolves
  <2> QED
    BY <2>1, <2>3, <2>4, <2>5, <2>6
<1> HIDE DEF d
(* below an entry that is a directory, the level below finds the name *)
<1>7. ASSUME NEW n \in Names, Append(d, n) \in DOMAIN t, IsDir(t, Append(d, n))
      PROVE  SearchExec(t, Append(s, n), key, open + 1) <=> Found(t, Append(d, n), key)
  <2> DEFINE e == Append(d, n)
             r == Append(s, n)
  <2>1. /\ e \in Seq(Names) /\ open < MaxOpen /\ Len(e) = Len(d) + 1
        /\ r \in Seq(Names) /\ pathresolver(t, r) = e
    BY <1>1, <1>7, <1>6, FrontAppend
  <2>2. ASSUME NEW q \in Below(t, e)
        PROVE  q \notin Links(t) /\ Len(q) - Len(e) <= MaxOpen - (open + 1)
    <3>1. q \in DOMAIN t /\ IsPrefix(e, q)
      BY <2>2 DEF Below
    <3>2. q \in Seq(Names) /\ Len(q) \in Nat
      BY <1>3, <3>1
    <3>3. IsPrefix(d, q)
      BY <1>1, <3>1, <3>2, BelowEntry
    <3>4. q \notin Links(t) /\ Len(q) - Len(d) <= MaxOpen - open
      BY <1>5, <3>1, <3>3 DEF Shallow, Below
    <3> HIDE DEF e
    <3> QED
      BY <1>1, <1>2, <2>1, <3>2, <3>4
  <2>3. Shallow(t, e, open + 1)
    BY <2>2 DEF Shallow
  <2>4. Finds(open + 1)
    BY <2>1
  <2>5. IsDir(t, e)
    BY <1>7
  <2> HIDE DEF e, r
  <2>6. SearchExec(t, r, key, open + 1) <=> Found(t, e, key)
    BY <2>1, <2>3, <2>4, <2>5 DEF Finds
  <2> QED
    BY <2>6 DEF e, r
(* and only then it is asked *)
<1>8. ASSUME NEW n \in Names, Append(d, n) \in DOMAIN t
      PROVE  SearchesIn(t, s, n) <=> IsDir(t, Append(d, n))
  BY <1>6, <1>8 DEF SearchesIn, checkDir
<1>9. ASSUME SearchExec(t, s, key, open) PROVE Found(t, d, key)
  <2>1. PICK n \in Names : /\ Append(d, n) \in DOMAIN t
                           /\ \/ n = key
                              \/ /\ SearchesIn(t, s, n)
                                 /\ SearchExec(t, Append(s, n), key, open + 1)
    BY <1>4, <1>9
  <2> DEFINE e == Append(d, n)
  <2>2. e \in Below(t, d) /\ e # d /\ Last(e) = n
    BY <1>6, <2>1
  <2>3. CASE n = key
    <3> HIDE DEF e
    <3> QED BY <2>2, <2>3 DEF Found
  <2>4. CASE n # key
    <3>1. Found(t, e, key)
      BY <1>7, <1>8, <2>1, <2>4
    <3>2. PICK q \in Below(t, e) : q # e /\ Last(q) = key
      BY <3>1 DEF Found
    <3>3. q \in DOMAIN t /\ IsPrefix(e, q)
      BY <3>2 DEF Below
    <3>4. IsPrefix(d, q) /\ q # d
      BY <1>1, <1>3, <3>3, BelowEntry
    <3> QED
      BY <3>2, <3>3, <3>4 DEF Found, Below
  <2> QED
    BY <2>3, <2>4
<1>10. ASSUME Found(t, d, key) PROVE SearchExec(t, s, key, open)
  <2>1. PICK q \in Below(t, d) : q # d /\ Last(q) = key
    BY <1>10 DEF Found
  <2>2. q \in DOMAIN t /\ IsPrefix(d, q) /\ q \in Seq(Names)
    BY <1>3, <2>1 DEF Below
  <2>3. PICK n \in Names : IsPrefix(Append(d, n), q) /\ (q = Append(d, n) => Last(q) = n)
    BY <1>1, <2>1, <2>2, EntryAbove
  <2> DEFINE e == Append(d, n)
  <2>4. e \in Seq(Names) /\ e # <<>>
    BY <1>1, FrontAppend
  <2>5. e \in DOMAIN t /\ (q # e => IsDir(t, e))
    <3> HIDE DEF e
    <3>1. IsPrefix(e, q)
      BY <2>3 DEF e
    <3> QED BY <2>2, <2>4, <3>1, EntryExists
  <2>6. open < MaxOpen
    BY <1>6, <2>5
  <2>7. CASE q = e
    <3>1. n = key
      BY <2>1, <2>3, <2>7
    <3> QED
      BY <1>4, <2>5, <2>6, <3>1
  <2>8. CASE q # e
    <3>1. q \in Below(t, e)
      BY <2>2, <2>3 DEF Below
    <3>2. Found(t, e, key)
      <4> HIDE DEF e
      <4> QED BY <2>1, <2>8, <3>1 DEF Found
    <3>3. SearchExec(t, Append(s, n), key, open + 1)
      BY <1>7, <2>5, <2>8, <3>2
    <3> QED
      BY <1>4, <1>8, <2>5, <2>6, <2>8, <3>3
  <2> QED
    BY <2>7, <2>8
<1> QED
  BY <1>9, <1>10 DEF d

LEMMA SearchFinds ==
  ASSUME SearchRecurs
  PROVE  Finds(0)
<1> DEFINE Q == {k \in 0..MaxOpen : Finds(MaxOpen - k)}
<1>1. MaxOpen \in Nat /\ MaxOpen - MaxOpen = 0 /\ MaxOpen - 0 = MaxOpen
  BY FileTreeAssumption
<1>2. ASSUME NEW open \in 0..MaxOpen, open < MaxOpen => Finds(open + 1)
      PROVE  Finds(open)
  BY <1>2, LevelFinds
<1>3. 0 \in Q
  <2>1. Finds(MaxOpen)
    BY <1>1, <1>2
  <2> QED
    BY <1>1, <2>1
<1>4. ASSUME NEW i \in 1..MaxOpen, i - 1 \in Q PROVE i \in Q
  <2>1. MaxOpen - i \in 0..MaxOpen /\ MaxOpen - (i - 1) = (MaxOpen - i) + 1
    BY <1>1
  <2>2. Finds((MaxOpen - i) + 1)
    BY <1>4, <2>1
  <2> QED
    BY <1>1, <1>2, <2>1, <2>2
<1>5. MaxOpen \in Q
  <2> HIDE DEF Q
  <2> QED BY <1>1, <1>3, <1>4, CopyingEach!StepByStep
<1> QED
  BY <1>1, <1>5

(* Whatever the tree, in the directory that CWD leads to search finds a    *)
(* name exactly if it is somewhere below, links and depth apart: no level  *)
(* it enters or leaves, and no order of reading, makes it miss one.        *)
THEOREM SearchExact ==
  ASSUME DirectoriesRecur, SearchRecurs
  PROVE  Spec => []SearchIsExact
<1>1. Init => PlaceInv
  BY PlaceInit
<1>2. ExplorerInv /\ PlaceInv /\ [Next]_vars => PlaceInv'
  BY RecursionKeepsTrees, PlaceStays
<1>3. PlaceInv => SearchIsExact
  <2> DEFINE here == pathresolver(fs, CWD)
  <2> SUFFICES ASSUME PlaceInv, IsDir(fs, here), Plain(fs, here), NEW key \in Names
               PROVE  SearchExec(fs, CWD, key, 0) <=>
                        \E q \in Below(fs, here) : q # here /\ Last(q) = key
    BY DEF SearchIsExact
  <2>1. IsTree(fs) /\ CWD \in Seq(Names)
    BY DEF PlaceInv, ShortPaths
  <2>2. Shallow(fs, here, 0)
    <3> HIDE DEF here
    <3> QED BY FileTreeAssumption DEF Shallow, Plain, Links
  <2>3. Finds(0)
    BY SearchFinds
  <2>4. SearchExec(fs, CWD, key, 0) <=> Found(fs, here, key)
    BY <2>1, <2>2, <2>3 DEF Finds
  <2> QED
    BY <2>4 DEF Found
<1> QED
  BY <1>1, <1>2, <1>3, ExplorerInvariant, PTL DEF Spec

-----------------------------------------------------------------------------
(* u is what is left of t. *)
Part(u, t) == DOMAIN u \subseteq DOMAIN t /\ \A p \in DOMAIN u : u[p] = t[p]

LEMMA PartFacts ==
  ASSUME NEW t, NEW u, Part(u, t)
  PROVE  /\ \A p : IsDir(u, p) => IsDir(t, p)
         /\ \A p \in DOMAIN u : p \in Links(u) <=> p \in Links(t)
         /\ Links(u) \subseteq Links(t)
  BY DEF Part, IsDir, Links

LEMMA PartOfPart ==
  ASSUME NEW t, NEW u, NEW v, Part(u, t), Part(v, u)
  PROVE  Part(v, t)
  BY DEF Part

(* What leads somewhere in what is left leads to the same as before. *)
Lead(a, b) == a = Err \/ a = b

LEMMA OntoLeads ==
  ASSUME NEW t, NEW u, Part(u, t), IsTree(u), NEW eu, NEW et,
         \A l \in Links(u) : Lead(eu[l], et[l]),
         NEW n, NEW au, NEW at, Lead(au, at)
  PROVE  Lead(Onto(u, eu, n, au), Onto(t, et, n, at))
<1>1. ~IsDir(u, Err)
  BY SpecialNames DEF IsTree, IsDir
<1>2. CASE au = Err
  BY <1>1, <1>2 DEF Onto, Lead
<1>3. CASE au = at
  <2>1. IsDir(u, au) => IsDir(t, at)
    BY <1>3, PartFacts
  <2>2. Append(au, n) \in DOMAIN u =>
          /\ Append(au, n) \in DOMAIN t
          /\ Append(au, n) \in Links(u) <=> Append(au, n) \in Links(t)
    BY PartFacts DEF Part
  <2> QED
    BY <1>3, <2>1, <2>2 DEF Onto, Lead
<1> QED
  BY <1>2, <1>3 DEF Lead

LEMMA AlongLeads ==
  ASSUME NEW t, NEW u, Part(u, t), IsTree(u), NEW eu, NEW et,
         \A l \in Links(u) : Lead(eu[l], et[l]), NEW p \in Seq(PathNames)
  PROVE  Lead(Along(u, eu, p), Along(t, et, p))
<1>1. PICK g : /\ Along(u, eu, p) = g[Len(p)]
               /\ g[0] = <<>>
               /\ \A i \in 1..Len(p) : g[i] = Onto(u, eu, p[i], g[i - 1])
  BY PathSteps
<1>2. PICK h : /\ Along(t, et, p) = h[Len(p)]
               /\ h[0] = <<>>
               /\ \A i \in 1..Len(p) : h[i] = Onto(t, et, p[i], h[i - 1])
  BY PathSteps
<1> DEFINE l == Len(p)
           Q == {i \in 0..l : Lead(g[i], h[i])}
<1>3. l \in Nat /\ 0 \in Q
  BY <1>1, <1>2 DEF Lead
<1>4. ASSUME NEW i \in 1..l, i - 1 \in Q PROVE i \in Q
  <2>1. i \in 0..l /\ Lead(g[i - 1], h[i - 1])
    BY <1>3, <1>4
  <2>2. g[i] = Onto(u, eu, p[i], g[i - 1]) /\ h[i] = Onto(t, et, p[i], h[i - 1])
    BY <1>1, <1>2
  <2>3. Lead(g[i], h[i])
    BY <2>1, <2>2, OntoLeads
  <2> QED
    BY <2>1, <2>3
<1>5. l \in Q
  <2> HIDE DEF l, Q
  <2> QED BY <1>3, <1>4, Following!StepByStep
<1> QED
  BY <1>1, <1>2, <1>5

LEMMA EndsLead ==
  ASSUME NEW t, NEW u, Part(u, t), IsTree(u)
  PROVE  \A l \in Links(u) : Lead(LinkEnds(u)[l], LinkEnds(t)[l])
<1> DEFINE Leads(e, f) == \A l \in Links(u) : Lead(e[l], f[l])
<1>1. PICK e : /\ LinkEnds(u) = e[MaxLinks]
               /\ \A l \in Links(u) : e[0][l] = Err
               /\ \A i \in 1..MaxLinks : e[i] = Further(u, e[i - 1])
  BY EndsSteps
<1>2. PICK f : /\ LinkEnds(t) = f[MaxLinks]
               /\ \A l \in Links(t) : f[0][l] = Err
               /\ \A i \in 1..MaxLinks : f[i] = Further(t, f[i - 1])
  BY EndsSteps
<1>3. ASSUME NEW a, NEW b, Leads(a, b) PROVE Leads(Further(u, a), Further(t, b))
  <2> SUFFICES ASSUME NEW l \in Links(u) PROVE Lead(Further(u, a)[l], Further(t, b)[l])
    OBVIOUS
  <2>1. l \in Links(t) /\ u[l].data = t[l].data /\ u[l].data \in Seq(PathNames)
    BY PartFacts, LinkData DEF Part, Links
  <2>2. Lead(Along(u, a, u[l].data), Along(t, b, t[l].data))
    BY <1>3, <2>1, AlongLeads
  <2> QED
    BY <2>1, <2>2 DEF Further
<1> DEFINE Q == {i \in 0..MaxLinks : Leads(e[i], f[i])}
<1>4. MaxLinks \in Nat /\ 0 \in Q
  BY <1>1, <1>2 DEF MaxLinks, Lead
<1>5. ASSUME NEW i \in 1..MaxLinks, i - 1 \in Q PROVE i \in Q
  <2>1. i \in 0..MaxLinks /\ Leads(e[i - 1], f[i - 1])
    BY <1>4, <1>5
  <2>2. e[i] = Further(u, e[i - 1]) /\ f[i] = Further(t, f[i - 1])
    BY <1>1, <1>2
  <2> HIDE DEF Leads
  <2> QED
    BY <1>3, <2>1, <2>2
<1>6. MaxLinks \in Q
  <2> HIDE DEF Q
  <2> QED BY <1>4, <1>5, Nesting!StepByStep
<1> QED
  BY <1>1, <1>2, <1>6

LEMMA PartLeads ==
  ASSUME NEW t, NEW u, Part(u, t), IsTree(u), NEW p \in Seq(PathNames)
  PROVE  Lead(pathresolver(u, p), pathresolver(t, p))
  BY EndsLead, AlongLeads DEF pathresolver

(* What is in a directory is nowhere else in what is left. *)
LEMMA PartSpot ==
  ASSUME NEW t, IsTree(t), NEW u, Part(u, t), IsTree(u),
         NEW p \in DOMAIN t
  PROVE  Lead(Spot(u, p), p)
<1>1. p \in Seq(Names) /\ p # <<>> /\ IsDir(t, Front(p))
  BY DEF IsTree
<1>2. Front(p) \in Seq(Names) /\ Append(Front(p), Last(p)) = p
  BY <1>1, FrontLast
<1>3. Front(p) \in Seq(PathNames)
  BY <1>2, SpecialNames
<1>4. Lead(pathresolver(u, Front(p)), Front(p))
  BY <1>1, <1>3, PartLeads, DirResolves
<1>5. ~IsDir(u, Err)
  BY SpecialNames DEF IsTree, IsDir
<1> QED
  BY <1>2, <1>4, <1>5 DEF Spot, checkDir, Lead

-----------------------------------------------------------------------------
(* u is left of t, and what is gone was among paths. *)
LessOnly(u, t, paths) == Part(u, t) /\ DOMAIN t \ DOMAIN u \subseteq paths

LEMMA LessAgain ==
  ASSUME NEW t, NEW u, NEW v, NEW paths, LessOnly(u, t, paths), LessOnly(v, u, paths)
  PROVE  LessOnly(v, t, paths)
  BY PartOfPart DEF LessOnly

LEMMA LessItself ==
  ASSUME NEW t, NEW paths
  PROVE  LessOnly(t, t, paths)
  BY DEF LessOnly, Part

LEMMA WithoutLess ==
  ASSUME NEW t, NEW paths, NEW gone, gone \subseteq paths
  PROVE  LessOnly(Without(t, gone), t, paths)
  BY DEF LessOnly, Part, Without

LEMMA RmdirLess ==
  ASSUME NEW t, IsTree(t), NEW u, Part(u, t), IsTree(u), NEW paths,
         NEW p, p \in DOMAIN t => p \in paths, p = <<>> \/ p \in DOMAIN t
  PROVE  LessOnly(rmdir(u, p), u, paths)
<1>1. Lead(Spot(u, p), p)
  BY PartSpot DEF Spot, Lead
<1>2. ~IsDir(u, Err)
  BY SpecialNames DEF IsTree, IsDir
<1>3. CASE p \in DOMAIN t
  <2>1. Spot(u, p) = Err \/ {Spot(u, p)} \subseteq paths
    BY <1>1, <1>3 DEF Lead
  <2> QED
    BY <1>2, <2>1, WithoutLess, LessItself DEF rmdir
<1>4. CASE p = <<>>
  BY <1>2, <1>4, LessItself DEF rmdir, Spot
<1> QED
  BY <1>3, <1>4

-----------------------------------------------------------------------------
(* Paths that hold what is below what their links lead to. *)
Closed(t, paths) == \A l \in paths \cap Links(t) : Below(t, pathresolver(t, l)) \subseteq paths

(* What is deleted of what is left of w is among those paths. *)
DeletesOnly(open) ==
  \A w, paths, t, s, names :
    /\ IsTree(w) /\ Closed(w, paths) /\ IsTree(t) /\ Part(t, w)
    /\ s \in Seq(PathNames) /\ names \in Orders
    /\ Below(w, pathresolver(t, s)) \subseteq paths
    => LessOnly(RemoveDir(t, s, names, open), t, paths)

LEMMA EntryLess ==
  ASSUME NEW open, DeletesOnly(open + 1),
         NEW w, IsTree(w), NEW paths, Closed(w, paths),
         NEW t, IsTree(t), Part(t, w), NEW p, IsDir(t, p), Below(w, p) \subseteq paths,
         NEW names \in Orders, NEW name \in Names \cup {".", ".."},
         NEW u, IsTree(u), LessOnly(u, t, paths),
         \A q \in Seq(PathNames) : IsTree(RemoveDir(u, q, names, open + 1)),
         NEW on, on.tree = t, on.source = p, on.order = names, on.open = open
  PROVE  LessOnly(RemoveEntry(on, name, u), u, paths)
<1> DEFINE q == Append(p, name)
<1>1. pathresolver(t, p) = p /\ p \in Seq(Names)
  BY DirResolves, DirFacts
<1>2. CASE q \notin DOMAIN t
  BY <1>1, <1>2, LessItself DEF RemoveEntry, InListing
<1>3. CASE q \in DOMAIN t
  <2>1. q \in DOMAIN w /\ q \in Seq(Names) /\ name \in Names
    <3>1. q \in Seq(Names)
      BY <1>3 DEF IsTree
    <3>2. q \in Seq(Names) /\ Len(q) = Len(p) + 1 /\ q[Len(p) + 1] = name /\ Len(p) \in Nat
      <4>1. p \in Seq(Names \cup {name})
        BY <1>1
      <4> QED BY <3>1, <4>1
    <3>3. Len(p) + 1 \in 1..Len(q)
      BY <3>2
    <3>4. name \in Names
      BY <3>2, <3>3
    <3> QED
      BY <1>3, <3>2, <3>4 DEF Part
  <2>2. q \in paths
    <3>1. IsPrefix(q, q)
      BY <2>1, PrefixFacts
    <3>2. IsPrefix(p, q)
      BY <1>1, <2>1, <3>1, BelowEntry
    <3> QED
      BY <2>1, <3>2 DEF Below
  <2>3. Part(u, t) /\ Part(u, w)
    BY PartOfPart DEF LessOnly
  <2>4. q \in Seq(PathNames)
    BY <2>1, SpecialNames
  <2>5. Lead(pathresolver(u, q), pathresolver(w, q))
    BY <2>3, <2>4, PartLeads
  <2>6. Below(w, pathresolver(w, q)) \subseteq paths
    <3>1. CASE q \in Links(w)
      BY <2>2, <3>1 DEF Closed
    <3>2. CASE q \notin Links(w)
      <4>1. IsDir(w, p)
        BY PartFacts
      <4>2. pathresolver(w, p) = p
        BY <4>1, DirResolves
      <4>3. pathresolver(w, q) = q
        BY <1>1, <2>1, <3>2, <4>1, <4>2, EntryResolves
      <4>4. \A r \in DOMAIN w : IsPrefix(q, r) => IsPrefix(p, r)
        BY <1>1, <2>1, BelowEntry DEF IsTree
      <4> HIDE DEF q
      <4> QED
        BY <4>3, <4>4 DEF Below
    <3> QED
      BY <3>1, <3>2
  <2>7. ~IsDir(u, Err)
    BY SpecialNames DEF IsTree, IsDir
  <2>8. CASE checkDir(u, q)
    <3> DEFINE v == RemoveDir(u, q, names, open + 1)
    <3>1. pathresolver(u, q) = pathresolver(w, q)
      BY <2>5, <2>7, <2>8 DEF checkDir, Lead
    <3>2. LessOnly(v, u, paths)
      <4> HIDE DEF q
      <4> QED BY <2>3, <2>4, <2>6, <3>1 DEF DeletesOnly
    <3>3. IsTree(v) /\ Part(v, w)
      BY <2>3, <2>4, <3>2, PartOfPart DEF LessOnly
    <3> HIDE DEF v
    <3>4. LessOnly(rmdir(v, q), v, paths)
      <4> HIDE DEF q
      <4> QED BY <2>1, <2>2, <3>3, RmdirLess
    <3>5. LessOnly(rmdir(v, q), u, paths)
      <4> HIDE DEF q
      <4> QED BY <3>2, <3>4, LessAgain
    <3>6. RemoveEntry(on, name, u) = rmdir(v, q)
      BY <1>1, <1>3, <2>8 DEF RemoveEntry, InListing, v
    <3> QED
      BY <3>5, <3>6
  <2>9. CASE ~checkDir(u, q)
    <3> DEFINE r == pathresolver(u, q)
    <3>1. RemoveEntry(on, name, u) = delete_file(u, q)
      BY <1>1, <1>3, <2>9 DEF RemoveEntry, InListing
    <3>2. CASE r \in {Err, <<>>}
      BY <3>1, <3>2, LessItself DEF delete_file
    <3>3. CASE r \notin {Err, <<>>}
      <4>1. r \in DOMAIN u /\ r = pathresolver(w, q)
        BY <2>4, <2>5, <3>3, ResolvedPlace DEF Places, Lead
      <4>2. r \in DOMAIN w /\ r \in Seq(Names)
        BY <2>3, <4>1 DEF Part, IsTree
      <4>3. r \in paths
        <5>1. IsPrefix(r, r)
          <6> HIDE DEF r
          <6> QED BY <4>2, PrefixFacts
        <5> HIDE DEF r
        <5> QED BY <2>6, <4>1, <4>2, <5>1 DEF Below
      <4>4. delete_file(u, q) = Without(u, {r})
        BY <2>9, <3>3 DEF delete_file, checkDir
      <4>5. LessOnly(Without(u, {r}), u, paths)
        <5> HIDE DEF r
        <5> QED BY <4>3, WithoutLess
      <4> QED
        BY <3>1, <4>4, <4>5
    <3> QED
      BY <3>2, <3>3
  <2> QED
    BY <2>8, <2>9
<1> QED
  BY <1>2, <1>3

LEMMA EntriesLess ==
  ASSUME NEW on, IsTree(on.tree), on.order \in Seq(Names \cup {".", ".."}), NEW paths,
         \A name \in Names \cup {".", ".."} : \A u :
           IsTree(u) /\ LessOnly(u, on.tree, paths) =>
             IsTree(RemoveEntry(on, name, u)) /\ LessOnly(RemoveEntry(on, name, u), u, paths)
  PROVE  LessOnly(RemoveEntries(on), on.tree, paths)
<1> DEFINE S == Names \cup {".", ".."}
           t == on.tree
           names == on.order
           l == Len(names)
           whole == RemoveEntries(on)
<1>1. whole = RemovingEach!SeqFold(names, on, t)
  BY DEF RemoveEntries, FoldLeft, MapThenFoldSet, Max,
         RemovingEach!SeqFold, RemovingEach!SeqFolds, RemovingEach!Greatest
<1>2. names \in Seq(S) /\ l \in Nat
  OBVIOUS
<1> HIDE DEF S, l, whole, t, names
<1>3. PICK g : /\ whole = g[l] /\ g[0] = t
               /\ \A i \in 1..l : g[i] = RemoveEntry(on, names[i], g[i - 1])
  BY <1>1, <1>2, RemovingEach!SeqFoldSteps DEF l
<1> DEFINE Q == {i \in 0..l : IsTree(g[i]) /\ LessOnly(g[i], t, paths)}
<1>4. 0 \in Q
  BY <1>2, <1>3, LessItself DEF t
<1>5. ASSUME NEW i \in 1..l, i - 1 \in Q PROVE i \in Q
  <2>1. i \in 0..l /\ IsTree(g[i - 1]) /\ LessOnly(g[i - 1], t, paths) /\ names[i] \in S
    BY <1>2, <1>5 DEF l
  <2>2. g[i] = RemoveEntry(on, names[i], g[i - 1])
    BY <1>3
  <2>3. IsTree(g[i]) /\ LessOnly(g[i], g[i - 1], paths)
    BY <2>1, <2>2 DEF S, t
  <2>4. LessOnly(g[i], t, paths)
    BY <2>1, <2>3, LessAgain
  <2> QED
    BY <2>1, <2>3, <2>4
<1>6. l \in Q
  <2> HIDE DEF Q
  <2> QED BY <1>2, <1>4, <1>5, RemovingEach!StepByStep
<1> QED
  BY <1>3, <1>6 DEF whole, t

LEMMA EntryKeeps ==
  ASSUME NEW open, NEW p \in Seq(PathNames), NEW names \in Orders,
         \A u : IsTree(u) => \A q \in Seq(PathNames) : IsTree(RemoveDir(u, q, names, open + 1)),
         NEW on, on.source = p, on.order = names, on.open = open,
         NEW name \in Names \cup {".", ".."}, NEW u, IsTree(u)
  PROVE  IsTree(RemoveEntry(on, name, u))
<1> DEFINE q == Append(p, name)
<1>1. q \in Seq(PathNames)
  BY NamesTyped
<1> HIDE DEF q
<1>2. IsTree(RemoveDir(u, q, names, open + 1)) /\ IsTree(delete_file(u, q))
  BY <1>1, DeleteFileKeeps
<1>3. IsTree(rmdir(RemoveDir(u, q, names, open + 1), q))
  BY <1>2, RmdirKeeps
<1> QED
  BY <1>2, <1>3 DEF RemoveEntry, q

LEMMA RemoveLevelLess ==
  ASSUME NEW open, open = MaxOpen \/ (DeletesOnly(open + 1) /\ KeepTrees(open + 1)),
         NEW w, IsTree(w), NEW paths, Closed(w, paths), NEW t, IsTree(t), Part(t, w),
         NEW s \in Seq(PathNames), NEW names \in Orders,
         Below(w, pathresolver(t, s)) \subseteq paths
  PROVE  LessOnly(remove_level(t, s, names, open), t, paths)
<1> DEFINE p == pathresolver(t, s)
           on == [tree |-> t, source |-> p, order |-> names, open |-> open]
           emptied == RemoveEntries(on)
<1>1. CASE ~IsDir(t, p) \/ open = MaxOpen
  BY <1>1, LessItself DEF remove_level
<1>2. CASE IsDir(t, p) /\ open # MaxOpen
  <2>1. p \in Seq(PathNames) /\ names \in Seq(Names \cup {".", ".."})
    BY ResolvedTyped, ExplorerAssumption
  <2>2. on.tree = t /\ on.order = names /\ on.source = p /\ on.open = open
    OBVIOUS
  <2>3. Below(w, p) \subseteq paths /\ remove_level(t, s, names, open) = rmdir(emptied, p)
    BY <1>2 DEF remove_level
  <2>4. \A u : IsTree(u) => \A q \in Seq(PathNames) : IsTree(RemoveDir(u, q, names, open + 1))
    BY <1>2 DEF KeepTrees
  <2>5. IsDir(t, p) /\ DeletesOnly(open + 1)
    BY <1>2
  <2> HIDE DEF on, p, emptied
  <2>6. ASSUME NEW name \in Names \cup {".", ".."}, NEW u, IsTree(u)
        PROVE  IsTree(RemoveEntry(on, name, u))
    BY <2>1, <2>2, <2>4, <2>6, EntryKeeps
  <2>7. ASSUME NEW name \in Names \cup {".", ".."}, NEW u, IsTree(u), LessOnly(u, t, paths)
        PROVE  LessOnly(RemoveEntry(on, name, u), u, paths)
    <3>1. \A q \in Seq(PathNames) : IsTree(RemoveDir(u, q, names, open + 1))
      BY <2>4, <2>7
    <3> QED
      BY <2>2, <2>3, <2>5, <2>7, <3>1, EntryLess
  <2>8. LessOnly(emptied, t, paths)
    BY <2>1, <2>2, <2>6, <2>7, EntriesLess DEF emptied
  <2>9. IsTree(emptied)
    BY <2>1, <2>2, <2>6, RemoveEntriesKeep DEF emptied
  <2>10. p \in Seq(Names) /\ (p = <<>> \/ p \in DOMAIN t)
    BY <2>5, DirFacts
  <2>11. p \in DOMAIN t => p \in paths
    <3>1. p \in DOMAIN t => p \in DOMAIN w
      BY DEF Part
    <3>2. IsPrefix(p, p)
      BY <2>10, PrefixFacts
    <3> QED
      BY <2>3, <3>1, <3>2 DEF Below
  <2>12. LessOnly(rmdir(emptied, p), emptied, paths)
    BY <2>8, <2>9, <2>10, <2>11, RmdirLess DEF LessOnly
  <2> QED
    BY <2>3, <2>8, <2>12, LessAgain
<1> QED
  BY <1>1, <1>2

LEMMA DeletingOnly ==
  ASSUME DirectoriesRecur
  PROVE  DeletesOnly(0)
<1> DEFINE Q == {k \in 0..MaxOpen : DeletesOnly(MaxOpen - k) /\ KeepTrees(MaxOpen - k)}
<1>1. MaxOpen \in Nat /\ MaxOpen - MaxOpen = 0
  BY FileTreeAssumption
<1>2. ASSUME NEW open \in 0..MaxOpen, open = MaxOpen \/ (DeletesOnly(open + 1) /\ KeepTrees(open + 1))
      PROVE  DeletesOnly(open) /\ KeepTrees(open)
  <2>1. KeepTrees(open)
    BY <1>2, LevelKeeps
  <2>2. \A t, s, names : RemoveDir(t, s, names, open) = remove_level(t, s, names, open)
    BY DEF DirectoriesRecur
  <2>3. DeletesOnly(open)
    BY <1>2, <2>2, RemoveLevelLess DEF DeletesOnly
  <2> QED
    BY <2>1, <2>3
<1>3. 0 \in Q
  BY <1>1, <1>2
<1>4. ASSUME NEW i \in 1..MaxOpen, i - 1 \in Q PROVE i \in Q
  <2>1. MaxOpen - i \in 0..MaxOpen /\ MaxOpen - (i - 1) = (MaxOpen - i) + 1
    BY <1>1
  <2>2. DeletesOnly((MaxOpen - i) + 1) /\ KeepTrees((MaxOpen - i) + 1)
    BY <1>4, <2>1
  <2> QED
    BY <1>1, <1>2, <2>1, <2>2
<1>5. MaxOpen \in Q
  <2> HIDE DEF Q
  <2> QED BY <1>1, <1>3, <1>4, RemovingEach!StepByStep
<1> QED
  BY <1>1, <1>5

-----------------------------------------------------------------------------
(* What is left of t when some of the entries of p are gone. *)
Cut(t, p, gone) ==
  Without(t, {r \in DOMAIN t : \E n \in gone : IsPrefix(Append(p, n), r)})

LEMMA CutFacts ==
  ASSUME NEW t, IsTree(t), NEW p, IsDir(t, p), NEW gone \in SUBSET Names
  PROVE  IsTree(Cut(t, p, gone)) /\ Part(Cut(t, p, gone), t) /\ IsDir(Cut(t, p, gone), p)
<1> DEFINE u == Cut(t, p, gone)
           Out(r) == \E n \in gone : IsPrefix(Append(p, n), r)
<1>1. DOMAIN u = {r \in DOMAIN t : ~Out(r)} /\ \A r \in DOMAIN u : u[r] = t[r]
  BY DEF Cut, Without
<1>2. IsFunction(u)
  BY TreeFunctions DEF Cut
<1> HIDE DEF u
<1>3. p \in Seq(Names) /\ \A n \in gone : Append(p, n) \in Seq(Names)
  BY DirFacts
<1>4. ASSUME NEW r, IsDir(t, r), ~Out(r) PROVE IsDir(u, r)
  BY <1>1, <1>4 DEF IsDir
<1>5. ASSUME NEW r \in DOMAIN u
      PROVE  /\ r \in Seq(Names) /\ r # <<>> /\ IsDir(u, Front(r))
             /\ IsNode(u[r])
  <2>1. r \in DOMAIN t /\ r \in Seq(Names) /\ r # <<>> /\ IsDir(t, Front(r))
    BY <1>1 DEF IsTree
  <2>2. ~Out(Front(r))
    <3>1. \A n \in gone : IsPrefix(Append(p, n), Front(r)) => IsPrefix(Append(p, n), r)
      BY <1>3, <2>1, PrefixFacts
    <3> QED BY <1>1, <3>1
  <2>3. IsNode(u[r])
    BY <1>1, <2>1 DEF IsTree, Links
  <2> HIDE DEF Out
  <2> QED BY <1>4, <2>1, <2>2, <2>3
<1>6. ~Out(p)
  BY <1>3, BelowEntry
<1>7. Part(u, t)
  BY <1>1 DEF Part
<1>8. IsTree(u)
  BY <1>5, <1>2 DEF IsTree
<1> QED
  BY <1>4, <1>6, <1>7, <1>8 DEF u

LEMMA CutMore ==
  ASSUME NEW t, NEW p, NEW gone, NEW n
  PROVE  Without(Cut(t, p, gone), Below(Cut(t, p, gone), Append(p, n))) = Cut(t, p, gone \cup {n})
<1> DEFINE u == Cut(t, p, gone)
           v == Without(u, Below(u, Append(p, n)))
           w == Cut(t, p, gone \cup {n})
           Out(r) == \E m \in gone : IsPrefix(Append(p, m), r)
<1>1. u = [r \in {r \in DOMAIN t : ~Out(r)} |-> t[r]]
  BY DEF Cut, Without
<1>2. v = [r \in DOMAIN u \ Below(u, Append(p, n)) |-> u[r]]
  BY DEF Without
<1>3. w = [r \in {r \in DOMAIN t : ~Out(r) /\ ~IsPrefix(Append(p, n), r)} |-> t[r]]
  BY DEF Cut, Without
<1> HIDE DEF u, v, w
<1>4. DOMAIN u \ Below(u, Append(p, n)) = {r \in DOMAIN t : ~Out(r) /\ ~IsPrefix(Append(p, n), r)}
  BY <1>1 DEF Below
<1>5. v = w
  BY <1>1, <1>2, <1>3, <1>4
<1> QED
  BY <1>5 DEF u, v, w

(* Entries that do not exist cannot go. *)
LEMMA CutNothing ==
  ASSUME NEW t, IsTree(t), NEW p \in Seq(Names), NEW gone, NEW n \in Names,
         Append(p, n) \notin DOMAIN t
  PROVE  Cut(t, p, gone \cup {n}) = Cut(t, p, gone)
<1> DEFINE e == Append(p, n)
<1>1. e \in Seq(Names) /\ e # <<>>
  BY FrontAppend
<1>2. \A r \in DOMAIN t : ~IsPrefix(e, r)
  <2> HIDE DEF e
  <2> QED BY <1>1, EntryExists DEF e
<1> QED
  BY <1>2 DEF Cut

-----------------------------------------------------------------------------
(* A directory without links, not too deep, is emptied and taken away. *)
Empties(open) ==
  \A t, s, names :
    /\ IsTree(t) /\ s \in Seq(PathNames) /\ names \in Orders
    /\ IsDir(t, pathresolver(t, s)) /\ Shallow(t, pathresolver(t, s), open)
    => RemoveDir(t, s, names, open) = Without(t, Below(t, pathresolver(t, s)))

LEMMA SoleBelow ==
  ASSUME NEW t, NEW q \in DOMAIN t, q \in Seq(Names), \A r \in DOMAIN t : IsPrefix(q, r) => r = q
  PROVE  Below(t, q) = {q}
  BY PrefixFacts DEF Below

LEMMA EntryCut ==
  ASSUME NEW open \in Nat, open < MaxOpen, open + 1 = MaxOpen \/ Empties(open + 1),
         DirectoriesRecur,
         NEW t, IsTree(t), NEW p, IsDir(t, p), Shallow(t, p, open),
         NEW names \in Orders, NEW name \in Names \cup {".", ".."}, NEW gone \in SUBSET Names,
         NEW on, on.tree = t, on.source = p, on.order = names, on.open = open
  PROVE  RemoveEntry(on, name, Cut(t, p, gone)) = Cut(t, p, gone \cup ({name} \cap Names))
<1> DEFINE q == Append(p, name)
           u == Cut(t, p, gone)
<1>1. IsTree(u) /\ Part(u, t) /\ IsDir(u, p)
  BY CutFacts
<1>2. p \in Seq(Names) /\ Len(p) \in Nat /\ pathresolver(t, p) = p /\ pathresolver(u, p) = p
  BY <1>1, DirFacts, DirResolves
<1>3. MaxOpen \in Nat
  BY FileTreeAssumption
<1>4. ~IsDir(u, Err)
  BY <1>1, SpecialNames DEF IsTree, IsDir
<1>5. DOMAIN u = {r \in DOMAIN t : ~ \E n \in gone : IsPrefix(Append(p, n), r)}
  BY DEF Cut, Without
<1>6. CASE q \notin DOMAIN t
  <2>1. RemoveEntry(on, name, u) = u
    BY <1>2, <1>6 DEF RemoveEntry, InListing
  <2>2. CASE name \in Names
    <3>1. gone \cup ({name} \cap Names) = gone \cup {name}
      BY <2>2
    <3> QED BY <1>2, <1>6, <2>1, <2>2, <3>1, CutNothing
  <2>3. CASE name \notin Names
    <3>1. gone \cup ({name} \cap Names) = gone
      BY <2>3
    <3> QED BY <2>1, <3>1
  <2> QED BY <2>2, <2>3
<1>7. CASE q \in DOMAIN t
  <2>1. q \in Seq(Names) /\ Len(q) = Len(p) + 1 /\ q[Len(p) + 1] = name
    <3>1. q \in Seq(Names)
      BY <1>7 DEF IsTree
    <3>2. p \in Seq(Names \cup {name})
      BY <1>2
    <3> QED BY <3>1, <3>2
  <2>2. name \in Names /\ q # <<>>
    <3>1. Len(p) + 1 \in 1..Len(q)
      BY <1>2, <2>1
    <3> QED BY <2>1, <3>1
  <2>3. gone \cup ({name} \cap Names) = gone \cup {name}
    BY <2>2
  <2>4. IsPrefix(q, q) /\ IsPrefix(p, q)
    <3>1. IsPrefix(q, q)
      BY <2>1, PrefixFacts
    <3> QED BY <1>2, <2>1, <2>2, <3>1, BelowEntry
  <2>5. q \notin Links(t)
    BY <1>7, <2>4 DEF Shallow, Below
  <2>6. p \in Seq(PathNames) /\ name \in PathNames /\ q \in Seq(PathNames) /\ name \notin {".", ".."}
    BY <1>2, <2>1, <2>2, SpecialNames DEF PathNames
  <2>7. InListing(on.tree, on.source, name)
    BY <1>2, <1>7 DEF InListing
  <2>8. CASE name \in gone
    <3>1. q \notin DOMAIN u
      BY <1>5, <2>4, <2>8
    <3>2. pathresolver(u, q) = Onto(u, LinkEnds(u), name, p)
      BY <1>2, <2>6, LeadsOn
    <3>3. pathresolver(u, q) = Err
      BY <1>1, <2>6, <3>1, <3>2 DEF Onto
    <3>4. ~checkDir(u, q) /\ delete_file(u, q) = u
      BY <1>4, <3>3 DEF checkDir, delete_file
    <3>5. RemoveEntry(on, name, u) = u
      BY <2>7, <3>4 DEF RemoveEntry
    <3>6. gone \cup {name} = gone
      BY <2>8
    <3> QED
      BY <2>3, <3>5, <3>6
  <2>9. CASE name \notin gone
    <3>1. q \in DOMAIN u
      <4>1. ASSUME NEW n \in gone, IsPrefix(Append(p, n), q) PROVE n = name
        <5> DEFINE e == Append(p, n)
        <5>1. e \in Seq(Names) /\ Len(e) = Len(p) + 1 /\ e[Len(p) + 1] = n
          BY <1>2
        <5>2. IsPrefix(e, q)
          BY <4>1
        <5> HIDE DEF e, q
        <5>3. \A i \in 1..Len(e) : e[i] = q[i]
          BY <2>1, <5>1, <5>2, PrefixPoints
        <5>4. Len(p) + 1 \in 1..Len(e)
          BY <1>2, <5>1
        <5> QED
          BY <2>1, <5>1, <5>3, <5>4
      <4> QED
        BY <1>5, <1>7, <2>9, <4>1
    <3>2. q \notin Links(u)
      BY <1>1, <2>5, <3>1, PartFacts
    <3>3. pathresolver(u, q) = q
      BY <1>1, <1>2, <2>2, <3>1, <3>2, EntryResolves
    <3> DEFINE v == Without(u, Below(u, q))
    <3>4. v = Cut(t, p, gone \cup {name})
      BY CutMore
    <3>5. IsTree(v)
      BY <2>2, <3>4, CutFacts
    <3>6. DOMAIN v = DOMAIN u \ Below(u, q) /\ Part(v, u) /\ q \notin DOMAIN v
      BY <2>4, <3>1 DEF Without, Part, Below
    <3>7. \A r \in Below(u, q) : /\ r \in DOMAIN u /\ r \in DOMAIN t /\ r \in Seq(Names)
                                 /\ Len(r) \in Nat /\ IsPrefix(q, r) /\ IsPrefix(p, r)
      <4>1. \A r \in Below(u, q) : /\ r \in DOMAIN u /\ r \in DOMAIN t /\ r \in Seq(Names)
                                   /\ Len(r) \in Nat /\ IsPrefix(q, r)
        BY <1>1 DEF Below, Part, IsTree
      <4> QED BY <1>2, <2>2, <4>1, BelowEntry
    <3>8. Shallow(u, q, open + 1)
      <4> SUFFICES ASSUME NEW r \in Below(u, q)
                   PROVE  r \notin Links(u) /\ Len(r) - Len(q) <= MaxOpen - (open + 1)
        BY DEF Shallow
      <4>1. r \notin Links(t) /\ Len(r) - Len(p) <= MaxOpen - open
        BY <3>7 DEF Shallow, Below
      <4>2. r \notin Links(u)
        BY <1>1, <4>1, PartFacts
      <4>3. Len(r) \in Nat
        BY <3>7
      <4> HIDE DEF q, u
      <4> QED BY <1>2, <1>3, <2>1, <4>1, <4>2, <4>3
    <3> HIDE DEF u, v, q
    <3>9. checkDir(u, q) <=> IsDir(u, q)
      BY <3>3 DEF checkDir
    <3>10. CASE IsDir(u, q) /\ open + 1 < MaxOpen
      <4>1. RemoveDir(u, q, names, open + 1) = v
        BY <1>1, <1>3, <2>6, <3>3, <3>8, <3>10 DEF Empties, v
      <4>2. Lead(Spot(v, q), q)
        BY <1>1, <3>1, <3>5, <3>6, PartSpot
      <4>3. ~IsDir(v, Err) /\ ~IsDir(v, q)
        BY <2>2, <3>5, <3>6, SpecialNames DEF IsTree, IsDir
      <4>4. rmdir(v, q) = v
        BY <4>2, <4>3 DEF rmdir, Lead
      <4>5. RemoveEntry(on, name, u) = v
        BY <2>7, <3>9, <3>10, <4>1, <4>4 DEF RemoveEntry, q
      <4> QED
        BY <2>3, <3>4, <4>5 DEF u
    <3>11. CASE IsDir(u, q) /\ open + 1 = MaxOpen
      <4>1. RemoveDir(u, q, names, open + 1) = u
        <5>1. open + 1 \in 0..MaxOpen
          BY <1>3, <3>11
        <5>2. RemoveDir(u, q, names, open + 1) = remove_level(u, q, names, open + 1)
          BY <5>1 DEF DirectoriesRecur
        <5> QED BY <3>11, <5>2 DEF remove_level
      <4>2. Spot(u, q) = q
        BY <1>1, <3>1, TreePlaces, SpotSame
      <4>3. ASSUME NEW r \in DOMAIN u, IsPrefix(q, r) PROVE r = q
        <5>1. r \in Below(u, q) /\ r \in Seq(Names) /\ Len(r) \in Nat
          BY <3>7, <4>3 DEF Below
        <5>2. Len(r) - Len(q) <= MaxOpen - (open + 1)
          BY <3>8, <5>1 DEF Shallow
        <5>3. Len(q) \in Nat /\ Len(q) <= Len(r) /\ \A i \in 1..Len(q) : q[i] = r[i]
          BY <2>1, <4>3, <5>1, PrefixPoints
        <5>4. Len(r) = Len(q)
          BY <1>3, <3>11, <5>1, <5>2, <5>3
        <5> QED BY <2>1, <5>1, <5>3, <5>4, SeqEqual
      <4>4. rmdir(u, q) = Without(u, {q})
        BY <3>11, <4>2, <4>3 DEF rmdir
      <4>5. Below(u, q) = {q}
        BY <2>1, <3>1, <4>3, SoleBelow
      <4>6. RemoveEntry(on, name, u) = v
        BY <2>7, <3>9, <3>11, <4>1, <4>4, <4>5 DEF RemoveEntry, q, v
      <4> QED
        BY <2>3, <3>4, <4>6 DEF u
    <3>12. CASE ~IsDir(u, q)
      <4>1. \A r \in DOMAIN u : IsPrefix(q, r) => r = q
        BY <1>1, <2>1, <2>2, <3>12, EntryExists
      <4>2. Below(u, q) = {q}
        BY <2>1, <3>1, <4>1, SoleBelow
      <4>3. q # Err
        BY <2>1, SpecialNames
      <4>4. delete_file(u, q) = Without(u, {q})
        BY <2>2, <3>3, <3>12, <4>3 DEF delete_file
      <4>5. RemoveEntry(on, name, u) = v
        BY <2>7, <3>9, <3>12, <4>2, <4>4 DEF RemoveEntry, q, v
      <4> QED
        BY <2>3, <3>4, <4>5 DEF u
    <3> QED
      BY <1>3, <3>10, <3>11, <3>12
  <2> QED
    BY <2>8, <2>9
<1> QED
  BY <1>6, <1>7

LEMMA EntriesCut ==
  ASSUME NEW open \in Nat, open < MaxOpen, open + 1 = MaxOpen \/ Empties(open + 1),
         DirectoriesRecur,
         NEW t, IsTree(t), NEW p, IsDir(t, p), Shallow(t, p, open), NEW names \in Orders,
         NEW on, on.tree = t, on.source = p, on.order = names, on.open = open
  PROVE  RemoveEntries(on) = Cut(t, p, Names)
<1> DEFINE S == Names \cup {".", ".."}
           l == Len(names)
           whole == RemoveEntries(on)
           Read(i) == {n \in Names : \E j \in 1..i : names[j] = n}
<1>1. names \in Seq(S) /\ l \in Nat /\ \A n \in Names : \E i \in 1..l : names[i] = n
  BY ExplorerAssumption
<1>2. whole = RemovingEach!SeqFold(names, on, t)
  BY DEF RemoveEntries, FoldLeft, MapThenFoldSet, Max,
         RemovingEach!SeqFold, RemovingEach!SeqFolds, RemovingEach!Greatest
<1> HIDE DEF S, l, whole
<1>3. PICK g : /\ whole = g[l] /\ g[0] = t
               /\ \A i \in 1..l : g[i] = RemoveEntry(on, names[i], g[i - 1])
  BY <1>1, <1>2, RemovingEach!SeqFoldSteps DEF l
<1> DEFINE Q == {i \in 0..l : g[i] = Cut(t, p, Read(i))}
<1>4. 0 \in Q
  <2>1. Read(0) = {}
    OBVIOUS
  <2>2. Cut(t, p, {}) = t
    <3>1. {r \in DOMAIN t : \E n \in {} : IsPrefix(Append(p, n), r)} = {}
      OBVIOUS
    <3>2. Cut(t, p, {}) = [r \in DOMAIN t |-> t[r]]
      BY <3>1 DEF Cut, Without
    <3>3. t = [r \in DOMAIN t |-> t[r]]
      BY DEF IsTree, IsFunction
    <3> QED BY <3>2, <3>3
  <2>3. 0 \in 0..l
    BY <1>1
  <2> QED
    BY <1>3, <2>1, <2>2, <2>3
<1>5. ASSUME NEW i \in 1..l, i - 1 \in Q PROVE i \in Q
  <2>1. i \in 0..l /\ names[i] \in S
    <3>1. names[i] \in S
      BY <1>1 DEF l
    <3> QED BY <1>1, <3>1
  <2>2. g[i - 1] = Cut(t, p, Read(i - 1))
    BY <1>5
  <2>3. g[i] = RemoveEntry(on, names[i], g[i - 1])
    BY <1>3
  <2>4. Read(i) = Read(i - 1) \cup ({names[i]} \cap Names)
    BY <1>1
  <2>5. Read(i - 1) \in SUBSET Names
    OBVIOUS
  <2> HIDE DEF Read
  <2>6. RemoveEntry(on, names[i], Cut(t, p, Read(i - 1))) = Cut(t, p, Read(i - 1) \cup ({names[i]} \cap Names))
    BY <2>1, <2>5, EntryCut DEF S
  <2> QED
    BY <2>1, <2>3, <2>4, <2>6, <2>2
<1>6. l \in Q
  <2> HIDE DEF Q
  <2> QED BY <1>1, <1>4, <1>5, RemovingEach!StepByStep
<1>7. Read(l) = Names
  BY <1>1
<1> QED
  BY <1>3, <1>6, <1>7 DEF whole

LEMMA RemoveLevelEmpties ==
  ASSUME NEW open \in Nat, open < MaxOpen, open + 1 = MaxOpen \/ Empties(open + 1),
         DirectoriesRecur,
         NEW t, IsTree(t), NEW s \in Seq(PathNames), NEW names \in Orders,
         IsDir(t, pathresolver(t, s)), Shallow(t, pathresolver(t, s), open)
  PROVE  remove_level(t, s, names, open) = Without(t, Below(t, pathresolver(t, s)))
<1> DEFINE p == pathresolver(t, s)
           on == [tree |-> t, source |-> p, order |-> names, open |-> open]
           c == Cut(t, p, Names)
<1>1. on.tree = t /\ on.source = p /\ on.order = names /\ on.open = open
  OBVIOUS
<1>2. MaxOpen \in Nat /\ open # MaxOpen /\ IsDir(t, p) /\ Shallow(t, p, open)
  BY FileTreeAssumption
<1>3. remove_level(t, s, names, open) = rmdir(RemoveEntries(on), p)
  BY <1>2 DEF remove_level
<1> HIDE DEF p, on
<1>4. RemoveEntries(on) = c
  BY <1>1, <1>2, EntriesCut
<1>5. p \in Seq(Names) /\ (p = <<>> \/ p \in DOMAIN t)
  BY <1>2, DirFacts
<1>6. IsTree(c) /\ Part(c, t) /\ IsDir(c, p)
  BY <1>2, CutFacts
<1>7. \A r \in DOMAIN t : (\E n \in Names : IsPrefix(Append(p, n), r)) <=> (IsPrefix(p, r) /\ r # p)
  <2>1. \A r \in DOMAIN t : r \in Seq(Names)
    BY DEF IsTree
  <2> QED
    BY <1>5, <2>1, BelowEntry, EntryAbove
<1>8. c = [r \in {q \in DOMAIN t : ~(IsPrefix(p, q) /\ q # p)} |-> t[r]]
  <2>1. DOMAIN t \ {r \in DOMAIN t : \E n \in Names : IsPrefix(Append(p, n), r)}
          = {q \in DOMAIN t : ~(IsPrefix(p, q) /\ q # p)}
    BY <1>7
  <2> QED
    BY <2>1 DEF Cut, Without
<1>9. Without(t, Below(t, p)) = [r \in {q \in DOMAIN t : ~IsPrefix(p, q)} |-> t[r]]
  <2>1. DOMAIN t \ Below(t, p) = {q \in DOMAIN t : ~IsPrefix(p, q)}
    BY DEF Below
  <2> QED
    BY <2>1 DEF Without
<1> HIDE DEF c
<1>10. IsPrefix(p, p)
  BY <1>5, PrefixFacts
<1>11. CASE p = <<>>
  <2>1. p \notin DOMAIN t
    BY <1>11 DEF IsTree
  <2>2. c = Without(t, Below(t, p))
    <3>1. {q \in DOMAIN t : ~(IsPrefix(p, q) /\ q # p)} = {q \in DOMAIN t : ~IsPrefix(p, q)}
      BY <2>1
    <3> QED BY <1>8, <1>9, <3>1
  <2>3. Spot(c, p) = Err /\ ~IsDir(c, Err)
    BY <1>6, <1>11, SpecialNames DEF Spot, IsTree, IsDir
  <2>4. rmdir(c, p) = c
    BY <2>3 DEF rmdir
  <2> QED
    BY <1>3, <1>4, <2>2, <2>4 DEF p
<1>12. CASE p \in DOMAIN t
  <2>1. DOMAIN c = {q \in DOMAIN t : ~(IsPrefix(p, q) /\ q # p)} /\ p \in DOMAIN c
    BY <1>8, <1>12
  <2>2. Spot(c, p) = p
    BY <1>6, <2>1, TreePlaces, SpotSame
  <2>3. rmdir(c, p) = Without(c, {p})
    BY <1>6, <2>1, <2>2 DEF rmdir
  <2>4. Without(c, {p}) = [r \in DOMAIN c \ {p} |-> c[r]]
    BY DEF Without
  <2>5. DOMAIN c \ {p} = {q \in DOMAIN t : ~IsPrefix(p, q)}
    BY <1>10, <2>1
  <2>6. Without(c, {p}) = Without(t, Below(t, p))
    BY <1>8, <1>9, <2>4, <2>5
  <2> QED
    BY <1>3, <1>4, <2>3, <2>6 DEF p
<1> QED
  BY <1>5, <1>11, <1>12

LEMMA DeletingEmpties ==
  ASSUME DirectoriesRecur
  PROVE  Empties(0)
<1> DEFINE Q == {k \in 0..(MaxOpen - 1) : Empties(MaxOpen - 1 - k)}
<1>1. MaxOpen \in Nat /\ MaxOpen - 1 \in Nat
  BY FileTreeAssumption
<1>2. ASSUME NEW open \in 0..(MaxOpen - 1), open + 1 = MaxOpen \/ Empties(open + 1)
      PROVE  Empties(open)
  <2>1. open \in Nat /\ open < MaxOpen /\ open \in 0..MaxOpen
    BY <1>1
  <2>2. \A t, s, names : RemoveDir(t, s, names, open) = remove_level(t, s, names, open)
    BY <2>1 DEF DirectoriesRecur
  <2> QED
    BY <1>2, <2>1, <2>2, RemoveLevelEmpties DEF Empties
<1>3. 0 \in Q
  <2>1. MaxOpen - 1 \in 0..(MaxOpen - 1) /\ (MaxOpen - 1) + 1 = MaxOpen /\ MaxOpen - 1 - 0 = MaxOpen - 1
        /\ 0 \in 0..(MaxOpen - 1)
    BY <1>1
  <2>2. Empties(MaxOpen - 1)
    BY <1>2, <2>1
  <2> QED
    BY <2>1, <2>2
<1>4. ASSUME NEW i \in 1..(MaxOpen - 1), i - 1 \in Q PROVE i \in Q
  <2>1. /\ MaxOpen - 1 - i \in 0..(MaxOpen - 1) /\ MaxOpen - 1 - (i - 1) = (MaxOpen - 1 - i) + 1
        /\ i \in 0..(MaxOpen - 1)
    BY <1>1
  <2>2. Empties((MaxOpen - 1 - i) + 1)
    BY <1>4, <2>1
  <2>3. Empties(MaxOpen - 1 - i)
    BY <1>2, <2>1, <2>2
  <2> QED
    BY <2>1, <2>3
<1>5. MaxOpen - 1 \in Q
  <2> HIDE DEF Q
  <2> QED BY <1>1, <1>3, <1>4, RemovingEach!StepByStep
<1>6. MaxOpen - 1 - (MaxOpen - 1) = 0
  BY <1>1
<1> QED
  BY <1>5, <1>6

-----------------------------------------------------------------------------
(* How a command is carried out that is not goto. *)
LEMMA CarriedOut ==
  ASSUME Next, done \in Nat, done' = done + 1, keys.task # "goto"
  PROVE  FileCommand(keys) \/ (fs' = fs /\ state' = "dead")
<1>1. done' # done
  OBVIOUS
<1>2. commandexec
  BY <1>1 DEF Next, normalmode, commandmode, cursorKey, enter, EnterDirectory, OpenFile, EnterNothing,
       goto_parent_dir, goforward, goback, goHome, Visit, lineVars, colon, backspace,
       exitcommandmode, Type, quit, resizehandler
<1> QED
  BY <1>2 DEF commandexec, goto, DiesOnTheWay

LEMMA DeleteStep ==
  ASSUME DirectoriesRecur, IsTree(fs), done \in Nat, LineTyped, order \in Orders, Next,
         Carries("delete_dir"), Len(keys.args) = 1
  PROVE  LET d == pathresolver(fs, keys.args[1])
             here == Below(fs, d)
         IN /\ \A p \in DOMAIN fs' : p \in DOMAIN fs /\ fs'[p] = fs[p]
            /\ \A paths \in SUBSET DOMAIN fs :
                 here \cup Reached(fs, paths) \subseteq paths => DOMAIN fs \ DOMAIN fs' \subseteq paths
            /\ state' = "running" /\ IsDir(fs, d) /\ Plain(fs, d) => DOMAIN fs \ DOMAIN fs' = here
<1> DEFINE s == keys.args[1]
           d == pathresolver(fs, s)
           here == Below(fs, d)
<1>1. s \in Seq(PathNames)
  <2>1. keys.args \in Seq(Seq(PathNames))
    BY LineArgs
  <2> QED BY <2>1
<1>2. keys.task = "delete_dir" /\ done' = done + 1
  BY DEF Carries
<1>3. CASE fs' = fs /\ state' = "dead"
  BY <1>3
<1>4. CASE FileCommand(keys)
  <2>1. fs' = IF d = Err THEN fs ELSE RemoveDir(fs, s, order, 0)
    <3>1. fs' = Result(keys).tree /\ Result(keys) = delete_direxec(fs, keys.args)
      BY <1>2, <1>4 DEF FileCommand, Result
    <3>2. Untouched(fs).tree = fs
      BY DEF Untouched
    <3> QED BY <3>1, <3>2 DEF delete_direxec, Untouched
  <2> HIDE DEF s, d
  <2>2. ASSUME NEW paths \in SUBSET DOMAIN fs, here \cup Reached(fs, paths) \subseteq paths
        PROVE  LessOnly(fs', fs, paths)
    <3>1. Closed(fs, paths)
      <4> SUFFICES ASSUME NEW l \in paths \cap Links(fs)
                   PROVE  Below(fs, pathresolver(fs, l)) \subseteq paths
        BY DEF Closed
      <4>1. l \in {q \in paths \cap DOMAIN fs : fs[q].kind = "link"}
        BY DEF Links
      <4>2. Below(fs, pathresolver(fs, l)) \subseteq Reached(fs, paths)
        BY <4>1 DEF Reached
      <4> QED BY <2>2, <4>2
    <3>2. Part(fs, fs)
      BY DEF Part
    <3>3. DeletesOnly(0)
      BY DeletingOnly
    <3>4. LessOnly(RemoveDir(fs, s, order, 0), fs, paths)
      BY <1>1, <2>2, <3>1, <3>2, <3>3 DEF DeletesOnly, d
    <3> QED
      BY <2>1, <3>4, LessItself
  <2>3. here \cup Reached(fs, DOMAIN fs) \subseteq DOMAIN fs
    BY DEF Below, Reached
  <2>4. LessOnly(fs', fs, DOMAIN fs)
    BY <2>2, <2>3
  <2>5. ASSUME IsDir(fs, d), Plain(fs, d) PROVE DOMAIN fs \ DOMAIN fs' = here
    <3>1. Shallow(fs, d, 0)
      BY <2>5, FileTreeAssumption DEF Shallow, Plain, Links
    <3>2. d # Err
      BY <2>5, DirFacts
    <3>3. Empties(0)
      BY DeletingEmpties
    <3>4. RemoveDir(fs, s, order, 0) = Without(fs, here)
      BY <1>1, <2>5, <3>1, <3>3 DEF Empties, d
    <3> QED
      BY <2>1, <3>2, <3>4 DEF Without, Below
  <2> QED
    BY <2>2, <2>4, <2>5 DEF LessOnly, Part, d, s
<1> QED
  BY <1>2, <1>3, <1>4, CarriedOut

(* Whatever the tree and its links: delete_dir changes nothing that it     *)
(* leaves, takes nothing away but the directory, what its links lead to    *)
(* and so on, and takes all of a directory away in which there are none.   *)
THEOREM DeleteExact ==
  ASSUME DirectoriesRecur
  PROVE  Spec => DeleteIsExact
<1>1. Init => PlaceInv
  BY PlaceInit
<1>2. ExplorerInv /\ PlaceInv /\ [Next]_vars => PlaceInv'
  BY RecursionKeepsTrees, PlaceStays
<1>3. ExplorerInv /\ PlaceInv /\ [Next]_vars =>
        [Carries("delete_dir") /\ Len(keys.args) = 1 =>
           LET d == pathresolver(fs, keys.args[1])
               here == Below(fs, d)
           IN /\ \A p \in DOMAIN fs' : p \in DOMAIN fs /\ fs'[p] = fs[p]
              /\ \A paths \in SUBSET DOMAIN fs :
                   here \cup Reached(fs, paths) \subseteq paths => DOMAIN fs \ DOMAIN fs' \subseteq paths
              /\ state' = "running" /\ IsDir(fs, d) /\ Plain(fs, d)
                   => DOMAIN fs \ DOMAIN fs' = here]_vars
  BY DeleteStep DEF ExplorerInv, PlaceInv
<1> QED
  BY <1>1, <1>2, <1>3, ExplorerInvariant, PTL DEF Spec, DeleteIsExact

-----------------------------------------------------------------------------
(* What is below an entry of one directory is carried along with it.       *)
LEMMA CarriedOn ==
  ASSUME NEW S, NEW o \in Seq(S), NEW n \in Seq(S), NEW x \in S, NEW q \in Seq(S),
         IsPrefix(Append(o, x), q)
  PROVE  /\ Carried(Append(o, x), Append(n, x), q) = Carried(o, n, q)
         /\ IsPrefix(Append(n, x), Carried(o, n, q))
<1> DEFINE e == Append(o, x)
           f == Append(n, x)
<1>1. /\ e \in Seq(S) /\ Len(e) = Len(o) + 1 /\ e[Len(o) + 1] = x
      /\ f \in Seq(S) /\ Len(f) = Len(n) + 1 /\ f[Len(n) + 1] = x
      /\ \A i \in 1..Len(n) : f[i] = n[i]
  OBVIOUS
<1>2. IsPrefix(o, q)
  BY BelowEntry
<1>3. q[Len(o) + 1] = x
  <2>1. IsPrefix(e, q)
    OBVIOUS
  <2> HIDE DEF e, f
  <2>2. Len(e) <= Len(q) /\ \A i \in 1..Len(e) : e[i] = q[i]
    BY <1>1, <2>1, PrefixPoints
  <2>3. Len(o) + 1 \in 1..Len(e)
    BY <1>1
  <2> QED
    BY <1>1, <2>2, <2>3
<1> DEFINE a == Carried(e, f, q)
           b == Carried(o, n, q)
<1>4. /\ a \in Seq(S) /\ Len(a) = Len(f) + Len(q) - Len(e)
      /\ \A i \in 1..Len(a) : a[i] = IF i <= Len(f) THEN f[i] ELSE q[i - Len(f) + Len(e)]
      /\ Len(o) \in Nat /\ Len(n) \in Nat /\ Len(q) \in Nat
  <2>1. IsPrefix(e, q) /\ e \in Seq(S) /\ f \in Seq(S)
    OBVIOUS
  <2>2. Len(o) \in Nat /\ Len(n) \in Nat /\ Len(q) \in Nat
    OBVIOUS
  <2> HIDE DEF e, f
  <2>3. /\ a \in Seq(S) /\ Len(a) = Len(f) + Len(q) - Len(e)
        /\ \A i \in 1..Len(a) : a[i] = IF i <= Len(f) THEN f[i] ELSE q[i - Len(f) + Len(e)]
    BY <2>1, CarriedPoints
  <2> QED BY <2>2, <2>3
<1>5. /\ b \in Seq(S) /\ Len(b) = Len(n) + Len(q) - Len(o)
      /\ \A i \in 1..Len(b) : b[i] = IF i <= Len(n) THEN n[i] ELSE q[i - Len(n) + Len(o)]
  BY <1>2, CarriedPoints
<1>6. IsPrefix(f, a)
  <2>1. IsPrefix(e, q)
    OBVIOUS
  <2> HIDE DEF e, f
  <2> QED BY <1>1, <2>1, CarriedThere
<1> HIDE DEF e, f, a, b
<1>7. ASSUME NEW i \in 1..Len(a) PROVE a[i] = b[i]
  <2>1. i \in 1..Len(b) /\ i \in Nat /\ i >= 1
    BY <1>1, <1>4, <1>5
  <2>2. CASE i <= Len(n)
    <3>1. i <= Len(f) /\ f[i] = n[i]
      BY <1>1, <2>1, <2>2
    <3> QED
      BY <1>4, <1>5, <2>1, <2>2, <3>1
  <2>3. CASE i = Len(n) + 1
    <3>1. a[i] = x
      BY <1>1, <1>4, <2>3
    <3>2. b[i] = q[i - Len(n) + Len(o)] /\ i - Len(n) + Len(o) = Len(o) + 1
      BY <1>4, <1>5, <2>1, <2>3
    <3> QED BY <1>3, <3>1, <3>2
  <2>4. CASE i > Len(n) + 1
    <3>1. i - Len(f) + Len(e) = i - Len(n) + Len(o)
      BY <1>1, <1>4, <2>1
    <3>2. a[i] = q[i - Len(f) + Len(e)]
      BY <1>1, <1>4, <2>1, <2>4
    <3>3. b[i] = q[i - Len(n) + Len(o)]
      <4>1. ~(i <= Len(n))
        BY <1>4, <2>4
      <4> QED BY <1>5, <2>1, <4>1
    <3> QED BY <3>1, <3>2, <3>3
  <2> QED
    BY <1>4, <2>1, <2>2, <2>3, <2>4
<1>8. Len(a) = Len(b) /\ a \in Seq(S) /\ b \in Seq(S)
  BY <1>1, <1>4, <1>5
<1>9. a = b
  BY <1>7, <1>8
<1> QED
  BY <1>6, <1>9 DEF a, b, e, f

(* Of two paths above a third one is above the other. *)
LEMMA AboveEachOther ==
  ASSUME NEW S, NEW a \in Seq(S), NEW b \in Seq(S), NEW q \in Seq(S), IsPrefix(a, q), IsPrefix(b, q)
  PROVE  IsPrefix(a, b) \/ IsPrefix(b, a)
<1>1. /\ Len(a) \in Nat /\ Len(b) \in Nat
      /\ \A i \in 1..Len(a) : a[i] = q[i]
      /\ \A i \in 1..Len(b) : b[i] = q[i]
  BY PrefixPoints
<1>2. CASE Len(a) <= Len(b)
  <2>1. \A i \in 1..Len(a) : a[i] = b[i]
    BY <1>1, <1>2
  <2> QED BY <1>2, <2>1, PrefixPoints
<1>3. CASE Len(b) <= Len(a)
  <2>1. \A i \in 1..Len(b) : b[i] = a[i]
    BY <1>1, <1>3
  <2> QED BY <1>3, <2>1, PrefixPoints
<1> QED
  BY <1>1, <1>2, <1>3

(* Where nothing is, nothing is below. *)
LEMMA NothingBelow ==
  ASSUME NEW t, IsTree(t), NEW d, d \in Seq(Names), d # <<>>, d \notin DOMAIN t, NEW q \in DOMAIN t
  PROVE  ~IsPrefix(d, q)
BY EntryExists

-----------------------------------------------------------------------------
(* A directory can be copied to a free place outside of it. *)
Copyable(t, s, d) ==
  /\ IsTree(t) /\ s \in DOMAIN t /\ IsDir(t, s)
  /\ Place(t, d) /\ d \notin DOMAIN t /\ ~IsPrefix(s, d)

(* The directory at s, and what is in some of its entries; and the tree    *)
(* with that much of it copied to d.                                       *)
Chosen(t, s, some) == {s} \cup {q \in DOMAIN t : \E n \in some : IsPrefix(Append(s, n), q)}

Copies(t, s, d, some) == {Carried(s, d, q) : q \in Chosen(t, s, some)}

Pasted(t, s, d, some) ==
  [p \in DOMAIN t \cup Copies(t, s, d, some) |->
     IF IsPrefix(d, p) THEN t[Carried(d, s, p)] ELSE t[p]]

LEMMA CopyableFacts ==
  ASSUME NEW t, NEW s, NEW d, Copyable(t, s, d)
  PROVE  /\ s \in Seq(Names) /\ s # <<>> /\ d \in Seq(Names) /\ d # <<>>
         /\ Len(s) \in Nat /\ Len(d) \in Nat
         /\ t[s] = DirNode
         /\ \A q \in DOMAIN t : q \in Seq(Names) /\ ~IsPrefix(d, q)
<1>1. s \in Seq(Names) /\ s # <<>> /\ d \in Seq(Names) /\ d # <<>> /\ IsNode(t[s]) /\ t[s].kind = "dir"
  BY DEF Copyable, Place, IsTree, IsDir
<1>2. t[s] = DirNode
  BY <1>1 DEF IsNode, FileNode, LinkNode
<1>3. \A q \in DOMAIN t : q \in Seq(Names)
  BY DEF Copyable, IsTree
<1> QED
  BY <1>1, <1>2, <1>3, NothingBelow DEF Copyable

LEMMA ChosenFacts ==
  ASSUME NEW t, NEW s, NEW d, Copyable(t, s, d), NEW some \in SUBSET Names,
         NEW q \in Chosen(t, s, some)
  PROVE  /\ q \in Below(t, s) /\ IsPrefix(d, Carried(s, d, q))
         /\ Carried(d, s, Carried(s, d, q)) = q /\ Carried(s, d, q) \in Seq(Names)
<1>1. s \in Seq(Names) /\ d \in Seq(Names) /\ s \in DOMAIN t /\ \A r \in DOMAIN t : r \in Seq(Names)
  BY CopyableFacts DEF Copyable
<1>2. q \in DOMAIN t /\ q \in Seq(Names) /\ IsPrefix(s, q)
  <2>1. CASE q = s
    BY <1>1, <2>1, PrefixFacts
  <2>2. CASE q \in DOMAIN t /\ \E n \in some : IsPrefix(Append(s, n), q)
    BY <1>1, <2>2, BelowEntry
  <2> QED
    BY <2>1, <2>2 DEF Chosen
<1> QED
  BY <1>1, <1>2, CarriedThere, CarriedBack, CarriedPoints DEF Below

LEMMA PastedFacts ==
  ASSUME NEW t, NEW s, NEW d, Copyable(t, s, d), NEW some \in SUBSET Names,
         NEW u, u = Pasted(t, s, d, some)
  PROVE  /\ Part(t, u)
         /\ \A q \in Chosen(t, s, some) : Carried(s, d, q) \in DOMAIN u /\ u[Carried(s, d, q)] = t[q]
         /\ d \in DOMAIN u /\ u[d] = DirNode /\ IsDir(u, d)
         /\ \A p \in DOMAIN u : IsPrefix(s, p) => p \in DOMAIN t
<1>1. /\ s \in Seq(Names) /\ d \in Seq(Names) /\ t[s] = DirNode
      /\ \A q \in DOMAIN t : q \in Seq(Names) /\ ~IsPrefix(d, q)
  BY CopyableFacts
<1>2. /\ DOMAIN u = DOMAIN t \cup Copies(t, s, d, some)
      /\ \A p \in DOMAIN u : u[p] = IF IsPrefix(d, p) THEN t[Carried(d, s, p)] ELSE t[p]
  BY DEF Pasted
<1>3. \A p \in DOMAIN t : p \in DOMAIN u /\ u[p] = t[p]
  BY <1>1, <1>2
<1>4. \A q \in Chosen(t, s, some) : Carried(s, d, q) \in DOMAIN u /\ u[Carried(s, d, q)] = t[q]
  BY <1>2, ChosenFacts DEF Copies
<1>5. d \in DOMAIN u /\ u[d] = DirNode
  <2>1. s \in Chosen(t, s, some)
    BY DEF Chosen
  <2>2. Carried(s, d, s) = d
    BY <1>1, CarriedItself
  <2> QED BY <1>1, <1>4, <2>1, <2>2
<1>6. IsDir(u, d)
  BY <1>5 DEF IsDir, DirNode
<1>7. ASSUME NEW p \in DOMAIN u, IsPrefix(s, p) PROVE p \in DOMAIN t
  <2> SUFFICES ASSUME p \notin DOMAIN t PROVE FALSE
    OBVIOUS
  <2>1. PICK q \in Chosen(t, s, some) : p = Carried(s, d, q)
    BY <1>2 DEF Copies
  <2>2. IsPrefix(d, p) /\ p \in Seq(Names)
    BY <2>1, ChosenFacts
  <2>3. IsPrefix(s, d) \/ IsPrefix(d, s)
    BY <1>1, <1>7, <2>2, AboveEachOther
  <2> QED
    BY <1>1, <2>3 DEF Copyable
<1> QED
  BY <1>2, <1>3, <1>4, <1>5, <1>6, <1>7 DEF Part

(* At first there is the directory alone, *)
LEMMA PastedNone ==
  ASSUME NEW t, NEW s, NEW d, Copyable(t, s, d)
  PROVE  Pasted(t, s, d, {}) = With(t, d, DirNode)
<1>1. /\ s \in Seq(Names) /\ d \in Seq(Names) /\ t[s] = DirNode
      /\ \A q \in DOMAIN t : ~IsPrefix(d, q)
  BY CopyableFacts
<1>2. Carried(s, d, s) = d /\ Carried(d, s, d) = s /\ IsPrefix(d, d)
  BY <1>1, CarriedItself, PrefixFacts
<1>3. Chosen(t, s, {}) = {s}
  BY DEF Chosen
<1>4. Copies(t, s, d, {}) = {d}
  BY <1>2, <1>3 DEF Copies
<1>5. Pasted(t, s, d, {}) = [p \in DOMAIN t \cup {d} |-> IF IsPrefix(d, p) THEN t[Carried(d, s, p)] ELSE t[p]]
  BY <1>4 DEF Pasted
<1>6. \A p \in DOMAIN t \cup {d} :
         (IF IsPrefix(d, p) THEN t[Carried(d, s, p)] ELSE t[p]) = (IF p = d THEN DirNode ELSE t[p])
  BY <1>1, <1>2
<1> QED
  BY <1>5, <1>6 DEF With

(* and at last all of it. *)
LEMMA PastedAll ==
  ASSUME NEW t, NEW s, NEW d, Copyable(t, s, d)
  PROVE  Pasted(t, s, d, Names) = Grafted(t, s, d)
<1>1. s \in Seq(Names) /\ s \in DOMAIN t /\ \A q \in DOMAIN t : q \in Seq(Names)
  BY CopyableFacts DEF Copyable
<1>2. ASSUME NEW q \in DOMAIN t
      PROVE  q \in Chosen(t, s, Names) <=> IsPrefix(s, q)
  <2>1. q \in Seq(Names)
    BY <1>1
  <2>2. q = s => IsPrefix(s, q)
    BY <1>1, PrefixFacts
  <2>3. (\E n \in Names : IsPrefix(Append(s, n), q)) => IsPrefix(s, q)
    BY <1>1, <2>1, BelowEntry
  <2>4. IsPrefix(s, q) /\ q # s => \E n \in Names : IsPrefix(Append(s, n), q)
    BY <1>1, <2>1, EntryAbove
  <2> QED
    BY <2>2, <2>3, <2>4 DEF Chosen
<1>3. Chosen(t, s, Names) = Below(t, s)
  <2>1. Chosen(t, s, Names) \subseteq DOMAIN t
    BY <1>1 DEF Chosen
  <2> QED
    BY <1>2, <2>1 DEF Below
<1> QED
  BY <1>3 DEF Pasted, Grafted, Carried, Copies

(* Of what nothing is in, a copy is one node more. *)
LEMMA GraftedOne ==
  ASSUME NEW t, IsTree(t), NEW s \in DOMAIN t, Below(t, s) = {s},
         NEW d, Place(t, d), d \notin DOMAIN t
  PROVE  Grafted(t, s, d) = With(t, d, t[s])
<1>1. /\ s \in Seq(Names) /\ d \in Seq(Names) /\ d # <<>>
      /\ \A q \in DOMAIN t : ~IsPrefix(d, q)
  BY NothingBelow DEF IsTree, Place
<1>2. Carried(s, d, s) = d /\ Carried(d, s, d) = s /\ IsPrefix(d, d)
  BY <1>1, CarriedItself, PrefixFacts
<1>3. {Carried(s, d, q) : q \in Below(t, s)} = {d}
  BY <1>2
<1>4. Grafted(t, s, d) = [p \in DOMAIN t \cup {Carried(s, d, q) : q \in Below(t, s)} |->
                            IF IsPrefix(d, p) THEN t[Carried(d, s, p)] ELSE t[p]]
  BY DEF Grafted, Carried
<1>5. \A p \in DOMAIN t \cup {d} :
         (IF IsPrefix(d, p) THEN t[Carried(d, s, p)] ELSE t[p]) = (IF p = d THEN t[s] ELSE t[p])
  BY <1>1, <1>2
<1> QED
  BY <1>3, <1>4, <1>5 DEF With

(* A path that is a place leads there if something is there, but no link. *)
LEMMA PlaceResolves ==
  ASSUME NEW t, IsTree(t), NEW p, Place(t, p)
  PROVE  /\ p \in DOMAIN t \ Links(t) => pathresolver(t, p) = p
         /\ p \notin DOMAIN t => pathresolver(t, p) = Err
<1> DEFINE at == Front(p)
           n == Last(p)
<1>1. at \in Seq(Names) /\ n \in Names /\ p = Append(at, n) /\ IsDir(t, at)
  BY FrontLast DEF Place
<1>2. pathresolver(t, at) = at
  BY <1>1, DirResolves
<1>3. at \in Seq(PathNames) /\ n \in PathNames /\ n \notin {".", ".."}
  BY <1>1, SpecialNames DEF PathNames
<1> HIDE DEF at, n
<1>4. pathresolver(t, p) = Onto(t, LinkEnds(t), n, at)
  BY <1>1, <1>2, <1>3, LeadsOn
<1> QED
  BY <1>1, <1>3, <1>4 DEF Onto, Links

LEMMA FreePlaceOpened ==
  ASSUME NEW t, IsTree(t), NEW p, Place(t, p), p \notin DOMAIN t
  PROVE  Opened(t, p) = p
<1>1. pathresolver(t, p) = Err /\ Spot(t, p) = p /\ p \notin Links(t)
  BY PlaceResolves, SpotSame DEF Links
<1>2. PICK g : /\ Opened(t, p) = (IF g[MaxLinks] \in DOMAIN t THEN Err ELSE g[MaxLinks])
               /\ g[0] = Spot(t, p)
               /\ \A i \in 1..MaxLinks :
                    g[i] = IF g[i - 1] \in Links(t) THEN Spot(t, t[g[i - 1]].data) ELSE g[i - 1]
  BY <1>1, OpenedSteps
<1>3. g[0] = p /\ \A i \in 1..3 : g[i - 1] = p => g[i] = p
  BY <1>1, <1>2 DEF MaxLinks
<1>4. g[3] = p
  BY <1>3
<1> QED
  BY <1>2, <1>4 DEF MaxLinks

(* A file is copied exactly where nothing is. *)
LEMMA CopyFileGrafts ==
  ASSUME NEW t, IsTree(t), NEW s \in DOMAIN t \ Links(t), ~IsDir(t, s),
         NEW d, Place(t, d), d \notin DOMAIN t
  PROVE  copy_file(t, s, d) = Grafted(t, s, d)
<1>1. pathresolver(t, s) = s /\ s # Err /\ s \in Seq(Names)
  BY TreePlaces, PlaceResolves, SpecialNames DEF IsTree
<1>2. Opened(t, d) = d /\ d # Err /\ ~IsDir(t, d)
  BY FreePlaceOpened, SpecialNames DEF Place, IsDir
<1> DEFINE new == t[s].data
           all == new \o SubSeq(<<>>, Len(new) + 1, Len(<<>>))
<1>3. copy_file(t, s, d) = With(t, d, FileNode(all))
  BY <1>1, <1>2 DEF copy_file
<1>4. t[s] = FileNode(new) /\ new \in Seq(Nat)
  BY FileData
<1>5. all = new
  <2> HIDE DEF new
  <2>1. SubSeq(<<>>, Len(new) + 1, Len(<<>>)) = <<>>
    BY <1>4
  <2> QED BY <1>4, <2>1
<1>6. Below(t, s) = {s}
  <2>1. ASSUME NEW q \in DOMAIN t, IsPrefix(s, q) PROVE q = s
    BY <1>1, <2>1, EntryExists DEF IsTree
  <2>2. IsPrefix(s, s)
    BY <1>1, PrefixFacts
  <2> QED
    BY <2>1, <2>2 DEF Below
<1> QED
  BY <1>3, <1>4, <1>5, <1>6, GraftedOne

(* Two entries of a directory have nothing in common. *)
LEMMA EntriesApart ==
  ASSUME NEW S, NEW d \in Seq(S), NEW m \in S, NEW n \in S, NEW q \in Seq(S),
         IsPrefix(Append(d, m), q), IsPrefix(Append(d, n), q)
  PROVE  m = n
<1> DEFINE e == Append(d, m)
           f == Append(d, n)
<1>1. /\ e \in Seq(S) /\ Len(e) = Len(d) + 1 /\ e[Len(d) + 1] = m
      /\ f \in Seq(S) /\ Len(f) = Len(d) + 1 /\ f[Len(d) + 1] = n
      /\ Len(d) \in Nat
  OBVIOUS
<1>2. e \in Seq(S) /\ f \in Seq(S) /\ IsPrefix(e, q) /\ IsPrefix(f, q)
  OBVIOUS
<1> HIDE DEF e, f
<1>3. (\A i \in 1..Len(e) : e[i] = q[i]) /\ (\A i \in 1..Len(f) : f[i] = q[i])
  BY <1>2, PrefixPoints
<1> QED
  BY <1>1, <1>3

(* What is at e is in u as it was in t, and can be copied to f. *)
Waiting(t, u, e, f) ==
  /\ e \in DOMAIN u /\ u[e] = t[e]
  /\ Below(u, e) = Below(t, e) /\ \A q \in Below(t, e) : u[q] = t[q]
  /\ Place(u, f) /\ f \notin DOMAIN u /\ ~IsPrefix(e, f)

LEMMA EntryWaits ==
  ASSUME NEW t, NEW s, NEW d, Copyable(t, s, d), NEW some \in SUBSET Names,
         NEW n \in Names \ some, Append(s, n) \in DOMAIN t,
         NEW u, u = Pasted(t, s, d, some),
         NEW e, e = Append(s, n), NEW f, f = Append(d, n)
  PROVE  Waiting(t, u, e, f)
<1>1. /\ s \in Seq(Names) /\ s # <<>> /\ d \in Seq(Names) /\ d # <<>> /\ t[s] = DirNode
      /\ Len(s) \in Nat /\ Len(d) \in Nat
      /\ \A q \in DOMAIN t : q \in Seq(Names) /\ ~IsPrefix(d, q)
  BY CopyableFacts
<1>2. /\ DOMAIN u = DOMAIN t \cup Copies(t, s, d, some)
      /\ Part(t, u)
      /\ IsDir(u, d)
      /\ \A p \in DOMAIN u : IsPrefix(s, p) => p \in DOMAIN t
  <2>1. DOMAIN u = DOMAIN t \cup Copies(t, s, d, some)
    BY DEF Pasted
  <2> QED
    BY <2>1, PastedFacts
<1>3. /\ e \in Seq(Names) /\ Len(e) = Len(s) + 1
      /\ f \in Seq(Names) /\ Len(f) = Len(d) + 1 /\ f # <<>>
      /\ Front(f) = d /\ Front(e) = s
  <2>1. e \in Seq(Names) /\ f \in Seq(Names)
    BY <1>1
  <2>2. Front(e) = s /\ Len(e) = Len(s) + 1
    BY <1>1, FrontAppend
  <2>3. Front(f) = d /\ Len(f) = Len(d) + 1 /\ f # <<>>
    BY <1>1, FrontAppend
  <2> QED
    BY <2>1, <2>2, <2>3
<1>4. \A q \in Seq(Names) : IsPrefix(e, q) => IsPrefix(s, q)
  BY <1>1, BelowEntry
<1>5. Below(u, e) = Below(t, e)
  <2>1. ASSUME NEW q \in DOMAIN u, IsPrefix(e, q) PROVE q \in DOMAIN t
    <3>1. q \in Seq(Names)
      <4>1. CASE q \in DOMAIN t
        BY <1>1, <4>1
      <4>2. CASE \E r \in Chosen(t, s, some) : q = Carried(s, d, r)
        BY <4>2, ChosenFacts
      <4> QED BY <1>2, <4>1, <4>2 DEF Copies
    <3> QED BY <1>2, <1>4, <2>1, <3>1
  <2> QED
    BY <1>2, <2>1 DEF Below, Part
<1>6. Place(u, f)
  BY <1>2, <1>3 DEF Place
<1>7. IsPrefix(f, f) /\ IsPrefix(d, f) /\ IsPrefix(e, e)
  BY <1>1, <1>3, PrefixFacts
<1>8. f \notin DOMAIN u
  <2> SUFFICES ASSUME f \in DOMAIN u PROVE FALSE
    OBVIOUS
  <2>1. PICK q \in Chosen(t, s, some) : f = Carried(s, d, q)
    BY <1>1, <1>2, <1>7 DEF Copies
  <2>2. CASE q = s
    <3>1. f = d
      BY <1>1, <2>1, <2>2, CarriedItself
    <3> QED BY <1>1, <1>3, <3>1
  <2>3. CASE q # s
    <3>1. PICK m \in some : IsPrefix(Append(s, m), q)
      BY <2>1, <2>3 DEF Chosen
    <3>2. q \in Seq(Names)
      BY <1>1, <2>1, ChosenFacts DEF Below
    <3>3. IsPrefix(Append(d, m), f)
      BY <1>1, <2>1, <3>1, <3>2, CarriedOn
    <3>4. m = n
      BY <1>1, <1>3, <1>7, <3>3, EntriesApart
    <3> QED
      BY <3>4
  <2> QED
    BY <2>2, <2>3
<1>9. ~IsPrefix(e, f)
  <2> SUFFICES ASSUME IsPrefix(e, f) PROVE FALSE
    OBVIOUS
  <2>1. IsPrefix(e, d) \/ e = f
    <3>1. IsPrefix(e, f) /\ e # f => IsPrefix(e, Front(f))
      BY <1>3, PrefixFacts
    <3> QED BY <1>3, <3>1
  <2>2. CASE IsPrefix(e, d)
    BY <1>1, <1>4, <2>2 DEF Copyable
  <2>3. CASE e = f
    <3>1. s = d
      BY <1>3, <2>3
    <3> QED BY <1>1, <3>1 DEF Copyable
  <2> QED
    BY <2>1, <2>2, <2>3
<1> QED
  BY <1>2, <1>5, <1>6, <1>8, <1>9 DEF Below, Part, Waiting

(* And with a copy of that entry there, the copy is so much further. *)
LEMMA PastedMore ==
  ASSUME NEW t, NEW s, NEW d, Copyable(t, s, d), NEW some \in SUBSET Names,
         NEW n \in Names \ some, Append(s, n) \in DOMAIN t
  PROVE  Grafted(Pasted(t, s, d, some), Append(s, n), Append(d, n)) = Pasted(t, s, d, some \cup {n})
<1> SUFFICES ASSUME NEW u, u = Pasted(t, s, d, some),
                    NEW e, e = Append(s, n), NEW f, f = Append(d, n)
             PROVE  Grafted(u, e, f) = Pasted(t, s, d, some \cup {n})
  OBVIOUS
<1> DEFINE more == some \cup {n}
<1>1. /\ s \in Seq(Names) /\ d \in Seq(Names)
      /\ \A q \in DOMAIN t : q \in Seq(Names) /\ ~IsPrefix(d, q)
  BY CopyableFacts
<1>2. /\ DOMAIN u = DOMAIN t \cup Copies(t, s, d, some)
      /\ \A p \in DOMAIN u : u[p] = IF IsPrefix(d, p) THEN t[Carried(d, s, p)] ELSE t[p]
  BY PastedFacts DEF Pasted
<1>3. /\ Below(u, e) = Below(t, e) /\ \A q \in Below(t, e) : u[q] = t[q]
  <2>1. Waiting(t, u, e, f)
    BY EntryWaits
  <2> QED BY <2>1 DEF Waiting
<1>4. more \in SUBSET Names /\ n \in Names /\ f \in Seq(Names) /\ e \in Seq(Names)
  BY <1>1
<1>5. ASSUME NEW q \in Below(t, e)
      PROVE  /\ q \in Chosen(t, s, more) /\ q \in Seq(Names)
             /\ Carried(e, f, q) = Carried(s, d, q) /\ IsPrefix(f, Carried(s, d, q))
  <2>1. q \in DOMAIN t /\ IsPrefix(Append(s, n), q) /\ q \in Seq(Names)
    BY <1>1, <1>5 DEF Below
  <2>2. q \in Chosen(t, s, more)
    BY <2>1 DEF Chosen
  <2> QED
    BY <1>1, <1>4, <2>1, <2>2, CarriedOn
<1>6. Chosen(t, s, more) = Chosen(t, s, some) \cup Below(t, e)
  BY DEF Chosen, Below
<1> DEFINE Value(p) == IF IsPrefix(d, p) THEN t[Carried(d, s, p)] ELSE t[p]
           D == DOMAIN t \cup Copies(t, s, d, more)
<1>7. Pasted(t, s, d, more) = [p \in D |-> Value(p)]
  BY DEF Pasted
<1> DEFINE E == DOMAIN u \cup {Carried(e, f, q) : q \in Below(u, e)}
           Node(p) == IF IsPrefix(f, p) THEN u[Carried(f, e, p)] ELSE u[p]
<1>8. Grafted(u, e, f) = [p \in E |-> Node(p)]
  BY DEF Grafted, Carried
<1> HIDE DEF more, Value, Node
<1>9. E = D
  <2>1. {Carried(e, f, q) : q \in Below(u, e)} = {Carried(s, d, q) : q \in Below(t, e)}
    BY <1>3, <1>5
  <2> QED
    BY <1>2, <1>6, <2>1 DEF Copies
<1>10. ASSUME NEW p \in E PROVE Node(p) = Value(p)
  <2>1. CASE ~IsPrefix(f, p)
    <3>1. p \in DOMAIN u
      BY <1>3, <1>5, <1>10, <2>1
    <3> QED
      BY <1>2, <2>1, <3>1 DEF Node, Value
  <2>2. CASE IsPrefix(f, p)
    <3>1. PICK q \in Below(t, e) : p = Carried(s, d, q)
      <4> SUFFICES ASSUME p \in DOMAIN u, p \notin {Carried(s, d, q) : q \in Below(t, e)} PROVE FALSE
        BY <1>3, <1>5
      <4>1. p \in DOMAIN t => IsPrefix(d, p)
        BY <1>1, <1>4, <2>2, BelowEntry
      <4>2. PICK q \in Chosen(t, s, some) : p = Carried(s, d, q)
        BY <1>1, <1>2, <4>1 DEF Copies
      <4>3. q \in DOMAIN t /\ q \in Seq(Names) /\ IsPrefix(s, q) /\ p \in Seq(Names)
        BY <1>1, <4>2, ChosenFacts DEF Below
      <4>4. CASE q = s
        <5>1. p = d
          BY <1>1, <4>2, <4>4, CarriedItself
        <5>2. d # d
          BY <1>1, <1>4, <2>2, <5>1, BelowEntry
        <5> QED BY <5>2
      <4>5. CASE q # s
        <5>1. PICK m \in some : IsPrefix(Append(s, m), q)
          BY <4>2, <4>5 DEF Chosen
        <5>2. IsPrefix(Append(d, m), p)
          BY <1>1, <4>2, <4>3, <5>1, CarriedOn
        <5>3. m = n
          BY <1>1, <1>4, <2>2, <4>3, <5>2, EntriesApart
        <5> QED
          BY <5>3
      <4> QED
        BY <4>4, <4>5
    <3>2. Carried(d, s, p) = q /\ IsPrefix(d, p)
      BY <1>4, <1>5, <3>1, ChosenFacts
    <3>3. Carried(f, e, p) = q
      <4>1. q \in Seq(Names) /\ IsPrefix(e, q) /\ p = Carried(e, f, q)
        BY <1>5, <3>1 DEF Below
      <4> QED BY <1>4, <4>1, CarriedBack
    <3> QED
      BY <1>3, <2>2, <3>1, <3>2, <3>3 DEF Node, Value
  <2> QED
    BY <2>1, <2>2
<1> QED
  BY <1>7, <1>8, <1>9, <1>10 DEF more

(* An entry that is not there makes no difference. *)
LEMMA PastedNothing ==
  ASSUME NEW t, NEW s, NEW d, Copyable(t, s, d), NEW some, NEW n \in Names,
         Append(s, n) \notin DOMAIN t
  PROVE  Pasted(t, s, d, some \cup {n}) = Pasted(t, s, d, some)
<1>1. IsTree(t) /\ s \in Seq(Names)
  BY CopyableFacts DEF Copyable
<1>2. Append(s, n) \in Seq(Names) /\ Append(s, n) # <<>>
  BY <1>1, FrontAppend
<1>3. \A q \in DOMAIN t : ~IsPrefix(Append(s, n), q)
  BY <1>1, <1>2, NothingBelow
<1>4. Chosen(t, s, some \cup {n}) = Chosen(t, s, some)
  BY <1>3 DEF Chosen
<1> QED
  BY <1>4 DEF Pasted, Copies

(* A directory without links, and deeper than that many more can be opened *)
(* nowhere, is copied exactly.                                             *)
Grafts(open) ==
  \A t, s, d : Copyable(t, s, d) /\ Shallow(t, s, open) =>
    \A names \in Orders : CopyDir(t, s, d, names, open) = Grafted(t, s, d)

LEMMA EntryPasted ==
  ASSUME NEW open \in Nat, open < MaxOpen, Grafts(open + 1),
         NEW t, NEW s, NEW d, Copyable(t, s, d), Shallow(t, s, open), NEW names \in Orders,
         NEW some \in SUBSET Names, NEW name \in (Names \cup {".", ".."}) \ some,
         NEW u, u = Pasted(t, s, d, some), IsTree(u),
         NEW on, on.tree = With(t, d, DirNode), on.source = s, on.destination = d,
         on.order = names, on.open = open
  PROVE  CopyEntry(on, name, u) = Pasted(t, s, d, some \cup ({name} \cap Names))
<1> DEFINE made == With(t, d, DirNode)
           e == Append(s, name)
           f == Append(d, name)
<1>1. /\ s \in Seq(Names) /\ d \in Seq(Names) /\ Len(s) \in Nat /\ MaxOpen \in Nat
      /\ \A q \in DOMAIN t : q \in Seq(Names)
      /\ IsTree(t) /\ s \in DOMAIN t /\ IsDir(t, s) /\ ~IsPrefix(s, d) /\ d \notin DOMAIN t /\ Place(t, d)
  BY CopyableFacts, FileTreeAssumption DEF Copyable
<1>2. e \in Seq(Names \cup {".", ".."}) /\ Len(e) = Len(s) + 1 /\ e[Len(s) + 1] = name
  <2>1. s \in Seq(Names \cup {".", ".."})
    BY <1>1
  <2> QED BY <2>1
<1>3. e \in Seq(Names) => name \in Names
  <2>1. Len(s) + 1 \in 1..(Len(s) + 1)
    BY <1>1
  <2> HIDE DEF e
  <2> QED BY <1>2, <2>1
<1>4. e # d
  <2> SUFFICES ASSUME e = d PROVE FALSE
    OBVIOUS
  <2>1. name \in Names /\ e \in Seq(Names)
    BY <1>1, <1>3
  <2>2. IsPrefix(e, e)
    BY <2>1, PrefixFacts
  <2>3. IsPrefix(s, e)
    BY <1>1, <2>1, <2>2, BelowEntry
  <2> QED BY <1>1, <2>3
<1>5. InListing(on.tree, on.source, name) <=> e \in DOMAIN t
  <2>1. IsTree(made)
    <3>1. IsNode(DirNode) /\ ~IsDir(t, d)
      BY <1>1 DEF IsNode, IsDir, Place
    <3> QED BY <1>1, <3>1, WithKeeps
  <2>2. DOMAIN made = DOMAIN t \cup {d} /\ IsDir(made, s)
    BY <1>1 DEF With, IsDir, DirNode
  <2>3. pathresolver(made, s) = s
    BY <2>1, <2>2, DirResolves
  <2> QED
    BY <1>4, <2>2, <2>3 DEF InListing
<1>6. CASE e \notin DOMAIN t
  <2>1. CopyEntry(on, name, u) = u
    BY <1>5, <1>6 DEF CopyEntry
  <2>2. CASE name \in Names
    <3>1. some \cup ({name} \cap Names) = some \cup {name}
      BY <2>2
    <3> QED BY <1>6, <2>1, <2>2, <3>1, PastedNothing
  <2>3. CASE name \notin Names
    <3>1. some \cup ({name} \cap Names) = some
      BY <2>3
    <3> QED BY <2>1, <3>1
  <2> QED BY <2>2, <2>3
<1>7. CASE e \in DOMAIN t
  <2>1. name \in Names /\ e \in Seq(Names) /\ name \notin some
    BY <1>1, <1>3, <1>7
  <2>2. some \cup ({name} \cap Names) = some \cup {name}
    BY <2>1
  <2>3. Waiting(t, u, e, f)
    BY <1>7, <2>1, EntryWaits
  <2>4. Grafted(u, e, f) = Pasted(t, s, d, some \cup {name})
    <3>1. name \in Names \ some
      BY <2>1
    <3>2. e = Append(s, name) /\ f = Append(d, name) /\ Append(s, name) \in DOMAIN t
      BY <1>7
    <3> HIDE DEF e, f, made
    <3>3. Grafted(Pasted(t, s, d, some), Append(s, name), Append(d, name))
            = Pasted(t, s, d, some \cup {name})
      BY <3>1, <3>2, PastedMore
    <3> QED BY <3>2, <3>3
  <2>5. \A q \in Below(t, e) : q \in Below(t, s) /\ q \in Seq(Names) /\ Len(q) \in Nat
    <3> SUFFICES ASSUME NEW q \in DOMAIN t, IsPrefix(e, q)
                 PROVE  IsPrefix(s, q) /\ q \in Seq(Names) /\ Len(q) \in Nat
      BY DEF Below
    <3>1. q \in Seq(Names) /\ Len(q) \in Nat
      BY <1>1
    <3> QED BY <1>1, <2>1, <3>1, BelowEntry
  <2>6. e \in Below(t, e)
    <3>1. IsPrefix(e, e)
      BY <2>1, PrefixFacts
    <3> QED BY <1>7, <3>1 DEF Below
  <2> HIDE DEF e, f, made
  <2>7. Shallow(u, e, open + 1)
    <3> SUFFICES ASSUME NEW q \in Below(u, e)
                 PROVE  q \notin Links(u) /\ Len(q) - Len(e) <= MaxOpen - (open + 1)
      BY DEF Shallow
    <3>1. q \in Below(t, e) /\ q \in DOMAIN t /\ u[q] = t[q]
      BY <2>3 DEF Waiting, Below
    <3>2. q \in Below(t, s) /\ q \in Seq(Names) /\ Len(q) \in Nat
      BY <2>5, <3>1
    <3>3. q \notin Links(t) /\ Len(q) - Len(s) <= MaxOpen - open
      BY <3>2 DEF Shallow
    <3> QED
      BY <1>1, <1>2, <3>1, <3>2, <3>3 DEF Links
  <2>8. e \in DOMAIN u \ Links(u) /\ pathresolver(u, e) = e
    <3>1. e \in DOMAIN u /\ e \notin Links(u)
      BY <2>3, <2>6, <2>7 DEF Waiting, Shallow
    <3> QED BY <3>1, TreePlaces, PlaceResolves
  <2>9. CopyEntry(on, name, u) = IF IsDir(u, e) THEN CopyDir(u, e, f, names, open + 1) ELSE copy_file(u, e, f)
    BY <1>5, <1>7, <2>8 DEF CopyEntry, checkDir, e, f
  <2>10. Place(u, f) /\ f \notin DOMAIN u /\ ~IsPrefix(e, f)
    BY <2>3 DEF Waiting
  <2>11. CASE IsDir(u, e)
    <3>1. Copyable(u, e, f)
      BY <2>8, <2>10, <2>11 DEF Copyable
    <3> QED
      BY <2>2, <2>4, <2>7, <2>9, <2>11, <3>1 DEF Grafts
  <2>12. CASE ~IsDir(u, e)
    <3>1. copy_file(u, e, f) = Grafted(u, e, f)
      BY <2>8, <2>10, <2>12, CopyFileGrafts
    <3> QED
      BY <2>2, <2>4, <2>9, <2>12, <3>1
  <2> QED
    BY <2>11, <2>12
<1> QED
  BY <1>6, <1>7

LEMMA CopyEntryKeeps ==
  ASSUME NEW open, KeepTrees(open + 1), NEW s \in Seq(PathNames), NEW d \in Seq(PathNames),
         NEW names \in Orders,
         NEW on, on.source = s, on.destination = d, on.order = names, on.open = open,
         NEW name \in Names \cup {".", ".."}, NEW u, IsTree(u)
  PROVE  IsTree(CopyEntry(on, name, u))
<1> DEFINE p == Append(s, name)
           q == Append(d, name)
<1>1. p \in Seq(PathNames) /\ q \in Seq(PathNames)
  BY NamesTyped
<1>2. /\ IsTree(CopyDir(u, p, q, names, open + 1))
      /\ ~checkDir(u, p) => IsTree(copy_file(u, p, q))
  BY <1>1, CopyFileKeeps DEF KeepTrees
<1> QED
  BY <1>2 DEF CopyEntry

LEMMA EntriesPasted ==
  ASSUME NEW open \in Nat, open < MaxOpen, Grafts(open + 1), KeepTrees(open + 1),
         NEW t, NEW s, NEW d, Copyable(t, s, d), Shallow(t, s, open), NEW names \in Orders,
         NEW on, on.tree = With(t, d, DirNode), on.source = s, on.destination = d,
         on.order = names, on.open = open
  PROVE  CopyEntries(on) = Grafted(t, s, d)
<1> DEFINE S == Names \cup {".", ".."}
           l == Len(names)
           whole == CopyEntries(on)
           made == With(t, d, DirNode)
           Read(i) == {n \in Names : \E j \in 1..i : names[j] = n}
<1>1. /\ names \in Seq(S) /\ l \in Nat /\ \A n \in Names : \E i \in 1..l : names[i] = n
      /\ \A i, j \in 1..l : names[i] = names[j] => i = j
  BY ExplorerAssumption
<1>2. whole = CopyingEach!SeqFold(names, on, made)
  BY DEF CopyEntries, FoldLeft, MapThenFoldSet, Max,
         CopyingEach!SeqFold, CopyingEach!SeqFolds, CopyingEach!Greatest
<1>3. made = Pasted(t, s, d, {}) /\ IsTree(made)
  <2>1. made = Pasted(t, s, d, {})
    BY PastedNone
  <2>2. IsTree(t) /\ Place(t, d) /\ ~IsDir(t, d) /\ IsNode(DirNode)
    BY DEF Copyable, Place, IsDir, IsNode
  <2> QED BY <2>1, <2>2, WithKeeps
<1>4. s \in Seq(PathNames) /\ d \in Seq(PathNames)
  BY CopyableFacts, SpecialNames
<1> HIDE DEF S, l, whole, made
<1>5. PICK g : /\ whole = g[l] /\ g[0] = made
               /\ \A i \in 1..l : g[i] = CopyEntry(on, names[i], g[i - 1])
  BY <1>1, <1>2, CopyingEach!SeqFoldSteps DEF l
<1> DEFINE Q == {i \in 0..l : g[i] = Pasted(t, s, d, Read(i)) /\ IsTree(g[i])}
<1>6. 0 \in Q
  <2>1. Read(0) = {}
    OBVIOUS
  <2>2. 0 \in 0..l
    BY <1>1
  <2> QED
    BY <1>3, <1>5, <2>1, <2>2
<1>7. ASSUME NEW i \in 1..l, i - 1 \in Q PROVE i \in Q
  <2>1. i \in 0..l /\ names[i] \in S
    <3>1. names[i] \in S
      BY <1>1 DEF l
    <3> QED BY <1>1, <3>1
  <2>2. g[i - 1] = Pasted(t, s, d, Read(i - 1)) /\ IsTree(g[i - 1])
    BY <1>7
  <2>3. g[i] = CopyEntry(on, names[i], g[i - 1])
    BY <1>5
  <2>4. Read(i) = Read(i - 1) \cup ({names[i]} \cap Names)
    BY <1>1
  <2>5. Read(i - 1) \in SUBSET Names /\ names[i] \notin Read(i - 1)
    BY <1>1
  <2> HIDE DEF Read
  <2>6. CopyEntry(on, names[i], g[i - 1]) = Pasted(t, s, d, Read(i - 1) \cup ({names[i]} \cap Names))
    BY <2>1, <2>2, <2>5, EntryPasted DEF S, made
  <2>7. IsTree(CopyEntry(on, names[i], g[i - 1]))
    BY <1>4, <2>1, <2>2, CopyEntryKeeps DEF S
  <2> QED
    BY <2>1, <2>3, <2>4, <2>6, <2>7
<1>8. l \in Q
  <2> HIDE DEF Q
  <2> QED BY <1>1, <1>6, <1>7, CopyingEach!StepByStep
<1>9. Read(l) = Names
  BY <1>1
<1> QED
  BY <1>5, <1>8, <1>9, PastedAll DEF whole

LEMMA CopyLevelGrafts ==
  ASSUME NEW open \in 0..MaxOpen, open = MaxOpen \/ (Grafts(open + 1) /\ KeepTrees(open + 1)),
         NEW t, NEW s, NEW d, Copyable(t, s, d), Shallow(t, s, open), NEW names \in Orders
  PROVE  copy_level(t, s, d, names, open) = Grafted(t, s, d)
<1> DEFINE made == With(t, d, DirNode)
           on == [tree |-> made, source |-> s, destination |-> d, order |-> names, open |-> open]
<1>1. /\ s \in Seq(Names) /\ d \in Seq(Names) /\ Len(s) \in Nat /\ t[s] = DirNode
      /\ \A q \in DOMAIN t : q \in Seq(Names)
      /\ IsTree(t) /\ s \in DOMAIN t /\ d \notin DOMAIN t /\ Place(t, d)
  BY CopyableFacts DEF Copyable
<1>2. Spot(t, d) = d /\ d # Err
  BY <1>1, SpotSame
<1>3. CanMake(t, d) /\ mkdir(t, d) = made
  BY <1>1, <1>2 DEF CanMake, mkdir
<1>4. CASE open = MaxOpen
  <2>1. ASSUME NEW q \in Below(t, s) PROVE q = s
    <3>1. q \in DOMAIN t /\ IsPrefix(s, q) /\ q \in Seq(Names) /\ Len(q) - Len(s) <= MaxOpen - open
      BY <1>1, <2>1 DEF Below, Shallow
    <3>2. q # s => \E n \in Names : IsPrefix(Append(s, n), q)
      BY <1>1, <3>1, EntryAbove
    <3>3. \A n \in Names : IsPrefix(Append(s, n), q) => Len(q) >= Len(s) + 1
      BY <1>1, <3>1, BelowEntry
    <3>4. ~(Len(q) >= Len(s) + 1)
      BY <1>1, <1>4, <3>1, FileTreeAssumption
    <3> QED
      BY <3>2, <3>3, <3>4
  <2>2. IsPrefix(s, s)
    BY <1>1, PrefixFacts
  <2>3. Below(t, s) = {s}
    BY <1>1, <2>1, <2>2 DEF Below
  <2>4. Grafted(t, s, d) = With(t, d, t[s])
    BY <1>1, <2>3, GraftedOne
  <2> QED
    BY <1>1, <1>3, <1>4, <2>4 DEF copy_level
<1>5. CASE open # MaxOpen
  <2>1. open \in Nat /\ open < MaxOpen /\ Grafts(open + 1) /\ KeepTrees(open + 1)
    BY <1>5, FileTreeAssumption
  <2>2. /\ on.tree = With(t, d, DirNode) /\ on.source = s /\ on.destination = d
        /\ on.order = names /\ on.open = open
    OBVIOUS
  <2>3. copy_level(t, s, d, names, open) = CopyEntries(on)
    BY <1>3, <1>5 DEF copy_level
  <2> HIDE DEF on
  <2>4. CopyEntries(on) = Grafted(t, s, d)
    BY <2>1, <2>2, EntriesPasted
  <2> QED
    BY <2>3, <2>4
<1> QED
  BY <1>4, <1>5

LEMMA CopyingGrafts ==
  ASSUME DirectoriesRecur
  PROVE  Grafts(0)
<1> DEFINE Q == {k \in 0..MaxOpen : Grafts(MaxOpen - k) /\ KeepTrees(MaxOpen - k)}
<1>1. MaxOpen \in Nat /\ MaxOpen - MaxOpen = 0 /\ MaxOpen - 0 = MaxOpen
  BY FileTreeAssumption
<1>2. ASSUME NEW open \in 0..MaxOpen, open = MaxOpen \/ (Grafts(open + 1) /\ KeepTrees(open + 1))
      PROVE  Grafts(open) /\ KeepTrees(open)
  <2>1. \A t, s, d, names : CopyDir(t, s, d, names, open) = copy_level(t, s, d, names, open)
    BY DEF DirectoriesRecur
  <2>2. KeepTrees(open)
    BY <1>2, LevelKeeps
  <2>3. Grafts(open)
    BY <1>2, <2>1, CopyLevelGrafts DEF Grafts
  <2> QED
    BY <2>2, <2>3
<1>3. 0 \in Q
  <2>1. Grafts(MaxOpen) /\ KeepTrees(MaxOpen)
    BY <1>1, <1>2
  <2> QED
    BY <1>1, <2>1
<1>4. ASSUME NEW i \in 1..MaxOpen, i - 1 \in Q PROVE i \in Q
  <2>1. MaxOpen - i \in 0..MaxOpen /\ MaxOpen - (i - 1) = (MaxOpen - i) + 1 /\ i \in 0..MaxOpen
    BY <1>1
  <2>2. Grafts((MaxOpen - i) + 1) /\ KeepTrees((MaxOpen - i) + 1)
    BY <1>4, <2>1
  <2>3. Grafts(MaxOpen - i) /\ KeepTrees(MaxOpen - i)
    BY <1>2, <2>1, <2>2
  <2> QED
    BY <2>1, <2>3
<1>5. MaxOpen \in Q
  <2> HIDE DEF Q
  <2> QED BY <1>1, <1>3, <1>4, CopyingEach!StepByStep
<1> QED
  BY <1>1, <1>5

-----------------------------------------------------------------------------
(* Copying lets nothing disappear, whatever the paths and the links. *)
Grows(u, t) == DOMAIN t \subseteq DOMAIN u

LEMMA WithGrows ==
  ASSUME NEW t, NEW p, NEW node
  PROVE  Grows(With(t, p, node), t)
BY DEF Grows, With

LEMMA CopyFileGrows ==
  ASSUME NEW t, NEW source, NEW destination
  PROVE  Grows(copy_file(t, source, destination), t)
<1>1. PICK p, node : copy_file(t, source, destination) \in {t, With(t, p, node)}
  BY DEF copy_file
<1>2. Grows(t, t)
  BY DEF Grows
<1> QED
  BY <1>1, <1>2, WithGrows

DirectoriesGrow(open) == \A t, s, d, names : names \in Orders => Grows(CopyDir(t, s, d, names, open), t)

LEMMA CopyEntriesGrow ==
  ASSUME NEW open, DirectoriesGrow(open + 1), NEW names \in Orders,
         NEW on, on.order = names, on.open = open
  PROVE  Grows(CopyEntries(on), on.tree)
<1> DEFINE S == Names \cup {".", ".."}
           l == Len(names)
           t == on.tree
           whole == CopyEntries(on)
<1>1. names \in Seq(S) /\ l \in Nat
  BY ExplorerAssumption
<1>2. whole = CopyingEach!SeqFold(names, on, t)
  BY DEF CopyEntries, FoldLeft, MapThenFoldSet, Max,
         CopyingEach!SeqFold, CopyingEach!SeqFolds, CopyingEach!Greatest
<1> HIDE DEF S, l, whole, t
<1>3. PICK g : /\ whole = g[l] /\ g[0] = t
               /\ \A i \in 1..l : g[i] = CopyEntry(on, names[i], g[i - 1])
  BY <1>1, <1>2, CopyingEach!SeqFoldSteps DEF l
<1>4. ASSUME NEW name, NEW u PROVE Grows(CopyEntry(on, name, u), u)
  <2>1. Grows(u, u)
    BY DEF Grows
  <2>2. \A s, d : Grows(CopyDir(u, s, d, names, open + 1), u) /\ Grows(copy_file(u, s, d), u)
    BY CopyFileGrows DEF DirectoriesGrow
  <2> QED
    BY <2>1, <2>2 DEF CopyEntry
<1> DEFINE Q == {i \in 0..l : Grows(g[i], t)}
<1>5. 0 \in Q
  BY <1>1, <1>3 DEF Grows
<1>6. ASSUME NEW i \in 1..l, i - 1 \in Q PROVE i \in Q
  <2>1. i \in 0..l /\ Grows(g[i - 1], t) /\ g[i] = CopyEntry(on, names[i], g[i - 1])
    BY <1>1, <1>3, <1>6
  <2>2. Grows(g[i], g[i - 1])
    BY <1>4, <2>1
  <2> QED
    BY <2>1, <2>2 DEF Grows
<1>7. l \in Q
  <2> HIDE DEF Q
  <2> QED BY <1>1, <1>5, <1>6, CopyingEach!StepByStep
<1> QED
  BY <1>3, <1>7 DEF whole, t

LEMMA CopyLevelGrows ==
  ASSUME NEW open, open = MaxOpen \/ DirectoriesGrow(open + 1),
         NEW t, NEW s, NEW d, NEW names \in Orders
  PROVE  Grows(copy_level(t, s, d, names, open), t)
<1> DEFINE made == mkdir(t, d)
           on == [tree |-> made, source |-> s, destination |-> d, order |-> names, open |-> open]
<1>1. Grows(t, t) /\ Grows(made, t)
  BY WithGrows DEF Grows, mkdir
<1>2. open # MaxOpen => Grows(CopyEntries(on), made)
  <2>1. on.tree = made /\ on.order = names /\ on.open = open
    OBVIOUS
  <2> HIDE DEF on, made
  <2> QED BY <2>1, CopyEntriesGrow
<1> HIDE DEF made
<1>3. copy_level(t, s, d, names, open) \in {t, made}
      \/ (open # MaxOpen /\ copy_level(t, s, d, names, open) = CopyEntries(on))
  BY DEF copy_level, made
<1> QED
  BY <1>1, <1>2, <1>3 DEF Grows

LEMMA CopyingGrows ==
  ASSUME DirectoriesRecur
  PROVE  DirectoriesGrow(0)
<1> DEFINE Q == {k \in 0..MaxOpen : DirectoriesGrow(MaxOpen - k)}
<1>1. MaxOpen \in Nat /\ MaxOpen - MaxOpen = 0 /\ MaxOpen - 0 = MaxOpen
  BY FileTreeAssumption
<1>2. ASSUME NEW open \in 0..MaxOpen, open = MaxOpen \/ DirectoriesGrow(open + 1)
      PROVE  DirectoriesGrow(open)
  <2>1. \A t, s, d, names : CopyDir(t, s, d, names, open) = copy_level(t, s, d, names, open)
    BY DEF DirectoriesRecur
  <2> QED
    BY <1>2, <2>1, CopyLevelGrows DEF DirectoriesGrow
<1>3. 0 \in Q
  <2>1. DirectoriesGrow(MaxOpen)
    BY <1>1, <1>2
  <2> QED
    BY <1>1, <2>1
<1>4. ASSUME NEW i \in 1..MaxOpen, i - 1 \in Q PROVE i \in Q
  <2>1. MaxOpen - i \in 0..MaxOpen /\ MaxOpen - (i - 1) = (MaxOpen - i) + 1 /\ i \in 0..MaxOpen
    BY <1>1
  <2>2. DirectoriesGrow((MaxOpen - i) + 1)
    BY <1>4, <2>1
  <2>3. DirectoriesGrow(MaxOpen - i)
    BY <1>2, <2>1, <2>2
  <2> QED
    BY <2>1, <2>3
<1>5. MaxOpen \in Q
  <2> HIDE DEF Q
  <2> QED BY <1>1, <1>3, <1>4, CopyingEach!StepByStep
<1> QED
  BY <1>1, <1>5

LEMMA CopyexecGrows ==
  ASSUME DirectoriesRecur, order \in Orders, NEW t, NEW args \in Seq(Seq(PathNames))
  PROVE  Grows(copyexec(t, args).tree, t)
<1> DEFINE on == [args |-> args, order |-> order]
           l == Len(Front(args))
<1>1. Untouched(t).tree = t /\ Grows(t, t)
  BY DEF Untouched, Grows
<1>2. CASE Len(args) < 2
  BY <1>1, <1>2 DEF copyexec
<1>3. CASE Len(args) >= 2
  <2>1. l \in Nat
    BY <1>3, SourcesTyped
  <2>2. on.order = order
    OBVIOUS
  <2>3. PICK g : /\ copyexec(t, args) = g[l]
                 /\ g[0] = Untouched(t)
                 /\ \A i \in 1..l : g[i] = CopyOne(on, Front(args)[i], g[i - 1])
    <3> HIDE DEF l
    <3> QED BY <1>3, CopySteps DEF l
  <2> HIDE DEF on, l
  <2>4. ASSUME NEW source, NEW r PROVE Grows(CopyOne(on, source, r).tree, r.tree)
    <3>1. Grows(r.tree, r.tree)
      BY DEF Grows
    <3>2. \A s, d : /\ Grows(CopyDir(r.tree, s, d, order, 0), r.tree)
                    /\ Grows(copy_file(r.tree, s, d), r.tree)
      BY CopyFileGrows, CopyingGrows DEF DirectoriesGrow
    <3> QED
      BY <2>2, <3>1, <3>2 DEF CopyOne
  <2> DEFINE Q == {i \in 0..l : Grows(g[i].tree, t)}
  <2>5. 0 \in Q
    BY <1>1, <2>1, <2>3
  <2>6. ASSUME NEW i \in 1..l, i - 1 \in Q PROVE i \in Q
    <3>1. i \in 0..l /\ Grows(g[i - 1].tree, t) /\ g[i] = CopyOne(on, Front(args)[i], g[i - 1])
      BY <2>1, <2>3, <2>6
    <3>2. Grows(g[i].tree, g[i - 1].tree)
      BY <2>4, <3>1
    <3> QED
      BY <3>1, <3>2 DEF Grows
  <2>7. l \in Q
    <3> HIDE DEF Q
    <3> QED BY <2>1, <2>5, <2>6, Copying!StepByStep
  <2> QED
    BY <2>3, <2>7
<1> QED
  BY <1>2, <1>3, SourcesTyped

(* Where a free target is, so is the copy put. *)
LEMMA TargetPlace ==
  ASSUME NEW t, IsTree(t), NEW args \in Seq(Seq(PathNames)), Len(args) >= 2,
         NEW source \in Seq(PathNames), source # <<>>,
         CanMake(t, Target(t, args, source))
  PROVE  /\ Place(t, Target(t, args, source)) /\ Target(t, args, source) \notin DOMAIN t
         /\ Spot(t, Target(t, args, source)) = Target(t, args, source)
<1> DEFINE at == pathresolver(t, Last(args))
           x == Last(source)
           d == Target(t, args, source)
<1>1. at \in Places(t) /\ at \in Seq(PathNames) /\ x \in PathNames
  <2>1. Last(args) \in Seq(PathNames)
    BY DEF Last
  <2>2. at \in Places(t) /\ at \in Seq(PathNames)
    BY <2>1, ResolvedPlace, ResolvedTyped
  <2>3. x \in PathNames
    BY FrontLast
  <2> QED
    BY <2>2, <2>3
<1>2. d = at \o <<x>>
  BY DEF Target
<1>3. CanMake(t, d)
  OBVIOUS
<1> HIDE DEF at, x, d
<1>4. d = Append(at, x) /\ Front(d) = at /\ Last(d) = x /\ d # <<>>
  <2>1. d = Append(at, x)
    BY <1>1, <1>2
  <2> QED BY <1>1, <2>1, FrontAppend
<1>5. x \in Names /\ IsDir(t, pathresolver(t, at))
  BY <1>3, <1>4 DEF CanMake, Spot, checkDir
<1>6. IsDir(t, at)
  <2>1. CASE at = Err
    <3>1. <<>> \in Seq(PathNames) /\ Append(<<>>, "ERR") = Err /\ "ERR" \in PathNames
      BY DEF Err, PathNames
    <3>2. pathresolver(t, <<>>) = <<>>
      BY DirResolves DEF IsDir
    <3>3. pathresolver(t, Err) = Onto(t, LinkEnds(t), "ERR", <<>>)
      BY <3>1, <3>2, LeadsOn
    <3>4. Err \notin DOMAIN t
      BY SpecialNames DEF IsTree
    <3>5. pathresolver(t, Err) = Err
      BY <3>1, <3>3, <3>4 DEF Onto, IsDir
    <3> QED
      BY <1>5, <2>1, <3>4, <3>5, SpecialNames DEF IsDir
  <2>2. CASE at = <<>>
    BY <2>2 DEF IsDir
  <2>3. CASE at \in DOMAIN t \ Links(t)
    BY <1>5, <2>3, TreePlaces, PlaceResolves
  <2> QED
    BY <1>1, <2>1, <2>2, <2>3 DEF Places
<1>7. Place(t, d)
  <2>1. at \in Seq(Names)
    BY <1>6, DirFacts
  <2>2. d \in Seq(Names)
    BY <1>4, <1>5, <2>1
  <2> QED
    BY <1>4, <1>6, <2>2 DEF Place
<1>8. Spot(t, d) = d /\ d \notin DOMAIN t
  BY <1>3, <1>7, SpotSame DEF CanMake
<1> QED
  BY <1>7, <1>8 DEF d

LEMMA CopyexecGrafts ==
  ASSUME DirectoriesRecur, order \in Orders, NEW t, IsTree(t),
         NEW args \in Seq(Seq(PathNames)), Len(args) = 2,
         NEW s, s = pathresolver(t, args[1]), s \in DOMAIN t, Shallow(t, s, 0),
         NEW d, d = Target(t, args, args[1]), CanMake(t, d), ~IsPrefix(s, Spot(t, d))
  PROVE  copyexec(t, args).tree = Grafted(t, s, Spot(t, d))
<1> DEFINE on == [args |-> args, order |-> order]
           source == args[1]
           r == Untouched(t)
<1>1. Len(args) >= 2 /\ Len(Front(args)) = 1 /\ Front(args)[1] = source
  <2> DEFINE X == Seq(PathNames)
  <2>1. args \in Seq(X) /\ Len(args) = 2
    OBVIOUS
  <2> HIDE DEF X
  <2>2. Len(SubSeq(args, 1, 1)) = 1 /\ SubSeq(args, 1, 1)[1] = args[1]
    BY <2>1
  <2> QED BY <2>2 DEF Front
<1>2. source \in Seq(PathNames)
  <2>1. 1 \in 1..Len(args)
    OBVIOUS
  <2> DEFINE X == Seq(PathNames)
  <2>2. args \in Seq(X)
    OBVIOUS
  <2> HIDE DEF X
  <2>3. args[1] \in X
    BY <2>1, <2>2, ElementOfSeq
  <2> QED BY <2>3 DEF X
<1>3. source # <<>>
  <2> SUFFICES ASSUME source = <<>> PROVE FALSE
    OBVIOUS
  <2>1. pathresolver(t, <<>>) = <<>>
    BY DirResolves DEF IsDir
  <2> QED BY <2>1 DEF IsTree
<1>4. copyexec(t, args) = CopyOne(on, source, r)
  <2>1. PICK g : /\ copyexec(t, args) = g[Len(Front(args))]
                 /\ g[0] = Untouched(t)
                 /\ \A i \in 1..Len(Front(args)) : g[i] = CopyOne(on, Front(args)[i], g[i - 1])
    BY <1>1, CopySteps, ZenonT(30)
  <2> HIDE DEF on, source
  <2>2. 1 \in 1..1 /\ 1 - 1 = 0
    OBVIOUS
  <2> QED BY <1>1, <2>1, <2>2
<1>5. Place(t, d) /\ Spot(t, d) = d /\ d \notin DOMAIN t
  <2>1. d = Target(t, args, source) /\ CanMake(t, Target(t, args, source))
    OBVIOUS
  <2> HIDE DEF source
  <2>2. /\ Place(t, Target(t, args, source)) /\ Target(t, args, source) \notin DOMAIN t
        /\ Spot(t, Target(t, args, source)) = Target(t, args, source)
    BY <1>1, <1>2, <1>3, <2>1, TargetPlace
  <2> QED BY <2>1, <2>2
<1>6. s \notin Links(t) /\ s # Err /\ s \in Seq(Names)
  <2>1. s \in Seq(Names)
    BY DEF IsTree
  <2>2. IsPrefix(s, s)
    BY <2>1, PrefixFacts
  <2> QED
    BY <2>1, <2>2, SpecialNames DEF Shallow, Below
<1>7. checkDir(t, s) <=> IsDir(t, s)
  BY <1>6, TreePlaces, PlaceResolves DEF checkDir
<1>8. r.tree = t /\ ~r.stopped /\ on.args = args /\ on.order = order
  BY DEF Untouched
<1> HIDE DEF on, r
<1>9. CopyOne(on, source, r).tree = IF IsDir(t, s) THEN CopyDir(t, s, d, order, 0) ELSE copy_file(t, s, d)
  BY <1>6, <1>7, <1>8 DEF CopyOne
<1>10. CASE IsDir(t, s)
  <2>1. Copyable(t, s, d)
    BY <1>5, <1>10 DEF Copyable
  <2> QED
    BY <1>4, <1>5, <1>9, <1>10, <2>1, CopyingGrafts DEF Grafts
<1>11. CASE ~IsDir(t, s)
  <2>1. copy_file(t, s, d) = Grafted(t, s, d)
    BY <1>5, <1>6, <1>11, CopyFileGrafts
  <2> QED
    BY <1>4, <1>5, <1>9, <1>11, <2>1
<1> QED
  BY <1>10, <1>11

LEMMA CopyCarriedOut ==
  ASSUME Next, done \in Nat, done' = done + 1, keys.task = "copy", keys.args \in Seq(Seq(PathNames))
  PROVE  FileCommand(keys)
<1>1. done' # done
  OBVIOUS
<1>2. commandexec
  BY <1>1 DEF Next, normalmode, commandmode, cursorKey, enter, EnterDirectory, OpenFile, EnterNothing,
       goto_parent_dir, goforward, goback, goHome, Visit, lineVars, colon, backspace,
       exitcommandmode, Type, quit, resizehandler
<1>3. Needed(keys.task) = 0 /\ Len(keys.args) \in Nat
  BY DEF Needed
<1>4. ~DiesOnTheWay(keys)
  BY <1>3 DEF DiesOnTheWay
<1> QED
  BY <1>2, <1>4 DEF commandexec, goto

LEMMA CopyStep ==
  ASSUME DirectoriesRecur, IsTree(fs), done \in Nat, LineTyped, order \in Orders, Next,
         Carries("copy")
  PROVE  /\ DOMAIN fs \subseteq DOMAIN fs'
         /\ Clean => fs' = Grafted(fs, Source, Spot(fs, Destination))
<1>1. keys.task = "copy" /\ done' = done + 1 /\ keys.args \in Seq(Seq(PathNames))
  BY LineArgs DEF Carries
<1>2. fs' = copyexec(fs, keys.args).tree
  BY <1>1, CopyCarriedOut DEF FileCommand, Result
<1>3. Grows(fs', fs)
  BY <1>1, <1>2, CopyexecGrows
<1>4. ASSUME Clean PROVE fs' = Grafted(fs, Source, Spot(fs, Destination))
  <2>1. Shallow(fs, Source, 0)
    BY <1>4, FileTreeAssumption DEF Clean, Shallow, Plain, Links
  <2> QED
    BY <1>1, <1>2, <1>4, <2>1, CopyexecGrafts DEF Clean, Source, Destination
<1> QED
  BY <1>3, <1>4 DEF Grows

(* copy lets nothing disappear, whatever its sources, their links and      *)
(* where it goes; and one source without links is copied exactly to a free *)
(* place outside of it, with all that is in it and nothing else changed.   *)
THEOREM CopyExact ==
  ASSUME DirectoriesRecur
  PROVE  Spec => CopyIsExact
<1>1. Init => PlaceInv
  BY PlaceInit
<1>2. ExplorerInv /\ PlaceInv /\ [Next]_vars => PlaceInv'
  BY RecursionKeepsTrees, PlaceStays
<1>3. ExplorerInv /\ PlaceInv /\ [Next]_vars =>
        [Carries("copy") =>
           /\ DOMAIN fs \subseteq DOMAIN fs'
           /\ Clean => fs' = Grafted(fs, Source, Spot(fs, Destination))]_vars
  BY CopyStep DEF ExplorerInv, PlaceInv
<1> QED
  BY <1>1, <1>2, <1>3, ExplorerInvariant, PTL DEF Spec, CopyIsExact
=============================================================================
