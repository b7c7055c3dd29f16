---------------------------- MODULE FiniteInduction ----------------------------
(* What the proofs need of folds over finite sets and sequences: that they *)
(* are defined, and what their steps are.  A proof about a fold is one     *)
(* about an INSTANCE of this module with the step of that fold.            *)
EXTENDS Integers, Sequences, FiniteSets, FiniteSetTheorems, WellFoundedInduction, TLAPS

CONSTANT Step(_, _, _)  \* from a context, an element and the value before it

(* Among the subsets of a finite set some are minimal. *)
LEMMA MinimalSet ==
  ASSUME NEW S, IsFiniteSet(S), NEW F \in SUBSET SUBSET S, F # {}
  PROVE  \E T \in F : \A U \in F : U \subseteq T => U = T
<1>1. F \subseteq FiniteSubsetsOf(S)
  <2> SUFFICES ASSUME NEW T \in F PROVE IsFiniteSet(T)
    BY DEF FiniteSubsetsOf
  <2> QED BY FS_Subset
<1>2. PICK T \in F : \A U \in F : ~ (<<U, T>> \in StrictSubsetOrdering(S))
  BY <1>1, FS_StrictSubsetOrderingWellFounded, WFMin
<1>3. ASSUME NEW U \in F, U \subseteq T PROVE U = T
  BY <1>2, <1>3 DEF StrictSubsetOrdering
<1> QED BY <1>3

-----------------------------------------------------------------------------

(* iter folds f over the subsets of S: base for none, and what f has for   *)
(* the element that pick takes put to the rest.                            *)
Folds(iter, S, pick, f, cx, base) ==
  iter = [s \in SUBSET S |-> IF s = {} THEN base ELSE Step(cx, f[pick[s]], iter[s \ {pick[s]}])]

LEMMA FoldUnique ==
  ASSUME NEW S, IsFiniteSet(S), NEW T \in SUBSET S, NEW pick, NEW f, NEW cx, NEW base,
         \A s \in SUBSET S : s # {} => pick[s] \in s,
         NEW h, Folds(h, S, pick, f, cx, base), NEW g, Folds(g, T, pick, f, cx, base)
  PROVE  \A s \in SUBSET T : h[s] = g[s]
<1> SUFFICES ASSUME \E s \in SUBSET T : h[s] # g[s] PROVE FALSE
  OBVIOUS
<1> DEFINE F == {s \in SUBSET T : h[s] # g[s]}
<1>1. F \in SUBSET SUBSET T /\ F # {} /\ IsFiniteSet(T)
  BY FS_Subset
<1> HIDE DEF F
<1>2. PICK s \in F : \A U \in F : U \subseteq s => U = s
  BY <1>1, MinimalSet
<1> USE DEF F
<1>3. h[s] = IF s = {} THEN base ELSE Step(cx, f[pick[s]], h[s \ {pick[s]}])
  BY DEF Folds
<1>4. g[s] = IF s = {} THEN base ELSE Step(cx, f[pick[s]], g[s \ {pick[s]}])
  BY DEF Folds
<1>5. s # {} /\ pick[s] \in s
  BY <1>3, <1>4
<1>6. h[s \ {pick[s]}] = g[s \ {pick[s]}]
  BY <1>2, <1>5
<1> QED BY <1>3, <1>4, <1>6

(* Over a finite set there is such a function. *)
LEMMA FoldExists ==
  ASSUME NEW S, IsFiniteSet(S), NEW pick, NEW f, NEW cx, NEW base,
         \A s \in SUBSET S : s # {} => pick[s] \in s
  PROVE  \E h : Folds(h, S, pick, f, cx, base)
<1> SUFFICES ASSUME ~ \E h : Folds(h, S, pick, f, cx, base) PROVE FALSE
  OBVIOUS
<1> DEFINE Has(T) == \E h : Folds(h, T, pick, f, cx, base)
<1>1. PICK T \in SUBSET S : ~Has(T) /\ \A U \in SUBSET T : U # T => Has(U)
  <2> DEFINE F == {T \in SUBSET S : ~Has(T)}
  <2>1. F \in SUBSET SUBSET S /\ F # {}
    OBVIOUS
  <2> HIDE DEF F
  <2>2. PICK T \in F : \A U \in F : U \subseteq T => U = T
    BY <2>1, MinimalSet
  <2> QED BY <2>2 DEF F
<1> DEFINE sol(W) == CHOOSE h : Folds(h, W, pick, f, cx, base)
           g == [s \in SUBSET T |-> IF s = {} THEN base
                                    ELSE Step(cx, f[pick[s]], sol(s \ {pick[s]})[s \ {pick[s]}])]
<1>2. \A W \in SUBSET T : W # T => Folds(sol(W), W, pick, f, cx, base)
  BY <1>1
<1> HIDE DEF sol
<1>3. ASSUME NEW s \in SUBSET T, s # T PROVE g[s] = sol(s)[s]
  <2>1. sol(s)[s] = IF s = {} THEN base ELSE Step(cx, f[pick[s]], sol(s)[s \ {pick[s]}])
    <3>1. Folds(sol(s), s, pick, f, cx, base) /\ s \in SUBSET s
      BY <1>2, <1>3
    <3> QED BY <3>1 DEF Folds
  <2>2. CASE s = {}
    BY <2>1, <2>2
  <2>3. CASE s # {}
    <3> DEFINE r == s \ {pick[s]}
    <3>1. pick[s] \in s /\ r \in SUBSET s /\ r # T /\ s \in SUBSET S /\ IsFiniteSet(s)
      BY <1>3, <2>3, FS_Subset
    <3>2. /\ Folds(sol(s), s, pick, f, cx, base)
          /\ Folds(sol(r), r, pick, f, cx, base)
      BY <1>2, <1>3, <3>1
    <3>3. \A x \in SUBSET s : x # {} => pick[x] \in x
      BY <3>1
    <3> HIDE DEF sol, r
    <3>4. \A x \in SUBSET r : sol(s)[x] = sol(r)[x]
      BY <3>1, <3>2, <3>3, FoldUnique
    <3>5. sol(s)[r] = sol(r)[r]
      BY <3>4
    <3> QED BY <2>1, <2>3, <3>5 DEF r
  <2> QED BY <2>2, <2>3
<1>4. ASSUME NEW s \in SUBSET T, s # {} PROVE g[s] = Step(cx, f[pick[s]], g[s \ {pick[s]}])
  <2>1. pick[s] \in s /\ s \ {pick[s]} \in SUBSET T /\ s \ {pick[s]} # T
    BY <1>4
  <2>2. g[s \ {pick[s]}] = sol(s \ {pick[s]})[s \ {pick[s]}]
    BY <1>3, <2>1
  <2>3. g[s] = Step(cx, f[pick[s]], sol(s \ {pick[s]})[s \ {pick[s]}])
    BY <1>4
  <2> QED BY <2>2, <2>3
<1>5. g[{}] = base
  OBVIOUS
<1> HIDE DEF sol
<1>6. g = [s \in SUBSET T |-> g[s]]
  OBVIOUS
<1> HIDE DEF g
<1>7. Folds(g, T, pick, f, cx, base)
  BY <1>4, <1>5, <1>6 DEF Folds
<1> QED BY <1>1, <1>7

-----------------------------------------------------------------------------

-----------------------------------------------------------------------------
(* The same over a sequence, from its first element to the last. *)
Greatest(s) == CHOOSE i \in s : \A j \in s : i >= j

SeqFolds(iter, seq, cx, base) ==
  iter = [s \in SUBSET DOMAIN seq |->
            IF s = {} THEN base
            ELSE Step(cx, seq[Greatest(s)], iter[s \ {Greatest(s)}])]

SeqFold(seq, cx, base) == (CHOOSE iter : SeqFolds(iter, seq, cx, base))[DOMAIN seq]

LEMMA GreatestIsIn ==
  ASSUME NEW n \in Nat, NEW s \in SUBSET (1..n), s # {}
  PROVE  Greatest(s) \in s /\ \A j \in s : Greatest(s) >= j
<1> DEFINE F == {U \in SUBSET (1..n) : \E i \in s : U = i..n}
<1>1. IsFiniteSet(1..n)
  BY FS_Interval
<1>2. F \in SUBSET SUBSET (1..n) /\ F # {}
  <2>1. PICK i \in s : TRUE
    OBVIOUS
  <2>2. i..n \in SUBSET (1..n)
    OBVIOUS
  <2> QED BY <2>1, <2>2
<1>3. PICK T \in F : \A U \in F : U \subseteq T => U = T
  <2> DEFINE S == 1..n
  <2>1. IsFiniteSet(S) /\ F \in SUBSET SUBSET S /\ F # {}
    BY <1>1, <1>2
  <2> HIDE DEF F, S
  <2> QED BY <2>1, MinimalSet
<1>4. PICK i \in s : T = i..n
  OBVIOUS
<1>5. ASSUME NEW j \in s, j > i PROVE FALSE
  <2>1. j..n \in F /\ j..n \subseteq T
    BY <1>4, <1>5
  <2>2. i \in T /\ i \notin j..n
    BY <1>4, <1>5
  <2> QED BY <1>3, <2>1, <2>2
<1>6. \A j \in s : i >= j
  BY <1>5
<1> QED BY <1>6 DEF Greatest

LEMMA GreatestOfInterval ==
  ASSUME NEW n \in Nat, NEW k \in 1..n
  PROVE  Greatest(1..k) = k /\ (1..k) \ {k} = 1..(k - 1)
<1>1. Greatest(1..k) \in 1..k /\ \A j \in 1..k : Greatest(1..k) >= j
  <2>1. 1..k \in SUBSET (1..n) /\ 1..k # {}
    OBVIOUS
  <2> QED BY <2>1, GreatestIsIn, Zenon
<1> QED BY <1>1

(* The steps of a fold over a sequence are g[0], g[1], ... *)
LEMMA SeqFoldSteps ==
  ASSUME NEW X, NEW seq \in Seq(X), NEW cx, NEW base
  PROVE  \E g : /\ SeqFold(seq, cx, base) = g[Len(seq)]
                /\ g[0] = base
                /\ \A i \in 1..Len(seq) : g[i] = Step(cx, seq[i], g[i - 1])
<1> DEFINE n == Len(seq)
           pick == [s \in SUBSET (1..n) |-> Greatest(s)]
           it == CHOOSE iter : SeqFolds(iter, seq, cx, base)
           g == [i \in 0..n |-> it[1..i]]
<1>1. n \in Nat /\ DOMAIN seq = 1..n /\ IsFiniteSet(1..n)
  BY FS_Interval
<1> HIDE DEF n
<1>2. \A s \in SUBSET (1..n) : pick[s] = Greatest(s) /\ (s # {} => pick[s] \in s)
  BY <1>1, GreatestIsIn
<1> HIDE DEF pick
<1>3. PICK h : Folds(h, 1..n, pick, seq, cx, base)
  BY <1>1, <1>2, FoldExists
<1>4. h = [s \in SUBSET DOMAIN seq |->
            IF s = {} THEN base
            ELSE Step(cx, seq[Greatest(s)], h[s \ {Greatest(s)}])]
  BY <1>1, <1>2, <1>3 DEF Folds
<1>5. SeqFolds(it, seq, cx, base)
  BY <1>4 DEF SeqFolds
<1>6. it = [s \in SUBSET (1..n) |->
            IF s = {} THEN base
            ELSE Step(cx, seq[Greatest(s)], it[s \ {Greatest(s)}])]
  BY <1>1, <1>5 DEF SeqFolds
<1> HIDE DEF it
<1>7. it[{}] = base
  BY <1>6
<1>8. ASSUME NEW i \in 1..n
      PROVE  it[1..i] = Step(cx, seq[i], it[1..(i - 1)])
  <2>1. 1..i \in SUBSET (1..n) /\ 1..i # {}
    <3>1. n \in Nat
      BY <1>1
    <3> HIDE <1>1
    <3> QED BY <3>1
  <2>2. Greatest(1..i) = i /\ (1..i) \ {i} = 1..(i - 1)
    BY <1>1, GreatestOfInterval
  <2> QED BY <1>6, <2>1, <2>2
<1>9. g[0] = base
  <2>1. 1..0 = {}
    OBVIOUS
  <2> QED BY <1>1, <1>7, <2>1
<1>10. \A i \in 1..n : g[i] = Step(cx, seq[i], g[i - 1])
  BY <1>1, <1>8
<1>11. it[DOMAIN seq] = g[n]
  BY <1>1
<1> QED BY <1>9, <1>10, <1>11 DEF it, n, SeqFold

(* The same, named: g goes through the fold one element after another. *)
Walks(g, seq, cx, base) ==
  /\ g[0] = base
  /\ \A i \in 1..Len(seq) : g[i] = Step(cx, seq[i], g[i - 1])

LEMMA SeqFoldWalks ==
  ASSUME NEW X, NEW seq \in Seq(X), NEW cx, NEW base
  PROVE  \E g : SeqFold(seq, cx, base) = g[Len(seq)] /\ Walks(g, seq, cx, base)
BY SeqFoldSteps DEF Walks

(* What holds of 0, and of each number after one it holds of, up to n. *)
LEMMA StepByStep ==
  ASSUME NEW n \in Nat, NEW Q, 0 \in Q, \A i \in 1..n : i - 1 \in Q => i \in Q
  PROVE  n \in Q
<1> SUFFICES ASSUME n \notin Q PROVE FALSE
  OBVIOUS
<1> DEFINE F == {U \in SUBSET (1..n) : \E i \in 1..n : U = 1..i /\ i \notin Q}
<1>1. IsFiniteSet(1..n)
  BY FS_Interval
<1>2. F \in SUBSET SUBSET (1..n) /\ F # {}
  <2>1. n \in 1..n /\ 1..n \in SUBSET (1..n)
    OBVIOUS
  <2> QED BY <2>1
<1>3. PICK T \in F : \A U \in F : U \subseteq T => U = T
  <2> DEFINE S == 1..n
  <2>1. IsFiniteSet(S) /\ F \in SUBSET SUBSET S /\ F # {}
    BY <1>1, <1>2
  <2> HIDE DEF F, S
  <2> QED BY <2>1, MinimalSet
<1>4. PICK i \in 1..n : T = 1..i /\ i \notin Q
  OBVIOUS
<1>5. i - 1 \in 1..n /\ i - 1 \notin Q
  BY <1>4
<1>6. 1..(i - 1) \in F /\ 1..(i - 1) \subseteq T /\ i \in T /\ i \notin 1..(i - 1)
  <2>1. 1..(i - 1) \in SUBSET (1..n) /\ 1..(i - 1) \subseteq 1..i /\ i \in 1..i /\ i \notin 1..(i - 1)
    BY <1>4
  <2> QED BY <1>4, <1>5, <2>1
<1> QED BY <1>3, <1>6
=============================================================================
